--------------------------- MODULE StartupProofs ----------------------------
(***************************************************************************)
(* The crash safety of config.yaml and of the provider's identity, for     *)
(* every set of mnemonics, network sections, endpoints and environments,   *)
(* and for every point at which the process may be killed.                 *)
(***************************************************************************)
EXTENDS Startup, FiniteSetTheorems, TLAPS

\* The process: the keys it holds come from the mnemonic it has loaded.
Loading == [pc: {"saving", "starting"}, cfg: Config, root: Keys]

ProcInv ==
    \/ proc = Down
    \/ /\ proc \in Loading
       /\ proc.cfg.mnemonic \in Mnemonic
       /\ proc.cfg.key = Root(proc.cfg.mnemonic) /\ proc.root = proc.cfg.key
    \/ /\ proc.pc = "up" /\ proc.cfg \in Config
       /\ proc.cfg.mnemonic \in Mnemonic
       /\ proc.cfg.key = Root(proc.cfg.mnemonic)
       /\ proc.id = proc.cfg.key /\ proc.signer = proc.cfg.key
       /\ proc.port \in 0..MaxPort /\ proc.sockets \subseteq Sockets
       /\ proc.dht \subseteq DhtNode \cup DnsHosts \cup {SmartnetDht, Torn}
       /\ proc.clients \subseteq {"lookup", "monitor"}

DiskInv ==
    /\ file \in [text: Config, upTo: Parts]
    /\ good \in Config
    /\ boot \subseteq DhtNode \cup {Torn} /\ Cardinality(boot) <= DhtBootMax

\* What is on disk of the running configuration: a save that is under way writes it, and
\* afterwards identity and network are as they were loaded.  A file that broke off never
\* loses the network section without losing the endpoints behind it too.
FileInv ==
    /\ file.upTo = "none" => file.text = Default
    /\ file.text.net = good.net
    /\ proc.pc = "saving" => file.text = proc.cfg
    /\ proc # Down => /\ file.text.mnemonic = proc.cfg.mnemonic
                      /\ file.text.key = proc.cfg.key
                      /\ file.text.net = proc.cfg.net

\* The identities that came up are the one of the file, which exists by then.
IdsInv ==
    /\ ids \subseteq {Root(file.text.mnemonic)} \cap Keys
    /\ file.text.mnemonic = NoMnemonic => ids = {}

\* What was bound, once it was: it follows from the loaded network section.
BoundInv ==
    proc.pc = "up" =>
        /\ "valid" \in proc.cfg.net.relays => proc.sockets = {} /\ proc.port = 0
        /\ ~proc.cfg.net.dht => proc.clients = {}
        /\ PortIsBound

IInv == ProcInv /\ DiskInv /\ FileInv /\ IdsInv /\ BoundInv

-----------------------------------------------------------------------------
(* Loading the configuration                                                *)

\* Config::default() is a configuration.
LEMMA DefaultFacts ==
    /\ Default \in Config /\ Default.mnemonic = NoMnemonic /\ Default.net = DefaultNetwork
    /\ NoMnemonic \notin Mnemonic
  BY StartupAssumption DEF Default, Config, Keys

\* Setting one field of a configuration.
LEMMA ConfigExcept ==
    ASSUME NEW c \in Config
    PROVE  /\ \A m \in Mnemonic \cup {NoMnemonic, BadMnemonic} :
                LET d == [c EXCEPT !.mnemonic = m]
                IN  d \in Config /\ d = [mnemonic |-> m, key |-> c.key, net |-> c.net, endpoints |-> c.endpoints]
           /\ \A k \in Keys :
                LET d == [c EXCEPT !.key = k]
                IN  d \in Config /\ d = [mnemonic |-> c.mnemonic, key |-> k, net |-> c.net, endpoints |-> c.endpoints]
           /\ \A n \in Networks :
                LET d == [c EXCEPT !.net = n]
                IN  d \in Config /\ d = [mnemonic |-> c.mnemonic, key |-> c.key, net |-> n, endpoints |-> c.endpoints]
           /\ \A S \in SUBSET Endpoint :
                LET d == [c EXCEPT !.endpoints = S]
                IN  d \in Config /\ d = [mnemonic |-> c.mnemonic, key |-> c.key, net |-> c.net, endpoints |-> S]
  BY DEF Config

\* Whatever a crash has left of config.yaml, what parses has the file's identity, and its
\* network too unless its endpoints are gone.
LEMMA ParsedFacts ==
    ASSUME DiskInv, FileInv, NEW c \in Parsed
    PROVE  /\ c \in Config /\ c.mnemonic = file.text.mnemonic /\ c.key = file.text.key
           /\ HasEndpoints(c) => c.net = file.text.net
  <1>1. file.text \in Config /\ file.upTo \in Parts
    BY DEF DiskInv
  <1>2. CASE file.upTo = "whole"
    BY <1>1, <1>2 DEF Parsed
  <1>3. CASE file.upTo = "none"
    <2>1. c = Default /\ file.text = Default
      BY <1>3 DEF Parsed, FileInv
    <2> QED BY <2>1, DefaultFacts
  <1>4. CASE file.upTo = "identity"
    BY <1>4 DEF Parsed
  <1>5. CASE file.upTo = "network"
    <2>1. PICK n \in {file.text.net, DefaultNetwork} :
             c = [file.text EXCEPT !.net = n, !.endpoints = {}]
      BY <1>5 DEF Parsed
    <2>2. n \in Networks
      BY <1>1, StartupAssumption DEF Config
    <2>3. c = [mnemonic |-> file.text.mnemonic, key |-> file.text.key, net |-> n, endpoints |-> {}]
      BY <1>1, <2>1 DEF Config
    <2> QED BY <1>1, <2>2, <2>3 DEF Config, HasEndpoints
  <1>6. CASE file.upTo = "endpoints"
    <2>1. PICK S \in SUBSET file.text.endpoints : c = [file.text EXCEPT !.endpoints = S]
      BY <1>6 DEF Parsed
    <2>2. S \in SUBSET Endpoint
      BY <1>1 DEF Config
    <2>3. c \in Config
      BY <1>1, <2>1, <2>2, ConfigExcept
    <2>4. c = [mnemonic |-> file.text.mnemonic, key |-> file.text.key, net |-> file.text.net, endpoints |-> S]
      BY <1>1, <2>1, <2>2, ConfigExcept
    <2> QED BY <2>3, <2>4
  <1> QED BY <1>1, <1>2, <1>3, <1>4, <1>5, <1>6 DEF Parts

\* What load_or_init() makes of it: a blank mnemonic is replaced, any other is kept, and
\* the key follows the mnemonic.
LEMMA LoadedFacts ==
    ASSUME NEW c0 \in Config, NEW c1 \in WithMnemonic(c0), c1.mnemonic # BadMnemonic
    PROVE  /\ c1 \in Config /\ c1.mnemonic \in Mnemonic
           /\ c0.mnemonic # NoMnemonic => c1.mnemonic = c0.mnemonic
           /\ c1.net = c0.net /\ c1.endpoints = c0.endpoints
           /\ WithKey(c1) \in Config
           /\ WithKey(c1) = [mnemonic |-> c1.mnemonic, key |-> Root(c1.mnemonic),
                             net |-> c0.net, endpoints |-> c0.endpoints]
  <1>1. CASE c0.mnemonic = NoMnemonic
    <2>1. PICK m \in Mnemonic : c1 = [c0 EXCEPT !.mnemonic = m]
      BY <1>1 DEF WithMnemonic
    <2>2. c1 = [mnemonic |-> m, key |-> c0.key, net |-> c0.net, endpoints |-> c0.endpoints] /\ c1 \in Config
      BY <2>1, ConfigExcept
    <2>3. Root(c1.mnemonic) \in Keys
      BY <2>2 DEF Keys
    <2> QED BY <1>1, <2>2, <2>3, ConfigExcept DEF WithKey
  <1>2. CASE c0.mnemonic # NoMnemonic
    <2>1. c1 = c0
      BY <1>2 DEF WithMnemonic
    <2>2. c1.mnemonic \in Mnemonic
      BY <1>2, <2>1 DEF Config
    <2>3. Root(c1.mnemonic) \in Keys
      BY <2>2 DEF Keys
    <2> QED BY <1>2, <2>1, <2>2, <2>3, ConfigExcept DEF WithKey
  <1> QED BY <1>1, <1>2

\* A root key is a key, and no key is the empty one.
LEMMA RootFacts ==
    ASSUME NEW m \in Mnemonic
    PROVE  Root(m) \in Keys \ {NoKey}
  BY DEF Root, Keys, NoKey

-----------------------------------------------------------------------------
(* The steps                                                                *)

\* Nothing is on disk and nothing runs.
LEMMA InitInv == Init => IInv
  <1> SUFFICES ASSUME Init PROVE IInv
    OBVIOUS
  <1>1. proc = Down /\ proc.pc = "down"
    BY DEF Init, Down
  <1>2. ProcInv /\ BoundInv
    BY <1>1 DEF ProcInv, BoundInv
  <1>3. DiskInv
    <2>1. Cardinality(boot) = 0 /\ boot = {}
      BY FS_EmptySet DEF Init
    <2>2. file \in [text: Config, upTo: Parts] /\ good \in Config
      BY DefaultFacts DEF Init, Parts
    <2> QED BY <2>1, <2>2, StartupAssumption DEF DiskInv
  <1>4. FileInv /\ IdsInv
    BY <1>1 DEF Init, FileInv, IdsInv
  <1> QED BY <1>2, <1>3, <1>4 DEF IInv

\* load_or_init(): the identity that the file has is kept; only a blank one is replaced,
\* and with a blank one no provider has come up.
LEMMA LoadInv == IInv /\ LoadOrInit => IInv'
  <1> SUFFICES ASSUME IInv, LoadOrInit PROVE IInv'
    OBVIOUS
  <1>0. PICK c0 \in Parsed : \E c1 \in WithMnemonic(c0) :
          /\ c1.mnemonic # BadMnemonic /\ HasEndpoints(c1)
          /\ LET c == WithKey(c1)
                 dirty == file.upTo = "none" \/ c # c0 IN
               /\ proc' = [pc |-> IF dirty THEN "saving" ELSE "starting", cfg |-> c, root |-> c.key]
               /\ file' = IF dirty THEN [text |-> c, upTo |-> "identity"] ELSE file
    BY DEF LoadOrInit
  <1>1. PICK c1 \in WithMnemonic(c0) :
          /\ c1.mnemonic # BadMnemonic /\ HasEndpoints(c1)
          /\ LET c == WithKey(c1)
                 dirty == file.upTo = "none" \/ c # c0 IN
               /\ proc' = [pc |-> IF dirty THEN "saving" ELSE "starting", cfg |-> c, root |-> c.key]
               /\ file' = IF dirty THEN [text |-> c, upTo |-> "identity"] ELSE file
    BY <1>0
  <1> DEFINE c == WithKey(c1)
             dirty == file.upTo = "none" \/ c # c0
  <1>2. /\ proc = Down /\ UNCHANGED <<good, boot, ids>>
        /\ proc' = [pc |-> IF dirty THEN "saving" ELSE "starting", cfg |-> c, root |-> c.key]
        /\ file' = IF dirty THEN [text |-> c, upTo |-> "identity"] ELSE file
    BY <1>1 DEF LoadOrInit
  <1>3. /\ c0 \in Config /\ c0.mnemonic = file.text.mnemonic /\ c0.key = file.text.key
        /\ HasEndpoints(c0) => c0.net = file.text.net
    BY ParsedFacts DEF IInv
  <1>4. /\ c1.mnemonic \in Mnemonic /\ c1.endpoints = c0.endpoints /\ c \in Config
        /\ c0.mnemonic # NoMnemonic => c1.mnemonic = c0.mnemonic
        /\ c = [mnemonic |-> c1.mnemonic, key |-> Root(c1.mnemonic), net |-> c0.net, endpoints |-> c0.endpoints]
    BY <1>1, <1>3, LoadedFacts
  <1> HIDE DEF c
  <1>5. /\ c.mnemonic \in Mnemonic /\ c.key = Root(c.mnemonic) /\ c.net = file.text.net
        /\ file.text.mnemonic # NoMnemonic => c.mnemonic = file.text.mnemonic
        /\ c.mnemonic # NoMnemonic
    BY <1>1, <1>3, <1>4, DefaultFacts DEF HasEndpoints
  <1>6. /\ proc' \in Loading /\ proc'.pc \in {"saving", "starting"} /\ proc'.cfg = c /\ proc'.root = c.key
        /\ proc'.pc = "saving" => dirty
    <2>1. c.key \in Keys
      BY <1>4, <1>5, RootFacts
    <2> QED BY <1>2, <1>4, <2>1 DEF Loading
  <1>7. ProcInv' /\ BoundInv'
    BY <1>5, <1>6 DEF ProcInv, BoundInv
  <1>8. DiskInv'
    BY <1>2, <1>4 DEF IInv, DiskInv, Parts
  <1>9. CASE dirty
    <2>1. file'.text = c /\ file'.upTo = "identity"
      BY <1>2, <1>9
    <2>2. FileInv'
      BY <1>2, <1>5, <1>6, <2>1 DEF IInv, FileInv
    <2>3. IdsInv'
      <3>1. CASE file.text.mnemonic = NoMnemonic
        BY <1>2, <1>5, <2>1, <3>1 DEF IInv, IdsInv
      <3>2. CASE file.text.mnemonic # NoMnemonic
        BY <1>2, <1>5, <2>1, <3>2 DEF IInv, IdsInv
      <3> QED BY <3>1, <3>2
    <2> QED BY <1>7, <1>8, <2>2, <2>3 DEF IInv
  <1>10. CASE ~dirty
    <2>1. file' = file /\ c = c0 /\ file.upTo # "none" /\ proc'.pc = "starting"
      BY <1>2, <1>6, <1>10
    <2>2. FileInv'
      BY <1>2, <1>3, <1>5, <1>6, <2>1 DEF IInv, FileInv
    <2>3. IdsInv'
      BY <1>2, <2>1 DEF IInv, IdsInv
    <2> QED BY <1>7, <1>8, <2>2, <2>3 DEF IInv
  <1> QED BY <1>9, <1>10

\* save() ends: the file is the configuration that was loaded.
LEMMA SaveInv == IInv /\ Save => IInv'
  <1> SUFFICES ASSUME IInv, Save PROVE IInv'
    OBVIOUS
  <1>1. /\ proc.pc = "saving" /\ file' = [text |-> proc.cfg, upTo |-> "whole"] /\ good' = proc.cfg
        /\ proc' = [proc EXCEPT !.pc = "starting"] /\ UNCHANGED <<boot, ids>>
    BY DEF Save
  <1>2. /\ proc \in Loading /\ proc # Down /\ proc.cfg.mnemonic \in Mnemonic
        /\ proc.cfg.key = Root(proc.cfg.mnemonic) /\ proc.root = proc.cfg.key
    <2>1. proc # Down
      BY <1>1 DEF Down
    <2> QED BY <1>1, <2>1 DEF IInv, ProcInv
  <1>3. /\ proc' \in Loading /\ proc'.pc = "starting" /\ proc'.cfg = proc.cfg /\ proc'.root = proc.root
    BY <1>1, <1>2 DEF Loading
  <1>4. ProcInv' /\ BoundInv'
    BY <1>2, <1>3 DEF ProcInv, BoundInv
  <1>5. proc.cfg \in Config
    BY <1>2 DEF Loading
  <1>6. DiskInv'
    BY <1>1, <1>5 DEF IInv, DiskInv, Parts
  <1>7. FileInv'
    BY <1>1, <1>3 DEF FileInv
  <1>8. IdsInv'
    BY <1>1, <1>2 DEF IInv, IdsInv, FileInv
  <1> QED BY <1>4, <1>6, <1>7, <1>8 DEF IInv

\* Killed or stopped: a save that is under way leaves the file at any of its parts, with
\* the identity and the network it was going to have.
LEMMA EndsInv ==
    ASSUME IInv, NEW part \in Parts \ {"none"}, Ends(part)
    PROVE  IInv'
  <1>1. /\ proc' = Down /\ proc # Down /\ UNCHANGED <<boot, ids>> /\ proc'.pc = "down"
    BY DEF Ends, Down
  <1>2. ProcInv' /\ BoundInv'
    BY <1>1 DEF ProcInv, BoundInv
  <1>3. CASE proc.pc = "saving"
    <2>1. proc \in Loading
      BY <1>1, <1>3 DEF IInv, ProcInv
    <2>2. /\ proc.cfg \in Config /\ file.text = proc.cfg /\ file.text.net = good.net
      BY <1>3, <2>1 DEF IInv, FileInv, Loading
    <2>3. /\ file' = [file EXCEPT !.upTo = part]
          /\ good' = proc.cfg \/ good' = good
      BY <1>3 DEF Ends
    <2>4. file'.text = file.text /\ file'.upTo = part /\ file' \in [text: Config, upTo: Parts]
      BY <2>3 DEF IInv, DiskInv
    <2>5. good' \in Config /\ good'.net = file.text.net
      BY <2>2, <2>3 DEF IInv, DiskInv
    <2>6. DiskInv'
      BY <1>1, <2>4, <2>5 DEF IInv, DiskInv
    <2>7. FileInv' /\ IdsInv'
      BY <1>1, <2>4, <2>5 DEF IInv, FileInv, IdsInv
    <2> QED BY <1>2, <2>6, <2>7 DEF IInv
  <1>4. CASE proc.pc # "saving"
    <2>1. UNCHANGED <<file, good>>
      BY <1>4 DEF Ends
    <2> QED BY <1>1, <1>2, <2>1 DEF IInv, DiskInv, FileInv, IdsInv
  <1> QED BY <1>3, <1>4

\* dht_boot.dat is replaced, or cut off by a kill: nothing else depends on it.
LEMMA DhtSaveInv ==
    ASSUME IInv, NEW nodes \in SUBSET (DhtNode \cup {Torn}), Cardinality(nodes) <= DhtBootMax,
           boot' = nodes, UNCHANGED <<file, good, ids>>, proc' = proc \/ proc' = Down
    PROVE  IInv'
  <1>1. DiskInv' /\ IdsInv'
    BY DEF IInv, DiskInv, IdsInv
  <1>2. CASE proc' = proc
    BY <1>1, <1>2 DEF IInv, ProcInv, FileInv, BoundInv, PortIsBound
  <1>3. CASE proc' = Down
    <2>1. proc'.pc = "down"
      BY <1>3 DEF Down
    <2> QED BY <1>1, <1>3, <2>1 DEF IInv, ProcInv, FileInv, BoundInv
  <1> QED BY <1>2, <1>3

\* The operator writes a complete file: another mnemonic is another identity.
LEMMA EditInv ==
    ASSUME IInv, NEW c \in Config, Edit(c)
    PROVE  IInv'
  <1>1. /\ proc = Down /\ proc' = Down /\ file' = [text |-> c, upTo |-> "whole"] /\ good' = c
        /\ ids' = (IF c.mnemonic = file.text.mnemonic THEN ids ELSE {}) /\ boot' = boot
        /\ proc'.pc = "down"
    BY DEF Edit, Down
  <1>2. ProcInv' /\ BoundInv'
    BY <1>1 DEF ProcInv, BoundInv
  <1>3. DiskInv'
    BY <1>1 DEF IInv, DiskInv, Parts
  <1>4. FileInv'
    BY <1>1 DEF FileInv
  <1>5. IdsInv'
    BY <1>1 DEF IInv, IdsInv
  <1> QED BY <1>2, <1>3, <1>4, <1>5 DEF IInv

\* Each of the operator's edits is a complete configuration.
LEMMA OperatorInv == IInv /\ OperatorEdits => IInv'
  <1> SUFFICES ASSUME IInv, OperatorEdits PROVE IInv'
    OBVIOUS
  <1>1. good \in Config
    BY DEF IInv, DiskInv
  <1>2. ASSUME NEW m \in Mnemonic \cup {NoMnemonic, BadMnemonic}, NEW k \in Keys
        PROVE  [good EXCEPT !.mnemonic = m, !.key = k] \in Config
    BY <1>1 DEF Config
  <1>3. ASSUME NEW n \in Networks PROVE [good EXCEPT !.net = n] \in Config
    BY <1>1, ConfigExcept
  <1>4. ASSUME NEW S \in SUBSET Endpoint PROVE [good EXCEPT !.endpoints = S] \in Config
    BY <1>1, ConfigExcept
  <1> QED BY <1>2, <1>3, <1>4, EditInv DEF OperatorEdits

-----------------------------------------------------------------------------
(* Binding                                                                  *)

\* 0, the random port, is a port.
LEMMA MaxPortFact == MaxPort \in Nat /\ 0 \in 0..MaxPort
  BY DEF MaxPort

\* Whatever is bound is bound with the secret that was asked for, at the reported port,
\* and nothing is bound behind a relay.
LEMMA BuilderFacts ==
    ASSUME NEW net, NEW port \in 0..MaxPort, NEW secret, NEW b \in Builders(net, port, secret)
    PROVE  /\ b.key = secret /\ b.sockets \subseteq Sockets
           /\ RelayOnly(net) => b.sockets = {}
           /\ b.sockets # {} => [family |-> "v4", port |-> port] \in b.sockets
           /\ \A s \in b.sockets : s.port = port
  <1>1. CASE RelayOnly(net)
    BY <1>1 DEF Builders
  <1>2. CASE ~RelayOnly(net) /\ port = 0
    <2>1. b = [key |-> secret, sockets |-> Random]
      BY <1>2 DEF Builders
    <2> QED BY <1>2, <2>1 DEF Random, Sockets
  <1>3. CASE ~RelayOnly(net) /\ port # 0
    <2>1. PICK S \in {{}, {"v6"}} : b = [key |-> secret, sockets |-> At(port, {"v4"} \cup S)]
      BY <1>3 DEF Builders
    <2>2. At(port, {"v4"} \cup S) \subseteq Sockets
      BY <2>1 DEF At, Sockets
    <2>3. /\ [family |-> "v4", port |-> port] \in At(port, {"v4"} \cup S)
          /\ \A s \in At(port, {"v4"} \cup S) : s.port = port
      BY DEF At
    <2> QED BY <1>3, <2>1, <2>2, <2>3
  <1> QED BY <1>1, <1>2, <1>3

\* Whatever its text says, the port is a u16, and none behind a relay.
LEMMA PortFacts ==
    ASSUME NEW net, NEW env
    PROVE  QuicPort(net, env) \in 0..MaxPort /\ (RelayOnly(net) => QuicPort(net, env) = 0)
  BY MaxPortFact DEF QuicPort, ParsePort

\* run(): the provider comes up under the identity of its file.
LEMMA BringUpInv == IInv /\ BringUp => IInv'
  <1> SUFFICES ASSUME IInv, BringUp PROVE IInv'
    OBVIOUS
  <1> DEFINE net == proc.cfg.net
  <1>1. PICK env \in {{}} \cup {{t} : t \in EnvText}, dns \in BOOLEAN, spells \in BOOLEAN :
          \E b \in Builders(net, QuicPort(net, env), proc.root), D \in DhtClients(net) :
            /\ proc' = [pc |-> "up", cfg |-> proc.cfg, id |-> b.key, signer |-> proc.root,
                        port |-> QuicPort(net, env), sockets |-> b.sockets,
                        dht |-> Bootstrap(net, dns, spells), clients |-> D]
            /\ ids' = ids \cup {b.key}
    BY DEF BringUp
  <1> DEFINE port == QuicPort(net, env)
             boots == Bootstrap(net, dns, spells)
  <1>2. PICK b \in Builders(net, port, proc.root), D \in DhtClients(net) :
            /\ proc' = [pc |-> "up", cfg |-> proc.cfg, id |-> b.key, signer |-> proc.root,
                        port |-> port, sockets |-> b.sockets, dht |-> boots, clients |-> D]
            /\ ids' = ids \cup {b.key}
    BY <1>1
  <1>3. proc.pc = "starting" /\ UNCHANGED <<file, good, boot>>
    BY DEF BringUp
  <1>4. /\ proc # Down /\ proc \in Loading /\ proc.cfg.mnemonic \in Mnemonic
        /\ proc.cfg.key = Root(proc.cfg.mnemonic) /\ proc.root = proc.cfg.key
    BY <1>3 DEF IInv, ProcInv, Down
  <1>5. port \in 0..MaxPort /\ (RelayOnly(net) => port = 0)
    BY PortFacts
  <1>6. /\ b.key = proc.root /\ b.sockets \subseteq Sockets
        /\ RelayOnly(net) => b.sockets = {}
        /\ b.sockets # {} => [family |-> "v4", port |-> port] \in b.sockets
        /\ \A s \in b.sockets : s.port = port
    BY <1>2, <1>5, BuilderFacts
  <1>7. /\ boots \subseteq DhtNode \cup DnsHosts \cup {SmartnetDht, Torn}
        /\ D \subseteq {"lookup", "monitor"} /\ (~net.dht => D = {})
    BY <1>2 DEF Bootstrap, DhtClients, IInv, DiskInv
  <1>8. /\ proc'.pc = "up" /\ proc'.cfg = proc.cfg /\ proc'.id = proc.root /\ proc'.signer = proc.root
        /\ proc'.port = port /\ proc'.sockets = b.sockets /\ proc'.dht = boots /\ proc'.clients = D
        /\ ids' = ids \cup {proc.root} /\ proc' # Down
    BY <1>2, <1>6 DEF Down
  <1>9. proc.cfg \in Config
    BY <1>4 DEF Loading
  <1> HIDE DEF port, boots
  <1>10. ProcInv'
    BY <1>4, <1>5, <1>6, <1>7, <1>8, <1>9 DEF ProcInv
  <1>11. BoundInv'
    BY <1>5, <1>6, <1>7, <1>8 DEF BoundInv, PortIsBound, RelayOnly
  <1>12. DiskInv' /\ FileInv'
    BY <1>3, <1>4, <1>8 DEF IInv, DiskInv, FileInv
  <1>13. IdsInv'
    <2>1. proc.root = Root(file.text.mnemonic) /\ file.text.mnemonic # NoMnemonic /\ proc.root \in Keys
      BY <1>4, DefaultFacts, RootFacts DEF IInv, FileInv
    <2> QED BY <1>3, <1>8, <2>1 DEF IInv, IdsInv
  <1> QED BY <1>10, <1>11, <1>12, <1>13 DEF IInv

-----------------------------------------------------------------------------
(* The invariant and what follows from it                                   *)

\* The invariant is inductive.
LEMMA NextInv == IInv /\ [Next]_vars => IInv'
  <1> SUFFICES ASSUME IInv, [Next]_vars PROVE IInv'
    OBVIOUS
  <1>1. CASE UNCHANGED vars
    BY <1>1 DEF vars, IInv, ProcInv, DiskInv, FileInv, IdsInv, BoundInv, PortIsBound
  <1>2. ASSUME NEW nodes \in SUBSET DhtNode, SaveDhtBootstrap(nodes)
        PROVE  IInv'
    BY <1>2, DhtSaveInv DEF SaveDhtBootstrap
  <1>3. ASSUME NEW nodes \in SUBSET (DhtNode \cup {Torn}), EndsInDhtSave(nodes)
        PROVE  IInv'
    BY <1>3, DhtSaveInv DEF EndsInDhtSave
  <1> QED BY <1>1, <1>2, <1>3, LoadInv, SaveInv, BringUpInv, EndsInv, OperatorInv DEF Next

\* So it holds through every run and every crash.
LEMMA Invariance == Spec => []IInv
  BY InitInv, NextInv, PTL DEF Spec

\* Files, configurations and processes keep their types: a port is a u16 and
\* dht_boot.dat is never longer than DHT_BOOT_MAX.
THEOREM TypeCorrect == Spec => []TypeOK
  <1>1. IInv => TypeOK
    <2> SUFFICES ASSUME IInv PROVE TypeOK
      OBVIOUS
    <2>1. \/ proc = Down
          \/ proc.pc \in {"saving", "starting"} /\ proc.cfg \in Config /\ proc.root \in Keys \ {NoKey}
          \/ /\ proc.pc = "up" /\ proc.cfg \in Config
             /\ proc.id \in Keys /\ proc.signer \in Keys
             /\ proc.port \in 0..MaxPort /\ proc.sockets \subseteq Sockets
             /\ proc.dht \subseteq DhtNode \cup DnsHosts \cup {SmartnetDht, Torn}
             /\ proc.clients \subseteq {"lookup", "monitor"}
      BY RootFacts DEF IInv, ProcInv, Loading
    <2> QED BY <2>1 DEF IInv, DiskInv, IdsInv, TypeOK
  <1> QED BY Invariance, <1>1, PTL

\* Through every crash, also one in the middle of save(), the provider keeps its NodeID
\* until the operator chooses another mnemonic.
THEOREM IdentityIsKept == Spec => []IdentityKept
  <1>1. IInv => IdentityKept
    <2> SUFFICES ASSUME IInv PROVE Cardinality(ids) <= 1
      BY DEF IdentityKept
    <2> DEFINE R == Root(file.text.mnemonic)
    <2>1. ids \subseteq {R}
      BY DEF IInv, IdsInv
    <2>2. IsFiniteSet({R}) /\ Cardinality({R}) = 1
      BY FS_Singleton
    <2>3. Cardinality(ids) <= Cardinality({R})
      BY <2>1, <2>2, FS_Subset
    <2> QED BY <2>2, <2>3
  <1> QED BY Invariance, <1>1, PTL

\* The endpoint, the signatures and the cached key have one root, the mnemonic on disk.
THEOREM KeysHaveOneRoot == Spec => []OneRoot
  <1>1. IInv => OneRoot
    <2> SUFFICES ASSUME IInv, proc.pc = "up"
                 PROVE  /\ proc.id = Root(file.text.mnemonic) /\ proc.signer = proc.id
                        /\ file.text.key = proc.id
      BY DEF OneRoot
    <2>1. proc # Down /\ proc \notin Loading
      BY DEF Down, Loading
    <2> QED BY <2>1 DEF IInv, ProcInv, FileInv
  <1> QED BY Invariance, <1>1, PTL

\* Whatever a crash has left of config.yaml and whatever the environment asks for, a QUIC
\* endpoint that was given a relay has no socket of its own, and a provider whose DHT is
\* switched off has no DHT client.
THEOREM ConfigurationIsObeyed == Spec => []NetworkAsConfigured
  <1>1. IInv => NetworkAsConfigured
    <2> SUFFICES ASSUME IInv, proc.pc = "up"
                 PROVE  /\ "valid" \in good.net.relays => proc.sockets = {} /\ proc.port = 0
                        /\ ~good.net.dht => proc.clients = {}
      BY DEF NetworkAsConfigured
    <2>1. proc # Down
      BY DEF Down
    <2>2. proc.cfg.net = good.net
      BY <2>1 DEF IInv, FileInv
    <2> QED BY <2>2 DEF IInv, BoundInv
  <1> QED BY Invariance, <1>1, PTL

\* The port on the dashboard is the one that is bound, whatever text it was parsed from.
THEOREM PortIsReported == Spec => []PortIsBound
  <1>1. IInv => PortIsBound
    BY DEF IInv, BoundInv, PortIsBound
  <1> QED BY Invariance, <1>1, PTL
=============================================================================
