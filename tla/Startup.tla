------------------------------ MODULE Startup -------------------------------
(***************************************************************************)
(* A provider's life from one start to the next: main, load_or_init and    *)
(* save on config.yaml, p2p_server::run up to the bound endpoint, and the  *)
(* cache dht_boot.dat.  The process may be killed at any moment, also      *)
(* while it rewrites a file in place, and the operator edits config.yaml   *)
(* between two runs.                                                       *)
(*                                                                         *)
(* serde writes config.yaml in the order identity, network, status and     *)
(* gossip, endpoints; a torn file is such a text cut off in one of these   *)
(* parts.  A port is the number its text spells, -1 if it spells none, and *)
(* in config.yaml it is quoted or not.                                     *)
(***************************************************************************)
EXTENDS Integers, FiniteSets

CONSTANTS Mnemonic,   \* valid BIP-39 mnemonics
          Endpoint,   \* names of endpoints; the default configuration has them all
          Networks,   \* the network sections the operator tries
          EnvText,    \* what NETFORY_QUIC_PORT may be set to
          DhtNode,    \* nodes of the Mainline DHT, by address
          DhtBootMax  \* DHT_BOOT_MAX

NoMnemonic == "blank"
BadMnemonic == "not BIP-39"

\* Network::default()
DefaultNetwork == [port |-> -1, quoted |-> TRUE, relays |-> {}, dht |-> TRUE, ipv6 |-> TRUE]

ASSUME StartupAssumption ==
    /\ DefaultNetwork \in Networks
    /\ {NoMnemonic, BadMnemonic} \cap Mnemonic = {}
    /\ IsFiniteSet(Endpoint) /\ Endpoint # {}
    /\ EnvText \subseteq Int
    /\ DhtBootMax \in Nat
    /\ \A n \in Networks :
         /\ n.port \in Int /\ n.quoted \in BOOLEAN /\ n.relays \subseteq {"valid", "invalid", "blank"}
         /\ n.dht \in BOOLEAN /\ n.ipv6 \in BOOLEAN

VARIABLES file,  \* config.yaml: its text and the part it breaks off in
          good,  \* the last complete configuration, the operator's or the program's
          boot,  \* dht_boot.dat
          proc,  \* the process
          ids    \* node ids that came up since the operator last chose an identity

vars == <<file, good, boot, proc, ids>>

Parts == {"none", "identity", "network", "endpoints", "whole"}
NoKey == <<>>
SmartnetDht == "116.202.32.250:6881"
DnsHosts == {"router.bittorrent.com:6881"}
Torn == "cut off address"

\* root_from_mnemonic(): the first half of the seed; iroh_secret and signing_key use it
\* as it is.
Root(m) == <<"seed", m>>

Keys == {NoKey} \cup {Root(m) : m \in Mnemonic}
Config == [mnemonic: Mnemonic \cup {NoMnemonic, BadMnemonic}, key: Keys, net: Networks,
           endpoints: SUBSET Endpoint]
MaxPort == 65535
Sockets == [family: {"v4", "v6"}, port: 0..MaxPort]
Down == [pc |-> "down"]

\* Config::default()
Default == [mnemonic |-> NoMnemonic, key |-> NoKey, net |-> DefaultNetwork,
            endpoints |-> Endpoint]

\* Every file, configuration and process has its type: in particular a port is a u16 and
\* dht_boot.dat holds at most DHT_BOOT_MAX nodes.
TypeOK ==
    /\ file \in [text: Config, upTo: Parts]
    /\ good \in Config
    /\ boot \subseteq DhtNode \cup {Torn} /\ Cardinality(boot) <= DhtBootMax
    /\ \/ proc = Down
       \/ proc.pc \in {"saving", "starting"} /\ proc.cfg \in Config /\ proc.root \in Keys \ {NoKey}
       \/ /\ proc.pc = "up"
          /\ proc.cfg \in Config
          /\ proc.id \in Keys /\ proc.signer \in Keys
          /\ proc.port \in 0..MaxPort /\ proc.sockets \subseteq Sockets
          /\ proc.dht \subseteq DhtNode \cup DnsHosts \cup {SmartnetDht, Torn}
          /\ proc.clients \subseteq {"lookup", "monitor"}
    /\ ids \subseteq Keys

\* Nothing is on disk yet.
Init ==
    /\ file = [text |-> Default, upTo |-> "none"]
    /\ good = Default
    /\ boot = {}
    /\ proc = Down
    /\ ids = {}

----------------------------------------------------------------------------
(* config.rs                                                               *)

MutParsePort(t) == IF t >= 0 THEN t ELSE 0

\* "11204" is 11204; a word, and a number that is no u16, is 0: a random port.
ParsePort(t) == IF t \in 0..MaxPort THEN t ELSE 0

\* PortCfg is a u16 or a string: serde fails on any other number, unless it is quoted.
Readable(net) == net.quoted \/ net.port \in 0..MaxPort

MutParsed == IF file.upTo = "whole" THEN {file.text} ELSE {Default}

\* What serde may make of the file; nothing if it fails.  identity and network are
\* required; what is missing of the network section and behind it gets its default.  A
\* text that breaks off before the endpoints has none, one that breaks off among them
\* has some of them, the last one perhaps with a shortened URL or limit.
Parsed ==
    {c \in CASE file.upTo = "whole" -> {file.text}
             [] file.upTo = "none" -> {Default}
             [] file.upTo = "identity" -> {}
             [] file.upTo = "network" -> {[file.text EXCEPT !.net = n, !.endpoints = {}] :
                                            n \in {file.text.net, DefaultNetwork}}
             [] file.upTo = "endpoints" -> {[file.text EXCEPT !.endpoints = S] :
                                              S \in SUBSET file.text.endpoints} :
       Readable(c.net)}

\* An empty mnemonic is replaced by a new one.
WithMnemonic(c) == IF c.mnemonic = NoMnemonic
                   THEN {[c EXCEPT !.mnemonic = m] : m \in Mnemonic}
                   ELSE {c}

MutWithKey(c) == IF c.key = NoKey THEN [c EXCEPT !.key = Root(c.mnemonic)] ELSE c

\* The cached key always follows the mnemonic.
WithKey(c) == [c EXCEPT !.key = Root(c.mnemonic)]

MutHasEndpoints(c) == TRUE

HasEndpoints(c) == c.endpoints # {}

\* load_or_init() up to save().  A load that fails (no parse, no valid mnemonic, no
\* endpoint) ends the program and leaves everything as it was.  save() truncates the
\* file before it writes.
LoadOrInit ==
    /\ proc = Down
    /\ \E c0 \in Parsed : \E c1 \in WithMnemonic(c0) :
         /\ c1.mnemonic # BadMnemonic /\ HasEndpoints(c1)
         /\ LET c == WithKey(c1)
                dirty == file.upTo = "none" \/ c # c0 IN
              /\ proc' = [pc |-> IF dirty THEN "saving" ELSE "starting", cfg |-> c, root |-> c.key]
              /\ file' = IF dirty THEN [text |-> c, upTo |-> "identity"] ELSE file
    /\ UNCHANGED <<good, boot, ids>>

\* The write has reached the end of the text.
Save ==
    /\ proc.pc = "saving"
    /\ file' = [text |-> proc.cfg, upTo |-> "whole"]
    /\ good' = proc.cfg
    /\ proc' = [proc EXCEPT !.pc = "starting"]
    /\ UNCHANGED <<boot, ids>>

----------------------------------------------------------------------------
(* p2p_server::run                                                         *)

\* Blank and invalid relay URLs are skipped.
RelayOnly(net) == "valid" \in net.relays

\* The environment goes before the configuration; a relay-only provider has no port.
QuicPort(net, env) ==
    IF RelayOnly(net) THEN 0
    ELSE ParsePort(IF env = {} THEN net.port ELSE CHOOSE t \in env : TRUE)

Random == {[family |-> f, port |-> 0] : f \in {"v4", "v6"}}
At(port, families) == {[family |-> f, port |-> port] : f \in families}

MutNoClear(net, port, secret) ==
    IF RelayOnly(net) THEN {[key |-> secret, sockets |-> {}]}
    ELSE {[key |-> secret, sockets |-> Random \cup At(port, {"v4"})]}

\* What the QUIC endpoint's builder is told to bind, and with which key.  If bind_addr refuses
\* the IPv6 address, it is built anew from the clone of the secret.
Builders(net, port, secret) ==
    IF RelayOnly(net) THEN {[key |-> secret, sockets |-> {}]}
    ELSE IF port = 0 THEN {[key |-> secret, sockets |-> Random]}
    ELSE {[key |-> secret, sockets |-> At(port, {"v4"} \cup S)] :
            S \in IF net.ipv6 THEN {{}, {"v6"}} ELSE {{}}}

\* load_dht_bootstrap() and resolve_dht_bootstrap(): addresses are taken as they are,
\* names need the DNS, and what does not resolve is left out.  A line that was cut off is
\* left out too, unless it still spells an address, as it does with a digit less in its
\* port.  The operator's own dht_bootstrap nodes are names and addresses like the defaults.
Bootstrap(net, dns, spells) ==
    IF net.dht
    THEN {SmartnetDht} \cup (IF dns THEN DnsHosts ELSE {})
           \cup (IF spells THEN boot ELSE boot \ {Torn})
    ELSE {}

\* The clients of the Mainline DHT, each with a UDP socket of its own: the endpoint's
\* address lookup, and the monitor, which is given up if it cannot be built.
DhtClients(net) == IF net.dht THEN {{"lookup"}, {"lookup", "monitor"}} ELSE {{}}

\* run() up to the services it starts.  The signer is ProxyEngine's key, the port is the
\* one Stats reports.
BringUp ==
    /\ proc.pc = "starting"
    /\ \E env \in {{}} \cup {{t} : t \in EnvText}, dns \in BOOLEAN, spells \in BOOLEAN :
         LET net == proc.cfg.net
             port == QuicPort(net, env) IN
         \E b \in Builders(net, port, proc.root), D \in DhtClients(net) :
            /\ proc' = [pc |-> "up", cfg |-> proc.cfg, id |-> b.key, signer |-> proc.root,
                        port |-> port, sockets |-> b.sockets,
                        dht |-> Bootstrap(net, dns, spells), clients |-> D]
            /\ ids' = ids \cup {b.key}
    /\ UNCHANGED <<file, good, boot>>

\* The DHT monitor replaces the cache by some of the nodes it sees, if there are any.
SaveDhtBootstrap(nodes) ==
    /\ proc.pc = "up" /\ "monitor" \in proc.clients
    /\ nodes # {} /\ Cardinality(nodes) <= DhtBootMax
    /\ boot' = nodes
    /\ UNCHANGED <<file, good, proc, ids>>

----------------------------------------------------------------------------
(* What happens to the process and its files                               *)

\* Ctrl-C, an error of run() or of save(), or a kill: config.yaml stays as far as it has
\* been written.
Ends(part) ==
    /\ proc # Down
    /\ proc' = Down
    /\ IF proc.pc = "saving" THEN file' = [file EXCEPT !.upTo = part]
                             ELSE part = "whole" /\ UNCHANGED file
    /\ good' = IF proc.pc = "saving" /\ part = "whole" THEN proc.cfg ELSE good
    /\ UNCHANGED <<boot, ids>>

\* Killed while dht_boot.dat is written: the last line may be cut off.
EndsInDhtSave(nodes) ==
    /\ proc.pc = "up" /\ "monitor" \in proc.clients
    /\ Cardinality(nodes) <= DhtBootMax
    /\ boot' = nodes
    /\ proc' = Down
    /\ UNCHANGED <<file, good, ids>>

\* Between two runs the operator writes a complete config.yaml, starting from the last
\* complete one.  Another mnemonic than the one in the file is another identity.
Edit(c) ==
    /\ proc = Down /\ file # [text |-> c, upTo |-> "whole"]
    /\ file' = [text |-> c, upTo |-> "whole"]
    /\ good' = c
    /\ ids' = IF c.mnemonic = file.text.mnemonic THEN ids ELSE {}
    /\ UNCHANGED <<boot, proc>>

OperatorEdits ==
    \/ \E m \in Mnemonic \cup {NoMnemonic, BadMnemonic}, k \in Keys :
          Edit([good EXCEPT !.mnemonic = m, !.key = k])
    \/ \E n \in Networks : Edit([good EXCEPT !.net = n])
    \/ \E S \in SUBSET Endpoint : Edit([good EXCEPT !.endpoints = S])

Next ==
    \/ LoadOrInit
    \/ Save
    \/ BringUp
    \/ \E nodes \in SUBSET DhtNode : SaveDhtBootstrap(nodes)
    \/ \E part \in Parts \ {"none"} : Ends(part)
    \/ \E nodes \in SUBSET (DhtNode \cup {Torn}) : EndsInDhtSave(nodes)
    \/ OperatorEdits

Spec == Init /\ [][Next]_vars

----------------------------------------------------------------------------
(* Properties                                                              *)

\* However often the process is killed, while it writes config.yaml too, every run
\* since the operator last chose a mnemonic has the same NodeID.
IdentityKept == Cardinality(ids) <= 1

\* The endpoint, the signatures and the key cached in config.yaml come from the
\* mnemonic in config.yaml, also after the IPv6 fallback has built the endpoint anew.
OneRoot ==
    proc.pc = "up" =>
        /\ proc.id = Root(file.text.mnemonic) /\ proc.signer = proc.id
        /\ file.text.key = proc.id

\* What config.yaml hides stays hidden, whatever a crash has left of it and whatever
\* NETFORY_QUIC_PORT says: with a relay the QUIC endpoint has no socket and no port of its
\* own, and only with the DHT switched on, which discloses the address to other DHT nodes
\* (the warning at p2p_server.rs:295), are there DHT clients with theirs.
NetworkAsConfigured ==
    proc.pc = "up" =>
        /\ "valid" \in good.net.relays => proc.sockets = {} /\ proc.port = 0
        /\ ~good.net.dht => proc.clients = {}

\* The port on the dashboard is the one that is bound: 0 means no fixed port.
PortIsBound ==
    proc.pc = "up" /\ proc.sockets # {} =>
        [family |-> "v4", port |-> proc.port] \in proc.sockets /\ \A s \in proc.sockets : s.port = proc.port
=============================================================================
