----------------------------- MODULE Discovery ------------------------------
(***************************************************************************)
(* How a provider learns of the others and counts them: spawn_discovery    *)
(* (which announces a signed manifest from time to time), the task         *)
(* listen_announces, PeerStore, and the health task, which like the        *)
(* listener stores the size of peers.dat in the gauge active_peers.        *)
(*                                                                         *)
(* The other providers run the same announcer.  A manifest is its node,    *)
(* its list of endpoint names, a number that stands for the values of the  *)
(* moment, and a signature: who signed, and what.  The list is signed as   *)
(* the one text its names are joined to, which several lists may have in   *)
(* common.  Gossip may lose, repeat, delay and reorder announcements, and  *)
(* garble them: anything that carries a signature somebody has made may    *)
(* arrive at any time.                                                     *)
(***************************************************************************)
EXTENDS Naturals, Sequences, FiniteSets

CONSTANTS Peer,    \* the other providers
          Lists,   \* lists of endpoint names
          Join(_), \* endpoints.join(",")
          Names    \* the lists in the announcements each peer makes, a bound on their number

ASSUME PeerAssumption == IsFiniteSet(Peer)
ASSUME NamesAssumption == Names \in [Peer -> Seq(Lists)]

VARIABLES ann,    \* announcements made so far by each peer
          store,  \* peers.dat: node id -> manifest
          lis,    \* listen_announces: where it is, and the count it has taken
          health, \* the health task: where it is, and the count it has taken
          gauge   \* active_peers

tasks == <<lis, health>>
vars == <<ann, store, tasks, gauge>>

\* The values of the n-th announcement are the number n.
Values == UNION {DOMAIN Names[p] : p \in Peer}

Manifest == [node: Peer, names: Lists, body: Values,
             sig: [by: Peer, over: Peer \X {Join(l) : l \in Lists} \X Values]]

\* canonical_bytes() covers the node id, the names joined to one text, and the values
\* announced; version and seen_at are not signed and not looked at.
Canonical(m) == <<m.node, Join(m.names), m.body>>

\* What may arrive: only its own key makes a peer's signatures, one for each of its
\* announcements, but they can come with other values, other names or another node id.
Arrivals ==
    UNION {[node: Peer, names: Lists, body: Values,
            sig: {[by |-> p, over |-> <<p, Join(Names[p][n]), n>>] : n \in 1..ann[p]}] : p \in Peer}

MutVerify(m) == m.sig.by = m.node

\* verify_manifest(): the signature is the node's own, over these very bytes.
Verify(m) == m.sig.by = m.node /\ m.sig.over = Canonical(m)

\* peers.dat maps node ids to manifests, and gauge and counts never exceed the number of
\* providers there are.
TypeOK ==
    /\ DOMAIN ann = Peer /\ \A p \in Peer : ann[p] \in 0..Len(Names[p])
    /\ DOMAIN store \subseteq Peer
    /\ \A p \in DOMAIN store : store[p] \in Manifest
    /\ lis \in [pc: {"starting", "off", "waiting", "counting", "storing"}, n: 0..Cardinality(Peer)]
    /\ health \in [pc: {"probing", "counting", "storing"}, n: 0..Cardinality(Peer)]
    /\ gauge \in 0..Cardinality(Peer)

\* A restarted provider has the peers of its last run and a gauge of zero.
Init ==
    /\ ann \in [Peer -> 0..1] /\ \A p \in Peer : ann[p] <= Len(Names[p])
    /\ \E S \in SUBSET Peer : store \in [S -> {m \in Arrivals : Verify(m)}]
    /\ \A p \in DOMAIN store : store[p].node = p
    /\ lis = [pc |-> "starting", n |-> 0]
    /\ health = [pc |-> "probing", n |-> 0]
    /\ gauge = 0

----------------------------------------------------------------------------
\* peers.list().len()
ListLen == Cardinality(DOMAIN store)

\* The announcer of a peer signs a manifest with the values of the moment and
\* broadcasts it; a failed broadcast is an announcement that never arrives.
Announce(p) ==
    /\ ann[p] < Len(Names[p])
    /\ ann' = [ann EXCEPT ![p] = @ + 1]
    /\ UNCHANGED <<store, tasks, gauge>>

\* gossip.subscribe(): if it fails the provider neither announces nor listens for as
\* long as it runs.
Subscribe(ok) ==
    /\ lis.pc = "starting"
    /\ lis' = [lis EXCEPT !.pc = IF ok THEN "waiting" ELSE "off"]
    /\ UNCHANGED <<ann, store, health, gauge>>

MutReceive(m) ==
    /\ lis.pc = "waiting" /\ Verify(m)
    /\ store' = [p \in DOMAIN store \cup {m.node} |-> IF p = m.node THEN m ELSE store[p]]
    /\ lis' = [pc |-> "storing", n |-> gauge + 1]
    /\ UNCHANGED <<ann, health, gauge>>

\* A manifest that verifies replaces what is known of its node, be it newer or older;
\* a database that refuses it is ignored.  Anything else is dropped without a trace.
Receive(m) ==
    /\ lis.pc = "waiting" /\ Verify(m)
    /\ \/ store' = [p \in DOMAIN store \cup {m.node} |-> IF p = m.node THEN m ELSE store[p]]
       \/ UNCHANGED store
    /\ lis' = [lis EXCEPT !.pc = "counting"]
    /\ UNCHANGED <<ann, health, gauge>>

\* rx.next() returns an error: the listener ends and nothing starts it again.
ListenerBreaks ==
    /\ lis.pc = "waiting"
    /\ lis' = [lis EXCEPT !.pc = "off"]
    /\ UNCHANGED <<ann, store, health, gauge>>

\* Both tasks count peers.dat and store the count later.
ListenerCounts ==
    /\ lis.pc = "counting"
    /\ lis' = [pc |-> "storing", n |-> ListLen]
    /\ UNCHANGED <<ann, store, health, gauge>>

ListenerStores ==
    /\ lis.pc = "storing"
    /\ gauge' = lis.n
    /\ lis' = [pc |-> "waiting", n |-> 0]
    /\ UNCHANGED <<ann, store, health>>

\* The upstreams are probed one after the other and the RPC table is replaced.
Probe ==
    /\ health.pc = "probing"
    /\ health' = [health EXCEPT !.pc = "counting"]
    /\ UNCHANGED <<ann, store, lis, gauge>>

HealthCounts ==
    /\ health.pc = "counting"
    /\ health' = [pc |-> "storing", n |-> ListLen]
    /\ UNCHANGED <<ann, store, lis, gauge>>

MutHealthStores ==
    /\ health.pc = "storing"
    /\ gauge' = health.n
    /\ UNCHANGED <<ann, store, tasks>>

\* Then it sleeps for 30 s and starts over.
HealthStores ==
    /\ health.pc = "storing"
    /\ gauge' = health.n
    /\ health' = [pc |-> "probing", n |-> 0]
    /\ UNCHANGED <<ann, store, lis>>

ListenerStep == ListenerCounts \/ ListenerStores
HealthStep == Probe \/ HealthCounts \/ HealthStores

Next ==
    \/ \E p \in Peer : Announce(p)
    \/ \E ok \in BOOLEAN : Subscribe(ok)
    \/ \E m \in Arrivals : Receive(m)
    \/ ListenerBreaks
    \/ ListenerStep
    \/ HealthStep

Spec == Init /\ [][Next]_vars

----------------------------------------------------------------------------
(* Properties                                                              *)

\* In whatever order, how often and how garbled announcements arrive, peers.dat holds
\* under each node id the values of one announcement of this node, and names that join to
\* the text announced with them.  How that text is divided into names, and the version,
\* are not covered by the signature and may be anybody's.
StoreIsGenuine ==
    \A p \in DOMAIN store :
        /\ store[p].node = p
        /\ store[p].body <= ann[p]
        /\ Join(store[p].names) = Join(Names[p][store[p].body])

\* Two tasks store counts they took earlier, of a store that grows in between: the
\* gauge can lag behind peers.dat but never runs ahead of it.
GaugeNotAhead == \A n \in {gauge, lis.n, health.n} : n <= ListLen

\* The gauge catches up with peers.dat for good, also if a late store of the one task
\* has undone the newer count of the other, or if the listener is gone.
GaugeCatchesUp == <>[](gauge = ListLen)
=============================================================================
