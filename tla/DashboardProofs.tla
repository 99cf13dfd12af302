-------------------------- MODULE DashboardProofs ---------------------------
(***************************************************************************)
(* Discovery and the dashboard, for every set of peers, every number of    *)
(* announcements and requests and every order in which gossip delivers.    *)
(***************************************************************************)
EXTENDS Dashboard, FiniteSetTheorems, TLAPS

\* The counts that two tasks hold are in their types only because they are never ahead
\* of a store that only grows, and whose keys are peers.
DiscoveryInv == TypeOK /\ StoreIsGenuine /\ GaugeNotAhead

\* The ledger adds up at every moment.
LedgerInv ==
    /\ total \in Nat /\ proxied \in Nat /\ relayed \in Nat /\ rejected \in Nat
    /\ undecided \in 0..MaxUndecided
    /\ total = proxied + relayed + rejected + undecided

\* The snapshot, load by load: whatever it shows, its atomics had shown before; and if
\* the loads were in order, the total that was loaded is covered by the verdicts loaded
\* since, those that the remaining counters show now, and the undecided ones.
FieldNames == {"total", "proxied", "relayed", "rejected", "peers"}

SnapType ==
    /\ DOMAIN snap = {"next", "inOrder", "val"}
    /\ snap.next \in 1..6 /\ snap.inOrder \in BOOLEAN
    /\ snap.val \in [FieldNames -> Nat]

OldValues ==
    /\ held \subseteq 0..ListLen
    /\ snap.val.proxied <= proxied /\ snap.val.relayed <= relayed
    /\ snap.val.rejected <= rejected /\ snap.val.peers <= ListLen

Covered ==
    /\ snap.next = 2 => snap.val.total <= proxied + relayed + rejected + MaxUndecided
    /\ snap.next = 3 => snap.val.total <= snap.val.proxied + relayed + rejected + MaxUndecided
    /\ snap.next = 4 =>
         snap.val.total <= snap.val.proxied + snap.val.relayed + rejected + MaxUndecided
    /\ snap.next >= 5 =>
         snap.val.total <= snap.val.proxied + snap.val.relayed + snap.val.rejected + MaxUndecided

SnapInv == SnapType /\ OldValues /\ (snap.inOrder => Covered)

IInv == DiscoveryInv /\ LedgerInv /\ SnapInv

-----------------------------------------------------------------------------
(* Discovery                                                                *)

\* The number of peers stored is a number of peers.
LEMMA ListLenFacts ==
    ASSUME DOMAIN store \subseteq Peer
    PROVE  /\ IsFiniteSet(DOMAIN store) /\ ListLen \in Nat
           /\ Cardinality(Peer) \in Nat /\ ListLen <= Cardinality(Peer)
  <1>1. IsFiniteSet(DOMAIN store) /\ Cardinality(DOMAIN store) <= Cardinality(Peer)
    BY PeerAssumption, FS_Subset
  <1>2. Cardinality(DOMAIN store) \in Nat /\ Cardinality(Peer) \in Nat
    BY <1>1, PeerAssumption, FS_CardinalityType
  <1> QED BY <1>1, <1>2 DEF ListLen

\* Whatever arrives and verifies carries the values of an announcement of its node and
\* names that join to its text: nobody else makes the signature, and it covers all three.
LEMMA VerifiedIsAnnounced ==
    ASSUME NEW m \in Arrivals, Verify(m), \A p \in Peer : ann[p] \in 0..Len(Names[p])
    PROVE  /\ m \in Manifest /\ m.node \in Peer /\ m.body <= ann[m.node]
           /\ Join(m.names) = Join(Names[m.node][m.body])
  <1>1. PICK p \in Peer :
           m \in [node: Peer, names: Lists, body: Values,
                  sig: {[by |-> p, over |-> <<p, Join(Names[p][n]), n>>] : n \in 1..ann[p]}]
    BY DEF Arrivals
  <1>2. PICK n \in 1..ann[p] : m.sig = [by |-> p, over |-> <<p, Join(Names[p][n]), n>>]
    BY <1>1
  <1>3. m.node = p /\ <<m.node, Join(m.names), m.body>> = <<p, Join(Names[p][n]), n>>
    BY <1>2 DEF Verify, Canonical
  <1>4. m.body = n /\ Join(m.names) = Join(Names[p][n])
    BY <1>3
  <1>5. Names[p] \in Seq(Lists) /\ ann[p] \in 0..Len(Names[p])
    BY NamesAssumption
  <1>6. n \in DOMAIN Names[p] /\ Names[p][n] \in Lists /\ n <= ann[p]
    BY <1>5
  <1>7. n \in Values
    BY <1>6 DEF Values
  <1>8. m.sig \in [by: Peer, over: Peer \X {Join(l) : l \in Lists} \X Values]
    <2>1. Join(Names[p][n]) \in {Join(l) : l \in Lists}
      BY <1>6
    <2> QED BY <1>2, <1>7, <2>1
  <1>9. m \in Manifest
    BY <1>1, <1>8 DEF Manifest
  <1> QED BY <1>3, <1>4, <1>6, <1>9

\* A restarted provider: what it kept of its last run has verified then.
LEMMA DiscoveryInit == Init => DiscoveryInv
  <1> SUFFICES ASSUME Init PROVE DiscoveryInv
    OBVIOUS
  <1>1. PICK S \in SUBSET Peer : store \in [S -> {m \in Arrivals : Verify(m)}]
    BY DEF Init
  <1>2. DOMAIN store = S /\ S \subseteq Peer
    BY <1>1
  <1>3. DOMAIN ann = Peer /\ \A p \in Peer : ann[p] \in 0..Len(Names[p])
    <2>1. ASSUME NEW p \in Peer
          PROVE  ann[p] \in 0..Len(Names[p])
      <3>1. ann[p] \in 0..1 /\ ann[p] <= Len(Names[p]) /\ Names[p] \in Seq(Lists)
        BY NamesAssumption DEF Init
      <3> QED BY <3>1
    <2> QED BY <2>1 DEF Init
  <1>4. ASSUME NEW p \in S
        PROVE  /\ store[p] \in Manifest /\ store[p].node = p /\ store[p].body <= ann[p]
               /\ Join(store[p].names) = Join(Names[p][store[p].body])
    <2>1. store[p] \in Arrivals /\ Verify(store[p]) /\ store[p].node = p
      BY <1>1, <1>2 DEF Init
    <2> QED BY <1>3, <2>1, VerifiedIsAnnounced
  <1>5. ListLen \in Nat /\ Cardinality(Peer) \in Nat
    BY <1>2, ListLenFacts
  <1>6. TypeOK
    BY <1>2, <1>4, <1>5, <1>3 DEF Init, TypeOK
  <1>7. GaugeNotAhead
    BY <1>5 DEF Init, GaugeNotAhead
  <1> QED BY <1>2, <1>4, <1>6, <1>7 DEF DiscoveryInv, StoreIsGenuine

\* A task takes the count of the moment, or stores the one it has taken.
LEMMA CountStep ==
    ASSUME DiscoveryInv, UNCHANGED <<ann, store>>,
           lis' \in [pc: {"starting", "off", "waiting", "counting", "storing"}, n: Nat],
           health' \in [pc: {"probing", "counting", "storing"}, n: Nat],
           {gauge', lis'.n, health'.n} \subseteq {0, ListLen, gauge, lis.n, health.n}
    PROVE  DiscoveryInv'
  <1>1. ListLen \in Nat /\ Cardinality(Peer) \in Nat /\ ListLen <= Cardinality(Peer)
    BY ListLenFacts DEF DiscoveryInv, TypeOK
  <1>2. \A k \in {0, ListLen, gauge, lis.n, health.n} : k \in Nat /\ k <= ListLen
    BY <1>1 DEF DiscoveryInv, TypeOK, GaugeNotAhead
  <1>3. \A k \in {gauge', lis'.n, health'.n} : k \in Nat /\ k <= ListLen
    BY <1>2
  <1>4. \A k \in {gauge', lis'.n, health'.n} : k \in 0..Cardinality(Peer)
    BY <1>1, <1>3
  <1>5. TypeOK'
    BY <1>4 DEF DiscoveryInv, TypeOK
  <1>6. GaugeNotAhead'
    BY <1>3 DEF GaugeNotAhead, ListLen
  <1>7. StoreIsGenuine'
    BY DEF DiscoveryInv, StoreIsGenuine
  <1> QED BY <1>5, <1>6, <1>7 DEF DiscoveryInv

\* A manifest is stored: the store holds one node more, or another manifest of its node.
LEMMA ReceiveInv ==
    ASSUME DiscoveryInv, NEW m \in Arrivals, Receive(m)
    PROVE  DiscoveryInv'
  <1>1. /\ UNCHANGED <<ann, health, gauge>> /\ Verify(m) /\ lis' = [lis EXCEPT !.pc = "counting"]
        /\ \/ store' = [p \in DOMAIN store \cup {m.node} |-> IF p = m.node THEN m ELSE store[p]]
           \/ store' = store
    BY DEF Receive
  <1>2. /\ m \in Manifest /\ m.node \in Peer /\ m.body <= ann[m.node]
        /\ Join(m.names) = Join(Names[m.node][m.body])
    BY <1>1, VerifiedIsAnnounced DEF DiscoveryInv, TypeOK
  <1>4. /\ DOMAIN store \subseteq DOMAIN store' /\ DOMAIN store' \subseteq Peer
        /\ \A p \in DOMAIN store' :
              /\ store'[p] \in Manifest /\ store'[p].node = p /\ store'[p].body <= ann[p]
              /\ Join(store'[p].names) = Join(Names[p][store'[p].body])
    BY <1>1, <1>2 DEF DiscoveryInv, TypeOK, StoreIsGenuine
  <1>5. IsFiniteSet(DOMAIN store') /\ Cardinality(DOMAIN store) <= Cardinality(DOMAIN store')
    BY <1>4, PeerAssumption, FS_Subset
  <1>6. Cardinality(DOMAIN store) \in Nat /\ Cardinality(DOMAIN store') \in Nat
    BY <1>4, <1>5, FS_Subset, FS_CardinalityType
  <1>7. /\ lis'.n = lis.n
        /\ lis' \in [pc: {"starting", "off", "waiting", "counting", "storing"}, n: 0..Cardinality(Peer)]
    BY <1>1 DEF DiscoveryInv, TypeOK
  <1>8. TypeOK'
    BY <1>1, <1>4, <1>7 DEF DiscoveryInv, TypeOK
  <1>9. Cardinality(Peer) \in Nat
    BY PeerAssumption, FS_CardinalityType
  <1>10. \A k \in {gauge', lis'.n, health'.n} : k \in Nat /\ k <= Cardinality(DOMAIN store)
    BY <1>1, <1>7, <1>9 DEF DiscoveryInv, GaugeNotAhead, ListLen, TypeOK
  <1>11. GaugeNotAhead'
    BY <1>5, <1>6, <1>10 DEF GaugeNotAhead, ListLen
  <1> QED BY <1>1, <1>4, <1>8, <1>11 DEF DiscoveryInv, StoreIsGenuine

\* The discovery tasks keep their part of the invariant.
LEMMA DiscoveryNext == DiscoveryInv /\ [Next]_vars => DiscoveryInv'
  <1> SUFFICES ASSUME DiscoveryInv, [Next]_vars PROVE DiscoveryInv'
    OBVIOUS
  <1> DEFINE LT == [pc: {"starting", "off", "waiting", "counting", "storing"}, n: Nat]
             HT == [pc: {"probing", "counting", "storing"}, n: Nat]
  <1>1. /\ lis \in LT /\ health \in HT /\ ListLen \in Nat
    <2>1. Cardinality(Peer) \in Nat /\ ListLen \in Nat
      BY ListLenFacts DEF DiscoveryInv, TypeOK
    <2> QED BY <2>1 DEF DiscoveryInv, TypeOK
  <1>2. CASE UNCHANGED vars
    BY <1>1, <1>2, CountStep DEF vars, tasks
  <1>3. ASSUME NEW p \in Peer, Announce(p)
        PROVE  DiscoveryInv'
    <2>1. /\ ann[p] < Len(Names[p]) /\ ann' = [ann EXCEPT ![p] = ann[p] + 1]
          /\ UNCHANGED <<store, lis, health, gauge>>
      BY <1>3 DEF Announce, tasks
    <2>2. DOMAIN ann = Peer /\ \A q \in Peer : ann[q] \in 0..Len(Names[q]) /\ Len(Names[q]) \in Nat
      BY NamesAssumption DEF DiscoveryInv, TypeOK
    <2>3. DOMAIN ann' = Peer /\ \A q \in Peer : ann'[q] \in 0..Len(Names[q]) /\ ann[q] <= ann'[q]
      BY <2>1, <2>2
    <2>4. StoreIsGenuine'
      <3>1. ASSUME NEW q \in DOMAIN store
            PROVE  store[q].body <= ann'[q]
        <4>1. q \in Peer /\ store[q].body \in Values /\ store[q].body <= ann[q]
          BY DEF DiscoveryInv, TypeOK, StoreIsGenuine, Manifest
        <4>2. store[q].body \in Int
          BY <4>1, NamesAssumption DEF Values
        <4> QED BY <2>2, <2>3, <4>1, <4>2
      <3> QED BY <2>1, <3>1 DEF DiscoveryInv, StoreIsGenuine
    <2> QED BY <2>1, <2>3, <2>4 DEF DiscoveryInv, TypeOK, GaugeNotAhead, ListLen
  <1>4. ASSUME NEW ok \in BOOLEAN, Subscribe(ok)
        PROVE  DiscoveryInv'
    BY <1>1, <1>4, CountStep DEF Subscribe
  <1>5. CASE ListenerBreaks
    BY <1>1, <1>5, CountStep DEF ListenerBreaks
  <1>6. CASE ListenerStep
    BY <1>1, <1>6, CountStep DEF ListenerStep, ListenerCounts, ListenerStores
  <1>7. CASE HealthStep
    BY <1>1, <1>7, CountStep DEF HealthStep, Probe, HealthCounts, HealthStores
  <1> QED BY <1>2, <1>3, <1>4, <1>5, <1>6, <1>7, ReceiveInv DEF Next

\* No step takes a node out of peers.dat.
LEMMA StoreGrows ==
    ASSUME DiscoveryInv, [Next]_vars
    PROVE  /\ ListLen \in Nat /\ ListLen' \in Nat
           /\ ListLen <= ListLen' /\ ListLen' <= Cardinality(Peer)
  <1>1. DOMAIN store \subseteq DOMAIN store'
    <2>1. CASE \E m \in Arrivals : Receive(m)
      BY <2>1 DEF Receive
    <2>2. CASE ~ \E m \in Arrivals : Receive(m)
      <3>1. store' = store
        BY <2>2 DEF Next, vars, tasks, Announce, Subscribe, ListenerBreaks, ListenerStep,
                    ListenerCounts, ListenerStores, HealthStep, Probe, HealthCounts, HealthStores
      <3> QED BY <3>1
    <2> QED BY <2>1, <2>2
  <1>2. DOMAIN store \subseteq Peer /\ DOMAIN store' \subseteq Peer
    BY DiscoveryNext DEF DiscoveryInv, TypeOK
  <1>3. /\ IsFiniteSet(DOMAIN store') /\ IsFiniteSet(DOMAIN store)
        /\ Cardinality(DOMAIN store) <= Cardinality(DOMAIN store')
        /\ Cardinality(DOMAIN store') <= Cardinality(Peer)
    BY <1>1, <1>2, PeerAssumption, FS_Subset
  <1>4. Cardinality(DOMAIN store) \in Nat /\ Cardinality(DOMAIN store') \in Nat
    BY <1>3, FS_CardinalityType
  <1> QED BY <1>3, <1>4 DEF ListLen

-----------------------------------------------------------------------------
(* The ledger and the snapshot                                              *)

\* A count and a verdict keep the sum, and no counter goes down.
LEMMA LedgerStep ==
    ASSUME LedgerInv, Requests
    PROVE  /\ LedgerInv'
           /\ proxied <= proxied' /\ relayed <= relayed' /\ rejected <= rejected'
  BY LedgerAssumption DEF LedgerInv, Requests, Ledger!Count, Ledger!Decide

\* The counters move under a snapshot that is half taken.
LEMMA SnapWhileCounting ==
    ASSUME LedgerInv, LedgerInv', SnapInv, UNCHANGED <<snap, held, store>>,
           proxied <= proxied', relayed <= relayed', rejected <= rejected'
    PROVE  SnapInv'
  <1>1. /\ snap.val.total \in Nat /\ snap.val.proxied \in Nat /\ snap.val.relayed \in Nat
        /\ snap.val.rejected \in Nat
    BY DEF SnapInv, SnapType, FieldNames
  <1>2. SnapType'
    BY DEF SnapInv, SnapType
  <1>3. OldValues'
    BY <1>1 DEF SnapInv, OldValues, LedgerInv, ListLen
  <1>4. Covered => Covered'
    BY <1>1, LedgerAssumption DEF LedgerInv, Covered
  <1>5. snap'.inOrder = snap.inOrder
    OBVIOUS
  <1> QED BY <1>2, <1>3, <1>4, <1>5 DEF SnapInv

\* Discovery moves under a snapshot: peers.dat grows and the gauge stays behind it.
LEMMA SnapWhileDiscovering ==
    ASSUME SnapInv, UNCHANGED <<snap, ledger>>, held' \subseteq held \cup {gauge'},
           ListLen \in Nat, ListLen' \in Nat, ListLen <= ListLen',
           gauge' \in Nat, gauge' <= ListLen'
    PROVE  SnapInv'
  <1>1. SnapType' /\ (snap'.inOrder => Covered')
    BY DEF SnapInv, SnapType, Covered, ledger
  <1>2. ASSUME NEW k \in held'
        PROVE  k \in 0..ListLen'
    <2>1. k = gauge' \/ k \in 0..ListLen
      BY <1>2 DEF SnapInv, OldValues
    <2> QED BY <2>1
  <1>3. snap.val.peers \in Nat
    BY DEF SnapInv, SnapType, FieldNames
  <1>4. OldValues'
    BY <1>2, <1>3 DEF SnapInv, OldValues, ledger
  <1> QED BY <1>1, <1>4 DEF SnapInv

\* The next counter is loaded, with a value it has had.
LEMMA LoadInv ==
    ASSUME LedgerInv, ListLen \in Nat, SnapInv, Load
    PROVE  SnapInv'
  <1> DEFINE v == snap.val
             w == snap'.val
             f == Fields[snap.next]
  <1>1. Loads = 1..5 /\ snap.next \in 1..5 /\ v \in [FieldNames -> Nat] /\ f \in FieldNames
    BY DEF FieldNames, Loads, Fields, Load, SnapInv, SnapType
  <1>2. PICK x \in Loadable(f) :
           snap' = [next |-> snap.next + 1, inOrder |-> snap.inOrder /\ x = Now[f],
                    val |-> [snap.val EXCEPT ![f] = x]]
    BY DEF Load
  <1>3. UNCHANGED <<total, proxied, relayed, rejected, undecided, held, store, gauge>>
    BY DEF Load, ledger, vars
  <1>4. /\ Now.total = total /\ Now.proxied = proxied /\ Now.relayed = relayed
        /\ Now.rejected = rejected /\ Now.peers = gauge
    BY DEF Now
  <1>5. /\ v.total \in Nat /\ v.proxied \in Nat /\ v.relayed \in Nat /\ v.rejected \in Nat
        /\ total \in Nat /\ proxied \in Nat /\ relayed \in Nat /\ rejected \in Nat
        /\ undecided \in Nat /\ undecided <= MaxUndecided /\ MaxUndecided \in Nat
        /\ total = proxied + relayed + rejected + undecided
    BY <1>1, LedgerAssumption DEF LedgerInv, FieldNames
  <1>6. x \in Nat /\ (f = "peers" => x <= ListLen) /\ (f # "peers" => x <= Now[f])
    BY <1>1, <1>4, <1>5 DEF Loadable, SnapInv, OldValues, FieldNames
  <1>7. /\ snap'.next = snap.next + 1 /\ DOMAIN snap' = {"next", "inOrder", "val"}
        /\ w = [v EXCEPT ![f] = x]
    BY <1>2
  <1>8. snap'.inOrder \in BOOLEAN /\ (snap'.inOrder => snap.inOrder /\ x = Now[f])
    BY <1>2
  <1>9. w \in [FieldNames -> Nat] /\ \A g \in FieldNames : w[g] = IF g = f THEN x ELSE v[g]
    BY <1>1, <1>6, <1>7
  <1>10. SnapType'
    BY <1>1, <1>7, <1>8, <1>9 DEF SnapType
  <1>11. OldValues'
    <2>1. /\ v.proxied <= proxied /\ v.relayed <= relayed /\ v.rejected <= rejected
          /\ v.peers <= ListLen /\ held \subseteq 0..ListLen
      BY DEF SnapInv, OldValues
    <2>2. /\ w.proxied <= proxied /\ w.relayed <= relayed /\ w.rejected <= rejected
          /\ w.peers <= ListLen
      BY <1>4, <1>6, <1>9, <2>1 DEF FieldNames
    <2> QED BY <1>3, <2>1, <2>2 DEF OldValues, ListLen
  <1>12. ASSUME Covered, x = Now[f]
         PROVE  Covered'
    <2>1. CASE snap.next = 1
      <3>1. f = "total" /\ x = total
        BY <1>4, <1>12, <2>1 DEF Fields
      <3>2. w.total <= proxied + relayed + rejected + MaxUndecided
        BY <1>5, <1>9, <3>1 DEF FieldNames
      <3> QED BY <1>3, <1>7, <2>1, <3>2 DEF Covered
    <2>2. CASE snap.next = 2
      <3>1. f = "proxied" /\ x = proxied
        BY <1>4, <1>12, <2>2 DEF Fields
      <3>2. w.total = v.total /\ w.proxied = proxied
        BY <1>9, <3>1 DEF FieldNames
      <3>3. w.total <= w.proxied + relayed + rejected + MaxUndecided
        BY <1>12, <2>2, <3>2 DEF Covered
      <3> QED BY <1>3, <1>7, <2>2, <3>3 DEF Covered
    <2>3. CASE snap.next = 3
      <3>1. f = "relayed" /\ x = relayed
        BY <1>4, <1>12, <2>3 DEF Fields
      <3>2. w.total = v.total /\ w.proxied = v.proxied /\ w.relayed = relayed
        BY <1>9, <3>1 DEF FieldNames
      <3>3. w.total <= w.proxied + w.relayed + rejected + MaxUndecided
        BY <1>12, <2>3, <3>2 DEF Covered
      <3> QED BY <1>3, <1>7, <2>3, <3>3 DEF Covered
    <2>4. CASE snap.next = 4
      <3>1. f = "rejected" /\ x = rejected
        BY <1>4, <1>12, <2>4 DEF Fields
      <3>2. w.total = v.total /\ w.proxied = v.proxied /\ w.relayed = v.relayed /\ w.rejected = rejected
        BY <1>9, <3>1 DEF FieldNames
      <3>3. w.total <= w.proxied + w.relayed + w.rejected + MaxUndecided
        BY <1>12, <2>4, <3>2 DEF Covered
      <3> QED BY <1>7, <2>4, <3>3 DEF Covered
    <2>5. CASE snap.next = 5
      <3>1. f = "peers"
        BY <2>5 DEF Fields
      <3>2. /\ w.total = v.total /\ w.proxied = v.proxied /\ w.relayed = v.relayed
            /\ w.rejected = v.rejected
        BY <1>9, <3>1 DEF FieldNames
      <3>3. w.total <= w.proxied + w.relayed + w.rejected + MaxUndecided
        BY <1>12, <2>5, <3>2 DEF Covered
      <3> QED BY <1>7, <2>5, <3>3 DEF Covered
    <2> QED BY <1>1, <2>1, <2>2, <2>3, <2>4, <2>5
  <1> QED BY <1>8, <1>10, <1>11, <1>12 DEF SnapInv

\* No snapshot is being taken.
LEMMA IdleFacts ==
    /\ Idle.next = 1 /\ DOMAIN Idle = {"next", "inOrder", "val"} /\ Idle.inOrder \in BOOLEAN
    /\ Idle.val = [f \in FieldNames |-> 0]
  <1>1. DOMAIN Now = FieldNames
    BY DEF Now, FieldNames
  <1> QED BY <1>1 DEF Idle

-----------------------------------------------------------------------------
(* The invariant and what follows from it                                   *)

\* The provider starts with an empty ledger.
LEMMA InitInv == DashInit => IInv
  <1> SUFFICES ASSUME DashInit PROVE IInv
    OBVIOUS
  <1>1. DiscoveryInv
    BY DiscoveryInit DEF DashInit
  <1>2. LedgerInv
    BY LedgerAssumption DEF DashInit, Ledger!Init, LedgerInv
  <1>3. SnapInv
    <2>1. snap = Idle /\ held = {0} /\ ListLen \in Nat
      BY <1>1, ListLenFacts DEF DashInit, Init, DiscoveryInv, TypeOK
    <2>2. SnapType /\ Covered
      BY <2>1, IdleFacts DEF SnapType, Covered
    <2>3. OldValues
      BY <1>2, <2>1, IdleFacts DEF OldValues, LedgerInv, FieldNames
    <2> QED BY <2>2, <2>3 DEF SnapInv
  <1> QED BY <1>1, <1>2, <1>3 DEF IInv

\* The invariant is inductive.
LEMMA NextInv == IInv /\ [DashNext]_allVars => IInv'
  <1> SUFFICES ASSUME IInv, [DashNext]_allVars PROVE IInv'
    OBVIOUS
  <1>0. ListLen \in Nat
    BY ListLenFacts DEF IInv, DiscoveryInv, TypeOK
  <1>1. ASSUME [Next]_vars, UNCHANGED <<ledger, snap>>, held' \subseteq held \cup {gauge'}
        PROVE  IInv'
    <2>1. DiscoveryInv'
      BY <1>1, DiscoveryNext DEF IInv
    <2>2. LedgerInv'
      BY <1>1 DEF IInv, LedgerInv, ledger
    <2>3. ListLen' \in Nat /\ ListLen <= ListLen'
      BY <1>1, StoreGrows DEF IInv
    <2>4. gauge' \in Nat /\ gauge' <= ListLen'
      BY <2>1, PeerAssumption, FS_CardinalityType DEF DiscoveryInv, TypeOK, GaugeNotAhead
    <2>5. SnapInv'
      BY <1>0, <1>1, <2>3, <2>4, SnapWhileDiscovering DEF IInv
    <2> QED BY <2>1, <2>2, <2>5 DEF IInv
  <1>2. CASE UNCHANGED allVars
    BY <1>1, <1>2 DEF allVars
  <1>3. CASE Next /\ Beside
    BY <1>1, <1>3 DEF Beside
  <1>4. CASE Requests /\ UNCHANGED <<vars, held, snap>>
    <2>1. DiscoveryInv'
      BY <1>4, DiscoveryNext DEF IInv
    <2>2. LedgerInv' /\ SnapInv'
      BY <1>4, LedgerStep, SnapWhileCounting DEF IInv, vars
    <2> QED BY <2>1, <2>2 DEF IInv
  <1>5. CASE Load \/ Poll
    <2>1. UNCHANGED <<vars, ledger, held>>
      BY <1>5 DEF Load, Poll
    <2>2. DiscoveryInv'
      BY <2>1, DiscoveryNext DEF IInv
    <2>3. LedgerInv'
      BY <2>1 DEF IInv, LedgerInv, ledger
    <2>4. CASE Load
      <3>1. SnapInv'
        BY <1>0, <2>4, LoadInv DEF IInv
      <3> QED BY <2>2, <2>3, <3>1 DEF IInv
    <2>5. CASE Poll
      <3>1. snap' = Idle
        BY <2>5 DEF Poll
      <3>2. SnapType' /\ Covered'
        BY <3>1, IdleFacts DEF SnapType, Covered
      <3>3. held' \subseteq 0..ListLen'
        BY <2>1 DEF IInv, SnapInv, OldValues, ListLen, vars
      <3>4. proxied' \in Nat /\ relayed' \in Nat /\ rejected' \in Nat /\ ListLen' \in Nat
        BY <1>0, <2>1, <2>3 DEF LedgerInv, ListLen, vars
      <3>5. OldValues'
        BY <3>1, <3>3, <3>4, IdleFacts DEF OldValues, FieldNames
      <3>6. SnapInv'
        BY <3>2, <3>5 DEF SnapInv
      <3> QED BY <2>2, <2>3, <3>6 DEF IInv
    <2> QED BY <1>5, <2>4, <2>5
  <1> QED BY <1>2, <1>3, <1>4, <1>5 DEF DashNext

\* So it holds in every reachable state.
LEMMA Invariance == DashSpec => []IInv
  BY InitInv, NextInv, PTL DEF DashSpec

\* The discovery state, the counters and the snapshot keep their types.
THEOREM TypeCorrect == DashSpec => []DashTypeOK
  <1>1. IInv => DashTypeOK
    <2> SUFFICES ASSUME IInv PROVE DashTypeOK
      OBVIOUS
    <2>1. DOMAIN Now = FieldNames /\ Len(Fields) = 5
      BY DEF Now, FieldNames, Fields
    <2>2. held \subseteq 0..Cardinality(Peer)
      <3>1. ListLen \in Nat /\ Cardinality(Peer) \in Nat /\ ListLen <= Cardinality(Peer)
        BY ListLenFacts DEF IInv, DiscoveryInv, TypeOK
      <3> QED BY <3>1 DEF IInv, SnapInv, OldValues
    <2> QED BY <2>1, <2>2 DEF IInv, DiscoveryInv, LedgerInv, SnapInv, SnapType, DashTypeOK
  <1> QED BY Invariance, <1>1, PTL

\* In whatever order and however garbled gossip delivers, and whatever function joins the
\* names, peers.dat holds under each node id values and a text that this node has signed.
THEOREM PeersAreGenuine == DashSpec => []StoreIsGenuine
  <1>1. IInv => StoreIsGenuine
    BY DEF IInv, DiscoveryInv
  <1> QED BY Invariance, <1>1, PTL

\* Two tasks that store old counts never make active_peers run ahead of peers.dat.
THEOREM GaugeLags == DashSpec => []GaugeNotAhead
  <1>1. IInv => GaugeNotAhead
    BY DEF IInv, DiscoveryInv
  <1> QED BY Invariance, <1>1, PTL

\* A served snapshot, whose counters belong to different moments and may be old, shows no
\* more verdicts than requests and no more peers than peers.dat; taken in order, it shows
\* the verdicts of all requests of its total but MaxUndecided.
THEOREM SnapshotIsCovered == DashSpec => []SnapshotLag
  <1>1. IInv => SnapshotLag
    <2> SUFFICES ASSUME IInv, Served
                 PROVE  /\ Verdicts <= total /\ snap.val.peers <= ListLen
                        /\ snap.inOrder => snap.val.total <= Verdicts + MaxUndecided
      BY DEF SnapshotLag
    <2>1. snap.next \in 1..6 /\ snap.next \notin 1..5
      BY DEF IInv, SnapInv, SnapType, Served, Loads, Fields
    <2>2. /\ snap.val.proxied \in Nat /\ snap.val.relayed \in Nat /\ snap.val.rejected \in Nat
          /\ snap.val.peers <= ListLen
      BY DEF IInv, SnapInv, SnapType, OldValues, FieldNames
    <2>3. Verdicts <= total
      BY <2>2, LedgerAssumption DEF IInv, LedgerInv, SnapInv, OldValues, Verdicts
    <2>4. Covered => snap.val.total <= Verdicts + MaxUndecided
      BY <2>1 DEF Covered, Verdicts
    <2> QED BY <2>2, <2>3, <2>4 DEF IInv, SnapInv
  <1> QED BY Invariance, <1>1, PTL

-----------------------------------------------------------------------------
(* What the gauge's catching up rests on                                    *)

\* The tasks that are about to store a count that is no longer right.
Stale == {t \in {"lis", "health"} : \/ t = "lis" /\ lis.pc = "storing" /\ lis.n # ListLen
                                    \/ t = "health" /\ health.pc = "storing" /\ health.n # ListLen}

\* What a step does to the counts in flight while peers.dat keeps its size.
Settles ==
    /\ Stale' \subseteq Stale
    /\ gauge = ListLen /\ gauge' # ListLen => Stale' # Stale
    /\ HealthStores /\ "health" \notin Stale => gauge' = ListLen

\* A count is taken right and stored once: no step makes a right count wrong unless
\* peers.dat grows, and storing a wrong one uses it up.
LEMMA CountsSettle ==
    ASSUME DiscoveryInv, [Next]_vars, ListLen' = ListLen
    PROVE  Settles
  <1>1. /\ lis \in [pc: {"starting", "off", "waiting", "counting", "storing"}, n: 0..Cardinality(Peer)]
        /\ health \in [pc: {"probing", "counting", "storing"}, n: 0..Cardinality(Peer)]
    BY DEF DiscoveryInv, TypeOK
  <1> DEFINE Kept(t) == t \in Stale' => t \in Stale
  <1>2. SUFFICES /\ Kept("lis") /\ Kept("health")
                 /\ gauge = ListLen /\ gauge' # ListLen =>
                      \E t \in {"lis", "health"} : t \in Stale /\ t \notin Stale'
                 /\ HealthStores /\ "health" \notin Stale => gauge' = ListLen
    <2>1. Stale' \subseteq {"lis", "health"}
      BY DEF Stale
    <2> QED BY <2>1 DEF Settles
  <1>3. /\ "lis" \in Stale <=> lis.pc = "storing" /\ lis.n # ListLen
        /\ "health" \in Stale <=> health.pc = "storing" /\ health.n # ListLen
        /\ "lis" \in Stale' <=> lis'.pc = "storing" /\ lis'.n # ListLen
        /\ "health" \in Stale' <=> health'.pc = "storing" /\ health'.n # ListLen
    BY DEF Stale
  <1>4. CASE \/ UNCHANGED vars \/ \E p \in Peer : Announce(p)
    BY <1>3, <1>4 DEF vars, tasks, Announce, HealthStores
  <1>5. CASE \/ \E ok \in BOOLEAN : Subscribe(ok)
             \/ \E m \in Arrivals : Receive(m)
             \/ ListenerBreaks
    <2>1. UNCHANGED <<health, gauge>> /\ lis'.pc # "storing"
      BY <1>1, <1>5 DEF Subscribe, Receive, ListenerBreaks
    <2> QED BY <1>3, <2>1 DEF HealthStores
  <1>6. CASE ListenerCounts
    <2>1. UNCHANGED <<health, gauge>> /\ lis'.n = ListLen
      BY <1>6 DEF ListenerCounts
    <2> QED BY <1>3, <2>1 DEF HealthStores
  <1>7. CASE ListenerStores
    <2>1. /\ health' = health /\ lis.pc = "storing" /\ gauge' = lis.n /\ lis'.pc = "waiting"
      BY <1>7 DEF ListenerStores
    <2> QED BY <1>3, <2>1 DEF HealthStores
  <1>8. CASE Probe \/ HealthCounts
    <2>1. UNCHANGED <<lis, gauge>> /\ (health'.pc = "counting" \/ health'.n = ListLen)
      BY <1>1, <1>8 DEF Probe, HealthCounts
    <2>2. health.pc # "storing"
      BY <1>8 DEF Probe, HealthCounts
    <2> QED BY <1>3, <2>1, <2>2 DEF HealthStores
  <1>9. CASE HealthStores
    <2>1. /\ lis' = lis /\ health.pc = "storing" /\ gauge' = health.n /\ health'.pc = "probing"
      BY <1>9 DEF HealthStores
    <2> QED BY <1>3, <2>1
  <1> QED BY <1>4, <1>5, <1>6, <1>7, <1>8, <1>9 DEF Next, ListenerStep, HealthStep

\* What GaugeCatchesUp rests on besides fairness, for every set of peers: the size of
\* peers.dat never falls and has a bound, so that it comes to rest; while it rests, no
\* outdated count is made, each that is stored is used up, and a store by the health
\* task of a count that is not outdated sets active_peers right.
THEOREM GaugeSettles ==
    DashSpec => [][/\ ListLen <= ListLen' /\ ListLen' <= Cardinality(Peer)
                   /\ ListLen' = ListLen => Settles]_allVars
  <1>1. IInv /\ [DashNext]_allVars =>
          [/\ ListLen <= ListLen' /\ ListLen' <= Cardinality(Peer)
           /\ ListLen' = ListLen => Settles]_allVars
    <2> SUFFICES ASSUME IInv, DashNext
                 PROVE  /\ ListLen <= ListLen' /\ ListLen' <= Cardinality(Peer)
                        /\ ListLen' = ListLen => Settles
      OBVIOUS
    <2>1. [Next]_vars
      BY DEF DashNext, Load, Poll
    <2> QED BY <2>1, StoreGrows, CountsSettle DEF IInv
  <1> QED BY Invariance, <1>1, PTL DEF DashSpec
=============================================================================
