------------------------- MODULE StreamServerProofs -------------------------
(***************************************************************************)
(* Permit conservation and request accounting of the api:// server, for    *)
(* every finite set of connections and streams and every semaphore size.   *)
(***************************************************************************)
EXTENDS StreamServer, FunctionTheorems, FiniteSetTheorems, TLAPS

\* permits stays in its type only because of conservation, the counters only
\* because each request is decided once, active only because it counts loops.
Undecided == {s \in Stream : pc[s] = "counted"}

Accounted == total = proxied + relayed + rejected + Cardinality(Undecided)

CountsLoops ==
    active = Cardinality({c \in Conn : conn[c] \in {"open", "lost"}})

IInv == TypeOK /\ PermitsConserved /\ Accounted /\ CountsLoops

\* What the ledger allows to be between the two counts: it follows from IInv.
UndecidedBounded == Cardinality(Undecided) <= MaxStreams * Cardinality(Conn)

-----------------------------------------------------------------------------
(* Counting streams and connections                                         *)

\* Whatever set of phases is counted, StreamsIn is finite.
LEMMA StreamsInFinite ==
    ASSUME NEW c, NEW P
    PROVE  IsFiniteSet(StreamsIn(c, P)) /\ Cardinality(StreamsIn(c, P)) \in Nat
  <1>1. StreamsIn(c, P) \subseteq Stream
    BY DEF StreamsIn
  <1> QED BY <1>1, FiniteAssumption, FS_Subset, FS_CardinalityType

\* Adding an element to, or removing one from, a finite set.
LEMMA CountOne ==
    ASSUME NEW S, IsFiniteSet(S), NEW T, NEW x
    PROVE  /\ x \notin S /\ T = S \cup {x} => Cardinality(T) = Cardinality(S) + 1
           /\ x \in S /\ T = S \ {x} => Cardinality(T) = Cardinality(S) - 1
           /\ Cardinality(S) \in Nat
           /\ x \in S => Cardinality(S) > 0
  <1>1. Cardinality(S) \in Nat
    BY FS_CardinalityType
  <1>2. x \notin S => Cardinality(S \cup {x}) = Cardinality(S) + 1
    BY FS_AddElement
  <1>3. x \in S => Cardinality(S \ {x}) = Cardinality(S) - 1
    BY FS_RemoveElement
  <1>4. x \in S => S # {}
    OBVIOUS
  <1>5. S # {} => Cardinality(S) # 0
    BY FS_EmptySet
  <1>6. ASSUME x \notin S, T = S \cup {x}
        PROVE  Cardinality(T) = Cardinality(S) + 1
    BY <1>2, <1>6, Zenon
  <1>7. ASSUME x \in S, T = S \ {x}
        PROVE  Cardinality(T) = Cardinality(S) - 1
    BY <1>3, <1>7, Zenon
  <1>8. x \in S => Cardinality(S) > 0
    BY <1>1, <1>4, <1>5
  <1> QED BY <1>1, <1>6, <1>7, <1>8, Zenon

\* What moving the task of s does to the number of permit holders.
LEMMA MoveHolders ==
    ASSUME TypeOK, NEW s \in Stream, NEW to \in Phase \ {"idle"}, pc[s] # "idle",
           pc' = [pc EXCEPT ![s] = to], of' = of
    PROVE  /\ of[s] \in Conn
           /\ \A d \in Conn \ {of[s]} : StreamsIn(d, Holding)' = StreamsIn(d, Holding)
           /\ pc[s] \in Holding <=> to \in Holding =>
                \A d \in Conn : StreamsIn(d, Holding)' = StreamsIn(d, Holding)
           /\ pc[s] \notin Holding /\ to \in Holding =>
                Cardinality(StreamsIn(of[s], Holding)')
                  = Cardinality(StreamsIn(of[s], Holding)) + 1
           /\ pc[s] \in Holding /\ to \notin Holding =>
                Cardinality(StreamsIn(of[s], Holding)')
                  = Cardinality(StreamsIn(of[s], Holding)) - 1
           /\ pc[s] \in Holding => Cardinality(StreamsIn(of[s], Holding)) > 0
  <1> DEFINE c == of[s]
  <1>1. c \in Conn
    BY DEF TypeOK
  <1>2. \A u \in Stream : pc'[u] = IF u = s THEN to ELSE pc[u]
    BY DEF TypeOK
  <1>3. \A d \in Conn \ {c} : StreamsIn(d, Holding)' = StreamsIn(d, Holding)
    BY <1>2 DEF StreamsIn
  <1>4. ASSUME pc[s] \in Holding <=> to \in Holding, NEW d \in Conn
        PROVE  StreamsIn(d, Holding)' = StreamsIn(d, Holding)
    BY <1>2, <1>4 DEF StreamsIn
  <1>5. ASSUME pc[s] \notin Holding, to \in Holding
        PROVE  s \notin StreamsIn(c, Holding)
               /\ StreamsIn(c, Holding)' = StreamsIn(c, Holding) \cup {s}
    BY <1>2, <1>5 DEF StreamsIn
  <1>6. ASSUME pc[s] \in Holding, to \notin Holding
        PROVE  s \in StreamsIn(c, Holding)
               /\ StreamsIn(c, Holding)' = StreamsIn(c, Holding) \ {s}
    BY <1>2, <1>6 DEF StreamsIn
  <1>7. IsFiniteSet(StreamsIn(c, Holding))
    BY StreamsInFinite
  <1>8. pc[s] \in Holding => s \in StreamsIn(c, Holding)
    BY DEF StreamsIn
  <1> QED BY <1>1, <1>3, <1>4, <1>5, <1>6, <1>7, <1>8, CountOne

\* The same for the requests whose verdict is still to come.
LEMMA MoveUndecided ==
    ASSUME TypeOK, NEW s \in Stream, NEW to \in Phase, pc' = [pc EXCEPT ![s] = to]
    PROVE  /\ Cardinality(Undecided) \in Nat
           /\ pc[s] # "counted" /\ to # "counted" => Undecided' = Undecided
           /\ pc[s] # "counted" /\ to = "counted" =>
                Cardinality(Undecided') = Cardinality(Undecided) + 1
           /\ pc[s] = "counted" /\ to # "counted" =>
                Cardinality(Undecided') = Cardinality(Undecided) - 1
  <1>1. \A u \in Stream : pc'[u] = IF u = s THEN to ELSE pc[u]
    BY DEF TypeOK
  <1>2. ASSUME pc[s] # "counted", to # "counted"
        PROVE  Undecided' = Undecided
    BY <1>1, <1>2 DEF Undecided
  <1>3. ASSUME pc[s] # "counted", to = "counted"
        PROVE  s \notin Undecided /\ Undecided' = Undecided \cup {s}
    BY <1>1, <1>3 DEF Undecided
  <1>4. ASSUME pc[s] = "counted", to # "counted"
        PROVE  s \in Undecided /\ Undecided' = Undecided \ {s}
    BY <1>1, <1>4 DEF Undecided
  <1>5. IsFiniteSet(Undecided)
    <2>1. Undecided \subseteq Stream
      BY DEF Undecided
    <2> QED BY <2>1, FiniteAssumption, FS_Subset
  <1> QED BY <1>2, <1>3, <1>4, <1>5, CountOne

\* A handler that returns gives back exactly the permit it holds.
LEMMA ReleaseInv ==
    ASSUME TypeOK, PermitsConserved, NEW s \in Stream, NEW to \in {"done", "detached"},
           pc[s] \in Holding, pc' = [pc EXCEPT ![s] = to], of' = of, Release(s)
    PROVE  PermitsConserved' /\ permits' \in [Conn -> 0..MaxStreams]
  <1> DEFINE c == of[s]
             N(d) == Cardinality(StreamsIn(d, Holding))
             M(d) == Cardinality(StreamsIn(d, Holding)')
  <1>1. /\ c \in Conn /\ M(c) = N(c) - 1 /\ N(c) > 0
        /\ \A d \in Conn \ {c} : M(d) = N(d)
    BY MoveHolders DEF Phase, Serving, Holding
  <1>2. \A d \in Conn : N(d) \in Nat
    BY StreamsInFinite
  <1>3. \A d \in Conn : permits'[d] = IF d = c THEN permits[d] + 1 ELSE permits[d]
    BY DEF TypeOK, Release
  <1>4. \A d \in Conn : permits[d] \in Nat /\ permits[d] + N(d) = MaxStreams
    BY MaxStreamsAssumption DEF TypeOK, PermitsConserved
  <1> HIDE DEF N, M
  <1>5. \A d \in Conn : permits'[d] + M(d) = MaxStreams /\ permits'[d] \in 0..MaxStreams
    BY <1>1, <1>2, <1>3, <1>4, MaxStreamsAssumption
  <1>6. permits' \in [Conn -> 0..MaxStreams]
    BY <1>5 DEF TypeOK, Release
  <1>7. \A d \in Conn : permits'[d] + Cardinality(StreamsIn(d, Holding)') = MaxStreams
    BY <1>5 DEF M
  <1> QED BY <1>6, <1>7 DEF PermitsConserved

\* A step that neither takes nor gives back a permit.
LEMMA KeepInv ==
    ASSUME TypeOK, PermitsConserved, NEW s \in Stream, NEW to \in Phase \ {"idle"},
           pc[s] # "idle", pc[s] \in Holding <=> to \in Holding,
           pc' = [pc EXCEPT ![s] = to], of' = of, permits' = permits
    PROVE  PermitsConserved'
  <1>1. \A d \in Conn : StreamsIn(d, Holding)' = StreamsIn(d, Holding)
    BY MoveHolders
  <1> QED BY <1>1 DEF PermitsConserved

\* The types that a step of one stream's task can disturb.
LEMMA MoveType ==
    ASSUME TypeOK, NEW s \in Stream, NEW to \in Phase \ {"idle"}, pc[s] # "idle",
           pc' = [pc EXCEPT ![s] = to], of' = of, conn' = conn, v1' = v1, active' = active,
           permits' \in [Conn -> 0..MaxStreams],
           total' \in Nat, proxied' \in Nat, relayed' \in Nat, rejected' \in Nat
    PROVE  TypeOK'
  <1>1. pc' \in [Stream -> Phase]
    BY DEF TypeOK
  <1>2. \A u \in Stream : of'[u] = NoConn <=> pc'[u] = "idle"
    BY DEF TypeOK
  <1> QED BY <1>1, <1>2 DEF TypeOK

\* The other half of RequestsAccounted is a consequence of conservation.
LEMMA InvAccounted == IInv => RequestsAccounted
  <1> SUFFICES ASSUME IInv PROVE RequestsAccounted
    OBVIOUS
  <1>1. ASSUME NEW c \in Conn
        PROVE  Cardinality(StreamsIn(c, {"counted"})) <= MaxStreams
    <2>1. StreamsIn(c, {"counted"}) \subseteq StreamsIn(c, Holding)
      BY DEF StreamsIn, Holding
    <2>2. Cardinality(StreamsIn(c, {"counted"})) <= Cardinality(StreamsIn(c, Holding))
      BY <2>1, StreamsInFinite, FS_Subset
    <2>3. Cardinality(StreamsIn(c, {"counted"})) \in Nat /\ Cardinality(StreamsIn(c, Holding)) \in Nat
      BY StreamsInFinite
    <2>4. permits[c] \in Nat /\ permits[c] + Cardinality(StreamsIn(c, Holding)) = MaxStreams
      BY MaxStreamsAssumption DEF IInv, TypeOK, PermitsConserved
    <2> QED BY <2>2, <2>3, <2>4, MaxStreamsAssumption
  <1> QED BY <1>1 DEF IInv, Accounted, Undecided, RequestsAccounted

-----------------------------------------------------------------------------
(* The steps                                                                *)

\* The server starts with all permits and no request counted.
LEMMA InitInv == Init => IInv
  <1> SUFFICES ASSUME Init PROVE IInv
    OBVIOUS
  <1>1. TypeOK
    BY MaxStreamsAssumption, NoConnAssumption DEF Init, TypeOK, Phase
  <1>2. PermitsConserved
    <2>1. \A c \in Conn : StreamsIn(c, Holding) = {} /\ permits[c] = MaxStreams
      BY DEF Init, StreamsIn, Holding
    <2> QED BY <2>1, FS_EmptySet, MaxStreamsAssumption DEF PermitsConserved
  <1>3. Accounted
    <2>1. Undecided = {} /\ total = 0 /\ proxied = 0 /\ relayed = 0 /\ rejected = 0
      BY DEF Init, Undecided
    <2> QED BY <2>1, FS_EmptySet DEF Accounted
  <1>4. CountsLoops
    <2>1. {c \in Conn : conn[c] \in {"open", "lost"}} = {} /\ active = 0
      BY DEF Init
    <2> QED BY <2>1, FS_EmptySet DEF CountsLoops
  <1> QED BY <1>1, <1>2, <1>3, <1>4 DEF IInv

\* The accept loop: a connection opens, is lost, and its loop ends.
LEMMA ConnInv ==
    ASSUME IInv, NEW c \in Conn, (\E b \in BOOLEAN : Accept(c, b)) \/ LoseConn(c) \/ AcceptEnds(c)
    PROVE  IInv'
  <1> DEFINE L == {d \in Conn : conn[d] \in {"open", "lost"}}
  <1>1. /\ IsFiniteSet(L) /\ active = Cardinality(L) /\ Cardinality(L) \in Nat
    <2>1. L \subseteq Conn
      OBVIOUS
    <2> QED BY <2>1, FiniteAssumption, FS_Subset, FS_CardinalityType DEF IInv, CountsLoops
  <1>2. UNCHANGED <<permits, pc, of, total, proxied, relayed, rejected>>
    BY DEF Accept, LoseConn, AcceptEnds, counters
  <1>3. PermitsConserved' /\ Accounted'
    BY <1>2 DEF IInv, PermitsConserved, StreamsIn, Accounted, Undecided
  <1>4. /\ active' \in Nat /\ CountsLoops'
        /\ conn' \in [Conn -> {"none", "open", "lost", "ended"}] /\ v1' \subseteq Conn
    <2> DEFINE K == {d \in Conn : conn'[d] \in {"open", "lost"}}
    <2> HIDE DEF L, K
    <2>1. CASE \E b \in BOOLEAN : Accept(c, b)
      <3>1. c \notin L /\ K = L \cup {c} /\ active' = active + 1
        BY <2>1 DEF Accept, IInv, TypeOK, L, K
      <3>2. Cardinality(K) = Cardinality(L) + 1
        BY <1>1, <3>1, CountOne
      <3>3. active' = Cardinality(K) /\ active' \in Nat
        BY <1>1, <3>1, <3>2
      <3> QED BY <2>1, <3>3 DEF Accept, IInv, TypeOK, CountsLoops, K
    <2>2. CASE LoseConn(c)
      <3>1. K = L /\ active' = active
        BY <2>2 DEF LoseConn, IInv, TypeOK, L, K, counters
      <3> QED BY <2>2, <1>1, <3>1 DEF LoseConn, IInv, TypeOK, CountsLoops, K
    <2>3. CASE AcceptEnds(c)
      <3>1. c \in L /\ K = L \ {c} /\ active' = active - 1
        BY <2>3 DEF AcceptEnds, IInv, TypeOK, L, K
      <3>2. Cardinality(K) = Cardinality(L) - 1 /\ Cardinality(L) > 0
        BY <1>1, <3>1, CountOne
      <3>3. active' = Cardinality(K) /\ active' \in Nat
        BY <1>1, <3>1, <3>2
      <3> QED BY <2>3, <3>3 DEF AcceptEnds, IInv, TypeOK, CountsLoops, K
    <2> QED BY <2>1, <2>2, <2>3
  <1>5. TypeOK'
    BY <1>2, <1>4 DEF IInv, TypeOK
  <1> QED BY <1>3, <1>4, <1>5 DEF IInv

\* accept_bi() hands over a stream: nothing is taken from the semaphore yet.
LEMMA OpenInv ==
    ASSUME IInv, NEW c \in Conn, NEW s \in Stream, OpenBi(c, s)
    PROVE  IInv'
  <1>1. /\ pc[s] = "idle" /\ pc' = [pc EXCEPT ![s] = "queued"]
        /\ of' = [of EXCEPT ![s] = c] /\ UNCHANGED <<conn, v1, permits, counters>>
    BY DEF OpenBi, Move
  <1>2. TypeOK'
    BY <1>1, NoConnAssumption DEF IInv, TypeOK, Phase, counters
  <1>3. \A d \in Conn : StreamsIn(d, Holding)' = StreamsIn(d, Holding)
    BY <1>1 DEF IInv, TypeOK, StreamsIn, Holding
  <1>4. PermitsConserved'
    BY <1>1, <1>3 DEF IInv, PermitsConserved
  <1>5. Undecided' = Undecided
    BY <1>1 DEF IInv, TypeOK, Undecided
  <1> QED BY <1>1, <1>2, <1>4, <1>5 DEF IInv, Accounted, CountsLoops, counters

\* Every return of handle_stream: the permit is dropped, no counter moves.
LEMMA ReturnInv ==
    ASSUME IInv, NEW s \in Stream, NEW to \in {"done", "detached"},
           pc[s] \in Holding \ {"counted"}, pc' = [pc EXCEPT ![s] = to], Release(s),
           UNCHANGED <<conn, v1, of, counters>>
    PROVE  IInv'
  <1>1. PermitsConserved' /\ permits' \in [Conn -> 0..MaxStreams]
    BY ReleaseInv DEF IInv, Holding
  <1>2. pc[s] # "idle" /\ pc[s] # "counted" /\ to \in Phase \ {"idle"} /\ to # "counted"
    BY DEF Holding, Phase, Serving
  <1>3. TypeOK'
    BY <1>1, <1>2, MoveType DEF IInv, TypeOK, counters
  <1>4. Undecided' = Undecided
    BY <1>2, MoveUndecided DEF IInv
  <1> QED BY <1>1, <1>3, <1>4 DEF IInv, Accounted, CountsLoops, counters

\* Every verdict: one undecided request less, one of the three counters more.
LEMMA VerdictInv ==
    ASSUME IInv, NEW s \in Stream, NEW to \in {"rejecting", "tunnel", "executing", "relaying"},
           pc[s] = "counted", pc' = [pc EXCEPT ![s] = to],
           UNCHANGED <<conn, v1, of, permits, total, active>>,
           \/ proxied' = proxied + 1 /\ UNCHANGED <<relayed, rejected>>
           \/ relayed' = relayed + 1 /\ UNCHANGED <<proxied, rejected>>
           \/ rejected' = rejected + 1 /\ UNCHANGED <<proxied, relayed>>
    PROVE  IInv'
  <1>1. to \in Phase \ {"idle"} /\ to # "counted" /\ (pc[s] \in Holding <=> to \in Holding)
    BY DEF Phase, Serving, Holding
  <1>2. PermitsConserved'
    BY <1>1, KeepInv DEF IInv
  <1>3. TypeOK'
    BY <1>1, MoveType DEF IInv, TypeOK
  <1>4. Cardinality(Undecided') = Cardinality(Undecided) - 1 /\ Cardinality(Undecided) \in Nat
    BY <1>1, MoveUndecided DEF IInv
  <1>5. Accounted'
    BY <1>4 DEF IInv, Accounted, TypeOK
  <1> QED BY <1>2, <1>3, <1>5 DEF IInv, CountsLoops

\* Every step of a stream's task, from the semaphore to its end, one case each.
LEMMA StreamStepInv ==
    ASSUME IInv, NEW s \in Stream, StreamStep(s)
    PROVE  IInv'
  <1>1. CASE Acquire(s)
    <2> DEFINE c == of[s]
               N(d) == Cardinality(StreamsIn(d, Holding))
               M(d) == Cardinality(StreamsIn(d, Holding)')
    <2>1. /\ pc[s] = "queued" /\ pc' = [pc EXCEPT ![s] = "reading"]
          /\ permits[c] > 0 /\ permits' = [permits EXCEPT ![c] = permits[c] - 1]
          /\ UNCHANGED <<conn, v1, of, counters>>
      BY <1>1 DEF Acquire, Move
    <2>2. c \in Conn /\ M(c) = N(c) + 1 /\ \A d \in Conn \ {c} : M(d) = N(d)
      BY <2>1, MoveHolders DEF IInv, Phase, Serving, Holding
    <2>3. \A d \in Conn : N(d) \in Nat
      BY StreamsInFinite
    <2>4. \A d \in Conn : permits'[d] = IF d = c THEN permits[d] - 1 ELSE permits[d]
      BY <2>1 DEF IInv, TypeOK
    <2>5. \A d \in Conn : permits[d] \in 0..MaxStreams /\ permits[d] + N(d) = MaxStreams
      BY DEF IInv, TypeOK, PermitsConserved
    <2> HIDE DEF N, M
    <2>6. \A d \in Conn : permits'[d] + M(d) = MaxStreams /\ permits'[d] \in 0..MaxStreams
      BY <2>1, <2>2, <2>3, <2>4, <2>5, MaxStreamsAssumption
    <2>7. permits' \in [Conn -> 0..MaxStreams]
      BY <2>1, <2>6 DEF IInv, TypeOK
    <2>8. PermitsConserved'
      BY <2>6 DEF PermitsConserved, M
    <2>9. TypeOK'
      BY <2>1, <2>7, MoveType DEF IInv, TypeOK, Phase, Serving, Holding, counters
    <2>10. Undecided' = Undecided
      BY <2>1 DEF IInv, TypeOK, Undecided
    <2> QED BY <2>1, <2>8, <2>9, <2>10 DEF IInv, Accounted, CountsLoops, counters
  <1>2. CASE ReadOk(s)
    <2>1. /\ pc[s] = "reading" /\ pc' = [pc EXCEPT ![s] = "counted"] /\ total' = total + 1
          /\ UNCHANGED <<conn, v1, permits, of, proxied, relayed, rejected, active>>
      BY <1>2 DEF ReadOk, Move
    <2>2. PermitsConserved'
      BY <2>1, KeepInv DEF IInv, Phase, Serving, Holding
    <2>3. TypeOK'
      BY <2>1, MoveType DEF IInv, TypeOK, Phase, Serving, Holding
    <2>4. Cardinality(Undecided') = Cardinality(Undecided) + 1 /\ Cardinality(Undecided) \in Nat
      BY <2>1, MoveUndecided DEF IInv, Phase, Serving, Holding
    <2>5. Accounted'
      BY <2>1, <2>4 DEF IInv, Accounted, TypeOK
    <2> QED BY <2>1, <2>2, <2>3, <2>5 DEF IInv, CountsLoops
  <1>3. CASE ReadErr(s) \/ RelayErr(s) \/ WriteEnds(s) \/ TunnelEnds(s) \/ HardCap(s)
    <2>1. /\ pc[s] \in Holding \ {"counted"} /\ Release(s)
          /\ pc' = [pc EXCEPT ![s] = "done"] \/ pc' = [pc EXCEPT ![s] = "detached"]
          /\ UNCHANGED <<conn, v1, of, counters>>
      BY <1>3 DEF ReadErr, RelayErr, WriteEnds, TunnelEnds, HardCap, Move, Holding
    <2> QED BY <2>1, ReturnInv
  <1>4. CASE Reject(s)
    BY <1>4, VerdictInv DEF Reject, Move
  <1>5. CASE StartTunnel(s)
    BY <1>5, VerdictInv DEF StartTunnel, Move
  <1>6. CASE StartExecute(s)
    BY <1>6, VerdictInv DEF StartExecute, Move
  <1>7. CASE StartRelay(s)
    BY <1>7, VerdictInv DEF StartRelay, Move
  <1>8. CASE Answer(s) \/ DetachedEnds(s)
    <2>1. PICK to \in {"writing", "done"} :
             /\ pc[s] # "idle" /\ pc[s] # "counted" /\ (pc[s] \in Holding <=> to \in Holding)
             /\ pc' = [pc EXCEPT ![s] = to] /\ UNCHANGED <<conn, v1, permits, of, counters>>
      BY <1>8 DEF Answer, DetachedEnds, Move, Holding
    <2>2. PermitsConserved'
      BY <2>1, KeepInv DEF IInv, Phase, Serving, Holding
    <2>3. TypeOK'
      BY <2>1, MoveType DEF IInv, TypeOK, Phase, Serving, Holding, counters
    <2>4. Undecided' = Undecided
      BY <2>1, MoveUndecided DEF IInv, Phase, Serving, Holding
    <2> QED BY <2>1, <2>2, <2>3, <2>4 DEF IInv, Accounted, CountsLoops, counters
  <1> QED BY <1>1, <1>2, <1>3, <1>4, <1>5, <1>6, <1>7, <1>8 DEF StreamStep

\* The invariant is inductive.
LEMMA NextInv == IInv /\ [Next]_vars => IInv'
  <1> SUFFICES ASSUME IInv, [Next]_vars PROVE IInv'
    OBVIOUS
  <1>1. CASE UNCHANGED vars
    BY <1>1 DEF vars, IInv, TypeOK, PermitsConserved, StreamsIn, Accounted, Undecided,
                CountsLoops
  <1> QED BY <1>1, ConnInv, OpenInv, StreamStepInv DEF Next

-----------------------------------------------------------------------------
(* The counters implement RequestLedger                                     *)

\* A set no larger than n can be numbered within 1..n.
LEMMA Numbering ==
    ASSUME NEW S, IsFiniteSet(S), NEW n \in Nat, Cardinality(S) <= n
    PROVE  \E f : f \in Injection(S, 1..n)
  <1>1. PICK m \in Nat : ExistsBijection(1..m, S)
    BY FS_NatBijection
  <1>2. m = Cardinality(S)
    BY <1>1, FS_CountingElements
  <1>3. ExistsInjection(S, 1..m)
    BY <1>1, Fun_ExistsBijSymmetric DEF ExistsBijection, ExistsInjection, Bijection
  <1>4. PICK f : f \in Injection(S, 1..m)
    BY <1>3 DEF ExistsInjection
  <1>5. 1..m \subseteq 1..n
    BY <1>2
  <1>6. f \in Injection(S, 1..n)
    BY <1>4, <1>5 DEF Injection
  <1> QED BY <1>6

\* The requests without a verdict, of all connections together, are at most what the
\* semaphores let through: each is numbered among those of its connection.
LEMMA UndecidedBound ==
    ASSUME IInv
    PROVE  UndecidedBounded
  <1> DEFINE S(c) == StreamsIn(c, {"counted"})
             g(c) == CHOOSE f : f \in Injection(S(c), 1..MaxStreams)
             h    == [s \in Undecided |-> <<of[s], g(of[s])[s]>>]
  <1>1. \A c \in Conn : g(c) \in Injection(S(c), 1..MaxStreams)
    <2> SUFFICES ASSUME NEW c \in Conn PROVE g(c) \in Injection(S(c), 1..MaxStreams)
      OBVIOUS
    <2>1. IsFiniteSet(S(c)) /\ Cardinality(S(c)) <= MaxStreams
      BY StreamsInFinite, InvAccounted DEF RequestsAccounted
    <2>2. \E f : f \in Injection(S(c), 1..MaxStreams)
      BY <2>1, Numbering, MaxStreamsAssumption
    <2> QED BY <2>2, Zenon
  <1>2. \A s \in Undecided : of[s] \in Conn /\ s \in S(of[s])
    BY DEF IInv, TypeOK, Undecided, StreamsIn
  <1> HIDE DEF S, g
  <1>3. \A s \in Undecided : g(of[s])[s] \in 1..MaxStreams
    BY <1>1, <1>2 DEF Injection
  <1>4. \A s, t \in Undecided : of[s] = of[t] /\ g(of[s])[s] = g(of[t])[t] => s = t
    BY <1>1, <1>2 DEF Injection, IsInjective
  <1>5. h \in Injection(Undecided, Conn \X (1..MaxStreams))
    BY <1>2, <1>3, <1>4 DEF Injection, IsInjective
  <1>6. IsFiniteSet(1..MaxStreams) /\ Cardinality(1..MaxStreams) = MaxStreams
    BY FS_Interval, MaxStreamsAssumption
  <1>7. /\ IsFiniteSet(Conn \X (1..MaxStreams))
        /\ Cardinality(Conn \X (1..MaxStreams)) = Cardinality(Conn) * MaxStreams
    BY <1>6, FS_Product, FiniteAssumption
  <1> HIDE DEF h
  <1>8. Cardinality(Undecided) <= Cardinality(Conn) * MaxStreams
    BY <1>5, <1>7, FS_Injection
  <1>9. Cardinality(Conn) * MaxStreams = MaxStreams * Cardinality(Conn)
    BY FS_CardinalityType, FiniteAssumption, MaxStreamsAssumption
  <1> QED BY <1>8, <1>9 DEF UndecidedBounded

\* A step that is no verdict and reads no request whole leaves the ledger alone.
LEMMA QuietSteps ==
    ASSUME IInv, [Next]_vars,
           \A s \in Stream : /\ ~ReadOk(s) /\ ~Reject(s) /\ ~StartTunnel(s)
                             /\ ~StartExecute(s) /\ ~StartRelay(s)
    PROVE  UNCHANGED <<total, proxied, relayed, rejected>> /\ Undecided' = Undecided
  <1>1. CASE UNCHANGED vars
    BY <1>1 DEF vars, Undecided
  <1>2. ASSUME NEW c \in Conn, (\E b \in BOOLEAN : Accept(c, b)) \/ LoseConn(c) \/ AcceptEnds(c)
        PROVE  UNCHANGED <<total, proxied, relayed, rejected>> /\ Undecided' = Undecided
    BY <1>2 DEF Accept, LoseConn, AcceptEnds, counters, Undecided
  <1>3. ASSUME NEW s \in Stream, NEW to \in Phase, pc[s] # "counted", to # "counted",
               pc' = [pc EXCEPT ![s] = to], UNCHANGED counters
        PROVE  UNCHANGED <<total, proxied, relayed, rejected>> /\ Undecided' = Undecided
    BY <1>3, MoveUndecided DEF counters, IInv
  <1>4. ASSUME NEW c \in Conn, NEW s \in Stream, OpenBi(c, s)
        PROVE  UNCHANGED <<total, proxied, relayed, rejected>> /\ Undecided' = Undecided
    BY <1>3, <1>4 DEF OpenBi, Move, Phase
  <1>5. ASSUME NEW s \in Stream, StreamStep(s)
        PROVE  UNCHANGED <<total, proxied, relayed, rejected>> /\ Undecided' = Undecided
    <2>1. CASE Acquire(s) \/ ReadErr(s) \/ Answer(s) \/ RelayErr(s)
      BY <1>3, <2>1 DEF Acquire, ReadErr, Answer, RelayErr, Move, Phase, Serving, Holding
    <2>2. CASE WriteEnds(s) \/ TunnelEnds(s) \/ HardCap(s) \/ DetachedEnds(s)
      BY <1>3, <2>2 DEF WriteEnds, TunnelEnds, HardCap, DetachedEnds, Move, Phase, Serving
    <2> QED BY <1>5, <2>1, <2>2 DEF StreamStep
  <1> QED BY <1>1, <1>2, <1>4, <1>5 DEF Next

\* A step of the server counts one request, decides one, or is not seen by a reader of
\* the counters.
LEMMA NextLedger ==
    ASSUME IInv, UndecidedBounded', [Next]_vars
    PROVE  [Ledger!Next]_<<total, proxied, relayed, rejected, Cardinality(Undecided)>>
  <1> DEFINE u == Cardinality(Undecided)
             v == Cardinality(Undecided')
             most == MaxStreams * Cardinality(Conn)
  <1>1. u \in Nat /\ v \in Nat /\ most \in Nat /\ v <= most
    <2>1. Undecided \subseteq Stream /\ Undecided' \subseteq Stream
      BY DEF Undecided
    <2>2. u \in Nat /\ v \in Nat
      BY <2>1, FiniteAssumption, FS_Subset, FS_CardinalityType
    <2>3. most \in Nat
      BY FS_CardinalityType, FiniteAssumption, MaxStreamsAssumption
    <2> QED BY <2>2, <2>3 DEF UndecidedBounded
  <1>2. \A s \in Stream, to \in Phase : pc' = [pc EXCEPT ![s] = to] =>
           /\ pc[s] # "counted" /\ to = "counted" => v = u + 1
           /\ pc[s] = "counted" /\ to # "counted" => v = u - 1
    BY MoveUndecided DEF IInv
  <1>3. ASSUME NEW s \in Stream, ReadOk(s)
        PROVE  Ledger!Count
    <2>1. v = u + 1 /\ total' = total + 1 /\ UNCHANGED <<proxied, relayed, rejected>>
      BY <1>2, <1>3 DEF ReadOk, Move, Phase, Serving, Holding
    <2>2. u < most
      BY <1>1, <2>1
    <2> QED BY <2>1, <2>2 DEF Ledger!Count, Undecided
  <1>4. ASSUME NEW s \in Stream,
               Reject(s) \/ StartTunnel(s) \/ StartExecute(s) \/ StartRelay(s)
        PROVE  Ledger!Decide
    <2>1. /\ v = u - 1 /\ UNCHANGED total
          /\ \/ proxied' = proxied + 1 /\ UNCHANGED <<relayed, rejected>>
             \/ relayed' = relayed + 1 /\ UNCHANGED <<proxied, rejected>>
             \/ rejected' = rejected + 1 /\ UNCHANGED <<proxied, relayed>>
      BY <1>2, <1>4 DEF Reject, StartTunnel, StartExecute, StartRelay, Move, Phase, Serving, Holding
    <2>2. u > 0
      BY <1>1, <2>1
    <2> QED BY <2>1, <2>2 DEF Ledger!Decide, Undecided
  <1>5. CASE \A s \in Stream : /\ ~ReadOk(s) /\ ~Reject(s) /\ ~StartTunnel(s)
                               /\ ~StartExecute(s) /\ ~StartRelay(s)
    BY <1>5, QuietSteps
  <1> QED BY <1>3, <1>4, <1>5 DEF Ledger!Next

-----------------------------------------------------------------------------
\* Whatever clients, peers and upstreams do, each path through handle_stream
\* gives back the permit it took, once.
THEOREM PermitsAreConserved == Spec => [](TypeOK /\ PermitsConserved)
  <1>1. IInv => TypeOK /\ PermitsConserved
    BY DEF IInv
  <1> QED BY InitInv, NextInv, <1>1, PTL DEF Spec

\* The four request counters add up, whichever of them a stream has reached.
THEOREM RequestsAreAccounted == Spec => []RequestsAccounted
  BY InitInv, NextInv, InvAccounted, PTL DEF Spec

\* Counters, permits and phases keep their types: the semaphore never hands out more
\* permits than it has and no counter is decremented below zero.
THEOREM TypeCorrect == Spec => []TypeOK
  <1>1. IInv => TypeOK
    BY DEF IInv
  <1> QED BY InitInv, NextInv, <1>1, PTL DEF Spec

\* The server implements the ledger: a reader of Stats sees one count per request read,
\* one verdict per count, in that order, and never more requests without a verdict than
\* the semaphores of all connections let through.
THEOREM ServerIsLedger == Spec => CountersAreLedger
  <1>1. Init => Ledger!Init
    <2> SUFFICES ASSUME Init PROVE Ledger!Init
      OBVIOUS
    <2>1. {s \in Stream : pc[s] = "counted"} = {}
      BY DEF Init
    <2> QED BY <2>1, FS_EmptySet DEF Init, Ledger!Init
  <1>2. IInv /\ UndecidedBounded' /\ [Next]_vars =>
          [Ledger!Next]_<<total, proxied, relayed, rejected,
                          Cardinality({s \in Stream : pc[s] = "counted"})>>
    BY NextLedger DEF Undecided
  <1>3. IInv => UndecidedBounded
    BY UndecidedBound
  <1> QED BY InitInv, NextInv, <1>1, <1>2, <1>3, PTL DEF Spec, CountersAreLedger, Ledger!Spec

-----------------------------------------------------------------------------
(* A lost connection runs down                                              *)

\* The most steps a task in phase p has before it, the longest way through handle_stream.
StepsLeft(p) ==
    IF p = "queued" THEN 6
    ELSE IF p = "reading" THEN 5
    ELSE IF p = "counted" THEN 4
    ELSE IF p \in {"executing", "relaying", "tunnel"} THEN 3
    ELSE IF p \in {"rejecting", "writing"} THEN 2
    ELSE IF p = "detached" THEN 1 ELSE 0

\* What the tasks of connection c have before them, one element for each step.
Todo(c) == {w \in Stream \X (1..6) : of[w[1]] = c /\ w[2] <= StepsLeft(pc[w[1]])}

\* Every step of a task goes one way: there is no loop in handle_stream.
LEMMA StepsGoDown ==
    ASSUME TypeOK, NEW s \in Stream, StreamStep(s)
    PROVE  /\ UNCHANGED <<conn, of>>
           /\ \E p : /\ pc' = [pc EXCEPT ![s] = p] /\ StepsLeft(p) < StepsLeft(pc[s])
                     /\ StepsLeft(p) \in 0..6 /\ StepsLeft(pc[s]) \in 1..6
  <1> DEFINE Goes(from, to) == pc[s] = from /\ pc' = [pc EXCEPT ![s] = to]
  <1>1. /\ StepsLeft("queued") = 6 /\ StepsLeft("reading") = 5 /\ StepsLeft("counted") = 4
        /\ StepsLeft("executing") = 3 /\ StepsLeft("relaying") = 3 /\ StepsLeft("tunnel") = 3
        /\ StepsLeft("rejecting") = 2 /\ StepsLeft("writing") = 2
        /\ StepsLeft("detached") = 1 /\ StepsLeft("done") = 0
    BY DEF StepsLeft
  <1>2. ASSUME NEW from, NEW to, Goes(from, to), StepsLeft(to) < StepsLeft(from),
               StepsLeft(to) \in 0..6, StepsLeft(from) \in 1..6
        PROVE  \E p : /\ pc' = [pc EXCEPT ![s] = p] /\ StepsLeft(p) < StepsLeft(pc[s])
                      /\ StepsLeft(p) \in 0..6 /\ StepsLeft(pc[s]) \in 1..6
    BY <1>2
  <1>3. UNCHANGED <<conn, of>>
    BY DEF StreamStep, Acquire, ReadOk, ReadErr, Reject, StartTunnel, StartExecute, StartRelay,
           Answer, RelayErr, WriteEnds, TunnelEnds, HardCap, DetachedEnds
  <1>4. \/ Goes("queued", "reading") \/ Goes("reading", "counted") \/ Goes("reading", "done")
        \/ Goes("counted", "rejecting") \/ Goes("counted", "tunnel")
        \/ Goes("counted", "executing") \/ Goes("counted", "relaying")
        \/ Goes("executing", "writing") \/ Goes("relaying", "writing") \/ Goes("relaying", "done")
        \/ Goes("rejecting", "done") \/ Goes("writing", "done")
        \/ Goes("tunnel", "done") \/ Goes("tunnel", "detached") \/ Goes("detached", "done")
    BY DEF StreamStep, Acquire, ReadOk, ReadErr, Reject, StartTunnel, StartExecute, StartRelay,
           Answer, RelayErr, WriteEnds, TunnelEnds, HardCap, DetachedEnds, Move
  <1> HIDE DEF Goes
  <1>5. CASE Goes("queued", "reading")
    BY <1>1, <1>2, <1>3, <1>5
  <1>6. CASE Goes("reading", "counted") \/ Goes("reading", "done")
    BY <1>1, <1>2, <1>3, <1>6
  <1>7. CASE Goes("counted", "rejecting") \/ Goes("counted", "tunnel")
    BY <1>1, <1>2, <1>3, <1>7
  <1>8. CASE Goes("counted", "executing") \/ Goes("counted", "relaying")
    BY <1>1, <1>2, <1>3, <1>8
  <1>9. CASE Goes("executing", "writing") \/ Goes("relaying", "writing") \/ Goes("relaying", "done")
    BY <1>1, <1>2, <1>3, <1>9
  <1>10. CASE Goes("rejecting", "done") \/ Goes("writing", "done")
    BY <1>1, <1>2, <1>3, <1>10
  <1>11. CASE Goes("tunnel", "done") \/ Goes("tunnel", "detached") \/ Goes("detached", "done")
    BY <1>1, <1>2, <1>3, <1>11
  <1> QED BY <1>4, <1>5, <1>6, <1>7, <1>8, <1>9, <1>10, <1>11

\* What is left is finite.
LEMMA TodoFinite ==
    ASSUME NEW S \in SUBSET (Stream \X (1..6))
    PROVE  IsFiniteSet(S) /\ Cardinality(S) \in Nat
  <1>1. IsFiniteSet(1..6)
    <2>1. 1 \in Int /\ 6 \in Int
      OBVIOUS
    <2> QED BY <2>1, FS_Interval, Zenon
  <1>2. IsFiniteSet(Stream \X (1..6))
    BY <1>1, FiniteAssumption, FS_Product
  <1> QED BY <1>2, FS_Subset, FS_CardinalityType

\* A step of a task takes one of the steps of its own connection away, and none is added
\* to any other's.
LEMMA StepIsProgress ==
    ASSUME TypeOK, NEW s \in Stream, StreamStep(s), NEW c
    PROVE  /\ Todo(c)' \subseteq Todo(c)
           /\ of[s] = c => Cardinality(Todo(c)') < Cardinality(Todo(c))
  <1>1. PICK p : /\ pc' = [pc EXCEPT ![s] = p] /\ StepsLeft(p) < StepsLeft(pc[s])
                 /\ StepsLeft(p) \in 0..6 /\ StepsLeft(pc[s]) \in 1..6
    BY StepsGoDown
  <1>2. UNCHANGED of /\ pc'[s] = p /\ \A u \in Stream : u # s => pc'[u] = pc[u]
    BY <1>1, StepsGoDown DEF TypeOK
  <1>3. Todo(c)' = {w \in Stream \X (1..6) : of[w[1]] = c /\ w[2] <= StepsLeft(pc'[w[1]])}
    BY <1>2 DEF Todo, StepsLeft
  <1>4. Todo(c)' \subseteq Todo(c)
    <2>1. ASSUME NEW u \in Stream, NEW i \in 1..6, i <= StepsLeft(pc'[u])
          PROVE  i <= StepsLeft(pc[u])
      <3>1. CASE u = s
        BY <1>1, <1>2, <2>1, <3>1
      <3>2. CASE u # s
        BY <1>2, <2>1, <3>2
      <3> QED BY <3>1, <3>2
    <2> QED BY <1>3, <2>1 DEF Todo
  <1>5. ASSUME of[s] = c
        PROVE  Cardinality(Todo(c)') < Cardinality(Todo(c))
    <2> DEFINE i == StepsLeft(pc[s])
    <2>1. i \in 1..6 /\ i <= StepsLeft(pc[s]) /\ ~(i <= StepsLeft(pc'[s]))
      BY <1>1, <1>2
    <2>2. <<s, i>> \in Todo(c) /\ <<s, i>> \notin Todo(c)'
      BY <1>3, <1>5, <2>1 DEF Todo
    <2>3. Todo(c) \in SUBSET (Stream \X (1..6)) /\ Todo(c)' \in SUBSET (Stream \X (1..6))
      BY <1>3 DEF Todo
    <2>4. /\ IsFiniteSet(Todo(c)) /\ Cardinality(Todo(c)) \in Nat /\ Cardinality(Todo(c)') \in Nat
      BY <2>3, TodoFinite
    <2>5. Cardinality(Todo(c)') <= Cardinality(Todo(c)) /\ Cardinality(Todo(c)') # Cardinality(Todo(c))
      BY <1>4, <2>2, <2>4, FS_Subset
    <2> QED BY <2>4, <2>5
  <1> QED BY <1>4, <1>5

\* A connection that is lost stays lost, gets no more streams, and each step a task of it
\* takes makes a finite set smaller that no other task makes larger: what is queued,
\* read, decided and written there comes to an end.
THEOREM LostConnRunsDown ==
    Spec => [][\A c \in Conn : conn[c] \in {"lost", "ended"} =>
                 /\ conn'[c] \in {"lost", "ended"}
                 /\ IsFiniteSet(Todo(c)) /\ Todo(c)' \subseteq Todo(c)
                 /\ \A s \in Stream : of[s] = c /\ StreamStep(s) =>
                                        Cardinality(Todo(c)') < Cardinality(Todo(c))]_vars
  <1> DEFINE RunsDown ==
               \A c \in Conn : conn[c] \in {"lost", "ended"} =>
                 /\ conn'[c] \in {"lost", "ended"}
                 /\ IsFiniteSet(Todo(c)) /\ Todo(c)' \subseteq Todo(c)
                 /\ \A s \in Stream : of[s] = c /\ StreamStep(s) =>
                                        Cardinality(Todo(c)') < Cardinality(Todo(c))
  <1>1. IInv /\ [Next]_vars => [RunsDown]_vars
    <2> SUFFICES ASSUME IInv, [Next]_vars, NEW c \in Conn, conn[c] \in {"lost", "ended"}
                 PROVE  /\ conn'[c] \in {"lost", "ended"}
                        /\ IsFiniteSet(Todo(c)) /\ Todo(c)' \subseteq Todo(c)
                        /\ \A s \in Stream : of[s] = c /\ StreamStep(s) =>
                                               Cardinality(Todo(c)') < Cardinality(Todo(c))
      OBVIOUS
    <2>1. TypeOK /\ Todo(c) \in SUBSET (Stream \X (1..6))
      BY DEF IInv, Todo
    <2>2. IsFiniteSet(Todo(c))
      BY <2>1, TodoFinite
    <2>3. \A s \in Stream : of[s] = c /\ StreamStep(s) => Cardinality(Todo(c)') < Cardinality(Todo(c))
      BY <2>1, StepIsProgress
    <2>4. conn'[c] \in {"lost", "ended"} /\ Todo(c)' \subseteq Todo(c)
      <3>1. ASSUME NEW s \in Stream, StreamStep(s)
            PROVE  conn'[c] \in {"lost", "ended"} /\ Todo(c)' \subseteq Todo(c)
        BY <2>1, <3>1, StepIsProgress, StepsGoDown
      <3>2. ASSUME NEW d \in Conn, NEW s \in Stream, OpenBi(d, s)
            PROVE  conn'[c] \in {"lost", "ended"} /\ Todo(c)' \subseteq Todo(c)
        <4>1. d # c /\ UNCHANGED conn /\ of' = [of EXCEPT ![s] = d] /\ pc' = [pc EXCEPT ![s] = "queued"]
          BY <3>2 DEF OpenBi, Move
        <4>2. \A u \in Stream : of'[u] = c => of[u] = c /\ pc'[u] = pc[u]
          BY <2>1, <4>1 DEF TypeOK
        <4>3. Todo(c)' = {w \in Stream \X (1..6) : of'[w[1]] = c /\ w[2] <= StepsLeft(pc'[w[1]])}
          BY DEF Todo, StepsLeft
        <4> QED BY <4>1, <4>2, <4>3 DEF Todo
      <3>3. ASSUME UNCHANGED <<pc, of>>,
                   \A d \in Conn : conn[d] \in {"lost", "ended"} => conn'[d] \in {"lost", "ended"}
            PROVE  conn'[c] \in {"lost", "ended"} /\ Todo(c)' \subseteq Todo(c)
        BY <3>3 DEF Todo, StepsLeft
      <3>4. CASE \E d \in Conn, isV1 \in BOOLEAN : Accept(d, isV1)
        BY <2>1, <3>3, <3>4 DEF Accept, TypeOK
      <3>5. CASE \E d \in Conn : LoseConn(d)
        BY <2>1, <3>3, <3>5 DEF LoseConn, TypeOK
      <3>6. CASE \E d \in Conn : AcceptEnds(d)
        BY <2>1, <3>3, <3>6 DEF AcceptEnds, TypeOK
      <3>7. CASE UNCHANGED vars
        BY <3>3, <3>7 DEF vars
      <3> QED BY <3>1, <3>2, <3>4, <3>5, <3>6, <3>7 DEF Next
    <2> QED BY <2>2, <2>3, <2>4
  <1> QED BY <1>1, InitInv, NextInv, PTL DEF Spec

\* A stream queued at the semaphore is let through, or waits for a stream of its own
\* connection that holds a permit and will drop it: never for another connection, and
\* never for a permit that nobody holds.
THEOREM QueuedWaitsForHolder ==
    Spec => [](\A s \in Stream : pc[s] = "queued" =>
                 permits[of[s]] > 0 \/ \E h \in Stream : of[h] = of[s] /\ pc[h] \in Holding)
  <1>1. IInv => \A s \in Stream : pc[s] = "queued" =>
                 permits[of[s]] > 0 \/ \E h \in Stream : of[h] = of[s] /\ pc[h] \in Holding
    <2> SUFFICES ASSUME IInv, NEW s \in Stream, pc[s] = "queued", ~(permits[of[s]] > 0)
                 PROVE  \E h \in Stream : of[h] = of[s] /\ pc[h] \in Holding
      OBVIOUS
    <2>1. of[s] \in Conn /\ permits[of[s]] = 0
      BY MaxStreamsAssumption DEF IInv, TypeOK
    <2>2. Cardinality(StreamsIn(of[s], Holding)) = MaxStreams
      <3>1. Cardinality(StreamsIn(of[s], Holding)) \in Nat
        BY StreamsInFinite
      <3> QED BY <2>1, <3>1, MaxStreamsAssumption DEF IInv, PermitsConserved
    <2>3. StreamsIn(of[s], Holding) # {}
      BY <2>2, MaxStreamsAssumption, FS_EmptySet
    <2> QED BY <2>3 DEF StreamsIn
  <1> QED BY <1>1, InitInv, NextInv, PTL DEF Spec
============================================================================
