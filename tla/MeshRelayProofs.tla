-------------------------- MODULE MeshRelayProofs ---------------------------
(***************************************************************************)
(* The relay invariants, for every mesh, every peer store that gossip can  *)
(* produce, every TTL and every number of lost answers.                    *)
(***************************************************************************)
EXTENDS MeshRelay, FiniteSetTheorems, TLAPS

\* What each hop's relay() relies on: the packet came from an earlier hop, a hop
\* that relays has TTL left and a target that is not its own, its provider is not
\* among the candidates, and only a finished handler has written a body.
HopInv ==
    \A h \in Hop :
        /\ pkt[h].up \in 0..(h - 1)
        /\ pkt[h].node \notin cands[h]
        /\ pc[h] \in {"relaying", "waiting"} => pkt[h].ttl > 0 /\ ~Serves(pkt[h].node)
        /\ pc[h] = "executing" => Serves(pkt[h].node)
        /\ pc[h] # "done" => resp[h].kind = "pending"

\* The hops that can still lead to a call of an upstream.  A waiting hop is not
\* one of them: its peer is, until the answer is lost.
Frontier == {h \in Hop : pc[h] \in {"deciding", "relaying"}}

FrontierInv ==
    /\ execs + Cardinality(Frontier) <= 1 + lost
    /\ used = 0 => execs = 0

\* relay() only lowers the TTL.
TtlInv == \A h \in Hop : pkt[h].ttl <= pkt[1].ttl

IInv ==
    /\ TypeOK
    /\ HopInv
    /\ TtlInv
    /\ AnswersAreGenuine
    /\ OwnTargetsSigned
    /\ FrontierInv

-----------------------------------------------------------------------------
(* Facts about the operators                                                *)

\* Extend adds the new hop and leaves the earlier ones as they are.
LEMMA ExtendFacts ==
    ASSUME used \in Nat, NEW f, NEW x
    PROVE  /\ DOMAIN Extend(f, x) = 1..(used + 1)
           /\ Extend(f, x)[used + 1] = x
           /\ \A h \in Hop : Extend(f, x)[h] = f[h]
           /\ \A S : f \in [Hop -> S] /\ x \in S => Extend(f, x) \in [1..(used + 1) -> S]
  BY DEF Extend, Hop

\* Candidates never include the provider that looks them up.
LEMMA CandidatesFacts ==
    ASSUME TypeOK, NEW n \in Node
    PROVE  Candidates(n) \in SUBSET Node /\ n \notin Candidates(n)
  BY DEF TypeOK, Candidates, ProvidersOf, Others

\* Every body of ProxyEngine is signed by its provider.
LEMMA BodyFacts ==
    ASSUME NEW n \in Node
    PROVE  /\ RejectBody(n) \in Signed /\ RejectBody(n).signer = n
           /\ RejectBody(n).status = 429 /\ RejectBody(n).kind = "signed"
           /\ \A r \in Executions(n) : r \in Signed /\ r.signer = n /\ r.kind = "signed"
  BY DEF RejectBody, Executions, Signed

\* A handler that returns Err is read as an empty body, any other body as it is.
LEMMA ReadFacts ==
    ASSUME NEW r \in Signed \cup Unsigned
    PROVE  /\ Body(r) \in Signed \cup Unsigned
           /\ Body(r).kind = "signed" => Body(r) = r
  BY DEF Body, Signed, Unsigned

-----------------------------------------------------------------------------
\* The packets of all hops so far stay what they are; a hop changes only its own
\* phase, candidates and body.
LocalStep(h, p, C, r) ==
    /\ pc' = [pc EXCEPT ![h] = p]
    /\ cands' = [cands EXCEPT ![h] = C]
    /\ resp' = [resp EXCEPT ![h] = r]
    /\ UNCHANGED <<target, used, pkt>>

\* A step of one hop that leaves the packets alone keeps the types.
LEMMA LocalType ==
    ASSUME TypeOK, NEW h \in Hop,
           NEW p \in {"deciding", "executing", "relaying", "waiting", "done"},
           NEW C \in SUBSET Node, NEW r \in Signed \cup Unsigned, LocalStep(h, p, C, r),
           UNCHANGED peers, live' \subseteq Hop, lost' \in Nat, execs' \in Nat
    PROVE  TypeOK'
  BY DEF TypeOK, LocalStep, Hop

\* It keeps what relay() relies on, if the hop's new state does.
LEMMA LocalHop ==
    ASSUME TypeOK, HopInv, NEW h \in Hop,
           NEW p \in {"deciding", "executing", "relaying", "waiting", "done"},
           NEW C \in SUBSET Node, NEW r \in Signed \cup Unsigned, LocalStep(h, p, C, r),
           pkt[h].node \notin C,
           p \in {"relaying", "waiting"} => pkt[h].ttl > 0 /\ ~Serves(pkt[h].node),
           p = "executing" => Serves(pkt[h].node),
           p # "done" => r.kind = "pending"
    PROVE  HopInv'
  BY DEF TypeOK, HopInv, LocalStep, Hop, Serves

\* The bound on the TTLs depends on the packets alone.
LEMMA LocalPackets ==
    ASSUME TtlInv, UNCHANGED <<used, pkt>>
    PROVE  TtlInv'
  BY DEF TtlInv, Hop

\* A body is either signed by the hop's own provider, which refuses or serves, or
\* it is the body of a later hop, or it is not signed.
LEMMA LocalGenuine ==
    ASSUME TypeOK, HopInv, AnswersAreGenuine, NEW h \in Hop, NEW p, NEW C,
           NEW r \in Signed \cup Unsigned, LocalStep(h, p, C, r), pc[h] # "done",
           \/ r.kind # "signed"
           \/ /\ r.signer = pkt[h].node
              /\ r.status = 429 \/ Serves(pkt[h].node)
           \/ \E u \in Hop : u >= h /\ resp[u] = r
    PROVE  AnswersAreGenuine'
  <1> SUFFICES ASSUME NEW k \in Hop, resp'[k].kind = "signed"
               PROVE  \E g \in Hop :
                        /\ g >= k
                        /\ pkt[g].node = resp'[k].signer
                        /\ resp'[g] = resp'[k]
                        /\ resp'[k].status = 429 \/ Serves(pkt[g].node)
    BY DEF AnswersAreGenuine, IsSigned, LocalStep, Hop, Serves
  <1>1. resp'[h] = r /\ \A j \in Hop : j # h => resp'[j] = resp[j]
    BY DEF TypeOK, LocalStep
  <1>2. resp[h].kind = "pending"
    BY DEF HopInv
  <1>3. ASSUME NEW j \in Hop, resp[j].kind = "signed"
        PROVE  \E g \in Hop :
                 /\ g >= j
                 /\ pkt[g].node = resp[j].signer
                 /\ resp'[g] = resp[j]
                 /\ resp[j].status = 429 \/ Serves(pkt[g].node)
    BY <1>1, <1>2, <1>3 DEF AnswersAreGenuine, IsSigned
  <1>4. CASE k # h
    BY <1>1, <1>3, <1>4
  <1>5. CASE k = h /\ r.signer = pkt[h].node /\ (r.status = 429 \/ Serves(pkt[h].node))
    BY <1>1, <1>5 DEF Hop
  <1>6. CASE k = h /\ \E u \in Hop : u >= h /\ resp[u] = r
    <2>1. PICK u \in Hop : u >= h /\ resp[u] = r
      BY <1>6
    <2>2. PICK g \in Hop : /\ g >= u
                           /\ pkt[g].node = resp[u].signer
                           /\ resp'[g] = resp[u]
                           /\ resp[u].status = 429 \/ Serves(pkt[g].node)
      BY <1>1, <1>3, <1>6, <2>1
    <2>3. g >= h
      BY <2>1, <2>2 DEF Hop, TypeOK
    <2> QED BY <1>1, <1>6, <2>1, <2>2, <2>3
  <1> QED BY <1>1, <1>4, <1>5, <1>6

\* Whoever serves the target finishes with a body of its own.
LEMMA LocalOwn ==
    ASSUME TypeOK, OwnTargetsSigned, NEW h \in Hop, NEW p, NEW C, NEW r, LocalStep(h, p, C, r),
           p = "done" /\ Serves(pkt[h].node) => r.kind = "signed" /\ r.signer = pkt[h].node
    PROVE  OwnTargetsSigned'
  BY DEF TypeOK, OwnTargetsSigned, IsSigned, LocalStep, Hop, Serves

\* How a hop's new phase changes the number of hops that can still execute.
LEMMA LocalFrontier ==
    ASSUME TypeOK, NEW h \in Hop, NEW p, pc' = [pc EXCEPT ![h] = p], used' = used
    PROVE  /\ Cardinality(Frontier) \in Nat
           /\ h \in Frontier /\ p \in {"deciding", "relaying"} => Frontier' = Frontier
           /\ h \notin Frontier /\ p \notin {"deciding", "relaying"} => Frontier' = Frontier
           /\ h \in Frontier /\ p \notin {"deciding", "relaying"} =>
                Cardinality(Frontier') = Cardinality(Frontier) - 1
           /\ h \notin Frontier /\ p \in {"deciding", "relaying"} =>
                Cardinality(Frontier') = Cardinality(Frontier) + 1
  <1>1. Hop' = Hop /\ \A k \in Hop : pc'[k] = IF k = h THEN p ELSE pc[k]
    BY DEF TypeOK, Hop
  <1>2. IsFiniteSet(Frontier) /\ Cardinality(Frontier) \in Nat
    <2>1. IsFiniteSet(Hop)
      BY FS_Interval DEF TypeOK, Hop
    <2>2. Frontier \subseteq Hop
      BY DEF Frontier
    <2> QED BY <2>1, <2>2, FS_Subset, FS_CardinalityType
  <1>3. ASSUME h \in Frontier <=> p \in {"deciding", "relaying"}
        PROVE  Frontier' = Frontier
    BY <1>1, <1>3 DEF Frontier
  <1>4. ASSUME h \in Frontier, p \notin {"deciding", "relaying"}
        PROVE  Cardinality(Frontier') = Cardinality(Frontier) - 1
    <2>1. Frontier' = Frontier \ {h}
      BY <1>1, <1>4 DEF Frontier
    <2> QED BY <1>2, <1>4, <2>1, FS_RemoveElement
  <1>5. ASSUME h \notin Frontier, p \in {"deciding", "relaying"}
        PROVE  Cardinality(Frontier') = Cardinality(Frontier) + 1
    <2>1. Frontier' = Frontier \cup {h}
      BY <1>1, <1>5 DEF Frontier
    <2> QED BY <1>2, <1>5, <2>1, FS_AddElement
  <1> QED BY <1>2, <1>3, <1>4, <1>5

-----------------------------------------------------------------------------
(* The steps                                                                *)

\* No request is under way yet.
LEMMA InitInv == Init => IInv
  <1> SUFFICES ASSUME Init PROVE IInv
    OBVIOUS
  <1>1. Hop = {} /\ used = 0 /\ execs = 0 /\ lost = 0
    BY DEF Init, Hop
  <1>2. TypeOK
    <2>1. DOMAIN peers = Node /\ \A n \in Node : DOMAIN peers[n] \subseteq Node
      BY DEF Init
    <2>2. pkt \in [Hop -> Packet] /\ cands \in [Hop -> SUBSET Node]
          /\ resp \in [Hop -> Signed \cup Unsigned]
          /\ pc \in [Hop -> {"deciding", "executing", "relaying", "waiting", "done"}]
      BY <1>1 DEF Init
    <2> QED BY <1>1, <2>1, <2>2 DEF Init, TypeOK
  <1>3. HopInv /\ TtlInv /\ AnswersAreGenuine /\ OwnTargetsSigned
    BY <1>1 DEF HopInv, TtlInv, AnswersAreGenuine, OwnTargetsSigned
  <1>4. FrontierInv
    <2>1. Frontier = {}
      BY <1>1 DEF Frontier
    <2> QED BY <1>1, <2>1, FS_EmptySet DEF FrontierInv
  <1> QED BY <1>2, <1>3, <1>4 DEF IInv

\* Gossip changes the peer stores at any time; no hop has looked at them twice.
LEMMA UpsertInv ==
    ASSUME IInv, NEW n \in Node, NEW m \in Node, NEW E, Upsert(n, m, E)
    PROVE  IInv'
  <1>1. UNCHANGED <<target, used, pkt, pc, cands, resp, live, lost, execs>>
    BY DEF Upsert
  <1>2. DOMAIN peers' = Node /\ \A k \in Node : DOMAIN peers'[k] \subseteq Node
    BY DEF Upsert, IInv, TypeOK
  <1>3. TypeOK'
    BY <1>1, <1>2 DEF IInv, TypeOK, Hop
  <1>4. HopInv' /\ TtlInv' /\ AnswersAreGenuine' /\ OwnTargetsSigned'
    BY <1>1 DEF IInv, HopInv, TtlInv, AnswersAreGenuine, OwnTargetsSigned,
                Hop, Serves
  <1>5. FrontierInv'
    BY <1>1 DEF IInv, FrontierInv, Frontier, Hop
  <1> QED BY <1>3, <1>4, <1>5 DEF IInv

\* A handler finishes: with a body of its own, with a peer's, or with none.
LEMMA FinishInv ==
    ASSUME IInv, NEW h \in Hop, NEW r \in Signed \cup Unsigned, pc[h] # "done",
           Finish(h, r), live' \subseteq Hop, UNCHANGED <<peers, target, used, pkt, cands, lost, execs>>,
           \/ r.kind # "signed"
           \/ /\ r.signer = pkt[h].node
              /\ r.status = 429 \/ Serves(pkt[h].node)
           \/ \E u \in Hop : u >= h /\ resp[u] = r,
           Serves(pkt[h].node) => r.kind = "signed" /\ r.signer = pkt[h].node
    PROVE  IInv'
  <1>1. LocalStep(h, "done", cands[h], r) /\ cands[h] \in SUBSET Node
    BY DEF Finish, LocalStep, IInv, TypeOK
  <1>2. TypeOK'
    BY <1>1, LocalType DEF IInv, TypeOK
  <1>3. HopInv'
    BY <1>1, LocalHop DEF IInv, HopInv
  <1>4. TtlInv'
    BY LocalPackets DEF IInv
  <1>5. AnswersAreGenuine'
    BY <1>1, LocalGenuine DEF IInv
  <1>6. OwnTargetsSigned'
    BY <1>1, LocalOwn DEF IInv
  <1>7. FrontierInv'
    <2>1. Cardinality(Frontier) \in Nat
          /\ (Frontier' = Frontier \/ Cardinality(Frontier') = Cardinality(Frontier) - 1)
      <3>1. TypeOK /\ pc' = [pc EXCEPT ![h] = "done"] /\ used' = used
        BY DEF IInv, Finish
      <3>2. "done" \notin {"deciding", "relaying"}
        OBVIOUS
      <3> QED BY ONLY h \in Hop, <3>1, <3>2, LocalFrontier
    <2> QED BY <2>1 DEF IInv, TypeOK, FrontierInv
  <1> QED BY <1>2, <1>3, <1>4, <1>5, <1>6, <1>7 DEF IInv

\* A handler goes on, with no body written.
LEMMA GoOnInv ==
    ASSUME IInv, NEW h \in Hop, NEW p \in {"executing", "relaying"},
           NEW C \in SUBSET Node, pc[h] # "done", LocalStep(h, p, C, resp[h]),
           pkt[h].node \notin C,
           p = "relaying" => pkt[h].ttl > 0 /\ ~Serves(pkt[h].node),
           p = "executing" => Serves(pkt[h].node),
           UNCHANGED peers, live' \subseteq Hop, lost' \in Nat, execs' \in Nat, FrontierInv'
    PROVE  IInv'
  <1>1. resp[h] \in Signed \cup Unsigned /\ resp[h].kind = "pending"
    BY DEF IInv, TypeOK, HopInv
  <1>2. TypeOK'
    BY <1>1, LocalType DEF IInv
  <1>3. HopInv'
    BY <1>1, LocalHop DEF IInv
  <1>4. TtlInv'
    BY LocalPackets DEF IInv, LocalStep
  <1>5. AnswersAreGenuine'
    BY <1>1, LocalGenuine DEF IInv
  <1>6. OwnTargetsSigned'
    BY <1>1, LocalOwn DEF IInv
  <1> QED BY <1>2, <1>3, <1>4, <1>5, <1>6 DEF IInv

\* The client's packet arrives at the first provider.
LEMMA RequestInv ==
    ASSUME IInv, NEW n \in Node, NEW ttl \in 0..MaxTTL, Request(n, ttl)
    PROVE  IInv'
  <1>1. /\ used = 0 /\ used' = 1 /\ Hop' = {1} /\ lost' = lost /\ execs' = execs
        /\ UNCHANGED <<peers, target>> /\ live' = {1}
    BY DEF Request, Arrive, Hop
  <1>2. /\ pkt' = [h \in {1} |-> [node |-> n, up |-> 0, ttl |-> ttl]]
        /\ pc' = [h \in {1} |-> "deciding"]
        /\ cands' = [h \in {1} |-> {}]
        /\ resp' = [h \in {1} |-> [kind |-> "pending"]]
    <2>1. 1..(used + 1) = {1} /\ used + 1 = 1
      BY <1>1
    <2> QED BY <2>1 DEF Request, Arrive, Extend
  <1>3. ttl \in 0..255
    BY BoundAssumption
  <1>4. TypeOK'
    BY <1>1, <1>2, <1>3 DEF IInv, TypeOK, Packet, Unsigned
  <1>5. HopInv' /\ TtlInv'
    BY <1>1, <1>2, <1>3 DEF HopInv, TtlInv
  <1>6. AnswersAreGenuine' /\ OwnTargetsSigned'
    BY <1>1, <1>2 DEF AnswersAreGenuine, OwnTargetsSigned, IsSigned
  <1>7. FrontierInv'
    <2>1. Frontier' = {1}
      BY <1>1, <1>2 DEF Frontier
    <2>2. Cardinality(Frontier') = 1
      BY <2>1, FS_Singleton
    <2>3. execs' = 0 /\ lost' \in Nat /\ used' # 0
      BY <1>1 DEF IInv, TypeOK, FrontierInv
    <2>4. ASSUME NEW e, NEW l \in Nat, NEW k, e = 0, k = 1
          PROVE  e + k <= 1 + l
      BY <2>4
    <2>5. execs' + Cardinality(Frontier') <= 1 + lost'
      BY <2>2, <2>3, <2>4
    <2> QED BY <2>3, <2>5 DEF FrontierInv
  <1> QED BY <1>4, <1>5, <1>6, <1>7 DEF IInv

\* The packet reaches the next provider: one hop leaves the frontier, one enters.
LEMMA ForwardInv ==
    ASSUME IInv, NEW h \in Hop, Forward(h)
    PROVE  IInv'
  <1> DEFINE v == used + 1
             p0 == [pc EXCEPT ![h] = "waiting"]
  <1>1. PICK c \in cands[h] :
           /\ Arrive(c, h, pkt[h].ttl - 1)
           /\ cands' = Extend([cands EXCEPT ![h] = cands[h] \ {c}], {})
    BY DEF Forward
  <1>2. /\ used \in Nat /\ h \in Nat /\ h <= used /\ h > 0 /\ v \in Nat /\ v \notin Hop
        /\ c \in Node /\ c # pkt[h].node /\ pkt[h].ttl \in 1..255
        /\ pc[h] = "relaying" /\ ~Serves(pkt[h].node) /\ pkt[h].node \notin cands[h]
    <2>1. /\ used \in Nat /\ h \in Nat /\ h <= used /\ h > 0 /\ v \in Nat /\ v \notin Hop
      BY DEF IInv, TypeOK, Hop
    <2>2. pc[h] = "relaying" /\ cands[h] \subseteq Node /\ pkt[h] \in Packet
      BY DEF IInv, TypeOK, Forward
    <2>3. ~Serves(pkt[h].node) /\ pkt[h].node \notin cands[h] /\ pkt[h].ttl > 0
      BY <2>2 DEF IInv, HopInv
    <2>4. pkt[h].ttl \in 1..255
      BY <2>2, <2>3 DEF Packet
    <2> QED BY <1>1, <2>1, <2>2, <2>3, <2>4
  <1>3. /\ used' = v /\ Hop' = Hop \cup {v} /\ 1..(used + 1) = Hop'
        /\ UNCHANGED <<peers, target, lost, execs>> /\ live' = live \cup {v}
    BY <1>1, <1>2 DEF Forward, Arrive, Hop
  <1>4. /\ \A k \in Hop : pkt'[k] = pkt[k] /\ resp'[k] = resp[k]
        /\ pkt'[v] = [node |-> c, up |-> h, ttl |-> pkt[h].ttl - 1]
        /\ resp'[v] = [kind |-> "pending"]
    BY <1>1, <1>2, ExtendFacts DEF Arrive
  <1>5. /\ \A k \in Hop : pc'[k] = IF k = h THEN "waiting" ELSE pc[k]
        /\ pc'[v] = "deciding"
    <2>1. pc' = Extend(p0, "deciding")
      BY DEF Forward
    <2>2. \A k \in Hop : p0[k] = IF k = h THEN "waiting" ELSE pc[k]
      BY DEF IInv, TypeOK
    <2> HIDE DEF p0
    <2>3. (\A k \in Hop : pc'[k] = p0[k]) /\ pc'[v] = "deciding"
      BY <1>2, <2>1, ExtendFacts
    <2> QED BY <2>2, <2>3
  <1>6. /\ \A k \in Hop : cands'[k] = IF k = h THEN cands[h] \ {c} ELSE cands[k]
        /\ cands'[v] = {}
    <2> DEFINE c0 == [cands EXCEPT ![h] = cands[h] \ {c}]
    <2>1. \A k \in Hop : c0[k] = IF k = h THEN cands[h] \ {c} ELSE cands[k]
      BY DEF IInv, TypeOK
    <2>2. cands' = Extend(c0, {})
      BY <1>1
    <2> HIDE DEF c0
    <2>3. (\A k \in Hop : cands'[k] = c0[k]) /\ cands'[v] = {}
      BY <1>2, <2>2, ExtendFacts
    <2> QED BY <2>1, <2>3
  <1>7. TypeOK'
    <2>1. pkt' \in [Hop' -> Packet] /\ resp' \in [Hop' -> Signed \cup Unsigned]
      <3>1. pkt'[v] \in Packet /\ resp'[v] \in Signed \cup Unsigned
        BY <1>2, <1>4 DEF Packet, Unsigned
      <3>2. DOMAIN pkt' = Hop' /\ DOMAIN resp' = Hop'
            /\ pkt' = [k \in Hop' |-> pkt'[k]] /\ resp' = [k \in Hop' |-> resp'[k]]
        BY <1>1, <1>2, <1>3 DEF Arrive, Extend
      <3> QED BY <1>3, <1>4, <3>1, <3>2 DEF IInv, TypeOK
    <2>2. pc' \in [Hop' -> {"deciding", "executing", "relaying", "waiting", "done"}]
      <3>1. pc' = [k \in Hop' |-> pc'[k]]
        BY <1>3 DEF Forward, Extend
      <3> QED BY <1>3, <1>5, <3>1 DEF IInv, TypeOK
    <2>3. cands' \in [Hop' -> SUBSET Node]
      <3>1. cands' = [k \in Hop' |-> cands'[k]]
        BY <1>1, <1>3 DEF Extend
      <3> QED BY <1>2, <1>3, <1>6, <3>1 DEF IInv, TypeOK
    <2> QED BY <1>2, <1>3, <2>1, <2>2, <2>3 DEF IInv, TypeOK
  <1> HIDE DEF v
  <1>8. HopInv'
    <2>1. \A k \in Hop : /\ pkt'[k].up \in 0..(k - 1)
                         /\ pkt'[k].node \notin cands'[k]
                         /\ pc'[k] \in {"relaying", "waiting"} =>
                              pkt'[k].ttl > 0 /\ ~Serves(pkt'[k].node)
                         /\ pc'[k] = "executing" => Serves(pkt'[k].node)
                         /\ pc'[k] # "done" => resp'[k].kind = "pending"
      BY <1>2, <1>4, <1>5, <1>6 DEF IInv, HopInv
    <2>2. /\ pkt'[v].up \in 0..(v - 1) /\ pkt'[v].node \notin cands'[v]
          /\ pc'[v] = "deciding" /\ resp'[v].kind = "pending"
      BY <1>2, <1>4, <1>5, <1>6 DEF v
    <2> QED BY <1>3, <2>1, <2>2 DEF HopInv, Serves
  <1>9. TtlInv'
    <2>1. 1 \in Hop /\ pkt'[1] = pkt[1] /\ h \in Hop /\ v # 0
      BY <1>2, <1>4 DEF Hop, v
    <2>2. pkt[1].ttl \in Int /\ pkt[h].ttl <= pkt[1].ttl
      BY <2>1 DEF IInv, TtlInv, TypeOK, Packet
    <2>3. pkt'[v].ttl <= pkt'[1].ttl
      BY <1>2, <1>4, <2>1, <2>2
    <2>4. \A k \in Hop : pkt'[k].ttl <= pkt'[1].ttl
      BY <1>4, <2>1 DEF IInv, TtlInv
    <2> QED BY <1>3, <2>3, <2>4 DEF TtlInv
  <1>10. AnswersAreGenuine'
    <2>1. resp'[v].kind # "signed"
      BY <1>4
    <2>2. ASSUME NEW k \in Hop, resp'[k].kind = "signed"
          PROVE  \E g \in Hop' :
                   /\ g >= k
                   /\ pkt'[g].node = resp'[k].signer
                   /\ resp'[g] = resp'[k]
                   /\ resp'[k].status = 429 \/ Serves(pkt'[g].node)
      BY <1>3, <1>4, <2>2 DEF IInv, AnswersAreGenuine, IsSigned
    <2> QED BY <1>3, <2>1, <2>2 DEF AnswersAreGenuine, IsSigned, Serves
  <1>11. OwnTargetsSigned'
    BY <1>3, <1>4, <1>5 DEF IInv, OwnTargetsSigned, IsSigned, Serves
  <1>12. FrontierInv'
    <2>1. /\ h \in Frontier /\ v \notin Frontier
          /\ Frontier' = (Frontier \ {h}) \cup {v}
      BY <1>2, <1>3, <1>5 DEF Frontier
    <2>2. IsFiniteSet(Frontier) /\ Cardinality(Frontier) \in Nat
      <3>1. IsFiniteSet(Hop)
        BY <1>2, FS_Interval DEF Hop
      <3>2. Frontier \subseteq Hop
        BY DEF Frontier
      <3> QED BY <3>1, <3>2, FS_Subset, FS_CardinalityType
    <2>3. /\ IsFiniteSet(Frontier \ {h})
          /\ Cardinality(Frontier \ {h}) = Cardinality(Frontier) - 1
      BY <2>1, <2>2, FS_RemoveElement
    <2>4. Cardinality((Frontier \ {h}) \cup {v}) = Cardinality(Frontier \ {h}) + 1
      BY <2>1, <2>3, FS_AddElement
    <2>5. Cardinality(Frontier') = Cardinality(Frontier)
      BY <2>1, <2>2, <2>3, <2>4
    <2>6. used' # 0
      BY <1>2, <1>3 DEF v
    <2> QED BY <1>3, <2>5, <2>6 DEF IInv, FrontierInv
  <1> QED BY <1>7, <1>8, <1>9, <1>10, <1>11, <1>12 DEF IInv

\* Every step of handle_stream, relay and forward_to, one case each.
LEMMA HopStepInv ==
    ASSUME IInv, NEW h \in Hop, HopStep(h)
    PROVE  IInv'
  <1> DEFINE n == pkt[h].node
  <1>1. /\ n \in Node /\ live \subseteq Hop /\ cands[h] \in SUBSET Node
        /\ lost \in Nat /\ execs \in Nat /\ Cardinality(Frontier) \in Nat
        /\ resp[h] \in Signed \cup Unsigned
    <2>1. Cardinality(Frontier) \in Nat
      <3>1. IsFiniteSet(Hop) /\ Frontier \subseteq Hop
        BY FS_Interval DEF IInv, TypeOK, Hop, Frontier
      <3> QED BY <3>1, FS_Subset, FS_CardinalityType
    <2> QED BY <2>1 DEF IInv, TypeOK, Packet
  <1>2. CASE Reject(h)
    <2>1. /\ RejectBody(n) \in Signed \cup Unsigned /\ RejectBody(n).signer = n
          /\ RejectBody(n).status = 429 /\ RejectBody(n).kind = "signed"
      BY <1>1, BodyFacts
    <2>2. /\ pc[h] # "done" /\ Finish(h, RejectBody(n)) /\ live' \subseteq Hop
          /\ UNCHANGED <<peers, target, used, pkt, cands, lost, execs>>
      BY <1>1, <1>2 DEF Reject
    <2> QED BY <2>1, <2>2, FinishInv
  <1>3. CASE Execute(h)
    <2>1. /\ pc[h] = "deciding" /\ Serves(n) /\ pc' = [pc EXCEPT ![h] = "executing"]
          /\ execs' = execs + 1
          /\ UNCHANGED <<peers, target, used, pkt, cands, resp, live, lost>>
      BY <1>3 DEF Execute
    <2>2. LocalStep(h, "executing", cands[h], resp[h])
      BY <2>1 DEF LocalStep, IInv, TypeOK
    <2>3. FrontierInv'
      <3>1. h \in Frontier /\ "executing" \notin {"deciding", "relaying"} /\ used # 0
        BY <2>1 DEF Frontier, Hop, IInv, TypeOK
      <3>2. Cardinality(Frontier') = Cardinality(Frontier) - 1
        BY <2>1, <3>1, LocalFrontier DEF IInv
      <3> QED BY <1>1, <2>1, <3>1, <3>2 DEF IInv, FrontierInv
    <2>4. n \notin cands[h]
      BY DEF IInv, HopInv
    <2> QED BY <1>1, <2>1, <2>2, <2>3, <2>4, GoOnInv
  <1>4. ASSUME NEW r \in Signed, Executed(h, r)
        PROVE  IInv'
    <2>1. /\ pc[h] = "executing" /\ r \in Executions(n) /\ Finish(h, r) /\ live' \subseteq Hop
          /\ UNCHANGED <<peers, target, used, pkt, cands, lost, execs>>
      BY <1>1, <1>4 DEF Executed
    <2>2. r.signer = n /\ r.kind = "signed"
      BY <1>1, <2>1, BodyFacts
    <2>3. Serves(n)
      BY <2>1 DEF IInv, HopInv
    <2> QED BY <2>1, <2>2, <2>3, FinishInv
  <1>5. CASE Drop(h) \/ Exhausted(h)
    <2> DEFINE r == [kind |-> "failed"]
    <2>1. /\ pc[h] # "done" /\ ~Serves(n) /\ Finish(h, r) /\ live' \subseteq Hop
          /\ UNCHANGED <<peers, target, used, pkt, cands, lost, execs>>
      BY <1>1, <1>5 DEF Drop, Exhausted, IInv, HopInv
    <2>2. r \in Signed \cup Unsigned /\ r.kind # "signed"
      BY DEF Unsigned
    <2> HIDE DEF r
    <2> QED BY <2>1, <2>2, FinishInv
  <1>6. CASE StartRelay(h)
    <2> DEFINE C == Candidates(n)
    <2>1. /\ pc[h] = "deciding" /\ ~Serves(n) /\ pkt[h].ttl > 0
          /\ pc' = [pc EXCEPT ![h] = "relaying"] /\ cands' = [cands EXCEPT ![h] = C]
          /\ UNCHANGED <<peers, target, used, pkt, resp, live, lost, execs>>
      BY <1>6 DEF StartRelay
    <2>2. C \in SUBSET Node /\ n \notin C
      BY <1>1, CandidatesFacts DEF IInv
    <2> HIDE DEF C
    <2>3. LocalStep(h, "relaying", C, resp[h])
      BY <2>1 DEF LocalStep, IInv, TypeOK
    <2>4. FrontierInv'
      <3>1. h \in Frontier
        BY <2>1 DEF Frontier
      <3>2. Frontier' = Frontier
        BY <2>1, <3>1, LocalFrontier DEF IInv
      <3> QED BY <2>1, <3>2 DEF IInv, FrontierInv
    <2> QED BY <1>1, <2>1, <2>2, <2>3, <2>4, GoOnInv
  <1>7. CASE ConnectFails(h)
    <2>1. PICK c \in cands[h] : cands' = [cands EXCEPT ![h] = cands[h] \ {c}]
      BY <1>7 DEF ConnectFails
    <2> DEFINE C == cands[h] \ {c}
    <2>2. /\ pc[h] = "relaying"
          /\ UNCHANGED <<peers, target, used, pkt, pc, resp, live, lost, execs>>
      BY <1>7 DEF ConnectFails
    <2>3. C \in SUBSET Node /\ n \notin C /\ pkt[h].ttl > 0 /\ ~Serves(n)
      BY <1>1, <2>2 DEF IInv, HopInv
    <2>4. LocalStep(h, "relaying", C, resp[h])
      BY <2>1, <2>2 DEF LocalStep, IInv, TypeOK
    <2>5. FrontierInv'
      BY <2>2 DEF IInv, FrontierInv, Frontier, Hop
    <2> HIDE DEF C
    <2> QED BY <1>1, <2>2, <2>3, <2>4, <2>5, GoOnInv
  <1>8. CASE Forward(h)
    BY <1>8, ForwardInv
  <1>9. ASSUME NEW u \in Hop, TakeAnswer(h, u)
        PROVE  IInv'
    <2> DEFINE r == Body(resp[u])
    <2>1. /\ pc[h] = "waiting" /\ Finish(h, r) /\ live' \subseteq Hop /\ pkt[u].up = h
          /\ UNCHANGED <<peers, target, used, pkt, cands, lost, execs>>
      BY <1>1, <1>9 DEF TakeAnswer
    <2>2. r \in Signed \cup Unsigned /\ (r.kind = "signed" => r = resp[u])
      <3>1. resp[u] \in Signed \cup Unsigned
        BY DEF IInv, TypeOK
      <3> QED BY <3>1, ReadFacts
    <2>3. u >= h
      BY <2>1 DEF IInv, HopInv, TypeOK, Hop
    <2>4. ~Serves(n)
      BY <2>1 DEF IInv, HopInv
    <2> HIDE DEF r
    <2> QED BY <2>1, <2>2, <2>3, <2>4, FinishInv
  <1>10. ASSUME NEW u \in Hop, LoseAnswer(h, u)
         PROVE  IInv'
    <2>1. /\ pc[h] = "waiting" /\ pc' = [pc EXCEPT ![h] = "relaying"] /\ lost' = lost + 1
          /\ live' \subseteq Hop
          /\ UNCHANGED <<peers, target, used, pkt, cands, resp, execs>>
      BY <1>1, <1>10 DEF LoseAnswer
    <2>2. n \notin cands[h] /\ pkt[h].ttl > 0 /\ ~Serves(n)
      BY <2>1 DEF IInv, HopInv
    <2>3. LocalStep(h, "relaying", cands[h], resp[h])
      BY <2>1 DEF LocalStep, IInv, TypeOK
    <2>4. FrontierInv'
      <3>1. h \notin Frontier /\ used # 0
        BY <2>1 DEF Frontier, Hop, IInv, TypeOK
      <3>2. Cardinality(Frontier') = Cardinality(Frontier) + 1
        BY <2>1, <3>1, LocalFrontier DEF IInv
      <3> QED BY <1>1, <2>1, <3>1, <3>2 DEF IInv, FrontierInv
    <2> QED BY <1>1, <2>1, <2>2, <2>3, <2>4, GoOnInv
  <1> QED BY <1>2, <1>3, <1>4, <1>5, <1>6, <1>7, <1>8, <1>9, <1>10 DEF HopStep

\* The invariant is inductive.
LEMMA NextInv == IInv /\ [Next]_vars => IInv'
  <1> SUFFICES ASSUME IInv, [Next]_vars PROVE IInv'
    OBVIOUS
  <1>1. CASE UNCHANGED vars
    <2>1. UNCHANGED <<peers, target, used, pkt, pc, cands, resp, live, lost, execs>>
      BY <1>1 DEF vars
    <2>2. TypeOK' /\ HopInv' /\ TtlInv'
      BY <2>1 DEF IInv, TypeOK, HopInv, TtlInv, Hop, Serves
    <2>3. AnswersAreGenuine' /\ OwnTargetsSigned' /\ FrontierInv'
      BY <2>1 DEF IInv, AnswersAreGenuine, OwnTargetsSigned, FrontierInv, Frontier, Hop, Serves
    <2> QED BY <2>2, <2>3 DEF IInv
  <1> QED BY <1>1, UpsertInv, RequestInv, HopStepInv DEF Next

\* So it holds in every reachable state of the mesh.
LEMMA Invariance == Spec => []IInv
  BY InitInv, NextInv, PTL DEF Spec

-----------------------------------------------------------------------------
\* The state of a relayed request keeps its type; in particular `fwd.ttl -= 1`
\* never goes below 0.
THEOREM TypeCorrect == Spec => []TypeOK
  <1>1. IInv => TypeOK
    BY DEF IInv
  <1> QED BY Invariance, <1>1, PTL

\* Upstreams are called at most once more than answers were lost, in every mesh.
THEOREM ExecutedOnce == Spec => []ExecutedOnceUnlessLost
  <1>1. IInv => ExecutedOnceUnlessLost
    <2> SUFFICES ASSUME IInv PROVE execs <= 1 + lost
      BY DEF ExecutedOnceUnlessLost
    <2>1. IsFiniteSet(Hop) /\ Frontier \subseteq Hop
      BY FS_Interval DEF IInv, TypeOK, Hop, Frontier
    <2>2. Cardinality(Frontier) \in Nat
      BY <2>1, FS_Subset, FS_CardinalityType
    <2> QED BY <2>2 DEF IInv, TypeOK, FrontierInv
  <1> QED BY Invariance, <1>1, PTL

\* A signed answer is its signer's, unchanged by the hops it came through.
THEOREM AnswersGenuine == Spec => []AnswersAreGenuine
  <1>1. IInv => AnswersAreGenuine
    BY DEF IInv
  <1> QED BY Invariance, <1>1, PTL

\* A provider signs every answer for a target of its own, whatever TTL is left and
\* whatever peers it knows.
THEOREM OwnTargets == Spec => []OwnTargetsSigned
  <1>1. IInv => OwnTargetsSigned
    BY DEF IInv
  <1> QED BY Invariance, <1>1, PTL

-----------------------------------------------------------------------------
(* The forward budget                                                       *)

\* What the hops that can still forward may yet cause, one element per forward: the
\* sum of their TTLs as the size of a set.
Share(h, n) == {h} \X (1..n)
Credit == {c \in Hop \X (1..255) : c[1] \in Frontier /\ c[2] <= pkt[c[1]].ttl}

CreditInv ==
    used > 0 => used - 1 + Cardinality(Credit) <= pkt[1].ttl * (1 + lost)

\* A share has as many elements as its hop has TTL left.
LEMMA ShareFacts ==
    ASSUME NEW h, NEW n \in Nat
    PROVE  IsFiniteSet(Share(h, n)) /\ Cardinality(Share(h, n)) = n
  <1>1. IsFiniteSet({h}) /\ Cardinality({h}) = 1
    BY FS_Singleton
  <1>2. IsFiniteSet(1..n) /\ Cardinality(1..n) = n
    BY FS_Interval
  <1>3. /\ IsFiniteSet({h} \X (1..n))
        /\ Cardinality({h} \X (1..n)) = Cardinality({h}) * Cardinality(1..n)
    BY <1>1, <1>2, FS_Product, Zenon
  <1> QED BY <1>1, <1>2, <1>3 DEF Share

\* The credit is finite, and holds the whole share of each hop that can forward.
LEMMA CreditFacts ==
    ASSUME IInv
    PROVE  /\ IsFiniteSet(Credit) /\ Cardinality(Credit) \in Nat
           /\ \A h \in Hop : /\ pkt[h].ttl \in 0..255 /\ pkt[h].ttl <= pkt[1].ttl
                             /\ h \in Frontier => Share(h, pkt[h].ttl) \subseteq Credit
                             /\ h \notin Frontier => Share(h, pkt[h].ttl) \cap Credit = {}
  <1>1. IsFiniteSet(Hop) /\ IsFiniteSet(1..255)
    <2>1. used \in Int /\ 1 \in Int /\ 255 \in Int
      BY DEF IInv, TypeOK
    <2> QED BY <2>1, FS_Interval, Zenon DEF Hop
  <1>2. IsFiniteSet(Hop \X (1..255)) /\ Credit \subseteq Hop \X (1..255)
    BY <1>1, FS_Product DEF Credit
  <1>3. IsFiniteSet(Credit) /\ Cardinality(Credit) \in Nat
    BY <1>2, FS_Subset, FS_CardinalityType
  <1>4. ASSUME NEW h \in Hop
        PROVE  /\ pkt[h].ttl \in 0..255 /\ pkt[h].ttl <= pkt[1].ttl
               /\ h \in Frontier => Share(h, pkt[h].ttl) \subseteq Credit
               /\ h \notin Frontier => Share(h, pkt[h].ttl) \cap Credit = {}
    <2>1. pkt[h] \in Packet /\ 1 \in Hop
      BY DEF IInv, TypeOK, Hop
    <2>2. pkt[h].ttl \in 0..255 /\ pkt[1] \in Packet
      BY <2>1 DEF Packet, IInv, TypeOK
    <2>3. pkt[h].ttl <= pkt[1].ttl
      BY <2>2 DEF IInv, TtlInv, Packet
    <2>4. h \in Frontier => Share(h, pkt[h].ttl) \subseteq Credit
      BY <2>2 DEF Share, Credit
    <2>5. h \notin Frontier => Share(h, pkt[h].ttl) \cap Credit = {}
      BY DEF Share, Credit
    <2> QED BY <2>2, <2>3, <2>4, <2>5
  <1> QED BY <1>3, <1>4

\* A step that sends no packet and loses no answer adds no hop to the frontier.
LEMMA CreditShrinks ==
    ASSUME IInv, CreditInv, UNCHANGED <<used, pkt, lost>>, Frontier' \subseteq Frontier
    PROVE  CreditInv'
  <1>1. Credit' \subseteq Credit
    BY DEF Credit, Hop
  <1>2. Cardinality(Credit') <= Cardinality(Credit) /\ Cardinality(Credit') \in Nat
    BY <1>1, CreditFacts, FS_Subset, FS_CardinalityType
  <1>3. Cardinality(Credit) \in Nat /\ used \in Nat /\ lost \in Nat
    BY CreditFacts DEF IInv, TypeOK
  <1>4. used > 0 => pkt[1].ttl \in 0..255
    BY <1>3, CreditFacts DEF Hop
  <1> QED BY <1>2, <1>3, <1>4 DEF CreditInv

\* A forward spends one element: the sender's share is replaced by a smaller one.
LEMMA CreditForward ==
    ASSUME IInv, CreditInv, NEW h \in Hop, Forward(h)
    PROVE  CreditInv'
  <1> DEFINE t == pkt[h].ttl
             rest == Credit \ Share(h, t)
             new == Share(used + 1, t - 1)
  <1>1. /\ pc[h] = "relaying" /\ used' = used + 1 /\ lost' = lost /\ used \in Nat /\ lost \in Nat
        /\ t \in 0..255 /\ t > 0 /\ h \in Frontier /\ used > 0 /\ 1 \in Hop
    <2>1. used \in Nat /\ lost \in Nat /\ used > 0 /\ 1 \in Hop
      BY DEF IInv, TypeOK, Hop
    <2>2. pc[h] = "relaying" /\ used' = used + 1 /\ lost' = lost
      BY DEF Forward, Arrive
    <2>3. t \in 0..255
      BY CreditFacts
    <2>4. t > 0 /\ h \in Frontier
      BY <2>2 DEF IInv, HopInv, Frontier
    <2> QED BY <2>1, <2>2, <2>3, <2>4
  <1>2. /\ \A k \in Hop : pkt'[k] = pkt[k] /\ pc'[k] = IF k = h THEN "waiting" ELSE pc[k]
        /\ pkt'[used + 1].ttl = t - 1 /\ pc'[used + 1] = "deciding"
    <2>1. PICK c \in cands[h] : Arrive(c, h, t - 1)
      BY DEF Forward
    <2>2. pc' = Extend([pc EXCEPT ![h] = "waiting"], "deciding")
      BY DEF Forward
    <2>3. pkt' = Extend(pkt, [node |-> c, up |-> h, ttl |-> t - 1])
      BY <2>1 DEF Arrive
    <2>4. \A k \in Hop : pkt'[k] = pkt[k]
      BY <1>1, <2>3, ExtendFacts
    <2>5. \A k \in Hop : pc'[k] = IF k = h THEN "waiting" ELSE pc[k]
      <3> DEFINE w == [pc EXCEPT ![h] = "waiting"]
      <3>1. \A k \in Hop : w[k] = IF k = h THEN "waiting" ELSE pc[k]
        BY DEF IInv, TypeOK
      <3> HIDE DEF w
      <3>2. \A k \in Hop : Extend(w, "deciding")[k] = w[k]
        BY <1>1, ExtendFacts
      <3> QED BY <2>2, <3>1, <3>2 DEF w
    <2>6. pkt'[used + 1].ttl = t - 1
      BY <1>1, <2>3, ExtendFacts
    <2>7. pc'[used + 1] = "deciding"
      BY <1>1, <2>2, ExtendFacts, Zenon
    <2> QED BY <2>4, <2>5, <2>6, <2>7
  <1>3. Frontier' = (Frontier \ {h}) \cup {used + 1} /\ Hop' = Hop \cup {used + 1} /\ used + 1 \notin Hop
    BY <1>1, <1>2 DEF Frontier, Hop
  <1>4. Credit' = rest \cup new
    BY <1>1, <1>2, <1>3 DEF Credit, Share, Frontier
  <1>5. rest \cap new = {}
    BY <1>3 DEF Credit, Share
  <1>6. /\ IsFiniteSet(Credit) /\ Cardinality(Credit) \in Nat /\ Share(h, t) \subseteq Credit
        /\ IsFiniteSet(Share(h, t)) /\ Cardinality(Share(h, t)) = t
        /\ IsFiniteSet(new) /\ Cardinality(new) = t - 1
    BY <1>1, CreditFacts, ShareFacts
  <1>7. IsFiniteSet(rest) /\ Cardinality(rest) = Cardinality(Credit) - t
    <2>1. Credit \cap Share(h, t) = Share(h, t)
      BY <1>6
    <2>2. /\ IsFiniteSet(rest)
          /\ Cardinality(rest) = Cardinality(Credit) - Cardinality(Credit \cap Share(h, t))
      BY <1>6, FS_Difference, Zenon
    <2> QED BY <1>6, <2>1, <2>2, Zenon
  <1>8. Cardinality(Credit') = Cardinality(Credit) - 1
    <2>1. Cardinality(rest \cup new) = Cardinality(rest) + Cardinality(new) - Cardinality({})
      BY <1>5, <1>6, <1>7, FS_Union
    <2>2. Cardinality({}) = 0
      BY FS_EmptySet
    <2> QED BY <1>1, <1>4, <1>6, <1>7, <2>1, <2>2
  <1>9. pkt'[1] = pkt[1]
    BY <1>1, <1>2
  <1> QED BY <1>1, <1>6, <1>8, <1>9 DEF CreditInv

\* A lost answer gives its hop the share back: at most the TTL of the client's packet.
LEMMA CreditLoss ==
    ASSUME IInv, CreditInv, NEW h \in Hop, NEW u \in Hop, LoseAnswer(h, u)
    PROVE  CreditInv'
  <1> DEFINE t == pkt[h].ttl
  <1>1. /\ UNCHANGED <<used, pkt>> /\ lost' = lost + 1 /\ used \in Nat /\ lost \in Nat
        /\ used > 0 /\ 1 \in Hop /\ pc' = [pc EXCEPT ![h] = "relaying"] /\ h \notin Frontier
    BY DEF LoseAnswer, IInv, TypeOK, Hop, Frontier
  <1>2. Frontier' = Frontier \cup {h}
    BY <1>1 DEF Frontier, Hop, IInv, TypeOK
  <1>3. /\ IsFiniteSet(Credit) /\ Cardinality(Credit) \in Nat
        /\ t \in 0..255 /\ pkt[1].ttl \in 0..255 /\ t <= pkt[1].ttl
        /\ IsFiniteSet(Share(h, t)) /\ Cardinality(Share(h, t)) = t
        /\ Credit \cap Share(h, t) = {}
    BY <1>1, CreditFacts, ShareFacts
  <1>4. Credit' = Credit \cup Share(h, t)
    BY <1>1, <1>2, <1>3 DEF Credit, Share, Hop
  <1>5. Cardinality(Credit') = Cardinality(Credit) + t
    <2>1. Cardinality(Credit \cup Share(h, t)) = Cardinality(Credit) + t - Cardinality({})
      BY <1>3, FS_Union
    <2>2. Cardinality({}) = 0
      BY FS_EmptySet
    <2> QED BY <1>3, <1>4, <2>1, <2>2
  <1>6. pkt[1].ttl * (1 + lost') = pkt[1].ttl * (1 + lost) + pkt[1].ttl
    BY <1>1, <1>3
  <1>7. pkt[1].ttl * (1 + lost) \in Nat
    BY <1>1, <1>3
  <1>8. used - 1 + Cardinality(Credit) <= pkt[1].ttl * (1 + lost)
    BY <1>1 DEF CreditInv
  <1>9. used' - 1 + Cardinality(Credit') <= pkt[1].ttl * (1 + lost')
    <2> DEFINE a == pkt[1].ttl * (1 + lost)
               b == pkt[1].ttl * (1 + lost')
               n == Cardinality(Credit)
               m == Cardinality(Credit')
    <2>1. b = a + pkt[1].ttl /\ m = n + t /\ n \in Nat /\ a \in Nat /\ used - 1 + n <= a
      BY <1>3, <1>5, <1>6, <1>7, <1>8
    <2>2. used' = used /\ used \in Nat /\ t \in Nat /\ pkt[1].ttl \in Nat /\ t <= pkt[1].ttl
      BY <1>1, <1>3
    <2> HIDE DEF a, b, n, m, t
    <2>3. used - 1 + m <= b
      BY <2>1, <2>2
    <2> QED BY <2>2, <2>3 DEF b, m
  <1> QED BY <1>1, <1>9 DEF CreditInv

\* The client's packet brings all the credit there is.
LEMMA CreditRequest ==
    ASSUME IInv, NEW n \in Node, NEW ttl \in 0..MaxTTL, Request(n, ttl)
    PROVE  CreditInv'
  <1>1. /\ used = 0 /\ used' = 1 /\ lost' = lost /\ lost \in Nat /\ ttl \in 0..255
        /\ pkt'[1].ttl = ttl /\ pc'[1] = "deciding" /\ Hop' = {1}
    <2>1. used = 0 /\ used' = 1 /\ lost' = lost /\ lost \in Nat /\ ttl \in 0..255
      <3>1. used = 0 /\ used' = used + 1 /\ lost' = lost /\ lost \in Nat
        BY DEF Request, Arrive, IInv, TypeOK
      <3>2. ttl \in 0..255
        BY BoundAssumption
      <3> QED BY <3>1, <3>2
    <2>2. /\ pkt' = Extend(pkt, [node |-> n, up |-> 0, ttl |-> ttl])
          /\ pc' = Extend(pc, "deciding")
      BY DEF Request, Arrive
    <2>3. pkt'[used + 1].ttl = ttl /\ pc'[used + 1] = "deciding"
      BY <2>1, <2>2, ExtendFacts
    <2>4. Hop' = {1}
      BY <2>1 DEF Hop
    <2> QED BY <2>1, <2>3, <2>4
  <1>2. Frontier' = {1}
    BY <1>1 DEF Frontier
  <1>3. Credit' = Share(1, ttl)
    BY <1>1, <1>2 DEF Credit, Share
  <1>4. Cardinality(Credit') = ttl
    BY <1>1, <1>3, ShareFacts
  <1>5. ttl <= ttl * (1 + lost)
    BY <1>1
  <1> QED BY <1>1, <1>4, <1>5 DEF CreditInv

\* No other step of a handler lets a hop forward that could not before.
LEMMA NextCredit == IInv /\ CreditInv /\ [Next]_vars => CreditInv'
  <1> SUFFICES ASSUME IInv, CreditInv, [Next]_vars PROVE CreditInv'
    OBVIOUS
  <1>1. CASE UNCHANGED vars
    BY <1>1, CreditShrinks DEF vars, Frontier, Hop
  <1>2. ASSUME NEW n \in Node, NEW m \in Node, NEW E \in Manifests[m], Upsert(n, m, E)
        PROVE  CreditInv'
    BY <1>2, CreditShrinks DEF Upsert, Frontier, Hop
  <1>3. ASSUME NEW h \in Hop, HopStep(h)
        PROVE  CreditInv'
    <2>1. ASSUME NEW p, pc' = [pc EXCEPT ![h] = p], UNCHANGED <<used, pkt, lost>>,
                 p \in {"deciding", "relaying"} => pc[h] \in {"deciding", "relaying"}
          PROVE  CreditInv'
      <3>1. Frontier' \subseteq Frontier
        BY <2>1 DEF Frontier, Hop, IInv, TypeOK
      <3> QED BY <2>1, <3>1, CreditShrinks
    <2>2. CASE Reject(h) \/ Drop(h) \/ Exhausted(h)
      BY <2>1, <2>2 DEF Reject, Drop, Exhausted, Finish
    <2>3. CASE Execute(h) \/ StartRelay(h)
      BY <2>1, <2>3 DEF Execute, StartRelay
    <2>4. CASE \E r \in Signed : Executed(h, r)
      BY <2>1, <2>4 DEF Executed, Finish
    <2>5. CASE \E u \in Hop : TakeAnswer(h, u)
      BY <2>1, <2>5 DEF TakeAnswer, Finish
    <2>6. CASE ConnectFails(h)
      BY <2>6, CreditShrinks DEF ConnectFails, Frontier, Hop
    <2> QED BY <1>3, <2>2, <2>3, <2>4, <2>5, <2>6, CreditForward, CreditLoss DEF HopStep
  <1> QED BY <1>1, <1>2, <1>3, CreditRequest DEF Next

\* A request causes at most TTL forwards, and TTL more for each answer that was lost, in
\* every mesh: the fallback to any peer goes along one chain at a time.
THEOREM ForwardsAreBounded == Spec => []ForwardBudget
  <1>1. Init => CreditInv
    BY DEF Init, CreditInv
  <1>2. IInv /\ CreditInv => ForwardBudget
    <2> SUFFICES ASSUME IInv, CreditInv, used > 0
                 PROVE  used - 1 <= pkt[1].ttl * (1 + lost)
      BY DEF ForwardBudget
    <2>1. Cardinality(Credit) \in Nat /\ used \in Nat /\ lost \in Nat
      BY CreditFacts DEF IInv, TypeOK
    <2>2. pkt[1].ttl \in 0..255
      BY <2>1, CreditFacts DEF Hop
    <2>3. pkt[1].ttl * (1 + lost) \in Nat
      BY <2>1, <2>2
    <2> QED BY <2>1, <2>3 DEF CreditInv
  <1> QED BY Invariance, <1>1, NextCredit, <1>2, PTL DEF Spec

-----------------------------------------------------------------------------
(* Nobody waits in a circle                                                 *)

\* A waiting hop waits for the answer of a later one.
WaitInv ==
    \A h \in Hop : pc[h] = "waiting" => \E u \in live : u \in Hop /\ u > h /\ pkt[u].up = h

\* The guards of a hop's steps, those of LoseAnswer apart: the limiter's verdict, an answer
\* of the upstream, the next candidate or the end of the list, a peer that has answered.
Runnable(h) ==
    \/ pc[h] = "deciding"
    \/ pc[h] = "executing" /\ Executions(pkt[h].node) # {}
    \/ pc[h] = "relaying" /\ (cands[h] = {} \/ \E c \in cands[h] : IsFirst(c, cands[h]))
    \/ pc[h] = "waiting" /\ \E u \in live : u \in Hop /\ pkt[u].up = h /\ pc[u] = "done"

\* What Forward does to the hops.
LEMMA ForwardEffect ==
    ASSUME IInv, NEW h \in Hop, Forward(h)
    PROVE  /\ used' = used + 1 /\ used \in Nat /\ Hop' = Hop \cup {used + 1} /\ used + 1 \notin Hop
           /\ used + 1 > h /\ pc[h] = "relaying" /\ live' = live \cup {used + 1} /\ lost' = lost
           /\ \A k \in Hop : pkt'[k] = pkt[k] /\ pc'[k] = IF k = h THEN "waiting" ELSE pc[k]
           /\ pkt'[used + 1].up = h /\ pc'[used + 1] = "deciding"
           /\ \E c \in cands[h] : cands'[h] = cands[h] \ {c}
           /\ \A k \in Hop : k # h => cands'[k] = cands[k]
  <1>1. PICK c \in cands[h] :
           /\ Arrive(c, h, pkt[h].ttl - 1)
           /\ cands' = Extend([cands EXCEPT ![h] = cands[h] \ {c}], {})
    BY DEF Forward
  <1>2. /\ used \in Nat /\ h \in 1..used /\ pc[h] = "relaying" /\ used' = used + 1
        /\ lost' = lost /\ live' = live \cup {used + 1}
        /\ pc' = Extend([pc EXCEPT ![h] = "waiting"], "deciding")
    BY <1>1 DEF Forward, Arrive, IInv, TypeOK, Hop
  <1>3. Hop' = Hop \cup {used + 1} /\ used + 1 \notin Hop /\ used + 1 > h
    BY <1>2 DEF Hop
  <1>4. /\ \A k \in Hop : pkt'[k] = pkt[k]
        /\ pkt'[used + 1] = [node |-> c, up |-> h, ttl |-> pkt[h].ttl - 1]
    BY <1>1, <1>2, ExtendFacts DEF Arrive
  <1>5. (\A k \in Hop : pc'[k] = IF k = h THEN "waiting" ELSE pc[k]) /\ pc'[used + 1] = "deciding"
    <2> DEFINE p0 == [pc EXCEPT ![h] = "waiting"]
    <2>1. \A k \in Hop : p0[k] = IF k = h THEN "waiting" ELSE pc[k]
      BY DEF IInv, TypeOK
    <2>2. pc' = Extend(p0, "deciding")
      BY <1>2
    <2> HIDE DEF p0
    <2>3. (\A k \in Hop : pc'[k] = p0[k]) /\ pc'[used + 1] = "deciding"
      BY <1>2, <2>2, ExtendFacts
    <2> QED BY <2>1, <2>3
  <1>6. \A k \in Hop : cands'[k] = IF k = h THEN cands[h] \ {c} ELSE cands[k]
    <2> DEFINE c0 == [cands EXCEPT ![h] = cands[h] \ {c}]
    <2>1. \A k \in Hop : c0[k] = IF k = h THEN cands[h] \ {c} ELSE cands[k]
      BY DEF IInv, TypeOK
    <2>2. cands' = Extend(c0, {})
      BY <1>1
    <2> HIDE DEF c0
    <2>3. \A k \in Hop : cands'[k] = c0[k]
      BY <1>2, <2>2, ExtendFacts
    <2> QED BY <2>1, <2>3
  <1>7. pkt'[used + 1].up = h /\ \E d \in cands[h] : cands'[h] = cands[h] \ {d}
    BY <1>4, <1>6
  <1>8. \A k \in Hop : k # h => cands'[k] = cands[k]
    BY <1>6
  <1> QED BY <1>2, <1>3, <1>4, <1>5, <1>7, <1>8

\* A step of one hop leaves the others' peers alone: the hop may stop waiting, and then for
\* one peer, but does not begin to wait for nobody.
LEMMA LocalWait ==
    ASSUME IInv, WaitInv, NEW h \in Hop, NEW p, p # "waiting", pc' = [pc EXCEPT ![h] = p],
           UNCHANGED <<used, pkt>>,
           \A u \in live : pkt[u].up # h => u \in live'
    PROVE  WaitInv'
  <1> SUFFICES ASSUME NEW k \in Hop, pc'[k] = "waiting"
               PROVE  \E u \in live' : u \in Hop /\ u > k /\ pkt[u].up = k
    BY DEF WaitInv, Hop
  <1>1. k # h /\ pc[k] = "waiting"
    BY DEF IInv, TypeOK
  <1>2. PICK u \in live : u \in Hop /\ u > k /\ pkt[u].up = k
    BY <1>1 DEF WaitInv
  <1> QED BY <1>1, <1>2

\* Every step keeps it so.
LEMMA NextWait == IInv /\ WaitInv /\ [Next]_vars => WaitInv'
  <1> SUFFICES ASSUME IInv, WaitInv, [Next]_vars PROVE WaitInv'
    OBVIOUS
  <1>1. CASE UNCHANGED vars
    BY <1>1 DEF vars, WaitInv, Hop
  <1>2. ASSUME NEW n \in Node, NEW m \in Node, NEW E \in Manifests[m], Upsert(n, m, E)
        PROVE  WaitInv'
    BY <1>2 DEF Upsert, WaitInv, Hop
  <1>3. ASSUME NEW n \in Node, NEW ttl \in 0..MaxTTL, Request(n, ttl)
        PROVE  WaitInv'
    <2>1. used = 0 /\ used' = 1 /\ pc'[used + 1] = "deciding"
      BY <1>3, ExtendFacts DEF Request, Arrive
    <2> QED BY <2>1 DEF WaitInv, Hop
  <1>4. ASSUME NEW h \in Hop, HopStep(h)
        PROVE  WaitInv'
    <2>1. CASE Reject(h) \/ Drop(h) \/ Exhausted(h)
      BY <2>1, LocalWait DEF Reject, Drop, Exhausted, Finish
    <2>2. CASE Execute(h) \/ StartRelay(h)
      BY <2>2, LocalWait DEF Execute, StartRelay
    <2>3. CASE \E r \in Signed : Executed(h, r)
      BY <2>3, LocalWait DEF Executed, Finish
    <2>4. CASE ConnectFails(h)
      BY <2>4 DEF ConnectFails, WaitInv, Hop
    <2>5. CASE \E u \in Hop : TakeAnswer(h, u)
      BY <2>5, LocalWait DEF TakeAnswer, Finish
    <2>6. CASE \E u \in Hop : LoseAnswer(h, u)
      BY <2>6, LocalWait DEF LoseAnswer
    <2>7. CASE Forward(h)
      <3>1. /\ Hop' = Hop \cup {used + 1} /\ used + 1 \notin Hop /\ used + 1 > h
            /\ live' = live \cup {used + 1}
            /\ \A k \in Hop : pkt'[k] = pkt[k] /\ pc'[k] = IF k = h THEN "waiting" ELSE pc[k]
            /\ pkt'[used + 1].up = h /\ pc'[used + 1] = "deciding"
        BY <2>7, ForwardEffect
      <3>2. ASSUME NEW k \in Hop', pc'[k] = "waiting"
            PROVE  \E u \in live' : u \in Hop' /\ u > k /\ pkt'[u].up = k
        <4>1. CASE k = h
          BY <3>1, <4>1
        <4>2. CASE k # h
          <5>1. k \in Hop /\ pc[k] = "waiting"
            BY <3>1, <3>2, <4>2
          <5>2. PICK u \in live : u \in Hop /\ u > k /\ pkt[u].up = k
            BY <5>1 DEF WaitInv
          <5> QED BY <3>1, <5>2
        <4> QED BY <4>1, <4>2
      <3> QED BY <3>2 DEF WaitInv
    <2> QED BY <1>4, <2>1, <2>2, <2>3, <2>4, <2>5, <2>6, <2>7 DEF HopStep
  <1> QED BY <1>1, <1>2, <1>3, <1>4 DEF Next

\* A set of natural numbers has a least element.
LEMMA Least ==
    ASSUME NEW S \in SUBSET Nat, S # {}
    PROVE  \E n \in S : \A m \in S : n <= m
  <1>1. PICK n \in S : \A m \in S : ~(<<m, n>> \in OpToRel(<, Nat))
    BY NatLessThanWellFounded, WFMin, Zenon
  <1>2. ASSUME NEW m \in S PROVE n <= m
    <2>1. ~(<<m, n>> \in OpToRel(<, Nat)) /\ m \in Nat /\ n \in Nat
      BY <1>1
    <2>2. ~(m < n)
      BY <2>1 DEF OpToRel
    <2>3. m \in Nat /\ n \in Nat
      OBVIOUS
    <2> QED BY <2>2, <2>3
  <1> QED BY <1>2

\* A set of hops has a latest one.
LEMMA Latest ==
    ASSUME IInv, NEW S \in SUBSET Hop, S # {}
    PROVE  \E h \in S : \A k \in S : k <= h
  <1> DEFINE R == {used - k : k \in S}
  <1>1. used \in Nat /\ \A k \in S : k \in 1..used
    BY DEF IInv, TypeOK, Hop
  <1>2. R \in SUBSET Nat /\ R # {}
    BY <1>1
  <1>3. PICK n \in R : \A m \in R : n <= m
    BY <1>2, Least
  <1>4. PICK h \in S : n = used - h
    BY <1>3
  <1>5. ASSUME NEW k \in S PROVE k <= h
    <2>1. n <= used - k
      BY <1>3
    <2> QED BY <1>1, <1>4, <2>1
  <1> QED BY <1>5

\* However the mesh is wired and whatever its stores say, no set of handlers waits on each
\* other in a circle: behind every handler that has not finished, itself included, there
\* is one that can go on.
THEOREM NoWaitCycle ==
    Spec => [](\A h \in Hop : pc[h] # "done" => \E g \in Hop : g >= h /\ Runnable(g))
  <1>1. Init => WaitInv
    BY DEF Init, WaitInv, Hop
  <1>2. IInv /\ WaitInv => \A h \in Hop : pc[h] # "done" => \E g \in Hop : g >= h /\ Runnable(g)
    <2> SUFFICES ASSUME IInv, WaitInv, NEW h \in Hop, pc[h] # "done"
                 PROVE  \E g \in Hop : g >= h /\ Runnable(g)
      OBVIOUS
    <2> DEFINE Open == {k \in Hop : k >= h /\ pc[k] # "done"}
    <2>1. Open \in SUBSET Hop /\ h \in Open
      BY DEF IInv, TypeOK, Hop
    <2>2. PICK g \in Open : \A k \in Open : k <= g
      BY <2>1, Latest
    <2>3. /\ g \in Hop /\ g >= h /\ pc[g] # "done" /\ pkt[g].node \in Node /\ cands[g] \subseteq Nat
          /\ pc[g] \in {"deciding", "executing", "relaying", "waiting", "done"}
      BY NodeAssumption DEF IInv, TypeOK, Packet
    <2>4. CASE pc[g] = "executing"
      <3> DEFINE r == [kind |-> "signed", signer |-> pkt[g].node, status |-> 200,
                       body |-> "whole", relayed |-> FALSE]
      <3>1. r \in Executions(pkt[g].node)
        BY <2>3 DEF Executions, Signed
      <3>2. Executions(pkt[g].node) # {}
        BY <3>1
      <3> QED BY <2>3, <2>4, <3>2 DEF Runnable
    <2>5. CASE pc[g] = "relaying"
      <3>1. cands[g] # {} => \E c \in cands[g] : IsFirst(c, cands[g])
        BY <2>3, Least DEF IsFirst
      <3> QED BY <2>3, <2>5, <3>1 DEF Runnable
    <2>6. CASE pc[g] = "waiting"
      <3>1. PICK u \in live : u \in Hop /\ u > g /\ pkt[u].up = g
        BY <2>3, <2>6 DEF WaitInv
      <3>2. u >= h /\ ~(u <= g)
        BY <2>3, <3>1 DEF IInv, TypeOK, Hop
      <3>3. pc[u] = "done"
        BY <2>2, <3>1, <3>2
      <3> QED BY <2>3, <2>6, <3>1, <3>3 DEF Runnable
    <2> QED BY <2>3, <2>4, <2>5, <2>6 DEF Runnable
  <1> QED BY Invariance, <1>1, NextWait, <1>2, PTL DEF Spec

-----------------------------------------------------------------------------
(* A request takes finitely many steps                                      *)

\* The most hops a request can make, and the steps a hop in a given phase can still take:
\* two for each candidate, and one more when it is yet to decide or to arrive.
MaxHops == MaxTTL * (1 + MaxLost) + 1
Top == 2 * Cardinality(Node) + 3

Steps(p, C) ==
    IF p = "done" THEN 0
    ELSE IF p = "executing" THEN 1
    ELSE IF p = "relaying" THEN 2 * Cardinality(C) + 1
    ELSE IF p = "waiting" THEN 2 * Cardinality(C) + 2 ELSE Top - 1

Rank(h) == IF h \in Hop THEN Steps(pc[h], cands[h]) ELSE Top

\* What is left to do, one element for each step.
Work == {w \in (1..MaxHops) \X (1..Top) : w[2] <= Rank(w[1])}

\* The bounds the environment keeps.
BoundInv == lost <= MaxLost /\ (used > 0 => pkt[1].ttl <= MaxTTL)

\* No step goes beyond them, or changes the TTL the client has sent.
LEMMA NextBound == IInv /\ BoundInv /\ [Next]_vars => BoundInv'
  <1> SUFFICES ASSUME IInv, BoundInv, [Next]_vars PROVE BoundInv'
    OBVIOUS
  <1>0. used \in Nat /\ lost \in Nat /\ MaxLost \in Nat
    BY BoundAssumption DEF IInv, TypeOK
  <1>1. CASE UNCHANGED vars
    BY <1>1 DEF vars, BoundInv
  <1>2. ASSUME NEW n \in Node, NEW m \in Node, NEW E \in Manifests[m], Upsert(n, m, E)
        PROVE  BoundInv'
    BY <1>2 DEF Upsert, BoundInv
  <1>3. ASSUME NEW n \in Node, NEW ttl \in 0..MaxTTL, Request(n, ttl)
        PROVE  BoundInv'
    <2>1. used = 0 /\ lost' = lost /\ ttl <= MaxTTL
          /\ pkt' = Extend(pkt, [node |-> n, up |-> 0, ttl |-> ttl])
      BY <1>3, BoundAssumption DEF Request, Arrive
    <2>2. pkt'[used + 1].ttl = ttl
      BY <1>0, <2>1, ExtendFacts
    <2> QED BY <2>1, <2>2 DEF BoundInv
  <1>4. ASSUME NEW h \in Hop, HopStep(h)
        PROVE  BoundInv'
    <2>1. used > 0 /\ 1 \in Hop
      BY <1>0 DEF Hop
    <2>2. CASE Forward(h)
      <3>1. lost' = lost /\ pkt'[1] = pkt[1]
        BY <2>1, <2>2, ForwardEffect
      <3> QED BY <2>1, <3>1 DEF BoundInv
    <2>3. CASE \E u \in Hop : LoseAnswer(h, u)
      BY <1>0, <2>3 DEF LoseAnswer, BoundInv
    <2>4. CASE ~Forward(h) /\ ~(\E u \in Hop : LoseAnswer(h, u))
      BY <1>4, <2>4 DEF HopStep, Reject, Execute, Executed, Drop, StartRelay, ConnectFails,
                        TakeAnswer, Exhausted, BoundInv
    <2> QED BY <2>2, <2>3, <2>4
  <1> QED BY <1>1, <1>2, <1>3, <1>4 DEF Next

\* A hop has a bounded number of steps before it.
LEMMA RankFacts ==
    /\ Cardinality(Node) \in Nat /\ Top \in Nat /\ MaxHops \in Nat
    /\ \A C \in SUBSET Node : IsFiniteSet(C) /\ Cardinality(C) \in 0..Cardinality(Node)
    /\ \A p : \A C \in SUBSET Node : Steps(p, C) \in 0..(Top - 1)
  <1>1. IsFiniteSet(Node) /\ Cardinality(Node) \in Nat
    BY NodeAssumption, FS_CardinalityType
  <1>2. Top \in Nat /\ MaxHops \in Nat
    BY <1>1, BoundAssumption DEF Top, MaxHops
  <1>3. ASSUME NEW C \in SUBSET Node
        PROVE  IsFiniteSet(C) /\ Cardinality(C) \in 0..Cardinality(Node)
    <2>1. IsFiniteSet(C) /\ Cardinality(C) <= Cardinality(Node) /\ Cardinality(C) \in Nat
      BY <1>1, FS_Subset, FS_CardinalityType
    <2> QED BY <1>1, <2>1
  <1>4. ASSUME NEW p, NEW C \in SUBSET Node
        PROVE  Steps(p, C) \in 0..(Top - 1)
    BY <1>1, <1>3 DEF Steps, Top
  <1> QED BY <1>1, <1>2, <1>3, <1>4

\* So has every hop, the ones yet to come included.
LEMMA RankType ==
    ASSUME IInv
    PROVE  \A h : Rank(h) \in 0..Top
  <1>1. Top \in Nat
    BY RankFacts
  <1>2. ASSUME NEW h \in Hop PROVE Rank(h) \in 0..Top
    <2>1. Steps(pc[h], cands[h]) \in 0..(Top - 1)
      BY RankFacts DEF IInv, TypeOK
    <2> QED BY <1>1, <2>1 DEF Rank
  <1> QED BY <1>1, <1>2 DEF Rank

\* What is left is finite.
LEMMA WorkFinite ==
    ASSUME NEW S \in SUBSET ((1..MaxHops) \X (1..Top))
    PROVE  IsFiniteSet(S) /\ Cardinality(S) \in Nat
  <1>1. Top \in Nat /\ MaxHops \in Nat
    BY RankFacts
  <1>2. IsFiniteSet(1..MaxHops) /\ IsFiniteSet(1..Top)
    BY <1>1, FS_Interval
  <1>3. IsFiniteSet((1..MaxHops) \X (1..Top))
    BY <1>2, FS_Product
  <1> QED BY <1>3, FS_Subset, FS_CardinalityType

\* When no hop's rank goes up and one goes down, less is left to do.
LEMMA WorkShrinks ==
    ASSUME IInv, NEW h \in 1..MaxHops, Rank(h)' < Rank(h),
           \A k \in 1..MaxHops : Rank(k)' \in Nat /\ Rank(k)' <= Rank(k)
    PROVE  Cardinality(Work') < Cardinality(Work)
  <1>1. Top \in Nat /\ MaxHops \in Nat /\ \A k : Rank(k) \in 0..Top
    BY RankFacts, RankType
  <1>2. Work \in SUBSET ((1..MaxHops) \X (1..Top))
    BY DEF Work
  <1>3. IsFiniteSet(Work)
    BY <1>2, WorkFinite
  <1>5. Work' = {w \in (1..MaxHops) \X (1..Top) : w[2] <= Rank(w[1])'}
    BY DEF Work
  <1>6. Work' \subseteq Work
    <2>1. ASSUME NEW k \in 1..MaxHops, NEW i \in 1..Top, i <= Rank(k)'
          PROVE  i <= Rank(k)
      BY <1>1, <2>1
    <2> QED BY <1>5, <2>1 DEF Work
  <1>7. \E i \in 1..Top : <<h, i>> \in Work /\ <<h, i>> \notin Work'
    <2> DEFINE i == Rank(h)
    <2>1. i \in 0..Top /\ Rank(h)' \in Nat /\ Rank(h)' < i
      BY <1>1
    <2>2. i \in 1..Top /\ i <= i /\ ~(i <= Rank(h)')
      BY <1>1, <2>1
    <2> QED BY <1>5, <2>2 DEF Work
  <1>8. /\ Cardinality(Work') <= Cardinality(Work) /\ Cardinality(Work') # Cardinality(Work)
        /\ Cardinality(Work) \in Nat /\ Cardinality(Work') \in Nat
    BY <1>3, <1>6, <1>7, FS_Subset, FS_CardinalityType
  <1> QED BY <1>8

\* A step of a handler within the bounds takes one of its own steps away.
LEMMA LocalRank ==
    ASSUME IInv, NEW h \in Hop, h <= MaxHops, UNCHANGED used,
           NEW p, pc' = [pc EXCEPT ![h] = p], NEW C \in SUBSET Node, cands' = [cands EXCEPT ![h] = C],
           Steps(p, C) < Steps(pc[h], cands[h])
    PROVE  Cardinality(Work') < Cardinality(Work)
  <1>1. Hop' = Hop /\ h \in 1..MaxHops /\ cands[h] \in SUBSET Node
    BY RankFacts DEF Hop, IInv, TypeOK
  <1>2. /\ pc'[h] = p /\ cands'[h] = C
        /\ \A k \in Hop : k # h => pc'[k] = pc[k] /\ cands'[k] = cands[k]
    BY DEF IInv, TypeOK
  <1>3. /\ Rank(h)' = Steps(p, C) /\ Rank(h) = Steps(pc[h], cands[h])
        /\ \A k : k # h => Rank(k)' = Rank(k)
    BY <1>1, <1>2 DEF Rank, Steps
  <1>4. Rank(h)' \in Nat /\ Top \in Nat /\ \A k : Rank(k) \in 0..Top
    <2>1. Steps(p, C) \in 0..(Top - 1) /\ Top \in Nat
      BY RankFacts
    <2> QED BY <1>3, <2>1, RankType
  <1>5. \A k \in 1..MaxHops : Rank(k)' \in Nat /\ Rank(k)' <= Rank(k)
    BY <1>3, <1>4
  <1> QED BY <1>1, <1>3, <1>5, WorkShrinks

\* The hops there are are within the bound.
LEMMA HopsInBound ==
    ASSUME IInv, CreditInv, BoundInv
    PROVE  used <= MaxHops
  <1> DEFINE t == pkt[1].ttl
             n == Cardinality(Credit)
  <1>1. used \in Nat /\ lost \in Nat /\ n \in Nat /\ MaxLost \in Nat /\ MaxTTL \in Nat
    BY CreditFacts, BoundAssumption DEF IInv, TypeOK
  <1>2. CASE used = 0
    BY <1>1, <1>2, RankFacts
  <1>3. CASE used > 0
    <2>1. t \in 0..255 /\ t <= MaxTTL /\ lost <= MaxLost /\ used - 1 + n <= t * (1 + lost)
      BY <1>1, <1>3, CreditFacts DEF Hop, CreditInv, BoundInv
    <2> HIDE DEF t, n
    <2>2. t * (1 + lost) <= MaxTTL * (1 + lost)
      BY <1>1, <2>1
    <2>3. MaxTTL * (1 + lost) <= MaxTTL * (1 + MaxLost)
      BY <1>1, <2>1
    <2>4. t * (1 + lost) \in Nat /\ MaxTTL * (1 + lost) \in Nat /\ MaxTTL * (1 + MaxLost) \in Nat
      BY <1>1, <2>1
    <2> QED BY <1>1, <2>1, <2>2, <2>3, <2>4 DEF MaxHops
  <1> QED BY <1>1, <1>2, <1>3

\* An arriving packet takes the step that was left for its hop, and a hop that forwards
\* has a candidate less.
LEMMA ForwardRank ==
    ASSUME IInv, NEW h \in Hop, Forward(h), NEW v, v = used + 1, v <= MaxHops
    PROVE  Cardinality(Work') < Cardinality(Work)
  <1>1. /\ used \in Nat /\ Hop' = Hop \cup {v} /\ v \notin Hop /\ pc[h] = "relaying"
        /\ pc'[h] = "waiting" /\ (\A k \in Hop : k # h => pc'[k] = pc[k] /\ cands'[k] = cands[k])
        /\ pc'[v] = "deciding"
    BY ForwardEffect
  <1>2. PICK c \in cands[h] : cands'[h] = cands[h] \ {c}
    BY ForwardEffect
  <1>3. cands[h] \in SUBSET Node /\ v \in 1..MaxHops /\ v # h
    BY <1>1, RankFacts DEF IInv, TypeOK, Hop
  <1>4. Cardinality(cands[h] \ {c}) = Cardinality(cands[h]) - 1
        /\ Cardinality(cands[h]) \in Nat
    BY <1>3, RankFacts, FS_RemoveElement
  <1>5. /\ Rank(h) = 2 * Cardinality(cands[h]) + 1 /\ Rank(h)' = 2 * Cardinality(cands[h])
        /\ Rank(v) = Top /\ Rank(v)' = Top - 1
        /\ \A k : k # h /\ k # v => Rank(k)' = Rank(k)
    <2>1. Rank(h) = 2 * Cardinality(cands[h]) + 1 /\ Rank(v) = Top
      BY <1>1 DEF Rank, Steps
    <2>2. Rank(h)' = 2 * Cardinality(cands[h] \ {c}) + 2
      BY <1>1, <1>2 DEF Rank, Steps
    <2>3. Rank(v)' = Top - 1
      BY <1>1 DEF Rank, Steps
    <2>4. \A k : k # h /\ k # v => Rank(k)' = Rank(k)
      BY <1>1 DEF Rank, Steps
    <2> QED BY <1>4, <2>1, <2>2, <2>3, <2>4
  <1>6. Top \in Nat /\ Top >= 1 /\ \A k : Rank(k) \in 0..Top
    BY RankFacts, RankType DEF Top
  <1>7. \A k \in 1..MaxHops : Rank(k)' \in Nat /\ Rank(k)' <= Rank(k)
    BY <1>4, <1>5, <1>6
  <1>8. Rank(v)' < Rank(v)
    BY <1>5, <1>6
  <1> QED BY <1>3, <1>7, <1>8, WorkShrinks

\* Every step of a handler counts.
LEMMA HopStepRank ==
    ASSUME IInv, NEW h \in Hop, HopStep(h), h <= MaxHops, used' <= MaxHops
    PROVE  Cardinality(Work') < Cardinality(Work)
  <1> DEFINE C == cands[h]
             n == Cardinality(C)
             N == Cardinality(Node)
  <1>1. /\ C \in SUBSET Node /\ IsFiniteSet(C) /\ n \in Nat /\ n <= N /\ N \in Nat
        /\ cands = [cands EXCEPT ![h] = C]
    BY RankFacts DEF IInv, TypeOK
  <1>2. /\ \A D : Steps("done", D) = 0 /\ Steps("executing", D) = 1
        /\ \A D : Steps("relaying", D) = 2 * Cardinality(D) + 1
        /\ \A D : Steps("waiting", D) = 2 * Cardinality(D) + 2
        /\ \A D : Steps("deciding", D) = 2 * N + 2
    BY <1>1 DEF Steps, Top
  <1> HIDE DEF n, N
  <1>3. ASSUME NEW p, pc' = [pc EXCEPT ![h] = p], UNCHANGED <<used, cands>>,
               Steps(p, C) < Steps(pc[h], C)
        PROVE  Cardinality(Work') < Cardinality(Work)
    BY <1>1, <1>3, LocalRank
  <1>4. ASSUME pc' = [pc EXCEPT ![h] = "done"], UNCHANGED <<used, cands>>,
               pc[h] \in {"deciding", "executing", "relaying", "waiting"}
        PROVE  Cardinality(Work') < Cardinality(Work)
    <2>1. Steps("done", C) < Steps(pc[h], C)
      <3>1. /\ Steps("done", C) = 0 /\ Steps("executing", C) = 1 /\ Steps("relaying", C) = 2 * n + 1
            /\ Steps("waiting", C) = 2 * n + 2 /\ Steps("deciding", C) = 2 * N + 2
        BY <1>2 DEF n
      <3> QED BY <1>1, <1>4, <3>1
    <2> QED BY <1>3, <1>4, <2>1
  <1>5. CASE Reject(h) \/ Drop(h) \/ Exhausted(h)
    BY <1>4, <1>5 DEF Reject, Drop, Exhausted, Finish
  <1>6. CASE \E r \in Signed : Executed(h, r)
    BY <1>4, <1>6 DEF Executed, Finish
  <1>7. CASE \E u \in Hop : TakeAnswer(h, u)
    BY <1>4, <1>7 DEF TakeAnswer, Finish
  <1>8. CASE Execute(h)
    <2>1. pc[h] = "deciding" /\ pc' = [pc EXCEPT ![h] = "executing"] /\ UNCHANGED <<used, cands>>
      BY <1>8 DEF Execute
    <2>2. Steps("executing", C) < Steps(pc[h], C)
      BY <1>1, <1>2, <2>1
    <2> QED BY <1>3, <2>1, <2>2
  <1>9. CASE \E u \in Hop : LoseAnswer(h, u)
    <2>1. pc[h] = "waiting" /\ pc' = [pc EXCEPT ![h] = "relaying"] /\ UNCHANGED <<used, cands>>
      BY <1>9 DEF LoseAnswer
    <2>2. Steps("relaying", C) < Steps(pc[h], C)
      BY <1>1, <1>2, <2>1 DEF n
    <2> QED BY <1>3, <2>1, <2>2
  <1>10. CASE StartRelay(h)
    <2> DEFINE D == Candidates(pkt[h].node)
    <2>1. /\ pc[h] = "deciding" /\ pc' = [pc EXCEPT ![h] = "relaying"] /\ UNCHANGED used
          /\ cands' = [cands EXCEPT ![h] = D]
      BY <1>10 DEF StartRelay
    <2>2. D \in SUBSET Node
      <3>1. pkt[h].node \in Node
        BY DEF IInv, TypeOK, Packet
      <3> QED BY <3>1, CandidatesFacts DEF IInv
    <2> HIDE DEF D
    <2>3. Cardinality(D) \in Nat /\ Cardinality(D) <= N
      BY <2>2, RankFacts DEF N
    <2>4. Steps("relaying", D) < Steps(pc[h], C)
      BY <1>1, <1>2, <2>1, <2>3
    <2> QED BY <2>1, <2>2, <2>4, LocalRank
  <1>11. CASE ConnectFails(h)
    <2>1. PICK c \in C : cands' = [cands EXCEPT ![h] = C \ {c}]
      BY <1>11 DEF ConnectFails
    <2>2. pc[h] = "relaying" /\ UNCHANGED <<used, pc>>
      BY <1>11 DEF ConnectFails
    <2>3. pc' = [pc EXCEPT ![h] = "relaying"]
      BY <2>2 DEF IInv, TypeOK
    <2>4. C \ {c} \in SUBSET Node /\ Cardinality(C \ {c}) = n - 1
      BY <1>1, FS_RemoveElement DEF n
    <2>5. Steps("relaying", C \ {c}) < Steps(pc[h], C)
      BY <1>1, <1>2, <2>2, <2>4 DEF n
    <2> QED BY <2>1, <2>2, <2>3, <2>4, <2>5, LocalRank
  <1>12. CASE Forward(h)
    <2>1. used' = used + 1
      BY <1>12, ForwardEffect
    <2> QED BY <1>12, <2>1, ForwardRank
  <1> QED BY <1>5, <1>6, <1>7, <1>8, <1>9, <1>10, <1>11, <1>12 DEF HopStep

\* A request cannot keep the mesh busy forever.  In a mesh of any size each step of a
\* handler, a retry with the next candidate included, makes a finite set smaller, and
\* nothing that arrives through gossip in the meantime makes it larger.
THEOREM RequestIsFinite ==
    Spec => [][/\ IsFiniteSet(Work)
               /\ (\E h \in Hop : HopStep(h)) => Cardinality(Work') < Cardinality(Work)
               /\ used > 0 => Cardinality(Work') <= Cardinality(Work)]_vars
  <1> DEFINE Progress ==
               /\ IsFiniteSet(Work)
               /\ (\E h \in Hop : HopStep(h)) => Cardinality(Work') < Cardinality(Work)
               /\ used > 0 => Cardinality(Work') <= Cardinality(Work)
             Inv == IInv /\ CreditInv /\ BoundInv
             InBound == used <= MaxHops
  <1>1. Init => Inv
    BY InitInv, BoundAssumption DEF Init, CreditInv, BoundInv
  <1>2. Inv /\ [Next]_vars => Inv'
    BY NextInv, NextCredit, NextBound
  <1>3. Inv => InBound
    BY HopsInBound
  <1>4. Inv /\ InBound /\ InBound' /\ [Next]_vars => [Progress]_vars
    <2> SUFFICES ASSUME IInv, used <= MaxHops, used' <= MaxHops, [Next]_vars PROVE Progress
      BY DEF MaxHops
    <2>1. /\ Work \in SUBSET ((1..MaxHops) \X (1..Top)) /\ Work' \in SUBSET ((1..MaxHops) \X (1..Top))
      BY DEF Work
    <2>2. IsFiniteSet(Work) /\ Cardinality(Work) \in Nat /\ Cardinality(Work') \in Nat
      BY <2>1, WorkFinite
    <2>3. ASSUME NEW h \in Hop, HopStep(h)
          PROVE  Cardinality(Work') < Cardinality(Work)
      <3>1. h <= MaxHops
        BY RankFacts DEF IInv, TypeOK, Hop
      <3> QED BY <2>3, <3>1, HopStepRank
    <2>4. ASSUME used > 0, ~(\E h \in Hop : HopStep(h))
          PROVE  Work' = Work
      <3>1. UNCHANGED <<used, pc, cands>>
        <4>1. \A n \in Node, ttl \in 0..MaxTTL : ~Request(n, ttl)
          BY <2>4 DEF Request, IInv, TypeOK
        <4>2. (\E n \in Node, m \in Node : \E E \in Manifests[m] : Upsert(n, m, E)) \/ UNCHANGED vars
          BY <2>4, <4>1 DEF Next
        <4> QED BY <4>2 DEF Upsert, vars
      <3> QED BY <3>1 DEF Work, Rank, Steps, Hop
    <2> QED BY <2>2, <2>3, <2>4
  <1> HIDE DEF Progress, Inv, InBound
  <1>5. Spec => []Inv
    BY <1>1, <1>2, PTL DEF Spec
  <1>6. Spec => [][Progress]_vars
    BY <1>3, <1>4, <1>5, PTL DEF Spec
  <1> QED BY <1>6 DEF Progress
=============================================================================
