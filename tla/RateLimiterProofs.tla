-------------------------- MODULE RateLimiterProofs --------------------------
(***************************************************************************)
(* Type correctness and the window bound of the token bucket, for every    *)
(* set of peers, threads and limits, every clock resolution and length.    *)
(***************************************************************************)
EXTENDS RateLimiter, TLAPS

\* What makes the bound inductive: no bucket holds more than a second's worth at
\* the largest limit, no instant lies in the future, and once a call has been
\* counted, what was counted plus what is left is covered by the time that passed
\* in the bucket (up to `last`, not up to `clock`) since the window opened.
BucketInv ==
    \A p \in DOMAIN buckets :
        buckets[p].tokens <= MaxRate * Sec /\ buckets[p].last <= clock

CallInv == \A t \in Thread : call[t].pc = "locking" => call[t].now <= clock

WindowInv ==
    \A p \in Peer :
        /\ win[p].start <= clock
        /\ win[p].count > 0 =>
             /\ p \in DOMAIN buckets
             /\ win[p].count * Sec + buckets[p].tokens
                  <= MaxRate * (Sec + (buckets[p].last - win[p].start) + win[p].rewound)

IInv == TypeOK /\ BucketInv /\ CallInv /\ WindowInv

-----------------------------------------------------------------------------
(* Arithmetic                                                               *)

\* Products of naturals are monotone in one factor.
LEMMA MulMono ==
    ASSUME NEW a \in Nat, NEW b \in Nat, NEW c \in Nat, a <= b
    PROVE  a * c <= b * c /\ c * a <= c * b /\ a * c \in Nat /\ c * a \in Nat
  OBVIOUS

\* Multiplication distributes over a sum, and keeps integers integers.
LEMMA Distribute ==
    ASSUME NEW m \in Int, NEW x \in Int, NEW e \in Int, NEW y \in Int, y = x + e
    PROVE  m * x + m * e = m * y /\ m * x \in Int /\ m * e \in Int /\ m * y \in Int
  OBVIOUS

\* What Refill returns: a natural number, at most a second's worth at the limit
\* passed, and at most the old tokens plus the elapsed time at the largest limit.
LEMMA RefillBounds ==
    ASSUME NEW b \in Bucket, NEW r \in Rate \ {0}, NEW now \in Nat
    PROVE  /\ Refill(b, r, now) \in Nat
           /\ Refill(b, r, now) <= MaxRate * Sec
           /\ Refill(b, r, now) <= b.tokens + MaxRate * Elapsed(b, now)
  <1>1. /\ b.tokens \in Nat /\ b.last \in Nat
        /\ r \in Nat /\ MaxRate \in Nat /\ r <= MaxRate /\ Sec \in Nat
    BY RateAssumption, ClockAssumption DEF Bucket
  <1>2. Elapsed(b, now) \in Nat
    BY <1>1 DEF Elapsed
  <1>3. r * Sec <= MaxRate * Sec /\ r * Sec \in Nat
    BY <1>1, MulMono
  <1>4. Elapsed(b, now) * r <= MaxRate * Elapsed(b, now) /\ Elapsed(b, now) * r \in Nat
    <2>1. Elapsed(b, now) * r <= Elapsed(b, now) * MaxRate /\ Elapsed(b, now) * r \in Nat
      BY <1>1, <1>2, MulMono
    <2> QED BY <1>1, <1>2, <2>1
  <1> HIDE DEF Elapsed
  <1> QED BY <1>1, <1>2, <1>3, <1>4 DEF Refill, Smaller

-----------------------------------------------------------------------------
\* The values the step Locked(t) computes, with the types and bounds the
\* invariant gives them.
LEMMA LockedFacts ==
    ASSUME IInv, NEW t \in Thread, Locked(t)
    PROVE  \E p \in Peer, r \in Rate \ {0}, now \in Nat, b \in Bucket, full \in Nat, left \in Nat :
             /\ now <= clock /\ b.tokens <= MaxRate * Sec /\ b.last <= clock
             /\ p \in DOMAIN buckets => b = buckets[p]
             /\ p \notin DOMAIN buckets => b.last = now
             /\ full <= MaxRate * Sec
             /\ full <= b.tokens + MaxRate * Elapsed(b, now)
             /\ left = IF full >= Sec THEN full - Sec ELSE full
             /\ buckets' = [q \in DOMAIN buckets \cup {p} |->
                              IF q = p THEN [tokens |-> left, last |-> now] ELSE buckets[q]]
             /\ call' = [call EXCEPT ![t] = [pc |-> "idle", ok |-> full >= Sec]]
             /\ win' = [win EXCEPT ![p] = Counted(win[p], full >= Sec, r, now, b)]
  <1> DEFINE p == call[t].peer
             r == call[t].rate
             now == call[t].now
             b == Entry(p, r, now)
             full == Refill(b, r, now)
             left == IF full >= Sec THEN full - Sec ELSE full
  <1>1. p \in Peer /\ r \in Rate \ {0} /\ now \in Nat /\ now <= clock
    <2>1. call[t] \in Locking /\ call[t].pc = "locking"
      BY DEF IInv, TypeOK, Locked, Returned, Locking
    <2> QED BY <2>1 DEF Locking, IInv, CallInv
  <1>6. /\ buckets' = [q \in DOMAIN buckets \cup {p} |->
                         IF q = p THEN [tokens |-> left, last |-> now] ELSE buckets[q]]
        /\ call' = [call EXCEPT ![t] = [pc |-> "idle", ok |-> full >= Sec]]
        /\ win' = [win EXCEPT ![p] = Counted(win[p], full >= Sec, r, now, b)]
    BY DEF Locked, HasToken
  <1> HIDE DEF p, r, now
  <1>2. r \in Nat /\ r * Sec \in Nat /\ r * Sec <= MaxRate * Sec
    <2>1. r \in Nat /\ MaxRate \in Nat /\ r <= MaxRate /\ Sec \in Nat
      BY <1>1, RateAssumption, ClockAssumption
    <2> QED BY <2>1, MulMono
  <1>3. /\ b \in Bucket /\ b.tokens <= MaxRate * Sec /\ b.last <= clock
        /\ p \in DOMAIN buckets => b = buckets[p]
        /\ p \notin DOMAIN buckets => b.last = now
    <2>1. CASE p \in DOMAIN buckets
      BY <2>1 DEF Entry, IInv, TypeOK, BucketInv
    <2>2. CASE p \notin DOMAIN buckets
      BY <1>1, <1>2, <2>2 DEF Entry, Bucket
    <2> QED BY <2>1, <2>2
  <1> HIDE DEF b
  <1>4. full \in Nat /\ full <= MaxRate * Sec /\ full <= b.tokens + MaxRate * Elapsed(b, now)
    BY <1>1, <1>3, RefillBounds
  <1> HIDE DEF full
  <1>5. left \in Nat
    BY <1>4, ClockAssumption
  <1>7. left = IF full >= Sec THEN full - Sec ELSE full
    BY DEF left
  <1> HIDE DEF left
  <1> QED BY <1>1, <1>3, <1>4, <1>5, <1>6, <1>7

\* The step of the critical section preserves the invariant.
LEMMA LockedInv ==
    ASSUME IInv, NEW t \in Thread, Locked(t)
    PROVE  IInv'
  <1>1. PICK p \in Peer, r \in Rate \ {0}, now \in Nat, b \in Bucket, full \in Nat, left \in Nat :
             /\ now <= clock /\ b.tokens <= MaxRate * Sec /\ b.last <= clock
             /\ p \in DOMAIN buckets => b = buckets[p]
             /\ p \notin DOMAIN buckets => b.last = now
             /\ full <= MaxRate * Sec
             /\ full <= b.tokens + MaxRate * Elapsed(b, now)
             /\ left = IF full >= Sec THEN full - Sec ELSE full
             /\ buckets' = [q \in DOMAIN buckets \cup {p} |->
                              IF q = p THEN [tokens |-> left, last |-> now] ELSE buckets[q]]
             /\ call' = [call EXCEPT ![t] = [pc |-> "idle", ok |-> full >= Sec]]
             /\ win' = [win EXCEPT ![p] = Counted(win[p], full >= Sec, r, now, b)]
    BY LockedFacts
  <1>2. clock' = clock /\ clock \in Nat
    BY DEF Locked, IInv, TypeOK
  <1>3. /\ DOMAIN buckets' = DOMAIN buckets \cup {p}
        /\ buckets'[p] = [tokens |-> left, last |-> now]
        /\ \A q \in DOMAIN buckets : q # p => buckets'[q] = buckets[q]
    BY <1>1
  <1>4. /\ win[p] \in Window /\ Counted(win[p], full >= Sec, r, now, b) \in Window
        /\ win'[p] = Counted(win[p], full >= Sec, r, now, b)
        /\ \A q \in Peer : q # p => win'[q] = win[q]
    BY <1>1 DEF IInv, TypeOK, Window, Counted, Watched, Bucket
  <1>5. left <= MaxRate * Sec /\ left <= full
    BY <1>1, ClockAssumption, RateAssumption
  <1>6. TypeOK'
    <2>1. buckets' \in [DOMAIN buckets' -> Bucket] /\ DOMAIN buckets' \subseteq Peer
      BY <1>1, <1>3 DEF IInv, TypeOK, Bucket
    <2>2. call' \in [Thread -> Returned \cup Locking]
      BY <1>1 DEF IInv, TypeOK, Returned
    <2>3. win' \in [Peer -> Window]
      BY <1>1, <1>4 DEF IInv, TypeOK
    <2> QED BY <1>2, <2>1, <2>2, <2>3 DEF TypeOK
  <1>7. BucketInv'
    BY <1>1, <1>2, <1>3, <1>5 DEF IInv, BucketInv
  <1>8. CallInv'
    BY <1>1, <1>2 DEF IInv, TypeOK, CallInv
  <1>9. WindowInv'
    <2>1. SUFFICES ASSUME NEW q \in Peer
                   PROVE  /\ win'[q].start <= clock
                          /\ win'[q].count > 0 =>
                               /\ q \in DOMAIN buckets'
                               /\ win'[q].count * Sec + buckets'[q].tokens
                                    <= MaxRate * (Sec + (buckets'[q].last - win'[q].start)
                                                      + win'[q].rewound)
      BY <1>2 DEF WindowInv
    <2>2. CASE q # p
      BY <1>3, <1>4, <2>2 DEF IInv, WindowInv
    <2>3. CASE q = p
      <3> DEFINE w == win[p]
                 v == win'[p]
                 C == w.count
                 D == v.count
      <3>1. /\ w.start \in Nat /\ C \in Nat /\ w.rewound \in Nat /\ w.start <= clock
            /\ v.start = w.start /\ D \in Nat /\ v.rewound \in Nat
            /\ D = IF full >= Sec /\ r \in w.of /\ now >= w.start THEN C + 1 ELSE C
            /\ v.rewound = IF now < b.last THEN w.rewound + (b.last - now) ELSE w.rewound
            /\ C > 0 =>
                 /\ p \in DOMAIN buckets
                 /\ C * Sec + b.tokens
                      <= MaxRate * (Sec + (b.last - w.start) + w.rewound)
        BY <1>1, <1>4 DEF IInv, WindowInv, Window, Counted, Watched
      <3>2. b.tokens \in Nat /\ b.last \in Nat /\ Sec \in Nat \ {0} /\ MaxRate \in Nat
        BY RateAssumption, ClockAssumption DEF Bucket
      <3>3. SUFFICES ASSUME D > 0
                     PROVE  D * Sec + left <= MaxRate * (Sec + (now - w.start) + v.rewound)
        BY <1>3, <2>3, <3>1
      <3>4. D * Sec + left <= C * Sec + full
        BY <1>1, <1>5, <3>1, <3>2
      <3>5. CASE C > 0
        <4>1. full <= b.tokens + MaxRate * Elapsed(b, now)
          BY <1>1
        <4>2. Elapsed(b, now) \in Nat /\ Elapsed(b, now) = (now - b.last) + (v.rewound - w.rewound)
          BY <3>1, <3>2 DEF Elapsed
        <4> DEFINE X == Sec + (b.last - w.start) + w.rewound
                   E == Elapsed(b, now)
                   Y == Sec + (now - w.start) + v.rewound
        <4>3. X \in Int /\ E \in Int /\ Y \in Int /\ Y = X + E
          BY <3>1, <3>2, <4>2
        <4>4. C * Sec + b.tokens <= MaxRate * X
          BY <3>1, <3>5
        <4>5. C * Sec \in Int /\ D * Sec \in Int
          BY <3>1, <3>2
        <4> HIDE DEF X, E, Y
        <4>6. MaxRate * X + MaxRate * E = MaxRate * Y
              /\ MaxRate * X \in Int /\ MaxRate * E \in Int /\ MaxRate * Y \in Int
          BY <3>2, <4>3, Distribute
        <4>7. full <= b.tokens + MaxRate * E
          BY <4>1 DEF E
        <4>8. D * Sec + left <= MaxRate * Y
          <5> HIDE DEF C, D
          <5> QED BY <3>2, <3>4, <4>4, <4>5, <4>6, <4>7
        <4> QED BY <4>8 DEF Y
      <3>6. CASE C = 0
        <4>1. now >= w.start
          BY <3>1, <3>3, <3>6
        <4>2. C * Sec + full <= MaxRate * Sec
          BY <1>1, <3>2, <3>6
        <4>3. MaxRate * Sec <= MaxRate * (Sec + (now - w.start) + v.rewound)
          BY <3>1, <3>2, <4>1, MulMono
        <4>4. C * Sec \in Int /\ D * Sec \in Int /\ MaxRate * Sec \in Int
          BY <3>1, <3>2
        <4>5. MaxRate * (Sec + (now - w.start) + v.rewound) \in Int
          BY <3>1, <3>2
        <4> DEFINE Z == MaxRate * (Sec + (now - w.start) + v.rewound)
        <4> HIDE DEF C, D, Z
        <4>6. D * Sec + left <= Z
          BY <3>4, <4>2, <4>3, <4>4, <4>5 DEF Z
        <4> QED BY <4>6 DEF Z
      <3> QED BY <3>1, <3>5, <3>6
    <2> QED BY <2>2, <2>3
  <1> QED BY <1>6, <1>7, <1>8, <1>9 DEF IInv

-----------------------------------------------------------------------------
\* No limit of any caller, no clock reading and no call in flight breaks IInv.
LEMMA InitInv == Init => IInv
  <1> SUFFICES ASSUME Init PROVE IInv
    OBVIOUS
  <1>1. TypeOK
    BY RateAssumption DEF Init, TypeOK, Returned, Window
  <1>2. BucketInv /\ CallInv
    BY DEF Init, BucketInv, CallInv
  <1>3. ASSUME NEW p \in Peer
        PROVE  win[p].start <= clock /\ ~(win[p].count > 0)
    <2>1. clock = 0 /\ win[p].start = 0 /\ win[p].count = 0
      BY DEF Init
    <2>2. 0 <= 0 /\ ~(0 > 0)
      OBVIOUS
    <2> QED BY <2>1, <2>2, Zenon
  <1>4. WindowInv
    BY <1>3 DEF WindowInv
  <1> QED BY <1>1, <1>2, <1>4 DEF IInv

\* The invariant is inductive: the clock, a call, its critical section, an observer.
LEMMA NextInv == IInv /\ [Next]_vars => IInv'
  <1> SUFFICES ASSUME IInv, [Next]_vars PROVE IInv'
    OBVIOUS
  <1>1. CASE Tick
    <2>1. clock' \in Nat /\ clock <= clock' /\ UNCHANGED <<buckets, call, win>> /\ clock \in Nat
      BY <1>1 DEF Tick, IInv, TypeOK
    <2>2. TypeOK'
      BY <2>1 DEF IInv, TypeOK
    <2>3. BucketInv' /\ CallInv'
      BY <2>1 DEF IInv, TypeOK, BucketInv, CallInv, Bucket, Returned, Locking
    <2>4. WindowInv'
      BY <2>1 DEF IInv, TypeOK, WindowInv, Window
    <2> QED BY <2>2, <2>3, <2>4 DEF IInv
  <1>2. ASSUME NEW t \in Thread, NEW p \in Peer, NEW r \in Rate, Call(t, p, r)
        PROVE  IInv'
    <2>1. TypeOK'
      <3>1. CASE r = 0
        BY <1>2, <3>1 DEF Call, IInv, TypeOK, Returned
      <3>2. CASE r # 0
        BY <1>2, <3>2 DEF Call, IInv, TypeOK, Locking
      <3> QED BY <3>1, <3>2
    <2>2. CallInv'
      BY <1>2 DEF Call, IInv, TypeOK, CallInv
    <2>3. BucketInv' /\ WindowInv'
      BY <1>2 DEF Call, IInv, BucketInv, WindowInv
    <2> QED BY <2>1, <2>2, <2>3 DEF IInv
  <1>3. ASSUME NEW t \in Thread, Locked(t)
        PROVE  IInv'
    BY <1>3, LockedInv
  <1>4. ASSUME NEW p \in Peer, NEW R \in SUBSET Rate, Observe(p, R)
        PROVE  IInv'
    <2>1. TypeOK'
      BY <1>4 DEF Observe, IInv, TypeOK, Window
    <2>2. BucketInv' /\ CallInv'
      BY <1>4 DEF Observe, IInv, BucketInv, CallInv
    <2>3. WindowInv'
      BY <1>4 DEF Observe, IInv, TypeOK, WindowInv, Window
    <2> QED BY <2>1, <2>2, <2>3 DEF IInv
  <1>5. CASE UNCHANGED vars
    BY <1>5 DEF vars, IInv, TypeOK, BucketInv, CallInv, WindowInv
  <1> QED BY <1>1, <1>2, <1>3, <1>4, <1>5 DEF Next

\* So it holds in every reachable state of the limiter.
LEMMA Invariance == Spec => []IInv
  BY InitInv, NextInv, PTL DEF Spec

\* The invariant gives the bound an observer sees: a bucket never holds a
\* negative amount and `last` is never in the future.
LEMMA InvWindowBound == IInv => WindowBound
  <1> SUFFICES ASSUME IInv, NEW p \in Peer
               PROVE  win[p].count * Sec
                        <= MaxRate * (Sec + (clock - win[p].start) + win[p].rewound)
    BY DEF WindowBound
  <1> DEFINE w == win[p]
             C == w.count
             Y == Sec + (clock - w.start) + w.rewound
  <1>1. /\ w.start \in Nat /\ C \in Nat /\ w.rewound \in Nat /\ w.start <= clock
        /\ clock \in Nat /\ Sec \in Nat /\ MaxRate \in Nat /\ Y \in Nat
    BY RateAssumption, ClockAssumption DEF IInv, TypeOK, WindowInv, Window
  <1>2. CASE C = 0
    <2>1. C * Sec = 0 /\ MaxRate * Y \in Nat
      <3> HIDE DEF Y
      <3> QED BY <1>1, <1>2, MulMono
    <2> HIDE DEF Y
    <2>2. C * Sec <= MaxRate * Y
      BY <2>1
    <2> QED BY <2>2 DEF Y
  <1>3. CASE C > 0
    <2> DEFINE X == Sec + (buckets[p].last - w.start) + w.rewound
               e == clock - buckets[p].last
    <2>1. /\ buckets[p].tokens \in Nat /\ buckets[p].last \in Nat /\ buckets[p].last <= clock
          /\ C * Sec + buckets[p].tokens <= MaxRate * X
      BY <1>3 DEF IInv, TypeOK, BucketInv, WindowInv, Bucket
    <2>2. X \in Int /\ e \in Nat /\ Y = X + e /\ C * Sec \in Int
      BY <1>1, <2>1
    <2> HIDE DEF X, Y, e, C
    <2>3. MaxRate * X + MaxRate * e = MaxRate * Y
          /\ MaxRate * X \in Int /\ MaxRate * e \in Nat /\ MaxRate * Y \in Int
      BY <1>1, <2>2, Distribute, MulMono
    <2>4. C * Sec <= MaxRate * Y
      BY <2>1, <2>2, <2>3
    <2> QED BY <2>4 DEF C, Y
  <1> QED BY <1>1, <1>2, <1>3

\* A call on a new bucket, or on one idle for a second, finds a full bucket.
LEMMA IdleStep == IInv /\ [Next]_vars => \A t \in Thread : AdmittedAfterIdle(t)
  <1> SUFFICES ASSUME IInv, [Next]_vars, NEW t \in Thread,
                      call[t].pc = "locking", call'[t].pc = "idle",
                      \/ call[t].peer \notin DOMAIN buckets
                      \/ call[t].now - buckets[call[t].peer].last >= Sec
               PROVE  call'[t].ok
    BY DEF AdmittedAfterIdle
  <1>1. Locked(t)
    <2>1. CASE Tick \/ UNCHANGED vars
      BY <2>1 DEF Tick, vars
    <2>2. ASSUME NEW u \in Thread, NEW p \in Peer, NEW r \in Rate, Call(u, p, r)
          PROVE  FALSE
      BY <2>2 DEF Call, IInv, TypeOK
    <2>3. ASSUME NEW u \in Thread, Locked(u)
          PROVE  u = t
      BY <2>3 DEF Locked, IInv, TypeOK
    <2>4. ASSUME NEW p \in Peer, NEW R \in SUBSET Rate, Observe(p, R)
          PROVE  FALSE
      BY <2>4 DEF Observe
    <2> QED BY <2>1, <2>2, <2>3, <2>4 DEF Next
  <1> DEFINE p == call[t].peer
             r == call[t].rate
             now == call[t].now
             b == Entry(p, r, now)
             full == Refill(b, r, now)
  <1>2. call'[t].ok = HasToken(full)
    BY <1>1 DEF Locked, IInv, TypeOK
  <1>3. p \in Peer /\ r \in Rate \ {0} /\ now \in Nat
    <2>1. call[t] \in Locking
      BY DEF IInv, TypeOK, Returned
    <2> QED BY <2>1 DEF Locking
  <1>4. p \in DOMAIN buckets => b = buckets[p] /\ b \in Bucket /\ now - b.last >= Sec
    BY DEF Entry, IInv, TypeOK
  <1>5. p \notin DOMAIN buckets => b = [tokens |-> r * Sec, last |-> now]
    BY DEF Entry
  <1> HIDE DEF p, r, now, b
  <1>6. r \in Nat /\ r >= 1 /\ Sec \in Nat
    BY <1>3, RateAssumption, ClockAssumption
  <1>7. Sec <= r * Sec /\ r * Sec \in Nat
    <2>1. 1 * Sec <= r * Sec /\ r * Sec \in Nat
      BY <1>6, MulMono
    <2> QED BY <1>6, <2>1
  <1>8. full >= Sec
    <2>1. CASE p \in DOMAIN buckets
      <3>1. b.tokens \in Nat /\ b.last \in Nat /\ Elapsed(b, now) \in Nat /\ Sec <= Elapsed(b, now)
        BY <1>3, <1>4, <1>6, <2>1 DEF Bucket, Elapsed
      <3>2. r * Sec <= r * Elapsed(b, now) /\ r * Elapsed(b, now) \in Nat
        BY <1>6, <3>1, MulMono
      <3>3. Elapsed(b, now) * r = r * Elapsed(b, now)
        BY <1>6, <3>1
      <3> QED BY <1>7, <1>6, <3>1, <3>2, <3>3 DEF Refill, Smaller
    <2>2. CASE p \notin DOMAIN buckets
      <3>1. b.tokens = r * Sec /\ Elapsed(b, now) = 0 /\ 0 * r = 0
        BY <1>3, <1>5, <1>6, <2>2 DEF Elapsed
      <3> QED BY <1>6, <1>7, <3>1 DEF Refill, Smaller
    <2> QED BY <2>1, <2>2
  <1> QED BY <1>2, <1>8 DEF HasToken

-----------------------------------------------------------------------------
\* The state of allow() keeps its type: no bucket ever holds a negative amount of
\* tokens, whichever limits its callers mix.
THEOREM TypeCorrect == Spec => []TypeOK
  <1>1. IInv => TypeOK
    BY DEF IInv
  <1> QED BY Invariance, <1>1, PTL

\* In every window, however the threads race for the mutex, one peer is admitted
\* at most MaxRate times at once plus MaxRate times a second, plus MaxRate times
\* the time by which overtaken calls set `last` back.
THEOREM WindowBoundHolds == Spec => []WindowBound
  BY Invariance, InvWindowBound, PTL

\* A peer that stays silent for a second is never refused by allow(), whatever
\* limits its earlier calls passed.
THEOREM NoLockout == Spec => IdleSecondAdmits
  <1>1. IInv /\ [Next]_vars => [\A t \in Thread : AdmittedAfterIdle(t)]_vars
    BY IdleStep
  <1> QED BY Invariance, <1>1, PTL DEF Spec, IdleSecondAdmits
=============================================================================
