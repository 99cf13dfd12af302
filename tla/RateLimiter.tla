---------------------------- MODULE RateLimiter ----------------------------
(***************************************************************************)
(* The per-peer token bucket (src/src/ratelimit.rs), called by every       *)
(* stream handler and by every WebSocket tunnel of the provider.           *)
(*                                                                         *)
(* Time is a count of ticks, Sec ticks to the second, and an amount of     *)
(* tokens is a count of 1/Sec-ths of a token.  With these units the code's *)
(* `elapsed * cap` is the integer (ticks elapsed) * rate, exactly; the     *)
(* rounding of f64 is not modelled.                                        *)
(*                                                                         *)
(* allow() reads Instant::now() BEFORE it takes the mutex, so a call is    *)
(* two steps, Call and Locked, between which other threads may run.        *)
(*                                                                         *)
(* `win` is history: an observer of the peer starts, at any moment, to     *)
(* count the admitted calls that read the clock from then on and passed    *)
(* one of the limits it watches, and how far `last` moved back meanwhile.  *)
(***************************************************************************)
EXTENDS Integers

CONSTANTS Peer,      \* keys of the bucket map: PeerIDs and "peer:ws:target"
          Thread,    \* tokio worker threads
          Rate,      \* the limits callers pass (rate_limit_per_peer, RELAY_RATE, ...)
          MaxRate,   \* the largest of them
          Sec,       \* ticks per second
          MaxClock   \* bound on time

ASSUME RateAssumption == MaxRate \in Nat /\ Rate \subseteq 0..MaxRate
ASSUME ClockAssumption == Sec \in Nat \ {0} /\ MaxClock \in Nat

VARIABLES clock,     \* the monotonic clock
          buckets,   \* the map under the mutex: peer -> [tokens, last]
          call,      \* the call each thread is in, or the verdict of its last one
          win        \* history: what an observer of each peer has counted

vars == <<clock, buckets, call, win>>

Bucket == [tokens: Nat, last: Nat]
Returned == [pc: {"idle"}, ok: BOOLEAN]
Locking == [pc: {"locking"}, peer: Peer, rate: Rate \ {0}, now: Nat]
Window == [start: Nat, of: SUBSET Rate, count: Nat, rewound: Nat]

\* Tokens and instants are natural numbers: allow() never overdraws a bucket.
TypeOK ==
    /\ clock \in Nat
    /\ DOMAIN buckets \subseteq Peer
    /\ buckets \in [DOMAIN buckets -> Bucket]
    /\ call \in [Thread -> Returned \cup Locking]
    /\ win \in [Peer -> Window]

Smaller(a, b) == IF a <= b THEN a ELSE b

----------------------------------------------------------------------------
(* The critical section of allow(), lines 36-48.                           *)

\* map.entry(peer).or_insert(Bucket { tokens: cap, last: now })
Entry(p, rate, now) ==
    IF p \in DOMAIN buckets THEN buckets[p] ELSE [tokens |-> rate * Sec, last |-> now]

\* Instant::duration_since saturates: an instant before `last` elapses 0.
Elapsed(b, now) == IF now >= b.last THEN now - b.last ELSE 0

MutNoClamp(b, rate, now) == b.tokens + Elapsed(b, now) * rate

Refill(b, rate, now) == Smaller(b.tokens + Elapsed(b, now) * rate, rate * Sec)

MutAlways(tokens) == TRUE

MutStrictlyMore(tokens) == tokens > Sec

HasToken(tokens) == tokens >= Sec

\* History: the observer counts a call that read the clock at or after its start.
Watched(w, rate, now) == rate \in w.of /\ now >= w.start

Counted(w, ok, rate, now, b) ==
    [start   |-> w.start,
     of      |-> w.of,
     count   |-> IF ok /\ Watched(w, rate, now) THEN w.count + 1 ELSE w.count,
     rewound |-> IF now < b.last THEN w.rewound + (b.last - now) ELSE w.rewound]

----------------------------------------------------------------------------
Init ==
    /\ clock = 0
    /\ buckets = [p \in {} |-> [tokens |-> 0, last |-> 0]]
    /\ call = [t \in Thread |-> [pc |-> "idle", ok |-> TRUE]]
    /\ win = [p \in Peer |-> [start |-> 0, of |-> Rate, count |-> 0, rewound |-> 0]]

Tick ==
    /\ clock < MaxClock
    /\ clock' = clock + 1
    /\ UNCHANGED <<buckets, call, win>>

\* rate == 0 returns true and touches no bucket; otherwise the clock is read.
Call(t, p, r) ==
    /\ call[t].pc = "idle"
    /\ call' = [call EXCEPT ![t] =
                  IF r = 0
                  THEN [pc |-> "idle", ok |-> TRUE]
                  ELSE [pc |-> "locking", peer |-> p, rate |-> r, now |-> clock]]
    /\ UNCHANGED <<clock, buckets, win>>

\* The mutex is held from the entry lookup to the verdict.
Locked(t) ==
    /\ call[t].pc = "locking"
    /\ LET p    == call[t].peer
           r    == call[t].rate
           now  == call[t].now
           b    == Entry(p, r, now)
           full == Refill(b, r, now)
           ok   == HasToken(full)
       IN /\ buckets' = [q \in DOMAIN buckets \cup {p} |->
                           IF q = p
                           THEN [tokens |-> IF ok THEN full - Sec ELSE full, last |-> now]
                           ELSE buckets[q]]
          /\ call' = [call EXCEPT ![t] = [pc |-> "idle", ok |-> ok]]
          /\ win' = [win EXCEPT ![p] = Counted(win[p], ok, r, now, b)]
    /\ UNCHANGED clock

\* History: somebody starts counting the admissions of p at the limits in R.
Observe(p, R) ==
    /\ win' = [win EXCEPT ![p] = [start |-> clock, of |-> R, count |-> 0, rewound |-> 0]]
    /\ UNCHANGED <<clock, buckets, call>>

Next ==
    \/ Tick
    \/ \E t \in Thread, p \in Peer, r \in Rate : Call(t, p, r)
    \/ \E t \in Thread : Locked(t)
    \/ \E p \in Peer, R \in SUBSET Rate : Observe(p, R)

Spec == Init /\ [][Next]_vars

----------------------------------------------------------------------------
(* Properties                                                              *)

\* In whatever window an observer counts, whichever limits the calls pass and
\* however the threads interleave, one peer is admitted at most MaxRate times
\* at once plus MaxRate times per second.  The only excess is the time that is
\* credited twice when a call overtaken on its way to the mutex sets `last` back.
WindowBound ==
    \A p \in Peer :
        win[p].count * Sec
            <= MaxRate * (Sec + (clock - win[p].start) + win[p].rewound)

AdmittedAfterIdle(t) ==
    /\ call[t].pc = "locking" /\ call'[t].pc = "idle"
    /\ \/ call[t].peer \notin DOMAIN buckets
       \/ call[t].now - buckets[call[t].peer].last >= Sec
    => call'[t].ok

\* No peer is locked out: a call whose bucket is new, or was last used a second
\* or more before the call read the clock, is admitted, whatever limit earlier
\* calls of the peer passed.
IdleSecondAdmits == [][\A t \in Thread : AdmittedAfterIdle(t)]_vars

\* ratelimit.rs:1-5 promises a strict limiter: a bucket that holds one second's
\* worth of tokens and is refilled continuously.  So in any window a peer is
\* admitted at most MaxRate times at once plus MaxRate times per second.
StrictRate ==
    \A p \in Peer :
        win[p].count * Sec <= MaxRate * (Sec + (clock - win[p].start))
============================================================================
