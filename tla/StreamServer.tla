---------------------------- MODULE StreamServer ----------------------------
(***************************************************************************)
(* The api:// server: ApiProtocol::accept, which takes the bi-streams of   *)
(* one QUIC connection and caps them with a semaphore, Handler::           *)
(* handle_stream, which every stream runs in a task of its own, and the    *)
(* request counters of Stats.                                              *)
(*                                                                         *)
(* What a packet asks for, the verdict of the rate limiter, the peers and  *)
(* the upstream are choices here: RateLimiter, MeshRelay and WsTunnel      *)
(* model them.  A stream's task is in one phase, `pc`.  Each counter is an *)
(* atomic of its own, so a step updates one of them.                       *)
(***************************************************************************)
EXTENDS Integers, FiniteSets

CONSTANTS Conn,        \* incoming QUIC connections
          Stream,      \* the bi-streams clients open on them
          MaxStreams,  \* MAX_CONCURRENT_STREAMS_PER_CONN
          NoConn       \* the connection of a stream not yet opened

ASSUME FiniteAssumption == IsFiniteSet(Conn) /\ IsFiniteSet(Stream)
ASSUME MaxStreamsAssumption == MaxStreams \in Nat \ {0}
ASSUME NoConnAssumption == NoConn \notin Conn

VARIABLES conn,      \* QUIC state of each connection
          v1,        \* connections that negotiated ALPN /1
          permits,   \* permits left in each connection's semaphore
          pc,        \* phase of each stream's task
          of,        \* connection of each stream
          total, proxied, relayed, rejected, active   \* Stats

vars == <<conn, v1, permits, pc, of, total, proxied, relayed, rejected, active>>
counters == <<total, proxied, relayed, rejected, active>>

\* A task that holds a permit, and one whose stream is still being served.
Holding == {"reading", "counted", "rejecting", "executing", "relaying", "writing", "tunnel"}
Serving == Holding \cup {"detached"}
Phase == Serving \cup {"idle", "queued", "done"}

\* Counters and phases keep their types; a semaphore never hands out more permits than
\* it has.
TypeOK ==
    /\ conn \in [Conn -> {"none", "open", "lost", "ended"}]
    /\ v1 \subseteq Conn
    /\ permits \in [Conn -> 0..MaxStreams]
    /\ pc \in [Stream -> Phase]
    /\ of \in [Stream -> Conn \cup {NoConn}]
    /\ \A s \in Stream : of[s] = NoConn <=> pc[s] = "idle"
    /\ total \in Nat /\ proxied \in Nat /\ relayed \in Nat /\ rejected \in Nat
    /\ active \in Nat

\* The streams of connection c whose tasks are in one of the phases P.
StreamsIn(c, P) == {s \in Stream : of[s] = c /\ pc[s] \in P}

Move(s, from, to) == pc[s] = from /\ pc' = [pc EXCEPT ![s] = to]

\* The OwnedSemaphorePermit of stream s is dropped when handle_stream returns.
Release(s) == permits' = [permits EXCEPT ![of[s]] = @ + 1]

Init ==
    /\ conn = [c \in Conn |-> "none"]
    /\ v1 = {}
    /\ permits = [c \in Conn |-> MaxStreams]
    /\ pc = [s \in Stream |-> "idle"]
    /\ of = [s \in Stream |-> NoConn]
    /\ total = 0 /\ proxied = 0 /\ relayed = 0 /\ rejected = 0 /\ active = 0

----------------------------------------------------------------------------
(* ApiProtocol::accept                                                     *)

\* The Router calls accept() on ALPN /0 or /1; the guard counts the connection.
Accept(c, isV1) ==
    /\ conn[c] = "none"
    /\ conn' = [conn EXCEPT ![c] = "open"]
    /\ v1' = IF isV1 THEN v1 \cup {c} ELSE v1
    /\ active' = active + 1
    /\ UNCHANGED <<permits, pc, of, total, proxied, relayed, rejected>>

\* accept_bi() returns a stream: a task is spawned, whatever the semaphore says.
OpenBi(c, s) ==
    /\ conn[c] = "open"
    /\ Move(s, "idle", "queued")
    /\ of' = [of EXCEPT ![s] = c]
    /\ UNCHANGED <<conn, v1, permits, counters>>

MutAcquireAlways(s) ==
    /\ Move(s, "queued", "reading")
    /\ permits' = [permits EXCEPT ![of[s]] = @ - 1]
    /\ UNCHANGED <<conn, v1, of, counters>>

\* sem.acquire_owned().await
Acquire(s) ==
    /\ Move(s, "queued", "reading")
    /\ permits[of[s]] > 0
    /\ permits' = [permits EXCEPT ![of[s]] = @ - 1]
    /\ UNCHANGED <<conn, v1, of, counters>>

\* The connection closes, times out or is reset.  Its stream tasks go on.
LoseConn(c) ==
    /\ conn[c] = "open"
    /\ conn' = [conn EXCEPT ![c] = "lost"]
    /\ UNCHANGED <<v1, permits, pc, of, counters>>

\* accept_bi() returns the error, the loop breaks and ConnGuard is dropped.
AcceptEnds(c) ==
    /\ conn[c] = "lost"
    /\ conn' = [conn EXCEPT ![c] = "ended"]
    /\ active' = active - 1
    /\ UNCHANGED <<v1, permits, pc, of, total, proxied, relayed, rejected>>

----------------------------------------------------------------------------
(* Handler::handle_stream                                                  *)

\* The request is read whole and parsed.  What arrived before the connection
\* was lost can still be read.
ReadOk(s) ==
    /\ Move(s, "reading", "counted")
    /\ total' = total + 1
    /\ UNCHANGED <<conn, v1, permits, of, proxied, relayed, rejected, active>>

MutReadErrLeaks(s) ==
    /\ Move(s, "reading", "done")
    /\ UNCHANGED <<conn, v1, permits, of, counters>>

\* The stream is reset or ends early, the length is out of range, or the JSON
\* does not parse.
ReadErr(s) ==
    /\ Move(s, "reading", "done")
    /\ Release(s)
    /\ UNCHANGED <<conn, v1, of, counters>>

\* limiter.allow() refuses: the signed 429 is still to be written.
Reject(s) ==
    /\ Move(s, "counted", "rejecting")
    /\ rejected' = rejected + 1
    /\ UNCHANGED <<conn, v1, permits, of, total, proxied, relayed, active>>

MutTunnelUncounted(s) ==
    /\ of[s] \in v1
    /\ Move(s, "counted", "tunnel")
    /\ UNCHANGED <<conn, v1, permits, of, counters>>

\* v1, method WS, a target served here.
StartTunnel(s) ==
    /\ of[s] \in v1
    /\ Move(s, "counted", "tunnel")
    /\ proxied' = proxied + 1
    /\ UNCHANGED <<conn, v1, permits, of, total, relayed, rejected, active>>

\* A target served here.
StartExecute(s) ==
    /\ Move(s, "counted", "executing")
    /\ proxied' = proxied + 1
    /\ UNCHANGED <<conn, v1, permits, of, total, relayed, rejected, active>>

\* Any other target.
StartRelay(s) ==
    /\ Move(s, "counted", "relaying")
    /\ relayed' = relayed + 1
    /\ UNCHANGED <<conn, v1, permits, of, total, proxied, rejected, active>>

\* execute() always answers (502 if the upstream does not); relay() may.
Answer(s) ==
    /\ Move(s, "executing", "writing") \/ Move(s, "relaying", "writing")
    /\ UNCHANGED <<conn, v1, permits, of, counters>>

\* relay() fails: no TTL, no peers, or none of them answers.
RelayErr(s) ==
    /\ Move(s, "relaying", "done")
    /\ Release(s)
    /\ UNCHANGED <<conn, v1, of, counters>>

\* write_response() returns, written or failed.
WriteEnds(s) ==
    /\ Move(s, "rejecting", "done") \/ Move(s, "writing", "done")
    /\ Release(s)
    /\ UNCHANGED <<conn, v1, of, counters>>

\* handle_ws_stream() returns: refused, or one side is finished and the other
\* task has been aborted.
TunnelEnds(s) ==
    /\ Move(s, "tunnel", "done")
    /\ Release(s)
    /\ UNCHANGED <<conn, v1, of, counters>>

MutNoHardCap(s) == FALSE /\ UNCHANGED vars

\* The 24h timeout drops the session future and with it the JoinHandles of the
\* two tunnel tasks, which detaches and does not abort them.
HardCap(s) ==
    /\ Move(s, "tunnel", "detached")
    /\ Release(s)
    /\ UNCHANGED <<conn, v1, of, counters>>

\* Both detached tasks have ended by themselves.
DetachedEnds(s) ==
    /\ Move(s, "detached", "done")
    /\ UNCHANGED <<conn, v1, permits, of, counters>>

StreamStep(s) ==
    \/ Acquire(s)
    \/ ReadOk(s)
    \/ ReadErr(s)
    \/ Reject(s)
    \/ StartTunnel(s)
    \/ StartExecute(s)
    \/ StartRelay(s)
    \/ Answer(s)
    \/ RelayErr(s)
    \/ WriteEnds(s)
    \/ TunnelEnds(s)
    \/ HardCap(s)
    \/ DetachedEnds(s)

Next ==
    \/ \E c \in Conn, isV1 \in BOOLEAN : Accept(c, isV1)
    \/ \E c \in Conn, s \in Stream : OpenBi(c, s)
    \/ \E c \in Conn : LoseConn(c)
    \/ \E c \in Conn : AcceptEnds(c)
    \/ \E s \in Stream : StreamStep(s)

Spec == Init /\ [][Next]_vars

----------------------------------------------------------------------------
(* Fairness: only what the server and its timeouts guarantee.  A client may *)
(* stay silent or stop reading for ever on a live connection, so reads and *)
(* writes are fair only once the connection is lost, when they fail.  An   *)
(* upstream that stops reading can keep a tunnel busy, so TunnelEnds and   *)
(* DetachedEnds are not fair; the 24h timer is.  execute() has a 5 s       *)
(* timeout.  relay() has none of its own: that it ends is what MeshRelay   *)
(* shows (Resolved), for peers that run this code.  The tokio semaphore    *)
(* serves its waiters in FIFO order: strong fairness of Acquire.           *)

ConnDown(s) == of[s] \in Conn /\ conn[of[s]] \in {"lost", "ended"}

Fairness ==
    /\ \A c \in Conn : WF_vars(AcceptEnds(c))
    /\ \A s \in Stream :
        /\ SF_vars(Acquire(s))
        /\ WF_vars(ConnDown(s) /\ (ReadOk(s) \/ ReadErr(s)))
        /\ WF_vars(Reject(s) \/ StartTunnel(s) \/ StartExecute(s) \/ StartRelay(s))
        /\ WF_vars(Answer(s) \/ RelayErr(s))
        /\ WF_vars(ConnDown(s) /\ WriteEnds(s))
        /\ WF_vars(HardCap(s))

FairSpec == Spec /\ Fairness

----------------------------------------------------------------------------
(* Properties                                                              *)

\* No path through handle_stream, early return or error, loses or duplicates a
\* permit of its connection's semaphore, whether or not the connection is alive.
PermitsConserved ==
    \A c \in Conn : permits[c] + Cardinality(StreamsIn(c, Holding)) = MaxStreams

\* Every counted request is counted again exactly once, as proxied, relayed or
\* rejected, except the ones whose verdict is still to come, and these are never
\* more than the semaphores of the connections let through.
RequestsAccounted ==
    LET undecided == {s \in Stream : pc[s] = "counted"}
    IN  /\ total = proxied + relayed + rejected + Cardinality(undecided)
        /\ \A c \in Conn : Cardinality(StreamsIn(c, {"counted"})) <= MaxStreams

\* Whatever the connections and their streams do, a reader of the counters sees a
\* ledger: one count per request read, one verdict per count, in that order, and no
\* more requests without a verdict than the semaphores of all connections let through.
Ledger == INSTANCE RequestLedger WITH
            undecided <- Cardinality({s \in Stream : pc[s] = "counted"}),
            MaxUndecided <- MaxStreams * Cardinality(Conn)
CountersAreLedger == Ledger!Spec

\* Once a connection is lost, every stream of it, also the ones still queued at
\* the semaphore, is let through and given up by its handler: no permit and no
\* waiting task is left behind.
LostConnDrains ==
    \A c \in Conn :
        conn[c] = "lost" ~> \A s \in Stream : of[s] = c => pc[s] \in {"done", "detached"}
============================================================================
