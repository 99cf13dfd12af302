------------------------------ MODULE WsTunnel ------------------------------
(***************************************************************************)
(* One WebSocket tunnel: Handler::handle_ws_stream, with its two tasks     *)
(* `client_to_up` (frames of the client into a bounded channel) and `pump` *)
(* (the channel into the upstream, the upstream's messages to the client), *)
(* and the session future that waits for either, aborts both and is capped *)
(* at 24 hours.                                                            *)
(*                                                                         *)
(* A frame is its kind and its number: Text and Binary are "data", Ping    *)
(* and Pong "ctl"; "end" stands for whatever read_from() makes no frame of *)
(* and nothing is read after: see WsFraming for the bytes.  The client     *)
(* and the upstream are the environment.  A task that is aborted stops at  *)
(* its next await, some time after abort() was called.                     *)
(***************************************************************************)
EXTENDS Integers, Sequences, SequencesExt

CONSTANTS Cap,        \* capacity of the mpsc channel (128)
          MaxClient,  \* bound on the frames the client sends
          MaxUp       \* bound on the messages the upstream sends

ASSUME CapAssumption == Cap \in Nat \ {0} /\ MaxClient \in Nat /\ MaxUp \in Nat

VARIABLES sess,       \* where handle_ws_stream is
          capped,     \* the 24h timeout dropped the session future
          c2u,        \* client_to_up: its state, and the frame it has in hand
          pump,       \* pump: its state, and the message it has in hand
          chan,       \* the channel between them
          inq,        \* client frames not yet read
          upq,        \* upstream messages not yet read
          clientGone, \* the client's connection is lost
          upGone,     \* the upstream's connection is lost
          upReads,    \* the upstream still reads what it is sent
          clReads,    \* the client still reads what it is sent
          sent,       \* history: number of frames from the client and from the upstream
          accepted,   \* history: client frames that passed the rate limit, in order
          upGot,      \* history: what the upstream has received
          clGot       \* history: what has been written to the client

task == <<c2u, pump, chan>>
env == <<clientGone, upGone, upReads, clReads>>
history == <<accepted, upGot, clGot>>
vars == <<sess, capped, task, inq, upq, env, sent, history>>

Kind == {"data", "ctl", "close", "end"}
NoFrame == [kind |-> "none", id |-> 0]
Frame == [kind: Kind \cup {"none", "ack", "refusal"}, id: Nat]

Stopped == {"none", "ended", "aborted"}

\* Tasks and messages keep their types; the channel never holds more than its capacity.
TypeOK ==
    /\ sess \in {"resolving", "connecting", "acking", "running", "over"}
    /\ capped \in BOOLEAN
    /\ c2u \in [pc: {"none", "reading", "sending", "ended", "aborted"}, msg: Frame]
    /\ pump \in [pc: {"none", "select", "sinking", "writing", "ended", "aborted"}, msg: Frame]
    /\ chan \in Seq(Frame) /\ Len(chan) <= Cap
    /\ inq \in Seq(Frame) /\ upq \in Seq(Frame)
    /\ {clientGone, upGone, upReads, clReads} \subseteq BOOLEAN
    /\ sent \in [client: Nat, up: Nat]
    /\ accepted \in Seq(Frame) /\ upGot \in Seq(Frame) /\ clGot \in Seq(Frame)

Init ==
    /\ sess = "resolving" /\ capped = FALSE
    /\ c2u = [pc |-> "none", msg |-> NoFrame]
    /\ pump = [pc |-> "none", msg |-> NoFrame]
    /\ chan = <<>> /\ inq = <<>> /\ upq = <<>>
    /\ clientGone = FALSE /\ upGone = FALSE /\ upReads = TRUE /\ clReads = TRUE
    /\ sent = [client |-> 0, up |-> 0]
    /\ accepted = <<>> /\ upGot = <<>> /\ clGot = <<>>

----------------------------------------------------------------------------
(* The environment                                                         *)

\* The stream carries nothing after its end.
ClientSends(k) ==
    /\ ~clientGone /\ sent.client < MaxClient
    /\ \A i \in DOMAIN inq : inq[i].kind # "end"
    /\ c2u.msg.kind # "end"
    /\ inq' = Append(inq, [kind |-> k, id |-> sent.client + 1])
    /\ sent' = [sent EXCEPT !.client = @ + 1]
    /\ UNCHANGED <<sess, capped, task, upq, env, history>>

ClientLost ==
    /\ ~clientGone /\ clientGone' = TRUE
    /\ UNCHANGED <<sess, capped, task, inq, upq, upGone, upReads, clReads, sent, history>>

\* The upstream is connected from the handshake until pump is gone.
UpConnected == sess = "acking" \/ pump.pc \notin Stopped

UpSends(k) ==
    /\ UpConnected
    /\ ~upGone /\ sent.up < MaxUp
    /\ \A i \in DOMAIN upq : upq[i].kind \notin {"close", "end"}
    /\ pump.msg.kind \notin {"close", "end"}
    /\ upq' = Append(upq, [kind |-> k, id |-> sent.up + 1])
    /\ sent' = [sent EXCEPT !.up = @ + 1]
    /\ UNCHANGED <<sess, capped, task, inq, env, history>>

UpLost ==
    /\ UpConnected
    /\ ~upGone /\ upGone' = TRUE
    /\ UNCHANGED <<sess, capped, task, inq, upq, clientGone, upReads, clReads, sent, history>>

\* The upstream stops reading for good, its connection stays up.
UpStalls ==
    /\ UpConnected
    /\ upReads /\ upReads' = FALSE
    /\ UNCHANGED <<sess, capped, task, inq, upq, clientGone, upGone, clReads, sent, history>>

\* So may the client: the stream's flow-control window then fills up.
ClientStalls ==
    /\ clReads /\ clReads' = FALSE
    /\ UNCHANGED <<sess, capped, task, inq, upq, clientGone, upGone, upReads, sent, history>>

----------------------------------------------------------------------------
(* handle_ws_stream up to the ACK                                          *)

\* local_ws_url is not set, or the upstream cannot be connected: Close 1011.
Refuse ==
    /\ sess \in {"resolving", "connecting"}
    /\ sess' = "over"
    /\ clGot' = IF clientGone THEN clGot ELSE Append(clGot, [kind |-> "refusal", id |-> 0])
    /\ UNCHANGED <<capped, task, inq, upq, env, sent, accepted, upGot>>

\* ws_url_for() gives the URL; the request gets the headers that may be forwarded.
\* A URL that is no URL ends the handler with an error.
Resolve(valid) ==
    /\ sess = "resolving"
    /\ sess' = IF valid THEN "connecting" ELSE "over"
    /\ UNCHANGED <<capped, task, inq, upq, env, sent, history>>

\* connect_async() succeeds within 10 s.
Connect ==
    /\ sess = "connecting"
    /\ sess' = "acking"
    /\ UNCHANGED <<capped, task, inq, upq, env, sent, history>>

\* The ACK is written and both tasks are spawned; if it cannot be written the
\* handler returns the error.
Ack ==
    /\ sess = "acking"
    /\ IF clientGone
       THEN sess' = "over" /\ UNCHANGED <<c2u, pump, clGot>>
       ELSE /\ sess' = "running"
            /\ clGot' = Append(clGot, [kind |-> "ack", id |-> 0])
            /\ c2u' = [pc |-> "reading", msg |-> NoFrame]
            /\ pump' = [pc |-> "select", msg |-> NoFrame]
    /\ UNCHANGED <<capped, chan, inq, upq, env, sent, accepted, upGot>>

----------------------------------------------------------------------------
(* client_to_up                                                            *)

\* WsFrame::read_from() gives no frame: the stream has ended, or what came is longer
\* than MAX_WS_FRAME, of an unknown kind or not UTF-8.
NoFrameRead(f) == f.kind = "end"

C2uEnds(f) == c2u' = [pc |-> "ended", msg |-> f]

\* WsFrame::read_from() returns the next frame and it is let through.
ReadFrame ==
    /\ c2u.pc = "reading" /\ inq # <<>>
    /\ inq' = Tail(inq)
    /\ LET f == Head(inq) IN
         IF NoFrameRead(f)
         THEN C2uEnds(f) /\ UNCHANGED accepted
         ELSE c2u' = [pc |-> "sending", msg |-> f] /\ accepted' = Append(accepted, f)
    /\ UNCHANGED <<sess, capped, pump, chan, upq, env, sent, upGot, clGot>>

\* limiter.allow() refuses a data frame, which is dropped without a word.
DropFrame ==
    /\ c2u.pc = "reading" /\ inq # <<>>
    /\ Head(inq).kind = "data"
    /\ inq' = Tail(inq)
    /\ UNCHANGED <<sess, capped, task, upq, env, sent, history>>

\* The connection is lost: what has arrived may have been read before.
ReadFails ==
    /\ c2u.pc = "reading" /\ clientGone
    /\ C2uEnds([kind |-> "end", id |-> 0])
    /\ UNCHANGED <<sess, capped, pump, chan, inq, upq, env, sent, history>>

MutDropWhenFull ==
    /\ c2u.pc = "sending" /\ pump.pc \notin Stopped
    /\ c2u' = [pc |-> IF c2u.msg.kind = "close" THEN "ended" ELSE "reading", msg |-> NoFrame]
    /\ chan' = IF Len(chan) < Cap THEN Append(chan, c2u.msg) ELSE chan
    /\ UNCHANGED <<sess, capped, pump, inq, upq, env, sent, history>>

MutOverwrite ==
    /\ c2u.pc = "sending" /\ pump.pc \notin Stopped
    /\ chan' = <<c2u.msg>>
    /\ c2u' = [pc |-> IF c2u.msg.kind = "close" THEN "ended" ELSE "reading", msg |-> NoFrame]
    /\ UNCHANGED <<sess, capped, pump, inq, upq, env, sent, history>>

MutReadOn ==
    /\ c2u.pc = "sending" /\ pump.pc \notin Stopped /\ Len(chan) < Cap
    /\ chan' = Append(chan, c2u.msg)
    /\ c2u' = [pc |-> "reading", msg |-> NoFrame]
    /\ UNCHANGED <<sess, capped, pump, inq, upq, env, sent, history>>

MutOverfill ==
    /\ c2u.pc = "sending" /\ pump.pc \notin Stopped /\ Len(chan) <= Cap
    /\ chan' = Append(chan, c2u.msg)
    /\ c2u' = [pc |-> IF c2u.msg.kind = "close" THEN "ended" ELSE "reading", msg |-> NoFrame]
    /\ UNCHANGED <<sess, capped, pump, inq, upq, env, sent, history>>

\* up_tx.send() finds room in the channel.  After a Close, whose code is data here,
\* the loop ends.
SendDone ==
    /\ c2u.pc = "sending" /\ pump.pc \notin Stopped /\ Len(chan) < Cap
    /\ chan' = Append(chan, c2u.msg)
    /\ c2u' = [pc |-> IF c2u.msg.kind = "close" THEN "ended" ELSE "reading", msg |-> NoFrame]
    /\ UNCHANGED <<sess, capped, pump, inq, upq, env, sent, history>>

\* The receiver is gone: Ping and Pong ignore the error, the rest end the loop.
SendFails ==
    /\ c2u.pc = "sending" /\ pump.pc \in Stopped
    /\ c2u' = [c2u EXCEPT !.pc = IF c2u.msg.kind = "ctl" THEN "reading" ELSE "ended"]
    /\ UNCHANGED <<sess, capped, pump, chan, inq, upq, env, sent, history>>

MutNoTimeout == FALSE /\ UNCHANGED vars

\* The 5 s timeout around the send of a Text or Binary frame.
SendTimeout ==
    /\ c2u.pc = "sending" /\ c2u.msg.kind = "data"
    /\ pump.pc \notin Stopped /\ Len(chan) = Cap
    /\ C2uEnds(c2u.msg)
    /\ UNCHANGED <<sess, capped, pump, chan, inq, upq, env, sent, history>>

----------------------------------------------------------------------------
(* pump: select! over the upstream's messages and the channel              *)

\* up_rx.recv()
PumpTake ==
    /\ pump.pc = "select" /\ chan # <<>>
    /\ pump' = [pc |-> "sinking", msg |-> Head(chan)]
    /\ chan' = Tail(chan)
    /\ UNCHANGED <<sess, capped, c2u, inq, upq, env, sent, history>>

\* ws_sink.send() returns: the upstream takes the message, or is gone.
Sink ==
    /\ pump.pc = "sinking"
    /\ \/ /\ ~upGone /\ upReads
          /\ upGot' = Append(upGot, pump.msg)
          /\ pump' = [pc |-> "select", msg |-> NoFrame]
       \/ /\ upGone
          /\ pump' = [pump EXCEPT !.pc = "ended"]
          /\ UNCHANGED upGot
    /\ UNCHANGED <<sess, capped, c2u, chan, inq, upq, env, sent, accepted, clGot>>

MutSelectDrops ==
    /\ pump.pc = "select" /\ upq # <<>>
    /\ upq' = Tail(upq)
    /\ pump' = IF chan # <<>> THEN pump
               ELSE [pc |-> IF Head(upq).kind = "end" THEN "ended" ELSE "writing",
                     msg |-> Head(upq)]
    /\ UNCHANGED <<sess, capped, c2u, chan, inq, env, sent, history>>

\* ws_recv.next(): a message to write, or the end (an error, None).
PumpRead ==
    /\ pump.pc = "select" /\ upq # <<>>
    /\ upq' = Tail(upq)
    /\ pump' = [pc |-> IF Head(upq).kind = "end" THEN "ended" ELSE "writing", msg |-> Head(upq)]
    /\ UNCHANGED <<sess, capped, c2u, chan, inq, env, sent, history>>

PumpReadFails ==
    /\ pump.pc = "select" /\ upGone
    /\ pump' = [pc |-> "ended", msg |-> [kind |-> "end", id |-> 0]]
    /\ UNCHANGED <<sess, capped, c2u, chan, inq, upq, env, sent, history>>

\* send.write_all(): a failed Ping or Pong is ignored, a failed Text or Binary and
\* any Close end the loop.
Write ==
    /\ pump.pc = "writing" /\ (clReads \/ clientGone)
    /\ IF clientGone THEN UNCHANGED clGot ELSE clGot' = Append(clGot, pump.msg)
    /\ pump' = IF pump.msg.kind = "close" \/ (clientGone /\ pump.msg.kind = "data")
               THEN [pump EXCEPT !.pc = "ended"]
               ELSE [pc |-> "select", msg |-> NoFrame]
    /\ UNCHANGED <<sess, capped, c2u, chan, inq, upq, env, sent, accepted, upGot>>

----------------------------------------------------------------------------
(* The session future and its timeout                                      *)

MutSessionWaitsBoth ==
    /\ sess = "running" /\ c2u.pc = "ended" /\ pump.pc = "ended"
    /\ sess' = "over"
    /\ UNCHANGED <<capped, task, inq, upq, env, sent, history>>

\* select! sees that one task has ended; abort() is called on both.
SessionEnds ==
    /\ sess = "running" /\ (c2u.pc = "ended" \/ pump.pc = "ended")
    /\ sess' = "over"
    /\ UNCHANGED <<capped, task, inq, upq, env, sent, history>>

\* After 24 hours the session future is dropped.  That drops the JoinHandles,
\* which leaves the tasks running.
HardCap ==
    /\ sess = "running" /\ c2u.pc # "ended" /\ pump.pc # "ended"
    /\ sess' = "over" /\ capped' = TRUE
    /\ UNCHANGED <<task, inq, upq, env, sent, history>>

\* An aborted task is dropped at its next await.
AbortC2u ==
    /\ sess = "over" /\ ~capped /\ c2u.pc \notin Stopped
    /\ c2u' = [c2u EXCEPT !.pc = "aborted"]
    /\ UNCHANGED <<sess, capped, pump, chan, inq, upq, env, sent, history>>

MutAbortC2uOnly == FALSE /\ UNCHANGED vars

AbortPump ==
    /\ sess = "over" /\ ~capped /\ pump.pc \notin Stopped
    /\ pump' = [pump EXCEPT !.pc = "aborted"]
    /\ UNCHANGED <<sess, capped, c2u, chan, inq, upq, env, sent, history>>

C2uStep == ReadFrame \/ DropFrame \/ ReadFails \/ SendDone \/ SendFails \/ SendTimeout

PumpStep == PumpTake \/ Sink \/ PumpRead \/ PumpReadFails \/ Write

Next ==
    \/ \E k \in Kind : ClientSends(k)
    \/ ClientLost
    \/ \E k \in Kind : UpSends(k)
    \/ UpLost
    \/ UpStalls
    \/ ClientStalls
    \/ Refuse
    \/ \E valid \in BOOLEAN : Resolve(valid)
    \/ Connect
    \/ Ack
    \/ C2uStep
    \/ PumpStep
    \/ SessionEnds
    \/ HardCap
    \/ AbortC2u
    \/ AbortPump

Spec == Init /\ [][Next]_vars

(***************************************************************************)
(* Fairness: the handler and its two tasks run, and an aborted task is     *)
(* dropped.  connect_async() is cut off after 10 s (Refuse) and the send   *)
(* of a data frame after 5 s (SendTimeout).  A side that reads takes what  *)
(* it is sent.  select! polls its branches in random order; the frames     *)
(* being finitely many, it is enough that pump runs.  Nothing is assumed   *)
(* of what the two sides send, when they end or stall, or of the 24 h cap, *)
(* so that no session ends below only because of the cap.                  *)
(***************************************************************************)
FairSpec ==
    /\ Spec
    /\ WF_vars(Refuse \/ Ack \/ SessionEnds)
    /\ WF_vars(C2uStep) /\ WF_vars(PumpStep)
    /\ WF_vars(AbortC2u) /\ WF_vars(AbortPump)

----------------------------------------------------------------------------
(* Safety                                                                  *)

Carried == {"data", "ctl", "close"}

\* The client message a task has taken and not yet handed on.
C2uHolds == IF c2u.msg.kind \in Carried THEN <<c2u.msg>> ELSE <<>>
PumpHolds == IF pump.pc = "sinking" THEN <<pump.msg>> ELSE <<>>

\* The two tasks and the channel lose, repeat and reorder nothing: while pump runs,
\* every client frame that passed the limiter is delivered, in pump's hands, queued
\* or in client_to_up's hands, in the order it was read.  What the upstream has
\* received is a prefix of it also after the tasks were aborted at any point.
FifoToUpstream ==
    /\ pump.pc \notin Stopped => upGot \o PumpHolds \o chan \o C2uHolds = accepted
    /\ IsPrefix(upGot, accepted)

\* Seen from outside, handshake, tasks, channel, timeouts and aborts are a pipe from
\* the limiter to the upstream: it may break off but never skips or alters a frame.
ToUpstream == INSTANCE Pipe WITH offered <- accepted, delivered <- upGot
TunnelIsPipe == ToUpstream!Spec

\* What the client sees of a tunnel: nothing, one refusal (Close 1011) with nothing
\* after it, or the ACK first and then exactly the upstream's messages in their order.
ClientView ==
    \/ clGot \in {<<>>, <<[kind |-> "refusal", id |-> 0]>>}
    \/ /\ clGot[1].kind = "ack"
       /\ \A i \in 2..Len(clGot) : clGot[i].kind \in Carried /\ clGot[i].id = i - 1

\* A Close is final in both directions: client_to_up reads no frame after the one it
\* forwards, and pump writes nothing after the upstream's.
CloseIsFinal ==
    \A s \in {accepted, clGot} : \A i \in DOMAIN s : s[i].kind = "close" => i = Len(s)

----------------------------------------------------------------------------
(* Liveness                                                                *)

TasksStopped == c2u.pc \in Stopped /\ pump.pc \in Stopped

\* Once either connection is lost the tunnel ends, from any point of the handshake or
\* of the session, unless a side that is still connected has stopped reading.
LostSideEndsSession == (clientGone \/ upGone) ~> (sess = "over" \/ ~upReads \/ ~clReads)

\* A session that ends because one task has ended leaves no task behind.
SessionStopsTasks == (sess = "over" /\ ~capped) ~> TasksStopped

\* A data frame is never stuck in client_to_up, even if neither side reads: the 5 s
\* timeout ends the task.
DataSendBounded == (c2u.pc = "sending" /\ c2u.msg.kind = "data") ~> (c2u.pc # "sending")

----------------------------------------------------------------------------
(* What the comments and the changelog say                                 *)

\* "Hard-cap 24h for the whole session": the tunnel is gone after the cap.
HardCapStopsTasks == capped ~> TasksStopped

\* "send with a 5s timeout: if the dApp or the upstream does not read, we tear the
\* session down (slow_consumer_disconnect)", for frames of every kind.
SlowConsumerDisconnected == (c2u.pc = "sending") ~> (c2u.pc # "sending")

\* A Close of the client is sanitised for the upstream so that it sees a normal
\* closure: it reaches an upstream that is there and reads.
CloseReachesUpstream ==
    (/\ sess = "over" /\ ~capped /\ TasksStopped
     /\ ~clientGone /\ ~upGone /\ upReads /\ clReads
     /\ sent.up = 0
     /\ \E i \in DOMAIN accepted : accepted[i].kind = "close")
    => (\E i \in DOMAIN upGot : upGot[i].kind = "close")
============================================================================
