--------------------------- MODULE WsTunnelProofs ---------------------------
(***************************************************************************)
(* The safety of the WebSocket tunnel, for every capacity of the channel,  *)
(* every number of frames and every point at which a task is aborted, a    *)
(* connection is lost or a side stops reading.                             *)
(***************************************************************************)
EXTENDS WsTunnel, SequenceTheorems, TLAPS

Before == {"resolving", "connecting", "acking"}
Refusal == <<[kind |-> "refusal", id |-> 0]>>

NoClose(s) == \A i \in DOMAIN s : s[i].kind # "close"

\* The tasks exist from the ACK on, and only then does anything move through them.
PhaseInv ==
    /\ sess \in Before => pump.pc = "none" /\ clGot = <<>> /\ sent.up = Len(upq)
    /\ pump.pc = "none" <=> c2u.pc = "none"
    /\ pump.pc = "none" => /\ chan = <<>> /\ upGot = <<>> /\ accepted = <<>>
                           /\ clGot \in {<<>>, Refusal}

\* client_to_up has a frame in hand exactly while it sends it, as long as there is a
\* pump to send it to, and it reads on only if it has forwarded no Close.
C2uInv ==
    /\ \A i \in DOMAIN inq : inq[i].kind \in Kind
    /\ c2u.pc = "sending" => c2u.msg.kind \in Carried
    /\ c2u.pc = "reading" /\ pump.pc \notin Stopped => c2u.msg.kind \notin Carried
    /\ \/ NoClose(accepted)
       \/ c2u.pc \in {"ended", "aborted"}
       \/ c2u.pc = "sending" /\ c2u.msg.kind = "close"

\* The messages of the upstream are numbered as they were sent; a client that is still
\* there has been written all of them that are no longer queued, after the ACK.
UpInv ==
    /\ Len(upq) <= sent.up
    /\ \A i \in DOMAIN upq : upq[i].kind \in Kind /\ upq[i].id = sent.up - Len(upq) + i
    /\ pump.pc = "writing" => pump.msg.kind \in Carried /\ pump.msg.id = sent.up - Len(upq)
    /\ pump.pc \notin Stopped /\ ~clientGone =>
         Len(clGot) = sent.up - Len(upq) + IF pump.pc = "writing" THEN 0 ELSE 1

\* Once the tasks run the client has the ACK, and pump goes on only if it has written no
\* Close.
ViewInv ==
    /\ pump.pc # "none" =>
         /\ Len(clGot) >= 1 /\ clGot[1].kind = "ack"
         /\ \A i \in 2..Len(clGot) : clGot[i].kind \in Carried /\ clGot[i].id = i - 1
    /\ pump.pc \notin {"ended", "aborted"} => NoClose(clGot)

IInv == TypeOK /\ PhaseInv /\ C2uInv /\ UpInv /\ ViewInv /\ FifoToUpstream /\ CloseIsFinal

-----------------------------------------------------------------------------
(* Sequences                                                                *)

\* A sequence is its head and its tail.
LEMMA HeadTailConcat ==
    ASSUME NEW S, NEW s \in Seq(S), s # <<>>
    PROVE  s = <<Head(s)>> \o Tail(s)
  <1>1. Head(s) \in S /\ Tail(s) \in Seq(S) /\ Len(Tail(s)) = Len(s) - 1
        /\ \A i \in 1..Len(Tail(s)) : Tail(s)[i] = s[i + 1]
    BY HeadTailProperties
  <1>2. Len(s) \in Nat /\ Len(s) > 0 /\ Head(s) = s[1]
    BY LenProperties, EmptySeq
  <1>3. <<Head(s)>> \in Seq(S) /\ Len(<<Head(s)>>) = 1 /\ <<Head(s)>>[1] = Head(s)
    BY <1>1
  <1> DEFINE h == <<Head(s)>>
             t == Tail(s)
  <1>4. /\ h \o t \in Seq(S) /\ Len(h \o t) = Len(h) + Len(t)
        /\ \A i \in 1..(Len(h) + Len(t)) :
              (h \o t)[i] = IF i <= Len(h) THEN h[i] ELSE t[i - Len(h)]
    BY <1>1, <1>3, ConcatProperties
  <1> HIDE DEF h, t
  <1>5. Len(h \o t) = Len(s)
    BY <1>1, <1>2, <1>3, <1>4 DEF h, t
  <1>6. \A i \in 1..Len(s) : s[i] = (h \o t)[i]
    BY <1>1, <1>2, <1>3, <1>4, <1>5 DEF h, t
  <1>7. s = h \o t
    BY <1>4, <1>5, <1>6, SeqEqual
  <1> QED BY <1>7 DEF h, t

\* How the line of frames to the upstream changes hands: a frame is taken from the channel,
\* delivered, sent into the channel, or read.
LEMMA LineFacts ==
    ASSUME NEW S, NEW a \in Seq(S), NEW b \in Seq(S), NEW c \in Seq(S), NEW e \in S
    PROVE  /\ c # <<>> => (a \o <<>>) \o c = (a \o <<Head(c)>>) \o Tail(c)
           /\ a \o <<e>> = Append(a, e) \o <<>>
           /\ (a \o b) \o Append(c, e) = ((a \o b) \o c) \o <<e>>
           /\ Append(a \o <<>>, e) = a \o <<e>>
           /\ a \o <<>> = a
  <1>1. <<e>> \in Seq(S) /\ Append(a, e) \in Seq(S) /\ a \o b \in Seq(S)
    BY AppendProperties, ConcatProperties
  <1>2. a \o <<>> = a /\ Append(a, e) \o <<>> = Append(a, e) /\ Append(a, e) = a \o <<e>>
    BY <1>1, ConcatEmptySeq, AppendIsConcat
  <1>3. Append(c, e) = c \o <<e>>
    BY AppendIsConcat
  <1>4. ((a \o b) \o c) \o <<e>> = (a \o b) \o (c \o <<e>>)
    BY <1>1, ConcatAssociative
  <1>5. ASSUME c # <<>> PROVE a \o c = (a \o <<Head(c)>>) \o Tail(c)
    <2>1. Head(c) \in S /\ Tail(c) \in Seq(S) /\ <<Head(c)>> \in Seq(S)
      BY <1>5, HeadTailProperties
    <2>2. (a \o <<Head(c)>>) \o Tail(c) = a \o (<<Head(c)>> \o Tail(c))
      BY <2>1, ConcatAssociative
    <2>3. c = <<Head(c)>> \o Tail(c)
      BY <1>5, HeadTailConcat
    <2> QED BY <2>2, <2>3, Zenon
  <1>6. (a \o b) \o Append(c, e) = ((a \o b) \o c) \o <<e>>
    BY <1>3, <1>4, Zenon
  <1>7. Append(a \o <<>>, e) = a \o <<e>>
    BY <1>2, Zenon
  <1>8. a \o <<e>> = Append(a, e) \o <<>>
    BY <1>2, Zenon
  <1>9. c # <<>> => (a \o <<>>) \o c = (a \o <<Head(c)>>) \o Tail(c)
    BY <1>2, <1>5, Zenon
  <1> QED BY <1>2, <1>6, <1>7, <1>8, <1>9, Zenon

\* The first part of a sequence is a prefix of it.
LEMMA PrefixConcat ==
    ASSUME NEW S, NEW s \in Seq(S), NEW t \in Seq(S)
    PROVE  IsPrefix(s, s \o t)
  BY ConcatProperties, SubSeqProperties DEF IsPrefix

\* A prefix stays one when the sequence grows.
LEMMA PrefixAppend ==
    ASSUME NEW S, NEW s \in Seq(S), NEW t \in Seq(S), NEW e \in S, IsPrefix(s, t)
    PROVE  IsPrefix(s, Append(t, e))
  <1>1. /\ Append(t, e) \in Seq(S) /\ Len(Append(t, e)) = Len(t) + 1
        /\ \A i \in 1..Len(t) : Append(t, e)[i] = t[i]
    BY AppendProperties
  <1>2. Len(s) <= Len(t) /\ SubSeq(s, 1, Len(s)) = SubSeq(t, 1, Len(s)) /\ Len(s) \in Nat /\ Len(t) \in Nat
    BY LenProperties DEF IsPrefix
  <1>3. SubSeq(Append(t, e), 1, Len(s)) = SubSeq(t, 1, Len(s))
    BY <1>1, <1>2
  <1> QED BY <1>1, <1>2, <1>3 DEF IsPrefix

-----------------------------------------------------------------------------
(* The environment                                                          *)

\* Nothing has been sent and no task runs.
LEMMA InitInv == Init => IInv
  <1> SUFFICES ASSUME Init PROVE IInv
    OBVIOUS
  <1>1. <<>> \in Seq(Frame) /\ Len(<<>>) = 0 /\ NoFrame \in Frame
    BY DEF NoFrame, Frame
  <1>2. TypeOK
    <2>1. {clientGone, upGone, upReads, clReads} \subseteq BOOLEAN /\ capped \in BOOLEAN
      BY Zenon DEF Init
    <2>2. sent \in [client: Nat, up: Nat]
      BY DEF Init
    <2>3. /\ c2u \in [pc: {"none", "reading", "sending", "ended", "aborted"}, msg: Frame]
          /\ pump \in [pc: {"none", "select", "sinking", "writing", "ended", "aborted"}, msg: Frame]
      BY <1>1 DEF Init
    <2>4. /\ chan \in Seq(Frame) /\ inq \in Seq(Frame) /\ upq \in Seq(Frame)
          /\ accepted \in Seq(Frame) /\ upGot \in Seq(Frame) /\ clGot \in Seq(Frame)
          /\ Len(chan) <= Cap
      BY <1>1, CapAssumption DEF Init
    <2>5. sess = "resolving"
      BY DEF Init
    <2> QED BY <2>1, <2>2, <2>3, <2>4, <2>5, Zenon DEF TypeOK
  <1>3. PhaseInv /\ C2uInv /\ UpInv /\ ViewInv
    BY <1>1 DEF Init, PhaseInv, C2uInv, UpInv, ViewInv, NoClose, Stopped
  <1>4. FifoToUpstream
    BY DEF Init, FifoToUpstream, Stopped, IsPrefix
  <1>5. CloseIsFinal
    BY DEF Init, CloseIsFinal
  <1> QED BY <1>2, <1>3, <1>4, <1>5 DEF IInv

\* The client sends a frame.
LEMMA ClientSendsInv ==
    ASSUME IInv, NEW k \in Kind, ClientSends(k)
    PROVE  IInv'
  <1> DEFINE f == [kind |-> k, id |-> sent.client + 1]
  <1>1. /\ inq' = Append(inq, f) /\ sent' = [sent EXCEPT !.client = sent.client + 1]
        /\ UNCHANGED <<sess, capped, c2u, pump, chan, upq, clientGone, upGone, upReads, clReads,
                       accepted, upGot, clGot>>
    BY DEF ClientSends, task, env, history
  <1>2. f \in Frame /\ f.kind = k /\ inq \in Seq(Frame)
    BY DEF Frame, IInv, TypeOK
  <1>3. /\ inq' \in Seq(Frame) /\ Len(inq') = Len(inq) + 1
        /\ \A i \in 1..Len(inq) : inq'[i] = inq[i]
        /\ inq'[Len(inq) + 1] = f
    BY <1>1, <1>2, AppendProperties
  <1>4. sent' \in [client: Nat, up: Nat] /\ sent'.up = sent.up
    <2>1. sent \in [client: Nat, up: Nat]
      BY DEF IInv, TypeOK
    <2> QED BY <1>1, <2>1
  <1>5. TypeOK'
    BY <1>1, <1>3, <1>4 DEF IInv, TypeOK
  <1>6. \A i \in DOMAIN inq' : inq'[i].kind \in Kind
    BY <1>2, <1>3, LenProperties DEF IInv, C2uInv
  <1>7. C2uInv'
    BY <1>1, <1>6 DEF IInv, C2uInv, NoClose
  <1>8. PhaseInv' /\ UpInv' /\ ViewInv'
    BY <1>1, <1>4 DEF IInv, PhaseInv, UpInv, ViewInv, NoClose
  <1>9. FifoToUpstream' /\ CloseIsFinal'
    BY <1>1 DEF IInv, FifoToUpstream, CloseIsFinal, PumpHolds, C2uHolds
  <1> QED BY <1>5, <1>7, <1>8, <1>9 DEF IInv

\* The upstream sends a message: the next number.
LEMMA UpSendsInv ==
    ASSUME IInv, NEW k \in Kind, UpSends(k)
    PROVE  IInv'
  <1> DEFINE f == [kind |-> k, id |-> sent.up + 1]
  <1>1. /\ upq' = Append(upq, f) /\ sent' = [sent EXCEPT !.up = sent.up + 1]
        /\ UNCHANGED <<sess, capped, c2u, pump, chan, inq, clientGone, upGone, upReads, clReads,
                       accepted, upGot, clGot>>
    BY DEF UpSends, task, env, history
  <1>2. f \in Frame /\ f.kind = k /\ f.id = sent.up + 1 /\ upq \in Seq(Frame) /\ Len(upq) \in Nat
    BY LenProperties DEF Frame, IInv, TypeOK
  <1>3. /\ upq' \in Seq(Frame) /\ Len(upq') = Len(upq) + 1 /\ DOMAIN upq' = 1..(Len(upq) + 1)
        /\ \A i \in 1..Len(upq) : upq'[i] = upq[i]
        /\ upq'[Len(upq) + 1] = f
    BY <1>1, <1>2, AppendProperties, LenProperties
  <1>4. sent' \in [client: Nat, up: Nat] /\ sent'.up = sent.up + 1 /\ sent.up \in Nat
    <2>1. sent \in [client: Nat, up: Nat]
      BY DEF IInv, TypeOK
    <2> QED BY <1>1, <2>1
  <1>5. TypeOK'
    BY <1>1, <1>3, <1>4 DEF IInv, TypeOK
  <1>6. \A i \in DOMAIN upq' : upq'[i].kind \in Kind /\ upq'[i].id = sent'.up - Len(upq') + i
    <2>1. \A i \in 1..Len(upq) : upq[i].kind \in Kind /\ upq[i].id = sent.up - Len(upq) + i
      BY <1>2, LenProperties DEF IInv, UpInv
    <2>2. ASSUME NEW i \in 1..(Len(upq) + 1)
          PROVE  upq'[i].kind \in Kind /\ upq'[i].id = sent'.up - Len(upq') + i
      <3>1. CASE i \in 1..Len(upq)
        <4>1. upq'[i] = upq[i] /\ upq[i].kind \in Kind /\ upq[i].id = sent.up - Len(upq) + i
          BY <1>3, <2>1, <3>1
        <4>2. Len(upq') = Len(upq) + 1 /\ sent'.up = sent.up + 1 /\ Len(upq) \in Nat /\ sent.up \in Nat
          BY <1>2, <1>3, <1>4
        <4>3. sent'.up - Len(upq') + i = sent.up - Len(upq) + i
          BY <4>2
        <4> QED BY <4>1, <4>3
      <3>2. CASE i = Len(upq) + 1
        <4>1. upq'[i] = f
          BY <1>3, <3>2
        <4> QED BY <1>2, <1>3, <1>4, <3>2, <4>1
      <3> QED BY <1>2, <3>1, <3>2
    <2> QED BY <1>3, <2>2
  <1>7. UpInv'
    BY <1>1, <1>2, <1>3, <1>4, <1>6 DEF IInv, UpInv
  <1>8. PhaseInv'
    BY <1>1, <1>2, <1>3, <1>4 DEF IInv, PhaseInv
  <1>9. C2uInv' /\ ViewInv'
    BY <1>1 DEF IInv, C2uInv, ViewInv, NoClose
  <1>10. FifoToUpstream' /\ CloseIsFinal'
    BY <1>1 DEF IInv, FifoToUpstream, CloseIsFinal, PumpHolds, C2uHolds
  <1> QED BY <1>5, <1>7, <1>8, <1>9, <1>10 DEF IInv

\* Connections are lost and sides stop reading, and the session moves on, ends or is
\* capped: none of this touches what is under way.
LEMMA QuietInv ==
    ASSUME IInv, UNCHANGED <<task, inq, upq, sent, history>>,
           sess' \in {"resolving", "connecting", "acking", "running", "over"},
           sess' \in Before => sess \in Before,
           capped' \in BOOLEAN, upGone' \in BOOLEAN, upReads' \in BOOLEAN, clReads' \in BOOLEAN,
           clientGone' \in BOOLEAN, clientGone => clientGone'
    PROVE  IInv'
  <1>1. UNCHANGED <<c2u, pump, chan, inq, upq, sent, accepted, upGot, clGot>>
    BY DEF task, history
  <1>2. TypeOK'
    BY <1>1 DEF IInv, TypeOK
  <1>3. PhaseInv' /\ C2uInv' /\ ViewInv'
    BY <1>1 DEF IInv, PhaseInv, C2uInv, ViewInv, NoClose
  <1>4. UpInv'
    BY <1>1 DEF IInv, UpInv
  <1>5. FifoToUpstream' /\ CloseIsFinal'
    BY <1>1 DEF IInv, FifoToUpstream, CloseIsFinal, PumpHolds, C2uHolds
  <1> QED BY <1>2, <1>3, <1>4, <1>5 DEF IInv

\* The tunnel is refused: the client sees one Close or nothing.
LEMMA RefuseInv == IInv /\ Refuse => IInv'
  <1> SUFFICES ASSUME IInv, Refuse PROVE IInv'
    OBVIOUS
  <1>1. /\ sess \in Before /\ sess' = "over"
        /\ clGot' = IF clientGone THEN clGot ELSE Append(clGot, [kind |-> "refusal", id |-> 0])
        /\ UNCHANGED <<capped, c2u, pump, chan, inq, upq, clientGone, upGone, upReads, clReads,
                       sent, accepted, upGot>>
    BY DEF Refuse, Before, task, env
  <1>2. clGot = <<>> /\ pump.pc = "none"
    BY <1>1 DEF IInv, PhaseInv
  <1>3. clGot' \in {<<>>, Refusal}
    BY <1>1, <1>2 DEF Refusal
  <1>4. clGot' \in Seq(Frame) /\ NoClose(clGot') /\ Len(clGot') <= 1
    <2>1. Refusal \in Seq(Frame) /\ NoClose(Refusal) /\ Len(Refusal) <= 1
      BY DEF Refusal, Frame, NoClose
    <2>2. <<>> \in Seq(Frame) /\ NoClose(<<>>) /\ Len(<<>>) = 0
      BY DEF NoClose
    <2>3. CASE clGot' = Refusal
      BY <2>1, <2>3, Zenon
    <2>4. CASE clGot' = <<>>
      BY <2>2, <2>4
    <2> QED BY <1>3, <2>3, <2>4
  <1>5. TypeOK'
    BY <1>1, <1>4 DEF IInv, TypeOK
  <1>6. PhaseInv'
    BY <1>1, <1>2, <1>3 DEF IInv, PhaseInv, Before
  <1>7. C2uInv' /\ UpInv' /\ ViewInv'
    BY <1>1, <1>2, <1>4 DEF IInv, C2uInv, UpInv, ViewInv, NoClose, Stopped
  <1>8. FifoToUpstream'
    BY <1>1 DEF IInv, FifoToUpstream, PumpHolds, C2uHolds
  <1>9. CloseIsFinal'
    BY <1>1, <1>4 DEF IInv, CloseIsFinal, NoClose
  <1> QED BY <1>5, <1>6, <1>7, <1>8, <1>9 DEF IInv

\* The ACK is written and the tasks start with nothing in hand.
LEMMA AckInv == IInv /\ Ack => IInv'
  <1> SUFFICES ASSUME IInv, Ack PROVE IInv'
    OBVIOUS
  <1>1. CASE clientGone
    BY <1>1, QuietInv DEF Ack, task, env, history, Before, IInv, TypeOK
  <1>2. CASE ~clientGone
    <2> DEFINE a == [kind |-> "ack", id |-> 0]
    <2>1. /\ sess = "acking" /\ sess' = "running" /\ clGot' = Append(clGot, a)
          /\ c2u' = [pc |-> "reading", msg |-> NoFrame]
          /\ pump' = [pc |-> "select", msg |-> NoFrame]
          /\ UNCHANGED <<capped, chan, inq, upq, clientGone, upGone, upReads, clReads, sent,
                         accepted, upGot>>
      BY <1>2 DEF Ack, env
    <2>2. /\ clGot = <<>> /\ sent.up = Len(upq) /\ pump.pc = "none"
          /\ chan = <<>> /\ upGot = <<>> /\ accepted = <<>>
      BY <2>1 DEF IInv, PhaseInv, Before
    <2>3. NoFrame \in Frame /\ NoFrame.kind = "none" /\ a \in Frame
      BY DEF NoFrame, Frame
    <2>4. /\ clGot' = <<a>> /\ clGot' \in Seq(Frame) /\ Len(clGot') = 1 /\ clGot'[1] = a
          /\ DOMAIN clGot' = {1}
      BY <2>1, <2>2, <2>3
    <2>5. TypeOK'
      BY <2>1, <2>3, <2>4 DEF IInv, TypeOK
    <2>6. PhaseInv'
      BY <2>1 DEF PhaseInv, Before
    <2>7. C2uInv'
      BY <2>1, <2>2, <2>3 DEF IInv, C2uInv, NoClose, Carried
    <2>8. UpInv'
      <3>1. Len(upq) \in Nat /\ sent.up \in Nat
        BY LenProperties DEF IInv, TypeOK
      <3> QED BY <2>1, <2>2, <2>4, <3>1 DEF IInv, UpInv
    <2>9. ViewInv'
      BY <2>1, <2>4 DEF ViewInv, NoClose
    <2>10. FifoToUpstream'
      BY <2>1, <2>2, <2>3 DEF IInv, FifoToUpstream, PumpHolds, C2uHolds, Carried
    <2>11. CloseIsFinal'
      BY <2>1, <2>2, <2>4 DEF CloseIsFinal
    <2> QED BY <2>5, <2>6, <2>7, <2>8, <2>9, <2>10, <2>11 DEF IInv
  <1> QED BY <1>1, <1>2

-----------------------------------------------------------------------------
(* client_to_up                                                             *)

\* client_to_up gives up, or goes on without the pump: what it has in hand is dropped
\* only once no pump is left to take it.
LEMMA C2uStopsInv ==
    ASSUME IInv, UNCHANGED <<sess, capped, pump, chan, inq, upq, env, sent, history>>,
           NEW f \in Frame, NEW p \in {"reading", "ended", "aborted"},
           c2u.pc \in {"reading", "sending"}, c2u' = [pc |-> p, msg |-> f],
           pump.pc \notin Stopped => C2uHolds' = C2uHolds,
           p = "reading" => pump.pc \in Stopped /\ c2u.msg.kind # "close"
    PROVE  IInv'
  <1>1. UNCHANGED <<sess, capped, pump, chan, inq, upq, clientGone, upGone, upReads, clReads, sent,
                    accepted, upGot, clGot>>
    BY DEF env, history
  <1>2. c2u'.pc = p /\ c2u'.msg = f /\ c2u' \in [pc: {"none", "reading", "sending", "ended", "aborted"}, msg: Frame]
    OBVIOUS
  <1>3. TypeOK'
    BY <1>1, <1>2 DEF IInv, TypeOK
  <1>4. PhaseInv'
    BY <1>1, <1>2 DEF IInv, PhaseInv
  <1>5. C2uInv'
    <2>1. p = "reading" => NoClose(accepted)
      BY DEF IInv, C2uInv
    <2> QED BY <1>1, <1>2, <2>1 DEF IInv, C2uInv, NoClose
  <1>6. UpInv' /\ ViewInv'
    BY <1>1 DEF IInv, UpInv, ViewInv, NoClose
  <1>7. FifoToUpstream'
    BY <1>1 DEF IInv, FifoToUpstream, PumpHolds
  <1>8. CloseIsFinal'
    BY <1>1 DEF IInv, CloseIsFinal
  <1> QED BY <1>3, <1>4, <1>5, <1>6, <1>7, <1>8 DEF IInv

\* A frame is read and taken in hand.
LEMMA ReadFrameInv == IInv /\ ReadFrame => IInv'
  <1> SUFFICES ASSUME IInv, ReadFrame PROVE IInv'
    OBVIOUS
  <1> DEFINE f == Head(inq)
  <1>1. /\ c2u.pc = "reading" /\ inq # <<>> /\ inq' = Tail(inq) /\ inq \in Seq(Frame)
        /\ accepted \in Seq(Frame) /\ upGot \in Seq(Frame) /\ chan \in Seq(Frame)
        /\ UNCHANGED <<sess, capped, pump, chan, upq, clientGone, upGone, upReads, clReads, sent,
                       upGot, clGot>>
    BY DEF ReadFrame, env, IInv, TypeOK
  <1>2. /\ f \in Frame /\ f = inq[1] /\ Tail(inq) \in Seq(Frame) /\ 1 \in DOMAIN inq
        /\ \A i \in DOMAIN Tail(inq) : Tail(inq)[i] = inq[i + 1] /\ i + 1 \in DOMAIN inq
    BY <1>1, HeadTailProperties, LenProperties
  <1>3. f.kind \in Kind /\ \A i \in DOMAIN inq' : inq'[i].kind \in Kind
    BY <1>1, <1>2 DEF IInv, C2uInv
  <1>4. pump.pc # "none" /\ NoClose(accepted)
    BY <1>1 DEF IInv, PhaseInv, C2uInv
  <1>5. pump.pc \notin Stopped => c2u.msg.kind \notin Carried
    BY <1>1 DEF IInv, C2uInv
  <1> HIDE DEF f
  <1>6. CASE f.kind = "end"
    <2>1. c2u' = [pc |-> "ended", msg |-> f] /\ accepted' = accepted
      BY <1>6 DEF ReadFrame, NoFrameRead, C2uEnds, f
    <2>2. /\ c2u'.pc = "ended" /\ c2u'.msg = f
          /\ c2u' \in [pc: {"none", "reading", "sending", "ended", "aborted"}, msg: Frame]
      BY <1>2, <2>1
    <2>3. TypeOK'
      BY <1>1, <1>2, <2>1, <2>2 DEF IInv, TypeOK
    <2>4. PhaseInv'
      BY <1>1, <1>4, <2>1, <2>2 DEF IInv, PhaseInv
    <2>5. C2uInv'
      BY <1>1, <1>3, <2>1, <2>2 DEF IInv, C2uInv
    <2>6. UpInv' /\ ViewInv'
      BY <1>1 DEF IInv, UpInv, ViewInv, NoClose
    <2>7. FifoToUpstream'
      <3>1. pump.pc \notin Stopped => C2uHolds' = C2uHolds
        BY <1>5, <1>6, <2>2 DEF C2uHolds, Carried
      <3> QED BY <1>1, <2>1, <3>1 DEF IInv, FifoToUpstream, PumpHolds
    <2>8. CloseIsFinal'
      BY <1>1, <2>1 DEF IInv, CloseIsFinal
    <2> QED BY <2>3, <2>4, <2>5, <2>6, <2>7, <2>8 DEF IInv
  <1>7. CASE f.kind # "end"
    <2>1. c2u' = [pc |-> "sending", msg |-> f] /\ accepted' = Append(accepted, f)
      BY <1>7 DEF ReadFrame, NoFrameRead, f
    <2>2. /\ c2u'.pc = "sending" /\ c2u'.msg = f /\ f.kind \in Carried
          /\ c2u' \in [pc: {"none", "reading", "sending", "ended", "aborted"}, msg: Frame]
      BY <1>2, <1>3, <1>7, <2>1 DEF Kind, Carried
    <2>3. /\ accepted' \in Seq(Frame) /\ Len(accepted) \in Nat
          /\ Len(accepted') = Len(accepted) + 1 /\ DOMAIN accepted' = 1..(Len(accepted) + 1)
          /\ \A i \in 1..Len(accepted) : accepted'[i] = accepted[i]
          /\ accepted'[Len(accepted) + 1] = f /\ DOMAIN accepted = 1..Len(accepted)
      BY <1>1, <1>2, <2>1, AppendProperties, LenProperties
    <2>4. TypeOK'
      BY <1>1, <1>2, <2>2, <2>3 DEF IInv, TypeOK
    <2>5. PhaseInv'
      BY <1>1, <1>4, <2>1, <2>2 DEF IInv, PhaseInv
    <2>6. \A i \in DOMAIN accepted' : accepted'[i].kind = "close" => i = Len(accepted') /\ f.kind = "close"
      BY <1>4, <2>3 DEF NoClose
    <2>7. C2uInv'
      BY <1>1, <1>3, <2>2, <2>6 DEF IInv, C2uInv, NoClose
    <2>8. UpInv' /\ ViewInv'
      BY <1>1 DEF IInv, UpInv, ViewInv, NoClose
    <2>9. FifoToUpstream'
      <3>1. IsPrefix(upGot', accepted')
        BY <1>1, <1>2, <2>1, PrefixAppend DEF IInv, FifoToUpstream
      <3>2. ASSUME pump.pc \notin Stopped
            PROVE  upGot \o PumpHolds \o chan \o <<f>> = Append(accepted, f)
        <4>1. PumpHolds \in Seq(Frame) /\ C2uHolds = <<>>
          BY <1>5, <3>2 DEF PumpHolds, C2uHolds, IInv, TypeOK
        <4> DEFINE x == upGot \o PumpHolds \o chan
        <4>2. x \in Seq(Frame)
          BY <1>1, <4>1, ConcatProperties
        <4>3. x \o C2uHolds = accepted
          BY <3>2 DEF IInv, FifoToUpstream
        <4> HIDE DEF x
        <4>4. Append(x \o <<>>, f) = x \o <<f>>
          BY <1>2, <4>2, LineFacts
        <4>5. x \o <<f>> = Append(accepted, f)
          BY <4>1, <4>3, <4>4, Zenon
        <4> QED BY <4>5 DEF x
      <3>3. PumpHolds' = PumpHolds /\ C2uHolds' = <<f>>
        BY <1>1, <2>2 DEF PumpHolds, C2uHolds
      <3> QED BY <1>1, <2>1, <3>1, <3>2, <3>3 DEF FifoToUpstream
    <2>10. CloseIsFinal'
      BY <1>1, <2>6 DEF IInv, CloseIsFinal
    <2> QED BY <2>4, <2>5, <2>7, <2>8, <2>9, <2>10 DEF IInv
  <1> QED BY <1>6, <1>7

\* A data frame is dropped by the rate limiter: it was never accepted.
LEMMA DropFrameInv == IInv /\ DropFrame => IInv'
  <1> SUFFICES ASSUME IInv, DropFrame PROVE IInv'
    OBVIOUS
  <1>1. /\ inq # <<>> /\ inq' = Tail(inq) /\ inq \in Seq(Frame)
        /\ UNCHANGED <<sess, capped, c2u, pump, chan, upq, clientGone, upGone, upReads, clReads, sent,
                       accepted, upGot, clGot>>
    BY DEF DropFrame, task, env, history, IInv, TypeOK
  <1>2. /\ Tail(inq) \in Seq(Frame)
        /\ \A i \in DOMAIN Tail(inq) : Tail(inq)[i] = inq[i + 1] /\ i + 1 \in DOMAIN inq
    BY <1>1, HeadTailProperties, LenProperties
  <1>3. \A i \in DOMAIN inq' : inq'[i].kind \in Kind
    BY <1>1, <1>2 DEF IInv, C2uInv
  <1>4. TypeOK'
    BY <1>1, <1>2 DEF IInv, TypeOK
  <1>5. PhaseInv' /\ UpInv' /\ ViewInv'
    BY <1>1 DEF IInv, PhaseInv, UpInv, ViewInv, NoClose
  <1>6. C2uInv'
    BY <1>1, <1>3 DEF IInv, C2uInv, NoClose
  <1>7. FifoToUpstream' /\ CloseIsFinal'
    BY <1>1 DEF IInv, FifoToUpstream, CloseIsFinal, PumpHolds, C2uHolds
  <1> QED BY <1>4, <1>5, <1>6, <1>7 DEF IInv

\* The frame in hand goes into the channel.
LEMMA SendDoneInv == IInv /\ SendDone => IInv'
  <1> SUFFICES ASSUME IInv, SendDone PROVE IInv'
    OBVIOUS
  <1> DEFINE m == c2u.msg
             p == IF m.kind = "close" THEN "ended" ELSE "reading"
  <1>1. /\ c2u.pc = "sending" /\ pump.pc \notin Stopped /\ Len(chan) < Cap
        /\ chan' = Append(chan, m) /\ c2u' = [pc |-> p, msg |-> NoFrame]
        /\ UNCHANGED <<sess, capped, pump, inq, upq, clientGone, upGone, upReads, clReads, sent,
                       accepted, upGot, clGot>>
    BY DEF SendDone, env, history
  <1>2. /\ m \in Frame /\ m.kind \in Carried /\ chan \in Seq(Frame) /\ upGot \in Seq(Frame)
        /\ NoFrame \in Frame /\ NoFrame.kind = "none"
    BY <1>1 DEF IInv, TypeOK, C2uInv, NoFrame, Frame
  <1>3. /\ c2u'.pc = p /\ p \in {"ended", "reading"} /\ c2u'.msg = NoFrame
        /\ c2u' \in [pc: {"none", "reading", "sending", "ended", "aborted"}, msg: Frame]
    BY <1>1, <1>2
  <1>4. chan' \in Seq(Frame) /\ Len(chan') = Len(chan) + 1 /\ Len(chan) \in Nat
    BY <1>1, <1>2, AppendProperties, LenProperties
  <1>5. Len(chan') <= Cap
    BY <1>1, <1>4, CapAssumption
  <1>6. TypeOK'
    BY <1>1, <1>3, <1>4, <1>5 DEF IInv, TypeOK
  <1>7. PhaseInv'
    BY <1>1, <1>3 DEF IInv, PhaseInv, Stopped
  <1>8. C2uInv'
    BY <1>1, <1>2, <1>3 DEF IInv, C2uInv, NoClose, Carried
  <1>9. UpInv' /\ ViewInv'
    BY <1>1 DEF IInv, UpInv, ViewInv, NoClose
  <1>10. FifoToUpstream'
    <2>1. PumpHolds \in Seq(Frame) /\ PumpHolds' = PumpHolds
      BY <1>1 DEF PumpHolds, IInv, TypeOK
    <2>2. C2uHolds = <<m>> /\ C2uHolds' = <<>>
      BY <1>2, <1>3 DEF C2uHolds, Carried
    <2>3. upGot \o PumpHolds \o chan \o <<m>> = accepted
      BY <1>1, <2>2 DEF IInv, FifoToUpstream
    <2>4. (upGot \o PumpHolds) \o Append(chan, m) = ((upGot \o PumpHolds) \o chan) \o <<m>>
      BY <1>2, <2>1, LineFacts
    <2> DEFINE x == (upGot \o PumpHolds) \o Append(chan, m)
    <2>5. x \in Seq(Frame)
      BY <1>1, <1>2, <1>4, <2>1, ConcatProperties
    <2> HIDE DEF x
    <2>6. x \o <<>> = x
      BY <2>5, ConcatEmptySeq
    <2>7. x \o <<>> = accepted
      BY <2>3, <2>4, <2>6, Zenon DEF x
    <2> QED BY <1>1, <2>1, <2>2, <2>7 DEF IInv, FifoToUpstream, x
  <1>11. CloseIsFinal'
    BY <1>1 DEF IInv, CloseIsFinal
  <1> QED BY <1>6, <1>7, <1>8, <1>9, <1>10, <1>11 DEF IInv

\* The other steps of client_to_up, and its abort.
LEMMA C2uStepInv == IInv /\ (C2uStep \/ AbortC2u) => IInv'
  <1> SUFFICES ASSUME IInv, C2uStep \/ AbortC2u PROVE IInv'
    OBVIOUS
  <1>1. c2u \in [pc: {"none", "reading", "sending", "ended", "aborted"}, msg: Frame]
    BY DEF IInv, TypeOK
  <1>2. CASE ReadFails
    <2> DEFINE e == [kind |-> "end", id |-> 0]
    <2>1. /\ c2u.pc = "reading" /\ c2u' = [pc |-> "ended", msg |-> e]
          /\ UNCHANGED <<sess, capped, pump, chan, inq, upq, env, sent, history>>
      BY <1>2 DEF ReadFails, C2uEnds
    <2>2. e \in Frame /\ e.kind = "end"
      BY DEF Frame, Kind
    <2>3. pump.pc \notin Stopped => C2uHolds' = C2uHolds
      BY <2>1, <2>2 DEF IInv, C2uInv, C2uHolds, Carried
    <2> QED BY <2>1, <2>2, <2>3, C2uStopsInv
  <1>3. CASE SendFails
    <2> DEFINE p == IF c2u.msg.kind = "ctl" THEN "reading" ELSE "ended"
    <2>1. /\ c2u.pc = "sending" /\ pump.pc \in Stopped /\ c2u' = [c2u EXCEPT !.pc = p]
          /\ UNCHANGED <<sess, capped, pump, chan, inq, upq, env, sent, history>>
      BY <1>3 DEF SendFails
    <2>2. c2u' = [pc |-> p, msg |-> c2u.msg] /\ c2u.msg \in Frame
      BY <1>1, <2>1
    <2> QED BY <2>1, <2>2, C2uStopsInv
  <1>4. CASE SendTimeout
    <2>1. /\ c2u.pc = "sending" /\ c2u' = [pc |-> "ended", msg |-> c2u.msg]
          /\ UNCHANGED <<sess, capped, pump, chan, inq, upq, env, sent, history>>
      BY <1>4 DEF SendTimeout, C2uEnds
    <2>2. c2u.msg \in Frame /\ C2uHolds' = C2uHolds
      BY <1>1, <2>1 DEF C2uHolds
    <2> QED BY <2>1, <2>2, C2uStopsInv
  <1>5. CASE AbortC2u
    <2>1. /\ c2u.pc \notin Stopped /\ c2u' = [c2u EXCEPT !.pc = "aborted"]
          /\ UNCHANGED <<sess, capped, pump, chan, inq, upq, env, sent, history>>
      BY <1>5 DEF AbortC2u
    <2>2. /\ c2u' = [pc |-> "aborted", msg |-> c2u.msg] /\ c2u.msg \in Frame
          /\ c2u.pc \in {"reading", "sending"}
      BY <1>1, <2>1 DEF Stopped
    <2>3. C2uHolds' = C2uHolds
      BY <2>2 DEF C2uHolds
    <2> QED BY <2>1, <2>2, <2>3, C2uStopsInv
  <1> QED BY <1>2, <1>3, <1>4, <1>5, ReadFrameInv, DropFrameInv, SendDoneInv DEF C2uStep

-----------------------------------------------------------------------------
(* pump                                                                     *)

\* pump stops, with whatever it has in hand: nothing more is delivered or written.
LEMMA PumpStopsInv ==
    ASSUME IInv, UNCHANGED <<sess, capped, c2u, chan, inq, upq, env, sent, history>>,
           NEW f \in Frame, NEW p \in {"ended", "aborted"},
           pump.pc \notin Stopped, pump' = [pc |-> p, msg |-> f]
    PROVE  IInv'
  <1>1. UNCHANGED <<sess, capped, c2u, chan, inq, upq, clientGone, upGone, upReads, clReads, sent,
                    accepted, upGot, clGot>>
    BY DEF env, history
  <1>2. /\ pump'.pc = p /\ pump.pc # "none" /\ pump'.pc \in Stopped
        /\ pump' \in [pc: {"none", "select", "sinking", "writing", "ended", "aborted"}, msg: Frame]
    BY DEF Stopped
  <1>3. TypeOK'
    BY <1>1, <1>2 DEF IInv, TypeOK
  <1>4. PhaseInv'
    BY <1>1, <1>2 DEF IInv, PhaseInv
  <1>5. C2uInv' /\ ViewInv'
    BY <1>1, <1>2 DEF IInv, C2uInv, ViewInv, NoClose
  <1>6. UpInv'
    BY <1>1, <1>2 DEF IInv, UpInv
  <1>7. FifoToUpstream' /\ CloseIsFinal'
    BY <1>1, <1>2 DEF IInv, FifoToUpstream, CloseIsFinal
  <1> QED BY <1>3, <1>4, <1>5, <1>6, <1>7 DEF IInv

\* A frame leaves the channel for pump's hands.
LEMMA PumpTakeInv == IInv /\ PumpTake => IInv'
  <1> SUFFICES ASSUME IInv, PumpTake PROVE IInv'
    OBVIOUS
  <1> DEFINE m == Head(chan)
  <1>1. /\ pump.pc = "select" /\ chan # <<>> /\ chan' = Tail(chan)
        /\ pump' = [pc |-> "sinking", msg |-> m]
        /\ UNCHANGED <<sess, capped, c2u, inq, upq, clientGone, upGone, upReads, clReads, sent,
                       accepted, upGot, clGot>>
    BY DEF PumpTake, env, history
  <1>2. chan \in Seq(Frame) /\ upGot \in Seq(Frame) /\ Len(chan) <= Cap /\ Len(chan) \in Nat
    BY LenProperties DEF IInv, TypeOK
  <1>3. m \in Frame /\ Tail(chan) \in Seq(Frame) /\ Len(Tail(chan)) = Len(chan) - 1
    BY <1>1, <1>2, HeadTailProperties
  <1>4. Len(chan') <= Cap
    BY <1>1, <1>2, <1>3, CapAssumption
  <1>5. /\ pump'.pc = "sinking" /\ pump'.msg = m
        /\ pump' \in [pc: {"none", "select", "sinking", "writing", "ended", "aborted"}, msg: Frame]
    BY <1>1, <1>3
  <1>6. TypeOK'
    BY <1>1, <1>3, <1>4, <1>5 DEF IInv, TypeOK
  <1>7. PhaseInv'
    BY <1>1, <1>5 DEF IInv, PhaseInv
  <1>8. C2uInv' /\ ViewInv'
    BY <1>1, <1>5 DEF IInv, C2uInv, ViewInv, NoClose, Stopped
  <1>9. UpInv'
    BY <1>1, <1>5 DEF IInv, UpInv, Stopped
  <1>10. FifoToUpstream'
    <2>1. PumpHolds = <<>> /\ PumpHolds' = <<m>> /\ C2uHolds' = C2uHolds
      BY <1>1, <1>5 DEF PumpHolds, C2uHolds
    <2>2. upGot \o <<>> \o chan \o C2uHolds = accepted
      BY <1>1, <2>1 DEF IInv, FifoToUpstream, Stopped
    <2>3. (upGot \o <<>>) \o chan = (upGot \o <<m>>) \o Tail(chan)
      BY <1>1, <1>2, <1>3, LineFacts
    <2>4. upGot \o <<m>> \o Tail(chan) \o C2uHolds = accepted
      BY <2>2, <2>3, Zenon
    <2> HIDE DEF m
    <2>5. (upGot \o PumpHolds \o chan \o C2uHolds = accepted)'
      BY <1>1, <2>1, <2>4, Zenon
    <2> QED BY <1>1, <2>5 DEF IInv, FifoToUpstream
  <1>11. CloseIsFinal'
    BY <1>1 DEF IInv, CloseIsFinal
  <1> QED BY <1>6, <1>7, <1>8, <1>9, <1>10, <1>11 DEF IInv

\* The frame in pump's hands is the first accepted one the upstream does not have yet.
LEMMA SinkIsNext ==
    ASSUME IInv, pump.pc = "sinking"
    PROVE  /\ Len(upGot) < Len(accepted)
           /\ accepted[Len(upGot) + 1] = pump.msg
           /\ IsPrefix(Append(upGot, pump.msg), accepted)
  <1>1. /\ upGot \in Seq(Frame) /\ chan \in Seq(Frame) /\ pump.msg \in Frame
        /\ C2uHolds \in Seq(Frame)
    BY DEF IInv, TypeOK, C2uHolds
  <1>2. upGot \o <<pump.msg>> \o chan \o C2uHolds = accepted
    BY DEF IInv, FifoToUpstream, PumpHolds, Stopped
  <1> DEFINE d == Append(upGot, pump.msg)
             r == chan \o C2uHolds
  <1>3. /\ d \in Seq(Frame) /\ Len(d) = Len(upGot) + 1 /\ d[Len(upGot) + 1] = pump.msg
        /\ d = upGot \o <<pump.msg>> /\ Len(upGot) \in Nat
    BY <1>1, AppendProperties, AppendIsConcat, LenProperties
  <1>4. r \in Seq(Frame) /\ Len(r) \in Nat
    BY <1>1, ConcatProperties, LenProperties
  <1>5. (d \o chan) \o C2uHolds = d \o r
    BY <1>1, <1>3, ConcatAssociative
  <1> HIDE DEF d
  <1>6. accepted = d \o r
    BY <1>2, <1>3, <1>5, Zenon
  <1> HIDE DEF r
  <1>7. /\ Len(d \o r) = Len(d) + Len(r)
        /\ \A i \in 1..(Len(d) + Len(r)) : (d \o r)[i] = IF i <= Len(d) THEN d[i] ELSE r[i - Len(d)]
    BY <1>3, <1>4, ConcatProperties
  <1>8. Len(upGot) < Len(accepted) /\ accepted[Len(upGot) + 1] = pump.msg
    BY <1>3, <1>4, <1>6, <1>7
  <1>9. IsPrefix(d, accepted)
    BY <1>3, <1>4, <1>6, PrefixConcat
  <1> QED BY <1>8, <1>9 DEF d

\* The upstream takes the frame in pump's hands, or is found to be gone.
LEMMA SinkInv == IInv /\ Sink => IInv'
  <1> SUFFICES ASSUME IInv, Sink PROVE IInv'
    OBVIOUS
  <1> DEFINE m == pump.msg
  <1>1. pump \in [pc: {"none", "select", "sinking", "writing", "ended", "aborted"}, msg: Frame]
    BY DEF IInv, TypeOK
  <1>2. CASE pump' = [pump EXCEPT !.pc = "ended"] /\ UNCHANGED upGot
    <2>1. pump' = [pc |-> "ended", msg |-> m] /\ m \in Frame
      BY <1>1, <1>2
    <2>2. /\ UNCHANGED <<sess, capped, c2u, chan, inq, upq, env, sent, history>>
          /\ pump.pc \notin Stopped
      BY <1>2 DEF Sink, history, Stopped
    <2> QED BY <2>1, <2>2, PumpStopsInv
  <1>3. CASE upGot' = Append(upGot, m) /\ pump' = [pc |-> "select", msg |-> NoFrame]
    <2>1. /\ pump.pc = "sinking"
          /\ UNCHANGED <<sess, capped, c2u, chan, inq, upq, clientGone, upGone, upReads, clReads, sent,
                         accepted, clGot>>
      BY DEF Sink, env
    <2>2. /\ m \in Frame /\ chan \in Seq(Frame) /\ upGot \in Seq(Frame) /\ NoFrame \in Frame
      BY <1>1 DEF IInv, TypeOK, NoFrame, Frame
    <2>3. /\ pump'.pc = "select"
          /\ pump' \in [pc: {"none", "select", "sinking", "writing", "ended", "aborted"}, msg: Frame]
      BY <1>3, <2>2
    <2>4. upGot' \in Seq(Frame)
      BY <1>3, <2>2, AppendProperties
    <2>5. TypeOK'
      BY <2>1, <2>3, <2>4 DEF IInv, TypeOK
    <2>6. PhaseInv'
      BY <2>1, <2>3 DEF IInv, PhaseInv
    <2>7. C2uInv' /\ ViewInv'
      BY <2>1, <2>3 DEF IInv, C2uInv, ViewInv, NoClose, Stopped
    <2>8. UpInv'
      BY <2>1, <2>3 DEF IInv, UpInv, Stopped
    <2>9. FifoToUpstream'
      <3>1. PumpHolds = <<m>> /\ PumpHolds' = <<>> /\ C2uHolds' = C2uHolds
        BY <2>1, <2>3 DEF PumpHolds, C2uHolds
      <3>2. upGot \o <<m>> \o chan \o C2uHolds = accepted
        BY <2>1, <3>1 DEF IInv, FifoToUpstream, Stopped
      <3>3. upGot \o <<m>> = Append(upGot, m) \o <<>>
        BY <2>2, LineFacts
      <3>4. (upGot \o PumpHolds \o chan \o C2uHolds = accepted)'
        BY <1>3, <2>1, <3>1, <3>2, <3>3, Zenon
      <3>5. IsPrefix(upGot, accepted)'
        BY <1>3, <2>1, SinkIsNext
      <3> QED BY <3>4, <3>5 DEF FifoToUpstream
    <2>10. CloseIsFinal'
      BY <2>1 DEF IInv, CloseIsFinal
    <2> QED BY <2>5, <2>6, <2>7, <2>8, <2>9, <2>10 DEF IInv
  <1> QED BY <1>2, <1>3 DEF Sink

\* pump reads the upstream's next message, or that there is none.
LEMMA PumpReadInv == IInv /\ PumpRead => IInv'
  <1> SUFFICES ASSUME IInv, PumpRead PROVE IInv'
    OBVIOUS
  <1> DEFINE m == Head(upq)
             p == IF m.kind = "end" THEN "ended" ELSE "writing"
  <1>1. /\ pump.pc = "select" /\ upq # <<>> /\ upq' = Tail(upq)
        /\ pump' = [pc |-> p, msg |-> m]
        /\ UNCHANGED <<sess, capped, c2u, chan, inq, clientGone, upGone, upReads, clReads, sent,
                       accepted, upGot, clGot>>
    BY DEF PumpRead, env, history
  <1>2. upq \in Seq(Frame) /\ Len(upq) \in Nat /\ DOMAIN upq = 1..Len(upq)
    BY LenProperties DEF IInv, TypeOK
  <1>3. sent.up \in Nat
    BY DEF IInv, TypeOK
  <1>4. /\ m \in Frame /\ m = upq[1] /\ Tail(upq) \in Seq(Frame) /\ Len(Tail(upq)) = Len(upq) - 1
        /\ DOMAIN Tail(upq) = 1..(Len(upq) - 1) /\ Len(upq) >= 1
        /\ \A i \in 1..(Len(upq) - 1) : Tail(upq)[i] = upq[i + 1]
    BY <1>1, <1>2, HeadTailProperties, EmptySeq, LenProperties
  <1>5. /\ Len(upq) <= sent.up
        /\ \A i \in 1..Len(upq) : upq[i].kind \in Kind /\ upq[i].id = sent.up - Len(upq) + i
    BY <1>2 DEF IInv, UpInv
  <1> HIDE DEF m
  <1>6. m.kind \in Kind /\ m.id = sent.up - Len(upq')
    BY <1>1, <1>2, <1>3, <1>4, <1>5
  <1>7. Len(upq') <= sent.up
    BY <1>1, <1>2, <1>3, <1>4, <1>5
  <1>8. \A i \in DOMAIN upq' : upq'[i].kind \in Kind /\ upq'[i].id = sent.up - Len(upq') + i
    <2> SUFFICES ASSUME NEW i \in 1..(Len(upq) - 1)
                 PROVE  upq'[i].kind \in Kind /\ upq'[i].id = sent.up - Len(upq') + i
      BY <1>1, <1>4
    <2>1. i + 1 \in 1..Len(upq) /\ upq'[i] = upq[i + 1]
      BY <1>1, <1>2, <1>4
    <2>2. upq'[i].kind \in Kind /\ upq'[i].id = sent.up - Len(upq) + (i + 1)
      BY <1>5, <2>1
    <2>3. sent.up - Len(upq) + (i + 1) = sent.up - Len(upq') + i
      BY <1>1, <1>2, <1>3, <1>4
    <2> QED BY <2>2, <2>3
  <1>9. /\ pump'.pc = p /\ pump'.msg = m /\ p \in {"ended", "writing"}
        /\ pump' \in [pc: {"none", "select", "sinking", "writing", "ended", "aborted"}, msg: Frame]
    BY <1>1, <1>4
  <1>10. TypeOK'
    BY <1>1, <1>4, <1>9 DEF IInv, TypeOK
  <1>11. PhaseInv'
    BY <1>1, <1>9 DEF IInv, PhaseInv
  <1>12. C2uInv' /\ ViewInv'
    BY <1>1, <1>9 DEF IInv, C2uInv, ViewInv, NoClose, Stopped
  <1>13. UpInv'
    <2>1. p = "writing" => m.kind \in Carried
      BY <1>6 DEF Kind, Carried
    <2>2. ~clientGone => Len(clGot) = sent.up - Len(upq) + 1
      BY <1>1 DEF IInv, UpInv, Stopped
    <2>3. ~clientGone => Len(clGot) = sent.up - Len(upq') + 0
      BY <1>1, <1>2, <1>3, <1>4, <2>2
    <2>4. p # "writing" => pump'.pc \in Stopped
      BY <1>9 DEF Stopped
    <2> HIDE DEF p
    <2> QED BY <1>1, <1>6, <1>7, <1>8, <1>9, <2>1, <2>3, <2>4 DEF UpInv
  <1>14. FifoToUpstream'
    <2>1. PumpHolds' = PumpHolds /\ C2uHolds' = C2uHolds
      BY <1>1, <1>9 DEF PumpHolds, C2uHolds
    <2> QED BY <1>1, <2>1 DEF IInv, FifoToUpstream, Stopped
  <1>15. CloseIsFinal'
    BY <1>1 DEF IInv, CloseIsFinal
  <1> QED BY <1>10, <1>11, <1>12, <1>13, <1>14, <1>15 DEF IInv

\* A message is written to a client that is there: it is the next one.
LEMMA WriteToClient ==
    ASSUME IInv, Write, ~clientGone
    PROVE  IInv'
  <1> DEFINE m == pump.msg
             p == IF m.kind = "close" THEN "ended" ELSE "select"
  <1>1. /\ pump.pc = "writing" /\ clGot' = Append(clGot, m)
        /\ UNCHANGED <<sess, capped, c2u, chan, inq, upq, clientGone, upGone, upReads, clReads, sent,
                       accepted, upGot>>
    BY DEF Write, env
  <1>2. pump \in [pc: {"none", "select", "sinking", "writing", "ended", "aborted"}, msg: Frame]
    BY DEF IInv, TypeOK
  <1>3. /\ NoFrame \in Frame /\ m \in Frame /\ m.kind \in Carried /\ m.id = sent.up - Len(upq)
        /\ Len(clGot) = sent.up - Len(upq) + 0
    BY <1>1, <1>2 DEF IInv, UpInv, Stopped, NoFrame, Frame
  <1>4. Len(upq) \in Nat /\ sent.up \in Nat /\ clGot \in Seq(Frame)
    BY LenProperties DEF IInv, TypeOK
  <1>5. m.id = Len(clGot)
    BY <1>3, <1>4
  <1>6. /\ pump'.pc = p /\ p \in {"ended", "select"}
        /\ pump' \in [pc: {"none", "select", "sinking", "writing", "ended", "aborted"}, msg: Frame]
    <2>1. CASE m.kind = "close"
      BY <1>2, <1>3, <2>1 DEF Write
    <2>2. CASE m.kind # "close"
      BY <1>2, <1>3, <2>2 DEF Write
    <2> QED BY <2>1, <2>2
  <1>7. /\ clGot' \in Seq(Frame) /\ Len(clGot) \in Nat /\ Len(clGot') = Len(clGot) + 1
        /\ DOMAIN clGot' = 1..(Len(clGot) + 1) /\ DOMAIN clGot = 1..Len(clGot)
        /\ \A i \in 1..Len(clGot) : clGot'[i] = clGot[i]
        /\ clGot'[Len(clGot) + 1] = m
    BY <1>1, <1>3, <1>4, AppendProperties, LenProperties
  <1>8. /\ Len(clGot) >= 1 /\ clGot[1].kind = "ack" /\ NoClose(clGot)
        /\ \A i \in 2..Len(clGot) : clGot[i].kind \in Carried /\ clGot[i].id = i - 1
    BY <1>1 DEF IInv, ViewInv
  <1> HIDE DEF m, p
  <1>9. TypeOK'
    BY <1>1, <1>6, <1>7 DEF IInv, TypeOK
  <1>10. PhaseInv'
    BY <1>1, <1>6 DEF IInv, PhaseInv
  <1>11. C2uInv'
    BY <1>1, <1>6 DEF IInv, C2uInv, NoClose, Stopped
  <1>12. UpInv'
    <2>1. Len(clGot') = sent.up - Len(upq) + 1
      BY <1>3, <1>4, <1>7
    <2> QED BY <1>1, <1>6, <2>1 DEF IInv, UpInv
  <1>13. /\ Len(clGot') >= 1 /\ clGot'[1].kind = "ack"
         /\ \A i \in 2..Len(clGot') : clGot'[i].kind \in Carried /\ clGot'[i].id = i - 1
    <2>1. Len(clGot') >= 1 /\ clGot'[1].kind = "ack"
      BY <1>7, <1>8
    <2>2. ASSUME NEW i \in 2..(Len(clGot) + 1) PROVE clGot'[i].kind \in Carried /\ clGot'[i].id = i - 1
      <3>1. CASE i \in 2..Len(clGot)
        <4>1. clGot'[i] = clGot[i]
          BY <1>7, <3>1
        <4> QED BY <1>8, <3>1, <4>1
      <3>2. CASE i = Len(clGot) + 1
        BY <1>3, <1>5, <1>7, <3>2
      <3> QED BY <1>7, <3>1, <3>2
    <2> QED BY <1>7, <2>1, <2>2
  <1>14. \A i \in DOMAIN clGot' : clGot'[i].kind = "close" => i = Len(clGot') /\ p = "ended"
    BY <1>7, <1>8 DEF NoClose, p
  <1>15. ViewInv'
    BY <1>6, <1>13, <1>14 DEF ViewInv, NoClose
  <1>16. FifoToUpstream'
    <2>1. PumpHolds' = PumpHolds /\ C2uHolds' = C2uHolds
      BY <1>1, <1>6 DEF PumpHolds, C2uHolds
    <2> QED BY <1>1, <2>1 DEF IInv, FifoToUpstream, Stopped
  <1>17. CloseIsFinal'
    BY <1>1, <1>14 DEF IInv, CloseIsFinal
  <1> QED BY <1>9, <1>10, <1>11, <1>12, <1>15, <1>16, <1>17 DEF IInv

\* A Ping or Pong for a client that is gone is lost, and pump goes on.
LEMMA WriteLostInv ==
    ASSUME IInv, pump.pc = "writing", clientGone, pump' = [pc |-> "select", msg |-> NoFrame],
           UNCHANGED <<sess, capped, c2u, chan, inq, upq, env, sent, history>>
    PROVE  IInv'
  <1>1. UNCHANGED <<sess, capped, c2u, chan, inq, upq, clientGone, upGone, upReads, clReads, sent,
                    accepted, upGot, clGot>>
    BY DEF env, history
  <1>2. /\ pump'.pc = "select"
        /\ pump' \in [pc: {"none", "select", "sinking", "writing", "ended", "aborted"}, msg: Frame]
    BY DEF NoFrame, Frame
  <1>3. TypeOK'
    BY <1>1, <1>2 DEF IInv, TypeOK
  <1>4. PhaseInv'
    BY <1>1, <1>2 DEF IInv, PhaseInv
  <1>5. C2uInv' /\ ViewInv'
    BY <1>1, <1>2 DEF IInv, C2uInv, ViewInv, NoClose, Stopped
  <1>6. UpInv'
    BY <1>1, <1>2 DEF IInv, UpInv
  <1>7. FifoToUpstream' /\ CloseIsFinal'
    BY <1>1, <1>2 DEF IInv, FifoToUpstream, CloseIsFinal, PumpHolds, C2uHolds, Stopped
  <1> QED BY <1>3, <1>4, <1>5, <1>6, <1>7 DEF IInv

\* The steps of pump, and its abort.
LEMMA PumpStepInv == IInv /\ (PumpStep \/ AbortPump) => IInv'
  <1> SUFFICES ASSUME IInv, PumpStep \/ AbortPump PROVE IInv'
    OBVIOUS
  <1>1. pump \in [pc: {"none", "select", "sinking", "writing", "ended", "aborted"}, msg: Frame]
    BY DEF IInv, TypeOK
  <1>2. CASE PumpReadFails
    <2>1. [kind |-> "end", id |-> 0] \in Frame
      BY DEF Frame, Kind
    <2> QED BY <1>2, <2>1, PumpStopsInv DEF PumpReadFails, Stopped
  <1>3. CASE AbortPump
    <2>1. pump' = [pc |-> "aborted", msg |-> pump.msg] /\ pump.msg \in Frame
      BY <1>1, <1>3 DEF AbortPump
    <2> QED BY <1>3, <2>1, PumpStopsInv DEF AbortPump
  <1>4. CASE Write /\ clientGone
    <2>1. /\ pump.pc = "writing" /\ pump.pc \notin Stopped
          /\ UNCHANGED <<sess, capped, c2u, chan, inq, upq, env, sent, history>>
      BY <1>4 DEF Write, Stopped, history
    <2>2. CASE pump.msg.kind \in {"close", "data"}
      <3>1. pump' = [pc |-> "ended", msg |-> pump.msg] /\ pump.msg \in Frame
        BY <1>1, <1>4, <2>2 DEF Write
      <3> QED BY <2>1, <3>1, PumpStopsInv
    <2>3. CASE pump.msg.kind \notin {"close", "data"}
      <3>1. pump' = [pc |-> "select", msg |-> NoFrame]
        BY <1>4, <2>3 DEF Write
      <3> QED BY <1>4, <2>1, <3>1, WriteLostInv
    <2> QED BY <2>2, <2>3
  <1>5. CASE Write /\ ~clientGone
    BY <1>5, WriteToClient
  <1> QED BY <1>2, <1>3, <1>4, <1>5, PumpTakeInv, SinkInv, PumpReadInv DEF PumpStep

-----------------------------------------------------------------------------
(* The specification                                                        *)

\* Every step keeps the invariant.
LEMMA NextInv == IInv /\ [Next]_vars => IInv'
  <1> SUFFICES ASSUME IInv, [Next]_vars PROVE IInv'
    OBVIOUS
  <1>1. /\ sess \in {"resolving", "connecting", "acking", "running", "over"}
        /\ capped \in BOOLEAN /\ clientGone \in BOOLEAN /\ upGone \in BOOLEAN
        /\ upReads \in BOOLEAN /\ clReads \in BOOLEAN
    BY Zenon DEF IInv, TypeOK
  <1>2. CASE ClientLost
    BY <1>1, <1>2, QuietInv DEF ClientLost
  <1>3. CASE UpLost
    BY <1>1, <1>3, QuietInv DEF UpLost
  <1>4. CASE UpStalls
    BY <1>1, <1>4, QuietInv DEF UpStalls
  <1>5. CASE ClientStalls
    BY <1>1, <1>5, QuietInv DEF ClientStalls
  <1>6. ASSUME NEW valid \in BOOLEAN, Resolve(valid) PROVE IInv'
    BY <1>1, <1>6, QuietInv DEF Resolve, env, Before
  <1>7. CASE Connect
    BY <1>1, <1>7, QuietInv DEF Connect, env, Before
  <1>8. CASE SessionEnds
    BY <1>1, <1>8, QuietInv DEF SessionEnds, env, Before
  <1>9. CASE HardCap
    BY <1>1, <1>9, QuietInv DEF HardCap, env, Before
  <1>10. CASE UNCHANGED vars
    BY <1>1, <1>10, QuietInv DEF vars, env
  <1> QED BY <1>2, <1>3, <1>4, <1>5, <1>6, <1>7, <1>8, <1>9, <1>10, ClientSendsInv, UpSendsInv,
             RefuseInv, AckInv, C2uStepInv, PumpStepInv DEF Next

\* The inductive invariant holds in every reachable state.
LEMMA Invariance == Spec => []IInv
  BY InitInv, NextInv, PTL DEF Spec

\* The tasks' states and every message keep their types and the channel its capacity,
\* whatever that capacity is.
THEOREM TypeCorrect == Spec => []TypeOK
  <1>1. IInv => TypeOK
    BY DEF IInv
  <1> QED BY <1>1, Invariance, PTL

\* client_to_up, the channel and pump lose, repeat and reorder no frame that passed the
\* limiter, at any capacity and wherever the tasks are stopped.
THEOREM FramesInOrder == Spec => []FifoToUpstream
  <1>1. IInv => FifoToUpstream
    BY DEF IInv
  <1> QED BY <1>1, Invariance, PTL

\* The client sees nothing, one refusal, or the ACK and then the upstream's messages
\* without a gap.
THEOREM ClientSeesUpstream == Spec => []ClientView
  <1>1. IInv => ClientView
    BY DEF IInv, PhaseInv, ViewInv, ClientView, Refusal
  <1> QED BY <1>1, Invariance, PTL

\* No frame is read after a client's Close, none is written after the upstream's.
THEOREM CloseEndsBoth == Spec => []CloseIsFinal
  <1>1. IInv => CloseIsFinal
    BY DEF IInv
  <1> QED BY <1>1, Invariance, PTL

-----------------------------------------------------------------------------
(* The tunnel is a pipe                                                     *)

\* Reading a frame offers it to the pipe; any other step of client_to_up does nothing to
\* either end.
LEMMA ReadIsOffer ==
    ASSUME IInv, ReadFrame
    PROVE  ToUpstream!Next \/ UNCHANGED <<accepted, upGot>>
  <1> DEFINE f == Head(inq)
  <1>1. CASE NoFrameRead(f)
    BY <1>1 DEF ReadFrame
  <1>2. CASE ~NoFrameRead(f)
    <2>1. accepted' = Append(accepted, f) /\ upGot' = upGot
      BY <1>2 DEF ReadFrame
    <2>2. accepted \in Seq(Frame) /\ f \in Frame
      BY HeadTailProperties DEF ReadFrame, IInv, TypeOK
    <2>3. Len(accepted') = Len(accepted) + 1 /\ accepted'[Len(accepted) + 1] = f
      BY <2>1, <2>2, AppendProperties
    <2> QED BY <2>1, <2>3 DEF ToUpstream!Next, ToUpstream!Offer
  <1> QED BY <1>1, <1>2

\* A message the upstream takes is the next one that was offered.
LEMMA SinkIsDeliver ==
    ASSUME IInv, Sink
    PROVE  ToUpstream!Next \/ UNCHANGED <<accepted, upGot>>
  <1>1. pump.pc = "sinking" /\ accepted' = accepted
    BY DEF Sink
  <1>2. CASE upGot' = Append(upGot, pump.msg)
    BY <1>1, <1>2, SinkIsNext DEF ToUpstream!Next, ToUpstream!Deliver
  <1>3. CASE upGot' = upGot
    BY <1>1, <1>3
  <1> QED BY <1>2, <1>3 DEF Sink

\* Every other step leaves both ends of the pipe as they are.
LEMMA NextPipe == IInv /\ [Next]_vars => [ToUpstream!Next]_<<accepted, upGot>>
  <1> SUFFICES ASSUME IInv, [Next]_vars PROVE ToUpstream!Next \/ UNCHANGED <<accepted, upGot>>
    OBVIOUS
  <1>1. ASSUME NEW k \in Kind, ClientSends(k) \/ UpSends(k) PROVE UNCHANGED <<accepted, upGot>>
    BY <1>1 DEF ClientSends, UpSends, history
  <1>2. CASE ClientLost \/ UpLost \/ UpStalls \/ ClientStalls
    BY <1>2 DEF ClientLost, UpLost, UpStalls, ClientStalls, history
  <1>3. ASSUME NEW valid \in BOOLEAN, Refuse \/ Resolve(valid) \/ Connect \/ Ack
        PROVE  UNCHANGED <<accepted, upGot>>
    BY <1>3 DEF Refuse, Resolve, Connect, Ack, history
  <1>4. CASE DropFrame \/ ReadFails \/ SendDone \/ SendFails \/ SendTimeout \/ AbortC2u
    BY <1>4 DEF DropFrame, ReadFails, SendDone, SendFails, SendTimeout, AbortC2u, history
  <1>5. CASE PumpTake \/ PumpRead \/ PumpReadFails \/ Write \/ AbortPump
    BY <1>5 DEF PumpTake, PumpRead, PumpReadFails, Write, AbortPump, history
  <1>6. CASE SessionEnds \/ HardCap
    BY <1>6 DEF SessionEnds, HardCap, history
  <1>7. CASE UNCHANGED vars
    BY <1>7 DEF vars, history
  <1> QED BY <1>1, <1>2, <1>3, <1>4, <1>5, <1>6, <1>7, ReadIsOffer, SinkIsDeliver
          DEF Next, C2uStep, PumpStep

\* Handshake, tasks, channel, timeouts and aborts implement a pipe from the limiter to the
\* upstream: it may break off, but never skips, repeats or alters a frame.
THEOREM TunnelIsAPipe == Spec => TunnelIsPipe
  <1>1. Init => ToUpstream!Init
    BY DEF Init, ToUpstream!Init
  <1> QED BY <1>1, NextPipe, Invariance, PTL DEF Spec, TunnelIsPipe, ToUpstream!Spec

-----------------------------------------------------------------------------
(* The tunnel comes to rest                                                 *)

\* What the handler and its tasks have before them: the steps of the handshake, those a
\* task in hand of a frame needs, and those of each frame that is queued somewhere.
C2uLoad(p) == IF p = "sending" THEN 4 ELSE IF p = "reading" THEN 1 ELSE 0
PumpLoad(p) == IF p \in {"sinking", "writing"} THEN 2 ELSE IF p = "select" THEN 1 ELSE 0
SessLoad(p) ==
    IF p = "resolving" THEN 6 ELSE IF p = "connecting" THEN 5
    ELSE IF p = "acking" THEN 4 ELSE IF p = "running" THEN 1 ELSE 0

Queued == 4 * Len(inq) + 2 * Len(chan) + 2 * Len(upq)
Busy == C2uLoad(c2u.pc) + PumpLoad(pump.pc) + SessLoad(sess)
Load == Queued + Busy

HandlerStep ==
    \/ Refuse \/ (\E valid \in BOOLEAN : Resolve(valid)) \/ Connect \/ Ack
    \/ C2uStep \/ PumpStep \/ SessionEnds \/ HardCap \/ AbortC2u \/ AbortPump

\* The load is a natural number, and only moves with what it is made of.
LEMMA LoadFacts ==
    ASSUME TypeOK, TypeOK'
    PROVE  /\ Queued \in Nat /\ Busy \in Nat /\ Queued' \in Nat /\ Busy' \in Nat
           /\ UNCHANGED <<inq, chan, upq>> => Queued' = Queued
           /\ UNCHANGED <<pump, sess>> => Busy' = Busy - C2uLoad(c2u.pc) + C2uLoad(c2u'.pc)
           /\ UNCHANGED <<c2u, sess>> => Busy' = Busy - PumpLoad(pump.pc) + PumpLoad(pump'.pc)
           /\ UNCHANGED <<c2u, pump>> => Busy' = Busy - SessLoad(sess) + SessLoad(sess')
           /\ UNCHANGED <<c2u, pump, sess>> => Busy' = Busy
  <1>1. /\ Len(inq) \in Nat /\ Len(chan) \in Nat /\ Len(upq) \in Nat
        /\ Len(inq') \in Nat /\ Len(chan') \in Nat /\ Len(upq') \in Nat
    BY LenProperties DEF TypeOK
  <1>2. Queued \in Nat /\ Queued' \in Nat
    BY <1>1 DEF Queued
  <1>3. \A p : C2uLoad(p) \in Nat /\ PumpLoad(p) \in Nat /\ SessLoad(p) \in Nat
    BY DEF C2uLoad, PumpLoad, SessLoad
  <1>4. /\ C2uLoad(c2u.pc) \in Nat /\ PumpLoad(pump.pc) \in Nat /\ SessLoad(sess) \in Nat
        /\ C2uLoad(c2u'.pc) \in Nat /\ PumpLoad(pump'.pc) \in Nat /\ SessLoad(sess') \in Nat
    BY <1>3
  <1>5. Busy = C2uLoad(c2u.pc) + PumpLoad(pump.pc) + SessLoad(sess)
        /\ Busy' = C2uLoad(c2u'.pc) + PumpLoad(pump'.pc) + SessLoad(sess')
    BY DEF Busy, C2uLoad, PumpLoad, SessLoad
  <1>6. UNCHANGED <<inq, chan, upq>> => Queued' = Queued
    BY DEF Queued
  <1>7. ASSUME UNCHANGED <<pump, sess>>
        PROVE  Busy' = Busy - C2uLoad(c2u.pc) + C2uLoad(c2u'.pc)
    BY <1>4, <1>5, <1>7
  <1>8. ASSUME UNCHANGED <<c2u, sess>>
        PROVE  Busy' = Busy - PumpLoad(pump.pc) + PumpLoad(pump'.pc)
    BY <1>4, <1>5, <1>8
  <1>9. ASSUME UNCHANGED <<c2u, pump>>
        PROVE  Busy' = Busy - SessLoad(sess) + SessLoad(sess')
    BY <1>4, <1>5, <1>9
  <1>10. Busy \in Nat /\ Busy' \in Nat
    BY <1>4, <1>5
  <1>11. UNCHANGED <<c2u, pump, sess>> => Busy' = Busy
    BY <1>5
  <1> QED BY <1>2, <1>6, <1>7, <1>8, <1>9, <1>10, <1>11

\* The load now and after a step.
LEMMA LoadSum == Load = Queued + Busy /\ Load' = Queued' + Busy'
  BY DEF Load

\* The load gets smaller when a part of it falls by more than the queues grow.
LEMMA LoadLess ==
    ASSUME Queued \in Nat, Busy \in Nat, Queued' \in Nat, Busy' \in Nat,
           NEW d \in Int, NEW x \in Nat, NEW y \in Nat,
           Queued' = Queued + d, Busy' = Busy - x + y, y + d < x
    PROVE  Load' < Load
  <1>1. ASSUME NEW q \in Nat, NEW b \in Nat, NEW r \in Nat, NEW c \in Nat, r = q + d, c = b - x + y
        PROVE  r + c < q + b
    BY <1>1
  <1>2. Queued' + Busy' < Queued + Busy
    BY <1>1
  <1> QED BY <1>2, LoadSum, Zenon

\* When the frames stay where they are, a task or the session that has less to do makes
\* the load smaller.
LEMMA BusyGoesDown ==
    ASSUME TypeOK, TypeOK', UNCHANGED <<inq, chan, upq>>,
           \/ UNCHANGED <<pump, sess>> /\ C2uLoad(c2u'.pc) < C2uLoad(c2u.pc)
           \/ UNCHANGED <<c2u, sess>> /\ PumpLoad(pump'.pc) < PumpLoad(pump.pc)
           \/ UNCHANGED <<c2u, pump>> /\ SessLoad(sess') < SessLoad(sess)
    PROVE  Load' < Load
  <1>1. \A p : C2uLoad(p) \in Nat /\ PumpLoad(p) \in Nat /\ SessLoad(p) \in Nat
    BY DEF C2uLoad, PumpLoad, SessLoad
  <1>2. /\ C2uLoad(c2u.pc) \in Nat /\ PumpLoad(pump.pc) \in Nat /\ SessLoad(sess) \in Nat
        /\ C2uLoad(c2u'.pc) \in Nat /\ PumpLoad(pump'.pc) \in Nat /\ SessLoad(sess') \in Nat
    BY <1>1
  <1>3. Queued' \in Nat /\ Queued \in Nat /\ Busy \in Nat /\ Busy' \in Nat
    BY LoadFacts
  <1>4. 0 \in Int /\ Queued' = Queued + 0
    <2>1. Queued' = Queued
      BY LoadFacts
    <2> QED BY <1>3, <2>1
  <1>5. CASE UNCHANGED <<pump, sess>> /\ C2uLoad(c2u'.pc) < C2uLoad(c2u.pc)
    <2>1. Busy' = Busy - C2uLoad(c2u.pc) + C2uLoad(c2u'.pc)
      BY <1>5, LoadFacts
    <2>2. C2uLoad(c2u'.pc) + 0 < C2uLoad(c2u.pc)
      BY <1>2, <1>5
    <2> QED BY <1>2, <1>3, <1>4, <2>1, <2>2, LoadLess
  <1>6. CASE UNCHANGED <<c2u, sess>> /\ PumpLoad(pump'.pc) < PumpLoad(pump.pc)
    <2>1. Busy' = Busy - PumpLoad(pump.pc) + PumpLoad(pump'.pc)
      BY <1>6, LoadFacts
    <2>2. PumpLoad(pump'.pc) + 0 < PumpLoad(pump.pc)
      BY <1>2, <1>6
    <2> QED BY <1>2, <1>3, <1>4, <2>1, <2>2, LoadLess
  <1>7. CASE UNCHANGED <<c2u, pump>> /\ SessLoad(sess') < SessLoad(sess)
    <2>1. Busy' = Busy - SessLoad(sess) + SessLoad(sess')
      BY <1>7, LoadFacts
    <2>2. SessLoad(sess') + 0 < SessLoad(sess)
      BY <1>2, <1>7
    <2> QED BY <1>2, <1>3, <1>4, <2>1, <2>2, LoadLess
  <1> QED BY <1>5, <1>6, <1>7

\* A queue gets shorter by one when its head is taken and longer by one when a frame is
\* appended.
LEMMA QueueLengths ==
    ASSUME NEW q \in Seq(Frame)
    PROVE  /\ Len(q) \in Nat
           /\ q # <<>> => Len(Tail(q)) = Len(q) - 1
           /\ \A f \in Frame : Len(Append(q, f)) = Len(q) + 1
  BY LenProperties, HeadTailProperties, AppendProperties

\* The handshake, the session future and the aborts only go forward.
LEMMA SessionLoad ==
    ASSUME IInv, TypeOK',
           \/ Refuse \/ (\E valid \in BOOLEAN : Resolve(valid)) \/ Connect \/ Ack
           \/ SessionEnds \/ HardCap \/ AbortC2u \/ AbortPump
    PROVE  Load' < Load
  <1>0. /\ TypeOK
        /\ c2u.pc \in {"none", "reading", "sending", "ended", "aborted"}
        /\ pump.pc \in {"none", "select", "sinking", "writing", "ended", "aborted"}
    BY DEF IInv, TypeOK
  <1>1. CASE Refuse \/ (\E valid \in BOOLEAN : Resolve(valid)) \/ Connect
    <2>1. /\ UNCHANGED <<inq, chan, upq, c2u, pump>>
          /\ \/ sess = "resolving" /\ sess' \in {"connecting", "over"}
             \/ sess = "connecting" /\ sess' \in {"acking", "over"}
      BY <1>1 DEF Refuse, Resolve, Connect, task
    <2>2. SessLoad(sess') < SessLoad(sess)
      BY <2>1 DEF SessLoad
    <2> QED BY <1>0, <2>1, <2>2, BusyGoesDown
  <1>2. CASE Ack
    <2>1. UNCHANGED <<inq, chan, upq>> /\ sess = "acking" /\ pump.pc = "none" /\ c2u.pc = "none"
      BY <1>2 DEF Ack, IInv, PhaseInv, Before
    <2>2. \/ sess' = "over" /\ UNCHANGED <<c2u, pump>>
          \/ sess' = "running" /\ c2u'.pc = "reading" /\ pump'.pc = "select"
      BY <1>2 DEF Ack
    <2>3. 4 \in Nat /\ Busy = 4
      BY <2>1 DEF Busy, C2uLoad, PumpLoad, SessLoad
    <2>4. Busy' \in 0..3
      BY <2>1, <2>2 DEF Busy, C2uLoad, PumpLoad, SessLoad
    <2>5. 0 \in Int /\ Queued' = Queued + 0 /\ Queued \in Nat /\ Queued' \in Nat
      <3>1. Queued' = Queued /\ Queued \in Nat
        BY <1>0, <2>1, LoadFacts
      <3> QED BY <3>1
    <2>6. ASSUME NEW a, NEW b, a = 4, b \in 0..3
          PROVE  b \in Nat /\ b = a - 4 + b /\ b + 0 < 4
      BY <2>6
    <2>7. Busy' \in Nat /\ Busy' = Busy - 4 + Busy' /\ Busy' + 0 < 4
      BY <2>3, <2>4, <2>6
    <2> QED BY <2>3, <2>5, <2>7, LoadLess
  <1>3. CASE SessionEnds \/ HardCap
    <2>1. UNCHANGED <<inq, chan, upq, c2u, pump>> /\ sess = "running" /\ sess' = "over"
      BY <1>3 DEF SessionEnds, HardCap, task
    <2>2. SessLoad(sess') < SessLoad(sess)
      BY <2>1 DEF SessLoad
    <2> QED BY <1>0, <2>1, <2>2, BusyGoesDown
  <1>4. CASE AbortC2u
    <2>1. /\ UNCHANGED <<inq, chan, upq, sess, pump>> /\ c2u.pc \in {"reading", "sending"}
          /\ c2u'.pc = "aborted"
      BY <1>0, <1>4 DEF AbortC2u, Stopped, TypeOK
    <2>2. C2uLoad(c2u'.pc) < C2uLoad(c2u.pc)
      BY <2>1 DEF C2uLoad
    <2> QED BY <1>0, <2>1, <2>2, BusyGoesDown
  <1>5. CASE AbortPump
    <2>1. /\ UNCHANGED <<inq, chan, upq, sess, c2u>> /\ pump.pc \in {"select", "sinking", "writing"}
          /\ pump'.pc = "aborted"
      BY <1>0, <1>5 DEF AbortPump, Stopped, TypeOK
    <2>2. PumpLoad(pump'.pc) < PumpLoad(pump.pc)
      BY <2>1 DEF PumpLoad
    <2> QED BY <1>0, <2>1, <2>2, BusyGoesDown
  <1> QED BY <1>1, <1>2, <1>3, <1>4, <1>5

\* client_to_up works off what the client has sent.
LEMMA C2uLoadGoesDown ==
    ASSUME IInv, TypeOK', C2uStep
    PROVE  Load' < Load
  <1>0. /\ TypeOK /\ inq \in Seq(Frame) /\ chan \in Seq(Frame)
        /\ Len(inq) \in Nat /\ Len(chan) \in Nat /\ Len(upq) \in Nat
        /\ Queued \in Nat /\ Busy \in Nat /\ Queued' \in Nat /\ Busy' \in Nat
    BY LenProperties, LoadFacts DEF IInv, TypeOK
  <1>1. CASE ReadFrame
    <2>1. /\ UNCHANGED <<chan, upq, sess, pump>> /\ inq # <<>> /\ inq' = Tail(inq)
          /\ c2u.pc = "reading" /\ c2u'.pc \in {"sending", "ended"}
      BY <1>1 DEF ReadFrame, C2uEnds
    <2>2. Len(inq') = Len(inq) - 1
      BY <1>0, <2>1, QueueLengths
    <2>3. -4 \in Int /\ Queued' = Queued + (-4)
      BY <1>0, <2>1, <2>2 DEF Queued
    <2>4. C2uLoad(c2u'.pc) \in Nat /\ C2uLoad(c2u.pc) \in Nat /\ C2uLoad(c2u'.pc) + (-4) < C2uLoad(c2u.pc)
      BY <2>1 DEF C2uLoad
    <2>5. Busy' = Busy - C2uLoad(c2u.pc) + C2uLoad(c2u'.pc)
      BY <1>0, <2>1, LoadFacts
    <2> QED BY <1>0, <2>3, <2>4, <2>5, LoadLess
  <1>2. CASE DropFrame
    <2>1. UNCHANGED <<chan, upq, sess, pump, c2u>> /\ inq # <<>> /\ inq' = Tail(inq)
      BY <1>2 DEF DropFrame, task
    <2>2. Len(inq') = Len(inq) - 1
      BY <1>0, <2>1, QueueLengths
    <2>3. -4 \in Int /\ Queued' = Queued + (-4)
      BY <1>0, <2>1, <2>2 DEF Queued
    <2>4. C2uLoad(c2u'.pc) \in Nat /\ C2uLoad(c2u.pc) \in Nat /\ C2uLoad(c2u'.pc) + (-4) < C2uLoad(c2u.pc)
      BY <2>1 DEF C2uLoad
    <2>5. Busy' = Busy - C2uLoad(c2u.pc) + C2uLoad(c2u'.pc)
      BY <1>0, <2>1, LoadFacts
    <2> QED BY <1>0, <2>3, <2>4, <2>5, LoadLess
  <1>3. CASE ReadFails \/ SendFails \/ SendTimeout
    <2>1. /\ UNCHANGED <<inq, chan, upq, sess, pump>>
          /\ \/ c2u.pc = "reading" /\ c2u'.pc = "ended"
             \/ c2u.pc = "sending" /\ c2u'.pc \in {"reading", "ended"}
      <3>1. CASE ReadFails \/ SendTimeout
        BY <3>1 DEF ReadFails, SendTimeout, C2uEnds
      <3>2. CASE SendFails
        <4>1. c2u \in [pc: {"none", "reading", "sending", "ended", "aborted"}, msg: Frame]
          BY <1>0 DEF TypeOK
        <4> QED BY <3>2, <4>1 DEF SendFails
      <3> QED BY <1>3, <3>1, <3>2
    <2>2. C2uLoad(c2u'.pc) < C2uLoad(c2u.pc)
      BY <2>1 DEF C2uLoad
    <2> QED BY <1>0, <2>1, <2>2, BusyGoesDown
  <1>4. CASE SendDone
    <2>1. /\ UNCHANGED <<inq, upq, sess, pump>> /\ chan' = Append(chan, c2u.msg) /\ c2u.msg \in Frame
          /\ c2u.pc = "sending" /\ c2u'.pc \in {"reading", "ended"}
      BY <1>4 DEF SendDone, IInv, TypeOK
    <2>2. Len(chan') = Len(chan) + 1
      BY <1>0, <2>1, QueueLengths
    <2>3. 2 \in Int /\ Queued' = Queued + 2
      BY <1>0, <2>1, <2>2 DEF Queued
    <2>4. C2uLoad(c2u'.pc) \in Nat /\ C2uLoad(c2u.pc) \in Nat /\ C2uLoad(c2u'.pc) + 2 < C2uLoad(c2u.pc)
      BY <2>1 DEF C2uLoad
    <2>5. Busy' = Busy - C2uLoad(c2u.pc) + C2uLoad(c2u'.pc)
      BY <1>0, <2>1, LoadFacts
    <2> QED BY <1>0, <2>3, <2>4, <2>5, LoadLess
  <1> QED BY <1>1, <1>2, <1>3, <1>4 DEF C2uStep

\* pump works off the channel and what the upstream has sent.
LEMMA PumpLoadGoesDown ==
    ASSUME IInv, TypeOK', PumpStep
    PROVE  Load' < Load
  <1>0. /\ TypeOK /\ upq \in Seq(Frame) /\ chan \in Seq(Frame)
        /\ Len(inq) \in Nat /\ Len(chan) \in Nat /\ Len(upq) \in Nat
        /\ Queued \in Nat /\ Busy \in Nat /\ Queued' \in Nat /\ Busy' \in Nat
    BY LenProperties, LoadFacts DEF IInv, TypeOK
  <1>1. CASE PumpTake \/ PumpRead
    <2>1. /\ UNCHANGED <<inq, sess, c2u>>
          /\ pump.pc = "select" /\ pump'.pc \in {"sinking", "writing", "ended"}
          /\ \/ UNCHANGED upq /\ chan # <<>> /\ chan' = Tail(chan)
             \/ UNCHANGED chan /\ upq # <<>> /\ upq' = Tail(upq)
      BY <1>1 DEF PumpTake, PumpRead
    <2>2. \/ UNCHANGED <<inq, upq>> /\ Len(chan') = Len(chan) - 1
          \/ UNCHANGED <<inq, chan>> /\ Len(upq') = Len(upq) - 1
      BY <1>0, <2>1, QueueLengths
    <2>3. -2 \in Int /\ Queued' = Queued + (-2)
      BY <1>0, <2>2 DEF Queued
    <2>4. PumpLoad(pump'.pc) \in Nat /\ PumpLoad(pump.pc) \in Nat /\ PumpLoad(pump'.pc) + (-2) < PumpLoad(pump.pc)
      BY <2>1 DEF PumpLoad
    <2>5. Busy' = Busy - PumpLoad(pump.pc) + PumpLoad(pump'.pc)
      BY <1>0, <2>1, LoadFacts
    <2> QED BY <1>0, <2>3, <2>4, <2>5, LoadLess
  <1>2. CASE Sink \/ PumpReadFails \/ Write
    <2>1. /\ UNCHANGED <<inq, chan, upq, sess, c2u>>
          /\ \/ pump.pc = "select" /\ pump'.pc = "ended"
             \/ pump.pc \in {"sinking", "writing"} /\ pump'.pc \in {"select", "ended"}
      <3>1. pump \in [pc: {"none", "select", "sinking", "writing", "ended", "aborted"}, msg: Frame]
        BY <1>0 DEF TypeOK
      <3>2. CASE Sink
        BY <3>1, <3>2 DEF Sink
      <3>3. CASE PumpReadFails
        BY <3>3 DEF PumpReadFails
      <3>4. CASE Write
        BY <3>1, <3>4 DEF Write
      <3> QED BY <1>2, <3>2, <3>3, <3>4
    <2>2. PumpLoad(pump'.pc) < PumpLoad(pump.pc)
      BY <2>1 DEF PumpLoad
    <2> QED BY <1>0, <2>1, <2>2, BusyGoesDown
  <1> QED BY <1>1, <1>2 DEF PumpStep

\* A tunnel does no work of its own making.  Each step of handle_ws_stream, client_to_up
\* or pump, timeouts and aborts included, makes a natural number smaller, and only a frame
\* that one of the two sides sends makes it larger: no frame is tried twice.
THEOREM TunnelComesToRest ==
    Spec => [][/\ Load \in Nat
               /\ HandlerStep => Load' < Load
               /\ UNCHANGED sent => Load' <= Load]_vars
  <1> DEFINE Progress ==
               /\ Load \in Nat
               /\ HandlerStep => Load' < Load
               /\ UNCHANGED sent => Load' <= Load
  <1>1. IInv /\ IInv' /\ [Next]_vars => [Progress]_vars
    <2> SUFFICES ASSUME IInv, IInv', [Next]_vars PROVE Progress
      OBVIOUS
    <2>1. TypeOK /\ TypeOK'
      BY DEF IInv
    <2>2. Load \in Nat /\ Load' \in Nat
      BY <2>1, LoadFacts DEF Load
    <2>3. HandlerStep => Load' < Load
      BY <2>1, SessionLoad, C2uLoadGoesDown, PumpLoadGoesDown DEF HandlerStep
    <2>4. ASSUME UNCHANGED sent, ~HandlerStep
          PROVE  Load' = Load
      <3>1. \A k \in Kind : ~ClientSends(k) /\ ~UpSends(k)
        <4>1. sent.client \in Nat /\ sent.up \in Nat
          BY DEF IInv, TypeOK
        <4>2. ASSUME NEW k \in Kind, ClientSends(k) PROVE FALSE
          <5>1. sent'.client = sent.client + 1
            BY <4>2 DEF ClientSends, IInv, TypeOK
          <5> QED BY <2>4, <4>1, <5>1
        <4>3. ASSUME NEW k \in Kind, UpSends(k) PROVE FALSE
          <5>1. sent'.up = sent.up + 1
            BY <4>3 DEF UpSends, IInv, TypeOK
          <5> QED BY <2>4, <4>1, <5>1
        <4> QED BY <4>2, <4>3
      <3>2. ClientLost \/ UpLost \/ UpStalls \/ ClientStalls \/ UNCHANGED vars
        BY <2>4, <3>1 DEF Next, HandlerStep
      <3>3. UNCHANGED <<inq, chan, upq, sess, c2u, pump>>
        BY <3>2 DEF ClientLost, UpLost, UpStalls, ClientStalls, vars, task
      <3> QED BY <2>1, <3>3, LoadFacts DEF Load
    <2> QED BY <2>2, <2>3, <2>4
  <1>2. IInv /\ [Next]_vars => IInv'
    BY NextInv
  <1> QED BY <1>1, <1>2, Invariance, PTL DEF Spec

\* While the session runs both tasks exist and have not been aborted.
RunInv ==
    sess = "running" => c2u.pc \in {"reading", "sending", "ended"}
                        /\ pump.pc \in {"select", "sinking", "writing", "ended"}

\* The tasks are spawned with the session and aborted after it.
LEMMA NextRun == IInv /\ RunInv /\ [Next]_vars => RunInv'
  <1> SUFFICES ASSUME IInv, RunInv, [Next]_vars, sess' = "running"
               PROVE  c2u'.pc \in {"reading", "sending", "ended"}
                      /\ pump'.pc \in {"select", "sinking", "writing", "ended"}
    BY DEF RunInv
  <1>0. /\ c2u \in [pc: {"none", "reading", "sending", "ended", "aborted"}, msg: Frame]
        /\ pump \in [pc: {"none", "select", "sinking", "writing", "ended", "aborted"}, msg: Frame]
    BY DEF IInv, TypeOK
  <1>1. CASE Ack
    BY <1>1 DEF Ack
  <1>2. CASE C2uStep
    <2>1. sess = "running" /\ UNCHANGED pump
      BY <1>2 DEF C2uStep, ReadFrame, DropFrame, ReadFails, SendDone, SendFails, SendTimeout, task
    <2>2. c2u'.pc \in {"reading", "sending", "ended"}
      <3>1. CASE ReadFrame \/ ReadFails \/ SendTimeout
        BY <3>1 DEF ReadFrame, ReadFails, SendTimeout, C2uEnds
      <3>2. CASE DropFrame
        BY <2>1, <3>2 DEF DropFrame, task, RunInv
      <3>3. CASE SendDone
        BY <3>3 DEF SendDone
      <3>4. CASE SendFails
        BY <1>0, <3>4 DEF SendFails
      <3> QED BY <1>2, <3>1, <3>2, <3>3, <3>4 DEF C2uStep
    <2> QED BY <2>1, <2>2 DEF RunInv
  <1>3. CASE PumpStep
    <2>1. sess = "running" /\ UNCHANGED c2u
      BY <1>3 DEF PumpStep, PumpTake, Sink, PumpRead, PumpReadFails, Write
    <2>2. pump'.pc \in {"select", "sinking", "writing", "ended"}
      <3>1. CASE PumpTake \/ PumpRead \/ PumpReadFails
        BY <3>1 DEF PumpTake, PumpRead, PumpReadFails
      <3>2. CASE Sink
        BY <1>0, <3>2 DEF Sink
      <3>3. CASE Write
        BY <1>0, <3>3 DEF Write
      <3> QED BY <1>3, <3>1, <3>2, <3>3 DEF PumpStep
    <2> QED BY <2>1, <2>2 DEF RunInv
  <1>4. CASE UNCHANGED <<sess, c2u, pump>>
    BY <1>4 DEF RunInv
  <1>5. Ack \/ C2uStep \/ PumpStep \/ UNCHANGED <<sess, c2u, pump>>
    <2>1. ~SessionEnds /\ ~HardCap /\ ~AbortC2u /\ ~AbortPump
      BY DEF SessionEnds, HardCap, AbortC2u, AbortPump
    <2>2. ~Refuse /\ ~Connect /\ \A valid \in BOOLEAN : ~Resolve(valid)
      BY DEF Refuse, Connect, Resolve
    <2>3. ASSUME \/ \E k \in Kind : ClientSends(k) \/ UpSends(k)
                 \/ ClientLost \/ UpLost \/ UpStalls \/ ClientStalls \/ UNCHANGED vars
          PROVE  UNCHANGED <<sess, c2u, pump>>
      BY <2>3 DEF ClientSends, UpSends, ClientLost, UpLost, UpStalls, ClientStalls, vars, task
    <2> QED BY <2>1, <2>2, <2>3 DEF Next
  <1> QED BY <1>1, <1>2, <1>3, <1>4, <1>5

\* The guards of the handler's and its tasks' steps, those of the 24h cap apart.
SessionCanGoOn ==
    \/ sess \in {"resolving", "connecting", "acking"}
    \/ sess = "running" /\ (c2u.pc = "ended" \/ pump.pc = "ended")

C2uCanGoOn ==
    \/ c2u.pc = "reading" /\ (inq # <<>> \/ clientGone)
    \/ c2u.pc = "sending" /\ \/ pump.pc \in Stopped
                             \/ Len(chan) < Cap
                             \/ c2u.msg.kind = "data" /\ Len(chan) = Cap

PumpCanGoOn ==
    \/ pump.pc = "select" /\ (chan # <<>> \/ upq # <<>> \/ upGone)
    \/ pump.pc = "sinking" /\ (upGone \/ upReads)
    \/ pump.pc = "writing" /\ (clReads \/ clientGone)

\* The two tasks never wait on each other for good: when a side is lost and whoever is
\* left reads what it is sent, the handler or one of its tasks can go on until the session
\* is over, a full channel and a frame of any kind in hand included.  And a data frame in
\* client_to_up's hands never depends on anybody: the send, its failure or its timeout is
\* always due.
THEOREM LostSideNotStuck ==
    Spec => [](/\ (clientGone \/ upGone) /\ upReads /\ clReads /\ sess # "over" =>
                    SessionCanGoOn \/ C2uCanGoOn \/ PumpCanGoOn
               /\ c2u.pc = "sending" /\ c2u.msg.kind = "data" => C2uCanGoOn)
  <1> DEFINE NotStuck ==
               /\ (clientGone \/ upGone) /\ upReads /\ clReads /\ sess # "over" =>
                    SessionCanGoOn \/ C2uCanGoOn \/ PumpCanGoOn
               /\ c2u.pc = "sending" /\ c2u.msg.kind = "data" => C2uCanGoOn
  <1>1. Init => RunInv
    BY DEF Init, RunInv
  <1>2. IInv /\ RunInv => NotStuck
    <2> SUFFICES ASSUME IInv, RunInv PROVE NotStuck
      OBVIOUS
    <2>1. /\ chan \in Seq(Frame) /\ Len(chan) \in Nat /\ Len(chan) <= Cap /\ Cap \in Nat /\ Cap > 0
          /\ sess \in {"resolving", "connecting", "acking", "running", "over"}
      BY CapAssumption, LenProperties DEF IInv, TypeOK
    <2>2. Len(chan) < Cap \/ Len(chan) = Cap
      BY <2>1
    <2>3. Len(chan) = Cap => chan # <<>>
      <3>1. chan = <<>> => Len(chan) = 0
        BY <2>1, EmptySeq
      <3> QED BY <2>1, <3>1
    <2>4. c2u.pc = "sending" /\ c2u.msg.kind = "data" => C2uCanGoOn
      BY <2>2 DEF C2uCanGoOn
    <2>5. ASSUME clientGone \/ upGone, upReads, clReads, sess # "over"
          PROVE  SessionCanGoOn \/ C2uCanGoOn \/ PumpCanGoOn
      <3>1. CASE sess # "running"
        BY <2>1, <2>5, <3>1 DEF SessionCanGoOn
      <3>2. CASE sess = "running"
        <4>1. /\ c2u.pc \in {"reading", "sending", "ended"}
              /\ pump.pc \in {"select", "sinking", "writing", "ended"}
          BY <3>2 DEF RunInv
        <4>2. CASE c2u.pc = "ended" \/ pump.pc = "ended"
          BY <3>2, <4>2 DEF SessionCanGoOn
        <4>3. CASE pump.pc \in {"sinking", "writing"}
          BY <2>5, <4>3 DEF PumpCanGoOn
        <4>4. CASE pump.pc = "select" /\ c2u.pc = "reading"
          BY <2>5, <4>4 DEF PumpCanGoOn, C2uCanGoOn
        <4>5. CASE pump.pc = "select" /\ c2u.pc = "sending"
          BY <2>2, <2>3, <4>5 DEF PumpCanGoOn, C2uCanGoOn
        <4> QED BY <4>1, <4>2, <4>3, <4>4, <4>5
      <3> QED BY <3>1, <3>2
    <2> QED BY <2>4, <2>5
  <1> HIDE DEF NotStuck
  <1>3. Spec => []NotStuck
    BY <1>1, <1>2, NextRun, Invariance, PTL DEF Spec
  <1> QED BY <1>3 DEF NotStuck
=============================================================================
