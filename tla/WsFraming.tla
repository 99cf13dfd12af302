----------------------------- MODULE WsFraming ------------------------------
(***************************************************************************)
(* The bytes of a v1 stream: the length-prefixed handshake and the WsFrame *)
(* codec, encode() at the writer and read_from() at the provider, up to    *)
(* the message client_to_up makes of a frame for the upstream.             *)
(*                                                                         *)
(* The writer's task may be aborted inside write_all(): SendStream is then *)
(* dropped, which finishes the stream after the bytes already written.  A  *)
(* lost connection resets it.  A byte below 128 stands for valid UTF-8 and *)
(* any other for an invalid sequence.  read_exact() is one step: it takes  *)
(* n bytes once they are there and fails when the stream ends before.      *)
(* The limiter and the channel behind the reader are left to WsTunnel.     *)
(***************************************************************************)
EXTENDS Integers, Sequences, SequencesExt

CONSTANTS MAX_FRAME,     \* limit of a handshake (8 MiB)
          MAX_WS_FRAME,  \* limit of a frame's payload (8 MiB)
          Body,          \* payloads, as sequences of bytes
          CloseCode,     \* close codes the client uses
          OtherKind,     \* kind bytes that are no ws_kind
          MaxFrames      \* bound on the frames written

ASSUME LimitAssumption == MAX_FRAME \in Nat \ {0} /\ MAX_WS_FRAME \in Nat /\ MaxFrames \in Nat

Byte == 0..255

\* A natural number of at most four bytes (u32).
FitsU32(n) == n \in Nat /\ n \div 16777216 \in Byte

\* A payload is bytes, fewer than 2^32 of them with the code of a Close, and may be empty;
\* kinds are u8 and close codes u16.
ASSUME WidthAssumption ==
    /\ \A b \in Body : b \in Seq(Byte) /\ FitsU32(Len(b) + 2)
    /\ <<>> \in Body
    /\ \A c \in CloseCode : c \in Nat /\ c \div 256 \in Byte
    /\ OtherKind \subseteq Byte

VARIABLES hs,       \* the handshake the client wrote, or NoHs
          written,  \* frames written whole and acceptable, in order
          wire,     \* bytes on their way
          ended,    \* "open", "finished" or "reset"
          torn,     \* bytes of a frame cut off by the abort of its writer
          bad,      \* something malformed was written, always last
          rd,       \* the reader: where it is, kind and length of the frame it reads
          req,      \* the handshake it has read
          out,      \* messages given to the channel to the upstream
          result    \* how the reader ended

client == <<hs, written, ended, torn, bad>>
vars == <<client, wire, rd, req, out, result>>

TEXT == 1
BINARY == 2
PING == 9
PONG == 10
CLOSE == 8

Frame == [kind: {TEXT, BINARY, PING, PONG}, code: {0}, body: Body]
           \cup [kind: {CLOSE}, code: CloseCode \cup {1005}, body: Body]

NoHs == <<-1>>

----------------------------------------------------------------------------
(* Numbers and text as bytes                                               *)

LE32(n) == <<n % 256, (n \div 256) % 256, (n \div 65536) % 256, n \div 16777216>>

FromLE32(b) == b[1] + 256 * b[2] + 65536 * b[3] + 16777216 * b[4]

MutBE16(n) == <<n \div 256, n>>

BE16(n) == <<n \div 256, n % 256>>

Utf8(b) == \A i \in DOMAIN b : b[i] < 128

\* from_utf8_lossy(): U+FFFD for what is not UTF-8.
Lossy(b) == FlattenSeq([i \in DOMAIN b |-> IF b[i] < 128 THEN <<b[i]>> ELSE <<239, 191, 189>>])

----------------------------------------------------------------------------
(* WsFrame                                                                 *)

Payload(f) == IF f.kind = CLOSE THEN BE16(f.code) \o f.body ELSE f.body

Wire(kind, payload) == <<kind>> \o LE32(Len(payload)) \o payload

Encode(f) == Wire(f.kind, Payload(f))

\* Close without a status code, as the client may also write it.
ShortClose == Wire(CLOSE, <<>>)

\* read_from() makes a frame of a kind and a payload, or returns an error.
Decodes(kind, p) ==
    \/ kind \in {BINARY, PING, PONG, CLOSE}
    \/ kind = TEXT /\ Utf8(p)

MutDecode(kind, p) ==
    IF kind = CLOSE /\ Len(p) >= 2
    THEN [kind |-> CLOSE, code |-> 256 * p[1] + p[2], body |-> Lossy(Tail(p))]
    ELSE [kind |-> kind, code |-> IF kind = CLOSE THEN 1005 ELSE 0, body |-> p]

Decode(kind, p) ==
    IF kind = CLOSE
    THEN IF Len(p) >= 2
         THEN [kind |-> CLOSE, code |-> 256 * p[1] + p[2], body |-> Lossy(SubSeq(p, 3, Len(p)))]
         ELSE [kind |-> CLOSE, code |-> 1005, body |-> <<>>]
    ELSE [kind |-> kind, code |-> 0, body |-> p]

Reserved == {1005, 1006, 1015}

MutSanitize(f) == IF f.kind = CLOSE /\ f.code = 1006 THEN [f EXCEPT !.code = 1000] ELSE f

\* client_to_up passes no reserved close code on.
Sanitize(f) == IF f.kind = CLOSE /\ f.code \in Reserved THEN [f EXCEPT !.code = 1000] ELSE f

----------------------------------------------------------------------------
Init ==
    /\ hs = NoHs /\ written = <<>> /\ wire = <<>>
    /\ ended = "open" /\ torn = 0 /\ bad = FALSE
    /\ rd = [pc |-> "hslen", kind |-> 0, need |-> 4]
    /\ req = NoHs /\ out = <<>> /\ result = "none"

(* The writer                                                              *)

CanWrite == ended = "open" /\ ~bad /\ hs # NoHs /\ Len(written) < MaxFrames

\* write_handshake_v1(): too long a request is refused before a byte is written, an
\* empty one is written although no reader takes it.
WriteHandshake(j) ==
    /\ ended = "open" /\ hs = NoHs
    /\ Len(j) <= MAX_FRAME
    /\ hs' = j
    /\ wire' = wire \o LE32(Len(j)) \o j
    /\ bad' = (j = <<>>)
    /\ UNCHANGED <<written, ended, torn, rd, req, out, result>>

\* A client with a codec of its own may also write one that is too long.
WriteLongHandshake(j) ==
    /\ ended = "open" /\ hs = NoHs
    /\ Len(j) > MAX_FRAME
    /\ hs' = j
    /\ wire' = wire \o LE32(Len(j)) \o j
    /\ bad' = TRUE
    /\ UNCHANGED <<written, ended, torn, rd, req, out, result>>

\* A frame is encoded and written.  encode() does not look at MAX_WS_FRAME.
Write(f) ==
    /\ CanWrite
    /\ f.kind = TEXT => Utf8(f.body)
    /\ wire' = wire \o Encode(f)
    /\ bad' = (Len(Payload(f)) > MAX_WS_FRAME)
    /\ written' = IF bad' THEN written ELSE Append(written, f)
    /\ UNCHANGED <<hs, ended, torn, rd, req, out, result>>

\* What only a client with a codec of its own writes: a Close without a code, text
\* that is not UTF-8, a kind nobody knows.
WriteShortClose ==
    /\ CanWrite
    /\ wire' = wire \o ShortClose
    /\ written' = Append(written, Decode(CLOSE, <<>>))
    /\ UNCHANGED <<hs, ended, torn, bad, rd, req, out, result>>

WriteRaw(kind, p) ==
    /\ CanWrite
    /\ ~Decodes(kind, p)
    /\ wire' = wire \o Wire(kind, p)
    /\ bad' = TRUE
    /\ UNCHANGED <<hs, written, ended, torn, rd, req, out, result>>

\* The writer is aborted after n bytes of a frame.
WriteTorn(f, n) ==
    /\ CanWrite
    /\ n \in 1..(Len(Encode(f)) - 1)
    /\ Len(Payload(f)) <= MAX_WS_FRAME
    /\ wire' = wire \o SubSeq(Encode(f), 1, n)
    /\ torn' = n
    /\ ended' = "finished"
    /\ UNCHANGED <<hs, written, bad, rd, req, out, result>>

Finish ==
    /\ ended = "open" /\ ended' = "finished"
    /\ UNCHANGED <<hs, written, torn, bad, wire, rd, req, out, result>>

\* The connection is lost, and with it some of what was on its way.
Reset ==
    /\ ended # "reset" /\ ended' = "reset"
    /\ \E n \in 0..Len(wire) : wire' = SubSeq(wire, 1, n)
    /\ UNCHANGED <<hs, written, torn, bad, rd, req, out, result>>

----------------------------------------------------------------------------
(* The reader                                                              *)

\* read_exact() of rd.need bytes.
Ready == rd.pc # "over" /\ Len(wire) >= rd.need
Bytes == SubSeq(wire, 1, rd.need)
Consume == wire' = SubSeq(wire, rd.need + 1, Len(wire))

Await(pc, kind, need) == rd' = [pc |-> pc, kind |-> kind, need |-> need]
ReaderEnds(r) == Await("over", 0, 0) /\ result' = r

ReadHsLen ==
    /\ Ready /\ rd.pc = "hslen" /\ Consume
    /\ LET len == FromLE32(Bytes) IN
         IF len = 0 \/ len > MAX_FRAME
         THEN ReaderEnds("error")
         ELSE Await("hs", 0, len) /\ UNCHANGED result
    /\ UNCHANGED <<client, req, out>>

ReadHs ==
    /\ Ready /\ rd.pc = "hs" /\ Consume
    /\ req' = Bytes
    /\ Await("header", 0, 5)
    /\ UNCHANGED <<client, out, result>>

ReadHeader ==
    /\ Ready /\ rd.pc = "header" /\ Consume
    /\ LET len == FromLE32(Tail(Bytes)) IN
         IF len > MAX_WS_FRAME
         THEN ReaderEnds("error")
         ELSE Await("payload", Bytes[1], len) /\ UNCHANGED result
    /\ UNCHANGED <<client, req, out>>

\* After a Close client_to_up stops reading.
ReadPayload ==
    /\ Ready /\ rd.pc = "payload" /\ Consume
    /\ IF ~Decodes(rd.kind, Bytes)
       THEN ReaderEnds("error") /\ UNCHANGED out
       ELSE /\ out' = Append(out, Sanitize(Decode(rd.kind, Bytes)))
            /\ IF rd.kind = CLOSE THEN ReaderEnds("closed")
               ELSE Await("header", 0, 5) /\ UNCHANGED result
    /\ UNCHANGED <<client, req>>

MutReadEof ==
    /\ rd.pc # "over" /\ Len(wire) < rd.need /\ ended = "finished"
    /\ ReaderEnds("eof")
    /\ UNCHANGED <<client, wire, req, out>>

\* The stream is finished before the last byte: UnexpectedEof, which read_from() takes
\* for the end of the tunnel if it was reading a header, whole or not.
ReadEof ==
    /\ rd.pc # "over" /\ Len(wire) < rd.need /\ ended = "finished"
    /\ ReaderEnds(IF rd.pc = "header" THEN "eof" ELSE "error")
    /\ UNCHANGED <<client, wire, req, out>>

MutReadReset == FALSE /\ UNCHANGED vars

ReadReset ==
    /\ rd.pc # "over" /\ Len(wire) < rd.need /\ ended = "reset"
    /\ ReaderEnds("error")
    /\ UNCHANGED <<client, wire, req, out>>

Read == ReadHsLen \/ ReadHs \/ ReadHeader \/ ReadPayload \/ ReadEof \/ ReadReset

Next ==
    \/ \E j \in Body : WriteHandshake(j) \/ WriteLongHandshake(j)
    \/ \E f \in Frame : Write(f)
    \/ WriteShortClose
    \/ \E kind \in {TEXT} \cup OtherKind, p \in Body : WriteRaw(kind, p)
    \/ \E f \in Frame : \E n \in 1..(MAX_WS_FRAME + 5) : WriteTorn(f, n)
    \/ Finish
    \/ Reset
    \/ Read

Spec == Init /\ [][Next]_vars

\* The reader's task runs.
FairSpec == Spec /\ WF_vars(Read)

----------------------------------------------------------------------------
(* Properties                                                              *)

\* The wire holds bytes, and the reader passes on only frames of the five known kinds.
TypeOK ==
    /\ hs \in Body \cup {NoHs} /\ req \in Body \cup {NoHs}
    /\ written \in Seq(Frame)
    /\ wire \in Seq(Byte)
    /\ ended \in {"open", "finished", "reset"}
    /\ torn \in 0..(MAX_WS_FRAME + 5) /\ bad \in BOOLEAN
    /\ rd.pc \in {"hslen", "hs", "header", "payload", "over"} /\ rd.kind \in Byte
    /\ rd.need \in Nat
    /\ \A i \in DOMAIN out : out[i].kind \in {TEXT, BINARY, PING, PONG, CLOSE}
    /\ result \in {"none", "eof", "error", "closed"}

\* The codec is a pipe: the messages for the upstream are the client's frames, whole,
\* in order and none twice, whatever their lengths, wherever the stream breaks off.
Lane == INSTANCE Pipe WITH
          offered <- [i \in DOMAIN written |->
                        [Sanitize(written[i]) EXCEPT !.body = IF written[i].kind = CLOSE
                                                              THEN Lossy(@) ELSE @]],
          delivered <- out
CodecIsPipe == Lane!Spec

\* How the reader ends says what happened.  It reports a clean end only if every frame
\* that was written whole has been passed on and less than a header is missing its rest;
\* it reports an error only if the stream was reset, cut off or malformed.  It serves no
\* other request than the one written.
VerdictIsRight ==
    /\ result = "eof" => Len(out) = Len(written) /\ torn < 5 /\ ~bad
    /\ result = "error" => ended = "reset" \/ torn > 0 \/ bad \/ hs = NoHs
    /\ req # NoHs => req = hs

\* The codes RFC 6455, section 7.4.1, keeps out of close frames: no status received, closed
\* abnormally, TLS handshake failed.
NeverSent == {1005, 1006, 1015}

\* A Close reaches the upstream with the very code the client closed with, through encode(),
\* the bytes, read_from() and client_to_up, and with 1000 if it came without a code or with
\* one that may not be sent.  Codes the RFC leaves undefined are among those passed on.
CloseCodesKept ==
    \A i \in DOMAIN out :
        out[i].kind = CLOSE =>
            /\ i \in DOMAIN written /\ written[i].kind = CLOSE
            /\ out[i].code = IF written[i].code \in NeverSent THEN 1000 ELSE written[i].code

\* A stream that has ended in whatever way ends the reader, in the middle of a frame or
\* of the handshake too.
EndIsNoticed == (ended # "open") ~> (rd.pc = "over")
=============================================================================
