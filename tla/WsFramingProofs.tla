-------------------------- MODULE WsFramingProofs ---------------------------
(***************************************************************************)
(* The codec of a v1 stream, for all payloads, limits and numbers of       *)
(* frames, and wherever the stream is cut off or reset.                    *)
(***************************************************************************)
EXTENDS WsFraming, SequenceTheorems, TLAPS

\* The bytes w stand in s after the first p.
At(s, p, w) == p + Len(w) <= Len(s) /\ \A i \in 1..Len(w) : s[p + i] = w[i]

GoodHs == hs # NoHs /\ Len(hs) \in 1..MAX_FRAME

\* The payload p of a frame of this kind stands for f: encode() of f, or a Close without
\* its code.
Carries(f, kind, p) ==
    /\ kind = f.kind
    /\ p = Payload(f) \/ (kind = CLOSE /\ p = <<>> /\ f = Decode(CLOSE, <<>>))

\* The bytes of s from p to q are a frame the reader can make f of.
FrameAt(s, p, q, f) ==
    \E kind \in Byte, b \in Seq(Byte) :
        /\ Carries(f, kind, b) /\ Decodes(kind, b)
        /\ FitsU32(Len(b)) /\ Len(b) <= MAX_WS_FRAME
        /\ q = p + 5 + Len(b) /\ At(s, p, Wire(kind, b))

\* What follows the last frame: a malformed one, or the beginning of one.
BadAt(s, p) ==
    \E kind \in Byte, b \in Seq(Byte) :
        /\ Len(b) > MAX_WS_FRAME \/ ~Decodes(kind, b)
        /\ FitsU32(Len(b)) /\ Len(s) = p + 5 + Len(b) /\ At(s, p, Wire(kind, b))

TornAt(s, p) ==
    /\ Len(s) = p + torn
    /\ torn >= 5 => \E kind \in Byte, b \in Seq(Byte) :
                      /\ torn < 5 + Len(b) /\ FitsU32(Len(b))
                      /\ \A i \in 1..5 : s[p + i] = Wire(kind, b)[i]

\* Everything written so far is s, in which frame i ends at pos[i].
Laid(s, pos) ==
    LET n == Len(written) IN
    /\ s \in Seq(Byte) /\ pos \in [0..n -> Nat] /\ \A i \in 0..n : pos[i] <= Len(s)
    /\ hs = NoHs => s = <<>> /\ written = <<>> /\ torn = 0 /\ ~bad
    /\ hs # NoHs => pos[0] = 4 + Len(hs) /\ At(s, 0, LE32(Len(hs))) /\ At(s, 4, hs)
    /\ hs # NoHs /\ ~GoodHs => bad
    /\ \A i \in 1..n : FrameAt(s, pos[i - 1], pos[i], written[i])
    /\ ~bad /\ torn = 0 /\ hs # NoHs => Len(s) = pos[n]
    /\ torn > 0 => TornAt(s, pos[n]) /\ ~bad
    /\ bad /\ GoodHs => BadAt(s, pos[n])

\* Where in s the reader is.
Start(pos) ==
    IF rd.pc = "hslen" THEN 0
    ELSE IF rd.pc = "hs" THEN 4
    ELSE IF rd.pc = "header" THEN pos[Len(out)] ELSE pos[Len(out)] + 5

\* The header of the frame after the first p bytes, as the reader has taken it in.
HeaderRead(s, p) ==
    /\ rd.kind = s[p + 1]
    /\ rd.need = FromLE32(<<s[p + 2], s[p + 3], s[p + 4], s[p + 5]>>)
    /\ rd.need <= MAX_WS_FRAME

\* The wire is what is written and not yet read, or after a reset the beginning of it.
Lag(s, pos) ==
    /\ At(s, Start(pos), wire)
    /\ ended # "reset" => Start(pos) + Len(wire) = Len(s)
    /\ rd.pc \in {"hslen", "hs"} => out = <<>>
    /\ rd.pc # "hslen" => GoodHs
    /\ rd.pc = "hslen" => rd.need = 4
    /\ rd.pc = "hs" => rd.need = Len(hs)
    /\ rd.pc = "header" => rd.need = 5
    /\ rd.pc = "payload" => HeaderRead(s, pos[Len(out)])

StreamInv == \E s, pos : Laid(s, pos) /\ (rd.pc # "over" => Lag(s, pos))

\* The message client_to_up makes of a frame.
Relayed(f) == [Sanitize(f) EXCEPT !.body = IF f.kind = CLOSE THEN Lossy(@) ELSE @]

Message == {Sanitize(Decode(kind, b)) : kind \in {TEXT, BINARY, PING, PONG, CLOSE}, b \in Seq(Byte)}

\* Messages come from frames; after its verdict the reader is over, and an open stream is
\* left only for something malformed or a Close.
ReaderInv ==
    /\ out \in Seq(Message) /\ Len(out) <= Len(written)
    /\ rd.pc = "over" <=> result # "none"
    /\ req \in {NoHs, hs}
    /\ ended = "open" => result # "eof" /\ (result = "error" => bad)
    /\ torn > 0 => ended # "open"

IInv == TypeOK /\ ReaderInv /\ StreamInv /\ VerdictIsRight

-----------------------------------------------------------------------------
(* Bytes                                                                    *)

\* A length that fits is read back from its four bytes.
LEMMA LengthBytes ==
    ASSUME NEW n, FitsU32(n)
    PROVE  /\ LE32(n) \in Seq(Byte) /\ Len(LE32(n)) = 4
           /\ FromLE32(<<LE32(n)[1], LE32(n)[2], LE32(n)[3], LE32(n)[4]>>) = n
  <1>1. n \in Nat /\ n \div 16777216 \in Byte
    BY SMT DEF FitsU32
  <1>2. n % 256 \in Byte /\ (n \div 256) % 256 \in Byte /\ (n \div 65536) % 256 \in Byte
    BY <1>1, SMT DEF Byte
  <1>3. LE32(n) \in Seq(Byte) /\ Len(LE32(n)) = 4
    BY <1>1, <1>2, SMT DEF LE32
  <1>4. FromLE32(<<LE32(n)[1], LE32(n)[2], LE32(n)[3], LE32(n)[4]>>) = n
    BY <1>1, SMT DEF LE32, FromLE32
  <1> QED BY <1>3, <1>4

\* Any four bytes are a natural number.
LEMMA BytesLength ==
    ASSUME NEW a \in Byte, NEW b \in Byte, NEW c \in Byte, NEW d \in Byte
    PROVE  FromLE32(<<a, b, c, d>>) \in Nat
  BY DEF FromLE32, Byte

\* The bytes of a frame: its kind, its length and its payload.
LEMMA WireBytes ==
    ASSUME NEW kind \in Byte, NEW b \in Seq(Byte), FitsU32(Len(b))
    PROVE  LET w == Wire(kind, b) IN
           /\ w \in Seq(Byte) /\ Len(w) = 5 + Len(b) /\ w[1] = kind
           /\ FromLE32(<<w[2], w[3], w[4], w[5]>>) = Len(b)
           /\ \A i \in 1..Len(b) : w[5 + i] = b[i]
  <1> DEFINE l == LE32(Len(b))
             k == <<kind>>
             h == k \o l
             w == h \o b
  <1>1. /\ l \in Seq(Byte) /\ Len(l) = 4 /\ FromLE32(<<l[1], l[2], l[3], l[4]>>) = Len(b)
        /\ Len(b) \in Nat
    BY LengthBytes, LenProperties
  <1>2. k \in Seq(Byte) /\ Len(k) = 1 /\ k[1] = kind
    OBVIOUS
  <1> HIDE DEF l, k
  <1>3. /\ h \in Seq(Byte) /\ Len(h) = 5
        /\ \A i \in 1..5 : h[i] = IF i <= 1 THEN k[i] ELSE l[i - 1]
    <2>1. /\ h \in Seq(Byte) /\ Len(h) = Len(k) + Len(l)
          /\ \A i \in 1..(Len(k) + Len(l)) : h[i] = IF i <= Len(k) THEN k[i] ELSE l[i - Len(k)]
      <3>1. k \in Seq(Byte) /\ l \in Seq(Byte)
        BY <1>1, <1>2
      <3> QED BY <3>1, ConcatProperties
    <2> HIDE DEF h
    <2>2. Len(k) + Len(l) = 5
      BY <1>1, <1>2
    <2> QED BY <1>2, <2>1, <2>2
  <1>4. h[1] = kind /\ h[2] = l[1] /\ h[3] = l[2] /\ h[4] = l[3] /\ h[5] = l[4]
    BY <1>2, <1>3
  <1> HIDE DEF h
  <1>5. /\ w \in Seq(Byte) /\ Len(w) = 5 + Len(b)
        /\ \A i \in 1..(5 + Len(b)) : w[i] = IF i <= 5 THEN h[i] ELSE b[i - 5]
    <2>1. /\ w \in Seq(Byte) /\ Len(w) = Len(h) + Len(b)
          /\ \A i \in 1..(Len(h) + Len(b)) : w[i] = IF i <= Len(h) THEN h[i] ELSE b[i - Len(h)]
      BY <1>3, ConcatProperties
    <2> HIDE DEF w
    <2> QED BY <1>3, <2>1
  <1> HIDE DEF w
  <1>6. w[1] = h[1] /\ w[2] = h[2] /\ w[3] = h[3] /\ w[4] = h[4] /\ w[5] = h[5]
    BY <1>1, <1>5
  <1>7. \A i \in 1..Len(b) : w[5 + i] = b[i]
    <2> TAKE i \in 1..Len(b)
    <2>1. 5 + i \in 1..(5 + Len(b)) /\ ~(5 + i <= 5) /\ (5 + i) - 5 = i
      BY <1>1
    <2> QED BY <1>5, <2>1
  <1>8. w = Wire(kind, b)
    BY DEF w, h, k, l, Wire
  <1> QED BY <1>1, <1>4, <1>5, <1>6, <1>7, <1>8

\* Bytes stay where they are when more is written.
LEMMA AtExtend ==
    ASSUME NEW s \in Seq(Byte), NEW t \in Seq(Byte), NEW w \in Seq(Byte), NEW p \in Nat, At(s, p, w)
    PROVE  At(s \o t, p, w)
  <1>1. Len(s) \in Nat /\ Len(t) \in Nat /\ Len(w) \in Nat
    BY LenProperties
  <1> QED BY <1>1, ConcatProperties DEF At

\* What is written next stands at the end.
LEMMA AtEnd ==
    ASSUME NEW s \in Seq(Byte), NEW t \in Seq(Byte)
    PROVE  At(s \o t, Len(s), t)
  <1>1. Len(s) \in Nat /\ Len(t) \in Nat
    BY LenProperties
  <1> QED BY <1>1, ConcatProperties DEF At

\* The same bytes written after the stream and after what is left of it.
LEMMA AtGrow ==
    ASSUME NEW s \in Seq(Byte), NEW t \in Seq(Byte), NEW w \in Seq(Byte), NEW p \in Nat,
           At(s, p, w), p + Len(w) = Len(s)
    PROVE  At(s \o t, p, w \o t) /\ p + Len(w \o t) = Len(s \o t)
  <1>1. Len(s) \in Nat /\ Len(t) \in Nat /\ Len(w) \in Nat
    BY LenProperties
  <1>2. Len(w \o t) = Len(w) + Len(t) /\ Len(s \o t) = Len(s) + Len(t)
    BY ConcatProperties
  <1>3. p + Len(w \o t) = Len(s \o t)
    BY <1>1, <1>2
  <1>4. ASSUME NEW i \in 1..(Len(w) + Len(t)) PROVE (s \o t)[p + i] = (w \o t)[i]
    <2>1. /\ (w \o t)[i] = IF i <= Len(w) THEN w[i] ELSE t[i - Len(w)]
          /\ (s \o t)[p + i] = IF p + i <= Len(s) THEN s[p + i] ELSE t[p + i - Len(s)]
      BY <1>1, <1>4, ConcatProperties
    <2>2. CASE i <= Len(w)
      <3>1. s[p + i] = w[i] /\ p + i <= Len(s)
        BY <1>1, <2>2 DEF At
      <3> QED BY <2>1, <2>2, <3>1
    <2>3. CASE i > Len(w)
      <3>1. p + i > Len(s) /\ p + i - Len(s) = i - Len(w)
        BY <1>1, <2>3
      <3>2. ~(i <= Len(w)) /\ ~(p + i <= Len(s))
        BY <1>1, <2>3, <3>1
      <3> QED BY <2>1, <3>1, <3>2
    <2> QED BY <1>1, <2>2, <2>3
  <1> QED BY <1>1, <1>2, <1>3, <1>4 DEF At

\* The first bytes of some.
LEMMA Beginning ==
    ASSUME NEW w \in Seq(Byte), NEW n \in Nat, n <= Len(w)
    PROVE  /\ SubSeq(w, 1, n) \in Seq(Byte) /\ Len(SubSeq(w, 1, n)) = n
           /\ \A i \in 1..n : SubSeq(w, 1, n)[i] = w[i]
  <1> DEFINE a == SubSeq(w, 1, n)
  <1>1. \A i \in 1..n : w[i] \in Byte
    BY LenProperties, ElementOfSeq
  <1>2. /\ a \in Seq(Byte) /\ Len(a) = IF 1 <= n THEN n - 1 + 1 ELSE 0
        /\ \A i \in 1..(n - 1 + 1) : a[i] = w[1 + i - 1]
    BY <1>1, SubSeqProperties
  <1> HIDE DEF a
  <1>3. a \in Seq(Byte) /\ Len(a) = n /\ \A i \in 1..n : a[i] = w[i]
    BY <1>2
  <1> QED BY <1>3 DEF a

\* They stand where all do.
LEMMA AtShorter ==
    ASSUME NEW s \in Seq(Byte), NEW w \in Seq(Byte), NEW p \in Nat, At(s, p, w),
           NEW a \in Seq(Byte), Len(a) <= Len(w), \A i \in 1..Len(a) : a[i] = w[i]
    PROVE  At(s, p, a)
  <1>1. Len(s) \in Nat /\ Len(w) \in Nat /\ Len(a) \in Nat
    BY LenProperties
  <1>2. p + Len(a) <= Len(s)
    BY <1>1 DEF At
  <1>3. ASSUME NEW i \in 1..Len(a) PROVE s[p + i] = a[i]
    <2>1. i \in 1..Len(w) /\ a[i] = w[i]
      BY <1>1
    <2> QED BY <2>1 DEF At
  <1> QED BY <1>2, <1>3 DEF At

\* read_exact() takes the next bytes and leaves the rest.
LEMMA AtRead ==
    ASSUME NEW s \in Seq(Byte), NEW w \in Seq(Byte), NEW p \in Nat, At(s, p, w),
           NEW n \in Nat, n <= Len(w)
    PROVE  /\ SubSeq(w, 1, n) \in Seq(Byte) /\ Len(SubSeq(w, 1, n)) = n
           /\ At(s, p, SubSeq(w, 1, n))
           /\ SubSeq(w, n + 1, Len(w)) \in Seq(Byte) /\ At(s, p + n, SubSeq(w, n + 1, Len(w)))
           /\ Len(SubSeq(w, n + 1, Len(w))) = Len(w) - n
  <1>1. Len(s) \in Nat /\ Len(w) \in Nat /\ \A i \in 1..Len(w) : w[i] \in Byte
    BY LenProperties, ElementOfSeq
  <1> DEFINE a == SubSeq(w, 1, n)
             b == SubSeq(w, n + 1, Len(w))
  <1>2. a \in Seq(Byte) /\ Len(a) = n /\ \A i \in 1..n : a[i] = w[i]
    BY Beginning
  <1>3. /\ b \in Seq(Byte) /\ Len(b) = Len(w) - n
        /\ \A i \in 1..(Len(w) - n) : b[i] = w[n + i]
    <2>1. \A i \in (n + 1)..Len(w) : w[i] \in Byte
      BY <1>1
    <2>2. /\ b \in Seq(Byte) /\ Len(b) = IF n + 1 <= Len(w) THEN Len(w) - (n + 1) + 1 ELSE 0
          /\ \A i \in 1..(Len(w) - (n + 1) + 1) : b[i] = w[n + 1 + i - 1]
      BY <1>1, <2>1, SubSeqProperties
    <2> HIDE DEF b
    <2> QED BY <1>1, <2>2
  <1> HIDE DEF a, b
  <1>4. p + Len(w) <= Len(s) /\ \A i \in 1..Len(w) : s[p + i] = w[i]
    BY DEF At
  <1>5. At(s, p, a)
    BY <1>2, AtShorter
  <1>6. At(s, p + n, b)
    <2>1. ASSUME NEW i \in 1..Len(b) PROVE s[(p + n) + i] = b[i]
      <3>1. n + i \in 1..Len(w) /\ b[i] = w[n + i] /\ (p + n) + i = p + (n + i)
        BY <1>1, <1>3
      <3> QED BY <1>4, <3>1
    <2> QED BY <1>1, <1>3, <1>4, <2>1 DEF At
  <1> QED BY <1>2, <1>3, <1>5, <1>6 DEF a, b

\* Two runs of bytes of one length at one place are the same.
LEMMA AtUnique ==
    ASSUME NEW s, NEW p, NEW v \in Seq(Byte), NEW w \in Seq(Byte),
           At(s, p, v), At(s, p, w), Len(v) = Len(w)
    PROVE  v = w
  <1>1. \A i \in 1..Len(v) : v[i] = w[i]
    BY DEF At
  <1> QED BY <1>1, SeqEqual

\* Where a frame stands, its header and its payload do.
LEMMA AtWire ==
    ASSUME NEW s \in Seq(Byte), NEW p \in Nat, NEW kind \in Byte, NEW b \in Seq(Byte), FitsU32(Len(b)),
           At(s, p, Wire(kind, b))
    PROVE  /\ s[p + 1] = kind /\ FromLE32(<<s[p + 2], s[p + 3], s[p + 4], s[p + 5]>>) = Len(b)
           /\ At(s, p + 5, b) /\ p + 5 + Len(b) <= Len(s)
  <1> DEFINE w == Wire(kind, b)
  <1>1. /\ w \in Seq(Byte) /\ Len(w) = 5 + Len(b) /\ w[1] = kind
        /\ FromLE32(<<w[2], w[3], w[4], w[5]>>) = Len(b)
        /\ \A i \in 1..Len(b) : w[5 + i] = b[i]
    BY WireBytes
  <1>2. p + Len(w) <= Len(s) /\ (\A i \in 1..Len(w) : s[p + i] = w[i]) /\ Len(b) \in Nat /\ Len(s) \in Nat
    BY LenProperties DEF At
  <1> HIDE DEF w
  <1>3. s[p + 1] = w[1] /\ s[p + 2] = w[2] /\ s[p + 3] = w[3] /\ s[p + 4] = w[4] /\ s[p + 5] = w[5]
    <2>1. 1 \in 1..Len(w) /\ 2 \in 1..Len(w) /\ 3 \in 1..Len(w) /\ 4 \in 1..Len(w) /\ 5 \in 1..Len(w)
      BY <1>1, <1>2
    <2> QED BY <1>2, <2>1
  <1>4. \A i \in 1..Len(b) : s[(p + 5) + i] = b[i]
    <2> TAKE i \in 1..Len(b)
    <2>1. 5 + i \in 1..Len(w) /\ (p + 5) + i = p + (5 + i)
      BY <1>1, <1>2
    <2> QED BY <1>1, <1>2, <2>1
  <1>5. p + 5 + Len(b) <= Len(s)
    BY <1>1, <1>2
  <1> QED BY <1>1, <1>3, <1>4, <1>5 DEF At

-----------------------------------------------------------------------------
(* Frames                                                                   *)

\* What fits with two more fits.
LEMMA FitsLess ==
    ASSUME NEW n \in Nat, FitsU32(n + 2)
    PROVE  FitsU32(n)
  BY SMT DEF FitsU32, Byte

\* Payloads are bytes and their lengths fit.
LEMMA BodyBytes ==
    ASSUME NEW b \in Body
    PROVE  b \in Seq(Byte) /\ FitsU32(Len(b)) /\ FitsU32(Len(b) + 2)
  <1>1. b \in Seq(Byte) /\ FitsU32(Len(b) + 2) /\ Len(b) \in Nat
    BY WidthAssumption, LenProperties
  <1>2. FitsU32(Len(b))
    BY <1>1, FitsLess
  <1> QED BY <1>1, <1>2

\* No handshake is the mark for none.
LEMMA NoHsIsNone == NoHs \notin Body
  <1>1. -1 \notin Byte
    BY DEF Byte
  <1>2. NoHs[1] = -1 /\ Len(NoHs) = 1
    BY DEF NoHs
  <1> SUFFICES ASSUME NoHs \in Seq(Byte) PROVE FALSE
    BY BodyBytes
  <1>3. NoHs[1] \in Byte
    BY <1>2, ElementOfSeq
  <1> QED BY <1>1, <1>2, <1>3

\* So are the payloads of frames, the code of a Close included.
LEMMA FrameBytes ==
    ASSUME NEW f \in Frame
    PROVE  /\ f.kind \in Byte /\ f.kind \in {TEXT, BINARY, PING, PONG, CLOSE}
           /\ Payload(f) \in Seq(Byte) /\ FitsU32(Len(Payload(f)))
           /\ f.kind # CLOSE => Payload(f) = f.body /\ f.code = 0
           /\ f.kind = CLOSE => /\ Len(Payload(f)) >= 2
                                /\ 256 * Payload(f)[1] + Payload(f)[2] = f.code
                                /\ SubSeq(Payload(f), 3, Len(Payload(f))) = f.body
  <1>1. f.kind \in Byte /\ f.kind \in {TEXT, BINARY, PING, PONG, CLOSE} /\ f.body \in Body
    BY DEF Frame, Byte, TEXT, BINARY, PING, PONG, CLOSE
  <1>2. f.body \in Seq(Byte) /\ FitsU32(Len(f.body)) /\ FitsU32(Len(f.body) + 2) /\ Len(f.body) \in Nat
    BY <1>1, BodyBytes, LenProperties
  <1>3. CASE f.kind # CLOSE
    BY <1>1, <1>2, <1>3 DEF Payload, Frame
  <1>4. CASE f.kind = CLOSE
    <2> DEFINE c == f.code
               h == BE16(c)
               b == f.body
               w == h \o b
    <2>1. c \in CloseCode \cup {1005}
      BY <1>4 DEF Frame, TEXT, BINARY, PING, PONG, CLOSE
    <2>2. c \in Nat /\ c \div 256 \in Byte /\ c % 256 \in Byte
      <3>1. c \in Nat /\ c \div 256 \in Byte
        <4>1. CASE c \in CloseCode
          BY <4>1, WidthAssumption
        <4>2. CASE c = 1005
          BY <4>2 DEF Byte
        <4> QED BY <2>1, <4>1, <4>2
      <3> HIDE DEF c
      <3> QED BY <3>1 DEF Byte
    <2> HIDE DEF c
    <2>3. h \in Seq(Byte) /\ Len(h) = 2 /\ 256 * h[1] + h[2] = c
      BY <2>2 DEF BE16
    <2> HIDE DEF h
    <2>4. b \in Seq(Byte) /\ FitsU32(Len(b) + 2) /\ Len(b) \in Nat
      BY <1>2
    <2> HIDE DEF b
    <2>5. /\ w \in Seq(Byte) /\ Len(w) = Len(h) + Len(b)
          /\ \A i \in 1..(Len(h) + Len(b)) : w[i] = IF i <= Len(h) THEN h[i] ELSE b[i - Len(h)]
      BY <2>3, <2>4, ConcatProperties
    <2> HIDE DEF w
    <2>6. Len(w) = Len(b) + 2 /\ w[1] = h[1] /\ w[2] = h[2]
      BY <2>3, <2>4, <2>5
    <2>7. \A i \in 1..Len(b) : w[2 + i] = b[i]
      <3> TAKE i \in 1..Len(b)
      <3>1. 2 + i \in 1..(Len(h) + Len(b)) /\ ~(2 + i <= Len(h)) /\ (2 + i) - Len(h) = i
        BY <2>3, <2>4
      <3> QED BY <2>5, <3>1
    <2>8. SubSeq(w, 3, Len(w)) = b
      <3>1. \A i \in 3..Len(w) : w[i] \in Byte
        BY <2>4, <2>5, <2>6, ElementOfSeq
      <3> DEFINE r == SubSeq(w, 3, Len(w))
      <3>2. /\ r \in Seq(Byte) /\ Len(r) = IF 3 <= Len(w) THEN Len(w) - 3 + 1 ELSE 0
            /\ \A i \in 1..(Len(w) - 3 + 1) : r[i] = w[3 + i - 1]
        BY <2>4, <2>6, <3>1, SubSeqProperties
      <3> HIDE DEF r
      <3>3. Len(r) = Len(b)
        BY <2>4, <2>6, <3>2
      <3>4. ASSUME NEW i \in 1..Len(r) PROVE r[i] = b[i]
        <4>1. i \in 1..(Len(w) - 3 + 1) /\ 3 + i - 1 = 2 + i
          BY <2>4, <2>6, <3>3
        <4> QED BY <2>7, <3>2, <3>3, <4>1
      <3>5. r = b
        BY <2>4, <3>2, <3>3, <3>4, SeqEqual
      <3> QED BY <3>5 DEF r
    <2>9. Payload(f) = w
      BY <1>4 DEF Payload, w, h, b, c
    <2>10. FitsU32(Len(w)) /\ Len(w) >= 2
      BY <2>4, <2>6
    <2>11. 256 * w[1] + w[2] = f.code
      BY <2>3, <2>6 DEF c
    <2>12. SubSeq(w, 3, Len(w)) = f.body
      BY <2>8 DEF b
    <2> QED BY <1>1, <1>4, <2>5, <2>9, <2>10, <2>11, <2>12, Zenon
  <1> QED BY <1>3, <1>4

\* The three results of read_from() that are not errors.
LEMMA DecodeForms ==
    ASSUME NEW kind, NEW p
    PROVE  /\ kind = CLOSE /\ Len(p) >= 2 =>
                Decode(kind, p) = [kind |-> CLOSE, code |-> 256 * p[1] + p[2],
                                   body |-> Lossy(SubSeq(p, 3, Len(p)))]
           /\ kind = CLOSE /\ ~(Len(p) >= 2) =>
                Decode(kind, p) = [kind |-> CLOSE, code |-> 1005, body |-> <<>>]
           /\ kind # CLOSE => Decode(kind, p) = [kind |-> kind, code |-> 0, body |-> p]
  <1> DEFINE x == [kind |-> CLOSE, code |-> 256 * p[1] + p[2], body |-> Lossy(SubSeq(p, 3, Len(p)))]
             y == [kind |-> CLOSE, code |-> 1005, body |-> <<>>]
             z == [kind |-> kind, code |-> 0, body |-> p]
             isClose == kind = CLOSE
             hasCode == Len(p) >= 2
  <1>1. Decode(kind, p) = IF isClose THEN IF hasCode THEN x ELSE y ELSE z
    BY Zenon DEF Decode
  <1> HIDE DEF x, y, z, isClose, hasCode
  <1>2. /\ isClose /\ hasCode => Decode(kind, p) = x
        /\ isClose /\ ~hasCode => Decode(kind, p) = y
        /\ ~isClose => Decode(kind, p) = z
    BY <1>1
  <1> QED BY <1>2 DEF x, y, z, isClose, hasCode

\* from_utf8_lossy() of nothing is nothing.
LEMMA LossyNothing == Lossy(<<>>) = <<>>
  <1> DEFINE e == [i \in DOMAIN <<>> |-> IF <<>>[i] < 128 THEN <<(<<>>[i])>> ELSE <<239, 191, 189>>]
  <1>1. e = <<>>
    OBVIOUS
  <1> HIDE DEF e
  <1>2. FlattenSeq(e) = <<>>
    BY <1>1 DEF FlattenSeq
  <1> QED BY <1>2 DEF Lossy, e

\* read_from() undoes encode(), up to a reason that is not UTF-8.
LEMMA DecodeEncode ==
    ASSUME NEW f \in Frame, NEW kind, NEW p, Carries(f, kind, p)
    PROVE  Sanitize(Decode(kind, p)) = Relayed(f)
  <1>1. kind = f.kind /\ kind \in {TEXT, BINARY, PING, PONG, CLOSE}
    BY FrameBytes DEF Carries
  <1>2. CASE kind # CLOSE
    <2>1. p = f.body /\ f.code = 0
      BY <1>1, <1>2, FrameBytes DEF Carries
    <2>2. Decode(kind, p) = f
      BY <1>1, <1>2, <2>1 DEF Decode, Frame
    <2>3. Sanitize(f) = f
      BY <1>1, <1>2 DEF Sanitize
    <2>4. Relayed(f) = f
      BY <1>1, <1>2, <2>3 DEF Relayed, Frame
    <2> QED BY <2>2, <2>3, <2>4
  <1>3. CASE kind = CLOSE
    <2> DEFINE c == f.code
               b == f.body
               r == IF c \in Reserved THEN 1000 ELSE c
    <2>1. f = [kind |-> CLOSE, code |-> c, body |-> b]
      <3>1. f \in [kind: {CLOSE}, code: CloseCode \cup {1005}, body: Body]
        <4>1. ASSUME f \in [kind: {TEXT, BINARY, PING, PONG}, code: {0}, body: Body]
              PROVE  FALSE
          <5>1. f.kind \in {TEXT, BINARY, PING, PONG}
            BY <4>1
          <5>2. CLOSE \notin {TEXT, BINARY, PING, PONG}
            BY DEF TEXT, BINARY, PING, PONG, CLOSE
          <5> QED BY <1>1, <1>3, <5>1, <5>2
        <4> QED BY <4>1 DEF Frame
      <3>2. f = [kind |-> f.kind, code |-> f.code, body |-> f.body]
        BY <3>1
      <3> QED BY <1>1, <1>3, <3>2
    <2>2. Decode(kind, p) = [kind |-> CLOSE, code |-> c, body |-> Lossy(b)]
      <3>1. CASE p = Payload(f)
        <4>1. /\ Len(p) >= 2 /\ 256 * p[1] + p[2] = c /\ SubSeq(p, 3, Len(p)) = b
          BY <1>1, <1>3, <3>1, FrameBytes
        <4>2. Decode(kind, p) = [kind |-> CLOSE, code |-> 256 * p[1] + p[2],
                                 body |-> Lossy(SubSeq(p, 3, Len(p)))]
          BY <1>3, <4>1, DecodeForms
        <4> HIDE DEF c, b
        <4> QED BY <4>1, <4>2
      <3>2. CASE p = <<>> /\ f = Decode(CLOSE, <<>>)
        <4>1. Decode(CLOSE, <<>>) = [kind |-> CLOSE, code |-> 1005, body |-> <<>>]
          BY DEF Decode
        <4>2. c = 1005 /\ b = <<>>
          BY <3>2, <4>1
        <4> HIDE DEF c, b
        <4> QED BY <1>3, <3>2, <4>1, <4>2, LossyNothing
      <3> QED BY <3>1, <3>2 DEF Carries
    <2> HIDE DEF c, b
    <2>3. ASSUME NEW a PROVE Sanitize([kind |-> CLOSE, code |-> c, body |-> a])
                               = [kind |-> CLOSE, code |-> r, body |-> a]
      <3> DEFINE g == [kind |-> CLOSE, code |-> c, body |-> a]
      <3>1. g.kind = CLOSE /\ g.code = c
        OBVIOUS
      <3>2. [g EXCEPT !.code = 1000] = [kind |-> CLOSE, code |-> 1000, body |-> a]
        OBVIOUS
      <3> QED BY <3>1, <3>2 DEF Sanitize
    <2> HIDE DEF r
    <2>4. Sanitize(f) = [kind |-> CLOSE, code |-> r, body |-> b]
      BY <2>1, <2>3
    <2>5. Relayed(f) = [kind |-> CLOSE, code |-> r, body |-> Lossy(b)]
      <3> DEFINE d == Lossy(b)
                 g == [kind |-> CLOSE, code |-> r, body |-> b]
      <3>1. g.body = b
        OBVIOUS
      <3>2. Relayed(f) = [g EXCEPT !.body = Lossy(g.body)]
        <4> HIDE DEF g
        <4> QED BY <1>1, <1>3, <2>4 DEF Relayed, g
      <3>3. Relayed(f) = [g EXCEPT !.body = d]
        BY <3>1, <3>2
      <3> HIDE DEF d
      <3>4. [g EXCEPT !.body = d] = [kind |-> CLOSE, code |-> r, body |-> d]
        OBVIOUS
      <3> QED BY <3>3, <3>4 DEF d
    <2>6. Sanitize(Decode(kind, p)) = [kind |-> CLOSE, code |-> r, body |-> Lossy(b)]
      BY <2>2, <2>3
    <2> QED BY <2>5, <2>6
  <1> QED BY <1>2, <1>3

-----------------------------------------------------------------------------
(* The writer                                                               *)

\* A frame stays where it is when more is written.
LEMMA FrameStays ==
    ASSUME NEW s \in Seq(Byte), NEW t \in Seq(Byte), NEW p \in Nat, NEW q, NEW f, FrameAt(s, p, q, f)
    PROVE  FrameAt(s \o t, p, q, f)
  <1>1. PICK kind \in Byte, b \in Seq(Byte) :
          /\ Carries(f, kind, b) /\ Decodes(kind, b)
          /\ FitsU32(Len(b)) /\ Len(b) <= MAX_WS_FRAME
          /\ q = p + 5 + Len(b) /\ At(s, p, Wire(kind, b))
    BY DEF FrameAt
  <1>2. Wire(kind, b) \in Seq(Byte)
    BY <1>1, WireBytes
  <1>3. At(s \o t, p, Wire(kind, b))
    BY <1>1, <1>2, AtExtend
  <1> QED BY <1>1, <1>3, Zenon DEF FrameAt

\* Where the reader is, is a place in the stream.
LEMMA StartPlace ==
    ASSUME NEW s, NEW pos, Laid(s, pos), Len(out) <= Len(written), Len(out) \in Nat, Len(written) \in Nat
    PROVE  Start(pos) \in Nat /\ pos[Len(out)] \in Nat
  <1>1. pos \in [0..Len(written) -> Nat]
    BY DEF Laid
  <1>2. Len(out) \in 0..Len(written)
    OBVIOUS
  <1>3. pos[Len(out)] \in Nat
    BY <1>1, <1>2
  <1> QED BY <1>3 DEF Start

\* What is written extends the stream and what the reader has still to read alike.
LEMMA LagGrows ==
    ASSUME NEW s, NEW pos, NEW t \in Seq(Byte), NEW pos2, Laid(s, pos), Lag(s, pos),
           wire \in Seq(Byte), Len(out) <= Len(written), Len(out) \in Nat, Len(written) \in Nat,
           rd.pc \in {"hslen", "hs", "header", "payload"},
           ended = "open", wire' = wire \o t, UNCHANGED <<rd, out>>,
           hs # NoHs => hs' = hs /\ \A i \in 0..Len(written) : pos2[i] = pos[i]
    PROVE  Lag(s \o t, pos2)'
  <1>1. s \in Seq(Byte) /\ (hs = NoHs => rd.pc = "hslen")
    BY DEF Laid, Lag, GoodHs
  <1>2. Start(pos) \in Nat /\ pos[Len(out)] \in Nat
    BY StartPlace
  <1>3. Start(pos2)' = Start(pos) /\ (rd.pc # "hslen" => pos2[Len(out)] = pos[Len(out)])
    <2>1. hs # NoHs => pos2[Len(out)] = pos[Len(out)]
      OBVIOUS
    <2> QED BY <1>1, <2>1 DEF Start
  <1>4. At(s, Start(pos), wire) /\ Start(pos) + Len(wire) = Len(s)
    BY DEF Lag
  <1>5. At(s \o t, Start(pos), wire \o t) /\ Start(pos) + Len(wire \o t) = Len(s \o t)
    BY <1>1, <1>2, <1>4, AtGrow
  <1>6. At(s \o t, Start(pos2)', wire') /\ Start(pos2)' + Len(wire') = Len(s \o t)
    BY <1>3, <1>5
  <1>7. rd.pc = "payload" => HeaderRead(s \o t, pos[Len(out)])
    <2> SUFFICES ASSUME rd.pc = "payload" PROVE HeaderRead(s \o t, pos[Len(out)])
      OBVIOUS
    <2> DEFINE p == pos[Len(out)]
    <2>1. HeaderRead(s, p) /\ p + 5 + Len(wire) <= Len(s)
      BY <1>4 DEF Lag, Start, At
    <2>2. Len(wire) \in Nat /\ Len(s) \in Nat /\ Len(t) \in Nat /\ p \in Nat
      BY <1>1, <1>2, LenProperties
    <2> HIDE DEF p
    <2>3. \A i \in 1..5 : (s \o t)[p + i] = s[p + i]
      <3> TAKE i \in 1..5
      <3>1. p + i \in 1..(Len(s) + Len(t)) /\ p + i <= Len(s)
        BY <2>1, <2>2
      <3> QED BY <1>1, <3>1, ConcatProperties
    <2>4. /\ (s \o t)[p + 1] = s[p + 1] /\ (s \o t)[p + 2] = s[p + 2] /\ (s \o t)[p + 3] = s[p + 3]
          /\ (s \o t)[p + 4] = s[p + 4] /\ (s \o t)[p + 5] = s[p + 5]
      <3>1. 1 \in 1..5 /\ 2 \in 1..5 /\ 3 \in 1..5 /\ 4 \in 1..5 /\ 5 \in 1..5
        OBVIOUS
      <3> QED BY <2>3, <3>1, Zenon
    <2>5. HeaderRead(s \o t, p)
      BY <2>1, <2>4 DEF HeaderRead
    <2> QED BY <2>5 DEF p
  <1>8. (rd.pc = "payload" => HeaderRead(s \o t, pos2[Len(out)]))'
    <2>1. rd.pc = "payload" => HeaderRead(s \o t, pos2[Len(out)])
      BY <1>3, <1>7
    <2> QED BY <2>1 DEF HeaderRead
  <1>9. (/\ rd.pc \in {"hslen", "hs"} => out = <<>>
         /\ rd.pc # "hslen" => GoodHs
         /\ rd.pc = "hslen" => rd.need = 4
         /\ rd.pc = "hs" => rd.need = Len(hs)
         /\ rd.pc = "header" => rd.need = 5)'
    BY <1>1 DEF Lag, GoodHs
  <1> QED BY <1>6, <1>8, <1>9 DEF Lag

\* A step of the writer keeps the invariant if what is written is laid out as it says.
LEMMA WriterInv ==
    ASSUME IInv, NEW s, NEW pos, Laid(s, pos), rd.pc # "over" => Lag(s, pos),
           NEW t \in Seq(Byte), NEW pos2, Laid(s \o t, pos2)',
           ended = "open", ~bad, wire' = wire \o t, UNCHANGED <<rd, req, out, result>>,
           hs # NoHs => hs' = hs /\ \A i \in 0..Len(written) : pos2[i] = pos[i],
           hs' \in Body, written' \in Seq(Frame), Len(written') >= Len(written),
           ended' \in {"open", "finished"}, torn' \in 0..(MAX_WS_FRAME + 5), bad' \in BOOLEAN,
           torn' > 0 => ended' # "open"
    PROVE  IInv'
  <1>1. /\ wire \in Seq(Byte) /\ out \in Seq(Message) /\ written \in Seq(Frame)
        /\ Len(out) <= Len(written) /\ result \in {"none", "closed"} /\ req \in {NoHs, hs}
        /\ req \in Body \cup {NoHs}
    BY DEF IInv, TypeOK, ReaderInv
  <1>2. Len(out) \in Nat /\ Len(written) \in Nat /\ Len(written') \in Nat
    BY <1>1, LenProperties
  <1>3. wire' \in Seq(Byte)
    BY <1>1, ConcatProperties
  <1>4. TypeOK'
    BY <1>1, <1>3 DEF IInv, TypeOK
  <1>5. ReaderInv'
    <2>1. Len(out) <= Len(written')
      BY <1>1, <1>2
    <2> QED BY <1>1, <2>1 DEF IInv, ReaderInv
  <1>6. (rd.pc # "over" => Lag(s \o t, pos2))'
    <2> SUFFICES ASSUME rd.pc # "over" PROVE Lag(s \o t, pos2)'
      OBVIOUS
    <2>1. rd.pc \in {"hslen", "hs", "header", "payload"}
      BY DEF IInv, TypeOK
    <2> QED BY <1>1, <1>2, <2>1, LagGrows
  <1>7. StreamInv'
    BY <1>6 DEF StreamInv
  <1>8. VerdictIsRight'
    BY <1>1 DEF VerdictIsRight
  <1> QED BY <1>4, <1>5, <1>7, <1>8 DEF IInv

\* The handshake opens the stream, well-formed or not.
LEMMA HandshakeInv ==
    ASSUME IInv, NEW j \in Body, ended = "open", hs = NoHs, hs' = j,
           wire' = wire \o LE32(Len(j)) \o j, bad' = (Len(j) \notin 1..MAX_FRAME),
           UNCHANGED <<written, ended, torn, rd, req, out, result>>
    PROVE  IInv'
  <1>1. PICK s, pos : Laid(s, pos) /\ (rd.pc # "over" => Lag(s, pos))
    BY DEF IInv, StreamInv
  <1>2. s = <<>> /\ written = <<>> /\ torn = 0 /\ ~bad
    BY <1>1 DEF Laid
  <1> DEFINE l == LE32(Len(j))
             t == l \o j
  <1>3. j \in Seq(Byte) /\ FitsU32(Len(j)) /\ Len(j) \in Nat /\ j # NoHs
    BY BodyBytes, NoHsIsNone, LenProperties
  <1>4. l \in Seq(Byte) /\ Len(l) = 4 /\ wire \in Seq(Byte)
    BY <1>3, LengthBytes DEF IInv, TypeOK
  <1> HIDE DEF l
  <1>5. t \in Seq(Byte) /\ Len(t) = 4 + Len(j)
    <2>1. l \in Seq(Byte) /\ j \in Seq(Byte)
      BY <1>3, <1>4
    <2>2. t \in Seq(Byte) /\ Len(t) = Len(l) + Len(j)
      BY <2>1, ConcatProperties
    <2> QED BY <1>4, <2>2
  <1>6. wire' = wire \o t
    <2>1. wire \in Seq(Byte) /\ l \in Seq(Byte) /\ j \in Seq(Byte)
      BY <1>3, <1>4
    <2>2. (wire \o l) \o j = wire \o (l \o j)
      BY <2>1, ConcatAssociative
    <2> QED BY <2>2, Zenon DEF l
  <1>7. At(t, 0, l) /\ At(t, 4, j)
    <2>1. At(l, 0, l)
      BY <1>4 DEF At
    <2> QED BY <1>3, <1>4, <2>1, AtExtend, AtEnd
  <1> HIDE DEF t
  <1>8. s \o t = t
    BY <1>2, <1>5, ConcatEmptySeq
  <1>9. PICK pos2 : pos2 = [i \in 0..0 |-> 4 + Len(j)]
    OBVIOUS
  <1>10. /\ pos2 \in [0..0 -> Nat] /\ pos2[0] = 4 + Len(j)
         /\ \A i \in 0..0 : pos2[i] <= Len(t)
    BY <1>3, <1>5, <1>9
  <1>11. Laid(t, pos2)'
    <2>1. Len(written') = 0 /\ written' = <<>> /\ torn' = 0 /\ Len(t) = pos2[0]
      BY <1>2, <1>5, <1>10
    <2>2. ~GoodHs' <=> bad'
      BY <1>3 DEF GoodHs
    <2>3. At(t, 0, LE32(Len(hs'))) /\ At(t, 4, hs')
      BY <1>7 DEF l
    <2> QED BY <1>3, <1>5, <1>10, <2>1, <2>2, <2>3 DEF Laid
  <1>12. bad' \in BOOLEAN /\ torn \in 0..(MAX_WS_FRAME + 5) /\ written \in Seq(Frame)
    BY DEF IInv, TypeOK
  <1>13. Len(written') >= Len(written) /\ ~(torn' > 0)
    BY <1>2
  <1>14. Laid(s \o t, pos2)'
    BY <1>8, <1>11
  <1> QED BY <1>1, <1>2, <1>5, <1>6, <1>12, <1>13, <1>14, WriterInv

\* A frame is written whole.
LEMMA FrameInv ==
    ASSUME IInv, CanWrite, NEW f \in Frame, NEW kind \in Byte, NEW b \in Seq(Byte),
           Carries(f, kind, b), Decodes(kind, b), FitsU32(Len(b)), Len(b) <= MAX_WS_FRAME,
           wire' = wire \o Wire(kind, b), written' = Append(written, f),
           UNCHANGED <<hs, ended, torn, bad, rd, req, out, result>>
    PROVE  IInv'
  <1>1. PICK s, pos : Laid(s, pos) /\ (rd.pc # "over" => Lag(s, pos))
    BY DEF IInv, StreamInv
  <1> DEFINE t == Wire(kind, b)
             n == Len(written)
  <1>2. ended = "open" /\ ~bad /\ hs # NoHs /\ torn = 0
    <2>1. ended = "open" /\ ~bad /\ hs # NoHs
      BY DEF CanWrite
    <2>2. torn \in Nat /\ ~(torn > 0)
      BY <2>1, LimitAssumption DEF IInv, TypeOK, ReaderInv
    <2> QED BY <2>1, <2>2
  <1>3. /\ s \in Seq(Byte) /\ pos \in [0..n -> Nat] /\ (\A i \in 0..n : pos[i] <= Len(s))
        /\ Len(s) = pos[n] /\ written \in Seq(Frame) /\ n \in Nat /\ Len(s) \in Nat /\ Len(b) \in Nat
        /\ hs \in Body
    BY <1>1, <1>2, LenProperties DEF IInv, TypeOK, Laid
  <1>4. t \in Seq(Byte) /\ Len(t) = 5 + Len(b)
    BY WireBytes
  <1> HIDE DEF t
  <1>5. s \o t \in Seq(Byte) /\ Len(s \o t) = Len(s) + Len(t)
    BY <1>3, <1>4, ConcatProperties
  <1>6. /\ written' \in Seq(Frame) /\ Len(written') = n + 1 /\ written'[n + 1] = f
        /\ \A i \in 1..n : written'[i] = written[i]
    BY <1>3, AppendProperties
  <1> HIDE DEF n
  <1>7. PICK pos2 : pos2 = [i \in 0..(n + 1) |-> IF i <= n THEN pos[i] ELSE Len(s \o t)]
    OBVIOUS
  <1>8. \A i \in 0..n : pos2[i] = pos[i]
    BY <1>3, <1>7
  <1>9. pos2[n + 1] = Len(s \o t)
    BY <1>3, <1>7
  <1>10. pos2 \in [0..(n + 1) -> Nat] /\ \A i \in 0..(n + 1) : pos2[i] <= Len(s \o t)
    <2>1. ASSUME NEW i \in 0..(n + 1) PROVE pos2[i] \in Nat /\ pos2[i] <= Len(s \o t)
      <3>1. CASE i \in 0..n
        <4>1. pos2[i] = pos[i] /\ pos[i] \in Nat /\ pos[i] <= Len(s)
          BY <1>3, <1>8, <3>1
        <4> QED BY <1>3, <1>4, <1>5, <4>1
      <3>2. CASE i = n + 1
        BY <1>3, <1>4, <1>5, <1>9, <3>2
      <3> QED BY <1>3, <3>1, <3>2
    <2> QED BY <1>7, <2>1
  <1>11. FrameAt(s \o t, pos2[n], pos2[n + 1], f)
    <2>1. pos2[n] = Len(s) /\ pos2[n + 1] = Len(s) + 5 + Len(b)
      BY <1>3, <1>4, <1>5, <1>8, <1>9
    <2>2. At(s \o t, Len(s), t)
      BY <1>3, <1>4, AtEnd
    <2> QED BY <2>1, <2>2 DEF FrameAt, t
  <1>12. \A i \in 1..(n + 1) : FrameAt(s \o t, pos2[i - 1], pos2[i], written'[i])
    <2> TAKE i \in 1..(n + 1)
    <2>1. CASE i \in 1..n
      <3>1. i - 1 \in 0..n /\ i \in 0..n
        BY <1>3, <2>1
      <3>2. pos2[i - 1] = pos[i - 1] /\ pos2[i] = pos[i] /\ written'[i] = written[i] /\ pos[i - 1] \in Nat
        BY <1>3, <1>6, <1>8, <2>1, <3>1
      <3>3. FrameAt(s, pos[i - 1], pos[i], written[i])
        BY <1>1, <2>1 DEF Laid, n
      <3> QED BY <1>3, <1>4, <3>2, <3>3, FrameStays
    <2>2. CASE i = n + 1
      <3>1. i - 1 = n
        BY <1>3, <2>2
      <3> QED BY <1>6, <1>11, <2>2, <3>1
    <2>3. n \in Nat
      BY <1>3
    <2>4. i \in 1..n \/ i = n + 1
      BY <2>3
    <2> QED BY <2>1, <2>2, <2>4
  <1>13. /\ pos2[0] = 4 + Len(hs) /\ At(s \o t, 0, LE32(Len(hs))) /\ At(s \o t, 4, hs) /\ GoodHs
    <2>1. pos[0] = 4 + Len(hs) /\ At(s, 0, LE32(Len(hs))) /\ At(s, 4, hs) /\ GoodHs
      BY <1>1, <1>2 DEF Laid
    <2>2. hs \in Seq(Byte) /\ LE32(Len(hs)) \in Seq(Byte)
      BY <1>3, BodyBytes, LengthBytes
    <2>3. pos2[0] = pos[0]
      BY <1>3, <1>8
    <2> QED BY <1>3, <1>4, <2>1, <2>2, <2>3, AtExtend
  <1>14. Laid(s \o t, pos2)'
    <2>1. GoodHs' /\ hs' = hs /\ hs' # NoHs /\ bad' = FALSE /\ torn' = 0 /\ ~(0 > 0)
      BY <1>2, <1>13 DEF GoodHs, IInv, TypeOK
    <2> QED BY <1>5, <1>6, <1>9, <1>10, <1>12, <1>13, <2>1 DEF Laid
  <1>15. /\ Len(written') >= Len(written) /\ torn' \in 0..(MAX_WS_FRAME + 5) /\ bad' \in BOOLEAN
         /\ ended' \in {"open", "finished"} /\ ~(torn' > 0)
    <2>1. Len(written') >= Len(written)
      BY <1>3, <1>6 DEF n
    <2> QED BY <1>2, <2>1 DEF IInv, TypeOK
  <1>16. \A i \in 0..Len(written) : pos2[i] = pos[i]
    BY <1>8 DEF n
  <1>17. wire' = wire \o t
    BY DEF t
  <1> QED BY <1>1, <1>2, <1>3, <1>4, <1>6, <1>14, <1>15, <1>16, <1>17, WriterInv

\* Something malformed, or the beginning of a frame, ends what is written.
LEMMA TrailerInv ==
    ASSUME IInv, CanWrite, NEW t \in Seq(Byte), wire' = wire \o t,
           UNCHANGED <<hs, written, rd, req, out, result>>,
           bad' \in BOOLEAN, torn' \in 0..(MAX_WS_FRAME + 5), ended' \in {"open", "finished"},
           bad' => /\ torn' = 0
                   /\ \E kind \in Byte, b \in Seq(Byte) :
                        /\ t = Wire(kind, b) /\ FitsU32(Len(b))
                        /\ Len(b) > MAX_WS_FRAME \/ ~Decodes(kind, b),
           ~bad' => /\ torn' > 0 /\ torn' = Len(t) /\ ended' = "finished"
                    /\ torn' >= 5 => \E kind \in Byte, b \in Seq(Byte) :
                                       /\ torn' < 5 + Len(b) /\ FitsU32(Len(b))
                                       /\ \A i \in 1..5 : t[i] = Wire(kind, b)[i]
    PROVE  IInv'
  <1>1. PICK s, pos : Laid(s, pos) /\ (rd.pc # "over" => Lag(s, pos))
    BY DEF IInv, StreamInv
  <1> DEFINE n == Len(written)
  <1>2. ended = "open" /\ ~bad /\ hs # NoHs /\ torn = 0
    <2>1. ended = "open" /\ ~bad /\ hs # NoHs
      BY DEF CanWrite
    <2>2. torn \in Nat /\ ~(torn > 0)
      BY <2>1, LimitAssumption DEF IInv, TypeOK, ReaderInv
    <2> QED BY <2>1, <2>2
  <1>3. /\ s \in Seq(Byte) /\ pos \in [0..n -> Nat] /\ (\A i \in 0..n : pos[i] <= Len(s))
        /\ Len(s) = pos[n] /\ written \in Seq(Frame) /\ n \in Nat /\ Len(s) \in Nat /\ Len(t) \in Nat
        /\ hs \in Body
    BY <1>1, <1>2, LenProperties DEF IInv, TypeOK, Laid
  <1> HIDE DEF n
  <1>4. /\ s \o t \in Seq(Byte) /\ Len(s \o t) = Len(s) + Len(t)
        /\ \A i \in 1..Len(t) : (s \o t)[Len(s) + i] = t[i]
    BY <1>3, ConcatProperties, AtEnd DEF At
  <1>5. \A i \in 0..n : pos[i] <= Len(s \o t)
    <2> TAKE i \in 0..n
    <2>1. pos[i] \in Nat /\ pos[i] <= Len(s)
      BY <1>3
    <2> QED BY <1>3, <1>4, <2>1
  <1>6. \A i \in 1..n : FrameAt(s \o t, pos[i - 1], pos[i], written[i])
    <2> TAKE i \in 1..n
    <2>1. i - 1 \in 0..n
      BY <1>3
    <2>2. pos[i - 1] \in Nat /\ FrameAt(s, pos[i - 1], pos[i], written[i])
      BY <1>1, <1>3, <2>1 DEF Laid, n
    <2> QED BY <1>3, <2>2, FrameStays
  <1>7. /\ pos[0] = 4 + Len(hs) /\ At(s \o t, 0, LE32(Len(hs))) /\ At(s \o t, 4, hs) /\ GoodHs
    <2>1. pos[0] = 4 + Len(hs) /\ At(s, 0, LE32(Len(hs))) /\ At(s, 4, hs) /\ GoodHs
      BY <1>1, <1>2 DEF Laid
    <2>2. hs \in Seq(Byte) /\ LE32(Len(hs)) \in Seq(Byte)
      BY <1>3, BodyBytes, LengthBytes
    <2> QED BY <1>3, <2>1, <2>2, AtExtend
  <1>8. ASSUME bad' PROVE BadAt(s \o t, pos[n])
    <2>1. PICK kind \in Byte, b \in Seq(Byte) :
            /\ t = Wire(kind, b) /\ FitsU32(Len(b))
            /\ Len(b) > MAX_WS_FRAME \/ ~Decodes(kind, b)
      BY <1>8
    <2>2. Len(t) = 5 + Len(b) /\ Len(b) \in Nat
      BY <2>1, WireBytes, LenProperties
    <2>3. Len(s \o t) = pos[n] + 5 + Len(b)
      BY <1>3, <1>4, <2>2
    <2>4. At(s \o t, pos[n], Wire(kind, b))
      BY <1>3, <2>1, AtEnd
    <2> QED BY <2>1, <2>3, <2>4, Zenon DEF BadAt
  <1>9. ASSUME ~bad' PROVE TornAt(s \o t, pos[n])'
    <2>1. Len(s \o t) = pos[n] + torn'
      BY <1>3, <1>4, <1>9
    <2>2. ASSUME torn' >= 5
          PROVE \E kind \in Byte, b \in Seq(Byte) :
                  /\ torn' < 5 + Len(b) /\ FitsU32(Len(b))
                  /\ \A i \in 1..5 : (s \o t)[pos[n] + i] = Wire(kind, b)[i]
      <3>1. PICK kind \in Byte, b \in Seq(Byte) :
                  /\ torn' < 5 + Len(b) /\ FitsU32(Len(b))
                  /\ \A i \in 1..5 : t[i] = Wire(kind, b)[i]
        BY <1>9, <2>2
      <3>2. ASSUME NEW i \in 1..5 PROVE (s \o t)[pos[n] + i] = Wire(kind, b)[i]
        <4>1. i \in 1..Len(t)
          BY <1>3, <1>9, <2>2
        <4> QED BY <1>3, <1>4, <3>1, <4>1
      <3> QED BY <3>1, <3>2
    <2> QED BY <1>3, <2>1, <2>2 DEF TornAt, n
  <1>10. Laid(s \o t, pos)'
    <2>1. GoodHs' /\ hs' = hs /\ hs' # NoHs /\ written' = written
      BY <1>2, <1>7 DEF GoodHs
    <2>2. BadAt(s \o t, pos[n])' <=> BadAt(s \o t, pos[n])
      BY DEF BadAt, n
    <2>3. CASE bad'
      <3>1. torn' = 0 /\ ~(0 > 0)
        BY <2>3
      <3> QED BY <1>3, <1>4, <1>5, <1>6, <1>7, <1>8, <2>1, <2>2, <2>3, <3>1 DEF Laid, n
    <2>4. CASE ~bad'
      <3>1. torn' > 0 /\ torn' # 0
        BY <2>4
      <3> QED BY <1>3, <1>4, <1>5, <1>6, <1>7, <1>9, <2>1, <2>4, <3>1 DEF Laid, n
    <2> QED BY <2>3, <2>4
  <1>11. torn' > 0 => ended' # "open"
    BY <1>2
  <1>12. Len(written') >= Len(written) /\ hs' \in Body /\ written' \in Seq(Frame)
    BY <1>3 DEF n
  <1> QED BY <1>1, <1>2, <1>10, <1>11, <1>12, WriterInv

\* encode() and write_all() of a frame, acceptable or too long.
LEMMA WriteInv ==
    ASSUME IInv, NEW f \in Frame, Write(f)
    PROVE  IInv'
  <1> DEFINE b == Payload(f)
  <1>1. /\ CanWrite /\ (f.kind = TEXT => Utf8(f.body)) /\ wire' = wire \o Wire(f.kind, b)
        /\ bad' = (Len(b) > MAX_WS_FRAME) /\ written' = IF bad' THEN written ELSE Append(written, f)
        /\ UNCHANGED <<hs, ended, torn, rd, req, out, result>>
    BY DEF Write, Encode
  <1>2. /\ f.kind \in Byte /\ b \in Seq(Byte) /\ FitsU32(Len(b)) /\ Len(b) \in Nat
        /\ f.kind \in {TEXT, BINARY, PING, PONG, CLOSE} /\ (f.kind # CLOSE => b = f.body)
    BY FrameBytes, LenProperties
  <1> HIDE DEF b
  <1>3. CASE Len(b) > MAX_WS_FRAME
    <2>1. Wire(f.kind, b) \in Seq(Byte)
      BY <1>2, WireBytes
    <2>2. torn' = 0 /\ torn \in 0..(MAX_WS_FRAME + 5) /\ ended' = "open"
      <3>1. ended = "open" /\ torn \in 0..(MAX_WS_FRAME + 5) /\ ~(torn > 0)
        BY <1>1 DEF CanWrite, IInv, TypeOK, ReaderInv
      <3> QED BY <1>1, <3>1, LimitAssumption
    <2>3. bad' = TRUE /\ written' = written
      BY <1>1, <1>3
    <2> QED BY <1>1, <1>2, <1>3, <2>1, <2>2, <2>3, TrailerInv
  <1>4. CASE Len(b) <= MAX_WS_FRAME
    <2>1. ~(Len(b) > MAX_WS_FRAME)
      BY <1>2, <1>4, LimitAssumption
    <2>2. bad' = bad /\ written' = Append(written, f)
      <3>1. bad = FALSE
        BY <1>1, Zenon DEF CanWrite, IInv, TypeOK
      <3>2. bad' = FALSE
        <4>1. (Len(b) > MAX_WS_FRAME) = FALSE
          BY <2>1
        <4>2. bad' = (Len(b) > MAX_WS_FRAME)
          BY <1>1
        <4> QED BY <4>1, <4>2, Zenon
      <3> QED BY <1>1, <3>1, <3>2
    <2>3. Decodes(f.kind, b)
      BY <1>1, <1>2 DEF Decodes, TEXT, CLOSE
    <2>4. Carries(f, f.kind, b)
      BY DEF Carries, b
    <2> QED BY <1>1, <1>2, <1>4, <2>2, <2>3, <2>4, FrameInv
  <1> QED BY <1>2, <1>3, <1>4, LimitAssumption

\* A Close without a code reads like one with the code 1005.
LEMMA WriteShortCloseInv == IInv /\ WriteShortClose => IInv'
  <1> SUFFICES ASSUME IInv, WriteShortClose PROVE IInv'
    OBVIOUS
  <1> DEFINE f == Decode(CLOSE, <<>>)
  <1>1. f = [kind |-> CLOSE, code |-> 1005, body |-> <<>>]
    BY DEF Decode
  <1>2. f \in Frame
    BY <1>1, WidthAssumption DEF Frame
  <1>3. <<>> \in Seq(Byte) /\ FitsU32(Len(<<>>)) /\ CLOSE \in Byte
    BY WidthAssumption, BodyBytes DEF CLOSE, Byte
  <1>4. Carries(f, CLOSE, <<>>)
    BY <1>1 DEF Carries
  <1>5. Decodes(CLOSE, <<>>) /\ Len(<<>>) <= MAX_WS_FRAME
    BY LimitAssumption DEF Decodes
  <1>6. /\ CanWrite /\ wire' = wire \o Wire(CLOSE, <<>>) /\ written' = Append(written, f)
        /\ UNCHANGED <<hs, ended, torn, bad, rd, req, out, result>>
    BY DEF WriteShortClose, ShortClose
  <1> HIDE DEF f
  <1> QED BY <1>2, <1>3, <1>4, <1>5, <1>6, FrameInv DEF f

\* Text that is not UTF-8, or an unknown kind.
LEMMA WriteRawInv ==
    ASSUME IInv, NEW kind \in {TEXT} \cup OtherKind, NEW b \in Body, WriteRaw(kind, b)
    PROVE  IInv'
  <1>1. kind \in Byte /\ b \in Seq(Byte) /\ FitsU32(Len(b))
    BY WidthAssumption, BodyBytes DEF TEXT, Byte
  <1>2. Wire(kind, b) \in Seq(Byte)
    BY <1>1, WireBytes
  <1>3. /\ CanWrite /\ ~Decodes(kind, b) /\ wire' = wire \o Wire(kind, b) /\ bad' = TRUE
        /\ UNCHANGED <<hs, written, ended, torn, rd, req, out, result>>
    BY DEF WriteRaw
  <1>4. torn' = 0 /\ torn \in 0..(MAX_WS_FRAME + 5) /\ ended' = "open"
    <2>1. ended = "open" /\ torn \in 0..(MAX_WS_FRAME + 5) /\ ~(torn > 0)
      BY <1>3 DEF CanWrite, IInv, TypeOK, ReaderInv
    <2> QED BY <1>3, <2>1, LimitAssumption
  <1> QED BY <1>1, <1>2, <1>3, <1>4, TrailerInv

\* The writer is aborted inside a frame.
LEMMA WriteTornInv ==
    ASSUME IInv, NEW f \in Frame, NEW n \in 1..(MAX_WS_FRAME + 5), WriteTorn(f, n)
    PROVE  IInv'
  <1> DEFINE b == Payload(f)
             w == Wire(f.kind, b)
             t == SubSeq(w, 1, n)
  <1>1. /\ CanWrite /\ n \in 1..(Len(w) - 1) /\ wire' = wire \o t /\ torn' = n /\ ended' = "finished"
        /\ UNCHANGED <<hs, written, bad, rd, req, out, result>>
    BY DEF WriteTorn, Encode
  <1>2. f.kind \in Byte /\ b \in Seq(Byte) /\ FitsU32(Len(b)) /\ Len(b) \in Nat
    BY FrameBytes, LenProperties
  <1>3. w \in Seq(Byte) /\ Len(w) = 5 + Len(b)
    BY <1>2, WireBytes
  <1> HIDE DEF b, w
  <1>4. n \in Nat /\ n <= Len(w) /\ n < 5 + Len(b) /\ n > 0
    BY <1>1, <1>2, <1>3
  <1>6. t \in Seq(Byte) /\ Len(t) = n /\ \A i \in 1..n : t[i] = w[i]
    BY <1>3, <1>4, Beginning
  <1> HIDE DEF t
  <1>7. n >= 5 => \A i \in 1..5 : t[i] = w[i]
    BY <1>4, <1>6
  <1>8. bad' = FALSE /\ torn' \in 0..(MAX_WS_FRAME + 5)
    <2>1. bad' = FALSE
      BY <1>1, Zenon DEF CanWrite, IInv, TypeOK
    <2> QED BY <1>1, <2>1, LimitAssumption
  <1>9. n >= 5 => \E kind \in Byte, d \in Seq(Byte) :
                    n < 5 + Len(d) /\ FitsU32(Len(d)) /\ \A i \in 1..5 : t[i] = Wire(kind, d)[i]
    BY <1>2, <1>4, <1>7 DEF w
  <1> QED BY <1>1, <1>4, <1>6, <1>8, <1>9, TrailerInv

\* What is written is untouched when nothing is written.
LEMMA LaidStays ==
    ASSUME NEW s, NEW pos, Laid(s, pos), UNCHANGED <<hs, written, torn, bad>>
    PROVE  Laid(s, pos)'
  BY DEF Laid, GoodHs, TornAt, BadAt

\* The stream ends after what is written.
LEMMA FinishInv == IInv /\ Finish => IInv'
  <1> SUFFICES ASSUME IInv, Finish PROVE IInv'
    OBVIOUS
  <1>1. /\ ended = "open" /\ ended' = "finished"
        /\ UNCHANGED <<hs, written, torn, bad, wire, rd, req, out, result>>
    BY DEF Finish
  <1>2. PICK s, pos : Laid(s, pos) /\ (rd.pc # "over" => Lag(s, pos))
    BY DEF IInv, StreamInv
  <1>3. Laid(s, pos)'
    BY <1>1, <1>2, LaidStays
  <1>4. (rd.pc # "over" => Lag(s, pos))'
    BY <1>1, <1>2 DEF Lag, Start, GoodHs, HeaderRead
  <1>5. StreamInv'
    BY <1>3, <1>4 DEF StreamInv
  <1>6. TypeOK' /\ ReaderInv' /\ VerdictIsRight'
    BY <1>1 DEF IInv, TypeOK, ReaderInv, VerdictIsRight
  <1> QED BY <1>5, <1>6 DEF IInv

\* A reset may take some of what was on its way.
LEMMA ResetInv == IInv /\ Reset => IInv'
  <1> SUFFICES ASSUME IInv, Reset PROVE IInv'
    OBVIOUS
  <1>1. PICK n \in 0..Len(wire) : wire' = SubSeq(wire, 1, n)
    BY DEF Reset
  <1>2. ended' = "reset" /\ UNCHANGED <<hs, written, torn, bad, rd, req, out, result>>
    BY DEF Reset
  <1>3. PICK s, pos : Laid(s, pos) /\ (rd.pc # "over" => Lag(s, pos))
    BY DEF IInv, StreamInv
  <1>4. /\ wire \in Seq(Byte) /\ Len(wire) \in Nat /\ n \in Nat /\ n <= Len(wire) /\ s \in Seq(Byte)
        /\ Len(out) \in Nat /\ Len(written) \in Nat /\ Len(out) <= Len(written)
    BY <1>3, LenProperties DEF IInv, TypeOK, ReaderInv, Laid
  <1>5. Laid(s, pos)'
    BY <1>2, <1>3, LaidStays
  <1>6. (rd.pc # "over" => Lag(s, pos))'
    <2> SUFFICES ASSUME rd.pc # "over" PROVE Lag(s, pos)'
      BY <1>2
    <2>1. Start(pos) \in Nat /\ Start(pos)' = Start(pos)
      BY <1>2, <1>3, <1>4, StartPlace DEF Start
    <2>2. At(s, Start(pos), SubSeq(wire, 1, n))
      BY <1>3, <1>4, <2>1, AtRead DEF Lag
    <2>3. At(s, Start(pos), wire)'
      BY <1>1, <2>1, <2>2
    <2> QED BY <1>2, <1>3, <2>3 DEF Lag, GoodHs, HeaderRead
  <1>7. wire' \in Seq(Byte)
    BY <1>1, <1>4, Beginning
  <1>8. StreamInv'
    BY <1>5, <1>6 DEF StreamInv
  <1>9. TypeOK' /\ ReaderInv' /\ VerdictIsRight'
    BY <1>2, <1>7 DEF IInv, TypeOK, ReaderInv, VerdictIsRight
  <1> QED BY <1>8, <1>9 DEF IInv

-----------------------------------------------------------------------------
(* The reader                                                               *)

\* The reader gives up: only on a stream that was reset, cut off or malformed.
LEMMA ReaderFails ==
    ASSUME IInv, UNCHANGED client, rd.pc # "over", ReaderEnds("error"),
           wire' \in Seq(Byte), UNCHANGED <<req, out>>,
           ended = "reset" \/ torn > 0 \/ bad \/ (hs = NoHs /\ ended # "open")
    PROVE  IInv'
  <1>1. UNCHANGED <<hs, written, ended, torn, bad>>
    BY DEF client
  <1>2. rd' = [pc |-> "over", kind |-> 0, need |-> 0] /\ result' = "error"
    BY DEF ReaderEnds, Await
  <1>3. rd'.pc = "over" /\ rd'.kind \in Byte /\ rd'.need \in Nat
    BY <1>2 DEF Byte
  <1>4. PICK s, pos : Laid(s, pos)
    BY DEF IInv, StreamInv
  <1>5. Laid(s, pos)'
    BY <1>1, <1>4, LaidStays
  <1>6. StreamInv'
    BY <1>3, <1>5 DEF StreamInv
  <1>7. TypeOK'
    BY <1>1, <1>2, <1>3 DEF IInv, TypeOK
  <1>8. ReaderInv' /\ VerdictIsRight'
    BY <1>1, <1>2, <1>3 DEF IInv, ReaderInv, VerdictIsRight
  <1> QED BY <1>6, <1>7, <1>8 DEF IInv

\* What follows the first k frames, if anything does: the next one, the beginning of one, or
\* something malformed.
LEMMA NextItem ==
    ASSUME NEW s, NEW pos, Laid(s, pos), GoodHs, Len(written) \in Nat, torn \in Nat,
           NEW k \in 0..Len(written), Len(s) > pos[k]
    PROVE  /\ pos[k] \in Nat /\ s \in Seq(Byte)
           /\ \/ k + 1 \in 0..Len(written) /\ FrameAt(s, pos[k], pos[k + 1], written[k + 1])
              \/ torn > 0 /\ TornAt(s, pos[k])
              \/ bad /\ BadAt(s, pos[k])
  <1>1. pos[k] \in Nat /\ s \in Seq(Byte) /\ Len(s) \in Nat
    BY LenProperties DEF Laid
  <1>2. CASE k < Len(written)
    <2>1. k + 1 \in 1..Len(written) /\ k + 1 \in 0..Len(written) /\ (k + 1) - 1 = k
      BY <1>2
    <2>2. FrameAt(s, pos[(k + 1) - 1], pos[k + 1], written[k + 1])
      BY <2>1 DEF Laid
    <2> QED BY <1>1, <2>1, <2>2
  <1>3. CASE k = Len(written)
    <2>1. ~(~bad /\ torn = 0)
      <3> SUFFICES ASSUME ~bad, torn = 0 PROVE FALSE
        OBVIOUS
      <3>1. Len(s) = pos[k]
        BY <1>3 DEF Laid, GoodHs
      <3> QED BY <1>1, <3>1
    <2>2. CASE bad
      BY <1>1, <1>3, <2>2 DEF Laid
    <2>3. CASE torn # 0
      <3>1. torn > 0
        BY <2>3
      <3> QED BY <1>1, <1>3, <3>1 DEF Laid
    <2> QED BY <2>1, <2>2, <2>3
  <1> QED BY <1>2, <1>3

\* A reader that has not ended, and the stream it reads.
Reading(s, pos) ==
    /\ Laid(s, pos) /\ Lag(s, pos) /\ s \in Seq(Byte) /\ Len(s) \in Nat
    /\ wire \in Seq(Byte) /\ Len(wire) \in Nat /\ rd.need \in Nat /\ torn \in Nat
    /\ Len(out) \in Nat /\ Len(written) \in Nat /\ Len(out) \in 0..Len(written)
    /\ Start(pos) \in Nat /\ pos[Len(out)] \in Nat /\ result = "none"
    /\ At(s, Start(pos), wire)

Rest == SubSeq(wire, rd.need + 1, Len(wire))

\* There is such a stream.
LEMMA ReaderAt ==
    ASSUME IInv, rd.pc # "over"
    PROVE  \E s, pos : Reading(s, pos)
  <1>1. PICK s, pos : Laid(s, pos) /\ Lag(s, pos)
    BY DEF IInv, StreamInv
  <1>2. wire \in Seq(Byte) /\ rd.need \in Nat /\ torn \in Nat /\ written \in Seq(Frame)
    BY LimitAssumption DEF IInv, TypeOK
  <1>3. out \in Seq(Message) /\ Len(out) <= Len(written) /\ result = "none"
    BY DEF IInv, ReaderInv
  <1>4. Len(wire) \in Nat /\ Len(out) \in Nat /\ Len(written) \in Nat
    BY <1>2, <1>3, LenProperties
  <1>5. s \in Seq(Byte) /\ Len(s) \in Nat
    BY <1>1, LenProperties DEF Laid
  <1>6. Start(pos) \in Nat /\ pos[Len(out)] \in Nat
    BY <1>1, <1>3, <1>4, StartPlace
  <1>7. Len(out) \in 0..Len(written)
    BY <1>3, <1>4
  <1>8. At(s, Start(pos), wire)
    BY <1>1 DEF Lag
  <1> QED BY <1>1, <1>2, <1>3, <1>4, <1>5, <1>6, <1>7, <1>8 DEF Reading

\* read_exact() takes what stands next in the stream.
LEMMA Taken ==
    ASSUME NEW s, NEW pos, Reading(s, pos), Ready
    PROVE  /\ Bytes \in Seq(Byte) /\ Len(Bytes) = rd.need /\ At(s, Start(pos), Bytes)
           /\ Rest \in Seq(Byte) /\ At(s, Start(pos) + rd.need, Rest)
           /\ ended # "reset" => Start(pos) + rd.need + Len(Rest) = Len(s)
           /\ Start(pos) + rd.need <= Len(s)
  <1> DEFINE n == rd.need
             w == wire
             q == Start(pos)
  <1>1. s \in Seq(Byte) /\ w \in Seq(Byte) /\ q \in Nat /\ n \in Nat /\ At(s, q, w) /\ n <= Len(w)
    BY DEF Reading, Ready
  <1>2. (ended # "reset" => q + Len(w) = Len(s)) /\ Len(s) \in Nat /\ Len(w) \in Nat
    BY DEF Reading, Lag
  <1> HIDE DEF n, w, q
  <1>3. /\ SubSeq(w, 1, n) \in Seq(Byte) /\ Len(SubSeq(w, 1, n)) = n
        /\ At(s, q, SubSeq(w, 1, n))
        /\ SubSeq(w, n + 1, Len(w)) \in Seq(Byte) /\ At(s, q + n, SubSeq(w, n + 1, Len(w)))
        /\ q + Len(w) = Len(s) => q + n + Len(SubSeq(w, n + 1, Len(w))) = Len(s)
    <2>1. /\ SubSeq(w, 1, n) \in Seq(Byte) /\ Len(SubSeq(w, 1, n)) = n
          /\ At(s, q, SubSeq(w, 1, n))
      <3> DEFINE a == SubSeq(w, 1, n)
      <3>1. a \in Seq(Byte) /\ Len(a) = n /\ \A i \in 1..n : a[i] = w[i]
        BY <1>1, Beginning
      <3> HIDE DEF a
      <3>2. At(s, q, a)
        BY <1>1, <3>1, AtShorter
      <3> QED BY <3>1, <3>2, Zenon DEF a
    <2>2. SubSeq(w, n + 1, Len(w)) \in Seq(Byte) /\ At(s, q + n, SubSeq(w, n + 1, Len(w)))
      BY <1>1, AtRead
    <2>3. q + Len(w) = Len(s) => q + n + Len(SubSeq(w, n + 1, Len(w))) = Len(s)
      <3> DEFINE l == Len(SubSeq(w, n + 1, Len(w)))
      <3>1. l = Len(w) - n
        BY <1>1, AtRead
      <3> HIDE DEF l
      <3>2. q + Len(w) = Len(s) => q + n + l = Len(s)
        BY <1>1, <1>2, <3>1
      <3> QED BY <3>2 DEF l
    <2> QED BY <2>1, <2>2, <2>3
  <1>4. q + n <= Len(s)
    BY <1>1, <1>2 DEF At
  <1> QED BY <1>2, <1>3, <1>4 DEF n, w, q, Bytes, Rest

\* The length of the handshake is read, and refused if the handshake is malformed.
LEMMA ReadHsLenInv == IInv /\ ReadHsLen => IInv'
  <1> SUFFICES ASSUME IInv, ReadHsLen PROVE IInv'
    OBVIOUS
  <1>1. rd.pc = "hslen" /\ Ready /\ wire' = Rest /\ UNCHANGED <<client, req, out>>
    BY DEF ReadHsLen, Consume, Rest
  <1>2. PICK s, pos : Reading(s, pos)
    BY <1>1, ReaderAt
  <1>3. rd.need = 4 /\ Start(pos) = 0 /\ out = <<>>
    BY <1>1, <1>2 DEF Reading, Lag, Start
  <1>4. /\ Bytes \in Seq(Byte) /\ Len(Bytes) = 4 /\ At(s, 0, Bytes) /\ 4 <= Len(s)
        /\ Rest \in Seq(Byte) /\ At(s, 4, Rest) /\ (ended # "reset" => 4 + Len(Rest) = Len(s))
    <2>1. /\ Bytes \in Seq(Byte) /\ Len(Bytes) = rd.need /\ At(s, Start(pos), Bytes)
          /\ Rest \in Seq(Byte) /\ At(s, Start(pos) + rd.need, Rest)
          /\ ended # "reset" => Start(pos) + rd.need + Len(Rest) = Len(s)
          /\ Start(pos) + rd.need <= Len(s)
      BY <1>1, <1>2, Taken
    <2>2. Start(pos) + rd.need = 4
      BY <1>3
    <2> QED BY <1>3, <2>1, <2>2
  <1>6. hs # NoHs
    <2> SUFFICES ASSUME hs = NoHs PROVE FALSE
      OBVIOUS
    <2>1. s = <<>>
      BY <1>2 DEF Reading, Laid
    <2> QED BY <1>4, <2>1
  <1>7. hs \in Seq(Byte) /\ FitsU32(Len(hs)) /\ Len(hs) \in Nat
    <2>1. hs \in Body
      BY <1>6 DEF IInv, TypeOK
    <2> QED BY <2>1, BodyBytes, LenProperties
  <1>8. FromLE32(Bytes) = Len(hs)
    <2> DEFINE l == LE32(Len(hs))
    <2>1. l \in Seq(Byte) /\ Len(l) = 4 /\ FromLE32(<<l[1], l[2], l[3], l[4]>>) = Len(hs)
      BY <1>7, LengthBytes
    <2>2. At(s, 0, l)
      BY <1>2, <1>6 DEF Reading, Laid
    <2>3. Bytes = l
      BY <1>4, <2>1, <2>2, AtUnique
    <2> HIDE DEF l
    <2>4. FromLE32(<<l[1], l[2], l[3], l[4]>>) = FromLE32(l)
      BY DEF FromLE32
    <2> QED BY <2>1, <2>3, <2>4
  <1>9. CASE Len(hs) = 0 \/ Len(hs) > MAX_FRAME
    <2>1. ReaderEnds("error")
      BY <1>8, <1>9 DEF ReadHsLen
    <2>2. ~GoodHs
      BY <1>7, <1>9, LimitAssumption DEF GoodHs
    <2>3. bad
      BY <1>2, <1>6, <2>2 DEF Reading, Laid
    <2> QED BY <1>1, <1>4, <2>1, <2>3, ReaderFails
  <1>10. CASE ~(Len(hs) = 0 \/ Len(hs) > MAX_FRAME)
    <2>1. rd' = [pc |-> "hs", kind |-> 0, need |-> Len(hs)] /\ result' = result
      BY <1>8, <1>10 DEF ReadHsLen, Await
    <2>2. rd'.pc = "hs" /\ rd'.kind \in Byte /\ rd'.need = Len(hs)
      BY <2>1 DEF Byte
    <2>3. GoodHs
      BY <1>6, <1>7, <1>10, LimitAssumption DEF GoodHs
    <2>4. UNCHANGED <<hs, written, ended, torn, bad>>
      BY <1>1 DEF client
    <2>5. Laid(s, pos)'
      BY <1>2, <2>4, LaidStays DEF Reading
    <2>6. Lag(s, pos)'
      <3>1. Start(pos)' = 4
        BY <2>2 DEF Start
      <3>2. (ended # "reset")' => 4 + Len(Rest) = Len(s)
        BY <1>4, <2>4
      <3>3. GoodHs' /\ out' = <<>> /\ hs' = hs
        BY <1>1, <1>3, <2>3, <2>4 DEF GoodHs
      <3> QED BY <1>1, <1>4, <2>2, <3>1, <3>2, <3>3 DEF Lag
    <2>7. StreamInv'
      BY <2>5, <2>6 DEF StreamInv
    <2>8. TypeOK'
      BY <1>1, <1>4, <1>7, <2>1, <2>2, <2>4 DEF IInv, TypeOK
    <2>9. ReaderInv' /\ VerdictIsRight'
      BY <1>1, <1>2, <2>1, <2>2, <2>4 DEF Reading, IInv, ReaderInv, VerdictIsRight
    <2> QED BY <2>7, <2>8, <2>9 DEF IInv
  <1> QED BY <1>9, <1>10

\* The handshake that is read is the one that was written.
LEMMA ReadHsInv == IInv /\ ReadHs => IInv'
  <1> SUFFICES ASSUME IInv, ReadHs PROVE IInv'
    OBVIOUS
  <1>1. /\ rd.pc = "hs" /\ Ready /\ wire' = Rest /\ req' = Bytes
        /\ rd' = [pc |-> "header", kind |-> 0, need |-> 5]
        /\ UNCHANGED <<client, out, result>>
    BY DEF ReadHs, Consume, Rest, Await
  <1>2. PICK s, pos : Reading(s, pos)
    BY <1>1, ReaderAt
  <1>3. rd.need = Len(hs) /\ Start(pos) = 4 /\ out = <<>> /\ GoodHs
    BY <1>1, <1>2 DEF Reading, Lag, Start
  <1>4. hs \in Body /\ hs \in Seq(Byte) /\ Len(hs) \in Nat
    <2>1. hs \in Body
      BY <1>3 DEF GoodHs, IInv, TypeOK
    <2> QED BY <2>1, BodyBytes, LenProperties
  <1>5. /\ Bytes \in Seq(Byte) /\ Len(Bytes) = rd.need /\ At(s, Start(pos), Bytes)
        /\ Rest \in Seq(Byte) /\ At(s, Start(pos) + rd.need, Rest)
        /\ ended # "reset" => Start(pos) + rd.need + Len(Rest) = Len(s)
    BY <1>1, <1>2, Taken
  <1>6. pos[0] = Start(pos) + rd.need /\ At(s, 4, hs)
    BY <1>2, <1>3 DEF Reading, Laid, GoodHs
  <1>7. Bytes = hs
    BY <1>3, <1>4, <1>5, <1>6, AtUnique
  <1>8. UNCHANGED <<hs, written, ended, torn, bad>>
    BY <1>1 DEF client
  <1>9. Laid(s, pos)'
    BY <1>2, <1>8, LaidStays DEF Reading
  <1>10. rd'.pc = "header" /\ rd'.kind \in Byte /\ rd'.need = 5
    BY <1>1 DEF Byte
  <1>11. Lag(s, pos)'
    <2>1. Start(pos)' = pos[0]
      BY <1>1, <1>3, <1>10 DEF Start
    <2>2. GoodHs'
      BY <1>3, <1>8 DEF GoodHs
    <2> QED BY <1>1, <1>5, <1>6, <1>8, <1>10, <2>1, <2>2 DEF Lag
  <1>12. StreamInv'
    BY <1>9, <1>11 DEF StreamInv
  <1>13. TypeOK'
    BY <1>1, <1>4, <1>5, <1>7, <1>8, <1>10 DEF IInv, TypeOK
  <1>14. ReaderInv' /\ VerdictIsRight'
    BY <1>1, <1>7, <1>8, <1>10 DEF IInv, ReaderInv, VerdictIsRight
  <1> QED BY <1>12, <1>13, <1>14 DEF IInv

\* The five bytes of a header: a length above the limit is that of no written frame.
LEMMA ReadHeaderInv == IInv /\ ReadHeader => IInv'
  <1> SUFFICES ASSUME IInv, ReadHeader PROVE IInv'
    OBVIOUS
  <1> DEFINE len == FromLE32(Tail(Bytes))
  <1>1. rd.pc = "header" /\ Ready /\ wire' = Rest /\ UNCHANGED <<client, req, out>>
    BY DEF ReadHeader, Consume, Rest
  <1>2. PICK s, pos : Reading(s, pos)
    BY <1>1, ReaderAt
  <1> DEFINE k == Len(out)
             p == pos[Len(out)]
  <1>3. rd.need = 5 /\ Start(pos) = p /\ GoodHs /\ p \in Nat
    BY <1>1, <1>2 DEF Reading, Lag, Start
  <1>4. /\ Bytes \in Seq(Byte) /\ Len(Bytes) = 5 /\ At(s, p, Bytes)
        /\ Rest \in Seq(Byte) /\ At(s, p + 5, Rest)
        /\ ended # "reset" => p + 5 + Len(Rest) = Len(s)
        /\ p + 5 <= Len(s)
    <2>1. /\ Bytes \in Seq(Byte) /\ Len(Bytes) = rd.need /\ At(s, Start(pos), Bytes)
          /\ Rest \in Seq(Byte) /\ At(s, Start(pos) + rd.need, Rest)
          /\ ended # "reset" => Start(pos) + rd.need + Len(Rest) = Len(s)
          /\ Start(pos) + rd.need <= Len(s)
      BY <1>1, <1>2, Taken
    <2> HIDE DEF p
    <2> QED BY <1>3, <2>1
  <1>5. UNCHANGED <<hs, written, ended, torn, bad>>
    BY <1>1 DEF client
  <1> HIDE DEF p
  <1>6. /\ Bytes[1] = s[p + 1] /\ Bytes[1] \in Byte
        /\ len = FromLE32(<<s[p + 2], s[p + 3], s[p + 4], s[p + 5]>>) /\ len \in Nat
    <2> DEFINE b == Bytes
    <2>1. b \in Seq(Byte) /\ Len(b) = 5 /\ b # <<>>
      <3>1. b \in Seq(Byte) /\ Len(b) = 5
        BY <1>4
      <3> HIDE DEF b
      <3> QED BY <3>1
    <2>2. 1 \in 1..5 /\ 2 \in 1..5 /\ 3 \in 1..5 /\ 4 \in 1..5 /\ 5 \in 1..5
      OBVIOUS
    <2>3. \A i \in 1..5 : s[p + i] = b[i] /\ b[i] \in Byte
      BY <1>4, ElementOfSeq DEF At
    <2> HIDE DEF b
    <2>4. /\ s[p + 1] = b[1] /\ s[p + 2] = b[2] /\ s[p + 3] = b[3] /\ s[p + 4] = b[4] /\ s[p + 5] = b[5]
          /\ b[1] \in Byte /\ b[2] \in Byte /\ b[3] \in Byte /\ b[4] \in Byte /\ b[5] \in Byte
      BY <2>2, <2>3, Zenon
    <2>5. Tail(b)[1] = b[2] /\ Tail(b)[2] = b[3] /\ Tail(b)[3] = b[4] /\ Tail(b)[4] = b[5]
      <3>1. Len(Tail(b)) = 4 /\ \A i \in 1..Len(Tail(b)) : Tail(b)[i] = b[i + 1]
        BY <2>1, HeadTailProperties
      <3> QED BY <3>1
    <2>6. FromLE32(Tail(b)) = FromLE32(<<b[2], b[3], b[4], b[5]>>)
      <3> DEFINE t == Tail(b)
      <3>1. t[1] = b[2] /\ t[2] = b[3] /\ t[3] = b[4] /\ t[4] = b[5]
        BY <2>5
      <3> HIDE DEF t
      <3>2. FromLE32(t) = FromLE32(<<b[2], b[3], b[4], b[5]>>)
        BY <3>1, SMT DEF FromLE32
      <3> QED BY <3>2 DEF t
    <2>7. FromLE32(<<b[2], b[3], b[4], b[5]>>) \in Nat
      BY <2>4, BytesLength
    <2>8. FromLE32(Tail(b)) = FromLE32(<<s[p + 2], s[p + 3], s[p + 4], s[p + 5]>>)
      BY <2>4, <2>6, Zenon
    <2> QED BY <2>4, <2>6, <2>7, <2>8 DEF b
  <1> HIDE DEF len
  <1>7. CASE len > MAX_WS_FRAME
    <2>1. ReaderEnds("error")
      BY <1>7 DEF ReadHeader, len
    <2>2. torn > 0 \/ bad
      <3> SUFFICES ASSUME ~(torn > 0), ~bad PROVE FALSE
        OBVIOUS
      <3>1. Len(s) > pos[k] /\ k \in 0..Len(written)
        BY <1>2, <1>3, <1>4 DEF Reading, p
      <3>2. k + 1 \in 0..Len(written) /\ FrameAt(s, pos[k], pos[k + 1], written[k + 1]) /\ s \in Seq(Byte)
        BY <1>2, <1>3, <3>1, NextItem DEF Reading
      <3>3. PICK kind \in Byte, b \in Seq(Byte) :
              /\ FitsU32(Len(b)) /\ Len(b) <= MAX_WS_FRAME /\ At(s, p, Wire(kind, b))
        BY <3>2 DEF FrameAt, p
      <3>4. FromLE32(<<s[p + 2], s[p + 3], s[p + 4], s[p + 5]>>) = Len(b)
        BY <1>3, <3>2, <3>3, AtWire
      <3>5. Len(b) \in Nat
        BY LenProperties
      <3> QED BY <1>6, <1>7, <3>3, <3>4, <3>5, LimitAssumption
    <2> QED BY <1>1, <1>4, <2>1, <2>2, ReaderFails
  <1>8. CASE ~(len > MAX_WS_FRAME)
    <2>1. rd' = [pc |-> "payload", kind |-> Bytes[1], need |-> len] /\ result' = result
      BY <1>8 DEF ReadHeader, Await, len
    <2>2. rd'.pc = "payload" /\ rd'.kind = Bytes[1] /\ rd'.need = len
      BY <2>1
    <2>3. Laid(s, pos)'
      BY <1>2, <1>5, LaidStays DEF Reading
    <2>4. Lag(s, pos)'
      <3>1. Start(pos)' = p + 5
        BY <1>1, <2>2 DEF Start, p
      <3>2. GoodHs'
        BY <1>3, <1>5 DEF GoodHs
      <3>3. len <= MAX_WS_FRAME
        BY <1>6, <1>8, LimitAssumption
      <3>4. HeaderRead(s, pos[Len(out)])'
        BY <1>1, <1>6, <2>2, <3>3 DEF HeaderRead, p
      <3> QED BY <1>1, <1>4, <1>5, <2>2, <3>1, <3>2, <3>4 DEF Lag
    <2>5. StreamInv'
      BY <2>3, <2>4 DEF StreamInv
    <2>6. TypeOK'
      BY <1>1, <1>4, <1>5, <1>6, <2>1, <2>2 DEF IInv, TypeOK
    <2>7. ReaderInv' /\ VerdictIsRight'
      BY <1>1, <1>2, <1>5, <2>1, <2>2 DEF Reading, IInv, ReaderInv, VerdictIsRight
    <2> QED BY <2>5, <2>6, <2>7 DEF IInv
  <1> QED BY <1>7, <1>8

\* A payload that is read whole is that of the next frame, or malformed.
LEMMA PayloadIsNext ==
    ASSUME NEW s, NEW pos, Reading(s, pos), rd.pc = "payload", Ready
    PROVE  \/ /\ Len(out) + 1 \in 0..Len(written) /\ Decodes(rd.kind, Bytes)
              /\ Carries(written[Len(out) + 1], rd.kind, Bytes)
              /\ pos[Len(out) + 1] = Start(pos) + rd.need
           \/ bad /\ ~Decodes(rd.kind, Bytes)
  <1> DEFINE k == Len(out)
             p == pos[Len(out)]
  <1>1. /\ Start(pos) = p + 5 /\ GoodHs /\ p \in Nat /\ rd.need <= MAX_WS_FRAME /\ rd.need \in Nat
        /\ rd.kind = s[p + 1] /\ rd.need = FromLE32(<<s[p + 2], s[p + 3], s[p + 4], s[p + 5]>>)
        /\ s \in Seq(Byte) /\ Len(s) \in Nat /\ k \in 0..Len(written)
    BY DEF Reading, Lag, Start, HeaderRead
  <1>2. /\ Bytes \in Seq(Byte) /\ Len(Bytes) = rd.need /\ At(s, p + 5, Bytes)
        /\ p + 5 + rd.need <= Len(s)
    BY <1>1, Taken
  <1>3. Len(s) > pos[k]
    BY <1>1, <1>2
  <1>4. \/ k + 1 \in 0..Len(written) /\ FrameAt(s, p, pos[k + 1], written[k + 1])
        \/ torn > 0 /\ TornAt(s, p)
        \/ bad /\ BadAt(s, p)
    BY <1>1, <1>3, NextItem DEF Reading
  <1> HIDE DEF p
  <1>5. ASSUME NEW kind \in Byte, NEW b \in Seq(Byte), FitsU32(Len(b)), At(s, p, Wire(kind, b))
        PROVE  kind = rd.kind /\ b = Bytes
    <2>1. s[p + 1] = kind /\ rd.need = Len(b) /\ At(s, p + 5, b)
      BY <1>1, <1>5, AtWire
    <2> QED BY <1>1, <1>2, <2>1, AtUnique
  <1>6. CASE k + 1 \in 0..Len(written) /\ FrameAt(s, p, pos[k + 1], written[k + 1])
    <2>1. PICK kind \in Byte, b \in Seq(Byte) :
            /\ Carries(written[k + 1], kind, b) /\ Decodes(kind, b)
            /\ FitsU32(Len(b)) /\ pos[k + 1] = p + 5 + Len(b) /\ At(s, p, Wire(kind, b))
      BY <1>6 DEF FrameAt
    <2>2. kind = rd.kind /\ b = Bytes
      BY <1>5, <2>1
    <2> QED BY <1>1, <1>2, <1>6, <2>1, <2>2
  <1>7. CASE torn > 0 /\ TornAt(s, p)
    <2>1. Len(s) = p + torn /\ torn \in Nat
      BY <1>7 DEF TornAt, Reading
    <2>2. torn >= 5
      BY <1>1, <1>2, <2>1
    <2>3. PICK kind \in Byte, b \in Seq(Byte) :
            /\ torn < 5 + Len(b) /\ FitsU32(Len(b))
            /\ \A i \in 1..5 : s[p + i] = Wire(kind, b)[i]
      BY <1>7, <2>2 DEF TornAt
    <2> DEFINE w == Wire(kind, b)
    <2>4. FromLE32(<<w[2], w[3], w[4], w[5]>>) = Len(b) /\ Len(b) \in Nat
      BY <2>3, WireBytes, LenProperties
    <2>5. 2 \in 1..5 /\ 3 \in 1..5 /\ 4 \in 1..5 /\ 5 \in 1..5
      OBVIOUS
    <2> HIDE DEF w
    <2>6. s[p + 2] = w[2] /\ s[p + 3] = w[3] /\ s[p + 4] = w[4] /\ s[p + 5] = w[5]
      BY <2>3, <2>5, Zenon DEF w
    <2>7. rd.need = Len(b)
      BY <1>1, <2>4, <2>6, Zenon
    <2>8. p + 5 + Len(b) <= p + torn /\ torn < 5 + Len(b)
      BY <1>2, <2>1, <2>3, <2>7, Zenon
    <2> QED BY <1>1, <2>1, <2>4, <2>8
  <1>8. CASE bad /\ BadAt(s, p)
    <2>1. PICK kind \in Byte, b \in Seq(Byte) :
            /\ Len(b) > MAX_WS_FRAME \/ ~Decodes(kind, b)
            /\ FitsU32(Len(b)) /\ At(s, p, Wire(kind, b))
      BY <1>8 DEF BadAt
    <2>2. kind = rd.kind /\ b = Bytes
      BY <1>5, <2>1
    <2>3. ~(Len(b) > MAX_WS_FRAME)
      BY <1>1, <1>2, <2>2, LimitAssumption
    <2> QED BY <1>8, <2>1, <2>2, <2>3
  <1> QED BY <1>4, <1>6, <1>7, <1>8

\* What read_from() and client_to_up make of a payload is a message.
LEMMA MessageMade ==
    ASSUME NEW kind, NEW b \in Seq(Byte), Decodes(kind, b)
    PROVE  /\ Sanitize(Decode(kind, b)) \in Message
           /\ Sanitize(Decode(kind, b)).kind \in {TEXT, BINARY, PING, PONG, CLOSE}
           /\ Sanitize(Decode(kind, b)).code \notin Reserved
  <1>1. kind \in {TEXT, BINARY, PING, PONG, CLOSE}
    BY DEF Decodes
  <1>2. Sanitize(Decode(kind, b)) \in Message
    BY <1>1 DEF Message
  <1>3. PICK k, c, d :
          /\ k \in {TEXT, BINARY, PING, PONG, CLOSE}
          /\ Decode(kind, b) = [kind |-> k, code |-> c, body |-> d]
          /\ k # CLOSE => c = 0
    <2>1. \/ kind = CLOSE /\ \E c, d : Decode(kind, b) = [kind |-> CLOSE, code |-> c, body |-> d]
          \/ kind # CLOSE /\ Decode(kind, b) = [kind |-> kind, code |-> 0, body |-> b]
      <3>1. CASE kind = CLOSE /\ Len(b) >= 2
        <4> DEFINE c == 256 * b[1] + b[2]
                   d == Lossy(SubSeq(b, 3, Len(b)))
        <4>1. Decode(kind, b) = [kind |-> CLOSE, code |-> c, body |-> d]
          BY <3>1, DecodeForms
        <4> HIDE DEF c, d
        <4> QED BY <3>1, <4>1
      <3>2. CASE kind = CLOSE /\ ~(Len(b) >= 2)
        <4> DEFINE c == 1005
                   d == <<>>
        <4>1. Decode(kind, b) = [kind |-> CLOSE, code |-> c, body |-> d]
          BY <3>2, DecodeForms
        <4> HIDE DEF c, d
        <4> QED BY <3>2, <4>1
      <3>3. CASE kind # CLOSE
        BY <3>3, DecodeForms
      <3> QED BY <3>1, <3>2, <3>3
    <2> QED BY <1>1, <2>1
  <1> DEFINE g == [kind |-> k, code |-> c, body |-> d]
  <1>4. g.kind = k /\ g.code = c
    OBVIOUS
  <1>5. [g EXCEPT !.code = 1000].kind = k /\ [g EXCEPT !.code = 1000].code = 1000
    OBVIOUS
  <1>6. 0 \notin Reserved /\ 1000 \notin Reserved
    BY DEF Reserved
  <1> HIDE DEF g
  <1>7. Sanitize(g).kind = k /\ Sanitize(g).code \notin Reserved
    <2>1. CASE k = CLOSE /\ c \in Reserved
      BY <1>4, <1>5, <1>6, <2>1 DEF Sanitize
    <2>2. CASE ~(k = CLOSE /\ c \in Reserved)
      BY <1>3, <1>4, <1>6, <2>2 DEF Sanitize
    <2> QED BY <2>1, <2>2
  <1>8. Decode(kind, b) = g
    BY <1>3 DEF g
  <1> QED BY <1>2, <1>3, <1>7, <1>8

\* The payload of a frame becomes a message, or an error if it is malformed.
LEMMA ReadPayloadInv == IInv /\ ReadPayload => IInv'
  <1> SUFFICES ASSUME IInv, ReadPayload PROVE IInv'
    OBVIOUS
  <1>1. rd.pc = "payload" /\ Ready /\ wire' = Rest /\ UNCHANGED <<client, req>>
    BY DEF ReadPayload, Consume, Rest
  <1>2. PICK s, pos : Reading(s, pos)
    BY <1>1, ReaderAt
  <1>3. /\ Bytes \in Seq(Byte) /\ Rest \in Seq(Byte) /\ At(s, Start(pos) + rd.need, Rest)
        /\ ended # "reset" => Start(pos) + rd.need + Len(Rest) = Len(s)
    BY <1>1, <1>2, Taken
  <1>4. CASE ~Decodes(rd.kind, Bytes)
    <2>1. ReaderEnds("error") /\ out' = out /\ bad
      BY <1>1, <1>2, <1>4, PayloadIsNext DEF ReadPayload
    <2> QED BY <1>1, <1>3, <2>1, ReaderFails
  <1>5. CASE Decodes(rd.kind, Bytes)
    <2> DEFINE m == Sanitize(Decode(rd.kind, Bytes))
    <2>1. /\ Len(out) + 1 \in 0..Len(written)
          /\ pos[Len(out) + 1] = Start(pos) + rd.need
      BY <1>1, <1>2, <1>5, PayloadIsNext
    <2>2. m \in Message /\ m.kind \in {TEXT, BINARY, PING, PONG, CLOSE}
      BY <1>3, <1>5, MessageMade
    <2>3. out \in Seq(Message) /\ Len(out) \in Nat /\ out' = Append(out, m)
      BY <1>2, <1>5 DEF IInv, ReaderInv, Reading, ReadPayload
    <2> HIDE DEF m
    <2>4. /\ out' \in Seq(Message) /\ Len(out') = Len(out) + 1 /\ DOMAIN out' = 1..(Len(out) + 1)
          /\ (\A i \in 1..Len(out) : out'[i] = out[i]) /\ out'[Len(out) + 1] = m
      BY <2>2, <2>3, AppendProperties, LenProperties
    <2>5. \A i \in DOMAIN out' : out'[i].kind \in {TEXT, BINARY, PING, PONG, CLOSE}
      <3>1. \A i \in 1..Len(out) : out[i].kind \in {TEXT, BINARY, PING, PONG, CLOSE}
        BY <2>3, LenProperties DEF IInv, TypeOK
      <3> QED BY <2>2, <2>3, <2>4, <3>1
    <2>6. UNCHANGED <<hs, written, ended, torn, bad>>
      BY <1>1 DEF client
    <2>7. Laid(s, pos)'
      BY <1>2, <2>6, LaidStays DEF Reading
    <2>8. Len(out') <= Len(written')
      BY <1>2, <2>1, <2>4, <2>6 DEF Reading
    <2>9. CASE rd.kind = CLOSE
      <3>1. rd' = [pc |-> "over", kind |-> 0, need |-> 0] /\ result' = "closed"
        BY <1>5, <2>9 DEF ReadPayload, ReaderEnds, Await
      <3>2. rd'.pc = "over" /\ rd'.kind \in Byte /\ rd'.need \in Nat
        BY <3>1 DEF Byte
      <3>3. StreamInv'
        BY <2>7, <3>2 DEF StreamInv
      <3>4. TypeOK'
        BY <1>1, <1>3, <2>5, <2>6, <3>1, <3>2 DEF IInv, TypeOK
      <3>5. ReaderInv' /\ VerdictIsRight'
        BY <1>1, <2>4, <2>6, <2>8, <3>1, <3>2 DEF IInv, ReaderInv, VerdictIsRight
      <3> QED BY <3>3, <3>4, <3>5 DEF IInv
    <2>10. CASE rd.kind # CLOSE
      <3>1. rd' = [pc |-> "header", kind |-> 0, need |-> 5] /\ result' = result
        BY <1>5, <2>10 DEF ReadPayload, Await
      <3>2. rd'.pc = "header" /\ rd'.kind \in Byte /\ rd'.need = 5
        BY <3>1 DEF Byte
      <3>3. Lag(s, pos)'
        <4>1. Start(pos)' = Start(pos) + rd.need
          BY <2>1, <2>4, <3>2 DEF Start
        <4>2. GoodHs'
          BY <1>1, <1>2, <2>6 DEF Reading, Lag, GoodHs
        <4> QED BY <1>1, <1>3, <2>6, <3>2, <4>1, <4>2 DEF Lag
      <3>4. StreamInv'
        BY <2>7, <3>3 DEF StreamInv
      <3>5. TypeOK'
        BY <1>1, <1>3, <2>5, <2>6, <3>1, <3>2 DEF IInv, TypeOK
      <3>6. ReaderInv' /\ VerdictIsRight'
        BY <1>1, <1>2, <2>4, <2>6, <2>8, <3>1, <3>2 DEF Reading, IInv, ReaderInv, VerdictIsRight
      <3> QED BY <3>4, <3>5, <3>6 DEF IInv
    <2> QED BY <2>9, <2>10
  <1> QED BY <1>4, <1>5

\* The stream has ended before the bytes that are awaited: in a header that may be a clean
\* end, anywhere else the stream was cut off or is malformed.
LEMMA ReadEofInv == IInv /\ ReadEof => IInv'
  <1> SUFFICES ASSUME IInv, ReadEof PROVE IInv'
    OBVIOUS
  <1>1. /\ rd.pc # "over" /\ Len(wire) < rd.need /\ ended = "finished"
        /\ ReaderEnds(IF rd.pc = "header" THEN "eof" ELSE "error")
        /\ UNCHANGED <<client, wire, req, out>>
    BY DEF ReadEof
  <1>2. PICK s, pos : Reading(s, pos)
    BY <1>1, ReaderAt
  <1> DEFINE k == Len(out)
             p == pos[Len(out)]
  <1>3. /\ Start(pos) + Len(wire) = Len(s) /\ Start(pos) \in Nat /\ Len(wire) \in Nat /\ p \in Nat
        /\ s \in Seq(Byte) /\ rd.need \in Nat /\ Len(s) \in Nat /\ torn \in Nat
        /\ k \in 0..Len(written) /\ Len(written) \in Nat /\ wire \in Seq(Byte)
    BY <1>1, <1>2 DEF Reading, Lag
  <1>4. CASE rd.pc = "hslen"
    <2>1. hs = NoHs
      <3> SUFFICES ASSUME hs # NoHs PROVE FALSE
        OBVIOUS
      <3>1. At(s, 0, LE32(Len(hs))) /\ hs \in Body
        BY <1>2 DEF Reading, Laid, IInv, TypeOK
      <3>2. Len(LE32(Len(hs))) = 4
        BY <3>1, BodyBytes, LengthBytes
      <3>3. Start(pos) = 0 /\ rd.need = 4
        BY <1>2, <1>4 DEF Reading, Lag, Start
      <3> QED BY <1>1, <1>3, <3>1, <3>2, <3>3 DEF At
    <2> QED BY <1>1, <1>3, <1>4, <2>1, ReaderFails
  <1>5. CASE rd.pc = "hs"
    <2>1. Start(pos) = 4 /\ rd.need = Len(hs) /\ At(s, 4, hs)
      BY <1>2, <1>5 DEF Reading, Lag, Laid, Start, GoodHs
    <2> QED BY <1>1, <1>3, <2>1 DEF At
  <1>6. CASE rd.pc = "payload"
    <2>1. Start(pos) = p + 5 /\ GoodHs
      BY <1>2, <1>6 DEF Reading, Lag, Start
    <2>2. Len(s) > pos[k]
      BY <1>3, <2>1
    <2>3. torn > 0 \/ bad
      <3> SUFFICES ASSUME ~(torn > 0), ~bad PROVE FALSE
        OBVIOUS
      <3>1. FrameAt(s, p, pos[k + 1], written[k + 1])
        BY <1>2, <1>3, <2>1, <2>2, NextItem DEF Reading
      <3>2. PICK kind \in Byte, b \in Seq(Byte) : FitsU32(Len(b)) /\ At(s, p, Wire(kind, b))
        BY <3>1 DEF FrameAt
      <3>3. FromLE32(<<s[p + 2], s[p + 3], s[p + 4], s[p + 5]>>) = Len(b) /\ p + 5 + Len(b) <= Len(s)
        BY <1>3, <3>2, AtWire
      <3>4. rd.need = Len(b)
        BY <1>2, <1>6, <3>3 DEF Reading, Lag, HeaderRead
      <3> QED BY <1>1, <1>3, <2>1, <3>3, <3>4
    <2> QED BY <1>1, <1>3, <1>6, <2>3, ReaderFails
  <1>7. CASE rd.pc = "header"
    <2>1. Start(pos) = p /\ GoodHs /\ rd.need = 5
      BY <1>2, <1>7 DEF Reading, Lag, Start
    <2>2. Len(s) < p + 5
      BY <1>1, <1>3, <2>1
    <2>3. ASSUME NEW kind \in Byte, NEW b \in Seq(Byte), FitsU32(Len(b)), At(s, p, Wire(kind, b)) PROVE FALSE
      <3>1. p + 5 + Len(b) <= Len(s) /\ Len(b) \in Nat
        BY <1>3, <2>3, AtWire, LenProperties
      <3> QED BY <1>3, <2>2, <3>1
    <2>4. ~(\E q, f : FrameAt(s, p, q, f)) /\ ~BadAt(s, p)
      BY <2>3 DEF FrameAt, BadAt
    <2>5. ASSUME Len(s) > pos[k] PROVE k = Len(written) /\ torn < 5 /\ ~bad
      <3>1. torn > 0 /\ TornAt(s, p)
        BY <1>2, <1>3, <2>1, <2>4, <2>5, NextItem DEF Reading
      <3>2. torn < 5
        <4>1. Len(s) = p + torn
          BY <3>1 DEF TornAt
        <4> QED BY <1>3, <2>2, <4>1
      <3>3. k = Len(written) /\ ~bad
        <4>1. ~bad /\ (\A i \in 1..Len(written) : FrameAt(s, pos[i - 1], pos[i], written[i]))
          BY <1>2, <3>1 DEF Reading, Laid
        <4>2. ASSUME k # Len(written) PROVE FALSE
          <5>1. k + 1 \in 1..Len(written) /\ (k + 1) - 1 = k
            BY <1>3, <4>2
          <5> QED BY <2>4, <4>1, <5>1
        <4> QED BY <4>1, <4>2
      <3> QED BY <3>2, <3>3
    <2>6. ASSUME ~(Len(s) > pos[k]) PROVE k = Len(written) /\ torn < 5 /\ ~bad
      <3>1. Len(s) = p
        <4>1. pos[k] <= Len(s)
          BY <1>2, <1>3 DEF Reading, Laid
        <4> QED BY <1>3, <2>6, <4>1
      <3>2. k = Len(written)
        <4> SUFFICES ASSUME k # Len(written) PROVE FALSE
          OBVIOUS
        <4>1. k + 1 \in 1..Len(written) /\ (k + 1) - 1 = k
          BY <1>3
        <4> QED BY <1>2, <2>4, <4>1 DEF Reading, Laid
      <3>3. ~bad
        BY <1>2, <2>1, <2>4, <3>2 DEF Reading, Laid
      <3>4. torn < 5
        <4>1. CASE torn > 0
          <5>1. Len(s) = p + torn
            BY <1>2, <3>2, <4>1 DEF Reading, Laid, TornAt
          <5> QED BY <1>3, <2>2, <5>1
        <4>2. CASE ~(torn > 0)
          BY <1>3, <4>2
        <4> QED BY <4>1, <4>2
      <3> QED BY <3>2, <3>3, <3>4
    <2>7. Len(out) = Len(written) /\ torn < 5 /\ ~bad
      <3>1. k = Len(written) /\ torn < 5 /\ ~bad
        BY <2>5, <2>6
      <3> QED BY <3>1
    <2>8. /\ rd' = [pc |-> "over", kind |-> 0, need |-> 0] /\ result' = "eof"
          /\ UNCHANGED <<hs, written, ended, torn, bad>>
      BY <1>1, <1>7 DEF ReaderEnds, Await, client
    <2>9. rd'.pc = "over" /\ rd'.kind \in Byte /\ rd'.need \in Nat
      BY <2>8 DEF Byte
    <2>10. Laid(s, pos)'
      BY <1>2, <2>8, LaidStays DEF Reading
    <2>11. StreamInv'
      BY <2>9, <2>10 DEF StreamInv
    <2>12. TypeOK'
      BY <1>1, <2>8, <2>9 DEF IInv, TypeOK
    <2>13. ReaderInv' /\ VerdictIsRight'
      BY <1>1, <2>7, <2>8, <2>9 DEF IInv, ReaderInv, VerdictIsRight
    <2> QED BY <2>11, <2>12, <2>13 DEF IInv
  <1>8. rd.pc \in {"hslen", "hs", "header", "payload"}
    BY <1>1 DEF IInv, TypeOK
  <1> QED BY <1>4, <1>5, <1>6, <1>7, <1>8

\* A reset ends the reader with an error.
LEMMA ReadResetInv == IInv /\ ReadReset => IInv'
  <1> SUFFICES ASSUME IInv, ReadReset PROVE IInv'
    OBVIOUS
  <1>1. wire' \in Seq(Byte)
    BY DEF ReadReset, IInv, TypeOK
  <1> QED BY <1>1, ReaderFails DEF ReadReset

-----------------------------------------------------------------------------
(* The specification                                                        *)

\* Nothing is written and nothing read.
LEMMA InitInv == Init => IInv
  <1> SUFFICES ASSUME Init PROVE IInv
    OBVIOUS
  <1>1. <<>> \in Seq(Byte) /\ <<>> \in Seq(Frame) /\ <<>> \in Seq(Message) /\ Len(<<>>) = 0
    OBVIOUS
  <1>2. rd.pc = "hslen" /\ rd.kind = 0 /\ rd.need = 4
    BY DEF Init
  <1>3. TypeOK
    <2>1. bad \in BOOLEAN
      BY Zenon DEF Init
    <2>2. 0 \in Byte /\ torn \in 0..(MAX_WS_FRAME + 5)
      BY LimitAssumption DEF Byte, Init
    <2> QED BY <1>1, <1>2, <2>1, <2>2 DEF Init, TypeOK
  <1>4. ReaderInv
    BY <1>1, <1>2 DEF Init, ReaderInv
  <1>5. VerdictIsRight
    BY DEF Init, VerdictIsRight
  <1>6. PICK pos : pos = [i \in 0..0 |-> 0]
    OBVIOUS
  <1>7. Laid(<<>>, pos)
    BY <1>1, <1>6 DEF Init, Laid, GoodHs
  <1>8. Lag(<<>>, pos)
    BY <1>2 DEF Init, Lag, Start, At
  <1>9. StreamInv
    BY <1>7, <1>8 DEF StreamInv
  <1> QED BY <1>3, <1>4, <1>5, <1>9 DEF IInv

\* Every step keeps the invariant.
LEMMA NextInv == IInv /\ [Next]_vars => IInv'
  <1> SUFFICES ASSUME IInv, [Next]_vars PROVE IInv'
    OBVIOUS
  <1>1. ASSUME NEW j \in Body, WriteHandshake(j) PROVE IInv'
    <2>1. Len(j) \in Nat /\ (j = <<>> <=> Len(j) = 0)
      BY BodyBytes, LenProperties, EmptySeq
    <2>2. (j = <<>>) = (Len(j) \notin 1..MAX_FRAME)
      BY <1>1, <2>1, LimitAssumption DEF WriteHandshake
    <2>3. bad' = (Len(j) \notin 1..MAX_FRAME)
      BY <1>1, <2>2, Zenon DEF WriteHandshake
    <2> QED BY <1>1, <2>3, HandshakeInv DEF WriteHandshake
  <1>2. ASSUME NEW j \in Body, WriteLongHandshake(j) PROVE IInv'
    <2>1. Len(j) \in Nat
      BY BodyBytes, LenProperties
    <2>2. (Len(j) \notin 1..MAX_FRAME) = TRUE
      BY <1>2, <2>1, LimitAssumption DEF WriteLongHandshake
    <2>3. bad' = (Len(j) \notin 1..MAX_FRAME)
      BY <1>2, <2>2, Zenon DEF WriteLongHandshake
    <2> QED BY <1>2, <2>3, HandshakeInv DEF WriteLongHandshake
  <1>3. CASE Read
    BY <1>3, ReadHsLenInv, ReadHsInv, ReadHeaderInv, ReadPayloadInv, ReadEofInv, ReadResetInv DEF Read
  <1>4. CASE UNCHANGED vars
    <2>1. UNCHANGED <<hs, written, ended, torn, bad, wire, rd, req, out, result>>
      BY <1>4 DEF vars, client
    <2>2. PICK s, pos : Laid(s, pos) /\ (rd.pc # "over" => Lag(s, pos))
      BY DEF IInv, StreamInv
    <2>3. Laid(s, pos)'
      BY <2>1, <2>2, LaidStays
    <2>4. (rd.pc # "over" => Lag(s, pos))'
      BY <2>1, <2>2 DEF Lag, Start, GoodHs, HeaderRead
    <2>5. StreamInv'
      BY <2>3, <2>4 DEF StreamInv
    <2>6. TypeOK' /\ ReaderInv' /\ VerdictIsRight'
      BY <2>1 DEF IInv, TypeOK, ReaderInv, VerdictIsRight
    <2> QED BY <2>5, <2>6 DEF IInv
  <1> QED BY <1>1, <1>2, <1>3, <1>4, WriteInv, WriteShortCloseInv, WriteRawInv, WriteTornInv,
             FinishInv, ResetInv DEF Next

\* The inductive invariant holds in every reachable state.
LEMMA Invariance == Spec => []IInv
  BY InitInv, NextInv, PTL DEF Spec

\* Only the reader delivers, and only a payload it can decode; the client alone writes.
LEMMA QuietSteps ==
    ASSUME [Next]_vars
    PROVE  /\ out' = out \/ (ReadPayload /\ Decodes(rd.kind, Bytes))
           /\ \/ UNCHANGED written
              \/ UNCHANGED out /\ \E f : written' = Append(written, f)
  <1>1. ASSUME NEW j \in Body, WriteHandshake(j) \/ WriteLongHandshake(j) PROVE UNCHANGED <<out, written>>
    BY <1>1 DEF WriteHandshake, WriteLongHandshake
  <1>2. ASSUME NEW f \in Frame, Write(f)
        PROVE  UNCHANGED out /\ (UNCHANGED written \/ \E g : written' = Append(written, g))
    BY <1>2 DEF Write
  <1>3. CASE WriteShortClose
    BY <1>3 DEF WriteShortClose
  <1>4. ASSUME NEW kind \in {TEXT} \cup OtherKind, NEW b \in Body, WriteRaw(kind, b)
        PROVE  UNCHANGED <<out, written>>
    BY <1>4 DEF WriteRaw
  <1>5. ASSUME NEW f \in Frame, NEW n \in 1..(MAX_WS_FRAME + 5), WriteTorn(f, n)
        PROVE  UNCHANGED <<out, written>>
    BY <1>5 DEF WriteTorn
  <1>6. CASE Finish \/ Reset
    BY <1>6 DEF Finish, Reset
  <1>7. CASE ReadHsLen \/ ReadHs \/ ReadHeader \/ ReadEof \/ ReadReset
    BY <1>7 DEF ReadHsLen, ReadHs, ReadHeader, ReadEof, ReadReset, client
  <1>8. CASE ReadPayload
    BY <1>8 DEF ReadPayload, client
  <1>9. CASE UNCHANGED vars
    BY <1>9 DEF vars, client
  <1> QED BY <1>1, <1>2, <1>3, <1>4, <1>5, <1>6, <1>7, <1>8, <1>9 DEF Next, Read

\* The wire carries bytes, lengths are read as numbers, and only frames of the five known
\* kinds are passed on.
THEOREM TypeCorrect == Spec => []TypeOK
  <1>1. IInv => TypeOK
    BY DEF IInv
  <1> QED BY <1>1, Invariance, PTL

\* Wherever the stream breaks off, read_from() reports a clean end only if every whole frame
\* was passed on, and an error only if the stream was reset, cut off or malformed; the
\* handshake read is the one written.
THEOREM VerdictHolds == Spec => []VerdictIsRight
  <1>1. IInv => VerdictIsRight
    BY DEF IInv
  <1> QED BY <1>1, Invariance, PTL

-----------------------------------------------------------------------------
(* The codec is a pipe                                                      *)

\* A payload that decodes is passed on as the message the next written frame stands for.
LEMMA PayloadIsDelivered ==
    ASSUME IInv, ReadPayload, Decodes(rd.kind, Bytes)
    PROVE  /\ Len(out) \in Nat /\ Len(out) + 1 \in 1..Len(written)
           /\ out' = Append(out, Relayed(written[Len(out) + 1])) /\ UNCHANGED written
  <1>1. rd.pc = "payload" /\ Ready /\ UNCHANGED written
    BY DEF ReadPayload, client
  <1>2. out' = Append(out, Sanitize(Decode(rd.kind, Bytes)))
    BY DEF ReadPayload
  <1>3. PICK s, pos : Reading(s, pos)
    BY <1>1, ReaderAt
  <1>4. Len(out) + 1 \in 0..Len(written) /\ Carries(written[Len(out) + 1], rd.kind, Bytes)
    BY <1>1, <1>3, PayloadIsNext
  <1>5. Len(out) \in Nat /\ Len(written) \in Nat /\ written \in Seq(Frame)
    BY <1>3 DEF Reading, IInv, TypeOK
  <1> DEFINE k == Len(out) + 1
  <1>6. k \in 1..Len(written)
    BY <1>4, <1>5
  <1> HIDE DEF k
  <1>7. written[k] \in Frame
    BY <1>5, <1>6, ElementOfSeq
  <1>8. Sanitize(Decode(rd.kind, Bytes)) = Relayed(written[k])
    BY <1>4, <1>7, DecodeEncode DEF k
  <1> QED BY <1>1, <1>2, <1>5, <1>6, <1>8 DEF k

\* The kind and the code of the message client_to_up makes of a frame.
LEMMA RelayedCode ==
    ASSUME NEW f \in Frame
    PROVE  /\ Relayed(f).kind = f.kind
           /\ f.kind = CLOSE => Relayed(f).code = IF f.code \in NeverSent THEN 1000 ELSE f.code
  <1>1. Sanitize(f).kind = f.kind
        /\ (f.kind = CLOSE => Sanitize(f).code = IF f.code \in NeverSent THEN 1000 ELSE f.code)
    BY DEF Sanitize, Reserved, NeverSent, Frame
  <1>2. Relayed(f).kind = Sanitize(f).kind /\ Relayed(f).code = Sanitize(f).code
    BY DEF Relayed, Sanitize, Frame
  <1> QED BY <1>1, <1>2

\* The upstream is closed with the client's code, or with 1000 where RFC 6455 forbids to send
\* it, whatever else the client wrote before and after.
THEOREM CodesAreKept == Spec => []CloseCodesKept
  <1>1. Init => CloseCodesKept
    BY DEF Init, CloseCodesKept
  <1>2. IInv /\ CloseCodesKept /\ [Next]_vars => CloseCodesKept'
    <2> SUFFICES ASSUME IInv, CloseCodesKept, [Next]_vars PROVE CloseCodesKept'
      OBVIOUS
    <2>0. written \in Seq(Frame) /\ out \in Seq(Message)
      BY DEF IInv, TypeOK, ReaderInv
    <2>1. CASE UNCHANGED <<written, out>>
      BY <2>1 DEF CloseCodesKept
    <2>2. CASE UNCHANGED out /\ \E f : written' = Append(written, f)
      <3>1. PICK f : written' = Append(written, f)
        BY <2>2
      <3>2. \A i \in DOMAIN written : i \in DOMAIN written' /\ written'[i] = written[i]
        BY <2>0, <3>1
      <3> QED BY <2>2, <3>2 DEF CloseCodesKept
    <2>3. CASE ReadPayload /\ Decodes(rd.kind, Bytes)
      <3> DEFINE k == Len(out) + 1
                 m == Relayed(written[k])
      <3>1. k \in 1..Len(written) /\ out' = Append(out, m) /\ UNCHANGED written
        BY <2>3, PayloadIsDelivered
      <3>2. k \in DOMAIN written /\ written[k] \in Frame
        BY <2>0, <3>1, ElementOfSeq
      <3>3. /\ m.kind = written[k].kind
            /\ m.kind = CLOSE =>
                 m.code = IF written[k].code \in NeverSent THEN 1000 ELSE written[k].code
        BY <3>2, RelayedCode
      <3> HIDE DEF m
      <3>4. DOMAIN out = 1..Len(out) /\ DOMAIN out' = 1..k /\ Len(out) \in Nat
            /\ (\A i \in 1..Len(out) : out'[i] = out[i]) /\ out'[k] = m
        BY <2>0, <3>1
      <3>5. \A i \in 1..k : i = k \/ i \in 1..Len(out)
        BY <3>4
      <3> HIDE DEF k
      <3> QED BY <3>1, <3>2, <3>3, <3>4, <3>5 DEF CloseCodesKept
    <2> QED BY <2>1, <2>2, <2>3, QuietSteps
  <1> QED BY <1>1, <1>2, Invariance, PTL DEF Spec

\* The messages a sequence of frames stands for.
Messages(w) == [i \in DOMAIN w |-> Relayed(w[i])]

\* One more frame stands for one more message.
LEMMA OneMore ==
    ASSUME NEW w \in Seq(Frame), NEW f, NEW v, v = Append(w, f), v \in Seq(Frame)
    PROVE  /\ Len(Messages(w)) = Len(w) /\ Len(Messages(v)) = Len(w) + 1
           /\ Messages(v) = Append(Messages(w), Messages(v)[Len(w) + 1])
  <1> DEFINE n == Len(w)
             a == Messages(w)
             b == Messages(v)
  <1>1. n \in Nat /\ DOMAIN w = 1..n /\ Len(v) = n + 1 /\ DOMAIN v = 1..(n + 1)
        /\ \A i \in 1..n : v[i] = w[i]
    BY DEF n
  <1>2. /\ DOMAIN a = 1..n /\ DOMAIN b = 1..(n + 1) /\ \A i \in 1..n : a[i] = b[i]
    BY <1>1 DEF Messages
  <1>3. a = [i \in 1..n |-> a[i]] /\ b = [i \in 1..(n + 1) |-> b[i]]
    BY <1>1 DEF Messages
  <1> HIDE DEF n, a, b
  <1> DEFINE S == {a[i] : i \in 1..n} \cup {b[i] : i \in 1..(n + 1)}
  <1>4. a \in [1..n -> S] /\ b \in [1..(n + 1) -> S]
    BY <1>3
  <1> HIDE DEF S
  <1>5. a \in Seq(S) /\ b \in Seq(S) /\ b[n + 1] \in S
    BY <1>1, <1>4
  <1>6. Len(a) = n /\ Len(b) = n + 1
    BY <1>1, <1>2, <1>5
  <1>7. b = Append(a, b[n + 1])
    BY <1>1, <1>2, <1>5, <1>6
  <1> QED BY <1>6, <1>7 DEF n, a, b

\* encode(), the stream and read_from() implement a pipe of frames: wherever the stream is
\* cut off, no message skips, repeats or alters a frame that was written.
THEOREM CodecIsAPipe == Spec => CodecIsPipe
  <1> DEFINE lane == <<[i \in DOMAIN written |->
                          [Sanitize(written[i]) EXCEPT !.body = IF written[i].kind = CLOSE
                                                                THEN Lossy(@) ELSE @]], out>>
  <1>1. Init => Lane!Init
    BY DEF Init, Lane!Init
  <1>2. IInv /\ IInv' /\ [Next]_vars => [Lane!Next]_lane
    <2> SUFFICES ASSUME IInv, IInv', [Next]_vars PROVE Lane!Next \/ UNCHANGED lane
      OBVIOUS
    <2>1. written \in Seq(Frame) /\ written' \in Seq(Frame)
      BY DEF IInv, TypeOK
    <2>2. CASE UNCHANGED <<written, out>>
      BY <2>2 DEF Messages
    <2>3. CASE UNCHANGED out /\ \E f : written' = Append(written, f)
      <3>1. PICK f : written' = Append(written, f)
        BY <2>3
      <3>2. /\ Len(Messages(written)) = Len(written) /\ Len(Messages(written')) = Len(written) + 1
            /\ Messages(written') = Append(Messages(written), Messages(written')[Len(written) + 1])
        BY <2>1, <3>1, OneMore
      <3>3. Lane!Offer
        BY <2>3, <3>2 DEF Lane!Offer, Messages, Relayed
      <3> QED BY <3>3 DEF Lane!Next
    <2>4. CASE ReadPayload /\ Decodes(rd.kind, Bytes)
      <3>1. /\ Len(out) \in Nat /\ Len(out) + 1 \in 1..Len(written)
            /\ out' = Append(out, Relayed(written[Len(out) + 1])) /\ UNCHANGED written
        BY <2>4, PayloadIsDelivered
      <3>2. Len(Messages(written)) = Len(written)
        BY <2>1 DEF Messages
      <3>3. Messages(written)[Len(out) + 1] = Relayed(written[Len(out) + 1])
        BY <2>1, <3>1 DEF Messages
      <3>4. Len(out) < Len(Messages(written)) /\ out' = Append(out, Messages(written)[Len(out) + 1])
            /\ Messages(written') = Messages(written)
        BY <2>1, <3>1, <3>2, <3>3
      <3>5. Lane!Deliver
        BY <3>4 DEF Lane!Deliver, Messages, Relayed
      <3> QED BY <3>5 DEF Lane!Next
    <2> QED BY <2>2, <2>3, <2>4, QuietSteps
  <1>3. IInv /\ [Next]_vars => IInv'
    BY NextInv
  <1> QED BY <1>1, <1>2, <1>3, Invariance, PTL DEF Spec, CodecIsPipe, Lane!Spec

-----------------------------------------------------------------------------
(* The reader finishes                                                      *)

\* What the reader has before it: the bytes on their way, each worth two steps so that a
\* payload of no bytes costs one as well.
Left == 2 * Len(wire) + (IF rd.pc = "over" THEN 0 ELSE IF rd.pc = "payload" THEN 2 ELSE 1)

\* read_exact() leaves the rest of the bytes.
LEMMA RestIsShorter ==
    ASSUME IInv, Ready, Consume
    PROVE  /\ Len(wire) \in Nat /\ rd.need \in Nat /\ Len(wire') = Len(wire) - rd.need
           /\ rd.need <= Len(wire) /\ rd.pc # "over"
           /\ rd.pc # "payload" => rd.need >= 1
  <1>1. PICK s, pos : Reading(s, pos)
    BY ReaderAt DEF Ready
  <1>2. /\ s \in Seq(Byte) /\ wire \in Seq(Byte) /\ Start(pos) \in Nat /\ At(s, Start(pos), wire)
        /\ rd.need \in Nat /\ rd.need <= Len(wire) /\ Len(wire) \in Nat /\ rd.pc # "over"
    BY <1>1 DEF Reading, Ready
  <1>3. Len(SubSeq(wire, rd.need + 1, Len(wire))) = Len(wire) - rd.need
    <2> DEFINE n == rd.need
               q == Start(pos)
    <2>1. s \in Seq(Byte) /\ q \in Nat /\ At(s, q, wire) /\ n \in Nat /\ n <= Len(wire)
      BY <1>2
    <2> HIDE DEF n, q
    <2>2. Len(SubSeq(wire, n + 1, Len(wire))) = Len(wire) - n
      BY <1>2, <2>1, AtRead
    <2> QED BY <2>2 DEF n
  <1>4. wire' = SubSeq(wire, rd.need + 1, Len(wire))
    BY DEF Consume
  <1>5. rd.pc # "payload" => rd.need >= 1
    <2>1. Lag(s, pos) /\ rd.pc \in {"hslen", "hs", "header", "payload", "over"}
      BY <1>1 DEF Reading, IInv, TypeOK
    <2>2. rd.pc = "hs" => Len(hs) >= 1
      BY <2>1, LimitAssumption DEF Lag, GoodHs
    <2>3. /\ rd.pc = "hslen" => rd.need = 4
          /\ rd.pc = "hs" => rd.need = Len(hs)
          /\ rd.pc = "header" => rd.need = 5
      BY <2>1 DEF Lag
    <2> QED BY <1>2, <2>1, <2>2, <2>3
  <1> QED BY <1>2, <1>3, <1>4, <1>5

\* Each step of the reader brings it nearer to its end.
LEMMA ReadIsProgress ==
    ASSUME IInv, Read
    PROVE  Left' < Left /\ UNCHANGED ended
  <1>0. Len(wire) \in Nat /\ rd.need \in Nat
    BY LenProperties DEF IInv, TypeOK
  <1>1. CASE ReadHsLen
    <2>1. /\ Ready /\ Consume /\ rd.pc = "hslen" /\ UNCHANGED ended
          /\ rd'.pc = "over" \/ rd'.pc = "hs"
      BY <1>1 DEF ReadHsLen, ReaderEnds, Await, client
    <2>2. Len(wire') = Len(wire) - rd.need /\ rd.need <= Len(wire) /\ (rd.pc # "payload" => rd.need >= 1)
      BY <2>1, RestIsShorter
    <2> QED BY <1>0, <2>1, <2>2 DEF Left
  <1>2. CASE ReadHs
    <2>1. Ready /\ Consume /\ rd.pc = "hs" /\ UNCHANGED ended /\ rd'.pc = "header"
      BY <1>2 DEF ReadHs, Await, client
    <2>2. Len(wire') = Len(wire) - rd.need /\ rd.need <= Len(wire) /\ (rd.pc # "payload" => rd.need >= 1)
      BY <2>1, RestIsShorter
    <2> QED BY <1>0, <2>1, <2>2 DEF Left
  <1>3. CASE ReadHeader
    <2>1. /\ Ready /\ Consume /\ rd.pc = "header" /\ UNCHANGED ended
          /\ rd'.pc = "over" \/ rd'.pc = "payload"
      BY <1>3 DEF ReadHeader, ReaderEnds, Await, client
    <2>2. Len(wire') = Len(wire) - rd.need /\ rd.need <= Len(wire) /\ (rd.pc # "payload" => rd.need >= 1)
      BY <2>1, RestIsShorter
    <2> QED BY <1>0, <2>1, <2>2 DEF Left
  <1>4. CASE ReadPayload
    <2>1. /\ Ready /\ Consume /\ rd.pc = "payload" /\ UNCHANGED ended
          /\ rd'.pc = "over" \/ rd'.pc = "header"
      BY <1>4 DEF ReadPayload, ReaderEnds, Await, client
    <2>2. Len(wire') = Len(wire) - rd.need /\ rd.need <= Len(wire) /\ (rd.pc # "payload" => rd.need >= 1)
      BY <2>1, RestIsShorter
    <2> QED BY <1>0, <2>1, <2>2 DEF Left
  <1>5. CASE ReadEof \/ ReadReset
    <2>1. rd.pc # "over" /\ rd'.pc = "over" /\ UNCHANGED <<ended, wire>>
      BY <1>5 DEF ReadEof, ReadReset, ReaderEnds, Await, client
    <2> QED BY <1>0, <2>1 DEF Left
  <1> QED BY <1>1, <1>2, <1>3, <1>4, <1>5 DEF Read

\* Nothing is written to a stream that has ended, and a reset only takes bytes away.
LEMMA EndedIsProgress ==
    ASSUME IInv, [Next]_vars, ended # "open"
    PROVE  ended' # "open" /\ Left' <= Left
  <1>0. wire \in Seq(Byte) /\ Len(wire) \in Nat /\ Left \in Nat
    BY LenProperties DEF IInv, TypeOK, Left
  <1>1. Reset \/ Read \/ UNCHANGED vars
    BY DEF Next, WriteHandshake, WriteLongHandshake, Write, WriteShortClose, WriteRaw, WriteTorn,
           CanWrite, Finish
  <1>2. CASE Reset
    <2>1. PICK n \in 0..Len(wire) : wire' = SubSeq(wire, 1, n)
      BY <1>2 DEF Reset
    <2>2. Len(wire') = n /\ UNCHANGED rd /\ ended' = "reset"
      BY <1>0, <1>2, <2>1, Beginning DEF Reset
    <2> QED BY <1>0, <2>2 DEF Left
  <1>3. CASE Read
    <2>1. Left' < Left /\ UNCHANGED ended
      BY <1>3, ReadIsProgress
    <2>2. Left' \in Int
      <3>1. Len(wire') \in Nat
        BY <1>0, <1>3, NextInv, LenProperties DEF IInv, TypeOK
      <3> QED BY <3>1 DEF Left
    <2> QED BY <1>0, <2>1, <2>2
  <1>4. CASE UNCHANGED vars
    BY <1>0, <1>4 DEF vars, client, Left
  <1> QED BY <1>1, <1>2, <1>3, <1>4

\* The reader cannot go on forever.  Whatever step read_from() takes, a natural number
\* gets smaller; once the stream is finished or reset it stays so and nothing makes that
\* number larger; and a reader that is not over then always has something to do: the
\* bytes it waits for are there, or it meets the end of the stream.
THEOREM ReaderFinishes ==
    Spec => [][/\ Left \in Nat
               /\ Read => Left' < Left
               /\ ended # "open" => ended' # "open" /\ Left' <= Left
               /\ ended # "open" /\ rd.pc # "over" =>
                    \/ Ready
                    \/ Len(wire) < rd.need /\ ended \in {"finished", "reset"}]_vars
  <1> DEFINE Progress ==
               /\ Left \in Nat
               /\ Read => Left' < Left
               /\ ended # "open" => ended' # "open" /\ Left' <= Left
               /\ ended # "open" /\ rd.pc # "over" =>
                    \/ Ready
                    \/ Len(wire) < rd.need /\ ended \in {"finished", "reset"}
  <1>1. IInv /\ [Next]_vars => [Progress]_vars
    <2> SUFFICES ASSUME IInv, [Next]_vars PROVE Progress
      OBVIOUS
    <2>1. Len(wire) \in Nat /\ rd.need \in Nat /\ ended \in {"open", "finished", "reset"}
      BY LenProperties DEF IInv, TypeOK
    <2>2. Left \in Nat
      BY <2>1 DEF Left
    <2>3. Read => Left' < Left
      BY ReadIsProgress
    <2>4. ended # "open" => ended' # "open" /\ Left' <= Left
      BY EndedIsProgress
    <2>5. ended # "open" /\ rd.pc # "over" =>
            Ready \/ (Len(wire) < rd.need /\ ended \in {"finished", "reset"})
      BY <2>1 DEF Ready
    <2> QED BY <2>2, <2>3, <2>4, <2>5
  <1> QED BY <1>1, Invariance, PTL DEF Spec
=============================================================================
