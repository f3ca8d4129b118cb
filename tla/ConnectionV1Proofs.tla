------------------------- MODULE ConnectionV1Proofs -------------------------
(***************************************************************************)
(* What ConnectionV1 promises, for every response, delimiter and size of   *)
(* the buffers.                                                            *)
(***************************************************************************)
EXTENDS ConnectionV1, SequenceTheorems, FiniteSetTheorems, TLAPS

-----------------------------------------------------------------------------
(* Packets.                                                                *)

\* A product with a number that is not positive is not positive.
LEMMA NoMore ==
  ASSUME NEW k \in Int, k <= 0, NEW m \in Nat
  PROVE  k * m <= 0
  OBVIOUS

\* What is left of a number that is less than twice the divisor.
LEMMA Remainder ==
  ASSUME NEW m \in Nat, m > 0, NEW n \in Nat
  PROVE  /\ n % m \in Nat
         /\ n < m => n % m = n
         /\ m <= n /\ n < m + m => n % m = n - m
  <1> DEFINE q == n \div m
  <1> DEFINE r == n % m
  <1>1. q \in Int /\ r \in Int /\ 0 <= r /\ r < m /\ n = m * q + r
    OBVIOUS
  <1> HIDE DEF q, r
  <1>2. n < m => q < 1
    <2> SUFFICES ASSUME n < m, q >= 1 PROVE FALSE
      BY <1>1
    <2>1. (1 - q) * m <= 0
      BY <1>1, NoMore
    <2> QED
      BY <1>1, <2>1
  <1>3. q > -1
    <2> SUFFICES ASSUME q <= -1 PROVE FALSE
      BY <1>1
    <2>1. (q + 1) * m <= 0
      BY <1>1, NoMore
    <2> QED
      BY <1>1, <2>1
  <1>4. n < m + m => q < 2
    <2> SUFFICES ASSUME n < m + m, q >= 2 PROVE FALSE
      BY <1>1
    <2>1. (2 - q) * m <= 0
      BY <1>1, NoMore
    <2> QED
      BY <1>1, <2>1
  <1>5. m <= n => q # 0
    BY <1>1
  <1>6. q = 0 => r = n
    BY <1>1
  <1>7. q = 1 => r = n - m
    BY <1>1
  <1> QED
    BY <1>1, <1>2, <1>3, <1>4, <1>5, <1>6, <1>7 DEF r

\* A number of bytes that size_t can hold is not changed by it, and one of twice as
\* many loses what size_t can hold.
LEMMA NoWrap ==
  ASSUME NEW n \in Word
  PROVE  Wrap(n) = n
  BY Remainder, WordAssumption DEF Wrap, Word

LEMMA WrapsOnce ==
  ASSUME NEW n \in Nat, WordSize <= n, n < WordSize + WordSize
  PROVE  Wrap(n) = n - WordSize
  BY Remainder, WordAssumption DEF Wrap

\* A reader of a packet made from bytes sees these bytes.
LEMMA WholeView ==
  ASSUME NEW S, NEW s \in Seq(S)
  PROVE  View(FromBytes(s)) = s
  BY SubSeqFull DEF View, FromBytes

LEMMA EmptyView == View(EmptyPacket) = << >>
  BY SubSeqEmpty DEF View, EmptyPacket

\* What slice() cuts out of a packet made from bytes, while start + length does
\* not wrap around.
LEMMA SliceView ==
  ASSUME NEW S, NEW s \in Seq(S), NEW start \in Word, NEW length \in Word,
         start + length \in Word
  PROVE  LET p == Slice(FromBytes(s), start, length) IN
         /\ InsideData(p)
         /\ View(p) = SubSeq(s, start + 1, Least(start + length, Len(s)))
  <1> USE WordAssumption DEF Word
  <1>1. Wrap(start + length) = start + length
    BY NoWrap
  <1>2. Len(s) \in Nat /\ start \in Nat /\ length \in Nat
    OBVIOUS
  <1>3. CASE start >= Len(s)
    <2>1. Slice(FromBytes(s), start, length) = EmptyPacket
      BY <1>3 DEF Slice, FromBytes
    <2>2. View(EmptyPacket) = << >>
      BY EmptyView
    <2>3. Least(start + length, Len(s)) < start + 1
      BY <1>2, <1>3 DEF Least
    <2>4. SubSeq(s, start + 1, Least(start + length, Len(s))) = << >>
      BY <1>2, <2>3, SubSeqEmpty DEF Least
    <2>5. InsideData(EmptyPacket)
      <3>1. Len(<< >>) = 0
        BY EmptySeq
      <3> QED
        BY <3>1 DEF InsideData, EmptyPacket
    <2> QED
      BY <2>1, <2>2, <2>4, <2>5
  <1>4. CASE start < Len(s)
    <2> DEFINE size == IF start + length > Len(s) THEN Len(s) - start ELSE length
    <2> DEFINE all == FromBytes(s)
    <2> DEFINE p == Slice(all, start, length)
    <2>1. p.data = s /\ p.offset = start /\ p.size = size
      <3>1. all = [data |-> s, offset |-> 0, size |-> Len(s)]
        BY DEF FromBytes
      <3> HIDE DEF all
      <3>2. CASE start + length > Len(s)
        BY <1>1, <1>2, <1>4, <3>1, <3>2 DEF Slice
      <3>3. CASE ~ (start + length > Len(s))
        BY <1>1, <1>2, <1>4, <3>1, <3>3 DEF Slice
      <3> QED
        BY <3>2, <3>3
    <2>2. start + size = Least(start + length, Len(s)) /\ size \in Int
      BY <1>2, <1>4 DEF Least
    <2>3. Least(start + length, Len(s)) <= Len(s)
      BY <1>2 DEF Least
    <2> HIDE DEF size, p
    <2>4. InsideData(p) /\ View(p) = SubSeq(s, start + 1, Least(start + length, Len(s)))
      BY <2>1, <2>2, <2>3 DEF InsideData, View
    <2> QED
      BY <2>4 DEF p, all
  <1> QED
    BY <1>2, <1>3, <1>4

\* What it cuts out when start + length does wrap around.
LEMMA SliceWraps ==
  ASSUME NEW S, NEW s \in Seq(S), Len(s) \in Word, NEW start \in Word, NEW length \in Word,
         start + length \notin Word
  PROVE  /\ start < Len(s) => ~InsideData(Slice(FromBytes(s), start, length))
         /\ start >= Len(s) => Slice(FromBytes(s), start, length) = EmptyPacket
  <1> USE WordAssumption DEF Word
  <1>1. /\ WordSize \in Nat /\ start \in Nat /\ length \in Nat /\ Len(s) \in Nat
        /\ WordSize <= start + length /\ start + length < WordSize + WordSize
        /\ length < WordSize /\ Len(s) < WordSize
    OBVIOUS
  <1>2. Wrap(start + length) = start + length - WordSize
    BY <1>1, WrapsOnce
  <1> DEFINE all == FromBytes(s)
  <1>3. all = [data |-> s, offset |-> 0, size |-> Len(s)]
    BY DEF FromBytes
  <1> HIDE DEF all
  <1>4. ASSUME start < Len(s)
        PROVE  ~InsideData(Slice(all, start, length))
    <2> DEFINE p == Slice(all, start, length)
    <2>1. ~(start >= all.size) /\ ~(Wrap(start + length) > all.size)
      BY <1>1, <1>2, <1>3, <1>4
    <2>2. p.data = s /\ p.offset = start /\ p.size = length
      BY <1>1, <1>3, <2>1 DEF Slice
    <2> HIDE DEF p
    <2>3. ~InsideData(p)
      BY <1>1, <2>2 DEF InsideData
    <2> QED
      BY <2>3 DEF p
  <1>5. start >= Len(s) => Slice(all, start, length) = EmptyPacket
    BY <1>3 DEF Slice
  <1> QED
    BY <1>4, <1>5 DEF all

\* A packet that is cut inside another one.
LEMMA SliceInside ==
  ASSUME NEW Data, NEW p \in [data : Data, offset : Nat, size : Word],
         NEW start \in Nat, NEW length \in Nat, start + length <= p.size
  PROVE  LET cut == Slice(p, start, length) IN
         /\ start < p.size =>
              /\ cut \in [data : Data, offset : Nat, size : Word]
              /\ cut.data = p.data /\ cut.offset = p.offset + start /\ cut.size = length
         /\ start = p.size => cut = EmptyPacket
  <1>1. /\ p.size \in Nat /\ p.offset + start \in Nat /\ length \in Word
        /\ ~ (Wrap(start + length) > p.size)
    <2>1. start + length \in Word /\ length \in Word /\ p.size \in Nat
      BY WordAssumption DEF Word
    <2> QED
      BY <2>1, NoWrap
  <1>2. start = p.size => Slice(p, start, length) = EmptyPacket
    BY <1>1 DEF Slice
  <1>3. ASSUME start < p.size
        PROVE  /\ Slice(p, start, length) \in [data : Data, offset : Nat, size : Word]
               /\ Slice(p, start, length).data = p.data
               /\ Slice(p, start, length).offset = p.offset + start
               /\ Slice(p, start, length).size = length
    <2> DEFINE at == p.offset + start
    <2>1. Slice(p, start, length) = [p EXCEPT !.offset = p.offset + start, !.size = length]
      BY <1>1, <1>3 DEF Slice
    <2>2. Slice(p, start, length) = [p EXCEPT !.offset = at, !.size = length] /\ at \in Nat
      BY <1>1, <2>1
    <2> HIDE DEF at
    <2>3. [p EXCEPT !.offset = at, !.size = length]
            \in [data : Data, offset : Nat, size : Word]
      BY <1>1, <2>2
    <2>4. LET cut == [p EXCEPT !.offset = at, !.size = length] IN
          cut.data = p.data /\ cut.offset = at /\ cut.size = length
      BY <1>1, <2>2
    <2> QED
      BY <2>2, <2>3, <2>4 DEF at
  <1> QED
    BY <1>2, <1>3

\* What is left of a packet without its first bytes.
LEMMA DropFrontView ==
  ASSUME NEW Data, NEW p \in [data : Data, offset : Nat, size : Word],
         NEW n \in 0 .. p.size - 1
  PROVE  View(DropFront(p, n)) = SubSeq(p.data, p.offset + n + 1, p.offset + p.size)
  <1> USE WordAssumption DEF Word
  <1>1. Wrap(p.size - n) = p.size - n /\ Wrap(n + (p.size - n)) = p.size
    <2>1. p.size - n \in Word /\ n + (p.size - n) = p.size
      OBVIOUS
    <2> QED
      BY <2>1, NoWrap
  <1> DEFINE left == DropFront(p, n)
  <1>2. left.data = p.data /\ left.offset = p.offset + n /\ left.size = p.size - n
    BY <1>1 DEF DropFront, Slice
  <1> HIDE DEF left
  <1>3. View(left) = SubSeq(p.data, p.offset + n + 1, p.offset + p.size)
    <2>1. p.offset + n + (p.size - n) = p.offset + p.size
      OBVIOUS
    <2> QED
      BY <1>2, <2>1 DEF View
  <1> QED
    BY <1>3 DEF left

\* The bytes of two packets that are not sent: each is met in turn.
LEMMA UnsentOfTwo ==
  ASSUME NEW first, NEW second, NEW skip
  PROVE  Unsent(<<first, second>>, skip) =
           Meet(Meet([skip |-> skip, bytes |-> << >>], first), second).bytes
  <1> DEFINE start == [skip |-> skip, bytes |-> << >>]
  <1> DEFINE both == <<first, second>>
  <1> DEFINE F(f) == [i \in 0 .. 2 |-> IF i = 0 THEN start ELSE Meet(f[i - 1], both[i])]
  <1> DEFINE g == [i \in 0 .. 2 |->
                     IF i = 0 THEN start
                     ELSE IF i = 1 THEN Meet(start, first)
                     ELSE Meet(Meet(start, first), second)]
  <1> DEFINE after == CHOOSE f : f = F(f)
  <1>1. both[1] = first /\ both[2] = second /\ Len(both) = 2
    OBVIOUS
  <1>2. Unsent(both, skip) = after[2].bytes
    BY <1>1 DEF Unsent
  <1> HIDE DEF both, start
  <1>3. g = F(g)
    <2>1. ASSUME NEW i \in 0 .. 2
          PROVE  g[i] = F(g)[i]
      <3>1. CASE i = 0
        BY <3>1
      <3>2. CASE i = 1
        BY <3>2, <1>1
      <3>3. CASE i = 2
        BY <3>3, <1>1
      <3> QED
        BY <3>1, <3>2, <3>3
    <2> QED
      BY <2>1
  <1>4. after = F(after)
    <2> HIDE DEF F, g
    <2> QED
      BY <1>3
  <1> HIDE DEF after
  <1>5. after[0] = start
    BY <1>4
  <1>6. after[1] = Meet(start, first)
    BY <1>4, <1>5, <1>1
  <1>7. after[2] = Meet(Meet(start, first), second)
    BY <1>4, <1>6, <1>1
  <1> QED
    BY <1>2, <1>7 DEF both, start

-----------------------------------------------------------------------------
(* The response.                                                           *)

\* Position i of the response is the number i.
Places == [i \in 1 .. RespLen |-> i]

LEMMA PlacesType ==
  /\ Places \in Seq(1 .. RespLen) /\ Len(Places) = RespLen
  /\ \A i \in 1 .. RespLen : Places[i] = i
  <1>1. RespLen \in Nat
    BY ConstantsAssumption
  <1>2. Places \in [1 .. RespLen -> 1 .. RespLen]
    BY DEF Places
  <1> QED
    BY <1>1, <1>2 DEF Places

\* A write that has sent some bytes of the response, in the header or in the body,
\* has the rest of it in its iovecs.
LEMMA RestOfResponse ==
  ASSUME NEW written \in 0 .. RespLen - 1
  PROVE  Rest[written] = SubSeq(Places, written + 1, RespLen)
  <1> USE ConstantsAssumption, WordAssumption
  <1> DEFINE all == FromBytes(Places)
  <1> DEFINE header == Slice(all, 0, HeaderLen)
  <1> DEFINE body == DropFront(all, HeaderLen)
  <1>1. RespLen \in Nat /\ RespLen > 0 /\ HeaderLen \in Nat /\ HeaderLen <= RespLen
    OBVIOUS
  <1>2. all = [data |-> Places, offset |-> 0, size |-> RespLen]
    BY PlacesType DEF FromBytes
  <1>3. Rest[written] =
          Meet(Meet([skip |-> written, bytes |-> << >>], header), body).bytes
    BY UnsentOfTwo DEF Rest, Response, Places
  <1> HIDE DEF all
  <1> DEFINE Packet == [data : Seq(1 .. RespLen), offset : Nat, size : Word]
  <1>4. all \in Packet
    BY <1>2, PlacesType
  <1>5. EmptyPacket \in Packet
    BY DEF EmptyPacket, Word
  <1>6. RespLen - HeaderLen \in Nat /\ Wrap(RespLen - HeaderLen) = RespLen - HeaderLen
    <2>1. RespLen - HeaderLen \in Word
      BY <1>1 DEF Word
    <2> QED
      BY <1>1, <2>1, NoWrap
  <1>7. /\ header \in Packet /\ header.size = HeaderLen
        /\ header.data = Places /\ header.offset = 0
    BY <1>1, <1>2, <1>4, SliceInside
  <1>8. /\ body \in Packet /\ body.size = RespLen - HeaderLen
        /\ HeaderLen < RespLen => body.data = Places /\ body.offset = HeaderLen
    <2>1. CASE HeaderLen < RespLen
      BY <1>1, <1>2, <1>4, <1>6, <2>1, SliceInside DEF DropFront
    <2>2. CASE HeaderLen = RespLen
      <3>1. body = EmptyPacket
        BY <1>1, <1>2, <1>4, <1>6, <2>2, SliceInside DEF DropFront
      <3> QED
        BY <1>1, <1>5, <2>2, <3>1 DEF EmptyPacket
    <2> QED
      BY <1>1, <2>1, <2>2
  <1> HIDE DEF header, body
  <1> DEFINE begin == [skip |-> written, bytes |-> << >>]
  <1>9. CASE written >= HeaderLen
    <2> DEFINE past == Meet(begin, header)
    <2> DEFINE n == written - HeaderLen
    <2>1. past.skip = n /\ past.bytes = << >>
      BY <1>1, <1>7, <1>9 DEF Meet
    <2>2. /\ n \in 0 .. body.size - 1 /\ ~ (n >= body.size)
          /\ HeaderLen + n = written /\ n \in Nat
      BY <1>1, <1>8, <1>9
    <2> HIDE DEF past, n
    <2>3. View(DropFront(body, n)) = SubSeq(Places, written + 1, RespLen)
      <3>1. View(DropFront(body, n)) =
              SubSeq(body.data, body.offset + n + 1, body.offset + body.size)
        BY <1>8, <2>2, DropFrontView
      <3>2. body.data = Places /\ body.offset = HeaderLen /\ body.size = RespLen - HeaderLen
        BY <1>1, <1>8, <1>9
      <3>3. HeaderLen + (RespLen - HeaderLen) = RespLen
        BY <1>1
      <3> QED
        BY <2>2, <3>1, <3>2, <3>3
    <2>4. Meet(past, body).bytes = << >> \o SubSeq(Places, written + 1, RespLen)
      BY <2>1, <2>2, <2>3 DEF Meet
    <2>5. SubSeq(Places, written + 1, RespLen) \in Seq(1 .. RespLen)
      BY <1>1, PlacesType, SubSeqProperties
    <2> QED
      BY <1>3, <2>4, <2>5, ConcatEmptySeq DEF past
  <1>10. CASE written < HeaderLen
    <2> DEFINE past == Meet(begin, header)
    <2> DEFINE left == SubSeq(Places, written + 1, HeaderLen)
    <2>1. past.skip = 0 /\ past.bytes = left
      <3>1. View(DropFront(header, written)) = left
        <4>1. written \in 0 .. header.size - 1
          BY <1>1, <1>7, <1>10
        <4>2. View(DropFront(header, written)) =
                SubSeq(header.data, header.offset + written + 1, header.offset + header.size)
          BY <1>7, <4>1, DropFrontView
        <4>3. 0 + written + 1 = written + 1 /\ 0 + HeaderLen = HeaderLen
          BY <1>1
        <4> QED
          BY <1>7, <4>2, <4>3
      <3>2. left \in Seq(1 .. RespLen)
        BY <1>1, PlacesType, SubSeqProperties
      <3>3. past.skip = 0 /\ past.bytes = << >> \o left
        BY <1>1, <1>7, <1>10, <3>1 DEF Meet
      <3> QED
        BY <3>2, <3>3, ConcatEmptySeq
    <2> HIDE DEF past, left
    <2>2. CASE HeaderLen = RespLen
      <3>1. Meet(past, body).bytes = left
        BY <1>1, <1>8, <2>1, <2>2 DEF Meet
      <3> QED
        BY <1>3, <2>2, <3>1 DEF past, left
    <2>3. CASE HeaderLen < RespLen
      <3>1. View(DropFront(body, 0)) = SubSeq(Places, HeaderLen + 1, RespLen)
        <4>1. /\ body.data = Places /\ body.offset = HeaderLen
              /\ body.size = RespLen - HeaderLen /\ 0 \in 0 .. body.size - 1
          BY <1>1, <1>8, <2>3
        <4>2. View(DropFront(body, 0)) =
                SubSeq(body.data, body.offset + 0 + 1, body.offset + body.size)
          BY <1>8, <4>1, DropFrontView
        <4>3. HeaderLen + 0 + 1 = HeaderLen + 1 /\ HeaderLen + (RespLen - HeaderLen) = RespLen
          BY <1>1
        <4> QED
          BY <4>1, <4>2, <4>3
      <3>2. Meet(past, body).bytes = left \o SubSeq(Places, HeaderLen + 1, RespLen)
        <4>1. ~ (0 >= body.size)
          BY <1>1, <1>8, <2>3
        <4> QED
          BY <2>1, <3>1, <4>1 DEF Meet
      <3>3. left \o SubSeq(Places, HeaderLen + 1, RespLen) = SubSeq(Places, written + 1, RespLen)
        <4>1. /\ written + 1 \in 1 .. RespLen + 1 /\ HeaderLen \in (written + 1) - 1 .. RespLen
              /\ RespLen \in HeaderLen .. RespLen
          BY <1>1, <1>10
        <4> QED
          BY <4>1, PlacesType, ConcatAdjacentSubSeq DEF left
      <3> QED
        BY <1>3, <3>2, <3>3 DEF past
    <2> QED
      BY <1>1, <2>2, <2>3
  <1> QED
    BY <1>1, <1>9, <1>10

-----------------------------------------------------------------------------
(* The input buffer.                                                       *)

\* What is not read of a buffer.
LEMMA ReadableType ==
  ASSUME NEW in \in Buffers
  PROVE  /\ Readable(in) \in Seq(Bytes)
         /\ Len(Readable(in)) = Len(in.data) - in.index
         /\ \A i \in 1 .. Len(in.data) - in.index : Readable(in)[i] = in.data[in.index + i]
  <1> DEFINE d == in.data
  <1> DEFINE x == in.index
  <1>1. d \in Seq(Bytes) /\ x \in Nat /\ Len(d) \in Nat /\ x <= Len(d)
    BY DEF Buffers
  <1> HIDE DEF d, x
  <1>2. \A i \in x + 1 .. Len(d) : d[i] \in Bytes
    BY <1>1
  <1>3. /\ SubSeq(d, x + 1, Len(d)) \in Seq(Bytes)
        /\ Len(SubSeq(d, x + 1, Len(d))) =
             IF x + 1 <= Len(d) THEN Len(d) - (x + 1) + 1 ELSE 0
        /\ \A i \in 1 .. Len(d) - (x + 1) + 1 :
             SubSeq(d, x + 1, Len(d))[i] = d[(x + 1) + i - 1]
    <2>1. x + 1 \in Int /\ Len(d) \in Int
      BY <1>1
    <2> QED
      BY <1>2, <2>1, SubSeqProperties
  <1>4. Len(d) - (x + 1) + 1 = Len(d) - x /\ \A i \in Nat : (x + 1) + i - 1 = x + i
    BY <1>1
  <1>5. Len(SubSeq(d, x + 1, Len(d))) = Len(d) - x
    BY <1>1, <1>3
  <1>6. \A i \in 1 .. Len(d) - x : SubSeq(d, x + 1, Len(d))[i] = d[x + i]
    BY <1>3, <1>4
  <1> QED
    BY <1>3, <1>5, <1>6 DEF Readable, d, x

\* ::read appends to what is not read.
LEMMA GrowReadable ==
  ASSUME NEW in \in Buffers, NEW new \in Seq(Bytes)
  PROVE  /\ Grow(in, new) \in Buffers
         /\ Readable(Grow(in, new)) = Readable(in) \o new
  <1> DEFINE grown == Grow(in, new)
  <1>1. /\ in.data \in Seq(Bytes) /\ in.index \in Nat
        /\ Len(in.data) \in Nat /\ Len(new) \in Nat /\ in.index <= Len(in.data)
    BY DEF Buffers
  <1>2. /\ in.data \o new \in Seq(Bytes)
        /\ Len(in.data \o new) = Len(in.data) + Len(new)
        /\ \A i \in 1 .. Len(in.data) + Len(new) :
             (in.data \o new)[i] =
               IF i <= Len(in.data) THEN in.data[i] ELSE new[i - Len(in.data)]
    BY <1>1, ConcatProperties
  <1>3. grown.data = in.data \o new /\ grown.index = in.index
    BY <1>1, <1>2 DEF Grow, Buffers
  <1>4. grown \in Buffers
    <2>1. grown \in [data : Seq(Bytes), index : Nat]
      BY <1>1, <1>2 DEF Grow, Buffers
    <2>2. grown.index <= Len(grown.data)
      BY <1>1, <1>2, <1>3 DEF Buffers
    <2> QED
      BY <2>1, <2>2 DEF Buffers
  <1> HIDE DEF grown
  <1> DEFINE n == Len(in.data) - in.index
  <1>5. /\ Readable(grown) \in Seq(Bytes) /\ Len(Readable(grown)) = n + Len(new)
        /\ \A i \in 1 .. n + Len(new) : Readable(grown)[i] = (in.data \o new)[in.index + i]
    <2>1. Len(grown.data) - grown.index = n + Len(new)
      BY <1>1, <1>2, <1>3
    <2> QED
      BY <1>3, <1>4, <2>1, ReadableType
  <1>6. /\ Readable(in) \in Seq(Bytes) /\ Len(Readable(in)) = n /\ n \in Nat
        /\ \A i \in 1 .. n : Readable(in)[i] = in.data[in.index + i]
    <2>1. n \in Nat
      BY <1>1
    <2> QED
      BY <2>1, ReadableType
  <1> HIDE DEF n
  <1>7. /\ Readable(in) \o new \in Seq(Bytes)
        /\ Len(Readable(in) \o new) = n + Len(new)
        /\ \A i \in 1 .. n + Len(new) :
             (Readable(in) \o new)[i] = IF i <= n THEN Readable(in)[i] ELSE new[i - n]
    BY <1>6, ConcatProperties
  <1>8. ASSUME NEW i \in 1 .. n + Len(new)
        PROVE  Readable(grown)[i] = (Readable(in) \o new)[i]
    <2>1. in.index + i \in 1 .. Len(in.data) + Len(new)
      BY <1>1 DEF n
    <2>2. CASE i <= n
      <3>1. in.index + i <= Len(in.data) /\ i \in 1 .. n
        BY <1>1, <2>2 DEF n
      <3> QED
        BY <1>2, <1>5, <1>6, <1>7, <2>1, <2>2, <3>1
    <2>3. CASE i > n
      <3>1. in.index + i - Len(in.data) = i - n
        BY <1>1 DEF n
      <3>2. ~ (in.index + i <= Len(in.data)) /\ ~ (i <= n)
        BY <1>1, <2>3 DEF n
      <3>3. Readable(grown)[i] = new[(in.index + i) - Len(in.data)]
        BY <1>2, <1>5, <2>1, <3>2
      <3>4. (Readable(in) \o new)[i] = new[i - n]
        BY <1>7, <3>2
      <3> QED
        BY <1>1, <1>6, <3>1, <3>3, <3>4
    <2> QED
      BY <1>6, <2>2, <2>3
  <1>9. Readable(grown) = Readable(in) \o new
    BY <1>5, <1>7, <1>8, SeqEqual
  <1> QED
    BY <1>3, <1>4, <1>9 DEF grown

\* retrieve() takes the first bytes off what is not read, also when it moves the
\* rest to the front.
LEMMA RetrieveReadable ==
  ASSUME NEW in \in Buffers, NEW len \in 1 .. Len(Readable(in))
  PROVE  /\ Retrieve(in, len) \in Buffers
         /\ SubSeq(Readable(in), 1, len) \in Seq(Bytes)
         /\ SubSeq(Readable(in), 1, len) \o Readable(Retrieve(in, len)) = Readable(in)
  <1> DEFINE d == in.data
  <1> DEFINE x == in.index
  <1> DEFINE moved == [in EXCEPT !.index = @ + len]
  <1>1. d \in Seq(Bytes) /\ x \in Nat /\ Len(d) \in Nat /\ x <= Len(d)
    BY DEF Buffers
  <1>2. Readable(in) \in Seq(Bytes) /\ Len(Readable(in)) = Len(d) - x
    BY ReadableType
  <1>3. len \in Nat /\ len >= 1 /\ x + len <= Len(d)
    BY <1>1, <1>2
  <1>4. SubSeq(Readable(in), 1, len) \in Seq(Bytes)
    BY <1>2, <1>3, SubSeqProperties
  <1>5. CASE len >= Len(Readable(in))
    <2>1. len = Len(Readable(in))
      BY <1>2, <1>5
    <2>2. Retrieve(in, len) = Cleared
      BY <1>5 DEF Retrieve
    <2>3. Cleared \in Buffers /\ Readable(Cleared) = << >>
      BY SubSeqEmpty, EmptySeq DEF Cleared, Buffers, Readable
    <2>4. SubSeq(Readable(in), 1, len) = Readable(in)
      BY <1>2, <2>1, SubSeqFull
    <2> QED
      BY <1>2, <1>4, <2>2, <2>3, <2>4, ConcatEmptySeq
  <1>6. CASE len < Len(Readable(in))
    <2>1. moved.data = d /\ moved.index = x + len
      BY <1>1, <1>3 DEF Buffers
    <2>2. moved \in Buffers
      <3>1. moved \in [data : Seq(Bytes), index : Nat]
        BY <1>1, <1>3 DEF Buffers
      <3>2. moved.index <= Len(moved.data)
        BY <1>3, <2>1
      <3> QED
        BY <3>1, <3>2 DEF Buffers
    <2> HIDE DEF moved
    <2>3. Readable(moved) \in Seq(Bytes)
      BY <2>2, ReadableType
    <2>4. SubSeq(Readable(in), 1, len) \o Readable(moved) = Readable(in)
      <3>1. SubSeq(Readable(in), 1, len) = SubSeq(d, x + 1, x + len)
        <4>1. /\ x + 1 \in 1 .. Len(d) /\ Len(d) \in 1 .. Len(d)
              /\ 1 \in 1 .. Len(d) - (x + 1) + 1 /\ len \in 1 .. Len(d) - (x + 1) + 1
              /\ (x + 1) + 1 - 1 = x + 1 /\ (x + 1) + len - 1 = x + len
          BY <1>1, <1>3
        <4>2. Readable(in) = SubSeq(d, x + 1, Len(d))
          BY DEF Readable
        <4> HIDE DEF d, x
        <4>3. SubSeq(SubSeq(d, x + 1, Len(d)), 1, len)
                = SubSeq(d, (x + 1) + 1 - 1, (x + 1) + len - 1)
          BY <1>1, <4>1, SubSeqOfSubSeq
        <4> QED
          BY <4>1, <4>2, <4>3
      <3>2. Readable(moved) = SubSeq(d, x + len + 1, Len(d))
        BY <2>1 DEF Readable
      <3>3. SubSeq(d, x + 1, x + len) \o SubSeq(d, x + len + 1, Len(d))
              = SubSeq(d, x + 1, Len(d))
        <4>1. /\ x + 1 \in 1 .. Len(d) + 1 /\ x + len \in (x + 1) - 1 .. Len(d)
              /\ Len(d) \in x + len .. Len(d)
          BY <1>1, <1>3
        <4> HIDE DEF d, x
        <4> QED
          BY <1>1, <4>1, ConcatAdjacentSubSeq
      <3> QED
        BY <3>1, <3>2, <3>3 DEF Readable
    <2>5. CASE Retrieve(in, len) = moved
      BY <1>4, <2>2, <2>4, <2>5
    <2>6. CASE Retrieve(in, len) = MakeRoom(moved)
      <3>1. /\ MakeRoom(moved) \in Buffers
            /\ Readable(MakeRoom(moved)) = Readable(moved)
        <4> DEFINE left == Readable(moved)
        <4>1. /\ MakeRoom(moved) = [data |-> left, index |-> 0]
              /\ left \in Seq(Bytes) /\ Len(left) \in Nat
          BY <2>3 DEF MakeRoom
        <4> HIDE DEF left
        <4>2. Readable([data |-> left, index |-> 0]) = left
          BY <4>1, SubSeqFull DEF Readable
        <4> QED
          BY <4>1, <4>2 DEF Buffers, left
      <3> QED
        BY <1>4, <2>4, <2>6, <3>1
    <2>7. Retrieve(in, len) \in {moved, MakeRoom(moved)}
      BY <1>1, <1>2, <1>3, <1>6 DEF Retrieve, moved
    <2> QED
      BY <2>5, <2>6, <2>7
  <1> QED
    BY <1>2, <1>3, <1>5, <1>6

-----------------------------------------------------------------------------
(* Lines.                                                                  *)

\* Numbers have a least one.
LEMMA LeastNumber ==
  ASSUME NEW T, T \subseteq Nat, T # {}
  PROVE  \E n \in T : \A other \in T : n <= other
  <1> DEFINE R == {pair \in Nat \X Nat : pair[1] < pair[2]}
  <1>1. IsWellFoundedOn(R, Nat)
    BY NatLessThanWellFounded DEF OpToRel
  <1>2. PICK n \in T : \A other \in T : ~ (<<other, n>> \in R)
    <2> HIDE DEF R
    <2> QED
      BY <1>1, WFMin
  <1>3. ASSUME NEW other \in T
        PROVE  n <= other
    <2>1. n \in Nat /\ other \in Nat
      OBVIOUS
    <2>2. other < n => <<other, n>> \in R
      BY <2>1
    <2> QED
      BY <1>2, <2>1, <2>2
  <1> QED
    BY <1>3

LEMMA DelimiterLength == Len(Delimiter) \in Nat /\ Len(Delimiter) >= 1
  BY ConstantsAssumption, EmptySeq

\* std::search finds the first delimiter.
LEMMA FirstEndFound ==
  ASSUME NEW s \in Seq(Bytes), Ends(s) # {}
  PROVE  /\ FirstEnd(s) \in Ends(s) /\ FirstEnd(s) \in 1 .. Len(s)
         /\ \A other \in Ends(s) : FirstEnd(s) <= other
  <1>1. Ends(s) \subseteq Nat /\ Ends(s) \subseteq 1 .. Len(s)
    BY DelimiterLength DEF Ends
  <1>2. \E n \in Ends(s) : \A other \in Ends(s) : n <= other
    BY <1>1, LeastNumber
  <1>3. FirstEnd(s) \in Ends(s) /\ \A other \in Ends(s) : FirstEnd(s) <= other
    BY <1>2 DEF FirstEnd
  <1> QED
    BY <1>1, <1>3

\* What is cut up to the first delimiter has one delimiter, at its end.
LEMMA FirstLine ==
  ASSUME NEW s \in Seq(Bytes), Ends(s) # {}
  PROVE  LET cut == SubSeq(s, 1, FirstEnd(s)) IN
         Len(cut) = FirstEnd(s) /\ Ends(cut) = {Len(cut)}
  <1> DEFINE e == FirstEnd(s)
  <1> DEFINE cut == SubSeq(s, 1, e)
  <1> DEFINE d == Len(Delimiter)
  <1>1. e \in Ends(s) /\ e \in 1 .. Len(s) /\ \A other \in Ends(s) : e <= other
    BY FirstEndFound
  <1>2. d \in Nat /\ d >= 1 /\ d <= e
    BY <1>1, DelimiterLength DEF Ends
  <1> HIDE DEF e, d
  <1>3. cut \in Seq(Bytes) /\ Len(cut) = e
    <2>1. e \in Nat /\ e >= 1 /\ e <= Len(s) /\ Len(s) \in Nat
      BY <1>1
    <2>2. \A i \in 1 .. e : s[i] \in Bytes
      BY <2>1
    <2> QED
      BY <2>1, <2>2, SubSeqProperties
  <1>4. ASSUME NEW k \in d .. e
        PROVE  SubSeq(cut, k - d + 1, k) = SubSeq(s, k - d + 1, k)
    <2>1. /\ 1 \in 1 .. Len(s) /\ e \in 1 .. Len(s)
          /\ k - d + 1 \in 1 .. e - 1 + 1 /\ k \in 1 .. e - 1 + 1
          /\ 1 + (k - d + 1) - 1 = k - d + 1 /\ 1 + k - 1 = k
      BY <1>1, <1>2
    <2> DEFINE from == k - d + 1
    <2>2. from \in 1 .. e - 1 + 1 /\ 1 + from - 1 = from
      BY <2>1
    <2> HIDE DEF from
    <2>3. SubSeq(SubSeq(s, 1, e), from, k) = SubSeq(s, 1 + from - 1, 1 + k - 1)
      BY <2>1, <2>2, SubSeqOfSubSeq
    <2> QED
      BY <2>1, <2>2, <2>3 DEF from
  <1>5. Ends(cut) = {k \in d .. e : SubSeq(s, k - d + 1, k) = Delimiter}
    BY <1>3, <1>4 DEF Ends, d
  <1>6. \A k \in Ends(cut) : k = e
    <2>1. Ends(cut) \subseteq Ends(s)
      BY <1>1, <1>2, <1>5 DEF Ends, d
    <2>2. \A k \in Ends(cut) : k \in Int /\ k <= e
      BY <1>2, <1>5
    <2> QED
      BY <1>1, <2>1, <2>2
  <1>7. e \in Ends(cut)
    BY <1>1, <1>2, <1>5 DEF Ends, d
  <1>8. Ends(cut) = {e}
    BY <1>6, <1>7
  <1> QED
    BY <1>3, <1>8 DEF e

\* What a call finds in the buffer.
LEMMA FoundType ==
  ASSUME NEW how \in {"read", "line"}, NEW in \in Buffers
  PROVE  /\ Found(how, in) \in 0 .. Len(Readable(in))
         /\ how = "line" /\ Found(how, in) > 0 =>
              LET cut == SubSeq(Readable(in), 1, Found(how, in)) IN Ends(cut) = {Len(cut)}
  <1>1. Readable(in) \in Seq(Bytes) /\ Len(Readable(in)) \in Nat
    BY ReadableType
  <1>2. CASE how = "read"
    BY <1>1, <1>2 DEF Found
  <1>3. CASE how = "line" /\ Ends(Readable(in)) = {}
    BY <1>1, <1>3 DEF Found, LineLength
  <1>4. CASE how = "line" /\ Ends(Readable(in)) # {}
    <2>1. Found(how, in) = FirstEnd(Readable(in))
      BY <1>4 DEF Found, LineLength
    <2>2. FirstEnd(Readable(in)) \in 1 .. Len(Readable(in))
      BY <1>1, <1>4, FirstEndFound
    <2> QED
      BY <1>1, <1>4, <2>1, <2>2, FirstLine
  <1> QED
    BY <1>2, <1>3, <1>4

-----------------------------------------------------------------------------
(* The tasks of the connection and what is sent.                           *)

LEMMA Tasks ==
  /\ NoTask.cb = "none" /\ View(NoTask.bytes) = << >>
  /\ \A how \in {"read", "line"}, s \in Seq(Bytes) :
       LET t == GiveBytes(how, s) IN
       t.cb = how /\ t.bytes = FromBytes(s) /\ t.bytes.data = s /\ View(t.bytes) = s
  /\ \A n \in Int :
       LET t == GiveCount(n) IN t.cb = "write" /\ t.n = n /\ View(t.bytes) = << >>
  <1>1. NoTask.cb = "none" /\ View(NoTask.bytes) = << >>
    BY EmptyView DEF NoTask
  <1>2. ASSUME NEW how \in {"read", "line"}, NEW s \in Seq(Bytes)
        PROVE  LET t == GiveBytes(how, s) IN
               t.cb = how /\ t.bytes = FromBytes(s) /\ t.bytes.data = s /\ View(t.bytes) = s
    <2>1. View(FromBytes(s)) = s /\ FromBytes(s).data = s
      BY WholeView DEF FromBytes
    <2> QED
      BY <2>1 DEF GiveBytes
  <1>3. ASSUME NEW n \in Int
        PROVE  LET t == GiveCount(n) IN t.cb = "write" /\ t.n = n /\ View(t.bytes) = << >>
    BY EmptyView DEF GiveCount
  <1> QED
    BY <1>1, <1>2, <1>3

\* What the fields of a task say of it.
LEMMA TaskKinds ==
  ASSUME TypeOK
  PROVE  /\ task.cb \in {"none", "read", "line", "write"}
         /\ task.cb = "none" <=> task = NoTask
         /\ task.cb \in {"read", "line"} => task.bytes = FromBytes(task.bytes.data)
         /\ task.cb \in {"none", "write"} => View(task.bytes) = << >>
         /\ task.cb = "write" => task.n \in {-1, RespLen}
         /\ View(task.bytes) \in Seq(Bytes)
  <1>0. -1 \in Int /\ RespLen \in Int /\ << >> \in Seq(Bytes)
    BY ConstantsAssumption
  <1>1. CASE task = NoTask
    BY <1>0, <1>1, Tasks
  <1>2. CASE task = GiveCount(-1)
    BY <1>0, <1>2, Tasks
  <1>3. CASE task = GiveCount(RespLen)
    BY <1>0, <1>3, Tasks
  <1>4. CASE /\ task.cb \in {"read", "line"} /\ task.bytes.data \in Seq(Bytes)
             /\ task = GiveBytes(task.cb, task.bytes.data)
    <2>1. /\ task.bytes = FromBytes(task.bytes.data) /\ View(task.bytes) = task.bytes.data
      BY <1>4, Tasks
    <2>2. task # NoTask
      BY <1>4, Tasks
    <2> QED
      BY <1>4, <2>1, <2>2
  <1> QED
    BY <1>1, <1>2, <1>3, <1>4 DEF TypeOK, ConnTypeOK, IsTask

\* What a call of writev does with the rest of the response.
LEMMA TransmitRest ==
  ASSUME TypeOK, NEW written \in 0 .. RespLen - 1, NEW n \in 0 .. Len(Rest[written]),
         Transmit(Rest[written], n)
  PROVE  /\ Len(Rest[written]) = RespLen - written
         /\ tx' \in 0 .. TxMax /\ wire' \in 1 .. RespLen
         /\ n = Len(Rest[written]) => wire' = RespLen
         /\ wire' = IF n = 0 THEN wire ELSE written + n
         /\ tx' = tx + n /\ tx \in Nat
  <1> DEFINE rest == SubSeq(Places, written + 1, RespLen)
  <1>1. RespLen \in Nat /\ RespLen >= 1 /\ TxMax \in Nat /\ written \in Nat /\ written < RespLen
    BY ConstantsAssumption
  <1>2. Rest[written] = rest
    BY RestOfResponse
  <1>3. /\ Len(rest) = RespLen - written
        /\ \A i \in 1 .. RespLen - written : rest[i] = Places[written + i]
    <2>1. \A i \in written + 1 .. RespLen : Places[i] \in 1 .. RespLen
      BY <1>1, PlacesType
    <2>2. /\ Len(rest) = IF written + 1 <= RespLen THEN RespLen - (written + 1) + 1 ELSE 0
          /\ \A i \in 1 .. RespLen - (written + 1) + 1 : rest[i] = Places[(written + 1) + i - 1]
      BY <1>1, <2>1, SubSeqProperties
    <2>3. RespLen - (written + 1) + 1 = RespLen - written
      BY <1>1
    <2>4. \A i \in Nat : (written + 1) + i - 1 = written + i
      BY <1>1
    <2> QED
      BY <1>1, <2>2, <2>3, <2>4
  <1> HIDE DEF rest
  <1>4. n \in Nat /\ n <= RespLen - written
    BY <1>1, <1>2, <1>3
  <1>5. n > 0 => rest[n] = written + n
    BY <1>1, <1>3, <1>4, PlacesType
  <1>6. tx' \in 0 .. TxMax
    BY <1>1, <1>4 DEF TypeOK, ConnTypeOK, Transmit
  <1>7. tx' = tx + n /\ tx \in Nat
    BY DEF TypeOK, ConnTypeOK, Transmit
  <1>8. wire' = IF n = 0 THEN wire ELSE written + n
    BY <1>2, <1>4, <1>5 DEF Transmit
  <1>9. wire' \in 1 .. RespLen /\ (n = RespLen - written => wire' = RespLen)
    BY <1>1, <1>4, <1>8 DEF TypeOK, ConnTypeOK
  <1> QED
    BY <1>2, <1>3, <1>6, <1>7, <1>8, <1>9

-----------------------------------------------------------------------------
(* The types.                                                              *)

\* What a read takes out of the kernel.
LEMMA TakenType ==
  ASSUME NEW s \in Seq(Bytes), NEW m \in Nat
  PROVE  LET n == Least(Len(s), m) IN
         /\ SubSeq(s, 1, n) \in Seq(Bytes) /\ SubSeq(s, n + 1, Len(s)) \in Seq(Bytes)
         /\ SubSeq(s, 1, n) \o SubSeq(s, n + 1, Len(s)) = s
  <1> DEFINE n == Least(Len(s), m)
  <1>1. n \in Nat /\ n <= Len(s) /\ Len(s) \in Nat
    BY DEF Least
  <1> HIDE DEF n
  <1>2. SubSeq(s, 1, n) \in Seq(Bytes)
    <2>1. \A i \in 1 .. n : s[i] \in Bytes
      BY <1>1
    <2> QED
      BY <1>1, <2>1, SubSeqProperties
  <1>3. SubSeq(s, n + 1, Len(s)) \in Seq(Bytes)
    <2>1. \A i \in n + 1 .. Len(s) : s[i] \in Bytes
      BY <1>1
    <2> QED
      BY <1>1, <2>1, SubSeqProperties
  <1>4. SubSeq(s, 1, n) \o SubSeq(s, n + 1, Len(s)) = s
    <2>1. /\ 1 \in 1 .. Len(s) + 1 /\ n \in 1 - 1 .. Len(s) /\ Len(s) \in n .. Len(s)
      BY <1>1
    <2>2. SubSeq(s, 1, n) \o SubSeq(s, n + 1, Len(s)) = SubSeq(s, 1, Len(s))
      BY <2>1, ConcatAdjacentSubSeq
    <2> QED
      BY <2>2, SubSeqFull
  <1> QED
    BY <1>2, <1>3, <1>4 DEF n

\* The actions that change the connection.
Steps ==
  \/ \E how \in {"read", "line"} : Read(how)
  \/ Write \/ WriteError
  \/ HandleData \/ HandleEnd \/ HandleRoom \/ HandleError
  \/ RunReadDone \/ RunWriteDone
  \/ Peer

\* All others leave it and the application alone.
Aside ==
  /\ UNCHANGED connVars
  /\ pc' \notin {pc, "killed"} =>
       pc \notin {"read", "write", "killed"} /\ pc' \notin {"read", "write"}

LEMMA Elsewhere == [Next]_vars => Steps \/ Aside
  <1> SUFFICES ASSUME [Next]_vars, ~ Steps
               PROVE  Aside
    OBVIOUS
  <1> USE DEF Goto, Aside
  <1>1. CASE EnterWait \/ EpollWait \/ DispatchSocket \/ BatchDone
    BY <1>1 DEF EnterWait, EpollWait, DispatchSocket, BatchDone, connVars
  <1>2. CASE ReadNotify \/ Swap \/ RunTask \/ TaskReturns \/ TasksDone
    BY <1>2 DEF ReadNotify, Swap, RunTask, TaskReturns, TasksDone
  <1>3. CASE \E t \in OtherTasks \cup OwnTasks : Push(t) \/ Announce(t)
    BY <1>3 DEF Push, Announce
  <1>4. CASE UNCHANGED vars
    BY <1>4 DEF vars
  <1>5. CASE WriteKilled
    BY <1>5 DEF WriteKilled
  <1> QED
    BY <1>1, <1>2, <1>3, <1>4, <1>5 DEF Next, Thread, Submit, Steps

-----------------------------------------------------------------------------
(* What the actions that move bytes do, in terms of what is readable.      *)

\* Some bytes, all of them of a line if a line was asked for.
Answer(how, given) ==
  /\ given \in Seq(Bytes) /\ given # << >>
  /\ how = "line" => Ends(given) = {Len(given)}

\* A call or a handler that finds something takes it out of the buffer.
LEMMA TakeFound ==
  ASSUME NEW how \in {"read", "line"}, NEW in \in Buffers, Found(how, in) > 0
  PROVE  LET len == Found(how, in)
             given == SubSeq(Readable(in), 1, len)
         IN  /\ Answer(how, given)
             /\ Retrieve(in, len) \in Buffers
             /\ given \o Readable(Retrieve(in, len)) = Readable(in)
  <1> DEFINE len == Found(how, in)
  <1> DEFINE given == SubSeq(Readable(in), 1, len)
  <1>1. Readable(in) \in Seq(Bytes) /\ Len(Readable(in)) \in Nat
    BY ReadableType
  <1>2. /\ len \in 1 .. Len(Readable(in))
        /\ how = "line" => Ends(given) = {Len(given)}
    BY <1>1, FoundType
  <1> HIDE DEF len
  <1>3. given \in Seq(Bytes) /\ Len(given) = len
    <2>1. \A i \in 1 .. len : Readable(in)[i] \in Bytes
      BY <1>1, <1>2
    <2> QED
      BY <1>2, <2>1, SubSeqProperties
  <1>4. given # << >>
    BY <1>2, <1>3, EmptySeq
  <1>5. Retrieve(in, len) \in Buffers /\ given \o Readable(Retrieve(in, len)) = Readable(in)
    BY <1>2, RetrieveReadable
  <1> QED
    BY <1>2, <1>3, <1>4, <1>5 DEF Answer, len

LEMMA ReadEffect ==
  ASSUME TypeOK, NEW how \in {"read", "line"}, Read(how)
  PROVE  /\ pc = "read" /\ UNCHANGED <<inVars, outVars, task, batch, queueVars>>
         /\ \/ \E given :
                  /\ Answer(how, given) /\ input' \in Buffers
                  /\ given \o Readable(input') = Readable(input)
                  /\ heard' = heard \o given
                  /\ line' = IF how = "line" THEN given ELSE line
                  /\ app' = "writing" /\ pc' = "write" /\ handler' = handler
            \/ /\ handler' = Reader(how) /\ pc' = "pending"
               /\ UNCHANGED <<heard, line, input, app>>
  <1>1. input \in Buffers
    BY DEF TypeOK, ConnTypeOK
  <1>2. CASE Found(how, input) > 0
    <2> DEFINE given == SubSeq(Readable(input), 1, Found(how, input))
    <2>1. /\ heard' = heard \o given /\ line' = IF how = "line" THEN given ELSE line
          /\ input' = Retrieve(input, Found(how, input))
          /\ app' = "writing" /\ pc' = "write" /\ handler' = handler
      BY <1>2 DEF Read, Hear
    <2>2. /\ Answer(how, given) /\ Retrieve(input, Found(how, input)) \in Buffers
          /\ given \o Readable(Retrieve(input, Found(how, input))) = Readable(input)
      BY <1>1, <1>2, TakeFound
    <2> HIDE DEF given
    <2>3. input' \in Buffers /\ given \o Readable(input') = Readable(input)
      BY <2>1, <2>2
    <2> QED
      BY <2>1, <2>2, <2>3 DEF Read
  <1>3. CASE ~ (Found(how, input) > 0)
    BY <1>3 DEF Read
  <1> QED
    BY <1>2, <1>3

LEMMA WriteEffect ==
  ASSUME TypeOK, Write
  PROVE  /\ pc = "write" /\ UNCHANGED <<inVars, input, task, batch, heard, line, queueVars>>
         /\ tx' \in 0 .. TxMax /\ wire' \in 1 .. RespLen
         /\ \/ wire' = RespLen /\ app' = "reading" /\ pc' = "read" /\ UNCHANGED handler
            \/ /\ \E n \in 0 .. RespLen - 1 : handler' = Writer(n)
               /\ pc' = "pending" /\ UNCHANGED app
  <1>0. RespLen \in Nat /\ 0 \in 0 .. RespLen - 1
    BY ConstantsAssumption
  <1>1. PICK n \in 0 .. Len(Rest[0]) :
          /\ Transmit(Rest[0], n)
          /\ IF n = Len(Rest[0])
             THEN app' = "reading" /\ pc' = "read" /\ UNCHANGED handler
             ELSE handler' = Writer(n) /\ pc' = "pending" /\ UNCHANGED app
    BY DEF Write
  <1>2. /\ Len(Rest[0]) = RespLen - 0
        /\ tx' \in 0 .. TxMax /\ wire' \in 1 .. RespLen
        /\ n = Len(Rest[0]) => wire' = RespLen
    BY <1>0, <1>1, TransmitRest
  <1>3. n # Len(Rest[0]) => n \in 0 .. RespLen - 1
    BY <1>0, <1>2
  <1> QED
    BY <1>1, <1>2, <1>3 DEF Write

LEMMA HandleDataEffect ==
  ASSUME TypeOK, HandleData
  PROVE  /\ pc = "handler" /\ pc' = "batch" /\ handler.kind \in {"read", "line"}
         /\ UNCHANGED <<fin, err, sent, outVars, batch, appVars, queueVars>>
         /\ rx' \in Seq(Bytes) /\ input' \in Buffers
         /\ \E new \in Seq(Bytes) :
              /\ new \o rx' = rx
              /\ \/ \E given :
                       /\ Answer(handler.kind, given)
                       /\ given \o Readable(input') = Readable(input) \o new
                       /\ handler' = NoHandler /\ task' = GiveBytes(handler.kind, given)
                 \/ /\ Readable(input') = Readable(input) \o new
                    /\ UNCHANGED <<handler, task>>
  <1> DEFINE n == Least(Len(rx), ReadMax)
  <1> DEFINE new == SubSeq(rx, 1, n)
  <1> DEFINE grown == Grow(input, new)
  <1> DEFINE len == Found(handler.kind, grown)
  <1> DEFINE given == SubSeq(Readable(grown), 1, len)
  <1>1. rx \in Seq(Bytes) /\ input \in Buffers /\ ReadMax \in Nat
    BY ConstantsAssumption DEF TypeOK, ConnTypeOK
  <1>2. /\ pc = "handler" /\ pc' = "batch" /\ handler.kind \in {"read", "line"}
        /\ UNCHANGED <<fin, err, sent, outVars, batch, appVars, queueVars>>
        /\ rx' = SubSeq(rx, n + 1, Len(rx))
        /\ IF len > 0
           THEN /\ handler' = NoHandler /\ input' = Retrieve(grown, len)
                /\ task' = GiveBytes(handler.kind, given)
           ELSE input' = grown /\ UNCHANGED <<handler, task>>
    BY DEF HandleData, Goto, Unregister
  <1>3. new \in Seq(Bytes) /\ rx' \in Seq(Bytes) /\ new \o rx' = rx
    BY <1>1, <1>2, TakenType
  <1> HIDE DEF new
  <1>4. grown \in Buffers /\ Readable(grown) = Readable(input) \o new
    BY <1>1, <1>3, GrowReadable
  <1> HIDE DEF grown
  <1>5. CASE len > 0
    <2>1. /\ Answer(handler.kind, given) /\ Retrieve(grown, len) \in Buffers
          /\ given \o Readable(Retrieve(grown, len)) = Readable(grown)
      BY <1>2, <1>4, <1>5, TakeFound
    <2> HIDE DEF len, given
    <2> QED
      BY <1>2, <1>3, <1>4, <1>5, <2>1
  <1>6. CASE ~ (len > 0)
    BY <1>2, <1>3, <1>4, <1>6
  <1> QED
    BY <1>5, <1>6

LEMMA HandleRoomEffect ==
  ASSUME TypeOK, HandleRoom
  PROVE  /\ pc = "handler" /\ pc' = "batch" /\ handler.kind = "write"
         /\ UNCHANGED <<inVars, input, batch, appVars, queueVars>>
         /\ tx' \in 0 .. TxMax /\ wire' \in 1 .. RespLen
         /\ \/ wire' = RespLen /\ handler' = NoHandler /\ task' = GiveCount(RespLen)
            \/ UNCHANGED <<handler, task>>
  <1>1. handler.written \in 0 .. RespLen - 1
    BY DEF TypeOK, ConnTypeOK, Handlers
  <1>2. PICK n \in 1 .. Len(Rest[handler.written]) :
          /\ Transmit(Rest[handler.written], n)
          /\ IF n = Len(Rest[handler.written])
             THEN Unregister /\ task' = GiveCount(RespLen)
             ELSE UNCHANGED <<handler, task>>
    BY DEF HandleRoom
  <1>3. n \in 0 .. Len(Rest[handler.written])
    BY <1>2
  <1>4. /\ tx' \in 0 .. TxMax /\ wire' \in 1 .. RespLen
        /\ n = Len(Rest[handler.written]) => wire' = RespLen
    BY <1>1, <1>2, <1>3, TransmitRest
  <1> QED
    BY <1>2, <1>4 DEF HandleRoom, Goto, Unregister

LEMMA ConnTypeStep == TypeOK /\ [Next]_vars => ConnTypeOK'
  <1> SUFFICES ASSUME TypeOK, [Next]_vars
               PROVE  ConnTypeOK'
    OBVIOUS
  <1> USE DEF ConnTypeOK, Goto, inVars, outVars, appVars
  <1>0. /\ ConnTypeOK /\ NoHandler \in Handlers /\ TxMax \in Nat
        /\ \A how \in {"read", "line"} : Reader(how) \in Handlers
        /\ \A n \in 0 .. RespLen - 1 : Writer(n) \in Handlers
        /\ IsTask(NoTask) /\ IsTask(GiveCount(-1)) /\ IsTask(GiveCount(RespLen))
    BY ConstantsAssumption DEF TypeOK, Handlers, NoHandler, Reader, Writer, IsTask
  <1>1. ASSUME NEW how \in {"read", "line"}, NEW s \in Seq(Bytes)
        PROVE  IsTask(GiveBytes(how, s))
    <2>1. GiveBytes(how, s).cb = how /\ GiveBytes(how, s).bytes.data = s
      BY Tasks
    <2> QED
      BY <2>1 DEF IsTask
  <1>2. ASSUME NEW how \in {"read", "line"}, Read(how)
        PROVE  ConnTypeOK'
    <2>1. CASE \E given :
                 /\ Answer(how, given) /\ input' \in Buffers
                 /\ heard' = heard \o given /\ line' = IF how = "line" THEN given ELSE line
                 /\ app' = "writing" /\ handler' = handler
      BY <1>0, <1>2, <2>1, ReadEffect DEF Answer
    <2>2. CASE handler' = Reader(how) /\ UNCHANGED <<heard, line, input, app>>
      BY <1>0, <1>2, <2>2, ReadEffect
    <2> QED
      BY <1>2, <2>1, <2>2, ReadEffect
  <1>3. CASE Write
    BY <1>0, <1>3, WriteEffect
  <1>4. CASE WriteError
    BY <1>0, <1>4 DEF WriteError, Stop
  <1>5. CASE HandleData
    <2>1. handler' \in Handlers /\ IsTask(task')
      BY <1>0, <1>1, <1>5, HandleDataEffect DEF Answer
    <2> QED
      BY <1>0, <1>5, <2>1, HandleDataEffect
  <1>6. CASE HandleEnd
    BY <1>0, <1>1, <1>6 DEF HandleEnd, Unregister
  <1>7. CASE HandleRoom
    BY <1>0, <1>7, HandleRoomEffect
  <1>8. CASE HandleError
    BY <1>0, <1>8 DEF HandleError, Unregister
  <1>9. CASE RunReadDone
    <2> DEFINE given == View(task.bytes)
    <2>1. given \in Seq(Bytes)
      BY TaskKinds
    <2>2. /\ task' = NoTask /\ UNCHANGED <<inVars, outVars, handler, input>>
          /\ \/ app' = "stopped" /\ UNCHANGED <<heard, line>>
             \/ /\ app' = "writing" /\ heard' = heard \o given
                /\ line' = IF task.cb = "line" THEN given ELSE line
      BY <1>9 DEF RunReadDone, Stop, Hear
    <2> HIDE DEF given
    <2>3. heard' \in Seq(Bytes) /\ line' \in Seq(Bytes)
      <3>1. heard \in Seq(Bytes) /\ line \in Seq(Bytes) /\ heard \o given \in Seq(Bytes)
        BY <1>0, <2>1, ConcatProperties
      <3> HIDE DEF ConnTypeOK
      <3> QED
        BY <2>1, <2>2, <3>1
    <2> QED
      BY <1>0, <2>2, <2>3
  <1>10. CASE RunWriteDone
    BY <1>0, <1>10 DEF RunWriteDone, Stop
  <1>11. CASE PeerSend
    <2>1. PICK b \in Bytes : rx' = Append(rx, b) /\ sent' = Append(sent, b)
      BY <1>11 DEF PeerSend
    <2> QED
      BY <1>0, <1>11, <2>1 DEF PeerSend
  <1>12. CASE PeerFin \/ PeerReset
    <2>1. UNCHANGED <<rx, sent, heard, line, wire, handler, input, task, app>>
      BY <1>12 DEF PeerFin, PeerReset
    <2>2. fin' \in BOOLEAN /\ err' \in BOOLEAN
      BY <1>0, <1>12 DEF PeerFin, PeerReset
    <2>3. tx' \in 0 .. TxMax
      BY <1>0, <1>12 DEF PeerFin, PeerReset
    <2> QED
      BY <1>0, <2>1, <2>2, <2>3
  <1>13. CASE PeerAck
    <2>1. PICK n \in 1 .. tx : tx' = tx - n
      BY <1>13 DEF PeerAck
    <2>2. tx' \in 0 .. TxMax
      BY <1>0, <2>1
    <2> QED
      BY <1>0, <1>13, <2>2 DEF PeerAck
  <1>14. CASE Aside
    BY <1>0, <1>14 DEF Aside, connVars
  <1> QED
    BY <1>2, <1>3, <1>4, <1>5, <1>6, <1>7, <1>8, <1>9, <1>10, <1>11, <1>12, <1>13, <1>14,
       Elsewhere DEF Steps, Peer

\* The loop and the queue of tasks.
LEMMA LoopTypeStep == TypeOK /\ [Next]_vars => LoopTypeOK' /\ QueueTypeOK'
  <1> SUFFICES ASSUME TypeOK, [Next]_vars
               PROVE  LoopTypeOK' /\ QueueTypeOK'
    OBVIOUS
  <1> USE DEF Goto, queueVars, connVars
  <1> DEFINE All == OtherTasks \cup OwnTasks
  <1>0. /\ LoopTypeOK
        /\ unsent \subseteq All /\ announcing \subseteq All /\ ran \subseteq All
        /\ incoming \in Seq(All) /\ temp \in Seq(All) /\ notify \in BOOLEAN
    BY DEF TypeOK, QueueTypeOK
  <1>1. /\ LoopTypeOK'
        /\ unsent' \subseteq All /\ announcing' \subseteq All /\ ran' \subseteq All
        /\ incoming' \in Seq(All) /\ temp' \in Seq(All) /\ notify' \in BOOLEAN
    <2> USE DEF LoopTypeOK
    <2>1. CASE \E how \in {"read", "line"} : Read(how)
      BY <1>0, <2>1, ReadEffect
    <2>2. CASE Write
      BY <1>0, <2>2, WriteEffect
    <2>3. CASE WriteError
      BY <1>0, <2>3 DEF WriteError, Stop
    <2>4. CASE HandleData
      BY <1>0, <2>4, HandleDataEffect
    <2>5. CASE HandleEnd
      BY <1>0, <2>5 DEF HandleEnd
    <2>6. CASE HandleRoom \/ HandleError
      BY <1>0, <2>6 DEF HandleRoom, HandleError
    <2>7. CASE RunReadDone \/ RunWriteDone
      BY <1>0, <2>7 DEF RunReadDone, RunWriteDone, Stop
    <2>8. CASE EnterWait \/ DispatchSocket \/ BatchDone
      BY <1>0, <2>8 DEF EnterWait, DispatchSocket, BatchDone
    <2>9. CASE EpollWait
      BY <1>0, <2>9 DEF EpollWait, Ready
    <2>10. CASE ReadNotify \/ Swap
      <3>1. LoopTypeOK'
        BY <1>0, <2>10 DEF ReadNotify, Swap
      <3>2. << >> \in Seq(All)
        OBVIOUS
      <3> HIDE DEF LoopTypeOK, All
      <3> QED
        BY <1>0, <2>10, <3>1, <3>2 DEF ReadNotify, Swap
    <2>11. CASE RunTask
      <3>1. Head(temp) \in All /\ Tail(temp) \in Seq(All)
        BY <1>0, <2>11, HeadTailProperties DEF RunTask
      <3> HIDE DEF All
      <3>2. /\ ran' = ran \cup {Head(temp)} /\ temp' = Tail(temp) /\ pc' = "task"
            /\ UNCHANGED <<batch, unsent, incoming, announcing, notify>>
        BY <2>11 DEF RunTask
      <3> QED
        BY <1>0, <3>1, <3>2
    <2>12. CASE TaskReturns \/ TasksDone
      BY <1>0, <2>12 DEF TaskReturns, TasksDone
    <2>13. ASSUME NEW t \in All, Push(t)
           PROVE  /\ LoopTypeOK'
                  /\ unsent' \subseteq All /\ announcing' \subseteq All /\ ran' \subseteq All
                  /\ incoming' \in Seq(All) /\ temp' \in Seq(All) /\ notify' \in BOOLEAN
      <3> HIDE DEF All
      <3>1. /\ unsent' = unsent \ {t} /\ announcing' = announcing \cup {t}
            /\ incoming' = Append(incoming, t) /\ UNCHANGED <<pc, batch, notify, temp, ran>>
        BY <2>13 DEF Push
      <3>2. incoming' \in Seq(All)
        BY <1>0, <2>13, <3>1, AppendProperties
      <3>3. LoopTypeOK'
        BY <1>0, <3>1
      <3>4. /\ unsent' \subseteq All /\ announcing' \subseteq All /\ ran' \subseteq All
            /\ temp' \in Seq(All) /\ notify' \in BOOLEAN
        BY <1>0, <2>13, <3>1
      <3> QED
        BY <3>2, <3>3, <3>4
    <2>14. ASSUME NEW t \in All, Announce(t)
           PROVE  /\ LoopTypeOK'
                  /\ unsent' \subseteq All /\ announcing' \subseteq All /\ ran' \subseteq All
                  /\ incoming' \in Seq(All) /\ temp' \in Seq(All) /\ notify' \in BOOLEAN
      BY <1>0, <2>14 DEF Announce
    <2>15. CASE Peer
      BY <1>0, <2>15 DEF Peer, PeerSend, PeerFin, PeerReset, PeerAck
    <2>16. CASE UNCHANGED vars
      BY <1>0, <2>16 DEF vars
    <2>17. CASE WriteKilled
      BY <1>0, <2>17 DEF WriteKilled
    <2> QED
      BY <2>1, <2>2, <2>3, <2>4, <2>5, <2>6, <2>7, <2>8, <2>9, <2>10, <2>11, <2>12, <2>13,
         <2>14, <2>15, <2>16, <2>17 DEF Next, Thread, Submit
  <1> QED
    BY <1>1 DEF QueueTypeOK

LEMMA InitType == Init => TypeOK
  <1> SUFFICES ASSUME Init
               PROVE  TypeOK
    OBVIOUS
  <1>0. RespLen \in Nat /\ RespLen >= 1 /\ TxMax \in Nat
    BY ConstantsAssumption
  <1>1. ConnTypeOK
    <2>1. NoHandler \in Handlers
      BY <1>0 DEF NoHandler, Handlers
    <2>2. Cleared \in Buffers
      BY EmptySeq DEF Cleared, Buffers
    <2>3. IsTask(NoTask)
      BY DEF IsTask
    <2>4. tx \in 0 .. TxMax /\ wire \in 1 .. RespLen
      BY <1>0 DEF Init
    <2> QED
      BY <2>1, <2>2, <2>3, <2>4, EmptySeq DEF Init, ConnTypeOK
  <1>2. LoopTypeOK /\ QueueTypeOK
    BY EmptySeq DEF Init, LoopTypeOK, QueueTypeOK
  <1> QED
    BY <1>1, <1>2 DEF TypeOK

\* The variables keep their types: what is read fits the buffers, a write that is
\* not finished has sent less than the response.
THEOREM TypeCorrect == Spec => []TypeOK
  <1>1. TypeOK /\ [Next]_vars => TypeOK'
    BY ConnTypeStep, LoopTypeStep DEF TypeOK
  <1> QED
    BY <1>1, InitType, PTL DEF Spec

-----------------------------------------------------------------------------
(* The application's continuation.                                         *)

\* OneHolder, in terms of the two holders.
HoldInv == pc # "killed" =>
  IF app = "stopped" \/ pc \in {"read", "write"}
  THEN handler = NoHandler /\ task = NoTask
  ELSE \/ handler # NoHandler /\ task = NoTask
       \/ handler = NoHandler /\ task # NoTask

\* What the application waits for is what the handler or the task is for.
StageInv ==
  /\ pc = "read" => app = "reading"
  /\ pc = "write" => app = "writing"
  /\ handler.kind \in {"read", "line"} \/ task.cb \in {"read", "line"} => app = "reading"
  /\ handler.kind = "write" \/ task.cb = "write" => app = "writing"
  /\ handler.kind # "write" => handler.written = 0

LEMMA Holders ==
  /\ NoHandler.kind = "none" /\ NoHandler.written = 0
  /\ \A how \in {"read", "line"} :
       Reader(how) # NoHandler /\ Reader(how).kind = how /\ Reader(how).written = 0
  /\ \A n : Writer(n) # NoHandler /\ Writer(n).kind = "write"
  /\ NoTask.cb = "none"
  /\ \A how \in {"read", "line"}, s \in Seq(Bytes) :
       GiveBytes(how, s) # NoTask /\ GiveBytes(how, s).cb = how
  /\ \A n \in {-1, RespLen} : GiveCount(n) # NoTask /\ GiveCount(n).cb = "write"
  <1>1. \A n \in {-1, RespLen} : n \in Int
    BY ConstantsAssumption
  <1>2. /\ NoHandler.kind = "none" /\ NoHandler.written = 0
        /\ \A how \in {"read", "line"} : Reader(how).kind = how /\ Reader(how).written = 0
        /\ \A n : Writer(n).kind = "write"
    BY DEF NoHandler, Reader, Writer
  <1>3. NoTask.cb = "none"
    BY DEF NoTask
  <1>4. \A how \in {"read", "line"}, s \in Seq(Bytes) : GiveBytes(how, s).cb = how
    BY DEF GiveBytes
  <1>5. \A n \in {-1, RespLen} : GiveCount(n).cb = "write"
    BY DEF GiveCount
  <1> QED
    BY <1>2, <1>3, <1>4, <1>5

\* Nobody holds the continuation while it runs, and a handler that is called holds
\* it.
LEMMA HolderFacts ==
  ASSUME TypeOK, HoldInv, StageInv
  PROVE  /\ handler.kind = "none" <=> handler = NoHandler
         /\ task.cb = "none" <=> task = NoTask
         /\ pc \in {"read", "write"} => handler = NoHandler /\ task = NoTask
         /\ pc # "killed" /\ handler # NoHandler => task = NoTask
         /\ pc # "killed" /\ (handler # NoHandler \/ task # NoTask) =>
              app # "stopped" /\ pc \notin {"read", "write"}
  <1>1. handler.kind = "none" => handler = NoHandler
    BY DEF TypeOK, ConnTypeOK, Handlers, StageInv, NoHandler
  <1>2. handler = NoHandler => handler.kind = "none"
    BY Holders
  <1>3. task.cb = "none" <=> task = NoTask
    BY TaskKinds
  <1> QED
    BY <1>1, <1>2, <1>3 DEF HoldInv

LEMMA HolderStep ==
  TypeOK /\ HoldInv /\ StageInv /\ [Next]_vars => HoldInv' /\ StageInv'
  <1> SUFFICES ASSUME TypeOK, HoldInv, StageInv, [Next]_vars
               PROVE  HoldInv' /\ StageInv'
    OBVIOUS
  <1> USE DEF Goto, inVars, outVars, appVars
  <1>0. /\ handler.kind = "none" <=> handler = NoHandler
        /\ task.cb = "none" <=> task = NoTask
        /\ pc \in {"read", "write"} => handler = NoHandler /\ task = NoTask
        /\ pc # "killed" /\ handler # NoHandler => task = NoTask
        /\ pc # "killed" /\ (handler # NoHandler \/ task # NoTask) =>
             app # "stopped" /\ pc \notin {"read", "write"}
    BY HolderFacts
  <1>1. ASSUME NEW how \in {"read", "line"}, Read(how)
        PROVE  HoldInv' /\ StageInv'
    <2>1. pc = "read" /\ handler = NoHandler /\ task = NoTask /\ task' = task /\ app = "reading"
      BY <1>0, <1>1, ReadEffect DEF StageInv
    <2>2. CASE app' = "writing" /\ pc' = "write" /\ handler' = handler
      BY <2>1, <2>2, Holders DEF HoldInv, StageInv
    <2>3. CASE handler' = Reader(how) /\ pc' = "pending" /\ app' = app
      BY <2>1, <2>3, Holders DEF HoldInv, StageInv
    <2> QED
      BY <1>1, <2>2, <2>3, ReadEffect
  <1>2. CASE Write
    <2>1. /\ pc = "write" /\ handler = NoHandler /\ task = NoTask /\ task' = task
          /\ app = "writing"
      BY <1>0, <1>2, WriteEffect DEF StageInv
    <2>2. CASE app' = "reading" /\ pc' = "read" /\ handler' = handler
      BY <2>1, <2>2, Holders DEF HoldInv, StageInv
    <2>3. CASE (\E n \in 0 .. RespLen - 1 : handler' = Writer(n)) /\ pc' = "pending" /\ app' = app
      BY <2>1, <2>3, Holders DEF HoldInv, StageInv
    <2> QED
      BY <1>2, <2>2, <2>3, WriteEffect
  <1>3. CASE WriteError
    BY <1>0, <1>3, Holders DEF WriteError, Stop, HoldInv, StageInv
  <1>4. CASE HandleData
    <2>1. /\ pc = "handler" /\ pc' = "batch" /\ handler.kind \in {"read", "line"} /\ UNCHANGED app
          /\ app = "reading" /\ handler # NoHandler /\ task = NoTask
      BY <1>0, <1>4, HandleDataEffect DEF StageInv
    <2>2. CASE \E s \in Seq(Bytes) : handler' = NoHandler /\ task' = GiveBytes(handler.kind, s)
      BY <2>1, <2>2, Holders DEF HoldInv, StageInv
    <2>3. CASE UNCHANGED <<handler, task>>
      BY <2>1, <2>3 DEF HoldInv, StageInv
    <2> QED
      BY <1>4, <2>2, <2>3, HandleDataEffect DEF Answer
  <1>5. CASE HandleEnd
    <2>1. << >> \in Seq(Bytes)
      OBVIOUS
    <2> QED
      BY <1>0, <1>5, <2>1, Holders DEF HandleEnd, Unregister, HoldInv, StageInv
  <1>6. CASE HandleRoom
    BY <1>0, <1>6, HandleRoomEffect, Holders DEF HoldInv, StageInv
  <1>7. CASE HandleError
    BY <1>0, <1>7, Holders DEF HandleError, Unregister, HoldInv, StageInv
  <1>8. CASE RunReadDone
    <2>1. /\ handler = NoHandler /\ handler' = handler /\ task' = NoTask
          /\ \/ app' = "stopped" /\ pc' = "pending"
             \/ app' = "writing" /\ pc' = "write"
      BY <1>0, <1>8, TaskKinds DEF RunReadDone, Stop
    <2> QED
      BY <2>1, Holders DEF HoldInv, StageInv
  <1>9. CASE RunWriteDone
    <2>1. /\ handler = NoHandler /\ handler' = handler /\ task' = NoTask
          /\ \/ app' = "stopped" /\ pc' = "pending"
             \/ app' = "reading" /\ pc' = "read"
      BY <1>0, <1>9, TaskKinds DEF RunWriteDone, Stop
    <2> QED
      BY <2>1, Holders DEF HoldInv, StageInv
  <1>10. CASE Peer
    BY <1>10 DEF Peer, PeerSend, PeerFin, PeerReset, PeerAck, HoldInv, StageInv
  <1>11. CASE Aside
    BY <1>11 DEF Aside, connVars, HoldInv, StageInv
  <1> QED
    BY <1>1, <1>2, <1>3, <1>4, <1>5, <1>6, <1>7, <1>8, <1>9, <1>10, <1>11, Elsewhere DEF Steps

LEMMA InitHolder == Init => HoldInv /\ StageInv
  BY Holders DEF Init, HoldInv, StageInv

LEMMA SpecHolder == Spec => [](TypeOK /\ HoldInv /\ StageInv)
  <1>1. Init => TypeOK /\ HoldInv /\ StageInv
    BY InitType, InitHolder
  <1>2. TypeOK /\ HoldInv /\ StageInv /\ [Next]_vars => (TypeOK /\ HoldInv /\ StageInv)'
    BY ConnTypeStep, LoopTypeStep, HolderStep DEF TypeOK
  <1> QED
    BY <1>1, <1>2, PTL DEF Spec

\* The continuation is held by one of handlers and pending_tasks, or by neither while
\* it runs and after the application has stopped.
THEOREM ContinuationHeldOnce == Spec => []OneHolder
  <1> DEFINE held == {h \in {"handler", "task"} :
                        IF h = "handler" THEN handler # NoHandler ELSE task # NoTask}
  <1>1. ASSUME HoldInv
        PROVE  OneHolder
    <2>0. CASE pc = "killed"
      BY <2>0 DEF OneHolder, Killed
    <2>1. CASE pc # "killed" /\ (app = "stopped" \/ pc \in {"read", "write"})
      <3>1. held = {}
        BY <1>1, <2>1 DEF HoldInv
      <3> QED
        BY <2>1, <3>1, FS_EmptySet DEF OneHolder
    <2>2. CASE pc # "killed" /\ ~ (app = "stopped" \/ pc \in {"read", "write"})
      <3>1. held = {"handler"} \/ held = {"task"}
        BY <1>1, <2>2 DEF HoldInv
      <3>2. Cardinality({"handler"}) = 1 /\ Cardinality({"task"}) = 1
        BY FS_Singleton
      <3> QED
        BY <2>2, <3>1, <3>2 DEF OneHolder
    <2> QED
      BY <2>0, <2>1, <2>2
  <1> QED
    BY <1>1, SpecHolder, PTL

\* Reactor::add finds no handler where it puts one: a handler is replaced by none, or
\* none by a handler.
THEOREM AddFindsNone == Spec => AddReplacesNone
  <1>1. ASSUME TypeOK, HoldInv, StageInv, [Next]_vars
        PROVE  [handler' # handler => NoHandler \in {handler, handler'}]_vars
    <2> SUFFICES ASSUME handler' # handler
                 PROVE  NoHandler \in {handler, handler'}
      OBVIOUS
    <2>1. CASE (\E how \in {"read", "line"} : Read(how)) \/ Write
      BY <1>1, <2>1, ReadEffect, WriteEffect, HolderFacts
    <2>2. CASE HandleData \/ HandleRoom
      BY <1>1, <2>2, HandleDataEffect, HandleRoomEffect
    <2>3. CASE HandleEnd \/ HandleError
      BY <2>3 DEF HandleEnd, HandleError, Unregister
    <2>4. CASE WriteError \/ RunReadDone \/ RunWriteDone
      BY <2>4 DEF WriteError, RunReadDone, RunWriteDone
    <2>5. CASE Peer
      BY <2>5 DEF Peer, PeerSend, PeerFin, PeerReset, PeerAck
    <2>6. CASE Aside
      BY <2>6 DEF Aside, connVars
    <2> QED
      BY <1>1, <2>1, <2>2, <2>3, <2>4, <2>5, <2>6, Elsewhere DEF Steps
  <1> QED
    BY <1>1, SpecHolder, PTL DEF Spec, AddReplacesNone

-----------------------------------------------------------------------------
(* What the peer has sent.                                                 *)

\* \o under a name of its own: the provers see only what the next lemmas say of it.
Cat(a, b) == a \o b

LEMMA CatType ==
  ASSUME NEW a \in Seq(Bytes), NEW b \in Seq(Bytes)
  PROVE  Cat(a, b) \in Seq(Bytes)
  BY ConcatProperties DEF Cat

LEMMA CatGroup ==
  ASSUME NEW a \in Seq(Bytes), NEW b \in Seq(Bytes), NEW c \in Seq(Bytes)
  PROVE  Cat(Cat(a, b), c) = Cat(a, Cat(b, c))
  BY ConcatAssociative DEF Cat

LEMMA CatEmpty ==
  ASSUME NEW a \in Seq(Bytes)
  PROVE  Cat(a, << >>) = a /\ Cat(<< >>, a) = a /\ << >> \in Seq(Bytes)
  BY ConcatEmptySeq DEF Cat

\* Bytes move from what is readable to what was heard.
LEMMA MoveOut ==
  ASSUME NEW h \in Seq(Bytes), NEW given \in Seq(Bytes), NEW l \in Seq(Bytes),
         NEW after \in Seq(Bytes), NEW x \in Seq(Bytes), Cat(given, after) = l
  PROVE  Cat(Cat(Cat(Cat(h, given), << >>), after), x) = Cat(Cat(Cat(h, << >>), l), x)
  <1>1. Cat(Cat(h, given), << >>) = Cat(h, given) /\ Cat(h, << >>) = h
    BY CatType, CatEmpty
  <1>2. Cat(Cat(h, given), after) = Cat(h, l)
    BY CatGroup
  <1> QED
    BY <1>1, <1>2

\* Bytes move from the kernel to what is readable.
LEMMA MoveOn ==
  ASSUME NEW h \in Seq(Bytes), NEW l \in Seq(Bytes), NEW new \in Seq(Bytes),
         NEW rest \in Seq(Bytes)
  PROVE  Cat(Cat(h, Cat(l, new)), rest) = Cat(Cat(h, l), Cat(new, rest))
  <1>1. Cat(h, Cat(l, new)) = Cat(Cat(h, l), new)
    BY CatGroup
  <1> QED
    BY <1>1, CatType, CatGroup

LEMMA InputStep ==
  TypeOK /\ HoldInv /\ StageInv /\ InputIntact /\ [Next]_vars => InputIntact'
  <1> SUFFICES ASSUME TypeOK, HoldInv, StageInv, InputIntact, [Next]_vars
               PROVE  InputIntact'
    OBVIOUS
  <1> DEFINE held == View(task.bytes)
  <1> DEFINE left == Readable(input)
  <1>0. /\ heard \in Seq(Bytes) /\ held \in Seq(Bytes) /\ left \in Seq(Bytes) /\ rx \in Seq(Bytes)
        /\ heard \o held \o left \o rx = sent
        /\ task = NoTask => held = << >>
        /\ (pc # "killed" /\ handler # NoHandler) \/ pc \in {"read", "write"} => task = NoTask
        /\ handler.kind # "none" => handler # NoHandler
        /\ << >> \in Seq(Bytes)
    BY TaskKinds, HolderFacts, ReadableType, Tasks DEF TypeOK, ConnTypeOK, InputIntact
  <1>i. ASSUME (heard \o held \o left \o rx)' = sent'
        PROVE  InputIntact'
    BY <1>i DEF InputIntact
  <1>1. ASSUME NEW how \in {"read", "line"}, Read(how)
        PROVE  InputIntact'
    <2>1. held = << >> /\ held' = held /\ UNCHANGED <<rx, sent>>
      BY <1>0, <1>1, ReadEffect DEF inVars
    <2>2. CASE UNCHANGED <<heard, input>>
      BY <1>0, <1>i, <2>1, <2>2
    <2>3. ASSUME NEW given \in Seq(Bytes), input' \in Buffers,
                 given \o left' = left, heard' = heard \o given
          PROVE  InputIntact'
      <3>1. left' \in Seq(Bytes)
        BY <2>3, ReadableType
      <3>2. (heard \o given) \o << >> \o left' \o rx = heard \o << >> \o left \o rx
        <4>1. Cat(given, left') = left
          BY <2>3 DEF Cat
        <4>2. Cat(Cat(Cat(Cat(heard, given), << >>), left'), rx) = Cat(Cat(Cat(heard, << >>), left), rx)
          BY <1>0, <3>1, <4>1, MoveOut
        <4> QED
          BY <4>2 DEF Cat
      <3> QED
        BY <1>0, <1>i, <2>1, <2>3, <3>2
    <2> QED
      BY <1>1, <2>2, <2>3, ReadEffect DEF Answer
  <1>2. CASE HandleData
    <2>1. /\ held = << >> /\ UNCHANGED <<heard, sent>> /\ handler.kind \in {"read", "line"}
          /\ rx' \in Seq(Bytes) /\ left' \in Seq(Bytes)
      BY <1>0, <1>2, HandleDataEffect, ReadableType DEF appVars
    <2>2. PICK new \in Seq(Bytes) :
            /\ new \o rx' = rx
            /\ \/ \E given \in Seq(Bytes) :
                    given \o left' = left \o new /\ task' = GiveBytes(handler.kind, given)
               \/ left' = left \o new /\ UNCHANGED task
      BY <1>2, HandleDataEffect DEF Answer
    <2>3. /\ heard \in Seq(Bytes) /\ left \in Seq(Bytes) /\ rx \in Seq(Bytes) /\ << >> \in Seq(Bytes)
          /\ left' \in Seq(Bytes) /\ rx' \in Seq(Bytes) /\ new \in Seq(Bytes)
      BY <1>0, <2>1, <2>2
    <2>4. ASSUME NEW given \in Seq(Bytes),
                 given \o left' = left \o new, task' = GiveBytes(handler.kind, given)
          PROVE  InputIntact'
      <3>1. held' = given
        BY <2>1, <2>4, Tasks
      <3>2. heard \o given \o left' \o rx' = heard \o << >> \o left \o rx
        <4>1. Cat(given, left') = Cat(left, new) /\ Cat(new, rx') = rx
          BY <2>2, <2>4 DEF Cat
        <4>2. Cat(Cat(heard, given), left') = Cat(heard, Cat(left, new))
          BY <2>3, <4>1, CatGroup
        <4>3. Cat(Cat(heard, Cat(left, new)), rx') = Cat(Cat(heard, left), rx)
          BY <2>3, <4>1, MoveOn
        <4>4. Cat(heard, << >>) = heard
          BY <2>3, CatEmpty
        <4> QED
          BY <4>2, <4>3, <4>4 DEF Cat
      <3> QED
        BY <1>0, <1>i, <2>1, <3>1, <3>2
    <2>5. ASSUME left' = left \o new, UNCHANGED task
          PROVE  InputIntact'
      <3>1. held' = << >>
        BY <2>1, <2>5
      <3>2. left' = Cat(left, new) /\ Cat(new, rx') = rx
        BY <2>2, <2>5 DEF Cat
      <3>3. heard \o << >> \o left' \o rx' = heard \o << >> \o left \o rx
        <4>1. Cat(heard, << >>) = heard
          BY <2>3, CatEmpty
        <4>2. Cat(Cat(heard, left'), rx') = Cat(Cat(heard, left), rx)
          BY <2>3, <3>2, MoveOn
        <4> QED
          BY <4>1, <4>2 DEF Cat
      <3> QED
        BY <1>0, <1>i, <2>1, <3>1, <3>3
    <2> QED
      BY <2>2, <2>4, <2>5
  <1>3. CASE HandleEnd
    <2>1. held = << >> /\ held' = << >>
      BY <1>0, <1>3, Tasks DEF HandleEnd, Goto
    <2> QED
      BY <1>0, <1>i, <1>3, <2>1 DEF HandleEnd, inVars, appVars
  <1>4. CASE HandleRoom \/ HandleError \/ RunWriteDone
    <2>1. held = << >>
      BY <1>0, <1>4, TaskKinds DEF HandleRoom, HandleError, RunWriteDone, Goto
    <2>2. task' \in {task, NoTask, GiveCount(RespLen), GiveCount(-1)}
      BY <1>4, HandleRoomEffect DEF HandleError, RunWriteDone
    <2>3. held' = << >>
      <3>1. RespLen \in Int /\ -1 \in Int
        BY ConstantsAssumption
      <3> QED
        BY <2>1, <2>2, <3>1, Tasks
    <2>4. UNCHANGED <<heard, input, rx, sent>>
      BY <1>4, HandleRoomEffect DEF HandleError, RunWriteDone, inVars, appVars
    <2> QED
      BY <1>0, <1>i, <2>1, <2>3, <2>4
  <1>5. CASE RunReadDone
    <2>1. /\ UNCHANGED <<input, rx, sent>> /\ task' = NoTask
          /\ \/ held = << >> /\ heard' = heard
             \/ heard' = heard \o held
      BY <1>5 DEF RunReadDone, Hear, inVars
    <2>2. held' = << >>
      BY <2>1, Tasks
    <2>3. heard' = heard \o held
      BY <1>0, <2>1, ConcatEmptySeq
    <2>4. heard' \o held' = heard \o held
      BY <1>0, <2>2, <2>3, ConcatEmptySeq, ConcatProperties
    <2> QED
      BY <1>0, <1>i, <2>1, <2>4
  <1>6. CASE PeerSend
    <2>1. PICK b \in Bytes : rx' = Append(rx, b) /\ sent' = Append(sent, b)
      BY <1>6 DEF PeerSend
    <2>2. rx' = rx \o <<b>> /\ sent' = sent \o <<b>> /\ <<b>> \in Seq(Bytes)
      <3>1. sent \in Seq(Bytes)
        BY DEF TypeOK, ConnTypeOK
      <3> QED
        BY <1>0, <2>1, <3>1, AppendIsConcat
    <2>3. UNCHANGED <<heard, input, task>>
      BY <1>6 DEF PeerSend, appVars
    <2>4. (heard \o held \o left) \o rx' = ((heard \o held \o left) \o rx) \o <<b>>
      <3> HIDE DEF held, left
      <3> DEFINE before == heard \o held \o left
      <3>1. before \in Seq(Bytes)
        BY <1>0
      <3> HIDE DEF before
      <3>2. before \o rx \o <<b>> = before \o (rx \o <<b>>)
        BY <1>0, <2>2, <3>1, CatGroup DEF Cat
      <3> QED
        BY <2>2, <3>2 DEF before
    <2> QED
      BY <1>0, <1>i, <2>2, <2>3, <2>4
  <1>7. CASE Write
    BY <1>0, <1>i, <1>7, WriteEffect DEF inVars
  <1>8. CASE WriteError \/ PeerFin \/ PeerReset \/ PeerAck
    BY <1>0, <1>i, <1>8 DEF WriteError, PeerFin, PeerReset, PeerAck, inVars, appVars
  <1>9. CASE Aside
    BY <1>0, <1>i, <1>9 DEF Aside, connVars, inVars, appVars
  <1> QED
    BY <1>1, <1>2, <1>3, <1>4, <1>5, <1>6, <1>7, <1>8, <1>9, Elsewhere DEF Steps, Peer
\* What read() and read_until() gave, what is buffered and what is still in the
\* kernel is what the peer sent (TcpConnection.h:42 to 69 and 150 to 232).
THEOREM NothingLost == Spec => []InputIntact
  <1>1. Init => InputIntact
    <2> SUFFICES ASSUME Init
                 PROVE  heard \o View(task.bytes) \o Readable(input) \o rx = sent
      BY DEF InputIntact
    <2>1. heard = << >> /\ View(task.bytes) = << >> /\ rx = << >> /\ sent = << >>
      BY Tasks DEF Init
    <2>2. Readable(input) = << >>
      <3>1. Readable(input) = SubSeq(<< >>, 1, 0)
        BY DEF Init, Readable, Cleared
      <3>2. << >> \in Seq(Bytes)
        OBVIOUS
      <3> QED
        BY <3>1, <3>2, SubSeqProperties
    <2>3. << >> \o << >> = << >>
      BY CatEmpty DEF Cat
    <2> QED
      BY <2>1, <2>2, <2>3, Zenon
  <1>2. TypeOK /\ HoldInv /\ StageInv /\ InputIntact /\ [Next]_vars => InputIntact'
    BY InputStep
  <1> QED
    BY <1>1, <1>2, SpecHolder, PTL DEF Spec

-----------------------------------------------------------------------------
(* Lines.                                                                  *)

\* LinesWhole, of the line in a task too.
LineInv ==
  /\ LinesWhole
  /\ task.cb = "line" /\ View(task.bytes) # << >> =>
       Ends(View(task.bytes)) = {Len(View(task.bytes))}

LEMMA LineStep == TypeOK /\ LineInv /\ [Next]_vars => LineInv'
  <1> SUFFICES ASSUME TypeOK, LineInv, [Next]_vars
               PROVE  LineInv'
    OBVIOUS
  <1> DEFINE Whole(s) == Ends(s) = {Len(s)}
  <1>k. CASE UNCHANGED <<line, task>>
    BY <1>k DEF LineInv, LinesWhole
  <1>n. CASE line' = line /\ task'.cb \in {"none", "write"}
    BY <1>n DEF LineInv, LinesWhole
  <1>1. ASSUME NEW how \in {"read", "line"}, Read(how)
        PROVE  LineInv'
    <2>1. task' = task
      BY <1>1, ReadEffect
    <2>2. line' = line \/ Whole(line')
      BY <1>1, ReadEffect DEF Answer
    <2> QED
      BY <2>1, <2>2 DEF LineInv, LinesWhole
  <1>2. CASE HandleData
    <2>1. line' = line
      BY <1>2, HandleDataEffect DEF appVars
    <2>2. ASSUME NEW given, Answer(handler.kind, given), handler.kind \in {"read", "line"},
                 task' = GiveBytes(handler.kind, given)
          PROVE  LineInv'
      <3>1. task'.cb = handler.kind /\ View(task.bytes)' = given
        BY <2>2, Tasks DEF Answer
      <3> QED
        BY <2>1, <2>2, <3>1 DEF LineInv, LinesWhole, Answer
    <2> QED
      BY <1>2, <1>k, <2>1, <2>2, HandleDataEffect
  <1>3. CASE HandleEnd
    <2>0. << >> \in Seq(Bytes)
      OBVIOUS
    <2>1. handler.kind \in {"read", "line"} /\ task' = GiveBytes(handler.kind, << >>)
      BY <1>3 DEF HandleEnd
    <2>2. View(task.bytes)' = << >>
      BY <2>0, <2>1, Tasks
    <2>3. line' = line
      BY <1>3 DEF HandleEnd, appVars
    <2> QED
      BY <2>2, <2>3 DEF LineInv, LinesWhole
  <1>4. CASE HandleRoom \/ HandleError \/ RunWriteDone
    <2>1. task' \in {task, NoTask, GiveCount(RespLen), GiveCount(-1)} /\ line' = line
      BY <1>4, HandleRoomEffect DEF HandleError, RunWriteDone, appVars
    <2>2. task' = task \/ task'.cb \in {"none", "write"}
      BY <2>1 DEF NoTask, GiveCount
    <2> QED
      BY <1>k, <1>n, <2>1, <2>2
  <1>5. CASE RunReadDone
    <2> DEFINE given == View(task.bytes)
    <2>1. /\ task' = NoTask
          /\ \/ UNCHANGED line
             \/ line' = IF task.cb = "line" THEN given ELSE line
      BY <1>5 DEF RunReadDone, Hear
    <2> HIDE DEF given
    <2>2. line' = line \/ (line' = given /\ task.cb = "line")
      BY <2>1
    <2>3. task'.cb = "none"
      BY <2>1, Tasks
    <2>4. line # << >> => Ends(line) = {Len(line)}
      BY DEF LineInv, LinesWhole
    <2>5. task.cb = "line" /\ given # << >> => Ends(given) = {Len(given)}
      BY DEF LineInv, given
    <2>6. line' # << >> => Ends(line') = {Len(line')}
      BY <2>2, <2>4, <2>5
    <2> QED
      BY <2>3, <2>6 DEF LineInv, LinesWhole
  <1>6. CASE Write
    BY <1>6, <1>k, WriteEffect
  <1>7. CASE WriteError \/ Peer
    BY <1>7, <1>k DEF WriteError, Peer, PeerSend, PeerFin, PeerReset, PeerAck, appVars
  <1>8. CASE Aside
    BY <1>8, <1>k DEF Aside, connVars, appVars
  <1> QED
    BY <1>1, <1>2, <1>3, <1>4, <1>5, <1>6, <1>7, <1>8, Elsewhere DEF Steps

\* What read_until() gave is one line with its delimiter, for every delimiter,
\* also when it came in pieces (TcpConnection.h:65 to 69 and 212 to 232).
THEOREM OneLineAtATime == Spec => []LinesWhole
  <1>1. Init => LineInv
    BY Tasks DEF Init, LineInv, LinesWhole
  <1>2. LineInv => LinesWhole
    BY DEF LineInv
  <1> QED
    BY <1>1, <1>2, LineStep, TypeCorrect, PTL DEF Spec

-----------------------------------------------------------------------------
(* Responses.                                                              *)

\* WrittenToTheEnd, of the count in a task too.
WriteInv ==
  /\ WrittenToTheEnd
  /\ task.cb = "write" /\ task.n >= 0 => wire = RespLen

LEMMA WriteStep ==
  TypeOK /\ HoldInv /\ StageInv /\ WriteInv /\ [Next]_vars => WriteInv'
  <1> SUFFICES ASSUME TypeOK, HoldInv, StageInv, WriteInv, [Next]_vars
               PROVE  WriteInv'
    OBVIOUS
  <1>k. CASE UNCHANGED <<app, wire, task>>
    BY <1>k DEF WriteInv, WrittenToTheEnd
  <1>n. CASE /\ app' = app \/ app' \in {"writing", "stopped"}
             /\ wire' = wire /\ task'.cb \in {"none", "read", "line"}
    BY <1>n DEF WriteInv, WrittenToTheEnd
  <1>0. RespLen \in Nat /\ RespLen \in Int /\ -1 \in Int
    BY ConstantsAssumption
  <1>1. ASSUME NEW how \in {"read", "line"}, Read(how)
        PROVE  WriteInv'
    <2>1. wire' = wire /\ task' = task /\ (app' = app \/ app' = "writing")
      BY <1>1, ReadEffect DEF outVars
    <2> QED
      BY <2>1 DEF WriteInv, WrittenToTheEnd
  <1>2. CASE Write
    <2>1. pc = "write" /\ app = "writing" /\ task = NoTask
      BY <1>2, WriteEffect, HolderFacts DEF StageInv
    <2>2. task' = task /\ (app' = app \/ wire' = RespLen)
      BY <1>2, WriteEffect
    <2> QED
      BY <2>1, <2>2, Tasks DEF WriteInv, WrittenToTheEnd
  <1>3. CASE HandleData
    <2>1. wire' = wire /\ app' = app
      BY <1>3, HandleDataEffect DEF outVars, appVars
    <2>2. task' = task \/ task'.cb \in {"read", "line"}
      BY <1>3, HandleDataEffect, Tasks DEF Answer
    <2> QED
      BY <1>k, <1>n, <2>1, <2>2
  <1>4. CASE HandleEnd
    <2>1. task'.cb \in {"read", "line"}
      BY <1>4 DEF HandleEnd, GiveBytes
    <2>2. wire' = wire /\ app' = app
      BY <1>4 DEF HandleEnd, outVars, appVars
    <2> QED
      BY <1>n, <2>1, <2>2
  <1>5. CASE HandleRoom
    <2>1. handler.kind = "write" /\ app = "writing" /\ app' = app
      BY <1>5, HandleRoomEffect DEF StageInv, appVars
    <2>2. task = NoTask
      BY <1>5, <2>1, HolderFacts, HandleRoomEffect, Holders
    <2>3. wire' = RespLen \/ task' = task
      BY <1>5, HandleRoomEffect
    <2> QED
      BY <2>1, <2>2, <2>3, Tasks DEF WriteInv, WrittenToTheEnd
  <1>6. CASE HandleError
    <2>1. task'.n = -1
      BY <1>6 DEF HandleError, GiveCount
    <2>2. app = "writing" /\ app' = app
      BY <1>6 DEF HandleError, StageInv, appVars
    <2> QED
      BY <2>1, <2>2 DEF WriteInv, WrittenToTheEnd
  <1>7. CASE RunReadDone
    BY <1>7, <1>n, Tasks DEF RunReadDone, Stop, outVars
  <1>8. CASE RunWriteDone
    <2>1. wire' = wire /\ task'.cb = "none"
      BY <1>8, Tasks DEF RunWriteDone, outVars
    <2>2. app' = "stopped" \/ wire = RespLen
      <3>1. CASE task.n < 0
        BY <1>8, <3>1 DEF RunWriteDone, Stop
      <3>2. CASE ~(task.n < 0)
        <4>1. task.cb = "write" /\ task.n \in {-1, RespLen}
          BY <1>8, TaskKinds DEF RunWriteDone
        <4>2. task.n >= 0
          BY <1>0, <3>2, <4>1
        <4> QED
          BY <4>1, <4>2 DEF WriteInv
      <3> QED
        BY <3>1, <3>2
    <2> QED
      BY <2>1, <2>2 DEF WriteInv, WrittenToTheEnd
  <1>9. CASE WriteError
    BY <1>9 DEF WriteError, Stop, outVars, WriteInv, WrittenToTheEnd
  <1>10. CASE Peer
    BY <1>10, <1>k DEF Peer, PeerSend, PeerFin, PeerReset, PeerAck, outVars, appVars
  <1>11. CASE Aside
    BY <1>11, <1>k DEF Aside, connVars, outVars, appVars
  <1> QED
    BY <1>1, <1>2, <1>3, <1>4, <1>5, <1>6, <1>7, <1>8, <1>9, <1>10, <1>11, Elsewhere DEF Steps

\* A response is reported as written when its last byte is in the kernel, however
\* its writes were cut (TcpConnection.h:71 to 144).
THEOREM WholeResponses == Spec => []WrittenToTheEnd
  <1>1. Init => WriteInv
    BY Tasks DEF Init, WriteInv, WrittenToTheEnd
  <1>2. WriteInv => WrittenToTheEnd
    BY DEF WriteInv
  <1> QED
    BY <1>1, <1>2, WriteStep, SpecHolder, PTL DEF Spec

\* A write that waits for room counts no bytes that the peer was not sent.
SkipInv == handler.kind = "write" => handler.written <= wire % RespLen

LEMMA SkipStep == TypeOK /\ HoldInv /\ SkipInv /\ [Next]_vars => SkipInv'
  <1> SUFFICES ASSUME TypeOK, HoldInv, SkipInv, [Next]_vars
               PROVE  SkipInv'
    OBVIOUS
  <1>0. /\ RespLen \in Nat /\ RespLen > 0 /\ wire \in 1 .. RespLen
        /\ \A n \in 0 .. RespLen - 1 : n % RespLen = n
        /\ wire % RespLen \in Nat
    <2>1. RespLen \in Nat /\ RespLen > 0 /\ wire \in 1 .. RespLen
      BY ConstantsAssumption DEF TypeOK, ConnTypeOK
    <2>2. ASSUME NEW n \in 0 .. RespLen - 1
          PROVE  n % RespLen = n
      <3>1. n \in Nat /\ n < RespLen
        BY <2>1
      <3> QED
        BY <2>1, <3>1, Remainder
    <2>3. wire % RespLen \in Nat
      BY <2>1, Remainder
    <2> QED
      BY <2>1, <2>2, <2>3
  <1>k. CASE UNCHANGED <<handler, wire>>
    BY <1>k DEF SkipInv
  <1>n. CASE handler'.kind # "write"
    BY <1>n DEF SkipInv
  <1>1. ASSUME NEW how \in {"read", "line"}, Read(how)
        PROVE  SkipInv'
    BY <1>1, <1>k, <1>n, ReadEffect, Holders DEF outVars
  <1>2. CASE Write
    <2>1. pc = "write" /\ 0 \in 0 .. RespLen - 1
      BY <1>0, <1>2 DEF Write
    <2>2. PICK n \in 0 .. Len(Rest[0]) :
            /\ Transmit(Rest[0], n)
            /\ IF n = Len(Rest[0]) THEN UNCHANGED handler ELSE handler' = Writer(n)
      BY <1>2 DEF Write
    <2>3. Len(Rest[0]) = RespLen - 0 /\ wire' = IF n = 0 THEN wire ELSE 0 + n
      BY <2>1, <2>2, TransmitRest
    <2>4. CASE n = Len(Rest[0])
      <3>1. handler' = NoHandler
        BY <2>1, <2>2, <2>4 DEF HoldInv
      <3> QED
        BY <1>n, <3>1, Holders
    <2>5. CASE n # Len(Rest[0])
      <3>1. n \in 0 .. RespLen - 1 /\ handler'.written = n
        BY <1>0, <2>2, <2>3, <2>5 DEF Writer
      <3>2. n <= wire' % RespLen
        BY <1>0, <2>3, <3>1
      <3> QED
        BY <3>1, <3>2 DEF SkipInv
    <2> QED
      BY <2>4, <2>5
  <1>3. CASE HandleRoom
    <2>1. handler.written \in 0 .. RespLen - 1 /\ handler.kind = "write"
      BY <1>3 DEF HandleRoom, TypeOK, ConnTypeOK, Handlers
    <2>2. PICK n \in 1 .. Len(Rest[handler.written]) :
            /\ Transmit(Rest[handler.written], n)
            /\ IF n = Len(Rest[handler.written]) THEN handler' = NoHandler ELSE UNCHANGED handler
      BY <1>3 DEF HandleRoom, Unregister
    <2>3. n \in 0 .. Len(Rest[handler.written])
      BY <2>2
    <2>4. /\ Len(Rest[handler.written]) = RespLen - handler.written
          /\ wire' = IF n = 0 THEN wire ELSE handler.written + n
      BY <2>1, <2>2, <2>3, TransmitRest
    <2>5. CASE n = Len(Rest[handler.written])
      BY <1>n, <2>2, <2>5, Holders
    <2>6. CASE n # Len(Rest[handler.written])
      <3> DEFINE w == handler.written
      <3>1. w \in 0 .. RespLen - 1 /\ n \in 1 .. RespLen - w - 1 /\ wire' = w + n
        BY <1>0, <2>1, <2>2, <2>4, <2>6
      <3> HIDE DEF w
      <3>2. wire' \in 0 .. RespLen - 1 /\ w <= wire'
        BY <1>0, <3>1
      <3>3. handler'.written <= wire' % RespLen
        BY <1>0, <2>2, <2>6, <3>2 DEF w
      <3> QED
        BY <3>3 DEF SkipInv
    <2> QED
      BY <2>5, <2>6
  <1>4. CASE HandleData
    BY <1>4, <1>k, <1>n, HandleDataEffect, Holders DEF outVars
  <1>5. CASE HandleEnd \/ HandleError
    BY <1>5, <1>n, Holders DEF HandleEnd, HandleError, Unregister
  <1>6. CASE WriteError \/ RunReadDone \/ RunWriteDone
    BY <1>6, <1>k DEF WriteError, RunReadDone, RunWriteDone, outVars
  <1>7. CASE Peer
    BY <1>7, <1>k DEF Peer, PeerSend, PeerFin, PeerReset, PeerAck, outVars
  <1>8. CASE Aside
    BY <1>8, <1>k DEF Aside, connVars, outVars
  <1> QED
    BY <1>1, <1>2, <1>3, <1>4, <1>5, <1>6, <1>7, <1>8, Elsewhere DEF Steps

\* A write sends bytes again, or the next ones, and skips none, wherever the
\* boundary of its packets is (TcpConnection.h:109 to 124).
THEOREM NoneLeftOut == Spec => NothingSkipped
  <1>1. ASSUME TypeOK, SkipInv, [Next]_vars
        PROVE  [tx' > tx => wire' - (tx' - tx) <= wire % RespLen]_vars
    <2> SUFFICES ASSUME tx' > tx
                 PROVE  wire' - (tx' - tx) <= wire % RespLen
      OBVIOUS
    <2>0. /\ RespLen \in Nat /\ RespLen > 0 /\ wire \in 1 .. RespLen /\ tx \in Nat
          /\ wire % RespLen \in Nat
      BY <1>1, Remainder, ConstantsAssumption DEF TypeOK, ConnTypeOK
    <2>1. ASSUME NEW written \in 0 .. RespLen - 1, NEW n \in 0 .. Len(Rest[written]),
                 Transmit(Rest[written], n), written <= wire % RespLen
          PROVE  wire' - (tx' - tx) <= wire % RespLen
      <3>1. /\ Len(Rest[written]) = RespLen - written
            /\ wire' = IF n = 0 THEN wire ELSE written + n
            /\ tx' = tx + n
        BY <1>1, <2>1, TransmitRest
      <3>2. n > 0 /\ n \in Nat
        BY <2>0, <2>1, <3>1
      <3> QED
        BY <2>0, <2>1, <3>1, <3>2
    <2>2. CASE Write
      <3>1. 0 \in 0 .. RespLen - 1 /\ 0 <= wire % RespLen
        BY <2>0
      <3>2. \E n \in 0 .. Len(Rest[0]) : Transmit(Rest[0], n)
        BY <2>2 DEF Write
      <3> QED
        BY <2>1, <3>1, <3>2
    <2>3. CASE HandleRoom
      <3>1. handler.written \in 0 .. RespLen - 1 /\ handler.written <= wire % RespLen
        BY <1>1, <2>3 DEF HandleRoom, SkipInv, TypeOK, ConnTypeOK, Handlers
      <3>2. \E n \in 1 .. Len(Rest[handler.written]) : Transmit(Rest[handler.written], n)
        BY <2>3 DEF HandleRoom
      <3>3. \E n \in 0 .. Len(Rest[handler.written]) : Transmit(Rest[handler.written], n)
        BY <3>2
      <3> QED
        BY <2>1, <3>1, <3>3
    <2>4. CASE \E how \in {"read", "line"} : Read(how)
      BY <1>1, <2>0, <2>4, ReadEffect DEF outVars
    <2>5. CASE HandleData \/ HandleEnd \/ HandleError \/ WriteError \/ RunReadDone \/ RunWriteDone
      BY <1>1, <2>0, <2>5, HandleDataEffect
      DEF HandleEnd, HandleError, WriteError, RunReadDone, RunWriteDone, outVars
    <2>6. CASE Peer
      <3>1. tx' <= tx
        BY <1>1, <2>0, <2>6 DEF Peer, PeerSend, PeerFin, PeerReset, PeerAck, outVars
      <3> QED
        BY <1>1, <2>0, <2>6, <3>1 DEF Peer, PeerSend, PeerFin, PeerReset, PeerAck, outVars
    <2>7. CASE Aside
      BY <2>0, <2>7 DEF Aside, connVars, outVars
    <2> QED
      BY <1>1, <2>2, <2>3, <2>4, <2>5, <2>6, <2>7, Elsewhere DEF Steps
  <1>2. Init => SkipInv
    BY Holders DEF Init, SkipInv
  <1> QED
    BY <1>1, <1>2, SkipStep, SpecHolder, PTL DEF Spec, NothingSkipped

-----------------------------------------------------------------------------
(* Slices.                                                                 *)

\* A packet cut out of what a read gave is inside it and has the bytes asked for,
\* exactly when its start is past them or start + length does not wrap around
\* (Packet.h:43).
THEOREM SlicesInBounds == Spec => []SlicesInside
  <1>1. ASSUME TypeOK
        PROVE  SlicesInside
    <2> DEFINE Cut(start, length) == Slice(task.bytes, start, length)
    <2> SUFFICES ASSUME NEW start \in Word, NEW length \in Word,
                        task.bytes.size \in Word \ {0}
                 PROVE  /\ InsideData(Cut(start, length)) <=>
                             start >= task.bytes.size \/ start + length \in Word
                        /\ InsideData(Cut(start, length)) =>
                             View(Cut(start, length)) =
                               SubSeq(View(task.bytes), start + 1,
                                      Least(start + length, task.bytes.size))
      BY DEF SlicesInside
    <2> DEFINE data == task.bytes.data
    <2>1. task.cb \in {"read", "line"} /\ data \in Seq(Bytes)
      BY <1>1 DEF TypeOK, ConnTypeOK, IsTask, NoTask, GiveCount, EmptyPacket
    <2>2. task.bytes = FromBytes(data)
      BY <1>1, <2>1, TaskKinds
    <2>3. View(task.bytes) = data /\ task.bytes.size = Len(data)
      BY <2>1, <2>2, WholeView DEF FromBytes
    <2> HIDE DEF data
    <2>4. CASE start + length \in Word
      BY <2>1, <2>2, <2>3, <2>4, SliceView
    <2>5. CASE start + length \notin Word /\ start < Len(data)
      <3>1. ~InsideData(Cut(start, length))
        BY <2>1, <2>2, <2>3, <2>5, SliceWraps
      <3>2. ~(start >= Len(data))
        BY <2>1, <2>5 DEF Word
      <3> QED
        BY <2>3, <2>5, <3>1, <3>2
    <2>6. CASE start + length \notin Word /\ start >= Len(data)
      <3>1. Cut(start, length) = EmptyPacket
        BY <2>1, <2>2, <2>3, <2>6, SliceWraps
      <3>2. InsideData(EmptyPacket) /\ View(EmptyPacket) = << >>
        <4>1. Len(<< >>) = 0
          BY EmptySeq
        <4> QED
          BY <4>1, EmptyView DEF InsideData, EmptyPacket
      <3>3. SubSeq(data, start + 1, Least(start + length, Len(data))) = << >>
        <4>1. /\ Len(data) \in Nat /\ start \in Nat /\ length \in Nat
              /\ Least(start + length, Len(data)) < start + 1
          BY <2>1, <2>6, WordAssumption DEF Word, Least
        <4> QED
          BY <2>1, <4>1, SubSeqEmpty DEF Least
      <3> QED
        BY <2>3, <2>6, <3>1, <3>2, <3>3
    <2>7. start < Len(data) \/ start >= Len(data)
      BY <2>1, WordAssumption DEF Word
    <2> QED
      BY <2>4, <2>5, <2>6, <2>7
  <1> QED
    BY <1>1, TypeCorrect, PTL
-----------------------------------------------------------------------------
(* Tasks of other threads.                                                 *)

\* The tasks in a vector, and a vector that has each of its tasks once.
TasksIn(q) == {q[i] : i \in 1 .. Len(q)}
Distinct(q) == \A i, j \in 1 .. Len(q) : q[i] = q[j] => i = j

\* A task that is queued has a wake-up under way, and tasks that were swapped out
\* are run before the loop goes on.
WakeInv ==
  /\ incoming # << >> => notify \/ announcing # {} \/ pc = "swap"
  /\ temp # << >> => pc \in {"tasks", "task"}

\* A task is in one place: not submitted, queued, swapped out or run; there once.
EachInOnePlace ==
  /\ Distinct(incoming) /\ Distinct(temp)
  /\ unsent \cap TasksIn(incoming) = {} /\ unsent \cap TasksIn(temp) = {} /\ unsent \cap ran = {}
  /\ TasksIn(incoming) \cap TasksIn(temp) = {} /\ TasksIn(incoming) \cap ran = {}
  /\ TasksIn(temp) \cap ran = {}
  /\ unsent \cup TasksIn(incoming) \cup TasksIn(temp) \cup ran = OtherTasks \cup OwnTasks

\* The reactor never sleeps on a task: when it waits, the eventfd is written or is
\* about to be.
NoTaskForgotten == pc = "wait" /\ incoming # << >> => notify \/ announcing # {}

\* A task that is called has not been called before.
CalledOnce == [][RunTask => Head(temp) \notin ran]_vars

LEMMA TasksInEmpty == TasksIn(<< >>) = {} /\ Distinct(<< >>)
  BY EmptySeq DEF TasksIn, Distinct

LEMMA TasksInAppend ==
  ASSUME NEW S, NEW q \in Seq(S), NEW t \in S
  PROVE  /\ TasksIn(Append(q, t)) = TasksIn(q) \cup {t}
         /\ Distinct(q) /\ t \notin TasksIn(q) => Distinct(Append(q, t))
  <1>1. /\ Len(q) \in Nat /\ Len(Append(q, t)) = Len(q) + 1
        /\ \A i \in 1 .. Len(q) : Append(q, t)[i] = q[i]
        /\ Append(q, t)[Len(q) + 1] = t
    BY AppendProperties, LenProperties
  <1>2. \A i : i \in 1 .. Len(Append(q, t)) <=> i \in 1 .. Len(q) \/ i = Len(q) + 1
    BY <1>1
  <1> DEFINE a == Append(q, t)
  <1> HIDE DEF a
  <1>3. TasksIn(a) = TasksIn(q) \cup {t}
    BY <1>1, <1>2 DEF TasksIn, a
  <1>4. ASSUME Distinct(q), t \notin TasksIn(q)
        PROVE  Distinct(a)
    <2> SUFFICES ASSUME NEW i \in 1 .. Len(a), NEW j \in 1 .. Len(a), a[i] = a[j]
                 PROVE  i = j
      BY DEF Distinct
    <2> QED
      BY <1>1, <1>2, <1>4 DEF Distinct, TasksIn, a
  <1> QED
    BY <1>3, <1>4 DEF a

LEMMA TasksInTail ==
  ASSUME NEW S, NEW q \in Seq(S), q # << >>
  PROVE  /\ TasksIn(q) = TasksIn(Tail(q)) \cup {Head(q)}
         /\ Distinct(q) => Distinct(Tail(q)) /\ Head(q) \notin TasksIn(Tail(q))
  <1>1. /\ Len(q) \in Nat /\ Len(q) >= 1 /\ Len(Tail(q)) = Len(q) - 1 /\ Head(q) = q[1]
        /\ \A i \in 1 .. Len(Tail(q)) : Tail(q)[i] = q[i + 1]
    BY HeadTailProperties, EmptySeq, LenProperties
  <1> DEFINE r == Tail(q)
  <1> HIDE DEF r
  <1>2. /\ \A i \in 1 .. Len(r) : i + 1 \in 1 .. Len(q) /\ r[i] = q[i + 1] /\ i + 1 # 1
        /\ 1 \in 1 .. Len(q)
        /\ \A i \in 1 .. Len(q) : i # 1 => i - 1 \in 1 .. Len(r) /\ r[i - 1] = q[i]
    BY <1>1 DEF r
  <1>3. TasksIn(q) = TasksIn(r) \cup {Head(q)}
    <2>1. ASSUME NEW x \in TasksIn(q)
          PROVE  x \in TasksIn(r) \cup {Head(q)}
      BY <1>1, <1>2, <2>1 DEF TasksIn
    <2>2. ASSUME NEW x \in TasksIn(r) \cup {Head(q)}
          PROVE  x \in TasksIn(q)
      BY <1>1, <1>2, <2>2 DEF TasksIn
    <2> QED
      BY <2>1, <2>2
  <1>4. ASSUME Distinct(q)
        PROVE  Distinct(r) /\ Head(q) \notin TasksIn(r)
    <2>1. Distinct(r)
      <3> SUFFICES ASSUME NEW i \in 1 .. Len(r), NEW j \in 1 .. Len(r), r[i] = r[j]
                   PROVE  i = j
        BY DEF Distinct
      <3>1. i + 1 = j + 1
        BY <1>2, <1>4 DEF Distinct
      <3> QED
        BY <3>1
    <2>2. Head(q) \notin TasksIn(r)
      BY <1>1, <1>2, <1>4 DEF Distinct, TasksIn
    <2> QED
      BY <2>1, <2>2
  <1> QED
    BY <1>3, <1>4 DEF r

\* The actions of the queue, and what all others leave alone.
QueueSteps ==
  \/ ReadNotify \/ Swap \/ RunTask \/ TaskReturns \/ TasksDone
  \/ \E t \in OtherTasks \cup OwnTasks : Push(t) \/ Announce(t)

NoQueueStep ==
  /\ UNCHANGED queueVars
  /\ pc' # pc => {pc, pc'} \cap {"swap", "tasks", "task"} = {}

LEMMA QueueElsewhere == TypeOK /\ [Next]_vars => QueueSteps \/ NoQueueStep
  <1> SUFFICES ASSUME TypeOK, [Next]_vars, ~ QueueSteps
               PROVE  NoQueueStep
    OBVIOUS
  <1> USE DEF Goto, NoQueueStep
  <1>1. CASE (\E how \in {"read", "line"} : Read(how)) \/ Write
    BY <1>1, ReadEffect, WriteEffect
  <1>2. CASE WriteError \/ RunReadDone \/ RunWriteDone
    BY <1>2 DEF WriteError, RunReadDone, RunWriteDone, Stop
  <1>3. CASE HandleData
    BY <1>3, HandleDataEffect DEF HandleData
  <1>4. CASE HandleEnd \/ HandleRoom \/ HandleError
    BY <1>4 DEF HandleEnd, HandleRoom, HandleError
  <1>5. CASE EnterWait \/ EpollWait \/ DispatchSocket \/ BatchDone
    BY <1>5 DEF EnterWait, EpollWait, DispatchSocket, BatchDone
  <1>6. CASE Peer
    BY <1>6 DEF Peer, PeerSend, PeerFin, PeerReset, PeerAck
  <1>7. CASE UNCHANGED vars
    BY <1>7 DEF vars, connVars, queueVars
  <1>8. CASE WriteKilled
    BY <1>8 DEF WriteKilled, connVars, queueVars
  <1> QED
    BY <1>1, <1>2, <1>3, <1>4, <1>5, <1>6, <1>7, <1>8 DEF Next, Thread, Submit, QueueSteps

LEMMA WakeStep == TypeOK /\ WakeInv /\ [Next]_vars => WakeInv'
  <1> SUFFICES ASSUME TypeOK, WakeInv, [Next]_vars
               PROVE  WakeInv'
    OBVIOUS
  <1> USE DEF WakeInv, Goto, queueVars
  <1>1. CASE NoQueueStep
    BY <1>1 DEF NoQueueStep
  <1>2. CASE ReadNotify \/ TaskReturns \/ TasksDone
    BY <1>2 DEF ReadNotify, TaskReturns, TasksDone
  <1>3. CASE Swap
    BY <1>3 DEF Swap
  <1>4. CASE RunTask
    BY <1>4 DEF RunTask
  <1>5. ASSUME NEW t \in OtherTasks \cup OwnTasks, Push(t) \/ Announce(t)
        PROVE  WakeInv'
    BY <1>5 DEF Push, Announce
  <1> QED
    BY <1>1, <1>2, <1>3, <1>4, <1>5, QueueElsewhere DEF QueueSteps

LEMMA PlaceStep ==
  TypeOK /\ WakeInv /\ EachInOnePlace /\ [Next]_vars => EachInOnePlace'
  <1> SUFFICES ASSUME TypeOK, WakeInv, EachInOnePlace, [Next]_vars
               PROVE  EachInOnePlace'
    OBVIOUS
  <1> USE DEF EachInOnePlace, Goto, queueVars
  <1> DEFINE All == OtherTasks \cup OwnTasks
  <1>0. incoming \in Seq(All) /\ temp \in Seq(All)
    BY DEF TypeOK, QueueTypeOK
  <1>1. CASE NoQueueStep
    BY <1>1 DEF NoQueueStep
  <1>2. CASE ReadNotify \/ TaskReturns \/ TasksDone
    BY <1>2 DEF ReadNotify, TaskReturns, TasksDone
  <1>3. CASE Swap
    <2>1. temp = << >> /\ temp' = incoming /\ incoming' = << >> /\ UNCHANGED <<unsent, ran>>
      BY <1>3 DEF Swap, WakeInv
    <2> QED
      BY <2>1, TasksInEmpty
  <1>4. CASE RunTask
    <2>1. /\ ran' = ran \cup {Head(temp)} /\ temp' = Tail(temp) /\ temp # << >>
          /\ UNCHANGED <<unsent, incoming>>
      BY <1>4 DEF RunTask
    <2>2. /\ TasksIn(temp) = TasksIn(temp') \cup {Head(temp)}
          /\ Distinct(temp') /\ Head(temp) \notin TasksIn(temp')
      BY <1>0, <2>1, TasksInTail
    <2> QED
      BY <2>1, <2>2
  <1>5. ASSUME NEW t \in All, Push(t)
        PROVE  EachInOnePlace'
    <2>1. /\ t \in unsent /\ unsent' = unsent \ {t} /\ incoming' = Append(incoming, t)
          /\ UNCHANGED <<temp, ran>>
      BY <1>5 DEF Push
    <2>2. TasksIn(incoming') = TasksIn(incoming) \cup {t} /\ Distinct(incoming')
      BY <1>0, <2>1, TasksInAppend
    <2> QED
      BY <2>1, <2>2
  <1>6. ASSUME NEW t \in All, Announce(t)
        PROVE  EachInOnePlace'
    BY <1>6 DEF Announce
  <1> QED
    BY <1>1, <1>2, <1>3, <1>4, <1>5, <1>6, QueueElsewhere DEF QueueSteps

LEMMA SpecWake == Spec => [](TypeOK /\ WakeInv)
  <1>1. Init => WakeInv
    BY DEF Init, WakeInv
  <1> QED
    BY <1>1, WakeStep, TypeCorrect, PTL DEF Spec

\* The reactor never sleeps on a task that was submitted: it was pushed before the eventfd
\* was written and is taken after it was read (Reactor.cpp:154 to 186).
THEOREM TasksAwaited == Spec => []NoTaskForgotten
  <1>1. WakeInv => NoTaskForgotten
    BY DEF WakeInv, NoTaskForgotten
  <1> QED
    BY <1>1, SpecWake, PTL

\* No task is lost or kept twice, whatever is submitted while the vector is swapped
\* and its tasks run (Reactor.cpp:202 to 212).
THEOREM TasksKept == Spec => []EachInOnePlace
  <1>1. Init => EachInOnePlace
    BY TasksInEmpty DEF Init, EachInOnePlace
  <1> QED
    BY <1>1, PlaceStep, SpecWake, PTL DEF Spec

\* No task is called twice, which is not visible in the set of those that ran.
THEOREM TasksCalledOnce == Spec => CalledOnce
  <1>1. ASSUME TypeOK, EachInOnePlace, RunTask
        PROVE  Head(temp) \notin ran
    <2>1. temp \in Seq(OtherTasks \cup OwnTasks) /\ temp # << >>
      BY <1>1 DEF TypeOK, QueueTypeOK, RunTask
    <2> QED
      BY <1>1, <2>1, TasksInTail DEF EachInOnePlace
  <1>2. TypeOK /\ EachInOnePlace => [RunTask => Head(temp) \notin ran]_vars
    BY <1>1
  <1> QED
    BY <1>2, TypeCorrect, TasksKept, PTL DEF CalledOnce
=============================================================================
