------------------------------ MODULE Packets -------------------------------
(***************************************************************************)
(* Packet.h: a view of shared bytes.  Sizes are size_t, words that wrap    *)
(* around; the bytes are a sequence that no operation changes.             *)
(***************************************************************************)
EXTENDS Integers, Sequences

CONSTANT WordSize   \* how many values size_t has: 2^64

ASSUME WordAssumption == WordSize \in Nat \ {0}

Word == 0 .. WordSize - 1
Wrap(n) == n % WordSize

EmptyPacket == [data |-> << >>, offset |-> 0, size |-> 0]
FromBytes(s) == [data |-> s, offset |-> 0, size |-> Len(s)]

\* data() and size(): what a reader of the packet sees.
View(p) == SubSeq(p.data, p.offset + 1, p.offset + p.size)

\* A bug to compare with: the length is not cut.
SliceUncut(p, start, length) ==
  IF start >= p.size THEN EmptyPacket
  ELSE [p EXCEPT !.offset = @ + start, !.size = length]

\* start + length is computed in a word, so it can wrap around.
Slice(p, start, length) ==
  IF start >= p.size THEN EmptyPacket
  ELSE [p EXCEPT !.offset = @ + start,
                 !.size = IF Wrap(start + length) > @ THEN @ - start ELSE length]

DropFront(p, n) == Slice(p, n, Wrap(p.size - n))

\* The end of a packet is inside its bytes.
InsideData(p) == p.offset + p.size <= Len(p.data)

\* A bug to compare with: a packet that was sent is not taken off the count.
MeetKeepsSkip(before, p) ==
  IF before.skip >= p.size
  THEN before
  ELSE [skip |-> 0, bytes |-> before.bytes \o View(DropFront(p, before.skip))]

\* A write that has already sent before.skip bytes of what is left meets packet p:
\* p is skipped, or an iovec is made of the part of it that is not sent.
Meet(before, p) ==
  IF before.skip >= p.size
  THEN [before EXCEPT !.skip = @ - p.size]
  ELSE [skip |-> 0, bytes |-> before.bytes \o View(DropFront(p, before.skip))]

\* The bytes in the iovecs of a write that has already sent skip bytes.
Unsent(packets, skip) ==
  LET after[i \in 0 .. Len(packets)] ==
        IF i = 0 THEN [skip |-> skip, bytes |-> << >>] ELSE Meet(after[i - 1], packets[i])
  IN after[Len(packets)].bytes
=============================================================================
