------------------------------ MODULE RingBuffer ------------------------------
(***************************************************************************)
(* The ring buffers of CiUtils' CCiSocket: a block of memory of `size'     *)
(* bytes whose content lies between the start and the end pointer, going   *)
(* around the end of the memory when end < start ("wrapped").  start = end *)
(* means empty, so a ring never holds more than size - 1 bytes.  The ring  *)
(* for sending and the one for receiving work alike; Prepare*Buffer makes  *)
(* either of them larger.                                                  *)
(***************************************************************************)
EXTENDS Integers, Sequences

Unset == 0     \* a byte of memory that nobody wrote

EmptyRing(size) == [buffer |-> [p \in 0..(size - 1) |-> Unset], size |-> size,
                    start |-> 0, end |-> 0]

Wrapped(r) == r.end < r.start

DataSize(r) == IF Wrapped(r) THEN r.size - (r.start - r.end) ELSE r.end - r.start

Remaining(r) == r.size - DataSize(r)

\* The position k bytes after p.
Advance(r, p, k) == IF p + k < r.size THEN p + k ELSE p + k - r.size

Content(r) == [i \in 1..DataSize(r) |-> r.buffer[Advance(r, r.start, i - 1)]]

\* The first k bytes of the content; the bytes number from + 1 to from + n of
\* a stream.
First(r, k) == SubSeq(Content(r), 1, k)
Bytes(from, n) == [i \in 1..n |-> from + i]

\* What lies between the start pointer and the first of the end pointer and
\* the end of the memory: what one call of send can take.
Contiguous(r) == IF Wrapped(r) THEN r.size - r.start ELSE r.end - r.start

\* An empty ring starts again at the beginning of the memory.
Reset(r) == IF r.start = r.end THEN [r EXCEPT !.start = 0, !.end = 0] ELSE r

\* Remove n bytes, append bytes.
Take(r, n) == [r EXCEPT !.start = Advance(r, r.start, n)]

PlaceAfterEnd(r, p) == IF p >= r.end THEN p - r.end + 1 ELSE p + r.size - r.end + 1

PutMemory(r, bytes) ==
  [p \in 0..(r.size - 1) |-> IF PlaceAfterEnd(r, p) \in 1..Len(bytes)
                             THEN bytes[PlaceAfterEnd(r, p)] ELSE r.buffer[p]]

Put(r, bytes) == [buffer |-> PutMemory(r, bytes), size |-> r.size,
                  start |-> r.start, end |-> Advance(r, r.end, Len(bytes))]

\* realloc, and the memmove of a wrapped ring: the `need' bytes at the start
\* pointer, whatever the number of bytes between it and the end of the old
\* memory, move up by `need'.
OldByte(r, p) == IF p < r.size THEN r.buffer[p] ELSE Unset

Moved(r, need, p) ==
  Wrapped(r) /\ p \in (r.start + need)..(r.start + 2 * need - 1)

GrownMemory(r, need) ==
  [p \in 0..(r.size + need - 1) |->
     IF Moved(r, need, p) THEN OldByte(r, p - need) ELSE OldByte(r, p)]

Grow(r, need) ==
  [buffer |-> GrownMemory(r, need),
   size |-> r.size + need,
   start |-> IF Wrapped(r) THEN r.start + need ELSE r.start,
   end |-> r.end]

\* Prepare*Buffer: room for n bytes and for the byte that stays free.
Prepare(r, n) == IF n < Remaining(r) THEN r ELSE Grow(r, n - Remaining(r) + 1)

\* The growth moves fewer bytes than lie at the end of the old memory.
LosesTail(r, n) ==
  /\ n >= Remaining(r) /\ Wrapped(r)
  /\ n - Remaining(r) + 1 < r.size - r.start

RingOK(r) ==
  /\ r.size \in Nat \ {0}
  /\ r.start \in 0..(r.size - 1)
  /\ r.end \in 0..(r.size - 1)
  /\ r.buffer \in [0..(r.size - 1) -> Nat]
  /\ r = [buffer |-> r.buffer, size |-> r.size, start |-> r.start, end |-> r.end]
=============================================================================
