--------------------------- MODULE RingBuffer_proofs ---------------------------
(***************************************************************************)
(* What the operations of the ring buffers of CCiSocket do, for rings of   *)
(* every size: they keep the pointers inside the memory and the amount of  *)
(* content right, and all but a growth that loses the tail of a wrapped    *)
(* ring keep the content.                                                  *)
(***************************************************************************)
EXTENDS RingBuffer, TLAPS

\* A ring never holds as many bytes as it has memory (start = end is empty),
\* and one send can take no more than is there.
LEMMA RingBounds ==
  ASSUME NEW r, RingOK(r)
  PROVE  /\ DataSize(r) \in Nat /\ DataSize(r) < r.size
         /\ Contiguous(r) \in Nat /\ Contiguous(r) <= DataSize(r)
         /\ Remaining(r) \in Nat \ {0}
<1>0. r.size \in Nat \ {0} /\ r.start \in 0..(r.size - 1) /\ r.end \in 0..(r.size - 1)
  BY DEF RingOK
<1>1. CASE Wrapped(r)
  BY <1>0, <1>1 DEF DataSize, Contiguous, Remaining, Wrapped
<1>2. CASE ~Wrapped(r)
  BY <1>0, <1>2 DEF DataSize, Contiguous, Remaining, Wrapped
<1>. QED BY <1>1, <1>2

\* Starting again at the beginning of the memory changes nothing but the
\* pointers of an empty ring.
LEMMA ResetKeeps ==
  ASSUME NEW r, RingOK(r)
  PROVE  /\ RingOK(Reset(r))
         /\ DataSize(Reset(r)) = DataSize(r)
         /\ Remaining(Reset(r)) = Remaining(r)
         /\ Content(Reset(r)) = Content(r)
<1>1. CASE r.start # r.end
  BY <1>1 DEF Reset
<1>2. CASE r.start = r.end
  <2> DEFINE q == [buffer |-> r.buffer, size |-> r.size, start |-> 0, end |-> 0]
  <2>1. Reset(r) = q
    BY <1>2 DEF Reset, RingOK
  <2>2. DataSize(q) = 0 /\ DataSize(r) = 0
    BY <1>2 DEF DataSize, Wrapped, RingOK
  <2>3. Content(q) = Content(r)
    BY <2>2 DEF Content
  <2>. QED
    BY <2>1, <2>2, <2>3 DEF RingOK, Remaining
<1>. QED
  BY <1>1, <1>2

\* realloc and memmove leave a ring with the same amount of content.
LEMMA GrowKeepsSize ==
  ASSUME NEW r, RingOK(r), NEW need \in Nat \ {0}
  PROVE  LET g == Grow(r, need)
         IN  /\ RingOK(g)
             /\ DataSize(g) = DataSize(r)
             /\ Remaining(g) = Remaining(r) + need
<1> DEFINE g == Grow(r, need)
<1>1. r.size \in Nat \ {0} /\ r.start \in 0..(r.size - 1) /\ r.end \in 0..(r.size - 1)
  BY DEF RingOK
<1>2. /\ g.buffer = GrownMemory(r, need) /\ g.size = r.size + need /\ g.end = r.end
      /\ g.start = IF Wrapped(r) THEN r.start + need ELSE r.start
      /\ g = [buffer |-> g.buffer, size |-> g.size, start |-> g.start, end |-> g.end]
  BY DEF Grow
<1>3. \A p \in Nat : OldByte(r, p) \in Nat
  BY <1>1 DEF RingOK, OldByte, Unset
<1>4. \A p \in Nat : Moved(r, need, p) => p - need \in Nat
  BY <1>1 DEF Moved
<1>5. GrownMemory(r, need) \in [0..(r.size + need - 1) -> Nat]
  <2>1. \A p \in 0..(r.size + need - 1) :
          (IF Moved(r, need, p) THEN OldByte(r, p - need) ELSE OldByte(r, p)) \in Nat
    BY <1>1, <1>3, <1>4
  <2>. QED
    BY <2>1 DEF GrownMemory
<1> HIDE DEF g
<1>6. g.size \in Nat \ {0} /\ g.start \in 0..(g.size - 1) /\ g.end \in 0..(g.size - 1)
  BY <1>1, <1>2
<1>7. RingOK(g)
  BY <1>2, <1>5, <1>6 DEF RingOK
<1>8. DataSize(g) = DataSize(r)
  BY <1>1, <1>2 DEF DataSize, Wrapped
<1>9. Remaining(g) = Remaining(r) + need
  BY <1>1, <1>2, <1>8 DEF Remaining, DataSize, Wrapped
<1>. QED
  BY <1>7, <1>8, <1>9 DEF g

\* Prepare*Buffer makes room for the message and for the byte that stays
\* free, and keeps the amount of content.
LEMMA PrepareMakesRoom ==
  ASSUME NEW r, RingOK(r), NEW n \in Nat
  PROVE  /\ RingOK(Prepare(r, n))
         /\ DataSize(Prepare(r, n)) = DataSize(r)
         /\ n < Remaining(Prepare(r, n))
<1>1. CASE n < Remaining(r)
  BY <1>1 DEF Prepare
<1>2. CASE ~(n < Remaining(r))
  <2>1. Remaining(r) \in Nat /\ n - Remaining(r) + 1 \in Nat \ {0}
    BY <1>2, RingBounds
  <2>2. Prepare(r, n) = Grow(r, n - Remaining(r) + 1)
    BY <1>2 DEF Prepare
  <2> DEFINE need == n - Remaining(r) + 1
  <2>3. /\ RingOK(Grow(r, need)) /\ DataSize(Grow(r, need)) = DataSize(r)
        /\ Remaining(Grow(r, need)) = Remaining(r) + need
    <3> HIDE DEF need
    <3>. QED
      BY <2>1, GrowKeepsSize DEF need
  <2>4. n < Remaining(r) + need
    BY <2>1
  <2>. QED
    BY <2>2, <2>3, <2>4
<1>. QED
  BY <1>1, <1>2

\* Taking n bytes out.
LEMMA TakeTakes ==
  ASSUME NEW r, RingOK(r), NEW n \in Nat, n <= DataSize(r)
  PROVE  /\ RingOK(Take(r, n))
         /\ DataSize(Take(r, n)) = DataSize(r) - n
<1> DEFINE t == Take(r, n)
<1>1. /\ r.size \in Nat \ {0} /\ r.start \in 0..(r.size - 1) /\ r.end \in 0..(r.size - 1)
      /\ r.buffer \in [0..(r.size - 1) -> Nat]
  BY DEF RingOK
<1>2. t = [buffer |-> r.buffer, size |-> r.size, start |-> Advance(r, r.start, n), end |-> r.end]
  BY DEF Take, RingOK
<1>3. t.buffer = r.buffer /\ t.size = r.size /\ t.start = Advance(r, r.start, n) /\ t.end = r.end
  BY <1>2
<1> HIDE DEF t
<1>4. t.start \in 0..(r.size - 1)
  <2>1. n < r.size
    BY RingBounds, <1>1
  <2>2. CASE r.start + n < r.size
    <3>1. t.start = r.start + n
      BY <1>3, <2>2 DEF Advance
    <3>. QED
      BY <1>1, <2>2, <3>1
  <2>3. CASE ~(r.start + n < r.size)
    <3>1. t.start = r.start + n - r.size
      BY <1>3, <2>3 DEF Advance
    <3>. QED
      BY <1>1, <2>1, <2>3, <3>1
  <2>. QED
    BY <2>2, <2>3
<1>5. RingOK(t)
  BY <1>1, <1>2, <1>3, <1>4 DEF RingOK
<1>6. DataSize(t) = DataSize(r) - n
  <2>1. CASE Wrapped(r)
    <3>1. n <= r.size - (r.start - r.end) /\ r.end < r.start
      BY <2>1 DEF DataSize, Wrapped
    <3>2. CASE r.start + n < r.size
      <4>1. t.start = r.start + n
        BY <1>3, <3>2 DEF Advance
      <4>. QED
        BY <1>1, <1>3, <2>1, <3>1, <4>1 DEF DataSize, Wrapped
    <3>3. CASE ~(r.start + n < r.size)
      <4>1. t.start = r.start + n - r.size
        BY <1>3, <3>3 DEF Advance
      <4>. QED
        BY <1>1, <1>3, <2>1, <3>1, <4>1 DEF DataSize, Wrapped
    <3>. QED
      BY <3>2, <3>3
  <2>2. CASE ~Wrapped(r)
    <3>1. n <= r.end - r.start
      BY <2>2 DEF DataSize
    <3>2. t.start = r.start + n
      BY <1>1, <1>3, <3>1 DEF Advance
    <3>. QED
      BY <1>1, <1>3, <2>2, <3>1, <3>2 DEF DataSize, Wrapped
  <2>. QED
    BY <2>1, <2>2
<1>. QED
  BY <1>5, <1>6 DEF t

\* Moving the end pointer over n free bytes.
LEMMA EndAdvances ==
  ASSUME NEW r, RingOK(r), NEW n \in Nat, n < Remaining(r),
         NEW t, t.size = r.size, t.start = r.start, t.end = Advance(r, r.end, n)
  PROVE  /\ t.end \in 0..(r.size - 1)
         /\ DataSize(t) = DataSize(r) + n
<1>1. r.size \in Nat \ {0} /\ r.start \in 0..(r.size - 1) /\ r.end \in 0..(r.size - 1)
  BY DEF RingOK
<1>2. CASE Wrapped(r)
  <2>1. r.end + n < r.start
    BY <1>1, <1>2 DEF Remaining, DataSize, Wrapped
  <2>. QED
    BY <1>1, <1>2, <2>1 DEF DataSize, Wrapped, Advance
<1>3. CASE ~Wrapped(r)
  <2>1. n < r.size - (r.end - r.start)
    BY <1>1, <1>3 DEF Remaining, DataSize, Wrapped
  <2>. QED
    BY <1>1, <1>3, <2>1 DEF DataSize, Wrapped, Advance
<1>. QED
  BY <1>2, <1>3

\* Appending bytes for which there is room.
LEMMA PutPuts ==
  ASSUME NEW r, RingOK(r), NEW bytes \in Seq(Nat), Len(bytes) < Remaining(r)
  PROVE  /\ RingOK(Put(r, bytes))
         /\ DataSize(Put(r, bytes)) = DataSize(r) + Len(bytes)
<1> DEFINE t == Put(r, bytes)
<1>1. /\ r.size \in Nat \ {0} /\ r.start \in 0..(r.size - 1)
      /\ r.buffer \in [0..(r.size - 1) -> Nat]
  BY DEF RingOK
<1>2. /\ t.buffer = PutMemory(r, bytes) /\ t.size = r.size /\ t.start = r.start
      /\ t.end = Advance(r, r.end, Len(bytes))
      /\ t = [buffer |-> t.buffer, size |-> t.size, start |-> t.start, end |-> t.end]
  BY DEF Put
<1>3. PutMemory(r, bytes) \in [0..(r.size - 1) -> Nat]
  BY <1>1 DEF PutMemory
<1> HIDE DEF t
<1>4. Len(bytes) \in Nat
  OBVIOUS
<1>5. t.end \in 0..(r.size - 1) /\ DataSize(t) = DataSize(r) + Len(bytes)
  BY <1>2, <1>4, EndAdvances
<1>6. RingOK(t)
  BY <1>1, <1>2, <1>3, <1>5 DEF RingOK
<1>. QED
  BY <1>5, <1>6 DEF t

\* The pointers of a ring, without its memory.
LEMMA Pointers ==
  ASSUME NEW r, RingOK(r)
  PROVE  /\ r.size \in Nat \ {0} /\ r.start \in 0..(r.size - 1) /\ r.end \in 0..(r.size - 1)
         /\ r.buffer \in [0..(r.size - 1) -> Nat]
BY DEF RingOK

\* Places of a memory of `size' bytes: less than `size' bytes further is another
\* one, and moving twice is moving once by the sum.
LEMMA AdvanceRange ==
  ASSUME NEW r, NEW size \in Nat \ {0}, r.size = size,
         NEW p \in 0..(size - 1), NEW k \in 0..(size - 1)
  PROVE  Advance(r, p, k) \in 0..(size - 1)
<1>1. CASE p + k < size
  BY <1>1 DEF Advance
<1>2. CASE ~(p + k < size)
  BY <1>2 DEF Advance
<1>. QED
  BY <1>1, <1>2

LEMMA AdvanceTwice ==
  ASSUME NEW r, NEW t, NEW size \in Nat \ {0}, r.size = size, t.size = size,
         NEW p \in 0..(size - 1), NEW j \in Nat, NEW k \in Nat, j + k < size
  PROVE  Advance(t, Advance(r, p, j), k) = Advance(r, p, j + k)
<1>1. CASE p + j < size
  <2>1. Advance(r, p, j) = p + j
    BY <1>1 DEF Advance
  <2>. QED
    BY <2>1 DEF Advance
<1>2. CASE ~(p + j < size)
  <2>1. Advance(r, p, j) = p + j - size
    BY <1>2 DEF Advance
  <2>2. Advance(t, p + j - size, k) = p + j - size + k
    BY DEF Advance
  <2>3. Advance(r, p, j + k) = p + (j + k) - size
    BY <1>2 DEF Advance
  <2>. QED
    BY <2>1, <2>2, <2>3
<1>. QED
  BY <1>1, <1>2

\* The first n bytes leave, the others follow in the same order.
LEMMA TakeContent ==
  ASSUME NEW r, RingOK(r), NEW n \in Nat, n <= DataSize(r)
  PROVE  \A i \in 1..(DataSize(r) - n) : Content(Take(r, n))[i] = Content(r)[n + i]
<1> DEFINE t == Take(r, n)
<1>1. /\ t.buffer = r.buffer /\ t.size = r.size /\ t.start = Advance(r, r.start, n)
      /\ t.end = r.end
  BY DEF Take, RingOK
<1>2. DataSize(t) = DataSize(r) - n /\ DataSize(r) \in Nat
  BY TakeTakes, RingBounds
<1> HIDE DEF t
<1> SUFFICES ASSUME NEW i \in 1..(DataSize(r) - n)
             PROVE  Content(t)[i] = Content(r)[n + i]
  BY DEF t
<1>3. i \in 1..DataSize(t) /\ n + i \in 1..DataSize(r)
  BY <1>2
<1>4. Advance(t, t.start, i - 1) = Advance(r, r.start, n + i - 1)
  <2>1. /\ DataSize(r) < r.size
        /\ r.size \in Nat \ {0} /\ r.start \in 0..(r.size - 1)
    BY RingBounds, Pointers
  <2>2. i - 1 \in Nat /\ n + (i - 1) < r.size /\ n + (i - 1) = n + i - 1
    BY <1>2, <1>3, <2>1
  <2>3. Advance(t, Advance(r, r.start, n), i - 1) = Advance(r, r.start, n + (i - 1))
    BY <1>1, <2>1, <2>2, AdvanceTwice
  <2>. QED
    BY <1>1, <2>2, <2>3
<1>. QED
  BY <1>1, <1>3, <1>4 DEF Content

\* With n free bytes the content lies outside the n places behind the end
\* pointer, and the i-th of these is the one i - 1 bytes behind the content.
LEMMA Places ==
  ASSUME NEW r, RingOK(r), NEW n \in Nat, n < Remaining(r)
  PROVE  /\ \A i \in 1..DataSize(r) :
              LET p == Advance(r, r.start, i - 1)
              IN  p \in 0..(r.size - 1) /\ PlaceAfterEnd(r, p) \notin 1..n
         /\ \A i \in 1..n :
              LET p == Advance(r, r.start, DataSize(r) + i - 1)
              IN  p \in 0..(r.size - 1) /\ PlaceAfterEnd(r, p) = i
<1>1. r.size \in Nat \ {0} /\ r.start \in 0..(r.size - 1) /\ r.end \in 0..(r.size - 1)
  BY DEF RingOK
<1>2. CASE Wrapped(r)
  <2>1. DataSize(r) = r.size - r.start + r.end /\ r.end < r.start
    BY <1>1, <1>2 DEF DataSize, Wrapped
  <2>2. r.end + n < r.start
    BY <1>1, <2>1 DEF Remaining
  <2>. QED
    BY <1>1, <2>1, <2>2 DEF Advance, PlaceAfterEnd
<1>3. CASE ~Wrapped(r)
  <2>1. DataSize(r) = r.end - r.start /\ r.start <= r.end
    BY <1>1, <1>3 DEF DataSize, Wrapped
  <2>2. n < r.size - r.end + r.start
    BY <1>1, <2>1 DEF Remaining
  <2>. QED
    BY <1>1, <2>1, <2>2 DEF Advance, PlaceAfterEnd
<1>. QED
  BY <1>2, <1>3

\* The bytes appended lie behind the content, which stays as it is.
LEMMA PutContent ==
  ASSUME NEW r, RingOK(r), NEW bytes \in Seq(Nat), Len(bytes) < Remaining(r)
  PROVE  /\ \A i \in 1..DataSize(r) : Content(Put(r, bytes))[i] = Content(r)[i]
         /\ \A i \in 1..Len(bytes) : Content(Put(r, bytes))[DataSize(r) + i] = bytes[i]
<1> DEFINE t == Put(r, bytes)
<1>1. /\ t.buffer = PutMemory(r, bytes) /\ t.size = r.size /\ t.start = r.start
  BY DEF Put
<1>2. /\ DataSize(t) = DataSize(r) + Len(bytes) /\ DataSize(r) \in Nat
      /\ Len(bytes) \in Nat /\ DataSize(r) + Len(bytes) < r.size
  BY PutPuts, RingBounds, Pointers DEF Remaining
<1> HIDE DEF t
<1>3. ASSUME NEW i \in 1..DataSize(r)
      PROVE  Content(t)[i] = Content(r)[i]
  <2> DEFINE p == Advance(r, r.start, i - 1)
  <2>1. p \in 0..(r.size - 1) /\ PlaceAfterEnd(r, p) \notin 1..Len(bytes)
    BY <1>2, Places
  <2>3. t.buffer[p] = r.buffer[p]
    BY <1>1, <2>1 DEF PutMemory
  <2>4. Advance(t, t.start, i - 1) = p
    BY <1>1 DEF Advance
  <2>5. i \in 1..DataSize(t)
    BY <1>2
  <2>6. Content(t)[i] = t.buffer[p] /\ Content(r)[i] = r.buffer[p]
    BY <2>4, <2>5 DEF Content
  <2>. QED
    BY <2>3, <2>6
<1>4. ASSUME NEW i \in 1..Len(bytes)
      PROVE  Content(t)[DataSize(r) + i] = bytes[i]
  <2> DEFINE p == Advance(r, r.start, DataSize(r) + i - 1)
  <2>1. p \in 0..(r.size - 1) /\ PlaceAfterEnd(r, p) = i
    BY <1>2, Places
  <2>3. t.buffer[p] = bytes[i]
    BY <1>1, <2>1 DEF PutMemory
  <2>4. Advance(t, t.start, DataSize(r) + i - 1) = p
    BY <1>1 DEF Advance
  <2> HIDE DEF p
  <2>5. DataSize(r) + i \in 1..DataSize(t) /\ (DataSize(r) + i) - 1 = DataSize(r) + i - 1
    BY <1>2
  <2>6. Content(t)[DataSize(r) + i] = t.buffer[Advance(t, t.start, DataSize(r) + i - 1)]
    BY <2>5 DEF Content
  <2>. QED
    BY <2>3, <2>4, <2>6
<1>. QED
  BY <1>3, <1>4 DEF t

\* A growth that moves at least the tail of a wrapped ring keeps the content.
LEMMA PrepareContent ==
  ASSUME NEW r, RingOK(r), NEW n \in Nat, ~LosesTail(r, n)
  PROVE  Content(Prepare(r, n)) = Content(r)
<1>1. CASE n < Remaining(r)
  BY <1>1 DEF Prepare
<1>2. CASE ~(n < Remaining(r))
  <2> DEFINE need == n - Remaining(r) + 1
             g == Grow(r, need)
  <2>1. need \in Nat \ {0} /\ Remaining(r) \in Nat \ {0} /\ DataSize(r) \in Nat
        /\ DataSize(r) < r.size
    BY <1>2, RingBounds
  <2>2. Prepare(r, n) = g
    BY <1>2 DEF Prepare
  <2>3. Wrapped(r) => r.size - r.start <= need
    BY <1>2, <2>1, Pointers DEF LosesTail
  <2> HIDE DEF need
  <2>4. DataSize(g) = DataSize(r)
    BY <2>1, GrowKeepsSize
  <2>5. /\ g.buffer = GrownMemory(r, need) /\ g.size = r.size + need
        /\ g.start = IF Wrapped(r) THEN r.start + need ELSE r.start
    BY DEF Grow
  <2> HIDE DEF g
  <2>6. ASSUME NEW i \in 1..DataSize(r)
        PROVE  g.buffer[Advance(g, g.start, i - 1)] = r.buffer[Advance(r, r.start, i - 1)]
    <3> DEFINE p == Advance(r, r.start, i - 1)
               q == Advance(g, g.start, i - 1)
    <3>0. /\ r.size \in Nat \ {0} /\ r.start \in 0..(r.size - 1) /\ r.end \in 0..(r.size - 1)
          /\ i \in Nat \ {0} /\ i - 1 \in 0..(r.size - 1) /\ need \in Nat \ {0}
      BY <2>1, Pointers
    <3>1. p \in 0..(r.size - 1)
      BY <3>0, AdvanceRange
    <3>2. CASE Wrapped(r) /\ r.start + (i - 1) < r.size
      <4>0. g.start = r.start + need /\ g.size = r.size + need
        BY <2>5, <3>2
      <4>1. p = r.start + (i - 1) /\ q = r.start + need + (i - 1)
        <5>1. p = r.start + (i - 1)
          BY <3>2 DEF Advance
        <5>2. r.start + need + (i - 1) < r.size + need
          BY <3>0, <3>2
        <5>. QED
          BY <4>0, <5>1, <5>2 DEF Advance
      <4> HIDE DEF p, q
      <4>2. q = p + need /\ r.start <= p /\ p < r.size
        BY <3>0, <3>2, <4>1
      <4>3. q \in 0..(r.size + need - 1) /\ q - need = p
        BY <3>0, <3>1, <4>2
      <4>4. Moved(r, need, q)
        <5>1. r.size - r.start <= need
          BY <2>3, <3>2
        <5>2. q >= r.start + need /\ q <= r.start + 2 * need - 1
          BY <3>0, <3>1, <4>2, <5>1
        <5>. QED
          BY <3>0, <3>2, <4>3, <5>2 DEF Moved
      <4>5. GrownMemory(r, need)[q] = OldByte(r, p)
        BY <4>3, <4>4 DEF GrownMemory
      <4>6. OldByte(r, p) = r.buffer[p]
        BY <4>2 DEF OldByte
      <4>. QED
        BY <2>5, <4>5, <4>6 DEF p, q
    <3>3. CASE ~(Wrapped(r) /\ r.start + (i - 1) < r.size)
      <4>1. q = p /\ ~Moved(r, need, q)
        <5>1. CASE Wrapped(r)
          <6>1. r.size <= r.start + (i - 1)
            BY <3>0, <3>3, <5>1
          <6>2. r.end < r.start /\ i <= r.size - (r.start - r.end)
            BY <5>1 DEF DataSize, Wrapped
          <6>3. p = r.start + (i - 1) - r.size
            BY <3>0, <6>1 DEF Advance
          <6>4. g.start = r.start + need /\ g.size = r.size + need
            BY <2>5, <5>1
          <6>5. q = p
            <7>1. ~(r.start + need + (i - 1) < r.size + need)
              BY <3>0, <6>1
            <7>2. q = r.start + need + (i - 1) - (r.size + need)
              BY <6>4, <7>1 DEF Advance
            <7>. QED
              BY <3>0, <6>3, <7>2
          <6> HIDE DEF p, q
          <6>6. p < r.start
            BY <3>0, <6>2, <6>3
          <6>7. q < r.start + need /\ q \in Int
            BY <3>0, <3>1, <6>5, <6>6
          <6>8. q \notin (r.start + need)..(r.start + 2 * need - 1)
            BY <3>0, <6>7
          <6>. QED
            BY <6>5, <6>8 DEF Moved
        <5>2. CASE ~Wrapped(r)
          <6>1. g.start = r.start /\ g.size = r.size + need
            BY <2>5, <5>2
          <6>2. i <= r.end - r.start
            BY <5>2 DEF DataSize
          <6>3. r.start + (i - 1) < r.size /\ r.start + (i - 1) < r.size + need
            BY <3>0, <6>2
          <6>4. p = r.start + (i - 1)
            BY <6>3 DEF Advance
          <6>5. q = r.start + (i - 1)
            BY <6>1, <6>3 DEF Advance
          <6>6. ~Moved(r, need, q)
            BY <5>2 DEF Moved
          <6>. QED
            BY <6>4, <6>5, <6>6
        <5>. QED
          BY <5>1, <5>2
      <4> HIDE DEF p, q
      <4>2. q \in 0..(r.size + need - 1) /\ p < r.size
        BY <3>0, <3>1, <4>1
      <4>3. GrownMemory(r, need)[q] = OldByte(r, p)
        BY <4>1, <4>2 DEF GrownMemory
      <4>4. OldByte(r, p) = r.buffer[p]
        BY <4>2 DEF OldByte
      <4>. QED
        BY <2>5, <4>3, <4>4 DEF p, q
    <3>. QED
      BY <3>2, <3>3
  <2>. QED
    BY <2>2, <2>4, <2>6 DEF Content
<1>. QED
  BY <1>1, <1>2, RingBounds

\* The content as a sequence.
LEMMA ContentIsSeq ==
  ASSUME NEW r, RingOK(r)
  PROVE  Content(r) \in Seq(Nat) /\ Len(Content(r)) = DataSize(r)
<1>1. DataSize(r) \in Nat /\ DataSize(r) < r.size
  BY RingBounds
<1>2. ASSUME NEW i \in 1..DataSize(r)
      PROVE  Advance(r, r.start, i - 1) \in 0..(r.size - 1)
  <2>1. /\ r.size \in Nat \ {0} /\ r.start \in 0..(r.size - 1)
        /\ i - 1 \in 0..(r.size - 1)
    BY <1>1, Pointers
  <2>. QED
    BY <2>1, AdvanceRange
<1>3. \A i \in 1..DataSize(r) : r.buffer[Advance(r, r.start, i - 1)] \in Nat
  BY <1>2, Pointers
<1>. QED
  BY <1>1, <1>3 DEF Content

\* A sequence of bytes is 1, 2, 3, ...; the content goes on behind byte m.
InSequence(w) == \A i \in 1..Len(w) : w[i] = i
GoesOn(r, m) == \A i \in 1..DataSize(r) : Content(r)[i] = m + i

\* n bytes of a stream that go past the buffer to the end of a sequence.
LEMMA AppendBytes ==
  ASSUME NEW w \in Seq(Nat), NEW a \in Nat, NEW n \in Nat
  PROVE  /\ w \o Bytes(a, n) \in Seq(Nat)
         /\ Len(w \o Bytes(a, n)) = Len(w) + n
         /\ a = Len(w) /\ InSequence(w) => InSequence(w \o Bytes(a, n))
<1> DEFINE b == Bytes(a, n)
<1>1. b \in Seq(Nat) /\ Len(b) = n /\ \A i \in 1..n : b[i] = a + i
  BY DEF Bytes
<1> HIDE DEF b
<1>2. w \o b \in Seq(Nat) /\ Len(w \o b) = Len(w) + n
  BY <1>1
<1>3. ASSUME a = Len(w), InSequence(w), NEW i \in 1..Len(w \o b)
      PROVE  (w \o b)[i] = i
  BY <1>1, <1>3 DEF InSequence
<1>. QED
  BY <1>2, <1>3 DEF InSequence, b

\* The first k bytes of the content go to a sequence that the content goes on.
LEMMA FirstLeaves ==
  ASSUME NEW r, RingOK(r), NEW w \in Seq(Nat), NEW k \in Nat, k <= DataSize(r)
  PROVE  /\ w \o First(r, k) \in Seq(Nat)
         /\ Len(w \o First(r, k)) = Len(w) + k
         /\ InSequence(w) /\ GoesOn(r, Len(w)) =>
              InSequence(w \o First(r, k)) /\ GoesOn(Take(r, k), Len(w) + k)
<1>1. /\ Content(r) \in Seq(Nat) /\ Len(Content(r)) = DataSize(r)
      /\ DataSize(r) \in Nat
  BY ContentIsSeq, RingBounds
<1>2. /\ First(r, k) \in Seq(Nat) /\ Len(First(r, k)) = k
      /\ \A i \in 1..k : First(r, k)[i] = Content(r)[i]
  BY <1>1 DEF First
<1>3. ASSUME InSequence(w), GoesOn(r, Len(w))
      PROVE  InSequence(w \o First(r, k))
  <2>1. \A i \in 1..k : First(r, k)[i] = Len(w) + i
    BY <1>1, <1>2, <1>3 DEF GoesOn
  <2>. QED
    BY <1>2, <1>3, <2>1 DEF InSequence
<1>4. GoesOn(r, Len(w)) => GoesOn(Take(r, k), Len(w) + k)
  <2> SUFFICES ASSUME GoesOn(r, Len(w)), NEW i \in 1..DataSize(Take(r, k))
               PROVE  Content(Take(r, k))[i] = Len(w) + k + i
    BY DEF GoesOn
  <2>1. DataSize(Take(r, k)) = DataSize(r) - k
    BY TakeTakes
  <2>2. k + i \in 1..DataSize(r) /\ i \in 1..(DataSize(r) - k)
    BY <1>1, <2>1
  <2>3. Content(Take(r, k))[i] = Content(r)[k + i]
    BY <2>2, TakeContent
  <2>4. Content(r)[k + i] = Len(w) + (k + i)
    BY <2>2 DEF GoesOn
  <2>5. Len(w) \in Nat /\ i \in Int
    BY <2>2
  <2>6. Len(w) + (k + i) = Len(w) + k + i
    BY <2>5
  <2>. QED
    BY <2>3, <2>4, <2>6
<1>5. w \o First(r, k) \in Seq(Nat) /\ Len(w \o First(r, k)) = Len(w) + k
  <2>1. ASSUME NEW u \in Seq(Nat)
        PROVE  w \o u \in Seq(Nat) /\ Len(w \o u) = Len(w) + Len(u)
    OBVIOUS
  <2>2. First(r, k) \in Seq(Nat) /\ Len(First(r, k)) = k
    BY <1>2
  <2>. QED
    BY <2>1, <2>2
<1>. QED
  BY <1>3, <1>4, <1>5

\* Bytes of the stream appended behind the content go on with it.
LEMMA BytesFollow ==
  ASSUME NEW r, RingOK(r), NEW a \in Nat, NEW n \in Nat, n < Remaining(r)
  PROVE  LET q == Put(r, Bytes(a, n))
         IN  /\ RingOK(q)
             /\ DataSize(q) = DataSize(r) + n
             /\ \A m \in Nat : GoesOn(r, m) /\ m + DataSize(r) = a => GoesOn(q, m)
<1> DEFINE b == Bytes(a, n)
           q == Put(r, b)
<1>1. b \in Seq(Nat) /\ Len(b) = n /\ \A i \in 1..n : b[i] = a + i
  BY DEF Bytes
<1> HIDE DEF b
<1>2. RingOK(q) /\ DataSize(q) = DataSize(r) + n
  BY <1>1, PutPuts
<1>3. /\ \A i \in 1..DataSize(r) : Content(q)[i] = Content(r)[i]
      /\ \A i \in 1..n : Content(q)[DataSize(r) + i] = b[i]
  BY <1>1, PutContent
<1> HIDE DEF q
<1>4. ASSUME NEW m \in Nat, GoesOn(r, m), m + DataSize(r) = a
      PROVE  GoesOn(q, m)
  <2>1. DataSize(r) \in Nat
    BY RingBounds
  <2>2. \A i \in 1..DataSize(r) : Content(q)[i] = m + i
    BY <1>3, <1>4 DEF GoesOn
  <2>3. \A i \in 1..n : Content(q)[DataSize(r) + i] = a + i
    BY <1>1, <1>3
  <2>4. ASSUME NEW i \in (DataSize(r) + 1)..(DataSize(r) + n)
        PROVE  Content(q)[i] = m + i
    <3>1. i - DataSize(r) \in 1..n /\ DataSize(r) + (i - DataSize(r)) = i
          /\ a + (i - DataSize(r)) = m + i
      BY <1>4, <2>1
    <3>. QED
      BY <2>3, <3>1
  <2>. QED
    BY <1>2, <2>1, <2>2, <2>4 DEF GoesOn
<1>5. \A m \in Nat : GoesOn(r, m) /\ m + DataSize(r) = a => GoesOn(q, m)
  BY <1>4
<1>. QED
  BY <1>2, <1>5 DEF b, q
=============================================================================
