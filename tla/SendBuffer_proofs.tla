--------------------------- MODULE SendBuffer_proofs ---------------------------
(***************************************************************************)
(* The sending buffer of CCiSocket, for every initial size, message length *)
(* and amount of data: nothing is lost or repeated, and the order is kept  *)
(* but for the two exceptions that InOrder names.                          *)
(***************************************************************************)
EXTENDS SendBuffer, RingBuffer_proofs

SendInv == TypeOK /\ NothingLost /\ InOrder

\* Keeping n bytes of a message in the buffer.
LEMMA KeepBytes ==
  ASSUME NEW r, RingOK(r), NEW a \in Nat, NEW n \in Nat
  PROVE  LET q == WriteNToBuffer(r, Bytes(a, n))
         IN  /\ RingOK(q)
             /\ DataSize(q) = DataSize(r) + n
             /\ \A m \in Nat : ~LosesTail(r, n) /\ GoesOn(r, m) /\ m + DataSize(r) = a
                               => GoesOn(q, m)
<1> DEFINE p == Reset(Prepare(r, n))
           q == WriteNToBuffer(r, Bytes(a, n))
<1>1. RingOK(p) /\ DataSize(p) = DataSize(r) /\ n < Remaining(p)
  BY PrepareMakesRoom, ResetKeeps
<1>2. q = Put(p, Bytes(a, n))
  <2>1. Len(Bytes(a, n)) = n
    BY DEF Bytes
  <2>. QED
    BY <2>1 DEF WriteNToBuffer
<1>3. ~LosesTail(r, n) => Content(p) = Content(r)
  BY PrepareMakesRoom, PrepareContent, ResetKeeps
<1> HIDE DEF p, q
<1>4. RingOK(q) /\ DataSize(q) = DataSize(r) + n
  BY <1>1, <1>2, BytesFollow
<1>5. ASSUME NEW m \in Nat, ~LosesTail(r, n), GoesOn(r, m), m + DataSize(r) = a
      PROVE  GoesOn(q, m)
  <2>1. GoesOn(p, m)
    BY <1>1, <1>3, <1>5 DEF GoesOn
  <2>. QED
    BY <1>1, <1>2, <1>5, <2>1, BytesFollow
<1>6. \A m \in Nat : ~LosesTail(r, n) /\ GoesOn(r, m) /\ m + DataSize(r) = a => GoesOn(q, m)
  BY <1>5
<1>. QED
  BY <1>4, <1>6 DEF q

\* The ring, the wire and the amount of bytes after Init.
LEMMA InitSendInv == Init => SendInv
<1> SUFFICES ASSUME Init PROVE SendInv
  OBVIOUS
<1>1. RingOK(ring) /\ DataSize(ring) = 0
  BY SendConstants DEF Init, EmptyRing, RingOK, Unset, DataSize, Wrapped
<1>2. wire = <<>> /\ written = 0 /\ open = TRUE /\ lostTail = FALSE /\ overtook = FALSE
  BY DEF Init
<1>3. TypeOK
  <2>1. wire \in Seq(Nat) /\ written \in 0..MaxBytes
    BY <1>2, SendConstants
  <2>. QED
    BY <1>1, <1>2, <2>1 DEF TypeOK
<1>4. NothingLost
  BY <1>1, <1>2 DEF NothingLost
<1>5. InOrder
  BY <1>1, <1>2 DEF InOrder
<1>. QED
  BY <1>3, <1>4, <1>5 DEF SendInv

\* InOrder in terms of InSequence and GoesOn.
LEMMA InOrderIs ==
  InOrder <=> (~lostTail /\ ~overtook =>
                 InSequence(wire) /\ (open => GoesOn(ring, Len(wire))))
BY DEF InOrder, InSequence, GoesOn

LEMMA InOrderIsNext ==
  InOrder' <=> (~lostTail' /\ ~overtook' =>
                  InSequence(wire') /\ (open' => GoesOn(ring', Len(wire'))))
BY DEF InOrder, InSequence, GoesOn

\* No call breaks SendInv.
LEMMA StepSendInv == SendInv /\ [Next]_vars => SendInv'
<1> SUFFICES ASSUME SendInv, [Next]_vars PROVE SendInv'
  OBVIOUS
<1>1. /\ RingOK(ring) /\ open \in BOOLEAN /\ lostTail \in BOOLEAN /\ overtook \in BOOLEAN
      /\ written \in Nat /\ written <= MaxBytes /\ wire \in Seq(Nat)
      /\ MaxBytes \in Nat /\ MaxWrite \in Nat
  BY SendConstants DEF SendInv, TypeOK
<1>2. /\ DataSize(ring) \in Nat /\ Contiguous(ring) \in Nat
      /\ Contiguous(ring) <= DataSize(ring)
  BY <1>1, RingBounds
<1>3. open => Len(wire) + DataSize(ring) = written
  BY DEF SendInv, NothingLost
<1>4. ~lostTail /\ ~overtook => InSequence(wire) /\ (open => GoesOn(ring, Len(wire)))
  BY InOrderIs DEF SendInv
\* What every action has to establish.
<1>5. ASSUME RingOK(ring'), open' \in BOOLEAN, lostTail' \in BOOLEAN,
             overtook' \in BOOLEAN, written' \in 0..MaxBytes, wire' \in Seq(Nat),
             open' => Len(wire') + DataSize(ring') = written',
             ~lostTail' /\ ~overtook' =>
               InSequence(wire') /\ (open' => GoesOn(ring', Len(wire')))
      PROVE  SendInv'
  <2>1. TypeOK'
    BY <1>5 DEF TypeOK
  <2>2. NothingLost'
    BY <1>5 DEF NothingLost
  <2>3. InOrder'
    BY <1>5, InOrderIsNext
  <2>. QED
    BY <2>1, <2>2, <2>3 DEF SendInv
\* Sending k bytes from the buffer.
<1>6. ASSUME NEW k \in 0..Contiguous(ring)
      PROVE  /\ RingOK(Take(ring, k)) /\ DataSize(Take(ring, k)) = DataSize(ring) - k
             /\ wire \o First(ring, k) \in Seq(Nat)
             /\ Len(wire \o First(ring, k)) = Len(wire) + k
             /\ open /\ ~lostTail /\ ~overtook =>
                  InSequence(wire \o First(ring, k)) /\ GoesOn(Take(ring, k), Len(wire) + k)
  <2>1. k \in Nat /\ k <= DataSize(ring)
    BY <1>2
  <2>2. RingOK(Take(ring, k)) /\ DataSize(Take(ring, k)) = DataSize(ring) - k
    BY <1>1, <2>1, TakeTakes
  <2>3. /\ wire \o First(ring, k) \in Seq(Nat)
        /\ Len(wire \o First(ring, k)) = Len(wire) + k
        /\ InSequence(wire) /\ GoesOn(ring, Len(wire)) =>
             InSequence(wire \o First(ring, k)) /\ GoesOn(Take(ring, k), Len(wire) + k)
    BY <1>1, <2>1, FirstLeaves
  <2>. QED
    BY <1>4, <2>2, <2>3
\* Sending all of the buffer and j bytes of the message.
<1>7. ASSUME NEW j \in Nat, open
      PROVE  LET r == Take(ring, DataSize(ring))
                 w == wire \o Content(ring) \o Bytes(written, j)
             IN  /\ RingOK(r) /\ DataSize(r) = 0
                 /\ w \in Seq(Nat) /\ Len(w) = written + j
                 /\ ~lostTail /\ ~overtook => InSequence(w)
  <2> DEFINE u == wire \o First(ring, DataSize(ring))
  <2>1. Content(ring) = First(ring, DataSize(ring))
    BY <1>1, <1>2, ContentIsSeq DEF First
  <2>2. /\ u \in Seq(Nat) /\ Len(u) = Len(wire) + DataSize(ring)
        /\ ~lostTail /\ ~overtook => InSequence(u)
    <3>1. DataSize(ring) <= DataSize(ring)
      BY <1>2
    <3>2. /\ u \in Seq(Nat) /\ Len(u) = Len(wire) + DataSize(ring)
          /\ InSequence(wire) /\ GoesOn(ring, Len(wire)) => InSequence(u)
      BY <1>1, <1>2, <3>1, FirstLeaves
    <3>. QED
      BY <1>4, <1>7, <3>2
  <2>3. Len(u) = written
    BY <1>3, <1>7, <2>2
  <2> HIDE DEF u
  <2>4. /\ u \o Bytes(written, j) \in Seq(Nat) /\ Len(u \o Bytes(written, j)) = written + j
        /\ ~lostTail /\ ~overtook => InSequence(u \o Bytes(written, j))
    BY <1>1, <2>2, <2>3, AppendBytes
  <2>5. RingOK(Take(ring, DataSize(ring))) /\ DataSize(Take(ring, DataSize(ring))) = 0
    BY <1>1, <1>2, TakeTakes
  <2>. QED
    BY <2>1, <2>4, <2>5 DEF u
<1>8. CASE WriteFromBufferToNetwork
  <2>1. PICK k \in 0..Contiguous(ring) :
          wire' = wire \o First(ring, k) /\ ring' = Take(ring, k)
    BY <1>8 DEF WriteFromBufferToNetwork
  <2>2. /\ open /\ open' \in BOOLEAN /\ written' = written
        /\ lostTail' = lostTail /\ overtook' = overtook
    BY <1>8 DEF WriteFromBufferToNetwork
  <2>3. /\ RingOK(ring') /\ wire' \in Seq(Nat)
        /\ Len(wire') = Len(wire) + k /\ DataSize(ring') = DataSize(ring) - k
    BY <1>6, <2>1
  <2>4. Len(wire') + DataSize(ring') = written'
    <3>1. Len(wire) \in Nat /\ k \in Int
      BY <1>1
    <3>2. Len(wire) + DataSize(ring) = written
      BY <1>3, <2>2
    <3>. QED
      BY <1>2, <2>2, <2>3, <3>1, <3>2
  <2>5. ~lostTail' /\ ~overtook' => InSequence(wire') /\ GoesOn(ring', Len(wire'))
    BY <1>6, <2>1, <2>2, <2>3
  <2>6. lostTail' \in BOOLEAN /\ overtook' \in BOOLEAN /\ written' \in 0..MaxBytes
    BY <1>1, <2>2
  <2>. QED
    BY <1>5, <2>2, <2>3, <2>4, <2>5, <2>6
<1>9. ASSUME NEW n \in 1..MaxWrite, WriteNBuffered(n)
      PROVE  SendInv'
  <2>1. PICK k \in 0..Contiguous(ring) :
          /\ wire' = wire \o First(ring, k)
          /\ ring' = WriteNToBuffer(Take(ring, k), Bytes(written, n))
          /\ lostTail' = (lostTail \/ LosesTail(Take(ring, k), n))
    BY <1>9 DEF WriteNBuffered
  <2>2. /\ open /\ open' = open /\ written' = written + n /\ overtook' = overtook
        /\ written + n <= MaxBytes
    BY <1>9 DEF WriteNBuffered
  <2> DEFINE r == Take(ring, k)
  <2>3. n \in Nat
    BY <1>1
  <2>4. RingOK(r) /\ DataSize(r) = DataSize(ring) - k
    BY <1>6
  <2>5. Len(wire) + k \in Nat /\ Len(wire) + k + DataSize(r) = written
    BY <1>1, <1>2, <1>3, <2>2, <2>4
  <2>6. wire' \in Seq(Nat) /\ Len(wire') = Len(wire) + k
    BY <1>6, <2>1
  <2>7. ~lostTail /\ ~overtook => InSequence(wire') /\ GoesOn(r, Len(wire'))
    BY <1>6, <2>1, <2>2, <2>6
  <2>8. lostTail' = (lostTail \/ LosesTail(r, n)) /\ ring' = WriteNToBuffer(r, Bytes(written, n))
    BY <2>1
  <2> HIDE DEF r
  <2>9. /\ RingOK(ring') /\ DataSize(ring') = DataSize(r) + n
        /\ ~LosesTail(r, n) /\ GoesOn(r, Len(wire')) => GoesOn(ring', Len(wire'))
    BY <1>1, <2>3, <2>4, <2>5, <2>6, <2>8, KeepBytes
  <2>10. Len(wire') + DataSize(ring') = written'
    <3>1. DataSize(r) \in Nat /\ Len(wire) + k \in Nat
      BY <2>4, <2>5, RingBounds
    <3>. QED
      BY <2>2, <2>3, <2>5, <2>6, <2>9, <3>1
  <2>11. lostTail' \in BOOLEAN
    BY <1>1, <2>8
  <2>12. written' \in 0..MaxBytes
    BY <1>1, <2>2, <2>3
  <2>13. ~lostTail' /\ ~overtook' => InSequence(wire') /\ GoesOn(ring', Len(wire'))
    BY <2>2, <2>7, <2>8, <2>9
  <2>. QED
    BY <1>1, <1>5, <2>2, <2>6, <2>9, <2>10, <2>11, <2>12, <2>13
<1>10. ASSUME NEW n \in 1..MaxWrite, WriteNDirect(n)
       PROVE  SendInv'
  <2> DEFINE r == Take(ring, DataSize(ring))
  <2>1. /\ open /\ open' = open /\ written' = written + n /\ overtook' = overtook
        /\ written + n <= MaxBytes /\ n \in Nat
    BY <1>1, <1>10 DEF WriteNDirect
  <2>2. PICK j \in 0..n :
          /\ wire' = wire \o Content(ring) \o Bytes(written, j)
          /\ ring' = IF j = n THEN r ELSE WriteNToBuffer(r, Bytes(written + j, n - j))
          /\ lostTail' = (lostTail \/ LosesTail(r, n - j))
    BY <1>10 DEF WriteNDirect
  <2>3. j \in Nat /\ n - j \in Nat /\ written + j \in Nat
    BY <1>1, <2>1
  <2>4. /\ RingOK(r) /\ DataSize(r) = 0 /\ wire' \in Seq(Nat) /\ Len(wire') = written + j
        /\ ~lostTail /\ ~overtook => InSequence(wire')
    BY <1>7, <2>1, <2>2, <2>3
  <2> HIDE DEF r
  <2>5. GoesOn(r, written + j)
    BY <2>4 DEF GoesOn
  <2>6. /\ RingOK(ring') /\ DataSize(ring') = n - j
        /\ ~LosesTail(r, n - j) => GoesOn(ring', written + j)
    <3>1. CASE j = n
      BY <2>2, <2>3, <2>4, <2>5, <3>1
    <3>2. CASE j # n
      <4>1. ring' = WriteNToBuffer(r, Bytes(written + j, n - j))
        BY <2>2, <3>2
      <4>2. /\ RingOK(ring') /\ DataSize(ring') = DataSize(r) + (n - j)
            /\ ~LosesTail(r, n - j) /\ GoesOn(r, written + j)
               /\ written + j + DataSize(r) = written + j => GoesOn(ring', written + j)
        BY <2>3, <2>4, <4>1, KeepBytes
      <4>. QED
        BY <2>3, <2>4, <2>5, <4>2
    <3>. QED
      BY <3>1, <3>2
  <2>7. Len(wire') + DataSize(ring') = written'
    BY <1>1, <2>1, <2>3, <2>4, <2>6
  <2>8. lostTail' \in BOOLEAN /\ written' \in 0..MaxBytes
    BY <1>1, <2>1, <2>2
  <2>9. ~lostTail' /\ ~overtook' => InSequence(wire') /\ GoesOn(ring', Len(wire'))
    BY <2>1, <2>2, <2>4, <2>6
  <2>. QED
    BY <1>1, <1>5, <2>1, <2>4, <2>6, <2>7, <2>8, <2>9
<1>11. ASSUME NEW n \in 1..MaxWrite, WriteNFails(n)
       PROVE  SendInv'
  <2>1. /\ open /\ open' = FALSE /\ written' = written /\ lostTail' = lostTail
        /\ overtook' = overtook /\ n \in Nat
    BY <1>1, <1>11 DEF WriteNFails
  <2>4. /\ open' \in BOOLEAN /\ lostTail' \in BOOLEAN /\ overtook' \in BOOLEAN
        /\ written' \in 0..MaxBytes
    <3>1. written \in 0..MaxBytes
      BY <1>1
    <3>. QED
      BY <1>1, <2>1, <3>1
  <2>2. CASE \E k \in 0..Contiguous(ring) :
               wire' = wire \o First(ring, k) /\ ring' = Take(ring, k)
    <3>1. PICK k \in 0..Contiguous(ring) :
            wire' = wire \o First(ring, k) /\ ring' = Take(ring, k)
      BY <2>2
    <3>2. /\ RingOK(ring') /\ wire' \in Seq(Nat)
          /\ ~lostTail /\ ~overtook => InSequence(wire')
      BY <1>6, <2>1, <3>1
    <3>. QED
      BY <1>5, <2>1, <2>4, <3>2
  <2>3. CASE /\ \E j \in 0..(n - 1) : wire' = wire \o Content(ring) \o Bytes(written, j)
             /\ ring' = Take(ring, DataSize(ring))
    <3>1. PICK j \in 0..(n - 1) : wire' = wire \o Content(ring) \o Bytes(written, j)
      BY <2>3
    <3>2. j \in Nat
      BY <2>1
    <3>3. /\ RingOK(ring') /\ wire' \in Seq(Nat)
          /\ ~lostTail /\ ~overtook => InSequence(wire')
      BY <1>7, <2>1, <2>3, <3>1, <3>2
    <3>. QED
      BY <1>5, <2>1, <2>4, <3>3
  <2>. QED
    BY <1>11, <2>2, <2>3 DEF WriteNFails
\* j bytes that go past the buffer.
<1>12. ASSUME NEW j \in Nat, wire' = wire \o Bytes(written, j), open,
              ring' = ring, lostTail' = lostTail,
              overtook' = (overtook \/ DataSize(ring) > 0),
              written' \in 0..MaxBytes, open' \in BOOLEAN,
              open' => written' = written + j
       PROVE  SendInv'
  <2>1. overtook' \in BOOLEAN
    BY <1>1, <1>12
  <2>2. /\ wire' \in Seq(Nat) /\ Len(wire') = Len(wire) + j
        /\ written = Len(wire) /\ InSequence(wire) => InSequence(wire')
    BY <1>1, <1>12, AppendBytes
  <2>3. open' => Len(wire') + DataSize(ring') = written'
    <3> SUFFICES ASSUME open' PROVE Len(wire') + DataSize(ring') = written'
      OBVIOUS
    <3>1. Len(wire) + DataSize(ring) = written /\ Len(wire) \in Nat
      BY <1>1, <1>3, <1>12
    <3>2. written' = written + j /\ ring' = ring
      BY <1>12
    <3>. QED
      BY <1>2, <1>12, <2>2, <3>1, <3>2
  <2>4. ~lostTail' /\ ~overtook' => InSequence(wire') /\ GoesOn(ring', Len(wire'))
    <3> SUFFICES ASSUME ~lostTail', ~overtook'
                 PROVE  InSequence(wire') /\ GoesOn(ring', Len(wire'))
      OBVIOUS
    <3>1. ~(DataSize(ring) > 0) /\ ~overtook /\ ~lostTail
      BY <1>12
    <3>2. DataSize(ring) = 0
      BY <1>2, <3>1
    <3>3. written = Len(wire)
      BY <1>1, <1>3, <1>12, <3>2
    <3>4. InSequence(wire')
      BY <1>4, <2>2, <3>1, <3>3
    <3>. QED
      BY <1>12, <3>2, <3>4 DEF GoesOn
  <2>. QED
    BY <1>1, <1>5, <1>12, <2>1, <2>2, <2>3, <2>4
<1>13. ASSUME NEW n \in 1..MaxWrite, WriteNFlush(n)
       PROVE  SendInv'
  <2>1. PICK j \in 0..n : wire' = wire \o Bytes(written, j) /\ open' = (j = n)
    BY <1>13 DEF WriteNFlush
  <2>2. j \in Nat /\ written' \in 0..MaxBytes /\ open' \in BOOLEAN
    BY <1>1, <1>13, <2>1 DEF WriteNFlush
  <2>3. open' => written' = written + j
    BY <1>13, <2>1 DEF WriteNFlush
  <2>. QED
    BY <1>12, <1>13, <2>1, <2>2, <2>3 DEF WriteNFlush
<1>14. ASSUME NEW n \in 1..MaxWrite, WriteNWithTimeOut(n)
       PROVE  SendInv'
  <2>1. PICK j \in 0..n : /\ wire' = wire \o Bytes(written, j)
                          /\ written' = written + j
                          /\ open' \in IF j = n THEN {TRUE} ELSE BOOLEAN
    BY <1>14 DEF WriteNWithTimeOut
  <2>2. j \in Nat /\ written' \in 0..MaxBytes
    BY <1>1, <1>14, <2>1 DEF WriteNWithTimeOut
  <2>3. open' \in BOOLEAN
    BY <2>1
  <2>. QED
    BY <1>12, <1>14, <2>1, <2>2, <2>3 DEF WriteNWithTimeOut
<1>15. ASSUME NEW n \in 1..MaxWrite, WriteIntWithTimeOut(n)
       PROVE  SendInv'
  BY <1>14, <1>15 DEF WriteIntWithTimeOut
<1>16. CASE UNCHANGED vars
  <2>1. /\ ring' = ring /\ open' = open /\ written' = written /\ wire' = wire
        /\ lostTail' = lostTail /\ overtook' = overtook
    BY <1>16 DEF vars
  <2>. QED
    BY <1>1, <1>3, <1>4, <1>5, <2>1
<1>. QED
  BY <1>8, <1>9, <1>10, <1>11, <1>13, <1>14, <1>15, <1>16 DEF Next

\* The invariant holds in every state the socket reaches.
THEOREM SendInvariant == Spec => []SendInv
<1>. QED
  BY InitSendInv, StepSendInv, PTL DEF Spec

\* The pointers of the sending ring always lie inside its memory, however
\* often WriteNToBuffer lets it grow (CCiSocket::PrepareSendBuffer).
THEOREM SendTypeAlwaysOK == Spec => []TypeOK
<1>1. SendInv => TypeOK
  BY DEF SendInv
<1>. QED
  BY <1>1, SendInvariant, PTL

\* Every byte WriteN took over was sent or is in the buffer, exactly once.
THEOREM NothingEverLost == Spec => []NothingLost
<1>1. SendInv => NothingLost
  BY DEF SendInv
<1>. QED
  BY <1>1, SendInvariant, PTL

\* WriteN keeps the bytes in order until a growth moves less than the tail of
\* a wrapped ring, or WriteNFlush overtakes the buffer.
THEOREM AlwaysInOrder == Spec => []InOrder
<1>1. SendInv => InOrder
  BY DEF SendInv
<1>. QED
  BY <1>1, SendInvariant, PTL

\* PrepareSendBuffer always makes room for the message, so WriteNToBuffer
\* never refuses one.
THEOREM AlwaysRoom == Spec => []RoomForMessage
<1>1. TypeOK => RoomForMessage
  <2> SUFFICES ASSUME TypeOK, NEW n \in 1..MaxWrite
               PROVE  LET r == Prepare(ring, n)
                      IN  DataSize(r) = DataSize(ring) /\ n < Remaining(r)
    BY DEF RoomForMessage
  <2>1. RingOK(ring) /\ n \in Nat
    BY SendConstants DEF TypeOK
  <2>. QED
    BY <2>1, PrepareMakesRoom
<1>. QED
  BY <1>1, SendTypeAlwaysOK, PTL
=============================================================================
