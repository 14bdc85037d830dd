--------------------------- MODULE RecvBuffer_proofs ---------------------------
(***************************************************************************)
(* The receiving buffer of CCiSocket, for every initial size, length of    *)
(* the calls and amount of data: nothing is lost or repeated, looking      *)
(* ahead shows what will be read, and the order is kept but for a growth   *)
(* that moves less than the tail of a wrapped ring and for the calls that  *)
(* bypass the ring.                                                        *)
(***************************************************************************)
EXTENDS RecvBuffer, RingBuffer_proofs

RecvInv == TypeOK /\ NothingLost /\ InOrder

\* The ring and the amounts of bytes after Init.
LEMMA InitRecvInv == Init => RecvInv
<1> SUFFICES ASSUME Init PROVE RecvInv
  OBVIOUS
<1>1. RingOK(ring) /\ DataSize(ring) = 0
  BY RecvConstants DEF Init, EmptyRing, RingOK, Unset, DataSize, Wrapped
<1>2. /\ arrived = 0 /\ received = 0 /\ delivered = <<>> /\ lostTail = FALSE
      /\ overtook = FALSE /\ dropped = 0
  BY DEF Init
<1>3. TypeOK
  <2>1. delivered \in Seq(Nat) /\ received \in 0..arrived /\ arrived \in 0..MaxBytes
    BY <1>2, RecvConstants
  <2>. QED
    BY <1>1, <1>2, <2>1 DEF TypeOK
<1>4. NothingLost
  BY <1>1, <1>2 DEF NothingLost
<1>5. InOrder
  BY <1>1, <1>2 DEF InOrder
<1>. QED
  BY <1>3, <1>4, <1>5 DEF RecvInv

\* InOrder in terms of InSequence and GoesOn.
LEMMA InOrderIs ==
  /\ InOrder <=> (Undisturbed => InSequence(delivered) /\ GoesOn(ring, Len(delivered)))
  /\ InOrder' <=> (Undisturbed' => InSequence(delivered') /\ GoesOn(ring', Len(delivered')))
BY DEF InOrder, InSequence, GoesOn

\* One call never asks recv for as many bytes as the ring has left.
LEMMA RoomLeavesOne ==
  ASSUME NEW r, RingOK(r)
  PROVE  ContiguousRoom(Reset(r)) \in Nat /\ ContiguousRoom(Reset(r)) < Remaining(Reset(r))
<1> DEFINE q == Reset(r)
<1>1. RingOK(q) /\ (q.start = q.end => q.start = 0)
  <2>1. RingOK(q)
    BY ResetKeeps
  <2>2. CASE r.start = r.end
    BY <2>1, <2>2 DEF Reset, RingOK
  <2>3. CASE r.start # r.end
    BY <2>1, <2>3 DEF Reset
  <2>. QED
    BY <2>1, <2>2, <2>3
<1> HIDE DEF q
<1>2. q.size \in Nat \ {0} /\ q.start \in 0..(q.size - 1) /\ q.end \in 0..(q.size - 1)
  BY <1>1, Pointers
<1>3. ContiguousRoom(q) \in Nat /\ ContiguousRoom(q) < Remaining(q)
  <2>1. CASE Wrapped(q)
    BY <1>2, <2>1 DEF ContiguousRoom, Remaining, DataSize, Wrapped
  <2>2. CASE ~Wrapped(q)
    <3>1. q.start <= q.end
      BY <1>2, <2>2 DEF Wrapped
    <3>2. Remaining(q) = q.size - (q.end - q.start)
      BY <2>2 DEF Remaining, DataSize
    <3>. QED
      BY <1>1, <1>2, <2>2, <3>1, <3>2 DEF ContiguousRoom
  <2>. QED
    BY <2>1, <2>2
<1>. QED
  BY <1>3 DEF q

\* No call breaks RecvInv.
LEMMA StepRecvInv == RecvInv /\ [Next]_vars => RecvInv'
<1> SUFFICES ASSUME RecvInv, [Next]_vars PROVE RecvInv'
  OBVIOUS
<1>1. /\ RingOK(ring) /\ lostTail \in BOOLEAN /\ delivered \in Seq(Nat)
      /\ overtook \in BOOLEAN /\ dropped \in Nat
      /\ received \in 0..arrived /\ arrived \in 0..MaxBytes
      /\ MaxBytes \in Nat /\ MaxRead \in Nat
  BY RecvConstants DEF RecvInv, TypeOK
<1>2. DataSize(ring) \in Nat
  BY <1>1, RingBounds
<1>3. Len(delivered) + dropped + DataSize(ring) = received
  BY DEF RecvInv, NothingLost
<1>4. Undisturbed => InSequence(delivered) /\ GoesOn(ring, Len(delivered))
  BY InOrderIs DEF RecvInv
\* What every action has to establish.
<1>5. ASSUME RingOK(ring'), lostTail' \in BOOLEAN, delivered' \in Seq(Nat),
             overtook' \in BOOLEAN, dropped' \in Nat, received' \in 0..arrived', arrived' \in 0..MaxBytes,
             Len(delivered') + dropped' + DataSize(ring') = received',
             Undisturbed' => InSequence(delivered') /\ GoesOn(ring', Len(delivered'))
      PROVE  RecvInv'
  <2>1. TypeOK' /\ NothingLost'
    BY <1>5 DEF TypeOK, NothingLost
  <2>2. InOrder'
    BY <1>5, InOrderIs
  <2>. QED
    BY <2>1, <2>2 DEF RecvInv
\* recv into a ring that has the content of the present one and room.
<1>6. ASSUME NEW r, RingOK(r), DataSize(r) = DataSize(ring),
             NEW room \in Nat, room < Remaining(r), Receive(r, room),
             UNCHANGED <<arrived, delivered, bypass>>, lostTail' \in BOOLEAN,
             ~lostTail' => ~lostTail /\ Content(r) = Content(ring)
      PROVE  RecvInv'
  <2>1. PICK n \in 0..Lesser(room, arrived - received) :
          ring' = Put(r, Bytes(received, n)) /\ received' = received + n
    BY <1>6 DEF Receive
  <2>2. n \in Nat /\ n <= room /\ n <= arrived - received /\ received \in Nat
    BY <1>1, <1>6 DEF Lesser
  <2>3. n < Remaining(r)
    <3>1. Remaining(r) \in Nat
      BY <1>6, RingBounds
    <3>. QED
      BY <1>6, <2>2, <3>1
  <2>4. /\ RingOK(ring') /\ DataSize(ring') = DataSize(ring) + n
        /\ \A m \in Nat : GoesOn(r, m) /\ m + DataSize(r) = received => GoesOn(ring', m)
    BY <1>6, <2>1, <2>2, <2>3, BytesFollow
  <2>5. /\ Len(delivered) \in Nat /\ delivered' = delivered /\ arrived' = arrived
        /\ overtook' = overtook /\ dropped' = dropped
    BY <1>1, <1>6 DEF bypass
  <2>6. Len(delivered') + dropped' + DataSize(ring') = received'
    <3>1. received' = received + n /\ DataSize(ring') = DataSize(ring) + n
      BY <2>1, <2>4
    <3>2. dropped \in Nat /\ n \in Nat /\ received \in Nat
      BY <1>1, <2>2
    <3>3. Len(delivered') + dropped' + DataSize(ring') =
            Len(delivered) + dropped + (DataSize(ring) + n)
      BY <2>5, <3>1
    <3>. QED
      BY <1>2, <1>3, <2>5, <3>1, <3>2, <3>3
  <2>7. received' \in 0..arrived' /\ arrived' \in 0..MaxBytes
    BY <1>1, <2>1, <2>2, <2>5
  <2>8. Undisturbed' => InSequence(delivered') /\ GoesOn(ring', Len(delivered'))
    <3> SUFFICES ASSUME Undisturbed'
                 PROVE  InSequence(delivered') /\ GoesOn(ring', Len(delivered'))
      OBVIOUS
    <3>0. Undisturbed /\ ~lostTail' /\ dropped = 0
      BY <1>6, <2>5 DEF Undisturbed
    <3>1. InSequence(delivered) /\ GoesOn(r, Len(delivered))
      BY <1>4, <1>6, <3>0 DEF GoesOn
    <3>2. Len(delivered) + DataSize(r) = received
      BY <1>2, <1>3, <1>6, <2>5, <3>0
    <3>. QED
      BY <2>4, <2>5, <3>1, <3>2
  <2>. QED
    BY <1>1, <1>5, <1>6, <2>4, <2>5, <2>6, <2>7, <2>8
<1>7. CASE Arrive
  <2>1. /\ ring' = ring /\ received' = received /\ delivered' = delivered
        /\ lostTail' = lostTail /\ overtook' = overtook /\ dropped' = dropped
    BY <1>7 DEF Arrive, bypass
  <2>2. arrived' \in 0..MaxBytes /\ received' \in 0..arrived'
    BY <1>1, <1>7 DEF Arrive
  <2>. QED
    BY <1>1, <1>3, <1>4, <1>5, <2>1, <2>2 DEF Undisturbed
<1>8. CASE ReadFromNetworkToBuffer
  <2> DEFINE r == Reset(ring)
  <2>1. RingOK(r) /\ DataSize(r) = DataSize(ring) /\ Content(r) = Content(ring)
    BY <1>1, ResetKeeps
  <2>2. ContiguousRoom(r) \in Nat /\ ContiguousRoom(r) < Remaining(r)
    BY <1>1, RoomLeavesOne
  <2>3. /\ Receive(r, ContiguousRoom(r)) /\ UNCHANGED <<arrived, delivered, bypass>>
        /\ lostTail' = lostTail
    BY <1>8 DEF ReadFromNetworkToBuffer
  <2> HIDE DEF r
  <2>. QED
    BY <1>1, <1>6, <2>1, <2>2, <2>3
<1>9. ASSUME NEW n \in 1..MaxRead, ReadFromNetworkToBufferN(n)
      PROVE  RecvInv'
  <2> DEFINE p == Prepare(ring, n)
             r == Reset(p)
  <2>1. n \in Nat
    BY <1>1
  <2>2. RingOK(p) /\ DataSize(p) = DataSize(ring) /\ n < Remaining(p)
    BY <1>1, <2>1, PrepareMakesRoom
  <2>3. ~LosesTail(ring, n) => Content(p) = Content(ring)
    BY <1>1, <2>1, PrepareContent
  <2>4. /\ Receive(r, n) /\ UNCHANGED <<arrived, delivered, bypass>>
        /\ lostTail' = (lostTail \/ LosesTail(ring, n))
    BY <1>9 DEF ReadFromNetworkToBufferN
  <2> HIDE DEF p
  <2>5. RingOK(r) /\ DataSize(r) = DataSize(ring) /\ n < Remaining(r) /\ Content(r) = Content(p)
    BY <2>2, ResetKeeps
  <2> HIDE DEF r
  <2>6. lostTail' \in BOOLEAN /\ (~lostTail' => ~lostTail /\ Content(r) = Content(ring))
    BY <1>1, <2>3, <2>4, <2>5
  <2>. QED
    BY <1>6, <2>1, <2>4, <2>5, <2>6
<1>10. ASSUME NEW n \in 1..MaxRead, ReadN(n)
       PROVE  RecvInv'
  <2>1. /\ n \in Nat /\ n <= DataSize(ring)
        /\ delivered' = delivered \o First(ring, n) /\ ring' = Take(ring, n)
        /\ arrived' = arrived /\ received' = received /\ lostTail' = lostTail
        /\ overtook' = overtook /\ dropped' = dropped
    BY <1>1, <1>10 DEF ReadN, bypass
  <2>2. RingOK(ring') /\ DataSize(ring') = DataSize(ring) - n
    BY <1>1, <2>1, TakeTakes
  <2>3. /\ delivered' \in Seq(Nat) /\ Len(delivered') = Len(delivered) + n
        /\ InSequence(delivered) /\ GoesOn(ring, Len(delivered)) =>
             InSequence(delivered') /\ GoesOn(ring', Len(delivered) + n)
    BY <1>1, <2>1, FirstLeaves
  <2>4. Len(delivered) \in Nat
    BY <1>1
  <2>5. Len(delivered') + dropped' + DataSize(ring') = received'
    BY <1>1, <1>2, <1>3, <2>1, <2>2, <2>3, <2>4
  <2>6. Undisturbed' => InSequence(delivered') /\ GoesOn(ring', Len(delivered'))
    BY <1>4, <2>1, <2>3 DEF Undisturbed
  <2>. QED
    BY <1>1, <1>5, <2>1, <2>2, <2>3, <2>5, <2>6
<1>11. CASE StrExistInReadBuffer
  <2>1. /\ ring.start < ring.end
        /\ ring' = [ring EXCEPT !.buffer = [@ EXCEPT ![ring.end] = Unset]]
        /\ UNCHANGED <<arrived, received, delivered, lostTail, overtook, dropped>>
    BY <1>11 DEF StrExistInReadBuffer, bypass
  <2>2. /\ ring'.size = ring.size /\ ring'.start = ring.start /\ ring'.end = ring.end
        /\ ring'.buffer = [ring.buffer EXCEPT ![ring.end] = Unset]
        /\ ring' = [buffer |-> ring'.buffer, size |-> ring'.size, start |-> ring'.start,
                    end |-> ring'.end]
    BY <1>1, <2>1 DEF RingOK
  <2>3. RingOK(ring')
    BY <1>1, <2>2 DEF RingOK, Unset
  <2>4. DataSize(ring') = DataSize(ring) /\ DataSize(ring) = ring.end - ring.start
    <3>1. ring.start < ring.end /\ ring.size \in Nat /\ ring.start \in Nat /\ ring.end \in Nat
      BY <1>1, <2>1, Pointers
    <3>2. DataSize(ring) = ring.end - ring.start
      BY <3>1 DEF DataSize, Wrapped
    <3>3. DataSize(ring') = ring.end - ring.start
      BY <2>2, <3>1 DEF DataSize, Wrapped
    <3>. QED
      BY <3>2, <3>3
  <2>5. ASSUME NEW i \in 1..DataSize(ring)
        PROVE  Content(ring')[i] = Content(ring)[i]
    <3>1. Advance(ring, ring.start, i - 1) = ring.start + i - 1
          /\ Advance(ring', ring'.start, i - 1) = ring.start + i - 1
      <4>1. /\ ring.start \in Nat /\ ring.end \in 0..(ring.size - 1) /\ ring.size \in Nat
            /\ i \in Nat /\ i - 1 < ring.end - ring.start
        BY <1>1, <2>4, Pointers
      <4>2. ring.start + (i - 1) < ring.size
        BY <4>1
      <4>. QED
        BY <2>2, <4>1, <4>2 DEF Advance
    <3>2. ring.start + i - 1 \in 0..(ring.size - 1) /\ ring.start + i - 1 # ring.end
      BY <1>1, <2>4, Pointers
    <3>3. ring'.buffer[ring.start + i - 1] = ring.buffer[ring.start + i - 1]
      BY <1>1, <2>2, <3>2, Pointers
    <3>. QED
      BY <2>4, <3>1, <3>3 DEF Content
  <2>6. GoesOn(ring, Len(delivered)) => GoesOn(ring', Len(delivered))
    BY <2>4, <2>5 DEF GoesOn
  <2>. QED
    BY <1>1, <1>3, <1>4, <1>5, <2>1, <2>3, <2>4, <2>6 DEF Undisturbed
\* j bytes that go past the ring, to the application or nowhere.
<1>12. ASSUME NEW j \in Nat, ReadPast(j),
              \/ delivered' = delivered \o Bytes(received, j) /\ dropped' = dropped
              \/ delivered' = delivered /\ dropped' = dropped + j
       PROVE  RecvInv'
  <2>1. /\ ring' = ring /\ arrived' = arrived /\ lostTail' = lostTail
        /\ received' = received + j /\ j <= arrived - received
        /\ overtook' = (overtook \/ DataSize(ring) > 0)
    BY <1>12 DEF ReadPast
  <2>2. overtook' \in BOOLEAN /\ received \in Nat /\ received' \in 0..arrived'
    BY <1>1, <1>12, <2>1
  <2>3. /\ delivered \o Bytes(received, j) \in Seq(Nat)
        /\ Len(delivered \o Bytes(received, j)) = Len(delivered) + j
        /\ received = Len(delivered) /\ InSequence(delivered) =>
             InSequence(delivered \o Bytes(received, j))
    BY <1>1, <2>2, AppendBytes
  <2>4. Len(delivered) \in Nat
    BY <1>1
  <2>5. ASSUME Undisturbed'
        PROVE  Undisturbed /\ received = Len(delivered) /\ DataSize(ring) = 0
    <3>1. ~lostTail /\ ~overtook /\ ~(DataSize(ring) > 0) /\ dropped' = 0
      BY <2>1, <2>5 DEF Undisturbed
    <3>2. dropped = 0
      BY <1>1, <1>12, <3>1
    <3>3. DataSize(ring) = 0
      BY <1>2, <3>1
    <3>. QED
      BY <1>3, <2>4, <3>1, <3>2, <3>3 DEF Undisturbed
  <2>6. CASE delivered' = delivered \o Bytes(received, j) /\ dropped' = dropped
    <3>1. Len(delivered') + dropped' + DataSize(ring') = received'
      <4>1. /\ Len(delivered') = Len(delivered) + j /\ dropped' = dropped
            /\ DataSize(ring') = DataSize(ring) /\ received' = received + j
        BY <2>1, <2>3, <2>6
      <4>2. dropped \in Nat /\ j \in Nat
        BY <1>1, <1>12
      <4>. QED
        BY <1>2, <1>3, <2>2, <2>4, <4>1, <4>2
    <3>2. Undisturbed' => InSequence(delivered') /\ GoesOn(ring', Len(delivered'))
      BY <1>4, <2>1, <2>3, <2>5, <2>6 DEF GoesOn
    <3>. QED
      BY <1>1, <1>5, <2>1, <2>2, <2>3, <2>6, <3>1, <3>2
  <2>7. CASE delivered' = delivered /\ dropped' = dropped + j
    <3>1. Len(delivered') + dropped' + DataSize(ring') = received' /\ dropped' \in Nat
      <4>1. /\ Len(delivered') = Len(delivered) /\ dropped' = dropped + j
            /\ DataSize(ring') = DataSize(ring) /\ received' = received + j
        BY <2>1, <2>7
      <4>2. dropped \in Nat /\ j \in Nat
        BY <1>1, <1>12
      <4>. QED
        BY <1>2, <1>3, <2>2, <2>4, <4>1, <4>2
    <3>2. Undisturbed' => InSequence(delivered') /\ GoesOn(ring', Len(delivered'))
      BY <1>4, <2>1, <2>5, <2>7 DEF GoesOn
    <3>. QED
      BY <1>1, <1>5, <2>1, <2>2, <2>7, <3>1, <3>2
  <2>. QED
    BY <1>12, <2>6, <2>7
<1>13. ASSUME NEW n \in 1..MaxRead, ReadNWithTimeOut(n)
       PROVE  RecvInv'
  <2>1. PICK j \in 0..n : ReadPast(j) /\ delivered' = delivered \o Bytes(received, j)
    BY <1>13 DEF ReadNWithTimeOut
  <2>. QED
    BY <1>12, <1>13, <2>1 DEF ReadNWithTimeOut
<1>14. ASSUME NEW n \in 1..MaxRead, ReadIntWithTimeOut(n)
       PROVE  RecvInv'
  <2>1. CASE \E j \in 0..(n - 1) : ReadPast(j) /\ dropped' = dropped + j /\ delivered' = delivered
    BY <1>12, <2>1
  <2>2. CASE /\ ReadPast(n) /\ delivered' = delivered \o Bytes(received, n)
             /\ dropped' = dropped
    BY <1>12, <2>2
  <2>. QED
    BY <1>14, <2>1, <2>2 DEF ReadIntWithTimeOut
<1>15. CASE UNCHANGED vars
  <2>1. /\ ring' = ring /\ arrived' = arrived /\ received' = received
        /\ delivered' = delivered /\ lostTail' = lostTail
        /\ overtook' = overtook /\ dropped' = dropped
    BY <1>15 DEF vars
  <2>. QED
    BY <1>1, <1>3, <1>4, <1>5, <2>1 DEF Undisturbed
<1>. QED
  BY <1>7, <1>8, <1>9, <1>10, <1>11, <1>13, <1>14, <1>15 DEF Next, ReadPatternWithTimeOut

\* The invariant holds in every state the socket reaches.
THEOREM RecvInvariant == Spec => []RecvInv
<1>. QED
  BY InitRecvInv, StepRecvInv, PTL DEF Spec

\* The pointers of the receiving ring always lie inside its memory, however
\* often ReadFromNetworkToBuffer lets it grow.
THEOREM RecvTypeAlwaysOK == Spec => []TypeOK
<1>1. RecvInv => TypeOK
  BY DEF RecvInv
<1>. QED
  BY <1>1, RecvInvariant, PTL

\* Every byte recv returned was delivered, is in the buffer or belonged to a
\* number that came too late, exactly once.
THEOREM NothingEverLost == Spec => []NothingLost
<1>1. RecvInv => NothingLost
  BY DEF RecvInv
<1>. QED
  BY <1>1, RecvInvariant, PTL

\* The application reads the bytes in order until a growth moves less than
\* the tail of a wrapped ring or a WithTimeOut call bypasses the ring.
THEOREM AlwaysInOrder == Spec => []InOrder
<1>1. RecvInv => InOrder
  BY DEF RecvInv
<1>. QED
  BY <1>1, RecvInvariant, PTL

\* LookAheadN and LookAheadInt32 show what ReadN would return later.
THEOREM LookAheadAlwaysMatches == Spec => []LookAheadMatches
<1>1. TypeOK => LookAheadMatches
  <2> SUFFICES ASSUME TypeOK, NEW n \in 1..MaxRead, NEW offset \in 0..DataSize(ring),
                      offset + n <= DataSize(ring)
               PROVE  LookAheadN(n, offset) = SubSeq(Content(ring), offset + 1, offset + n)
    BY DEF LookAheadMatches
  <2>1. /\ RingOK(ring) /\ n \in Nat /\ offset \in Nat /\ DataSize(ring) \in Nat
        /\ DataSize(ring) < ring.size
    BY RecvConstants, RingBounds DEF TypeOK
  <2>2. Content(ring) \in Seq(Nat) /\ Len(Content(ring)) = DataSize(ring)
    BY <2>1, ContentIsSeq
  <2> DEFINE shown == [i \in 1..n |-> ring.buffer[Advance(ring, ring.start, offset + i - 1)]]
  <2>3. SubSeq(Content(ring), offset + 1, offset + n) = shown
    <3>1. \A i \in 1..n : Content(ring)[offset + i] = shown[i]
      BY <2>1 DEF Content
    <3>2. SubSeq(Content(ring), offset + 1, offset + n) =
            [i \in 1..n |-> Content(ring)[offset + i]]
      BY <2>1, <2>2
    <3>. QED
      BY <3>1, <3>2
  <2>4. LookAheadN(n, offset) = shown
    <3> DEFINE first == ring.size - (ring.start + offset)
               at(i) == Advance(ring, ring.start, offset + i - 1)
    <3>1. /\ ring.size \in Nat \ {0} /\ ring.start \in 0..(ring.size - 1)
          /\ ring.end \in 0..(ring.size - 1)
      BY <2>1, Pointers
    <3>2. CASE ~Wrapped(ring) \/ first >= n
      <4>1. \A i \in 1..n : at(i) = ring.start + offset + (i - 1)
        <5>1. CASE first >= n
          BY <2>1, <3>1, <5>1 DEF Advance
        <5>2. CASE ~Wrapped(ring)
          <6>1. ring.start <= ring.end /\ ring.start + offset + n <= ring.end
            BY <2>1, <3>1, <5>2 DEF DataSize, Wrapped
          <6>. QED
            BY <2>1, <3>1, <6>1 DEF Advance
        <5>. QED
          BY <3>2, <5>1, <5>2
      <4>2. LookAheadN(n, offset) = [i \in 1..n |-> ring.buffer[ring.start + offset + (i - 1)]]
        BY <3>2 DEF LookAheadN
      <4>. QED
        BY <4>1, <4>2
    <3>3. CASE Wrapped(ring) /\ first < n /\ first > 0
      <4>1. \A i \in 1..n : at(i) = IF i <= first THEN ring.start + offset + (i - 1)
                                                 ELSE 0 + (i - first - 1)
        BY <2>1, <3>1, <3>3 DEF Advance
      <4>2. ~(~Wrapped(ring) \/ first >= n) /\ first > 0
        BY <2>1, <3>1, <3>3
      <4>3. LookAheadN(n, offset) =
              [i \in 1..n |-> IF i <= first THEN ring.buffer[ring.start + offset + (i - 1)]
                                            ELSE ring.buffer[0 + (i - first - 1)]]
        BY <4>2 DEF LookAheadN
      <4> HIDE DEF first
      <4>. QED
        BY <4>1, <4>3
    <3>4. CASE Wrapped(ring) /\ first < n /\ ~(first > 0)
      <4>1. \A i \in 1..n : at(i) = ring.start + offset - ring.size + (i - 1)
        BY <2>1, <3>1, <3>4 DEF Advance
      <4>2. ~(~Wrapped(ring) \/ first >= n) /\ ~(first > 0)
        BY <2>1, <3>1, <3>4
      <4>3. LookAheadN(n, offset) =
              [i \in 1..n |-> ring.buffer[ring.start + offset - ring.size + (i - 1)]]
        BY <4>2 DEF LookAheadN
      <4>. QED
        BY <4>1, <4>3
    <3>. QED
      BY <2>1, <3>1, <3>2, <3>3, <3>4
  <2>. QED
    BY <2>3, <2>4
<1>. QED
  BY <1>1, RecvTypeAlwaysOK, PTL
=============================================================================
