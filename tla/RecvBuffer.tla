------------------------------ MODULE RecvBuffer ------------------------------
(***************************************************************************)
(* The receiving side of CiUtils' CCiSocket on a non-blocking TCP socket:  *)
(* ReadFromNetworkToBuffer moves bytes from the kernel into a ring, ReadN  *)
(* and the functions built on it take them out, LookAheadN and             *)
(* LookAheadInt32 read them in place.  The bytes of the stream are         *)
(* numbered 1, 2, 3, ...                                                   *)
(***************************************************************************)
EXTENDS RingBuffer

CONSTANTS
  InitialSize,   \* m_iRecvBufferSize of the constructor
  MaxRead,       \* the most bytes a call asks for
  MaxBytes       \* bound: bytes the peer sends

ASSUME RecvConstants == /\ InitialSize \in Nat \ {0}
                        /\ MaxRead \in Nat
                        /\ MaxBytes \in Nat

VARIABLES
  ring,          \* m_pRecvBuffer, m_iRecvBufferSize, m_iRecvStartPtr, m_iRecvEndPtr
  arrived,       \* kernel: the bytes of the stream that reached the socket
  received,      \* the bytes recv has returned
  delivered,     \* the bytes handed to the application, in order
  lostTail,      \* history: a growth moved too little of a wrapped ring
  overtook,      \* history: a call that bypasses the ring read ahead of its bytes
  dropped        \* history: the bytes of numbers that ReadInt*WithTimeOut gave up

bypass == <<overtook, dropped>>
vars == <<ring, arrived, received, delivered, lostTail, overtook, dropped>>

Init ==
  /\ ring = EmptyRing(InitialSize)
  /\ arrived = 0
  /\ received = 0
  /\ delivered = <<>>
  /\ lostTail = FALSE
  /\ overtook = FALSE
  /\ dropped = 0

Lesser(a, b) == IF a < b THEN a ELSE b
-----------------------------------------------------------------------------
Arrive ==
  /\ arrived < MaxBytes
  /\ \E n \in 1..(MaxBytes - arrived) : arrived' = arrived + n
  /\ UNCHANGED <<ring, received, delivered, lostTail, bypass>>

\* recv until `room' bytes are there, the kernel has no more (or the peer has
\* closed), or recv fails, which it may at any time.
Receive(r, room) ==
  \E n \in 0..Lesser(room, arrived - received) :
    /\ ring' = Put(r, Bytes(received, n))
    /\ received' = received + n

\* Faulty: the byte that stays free is not at the end of the memory.
Mutant_RoomAtEnd(r) ==
  IF Wrapped(r) THEN r.start - r.end - 1 ELSE r.size - r.end

\* The free bytes before the end of the memory or the content, but one that
\* keeps a full ring from looking empty.
ContiguousRoom(r) ==
  IF Wrapped(r) THEN r.start - r.end - 1
  ELSE IF r.start = 0 THEN r.size - r.end - 1
  ELSE r.size - r.end

ReadFromNetworkToBuffer ==
  /\ Receive(Reset(ring), ContiguousRoom(Reset(ring)))
  /\ UNCHANGED <<arrived, delivered, lostTail, bypass>>

\* Faulty: a part of the bytes that go around the end of the memory comes to
\* lie where the first part does.
Mutant_SecondPart(n) ==
  LET r == Reset(Prepare(ring, n))
      left == r.size - r.end
  IN  /\ \E m \in 0..Lesser(n, arrived - received) :
           /\ ring' = Put(r, [i \in 1..m |-> received + (IF i > left THEN i - left ELSE i)])
           /\ received' = received + m
      /\ lostTail' = (lostTail \/ LosesTail(ring, n))
      /\ UNCHANGED <<arrived, delivered, bypass>>

\* ReadFromNetworkToBuffer(iReadSize): grows the ring if need be, and goes on
\* at the beginning of the memory when it comes to its end.
ReadFromNetworkToBufferN(n) ==
  /\ Receive(Reset(Prepare(ring, n)), n)
  /\ lostTail' = (lostTail \/ LosesTail(ring, n))
  /\ UNCHANGED <<arrived, delivered, bypass>>

\* Faulty: the start pointer stays at the end of the memory.
Mutant_StartNotWrapped(n) ==
  /\ n <= DataSize(ring)
  /\ delivered' = delivered \o First(ring, n)
  /\ ring' = [ring EXCEPT !.start = IF @ + n <= ring.size THEN @ + n ELSE @ + n - ring.size]
  /\ UNCHANGED <<arrived, received, lostTail, bypass>>

\* ReadN (and ReadInt16, ReadInt32, ReadInt64): all n bytes or none.
ReadN(n) ==
  /\ n <= DataSize(ring)
  /\ delivered' = delivered \o First(ring, n)
  /\ ring' = Take(ring, n)
  /\ UNCHANGED <<arrived, received, lostTail, bypass>>

\* StrExistInReadBuffer writes a NUL behind the content before it searches.
StrExistInReadBuffer ==
  /\ ring.start < ring.end
  /\ ring' = [ring EXCEPT !.buffer[ring.end] = Unset]
  /\ UNCHANGED <<arrived, received, delivered, lostTail, bypass>>
-----------------------------------------------------------------------------
(* Calls that wait for the socket and read from it past the ring.  They    *)
(* end early when poll times out or the stream ends.                       *)

ReadPast(j) ==
  /\ j <= arrived - received
  /\ received' = received + j
  /\ overtook' = (overtook \/ DataSize(ring) > 0)
  /\ UNCHANGED <<ring, arrived, lostTail>>

\* ReadNWithTimeOut reports how many of the n bytes it has read.
ReadNWithTimeOut(n) ==
  /\ \E j \in 0..n : ReadPast(j) /\ delivered' = delivered \o Bytes(received, j)
  /\ UNCHANGED dropped

\* ReadPatternWithTimeOut reads whatever one recv returns (up to n bytes in all)
\* until the pattern is there: bytes behind the pattern are delivered with it.
ReadPatternWithTimeOut(n) == ReadNWithTimeOut(n)

\* ReadInt16WithTimeOut and its like: the bytes of an incomplete number are
\* gone with the local variable that held them.
ReadIntWithTimeOut(n) ==
  \/ /\ \E j \in 0..(n - 1) : ReadPast(j) /\ dropped' = dropped + j
     /\ UNCHANGED delivered
  \/ /\ ReadPast(n) /\ delivered' = delivered \o Bytes(received, n)
     /\ UNCHANGED dropped
-----------------------------------------------------------------------------
\* Faulty: a message behind the end of the memory is taken to start at its
\* beginning.
Mutant_LookAheadFromZero(n, offset) ==
  LET first == ring.size - (ring.start + offset)
      at(p, i) == ring.buffer[p + i]
  IN  IF ~Wrapped(ring) \/ first >= n
      THEN [i \in 1..n |-> at(ring.start + offset, i - 1)]
      ELSE IF first > 0
      THEN [i \in 1..n |-> IF i <= first THEN at(ring.start + offset, i - 1)
                                         ELSE at(0, i - first - 1)]
      ELSE [i \in 1..n |-> at(0, i - 1)]

\* LookAheadN where it answers: the content is straight or the message lies
\* before the end of the memory; it is split by it; it lies behind it.
LookAheadN(n, offset) ==
  LET first == ring.size - (ring.start + offset)
      at(p, i) == ring.buffer[p + i]
  IN  IF ~Wrapped(ring) \/ first >= n
      THEN [i \in 1..n |-> at(ring.start + offset, i - 1)]
      ELSE IF first > 0
      THEN [i \in 1..n |-> IF i <= first THEN at(ring.start + offset, i - 1)
                                         ELSE at(0, i - first - 1)]
      ELSE [i \in 1..n |-> at(ring.start + offset - ring.size, i - 1)]
-----------------------------------------------------------------------------
Next == \/ Arrive
        \/ ReadFromNetworkToBuffer
        \/ \E n \in 1..MaxRead : ReadFromNetworkToBufferN(n) \/ ReadN(n)
        \/ StrExistInReadBuffer
        \/ \E n \in 1..MaxRead : \/ ReadNWithTimeOut(n) \/ ReadPatternWithTimeOut(n)
                                 \/ ReadIntWithTimeOut(n)

Spec == Init /\ [][Next]_vars
-----------------------------------------------------------------------------
TypeOK ==
  /\ RingOK(ring)
  /\ received \in 0..arrived /\ arrived \in 0..MaxBytes
  /\ delivered \in Seq(Nat)
  /\ lostTail \in BOOLEAN /\ overtook \in BOOLEAN /\ dropped \in Nat

\* Every byte received was delivered, is in the buffer or belonged to a number
\* that came too late: recv never fills the ring to the byte that would make it
\* look empty.
NothingLost == Len(delivered) + dropped + DataSize(ring) = received

Undisturbed == ~lostTail /\ ~overtook /\ dropped = 0

\* The application gets the bytes of the stream in order, and the buffer goes
\* on where it stopped, but for a growth that moved too little, a WithTimeOut
\* call used while the buffer holds data and a number that came too late.
InOrder ==
  Undisturbed => /\ \A i \in 1..Len(delivered) : delivered[i] = i
                 /\ \A i \in 1..DataSize(ring) : Content(ring)[i] = Len(delivered) + i

\* Looking ahead shows what ReadN would return later, wherever the content
\* crosses the end of the memory.
LookAheadMatches ==
  \A n \in 1..MaxRead, offset \in 0..DataSize(ring) :
    offset + n <= DataSize(ring) =>
      LookAheadN(n, offset) = SubSeq(Content(ring), offset + 1, offset + n)
=============================================================================
