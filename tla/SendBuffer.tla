------------------------------ MODULE SendBuffer ------------------------------
(***************************************************************************)
(* The sending side of CiUtils' CCiSocket on a non-blocking TCP socket:    *)
(* WriteN sends what the kernel takes and keeps the rest in a ring, which  *)
(* the network thread sends on when the socket becomes writable.  The      *)
(* bytes the application writes are numbered 1, 2, 3, ... so that the wire *)
(* shows whether one was lost, repeated or overtaken.  After a call that   *)
(* fails the caller gives the socket up.                                   *)
(***************************************************************************)
EXTENDS RingBuffer

CONSTANTS
  InitialSize,   \* m_iSendBufferSize of the constructor
  MaxWrite,      \* the longest message
  MaxBytes       \* bound: bytes the application writes

ASSUME SendConstants == /\ InitialSize \in Nat \ {0}
                        /\ MaxWrite \in Nat
                        /\ MaxBytes \in Nat

VARIABLES
  ring,          \* m_pSendBuffer, m_iSendBufferSize, m_iSendStartPtr, m_iSendEndPtr
  open,          \* no call has failed
  written,       \* the bytes taken over from the application
  wire,          \* the bytes given to the kernel, in order
  lostTail,      \* history: a growth moved too little of a wrapped ring
  overtook       \* history: a call that bypasses the ring sent ahead of its bytes

vars == <<ring, open, written, wire, lostTail, overtook>>

Init ==
  /\ ring = EmptyRing(InitialSize)
  /\ open = TRUE
  /\ written = 0
  /\ wire = <<>>
  /\ lostTail = FALSE
  /\ overtook = FALSE
-----------------------------------------------------------------------------
\* Faulty: only handles a ring that is not wrapped.
Mutant_ForgetsWrapped ==
  /\ open /\ ~Wrapped(ring)
  /\ \E k \in 0..Contiguous(ring) :
       /\ wire' = wire \o First(ring, k)
       /\ ring' = Take(ring, k)
       /\ open' \in IF k = Contiguous(ring) THEN {TRUE} ELSE BOOLEAN
  /\ UNCHANGED <<written, lostTail, overtook>>

\* Faulty: the start pointer stays at the end of the memory.
Mutant_StartNotWrapped ==
  /\ open
  /\ \E k \in 0..Contiguous(ring) :
       /\ wire' = wire \o First(ring, k)
       /\ ring' = [ring EXCEPT !.start = @ + k]
       /\ open' \in IF k = Contiguous(ring) THEN {TRUE} ELSE BOOLEAN
  /\ UNCHANGED <<written, lostTail, overtook>>

\* WriteFromBufferToNetwork, called when poll reports the socket writable:
\* sends up to the end of the memory, until the kernel blocks or fails.
WriteFromBufferToNetwork ==
  /\ open
  /\ \E k \in 0..Contiguous(ring) :
       /\ wire' = wire \o First(ring, k)
       /\ ring' = Take(ring, k)
       /\ open' \in IF k = Contiguous(ring) THEN {TRUE} ELSE BOOLEAN
  /\ UNCHANGED <<written, lostTail, overtook>>

\* Faulty: the two parts of a message that goes around the end of the memory
\* both start with its first byte.
Mutant_SecondPart(r, bytes) ==
  LET q == Reset(Prepare(r, Len(bytes)))
      left == q.size - q.end
  IN  Put(q, [i \in 1..Len(bytes) |-> IF i > left THEN bytes[i - left] ELSE bytes[i]])

WriteNToBuffer(r, bytes) == Put(Reset(Prepare(r, Len(bytes))), bytes)

\* WriteN with data in the buffer: send from the buffer first; if some of it
\* stays, the message is appended.
WriteNBuffered(n) ==
  /\ open /\ written + n <= MaxBytes
  /\ \E k \in 0..Contiguous(ring) :
       LET r == Take(ring, k) IN
       /\ k < DataSize(ring)
       /\ wire' = wire \o First(ring, k)
       /\ ring' = WriteNToBuffer(r, Bytes(written, n))
       /\ lostTail' = (lostTail \/ LosesTail(r, n))
  /\ written' = written + n
  /\ UNCHANGED <<open, overtook>>

\* Faulty: when the kernel blocks, the whole message is kept.
Mutant_KeepsWhole(n) ==
  /\ open /\ written + n <= MaxBytes
  /\ Contiguous(ring) = DataSize(ring)
  /\ \E j \in 0..n :
       LET r == Take(ring, DataSize(ring)) IN
       /\ wire' = wire \o Content(ring) \o Bytes(written, j)
       /\ ring' = IF j = n THEN r ELSE WriteNToBuffer(r, Bytes(written, n))
       /\ lostTail' = (lostTail \/ LosesTail(r, n - j))
  /\ written' = written + n
  /\ UNCHANGED <<open, overtook>>

\* WriteN with an empty buffer, or one the first send empties: the message
\* is sent; what the kernel does not take is kept.
WriteNDirect(n) ==
  /\ open /\ written + n <= MaxBytes
  /\ Contiguous(ring) = DataSize(ring)
  /\ \E j \in 0..n :
       LET r == Take(ring, DataSize(ring)) IN
       /\ wire' = wire \o Content(ring) \o Bytes(written, j)
       /\ ring' = IF j = n THEN r ELSE WriteNToBuffer(r, Bytes(written + j, n - j))
       /\ lostTail' = (lostTail \/ LosesTail(r, n - j))
  /\ written' = written + n
  /\ UNCHANGED <<open, overtook>>

\* The kernel fails, or realloc does, after part of the data was sent.
WriteNFails(n) ==
  /\ open /\ written + n <= MaxBytes
  /\ \/ \E k \in 0..Contiguous(ring) :
          wire' = wire \o First(ring, k) /\ ring' = Take(ring, k)
     \/ /\ Contiguous(ring) = DataSize(ring)
        /\ \E j \in 0..(n - 1) : wire' = wire \o Content(ring) \o Bytes(written, j)
        /\ ring' = Take(ring, DataSize(ring))
  /\ open' = FALSE
  /\ UNCHANGED <<written, lostTail, overtook>>

\* WriteNFlush does not look at the buffer; it gives up after 3000 attempts
\* at which the kernel takes nothing.
WriteNFlush(n) ==
  /\ open /\ written + n <= MaxBytes
  /\ \E j \in 0..n :
       /\ wire' = wire \o Bytes(written, j)
       /\ open' = (j = n)
  /\ written' = written + n
  /\ overtook' = (overtook \/ DataSize(ring) > 0)
  /\ UNCHANGED <<ring, lostTail>>

\* WriteNWithTimeOut waits for room and sends, past the buffer, until all is
\* sent, poll times out (the caller learns how much went out and may go on with
\* the rest) or the socket fails.
WriteNWithTimeOut(n) ==
  /\ open /\ written + n <= MaxBytes
  /\ \E j \in 0..n :
       /\ wire' = wire \o Bytes(written, j)
       /\ written' = written + j
       /\ open' \in IF j = n THEN {TRUE} ELSE BOOLEAN
  /\ overtook' = (overtook \/ DataSize(ring) > 0)
  /\ UNCHANGED <<ring, lostTail>>

\* WriteInt16WithTimeOut and its like keep the amount to themselves: a caller
\* whose number was not sent as a whole cannot go on.
WriteIntWithTimeOut(n) == WriteNWithTimeOut(n) /\ open' = (written' = written + n)
-----------------------------------------------------------------------------
Next == \/ WriteFromBufferToNetwork
        \/ \E n \in 1..MaxWrite : \/ WriteNBuffered(n) \/ WriteNDirect(n)
                                  \/ WriteNFails(n) \/ WriteNFlush(n)
                                  \/ WriteNWithTimeOut(n) \/ WriteIntWithTimeOut(n)

Spec == Init /\ [][Next]_vars

\* The network thread polls a socket with data for writing, and a peer that
\* stays connected goes on reading, so the kernel takes bytes again.
FairSpec == Spec /\ WF_vars(WriteFromBufferToNetwork /\ ring' # ring)
-----------------------------------------------------------------------------
TypeOK ==
  /\ RingOK(ring)
  /\ open \in BOOLEAN /\ lostTail \in BOOLEAN /\ overtook \in BOOLEAN
  /\ written \in 0..MaxBytes
  /\ wire \in Seq(Nat)

\* Every byte taken over from the application was sent or is in the buffer,
\* exactly once: a ring is never filled to the byte that would make it look
\* empty, and a growth or a partial send never changes the amount.
NothingLost == open => Len(wire) + DataSize(ring) = written

\* The wire carries the bytes in the order of the calls, the buffer goes on
\* where the wire stopped; but for a growth that moved too little, and for
\* WriteNFlush and the WithTimeOut calls used while the buffer holds data.
InOrder ==
  ~lostTail /\ ~overtook =>
    /\ \A i \in 1..Len(wire) : wire[i] = i
    /\ open => \A i \in 1..DataSize(ring) : Content(ring)[i] = Len(wire) + i

\* PrepareSendBuffer always leaves room for the message, so that
\* WriteNToBuffer never reaches its last branch, which refuses it.
RoomForMessage ==
  \A n \in 1..MaxWrite : LET r == Prepare(ring, n)
                         IN  DataSize(r) = DataSize(ring) /\ n < Remaining(r)

\* What is buffered is sent in the end, in however many calls.
Drains == DataSize(ring) > 0 ~> DataSize(ring) = 0 \/ ~open

\* WriteFromBufferToNetwork sends what was written into the buffer, whatever
\* growth happened in between.
SendsWhatWasWritten == ~overtook => \A i \in 1..Len(wire) : wire[i] = i
=============================================================================
