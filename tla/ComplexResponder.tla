-------------------------- MODULE ComplexResponder --------------------------
(***************************************************************************)
(* The responder run by a thread complex, as SampleHBClientComplex does:   *)
(* CCiHBResponserWithCiUtils derives from cihb::CNetworkThread (and so     *)
(* from cihb::CCiThread2) and from CiUtils' CCiThread2, and forwards       *)
(* InitInstance, Run and ExitInstance of the latter to the former.  It has *)
(* two sets of CCiThread2 members: the complex works with CiUtils', the    *)
(* network code with cihb's.  Composes ThreadComplex: the responder shares *)
(* the complex with other children, whose owners act at any time.          *)
(***************************************************************************)
EXTENDS Naturals, Sequences, SequencesExt

CONSTANTS
  Responder,    \* the child of the complex that the sample adds
  Others,       \* the children that other threads may add
  MaxQueue      \* datagrams the kernel keeps in the receive buffer

ASSUME ComplexConstants == MaxQueue \in Nat /\ Responder \notin Others

VARIABLES
  ciThreads, locked, complexExit, step, cursor,      \* see ThreadComplex
  childState, childExit, childSem, owner,            \* see ThreadComplex
  hbExit,     \* cihb::CCiThread2::m_bExit of the responder
  bound,      \* the responder has the heartbeat port open
  queued      \* heartbeat requests in the receive buffer

Complex == INSTANCE ThreadComplex WITH Children <- {Responder} \cup Others

complexVars == <<ciThreads, locked, complexExit, step, cursor>>
childVars   == <<childState, childExit, childSem, owner>>
socketVars  == <<hbExit, bound, queued>>
vars == <<complexVars, childVars, socketVars>>

Init ==
  /\ Complex!Init
  /\ hbExit = TRUE
  /\ bound = FALSE
  /\ queued = 0
-----------------------------------------------------------------------------
(* The sample: its constructor prepares and adds the responder, main runs  *)
(* the complex, the destructor ends the complexing and deletes the         *)
(* responder, in that order, once the complex has returned.                *)

Construct ==
  /\ Complex!PrepareComplexing(Responder) \/ Complex!AddCiThread(Responder)
  /\ step = "idle"
  /\ UNCHANGED socketVars

EndComplexing ==
  /\ step = "done" /\ owner[Responder] = "in"
  /\ childSem' = [childSem EXCEPT ![Responder] = @ + 1]
  /\ owner' = [owner EXCEPT ![Responder] = "deleted"]
  /\ UNCHANGED <<complexVars, childState, childExit, socketVars>>

DeleteCiThread ==
  /\ owner[Responder] = "deleted" /\ Complex!Listed(Responder)
  /\ ciThreads' = RemoveFirst(ciThreads, Responder)
  /\ UNCHANGED <<locked, complexExit, step, cursor, childVars, socketVars>>

\* EndThread of the complex, or of the responder through CiUtils' CCiThread2.
End ==
  /\ owner[Responder] = "in"
  /\ Complex!EndComplex \/ Complex!EndChild(Responder)
  /\ UNCHANGED socketVars

\* The owners of other children, who have the complex once it is constructed
\* and until it is destroyed.
OtherOwner(c) ==
  /\ Complex!Listed(Responder)
  /\ Complex!Owner(c)
  /\ UNCHANGED socketVars
-----------------------------------------------------------------------------
(* One ThreadProc of the responder, with the effect of the virtual         *)
(* functions it calls on the socket.                                       *)

RunsInit == childState[Responder] = "READY"
Ends == \/ childState[Responder] = "ERROR"
        \/ childState'[Responder] = "DONE"

\* Run: cihb::CNetworkThread::Run tests cihb's m_bExit, then answers one
\* request if poll reports one.
Serve == queued' = IF ~hbExit /\ queued > 0 THEN queued - 1 ELSE queued

\* Faulty: ExitInstance is not forwarded to CCiHBResponser.
Mutant_ExitNotForwarded(initOK) ==
  IF RunsInit /\ initOK THEN bound' = TRUE /\ queued' = 0
                        ELSE Serve /\ UNCHANGED bound

\* A DONE or DONE_ERROR child is left alone; InitInstance binds the socket,
\* ExitInstance closes it.
SocketEffect(initOK) ==
  IF Ends THEN bound' = FALSE /\ queued' = 0
  ELSE IF RunsInit /\ initOK THEN bound' = TRUE /\ queued' = 0
  ELSE Serve /\ UNCHANGED bound

\* CNetworkThread::Run never fails; what the Run of another child does is its
\* own business.
CallReturns ==
  /\ \E initOK, runOK \in BOOLEAN :
       /\ Complex!ReturnChild(initOK, runOK) \/ Complex!ExitProc(initOK, runOK)
       /\ IF ciThreads[cursor] = Responder
          THEN runOK /\ SocketEffect(initOK)
          ELSE UNCHANGED <<bound, queued>>
  /\ UNCHANGED hbExit

ComplexStep ==
  /\ \/ Complex!EnterRun \/ Complex!LockForRun \/ Complex!CallChild
     \/ Complex!UnlockRun \/ Complex!LockForExit \/ Complex!ExitChild
     \/ Complex!UnlockExit
  /\ owner[Responder] = "in"      \* main runs the complex once constructed
  /\ UNCHANGED socketVars

Arrive ==
  /\ bound /\ queued < MaxQueue
  /\ queued' = queued + 1
  /\ UNCHANGED <<complexVars, childVars, hbExit, bound>>

Next == \/ Construct \/ EndComplexing \/ DeleteCiThread \/ End
        \/ (\E c \in Others : OtherOwner(c))
        \/ ComplexStep \/ CallReturns \/ Arrive

Spec == Init /\ [][Next]_vars

\* main's thread runs the complex.  Only it holds the lock for longer than a
\* list operation, so weak fairness is enough for it.
FairSpec == Spec /\ WF_vars(ComplexStep \/ CallReturns)
-----------------------------------------------------------------------------
TypeOK ==
  /\ Complex!TypeOK
  /\ hbExit \in BOOLEAN /\ bound \in BOOLEAN
  /\ queued \in 0..MaxQueue /\ (queued > 0 => bound)

\* The promises of ThreadComplex, to the responder and to its neighbours: the
\* list is sound and no child is called that its owner has taken back ...
ComplexConsistent == TypeOK /\ Complex!CalledChildIsOwned

\* ... no child left undone by ExitInstance ...
ExitEndsChildren == Complex!ExitEndsChildren

\* ... and no child that was told to end kept waiting for ever.
EndedChildFinishes == Complex!EndedChildFinishes

\* Ending the complex, or the responder alone, releases the port.
EndReleasesPort ==
  owner[Responder] = "in" /\ (complexExit \/ childExit[Responder]) ~> ~bound

\* Heartbeat requests that reach the port of a responder that runs in a
\* complex are read.
HeartbeatsServed == queued > 0 ~> queued = 0
=============================================================================
