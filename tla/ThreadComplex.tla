---------------------------- MODULE ThreadComplex ----------------------------
(***************************************************************************)
(* CiUtils' CCiThreadComplex: one thread that runs the ThreadProc of many  *)
(* CCiThread2 objects in turn, under the lock of its list.  Each child has *)
(* an owner, an application thread that prepares it, adds it, ends it and  *)
(* takes it back, in the order the comments of CiThread2.h prescribe, at   *)
(* any time while the complex runs, ends or has ended.  The complex is     *)
(* itself a CCiThread2; its pace (CCiThreadRealTimeComplex) is a sleep     *)
(* before the lock is taken.                                               *)
(***************************************************************************)
EXTENDS Naturals, Sequences, SequencesExt

CONSTANT Children

VARIABLES
  ciThreads,      \* m_ciThreads, the list of children in order
  locked,         \* the complex holds the list's lock
  complexExit,    \* m_bExit of the complex
  step,           \* where the complex's thread is
  cursor,         \* TRAVERSELIST: the position of the current child
  childState,     \* m_state of each child
  childExit,      \* m_bExit of each child
  childSem,       \* m_semExit of each child
  owner           \* where the owner of each child is

complexVars == <<ciThreads, locked, complexExit, step, cursor>>
childVars   == <<childState, childExit, childSem, owner>>
vars == <<complexVars, childVars>>

\* The states a child has between two calls of its ThreadProc.
ChildStates == {"READY", "DONE_INITINSTANCE", "ERROR", "DONE", "DONE_ERROR"}

Done(c) == childState[c] \in {"DONE", "DONE_ERROR"}
Listed(c) == c \in Range(ciThreads)
Calling == step \in {"call", "exitCall"}

Init ==
  /\ ciThreads = <<>>
  /\ locked = FALSE
  /\ complexExit = FALSE
  /\ step = "idle"
  /\ cursor = 1
  /\ childState = [c \in Children |-> "READY"]
  /\ childExit = [c \in Children |-> TRUE]
  /\ childSem = [c \in Children |-> 1]
  /\ owner = [c \in Children |-> "out"]
-----------------------------------------------------------------------------
(* The owners.                                                             *)

\* PrepareComplexing is PrepareRunning: m_bExit, m_state, then the semaphore.
PrepareComplexing(c) ==
  /\ owner[c] = "out"
  /\ childSem[c] = 1
  /\ childExit' = [childExit EXCEPT ![c] = FALSE]
  /\ childState' = [childState EXCEPT ![c] = "READY"]
  /\ childSem' = [childSem EXCEPT ![c] = 0]
  /\ owner' = [owner EXCEPT ![c] = "prepared"]
  /\ UNCHANGED complexVars

\* SafeAddItem: the item is added once, under the lock.
AddCiThread(c) ==
  /\ owner[c] = "prepared"
  /\ ~locked
  /\ ciThreads' = IF Listed(c) THEN ciThreads ELSE Append(ciThreads, c)
  /\ owner' = [owner EXCEPT ![c] = "in"]
  /\ UNCHANGED <<locked, complexExit, step, cursor, childState, childExit, childSem>>

EndChild(c) ==
  /\ owner[c] = "in"
  /\ childExit' = [childExit EXCEPT ![c] = TRUE]
  /\ UNCHANGED <<complexVars, childState, childSem, owner>>

\* Faulty: DeleteItem instead of SafeDeleteItem.
Mutant_DeleteUnlocked(c) ==
  /\ owner[c] = "in"
  /\ ciThreads' = RemoveFirst(ciThreads, c)
  /\ owner' = [owner EXCEPT ![c] = "deleted"]
  /\ UNCHANGED <<locked, complexExit, step, cursor, childState, childExit, childSem>>

\* SafeDeleteItem, at any time: the owner need not wait for IsThreadDone.
DeleteCiThread(c) ==
  /\ owner[c] = "in"
  /\ ~locked
  /\ ciThreads' = RemoveFirst(ciThreads, c)
  /\ owner' = [owner EXCEPT ![c] = "deleted"]
  /\ UNCHANGED <<locked, complexExit, step, cursor, childState, childExit, childSem>>

EndComplexing(c) ==
  /\ owner[c] = "deleted"
  /\ childSem' = [childSem EXCEPT ![c] = @ + 1]
  /\ owner' = [owner EXCEPT ![c] = "out"]
  /\ UNCHANGED <<complexVars, childState, childExit>>

EndComplex ==
  /\ complexExit' = TRUE
  /\ UNCHANGED <<ciThreads, locked, step, cursor, childVars>>
-----------------------------------------------------------------------------
(* The complex's thread.                                                   *)

\* One call of ThreadProc(c), whose InitInstance and Run end with initOK and
\* runOK; exit is the m_bExit it reads.
ThreadProc(c, exit, initOK, runOK) ==
  LET s == childState[c]
      next == IF s = "READY" /\ ~initOK THEN "ERROR"
              ELSE IF s \in {"READY", "DONE_INITINSTANCE"}
                   THEN IF exit THEN "DONE"
                        ELSE IF runOK THEN "DONE_INITINSTANCE" ELSE "ERROR"
              ELSE IF s = "ERROR" THEN "DONE_ERROR" ELSE s
  IN  childState' = [childState EXCEPT ![c] = next]

\* The base class sees the exit flag and calls Run, which sleeps for its pace.
EnterRun ==
  /\ step = "idle"
  /\ ~complexExit
  /\ step' = "sleep"
  /\ UNCHANGED <<ciThreads, locked, complexExit, cursor, childVars>>

LockForRun ==
  /\ step = "sleep"
  /\ ~locked
  /\ locked' = TRUE
  /\ cursor' = 1
  /\ step' = "traverse"
  /\ UNCHANGED <<ciThreads, complexExit, childVars>>

CallChild ==
  /\ step = "traverse"
  /\ cursor <= Len(ciThreads)
  /\ step' = "call"
  /\ UNCHANGED <<ciThreads, locked, complexExit, cursor, childVars>>

\* Faulty: the child sees the exit flag of the complex instead of its own.
Mutant_SharedExit(initOK, runOK) ==
  /\ step = "call"
  /\ ThreadProc(ciThreads[cursor], complexExit, initOK, runOK)
  /\ cursor' = cursor + 1
  /\ step' = "traverse"
  /\ UNCHANGED <<ciThreads, locked, complexExit, childExit, childSem, owner>>

ReturnChild(initOK, runOK) ==
  /\ step = "call"
  /\ ThreadProc(ciThreads[cursor], childExit[ciThreads[cursor]], initOK, runOK)
  /\ cursor' = cursor + 1
  /\ step' = "traverse"
  /\ UNCHANGED <<ciThreads, locked, complexExit, childExit, childSem, owner>>

UnlockRun ==
  /\ step = "traverse"
  /\ cursor > Len(ciThreads)
  /\ locked' = FALSE
  /\ step' = "idle"
  /\ UNCHANGED <<ciThreads, complexExit, cursor, childVars>>

\* ExitInstance: every child is told to end and run until it is done.
LockForExit ==
  /\ step = "idle"
  /\ complexExit
  /\ ~locked
  /\ locked' = TRUE
  /\ cursor' = 1
  /\ step' = "exitTraverse"
  /\ UNCHANGED <<ciThreads, complexExit, childVars>>

ExitChild ==
  /\ step = "exitTraverse"
  /\ cursor <= Len(ciThreads)
  /\ childExit' = [childExit EXCEPT ![ciThreads[cursor]] = TRUE]
  /\ step' = "exitCall"
  /\ UNCHANGED <<ciThreads, locked, complexExit, cursor, childState, childSem, owner>>

\* Faulty: calls ThreadProc once instead of until the child is done.
Mutant_ExitOnce(initOK, runOK) ==
  /\ step = "exitCall"
  /\ ThreadProc(ciThreads[cursor], TRUE, initOK, runOK)
  /\ cursor' = cursor + 1
  /\ step' = "exitTraverse"
  /\ UNCHANGED <<ciThreads, locked, complexExit, childExit, childSem, owner>>

ExitProc(initOK, runOK) ==
  /\ step = "exitCall"
  /\ IF Done(ciThreads[cursor])
     THEN /\ cursor' = cursor + 1
          /\ step' = "exitTraverse"
          /\ UNCHANGED childState
     ELSE /\ ThreadProc(ciThreads[cursor], childExit[ciThreads[cursor]], initOK, runOK)
          /\ UNCHANGED <<cursor, step>>
  /\ UNCHANGED <<ciThreads, locked, complexExit, childExit, childSem, owner>>

UnlockExit ==
  /\ step = "exitTraverse"
  /\ cursor > Len(ciThreads)
  /\ locked' = FALSE
  /\ step' = "done"
  /\ UNCHANGED <<ciThreads, complexExit, cursor, childVars>>
-----------------------------------------------------------------------------
Owner(c) == \/ PrepareComplexing(c) \/ AddCiThread(c) \/ EndChild(c)
            \/ DeleteCiThread(c) \/ EndComplexing(c)

Complex == \/ EnterRun \/ LockForRun \/ CallChild \/ UnlockRun
           \/ LockForExit \/ ExitChild \/ UnlockExit
           \/ \E initOK, runOK \in BOOLEAN :
                ReturnChild(initOK, runOK) \/ ExitProc(initOK, runOK)

Next == (\E c \in Children : Owner(c)) \/ EndComplex \/ Complex

Spec == Init /\ [][Next]_vars
-----------------------------------------------------------------------------
TypeOK ==
  /\ ciThreads \in Seq(Children) /\ IsInjective(ciThreads)
  /\ locked \in BOOLEAN /\ complexExit \in BOOLEAN
  /\ step \in {"idle", "sleep", "traverse", "call", "exitTraverse", "exitCall", "done"}
  /\ cursor \in Nat
  /\ childState \in [Children -> ChildStates]
  /\ childExit \in [Children -> BOOLEAN]
  /\ childSem \in [Children -> {0, 1}]
  /\ owner \in [Children -> {"out", "prepared", "in", "deleted"}]

\* The thread of the complex only ever calls a child whose owner has not taken
\* it back: once DeleteCiThread returned, the owner may destroy the child.
CalledChildIsOwned ==
  Calling => /\ cursor <= Len(ciThreads)
             /\ owner[ciThreads[cursor]] = "in"
             /\ childSem[ciThreads[cursor]] = 0

\* ExitInstance of the complex leaves no child behind that is not done.
ExitEndsChildren ==
  [][step' = "done" /\ step # "done" => \A c \in Children : Listed(c) => Done(c)]_step

\* A child that is told to end, or that failed, is brought to its end by the
\* complex, unless its owner takes it back first; it neither waits for the
\* other children nor keeps them from running.
EndedChildFinishes ==
  \A c \in Children :
    Listed(c) /\ (childExit[c] \/ childState[c] = "ERROR") /\ step # "done"
      ~> Done(c) \/ ~Listed(c)
=============================================================================
