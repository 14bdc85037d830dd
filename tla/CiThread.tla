------------------------------ MODULE CiThread ------------------------------
(***************************************************************************)
(* The thread object cihb::CCiThread2 (src/legacy_compatible/              *)
(* legacy_support.{h,cpp}): CreateThread, RunThreadHere, EndThread and     *)
(* WaitUntilExit called by application threads, and the ThreadProc loop    *)
(* run by whichever thread the object was started on.  The members of the  *)
(* object are shared and, but for the semaphore m_semExit, unsynchronised: *)
(* every step below reads or writes one of them once, in source order.     *)
(* The virtual functions InitInstance, Run and ExitInstance are steps that *)
(* end with any result they may return; a module that models a class       *)
(* derived from CCiThread2 conjoins its own effect to those steps.         *)
(***************************************************************************)
EXTENDS Naturals

CONSTANTS
  Starters,   \* application threads that call CreateThread or RunThreadHere
  Closers,    \* application threads that only call EndThread, WaitUntilExit
  Workers,    \* the pthreads that pthread_create may hand out
  NoThread    \* CI_THREAD2_INVALID_THREAD_HANDLE

App     == Starters \cup Closers
Threads == App \cup Workers

ASSUME ThreadsDisjoint == /\ Starters \cap Closers = {}
                          /\ App \cap Workers = {}
                          /\ NoThread \notin Threads

VARIABLES
  ciThreadHandle,   \* m_ciThreadHandle
  bExit,            \* m_bExit
  semExit,          \* the count of m_semExit
  state,            \* m_state
  here,             \* the starters whose current start is RunThreadHere
  pc                \* where each thread stands in the object's code

threadVars == <<ciThreadHandle, bExit, semExit, state, here, pc>>

States == {"READY", "DONE_INITINSTANCE", "DONE_RUN", "DONE_EXITINSTANCE",
           "DONE_EXITINSTANCE_ERROR", "DONE", "DONE_ERROR", "ERROR"}

Starting  == {"clearExit", "clearState", "waitSem"}
Executing == {"loop", "init", "checkExit", "run", "exit", "finish", "notify"}
Waiting   == {"waitExit", "joined"}

Executors == {t \in Threads : pc[t] \in Executing}

Goto(t, l) == pc' = [pc EXCEPT ![t] = l]

Init ==
  /\ ciThreadHandle = NoThread
  /\ bExit = TRUE
  /\ semExit = 1
  /\ state = "READY"
  /\ here = {}
  /\ pc = [t \in Threads |-> IF t \in App THEN "idle" ELSE "gone"]
-----------------------------------------------------------------------------
(* Starting: the guard on the handle, then PrepareRunning.                 *)

\* Faulty: the guard on m_ciThreadHandle is missing.
Mutant_CreateNoGuard(t) ==
  /\ pc[t] = "idle"
  /\ here' = here \ {t}
  /\ Goto(t, "clearExit")
  /\ UNCHANGED <<ciThreadHandle, bExit, semExit, state>>

CreateThread(t) ==
  /\ pc[t] = "idle"
  /\ ciThreadHandle = NoThread
  /\ here' = here \ {t}
  /\ Goto(t, "clearExit")
  /\ UNCHANGED <<ciThreadHandle, bExit, semExit, state>>

RunThreadHere(t) ==
  /\ pc[t] = "idle"
  /\ ciThreadHandle = NoThread
  /\ here' = here \cup {t}
  /\ Goto(t, "clearExit")
  /\ UNCHANGED <<ciThreadHandle, bExit, semExit, state>>

PrepareClearExit(t) ==
  /\ pc[t] = "clearExit"
  /\ bExit' = FALSE
  /\ Goto(t, "clearState")
  /\ UNCHANGED <<ciThreadHandle, semExit, state, here>>

PrepareClearState(t) ==
  /\ pc[t] = "clearState"
  /\ state' = "READY"
  /\ Goto(t, "waitSem")
  /\ UNCHANGED <<ciThreadHandle, bExit, semExit, here>>

PrepareWait(t) ==
  /\ pc[t] = "waitSem"
  /\ semExit > 0
  /\ semExit' = semExit - 1
  /\ Goto(t, IF t \in here THEN "loop" ELSE "spawn")
  /\ UNCHANGED <<ciThreadHandle, bExit, state, here>>

\* pthread_create succeeds: the creator's call returns true, the worker
\* enters _CiThread2Entry.
SpawnOK(t, w) ==
  /\ pc[t] = "spawn"
  /\ pc[w] = "gone"
  /\ ciThreadHandle' = w
  /\ pc' = [pc EXCEPT ![t] = "idle", ![w] = "loop"]
  /\ UNCHANGED <<bExit, semExit, state, here>>

\* Faulty: the error path of pthread_create forgets m_semExit.Post().
Mutant_SpawnFailsNoPost(t) ==
  /\ pc[t] = "spawn"
  /\ bExit' = TRUE
  /\ ciThreadHandle' = NoThread
  /\ Goto(t, "idle")
  /\ UNCHANGED <<semExit, state, here>>

SpawnFails(t) ==
  /\ pc[t] = "spawn"
  /\ bExit' = TRUE
  /\ ciThreadHandle' = NoThread
  /\ semExit' = semExit + 1
  /\ Goto(t, "idle")
  /\ UNCHANGED <<state, here>>
-----------------------------------------------------------------------------
(* Stopping.                                                               *)

EndThread(t) ==
  /\ pc[t] = "idle"
  /\ bExit' = TRUE
  /\ UNCHANGED <<ciThreadHandle, semExit, state, here, pc>>

\* Faulty: the handle is cleared before the wait.
Mutant_WaitClearsFirst(t) ==
  /\ pc[t] = "idle"
  /\ ciThreadHandle # NoThread
  /\ ciThreadHandle' = NoThread
  /\ Goto(t, "waitExit")
  /\ UNCHANGED <<bExit, semExit, state, here>>

\* WaitUntilExit returns at once when there is no handle (no step of its own).
WaitUntilExit(t) ==
  /\ pc[t] = "idle"
  /\ ciThreadHandle # NoThread
  /\ Goto(t, "waitExit")
  /\ UNCHANGED <<ciThreadHandle, bExit, semExit, state, here>>

WaitAcquire(t) ==
  /\ pc[t] = "waitExit"
  /\ semExit > 0
  /\ semExit' = semExit - 1
  /\ Goto(t, "joined")
  /\ UNCHANGED <<ciThreadHandle, bExit, state, here>>

WaitReturn(t) ==
  /\ pc[t] = "joined"
  /\ ciThreadHandle' = NoThread
  /\ semExit' = semExit + 1
  /\ Goto(t, "idle")
  /\ UNCHANGED <<bExit, state, here>>
-----------------------------------------------------------------------------
(* Executing: while (!IsThreadDone()) ThreadProc(); NotifyExit().          *)

\* Where the loop test and the switch of ThreadProc lead, by m_state.
ThreadProcEntry ==
  [READY |-> "init", DONE_INITINSTANCE |-> "checkExit",
   DONE_RUN |-> "exit", ERROR |-> "exit",
   DONE_EXITINSTANCE |-> "finish", DONE_EXITINSTANCE_ERROR |-> "finish",
   DONE |-> "notify", DONE_ERROR |-> "notify"]

Dispatch(t) ==
  /\ pc[t] = "loop"
  /\ Goto(t, ThreadProcEntry[state])
  /\ UNCHANGED <<ciThreadHandle, bExit, semExit, state, here>>

InitInstanceOK(t) ==
  /\ pc[t] = "init"
  /\ state' = "DONE_INITINSTANCE"
  /\ Goto(t, "checkExit")
  /\ UNCHANGED <<ciThreadHandle, bExit, semExit, here>>

InitInstanceFails(t) ==
  /\ pc[t] = "init"
  /\ state' = "ERROR"
  /\ Goto(t, "loop")
  /\ UNCHANGED <<ciThreadHandle, bExit, semExit, here>>

EnterRun(t) ==
  /\ pc[t] = "checkExit"
  /\ ~bExit
  /\ Goto(t, "run")
  /\ UNCHANGED <<ciThreadHandle, bExit, semExit, state, here>>

LeaveRun(t) ==
  /\ pc[t] = "checkExit"
  /\ bExit
  /\ state' = "DONE_RUN"
  /\ Goto(t, "exit")
  /\ UNCHANGED <<ciThreadHandle, bExit, semExit, here>>

RunOK(t) ==
  /\ pc[t] = "run"
  /\ Goto(t, "loop")
  /\ UNCHANGED <<ciThreadHandle, bExit, semExit, state, here>>

RunFails(t) ==
  /\ pc[t] = "run"
  /\ state' = "ERROR"
  /\ Goto(t, "loop")
  /\ UNCHANGED <<ciThreadHandle, bExit, semExit, here>>

ExitInstance(t) ==
  /\ pc[t] = "exit"
  /\ state' = IF state = "DONE_RUN" THEN "DONE_EXITINSTANCE"
                                    ELSE "DONE_EXITINSTANCE_ERROR"
  /\ Goto(t, "finish")
  /\ UNCHANGED <<ciThreadHandle, bExit, semExit, here>>

\* Faulty: the m_semExit.Post() that ThreadProc has commented out is back.
Mutant_FinishPosts(t) ==
  /\ pc[t] = "finish"
  /\ state' = IF state = "DONE_EXITINSTANCE" THEN "DONE" ELSE "DONE_ERROR"
  /\ semExit' = semExit + 1
  /\ Goto(t, "loop")
  /\ UNCHANGED <<ciThreadHandle, bExit, here>>

Finish(t) ==
  /\ pc[t] = "finish"
  /\ state' = IF state = "DONE_EXITINSTANCE" THEN "DONE" ELSE "DONE_ERROR"
  /\ Goto(t, "loop")
  /\ UNCHANGED <<ciThreadHandle, bExit, semExit, here>>

\* Faulty: the thread ends without notifying.
Mutant_NoNotify(t) ==
  /\ pc[t] = "notify"
  /\ Goto(t, IF t \in App THEN "idle" ELSE "gone")
  /\ UNCHANGED <<ciThreadHandle, bExit, semExit, state, here>>

\* The last touch of the object by the thread that executed it.
NotifyExit(t) ==
  /\ pc[t] = "notify"
  /\ semExit' = semExit + 1
  /\ Goto(t, IF t \in App THEN "idle" ELSE "gone")
  /\ UNCHANGED <<ciThreadHandle, bExit, state, here>>
-----------------------------------------------------------------------------
Start(t) == \/ CreateThread(t) \/ RunThreadHere(t)
            \/ PrepareClearExit(t) \/ PrepareClearState(t) \/ PrepareWait(t)
            \/ SpawnFails(t)
            \/ \E w \in Workers : SpawnOK(t, w)

Stop(t) == EndThread(t) \/ WaitUntilExit(t)

Wait(t) == WaitAcquire(t) \/ WaitReturn(t)

Execute(t) == \/ Dispatch(t) \/ InitInstanceOK(t) \/ InitInstanceFails(t)
              \/ EnterRun(t) \/ LeaveRun(t) \/ RunOK(t) \/ RunFails(t)
              \/ ExitInstance(t) \/ Finish(t) \/ NotifyExit(t)

Next == \/ \E t \in Starters : Start(t)
        \/ \E t \in App : Stop(t) \/ Wait(t)
        \/ \E t \in Threads : Execute(t)

Spec == Init /\ [][Next]_threadVars

\* A started thread keeps being scheduled, and so does one inside a call of
\* the object; whether the application calls anything is up to it.  sem_wait
\* wakes any waiter, so a waiter that keeps losing the race is only helped
\* by strong fairness on its own wake-up.
Fairness ==
  /\ \A t \in Threads : WF_threadVars(Execute(t))
  /\ \A t \in App : WF_threadVars(WaitReturn(t)) /\ SF_threadVars(WaitAcquire(t))
  /\ \A t \in Starters :
       /\ WF_threadVars(PrepareClearExit(t) \/ PrepareClearState(t))
       /\ SF_threadVars(PrepareWait(t))
       /\ WF_threadVars(SpawnFails(t) \/ \E w \in Workers : SpawnOK(t, w))

FairSpec == Spec /\ Fairness
-----------------------------------------------------------------------------
TypeOK ==
  /\ ciThreadHandle \in Workers \cup {NoThread}
  /\ bExit \in BOOLEAN
  /\ semExit \in {0, 1}
  /\ state \in States
  /\ here \in SUBSET Starters
  /\ pc \in [Threads -> {"idle", "gone", "spawn"} \cup Starting \cup Executing
                        \cup Waiting]

\* Which part of the code each kind of thread can be in.
RolesOK ==
  /\ \A t \in Workers  : pc[t] \in {"gone"} \cup Executing
  /\ \A t \in Closers  : pc[t] \in {"idle"} \cup Waiting
  /\ \A t \in Starters : pc[t] # "gone"

\* The threads between taking m_semExit and giving it back.  pthread_create
\* hands the token from the creator to the worker.
HoldsExit(t) == pc[t] \in {"spawn", "joined"} \cup Executing

\* At most one thread executes ThreadProc, and nobody is inside the critical
\* part of WaitUntilExit meanwhile, however many threads call CreateThread
\* and RunThreadHere at once: m_semExit is the object's only lock.
OneExecutor == \A t, u \in Threads : HoldsExit(t) /\ HoldsExit(u) => t = u

\* The count of m_semExit is 1 exactly when nobody holds the token: a Post
\* too many would let two threads execute, one too few would hang
\* WaitUntilExit for ever.
SemaphoreConserved == (semExit = 0) <=> (\E t \in Threads : HoldsExit(t))

\* PrepareRunning resets m_bExit and m_state before it waits for the
\* semaphore.  With one starter no executor can be running then, so a start
\* never turns a running thread back to READY (a second InitInstance).
ResetOnlyWhenStopped ==
  \A t \in Starters : pc[t] \in {"clearExit", "clearState"} => Executors = {}

\* With one starter the executor that is created finds the READY that
\* PrepareRunning wrote, and so begins with InitInstance: a start that
\* returned true is never silently skipped.
StartsFresh == \A t \in Starters : pc[t] = "spawn" => state = "READY"

\* While a pthread created by CreateThread is alive the handle names it, so
\* a WaitUntilExit called then waits for it, and CreateThread is refused.
HandleNamesWorker ==
  \A w \in Workers : pc[w] # "gone" => ciThreadHandle = w

\* A thread that was started is never forgotten: the handle goes back to
\* NULL (by WaitUntilExit) before it names another pthread, and it is only
\* cleared when no pthread executes the object.
HandleNeverOverwritten ==
  [][/\ ciThreadHandle # NoThread => ciThreadHandle' \in {ciThreadHandle, NoThread}
     /\ ciThreadHandle' = NoThread => \A w \in Workers : pc[w] = "gone"
    ]_ciThreadHandle

\* WaitUntilExit returns once the thread has been told to end for good.
WaitUntilExitReturns ==
  \A t \in App : <>[]bExit => (pc[t] = "waitExit" ~> pc[t] = "idle")
=============================================================================
