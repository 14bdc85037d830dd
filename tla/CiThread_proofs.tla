--------------------------- MODULE CiThread_proofs ---------------------------
(***************************************************************************)
(* Proofs about CiThread, for every set of application threads and of      *)
(* pthreads.  The invariant is the conservation of the m_semExit token:    *)
(* exactly one of "the count is 1" and "one thread stands between its Wait *)
(* and its Post" holds, which none of its parts implies alone.             *)
(***************************************************************************)
EXTENDS CiThread, TLAPS

ThreadInv == /\ TypeOK
             /\ RolesOK
             /\ OneExecutor
             /\ SemaphoreConserved
             /\ HandleNamesWorker

\* The object as constructed (CCiThread2::CCiThread2) satisfies ThreadInv.
LEMMA InitThreadInv == Init => ThreadInv
<1> SUFFICES ASSUME Init PROVE ThreadInv
  OBVIOUS
<1> USE ThreadsDisjoint DEF Init, Threads, App
<1>1. TypeOK
  BY DEF TypeOK, States, Starting, Executing, Waiting
<1>2. RolesOK
  BY DEF RolesOK
<1>3. \A t \in Threads : ~HoldsExit(t)
  BY DEF HoldsExit, Executing
<1>4. OneExecutor /\ SemaphoreConserved
  BY <1>3 DEF OneExecutor, SemaphoreConserved
<1>5. HandleNamesWorker
  BY DEF HandleNamesWorker
<1>. QED
  BY <1>1, <1>2, <1>4, <1>5 DEF ThreadInv

\* No call of the object, and no step of a thread executing it, breaks
\* ThreadInv.
LEMMA StepThreadInv == ThreadInv /\ [Next]_threadVars => ThreadInv'
<1> SUFFICES ASSUME ThreadInv, [Next]_threadVars PROVE ThreadInv'
  OBVIOUS
<1> USE ThreadsDisjoint DEF Threads, App, Goto, Starting, Executing, Waiting
<1>1. ASSUME NEW t \in Starters, CreateThread(t) PROVE ThreadInv'
  BY <1>1 DEF CreateThread, ThreadInv, TypeOK, RolesOK, OneExecutor,
              SemaphoreConserved, HandleNamesWorker, HoldsExit
<1>2. ASSUME NEW t \in Starters, RunThreadHere(t) PROVE ThreadInv'
  BY <1>2 DEF RunThreadHere, ThreadInv, TypeOK, RolesOK, OneExecutor,
              SemaphoreConserved, HandleNamesWorker, HoldsExit
<1>3. ASSUME NEW t \in Starters, PrepareClearExit(t) PROVE ThreadInv'
  BY <1>3 DEF PrepareClearExit, ThreadInv, TypeOK, RolesOK, OneExecutor,
              SemaphoreConserved, HandleNamesWorker, HoldsExit
<1>4. ASSUME NEW t \in Starters, PrepareClearState(t) PROVE ThreadInv'
  BY <1>4 DEF PrepareClearState, ThreadInv, TypeOK, RolesOK, OneExecutor,
              SemaphoreConserved, HandleNamesWorker, HoldsExit, States
<1>5. ASSUME NEW t \in Starters, PrepareWait(t) PROVE ThreadInv'
  BY <1>5 DEF PrepareWait, ThreadInv, TypeOK, RolesOK, OneExecutor,
              SemaphoreConserved, HandleNamesWorker, HoldsExit
<1>6. ASSUME NEW t \in Starters, SpawnFails(t) PROVE ThreadInv'
  BY <1>6 DEF SpawnFails, ThreadInv, TypeOK, RolesOK, OneExecutor,
              SemaphoreConserved, HandleNamesWorker, HoldsExit
<1>7. ASSUME NEW t \in Starters, NEW w \in Workers, SpawnOK(t, w) PROVE ThreadInv'
  BY <1>7 DEF SpawnOK, ThreadInv, TypeOK, RolesOK, OneExecutor,
              SemaphoreConserved, HandleNamesWorker, HoldsExit
<1>8. ASSUME NEW t \in App, EndThread(t) PROVE ThreadInv'
  BY <1>8 DEF EndThread, ThreadInv, TypeOK, RolesOK, OneExecutor,
              SemaphoreConserved, HandleNamesWorker, HoldsExit
<1>9. ASSUME NEW t \in App, WaitUntilExit(t) PROVE ThreadInv'
  BY <1>9 DEF WaitUntilExit, ThreadInv, TypeOK, RolesOK, OneExecutor,
              SemaphoreConserved, HandleNamesWorker, HoldsExit
<1>10. ASSUME NEW t \in App, WaitAcquire(t) PROVE ThreadInv'
  BY <1>10 DEF WaitAcquire, ThreadInv, TypeOK, RolesOK, OneExecutor,
              SemaphoreConserved, HandleNamesWorker, HoldsExit
<1>11. ASSUME NEW t \in App, WaitReturn(t) PROVE ThreadInv'
  BY <1>11 DEF WaitReturn, ThreadInv, TypeOK, RolesOK, OneExecutor,
              SemaphoreConserved, HandleNamesWorker, HoldsExit
<1>12. ASSUME NEW t \in Threads, NotifyExit(t) PROVE ThreadInv'
  BY <1>12 DEF NotifyExit, ThreadInv, TypeOK, RolesOK, OneExecutor,
              SemaphoreConserved, HandleNamesWorker, HoldsExit
\* The other steps of an executor keep the token.
<1>13. ASSUME NEW t \in Threads, Execute(t), ~NotifyExit(t) PROVE ThreadInv'
  <2>1. /\ pc[t] \in Executing
        /\ \E l \in Executing : pc' = [pc EXCEPT ![t] = l]
        /\ state' \in States
        /\ UNCHANGED <<ciThreadHandle, bExit, semExit, here>>
    BY <1>13 DEF Execute, Dispatch, ThreadProcEntry, InitInstanceOK, InitInstanceFails, EnterRun,
                 LeaveRun, RunOK, RunFails, ExitInstance, Finish, ThreadInv,
                 TypeOK, States
  <2>2. PICK l \in Executing : pc' = [pc EXCEPT ![t] = l]
    BY <2>1
  <2>3. TypeOK' /\ RolesOK'
    BY <2>1, <2>2 DEF ThreadInv, TypeOK, RolesOK
  <2>4. \A u \in Threads : HoldsExit(u)' <=> HoldsExit(u)
    BY <2>1, <2>2 DEF HoldsExit, ThreadInv, TypeOK
  <2>5. OneExecutor' /\ SemaphoreConserved'
    BY <2>1, <2>4 DEF ThreadInv, OneExecutor, SemaphoreConserved
  <2>6. HandleNamesWorker'
    BY <2>1, <2>2 DEF ThreadInv, TypeOK, HandleNamesWorker
  <2>. QED
    BY <2>3, <2>5, <2>6 DEF ThreadInv
<1>14. CASE UNCHANGED threadVars
  BY <1>14 DEF threadVars, ThreadInv, TypeOK, RolesOK, OneExecutor,
              SemaphoreConserved, HandleNamesWorker, HoldsExit
<1>. QED
  BY <1>1, <1>2, <1>3, <1>4, <1>5, <1>6, <1>7, <1>8, <1>9, <1>10, <1>11,
     <1>12, <1>13, <1>14 DEF Next, Start, Stop, Wait

\* For any number of threads calling CreateThread, RunThreadHere, EndThread
\* and WaitUntilExit at once, the members keep their types, m_semExit has one
\* token, one thread at most executes ThreadProc, and the handle names the
\* living pthread.
THEOREM ThreadInvariant == Spec => []ThreadInv
<1>1. Init => ThreadInv
  BY InitThreadInv
<1>2. ThreadInv /\ [Next]_threadVars => ThreadInv'
  BY StepThreadInv
<1>. QED
  BY <1>1, <1>2, PTL DEF Spec

\* The members and the places of the threads keep their types.
THEOREM TypeAlwaysOK == Spec => []TypeOK
<1>1. ThreadInv => TypeOK
  BY DEF ThreadInv
<1>. QED
  BY <1>1, ThreadInvariant, PTL

\* While a pthread executes the object m_ciThreadHandle names it.
THEOREM HandleAlwaysNamesWorker == Spec => []HandleNamesWorker
<1>1. ThreadInv => HandleNamesWorker
  BY DEF ThreadInv
<1>. QED
  BY <1>1, ThreadInvariant, PTL

\* At most one thread is between Wait and Post on m_semExit.
THEOREM OneExecutorAlways == Spec => []OneExecutor
<1>1. ThreadInv => OneExecutor
  BY DEF ThreadInv
<1>. QED
  BY <1>1, ThreadInvariant, PTL

\* No Post of m_semExit is lost or doubled.
THEOREM SemaphoreAlwaysConserved == Spec => []SemaphoreConserved
<1>1. ThreadInv => SemaphoreConserved
  BY DEF ThreadInv
<1>. QED
  BY <1>1, ThreadInvariant, PTL
-----------------------------------------------------------------------------
(* One starter: the discipline the examples follow (only main starts the   *)
(* responder).                                                             *)

SingleStarter == \A s, t \in Starters : s = t

\* The handle found NULL by CreateThread and RunThreadHere is still NULL when
\* PrepareRunning ends: nobody else can have set it.
StartHasNoHandle ==
  \A t \in Starters : pc[t] \in Starting \cup {"spawn"} => ciThreadHandle = NoThread

StarterInv == /\ StartHasNoHandle
              /\ StartsFresh
              /\ \A t \in Starters : pc[t] = "waitSem" => state = "READY"

\* Before a start has its token no pthread is alive and no other application
\* thread executes, so ThreadProc runs nowhere.
LEMMA StartingMeansStopped ==
  ASSUME SingleStarter, ThreadInv, StartHasNoHandle,
         NEW s \in Starters, pc[s] \in Starting \cup {"spawn"}
  PROVE  Executors = {}
<1> USE ThreadsDisjoint DEF Threads, App, Starting, Executing, Waiting
<1>1. \A w \in Workers : pc[w] = "gone"
  BY DEF StartHasNoHandle, ThreadInv, HandleNamesWorker
<1>2. \A c \in Closers : pc[c] \notin Executing
  BY DEF ThreadInv, RolesOK
<1>3. \A t \in Starters : pc[t] \notin Executing
  BY DEF SingleStarter
<1>. QED
  BY <1>1, <1>2, <1>3 DEF Executors

\* With one starter every step keeps StarterInv.
LEMMA StepStarterInv ==
  ASSUME SingleStarter, ThreadInv, StarterInv, [Next]_threadVars
  PROVE  StarterInv'
<1> USE ThreadsDisjoint DEF Threads, App, Goto, Starting, Executing, Waiting
<1> DEFINE Early(t) == pc[t] \in Starting \cup {"spawn"}
<1>1. ASSUME NEW t \in Starters, Start(t) PROVE StarterInv'
  <2>1. \A u \in Starters : u = t
    BY DEF SingleStarter
  <2>2. CASE CreateThread(t) \/ RunThreadHere(t)
    BY <2>1, <2>2 DEF CreateThread, RunThreadHere, StarterInv, StartHasNoHandle,
       StartsFresh, ThreadInv, TypeOK
  <2>3. CASE PrepareClearExit(t) \/ PrepareClearState(t) \/ PrepareWait(t)
    BY <2>1, <2>3 DEF PrepareClearExit, PrepareClearState, PrepareWait, StarterInv,
       StartHasNoHandle, StartsFresh, ThreadInv, TypeOK
  <2>4. CASE SpawnFails(t) \/ \E w \in Workers : SpawnOK(t, w)
    BY <2>1, <2>4 DEF SpawnFails, SpawnOK, StarterInv, StartHasNoHandle,
       StartsFresh, ThreadInv, TypeOK
  <2>. QED
    BY <1>1, <2>2, <2>3, <2>4 DEF Start
<1>2. ASSUME NEW t \in App, Stop(t) \/ Wait(t) PROVE StarterInv'
  BY <1>2 DEF Stop, Wait, EndThread, WaitUntilExit, WaitAcquire, WaitReturn,
     StarterInv, StartHasNoHandle, StartsFresh, ThreadInv, TypeOK
<1>3. ASSUME NEW t \in Threads, Execute(t) PROVE StarterInv'
  <2>1. pc[t] \in Executing
    BY <1>3 DEF Execute, Dispatch, ThreadProcEntry, InitInstanceOK, InitInstanceFails, EnterRun,
       LeaveRun, RunOK, RunFails, ExitInstance, Finish, NotifyExit, ThreadInv, TypeOK, States
  <2>2. \A s \in Starters : ~Early(s)
    BY <2>1, StartingMeansStopped DEF StarterInv, Executors
  <2>3. \E l \in Executing \cup {"idle", "gone"} : pc' = [pc EXCEPT ![t] = l]
    BY <1>3 DEF Execute, Dispatch, ThreadProcEntry, InitInstanceOK, InitInstanceFails, EnterRun,
       LeaveRun, RunOK, RunFails, ExitInstance, Finish, NotifyExit, ThreadInv, TypeOK, States
  <2>4. \A s \in Starters : ~Early(s)'
    BY <2>2, <2>3 DEF ThreadInv, TypeOK
  <2>. QED
    BY <2>4 DEF StarterInv, StartHasNoHandle, StartsFresh
<1>4. CASE UNCHANGED threadVars
  BY <1>4 DEF threadVars, StarterInv, StartHasNoHandle, StartsFresh
<1>. QED
  BY <1>1, <1>2, <1>3, <1>4 DEF Next

\* With one starter StarterInv always holds.
THEOREM StarterInvariant ==
  ASSUME SingleStarter
  PROVE  Spec => []StarterInv
<1>1. Init => StarterInv
  BY ThreadsDisjoint DEF Init, StarterInv, StartHasNoHandle, StartsFresh,
     Starting, Threads, App
<1>2. ThreadInv /\ StarterInv /\ [Next]_threadVars => StarterInv'
  BY StepStarterInv
<1>. QED
  BY <1>1, <1>2, ThreadInvariant, PTL DEF Spec

\* With one starter PrepareRunning never writes m_bExit and m_state of an
\* object that is executing.
THEOREM ResetOnlyWhenStoppedAlways ==
  ASSUME SingleStarter
  PROVE  Spec => []ResetOnlyWhenStopped
<1>1. ThreadInv /\ StarterInv => ResetOnlyWhenStopped
  BY StartingMeansStopped DEF ResetOnlyWhenStopped, StarterInv, Starting
<1>. QED
  BY <1>1, ThreadInvariant, StarterInvariant, PTL

\* With one starter the thread that is created finds m_state READY.
THEOREM StartsFreshAlways ==
  ASSUME SingleStarter
  PROVE  Spec => []StartsFresh
<1>1. StarterInv => StartsFresh
  BY DEF StarterInv
<1>. QED
  BY <1>1, StarterInvariant, PTL

\* NULL, by WaitUntilExit and after the pthread left the object.
THEOREM HandleNeverOverwrittenAlways ==
  ASSUME SingleStarter
  PROVE  Spec => HandleNeverOverwritten
<1> DEFINE Kept == [/\ ciThreadHandle # NoThread
                         => ciThreadHandle' \in {ciThreadHandle, NoThread}
                    /\ ciThreadHandle' = NoThread
                         => \A w \in Workers : pc[w] = "gone"]_ciThreadHandle
<1>1. ThreadInv /\ StarterInv /\ [Next]_threadVars => Kept
  <2> SUFFICES ASSUME ThreadInv, StarterInv, Next,
                      ciThreadHandle' # ciThreadHandle
               PROVE  Kept
    BY DEF threadVars
  <2> USE ThreadsDisjoint DEF Threads, App, Executing, Starting, Waiting
  <2>1. CASE \E t \in Starters, w \in Workers : SpawnOK(t, w)
    BY <2>1 DEF SpawnOK, StarterInv, StartHasNoHandle
  <2>2. CASE \E t \in Starters : SpawnFails(t)
    BY <2>2 DEF SpawnFails, StarterInv, StartHasNoHandle
  <2>3. CASE \E t \in App : WaitReturn(t)
    BY <2>3 DEF WaitReturn, ThreadInv, RolesOK, OneExecutor, HoldsExit
  <2>. QED
    BY <2>1, <2>2, <2>3 DEF Next, Start, Stop, Wait, Execute, CreateThread,
       RunThreadHere, PrepareClearExit, PrepareClearState, PrepareWait,
       EndThread, WaitUntilExit, WaitAcquire, Dispatch, InitInstanceOK,
       InitInstanceFails, EnterRun, LeaveRun, RunOK, RunFails, ExitInstance,
       Finish, NotifyExit
<1>. QED
  BY <1>1, ThreadInvariant, StarterInvariant, PTL DEF Spec, HandleNeverOverwritten
=============================================================================
