--------------------------- MODULE HBResponser_proofs ---------------------------
(***************************************************************************)
(* Proofs about HBResponser, for every set of threads, descriptors and     *)
(* datagrams and every size of the poll table.  The life cycle of the      *)
(* thread object is taken from the proofs about CiThread, of which every   *)
(* step of the responder is a step; what is added is the state of the      *)
(* network thread: its tables, its descriptors and its place inside the    *)
(* virtual functions.                                                      *)
(***************************************************************************)
EXTENDS HBResponser, FiniteSetTheorems, TLAPS

\* The thread object, with what is proved about it.
Life == INSTANCE CiThread_proofs

LEMMA LifeThreads ==
  Life!ThreadsDisjoint /\ Thread!Threads = Life!Threads /\ Thread!App = Life!App
BY ResponserThreads DEF Life!ThreadsDisjoint, Life!App, Life!Threads, Thread!App, Thread!Threads

\* The virtual functions of the responder end as those of the thread object.
LEMMA VirtualFunctions ==
  ASSUME NEW t
  PROVE  /\ Thread!InitInstanceOK(t) => Life!InitInstanceOK(t)
         /\ Thread!InitInstanceFails(t) => Life!InitInstanceFails(t)
         /\ Thread!RunOK(t) => Life!RunOK(t)
         /\ Thread!ExitInstance(t) => Life!ExitInstance(t)
BY DEF Thread!InitInstanceOK, Life!InitInstanceOK, Thread!InitInstanceFails,
   Life!InitInstanceFails, Thread!RunOK, Life!RunOK, Thread!ExitInstance,
   Life!ExitInstance, Thread!Goto, Life!Goto

\* The places of the executor inside InitInstance and inside Run.
InitPlaces == {"reuse", "bind", "register"}
RunPlaces  == {"poll", "polled", "scan", "recv", "message", "send"}

\* A step of InitInstance stays inside it or ends it, and so does one of Run.
LEMMA InitStep ==
  ASSUME NEW t, InitInstance(t)
  PROVE  /\ pc[t] = "init"
         /\ \/ UNCHANGED threadVars /\ at' \in InitPlaces
            \/ (Life!InitInstanceOK(t) \/ Life!InitInstanceFails(t)) /\ at' = "none"
BY VirtualFunctions DEF InitInstance, CreateSocket, CreateSocketFails, SetReuseAddr,
   Bind, SocketOptionFails, Register, InitReturns, Unmoved, InitPlaces

LEMMA RunStep ==
  ASSUME NEW t, Run(t)
  PROVE  /\ pc[t] = "run"
         /\ \/ UNCHANGED threadVars /\ at' \in RunPlaces
            \/ Life!RunOK(t) /\ at' = "none"
BY VirtualFunctions DEF Run, RunSeesExit, EnterPoll, PollReady, PollError,
   PollTimeout, PollFails, EnterRead, ScanNext, ScanEnds, ReceiveRequest, ReceiveOther,
   ReceiveFails, BuildResponse, SendResponse, SendFails, EventServed, RunReturns, Unmoved,
   RunPlaces

\* ThreadStep in the terms of the proofs about CiThread.
LEMMA ThreadStepIs ==
  ThreadStep =>
    \/ \E t \in Starters : Life!Start(t)
    \/ \E t \in Life!App : Life!Stop(t) \/ Life!Wait(t)
    \/ \E t \in Life!Threads :
         \/ Life!Dispatch(t) \/ Life!EnterRun(t) \/ Life!LeaveRun(t)
         \/ Life!Finish(t) \/ Life!NotifyExit(t)
<1>1. ASSUME NEW t
      PROVE  Thread!Start(t) => Life!Start(t)
  BY DEF Thread!Start, Life!Start, Thread!CreateThread, Life!CreateThread,
     Thread!RunThreadHere, Life!RunThreadHere, Thread!PrepareClearExit,
     Life!PrepareClearExit, Thread!PrepareClearState, Life!PrepareClearState,
     Thread!PrepareWait, Life!PrepareWait, Thread!SpawnFails, Life!SpawnFails,
     Thread!SpawnOK, Life!SpawnOK, Thread!Goto, Life!Goto
<1>2. ASSUME NEW t
      PROVE  Thread!Stop(t) \/ Thread!Wait(t) => Life!Stop(t) \/ Life!Wait(t)
  BY DEF Thread!Stop, Life!Stop, Thread!Wait, Life!Wait, Thread!EndThread, Life!EndThread,
     Thread!WaitUntilExit, Life!WaitUntilExit, Thread!WaitAcquire, Life!WaitAcquire,
     Thread!WaitReturn, Life!WaitReturn, Thread!Goto, Life!Goto
<1>3. ASSUME NEW t
      PROVE  /\ Thread!Dispatch(t) => Life!Dispatch(t)
             /\ Thread!EnterRun(t) => Life!EnterRun(t)
             /\ Thread!LeaveRun(t) => Life!LeaveRun(t)
             /\ Thread!Finish(t) => Life!Finish(t)
             /\ Thread!NotifyExit(t) => Life!NotifyExit(t)
  BY DEF Thread!Dispatch, Life!Dispatch, Thread!ThreadProcEntry, Life!ThreadProcEntry,
     Thread!EnterRun, Life!EnterRun, Thread!LeaveRun, Life!LeaveRun, Thread!Finish,
     Life!Finish, Thread!NotifyExit, Life!NotifyExit, Thread!Goto, Life!Goto,
     Thread!App, Life!App
<1>. QED
  BY <1>1, <1>2, <1>3, LifeThreads DEF ThreadStep

\* Every step of the responder is one of its thread object, or none.
LEMMA ThreadMoves == [Next]_vars => [Life!Next]_(Life!threadVars)
<1> SUFFICES ASSUME [Next]_vars PROVE Life!Next \/ UNCHANGED threadVars
  BY DEF threadVars, Life!threadVars
<1>1. CASE ThreadStep
  BY <1>1, ThreadStepIs DEF Life!Next, Life!Execute
<1>2. ASSUME NEW t \in Thread!Threads, InitInstance(t) \/ Run(t) \/ CloseAll(t)
      PROVE  Life!Next \/ UNCHANGED threadVars
  <2>1. CloseAll(t) => Life!ExitInstance(t)
    BY VirtualFunctions DEF CloseAll
  <2>. QED
    BY <1>2, <2>1, InitStep, RunStep, LifeThreads DEF Life!Next, Life!Execute
<1>3. CASE \E s \in ProcessStates : SetProcessState(s)
  BY <1>3 DEF SetProcessState
<1>4. CASE \E d \in Datagrams : Arrive(d)
  BY <1>4 DEF Arrive
<1>5. CASE UNCHANGED vars
  BY <1>5 DEF vars
<1>. QED
  BY <1>1, <1>2, <1>3, <1>4, <1>5 DEF Next

\* The responder's thread object keeps what CiThread promises.
LEMMA InitLife == Init => Life!ThreadInv
<1>1. Init => Life!Init
  BY DEF Init, Thread!Init, Life!Init, Thread!Threads, Life!Threads, Thread!App, Life!App
<1>. QED
  BY <1>1, LifeThreads, Life!InitThreadInv DEF Life!ThreadsDisjoint

LEMMA StepLife == Life!ThreadInv /\ [Next]_vars => Life!ThreadInv'
BY ThreadMoves, LifeThreads, Life!StepThreadInv DEF Life!ThreadsDisjoint

THEOREM ResponserThread == Spec => []Life!ThreadInv
<1>1. Init => Life!ThreadInv
  BY InitLife
<1>2. Life!ThreadInv /\ [Next]_vars => Life!ThreadInv'
  BY StepLife
<1>. QED
  BY <1>1, <1>2, PTL DEF Spec
-----------------------------------------------------------------------------
(* Where the executor is, and that it always ends with ExitInstance.       *)

\* The values of m_state behind ExitInstance, and the executor there.
Ended == {"DONE_EXITINSTANCE", "DONE_EXITINSTANCE_ERROR", "DONE", "DONE_ERROR"}
BehindExit(t) == pc[t] \in {"finish", "notify"} \/ (pc[t] = "loop" /\ state \in Ended)

Released == readSockets = {} /\ pollFds = <<>>

\* A place inside a virtual function belongs to the thread that executes it.
PlaceOwned ==
  /\ at \in InitPlaces => \E t \in Life!Threads : pc[t] = "init"
  /\ at \in RunPlaces  => \E t \in Life!Threads : pc[t] = "run"

\* A virtual function that may fill the tables is only entered before
\* ExitInstance, also when another starter resets m_state meanwhile.
BeforeExit ==
  \A t \in Life!Threads : pc[t] \in {"init", "checkExit", "run"} => state \notin Ended

\* Tables that are not empty have an executor that has ExitInstance ahead.
TablesOwned ==
  Released \/ \E t \in Life!Threads : pc[t] \in Life!Executing /\ ~BehindExit(t)

LifeCycle == PlaceOwned /\ BeforeExit /\ TablesOwned

\* At most one thread executes the responder; the rest of what ThreadInv says
\* that is needed here.
LEMMA OneAtWork ==
  ASSUME Life!ThreadInv
  PROVE  /\ \A t, u \in Life!Threads :
              pc[t] \in Life!Executing /\ pc[u] \in Life!Executing => t = u
         /\ DOMAIN pc = Life!Threads
         /\ pc \in [Life!Threads -> {"idle", "gone", "spawn"} \cup Life!Starting
                         \cup Life!Executing \cup Life!Waiting]
         /\ state \in Life!States
BY DEF Life!ThreadInv, Life!OneExecutor, Life!HoldsExit, Life!TypeOK

\* The steps of the thread object outside the virtual functions.
LEMMA ThreadStepLifeCycle ==
  ASSUME Life!ThreadInv, LifeCycle, ThreadStep
  PROVE  LifeCycle'
<1> USE DEF Life!Executing, Life!Starting, Life!Waiting, Life!Goto, BehindExit
<1>0. at' = at /\ readSockets' = readSockets /\ pollFds' = pollFds
  BY DEF ThreadStep, tableVars
<1>1. ASSUME NEW t \in Starters, Life!Start(t)
      PROVE  LifeCycle'
  <2>1. t \in Life!Threads /\ pc[t] \in {"idle", "spawn"} \cup Life!Starting
    BY <1>1 DEF Life!Start, Life!CreateThread, Life!RunThreadHere, Life!PrepareClearExit,
       Life!PrepareClearState, Life!PrepareWait, Life!SpawnFails, Life!SpawnOK,
       Life!Threads, Life!App
  <2>2. state' = state \/ state' = "READY"
    BY <1>1 DEF Life!Start, Life!CreateThread, Life!RunThreadHere, Life!PrepareClearExit,
       Life!PrepareClearState, Life!PrepareWait, Life!SpawnFails, Life!SpawnOK
  \* Who executes goes on; who begins to execute begins in the loop.
  <2>3. \A u \in Life!Threads :
          /\ pc[u] \in Life!Executing => pc'[u] = pc[u]
          /\ pc'[u] # pc[u] => pc'[u] \notin {"init", "checkExit", "run"}
    BY <1>1, <2>1, OneAtWork DEF Life!Start, Life!CreateThread, Life!RunThreadHere,
       Life!PrepareClearExit, Life!PrepareClearState, Life!PrepareWait, Life!SpawnFails,
       Life!SpawnOK, Life!Threads
  <2>4. state \notin Ended => state' \notin Ended
    BY <2>2 DEF Ended
  <2>5. PlaceOwned'
    BY <1>0, <2>3 DEF LifeCycle, PlaceOwned
  <2>6. BeforeExit'
    BY <2>3, <2>4 DEF LifeCycle, BeforeExit
  <2>7. TablesOwned'
    BY <1>0, <2>3, <2>4 DEF LifeCycle, TablesOwned, Released
  <2>. QED
    BY <2>5, <2>6, <2>7 DEF LifeCycle
<1>2. ASSUME NEW t \in Life!App, Life!Stop(t) \/ Life!Wait(t)
      PROVE  LifeCycle'
  <2>1. state' = state /\ \A u \in Life!Threads :
          /\ pc[u] \in Life!Executing => pc'[u] = pc[u]
          /\ pc'[u] # pc[u] => pc'[u] \notin {"init", "checkExit", "run"}
    BY <1>2, OneAtWork DEF Life!Stop, Life!Wait, Life!EndThread, Life!WaitUntilExit,
       Life!WaitAcquire, Life!WaitReturn
  <2>2. PlaceOwned' /\ BeforeExit'
    BY <1>0, <2>1 DEF LifeCycle, PlaceOwned, BeforeExit
  <2>3. TablesOwned'
    BY <1>0, <2>1 DEF LifeCycle, TablesOwned, Released
  <2>. QED
    BY <2>2, <2>3 DEF LifeCycle
\* A step of the executor itself, who is the only one.
<1>3. ASSUME NEW t \in Life!Threads, pc[t] \in {"loop", "checkExit", "finish", "notify"},
             NEW l, pc' = [pc EXCEPT ![t] = l],
             l \in {"init", "checkExit", "run"} => state' \notin Ended,
             BehindExit(t) \/ (l \in Life!Executing /\ ~BehindExit(t)')
      PROVE  LifeCycle'
  <2>1. \A u \in Life!Threads : u # t => pc[u] \notin Life!Executing /\ pc'[u] = pc[u]
    BY <1>3, OneAtWork
  <2>2. pc'[t] = l
    BY <1>3, OneAtWork
  <2>3. PlaceOwned'
    BY <1>0, <1>3, <2>1 DEF LifeCycle, PlaceOwned
  <2>4. BeforeExit'
    BY <1>3, <2>1, <2>2 DEF BeforeExit
  <2>5. TablesOwned'
    BY <1>0, <1>3, <2>1, <2>2 DEF LifeCycle, TablesOwned, Released
  <2>. QED
    BY <2>3, <2>4, <2>5 DEF LifeCycle
<1>4. ASSUME NEW t \in Life!Threads, Life!Dispatch(t)
      PROVE  LifeCycle'
  <2>1. /\ pc[t] = "loop" /\ state' = state
        /\ pc' = [pc EXCEPT ![t] = Life!ThreadProcEntry[state]]
    BY <1>4 DEF Life!Dispatch
  <2>2. \/ /\ state \in Ended
           /\ Life!ThreadProcEntry[state] \in {"finish", "notify"}
        \/ /\ state \notin Ended
           /\ Life!ThreadProcEntry[state] \in {"init", "checkExit", "exit"}
    BY OneAtWork DEF Life!States, Life!ThreadProcEntry, Ended
  <2>3. pc'[t] = Life!ThreadProcEntry[state]
    BY <2>1, OneAtWork
  <2>. QED
    BY <1>3, <2>1, <2>2, <2>3
<1>5. ASSUME NEW t \in Life!Threads, Life!EnterRun(t)
      PROVE  LifeCycle'
  <2>1. pc[t] = "checkExit" /\ state' = state /\ pc' = [pc EXCEPT ![t] = "run"]
    BY <1>5 DEF Life!EnterRun
  <2>2. pc'[t] = "run" /\ state \notin Ended
    BY <2>1, OneAtWork DEF LifeCycle, BeforeExit
  <2>. QED
    BY <1>3, <2>1, <2>2
<1>6. ASSUME NEW t \in Life!Threads, Life!LeaveRun(t)
      PROVE  LifeCycle'
  <2>1. pc[t] = "checkExit" /\ state' = "DONE_RUN" /\ pc' = [pc EXCEPT ![t] = "exit"]
    BY <1>6 DEF Life!LeaveRun
  <2>2. pc'[t] = "exit"
    BY <2>1, OneAtWork
  <2>. QED
    BY <1>3, <2>1, <2>2
<1>7. ASSUME NEW t \in Life!Threads, Life!Finish(t)
      PROVE  LifeCycle'
  <2>1. pc[t] = "finish" /\ pc' = [pc EXCEPT ![t] = "loop"]
    BY <1>7 DEF Life!Finish
  <2>. QED
    BY <1>3, <2>1
<1>8. ASSUME NEW t \in Life!Threads, Life!NotifyExit(t)
      PROVE  LifeCycle'
  <2>1. /\ pc[t] = "notify"
        /\ pc' = [pc EXCEPT ![t] = "idle"] \/ pc' = [pc EXCEPT ![t] = "gone"]
    BY <1>8 DEF Life!NotifyExit
  <2>. QED
    BY <1>3, <2>1
<1>. QED
  BY <1>1, <1>2, <1>4, <1>5, <1>6, <1>7, <1>8, ThreadStepIs

\* A step inside a virtual function, or the end of one.
LEMMA VirtualStepLifeCycle ==
  ASSUME Life!ThreadInv, LifeCycle,
         NEW t \in Life!Threads, InitInstance(t) \/ Run(t) \/ CloseAll(t)
  PROVE  LifeCycle'
<1> USE DEF Life!Executing, Life!Goto, BehindExit
<1>0. /\ pc[t] \in {"init", "run", "exit"}
      /\ \A u \in Life!Threads : u # t => pc[u] \notin Life!Executing
  BY InitStep, RunStep, OneAtWork DEF CloseAll
<1>1. CASE UNCHANGED threadVars /\ ((InitInstance(t) /\ at' \in InitPlaces) \/ (Run(t) /\ at' \in RunPlaces))
  <2>1. pc' = pc /\ state' = state
    BY <1>1 DEF threadVars
  <2>2. PlaceOwned'
    BY <1>1, <2>1, InitStep, RunStep DEF PlaceOwned, InitPlaces, RunPlaces
  <2>3. BeforeExit'
    BY <2>1 DEF LifeCycle, BeforeExit
  <2>4. TablesOwned'
    BY <1>1, <2>1, InitStep, RunStep DEF TablesOwned
  <2>. QED
    BY <2>2, <2>3, <2>4 DEF LifeCycle
<1>2. CASE /\ Life!InitInstanceOK(t) \/ Life!InitInstanceFails(t) \/ Life!RunOK(t)
           /\ at' = "none"
  <2>1. /\ \/ /\ pc[t] = "init" /\ pc' = [pc EXCEPT ![t] = "checkExit"]
              /\ state' = "DONE_INITINSTANCE"
           \/ /\ pc[t] = "init" /\ pc' = [pc EXCEPT ![t] = "loop"] /\ state' = "ERROR"
           \/ /\ pc[t] = "run" /\ pc' = [pc EXCEPT ![t] = "loop"] /\ state' = state
    BY <1>2 DEF Life!InitInstanceOK, Life!InitInstanceFails, Life!RunOK
  <2>2. /\ state' \notin Ended /\ pc'[t] \in {"checkExit", "loop"}
        /\ \A u \in Life!Threads : u # t => pc'[u] = pc[u]
    BY <2>1, OneAtWork DEF LifeCycle, BeforeExit, Ended
  <2>3. PlaceOwned'
    BY <1>2 DEF PlaceOwned, InitPlaces, RunPlaces
  <2>4. BeforeExit' /\ TablesOwned'
    BY <2>2 DEF BeforeExit, TablesOwned
  <2>. QED
    BY <2>3, <2>4 DEF LifeCycle
<1>3. CASE CloseAll(t)
  <2>1. Released' /\ at' = at /\ Life!ExitInstance(t)
    BY <1>3, VirtualFunctions DEF CloseAll, Released
  <2>2. pc[t] = "exit" /\ pc' = [pc EXCEPT ![t] = "finish"]
    BY <2>1 DEF Life!ExitInstance
  <2>3. pc'[t] = "finish" /\ \A u \in Life!Threads : u # t => pc'[u] = pc[u]
    BY <2>2, OneAtWork
  <2>4. PlaceOwned'
    BY <1>0, <2>1, <2>2 DEF LifeCycle, PlaceOwned
  <2>5. BeforeExit'
    BY <1>0, <2>3 DEF BeforeExit
  <2>. QED
    BY <2>1, <2>4, <2>5 DEF LifeCycle, TablesOwned
<1>. QED
  BY <1>1, <1>2, <1>3, InitStep, RunStep

LEMMA StepLifeCycle == Life!ThreadInv /\ LifeCycle /\ [Next]_vars => LifeCycle'
<1> SUFFICES ASSUME Life!ThreadInv, LifeCycle, [Next]_vars PROVE LifeCycle'
  OBVIOUS
<1>1. ASSUME NEW t \in Thread!Threads, InitInstance(t) \/ Run(t) \/ CloseAll(t)
      PROVE  LifeCycle'
  BY <1>1, VirtualStepLifeCycle, LifeThreads
\* Nobody else moves the executor or touches the tables.
<1>2. CASE \/ \E s \in ProcessStates : SetProcessState(s)
           \/ \E d \in Datagrams : Arrive(d)
           \/ UNCHANGED vars
  <2>1. UNCHANGED <<pc, state, at, readSockets, pollFds>>
    BY <1>2 DEF SetProcessState, Arrive, vars, threadVars, tableVars
  <2>2. PlaceOwned' /\ BeforeExit'
    BY <2>1 DEF LifeCycle, PlaceOwned, BeforeExit
  <2>3. TablesOwned'
    BY <2>1 DEF LifeCycle, TablesOwned, Released, BehindExit
  <2>. QED
    BY <2>2, <2>3 DEF LifeCycle
<1>. QED
  BY <1>1, <1>2, ThreadStepLifeCycle DEF Next

\* However many threads start and stop the responder: the executor's place is
\* its own, and tables that were filled have ExitInstance ahead of them.
THEOREM LifeCycleInvariant == Spec => [](Life!ThreadInv /\ LifeCycle)
<1>1. Init => LifeCycle
  BY DEF Init, LifeCycle, PlaceOwned, BeforeExit, TablesOwned, Released, InitPlaces,
     RunPlaces, Thread!Init, Ended
<1>2. Life!ThreadInv /\ LifeCycle /\ [Next]_vars => LifeCycle'
  BY StepLifeCycle
<1>. QED
  BY <1>1, <1>2, ResponserThread, PTL DEF Spec
-----------------------------------------------------------------------------
(* The tables, the descriptors and the scan.                               *)

\* A bound socket is a read socket, or InitInstance is about to make it one.
PortAccounted ==
  \A f \in Fds : /\ f \in readSockets => socketOf[f] = "bound"
                 /\ socketOf[f] = "bound" =>
                      f \in readSockets \/ (at = "register" /\ f = sockfd)

\* The local sockfd of InitInstance is a new descriptor.
NewSocket ==
  at \in InitPlaces =>
    /\ sockfd \in Fds \ readSockets
    /\ socketOf[sockfd] = IF at = "register" THEN "bound" ELSE "open"

\* ProcessReadEvent has an event to serve, and its index is in the table.
ScanInBounds ==
  /\ at \in RunPlaces \ {"poll"} => eventsCount > 0
  /\ at = "scan" => cursor \in 1..(Len(pollFds) + 1)
  /\ at \in {"recv", "message", "send"} => cursor \in 1..Len(pollFds)

TablesInv == /\ TypeOK
             /\ NoStaleDescriptor
             /\ PortAccounted
             /\ NewSocket
             /\ ScanInBounds

\* An entry of m_PollFds.
Entry == [fd : Fds, revents : BOOLEAN]

LEMMA EntryMarked ==
  ASSUME NEW e \in Entry, NEW b \in BOOLEAN
  PROVE  /\ [e EXCEPT !.revents = b] \in Entry
         /\ [e EXCEPT !.revents = b].fd = e.fd
         /\ [e EXCEPT !.revents = b].revents = b
BY DEF Entry

LEMMA EntryOf ==
  ASSUME NEW S, NEW s \in Seq(S), NEW i \in 1..Len(s)
  PROVE  s[i] \in S
OBVIOUS

LEMMA ReplaceEntry ==
  ASSUME NEW S, NEW s \in Seq(S), NEW i \in 1..Len(s), NEW e \in S
  PROVE  /\ [s EXCEPT ![i] = e] \in Seq(S)
         /\ Len([s EXCEPT ![i] = e]) = Len(s)
         /\ \A j \in 1..Len(s) : [s EXCEPT ![i] = e][j] = IF j = i THEN e ELSE s[j]
OBVIOUS

LEMMA SeqOfEntries ==
  ASSUME NEW S, NEW n \in Nat, NEW s, s = [i \in 1..n |-> s[i]],
         \A i \in 1..n : s[i] \in S
  PROVE  s \in Seq(S) /\ Len(s) = n
OBVIOUS

LEMMA IndexSet ==
  ASSUME NEW n \in Nat
  PROVE  IsFiniteSet(1..n) /\ Cardinality(1..n) = n
<1>1. 1 \in Int /\ n \in Int
  OBVIOUS
<1>2. /\ IsFiniteSet(1..n)
      /\ Cardinality(1..n) = IF 1 > n THEN 0 ELSE n - 1 + 1
  BY <1>1, FS_Interval, Zenon
<1>. QED
  BY <1>2

LEMMA InitTablesInv == Init => TablesInv
<1> SUFFICES ASSUME Init PROVE TablesInv
  OBVIOUS
<1>1. /\ queue \in Seq(Datagrams) /\ Len(queue) <= MaxQueue
      /\ pollFds \in Seq([fd : Fds, revents : BOOLEAN]) /\ Len(pollFds) <= MaxFDSize
  BY ResponserConstants DEF Init
<1>2. TypeOK
  BY <1>1, ResponserConstants DEF Init, TypeOK, Locations
<1>3. NoStaleDescriptor /\ PortAccounted /\ NewSocket /\ ScanInBounds
  BY DEF Init, NoStaleDescriptor, PortAccounted, NewSocket, ScanInBounds, InitPlaces, RunPlaces
<1>. QED
  BY <1>2, <1>3 DEF TablesInv

\* Opening the socket.
LEMMA InitInstanceTables ==
  ASSUME TablesInv, NEW t, InitInstance(t)
  PROVE  TablesInv'
<1> USE ResponserConstants DEF TablesInv, kernelVars, tableVars, localVars, replyVars
<1>1. CASE CreateSocket(t)
  BY <1>1 DEF CreateSocket, TypeOK, Locations, NoStaleDescriptor, PortAccounted, NewSocket,
     ScanInBounds, InitPlaces, RunPlaces
<1>2. CASE CreateSocketFails(t)
  BY <1>2 DEF CreateSocketFails, InitReturns, TypeOK, Locations, NoStaleDescriptor,
     PortAccounted, NewSocket, ScanInBounds, InitPlaces, RunPlaces
<1>3. CASE SetReuseAddr(t)
  BY <1>3 DEF SetReuseAddr, TypeOK, Locations, NoStaleDescriptor, PortAccounted, NewSocket,
     ScanInBounds, InitPlaces, RunPlaces
<1>4. CASE Bind(t)
  BY <1>4 DEF Bind, TypeOK, Locations, NoStaleDescriptor, PortAccounted, NewSocket,
     ScanInBounds, InitPlaces, RunPlaces
<1>5. CASE SocketOptionFails(t)
  BY <1>5 DEF SocketOptionFails, InitReturns, TypeOK, Locations, NoStaleDescriptor,
     PortAccounted, NewSocket, ScanInBounds, InitPlaces, RunPlaces
<1>6. CASE Register(t)
  <2>1. /\ sockfd \in Fds \ readSockets /\ socketOf[sockfd] = "bound" /\ at = "register"
        /\ readSockets' = readSockets \cup {sockfd} /\ at' = "none" /\ sockfd' = None
        /\ UNCHANGED <<kernelVars, eventsCount, cursor, replyVars, processState>>
    BY <1>6 DEF Register, InitReturns, NewSocket, InitPlaces
  <2>2. /\ pollFds' \in Seq([fd : Fds, revents : BOOLEAN]) /\ Len(pollFds') <= MaxFDSize
        /\ \A i \in 1..Len(pollFds') :
             \/ i \in 1..Len(pollFds) /\ pollFds'[i] = pollFds[i]
             \/ i = Len(pollFds) + 1 /\ pollFds'[i].fd = sockfd
    <3>1. CASE Len(pollFds) < MaxFDSize
      <4>1. pollFds' = Append(pollFds, [fd |-> sockfd, revents |-> FALSE])
        BY <1>6, <3>1 DEF Register
      <4>. QED
        BY <2>1, <3>1, <4>1 DEF TypeOK
    <3>2. CASE ~(Len(pollFds) < MaxFDSize)
      <4>1. pollFds' = pollFds
        BY <1>6, <3>2 DEF Register
      <4>. QED
        BY <4>1 DEF TypeOK
    <3>. QED
      BY <3>1, <3>2
  <2>3. TypeOK'
    BY <2>1, <2>2 DEF TypeOK, Locations
  <2>4. NoStaleDescriptor'
    <3>1. Len(pollFds) \in Nat /\ Len(pollFds') \in Nat
      BY <2>2 DEF TypeOK
    <3>2. \A i \in 1..Len(pollFds') :
            \/ /\ i \in 1..Len(pollFds) /\ pollFds'[i].fd = pollFds[i].fd
               /\ pollFds[i].fd \in readSockets
               /\ socketOf[pollFds[i].fd] = "bound"
            \/ i = Len(pollFds) + 1 /\ pollFds'[i].fd = sockfd
      BY <2>2 DEF NoStaleDescriptor
    <3>3. \A i \in 1..Len(pollFds') : /\ pollFds'[i].fd \in readSockets'
                                      /\ socketOf'[pollFds'[i].fd] = "bound"
      BY <2>1, <3>2
    <3>4. \A i, j \in 1..Len(pollFds') : pollFds'[i].fd = pollFds'[j].fd => i = j
      BY <2>1, <3>1, <3>2 DEF NoStaleDescriptor
    <3>. QED
      BY <3>3, <3>4 DEF NoStaleDescriptor
  <2>5. PortAccounted' /\ NewSocket' /\ ScanInBounds'
    BY <2>1 DEF PortAccounted, NewSocket, ScanInBounds, InitPlaces, RunPlaces
  <2>. QED
    BY <2>3, <2>4, <2>5
<1>. QED
  BY <1>1, <1>2, <1>3, <1>4, <1>5, <1>6 DEF InitInstance

\* Polling and reading.
LEMMA RunTables ==
  ASSUME TablesInv, NEW t, Run(t)
  PROVE  TablesInv'
<1> USE ResponserConstants DEF TablesInv, kernelVars, tableVars, localVars, replyVars, Unmoved
<1>1. CASE RunSeesExit(t)
  BY <1>1 DEF RunSeesExit, RunReturns, TypeOK, Locations, NoStaleDescriptor, PortAccounted,
     NewSocket, ScanInBounds, InitPlaces, RunPlaces
<1>2. CASE EnterPoll(t)
  BY <1>2 DEF EnterPoll, TypeOK, Locations, NoStaleDescriptor, PortAccounted, NewSocket,
     ScanInBounds, InitPlaces, RunPlaces
<1>3. CASE PollReady(t)
  <2> DEFINE reported == {i \in 1..Len(pollFds) : pollFds'[i].revents}
  <2>1. /\ pollFds' = [i \in 1..Len(pollFds) |->
                         [pollFds[i] EXCEPT !.revents = Readable(pollFds[i].fd)]]
        /\ eventsCount' = Cardinality(reported) /\ at = "poll" /\ at' = "polled"
        /\ \E i \in 1..Len(pollFds) : Readable(pollFds[i].fd)
        /\ UNCHANGED <<kernelVars, readSockets, localVars, replyVars, processState>>
    BY <1>3 DEF PollReady
  <2>2. /\ pollFds' \in Seq([fd : Fds, revents : BOOLEAN]) /\ Len(pollFds') = Len(pollFds)
        /\ \A i \in 1..Len(pollFds) :
             pollFds'[i].fd = pollFds[i].fd /\ pollFds'[i].revents = Readable(pollFds[i].fd)
    <3>1. pollFds \in Seq(Entry) /\ Len(pollFds) \in Nat
      BY DEF TypeOK, Entry
    <3>2. \A i \in 1..Len(pollFds) : pollFds[i] \in Entry /\ Readable(pollFds[i].fd) \in BOOLEAN
      BY <3>1, EntryOf DEF Readable
    <3>3. \A i \in 1..Len(pollFds) :
            /\ pollFds'[i] \in Entry
            /\ pollFds'[i].fd = pollFds[i].fd
            /\ pollFds'[i].revents = Readable(pollFds[i].fd)
      <4> SUFFICES ASSUME NEW i \in 1..Len(pollFds)
                   PROVE  /\ pollFds'[i] \in Entry
                          /\ pollFds'[i].fd = pollFds[i].fd
                          /\ pollFds'[i].revents = Readable(pollFds[i].fd)
        OBVIOUS
      <4>1. pollFds'[i] = [pollFds[i] EXCEPT !.revents = Readable(pollFds[i].fd)]
        BY <2>1
      <4>. QED
        BY <3>2, <4>1, EntryMarked
    <3>4. pollFds' \in Seq(Entry) /\ Len(pollFds') = Len(pollFds)
      <4>1. pollFds' = [i \in 1..Len(pollFds) |-> pollFds'[i]]
        BY <2>1
      <4>. QED
        BY <3>1, <3>3, <4>1, SeqOfEntries
    <3>. QED
      BY <3>3, <3>4 DEF Entry
  <2>3. eventsCount' \in 1..MaxFDSize
    <3>1. Len(pollFds) \in Nat /\ Len(pollFds) <= MaxFDSize
      BY DEF TypeOK
    <3>2. IsFiniteSet(1..Len(pollFds)) /\ Cardinality(1..Len(pollFds)) = Len(pollFds)
      BY <3>1, IndexSet
    <3>3. IsFiniteSet(reported) /\ Cardinality(reported) <= Len(pollFds)
      BY <3>2, FS_Subset
    <3>4. reported # {}
      BY <2>1, <2>2
    <3>5. Cardinality(reported) \in Nat /\ Cardinality(reported) # 0
      BY <3>3, <3>4, FS_CardinalityType, FS_EmptySet
    <3>. QED
      BY <2>1, <3>1, <3>3, <3>5
  <2>4. TypeOK'
    <3>1. eventsCount' \in -1..MaxFDSize
      BY <2>3
    <3> HIDE DEF reported
    <3>2. UNCHANGED <<socketOf, queue, readSockets, sockfd, cursor, recvBuf, saRecv, reply,
                      held, late, processState>>
      BY <2>1
    <3>3. reply # None <=> at' = "send"
      BY <2>1 DEF TypeOK
    <3>. QED
      BY <2>1, <2>2, <3>1, <3>2, <3>3 DEF TypeOK, Locations
  <2>5. NoStaleDescriptor'
    BY <2>1, <2>2 DEF NoStaleDescriptor
  <2>6. PortAccounted' /\ NewSocket' /\ ScanInBounds'
    BY <1>3, <2>1, <2>3 DEF PollReady, PortAccounted, NewSocket, ScanInBounds, InitPlaces, RunPlaces
  <2>. QED
    BY <2>4, <2>5, <2>6
<1>4. CASE PollError(t)
  BY <1>4 DEF PollError, TypeOK, Locations, NoStaleDescriptor, PortAccounted, NewSocket,
     ScanInBounds, InitPlaces, RunPlaces
<1>5. CASE PollTimeout(t) \/ PollFails(t)
  BY <1>5 DEF PollTimeout, PollFails, RunReturns, TypeOK, Locations, NoStaleDescriptor,
     PortAccounted, NewSocket, ScanInBounds, InitPlaces, RunPlaces
<1>6. CASE EnterRead(t)
  BY <1>6 DEF EnterRead, TypeOK, Locations, NoStaleDescriptor, PortAccounted, NewSocket,
     ScanInBounds, InitPlaces, RunPlaces
<1>7. CASE ScanNext(t)
  <2>1. /\ at = "scan" /\ cursor \in 1..Len(pollFds) /\ eventsCount > 0
        /\ UNCHANGED <<kernelVars, readSockets, eventsCount, sockfd, replyVars, processState>>
        /\ \/ /\ pollFds' = [pollFds EXCEPT ![cursor].revents = FALSE]
              /\ at' = "recv" /\ cursor' = cursor
           \/ pollFds' = pollFds /\ at' = "scan" /\ cursor' = cursor + 1
    BY <1>7 DEF ScanNext, ScanInBounds, RunPlaces
  <2>2. /\ pollFds' \in Seq([fd : Fds, revents : BOOLEAN]) /\ Len(pollFds') = Len(pollFds)
        /\ \A i \in 1..Len(pollFds) : pollFds'[i].fd = pollFds[i].fd
    <3>1. pollFds \in Seq(Entry) /\ pollFds[cursor] \in Entry
      BY <2>1, EntryOf DEF TypeOK, Entry
    <3>2. CASE pollFds' = [pollFds EXCEPT ![cursor].revents = FALSE]
      <4> DEFINE marked == [pollFds[cursor] EXCEPT !.revents = FALSE]
      <4>1. marked \in Entry /\ marked.fd = pollFds[cursor].fd
        BY <3>1, EntryMarked
      <4>2. pollFds' = [pollFds EXCEPT ![cursor] = marked]
        BY <3>2
      <4> HIDE DEF marked
      <4>3. /\ pollFds' \in Seq(Entry) /\ Len(pollFds') = Len(pollFds)
            /\ \A i \in 1..Len(pollFds) :
                 pollFds'[i] = IF i = cursor THEN marked ELSE pollFds[i]
        BY <2>1, <3>1, <4>1, <4>2, ReplaceEntry
      <4>. QED
        BY <4>1, <4>3 DEF Entry
    <3>3. CASE pollFds' = pollFds
      BY <3>1, <3>3 DEF Entry
    <3>. QED
      BY <2>1, <3>2, <3>3
  <2>3. TypeOK'
    BY <2>1, <2>2 DEF TypeOK, Locations
  <2>4. NoStaleDescriptor'
    BY <2>1, <2>2 DEF NoStaleDescriptor
  <2>5. PortAccounted' /\ NewSocket' /\ ScanInBounds'
    BY <2>1, <2>2 DEF PortAccounted, NewSocket, ScanInBounds, InitPlaces, RunPlaces, TypeOK
  <2>. QED
    BY <2>3, <2>4, <2>5
<1>8. CASE ScanEnds(t)
  BY <1>8 DEF ScanEnds, RunReturns, TypeOK, Locations, NoStaleDescriptor, PortAccounted,
     NewSocket, ScanInBounds, InitPlaces, RunPlaces
<1>9. CASE ReceiveRequest(t)
  BY <1>9 DEF ReceiveRequest, TypeOK, Locations, NoStaleDescriptor, PortAccounted, NewSocket,
     ScanInBounds, InitPlaces, RunPlaces
<1>10. CASE ReceiveOther(t)
  BY <1>10 DEF ReceiveOther, EventServed, RunReturns, TypeOK, Locations, NoStaleDescriptor,
     PortAccounted, NewSocket, ScanInBounds, InitPlaces, RunPlaces
<1>11. CASE ReceiveFails(t)
  BY <1>11 DEF ReceiveFails, EventServed, RunReturns, TypeOK, Locations, NoStaleDescriptor,
     PortAccounted, NewSocket, ScanInBounds, InitPlaces, RunPlaces
<1>12. CASE BuildResponse(t)
  BY <1>12 DEF BuildResponse, TypeOK, Locations, NoStaleDescriptor, PortAccounted, NewSocket,
     ScanInBounds, InitPlaces, RunPlaces
<1>13. CASE SendResponse(t) \/ SendFails(t)
  <2>1. /\ at = "send" /\ held' = {} /\ reply' = None /\ late' \in Nat
        /\ UNCHANGED <<kernelVars, readSockets, pollFds, sockfd, recvBuf, saRecv, processState>>
        /\ eventsCount' = eventsCount - 1
        /\ \/ at' = "none" /\ cursor' = 0
           \/ at' = "scan" /\ cursor' = cursor + 1 /\ eventsCount - 1 > 0
    BY <1>13 DEF SendResponse, SendFails, EventServed, RunReturns, TypeOK
  <2>2. eventsCount \in 1..MaxFDSize /\ cursor \in 1..Len(pollFds)
    BY <2>1 DEF ScanInBounds, RunPlaces, TypeOK
  <2>3. TypeOK'
    BY <2>1, <2>2 DEF TypeOK, Locations
  <2>4. NoStaleDescriptor' /\ PortAccounted' /\ NewSocket' /\ ScanInBounds'
    BY <2>1, <2>2 DEF NoStaleDescriptor, PortAccounted, NewSocket, ScanInBounds, InitPlaces,
       RunPlaces
  <2>. QED
    BY <2>3, <2>4
<1>. QED
  BY <1>1, <1>2, <1>3, <1>4, <1>5, <1>6, <1>7, <1>8, <1>9, <1>10, <1>11, <1>12, <1>13 DEF Run

\* Closing, and everybody else.
LEMMA OtherTables ==
  ASSUME TablesInv, PlaceOwned, Life!ThreadInv,
         \/ ThreadStep
         \/ \E t \in Life!Threads : CloseAll(t)
         \/ \E s \in ProcessStates : SetProcessState(s)
         \/ \E d \in Datagrams : Arrive(d)
         \/ UNCHANGED vars
  PROVE  TablesInv'
<1> USE ResponserConstants DEF TablesInv, kernelVars, tableVars, localVars, replyVars
<1>1. CASE ThreadStep
  BY <1>1 DEF ThreadStep, TypeOK, NoStaleDescriptor, PortAccounted, NewSocket, ScanInBounds
<1>2. ASSUME NEW t \in Life!Threads, CloseAll(t)
      PROVE  TablesInv'
  <2>1. at \notin InitPlaces \cup RunPlaces
    BY <1>2, OneAtWork DEF CloseAll, PlaceOwned, Life!Executing
  <2>2. socketOf' \in [Fds -> {"closed", "open", "bound"}]
    BY <1>2 DEF CloseAll, TypeOK
  <2>3. queue' \in Seq(Datagrams) /\ Len(queue') <= MaxQueue
    BY <1>2 DEF CloseAll, TypeOK
  <2>4. TypeOK'
    BY <1>2, <2>2, <2>3 DEF CloseAll, TypeOK
  <2>5. NoStaleDescriptor' /\ NewSocket' /\ ScanInBounds'
    BY <1>2, <2>1 DEF CloseAll, NoStaleDescriptor, NewSocket, ScanInBounds, InitPlaces, RunPlaces
  <2>6. PortAccounted'
    BY <1>2, <2>1 DEF CloseAll, PortAccounted, InitPlaces
  <2>. QED
    BY <2>4, <2>5, <2>6
<1>3. ASSUME NEW s \in ProcessStates, SetProcessState(s)
      PROVE  TablesInv'
  BY <1>3 DEF SetProcessState, TypeOK, NoStaleDescriptor, PortAccounted, NewSocket, ScanInBounds
<1>4. ASSUME NEW d \in Datagrams, Arrive(d)
      PROVE  TablesInv'
  <2>1. queue' \in Seq(Datagrams) /\ Len(queue') <= MaxQueue
    BY <1>4 DEF Arrive, TypeOK
  <2>2. TypeOK'
    BY <1>4, <2>1 DEF Arrive, TypeOK
  <2>3. NoStaleDescriptor' /\ PortAccounted' /\ NewSocket' /\ ScanInBounds'
    BY <1>4 DEF Arrive, NoStaleDescriptor, PortAccounted, NewSocket, ScanInBounds
  <2>. QED
    BY <2>2, <2>3
<1>5. CASE UNCHANGED vars
  BY <1>5 DEF vars, TypeOK, NoStaleDescriptor, PortAccounted, NewSocket, ScanInBounds
<1>. QED
  BY <1>1, <1>2, <1>3, <1>4, <1>5

LEMMA StepTablesInv ==
  Life!ThreadInv /\ LifeCycle /\ TablesInv /\ [Next]_vars => TablesInv'
BY InitInstanceTables, RunTables, OtherTables, LifeThreads DEF Next, LifeCycle

\* Whatever fails inside InitInstance, Run and ExitInstance.
THEOREM TablesInvariant == Spec => []TablesInv
<1>1. Init => TablesInv
  BY InitTablesInv
<1>2. Life!ThreadInv /\ LifeCycle /\ TablesInv /\ [Next]_vars => TablesInv'
  BY StepTablesInv
<1>. QED
  BY <1>1, <1>2, LifeCycleInvariant, PTL DEF Spec

\* The tables of the network thread keep their types, and poll waits only on
\* read sockets that are bound, each listed once.
THEOREM TablesAlwaysConsistent == Spec => []TablesConsistent
<1>1. TablesInv => TablesConsistent
  BY DEF TablesInv, TablesConsistent
<1>. QED
  BY <1>1, TablesInvariant, PTL

\* Whoever stopped the responder, and after whatever failure: with no executor
\* the port is free and the tables are empty.
THEOREM StoppedAlwaysReleasesPort == Spec => []StoppedReleasesPort
<1>1. LifeCycle /\ TablesInv => StoppedReleasesPort
  <2> SUFFICES ASSUME LifeCycle, TablesInv, Thread!Executors = {}
               PROVE  Released /\ \A f \in Fds : socketOf[f] # "bound"
    BY DEF StoppedReleasesPort, Released
  <2>1. \A t \in Life!Threads : pc[t] \notin Life!Executing
    BY LifeThreads DEF Thread!Executors, Thread!Executing, Life!Executing
  <2>2. Released
    BY <2>1 DEF LifeCycle, TablesOwned
  <2>3. at # "register"
    BY <2>1 DEF LifeCycle, PlaceOwned, InitPlaces, Life!Executing
  <2>. QED
    BY <2>2, <2>3 DEF Released, TablesInv, PortAccounted
<1>. QED
  BY <1>1, LifeCycleInvariant, TablesInvariant, PTL
-----------------------------------------------------------------------------
(* The responder implements HeartbeatService, but for its liveness.        *)

\* The request being answered is in m_szRecvBuf, its sender in m_saRecv, and
\* the state that will be reported is one the application has had since.
RequestKept ==
  Answering => recvBuf \in Datagrams /\ saRecv = recvBuf.from

StateHeld == /\ at = "message" => processState \in held
             /\ at = "send"    => reply \in held
             /\ ~Answering     => held = {}

LEMMA StepServiceInv ==
  ASSUME TypeOK, RequestKept, StateHeld, [Next]_vars
  PROVE  RequestKept' /\ StateHeld'
<1> USE DEF Answering, RequestKept, StateHeld, kernelVars, tableVars, localVars, replyVars
<1>1. CASE ThreadStep
  BY <1>1 DEF ThreadStep
<1>2. ASSUME NEW t, InitInstance(t)
      PROVE  RequestKept' /\ StateHeld'
  <2>1. at \notin {"message", "send"} /\ at' \notin {"message", "send"} /\ UNCHANGED held
    BY <1>2 DEF InitInstance, CreateSocket, CreateSocketFails, SetReuseAddr, Bind,
       SocketOptionFails, Register, InitReturns
  <2>. QED
    BY <2>1
<1>3. ASSUME NEW t, ReceiveRequest(t)
      PROVE  RequestKept' /\ StateHeld'
  <2>1. Head(queue) \in Datagrams
    BY <1>3 DEF ReceiveRequest, TypeOK
  <2>. QED
    BY <1>3, <2>1 DEF ReceiveRequest
<1>4. ASSUME NEW t, BuildResponse(t)
      PROVE  RequestKept' /\ StateHeld'
  BY <1>4 DEF BuildResponse
<1>5. ASSUME NEW t, SendResponse(t) \/ SendFails(t)
      PROVE  RequestKept' /\ StateHeld'
  BY <1>5 DEF SendResponse, SendFails, EventServed, RunReturns
<1>6. ASSUME NEW t, Run(t), ~ReceiveRequest(t), ~BuildResponse(t), ~SendResponse(t), ~SendFails(t)
      PROVE  RequestKept' /\ StateHeld'
  <2>1. at \notin {"message", "send"} /\ at' \notin {"message", "send"} /\ UNCHANGED held
    BY <1>6 DEF Run, RunSeesExit, EnterPoll, PollReady, PollError, PollTimeout, PollFails,
       EnterRead, ScanNext, ScanEnds, ReceiveOther, ReceiveFails, EventServed, RunReturns
  <2>. QED
    BY <2>1
<1>7. ASSUME NEW t, CloseAll(t)
      PROVE  RequestKept' /\ StateHeld'
  BY <1>7 DEF CloseAll
<1>8. ASSUME NEW s \in ProcessStates, SetProcessState(s)
      PROVE  RequestKept' /\ StateHeld'
  BY <1>8 DEF SetProcessState
<1>9. CASE (\E d \in Datagrams : Arrive(d)) \/ UNCHANGED vars
  BY <1>9 DEF Arrive, vars
<1>. QED
  BY <1>1, <1>2, <1>3, <1>4, <1>5, <1>6, <1>7, <1>8, <1>9 DEF Next

\* A request being answered is one of the service's, and so not None.
LEMMA CurrentIsRequest ==
  ASSUME RequestKept, Answering
  PROVE  /\ [from |-> saRecv, seq |-> recvBuf.seq] \in Service!Requests
         /\ [from |-> saRecv, seq |-> recvBuf.seq] # None
BY ResponserConstants DEF RequestKept, Service!Requests

\* Every step of the responder is a step of the service or changes nothing it
\* speaks of.
LEMMA StepRefines ==
  ASSUME TypeOK, RequestKept, StateHeld, [Next]_vars
  PROVE  Service!Next \/ UNCHANGED Service!serviceVars
<1> USE DEF Answering, kernelVars, tableVars, localVars, replyVars
<1>1. CASE ThreadStep
  BY <1>1 DEF ThreadStep, Service!serviceVars
<1>2. ASSUME NEW t, InitInstance(t)
      PROVE  UNCHANGED Service!serviceVars
  <2>1. /\ at \notin {"message", "send"} /\ at' \notin {"message", "send"}
        /\ UNCHANGED <<held, processState, lastResponse>>
    BY <1>2 DEF InitInstance, CreateSocket, CreateSocketFails, SetReuseAddr, Bind,
       SocketOptionFails, Register, InitReturns
  <2>. QED
    BY <2>1 DEF Service!serviceVars
<1>3. ASSUME NEW t, ReceiveRequest(t)
      PROVE  Service!Next
  <2>1. Head(queue) \in Datagrams
    BY <1>3 DEF ReceiveRequest, TypeOK
  <2>2. [from |-> Head(queue).from, seq |-> Head(queue).seq] \in Service!Requests
    BY <2>1, ResponserConstants DEF Service!Requests
  <2>3. Service!Receive([from |-> Head(queue).from, seq |-> Head(queue).seq])
    BY <1>3 DEF ReceiveRequest, Service!Receive
  <2>. QED
    BY <2>2, <2>3 DEF Service!Next
<1>4. ASSUME NEW t, BuildResponse(t)
      PROVE  UNCHANGED Service!serviceVars
  BY <1>4 DEF BuildResponse, Service!serviceVars
<1>5. ASSUME NEW t, SendResponse(t)
      PROVE  Service!Next
  <2>1. Answering /\ ~Answering' /\ reply \in held
    BY <1>5 DEF SendResponse, EventServed, RunReturns, StateHeld
  <2>2. [from |-> saRecv, seq |-> recvBuf.seq] # None
    BY <2>1, CurrentIsRequest
  <2>3. Service!Answer
    BY <1>5, <2>1, <2>2 DEF SendResponse, Service!Answer
  <2>. QED
    BY <2>3 DEF Service!Next
<1>6. ASSUME NEW t, SendFails(t)
      PROVE  Service!Next
  <2>1. Answering /\ ~Answering'
    BY <1>6 DEF SendFails, EventServed, RunReturns
  <2>2. [from |-> saRecv, seq |-> recvBuf.seq] # None
    BY <2>1, CurrentIsRequest
  <2>3. Service!Drop
    BY <1>6, <2>1, <2>2 DEF SendFails, Service!Drop
  <2>. QED
    BY <2>3 DEF Service!Next
<1>7. ASSUME NEW t, Run(t), ~ReceiveRequest(t), ~BuildResponse(t), ~SendResponse(t), ~SendFails(t)
      PROVE  UNCHANGED Service!serviceVars
  <2>1. /\ at \notin {"message", "send"} /\ at' \notin {"message", "send"}
        /\ UNCHANGED <<held, processState, lastResponse>>
    BY <1>7 DEF Run, RunSeesExit, EnterPoll, PollReady, PollError, PollTimeout, PollFails,
       EnterRead, ScanNext, ScanEnds, ReceiveOther, ReceiveFails, EventServed, RunReturns
  <2>. QED
    BY <2>1 DEF Service!serviceVars
<1>8. ASSUME NEW t, CloseAll(t)
      PROVE  UNCHANGED Service!serviceVars
  BY <1>8 DEF CloseAll, Service!serviceVars
<1>9. ASSUME NEW s \in ProcessStates, SetProcessState(s)
      PROVE  Service!Next
  <2>1. CASE Answering
    BY <1>9, <2>1, CurrentIsRequest DEF SetProcessState, Service!Next, Service!SetState
  <2>2. CASE ~Answering
    BY <1>9, <2>2 DEF SetProcessState, StateHeld, Service!Next, Service!SetState
  <2>. QED
    BY <2>1, <2>2
<1>10. CASE (\E d \in Datagrams : Arrive(d)) \/ UNCHANGED vars
  BY <1>10 DEF Arrive, vars, Service!serviceVars
<1>. QED
  BY <1>1, <1>2, <1>3, <1>4, <1>5, <1>6, <1>7, <1>8, <1>9, <1>10 DEF Next

\* Every response answers one request that was received, with its sequence
\* number, to its sender, with a state the application has had since.
THEOREM ResponserImplementsService ==
  Spec => Service!Init /\ [][Service!Next]_(Service!serviceVars)
<1>1. Init => Service!Init /\ RequestKept /\ StateHeld
  BY ResponserConstants DEF Init, Service!Init, Answering, RequestKept, StateHeld
<1>2. TypeOK /\ RequestKept /\ StateHeld /\ [Next]_vars => RequestKept' /\ StateHeld'
  BY StepServiceInv
<1>3. TypeOK /\ RequestKept /\ StateHeld /\ [Next]_vars
        => [Service!Next]_(Service!serviceVars)
  BY StepRefines
<1>4. TablesInv => TypeOK
  BY DEF TablesInv
<1>. QED
  BY <1>1, <1>2, <1>3, <1>4, TablesInvariant, PTL DEF Spec
-----------------------------------------------------------------------------
(* One starter: the discipline the examples follow.  A second one could    *)
(* turn m_state back to READY under a running responder, whose second      *)
(* InitInstance registers a second socket.                                 *)

\* Inside Run and before it InitInstance has ended, and an InitInstance that
\* begins or is about to begin finds the table empty: a socket is registered
\* once between two calls of ExitInstance.
OneSocket ==
  /\ Len(pollFds) <= 1
  /\ eventsCount <= 1
  /\ \A t \in Life!Threads :
       /\ pc[t] \in {"checkExit", "run"} => state = "DONE_INITINSTANCE"
       /\ pc[t] = "init" \/ (pc[t] = "loop" /\ state = "READY") => pollFds = <<>>

\* The response sent after EndThread was the last of its pass, and poll is not
\* entered again.
LateEnds == late \in {0, 1} /\ (late = 1 => bExit /\ at \notin RunPlaces)

LEMMA StarterInvariant ==
  ASSUME Life!SingleStarter
  PROVE  Spec => []Life!StarterInv
<1>1. Init => Life!StarterInv
  BY ResponserThreads DEF Init, Thread!Init, Thread!Threads, Thread!App, Life!StarterInv,
     Life!StartHasNoHandle, Life!StartsFresh, Life!Starting
<1>2. Life!ThreadInv /\ Life!StarterInv /\ [Next]_vars => Life!StarterInv'
  BY ThreadMoves, LifeThreads, Life!StepStarterInv DEF Life!ThreadsDisjoint
<1>. QED
  BY <1>1, <1>2, ResponserThread, PTL DEF Spec

\* Nobody executes, and so the tables are empty, while a start is under way.
LEMMA StartingFindsReleased ==
  ASSUME Life!SingleStarter, Life!ThreadInv, Life!StarterInv, LifeCycle,
         NEW s \in Starters, pc[s] \in Life!Starting \cup {"spawn"}
  PROVE  /\ \A t \in Life!Threads : pc[t] \notin Life!Executing
         /\ pollFds = <<>>
<1>1. Life!Executors = {}
  BY Life!StartingMeansStopped, LifeThreads DEF Life!ThreadsDisjoint, Life!StarterInv
<1>2. \A t \in Life!Threads : pc[t] \notin Life!Executing
  BY <1>1 DEF Life!Executors
<1>. QED
  BY <1>2 DEF LifeCycle, TablesOwned, Released

\* A step of the thread object outside the virtual functions.
LEMMA ThreadStepOneSocket ==
  ASSUME Life!SingleStarter, Life!ThreadInv, Life!StarterInv, LifeCycle,
         OneSocket, ThreadStep
  PROVE  OneSocket'
<1> USE DEF Life!Executing, Life!Starting, Life!Waiting, Life!Goto
<1>0. pollFds' = pollFds /\ eventsCount' = eventsCount
  BY DEF ThreadStep, tableVars
\* A start makes nobody enter InitInstance or Run, and finds the table empty.
<1>1. ASSUME NEW t \in Starters, Life!Start(t)
      PROVE  OneSocket'
  <2>1. CASE Life!CreateThread(t) \/ Life!RunThreadHere(t)
    <3>1. /\ state' = state
          /\ \A u \in Life!Threads : pc'[u] = pc[u] \/ pc'[u] = "clearExit"
      BY <2>1, OneAtWork DEF Life!CreateThread, Life!RunThreadHere
    <3>. QED
      BY <1>0, <3>1 DEF OneSocket
  <2>2. CASE ~(Life!CreateThread(t) \/ Life!RunThreadHere(t))
    <3>1. pc[t] \in Life!Starting \cup {"spawn"}
      BY <1>1, <2>2 DEF Life!Start, Life!PrepareClearExit, Life!PrepareClearState,
         Life!PrepareWait, Life!SpawnFails, Life!SpawnOK
    <3>2. pollFds = <<>> /\ \A u \in Life!Threads : pc[u] \notin Life!Executing
      BY <3>1, StartingFindsReleased
    <3>3. \A u \in Life!Threads : pc'[u] = pc[u] \/ pc'[u] \notin {"checkExit", "run"}
      BY <1>1, <2>2, OneAtWork DEF Life!Start, Life!PrepareClearExit, Life!PrepareClearState,
         Life!PrepareWait, Life!SpawnFails, Life!SpawnOK
    <3>. QED
      BY <1>0, <3>2, <3>3 DEF OneSocket
  <2>. QED
    BY <2>1, <2>2
<1>2. ASSUME NEW t \in Life!App, Life!Stop(t) \/ Life!Wait(t)
      PROVE  OneSocket'
  <2>1. state' = state /\ \A u \in Life!Threads :
          pc'[u] = pc[u] \/ pc'[u] \in {"idle", "waitExit", "joined"}
    BY <1>2, OneAtWork DEF Life!Stop, Life!Wait, Life!EndThread, Life!WaitUntilExit,
       Life!WaitAcquire, Life!WaitReturn
  <2>. QED
    BY <1>0, <2>1 DEF OneSocket
\* A step of the executor, who is the only one.
<1>3. ASSUME NEW t \in Life!Threads, pc[t] \in Life!Executing,
             NEW l, pc' = [pc EXCEPT ![t] = l],
             l \in {"checkExit", "run"} => state' = "DONE_INITINSTANCE",
             l = "init" \/ (l = "loop" /\ state' = "READY") => pollFds = <<>>
      PROVE  OneSocket'
  <2>1. /\ pc'[t] = l
        /\ \A u \in Life!Threads : u # t => pc'[u] = pc[u] /\ pc[u] \notin Life!Executing
    BY <1>3, OneAtWork
  <2>. QED
    BY <1>0, <1>3, <2>1 DEF OneSocket
<1>4. ASSUME NEW t \in Life!Threads, Life!Dispatch(t)
      PROVE  OneSocket'
  <2>1. /\ pc[t] = "loop" /\ state' = state
        /\ pc' = [pc EXCEPT ![t] = Life!ThreadProcEntry[state]]
    BY <1>4 DEF Life!Dispatch
  <2>2. \/ state = "READY" /\ Life!ThreadProcEntry[state] = "init" /\ pollFds = <<>>
        \/ state = "DONE_INITINSTANCE" /\ Life!ThreadProcEntry[state] = "checkExit"
        \/ Life!ThreadProcEntry[state] \in {"exit", "finish", "notify"}
    BY <2>1, OneAtWork DEF OneSocket, Life!States, Life!ThreadProcEntry
  <2>. QED
    BY <1>3, <2>1, <2>2
<1>5. ASSUME NEW t \in Life!Threads, Life!EnterRun(t)
      PROVE  OneSocket'
  <2>1. pc[t] = "checkExit" /\ state' = state /\ pc' = [pc EXCEPT ![t] = "run"]
    BY <1>5 DEF Life!EnterRun
  <2>. QED
    BY <1>3, <2>1 DEF OneSocket
<1>6. ASSUME NEW t \in Life!Threads, Life!LeaveRun(t)
      PROVE  OneSocket'
  BY <1>3, <1>6 DEF Life!LeaveRun
<1>7. ASSUME NEW t \in Life!Threads, Life!Finish(t)
      PROVE  OneSocket'
  <2>1. pc[t] = "finish" /\ state' # "READY" /\ pc' = [pc EXCEPT ![t] = "loop"]
    BY <1>7 DEF Life!Finish
  <2>. QED
    BY <1>3, <2>1
<1>8. ASSUME NEW t \in Life!Threads, Life!NotifyExit(t)
      PROVE  OneSocket'
  <2>1. /\ pc[t] = "notify"
        /\ pc' = [pc EXCEPT ![t] = "idle"] \/ pc' = [pc EXCEPT ![t] = "gone"]
    BY <1>8 DEF Life!NotifyExit
  <2>. QED
    BY <1>3, <2>1
<1>. QED
  BY <1>1, <1>2, <1>4, <1>5, <1>6, <1>7, <1>8, ThreadStepIs

\* How the poll table and the events change inside the virtual functions:
\* only the end of InitInstance makes the table grow, by one entry.
LEMMA TableGrowth ==
  ASSUME TablesInv, Len(pollFds) <= 1, eventsCount <= 1,
         NEW t, InitInstance(t) \/ Run(t) \/ CloseAll(t)
  PROVE  /\ pollFds' # pollFds =>
              \/ Register(t) /\ Len(pollFds') = Len(pollFds) + 1
              \/ Len(pollFds') <= 1
         /\ eventsCount' <= 1
<1> USE DEF kernelVars, tableVars, localVars, replyVars
<1>0. /\ pollFds \in Seq(Entry) /\ Len(pollFds) \in Nat
      /\ eventsCount \in Int
  BY DEF TablesInv, TypeOK, Entry
<1>1. CASE InitInstance(t)
  <2>1. eventsCount' = eventsCount
    BY <1>1 DEF InitInstance, CreateSocket, CreateSocketFails, SetReuseAddr, Bind,
       SocketOptionFails, Register
  <2>2. CASE Register(t)
    <3>1. pollFds' = pollFds \/ Len(pollFds') = Len(pollFds) + 1
      BY <1>0, <2>2 DEF Register, Entry
    <3>. QED
      BY <2>1, <2>2, <3>1
  <2>3. CASE ~Register(t)
    <3>1. pollFds' = pollFds
      BY <1>1, <2>3 DEF InitInstance, CreateSocket, CreateSocketFails, SetReuseAddr, Bind,
         SocketOptionFails
    <3>. QED
      BY <2>1, <3>1
  <2>. QED
    BY <2>2, <2>3
<1>2. CASE PollReady(t)
  <2> DEFINE reported == {i \in 1..Len(pollFds) : pollFds'[i].revents}
  <2>1. eventsCount' = Cardinality(reported) /\ DOMAIN pollFds' = 1..Len(pollFds)
    BY <1>2 DEF PollReady
  <2>2. pollFds' \in Seq(Entry)
    BY <1>2, RunTables DEF Run, TablesInv, TypeOK, Entry
  <2>3. Len(pollFds') = Len(pollFds)
    BY <1>0, <2>1, <2>2
  <2>4. Cardinality(reported) <= Len(pollFds)
    <3>1. IsFiniteSet(1..Len(pollFds)) /\ Cardinality(1..Len(pollFds)) = Len(pollFds)
      BY <1>0, IndexSet
    <3>. QED
      BY <3>1, FS_Subset
  <2>5. eventsCount' \in Int
    BY <1>2, RunTables DEF Run, TablesInv, TypeOK
  <2> HIDE DEF reported
  <2>6. eventsCount' <= 1
    BY <1>0, <2>1, <2>4, <2>5
  <2>. QED
    BY <2>3, <2>6
<1>3. CASE ScanNext(t)
  <2>1. eventsCount' = eventsCount
    BY <1>3 DEF ScanNext
  <2>2. pollFds' = pollFds \/ DOMAIN pollFds' = DOMAIN pollFds
    BY <1>3 DEF ScanNext
  <2>3. pollFds' \in Seq(Entry)
    BY <1>3, RunTables DEF Run, TablesInv, TypeOK, Entry
  <2>4. Len(pollFds') = Len(pollFds)
    BY <1>0, <2>2, <2>3
  <2>. QED
    BY <2>1, <2>4
<1>4. CASE CloseAll(t)
  BY <1>4 DEF CloseAll
<1>5. CASE Run(t) /\ ~PollReady(t) /\ ~ScanNext(t)
  <2>1. pollFds' = pollFds
    BY <1>5 DEF Run, RunSeesExit, EnterPoll, PollError, PollTimeout, PollFails, EnterRead,
       ScanEnds, ReceiveRequest, ReceiveOther, ReceiveFails, BuildResponse, SendResponse,
       SendFails
  <2>2. eventsCount' \in {eventsCount, eventsCount - 1, 1, 0, -1}
    BY <1>5 DEF Run, RunSeesExit, EnterPoll, PollError, PollTimeout, PollFails, EnterRead,
       ScanEnds, ReceiveRequest, ReceiveOther, ReceiveFails, BuildResponse, SendResponse,
       SendFails, EventServed
  <2>. QED
    BY <1>0, <2>1, <2>2
<1>. QED
  BY <1>1, <1>2, <1>3, <1>4, <1>5

\* A step inside a virtual function, or the end of one.
LEMMA VirtualStepOneSocket ==
  ASSUME Life!ThreadInv, LifeCycle, TablesInv, OneSocket,
         NEW t \in Life!Threads, InitInstance(t) \/ Run(t) \/ CloseAll(t)
  PROVE  OneSocket'
<1> USE DEF Life!Executing, Life!Goto
<1>0. /\ pc[t] \in {"init", "run", "exit"}
      /\ \A u \in Life!Threads : u # t => pc[u] \notin Life!Executing
      /\ pc[t] = "init" => pollFds = <<>>
      /\ pc[t] = "run"  => state = "DONE_INITINSTANCE"
  BY InitStep, RunStep, OneAtWork DEF CloseAll, OneSocket
<1>1. Len(pollFds') <= 1 /\ eventsCount' <= 1
  <2>1. Register(t) => pollFds = <<>>
    BY <1>0 DEF Register
  <2>. QED
    BY <2>1, TableGrowth DEF OneSocket
<1>2. CASE UNCHANGED threadVars
  <2>1. pc' = pc /\ state' = state
    BY <1>2 DEF threadVars
  <2>2. ~Register(t)
    BY <2>1, OneAtWork DEF Register, InitReturns, Thread!InitInstanceOK,
       Thread!InitInstanceFails, Thread!Goto
  <2>3. ~CloseAll(t)
    BY <2>1, OneAtWork DEF CloseAll, Thread!ExitInstance, Thread!Goto
  <2>4. pc[t] = "init" => pollFds' = pollFds
    BY <2>2, <2>3, RunStep DEF InitInstance, CreateSocket, CreateSocketFails, SetReuseAddr,
       Bind, SocketOptionFails, tableVars
  <2>. QED
    BY <1>0, <1>1, <2>1, <2>4 DEF OneSocket
<1>3. CASE \/ Life!InitInstanceOK(t) \/ Life!InitInstanceFails(t) \/ Life!RunOK(t)
           \/ Life!ExitInstance(t)
  <2>1. \/ pc' = [pc EXCEPT ![t] = "checkExit"] /\ state' = "DONE_INITINSTANCE"
        \/ pc' = [pc EXCEPT ![t] = "loop"] /\ state' \in {"ERROR", "DONE_INITINSTANCE"}
        \/ pc' = [pc EXCEPT ![t] = "finish"]
    BY <1>0, <1>3 DEF Life!InitInstanceOK, Life!InitInstanceFails, Life!RunOK,
       Life!ExitInstance
  <2>2. /\ pc'[t] = "checkExit" => state' = "DONE_INITINSTANCE"
        /\ pc'[t] = "loop" => state' # "READY"
        /\ pc'[t] \in {"checkExit", "loop", "finish"}
        /\ \A u \in Life!Threads : u # t => pc'[u] = pc[u]
    BY <2>1, OneAtWork
  <2>. QED
    BY <1>0, <1>1, <2>2 DEF OneSocket
<1>4. CloseAll(t) => Life!ExitInstance(t)
  BY VirtualFunctions DEF CloseAll
<1>. QED
  BY <1>2, <1>3, <1>4, InitStep, RunStep

LEMMA StepOneSocket ==
  ASSUME Life!SingleStarter, Life!ThreadInv, Life!StarterInv, LifeCycle, TablesInv,
         OneSocket, [Next]_vars
  PROVE  OneSocket'
<1>1. CASE \/ \E s \in ProcessStates : SetProcessState(s)
           \/ \E d \in Datagrams : Arrive(d)
           \/ UNCHANGED vars
  <2>1. UNCHANGED <<pc, state, pollFds, eventsCount>>
    BY <1>1 DEF SetProcessState, Arrive, vars, threadVars, tableVars
  <2>. QED
    BY <2>1 DEF OneSocket
<1>. QED
  BY <1>1, ThreadStepOneSocket, VirtualStepOneSocket, LifeThreads DEF Next

LEMMA StepLateEnds ==
  ASSUME TablesInv, OneSocket, LateEnds, [Next]_vars
  PROVE  LateEnds'
<1> USE DEF LateEnds, RunPlaces, replyVars
<1>1. CASE ThreadStep
  BY <1>1 DEF ThreadStep
<1>2. ASSUME NEW t, SendResponse(t)
      PROVE  LateEnds'
  <2>1. at = "send" /\ late = 0 /\ bExit' = bExit
    BY <1>2 DEF SendResponse, EventServed, RunReturns, Unmoved, threadVars, Thread!RunOK
  <2>2. eventsCount \in Int /\ eventsCount - 1 <= 0
    BY DEF OneSocket, TablesInv, TypeOK
  <2>3. at' = "none"
    BY <1>2, <2>2 DEF SendResponse, EventServed, RunReturns
  <2>. QED
    BY <1>2, <2>1, <2>3 DEF SendResponse
<1>3. ASSUME NEW t, Run(t), ~SendResponse(t)
      PROVE  LateEnds'
  <2>1. late' = late /\ bExit' = bExit
    BY <1>3 DEF Run, RunSeesExit, EnterPoll, PollReady, PollError, PollTimeout, PollFails,
       EnterRead, ScanNext, ScanEnds, ReceiveRequest, ReceiveOther, ReceiveFails,
       BuildResponse, SendFails, EventServed, RunReturns, Unmoved, threadVars, Thread!RunOK
  <2>2. at \in RunPlaces \/ at' = "none" \/ ~bExit
    BY <1>3 DEF Run, RunSeesExit, EnterPoll, PollReady, PollError, PollTimeout, PollFails,
       EnterRead, ScanNext, ScanEnds, ReceiveRequest, ReceiveOther, ReceiveFails,
       BuildResponse, SendFails, EventServed, RunReturns
  <2>. QED
    BY <2>1, <2>2
<1>4. ASSUME NEW t, InitInstance(t)
      PROVE  LateEnds'
  <2>1. late' = late /\ bExit' = bExit /\ at' \notin RunPlaces
    BY <1>4 DEF InitInstance, CreateSocket, CreateSocketFails, SetReuseAddr, Bind,
       SocketOptionFails, Register, InitReturns, Unmoved, threadVars, Thread!InitInstanceOK,
       Thread!InitInstanceFails
  <2>. QED
    BY <2>1
<1>5. ASSUME NEW t, CloseAll(t)
      PROVE  LateEnds'
  BY <1>5 DEF CloseAll, Thread!ExitInstance
<1>6. CASE \/ \E s \in ProcessStates : SetProcessState(s)
           \/ \E d \in Datagrams : Arrive(d)
           \/ UNCHANGED vars
  BY <1>6 DEF SetProcessState, Arrive, vars, threadVars
<1>. QED
  BY <1>1, <1>2, <1>3, <1>4, <1>5, <1>6 DEF Next

\* With one starter: once EndThread was called the pass that is under way may
\* still answer the request it reads, and no other is answered.
THEOREM AtMostOneLateAlways ==
  ASSUME Life!SingleStarter
  PROVE  Spec => []AtMostOneLate
<1>1. Init => OneSocket /\ LateEnds
  <2> SUFFICES ASSUME Init PROVE OneSocket /\ LateEnds
    OBVIOUS
  <2>1. pollFds = <<>> /\ eventsCount = 0 /\ late = 0
    BY DEF Init
  <2>2. \A t \in Life!Threads : pc[t] \notin {"checkExit", "run", "init", "loop"}
    BY LifeThreads DEF Init, Thread!Init
  <2>. QED
    BY <2>1, <2>2 DEF OneSocket, LateEnds
<1>2. /\ Life!ThreadInv /\ Life!StarterInv /\ LifeCycle /\ TablesInv /\ OneSocket /\ LateEnds
      /\ [Next]_vars
      => OneSocket' /\ LateEnds'
  BY StepOneSocket, StepLateEnds
<1>3. LateEnds => AtMostOneLate
  BY DEF LateEnds, AtMostOneLate
<1>. QED
  BY <1>1, <1>2, <1>3, StarterInvariant, LifeCycleInvariant, TablesInvariant, PTL DEF Spec
=============================================================================
