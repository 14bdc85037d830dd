----------------------------- MODULE HBResponser -----------------------------
(***************************************************************************)
(* The heartbeat responder CCiHBResponser of src/legacy_compatible: a      *)
(* cihb::CCiThread2 (module CiThread) whose InitInstance opens the UDP     *)
(* socket, whose Run polls it and answers requests, and whose ExitInstance *)
(* (inherited from cihb::CNetworkThread) closes it.  The socket calls may  *)
(* fail in every way the code distinguishes; the kernel delivers           *)
(* datagrams, which the network may have lost, duplicated or reordered, to *)
(* the bound socket at any time.                                           *)
(***************************************************************************)
EXTENDS Integers, Sequences, FiniteSets

CONSTANTS
  Starters, Closers, Workers, NoThread,        \* see CiThread
  Monitors, Seqs, ProcessStates, None,         \* see HeartbeatService
  Fds,          \* the descriptors the process may open
  MaxFDSize,    \* m_iMaxFDSize
  MaxQueue,     \* datagrams the kernel keeps in a receive buffer
  Datagrams     \* the datagrams that arrive: [from, kind, seq]

\* A "request" is 8 bytes or more (recvfrom truncates) of type
\* CIHB_HEARTBEAT_REQUEST, "other" as long but of another type, a "runt" is
\* shorter than 8 bytes.
Kinds == {"request", "other", "runt"}

ASSUME ResponserConstants ==
  /\ "ALIVE" \in ProcessStates
  /\ MaxFDSize \in Nat \ {0}
  /\ MaxQueue \in Nat
  /\ None \notin [from : Monitors, seq : Seqs] \cup ProcessStates
  /\ Datagrams \subseteq [from : Monitors, kind : Kinds, seq : Seqs]

\* The threads are those of CiThread.
ASSUME ResponserThreads ==
  /\ Starters \cap Closers = {}
  /\ (Starters \cup Closers) \cap Workers = {}
  /\ NoThread \notin Starters \cup Closers \cup Workers

VARIABLES
  ciThreadHandle, bExit, semExit, state, here, pc,   \* see CiThread
  socketOf,      \* kernel: "closed", "open" or "bound", by descriptor
  queue,         \* kernel: the receive buffer of the bound socket
  readSockets,   \* m_ReadSockets
  pollFds,       \* the used prefix of m_PollFds: [fd, revents]
  eventsCount,   \* m_iEventsCount
  at,            \* where the executor is inside the virtual function it is in
  sockfd,        \* InitInstance: the local sockfd
  cursor,        \* ProcessReadEvent: the loop index
  recvBuf,       \* m_szRecvBuf
  saRecv,        \* m_saRecv
  processState,  \* m_processState
  reply,         \* SendHeartbeatResponse: the state copied into pMsgStr
  lastResponse,  \* the response sent last
  held,          \* history: the process states since the request was received
  late           \* history: responses sent since EndThread

Thread == INSTANCE CiThread

threadVars == <<ciThreadHandle, bExit, semExit, state, here, pc>>
kernelVars == <<socketOf, queue>>
tableVars  == <<readSockets, pollFds, eventsCount>>
localVars  == <<sockfd, cursor>>
replyVars  == <<recvBuf, saRecv, reply, lastResponse, held, late>>
vars == <<threadVars, kernelVars, tableVars, at, localVars, replyVars, processState>>

Answering == at \in {"message", "send"}

Init ==
  /\ Thread!Init
  /\ socketOf = [f \in Fds |-> "closed"]
  /\ queue = <<>>
  /\ readSockets = {}
  /\ pollFds = <<>>
  /\ eventsCount = 0
  /\ at = "none"
  /\ sockfd = None
  /\ cursor = 0
  /\ recvBuf = None
  /\ saRecv = None
  /\ processState = "ALIVE"
  /\ reply = None
  /\ lastResponse = None
  /\ held = {}
  /\ late = 0
-----------------------------------------------------------------------------
(* InitInstance.  A failure leaves the descriptor open but for AddReadSocket. *)

InitReturns(t, ok) ==
  /\ IF ok THEN Thread!InitInstanceOK(t) ELSE Thread!InitInstanceFails(t)
  /\ at' = "none"
  /\ sockfd' = None

Unmoved == UNCHANGED threadVars

CreateSocket(t) ==
  /\ pc[t] = "init" /\ at = "none"
  /\ \E f \in {g \in Fds : socketOf[g] = "closed"} :
       /\ socketOf' = [socketOf EXCEPT ![f] = "open"]
       /\ sockfd' = f
  /\ at' = "reuse"
  /\ Unmoved
  /\ UNCHANGED <<queue, tableVars, cursor, replyVars, processState>>

CreateSocketFails(t) ==
  /\ pc[t] = "init" /\ at = "none"
  /\ InitReturns(t, FALSE)
  /\ UNCHANGED <<kernelVars, tableVars, cursor, replyVars, processState>>

SetReuseAddr(t) ==
  /\ pc[t] = "init" /\ at = "reuse"
  /\ at' = "bind"
  /\ Unmoved
  /\ UNCHANGED <<kernelVars, tableVars, localVars, replyVars,
                 processState>>

Bind(t) ==
  /\ pc[t] = "init" /\ at = "bind"
  /\ socketOf' = [socketOf EXCEPT ![sockfd] = "bound"]
  /\ queue' = <<>>
  /\ at' = "register"
  /\ Unmoved
  /\ UNCHANGED <<tableVars, localVars, replyVars, processState>>

SocketOptionFails(t) ==
  /\ pc[t] = "init" /\ at \in {"reuse", "bind"}
  /\ InitReturns(t, FALSE)
  /\ UNCHANGED <<kernelVars, tableVars, cursor, replyVars, processState>>

\* AddReadSocket, then PollFDAdd, which refuses when the table is full.
Register(t) ==
  /\ pc[t] = "init" /\ at = "register"
  /\ readSockets' = readSockets \cup {sockfd}
  /\ pollFds' = IF Len(pollFds) < MaxFDSize
                THEN Append(pollFds, [fd |-> sockfd, revents |-> FALSE])
                ELSE pollFds
  /\ InitReturns(t, Len(pollFds) < MaxFDSize)
  /\ UNCHANGED <<kernelVars, eventsCount, cursor, replyVars, processState>>
-----------------------------------------------------------------------------
(* Run: WaitNetworkEvent, then ProcessReadEvent.                           *)

RunReturns(t) == Thread!RunOK(t) /\ at' = "none" /\ cursor' = 0

\* m_bExit is read before the poll and again after it.
RunSeesExit(t) ==
  /\ pc[t] = "run" /\ at \in {"none", "polled"}
  /\ bExit
  /\ RunReturns(t)
  /\ UNCHANGED <<kernelVars, tableVars, sockfd, replyVars,
                 processState>>

EnterPoll(t) ==
  /\ pc[t] = "run" /\ at = "none"
  /\ ~bExit
  /\ at' = "poll"
  /\ Unmoved
  /\ UNCHANGED <<kernelVars, tableVars, localVars, replyVars,
                 processState>>

Readable(f) == socketOf[f] = "bound" /\ queue # <<>>

PollReady(t) ==
  /\ pc[t] = "run" /\ at = "poll"
  /\ \E i \in 1..Len(pollFds) : Readable(pollFds[i].fd)
  /\ pollFds' = [i \in 1..Len(pollFds) |->
                   [pollFds[i] EXCEPT !.revents = Readable(pollFds[i].fd)]]
  /\ eventsCount' = Cardinality({i \in 1..Len(pollFds) : pollFds'[i].revents})
  /\ at' = "polled"
  /\ Unmoved
  /\ UNCHANGED <<kernelVars, readSockets, localVars, replyVars,
                 processState>>

\* poll reports an error condition (POLLERR) of a socket that has no datagram:
\* it counts as an event, but ProcessReadEvent looks for input only.
PollError(t) ==
  /\ pc[t] = "run" /\ at = "poll"
  /\ Len(pollFds) > 0 /\ queue = <<>>
  /\ eventsCount' = 1
  /\ at' = "polled"
  /\ Unmoved
  /\ UNCHANGED <<kernelVars, readSockets, pollFds, localVars, replyVars,
                 processState>>

\* poll returns 0 at its timeout, is interrupted (EINTR), or fails (-1, after
\* which the thread sleeps for the timeout).
PollTimeout(t) ==
  /\ pc[t] = "run" /\ at = "poll"
  /\ queue = <<>>
  /\ eventsCount' = 0
  /\ RunReturns(t)
  /\ UNCHANGED <<kernelVars, readSockets, pollFds, sockfd, replyVars,
                 processState>>

PollFails(t) ==
  /\ pc[t] = "run" /\ at = "poll"
  /\ eventsCount' \in {0, -1}
  /\ RunReturns(t)
  /\ UNCHANGED <<kernelVars, readSockets, pollFds, sockfd, replyVars,
                 processState>>

EnterRead(t) ==
  /\ pc[t] = "run" /\ at = "polled"
  /\ ~bExit
  /\ at' = "scan"
  /\ cursor' = 1
  /\ Unmoved
  /\ UNCHANGED <<kernelVars, tableVars, sockfd, replyVars, processState>>

ScanNext(t) ==
  /\ pc[t] = "run" /\ at = "scan"
  /\ cursor <= Len(pollFds)
  /\ IF pollFds[cursor].revents
     THEN /\ pollFds' = [pollFds EXCEPT ![cursor].revents = FALSE]
          /\ at' = "recv"
          /\ UNCHANGED cursor
     ELSE /\ cursor' = cursor + 1
          /\ UNCHANGED <<pollFds, at>>
  /\ Unmoved
  /\ UNCHANGED <<kernelVars, readSockets, eventsCount, sockfd, replyVars,
                 processState>>

ScanEnds(t) ==
  /\ pc[t] = "run" /\ at = "scan"
  /\ cursor > Len(pollFds)
  /\ RunReturns(t)
  /\ UNCHANGED <<kernelVars, tableVars, sockfd, replyVars,
                 processState>>

\* Faulty: goes on reading the same socket as long as it has datagrams.
Mutant_Drain(t) ==
  IF queue # <<>>
  THEN at' = "recv" /\ UNCHANGED <<eventsCount, cursor>> /\ Unmoved
  ELSE eventsCount' = 0 /\ RunReturns(t)

\* One event is served: --m_iEventsCount, break at 0, else the next entry.
EventServed(t) ==
  /\ eventsCount' = eventsCount - 1
  /\ IF eventsCount - 1 <= 0
     THEN RunReturns(t)
     ELSE at' = "scan" /\ cursor' = cursor + 1 /\ Unmoved

\* Faulty: recvfrom is given no address, m_saRecv keeps an older sender.
Mutant_KeepsSender(t) ==
  /\ pc[t] = "run" /\ at = "recv"
  /\ queue # <<>> /\ Head(queue).kind = "request"
  /\ queue' = Tail(queue)
  /\ recvBuf' = Head(queue)
  /\ held' = {processState}
  /\ at' = "message"
  /\ Unmoved
  /\ UNCHANGED <<socketOf, tableVars, localVars, saRecv, reply, lastResponse, late,
                 processState>>

\* ReceiveIntMessage reads a datagram into m_szRecvBuf and its sender into
\* m_saRecv.  OnMessage goes on with a request; anything else ends in
\* OnReadSocketError, overridden to keep the socket.
ReceiveRequest(t) ==
  /\ pc[t] = "run" /\ at = "recv"
  /\ queue # <<>> /\ Head(queue).kind = "request"
  /\ queue' = Tail(queue)
  /\ recvBuf' = Head(queue)
  /\ saRecv' = Head(queue).from
  /\ held' = {processState}
  /\ at' = "message"
  /\ Unmoved
  /\ UNCHANGED <<socketOf, tableVars, localVars, reply, lastResponse,
                 late, processState>>

\* Faulty: a runt or an unknown message ends the processing of the pass
\* without being read off the socket.
Mutant_OtherNotConsumed(t) ==
  /\ pc[t] = "run" /\ at = "recv"
  /\ queue # <<>> /\ Head(queue).kind # "request"
  /\ EventServed(t)
  /\ UNCHANGED <<kernelVars, readSockets, pollFds, sockfd, replyVars, processState>>

ReceiveOther(t) ==
  /\ pc[t] = "run" /\ at = "recv"
  /\ queue # <<>> /\ Head(queue).kind # "request"
  /\ queue' = Tail(queue)
  /\ recvBuf' = Head(queue)
  /\ saRecv' = Head(queue).from
  /\ EventServed(t)
  /\ UNCHANGED <<socketOf, readSockets, pollFds, sockfd, reply,
                 lastResponse, held, late, processState>>

ReceiveFails(t) ==
  /\ pc[t] = "run" /\ at = "recv"
  /\ EventServed(t)
  /\ UNCHANGED <<kernelVars, readSockets, pollFds, sockfd, replyVars,
                 processState>>

\* SendHeartbeatResponse copies m_processState into the message ...
BuildResponse(t) ==
  /\ pc[t] = "run" /\ at = "message"
  /\ reply' = processState
  /\ at' = "send"
  /\ Unmoved
  /\ UNCHANGED <<kernelVars, tableVars, localVars, recvBuf, saRecv,
                 lastResponse, held, late, processState>>

\* ... and sends it to m_saRecv with the sequence number of m_szRecvBuf.
SendResponse(t) ==
  /\ pc[t] = "run" /\ at = "send"
  /\ lastResponse' = [to |-> saRecv, seq |-> recvBuf.seq, state |-> reply]
  /\ late' = IF bExit THEN late + 1 ELSE late
  /\ held' = {}
  /\ reply' = None
  /\ EventServed(t)
  /\ UNCHANGED <<kernelVars, readSockets, pollFds, sockfd, recvBuf,
                 saRecv, processState>>

SendFails(t) ==
  /\ pc[t] = "run" /\ at = "send"
  /\ held' = {}
  /\ reply' = None
  /\ EventServed(t)
  /\ UNCHANGED <<kernelVars, readSockets, pollFds, sockfd, recvBuf,
                 saRecv, lastResponse, late, processState>>
-----------------------------------------------------------------------------
(* ExitInstance of CNetworkThread.                                         *)

\* Faulty: the poll table survives the sockets it lists.
Mutant_TableKept(t) ==
  /\ pc[t] = "exit"
  /\ Thread!ExitInstance(t)
  /\ socketOf' = [f \in Fds |-> IF f \in readSockets THEN "closed" ELSE socketOf[f]]
  /\ queue' = <<>>
  /\ readSockets' = {}
  /\ eventsCount' = 0
  /\ UNCHANGED <<pollFds, at, localVars, replyVars, processState>>

\* Faulty: the read sockets are forgotten without being closed.
Mutant_NotClosed(t) ==
  /\ pc[t] = "exit"
  /\ Thread!ExitInstance(t)
  /\ readSockets' = {}
  /\ pollFds' = <<>>
  /\ eventsCount' = 0
  /\ UNCHANGED <<kernelVars, at, localVars, replyVars, processState>>

CloseAll(t) ==
  /\ pc[t] = "exit"
  /\ Thread!ExitInstance(t)
  /\ socketOf' = [f \in Fds |-> IF f \in readSockets THEN "closed" ELSE socketOf[f]]
  /\ queue' = IF \E f \in readSockets : socketOf[f] = "bound" THEN <<>> ELSE queue
  /\ readSockets' = {}
  /\ pollFds' = <<>>
  /\ eventsCount' = 0
  /\ UNCHANGED <<at, localVars, replyVars, processState>>
-----------------------------------------------------------------------------
\* The steps of the thread object that run no virtual function.
ThreadStep ==
  /\ \/ \E t \in Starters : Thread!Start(t)
     \/ \E t \in Thread!App : Thread!Stop(t) \/ Thread!Wait(t)
     \/ \E t \in Thread!Threads :
          \/ Thread!Dispatch(t) \/ Thread!EnterRun(t) \/ Thread!LeaveRun(t)
          \/ Thread!Finish(t) \/ Thread!NotifyExit(t)
  /\ late' = IF bExit' THEN late ELSE 0
  /\ UNCHANGED <<kernelVars, tableVars, at, localVars, recvBuf, saRecv,
                 reply, lastResponse, held, processState>>

InitInstance(t) == \/ CreateSocket(t) \/ CreateSocketFails(t) \/ SetReuseAddr(t)
                   \/ Bind(t) \/ SocketOptionFails(t) \/ Register(t)

Run(t) == \/ RunSeesExit(t) \/ EnterPoll(t) \/ PollReady(t) \/ PollError(t)
          \/ PollTimeout(t) \/ PollFails(t) \/ EnterRead(t) \/ ScanNext(t) \/ ScanEnds(t)
          \/ ReceiveRequest(t) \/ ReceiveOther(t) \/ ReceiveFails(t)
          \/ BuildResponse(t) \/ SendResponse(t) \/ SendFails(t)

\* An application thread reports its health (SetProcessAlive, SetProcessSWError,
\* SetProcessHWError); no lock orders it with the executor.
SetProcessState(s) ==
  /\ processState' = s
  /\ held' = IF Answering THEN held \cup {s} ELSE held
  /\ UNCHANGED <<threadVars, kernelVars, tableVars, at, localVars,
                 recvBuf, saRecv, reply, lastResponse, late>>

\* A datagram reaches the port; the kernel drops it when the buffer is full.
Arrive(d) ==
  /\ \E f \in Fds : socketOf[f] = "bound"
  /\ Len(queue) < MaxQueue
  /\ queue' = Append(queue, d)
  /\ UNCHANGED <<threadVars, socketOf, tableVars, at, localVars,
                 replyVars, processState>>

Next == \/ ThreadStep
        \/ \E t \in Thread!Threads : InitInstance(t) \/ Run(t) \/ CloseAll(t)
        \/ \E s \in ProcessStates : SetProcessState(s)
        \/ \E d \in Datagrams : Arrive(d)

Spec == Init /\ [][Next]_vars

\* The thread that executes the responder is scheduled, and so are threads
\* inside a call of the object; poll and recvfrom, called again and again, do
\* not fail for ever.  The timeout given to the constructor is not negative,
\* so that poll returns.  A closing thread never executes the object.
Fairness ==
  /\ \A t \in Starters \cup Workers :
       /\ WF_vars(InitInstance(t) \/ Run(t) \/ CloseAll(t))
       /\ WF_vars(ThreadStep /\ pc[t] \in Thread!Executing)
       /\ SF_vars(PollReady(t))
       /\ SF_vars(ReceiveRequest(t) \/ ReceiveOther(t))
  /\ \A t \in Starters :
       WF_vars(ThreadStep /\ pc[t] \in Thread!Starting \cup {"spawn"})

FairSpec == Spec /\ Fairness
-----------------------------------------------------------------------------
Locations == {"none", "reuse", "bind", "register", "poll", "polled", "scan",
              "recv", "message", "send"}

TypeOK ==
  /\ socketOf \in [Fds -> {"closed", "open", "bound"}]
  /\ queue \in Seq(Datagrams) /\ Len(queue) <= MaxQueue
  /\ readSockets \in SUBSET Fds
  /\ pollFds \in Seq([fd : Fds, revents : BOOLEAN]) /\ Len(pollFds) <= MaxFDSize
  /\ eventsCount \in -1..MaxFDSize
  /\ at \in Locations
  /\ sockfd \in Fds \cup {None}
  /\ cursor \in 0..(MaxFDSize + 1)
  /\ recvBuf \in Datagrams \cup {None}
  /\ saRecv \in Monitors \cup {None}
  /\ processState \in ProcessStates
  /\ reply \in ProcessStates \cup {None} /\ (reply # None <=> at = "send")
  /\ held \in SUBSET ProcessStates
  /\ late \in Nat

\* The poll table lists read sockets that are bound, each once: poll never
\* waits on a descriptor that was closed and may now be another file.
NoStaleDescriptor ==
  /\ \A i \in 1..Len(pollFds) : /\ pollFds[i].fd \in readSockets
                                /\ socketOf[pollFds[i].fd] = "bound"
  /\ \A i, j \in 1..Len(pollFds) : pollFds[i].fd = pollFds[j].fd => i = j

\* Across starts, stops and failures the tables of the network thread stay
\* well-formed and in step with the descriptors of the kernel.
TablesConsistent == TypeOK /\ NoStaleDescriptor

\* When no thread executes the responder it holds no bound socket and an
\* empty table, so the next start can bind the port again.  (A descriptor
\* whose reuse_addr or bind failed may still be open: InitInstance leaks it.)
StoppedReleasesPort ==
  Thread!Executors = {} =>
    /\ readSockets = {} /\ pollFds = <<>>
    /\ \A f \in Fds : socketOf[f] # "bound"

\* After EndThread at most one more request is answered.
AtMostOneLate == late <= 1

\* The responder keeps the promises of HeartbeatService.
Service == INSTANCE HeartbeatService WITH
             current <- IF Answering THEN [from |-> saRecv, seq |-> recvBuf.seq]
                                     ELSE None
ServiceSpec == Service!Spec

\* A datagram never stays in the receive buffer for ever: it is read, or the
\* responder ends and closes the socket.  (Stated for MaxQueue = 1.)
QueueServed == queue # <<>> ~> queue = <<>>

\* After a final EndThread the port is released for good.
EndThreadReleasesPort == <>[]bExit => <>[](\A f \in Fds : socketOf[f] # "bound")
=============================================================================
