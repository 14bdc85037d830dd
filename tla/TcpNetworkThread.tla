--------------------------- MODULE TcpNetworkThread ---------------------------
(***************************************************************************)
(* CiUtils' CNetworkThread, the poll build: a thread that listens, accepts *)
(* TCP connections, and serves them from a poll table.  One thread runs    *)
(* it; what interleaves with its steps is the kernel, the peers and        *)
(* EndThread.  Of the functions a derived class overrides,                 *)
(* ProcessWithConnectedSocket may refuse a connection, OnMessage may write *)
(* to its socket, close it or close another, ProcessTimeout may write.     *)
(***************************************************************************)
EXTENDS Integers, Sequences, FiniteSets, FiniteSetsExt

CONSTANTS
  Sockets,      \* the connections peers may make
  Listen,       \* m_pListenSocket
  MaxFDSizes,   \* the sizes the arrays and the table may be constructed with
  MaxUnsent     \* bound: the amount of data in all send buffers

ASSUME TcpConstants == /\ Listen \notin Sockets
                       /\ MaxFDSizes \subseteq Nat \ {0}
                       /\ MaxUnsent \in Nat

VARIABLES
  maxFDSize,      \* m_iMaxFDSize
  port,           \* m_iListenPortNumber: "none" (invalid), "any" (0) or "given"
  listenFd,       \* its descriptor: "none", "open", or "owned" by m_pListenSocket
  table,          \* m_PollFds and m_PollSockets: [socket, in, out, revents]
  readSockets,    \* m_ReadSockets
  writeSockets,   \* m_WriteSockets
  eventsCount,    \* m_iEventsCount
  bExit,          \* m_bExit
  at,             \* where the thread is
  cursor,         \* the index of the scan of the table
  conn,           \* of each connection: "away", "calling" or "open" (accepted)
  incoming,       \* what the kernel holds to be read: "none", "part", "message"
  unsent,         \* GetRemainSendDataSize
  displaced,      \* history: moved in the table by their own OnMessage
  unpolled        \* history: AddReadOperation could not enter them in the table

listenVars == <<maxFDSize, port, listenFd>>
tableVars  == <<table, readSockets, writeSockets>>
threadVars == <<eventsCount, bExit, at, cursor>>
netVars    == <<conn, incoming, unsent>>
histories  == <<displaced, unpolled>>
vars == <<listenVars, tableVars, threadVars, netVars, histories>>

Entry(s) == [socket |-> s, in |-> TRUE, out |-> FALSE, revents |-> {}]
WriteEntry(s) == [Entry(s) EXCEPT !.in = FALSE, !.out = TRUE]

Init ==
  /\ maxFDSize \in MaxFDSizes
  /\ port \in {"none", "any", "given"} /\ listenFd = "none"
  /\ table = <<>> /\ readSockets = {} /\ writeSockets = {}
  /\ eventsCount = 0 /\ bExit = TRUE /\ at = "stopped" /\ cursor = 1
  /\ conn = [s \in Sockets |-> "away"]
  /\ incoming = [s \in Sockets |-> "none"]
  /\ unsent = [s \in Sockets |-> 0]
  /\ displaced = {} /\ unpolled = {}
-----------------------------------------------------------------------------
(* The poll table.                                                         *)

SocketsIn(t) == {t[i].socket : i \in 1..Len(t)}

\* A full table takes no entry.
PollFDAdd(t, entry) == IF Len(t) < maxFDSize THEN Append(t, entry) ELSE t

IndexOf(t, s) == CHOOSE i \in 1..Len(t) : t[i].socket = s

\* Faulty: the last entry is dropped instead of being moved into the hole.
Mutant_DeleteNoMove(t, s) == SubSeq(t, 1, Len(t) - 1)

\* PollFDDelete moves the last entry into the hole.
PollFDDelete(t, s) ==
  IF s \notin SocketsIn(t) THEN t
  ELSE SubSeq([t EXCEPT ![IndexOf(t, s)] = t[Len(t)]], 1, Len(t) - 1)

\* The write event of an entry.
PollFDEnable(t, i) == [t EXCEPT ![i].out = TRUE]
PollFDDisable(t, i) == [t EXCEPT ![i].out = FALSE]

\* OnReadSocketError (OnWriteSocketError is the same): the socket leaves the
\* table and both arrays, is disconnected and deleted.
CloseSocket(t, s) ==
  /\ table' = PollFDDelete(t, s)
  /\ readSockets' = readSockets \ {s}
  /\ writeSockets' = writeSockets \ {s}
  /\ conn' = [conn EXCEPT ![s] = "away"]
  /\ unsent' = [unsent EXCEPT ![s] = 0]
  /\ displaced' = displaced \ {s} /\ unpolled' = unpolled \ {s}

\* The state of a socket's data in the kernel goes with the connection.
Forget(s) == incoming' = [incoming EXCEPT ![s] = "none"]
-----------------------------------------------------------------------------
(* Start and stop: see CiThread for the thread object.                     *)

Start ==
  /\ at = "stopped"
  /\ at' = "init" /\ bExit' = FALSE
  /\ UNCHANGED <<listenVars, tableVars, eventsCount, cursor, netVars, histories>>

SetListenPortNumber(p) ==
  /\ at = "stopped"
  /\ port' = p
  /\ UNCHANGED <<maxFDSize, listenFd, tableVars, threadVars, netVars, histories>>

EndThread ==
  /\ bExit' = TRUE
  /\ UNCHANGED <<listenVars, tableVars, eventsCount, at, cursor, netVars, histories>>

\* Without a listen port the thread runs at once; otherwise socket() is called.
InitInstance ==
  /\ at = "init"
  /\ \/ port = "none" /\ at' = "idle" /\ UNCHANGED listenFd
     \/ port # "none" /\ at' = "exit" /\ UNCHANGED listenFd
     \/ port # "none" /\ at' = "bind" /\ listenFd' = "open"
  /\ UNCHANGED <<maxFDSize, port, tableVars, eventsCount, bExit, cursor, netVars, histories>>

\* nu_create_listen_socket: setsockopt, bind and listen; the descriptor is
\* closed when one of them fails.
BindListenSocket ==
  /\ at = "bind"
  /\ \/ at' = "name" /\ UNCHANGED listenFd
     \/ at' = "exit" /\ listenFd' = "none"
  /\ UNCHANGED <<maxFDSize, port, tableVars, eventsCount, bExit, cursor, netVars, histories>>

\* Faulty: the descriptor is not closed when its port cannot be found out.
Mutant_NameLeak ==
  /\ at = "name"
  /\ \/ at' = "idle" /\ port' = "given" /\ listenFd' = "owned"
        /\ table' = Append(table, Entry(Listen))
     \/ at' = "exit" /\ port = "any" /\ UNCHANGED <<port, listenFd, table>>
  /\ UNCHANGED <<maxFDSize, readSockets, writeSockets, eventsCount, bExit, cursor,
                 netVars, histories>>

\* nu_get_local_port_number replaces port 0, so that a restart listens to the
\* same port; then the descriptor gets its owner and its entry in the table.
OwnListenSocket ==
  /\ at = "name"
  /\ \/ at' = "idle" /\ port' = "given" /\ listenFd' = "owned"
        /\ table' = Append(table, Entry(Listen))
     \/ at' = "exit" /\ port = "any" /\ listenFd' = "none" /\ UNCHANGED <<port, table>>
  /\ UNCHANGED <<maxFDSize, readSockets, writeSockets, eventsCount, bExit, cursor,
                 netVars, histories>>

LeaveRun ==
  /\ at = "idle" /\ bExit
  /\ at' = "exit"
  /\ UNCHANGED <<listenVars, tableVars, eventsCount, bExit, cursor, netVars, histories>>

ExitInstance ==
  /\ at = "exit"
  /\ at' = "stopped"
  /\ listenFd' = IF listenFd = "owned" THEN "none" ELSE listenFd
  /\ table' = <<>> /\ readSockets' = {} /\ writeSockets' = {}
  /\ displaced' = {} /\ unpolled' = {}
  /\ eventsCount' = 0
  /\ conn' = [s \in Sockets |-> "away"]
  /\ incoming' = [s \in Sockets |-> "none"]
  /\ unsent' = [s \in Sockets |-> 0]
  /\ UNCHANGED <<maxFDSize, port, bExit, cursor>>

\* Called by a derived class, here from ProcessTimeout.  The entry of the
\* socket stays in the table; the kernel turns the callers away.
CloseListenSocket ==
  /\ at = "timeout" /\ listenFd = "owned"
  /\ listenFd' = "none"
  /\ conn' = [s \in Sockets |-> IF conn[s] = "calling" THEN "away" ELSE conn[s]]
  /\ UNCHANGED <<maxFDSize, port, tableVars, threadVars, incoming, unsent, histories>>
-----------------------------------------------------------------------------
(* Run: poll, the listen socket, the read pass, the write pass.            *)

\* What poll reports: reading as long as there is something to read, writing
\* for those of the sockets with the event set that the kernel has room for.
Readable(s) == IF s = Listen THEN \E c \in Sockets : conn[c] = "calling"
                             ELSE incoming[s] # "none"

\* A descriptor that is closed and in the table is reported as POLLNVAL.
Stale(s) == s = Listen /\ listenFd # "owned"

Polled(room) ==
  [i \in 1..Len(table) |->
     [table[i] EXCEPT !.revents = IF Stale(table[i].socket) THEN {"nval"} ELSE
        (IF table[i].in /\ Readable(table[i].socket) THEN {"in"} ELSE {}) \cup
        (IF table[i].out /\ table[i].socket \in room THEN {"out"} ELSE {})]]

Reported(t) == {i \in 1..Len(t) : t[i].revents # {}}

PollReady(room) ==
  /\ at = "idle" /\ ~bExit
  /\ table' = Polled(room)
  /\ Reported(table') # {}
  /\ eventsCount' = Cardinality(Reported(table'))
  /\ at' = "listen"
  /\ UNCHANGED <<listenVars, readSockets, writeSockets, bExit, cursor, netVars, histories>>

PollTimeout ==
  /\ at = "idle" /\ ~bExit
  /\ table' = Polled({})
  /\ Reported(table') = {}
  /\ eventsCount' = 0
  /\ at' = "timeout"
  /\ UNCHANGED <<listenVars, readSockets, writeSockets, bExit, cursor, netVars, histories>>

\* A signal makes Run return at once; after another error, with m_iEventsCount
\* negative, no pass is made.
PollFails ==
  /\ at = "idle" /\ ~bExit
  /\ \/ eventsCount' = 0 /\ UNCHANGED at
     \/ eventsCount' = -1 /\ at' = "timeout"
  /\ UNCHANGED <<listenVars, tableVars, bExit, cursor, netVars, histories>>

\* m_bExit and m_iEventsCount are tested before each pass.
Pass(from, to) ==
  /\ at = from
  /\ at' = IF bExit THEN "idle" ELSE IF eventsCount > 0 THEN to ELSE "timeout"
  /\ cursor' = 1
  /\ UNCHANGED <<listenVars, tableVars, eventsCount, bExit, netVars, histories>>

ListenReported ==
  /\ listenFd = "owned" /\ ~bExit /\ eventsCount > 0
  /\ "in" \in table[IndexOf(table, Listen)].revents

\* Faulty: the event of the listen socket is not cleared.
Mutant_ListenKept(t) == t

ClearListen(t) == [t EXCEPT ![IndexOf(t, Listen)].revents = {}]

\* ProcessConnection: accept fails when the caller is gone, or the process has
\* no descriptor left and the caller goes on calling; the connection is
\* closed at once when the arrays or the table are full, or the derived class
\* does not want it.
AcceptFails ==
  /\ at = "listen" /\ ListenReported
  /\ table' = ClearListen(table)
  /\ eventsCount' = eventsCount - 1
  /\ UNCHANGED <<listenVars, readSockets, writeSockets, bExit, at, cursor, netVars,
                 histories>>

HasRoom == Cardinality(readSockets) < maxFDSize /\ Len(table) < maxFDSize

ProcessConnection(c) ==
  /\ at = "listen" /\ ListenReported /\ conn[c] = "calling"
  /\ eventsCount' = eventsCount - 1
  /\ \/ /\ HasRoom
        /\ table' = Append(ClearListen(table), Entry(c))
        /\ readSockets' = readSockets \cup {c}
        /\ conn' = [conn EXCEPT ![c] = "open"]
        /\ UNCHANGED incoming
     \/ /\ table' = ClearListen(table)
        /\ conn' = [conn EXCEPT ![c] = "away"]
        /\ Forget(c)
        /\ UNCHANGED readSockets
  /\ UNCHANGED <<listenVars, writeSockets, bExit, at, cursor, unsent, histories>>

ListenPass == ~ListenReported /\ Pass("listen", "read")
-----------------------------------------------------------------------------
(* The read pass: ReceiveIntMessage and OnMessage of the sockets that poll *)
(* reported as readable.                                                   *)

\* The entries the scan has still to look at; m_iPollFdCount is read anew at
\* every step.
Due(event) == {i \in cursor..Len(table) : event \in table[i].revents}
Here(event) == CHOOSE i \in Due(event) : \A j \in Due(event) : i <= j

Serving(pass, event, s) ==
  at = pass /\ Due(event) # {} /\ s = table[Here(event)].socket

Cleared(event) == [table EXCEPT ![Here(event)].revents = {}]

\* Faulty: the pass ends after the first event.
Mutant_OneEvent(event) ==
  /\ eventsCount' = eventsCount - 1
  /\ cursor' = Len(table) + 1
  /\ UNCHANGED <<listenVars, at, bExit>>

\* --m_iEventsCount ends the pass at 0.
Served(event) ==
  /\ eventsCount' = eventsCount - 1
  /\ cursor' = IF eventsCount - 1 <= 0 THEN Len(table) + 1 ELSE Here(event) + 1
  /\ UNCHANGED <<listenVars, at, bExit>>

ScanEnds(pass, event, next) == Due(event) = {} /\ Pass(pass, next)

\* ReceiveIntMessage finds less than a message: RECEIVE_INT_MESSAGE_INTERIM.
ReceivePart(s) ==
  /\ Serving("read", "in", s) /\ incoming[s] = "part"
  /\ table' = Cleared("in")
  /\ Forget(s)
  /\ Served("in")
  /\ UNCHANGED <<readSockets, writeSockets, conn, unsent, histories>>

\* The end of the stream, an error, or a message that OnMessage refuses; a
\* derived class may also close the socket in OnMessage itself.
ReceiveFails(s) ==
  /\ Serving("read", "in", s) /\ s \in Sockets
  /\ CloseSocket(Cleared("in"), s)
  /\ Forget(s)
  /\ Served("in")

\* Enable the write event, or enter the socket in the table for writing only,
\* and enter it in the write array, unless it is there.
AddWrite(t, s) ==
  /\ table' = IF s \in writeSockets THEN t
              ELSE IF s \in SocketsIn(t) THEN PollFDEnable(t, IndexOf(t, s))
              ELSE PollFDAdd(t, WriteEntry(s))
  /\ writeSockets' = writeSockets \cup {s}

Bounded(s, left) ==
  left + MapThenSumSet(LAMBDA o : unsent[o], Sockets \ {s}) <= MaxUnsent

\* Faulty: the write event of a socket that has data to send is not enabled.
Mutant_NoWriteEvent(s, left) ==
  /\ Serving("read", "in", s) /\ incoming[s] = "message" /\ Bounded(s, left)
  /\ unsent' = [unsent EXCEPT ![s] = left]
  /\ table' = Cleared("in")
  /\ Forget(s)
  /\ Served("in")
  /\ UNCHANGED <<readSockets, writeSockets, conn, histories>>

\* OnMessage may write to its socket; `left' is what is unsent afterwards.
OnMessage(s, left) ==
  /\ Serving("read", "in", s) /\ incoming[s] = "message" /\ Bounded(s, left)
  /\ unsent' = [unsent EXCEPT ![s] = left]
  /\ IF left > 0 THEN AddWrite(Cleared("in"), s)
                 ELSE table' = Cleared("in") /\ UNCHANGED writeSockets
  /\ displaced' = displaced \ {s}
  /\ Forget(s)
  /\ Served("in")
  /\ UNCHANGED <<readSockets, conn, unpolled>>

\* OnMessage closes another connection o, and may write to its own.  If s was
\* the last entry it moves into the hole; then m_PollSockets[i] is no longer
\* s and the thread does not look at the data it left.
OnMessageCloses(s, o, left) ==
  LET t == PollFDDelete(Cleared("in"), o)
      stays == Here("in") <= Len(t) /\ t[Here("in")].socket = s
  IN  /\ Serving("read", "in", s) /\ incoming[s] = "message" /\ Bounded(s, left)
      /\ o \in readSockets \ {s}
      /\ unsent' = [unsent EXCEPT ![s] = left, ![o] = 0]
      /\ readSockets' = readSockets \ {o}
      /\ conn' = [conn EXCEPT ![o] = "away"]
      /\ incoming' = [incoming EXCEPT ![s] = "none", ![o] = "none"]
      /\ IF stays /\ left > 0 /\ s \notin writeSockets
         THEN /\ table' = PollFDEnable(t, Here("in"))
              /\ writeSockets' = (writeSockets \cup {s}) \ {o}
         ELSE table' = t /\ writeSockets' = writeSockets \ {o}
      /\ displaced' = (IF stays THEN displaced ELSE displaced \cup {s}) \ {o}
      /\ unpolled' = unpolled \ {o}
      /\ Served("in")
-----------------------------------------------------------------------------
(* The write pass: WriteFromBufferToNetwork.                               *)

WriteFails(s) ==
  /\ Serving("write", "out", s)
  /\ CloseSocket(Cleared("out"), s)
  /\ Forget(s)
  /\ Served("out")

\* Faulty: the write event is disabled whatever is left to send.
Mutant_WriteOnce(s, left) ==
  /\ Serving("write", "out", s)
  /\ left < unsent[s] \/ left = 0
  /\ unsent' = [unsent EXCEPT ![s] = left]
  /\ table' = PollFDDisable(Cleared("out"), Here("out"))
  /\ writeSockets' = writeSockets \ {s}
  /\ Served("out")
  /\ UNCHANGED <<readSockets, conn, incoming, histories>>

\* The kernel, which had room, takes some of it.
DoWrite(s, left) ==
  /\ Serving("write", "out", s)
  /\ left < unsent[s] \/ left = 0
  /\ unsent' = [unsent EXCEPT ![s] = left]
  /\ IF left > 0 THEN table' = Cleared("out") /\ UNCHANGED writeSockets
                 ELSE /\ table' = PollFDDisable(Cleared("out"), Here("out"))
                      /\ writeSockets' = writeSockets \ {s}
  /\ Served("out")
  /\ UNCHANGED <<readSockets, conn, incoming, histories>>

\* ProcessTimeout of a derived class may write to any of its sockets; it then
\* calls CheckWriteOperation.
CheckWriteOperation(s, left) ==
  /\ at = "timeout" /\ ~bExit /\ s \in readSockets /\ left > 0 /\ Bounded(s, left)
  /\ unsent' = [unsent EXCEPT ![s] = left]
  /\ AddWrite(table, s)
  /\ displaced' = displaced \ {s}
  /\ UNCHANGED <<listenVars, readSockets, threadVars, conn, incoming, unpolled>>

\* ProcessTimeout may also hand over a connection that the derived class made,
\* as long as the arrays have room.  PollFDAdd's result is not looked at.
AddReadOperation(s) ==
  /\ at = "timeout" /\ ~bExit /\ conn[s] = "away" /\ Cardinality(readSockets) < maxFDSize
  /\ conn' = [conn EXCEPT ![s] = "open"]
  /\ readSockets' = readSockets \cup {s}
  /\ table' = PollFDAdd(table, Entry(s))
  /\ unpolled' = IF s \in SocketsIn(table') THEN unpolled ELSE unpolled \cup {s}
  /\ UNCHANGED <<listenVars, writeSockets, threadVars, incoming, unsent, displaced>>

EndRound ==
  /\ at = "timeout"
  /\ at' = "idle"
  /\ UNCHANGED <<listenVars, tableVars, eventsCount, bExit, cursor, netVars, histories>>
-----------------------------------------------------------------------------
(* The peers and the kernel.                                               *)

Call(c) ==
  /\ conn[c] = "away" /\ listenFd = "owned" /\ at # "exit"
  /\ conn' = [conn EXCEPT ![c] = "calling"]
  /\ UNCHANGED <<listenVars, tableVars, threadVars, incoming, unsent, histories>>

HangUp(c) ==
  /\ conn[c] = "calling"
  /\ conn' = [conn EXCEPT ![c] = "away"]
  /\ UNCHANGED <<listenVars, tableVars, threadVars, incoming, unsent, histories>>

\* Less than a message, the end of the stream included; or the rest of one.
Arrive(s) ==
  /\ conn[s] = "open"
  /\ \/ incoming[s] = "none" /\ incoming' = [incoming EXCEPT ![s] = "part"]
     \/ incoming[s] \in {"none", "part"} /\ incoming' = [incoming EXCEPT ![s] = "message"]
  /\ UNCHANGED <<listenVars, tableVars, threadVars, conn, unsent, histories>>
-----------------------------------------------------------------------------
ReadPass == \/ \E s \in Sockets : ReceivePart(s) \/ ReceiveFails(s)
            \/ \E s \in Sockets, left \in 0..MaxUnsent :
                 OnMessage(s, left) \/ \E o \in Sockets : OnMessageCloses(s, o, left)
            \/ ScanEnds("read", "in", "write")

WritePass == \/ \E s \in Sockets : WriteFails(s) \/ \E left \in 0..MaxUnsent : DoWrite(s, left)
             \/ ScanEnds("write", "out", "timeout")

Accept == AcceptFails \/ ListenPass \/ \E c \in Sockets : ProcessConnection(c)

Begin == InitInstance \/ BindListenSocket \/ OwnListenSocket

Thread == Start \/ Begin \/ LeaveRun \/ ExitInstance \/ Accept \/ ReadPass
          \/ WritePass \/ PollTimeout \/ PollFails \/ EndRound
          \/ \E room \in SUBSET Sockets : PollReady(room)

Next == \/ Thread \/ EndThread \/ CloseListenSocket
        \/ \E p \in {"none", "any", "given"} : SetListenPortNumber(p)
        \/ \E s \in Sockets, left \in 1..MaxUnsent : CheckWriteOperation(s, left)
        \/ \E s \in Sockets : AddReadOperation(s) \/ Call(s) \/ HangUp(s) \/ Arrive(s)

Spec == Init /\ [][Next]_vars

\* The thread is scheduled, poll does not fail for ever, and a peer that stays
\* connected reads on, so that the kernel has room for its data again and
\* again.
FairSpec ==
  /\ Spec
  /\ WF_vars(Begin \/ LeaveRun \/ ExitInstance \/ Accept \/ ReadPass \/ WritePass
             \/ EndRound)
  /\ SF_vars(\E room \in SUBSET Sockets : PollReady(room))
  /\ \A s \in Sockets : SF_vars(PollReady(Sockets) /\ s \in writeSockets)
-----------------------------------------------------------------------------
Running == at \in {"idle", "listen", "read", "write", "timeout"}

TypeOK ==
  /\ maxFDSize \in MaxFDSizes
  /\ port \in {"none", "any", "given"} /\ listenFd \in {"none", "open", "owned"}
  /\ table \in Seq([socket : Sockets \cup {Listen}, in : BOOLEAN, out : BOOLEAN,
                     revents : SUBSET {"in", "out", "nval"}])
  /\ readSockets \subseteq Sockets /\ writeSockets \subseteq readSockets
  /\ eventsCount \in Int /\ bExit \in BOOLEAN /\ cursor \in Nat
  /\ at \in {"stopped", "init", "bind", "name", "idle", "listen", "read", "write", "timeout", "exit"}
  /\ conn \in [Sockets -> {"away", "calling", "open"}]
  /\ incoming \in [Sockets -> {"none", "part", "message"}]
  /\ unsent \in [Sockets -> 0..MaxUnsent]
  /\ displaced \subseteq readSockets /\ unpolled \subseteq readSockets

\* The arrays, the table and the open descriptors agree, however connections
\* come, fail and are closed by one another's handlers: no descriptor is
\* leaked, no entry but that of a listen socket CloseListenSocket left there
\* points at a deleted socket, none is there twice, Run always finds the entry
\* of the listen socket, and poll watches exactly the sockets of the write
\* array for writing; but for a socket that AddReadOperation handed over to a
\* full table, which poll does not watch for reading.
SocketsMatch ==
  /\ readSockets = {s \in Sockets : conn[s] = "open"}
  /\ SocketsIn(table) \subseteq readSockets \cup {Listen}
  /\ readSockets \ unpolled =
       {table[i].socket : i \in {j \in 1..Len(table) : table[j].in}} \ {Listen}
  /\ listenFd = "owned" => Listen \in SocketsIn(table)
  /\ Len(table) <= maxFDSize
  /\ writeSockets \ unpolled =
       {table[i].socket : i \in {j \in 1..Len(table) : table[j].out}} \ unpolled
  /\ \A i, j \in 1..Len(table) : table[i].socket = table[j].socket => i = j

\* Between two steps of the thread every table is well-formed and they agree.
SocketsConsistent == TypeOK /\ SocketsMatch

\* The listen descriptor always has somebody who closes it: a failing
\* InitInstance on the way, or m_pListenSocket, which ExitInstance looks at; so
\* a thread that has stopped can be started again on the same port.
ListenReleased ==
  /\ listenFd = "open" => at \in {"bind", "name"}
  /\ at = "stopped" => listenFd = "none"

\* Data that was not sent is watched for: a partial write is never forgotten,
\* but for a socket that its own handler moved in the table.
UnsentIsWatched ==
  \A s \in readSockets \ displaced : unsent[s] > 0 => s \in writeSockets

\* m_iEventsCount never reaches 0 before every event that poll reported is
\* served, so that no pass is cut short or left out.
EventsCounted ==
  at \in {"listen", "read", "write"} /\ ~bExit => eventsCount >= Cardinality(Reported(table))

\* A whole message is read, or its connection closed, as long as the thread
\* runs and polls the socket, whatever the other connections do.
MessagesHandled ==
  \A s \in Sockets :
    incoming[s] = "message" /\ s \notin unpolled /\ Running
      ~> incoming[s] # "message" \/ bExit

\* What is unsent is sent or the connection closed, once the application adds
\* no more and the peer does not keep sending: the read pass clears the write
\* event that poll reported.
DataSent ==
  \A s \in Sockets :
    <>[](incoming[s] = "none" /\ s \notin displaced \cup unpolled) /\ <>[][unsent'[s] <= unsent[s]]_vars
      => (unsent[s] > 0 ~> unsent[s] = 0 \/ bExit)
=============================================================================
