--------------------------- MODULE HeartBeatSession ---------------------------
(***************************************************************************)
(* The Boost.Asio responder (src/asio_base/HeartBeatSession.cpp).  One     *)
(* thread runs the io_service; a session has at most one asynchronous      *)
(* receive outstanding, whose handler answers the request and starts the   *)
(* next one.  The application sets the process state from any thread and   *)
(* calls clear() from the io_service's thread, between two handlers.       *)
(* The steps of Boost.Asio and of the kernel are modelled from how the     *)
(* session uses them.                                                      *)
(***************************************************************************)
EXTENDS Naturals, Sequences

CONSTANTS
  Monitors, Seqs, ProcessStates, None,   \* see HeartbeatService
  MaxQueue,     \* datagrams the kernel keeps in a receive buffer
  Datagrams     \* the datagrams that arrive: [from, kind, seq]

\* "request" and "other" carry a message type and a sequence number, "empty"
\* has fewer bytes than that and all of them zero.
Kinds == {"request", "other", "empty"}

ASSUME SessionConstants ==
  /\ "ALIVE" \in ProcessStates
  /\ 0 \in Seqs
  /\ MaxQueue \in Nat
  /\ None \notin [from : Monitors, seq : Seqs] \cup ProcessStates
  /\ Datagrams \subseteq [from : Monitors, kind : Kinds, seq : Seqs]

VARIABLES
  socket,          \* socket_: "closed" (not open yet), "open", "bound", "null" (reset)
  queue,           \* kernel: the receive buffer of the bound socket
  pending,         \* the receive: "none", "waiting", "success", "error"
  received,        \* the datagram in the request buffer
  senderEndpoint,  \* sender_endpoint_
  processState,    \* processState_
  at,              \* the handler's place: "idle", "write", "send", "rearm"
  reply,           \* do_write_response: the state put into the response
  crashed,         \* socket_ was dereferenced after socket_.reset()
  lastResponse,    \* the response sent last
  held             \* history: the process states since the request was taken

netVars     == <<socket, queue, pending, received, senderEndpoint>>
handlerVars == <<at, reply, crashed, lastResponse, held>>
vars == <<netVars, handlerVars, processState>>

Answering == at \in {"write", "send"}

Init ==
  /\ socket = "closed"
  /\ queue = <<>>
  /\ pending = "none"
  /\ received = None
  /\ senderEndpoint = None
  /\ processState = "ALIVE"
  /\ at = "idle"
  /\ reply = None
  /\ crashed = FALSE
  /\ lastResponse = None
  /\ held = {}
-----------------------------------------------------------------------------
\* do_read_request dereferences socket_ and starts a receive.
DoReadRequest ==
  IF socket = "null" THEN crashed' = TRUE  /\ UNCHANGED pending
                     ELSE pending' = "waiting" /\ UNCHANGED crashed

\* start(): open, reuse_address and bind, then the first receive.  bind throws
\* when another process has the port and leaves the socket open, so that a
\* second start() throws at open; the session then never receives.
StartFails ==
  /\ ~crashed /\ socket = "closed" /\ at = "idle"
  /\ socket' = "open"
  /\ UNCHANGED <<queue, pending, received, senderEndpoint, handlerVars,
                 processState>>

Start ==
  /\ ~crashed /\ socket = "closed" /\ at = "idle"
  /\ socket' = "bound"
  /\ DoReadRequest
  /\ UNCHANGED <<queue, received, senderEndpoint, processState, at, reply,
                 lastResponse, held>>

\* Faulty: socket_.reset() alone; the descriptor, shared with the pending
\* operation, is not closed.
Mutant_NoClose ==
  /\ ~crashed /\ socket # "null" /\ at = "idle"
  /\ socket' = "null"
  /\ queue' = <<>>
  /\ UNCHANGED <<pending, received, senderEndpoint, processState, handlerVars>>

\* clear(): close() aborts a receive that is waiting; one that has completed
\* keeps its result, its handler is already queued.
Clear ==
  /\ ~crashed /\ socket # "null" /\ at = "idle"
  /\ socket' = "null"
  /\ queue' = <<>>
  /\ pending' = IF pending = "waiting" THEN "error" ELSE pending
  /\ UNCHANGED <<received, senderEndpoint, processState, handlerVars>>

SetProcessState(s) ==
  /\ processState' = s
  /\ held' = IF Answering THEN held \cup {s} ELSE held
  /\ UNCHANGED <<netVars, at, reply, crashed, lastResponse>>
-----------------------------------------------------------------------------
(* Boost.Asio and the kernel.                                              *)

Arrive(d) ==
  /\ socket = "bound" /\ Len(queue) < MaxQueue
  /\ queue' = Append(queue, d)
  /\ UNCHANGED <<socket, pending, received, senderEndpoint, handlerVars,
                 processState>>

\* The receive completes: buffer and sender_endpoint_ are written now, the
\* handler runs later.
CompleteReceive ==
  /\ pending = "waiting" /\ queue # <<>>
  /\ pending' = "success"
  /\ queue' = Tail(queue)
  /\ received' = Head(queue)
  /\ senderEndpoint' = Head(queue).from
  /\ UNCHANGED <<socket, handlerVars, processState>>

ReceiveError ==
  /\ pending = "waiting"
  /\ pending' = "error"
  /\ UNCHANGED <<socket, queue, received, senderEndpoint, handlerVars,
                 processState>>
-----------------------------------------------------------------------------
(* handle_read_request.                                                    *)

\* What is read from the stream: a field whose bytes are missing is 0, and
\* CIHB_HEARTBEAT_REQUEST is 0.
IsRequest(d) == d.kind \in {"request", "empty"}
SeqOf(d) == IF d.kind = "empty" THEN 0 ELSE d.seq

HandleError ==
  /\ ~crashed /\ at = "idle" /\ pending = "error"
  /\ pending' = "none"
  /\ UNCHANGED <<socket, queue, received, senderEndpoint, handlerVars,
                 processState>>

\* Faulty: do_read_request is called before the request is answered.
Mutant_RearmFirst ==
  /\ ~crashed /\ at = "idle" /\ pending = "success"
  /\ DoReadRequest
  /\ IF IsRequest(received)
     THEN at' = "write" /\ held' = {processState}
     ELSE at' = "rearm" /\ UNCHANGED held
  /\ UNCHANGED <<socket, queue, received, senderEndpoint, processState, reply,
                 lastResponse>>

HandleRequest ==
  /\ ~crashed /\ at = "idle" /\ pending = "success"
  /\ pending' = "none"
  /\ IF IsRequest(received)
     THEN at' = "write" /\ held' = {processState}
     ELSE at' = "rearm" /\ UNCHANGED held
  /\ UNCHANGED <<socket, queue, received, senderEndpoint, processState, reply,
                 crashed, lastResponse>>

\* do_write_response builds the message ...
BuildResponse ==
  /\ ~crashed /\ at = "write"
  /\ reply' = processState
  /\ at' = "send"
  /\ UNCHANGED <<netVars, processState, crashed, lastResponse, held>>

\* ... and sends it through socket_ to sender_endpoint_.
SendResponse ==
  /\ ~crashed /\ at = "send" /\ socket # "null"
  /\ lastResponse' = [to |-> senderEndpoint, seq |-> SeqOf(received), state |-> reply]
  /\ reply' = None
  /\ held' = {}
  /\ at' = "rearm"
  /\ UNCHANGED <<netVars, processState, crashed>>

SendFails ==
  /\ ~crashed /\ at = "send" /\ socket # "null"
  /\ reply' = None
  /\ held' = {}
  /\ at' = "rearm"
  /\ UNCHANGED <<netVars, processState, crashed, lastResponse>>

SendOnNull ==
  /\ ~crashed /\ at = "send" /\ socket = "null"
  /\ crashed' = TRUE
  /\ UNCHANGED <<netVars, processState, at, reply, lastResponse, held>>

\* Faulty: the next receive is only started after a valid request.
Mutant_RearmAfterRequest ==
  /\ ~crashed /\ at = "rearm"
  /\ IF IsRequest(received) THEN DoReadRequest ELSE UNCHANGED <<pending, crashed>>
  /\ at' = "idle"
  /\ UNCHANGED <<socket, queue, received, senderEndpoint, processState, reply,
                 lastResponse, held>>

Rearm ==
  /\ ~crashed /\ at = "rearm"
  /\ DoReadRequest
  /\ at' = "idle"
  /\ UNCHANGED <<socket, queue, received, senderEndpoint, processState, reply,
                 lastResponse, held>>
-----------------------------------------------------------------------------
Handler == HandleError \/ HandleRequest \/ BuildResponse \/ SendResponse
           \/ SendFails \/ SendOnNull \/ Rearm

Next == \/ Start \/ StartFails \/ Clear \/ CompleteReceive \/ ReceiveError \/ Handler
        \/ \E s \in ProcessStates : SetProcessState(s)
        \/ \E d \in Datagrams : Arrive(d)

Spec == Init /\ [][Next]_vars

\* The io_service runs the handlers that are ready and notices a readable
\* socket; sendto is not required to succeed.
FairSpec == Spec /\ WF_vars(Handler) /\ WF_vars(CompleteReceive)
-----------------------------------------------------------------------------
TypeOK ==
  /\ socket \in {"closed", "open", "bound", "null"}
  /\ queue \in Seq(Datagrams) /\ Len(queue) <= MaxQueue
  /\ pending \in {"none", "waiting", "success", "error"}
  /\ received \in Datagrams \cup {None}
  /\ senderEndpoint \in Monitors \cup {None}
  /\ processState \in ProcessStates
  /\ at \in {"idle", "write", "send", "rearm"}
  /\ reply \in ProcessStates \cup {None} /\ (reply # None <=> at = "send")
  /\ crashed \in BOOLEAN
  /\ held \in SUBSET ProcessStates

\* One receive at a time: while a handler works on a request no other receive
\* can overwrite sender_endpoint_ and the request buffer.
OneReceive == at # "idle" => pending = "none"

\* The session's state is well-formed, with one receive at a time.
SessionConsistent == TypeOK /\ OneReceive

\* The session keeps the promises of HeartbeatService.
Service == INSTANCE HeartbeatService WITH
             current <- IF Answering /\ ~crashed
                        THEN [from |-> senderEndpoint, seq |-> SeqOf(received)]
                        ELSE None,
             held <- IF Answering /\ ~crashed THEN held ELSE {}
ServiceSpec == Service!Spec

\* A session whose receives do not fail and that is not cleared reads every
\* datagram.
ServedWithoutErrors ==
  [](pending # "error" /\ socket # "null") => (queue # <<>> ~> queue = <<>>)

\* The library answers heartbeat requests as long as the session is not
\* cleared, whatever happened before.
AlwaysServed == [](socket # "null") => (queue # <<>> ~> queue = <<>>)

\* clear() of a session that did not crash ends its receive chain.
ClearStops == socket = "null" ~> (crashed \/ [](pending = "none" /\ at = "idle"))
=============================================================================
