-------------------------- MODULE HeartbeatService --------------------------
(***************************************************************************)
(* What a heartbeat responder promises to the monitors that send it        *)
(* requests, whatever library it is built on: every response answers one   *)
(* request that was received, goes back to the sender of that request with *)
(* its sequence number, and reports a process state that the application   *)
(* had at some moment since the request was received.  A request may go    *)
(* unanswered (the transport is UDP), but it is never kept for ever.       *)
(***************************************************************************)
CONSTANTS
  Monitors,        \* the machines that send requests (ServiceMonitor)
  Seqs,            \* sequence numbers
  ProcessStates,   \* the states an application may report
  None             \* no request, no response: not one of Requests, Responses

Requests  == [from : Monitors, seq : Seqs]
Responses == [to : Monitors, seq : Seqs, state : ProcessStates]

VARIABLES
  processState,    \* the state the application last set
  current,         \* the request being answered
  held,            \* the states the application had since it was received
  lastResponse     \* the response sent last

serviceVars == <<processState, current, held, lastResponse>>

Init == /\ processState \in ProcessStates
        /\ current = None
        /\ held = {}
        /\ lastResponse = None

Receive(r) ==
  /\ current = None
  /\ current' = r
  /\ held' = {processState}
  /\ UNCHANGED <<processState, lastResponse>>

SetState(s) ==
  /\ processState' = s
  /\ held' = IF current = None THEN {} ELSE held \cup {s}
  /\ UNCHANGED <<current, lastResponse>>

Answer ==
  /\ current # None
  /\ \E s \in held :
       lastResponse' = [to |-> current.from, seq |-> current.seq, state |-> s]
  /\ current' = None
  /\ held' = {}
  /\ UNCHANGED processState

Drop ==
  /\ current # None
  /\ current' = None
  /\ held' = {}
  /\ UNCHANGED <<processState, lastResponse>>

Next == \/ \E r \in Requests : Receive(r)
        \/ \E s \in ProcessStates : SetState(s)
        \/ Answer
        \/ Drop

Spec == Init /\ [][Next]_serviceVars /\ WF_serviceVars(Answer \/ Drop)
=============================================================================
