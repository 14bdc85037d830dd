------------------------ MODULE HeartBeatSession_proofs ------------------------
(***************************************************************************)
(* Proofs about HeartBeatSession, for every set of monitors, sequence      *)
(* numbers, process states and datagrams: the session has one receive at a *)
(* time, and therefore keeps the promises of HeartbeatService.             *)
(***************************************************************************)
EXTENDS HeartBeatSession, TLAPS

\* A request that was read is still in the buffer, with its sender in
\* sender_endpoint_, when its handler runs and until it is answered.
SenderKept ==
  pending = "success" \/ Answering =>
    received \in Datagrams /\ senderEndpoint = received.from

\* What is put into the response is a state the application has had since.
ReplyHeld ==
  /\ at = "write" => IsRequest(received) /\ processState \in held
  /\ at = "send"  => IsRequest(received) /\ reply \in held
  /\ ~Answering => held = {}

SessionInv == /\ TypeOK
              /\ OneReceive
              /\ SenderKept
              /\ ReplyHeld

\* The session as constructed satisfies SessionInv.
LEMMA InitSessionInv == Init => SessionInv
<1> SUFFICES ASSUME Init PROVE SessionInv
  OBVIOUS
<1>1. queue \in Seq(Datagrams) /\ Len(queue) <= MaxQueue
  BY SessionConstants DEF Init
<1>2. TypeOK
  BY <1>1, SessionConstants DEF Init, TypeOK
<1>3. OneReceive /\ SenderKept /\ ReplyHeld
  BY DEF Init, OneReceive, SenderKept, ReplyHeld, Answering
<1>. QED
  BY <1>2, <1>3 DEF SessionInv

\* No call of the session, no handler and no step of the kernel breaks SessionInv.
LEMMA StepSessionInv == SessionInv /\ [Next]_vars => SessionInv'
<1> SUFFICES ASSUME SessionInv, [Next]_vars PROVE SessionInv'
  OBVIOUS
<1> USE DEF SessionInv, Answering, netVars, handlerVars
<1>0. /\ \A d \in Datagrams : d.from \in Monitors
      /\ None \notin ProcessStates /\ MaxQueue \in Nat
  BY SessionConstants
<1>1. CASE StartFails
  BY <1>1 DEF StartFails, TypeOK, OneReceive, SenderKept, ReplyHeld
<1>2. CASE Start
  BY <1>2 DEF Start, DoReadRequest, TypeOK, OneReceive, SenderKept, ReplyHeld
<1>3. CASE Clear
  <2>1. queue' \in Seq(Datagrams) /\ Len(queue') <= MaxQueue
    BY <1>0, <1>3 DEF Clear
  <2>. QED
    BY <1>3, <2>1 DEF Clear, TypeOK, OneReceive, SenderKept, ReplyHeld
<1>4. ASSUME NEW s \in ProcessStates, SetProcessState(s) PROVE SessionInv'
  BY <1>4 DEF SetProcessState, TypeOK, OneReceive, SenderKept, ReplyHeld
<1>5. ASSUME NEW d \in Datagrams, Arrive(d) PROVE SessionInv'
  <2>1. queue' \in Seq(Datagrams) /\ Len(queue') <= MaxQueue
    BY <1>0, <1>5 DEF Arrive, TypeOK
  <2>. QED
    BY <1>5, <2>1 DEF Arrive, TypeOK, OneReceive, SenderKept, ReplyHeld
<1>6. CASE CompleteReceive
  <2>1. /\ queue' \in Seq(Datagrams) /\ Len(queue') <= MaxQueue
        /\ Head(queue) \in Datagrams
    BY <1>0, <1>6 DEF CompleteReceive, TypeOK
  <2>2. received' \in Datagrams /\ senderEndpoint' = received'.from /\ at = "idle"
    BY <1>6, <2>1 DEF CompleteReceive, OneReceive, TypeOK
  <2>. QED
    BY <1>0, <1>6, <2>1, <2>2 DEF CompleteReceive, TypeOK, OneReceive, SenderKept, ReplyHeld
<1>7. CASE ReceiveError
  BY <1>7 DEF ReceiveError, TypeOK, OneReceive, SenderKept, ReplyHeld
<1>8. CASE HandleError
  BY <1>8 DEF HandleError, TypeOK, OneReceive, SenderKept, ReplyHeld
<1>9. CASE HandleRequest
  BY <1>0, <1>9 DEF HandleRequest, IsRequest, TypeOK, OneReceive, SenderKept, ReplyHeld
<1>10. CASE BuildResponse
  BY <1>0, <1>10 DEF BuildResponse, TypeOK, OneReceive, SenderKept, ReplyHeld
<1>11. CASE SendResponse
  BY <1>11 DEF SendResponse, TypeOK, OneReceive, SenderKept, ReplyHeld
<1>12. CASE SendFails
  BY <1>12 DEF SendFails, TypeOK, OneReceive, SenderKept, ReplyHeld
<1>13. CASE SendOnNull
  BY <1>13 DEF SendOnNull, TypeOK, OneReceive, SenderKept, ReplyHeld
<1>14. CASE Rearm
  BY <1>14 DEF Rearm, DoReadRequest, TypeOK, OneReceive, SenderKept, ReplyHeld
<1>15. CASE UNCHANGED vars
  BY <1>15 DEF vars, TypeOK, OneReceive, SenderKept, ReplyHeld, IsRequest
<1>. QED
  BY <1>1, <1>2, <1>3, <1>4, <1>5, <1>6, <1>7, <1>8, <1>9, <1>10, <1>11, <1>12,
     <1>13, <1>14, <1>15 DEF Next, Handler

\* Whatever the kernel reports and whenever the application calls clear().
THEOREM SessionInvariant == Spec => []SessionInv
<1>1. Init => SessionInv
  BY InitSessionInv
<1>2. SessionInv /\ [Next]_vars => SessionInv'
  BY StepSessionInv
<1>. QED
  BY <1>1, <1>2, PTL DEF Spec

\* Types, and one receive at a time: no receive overwrites the request buffer
\* and sender_endpoint_ while a handler works on them.
THEOREM SessionAlwaysConsistent == Spec => []SessionConsistent
<1>1. SessionInv => SessionConsistent
  BY DEF SessionInv, SessionConsistent
<1>. QED
  BY <1>1, SessionInvariant, PTL
-----------------------------------------------------------------------------
(* The session implements HeartbeatService, but for its liveness.          *)

\* The session as constructed is a service without a request.
LEMMA InitRefines == Init => Service!Init
BY SessionConstants DEF Init, Service!Init, Answering

\* A request being answered is one of the service's, and so not None.
LEMMA CurrentIsRequest ==
  ASSUME SessionInv, Answering
  PROVE  /\ [from |-> senderEndpoint, seq |-> SeqOf(received)] \in Service!Requests
         /\ [from |-> senderEndpoint, seq |-> SeqOf(received)] # None
BY SessionConstants DEF SessionInv, SenderKept, Service!Requests, SeqOf

\* Every step of the session is a step of the service or changes nothing it
\* speaks of; a crash drops the request.
LEMMA StepRefines ==
  SessionInv /\ [Next]_vars => [Service!Next]_(Service!serviceVars)
<1> SUFFICES ASSUME SessionInv, [Next]_vars
             PROVE  Service!Next \/ UNCHANGED Service!serviceVars
  OBVIOUS
<1> USE DEF Answering, netVars, handlerVars
<1>1. CASE HandleRequest
  <2>1. SessionInv'
    BY StepSessionInv
  <2>2. CASE IsRequest(received)
    <3>1. Answering' /\ ~Answering /\ ~crashed /\ ~crashed'
      BY <1>1, <2>2 DEF HandleRequest
    <3>2. [from |-> senderEndpoint, seq |-> SeqOf(received)] \in Service!Requests
      <4>1. received \in Datagrams /\ senderEndpoint = received.from
        BY <1>1 DEF HandleRequest, SessionInv, SenderKept
      <4>. QED
        BY <4>1, SessionConstants DEF Service!Requests, SeqOf
    <3>3. Service!Receive([from |-> senderEndpoint, seq |-> SeqOf(received)])
      BY <1>1, <2>2, <3>1 DEF HandleRequest, Service!Receive, SeqOf
    <3>. QED
      BY <3>2, <3>3 DEF Service!Next
  <2>3. CASE ~IsRequest(received)
    BY <1>1, <2>3 DEF HandleRequest, Service!serviceVars
  <2>. QED
    BY <2>2, <2>3
<1>2. ASSUME NEW s \in ProcessStates, SetProcessState(s)
      PROVE  Service!Next
  <2>1. CASE Answering /\ ~crashed
    BY <1>2, <2>1, CurrentIsRequest DEF SetProcessState, Service!Next, Service!SetState, SeqOf
  <2>2. CASE ~(Answering /\ ~crashed)
    BY <1>2, <2>2 DEF SetProcessState, Service!Next, Service!SetState
  <2>. QED
    BY <2>1, <2>2
<1>3. CASE SendResponse
  <2>1. Answering /\ ~Answering' /\ ~crashed /\ reply \in held
    BY <1>3 DEF SendResponse, SessionInv, ReplyHeld
  <2>2. [from |-> senderEndpoint, seq |-> SeqOf(received)] # None
    BY <2>1, CurrentIsRequest
  <2>3. Service!Answer
    BY <1>3, <2>1, <2>2 DEF SendResponse, Service!Answer
  <2>. QED
    BY <2>3 DEF Service!Next
<1>4. CASE SendFails \/ SendOnNull
  <2>1. Answering /\ ~crashed /\ ~(Answering' /\ ~crashed')
    BY <1>4 DEF SendFails, SendOnNull
  <2>2. [from |-> senderEndpoint, seq |-> SeqOf(received)] # None
    BY <2>1, CurrentIsRequest
  <2>3. Service!Drop
    BY <1>4, <2>1, <2>2 DEF SendFails, SendOnNull, Service!Drop
  <2>. QED
    BY <2>3 DEF Service!Next
<1>5. CASE BuildResponse
  BY <1>5 DEF BuildResponse, Service!serviceVars, SeqOf
\* No request is being answered, before and after.
<1>6. CASE StartFails \/ Start \/ Clear \/ HandleError \/ Rearm \/ CompleteReceive
  BY <1>6 DEF StartFails, Start, Clear, HandleError, Rearm, CompleteReceive, DoReadRequest,
     SessionInv, OneReceive, Service!serviceVars
<1>7. CASE ReceiveError \/ (\E d \in Datagrams : Arrive(d))
  BY <1>7 DEF ReceiveError, Arrive, Service!serviceVars, SeqOf
<1>8. CASE UNCHANGED vars
  BY <1>8 DEF vars, Service!serviceVars, SeqOf
<1>. QED
  BY <1>1, <1>2, <1>3, <1>4, <1>5, <1>6, <1>7, <1>8 DEF Next, Handler

\* Every response answers one request that was received, with its sequence
\* number, to its sender, with a state the application has had since.
THEOREM SessionImplementsService ==
  Spec => Service!Init /\ [][Service!Next]_(Service!serviceVars)
<1>1. Init => Service!Init
  BY InitRefines
<1>2. SessionInv /\ [Next]_vars => [Service!Next]_(Service!serviceVars)
  BY StepRefines
<1>. QED
  BY <1>1, <1>2, SessionInvariant, PTL DEF Spec
=============================================================================
