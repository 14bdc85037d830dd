------------------------- MODULE MCHeartBeatSession -------------------------
(* The datagrams that arrive in the TLC instances of HeartBeatSession.     *)
EXTENDS HeartBeatSession

CONSTANTS m1, m2

MCDatagrams ==
  {[from |-> m1, kind |-> "request", seq |-> 1],
   [from |-> m2, kind |-> "request", seq |-> 2],
   [from |-> m2, kind |-> "other",   seq |-> 1],
   [from |-> m1, kind |-> "empty",   seq |-> 0]}
=============================================================================
