--------------------------- MODULE MCHBResponser ---------------------------
(* The datagrams that arrive in the TLC instances of HBResponser: two      *)
(* monitors with requests of their own, one of them also sends garbage.    *)
EXTENDS HBResponser, TLC

CONSTANTS m1, m2

MCDatagrams ==
  {[from |-> m1, kind |-> "request", seq |-> 1],
   [from |-> m2, kind |-> "request", seq |-> 2],
   [from |-> m2, kind |-> "runt",    seq |-> 1]}
=============================================================================
