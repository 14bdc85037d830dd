CONSTANTS
  Responder = hb
  Others = {c2, c3}
  MaxQueue = 1
SPECIFICATION FairSpec
INVARIANTS ComplexConsistent
PROPERTIES EndReleasesPort ExitEndsChildren EndedChildFinishes
\* The sample ends when main returns.
CHECK_DEADLOCK FALSE
