CONSTANTS
  Responder = hb
  Others = {}
  MaxQueue = 2
SPECIFICATION FairSpec
PROPERTIES HeartbeatsServed
CHECK_DEADLOCK FALSE
