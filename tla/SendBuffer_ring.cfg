\* A ring of 3 bytes, messages of up to 3: growth happens on an empty, a
\* straight and a wrapped ring, moving too few, enough and too many bytes.
CONSTANTS
  InitialSize = 3
  MaxWrite = 3
  MaxBytes = 8
SPECIFICATION FairSpec
INVARIANTS TypeOK NothingLost InOrder
PROPERTIES Drains
\* The application has written its MaxBytes bytes, or the socket failed.
CHECK_DEADLOCK FALSE
