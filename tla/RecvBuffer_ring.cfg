\* A ring of 3 bytes, calls for up to 3; ReadFromNetworkToBuffer(n) may ask
\* for more than the ring holds, straight or wrapped.
CONSTANTS
  InitialSize = 3
  MaxRead = 3
  MaxBytes = 7
SPECIFICATION Spec
INVARIANTS TypeOK NothingLost InOrder LookAheadMatches
