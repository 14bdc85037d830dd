CONSTANTS
  InitialSize = 3
  MaxWrite = 3
  MaxBytes = 8
SPECIFICATION Spec
INVARIANTS SendsWhatWasWritten
CHECK_DEADLOCK FALSE
