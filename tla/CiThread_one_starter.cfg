\* One thread starts the object (as every example does), two others stop it
\* and wait for it; two pthreads, so that a restart may reuse one or not.
CONSTANTS
  Starters = {s1}
  Closers = {c1, c2}
  Workers = {w1, w2}
  NoThread = NoThread
SPECIFICATION FairSpec
INVARIANTS TypeOK OneExecutor SemaphoreConserved ResetOnlyWhenStopped HandleNamesWorker
PROPERTIES WaitUntilExitReturns
