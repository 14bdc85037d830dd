\* Two monitors, one of which also sends garbage; two descriptors, so that one
\* leak leaves another start possible and two leaks exhaust them.
CONSTANTS
  Starters = {s1}
  Closers = {c1}
  Workers = {w1}
  NoThread = NoThread
  Monitors = {m1, m2}
  Seqs = {1, 2}
  ProcessStates = {"ALIVE", "SW_ERROR"}
  None = None
  Fds = {f1, f2}
  MaxFDSize = 1
  MaxQueue = 1
  m1 = m1
  m2 = m2
  Datagrams <- MCDatagrams
SPECIFICATION FairSpec
INVARIANTS TablesConsistent StoppedReleasesPort AtMostOneLate
PROPERTIES ServiceSpec QueueServed EndThreadReleasesPort
