CONSTANTS
  Monitors = {m1, m2}
  Seqs = {0, 1, 2}
  ProcessStates = {"ALIVE", "SW_ERROR"}
  None = None
  MaxQueue = 1
  m1 = m1
  m2 = m2
  Datagrams <- MCDatagrams
SPECIFICATION FairSpec
INVARIANTS SessionConsistent
PROPERTIES ServiceSpec ServedWithoutErrors ClearStops
