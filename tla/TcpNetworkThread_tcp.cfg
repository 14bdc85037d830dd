\* Two connections and the listen socket fill a table of 3; with a table of 2 the
\* second connection is refused by the table, after the arrays took it.  Two
\* portions of unsent data show a partial write.
CONSTANTS
  Sockets = {a, b}
  Listen = listen
  MaxFDSizes = {2, 3}
  MaxUnsent = 2
SPECIFICATION FairSpec
INVARIANTS SocketsConsistent ListenReleased UnsentIsWatched EventsCounted
PROPERTIES MessagesHandled DataSent
