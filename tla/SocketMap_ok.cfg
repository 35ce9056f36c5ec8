\* A client or a server that closes its sockets last and accepts once from a
\* listening socket, and whose threads make no call while one is in ReAccept.
SPECIFICATION FairSpec
CONSTANTS
  NFds = 13
  MaxRecords = 3
  MaxAccepts = 1
  MAX_TENTATIVI = 2
  Serial = TRUE
  Processes <- OneSided
INVARIANTS TypeOK IInv Resolves NoLeak
PROPERTIES ListeningKept NumbersKept RipristinoEnds
\* The program ends when its sockets are closed.
CHECK_DEADLOCK FALSE
