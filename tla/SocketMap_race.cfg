\* Two threads, one of them inside ReAccept.
SPECIFICATION Spec
CONSTANTS
  NFds = 13
  MaxRecords = 3
  MaxAccepts = 1
  MAX_TENTATIVI = 2
  Serial = FALSE
  Processes <- Server
INVARIANT Resolves
\* The program ends when its sockets are closed.
CHECK_DEADLOCK FALSE
