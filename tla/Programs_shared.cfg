\* Two connections, one of which falls.
SPECIFICATION Spec
CONSTANTS
  Tests <- TwoConns
  MAX_TENTATIVI = 2
  LastAckLost = FALSE
  Together = FALSE
INVARIANT AckedReturned
\* The programs end.
CHECK_DEADLOCK FALSE
