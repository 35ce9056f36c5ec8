\* One connection, falls at any moment.
SPECIFICATION Spec
CONSTANTS
  Tests <- OneConn
  MAX_TENTATIVI = 2
  LastAckLost = TRUE
  Together = TRUE
INVARIANT AckedReturned
\* The programs end.
CHECK_DEADLOCK FALSE
