\* One proxy, killed and started again: the connections fall together, but for
\* the ack of the last packet of a Write.
SPECIFICATION FairSpec
CONSTANTS
  Tests <- MCTests
  MAX_TENTATIVI = 2
  LastAckLost = FALSE
  Together = TRUE
INVARIANTS TypeOK IInv AckedReturned Agree
PROPERTIES Intact BothEnd
\* The programs end.
CHECK_DEADLOCK FALSE
