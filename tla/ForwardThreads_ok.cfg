\* One connection after the other.
SPECIFICATION FairSpec
CONSTANTS
  MaxConns = 2
  MaxUnits = 2
  MaxLeaving = 2
  Serial = TRUE
INVARIANTS TypeOK IInv Private
PROPERTIES Forwarded Released
\* The user ends the proxy.
CHECK_DEADLOCK FALSE
