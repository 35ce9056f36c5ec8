\* Two connections at once.
SPECIFICATION Spec
CONSTANTS
  MaxConns = 2
  MaxUnits = 1
  MaxLeaving = 1
  Serial = FALSE
INVARIANT Private
\* The user ends the proxy.
CHECK_DEADLOCK FALSE
