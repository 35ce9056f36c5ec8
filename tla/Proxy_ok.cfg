\* Two connections at once, what the ends do in any order, and a timeout.
SPECIFICATION FairSpec
CONSTANTS
  MaxConns = 2
  MaxUnits = 2
  MaxLeaving = 1
  MaxTimeouts = 1
INVARIANTS TypeOK IInv EofIsTrue
PROPERTIES LinksSpec Forwarded
\* The user ends the proxy.
CHECK_DEADLOCK FALSE
