\* Connections end with a FIN and every read returns a whole packet.
SPECIFICATION FairSpec
CONSTANTS
  PKT_DIM = 2
  Total = 4
  WriteCounts = {1, 2, 3}
  ReadCounts = {1, 3}
  MaxLinks = 4
  MAX_TENTATIVI = 2
  MaxShort = 0
  Resets = {}
  Shared = FALSE
  SigPipe = {"ignored", "default"}
INVARIANTS TypeOK IInv AckedDelivered AtMostOneInFlight
PROPERTIES NoGap DuplicatesOnlyLast AtLeastOnceSpec AllReturned
