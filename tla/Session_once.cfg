\* A packet whose ack is lost, when it is the last of its Write.
SPECIFICATION Spec
CONSTANTS
  PKT_DIM = 2
  Total = 4
  WriteCounts = {1, 3}
  ReadCounts = {1, 3}
  MaxLinks = 3
  MAX_TENTATIVI = 2
  MaxShort = 0
  Resets = {}
  Shared = FALSE
  SigPipe = {"default"}
INVARIANT ExactlyOnce
