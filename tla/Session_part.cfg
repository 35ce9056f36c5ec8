\* Reads that take part of a packet, and connections that end with a RST.
SPECIFICATION Spec
CONSTANTS
  PKT_DIM = 2
  Total = 4
  WriteCounts = {2}
  ReadCounts = {1}
  MaxLinks = 2
  MAX_TENTATIVI = 2
  MaxShort = 0
  Resets = {"r"}
  Shared = FALSE
  SigPipe = {"ignored"}
PROPERTY AcksStandForReads
