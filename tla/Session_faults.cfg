\* Connections end with a FIN or a RST, a read may return part of a packet, the
\* client has other connections; a Read has room for a whole packet.
SPECIFICATION FairSpec
CONSTANTS
  PKT_DIM = 1
  Total = 4
  WriteCounts = {1, 2, 3}
  ReadCounts = {1}
  MaxLinks = 3
  MAX_TENTATIVI = 2
  MaxShort = 1
  Resets = {"w", "r"}
  Shared = TRUE
  SigPipe = {"ignored", "default"}
INVARIANT FaultInv
PROPERTIES FalseAckOnlyFirst Termination
