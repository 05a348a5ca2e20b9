CONSTANTS
  CWND_ONE = 2
  INIT_SSTHRESH = 2
  UINT16 = 8
  MaxDupack = 4
  Clients = {c1}
  Server = server
  NoPeer = noPeer
  MAX_DATA_SIZE = 1
  RINGBUFFER_SIZE = 10
  MAX_RESEND = 3
  Byte <- MCByte
  NoByte = noByte
  Children = {k1, k2}
  NoChild = noChild
  FileLen = 2
  Garbage <- MCGarbage
  GarbageTiming <- MCZeroed
  Reordering = FALSE
  Prompt = TRUE
  MaxLoss = 1
  MaxDuplicate = 0
  MaxTimeouts = 0
  MaxInFlight = 0
SPECIFICATION Spec
INVARIANTS ReadToTheEnd
CHECK_DEADLOCK FALSE
