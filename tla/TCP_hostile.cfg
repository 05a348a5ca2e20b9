CONSTANTS
  CWND_ONE = 2
  INIT_SSTHRESH = 2
  UINT16 = 16
  MaxDupack = 4
  Clients = {c1}
  Server = server
  NoPeer = noPeer
  MAX_DATA_SIZE = 2
  RINGBUFFER_SIZE = 20
  MAX_RESEND = 1
  Byte <- MCByte
  NoByte = noByte
  Children = {k1, k2}
  NoChild = noChild
  FileLen = 3
  Garbage <- MCGarbage
  GarbageTiming <- MCZeroed
  Reordering = TRUE
  Prompt = FALSE
  MaxLoss = 0
  MaxDuplicate = 1
  MaxTimeouts = 0
  MaxInFlight = 0
SPECIFICATION Spec
INVARIANTS OneSocketPerKey WriterUndisturbed
CHECK_DEADLOCK FALSE
PROPERTIES ImplementsOrderedStream
