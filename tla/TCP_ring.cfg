CONSTANTS
  CWND_ONE = 2
  INIT_SSTHRESH = 2
  UINT16 = 3
  MaxDupack = 4
  Clients = {c1}
  Server = server
  NoPeer = noPeer
  MAX_DATA_SIZE = 1
  RINGBUFFER_SIZE = 5
  MAX_RESEND = 1
  Byte <- MCByte
  NoByte = noByte
  Children = {k1, k2}
  NoChild = noChild
  FileLen = 6
  Garbage <- MCGarbage
  GarbageTiming <- MCUnset
  Reordering = FALSE
  Prompt = FALSE
  MaxLoss = 1
  MaxDuplicate = 0
  MaxTimeouts = 2
  MaxInFlight = 2
SPECIFICATION Spec
INVARIANTS WithinOneLap DeliveredInOrder AckedIsReceived CloseIsMutual
PROPERTIES TimerMatchesSendBuffer
CHECK_DEADLOCK FALSE
