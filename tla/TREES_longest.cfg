CONSTANTS
  W = 6
  Strides = {1, 2, 3}
  Entries <- MCEntries
  MaxEntries = 3
SPECIFICATION Spec
INVARIANTS BaseFindsLongest MultibitAsBase CompressedAsBase
CHECK_DEADLOCK FALSE
