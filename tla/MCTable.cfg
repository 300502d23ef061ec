CONSTANTS
  Mark <- MCMark
  Keys <- MCKeys
  Booked <- MCBooked
  Value <- MCValue
  Val <- MCVal
  Entries = 7
  WAYS = 2
  START = 2
  GEN = 2
  DICT = 1
  MaxWork = 1
  Shown <- MCShown
  Res = 6
  Hashes <- MCHashes
SPECIFICATION FairSpec
INVARIANTS Sound Findable PinsKept
PROPERTIES MemorySpec KeepEnds
CHECK_DEADLOCK FALSE
