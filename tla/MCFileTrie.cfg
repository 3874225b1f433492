SPECIFICATION LiveSpec
CONSTANTS
  Name <- MCName
  Hash <- MCHash
  Length <- MCLength
  Disk <- MCDisk
  TokenSize = 14
  BufferSize = 50
  MaxEntries = 5
INVARIANTS TypeOK LocksAreShort AnnouncedWithinLimits
PROPERTIES StartsUp
CHECK_DEADLOCK FALSE
