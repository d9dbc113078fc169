SPECIFICATION Spec
CONSTANTS
  AddrMax = 7
  WordSize = 2
  LineSize = 4
  Byte = {0, 1}
  NotCached = NotCached
  Absent = {4, 5, 6, 7}
  UserMap <- MCUserMap
  Ranges <- MCRanges
  BigEndianHost = TRUE
INVARIANT TypeOK
PROPERTY OnlyFailedWritesMislead
PROPERTY OnlyWritesMisleadUsers
INVARIANT TailKept
