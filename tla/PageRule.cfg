CONSTANTS
  kSectorSize = 4
  kSectorCount = 4
  kImageSectorStart = 2
  kPageSize = 2
  kWordSize = 2
  kRamStart = 20
  kRamOffset = 4
  kModulus = 32
SPECIFICATION Spec
INVARIANTS PagesFollowSectors
CHECK_DEADLOCK FALSE
