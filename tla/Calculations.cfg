CONSTANTS
  kSectorSize = 4
  kSectorCount = 4
  kImageSectorStart = 2
  kPageSize = 2
  kWordSize = 2
  kRamStart = 20
  kRamOffset = 4
  kModulus = 32
  Fros = {0, 3}
  WdtFreqs = {1, 15}
  WdtDivs = {0, 31}
  Multipliers = {0, 31}
  Dividers = {1, 255}
  MaxWrites = 4
  Byte = {0, 1}
  Pad = 1
  kCrcSize = 2
  kApplicationSize = 4
  kDeviceSize = 6
  MaxLength = 7
  Crc <- MCCrc
  kUintValues = 65536
  kUintSize = 2
  kHexDigits = 4
  Codes = {0, 9, 10, 39, 99}
  Numbers = {0, 9, 10, 999, 1000, 9999, 10000, 65535}
  FrameByte = {0, 1, 6, 7}
  kSumValues = 8
  MaxFrame = 5
SPECIFICATION CalcSpec
INVARIANTS FlashRangeExact RamRangeExact WindowsDisjoint
INVARIANTS ClockTypeOK ClockKnown ImageMade LinesFit SumsToZero
CHECK_DEADLOCK FALSE
