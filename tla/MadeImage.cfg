SPECIFICATION MakerSpec
CONSTANTS
  Byte = {0, 1}
  Pad = 1
  kCrcSize = 2
  kApplicationSize = 4
  kDeviceSize = 6
  MaxLength = 7
  Crc <- MCCrc
INVARIANTS MadeImageIsValid
