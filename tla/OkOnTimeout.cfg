CONSTANTS
  kSectorSize = 2
  kSectorCount = 2
  kImageSectorStart = 1
  kPageSize = 1
  kWordSize = 1
  kRamStart = 8
  kRamOffset = 2
  kModulus = 32
  Byte = {0, 1}
  ZeroByte = 0
  TextByte = 1
  kTransferSize = 2
  kLoopsMax = 1
  MaxLines = 3
  MaxQueue = 4
  Requests <- MCRequests
  Streams = FALSE
  Impatient = FALSE
  Prompt = FALSE
SPECIFICATION Spec
INVARIANTS OkMeansComplete
