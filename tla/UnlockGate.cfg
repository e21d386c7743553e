CONSTANTS
  kSectorSize = 2
  kSectorCount = 4
  kImageSectorStart = 2
  kPageSize = 1
  kWordSize = 1
  kRamStart = 8
  kRamOffset = 2
  kModulus = 64
  Byte = {0, 255}
  ErasedByte = 255
  ZeroByte = 0
  IapErrors = {9}
  IapGroup = 32
  IapCopySizes = {1, 2}
  MaxArgc = 6
  kUnlockCode = 5
  kBaudRate = 6
  kTransferSize = 2
  Asserts = TRUE
  Numbers <- MCNumbers
  FactoryFlash <- MCFactoryFlash
  GoodImages <- MCGoodImages
  SignatureWord <- MCSignatureWord
SPECIFICATION Spec
INVARIANTS UnlockGatesFlash
