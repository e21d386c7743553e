----------------------------- MODULE MemoryMap -----------------------------
(***************************************************************************)
(* The memory layout of the LPC84x bootloader and the predicates with      *)
(* which every Isp:: function decides whether it touches memory at all     *)
(* (Bootloader.h, Bootloader.cpp lines 58-86).                             *)
(*                                                                         *)
(* Addresses and lengths come from atol() on the command line and are      *)
(* uint32_t: every sum wraps at kModulus (2^32 on the device).             *)
(***************************************************************************)
EXTENDS Integers

CONSTANTS
  kSectorSize,        \* bytes in a flash sector, and in FlashController::buffer_
  kSectorCount,       \* sectors of the device
  kImageSectorStart,  \* first sector of the application image (= kBootloaderSectors)
  kPageSize,          \* bytes in a flash page
  kWordSize,          \* sizeof(uint32_t)
  kRamStart,          \* address the host uses for the start of RAM
  kRamOffset,         \* offset of the window that stands for buffer_
  kModulus            \* number of values of a uint32_t

ASSUME LayoutAssumption ==
  /\ kSectorSize \in Nat \ {0}
  /\ kSectorCount \in Nat
  /\ kImageSectorStart \in 1 .. kSectorCount - 1
  /\ kPageSize \in 1 .. kSectorSize
  /\ kWordSize \in 1 .. kSectorSize
  /\ kRamStart \in Nat
  /\ kRamOffset \in Nat
  /\ kModulus \in Nat
  /\ kSectorCount * kSectorSize <= kRamStart
  /\ kRamStart + kRamOffset + kSectorSize <= kModulus

\* uint32_t arithmetic.
Uint == 0 .. kModulus - 1
Wrap(x) == x % kModulus

\* Byte addresses.
kImageStart == kImageSectorStart * kSectorSize
kFlashEnd   == kSectorCount * kSectorSize
kIspRamStart == kRamStart + kRamOffset
kIspRamEnd   == kIspRamStart + kSectorSize

FlashCells == 0 .. kFlashEnd - 1
ImageCells == kImageStart .. kFlashEnd - 1
RamCells == kIspRamStart .. kIspRamEnd - 1
BootloaderCells == 0 .. kImageStart - 1
BufferIndex == 0 .. kSectorSize - 1

-----------------------------------------------------------------------------
(* The legality predicates, with the wrap-around of their operands.  A     *)
(* definition named Mutant_... is a faulty form of the one that follows;   *)
(* the model checker is run on it to see a property fail.                  *)

Mutant_LowerSectorUnchecked(sector) == sector < kSectorCount
Mutant_SectorOffByOne(sector) == sector >= kImageSectorStart /\ sector <= kSectorCount
FlashSectorLegal(sector) ==
  sector >= kImageSectorStart /\ sector < kSectorCount

FlashPageLegal(page) ==
  /\ page >= (kImageSectorStart * kSectorSize) \div kPageSize
  /\ page < kSectorSize \div kPageSize

FlashAddressLegal(address) ==
  /\ address >= kImageSectorStart * kSectorSize
  /\ address < kSectorCount * kSectorSize

Mutant_SumCompared(start, length) ==
  FlashAddressLegal(start) /\ Wrap(start + length) <= kSectorCount * kSectorSize
Mutant_LastSectorRefused(start, length) ==
  FlashAddressLegal(start) /\ FlashAddressLegal(Wrap(start + length)) /\ length <= kSectorSize
FlashAddressRangeLegal(start, length) ==
  /\ FlashAddressLegal(start)
  /\ FlashAddressLegal(Wrap(start + length - 1))
  /\ length <= kSectorSize

Mutant_RamWithoutStart(address) == address < kIspRamEnd
RamAddressLegal(address) ==
  /\ address < kIspRamEnd
  /\ address >= kIspRamStart

Mutant_LastByteUnchecked(start, length) ==
  /\ RamAddressLegal(start)
  /\ length <= kSectorSize
  /\ length % kWordSize = 0

Mutant_EndOffByOne(start, length) ==
  /\ RamAddressLegal(start)
  /\ RamAddressLegal(Wrap(start + length))
  /\ length <= kSectorSize
  /\ length % kWordSize = 0

RamRangeLegal(start, length) ==
  /\ RamAddressLegal(start)
  /\ RamAddressLegal(Wrap(start + length - 1))
  /\ length <= kSectorSize
  /\ length % kWordSize = 0

\* GetRamPtr: the index into buffer_ that a RAM address stands for.
GetRamPtr(address) == address - kRamStart - kRamOffset

=============================================================================
