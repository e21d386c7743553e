------------------------------- MODULE IapRom -------------------------------
(***************************************************************************)
(* The flash array and the in-application-programming calls of the LPC84x  *)
(* boot ROM, as the bootloader uses them.  The ROM is not part of the      *)
(* repository: a call may always fail with an error status and no effect,  *)
(* and it can only succeed on an ordered range of sectors that an earlier  *)
(* call prepared (the error names are those of isp_error_codes.h).         *)
(***************************************************************************)
EXTENDS MemoryMap

CONSTANTS
  Byte,          \* values of a flash or RAM byte
  ErasedByte,    \* what an erased flash byte reads (0xff)
  IapErrors,     \* error codes the ROM may answer, without the status group
  IapGroup,      \* kStatusGroup_IAP * 100
  IapCopySizes   \* byte counts the ROM accepts for a copy

ASSUME RomAssumption ==
  /\ ErasedByte \in Byte
  /\ IapErrors \subseteq 1 .. 31
  /\ IapGroup \in Nat \ {0}
  /\ IapGroup + 31 < kModulus
  /\ IapCopySizes \subseteq Nat \ {0}

VARIABLES
  flash,      \* contents of every flash byte
  prepared    \* sectors prepared for write or erase and not used since

romVars == <<flash, prepared>>

Sectors == 0 .. kSectorCount - 1
SectorOf(cell) == cell \div kSectorSize
SectorCells(start, end) == {c \in FlashCells : SectorOf(c) \in start .. end}

\* Status words: success is 0, an error carries the IAP status group.
kStatus_Success == 0
IapFailures == {IapGroup + code : code \in IapErrors}
IapStatus == {kStatus_Success} \cup IapFailures

IapRefuses(status) == status \in IapFailures /\ UNCHANGED romVars

IAP_PrepareSectorForWrite(start, end, status) ==
  \/ /\ start <= end
     /\ status = kStatus_Success
     /\ prepared' = prepared \cup (start .. end)
     /\ UNCHANGED flash
  \/ IapRefuses(status)

\* The sectors that hold the bytes address .. address + length - 1.
SectorsSpanned(address, length) ==
  {SectorOf(address + i) : i \in 0 .. length - 1}

\* When the ROM starts to work on the array: what a power cut may then tear.
EraseAccepted(start, end) == start <= end /\ start .. end \subseteq prepared
CopyAccepted(address, length) ==
  /\ length \in IapCopySizes
  /\ address % kPageSize = 0
  /\ SectorsSpanned(address, length) \subseteq prepared

IAP_EraseSector(start, end, status) ==
  \/ /\ EraseAccepted(start, end)
     /\ status = kStatus_Success
     /\ flash' = [c \in FlashCells |->
                    IF c \in SectorCells(start, end) THEN ErasedByte ELSE flash[c]]
     /\ prepared' = prepared \ (start .. end)
  \/ IapRefuses(status)

\* The bytes of a copy, given the source as a function of the offset.
\* Programming a byte that is not erased leaves an unspecified value.
IAP_CopyRamToFlash(address, source, length, status) ==
  \/ /\ CopyAccepted(address, length)
     /\ status = kStatus_Success
     /\ \E muddle \in [0 .. length - 1 -> Byte] :
          flash' = [c \in FlashCells |->
                      IF c \notin address .. address + length - 1 THEN flash[c]
                      ELSE IF flash[c] = ErasedByte THEN source[c - address]
                      ELSE muddle[c - address]]
     /\ prepared' = prepared \ SectorsSpanned(address, length)
  \/ IapRefuses(status)

IAP_BlankCheckSector(start, end, status) ==
  /\ status = kStatus_Success =>
       start <= end /\ \A c \in SectorCells(start, end) : flash[c] = ErasedByte
  /\ status \in IapStatus
  /\ UNCHANGED romVars

IAP_Compare(address, source, length, status) ==
  /\ status = kStatus_Success =>
       \A i \in 0 .. length - 1 : flash[address + i] = source[i]
  /\ status \in IapStatus
  /\ UNCHANGED romVars

\* Part id, boot code version and flash signature are only read.
IapReads(status) == status \in IapStatus /\ UNCHANGED romVars

=============================================================================
