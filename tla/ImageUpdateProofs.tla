------------------------- MODULE ImageUpdateProofs -------------------------
(***************************************************************************)
(* An update that is reported as done is in the device, for every layout,  *)
(* every image and any number of faults; and an update without a fault     *)
(* does not even need the CRC for it.                                      *)
(*                                                                         *)
(* The host only ever sees answers, so the invariant has to say what each  *)
(* of them is worth: E's that the sector is erased, C's that it holds what *)
(* was in RAM, CV's that the CRC was right.                                *)
(***************************************************************************)
EXTENDS ImageUpdate, IspAnswersProofs

Cell(s, i) == s * kSectorSize + i
InFlash(s) == [i \in BufferIndex |-> flash[Cell(s, i)]]
Body == [c \in ImageBody |-> flash[c]]

\* What CV has looked at.
Validated == Body \in GoodImages /\ (Asserts => LastWord = SignatureWord)

\* A piece in the place of sector s: only a fault makes it a wrong one.
Fits(piece, s) == piece \in Pieces /\ (faults = 0 => piece = SectorImage(s))

Blank(s) == \A i \in BufferIndex : flash[Cell(s, i)] = ErasedByte
Written(s) == Fits(InFlash(s), s)

HostOK ==
  /\ step \in {"W", "data", "P", "E", "P2", "C", "CV", "done"}
  /\ sector \in ImageSectors
  /\ faults \in Nat

\* The request in progress is the one the host has sent.
InStep ==
  /\ pc \in {"idle", "iap", "close", "store", "done", "halted"}
  /\ pc = "store" => step = "data" /\ reply = <<OkLine>>
  /\ pc = "iap" => step \in {"P", "P2", "E", "C"}
  /\ pc = "close" => step \in {"P", "P2", "E", "C", "CV"}
  /\ pc \in {"iap", "close"} =>
       /\ step \in {"P", "P2"} => call.op = "P"
       /\ step = "E" => call.op = "E" /\ call.a = sector /\ call.b = sector
       /\ step = "C" => /\ call.op = "C" /\ call.a = FlashAddress
                        /\ call.b = kIspRamStart /\ call.n = kSectorSize
       /\ step = "CV" => call.op = "CV"
  /\ transfer.open => \/ step = "W" /\ pc = "done" /\ reply = <<CMD_SUCCESS>>
                      \/ step = "data" /\ pc \in {"idle", "store"}

\* The answer is out, or as good as out, and says that all is well.
Succeeded ==
  \/ pc = "close" /\ status = kStatus_Success
  \/ pc = "done" /\ reply \in {<<CMD_SUCCESS>>, <<OkLine>>}

\* What buffer_ holds, and for which sector.
RamInv ==
  /\ ram \in Pieces
  /\ step \in {"P", "E", "P2", "C"} => Fits(ram, sector)
  /\ step = "data" /\ Succeeded => Fits(ram, sector)

\* What the answers so far say of the sector, and of those before it.
SectorInv ==
  /\ step = "E" /\ Succeeded => Blank(sector)
  /\ step = "P2" => Blank(sector)
  /\ step = "C" /\ pc \in {"idle", "iap"} => Blank(sector)
  /\ step = "C" /\ Succeeded => Written(sector)
  /\ \A s \in ImageSectors : s < sector \/ step \in {"CV", "done"} => Written(s)

BodyInv == step = "done" \/ (step = "CV" /\ Succeeded) => Validated

UpdateInv == HostOK /\ InStep /\ RamInv /\ SectorInv /\ BodyInv

-----------------------------------------------------------------------------
(* Sectors and their cells.                                                *)

LEMMA SectorTypes ==
  /\ ImageSectors \subseteq Nat
  /\ kImageSectorStart \in Nat /\ kSectorCount \in Nat
  /\ kImageSectorStart \in ImageSectors
  /\ BufferIndex \subseteq Nat
  /\ kSectorSize \in Nat
  BY LayoutAssumption DEF ImageSectors, BufferIndex

LEMMA SectorBounds ==
  ASSUME NEW s \in Int
  PROVE  s \in ImageSectors <=> kImageSectorStart <= s /\ s < kSectorCount
<1>1. kImageSectorStart \in Int /\ kSectorCount \in Int
  BY LayoutAssumption
<1>. QED
  BY <1>1 DEF ImageSectors

\* Multiplication by the size of a sector keeps the order of sectors.
LEMMA SectorOrder ==
  ASSUME NEW s \in Nat, NEW t \in Nat, s < t
  PROVE  s * kSectorSize + kSectorSize <= t * kSectorSize
<1>1. PICK d \in Nat : t = s + 1 + d
  <2>1. t - s - 1 \in Nat /\ t = s + 1 + (t - s - 1)
    OBVIOUS
  <2>. QED
    BY <2>1
<1>2. t * kSectorSize = s * kSectorSize + kSectorSize + d * kSectorSize
  BY <1>1, LayoutAssumption
<1>3. d * kSectorSize \in Nat /\ s * kSectorSize \in Nat
  BY <1>1, LayoutAssumption
<1>. QED
  BY <1>2, <1>3, LayoutAssumption

LEMMA CellOfSector ==
  ASSUME NEW s \in ImageSectors, NEW i \in BufferIndex
  PROVE  /\ Cell(s, i) \in ImageCells
         /\ Cell(s, i) \in FlashCells
         /\ Cell(s, i) \in s * kSectorSize .. s * kSectorSize + kSectorSize - 1
         /\ Cell(s, i) - s * kSectorSize = i
<1>1. s \in Nat /\ i \in Nat /\ i < kSectorSize /\ s * kSectorSize \in Nat
  BY LayoutAssumption DEF ImageSectors, BufferIndex
<1>2. kImageStart <= s * kSectorSize
  <2>1. CASE s = kImageSectorStart
    BY <2>1, LayoutFacts DEF kImageStart
  <2>2. CASE kImageSectorStart < s
    BY <1>1, <2>2, SectorOrder, SectorTypes, LayoutFacts DEF kImageStart
  <2>. QED
    BY <2>1, <2>2, LayoutAssumption DEF ImageSectors
<1>3. s * kSectorSize + kSectorSize <= kFlashEnd
  BY <1>1, SectorOrder, LayoutAssumption DEF ImageSectors, kFlashEnd
<1>. QED
  BY <1>1, <1>2, <1>3, SectorTypes, LayoutFacts DEF Cell, ImageCells, FlashCells

LEMMA SectorOfCell ==
  ASSUME NEW s \in ImageSectors, NEW i \in BufferIndex
  PROVE  SectorOf(Cell(s, i)) = s
<1>. DEFINE c == Cell(s, i)
            q == c \div kSectorSize
<1>1. /\ s \in Nat /\ c \in Nat /\ s * kSectorSize \in Nat
      /\ s * kSectorSize <= c /\ c < s * kSectorSize + kSectorSize
  BY CellOfSector, SectorTypes, LayoutFacts DEF FlashCells
<1>2. q \in Nat /\ q * kSectorSize <= c /\ c < q * kSectorSize + kSectorSize
  <2>. HIDE DEF c
  <2>. QED
    BY <1>1, LayoutAssumption
<1>. HIDE DEF c, q
<1>3. ~(q < s)
  BY <1>1, <1>2, SectorOrder, LayoutAssumption
<1>4. ~(s < q)
  BY <1>1, <1>2, SectorOrder, LayoutAssumption
<1>. QED
  BY <1>1, <1>2, <1>3, <1>4 DEF SectorOf, c, q

\* Every byte of the image is a byte of one of its sectors.
LEMMA CellExists ==
  ASSUME NEW c \in ImageCells
  PROVE  \E s \in ImageSectors, i \in BufferIndex : c = Cell(s, i)
<1>. DEFINE q == c \div kSectorSize
            r == c % kSectorSize
<1>1. c \in Nat /\ kImageStart <= c /\ c < kFlashEnd
  BY LayoutFacts DEF ImageCells
<1>2. q \in Nat /\ r \in BufferIndex /\ c = q * kSectorSize + r
  BY <1>1, LayoutAssumption DEF BufferIndex
<1>. HIDE DEF q, r
<1>3. r \in Nat /\ r < kSectorSize /\ q * kSectorSize \in Nat
  BY <1>2, LayoutAssumption DEF BufferIndex
<1>4. ~(q < kImageSectorStart)
  BY <1>1, <1>2, <1>3, SectorOrder, SectorTypes, LayoutFacts DEF kImageStart
<1>5. ~(kSectorCount <= q)
  <2>1. kSectorCount < q => kSectorCount * kSectorSize + kSectorSize <= q * kSectorSize
    BY <1>2, SectorOrder, LayoutAssumption
  <2>2. kSectorCount * kSectorSize \in Nat
    BY LayoutAssumption
  <2>. QED
    BY <1>1, <1>2, <1>3, <2>1, <2>2, LayoutAssumption DEF kFlashEnd
<1>. QED
  BY <1>2, <1>4, <1>5, LayoutAssumption DEF ImageSectors, Cell

-----------------------------------------------------------------------------
(* The update is one of the behaviours of the command loop.                *)

LEMMA HostNumbers ==
  /\ ImageSectors \subseteq Numbers
  /\ \A s \in ImageSectors : s * kSectorSize \in Numbers
  /\ kIspRamStart \in Numbers /\ kSectorSize \in Numbers
  BY UpdateAssumption

\* Every step of host and device is a step the command loop may take.
LEMMA UpdateStepsAreCommandSteps ==
  ASSUME HostOK, [UpdateNext]_updateVars
  PROVE  [Next]_vars
<1>1. CASE Request
  <2>1. sector \in Numbers /\ FlashAddress \in Numbers
    BY HostNumbers DEF HostOK, FlashAddress
  <2>2. CASE step = "W" /\ WriteRequest(kIspRamStart, kSectorSize)
    BY <1>1, <2>2, HostNumbers DEF Request, WriteToRamRequest, Next, Command
  <2>3. CASE SectorRequest("P", sector, sector)
    BY <1>1, <2>1, <2>3
    DEF Request, SectorCommand, PrepSectorsForWrite, Next, Command
  <2>4. CASE SectorRequest("E", sector, sector)
    BY <1>1, <2>1, <2>4 DEF Request, SectorCommand, EraseSector, Next, Command
  <2>5. CASE RangeRequest("C", FlashAddress, kIspRamStart, kSectorSize)
    BY <1>1, <2>1, <2>5, HostNumbers
    DEF Request, RangeCommand, CopyRAMToFlash, Next, Command
  <2>6. CASE ImageIsValid
    BY <2>6 DEF Next, Command
  <2>. QED
    BY <1>1, <2>2, <2>3, <2>4, <2>5, <2>6 DEF Request
<1>2. CASE SendData \/ DataLost \/ PowerLost
  BY <1>2 DEF SendData, DataLost, PowerLost, Next
<1>3. CASE ReadAnswer \/ DeviceWorks \/ DeviceAnswers \/ DeviceStores \/ RomFails
  BY <1>3
  DEF ReadAnswer, DeviceWorks, DeviceAnswers, DeviceStores, RomFails, Rom, Next, Progress
<1>4. CASE UNCHANGED updateVars
  BY <1>4 DEF updateVars
<1>. QED
  BY <1>1, <1>2, <1>3, <1>4 DEF UpdateNext, GoesWell, Updated

\* The host knows its place, and faults are counted.
LEMMA HostKeepsPlace ==
  ASSUME HostOK, [UpdateNext]_updateVars
  PROVE  HostOK' /\ faults' \in {faults, faults + 1}
<1>1. HostOK' <=> /\ step' \in {"W", "data", "P", "E", "P2", "C", "CV", "done"}
                  /\ sector' \in ImageSectors
                  /\ faults' \in Nat
  BY DEF HostOK, ImageSectors
<1>2. /\ step \in {"W", "data", "P", "E", "P2", "C", "CV", "done"}
      /\ sector \in ImageSectors
      /\ faults \in Nat
  BY DEF HostOK
<1>3. NoFault \/ Fault => faults' \in Nat /\ faults' \in {faults, faults + 1}
  <2>1. faults' = faults \/ faults' = faults + 1 => faults' \in Nat
    BY <1>2
  <2>. QED
    BY <2>1 DEF NoFault, Fault
<1>4. UNCHANGED host => UNCHANGED step /\ UNCHANGED sector
  BY DEF host
<1>5. CASE ReadAnswer
  <2>1. CASE Advance
    <3>1. \/ step' \in {"data", "P", "E", "P2", "C", "CV", "done"} /\ UNCHANGED sector
          \/ step' = "W" /\ sector < kSectorCount - 1 /\ sector' = sector + 1
      <4>1. ASSUME NEW pair \in Following
            PROVE  pair[2] \in {"data", "P", "E", "P2", "C"}
        BY <4>1 DEF Following
      <4>. QED
        BY <2>1, <4>1 DEF Advance
    <3>2. sector < kSectorCount - 1 => sector + 1 \in ImageSectors
      BY <1>2, SectorBounds, SectorTypes
    <3>. QED
      BY <1>1, <1>2, <1>3, <1>5, <3>1, <3>2 DEF ReadAnswer
  <2>2. CASE StartOver
    BY <1>1, <1>3, <1>5, <2>2, SectorTypes DEF ReadAnswer, StartOver
  <2>. QED
    BY <1>5, <2>1, <2>2 DEF ReadAnswer
<1>6. CASE PowerLost
  <2>1. UNCHANGED host \/ StartOver
    BY <1>6 DEF PowerLost
  <2>. QED
    BY <1>1, <1>2, <1>3, <1>4, <1>6, <2>1, SectorTypes DEF PowerLost, StartOver
<1>7. CASE \/ Request \/ SendData \/ DeviceWorks \/ DeviceAnswers \/ DeviceStores
           \/ RomFails \/ DataLost
  <2>1. UNCHANGED host /\ (NoFault \/ Fault)
    BY <1>7
    DEF Request, SendData, DeviceWorks, DeviceAnswers, DeviceStores, RomFails, DataLost
  <2>. QED
    BY <1>1, <1>2, <1>3, <1>4, <2>1
<1>8. CASE UNCHANGED updateVars
  BY <1>1, <1>2, <1>4, <1>8 DEF updateVars
<1>. QED
  BY <1>5, <1>6, <1>7, <1>8 DEF UpdateNext, GoesWell, Updated

-----------------------------------------------------------------------------
(* The invariant, by who takes the step.                                   *)

LEMMA PiecesHold ==
  /\ [i \in BufferIndex |-> ZeroByte] \in Pieces
  /\ \A s \in ImageSectors : SectorImage(s) \in Pieces
  BY DEF Pieces

\* Back to the first sector: nothing is claimed of flash any more.
LEMMA StartOverPreserves ==
  ASSUME HostOK', StartOver, pc' = "idle", ~transfer'.open, ram' \in Pieces
  PROVE  UpdateInv'
<1>1. step' = "W" /\ sector' = kImageSectorStart
  BY DEF StartOver
<1>2. \A s \in ImageSectors : ~(s < sector')
  BY <1>1, SectorBounds, SectorTypes
<1>. QED
  BY <1>1, <1>2 DEF UpdateInv, InStep, RamInv, SectorInv, BodyInv, Succeeded

\* A fault never makes a piece worse than it may be.
LEMMA FitsStays ==
  ASSUME NEW piece, NEW s, Fits(piece, s), HostOK, faults' \in {faults, faults + 1}
  PROVE  piece \in Pieces /\ (faults' = 0 => piece = SectorImage(s))
<1>1. faults' = 0 => faults = 0
  BY DEF HostOK
<1>. QED
  BY <1>1 DEF Fits

\* The host does not move: what the step has to guarantee for that.
LEMMA HostWaits ==
  ASSUME UpdateInv, UNCHANGED <<step, sector>>, faults' \in {faults, faults + 1},
         HostOK', InStep',
         ram' = ram \/ Fits(ram, sector)',
         \A s \in ImageSectors :
            s < sector \/ step \in {"CV", "done"} => InFlash(s)' = InFlash(s),
         step = "data" /\ Succeeded' => Fits(ram, sector)',
         step = "E" /\ Succeeded' => Blank(sector)',
         step = "P2" => UNCHANGED flash,
         step = "C" /\ pc' \in {"idle", "iap"} => Blank(sector)',
         step = "C" /\ Succeeded' => Written(sector)',
         step = "done" \/ (step = "CV" /\ Succeeded') => Validated'
  PROVE  UpdateInv'
<1>1. RamInv'
  <2>1. ram' \in Pieces
    BY DEF UpdateInv, RamInv, Fits
  <2>2. ASSUME step \in {"P", "E", "P2", "C"}, ram' = ram
        PROVE  Fits(ram, sector)'
    BY <2>2, FitsStays DEF UpdateInv, RamInv, Fits
  <2>. QED
    BY <2>1, <2>2 DEF RamInv
<1>2. SectorInv'
  <2>1. ASSUME NEW s \in ImageSectors, s < sector \/ step \in {"CV", "done"}
        PROVE  Written(s)'
    <3>1. Fits(InFlash(s), s) /\ InFlash(s)' = InFlash(s)
      BY <2>1 DEF UpdateInv, SectorInv, Written
    <3>. QED
      BY <3>1, FitsStays DEF UpdateInv, Written, Fits
  <2>2. step = "P2" => Blank(sector)'
    BY DEF UpdateInv, SectorInv, Blank
  <2>. QED
    BY <2>1, <2>2 DEF SectorInv
<1>3. BodyInv'
  BY DEF BodyInv
<1>. QED
  BY <1>1, <1>2, <1>3 DEF UpdateInv

\* A request that is not done with in one step leaves memory alone, too.
LEMMA RequestPreserves ==
  ASSUME AnswerInv, UpdateInv, HostOK', Request
  PROVE  UpdateInv'
<1>1. /\ pc = "idle" /\ ~transfer.open /\ reply = <<>>
      /\ UNCHANGED <<step, sector, faults>>
  BY DEF Request, Dispatched, host, NoFault, AnswerInv
<1>2. ASSUME UNCHANGED <<flash, ram>>, InStep', step # "data", step # "done",
             step = "E" => ~Succeeded',
             step = "C" => pc' # "idle" /\ ~Succeeded',
             step = "CV" /\ Succeeded' => Validated'
      PROVE  UpdateInv'
  <2>1. \A s \in ImageSectors : InFlash(s)' = InFlash(s)
    BY <1>2 DEF InFlash, Cell
  <2>2. step = "C" => Blank(sector)'
    BY <1>1, <1>2 DEF UpdateInv, SectorInv, Blank
  <2>. QED
    BY <1>1, <1>2, <2>1, <2>2, HostWaits
<1>3. ASSUME step # "W", NEW code \in {INVALID_SECTOR_OR_INVALID_PAGE, ADDR_ERROR},
             OnlyAnswer(<<code>>)
      PROVE  InStep' /\ ~Succeeded' /\ pc' # "idle" /\ UNCHANGED <<flash, ram>>
  BY <1>1, <1>3
  DEF OnlyAnswer, Answer, InStep, Succeeded, romVars, deviceVars, CMD_SUCCESS, OkLine,
      INVALID_SECTOR_OR_INVALID_PAGE, ADDR_ERROR
<1>4. ASSUME NEW op, NEW a, NEW b, NEW n, Enter(op, a, b, n)
      PROVE  /\ pc' = "iap" /\ ~Succeeded' /\ UNCHANGED <<flash, ram, transfer>>
             /\ call'.op = op /\ call'.a = a /\ call'.b = b /\ call'.n = n
  BY <1>4 DEF Enter, NoCall, Succeeded, romVars
<1>5. CASE step = "W" /\ WriteRequest(kIspRamStart, kSectorSize)
  <2>1. /\ pc' = "done" /\ UNCHANGED <<flash, ram>>
        /\ transfer'.open => reply' = <<CMD_SUCCESS>>
    BY <1>1, <1>5 DEF WriteRequest, Answer, romVars
  <2>2. InStep'
    BY <1>1, <1>5, <2>1 DEF InStep
  <2>. QED
    BY <1>2, <1>5, <2>1, <2>2
<1>6. CASE step \in {"P", "P2"} /\ SectorRequest("P", sector, sector)
  <2>1. InStep' /\ UNCHANGED <<flash, ram>>
    BY <1>1, <1>3, <1>4, <1>6 DEF SectorRequest, InStep
  <2>. QED
    BY <1>2, <1>6, <2>1
<1>7. CASE step = "E" /\ SectorRequest("E", sector, sector)
  <2>1. InStep' /\ ~Succeeded' /\ UNCHANGED <<flash, ram>>
    BY <1>1, <1>3, <1>4, <1>7 DEF SectorRequest, InStep
  <2>. QED
    BY <1>2, <1>7, <2>1
<1>8. CASE step = "C" /\ RangeRequest("C", FlashAddress, kIspRamStart, kSectorSize)
  <2>1. UNCHANGED FlashAddress
    BY <1>1 DEF FlashAddress
  <2>2. InStep' /\ ~Succeeded' /\ pc' # "idle" /\ UNCHANGED <<flash, ram>>
    BY <1>1, <1>3, <1>4, <1>8, <2>1 DEF RangeRequest, InStep
  <2>. QED
    BY <1>2, <1>8, <2>2
<1>9. CASE step = "CV" /\ ImageIsValid
  <2>1. /\ UNCHANGED <<flash, ram, transfer>> /\ pc' \in {"halted", "close"}
        /\ call'.op = "CV"
    BY <1>9 DEF ImageIsValid, Halt, romVars, NoCall
  <2>2. InStep'
    BY <1>1, <1>9, <2>1 DEF InStep
  <2>3. Succeeded' => Validated'
    BY <1>9, <2>1
    DEF ImageIsValid, Halt, Succeeded, Validated, Body, LastWord,
        kStatus_Success, USER_CODE_CHECKSUM
  <2>. QED
    BY <1>2, <1>9, <2>1, <2>2, <2>3
<1>. QED
  BY <1>5, <1>6, <1>7, <1>8, <1>9 DEF Request

\* "OK" goes out, and nothing else happens yet.
LEMMA SendDataPreserves ==
  ASSUME UpdateInv, HostOK', SendData
  PROVE  UpdateInv'
<1>1. /\ step = "data" /\ pc' = "store" /\ reply' = <<OkLine>>
      /\ UNCHANGED <<step, sector, faults, flash, ram, transfer>>
  BY DEF SendData, FinishTransfer, UpdateInv, InStep, host, NoFault, romVars, deviceVars
<1>2. InStep' /\ ~Succeeded'
  BY <1>1 DEF InStep, Succeeded
<1>3. \A s \in ImageSectors : InFlash(s)' = InFlash(s)
  BY <1>1 DEF InFlash, Cell
<1>. QED
  BY <1>1, <1>2, <1>3, HostWaits

\* WriteToRam does not fail at a pointer: the range was checked with the W.
LEMMA StoreEnds ==
  ASSUME IInv, UpdateInv, DeviceStores
  PROVE  /\ step = "data" /\ pc' = "done" /\ ~transfer'.open /\ reply' = <<OkLine>>
         /\ UNCHANGED <<step, sector, faults, flash, prepared>>
<1>1. PointersLegal(transfer.start, transfer.length)
  BY PointersAreLegal DEF DeviceStores, StoreTransfer, IInv, TypeOK, Transfers, TransferLegal
<1>2. pc = "store" /\ pc' = "done" /\ transfer' = NoTransfer /\ UNCHANGED reply
  BY <1>1, Zenon DEF DeviceStores, StoreTransfer
<1>3. UNCHANGED <<step, sector, faults, flash, prepared>>
  BY DEF DeviceStores, StoreTransfer, host, NoFault, romVars
<1>. QED
  BY <1>2, <1>3 DEF UpdateInv, InStep, NoTransfer

\* The data is the host's: buffer_ then holds the sector of the image.
LEMMA DeviceStoresPreserves ==
  ASSUME IInv, IInv', UpdateInv, HostOK', DeviceStores
  PROVE  UpdateInv'
<1>1. /\ step = "data" /\ pc' = "done" /\ ~transfer'.open /\ sector \in ImageSectors
      /\ UNCHANGED <<step, sector, faults, flash>>
  BY StoreEnds DEF UpdateInv, HostOK
<1>2. ram' = SectorImage(sector)
  BY DEF DeviceStores, IInv, TypeOK, SectorImage, FlashAddress
<1>3. Fits(ram, sector)'
  BY <1>1, <1>2, PiecesHold DEF Fits
<1>4. InStep'
  BY <1>1 DEF InStep
<1>5. \A s \in ImageSectors : InFlash(s)' = InFlash(s)
  BY <1>1 DEF InFlash, Cell
<1>. QED
  BY <1>1, <1>3, <1>4, <1>5, HostWaits

\* What each good answer lets the host conclude.
LEMMA AdvancePreserves ==
  ASSUME UpdateInv, HostOK', Succeeded, Advance, pc' = "idle", ~transfer'.open \/ step = "W",
         UNCHANGED <<flash, ram, faults>>
  PROVE  UpdateInv'
<1>0. sector \in ImageSectors /\ step' \in {"W", "data", "P", "E", "P2", "C", "CV", "done"}
  BY DEF UpdateInv, HostOK
<1>1. \A s \in ImageSectors : InFlash(s)' = InFlash(s)
  BY DEF InFlash, Cell
<1>2. /\ \A s \in ImageSectors : Written(s) => Written(s)'
      /\ Fits(ram, sector) /\ UNCHANGED sector => Fits(ram, sector)'
      /\ Blank(sector) /\ UNCHANGED sector => Blank(sector)'
  BY <1>1 DEF Written, Fits, Blank, Cell
<1>3. ~Succeeded'
  BY DEF Succeeded
<1>4. InStep'
  BY DEF Advance, Following, InStep, UpdateInv
<1>5. RamInv'
  BY <1>2, <1>3 DEF Advance, Following, RamInv, UpdateInv
<1>6. SectorInv'
  <2>1. CASE \E pair \in Following : step = pair[1] /\ step' = pair[2] /\ UNCHANGED sector
    BY <1>2, <1>3, <2>1 DEF Following, SectorInv, UpdateInv
  <2>2. CASE step = "C" /\ sector < kSectorCount - 1 /\ step' = "W" /\ sector' = sector + 1
    <3>1. \A s \in ImageSectors : s < sector' => s < sector \/ s = sector
      BY <1>0, <2>2, SectorTypes
    <3>. QED
      BY <1>2, <1>3, <2>2, <3>1 DEF SectorInv, UpdateInv
  <2>3. CASE step = "C" /\ sector = kSectorCount - 1 /\ step' = "CV" /\ UNCHANGED sector
    <3>1. \A s \in ImageSectors : s < sector \/ s = sector
      BY <1>0, <2>3, SectorBounds, SectorTypes
    <3>. QED
      BY <1>2, <1>3, <2>3, <3>1 DEF SectorInv, UpdateInv
  <2>4. CASE step = "CV" /\ step' = "done" /\ UNCHANGED sector
    BY <1>2, <1>3, <2>4 DEF SectorInv, UpdateInv
  <2>. QED
    BY <2>1, <2>2, <2>3, <2>4 DEF Advance
<1>7. BodyInv'
  BY <1>3 DEF Advance, Following, BodyInv, UpdateInv, Validated, Body, LastWord
<1>. QED
  BY <1>4, <1>5, <1>6, <1>7 DEF UpdateInv

LEMMA ReadAnswerPreserves ==
  ASSUME UpdateInv, HostOK', ReadAnswer
  PROVE  UpdateInv'
<1>1. /\ pc = "done" /\ pc' = "idle"
      /\ UNCHANGED <<flash, ram, faults, transfer>>
  BY DEF ReadAnswer, Return, NoFault, romVars, deviceVars
<1>2. CASE reply \in {<<CMD_SUCCESS>>, <<OkLine>>}
  <2>1. Succeeded /\ Advance /\ (~transfer'.open \/ step = "W")
    BY <1>1, <1>2 DEF ReadAnswer, Succeeded, UpdateInv, InStep
  <2>. QED
    BY <1>1, <2>1, AdvancePreserves
<1>3. CASE reply \notin {<<CMD_SUCCESS>>, <<OkLine>>}
  <2>1. StartOver /\ ~transfer'.open /\ ram' \in Pieces
    BY <1>1, <1>3 DEF ReadAnswer, UpdateInv, InStep, RamInv
  <2>. QED
    BY <1>1, <2>1, StartOverPreserves
<1>. QED
  BY <1>2, <1>3

\* TranslateStatus makes a success of nothing but a success.
LEMMA DeviceAnswersPreserves ==
  ASSUME AnswerInv, UpdateInv, HostOK', DeviceAnswers
  PROVE  UpdateInv'
<1>1. /\ pc = "close" /\ pc' = "done" /\ ~transfer.open
      /\ step \in {"P", "P2", "E", "C", "CV"}
      /\ UNCHANGED <<flash, ram, transfer, status, step, sector, faults>>
      /\ reply' = IF step = "CV" THEN <<status>> ELSE <<TranslateStatus(status)>>
  <2>1. /\ pc = "close" /\ step \in {"P", "P2", "E", "C", "CV"} /\ ~transfer.open
        /\ call.op \in {"P", "E", "C", "CV"} /\ (call.op = "CV" <=> step = "CV")
    BY DEF DeviceAnswers, Leave, UpdateInv, InStep
  <2>. QED
    BY <2>1 DEF DeviceAnswers, Leave, Answer, callVars, romVars, host, NoFault
<1>2. Succeeded' => Succeeded
  <2>1. CASE step = "CV"
    <3>1. status \in {CMD_SUCCESS, USER_CODE_CHECKSUM}
      BY <1>1, <2>1 DEF AnswerInv, UpdateInv, InStep
    <3>. QED
      BY <1>1, <2>1, <3>1
      DEF Succeeded, CMD_SUCCESS, USER_CODE_CHECKSUM, OkLine, kStatus_Success
  <2>2. CASE step # "CV"
    <3>1. status \in IapStatus
      BY <1>1, <2>2 DEF AnswerInv, UpdateInv, InStep
    <3>2. TranslateStatus(status) # OkLine
      BY <3>1, TranslatedStatus DEF ReturnCodes, OkLine
    <3>3. TranslateStatus(status) = CMD_SUCCESS => status = kStatus_Success
      BY <3>1, TranslatedStatus
    <3>. QED
      BY <1>1, <2>2, <3>2, <3>3 DEF Succeeded
  <2>. QED
    BY <2>1, <2>2
<1>3. InStep'
  BY <1>1 DEF InStep
<1>4. \A s \in ImageSectors : InFlash(s)' = InFlash(s)
  BY <1>1 DEF InFlash, Cell
<1>5. /\ step = "E" /\ Succeeded => Blank(sector)'
      /\ step = "C" /\ Succeeded => Written(sector)'
      /\ step = "CV" /\ Succeeded => Validated'
  <2>1. /\ Blank(sector) => Blank(sector)'
        /\ Written(sector) => Written(sector)'
        /\ Validated => Validated'
    BY <1>1 DEF Blank, Written, Fits, InFlash, Cell, Validated, Body, LastWord
  <2>. QED
    BY <2>1 DEF UpdateInv, SectorInv, BodyInv
<1>. QED
  BY <1>1, <1>2, <1>3, <1>4, <1>5, HostWaits

\* The wait for the data times out.
LEMMA DataLostPreserves ==
  ASSUME UpdateInv, HostOK', DataLost
  PROVE  UpdateInv'
<1>1. /\ step = "data" /\ pc' = "done" /\ transfer' = NoTransfer
      /\ UNCHANGED <<flash, ram, step, sector>> /\ faults' = faults + 1
  BY DEF DataLost, AbandonTransfer, Answer, UpdateInv, InStep, host, Fault, romVars
<1>2. faults' # 0
  BY <1>1 DEF UpdateInv, HostOK
<1>3. Fits(ram, sector)'
  BY <1>1, <1>2 DEF Fits, UpdateInv, RamInv
<1>4. InStep'
  BY <1>1 DEF InStep, NoTransfer
<1>5. \A s \in ImageSectors : InFlash(s)' = InFlash(s)
  BY <1>1 DEF InFlash, Cell
<1>. QED
  BY <1>1, <1>3, <1>4, <1>5, HostWaits

\* A reset between two commands goes unnoticed, and clears buffer_.
LEMMA PowerLostPreserves ==
  ASSUME IInv, UpdateInv, HostOK', PowerLost
  PROVE  UpdateInv'
<1>1. /\ pc' = "idle" /\ ~transfer'.open /\ ram' \in Pieces /\ ~Succeeded'
      /\ faults' = faults + 1 /\ faults' # 0
  <2>1. ram' \in Pieces
    BY PiecesHold DEF PowerLost, PowerCycle, Restart
  <2>. QED
    BY <2>1
    DEF PowerLost, PowerCycle, Restart, NoTransfer, Succeeded, Fault, UpdateInv, HostOK
<1>2. CASE Dispatched
  <2>1. UNCHANGED flash
    <3>1. TornCells = {}
      BY <1>2 DEF Dispatched, TornCells, InIap
    <3>. QED
      BY <3>1 DEF PowerLost, PowerCycle, IInv, TypeOK
  <2>2. UNCHANGED <<step, sector>>
    BY <1>2 DEF PowerLost, host
  <2>3. Fits(ram, sector)'
    BY <1>1 DEF Fits
  <2>4. InStep'
    BY <1>1 DEF InStep
  <2>5. /\ \A s \in ImageSectors : InFlash(s)' = InFlash(s)
        /\ Validated => Validated'
        /\ step = "C" => Blank(sector)'
    BY <1>2, <2>1, <2>2
    DEF InFlash, Cell, Validated, Body, LastWord, Blank, Dispatched, UpdateInv, SectorInv
  <2>6. step = "done" => Validated
    BY DEF UpdateInv, BodyInv
  <2>. QED
    BY <1>1, <2>1, <2>2, <2>3, <2>4, <2>5, <2>6, HostWaits
<1>3. CASE ~Dispatched
  BY <1>1, <1>3, StartOverPreserves DEF PowerLost
<1>. QED
  BY <1>2, <1>3

-----------------------------------------------------------------------------
(* The ROM.                                                                *)

LEMMA FailureIsNoSuccess ==
  ASSUME NEW s \in IapFailures
  PROVE  s # kStatus_Success
  BY RomAssumption DEF IapFailures, kStatus_Success

\* An erase of one sector blanks it and no other.
LEMMA EraseOneSector ==
  ASSUME NEW s \in ImageSectors,
         flash' = [c \in FlashCells |->
                     IF c \in SectorCells(s, s) THEN ErasedByte ELSE flash[c]]
  PROVE  /\ Blank(s)'
         /\ \A t \in ImageSectors : t # s => InFlash(t)' = InFlash(t)
<1>1. ASSUME NEW t \in ImageSectors, NEW i \in BufferIndex
      PROVE  flash'[Cell(t, i)] = IF t = s THEN ErasedByte ELSE flash[Cell(t, i)]
  <2>1. Cell(t, i) \in FlashCells /\ SectorOf(Cell(t, i)) = t
    BY CellOfSector, SectorOfCell
  <2>2. t \in s .. s <=> t = s
    BY SectorTypes
  <2>. QED
    BY <2>1, <2>2 DEF SectorCells
<1>2. \A t, i : Cell(t, i)' = Cell(t, i)
  BY DEF Cell
<1>. QED
  BY <1>1, <1>2 DEF Blank, InFlash

\* A copy to a blank sector makes it what buffer_ is, and touches no other.
LEMMA CopyToBlankSector ==
  ASSUME NEW s \in ImageSectors, Blank(s), ram \in [BufferIndex -> Byte],
         NEW muddle,
         LET address == s * kSectorSize
             source  == IapSource(kIspRamStart, kSectorSize)
         IN  flash' = [c \in FlashCells |->
                         IF c \notin address .. address + kSectorSize - 1 THEN flash[c]
                         ELSE IF flash[c] = ErasedByte THEN source[c - address]
                         ELSE muddle[c - address]]
  PROVE  /\ InFlash(s)' = ram
         /\ \A t \in ImageSectors : t # s => InFlash(t)' = InFlash(t)
<1>. DEFINE address == s * kSectorSize
<1>0. \A t, i : Cell(t, i)' = Cell(t, i)
  BY DEF Cell
<1>1. ASSUME NEW i \in BufferIndex
      PROVE  flash'[Cell(s, i)] = ram[i]
  <2>1. /\ Cell(s, i) \in FlashCells
        /\ Cell(s, i) \in address .. address + kSectorSize - 1
        /\ Cell(s, i) - address = i
    BY CellOfSector
  <2>2. flash[Cell(s, i)] = ErasedByte
    BY DEF Blank
  <2>3. flash'[Cell(s, i)] = IapSource(kIspRamStart, kSectorSize)[i]
    BY <2>1, <2>2
  <2>4. GetRamPtr(kIspRamStart) + i = i
    BY LayoutAssumption DEF GetRamPtr, kIspRamStart, BufferIndex
  <2>. QED
    BY <2>3, <2>4 DEF IapSource, BufferIndex
<1>2. ASSUME NEW t \in ImageSectors, t # s, NEW i \in BufferIndex
      PROVE  flash'[Cell(t, i)] = flash[Cell(t, i)]
  <2>1. Cell(t, i) \in FlashCells
    BY CellOfSector
  <2>2. Cell(t, i) \notin address .. address + kSectorSize - 1
    <3>1. /\ Cell(t, i) \in t * kSectorSize .. t * kSectorSize + kSectorSize - 1
          /\ s \in Nat /\ t \in Nat /\ kSectorSize \in Nat
          /\ s * kSectorSize \in Int /\ t * kSectorSize \in Int
      BY CellOfSector, SectorTypes
    <3>2. \/ t * kSectorSize + kSectorSize <= s * kSectorSize
          \/ s * kSectorSize + kSectorSize <= t * kSectorSize
      <4>1. t < s \/ s < t
        BY <1>2, <3>1
      <4>. QED
        BY <3>1, <4>1, SectorOrder
    <3>. QED
      BY <3>1, <3>2
  <2>. QED
    BY <2>1, <2>2
<1>. QED
  BY <1>0, <1>1, <1>2 DEF InFlash

\* What every call of the ROM has in common.
LEMMA RomCallOver ==
  ASSUME UpdateInv, Rom
  PROVE  /\ pc = "iap" /\ pc' = "close" /\ ~transfer.open
         /\ UNCHANGED <<call, ram, transfer>>
         /\ status' \in IapFailures => ~Succeeded'
         /\ step \in {"P", "P2", "E", "C"}
         /\ RomPrepare => step \in {"P", "P2"}
         /\ RomErase => step = "E" /\ call.a = sector /\ call.b = sector
         /\ RomCopy => /\ step = "C" /\ call.a = FlashAddress
                       /\ call.b = kIspRamStart /\ call.n = kSectorSize
<1>1. pc = "iap" /\ pc' = "close" /\ UNCHANGED <<call, ram, transfer>>
  BY DEF Rom, RomPrepare, RomErase, RomCopy, InIap, Returned, deviceVars
<1>2. RomPrepare => call.op = "P"
  BY DEF RomPrepare, InIap
<1>3. RomErase => call.op = "E"
  BY DEF RomErase, InIap
<1>4. RomCopy => call.op = "C"
  BY DEF RomCopy, InIap
<1>5. status' \in IapFailures => ~Succeeded'
  BY <1>1, FailureIsNoSuccess DEF Succeeded
<1>. QED
  BY <1>1, <1>2, <1>3, <1>4, <1>5 DEF Rom, UpdateInv, InStep

LEMMA RomPreserves ==
  ASSUME IInv, UpdateInv, HostOK', Rom, UNCHANGED <<step, sector>>,
         faults' \in {faults, faults + 1}
  PROVE  UpdateInv'
<1>1. sector \in ImageSectors
  BY DEF UpdateInv, HostOK
<1>2. UNCHANGED FlashAddress
  BY DEF FlashAddress
<1>3. InStep'
  BY <1>2, RomCallOver DEF InStep, UpdateInv
<1>4. ASSUME UNCHANGED flash, step \in {"P", "P2"} \/ status' \in IapFailures
      PROVE  UpdateInv'
  <2>1. \A s \in ImageSectors : InFlash(s)' = InFlash(s)
    BY <1>4 DEF InFlash, Cell
  <2>2. /\ step \in {"P", "P2", "E", "C"} /\ UNCHANGED ram /\ pc' = "close"
        /\ step \in {"E", "C"} => ~Succeeded'
    BY <1>4, RomCallOver
  <2>. QED
    BY <1>3, <1>4, <2>1, <2>2, HostWaits
<1>5. CASE RomPrepare
  BY <1>4, <1>5, RomCallOver
  DEF RomPrepare, IAP_PrepareSectorForWrite, IapRefuses, romVars
<1>6. CASE RomErase
  <2>1. step = "E" /\ call.a = sector /\ call.b = sector /\ UNCHANGED ram /\ pc' = "close"
    BY <1>6, RomCallOver
  <2>2. CASE status' \in IapFailures /\ UNCHANGED flash
    BY <1>4, <2>2
  <2>3. CASE flash' = [c \in FlashCells |->
                         IF c \in SectorCells(sector, sector) THEN ErasedByte ELSE flash[c]]
    <3>1. /\ Blank(sector)'
          /\ \A s \in ImageSectors : s # sector => InFlash(s)' = InFlash(s)
      BY <1>1, <2>3, EraseOneSector
    <3>2. \A s \in ImageSectors : s < sector => s # sector
      BY <1>1, SectorTypes
    <3>. QED
      BY <1>3, <2>1, <3>1, <3>2, HostWaits
  <2>. QED
    BY <1>6, <2>1, <2>2, <2>3 DEF RomErase, IAP_EraseSector, IapRefuses, Returned, romVars
<1>7. CASE RomCopy
  <2>1. /\ step = "C" /\ UNCHANGED ram /\ pc' = "close"
        /\ call.a = FlashAddress /\ call.b = kIspRamStart /\ call.n = kSectorSize
    BY <1>7, RomCallOver
  <2>2. CASE status' \in IapFailures /\ UNCHANGED flash
    BY <1>4, <2>2
  <2>3. ASSUME NEW muddle,
               LET source == IapSource(kIspRamStart, kSectorSize)
               IN  flash' = [c \in FlashCells |->
                      IF c \notin FlashAddress .. FlashAddress + kSectorSize - 1 THEN flash[c]
                      ELSE IF flash[c] = ErasedByte THEN source[c - FlashAddress]
                      ELSE muddle[c - FlashAddress]]
        PROVE  UpdateInv'
    <3>1. Blank(sector) /\ ram \in [BufferIndex -> Byte] /\ Fits(ram, sector)
      BY <1>7, <2>1
      DEF RomCopy, InIap, IInv, TypeOK, UpdateInv, RamInv, SectorInv
    <3>2. /\ InFlash(sector)' = ram
          /\ \A s \in ImageSectors : s # sector => InFlash(s)' = InFlash(s)
      BY <1>1, <2>3, <3>1, CopyToBlankSector DEF FlashAddress
    <3>3. Written(sector)'
      BY <3>1, <3>2, FitsStays DEF UpdateInv, Written, Fits
    <3>4. \A s \in ImageSectors : s < sector => s # sector
      BY <1>1, SectorTypes
    <3>. QED
      BY <1>3, <2>1, <3>2, <3>3, <3>4, HostWaits
  <2>. QED
    BY <1>7, <2>1, <2>2, <2>3
    DEF RomCopy, IAP_CopyRamToFlash, IapRefuses, Returned, romVars
<1>. QED
  BY <1>5, <1>6, <1>7 DEF Rom

-----------------------------------------------------------------------------
(* The theorems.                                                           *)

LEMMA UpdateStart ==
  ASSUME UpdateInit
  PROVE  UpdateInv
<1>1. HostOK
  BY SectorTypes DEF UpdateInit, HostOK
<1>2. InStep /\ ~Succeeded
  BY DEF UpdateInit, Init, InStep, Succeeded, NoTransfer
<1>3. ram \in Pieces
  BY PiecesHold DEF UpdateInit, Init
<1>4. \A s \in ImageSectors : ~(s < sector)
  BY SectorBounds, SectorTypes DEF UpdateInit
<1>. QED
  BY <1>1, <1>2, <1>3, <1>4 DEF UpdateInit, UpdateInv, RamInv, SectorInv, BodyInv

LEMMA UpdateStepPreserves ==
  ASSUME IInv, IInv', AnswerInv, UpdateInv, [UpdateNext]_updateVars
  PROVE  UpdateInv'
<1>1. HostOK' /\ faults' \in {faults, faults + 1}
  BY HostKeepsPlace DEF UpdateInv
<1>2. CASE Request
  BY <1>1, <1>2, RequestPreserves
<1>3. CASE SendData
  BY <1>1, <1>3, SendDataPreserves
<1>4. CASE ReadAnswer
  BY <1>1, <1>4, ReadAnswerPreserves
<1>5. CASE DeviceWorks \/ RomFails
  BY <1>1, <1>5, RomPreserves DEF DeviceWorks, RomFails, host
<1>6. CASE DeviceAnswers
  BY <1>1, <1>6, DeviceAnswersPreserves
<1>7. CASE DataLost
  BY <1>1, <1>7, DataLostPreserves
<1>8. CASE PowerLost
  BY <1>1, <1>8, PowerLostPreserves
<1>9. CASE DeviceStores
  BY <1>1, <1>9, DeviceStoresPreserves
<1>10. CASE UNCHANGED updateVars
  BY <1>10
  DEF updateVars, host, vars, deviceVars, callVars, romVars, UpdateInv, HostOK, InStep,
      RamInv, SectorInv, BodyInv, Succeeded, Fits, Blank, Written, InFlash, Cell,
      Validated, Body, LastWord, FlashAddress
<1>. QED
  BY <1>2, <1>3, <1>4, <1>5, <1>6, <1>7, <1>8, <1>9, <1>10
  DEF UpdateNext, GoesWell, Updated

\* Whatever is proved of the command loop holds while an image is updated: the
\* host, the faults and the device together only do what IspCommands allows.
THEOREM UpdateIsCommandLoop == UpdateSpec => Spec
<1>1. UpdateInit => Init /\ HostOK
  BY SectorTypes DEF UpdateInit, HostOK
<1>2. HostOK /\ [UpdateNext]_updateVars => HostOK' /\ [Next]_vars
  BY HostKeepsPlace, UpdateStepsAreCommandSteps
<1>. QED
  BY <1>1, <1>2, PTL DEF UpdateSpec, Spec

\* In particular no update, however it is disturbed, touches the bootloader
\* (IspCommands!BootloaderIntact).
THEOREM UpdateSparesBootloader == UpdateSpec => BootloaderIntact
  BY UpdateIsCommandLoop, BootloaderUntouched, PTL

LEMMA UpdateInvariant == UpdateSpec => [](IInv /\ AnswerInv /\ UpdateInv)
<1>1. UpdateInit => UpdateInv
  BY UpdateStart
<1>2. IInv /\ IInv' /\ AnswerInv /\ UpdateInv /\ [UpdateNext]_updateVars => UpdateInv'
  BY UpdateStepPreserves
<1>. QED
  BY <1>1, <1>2, UpdateIsCommandLoop, AnswerInvariant, PTL DEF UpdateSpec

LEMMA BodyIsImage ==
  ASSUME UpdateInv, step = "done", NEW c \in ImageBody
  PROVE  flash[c] = Image[c]
<1>1. Body \in GoodImages
  BY DEF UpdateInv, BodyInv, Validated
<1>2. ASSUME NEW s \in ImageSectors
      PROVE  \E piece \in Pieces : \A i \in BufferIndex :
               s * kSectorSize + i \in ImageBody => Body[s * kSectorSize + i] = piece[i]
  <2>1. InFlash(s) \in Pieces
    BY DEF UpdateInv, SectorInv, Written, Fits
  <2>2. \A i \in BufferIndex :
          s * kSectorSize + i \in ImageBody => Body[s * kSectorSize + i] = InFlash(s)[i]
    BY DEF Body, InFlash, Cell
  <2>. QED
    BY <2>1, <2>2
<1>3. Body[c] = Image[c]
  BY <1>1, <1>2, CrcAssumption
<1>. QED
  BY <1>3 DEF Body

\* A host that was told that all is well has its image in the device
\* (ImageUpdate!DoneMeansWritten), after any number of faults: lost data that
\* was called OK, failures of the ROM and resets at any moment.
THEOREM DoneIsWritten == UpdateSpec => []DoneMeansWritten
<1>1. UpdateInv => DoneMeansWritten
  BY BodyIsImage DEF DoneMeansWritten
<1>. QED
  BY <1>1, UpdateInvariant, PTL

\* If nothing went wrong, that takes no CRC, and holds of the last word, too.
UndisturbedIsExact ==
  step = "done" /\ faults = 0 => \A c \in ImageCells : flash[c] = Image[c]

\* Erase, prepare and copy, sector by sector, put every byte in its place,
\* the last sector's included (CopyRAMToFlash of Bootloader.cpp).
THEOREM UndisturbedUpdate == UpdateSpec => []UndisturbedIsExact
<1>1. ASSUME UpdateInv, step = "done", faults = 0, NEW c \in ImageCells
      PROVE  flash[c] = Image[c]
  <2>1. PICK s \in ImageSectors, i \in BufferIndex : c = Cell(s, i)
    BY CellExists
  <2>2. InFlash(s) = SectorImage(s)
    BY <1>1 DEF UpdateInv, SectorInv, Written, Fits
  <2>3. InFlash(s)[i] = flash[c] /\ SectorImage(s)[i] = Image[c]
    BY <2>1 DEF InFlash, SectorImage, Cell
  <2>. QED
    BY <2>2, <2>3
<1>2. UpdateInv => UndisturbedIsExact
  BY <1>1 DEF UndisturbedIsExact
<1>. QED
  BY <1>2, UpdateInvariant, PTL

\* The assert of Bootloader.cpp:104 is worth something to the host: it covers
\* the word that the CRC leaves out.
AssertCoversLastWord ==
  step = "done" /\ Asserts => LastWord = SignatureWord

\* With asserts, an update is only reported as done when the last word of flash
\* is image_signature.
THEOREM AssertedLastWord == UpdateSpec => []AssertCoversLastWord
<1>1. UpdateInv => AssertCoversLastWord
  BY DEF AssertCoversLastWord, UpdateInv, BodyInv, Validated
<1>. QED
  BY <1>1, UpdateInvariant, PTL

\* No byte is programmed on top of another value (ImageUpdate!ProgrammedOnce).
THEOREM NeverProgrammedTwice == UpdateSpec => []ProgrammedOnce
<1>1. ASSUME UpdateInv, InIap("C"), NEW c \in call.a .. call.a + call.n - 1
      PROVE  flash[c] = ErasedByte
  <2>1. /\ call.a = sector * kSectorSize /\ call.n = kSectorSize
        /\ Blank(sector) /\ sector \in ImageSectors
    BY <1>1 DEF UpdateInv, HostOK, InStep, SectorInv, InIap, FlashAddress
  <2>2. c - call.a \in BufferIndex /\ c = Cell(sector, c - call.a)
    <3>1. sector * kSectorSize \in Int /\ kSectorSize \in Int
      BY <2>1, SectorTypes
    <3>. QED
      BY <2>1, <3>1 DEF BufferIndex, Cell
  <2>. QED
    BY <2>1, <2>2 DEF Blank
<1>2. UpdateInv => ProgrammedOnce
  BY <1>1 DEF ProgrammedOnce
<1>. QED
  BY <1>2, UpdateInvariant, PTL

-----------------------------------------------------------------------------
(* Nothing of what an update asks for is refused, whatever an earlier      *)
(* attempt has left behind.                                                *)

\* The host begins, or begins again: any sectors may be prepared, written or
\* torn, and any piece may be in buffer_.  Faults are counted from here.
Restartable == IInv /\ AnswerInv /\ Dispatched /\ ram \in Pieces
AttemptInit ==
  Restartable /\ step = "W" /\ sector = kImageSectorStart /\ faults = 0
AttemptSpec == AttemptInit /\ [][UpdateNext]_updateVars

\* Each answer is the one the host hopes for, the data of each W is awaited,
\* and no assert stops the device.
NothingRefused ==
  faults = 0 =>
    /\ pc = "done" => reply \in {<<CMD_SUCCESS>>, <<OkLine>>}
    /\ pc = "idle" /\ step = "data" => transfer.open
    /\ pc # "halted"

\* The sector is prepared whenever the ROM has to have it prepared.
SmoothInv ==
  faults = 0 =>
    /\ pc # "halted"
    /\ pc = "close" => status = kStatus_Success
    /\ pc = "done" => reply \in {<<CMD_SUCCESS>>, <<OkLine>>}
    /\ step = "W" /\ pc = "done" => transfer.open
    /\ step = "data" /\ pc = "idle" => transfer.open
    /\ step \in {"P", "P2"} /\ pc = "iap" => call.a = sector /\ call.b = sector
    /\ step \in {"P", "P2"} /\ pc \in {"close", "done"} => sector \in prepared
    /\ step \in {"E", "C"} /\ pc \in {"idle", "iap"} => sector \in prepared

LEMMA HostRequestsLegal ==
  ASSUME Compatible, NEW s \in ImageSectors
  PROVE  /\ FlashSectorLegal(s)
         /\ FlashAddressRangeLegal(s * kSectorSize, kSectorSize)
         /\ RamRangeLegal(kIspRamStart, kSectorSize)
<1>1. FlashSectorLegal(s)
  BY SectorBounds, SectorTypes DEF FlashSectorLegal
<1>2. /\ s * kSectorSize \in ImageCells
      /\ s * kSectorSize + kSectorSize - 1 \in ImageCells
  <2>1. 0 \in BufferIndex /\ kSectorSize - 1 \in BufferIndex
    BY LayoutAssumption DEF BufferIndex
  <2>2. Cell(s, 0) \in ImageCells /\ Cell(s, kSectorSize - 1) \in ImageCells
    BY <2>1, CellOfSector
  <2>3. s * kSectorSize \in Nat
    BY SectorTypes
  <2>. QED
    BY <2>2, <2>3, LayoutAssumption DEF Cell
<1>3. \A x \in ImageCells : FlashAddressLegal(x) /\ Wrap(x) = x
  <2>1. ASSUME NEW x \in ImageCells
        PROVE  FlashAddressLegal(x) /\ Wrap(x) = x
    <3>1. x \in Int /\ kImageStart <= x /\ x < kFlashEnd /\ 0 <= x /\ x < kModulus
      BY LayoutFacts, LayoutAssumption DEF ImageCells
    <3>2. Wrap(x) = x
      BY <3>1, WrapCases, LayoutAssumption
    <3>. QED
      BY <3>1, <3>2 DEF FlashAddressLegal, kImageStart, kFlashEnd
  <2>. QED
    BY <2>1
<1>4. FlashAddressRangeLegal(s * kSectorSize, kSectorSize)
  BY <1>2, <1>3, LayoutAssumption DEF FlashAddressRangeLegal
<1>5. RamRangeLegal(kIspRamStart, kSectorSize)
  <2>1. /\ kIspRamStart \in Nat /\ kIspRamEnd = kIspRamStart + kSectorSize
        /\ kIspRamEnd <= kModulus /\ kSectorSize \in Nat \ {0} /\ kModulus \in Nat
    BY LayoutFacts, LayoutAssumption DEF kIspRamEnd, kIspRamStart
  <2>2. Wrap(kIspRamStart + kSectorSize - 1) = kIspRamStart + kSectorSize - 1
    BY <2>1, WrapCases
  <2>. QED
    BY <2>1, <2>2 DEF RamRangeLegal, RamAddressLegal, Compatible
<1>. QED
  BY <1>1, <1>4, <1>5

\* A sector begins a page, and a copy of one sector spans that sector.
LEMMA SectorCopyAccepted ==
  ASSUME Compatible, NEW s \in ImageSectors, s \in prepared
  PROVE  CopyAccepted(s * kSectorSize, kSectorSize)
<1>1. (s * kSectorSize) % kPageSize = 0
  <2>1. kPageSize \in Nat \ {0} /\ kSectorSize \in Nat /\ s \in Nat
    BY SectorTypes, LayoutAssumption
  <2>2. PICK q \in Nat : kSectorSize = q * kPageSize
    <3>. DEFINE d == kSectorSize \div kPageSize
    <3>1. kSectorSize = d * kPageSize
      BY <2>1 DEF Compatible
    <3>2. d \in Nat
      BY <2>1
    <3>. HIDE DEF d
    <3>. QED
      BY <3>1, <3>2
  <2>3. s * kSectorSize = (s * q) * kPageSize /\ s * q \in Nat
    BY <2>1, <2>2
  <2>4. ASSUME NEW k \in Nat
        PROVE  (k * kPageSize) % kPageSize = 0
    <3>. DEFINE n == kPageSize
                product == k * n
    <3>1. 0 \in 0 .. n - 1 /\ n \in Nat \ {0}
      BY <2>1
    <3>2. (k * n + 0) % n = 0
      <4>. HIDE DEF n
      <4>. QED
        BY <3>1, Remainder
    <3>3. product + 0 = product
      <4>1. product \in Nat
        BY <2>1
      <4>. QED
        BY <4>1
    <3>. QED
      BY <3>2, <3>3
  <2>. QED
    BY <2>3, <2>4
<1>2. SectorsSpanned(s * kSectorSize, kSectorSize) \subseteq {s}
  BY SectorOfCell DEF SectorsSpanned, Cell, BufferIndex
<1>. QED
  BY <1>1, <1>2 DEF CopyAccepted, Compatible

\* What CV finds when every sector was written without a fault.
LEMMA CheckPasses ==
  ASSUME Compatible, UpdateInv, faults = 0, step = "CV"
  PROVE  Body \in GoodImages /\ (Asserts => LastWord = SignatureWord)
<1>1. ASSUME NEW c \in ImageCells
      PROVE  flash[c] = Image[c]
  <2>1. PICK s \in ImageSectors, i \in BufferIndex : c = Cell(s, i)
    BY CellExists
  <2>2. InFlash(s) = SectorImage(s)
    BY DEF UpdateInv, SectorInv, Written, Fits
  <2>3. InFlash(s)[i] = flash[c] /\ SectorImage(s)[i] = Image[c]
    BY <2>1 DEF InFlash, SectorImage, Cell
  <2>. QED
    BY <2>2, <2>3
<1>2. ImageBody \subseteq ImageCells
  BY LayoutFacts, LayoutAssumption DEF ImageBody, ImageCells
<1>3. \A i \in 0 .. kWordSize - 1 : kFlashEnd - kWordSize + i \in ImageCells
  BY LayoutFacts, LayoutAssumption DEF ImageCells
<1>4. Body = [c \in ImageBody |-> Image[c]]
  BY <1>1, <1>2 DEF Body
<1>5. LastWord = [i \in 0 .. kWordSize - 1 |-> Image[kFlashEnd - kWordSize + i]]
  BY <1>1, <1>3 DEF LastWord
<1>. QED
  BY <1>4, <1>5 DEF Compatible

LEMMA SmoothRequest ==
  ASSUME Compatible, AnswerInv, UpdateInv, SmoothInv, faults = 0, Request
  PROVE  SmoothInv'
<1>1. /\ pc = "idle" /\ ~transfer.open /\ sector \in ImageSectors
      /\ UNCHANGED <<step, sector, faults>>
  BY DEF Request, Dispatched, host, NoFault, UpdateInv, HostOK
<1>2. /\ FlashSectorLegal(sector)
      /\ FlashAddressRangeLegal(FlashAddress, kSectorSize)
      /\ RamRangeLegal(kIspRamStart, kSectorSize)
  BY <1>1, HostRequestsLegal DEF FlashAddress
<1>3. CASE step = "W" /\ WriteRequest(kIspRamStart, kSectorSize)
  <2>1. kSectorSize <= kTransferSize
    BY CommandAssumption DEF CommandAssumption
  <2>2. pc' = "done" /\ reply' = <<CMD_SUCCESS>> /\ transfer'.open
    BY <1>2, <1>3, <2>1 DEF WriteRequest, Answer
  <2>. QED
    BY <1>1, <1>3, <2>2 DEF SmoothInv
<1>4. CASE step \in {"P", "P2"} /\ SectorRequest("P", sector, sector)
  BY <1>1, <1>2, <1>4 DEF SectorRequest, Enter, NoCall, SmoothInv
<1>5. CASE step = "E" /\ SectorRequest("E", sector, sector)
  BY <1>1, <1>2, <1>5 DEF SectorRequest, Enter, NoCall, SmoothInv, romVars
<1>6. CASE step = "C" /\ RangeRequest("C", FlashAddress, kIspRamStart, kSectorSize)
  BY <1>1, <1>2, <1>6 DEF RangeRequest, Enter, NoCall, SmoothInv, romVars
<1>7. CASE step = "CV" /\ ImageIsValid
  <2>1. Body \in GoodImages /\ (Asserts => LastWord = SignatureWord)
    BY <1>7, CheckPasses
  <2>2. pc' = "close" /\ status' = kStatus_Success
    BY <1>7, <2>1 DEF ImageIsValid, Body, CMD_SUCCESS, kStatus_Success
  <2>. QED
    BY <1>1, <1>7, <2>2 DEF SmoothInv
<1>. QED
  BY <1>3, <1>4, <1>5, <1>6, <1>7 DEF Request

LEMMA SmoothRom ==
  ASSUME Compatible, IInv, UpdateInv, SmoothInv, faults = 0, DeviceWorks
  PROVE  SmoothInv'
<1>1. /\ pc = "iap" /\ pc' = "close" /\ sector \in ImageSectors
      /\ UNCHANGED <<step, sector, faults>>
  BY RomCallOver DEF DeviceWorks, host, NoFault, UpdateInv, HostOK
<1>2. Servable
  <2>1. InIap("E") => EraseAccepted(call.a, call.b)
    <3>1. InIap("E") => step = "E"
      BY <1>1 DEF InIap, UpdateInv, InStep
    <3>2. InIap("E") => call.a = sector /\ call.b = sector /\ sector \in prepared
      BY <1>1, <3>1 DEF InIap, UpdateInv, InStep, SmoothInv
    <3>3. sector <= sector /\ sector .. sector = {sector}
      BY <1>1, SectorTypes
    <3>. QED
      BY <3>2, <3>3 DEF EraseAccepted
  <2>2. InIap("C") => CopyAccepted(call.a, call.n)
    <3>1. InIap("C") => step = "C"
      BY <1>1 DEF InIap, UpdateInv, InStep
    <3>2. InIap("C") => /\ call.a = FlashAddress /\ call.n = kSectorSize
                        /\ sector \in prepared
      BY <1>1, <3>1 DEF InIap, UpdateInv, InStep, SmoothInv
    <3>. QED
      BY <1>1, <3>2, SectorCopyAccepted DEF FlashAddress
  <2>. QED
    BY <2>1, <2>2 DEF Servable
<1>3. status' = kStatus_Success
  BY <1>2 DEF DeviceWorks
<1>4. step \in {"P", "P2"} => sector \in prepared'
  <2>1. ASSUME step \in {"P", "P2"}
        PROVE  sector \in prepared'
    <3>1. call.a = sector /\ call.b = sector /\ RomPrepare
      BY <1>1, <2>1, RomCallOver DEF SmoothInv, DeviceWorks, Rom
    <3>2. prepared' = prepared \cup (sector .. sector)
      BY <1>3, <3>1, FailureIsNoSuccess
      DEF RomPrepare, IAP_PrepareSectorForWrite, IapRefuses, Returned
    <3>. QED
      BY <1>1, <3>2, SectorTypes
  <2>. QED
    BY <2>1
<1>. QED
  BY <1>1, <1>3, <1>4 DEF SmoothInv

LEMMA SmoothAnswer ==
  ASSUME AnswerInv, UpdateInv, SmoothInv, faults = 0, DeviceAnswers
  PROVE  SmoothInv'
<1>1. /\ pc = "close" /\ pc' = "done" /\ status = kStatus_Success
      /\ step \in {"P", "P2", "E", "C", "CV"}
      /\ UNCHANGED <<step, sector, faults, prepared>>
  <2>1. pc = "close" /\ step \in {"P", "P2", "E", "C", "CV"} /\ call.op # "R"
    BY DEF DeviceAnswers, Leave, UpdateInv, InStep
  <2>. QED
    BY <2>1 DEF DeviceAnswers, Leave, Answer, romVars, host, NoFault, SmoothInv
<1>2. reply' = <<CMD_SUCCESS>>
  <2>1. call.op # "R"
    BY <1>1 DEF UpdateInv, InStep
  <2>. QED
    BY <1>1, <2>1
    DEF DeviceAnswers, Leave, Answer, TranslateStatus, CMD_SUCCESS, kStatus_Success
<1>. QED
  BY <1>1, <1>2 DEF SmoothInv

\* The host goes on, and only ever forward.
LEMMA SmoothAdvance ==
  ASSUME UpdateInv, SmoothInv, faults = 0, ReadAnswer
  PROVE  SmoothInv'
<1>1. /\ pc = "done" /\ pc' = "idle" /\ Advance
      /\ UNCHANGED <<faults, transfer, prepared>>
  BY DEF ReadAnswer, Return, NoFault, romVars, deviceVars, SmoothInv
<1>2. /\ step' = "data" => transfer.open
      /\ step' \in {"E", "C"} => sector' = sector /\ sector \in prepared
  BY <1>1 DEF Advance, Following, SmoothInv
<1>. QED
  BY <1>1, <1>2 DEF SmoothInv

LEMMA SmoothStep ==
  ASSUME Compatible, IInv, AnswerInv, UpdateInv, SmoothInv, [UpdateNext]_updateVars
  PROVE  SmoothInv'
<1>1. CASE RomFails \/ DataLost \/ PowerLost \/ faults # 0
  <2>1. HostOK /\ faults' \in {faults, faults + 1}
    BY HostKeepsPlace DEF UpdateInv
  <2>2. faults' # 0
    BY <1>1, <2>1 DEF RomFails, DataLost, PowerLost, Fault, HostOK
  <2>. QED
    BY <2>2 DEF SmoothInv
<1>2. CASE SendData /\ faults = 0
  <2>1. step = "data" /\ pc' = "store" /\ UNCHANGED <<step, sector, faults>>
    BY <1>2 DEF SendData, FinishTransfer, UpdateInv, InStep, host, NoFault
  <2>. QED
    BY <2>1 DEF SmoothInv
<1>3. CASE DeviceStores /\ faults = 0
  <2>1. /\ step = "data" /\ pc' = "done" /\ reply' = <<OkLine>>
        /\ UNCHANGED <<step, sector, faults>>
    BY <1>3, StoreEnds
  <2>. QED
    BY <2>1 DEF SmoothInv
<1>4. CASE UNCHANGED updateVars
  BY <1>4 DEF updateVars, vars, host, SmoothInv
<1>. QED
  BY <1>1, <1>2, <1>3, <1>4, SmoothRequest, SmoothRom, SmoothAnswer, SmoothAdvance
  DEF UpdateNext, GoesWell, Updated

\* An update may begin anew in any state that an earlier attempt leaves, at the
\* latest when the device waits for a command again.
THEOREM AlwaysRestartable == UpdateSpec => [](Dispatched => Restartable)
<1>1. IInv /\ AnswerInv /\ UpdateInv => (Dispatched => Restartable)
  BY DEF UpdateInv, RamInv, Restartable
<1>. QED
  BY <1>1, UpdateInvariant, PTL

\* From any such state on, an update that meets no further fault has every one
\* of its requests accepted by the handlers and carried out by the ROM: the
\* legality checks leave out no sector of the image, the last one included, and
\* nothing that is still prepared, half erased or in buffer_ is in the way.
THEOREM UpdateIsAccepted ==
  ASSUME Compatible
  PROVE  AttemptSpec => []NothingRefused
<1>1. ASSUME AttemptInit
      PROVE  IInv /\ AnswerInv /\ UpdateInv /\ SmoothInv
  <2>1. HostOK
    BY <1>1, SectorTypes DEF AttemptInit, HostOK
  <2>2. pc = "idle" /\ ~transfer.open /\ step = "W" /\ ~Succeeded
    BY <1>1 DEF AttemptInit, Restartable, Dispatched, Succeeded
  <2>3. \A s \in ImageSectors : ~(s < sector)
    BY <1>1, SectorBounds, SectorTypes DEF AttemptInit
  <2>4. UpdateInv
    BY <1>1, <2>1, <2>2, <2>3
    DEF AttemptInit, Restartable, UpdateInv, InStep, RamInv, SectorInv, BodyInv
  <2>. QED
    BY <1>1, <2>2, <2>4 DEF AttemptInit, Restartable, SmoothInv
<1>2. ASSUME IInv, AnswerInv, UpdateInv, SmoothInv, [UpdateNext]_updateVars
      PROVE  IInv' /\ AnswerInv' /\ UpdateInv' /\ SmoothInv'
  <2>1. [Next]_vars
    BY <1>2, UpdateStepsAreCommandSteps DEF UpdateInv
  <2>2. IInv' /\ AnswerInv'
    BY <1>2, <2>1, StepPreserves, StepKeepsAnswers
  <2>. QED
    BY <1>2, <2>2, UpdateStepPreserves, SmoothStep
<1>3. SmoothInv => NothingRefused
  BY DEF SmoothInv, NothingRefused
<1>. QED
  BY <1>1, <1>2, <1>3, PTL DEF AttemptSpec

=============================================================================
