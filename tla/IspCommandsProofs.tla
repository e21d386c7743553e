------------------------- MODULE IspCommandsProofs -------------------------
(***************************************************************************)
(* The command loop for every layout, every set of numbers the host may    *)
(* send and every set of ROM errors.                                       *)
(*                                                                         *)
(* TypeOK is not inductive: the ROM is called in a step of its own, with   *)
(* operands that an earlier step checked, so the invariant has to carry    *)
(* what was checked (CallLegal, TransferLegal) to the step that uses it.   *)
(***************************************************************************)
EXTENDS IspCommands, MemoryMapProofs

\* What the legality checks established about the request being worked on.
CallLegal ==
  /\ call.op \in {"P", "E", "I"} => FlashSectorLegal(call.a) /\ FlashSectorLegal(call.b)
  /\ call.op \in {"C", "M"} => /\ FlashAddressRangeLegal(call.a, call.n)
                               /\ RamRangeLegal(call.b, call.n)
  /\ call.op = "R" /\ pc \in {"next", "iap", "close"} =>
       FlashAddressRangeLegal(call.a, call.b) /\ Len(buff) <= call.b
  /\ call.op = "R" /\ pc \in {"next", "iap"} => Len(buff) < call.b

\* Between commands nothing has been read yet.
IdleBuffEmpty == pc = "idle" => buff = <<>>

\* The request of a W stays checked until its data is stored.
TransferLegal ==
  transfer.open \/ pc = "store" => RamRangeLegal(transfer.start, transfer.length)

IInv ==
  /\ TypeOK
  /\ CallLegal
  /\ TransferLegal
  /\ IdleBuffEmpty
  /\ PreparedInImage
  /\ InterruptsRestored
  /\ OnlySignatureAsserts
  /\ pc = "iap" => masked

-----------------------------------------------------------------------------
(* Pointers into buffer_.                                                  *)

\* Offsets inside a legal RAM range do not wrap and stay in the window.
LEMMA RamOffsets ==
  ASSUME NEW start \in Uint, NEW length \in Uint, RamRangeLegal(start, length),
         NEW i \in 0 .. length - 1
  PROVE  /\ Wrap(start + i) = start + i
         /\ start + i \in Uint
         /\ RamAddressLegal(start + i)
<1>1. length > 0 /\ i \in Int /\ 0 <= i /\ i < length
  BY DEF Uint
<1>2. kIspRamStart <= start /\ start + length <= kIspRamEnd
  BY <1>1, RamRangeBounds
<1>3. start + i \in Uint
  BY <1>1, <1>2, LayoutFacts, LayoutAssumption DEF Uint
<1>4. Wrap(start + i) = start + i
  BY <1>3, WrapCases, LayoutAssumption DEF Uint
<1>5. RamAddressLegal(start + i)
  BY <1>1, <1>2, LayoutFacts DEF RamAddressLegal, Uint
<1>. QED
  BY <1>3, <1>4, <1>5

\* The loops of ReadMemory and WriteToRam never trip the assert of GetRamPtr.
LEMMA PointersAreLegal ==
  ASSUME NEW start \in Uint, NEW length \in Uint, RamRangeLegal(start, length)
  PROVE  PointersLegal(start, length)
  BY RamOffsets DEF PointersLegal

\* The ROM is given a pointer to length bytes of buffer_.
LEMMA SourceInBuffer ==
  ASSUME NEW start \in Uint, NEW length \in Uint, RamRangeLegal(start, length),
         NEW i \in 0 .. length - 1
  PROVE  GetRamPtr(start) + i \in BufferIndex
<1>1. GetRamPtr(start + i) \in BufferIndex
  BY RamOffsets, RamPointerInBuffer
<1>2. GetRamPtr(start + i) = GetRamPtr(start) + i
  BY LayoutAssumption DEF GetRamPtr, Uint
<1>. QED
  BY <1>1, <1>2

\* So the bytes of the source are bytes.
LEMMA SourceType ==
  ASSUME ram \in [BufferIndex -> Byte],
         NEW start \in Uint, NEW length \in Uint, RamRangeLegal(start, length)
  PROVE  IapSource(start, length) \in [0 .. length - 1 -> Byte]
  BY SourceInBuffer DEF IapSource

-----------------------------------------------------------------------------
(* The invariant is preserved, by groups of actions.                       *)

LEMMA ConstantTypes ==
  /\ 0 \in Uint
  /\ NoCall \in Requests
  /\ NoTransfer \in Transfers
  /\ Sectors \subseteq Int
  /\ kStatus_Success \in IapStatus
  /\ Numbers \subseteq Uint
<1>1. 0 \in Uint
  BY LayoutAssumption DEF Uint
<1>2. NoCall \in Requests /\ NoTransfer \in Transfers
  BY <1>1 DEF NoCall, Requests, NoTransfer, Transfers
<1>3. Sectors \subseteq Int /\ kStatus_Success \in IapStatus
  BY DEF Sectors, IapStatus
<1>. QED
  BY <1>1, <1>2, <1>3, CommandAssumption

\* A handler that only answers.
LEMMA AnswerPreserves ==
  ASSUME IInv, Dispatched, pc' = "done", UNCHANGED <<romVars, deviceVars, callVars>>
  PROVE  IInv'
  BY DEF IInv, Dispatched, romVars, deviceVars, callVars,
         TypeOK, CallLegal, TransferLegal, IdleBuffEmpty, PreparedInImage,
         InterruptsRestored,
         OnlySignatureAsserts

\* A reset leaves nothing of the request and nothing prepared.
LEMMA RestartPreserves ==
  ASSUME IInv, Restart, flash' \in [FlashCells -> Byte]
  PROVE  IInv'
<1>1. TypeOK'
  <2>1. ram' \in [BufferIndex -> Byte]
    BY CommandAssumption DEF Restart
  <2>2. prepared' \subseteq Sectors /\ status' \in IapStatus /\ buff' \in Seq(Byte)
    BY ConstantTypes DEF Restart
  <2>. QED
    BY <2>1, <2>2, ConstantTypes DEF Restart, TypeOK
<1>2. call'.op = "none" /\ ~transfer'.open
  BY DEF Restart, NoCall, NoTransfer
<1>. QED
  BY <1>1, <1>2
  DEF IInv, Restart, CallLegal, TransferLegal, IdleBuffEmpty, PreparedInImage,
      InterruptsRestored, OnlySignatureAsserts

\* A masked section opens with the operands the predicates accepted.
LEMMA EnterPreserves ==
  ASSUME IInv, Dispatched,
         NEW op \in {"P", "E", "I", "C", "M"},
         NEW a \in Numbers, NEW b \in Numbers, NEW n \in Numbers \cup {0},
         op \in {"P", "E", "I"} => FlashSectorLegal(a) /\ FlashSectorLegal(b),
         op \in {"C", "M"} => FlashAddressRangeLegal(a, n) /\ RamRangeLegal(b, n),
         Enter(op, a, b, n)
  PROVE  IInv'
<1>1. /\ call' \in Requests
      /\ call'.op = op /\ call'.a = a /\ call'.b = b /\ call'.n = n
  BY ConstantTypes DEF Enter, NoCall, Requests
<1>. QED
  BY <1>1
  DEF IInv, Dispatched, Enter, OpenFlashInteraction, romVars, TypeOK, CallLegal,
      TransferLegal, IdleBuffEmpty, PreparedInImage, InterruptsRestored,
      OnlySignatureAsserts

\* The ROM comes back with a status, having done what it may do.
LEMMA ReturnedPreserves ==
  ASSUME IInv, NEW op \in {"P", "E", "I", "C", "M"}, InIap(op),
         NEW s \in IapStatus, Returned(s),
         flash' \in [FlashCells -> Byte],
         prepared' \subseteq Sectors,
         prepared' \subseteq kImageSectorStart .. kSectorCount - 1
  PROVE  IInv'
  BY DEF IInv, InIap, Returned, deviceVars, TypeOK, CallLegal, TransferLegal,
         IdleBuffEmpty,
         PreparedInImage, InterruptsRestored, OnlySignatureAsserts

\* Commands that change one variable of the program, or none.
LEMMA PlainCommandsPreserve ==
  ASSUME IInv,
         \/ WrongArgCount \/ Unlock \/ SetBaudRate \/ Echo \/ PrintError
         \/ ErasePages \/ EnterIsp \/ ReadCRC
         \/ ReadPartID \/ ReadBootCodeVersion \/ ReadUID \/ ReadFlashSig
  PROVE  IInv'
<1>1. CASE WrongArgCount \/ Echo \/ PrintError \/ ErasePages \/ ReadCRC
  BY <1>1, AnswerPreserves
  DEF WrongArgCount, Echo, PrintError, ErasePages, ReadCRC, OnlyAnswer, Answer
<1>2. CASE Unlock
  BY <1>2
  DEF Unlock, IInv, Dispatched, Answer, romVars, callVars, TypeOK, CallLegal,
      TransferLegal, IdleBuffEmpty, PreparedInImage, InterruptsRestored,
      OnlySignatureAsserts
<1>3. CASE SetBaudRate
  <2>1. call' \in Requests /\ call'.op = "B"
    <3>1. PICK baudrate \in Numbers, stop_bits \in Numbers \cup {1} :
            call' = [NoCall EXCEPT !.op = "B", !.a = baudrate, !.b = stop_bits]
      BY <1>3 DEF SetBaudRate
    <3>2. 1 \in Uint
      BY LayoutAssumption DEF Uint
    <3>. QED
      BY <3>1, <3>2, ConstantTypes DEF NoCall, Requests
  <2>. QED
    BY <1>3, <2>1
    DEF SetBaudRate, IInv, Dispatched, Answer, romVars, deviceVars, TypeOK,
        CallLegal,
        TransferLegal, IdleBuffEmpty, PreparedInImage, InterruptsRestored,
        OnlySignatureAsserts
<1>4. CASE EnterIsp
  <2>1. call' \in Requests /\ call'.op = "isp" /\ pc' = "isp"
    BY <1>4, ConstantTypes DEF EnterIsp, NoCall, Requests
  <2>. QED
    BY <1>4, <2>1
    DEF EnterIsp, IInv, Dispatched, romVars, deviceVars, TypeOK, CallLegal,
        TransferLegal, IdleBuffEmpty, PreparedInImage, InterruptsRestored,
        OnlySignatureAsserts
<1>5. CASE ReadPartID \/ ReadBootCodeVersion \/ ReadFlashSig
  BY <1>5, AnswerPreserves
  DEF ReadPartID, ReadBootCodeVersion, ReadFlashSig, IapReads, Answer
<1>6. CASE ReadUID
  <2>1. call' \in Requests /\ call'.op = "N"
    BY <1>6, ConstantTypes DEF ReadUID, NoCall, Requests
  <2>. QED
    BY <1>6, <2>1
    DEF ReadUID, IapReads, IInv, Dispatched, Answer, romVars, deviceVars, TypeOK,
        CallLegal, TransferLegal, IdleBuffEmpty, PreparedInImage,
        InterruptsRestored,
        OnlySignatureAsserts
<1>. QED
  BY <1>1, <1>2, <1>3, <1>4, <1>5, <1>6

\* W, and the end of its transfer.
LEMMA TransferPreserves ==
  ASSUME IInv, WriteToRamRequest \/ FinishTransfer \/ StoreTransfer \/ AbandonTransfer
  PROVE  IInv'
<1>1. CASE WriteToRamRequest
  <2>1. PICK start \in Numbers, length \in Numbers :
          /\ pc' = "done"
          /\ IF RamRangeLegal(start, length)
             THEN transfer' \in {[start |-> start, length |-> length, open |-> TRUE], transfer}
             ELSE transfer' = transfer
    BY <1>1 DEF WriteToRamRequest, WriteRequest, Answer
  <2>2. transfer' \in Transfers /\ TransferLegal'
    <3>1. CASE transfer' = transfer
      BY <1>1, <2>1, <3>1 DEF IInv, TypeOK, TransferLegal, WriteToRamRequest, Dispatched
    <3>2. CASE /\ transfer' = [start |-> start, length |-> length, open |-> TRUE]
               /\ RamRangeLegal(start, length)
      <4>1. start \in Uint /\ length \in Uint
        BY ConstantTypes
      <4>2. transfer' \in Transfers
        BY <3>2, <4>1 DEF Transfers
      <4>3. transfer'.start = start /\ transfer'.length = length
        BY <3>2
      <4>. QED
        BY <3>2, <4>2, <4>3 DEF TransferLegal
    <3>. QED
      BY <2>1, <3>1, <3>2
  <2>. QED
    BY <1>1, <2>1, <2>2
    DEF WriteToRamRequest, WriteRequest, IInv, Dispatched, romVars, callVars, TypeOK,
        CallLegal, IdleBuffEmpty, PreparedInImage, InterruptsRestored,
        OnlySignatureAsserts
<1>2. CASE FinishTransfer
  BY <1>2
  DEF FinishTransfer, IInv, romVars, deviceVars, callVars, TypeOK, CallLegal,
      TransferLegal, IdleBuffEmpty, PreparedInImage, InterruptsRestored,
      OnlySignatureAsserts
<1>3. CASE StoreTransfer
  <2>. DEFINE s == transfer.start
              n == transfer.length
  <2>1. s \in Uint /\ n \in Uint /\ RamRangeLegal(s, n)
    BY <1>3 DEF StoreTransfer, IInv, TypeOK, Transfers, TransferLegal
  <2>2. PointersLegal(s, n)
    BY <2>1, PointersAreLegal
  <2>3. PICK data \in [0 .. n - 1 -> Byte] :
          ram' = [k \in BufferIndex |->
                    IF k \in {RamIndex(s, i) : i \in DOMAIN data}
                    THEN data[k - RamIndex(s, 0)] ELSE ram[k]]
    BY <1>3, <2>2 DEF StoreTransfer
  <2>4. ASSUME NEW i \in 0 .. n - 1
        PROVE  RamIndex(s, i) - RamIndex(s, 0) = i
    <3>1. 0 \in 0 .. n - 1
      BY <2>1 DEF Uint
    <3>2. Wrap(s + i) = s + i /\ Wrap(s + 0) = s + 0
      BY <2>1, <3>1, RamOffsets
    <3>3. i \in Int /\ s \in Int
      BY <2>1 DEF Uint
    <3>. QED
      BY <3>2, <3>3, LayoutAssumption DEF RamIndex, GetRamPtr
  <2>5. ram' \in [BufferIndex -> Byte]
    <3>1. ASSUME NEW k \in BufferIndex, k \in {RamIndex(s, i) : i \in 0 .. n - 1}
          PROVE  data[k - RamIndex(s, 0)] \in Byte
      <4>1. PICK i \in 0 .. n - 1 : k = RamIndex(s, i)
        BY <3>1
      <4>. QED
        BY <4>1, <2>3, <2>4
    <3>. QED
      BY <2>3, <3>1 DEF IInv, TypeOK
  <2>6. pc' = "done" /\ ~transfer'.open /\ transfer' \in Transfers
    <3>1. pc' = "done" /\ transfer' = NoTransfer
      BY <1>3, <2>2, Zenon DEF StoreTransfer
    <3>. QED
      BY <3>1, ConstantTypes DEF NoTransfer
  <2>7. pc = "store" /\ UNCHANGED <<flash, prepared, masked, locked, call, status, buff>>
    BY <1>3 DEF StoreTransfer, romVars, callVars
  <2>8. TypeOK'
    BY <2>5, <2>6, <2>7 DEF IInv, TypeOK
  <2>9. CallLegal' /\ TransferLegal'
    BY <2>6, <2>7 DEF IInv, CallLegal, TransferLegal
  <2>. QED
    BY <2>6, <2>7, <2>8, <2>9
    DEF IInv, IdleBuffEmpty, PreparedInImage, InterruptsRestored, OnlySignatureAsserts
<1>4. CASE AbandonTransfer
  <2>1. ~transfer'.open /\ transfer' \in Transfers
    BY <1>4, ConstantTypes DEF AbandonTransfer, NoTransfer
  <2>. QED
    BY <1>4, <2>1
    DEF AbandonTransfer, Answer, IInv, romVars, callVars, TypeOK, CallLegal,
        TransferLegal, IdleBuffEmpty, PreparedInImage, InterruptsRestored,
        OnlySignatureAsserts
<1>. QED
  BY <1>1, <1>2, <1>3, <1>4

\* R: the RAM case in one go, the flash case up to its first byte.
LEMMA ReadMemoryPreserves ==
  ASSUME IInv, ReadMemory
  PROVE  IInv'
<1>1. PICK start \in Numbers, length \in Numbers :
        IF RamRangeLegal(start, length) THEN ReadRam(start, length)
        ELSE IF FlashAddressRangeLegal(start, length) THEN ReadFlash(start, length)
        ELSE Answer(<<DataLine, ADDR_ERROR>>) /\ UNCHANGED <<call, buff>>
  BY DEF ReadMemory
<1>2. start \in Uint /\ length \in Uint
  BY ConstantTypes
<1>3. Dispatched /\ UNCHANGED <<romVars, deviceVars, status>>
  BY DEF ReadMemory
<1>4. CASE RamRangeLegal(start, length)
  <2>1. PointersLegal(start, length)
    BY <1>2, <1>4, PointersAreLegal
  <2>2. pc' = "done" /\ buff' = RamBytes(start, length)
    BY <1>1, <1>4, <2>1 DEF ReadRam, Answer
  <2>3. buff' \in Seq(Byte)
    <3>1. ASSUME NEW k \in 1 .. length
          PROVE  ram[RamIndex(start, k - 1)] \in Byte
      <4>1. k - 1 \in 0 .. length - 1
        BY <1>2 DEF Uint
      <4>2. RamIndex(start, k - 1) \in BufferIndex
        BY <1>2, <1>4, <4>1, RamOffsets, RamPointerInBuffer DEF RamIndex
      <4>. QED
        BY <4>2 DEF IInv, TypeOK
    <3>2. length \in Nat
      BY <1>2 DEF Uint
    <3>. QED
      BY <2>2, <3>1, <3>2 DEF RamBytes
  <2>4. call' \in Requests /\ call'.op = "R"
    BY <1>1, <1>2, <1>4, ConstantTypes DEF ReadRam, NoCall, Requests
  <2>. QED
    BY <1>3, <2>2, <2>3, <2>4
    DEF IInv, Dispatched, romVars, deviceVars, TypeOK, CallLegal, TransferLegal,
        IdleBuffEmpty,
        PreparedInImage, InterruptsRestored, OnlySignatureAsserts
<1>5. CASE ~RamRangeLegal(start, length) /\ FlashAddressRangeLegal(start, length)
  <2>1. ReadFlash(start, length)
    BY <1>1, <1>5
  <2>2. /\ call' \in Requests /\ call'.op = "R"
        /\ call'.a = start /\ call'.b = length
    BY <1>2, <2>1, ConstantTypes DEF ReadFlash, NoCall, Requests
  <2>3. CASE length = 0
    BY <1>3, <2>1, <2>2, <2>3
    DEF ReadFlash, Answer, IInv, Dispatched, romVars, deviceVars, TypeOK, CallLegal,
        TransferLegal, IdleBuffEmpty, PreparedInImage, InterruptsRestored,
        OnlySignatureAsserts
  <2>4. CASE length # 0
    <3>1. pc' = "next" /\ buff' = buff
      BY <2>1, <2>4 DEF ReadFlash
    <3>2. Len(buff) = 0
      BY <1>3 DEF IInv, Dispatched, IdleBuffEmpty
    <3>3. length > 0
      BY <1>2, <2>4 DEF Uint
    <3>4. Len(buff') = 0 /\ Len(buff') <= call'.b /\ Len(buff') < call'.b
      BY <1>2, <2>2, <3>1, <3>2, <3>3 DEF Uint
    <3>5. CallLegal'
      BY <1>5, <2>2, <3>4 DEF CallLegal
    <3>. QED
      BY <1>3, <2>2, <3>1, <3>5
      DEF IInv, Dispatched, romVars, deviceVars, TypeOK, CallLegal,
          TransferLegal, IdleBuffEmpty, PreparedInImage, InterruptsRestored,
          OnlySignatureAsserts
  <2>. QED
    BY <2>3, <2>4
<1>6. CASE ~RamRangeLegal(start, length) /\ ~FlashAddressRangeLegal(start, length)
  BY <1>1, <1>3, <1>6, AnswerPreserves DEF Answer, callVars
<1>. QED
  BY <1>4, <1>5, <1>6

\* The commands that open the section.
LEMMA OpeningPreserves ==
  ASSUME IInv,
         \/ PrepSectorsForWrite \/ EraseSector \/ BlankSectorCheck
         \/ CopyRAMToFlash \/ MemoryLocationsEqual
  PROVE  IInv'
<1>1. ASSUME NEW op \in {"P", "E", "I"}, SectorCommand(op)
      PROVE  IInv'
  BY <1>1, AnswerPreserves, EnterPreserves DEF SectorCommand, SectorRequest, OnlyAnswer, Answer
<1>2. ASSUME NEW op \in {"C", "M"}, RangeCommand(op)
      PROVE  IInv'
  BY <1>2, AnswerPreserves, EnterPreserves DEF RangeCommand, RangeRequest, OnlyAnswer, Answer
<1>. QED
  BY <1>1, <1>2
  DEF PrepSectorsForWrite, EraseSector, BlankSectorCheck, CopyRAMToFlash,
      MemoryLocationsEqual

\* What the ROM does to the array keeps its type, and a prepare that follows
\* the sector check prepares sectors of the image only.
LEMMA RomStepsPreserve ==
  ASSUME IInv,
         RomPrepare \/ RomErase \/ RomCopy \/ RomBlankCheck \/ RomCompare
  PROVE  IInv'
<1>. USE DEF IapRefuses, romVars
<1>1. CASE RomPrepare
  <2>1. PICK s \in IapStatus :
          IAP_PrepareSectorForWrite(call.a, call.b, s) /\ Returned(s)
    BY <1>1 DEF RomPrepare
  <2>2. /\ FlashSectorLegal(call.a) /\ FlashSectorLegal(call.b)
        /\ call.a \in Int /\ call.b \in Int
    BY <1>1 DEF RomPrepare, InIap, IInv, CallLegal, TypeOK, Requests, Uint
  <2>3. call.a .. call.b \subseteq kImageSectorStart .. kSectorCount - 1
    BY <2>2, LayoutAssumption DEF FlashSectorLegal
  <2>4. /\ flash' = flash
        /\ prepared' \subseteq kImageSectorStart .. kSectorCount - 1
    BY <2>1, <2>3 DEF IAP_PrepareSectorForWrite, IInv, PreparedInImage
  <2>5. prepared' \subseteq Sectors
    BY <2>4, LayoutAssumption DEF Sectors
  <2>. QED
    BY <1>1, <2>1, <2>4, <2>5, ReturnedPreserves DEF RomPrepare, IInv, TypeOK
<1>2. CASE RomErase
  <2>1. PICK s \in IapStatus : IAP_EraseSector(call.a, call.b, s) /\ Returned(s)
    BY <1>2 DEF RomErase
  <2>2. flash' \in [FlashCells -> Byte]
    BY <2>1, RomAssumption DEF IAP_EraseSector, IInv, TypeOK
  <2>3. prepared' \subseteq prepared
    BY <2>1 DEF IAP_EraseSector
  <2>. QED
    BY <1>2, <2>1, <2>2, <2>3, ReturnedPreserves
    DEF RomErase, IInv, TypeOK, PreparedInImage
<1>3. CASE RomCopy
  <2>1. PICK s \in IapStatus :
          /\ IAP_CopyRamToFlash(call.a, IapSource(call.b, call.n), call.n, s)
          /\ Returned(s)
    BY <1>3 DEF RomCopy
  <2>2. call.a \in Uint /\ call.b \in Uint /\ call.n \in Uint /\ RamRangeLegal(call.b, call.n)
    BY <1>3 DEF RomCopy, InIap, IInv, CallLegal, TypeOK, Requests
  <2>3. flash' \in [FlashCells -> Byte]
    <3>1. IapSource(call.b, call.n) \in [0 .. call.n - 1 -> Byte]
      BY <2>2, SourceType DEF IInv, TypeOK
    <3>. DEFINE source == IapSource(call.b, call.n)
    <3>2. CASE flash' = flash
      BY <3>2 DEF IInv, TypeOK
    <3>3. CASE \E muddle \in [0 .. call.n - 1 -> Byte] :
                 flash' = [c \in FlashCells |->
                      IF c \notin call.a .. call.a + call.n - 1 THEN flash[c]
                      ELSE IF flash[c] = ErasedByte THEN source[c - call.a]
                      ELSE muddle[c - call.a]]
      <4>1. PICK muddle \in [0 .. call.n - 1 -> Byte] :
                 flash' = [c \in FlashCells |->
                      IF c \notin call.a .. call.a + call.n - 1 THEN flash[c]
                      ELSE IF flash[c] = ErasedByte THEN source[c - call.a]
                      ELSE muddle[c - call.a]]
        BY <3>3
      <4>2. ASSUME NEW c \in FlashCells, c \in call.a .. call.a + call.n - 1
            PROVE  c - call.a \in 0 .. call.n - 1
        BY <2>2, <4>2 DEF Uint
      <4>3. source \in [0 .. call.n - 1 -> Byte]
        BY <3>1
      <4>. HIDE DEF source
      <4>. QED
        BY <4>1, <4>2, <4>3 DEF IInv, TypeOK
    <3>. QED
      BY <2>1, <3>2, <3>3 DEF IAP_CopyRamToFlash
  <2>4. prepared' \subseteq prepared
    BY <2>1 DEF IAP_CopyRamToFlash
  <2>. QED
    BY <1>3, <2>1, <2>3, <2>4, ReturnedPreserves
    DEF RomCopy, IInv, TypeOK, PreparedInImage
<1>4. CASE RomBlankCheck \/ RomCompare
  BY <1>4, ReturnedPreserves
  DEF RomBlankCheck, RomCompare, IAP_BlankCheckSector, IAP_Compare, IInv, TypeOK,
      PreparedInImage
<1>. QED
  BY <1>1, <1>2, <1>3, <1>4

\* The flash loop of R reads inside the image and at most length bytes.
LEMMA ReadByteInImage ==
  ASSUME IInv, InIap("R")
  PROVE  /\ Len(buff) \in Nat /\ Len(buff) < call.b /\ call.b \in Uint /\ call.a \in Uint
         /\ Wrap(call.a + Len(buff)) = call.a + Len(buff)
         /\ call.a + Len(buff) \in ImageCells
<1>1. /\ call.a \in Uint /\ call.b \in Uint /\ buff \in Seq(Byte)
      /\ FlashAddressRangeLegal(call.a, call.b) /\ Len(buff) < call.b
  BY DEF IInv, TypeOK, Requests, InIap, CallLegal
<1>2. Len(buff) \in Nat /\ call.b > 0
  BY <1>1 DEF Uint
<1>3. kImageStart <= call.a /\ call.a + call.b <= kFlashEnd
  BY <1>1, <1>2, FlashRangeBounds
<1>4. call.a + Len(buff) \in ImageCells
  BY <1>1, <1>2, <1>3, LayoutFacts DEF ImageCells, Uint
<1>5. Wrap(call.a + Len(buff)) = call.a + Len(buff)
  BY <1>4, WrapCases, LayoutFacts, LayoutAssumption DEF ImageCells
<1>. QED
  BY <1>1, <1>2, <1>4, <1>5

\* The steps of a handler outside the ROM.
LEMMA HandlerStepsPreserve ==
  ASSUME IInv, ImageIsValid \/ ReadByte \/ NextByte \/ Leave \/ Return
  PROVE  IInv'
<1>. USE DEF IInv, romVars, deviceVars, callVars, TransferLegal, IdleBuffEmpty,
             PreparedInImage, InterruptsRestored, OnlySignatureAsserts
<1>1. CASE ImageIsValid
  <2>1. call' \in Requests /\ call'.op = "CV"
    BY <1>1, ConstantTypes DEF ImageIsValid, NoCall, Requests
  <2>2. status' \in IapStatus \cup {USER_CODE_CHECKSUM}
    BY <1>1, ConstantTypes DEF ImageIsValid, TypeOK, CMD_SUCCESS, kStatus_Success
  <2>. QED
    BY <1>1, <2>1, <2>2
    DEF ImageIsValid, Dispatched, OpenFlashInteraction, Halt, TypeOK, CallLegal
<1>2. CASE ReadByte
  <2>1. /\ Len(buff) \in Nat /\ Len(buff) < call.b /\ call.b \in Uint
        /\ Wrap(call.a + Len(buff)) \in FlashCells
    BY <1>2, ReadByteInImage, LayoutFacts DEF ReadByte, ImageCells, FlashCells
  <2>2. buff' \in Seq(Byte) /\ Len(buff') = Len(buff) + 1
    BY <1>2, <2>1 DEF ReadByte, TypeOK
  <2>3. Len(buff') <= call.b
    BY <2>1, <2>2 DEF Uint
  <2>. QED
    BY <1>2, <2>2, <2>3 DEF ReadByte, InIap, TypeOK, CallLegal
<1>3. CASE NextByte
  BY <1>3 DEF NextByte, OpenFlashInteraction, TypeOK, CallLegal
<1>4. CASE Leave
  BY <1>4 DEF Leave, CloseFlashInteraction, Answer, TypeOK, CallLegal
<1>5. CASE Return
  <2>1. call'.op = "none" /\ call' \in Requests /\ buff' \in Seq(Byte)
    BY <1>5, ConstantTypes DEF Return, NoCall
  <2>. QED
    BY <1>5, <2>1, ConstantTypes DEF Return, TypeOK, CallLegal
<1>. QED
  BY <1>1, <1>2, <1>3, <1>4, <1>5

\* A reset on command or a power cut.
LEMMA ResetPreserves ==
  ASSUME IInv, Go \/ PowerCycle
  PROVE  IInv'
<1>1. CASE Go
  BY <1>1, RestartPreserves, AnswerPreserves DEF Go, OnlyAnswer, Answer, IInv, TypeOK
<1>2. CASE PowerCycle
  <2>1. PICK junk \in [TornCells -> Byte] :
          flash' = [c \in FlashCells |-> IF c \in TornCells THEN junk[c] ELSE flash[c]]
    BY <1>2 DEF PowerCycle
  <2>2. flash' \in [FlashCells -> Byte]
    BY <2>1 DEF IInv, TypeOK
  <2>. QED
    BY <1>2, <2>2, RestartPreserves DEF PowerCycle
<1>. QED
  BY <1>1, <1>2

-----------------------------------------------------------------------------
(* The theorems.                                                           *)

\* A step of the command loop keeps the invariant.
LEMMA StepPreserves ==
  ASSUME IInv, [Next]_vars
  PROVE  IInv'
<1>1. CASE Command
  BY <1>1, PlainCommandsPreserve, TransferPreserves, ReadMemoryPreserves,
     OpeningPreserves, HandlerStepsPreserve, ResetPreserves DEF Command
<1>2. CASE FinishTransfer \/ AbandonTransfer
  BY <1>2, TransferPreserves
<1>3. CASE Progress
  BY <1>3, RomStepsPreserve, HandlerStepsPreserve, TransferPreserves DEF Progress
<1>4. CASE PowerCycle
  BY <1>4, ResetPreserves
<1>5. CASE UNCHANGED vars
  BY <1>5
  DEF vars, IInv, TypeOK, CallLegal, TransferLegal, IdleBuffEmpty,
      PreparedInImage, InterruptsRestored, OnlySignatureAsserts
<1>. QED
  BY <1>1, <1>2, <1>3, <1>4, <1>5 DEF Next

\* The inductive invariant holds of every behaviour of the command loop.
THEOREM CommandInvariant == Spec => []IInv
<1>1. Init => IInv
  <2> SUFFICES ASSUME Init PROVE IInv
    OBVIOUS
  <2>1. ram \in [BufferIndex -> Byte] /\ flash \in [FlashCells -> Byte]
    BY CommandAssumption DEF Init
  <2>2. call.op = "none" /\ ~transfer.open /\ buff \in Seq(Byte)
    BY DEF Init, NoCall, NoTransfer
  <2>3. TypeOK
    BY <2>1, <2>2, ConstantTypes DEF Init, TypeOK
  <2>. QED
    BY <2>2, <2>3
    DEF Init, IInv, CallLegal, TransferLegal, IdleBuffEmpty, PreparedInImage,
        InterruptsRestored, OnlySignatureAsserts
<1>2. IInv /\ [Next]_vars => IInv'
  BY StepPreserves
<1>. QED
  BY <1>1, <1>2, PTL DEF Spec

\* Type correctness.
THEOREM TypesHold == Spec => []TypeOK
<1>1. IInv => TypeOK
  BY DEF IInv
<1>. QED
  BY <1>1, CommandInvariant, PTL

\* No sector of the bootloader is ever prepared for write.
THEOREM OnlyImagePrepared == Spec => []PreparedInImage
<1>1. IInv => PreparedInImage
  BY DEF IInv
<1>. QED
  BY <1>1, CommandInvariant, PTL

\* Interrupts are on whenever the shell waits or the R loop is between bytes.
THEOREM InterruptsComeBack == Spec => []InterruptsRestored
<1>1. IInv => InterruptsRestored
  BY DEF IInv
<1>. QED
  BY <1>1, CommandInvariant, PTL

\* The assert of GetRamPtr is dead code: no request makes it fail.
THEOREM PointerAssertNeverFires == Spec => []OnlySignatureAsserts
<1>1. IInv => OnlySignatureAsserts
  BY DEF IInv
<1>. QED
  BY <1>1, CommandInvariant, PTL

-----------------------------------------------------------------------------

\* A byte in a sector of the image is a byte of the image.
LEMMA ImageSectorCells ==
  ASSUME NEW start \in Int, NEW end \in Int, FlashSectorLegal(start)
  PROVE  SectorCells(start, end) \cap BootloaderCells = {}
<1> SUFFICES ASSUME NEW c \in FlashCells, SectorOf(c) \in start .. end,
                    c \in BootloaderCells
             PROVE  FALSE
  BY DEF SectorCells
<1>. DEFINE q == c \div kSectorSize
<1>1. c \in Nat /\ c < kImageSectorStart * kSectorSize
  BY LayoutFacts DEF BootloaderCells, kImageStart, FlashCells
<1>2. q \in Int /\ c >= q * kSectorSize
  BY <1>1, LayoutAssumption
<1>3. q >= kImageSectorStart
  BY <1>2, LayoutAssumption DEF SectorOf, FlashSectorLegal
<1>. HIDE DEF q
<1>4. q * kSectorSize >= kImageSectorStart * kSectorSize
  BY <1>2, <1>3, LayoutAssumption
<1>. QED
  BY <1>1, <1>2, <1>4, LayoutAssumption

\* A legal copy does not reach the bootloader either.
LEMMA ImageCopyCells ==
  ASSUME NEW address \in Uint, NEW length \in Uint,
         FlashAddressRangeLegal(address, length)
  PROVE  (address .. address + length - 1) \cap BootloaderCells = {}
<1> SUFFICES ASSUME NEW c \in address .. address + length - 1, c \in BootloaderCells
             PROVE  FALSE
  OBVIOUS
<1>1. address >= kImageStart
  BY DEF FlashAddressRangeLegal, FlashAddressLegal, kImageStart
<1>. QED
  BY <1>1, LayoutFacts DEF BootloaderCells, Uint

\* Only an erase, a copy or a power cut changes the flash array.
LEMMA OnlyRomAndPowerChangeFlash ==
  ASSUME [Next]_vars
  PROVE  RomErase \/ RomCopy \/ PowerCycle \/ UNCHANGED flash
<1>. USE DEF romVars
<1>1. CASE Command
  <2>1. UNCHANGED flash
    <3>1. CASE \/ WrongArgCount \/ Unlock \/ SetBaudRate \/ Echo \/ PrintError
               \/ ErasePages \/ EnterIsp \/ WriteToRamRequest \/ ImageIsValid
      BY <3>1
      DEF WrongArgCount, Unlock, SetBaudRate, Echo, PrintError, ErasePages, EnterIsp,
          WriteToRamRequest, WriteRequest, ImageIsValid, OnlyAnswer
    <3>2. CASE \/ ReadMemory \/ ReadCRC \/ ReadPartID \/ ReadBootCodeVersion
               \/ ReadUID \/ ReadFlashSig
      BY <3>2
      DEF ReadMemory, ReadCRC, ReadPartID, ReadBootCodeVersion, ReadUID,
          ReadFlashSig, OnlyAnswer, IapReads
    <3>3. ASSUME NEW op, SectorCommand(op) \/ RangeCommand(op)
          PROVE  UNCHANGED flash
      BY <3>3 DEF SectorCommand, RangeCommand, SectorRequest, RangeRequest, Enter, OnlyAnswer
    <3>4. CASE Go
      BY <3>4 DEF Go, OnlyAnswer
    <3>. QED
      BY <1>1, <3>1, <3>2, <3>3, <3>4
      DEF Command, PrepSectorsForWrite, EraseSector, BlankSectorCheck,
          CopyRAMToFlash, MemoryLocationsEqual
  <2>. QED
    BY <2>1
<1>2. CASE \/ FinishTransfer \/ StoreTransfer \/ AbandonTransfer
           \/ RomPrepare \/ RomBlankCheck \/ RomCompare
           \/ ReadByte \/ NextByte \/ Leave \/ Return
  <2>1. UNCHANGED flash
    BY <1>2
    DEF FinishTransfer, StoreTransfer, AbandonTransfer, RomPrepare, RomBlankCheck, RomCompare,
        ReadByte, NextByte, Leave, Return, IAP_PrepareSectorForWrite,
        IAP_BlankCheckSector, IAP_Compare, IapRefuses
  <2>. QED
    BY <2>1
<1>. QED
  BY <1>1, <1>2 DEF Next, Progress, vars

\* A step that leaves flash alone, or changes it inside what was checked.
LEMMA StepSparesBootloader ==
  ASSUME IInv, [Next]_vars
  PROVE  \A c \in BootloaderCells : flash'[c] = flash[c]
<1>1. BootloaderCells \subseteq FlashCells
  BY LayoutFacts, LayoutAssumption DEF BootloaderCells, FlashCells
<1>2. CASE RomErase
  <2>1. call.a \in Int /\ call.b \in Int /\ FlashSectorLegal(call.a)
    BY <1>2 DEF RomErase, InIap, IInv, CallLegal, TypeOK, Requests, Uint
  <2>2. SectorCells(call.a, call.b) \cap BootloaderCells = {}
    BY <2>1, ImageSectorCells
  <2>. QED
    BY <1>1, <1>2, <2>2 DEF RomErase, IAP_EraseSector, IapRefuses, romVars
<1>3. CASE RomCopy
  <2>1. (call.a .. call.a + call.n - 1) \cap BootloaderCells = {}
    BY <1>3, ImageCopyCells
    DEF RomCopy, InIap, IInv, CallLegal, TypeOK, Requests
  <2>. QED
    BY <1>1, <1>3, <2>1 DEF RomCopy, IAP_CopyRamToFlash, IapRefuses, romVars
<1>4. CASE PowerCycle
  <2>1. TornCells \cap BootloaderCells = {}
    <3>1. InIap("E") => SectorCells(call.a, call.b) \cap BootloaderCells = {}
      <4>1. InIap("E") => call.a \in Int /\ call.b \in Int /\ FlashSectorLegal(call.a)
        BY DEF InIap, IInv, CallLegal, TypeOK, Requests, Uint
      <4>. QED
        BY <4>1, ImageSectorCells
    <3>2. InIap("C") => (call.a .. call.a + call.n - 1) \cap BootloaderCells = {}
      BY ImageCopyCells DEF InIap, IInv, CallLegal, TypeOK, Requests
    <3>. QED
      BY <3>1, <3>2 DEF TornCells
  <2>. QED
    BY <1>1, <1>4, <2>1 DEF PowerCycle
<1>5. CASE UNCHANGED flash
  BY <1>5
<1>. QED
  BY <1>2, <1>3, <1>4, <1>5, OnlyRomAndPowerChangeFlash

\* The bootloader cannot be damaged through the command loop: for every layout,
\* every input and every power cut, its sectors keep their contents.
THEOREM BootloaderUntouched == Spec => BootloaderIntact
<1>1. IInv /\ [Next]_vars => [\A c \in BootloaderCells : flash'[c] = flash[c]]_vars
  BY StepSparesBootloader
<1>. QED
  BY <1>1, CommandInvariant, PTL DEF BootloaderIntact, Spec

\* Flash changes only inside the masked section, or when the power goes there.
THEOREM FlashOnlyMasked == Spec => FlashChangesMasked
<1>1. ASSUME IInv, [Next]_vars, flash' # flash
      PROVE  masked
  <2>0. pc = "iap" => masked
    BY <1>1 DEF IInv
  <2>1. CASE RomErase \/ RomCopy
    <3>1. pc = "iap"
      BY <2>1 DEF RomErase, RomCopy, InIap
    <3>. QED
      BY <2>0, <3>1
  <2>2. CASE PowerCycle
    <3>1. CASE TornCells = {}
      <4>1. flash' = [c \in FlashCells |-> flash[c]]
        BY <2>2, <3>1 DEF PowerCycle
      <4>. QED
        BY <1>1, <4>1 DEF IInv, TypeOK
    <3>2. CASE TornCells # {}
      <4>1. pc = "iap"
        BY <3>2 DEF TornCells, InIap
      <4>. QED
        BY <2>0, <4>1
    <3>. QED
      BY <3>1, <3>2
  <2>3. CASE UNCHANGED flash
    BY <1>1, <2>3
  <2>. QED
    BY <1>1, <2>1, <2>2, <2>3, OnlyRomAndPowerChangeFlash
<1>2. IInv /\ [Next]_vars => [flash' # flash => masked]_vars
  BY <1>1
<1>. QED
  BY <1>2, CommandInvariant, PTL DEF FlashChangesMasked, Spec

=============================================================================
