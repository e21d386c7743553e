---------------------------- MODULE IspCommands ----------------------------
(***************************************************************************)
(* The command loop of the bootloader: the handlers of shell_commands.cpp  *)
(* and the Isp:: functions of Bootloader.cpp that they call.               *)
(*                                                                         *)
(* The loop is one thread.  A handler is cut into steps where something    *)
(* else can happen: interrupts are masked and unmasked around the calls of *)
(* the boot ROM, and the power may go at any moment.  pc says where the    *)
(* handler stands:                                                         *)
(*   idle    the shell waits for a line      next    about to read a byte  *)
(*   iap     inside the masked section       close   the section is over   *)
(*   done    the answer is in the UART       store   so is "OK", the data  *)
(*   halted  an assert stopped it                    is not yet in RAM     *)
(*   isp     the boot ROM's own loader runs, the program has left          *)
(* Refused requests are answered at once and leave call at NoCall.         *)
(***************************************************************************)
EXTENDS IapRom, Sequences

CONSTANTS
  Numbers,        \* what atol() may return for an argument
  MaxArgc,        \* most words the shell puts in argv
  kUnlockCode,    \* unlock_code
  kBaudRate,      \* the only accepted baud rate (9600)
  kTransferSize,  \* size of Isp::Bootloader::buffer_
  Asserts,        \* is the program built without NDEBUG?
  FactoryFlash,   \* flash contents the device may start its life with
  ZeroByte,       \* a byte of zero-initialised RAM
  GoodImages,     \* image bodies whose CRC is image_signature
  SignatureWord   \* image_signature, byte by byte

ImageBody == kImageStart .. kFlashEnd - kWordSize - 1
LastWord == [i \in 0 .. kWordSize - 1 |-> flash[kFlashEnd - kWordSize + i]]

ASSUME CommandAssumption ==
  /\ Numbers \subseteq Uint
  /\ MaxArgc \in Nat
  /\ kUnlockCode \in Uint
  /\ kBaudRate \in Uint
  /\ kTransferSize \in Nat /\ kSectorSize <= kTransferSize
  /\ Asserts \in BOOLEAN
  /\ FactoryFlash \subseteq [FlashCells -> Byte]
  /\ ZeroByte \in Byte
  /\ GoodImages \subseteq [ImageBody -> Byte]
  /\ SignatureWord \in [0 .. kWordSize - 1 -> Byte]

VARIABLES
  ram,        \* FlashController::buffer_
  masked,     \* PRIMASK: are interrupts off?
  locked,     \* FlashController::lock_
  transfer,   \* the W request whose data is awaited, or NoTransfer
  pc,         \* where the command loop stands
  call,       \* the accepted request being worked on, or NoCall
  status,     \* what the ROM, or the image check, returned
  reply,      \* answer lines of the command
  buff        \* bytes a flash R has read so far, or a RAM R

deviceVars == <<ram, masked, locked, transfer>>
callVars == <<call, status, buff>>
vars == <<flash, prepared, ram, masked, locked, transfer, pc, call, status, reply, buff>>

NoTransfer == [start |-> 0, length |-> 0, open |-> FALSE]
NoCall == [op |-> "none", a |-> 0, b |-> 0, n |-> 0, word |-> "none"]

\* Answer lines: a response code, or one of these.
FailLine == -1      \* "> FAIL,..."
DataLine == -2      \* a value, a name or the bytes of memory
OkLine   == -3      \* "OK"

CMD_SUCCESS == 0
INVALID_SECTOR_OR_INVALID_PAGE == 7
ADDR_ERROR == 13
INVALID_CODE == 16
INVALID_BAUD_RATE == 17
USER_CODE_CHECKSUM == 21
ReturnCodes == 0 .. 31

\* TranslateStatus of Bootloader.h.
Mutant_UntranslatedStatus(s) == s
TranslateStatus(s) == IF s # CMD_SUCCESS THEN Wrap(s - IapGroup) ELSE s

-----------------------------------------------------------------------------

\* Least and greatest number of arguments that CheckArgLength is given.
Arity ==
  [U |-> <<1, 1>>, B |-> <<1, 2>>, A |-> <<1, 1>>, W |-> <<2, 2>>, R |-> <<2, 2>>,
   P |-> <<2, 2>>, C |-> <<3, 3>>, G |-> <<1, 2>>, E |-> <<2, 2>>, X |-> <<2, 2>>,
   I |-> <<2, 2>>, J |-> <<0, 0>>, K |-> <<0, 0>>, M |-> <<3, 3>>, N |-> <<0, 0>>,
   S |-> <<2, 2>>, Z |-> <<2, 4>>, isp |-> <<1, 1>>, err |-> <<1, 1>>]

CheckArgLength(argc, low, high) == argc > low /\ argc <= high + 1

\* The shell has a whole line and the main loop is not collecting data.
Dispatched == pc = "idle" /\ ~transfer.open

\* SendResponseCode and shell_put_line: the lines of the answer.
Answer(lines) == pc' = "done" /\ reply' = lines

\* The handler answers and changes nothing else.
OnlyAnswer(lines) ==
  Answer(lines) /\ UNCHANGED <<romVars, deviceVars, callVars>>

WrongArgCount ==
  /\ Dispatched
  /\ \E op \in DOMAIN Arity, argc \in 1 .. MaxArgc :
       ~CheckArgLength(argc, Arity[op][1], Arity[op][2])
  /\ OnlyAnswer(<<FailLine>>)

-----------------------------------------------------------------------------
(* Commands that never reach the ROM.                                      *)

Unlock ==
  /\ Dispatched
  /\ \E code \in Numbers :
       IF code = kUnlockCode
       THEN locked' = FALSE /\ Answer(<<CMD_SUCCESS>>)
       ELSE locked' = locked /\ Answer(<<FailLine>>)
  /\ UNCHANGED <<romVars, ram, masked, transfer, callVars>>

\* The complaint about the stop bits does not end the handler.
BaudLines(baudrate, stop_bits) ==
  (IF stop_bits > 2 THEN <<FailLine>> ELSE <<>>)
    \o <<IF baudrate = kBaudRate THEN CMD_SUCCESS ELSE INVALID_BAUD_RATE>>

SetBaudRate ==
  /\ Dispatched
  /\ \E baudrate \in Numbers, stop_bits \in Numbers \cup {1} :
       /\ call' = [NoCall EXCEPT !.op = "B", !.a = baudrate, !.b = stop_bits]
       /\ Answer(BaudLines(baudrate, stop_bits))
  /\ UNCHANGED <<romVars, deviceVars, status, buff>>

Echo == Dispatched /\ OnlyAnswer(<<CMD_SUCCESS>>)

PrintError ==
  /\ Dispatched
  /\ \E code \in Numbers :
       OnlyAnswer(<<IF code \in ReturnCodes \ {0} THEN DataLine ELSE FailLine>>)

\* Device reset: the start-up code restores every variable of the program.
Restart ==
  /\ ram' = [i \in BufferIndex |-> ZeroByte]
  /\ masked' = FALSE
  /\ locked' = TRUE
  /\ transfer' = NoTransfer
  /\ pc' = "idle"
  /\ call' = NoCall
  /\ status' = kStatus_Success
  /\ reply' = <<>>
  /\ buff' = <<>>
  /\ prepared' = {}

\* kBootloaderStart is 0.
Go ==
  /\ Dispatched
  /\ \E address \in Numbers :
       \/ address = 0 /\ Restart /\ UNCHANGED flash
       \/ address # 0 /\ OnlyAnswer(<<ADDR_ERROR>>)

\* No page is ever legal (lemma NoPageIsLegal): the ROM call is unreachable.
ErasePages ==
  /\ Dispatched
  /\ \E start, end \in Numbers : ~(FlashPageLegal(start) /\ FlashPageLegal(end))
  /\ OnlyAnswer(<<INVALID_SECTOR_OR_INVALID_PAGE>>)

\* strcmp(argv[0], "unlock"): argv[0] is the command's own name.
EnterIsp ==
  /\ Dispatched
  /\ \E word \in {"unlock", "other"} :
       IF "isp" # "unlock"
       THEN /\ pc' = "isp"
            /\ call' = [NoCall EXCEPT !.op = "isp", !.word = word]
            /\ UNCHANGED <<romVars, deviceVars, status, reply, buff>>
       ELSE OnlyAnswer(<<INVALID_CODE>>)

\* W: the answer goes out before the data is expected.
WriteRequest(start, length) ==
  /\ IF RamRangeLegal(start, length)
     THEN /\ Answer(<<CMD_SUCCESS>>)
          /\ transfer' = IF length <= kTransferSize
                         THEN [start |-> start, length |-> length, open |-> TRUE]
                         ELSE transfer
     ELSE Answer(<<ADDR_ERROR>>) /\ UNCHANGED transfer
  /\ UNCHANGED <<romVars, ram, masked, locked, callVars>>
WriteToRamRequest ==
  Dispatched /\ \E start, length \in Numbers : WriteRequest(start, length)

\* The indices of buffer_ behind a RAM range, by the offset into the range.
RamIndex(start, i) == GetRamPtr(Wrap(start + i))
RamBytes(start, length) == [i \in 1 .. length |-> ram[RamIndex(start, i - 1)]]
PointersLegal(start, length) ==
  \A i \in 0 .. length - 1 : RamAddressLegal(Wrap(start + i))

\* assert() failed: the handler never returns.
Halt == pc' = "halted" /\ UNCHANGED reply

\* The data of a W request has arrived: ReadUart answers, then stores it.
FinishTransfer ==
  /\ pc = "idle" /\ transfer.open
  /\ pc' = "store" /\ reply' = <<OkLine>>
  /\ UNCHANGED <<romVars, deviceVars, callVars>>

StoreTransfer ==
  /\ pc = "store"
  /\ IF PointersLegal(transfer.start, transfer.length)
     THEN /\ \E data \in [0 .. transfer.length - 1 -> Byte] :
               ram' = [k \in BufferIndex |->
                         IF k \in {RamIndex(transfer.start, i) : i \in DOMAIN data}
                         THEN data[k - RamIndex(transfer.start, 0)] ELSE ram[k]]
          /\ pc' = "done"
          /\ transfer' = NoTransfer
     ELSE pc' = "halted" /\ UNCHANGED <<ram, transfer>>
  /\ UNCHANGED <<romVars, masked, locked, callVars, reply>>

\* The wait timed out: "OK" goes out too, and WriteToRam(0, 0) is refused.
AbandonTransfer ==
  /\ pc = "idle" /\ transfer.open
  /\ Answer(<<OkLine>>)
  /\ transfer' = NoTransfer
  /\ UNCHANGED <<romVars, ram, masked, locked, callVars>>

-----------------------------------------------------------------------------
(* Reading: memory, CRC, identity.                                         *)

\* R: RAM in one go, flash byte by byte.
ReadRam(start, length) ==
  /\ IF PointersLegal(start, length)
     THEN buff' = RamBytes(start, length) /\ Answer(<<DataLine, CMD_SUCCESS>>)
     ELSE buff' = buff /\ Halt
  /\ call' = [NoCall EXCEPT !.op = "R", !.a = start, !.b = length]

ReadFlash(start, length) ==
  /\ call' = [NoCall EXCEPT !.op = "R", !.a = start, !.b = length]
  /\ IF length = 0 THEN Answer(<<DataLine, CMD_SUCCESS>>)
     ELSE pc' = "next" /\ UNCHANGED reply
  /\ UNCHANGED buff

ReadMemory ==
  /\ Dispatched
  /\ \E start, length \in Numbers :
       IF RamRangeLegal(start, length) THEN ReadRam(start, length)
       ELSE IF FlashAddressRangeLegal(start, length) THEN ReadFlash(start, length)
       ELSE Answer(<<DataLine, ADDR_ERROR>>) /\ UNCHANGED <<call, buff>>
  /\ UNCHANGED <<romVars, deviceVars, status>>

\* S: nothing is masked and nothing is written.
ReadCRC ==
  /\ Dispatched
  /\ \E start, length \in Numbers :
       OnlyAnswer(IF FlashAddressRangeLegal(start, length) \/ RamRangeLegal(start, length)
                  THEN <<CMD_SUCCESS, DataLine>> ELSE <<ADDR_ERROR>>)

\* J, K and Z ask the ROM without masking; Z prints on success only.
ReadPartID ==
  /\ Dispatched
  /\ \E s \in IapStatus : IapReads(s) /\ Answer(<<TranslateStatus(s), DataLine>>)
  /\ UNCHANGED <<deviceVars, callVars>>

ReadBootCodeVersion ==
  /\ Dispatched
  /\ \E s \in IapStatus :
       IapReads(s) /\ Answer(<<TranslateStatus(s), DataLine, DataLine>>)
  /\ UNCHANGED <<deviceVars, callVars>>

\* What ReadSerialNumber returns is not translated.
ReadUID ==
  /\ Dispatched
  /\ \E s \in IapStatus :
       /\ IapReads(s)
       /\ Answer(<<s, DataLine, DataLine, DataLine, DataLine>>)
  /\ call' = [NoCall EXCEPT !.op = "N"]
  /\ UNCHANGED <<deviceVars, status, buff>>

ReadFlashSig ==
  /\ Dispatched
  /\ \E s \in IapStatus :
       /\ IapReads(s)
       /\ Answer(IF TranslateStatus(s) = CMD_SUCCESS
                 THEN <<CMD_SUCCESS, DataLine>> ELSE <<TranslateStatus(s)>>)
  /\ UNCHANGED <<deviceVars, callVars>>

-----------------------------------------------------------------------------
(* Commands with a masked section.                                         *)

\* FlashController::OpenFlashInteraction and CloseFlashInteraction.
Mutant_NeverMasks == UNCHANGED masked
OpenFlashInteraction == masked' = TRUE
Mutant_NeverUnmasks == UNCHANGED masked
CloseFlashInteraction == masked' = FALSE

\* The masked section opens on behalf of an accepted request.
Enter(op, a, b, n) ==
  /\ OpenFlashInteraction
  /\ pc' = "iap"
  /\ call' = [NoCall EXCEPT !.op = op, !.a = a, !.b = b, !.n = n]
  /\ UNCHANGED <<romVars, ram, locked, transfer, status, reply, buff>>

SectorRequest(op, start, end) ==
  IF FlashSectorLegal(start) /\ FlashSectorLegal(end)
  THEN Enter(op, start, end, 0)
  ELSE OnlyAnswer(<<INVALID_SECTOR_OR_INVALID_PAGE>>)
SectorCommand(op) == Dispatched /\ \E start, end \in Numbers : SectorRequest(op, start, end)

PrepSectorsForWrite == SectorCommand("P")
EraseSector         == SectorCommand("E")
BlankSectorCheck    == SectorCommand("I")

\* C and M.  GetRamPtr asserts on the first byte, for C before the section opens
\* and for M inside it: with RamRangeLegal it cannot fail (lemma PointersAreLegal).
RangeRequest(op, flash_address, ram_address, length) ==
  IF FlashAddressRangeLegal(flash_address, length) /\ RamRangeLegal(ram_address, length)
  THEN Enter(op, flash_address, ram_address, length)
  ELSE OnlyAnswer(<<ADDR_ERROR>>)
RangeCommand(op) ==
  /\ Dispatched
  /\ \E flash_address, ram_address, length \in Numbers :
       RangeRequest(op, flash_address, ram_address, length)

CopyRAMToFlash       == RangeCommand("C")
MemoryLocationsEqual == RangeCommand("M")

Mutant_LastWordDecides ==
  /\ Dispatched
  /\ OpenFlashInteraction
  /\ call' = [NoCall EXCEPT !.op = "CV"]
  /\ pc' = "close"
  /\ status' = IF LastWord = SignatureWord THEN CMD_SUCCESS ELSE USER_CODE_CHECKSUM
  /\ UNCHANGED <<romVars, ram, locked, transfer, reply, buff>>

\* CV: the assert compares the last word of flash with image_signature inside
\* the masked section; the answer is about the CRC of the words before it.
ImageIsValid ==
  /\ Dispatched
  /\ OpenFlashInteraction
  /\ call' = [NoCall EXCEPT !.op = "CV"]
  /\ IF Asserts /\ LastWord # SignatureWord
     THEN Halt /\ UNCHANGED status
     ELSE /\ pc' = "close"
          /\ status' = IF [c \in ImageBody |-> flash[c]] \in GoodImages
                       THEN CMD_SUCCESS ELSE USER_CODE_CHECKSUM
          /\ UNCHANGED reply
  /\ UNCHANGED <<romVars, ram, locked, transfer, buff>>

\* The ROM returns s to the handler.
InIap(op) == pc = "iap" /\ call.op = op
Mutant_StatusDropped(s) ==
  /\ status' = kStatus_Success
  /\ pc' = "close"
  /\ UNCHANGED <<deviceVars, call, reply, buff>>
Returned(s) ==
  /\ status' = s
  /\ pc' = "close"
  /\ UNCHANGED <<deviceVars, call, reply, buff>>

\* The bytes the ROM reads through the pointer GetRamPtr returned.
Mutant_SourceIgnoresOffset(start, length) == [i \in 0 .. length - 1 |-> ram[i]]
IapSource(start, length) == [i \in 0 .. length - 1 |-> ram[GetRamPtr(start) + i]]

RomPrepare ==
  /\ InIap("P")
  /\ \E s \in IapStatus : IAP_PrepareSectorForWrite(call.a, call.b, s) /\ Returned(s)

RomErase ==
  /\ InIap("E")
  /\ \E s \in IapStatus : IAP_EraseSector(call.a, call.b, s) /\ Returned(s)

RomCopy ==
  /\ InIap("C")
  /\ \E s \in IapStatus :
       /\ IAP_CopyRamToFlash(call.a, IapSource(call.b, call.n), call.n, s)
       /\ Returned(s)

RomBlankCheck ==
  /\ InIap("I")
  /\ \E s \in IapStatus : IAP_BlankCheckSector(call.a, call.b, s) /\ Returned(s)

RomCompare ==
  /\ InIap("M")
  /\ \E s \in IapStatus :
       IAP_Compare(call.a, IapSource(call.b, call.n), call.n, s) /\ Returned(s)

\* One byte of a flash R.
Mutant_SameByteAgain ==
  /\ InIap("R")
  /\ buff' = Append(buff, flash[call.a])
  /\ pc' = "close"
  /\ UNCHANGED <<romVars, deviceVars, call, status, reply>>

Mutant_IndexNotAdvanced ==
  /\ InIap("R")
  /\ buff' = <<flash[call.a]>>
  /\ pc' = "close"
  /\ UNCHANGED <<romVars, deviceVars, call, status, reply>>

ReadByte ==
  /\ InIap("R")
  /\ buff' = Append(buff, flash[Wrap(call.a + Len(buff))])
  /\ pc' = "close"
  /\ UNCHANGED <<romVars, deviceVars, call, status, reply>>

NextByte ==
  /\ pc = "next"
  /\ OpenFlashInteraction
  /\ pc' = "iap"
  /\ UNCHANGED <<romVars, ram, locked, transfer, callVars, reply>>

\* The section closes; then the answer, or the next round of the R loop.
Leave ==
  /\ pc = "close"
  /\ CloseFlashInteraction
  /\ \/ /\ call.op = "R" /\ Len(buff) < call.b
        /\ pc' = "next" /\ UNCHANGED reply
     \/ /\ call.op = "R" /\ Len(buff) >= call.b
        /\ Answer(<<DataLine, CMD_SUCCESS>>)
     \/ call.op = "CV" /\ Answer(<<status>>)
     \/ call.op \notin {"R", "CV"} /\ Answer(<<TranslateStatus(status)>>)
  /\ UNCHANGED <<romVars, ram, locked, transfer, callVars>>

\* The handler returns to the shell.
Return ==
  /\ pc = "done"
  /\ pc' = "idle"
  /\ call' = NoCall
  /\ status' = kStatus_Success
  /\ reply' = <<>>
  /\ buff' = <<>>
  /\ UNCHANGED <<romVars, deviceVars>>

-----------------------------------------------------------------------------

\* The bytes the ROM is changing when the power goes: any value may be left.
TornCells ==
  IF InIap("E") /\ EraseAccepted(call.a, call.b) THEN SectorCells(call.a, call.b)
  ELSE IF InIap("C") /\ CopyAccepted(call.a, call.n) THEN call.a .. call.a + call.n - 1
  ELSE {}

PowerCycle ==
  /\ \E junk \in [TornCells -> Byte] :
       flash' = [c \in FlashCells |-> IF c \in TornCells THEN junk[c] ELSE flash[c]]
  /\ Restart

Init ==
  /\ flash \in FactoryFlash
  /\ prepared = {}
  /\ ram = [i \in BufferIndex |-> ZeroByte]
  /\ masked = FALSE
  /\ locked = TRUE
  /\ transfer = NoTransfer
  /\ pc = "idle"
  /\ call = NoCall
  /\ status = kStatus_Success
  /\ reply = <<>>
  /\ buff = <<>>

\* A line arrives from the host.
Command ==
  \/ WrongArgCount \/ Unlock \/ SetBaudRate \/ Echo \/ PrintError \/ Go
  \/ ErasePages \/ EnterIsp \/ WriteToRamRequest \/ ReadMemory \/ ReadCRC
  \/ ReadPartID \/ ReadBootCodeVersion \/ ReadUID \/ ReadFlashSig
  \/ PrepSectorsForWrite \/ EraseSector \/ BlankSectorCheck
  \/ CopyRAMToFlash \/ MemoryLocationsEqual \/ ImageIsValid

\* The device goes on with the command it has.
Progress ==
  \/ RomPrepare \/ RomErase \/ RomCopy \/ RomBlankCheck \/ RomCompare
  \/ ReadByte \/ NextByte \/ Leave \/ StoreTransfer \/ Return

Next ==
  \/ Command
  \/ FinishTransfer
  \/ AbandonTransfer
  \/ Progress
  \/ PowerCycle

Spec == Init /\ [][Next]_vars

\* The processor runs and the ROM returns; nothing is asked of the host.
FairSpec == Spec /\ WF_vars(Progress)

-----------------------------------------------------------------------------
(* Properties.                                                             *)

Requests == [op : {"none", "N", "B", "R", "P", "E", "I", "C", "M", "CV", "isp"},
             a : Uint, b : Uint, n : Uint, word : {"none", "unlock", "other"}]
Transfers == [start : Uint, length : Uint, open : BOOLEAN]

\* Every variable has its type.
TypeOK ==
  /\ flash \in [FlashCells -> Byte]
  /\ prepared \subseteq Sectors
  /\ ram \in [BufferIndex -> Byte]
  /\ masked \in BOOLEAN
  /\ locked \in BOOLEAN
  /\ transfer \in Transfers
  /\ pc \in {"idle", "next", "iap", "close", "store", "done", "halted", "isp"}
  /\ call \in Requests
  /\ status \in IapStatus \cup {USER_CODE_CHECKSUM}
  /\ buff \in Seq(Byte)

\* Nothing the host sends, and no power cut in the middle of an erase or a
\* copy, changes a byte of the bootloader's own sectors: the legality checks
\* keep every range the ROM is given inside the application image.
BootloaderIntact ==
  [][\A c \in BootloaderCells : flash'[c] = flash[c]]_vars

\* The flash array is only ever worked on with interrupts masked, so that no
\* interrupt handler is fetched from an array that cannot be read.
FlashChangesMasked == [][flash' # flash => masked]_vars

\* Each path out of a masked section unmasks: whenever the shell waits or a
\* loop is between two flash bytes, the UART interrupt can run.
InterruptsRestored == pc \in {"idle", "next", "store", "done"} => ~masked

\* The assert of GetRamPtr never fires, whatever addresses the host sends:
\* the only one that can stop the device is the assert on the signature word.
OnlySignatureAsserts == pc = "halted" => call.op = "CV"

\* The ROM only ever has sectors of the image prepared for write, whichever
\* commands came before: a later C or E cannot succeed elsewhere.
PreparedInImage == prepared \subseteq kImageSectorStart .. kSectorCount - 1

\* Response codes are in the range that "err" can name, the answer to N apart:
\* TranslateStatus takes the IAP status group off every error of the ROM.
AnswersNameable ==
  call.op # "N" =>
    \A k \in 1 .. Len(reply) : reply[k] >= 0 => reply[k] \in ReturnCodes

\* The value a byte of the memory map has, as the host addresses it.
MemoryAt(address) ==
  IF address \in RamCells THEN ram[address - kIspRamStart] ELSE flash[address]

\* A successful R returns exactly the bytes of the memory map at the addresses
\* asked for, although interrupts run between two bytes of flash.
ReadsBack ==
  pc = "done" /\ call.op = "R" =>
    /\ Len(buff) = call.b
    /\ \A i \in 1 .. call.b : buff[i] = MemoryAt(Wrap(call.a + i - 1))

\* M and R agree on what an address means: when M reports equality, reading
\* the two ranges would give the same bytes.
ComparesWhatIsRead ==
  pc = "done" /\ call.op = "M" /\ reply = <<CMD_SUCCESS>> =>
    \A i \in 0 .. call.n - 1 : MemoryAt(call.a + i) = MemoryAt(call.b + i)

\* What the serial line relies on, whatever the command: each step of a handler
\* is a step of the abstract loop; the answer comes after the masked sections.
PhaseOf == [idle |-> "idle", next |-> "busy", iap |-> "busy", close |-> "busy",
            store |-> "answered", done |-> "answered",
            halted |-> "stopped", isp |-> "stopped"]
Loop == INSTANCE ShellLoop WITH phase <- PhaseOf[pc]
KeepsLoop == Loop!Spec

\* Every accepted command is answered, the R loop included; only the signature
\* assert keeps the host waiting for ever.
Answered == pc \in {"iap", "next", "close", "store", "done"} ~> pc \in {"idle", "halted"}

-----------------------------------------------------------------------------
(* What comments and help texts say and the program does not do.           *)

\* shell_commands.cpp:97: unlocking "Enables Flash Write, Erase, & Go".
UnlockGatesFlash == InIap("C") \/ InIap("E") => ~locked

\* Bootloader.cpp:104 asserts that the last word of flash is the signature.
SignatureAssertHolds == pc # "halted"

=============================================================================
