-------------------------- MODULE IspAnswersProofs --------------------------
(***************************************************************************)
(* What the host can rely on: the command loop is the abstract loop of     *)
(* ShellLoop, and its answers are true.                                    *)
(***************************************************************************)
EXTENDS IspCommandsProofs, SequenceTheorems

(* The abstract loop.                                                      *)

\* Names for what a step does to the place in the loop.
Answers == pc' \in {"store", "done"} /\ UNCHANGED masked
Starts  == pc' \in {"next", "iap", "close", "halted", "isp"}
Resets  == pc' = "idle" /\ masked' = FALSE

LEMMA IdleSteps ==
  ASSUME Command \/ FinishTransfer \/ AbandonTransfer
  PROVE  pc = "idle" /\ (Answers \/ Starts \/ Resets)
<1>. USE DEF Answers, Starts, Resets, Answer, OnlyAnswer, Dispatched, Halt, deviceVars
<1>1. CASE \/ WrongArgCount \/ Unlock \/ SetBaudRate \/ Echo \/ PrintError
           \/ ErasePages \/ EnterIsp \/ WriteToRamRequest \/ Go
  BY <1>1
  DEF WrongArgCount, Unlock, SetBaudRate, Echo, PrintError, ErasePages, EnterIsp,
      WriteToRamRequest, WriteRequest, Go, Restart
<1>2. CASE \/ ReadMemory \/ ReadCRC \/ ReadPartID \/ ReadBootCodeVersion
           \/ ReadUID \/ ReadFlashSig
  BY <1>2
  DEF ReadMemory, ReadRam, ReadFlash, ReadCRC, ReadPartID, ReadBootCodeVersion,
      ReadUID, ReadFlashSig
<1>3. ASSUME NEW op, SectorCommand(op) \/ RangeCommand(op)
      PROVE  pc = "idle" /\ (Answers \/ Starts)
  BY <1>3 DEF SectorCommand, RangeCommand, SectorRequest, RangeRequest, Enter
<1>4. CASE ImageIsValid
  BY <1>4 DEF ImageIsValid
<1>5. CASE FinishTransfer \/ AbandonTransfer
  BY <1>5 DEF FinishTransfer, AbandonTransfer
<1>. QED
  BY <1>1, <1>2, <1>3, <1>4, <1>5
  DEF Command, PrepSectorsForWrite, EraseSector, BlankSectorCheck,
      CopyRAMToFlash, MemoryLocationsEqual

Busy == pc \in {"next", "iap", "close"}

LEMMA ProgressSteps ==
  ASSUME IInv, Progress
  PROVE  \/ Busy /\ Busy'
         \/ Busy /\ pc' = "done" /\ masked' = FALSE
         \/ pc = "store" /\ pc' = "done" /\ UNCHANGED masked
         \/ pc = "done" /\ pc' = "idle" /\ UNCHANGED masked
<1>. USE DEF Busy, deviceVars
<1>1. CASE RomPrepare \/ RomErase \/ RomCopy \/ RomBlankCheck \/ RomCompare
  BY <1>1 DEF RomPrepare, RomErase, RomCopy, RomBlankCheck, RomCompare, InIap, Returned
<1>2. CASE ReadByte \/ NextByte
  BY <1>2 DEF ReadByte, NextByte, InIap
<1>3. CASE Leave
  BY <1>3 DEF Leave, CloseFlashInteraction, Answer
<1>4. CASE Return
  BY <1>4 DEF Return
<1>5. CASE StoreTransfer
  <2>1. PointersLegal(transfer.start, transfer.length)
    BY <1>5, PointersAreLegal DEF StoreTransfer, IInv, TypeOK, Transfers, TransferLegal
  <2>. QED
    BY <1>5, <2>1 DEF StoreTransfer
<1>. QED
  BY <1>1, <1>2, <1>3, <1>4, <1>5 DEF Progress

\* Whatever the command, the loop is the one the serial line is built on
\* (IspCommands!KeepsLoop): answers come after the last masked section.
THEOREM ImplementsShellLoop == Spec => KeepsLoop
<1>. USE DEF PhaseOf
<1>1. Init => Loop!Init
  BY DEF Init, Loop!Init
<1>2. IInv /\ IInv' /\ [Next]_vars => [Loop!Next]_(Loop!loopVars)
  <2> SUFFICES ASSUME IInv, IInv', [Next]_vars
               PROVE  Loop!Next \/ UNCHANGED Loop!loopVars
    OBVIOUS
  <2>0. masked' \in BOOLEAN
    BY DEF IInv, TypeOK
  <2>. USE DEF Loop!Next
  <2>1. CASE Command \/ FinishTransfer \/ AbandonTransfer
    <3>1. pc = "idle" /\ (Answers \/ Starts \/ Resets)
      BY <2>1, IdleSteps
    <3>2. CASE Answers
      <4>1. PhaseOf[pc]' = "answered"
        BY <3>2 DEF Answers
      <4>. QED
        BY <3>1, <3>2, <4>1, Zenon DEF Answers, Loop!Accept
    <3>3. CASE Starts
      <4>1. PhaseOf[pc]' \in {"busy", "stopped"}
        BY <3>3 DEF Starts
      <4>. QED
        BY <2>0, <3>1, <4>1, Zenon DEF Loop!Accept
    <3>4. CASE Resets
      BY <3>4, Zenon DEF Resets, Loop!Reset
    <3>. QED
      BY <3>1, <3>2, <3>3, <3>4
  <2>2. CASE Progress
    <3>1. CASE Busy
      <4>1. PhaseOf[pc] = "busy"
        BY <3>1 DEF Busy
      <4>2. CASE Busy'
        <5>1. PhaseOf[pc]' = "busy"
          BY <4>2 DEF Busy
        <5>. QED
          BY <2>0, <4>1, <5>1, Zenon DEF Loop!Work
      <4>3. CASE pc' = "done" /\ masked' = FALSE
        BY <4>1, <4>3, Zenon DEF Loop!Finish
      <4>. QED
        BY <2>2, <3>1, <4>2, <4>3, ProgressSteps DEF Busy
    <3>2. CASE pc = "done" /\ pc' = "idle" /\ UNCHANGED masked
      BY <3>2, Zenon DEF Loop!Return
    <3>3. CASE pc = "store" /\ pc' = "done" /\ UNCHANGED masked
      BY <3>3 DEF Loop!loopVars
    <3>. QED
      BY <2>2, <3>1, <3>2, <3>3, ProgressSteps
  <2>3. CASE PowerCycle
    BY <2>3 DEF PowerCycle, Restart, Loop!Reset
  <2>4. CASE UNCHANGED vars
    BY <2>4 DEF vars, deviceVars, Loop!loopVars
  <2>. QED
    BY <2>1, <2>2, <2>3, <2>4 DEF Next
<1>. QED
  BY <1>1, <1>2, CommandInvariant, PTL DEF Spec, KeepsLoop, Loop!Spec

-----------------------------------------------------------------------------
(* The answers.                                                            *)

Nameable(lines) == \A k \in 1 .. Len(lines) : lines[k] >= 0 => lines[k] \in ReturnCodes

\* What R has collected so far, and what M has found.
TrueBytes == \A i \in 1 .. Len(buff) : buff[i] = MemoryAt(Wrap(call.a + i - 1))
SameBytes == \A i \in 0 .. call.n - 1 : MemoryAt(call.a + i) = MemoryAt(call.b + i)

\* An answer is made in the step that ends the command, from what earlier steps
\* found out; the invariant says what that was.
AnswerInv ==
  /\ pc \in {"idle", "store"} => call = NoCall /\ status = kStatus_Success
  /\ pc \notin {"store", "done"} => reply = <<>>
  /\ call.op = "CV" => status \in {CMD_SUCCESS, USER_CODE_CHECKSUM}
  /\ call.op # "CV" => status \in IapStatus
  /\ call.op # "N" => Nameable(reply)
  /\ call.op = "R" /\ pc \in {"next", "iap", "close", "done"} => TrueBytes
  /\ call.op = "R" /\ pc = "done" => Len(buff) = call.b
  /\ call.op = "M" /\ pc \in {"close", "done"} /\ status = kStatus_Success => SameBytes
  /\ call.op = "M" /\ pc = "done" /\ reply = <<CMD_SUCCESS>> => status = kStatus_Success

\* TranslateStatus takes the group off every error, and only success is zero.
LEMMA TranslatedStatus ==
  ASSUME NEW s \in IapStatus
  PROVE  /\ TranslateStatus(s) \in ReturnCodes
         /\ TranslateStatus(s) = CMD_SUCCESS <=> s = kStatus_Success
<1>1. CASE s = kStatus_Success
  BY <1>1 DEF TranslateStatus, CMD_SUCCESS, kStatus_Success, ReturnCodes
<1>2. CASE s \in IapFailures
  <2>1. PICK code \in IapErrors : s = IapGroup + code
    BY <1>2 DEF IapFailures
  <2>2. code \in 1 .. 31 /\ IapGroup \in Nat /\ IapGroup + 31 < kModulus
    BY RomAssumption DEF RomAssumption
  <2>3. Wrap(s - IapGroup) = code
    BY <2>1, <2>2, WrapCases, LayoutAssumption DEF LayoutAssumption
  <2>. QED
    BY <2>1, <2>2, <2>3 DEF TranslateStatus, CMD_SUCCESS, kStatus_Success, ReturnCodes
<1>. QED
  BY <1>1, <1>2 DEF IapStatus

\* Answers of one line, and the lines that carry data.
LEMMA OneLine ==
  ASSUME NEW code \in ReturnCodes \cup {FailLine, DataLine, OkLine}
  PROVE  Nameable(<<code>>)
  BY DEF Nameable, ReturnCodes, FailLine, DataLine, OkLine

LEMMA CodeAndData ==
  ASSUME NEW code \in ReturnCodes
  PROVE  /\ Nameable(<<code, DataLine>>)
         /\ Nameable(<<DataLine, code>>)
         /\ Nameable(<<FailLine, code>>)
         /\ Nameable(<<code, DataLine, DataLine>>)
  BY DEF Nameable, ReturnCodes, FailLine, DataLine

LEMMA CodesInTable ==
  {CMD_SUCCESS, INVALID_SECTOR_OR_INVALID_PAGE, ADDR_ERROR, INVALID_CODE,
   INVALID_BAUD_RATE, USER_CODE_CHECKSUM} \subseteq ReturnCodes
  BY DEF CMD_SUCCESS, INVALID_SECTOR_OR_INVALID_PAGE, ADDR_ERROR, INVALID_CODE,
         INVALID_BAUD_RATE, USER_CODE_CHECKSUM, ReturnCodes

LEMMA BaudAnswer ==
  ASSUME NEW baudrate, NEW stop_bits
  PROVE  Nameable(BaudLines(baudrate, stop_bits))
<1>. DEFINE code == IF baudrate = kBaudRate THEN CMD_SUCCESS ELSE INVALID_BAUD_RATE
<1>1. code \in ReturnCodes
  BY CodesInTable
<1>. HIDE DEF code
<1>. DEFINE fail == IF stop_bits > 2 THEN <<FailLine>> ELSE <<>>
<1>2. fail \in Seq(Int) /\ Nameable(fail)
  BY OneLine DEF Nameable, FailLine
<1>3. <<code>> \in Seq(Int) /\ Nameable(<<code>>)
  BY <1>1, OneLine DEF ReturnCodes
<1>4. BaudLines(baudrate, stop_bits) = fail \o <<code>>
  BY DEF BaudLines, code
<1>. HIDE DEF fail
<1>. QED
  BY <1>2, <1>3, <1>4, ConcatProperties DEF Nameable

\* A command that is answered at once, and one that starts to work.
LEMMA PlainAnswer ==
  ASSUME AnswerInv, pc = "idle", pc' = "done", UNCHANGED status,
         call'.op \notin {"R", "M", "CV"},
         call'.op # "N" => Nameable(reply')
  PROVE  AnswerInv'
  BY DEF AnswerInv, IapStatus

LEMMA Opened ==
  ASSUME AnswerInv, pc = "idle", pc' \in {"iap", "isp"}, UNCHANGED <<status, reply>>,
         call'.op \notin {"R", "CV"}
  PROVE  AnswerInv'
  BY DEF AnswerInv, IapStatus, Nameable

LEMMA RestartForgets ==
  ASSUME Restart
  PROVE  AnswerInv'
<1>1. call' = NoCall /\ call'.op = "none" /\ status' = kStatus_Success /\ reply' = <<>>
  BY DEF Restart, NoCall
<1>. QED
  BY <1>1 DEF Restart, AnswerInv, IapStatus, Nameable

\* The commands that are answered in the step that reads the line.
LEMMA ImmediateAnswers ==
  ASSUME IInv, AnswerInv,
         \/ WrongArgCount \/ Unlock \/ SetBaudRate \/ Echo \/ PrintError \/ Go
         \/ ErasePages \/ WriteToRamRequest \/ ReadCRC \/ ReadPartID
         \/ ReadBootCodeVersion \/ ReadUID \/ ReadFlashSig
         \/ FinishTransfer \/ AbandonTransfer
  PROVE  AnswerInv'
<1>0. pc = "idle" => call.op \notin {"R", "M", "CV"}
  BY DEF AnswerInv, NoCall
<1>. USE CodesInTable, PlainAnswer DEF OnlyAnswer, Answer, Dispatched, callVars
<1>1. CASE WrongArgCount \/ Echo \/ ErasePages
  <2>1. reply' \in {<<FailLine>>, <<CMD_SUCCESS>>, <<INVALID_SECTOR_OR_INVALID_PAGE>>}
    BY <1>1 DEF WrongArgCount, Echo, ErasePages
  <2>2. Nameable(reply')
    BY <2>1, OneLine
  <2>. QED
    BY <1>0, <1>1, <2>2 DEF WrongArgCount, Echo, ErasePages
<1>2. CASE Unlock \/ PrintError \/ WriteToRamRequest \/ AbandonTransfer
  <2>1. reply' \in {<<FailLine>>, <<CMD_SUCCESS>>, <<DataLine>>, <<ADDR_ERROR>>, <<OkLine>>}
    BY <1>2 DEF Unlock, PrintError, WriteToRamRequest, WriteRequest, AbandonTransfer
  <2>2. Nameable(reply')
    BY <2>1, OneLine
  <2>. QED
    BY <1>0, <1>2, <2>2
    DEF Unlock, PrintError, WriteToRamRequest, WriteRequest, AbandonTransfer
<1>3. CASE FinishTransfer
  <2>1. Nameable(reply')
    BY <1>3, OneLine DEF FinishTransfer
  <2>. QED
    BY <1>0, <1>3, <2>1 DEF FinishTransfer, AnswerInv, NoCall
<1>4. CASE SetBaudRate
  <2>1. Nameable(reply')
    <3>1. PICK baudrate \in Numbers, stop_bits \in Numbers \cup {1} :
            reply' = BaudLines(baudrate, stop_bits)
      BY <1>4 DEF SetBaudRate
    <3>2. Nameable(BaudLines(baudrate, stop_bits))
      BY BaudAnswer
    <3>. QED
      BY <3>1, <3>2
  <2>2. call'.op = "B"
    BY <1>4 DEF SetBaudRate, NoCall
  <2>. QED
    BY <1>4, <2>1, <2>2 DEF SetBaudRate
<1>5. CASE Go
  <2>1. CASE Restart
    BY <2>1, RestartForgets
  <2>2. CASE OnlyAnswer(<<ADDR_ERROR>>) /\ pc = "idle"
    BY <1>0, <2>2, OneLine
  <2>. QED
    BY <1>5, <2>1, <2>2 DEF Go
<1>6. CASE ReadCRC
  <2>1. reply' \in {<<CMD_SUCCESS, DataLine>>, <<ADDR_ERROR>>}
    BY <1>6 DEF ReadCRC
  <2>2. Nameable(reply')
    BY <2>1, OneLine, CodeAndData
  <2>. QED
    BY <1>0, <1>6, <2>2 DEF ReadCRC
<1>7. CASE ReadPartID \/ ReadBootCodeVersion \/ ReadFlashSig
  <2>1. PICK s \in IapStatus :
          reply' \in {<<TranslateStatus(s), DataLine>>, <<TranslateStatus(s)>>,
                      <<TranslateStatus(s), DataLine, DataLine>>, <<CMD_SUCCESS, DataLine>>}
    BY <1>7 DEF ReadPartID, ReadBootCodeVersion, ReadFlashSig
  <2>2. Nameable(reply')
    BY <2>1, OneLine, CodeAndData, TranslatedStatus
  <2>. QED
    BY <1>0, <1>7, <2>2 DEF ReadPartID, ReadBootCodeVersion, ReadFlashSig
<1>8. CASE ReadUID
  <2>1. call'.op = "N"
    BY <1>8 DEF ReadUID, NoCall
  <2>. QED
    BY <1>8, <2>1 DEF ReadUID
<1>. QED
  BY <1>1, <1>2, <1>3, <1>4, <1>5, <1>6, <1>7, <1>8

\* The commands that start to work, R apart.
LEMMA StartedWork ==
  ASSUME AnswerInv,
         \/ EnterIsp \/ PrepSectorsForWrite \/ EraseSector \/ BlankSectorCheck
         \/ CopyRAMToFlash \/ MemoryLocationsEqual \/ ImageIsValid
  PROVE  AnswerInv'
<1>0. pc = "idle" => call.op \notin {"R", "M", "CV"}
  BY DEF AnswerInv, NoCall
<1>. USE CodesInTable, PlainAnswer, Opened DEF OnlyAnswer, Answer, Dispatched, callVars
<1>1. CASE EnterIsp
  <2>1. call'.op = "isp"
    BY <1>1 DEF EnterIsp, NoCall
  <2>. QED
    BY <1>1, <2>1 DEF EnterIsp
<1>2. ASSUME NEW op \in {"P", "E", "I", "C", "M"}, NEW a, NEW b, NEW n, Dispatched,
             Enter(op, a, b, n)
      PROVE  AnswerInv'
  <2>1. call'.op = op
    BY <1>2 DEF Enter, NoCall
  <2>. QED
    BY <1>2, <2>1 DEF Enter
<1>3. ASSUME NEW code \in ReturnCodes, Dispatched, OnlyAnswer(<<code>>)
      PROVE  AnswerInv'
  BY <1>0, <1>3, OneLine
<1>4. ASSUME NEW op \in {"P", "E", "I"}, SectorCommand(op)
      PROVE  AnswerInv'
  <2>1. INVALID_SECTOR_OR_INVALID_PAGE \in ReturnCodes
    OBVIOUS
  <2>. QED
    BY <1>2, <1>3, <1>4, <2>1 DEF SectorCommand, SectorRequest
<1>5. ASSUME NEW op \in {"C", "M"}, RangeCommand(op)
      PROVE  AnswerInv'
  <2>1. ADDR_ERROR \in ReturnCodes
    OBVIOUS
  <2>. QED
    BY <1>2, <1>3, <1>5, <2>1 DEF RangeCommand, RangeRequest
<1>6. CASE ImageIsValid
  <2>1. call'.op = "CV" /\ reply' = <<>> /\ pc' \in {"halted", "close"}
    BY <1>6 DEF ImageIsValid, NoCall, AnswerInv, Halt
  <2>2. status' \in {CMD_SUCCESS, USER_CODE_CHECKSUM}
    BY <1>6 DEF ImageIsValid, AnswerInv, Halt, CMD_SUCCESS, kStatus_Success
  <2>. QED
    BY <2>1, <2>2 DEF AnswerInv, Nameable
<1>. QED
  BY <1>1, <1>4, <1>5, <1>6
  DEF PrepSectorsForWrite, EraseSector, BlankSectorCheck, CopyRAMToFlash,
      MemoryLocationsEqual

\* R of RAM: the loop goes through the pointers that the predicate allowed.
LEMMA RamReadTrue ==
  ASSUME IInv, NEW start \in Uint, NEW length \in Uint, RamRangeLegal(start, length),
         NEW i \in 1 .. length
  PROVE  RamBytes(start, length)[i] = MemoryAt(Wrap(start + i - 1))
<1>1. i - 1 \in 0 .. length - 1 /\ start + (i - 1) = start + i - 1
  BY DEF Uint
<1>2. Wrap(start + i - 1) \in RamCells
  <2>1. /\ Wrap(start + (i - 1)) = start + (i - 1) /\ start + (i - 1) \in Uint
        /\ RamAddressLegal(start + (i - 1))
    BY <1>1, RamOffsets
  <2>. QED
    BY <1>1, <2>1, LayoutFacts DEF RamAddressLegal, RamCells, Uint
<1>3. RamIndex(start, i - 1) = Wrap(start + i - 1) - kIspRamStart
  <2>. DEFINE w == Wrap(start + i - 1)
  <2>1. RamIndex(start, i - 1) = w - kRamStart - kRamOffset
    BY <1>1 DEF RamIndex, GetRamPtr
  <2>2. w \in Int
    BY <1>2, LayoutFacts DEF RamCells
  <2>. HIDE DEF w
  <2>. QED
    BY <2>1, <2>2, LayoutAssumption DEF LayoutAssumption, kIspRamStart, w
<1>. QED
  BY <1>2, <1>3 DEF RamBytes, MemoryAt

LEMMA ReadStarts ==
  ASSUME IInv, AnswerInv, ReadMemory
  PROVE  AnswerInv'
<1>0. pc = "idle" /\ UNCHANGED <<romVars, deviceVars, status>>
      /\ status = kStatus_Success /\ reply = <<>> /\ call = NoCall
  BY DEF ReadMemory, Dispatched, AnswerInv
<1>1. PICK start \in Numbers, length \in Numbers :
        IF RamRangeLegal(start, length) THEN ReadRam(start, length)
        ELSE IF FlashAddressRangeLegal(start, length) THEN ReadFlash(start, length)
        ELSE Answer(<<DataLine, ADDR_ERROR>>) /\ UNCHANGED <<call, buff>>
  BY DEF ReadMemory
<1>2. start \in Uint /\ length \in Uint
  BY ConstantTypes
<1>3. Nameable(<<DataLine, CMD_SUCCESS>>) /\ Nameable(<<DataLine, ADDR_ERROR>>)
  BY CodeAndData, CodesInTable
<1>4. ASSUME call' = [NoCall EXCEPT !.op = "R", !.a = start, !.b = length],
             pc' \in {"next", "done"}, pc' = "next" => reply' = <<>>,
             Nameable(reply'), TrueBytes', pc' = "done" => Len(buff') = call'.b
      PROVE  AnswerInv'
  <2>1. call'.op = "R"
    BY <1>4 DEF NoCall
  <2>. QED
    BY <1>0, <1>4, <2>1 DEF AnswerInv, IapStatus
<1>5. CASE RamRangeLegal(start, length)
  <2>1. PointersLegal(start, length)
    BY <1>2, <1>5, PointersAreLegal
  <2>2. /\ pc' = "done" /\ buff' = RamBytes(start, length)
        /\ reply' = <<DataLine, CMD_SUCCESS>>
        /\ call' = [NoCall EXCEPT !.op = "R", !.a = start, !.b = length]
    BY <1>1, <1>5, <2>1 DEF ReadRam, Answer
  <2>3. call'.a = start /\ call'.b = length
    BY <2>2 DEF NoCall
  <2>4. Len(buff') = length
    BY <1>2, <2>2 DEF RamBytes, Uint
  <2>5. TrueBytes'
    <3> SUFFICES ASSUME NEW i \in 1 .. length
                 PROVE  buff'[i] = MemoryAt(Wrap(start + i - 1))'
      BY <2>3, <2>4 DEF TrueBytes
    <3>1. MemoryAt(Wrap(start + i - 1))' = MemoryAt(Wrap(start + i - 1))
      BY <1>0 DEF MemoryAt, romVars, deviceVars
    <3>. QED
      BY <1>2, <1>5, <2>2, <3>1, RamReadTrue
  <2>. QED
    BY <1>3, <1>4, <2>2, <2>3, <2>4, <2>5
<1>6. CASE ~RamRangeLegal(start, length) /\ FlashAddressRangeLegal(start, length)
  <2>1. ReadFlash(start, length)
    BY <1>1, <1>6
  <2>2. buff' = <<>> /\ Len(buff') = 0
    BY <1>0, <2>1 DEF ReadFlash, IInv, IdleBuffEmpty
  <2>3. TrueBytes'
    BY <2>2 DEF TrueBytes
  <2>4. call' = [NoCall EXCEPT !.op = "R", !.a = start, !.b = length] /\ call'.b = length
    BY <2>1 DEF ReadFlash, NoCall
  <2>5. Nameable(reply') /\ (pc' = "next" => reply' = <<>>)
    BY <1>0, <1>3, <2>1 DEF ReadFlash, Answer, Nameable
  <2>6. pc' \in {"next", "done"} /\ (pc' = "done" => length = 0)
    BY <2>1 DEF ReadFlash, Answer
  <2>. QED
    BY <1>4, <2>2, <2>3, <2>4, <2>5, <2>6
<1>7. CASE ~RamRangeLegal(start, length) /\ ~FlashAddressRangeLegal(start, length)
  BY <1>0, <1>1, <1>3, <1>7, PlainAnswer DEF Answer, NoCall
<1>. QED
  BY <1>5, <1>6, <1>7

\* M: what the ROM compares is what R would read.
LEMMA ComparedBytes ==
  ASSUME IInv, InIap("M"), NEW i \in 0 .. call.n - 1
  PROVE  /\ MemoryAt(call.a + i) = flash[call.a + i]
         /\ MemoryAt(call.b + i) = IapSource(call.b, call.n)[i]
<1>1. /\ call.a \in Uint /\ call.b \in Uint /\ call.n \in Uint
      /\ FlashAddressRangeLegal(call.a, call.n) /\ RamRangeLegal(call.b, call.n)
  BY DEF IInv, TypeOK, Requests, CallLegal, InIap
<1>2. i \in Int /\ 0 <= i /\ i < call.n
  BY <1>1 DEF Uint
<1>3. call.a + i \notin RamCells
  <2>1. call.a + call.n <= kFlashEnd
    BY <1>1, <1>2, FlashRangeBounds DEF Uint
  <2>. QED
    BY <1>1, <1>2, <2>1, LayoutFacts DEF RamCells, Uint
<1>4. call.b + i \in RamCells
  <2>1. kIspRamStart <= call.b /\ call.b + call.n <= kIspRamEnd
    BY <1>1, <1>2, RamRangeBounds DEF Uint
  <2>. QED
    BY <1>1, <1>2, <2>1, LayoutFacts DEF RamCells, Uint
<1>5. (call.b + i) - kIspRamStart = GetRamPtr(call.b) + i
  BY <1>1, <1>2, LayoutAssumption DEF LayoutAssumption, GetRamPtr, kIspRamStart, Uint
<1>6. IapSource(call.b, call.n)[i] = ram[GetRamPtr(call.b) + i]
  BY DEF IapSource
<1>7. MemoryAt(call.b + i) = ram[(call.b + i) - kIspRamStart]
  BY <1>4, Zenon DEF MemoryAt
<1>8. MemoryAt(call.a + i) = flash[call.a + i]
  BY <1>3, Zenon DEF MemoryAt
<1>. QED
  BY <1>5, <1>6, <1>7, <1>8, Zenon

LEMMA RomReturns ==
  ASSUME IInv, AnswerInv, RomPrepare \/ RomErase \/ RomCopy \/ RomBlankCheck \/ RomCompare
  PROVE  AnswerInv'
<1>1. PICK s \in IapStatus : Returned(s)
  BY DEF RomPrepare, RomErase, RomCopy, RomBlankCheck, RomCompare
<1>2. pc = "iap" /\ call.op \in {"P", "E", "C", "I", "M"}
  BY DEF RomPrepare, RomErase, RomCopy, RomBlankCheck, RomCompare, InIap
<1>3. pc' = "close" /\ status' = s /\ UNCHANGED <<deviceVars, call, reply, buff>>
  BY <1>1 DEF Returned
<1>4. ASSUME call.op = "M", status' = kStatus_Success
      PROVE  SameBytes'
  <2>1. RomCompare
    BY <1>4 DEF RomPrepare, RomErase, RomCopy, RomBlankCheck, InIap
  <2>2. PICK t \in IapStatus :
          IAP_Compare(call.a, IapSource(call.b, call.n), call.n, t) /\ status' = t
    BY <2>1 DEF RomCompare, Returned
  <2>3. \A i \in 0 .. call.n - 1 : flash[call.a + i] = IapSource(call.b, call.n)[i]
    BY <1>4, <2>2 DEF IAP_Compare
  <2>4. UNCHANGED <<flash, ram, call>>
    BY <1>3, <2>2 DEF IAP_Compare, romVars, deviceVars
  <2>5. InIap("M")
    BY <1>2, <1>4 DEF InIap
  <2>6. SameBytes
    BY <2>3, <2>5, ComparedBytes DEF SameBytes
  <2>. QED
    BY <2>4, <2>6 DEF SameBytes, MemoryAt
<1>. QED
  BY <1>2, <1>3, <1>4 DEF AnswerInv

\* R of flash: the byte read is the byte at its address, and nothing changes
\* the bytes read before it.
LEMMA ReadByteTrue ==
  ASSUME IInv, AnswerInv, ReadByte
  PROVE  AnswerInv'
<1>1. /\ pc = "iap" /\ call.op = "R" /\ pc' = "close" /\ TrueBytes
      /\ UNCHANGED <<romVars, deviceVars, call, status, reply>>
  BY DEF ReadByte, InIap, AnswerInv
<1>2. /\ Len(buff) \in Nat /\ call.a \in Uint
      /\ Wrap(call.a + Len(buff)) = call.a + Len(buff)
      /\ call.a + Len(buff) \in ImageCells
  BY <1>1, ReadByteInImage DEF InIap
<1>3. buff' = Append(buff, flash[Wrap(call.a + Len(buff))]) /\ buff \in Seq(Byte)
  BY DEF ReadByte, IInv, TypeOK
<1>4. MemoryAt(Wrap(call.a + Len(buff))) = flash[Wrap(call.a + Len(buff))]
  BY <1>2, LayoutFacts DEF MemoryAt, RamCells, ImageCells
<1>5. /\ Len(buff') = Len(buff) + 1
      /\ \A i \in 1 .. Len(buff) : buff'[i] = buff[i]
      /\ buff'[Len(buff) + 1] = flash[Wrap(call.a + Len(buff))]
  <2>. DEFINE b == flash[Wrap(call.a + Len(buff))]
  <2>1. b \in Byte
    BY <1>2, LayoutFacts DEF IInv, TypeOK, FlashCells, ImageCells
  <2>. HIDE DEF b
  <2>2. buff' = Append(buff, b)
    BY <1>3 DEF b
  <2>3. /\ Len(buff') = Len(buff) + 1
        /\ \A i \in 1 .. Len(buff) : buff'[i] = buff[i]
        /\ buff'[Len(buff) + 1] = b
    BY <1>3, <2>1, <2>2
  <2>. QED
    BY <2>3 DEF b
<1>6. TrueBytes'
  <2> SUFFICES ASSUME NEW i \in 1 .. Len(buff) + 1
               PROVE  buff'[i] = MemoryAt(Wrap(call.a + i - 1))
    BY <1>1, <1>5 DEF TrueBytes, MemoryAt, romVars, deviceVars
  <2>1. CASE i = Len(buff) + 1
    <3>1. call.a + i - 1 = call.a + Len(buff)
      BY <1>2, <2>1 DEF Uint
    <3>. QED
      BY <1>4, <1>5, <2>1, <3>1
  <2>2. CASE i \in 1 .. Len(buff)
    BY <1>1, <1>5, <2>2 DEF TrueBytes
  <2>. QED
    BY <1>2, <2>1, <2>2
<1>. QED
  BY <1>1, <1>6 DEF AnswerInv

\* The section closes and the answer is made.
LEMMA LeaveTrue ==
  ASSUME IInv, AnswerInv, Leave
  PROVE  AnswerInv'
<1>1. pc = "close" /\ reply = <<>> /\ UNCHANGED <<romVars, ram, locked, transfer, callVars>>
  BY DEF Leave, AnswerInv
<1>2. TrueBytes' <=> TrueBytes
  BY <1>1 DEF TrueBytes, MemoryAt, romVars, callVars
<1>3. SameBytes' <=> SameBytes
  BY <1>1 DEF SameBytes, MemoryAt, romVars, callVars
<1>4. CASE call.op = "R" /\ pc' = "next" /\ UNCHANGED reply
  BY <1>1, <1>2, <1>4 DEF AnswerInv, callVars
<1>5. CASE call.op = "R" /\ Len(buff) >= call.b /\ Answer(<<DataLine, CMD_SUCCESS>>)
  <2>1. Len(buff) <= call.b /\ call.b \in Uint /\ Len(buff) \in Nat
    BY <1>1, <1>5 DEF IInv, CallLegal, TypeOK, Requests
  <2>2. Len(buff) = call.b
    BY <1>5, <2>1 DEF Uint
  <2>3. Nameable(reply')
    BY <1>5, CodeAndData, CodesInTable DEF Answer
  <2>. QED
    BY <1>1, <1>2, <1>5, <2>2, <2>3 DEF AnswerInv, Answer, callVars
<1>6. CASE call.op = "CV" /\ Answer(<<status>>)
  <2>1. Nameable(reply')
    BY <1>6, OneLine, CodesInTable DEF Answer, AnswerInv
  <2>. QED
    BY <1>1, <1>6, <2>1 DEF AnswerInv, Answer, callVars
<1>7. CASE call.op \notin {"R", "CV"} /\ Answer(<<TranslateStatus(status)>>)
  <2>1. status \in IapStatus
    BY <1>7 DEF AnswerInv
  <2>2. Nameable(reply')
    BY <1>7, <2>1, OneLine, TranslatedStatus DEF Answer
  <2>3. reply' = <<CMD_SUCCESS>> => status = kStatus_Success
    BY <1>7, <2>1, TranslatedStatus DEF Answer
  <2>. QED
    BY <1>1, <1>3, <1>7, <2>1, <2>2, <2>3 DEF AnswerInv, Answer, callVars
<1>. QED
  BY <1>4, <1>5, <1>6, <1>7 DEF Leave

LEMMA StepKeepsAnswers ==
  ASSUME IInv, AnswerInv, [Next]_vars
  PROVE  AnswerInv'
<1>1. CASE Command \/ FinishTransfer \/ AbandonTransfer
  BY <1>1, ImmediateAnswers, StartedWork, ReadStarts DEF Command
<1>2. CASE RomPrepare \/ RomErase \/ RomCopy \/ RomBlankCheck \/ RomCompare
  BY <1>2, RomReturns
<1>3. CASE ReadByte
  BY <1>3, ReadByteTrue
<1>4. CASE NextByte
  BY <1>4
  DEF NextByte, AnswerInv, TrueBytes, MemoryAt, romVars, callVars
<1>5. CASE Leave
  BY <1>5, LeaveTrue
<1>6. CASE Return
  <2>1. call' = NoCall /\ call'.op = "none" /\ status' = kStatus_Success /\ reply' = <<>>
    BY <1>6 DEF Return, NoCall
  <2>. QED
    BY <1>6, <2>1 DEF Return, AnswerInv, IapStatus, Nameable
<1>7. CASE PowerCycle
  BY <1>7, RestartForgets DEF PowerCycle
<1>8. CASE StoreTransfer
  <2>1. call = NoCall /\ call.op = "none" /\ status = kStatus_Success
    BY <1>8 DEF StoreTransfer, AnswerInv, NoCall
  <2>2. pc' \in {"done", "halted"} /\ UNCHANGED <<call, status, reply>>
    BY <1>8 DEF StoreTransfer, callVars
  <2>3. pc' = "done"
    BY <1>8, <2>1, <2>2, StepPreserves DEF IInv, OnlySignatureAsserts
  <2>. QED
    BY <2>1, <2>2, <2>3 DEF AnswerInv, IapStatus, Nameable
<1>9. CASE UNCHANGED vars
  BY <1>9 DEF vars, AnswerInv, TrueBytes, SameBytes, MemoryAt, Nameable
<1>. QED
  BY <1>1, <1>2, <1>3, <1>4, <1>5, <1>6, <1>7, <1>8, <1>9 DEF Next, Progress

LEMMA AnswerInvariant == Spec => [](IInv /\ AnswerInv)
<1>1. Init => AnswerInv
  <2> SUFFICES ASSUME Init PROVE AnswerInv
    OBVIOUS
  <2>1. call.op = "none"
    BY DEF Init, NoCall
  <2>. QED
    BY <2>1 DEF Init, AnswerInv, IapStatus, Nameable
<1>2. IInv /\ AnswerInv /\ [Next]_vars => AnswerInv'
  BY StepKeepsAnswers
<1>. QED
  BY <1>1, <1>2, CommandInvariant, PTL DEF Spec

\* Every response code is one that "err" can name, for every set of ROM errors
\* and every status group (IspCommands!AnswersNameable).
THEOREM EveryAnswerNameable == Spec => []AnswersNameable
<1>1. AnswerInv => AnswersNameable
  BY DEF AnswerInv, AnswersNameable, Nameable
<1>. QED
  BY <1>1, AnswerInvariant, PTL

\* R returns the bytes of the memory map (IspCommands!ReadsBack), although
\* interrupts run between two of them.
THEOREM ReadingIsTrue == Spec => []ReadsBack
<1>1. AnswerInv => ReadsBack
  BY DEF AnswerInv, ReadsBack, TrueBytes
<1>. QED
  BY <1>1, AnswerInvariant, PTL

\* M reports equality only of ranges that R would read as equal
\* (IspCommands!ComparesWhatIsRead).
THEOREM ComparingIsTrue == Spec => []ComparesWhatIsRead
<1>1. AnswerInv => ComparesWhatIsRead
  BY DEF AnswerInv, ComparesWhatIsRead, SameBytes
<1>. QED
  BY <1>1, AnswerInvariant, PTL

=============================================================================
