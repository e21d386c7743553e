------------------------- MODULE RamTransferProofs -------------------------
(***************************************************************************)
(* The W transfer for every layout, every size of the receiver's buffer    *)
(* that holds a sector, and every host: fast or slow, waiting or not.      *)
(*                                                                         *)
(* What makes the store at the end of a transfer legal was checked when    *)
(* the command was answered, an arbitrary number of calls earlier.  The    *)
(* invariant carries it from there: the operands between the answer and    *)
(* SetupWriteToRam (ArgLegal), then the receiver's own counters            *)
(* (WindowKept), until nothing is missing, "OK" is out and only the store  *)
(* is left (AllReceived).  ReadUart also runs to its end in the call that  *)
(* gives a transfer up, with the counters at zero: IdleCounters makes that *)
(* end harmless, since address 0 is not a legal start.                     *)
(***************************************************************************)
EXTENDS RamTransfer, MemoryMapProofs, SequenceTheorems

ArgLegal == pc = "setup" => RamRangeLegal(arg[1], arg[2])

IdleCounters == ~Waiting => data_count_ = 0 /\ index_ = 0 /\ ram_start_ = 0

AllReceived == pc = "store" => data_count_ = 0

\* The receiver and RAM.
ReceiverTypes ==
  /\ state_ \in {"kOperating", "kWaitingForData"}
  /\ loops_ \in 0 .. kLoopsMax + 1
  /\ data_count_ \in 0 .. kTransferSize
  /\ index_ \in 0 .. kTransferSize
  /\ ram_start_ \in Uint
  /\ buffer_ \in [0 .. kTransferSize - 1 -> Byte]
  /\ ram \in [BufferIndex -> Byte]

\* The main loop.
LoopTypes ==
  /\ pc \in {"task", "shell", "setup", "read", "store"}
  /\ arg \in Uint \X Uint
  /\ line \in {"empty", "head", "junk"}
  /\ timedOut \in BOOLEAN
  /\ upset \in BOOLEAN

LineByte == [kind : {"data", "head", "tail"}, value : Byte, request : Uint \X Uint]
Answer == {CMD_SUCCESS, ADDR_ERROR, Unknown, OK}

\* What is under way, and the host.
WireTypes ==
  /\ rx \in Seq(LineByte)
  /\ tx \in Seq(Answer)
  /\ host \in [phase : {"ready", "asked", "sending", "trusts"},
               request : Uint \X Uint, sent : Seq(Byte)]
  /\ lines \in 0 .. MaxLines
  /\ kept \in [request : Uint \X Uint, sent : Seq(Byte)]

Types == ReceiverTypes /\ LoopTypes /\ WireTypes

TransferInv == Types /\ WindowKept /\ ArgLegal /\ IdleCounters /\ AllReceived

LEMMA TypesAreTypeOK == Types <=> TypeOK
  BY DEF Types, ReceiverTypes, LoopTypes, WireTypes, LineByte, Answer, TypeOK

-----------------------------------------------------------------------------
(* Facts about the range.                                                  *)

LEMMA LegalLength ==
  ASSUME NEW start \in Uint, NEW length \in Uint, RamRangeLegal(start, length)
  PROVE  length <= kSectorSize /\ length <= kTransferSize
  BY TransferAssumption, LayoutAssumption DEF RamRangeLegal, Uint

\* No request starts at address 0: the window is above the flash.
LEMMA ZeroIsNoStart ==
  ASSUME NEW length \in Uint
  PROVE  ~RamRangeLegal(0, length)
  BY LayoutFacts, LayoutAssumption DEF RamRangeLegal, RamAddressLegal

LEMMA SizesAreUint == kSectorSize \in Uint /\ kTransferSize \in Nat /\ 0 \in Uint
  BY LayoutFacts, LayoutAssumption, TransferAssumption DEF Uint

\* The store takes every byte from the receiver's buffer and leaves the cells
\* outside the range alone.
LEMMA StoreIsSafe ==
  ASSUME NEW start \in Uint, NEW length \in 0 .. kTransferSize,
         buffer_ \in [0 .. kTransferSize - 1 -> Byte], ram \in [BufferIndex -> Byte],
         WriteToRam(start, length, buffer_)
  PROVE  /\ ram' \in [BufferIndex -> Byte]
         /\ \A k \in BufferIndex :
              k - GetRamPtr(start) \notin 0 .. length - 1 => ram'[k] = ram[k]
<1>1. CASE RamRangeLegal(start, length)
  <2>1. ram' = [k \in BufferIndex |->
                 IF k - GetRamPtr(start) \in 0 .. length - 1
                 THEN buffer_[k - GetRamPtr(start)] ELSE ram[k]]
    BY <1>1 DEF WriteToRam
  <2>2. ASSUME NEW k \in BufferIndex, k - GetRamPtr(start) \in 0 .. length - 1
        PROVE  buffer_[k - GetRamPtr(start)] \in Byte
    <3>1. k - GetRamPtr(start) \in 0 .. kTransferSize - 1
      BY <2>2, SizesAreUint
    <3>. QED
      BY <3>1
  <2>. QED
    BY <2>1, <2>2
<1>2. CASE ~RamRangeLegal(start, length)
  BY <1>2 DEF WriteToRam
<1>. QED
  BY <1>1, <1>2

LEMMA AnswersTyped == /\ CMD_SUCCESS \in Answer /\ ADDR_ERROR \in Answer
                      /\ Unknown \in Answer /\ OK \in Answer
  BY DEF Answer

LEMMA AnswerAppended ==
  ASSUME tx \in Seq(Answer), NEW a \in Answer, tx' = tx \/ tx' = Append(tx, a)
  PROVE  tx' \in Seq(Answer)
  OBVIOUS

-----------------------------------------------------------------------------
(* The invariant, one lemma for the receiver, one for the rest.            *)

LEMMA InitEstablishes == Init => TransferInv
<1> SUFFICES ASSUME Init PROVE TransferInv
  OBVIOUS
<1>1. ReceiverTypes
  BY SizesAreUint, TransferAssumption, LayoutAssumption DEF Init, ReceiverTypes
<1>2. LoopTypes
  BY SizesAreUint DEF Init, LoopTypes, NoArg
<1>3. WireTypes
  BY SizesAreUint, TransferAssumption DEF Init, WireTypes, NoArg, Quiet, NothingKept
<1>. QED
  BY <1>1, <1>2, <1>3
  DEF Init, TransferInv, Types, WindowKept, ArgLegal, IdleCounters, AllReceived, Waiting

\* What an action that touches neither the receiver nor RAM keeps of it.
LEMMA ReceiverAlone ==
  ASSUME TransferInv, UNCHANGED <<bootloaderVars, ram>>
  PROVE  ReceiverTypes' /\ WindowKept' /\ IdleCounters'
  BY DEF TransferInv, Types, ReceiverTypes, WindowKept, IdleCounters, Waiting, bootloaderVars

LEMMA EnterReadUartKeeps ==
  ASSUME TransferInv, EnterReadUart
  PROVE  TransferInv'
<1>. USE DEF EnterReadUart
<1>1. LoopTypes' /\ WireTypes'
  BY DEF TransferInv, Types, LoopTypes, WireTypes, hostVars
<1>2. ReceiverTypes' /\ WindowKept' /\ IdleCounters'
  <2>1. CASE loops_ > kLoopsMax
    BY <2>1, SizesAreUint, TransferAssumption
    DEF Reset, TransferInv, Types, ReceiverTypes, WindowKept, IdleCounters, Waiting
  <2>2. CASE ~(loops_ > kLoopsMax)
    BY <2>2, TransferAssumption
    DEF TransferInv, Types, ReceiverTypes, WindowKept, IdleCounters, Waiting
  <2>. QED
    BY <2>1, <2>2
<1>3. ArgLegal' /\ AllReceived'
  BY DEF ArgLegal, AllReceived
<1>. QED
  BY <1>1, <1>2, <1>3 DEF TransferInv, Types

LEMMA ReadDataByteKeeps ==
  ASSUME TransferInv, ReadDataByte
  PROVE  /\ TransferInv'
         /\ Waiting /\ Waiting'
         /\ index_' + data_count_' = index_ + data_count_
<1>. USE DEF ReadDataByte, MoreToRead
<1>1. Head(rx) \in LineByte /\ Tail(rx) \in Seq(LineByte)
  BY DEF TransferInv, Types, WireTypes
<1>2. LoopTypes' /\ WireTypes'
  BY <1>1 DEF TransferInv, Types, LoopTypes, WireTypes, hostVars, history
<1>3. Waiting /\ Waiting'
  BY DEF TransferInv, IdleCounters, Waiting
<1>4. index_' + data_count_' = index_ + data_count_
  BY DEF TransferInv, Types, ReceiverTypes
<1>5. ReceiverTypes'
  <2>1. Head(rx).value \in Byte
    BY <1>1 DEF LineByte
  <2>2. index_ \in 0 .. kTransferSize - 1
    BY SizesAreUint DEF TransferInv, Types, ReceiverTypes
  <2>3. buffer_' \in [0 .. kTransferSize - 1 -> Byte]
    BY <2>1, <2>2 DEF TransferInv, Types, ReceiverTypes
  <2>. QED
    BY <2>2, <2>3, SizesAreUint DEF TransferInv, Types, ReceiverTypes
<1>6. WindowKept' /\ IdleCounters' /\ ArgLegal' /\ AllReceived'
  BY <1>3, <1>4 DEF TransferInv, WindowKept, IdleCounters, ArgLegal, AllReceived
<1>. QED
  BY <1>2, <1>3, <1>4, <1>5, <1>6 DEF TransferInv, Types

LEMMA LeaveReadUartKeeps ==
  ASSUME TransferInv, LeaveReadUart
  PROVE  TransferInv'
<1>. USE DEF LeaveReadUart
<1>1. LoopTypes' /\ ArgLegal' /\ AllReceived'
  BY DEF TransferInv, Types, LoopTypes, ArgLegal, AllReceived, bootloaderVars, history
<1>2. tx' \in Seq(Answer)
  <2>1. tx' = tx \/ tx' = Append(tx, OK)
    BY Zenon
  <2>. QED
    BY <2>1, AnswersTyped, AnswerAppended DEF TransferInv, Types, WireTypes
<1>3. WireTypes'
  BY <1>2 DEF TransferInv, Types, WireTypes, hostVars
<1>4. ReceiverTypes' /\ WindowKept' /\ IdleCounters'
  BY ReceiverAlone
<1>. QED
  BY <1>1, <1>3, <1>4 DEF TransferInv, Types

LEMMA StoreDataKeeps ==
  ASSUME TransferInv, StoreData
  PROVE  TransferInv'
<1>. USE DEF StoreData
<1>1. LoopTypes' /\ WireTypes' /\ ArgLegal' /\ AllReceived'
  BY DEF TransferInv, Types, LoopTypes, WireTypes, ArgLegal, AllReceived, hostVars, history
<1>2. ram' \in [BufferIndex -> Byte]
  BY StoreIsSafe DEF TransferInv, Types, ReceiverTypes
<1>3. ReceiverTypes' /\ WindowKept' /\ IdleCounters'
  BY <1>2, SizesAreUint, TransferAssumption
  DEF Reset, TransferInv, Types, ReceiverTypes, WindowKept, IdleCounters, Waiting
<1>. QED
  BY <1>1, <1>3 DEF TransferInv, Types

LEMMA ShellKeeps ==
  ASSUME TransferInv, EnterRun \/ LeaveRun \/ ShellByte
  PROVE  TransferInv'
<1>1. UNCHANGED <<bootloaderVars, ram, arg, hostVars, history>> /\ pc' \in {"task", "shell"}
  BY DEF EnterRun, LeaveRun, ShellByte
<1>2. ReceiverTypes' /\ WindowKept' /\ IdleCounters' /\ ArgLegal' /\ AllReceived'
  BY <1>1, ReceiverAlone DEF ArgLegal, AllReceived
<1>3. LoopTypes'
  BY <1>1 DEF TransferInv, Types, LoopTypes, EnterRun, LeaveRun, ShellByte, history
<1>4. rx' \in Seq(LineByte) /\ tx' \in Seq(Answer)
  <2>1. CASE EnterRun \/ LeaveRun
    BY <2>1 DEF TransferInv, Types, WireTypes, EnterRun, LeaveRun
  <2>2. CASE ShellByte
    <3>1. tx' = tx \/ tx' = Append(tx, Unknown)
      BY <2>2, Zenon DEF ShellByte
    <3>2. rx' \in Seq(LineByte)
      BY <2>2 DEF TransferInv, Types, WireTypes, ShellByte
    <3>. QED
      BY <3>1, <3>2, AnswersTyped, AnswerAppended DEF TransferInv, Types, WireTypes
  <2>. QED
    BY <2>1, <2>2
<1>. QED
  BY <1>1, <1>2, <1>3, <1>4 DEF TransferInv, Types, WireTypes, hostVars

LEMMA ShellLineKeeps ==
  ASSUME TransferInv, ShellLine
  PROVE  TransferInv'
<1>. USE DEF ShellLine
<1>1. ReceiverTypes' /\ WindowKept' /\ IdleCounters'
  BY ReceiverAlone
<1>2. Head(rx).request \in Uint \X Uint /\ rx' \in Seq(LineByte)
  <2>1. Head(rx) \in LineByte /\ rx' \in Seq(LineByte)
    BY DEF TransferInv, Types, WireTypes
  <2>. QED
    BY <2>1 DEF LineByte
<1>3. tx' \in Seq(Answer)
  <2>1. PICK a \in Answer : tx' = Append(tx, a)
    BY AnswersTyped, Zenon
  <2>. QED
    BY <2>1, AnswerAppended DEF TransferInv, Types, WireTypes
<1>4. LoopTypes' /\ WireTypes'
  BY <1>2, <1>3 DEF TransferInv, Types, LoopTypes, WireTypes, hostVars, history
<1>5. ArgLegal' /\ AllReceived'
  BY DEF ArgLegal, AllReceived
<1>. QED
  BY <1>1, <1>4, <1>5 DEF TransferInv, Types

LEMMA AcceptTransferKeeps ==
  ASSUME TransferInv, AcceptTransfer
  PROVE  /\ TransferInv'
         /\ Waiting' /\ ram_start_' = arg[1] /\ index_' + data_count_' = arg[2]
<1>. USE DEF AcceptTransfer
<1>1. arg[1] \in Uint /\ arg[2] \in Uint /\ RamRangeLegal(arg[1], arg[2])
  BY DEF TransferInv, Types, LoopTypes, ArgLegal
<1>2. arg[2] <= kTransferSize /\ arg[2] \in Nat
  BY <1>1, LegalLength DEF Uint
<1>3. /\ ram_start_' = arg[1] /\ state_' = "kWaitingForData" /\ loops_' = 0
      /\ data_count_' = arg[2] /\ index_' = 0 /\ buffer_' = buffer_
  BY <1>2 DEF SetupWriteToRam
<1>4. index_' + data_count_' = arg[2]
  BY <1>2, <1>3
<1>5. ReceiverTypes' /\ WindowKept' /\ IdleCounters'
  BY <1>1, <1>2, <1>3, <1>4, SizesAreUint, TransferAssumption
  DEF TransferInv, Types, ReceiverTypes, WindowKept, IdleCounters, Waiting
<1>6. LoopTypes' /\ WireTypes' /\ ArgLegal' /\ AllReceived'
  BY SizesAreUint
  DEF TransferInv, Types, LoopTypes, WireTypes, ArgLegal, AllReceived, NoArg, hostVars, history
<1>. QED
  BY <1>3, <1>4, <1>5, <1>6 DEF TransferInv, Types, Waiting

LEMMA HostKeeps ==
  ASSUME TransferInv, HostCommand \/ HostData \/ HostReceives \/ HostGivesUp
  PROVE  TransferInv'
<1>1. UNCHANGED <<bootloaderVars, ram, pc, arg, line, timedOut>>
  BY DEF HostCommand, HostData, HostReceives, HostGivesUp, history
<1>2. ReceiverTypes' /\ WindowKept' /\ IdleCounters' /\ ArgLegal' /\ AllReceived'
  BY <1>1, ReceiverAlone DEF TransferInv, ArgLegal, AllReceived, bootloaderVars
<1>3. LoopTypes'
  BY <1>1 DEF TransferInv, Types, LoopTypes, HostCommand, HostData, HostReceives, HostGivesUp,
              history
<1>4. WireTypes'
  <2>. USE DEF TransferInv, Types, WireTypes
  <2>1. CASE HostCommand
    <3>1. PICK r \in Requests :
            /\ rx' = rx \o <<HeadOf, TailOf(r)>>
            /\ host' = [phase |-> "asked", request |-> r, sent |-> <<>>]
      BY <2>1 DEF HostCommand
    <3>2. HeadOf \in LineByte /\ TailOf(r) \in LineByte /\ r \in Uint \X Uint
      BY TransferAssumption, SizesAreUint DEF HeadOf, TailOf, LineByte
    <3>3. lines' \in 0 .. MaxLines
      BY <2>1, TransferAssumption DEF HostCommand
    <3>4. rx' \in Seq(LineByte)
      BY <3>1, <3>2
    <3>5. host' \in [phase : {"ready", "asked", "sending", "trusts"},
                     request : Uint \X Uint, sent : Seq(Byte)]
      BY <3>1, <3>2
    <3>. QED
      BY <2>1, <3>3, <3>4, <3>5 DEF HostCommand
  <2>2. CASE HostData
    <3>1. PICK b \in Byte : /\ rx' = Append(rx, DataOf(b))
                            /\ host' = [host EXCEPT !.sent = Append(@, b)]
      BY <2>2 DEF HostData
    <3>2. DataOf(b) \in LineByte
      BY SizesAreUint DEF DataOf, LineByte
    <3>3. rx' \in Seq(LineByte)
      BY <3>1, <3>2
    <3>4. Append(host.sent, b) \in Seq(Byte)
      OBVIOUS
    <3>5. host' \in [phase : {"ready", "asked", "sending", "trusts"},
                     request : Uint \X Uint, sent : Seq(Byte)]
      BY <3>1, <3>4
    <3>. QED
      BY <2>2, <3>3, <3>5 DEF HostData
  <2>3. CASE HostReceives
    <3>1. PICK p \in {"ready", "asked", "sending", "trusts"} : host' = [host EXCEPT !.phase = p]
      BY <2>3, Zenon DEF HostReceives
    <3>2. tx' \in Seq(Answer)
      BY <2>3 DEF HostReceives
    <3>3. host' \in [phase : {"ready", "asked", "sending", "trusts"},
                     request : Uint \X Uint, sent : Seq(Byte)]
      BY <3>1
    <3>4. kept' \in [request : Uint \X Uint, sent : Seq(Byte)]
      <4>1. \/ kept' = kept \/ kept' = NothingKept
            \/ kept' = [request |-> host.request, sent |-> host.sent]
        BY <2>3, Zenon DEF HostReceives
      <4>2. host.request \in Uint \X Uint /\ host.sent \in Seq(Byte)
        OBVIOUS
      <4>3. NothingKept \in [request : Uint \X Uint, sent : Seq(Byte)]
        BY SizesAreUint DEF NothingKept, NoArg
      <4>. QED
        BY <4>1, <4>2, <4>3
    <3>. QED
      BY <2>3, <3>2, <3>3, <3>4 DEF HostReceives
  <2>4. CASE HostGivesUp
    BY <2>4, SizesAreUint DEF HostGivesUp, Quiet, NothingKept, NoArg
  <2>. QED
    BY <2>1, <2>2, <2>3, <2>4
<1>. QED
  BY <1>2, <1>3, <1>4 DEF TransferInv, Types

LEMMA RestartKeeps ==
  ASSUME TransferInv, Restart
  PROVE  TransferInv'
<1>. USE DEF Restart, Reset
<1>1. ReceiverTypes' /\ WindowKept' /\ IdleCounters'
  BY SizesAreUint, TransferAssumption
  DEF ReceiverTypes, WindowKept, IdleCounters, Waiting
<1>2. LoopTypes' /\ WireTypes' /\ ArgLegal' /\ AllReceived'
  BY SizesAreUint
  DEF TransferInv, Types, LoopTypes, WireTypes, ArgLegal, AllReceived, NoArg, hostVars
<1>. QED
  BY <1>1, <1>2 DEF TransferInv, Types

LEMMA StutterKeeps ==
  ASSUME TransferInv, UNCHANGED vars
  PROVE  TransferInv'
<1>1. ReceiverTypes' /\ WindowKept' /\ IdleCounters'
  BY ReceiverAlone DEF vars
<1>2. LoopTypes' /\ WireTypes' /\ ArgLegal' /\ AllReceived'
  BY DEF TransferInv, Types, LoopTypes, WireTypes, ArgLegal, AllReceived, vars,
         bootloaderVars, hostVars, history
<1>. QED
  BY <1>1, <1>2 DEF TransferInv, Types

LEMMA TransferInvariant == Spec => []TransferInv
<1>1. TransferInv /\ [Next]_vars => TransferInv'
  BY EnterReadUartKeeps, ReadDataByteKeeps, LeaveReadUartKeeps, StoreDataKeeps,
     ShellKeeps, ShellLineKeeps, AcceptTransferKeeps, HostKeeps, RestartKeeps, StutterKeeps
  DEF Next, Device
<1>. QED
  BY <1>1, InitEstablishes, PTL DEF Spec

-----------------------------------------------------------------------------
(* What the runs check, for every value of the constants.                  *)

\* Type correctness of the transfer: in particular index_ and data_count_ stay
\* within buffer_ of Isp::Bootloader, whatever the host sends.
THEOREM TransferTypes == Spec => []TypeOK
<1>1. TransferInv => TypeOK
  BY TypesAreTypeOK DEF TransferInv
<1>. QED
  BY <1>1, TransferInvariant, PTL

\* The range validated when W was answered is the range that is received,
\* and it fits the receiver's buffer, for every host.
THEOREM ValidatedRangeKept == Spec => []WindowKept
<1>1. TransferInv => WindowKept
  BY DEF TransferInv
<1>. QED
  BY <1>1, TransferInvariant, PTL

-----------------------------------------------------------------------------
(* The receiver implements RamWrite.                                       *)

\* A step that changes neither RAM nor the committed request.
Unseen == UNCHANGED <<ram, Committed>>

PromiseStep == Promise!Next \/ Unseen

\* RamWrite sees the same memory map.
LEMMA SameMap ==
  /\ Promise!Uint = Uint
  /\ Promise!BufferIndex = BufferIndex
  /\ \A start, length : Promise!RamRangeLegal(start, length) = RamRangeLegal(start, length)
  /\ \A address : Promise!GetRamPtr(address) = GetRamPtr(address)
  BY DEF Promise!Uint, Uint, Promise!BufferIndex, BufferIndex,
         Promise!RamRangeLegal, RamRangeLegal, Promise!RamAddressLegal, RamAddressLegal,
         Promise!Wrap, Wrap, Promise!GetRamPtr, GetRamPtr,
         Promise!kIspRamStart, kIspRamStart, Promise!kIspRamEnd, kIspRamEnd

LEMMA InitRefines == Init => Promise!Init
  BY SameMap DEF Init, Promise!Init, Promise!Cleared, Promise!Nothing, Committed, Waiting

\* Giving up is a Drop; the last, empty call of a transfer given up is unseen.
LEMMA EnterReadUartRefines ==
  ASSUME TransferInv, EnterReadUart
  PROVE  PromiseStep
<1>1. pc = "task" /\ pc' = "read" /\ Waiting /\ ram' = ram
  BY DEF EnterReadUart, Waiting
<1>2. CASE loops_ > kLoopsMax
  <2>1. ~Waiting'
    BY <1>2 DEF EnterReadUart, Reset, Waiting
  <2>. QED
    BY <1>1, <2>1 DEF PromiseStep, Promise!Next, Promise!Drop, Promise!Nothing, Committed
<1>3. CASE ~(loops_ > kLoopsMax)
  <2>1. UNCHANGED <<state_, data_count_, index_, ram_start_>>
    BY <1>3 DEF EnterReadUart
  <2>. QED
    BY <1>1, <2>1 DEF PromiseStep, Unseen, Committed, Waiting
<1>. QED
  BY <1>2, <1>3

\* A byte received moves the boundary between received and missing, not the
\* request.
LEMMA ReadDataByteRefines ==
  ASSUME TransferInv, ReadDataByte
  PROVE  PromiseStep
<1>1. Waiting /\ Waiting' /\ index_' + data_count_' = index_ + data_count_
  BY ReadDataByteKeeps
<1>2. ram' = ram /\ ram_start_' = ram_start_ /\ pc = "read" /\ pc' = "read"
  BY DEF ReadDataByte
<1>. QED
  BY <1>1, <1>2 DEF PromiseStep, Unseen, Committed

\* "OK" alone is unseen: the request stays open until the store.
LEMMA LeaveReadUartRefines ==
  ASSUME TransferInv, LeaveReadUart
  PROVE  PromiseStep
<1>1. pc = "read" /\ pc' \in {"task", "store"} /\ UNCHANGED <<bootloaderVars, ram>>
  BY DEF LeaveReadUart
<1>. QED
  BY <1>1 DEF PromiseStep, Unseen, Committed, Waiting, bootloaderVars

\* The end of a transfer is a Store of the whole request; the empty store that
\* ends a transfer given up is unseen.
LEMMA StoreDataRefines ==
  ASSUME TransferInv, StoreData
  PROVE  PromiseStep
<1>1. pc = "store" /\ pc' = "task" /\ data_count_ = 0
  BY DEF StoreData, TransferInv, AllReceived
<1>2. WriteToRam(ram_start_, index_, buffer_) /\ ~Waiting'
  BY DEF StoreData, Reset, Waiting
<1>3. CASE ~Waiting
  <2>1. ram_start_ = 0 /\ index_ = 0
    BY <1>3 DEF TransferInv, IdleCounters
  <2>2. ~RamRangeLegal(ram_start_, index_)
    BY <2>1, ZeroIsNoStart, SizesAreUint
  <2>3. ram' = ram
    BY <1>2, <2>2 DEF WriteToRam
  <2>. QED
    BY <1>1, <1>2, <1>3, <2>3 DEF PromiseStep, Unseen, Committed
<1>4. CASE Waiting
  <2>1. index_ + data_count_ = index_ /\ index_ \in 0 .. kTransferSize /\ ram_start_ \in Uint
    BY <1>1, SizesAreUint DEF TransferInv, Types, ReceiverTypes
  <2>2. Committed = [start |-> ram_start_, length |-> index_, open |-> TRUE]
    BY <1>1, <1>4, <2>1 DEF Committed
  <2>3. Committed' = Promise!Nothing
    BY <1>1, <1>2 DEF Committed, Promise!Nothing
  <2>4. /\ ram' \in [BufferIndex -> Byte]
        /\ \A k \in BufferIndex :
             k - GetRamPtr(ram_start_) \notin 0 .. index_ - 1 => ram'[k] = ram[k]
    BY <1>2, <2>1, StoreIsSafe DEF TransferInv, Types, ReceiverTypes
  <2>5. \A k \in BufferIndex : ~Promise!Covers(Committed, k) => ram'[k] = ram[k]
    BY <2>2, <2>4, SameMap DEF Promise!Covers
  <2>6. Promise!Store
    BY <2>2, <2>3, <2>4, <2>5, SameMap DEF Promise!Store
  <2>. QED
    BY <2>6 DEF PromiseStep, Promise!Next
<1>. QED
  BY <1>3, <1>4

\* A line answered with success is an Accept; every other line is unseen.
LEMMA ShellLineRefines ==
  ASSUME TransferInv, ShellLine
  PROVE  PromiseStep
<1>1. ram' = ram /\ pc = "shell" /\ UNCHANGED bootloaderVars
  BY DEF ShellLine
<1>2. CASE pc' = "setup"
  <2>1. Head(rx).request \in Uint \X Uint
    <3>1. Head(rx) \in LineByte
      BY DEF ShellLine, TransferInv, Types, WireTypes
    <3>. QED
      BY <3>1 DEF LineByte
  <2>2. arg' = Head(rx).request /\ RamRangeLegal(arg'[1], arg'[2])
    BY <1>1, <1>2 DEF ShellLine
  <2>3. Committed' = [start |-> arg'[1], length |-> arg'[2], open |-> TRUE]
    BY <1>2 DEF Committed
  <2>4. arg'[1] \in Uint /\ arg'[2] \in Uint
    BY <2>1, <2>2
  <2>5. Promise!Accept
    BY <1>1, <2>2, <2>3, <2>4, SameMap DEF Promise!Accept
  <2>. QED
    BY <2>5 DEF PromiseStep, Promise!Next
<1>3. CASE pc' # "setup"
  <2>1. pc' = pc
    BY <1>3 DEF ShellLine
  <2>. QED
    BY <1>1, <2>1 DEF PromiseStep, Unseen, Committed, Waiting, bootloaderVars
<1>. QED
  BY <1>2, <1>3

\* SetupWriteToRam takes over exactly the request that was answered.
LEMMA AcceptTransferRefines ==
  ASSUME TransferInv, AcceptTransfer
  PROVE  PromiseStep
<1>1. Waiting' /\ ram_start_' = arg[1] /\ index_' + data_count_' = arg[2]
  BY AcceptTransferKeeps
<1>2. pc = "setup" /\ pc' = "shell" /\ ram' = ram
  BY DEF AcceptTransfer
<1>. QED
  BY <1>1, <1>2 DEF PromiseStep, Unseen, Committed

LEMMA RestartRefines ==
  ASSUME Restart
  PROVE  PromiseStep
<1>1. pc' = "task" /\ ~Waiting' /\ ram' = Promise!Cleared
  BY SameMap DEF Restart, Reset, Waiting, Promise!Cleared
<1>. QED
  BY <1>1 DEF PromiseStep, Promise!Next, Promise!Restart, Promise!Nothing, Committed

\* Nothing else is seen: the shell's loop and the host.
LEMMA OthersRefine ==
  ASSUME \/ EnterRun \/ LeaveRun \/ ShellByte
         \/ HostCommand \/ HostData \/ HostReceives \/ HostGivesUp
         \/ UNCHANGED vars
  PROVE  PromiseStep
<1>1. UNCHANGED <<bootloaderVars, ram, arg>>
  BY DEF EnterRun, LeaveRun, ShellByte, HostCommand, HostData, HostReceives, HostGivesUp, vars
<1>2. pc' = pc \/ (pc # "setup" /\ pc' # "setup")
  BY DEF EnterRun, LeaveRun, ShellByte, HostCommand, HostData, HostReceives, HostGivesUp, vars
<1>. QED
  BY <1>1, <1>2 DEF PromiseStep, Unseen, Committed, Waiting, bootloaderVars

\* RAM changes only by the store of a whole accepted request, at most one
\* request is open, and a transfer given up leaves RAM as it was: ReadUart and
\* cmd_write_to_ram together implement RamWrite, for every host.
THEOREM TransferImplementsRamWrite == Spec => KeepsPromise
<1>1. TransferInv /\ [Next]_vars => [Promise!Next]_<<ram, Committed>>
  <2> SUFFICES ASSUME TransferInv, [Next]_vars PROVE PromiseStep
    BY DEF PromiseStep, Unseen
  <2>. QED
    BY EnterReadUartRefines, ReadDataByteRefines, LeaveReadUartRefines, StoreDataRefines,
       ShellLineRefines, AcceptTransferRefines, RestartRefines, OthersRefine
    DEF Next, Device
<1>. QED
  BY <1>1, InitRefines, TransferInvariant, PTL DEF Spec, KeepsPromise, Promise!Spec

-----------------------------------------------------------------------------
(* A host that waits for every answer: its data reaches the receiver and   *)
(* its "OK" is true, for every layout, buffer size and set of requests, as *)
(* long as no transfer was given up, by either side, and nothing was       *)
(* reset.                                                                  *)
(*                                                                         *)
(* Neither property is inductive.  That the shell never sees a byte of the *)
(* data depends on what is on the line, in both directions, at each stage  *)
(* of the exchange; Protocol names the stages.  "OK" overtakes the store,  *)
(* and the host may have read it, and sent its next command, before the    *)
(* store is made: Storing is that state, in whichever stage it is met, and *)
(* Believed says that what the host takes for stored is, or is about to be.*)

Calm == ~Streams /\ ~Prompt /\ ~timedOut /\ ~upset

request == host.request
Between == ~Waiting /\ pc \in {"task", "shell"}

\* "OK" is out for the transfer of data to r; the store is the next step.
Storing(r, data) ==
  /\ pc = "store" /\ Waiting /\ data_count_ = 0
  /\ ram_start_ = r[1] /\ index_ = r[2] /\ Len(data) = r[2]
  /\ \A k \in 1 .. index_ : buffer_[k - 1] = data[k]

Landed(r, data) == (Between /\ Stored(r, data)) \/ Storing(r, data)

Believed == Stored(kept.request, kept.sent) \/ Storing(kept.request, kept.sent)

\* Between two transfers, or before the store of the one the host had "OK" for.
Ended == Between \/ Storing(kept.request, kept.sent)

\* Nothing is under way.
Resting ==
  /\ host.phase \in {"ready", "trusts"} /\ Ended
  /\ rx = <<>> /\ tx = <<>> /\ line = "empty"

\* The command is on the line, or half of it is in the shell.
Commanded ==
  /\ host.phase = "asked" /\ host.sent = <<>> /\ Ended
  /\ rx = <<HeadOf, TailOf(request)>> /\ tx = <<>> /\ line = "empty"

HalfRead ==
  /\ host.phase = "asked" /\ host.sent = <<>> /\ ~Waiting /\ pc = "shell"
  /\ rx = <<TailOf(request)>> /\ tx = <<>> /\ line = "head"

Refused ==
  /\ host.phase = "asked" /\ Between
  /\ rx = <<>> /\ tx = <<ADDR_ERROR>> /\ line = "empty"

\* It was answered; the host has not read the answer.
Granted ==
  /\ host.phase = "asked" /\ host.sent = <<>> /\ ~Waiting /\ pc = "setup"
  /\ rx = <<>> /\ tx = <<CMD_SUCCESS>> /\ line = "empty"
  /\ arg = request

Armed ==
  /\ host.phase = "asked" /\ host.sent = <<>> /\ Waiting /\ pc \in {"task", "shell", "read"}
  /\ rx = <<>> /\ tx = <<CMD_SUCCESS>> /\ line = "empty"
  /\ ram_start_ = request[1] /\ index_ = 0 /\ data_count_ = request[2]

\* What the host has sent is in the receiver's buffer, then on the line.
Receiving ==
  /\ host.phase = "sending" /\ Waiting /\ pc \in {"task", "read"} /\ kept = NothingKept
  /\ tx = <<>> /\ line = "empty"
  /\ ram_start_ = request[1] /\ index_ + data_count_ = request[2]
  /\ Len(host.sent) = index_ + Len(rx) /\ Len(host.sent) <= request[2]
  /\ \A k \in 1 .. index_ : buffer_[k - 1] = host.sent[k]
  /\ \A k \in 1 .. Len(rx) : rx[k].kind = "data" /\ rx[k].value = host.sent[index_ + k]

\* "OK" is on its way, right behind the answer if the request was empty.
Confirmed ==
  /\ Landed(request, host.sent) /\ rx = <<>> /\ line = "empty"
  /\ \/ host.phase = "asked" /\ tx = <<CMD_SUCCESS, OK>> /\ host.sent = <<>>
     \/ host.phase = "sending" /\ tx = <<OK>> /\ kept = NothingKept
  /\ Len(host.sent) = request[2]

Protocol ==
  \/ Resting \/ Commanded \/ HalfRead \/ Refused \/ Granted \/ Armed \/ Receiving
  \/ Confirmed

DeliveryInv == TransferInv /\ (Calm => Protocol /\ Believed)

-----------------------------------------------------------------------------
(* One stage leads to the next.                                            *)

LEMMA CalmBefore ==
  ASSUME TransferInv, [Next]_vars, Calm'
  PROVE  Calm
<1>1. timedOut \in BOOLEAN /\ upset \in BOOLEAN
  BY DEF TransferInv, Types, LoopTypes
<1>2. (timedOut' = timedOut \/ timedOut') /\ (upset' = upset \/ upset')
  BY <1>1
  DEF Next, Device, EnterReadUart, ReadDataByte, LeaveReadUart, StoreData, EnterRun,
      LeaveRun, ShellByte, ShellLine, AcceptTransfer, HostCommand, HostData, HostReceives,
      HostGivesUp, Restart, vars, history
<1>. QED
  BY <1>2 DEF Calm

\* A stage only looks at these variables, and at pc.
LEMMA StagesUnchanged ==
  ASSUME UNCHANGED <<bootloaderVars, ram, arg, line, rx, tx, host, kept>>
  PROVE  /\ (request' = request) /\ (Waiting' = Waiting)
         /\ (Stored(request, host.sent))' = Stored(request, host.sent)
  BY DEF request, Waiting, Stored, bootloaderVars

\* What the host believes is at stake only in the store.
LEMMA BeliefOutsideStore ==
  ASSUME Believed, UNCHANGED <<ram, kept>>, pc # "store"
  PROVE  Believed'
  BY DEF Believed, Stored, Storing

LEMMA BeliefBesideLoop ==
  ASSUME Believed, UNCHANGED <<bootloaderVars, ram, kept, pc>>
  PROVE  Believed'
  BY DEF Believed, Stored, Storing, Waiting, bootloaderVars

LEMMA RoundStarts ==
  ASSUME Protocol, EnterReadUart, ~timedOut'
  PROVE  Protocol'
<1>1. pc = "task" /\ Waiting /\ pc' = "read"
  BY DEF EnterReadUart, Waiting
<1>2. /\ UNCHANGED <<state_, data_count_, index_, ram_start_, buffer_, ram>>
      /\ UNCHANGED <<arg, line, rx, tx, host, kept>>
  BY DEF EnterReadUart, hostVars
<1>3. Armed \/ Receiving
  BY <1>1 DEF Protocol, Resting, Commanded, HalfRead, Refused, Granted, Confirmed, Landed,
              Ended, Storing, Between
<1>4. Armed => Armed'
  BY <1>1, <1>2 DEF Armed, Waiting, request
<1>5. Receiving => Receiving'
  BY <1>1, <1>2 DEF Receiving, Waiting, request
<1>. QED
  BY <1>3, <1>4, <1>5 DEF Protocol

LEMMA ShellLoops ==
  ASSUME Protocol, EnterRun \/ LeaveRun
  PROVE  Protocol'
<1>1. UNCHANGED <<bootloaderVars, ram, arg, line, rx, tx, host, kept>>
  BY DEF EnterRun, LeaveRun, hostVars
<1>2. pc \in {"task", "shell"} /\ pc' \in {"task", "shell"}
  BY DEF EnterRun, LeaveRun
<1>3. LeaveRun => rx = <<>>
  BY DEF LeaveRun
<1>4. EnterRun => ~Waiting
  BY DEF EnterRun, Waiting
<1>5. CASE Resting \/ Refused \/ Confirmed
  BY <1>1, <1>2, <1>5, StagesUnchanged
  DEF Protocol, Resting, Refused, Confirmed, Landed, Ended, Storing, Between
<1>6. CASE Commanded
  BY <1>1, <1>2, <1>6, StagesUnchanged DEF Protocol, Commanded, Ended, Storing, Between
<1>7. CASE Armed
  BY <1>1, <1>2, <1>7, StagesUnchanged DEF Protocol, Armed, bootloaderVars
<1>8. ~HalfRead /\ ~Granted /\ ~Receiving
  <2>1. ~HalfRead
    BY <1>3 DEF HalfRead, EnterRun
  <2>2. ~Granted
    BY <1>2 DEF Granted
  <2>3. ~Receiving
    BY <1>4 DEF Receiving, LeaveRun
  <2>. QED
    BY <2>1, <2>2, <2>3
<1>. QED
  BY <1>5, <1>6, <1>7, <1>8 DEF Protocol

LEMMA LineArrives ==
  ASSUME TransferInv, Protocol, ShellByte \/ ShellLine
  PROVE  Protocol'
<1>1. /\ pc = "shell" /\ rx # <<>> /\ rx' = Tail(rx)
      /\ UNCHANGED <<bootloaderVars, ram, host>>
  BY DEF ShellByte, ShellLine, hostVars
<1>2. Commanded \/ HalfRead
  BY <1>1 DEF Protocol, Resting, Refused, Granted, Armed, Receiving, Confirmed
<1>3. UNCHANGED <<request, host>> /\ Waiting' = Waiting
  BY <1>1 DEF request, Waiting, bootloaderVars
<1>4. CASE Commanded
  <2>1. Head(rx) = HeadOf /\ Tail(rx) = <<TailOf(request)>>
    BY <1>4 DEF Commanded
  <2>2. HeadOf.kind = "head"
    BY DEF HeadOf
  <2>3. line' = "head" /\ UNCHANGED <<tx, pc>>
    BY <1>4, <2>1, <2>2 DEF Commanded, ShellByte, ShellLine
  <2>. QED
    BY <1>1, <1>3, <1>4, <2>1, <2>3 DEF Protocol, Commanded, HalfRead, Ended, Storing, Between
<1>5. CASE HalfRead
  <2>1. Head(rx) = TailOf(request) /\ Tail(rx) = <<>>
    BY <1>5 DEF HalfRead
  <2>2. TailOf(request).kind = "tail" /\ TailOf(request).request = request
    BY DEF TailOf
  <2>3. /\ line' = "empty" /\ rx' = <<>>
        /\ \/ tx' = Append(tx, CMD_SUCCESS) /\ arg' = request /\ pc' = "setup"
           \/ tx' = Append(tx, ADDR_ERROR) /\ UNCHANGED pc
    BY <1>1, <1>5, <2>1, <2>2 DEF HalfRead, ShellByte, ShellLine
  <2>4. /\ tx' \in {<<CMD_SUCCESS>>, <<ADDR_ERROR>>}
        /\ tx' = <<CMD_SUCCESS>> => pc' = "setup" /\ arg' = request
    BY <1>5, <2>3 DEF HalfRead, CMD_SUCCESS, ADDR_ERROR
  <2>5. CASE tx' = <<CMD_SUCCESS>>
    BY <1>3, <1>5, <2>3, <2>4, <2>5 DEF Protocol, HalfRead, Granted
  <2>6. CASE tx' = <<ADDR_ERROR>> /\ UNCHANGED pc
    BY <1>3, <1>5, <2>3, <2>6 DEF Protocol, HalfRead, Refused, Between
  <2>. QED
    BY <1>5, <2>3, <2>4, <2>5, <2>6 DEF HalfRead, CMD_SUCCESS, ADDR_ERROR
<1>. QED
  BY <1>2, <1>4, <1>5

LEMMA BelowLast ==
  ASSUME NEW n \in Nat, n \in 0 .. kTransferSize - 1, NEW k \in 1 .. n + 1, k # n + 1
  PROVE  k \in 1 .. n /\ k - 1 \in 0 .. kTransferSize - 1 /\ k - 1 # n
  BY TransferAssumption

LEMMA DataTaken ==
  ASSUME TransferInv, Protocol, ReadDataByte
  PROVE  Protocol'
<1>. USE DEF ReadDataByte, MoreToRead
<1>1. Receiving
  BY DEF Protocol, Resting, Commanded, HalfRead, Refused, Granted, Armed, Confirmed, Landed,
         Ended, Storing, Between
<1>2. /\ index_ \in Nat /\ data_count_ \in Nat /\ index_ \in 0 .. kTransferSize - 1
      /\ buffer_ \in [0 .. kTransferSize - 1 -> Byte] /\ rx \in Seq(LineByte)
      /\ request[2] = index_ + data_count_
  BY <1>1, SizesAreUint DEF TransferInv, Types, ReceiverTypes, WireTypes, Receiving
<1>3. index_' = index_ + 1 /\ index_' + data_count_' = index_ + data_count_
  BY <1>2
<1>4. /\ UNCHANGED <<request, host, kept, ram_start_, tx, line, pc>> /\ Waiting' = Waiting
  BY DEF request, Waiting, hostVars
<1>5. Len(rx) = Len(rx') + 1 /\ Len(rx') \in Nat /\ \A k \in 1 .. Len(rx') : rx'[k] = rx[k + 1]
  BY <1>2
<1>6. Len(host.sent) = index_' + Len(rx')
  BY <1>1, <1>2, <1>3, <1>5 DEF Receiving
<1>7. \A k \in 1 .. Len(rx') : rx'[k].kind = "data" /\ rx'[k].value = host.sent[index_' + k]
  <2>. SUFFICES ASSUME NEW k \in 1 .. Len(rx')
                PROVE  rx'[k].kind = "data" /\ rx'[k].value = host.sent[index_' + k]
    OBVIOUS
  <2>1. k + 1 \in 1 .. Len(rx) /\ index_' + k = index_ + (k + 1)
    BY <1>2, <1>3, <1>5
  <2>2. rx[k + 1].kind = "data" /\ rx[k + 1].value = host.sent[index_ + (k + 1)]
    BY <1>1, <2>1 DEF Receiving
  <2>3. rx'[k] = rx[k + 1]
    BY <1>5
  <2>. QED
    BY <2>1, <2>2, <2>3, Zenon
<1>8. \A k \in 1 .. index_' : buffer_'[k - 1] = host.sent[k]
  <2>. SUFFICES ASSUME NEW k \in 1 .. index_ + 1 PROVE buffer_'[k - 1] = host.sent[k]
    BY <1>3, Zenon
  <2>1. CASE k = index_ + 1
    <3>1. k - 1 = index_ /\ 1 \in 1 .. Len(rx)
      BY <1>2, <1>5, <2>1
    <3>2. rx[1].value = host.sent[index_ + 1] /\ Head(rx) = rx[1]
      BY <1>1, <1>2, <3>1 DEF Receiving
    <3>. QED
      BY <1>2, <2>1, <3>1, <3>2
  <2>2. CASE k # index_ + 1
    <3>1. k \in 1 .. index_ /\ k - 1 \in 0 .. kTransferSize - 1 /\ k - 1 # index_
      BY <1>2, <2>2, BelowLast
    <3>2. buffer_[k - 1] = host.sent[k]
      BY <1>1, <3>1 DEF Receiving
    <3>. QED
      BY <1>2, <3>1, <3>2
  <2>. QED
    BY <2>1, <2>2
<1>9. Receiving'
  BY <1>1, <1>2, <1>3, <1>4, <1>6, <1>7, <1>8 DEF Receiving
<1>. QED
  BY <1>9 DEF Protocol

\* What StoreData leaves in RAM.
LEMMA StoredByWrite ==
  ASSUME TransferInv, Waiting, data_count_ = 0, WriteToRam(ram_start_, index_, buffer_),
         NEW sent, Len(sent) = index_, \A k \in 1 .. index_ : buffer_[k - 1] = sent[k]
  PROVE  \A i \in 1 .. Len(sent) : ram'[GetRamPtr(ram_start_) + i - 1] = sent[i]
<1>1. /\ ram_start_ \in Uint /\ index_ \in Nat /\ index_ \in Uint
      /\ RamRangeLegal(ram_start_, index_)
  <2>1. index_ \in Nat /\ index_ + data_count_ = index_ /\ ram_start_ \in Uint
    BY DEF TransferInv, Types, ReceiverTypes
  <2>2. RamRangeLegal(ram_start_, index_)
    BY <2>1 DEF TransferInv, WindowKept
  <2>3. index_ <= kSectorSize
    BY <2>1, <2>2, LayoutAssumption DEF RamRangeLegal
  <2>. QED
    BY <2>1, <2>2, <2>3, LayoutFacts, LayoutAssumption DEF Uint
<1>2. ram' = [k \in BufferIndex |->
                 IF k - GetRamPtr(ram_start_) \in 0 .. index_ - 1
                 THEN buffer_[k - GetRamPtr(ram_start_)] ELSE ram[k]]
  BY <1>1 DEF WriteToRam
<1>. SUFFICES ASSUME NEW i \in 1 .. index_
              PROVE  ram'[GetRamPtr(ram_start_) + i - 1] = sent[i]
  OBVIOUS
<1>3. /\ GetRamPtr(ram_start_) \in Int
      /\ (GetRamPtr(ram_start_) + i) - 1 \in BufferIndex
  <2>1. kIspRamStart <= ram_start_ /\ ram_start_ + index_ <= kIspRamEnd
    <3>1. index_ > 0
      BY <1>1
    <3>. QED
      BY <1>1, <3>1, RamRangeBounds, Zenon
  <2>2. ram_start_ \in Int /\ kIspRamStart \in Int /\ kSectorSize \in Int
    BY <1>1, LayoutFacts, LayoutAssumption DEF Uint
  <2>3. GetRamPtr(ram_start_) = ram_start_ - kIspRamStart
    BY <2>2, LayoutAssumption DEF GetRamPtr, kIspRamStart
  <2>4. kIspRamEnd = kIspRamStart + kSectorSize
    BY LayoutFacts
  <2>. QED
    BY <1>1, <2>1, <2>2, <2>3, <2>4 DEF BufferIndex
<1>4. /\ ((GetRamPtr(ram_start_) + i) - 1) - GetRamPtr(ram_start_) = i - 1
      /\ i - 1 \in 0 .. index_ - 1
  BY <1>1, <1>3
<1>. QED
  BY <1>1, <1>2, <1>3, <1>4


LEMMA AppendShort ==
  ASSUME NEW a \in Int, NEW b \in Int
  PROVE  Append(<<a>>, b) = <<a, b>> /\ Append(<<>>, b) = <<b>>
<1>1. <<a, b>> \in Seq(Int) /\ <<b>> \in Seq(Int) /\ <<a>> \in Seq(Int)
  OBVIOUS
<1>2. Append(<<a>>, b) = <<a, b>>
  <2>1. /\ Append(<<a>>, b) \in Seq(Int) /\ Len(Append(<<a>>, b)) = 2
        /\ Append(<<a>>, b)[1] = a /\ Append(<<a>>, b)[2] = b
    BY <1>1, AppendProperties
  <2>2. Len(<<a, b>>) = 2 /\ <<a, b>>[1] = a /\ <<a, b>>[2] = b
    OBVIOUS
  <2>3. \A i \in 1 .. 2 : i = 1 \/ i = 2
    OBVIOUS
  <2>4. \A i \in 1 .. Len(Append(<<a>>, b)) : Append(<<a>>, b)[i] = <<a, b>>[i]
    BY <2>1, <2>2, <2>3, Zenon
  <2>. QED
    BY <1>1, <2>1, <2>2, <2>4, SeqEqual, Zenon
<1>3. Append(<<>>, b) = <<b>>
  BY <1>1
<1>. QED
  BY <1>2, <1>3

LEMMA TransferCompletes ==
  ASSUME TransferInv, Protocol, LeaveReadUart
  PROVE  Protocol'
<1>1. /\ pc = "read" /\ ~MoreToRead
      /\ UNCHANGED <<bootloaderVars, ram, arg, line, rx, host, kept>>
  BY DEF LeaveReadUart, hostVars
<1>2. Armed \/ Receiving
  BY <1>1 DEF Protocol, Resting, Commanded, HalfRead, Refused, Granted, Confirmed, Landed,
              Ended, Storing, Between
<1>3. /\ Waiting /\ line = "empty" /\ ram_start_ = request[1]
      /\ UNCHANGED <<request, state_, data_count_, index_, ram_start_, buffer_>>
      /\ Waiting'
  BY <1>1, <1>2 DEF Armed, Receiving, request, Waiting, bootloaderVars
<1>4. CASE data_count_ # 0
  <2>1. pc' = "task" /\ tx' = tx
    BY <1>4 DEF LeaveReadUart
  <2>. QED
    BY <1>1, <1>2, <1>3, <2>1 DEF Protocol, Armed, Receiving
<1>5. CASE data_count_ = 0
  <2>1. pc' = "store" /\ tx' = Append(tx, OK)
    BY <1>5 DEF LeaveReadUart
  <2>2. index_ \in Nat /\ rx \in Seq(LineByte)
    BY DEF TransferInv, Types, ReceiverTypes, WireTypes
  <2>3. /\ Len(host.sent) = request[2] /\ Len(host.sent) = index_ /\ rx = <<>>
        /\ \A k \in 1 .. index_ : buffer_[k - 1] = host.sent[k]
    <3>1. CASE Armed
      BY <1>5, <3>1 DEF Armed
    <3>2. CASE Receiving
      <4>1. Len(rx) \in Nat /\ request[2] = index_ /\ Len(host.sent) = index_ + Len(rx)
            /\ Len(host.sent) <= index_
        BY <1>5, <2>2, <3>2 DEF Receiving
      <4>2. Len(rx) = 0
        BY <2>2, <4>1
      <4>. QED
        BY <2>2, <3>2, <4>1, <4>2 DEF Receiving
    <3>. QED
      BY <1>2, <3>1, <3>2
  <2>4. Storing(request, host.sent)'
    BY <1>1, <1>3, <1>5, <2>1, <2>3 DEF Storing
  <2>5. \/ host.phase = "asked" /\ tx' = <<CMD_SUCCESS, OK>> /\ host.sent = <<>>
        \/ host.phase = "sending" /\ tx' = <<OK>> /\ kept = NothingKept
    <3>1. Append(<<CMD_SUCCESS>>, OK) = <<CMD_SUCCESS, OK>> /\ Append(<<>>, OK) = <<OK>>
      BY AppendShort DEF CMD_SUCCESS, OK
    <3>2. CASE Armed
      BY <2>1, <3>1, <3>2 DEF Armed
    <3>3. CASE Receiving
      BY <2>1, <3>1, <3>3 DEF Receiving
    <3>. QED
      BY <1>2, <3>2, <3>3
  <2>6. Confirmed'
    BY <1>1, <1>3, <2>3, <2>4, <2>5 DEF Confirmed, Landed
  <2>. QED
    BY <2>6 DEF Protocol
<1>. QED
  BY <1>4, <1>5

\* The store makes true what the host has been told, or is about to read.
LEMMA StoreMakesTrue ==
  ASSUME TransferInv, Protocol, Believed, StoreData
  PROVE  Protocol' /\ Believed'
<1>1. /\ pc = "store" /\ data_count_ = 0 /\ WriteToRam(ram_start_, index_, buffer_)
      /\ UNCHANGED <<arg, line, rx, tx, host, kept, request>>
  BY DEF StoreData, TransferInv, AllReceived, hostVars, request
<1>2. Between'
  BY DEF StoreData, Reset, Between, Waiting
<1>3. ASSUME NEW r, NEW data, Storing(r, data)
      PROVE  \A i \in 1 .. Len(data) : ram'[GetRamPtr(r[1]) + i - 1] = data[i]
  <2>1. /\ Waiting /\ ram_start_ = r[1] /\ Len(data) = index_
        /\ \A k \in 1 .. index_ : buffer_[k - 1] = data[k]
    BY <1>3 DEF Storing
  <2>2. \A i \in 1 .. Len(data) : ram'[GetRamPtr(ram_start_) + i - 1] = data[i]
    BY <1>1, <2>1, StoredByWrite
  <2>. QED
    BY <2>1, <2>2
<1>4. Storing(kept.request, kept.sent) => (Stored(kept.request, kept.sent))'
  BY <1>1, <1>3 DEF Stored
<1>5. CASE Resting \/ Commanded
  <2>1. (Stored(kept.request, kept.sent))'
    BY <1>1, <1>4, <1>5 DEF Resting, Commanded, Ended, Between
  <2>. QED
    BY <1>1, <1>2, <1>5, <2>1 DEF Protocol, Resting, Commanded, Ended, Believed
<1>6. CASE Confirmed
  <2>1. Storing(request, host.sent)
    BY <1>1, <1>6 DEF Confirmed, Landed, Between
  <2>2. (Stored(request, host.sent))'
    BY <1>1, <1>3, <2>1 DEF Stored
  <2>3. Confirmed'
    BY <1>1, <1>2, <1>6, <2>2 DEF Confirmed, Landed
  <2>4. (Stored(kept.request, kept.sent))'
    <3>1. CASE kept = NothingKept
      BY <1>1, <3>1 DEF Stored, NothingKept
    <3>2. CASE host.sent = <<>> /\ Stored(kept.request, kept.sent)
      <4>1. index_ = 0
        BY <1>6, <2>1, <3>2 DEF Storing
      <4>2. ram' = ram
        BY <1>1, <4>1 DEF WriteToRam, TransferInv, Types, ReceiverTypes
      <4>. QED
        BY <1>1, <3>2, <4>2 DEF Stored
    <3>. QED
      BY <1>4, <1>6, <3>1, <3>2 DEF Confirmed, Believed
  <2>. QED
    BY <2>3, <2>4 DEF Protocol, Believed
<1>7. Resting \/ Commanded \/ Confirmed
  BY <1>1 DEF Protocol, HalfRead, Refused, Granted, Armed, Receiving, Between
<1>. QED
  BY <1>5, <1>6, <1>7

LEMMA ReceiverTakesOver ==
  ASSUME TransferInv, Protocol, AcceptTransfer
  PROVE  Protocol'
<1>1. Granted
  BY DEF AcceptTransfer, Protocol, Resting, Commanded, HalfRead, Refused, Armed, Receiving,
         Confirmed, Landed, Ended, Storing, Between
<1>2. arg[1] \in Uint /\ arg[2] \in Uint /\ RamRangeLegal(arg[1], arg[2])
  BY DEF AcceptTransfer, TransferInv, Types, LoopTypes, ArgLegal
<1>3. arg[2] <= kTransferSize
  BY <1>2, LegalLength
<1>4. Waiting' /\ ram_start_' = arg[1] /\ index_' = 0 /\ data_count_' = arg[2]
  BY <1>3 DEF AcceptTransfer, SetupWriteToRam, Waiting
<1>. QED
  BY <1>1, <1>4 DEF AcceptTransfer, Protocol, Granted, Armed, request, hostVars

LEMMA HostAsks ==
  ASSUME TransferInv, Protocol, HostCommand
  PROVE  Protocol'
<1>1. host.phase \in {"ready", "trusts"}
  BY DEF HostCommand
<1>2. Resting
  BY <1>1 DEF Protocol, Commanded, HalfRead, Refused, Granted, Armed, Receiving, Confirmed
<1>3. PICK r \in Requests :
        /\ rx' = rx \o <<HeadOf, TailOf(r)>>
        /\ host' = [phase |-> "asked", request |-> r, sent |-> <<>>]
  BY DEF HostCommand
<1>4. rx' = <<HeadOf, TailOf(r)>>
  BY <1>2, <1>3 DEF Resting
<1>5. /\ UNCHANGED <<tx, line, pc, kept, state_, data_count_, index_, ram_start_, buffer_>>
      /\ Waiting' = Waiting
  BY DEF HostCommand, Waiting, bootloaderVars
<1>6. Ended'
  BY <1>2, <1>5 DEF Resting, Ended, Storing, Between
<1>7. Commanded'
  BY <1>2, <1>3, <1>4, <1>5, <1>6 DEF Resting, Commanded, request
<1>. QED
  BY <1>7 DEF Protocol

LEMMA HostSends ==
  ASSUME TransferInv, Protocol, ~Streams, HostData
  PROVE  Protocol'
<1>1. host.phase = "sending" /\ Len(host.sent) < host.request[2]
  BY DEF HostData, MaySend
<1>2. /\ index_ \in Nat /\ data_count_ \in Nat /\ rx \in Seq(LineByte)
      /\ host \in [phase : {"ready", "asked", "sending", "trusts"},
                   request : Uint \X Uint, sent : Seq(Byte)]
  BY DEF TransferInv, Types, ReceiverTypes, WireTypes
<1>3. /\ host.sent \in Seq(Byte) /\ host.request[2] \in Nat
  BY <1>2 DEF Uint
<1>4. Receiving
  <2>1. Len(host.sent) # request[2]
    BY <1>1, <1>3 DEF request
  <2>. QED
    BY <1>1, <2>1
    DEF Protocol, Resting, Commanded, HalfRead, Refused, Granted, Armed, Confirmed
<1>5. PICK b \in Byte : /\ rx' = Append(rx, DataOf(b))
                        /\ host' = [host EXCEPT !.sent = Append(@, b)]
  BY DEF HostData
<1>6. /\ UNCHANGED <<request, index_, data_count_, ram_start_, buffer_, tx, line, pc, kept>>
      /\ Waiting' = Waiting /\ host'.phase = "sending" /\ host'.sent = Append(host.sent, b)
  BY <1>1, <1>2, <1>5 DEF HostData, request, Waiting, bootloaderVars
<1>7. DataOf(b) \in LineByte /\ DataOf(b).kind = "data" /\ DataOf(b).value = b
  BY SizesAreUint DEF DataOf, LineByte
<1>8. /\ Len(rx') = Len(rx) + 1 /\ Len(host'.sent) = Len(host.sent) + 1
      /\ \A k \in 1 .. Len(rx) : rx'[k] = rx[k]
      /\ rx'[Len(rx) + 1] = DataOf(b)
  BY <1>2, <1>3, <1>5, <1>6, <1>7
<1>9. /\ \A k \in 1 .. Len(host.sent) : host'.sent[k] = host.sent[k]
      /\ host'.sent[Len(host.sent) + 1] = b
  BY <1>3, <1>6
<1>10. Len(host.sent) = index_ + Len(rx) /\ Len(rx) \in Nat
  BY <1>2, <1>4 DEF Receiving
<1>11. Len(host'.sent) = index_ + Len(rx') /\ Len(host'.sent) <= request[2]
  BY <1>1, <1>2, <1>3, <1>8, <1>10 DEF request
<1>12. \A k \in 1 .. index_ : buffer_[k - 1] = host'.sent[k]
  <2>. SUFFICES ASSUME NEW k \in 1 .. index_ PROVE buffer_[k - 1] = host'.sent[k]
    OBVIOUS
  <2>1. k \in 1 .. Len(host.sent)
    BY <1>2, <1>10
  <2>. QED
    BY <1>4, <1>9, <2>1 DEF Receiving
<1>13. \A k \in 1 .. Len(rx) + 1 : rx'[k].kind = "data" /\ rx'[k].value = host'.sent[index_ + k]
  <2>. SUFFICES ASSUME NEW k \in 1 .. Len(rx) + 1
                PROVE  rx'[k].kind = "data" /\ rx'[k].value = host'.sent[index_ + k]
    OBVIOUS
  <2>1. CASE k = Len(rx) + 1
    <3>1. index_ + k = Len(host.sent) + 1
      BY <1>2, <1>10, <2>1
    <3>. QED
      BY <1>7, <1>8, <1>9, <2>1, <3>1, Zenon
  <2>2. CASE k # Len(rx) + 1
    <3>1. k \in 1 .. Len(rx) /\ index_ + k \in 1 .. Len(host.sent)
      BY <1>2, <1>10, <2>2
    <3>2. rx[k].kind = "data" /\ rx[k].value = host.sent[index_ + k]
      BY <1>4, <3>1 DEF Receiving
    <3>. QED
      BY <1>8, <1>9, <3>1, <3>2, Zenon
  <2>. QED
    BY <2>1, <2>2
<1>14. \A k \in 1 .. Len(rx') : rx'[k].kind = "data" /\ rx'[k].value = host'.sent[index_' + k]
  BY <1>6, <1>8, <1>13, Zenon
<1>15. Receiving'
  BY <1>4, <1>6, <1>11, <1>12, <1>14 DEF Receiving
<1>. QED
  BY <1>15 DEF Protocol


\* The first line that comes while the host asked is the answer to the command.
LEMMA HostReads ==
  ASSUME TransferInv, Protocol, Believed, ~Prompt, HostReceives
  PROVE  Protocol' /\ Believed'
<1>1. /\ tx # <<>> /\ tx' = Tail(tx) /\ LineIsOut /\ Expecting
      /\ UNCHANGED <<bootloaderVars, ram, pc, arg, line, rx>>
  BY DEF HostReceives
<1>2. /\ host \in [phase : {"ready", "asked", "sending", "trusts"},
                   request : Uint \X Uint, sent : Seq(Byte)]
  BY DEF TransferInv, Types, WireTypes
<1>3. PICK p \in {"ready", "sending", "trusts"} :
        /\ host' = [host EXCEPT !.phase = p]
        /\ \/ /\ p = "sending" /\ host.phase = "asked" /\ Head(tx) = CMD_SUCCESS
              /\ kept' = NothingKept
           \/ /\ p = "trusts" /\ host.phase = "sending" /\ Head(tx) = OK
              /\ kept' = [request |-> host.request, sent |-> host.sent]
           \/ /\ p = "ready" /\ Head(tx) # (IF host.phase = "asked" THEN CMD_SUCCESS ELSE OK)
              /\ kept' = kept
  BY Zenon DEF HostReceives
<1>4. /\ host'.phase = p /\ host'.sent = host.sent /\ host'.request = host.request
      /\ request' = request
  BY <1>2, <1>3 DEF request
<1>5. /\ Waiting' = Waiting /\ (Between' <=> Between)
      /\ UNCHANGED <<state_, data_count_, index_, ram_start_, buffer_>>
  BY <1>1 DEF Waiting, Between, bootloaderVars
<1>6. ASSUME kept' = NothingKept PROVE Believed'
  BY <1>6 DEF Believed, Stored, NothingKept
<1>7. ASSUME kept' = kept PROVE Believed'
  BY <1>1, <1>7, BeliefBesideLoop
<1>8. Refused \/ Armed \/ Confirmed
  BY <1>1
  DEF Protocol, Resting, Commanded, HalfRead, Granted, Receiving, LineIsOut
<1>9. CASE Refused
  <2>1. tx' = <<>> /\ p = "ready" /\ kept' = kept
    BY <1>1, <1>3, <1>9 DEF Refused, CMD_SUCCESS, ADDR_ERROR
  <2>. QED
    BY <1>1, <1>4, <1>5, <1>9, <1>7, <2>1 DEF Protocol, Refused, Resting, Ended
<1>10. CASE Armed
  <2>1. tx' = <<>> /\ p = "sending" /\ kept' = NothingKept
    BY <1>1, <1>3, <1>10 DEF Armed
  <2>2. pc \in {"task", "read"}
    BY <1>1, <1>10 DEF Armed, LineIsOut, Waiting, TransferInv, Types, LoopTypes
  <2>3. data_count_ \in Nat /\ 0 + data_count_ = data_count_
    BY DEF TransferInv, Types, ReceiverTypes
  <2>4. Len(host.sent) = 0 /\ Len(rx) = 0 /\ 0 <= data_count_ /\ 0 = 0 + 0
    BY <1>10, <2>3 DEF Armed
  <2>5. Receiving'
    <3>1. /\ host'.phase = "sending" /\ Waiting' /\ pc' \in {"task", "read"}
          /\ tx' = <<>> /\ line' = "empty" /\ ram_start_' = request'[1]
          /\ kept' = NothingKept
      BY <1>1, <1>4, <1>5, <1>10, <2>1, <2>2 DEF Armed, bootloaderVars
    <3>2. index_' = 0 /\ data_count_' = request'[2] /\ data_count_' = data_count_
          /\ rx' = <<>> /\ host'.sent = <<>>
      BY <1>1, <1>4, <1>10 DEF Armed, bootloaderVars
    <3>3. index_' + data_count_' = request'[2]
      BY <2>3, <3>2
    <3>4. Len(host'.sent) = index_' + Len(rx') /\ Len(host'.sent) <= request'[2]
      BY <2>3, <3>2
    <3>5. \A k \in 1 .. index_' : buffer_'[k - 1] = host'.sent[k]
      BY <3>2
    <3>6. \A k \in 1 .. Len(rx') : rx'[k].kind = "data" /\ rx'[k].value = host'.sent[index_' + k]
      BY <3>2
    <3>. QED
      BY <3>1, <3>3, <3>4, <3>5, <3>6 DEF Receiving
  <2>. QED
    BY <1>6, <2>1, <2>5 DEF Protocol
<1>11. CASE Confirmed
  <2>1. Landed(request, host.sent)
    BY <1>11 DEF Confirmed
  <2>2. CASE host.phase = "asked"
    <3>1. tx = <<CMD_SUCCESS, OK>>
      BY <1>11, <2>2 DEF Confirmed
    <3>2. tx' = <<OK>> /\ p = "sending" /\ kept' = NothingKept
      BY <1>1, <1>3, <2>2, <3>1
    <3>3. Landed(request, host.sent)'
      BY <1>1, <1>4, <1>5, <2>1 DEF Landed, Storing, Stored
    <3>. QED
      BY <1>1, <1>4, <1>11, <1>6, <3>2, <3>3 DEF Protocol, Confirmed
  <2>3. CASE host.phase = "sending"
    <3>1. tx = <<OK>>
      BY <1>11, <2>3 DEF Confirmed
    <3>2. /\ tx' = <<>> /\ p = "trusts"
          /\ kept' = [request |-> host.request, sent |-> host.sent]
      BY <1>1, <1>3, <2>3, <3>1
    <3>3. kept'.request = request /\ kept'.sent = host.sent
      BY <3>2 DEF request
    <3>4. Landed(kept.request, kept.sent)'
      BY <1>1, <1>5, <2>1, <3>3 DEF Landed, Storing, Stored
    <3>. QED
      BY <1>1, <1>4, <1>11, <3>2, <3>4
      DEF Protocol, Confirmed, Resting, Ended, Landed, Believed
  <2>. QED
    BY <1>11, <2>2, <2>3 DEF Confirmed
<1>. QED
  BY <1>8, <1>9, <1>10, <1>11

LEMMA NothingMoves ==
  ASSUME Protocol, UNCHANGED vars
  PROVE  Protocol'
<1>1. UNCHANGED <<bootloaderVars, ram, arg, line, rx, tx, host, kept, pc>>
  BY DEF vars, hostVars
<1>2. (Between' <=> Between) /\ UNCHANGED <<state_, data_count_, index_, ram_start_, buffer_>>
  BY <1>1 DEF Between, Waiting, bootloaderVars
<1>. QED
  BY <1>1, <1>2, StagesUnchanged
  DEF Protocol, Resting, Commanded, HalfRead, Refused, Granted, Armed, Receiving, Confirmed,
      Landed, Ended, Storing

-----------------------------------------------------------------------------

LEMMA DeliveryInvariant == Spec => []DeliveryInv
<1>1. Init => DeliveryInv
  <2> SUFFICES ASSUME Init PROVE DeliveryInv
    OBVIOUS
  <2>1. Resting
    BY DEF Init, Resting, Ended, Between, Waiting, Quiet
  <2>2. Believed
    BY DEF Init, Believed, Stored, NothingKept
  <2>. QED
    BY <2>1, <2>2, InitEstablishes DEF DeliveryInv, Protocol
<1>2. TransferInv /\ TransferInv' /\ DeliveryInv /\ [Next]_vars => DeliveryInv'
  <2> SUFFICES ASSUME TransferInv, TransferInv', DeliveryInv, [Next]_vars, Calm'
               PROVE  Protocol' /\ Believed'
    BY DEF DeliveryInv
  <2>1. Protocol /\ Believed /\ ~Streams /\ ~Prompt /\ ~timedOut'
    BY CalmBefore DEF DeliveryInv, Calm
  <2>2. ~HostGivesUp /\ ~Restart
    BY DEF Calm, HostGivesUp, Restart
  <2>3. CASE \/ EnterReadUart \/ ReadDataByte \/ LeaveReadUart \/ EnterRun \/ LeaveRun
             \/ ShellByte \/ ShellLine \/ AcceptTransfer
    <3>1. Believed'
      <4>1. pc # "store" /\ UNCHANGED <<ram, kept>>
        BY <2>3 DEF EnterReadUart, ReadDataByte, LeaveReadUart, EnterRun, LeaveRun, ShellByte,
                    ShellLine, AcceptTransfer, hostVars
      <4>. QED
        BY <2>1, <4>1, BeliefOutsideStore
    <3>. QED
      BY <2>1, <2>3, <3>1, RoundStarts, DataTaken, TransferCompletes, ShellLoops, LineArrives,
         ReceiverTakesOver
  <2>4. CASE HostCommand \/ HostData \/ UNCHANGED vars
    <3>1. Believed'
      <4>1. UNCHANGED <<bootloaderVars, ram, kept, pc>>
        BY <2>4 DEF HostCommand, HostData, vars, hostVars
      <4>. QED
        BY <2>1, <4>1, BeliefBesideLoop
    <3>. QED
      BY <2>1, <2>4, <3>1, HostAsks, HostSends, NothingMoves
  <2>5. CASE StoreData
    BY <2>1, <2>5, StoreMakesTrue
  <2>6. CASE HostReceives
    BY <2>1, <2>6, HostReads
  <2>. QED
    BY <2>2, <2>3, <2>4, <2>5, <2>6 DEF Next, Device
<1>. QED
  BY <1>1, <1>2, TransferInvariant, PTL DEF Spec

\* Run never sees a byte of a transfer: the shell holds no junk, for every
\* host that waits for its answers, while nothing was given up or reset.
THEOREM DataIsNeverACommand == Spec => []DataReachesReceiver
<1>1. DeliveryInv => DataReachesReceiver
  BY DEF DeliveryInv, DataReachesReceiver, Calm, Protocol, Resting, Commanded, HalfRead,
         Refused, Granted, Armed, Receiving, Confirmed
<1>. QED
  BY <1>1, DeliveryInvariant, PTL

\* "OK" is true although it is sent before the store: as soon as the loop is
\* past the store, and whatever the host has sent meanwhile, the data it was
\* told OK for is in RAM, in order and at the place it asked for.
THEOREM OkIsTrue == Spec => []OkMeansStored
<1>1. DeliveryInv => OkMeansStored
  BY DEF DeliveryInv, OkMeansStored, Calm, Believed, Storing
<1>. QED
  BY <1>1, DeliveryInvariant, PTL

=============================================================================
