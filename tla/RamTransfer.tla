---------------------------- MODULE RamTransfer ----------------------------
(***************************************************************************)
(* A W command from the host's keyboard to RAM: the receive queue of the   *)
(* UART, the shell loop of SerialController::Run, cmd_write_to_ram, and    *)
(* the receiver of the data, class Isp::Bootloader.                        *)
(*                                                                         *)
(* Two things share the queue: while state_ is kOperating its bytes go to  *)
(* the shell, while it is kWaitingForData they are data.  The host decides *)
(* when to send what, and the receiver gives up by itself.                 *)
(*                                                                         *)
(* pc says what the main loop is doing: about to choose (task), in the     *)
(* loop of Run (shell), between the answer to a W and SetupWriteToRam      *)
(* (setup), in the loop of ReadUart (read), between "OK" and the store     *)
(* (store).                                                                *)
(*                                                                         *)
(* Both answers go out before the work they announce.  Between the first   *)
(* and SetupWriteToRam, Prompt says whether the host can be fast enough to *)
(* use it; after "OK" it may always send its next command at once.         *)
(***************************************************************************)
EXTENDS MemoryMap, Sequences

CONSTANTS
  Byte,           \* values of a byte
  ZeroByte,       \* zero-initialised RAM
  TextByte,       \* what a byte of a command line is when taken for data
  kTransferSize,  \* size of Isp::Bootloader::buffer_
  kLoopsMax,      \* calls of ReadUart before a transfer is given up
  Requests,       \* <<start, length>> of the W commands the host may send
  Streams,        \* does the host send data before the answer has come?
  Impatient,      \* may the host give up waiting and start again?
  Prompt,         \* may the host use an answer to W before Run has returned?
  MaxLines,       \* bound: command lines the host sends
  MaxQueue        \* bound: bytes and lines under way, each direction

ASSUME TransferAssumption ==
  /\ ZeroByte \in Byte
  /\ TextByte \in Byte
  /\ kTransferSize \in Nat /\ kSectorSize <= kTransferSize
  /\ kLoopsMax \in Nat
  /\ Requests \subseteq Uint \X Uint
  /\ Streams \in BOOLEAN
  /\ Impatient \in BOOLEAN
  /\ Prompt \in BOOLEAN
  /\ MaxLines \in Nat
  /\ MaxQueue \in Nat

VARIABLES
  state_, loops_, data_count_, index_, ram_start_, buffer_,  \* Isp::Bootloader
  ram,       \* FlashController::buffer_
  pc,        \* what the main loop is doing
  arg,       \* operands of the W that was just answered
  line,      \* what the shell has of a line: empty, head of a command, junk
  rx,        \* receive queue of the UART
  tx,        \* lines sent and not yet seen by the host
  host,      \* the host's side of the exchange
  lines,     \* command lines sent so far
  kept,      \* history: the transfer the host was last told "OK" for
  timedOut,  \* history: has a transfer been given up by the receiver?
  upset      \* history: has there been a restart, or a host that gave up?

bootloaderVars == <<state_, loops_, data_count_, index_, ram_start_, buffer_>>
hostVars == <<host, lines, kept>>
history == <<timedOut, upset>>
vars == <<bootloaderVars, ram, pc, arg, line, rx, tx, hostVars, history>>

\* Lines the device sends.
CMD_SUCCESS == 0
ADDR_ERROR == 13
Unknown == -1      \* the shell does not know the command
OK == -3

\* Bytes on the line.  A command is two of them; the second ends the line.
DataOf(b) == [kind |-> "data", value |-> b, request |-> <<0, 0>>]
HeadOf == [kind |-> "head", value |-> TextByte, request |-> <<0, 0>>]
TailOf(r) == [kind |-> "tail", value |-> TextByte, request |-> r]

NoArg == <<0, 0>>
Quiet == [phase |-> "ready", request |-> NoArg, sent |-> <<>>]
NothingKept == [request |-> NoArg, sent |-> <<>>]

-----------------------------------------------------------------------------
(* The receiver: class Isp::Bootloader.                                    *)

Reset ==
  /\ ram_start_' = 0
  /\ state_' = "kOperating"
  /\ loops_' = 0
  /\ data_count_' = 0
  /\ index_' = 0

\* set_state assigns the state to itself.
Mutant_StateByItsSetter(start, length) ==
  /\ ram_start_' = start
  /\ loops_' = 0
  /\ data_count_' = length
  /\ index_' = 0
  /\ UNCHANGED <<state_, buffer_>>

SetupWriteToRam(start, length) ==
  IF length <= kTransferSize
  THEN /\ ram_start_' = start
       /\ state_' = "kWaitingForData"
       /\ loops_' = 0
       /\ data_count_' = length
       /\ index_' = 0
       /\ UNCHANGED buffer_
  ELSE UNCHANGED bootloaderVars

\* Isp::WriteToRam, which checks the range again.
WriteToRam(start, length, data) ==
  IF RamRangeLegal(start, length)
  THEN ram' = [k \in BufferIndex |->
                 IF k - GetRamPtr(start) \in 0 .. length - 1
                 THEN data[k - GetRamPtr(start)] ELSE ram[k]]
  ELSE UNCHANGED ram

Mutant_NeverGivesUp ==
  /\ pc = "task" /\ state_ = "kWaitingForData"
  /\ pc' = "read"
  /\ UNCHANGED <<bootloaderVars, ram, arg, line, rx, tx, hostVars, history>>

Mutant_GivesUpByFinishing ==
  /\ pc = "task" /\ state_ = "kWaitingForData"
  /\ pc' = "read"
  /\ IF loops_ > kLoopsMax
     THEN data_count_' = 0 /\ timedOut' = TRUE /\ UNCHANGED loops_
     ELSE loops_' = loops_ + 1 /\ UNCHANGED <<data_count_, timedOut>>
  /\ UNCHANGED <<state_, index_, ram_start_, buffer_, ram, arg, line, rx, tx, hostVars, upset>>

\* ReadUart is entered: one more round, or one too many.
EnterReadUart ==
  /\ pc = "task" /\ state_ = "kWaitingForData"
  /\ pc' = "read"
  /\ IF loops_ > kLoopsMax
     THEN Reset /\ timedOut' = TRUE
     ELSE /\ loops_' = loops_ + 1
          /\ UNCHANGED <<state_, data_count_, index_, ram_start_, timedOut>>
  /\ UNCHANGED <<buffer_, ram, arg, line, rx, tx, hostVars, upset>>

Mutant_ReadsOn == rx # <<>> /\ index_ < kTransferSize
MoreToRead == rx # <<>> /\ index_ < kTransferSize /\ data_count_ > 0

Mutant_CountKept ==
  /\ pc = "read" /\ MoreToRead
  /\ buffer_' = [buffer_ EXCEPT ![index_] = Head(rx).value]
  /\ index_' = index_ + 1
  /\ rx' = Tail(rx)
  /\ UNCHANGED <<data_count_, state_, loops_, ram_start_, ram, pc, arg, line, tx>>
  /\ UNCHANGED <<hostVars, history>>

ReadDataByte ==
  /\ pc = "read" /\ MoreToRead
  /\ data_count_' = data_count_ - 1
  /\ buffer_' = [buffer_ EXCEPT ![index_] = Head(rx).value]
  /\ index_' = index_ + 1
  /\ rx' = Tail(rx)
  /\ UNCHANGED <<state_, loops_, ram_start_, ram, pc, arg, line, tx, hostVars, history>>

Mutant_NoOkWhenEmpty ==
  /\ pc = "read" /\ ~MoreToRead
  /\ IF data_count_ = 0
     THEN pc' = "store" /\ tx' = IF index_ > 0 THEN Append(tx, OK) ELSE tx
     ELSE pc' = "task" /\ UNCHANGED tx
  /\ UNCHANGED <<bootloaderVars, ram, arg, line, rx, hostVars, history>>

\* Nothing left to read for now; "OK" when nothing is missing.
LeaveReadUart ==
  /\ pc = "read" /\ ~MoreToRead
  /\ IF data_count_ = 0
     THEN pc' = "store" /\ tx' = Append(tx, OK)
     ELSE pc' = "task" /\ UNCHANGED tx
  /\ UNCHANGED <<bootloaderVars, ram, arg, line, rx, hostVars, history>>

\* Reset comes before WriteToRam.
Mutant_ResetFirst ==
  /\ pc = "store"
  /\ Reset
  /\ WriteToRam(ram_start_', index_', buffer_)
  /\ pc' = "task"
  /\ UNCHANGED <<buffer_, arg, line, rx, tx, hostVars, history>>

\* The store, with "OK" already on its way.
StoreData ==
  /\ pc = "store"
  /\ WriteToRam(ram_start_, index_, buffer_)
  /\ Reset
  /\ pc' = "task"
  /\ UNCHANGED <<buffer_, arg, line, rx, tx, hostVars, history>>

-----------------------------------------------------------------------------
(* The shell: SerialController::Run and cmd_write_to_ram.                  *)

\* The main loop is not in the repository: it asks get_state() which of the
\* two readers of the queue is to run.
EnterRun ==
  /\ pc = "task" /\ state_ = "kOperating"
  /\ pc' = "shell"
  /\ UNCHANGED <<bootloaderVars, ram, arg, line, rx, tx, hostVars, history>>

LeaveRun ==
  /\ pc = "shell" /\ rx = <<>>
  /\ pc' = "task"
  /\ UNCHANGED <<bootloaderVars, ram, arg, line, rx, tx, hostVars, history>>

\* A byte that is no end of a line.  Data may hold one by chance: then what has
\* come so far is an unknown command.
ShellByte ==
  /\ pc = "shell" /\ rx # <<>> /\ Head(rx).kind # "tail"
  /\ rx' = Tail(rx)
  /\ \/ /\ line' = IF Head(rx).kind = "head" /\ line = "empty" THEN "head" ELSE "junk"
        /\ UNCHANGED tx
     \/ /\ Head(rx).kind = "data"
        /\ line' = "empty"
        /\ tx' = Append(tx, Unknown)
  /\ UNCHANGED <<bootloaderVars, ram, pc, arg, hostVars, history>>

\* A complete line: the handler validates and answers.
ShellLine ==
  /\ pc = "shell" /\ rx # <<>> /\ Head(rx).kind = "tail"
  /\ rx' = Tail(rx)
  /\ line' = "empty"
  /\ LET r == Head(rx).request
         legal == RamRangeLegal(r[1], r[2])
     IN  \/ /\ line = "head" /\ legal
            /\ tx' = Append(tx, CMD_SUCCESS)
            /\ arg' = r
            /\ pc' = "setup"
         \/ /\ line = "head" /\ ~legal
            /\ tx' = Append(tx, ADDR_ERROR)
            /\ UNCHANGED <<arg, pc>>
         \/ /\ line # "head"
            /\ tx' = Append(tx, Unknown)
            /\ UNCHANGED <<arg, pc>>
  /\ UNCHANGED <<bootloaderVars, ram, hostVars, history>>

\* The handler returns into the loop of Run, which goes on with the queue.
AcceptTransfer ==
  /\ pc = "setup"
  /\ SetupWriteToRam(arg[1], arg[2])
  /\ arg' = NoArg
  /\ pc' = "shell"
  /\ UNCHANGED <<ram, line, rx, tx, hostVars, history>>

-----------------------------------------------------------------------------
(* The host, which is not in the repository.                               *)

HostCommand ==
  /\ host.phase \in {"ready", "trusts"}
  /\ lines < MaxLines /\ Len(rx) + 2 <= MaxQueue
  /\ \E r \in Requests :
       /\ rx' = rx \o <<HeadOf, TailOf(r)>>
       /\ host' = [phase |-> "asked", request |-> r, sent |-> <<>>]
  /\ lines' = lines + 1
  /\ UNCHANGED <<bootloaderVars, ram, pc, arg, line, tx, kept, history>>

MaySend == host.phase = "sending" \/ (Streams /\ host.phase = "asked")

HostData ==
  /\ MaySend /\ Len(host.sent) < host.request[2] /\ Len(rx) < MaxQueue
  /\ \E b \in Byte :
       /\ rx' = Append(rx, DataOf(b))
       /\ host' = [host EXCEPT !.sent = Append(@, b)]
  /\ UNCHANGED <<bootloaderVars, ram, pc, arg, line, tx, lines, kept, history>>

\* Timing assumption, lifted by Prompt: at 9600 baud a character takes longer
\* than the rest of the loop, so the host has no answer to an accepted W before
\* Run has returned.  It does not hold back "OK", which the host may have, and
\* may act on, before the store.
LineIsOut == Prompt \/ (pc # "setup" /\ ~(pc = "shell" /\ state_ = "kWaitingForData"))

Expecting ==
  \/ host.phase = "asked"
  \/ host.phase = "sending" /\ Len(host.sent) = host.request[2]

\* The answer to W opens the next transfer, "OK" ends it; other lines are errors.
HostReceives ==
  /\ LineIsOut /\ tx # <<>> /\ Expecting
  /\ tx' = Tail(tx)
  /\ \/ /\ host.phase = "asked" /\ Head(tx) = CMD_SUCCESS
        /\ host' = [host EXCEPT !.phase = "sending"]
        /\ kept' = NothingKept
     \/ /\ host.phase = "sending" /\ Head(tx) = OK
        /\ host' = [host EXCEPT !.phase = "trusts"]
        /\ kept' = [request |-> host.request, sent |-> host.sent]
     \/ /\ Head(tx) # IF host.phase = "asked" THEN CMD_SUCCESS ELSE OK
        /\ host' = [host EXCEPT !.phase = "ready"]
        /\ UNCHANGED kept
  /\ UNCHANGED <<bootloaderVars, ram, pc, arg, line, rx, lines, history>>

HostGivesUp ==
  /\ Impatient /\ host.phase \in {"asked", "sending"}
  /\ host' = Quiet
  /\ kept' = NothingKept
  /\ upset' = TRUE
  /\ UNCHANGED <<bootloaderVars, ram, pc, arg, line, rx, tx, lines, timedOut>>

-----------------------------------------------------------------------------

Restart ==
  /\ Reset
  /\ buffer_' = [k \in 0 .. kTransferSize - 1 |-> ZeroByte]
  /\ ram' = [k \in BufferIndex |-> ZeroByte]
  /\ pc' = "task"
  /\ arg' = NoArg
  /\ line' = "empty"
  /\ rx' = <<>>
  /\ tx' = <<>>
  /\ upset' = TRUE
  /\ UNCHANGED <<hostVars, timedOut>>

Init ==
  /\ state_ = "kOperating" /\ loops_ = 0 /\ data_count_ = 0 /\ index_ = 0 /\ ram_start_ = 0
  /\ buffer_ = [k \in 0 .. kTransferSize - 1 |-> ZeroByte]
  /\ ram = [k \in BufferIndex |-> ZeroByte]
  /\ pc = "task"
  /\ arg = NoArg
  /\ line = "empty"
  /\ rx = <<>>
  /\ tx = <<>>
  /\ host = Quiet
  /\ lines = 0
  /\ kept = NothingKept
  /\ timedOut = FALSE
  /\ upset = FALSE

Device ==
  \/ EnterReadUart \/ ReadDataByte \/ LeaveReadUart \/ StoreData
  \/ EnterRun \/ LeaveRun \/ ShellByte \/ ShellLine \/ AcceptTransfer

Next == Device \/ HostCommand \/ HostData \/ HostReceives \/ HostGivesUp \/ Restart

Spec == Init /\ [][Next]_vars

\* The main loop runs for ever; of the host only that it reads what it is sent.
FairSpec == Spec /\ WF_vars(Device) /\ WF_vars(HostReceives)

-----------------------------------------------------------------------------
(* Properties.                                                             *)

Waiting == state_ = "kWaitingForData"

TypeOK ==
  /\ state_ \in {"kOperating", "kWaitingForData"}
  /\ loops_ \in 0 .. kLoopsMax + 1
  /\ data_count_ \in 0 .. kTransferSize
  /\ index_ \in 0 .. kTransferSize
  /\ ram_start_ \in Uint
  /\ buffer_ \in [0 .. kTransferSize - 1 -> Byte]
  /\ ram \in [BufferIndex -> Byte]
  /\ pc \in {"task", "shell", "setup", "read", "store"}
  /\ arg \in Uint \X Uint
  /\ line \in {"empty", "head", "junk"}
  /\ rx \in Seq([kind : {"data", "head", "tail"}, value : Byte, request : Uint \X Uint])
  /\ tx \in Seq({CMD_SUCCESS, ADDR_ERROR, Unknown, OK})
  /\ host \in [phase : {"ready", "asked", "sending", "trusts"},
               request : Uint \X Uint, sent : Seq(Byte)]
  /\ lines \in 0 .. MaxLines
  /\ kept \in [request : Uint \X Uint, sent : Seq(Byte)]
  /\ timedOut \in BOOLEAN
  /\ upset \in BOOLEAN

\* The range that was validated when W was answered is still the range that is
\* being received, many calls of ReadUart later: received and missing bytes add
\* up to it, and nothing of it can fall outside the receiver's buffer.
WindowKept ==
  Waiting => /\ RamRangeLegal(ram_start_, index_ + data_count_)
             /\ index_ + data_count_ <= kTransferSize

\* A transfer ends, whether or not the host sends a single byte of it.
TransferEnds == Waiting ~> ~Waiting

\* A host that waits for each answer never has data taken for a command, as
\* long as no transfer was given up: Run never sees a byte of a transfer.  At
\* the accepted baud rate only: a Prompt host may lose data to the shell.
DataReachesReceiver ==
  ~Streams /\ ~Prompt /\ ~timedOut /\ ~upset => line # "junk"

Stored(r, sent) ==
  \A i \in 1 .. Len(sent) : ram[GetRamPtr(r[1]) + i - 1] = sent[i]

\* "OK" is true when no transfer was given up, although it is sent first: once
\* the loop gets past the store, and so before it looks at a byte the host sent
\* on the strength of it, the data is in RAM, in order and at the place asked
\* for.  It stays there until the next W is granted.
OkMeansStored ==
  ~Streams /\ ~Prompt /\ ~timedOut /\ ~upset /\ pc # "store"
    => Stored(kept.request, kept.sent)

\* A host that waits is never left waiting: each line is answered, and so is
\* each complete transfer, if only because the receiver gave up.  Only a
\* restart, which empties the queues, may take the answer away.
AnswerArrives == Expecting ~> (~Expecting \/ upset)

\* The request the device is committed to: the one just answered, else the one
\* being received.
Committed ==
  IF pc = "setup" THEN [start |-> arg[1], length |-> arg[2], open |-> TRUE]
  ELSE IF Waiting THEN [start |-> ram_start_, length |-> index_ + data_count_, open |-> TRUE]
  ELSE [start |-> 0, length |-> 0, open |-> FALSE]

\* What the receiver promises of RAM.
Promise == INSTANCE RamWrite WITH pending <- Committed

\* RAM changes only by the store of a whole accepted request: what a transfer
\* that was given up had received, or a late byte, never reaches it.
KeepsPromise == Promise!Spec

-----------------------------------------------------------------------------
(* What comments say and the program does not do.                          *)

\* shell_commands.cpp:145: "when transfer is complete send OK".
OkMeansComplete ==
  host.phase = "trusts" /\ pc # "store" /\ ~upset => Stored(host.request, host.sent)

=============================================================================
