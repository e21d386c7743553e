------------------------------ MODULE UartLine ------------------------------
(***************************************************************************)
(* The receiving half of the serial line: the one-byte holding register of *)
(* the USART, the receive interrupt, the receive ring, the readers in the  *)
(* main loop, and a half-duplex host, which sends a message (a command     *)
(* line, or the data of a W) and waits for the answer.                     *)
(*                                                                         *)
(* The command loop is that of ShellLoop.  Bytes are counted, not told     *)
(* apart.  A byte that finds the register occupied, or the ring full, is   *)
(* lost.  A character takes about a millisecond, so a pending receive      *)
(* interrupt, and what is left of the start-up, come before the next       *)
(* character unless interrupts are masked.                                 *)
(***************************************************************************)
EXTENDS Integers

CONSTANTS
  UART_BUFFER_SIZE,   \* bytes the receive ring holds
  MaxMessage          \* longest message of the host

ASSUME LineAssumption ==
  /\ UART_BUFFER_SIZE \in Nat
  /\ MaxMessage \in Nat
  /\ MaxMessage < UART_BUFFER_SIZE

VARIABLES
  phase, masked,      \* the command loop, as in ShellLoop
  state,              \* SerialController::state
  enabled,            \* interrupts of the USART that are enabled
  holding,            \* bytes in the holding register
  ring,               \* bytes in the receive ring
  left,               \* bytes of its message the host has still to send
  waiting,            \* does the host wait for an answer, or for the prompt?
  lost,               \* history: has a byte been lost?
  gaveUp              \* history: has the receiver of a W timed out?

deviceVars == <<phase, masked, state, enabled>>
lineVars == <<holding, ring, left>>
history == <<lost, gaveUp>>
vars == <<deviceVars, lineVars, waiting, history>>

Loop == INSTANCE ShellLoop

-----------------------------------------------------------------------------
(* Start-up, in the order the generated main function happens to call it.  *)

Mutant_EnablesTransmitter ==
  /\ enabled = {}
  /\ enabled' = {"kTxReady"}
  /\ UNCHANGED <<phase, masked, state, lineVars, waiting, history>>

\* HardwareLibrarian::EnableInterrupts.
EnableInterrupts ==
  /\ enabled = {}
  /\ enabled' = {"kRxReady"}
  /\ UNCHANGED <<phase, masked, state, lineVars, waiting, history>>

\* SerialController::Setup: the prompt goes out, then Run begins to read.
Setup ==
  /\ state = "kBootup"
  /\ state' = "kShell"
  /\ waiting' = FALSE
  /\ UNCHANGED <<phase, masked, enabled, lineVars, history>>

\* The power fails: the host, which sees no prompt, starts over with it.
PowerCycle ==
  /\ Loop!Reset
  /\ state' = "kBootup"
  /\ enabled' = {}
  /\ holding' = 0 /\ ring' = 0 /\ left' = 0
  /\ waiting' = TRUE
  /\ lost' = FALSE /\ gaveUp' = FALSE

-----------------------------------------------------------------------------
(* The line.                                                               *)

\* The host has its answer and begins the next message.
Send ==
  /\ ~waiting /\ left = 0
  /\ left' \in 1 .. MaxMessage
  /\ waiting' = TRUE
  /\ UNCHANGED <<deviceVars, holding, ring, history>>

ByteArrives ==
  /\ left > 0
  /\ holding = 0 \/ masked \/ phase = "stopped"
  /\ left' = left - 1
  /\ holding' = 1
  /\ IF holding = 0 THEN UNCHANGED lost ELSE lost' = TRUE
  /\ UNCHANGED <<deviceVars, ring, waiting, gaveUp>>

\* A ring of this kind can tell full from empty only by a cell it wastes; the
\* assumption on MaxMessage leaves that cell.
Mutant_RingOfHalf == ring < UART_BUFFER_SIZE \div 2
RingHasRoom == ring < UART_BUFFER_SIZE - 1

ReceiveInterrupt ==
  /\ holding = 1 /\ ~masked /\ "kRxReady" \in enabled /\ phase # "stopped"
  /\ holding' = 0
  /\ IF RingHasRoom THEN ring' = ring + 1 /\ UNCHANGED lost
                    ELSE ring' = ring /\ lost' = TRUE
  /\ UNCHANGED <<deviceVars, left, waiting, gaveUp>>

-----------------------------------------------------------------------------
(* The main loop.                                                          *)

\* Nothing of the message is outstanding once one more byte has been read.
LastByte == left = 0 /\ holding = 0 /\ ring = 1

\* Run, or ReadUart, reads a byte; the last one ends a line or a transfer.
\* After a loss or a time-out anything may look like the end of a message.
ReadByte ==
  /\ phase = "idle" /\ state = "kShell" /\ ring > 0
  /\ ring' = ring - 1
  /\ \/ /\ LastByte \/ lost \/ gaveUp
        /\ Loop!Accept
        /\ IF phase' = "answered" THEN waiting' = FALSE ELSE UNCHANGED waiting
     \/ /\ ~LastByte \/ lost \/ gaveUp
        /\ UNCHANGED <<phase, masked, waiting>>
  /\ UNCHANGED <<state, enabled, holding, left, history>>

\* The receiver of a W ends by itself, in the middle of the host's data.
GiveUp ==
  /\ phase = "idle" /\ state = "kShell" /\ waiting
  /\ left + holding + ring > 0
  /\ phase' = "answered"
  /\ waiting' = FALSE
  /\ gaveUp' = TRUE
  /\ UNCHANGED <<masked, state, enabled, lineVars, lost>>

Work == Loop!Work /\ UNCHANGED <<state, enabled, lineVars, waiting, history>>

Finish ==
  /\ Loop!Finish
  /\ waiting' = FALSE
  /\ UNCHANGED <<state, enabled, lineVars, history>>

Return == Loop!Return /\ UNCHANGED <<state, enabled, lineVars, waiting, history>>

Init ==
  /\ Loop!Init
  /\ state = "kBootup" /\ enabled = {}
  /\ holding = 0 /\ ring = 0 /\ left = 0
  /\ waiting = TRUE
  /\ lost = FALSE /\ gaveUp = FALSE

StartUp == EnableInterrupts \/ Setup
MainLoop == ReadByte \/ Finish \/ Return

Next ==
  \/ StartUp \/ PowerCycle
  \/ Send \/ ByteArrives \/ ReceiveInterrupt
  \/ MainLoop \/ GiveUp \/ Work

Spec == Init /\ [][Next]_vars

\* The start-up ends, what the host has sent arrives, the interrupt comes and
\* the main loop runs; that a busy handler finishes is IspCommands!Answered.
FairSpec ==
  /\ Spec
  /\ WF_vars(EnableInterrupts) /\ WF_vars(Setup)
  /\ WF_vars(ByteArrives) /\ WF_vars(ReceiveInterrupt)
  /\ WF_vars(ReadByte) /\ WF_vars(Finish) /\ WF_vars(Return)

-----------------------------------------------------------------------------
(* Properties.                                                             *)

\* Every variable has its type.
TypeOK ==
  /\ phase \in {"idle", "busy", "answered", "stopped"}
  /\ masked \in BOOLEAN
  /\ state \in {"kBootup", "kShell"}
  /\ enabled \subseteq {"kRxReady"}
  /\ holding \in 0 .. 1
  /\ ring \in 0 .. UART_BUFFER_SIZE - 1
  /\ left \in 0 .. MaxMessage
  /\ waiting \in BOOLEAN
  /\ lost \in BOOLEAN
  /\ gaveUp \in BOOLEAN

\* A host that waits for each answer loses no byte, neither to a masked section
\* nor to a full ring, unless the receiver of a W has timed out on it.
NothingLost == lost => gaveUp

\* Every message is answered: the device never goes deaf, whatever handlers
\* mask in between.  Only a stopped program leaves the host waiting, or a
\* time-out after which the shell takes the rest of the data for a line.
HostServed == waiting ~> ~waiting \/ phase = "stopped" \/ gaveUp

=============================================================================
