--------------------------- MODULE UartLineProofs ---------------------------
(***************************************************************************)
(* A half-duplex host loses no byte, for every ring that is larger than    *)
(* the longest message.                                                    *)
(***************************************************************************)
EXTENDS UartLine, TLAPS

Outstanding == left + holding + ring
LineEmpty == left = 0 /\ holding = 0 /\ ring = 0

\* The parts of the type invariant: counters and names, flags.
Counts ==
  /\ phase \in {"idle", "busy", "answered", "stopped"}
  /\ state \in {"kBootup", "kShell"}
  /\ enabled \subseteq {"kRxReady"}
  /\ holding \in 0 .. 1
  /\ ring \in 0 .. UART_BUFFER_SIZE - 1
  /\ left \in 0 .. MaxMessage
Flags == masked \in BOOLEAN /\ waiting \in BOOLEAN /\ lost \in BOOLEAN /\ gaveUp \in BOOLEAN

\* Why nothing is lost: while anything of a message is outstanding, the
\* command loop waits for it with interrupts on; it masks them only on behalf
\* of a host that has sent everything and waits.
Quiet ==
  /\ Outstanding <= MaxMessage
  /\ ~waiting => LineEmpty
  /\ state = "kBootup" => LineEmpty /\ waiting /\ phase = "idle"
  /\ phase \in {"busy", "stopped"} => LineEmpty /\ waiting
  /\ masked => phase \in {"busy", "stopped"}

LineInv == Counts /\ (~gaveUp => ~lost /\ Quiet)

-----------------------------------------------------------------------------

LEMMA InitLine == Init => LineInv /\ Flags
<1>1. Init => LineInv
  BY LineAssumption, SMT
     DEF LineAssumption, Init, LineInv, Counts, Quiet, Outstanding, LineEmpty, Loop!Init
<1>2. Init => Flags
  BY Zenon DEF Init, Flags, Loop!Init
<1> QED BY <1>1, <1>2

\* Start-up and power cycle: the host does not send before the prompt.
LEMMA StartKeepsLine == LineInv /\ (StartUp \/ PowerCycle) => LineInv'
<1> SUFFICES ASSUME LineInv, StartUp \/ PowerCycle PROVE LineInv'
  OBVIOUS
<1> USE LineAssumption
    DEF LineAssumption, LineInv, Counts, Quiet, Outstanding, LineEmpty, lineVars, history
<1>1. CASE EnableInterrupts
  BY <1>1, SMT DEF EnableInterrupts
<1>2. CASE Setup
  BY <1>2, SMT DEF Setup
<1>3. CASE PowerCycle
  BY <1>3, SMT DEF PowerCycle, Loop!Reset
<1> QED BY <1>1, <1>2, <1>3 DEF StartUp

\* The line: a byte cannot find the register occupied or the ring full.
LEMMA ArrivalKeepsLine ==
  LineInv /\ (Send \/ ByteArrives \/ ReceiveInterrupt) => LineInv'
<1> SUFFICES ASSUME LineInv, Send \/ ByteArrives \/ ReceiveInterrupt PROVE LineInv'
  OBVIOUS
<1> USE LineAssumption
    DEF LineAssumption, LineInv, Counts, Quiet, Outstanding, LineEmpty, deviceVars, history
<1>1. CASE Send
  <2>1. PICK n \in 1 .. MaxMessage : left' = n
    BY <1>1, SMT DEF Send
  <2> QED BY <1>1, <2>1, SMT DEF Send
<1>2. CASE ByteArrives
  BY <1>2, SMT DEF ByteArrives
<1>3. CASE ReceiveInterrupt
  BY <1>3, SMT DEF ReceiveInterrupt, RingHasRoom
<1> QED BY <1>1, <1>2, <1>3

\* The main loop: interrupts are masked only when nothing is outstanding.
LEMMA LoopKeepsLine == LineInv /\ (MainLoop \/ GiveUp \/ Work) => LineInv'
<1> SUFFICES ASSUME LineInv, MainLoop \/ GiveUp \/ Work PROVE LineInv'
  OBVIOUS
<1> USE LineAssumption
    DEF LineAssumption, LineInv, Counts, Quiet, Outstanding, LineEmpty, lineVars, history
<1>1. CASE ReadByte
  BY <1>1, SMT DEF ReadByte, LastByte, Loop!Accept
<1>2. CASE Finish
  BY <1>2, SMT DEF Finish, Loop!Finish
<1>3. CASE GiveUp
  BY <1>3, SMT DEF GiveUp
<1>4. CASE Work
  BY <1>4, SMT DEF Work, Loop!Work
<1>5. CASE Return
  BY <1>5, SMT DEF Return, Loop!Return
<1> QED BY <1>1, <1>2, <1>3, <1>4, <1>5 DEF MainLoop

LEMMA FlagsKept == Flags /\ [Next]_vars => Flags'
<1> SUFFICES ASSUME Flags, [Next]_vars PROVE Flags'
  OBVIOUS
<1> USE DEF Flags, deviceVars, history
<1>1. CASE StartUp \/ PowerCycle
  BY <1>1, Zenon DEF StartUp, PowerCycle, EnableInterrupts, Setup, Loop!Reset
<1>2. CASE Send \/ ByteArrives \/ ReceiveInterrupt
  BY <1>2, Zenon DEF Send, ByteArrives, ReceiveInterrupt
<1>3. CASE MainLoop \/ GiveUp \/ Work
  BY <1>3, Zenon
     DEF MainLoop, GiveUp, Work, ReadByte, Finish, Return, Loop!Accept, Loop!Finish,
         Loop!Return, Loop!Work
<1>4. CASE UNCHANGED vars
  BY <1>4, Zenon DEF vars
<1> QED BY <1>1, <1>2, <1>3, <1>4 DEF Next

LEMMA LineInvariant == Spec => [](LineInv /\ Flags)
<1>1. LineInv /\ UNCHANGED vars => LineInv'
  BY SMT DEF LineInv, Counts, Quiet, Outstanding, LineEmpty, vars, deviceVars, lineVars, history
<1>2. LineInv /\ [Next]_vars => LineInv'
  BY StartKeepsLine, ArrivalKeepsLine, LoopKeepsLine, <1>1 DEF Next
<1> QED BY InitLine, FlagsKept, <1>2, PTL DEF Spec

\* Every variable of the line keeps its type; in particular the ring stays
\* below its capacity for every host.
THEOREM LineTypes == Spec => []TypeOK
<1>1. LineInv /\ Flags => TypeOK
  BY Zenon DEF LineInv, Counts, Flags, TypeOK
<1> QED BY <1>1, LineInvariant, PTL

\* A host that waits for its answers loses no byte (UartLine!NothingLost),
\* whatever is masked by the handlers and however long they take.
THEOREM NoByteLost == Spec => []NothingLost
<1>1. LineInv => NothingLost
  BY Zenon DEF LineInv, NothingLost
<1> QED BY <1>1, LineInvariant, PTL

=============================================================================
