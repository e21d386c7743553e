------------------------------ MODULE Startup ------------------------------
(***************************************************************************)
(* The processor around the program: reset, ResetISR with its copy and     *)
(* clear loops, main, the jump into the image (BootJump), and interrupts,  *)
(* which find their routine in the vector table that VTOR points to.       *)
(*                                                                         *)
(* The start-up code runs in steps because a reset may come between any    *)
(* two of them.  Addresses and lengths are in words of four bytes, to      *)
(* which the linker aligns the sections.  main is generated and not in the *)
(* repository: it may enable any interrupt, use its variables and, having  *)
(* decided that there is a valid image, call ExecuteImage.                 *)
(***************************************************************************)
EXTENDS Integers, Sequences

CONSTANTS
  Words,        \* word addresses of RAM
  Rom,          \* contents of the words of flash that hold initial values
  DataTable,    \* __data_section_table: load address, address, length
  BssTable,     \* __bss_section_table: address, length
  ClockWord,    \* where SystemCoreClock lives
  DEFAULT_SYSTEM_CLOCK,
  Junk,         \* what RAM holds at power-on, or a running program leaves there
  Sources,      \* interrupt sources that may become pending
  Overridden    \* those whose weak handler, or driver handler, is replaced

Span(section) == section.exe .. section.exe + section.len - 1
Spans == {Span(DataTable[i]) : i \in DOMAIN DataTable}
           \cup {Span(BssTable[j]) : j \in DOMAIN BssTable}
Variables == UNION Spans

ASSUME StartupAssumption ==
  /\ Words \subseteq Nat
  /\ DataTable \in Seq([load : Nat, exe : Nat, len : Nat])
  /\ BssTable \in Seq([exe : Nat, len : Nat])
  /\ Variables \subseteq Words
  /\ \A i, j \in DOMAIN DataTable :
       i # j => Span(DataTable[i]) \cap Span(DataTable[j]) = {}
  /\ \A i, j \in DOMAIN BssTable :
       i # j => Span(BssTable[i]) \cap Span(BssTable[j]) = {}
  /\ \A i \in DOMAIN DataTable, j \in DOMAIN BssTable :
       Span(DataTable[i]) \cap Span(BssTable[j]) = {}
  /\ ClockWord \in Variables
  /\ Overridden \subseteq Sources

VARIABLES
  pc,        \* next step of the start-up, or the program that runs
  ram,
  entry,     \* position in the section table
  loop,      \* words of the section done so far
  primask, vtor, msp,
  program,   \* whose code runs: boot or image
  enabled,   \* interrupt sources enabled in the NVIC
  pending    \* interrupt sources that ask for service

core == <<primask, vtor, msp, program>>
nvic == <<enabled, pending>>
vars == <<pc, ram, entry, loop, core, nvic>>

-----------------------------------------------------------------------------
(* ResetISR.                                                               *)

\* RAM survives a reset, unless the power has gone.
Reset ==
  /\ pc' = "cpsid"
  /\ ram' \in {ram, [w \in Words |-> Junk]}
  /\ entry' = 1 /\ loop' = 0
  /\ primask' = FALSE
  /\ vtor' = "boot" /\ msp' = "boot" /\ program' = "boot"
  /\ enabled' = {} /\ pending' = {}

\* Interrupts off, then the clock of the RAM on.
DisableInterrupts ==
  /\ pc = "cpsid"
  /\ pc' = "init"
  /\ primask' = TRUE
  /\ UNCHANGED <<ram, entry, loop, vtor, msp, program, nvic>>

\* SystemInitHook is weak: what replaces it may write a variable too early.
SystemInit ==
  /\ pc = "init"
  /\ pc' = "data"
  /\ vtor' = "boot"
  /\ \E w \in Variables :
       ram' = [ram EXCEPT ![ClockWord] = DEFAULT_SYSTEM_CLOCK, ![w] = Junk]
  /\ UNCHANGED <<entry, loop, primask, msp, program, nvic>>

Mutant_OneWordTooMany(table, value) ==
  /\ entry <= Len(table) /\ loop <= table[entry].len
  /\ ram' = [ram EXCEPT ![table[entry].exe + loop] = value]
  /\ loop' = loop + 1
  /\ UNCHANGED <<pc, entry>>

\* One round of data_init or bss_init.
InitWord(table, value) ==
  /\ entry <= Len(table) /\ loop < table[entry].len
  /\ ram' = [ram EXCEPT ![table[entry].exe + loop] = value]
  /\ loop' = loop + 1
  /\ UNCHANGED <<pc, entry>>

Mutant_LoopNotReset(table) ==
  /\ entry <= Len(table) /\ loop >= table[entry].len
  /\ entry' = entry + 1
  /\ UNCHANGED <<pc, ram, loop>>

Mutant_SectionAgain(table) ==
  /\ entry <= Len(table) /\ loop >= table[entry].len
  /\ loop' = 0
  /\ UNCHANGED <<pc, ram, entry>>

NextSection(table) ==
  /\ entry <= Len(table) /\ loop >= table[entry].len
  /\ entry' = entry + 1 /\ loop' = 0
  /\ UNCHANGED <<pc, ram>>

\* The pointer is not loaded anew for the next table: __data_section_table_end
\* is taken to be __bss_section_table, as the linker scripts lay them out.
TableDone(table, next) ==
  /\ entry > Len(table)
  /\ pc' = next
  /\ entry' = 1 /\ loop' = 0
  /\ UNCHANGED ram

CopyData ==
  /\ pc = "data"
  /\ \/ InitWord(DataTable, Rom[DataTable[entry].load + loop])
     \/ NextSection(DataTable)
     \/ TableDone(DataTable, "bss")
  /\ UNCHANGED <<core, nvic>>

ClearBss ==
  /\ pc = "bss"
  /\ \/ InitWord(BssTable, 0)
     \/ NextSection(BssTable)
     \/ TableDone(BssTable, "constructors")
  /\ UNCHANGED <<core, nvic>>

\* __libc_init_array, external: constructors give variables their values.
Constructors ==
  /\ pc = "constructors"
  /\ pc' = "cpsie"
  /\ \E w \in Variables : ram' = [ram EXCEPT ![w] = Junk]
  /\ UNCHANGED <<entry, loop, core, nvic>>

EnableInterrupts ==
  /\ pc = "cpsie"
  /\ pc' = "main"
  /\ primask' = FALSE
  /\ UNCHANGED <<ram, entry, loop, vtor, msp, program, nvic>>

-----------------------------------------------------------------------------
(* The running program.                                                    *)

MainRuns ==
  /\ pc = "main"
  /\ enabled' \in SUBSET Sources
  /\ \E w \in Variables : ram' = [ram EXCEPT ![w] = Junk]
  /\ UNCHANGED <<pc, entry, loop, core, pending>>

Mutant_JumpsUnmasked ==
  /\ pc = "main"
  /\ pc' = "setup"
  /\ UNCHANGED <<ram, entry, loop, core, nvic>>

\* ExecuteImage: BootJump begins.
ExecuteImage ==
  /\ pc = "main"
  /\ pc' = "setup"
  /\ primask' = TRUE
  /\ UNCHANGED <<ram, entry, loop, vtor, msp, program, nvic>>

\* Chip::DefaultSetup is external: it may or may not quiet the NVIC.
DefaultSetup ==
  /\ pc = "setup"
  /\ pc' = "vtor"
  /\ enabled' \in {enabled, {}}
  /\ pending' \in {pending, {}}
  /\ UNCHANGED <<ram, entry, loop, core>>

\* The core never leaves the main stack, so the PSP branch is not taken.
SetVectorTable ==
  /\ pc = "vtor"
  /\ pc' = "stack"
  /\ vtor' = "image"
  /\ UNCHANGED <<ram, entry, loop, primask, msp, program, nvic>>

SetStackPointer ==
  /\ pc = "stack"
  /\ pc' = "jump"
  /\ msp' = "image"
  /\ UNCHANGED <<ram, entry, loop, primask, vtor, program, nvic>>

JumpToApp ==
  /\ pc = "jump"
  /\ pc' = "image"
  /\ program' = "image"
  /\ UNCHANGED <<ram, entry, loop, primask, vtor, msp, nvic>>

\* The image is external; it turns the interrupts on when it is ready.
ImageUnmasks ==
  /\ pc = "image"
  /\ primask' = FALSE
  /\ UNCHANGED <<pc, ram, entry, loop, vtor, msp, program, nvic>>

-----------------------------------------------------------------------------

Raise ==
  /\ \E s \in Sources : pending' = pending \cup {s}
  /\ UNCHANGED <<pc, ram, entry, loop, core, enabled>>

\* The routine of a replaced handler returns with the source served; all others
\* call IntDefaultHandler, an endless loop that only other interrupts disturb.
TakeInterrupt ==
  /\ ~primask
  /\ \E s \in enabled \cap pending :
       /\ pending' = pending \ {s}
       /\ IF vtor = "image" \/ s \in Overridden THEN UNCHANGED pc
          ELSE pc' = "IntDefaultHandler"
  /\ UNCHANGED <<ram, entry, loop, core, enabled>>

Init ==
  /\ pc = "cpsid"
  /\ ram = [w \in Words |-> Junk]
  /\ entry = 1 /\ loop = 0
  /\ primask = FALSE
  /\ vtor = "boot" /\ msp = "boot" /\ program = "boot"
  /\ enabled = {} /\ pending = {}

ResetISR ==
  \/ DisableInterrupts \/ SystemInit \/ CopyData \/ ClearBss \/ Constructors
  \/ EnableInterrupts
BootJump ==
  \/ ExecuteImage \/ DefaultSetup \/ SetVectorTable \/ SetStackPointer \/ JumpToApp

Next ==
  \/ Reset \/ ResetISR \/ MainRuns \/ BootJump \/ ImageUnmasks
  \/ Raise \/ TakeInterrupt

Spec == Init /\ [][Next]_vars

\* The processor executes the start-up code.
FairSpec == Spec /\ WF_vars(ResetISR)

-----------------------------------------------------------------------------
(* Properties.                                                             *)

InTable(table) ==
  /\ entry <= Len(table) + 1
  /\ entry <= Len(table) => loop <= table[entry].len

\* Every variable has its type; the loops stay inside the tables.
TypeOK ==
  /\ pc \in {"cpsid", "init", "data", "bss", "constructors", "cpsie", "main", "setup",
             "vtor", "stack", "jump", "image", "IntDefaultHandler"}
  /\ DOMAIN ram = Words
  /\ entry \in Nat \ {0} /\ loop \in Nat
  /\ pc = "data" => InTable(DataTable)
  /\ pc = "bss" => InTable(BssTable)
  /\ primask \in BOOLEAN
  /\ {vtor, msp, program} \subseteq {"boot", "image"}
  /\ enabled \subseteq Sources
  /\ pending \subseteq Sources

\* When the constructors start, every variable has its initial value, whatever
\* RAM held before, whatever SystemInit and its hook wrote, and however often
\* the start-up was cut short.
FreshVariables ==
  pc = "constructors" =>
    /\ \A i \in DOMAIN DataTable : \A k \in 0 .. DataTable[i].len - 1 :
         ram[DataTable[i].exe + k] = Rom[DataTable[i].load + k]
    /\ \A j \in DOMAIN BssTable : \A k \in 0 .. BssTable[j].len - 1 :
         ram[BssTable[j].exe + k] = 0

\* The start-up writes nothing but the variables: the stack it runs on and
\* what is kept across a reset are left alone.
OnlyVariables ==
  [][ResetISR => \A w \in Words \ Variables : ram'[w] = ram[w]]_vars

\* An interrupt is only served when the vector table and the stack are those
\* of the program that runs, and the bootloader's variables are initialised.
InterruptsFindTheirProgram ==
  [][TakeInterrupt => /\ vtor = program /\ msp = program
                      /\ program = "boot" => pc \in {"main", "IntDefaultHandler"}]_vars

\* The copy and clear loops end, unless a reset starts them afresh.
StartUpEnds == pc \in {"init", "data", "bss", "constructors"} ~> pc \in {"main", "cpsid"}

=============================================================================
