--------------------------- MODULE StartupProofs ---------------------------
(***************************************************************************)
(* The start-up loops initialise every variable, and nothing else, for     *)
(* every section table whose sections do not overlap; and the jump into    *)
(* the image never lets an interrupt see half of the hand-over.            *)
(***************************************************************************)
EXTENDS Startup, SequenceTheorems, TLAPS

\* The first n words of a section have their initial values.
DataReady(i, n) ==
  \A k \in 0 .. n - 1 : ram[DataTable[i].exe + k] = Rom[DataTable[i].load + k]
BssReady(j, n) == \A k \in 0 .. n - 1 : ram[BssTable[j].exe + k] = 0

AllData == \A i \in DOMAIN DataTable : DataReady(i, DataTable[i].len)
AllBss == \A j \in DOMAIN BssTable : BssReady(j, BssTable[j].len)

\* How far the loops have come.
LoopInv ==
  /\ DOMAIN ram = Words
  /\ entry \in Nat \ {0} /\ loop \in Nat
  /\ pc \in {"cpsid", "init"} => entry = 1 /\ loop = 0
  /\ pc = "data" =>
       /\ InTable(DataTable)
       /\ \A i \in 1 .. entry - 1 : DataReady(i, DataTable[i].len)
       /\ entry <= Len(DataTable) => DataReady(entry, loop)
  /\ pc = "bss" =>
       /\ InTable(BssTable)
       /\ AllData
       /\ \A j \in 1 .. entry - 1 : BssReady(j, BssTable[j].len)
       /\ entry <= Len(BssTable) => BssReady(entry, loop)
  /\ pc = "constructors" => AllData /\ AllBss

-----------------------------------------------------------------------------

LEMMA SectionTypes ==
  /\ \A i \in DOMAIN DataTable : DataTable[i] \in [load : Nat, exe : Nat, len : Nat]
  /\ \A j \in DOMAIN BssTable : BssTable[j] \in [exe : Nat, len : Nat]
  /\ Len(DataTable) \in Nat /\ DOMAIN DataTable = 1 .. Len(DataTable)
  /\ Len(BssTable) \in Nat /\ DOMAIN BssTable = 1 .. Len(BssTable)
<1>1. /\ DataTable \in Seq([load : Nat, exe : Nat, len : Nat])
      /\ BssTable \in Seq([exe : Nat, len : Nat])
  BY StartupAssumption DEF StartupAssumption
<1>2. /\ Len(DataTable) \in Nat /\ DOMAIN DataTable = 1 .. Len(DataTable)
      /\ Len(BssTable) \in Nat /\ DOMAIN BssTable = 1 .. Len(BssTable)
  BY <1>1
<1>3. \A i \in DOMAIN DataTable : DataTable[i] \in [load : Nat, exe : Nat, len : Nat]
  BY <1>1, <1>2, ElementOfSeq
<1>4. \A j \in DOMAIN BssTable : BssTable[j] \in [exe : Nat, len : Nat]
  BY <1>1, <1>2, ElementOfSeq
<1>. QED
  BY <1>2, <1>3, <1>4

LEMMA SectionsInRam ==
  /\ \A i \in DOMAIN DataTable : Span(DataTable[i]) \subseteq Variables
  /\ \A j \in DOMAIN BssTable : Span(BssTable[j]) \subseteq Variables
  BY DEF Variables, Spans

\* The word that the loop writes next.
LEMMA NextWord ==
  ASSUME NEW s, s.exe \in Nat, s.len \in Nat, NEW n \in Nat, n < s.len
  PROVE  s.exe + n \in Span(s)
  BY DEF Span

LEMMA WordsOfSection ==
  ASSUME NEW s, s.exe \in Nat, s.len \in Nat, NEW k \in 0 .. s.len - 1
  PROVE  s.exe + k \in Span(s)
  BY DEF Span

\* A round of data_init adds one word to its section and spares the others.
LEMMA CopyWord ==
  ASSUME LoopInv, pc = "data", InitWord(DataTable, Rom[DataTable[entry].load + loop])
  PROVE  LoopInv'
<1>. DEFINE s == DataTable[entry]
<1>1. entry \in DOMAIN DataTable /\ s.exe \in Nat /\ s.len \in Nat /\ s.load \in Nat
  BY SectionTypes DEF InitWord, LoopInv
<1>2. s.exe + loop \in Span(s) /\ s.exe + loop \in Words
  BY <1>1, NextWord, SectionsInRam, StartupAssumption, SMTT(30) DEF InitWord, LoopInv
<1>3. /\ DOMAIN ram' = Words /\ ram'[s.exe + loop] = Rom[s.load + loop]
      /\ \A w \in Words : w # s.exe + loop => ram'[w] = ram[w]
  BY <1>2 DEF InitWord, LoopInv
<1>4. \A i \in 1 .. entry - 1 : DataReady(i, DataTable[i].len)'
  <2> SUFFICES ASSUME NEW i \in 1 .. entry - 1, NEW k \in 0 .. DataTable[i].len - 1
               PROVE  ram'[DataTable[i].exe + k] = Rom[DataTable[i].load + k]
    BY DEF DataReady
  <2>1. i \in DOMAIN DataTable /\ i # entry
    BY <1>1, SectionTypes DEF LoopInv
  <2>2. DataTable[i].exe + k \in Span(DataTable[i])
    BY <2>1, SectionTypes, WordsOfSection
  <2>3. DataTable[i].exe + k \in Words /\ DataTable[i].exe + k # s.exe + loop
    BY <1>1, <1>2, <2>1, <2>2, SectionsInRam, StartupAssumption DEF StartupAssumption
  <2>4. ram[DataTable[i].exe + k] = Rom[DataTable[i].load + k]
    BY DEF LoopInv, DataReady
  <2>. QED
    BY <1>3, <2>3, <2>4
<1>5. DataReady(entry, loop)'
  <2>0. entry' = entry /\ loop' = loop + 1 /\ loop \in Nat
    BY DEF InitWord, LoopInv
  <2> SUFFICES ASSUME NEW k \in 0 .. loop
               PROVE  ram'[s.exe + k] = Rom[s.load + k]
    BY <2>0 DEF DataReady
  <2>1. CASE k = loop
    BY <1>3, <2>1
  <2>2. CASE k # loop
    <3>1. k \in 0 .. loop - 1 /\ k \in 0 .. s.len - 1
      BY <1>1, <2>2 DEF LoopInv, InitWord
    <3>2. s.exe + k \in Words
      BY <1>1, <3>1, WordsOfSection, SectionsInRam, StartupAssumption DEF StartupAssumption
    <3>4. s.exe + k # s.exe + loop
      BY <1>1, <2>0, <2>2
    <3>3. ram[s.exe + k] = Rom[s.load + k]
      BY <3>1 DEF LoopInv, DataReady, InitWord
    <3>. QED
      BY <1>3, <3>2, <3>3, <3>4
  <2>. QED
    BY <2>1, <2>2
<1>. QED
  BY <1>1, <1>3, <1>4, <1>5 DEF LoopInv, InitWord, InTable

\* A round of bss_init likewise; it also spares the sections that were copied.
LEMMA ClearWord ==
  ASSUME LoopInv, pc = "bss", InitWord(BssTable, 0)
  PROVE  LoopInv'
<1>. DEFINE s == BssTable[entry]
<1>0. entry' = entry /\ loop' = loop + 1 /\ loop \in Nat
  BY DEF InitWord, LoopInv
<1>1. entry \in DOMAIN BssTable /\ s.exe \in Nat /\ s.len \in Nat
  BY SectionTypes DEF InitWord, LoopInv
<1>2. s.exe + loop \in Span(s) /\ s.exe + loop \in Words
  BY <1>1, NextWord, SectionsInRam, StartupAssumption, SMTT(30) DEF InitWord, LoopInv
<1>3. /\ DOMAIN ram' = Words /\ ram'[s.exe + loop] = 0
      /\ \A w \in Words : w # s.exe + loop => ram'[w] = ram[w]
  BY <1>2 DEF InitWord, LoopInv
<1>4. AllData'
  <2> SUFFICES ASSUME NEW i \in DOMAIN DataTable, NEW k \in 0 .. DataTable[i].len - 1
               PROVE  ram'[DataTable[i].exe + k] = Rom[DataTable[i].load + k]
    BY DEF AllData, DataReady
  <2>1. DataTable[i].exe + k \in Span(DataTable[i])
    BY SectionTypes, WordsOfSection
  <2>2. DataTable[i].exe + k \in Words /\ DataTable[i].exe + k # s.exe + loop
    BY <1>1, <1>2, <2>1, SectionsInRam, StartupAssumption DEF StartupAssumption
  <2>. QED
    BY <1>3, <2>2 DEF LoopInv, AllData, DataReady
<1>5. \A j \in 1 .. entry - 1 : BssReady(j, BssTable[j].len)'
  <2> SUFFICES ASSUME NEW j \in 1 .. entry - 1, NEW k \in 0 .. BssTable[j].len - 1
               PROVE  ram'[BssTable[j].exe + k] = 0
    BY DEF BssReady
  <2>1. j \in DOMAIN BssTable /\ j # entry
    BY <1>1, SectionTypes DEF LoopInv
  <2>2. BssTable[j].exe + k \in Span(BssTable[j])
    BY <2>1, SectionTypes, WordsOfSection
  <2>3. BssTable[j].exe + k \in Words /\ BssTable[j].exe + k # s.exe + loop
    BY <1>1, <1>2, <2>1, <2>2, SectionsInRam, StartupAssumption DEF StartupAssumption
  <2>. QED
    BY <1>3, <2>3 DEF LoopInv, BssReady
<1>6. BssReady(entry, loop)'
  <2> SUFFICES ASSUME NEW k \in 0 .. loop
               PROVE  ram'[s.exe + k] = 0
    BY <1>0 DEF BssReady
  <2>1. CASE k = loop
    BY <1>3, <2>1
  <2>2. CASE k # loop
    <3>1. k \in 0 .. loop - 1 /\ k \in 0 .. s.len - 1
      BY <1>0, <1>1, <2>2 DEF InitWord
    <3>2. s.exe + k \in Words
      BY <1>1, <3>1, WordsOfSection, SectionsInRam, StartupAssumption DEF StartupAssumption
    <3>3. s.exe + k # s.exe + loop
      BY <1>0, <1>1, <2>2
    <3>4. ram[s.exe + k] = 0
      BY <3>1 DEF LoopInv, BssReady, InitWord
    <3>. QED
      BY <1>3, <3>2, <3>3, <3>4
  <2>. QED
    BY <2>1, <2>2
<1>. QED
  BY <1>0, <1>1, <1>3, <1>4, <1>5, <1>6 DEF LoopInv, InitWord, InTable

\* The loops go from section to section and from table to table.
LEMMA CopyDataKeeps == LoopInv /\ CopyData => LoopInv'
<1> SUFFICES ASSUME LoopInv, CopyData PROVE LoopInv'
  OBVIOUS
<1>0. pc = "data"
  BY DEF CopyData
<1>1. CASE NextSection(DataTable)
  <2>1. entry \in DOMAIN DataTable /\ loop = DataTable[entry].len
    BY <1>0, <1>1, SectionTypes DEF LoopInv, NextSection, InTable
  <2>2. \A i \in 1 .. entry : DataReady(i, DataTable[i].len)
    BY <1>0, <2>1, SectionTypes DEF LoopInv
  <2>. QED
    BY <1>0, <1>1, <2>1, <2>2, SectionTypes DEF LoopInv, NextSection, InTable, DataReady
<1>2. CASE TableDone(DataTable, "bss")
  <2>1. AllData
    BY <1>0, <1>2, SectionTypes DEF LoopInv, TableDone, InTable, AllData
  <2>. QED
    BY <1>2, <2>1, SectionTypes
    DEF LoopInv, TableDone, InTable, AllData, DataReady, BssReady
<1>. QED
  BY <1>0, <1>1, <1>2, CopyWord DEF CopyData

LEMMA ClearBssKeeps == LoopInv /\ ClearBss => LoopInv'
<1> SUFFICES ASSUME LoopInv, ClearBss PROVE LoopInv'
  OBVIOUS
<1>0. pc = "bss"
  BY DEF ClearBss
<1>1. CASE NextSection(BssTable)
  <2>1. entry \in DOMAIN BssTable /\ loop = BssTable[entry].len
    BY <1>0, <1>1, SectionTypes DEF LoopInv, NextSection, InTable
  <2>2. \A j \in 1 .. entry : BssReady(j, BssTable[j].len)
    BY <1>0, <2>1, SectionTypes DEF LoopInv
  <2>. QED
    BY <1>0, <1>1, <2>1, <2>2, SectionTypes, SMTT(30)
    DEF LoopInv, NextSection, InTable, AllData, DataReady, BssReady
<1>2. CASE TableDone(BssTable, "constructors")
  <2>1. AllBss
    BY <1>0, <1>2, SectionTypes DEF LoopInv, TableDone, InTable, AllBss
  <2>. QED
    BY <1>0, <1>2, <2>1 DEF LoopInv, TableDone, AllData, AllBss, DataReady, BssReady
<1>. QED
  BY <1>0, <1>1, <1>2, ClearWord DEF ClearBss

LEMMA OtherStepsKeep ==
  ASSUME LoopInv, [Next]_vars, ~CopyData, ~ClearBss
  PROVE  LoopInv'
<1>. USE DEF LoopInv, InTable, DataReady, BssReady, AllData, AllBss
<1>1. CASE Reset
  BY <1>1 DEF Reset
<1>2. CASE DisableInterrupts
  BY <1>2 DEF DisableInterrupts
<1>3. CASE SystemInit
  <2>1. pc = "init" /\ pc' = "data" /\ entry' = 1 /\ loop' = 0 /\ DOMAIN ram' = Words
    BY <1>3 DEF SystemInit
  <2>. QED
    BY <2>1, SectionTypes
<1>4. CASE Constructors \/ EnableInterrupts
  BY <1>4 DEF Constructors, EnableInterrupts
<1>5. CASE MainRuns \/ BootJump \/ ImageUnmasks
  BY <1>5
  DEF MainRuns, BootJump, ImageUnmasks, ExecuteImage, DefaultSetup, SetVectorTable,
      SetStackPointer, JumpToApp
<1>6. CASE Raise \/ TakeInterrupt \/ UNCHANGED vars
  <2>1. /\ ram' = ram /\ entry' = entry /\ loop' = loop
        /\ pc' = pc \/ pc' = "IntDefaultHandler"
    BY <1>6 DEF Raise, TakeInterrupt, vars
  <2>. QED
    BY <2>1
<1>. QED
  BY <1>1, <1>2, <1>3, <1>4, <1>5, <1>6 DEF Next, ResetISR

LEMMA LoopInvariant == Spec => []LoopInv
<1>1. Init => LoopInv
  BY DEF Init, LoopInv
<1>2. LoopInv /\ [Next]_vars => LoopInv'
  BY CopyDataKeeps, ClearBssKeeps, OtherStepsKeep
<1>. QED
  BY <1>1, <1>2, PTL DEF Spec

\* For every section table, the variables have their initial values when the
\* constructors start (Startup!FreshVariables): a reset that cuts the loops
\* short, or a hook that writes too early, leaves no trace.
THEOREM VariablesAreFresh == Spec => []FreshVariables
<1>1. LoopInv => FreshVariables
  BY DEF LoopInv, FreshVariables, AllData, AllBss, DataReady, BssReady
<1>. QED
  BY <1>1, LoopInvariant, PTL

\* The start-up code writes variables only (Startup!OnlyVariables).
THEOREM RestIsSpared == Spec => OnlyVariables
<1>1. ASSUME LoopInv, ResetISR, NEW w \in Words \ Variables
      PROVE  ram'[w] = ram[w]
  <2>1. CASE SystemInit
    <3>1. PICK v \in Variables :
            ram' = [ram EXCEPT ![ClockWord] = DEFAULT_SYSTEM_CLOCK, ![v] = Junk]
      BY <2>1 DEF SystemInit
    <3>2. w \in DOMAIN ram /\ w # v /\ w # ClockWord
      BY <1>1, <3>1, StartupAssumption DEF StartupAssumption, LoopInv
    <3>. QED
      BY <3>1, <3>2
  <2>2. CASE CopyData
    <3>1. CASE InitWord(DataTable, Rom[DataTable[entry].load + loop])
      <4>1. DataTable[entry].exe + loop \in Variables
        BY <1>1, <3>1, SectionTypes, NextWord, SectionsInRam DEF InitWord, LoopInv
      <4>. QED
        BY <1>1, <3>1, <4>1 DEF InitWord, LoopInv
    <3>. QED
      BY <2>2, <3>1 DEF CopyData, NextSection, TableDone
  <2>3. CASE ClearBss
    <3>1. CASE InitWord(BssTable, 0)
      <4>1. BssTable[entry].exe + loop \in Variables
        BY <1>1, <3>1, SectionTypes, NextWord, SectionsInRam DEF InitWord, LoopInv
      <4>. QED
        BY <1>1, <3>1, <4>1 DEF InitWord, LoopInv
    <3>. QED
      BY <2>3, <3>1 DEF ClearBss, NextSection, TableDone
  <2>4. CASE DisableInterrupts \/ Constructors \/ EnableInterrupts
    BY <1>1, <2>4 DEF DisableInterrupts, Constructors, EnableInterrupts, LoopInv
  <2>. QED
    BY <1>1, <2>1, <2>2, <2>3, <2>4 DEF ResetISR
<1>2. LoopInv => [ResetISR => \A w \in Words \ Variables : ram'[w] = ram[w]]_vars
  BY <1>1
<1>. QED
  BY <1>2, LoopInvariant, PTL DEF OnlyVariables, Spec

-----------------------------------------------------------------------------
(* Interrupts.                                                             *)

\* The program and what the processor knows of it go together, except while
\* interrupts are off.
CoreInv ==
  /\ pc \in {"cpsid", "init", "data", "bss", "constructors", "cpsie"} =>
       enabled = {} /\ vtor = "boot" /\ msp = "boot" /\ program = "boot"
  /\ pc \in {"main", "IntDefaultHandler"} => vtor = "boot" /\ msp = "boot" /\ program = "boot"
  /\ pc \in {"setup", "vtor", "stack", "jump"} => primask
  /\ pc \in {"stack", "jump", "image"} => vtor = "image"
  /\ pc \in {"jump", "image"} => msp = "image"
  /\ pc = "image" => program = "image"
  /\ enabled \subseteq Sources
  /\ pc \in {"cpsid", "init", "data", "bss", "constructors", "cpsie", "main", "setup",
             "vtor", "stack", "jump", "image", "IntDefaultHandler"}

LEMMA CoreStart == Init => CoreInv
  BY DEF Init, CoreInv

LEMMA ResetCore ==
  ASSUME CoreInv, Reset \/ ResetISR
  PROVE  CoreInv'
<1>1. CASE Reset
  BY <1>1 DEF Reset, CoreInv
<1>2. CASE DisableInterrupts
  BY <1>2 DEF DisableInterrupts, CoreInv, nvic
<1>3. CASE SystemInit
  BY <1>3 DEF SystemInit, CoreInv, nvic
<1>4. CASE CopyData
  BY <1>4 DEF CopyData, InitWord, NextSection, TableDone, CoreInv, core, nvic
<1>5. CASE ClearBss
  BY <1>5 DEF ClearBss, InitWord, NextSection, TableDone, CoreInv, core, nvic
<1>6. CASE Constructors
  BY <1>6 DEF Constructors, CoreInv, core, nvic
<1>7. CASE EnableInterrupts
  BY <1>7 DEF EnableInterrupts, CoreInv, nvic
<1>. QED
  BY <1>1, <1>2, <1>3, <1>4, <1>5, <1>6, <1>7 DEF ResetISR

LEMMA ProgramCore ==
  ASSUME CoreInv, MainRuns \/ BootJump \/ ImageUnmasks
  PROVE  CoreInv'
<1>1. CASE MainRuns
  BY <1>1 DEF MainRuns, CoreInv, core
<1>2. CASE ExecuteImage
  BY <1>2 DEF ExecuteImage, CoreInv, nvic
<1>3. CASE DefaultSetup
  BY <1>3 DEF DefaultSetup, CoreInv, core
<1>4. CASE SetVectorTable
  BY <1>4 DEF SetVectorTable, CoreInv, nvic
<1>5. CASE SetStackPointer
  BY <1>5 DEF SetStackPointer, CoreInv, nvic
<1>6. CASE JumpToApp
  BY <1>6 DEF JumpToApp, CoreInv, nvic
<1>7. CASE ImageUnmasks
  BY <1>7 DEF ImageUnmasks, CoreInv, nvic
<1>. QED
  BY <1>1, <1>2, <1>3, <1>4, <1>5, <1>6, <1>7 DEF BootJump

LEMMA InterruptCore ==
  ASSUME CoreInv, Raise \/ TakeInterrupt \/ UNCHANGED vars
  PROVE  CoreInv'
<1>1. CASE Raise
  BY <1>1 DEF Raise, CoreInv, core
<1>2. CASE TakeInterrupt
  <2>1. UNCHANGED pc \/ (vtor # "image" /\ pc' = "IntDefaultHandler")
    BY <1>2 DEF TakeInterrupt
  <2>2. ~primask /\ UNCHANGED <<entry, loop, core, enabled>>
    BY <1>2 DEF TakeInterrupt
  <2>3. CASE UNCHANGED pc
    BY <2>2, <2>3 DEF CoreInv, core
  <2>4. CASE vtor # "image" /\ pc' = "IntDefaultHandler"
    BY <2>2, <2>4 DEF CoreInv, core
  <2>. QED
    BY <2>1, <2>3, <2>4
<1>3. CASE UNCHANGED vars
  BY <1>3 DEF vars, CoreInv, core, nvic
<1>. QED
  BY <1>1, <1>2, <1>3

LEMMA CoreInvariant == Spec => []CoreInv
<1>1. CoreInv /\ [Next]_vars => CoreInv'
  BY ResetCore, ProgramCore, InterruptCore DEF Next
<1>. QED
  BY CoreStart, <1>1, PTL DEF Spec

\* Between the copy of the vector table address and the jump no interrupt is
\* served, so each finds the table and the stack of the program that runs
\* (Startup!InterruptsFindTheirProgram).
THEOREM InterruptsAtHome == Spec => InterruptsFindTheirProgram
<1>1. CoreInv /\ TakeInterrupt =>
        /\ vtor = program /\ msp = program
        /\ program = "boot" => pc \in {"main", "IntDefaultHandler"}
  BY DEF CoreInv, TakeInterrupt
<1>2. CoreInv => [TakeInterrupt => /\ vtor = program /\ msp = program
                                   /\ program = "boot" => pc \in {"main", "IntDefaultHandler"}]_vars
  BY <1>1
<1>. QED
  BY <1>2, CoreInvariant, PTL DEF InterruptsFindTheirProgram, Spec

-----------------------------------------------------------------------------
(* Types.                                                                  *)

\* What neither the loops nor the hand-over speak of.
FlagsInv ==
  /\ primask \in BOOLEAN
  /\ {vtor, msp, program} \subseteq {"boot", "image"}
  /\ pending \subseteq Sources

LEMMA FlagsInvariant == Spec => []FlagsInv
<1>. USE DEF FlagsInv, core, nvic
<1>1. Init => FlagsInv
  BY DEF Init
<1>2. FlagsInv /\ [Next]_vars => FlagsInv'
  <2> SUFFICES ASSUME FlagsInv, [Next]_vars PROVE FlagsInv'
    OBVIOUS
  <2>1. CASE Reset
    BY <2>1 DEF Reset
  <2>2. CASE ResetISR
    BY <2>2 DEF ResetISR, DisableInterrupts, SystemInit, CopyData, ClearBss, Constructors,
                EnableInterrupts
  <2>3. CASE MainRuns \/ ImageUnmasks
    BY <2>3 DEF MainRuns, ImageUnmasks
  <2>4. CASE BootJump
    BY <2>4 DEF BootJump, ExecuteImage, DefaultSetup, SetVectorTable, SetStackPointer, JumpToApp
  <2>5. CASE Raise \/ TakeInterrupt
    BY <2>5 DEF Raise, TakeInterrupt
  <2>6. CASE UNCHANGED vars
    BY <2>6 DEF vars
  <2>. QED
    BY <2>1, <2>2, <2>3, <2>4, <2>5, <2>6 DEF Next
<1>. QED
  BY <1>1, <1>2, PTL DEF Spec

\* The loops stay inside the section tables, whatever the linker puts there,
\* empty sections and empty tables included (Startup!TypeOK).
THEOREM LoopsStayInTables == Spec => []TypeOK
<1>1. LoopInv /\ CoreInv /\ FlagsInv => TypeOK
  BY DEF LoopInv, CoreInv, FlagsInv, TypeOK
<1>. QED
  BY <1>1, LoopInvariant, CoreInvariant, FlagsInvariant, PTL

=============================================================================
