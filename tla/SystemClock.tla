---------------------------- MODULE SystemClock ----------------------------
(***************************************************************************)
(* SystemCoreClock, the frequency in Hz that erase and copy commands hand  *)
(* to the boot ROM for its flash timing, next to the clock tree it         *)
(* describes (system_LPC845.c; the registers of SYSCON are hardware).      *)
(*                                                                         *)
(* A selection is written to its register first and takes effect with a    *)
(* second write, to the update enable that goes with that register.        *)
(***************************************************************************)
EXTENDS Integers

CONSTANTS
  Fros,              \* inputs: FRO selections, FROOSCCTRL[1:0]
  WdtFreqs, WdtDivs, \* inputs: fields of WDTOSCCTRL
  Multipliers,       \* inputs: MSEL of SYSPLLCTRL
  Dividers,          \* inputs: SYSAHBCLKDIV
  MaxWrites          \* bound: register writes between two resets

ASSUME ClockAssumption ==
  /\ Fros \subseteq 0 .. 3
  /\ WdtFreqs \subseteq 1 .. 15    \* 0 is invalid while the oscillator runs
  /\ WdtDivs \subseteq 0 .. 31
  /\ Multipliers \subseteq 0 .. 31
  /\ Dividers \subseteq 1 .. 255   \* 0 stops the core
  /\ MaxWrites \in Nat

VARIABLES
  reg,              \* the registers of SYSCON and the FAIM, by field
  selected,         \* the selections that have taken effect
  SystemCoreClock,
  writes,           \* register writes since the last reset
  fresh             \* history: has no register been written since the last
                    \* SystemInit or SystemCoreClockUpdate?

clockVars == <<reg, selected, SystemCoreClock, writes, fresh>>

DEFAULT_SYSTEM_CLOCK == 12000000
CLK_OSC_IN == 12000000

fro_osc == <<18000000, 24000000, 30000000, 30000000>>[reg.fro + 1]

FREQSEL == <<600000, 1050000, 1400000, 1750000, 2100000, 2400000, 2700000, 3000000,
             3250000, 3500000, 3750000, 4000000, 4200000, 4400000, 4600000>>

-----------------------------------------------------------------------------
(* The hardware: what clocks the core.                                     *)

FroOut == fro_osc \div (IF selected.froDirect THEN 1 ELSE IF reg.slowBoot THEN 16 ELSE 2)
WdtOut == FREQSEL[reg.wdtFreq] \div (2 * (1 + reg.wdtDiv))

ClockSource(sel) == <<FroOut, CLK_OSC_IN, WdtOut, FroOut \div 2>>[sel + 1]

CoreFrequency ==
  (IF selected.mainPll = 1
   THEN ClockSource(selected.pll) * (reg.msel + 1)
   ELSE ClockSource(selected.main)) \div reg.div

Selections == [main : 0 .. 3, pll : 0 .. 3, mainPll : 0 .. 1, froDirect : BOOLEAN]
Chosen == [main |-> reg.main, pll |-> reg.pll, mainPll |-> reg.mainPll,
           froDirect |-> reg.froDirect]
ResetSelections == [main |-> 0, pll |-> 0, mainPll |-> 0, froDirect |-> FALSE]

-----------------------------------------------------------------------------
(* system_LPC845.c.                                                        *)

FroMeant == IF reg.froDirect THEN fro_osc ELSE fro_osc \div 2

Mutant_WdtUndivided ==
  FREQSEL[reg.wdtFreq] \div (reg.wdtDiv + 1)
WdtMeant == FREQSEL[reg.wdtFreq] \div ((reg.wdtDiv + 1) * 2)

Source(sel) == <<FroMeant, CLK_OSC_IN, WdtMeant, FroMeant \div 2>>[sel + 1]

\* The divider applied inside the PLL branch too.
Mutant_DividedTwice ==
  /\ SystemCoreClock' =
       (IF reg.mainPll = 0 THEN Source(reg.main)
        ELSE (Source(reg.pll) * (reg.msel + 1)) \div reg.div) \div reg.div
  /\ fresh' = TRUE
  /\ UNCHANGED <<reg, selected, writes>>

\* Mind that it reads the selection registers, not what has taken effect.
SystemCoreClockUpdate ==
  /\ SystemCoreClock' =
       (IF reg.mainPll = 0 THEN Source(reg.main)
        ELSE Source(reg.pll) * (reg.msel + 1)) \div reg.div
  /\ fresh' = TRUE
  /\ UNCHANGED <<reg, selected, writes>>

\* Reset values, with the FRO at 24 MHz; any watchdog oscillator.  slowBoot is
\* no register: it is the FAIM setting that divides the FRO by 16 instead of 2.
ResetRegisters ==
  { [fro |-> 1, froDirect |-> FALSE, wdtFreq |-> f, wdtDiv |-> d, msel |-> 0,
     main |-> 0, pll |-> 0, mainPll |-> 0, div |-> 1, slowBoot |-> s] :
      f \in WdtFreqs, d \in WdtDivs, s \in BOOLEAN }

\* A reset, then SystemInit.
SystemInit ==
  /\ reg' \in {r \in ResetRegisters : r.slowBoot = reg.slowBoot}
  /\ selected' = ResetSelections
  /\ SystemCoreClock' = DEFAULT_SYSTEM_CLOCK
  /\ writes' = 0
  /\ fresh' = TRUE

\* What IAP calls are told.
GetSystemCoreClock == SystemCoreClock

-----------------------------------------------------------------------------
(* Who writes the registers is not in the repository: the Chip library or  *)
(* a SystemInitHook.                                                       *)

Written(r) ==
  /\ writes < MaxWrites
  /\ reg' = r
  /\ writes' = writes + 1
  /\ fresh' = FALSE
  /\ UNCHANGED <<selected, SystemCoreClock>>

WriteRegister ==
  \/ \E f \in Fros, d \in BOOLEAN : Written([reg EXCEPT !.fro = f, !.froDirect = d])
  \/ \E f \in WdtFreqs, d \in WdtDivs : Written([reg EXCEPT !.wdtFreq = f, !.wdtDiv = d])
  \/ \E s \in 0 .. 3 : Written([reg EXCEPT !.main = s])
  \/ \E s \in 0 .. 3, k \in Multipliers : Written([reg EXCEPT !.pll = s, !.msel = k])
  \/ \E s \in 0 .. 1 : Written([reg EXCEPT !.mainPll = s])
  \/ \E d \in Dividers : Written([reg EXCEPT !.div = d])

\* MAINCLKUEN, SYSPLLCLKUEN, MAINCLKPLLUEN and FRODIRECTCLKUEN.
UpdateEnable ==
  /\ \/ selected' = [selected EXCEPT !.main = reg.main]
     \/ selected' = [selected EXCEPT !.pll = reg.pll]
     \/ selected' = [selected EXCEPT !.mainPll = reg.mainPll]
     \/ selected' = [selected EXCEPT !.froDirect = reg.froDirect]
  /\ UNCHANGED <<reg, SystemCoreClock, writes, fresh>>

ClockInit ==
  /\ reg \in ResetRegisters
  /\ selected = ResetSelections
  /\ SystemCoreClock = DEFAULT_SYSTEM_CLOCK
  /\ writes = 0
  /\ fresh = TRUE

ClockNext == WriteRegister \/ UpdateEnable \/ SystemCoreClockUpdate \/ SystemInit

ClockSpec == ClockInit /\ [][ClockNext]_clockVars

-----------------------------------------------------------------------------
(* Properties.                                                             *)

\* The fastest oscillator, times the largest multiplier of the PLL.
FastestClock == 30000000 * 32

\* The clock handed to the ROM is a uint32_t and never 0, for every setting of
\* the tree: the intermediate product of the PLL fits too.
ClockTypeOK ==
  /\ selected \in Selections
  /\ SystemCoreClock \in 1 .. FastestClock
  /\ writes \in 0 .. MaxWrites
  /\ fresh \in BOOLEAN

\* Flash is erased and programmed with the timing of the clock the core really
\* has: after a reset, and after every SystemCoreClockUpdate, in whatever order
\* the tree was set up, once every selection has taken effect.  The code does
\* not know of slow boot: it may be wrong with it, and only with it.
ClockKnown ==
  fresh /\ selected = Chosen /\ (reg.slowBoot => reg.froDirect) =>
    GetSystemCoreClock = CoreFrequency

=============================================================================
