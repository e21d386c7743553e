------------------------- MODULE CalculationsProofs -------------------------
(***************************************************************************)
(* The parts of the program that only calculate.  They have nothing to do  *)
(* with each other, and each has its own specification:                    *)
(*   the legality predicates are exact for every layout, not only for the  *)
(*   small one TLC enumerates;                                             *)
(*   the clock is right for every setting of the tree, and its arithmetic  *)
(*   never leaves a uint32_t;                                              *)
(*   every binary that fits becomes an image, for every size of an image;  *)
(*   the lines of every uint32_t fit, except for S;                        *)
(*   the checksum of a frame of any length makes its sum 0.                *)
(***************************************************************************)
EXTENDS LegalityCheck, SystemClock, ImageMaker, AnswerLines, Checksum,
        MemoryMapProofs, SequenceTheorems

-----------------------------------------------------------------------------
(* The legality predicates.                                                *)

\* The answer on record is the one the predicates give (IInv of the machine).
VerdictFaithful ==
  IF verdict.asked
  THEN /\ verdict.flash = FlashAddressRangeLegal(start, length)
       /\ verdict.ram = RamRangeLegal(start, length)
  ELSE verdict = NotAsked

LegalityInv == TypeOK /\ VerdictFaithful

LEMMA LegalityInvariant == Spec => []LegalityInv
<1>1. Init => LegalityInv
  BY DEF Init, LegalityInv, TypeOK, VerdictFaithful, NotAsked
<1>2. LegalityInv /\ [Next]_vars => LegalityInv'
  <2> SUFFICES ASSUME LegalityInv, [Next]_vars PROVE LegalityInv'
    OBVIOUS
  <2>1. CASE Ask
    <3>1. FlashAddressRangeLegal(start, length) \in BOOLEAN
      BY DEF FlashAddressRangeLegal
    <3>2. RamRangeLegal(start, length) \in BOOLEAN
      BY DEF RamRangeLegal
    <3>. QED
      BY <2>1, <3>1, <3>2 DEF Ask, LegalityInv, TypeOK, VerdictFaithful
  <2>2. CASE UNCHANGED vars
    BY <2>2 DEF vars, LegalityInv, TypeOK, VerdictFaithful
  <2>. QED
    BY <2>1, <2>2 DEF Next
<1>. QED
  BY <1>1, <1>2, PTL DEF Spec

\* A request of at most one sector whose bytes all lie in an interval of
\* addresses starts in it and ends in it, without wrapping: the converse of
\* the bounds a legal request has.
LEMMA TouchedBounds ==
  ASSUME NEW s \in Uint, NEW n \in Uint, n > 0, n <= kSectorSize,
         NEW lo \in Nat, NEW hi \in Nat, kSectorSize <= lo, hi <= kModulus,
         BytesOf(s, n) \subseteq lo .. hi - 1
  PROVE  lo <= s /\ s + n <= hi
<1>1. Wrap(s + 0) \in lo .. hi - 1
  BY DEF Uint, BytesOf
<1>2. Wrap(s + 0) = s
  BY WrapCases, LayoutAssumption DEF Uint
<1>3. Wrap(s + (n - 1)) \in lo .. hi - 1
  BY DEF Uint, BytesOf
<1>4. Wrap(s + (n - 1)) = IF s + (n - 1) < kModulus THEN s + (n - 1)
                          ELSE s + (n - 1) - kModulus
  <2>1. s + (n - 1) \in Int /\ s + (n - 1) < 2 * kModulus /\ 0 <= s + (n - 1)
    BY LayoutAssumption DEF Uint
  <2>. QED
    BY <2>1, WrapCases, LayoutAssumption DEF Uint
<1>. QED
  BY <1>1, <1>2, <1>3, <1>4, LayoutAssumption DEF Uint

\* The other direction: bytes s .. s + n - 1 below the modulus do not wrap.
LEMMA TouchedInside ==
  ASSUME NEW s \in Uint, NEW n \in Uint, NEW lo \in Nat, NEW hi \in Nat,
         lo <= s, s + n <= hi, hi <= kModulus
  PROVE  BytesOf(s, n) \subseteq lo .. hi - 1
<1>1. ASSUME NEW i \in 0 .. n - 1
      PROVE  Wrap(s + i) = s + i
  BY <1>1, WrapCases, LayoutAssumption DEF Uint
<1>. QED
  BY <1>1, LayoutAssumption DEF Uint, BytesOf

LEMMA LastByteWraps ==
  ASSUME NEW s \in Uint, NEW n \in Uint, n > 0, s + n <= kModulus
  PROVE  Wrap(s + n - 1) = s + n - 1
  BY WrapCases, LayoutAssumption DEF Uint

\* FlashAddressRangeLegal accepts exactly the requests of at most one sector
\* whose bytes all lie in the application image, whatever the layout.
THEOREM FlashRangeIsExact == Spec => []FlashRangeExact
<1>1. LegalityInv => FlashRangeExact
  <2> SUFFICES ASSUME LegalityInv, verdict.asked, length > 0
               PROVE  verdict.flash <=>
                        length <= kSectorSize /\ Touched \subseteq ImageCells
    BY DEF FlashRangeExact
  <2>1. start \in Uint /\ length \in Uint
    BY DEF LegalityInv, TypeOK
  <2>2. verdict.flash = FlashAddressRangeLegal(start, length)
    BY DEF LegalityInv, VerdictFaithful
  <2>3. ASSUME FlashAddressRangeLegal(start, length)
        PROVE  length <= kSectorSize /\ Touched \subseteq ImageCells
    <3>1. /\ kImageStart <= start
          /\ start + length <= kFlashEnd
          /\ length <= kSectorSize
      BY <2>1, <2>3, FlashRangeBounds
    <3>2. BytesOf(start, length) \subseteq kImageStart .. kFlashEnd - 1
      BY <2>1, <3>1, TouchedInside, LayoutFacts, LayoutAssumption
    <3>. QED
      BY <3>1, <3>2 DEF Touched, ImageCells
  <2>4. ASSUME length <= kSectorSize, Touched \subseteq ImageCells
        PROVE  FlashAddressRangeLegal(start, length)
    <3>1. kImageStart <= start /\ start + length <= kFlashEnd
      BY <2>1, <2>4, TouchedBounds, LayoutFacts DEF Touched, ImageCells
    <3>2. Wrap(start + length - 1) = start + length - 1
      BY <2>1, <3>1, LastByteWraps, LayoutFacts, LayoutAssumption DEF Uint
    <3>. QED
      BY <2>1, <2>4, <3>1, <3>2, LayoutAssumption
      DEF FlashAddressRangeLegal, FlashAddressLegal, kImageStart, kFlashEnd, Uint
  <2>. QED
    BY <2>2, <2>3, <2>4
<1>. QED
  BY <1>1, LegalityInvariant, PTL

\* RamRangeLegal accepts exactly the whole-word requests of at most one sector
\* that stay inside the window of buffer_, whatever the layout.
THEOREM RamRangeIsExact == Spec => []RamRangeExact
<1>1. LegalityInv => RamRangeExact
  <2> SUFFICES ASSUME LegalityInv, verdict.asked, length > 0
               PROVE  verdict.ram <=>
                        /\ length <= kSectorSize
                        /\ length % kWordSize = 0
                        /\ Touched \subseteq RamCells
    BY DEF RamRangeExact
  <2>1. start \in Uint /\ length \in Uint
    BY DEF LegalityInv, TypeOK
  <2>2. verdict.ram = RamRangeLegal(start, length)
    BY DEF LegalityInv, VerdictFaithful
  <2>3. ASSUME RamRangeLegal(start, length)
        PROVE  /\ length <= kSectorSize
               /\ length % kWordSize = 0
               /\ Touched \subseteq RamCells
    <3>1. /\ kIspRamStart <= start
          /\ start + length <= kIspRamEnd
      BY <2>1, <2>3, RamRangeBounds
    <3>2. Touched \subseteq RamCells
      BY <2>1, <3>1, TouchedInside, LayoutFacts DEF Touched, RamCells
    <3>. QED
      BY <2>3, <3>2 DEF RamRangeLegal
  <2>4. ASSUME length <= kSectorSize, length % kWordSize = 0,
               Touched \subseteq RamCells
        PROVE  RamRangeLegal(start, length)
    <3>1. kIspRamStart <= start /\ start + length <= kIspRamEnd
      BY <2>1, <2>4, TouchedBounds, LayoutFacts DEF Touched, RamCells
    <3>2. Wrap(start + length - 1) = start + length - 1
      BY <2>1, <3>1, LastByteWraps, LayoutFacts, LayoutAssumption DEF Uint
    <3>. QED
      BY <2>1, <2>4, <3>1, <3>2, LayoutFacts, LayoutAssumption
      DEF RamRangeLegal, RamAddressLegal, Uint
  <2>. QED
    BY <2>2, <2>3, <2>4
<1>. QED
  BY <1>1, LegalityInvariant, PTL

\* No request is legal both as flash and as RAM, whatever the layout.
THEOREM WindowsAreDisjoint == Spec => []WindowsDisjoint
<1>1. LegalityInv => WindowsDisjoint
  <2> SUFFICES ASSUME LegalityInv, verdict.flash, verdict.ram PROVE FALSE
    BY DEF WindowsDisjoint
  <2>1. CASE verdict.asked
    <3>1. FlashAddressLegal(start) /\ RamAddressLegal(start) /\ start \in Uint
      BY <2>1 DEF LegalityInv, TypeOK, VerdictFaithful,
                  FlashAddressRangeLegal, RamRangeLegal
    <3>. QED
      BY <3>1, LegalWindowsDisjoint
  <2>2. CASE ~verdict.asked
    BY <2>2 DEF LegalityInv, VerdictFaithful, NotAsked
  <2>. QED
    BY <2>1, <2>2
<1>. QED
  BY <1>1, LegalityInvariant, PTL

-----------------------------------------------------------------------------
(* The clock.                                                              *)

Registers ==
  [fro : 0 .. 3, froDirect : BOOLEAN, wdtFreq : 1 .. 15, wdtDiv : 0 .. 31, msel : 0 .. 31,
   main : 0 .. 3, pll : 0 .. 3, mainPll : 0 .. 1, div : 1 .. 255, slowBoot : BOOLEAN]

\* What SystemCoreClockUpdate computes from the registers.
Undivided ==
  IF reg.mainPll = 0 THEN Source(reg.main) ELSE Source(reg.pll) * (reg.msel + 1)
Computed == Undivided \div reg.div

ClockInv ==
  /\ reg \in Registers
  /\ ClockTypeOK
  /\ fresh => SystemCoreClock = Computed

LEMMA ResetRegistersTyped ==
  ASSUME NEW r \in ResetRegisters
  PROVE  /\ r \in Registers
         /\ r.fro = 1 /\ ~r.froDirect /\ r.main = 0 /\ r.mainPll = 0 /\ r.div = 1
<1>1. PICK f \in WdtFreqs, d \in WdtDivs, s \in BOOLEAN :
        r = [fro |-> 1, froDirect |-> FALSE, wdtFreq |-> f, wdtDiv |-> d, msel |-> 0,
             main |-> 0, pll |-> 0, mainPll |-> 0, div |-> 1, slowBoot |-> s]
  BY DEF ResetRegisters
<1>2. f \in 1 .. 15 /\ d \in 0 .. 31
  BY ClockAssumption
<1>. QED
  BY <1>1, <1>2 DEF Registers

\* The slowest and the fastest source of the tree.  (The provers do not take
\* intervals between large numerals, and Zenon no large numeral at all.)
Plausible(x) == x \in Nat /\ 9375 <= x /\ x <= 30000000

LEMMA SourcePlausible ==
  ASSUME reg \in Registers, NEW sel \in 0 .. 3
  PROVE  Plausible(Source(sel))
<1>1. fro_osc \in Nat /\ 18000000 <= fro_osc /\ fro_osc <= 30000000
  <2>1. reg.fro \in 0 .. 3
    BY DEF Registers
  <2>. QED
    BY <2>1, SMT DEF fro_osc
<1>2. FroMeant \in Nat /\ 9000000 <= FroMeant /\ FroMeant <= 30000000
  BY <1>1, SMT DEF FroMeant
<1>3. Plausible(WdtMeant)
  <2>1. /\ FREQSEL[reg.wdtFreq] \in Nat
        /\ 600000 <= FREQSEL[reg.wdtFreq] /\ FREQSEL[reg.wdtFreq] <= 4600000
    <3>1. reg.wdtFreq \in 1 .. 15
      BY DEF Registers
    <3>. QED
      BY <3>1, SMT DEF FREQSEL
  <2>2. (reg.wdtDiv + 1) * 2 \in 2 .. 64
    BY DEF Registers
  <2>3. ASSUME NEW x \in Nat, 600000 <= x, x <= 4600000, NEW d \in 2 .. 64
        PROVE  Plausible(x \div d)
    BY <2>3, SMT DEF Plausible
  <2>. QED
    BY <2>1, <2>2, <2>3, SMT DEF WdtMeant
<1>4. Plausible(FroMeant) /\ Plausible(FroMeant \div 2) /\ Plausible(CLK_OSC_IN)
  BY <1>2, SMT DEF Plausible, CLK_OSC_IN
<1>. QED
  BY <1>3, <1>4 DEF Source

LEMMA ComputedInRange ==
  ASSUME reg \in Registers
  PROVE  Computed \in 1 .. FastestClock
<1>1. /\ reg.main \in 0 .. 3 /\ reg.pll \in 0 .. 3
      /\ reg.msel \in 0 .. 31 /\ reg.div \in 1 .. 255
  BY DEF Registers
<1>2. Undivided \in Nat /\ 255 <= Undivided /\ Undivided <= FastestClock
  <2>. DEFINE Fits(f) == f \in Nat /\ 255 <= f /\ f <= FastestClock
  <2>1. CASE reg.mainPll = 0
    <3>1. \A x : Plausible(x) => Fits(x)
      BY SMT DEF Plausible, FastestClock
    <3>2. Plausible(Source(reg.main))
      BY <1>1, SourcePlausible
    <3>3. Undivided = Source(reg.main)
      BY <2>1 DEF Undivided
    <3>. HIDE DEF Fits
    <3>4. Fits(Source(reg.main))
      BY <3>1, <3>2
    <3>5. Fits(Undivided)
      BY <3>3, <3>4
    <3>. QED
      BY <3>5 DEF Fits
  <2>2. CASE reg.mainPll # 0
    <3>1. ASSUME NEW x, Plausible(x), NEW m \in 0 .. 31
          PROVE  Fits(x * (m + 1))
      <4>1. x \in Nat /\ 9375 <= x /\ x <= 30000000
        BY <3>1 DEF Plausible
      <4>2. x * (m + 1) \in Nat /\ x <= x * (m + 1) /\ x * (m + 1) <= x * 32
        BY <4>1, SMT
      <4>3. FastestClock \in Nat /\ x * 32 <= FastestClock
        BY <4>1, SMT DEF FastestClock
      <4>. DEFINE product == x * (m + 1)
      <4>4. product \in Nat /\ x <= product /\ product <= x * 32
        BY <4>2
      <4>. HIDE DEF product
      <4>5. product \in Nat /\ 255 <= product /\ product <= FastestClock
        BY <4>1, <4>3, <4>4, SMT
      <4>. QED
        BY <4>5 DEF product
    <3>2. Plausible(Source(reg.pll))
      BY <1>1, SourcePlausible
    <3>3. Undivided = Source(reg.pll) * (reg.msel + 1)
      BY <2>2 DEF Undivided
    <3>. HIDE DEF Fits
    <3>4. Fits(Source(reg.pll) * (reg.msel + 1))
      BY <1>1, <3>1, <3>2
    <3>5. Fits(Undivided)
      BY <3>3, <3>4
    <3>. QED
      BY <3>5 DEF Fits
  <2>. QED
    BY <2>1, <2>2
<1>3. FastestClock \in Nat
  BY SMT DEF FastestClock
<1>4. ASSUME NEW x \in Nat, NEW d \in 1 .. 255, 255 <= x
      PROVE  x \div d \in Nat /\ 1 <= x \div d /\ x \div d <= x
  BY <1>4, SMT
<1>5. Undivided \div reg.div \in Nat /\ 1 <= Undivided \div reg.div
      /\ Undivided \div reg.div <= Undivided
  BY <1>1, <1>2, <1>4
<1>. QED
  BY <1>2, <1>3, <1>5 DEF Computed

LEMMA DefaultInRange == FastestClock \in Nat /\ DEFAULT_SYSTEM_CLOCK \in 1 .. FastestClock
<1>1. /\ DEFAULT_SYSTEM_CLOCK \in Nat /\ FastestClock \in Nat
      /\ 1 <= DEFAULT_SYSTEM_CLOCK /\ DEFAULT_SYSTEM_CLOCK <= FastestClock
  BY SMT DEF DEFAULT_SYSTEM_CLOCK, FastestClock
<1>. QED
  BY <1>1

\* SystemInit need not compute the clock of the reset values.
LEMMA DefaultIsComputed ==
  ASSUME reg.fro = 1, ~reg.froDirect, reg.main = 0, reg.mainPll = 0, reg.div = 1
  PROVE  Computed = DEFAULT_SYSTEM_CLOCK
  BY SMT DEF Computed, Undivided, Source, FroMeant, fro_osc, DEFAULT_SYSTEM_CLOCK

\* What is computed depends on nothing but the registers.
LEMMA ComputedStays ==
  ASSUME UNCHANGED reg
  PROVE  UNCHANGED Computed
<1>1. UNCHANGED <<fro_osc, FREQSEL>>
  BY SMT DEF fro_osc, FREQSEL
<1>2. UNCHANGED <<FroMeant, WdtMeant>>
  BY <1>1 DEF FroMeant, WdtMeant
<1>3. \A sel : Source(sel)' = Source(sel)
  BY <1>2 DEF Source
<1>. QED
  BY <1>3 DEF Computed, Undivided

\* Writes to a register of two fields, one field after the other.
LEMMA FieldByField ==
  ASSUME NEW r, NEW x, NEW y
  PROVE  /\ [r EXCEPT !.fro = x, !.froDirect = y]
              = [[r EXCEPT !.fro = x] EXCEPT !.froDirect = y]
         /\ [r EXCEPT !.wdtFreq = x, !.wdtDiv = y]
              = [[r EXCEPT !.wdtFreq = x] EXCEPT !.wdtDiv = y]
         /\ [r EXCEPT !.pll = x, !.msel = y] = [[r EXCEPT !.pll = x] EXCEPT !.msel = y]
  OBVIOUS

LEMMA FroTyped ==
  ASSUME NEW r \in Registers, NEW x \in 0 .. 3, NEW y \in BOOLEAN
  PROVE  [r EXCEPT !.fro = x, !.froDirect = y] \in Registers
<1>1. [r EXCEPT !.fro = x] \in Registers
  BY DEF Registers
<1>2. \A q \in Registers : [q EXCEPT !.froDirect = y] \in Registers
  BY DEF Registers
<1>. QED
  BY <1>1, <1>2, FieldByField

LEMMA WdtTyped ==
  ASSUME NEW r \in Registers, NEW x \in 1 .. 15, NEW y \in 0 .. 31
  PROVE  [r EXCEPT !.wdtFreq = x, !.wdtDiv = y] \in Registers
<1>1. [r EXCEPT !.wdtFreq = x] \in Registers
  BY DEF Registers
<1>2. \A q \in Registers : [q EXCEPT !.wdtDiv = y] \in Registers
  BY DEF Registers
<1>. QED
  BY <1>1, <1>2, FieldByField

LEMMA PllTyped ==
  ASSUME NEW r \in Registers, NEW x \in 0 .. 3, NEW y \in 0 .. 31
  PROVE  [r EXCEPT !.pll = x, !.msel = y] \in Registers
<1>1. [r EXCEPT !.pll = x] \in Registers
  BY DEF Registers
<1>2. \A q \in Registers : [q EXCEPT !.msel = y] \in Registers
  BY DEF Registers
<1>. QED
  BY <1>1, <1>2, FieldByField

LEMMA ClockInvariant == ClockSpec => []ClockInv
<1>. USE DEF ClockInv, ClockTypeOK, Selections, ResetSelections
<1>1. ClockInit => ClockInv
  <2> SUFFICES ASSUME ClockInit PROVE ClockInv
    OBVIOUS
  <2>1. reg \in Registers /\ Computed = DEFAULT_SYSTEM_CLOCK
    BY ResetRegistersTyped, DefaultIsComputed DEF ClockInit
  <2>. QED
    BY <2>1, DefaultInRange, ClockAssumption DEF ClockInit
<1>2. ClockInv /\ [ClockNext]_clockVars => ClockInv'
  <2> SUFFICES ASSUME ClockInv, [ClockNext]_clockVars PROVE ClockInv'
    OBVIOUS
  <2>1. CASE WriteRegister
    <3>1. reg' \in Registers
      <4>1. reg \in Registers
        OBVIOUS
      <4>2. CASE \E f \in Fros, d \in BOOLEAN :
                   Written([reg EXCEPT !.fro = f, !.froDirect = d])
        <5>1. PICK f \in Fros, d \in BOOLEAN :
                reg' = [reg EXCEPT !.fro = f, !.froDirect = d]
          BY <4>2 DEF Written
        <5>2. f \in 0 .. 3
          BY ClockAssumption
        <5>. QED
          BY <4>1, <5>1, <5>2, FroTyped
      <4>3. CASE \E f \in WdtFreqs, d \in WdtDivs :
                   Written([reg EXCEPT !.wdtFreq = f, !.wdtDiv = d])
        <5>1. PICK f \in WdtFreqs, d \in WdtDivs :
                reg' = [reg EXCEPT !.wdtFreq = f, !.wdtDiv = d]
          BY <4>3 DEF Written
        <5>2. f \in 1 .. 15 /\ d \in 0 .. 31
          BY ClockAssumption
        <5>. QED
          BY <4>1, <5>1, <5>2, WdtTyped
      <4>4. CASE \E s \in 0 .. 3 : Written([reg EXCEPT !.main = s])
        BY <4>1, <4>4 DEF Written, Registers
      <4>5. CASE \E s \in 0 .. 3, k \in Multipliers : Written([reg EXCEPT !.pll = s, !.msel = k])
        <5>1. PICK s \in 0 .. 3, k \in Multipliers :
                reg' = [reg EXCEPT !.pll = s, !.msel = k]
          BY <4>5 DEF Written
        <5>2. k \in 0 .. 31
          BY ClockAssumption
        <5>. QED
          BY <4>1, <5>1, <5>2, PllTyped
      <4>6. CASE \E s \in 0 .. 1 : Written([reg EXCEPT !.mainPll = s])
        BY <4>1, <4>6 DEF Written, Registers
      <4>7. CASE \E d \in Dividers : Written([reg EXCEPT !.div = d])
        <5>1. PICK d \in Dividers : reg' = [reg EXCEPT !.div = d]
          BY <4>7 DEF Written
        <5>2. d \in 1 .. 255
          BY ClockAssumption
        <5>. QED
          BY <4>1, <5>1, <5>2 DEF Registers
      <4>. QED
        BY <2>1, <4>2, <4>3, <4>4, <4>5, <4>6, <4>7 DEF WriteRegister
    <3>2. /\ writes < MaxWrites /\ writes' = writes + 1 /\ fresh' = FALSE
          /\ UNCHANGED <<selected, SystemCoreClock>>
      BY <2>1 DEF WriteRegister, Written
    <3>3. writes' \in 0 .. MaxWrites
      BY <3>2, ClockAssumption
    <3>. QED
      BY <3>1, <3>2, <3>3
  <2>2. CASE UpdateEnable
    <3>1. /\ reg.main \in 0 .. 3 /\ reg.pll \in 0 .. 3 /\ reg.mainPll \in 0 .. 1
          /\ reg.froDirect \in BOOLEAN
      BY DEF Registers
    <3>2. selected' \in Selections
      BY <2>2, <3>1 DEF UpdateEnable
    <3>. QED
      BY <2>2, <3>2, ComputedStays DEF UpdateEnable
  <2>3. CASE SystemCoreClockUpdate
    <3>1. SystemCoreClock' = Computed /\ UNCHANGED <<reg, selected, writes>> /\ fresh'
      BY <2>3 DEF SystemCoreClockUpdate, Computed, Undivided
    <3>. QED
      BY <2>3, <3>1, ComputedInRange, ComputedStays DEF SystemCoreClockUpdate
  <2>4. CASE SystemInit
    <3>1. /\ reg' \in Registers /\ reg'.fro = 1 /\ ~reg'.froDirect /\ reg'.main = 0
          /\ reg'.mainPll = 0 /\ reg'.div = 1
      BY <2>4, ResetRegistersTyped DEF SystemInit
    <3>2. Computed' = DEFAULT_SYSTEM_CLOCK
      BY <3>1, SMT DEF Computed, Undivided, Source, FroMeant, fro_osc, DEFAULT_SYSTEM_CLOCK
    <3>. QED
      BY <2>4, <3>1, <3>2, DefaultInRange, ClockAssumption DEF SystemInit
  <2>5. CASE UNCHANGED clockVars
    BY <2>5, ComputedStays DEF clockVars
  <2>. QED
    BY <2>1, <2>2, <2>3, <2>4, <2>5 DEF ClockNext
<1>. QED
  BY <1>1, <1>2, PTL DEF ClockSpec

\* The clock that IAP calls are given is a uint32_t and not 0, for every
\* setting of the tree (SystemClock!ClockTypeOK).
THEOREM ClockNeverZero == ClockSpec => []ClockTypeOK
  BY ClockInvariant, PTL DEF ClockInv

\* It is the clock the core has, after a reset and after every
\* SystemCoreClockUpdate, slow boot apart (SystemClock!ClockKnown).
THEOREM ClockIsKnown == ClockSpec => []ClockKnown
<1>1. ASSUME ClockInv, fresh, selected = Chosen, reg.slowBoot => reg.froDirect
      PROVE  GetSystemCoreClock = CoreFrequency
  <2>1. reg \in Registers /\ SystemCoreClock = Computed
    BY <1>1 DEF ClockInv
  <2>0. selected.froDirect = reg.froDirect
    BY <1>1 DEF Chosen
  <2>2. FroOut = FroMeant
    <3>1. fro_osc \in Int
      <4>1. reg.fro \in 0 .. 3
        BY <2>1 DEF Registers
      <4>. QED
        BY <4>1, SMT DEF fro_osc
    <3>2. fro_osc \div 1 = fro_osc
      BY <3>1
    <3>3. CASE reg.froDirect
      BY <2>0, <3>2, <3>3 DEF FroOut, FroMeant
    <3>4. CASE ~reg.froDirect
      BY <1>1, <2>0, <3>4 DEF FroOut, FroMeant
    <3>. QED
      BY <3>3, <3>4
  <2>3. WdtOut = WdtMeant
    <3>1. reg.wdtDiv \in Int
      BY <2>1 DEF Registers
    <3>2. 2 * (1 + reg.wdtDiv) = (reg.wdtDiv + 1) * 2
      BY <3>1
    <3>. QED
      BY <3>2 DEF WdtOut, WdtMeant
  <2>4. ASSUME NEW sel \in 0 .. 3
        PROVE  ClockSource(sel) = Source(sel)
    BY <2>2, <2>3 DEF ClockSource, Source
  <2>5. /\ reg.main \in 0 .. 3 /\ reg.pll \in 0 .. 3 /\ reg.mainPll \in 0 .. 1
        /\ selected.main = reg.main /\ selected.pll = reg.pll
        /\ selected.mainPll = reg.mainPll
    BY <1>1, <2>1 DEF Registers, Chosen
  <2>6. CASE reg.mainPll = 0
    BY <2>1, <2>4, <2>5, <2>6 DEF CoreFrequency, GetSystemCoreClock, Computed, Undivided
  <2>7. CASE reg.mainPll = 1
    BY <2>1, <2>4, <2>5, <2>7 DEF CoreFrequency, GetSystemCoreClock, Computed, Undivided
  <2>. QED
    BY <2>5, <2>6, <2>7
<1>2. ClockInv => ClockKnown
  BY <1>1 DEF ClockKnown
<1>. QED
  BY <1>2, ClockInvariant, PTL

-----------------------------------------------------------------------------
(* The image maker.                                                        *)

\* The binary, then padding, as long as the image.
Padded(bytes) ==
  /\ bytes \in [1 .. kApplicationSize -> Byte]
  /\ \A k \in 1 .. kApplicationSize :
       bytes[k] = IF k <= Len(data) THEN data[k] ELSE Pad

MakerInv ==
  /\ data \in Seq(Byte)
  /\ pc = "sum" => \/ Padded(image)
                   \/ DOMAIN image = {"number"} /\ Len(data) > kApplicationSize
  /\ pc = "write" => Padded(image) /\ crc \in CrcWords
  /\ ImageMade

LEMMA MakerSizes ==
  /\ kApplicationSize \in Nat /\ kCrcSize \in 1 .. kApplicationSize - 1
  /\ Pad \in Byte
  BY ImageMakerAssumption DEF ImageMakerAssumption

LEMMA BinariesAreBytes == ASSUME NEW d \in Binaries PROVE d \in Seq(Byte)
<1>1. PICK n \in 0 .. MaxLength : d \in [1 .. n -> Byte]
  BY DEF Binaries
<1>2. n \in Nat
  BY ImageMakerAssumption DEF ImageMakerAssumption
<1>. QED
  BY <1>1, <1>2

LEMMA PaddedIsBytes ==
  ASSUME NEW bytes, Padded(bytes)
  PROVE  bytes \in Seq(Byte) /\ Len(bytes) = kApplicationSize
  BY MakerSizes DEF Padded

\* Padding makes a short binary as long as the image.
LEMMA PaddingFits ==
  ASSUME data \in Seq(Byte), Len(data) <= kApplicationSize
  PROVE  Padded(data \o [i \in 1 .. kApplicationSize - Len(data) |-> Pad])
<1>. DEFINE rest == [i \in 1 .. kApplicationSize - Len(data) |-> Pad]
            padded == data \o rest
<1>1. Len(data) \in Nat /\ kApplicationSize - Len(data) \in Nat
  BY MakerSizes
<1>2. rest \in Seq(Byte) /\ Len(rest) = kApplicationSize - Len(data)
      /\ \A i \in 1 .. kApplicationSize - Len(data) : rest[i] = Pad
  BY <1>1, MakerSizes
<1>. HIDE DEF rest
<1>3. /\ padded \in Seq(Byte) /\ Len(padded) = Len(data) + Len(rest)
      /\ \A i \in 1 .. Len(data) + Len(rest) :
           padded[i] = IF i <= Len(data) THEN data[i] ELSE rest[i - Len(data)]
  BY <1>2, ConcatProperties
<1>4. Len(data) + Len(rest) = kApplicationSize
  BY <1>1, <1>2, MakerSizes
<1>. HIDE DEF padded
<1>5. padded \in [1 .. kApplicationSize -> Byte]
  BY <1>3, <1>4
<1>6. ASSUME NEW k \in 1 .. kApplicationSize
      PROVE  padded[k] = IF k <= Len(data) THEN data[k] ELSE Pad
  <2>1. CASE k <= Len(data)
    BY <1>3, <1>4, <2>1
  <2>2. CASE ~(k <= Len(data))
    <3>1. k - Len(data) \in 1 .. kApplicationSize - Len(data)
      BY <1>1, <2>2, MakerSizes
    <3>. QED
      BY <1>2, <1>3, <1>4, <2>2, <3>1
  <2>. QED
    BY <2>1, <2>2
<1>7. Padded(padded)
  BY <1>5, <1>6 DEF Padded
<1>. QED
  BY <1>7 DEF padded, rest

\* A sequence of bytes is not taken for a number: it has two bytes at least.
LEMMA BytesAreNoNumber ==
  ASSUME NEW bytes, Padded(bytes)
  PROVE  DOMAIN bytes # {"number"}
<1>1. 1 \in DOMAIN bytes /\ 2 \in DOMAIN bytes
  BY MakerSizes DEF Padded
<1>. QED
  BY <1>1

\* The CRC takes the place of the last word.
LEMMA CrcReplacesLastWord ==
  ASSUME NEW bytes, Padded(bytes), NEW word \in CrcWords,
         NEW out, out = SubSeq(bytes, 1, Len(bytes) - kCrcSize) \o word
  PROVE  /\ Len(out) = kApplicationSize
         /\ \A k \in 1 .. kApplicationSize - kCrcSize :
              out[k] = IF k <= Len(data) THEN data[k] ELSE Pad
<1>. DEFINE n == kApplicationSize - kCrcSize
            body == SubSeq(bytes, 1, n)
<1>1. n \in Nat /\ n <= kApplicationSize /\ kCrcSize \in Nat /\ n + kCrcSize = kApplicationSize
  BY MakerSizes
<1>2. \A i \in 1 .. n : bytes[i] \in Byte
  BY <1>1, MakerSizes DEF Padded
<1>. HIDE DEF n
<1>3. /\ body \in Seq(Byte) /\ Len(body) = n
      /\ \A i \in 1 .. n : body[i] = bytes[i]
  <2>1. /\ body \in Seq(Byte)
        /\ Len(body) = IF 1 <= n THEN n - 1 + 1 ELSE 0
        /\ \A i \in 1 .. n - 1 + 1 : body[i] = bytes[1 + i - 1]
    BY <1>1, <1>2, SubSeqProperties
  <2>. HIDE DEF body
  <2>. QED
    BY <1>1, <2>1
<1>4. word \in Seq(Byte) /\ Len(word) = kCrcSize
  BY <1>1 DEF CrcWords
<1>5. out = body \o word
  BY PaddedIsBytes DEF n
<1>. HIDE DEF body
<1>6. /\ Len(out) = n + kCrcSize
      /\ \A i \in 1 .. n + kCrcSize :
           out[i] = IF i <= n THEN body[i] ELSE word[i - n]
  BY <1>3, <1>4, <1>5, ConcatProperties
<1>7. ASSUME NEW k \in 1 .. n
      PROVE  out[k] = IF k <= Len(data) THEN data[k] ELSE Pad
  <2>1. out[k] = bytes[k]
    BY <1>1, <1>3, <1>6
  <2>2. k \in 1 .. kApplicationSize
    BY <1>1, MakerSizes
  <2>. QED
    BY <2>1, <2>2 DEF Padded
<1>. QED
  BY <1>1, <1>6, <1>7 DEF n

LEMMA MakerInvariant == MakerSpec => []MakerInv
<1>1. MakerInit => MakerInv
  BY BinariesAreBytes DEF MakerInit, MakerInv, ImageMade
<1>2. MakerInv /\ [MakerNext]_makerVars => MakerInv'
  <2> SUFFICES ASSUME MakerInv, [MakerNext]_makerVars PROVE MakerInv'
    OBVIOUS
  <2>1. CASE TakeImage
    <3>1. data' = data /\ data \in Seq(Byte) /\ Len(data) \in Nat
          /\ pc' \in {"sum", "failed"}
      BY <2>1 DEF TakeImage, MakerInv
    <3>2. CASE Len(data) = kDeviceSize /\ image' = Number(data[kDeviceSize - kApplicationSize + 1])
               /\ pc' = "sum"
      <4>1. DOMAIN image' = {"number"}
        BY <3>2 DEF Number
      <4>2. Len(data) > kApplicationSize
        BY <3>2, ImageMakerAssumption DEF ImageMakerAssumption
      <4>. QED
        BY <3>1, <3>2, <4>1, <4>2 DEF MakerInv, ImageMade
    <3>3. CASE Len(data) <= kApplicationSize /\ pc' = "sum"
               /\ image' = data \o [i \in 1 .. kApplicationSize - Len(data) |-> Pad]
      <4>1. Padded(image')
        BY <3>1, <3>3, PaddingFits
      <4>2. Padded(image)'
        BY <3>1, <4>1 DEF Padded
      <4>. QED
        BY <3>1, <3>3, <4>2 DEF MakerInv, ImageMade
    <3>4. CASE Len(data) > kApplicationSize /\ pc' = "failed"
      BY <3>1, <3>4 DEF MakerInv, ImageMade
    <3>. QED
      BY <2>1, <3>2, <3>3, <3>4 DEF TakeImage
  <2>2. CASE Sum
    <3>1. UNCHANGED <<data, image, imageout>> /\ data \in Seq(Byte)
      BY <2>2 DEF Sum, MakerInv
    <3>2. CASE IsBytes
      <4>1. Padded(image) /\ crc' = Crc(image) /\ pc' = "write"
        BY <2>2, <3>2 DEF Sum, MakerInv, IsBytes
      <4>2. crc' \in CrcWords
        BY <4>1, ImageMakerAssumption DEF Padded, ImageMakerAssumption
      <4>3. Padded(image)'
        BY <3>1, <4>1 DEF Padded
      <4>. QED
        BY <3>1, <4>1, <4>2, <4>3 DEF MakerInv, ImageMade, CrcWords
    <3>3. CASE ~IsBytes
      <4>1. pc' = "failed" /\ Len(data) > kApplicationSize
        BY <2>2, <3>3, BytesAreNoNumber DEF Sum, MakerInv, IsBytes
      <4>. QED
        BY <3>1, <4>1 DEF MakerInv, ImageMade
    <3>. QED
      BY <3>2, <3>3
  <2>3. CASE Write
    <3>1. /\ Padded(image) /\ crc \in CrcWords /\ data' = data /\ pc' = "done"
          /\ imageout' = SubSeq(image, 1, Len(image) - kCrcSize) \o crc
          /\ data \in Seq(Byte)
      BY <2>3 DEF Write, MakerInv
    <3>2. /\ Len(imageout') = kApplicationSize
          /\ \A k \in 1 .. kApplicationSize - kCrcSize :
               imageout'[k] = IF k <= Len(data) THEN data[k] ELSE Pad
      BY <3>1, CrcReplacesLastWord
    <3>. QED
      BY <3>1, <3>2 DEF MakerInv, ImageMade
  <2>4. CASE Invoke
    BY <2>4, BinariesAreBytes DEF Invoke, MakerInv, ImageMade
  <2>5. CASE UNCHANGED makerVars
    BY <2>5 DEF makerVars, MakerInv, ImageMade, Padded, CrcWords
  <2>. QED
    BY <2>1, <2>2, <2>3, <2>4, <2>5 DEF MakerNext
<1>. QED
  BY <1>1, <1>2, PTL DEF MakerSpec

\* Every binary that fits becomes an image, whatever the sizes are: its bytes
\* where the device starts it, padding, and a word at the end
\* (ImageMaker!ImageMade).
THEOREM BinaryBecomesImage == MakerSpec => []ImageMade
  BY MakerInvariant, PTL DEF MakerInv

-----------------------------------------------------------------------------
(* The answer lines of a uint32_t of four bytes, which has numbers beyond  *)
(* those TLC can count to.                                                 *)

LEMMA Widths ==
  ASSUME kUintSize = 4
  PROVE  digits10 = 9 /\ kHexDigits = 8 /\ kUintValues \in 100 .. 10 ^ 10
<1>1. digits10 = 9
  BY SMT DEF digits10
<1>2. kHexDigits = 8
  <2>1. kHexDigits = 2 * kUintSize
    BY AnswerAssumption
  <2>. QED
    BY <2>1
<1>3. kUintValues = 16 ^ 8
  <2>1. kUintValues = 16 ^ kHexDigits
    BY AnswerAssumption
  <2>. QED
    BY <1>2, <2>1
<1>4. 16 ^ 8 \in 100 .. 10 ^ 10
  BY SMT
<1>. QED
  BY <1>1, <1>2, <1>3, <1>4, Zenon

\* The digits of a number are counted, and the tenth is for those from 10^9 on.
LEMMA DecimalDigits ==
  ASSUME kUintSize = 4, NEW n \in 0 .. kUintValues - 1
  PROVE  /\ Decimal(n) \in 1 .. 10
         /\ Decimal(n) = 10 <=> n >= 10 ^ 9
         /\ n <= 99 => Decimal(n) <= 2
<1>. DEFINE Counts(d) == n < 10 ^ d /\ (d > 1 => 10 ^ (d - 1) <= n)
            d10 == CHOOSE d \in 1 .. 10 : Counts(d)
<1>1. n \in Nat /\ n < 10 ^ 10
  <2>1. kUintValues \in Nat /\ kUintValues <= 10 ^ 10
    BY Widths, SMT
  <2>. QED
    BY <2>1, SMT
<1>2. \E d \in 1 .. 10 : Counts(d)
  <2>1. CASE n < 10 ^ 5
    <3>1. Counts(1) \/ Counts(2) \/ Counts(3) \/ Counts(4) \/ Counts(5)
      BY <1>1, <2>1, SMT
    <3>. QED
      BY <3>1
  <2>2. CASE ~(n < 10 ^ 5)
    <3>1. Counts(6) \/ Counts(7) \/ Counts(8) \/ Counts(9) \/ Counts(10)
      BY <1>1, <2>2, SMT
    <3>. QED
      BY <3>1
  <2>. QED
    BY <2>1, <2>2
<1>3. Decimal(n) = d10
  <2>1. digits10 + 1 = 10
    BY Widths
  <2>. QED
    BY <2>1, Zenon DEF Decimal
<1>4. d10 \in 1 .. 10 /\ Counts(d10)
  BY <1>2
<1>. HIDE DEF d10
<1>5. ASSUME NEW d \in 1 .. 10, Counts(d)
      PROVE  (d = 10 <=> n >= 10 ^ 9) /\ (n <= 99 => d <= 2)
  <2>1. CASE d = 1
    BY <1>1, <1>5, <2>1, SMT
  <2>2. CASE d = 2
    BY <1>1, <1>5, <2>2, SMT
  <2>3. CASE d = 3
    BY <1>1, <1>5, <2>3, SMT
  <2>4. CASE d = 4
    BY <1>1, <1>5, <2>4, SMT
  <2>5. CASE d = 5
    BY <1>1, <1>5, <2>5, SMT
  <2>6. CASE d = 6
    BY <1>1, <1>5, <2>6, SMT
  <2>7. CASE d = 7
    BY <1>1, <1>5, <2>7, SMT
  <2>8. CASE d = 8
    BY <1>1, <1>5, <2>8, SMT
  <2>9. CASE d = 9
    BY <1>1, <1>5, <2>9, SMT
  <2>10. CASE d = 10
    BY <1>1, <1>5, <2>10, SMT
  <2>. QED
    BY <2>1, <2>2, <2>3, <2>4, <2>5, <2>6, <2>7, <2>8, <2>9, <2>10
<1>. QED
  BY <1>3, <1>4, <1>5

\* Of every number a uint32_t can hold, what a handler prints fits its array,
\* except that S overruns its own for the CRCs of ten digits
\* (AnswerLines!LinesFit).
THEOREM OnlyTheCrcOverruns ==
  ASSUME kUintSize = 4
  PROVE  LineSpec => []LinesFit
<1>1. LineInit => LinesFit
  BY DEF LineInit, LinesFit
<1>2. ASSUME [LineNext]_lineVars, LinesFit
      PROVE  LinesFit'
  <2>1. /\ \A c \in Codes : Decimal(c) \in 1 .. 2
        /\ \A n \in Numbers : Decimal(n) \in 1 .. 10 /\ (Decimal(n) = 10 <=> n >= 10 ^ 9)
    <3>1. ASSUME NEW c \in Codes
          PROVE  Decimal(c) \in 1 .. 2
      <4>1. c \in 0 .. 99
        BY AnswerAssumption
      <4>2. c \in 0 .. kUintValues - 1 /\ c <= 99
        BY <4>1, Widths
      <4>. QED
        BY <4>2, DecimalDigits
    <3>. QED
      BY <3>1, DecimalDigits, AnswerAssumption
  <2>2. digits10 = 9 /\ kHexDigits = 8
    BY Widths
  <2>3. CASE SendResponseCode
    BY <2>1, <2>2, <2>3 DEF SendResponseCode, Line, LinesFit
  <2>4. CASE RaiseError
    BY <2>1, <2>2, <2>4 DEF RaiseError, Line, LinesFit
  <2>5. CASE ReadPartID
    BY <2>1, <2>2, <2>5 DEF ReadPartID, Line, LinesFit
  <2>6. CASE ReadBootCodeVersion
    BY <2>1, <2>2, <2>6 DEF ReadBootCodeVersion, Line, LinesFit
  <2>7. CASE ReadUID
    BY <2>1, <2>2, <2>7 DEF ReadUID, Line, LinesFit
  <2>8. CASE ReadCRC
    BY <2>1, <2>2, <2>8 DEF ReadCRC, Line, LinesFit
  <2>9. CASE ReadFlashSig
    BY <2>1, <2>2, <2>9 DEF ReadFlashSig, Line, LinesFit
  <2>10. CASE UNCHANGED lineVars
    BY <1>2, <2>10 DEF lineVars, LinesFit
  <2>. QED
    BY <1>2, <2>3, <2>4, <2>5, <2>6, <2>7, <2>8, <2>9, <2>10 DEF LineNext
<1>. QED
  BY <1>1, <1>2, PTL DEF LineSpec

-----------------------------------------------------------------------------
(* The checksum.  The bytes are added one by one, and that is the          *)
(* induction: a sequence of partial sums exists for the bytes added so     *)
(* far, and csum is the last of it, wrapped, whichever sequence one takes. *)

\* The partial sums of the first n bytes.
PartialSums(sum, n) ==
  sum = [i \in 0 .. n |-> IF i = 0 THEN 0 ELSE sum[i - 1] + frame[i]]

SumInv ==
  /\ frame \in Seq(FrameByte)
  /\ added \in 0 .. Len(frame)
  /\ csum \in 0 .. kSumValues - 1
  /\ \E sum : PartialSums(sum, added)
  /\ \A sum : PartialSums(sum, Len(frame)) =>
       sum[added] \in Nat /\ csum = sum[added] % kSumValues
  /\ result # -1 =>
       added = Len(frame) /\ result = (kSumValues - (csum % kSumValues)) % kSumValues

\* A sum that wraps at each step is the sum that wraps once.
LEMMA WrapOnce ==
  ASSUME NEW n \in Nat \ {0}, NEW a \in Nat, NEW b \in Nat
  PROVE  ((a % n) + b) % n = (a + b) % n
<1>1. PICK k \in Nat, r \in 0 .. n - 1 : a = k * n + r /\ a % n = r
  BY Division
<1>2. PICK j \in Nat, m \in 0 .. n - 1 : r + b = j * n + m /\ (r + b) % n = m
  <2>1. r + b \in Nat
    BY <1>1
  <2>. QED
    BY <2>1, Division
<1>3. a + b = (k + j) * n + m
  BY <1>1, <1>2
<1>4. ((k + j) * n + m) % n = m
  <2>1. k + j \in Nat
    OBVIOUS
  <2>. QED
    BY <2>1, Remainder
<1>. QED
  BY <1>1, <1>2, <1>3, <1>4

\* What is missing to the next multiple makes the sum one.
LEMMA Complement ==
  ASSUME NEW n \in Nat \ {0}, NEW a \in Nat
  PROVE  /\ (n - ((a % n) % n)) % n \in 0 .. n - 1
         /\ (a + ((n - ((a % n) % n)) % n)) % n = 0
<1>1. PICK k \in Nat, r \in 0 .. n - 1 : a = k * n + r /\ a % n = r
  BY Division
<1>2. r % n = r
  <2>1. (0 * n + r) % n = r
    BY Remainder
  <2>2. 0 * n + r = r
    OBVIOUS
  <2>. QED
    BY <2>1, <2>2
<1>3. ASSUME NEW j \in Nat
      PROVE  (j * n) % n = 0
  <2>1. (j * n + 0) % n = 0
    <3>1. 0 \in 0 .. n - 1
      OBVIOUS
    <3>. QED
      BY <3>1, Remainder
  <2>2. j * n + 0 = j * n
    <3>1. j * n \in Nat
      OBVIOUS
    <3>. QED
      BY <3>1
  <2>. QED
    BY <2>1, <2>2
<1>4. CASE r = 0
  <2>1. n - 0 = 1 * n /\ a = k * n /\ a + 0 = a
    BY <1>1, <1>4
  <2>2. (n - 0) % n = 0
    BY <1>3, <2>1
  <2>3. (a + 0) % n = 0
    BY <1>3, <2>1
  <2>. QED
    BY <1>1, <1>2, <1>4, <2>2, <2>3
<1>5. CASE r # 0
  <2>1. (n - r) % n = n - r
    <3>1. (0 * n + (n - r)) % n = n - r
      <4>1. n - r \in 0 .. n - 1
        BY <1>5
      <4>. QED
        BY <4>1, Remainder
    <3>2. 0 * n + (n - r) = n - r
      OBVIOUS
    <3>. QED
      BY <3>1, <3>2
  <2>2. a + (n - r) = (k + 1) * n /\ k + 1 \in Nat
    BY <1>1
  <2>3. (a + (n - r)) % n = 0
    BY <1>3, <2>2
  <2>4. n - r \in 0 .. n - 1
    BY <1>5
  <2>. QED
    BY <1>1, <1>2, <2>1, <2>3, <2>4
<1>. QED
  BY <1>4, <1>5

LEMMA ByteAdded ==
  ASSUME SumInv, AddByte
  PROVE  SumInv'
<1>1. /\ frame \in Seq(FrameByte) /\ frame' = frame /\ result' = result
      /\ added \in Nat /\ added + 1 \in 1 .. Len(frame) /\ added' = added + 1
      /\ csum' = (csum + frame[added + 1]) % kSumValues
      /\ kSumValues \in Nat \ {0} /\ csum \in Nat /\ result = -1
  BY ChecksumAssumption DEF SumInv, AddByte
<1>2. frame[added + 1] \in Nat
  <2>1. frame[added + 1] \in FrameByte
    BY <1>1
  <2>2. \A x \in FrameByte : x \in Nat
    BY ChecksumAssumption
  <2>. QED
    BY <2>1, <2>2
<1>3. csum' \in 0 .. kSumValues - 1
  BY <1>1, <1>2
<1>4. \E sum : PartialSums(sum, added + 1)
  <2>1. PICK sum : PartialSums(sum, added)
    BY DEF SumInv
  <2>. DEFINE longer ==
         [i \in 0 .. added + 1 |-> IF i = added + 1 THEN sum[added] + frame[i] ELSE sum[i]]
  <2>2. ASSUME NEW i \in 0 .. added + 1
        PROVE  longer[i] = IF i = 0 THEN 0 ELSE longer[i - 1] + frame[i]
    <3>1. CASE i = added + 1
      BY <1>1, <3>1
    <3>2. CASE i # added + 1
      <4>1. i \in 0 .. added /\ (i # 0 => i - 1 \in 0 .. added)
        BY <1>1, <3>2
      <4>2. sum[i] = IF i = 0 THEN 0 ELSE sum[i - 1] + frame[i]
        BY <2>1, <4>1 DEF PartialSums
      <4>. QED
        BY <1>1, <3>2, <4>1, <4>2
    <3>. QED
      BY <3>1, <3>2
  <2>3. longer = [i \in 0 .. added + 1 |-> IF i = 0 THEN 0 ELSE longer[i - 1] + frame[i]]
    BY <2>2
  <2>. QED
    BY <2>3 DEF PartialSums
<1>5. ASSUME NEW sum, PartialSums(sum, Len(frame))
      PROVE  sum[added + 1] \in Nat /\ csum' = sum[added + 1] % kSumValues
  <2>1. sum[added] \in Nat /\ csum = sum[added] % kSumValues
    BY <1>5 DEF SumInv
  <2>2. sum[added + 1] = sum[added] + frame[added + 1]
    BY <1>1, <1>5 DEF PartialSums
  <2>3. csum' = (sum[added] + frame[added + 1]) % kSumValues
    BY <1>1, <1>2, <2>1, WrapOnce
  <2>4. sum[added + 1] \in Nat
    BY <1>2, <2>1, <2>2
  <2>. QED
    BY <2>2, <2>3, <2>4
<1>. QED
  BY <1>1, <1>3, <1>4, <1>5 DEF SumInv, PartialSums

LEMMA SumInvariant == SumSpec => []SumInv
<1>1. SumInit => SumInv
  <2> SUFFICES ASSUME SumInit PROVE SumInv
    OBVIOUS
  <2>1. frame \in Seq(FrameByte) /\ added = 0 /\ csum = 0 /\ result = -1 /\ Len(frame) \in Nat
    BY ChecksumAssumption DEF SumInit
  <2>2. \E sum : PartialSums(sum, 0)
    <3>. DEFINE none == [i \in 0 .. 0 |-> 0]
    <3>1. none = [i \in 0 .. 0 |-> IF i = 0 THEN 0 ELSE none[i - 1] + frame[i]]
      OBVIOUS
    <3>. QED
      BY <3>1 DEF PartialSums
  <2>3. \A sum : PartialSums(sum, Len(frame)) => sum[0] = 0
    BY <2>1 DEF PartialSums
  <2>. QED
    BY <2>1, <2>2, <2>3, ChecksumAssumption DEF SumInv
<1>2. SumInv /\ [SumNext]_sumVars => SumInv'
  <2> SUFFICES ASSUME SumInv, [SumNext]_sumVars PROVE SumInv'
    OBVIOUS
  <2>1. CASE AddByte
    BY <2>1, ByteAdded
  <2>2. CASE Return
    BY <2>2 DEF SumInv, Return, PartialSums
  <2>3. CASE UNCHANGED sumVars
    BY <2>3 DEF SumInv, sumVars, PartialSums
  <2>. QED
    BY <2>1, <2>2, <2>3 DEF SumNext
<1>. QED
  BY <1>1, <1>2, PTL DEF SumSpec

\* The receiver's check succeeds for a frame of any length: the checksum is a
\* uint32_t, and with it the bytes add up to 0, however often the sum
\* wrapped around (Checksum!SumsToZero).
THEOREM ChecksumCancels == SumSpec => []SumsToZero
<1>1. SumInv => SumsToZero
  <2> SUFFICES ASSUME SumInv, result # -1
               PROVE  /\ result \in 0 .. kSumValues - 1
                      /\ (Total(frame) + result) % kSumValues = 0
    BY DEF SumsToZero
  <2>. DEFINE sum == CHOOSE t : PartialSums(t, Len(frame))
  <2>1. PartialSums(sum, Len(frame))
    <3>1. \E t : PartialSums(t, Len(frame))
      BY DEF SumInv
    <3>. QED
      BY <3>1
  <2>2. Total(frame) = sum[Len(frame)]
    BY DEF Total, PartialSums
  <2>3. /\ sum[Len(frame)] \in Nat /\ csum = sum[Len(frame)] % kSumValues
        /\ result = (kSumValues - (csum % kSumValues)) % kSumValues
    BY <2>1 DEF SumInv
  <2>. QED
    BY <2>2, <2>3, Complement, ChecksumAssumption
<1>. QED
  BY <1>1, SumInvariant, PTL

=============================================================================
