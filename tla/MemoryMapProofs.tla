-------------------------- MODULE MemoryMapProofs --------------------------
(***************************************************************************)
(* Facts about the legality predicates for every layout that satisfies     *)
(* LayoutAssumption.  The command and transfer proofs cite them.           *)
(***************************************************************************)
EXTENDS MemoryMap, TLAPS

\* Unsigned wrap-around of a sum that leaves the range by less than one modulus.
LEMMA WrapCases ==
  ASSUME NEW x \in Int, -kModulus <= x, x < 2 * kModulus, kModulus > 0
  PROVE  Wrap(x) = IF x < 0 THEN x + kModulus
                   ELSE IF x < kModulus THEN x ELSE x - kModulus
  BY LayoutAssumption DEF Wrap

LEMMA LayoutFacts ==
  /\ kImageStart \in Nat /\ kFlashEnd \in Nat
  /\ kIspRamStart \in Nat /\ kIspRamEnd \in Nat
  /\ kSectorSize <= kImageStart
  /\ kImageStart + kSectorSize <= kFlashEnd
  /\ kFlashEnd <= kIspRamStart
  /\ kFlashEnd <= kModulus
  /\ kSectorSize <= kIspRamStart
  /\ kIspRamEnd = kIspRamStart + kSectorSize
  /\ kIspRamEnd <= kModulus
  BY LayoutAssumption DEF kImageStart, kFlashEnd, kIspRamStart, kIspRamEnd

\* A legal flash range neither wraps nor leaves the image: its last byte is
\* computed exactly, so the whole range lies between the two image bounds.
LEMMA FlashRangeBounds ==
  ASSUME NEW start \in Uint, NEW length \in Uint, length > 0,
         FlashAddressRangeLegal(start, length)
  PROVE  /\ kImageStart <= start
         /\ start + length <= kFlashEnd
         /\ length <= kSectorSize
<1>1. Wrap(start + length - 1) = IF start + length - 1 < kModulus
                                 THEN start + length - 1
                                 ELSE start + length - 1 - kModulus
  BY WrapCases, LayoutFacts, LayoutAssumption DEF Uint
<1>. QED
  BY <1>1, LayoutFacts, LayoutAssumption
  DEF Uint, FlashAddressRangeLegal, FlashAddressLegal, kImageStart, kFlashEnd

\* The same for RAM: a legal range lies inside the window of buffer_.
LEMMA RamRangeBounds ==
  ASSUME NEW start \in Uint, NEW length \in Uint, length > 0,
         RamRangeLegal(start, length)
  PROVE  /\ kIspRamStart <= start
         /\ start + length <= kIspRamEnd
         /\ length <= kSectorSize
<1>1. Wrap(start + length - 1) = IF start + length - 1 < kModulus
                                 THEN start + length - 1
                                 ELSE start + length - 1 - kModulus
  BY WrapCases, LayoutFacts, LayoutAssumption DEF Uint
<1>. QED
  BY <1>1, LayoutFacts, LayoutAssumption
  DEF Uint, RamRangeLegal, RamAddressLegal

\* Every byte of a legal RAM range has an index inside buffer_, so the
\* assertion in GetRamPtr cannot fire on one.
LEMMA RamPointerInBuffer ==
  ASSUME NEW address \in Uint, RamAddressLegal(address)
  PROVE  GetRamPtr(address) \in BufferIndex
  BY LayoutFacts, LayoutAssumption
  DEF Uint, RamAddressLegal, GetRamPtr, BufferIndex, kIspRamStart

\* The two windows have no address in common.
LEMMA LegalWindowsDisjoint ==
  ASSUME NEW address \in Uint
  PROVE  ~(FlashAddressLegal(address) /\ RamAddressLegal(address))
  BY LayoutFacts, LayoutAssumption
  DEF Uint, FlashAddressLegal, RamAddressLegal, kFlashEnd

\* FlashPageLegal bounds the page from above by the pages of one sector and
\* from below by the pages of the bootloader's sectors: it accepts nothing.
LEMMA NoPageIsLegal ==
  ASSUME NEW page \in Nat
  PROVE  ~FlashPageLegal(page)
<1>. DEFINE first == kImageSectorStart * kSectorSize
<1>1. kSectorSize <= first /\ first \in Nat
  BY LayoutAssumption
<1>2. first \div kPageSize >= kSectorSize \div kPageSize
  <2>. HIDE DEF first
  <2>. QED
    BY <1>1, LayoutAssumption, SMTT(30)
<1>3. first \div kPageSize \in Int /\ kSectorSize \div kPageSize \in Int
  BY <1>1, LayoutAssumption
<1>. QED
  BY <1>2, <1>3 DEF FlashPageLegal

-----------------------------------------------------------------------------
(* Division, where a divisor is a constant of the model: the provers only  *)
(* know it for a number.                                                   *)

LEMMA Division ==
  ASSUME NEW n \in Nat \ {0}, NEW a \in Nat
  PROVE  \E k \in Nat, r \in 0 .. n - 1 : a = k * n + r /\ a % n = r
<1>. DEFINE q == a \div n
            m == a % n
<1>1. q \in Nat /\ m \in 0 .. n - 1 /\ a = q * n + m
  OBVIOUS
<1>. HIDE DEF q
<1>. QED
  BY <1>1

\* There is one remainder.
LEMMA Remainder ==
  ASSUME NEW n \in Nat \ {0}, NEW k \in Nat, NEW r \in 0 .. n - 1
  PROVE  (k * n + r) % n = r
<1>. DEFINE x == k * n + r
            q == x \div n
            m == x % n
<1>1. k * n \in Nat /\ x \in Nat
  OBVIOUS
<1>. HIDE DEF x
<1>2. q \in Nat /\ m \in 0 .. n - 1 /\ x = q * n + m
  BY <1>1
<1>. HIDE DEF q, m
<1>3. k * n + r = q * n + m
  BY <1>2 DEF x
<1>4. ~(k < q)
  <2>1. ASSUME k < q
        PROVE  FALSE
    <3>1. PICK d \in Nat : q = k + 1 + d
      <4>1. q - k - 1 \in Nat /\ q = k + 1 + (q - k - 1)
        BY <1>2, <2>1
      <4>. QED
        BY <4>1
    <3>2. q * n = k * n + n + d * n /\ d * n \in Nat
      BY <1>2, <3>1
    <3>. QED
      BY <1>1, <1>2, <1>3, <3>2
  <2>. QED
    BY <2>1
<1>5. ~(q < k)
  <2>1. ASSUME q < k
        PROVE  FALSE
    <3>1. PICK d \in Nat : k = q + 1 + d
      <4>1. k - q - 1 \in Nat /\ k = q + 1 + (k - q - 1)
        BY <1>2, <2>1
      <4>. QED
        BY <4>1
    <3>2. k * n = q * n + n + d * n /\ d * n \in Nat /\ q * n \in Nat
      BY <1>2, <3>1
    <3>. QED
      BY <1>1, <1>2, <1>3, <3>2
  <2>. QED
    BY <2>1
<1>6. k = q
  BY <1>2, <1>4, <1>5
<1>. QED
  BY <1>1, <1>2, <1>3, <1>6 DEF x, m

=============================================================================
