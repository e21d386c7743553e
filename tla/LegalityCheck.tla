--------------------------- MODULE LegalityCheck ---------------------------
(***************************************************************************)
(* The legality predicates of MemoryMap against what they are for: one     *)
(* request is asked, the code's predicates answer it, and the answer is    *)
(* compared with the set of bytes the request would touch.                 *)
(***************************************************************************)
EXTENDS MemoryMap

VARIABLES
  start,     \* first operand of the request, as atol returns it
  length,    \* second operand
  verdict    \* what the predicates say of it; NotAsked before

vars == <<start, length, verdict>>

NotAsked == [asked |-> FALSE, flash |-> FALSE, ram |-> FALSE]

TypeOK ==
  /\ start \in Uint
  /\ length \in Uint
  /\ verdict \in [asked : BOOLEAN, flash : BOOLEAN, ram : BOOLEAN]

Init ==
  /\ start \in Uint
  /\ length \in Uint
  /\ verdict = NotAsked

\* ReadMemory, ReadCRC and the copy and compare functions ask both questions.
Ask ==
  /\ ~verdict.asked
  /\ verdict' = [asked |-> TRUE,
                 flash |-> FlashAddressRangeLegal(start, length),
                 ram   |-> RamRangeLegal(start, length)]
  /\ UNCHANGED <<start, length>>

Next == Ask

Spec == Init /\ [][Next]_vars

-----------------------------------------------------------------------------

\* The bytes a request touches, each address computed as the loops compute it.
BytesOf(s, n) == {Wrap(s + i) : i \in 0 .. n - 1}
Touched == BytesOf(start, length)

\* A request for flash passes exactly when it is at most one sector long and
\* every byte it touches lies in the application image: no wrap-around and no
\* off-by-one at either end lets it reach the bootloader or leave the device.
FlashRangeExact ==
  verdict.asked /\ length > 0 =>
    (verdict.flash <=> length <= kSectorSize /\ Touched \subseteq ImageCells)

\* A request for RAM passes exactly when it is a whole number of words, at
\* most one sector long, and stays inside the window that GetRamPtr maps.
RamRangeExact ==
  verdict.asked /\ length > 0 =>
    (verdict.ram <=>
       /\ length <= kSectorSize
       /\ length % kWordSize = 0
       /\ Touched \subseteq RamCells)

\* ReadMemory asks "RAM?" before "flash?" and ReadCRC the other way round: no
\* request, an empty one included, gets yes to both, so the order is immaterial.
WindowsDisjoint == ~(verdict.flash /\ verdict.ram)

\* Bootloader.cpp:200 says of ErasePages "Same rules as prepare for write": the
\* pages of a legal sector would be legal, and only those.
PagesFollowSectors ==
  verdict.asked /\ start * kPageSize < kFlashEnd =>
    (FlashPageLegal(start) <=> FlashSectorLegal((start * kPageSize) \div kSectorSize))

=============================================================================
