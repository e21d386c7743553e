------------------------------ MODULE RamWrite ------------------------------
(***************************************************************************)
(* What a W command promises, whatever happens on the serial line: a legal *)
(* range is accepted, and later either every byte of it is stored at once  *)
(* or the request is dropped, or replaced by another, and RAM keeps its    *)
(* contents.                                                               *)
(***************************************************************************)
EXTENDS MemoryMap

CONSTANTS Byte, ZeroByte

VARIABLES
  ram,       \* FlashController::buffer_
  pending    \* the accepted request, or Nothing

Nothing == [start |-> 0, length |-> 0, open |-> FALSE]
Cleared == [k \in BufferIndex |-> ZeroByte]

Init == ram = Cleared /\ pending = Nothing

\* A request whose data has not come yet is replaced by the next one.
Accept ==
  /\ pending' \in [start : Uint, length : Uint, open : {TRUE}]
  /\ RamRangeLegal(pending'.start, pending'.length)
  /\ UNCHANGED ram

\* The cells of buffer_ that a request covers.
Covers(request, k) == k - GetRamPtr(request.start) \in 0 .. request.length - 1

Store ==
  /\ pending.open
  /\ ram' \in [BufferIndex -> Byte]
  /\ \A k \in BufferIndex : ~Covers(pending, k) => ram'[k] = ram[k]
  /\ pending' = Nothing

Drop ==
  /\ pending.open
  /\ pending' = Nothing
  /\ UNCHANGED ram

Restart == ram' = Cleared /\ pending' = Nothing

Next == Accept \/ Store \/ Drop \/ Restart

Spec == Init /\ [][Next]_<<ram, pending>>

=============================================================================
