------------------------------ MODULE Checksum ------------------------------
(***************************************************************************)
(* CalculateCheckSum (tools.h): the two's complement of the sum of the     *)
(* bytes of a frame, as a uint32_t.  A receiver that adds the checksum to  *)
(* its own sum of the bytes, in 32 bits, is to get 0.                      *)
(*                                                                         *)
(* Nothing in the repository calls it yet.                                 *)
(***************************************************************************)
EXTENDS Integers, Sequences

CONSTANTS
  FrameByte,    \* values of a byte
  kSumValues,   \* number of values of a uint32_t
  MaxFrame      \* bound: bytes in a frame

ASSUME ChecksumAssumption ==
  /\ kSumValues \in Nat \ {0}
  /\ FrameByte \subseteq 0 .. kSumValues - 1
  /\ MaxFrame \in Nat

VARIABLES
  frame,
  added,    \* bytes added so far
  csum,     \* a uint64_t
  result    \* what was returned, or -1

sumVars == <<frame, added, csum, result>>

AddByte ==
  /\ added < Len(frame)
  /\ csum' = (csum + frame[added + 1]) % kSumValues
  /\ added' = added + 1
  /\ UNCHANGED <<frame, result>>

\* The difference may be 2 ^ 32, which the return type makes 0.
Mutant_NotTruncated ==
  /\ added = Len(frame) /\ result = -1
  /\ result' = kSumValues - (csum % kSumValues)
  /\ UNCHANGED <<frame, added, csum>>

Return ==
  /\ added = Len(frame) /\ result = -1
  /\ result' = (kSumValues - (csum % kSumValues)) % kSumValues
  /\ UNCHANGED <<frame, added, csum>>

SumInit ==
  /\ frame \in UNION { [1 .. n -> FrameByte] : n \in 0 .. MaxFrame }
  /\ added = 0
  /\ csum = 0
  /\ result = -1

SumNext == AddByte \/ Return

SumSpec == SumInit /\ [][SumNext]_sumVars

-----------------------------------------------------------------------------
(* Properties.                                                             *)

\* What the receiver's own sum of the bytes comes to, before it wraps.
Total(bytes) ==
  LET sum[i \in 0 .. Len(bytes)] == IF i = 0 THEN 0 ELSE sum[i - 1] + bytes[i]
  IN sum[Len(bytes)]

\* The receiver's check: what is returned is a uint32_t, and the bytes and the
\* checksum add up to 0, however often the sum wrapped around on the way.
SumsToZero ==
  result # -1 =>
    /\ result \in 0 .. kSumValues - 1
    /\ (Total(frame) + result) % kSumValues = 0

=============================================================================
