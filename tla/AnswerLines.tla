---------------------------- MODULE AnswerLines ----------------------------
(***************************************************************************)
(* The lines that carry numbers to the host (shell_commands.cpp): each     *)
(* handler prints with sprintf into an array it declares for the purpose,  *)
(* whose size is written in terms of digits10, the decimal digits every    *)
(* uint32_t can have.  The largest need one digit more.                    *)
(*                                                                         *)
(* IspCommands has the handlers; here is what they store, character by     *)
(* character counted, in which array.                                      *)
(***************************************************************************)
EXTENDS Integers, Sequences, FiniteSets

CONSTANTS
  kUintValues,   \* number of values of a uint32_t
  kUintSize,     \* sizeof(uint32_t)
  kHexDigits,    \* digits of a uint32_t in hexadecimal
  Codes,         \* inputs: response codes and the codes of RaiseError
  Numbers        \* inputs: other numbers

ASSUME AnswerAssumption ==
  /\ kUintValues \in Nat /\ 10 < kUintValues
  /\ kUintValues = 16 ^ kHexDigits
  /\ kHexDigits = 2 * kUintSize
  /\ Codes \subseteq 0 .. 99 /\ Codes # {}
  /\ Numbers \subseteq 0 .. kUintValues - 1 /\ Numbers # {}

VARIABLES
  printed,   \* the numbers of the last line, and the command that sent it
  stored,    \* characters sprintf stored for it, the terminator included
  room       \* size of the array

lineVars == <<printed, stored, room>>

\* std::numeric_limits of the C++ library: log10(2) is a little over 643 / 2136.
digits10 == (8 * kUintSize * 643) \div 2136

Decimal(n) == CHOOSE d \in 1 .. digits10 + 1 : n < 10 ^ d /\ (d > 1 => 10 ^ (d - 1) <= n)

\* One line: a text of so many characters, in an array of that size.
Line(op, numbers, text, size) ==
  /\ printed' = [op |-> op, numbers |-> numbers]
  /\ stored' = text + 1
  /\ room' = size

SendResponseCode == \E c \in Codes : Line("code", <<c>>, Decimal(c), digits10 + 1)

\* A comma first.
RaiseError == \E c \in Codes : Line("error", <<c>>, 1 + Decimal(c), digits10 + 1)

ReadPartID == \E n \in Numbers : Line("J", <<n>>, Decimal(n), digits10 + 3)

\* Two lines, major and minor, one after the other in the same array.
ReadBootCodeVersion == \E n \in Numbers : Line("K", <<n>>, Decimal(n), digits10 + 3)

\* "0x%08lx": the width is that of the largest number.
Mutant_UidTerminator == \E n \in Numbers : Line("N", <<n>>, 2 + kHexDigits, digits10 + 2)
ReadUID == \E n \in Numbers : Line("N", <<n>>, 2 + kHexDigits, digits10 + 3)

ReadCRC == \E n \in Numbers : Line("S", <<n>>, Decimal(n), digits10 + 1)

\* Four numbers and three ends of line, in an array sized by sizeof(signature).
ReadFlashSig ==
  \E s \in [1 .. 4 -> Numbers] :
    Line("Z", s, Decimal(s[1]) + Decimal(s[2]) + Decimal(s[3]) + Decimal(s[4]) + 3,
         digits10 * 4 * kUintSize + 3)

LineInit ==
  /\ printed = [op |-> "none", numbers |-> <<>>]
  /\ stored = 0
  /\ room = 0

LineNext ==
  \/ SendResponseCode \/ RaiseError
  \/ ReadPartID \/ ReadBootCodeVersion \/ ReadUID \/ ReadCRC \/ ReadFlashSig

LineSpec == LineInit /\ [][LineNext]_lineVars

-----------------------------------------------------------------------------
(* Properties.                                                             *)

\* Whatever the numbers, what a handler prints fits its array, terminator
\* included, with one exception: S, whose array is two characters shorter than
\* its neighbours', overruns it exactly for the CRCs with all their digits.
LinesFit ==
  stored <= room <=> ~(printed.op = "S" /\ printed.numbers[1] >= 10 ^ digits10)

=============================================================================
