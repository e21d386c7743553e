--------------------------- MODULE MCCalculations ---------------------------
(***************************************************************************)
(* The parts of the program that only calculate: the legality predicates,  *)
(* the core clock, the image maker, the answer lines and the checksum.     *)
(* They have nothing to do with each other: a behaviour is about one of    *)
(* them, the topic, and the others rest.                                   *)
(***************************************************************************)
EXTENDS LegalityCheck, SystemClock, MCImageMaker, AnswerLines, Checksum

VARIABLE topic

LegalityRests == start = 0 /\ length = 0 /\ verdict = NotAsked
ClockRests == ClockInit /\ reg = CHOOSE r \in ResetRegisters : TRUE
MakerRests == MakerInit /\ data = <<>>
SumRests == SumInit /\ frame = <<>>

CalcInit ==
  \/ topic = "legality" /\ Init /\ ClockRests /\ MakerRests /\ LineInit /\ SumRests
  \/ topic = "clock" /\ LegalityRests /\ ClockInit /\ MakerRests /\ LineInit /\ SumRests
  \/ topic = "image" /\ LegalityRests /\ ClockRests /\ MakerInit /\ LineInit /\ SumRests
  \/ topic = "answer" /\ LegalityRests /\ ClockRests /\ MakerRests /\ LineInit /\ SumRests
  \/ topic = "sum" /\ LegalityRests /\ ClockRests /\ MakerRests /\ LineInit /\ SumInit

CalcNext ==
  /\ \/ topic = "legality" /\ Next /\ UNCHANGED <<clockVars, makerVars, lineVars, sumVars>>
     \/ topic = "clock" /\ ClockNext /\ UNCHANGED <<vars, makerVars, lineVars, sumVars>>
     \/ topic = "image" /\ MakerNext /\ UNCHANGED <<vars, clockVars, lineVars, sumVars>>
     \/ topic = "answer" /\ LineNext /\ UNCHANGED <<vars, clockVars, makerVars, sumVars>>
     \/ topic = "sum" /\ SumNext /\ UNCHANGED <<vars, clockVars, makerVars, lineVars>>
  /\ UNCHANGED topic

CalcSpec == CalcInit /\ [][CalcNext]_<<vars, clockVars, makerVars, lineVars, sumVars, topic>>

=============================================================================
