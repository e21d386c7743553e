----------------------------- MODULE ShellLoop -----------------------------
(***************************************************************************)
(* What the receive interrupt and the host can rely on about the command   *)
(* loop, whatever the command: an abstract specification.  IspCommands     *)
(* implements it; UartLine puts the serial line beside it.                 *)
(*                                                                         *)
(* phase is idle (the loop waits for input), busy (a handler works),       *)
(* answered (the answer is out, the handler has not returned) or stopped   *)
(* (an assert, or the boot ROM's own loader, has taken over).              *)
(***************************************************************************)
VARIABLES phase, masked

loopVars == <<phase, masked>>

\* A request is taken up, answered on the spot, or ends the program.
Accept ==
  /\ phase = "idle"
  /\ \/ phase' \in {"busy", "stopped"} /\ masked' \in BOOLEAN
     \/ phase' = "answered" /\ UNCHANGED masked

\* A handler masks and unmasks as it needs.
Work == phase = "busy" /\ phase' = "busy" /\ masked' \in BOOLEAN

Mutant_AnswersMasked == phase = "busy" /\ phase' = "answered" /\ UNCHANGED masked

\* The answer leaves after the last masked section has been closed.
Finish == phase = "busy" /\ phase' = "answered" /\ masked' = FALSE

Return == phase = "answered" /\ phase' = "idle" /\ UNCHANGED masked

Reset == phase' = "idle" /\ masked' = FALSE

Init == phase = "idle" /\ masked = FALSE
Next == Accept \/ Work \/ Finish \/ Return \/ Reset
Spec == Init /\ [][Next]_loopVars

=============================================================================
