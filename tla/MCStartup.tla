----------------------------- MODULE MCStartup -----------------------------
(***************************************************************************)
(* Seven words of RAM: two sections with initial values, an empty one, a   *)
(* cleared section right behind them, and a word that is no variable.      *)
(***************************************************************************)
EXTENDS Startup

MCWords == 0 .. 6
MCRom == [a \in 0 .. 9 |-> 10 + a]
MCDataTable == <<[load |-> 4, exe |-> 0, len |-> 2], [load |-> 6, exe |-> 2, len |-> 0],
                 [load |-> 6, exe |-> 2, len |-> 1]>>
MCBssTable == <<[exe |-> 3, len |-> 1], [exe |-> 4, len |-> 2]>>

=============================================================================
