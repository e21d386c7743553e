--------------------------- MODULE MCImageUpdate ---------------------------
(***************************************************************************)
(* The device of MCIspCommands with three byte values.  The old image is   *)
(* made of a value that a stale RAM never holds, so that the only way to   *)
(* it is not to write.                                                     *)
(***************************************************************************)
EXTENDS ImageUpdate, TLC

\* The numbers of the host's commands: sectors, their addresses, the window.
MCNumbers == {2, 3, 4, 6, 10}

\* Sectors 2 and 3; the last byte is the last word.
MCImage == (4 :> 0) @@ (5 :> 1) @@ (6 :> 1) @@ (7 :> 0)
MCOldImage == [c \in ImageCells |-> 255]
MCFactoryFlash ==
  {[c \in FlashCells |-> IF c \in BootloaderCells THEN 0 ELSE MCOldImage[c]]}

MCSignatureWord == [i \in 0 .. kWordSize - 1 |-> MCImage[kFlashEnd - 1]]
MCGoodImages == {[c \in ImageBody |-> MCImage[c]], [c \in ImageBody |-> MCOldImage[c]]}

\* These are constants for which an update can go well.
ASSUME MCCompatible == Compatible

=============================================================================
