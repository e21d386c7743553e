--------------------------- MODULE MCIspCommands ---------------------------
(***************************************************************************)
(* A small device: four sectors of two bytes, of which two belong to the   *)
(* bootloader, one-byte pages, a two-byte buffer and six-bit numbers.      *)
(***************************************************************************)
EXTENDS IspCommands

\* The addresses of both windows with a margin on each side, and the largest
\* number, whose sum with any length wraps.
MCNumbers == (0 .. 8) \cup (9 .. 12) \cup {63}

MCErased == [c \in FlashCells |-> IF c \in BootloaderCells THEN 0 ELSE 255]
MCProgrammed == [c \in FlashCells |-> IF c = kImageStart THEN 255 ELSE 0]
MCFactoryFlash == {MCErased, MCProgrammed}

\* MCProgrammed is a valid image and carries the signature, MCErased is not.
MCSignatureWord == [i \in 0 .. kWordSize - 1 |-> 0]
MCGoodImages == {[c \in ImageBody |-> IF c = kImageStart THEN 255 ELSE 0]}

=============================================================================
