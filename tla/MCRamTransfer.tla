--------------------------- MODULE MCRamTransfer ---------------------------
(***************************************************************************)
(* A two-byte window at addresses 10 and 11: a transfer of its last byte,  *)
(* one that fills it, an empty one, and one that runs over its end.        *)
(***************************************************************************)
EXTENDS RamTransfer

MCRequests == {<<11, 1>>, <<10, 2>>, <<11, 0>>, <<11, 2>>}

=============================================================================
