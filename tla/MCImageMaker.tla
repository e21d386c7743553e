---------------------------- MODULE MCImageMaker ----------------------------
(***************************************************************************)
(* Two byte values, words of two bytes, images of four, a flash of six.    *)
(***************************************************************************)
EXTENDS ImageMaker

\* A stand-in for the CRC: a word that depends on every byte and its place.
MCCrc(bytes) ==
  LET hash == FoldLeft(LAMBDA h, b : (3 * h + b + 1) % 4, 0, bytes)
  IN  <<hash % 2, hash \div 2>>

=============================================================================
