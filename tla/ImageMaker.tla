----------------------------- MODULE ImageMaker -----------------------------
(***************************************************************************)
(* image_maker.py: what the host does with a compiled binary before an     *)
(* update.  It takes an application, or a dump of the whole flash, pads it *)
(* to the size of the image and puts a CRC in the last word of             *)
(* imageout.bin, which keeps its contents from one use to the next.        *)
(*                                                                         *)
(* The device's side of the bargain is ImageIsValid of Bootloader.cpp.     *)
(***************************************************************************)
EXTENDS Integers, SequencesExt

CONSTANTS
  Byte,
  Pad,               \* 0xde
  kCrcSize,          \* bytes in a word
  kApplicationSize,  \* bytes in an image
  kDeviceSize,       \* bytes in a dump of the flash
  MaxLength,         \* bound: bytes in a binary
  Crc(_)             \* zlib.crc32, and Crc::Get32BitResult, as a word

CrcWords == [1 .. kCrcSize -> Byte]

ASSUME ImageMakerAssumption ==
  /\ Pad \in Byte
  /\ kCrcSize \in Nat \ {0}
  /\ kApplicationSize \in Nat /\ kCrcSize < kApplicationSize
  /\ kDeviceSize \in Nat /\ kApplicationSize < kDeviceSize
  /\ MaxLength \in Nat
  /\ \A bytes \in [1 .. kApplicationSize -> Byte] : Crc(bytes) \in CrcWords

VARIABLES
  pc,        \* "read", "sum", "write", then "done" or "failed"
  data,      \* the binary
  image,     \* the bytes of the image, or one byte of it
  crc,
  imageout   \* contents of imageout.bin

makerVars == <<pc, data, image, crc, imageout>>

NoCrc == [i \in 1 .. kCrcSize |-> Pad]

Binaries == UNION { [1 .. n -> Byte] : n \in 0 .. MaxLength }

\* What data[n] is in Python: a number, and no sequence of bytes.
Number(b) == [number |-> b]

-----------------------------------------------------------------------------
(* The program, from one use to the next.                                  *)

Mutant_PaddedInFront ==
  /\ pc = "read"
  /\ IF Len(data) = kDeviceSize
     THEN image' = Number(data[kDeviceSize - kApplicationSize + 1]) /\ pc' = "sum"
     ELSE IF Len(data) <= kApplicationSize
     THEN image' = [i \in 1 .. kApplicationSize - Len(data) |-> Pad] \o data /\ pc' = "sum"
     ELSE pc' = "failed" /\ UNCHANGED image
  /\ UNCHANGED <<data, crc, imageout>>

TakeImage ==
  /\ pc = "read"
  /\ \/ /\ Len(data) = kDeviceSize
        /\ image' = Number(data[kDeviceSize - kApplicationSize + 1])
        /\ pc' = "sum"
     \/ /\ Len(data) <= kApplicationSize
        /\ image' = data \o [i \in 1 .. kApplicationSize - Len(data) |-> Pad]
        /\ pc' = "sum"
     \/ /\ Len(data) > kApplicationSize /\ Len(data) # kDeviceSize
        /\ pc' = "failed"
        /\ UNCHANGED image
  /\ UNCHANGED <<data, crc, imageout>>

IsBytes == DOMAIN image # {"number"}

\* zlib.crc32 raises a TypeError for a number.
Sum ==
  /\ pc = "sum"
  /\ IF IsBytes THEN crc' = Crc(image) /\ pc' = "write"
     ELSE pc' = "failed" /\ UNCHANGED crc
  /\ UNCHANGED <<data, image, imageout>>

Write ==
  /\ pc = "write"
  /\ imageout' = SubSeq(image, 1, Len(image) - kCrcSize) \o crc
  /\ pc' = "done"
  /\ UNCHANGED <<data, image, crc>>

Invoke ==
  /\ pc \in {"done", "failed"}
  /\ data' \in Binaries
  /\ pc' = "read"
  /\ image' = <<>> /\ crc' = NoCrc
  /\ UNCHANGED imageout

MakerInit ==
  /\ pc = "read"
  /\ data \in Binaries
  /\ image = <<>> /\ crc = NoCrc
  /\ imageout = <<>>

MakerNext == TakeImage \/ Sum \/ Write \/ Invoke

MakerSpec == MakerInit /\ [][MakerNext]_makerVars

-----------------------------------------------------------------------------
(* The device: ImageIsValid, once imageout has been programmed.            *)

Body == SubSeq(imageout, 1, kApplicationSize - kCrcSize)
LastWord == SubSeq(imageout, kApplicationSize - kCrcSize + 1, kApplicationSize)

\* image_signature is a word of the bootloader.  The assert wants it to be the
\* last word of flash, and the result compares it with the CRC of the rest.
ImageIsValid(image_signature) ==
  /\ image_signature = LastWord
  /\ image_signature = Crc(Body)

-----------------------------------------------------------------------------
(* Properties.                                                             *)

\* Every binary that fits becomes an image, whatever was made before: byte i of
\* the binary is byte i of the file, where the device starts it; the rest is
\* padding, up to the word of the CRC, and the file is as long as the image.
ImageMade ==
  /\ pc = "failed" => Len(data) > kApplicationSize
  /\ pc = "done" =>
       /\ Len(imageout) = kApplicationSize
       /\ \A k \in 1 .. kApplicationSize - kCrcSize :
            imageout[k] = IF k <= Len(data) THEN data[k] ELSE Pad

-----------------------------------------------------------------------------
(* What the code says elsewhere and the program does not do.               *)

\* Bootloader.cpp:100: the CRC that counts is that of the image without its
\* last word.  Some bootloader should accept what the maker made.
MadeImageIsValid ==
  pc = "done" => \E image_signature \in CrcWords : ImageIsValid(image_signature)

=============================================================================
