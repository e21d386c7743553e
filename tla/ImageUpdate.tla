---------------------------- MODULE ImageUpdate ----------------------------
(***************************************************************************)
(* A whole update of the application image: the command loop of            *)
(* IspCommands, driven by the host the commands are made for.  The host is *)
(* not in the repository.  It sends, sector by sector, the commands that   *)
(* the answers of the code ask for - W and the data, P and E, P and C -    *)
(* and CV at the end, reads every answer, and starts over when one is bad. *)
(*                                                                         *)
(* At most MaxFaults times something goes wrong: the ROM refuses a call,   *)
(* the data of a W is lost and the wait times out (which the device calls  *)
(* OK), or the power goes - which the host only notices when it waits for  *)
(* an answer.                                                              *)
(***************************************************************************)
EXTENDS IspCommands

CONSTANTS
  Image,        \* the new image, with its last word, by address
  MaxFaults

ImageSectors == kImageSectorStart .. kSectorCount - 1

\* What a copy may find in buffer_: a sector's worth of the new image, of this
\* or of another sector, or what a reset leaves there.
SectorImage(s) == [i \in BufferIndex |-> Image[s * kSectorSize + i]]
Pieces == {SectorImage(s) : s \in ImageSectors} \cup {[i \in BufferIndex |-> ZeroByte]}

\* The host's numbers are numbers the shell can read.
ASSUME UpdateAssumption ==
  /\ Image \in [ImageCells -> Byte]
  /\ MaxFaults \in Nat
  /\ ImageSectors \cup {s * kSectorSize : s \in ImageSectors}
       \cup {kIspRamStart, kSectorSize} \subseteq Numbers

\* The CRC tells the image from every other patchwork of pieces.
ASSUME CrcAssumption ==
  \A body \in GoodImages :
    (\A s \in ImageSectors : \E piece \in Pieces : \A i \in BufferIndex :
       s * kSectorSize + i \in ImageBody => body[s * kSectorSize + i] = piece[i])
    => \A c \in ImageBody : body[c] = Image[c]

VARIABLES
  step,      \* the command the host is about to send, or waits for
  sector,    \* the sector it writes
  faults     \* faults so far

host == <<step, sector>>
updateVars == <<vars, host, faults>>

UpdateInit ==
  /\ Init
  /\ step = "W" /\ sector = kImageSectorStart
  /\ faults = 0

Fault == faults < MaxFaults /\ faults' = faults + 1
NoFault == UNCHANGED faults

-----------------------------------------------------------------------------
(* The host's commands, each with the operands for its sector.             *)

FlashAddress == sector * kSectorSize

Request ==
  /\ Dispatched
  /\ \/ step = "W" /\ WriteRequest(kIspRamStart, kSectorSize)
     \/ step \in {"P", "P2"} /\ SectorRequest("P", sector, sector)
     \/ step = "E" /\ SectorRequest("E", sector, sector)
     \/ step = "C" /\ RangeRequest("C", FlashAddress, kIspRamStart, kSectorSize)
     \/ step = "CV" /\ ImageIsValid
  /\ UNCHANGED host /\ NoFault

SendData == FinishTransfer /\ UNCHANGED host /\ NoFault

StartOver == step' = "W" /\ sector' = kImageSectorStart

Following == {<<"W", "data">>, <<"data", "P">>, <<"P", "E">>, <<"E", "P2">>,
              <<"P2", "C">>}

Advance ==
  \/ /\ \E pair \in Following : step = pair[1] /\ step' = pair[2]
     /\ UNCHANGED sector
  \/ step = "C" /\ sector < kSectorCount - 1 /\ step' = "W" /\ sector' = sector + 1
  \/ step = "C" /\ sector = kSectorCount - 1 /\ step' = "CV" /\ UNCHANGED sector
  \/ step = "CV" /\ step' = "done" /\ UNCHANGED sector

ReadAnswer ==
  /\ Return
  /\ IF reply \in {<<CMD_SUCCESS>>, <<OkLine>>} THEN Advance ELSE StartOver
  /\ NoFault

-----------------------------------------------------------------------------
(* The device.                                                             *)

\* Can the ROM do what it is asked to?  It refuses an unprepared sector.
Servable ==
  /\ InIap("E") => EraseAccepted(call.a, call.b)
  /\ InIap("C") => CopyAccepted(call.a, call.n)
Rom == RomPrepare \/ RomErase \/ RomCopy

DeviceWorks ==
  /\ Rom
  /\ Servable => status' = kStatus_Success
  /\ UNCHANGED host /\ NoFault
DeviceAnswers == Leave /\ UNCHANGED host /\ NoFault

\* What the host sent for its sector.
DeviceStores ==
  /\ StoreTransfer
  /\ \A i \in BufferIndex : ram'[i] = Image[FlashAddress + i]
  /\ UNCHANGED host /\ NoFault

RomFails ==
  /\ Rom
  /\ Servable /\ status' # kStatus_Success
  /\ UNCHANGED host /\ Fault

DataLost == AbandonTransfer /\ UNCHANGED host /\ Fault

\* A host that waits for an answer, or for "OK", does not get it.  (One that had
\* "OK" before the data was stored goes on, as if the power had gone after it.)
PowerLost ==
  /\ PowerCycle
  /\ IF Dispatched THEN UNCHANGED host ELSE StartOver
  /\ Fault

Updated == step = "done" /\ Dispatched /\ UNCHANGED updateVars

GoesWell ==
  Request \/ SendData \/ ReadAnswer \/ DeviceWorks \/ DeviceAnswers \/ DeviceStores

UpdateNext == GoesWell \/ RomFails \/ DataLost \/ PowerLost \/ Updated

\* The host goes on, and so does the device.
UpdateSpec ==
  UpdateInit /\ [][UpdateNext]_updateVars /\ WF_updateVars(GoesWell)

-----------------------------------------------------------------------------
(* Properties.                                                             *)

\* A host that was told that all is well has its image in the device, although
\* "OK" after a W may be a lie and a reset may have cleared RAM unnoticed: the
\* stale sector that C then writes, with success, is caught by the CRC of CV.
DoneMeansWritten ==
  step = "done" => \A c \in ImageBody : flash[c] = Image[c]

\* No byte is programmed on top of another value: each failure of the ROM on
\* the way to C reaches the host.
ProgrammedOnce ==
  InIap("C") /\ CopyAccepted(call.a, call.n) =>
    \A c \in call.a .. call.a + call.n - 1 : flash[c] = ErasedByte

\* Whatever a bounded number of faults leaves behind - torn sectors, prepared
\* sectors, stale RAM, an open transfer - the update can be repeated until it
\* succeeds: every sector of the image, the last one included, is accepted.
UpdateCompletes == <>(step = "done")

-----------------------------------------------------------------------------
(* A condition on the constants.                                           *)

\* What the layout and the image have to be like: whole words, whole pages, a
\* byte count the ROM copies, and an image that CV accepts.
Compatible ==
  /\ kSectorSize % kWordSize = 0
  /\ kSectorSize % kPageSize = 0
  /\ kSectorSize \in IapCopySizes
  /\ [c \in ImageBody |-> Image[c]] \in GoodImages
  /\ Asserts => SignatureWord = [i \in 0 .. kWordSize - 1 |-> Image[kFlashEnd - kWordSize + i]]

=============================================================================
