----------------------------- MODULE OtaFlasher -----------------------------
(***************************************************************************)
(* The program that only prints the messages of an OTA broadcast           *)
(* (ota_flasher.c).  It opens the image twice, for the size and CRC that   *)
(* START announces and then for the chunks, and reads chunk by chunk, so   *)
(* that the image may change or a read may fail on the way.                *)
(***************************************************************************)
EXTENDS OtaImage, Sequences

CONSTANT ImageSizes   \* sizes that an image may have when it is opened

ASSUME FlasherAssumption == ImageSizes \subseteq Nat

VARIABLES
  flasher_at,   \* "size", "reopen", "data", "exit"
  exit_status,
  image_size,   \* what START announces
  file_size,    \* what the file holds, and what of it was read
  position,
  chunk_index,
  ferror,       \* a read has failed
  printed       \* messages: kind, chunk index and payload length

flasherVars == <<flasher_at, exit_status, image_size, file_size,
                 position, chunk_index, ferror, printed>>

FlasherInit ==
  /\ flasher_at = "size"
  /\ exit_status = 1
  /\ image_size = 0
  /\ file_size \in ImageSizes
  /\ position = 0
  /\ chunk_index = 0
  /\ ferror = FALSE
  /\ printed = <<>>

(* In the header the index has 16 bits. *)
printMessage(kind, index, length) ==
  printed' = Append(printed, [kind |-> kind, index |-> index % 65536, length |-> length])

FlasherFails ==
  /\ flasher_at \in {"size", "reopen"}
  /\ flasher_at' = "exit"
  /\ UNCHANGED <<exit_status, image_size, file_size, position, chunk_index, ferror, printed>>

PrintStart ==
  /\ flasher_at = "size"
  /\ image_size' = file_size
  /\ printMessage("START", 0, OTA_START_INFO_SIZE)
  /\ flasher_at' = "reopen"
  /\ UNCHANGED <<exit_status, file_size, position, chunk_index, ferror>>

Reopen ==
  /\ flasher_at = "reopen"
  /\ file_size' \in ImageSizes
  /\ flasher_at' = "data"
  /\ UNCHANGED <<exit_status, image_size, position, chunk_index, ferror, printed>>

(* fread of a chunk; one that fails may have read some of it.  At most one *)
(* read that gets anything fails.                                          *)
bytesLeft == IF file_size - position > OTA_DATA_PAYLOAD_MAX THEN OTA_DATA_PAYLOAD_MAX
                                                             ELSE file_size - position

(* Mutant of PrintData: the index in the header counts from 1. *)
PrintNext ==
  /\ flasher_at = "data" /\ bytesLeft > 0
  /\ printMessage("DATA", chunk_index + 1, bytesLeft)
  /\ position' = position + bytesLeft
  /\ chunk_index' = chunk_index + 1
  /\ UNCHANGED <<flasher_at, exit_status, image_size, file_size, ferror>>

PrintData ==
  /\ flasher_at = "data"
  /\ \E bytes_read \in {1, bytesLeft} \cap 1..bytesLeft :
       /\ bytes_read < bytesLeft => ~ferror
       /\ printMessage("DATA", chunk_index, bytes_read)
       /\ position' = position + bytes_read
       /\ ferror' = (ferror \/ bytes_read < bytesLeft)
  /\ chunk_index' = chunk_index + 1
  /\ UNCHANGED <<flasher_at, exit_status, image_size, file_size>>

(* fread gives nothing: at the end of the file, or because it has failed *)
PrintEnd ==
  /\ flasher_at = "data"
  /\ \E failed \in BOOLEAN :
       /\ failed \/ bytesLeft = 0
       /\ ferror' = (ferror \/ failed)
  /\ IF ferror' THEN UNCHANGED <<exit_status, printed>>
                ELSE printMessage("END", 0, 0) /\ exit_status' = 0
  /\ flasher_at' = "exit"
  /\ UNCHANGED <<image_size, file_size, position, chunk_index>>

FlasherStep == FlasherFails \/ PrintStart \/ Reopen \/ PrintData \/ PrintEnd
=============================================================================
