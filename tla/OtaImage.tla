------------------------------ MODULE OtaImage ------------------------------
(***************************************************************************)
(* The arithmetic of an OTA broadcast (ground_ota.c): how many START       *)
(* rounds are announced, how an image is cut into chunks, and how a        *)
(* message is cut into USB packets.  Divisions round down, as in C on      *)
(* unsigned operands; no operand here is negative.                         *)
(***************************************************************************)
EXTENDS Integers

CONSTANTS
  ImageSize,                    \* bytes of the image
  START_ANNOUNCE_DURATION_MS,   \* 10000 in the code
  PACKET_REPEAT_COUNT           \* 3 in the code

CF_USB_PACKET_SIZE         == 64
OTA_HEADER_SIZE            == 6
OTA_DATA_PAYLOAD_MAX       == 224
OTA_START_INFO_SIZE        == 8
FIRMWARE_IMAGE_SIZE_MAX    == 262112
START_ROUND_INTERVAL_MS    == 250
PACKET_REPEAT_INTERVAL_MS  == 3

(* readImage refuses an empty file and one above the limit. *)
ASSUME ImageAssumption ==
  /\ ImageSize \in Nat \ {0} /\ ImageSize <= FIRMWARE_IMAGE_SIZE_MAX
  /\ START_ANNOUNCE_DURATION_MS \in 1..10000
  /\ PACKET_REPEAT_COUNT \in 1..3

CeilDiv(n, d) == (n + d - 1) \div d

startRoundDurationMs ==
  (PACKET_REPEAT_COUNT - 1) * PACKET_REPEAT_INTERVAL_MS + START_ROUND_INTERVAL_MS

startRounds == CeilDiv(START_ANNOUNCE_DURATION_MS, startRoundDurationMs)
totalChunks == CeilDiv(ImageSize, OTA_DATA_PAYLOAD_MAX)

Offset(chunk) == chunk * OTA_DATA_PAYLOAD_MAX

chunkLength(chunk) ==
  LET remaining == ImageSize - Offset(chunk)
  IN IF remaining > OTA_DATA_PAYLOAD_MAX THEN OTA_DATA_PAYLOAD_MAX ELSE remaining

(* Bytes of a message on the wire, and the USB packets that carry it. *)
messageLength(kind, chunk) ==
  OTA_HEADER_SIZE + CASE kind = "START" -> OTA_START_INFO_SIZE
                      [] kind = "DATA"  -> chunkLength(chunk)
                      [] kind = "END"   -> 0

Packets(kind, chunk) == CeilDiv(messageLength(kind, chunk), CF_USB_PACKET_SIZE)
=============================================================================
