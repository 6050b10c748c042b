------------------------------ MODULE OtaTools ------------------------------
(***************************************************************************)
(* The two programs that send out an image, one at a time: ground_ota.c,   *)
(* over the relay, and ota_flasher.c, which prints.                        *)
(***************************************************************************)
EXTENDS GroundOta, OtaFlasher, SequencesExt

VARIABLE program

otaVars == <<program, vars, flasherVars>>

OtaInit ==
  /\ program \in {"ground_ota", "ota_flasher"}
  /\ Init
  /\ FlasherInit
  /\ program = "ground_ota" => file_size = ImageSize

OtaNext ==
  /\ \/ program = "ground_ota" /\ Next /\ UNCHANGED flasherVars
     \/ program = "ota_flasher" /\ FlasherStep /\ UNCHANGED vars
  /\ UNCHANGED program

(* The programs run on; the relay may stop answering, or sniff for ever,   *)
(* and nobody need ever answer a prompt (no fairness for Operator).        *)
OtaSpec ==
  /\ OtaInit
  /\ [][OtaNext]_otaVars
  /\ WF_otaVars(program = "ground_ota" /\ Host /\ UNCHANGED <<program, flasherVars>>)
  /\ WF_otaVars(program = "ota_flasher" /\ FlasherStep /\ UNCHANGED <<program, vars>>)

(* The schedule without repetitions *)
Once(i)  == LET m == Plan!Message(i)
            IN [kind |-> m.kind, index |-> m.index,
                length |-> messageLength(m.kind, m.index) - OTA_HEADER_SIZE]
Firsts   == {i \in 1..Plan!Total : i = 1 \/ Once(i) # Once(i - 1)}
Schedule ==
  LET unrepeated[i \in 0..Plan!Total] ==
        IF i = 0 THEN <<>>
        ELSE IF i \in Firsts THEN Append(unrepeated[i - 1], Once(i))
        ELSE unrepeated[i - 1]
  IN unrepeated[Plan!Total]

(* Both programs cut an image alike: what the one prints is, without the   *)
(* repetitions, what the other schedules, message for message, and all of  *)
(* it when it reports success; unless the image has another size when it   *)
(* is opened again, or a read fails (main of ota_flasher.c, broadcastImage *)
(* and sendRepeated of ground_ota.c).                                      *)
FlasherAgrees ==
  LET same == image_size = ImageSize /\ file_size = ImageSize /\ ~ferror
  IN same => /\ IsPrefix(printed, Schedule)
             /\ exit_status = 0 => printed = Schedule

(* Either program ends, even if the relay stops answering and the sniffed  *)
(* frames never stop: the wait for an ACK is bounded.  The broadcaster may *)
(* stand at a prompt for ever, but from anywhere else it comes to its end  *)
(* or to the confirmation prompt (waitForLocalTxAck, broadcastImage).      *)
BroadcastEnds ==
  /\ program = "ground_ota" /\ phase \notin {"path", "confirm"} ~> phase \in {"confirm", "exit"}
  /\ program = "ota_flasher" ~> flasher_at = "exit"
=============================================================================
