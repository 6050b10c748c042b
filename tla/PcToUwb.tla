------------------------------- MODULE PcToUwb ------------------------------
(***************************************************************************)
(* One message from the command line (pc_to_uwb.c): open the device, send  *)
(* metadata and no, one or several payload packets, read up to twenty      *)
(* packets for an ACK, close.  Any read that fails, also with a timeout,   *)
(* ends the wait at once.                                                  *)
(***************************************************************************)
EXTENDS Downlink

CONSTANTS
  maxAttempts,     \* 20 in the code
  PayloadPackets   \* how many packets a payload may have

ASSUME PcAssumption == maxAttempts \in Nat \ {0} /\ PayloadPackets \subseteq Nat

VARIABLES
  pc_at,      \* "exit", "open", "meta", "payload", "ack"
  packets,    \* payload packets of the message
  written,    \* and how many of them were sent
  attempt

pc == <<pc_at, packets, written, attempt>>

PcInit ==
  /\ pc_at = "exit"
  /\ packets = 0
  /\ written = 0
  /\ attempt = 0

PcStart ==
  /\ pc_at' = "open"
  /\ packets' \in PayloadPackets
  /\ UNCHANGED <<written, attempt>>

PcGone ==
  /\ pc_at' = "exit"
  /\ packets' = 0
  /\ written' = 0
  /\ attempt' = 0

(* seqNumber is 0 unless the operator gives another. *)
PcMessage == Command(0, "PC")

PcReturn(sent) ==
  /\ Report(sent, "ack")
  /\ PcGone

PcOpen ==
  /\ pc_at = "open"
  /\ \/ pc_at' = "meta" /\ UNCHANGED <<packets, written, attempt>>
     \/ PcGone
  /\ UNCHANGED <<relay, reported>>

(* send_pc_to_uwb *)
PcWrite ==
  /\ pc_at \in {"meta", "payload"}
  /\ LET n      == IF pc_at = "meta" THEN 0 ELSE written + 1
         packet == IF pc_at = "meta" THEN Meta(PcMessage, packets) ELSE Data(PcMessage, n)
     IN \/ /\ Written(packet)
           /\ written' = n
           /\ pc_at' = IF n = packets THEN "ack" ELSE "payload"
           /\ UNCHANGED <<reported, packets, attempt>>
        \/ WriteFailed(packet) /\ PcReturn(FALSE)
  /\ UNCHANGED <<in, head, body, air, delivered>>

(* Mutant of PcPacket: any packet counts as the ACK. *)
PcAnyPacket ==
  /\ pc_at = "ack" /\ attempt < maxAttempts
  /\ in # <<>>
  /\ in' = Tail(in)
  /\ PcReturn(TRUE)
  /\ UNCHANGED <<out, head, body, air, delivered>>

(* wait_downlink_ack *)
PcPacket ==
  /\ pc_at = "ack" /\ attempt < maxAttempts
  /\ in # <<>>
  /\ in' = Tail(in)
  /\ IF Head(in) = Ack
       THEN PcReturn(TRUE)
       ELSE attempt' = attempt + 1 /\ UNCHANGED <<pc_at, packets, written, reported>>
  /\ UNCHANGED <<out, head, body, air, delivered>>

(* A timeout, an error, or the last attempt made *)
PcNoAck ==
  /\ pc_at = "ack"
  /\ PcReturn(FALSE)
  /\ UNCHANGED relay

PcStep == PcOpen \/ PcWrite \/ PcPacket \/ PcNoAck
=============================================================================
