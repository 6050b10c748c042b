------------------------------ MODULE RelayLink -----------------------------
(***************************************************************************)
(* The relay on the other side of the USB bulk endpoints, as the ground    *)
(* tools see it (its firmware is not part of the repository): a metadata   *)
(* packet announces a message of so many packets, whatever packets follow  *)
(* are its payload, the complete message is transmitted and an ACK queued  *)
(* for the host; frames that the relay overhears are queued for the host   *)
(* too.  Earlier runs of a tool may have left ACKs unread, or a message    *)
(* of which some packets are missing.                                      *)
(***************************************************************************)
EXTENDS Integers, SequencesExt

CONSTANTS
  OutLimit,      \* packets the OUT endpoint holds before a transfer must wait
  InLimit,       \* packets the relay queues for the host before it drops frames
  StaleAcks,     \* bound: ACKs that earlier runs left unread
  StaleParts     \* bound: packets missing in a message an earlier run left

ASSUME RelayAssumption ==
  /\ OutLimit \in Nat \ {0}
  /\ {InLimit, StaleAcks, StaleParts} \subseteq Nat

VARIABLES
  out,     \* OUT endpoint: packets written and not yet taken by the relay
  in,      \* IN endpoint: what the relay queued and the host has not read
  head,    \* the metadata of the message being assembled, or NoHead
  body,    \* the payload packets it has so far
  air,     \* history: the messages transmitted, with their payload packets
  delivered   \* history: those of them that were transmitted as composed

relay == <<out, in, head, body, air, delivered>>

Meta(message, packets) == [meta |-> TRUE, message |-> message, number |-> packets]
Data(message, part)    == [meta |-> FALSE, message |-> message, number |-> part]

(* What the relay queues for the host: ACKs and pieces of what it          *)
(* overhears, each with what its bytes claim to be                         *)
Piece(position, claim) == [position |-> position, claim |-> claim]
Ack == Piece(0, 0)

OldMessage == [sequence |-> 0, kind |-> "OLD", index |-> 0]
NoHead     == Meta(OldMessage, 0)

RelayInit ==
  /\ out = <<>>
  /\ in \in {[k \in 1..n |-> Ack] : n \in 0..StaleAcks}
  /\ head \in {Meta(OldMessage, n) : n \in 0..StaleParts}
  /\ body = <<>>
  /\ air = <<>>
  /\ delivered = <<>>

(* A packet that does not announce a message is dropped between messages. *)
TakePacket ==
  /\ out # <<>>
  /\ head = NoHead \/ Len(body) < head.number
  /\ out' = Tail(out)
  /\ IF head = NoHead
       THEN /\ head' = IF Head(out).meta THEN Head(out) ELSE NoHead
            /\ UNCHANGED body
       ELSE /\ body' = Append(body, Head(out))
            /\ UNCHANGED head
  /\ UNCHANGED <<in, air, delivered>>

(* The message is the one the host composed. *)
Intact(t) ==
  /\ t.head.message # OldMessage
  /\ t.body = [k \in 1..t.head.number |-> Data(t.head.message, k)]

Transmit ==
  /\ head # NoHead
  /\ Len(body) = head.number
  /\ LET t == [head |-> head, body |-> body] IN
       /\ air' = Append(air, t)
       /\ delivered' = IF Intact(t) THEN Append(delivered, head.message) ELSE delivered
  /\ in' = Append(in, Ack)
  /\ head' = NoHead
  /\ body' = <<>>
  /\ UNCHANGED out

Sniff(piece) ==
  /\ Len(in) < InLimit
  /\ in' = Append(in, piece)
  /\ UNCHANGED <<out, head, body, air, delivered>>

(* A bulk OUT transfer: complete, or reported as failed or short, of which *)
(* the relay may have got the packet all the same.                         *)
Written(packet) ==
  /\ Len(out) < OutLimit
  /\ out' = Append(out, packet)

WriteFailed(packet) ==
  \/ UNCHANGED out
  \/ Written(packet)
=============================================================================
