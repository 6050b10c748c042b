------------------------------ MODULE BinaryLog -----------------------------
(***************************************************************************)
(* The format of the sniffer's log files, and what the analysis reads from *)
(* one (parse_binary of analyze_sniffer_binary.py).  A file is a sequence  *)
(* of units: a magic of two units, a length, a unit that stands for sender,*)
(* sequence number and reception time, and as many units of payload as the *)
(* length says.                                                            *)
(***************************************************************************)
EXTENDS Integers, Sequences

CONSTANTS
  MAX_MESSAGE_SIZE,  \* 4096 bytes in the code
  STAMPS             \* reception times from here on have bits above the 40 of the clock

ASSUME BinaryLogAssumption == MAX_MESSAGE_SIZE \in Nat /\ STAMPS \in Nat

(* BB BB 00 00 *)
Magic     == <<48059, 0>>
LENGTH    == Len(Magic) + 1
STAMP     == LENGTH + 1
META_SIZE == STAMP

MagicAt(data, offset) ==
  /\ offset + Len(Magic) <= Len(data)
  /\ SubSeq(data, offset + 1, offset + Len(Magic)) = Magic

(* data.find: where the first magic from an offset on is, or nowhere *)
Found(data, from) == {o \in from..Len(data) : MagicAt(data, o)}
First(offsets)    == CHOOSE o \in offsets : \A p \in offsets : o <= p

(* What is read where the loop stops, and with an error in front of it *)
Stop(offset)            == [records |-> <<>>, errors |-> {}, consumed |-> offset]
WithError(kind, parsed) == [parsed EXCEPT !.errors = @ \cup {kind}]

(* What may be wrong with a whole record: the same sender, number, time    *)
(* and payload is in the file again, or the time has high bits.            *)
Doubts(record, later) ==
  {"duplicate_record" : k \in {i \in DOMAIN later : later[i] = record}}
    \cup IF record[STAMP] >= STAMPS THEN {"timestamp_high_bits"} ELSE {}

(* What is read from an offset on: parse tells it for the later offsets. *)
ParseFrom(parse, data, offset) ==
  LET
    length == data[offset + LENGTH]
    end    == offset + META_SIZE + length
    Resync(from) == IF Found(data, from) = {} THEN Stop(offset)
                                              ELSE parse[First(Found(data, from))]
  IN CASE offset = Len(data)             -> Stop(offset)
       [] offset < Len(data) /\ Len(data) - offset < META_SIZE
                                         -> WithError("truncated_meta", Stop(offset))
       [] Len(data) - offset >= META_SIZE ->
            IF ~MagicAt(data, offset)
              THEN WithError("magic_mismatch", Resync(offset + 1))
            ELSE IF length > MAX_MESSAGE_SIZE
              THEN WithError("invalid_length", Resync(offset + 1))
            ELSE IF end > Len(data)
              THEN WithError("truncated_payload", Resync(offset + META_SIZE))
            ELSE LET record == SubSeq(data, offset + 1, end)
                 IN [parse[end] EXCEPT !.records = <<record>> \o @,
                                       !.errors  = @ \cup Doubts(record, parse[end].records)]

(* The records, the kinds of the errors, and the offset where it stopped *)
parse_binary(data) ==
  LET parse[offset \in 0..Len(data)] == ParseFrom(parse, data, offset)
  IN parse[0]
=============================================================================
