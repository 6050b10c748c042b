---------------------------- MODULE SnifferCapture --------------------------
(***************************************************************************)
(* The capture loop (sniffer_capture.c) over the buffered transport        *)
(* (sniffer_buffered_transport.c): USB transfers of any size go through a  *)
(* staging buffer; the loop asks it for a magic, slides a window over the  *)
(* bytes until there is one, reads the rest of the metadata and the        *)
(* payload, and writes only whole records.  A signal clears running at any *)
(* moment; it is looked at between two reads.                              *)
(***************************************************************************)
EXTENDS SnifferStream

CONSTANTS
  RECEIVE_STAGING_SIZE, \* 16384 bytes in the code
  RecordLimits          \* values of max_records; 0 for no limit

ASSUME CaptureAssumption ==
  /\ RECEIVE_STAGING_SIZE \in Nat \ {0}
  /\ RecordLimits \subseteq Nat

VARIABLES
  max_records,
  wire,         \* what the device has not delivered yet
  staged,       \* staging buffer: what the loop has not asked for yet
  pc,           \* "record", "magic", "window", "rest", "payload", "done"
  raw,          \* the record being read: metadata and payload
  discarded,    \* units the window has moved over
  stats,
  output,       \* the file
  cause         \* why the loop ended; the exit status follows from it

options == <<input, max_records>>
source  == <<wire, staged>>
vars    == <<options, source, running, pc, raw, discarded, stats, output, cause>>

Init ==
  /\ input \in Inputs
  /\ max_records \in RecordLimits
  /\ wire = Delivery(input)
  /\ staged = <<>>
  /\ running = TRUE
  /\ pc = "record"
  /\ raw = <<>>
  /\ discarded = 0
  /\ stats = [records |-> 0, received |-> 0, stored |-> 0, invalid_lengths |-> 0,
              truncated |-> 0, discarded |-> 0]
  /\ output = <<>>
  /\ cause = "none"

Finish(why) == pc' = "done" /\ cause' = why
Go(where)   == pc' = where /\ UNCHANGED cause

-----------------------------------------------------------------------------
(* sniffer_capture, between two records *)

NextRecord ==
  /\ pc = "record"
  /\ IF running /\ (max_records = 0 \/ stats.records < max_records)
       THEN Go("magic")
       ELSE Finish("stopped")
  /\ raw' = <<>>
  /\ UNCHANGED <<options, source, running, discarded, stats, output>>

-----------------------------------------------------------------------------
(* buffered_read and the read of the device below it: the units that a     *)
(* request for so many gets, with the status, and what is left.  A timeout *)
(* or an error may carry data, of which the first request gets its part    *)
(* with the status.                                                        *)

Part(units, capacity, status, left) ==
  LET n == Least(capacity, Len(units))
  IN [chunk |-> SubSeq(units, 1, n), status |-> status,
      staged |-> SubSeq(units, n + 1, Len(units)), wire |-> left]

(* The transfers that the device may make; one that reports success has    *)
(* data (usb_read), and the end of the device comes behind all data.       *)
Transfers(capacity) ==
  LET Transfer(n, status) ==
        Part(SubSeq(wire, 1, n), capacity, status, SubSeq(wire, n + 1, Len(wire)))
  IN {Transfer(n, status) : n \in 1..Least(RECEIVE_STAGING_SIZE, Len(wire)),
                            status \in {"DATA", "TIMEOUT", "INTERRUPTED", "ERROR"}}
     \cup {Transfer(0, status) : status \in {"TIMEOUT", "INTERRUPTED", "ERROR"}}
     \cup (IF wire = <<>> THEN {Transfer(0, "EOF")} ELSE {})

(* Mutant of buffered_read: a new transfer replaces what is staged. *)
UnbufferedRead(capacity) == Transfers(capacity)

buffered_read(capacity) ==
  IF staged # <<>> THEN {Part(staged, capacity, "DATA", wire)}
                   ELSE Transfers(capacity)

(* How much the record in hand needs before the loop looks at it *)
Length == CASE pc \in {"magic", "window"} -> Len(Magic)
            [] pc = "rest"                -> META_SIZE
            [] pc = "payload"             -> META_SIZE + raw[LENGTH]

Reading  == pc \in {"magic", "window", "rest", "payload"} /\ Len(raw) < Length
Complete == pc \in {"magic", "window", "rest", "payload"} /\ Len(raw) = Length

(* The window gives up: what it holds counts as discarded. *)
Discard(units) == [stats EXCEPT !.discarded = @ + discarded + units]

(* read_exact, a pass of its loop *)
Read ==
  /\ Reading /\ running
  /\ \E r \in buffered_read(Length - Len(raw)) :
       LET received == [stats EXCEPT !.received = @ + Len(r.chunk)]
           slid     == IF pc = "window" THEN Len(r.chunk) ELSE 0
           partial  == pc \in {"rest", "payload"} \/ Len(raw \o r.chunk) > 0
       IN /\ wire' = r.wire /\ staged' = r.staged
          /\ IF r.status \in {"DATA", "TIMEOUT", "INTERRUPTED"}
               THEN /\ raw' = raw \o r.chunk
                    /\ discarded' = discarded + slid
                    /\ stats' = received
                    /\ Go(pc)
               ELSE /\ Finish(r.status)
                    /\ IF pc = "window"
                         THEN /\ raw' = r.chunk
                              /\ discarded' = 0
                              /\ stats' = [received EXCEPT
                                             !.discarded = @ + discarded + Len(Magic)]
                         ELSE /\ raw' = raw \o r.chunk
                              /\ stats' = IF partial THEN [received EXCEPT !.truncated = @ + 1]
                                                     ELSE received
                              /\ UNCHANGED discarded
  /\ UNCHANGED <<options, running, output>>

(* Mutant of ReadStopped: a signal is not looked at while units are missing. *)
ReadOn ==
  /\ Reading /\ ~running
  /\ UNCHANGED vars

ReadStopped ==
  /\ Reading /\ ~running
  /\ Finish("stopped")
  /\ IF pc = "window" THEN stats' = Discard(Len(Magic)) /\ raw' = <<>> /\ discarded' = 0
                      ELSE UNCHANGED <<stats, raw, discarded>>
  /\ UNCHANGED <<options, source, running, output>>

-----------------------------------------------------------------------------
(* read_next_meta *)

MagicRead ==
  /\ pc = "magic" /\ Complete
  /\ Go(IF raw = Magic THEN "rest" ELSE "window")
  /\ UNCHANGED <<options, source, running, raw, discarded, stats, output>>

Slide ==
  /\ pc = "window" /\ Complete
  /\ running /\ raw # Magic
  /\ raw' = Tail(raw)
  /\ UNCHANGED <<options, source, running, pc, cause, discarded, stats, output>>

(* Mutant of WindowEnds: only the window itself is counted. *)
CountWindow ==
  /\ pc = "window" /\ Complete
  /\ raw = Magic \/ ~running
  /\ stats' = [stats EXCEPT !.discarded = @ + 1]
  /\ discarded' = 0
  /\ IF running THEN Go("rest") ELSE Finish("stopped")
  /\ UNCHANGED <<options, source, running, raw, output>>

WindowEnds ==
  /\ pc = "window" /\ Complete
  /\ raw = Magic \/ ~running
  /\ stats' = Discard(0)
  /\ discarded' = 0
  /\ IF running THEN Go("rest") ELSE Finish("stopped")
  /\ UNCHANGED <<options, source, running, raw, output>>

-----------------------------------------------------------------------------
(* sniffer_capture, with the metadata and with the payload *)

(* Mutant of Decode: the limit of the length is not looked at. *)
DecodeAny ==
  /\ pc = "rest" /\ Complete
  /\ Go("payload")
  /\ UNCHANGED <<options, source, running, raw, discarded, stats, output>>

(* Mutant of Decode: the metadata is written before the payload is there. *)
DecodeAndWrite ==
  /\ pc = "rest" /\ Complete
  /\ IF raw[LENGTH] > MAX_MESSAGE_SIZE
       THEN /\ stats' = [stats EXCEPT !.invalid_lengths = @ + 1]
            /\ raw' = <<>>
            /\ Go("record")
            /\ UNCHANGED output
       ELSE /\ Go("payload")
            /\ output' = output \o raw
            /\ UNCHANGED <<stats, raw>>
  /\ UNCHANGED <<options, source, running, discarded>>

Decode ==
  /\ pc = "rest" /\ Complete
  /\ IF raw[LENGTH] > MAX_MESSAGE_SIZE
       THEN /\ stats' = [stats EXCEPT !.invalid_lengths = @ + 1]
            /\ raw' = <<>>
            /\ Go("record")
       ELSE /\ Go("payload")
            /\ UNCHANGED <<stats, raw>>
  /\ UNCHANGED <<options, source, running, discarded, output>>

Store ==
  /\ pc = "payload" /\ Complete
  /\ output' = output \o raw
  /\ stats' = [stats EXCEPT !.stored = @ + Len(raw), !.records = @ + 1]
  /\ raw' = <<>>
  /\ Go("record")
  /\ UNCHANGED <<options, source, running, discarded>>

(* fwrite stops before the end of the record, or fflush fails after it. *)
StoreFails ==
  /\ pc = "payload" /\ Complete
  /\ \E n \in 0..Len(raw) :
       /\ output' = output \o SubSeq(raw, 1, n)
       /\ stats' = [stats EXCEPT !.stored = @ + n]
       /\ raw' = SubSeq(raw, n + 1, Len(raw))
  /\ Finish("write_failed")
  /\ UNCHANGED <<options, source, running, discarded>>

handle_signal ==
  /\ running' = FALSE
  /\ UNCHANGED <<options, source, pc, raw, discarded, stats, output, cause>>

Capture == \/ NextRecord \/ Read \/ ReadStopped \/ MagicRead
           \/ Slide \/ WindowEnds \/ Decode \/ Store \/ StoreFails

Next == Capture \/ handle_signal

Spec == Init /\ [][Next]_vars

-----------------------------------------------------------------------------
(* Properties *)

(* Every variable keeps to its type; a record in hand is never longer than *)
(* the buffers it is read into (raw and payload of sniffer_capture).       *)
CaptureTypeOK ==
  /\ pc \in {"record", "magic", "window", "rest", "payload", "done"}
  /\ running \in BOOLEAN
  /\ cause \in {"none", "stopped", "EOF", "ERROR", "write_failed"}
  /\ pc = "done" <=> cause # "none"
  /\ Len(raw) <= META_SIZE + MAX_MESSAGE_SIZE
  /\ Len(staged) <= RECEIVE_STAGING_SIZE
  /\ discarded > 0 => pc = "window"

(* The statistics account for every byte the device delivered: it was      *)
(* stored, discarded, belongs to metadata with an invalid length, or to    *)
(* the record in hand; the rest is staged.  A record that is cut off by    *)
(* the end of the device is counted as truncated, nothing else is          *)
(* (SnifferStats, read_next_meta, sniffer_print_stats).                    *)
BytesAccounted ==
  /\ LET moved == IF pc = "window" THEN discarded + Len(Magic) ELSE Len(raw)
     IN stats.received = stats.stored + stats.discarded + moved
                           + META_SIZE * stats.invalid_lengths
  /\ stats.received + Len(staged) + Len(wire) = Len(Delivery(input))
  /\ cause = "EOF" => stats.truncated = IF raw = <<>> THEN 0 ELSE 1

(* The analysis reads from the file exactly the records that the capture   *)
(* counted and finds nothing wrong with how they follow one another,       *)
(* whatever the device has delivered, unless a write failed.  What it may  *)
(* still say of a record is that the device sent it twice or with high     *)
(* bits in its time (write_file_all, parse_binary).                        *)
FileReparses ==
  cause # "write_failed" =>
    LET parsed == parse_binary(output)
    IN /\ Len(parsed.records) = stats.records
       /\ parsed.errors \subseteq {"duplicate_record", "timestamp_high_bits"}
       /\ parsed.consumed = Len(output)

(* When the rest of a frame at the start holds no magic, the file holds    *)
(* the frames behind it in order and without a gap, and all of them once   *)
(* the device has delivered everything; however transfers cut them, and    *)
(* also when a payload holds a magic (read_exact, buffered_read).          *)
NoFrameLost ==
  LET stored == FlattenSeq(SubSeq(input.frames, 1, stats.records))
  IN CleanInput /\ cause # "write_failed" =>
       /\ stats.records <= Len(input.frames)
       /\ output = stored
       /\ cause = "EOF" => stats.records = Len(input.frames)
=============================================================================
