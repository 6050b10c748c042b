------------------------- MODULE GroundControlWindows -----------------------
(***************************************************************************)
(* The capture of the Windows build (ground_control_windows.c).  It has no *)
(* staging buffer, slides its window on behind metadata with an invalid    *)
(* length, and writes metadata before the payload and the payload in       *)
(* pieces, so that a signal or an error leaves the file with a record cut  *)
(* off; sniffer_storage.c never does.                                      *)
(***************************************************************************)
EXTENDS SnifferStream, LibusbTransport

CONSTANT MAX_TRANSFER_SIZE   \* 256 bytes in the code

ASSUME WindowsAssumption == MAX_TRANSFER_SIZE \in Nat \ {0}

VARIABLES
  bus,           \* what the device has not delivered yet
  reading,       \* "none", "window", "look", "next", "meta", "payload"
  window,        \* the units that should be a magic
  buffer,        \* what read_exact_usb has read in this call
  remaining,     \* units of the payload still to be read
  log_file,      \* what the program has written to its stream
  packet_count

device  == <<input, running, bus>>
storing == <<log_file, packet_count>>

WindowsVars == <<at, exit_code, held, transport, device,
                 reading, window, buffer, remaining, storing>>

WindowsInit ==
  /\ bus = Delivery(input)
  /\ reading = "none"
  /\ window = <<>>
  /\ buffer = <<>>
  /\ remaining = 0
  /\ log_file = <<>>
  /\ packet_count = 0

-----------------------------------------------------------------------------
(* main: libusb_init, open_matching_device with the first device that      *)
(* matches, libusb_claim_interface, libusb_clear_halt, fopen; behind a     *)
(* failure the cleanup                                                     *)

open_matching_device == OpenEnumerate \/ OpenSelect(TRUE)

WindowsOpen ==
  /\ \/ at = "options" /\ To("open") /\ UNCHANGED <<held, transport>>
     \/ OpenContext
     \/ open_matching_device
     \/ OpenClaim
     \/ at = "endpoints" /\ To("open_file") /\ UNCHANGED <<held, transport>>
  /\ UNCHANGED <<device, reading, window, buffer, remaining, storing>>

OpenLog ==
  /\ at = "open_file"
  /\ \/ held' = held \cup {"file"} /\ To("capture") /\ UNCHANGED transport
     \/ Refuse({})
  /\ UNCHANGED <<device, reading, window, buffer, remaining, storing>>

(* store_sniffer_binary_data returns; what fflush and fclose report is not *)
(* looked at.                                                              *)
Return(code) == Close({"file"}) /\ Quit(code)
GoOn         == UNCHANGED <<at, exit_code, held, transport>>

-----------------------------------------------------------------------------
(* read_exact_usb, a transfer at a time *)

Wanted == CASE reading = "window"  -> Len(Magic)
            [] reading = "next"    -> 1
            [] reading = "meta"    -> META_SIZE - Len(Magic)
            [] reading = "payload" -> Least(MAX_TRANSFER_SIZE, remaining)
            [] OTHER               -> 0

ReadUsb ==
  /\ at = "capture" /\ running /\ Len(buffer) < Wanted
  /\ \E n \in 0..Least(Wanted - Len(buffer), Len(bus)) :
       /\ buffer' = buffer \o SubSeq(bus, 1, n)
       /\ bus' = SubSeq(bus, n + 1, Len(bus))
       /\ GoOn \/ Return(1)     \* data or a timeout; any other response
  /\ UNCHANGED <<input, running, reading, window, remaining, storing>>

Returned == at = "capture" /\ Wanted > 0 /\ (Len(buffer) = Wanted \/ ~running)
Stopped  == Len(buffer) < Wanted

-----------------------------------------------------------------------------
(* read_next_meta *)

WindowRead ==
  /\ Returned /\ reading \in {"window", "next"}
  /\ IF Stopped
       THEN Return(0) /\ UNCHANGED <<reading, window, buffer>>
       ELSE /\ window' = (IF reading = "next" THEN Tail(window) ELSE <<>>) \o buffer
            /\ buffer' = <<>>
            /\ reading' = "look"
            /\ GoOn
  /\ UNCHANGED <<device, remaining, storing>>

Look ==
  /\ reading = "look" /\ at = "capture"
  /\ IF running
       THEN /\ reading' = IF window = Magic THEN "meta" ELSE "next"
            /\ GoOn
       ELSE Return(0) /\ UNCHANGED reading
  /\ UNCHANGED <<device, window, buffer, remaining, storing>>

(* fwrite of the units, or of some of them only *)
Write(units, next) ==
  \/ /\ log_file' = log_file \o units
     /\ reading' = next
     /\ GoOn
  \/ /\ \E n \in 0..(Len(units) - 1) : log_file' = log_file \o SubSeq(units, 1, n)
     /\ Return(1)
     /\ UNCHANGED reading

(* Mutant of MetaRead: metadata with any length is taken. *)
TakeAnyLength ==
  /\ Returned /\ reading = "meta" /\ ~Stopped
  /\ Write(window \o buffer, "payload")
  /\ packet_count' = packet_count + 1
  /\ remaining' = buffer[1]
  /\ window' = <<>>
  /\ buffer' = <<>>
  /\ UNCHANGED device

(* Metadata with an invalid length is used up, its magic slid away. *)
MetaRead ==
  /\ Returned /\ reading = "meta" /\ ~Stopped
  /\ \/ /\ buffer[1] > MAX_MESSAGE_SIZE
        /\ reading' = "next"
        /\ GoOn
        /\ UNCHANGED <<window, remaining, storing>>
     \/ /\ buffer[1] <= MAX_MESSAGE_SIZE
        /\ Write(window \o buffer, "payload")
        /\ packet_count' = packet_count + 1
        /\ remaining' = buffer[1]
        /\ window' = <<>>
  /\ buffer' = <<>>
  /\ UNCHANGED device

MetaStopped ==
  /\ Returned /\ reading = "meta" /\ Stopped
  /\ Return(0)
  /\ UNCHANGED <<device, reading, window, buffer, remaining, storing>>

-----------------------------------------------------------------------------
(* store_sniffer_binary_data *)

NextPacket ==
  /\ reading = "none" /\ at = "capture"
  /\ \/ running /\ reading' = "window" /\ GoOn
     \/ ~running /\ Return(0) /\ UNCHANGED reading
  /\ UNCHANGED <<device, window, buffer, remaining, storing>>

(* A piece of the payload is stored also when a signal cut it short. *)
StorePiece ==
  /\ Returned /\ reading = "payload" /\ buffer # <<>>
  /\ Write(buffer, "payload")
  /\ remaining' = remaining - Len(buffer)
  /\ buffer' = <<>>
  /\ UNCHANGED <<device, window, packet_count>>

PacketEnds ==
  /\ reading = "payload" /\ at = "capture" /\ buffer = <<>>
  /\ remaining = 0 \/ ~running
  /\ reading' = "none"
  /\ remaining' = 0
  /\ GoOn
  /\ UNCHANGED <<device, window, buffer, storing>>

handle_sigint ==
  /\ at # "exited"
  /\ running' = FALSE
  /\ GoOn
  /\ UNCHANGED <<input, bus, reading, window, buffer, remaining, storing>>

WindowsStep == \/ WindowsOpen \/ OpenLog \/ ReadUsb \/ WindowRead \/ Look
               \/ MetaRead \/ MetaStopped \/ NextPacket \/ StorePiece \/ PacketEnds

-----------------------------------------------------------------------------
(* Properties *)

(* While no signal has come, the analysis reads from the file exactly the  *)
(* records counted so far, one behind the other, and complains only of     *)
(* those that the device sent twice or with high bits.  Behind a clean     *)
(* start the file is always a beginning of the frames sent, with no unit   *)
(* missing or doubled, however transfers and pieces cut them.  The program *)
(* reports success only for a signal, which then costs at most the record  *)
(* it came in (read_next_meta, store_sniffer_binary_data, parse_binary).   *)
GroundControlFile ==
  LET parsed == parse_binary(log_file)
  IN /\ reading = "none" /\ running => /\ Len(parsed.records) = packet_count
                                       /\ parsed.errors \subseteq
                                            {"duplicate_record", "timestamp_high_bits"}
                                       /\ parsed.consumed = Len(log_file)
     /\ CleanInput => IsPrefix(log_file, FlattenSeq(input.frames))
     /\ program = "ground_control_windows" /\ at = "exited" /\ exit_code = 0 =>
          ~running /\ Len(parsed.records) >= packet_count - 1
=============================================================================
