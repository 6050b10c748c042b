---------------------------- MODULE SnifferStorage --------------------------
(***************************************************************************)
(* The program around the capture loop (main of sniffer_storage.c): it     *)
(* opens the device, may send one command through                          *)
(* sniffer_transport_write_all, captures into a file, may have the file    *)
(* plotted, and ends with a status that says whether all of it worked.     *)
(***************************************************************************)
EXTENDS SnifferCapture, LibusbTransport

CONSTANTS
  Invocations,         \* [list_devices, device, send_hex, send_only, plot]
  Command,             \* the length of what --send-hex gives
  WRITE_TIMEOUT_LIMIT  \* 3 in the code

ASSUME StorageAssumption ==
  /\ Command \in Nat \ {0}
  /\ WRITE_TIMEOUT_LIMIT \in Nat

VARIABLES
  invocation,
  sent,        \* bytes of the command that the device has taken
  timeouts,
  file_closed  \* history: fclose has reported success

capture == <<source, pc, raw, discarded, stats, output, cause>>
sending == <<sent, timeouts>>
usb     == <<held, transport>>

StorageVars ==
  <<at, exit_code, usb, invocation, sending, file_closed, options, running, capture>>

StorageInit ==
  /\ invocation \in Invocations
  /\ sent = 0
  /\ timeouts = 0
  /\ file_closed = FALSE

capture_enabled == ~invocation.send_only
send_command    == invocation.send_hex # "none"

(* parse_options, and what main looks at before it opens the device *)
ParseOptions ==
  /\ at = "options"
  /\ IF \/ invocation.send_only /\ ~send_command
        \/ send_command /\ ~invocation.device
        \/ ~invocation.list_devices /\ invocation.send_hex = "invalid"
       THEN Quit(2)
       ELSE To(IF invocation.list_devices THEN "list" ELSE "open")
  /\ UNCHANGED <<usb, invocation, sending, file_closed, options, running, capture>>

Open ==
  /\ \/ OpenContext
     \/ OpenEnumerate
     \/ OpenSelect(invocation.device)
     \/ OpenClaim
     \/ OpenEndpoints(IF send_command THEN "send" ELSE "open_file")
     \/ ListContext
     \/ ListDevices
  /\ UNCHANGED <<invocation, sending, file_closed, options, running, capture>>

-----------------------------------------------------------------------------
(* sniffer_transport_write_all with usb_write, a transfer at a time; any   *)
(* failed transfer may have moved data, a successful one has               *)

Fail(place) == at' = place /\ exit_code' = 1

Transfer ==
  /\ at = "send" /\ sent < Command /\ running
  /\ \E n \in 0..(Command - sent) :
       /\ sent' = sent + n
       /\ \/ n > 0 /\ To(at) /\ UNCHANGED timeouts
          \/ timeouts < WRITE_TIMEOUT_LIMIT /\ timeouts' = timeouts + 1 /\ To(at)
          \/ timeouts = WRITE_TIMEOUT_LIMIT /\ timeouts' = timeouts + 1 /\ Fail("cleanup")
          \/ To(at) /\ UNCHANGED timeouts              \* interrupted
          \/ Fail("cleanup") /\ UNCHANGED timeouts     \* any other status
  /\ UNCHANGED <<usb, invocation, file_closed, options, running, capture>>

(* Mutant of TransferEnds: a command that a signal cut short is sent. *)
TakeForSent ==
  /\ at = "send" /\ (sent = Command \/ ~running)
  /\ To(IF capture_enabled THEN "open_file" ELSE "cleanup")
  /\ UNCHANGED <<usb, invocation, sending, file_closed, options, running, capture>>

TransferEnds ==
  /\ at = "send" /\ (sent = Command \/ ~running)
  /\ IF sent = Command THEN To(IF capture_enabled THEN "open_file" ELSE "cleanup")
                       ELSE Fail("cleanup")
  /\ UNCHANGED <<usb, invocation, sending, file_closed, options, running, capture>>

-----------------------------------------------------------------------------
(* main, from the file on *)

OpenFile ==
  /\ at = "open_file"
  /\ \/ held' = held \cup {"file"} /\ To("capture")
     \/ Fail("cleanup") /\ UNCHANGED held
  /\ UNCHANGED <<transport, invocation, sending, file_closed, options, running, capture>>

CaptureStep ==
  /\ at = "capture"
  /\ Capture
  /\ UNCHANGED <<at, exit_code, usb, invocation, sending, file_closed>>

(* sniffer_capture returns, or cannot get its buffer *)
CaptureReturns ==
  /\ at = "capture"
  /\ \/ pc = "done" /\ IF cause \in {"ERROR", "write_failed"} THEN Fail("close_file")
                                                              ELSE To("close_file")
     \/ pc = "record" /\ stats.received = 0 /\ Fail("close_file")
  /\ UNCHANGED <<usb, invocation, sending, file_closed, options, running, capture>>

CloseFile ==
  /\ at = "close_file"
  /\ held' = held \ {"file"}
  /\ \/ /\ To(IF invocation.plot /\ stats.records > 0 THEN "plot" ELSE "cleanup")
        /\ file_closed' = TRUE
     \/ Fail("cleanup") /\ UNCHANGED file_closed
  /\ UNCHANGED <<transport, invocation, sending, options, running, capture>>

(* sniffer_plot_macos_run; a build for another system has no plots. *)
Plot ==
  /\ at = "plot"
  /\ To("cleanup") \/ Fail("cleanup")
  /\ UNCHANGED <<usb, invocation, sending, file_closed, options, running, capture>>

Cleanup ==
  /\ at = "cleanup"
  /\ Close({})
  /\ Quit(exit_code)
  /\ UNCHANGED <<invocation, sending, file_closed, options, running, capture>>

(* The handlers stand from before the device is opened. *)
StorageSignal ==
  /\ at \notin {"options", "list", "list_devices", "exited"}
  /\ handle_signal
  /\ UNCHANGED <<at, exit_code, usb, invocation, sending, file_closed>>

StorageStep == \/ ParseOptions \/ Open \/ Transfer \/ TransferEnds \/ OpenFile
               \/ CaptureStep \/ CaptureReturns \/ CloseFile \/ Plot \/ Cleanup

-----------------------------------------------------------------------------
(* Properties *)

(* A capture begins only behind a command that the device has taken whole, *)
(* and status 0 means that the command was sent, that nothing failed while *)
(* the file was read and written, and that the file was closed (exit_code  *)
(* in main, sniffer_transport_write_all).                                  *)
SuccessMeansStored ==
  program = "sniffer_storage" =>
    /\ send_command /\ ("file" \in held \/ stats.received > 0) => sent = Command
    /\ ~invocation.list_devices /\ at = "exited" /\ exit_code = 0 =>
         /\ send_command => sent = Command
         /\ capture_enabled => /\ cause \in {"stopped", "EOF"}
                               /\ stats.stored = Len(output)
                               /\ file_closed
=============================================================================
