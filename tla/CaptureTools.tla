----------------------------- MODULE CaptureTools ---------------------------
(***************************************************************************)
(* The two programs that capture into a file: sniffer_storage.c and, for   *)
(* Windows, ground_control_windows.c.  One of them has the device.         *)
(***************************************************************************)
EXTENDS SnifferStorage, GroundControlWindows

windows == <<bus, reading, window, buffer, remaining, log_file, packet_count>>
storage == <<options, capture, invocation, sending, file_closed>>

ToolsInit ==
  /\ Init
  /\ LibusbInit
  /\ StorageInit
  /\ WindowsInit
  /\ program = "ground_control_windows" =>   \* which has no options
       invocation = (CHOOSE i \in Invocations : TRUE) /\ max_records = 0

ToolsStep ==
  \/ program = "sniffer_storage" /\ StorageStep /\ UNCHANGED <<program, windows>>
  \/ program = "ground_control_windows" /\ WindowsStep /\ UNCHANGED <<program, storage>>

ToolsSignal ==
  \/ program = "sniffer_storage" /\ StorageSignal /\ UNCHANGED <<program, windows>>
  \/ program = "ground_control_windows" /\ handle_sigint /\ UNCHANGED <<program, storage>>

ToolsVars == <<program, at, exit_code, held, transport, input, running, storage, windows>>

(* A transfer ends at the latest with its timeout, and the plot with its   *)
(* child.  Neither the signal nor an end of the device is sure to come,    *)
(* and a device may time out for ever.                                     *)
ToolsSpec == ToolsInit /\ [][ToolsStep \/ ToolsSignal]_ToolsVars /\ WF_ToolsVars(ToolsStep)

(* Behind a signal both programs end, wherever it comes: between two steps *)
(* of opening, with a command half sent, while units are missing and the   *)
(* device is silent or delivers without end (is_running, keep_running).    *)
ProgramEnds == ~running ~> at = "exited"
=============================================================================
