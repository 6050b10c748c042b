----------------------------- MODULE RecordTools ----------------------------
(***************************************************************************)
(* The programs that write recorded traces and the tools that read such    *)
(* traces, one at a time: either one of them captures or one of them       *)
(* reads, and nothing happens to the state of the others.                  *)
(***************************************************************************)
EXTENDS CaptureTools, TraceTools

VARIABLE side   \* "capture" or "read"

(* The initial state of those that do not run *)
NoReader  == tool = "data_process"
NoCapture == program = "ground_control_windows" /\ input = CHOOSE i \in Inputs : TRUE

RecordInit ==
  /\ side \in {"capture", "read"}
  /\ ToolsInit
  /\ TraceInit
  /\ IF side = "capture" THEN NoReader ELSE NoCapture

CaptureRuns == side = "capture" /\ ToolsStep /\ UNCHANGED <<side, traces>>
SignalComes == side = "capture" /\ ToolsSignal /\ UNCHANGED <<side, traces>>
ReaderRuns  == side = "read" /\ TraceNext /\ UNCHANGED <<side, ToolsVars>>

RecordVars == <<side, ToolsVars, traces>>

(* The fairness of ToolsSpec; that the readers go on is not assumed. *)
RecordSpec ==
  /\ RecordInit
  /\ [][CaptureRuns \/ SignalComes \/ ReaderRuns]_RecordVars
  /\ WF_RecordVars(CaptureRuns)
=============================================================================
