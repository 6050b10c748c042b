----------------------------- MODULE TraceTools -----------------------------
(***************************************************************************)
(* What reads recorded traces, one tool at a time: data_process.py makes   *)
(* rows of the flight log of them, analyze_sniffer_binary.py a time line,  *)
(* and a drone of the simulation a count of ticks.                         *)
(***************************************************************************)
EXTENDS TraceRing, TimestampUnwrap, TickCounter

VARIABLE tool

traces == <<tool, ring, unwrap, ticking>>

TraceInit ==
  /\ tool \in {"data_process", "analyze_records", "xTaskGetTickCount"}
  /\ RingInit
  /\ UnwrapInit
  /\ TickInit

TraceNext ==
  \/ tool = "data_process" /\ RingNext /\ UNCHANGED <<tool, unwrap, ticking>>
  \/ tool = "analyze_records" /\ Analyze /\ UNCHANGED <<tool, ring, ticking>>
  \/ tool = "xTaskGetTickCount" /\ TickNext /\ UNCHANGED <<tool, ring, unwrap>>

TraceSpec == TraceInit /\ [][TraceNext]_traces
=============================================================================
