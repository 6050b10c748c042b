------------------------------ MODULE Downlink ------------------------------
(***************************************************************************)
(* What the tools that send single commands through the relay              *)
(* (ground_admin.c, pc_to_uwb.c) have in common, and what an operator who  *)
(* runs them one after another remembers: which commands were reported as  *)
(* sent.  A command is known by its number in that list.                   *)
(***************************************************************************)
EXTENDS RelayLink, FiniteSets

CONSTANT MaxCommands   \* bound: commands of all runs together

ASSUME DownlinkAssumption == MaxCommands \in Nat \ {0}

VARIABLES
  reported,   \* history: by command, how it was reported: [sent, wait, run]
  run         \* history: the run of a tool, by the number of its first command

(* wait: "ack", "none" after a transfer alone, or "dry" without any. *)
Report(sent, wait) ==
  reported' = Append(reported, [sent |-> sent, wait |-> wait, run |-> run])

(* The command being sent *)
Command(sequence, kind) ==
  [sequence |-> sequence, kind |-> kind, index |-> Len(reported) + 1]

Acknowledged == {i \in 1..Len(reported) : reported[i].sent /\ reported[i].wait = "ack"}
Failed       == {i \in 1..Len(reported) : ~reported[i].sent}
OnAir        == {delivered[k].index : k \in 1..Len(delivered)}
=============================================================================
