---------------------------- MODULE DownlinkTools ---------------------------
(***************************************************************************)
(* An operator who runs ground_admin.c and pc_to_uwb.c one after another   *)
(* at the same relay, and may stop a run at any moment (both leave SIGINT  *)
(* as it is, so that they die of it).  What a run leaves behind, an ACK    *)
(* nobody has read or a message half written, meets the next one.          *)
(***************************************************************************)
EXTENDS GroundAdmin, PcToUwb

vars == <<relay, reported, run, admin, pc>>

Init ==
  /\ RelayInit
  /\ reported = <<>>
  /\ run = 1
  /\ AdminInit
  /\ PcInit

Start ==
  /\ phase = "exit" /\ pc_at = "exit"
  /\ Len(reported) < MaxCommands
  /\ run' = Len(reported) + 1
  /\ \/ AdminStart /\ UNCHANGED pc
     \/ PcStart /\ UNCHANGED admin
  /\ UNCHANGED <<relay, reported>>

(* A run dies; of the command under way the operator only knows that it    *)
(* was not reported as sent.  The system takes the device back.            *)
Kill ==
  /\ \/ /\ phase # "exit"
        /\ AdminGone
        /\ IF phase = "sending" THEN Report(FALSE, "none") ELSE UNCHANGED reported
        /\ UNCHANGED <<result, pc>>
     \/ /\ pc_at # "exit"
        /\ PcGone
        /\ IF pc_at = "open" THEN UNCHANGED reported ELSE Report(FALSE, "none")
        /\ UNCHANGED admin
  /\ UNCHANGED <<relay, run>>

Program ==
  \/ Host /\ UNCHANGED <<run, pc>>
  \/ PcStep /\ UNCHANGED <<run, admin>>

Next ==
  \/ Program
  \/ Start
  \/ Kill
  \/ Operator /\ UNCHANGED <<run, pc>>
  \/ /\ TakePacket \/ Transmit \/ Sniff(Piece(1, 1))
     /\ UNCHANGED <<reported, run, admin, pc>>

(* The program runs on; neither the operator nor the relay need do so. *)
Spec == Init /\ [][Next]_vars /\ WF_vars(Program)

-----------------------------------------------------------------------------
(* Properties *)

(* Over all runs of both tools one ACK never stands for two commands: no   *)
(* more are reported as sent on an ACK than messages went on the air.  And *)
(* an undisturbed operator is never told of a transmission that did not    *)
(* happen: a command reported as sent on an ACK is on the air as it was    *)
(* composed, but for at most one such command per command, of any run,     *)
(* that failed, was stopped, or did not wait for its ACK                   *)
(* (waitForSnifferAck, wait_downlink_ack).                                 *)
SentUnlessDisturbed ==
  LET disturbed == {i \in 1..Len(reported) : ~reported[i].sent \/ reported[i].wait = "none"}
  IN /\ Cardinality(Acknowledged) <= Len(air) + StaleAcks
     /\ Cardinality(Acknowledged \ OnAir)
          <= Cardinality(disturbed) + StaleAcks + StaleParts

(* Two commands of a run on the air with the same sequence number: the     *)
(* earlier one was reported as failed, so that the operator knows of the   *)
(* repetition (the increments in runInteractive and runOneCommand).        *)
ReuseOnlyAfterFailure ==
  \A i, j \in 1..Len(delivered) :
    /\ i < j /\ delivered[i].sequence = delivered[j].sequence
    /\ delivered[j].index \in 1..Len(reported)
    /\ reported[delivered[i].index].run = reported[delivered[j].index].run
    => delivered[i].index \in Failed

(* A command is swallowed as the payload of another one only if that other *)
(* command was reported as failed or stopped (the transfers of             *)
(* sendAdminCommand and send_pc_to_uwb).                                   *)
SwallowedOnlyAfterFailure ==
  \A i \in 1..Len(air) :
    Intact(air[i]) \/ air[i].head.message = OldMessage
      \/ air[i].head.message.index \in Failed

(* A command comes back to the prompt, or the program to its end, even if  *)
(* no ACK comes and the sniffed frames never stop (waitForSnifferAck,      *)
(* wait_downlink_ack).                                                     *)
PromptReturns ==
  /\ phase = "sending" ~> phase # "sending"
  /\ pc_at # "exit" ~> pc_at = "exit"
=============================================================================
