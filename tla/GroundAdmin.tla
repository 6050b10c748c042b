----------------------------- MODULE GroundAdmin ----------------------------
(***************************************************************************)
(* The ADMIN command sender (ground_admin.c): at a prompt, or once for     *)
(* --command, it sends the relay a metadata packet and a payload packet    *)
(* and waits for the local TX ACK; only a success advances the sequence    *)
(* number, and at the prompt a failed command is followed by the next one. *)
(* Lines that send nothing (help, unknown commands) leave the prompt as it *)
(* is.                                                                     *)
(***************************************************************************)
EXTENDS Downlink

CONSTANTS
  ACK_WAIT_TIMEOUT_MS,       \* 1500 in the code
  timeoutMs                  \* --timeout-ms, 1000 by default

ASSUME AdminAssumption ==
  /\ ACK_WAIT_TIMEOUT_MS \in Nat \ {0}
  /\ timeoutMs \in Nat \ {0}

VARIABLES
  options,    \* the flags that change what is done
  phase,      \* "open", "command", "prompt", "sending", ...
  held,       \* what cleanup has to give back
  sequence,   \* 16 bits
  step,       \* in sendAdminCommand: "meta", "payload", "ack"
  elapsed,    \* waitForSnifferAck's account of its time, in ms
  result      \* the exit status

session == <<options, held, sequence, reported, result>>
admin   == <<options, held, sequence, result, phase, step, elapsed>>

Options == [waitForAck : BOOLEAN, dryRun : BOOLEAN, oneShot : BOOLEAN]

NoOptions == [waitForAck |-> FALSE, dryRun |-> FALSE, oneShot |-> FALSE]

AdminInit ==
  /\ options = NoOptions
  /\ phase = "exit"
  /\ held = {}
  /\ sequence = 1
  /\ step = "meta"
  /\ elapsed = 0
  /\ result = "EXIT_FAILURE"

AdminStart ==
  /\ options' \in Options
  /\ phase' = "open"
  /\ result' = "EXIT_FAILURE"
  /\ UNCHANGED <<held, sequence, step, elapsed>>

(* A run that has ended leaves its exit status. *)
AdminGone ==
  /\ options' = NoOptions
  /\ phase' = "exit"
  /\ held' = {}
  /\ sequence' = 1
  /\ step' = "meta"
  /\ elapsed' = 0

Current == Command(sequence, "ADMIN")

-----------------------------------------------------------------------------
(* main and the two ways to run *)

Open ==
  /\ phase = "open"
  /\ LET start == IF options.oneShot THEN "command" ELSE "prompt" IN
     IF options.dryRun
       THEN phase' = start /\ UNCHANGED held
       ELSE \/ /\ held' \in {{}, {"context"}, {"context", "handle"}}
               /\ phase' = "cleanup"
            \/ /\ held' = {"context", "handle", "interface"}
               /\ phase' = start
  /\ UNCHANGED <<relay, options, sequence, reported, result, step, elapsed>>

EnterCommand ==
  /\ phase \in {"command", "prompt"}
  /\ Len(reported) < MaxCommands
  /\ phase' = "sending"
  /\ step' = "meta"
  /\ elapsed' = 0
  /\ UNCHANGED <<relay, session>>

(* --command with a name that is too long or not in the table *)
UnknownCommand ==
  /\ phase = "command"
  /\ phase' = "cleanup"
  /\ UNCHANGED <<relay, session, step, elapsed>>

Quit ==
  /\ phase = "prompt"
  /\ phase' = "cleanup"
  /\ result' = "EXIT_SUCCESS"
  /\ UNCHANGED <<relay, options, held, sequence, reported, step, elapsed>>

Cleanup ==
  /\ phase = "cleanup"
  /\ AdminGone
  /\ UNCHANGED <<relay, reported, result>>

Wait == CASE options.dryRun                         -> "dry"
          [] ~options.dryRun /\ options.waitForAck  -> "ack"
          [] ~options.dryRun /\ ~options.waitForAck -> "none"

(* Mutant of Return: the caller's number is not advanced. *)
ReturnKeeping(sent) ==
  /\ Report(sent, Wait)
  /\ sequence' = sequence
  /\ phase' = IF options.oneShot THEN "cleanup" ELSE "prompt"
  /\ result' = IF options.oneShot /\ sent THEN "EXIT_SUCCESS" ELSE result
  /\ UNCHANGED <<options, held, step>>

(* sendAdminCommand returns; runOneCommand and runInteractive go on. *)
Return(sent) ==
  /\ Report(sent, Wait)
  /\ sequence' = IF sent THEN (sequence + 1) % 65536 ELSE sequence
  /\ phase' = IF options.oneShot THEN "cleanup" ELSE "prompt"
  /\ result' = IF options.oneShot /\ sent THEN "EXIT_SUCCESS" ELSE result
  /\ UNCHANGED <<options, held, step>>

-----------------------------------------------------------------------------
(* sendAdminCommand *)

DrySend ==
  /\ phase = "sending"
  /\ options.dryRun
  /\ Return(TRUE)
  /\ UNCHANGED <<relay, elapsed>>

WriteMeta ==
  /\ phase = "sending" /\ ~options.dryRun
  /\ step = "meta"
  /\ \/ Written(Meta(Current, 1)) /\ step' = "payload" /\ UNCHANGED <<session, phase>>
     \/ WriteFailed(Meta(Current, 1)) /\ Return(FALSE)
  /\ UNCHANGED <<in, head, body, air, delivered, elapsed>>

(* Mutant of WritePayload: the result of the transfer is not looked at. *)
PayloadUnchecked ==
  /\ phase = "sending"
  /\ step = "payload"
  /\ \/ /\ Written(Data(Current, 1))
        /\ IF options.waitForAck THEN step' = "ack" /\ UNCHANGED <<session, phase>>
                                 ELSE Return(TRUE)
     \/ WriteFailed(Data(Current, 1)) /\ Return(TRUE)
  /\ elapsed' = 0
  /\ UNCHANGED <<in, head, body, air, delivered>>

WritePayload ==
  /\ phase = "sending"
  /\ step = "payload"
  /\ \/ /\ Written(Data(Current, 1))
        /\ IF options.waitForAck THEN step' = "ack" /\ UNCHANGED <<session, phase>>
                                 ELSE Return(TRUE)
     \/ WriteFailed(Data(Current, 1)) /\ Return(FALSE)
  /\ elapsed' = 0
  /\ UNCHANGED <<in, head, body, air, delivered>>

(* waitForSnifferAck: one bulk IN transfer, of at most 100 ms *)
Minimum(a, b) == IF a < b THEN a ELSE b

timeout == Minimum(Minimum(timeoutMs, 100), ACK_WAIT_TIMEOUT_MS - elapsed)

Polling ==
  /\ phase = "sending"
  /\ step = "ack"
  /\ elapsed < ACK_WAIT_TIMEOUT_MS

PollTimeout ==
  /\ Polling
  /\ in = <<>>
  /\ elapsed' = elapsed + timeout
  /\ UNCHANGED <<relay, session, phase, step>>

(* Mutant of PollPacket: only the ACK is charged to the window. *)
FreePacket ==
  /\ Polling
  /\ in # <<>>
  /\ in' = Tail(in)
  /\ IF Head(in) = Ack THEN elapsed' = elapsed + timeout /\ Return(TRUE)
                         ELSE UNCHANGED <<session, phase, step, elapsed>>
  /\ UNCHANGED <<out, head, body, air, delivered>>

PollPacket ==
  /\ Polling
  /\ in # <<>>
  /\ in' = Tail(in)
  /\ elapsed' = elapsed + timeout
  /\ IF Head(in) = Ack THEN Return(TRUE) ELSE UNCHANGED <<session, phase, step>>
  /\ UNCHANGED <<out, head, body, air, delivered>>

PollError ==
  /\ Polling
  /\ Return(FALSE)
  /\ elapsed' = elapsed + timeout
  /\ UNCHANGED relay

GiveUp ==
  /\ phase = "sending"
  /\ step = "ack"
  /\ elapsed >= ACK_WAIT_TIMEOUT_MS
  /\ Return(FALSE)
  /\ UNCHANGED <<relay, elapsed>>

Sending == \/ DrySend \/ WriteMeta \/ WritePayload
           \/ PollTimeout \/ PollPacket \/ PollError \/ GiveUp

Host == Open \/ UnknownCommand \/ Cleanup \/ Sending

(* The operator types commands, or leaves. *)
Operator == EnterCommand \/ Quit
=============================================================================
