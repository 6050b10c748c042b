------------------------------ MODULE GroundOta -----------------------------
(***************************************************************************)
(* The OTA broadcaster (ground_ota.c): it reads the image, has the         *)
(* operator confirm, claims the relay's USB interface and sends the rounds *)
(* of START, the DATA chunks and END, each several times: per transmission *)
(* a metadata packet, the payload packets and a bounded wait for the       *)
(* relay's local TX ACK.  The first failure ends the broadcast.            *)
(***************************************************************************)
EXTENDS OtaImage, RelayLink

CONSTANTS
  LOCAL_TX_ACK_TIMEOUT_MS,   \* 1500 in the code
  timeoutMs                  \* --timeout-ms, 1000 by default

ASSUME TimeoutAssumption ==
  /\ LOCAL_TX_ACK_TIMEOUT_MS \in Nat \ {0}
  /\ timeoutMs \in Nat \ {0}

VARIABLES
  options,    \* the flags that change what is done
  phase,      \* where main and broadcastImage are
  held,       \* what cleanup has to give back
  index,      \* round or chunkIndex
  repeat,     \* repetitions of the current message that were sent
  sequence,   \* number of the current transmission, 16 bits
  step,       \* in sendOtaPayload: "meta", "payload", "ack"
  part,       \* payload packets written
  elapsed,    \* waitForLocalTxAck's account of its time, in ms
  result      \* the exit status

place == <<phase, index, repeat, sequence>>
main  == <<options, held, result>>
vars  == <<relay, main, place, step, part, elapsed>>

(* filePath: whether the command line names the image *)
Options == [waitForLocalAck : BOOLEAN, dryRun : BOOLEAN, assumeYes : BOOLEAN,
            filePath : BOOLEAN]
Sending == {"START", "DATA", "END"}

Init ==
  /\ RelayInit
  /\ options \in Options
  /\ phase = IF options.filePath THEN "image" ELSE "path"
  /\ held = {}
  /\ index = 0
  /\ repeat = 0
  /\ sequence = 1
  /\ step = "meta"
  /\ part = 0
  /\ elapsed = 0
  /\ result = "EXIT_FAILURE"

(* What the current pass of the loops sends, and how many of them there are. *)
Current == [sequence |-> sequence, kind |-> phase,
            index |-> IF phase = "DATA" THEN index ELSE 0]
Passes(p) == CASE p = "START" -> startRounds [] p = "DATA" -> totalChunks [] p = "END" -> 1
After(p)  == CASE p = "START" -> "DATA" [] p = "DATA" -> "END" [] p = "END" -> "cleanup"

-----------------------------------------------------------------------------
(* main *)

Fail ==
  /\ phase' = "cleanup"
  /\ UNCHANGED <<index, repeat, sequence>>

(* promptForPath: without a line, or with an empty one, main returns at once *)
PromptForPath ==
  /\ phase = "path"
  /\ phase' \in {"image", "exit"}
  /\ UNCHANGED <<relay, main, index, repeat, sequence, step, part, elapsed>>

ReadImage ==
  /\ phase = "image"
  /\ \/ Fail
     \/ /\ phase' = IF options.assumeYes \/ options.dryRun THEN "open" ELSE "confirm"
        /\ UNCHANGED <<index, repeat, sequence>>
  /\ UNCHANGED <<relay, main, step, part, elapsed>>

(* confirmReceiverReady *)
Confirm ==
  /\ phase = "confirm"
  /\ \/ Fail
     \/ phase' = "open" /\ UNCHANGED <<index, repeat, sequence>>
  /\ UNCHANGED <<relay, main, step, part, elapsed>>

(* libusb_init, openCrazyflie and prepareUsbInterface, each of which may fail *)
Open ==
  /\ phase = "open"
  /\ IF options.dryRun
       THEN phase' = "START" /\ UNCHANGED held
       ELSE \/ /\ held' \in {{}, {"context"}, {"context", "handle"}}
               /\ phase' = "cleanup"
            \/ /\ held' = {"context", "handle", "interface"}
               /\ phase' = "START"
  /\ UNCHANGED <<relay, options, result, index, repeat, sequence, step, part, elapsed>>

Cleanup ==
  /\ phase = "cleanup"
  /\ phase' = "exit"
  /\ held' = {}
  /\ UNCHANGED <<relay, options, result, index, repeat, sequence, step, part, elapsed>>

-----------------------------------------------------------------------------
(* sendRepeated and the loops of broadcastImage, after a transmission *)

(* Mutant of SentOne: the loops run one pass too far. *)
OnePassMore ==
  LET lastRepeat == repeat + 1 = PACKET_REPEAT_COUNT
      lastPass   == lastRepeat /\ index = Passes(phase)
  IN /\ sequence' = (sequence + 1) % 65536
     /\ repeat' = IF lastRepeat THEN 0 ELSE repeat + 1
     /\ index' = IF lastPass THEN 0 ELSE IF lastRepeat THEN index + 1 ELSE index
     /\ phase' = IF lastPass THEN After(phase) ELSE phase
     /\ step' = "meta"
     /\ result' = IF phase' = "cleanup" THEN "EXIT_SUCCESS" ELSE result
     /\ UNCHANGED <<options, held>>

(* Mutant of SentOne: the repetitions of a message share its number. *)
SameNumber ==
  LET lastRepeat == repeat + 1 = PACKET_REPEAT_COUNT
      lastPass   == lastRepeat /\ index + 1 = Passes(phase)
  IN /\ sequence' = IF lastRepeat THEN (sequence + 1) % 65536 ELSE sequence
     /\ repeat' = IF lastRepeat THEN 0 ELSE repeat + 1
     /\ index' = IF lastPass THEN 0 ELSE IF lastRepeat THEN index + 1 ELSE index
     /\ phase' = IF lastPass THEN After(phase) ELSE phase
     /\ step' = "meta"
     /\ result' = IF phase' = "cleanup" THEN "EXIT_SUCCESS" ELSE result
     /\ UNCHANGED <<options, held>>

SentOne ==
  LET lastRepeat == repeat + 1 = PACKET_REPEAT_COUNT
      lastPass   == lastRepeat /\ index + 1 = Passes(phase)
  IN /\ sequence' = (sequence + 1) % 65536
     /\ repeat' = IF lastRepeat THEN 0 ELSE repeat + 1
     /\ index' = IF lastPass THEN 0 ELSE IF lastRepeat THEN index + 1 ELSE index
     /\ phase' = IF lastPass THEN After(phase) ELSE phase
     /\ step' = "meta"
     /\ result' = IF phase' = "cleanup" THEN "EXIT_SUCCESS" ELSE result
     /\ UNCHANGED <<options, held>>

Abort == Fail /\ UNCHANGED <<main, step>>

-----------------------------------------------------------------------------
(* sendOtaPayload *)

DrySend ==
  /\ phase \in Sending
  /\ options.dryRun
  /\ SentOne
  /\ UNCHANGED <<relay, part, elapsed>>

WriteMeta ==
  /\ phase \in Sending /\ ~options.dryRun
  /\ step = "meta"
  /\ LET packet == Meta(Current, Packets(phase, index))
     IN \/ Written(packet) /\ step' = "payload" /\ UNCHANGED <<main, place>>
        \/ WriteFailed(packet) /\ Abort
  /\ part' = 0
  /\ UNCHANGED <<in, head, body, air, delivered, elapsed>>

WritePayload ==
  /\ phase \in Sending
  /\ step = "payload"
  /\ LET packet == Data(Current, part + 1)
         lastPart == part + 1 = Packets(phase, index)
     IN \/ /\ Written(packet)
           /\ part' = part + 1
           /\ CASE ~lastPart -> UNCHANGED <<main, place, step>>
                [] lastPart /\ options.waitForLocalAck ->
                     step' = "ack" /\ UNCHANGED <<main, place>>
                [] lastPart /\ ~options.waitForLocalAck -> SentOne
        \/ WriteFailed(packet) /\ Abort /\ UNCHANGED part
  /\ elapsed' = 0
  /\ UNCHANGED <<in, head, body, air, delivered>>

(* waitForLocalTxAck: one bulk IN transfer, of at most 100 ms *)
Minimum(a, b) == IF a < b THEN a ELSE b

timeout == Minimum(Minimum(timeoutMs, 100), LOCAL_TX_ACK_TIMEOUT_MS - elapsed)

Polling ==
  /\ phase \in Sending
  /\ step = "ack"
  /\ elapsed < LOCAL_TX_ACK_TIMEOUT_MS

PollTimeout ==
  /\ Polling
  /\ in = <<>>
  /\ elapsed' = elapsed + timeout
  /\ UNCHANGED <<relay, main, place, step, part>>

(* Mutant of PollPacket: any packet counts as the ACK. *)
AnyPacket ==
  /\ Polling
  /\ in # <<>>
  /\ in' = Tail(in)
  /\ elapsed' = elapsed + timeout
  /\ SentOne
  /\ UNCHANGED <<out, head, body, air, delivered, part>>

(* Mutant of PollPacket: only the ACK is charged to the window. *)
FreePacket ==
  /\ Polling
  /\ in # <<>>
  /\ in' = Tail(in)
  /\ IF Head(in) = Ack THEN elapsed' = elapsed + timeout /\ SentOne
                         ELSE UNCHANGED <<main, place, step, elapsed>>
  /\ UNCHANGED <<out, head, body, air, delivered, part>>

(* A packet that is there is read at once, and costs a whole timeout. *)
PollPacket ==
  /\ Polling
  /\ in # <<>>
  /\ in' = Tail(in)
  /\ elapsed' = elapsed + timeout
  /\ IF Head(in) = Ack THEN SentOne ELSE UNCHANGED <<main, place, step>>
  /\ UNCHANGED <<out, head, body, air, delivered, part>>

PollError ==
  /\ Polling
  /\ Abort
  /\ elapsed' = elapsed + timeout
  /\ UNCHANGED <<relay, part>>

(* Mutant of GiveUp: a missing ACK does not end the broadcast. *)
GoOn ==
  /\ phase \in Sending
  /\ step = "ack"
  /\ elapsed >= LOCAL_TX_ACK_TIMEOUT_MS
  /\ SentOne
  /\ UNCHANGED <<relay, part, elapsed>>

GiveUp ==
  /\ phase \in Sending
  /\ step = "ack"
  /\ elapsed >= LOCAL_TX_ACK_TIMEOUT_MS
  /\ Abort
  /\ UNCHANGED <<relay, part, elapsed>>

Send == DrySend \/ WriteMeta \/ WritePayload
Poll == PollTimeout \/ PollPacket \/ PollError \/ GiveUp
Host == ReadImage \/ Open \/ Send \/ Poll \/ Cleanup

(* At either prompt the program stands until somebody answers. *)
Operator == PromptForPath \/ Confirm

Next ==
  \/ Host
  \/ Operator
  \/ /\ TakePacket \/ Transmit \/ Sniff(Piece(1, 1))
     /\ UNCHANGED <<main, place, step, part, elapsed>>

Spec == Init /\ [][Next]_vars
-----------------------------------------------------------------------------
(* Properties *)

(* Every variable keeps to its type; the sequence number stays within the  *)
(* schedule, far from its 16 bits (broadcastImage).                        *)
OtaTypeOK ==
  /\ options \in Options
  /\ phase \in Sending \cup {"path", "image", "confirm", "open", "cleanup", "exit"}
  /\ held \subseteq {"context", "handle", "interface"}
  /\ result \in {"EXIT_FAILURE", "EXIT_SUCCESS"}
  /\ phase \in Sending => /\ index \in 0..(Passes(phase) - 1)
                          /\ repeat \in 0..(PACKET_REPEAT_COUNT - 1)
                          /\ step \in {"meta", "payload", "ack"}
                          /\ step # "meta" => part \in 0..Packets(phase, index)
  /\ sequence \in 1..((startRounds + totalChunks + 1) * PACKET_REPEAT_COUNT + 1)
  /\ elapsed \in 0..LOCAL_TX_ACK_TIMEOUT_MS

Plan == INSTANCE OtaPlan WITH
          Rounds <- startRounds, Chunks <- totalChunks,
          Repeats <- PACKET_REPEAT_COUNT, sent <- delivered

(* What reaches the air whole is the schedule of OtaPlan in its order,     *)
(* whatever packets earlier runs left in the relay and whichever transfer  *)
(* fails (broadcastImage, sendRepeated, sendOtaPayload).                   *)
ImplementsPlan == Plan!Spec

(* With waitForLocalAck the host is never ahead of the relay by more than  *)
(* the ACKs that earlier runs left unread (waitForLocalTxAck).             *)
NeverAhead ==
  options.waitForLocalAck /\ ~options.dryRun =>
    sequence - 1 <= Len(air) + StaleAcks

(* A broadcast that reports success under waitForLocalAck has the whole    *)
(* schedule on the air, but for one transmission per ACK an earlier run    *)
(* left unread and those the relay swallowed as the rest of an old message *)
(* (broadcastImage's return value).                                        *)
SuccessMeansDelivered ==
  result = "EXIT_SUCCESS" /\ options.waitForLocalAck /\ ~options.dryRun =>
    Plan!Total - Len(delivered) <= StaleAcks + (IF StaleParts > 0 THEN 1 ELSE 0)
=============================================================================
