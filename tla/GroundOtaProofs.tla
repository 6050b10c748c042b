--------------------------- MODULE GroundOtaProofs --------------------------
(***************************************************************************)
(* Facts about the OTA broadcaster for every image size up to the limit,   *)
(* every state of the relay and every timeout: the chunks partition the    *)
(* image, the 16-bit sequence number follows the loops without ever        *)
(* wrapping, what goes on the air is the schedule, and the ACKs say how    *)
(* much of it does; and what the flasher prints is that schedule, too.     *)
(***************************************************************************)
EXTENDS OtaTools, RelayLinkProofs, WellFoundedInduction

(* Rounds and chunks are few: 16 bits suffice for the sequence number. *)
LEMMA Counts ==
  /\ startRounds \in 1..40
  /\ totalChunks \in 1..1171
<1>1. totalChunks \in 1..1171
  <2>1. ImageSize \in Nat /\ 1 <= ImageSize /\ ImageSize <= 262112
    BY ImageAssumption, SMT DEF FIRMWARE_IMAGE_SIZE_MAX
  <2>2. totalChunks = (ImageSize + 223) \div 224
    BY <2>1, SMT DEF totalChunks, CeilDiv, OTA_DATA_PAYLOAD_MAX
  <2>3. /\ totalChunks \in Nat
        /\ totalChunks * 224 <= ImageSize + 223
        /\ ImageSize + 223 < totalChunks * 224 + 224
    BY <2>1, <2>2, SMT
  <2> QED BY <2>1, <2>3, SMT
<1>2. ASSUME NEW d \in {250, 253, 256}, startRounds = (START_ANNOUNCE_DURATION_MS + d - 1) \div d
      PROVE  startRounds \in 1..40
  <2> DEFINE n == START_ANNOUNCE_DURATION_MS
  <2>1. n \in Nat /\ 1 <= n /\ n <= 10000
    BY ImageAssumption, SMT
  <2>2. CASE d = 250
    <3>1. /\ startRounds \in Nat
          /\ startRounds * 250 <= n + 249
          /\ n + 249 < startRounds * 250 + 250
      BY <1>2, <2>1, <2>2, SMT
    <3> QED BY <2>1, <3>1, SMT
  <2>3. CASE d = 253
    <3>1. /\ startRounds \in Nat
          /\ startRounds * 253 <= n + 252
          /\ n + 252 < startRounds * 253 + 253
      BY <1>2, <2>1, <2>3, SMT
    <3> QED BY <2>1, <3>1, SMT
  <2>4. CASE d = 256
    <3>1. /\ startRounds \in Nat
          /\ startRounds * 256 <= n + 255
          /\ n + 255 < startRounds * 256 + 256
      BY <1>2, <2>1, <2>4, SMT
    <3> QED BY <2>1, <3>1, SMT
  <2> QED BY <1>2, <2>2, <2>3, <2>4, SMT
<1>3. startRoundDurationMs \in {250, 253, 256}
  BY ImageAssumption, SMT DEF startRoundDurationMs, PACKET_REPEAT_INTERVAL_MS, START_ROUND_INTERVAL_MS
<1>4. startRounds = (START_ANNOUNCE_DURATION_MS + startRoundDurationMs - 1) \div startRoundDurationMs
  BY SMT DEF startRounds, CeilDiv
<1> QED BY <1>1, <1>2, <1>3, <1>4, SMT

(* broadcastImage cuts the image into chunks without a gap or an overlap:  *)
(* the first starts at 0, each starts where the one before it ends, none   *)
(* is empty or larger than a message may carry, and the last ends at the   *)
(* last byte of the image.                                                 *)
THEOREM ChunksPartitionImage ==
  /\ Offset(0) = 0
  /\ \A c \in 0..(totalChunks - 1) :
       /\ chunkLength(c) \in 1..OTA_DATA_PAYLOAD_MAX
       /\ c < totalChunks - 1 => Offset(c + 1) = Offset(c) + chunkLength(c)
       /\ c = totalChunks - 1 => Offset(c) + chunkLength(c) = ImageSize
<1>1. Offset(0) = 0
  BY DEF Offset, OTA_DATA_PAYLOAD_MAX
<1>2. ASSUME NEW c \in 0..(totalChunks - 1)
      PROVE  /\ chunkLength(c) \in 1..OTA_DATA_PAYLOAD_MAX
             /\ c < totalChunks - 1 => Offset(c + 1) = Offset(c) + chunkLength(c)
             /\ c = totalChunks - 1 => Offset(c) + chunkLength(c) = ImageSize
  <2>1. /\ c \in Nat /\ ImageSize \in Nat
        /\ totalChunks = (ImageSize + 223) \div 224
        /\ c + 1 <= totalChunks
    BY <1>2, Counts, ImageAssumption DEF totalChunks, CeilDiv, OTA_DATA_PAYLOAD_MAX
  <2>2. /\ totalChunks * 224 >= ImageSize
        /\ (totalChunks - 1) * 224 < ImageSize
    BY <2>1
  <2>3. /\ chunkLength(c) = IF ImageSize - c * 224 > 224 THEN 224 ELSE ImageSize - c * 224
        /\ Offset(c) = c * 224
        /\ Offset(c + 1) = (c + 1) * 224
    BY DEF chunkLength, Offset, OTA_DATA_PAYLOAD_MAX
  <2> QED BY <1>2, <2>1, <2>2, <2>3, Counts DEF OTA_DATA_PAYLOAD_MAX
<1> QED BY <1>1, <1>2
-----------------------------------------------------------------------------
(* The inductive invariant: the sequence number is the position in the     *)
(* loops, and a payload packet is only written while one is left.          *)

Base(p) == CASE p = "START" -> 0 [] p = "DATA" -> startRounds
             [] p = "END" -> startRounds + totalChunks

Before == {"path", "image", "confirm", "open"}
Behind == {"cleanup", "exit"}

Position ==
  /\ phase \in Sending \cup Before \cup Behind
  /\ index \in Nat /\ repeat \in Nat /\ sequence \in Nat
  /\ phase \in Before => sequence = 1 /\ index = 0 /\ repeat = 0 /\ step = "meta"
  /\ phase \in Sending =>
       /\ index < Passes(phase)
       /\ repeat < PACKET_REPEAT_COUNT
       /\ sequence = (Base(phase) + index) * PACKET_REPEAT_COUNT + repeat + 1
  /\ 1 <= sequence
  /\ sequence <= (startRounds + totalChunks + 1) * PACKET_REPEAT_COUNT + 1

Progress ==
  /\ step \in {"meta", "payload", "ack"}
  /\ phase \in Sending /\ step # "meta" =>
       /\ part \in Nat
       /\ part <= Packets(phase, index)
       /\ step = "payload" => part < Packets(phase, index)

Clock ==
  /\ elapsed \in Nat /\ elapsed <= LOCAL_TX_ACK_TIMEOUT_MS

Flags ==
  /\ options \in Options
  /\ held \subseteq {"context", "handle", "interface"}
  /\ result \in {"EXIT_FAILURE", "EXIT_SUCCESS"}

IInv == Position /\ Progress /\ Clock /\ Flags

(* The bounds of the loops do not change. *)
LEMMA Rigid ==
  /\ startRounds' = startRounds /\ totalChunks' = totalChunks
  /\ Sending' = Sending /\ Before' = Before /\ Behind' = Behind
  /\ (Passes(phase))' = Passes(phase') /\ (Base(phase))' = Base(phase')
BY DEF startRounds, totalChunks, CeilDiv, startRoundDurationMs, PACKET_REPEAT_INTERVAL_MS,
       START_ROUND_INTERVAL_MS, OTA_DATA_PAYLOAD_MAX, Sending, Before, Behind, Passes, Base

LEMMA PacketsPositive ==
  ASSUME NEW p \in Sending, NEW i \in Nat, i < Passes(p)
  PROVE  Packets(p, i) \in Nat /\ Packets(p, i) >= 1
<1>1. messageLength(p, i) \in Nat /\ messageLength(p, i) >= 1
  <2>1. CASE p = "DATA"
    <3>1. i \in 0..(totalChunks - 1)
      BY <2>1, Counts DEF Passes
    <3>2. chunkLength(i) \in 1..OTA_DATA_PAYLOAD_MAX
      BY <3>1, ChunksPartitionImage
    <3> QED BY <2>1, <3>2, SMT DEF messageLength, OTA_HEADER_SIZE, OTA_DATA_PAYLOAD_MAX
  <2>2. CASE p \in {"START", "END"}
    BY <2>2 DEF messageLength, OTA_HEADER_SIZE, OTA_START_INFO_SIZE
  <2> QED BY <2>1, <2>2 DEF Sending
<1> QED BY <1>1, SMT DEF Packets, CeilDiv, CF_USB_PACKET_SIZE

(* After each transmission the sequence number is again the position in    *)
(* the loops.                                                              *)
LEMMA SentOneAdvances ==
  ASSUME Position, Flags, phase \in Sending, SentOne
  PROVE  Position' /\ Flags' /\ step' = "meta"
<1> DEFINE R == PACKET_REPEAT_COUNT
           lastRepeat == repeat + 1 = R
           lastPass == lastRepeat /\ index + 1 = Passes(phase)
<1>1. /\ startRounds \in Nat /\ 1 <= startRounds /\ startRounds <= 40
      /\ totalChunks \in Nat /\ 1 <= totalChunks /\ totalChunks <= 1171
  BY Counts, SMT
<1>2. R \in {1, 2, 3}
  BY ImageAssumption, SMT
<1>3. /\ index \in Nat /\ repeat \in Nat /\ sequence \in Nat
      /\ index < Passes(phase) /\ repeat < R
      /\ sequence = (Base(phase) + index) * R + repeat + 1
      /\ sequence <= (startRounds + totalChunks + 1) * R + 1
  BY DEF Position
<1>4. /\ Base(phase) \in Nat /\ Passes(phase) \in Nat
      /\ Base(phase) + Passes(phase) <= startRounds + totalChunks + 1
      /\ \/ After(phase) \in Sending /\ Base(After(phase)) = Base(phase) + Passes(phase)
                                     /\ Passes(After(phase)) >= 1
         \/ After(phase) = "cleanup"
  BY <1>1, SMT DEF Sending, Base, Passes, After
<1>5. sequence' = sequence + 1
  <2>1. sequence + 1 < 65536
    BY <1>1, <1>2, <1>3, SMT
  <2>2. sequence' = (sequence + 1) % 65536
    BY DEF SentOne
  <2> QED BY <1>3, <2>1, <2>2, SMT
<1>6. /\ repeat' = IF lastRepeat THEN 0 ELSE repeat + 1
      /\ index' = IF lastPass THEN 0 ELSE IF lastRepeat THEN index + 1 ELSE index
      /\ phase' = IF lastPass THEN After(phase) ELSE phase
      /\ step' = "meta"
      /\ result' = IF phase' = "cleanup" THEN "EXIT_SUCCESS" ELSE result
      /\ UNCHANGED <<options, held>>
  BY DEF SentOne
<1>7. ASSUME lastPass PROVE Position'
  <2>1. sequence' = (Base(phase) + Passes(phase)) * R + 1
    BY <1>2, <1>3, <1>4, <1>5, <1>7, SMT
  <2>2. sequence' >= 1 /\ sequence' <= (startRounds + totalChunks + 1) * R + 1
    BY <1>1, <1>2, <1>3, <1>4, <1>5, <2>1, SMT
  <2>3. phase' = After(phase) /\ index' = 0 /\ repeat' = 0 /\ sequence' \in Nat
    BY <1>3, <1>5, <1>6, <1>7
  <2>4. CASE phase' \in Sending
    <3>1. /\ index' < Passes(phase') /\ repeat' < R
          /\ sequence' = (Base(phase') + index') * R + repeat' + 1
      <4>1. Base(phase') = Base(phase) + Passes(phase) /\ Passes(phase') >= 1
        BY <1>4, <2>3, <2>4, SMT DEF Base, Passes, Sending
      <4>2. Passes(phase') \in Nat
        BY <1>1, <2>4, SMT DEF Passes, Sending
      <4>3. Base(phase') + index' = Base(phase) + Passes(phase)
        BY <1>4, <2>3, <4>1, SMT
      <4> QED BY <1>2, <1>4, <2>1, <2>3, <4>1, <4>2, <4>3, SMT
    <3>2. phase' \in Sending \cup Before \cup Behind /\ phase' \notin Before
      BY <2>4, SMT DEF Sending, Before, Behind
    <3> QED BY <2>2, <2>3, <2>4, <3>1, <3>2, Rigid, SMT DEF Position
  <2>5. CASE phase' = "cleanup"
    <3>1. phase' \in Behind /\ phase' \notin Sending /\ phase' \notin Before
      BY <2>5, SMT DEF Sending, Before, Behind
    <3> QED BY <2>2, <2>3, <3>1, Rigid, SMT DEF Position
  <2> QED BY <1>4, <2>3, <2>4, <2>5
<1>8. ASSUME ~lastPass PROVE Position'
  <2>1. phase' = phase /\ index' \in Nat /\ repeat' \in Nat /\ sequence' \in Nat
    BY <1>3, <1>5, <1>6, <1>8
  <2>2. index' < Passes(phase) /\ repeat' < R
    <3>1. CASE lastRepeat
      <4>1. index' = index + 1 /\ repeat' = 0 /\ index + 1 # Passes(phase)
        BY <1>6, <1>8, <3>1
      <4> QED BY <1>2, <1>3, <1>4, <4>1, SMT
    <3>2. CASE ~lastRepeat
      <4>1. index' = index /\ repeat' = repeat + 1 /\ repeat + 1 # R
        BY <1>6, <1>8, <3>2
      <4> QED BY <1>2, <1>3, <1>4, <4>1, SMT
    <3> QED BY <3>1, <3>2
  <2>3. sequence' = (Base(phase) + index') * R + repeat' + 1
    <3>1. CASE lastRepeat
      <4>1. index' = index + 1 /\ repeat' = 0
        BY <1>6, <1>8, <3>1
      <4>2. sequence' = (Base(phase) + index) * R + R + 1
        BY <1>2, <1>3, <1>4, <1>5, <3>1, SMT
      <4> QED BY <1>2, <1>3, <1>4, <4>1, <4>2, SMT
    <3>2. CASE ~lastRepeat
      <4>1. index' = index /\ repeat' = repeat + 1
        BY <1>6, <1>8, <3>2
      <4>2. sequence' = (Base(phase) + index) * R + (repeat + 1) + 1
        BY <1>2, <1>3, <1>4, <1>5, SMT
      <4> QED BY <4>1, <4>2
    <3> QED BY <3>1, <3>2
  <2>4. sequence' >= 1 /\ sequence' <= (startRounds + totalChunks + 1) * R + 1
    BY <1>1, <1>2, <1>3, <1>4, <2>1, <2>2, <2>3, SMT
  <2>5. Passes(phase') = Passes(phase) /\ Base(phase') = Base(phase)
    BY <2>1 DEF Passes, Base
  <2>6. phase' \in Sending \cup Before \cup Behind /\ phase' \notin Before
    BY <2>1, SMT DEF Sending, Before, Behind
  <2> QED BY <2>1, <2>2, <2>3, <2>4, <2>5, <2>6, Rigid, SMT DEF Position
<1>9. Flags'
  BY <1>6 DEF Flags
<1> QED BY <1>6, <1>7, <1>8, <1>9

LEMMA AbortKeeps ==
  ASSUME Position, Flags, Abort
  PROVE  Position' /\ Flags' /\ phase' = "cleanup" /\ step' = step
<1>1. phase' = "cleanup" /\ UNCHANGED <<index, repeat, sequence, options, held, result, step>>
  BY DEF Abort, Fail, main
<1>2. phase' \in Behind /\ phase' \notin Sending /\ phase' \notin Before
  BY <1>1, SMT DEF Sending, Before, Behind
<1>3. Position'
  BY <1>1, <1>2, Rigid, SMT DEF Position
<1> QED BY <1>1, <1>3 DEF Flags

LEMMA StayKeeps ==
  ASSUME Position, Flags, UNCHANGED <<main, place>>, phase \in Before => step' = step
  PROVE  Position' /\ Flags'
<1>1. UNCHANGED <<phase, index, repeat, sequence, options, held, result>>
  BY DEF main, place
<1>2. Position'
  BY <1>1, Rigid, SMT DEF Position
<1> QED BY <1>1, <1>2 DEF Flags

(* A poll never runs past the window. *)
LEMMA TimeoutFits ==
  ASSUME elapsed \in Nat, elapsed < LOCAL_TX_ACK_TIMEOUT_MS
  PROVE  timeout \in Nat /\ elapsed + timeout <= LOCAL_TX_ACK_TIMEOUT_MS
BY TimeoutAssumption, SMT DEF timeout, Minimum

LEMMA SendingNotBefore ==
  ASSUME phase \in Sending
  PROVE  phase \notin Before /\ phase # "cleanup"
BY SMT DEF Sending, Before

LEMMA ProgressAtMeta ==
  ASSUME step' = "meta" PROVE Progress'
BY DEF Progress

LEMMA ProgressOver ==
  ASSUME Progress, step' = step, phase' = "cleanup" PROVE Progress'
BY SMT DEF Progress, Sending

LEMMA InitIInv == Init => IInv
<1> SUFFICES ASSUME Init PROVE IInv OBVIOUS
<1>1. /\ startRounds \in Nat /\ totalChunks \in Nat /\ PACKET_REPEAT_COUNT \in {1, 2, 3}
  BY Counts, ImageAssumption, SMT
<1>2. 1 <= (startRounds + totalChunks + 1) * PACKET_REPEAT_COUNT + 1
  BY <1>1, SMT
<1>3. phase \in Before /\ phase \notin Sending
  BY SMT DEF Init, Before, Sending
<1>4. Position
  BY <1>2, <1>3, SMT DEF Init, Position
<1>5. Progress
  BY <1>3 DEF Init, Progress
<1>6. Clock
  BY TimeoutAssumption, SMT DEF Init, Clock
<1>7. Flags
  BY DEF Init, Flags
<1> QED BY <1>4, <1>5, <1>6, <1>7 DEF IInv

LEMMA NextIInv == IInv /\ [Next]_vars => IInv'
<1> SUFFICES ASSUME Position, Progress, Clock, Flags, [Next]_vars
             PROVE  Position' /\ Progress' /\ Clock' /\ Flags'
  BY DEF IInv
<1>1. CASE ReadImage \/ Operator
  <2>1. UNCHANGED <<main, step, part, elapsed, index, repeat, sequence>>
    BY <1>1 DEF ReadImage, Operator, PromptForPath, Confirm, Fail
  <2>2. phase \in Before /\ phase' \in {"image", "confirm", "open", "cleanup", "exit"}
    BY <1>1, SMT DEF ReadImage, Operator, PromptForPath, Confirm, Fail, Before
  <2>3. phase' \in Before \cup Behind /\ phase' \notin Sending
    BY <2>2, SMT DEF Before, Behind, Sending
  <2>4. Position'
    BY <2>1, <2>2, <2>3, Rigid, SMT DEF Position
  <2>5. Progress'
    BY <2>1, <2>3, Rigid DEF Progress
  <2> QED BY <2>1, <2>4, <2>5 DEF Clock, Flags, main
<1>2. CASE Open
  <2>1. UNCHANGED <<options, result, step, part, elapsed, index, repeat, sequence>>
    BY <1>2 DEF Open
  <2>2. phase = "open" /\ phase' \in {"cleanup", "START"}
    BY <1>2, SMT DEF Open
  <2>3. /\ phase \in Before
        /\ phase' \notin Before
        /\ phase' \in Sending \cup Behind
    BY <2>2, SMT DEF Before, Behind, Sending
  <2>4. phase' \in Sending =>
          Base(phase') = 0 /\ Passes(phase') = startRounds
    BY <2>2, SMT DEF Sending, Base, Passes
  <2>5. 0 < startRounds /\ 0 < PACKET_REPEAT_COUNT /\ startRounds \in Nat
    BY Counts, ImageAssumption, SMT
  <2>6. sequence' = 1 /\ index' = 0 /\ repeat' = 0 /\ step' = "meta"
    BY <2>1, <2>3 DEF Position
  <2>7. 1 = (0 + 0) * PACKET_REPEAT_COUNT + 0 + 1
    BY ImageAssumption, SMT
  <2>8. /\ phase' \in Sending => /\ index' < Passes(phase')
                                 /\ repeat' < PACKET_REPEAT_COUNT
                                 /\ sequence' = (Base(phase') + index') * PACKET_REPEAT_COUNT + repeat' + 1
        /\ 1 <= sequence'
        /\ sequence' <= (startRounds + totalChunks + 1) * PACKET_REPEAT_COUNT + 1
    BY <2>1, <2>4, <2>5, <2>6, <2>7, SMT DEF Position
  <2>9. Position'
    BY <2>3, <2>6, <2>8, Rigid, SMT DEF Position
  <2>10. held' \subseteq {"context", "handle", "interface"}
    BY <1>2 DEF Open, Flags
  <2> QED BY <2>1, <2>6, <2>9, <2>10, ProgressAtMeta DEF Clock, Flags
<1>3. CASE Cleanup
  <2>1. UNCHANGED <<options, result, step, part, elapsed, index, repeat, sequence>>
    BY <1>3 DEF Cleanup
  <2>2. phase' = "exit" /\ held' = {}
    BY <1>3 DEF Cleanup
  <2>3. phase' \in Behind /\ phase' \notin Sending /\ phase' \notin Before
    BY <2>2, SMT DEF Before, Behind, Sending
  <2>4. Position'
    BY <2>1, <2>3, Rigid, SMT DEF Position
  <2>5. Progress'
    BY <2>1, <2>3, Rigid DEF Progress
  <2> QED BY <2>1, <2>2, <2>4, <2>5 DEF Clock, Flags
<1>4. CASE DrySend
  <2>1. phase \in Sending /\ SentOne /\ UNCHANGED elapsed
    BY <1>4 DEF DrySend
  <2> QED BY <2>1, SentOneAdvances, ProgressAtMeta DEF Clock
<1>5. CASE WriteMeta
  <2>1. phase \in Sending /\ step = "meta" /\ part' = 0 /\ UNCHANGED elapsed
    BY <1>5 DEF WriteMeta
  <2>2. Clock'
    BY <2>1 DEF Clock
  <2>3. CASE Abort
    BY <2>1, <2>2, <2>3, AbortKeeps, ProgressAtMeta
  <2>4. CASE step' = "payload" /\ UNCHANGED <<main, place>>
    <3>1. Position' /\ Flags'
      BY <2>1, <2>4, StayKeeps, SendingNotBefore
    <3>2. /\ index \in Nat /\ index < Passes(phase)
          /\ phase' = phase /\ index' = index
      BY <2>1, <2>4 DEF Position, place
    <3>3. Packets(phase, index) \in Nat /\ Packets(phase, index) >= 1
      BY <2>1, <3>2, PacketsPositive
    <3>4. (Packets(phase, index))' = Packets(phase, index)
      BY <3>2 DEF Packets, messageLength, chunkLength, Offset, CeilDiv
    <3>5. Progress'
      BY <2>1, <2>4, <3>3, <3>4, SMT DEF Progress
    <3> QED BY <2>2, <3>1, <3>5
  <2> QED BY <1>5, <2>3, <2>4 DEF WriteMeta
<1>6. CASE WritePayload
  <2>1. phase \in Sending /\ step = "payload" /\ elapsed' = 0
    BY <1>6 DEF WritePayload
  <2>2. Clock'
    BY <2>1, TimeoutAssumption, SMT DEF Clock
  <2>3. CASE Abort
    <3>1. Progress'
      BY <2>3, AbortKeeps, ProgressOver
    <3> QED BY <2>2, <2>3, <3>1, AbortKeeps
  <2>4. CASE SentOne
    BY <2>1, <2>2, <2>4, SentOneAdvances, ProgressAtMeta
  <2>5. CASE /\ UNCHANGED <<main, place>>
             /\ part' = part + 1
             /\ \/ step' = step /\ part + 1 # Packets(phase, index)
                \/ step' = "ack"
    <3>1. Position' /\ Flags'
      BY <2>1, <2>5, StayKeeps, SendingNotBefore
    <3>2. /\ index \in Nat /\ index < Passes(phase)
          /\ phase' = phase /\ index' = index
      BY <2>1, <2>5 DEF Position, place
    <3>3. Packets(phase, index) \in Nat
      BY <2>1, <3>2, PacketsPositive
    <3>4. (Packets(phase, index))' = Packets(phase, index)
      BY <3>2 DEF Packets, messageLength, chunkLength, Offset, CeilDiv
    <3>5. part \in Nat /\ part < Packets(phase, index)
      BY <2>1, SMT DEF Progress
    <3>6. Progress'
      BY <2>1, <2>5, <3>3, <3>4, <3>5, SMT DEF Progress
    <3> QED BY <2>2, <3>1, <3>6
  <2>6. \/ Abort
        \/ SentOne
        \/ /\ UNCHANGED <<main, place>>
           /\ part' = part + 1
           /\ \/ step' = step /\ part + 1 # Packets(phase, index)
              \/ step' = "ack"
    BY <1>6 DEF WritePayload
  <2> QED BY <2>3, <2>4, <2>5, <2>6
<1>7. CASE PollTimeout \/ PollPacket \/ PollError
  <2>1. phase \in Sending /\ elapsed' = elapsed + timeout /\ elapsed < LOCAL_TX_ACK_TIMEOUT_MS
    BY <1>7 DEF PollTimeout, PollPacket, PollError, Polling
  <2>2. part' = part
    BY <1>7 DEF PollTimeout, PollPacket, PollError
  <2>3. Clock'
    BY <2>1, <2>2, TimeoutFits, SMT DEF Clock
  <2>4. CASE SentOne
    BY <2>1, <2>3, <2>4, SentOneAdvances, ProgressAtMeta
  <2>5. CASE Abort
    <3>1. Progress'
      BY <2>5, AbortKeeps, ProgressOver
    <3> QED BY <2>3, <2>5, <3>1, AbortKeeps
  <2>6. CASE UNCHANGED <<main, place, step>>
    <3>1. Position' /\ Flags'
      BY <2>6, StayKeeps
    <3>2. phase' = phase /\ index' = index /\ step' = step
      BY <2>6 DEF place
    <3>3. (Packets(phase, index))' = Packets(phase, index)
      BY <3>2 DEF Packets, messageLength, chunkLength, Offset, CeilDiv
    <3>4. Progress'
      BY <2>2, <3>2, <3>3, Rigid DEF Progress
    <3> QED BY <2>3, <3>1, <3>4
  <2> QED BY <1>7, <2>4, <2>5, <2>6 DEF PollTimeout, PollPacket, PollError
<1>8. CASE GiveUp
  <2>1. Abort /\ UNCHANGED elapsed
    BY <1>8 DEF GiveUp
  <2>2. Progress'
    BY <2>1, AbortKeeps, ProgressOver
  <2> QED BY <2>1, <2>2, AbortKeeps DEF Clock
<1>9. CASE UNCHANGED <<main, place, step, part, elapsed>>
  <2>1. Position' /\ Flags'
    BY <1>9, StayKeeps
  <2>2. phase' = phase /\ index' = index
    BY <1>9 DEF place
  <2>3. (Packets(phase, index))' = Packets(phase, index)
    BY <2>2 DEF Packets, messageLength, chunkLength, Offset, CeilDiv
  <2>4. Progress'
    BY <1>9, <2>2, <2>3, Rigid DEF Progress
  <2> QED BY <1>9, <2>1, <2>4 DEF Clock
<1> QED BY <1>1, <1>2, <1>3, <1>4, <1>5, <1>6, <1>7, <1>8, <1>9
        DEF Next, Host, Operator, Send, Poll, vars

LEMMA IInvType == IInv => OtaTypeOK
<1> SUFFICES ASSUME IInv PROVE OtaTypeOK OBVIOUS
<1>1. /\ startRounds \in Nat /\ totalChunks \in Nat /\ PACKET_REPEAT_COUNT \in {1, 2, 3}
  BY Counts, ImageAssumption, SMT
<1>2. (startRounds + totalChunks + 1) * PACKET_REPEAT_COUNT + 1 \in Nat
  BY <1>1, SMT
<1>3. sequence \in 1..((startRounds + totalChunks + 1) * PACKET_REPEAT_COUNT + 1)
  BY <1>2, SMT DEF IInv, Position
<1>4. elapsed \in 0..LOCAL_TX_ACK_TIMEOUT_MS
  BY TimeoutAssumption, SMT DEF IInv, Clock
<1>5. phase \in Sending => index \in 0..(Passes(phase) - 1)
  BY <1>1, SMT DEF IInv, Position, Passes, Sending
<1>6. phase \in Sending => repeat \in 0..(PACKET_REPEAT_COUNT - 1)
  BY <1>1, SMT DEF IInv, Position
<1>7. phase \in Sending /\ step # "meta" => part \in 0..Packets(phase, index)
  BY PacketsPositive, SMT DEF IInv, Position, Progress
<1>8. phase \in Sending \cup {"path", "image", "confirm", "open", "cleanup", "exit"}
  BY DEF IInv, Position, Before, Behind
<1> QED BY <1>3, <1>4, <1>5, <1>6, <1>7, <1>8 DEF OtaTypeOK, IInv, Progress, Flags

(* For every image up to the limit and every behaviour of the relay, the   *)
(* loops keep within their bounds, no payload packet is written past the   *)
(* end of a message, and the 16-bit sequence number never wraps            *)
(* (broadcastImage, sendRepeated, writePayloadPackets).                    *)
THEOREM OtaTypeCorrect == Spec => []OtaTypeOK
<1>1. Init => IInv                   BY InitIInv
<1>2. IInv /\ [Next]_vars => IInv'   BY NextIInv
<1>3. IInv => OtaTypeOK              BY IInvType
<1> QED BY <1>1, <1>2, <1>3, PTL DEF Spec

-----------------------------------------------------------------------------
(* The messages of the schedule, their numbers, and the USB packets that   *)
(* carry each of them.                                                     *)

Messages == {Plan!Message(i) : i \in 1..Plan!Total}
numbers  == [m \in Messages |-> m.sequence]
Parts(m) == Packets(m.kind, m.index)

LEMMA TotalType ==
  /\ startRounds \in Nat /\ startRounds >= 1 /\ totalChunks \in Nat /\ totalChunks >= 1
  /\ PACKET_REPEAT_COUNT \in {1, 2, 3}
  /\ Plan!Total = (startRounds + totalChunks + 1) * PACKET_REPEAT_COUNT
  /\ Plan!Total \in Nat
<1>1. /\ startRounds \in Nat /\ startRounds >= 1 /\ totalChunks \in Nat /\ totalChunks >= 1
      /\ PACKET_REPEAT_COUNT \in {1, 2, 3}
  BY Counts, ImageAssumption, SMT
<1>2. Plan!Total = (startRounds + totalChunks + 1) * PACKET_REPEAT_COUNT
  BY DEF Plan!Total
<1> QED BY <1>1, <1>2, SMT

(* Message i is the one with the sequence number i. *)
LEMMA MessageFacts ==
  ASSUME NEW i \in 1..Plan!Total
  PROVE  /\ Plan!Message(i) \in Messages
         /\ Plan!Message(i).sequence = i
         /\ Plan!Message(i) # OldMessage
<1>1. Plan!Message(i).sequence = i
  BY DEF Plan!Message
<1>2. OldMessage.sequence = 0 /\ i # 0
  BY DEF OldMessage
<1> QED BY <1>1, <1>2 DEF Messages

LEMMA NumbersType ==
  /\ numbers \in [Messages -> Nat]
  /\ OldMessage \notin Messages
  /\ \A m \in Messages : /\ numbers[m] \in 1..Plan!Total
                         /\ m = Plan!Message(numbers[m])
<1>1. \A m \in Messages : numbers[m] \in 1..Plan!Total /\ m = Plan!Message(numbers[m])
  <2> SUFFICES ASSUME NEW m \in Messages
               PROVE  numbers[m] \in 1..Plan!Total /\ m = Plan!Message(numbers[m])
    OBVIOUS
  <2>1. PICK i \in 1..Plan!Total : m = Plan!Message(i)
    BY DEF Messages
  <2>2. m.sequence = i
    BY <2>1, MessageFacts
  <2> QED BY <2>1, <2>2 DEF numbers
<1>2. OldMessage \notin Messages
  BY MessageFacts DEF Messages
<1>3. \A m \in Messages : numbers[m] \in Nat
  BY <1>1
<1>4. numbers \in [Messages -> Nat]
  <2>1. numbers = [m \in Messages |-> numbers[m]]
    BY DEF numbers
  <2> QED BY <1>3, <2>1
<1> QED BY <1>1, <1>2, <1>4

(* A message has at least one packet. *)
LEMMA PartsType ==
  ASSUME NEW m \in Messages
  PROVE  Parts(m) \in Nat /\ Parts(m) >= 1
<1>1. PICK i \in 1..Plan!Total : m = Plan!Message(i)
  BY DEF Messages
<1> DEFINE n == (i - 1) \div PACKET_REPEAT_COUNT
<1>2. n \in Nat /\ n < startRounds + totalChunks + 1
  <2>1. i \in Nat /\ i >= 1 /\ i <= (startRounds + totalChunks + 1) * PACKET_REPEAT_COUNT
    BY TotalType
  <2>2. CASE PACKET_REPEAT_COUNT = 1
    BY <2>1, <2>2, TotalType
  <2>3. CASE PACKET_REPEAT_COUNT = 2
    BY <2>1, <2>3, TotalType
  <2>4. CASE PACKET_REPEAT_COUNT = 3
    BY <2>1, <2>4, TotalType
  <2> QED BY <2>2, <2>3, <2>4, TotalType
<1>3. /\ m.kind = CASE n < startRounds -> "START"
                    [] n \in startRounds..(startRounds + totalChunks - 1) -> "DATA"
                    [] OTHER -> "END"
      /\ m.index = IF n \in startRounds..(startRounds + totalChunks - 1) THEN n - startRounds ELSE 0
  BY <1>1 DEF Plan!Message
<1> HIDE DEF n
<1>4. CASE n < startRounds
  <2>1. m.kind = "START" /\ m.index = 0
    BY <1>2, <1>3, <1>4, TotalType
  <2> QED BY <2>1, TotalType, PacketsPositive DEF Parts, Passes, Sending
<1>5. CASE ~(n < startRounds) /\ n \in startRounds..(startRounds + totalChunks - 1)
  <2>1. m.kind = "DATA" /\ m.index = n - startRounds
    BY <1>3, <1>5
  <2>2. m.index \in Nat /\ m.index < totalChunks
    BY <1>2, <1>5, <2>1, TotalType
  <2> QED BY <2>1, <2>2, PacketsPositive DEF Parts, Passes, Sending
<1>6. CASE ~(n < startRounds) /\ n \notin startRounds..(startRounds + totalChunks - 1)
  <2>1. m.kind = "END" /\ m.index = 0
    BY <1>3, <1>6
  <2> QED BY <2>1, PacketsPositive DEF Parts, Passes, Sending
<1> QED BY <1>4, <1>5, <1>6

(* The loops send the message whose turn it is. *)
LEMMA CurrentMessage ==
  ASSUME Position, phase \in Sending
  PROVE  /\ sequence \in 1..Plan!Total
         /\ Current = Plan!Message(sequence)
         /\ Current \in Messages /\ numbers[Current] = sequence
         /\ Parts(Current) = Packets(phase, index)
<1> DEFINE R == PACKET_REPEAT_COUNT
           a == Base(phase) + index
<1>1. /\ index \in Nat /\ repeat \in Nat /\ sequence \in Nat
      /\ index < Passes(phase) /\ repeat < R
      /\ sequence = (Base(phase) + index) * R + repeat + 1
  BY DEF Position
<1>2. /\ a \in Nat /\ a < startRounds + totalChunks + 1
      /\ phase = "START" => a < startRounds /\ a = index
      /\ phase = "DATA" => startRounds <= a /\ a <= startRounds + totalChunks - 1 /\ index = a - startRounds
      /\ phase = "END" => a >= startRounds + totalChunks
  BY <1>1, TotalType DEF Sending, Base, Passes
<1>3. sequence = a * R + repeat + 1
  BY <1>1
<1> HIDE DEF a
<1>4. (sequence - 1) \div R = a /\ sequence >= 1 /\ sequence <= (startRounds + totalChunks + 1) * R
  <2>1. CASE R = 1
    BY <1>1, <1>2, <1>3, <2>1, TotalType
  <2>2. CASE R = 2
    BY <1>1, <1>2, <1>3, <2>2, TotalType
  <2>3. CASE R = 3
    BY <1>1, <1>2, <1>3, <2>3, TotalType
  <2> QED BY <2>1, <2>2, <2>3, TotalType
<1>5. sequence \in 1..Plan!Total
  BY <1>1, <1>4, TotalType
<1>6. Current = Plan!Message(sequence)
  <2>1. CASE phase = "START"
    BY <1>2, <1>4, <2>1, TotalType DEF Plan!Message, Current
  <2>2. CASE phase = "DATA"
    <3>1. a \in startRounds..(startRounds + totalChunks - 1) /\ ~(a < startRounds)
      BY <1>2, <2>2, TotalType
    <3> QED BY <1>2, <1>4, <2>2, <3>1 DEF Plan!Message, Current
  <2>3. CASE phase = "END"
    <3>1. a \notin startRounds..(startRounds + totalChunks - 1) /\ ~(a < startRounds)
      BY <1>2, <2>3, TotalType
    <3> QED BY <1>4, <2>3, <3>1 DEF Plan!Message, Current
  <2> QED BY <2>1, <2>2, <2>3 DEF Sending
<1>7. Current \in Messages /\ numbers[Current] = sequence
  BY <1>5, <1>6, MessageFacts DEF numbers
<1>8. Parts(Current) = Packets(phase, index)
  BY DEF Parts, Current, Packets, messageLength, Sending
<1> QED BY <1>5, <1>6, <1>7, <1>8

-----------------------------------------------------------------------------
(* What is on its way to the air is in the order of the schedule, and none *)
(* of it is ahead of the host.                                             *)

Newest == IF step = "meta" THEN sequence - 1 ELSE sequence

Ordered ==
  /\ RelayTyped(Messages)
  /\ InTurn(numbers)
  /\ phase \in Sending \cup Before => UpTo(numbers, Newest)

LEMMA RigidMessages ==
  /\ Messages' = Messages /\ numbers' = numbers
  /\ (Plan!Total)' = Plan!Total
BY DEF Messages, numbers, Plan!Total, Plan!Message, startRounds, totalChunks, CeilDiv,
       startRoundDurationMs, PACKET_REPEAT_INTERVAL_MS, START_ROUND_INTERVAL_MS,
       OTA_DATA_PAYLOAD_MAX

(* After a transmission the next number is up, and after the last one the  *)
(* broadcast has succeeded.                                                *)
LEMMA SentOneCounts ==
  ASSUME Position, phase \in Sending, SentOne
  PROVE  /\ sequence' = sequence + 1 /\ sequence \in Nat /\ sequence >= 1
         /\ step' = "meta" /\ options' = options
         /\ phase' \in Sending \cup {"cleanup"}
         /\ result' = IF phase' = "cleanup" THEN "EXIT_SUCCESS" ELSE result
         /\ phase' = "cleanup" => sequence' = Plan!Total + 1
<1> DEFINE R == PACKET_REPEAT_COUNT
           lastPass == repeat + 1 = R /\ index + 1 = Passes(phase)
<1>1. /\ startRounds \in Nat /\ 1 <= startRounds /\ startRounds <= 40
      /\ totalChunks \in Nat /\ 1 <= totalChunks /\ totalChunks <= 1171
      /\ R \in {1, 2, 3}
  BY Counts, ImageAssumption, SMT
<1>2. /\ index \in Nat /\ repeat \in Nat /\ sequence \in Nat /\ sequence >= 1
      /\ sequence = (Base(phase) + index) * R + repeat + 1
      /\ sequence <= (startRounds + totalChunks + 1) * R + 1
  BY DEF Position
<1>3. sequence' = sequence + 1
  <2>1. sequence + 1 < 65536
    BY <1>1, <1>2, SMT
  <2>2. sequence' = (sequence + 1) % 65536
    BY DEF SentOne
  <2> QED BY <1>2, <2>1, <2>2, SMT
<1>4. /\ step' = "meta" /\ options' = options
      /\ phase' = IF lastPass THEN After(phase) ELSE phase
      /\ result' = IF phase' = "cleanup" THEN "EXIT_SUCCESS" ELSE result
  BY DEF SentOne
<1>5. /\ After(phase) \in Sending \cup {"cleanup"}
      /\ After(phase) = "cleanup" => phase = "END"
      /\ phase # "cleanup"
  BY DEF After, Sending
<1>6. ASSUME phase' = "cleanup" PROVE sequence' = Plan!Total + 1
  <2>1. phase = "END" /\ repeat + 1 = R /\ index = 0
    BY <1>2, <1>4, <1>5, <1>6 DEF Passes
  <2>2. sequence = (startRounds + totalChunks + 0) * R + repeat + 1
    BY <1>2, <2>1 DEF Base
  <2>3. sequence = (startRounds + totalChunks + 1) * R
    <3>1. CASE R = 1
      BY <1>1, <1>2, <2>1, <2>2, <3>1
    <3>2. CASE R = 2
      BY <1>1, <1>2, <2>1, <2>2, <3>2
    <3>3. CASE R = 3
      BY <1>1, <1>2, <2>1, <2>2, <3>3
    <3> QED BY <1>1, <3>1, <3>2, <3>3
  <2> QED BY <1>3, <2>3, TotalType
<1> QED BY <1>2, <1>3, <1>4, <1>5, <1>6

(* What a step of the host does to the relay: nothing, a packet is written *)
(* or one is read; and how it moves in the schedule.                       *)
RelaySame == UNCHANGED relay
Beside    == UNCHANGED <<in, head, body, air, delivered>>

WroteMeta ==
  /\ phase \in Sending /\ step = "meta" /\ ~options.dryRun
  /\ Written(Meta(Current, Packets(phase, index))) /\ Beside
  /\ \/ step' = "payload" /\ part' = 0 /\ UNCHANGED <<main, place>>
     \/ Abort

WroteData ==
  /\ phase \in Sending /\ step = "payload"
  /\ Written(Data(Current, part + 1)) /\ Beside
  /\ \/ /\ part' = part + 1 /\ part + 1 # Packets(phase, index)
        /\ UNCHANGED <<main, place, step>>
     \/ /\ part' = part + 1 /\ part + 1 = Packets(phase, index)
        /\ step' = "ack" /\ UNCHANGED <<main, place>>
     \/ /\ part + 1 = Packets(phase, index)
        /\ ~options.waitForLocalAck /\ SentOne
     \/ Abort

Idled ==
  /\ RelaySame
  /\ \/ /\ phase \notin Sending \cup {"cleanup", "exit"}
        /\ UNCHANGED <<options, result, index, repeat, sequence, step, part>>
     \/ phase \in {"cleanup"} /\ phase' = "exit" /\ UNCHANGED <<options, result, sequence, step, part>>
     \/ phase \in Sending /\ options.dryRun /\ SentOne /\ UNCHANGED part
     \/ phase \in Sending /\ Abort
     \/ UNCHANGED <<main, place, step, part>>

ReadPacket ==
  /\ phase \in Sending /\ step = "ack"
  /\ in # <<>> /\ in' = Tail(in)
  /\ UNCHANGED <<out, head, body, air, delivered, part>>
  /\ IF Head(in) = Ack THEN SentOne ELSE UNCHANGED <<main, place, step>>

RelayMoved ==
  /\ TakePacket \/ Transmit \/ Sniff(Piece(1, 1))
  /\ UNCHANGED <<main, place, step, part>>

LEMMA StepKinds ==
  ASSUME Position, [Next]_vars
  PROVE  Idled \/ WroteMeta \/ WroteData \/ ReadPacket \/ RelayMoved
<1>1. CASE ReadImage \/ Operator \/ Open
  <2>1. phase \notin Sending \cup {"cleanup", "exit"}
    BY <1>1 DEF ReadImage, Operator, PromptForPath, Confirm, Open, Sending
  <2>2. UNCHANGED <<options, result, index, repeat, sequence, step, part>> /\ RelaySame
    BY <1>1 DEF ReadImage, Operator, PromptForPath, Confirm, Open, Fail, main, RelaySame
  <2> QED BY <2>1, <2>2 DEF Idled
<1>2. CASE Cleanup
  BY <1>2 DEF Cleanup, Idled, RelaySame
<1>3. CASE DrySend
  BY <1>3 DEF DrySend, Idled, RelaySame
<1>4. CASE WriteMeta
  <2>1. CASE WriteFailed(Meta(Current, Packets(phase, index))) /\ Abort
    BY <1>4, <2>1 DEF WriteMeta, WriteFailed, WroteMeta, Idled, RelaySame, Beside, relay
  <2> QED BY <1>4, <2>1 DEF WriteMeta, WroteMeta, Beside
<1>5. CASE WritePayload
  <2>1. CASE WriteFailed(Data(Current, part + 1)) /\ Abort
    BY <1>5, <2>1 DEF WritePayload, WriteFailed, WroteData, Idled, RelaySame, Beside, relay
  <2> QED BY <1>5, <2>1 DEF WritePayload, WroteData, Beside
<1>6. CASE PollTimeout \/ PollError \/ GiveUp
  BY <1>6 DEF PollTimeout, PollError, GiveUp, Polling, Idled, RelaySame
<1>7. CASE PollPacket
  BY <1>7 DEF PollPacket, Polling, ReadPacket
<1>8. CASE /\ TakePacket \/ Transmit \/ Sniff(Piece(1, 1))
           /\ UNCHANGED <<main, place, step, part, elapsed>>
  BY <1>8 DEF RelayMoved
<1>9. CASE UNCHANGED vars
  BY <1>9 DEF vars, Idled, RelaySame
<1> QED BY <1>1, <1>2, <1>3, <1>4, <1>5, <1>6, <1>7, <1>8, <1>9
        DEF Next, Host, Operator, Send, Poll

LEMMA OrderedStarts == Init => Ordered
<1> SUFFICES ASSUME Init PROVE Ordered
  OBVIOUS
<1>1. RelayTyped(Messages) /\ InTurn(numbers) /\ UpTo(numbers, Newest)
  BY NumbersType, RelayStarts DEF Init
<1> QED BY <1>1 DEF Ordered

(* The bound may grow. *)
LEMMA UpToGrows ==
  ASSUME NEW M, RelayTyped(M), NEW num \in [M -> Nat], NEW b \in Nat, NEW c \in Nat, b <= c,
         UpTo(num, b)
  PROVE  UpTo(num, c)
<1>1. \A k \in Announcing : out[k] \in PacketsOf(M)
  BY DEF RelayTyped, Announcing
<1>2. \A k \in Announcing : num[out[k].message] \in Nat
  BY <1>1 DEF PacketsOf
<1>3. Fresh => num[head.message] \in Nat
  BY DEF RelayTyped, HeadsOf, Fresh
<1>4. \A i \in 1..Len(delivered) : num[delivered[i]] \in Nat
  BY DEF RelayTyped
<1> QED BY <1>2, <1>3, <1>4 DEF UpTo

LEMMA RelayUnmoved ==
  ASSUME NEW M, NEW num, UNCHANGED relay
  PROVE  /\ RelayTyped(M) => RelayTyped(M)'
         /\ InTurn(num) => InTurn(num)'
         /\ \A b : UpTo(num, b) => UpTo(num, b)'
BY DEF relay, RelayTyped, InTurn, UpTo, Fresh, Announcing

LEMMA OrderedStep ==
  ASSUME IInv, Ordered, [Next]_vars
  PROVE  Ordered'
<1> DEFINE sending == phase \in Sending \cup Before
<1>1. /\ RelayTyped(Messages) /\ InTurn(numbers) /\ numbers \in [Messages -> Nat]
      /\ sending => UpTo(numbers, Newest)
  BY NumbersType DEF Ordered
<1>2. Position /\ sequence \in Nat /\ sequence >= 1 /\ Newest \in Nat
  BY DEF IInv, Position, Newest
<1>3. "cleanup" \notin Sending \cup Before /\ "exit" \notin Sending \cup Before
  BY DEF Sending, Before
<1>4. ASSUME RelayTyped(Messages)', InTurn(numbers)',
             sending' => \E c : c = Newest' /\ UpTo(numbers, c)'
      PROVE  Ordered'
  <2>1. sending' => UpTo(numbers, Newest)'
    BY <1>4, RigidMessages DEF UpTo
  <2> QED BY <1>4, <2>1 DEF Ordered
<1>5. PICK b \in Nat : b = Newest
  BY <1>2
<1>6. sending => UpTo(numbers, b)
  BY <1>1, <1>5
<1>7. ASSUME SentOne, phase \in Sending PROVE Newest' \in Nat /\ Newest <= Newest'
  <2>1. sequence' = sequence + 1 /\ step' = "meta"
    BY <1>2, <1>7, SentOneCounts
  <2> QED BY <1>2, <2>1 DEF Newest
<1>8. CASE Idled
  <2>1. RelayTyped(Messages)' /\ InTurn(numbers)' /\ \A c : UpTo(numbers, c) => UpTo(numbers, c)'
    BY <1>1, <1>8, RelayUnmoved DEF Idled, RelaySame
  <2>2. sending' => sending /\ Newest' \in Nat /\ Newest <= Newest'
    <3> SUFFICES ASSUME sending' PROVE sending /\ Newest' \in Nat /\ Newest <= Newest'
      OBVIOUS
    <3>1. CASE UNCHANGED <<sequence, step>> /\ sending
      BY <1>2, <3>1 DEF Newest
    <3>2. CASE phase \in Sending /\ SentOne
      BY <1>7, <3>2
    <3>3. phase' # "cleanup" \/ phase \notin Sending
      BY <1>3, Rigid
    <3>4. phase' # "exit" /\ phase' # "cleanup"
      BY <1>3, Rigid
    <3>5. sending \/ phase \in {"cleanup", "exit"}
      BY <1>2 DEF Position, Behind
    <3> QED BY <1>3, <1>8, <3>1, <3>2, <3>3, <3>4, <3>5, AbortKeeps, Rigid
            DEF Idled, Abort, Fail, place
  <2>3. sending' => \E c : c = Newest' /\ UpTo(numbers, c)'
    <3> SUFFICES ASSUME sending' PROVE \E c : c = Newest' /\ UpTo(numbers, c)'
      OBVIOUS
    <3>1. PICK c \in Nat : c = Newest'
      BY <2>2
    <3>2. UpTo(numbers, c)
      BY <1>1, <1>5, <1>6, <2>2, <3>1, UpToGrows
    <3> QED BY <2>1, <3>1, <3>2
  <2> QED BY <1>4, <2>1, <2>3
<1>9. CASE WroteMeta
  <2>1. /\ Current \in Messages /\ numbers[Current] = sequence
        /\ Packets(phase, index) \in Nat
    <3>1. Current \in Messages /\ numbers[Current] = sequence /\ Parts(Current) = Packets(phase, index)
      BY <1>2, <1>9, CurrentMessage DEF WroteMeta
    <3> QED BY <3>1, PartsType
  <2>2. PICK m, n : m = Current /\ n = Packets(phase, index)
    OBVIOUS
  <2>3. /\ m \in Messages /\ n \in Nat /\ b < numbers[m]
        /\ Written(Meta(m, n)) /\ UNCHANGED <<in, head, body, air, delivered>>
        /\ UpTo(numbers, b)
    BY <1>2, <1>5, <1>6, <1>9, <2>1, <2>2 DEF WroteMeta, Beside, Newest
  <2>4. RelayTyped(Messages)' /\ InTurn(numbers)' /\ UpTo(numbers, numbers[m])'
    BY <1>1, <2>3, WriteMetaKeeps
  <2>5. sending' => numbers[m] = Newest'
    <3>1. CASE step' = "payload" /\ UNCHANGED <<main, place>>
      BY <2>1, <2>2, <3>1 DEF Newest, place
    <3>2. CASE Abort
      BY <1>3, <3>2, Rigid DEF Abort, Fail
    <3> QED BY <1>9, <3>1, <3>2 DEF WroteMeta
  <2> QED BY <1>4, <2>4, <2>5
<1>10. CASE WroteData
  <2>1. Current \in Messages /\ part + 1 \in Nat
    BY <1>2, <1>10, CurrentMessage DEF WroteData, IInv, Progress
  <2>2. PICK m \in Messages, n \in Nat : m = Current /\ n = part + 1
    BY <2>1
  <2>3. Written(Data(m, n)) /\ UNCHANGED <<in, head, body, air, delivered>>
    BY <1>10, <2>2 DEF WroteData, Beside
  <2>4. RelayTyped(Messages)' /\ InTurn(numbers)' /\ \A c : UpTo(numbers, c) => UpTo(numbers, c)'
    BY <1>1, <2>3, WriteDataKeeps
  <2>5. sending' => Newest' \in Nat /\ Newest <= Newest'
    <3>1. CASE UNCHANGED place /\ step' # "meta"
      BY <1>2, <1>10, <3>1 DEF Newest, place, WroteData
    <3>2. CASE SentOne
      BY <1>7, <1>10, <3>2 DEF WroteData
    <3>3. CASE Abort
      BY <1>3, <3>3, Rigid DEF Abort, Fail
    <3> QED BY <1>10, <3>1, <3>2, <3>3 DEF WroteData
  <2>6. sending' => \E c : c = Newest' /\ UpTo(numbers, c)'
    <3> SUFFICES ASSUME sending' PROVE \E c : c = Newest' /\ UpTo(numbers, c)'
      OBVIOUS
    <3>1. PICK c \in Nat : c = Newest'
      BY <2>5
    <3>2. UpTo(numbers, c)
      BY <1>1, <1>5, <1>6, <1>10, <2>5, <3>1, UpToGrows DEF WroteData
    <3> QED BY <2>4, <3>1, <3>2
  <2> QED BY <1>4, <2>4, <2>6
<1>11. CASE ReadPacket
  <2>1. in' \in Seq(Entries)
    BY <1>1, <1>11, HeadTailProperties DEF ReadPacket, RelayTyped
  <2>2. RelayTyped(Messages)' /\ InTurn(numbers)' /\ \A c : UpTo(numbers, c) => UpTo(numbers, c)'
    BY <1>1, <1>11, <2>1, RigidMessages DEF ReadPacket, RelayTyped, InTurn, UpTo, Fresh, Announcing
  <2>3. Newest' \in Nat /\ Newest <= Newest'
    BY <1>2, <1>7, <1>11 DEF ReadPacket, Newest, place
  <2>4. PICK c \in Nat : c = Newest'
    BY <2>3
  <2>5. UpTo(numbers, c)
    BY <1>1, <1>5, <1>6, <1>11, <2>3, <2>4, UpToGrows DEF ReadPacket
  <2> QED BY <1>4, <2>2, <2>4, <2>5
<1>12. CASE RelayMoved
  <2>1. RelayTyped(Messages)' /\ InTurn(numbers)' /\ \A c : UpTo(numbers, c) => UpTo(numbers, c)'
    <3>1. CASE TakePacket
      BY <1>1, <3>1, TakeKeeps
    <3>2. CASE Transmit
      BY <1>1, <3>2, TransmitKeeps
    <3>3. CASE Sniff(Piece(1, 1))
      <4>1. in' \in Seq(Entries) /\ UNCHANGED <<out, head, body, air, delivered>>
        BY <1>1, <3>3, SniffKeeps
      <4> QED BY <1>1, <4>1, RigidMessages DEF RelayTyped, InTurn, UpTo, Fresh, Announcing
    <3> QED BY <1>12, <3>1, <3>2, <3>3 DEF RelayMoved
  <2>2. phase' = phase /\ Newest' = Newest
    BY <1>12 DEF RelayMoved, place, Newest
  <2>3. sending' => UpTo(numbers, b)'
    BY <1>6, <2>1, <2>2, Rigid
  <2> QED BY <1>4, <1>5, <2>1, <2>2, <2>3
<1> QED BY <1>2, <1>8, <1>9, <1>10, <1>11, <1>12, StepKinds

(* The invariant of the order. *)
LEMMA OrderInvariant == Spec => [](IInv /\ Ordered)
<1>1. Init => IInv /\ Ordered
  BY InitIInv, OrderedStarts
<1>2. (IInv /\ Ordered) /\ [Next]_vars => (IInv /\ Ordered)'
  BY NextIInv, OrderedStep
<1> QED BY <1>1, <1>2, PTL DEF Spec

(* Every transmission that arrives as composed is the one after the last,  *)
(* or a later one.                                                         *)
LEMMA DeliversNext ==
  ASSUME Ordered, [Next]_vars, Position
  PROVE  [Plan!Next]_delivered
<1> SUFFICES ASSUME delivered' # delivered PROVE Plan!Next
  OBVIOUS
<1>1. Transmit
  BY StepKinds DEF Idled, RelaySame, relay, WroteMeta, WroteData, Beside, ReadPacket,
                   RelayMoved, TakePacket, Sniff
<1>2. Fresh /\ head.message \in Messages /\ delivered' = Append(delivered, head.message)
  BY <1>1 DEF Transmit, Intact, Fresh, Ordered, RelayTyped, HeadsOf
<1>3. PICK i : i = numbers[head.message]
  OBVIOUS
<1>4. i \in 1..Plan!Total /\ head.message = Plan!Message(i)
  BY <1>2, <1>3, NumbersType
<1>5. Plan!Last \in Nat /\ Plan!Last < i
  <2>1. CASE delivered = <<>>
    BY <1>4, <2>1 DEF Plan!Last
  <2>2. CASE delivered # <<>>
    <3> DEFINE n == Len(delivered)
    <3>1. n \in 1..Len(delivered) /\ delivered[n] \in Messages
      BY <2>2, EmptySeq DEF Ordered, RelayTyped
    <3>2. Plan!Last = numbers[delivered[n]]
      BY <2>2, <3>1 DEF Plan!Last, numbers
    <3>3. numbers[delivered[n]] < numbers[head.message]
      BY <1>2, <3>1 DEF Ordered, InTurn
    <3> QED BY <1>3, <3>1, <3>2, <3>3, NumbersType
  <2> QED BY <2>1, <2>2
<1>6. i \in (Plan!Last + 1)..Plan!Total
  BY <1>4, <1>5, TotalType
<1> QED BY <1>2, <1>4, <1>6 DEF Plan!Next, Plan!Transmit

(* Whatever an earlier run left in the relay, whichever transfer fails or  *)
(* gets through all the same: what reaches the air as composed follows the *)
(* schedule, nothing twice and nothing out of order (broadcastImage,       *)
(* sendRepeated, sendOtaPayload).                                          *)
THEOREM FollowsSchedule == Spec => ImplementsPlan
<1>1. Init => Plan!Init
  BY DEF Init, RelayInit, Plan!Init
<1>2. (IInv /\ Ordered) /\ [Next]_vars => [Plan!Next]_delivered
  BY DeliversNext DEF IInv
<1> QED BY <1>1, <1>2, OrderInvariant, PTL DEF Spec, ImplementsPlan, Plan!Spec

-----------------------------------------------------------------------------
(* Every ACK read lets the host go one message on, and every ACK of this   *)
(* run stands for a message on the air.                                    *)

Waiting == options.waitForLocalAck /\ ~options.dryRun

Paced == Waiting => sequence - 1 + Acks(in) <= Len(air) + StaleAcks

LEMMA PacedStarts == Init => Paced
<1> SUFFICES ASSUME Init PROVE Paced
  OBVIOUS
<1>1. Acks(in) \in Nat /\ Acks(in) <= StaleAcks
  BY NumbersType, RelayStarts DEF Init
<1>2. sequence = 1 /\ Len(air) = 0
  BY DEF Init, RelayInit
<1> QED BY <1>1, <1>2, RelayAssumption DEF Paced

LEMMA PacedStep ==
  ASSUME IInv, Ordered, Paced, [Next]_vars
  PROVE  Paced'
<1>1. /\ Position /\ sequence \in Nat /\ RelayTyped(Messages) /\ InTurn(numbers)
      /\ numbers \in [Messages -> Nat]
      /\ in \in Seq(Entries) /\ Acks(in) \in Nat /\ Len(air) \in Nat /\ StaleAcks \in Nat
  BY AcksFinite, NumbersType, RelayAssumption DEF IInv, Position, Ordered, RelayTyped
<1>2. SUFFICES ASSUME Waiting' PROVE (sequence - 1 + Acks(in) <= Len(air) + StaleAcks)'
  BY DEF Paced
<1>3. ASSUME Waiting, sequence' = sequence, Acks(in') = Acks(in), air' = air
      PROVE  (sequence - 1 + Acks(in) <= Len(air) + StaleAcks)'
  BY <1>3 DEF Paced, Acks, AckPlaces
<1>4. CASE Idled
  <2>1. in' = in /\ air' = air
    BY <1>4 DEF Idled, RelaySame, relay
  <2>2. Waiting /\ sequence' = sequence
    <3>1. ~(options.dryRun /\ options' = options)
      BY <1>2 DEF Waiting
    <3> QED BY <1>1, <1>2, <1>4, <3>1, SentOneCounts
            DEF Idled, Waiting, Abort, Fail, main, place
  <2> QED BY <1>3, <2>1, <2>2
<1>5. CASE WroteMeta \/ WroteData
  <2>1. in' = in /\ air' = air
    BY <1>5 DEF WroteMeta, WroteData, Beside
  <2>2. Waiting /\ sequence' = sequence
    BY <1>1, <1>2, <1>5, SentOneCounts DEF WroteMeta, WroteData, Waiting, Abort, Fail, main, place
  <2> QED BY <1>3, <2>1, <2>2
<1>6. CASE ReadPacket
  <2>1. /\ in' \in Seq(Entries) /\ Acks(in') \in Nat
        /\ Acks(in) = (IF Head(in) = Ack THEN 1 ELSE 0) + Acks(in')
    BY <1>1, <1>6, AcksTail, AcksFinite DEF ReadPacket
  <2>2. /\ Waiting /\ air' = air
        /\ sequence' = IF Head(in) = Ack THEN sequence + 1 ELSE sequence
    BY <1>1, <1>2, <1>6, SentOneCounts DEF ReadPacket, Waiting, main, place
  <2> QED BY <1>1, <2>1, <2>2 DEF Paced
<1>7. CASE RelayMoved
  <2>1. Waiting /\ sequence' = sequence
    BY <1>2, <1>7 DEF RelayMoved, Waiting, main, place
  <2>2. CASE TakePacket
    BY <1>3, <2>1, <2>2 DEF TakePacket
  <2>3. CASE Transmit
    <3>1. Acks(in') = Acks(in) + 1 /\ Len(air') = Len(air) + 1
      BY <1>1, <2>3, TransmitKeeps
    <3> QED BY <1>1, <2>1, <3>1 DEF Paced
  <2>4. CASE Sniff(Piece(1, 1))
    BY <1>1, <1>3, <2>1, <2>4, SniffKeeps
  <2> QED BY <1>7, <2>2, <2>3, <2>4 DEF RelayMoved
<1> QED BY <1>1, <1>4, <1>5, <1>6, <1>7, StepKinds

(* With waitForLocalAck the host never runs ahead of the relay by more     *)
(* than the ACKs an earlier run left unread (waitForLocalTxAck).           *)
THEOREM HostKeepsPace == Spec => []NeverAhead
<1>1. Init => IInv /\ Ordered /\ Paced
  BY InitIInv, OrderedStarts, PacedStarts
<1>2. (IInv /\ Ordered /\ Paced) /\ [Next]_vars => (IInv /\ Ordered /\ Paced)'
  BY NextIInv, OrderedStep, PacedStep
<1>3. IInv /\ Ordered /\ Paced => NeverAhead
  <2> SUFFICES ASSUME IInv, Ordered, Paced PROVE NeverAhead
    OBVIOUS
  <2>1. /\ sequence \in Nat /\ Acks(in) \in Nat /\ Len(air) \in Nat /\ StaleAcks \in Nat
    BY AcksFinite, RelayAssumption DEF IInv, Position, Ordered, RelayTyped
  <2> QED BY <2>1 DEF Paced, Waiting, NeverAhead
<1> QED BY <1>1, <1>2, <1>3, PTL DEF Spec

-----------------------------------------------------------------------------
(* As long as no transfer has failed, the packets of the host come to the  *)
(* relay without a gap: it assembles each of its messages as composed once *)
(* it has taken the metadata.                                              *)

(* p and q are written one after the other. *)
Follows(p, q) ==
  IF p.meta THEN q = Data(p.message, 1)
  ELSE IF p.number # Parts(p.message) THEN q = Data(p.message, p.number + 1)
  ELSE q.meta

(* The last packet the relay has taken for its message, and one that ends  *)
(* a message                                                               *)
Taken    == IF body = <<>> THEN head ELSE body[Len(body)]
Whole(p) == ~p.meta /\ p.number = Parts(p.message)

(* p is the last packet the host has written. *)
Latest(p) ==
  IF step = "payload"
    THEN p = IF part = 0 THEN Meta(Current, Parts(Current)) ELSE Data(Current, part)
    ELSE Whole(p)

(* An announcement gives the number of packets there will be. *)
Sized ==
  /\ Fresh => head.number = Parts(head.message)
  /\ \A k \in Announcing : out[k].number = Parts(out[k].message)

Contiguous == \A k \in 1..(Len(out) - 1) : Follows(out[k], out[k + 1])

Assembled == Fresh =>
  /\ \A k \in 1..Len(body) : body[k] = Data(head.message, k)
  /\ Len(body) <= head.number
  /\ out # <<>> => Follows(Taken, out[1])

AtEnd == phase \in Sending \cup Before =>
  /\ out # <<>> => Latest(out[Len(out)])
  /\ out = <<>> /\ Fresh => Latest(Taken)

(* Only the message an earlier run left can go out damaged. *)
Spoilt  == IF StaleParts > 0 /\ (Fresh \/ head = NoHead) THEN 1 ELSE 0
FewLost == Len(air) <= Len(delivered) + Spoilt

(* No transfer has failed so far. *)
Unbroken == phase \in Sending \cup Before \/ result = "EXIT_SUCCESS"

Stream == Unbroken => Contiguous /\ Assembled /\ AtEnd /\ FewLost

Verdict ==
  /\ phase \in Sending \cup Before => result = "EXIT_FAILURE"
  /\ result = "EXIT_SUCCESS" => sequence = Plan!Total + 1
  /\ options.dryRun => step = "meta"

(* The relay takes the next packet of an unbroken stream. *)
LEMMA TakeInStream ==
  ASSUME RelayTyped(Messages), Sized, TakePacket
  PROVE  /\ Sized'
         /\ Contiguous /\ Assembled => Contiguous' /\ Assembled'
         /\ FewLost => FewLost'
         /\ out' # <<>> => out # <<>> /\ out'[Len(out')] = out[Len(out)]
         /\ out' = <<>> /\ Fresh' => out # <<>> /\ Taken' = out[Len(out)]
<1> DEFINE p == out[1]
<1>1. /\ out # <<>> /\ out' = Tail(out) /\ UNCHANGED <<in, air, delivered>>
      /\ head = NoHead \/ Len(body) < head.number
  BY DEF TakePacket
<1>2. /\ out' \in Seq(PacketsOf(Messages)) /\ Len(out') = Len(out) - 1
      /\ Len(out) \in Nat /\ Len(out) >= 1
      /\ p \in PacketsOf(Messages) /\ Head(out) = p /\ 1 \in 1..Len(out)
      /\ \A k \in 1..Len(out') : k + 1 \in 1..Len(out) /\ out'[k] = out[k + 1]
      /\ \A k \in Announcing' : k + 1 \in Announcing /\ out'[k] = out[k + 1]
  <2>1. Len(out) \in Nat
    BY DEF RelayTyped
  <2> QED BY <1>1, <2>1, OutTail
<1>3. out' # <<>> => Len(out') >= 1 /\ out'[1] = out[2] /\ 1 \in 1..(Len(out) - 1)
  BY <1>2, EmptySeq
<1>4. out' # <<>> => out'[Len(out')] = out[Len(out)]
  BY <1>2, <1>3
<1>5. out' = <<>> => Len(out) = 1 /\ p = out[Len(out)]
  <2> SUFFICES ASSUME out' = <<>> PROVE Len(out) = 1
    OBVIOUS
  <2>1. Len(out') = 0
    BY EmptySeq
  <2> QED BY <1>2, <2>1
<1>6. ASSUME Contiguous PROVE Contiguous' /\ (out' # <<>> => Follows(p, out'[1]))
  <2>1. ASSUME NEW k \in 1..(Len(out') - 1) PROVE Follows(out'[k], out'[k + 1])
    <3>1. /\ k \in 1..Len(out') /\ k + 1 \in 1..Len(out')
          /\ k + 1 \in 1..(Len(out) - 1)
      BY <1>2
    <3>2. Follows(out[k + 1], out[(k + 1) + 1])
      BY <1>6, <3>1 DEF Contiguous
    <3> QED BY <1>2, <3>1, <3>2
  <2>2. Contiguous'
    BY <2>1 DEF Contiguous, Follows, Parts, Packets, messageLength, chunkLength, Offset, CeilDiv
  <2>3. out' # <<>> => Follows(out[1], out[1 + 1])
    BY <1>3, <1>6 DEF Contiguous
  <2> QED BY <1>3, <2>2, <2>3
<1>7. (Announcing = Announcing \cap Nat) /\ (p.meta => 1 \in Announcing)
  BY <1>2 DEF Announcing
<1>8. CASE head = NoHead /\ p.meta
  <2>1. head' = p /\ body' = <<>> /\ Fresh' /\ Taken' = p
    BY <1>1, <1>2, <1>8, NumbersType DEF TakePacket, RelayTyped, PacketsOf, Fresh, Taken
  <2>2. Sized'
    BY <1>2, <1>7, <1>8, <2>1 DEF Sized, Parts, Packets, messageLength, chunkLength, Offset, CeilDiv
  <2>3. Contiguous => Assembled'
    <3>1. Len(body') = 0 /\ head'.number \in Nat
      BY <1>2, <2>1 DEF PacketsOf
    <3>2. Contiguous => (out' # <<>> => Follows(Taken', out'[1]))
      BY <1>6, <2>1
    <3>3. ~(\E k \in 1..Len(body') : TRUE) /\ Len(body') <= head'.number
      BY <3>1
    <3> QED BY <2>1, <3>2, <3>3
            DEF Assembled, Follows, Parts, Packets, messageLength, chunkLength, Offset, CeilDiv
  <2>4. FewLost => FewLost'
    BY <1>1, <1>8, <2>1 DEF FewLost, Spoilt
  <2> QED BY <1>1, <1>4, <1>5, <1>6, <2>1, <2>2, <2>3, <2>4
<1>9. CASE head = NoHead /\ ~p.meta
  <2>1. head' = head /\ body' = body /\ ~Fresh'
    BY <1>1, <1>2, <1>9 DEF TakePacket, Fresh, NoHead, Meta
  <2>2. Sized'
    BY <1>2, <2>1 DEF Sized, Parts, Packets, messageLength, chunkLength, Offset, CeilDiv
  <2>3. Assembled'
    BY <2>1 DEF Assembled
  <2>4. FewLost => FewLost'
    BY <1>1, <1>9, <2>1 DEF FewLost, Spoilt
  <2> QED BY <1>1, <1>4, <1>5, <1>6, <2>1, <2>2, <2>3, <2>4
<1>10. CASE head # NoHead
  <2>1. head' = head /\ body' = Append(body, p) /\ Fresh' = Fresh /\ Len(body) < head.number
    BY <1>1, <1>2, <1>10 DEF TakePacket, Fresh
  <2>2. /\ Len(body) \in Nat /\ Len(body') = Len(body) + 1 /\ body' # <<>>
        /\ \A k \in 1..Len(body) : body'[k] = body[k]
        /\ body'[Len(body) + 1] = p
    BY <1>2, <2>1, AppendProperties DEF RelayTyped
  <2>3. Taken' = p
    BY <2>2 DEF Taken
  <2>4. Sized'
    BY <1>2, <2>1 DEF Sized, Parts, Packets, messageLength, chunkLength, Offset, CeilDiv
  <2>5. ASSUME Contiguous, Assembled, Fresh PROVE Assembled'
    <3>1. p = Data(head.message, Len(body) + 1)
      <4>1. Follows(Taken, p)
        BY <1>1, <2>5 DEF Assembled
      <4>2. CASE body = <<>>
        <5>1. Taken = head /\ head.meta /\ Len(body) = 0
          BY <4>2 DEF Taken, RelayTyped, HeadsOf
        <5> QED BY <4>1, <5>1 DEF Follows
      <4>3. CASE body # <<>>
        <5>1. Taken = body[Len(body)] /\ Len(body) \in 1..Len(body)
          BY <2>2, <4>3, EmptySeq DEF Taken, RelayTyped
        <5>2. Taken = Data(head.message, Len(body))
          BY <2>5, <5>1 DEF Assembled
        <5>3. ~Taken.meta /\ Taken.message = head.message /\ Taken.number = Len(body)
          BY <5>2 DEF Data
        <5>4. Len(body) # Parts(head.message)
          <6>1. head.number = Parts(head.message) /\ head.number \in Nat
            BY <2>5 DEF Sized, RelayTyped, HeadsOf
          <6> QED BY <2>1, <2>2, <6>1
        <5> QED BY <4>1, <5>3, <5>4 DEF Follows
      <4> QED BY <4>2, <4>3
    <3>2. \A k \in 1..Len(body') : body'[k] = Data(head'.message, k)
      <4> SUFFICES ASSUME NEW k \in 1..Len(body') PROVE body'[k] = Data(head.message, k)
        BY <2>1
      <4>1. CASE k \in 1..Len(body)
        BY <2>2, <2>5, <4>1 DEF Assembled
      <4>2. CASE k = Len(body) + 1
        BY <2>2, <3>1, <4>2
      <4> QED BY <2>2, <4>1, <4>2
    <3>3. Len(body') <= head'.number
      <4>1. head.number \in Nat
        BY DEF RelayTyped, HeadsOf
      <4> QED BY <2>1, <2>2, <4>1
    <3>4. out' # <<>> => Follows(Taken', out'[1])
      BY <1>6, <2>3, <2>5
    <3> QED BY <3>2, <3>3, <3>4
            DEF Assembled, Follows, Data, Parts, Packets, messageLength, chunkLength, Offset, CeilDiv
  <2>6. ~Fresh => Assembled'
    BY <2>1 DEF Assembled
  <2>7. FewLost => FewLost'
    BY <1>1, <2>1 DEF FewLost, Spoilt
  <2> QED BY <1>1, <1>4, <1>5, <1>6, <2>1, <2>3, <2>4, <2>5, <2>6, <2>7
<1> QED BY <1>8, <1>9, <1>10

(* The message the relay assembled in an unbroken stream is intact. *)
LEMMA TransmitInStream ==
  ASSUME RelayTyped(Messages), InTurn(numbers), Sized, Transmit
  PROVE  /\ Sized'
         /\ Contiguous /\ Assembled /\ FewLost => Contiguous' /\ Assembled' /\ FewLost'
         /\ out' = out /\ ~Fresh'
<1>1. /\ out' = out /\ ~Fresh' /\ head' = NoHead
      /\ Len(air') = Len(air) + 1 /\ Len(air) \in Nat
  BY NumbersType, TransmitKeeps
<1>2. Announcing' = Announcing
  BY <1>1 DEF Announcing
<1>3. Sized'
  BY <1>1, <1>2 DEF Sized, Parts, Packets, messageLength, chunkLength, Offset, CeilDiv
<1>4. Contiguous => Contiguous'
  BY <1>1 DEF Contiguous, Follows, Data, Parts, Packets, messageLength, chunkLength, Offset, CeilDiv
<1>5. Assembled'
  BY <1>1 DEF Assembled
<1>6. ASSUME Assembled, FewLost PROVE FewLost'
  <2>1. Len(delivered) \in Nat /\ StaleParts \in Nat
    BY RelayAssumption DEF RelayTyped
  <2>2. CASE Fresh
    <3> DEFINE t == [head |-> head, body |-> body]
    <3>1. /\ head.message \in Messages /\ Len(body) = head.number
          /\ body = [k \in 1..Len(body) |-> body[k]]
      BY <2>2 DEF RelayTyped, HeadsOf, Fresh, Transmit
    <3>2. body = [k \in 1..head.number |-> Data(head.message, k)]
      BY <1>6, <2>2, <3>1 DEF Assembled
    <3>3. Intact(t)
      BY <2>2, <3>2 DEF Intact, Fresh
    <3>4. Len(delivered') = Len(delivered) + 1
      BY <2>1, <3>1, <3>3, AppendProperties DEF Transmit, RelayTyped
    <3> QED BY <1>1, <1>6, <2>1, <2>2, <3>4 DEF FewLost, Spoilt
  <2>3. CASE ~Fresh
    <3>1. head # NoHead /\ delivered' = delivered
      BY <2>3 DEF Transmit, Intact, Fresh
    <3>2. StaleParts > 0
      <4>1. PICK n \in 0..StaleParts : head = Meta(OldMessage, n)
        BY <2>3 DEF RelayTyped
      <4>2. n # 0
        BY <3>1, <4>1 DEF NoHead
      <4> QED BY <2>1, <4>2
    <3> QED BY <1>1, <1>6, <2>1, <2>3, <3>1, <3>2 DEF FewLost, Spoilt
  <2> QED BY <2>2, <2>3
<1> QED BY <1>1, <1>3, <1>4, <1>5, <1>6

LEMMA StreamStarts == Init => Sized /\ Verdict /\ Stream
<1> SUFFICES ASSUME Init PROVE Sized /\ Verdict /\ Stream
  OBVIOUS
<1>1. out = <<>> /\ ~Fresh
  BY NumbersType, RelayStarts DEF Init
<1>2. Announcing = {} /\ Len(out) = 0 /\ ~(\E k \in 1..(Len(out) - 1) : TRUE)
  BY <1>1 DEF Announcing
<1>3. Len(air) = 0 /\ Len(delivered) = 0
  BY DEF Init, RelayInit
<1>4. FewLost
  BY <1>3 DEF FewLost, Spoilt
<1>5. Contiguous /\ Assembled /\ AtEnd /\ Sized
  BY <1>1, <1>2 DEF Contiguous, Assembled, AtEnd, Sized
<1>6. Verdict
  BY DEF Verdict, Init
<1> QED BY <1>4, <1>5, <1>6 DEF Stream

(* Success is reported when the whole schedule was sent, and only then. *)
LEMMA VerdictStep ==
  ASSUME IInv, Verdict, [Next]_vars
  PROVE  Verdict'
<1>1. Position
  BY DEF IInv
<1>2. "cleanup" \notin Sending \cup Before /\ "exit" \notin Sending \cup Before
  BY DEF Sending, Before
<1>3. ASSUME phase \in Sending, SentOne PROVE Verdict'
  <2>1. /\ step' = "meta" /\ phase' \in Sending \cup {"cleanup"}
        /\ result' = IF phase' = "cleanup" THEN "EXIT_SUCCESS" ELSE result
        /\ phase' = "cleanup" => sequence' = Plan!Total + 1
    BY <1>1, <1>3, SentOneCounts
  <2>2. result = "EXIT_FAILURE"
    BY <1>3 DEF Verdict
  <2> QED BY <1>2, <2>1, <2>2, Rigid, RigidMessages DEF Verdict
<1>4. ASSUME phase \in Sending, Abort PROVE Verdict'
  <2>1. phase' = "cleanup" /\ UNCHANGED <<sequence, options, result, step>>
    BY <1>4 DEF Abort, Fail, main
  <2> QED BY <1>2, <1>4, <2>1, Rigid, RigidMessages DEF Verdict
<1>5. ASSUME UNCHANGED <<main, place>>, step' = step \/ ~options.dryRun PROVE Verdict'
  BY <1>5, Rigid, RigidMessages DEF Verdict, main, place
<1>6. CASE Idled
  <2>1. CASE /\ phase \notin Sending \cup {"cleanup", "exit"}
             /\ UNCHANGED <<options, result, index, repeat, sequence, step, part>>
    <3>1. phase \in Before
      BY <1>1, <2>1 DEF Position, Behind
    <3> QED BY <2>1, <3>1, RigidMessages DEF Verdict
  <2>2. CASE phase \in {"cleanup"} /\ phase' = "exit" /\ UNCHANGED <<options, result, sequence, step, part>>
    BY <1>2, <2>2, Rigid, RigidMessages DEF Verdict
  <2> QED BY <1>3, <1>4, <1>5, <1>6, <2>1, <2>2 DEF Idled
<1>7. CASE WroteMeta
  BY <1>4, <1>5, <1>7 DEF WroteMeta
<1>8. CASE WroteData
  <2>1. ~options.dryRun
    BY <1>8 DEF WroteData, Verdict
  <2> QED BY <1>3, <1>4, <1>5, <1>8, <2>1 DEF WroteData
<1>9. CASE ReadPacket
  BY <1>3, <1>5, <1>9 DEF ReadPacket
<1>10. CASE RelayMoved
  BY <1>5, <1>10 DEF RelayMoved
<1> QED BY <1>1, <1>6, <1>7, <1>8, <1>9, <1>10, StepKinds

LEMMA StreamUnmoved ==
  ASSUME UNCHANGED <<out, head, body, air, delivered>>
  PROVE  /\ Sized => Sized'
         /\ Contiguous => Contiguous'
         /\ Assembled => Assembled'
         /\ FewLost => FewLost'
         /\ Taken' = Taken /\ Fresh' = Fresh
<1> USE DEF Follows, Data, Parts, Packets, messageLength, chunkLength, Offset, CeilDiv
<1>1. Fresh' = Fresh /\ Announcing' = Announcing /\ Taken' = Taken
  BY DEF Fresh, Announcing, Taken
<1>2. Sized => Sized'
  BY <1>1 DEF Sized
<1>3. Contiguous => Contiguous'
  BY DEF Contiguous
<1>4. Assembled => Assembled'
  BY <1>1 DEF Assembled
<1>5. FewLost => FewLost'
  BY <1>1 DEF FewLost, Spoilt
<1> QED BY <1>1, <1>2, <1>3, <1>4, <1>5

(* A packet that follows the latest one is written: no gap. *)
LEMMA StreamWritten ==
  ASSUME RelayTyped(Messages), Sized, phase \in Sending,
         NEW p \in PacketsOf(Messages), Written(p), Beside,
         p.meta => p.number = Parts(p.message)
  PROVE  /\ Sized'
         /\ Contiguous /\ Assembled /\ AtEnd /\ FewLost
              /\ (\A q : Latest(q) => Follows(q, p))
            => Contiguous' /\ Assembled' /\ FewLost'
         /\ out' # <<>> /\ out'[Len(out')] = p
<1>1. /\ out' \in Seq(PacketsOf(Messages)) /\ Len(out') = Len(out) + 1 /\ Len(out) \in Nat
      /\ \A k \in 1..Len(out) : k \in 1..Len(out') /\ out'[k] = out[k]
      /\ out'[Len(out')] = p
      /\ \A k \in 1..Len(out') : k \in 1..Len(out) \/ k = Len(out')
  BY OutAppend
<1>2. UNCHANGED <<head, body, air, delivered>> /\ Fresh' = Fresh /\ Taken' = Taken
  BY DEF Beside, Fresh, Taken
<1>3. out' # <<>>
  BY <1>1, EmptySeq
<1>4. Sized'
  <2>1. \A k \in Announcing' : out'[k].number = Parts(out'[k].message)
    <3> SUFFICES ASSUME NEW k \in Announcing' PROVE out'[k].number = Parts(out'[k].message)
      OBVIOUS
    <3>1. k \in 1..Len(out') /\ out'[k].meta
      BY DEF Announcing
    <3>2. CASE k \in 1..Len(out)
      BY <1>1, <3>1, <3>2 DEF Sized, Announcing
    <3>3. CASE k = Len(out')
      BY <1>1, <3>1, <3>3
    <3> QED BY <1>1, <3>1, <3>2, <3>3
  <2> QED BY <1>2, <2>1 DEF Sized, Parts, Packets, messageLength, chunkLength, Offset, CeilDiv
<1>5. ASSUME Contiguous, Assembled, AtEnd, FewLost, \A q : Latest(q) => Follows(q, p)
      PROVE  Contiguous' /\ Assembled' /\ FewLost'
  <2>1. \A k \in 1..(Len(out') - 1) : Follows(out'[k], out'[k + 1])
    <3> SUFFICES ASSUME NEW k \in 1..(Len(out') - 1) PROVE Follows(out'[k], out'[k + 1])
      OBVIOUS
    <3>1. k \in 1..Len(out) /\ out'[k] = out[k]
      BY <1>1
    <3>2. CASE k = Len(out)
      <4>1. out # <<>> /\ k + 1 = Len(out')
        BY <1>1, <3>1, <3>2, EmptySeq
      <4>2. Latest(out[Len(out)])
        BY <1>5, <4>1 DEF AtEnd
      <4> QED BY <1>1, <1>5, <3>1, <3>2, <4>1, <4>2
    <3>3. CASE k < Len(out)
      <4>1. k \in 1..(Len(out) - 1) /\ k + 1 \in 1..Len(out)
        BY <1>1, <3>1, <3>3
      <4> QED BY <1>1, <1>5, <3>1, <4>1 DEF Contiguous
    <3> QED BY <1>1, <3>1, <3>2, <3>3
  <2>2. Contiguous'
    BY <2>1 DEF Contiguous, Follows, Data, Parts, Packets, messageLength, chunkLength, Offset, CeilDiv
  <2>3. Fresh => Follows(Taken, out'[1])
    <3> SUFFICES ASSUME Fresh PROVE Follows(Taken, out'[1])
      OBVIOUS
    <3>1. CASE out = <<>>
      <4>1. Len(out) = 0 /\ out'[1] = p
        BY <1>1, <3>1, EmptySeq
      <4>2. Latest(Taken)
        BY <1>5, <3>1 DEF AtEnd
      <4> QED BY <1>5, <4>1, <4>2
    <3>2. CASE out # <<>>
      <4>1. out \in Seq(PacketsOf(Messages))
        BY DEF RelayTyped
      <4>2. 1 \in 1..Len(out)
        BY <3>2, <4>1, EmptySeq
      <4> QED BY <1>1, <1>5, <3>2, <4>2 DEF Assembled
    <3> QED BY <3>1, <3>2
  <2>4. Assembled'
    BY <1>2, <1>5, <2>3
       DEF Assembled, Follows, Data, Parts, Packets, messageLength, chunkLength, Offset, CeilDiv
  <2>5. FewLost'
    BY <1>2, <1>5 DEF FewLost, Spoilt
  <2> QED BY <2>2, <2>4, <2>5
<1> QED BY <1>1, <1>3, <1>4, <1>5

LEMMA StreamStep ==
  ASSUME IInv, Ordered, Sized, Verdict, Stream, [Next]_vars
  PROVE  Sized' /\ Stream'
<1> DEFINE sending == phase \in Sending \cup Before
<1>1. Position /\ Progress /\ RelayTyped(Messages) /\ InTurn(numbers)
  BY DEF IInv, Ordered
<1>2. "cleanup" \notin Sending \cup Before /\ "exit" \notin Sending \cup Before
  BY DEF Sending, Before
<1>3. sending' <=> phase' \in Sending \cup Before
  BY Rigid
<1>4. ASSUME sending, Abort PROVE ~Unbroken'
  <2>1. phase' = "cleanup" /\ result' = "EXIT_FAILURE"
    BY <1>4 DEF Abort, Fail, main, Verdict
  <2> QED BY <1>2, <1>3, <2>1 DEF Unbroken
<1>5. ASSUME step # "payload", step' # "payload" PROVE \A q : Latest(q) <=> Latest(q)'
  BY <1>5 DEF Latest, Whole, Parts, Packets, messageLength, chunkLength, Offset, CeilDiv
<1>6. ASSUME UNCHANGED <<place, step, part>> PROVE \A q : Latest(q) <=> Latest(q)'
  BY <1>6 DEF Latest, Whole, Meta, Data, Current, place,
              Parts, Packets, messageLength, chunkLength, Offset, CeilDiv
<1>7. ASSUME UNCHANGED <<out, head, body, air, delivered>>, Unbroken' => Unbroken,
             sending' => sending /\ \A q : Latest(q) <=> Latest(q)'
      PROVE  Sized' /\ Stream'
  <2>1. /\ Sized' /\ Taken' = Taken /\ Fresh' = Fresh
        /\ Contiguous => Contiguous'
        /\ Assembled => Assembled'
        /\ FewLost => FewLost'
    BY <1>7, StreamUnmoved
  <2>2. sending' /\ AtEnd => AtEnd'
    BY <1>7, <2>1 DEF AtEnd
  <2>3. ~sending' => AtEnd'
    BY DEF AtEnd
  <2> QED BY <1>7, <2>1, <2>2, <2>3 DEF Stream
<1>8. ASSUME phase \in Sending, SentOne PROVE Unbroken /\ step' = "meta"
  BY <1>1, <1>8, SentOneCounts DEF Unbroken
<1>9. CASE Idled
  <2>1. UNCHANGED <<out, head, body, air, delivered>>
    BY <1>9 DEF Idled, RelaySame, relay
  <2>2. CASE /\ phase \notin Sending \cup {"cleanup", "exit"}
             /\ UNCHANGED <<options, result, index, repeat, sequence, step, part>>
    <3>1. phase \in Before /\ step = "meta"
      BY <1>1, <2>2 DEF Position, Behind
    <3> QED BY <1>5, <1>7, <2>1, <2>2, <3>1 DEF Unbroken
  <2>3. CASE phase \in {"cleanup"} /\ phase' = "exit" /\ UNCHANGED <<options, result, sequence, step, part>>
    BY <1>2, <1>3, <1>7, <2>1, <2>3 DEF Unbroken
  <2>4. CASE phase \in Sending /\ options.dryRun /\ SentOne /\ UNCHANGED part
    BY <1>5, <1>7, <1>8, <2>1, <2>4 DEF Verdict
  <2>5. CASE phase \in Sending /\ Abort
    BY <1>2, <1>3, <1>4, <1>7, <2>1, <2>5 DEF Abort, Fail
  <2>6. CASE UNCHANGED <<main, place, step, part>>
    BY <1>3, <1>6, <1>7, <2>1, <2>6 DEF Unbroken, main, place
  <2> QED BY <1>9, <2>2, <2>3, <2>4, <2>5, <2>6 DEF Idled
<1>10. ASSUME phase \in Sending, Sized', out' # <<>>, Latest(out[Len(out)])',
              Contiguous /\ Assembled /\ AtEnd /\ FewLost => Contiguous' /\ Assembled' /\ FewLost'
       PROVE  Sized' /\ Stream'
  BY <1>10 DEF Stream, Unbroken, AtEnd
<1>11. CASE WroteMeta
  <2> DEFINE p == Meta(Current, Packets(phase, index))
  <2>1. phase \in Sending /\ step = "meta" /\ Written(p) /\ Beside
    BY <1>11 DEF WroteMeta
  <2>2. /\ Current \in Messages /\ Parts(Current) = Packets(phase, index)
        /\ Parts(Current) \in Nat
    BY <1>1, <2>1, CurrentMessage, PartsType
  <2>3. p \in PacketsOf(Messages) /\ p.meta /\ p.number = Parts(p.message)
    BY <2>2 DEF Meta, PacketsOf
  <2>4. \A q : Latest(q) => Follows(q, p)
    <3> SUFFICES ASSUME NEW q, Latest(q) PROVE Follows(q, p)
      OBVIOUS
    <3>1. ~q.meta /\ q.number = Parts(q.message)
      BY <2>1 DEF Latest, Whole
    <3> QED BY <2>3, <3>1 DEF Follows
  <2>5. /\ Sized' /\ out' # <<>> /\ out'[Len(out')] = p
        /\ Contiguous /\ Assembled /\ AtEnd /\ FewLost => Contiguous' /\ Assembled' /\ FewLost'
    BY <1>1, <2>1, <2>3, <2>4, StreamWritten
  <2>6. CASE step' = "payload" /\ part' = 0 /\ UNCHANGED <<main, place>>
    <3>1. \A q : q = p => Latest(q)'
      BY <2>2, <2>6 DEF Latest, Meta, Current, place, Parts, Packets, messageLength, chunkLength,
                        Offset, CeilDiv
    <3> QED BY <1>10, <2>1, <2>5, <3>1
  <2>7. CASE Abort
    BY <1>4, <2>1, <2>5, <2>7 DEF Stream
  <2> QED BY <1>11, <2>6, <2>7 DEF WroteMeta
<1>12. CASE WroteData
  <2> DEFINE p == Data(Current, part + 1)
  <2>1. phase \in Sending /\ step = "payload" /\ Written(p) /\ Beside
    BY <1>12 DEF WroteData
  <2>2. /\ Current \in Messages /\ Parts(Current) = Packets(phase, index)
        /\ Parts(Current) \in Nat /\ part \in Nat /\ part < Parts(Current)
    BY <1>1, <2>1, CurrentMessage, PartsType DEF Progress
  <2>3. p \in PacketsOf(Messages) /\ ~p.meta /\ p.message = Current /\ p.number = part + 1
    BY <2>2 DEF Data, PacketsOf
  <2>4. \A q : Latest(q) => Follows(q, p)
    <3> SUFFICES ASSUME NEW q, Latest(q) PROVE Follows(q, p)
      OBVIOUS
    <3>1. CASE part = 0
      <4>1. q = Meta(Current, Parts(Current)) /\ part + 1 = 1
        BY <2>1, <3>1 DEF Latest
      <4>2. q.meta /\ q.message = Current
        BY <4>1 DEF Meta
      <4> QED BY <4>1, <4>2 DEF Follows
    <3>2. CASE part # 0
      <4>1. q = Data(Current, part)
        BY <2>1, <3>2 DEF Latest
      <4>2. ~q.meta /\ q.message = Current /\ q.number = part
        BY <4>1 DEF Data
      <4> QED BY <2>2, <4>2 DEF Follows
    <3> QED BY <3>1, <3>2
  <2>5. /\ Sized' /\ out' # <<>> /\ out'[Len(out')] = p
        /\ Contiguous /\ Assembled /\ AtEnd /\ FewLost => Contiguous' /\ Assembled' /\ FewLost'
    BY <1>1, <2>1, <2>3, <2>4, StreamWritten
  <2>6. CASE part' = part + 1 /\ UNCHANGED <<main, place, step>>
    <3>1. \A q : q = p => Latest(q)'
      BY <2>1, <2>2, <2>6 DEF Latest, Data, Current, place
    <3> QED BY <1>10, <2>1, <2>5, <3>1
  <2>7. CASE part + 1 = Packets(phase, index) /\ (step' = "ack" \/ SentOne)
    <3>1. step' # "payload"
      BY <1>8, <2>1, <2>7
    <3>2. p.number = Parts(p.message)
      BY <2>2, <2>3, <2>7
    <3>3. \A q : q = p => Latest(q)'
      BY <2>3, <3>1, <3>2 DEF Latest, Whole, Parts, Packets, messageLength, chunkLength,
                              Offset, CeilDiv
    <3> QED BY <1>10, <2>1, <2>5, <3>3
  <2>8. CASE Abort
    BY <1>4, <2>1, <2>5, <2>8 DEF Stream
  <2> QED BY <1>12, <2>6, <2>7, <2>8 DEF WroteData
<1>13. CASE ReadPacket
  <2>1. /\ phase \in Sending /\ step = "ack" /\ UNCHANGED <<out, head, body, air, delivered, part>>
        /\ SentOne \/ UNCHANGED <<main, place, step>>
    BY <1>13 DEF ReadPacket
  <2>2. Unbroken
    BY <2>1 DEF Unbroken
  <2>3. \A q : Latest(q) <=> Latest(q)'
    BY <1>5, <1>6, <1>8, <2>1
  <2> QED BY <1>7, <2>1, <2>2, <2>3
<1>14. CASE RelayMoved
  <2>1. UNCHANGED <<main, place, step, part>>
    BY <1>14 DEF RelayMoved
  <2>2. (\A q : Latest(q) <=> Latest(q)') /\ (Unbroken' <=> Unbroken) /\ (sending' <=> sending)
    BY <1>3, <1>6, <2>1 DEF Unbroken, main, place
  <2>3. CASE TakePacket
    <3>1. /\ Sized'
          /\ Contiguous /\ Assembled => Contiguous' /\ Assembled'
          /\ FewLost => FewLost'
          /\ out' # <<>> => out # <<>> /\ out'[Len(out')] = out[Len(out)]
          /\ out' = <<>> /\ Fresh' => out # <<>> /\ Taken' = out[Len(out)]
      BY <1>1, <2>3, TakeInStream
    <3>2. AtEnd => AtEnd'
      BY <1>3, <2>2, <3>1 DEF AtEnd
    <3> QED BY <2>2, <3>1, <3>2 DEF Stream
  <2>4. CASE Transmit
    <3>1. /\ Sized' /\ out' = out /\ ~Fresh'
          /\ Contiguous /\ Assembled /\ FewLost => Contiguous' /\ Assembled' /\ FewLost'
      BY <1>1, <2>4, TransmitInStream
    <3>2. AtEnd => AtEnd'
      BY <1>3, <2>2, <3>1 DEF AtEnd
    <3> QED BY <2>2, <3>1, <3>2 DEF Stream
  <2>5. CASE Sniff(Piece(1, 1))
    BY <1>1, <1>7, <2>2, <2>5, SniffKeeps
  <2> QED BY <1>14, <2>3, <2>4, <2>5 DEF RelayMoved
<1> QED BY <1>1, <1>9, <1>11, <1>12, <1>13, <1>14, StepKinds

(* A broadcast that reports success under waitForLocalAck has put the      *)
(* whole schedule on the air, but for one transmission per ACK that an     *)
(* earlier run left unread and the one the relay swallows as the rest of   *)
(* an old message (broadcastImage's return value).                         *)
THEOREM SuccessDelivers == Spec => []SuccessMeansDelivered
<1> DEFINE J == IInv /\ Ordered /\ Paced /\ Sized /\ Verdict /\ Stream
<1>1. Init => J
  BY InitIInv, OrderedStarts, PacedStarts, StreamStarts
<1>2. J /\ [Next]_vars => J'
  BY NextIInv, OrderedStep, PacedStep, VerdictStep, StreamStep
<1>3. J => SuccessMeansDelivered
  <2> SUFFICES ASSUME J, result = "EXIT_SUCCESS", options.waitForLocalAck, ~options.dryRun
               PROVE  Plan!Total - Len(delivered) <= StaleAcks + (IF StaleParts > 0 THEN 1 ELSE 0)
    BY DEF SuccessMeansDelivered
  <2>1. /\ sequence \in Nat /\ Acks(in) \in Nat /\ Len(air) \in Nat /\ Len(delivered) \in Nat
        /\ StaleAcks \in Nat /\ StaleParts \in Nat /\ Plan!Total \in Nat
    BY AcksFinite, RelayAssumption, TotalType DEF IInv, Position, Ordered, RelayTyped
  <2>2. sequence = Plan!Total + 1
    BY DEF Verdict
  <2>3. sequence - 1 + Acks(in) <= Len(air) + StaleAcks
    BY DEF Paced, Waiting
  <2>4. Len(air) <= Len(delivered) + Spoilt
    BY DEF Stream, Unbroken, FewLost
  <2>5. Spoilt \in Nat /\ Spoilt <= IF StaleParts > 0 THEN 1 ELSE 0
    BY DEF Spoilt
  <2> QED BY <2>1, <2>2, <2>3, <2>4, <2>5
<1> HIDE DEF J
<1> QED BY <1>1, <1>2, <1>3, PTL DEF Spec

-----------------------------------------------------------------------------
(* The schedule without repetitions: START, the chunks, END                *)

Pass(i)  == (i - 1) \div PACKET_REPEAT_COUNT
Stage(i) == IF i = 0 THEN 0 ELSE IF Pass(i) < startRounds THEN 1 ELSE Pass(i) - startRounds + 2

Item(k) ==
  [kind   |-> IF k = 1 THEN "START" ELSE IF k <= totalChunks + 1 THEN "DATA" ELSE "END",
   index  |-> IF 2 <= k /\ k <= totalChunks + 1 THEN k - 2 ELSE 0,
   length |-> IF k = 1 THEN OTA_START_INFO_SIZE
              ELSE IF k <= totalChunks + 1 THEN chunkLength(k - 2) ELSE 0]

Items(n) == [k \in 1..n |-> Item(k)]

(* The pass of the loops that a message belongs to goes up one by one.     *)
LEMMA PassBounds ==
  ASSUME NEW i \in 1..Plan!Total
  PROVE  /\ Pass(i) \in Nat /\ Pass(i) <= startRounds + totalChunks
         /\ i = 1 => Pass(i) = 0
         /\ i = Plan!Total => Pass(i) = startRounds + totalChunks
         /\ i # 1 => Pass(i - 1) \in Nat /\ Pass(i - 1) <= Pass(i) /\ Pass(i) <= Pass(i - 1) + 1
<1> DEFINE n == startRounds + totalChunks
           R == PACKET_REPEAT_COUNT
<1>1. /\ n \in Nat /\ i \in Nat /\ i >= 1 /\ Plan!Total = (n + 1) * R /\ i <= (n + 1) * R
      /\ R \in {1, 2, 3}
  BY TotalType
<1> HIDE DEF n, R
<1>2. CASE R = 1
  BY <1>1, <1>2 DEF Pass, R, n
<1>3. CASE R = 2
  BY <1>1, <1>3 DEF Pass, R, n
<1>4. CASE R = 3
  BY <1>1, <1>4 DEF Pass, R, n
<1> QED BY <1>1, <1>2, <1>3, <1>4

(* So does its place among the messages that differ.                       *)
LEMMA StageBounds ==
  ASSUME NEW i \in 1..Plan!Total
  PROVE  /\ Stage(i) \in 1..(totalChunks + 2)
         /\ Stage(i - 1) \in 0..(totalChunks + 2)
         /\ Stage(i) = Stage(i - 1) \/ Stage(i) = Stage(i - 1) + 1
         /\ i = 1 => Stage(i) = 1 /\ Stage(i - 1) = 0
         /\ i # 1 => Stage(i - 1) \in 1..(totalChunks + 2)
         /\ i = Plan!Total => Stage(i) = totalChunks + 2
<1>1. /\ startRounds \in Nat /\ startRounds >= 1 /\ totalChunks \in Nat /\ totalChunks >= 1
      /\ i \in Nat /\ i >= 1
  BY TotalType
<1>2. /\ Pass(i) \in Nat /\ Pass(i) <= startRounds + totalChunks
      /\ i = 1 => Pass(i) = 0
      /\ i = Plan!Total => Pass(i) = startRounds + totalChunks
      /\ i # 1 => Pass(i - 1) \in Nat /\ Pass(i - 1) <= Pass(i) /\ Pass(i) <= Pass(i - 1) + 1
  BY PassBounds
<1>3. CASE i = 1
  BY <1>1, <1>2, <1>3 DEF Stage
<1>4. CASE i # 1
  BY <1>1, <1>2, <1>4 DEF Stage
<1> QED BY <1>3, <1>4

(* Each message of the schedule is one of these. *)
LEMMA OnceIsItem ==
  ASSUME NEW i \in 1..Plan!Total
  PROVE  Once(i) = Item(Stage(i))
<1> DEFINE n == Pass(i)
           m == Plan!Message(i)
<1>1. /\ startRounds \in Nat /\ startRounds >= 1 /\ totalChunks \in Nat /\ totalChunks >= 1
      /\ n \in Nat /\ n <= startRounds + totalChunks /\ i \in Nat /\ i # 0
  BY TotalType, PassBounds
<1>2. /\ m.kind = CASE n < startRounds -> "START"
                    [] n \in startRounds..(startRounds + totalChunks - 1) -> "DATA"
                    [] OTHER -> "END"
      /\ m.index = IF n \in startRounds..(startRounds + totalChunks - 1) THEN n - startRounds ELSE 0
  BY DEF Plan!Message, Pass
<1>3. Once(i) = [kind |-> m.kind, index |-> m.index,
                 length |-> messageLength(m.kind, m.index) - OTA_HEADER_SIZE]
  BY DEF Once
<1>4. Stage(i) = IF n < startRounds THEN 1 ELSE n - startRounds + 2
  BY <1>1 DEF Stage
<1> HIDE DEF n, m
<1>5. CASE n < startRounds
  <2>1. m.kind = "START" /\ m.index = 0 /\ Stage(i) = 1
    BY <1>1, <1>2, <1>4, <1>5
  <2>2. messageLength(m.kind, m.index) - OTA_HEADER_SIZE = OTA_START_INFO_SIZE
    BY <2>1 DEF messageLength, OTA_HEADER_SIZE, OTA_START_INFO_SIZE
  <2> QED BY <1>3, <2>1, <2>2 DEF Item
<1>6. CASE ~(n < startRounds) /\ n \in startRounds..(startRounds + totalChunks - 1)
  <2>1. m.kind = "DATA" /\ m.index = n - startRounds /\ Stage(i) = n - startRounds + 2
    BY <1>2, <1>4, <1>6
  <2>2. m.index \in 0..(totalChunks - 1) /\ Stage(i) = m.index + 2
    BY <1>1, <1>6, <2>1
  <2>3. chunkLength(m.index) \in Nat
    BY <2>2, ChunksPartitionImage DEF OTA_DATA_PAYLOAD_MAX
  <2>4. messageLength(m.kind, m.index) - OTA_HEADER_SIZE = chunkLength(m.index)
    BY <2>1, <2>3 DEF messageLength, OTA_HEADER_SIZE
  <2>5. Stage(i) # 1 /\ 2 <= Stage(i) /\ Stage(i) <= totalChunks + 1 /\ Stage(i) - 2 = m.index
    BY <1>1, <2>2
  <2> QED BY <1>3, <2>1, <2>4, <2>5 DEF Item
<1>7. CASE ~(n < startRounds) /\ n \notin startRounds..(startRounds + totalChunks - 1)
  <2>1. m.kind = "END" /\ m.index = 0
    BY <1>2, <1>7
  <2>2. Stage(i) = totalChunks + 2 /\ Stage(i) # 1 /\ ~(Stage(i) <= totalChunks + 1)
    BY <1>1, <1>4, <1>7
  <2>3. messageLength(m.kind, m.index) - OTA_HEADER_SIZE = 0
    BY <2>1 DEF messageLength, OTA_HEADER_SIZE
  <2> QED BY <1>3, <2>1, <2>2, <2>3 DEF Item
<1> QED BY <1>5, <1>6, <1>7

(* No two of these are the same.                                           *)
LEMMA ItemsDiffer ==
  ASSUME NEW j \in 1..(totalChunks + 2), NEW k \in 1..(totalChunks + 2), Item(j) = Item(k)
  PROVE  j = k
<1>1. totalChunks \in Nat
  BY TotalType
<1>2. Item(j).kind = Item(k).kind /\ Item(j).index = Item(k).index
  OBVIOUS
<1>3. /\ Item(j).kind = IF j = 1 THEN "START" ELSE IF j <= totalChunks + 1 THEN "DATA" ELSE "END"
      /\ Item(k).kind = IF k = 1 THEN "START" ELSE IF k <= totalChunks + 1 THEN "DATA" ELSE "END"
      /\ Item(j).index = IF 2 <= j /\ j <= totalChunks + 1 THEN j - 2 ELSE 0
      /\ Item(k).index = IF 2 <= k /\ k <= totalChunks + 1 THEN k - 2 ELSE 0
  BY DEF Item
<1> QED BY <1>1, <1>2, <1>3

(* A message is the first of its kind when the stage has just begun. *)
LEMMA FirstsBegin ==
  ASSUME NEW i \in 1..Plan!Total
  PROVE  i \in Firsts <=> Stage(i) = Stage(i - 1) + 1
<1>1. i \in Nat /\ Plan!Total \in Nat /\ Plan!Total >= 1 /\ totalChunks \in Nat
  BY TotalType
<1>2. CASE i = 1
  BY <1>1, <1>2, StageBounds DEF Firsts
<1>3. CASE i # 1
  <2>1. i - 1 \in 1..Plan!Total
    BY <1>1, <1>3
  <2>2. Once(i) = Item(Stage(i)) /\ Once(i - 1) = Item(Stage(i - 1))
    BY <2>1, OnceIsItem
  <2>3. /\ Stage(i) \in 1..(totalChunks + 2) /\ Stage(i - 1) \in 1..(totalChunks + 2)
        /\ Stage(i) = Stage(i - 1) \/ Stage(i) = Stage(i - 1) + 1
    BY <1>3, StageBounds
  <2>4. Once(i) # Once(i - 1) <=> Stage(i) # Stage(i - 1)
    BY <2>2, <2>3, ItemsDiffer, Zenon
  <2>5. Stage(i) # Stage(i - 1) <=> Stage(i) = Stage(i - 1) + 1
    BY <1>1, <2>3
  <2> QED BY <1>3, <2>4, <2>5 DEF Firsts
<1> QED BY <1>2, <1>3

(* A set of numbers has a least one.                                       *)
LEMMA LeastNumber ==
  ASSUME NEW S \in SUBSET Nat, S # {}
  PROVE  \E n \in S : \A m \in S : n <= m
<1> DEFINE R == OpToRel(<, Nat)
<1>1. IsWellFoundedOn(R, Nat)
  BY NatLessThanWellFounded, Zenon
<1>2. \A m, n \in Nat : m < n => <<m, n>> \in R
  BY DEF OpToRel
<1> HIDE DEF R
<1>3. PICK n \in S : \A m \in S : ~(<<m, n>> \in R)
  BY ONLY <1>1, WFMin, S # {}, S \in SUBSET Nat, Zenon
<1>4. \A m \in S : n <= m
  <2> TAKE m \in S
  <2>1. m \in Nat /\ n \in Nat /\ ~(m < n)
    BY <1>2, <1>3
  <2> QED BY <2>1
<1> QED BY <1>3, <1>4

NextItems(u, i) ==
  IF i = 0 THEN <<>>
  ELSE IF i \in Firsts THEN Append(u[i - 1], Once(i))
  ELSE u[i - 1]

Unrepeated == CHOOSE u : u = [i \in 0..Plan!Total |-> NextItems(u, i)]

(* The schedule without repetitions is START, the chunks in order, and END. *)
LEMMA ScheduleIs == Schedule = Items(totalChunks + 2)
<1> DEFINE T == Plan!Total
<1>1. T \in Nat /\ T >= 1 /\ totalChunks \in Nat
  BY TotalType
<1>2. Schedule = Unrepeated[T]
  BY DEF Schedule, Unrepeated, NextItems
<1>3. ASSUME NEW u, NEW i \in 0..T, i # 0 => u[i - 1] = Items(Stage(i - 1))
      PROVE  NextItems(u, i) = Items(Stage(i))
  <2>1. CASE i = 0
    <3>1. Stage(0) = 0
      BY DEF Stage
    <3>2. Items(0) = <<>>
      BY DEF Items
    <3> QED BY <2>1, <3>1, <3>2 DEF NextItems
  <2>2. CASE i # 0
    <3>1. i \in 1..T
      BY <1>1, <2>2
    <3> DEFINE n == Stage(i - 1)
    <3>2. n \in Nat /\ (Stage(i) = n \/ Stage(i) = n + 1)
      BY <3>1, StageBounds
    <3>3. i \in Firsts <=> Stage(i) = n + 1
      BY <3>1, FirstsBegin
    <3>4. Once(i) = Item(Stage(i))
      BY <3>1, OnceIsItem
    <3>5. u[i - 1] = Items(n)
      BY <1>3, <2>2
    <3> HIDE DEF n
    <3>6. CASE i \in Firsts
      <4>1. Append(Items(n), Item(n + 1)) = Items(n + 1)
        BY <3>2 DEF Items
      <4> QED BY <2>2, <3>3, <3>4, <3>5, <3>6, <4>1 DEF NextItems
    <3>7. CASE i \notin Firsts
      BY <2>2, <3>2, <3>3, <3>5, <3>7 DEF NextItems
    <3> QED BY <3>6, <3>7
  <2> QED BY <2>1, <2>2
<1>4. Unrepeated = [i \in 0..T |-> NextItems(Unrepeated, i)]
  <2> DEFINE f == [i \in 0..T |-> Items(Stage(i))]
  <2>1. ASSUME NEW i \in 0..T PROVE NextItems(f, i) = f[i]
    <3>1. i # 0 => i - 1 \in 0..T
      BY <1>1
    <3>2. i # 0 => f[i - 1] = Items(Stage(i - 1))
      BY <3>1, Zenon
    <3>3. f[i] = Items(Stage(i))
      OBVIOUS
    <3> HIDE DEF f
    <3> QED BY <1>3, <3>2, <3>3, Zenon
  <2>2. f = [i \in 0..T |-> NextItems(f, i)]
    BY <2>1, Zenon
  <2> HIDE DEF f
  <2>3. \E u : u = [i \in 0..T |-> NextItems(u, i)]
    BY <2>2, Zenon
  <2> QED BY <2>3, Zenon DEF Unrepeated
<1> DEFINE u == Unrepeated
           B == {i \in 0..T : u[i] # Items(Stage(i))}
<1>5. B = {}
  <2> SUFFICES ASSUME B # {} PROVE FALSE
    OBVIOUS
  <2>1. B \in SUBSET Nat
    OBVIOUS
  <2>2. PICK i \in B : \A j \in B : i <= j
    BY <2>1, LeastNumber, Zenon
  <2>3. i \in 0..T /\ u[i] # Items(Stage(i))
    OBVIOUS
  <2>4. ASSUME i # 0 PROVE u[i - 1] = Items(Stage(i - 1))
    <3>1. i - 1 \in 0..T /\ ~(i <= i - 1)
      BY <1>1, <2>3, <2>4
    <3> QED BY <2>2, <3>1, Zenon
  <2>5. u[i] = NextItems(u, i)
    BY <1>4, <2>3, Zenon
  <2> HIDE DEF u
  <2> QED BY <1>3, <2>3, <2>4, <2>5, Zenon
<1>6. T \in 0..T /\ T \in 1..T
  BY <1>1
<1>7. u[T] = Items(Stage(T))
  BY <1>5, <1>6, Zenon
<1>8. Stage(T) = totalChunks + 2
  BY <1>6, StageBounds
<1> QED BY <1>2, <1>7, <1>8

-----------------------------------------------------------------------------
(* The flasher *)

(* Where the reading is when so many chunks were read in full *)
Read(chunks) == IF chunks < totalChunks THEN Offset(chunks) ELSE ImageSize

FlasherTyped ==
  /\ flasher_at \in {"size", "reopen", "data", "exit"}
  /\ ferror \in BOOLEAN /\ exit_status \in {0, 1}
  /\ chunk_index \in Nat /\ file_size \in Nat

(* As long as the image is as the broadcaster found it and no read has     *)
(* failed, the items of the schedule are printed one after the other.      *)
Printing ==
  /\ flasher_at = "size" => printed = Items(0) /\ chunk_index = 0 /\ position = 0 /\ exit_status = 1
  /\ flasher_at = "reopen" => printed = Items(1) /\ chunk_index = 0 /\ position = 0 /\ exit_status = 1
  /\ file_size = ImageSize /\ ~ferror =>
       /\ flasher_at = "data" =>
            /\ printed = Items(chunk_index + 1) /\ chunk_index <= totalChunks
            /\ position = Read(chunk_index) /\ exit_status = 1
       /\ flasher_at = "exit" =>
            \/ exit_status = 1 /\ \E n \in 0..(totalChunks + 1) : printed = Items(n)
            \/ exit_status = 0 /\ printed = Items(totalChunks + 2)

FlasherInv == FlasherTyped /\ Printing

(* One more item                                                           *)
LEMMA ItemsGrow ==
  ASSUME NEW n \in Nat
  PROVE  Append(Items(n), Item(n + 1)) = Items(n + 1)
  BY DEF Items

(* The items, and where the reading is, do not change. *)
LEMMA FlasherRigid ==
  /\ totalChunks' = totalChunks
  /\ \A n : (Items(n))' = Items(n)
  /\ \A n : (Read(n))' = Read(n)
BY DEF totalChunks, CeilDiv, Items, Item, Read, Offset, chunkLength, OTA_DATA_PAYLOAD_MAX,
       OTA_START_INFO_SIZE

(* At first nothing is printed.                                            *)
LEMMA FlasherStarts == FlasherInit => FlasherInv
<1> SUFFICES ASSUME FlasherInit PROVE FlasherInv
  OBVIOUS
<1>1. Items(0) = <<>>
  BY DEF Items
<1> QED BY <1>1, FlasherAssumption DEF FlasherInit, FlasherInv, FlasherTyped, Printing

(* The next chunk, of the size that is left or of a full message           *)
LEMMA ChunkRead ==
  ASSUME file_size = ImageSize, chunk_index \in Nat, chunk_index <= totalChunks,
         position = Read(chunk_index)
  PROVE  /\ chunk_index < totalChunks =>
              /\ bytesLeft = chunkLength(chunk_index) /\ bytesLeft \in Nat \ {0}
              /\ position + bytesLeft = Read(chunk_index + 1)
         /\ chunk_index = totalChunks => bytesLeft = 0
<1> DEFINE c == chunk_index
<1>1. totalChunks \in Nat /\ ImageSize \in Nat
  BY TotalType, ImageAssumption
<1>2. CASE c < totalChunks
  <2>1. c \in 0..(totalChunks - 1)
    BY <1>1, <1>2
  <2>2. /\ chunkLength(c) \in 1..OTA_DATA_PAYLOAD_MAX
        /\ c < totalChunks - 1 => Offset(c + 1) = Offset(c) + chunkLength(c)
        /\ c = totalChunks - 1 => Offset(c) + chunkLength(c) = ImageSize
    BY <2>1, ChunksPartitionImage, Zenon
  <2>3. position = Offset(c)
    BY <1>2 DEF Read
  <2>4. bytesLeft = chunkLength(c)
    BY <2>3 DEF bytesLeft, chunkLength
  <2>5. position + bytesLeft = Read(c + 1)
    <3>1. CASE c < totalChunks - 1
      BY <1>1, <2>1, <2>2, <2>3, <2>4, <3>1 DEF Read
    <3>2. CASE c = totalChunks - 1
      BY <1>1, <2>1, <2>2, <2>3, <2>4, <3>2 DEF Read
    <3> QED BY <1>1, <2>1, <3>1, <3>2
  <2>6. bytesLeft \in Nat \ {0}
    BY <2>2, <2>4 DEF OTA_DATA_PAYLOAD_MAX
  <2> QED BY <1>2, <2>4, <2>5, <2>6
<1>3. CASE c = totalChunks
  <2>1. position = ImageSize
    BY <1>1, <1>3 DEF Read
  <2> QED BY <1>1, <1>3, <2>1 DEF bytesLeft, OTA_DATA_PAYLOAD_MAX
<1> QED BY <1>2, <1>3

(* Every step of the flasher prints the next item, or ends.                *)
LEMMA FlasherSteps ==
  ASSUME FlasherInv, FlasherStep
  PROVE  FlasherInv'
<1>0. /\ flasher_at \in {"size", "reopen", "data", "exit"}
      /\ ferror \in BOOLEAN /\ exit_status \in {0, 1}
      /\ chunk_index \in Nat /\ file_size \in Nat
      /\ totalChunks \in Nat /\ totalChunks >= 1 /\ ImageSizes \subseteq Nat
  BY TotalType, FlasherAssumption DEF FlasherInv, FlasherTyped
<1>1. CASE FlasherFails
  <2>1. flasher_at' = "exit" /\ UNCHANGED <<exit_status, image_size, file_size, position,
                                            chunk_index, ferror, printed>>
        /\ flasher_at \in {"size", "reopen"}
    BY <1>1 DEF FlasherFails
  <2>2. FlasherTyped'
    BY <1>0, <2>1 DEF FlasherTyped
  <2>3. exit_status' = 1 /\ (printed' = Items(0) \/ printed' = Items(1))
    BY <2>1 DEF FlasherInv, Printing
  <2>4. 0 \in 0..(totalChunks + 1) /\ 1 \in 0..(totalChunks + 1)
    BY <1>0
  <2>5. \E n \in 0..(totalChunks + 1) : printed' = Items(n)
    BY <2>3, <2>4, Zenon
  <2>6. flasher_at' = "exit" /\ "exit" # "size" /\ "exit" # "reopen" /\ "exit" # "data"
    BY <2>1
  <2> QED BY <2>2, <2>3, <2>5, <2>6, FlasherRigid, Zenon DEF FlasherInv, Printing
<1>2. CASE PrintStart
  <2>1. /\ flasher_at = "size" /\ flasher_at' = "reopen"
        /\ UNCHANGED <<exit_status, file_size, position, chunk_index, ferror>>
        /\ printed' = Append(printed, [kind |-> "START", index |-> 0 % 65536,
                                       length |-> OTA_START_INFO_SIZE])
    BY <1>2 DEF PrintStart, printMessage
  <2>2. printed = Items(0) /\ chunk_index = 0 /\ position = 0 /\ exit_status = 1
    BY <2>1 DEF FlasherInv, Printing
  <2>3. Item(1) = [kind |-> "START", index |-> 0 % 65536, length |-> OTA_START_INFO_SIZE]
    BY DEF Item
  <2>4. printed' = Items(1)
    <3>1. 0 \in Nat /\ 0 + 1 = 1
      OBVIOUS
    <3>2. Append(Items(0), Item(1)) = Items(1)
      BY <3>1, ItemsGrow
    <3> QED BY <2>1, <2>2, <2>3, <3>2
  <2> QED BY <1>0, <2>1, <2>2, <2>4, FlasherRigid DEF FlasherInv, FlasherTyped, Printing
<1>3. CASE Reopen
  <2>1. /\ flasher_at = "reopen" /\ flasher_at' = "data" /\ file_size' \in ImageSizes
        /\ UNCHANGED <<exit_status, position, chunk_index, ferror, printed>>
    BY <1>3 DEF Reopen
  <2>2. printed = Items(1) /\ chunk_index = 0 /\ position = 0 /\ exit_status = 1
    BY <2>1 DEF FlasherInv, Printing
  <2>3. Read(0) = 0 /\ 0 + 1 = 1 /\ 0 <= totalChunks
    BY <1>0, ChunksPartitionImage DEF Read
  <2> QED BY <1>0, <2>1, <2>2, <2>3, FlasherRigid DEF FlasherInv, FlasherTyped, Printing
<1>4. CASE PrintData
  <2>1. /\ flasher_at = "data" /\ flasher_at' = "data" /\ chunk_index' = chunk_index + 1
        /\ UNCHANGED <<exit_status, file_size>>
    BY <1>4 DEF PrintData
  <2>2. PICK bytes_read \in {1, bytesLeft} \cap 1..bytesLeft :
          /\ printed' = Append(printed, [kind |-> "DATA", index |-> chunk_index % 65536,
                                         length |-> bytes_read])
          /\ position' = position + bytes_read
          /\ ferror' = (ferror \/ bytes_read < bytesLeft)
    BY <1>4 DEF PrintData, printMessage
  <2>3. FlasherTyped'
    BY <1>0, <2>1, <2>2 DEF FlasherTyped
  <2>4. ASSUME file_size' = ImageSize, ~ferror'
        PROVE  /\ printed' = Items(chunk_index' + 1) /\ chunk_index' <= totalChunks
               /\ position' = Read(chunk_index') /\ exit_status' = 1
    <3>1. file_size = ImageSize /\ ~ferror /\ ~(bytes_read < bytesLeft)
      <4>3. ASSUME ferror \/ bytes_read < bytesLeft PROVE FALSE
        <5>1. (ferror \/ bytes_read < bytesLeft) = TRUE
          BY <4>3
        <5>2. ferror' = (ferror \/ bytes_read < bytesLeft)
          BY <2>2
        <5>3. ~ferror'
          BY <2>4
        <5>4. ferror' = TRUE
          BY <5>1, <5>2
        <5> QED BY <5>3, <5>4
      <4>1. ~(ferror \/ bytes_read < bytesLeft)
        BY <4>3
      <4>2. file_size = ImageSize
        BY <2>1, <2>4, Zenon
      <4> QED BY <4>1, <4>2, Zenon
    <3>2. /\ printed = Items(chunk_index + 1) /\ chunk_index <= totalChunks
          /\ position = Read(chunk_index) /\ exit_status = 1
      BY <2>1, <3>1 DEF FlasherInv, Printing
    <3>3. /\ chunk_index < totalChunks =>
               /\ bytesLeft = chunkLength(chunk_index) /\ bytesLeft \in Nat \ {0}
               /\ position + bytesLeft = Read(chunk_index + 1)
          /\ chunk_index = totalChunks => bytesLeft = 0
      BY <1>0, <3>1, <3>2, ChunkRead, Zenon
    <3>4. chunk_index < totalChunks
      BY <1>0, <2>2, <3>2, <3>3
    <3>5. bytes_read = bytesLeft
      BY <2>2, <3>1, <3>3, <3>4
    <3>6. chunk_index % 65536 = chunk_index
      BY <1>0, <3>4, Counts
    <3>7. Item(chunk_index + 2) = [kind |-> "DATA", index |-> chunk_index, length |-> chunkLength(chunk_index)]
      <4>1. /\ chunk_index + 2 # 1 /\ chunk_index + 2 <= totalChunks + 1 /\ 2 <= chunk_index + 2
            /\ (chunk_index + 2) - 2 = chunk_index
        BY <1>0, <3>4
      <4> QED BY <4>1 DEF Item
    <3>8. printed' = Items(chunk_index + 2)
      <4>1. printed' = Append(Items(chunk_index + 1), Item(chunk_index + 2))
        BY <2>2, <3>2, <3>3, <3>4, <3>5, <3>6, <3>7
      <4>2. chunk_index + 1 \in Nat /\ (chunk_index + 1) + 1 = chunk_index + 2
        BY <1>0
      <4> QED BY <4>1, <4>2, ItemsGrow
    <3> QED BY <1>0, <2>1, <2>2, <3>2, <3>3, <3>4, <3>5, <3>8
  <2> QED BY <2>1, <2>3, <2>4, FlasherRigid DEF FlasherInv, Printing
<1>5. CASE PrintEnd
  <2>1. /\ flasher_at = "data" /\ flasher_at' = "exit"
        /\ UNCHANGED <<file_size, position, chunk_index>>
    BY <1>5 DEF PrintEnd
  <2>2. PICK failed \in BOOLEAN : (failed \/ bytesLeft = 0) /\ ferror' = (ferror \/ failed)
    BY <1>5 DEF PrintEnd
  <2>3. \/ ferror' /\ UNCHANGED <<exit_status, printed>>
        \/ /\ ~ferror' /\ exit_status' = 0
           /\ printed' = Append(printed, [kind |-> "END", index |-> 0 % 65536, length |-> 0])
    BY <1>5 DEF PrintEnd, printMessage
  <2>4. FlasherTyped'
    BY <1>0, <2>1, <2>2, <2>3 DEF FlasherTyped
  <2>5. ASSUME file_size' = ImageSize, ~ferror'
        PROVE  exit_status' = 0 /\ printed' = Items(totalChunks + 2)
    <3>1. file_size = ImageSize /\ ~ferror /\ bytesLeft = 0
      BY <2>1, <2>2, <2>5
    <3>2. /\ printed = Items(chunk_index + 1) /\ chunk_index <= totalChunks
          /\ position = Read(chunk_index) /\ exit_status = 1
      BY <2>1, <3>1 DEF FlasherInv, Printing
    <3>3. chunk_index < totalChunks => bytesLeft \in Nat \ {0}
      BY <1>0, <3>1, <3>2, ChunkRead, Zenon
    <3>4. chunk_index = totalChunks
      BY <1>0, <3>1, <3>2, <3>3
    <3>5. Item(totalChunks + 2) = [kind |-> "END", index |-> 0 % 65536, length |-> 0]
      BY <1>0 DEF Item
    <3>6. totalChunks + 1 \in Nat /\ (totalChunks + 1) + 1 = totalChunks + 2
      BY <1>0
    <3>7. printed' = Append(Items(totalChunks + 1), Item(totalChunks + 2))
      BY <2>3, <2>5, <3>2, <3>4, <3>5
    <3>8. printed' = Items(totalChunks + 2)
      BY <3>6, <3>7, ItemsGrow
    <3> QED BY <2>3, <2>5, <3>8
  <2> QED BY <2>1, <2>4, <2>5, FlasherRigid DEF FlasherInv, Printing
<1> QED BY <1>1, <1>2, <1>3, <1>4, <1>5 DEF FlasherStep

(* A beginning of the items, and all of them                               *)
LEMMA PrintedAgrees == FlasherInv => FlasherAgrees
<1> SUFFICES ASSUME FlasherInv, file_size = ImageSize, ~ferror
             PROVE  IsPrefix(printed, Schedule) /\ (exit_status = 0 => printed = Schedule)
  BY DEF FlasherAgrees
<1>1. totalChunks \in Nat /\ Schedule = Items(totalChunks + 2)
  BY TotalType, ScheduleIs
<1>2. /\ \E n \in 0..(totalChunks + 2) : printed = Items(n)
      /\ exit_status = 0 => printed = Items(totalChunks + 2)
  <2>1. CASE flasher_at = "size" \/ flasher_at = "reopen"
    <3>1. exit_status = 1 /\ (printed = Items(0) \/ printed = Items(1))
      BY <2>1 DEF FlasherInv, Printing
    <3>2. 0 \in 0..(totalChunks + 2) /\ 1 \in 0..(totalChunks + 2)
      BY <1>1
    <3> QED BY <3>1, <3>2
  <2>2. CASE flasher_at = "data"
    <3>1. printed = Items(chunk_index + 1) /\ chunk_index <= totalChunks /\ exit_status = 1
      BY <2>2 DEF FlasherInv, Printing
    <3>2. chunk_index + 1 \in 0..(totalChunks + 2)
      BY <1>1, <3>1 DEF FlasherInv, FlasherTyped
    <3> QED BY <3>1, <3>2
  <2>3. CASE flasher_at = "exit"
    <3>1. \/ exit_status = 1 /\ \E n \in 0..(totalChunks + 1) : printed = Items(n)
          \/ exit_status = 0 /\ printed = Items(totalChunks + 2)
      BY <2>3 DEF FlasherInv, Printing
    <3>2. totalChunks + 2 \in 0..(totalChunks + 2) /\ 0..(totalChunks + 1) \subseteq 0..(totalChunks + 2)
      BY <1>1
    <3> QED BY <3>1, <3>2
  <2> QED BY <2>1, <2>2, <2>3 DEF FlasherInv, FlasherTyped
<1>3. ASSUME NEW n \in 0..(totalChunks + 2), printed = Items(n)
      PROVE  IsPrefix(printed, Schedule)
  <2>1. /\ Len(Items(n)) = n /\ Len(Items(totalChunks + 2)) = totalChunks + 2
        /\ n <= totalChunks + 2
    BY <1>1 DEF Items
  <2>2. SubSeq(Items(n), 1, n) = Items(n) /\ SubSeq(Items(totalChunks + 2), 1, n) = Items(n)
    BY <1>1, <2>1 DEF Items
  <2> QED BY <1>1, <1>3, <2>1, <2>2, Zenon DEF IsPrefix
<1> QED BY <1>1, <1>2, <1>3

(* For every image and every size that it has when it is opened again, and *)
(* whichever read fails: what ota_flasher.c prints is, message for         *)
(* message, what ground_ota.c schedules, without the repetitions; and all  *)
(* of it when it reports success (FlasherAgrees).                          *)
THEOREM FlasherPrintsSchedule == OtaSpec => []FlasherAgrees
<1>1. OtaInit => FlasherInv
  BY FlasherStarts DEF OtaInit
<1>2. FlasherInv /\ [OtaNext]_otaVars => FlasherInv'
  <2> SUFFICES ASSUME FlasherInv, [OtaNext]_otaVars PROVE FlasherInv'
    OBVIOUS
  <2>1. CASE FlasherStep
    BY <2>1, FlasherSteps
  <2>2. CASE UNCHANGED flasherVars
    BY <2>2, FlasherRigid DEF flasherVars, FlasherInv, FlasherTyped, Printing
  <2> QED BY <2>1, <2>2 DEF OtaNext, otaVars
<1>3. FlasherInv => FlasherAgrees
  BY PrintedAgrees
<1> QED BY <1>1, <1>2, <1>3, PTL DEF OtaSpec

(* What is proved of the broadcaster holds of it as one of the two         *)
(* programs that the runs check.                                           *)
THEOREM BroadcastWithinTools ==
  OtaSpec => [](OtaTypeOK /\ NeverAhead /\ SuccessMeansDelivered) /\ ImplementsPlan
<1>1. OtaInit => Init
  BY DEF OtaInit
<1>2. [OtaNext]_otaVars => [Next]_vars
  BY DEF OtaNext, otaVars
<1>3. OtaSpec => Spec
  BY <1>1, <1>2, PTL DEF OtaSpec, Spec
<1> QED BY <1>3, OtaTypeCorrect, HostKeepsPace, SuccessDelivers, FollowsSchedule, PTL
=============================================================================
