------------------------ MODULE DownlinkToolsProofs -------------------------
(***************************************************************************)
(* Facts about the tools that send single commands, for every relay, every *)
(* number of runs and every moment at which one is stopped: what is on the *)
(* air is what the operator was told, but for what the failed commands and *)
(* the runs before can explain; and the packets of a command that has not  *)
(* failed are never torn apart.                                            *)
(***************************************************************************)
EXTENDS DownlinkTools, RelayLinkProofs

(* The messages that the tools compose, and their numbers                  *)
Messages == [sequence : Nat, kind : {"ADMIN", "PC"}, index : Nat \ {0}]
indices  == [m \in Messages |-> m.index]

(* The command that is being sent, its payload packets and how many of     *)
(* them were written; its metadata was written if it is under way.         *)
Now       == IF phase = "sending" THEN Current ELSE PcMessage
Size      == IF phase = "sending" THEN 1 ELSE packets
Done      == IF phase = "sending" THEN IF step = "ack" THEN 1 ELSE 0 ELSE written
UnderWay  == (phase = "sending" /\ step # "meta") \/ pc_at \in {"payload", "ack"}
Newest    == Len(reported) + IF UnderWay THEN 1 ELSE 0

(* The command under way                                                   *)
Pending == {m \in {Now} : UnderWay}

Reports == [sent : BOOLEAN, wait : {"ack", "none", "dry"}, run : Nat]

(* The programs: one at a time, and where they are.                        *)
Control ==
  /\ reported \in Seq(Reports)
  /\ run \in Nat
  /\ options \in Options
  /\ sequence \in Nat
  /\ step \in {"meta", "payload", "ack"}
  /\ pc_at \in {"exit", "open", "meta", "payload", "ack"}
  /\ packets \in Nat /\ written \in Nat
  /\ phase = "exit" \/ pc_at = "exit"
  /\ phase = "sending" /\ options.dryRun => step = "meta"
  /\ phase = "sending" /\ step = "ack" => options.waitForAck
  /\ pc_at = "payload" => written < packets
  /\ pc_at = "ack" => written = packets

(* The messages there are: announced, being assembled, or on the air       *)
Known == {out[k].message : k \in Announcing}
         \cup ({head.message} \ {OldMessage})
         \cup ({air[i].head.message : i \in 1..Len(air)} \ {OldMessage})
         \cup {delivered[i] : i \in 1..Len(delivered)}

(* The numbers of the commands on the air                                  *)
AirIdx == {air[i].head.message.index : i \in 1..Len(air)}

(* The command under way is the newest one, and none of those that were    *)
(* not sent is in the relay.                                               *)
Named ==
  /\ RelayTyped(Messages)
  /\ InTurn(indices)
  /\ \A m \in Known : m.index <= Newest
  /\ \A m \in Known : m.index > Len(reported) => m = Now
  /\ \A m \in Known : m.index \in 1..Len(reported) => reported[m.index].wait # "dry"

(* Behind place "from" of s are the packets of message m from number       *)
(* taken + 1 on, up to its last one, n; if it ends before, m is pending,   *)
(* and "done" of its "size" packets were written.                          *)
Stretch(m, from, taken, n, s, pending, size, done) ==
  /\ \A j \in 1..(n - taken) : from + j <= Len(s) => s[from + j] = Data(m, taken + j)
  /\ from + (n - taken) > Len(s) =>
       m \in pending /\ n = size /\ taken + (Len(s) - from) = done

Runs(m, from, taken, n) ==
  m.index \notin Failed => Stretch(m, from, taken, n, out, Pending, Size, Done)

(* Of a command that has not failed, all packets follow its metadata, in   *)
(* the endpoint or, once the relay has taken it, in the message it         *)
(* assembles.                                                              *)
Flow ==
  /\ \A k \in Announcing : Runs(out[k].message, k, 0, out[k].number)
  /\ Fresh =>
       /\ Len(body) <= head.number
       /\ Runs(head.message, 0, Len(body), head.number)
       /\ head.message.index \notin Failed =>
            \A k \in 1..Len(body) : body[k] = Data(head.message, k)

(* A message on the air is left over from before, sent as composed, or of  *)
(* a failed command; no command is there twice, and all are older than     *)
(* what is still on its way.                                               *)
Aired ==
  /\ \A i \in 1..Len(air) :
       \/ air[i].head.message = OldMessage
       \/ Intact(air[i]) /\ air[i].head.message.index \in OnAir
       \/ air[i].head.message.index \in Failed
  /\ Len(air) <= Cardinality(AirIdx)
  /\ \A x \in AirIdx : Fresh => x < head.message.index
  /\ \A x \in AirIdx : \A k \in Announcing : x < out[k].message.index
  /\ head # NoHead /\ ~Fresh => air = <<>>
  /\ (head # NoHead /\ ~Fresh) \/ 0 \in AirIdx => StaleParts > 0

(* ACKs: one for every message on the air, and those left unread before;   *)
(* the one of the command under way has not been read yet.                 *)
Paced ==
  /\ Acks(in) + Cardinality(Acknowledged) <= Len(air) + StaleAcks
  /\ Len(reported) + 1 \in AirIdx => Acks(in) >= 1

(* The run of command number x; a program is at work on a command.         *)
RunOf(x) == IF x \in 1..Len(reported) THEN reported[x].run ELSE run
Busy     == phase = "sending" \/ pc_at # "exit"

(* The sequence numbers: in the present run those of the commands that did *)
(* not fail are behind the program's own one.                              *)
Sequenced ==
  /\ run <= Len(reported) + 1 /\ run \in Nat
  /\ \A k \in 1..Len(reported) : reported[k].run <= k
  /\ pc_at # "exit" => run = Len(reported) + 1
  /\ Len(reported) <= MaxCommands
  /\ Busy => Len(reported) < MaxCommands
  /\ sequence <= Len(reported) + 1
  /\ phase # "exit" =>
       \A m \in Known : m.index <= Len(reported) /\ RunOf(m.index) = run =>
          m.sequence <= sequence /\ (m.index \notin Failed => m.sequence < sequence)
  /\ \A m, o \in Known :
       m.index < o.index /\ m.sequence = o.sequence /\ RunOf(m.index) = RunOf(o.index) =>
          m.index \in Failed

-----------------------------------------------------------------------------
(* What a step of the programs does to the relay and to the reports:       *)
(* nothing while no command is under way, or a packet is polled, written,  *)
(* or the command ends, as failed or as sent.                              *)

Beside == UNCHANGED <<in, head, body, air, delivered>>
Goes   == UnderWay' /\ Now' = Now /\ UNCHANGED reported
Over   == ~UnderWay'

Aside == UNCHANGED <<relay, reported>> /\ ~UnderWay /\ ~UnderWay'

Polls ==
  /\ UnderWay /\ Goes /\ Size' = Size /\ Done' = Done
  /\ UNCHANGED <<out, head, body, air, delivered>>
  /\ in' = in \/ (in # <<>> /\ in' = Tail(in) /\ Head(in) # Ack)

Announces ==
  /\ ~UnderWay /\ Goes /\ Done' = 0
  /\ Written(Meta(Now, Size')) /\ Beside

Continues ==
  /\ UnderWay /\ Goes /\ Size' = Size /\ Done < Size /\ Done' = Done + 1
  /\ Written(Data(Now, Done + 1)) /\ Beside

Fails ==
  /\ Over /\ \E wait \in {"ack", "none"} : Report(FALSE, wait)
  /\ \/ UNCHANGED out
     \/ ~UnderWay /\ \E n \in Nat : Written(Meta(Now, n))
     \/ UnderWay /\ \E n \in Nat : Written(Data(Now, n))
  /\ Beside

Confirms ==
  /\ UnderWay /\ Over /\ Done = Size /\ Report(TRUE, "ack")
  /\ in # <<>> /\ Head(in) = Ack /\ in' = Tail(in)
  /\ UNCHANGED <<out, head, body, air, delivered>>

Trusts ==
  /\ UnderWay /\ Over /\ Done + 1 = Size /\ Report(TRUE, "none")
  /\ Written(Data(Now, Done + 1)) /\ Beside

Pretends ==
  /\ ~UnderWay /\ Over /\ Report(TRUE, "dry")
  /\ UNCHANGED relay

RelayMoves ==
  /\ TakePacket \/ Transmit \/ Sniff(Piece(1, 1))
  /\ UNCHANGED <<reported, run, admin, pc>>

Kinds == \/ Aside \/ Polls \/ Announces \/ Continues \/ Fails
         \/ Confirms \/ Trusts \/ Pretends \/ RelayMoves

(* A report is put behind those made before. *)
LEMMA Reporting ==
  ASSUME Control, NEW sent \in BOOLEAN, NEW wait \in {"ack", "none", "dry"}, Report(sent, wait)
  PROVE  /\ reported' \in Seq(Reports) /\ Len(reported') = Len(reported) + 1 /\ Len(reported) \in Nat
         /\ \A k \in 1..Len(reported) : reported'[k] = reported[k]
         /\ reported'[Len(reported) + 1] = [sent |-> sent, wait |-> wait, run |-> run]
<1> DEFINE r == [sent |-> sent, wait |-> wait, run |-> run]
<1>1. r \in Reports /\ reported \in Seq(Reports) /\ reported' = Append(reported, r)
  BY DEF Control, Reports, Report
<1> HIDE DEF r
<1>2. /\ reported' \in Seq(Reports) /\ Len(reported') = Len(reported) + 1 /\ Len(reported) \in Nat
      /\ \A k \in 1..Len(reported) : reported'[k] = reported[k]
      /\ reported'[Len(reported) + 1] = r
  BY <1>1, AppendProperties
<1> QED BY <1>2 DEF r

(* The wait of a command that was written in full, or not at all           *)
LEMMA Waits ==
  ASSUME Control, phase = "sending"
  PROVE  /\ Wait \in {"ack", "none", "dry"}
         /\ step = "ack" => Wait = "ack"
         /\ step = "payload" /\ ~options.waitForAck => Wait = "none"
         /\ options.dryRun => Wait = "dry"
         /\ ~options.dryRun => Wait \in {"ack", "none"}
<1>1. options.dryRun \in BOOLEAN /\ options.waitForAck \in BOOLEAN
  BY DEF Control, Options
<1>2. options.dryRun => step = "meta"
  BY DEF Control
<1>3. step = "ack" => options.waitForAck
  BY DEF Control
<1> QED BY <1>1, <1>2, <1>3 DEF Wait

(* A command of ground_admin.c ends. *)
LEMMA Returns ==
  ASSUME Control, phase = "sending", NEW sent \in BOOLEAN, Return(sent), UNCHANGED <<run, pc>>
  PROVE  Control' /\ Over /\ Report(sent, Wait)
<1>1. Wait \in {"ack", "none", "dry"}
  BY Waits
<1>2. /\ Report(sent, Wait) /\ UNCHANGED <<options, held, step>>
      /\ phase' \in {"cleanup", "prompt"} /\ sequence' \in Nat
  BY DEF Return, Control
<1>3. reported' \in Seq(Reports)
  BY <1>1, <1>2, Reporting
<1>4. pc_at = "exit" /\ UNCHANGED <<run, pc_at, packets, written>>
  BY DEF Control, pc
<1> QED BY <1>2, <1>3, <1>4 DEF Control, Over, UnderWay

(* So does the message of pc_to_uwb.c. *)
LEMMA PcReturns ==
  ASSUME Control, pc_at # "exit", NEW sent \in BOOLEAN, PcReturn(sent), UNCHANGED <<run, admin>>
  PROVE  Control' /\ Over /\ Report(sent, "ack")
<1>1. /\ Report(sent, "ack") /\ pc_at' = "exit" /\ packets' = 0 /\ written' = 0
      /\ phase = "exit" /\ UNCHANGED <<options, sequence, phase, step, run>>
  BY DEF PcReturn, PcGone, Control, admin
<1>2. reported' \in Seq(Reports)
  BY <1>1, Reporting
<1> QED BY <1>1, <1>2 DEF Control, Over, UnderWay

(* A run starts, ends, or comes to its next command. *)
LEMMA AsideStep ==
  ASSUME Control,
         \/ (Open \/ UnknownCommand \/ Cleanup \/ EnterCommand \/ Quit) /\ UNCHANGED <<run, pc>>
         \/ PcOpen /\ UNCHANGED <<run, admin>>
         \/ Start
  PROVE  Control' /\ Aside
<1>1. CASE Open /\ UNCHANGED <<run, pc>>
  BY <1>1 DEF Open, Control, Aside, UnderWay, pc
<1>2. CASE (UnknownCommand \/ Cleanup \/ EnterCommand \/ Quit) /\ UNCHANGED <<run, pc>>
  <2>1. NoOptions \in Options
    BY DEF NoOptions, Options
  <2> QED BY <1>2, <2>1 DEF UnknownCommand, Cleanup, EnterCommand, Quit, AdminGone, session,
                            Control, Aside, UnderWay, pc
<1>3. CASE PcOpen /\ UNCHANGED <<run, admin>>
  BY <1>3 DEF PcOpen, PcGone, Control, Aside, UnderWay, admin
<1>4. CASE Start
  <2>1. /\ phase = "exit" /\ pc_at = "exit" /\ UNCHANGED <<relay, reported>>
        /\ run' = Len(reported) + 1 /\ Len(reported) \in Nat
    BY <1>4 DEF Start, Control
  <2>2. CASE AdminStart /\ UNCHANGED pc
    BY <2>1, <2>2 DEF AdminStart, Control, Aside, UnderWay, pc
  <2>3. CASE PcStart /\ UNCHANGED admin
    <3>1. packets' \in Nat
      BY <2>3, PcAssumption DEF PcStart
    <3> QED BY <2>1, <2>3, <3>1 DEF PcStart, Control, Aside, UnderWay, admin
  <2> QED BY <1>4, <2>2, <2>3 DEF Start
<1> QED BY <1>1, <1>2, <1>3, <1>4

(* A step of sendAdminCommand *)
LEMMA SendingStep ==
  ASSUME Control, Sending, UNCHANGED <<run, pc>>
  PROVE  Control' /\ Kinds
<1>1. phase = "sending" /\ pc_at = "exit"
  BY DEF Control, Sending, DrySend, WriteMeta, WritePayload, PollTimeout, PollPacket, PollError,
         GiveUp, Polling
<1>2. /\ options \in Options /\ options.dryRun \in BOOLEAN /\ options.waitForAck \in BOOLEAN
      /\ Now = Current /\ Size = 1 /\ Done = (IF step = "ack" THEN 1 ELSE 0)
      /\ UnderWay <=> step # "meta"
  BY <1>1 DEF Control, Options, Now, Size, Done, UnderWay
<1>3. ASSUME NEW next \in {"payload", "ack"}, step' = next, UNCHANGED <<session, phase>>,
             ~options.dryRun, next = "ack" => options.waitForAck
      PROVE  /\ Control' /\ Goes /\ Size' = 1
             /\ Done' = (IF next = "ack" THEN 1 ELSE 0)
  <2>1. /\ UNCHANGED <<options, sequence, reported, phase, run, pc_at, packets, written>>
        /\ Now' = Now
    BY <1>1, <1>2, <1>3 DEF session, pc, Now, Current, Command
  <2> QED BY <1>1, <1>3, <2>1 DEF Control, Goes, UnderWay, Size, Done
<1>4. ASSUME UNCHANGED <<session, phase, step>>, step # "meta"
      PROVE  Control' /\ Goes /\ Size' = Size /\ Done' = Done
  <2>1. /\ UNCHANGED <<options, sequence, reported, phase, step, run, pc_at, packets, written>>
        /\ Now' = Now
    BY <1>1, <1>2, <1>4 DEF session, pc, Now, Current, Command
  <2> QED BY <1>1, <1>4, <2>1 DEF Control, Goes, UnderWay, Size, Done
<1>5. CASE DrySend
  BY <1>1, <1>2, <1>5, Returns, Waits DEF DrySend, Control, Pretends, Kinds
<1>6. CASE WriteMeta
  <2>1. ~options.dryRun /\ step = "meta" /\ ~UnderWay /\ Beside
    BY <1>2, <1>6 DEF WriteMeta, Beside
  <2>2. CASE Written(Meta(Current, 1)) /\ step' = "payload" /\ UNCHANGED <<session, phase>>
    <3>1. Control' /\ Goes /\ Size' = 1 /\ Done' = 0
      BY <1>3, <2>1, <2>2
    <3> QED BY <1>2, <2>1, <2>2, <3>1 DEF Announces, Kinds
  <2>3. CASE WriteFailed(Meta(Current, 1)) /\ Return(FALSE)
    <3>1. Control' /\ Over /\ Report(FALSE, Wait) /\ Wait \in {"ack", "none"}
      BY <1>1, <2>1, <2>3, Returns, Waits
    <3> QED BY <1>2, <2>1, <2>3, <3>1 DEF Fails, WriteFailed, Kinds
  <2> QED BY <1>6, <2>2, <2>3 DEF WriteMeta
<1>7. CASE WritePayload
  <2>1. step = "payload" /\ UnderWay /\ Done = 0 /\ ~options.dryRun /\ Beside
    BY <1>1, <1>2, <1>7 DEF WritePayload, Beside, Control
  <2>2. CASE Written(Data(Current, 1)) /\ options.waitForAck /\ step' = "ack" /\ UNCHANGED <<session, phase>>
    <3>1. Control' /\ Goes /\ Size' = 1 /\ Done' = 1
      BY <1>3, <2>1, <2>2
    <3> QED BY <1>2, <2>1, <2>2, <3>1 DEF Continues, Kinds
  <2>3. CASE Written(Data(Current, 1)) /\ ~options.waitForAck /\ Return(TRUE)
    <3>1. Control' /\ Over /\ Report(TRUE, "none")
      BY <1>1, <2>1, <2>3, Returns, Waits
    <3>2. Done + 1 = 1 /\ Written(Data(Now, Done + 1))
      BY <1>2, <2>1, <2>3
    <3>3. Trusts
      BY <1>2, <2>1, <3>1, <3>2 DEF Trusts
    <3> QED BY <3>1, <3>3 DEF Kinds
  <2>4. CASE WriteFailed(Data(Current, 1)) /\ Return(FALSE)
    <3>1. Control' /\ Over /\ Report(FALSE, Wait) /\ Wait \in {"ack", "none"}
      BY <1>1, <2>1, <2>4, Returns, Waits
    <3> QED BY <1>2, <2>1, <2>4, <3>1 DEF Fails, WriteFailed, Kinds
  <2> QED BY <1>7, <2>2, <2>3, <2>4 DEF WritePayload
<1>8. CASE PollTimeout
  <2>1. step = "ack" /\ UNCHANGED <<relay, session, phase, step>>
    BY <1>8 DEF PollTimeout, Polling
  <2>2. Control' /\ Goes /\ Size' = Size /\ Done' = Done
    BY <1>4, <2>1
  <2> QED BY <1>2, <2>1, <2>2 DEF Polls, Kinds, relay
<1>9. CASE PollPacket
  <2>1. /\ step = "ack" /\ in # <<>> /\ in' = Tail(in) /\ UNCHANGED <<out, head, body, air, delivered>>
    BY <1>9 DEF PollPacket, Polling
  <2>2. CASE Head(in) = Ack /\ Return(TRUE)
    <3>1. Control' /\ Over /\ Report(TRUE, "ack")
      BY <1>1, <2>1, <2>2, Returns, Waits
    <3> QED BY <1>2, <2>1, <2>2, <3>1 DEF Confirms, Kinds
  <2>3. CASE Head(in) # Ack /\ UNCHANGED <<session, phase, step>>
    <3>1. Control' /\ Goes /\ Size' = Size /\ Done' = Done
      BY <1>4, <2>1, <2>3
    <3> QED BY <1>2, <2>1, <2>3, <3>1 DEF Polls, Kinds
  <2> QED BY <1>9, <2>2, <2>3 DEF PollPacket
<1>10. CASE PollError \/ GiveUp
  <2>1. Return(FALSE) /\ UNCHANGED relay /\ step = "ack"
    BY <1>10 DEF PollError, GiveUp, Polling
  <2>2. Control' /\ Over /\ Report(FALSE, Wait) /\ Wait \in {"ack", "none"}
    BY <1>1, <2>1, Returns, Waits
  <2> QED BY <2>1, <2>2 DEF Fails, Kinds, Beside, relay
<1> QED BY <1>5, <1>6, <1>7, <1>8, <1>9, <1>10 DEF Sending

(* send_pc_to_uwb writes the metadata or the next payload packet. *)
LEMMA PcWriteStep ==
  ASSUME Control, PcWrite, UNCHANGED <<run, admin>>
  PROVE  Control' /\ Kinds
<1> DEFINE n == IF pc_at = "meta" THEN 0 ELSE written + 1
           packet == IF pc_at = "meta" THEN Meta(PcMessage, packets) ELSE Data(PcMessage, n)
<1>1. /\ pc_at \in {"meta", "payload"} /\ phase = "exit" /\ Beside
      /\ packets \in Nat /\ written \in Nat /\ n \in Nat
      /\ UNCHANGED <<options, sequence, phase, step, run>>
  BY DEF PcWrite, Control, Beside, admin
<1>2. /\ Now = PcMessage /\ Size = packets /\ Done = written
      /\ UnderWay <=> pc_at = "payload"
  BY <1>1 DEF Now, Size, Done, UnderWay
<1>3. CASE Written(packet) /\ written' = n /\ UNCHANGED <<reported, packets>>
           /\ pc_at' = IF n = packets THEN "ack" ELSE "payload"
  <2>1. n <= packets
    BY <1>1, <1>3 DEF Control
  <2>2. Control'
    BY <1>1, <1>3, <2>1 DEF Control
  <2>3. UnderWay' /\ Now' = Now /\ Size' = Size /\ Done' = n
    BY <1>1, <1>2, <1>3 DEF UnderWay, Now, Size, Done, PcMessage, Command
  <2>4. CASE pc_at = "meta"
    <3>1. n = 0 /\ Written(Meta(Now, Size'))
      BY <1>2, <1>3, <2>3, <2>4
    <3> QED BY <1>1, <1>2, <1>3, <2>2, <2>3, <2>4, <3>1 DEF Announces, Goes, Kinds
  <2>5. CASE pc_at = "payload"
    <3>1. n = Done + 1 /\ Written(Data(Now, n)) /\ Done < Size
      BY <1>1, <1>2, <1>3, <2>5 DEF Control
    <3> QED BY <1>1, <1>2, <1>3, <2>2, <2>3, <2>5, <3>1 DEF Continues, Goes, Kinds
  <2> QED BY <1>1, <2>4, <2>5
<1>4. CASE WriteFailed(packet) /\ PcReturn(FALSE)
  <2>1. Control' /\ Over /\ Report(FALSE, "ack")
    BY <1>1, <1>4, PcReturns
  <2>2. \/ UNCHANGED out
        \/ ~UnderWay /\ Written(Meta(Now, packets))
        \/ UnderWay /\ Written(Data(Now, n))
    BY <1>1, <1>2, <1>4 DEF WriteFailed
  <2> HIDE DEF n
  <2> QED BY <1>1, <2>1, <2>2 DEF Fails, Kinds
<1> QED BY <1>3, <1>4 DEF PcWrite

(* wait_downlink_ack reads a packet, or ends without an ACK. *)
LEMMA PcWaitStep ==
  ASSUME Control, PcPacket \/ PcNoAck, UNCHANGED <<run, admin>>
  PROVE  Control' /\ Kinds
<1>1. /\ pc_at = "ack" /\ phase = "exit" /\ UNCHANGED <<options, sequence, phase, step, run>>
  BY DEF PcPacket, PcNoAck, Control, admin
<1>2. /\ Now = PcMessage /\ Size = packets /\ Done = written /\ written = packets /\ UnderWay
  BY <1>1 DEF Now, Size, Done, UnderWay, Control
<1>3. CASE PcPacket /\ Head(in) # Ack
  <2>1. /\ UNCHANGED <<pc_at, packets, written, reported>> /\ in # <<>> /\ in' = Tail(in)
        /\ UNCHANGED <<out, head, body, air, delivered>>
    BY <1>3 DEF PcPacket
  <2>2. Control'
    BY <1>1, <2>1 DEF Control
  <2>3. UnderWay' /\ Now' = Now /\ Size' = Size /\ Done' = Done
    BY <1>1, <1>2, <2>1 DEF UnderWay, Now, Size, Done, PcMessage, Command
  <2> QED BY <1>2, <1>3, <2>1, <2>2, <2>3 DEF Polls, Goes, Kinds
<1>4. CASE PcPacket /\ Head(in) = Ack
  <2>1. /\ PcReturn(TRUE) /\ in # <<>> /\ in' = Tail(in)
        /\ UNCHANGED <<out, head, body, air, delivered>>
    BY <1>4 DEF PcPacket
  <2>2. Control' /\ Over /\ Report(TRUE, "ack")
    BY <1>1, <2>1, PcReturns
  <2> QED BY <1>2, <1>4, <2>1, <2>2 DEF Confirms, Kinds
<1>5. CASE PcNoAck
  <2>1. PcReturn(FALSE) /\ UNCHANGED relay
    BY <1>5 DEF PcNoAck
  <2>2. Control' /\ Over /\ Report(FALSE, "ack")
    BY <1>1, <2>1, PcReturns
  <2> QED BY <2>1, <2>2 DEF Fails, Kinds, Beside, relay
<1> QED BY <1>3, <1>4, <1>5

(* A run that is stopped leaves its command as failed. *)
LEMMA KillStep ==
  ASSUME Control, Kill
  PROVE  Control' /\ Kinds
<1>1. UNCHANGED <<relay, run>>
  BY DEF Kill
<1>2. NoOptions \in Options
  BY DEF NoOptions, Options
<1>3. CASE AdminGone /\ phase # "exit" /\ UNCHANGED pc
           /\ IF phase = "sending" THEN Report(FALSE, "none") ELSE UNCHANGED reported
  <2>1. pc_at = "exit" /\ UNCHANGED <<pc_at, packets, written>>
    BY <1>3 DEF Control, pc
  <2>2. reported' \in Seq(Reports)
    BY <1>3, Reporting DEF Control
  <2>3. Control' /\ Over
    BY <1>1, <1>2, <1>3, <2>1, <2>2 DEF Control, AdminGone, Over, UnderWay
  <2>4. CASE phase = "sending"
    BY <1>1, <1>3, <2>3, <2>4 DEF Fails, Kinds, Beside, relay
  <2>5. CASE phase # "sending"
    BY <1>1, <1>3, <2>1, <2>3, <2>5 DEF Aside, Over, UnderWay, Kinds, relay
  <2> QED BY <2>3, <2>4, <2>5
<1>4. CASE PcGone /\ pc_at # "exit" /\ UNCHANGED admin
           /\ IF pc_at = "open" THEN UNCHANGED reported ELSE Report(FALSE, "none")
  <2>1. phase = "exit" /\ UNCHANGED <<options, sequence, phase, step>>
    BY <1>4 DEF Control, admin
  <2>2. reported' \in Seq(Reports)
    BY <1>4, Reporting DEF Control
  <2>3. Control' /\ Over
    BY <1>1, <1>4, <2>1, <2>2 DEF Control, PcGone, Over, UnderWay
  <2>4. CASE pc_at # "open"
    BY <1>1, <1>4, <2>3, <2>4 DEF Fails, Kinds, Beside, relay
  <2>5. CASE pc_at = "open"
    BY <1>1, <1>4, <2>1, <2>3, <2>5 DEF Aside, Over, UnderWay, Kinds, relay
  <2> QED BY <2>3, <2>4, <2>5
<1> QED BY <1>3, <1>4 DEF Kill

(* Every step is of one of the kinds. *)
LEMMA StepKinds ==
  ASSUME Control, [Next]_vars
  PROVE  Control' /\ Kinds
<1>1. CASE Program
  <2>1. CASE Host /\ UNCHANGED <<run, pc>>
    BY <2>1, AsideStep, SendingStep DEF Host, Kinds
  <2>2. CASE PcStep /\ UNCHANGED <<run, admin>>
    BY <2>2, AsideStep, PcWriteStep, PcWaitStep DEF PcStep, Kinds
  <2> QED BY <1>1, <2>1, <2>2 DEF Program
<1>2. CASE Start
  BY <1>2, AsideStep DEF Kinds
<1>3. CASE Kill
  BY <1>3, KillStep
<1>4. CASE Operator /\ UNCHANGED <<run, pc>>
  BY <1>4, AsideStep DEF Operator, Kinds
<1>5. CASE (TakePacket \/ Transmit \/ Sniff(Piece(1, 1))) /\ UNCHANGED <<reported, run, admin, pc>>
  <2>1. Control'
    BY <1>5 DEF Control, admin, pc
  <2> QED BY <1>5, <2>1 DEF RelayMoves, Kinds
<1>6. CASE UNCHANGED vars
  <2>1. UNCHANGED <<relay, reported, run, admin, pc>>
    BY <1>6 DEF vars
  <2>2. Control'
    BY <2>1 DEF Control, admin, pc
  <2>3. Now' = Now /\ Size' = Size /\ Done' = Done /\ UnderWay' = UnderWay
    BY <2>1 DEF Now, Current, PcMessage, Command, Size, Done, UnderWay, admin, pc
  <2> QED BY <2>1, <2>2, <2>3 DEF Aside, Polls, Goes, Kinds, relay
<1> QED BY <1>1, <1>2, <1>3, <1>4, <1>5, <1>6 DEF Next

-----------------------------------------------------------------------------
(* The messages there are: only an announcement adds one.                  *)

(* The command under way has the number that is reported next. *)
LEMMA NowTyped ==
  ASSUME Control
  PROVE  /\ Now \in Messages /\ Now.index = Len(reported) + 1 /\ Len(reported) \in Nat
         /\ OldMessage \notin Messages /\ indices \in [Messages -> Nat]
         /\ indices[Now] = Len(reported) + 1
<1>1. sequence \in Nat /\ Len(reported) \in Nat
  BY DEF Control
<1>2. Now \in Messages /\ Now.index = Len(reported) + 1
  BY <1>1 DEF Now, Current, PcMessage, Command, Messages
<1>3. OldMessage \notin Messages
  BY DEF OldMessage, Messages
<1>4. indices \in [Messages -> Nat] /\ \A m \in Messages : indices[m] = m.index
  BY DEF indices, Messages
<1> QED BY <1>1, <1>2, <1>3, <1>4

(* Every message there is was composed by one of the tools. *)
LEMMA KnownTyped ==
  ASSUME RelayTyped(Messages)
  PROVE  \A m \in Known : m \in Messages /\ m.index \in Nat /\ m.index >= 1
<1>1. \A k \in Announcing : out[k].message \in Messages
  <2> SUFFICES ASSUME NEW k \in Announcing PROVE out[k].message \in Messages
    OBVIOUS
  <2>1. out[k] \in PacketsOf(Messages)
    BY DEF Announcing, RelayTyped
  <2> QED BY <2>1 DEF PacketsOf
<1>2. head.message \in Messages \cup {OldMessage}
  BY DEF RelayTyped, HeadsOf
<1>3. \A i \in 1..Len(air) : air[i].head.message \in Messages \cup {OldMessage}
  <2> SUFFICES ASSUME NEW i \in 1..Len(air)
               PROVE  air[i].head.message \in Messages \cup {OldMessage}
    OBVIOUS
  <2>1. air[i] \in Transmissions(Messages)
    BY DEF RelayTyped
  <2>2. air[i].head \in HeadsOf(Messages)
    BY <2>1 DEF Transmissions
  <2> QED BY <2>2 DEF HeadsOf
<1>4. \A i \in 1..Len(delivered) : delivered[i] \in Messages
  BY DEF RelayTyped
<1>5. Known \subseteq Messages
  BY <1>1, <1>2, <1>3, <1>4 DEF Known
<1> QED BY <1>5 DEF Messages

(* What stays where it is adds no message, *)
LEMMA KnownSame ==
  ASSUME UNCHANGED <<out, head, air, delivered>>
  PROVE  Known' = Known
BY DEF Known, Announcing

(* nor does what the relay takes from the endpoint, *)
LEMMA KnownTake ==
  ASSUME RelayTyped(Messages), TakePacket
  PROVE  Known' \subseteq Known
<1>1. /\ out # <<>> /\ out' = Tail(out) /\ UNCHANGED <<air, delivered>>
      /\ head' = head \/ (head' = Head(out) /\ Head(out).meta) \/ head' = NoHead
  BY DEF TakePacket
<1>2. /\ Head(out) = out[1] /\ 1 \in 1..Len(out)
      /\ \A k \in Announcing' : k + 1 \in Announcing /\ out'[k] = out[k + 1]
  BY <1>1, OutTail
<1>3. \A k \in Announcing' : out'[k].message \in {out[j].message : j \in Announcing}
  BY <1>2
<1>4. head'.message \in {head.message, OldMessage} \cup {out[j].message : j \in Announcing}
  BY <1>1, <1>2 DEF Announcing, NoHead, Meta
<1>5. UNCHANGED <<air, delivered>>
  BY <1>1
<1> QED BY ONLY <1>3, <1>4, <1>5 DEF Known

(* nor a transmission; *)
LEMMA KnownTransmit ==
  ASSUME RelayTyped(Messages), Transmit
  PROVE  Known' \subseteq Known
<1> DEFINE t == [head |-> head, body |-> body]
<1>1. /\ out' = out /\ head' = NoHead /\ air' = Append(air, t)
      /\ delivered' = IF Intact(t) THEN Append(delivered, head.message) ELSE delivered
  BY DEF Transmit
<1>2. t.head = head /\ (Intact(t) => head.message # OldMessage)
  BY DEF Intact
<1> HIDE DEF t
<1>3. Announcing' = Announcing /\ head'.message = OldMessage
  BY <1>1 DEF Announcing, NoHead, Meta
<1>4. ASSUME NEW i \in 1..Len(air')
      PROVE  air'[i].head.message = head.message \/ \E j \in 1..Len(air) : air'[i] = air[j]
  <2>1. /\ Len(air') = Len(air) + 1 /\ Len(air) \in Nat
        /\ \A j \in 1..Len(air) : air'[j] = air[j]
        /\ air'[Len(air) + 1] = t
    <3>1. air \in Seq(Transmissions(Messages)) /\ t \in Transmissions(Messages)
      BY DEF RelayTyped, Transmissions, t
    <3> QED BY <1>1, <3>1, AppendProperties
  <2> QED BY <1>2, <2>1
<1>5. ASSUME NEW i \in 1..Len(delivered')
      PROVE  (delivered'[i] = head.message /\ head.message # OldMessage)
             \/ \E j \in 1..Len(delivered) : delivered'[i] = delivered[j]
  <2>1. CASE Intact(t)
    <3>1. head.message \in Messages /\ delivered \in Seq(Messages)
      BY <1>2, <2>1 DEF RelayTyped, HeadsOf
    <3>2. /\ Len(delivered') = Len(delivered) + 1 /\ Len(delivered) \in Nat
          /\ \A j \in 1..Len(delivered) : delivered'[j] = delivered[j]
          /\ delivered'[Len(delivered) + 1] = head.message
      BY <1>1, <2>1, <3>1, AppendProperties
    <3> QED BY <1>2, <2>1, <3>2
  <2>2. CASE ~Intact(t)
    BY <1>1, <2>2
  <2> QED BY <2>1, <2>2
<1> QED BY <1>1, <1>3, <1>4, <1>5 DEF Known

(* of what is written only metadata does. *)
LEMMA KnownWrite ==
  ASSUME RelayTyped(Messages), NEW p \in PacketsOf(Messages), Written(p),
         UNCHANGED <<head, air, delivered>>
  PROVE  Known' \subseteq Known \cup {m \in {p.message} : p.meta}
<1>1. /\ \A k \in 1..Len(out) : out'[k] = out[k]
      /\ out'[Len(out')] = p
      /\ \A k \in 1..Len(out') : k \in 1..Len(out) \/ k = Len(out')
  BY OutAppend
<1>2. \A k \in Announcing' : (k \in Announcing /\ out'[k] = out[k]) \/ (out'[k] = p /\ p.meta)
  BY <1>1 DEF Announcing
<1> QED BY <1>2 DEF Known

(* No report: what is added is the command that is under way from now on.  *)
LEMMA NamedSame ==
  ASSUME Control, Named, RelayTyped(Messages)', InTurn(indices)', UNCHANGED reported,
         Known' \subseteq Known \cup {m \in {Now} : UnderWay'},
         UnderWay => UnderWay', UnderWay' => Now' = Now
  PROVE  Named'
<1>1. /\ Now.index = Len(reported) + 1 /\ Len(reported) \in Nat
      /\ \A m \in Known : m.index \in Nat /\ m.index >= 1
  BY NowTyped, KnownTyped DEF Named
<1>2. ASSUME NEW m \in Known'
      PROVE  /\ m.index <= Newest'
             /\ m.index > Len(reported') => m = Now'
             /\ m.index \in 1..Len(reported') => reported'[m.index].wait # "dry"
  <2>1. CASE m \in Known
    <3>1. /\ m.index <= Newest
          /\ m.index > Len(reported) => m = Now
          /\ m.index \in 1..Len(reported) => reported[m.index].wait # "dry"
          /\ m.index \in Nat
      BY <1>1, <2>1 DEF Named
    <3>2. Newest <= Newest'
      BY <1>1 DEF Newest
    <3>3. Newest \in Nat /\ Newest' \in Nat
      BY <1>1 DEF Newest
    <3>4. m.index > Len(reported) => UnderWay
      BY <1>1, <3>1 DEF Newest
    <3> QED BY <1>1, <3>1, <3>2, <3>3, <3>4
  <2>2. CASE m = Now /\ UnderWay'
    <3>1. Newest' = Len(reported) + 1
      BY <2>2 DEF Newest
    <3> QED BY <1>1, <2>2, <3>1
  <2> QED BY <2>1, <2>2
<1> QED BY <1>2 DEF Named

(* A report: the number of the command is one of those reported.           *)
LEMMA NamedOver ==
  ASSUME Control, Named, RelayTyped(Messages)', InTurn(indices)', Over,
         NEW sent \in BOOLEAN, NEW wait \in {"ack", "none", "dry"}, Report(sent, wait),
         Known' \subseteq Known \cup {Now},
         wait = "dry" => ~UnderWay /\ Known' \subseteq Known
  PROVE  Named'
<1>1. /\ Now.index = Len(reported) + 1 /\ Len(reported) \in Nat
      /\ \A m \in Known : m.index \in Nat /\ m.index >= 1
  BY NowTyped, KnownTyped DEF Named
<1>2. /\ Len(reported') = Len(reported) + 1
      /\ \A k \in 1..Len(reported) : reported'[k] = reported[k]
      /\ reported'[Len(reported) + 1].wait = wait
  <2>1. reported'[Len(reported) + 1] = [sent |-> sent, wait |-> wait, run |-> run]
    BY Reporting
  <2>2. reported'[Len(reported) + 1].wait = wait
    BY <2>1
  <2>3. /\ Len(reported') = Len(reported) + 1
        /\ \A k \in 1..Len(reported) : reported'[k] = reported[k]
    BY Reporting
  <2> QED BY <2>2, <2>3
<1>3. Newest' = Len(reported) + 1
  BY <1>1, <1>2 DEF Newest, Over
<1>4. ASSUME NEW m \in Known'
      PROVE  /\ m.index <= Newest'
             /\ m.index > Len(reported') => m = Now'
             /\ m.index \in 1..Len(reported') => reported'[m.index].wait # "dry"
  <2>1. CASE m \in Known
    <3>1. /\ m.index <= Newest /\ m.index \in Nat
          /\ m.index \in 1..Len(reported) => reported[m.index].wait # "dry"
      BY <1>1, <2>1 DEF Named
    <3>2. m.index <= Len(reported) + 1 /\ (~UnderWay => m.index <= Len(reported))
      BY <1>1, <3>1 DEF Newest
    <3>3. m.index \in 1..Len(reported) \/ (m.index = Len(reported) + 1 /\ wait # "dry")
      BY <1>1, <2>1, <3>1, <3>2
    <3> QED BY <1>1, <1>2, <1>3, <3>2, <3>3, <3>1
  <2>2. CASE m = Now /\ wait # "dry"
    BY <1>1, <1>2, <1>3, <2>2
  <2>3. CASE m = Now /\ wait = "dry" /\ m \notin Known
    BY <2>3
  <2> QED BY <2>1, <2>2, <2>3
<1> QED BY <1>4 DEF Named

(* In the beginning there is no message. *)
LEMMA NamedStarts == Init => Control /\ Named
<1> SUFFICES ASSUME Init PROVE Control /\ Named
  OBVIOUS
<1>1. Control
  <2>1. NoOptions \in Options
    BY DEF NoOptions, Options
  <2>2. <<>> \in Seq(Reports)
    OBVIOUS
  <2> QED BY <2>1, <2>2 DEF Init, AdminInit, PcInit, Control
<1>2. /\ RelayTyped(Messages) /\ InTurn(indices) /\ out = <<>> /\ ~Fresh
  BY <1>1, NowTyped, RelayStarts DEF Init
<1>3. Announcing = {} /\ head.message = OldMessage /\ Len(air) = 0 /\ Len(delivered) = 0
  BY <1>2 DEF Init, RelayInit, Announcing, Fresh
<1>4. Known = {}
  BY <1>3 DEF Known
<1> QED BY <1>1, <1>2, <1>4 DEF Named

(* The invariant in the terms of the relay *)
LEMMA NamedBounds ==
  ASSUME Control, Named
  PROVE  UpTo(indices, Newest) /\ Newest \in Nat
<1>1. Len(reported) \in Nat /\ \A m \in Messages : indices[m] = m.index
  BY NowTyped DEF indices
<1>2. \A m \in Known : m \in Messages /\ indices[m] <= Newest
  BY <1>1, KnownTyped DEF Named
<1>3. \A k \in Announcing : out[k].message \in Known
  BY DEF Known
<1>4. Fresh => head.message \in Known
  BY DEF Known, Fresh
<1>5. \A i \in 1..Len(delivered) : delivered[i] \in Known
  BY DEF Known
<1> QED BY <1>1, <1>2, <1>3, <1>4, <1>5 DEF UpTo, Newest

(* Whatever the kind of the step, the messages keep their names.           *)
LEMMA NamedStep ==
  ASSUME Control, Named, Kinds, Control'
  PROVE  Named'
<1>1. /\ RelayTyped(Messages) /\ InTurn(indices) /\ indices \in [Messages -> Nat]
      /\ Now \in Messages /\ indices[Now] = Len(reported) + 1 /\ Len(reported) \in Nat
      /\ in \in Seq(Entries)
  BY NowTyped DEF Named, RelayTyped
<1>2. ASSUME in' \in Seq(Entries), UNCHANGED <<out, head, body, air, delivered>>
      PROVE  RelayTyped(Messages)' /\ InTurn(indices)' /\ Known' = Known
  <2>1. RelayTyped(Messages)'
    BY <1>1, <1>2 DEF RelayTyped, Fresh
  <2>2. InTurn(indices)'
    BY <1>1, <1>2 DEF InTurn, Announcing, Fresh, indices, Messages
  <2> QED BY <1>2, <2>1, <2>2, KnownSame
<1>3. ASSUME in # <<>>, in' = Tail(in) PROVE in' \in Seq(Entries)
  BY <1>1, <1>3
<1>4. ASSUME NEW n \in Nat, Written(Data(Now, n)), Beside
      PROVE  RelayTyped(Messages)' /\ InTurn(indices)' /\ Known' \subseteq Known
  <2>1. RelayTyped(Messages)' /\ InTurn(indices)'
    BY <1>1, <1>4, WriteDataKeeps DEF Beside
  <2>2. Data(Now, n) \in PacketsOf(Messages) /\ ~Data(Now, n).meta
    BY <1>1 DEF Data, PacketsOf
  <2> QED BY <1>1, <1>4, <2>1, <2>2, KnownWrite DEF Beside
<1>5. ASSUME NEW n \in Nat, Written(Meta(Now, n)), Beside, ~UnderWay
      PROVE  RelayTyped(Messages)' /\ InTurn(indices)' /\ Known' \subseteq Known \cup {Now}
  <2>1. UpTo(indices, Len(reported)) /\ Len(reported) < indices[Now]
    BY <1>1, <1>5, NamedBounds DEF Newest
  <2>2. RelayTyped(Messages)' /\ InTurn(indices)'
    BY <1>1, <1>5, <2>1, WriteMetaKeeps DEF Beside
  <2>3. Meta(Now, n) \in PacketsOf(Messages) /\ Meta(Now, n).meta /\ Meta(Now, n).message = Now
    BY <1>1 DEF Meta, PacketsOf
  <2> QED BY <1>1, <1>5, <2>2, <2>3, KnownWrite DEF Beside
<1>6. CASE Aside
  <2>1. RelayTyped(Messages)' /\ InTurn(indices)' /\ Known' = Known
    BY <1>1, <1>2, <1>6 DEF Aside, relay
  <2> QED BY <1>6, <2>1, NamedSame DEF Aside
<1>7. CASE Polls
  <2>1. RelayTyped(Messages)' /\ InTurn(indices)' /\ Known' = Known
    BY <1>1, <1>2, <1>3, <1>7 DEF Polls
  <2> QED BY <1>7, <2>1, NamedSame DEF Polls, Goes
<1>8. CASE Announces
  <2>1. Size' \in Nat
    BY DEF Control, Size
  <2>2. RelayTyped(Messages)' /\ InTurn(indices)' /\ Known' \subseteq Known \cup {Now}
    BY <1>5, <1>8, <2>1 DEF Announces
  <2> QED BY <1>8, <2>2, NamedSame DEF Announces, Goes
<1>9. CASE Continues
  <2>1. Done + 1 \in Nat
    BY DEF Control, Done
  <2>2. RelayTyped(Messages)' /\ InTurn(indices)' /\ Known' \subseteq Known
    BY <1>4, <1>9, <2>1 DEF Continues
  <2> QED BY <1>9, <2>2, NamedSame DEF Continues, Goes
<1>10. CASE Fails
  <2>1. RelayTyped(Messages)' /\ InTurn(indices)' /\ Known' \subseteq Known \cup {Now}
    <3>1. CASE UNCHANGED out
      BY <1>1, <1>2, <1>10, <3>1 DEF Fails, Beside
    <3>2. CASE ~UnderWay /\ \E n \in Nat : Written(Meta(Now, n))
      BY <1>5, <1>10, <3>2 DEF Fails
    <3>3. CASE UnderWay /\ \E n \in Nat : Written(Data(Now, n))
      BY <1>4, <1>10, <3>3 DEF Fails
    <3> QED BY <1>10, <3>1, <3>2, <3>3 DEF Fails
  <2>2. PICK wait \in {"ack", "none"} : Report(FALSE, wait)
    BY <1>10 DEF Fails
  <2> QED BY <1>10, <2>1, <2>2, NamedOver DEF Fails
<1>11. CASE Confirms
  <2>1. RelayTyped(Messages)' /\ InTurn(indices)' /\ Known' = Known
    BY <1>1, <1>2, <1>3, <1>11 DEF Confirms
  <2> QED BY <1>11, <2>1, NamedOver DEF Confirms
<1>12. CASE Trusts
  <2>1. Done + 1 \in Nat
    BY DEF Control, Done
  <2>2. RelayTyped(Messages)' /\ InTurn(indices)' /\ Known' \subseteq Known
    BY <1>4, <1>12, <2>1 DEF Trusts
  <2> QED BY <1>12, <2>2, NamedOver DEF Trusts
<1>13. CASE Pretends
  <2>1. RelayTyped(Messages)' /\ InTurn(indices)' /\ Known' = Known
    BY <1>1, <1>2, <1>13 DEF Pretends, relay
  <2> QED BY <1>13, <2>1, NamedOver DEF Pretends
<1>14. CASE RelayMoves
  <2>1. UNCHANGED reported /\ Now' = Now /\ UnderWay' = UnderWay
    BY <1>14 DEF RelayMoves, Now, Current, PcMessage, Command, UnderWay, admin, pc
  <2>2. RelayTyped(Messages)' /\ InTurn(indices)' /\ Known' \subseteq Known
    <3>1. CASE TakePacket
      BY <1>1, <3>1, TakeKeeps, KnownTake
    <3>2. CASE Transmit
      BY <1>1, <3>2, TransmitKeeps, KnownTransmit
    <3>3. CASE Sniff(Piece(1, 1))
      <4>1. in' \in Seq(Entries) /\ UNCHANGED <<out, head, body, air, delivered>>
        BY <1>1, <3>3, SniffKeeps
      <4> QED BY <1>2, <4>1
    <3> QED BY <1>14, <3>1, <3>2, <3>3 DEF RelayMoves
  <2> QED BY <2>1, <2>2, NamedSame
<1> QED BY <1>6, <1>7, <1>8, <1>9, <1>10, <1>11, <1>12, <1>13, <1>14 DEF Kinds

-----------------------------------------------------------------------------
(* The packets of a command: a stretch of the endpoint grows with the      *)
(* packets that are written, and is used up from its front.                *)

Packet == PacketsOf(Messages)

(* A packet of the command under way is written: a stretch that lacks it   *)
(* gets it, one that is complete stays so.                                 *)
LEMMA StretchGrows ==
  ASSUME NEW m, NEW from \in Nat, NEW taken \in Nat, NEW n \in Nat, taken <= n,
         NEW s \in Seq(Packet), from <= Len(s), NEW now, NEW size \in Nat, NEW done \in Nat,
         NEW later, NEW v \in Nat, NEW next \in Nat,
         NEW p \in Packet, p = Data(now, done + 1),
         Stretch(m, from, taken, n, s, {now}, size, done),
         done + 1 = size \/ (later = {now} /\ v = size /\ next = done + 1)
  PROVE  Stretch(m, from, taken, n, Append(s, p), later, v, next)
<1> DEFINE t == Append(s, p)
<1>1. /\ Len(s) \in Nat /\ Len(t) = Len(s) + 1
      /\ \A k \in 1..Len(s) : t[k] = s[k]
      /\ t[Len(s) + 1] = p
  BY AppendProperties
<1> HIDE DEF t
<1>2. /\ \A j \in 1..(n - taken) : from + j <= Len(s) => s[from + j] = Data(m, taken + j)
      /\ from + (n - taken) > Len(s) => m = now /\ n = size /\ taken + (Len(s) - from) = done
  BY DEF Stretch
<1>3. ASSUME NEW j \in 1..(n - taken), from + j <= Len(t) PROVE t[from + j] = Data(m, taken + j)
  <2>1. CASE from + j <= Len(s)
    <3>1. from + j \in 1..Len(s)
      BY <1>1, <2>1
    <3> QED BY <1>1, <1>2, <2>1, <3>1
  <2>2. CASE from + j = Len(s) + 1
    <3>1. from + (n - taken) > Len(s)
      BY <1>1, <2>2
    <3>2. m = now /\ taken + j = done + 1
      BY <1>1, <1>2, <2>2, <3>1
    <3> QED BY <1>1, <2>2, <3>2
  <2> QED BY <1>1, <1>3, <2>1, <2>2
<1>4. ASSUME from + (n - taken) > Len(t)
      PROVE  m \in later /\ n = v /\ taken + (Len(t) - from) = next
  <2>1. m = now /\ n = size /\ taken + (Len(s) - from) = done
    BY <1>1, <1>2, <1>4
  <2>2. done + 1 # size
    BY <1>1, <1>4, <2>1
  <2> QED BY <1>1, <2>1, <2>2
<1>5. Stretch(m, from, taken, n, t, later, v, next)
  BY <1>3, <1>4 DEF Stretch
<1> QED BY <1>5 DEF t

(* A stretch that is complete stays so. *)
LEMMA StretchWhole ==
  ASSUME NEW m, NEW from \in Nat, NEW taken \in Nat, NEW n \in Nat, taken <= n,
         NEW s \in Seq(Packet), NEW t \in Seq(Packet), Len(s) <= Len(t),
         \A k \in 1..Len(s) : t[k] = s[k],
         NEW later, NEW v, NEW next, NEW pending, NEW size, NEW done,
         Stretch(m, from, taken, n, s, pending, size, done),
         from + (n - taken) <= Len(s)
  PROVE  Stretch(m, from, taken, n, t, later, v, next)
<1>1. Len(s) \in Nat /\ Len(t) \in Nat
  OBVIOUS
<1>2. ASSUME NEW j \in 1..(n - taken) PROVE t[from + j] = Data(m, taken + j)
  <2>1. from + j \in 1..Len(s)
    BY <1>1
  <2>2. s[from + j] = Data(m, taken + j)
    BY <1>1, <2>1 DEF Stretch
  <2> QED BY <2>1, <2>2
<1>3. ~(from + (n - taken) > Len(t))
  BY <1>1
<1> QED BY <1>2, <1>3 DEF Stretch

(* A packet in front of a stretch is taken away, *)
LEMMA StretchShift ==
  ASSUME NEW m, NEW from \in Nat, NEW taken \in Nat, NEW n \in Nat, taken <= n,
         NEW s \in Seq(Packet), NEW t \in Seq(Packet), Len(s) \in Nat, Len(t) = Len(s) - 1,
         \A k \in 1..Len(t) : t[k] = s[k + 1],
         NEW pending, NEW size, NEW done,
         Stretch(m, from + 1, taken, n, s, pending, size, done)
  PROVE  Stretch(m, from, taken, n, t, pending, size, done)
<1>1. /\ \A j \in 1..(n - taken) : from + 1 + j <= Len(s) => s[from + 1 + j] = Data(m, taken + j)
      /\ from + 1 + (n - taken) > Len(s) =>
           m \in pending /\ n = size /\ taken + (Len(s) - (from + 1)) = done
  BY DEF Stretch
<1>2. ASSUME NEW j \in 1..(n - taken), from + j <= Len(t) PROVE t[from + j] = Data(m, taken + j)
  <2>1. from + j \in 1..Len(t) /\ from + 1 + j <= Len(s) /\ (from + j) + 1 = from + 1 + j
    BY <1>2
  <2> QED BY <1>1, <2>1
<1>3. ASSUME from + (n - taken) > Len(t)
      PROVE  m \in pending /\ n = size /\ taken + (Len(t) - from) = done
  <2>1. from + 1 + (n - taken) > Len(s) /\ Len(t) - from = Len(s) - (from + 1)
    BY <1>3
  <2> QED BY <1>1, <2>1
<1> QED BY <1>2, <1>3 DEF Stretch

(* or the first packet of the stretch itself. *)
LEMMA StretchTake ==
  ASSUME NEW m, NEW taken \in Nat, NEW n \in Nat, taken < n,
         NEW s \in Seq(Packet), NEW t \in Seq(Packet), Len(s) \in Nat, Len(s) >= 1,
         Len(t) = Len(s) - 1, \A k \in 1..Len(t) : t[k] = s[k + 1],
         NEW pending, NEW size, NEW done,
         Stretch(m, 0, taken, n, s, pending, size, done)
  PROVE  /\ s[1] = Data(m, taken + 1)
         /\ Stretch(m, 0, taken + 1, n, t, pending, size, done)
<1>1. /\ \A j \in 1..(n - taken) : 0 + j <= Len(s) => s[0 + j] = Data(m, taken + j)
      /\ 0 + (n - taken) > Len(s) =>
           m \in pending /\ n = size /\ taken + (Len(s) - 0) = done
  BY DEF Stretch
<1>2. s[1] = Data(m, taken + 1)
  <2>1. 1 \in 1..(n - taken) /\ 0 + 1 = 1
    OBVIOUS
  <2> QED BY <1>1, <2>1
<1>3. ASSUME NEW j \in 1..(n - (taken + 1)), 0 + j <= Len(t)
      PROVE  t[0 + j] = Data(m, (taken + 1) + j)
  <2>1. j \in Nat /\ 1 <= j /\ j <= n - (taken + 1) /\ j <= Len(t)
    BY <1>3
  <2>2. /\ j \in 1..Len(t) /\ j + 1 \in 1..(n - taken) /\ 0 + (j + 1) <= Len(s)
        /\ 0 + j = j /\ 0 + (j + 1) = j + 1 /\ taken + (j + 1) = (taken + 1) + j
    BY <2>1
  <2>3. s[0 + (j + 1)] = Data(m, taken + (j + 1))
    BY <1>1, <2>2
  <2> QED BY <2>2, <2>3
<1>4. ASSUME 0 + (n - (taken + 1)) > Len(t)
      PROVE  m \in pending /\ n = size /\ (taken + 1) + (Len(t) - 0) = done
  <2>1. 0 + (n - taken) > Len(s) /\ (taken + 1) + (Len(t) - 0) = taken + (Len(s) - 0)
    BY <1>4
  <2> QED BY <1>1, <2>1
<1> QED BY <1>2, <1>3, <1>4 DEF Stretch

(* Reports only add to the failures, and none of a command not yet sent.   *)
LEMMA FailedGrows ==
  ASSUME Control, NEW sent \in BOOLEAN, NEW wait \in {"ack", "none", "dry"}, Report(sent, wait)
  PROVE  /\ Failed \subseteq Failed'
         /\ ~sent => Len(reported) + 1 \in Failed'
         /\ \A x \in Failed' : x \in Failed \/ (~sent /\ x = Len(reported) + 1)
<1>1. /\ Len(reported') = Len(reported) + 1 /\ Len(reported) \in Nat
      /\ \A k \in 1..Len(reported) : reported'[k] = reported[k]
      /\ reported'[Len(reported) + 1] = [sent |-> sent, wait |-> wait, run |-> run]
  BY Reporting
<1>2. reported'[Len(reported) + 1].sent = sent
  BY <1>1
<1> QED BY <1>1, <1>2 DEF Failed

(* A command that is not under way any more, and has not failed, was       *)
(* written in full; the one under way goes on.                             *)
LEMMA RunsStep ==
  ASSUME Control, Control', Named, Kinds, ~RelayMoves,
         NEW m \in Messages, NEW from \in Nat, NEW taken \in Nat, NEW n \in Nat,
         taken <= n, from <= Len(out),
         Runs(m, from, taken, n), m.index <= Newest
  PROVE  m.index \notin Failed' =>
           Stretch(m, from, taken, n, out', Pending', Size', Done')
<1> SUFFICES ASSUME m.index \notin Failed'
             PROVE  Stretch(m, from, taken, n, out', Pending', Size', Done')
  OBVIOUS
<1>1. /\ out \in Seq(Packet) /\ Len(out) \in Nat /\ Now \in Messages
      /\ Now.index = Len(reported) + 1 /\ Len(reported) \in Nat
      /\ Size \in Nat /\ Done \in Nat /\ Size' \in Nat /\ Done' \in Nat
      /\ UnderWay \in BOOLEAN /\ UnderWay' \in BOOLEAN
  BY NowTyped DEF Control, Size, Done, UnderWay, Named, RelayTyped, Packet
<1>2. ASSUME Failed \subseteq Failed'
      PROVE  Stretch(m, from, taken, n, out, Pending, Size, Done)
  BY <1>2 DEF Runs
<1>3. ASSUME NEW p \in Packet, Written(p)
      PROVE  /\ out' = Append(out, p) /\ out' \in Seq(Packet) /\ Len(out) <= Len(out')
             /\ \A k \in 1..Len(out) : out'[k] = out[k]
  BY <1>1, <1>3, AppendProperties DEF Written
<1>4. ASSUME Failed \subseteq Failed', UNCHANGED out \/ (\E p \in Packet : Written(p)),
             from + (n - taken) <= Len(out)
      PROVE  Stretch(m, from, taken, n, out', Pending', Size', Done')
  <2>1. /\ out' \in Seq(Packet) /\ Len(out) <= Len(out')
        /\ \A k \in 1..Len(out) : out'[k] = out[k]
    BY <1>1, <1>3, <1>4
  <2>2. Stretch(m, from, taken, n, out, Pending, Size, Done)
    BY <1>2, <1>4
  <2> HIDE DEF Packet
  <2> QED BY <1>1, <1>4, <2>1, <2>2, StretchWhole
<1>5. ASSUME Failed \subseteq Failed', ~(from + (n - taken) <= Len(out))
      PROVE  UnderWay /\ m = Now /\ n = Size /\ taken + (Len(out) - from) = Done
  BY <1>1, <1>2, <1>5 DEF Stretch, Pending
<1>6. UNCHANGED reported => Failed' = Failed
  BY DEF Failed
<1>7. CASE Aside
  <2>1. Failed \subseteq Failed' /\ UNCHANGED out /\ ~UnderWay
    BY <1>6, <1>7 DEF Aside, relay
  <2> QED BY <1>4, <1>5, <2>1
<1>8. CASE Polls
  <2>1. UNCHANGED out /\ Pending' = Pending /\ Size' = Size /\ Done' = Done
    BY <1>1, <1>8 DEF Polls, Goes, Pending
  <2>2. Failed \subseteq Failed'
    BY <1>6, <1>8 DEF Polls, Goes
  <2> QED BY <1>2, <2>1, <2>2
<1>9. ASSUME NEW k \in Nat PROVE Data(Now, k) \in Packet /\ Meta(Now, k) \in Packet
  BY <1>1 DEF Data, Meta, Packet, PacketsOf
<1>10. CASE Announces
  <2>1. Failed \subseteq Failed' /\ ~UnderWay /\ \E p \in Packet : Written(p)
    BY <1>1, <1>6, <1>9, <1>10 DEF Announces, Goes
  <2> QED BY <1>4, <1>5, <2>1
<1>11. CASE Continues \/ Trusts
  <2> DEFINE p == Data(Now, Done + 1)
  <2>1. /\ UnderWay /\ p \in Packet /\ Written(p)
        /\ Done + 1 = Size \/ (Pending' = {Now} /\ Size' = Size /\ Done' = Done + 1)
    BY <1>1, <1>9, <1>11 DEF Continues, Trusts, Goes, Pending
  <2>2. Failed \subseteq Failed'
    BY <1>6, <1>11, FailedGrows DEF Continues, Trusts, Goes
  <2>3. out' = Append(out, p)
    BY <1>3, <2>1
  <2>4. Stretch(m, from, taken, n, out, {Now}, Size, Done)
    BY <1>2, <2>1, <2>2 DEF Pending
  <2>5. p = Data(Now, Done + 1)
    OBVIOUS
  <2> HIDE DEF p, Packet
  <2>6. ASSUME NEW later, NEW v \in Nat, NEW next \in Nat,
               Done + 1 = Size \/ (later = {Now} /\ v = Size /\ next = Done + 1)
        PROVE  Stretch(m, from, taken, n, Append(out, p), later, v, next)
    BY <1>1, <2>1, <2>4, <2>5, <2>6, StretchGrows
  <2>7. Stretch(m, from, taken, n, Append(out, p), Pending', Size', Done')
    BY <1>1, <2>1, <2>6
  <2> QED BY <2>3, <2>7
<1>12. CASE Fails
  <2>1. PICK wait \in {"ack", "none"} : Report(FALSE, wait)
    BY <1>12 DEF Fails
  <2>2. Failed \subseteq Failed' /\ Len(reported) + 1 \in Failed'
    BY <2>1, FailedGrows
  <2>3. m # Now
    BY <1>1, <2>2
  <2>4. UNCHANGED out \/ \E p \in Packet : Written(p)
    BY <1>9, <1>12 DEF Fails
  <2> QED BY <1>4, <1>5, <2>2, <2>3, <2>4
<1>13. CASE Confirms \/ Pretends
  <2>1. Failed \subseteq Failed' /\ UNCHANGED out /\ (~UnderWay \/ Done = Size)
    BY <1>13, FailedGrows DEF Confirms, Pretends, relay
  <2>2. from + (n - taken) <= Len(out)
    <3> SUFFICES ASSUME ~(from + (n - taken) <= Len(out)) PROVE FALSE
      OBVIOUS
    <3>1. n = Size /\ taken + (Len(out) - from) = Size
      BY <1>5, <2>1
    <3> QED BY <1>1, <3>1
  <2> QED BY <1>4, <2>1, <2>2
<1> QED BY <1>7, <1>8, <1>10, <1>11, <1>12, <1>13 DEF Kinds

(* A step reports at most the command under way as failed. *)
LEMMA FailedKinds ==
  ASSUME Control, Kinds
  PROVE  /\ Failed \subseteq Failed'
         /\ \A x \in Failed' : x \in Failed \/ x = Len(reported) + 1
         /\ Fails => Len(reported) + 1 \in Failed'
         /\ RelayMoves => Failed' = Failed
<1>1. CASE UNCHANGED reported
  <2>1. Failed' = Failed
    BY <1>1 DEF Failed
  <2>2. ~Fails
    <3> SUFFICES ASSUME Fails PROVE FALSE
      OBVIOUS
    <3>1. PICK wait \in {"ack", "none"} : Report(FALSE, wait)
      BY DEF Fails
    <3>2. Len(reported') = Len(reported) + 1 /\ Len(reported) \in Nat
      BY <3>1, Reporting
    <3> QED BY <1>1, <3>2
  <2> QED BY <2>1, <2>2
<1>2. CASE Fails
  <2>1. PICK wait \in {"ack", "none"} : Report(FALSE, wait)
    BY <1>2 DEF Fails
  <2>2. /\ Failed \subseteq Failed' /\ Len(reported) + 1 \in Failed'
        /\ \A x \in Failed' : x \in Failed \/ x = Len(reported) + 1
    BY <2>1, FailedGrows
  <2>3. RelayMoves => Failed' = Failed
    BY DEF RelayMoves, Failed
  <2> QED BY <2>2, <2>3
<1>3. CASE Confirms \/ Trusts \/ Pretends
  <2>1. /\ Failed \subseteq Failed'
        /\ \A x \in Failed' : x \in Failed
    BY <1>3, FailedGrows DEF Confirms, Trusts, Pretends
  <2>2. RelayMoves => Failed' = Failed
    BY DEF RelayMoves, Failed
  <2>3. Fails => Len(reported) + 1 \in Failed'
    BY <1>2
  <2> QED BY <2>1, <2>2, <2>3
<1>4. Aside \/ Polls \/ Announces \/ Continues \/ RelayMoves => UNCHANGED reported
  BY DEF Aside, Polls, Announces, Continues, Goes, RelayMoves
<1> QED BY <1>1, <1>2, <1>3, <1>4 DEF Kinds

(* What the host writes is announced by what it was writing.               *)
LEMMA AnnouncedByHost ==
  ASSUME Control, Control', Named, Kinds, ~RelayMoves, NEW k \in Announcing'
  PROVE  \/ k \in Announcing /\ out'[k] = out[k]
         \/ /\ k = Len(out') /\ out'[k].message = Now
            /\ Fails \/ (Announces /\ out'[k].number = Size')
            /\ ~UnderWay
<1>1. Now \in Messages /\ Size' \in Nat /\ RelayTyped(Messages)
  BY NowTyped DEF Control, Size, Named
<1>2. ASSUME NEW p \in Packet, Written(p)
      PROVE  (k \in Announcing /\ out'[k] = out[k]) \/ (k = Len(out') /\ out'[k] = p /\ p.meta)
  BY <1>1, <1>2, OutAppend DEF Announcing, Packet
<1>3. ASSUME NEW n \in Nat
      PROVE  /\ Data(Now, n) \in Packet /\ ~Data(Now, n).meta
             /\ Meta(Now, n) \in Packet /\ Meta(Now, n).message = Now /\ Meta(Now, n).number = n
  BY <1>1 DEF Data, Meta, Packet, PacketsOf
<1>4. CASE UNCHANGED out
  BY <1>4 DEF Announcing
<1>5. CASE \E n \in Nat : Written(Data(Now, n))
  BY <1>2, <1>3, <1>5
<1>6. CASE Announces
  BY <1>1, <1>2, <1>3, <1>6 DEF Announces
<1>7. CASE Fails /\ ~UnderWay /\ \E n \in Nat : Written(Meta(Now, n))
  BY <1>2, <1>3, <1>7
<1>8. Done + 1 \in Nat
  BY DEF Control, Done
<1> QED BY <1>4, <1>5, <1>6, <1>7, <1>8
        DEF Kinds, Aside, Polls, Continues, Fails, Confirms, Trusts, Pretends, relay

(* What the host does to the stretches *)
LEMMA FlowHost ==
  ASSUME Control, Control', Named, Flow, Kinds, ~RelayMoves
  PROVE  Flow'
<1>1. /\ Failed \subseteq Failed'
      /\ Fails => Len(reported) + 1 \in Failed'
      /\ Now.index = Len(reported) + 1
      /\ out \in Seq(Packet) /\ Len(out) \in Nat /\ RelayTyped(Messages)
  BY FailedKinds, NowTyped DEF Named, RelayTyped, Packet
<1>2. head' = head /\ body' = body
  BY DEF Kinds, Aside, Polls, Announces, Continues, Fails, Confirms, Trusts, Pretends, Beside, relay
<1>3. \A m \in Known : m \in Messages /\ m.index <= Newest
  BY KnownTyped DEF Named
<1>4. ASSUME NEW k \in Announcing'
      PROVE  out'[k].message.index \notin Failed' =>
               Stretch(out'[k].message, k, 0, out'[k].number, out', Pending', Size', Done')
  <2>1. CASE k \in Announcing /\ out'[k] = out[k]
    <3>1. /\ k \in Nat /\ k <= Len(out) /\ out[k].message \in Known /\ out[k] \in Packet
      BY <1>1, <2>1 DEF Known, Announcing
    <3>2. out[k].number \in Nat /\ out[k].message \in Messages
      BY <3>1 DEF Packet, PacketsOf
    <3>3. Runs(out[k].message, k, 0, out[k].number)
      BY <2>1 DEF Flow
    <3> QED BY <1>3, <2>1, <3>1, <3>2, <3>3, RunsStep
  <2>2. CASE out'[k].message = Now /\ Fails
    BY <1>1, <2>2
  <2>3. CASE k = Len(out') /\ out'[k].message = Now /\ Announces /\ out'[k].number = Size'
    <3>1. k \in Nat /\ Size' \in Nat /\ Done' = 0 /\ Now \in Pending'
      BY <2>3 DEF Announcing, Control, Size, Announces, Goes, Pending
    <3>2. /\ \A j \in 1..(Size' - 0) : ~(k + j <= Len(out'))
          /\ 0 + (Len(out') - k) = 0
      BY <2>3, <3>1
    <3>3. Stretch(Now, k, 0, Size', out', Pending', Size', Done')
      BY <3>1, <3>2 DEF Stretch
    <3> QED BY <2>3, <3>3
  <2> QED BY <2>1, <2>2, <2>3, AnnouncedByHost
<1>5. ASSUME Fresh
      PROVE  /\ Len(body) <= head.number
             /\ head.message.index \notin Failed' =>
                  Stretch(head.message, 0, Len(body), head.number, out', Pending', Size', Done')
             /\ head.message.index \notin Failed' =>
                  \A k \in 1..Len(body) : body[k] = Data(head.message, k)
  <2>1. /\ head.message \in Known /\ Len(body) \in Nat /\ head.number \in Nat /\ 0 <= Len(out)
    BY <1>1, <1>5 DEF Known, Fresh, RelayTyped, HeadsOf
  <2>2. /\ Len(body) <= head.number
        /\ Runs(head.message, 0, Len(body), head.number)
        /\ head.message.index \notin Failed =>
             \A k \in 1..Len(body) : body[k] = Data(head.message, k)
    BY <1>5 DEF Flow
  <2> QED BY <1>1, <1>3, <2>1, <2>2, RunsStep
<1>6. Fresh' = Fresh
  BY <1>2 DEF Fresh
<1>7. /\ Fresh' =>
           /\ Len(body') <= head'.number
           /\ head'.message.index \notin Failed' =>
                Stretch(head'.message, 0, Len(body'), head'.number, out', Pending', Size', Done')
           /\ head'.message.index \notin Failed' =>
                \A k \in 1..Len(body') : body'[k] = Data(head'.message, k)
  BY <1>2, <1>5, <1>6
<1> QED BY <1>4, <1>7 DEF Flow, Runs

(* The relay leaves the programs alone. *)
LEMMA RelayMovesKeep ==
  ASSUME RelayMoves
  PROVE  /\ Pending' = Pending /\ Size' = Size /\ Done' = Done /\ Failed' = Failed
         /\ Now' = Now /\ UnderWay' = UnderWay /\ UNCHANGED reported
<1>1. UNCHANGED <<reported, phase, step, sequence, pc_at, packets, written>>
  BY DEF RelayMoves, admin, pc
<1> QED BY <1>1 DEF Pending, Size, Done, Failed, Now, Current, PcMessage, Command, UnderWay

(* What the relay does to them when it takes a packet *)
LEMMA FlowTakes ==
  ASSUME Control, Named, Flow, RelayMoves, TakePacket
  PROVE  Flow'
<1> DEFINE p == out[1]
<1>1. /\ out # <<>> /\ out' = Tail(out)
      /\ head = NoHead \/ Len(body) < head.number
      /\ RelayTyped(Messages)
  BY DEF TakePacket, Named
<1>2. /\ out \in Seq(Packet) /\ out' \in Seq(Packet) /\ Len(out') = Len(out) - 1
      /\ Len(out) \in Nat /\ Len(out) >= 1 /\ p \in Packet /\ Head(out) = p
      /\ \A k \in 1..Len(out') : out'[k] = out[k + 1]
      /\ \A k \in Announcing' : k + 1 \in Announcing /\ out'[k] = out[k + 1]
      /\ p.meta => 1 \in Announcing
  <2>1. out \in Seq(Packet) /\ Len(out) \in Nat
    BY <1>1 DEF RelayTyped, Packet
  <2>2. /\ out' \in Seq(Packet) /\ Len(out') = Len(out) - 1 /\ Len(out) >= 1
        /\ p \in Packet /\ Head(out) = p /\ 1 \in 1..Len(out)
        /\ \A k \in 1..Len(out') : out'[k] = out[k + 1]
        /\ \A k \in Announcing' : k + 1 \in Announcing /\ out'[k] = out[k + 1]
    BY <1>1, OutTail DEF Packet
  <2>3. p.meta => 1 \in Announcing
    BY <2>2 DEF Announcing
  <2> QED BY <2>1, <2>2, <2>3
<1> HIDE DEF p
<1>3. Pending' = Pending /\ Size' = Size /\ Done' = Done /\ Failed' = Failed
  BY RelayMovesKeep
<1>4. ASSUME NEW k \in Announcing'
      PROVE  out'[k].message.index \notin Failed' =>
               Stretch(out'[k].message, k, 0, out'[k].number, out', Pending', Size', Done')
  <2> DEFINE m == out'[k].message
             n == out'[k].number
  <2>1. k \in Nat /\ k \in 1..Len(out') /\ k + 1 \in Announcing /\ out'[k] = out[k + 1]
    BY <1>2 DEF Announcing
  <2>2. m.index \notin Failed => Stretch(m, k + 1, 0, n, out, Pending, Size, Done)
    BY <2>1 DEF Flow, Runs
  <2>3. n \in Nat
    <3>1. out'[k] \in Packet
      BY <1>2, <2>1
    <3> QED BY <3>1 DEF Packet, PacketsOf
  <2> HIDE DEF m, n
  <2>4. m.index \notin Failed => Stretch(m, k, 0, n, out', Pending, Size, Done)
    BY <1>2, <2>1, <2>2, <2>3, StretchShift
  <2> QED BY <1>3, <2>4 DEF m, n
<1>5. CASE head = NoHead /\ p.meta
  <2>1. head' = p /\ body' = <<>> /\ Len(body') = 0
    BY <1>1, <1>2, <1>5 DEF TakePacket, RelayTyped
  <2>2. p.number \in Nat
    BY <1>2 DEF Packet, PacketsOf
  <2>3. p.message.index \notin Failed => Stretch(p.message, 0 + 1, 0, p.number, out, Pending, Size, Done)
    BY <1>2, <1>5 DEF Flow, Runs, p
  <2>4. ASSUME NEW m, NEW n \in Nat, Stretch(m, 0 + 1, 0, n, out, Pending, Size, Done)
        PROVE  Stretch(m, 0, 0, n, out', Pending, Size, Done)
    <3>1. 0 \in Nat /\ 0 <= n
      BY <2>4
    <3> HIDE DEF Packet
    <3> QED BY <1>2, <2>4, <3>1, StretchShift
  <2>8. p.message.index \notin Failed => Stretch(p.message, 0, 0, p.number, out', Pending, Size, Done)
    BY <2>2, <2>3, <2>4
  <2>5. ~(\E k \in 1..Len(body') : TRUE) /\ Len(body') <= head'.number
    BY <2>1, <2>2
  <2>6. head'.message.index \notin Failed' =>
           Stretch(head'.message, 0, Len(body'), head'.number, out', Pending', Size', Done')
    BY <1>3, <2>1, <2>8
  <2> QED BY <1>4, <2>5, <2>6 DEF Flow, Runs
<1>6. CASE head = NoHead /\ ~p.meta
  <2>1. ~Fresh'
    BY <1>1, <1>2, <1>6 DEF TakePacket, Fresh, NoHead, Meta
  <2> QED BY <1>4, <2>1 DEF Flow, Runs
<1>7. CASE head # NoHead
  <2>1. head' = head /\ body' = Append(body, p) /\ Len(body) < head.number
    BY <1>1, <1>2, <1>7 DEF TakePacket
  <2>2. /\ Len(body) \in Nat /\ Len(body') = Len(body) + 1
        /\ \A k \in 1..Len(body) : body'[k] = body[k]
        /\ body'[Len(body) + 1] = p /\ head.number \in Nat
    BY <1>1, <1>2, <2>1, AppendProperties DEF RelayTyped, HeadsOf, Packet
  <2>3. CASE ~Fresh
    <3>1. ~Fresh'
      BY <2>1, <2>3 DEF Fresh
    <3> QED BY <1>4, <3>1 DEF Flow, Runs
  <2>4. CASE Fresh
    <3> DEFINE m == head.message
               n == head.number
               taken == Len(body)
    <3>1. ASSUME m.index \notin Failed
          PROVE  /\ p = Data(m, taken + 1)
                 /\ Stretch(m, 0, taken + 1, n, out', Pending, Size, Done)
      <4>1. Stretch(m, 0, taken, n, out, Pending, Size, Done)
        BY <2>4, <3>1 DEF Flow, Runs
      <4>2. /\ taken \in Nat /\ n \in Nat /\ taken < n
        BY <2>1, <2>2
      <4> HIDE DEF m, n, taken
      <4>3. /\ out[1] = Data(m, taken + 1)
            /\ Stretch(m, 0, taken + 1, n, out', Pending, Size, Done)
        BY <1>2, <4>1, <4>2, StretchTake
      <4> QED BY <4>3 DEF p
    <3>2. ASSUME m.index \notin Failed, NEW k \in 1..Len(body')
          PROVE  body'[k] = Data(m, k)
      <4>1. CASE k \in 1..Len(body)
        BY <2>2, <2>4, <3>2, <4>1 DEF Flow
      <4>2. CASE k = Len(body) + 1
        BY <2>2, <3>1, <3>2, <4>2
      <4> QED BY <2>2, <4>1, <4>2
    <3>3. Len(body') <= head'.number
      BY <2>1, <2>2
    <3>4. /\ head'.message.index \notin Failed' =>
              Stretch(head'.message, 0, Len(body'), head'.number, out', Pending', Size', Done')
          /\ head'.message.index \notin Failed' =>
              \A k \in 1..Len(body') : body'[k] = Data(head'.message, k)
      BY <1>3, <2>1, <2>2, <3>1, <3>2
    <3> QED BY <1>4, <3>3, <3>4 DEF Flow, Runs
  <2> QED BY <2>3, <2>4
<1> QED BY <1>5, <1>6, <1>7

(* No step tears a command apart that has not failed. *)
LEMMA FlowStep ==
  ASSUME Control, Control', Named, Flow, Kinds
  PROVE  Flow'
<1>1. CASE ~RelayMoves
  BY <1>1, FlowHost
<1>2. CASE RelayMoves /\ TakePacket
  BY <1>2, FlowTakes
<1>3. CASE RelayMoves /\ (Transmit \/ Sniff(Piece(1, 1)))
  <2>1. Pending' = Pending /\ Size' = Size /\ Done' = Done /\ Failed' = Failed
    BY <1>3, RelayMovesKeep
  <2>2. /\ UNCHANGED out
        /\ ~Fresh' \/ UNCHANGED <<head, body>>
    BY <1>3 DEF Transmit, Sniff, Fresh, NoHead, Meta
  <2>3. Announcing' = Announcing /\ (Fresh' => Fresh)
    BY <2>2 DEF Announcing, Fresh
  <2>4. \A k \in Announcing' :
          out'[k].message.index \notin Failed' =>
            Stretch(out'[k].message, k, 0, out'[k].number, out', Pending', Size', Done')
    BY <2>1, <2>2, <2>3 DEF Flow, Runs
  <2>5. Fresh' =>
          /\ Len(body') <= head'.number
          /\ head'.message.index \notin Failed' =>
               Stretch(head'.message, 0, Len(body'), head'.number, out', Pending', Size', Done')
          /\ head'.message.index \notin Failed' =>
               \A k \in 1..Len(body') : body'[k] = Data(head'.message, k)
    BY <2>1, <2>2, <2>3 DEF Flow, Runs
  <2> QED BY <2>4, <2>5 DEF Flow, Runs
<1> QED BY <1>1, <1>2, <1>3 DEF RelayMoves

(* In the beginning there are no packets. *)
LEMMA FlowStarts == Init => Flow
<1> SUFFICES ASSUME Init PROVE Flow
  OBVIOUS
<1>1. /\ out = <<>> /\ ~Fresh
  BY NamedStarts, NowTyped, RelayStarts DEF Init
<1>2. Announcing = {}
  BY <1>1 DEF Announcing
<1> QED BY <1>1, <1>2 DEF Flow

-----------------------------------------------------------------------------
(* What went on the air: one message after another, and those that nobody  *)
(* failed to send are as they were composed.                               *)

(* The messages on the air are numbered like all others, those left over   *)
(* 0.                                                                      *)
LEMMA AirKnown ==
  ASSUME Control, Named
  PROVE  /\ \A i \in 1..Len(air) :
              air[i].head.message = OldMessage \/ air[i].head.message \in Known
         /\ \A x \in AirIdx : x \in 0..Newest
         /\ Newest \in Nat /\ IsFiniteSet(AirIdx) /\ Cardinality(AirIdx) \in Nat
<1>1. \A i \in 1..Len(air) : air[i].head.message = OldMessage \/ air[i].head.message \in Known
  BY DEF Known
<1>2. /\ Newest \in Nat
      /\ \A m \in Known : m.index \in Nat /\ m.index <= Newest
  BY NamedBounds, KnownTyped DEF Named
<1>3. OldMessage.index = 0
  BY DEF OldMessage
<1>4. \A x \in AirIdx : x \in 0..Newest
  BY <1>1, <1>2, <1>3 DEF AirIdx
<1>5. IsFiniteSet(0..Newest)
  BY <1>2, FS_Interval
<1>6. IsFiniteSet(AirIdx)
  BY <1>4, <1>5, FS_Subset
<1> QED BY <1>1, <1>2, <1>4, <1>6, FS_CardinalityType

(* Nothing the host does undoes what went on the air. *)
LEMMA AiredHost ==
  ASSUME Control, Control', Named, Aired, Kinds, ~RelayMoves
  PROVE  Aired'
<1>1. /\ head' = head /\ air' = air /\ delivered' = delivered
  BY DEF Kinds, Aside, Polls, Announces, Continues, Fails, Confirms, Trusts, Pretends, Beside, relay
<1>2. AirIdx' = AirIdx /\ OnAir' = OnAir /\ Fresh' = Fresh
  BY <1>1 DEF AirIdx, OnAir, Fresh
<1>3. Failed \subseteq Failed'
  BY FailedKinds
<1>4. \A i \in 1..Len(air') :
        \/ air'[i].head.message = OldMessage
        \/ Intact(air'[i]) /\ air'[i].head.message.index \in OnAir'
        \/ air'[i].head.message.index \in Failed'
  BY <1>1, <1>2, <1>3 DEF Aired
<1>5. ASSUME NEW x \in AirIdx, NEW k \in Announcing'
      PROVE  x < out'[k].message.index
  <2>1. CASE k \in Announcing /\ out'[k] = out[k]
    BY <2>1 DEF Aired
  <2>2. CASE out'[k].message = Now /\ ~UnderWay
    <3>1. x \in Nat /\ x <= Len(reported) /\ Len(reported) \in Nat /\ Now.index = Len(reported) + 1
      BY <2>2, AirKnown, NowTyped DEF Newest
    <3> QED BY <2>2, <3>1
  <2> QED BY <2>1, <2>2, AnnouncedByHost
<1> QED BY <1>1, <1>2, <1>4, <1>5 DEF Aired

(* The relay takes a packet: a message taken up is newer than all on the   *)
(* air.                                                                    *)
LEMMA AiredTakes ==
  ASSUME Control, Named, Aired, RelayMoves, TakePacket
  PROVE  Aired'
<1>1. /\ out # <<>> /\ out' = Tail(out) /\ UNCHANGED <<air, delivered>>
      /\ head' = head \/ (head = NoHead /\ head' = out[1] /\ out[1].meta) \/ head' = NoHead
      /\ 1 \in 1..Len(out)
      /\ \A k \in Announcing' : k + 1 \in Announcing /\ out'[k] = out[k + 1]
  <2>1. out # <<>> /\ out' = Tail(out)
    BY DEF TakePacket
  <2>2. Head(out) = out[1] /\ 1 \in 1..Len(out)
        /\ \A k \in Announcing' : k + 1 \in Announcing /\ out'[k] = out[k + 1]
    BY <2>1, OutTail DEF Named
  <2> QED BY <2>1, <2>2 DEF TakePacket
<1>2. AirIdx' = AirIdx /\ OnAir' = OnAir /\ Failed' = Failed
  BY <1>1, RelayMovesKeep DEF AirIdx, OnAir
<1>3. \A x \in AirIdx : \A k \in Announcing' : x < out'[k].message.index
  BY <1>1 DEF Aired
<1>4. head' = out[1] /\ out[1].meta => 1 \in Announcing
  BY <1>1 DEF Announcing
<1>5. ~Fresh' \/ head' = head \/ (head' = out[1] /\ 1 \in Announcing)
  BY <1>1, <1>4 DEF Fresh, NoHead, Meta
<1>6. \A x \in AirIdx : Fresh' => x < head'.message.index
  BY <1>5 DEF Aired, Fresh
<1>7. head' # NoHead /\ ~Fresh' => head' = head
  <2> SUFFICES ASSUME head' # NoHead, ~Fresh', head' = out[1], 1 \in Announcing PROVE FALSE
    BY <1>1, <1>4
  <2>1. out[1].message \in Known
    BY DEF Known
  <2>2. out[1].message # OldMessage
    BY <2>1, KnownTyped, NowTyped DEF Named
  <2> QED BY <2>2 DEF Fresh
<1>8. (head' # NoHead /\ ~Fresh' => air = <<>>)
      /\ ((head' # NoHead /\ ~Fresh') \/ 0 \in AirIdx => StaleParts > 0)
  BY <1>7 DEF Aired, Fresh
<1> QED BY <1>1, <1>2, <1>3, <1>6, <1>8 DEF Aired

(* A message whose packets are all there, all in their place               *)
LEMMA TransmitIntact ==
  ASSUME Control, Named, Flow, Fresh, Len(body) = head.number, head.message.index \notin Failed
  PROVE  Intact([head |-> head, body |-> body])
<1> DEFINE t == [head |-> head, body |-> body]
           m == head.message
           n == head.number
           wanted == [k \in 1..n |-> Data(m, k)]
<1>1. /\ body \in Seq(Packet) /\ Len(body) = n /\ n \in Nat /\ m \in Messages
  BY DEF Named, RelayTyped, HeadsOf, Packet, Fresh
<1>2. \A k \in 1..Len(body) : body[k] = Data(m, k)
  BY DEF Flow
<1>3. body = [k \in 1..Len(body) |-> body[k]]
  BY <1>1
<1>4. body = wanted
  BY <1>1, <1>2, <1>3
<1> QED BY <1>4 DEF Intact, Fresh

(* It transmits: the message is new on the air, and intact unless it       *)
(* failed.                                                                 *)
LEMMA AiredTransmits ==
  ASSUME Control, Named, Flow, Aired, RelayMoves, Transmit
  PROVE  Aired'
<1> DEFINE t == [head |-> head, body |-> body]
           x0 == head.message.index
<1>1. /\ head # NoHead /\ Len(body) = head.number
      /\ air' = Append(air, t) /\ head' = NoHead /\ out' = out
      /\ delivered' = IF Intact(t) THEN Append(delivered, head.message) ELSE delivered
  BY DEF Transmit
<1>2. /\ Len(air') = Len(air) + 1 /\ Len(air) \in Nat
      /\ \A i \in 1..Len(air) : air'[i] = air[i]
      /\ air'[Len(air) + 1] = t
  <2>1. air \in Seq(Transmissions(Messages)) /\ t \in Transmissions(Messages)
    BY DEF Named, RelayTyped, Transmissions
  <2> HIDE DEF t
  <2> QED BY <1>1, <2>1, AppendProperties
<1>3. OnAir \subseteq OnAir' /\ (Intact(t) => x0 \in OnAir')
  <2>1. CASE ~Intact(t)
    BY <1>1, <2>1 DEF OnAir
  <2>2. CASE Intact(t)
    <3>1. delivered \in Seq(Messages) /\ head.message \in Messages
      BY <2>2 DEF Named, RelayTyped, HeadsOf, Intact
    <3>2. /\ Len(delivered') = Len(delivered) + 1 /\ Len(delivered) \in Nat
          /\ \A i \in 1..Len(delivered) : delivered'[i] = delivered[i]
          /\ delivered'[Len(delivered) + 1] = head.message
      BY <1>1, <2>2, <3>1, AppendProperties
    <3> QED BY <3>2 DEF OnAir
  <2> QED BY <2>1, <2>2
<1>4. Failed' = Failed
  BY RelayMovesKeep
<1>5. /\ t.head = head
      /\ head.message = OldMessage \/ x0 \in Failed \/ Intact(t)
  BY <1>1, TransmitIntact DEF Fresh
<1> HIDE DEF t
<1>6. ASSUME NEW i \in 1..Len(air')
      PROVE  \/ air'[i].head.message = OldMessage
             \/ Intact(air'[i]) /\ air'[i].head.message.index \in OnAir'
             \/ air'[i].head.message.index \in Failed'
  <2>1. CASE i \in 1..Len(air)
    BY <1>2, <1>3, <1>4, <2>1 DEF Aired
  <2>2. CASE i = Len(air) + 1
    BY <1>2, <1>3, <1>4, <1>5, <2>2
  <2> QED BY <1>2, <2>1, <2>2
<1>7. AirIdx' = AirIdx \cup {x0}
  <2>1. ASSUME NEW x \in AirIdx' PROVE x \in AirIdx \cup {x0}
    <3>1. PICK i \in 1..Len(air') : x = air'[i].head.message.index
      BY DEF AirIdx
    <3>2. CASE i \in 1..Len(air)
      BY <1>2, <3>1, <3>2 DEF AirIdx
    <3>3. CASE i = Len(air) + 1
      BY <1>2, <1>5, <3>1, <3>3
    <3> QED BY <1>2, <3>2, <3>3
  <2>2. ASSUME NEW x \in AirIdx PROVE x \in AirIdx'
    <3>1. PICK i \in 1..Len(air) : x = air[i].head.message.index
      BY DEF AirIdx
    <3>2. i \in 1..Len(air') /\ air'[i] = air[i]
      BY <1>2
    <3> QED BY <3>1, <3>2 DEF AirIdx
  <2>3. x0 \in AirIdx'
    <3>1. Len(air) + 1 \in 1..Len(air')
      BY <1>2
    <3> QED BY <1>2, <1>5, <3>1 DEF AirIdx
  <2> QED BY <2>1, <2>2, <2>3
<1>8. IF Fresh THEN head.message \in Known /\ x0 \in Nat /\ x0 >= 1 ELSE air = <<>> /\ x0 = 0
  <2>1. CASE Fresh
    <3>1. head.message \in Known
      BY <2>1 DEF Known, Fresh
    <3> QED BY <2>1, <3>1, KnownTyped DEF Named
  <2>2. CASE ~Fresh
    BY <1>1, <2>2 DEF Aired, Fresh, OldMessage
  <2> QED BY <2>1, <2>2
<1>9. x0 \notin AirIdx
  <2>1. CASE Fresh
    BY <1>8, <2>1, AirKnown DEF Aired
  <2>2. CASE ~Fresh
    BY <1>8, <2>2 DEF AirIdx
  <2> QED BY <2>1, <2>2
<1>10. Len(air') <= Cardinality(AirIdx')
  <2>1. Cardinality(AirIdx') = Cardinality(AirIdx) + 1
    BY <1>7, <1>9, AirKnown, FS_AddElement
  <2>2. Len(air) <= Cardinality(AirIdx) /\ Cardinality(AirIdx) \in Nat
    BY AirKnown DEF Aired
  <2> QED BY <1>2, <2>1, <2>2
<1>11. Announcing' = Announcing
  BY <1>1 DEF Announcing
<1>12. ASSUME NEW k \in Announcing PROVE x0 < out[k].message.index
  <2>1. out[k].message \in Known
    BY DEF Known
  <2>2. out[k].message \in Messages /\ out[k].message.index >= 1 /\ out[k].message.index \in Nat
    BY <2>1, KnownTyped DEF Named
  <2>3. CASE Fresh
    <3>1. head.message \in Messages
      BY <1>8, <2>3, KnownTyped DEF Named
    <3>2. indices[head.message] < indices[out[k].message]
      BY <2>3 DEF Named, InTurn
    <3> QED BY <2>2, <3>1, <3>2 DEF indices
  <2>4. CASE ~Fresh
    BY <1>8, <2>2, <2>4
  <2> QED BY <2>3, <2>4
<1>13. \A x \in AirIdx' : \A k \in Announcing' : x < out'[k].message.index
  BY <1>1, <1>7, <1>11, <1>12 DEF Aired
<1>14. ~Fresh'
  BY <1>1 DEF Fresh, NoHead, Meta
<1>15. 0 \in AirIdx' => StaleParts > 0
  <2>1. CASE 0 \in AirIdx
    BY <2>1 DEF Aired
  <2>2. CASE x0 = 0
    BY <1>1, <1>8, <2>2 DEF Aired
  <2> QED BY <1>7, <2>1, <2>2
<1> QED BY <1>1, <1>6, <1>10, <1>13, <1>14, <1>15 DEF Aired

(* So it is with every step, *)
LEMMA AiredStep ==
  ASSUME Control, Control', Named, Flow, Aired, Kinds
  PROVE  Aired'
<1>1. CASE RelayMoves /\ Sniff(Piece(1, 1))
  <2>1. UNCHANGED <<out, head, body, air, delivered>> /\ Failed' = Failed
    BY <1>1, RelayMovesKeep DEF Sniff
  <2>2. AirIdx' = AirIdx /\ OnAir' = OnAir /\ Announcing' = Announcing /\ Fresh' = Fresh
    BY <2>1 DEF AirIdx, OnAir, Announcing, Fresh
  <2> QED BY <2>1, <2>2 DEF Aired
<1> QED BY <1>1, AiredHost, AiredTakes, AiredTransmits DEF RelayMoves

(* and nothing is on the air in the beginning. *)
LEMMA AiredStarts == Init => Aired
<1> SUFFICES ASSUME Init PROVE Aired
  OBVIOUS
<1>1. /\ air = <<>> /\ ~Fresh /\ out = <<>>
      /\ \E n \in 0..StaleParts : head = Meta(OldMessage, n)
  BY NamedStarts, NowTyped, RelayStarts DEF Init, RelayInit
<1>2. AirIdx = {} /\ Announcing = {} /\ Cardinality(AirIdx) = 0 /\ Len(air) = 0
  <2>1. AirIdx = {} /\ Announcing = {} /\ Len(air) = 0
    BY <1>1 DEF AirIdx, Announcing
  <2> QED BY <2>1, FS_EmptySet
<1>3. head # NoHead => StaleParts > 0
  BY <1>1, RelayAssumption DEF NoHead
<1> QED BY <1>1, <1>2, <1>3 DEF Aired

-----------------------------------------------------------------------------
(* The ACKs: every message on the air brought one, and a command takes one *)
(* away when it is reported as sent on it.                                 *)

(* What was reported can be counted. *)
LEMMA ReportsFinite ==
  ASSUME Control
  PROVE  /\ IsFiniteSet(Acknowledged) /\ Cardinality(Acknowledged) \in Nat
         /\ Len(reported) \in Nat /\ IsFiniteSet(1..Len(reported))
<1>1. Len(reported) \in Nat
  BY DEF Control
<1>2. IsFiniteSet(1..Len(reported))
  BY <1>1, FS_Interval
<1>3. Acknowledged \subseteq 1..Len(reported)
  BY DEF Acknowledged
<1>4. IsFiniteSet(Acknowledged)
  BY <1>2, <1>3, FS_Subset
<1> QED BY <1>1, <1>2, <1>4, FS_CardinalityType

(* A report counts as acknowledged only if it was sent and its ACK waited  *)
(* for.                                                                    *)
LEMMA AcknowledgedGrows ==
  ASSUME Control, NEW sent \in BOOLEAN, NEW wait \in {"ack", "none", "dry"}, Report(sent, wait)
  PROVE  IF sent /\ wait = "ack"
           THEN Cardinality(Acknowledged') = Cardinality(Acknowledged) + 1
           ELSE Acknowledged' = Acknowledged
<1> DEFINE n == Len(reported)
<1>1. /\ Len(reported') = n + 1 /\ n \in Nat
      /\ \A k \in 1..n : reported'[k] = reported[k]
      /\ reported'[n + 1] = [sent |-> sent, wait |-> wait, run |-> run]
  BY Reporting
<1>2. reported'[n + 1].sent = sent /\ reported'[n + 1].wait = wait
  BY <1>1
<1>3. \A k \in 1..(n + 1) : k \in 1..n \/ k = n + 1
  BY <1>1
<1>4. n + 1 \notin 1..n /\ \A k \in 1..n : k \in 1..(n + 1)
  BY <1>1
<1>5. n + 1 \in 1..(n + 1) /\ n + 1 \notin Acknowledged
  BY <1>1, <1>4 DEF Acknowledged
<1> HIDE DEF n
<1>6. CASE sent /\ wait = "ack"
  <2>1. Acknowledged' = Acknowledged \cup {n + 1}
    BY <1>1, <1>2, <1>3, <1>4, <1>5, <1>6 DEF Acknowledged, n
  <2>2. Cardinality(Acknowledged') = Cardinality(Acknowledged) + 1
    BY <2>1, <1>5, ReportsFinite, FS_AddElement
  <2> QED BY <1>6, <2>2
<1>7. CASE ~(sent /\ wait = "ack")
  <2>1. Acknowledged' = Acknowledged
    BY <1>1, <1>2, <1>3, <1>4, <1>5, <1>7 DEF Acknowledged, n
  <2> QED BY <1>7, <2>1
<1> QED BY <1>6, <1>7

(* No step reports more commands on ACKs than there were ACKs. *)
LEMMA PacedStep ==
  ASSUME Control, Named, Paced, Kinds
  PROVE  Paced'
<1>1. /\ Acks(in) \in Nat /\ Len(air) \in Nat /\ StaleAcks \in Nat
      /\ Cardinality(Acknowledged) \in Nat /\ in \in Seq(Entries) /\ RelayTyped(Messages)
  BY AcksFinite, ReportsFinite, RelayAssumption DEF Named, RelayTyped
<1>2. /\ Acks(in) + Cardinality(Acknowledged) <= Len(air) + StaleAcks
      /\ Len(reported) + 1 \in AirIdx => Acks(in) >= 1
  BY DEF Paced
<1>3. ASSUME NEW sent \in BOOLEAN, NEW wait \in {"ack", "none", "dry"}, Report(sent, wait),
             air' = air
      PROVE  Len(reported') + 1 \notin AirIdx'
  <2>1. Len(reported') = Len(reported) + 1 /\ Len(reported) \in Nat
    BY <1>3, Reporting
  <2>2. AirIdx' = AirIdx
    BY <1>3 DEF AirIdx
  <2>3. \A x \in AirIdx : x \in Nat /\ x <= Len(reported) + 1
    BY <2>1, AirKnown DEF Newest
  <2> QED BY <2>1, <2>2, <2>3
<1>4. CASE Aside \/ Announces \/ Continues
  <2>1. UNCHANGED <<in, air, reported>>
    BY <1>4 DEF Aside, Announces, Continues, Goes, Beside, relay
  <2> QED BY <2>1 DEF Paced, AirIdx, Acknowledged, Acks, AckPlaces
<1>5. CASE Polls
  <2>1. UNCHANGED <<air, reported>>
    BY <1>5 DEF Polls, Goes
  <2>2. Acks(in') = Acks(in)
    <3>1. CASE in' = in
      BY <3>1
    <3>2. CASE in # <<>> /\ in' = Tail(in) /\ Head(in) # Ack
      <4>1. Acks(in) = 0 + Acks(Tail(in)) /\ Tail(in) \in Seq(Entries)
        BY <1>1, <3>2, AcksTail
      <4>2. Acks(Tail(in)) \in Nat
        BY <4>1, AcksFinite
      <4> QED BY <3>2, <4>1, <4>2
    <3> QED BY <1>5, <3>1, <3>2 DEF Polls
  <2>3. Acks(in)' = Acks(in)
    BY <2>2 DEF Acks, AckPlaces
  <2> QED BY <2>1, <2>3 DEF Paced, AirIdx, Acknowledged
<1>6. CASE Fails
  <2>1. PICK wait \in {"ack", "none"} : Report(FALSE, wait)
    BY <1>6 DEF Fails
  <2>2. UNCHANGED <<in, air>>
    BY <1>6 DEF Fails, Beside
  <2>3. Acknowledged' = Acknowledged /\ Acks(in)' = Acks(in)
    BY <2>1, <2>2, AcknowledgedGrows DEF Acks, AckPlaces
  <2>4. Len(reported') + 1 \notin AirIdx'
    BY <1>3, <2>1, <2>2
  <2> QED BY <1>2, <2>2, <2>3, <2>4 DEF Paced
<1>7. CASE Trusts \/ Pretends
  <2>1. PICK wait \in {"none", "dry"} : Report(TRUE, wait)
    BY <1>7 DEF Trusts, Pretends
  <2>2. UNCHANGED <<in, air>>
    BY <1>7 DEF Trusts, Pretends, Beside, relay
  <2>3. Acknowledged' = Acknowledged /\ Acks(in)' = Acks(in)
    BY <2>1, <2>2, AcknowledgedGrows DEF Acks, AckPlaces
  <2>4. Len(reported') + 1 \notin AirIdx'
    BY <1>3, <2>1, <2>2
  <2> QED BY <1>2, <2>2, <2>3, <2>4 DEF Paced
<1>8. CASE Confirms
  <2>1. /\ Report(TRUE, "ack") /\ in # <<>> /\ Head(in) = Ack /\ in' = Tail(in)
        /\ air' = air
    BY <1>8 DEF Confirms
  <2>2. /\ Acks(in) = 1 + Acks(in') /\ in' \in Seq(Entries)
    BY <1>1, <2>1, AcksTail
  <2>3. Acks(in') \in Nat
    BY <2>2, AcksFinite
  <2>4. Acks(in)' = Acks(in')
    BY DEF Acks, AckPlaces
  <2>5. Cardinality(Acknowledged') = Cardinality(Acknowledged) + 1
    BY <2>1, AcknowledgedGrows
  <2>6. Acks(in)' + Cardinality(Acknowledged') <= Len(air') + StaleAcks
    BY <1>1, <1>2, <2>1, <2>2, <2>3, <2>4, <2>5
  <2>7. Len(reported') + 1 \notin AirIdx'
    BY <1>3, <2>1
  <2> QED BY <2>6, <2>7 DEF Paced
<1>9. CASE RelayMoves
  <2>1. UNCHANGED reported
    BY <1>9 DEF RelayMoves
  <2>2. Acknowledged' = Acknowledged
    BY <2>1 DEF Acknowledged
  <2>3. CASE TakePacket
    BY <1>2, <2>1, <2>2, <2>3 DEF TakePacket, Paced, AirIdx, Acks, AckPlaces
  <2>4. CASE Transmit
    <3>1. Len(air') = Len(air) + 1 /\ Acks(in') = Acks(in) + 1
      BY <1>1, <2>4, TransmitKeeps, NowTyped DEF Named
    <3>2. Acks(in)' = Acks(in) + 1
      BY <3>1 DEF Acks, AckPlaces
    <3>3. Acks(in)' >= 1 /\ Acks(in)' + Cardinality(Acknowledged') <= Len(air') + StaleAcks
      BY <1>1, <1>2, <2>2, <3>1, <3>2
    <3> QED BY <3>3 DEF Paced
  <2>5. CASE Sniff(Piece(1, 1))
    <3>1. Acks(in') = Acks(in) /\ air' = air
      BY <1>1, <2>5, SniffKeeps
    <3>2. Acks(in)' = Acks(in)
      BY <3>1 DEF Acks, AckPlaces
    <3> QED BY <1>2, <2>1, <2>2, <3>1, <3>2 DEF Paced, AirIdx
  <2> QED BY <1>9, <2>3, <2>4, <2>5 DEF RelayMoves
<1> QED BY <1>4, <1>5, <1>6, <1>7, <1>8, <1>9 DEF Kinds

(* In the beginning there are those left unread. *)
LEMMA PacedStarts == Init => Paced
<1> SUFFICES ASSUME Init PROVE Paced
  OBVIOUS
<1>1. /\ air = <<>> /\ reported = <<>> /\ Acks(in) \in Nat /\ Acks(in) <= StaleAcks
  BY NamedStarts, NowTyped, RelayStarts DEF Init, RelayInit
<1>2. AirIdx = {} /\ Acknowledged = {} /\ Len(air) = 0
  BY <1>1 DEF AirIdx, Acknowledged
<1>3. Cardinality(Acknowledged) = 0
  BY <1>2, FS_EmptySet
<1> QED BY <1>1, <1>2, <1>3, RelayAssumption DEF Paced

-----------------------------------------------------------------------------
(* The sequence numbers: a program's own number grows with every command   *)
(* that it reports as sent, and a new run starts anew.                     *)

(* What a step does to the run: nothing, or a run starts, or a command     *)
(* ends.                                                                   *)
Steady ==
  /\ UNCHANGED <<reported, run>>
  /\ sequence' \in {1, sequence}
  /\ phase' # "exit" => phase # "exit" /\ sequence' = sequence
  /\ pc_at' # "exit" => pc_at # "exit"
  /\ phase' = "sending" /\ phase # "sending" => Len(reported) < MaxCommands

Starts ==
  /\ ~Busy /\ UNCHANGED <<reported, sequence>>
  /\ run' = Len(reported) + 1 /\ Len(reported) < MaxCommands
  /\ phase' # "sending" /\ pc_at' \in {"exit", "open"}

Ends ==
  /\ Busy /\ run' = run /\ ~Busy'
  /\ \E sent \in BOOLEAN, wait \in {"ack", "none", "dry"} :
       /\ Report(sent, wait)
       /\ sequence' \in {1, sequence} \/ sent
       /\ phase' # "exit" =>
            phase = "sending" /\ sequence' = IF sent THEN (sequence + 1) % 65536 ELSE sequence
       /\ phase' = "exit" => sequence' \in {1, sequence}

Session == Steady \/ Starts \/ Ends

(* A command of ground_admin.c ends: its number advances if it was sent. *)
LEMMA ReturnEnds ==
  ASSUME Control, phase = "sending", NEW sent \in BOOLEAN, Return(sent), UNCHANGED <<run, pc>>
  PROVE  Ends
<1>1. /\ Report(sent, Wait) /\ phase' \in {"cleanup", "prompt"}
      /\ sequence' = IF sent THEN (sequence + 1) % 65536 ELSE sequence
  BY DEF Return
<1>2. Wait \in {"ack", "none", "dry"} /\ pc_at = "exit" /\ pc_at' = "exit"
  BY Waits DEF Control, pc
<1> QED BY <1>1, <1>2 DEF Ends, Busy

(* The message of pc_to_uwb.c ends, and the program with it. *)
LEMMA PcReturnEnds ==
  ASSUME Control, pc_at # "exit", NEW sent \in BOOLEAN, PcReturn(sent), UNCHANGED <<run, admin>>
  PROVE  Ends
<1>1. /\ Report(sent, "ack") /\ pc_at' = "exit"
      /\ phase = "exit" /\ UNCHANGED <<phase, sequence, run>>
  BY DEF PcReturn, PcGone, Control, admin
<1> QED BY <1>1 DEF Ends, Busy

(* A program is stopped while it is at work on a command. *)
LEMMA StoppedEnds ==
  ASSUME Busy, ~Busy', run' = run, NEW sent \in BOOLEAN, NEW wait \in {"ack", "none", "dry"},
         Report(sent, wait), phase' = "exit", sequence' \in {1, sequence}
  PROVE  Ends
BY DEF Ends

(* What every step does to the runs and their sequence numbers *)
LEMMA SessionStep ==
  ASSUME Control, [Next]_vars
  PROVE  Session
<1>1. CASE Host /\ UNCHANGED <<run, pc>>
  <2>1. CASE Open \/ UnknownCommand \/ Cleanup
    <3>1. UNCHANGED reported /\ sequence' \in {1, sequence}
      BY <2>1 DEF Open, UnknownCommand, Cleanup, AdminGone, session
    <3>2. phase' # "sending" /\ (phase' # "exit" => phase # "exit" /\ sequence' = sequence)
      BY <2>1 DEF Open, UnknownCommand, Cleanup, AdminGone, session
    <3> QED BY <1>1, <3>1, <3>2 DEF Steady, Session, pc
  <2>2. CASE Sending
    <3>1. phase = "sending"
      BY <2>2 DEF Sending, DrySend, WriteMeta, WritePayload, PollTimeout, PollPacket, PollError,
                  GiveUp, Polling
    <3>2. UNCHANGED <<session, phase>> \/ Return(TRUE) \/ Return(FALSE)
      BY <2>2 DEF Sending, DrySend, WriteMeta, WritePayload, PollTimeout, PollPacket, PollError,
                  GiveUp
    <3>3. CASE UNCHANGED <<session, phase>>
      BY <1>1, <3>1, <3>3 DEF session, pc, Steady, Session
    <3> QED BY <1>1, <3>1, <3>2, <3>3, ReturnEnds DEF Session
  <2> QED BY <1>1, <2>1, <2>2 DEF Host
<1>2. CASE PcStep /\ UNCHANGED <<run, admin>>
  <2>1. pc_at # "exit"
    BY <1>2 DEF PcStep, PcOpen, PcWrite, PcPacket, PcNoAck
  <2>2. UNCHANGED reported \/ PcReturn(TRUE) \/ PcReturn(FALSE)
    BY <1>2 DEF PcStep, PcOpen, PcWrite, PcPacket, PcNoAck
  <2>3. CASE UNCHANGED reported
    BY <1>2, <2>1, <2>3 DEF admin, Steady, Session
  <2> QED BY <1>2, <2>1, <2>2, <2>3, PcReturnEnds DEF Session
<1>3. CASE Start
  BY <1>3 DEF Start, AdminStart, PcStart, admin, pc, Starts, Session, Busy
<1>4. CASE Kill
  <2>1. CASE AdminGone /\ phase # "exit" /\ UNCHANGED pc
             /\ IF phase = "sending" THEN Report(FALSE, "none") ELSE UNCHANGED reported
    <3>1. /\ pc_at = "exit" /\ pc_at' = "exit" /\ phase' = "exit" /\ sequence' = 1 /\ run' = run
      BY <1>4, <2>1 DEF Kill, AdminGone, Control, pc
    <3>2. CASE phase = "sending"
      BY <2>1, <3>1, <3>2, StoppedEnds DEF Session, Busy
    <3>3. CASE phase # "sending"
      BY <2>1, <3>1, <3>3 DEF Steady, Session
    <3> QED BY <3>2, <3>3
  <2>2. CASE PcGone /\ pc_at # "exit" /\ UNCHANGED admin
             /\ IF pc_at = "open" THEN UNCHANGED reported ELSE Report(FALSE, "none")
    <3>1. /\ pc_at' = "exit" /\ phase = "exit" /\ phase' = "exit" /\ sequence' = sequence /\ run' = run
      BY <1>4, <2>2 DEF Kill, PcGone, Control, admin
    <3>2. CASE pc_at = "open"
      BY <2>2, <3>1, <3>2 DEF Steady, Session
    <3>3. CASE pc_at # "open"
      BY <2>2, <3>1, <3>3, StoppedEnds DEF Session, Busy
    <3> QED BY <3>2, <3>3
  <2> QED BY <1>4, <2>1, <2>2 DEF Kill
<1>5. CASE Operator /\ UNCHANGED <<run, pc>>
  BY <1>5 DEF Operator, EnterCommand, Quit, session, pc, Steady, Session
<1>6. CASE (TakePacket \/ Transmit \/ Sniff(Piece(1, 1))) /\ UNCHANGED <<reported, run, admin, pc>>
  BY <1>6 DEF admin, pc, Steady, Session
<1>7. CASE UNCHANGED vars
  BY <1>7 DEF vars, admin, pc, Steady, Session
<1> QED BY <1>1, <1>2, <1>3, <1>4, <1>5, <1>6, <1>7 DEF Next, Program

(* A message that is new is the one a program is at work on.               *)
LEMMA KnownGrows ==
  ASSUME Control, Control', Named, Kinds, Session
  PROVE  \A m \in Known' : m \in Known \/ (m = Now /\ Busy)
<1>1. /\ RelayTyped(Messages) /\ Now \in Messages
  BY NowTyped DEF Named
<1>2. ASSUME NEW n \in Nat
      PROVE  /\ Data(Now, n) \in PacketsOf(Messages) /\ ~Data(Now, n).meta
             /\ Meta(Now, n) \in PacketsOf(Messages) /\ Meta(Now, n).message = Now
  BY <1>1 DEF Data, Meta, PacketsOf
<1>3. CASE UNCHANGED <<out, head, air, delivered>>
  BY <1>3, KnownSame
<1>4. CASE Beside /\ \E n \in Nat : Written(Data(Now, n))
  BY <1>1, <1>2, <1>4, KnownWrite DEF Beside
<1>5. ASSUME Beside, NEW n \in Nat, Written(Meta(Now, n)) PROVE Known' \subseteq Known \cup {Now}
  BY <1>1, <1>2, <1>5, KnownWrite DEF Beside
<1>6. CASE RelayMoves
  BY <1>1, <1>6, KnownTake, KnownTransmit, KnownSame DEF RelayMoves, Sniff
<1>7. Announces \/ Fails => Busy
  <2>1. Fails => Len(reported') = Len(reported) + 1
    BY Reporting DEF Fails
  <2>2. UNCHANGED reported => ~Fails
    BY <2>1, NowTyped
  <2>3. Ends => Len(reported') = Len(reported) + 1
    <3> SUFFICES ASSUME Ends PROVE Len(reported') = Len(reported) + 1
      OBVIOUS
    <3>1. PICK sent \in BOOLEAN, wait \in {"ack", "none", "dry"} : Report(sent, wait)
      BY DEF Ends
    <3> QED BY <3>1, Reporting
  <2>4. ~(UNCHANGED reported) \/ ~Ends
    BY <2>3, NowTyped
  <2>5. CASE Fails
    BY <2>2, <2>5 DEF Session, Steady, Starts, Ends
  <2>6. CASE Announces
    <3>1. UnderWay' /\ Now' = Now /\ UNCHANGED reported
      BY <2>6 DEF Announces, Goes
    <3>2. ~Starts /\ ~Ends
      BY <2>4, <3>1 DEF Starts, UnderWay
    <3>3. Steady
      BY <3>2 DEF Session
    <3>4. CASE phase' = "sending"
      <4>1. Now'.kind = "ADMIN"
        BY <3>4 DEF Now, Current, Command
      <4>2. Now.kind = "ADMIN"
        BY <3>1, <4>1
      <4>3. phase = "sending"
        BY <4>2 DEF Now, PcMessage, Command
      <4> QED BY <4>3 DEF Busy
    <3>5. CASE pc_at' # "exit"
      BY <3>3, <3>5 DEF Steady, Busy
    <3> QED BY <3>1, <3>4, <3>5 DEF UnderWay
  <2> QED BY <2>5, <2>6
<1>8. Size' \in Nat /\ Done + 1 \in Nat
  BY DEF Control, Size, Done
<1>9. CASE Announces
  <2>1. Beside /\ Written(Meta(Now, Size'))
    BY <1>9 DEF Announces
  <2> QED BY <1>5, <1>7, <1>8, <1>9, <2>1
<1>10. CASE Fails
  <2>1. \/ UNCHANGED <<out, head, air, delivered>>
        \/ Beside /\ \E n \in Nat : Written(Meta(Now, n))
        \/ Beside /\ \E n \in Nat : Written(Data(Now, n))
    BY <1>10 DEF Fails, Beside
  <2> QED BY <1>3, <1>4, <1>5, <1>7, <1>10, <2>1
<1>11. CASE Aside \/ Polls \/ Confirms \/ Pretends
  BY <1>3, <1>11 DEF Aside, Polls, Confirms, Pretends, relay
<1>12. CASE Continues \/ Trusts
  BY <1>4, <1>8, <1>12 DEF Continues, Trusts
<1> QED BY <1>6, <1>9, <1>10, <1>11, <1>12 DEF Kinds

(* The end of a command is a report of its run. *)
LEMMA EndsReported ==
  ASSUME Control, Ends
  PROVE  /\ Len(reported') = Len(reported) + 1
         /\ \A k \in 1..Len(reported) : reported'[k] = reported[k]
         /\ reported'[Len(reported) + 1].run = run
<1>1. ASSUME NEW sent \in BOOLEAN, NEW wait \in {"ack", "none", "dry"}, Report(sent, wait)
      PROVE  /\ Len(reported') = Len(reported) + 1
             /\ \A k \in 1..Len(reported) : reported'[k] = reported[k]
             /\ reported'[Len(reported) + 1].run = run
  <2>1. reported'[Len(reported) + 1] = [sent |-> sent, wait |-> wait, run |-> run]
    BY <1>1, Reporting
  <2>2. reported'[Len(reported) + 1].run = run
    BY <2>1
  <2>3. /\ Len(reported') = Len(reported) + 1
        /\ \A k \in 1..Len(reported) : reported'[k] = reported[k]
    BY <1>1, Reporting
  <2> QED BY <2>2, <2>3
<1>2. PICK sent \in BOOLEAN, wait \in {"ack", "none", "dry"} : Report(sent, wait)
  BY DEF Ends
<1> QED BY <1>1, <1>2

(* No step gives a number of a run to a second command but after a         *)
(* failure.                                                                *)
LEMMA SequencedStep ==
  ASSUME Control, Control', Named, Named', Sequenced, Kinds, Session, MaxCommands < 65535
  PROVE  Sequenced'
<1> DEFINE n == Len(reported)
           Early(m) == m \in Known /\ m.index \in 1..n
           Late(m)  == m = Now /\ m.index = n + 1 /\ Busy
<1>1. /\ n \in Nat /\ Now.index = n + 1 /\ run \in Nat /\ sequence \in Nat /\ MaxCommands \in Nat
      /\ run <= n + 1 /\ n <= MaxCommands /\ sequence <= n + 1
      /\ \A k \in 1..n : reported[k].run <= k /\ reported[k].run \in Nat
  <2>1. \A k \in 1..n : reported[k].run \in Nat
    <3>1. \A k \in 1..n : reported[k] \in Reports
      BY DEF Control
    <3> QED BY <3>1 DEF Reports
  <2> QED BY <2>1, NowTyped, DownlinkAssumption DEF Control, Sequenced
<1>2. Busy => n < MaxCommands
  BY DEF Sequenced
<1> HIDE DEF n
<1>3. ASSUME NEW m \in Known' PROVE Early(m) \/ Late(m)
  <2>1. CASE m = Now /\ Busy
    BY <1>1, <2>1
  <2>2. CASE m \in Known
    <3>1. m.index \in Nat /\ m.index >= 1 /\ m.index <= Newest /\ (m.index > n => m = Now)
      BY <2>2, KnownTyped DEF Named, n
    <3>2. m.index <= n \/ (UnderWay /\ m.index = n + 1)
      BY <1>1, <3>1 DEF Newest, n
    <3>3. UnderWay => Busy
      BY DEF UnderWay, Busy, Control
    <3> QED BY <1>1, <2>2, <3>1, <3>2, <3>3
  <2> QED BY <2>1, <2>2, KnownGrows
<1>4. /\ Failed \subseteq Failed'
  BY FailedKinds
<1>5. /\ Len(reported') \in {n, n + 1}
      /\ \A k \in 1..n : k \in 1..Len(reported') /\ reported'[k] = reported[k]
      /\ Ends => Len(reported') = n + 1 /\ reported'[n + 1].run = run
      /\ ~Ends => UNCHANGED reported
  <2>1. CASE UNCHANGED reported /\ ~Ends
    BY <1>1, <2>1 DEF n
  <2>2. CASE Ends
    <3>1. /\ Len(reported') = n + 1 /\ \A k \in 1..n : reported'[k] = reported[k]
          /\ reported'[n + 1].run = run
      BY <2>2, EndsReported DEF n
    <3> QED BY <1>1, <2>2, <3>1
  <2> QED BY <2>1, <2>2 DEF Session, Steady, Starts
<1>6. ASSUME NEW m, Early(m)
      PROVE  /\ m \in Known /\ m.index \in 1..n
             /\ RunOf(m.index) = reported[m.index].run
             /\ RunOf(m.index)' = reported[m.index].run
             /\ reported[m.index].run <= m.index
  BY <1>1, <1>5, <1>6 DEF RunOf, n
<1>7. Busy => run' = run
  BY DEF Session, Steady, Starts, Ends
<1>8. ASSUME NEW m, Late(m)
      PROVE  m = Now /\ m.index = n + 1 /\ Busy /\ run' = run /\ RunOf(m.index)' = run
  <2>1. CASE Ends
    BY <1>1, <1>5, <1>7, <1>8, <2>1 DEF RunOf
  <2>2. CASE ~Ends
    <3>1. Len(reported') = n /\ n + 1 \notin 1..n
      BY <1>1, <1>5, <2>2 DEF n
    <3> QED BY <1>7, <1>8, <3>1 DEF RunOf
  <2> QED BY <2>1, <2>2
<1>9. ASSUME NEW m, Early(m), RunOf(m.index) = run, phase # "exit"
      PROVE  m.sequence <= sequence /\ (m.index \notin Failed => m.sequence < sequence)
  BY <1>1, <1>6, <1>9 DEF Sequenced, n
<1> HIDE DEF Early, Late
(* Two messages with the same number *)
<1>10. ASSUME NEW m \in Known', NEW o \in Known',
              m.index < o.index, m.sequence = o.sequence, RunOf(m.index)' = RunOf(o.index)'
       PROVE  m.index \in Failed'
  <2>1. CASE Early(m) /\ Early(o)
    <3>1. m \in Known /\ o \in Known /\ RunOf(m.index) = RunOf(o.index)
      BY <1>6, <1>10, <2>1
    <3> QED BY <1>4, <1>10, <3>1 DEF Sequenced
  <2>2. CASE Early(m) /\ Late(o)
    <3>1. reported[m.index].run = run /\ o = Now /\ Busy /\ m.index \in 1..n
      BY <1>6, <1>8, <1>10, <2>2
    <3>2. CASE phase = "sending"
      <4>1. o.sequence = sequence
        BY <3>1, <3>2 DEF Now, Current, Command
      <4>2. m.index \notin Failed => m.sequence < sequence
        BY <1>6, <1>9, <2>2, <3>1, <3>2
      <4>3. m.sequence \in Nat
        BY <1>6, <2>2, KnownTyped DEF Named, Messages
      <4> QED BY <1>1, <1>4, <1>10, <4>1, <4>2
    <3>3. CASE pc_at # "exit"
      <4>1. run = n + 1 /\ reported[m.index].run <= m.index
        BY <1>6, <2>2, <3>3 DEF Sequenced, n
      <4> QED BY <1>1, <3>1, <4>1
    <3> QED BY <3>1, <3>2, <3>3 DEF Busy
  <2>3. CASE Late(m)
    <3>1. m.index = n + 1 /\ (o.index \in 1..n \/ o.index = n + 1)
      BY <1>3, <1>6, <1>8, <2>3
    <3> QED BY <1>1, <1>10, <3>1
  <2> QED BY <1>3, <2>1, <2>2, <2>3
(* The program's own number *)
<1>11. ASSUME phase' # "exit", NEW m \in Known',
              m.index <= Len(reported'), RunOf(m.index)' = run'
       PROVE  m.sequence <= sequence' /\ (m.index \notin Failed' => m.sequence < sequence')
  <2>0. m.sequence \in Nat
    <3>1. m \in Messages
      BY <1>3, <1>6, <1>8, KnownTyped, NowTyped DEF Named
    <3> QED BY <3>1 DEF Messages
  <2>1. CASE Starts
    <3>1. Early(m) /\ run' = n + 1
      BY <1>3, <1>8, <2>1 DEF Starts, n
    <3> QED BY <1>1, <1>6, <1>11, <3>1
  <2>2. CASE Steady
    <3>1. run' = run /\ phase # "exit" /\ sequence' = sequence /\ Len(reported') = n
      BY <1>11, <2>2 DEF Steady, n
    <3>2. Early(m)
      BY <1>1, <1>3, <1>8, <1>11, <3>1
    <3> QED BY <1>4, <1>6, <1>9, <1>11, <3>1, <3>2
  <2>3. CASE Ends
    <3>1. PICK sent \in BOOLEAN, wait \in {"ack", "none", "dry"} :
             /\ Report(sent, wait)
             /\ phase = "sending" /\ sequence' = IF sent THEN (sequence + 1) % 65536 ELSE sequence
      BY <1>11, <2>3 DEF Ends
    <3>2. sequence' = IF sent THEN sequence + 1 ELSE sequence
      BY <1>1, <1>2, <3>1 DEF Busy
    <3>3. ~sent => n + 1 \in Failed'
      BY <3>1, FailedGrows DEF n
    <3>4. CASE Early(m)
      <4>1. RunOf(m.index) = run
        BY <1>6, <1>11, <2>3, <3>4 DEF Ends
      <4>2. m.sequence <= sequence /\ (m.index \notin Failed => m.sequence < sequence)
        BY <1>9, <3>1, <3>4, <4>1
      <4> QED BY <1>1, <1>4, <2>0, <3>2, <4>2
    <3>5. CASE Late(m)
      <4>1. m.index = n + 1 /\ m.sequence = sequence
        BY <1>8, <3>1, <3>5 DEF Now, Current, Command
      <4> QED BY <1>1, <3>2, <3>3, <4>1
    <3> QED BY <1>3, <3>4, <3>5
  <2> QED BY <2>1, <2>2, <2>3 DEF Session
(* The numbers of runs and commands *)
<1>12. /\ run' <= Len(reported') + 1 /\ run' \in Nat
       /\ pc_at' # "exit" => run' = Len(reported') + 1
       /\ Len(reported') <= MaxCommands
       /\ Busy' => Len(reported') < MaxCommands
       /\ sequence' <= Len(reported') + 1
  <2>1. CASE Starts
    BY <1>1, <2>1 DEF Starts, n, Busy
  <2>2. CASE Steady
    <3>1. /\ run' = run /\ Len(reported') = n /\ sequence' <= n + 1
      BY <1>1, <2>2 DEF Steady, n
    <3>2. pc_at' # "exit" => run = n + 1
      BY <2>2 DEF Steady, Sequenced, n
    <3>3. Busy' => n < MaxCommands
      BY <1>2, <2>2 DEF Busy, Steady, n
    <3> QED BY <1>1, <3>1, <3>2, <3>3
  <2>3. CASE Ends
    <3>1. Busy /\ run' = run /\ ~Busy' /\ Len(reported') = n + 1
      BY <1>5, <2>3 DEF Ends
    <3>2. sequence' <= n + 2
      <4>1. PICK sent \in BOOLEAN, wait \in {"ack", "none", "dry"} :
              /\ phase' # "exit" => sequence' = IF sent THEN (sequence + 1) % 65536 ELSE sequence
              /\ phase' = "exit" => sequence' \in {1, sequence}
        BY <2>3 DEF Ends
      <4>2. sequence + 1 < 65536 /\ (sequence + 1) % 65536 = sequence + 1
        BY <1>1, <1>2, <3>1
      <4> QED BY <1>1, <4>1, <4>2
    <3> QED BY <1>1, <1>2, <3>1, <3>2 DEF Busy
  <2> QED BY <2>1, <2>2, <2>3 DEF Session
<1>13. ASSUME NEW k \in 1..Len(reported') PROVE reported'[k].run <= k
  <2>1. CASE k \in 1..n
    BY <1>1, <1>5, <2>1
  <2>2. CASE k = n + 1 /\ Ends
    BY <1>1, <1>5, <2>2
  <2>3. Len(reported') = n + 1 => Ends
    BY <1>1, <1>5 DEF n
  <2> QED BY <1>1, <1>5, <1>13, <2>1, <2>2, <2>3
<1> QED BY <1>10, <1>11, <1>12, <1>13 DEF Sequenced

(* In the beginning no number is used. *)
LEMMA SequencedStarts == Init => Sequenced
<1> SUFFICES ASSUME Init PROVE Sequenced
  OBVIOUS
<1>1. /\ reported = <<>> /\ run = 1 /\ phase = "exit" /\ pc_at = "exit" /\ sequence = 1
      /\ out = <<>> /\ air = <<>> /\ delivered = <<>> /\ head.message = OldMessage
  BY DEF Init, RelayInit, AdminInit, PcInit, Meta
<1>2. Known = {}
  BY <1>1 DEF Known, Announcing
<1>3. Len(reported) = 0
  BY <1>1
<1> QED BY <1>1, <1>2, <1>3, DownlinkAssumption DEF Sequenced, Busy

-----------------------------------------------------------------------------
(* The theorems                                                            *)

(* Wherever the runs and the relay are, the parts of the invariant hold    *)
(* together: each needs those before it.                                   *)
THEOREM DownlinkInvariant ==
  Spec => [](Control /\ Named /\ Flow /\ Aired /\ Paced)
<1>1. Init => Control /\ Named /\ Flow /\ Aired /\ Paced
  BY NamedStarts, FlowStarts, AiredStarts, PacedStarts
<1>2. Control /\ Named /\ Flow /\ Aired /\ Paced /\ [Next]_vars
        => (Control /\ Named /\ Flow /\ Aired /\ Paced)'
  <2> SUFFICES ASSUME Control, Named, Flow, Aired, Paced, [Next]_vars
               PROVE  (Control /\ Named /\ Flow /\ Aired /\ Paced)'
    OBVIOUS
  <2>1. Control' /\ Kinds
    BY StepKinds
  <2>2. Named'
    BY <2>1, NamedStep
  <2>3. Flow'
    BY <2>1, FlowStep
  <2>4. Aired'
    BY <2>1, AiredStep
  <2>5. Paced'
    BY <2>1, PacedStep
  <2> QED BY <2>1, <2>2, <2>3, <2>4, <2>5
<1> QED BY <1>1, <1>2, PTL DEF Spec

(* A command is swallowed as the payload of another one only if that other *)
(* command was reported as failed or stopped (the transfers of             *)
(* sendAdminCommand and send_pc_to_uwb).                                   *)
THEOREM SwallowedOnlyAfterFailureHolds == Spec => []SwallowedOnlyAfterFailure
<1>1. Aired => SwallowedOnlyAfterFailure
  BY DEF Aired, SwallowedOnlyAfterFailure
<1> QED BY <1>1, DownlinkInvariant, PTL

(* Two sets together have no more elements than one after the other. *)
LEMMA UnionBound ==
  ASSUME NEW S, NEW T, IsFiniteSet(S), IsFiniteSet(T)
  PROVE  /\ IsFiniteSet(S \cup T) /\ Cardinality(S \cup T) \in Nat
         /\ Cardinality(S \cup T) <= Cardinality(S) + Cardinality(T)
<1>1. /\ IsFiniteSet(S \cup T)
      /\ Cardinality(S \cup T) = Cardinality(S) + Cardinality(T) - Cardinality(S \cap T)
  BY FS_Union
<1>2. Cardinality(S \cap T) \in Nat
  BY FS_Subset, FS_CardinalityType
<1>3. Cardinality(S) \in Nat /\ Cardinality(T) \in Nat /\ Cardinality(S \cup T) \in Nat
  BY <1>1, FS_CardinalityType
<1> QED BY <1>1, <1>2, <1>3

(* Every message on the air is that of a command acknowledged and sent as  *)
(* it was composed, of one that disturbed the operator's account, of the   *)
(* one under way, or is left over from before.                             *)
LEMMA AccountOfTheAir ==
  ASSUME Control, Named, Aired, Paced,
         NEW D, D = {i \in 1..Len(reported) : ~reported[i].sent \/ reported[i].wait = "none"}
  PROVE  Cardinality(Acknowledged \ OnAir) <= Cardinality(D) + StaleAcks + StaleParts
<1> DEFINE n == Len(reported)
           E == {x \in AirIdx : x = 0} \cup {x \in AirIdx : x = n + 1}
           S == Acknowledged \cap OnAir
<1>1. /\ n \in Nat /\ IsFiniteSet(1..n) /\ IsFiniteSet(Acknowledged)
      /\ Cardinality(Acknowledged) \in Nat /\ Acks(in) \in Nat /\ Len(air) \in Nat
      /\ IsFiniteSet(AirIdx) /\ Cardinality(AirIdx) \in Nat
      /\ StaleAcks \in Nat /\ StaleParts \in Nat
  BY ReportsFinite, AirKnown, AcksFinite, RelayAssumption DEF Named, RelayTyped
<1>2. IsFiniteSet(D) /\ Cardinality(D) \in Nat
  <2>1. D \subseteq 1..n
    OBVIOUS
  <2> QED BY <1>1, <2>1, FS_Subset, FS_CardinalityType
<1>3. IsFiniteSet(S) /\ Cardinality(S) \in Nat
  <2>1. S \subseteq Acknowledged
    OBVIOUS
  <2> QED BY <1>1, <2>1, FS_Subset, FS_CardinalityType
<1>4. AirIdx \subseteq (S \cup D) \cup E
  <2> SUFFICES ASSUME NEW x \in AirIdx, x # 0, x # n + 1 PROVE x \in S \cup D
    OBVIOUS
  <2>1. x \in 1..n
    BY <1>1, AirKnown DEF Newest
  <2>2. PICK i \in 1..Len(air) : air[i].head.message.index = x
    BY DEF AirIdx
  <2>3. air[i].head.message # OldMessage
    BY <2>2 DEF OldMessage
  <2>4. reported[x].wait # "dry"
    BY <2>1, <2>2, <2>3, AirKnown DEF Named
  <2>5. reported[x] \in Reports
    BY <2>1 DEF Control
  <2>6. CASE ~reported[x].sent \/ reported[x].wait = "none"
    BY <2>1, <2>6
  <2>7. CASE reported[x].sent /\ reported[x].wait = "ack"
    <3>1. x \in Acknowledged
      BY <2>1, <2>7 DEF Acknowledged
    <3>2. x \notin Failed
      BY <2>7 DEF Failed
    <3>3. x \in OnAir
      BY <2>2, <2>3, <3>2 DEF Aired
    <3> QED BY <3>1, <3>3
  <2> QED BY <2>4, <2>5, <2>6, <2>7 DEF Reports
<1>5. IsFiniteSet(E) /\ Cardinality(E) \in Nat /\ Cardinality(E) <= Acks(in) + StaleParts
  <2> DEFINE E0 == {x \in AirIdx : x = 0}
             E1 == {x \in AirIdx : x = n + 1}
  <2>1. IsFiniteSet(E0) /\ Cardinality(E0) \in Nat /\ Cardinality(E0) <= StaleParts
    <3>1. CASE 0 \in AirIdx
      <4>1. E0 = {0} /\ StaleParts > 0
        BY <3>1 DEF Aired
      <4>2. IsFiniteSet(E0) /\ Cardinality(E0) = 1
        BY <4>1, FS_Singleton
      <4> QED BY <1>1, <4>1, <4>2
    <3>2. CASE 0 \notin AirIdx
      <4>1. E0 = {}
        BY <3>2
      <4>2. IsFiniteSet(E0) /\ Cardinality(E0) = 0
        BY <4>1, FS_EmptySet
      <4> QED BY <1>1, <4>2
    <3> QED BY <3>1, <3>2
  <2>2. IsFiniteSet(E1) /\ Cardinality(E1) \in Nat /\ Cardinality(E1) <= Acks(in)
    <3>1. CASE n + 1 \in AirIdx
      <4>1. E1 = {n + 1} /\ Acks(in) >= 1
        BY <3>1 DEF Paced
      <4>2. IsFiniteSet(E1) /\ Cardinality(E1) = 1
        BY <4>1, FS_Singleton
      <4> QED BY <1>1, <4>1, <4>2
    <3>2. CASE n + 1 \notin AirIdx
      <4>1. E1 = {}
        BY <3>2
      <4>2. IsFiniteSet(E1) /\ Cardinality(E1) = 0
        BY <4>1, FS_EmptySet
      <4> QED BY <1>1, <4>2
    <3> QED BY <3>1, <3>2
  <2>3. E = E0 \cup E1
    OBVIOUS
  <2> HIDE DEF E, E0, E1
  <2>4. /\ IsFiniteSet(E) /\ Cardinality(E) \in Nat
        /\ Cardinality(E) <= Cardinality(E0) + Cardinality(E1)
    BY <2>1, <2>2, <2>3, UnionBound
  <2> QED BY <1>1, <2>1, <2>2, <2>4
<1> HIDE DEF E, S, n
<1>6. /\ IsFiniteSet(S \cup D) /\ Cardinality(S \cup D) \in Nat
      /\ Cardinality(S \cup D) <= Cardinality(S) + Cardinality(D)
  BY <1>2, <1>3, UnionBound
<1>7. /\ IsFiniteSet((S \cup D) \cup E)
      /\ Cardinality((S \cup D) \cup E) <= Cardinality(S \cup D) + Cardinality(E)
      /\ Cardinality((S \cup D) \cup E) \in Nat
  BY <1>5, <1>6, UnionBound
<1>8. Cardinality(AirIdx) <= Cardinality((S \cup D) \cup E)
  BY <1>4, <1>7, FS_Subset
<1>9. Cardinality(Acknowledged \ OnAir) = Cardinality(Acknowledged) - Cardinality(S)
  BY <1>1, FS_Difference DEF S
<1>10. Acks(in) + Cardinality(Acknowledged) <= Len(air) + StaleAcks /\ Len(air) <= Cardinality(AirIdx)
  BY DEF Paced, Aired
<1>11. Len(air) <= Cardinality(S) + Cardinality(D) + Cardinality(E)
  BY ONLY <1>1, <1>2, <1>3, <1>5, <1>6, <1>7, <1>8, <1>10
<1> QED BY ONLY <1>1, <1>2, <1>3, <1>5, <1>9, <1>10, <1>11

(* Over all runs of both tools one ACK never stands for two commands, and  *)
(* an undisturbed operator is never told of a transmission that did not    *)
(* happen (waitForSnifferAck, wait_downlink_ack).                          *)
THEOREM SentUnlessDisturbedHolds == Spec => []SentUnlessDisturbed
<1>1. Control /\ Named /\ Aired /\ Paced => SentUnlessDisturbed
  <2> SUFFICES ASSUME Control, Named, Aired, Paced PROVE SentUnlessDisturbed
    OBVIOUS
  <2> DEFINE D == {i \in 1..Len(reported) : ~reported[i].sent \/ reported[i].wait = "none"}
  <2>1. Cardinality(Acknowledged) <= Len(air) + StaleAcks
    <3>1. /\ Acks(in) + Cardinality(Acknowledged) <= Len(air) + StaleAcks
      BY DEF Paced
    <3>2. /\ Acks(in) \in Nat /\ Cardinality(Acknowledged) \in Nat
          /\ Len(air) \in Nat /\ StaleAcks \in Nat
      BY ReportsFinite, AcksFinite, RelayAssumption DEF Named, RelayTyped
    <3> QED BY <3>1, <3>2
  <2>2. Cardinality(Acknowledged \ OnAir) <= Cardinality(D) + StaleAcks + StaleParts
    BY AccountOfTheAir
  <2> QED BY <2>1, <2>2 DEF SentUnlessDisturbed
<1> QED BY <1>1, DownlinkInvariant, PTL

(* As long as the 16 bits of the sequence number do not wrap around        *)
LEMMA NumbersInvariant ==
  ASSUME MaxCommands < 65535
  PROVE  Spec => [](Control /\ Named /\ Sequenced)
<1>1. Init => Control /\ Named /\ Sequenced
  BY NamedStarts, SequencedStarts
<1>2. Control /\ Named /\ Sequenced /\ [Next]_vars => (Control /\ Named /\ Sequenced)'
  <2> SUFFICES ASSUME Control, Named, Sequenced, [Next]_vars
               PROVE  (Control /\ Named /\ Sequenced)'
    OBVIOUS
  <2>1. Control' /\ Kinds /\ Session
    BY StepKinds, SessionStep
  <2>2. Named'
    BY <2>1, NamedStep
  <2>3. Sequenced'
    BY <2>1, <2>2, SequencedStep
  <2> QED BY <2>1, <2>2, <2>3
<1> QED BY <1>1, <1>2, PTL DEF Spec

(* Two commands of a run on the air with the same sequence number: the     *)
(* earlier one was reported as failed (the increments in runInteractive    *)
(* and runOneCommand), as long as there are not so many commands that the  *)
(* 16 bits of the number wrap around.                                      *)
THEOREM ReuseOnlyAfterFailureHolds ==
  ASSUME MaxCommands < 65535
  PROVE  Spec => []ReuseOnlyAfterFailure
<1>1. Control /\ Named /\ Sequenced => ReuseOnlyAfterFailure
  <2> SUFFICES ASSUME Control, Named, Sequenced,
                      NEW i \in 1..Len(delivered), NEW j \in 1..Len(delivered),
                      i < j, delivered[i].sequence = delivered[j].sequence,
                      delivered[j].index \in 1..Len(reported),
                      reported[delivered[i].index].run = reported[delivered[j].index].run
               PROVE  delivered[i].index \in Failed
    BY DEF ReuseOnlyAfterFailure
  <2>1. /\ delivered[i] \in Known /\ delivered[j] \in Known
    BY DEF Known
  <2>2. /\ delivered[i] \in Messages /\ delivered[i].index \in Nat /\ delivered[i].index >= 1
        /\ delivered[j] \in Messages
    BY <2>1, KnownTyped DEF Named
  <2>3. delivered[i].index < delivered[j].index
    <3>1. indices[delivered[i]] < indices[delivered[j]]
      BY DEF Named, InTurn
    <3> QED BY <2>2, <3>1 DEF indices
  <2>4. delivered[i].index \in 1..Len(reported)
    <3>1. Len(reported) \in Nat
      BY DEF Control
    <3> QED BY <2>2, <2>3, <3>1
  <2>5. RunOf(delivered[i].index) = RunOf(delivered[j].index)
    BY <2>4 DEF RunOf
  <2> QED BY <2>1, <2>3, <2>5 DEF Sequenced
<1> QED BY <1>1, NumbersInvariant, PTL
=============================================================================
