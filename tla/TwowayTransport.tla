--------------------------- MODULE TwowayTransport --------------------------
(***************************************************************************)
(* The two-way transport (twoway_transport.c): the main thread sends what  *)
(* the operator types and sleeps on a condition variable until the relay's *)
(* ACK is reported; a receive thread reads USB packets, in which ACKs and  *)
(* bytes of sniffed frames are mixed, reports the ACKs, reassembles the    *)
(* frames from the rest and writes them to the log file.  keep_running,    *)
(* which either thread and SIGINT clear, ends both.                        *)
(***************************************************************************)
EXTENDS RelayLink, FiniteSets

CONSTANTS
  Traffic,       \* what the relay may overhear: [claims, frames]
  MAGIC_PIECES,  \* pieces of a magic,
  META_PIECES,   \* of the metadata that it begins,
  MAX_PIECES,    \* and of a frame with MAX_MESSAGE_SIZE bytes of payload, at most
  PacketUnits,   \* pieces and ACKs that fit in a USB packet
  StreamLimit,   \* STREAM_BUFFER_SIZE, in pieces
  MaxSends       \* bound: messages sent

ASSUME TwowayAssumption ==
  /\ MAGIC_PIECES \in Nat \ {0}
  /\ {META_PIECES, MAX_PIECES, StreamLimit, MaxSends} \subseteq Nat
  /\ MAGIC_PIECES <= META_PIECES /\ META_PIECES <= MAX_PIECES
  /\ PacketUnits \in Nat \ {0}

(* The claim of a piece is 0 where no magic begins with it; otherwise the  *)
(* number of pieces that the metadata there announces, its own included.   *)
(* More than MAX_PIECES stand for a length that is out of range.           *)
ASSUME TrafficAssumption ==
  \A t \in Traffic :
    /\ t.claims \in Seq(Nat) /\ t.frames \in Seq(Nat)
    /\ \A p \in 1..Len(t.claims) : t.claims[p] # 0 => t.claims[p] >= META_PIECES

VARIABLES
  traffic,       \* history: the pieces that the relay overhears
  sniffed,       \* relay: how many of them it has queued so far
  keep_running,
  ackReceived,   \* guarded by ackMutex
  main_pc,       \* "setup", "prompt", "input", the steps of a send, "cleanup",
                 \* "join", "exit"
  sends,         \* messages sent so far; the number of the current one
  receipts,      \* history: the messages for which an ACK was reported
  rx_pc,         \* "none", "check", "read", "dispatch", "parse", "ended"
  packet,        \* what dispatch_usb_in_packet has still to look at
  stream,        \* reassembly buffer
  log            \* the frames in the file

receive == <<rx_pc, packet, stream, log>>
send    == <<main_pc, sends, receipts>>
relaying == <<relay, traffic, sniffed>>
vars    == <<relaying, keep_running, ackReceived, send, receive>>

Init ==
  /\ RelayInit
  /\ traffic \in Traffic
  /\ sniffed = 0
  /\ keep_running = TRUE
  /\ ackReceived = FALSE
  /\ main_pc = "setup"
  /\ sends = 0
  /\ receipts = {}
  /\ rx_pc = "none"
  /\ packet = <<>>
  /\ stream = <<>>
  /\ log = <<>>

(* The sequence number, typed or counted, is not looked at by anybody. *)
Current == [sequence |-> sends, kind |-> "GETPC", index |-> 0]

-----------------------------------------------------------------------------
(* main: opening the device and the file, starting the receive thread *)

Setup ==
  /\ main_pc = "setup"
  /\ \/ main_pc' = "cleanup" /\ UNCHANGED <<rx_pc, sends>>
     \/ main_pc' = "prompt" /\ rx_pc' = "check" /\ UNCHANGED sends
     \/ /\ main_pc' = "reset" /\ rx_pc' = "check"    \* message in argv
        /\ sends' = sends + 1 /\ sends < MaxSends
  /\ UNCHANGED <<relaying, keep_running, ackReceived, receipts, packet, stream, log>>

Prompt ==
  /\ main_pc = "prompt"
  /\ main_pc' = IF keep_running THEN "input" ELSE "cleanup"
  /\ UNCHANGED <<relaying, keep_running, ackReceived, sends, receipts, receive>>

(* The operator: a message, a line that sends nothing, quit or end of file *)
EnterMessage ==
  /\ main_pc = "input"
  /\ sends < MaxSends
  /\ sends' = sends + 1
  /\ main_pc' = "reset"
  /\ UNCHANGED <<relaying, keep_running, ackReceived, receipts, receive>>

EnterOther ==
  /\ main_pc = "input"
  /\ \/ main_pc' = "prompt" /\ UNCHANGED keep_running
     \/ main_pc' = "cleanup" /\ keep_running' = FALSE
     \/ main_pc' = "cleanup" /\ UNCHANGED keep_running
  /\ UNCHANGED <<relaying, ackReceived, sends, receipts, receive>>

(* Mutant of Cleanup: keep_running is left as it is. *)
CleanupOnly ==
  /\ main_pc = "cleanup"
  /\ main_pc' = "join"
  /\ UNCHANGED <<relaying, keep_running, ackReceived, sends, receipts, receive>>

Cleanup ==
  /\ main_pc = "cleanup"
  /\ keep_running' = FALSE
  /\ main_pc' = "join"
  /\ UNCHANGED <<relaying, ackReceived, sends, receipts, receive>>

(* pthread_join, if the thread was started; the file and the device close. *)
Join ==
  /\ main_pc = "join"
  /\ rx_pc \in {"none", "ended"}
  /\ main_pc' = "exit"
  /\ UNCHANGED <<relaying, keep_running, ackReceived, sends, receipts, receive>>

-----------------------------------------------------------------------------
(* send_pc_to_uwb *)

ResetAckWait ==
  /\ main_pc = "reset"
  /\ ackReceived' = FALSE
  /\ main_pc' = "meta"
  /\ UNCHANGED <<relaying, keep_running, sends, receipts, receive>>

(* A payload of no packet or of one; the relay is told which. *)
WriteMeta ==
  /\ main_pc = "meta"
  /\ \E number \in 0..1 :
       \/ /\ Written(Meta(Current, number))
          /\ main_pc' = IF number = 0 THEN "wait" ELSE "payload"
       \/ WriteFailed(Meta(Current, number)) /\ main_pc' = "prompt"
  /\ UNCHANGED <<in, head, body, air, delivered, traffic, sniffed>>
  /\ UNCHANGED <<keep_running, ackReceived, sends, receipts, receive>>

WritePayload ==
  /\ main_pc = "payload"
  /\ \/ Written(Data(Current, 1)) /\ main_pc' = "wait"
     \/ WriteFailed(Data(Current, 1)) /\ main_pc' = "prompt"
  /\ UNCHANGED <<in, head, body, air, delivered, traffic, sniffed>>
  /\ UNCHANGED <<keep_running, ackReceived, sends, receipts, receive>>

(* wait_ack_ms, with the mutex held: a pass of its loop *)
WaitAck ==
  /\ main_pc = "wait"
  /\ \/ /\ ~keep_running
        /\ main_pc' = "prompt"
        /\ UNCHANGED <<ackReceived, receipts>>
     \/ /\ keep_running /\ ackReceived
        /\ ackReceived' = FALSE
        /\ receipts' = receipts \cup {sends}
        /\ main_pc' = "prompt"
     \/ /\ keep_running /\ ~ackReceived
        /\ main_pc' = "sleep"
        /\ UNCHANGED <<ackReceived, receipts>>
  /\ UNCHANGED <<relaying, keep_running, sends, receive>>

(* Mutant of Wake: the flag is not checked again after a wake-up. *)
WakeTrusting ==
  /\ main_pc = "sleep"
  /\ receipts' = receipts \cup {sends}
  /\ main_pc' = "prompt"
  /\ UNCHANGED <<relaying, keep_running, ackReceived, sends, receive>>

(* Woken by the signal of notify_ack, or spuriously *)
Wake ==
  /\ main_pc = "sleep"
  /\ main_pc' = "wait"
  /\ UNCHANGED <<relaying, keep_running, ackReceived, sends, receipts, receive>>

(* ETIMEDOUT; what was reported in the meantime is not looked at. *)
WaitTimeout ==
  /\ main_pc = "sleep"
  /\ main_pc' = "prompt"
  /\ UNCHANGED <<relaying, keep_running, ackReceived, sends, receipts, receive>>

-----------------------------------------------------------------------------
(* The receive thread *)

RxLoop ==
  /\ rx_pc = "check"
  /\ rx_pc' = IF keep_running THEN "read" ELSE "ended"
  /\ UNCHANGED <<relaying, keep_running, ackReceived, send, packet, stream, log>>

RxTimeout ==
  /\ rx_pc = "read"
  /\ in = <<>>
  /\ rx_pc' = "check"
  /\ UNCHANGED <<relaying, keep_running, ackReceived, send, packet, stream, log>>

RxError ==
  /\ rx_pc = "read"
  /\ keep_running' = FALSE
  /\ rx_pc' = "ended"
  /\ UNCHANGED <<relaying, ackReceived, send, packet, stream, log>>

(* A USB packet of what the relay has queued *)
RxPacket ==
  /\ rx_pc = "read"
  /\ \E n \in 1..PacketUnits :
       /\ n <= Len(in)
       /\ packet' = SubSeq(in, 1, n)
       /\ in' = SubSeq(in, n + 1, Len(in))
  /\ rx_pc' = "dispatch"
  /\ UNCHANGED <<out, head, body, air, delivered, traffic, sniffed>>
  /\ UNCHANGED <<keep_running, ackReceived, send, stream, log>>

(* Mutant of DispatchAck: only a sleeping sender learns of the ACK. *)
SignalOnly ==
  /\ rx_pc = "dispatch"
  /\ packet # <<>> /\ Head(packet) = Ack
  /\ ackReceived' = (ackReceived \/ main_pc = "sleep")
  /\ packet' = Tail(packet)
  /\ UNCHANGED <<relaying, keep_running, send, rx_pc, stream, log>>

(* dispatch_usb_in_packet: notify_ack for an ACK at the front ... *)
DispatchAck ==
  /\ rx_pc = "dispatch"
  /\ packet # <<>> /\ Head(packet) = Ack
  /\ ackReceived' = TRUE
  /\ packet' = Tail(packet)
  /\ UNCHANGED <<relaying, keep_running, send, rx_pc, stream, log>>

(* ... and append_sniffer_bytes for the bytes up to the next one *)
DispatchBytes ==
  /\ rx_pc = "dispatch"
  /\ packet # <<>> /\ Head(packet) # Ack
  /\ \E bytes \in 1..Len(packet) :
       /\ \A k \in 1..bytes : packet[k] # Ack
       /\ bytes < Len(packet) => packet[bytes + 1] = Ack
       /\ LET kept == IF Len(stream) + bytes > StreamLimit THEN <<>> ELSE stream
          IN stream' = kept \o SubSeq(packet, 1, bytes)
       /\ packet' = SubSeq(packet, bytes + 1, Len(packet))
  /\ rx_pc' = "parse"
  /\ UNCHANGED <<relaying, keep_running, ackReceived, send, log>>

DispatchEnd ==
  /\ rx_pc = "dispatch"
  /\ packet = <<>>
  /\ rx_pc' = "check"
  /\ UNCHANGED <<relaying, keep_running, ackReceived, send, packet, stream, log>>

(* parse_sniffer_stream: what the metadata at the front of a buffer claims *)
(* for its frame, and how many pieces of it must be there to go on.        *)
Claim(s)  == IF Len(s) < MAGIC_PIECES THEN 0 ELSE Head(s).claim
Needed(s) == IF Claim(s) = 0 THEN MAGIC_PIECES
             ELSE IF Claim(s) > MAX_PIECES THEN META_PIECES
             ELSE Claim(s)

(* A pass of its loop: nothing more to do, ... *)
ParseEnd ==
  /\ rx_pc = "parse"
  /\ ~keep_running \/ Len(stream) < Needed(stream)
  /\ rx_pc' = "dispatch"
  /\ UNCHANGED <<relaying, keep_running, ackReceived, send, packet, stream, log>>

Parsing == rx_pc = "parse" /\ keep_running /\ Len(stream) >= Needed(stream)

(* ... a byte that begins no magic is skipped, ... *)
ParseSkip ==
  /\ Parsing /\ Claim(stream) = 0
  /\ stream' = Tail(stream)
  /\ UNCHANGED <<relaying, keep_running, ackReceived, send, rx_pc, packet, log>>

(* Mutant of ParseInvalid: the metadata is dropped as a whole. *)
DropMetadata ==
  /\ Parsing /\ Claim(stream) > MAX_PIECES
  /\ stream' = SubSeq(stream, META_PIECES + 1, Len(stream))
  /\ UNCHANGED <<relaying, keep_running, ackReceived, send, rx_pc, packet, log>>

(* ... as is the first byte of metadata with a length out of range, ... *)
ParseInvalid ==
  /\ Parsing /\ Claim(stream) > MAX_PIECES
  /\ stream' = Tail(stream)
  /\ UNCHANGED <<relaying, keep_running, ackReceived, send, rx_pc, packet, log>>

(* ... and a complete frame is written, or cannot be. *)
AtFrame == Parsing /\ Claim(stream) \in 1..MAX_PIECES

ParseFrame ==
  /\ AtFrame
  /\ log' = Append(log, SubSeq(stream, 1, Claim(stream)))
  /\ stream' = SubSeq(stream, Claim(stream) + 1, Len(stream))
  /\ UNCHANGED <<relaying, keep_running, ackReceived, send, rx_pc, packet>>

ParseWriteError ==
  /\ AtFrame
  /\ keep_running' = FALSE
  /\ rx_pc' = "dispatch"
  /\ UNCHANGED <<relaying, ackReceived, send, packet, stream, log>>

-----------------------------------------------------------------------------
(* The rest of the world: the relay and SIGINT, which does not end fgets *)

SniffPiece ==
  /\ sniffed < Len(traffic.claims)
  /\ Sniff(Piece(sniffed + 1, traffic.claims[sniffed + 1]))
  /\ sniffed' = sniffed + 1
  /\ UNCHANGED <<traffic, keep_running, ackReceived, send, receive>>

RelayTx ==
  /\ TakePacket \/ Transmit
  /\ UNCHANGED <<traffic, sniffed, keep_running, ackReceived, send, receive>>

Sigint ==
  /\ main_pc # "exit"
  /\ keep_running' = FALSE
  /\ UNCHANGED <<relaying, ackReceived, send, receive>>

Main == \/ Setup \/ Prompt \/ Cleanup \/ Join
        \/ ResetAckWait \/ WriteMeta \/ WritePayload \/ WaitAck \/ Wake \/ WaitTimeout
Rx   == \/ RxLoop \/ RxTimeout \/ RxError \/ RxPacket \/ DispatchAck \/ DispatchBytes \/ DispatchEnd
        \/ ParseEnd \/ ParseSkip \/ ParseInvalid \/ ParseFrame \/ ParseWriteError

Next == Main \/ EnterMessage \/ EnterOther \/ Rx \/ SniffPiece \/ RelayTx \/ Sigint

Spec == Init /\ [][Next]_vars

(* Both threads run on, and the wait for an ACK ends by its deadline,      *)
(* however often it is woken before.  The operator, the relay and SIGINT   *)
(* need not do anything.                                                   *)
FairSpec ==
  /\ Spec
  /\ WF_vars(Main) /\ SF_vars(WaitTimeout)
  /\ WF_vars(Rx)

-----------------------------------------------------------------------------
(* Properties *)

Sent == {delivered[k].sequence : k \in 1..Len(delivered)}
Pending == \E k \in 1..Len(in \o packet) : (in \o packet)[k] = Ack

(* The ACK of the message the main thread waits for is not lost between    *)
(* the threads: once the message is on the air and no ACK is on its way,   *)
(* ackReceived is set (reset_ack_wait before the transfers, notify_ack,    *)
(* dispatch_usb_in_packet).                                                *)
AckNotMissed ==
  main_pc \in {"wait", "sleep"} /\ rx_pc # "ended" /\ sends \in Sent /\ ~Pending =>
    ackReceived

(* No more receipts are printed than messages were transmitted, but for    *)
(* ACKs that earlier runs left unread: a wake-up alone is no receipt       *)
(* (wait_ack_ms).                                                          *)
NoSurplusReceipt == Cardinality(receipts) <= Len(air) + StaleAcks

(* Clean traffic: the rest of a torn frame, whole frames one behind the    *)
(* other, and metadata with lengths out of range; whatever their payloads  *)
(* hold, nothing between the frames looks like one.                        *)
Extent(t, k) == t.frames[k]..(t.frames[k] + t.claims[t.frames[k]] - 1)

CleanTraffic(t) ==
  /\ \A k \in 1..Len(t.frames) :
       t.frames[k] \in 1..Len(t.claims) /\ t.claims[t.frames[k]] \in META_PIECES..MAX_PIECES
  /\ \A j, k \in 1..Len(t.frames) :
       j < k => t.frames[j] + t.claims[t.frames[j]] <= t.frames[k]
  /\ \A p \in 1..Len(t.claims) :
       t.claims[p] \in META_PIECES..MAX_PIECES => \E k \in 1..Len(t.frames) : p \in Extent(t, k)

(* Where a frame in the file began, and what was overheard there *)
Begin(frame) == frame[1].position
Overheard(t, p) == [k \in 1..t.claims[p] |-> Piece(p + k - 1, t.claims[p + k - 1])]

(* With ACKs anywhere in the bytes, the file holds pieces that were        *)
(* overheard one behind the other, as many as their metadata announces,    *)
(* and none twice.  Of clean traffic these are exactly the frames, none    *)
(* left out, and all that were complete once everything was read: metadata *)
(* with an invalid length costs no frame.  The reassembly buffer never     *)
(* overflows (dispatch_usb_in_packet, append_sniffer_bytes,                *)
(* parse_sniffer_stream).                                                  *)
LogExact ==
  /\ \A k \in 1..Len(log) :
       /\ log[k] = Overheard(traffic, Begin(log[k]))
       /\ \A j \in 1..(k - 1) : Begin(log[j]) + Len(log[j]) <= Begin(log[k])
  /\ CleanTraffic(traffic) =>
       /\ \A k \in 1..Len(log) : k <= Len(traffic.frames) /\ Begin(log[k]) = traffic.frames[k]
       /\ keep_running /\ rx_pc = "check" /\ in = <<>> =>
            \A k \in 1..Len(traffic.frames) :
              Extent(traffic, k) \subseteq 1..sniffed => k <= Len(log)
  /\ rx_pc = "dispatch" => Len(stream) + Len(packet) <= StreamLimit

(* Once the program is to end it does, unless it waits for a line of the   *)
(* operator (interactive_loop, wait_ack_ms, rx_thread_main, main).         *)
ShutdownCompletes ==
  ~keep_running \/ main_pc = "cleanup" ~> main_pc \in {"input", "exit"}
=============================================================================
