------------------------- MODULE FlightLogSimProofs -------------------------
(***************************************************************************)
(* Theorems about FlightLogSim for any number of drones, any log, any      *)
(* replay rate; and, at the end, about FlightLogFaults: whatever drones    *)
(* end, and however the removals interleave with the loops that read the   *)
(* node table without its mutex, the table is right whenever nobody is     *)
(* inside the mutex, and the phases stay apart.                            *)
(***************************************************************************)
EXTENDS FlightLogFaults, FiniteSetTheorems, SequenceTheorems, TLAPS

(* The number of drones is a natural number, at least two. *)
LEMMA NodesNum == NODES_NUM \in Nat /\ NODES_NUM >= 2
  BY DronesAssumption, FS_CardinalityType DEF NODES_NUM

(* A round that is played plays a row of the log. *)
LEMMA RowInLog ==
  ASSUME NEW n \in Nat, HasRow(n + 1)
  PROVE  RowOf(n + 1) \in DOMAIN Log
<1> DEFINE q == n \div NODES_NUM
           b == NODES_NUM * RANGING_PERIOD_RATE
<1>1. Log \in Seq(Row)
  BY LogAssumption
<1>2. q \in Nat /\ n % NODES_NUM \in Nat
  BY NodesNum
<1>3. b \in Nat
  BY NodesNum, RateAssumption
<1>4. q * b \in Nat
  <2> HIDE DEF q, b
  <2> QED BY <1>2, <1>3
<1>5. RowOf(n + 1) = q * b + (n % NODES_NUM) + 1
  BY NodesNum DEF RowOf
<1>6. RowOf(n + 1) \in Nat /\ RowOf(n + 1) >= 1
  <2> HIDE DEF q, b
  <2> QED BY <1>2, <1>4, <1>5
<1> QED
  BY <1>1, <1>6 DEF HasRow

(* A row's number is an integer, whatever the round. *)
LEMMA RowInt ==
  ASSUME NEW n \in Nat
  PROVE  RowOf(n) \in Int
<1> DEFINE q == (n - 1) \div NODES_NUM
           b == NODES_NUM * RANGING_PERIOD_RATE
<1>1. q \in Int /\ (n - 1) % NODES_NUM \in Int
  BY NodesNum
<1>2. b \in Int
  BY NodesNum, RateAssumption
<1>3. q * b \in Int
  <2> HIDE DEF q, b
  <2> QED BY <1>1, <1>2
<1>4. RowOf(n) = q * b + ((n - 1) % NODES_NUM) + 1
  BY DEF RowOf
<1> QED
  <2> HIDE DEF q, b
  <2> QED BY <1>1, <1>3, <1>4

(* Every recipient of a round that is played is a drone. *)
LEMMA RecipientType ==
  ASSUME NEW n, RowOf(n) \in DOMAIN Log, NEW k \in 0..(NODES_NUM - 1)
  PROVE  Recipient(n, k) \in Drones
<1>1. Log[RowOf(n)] \in Row
  BY LogAssumption
<1>2. CASE k = 0
  BY <1>1, <1>2 DEF Recipient, Sender, Row
<1>3. CASE k # 0
  <2>1. k \in 1..(NODES_NUM - 1)
    BY <1>3, NodesNum
  <2> QED BY <1>1, <1>3, <2>1 DEF Recipient, Row
<1> QED BY <1>2, <1>3

(* What a drone loads is the beginning of the log. *)
Loaded == 1..total_rows

LEMMA LoadedRows ==
  /\ total_rows \in Nat
  /\ Loaded \subseteq DOMAIN Log /\ Loaded \subseteq Nat \ {0}
  /\ \A r \in DOMAIN Log : r \notin Loaded => \A j \in Loaded : j < r
<1>1. DOMAIN Log = 1..Len(Log) /\ Len(Log) \in Nat
  BY LogAssumption
<1>2. total_rows \in Nat /\ total_rows <= Len(Log)
  BY <1>1, RowsAssumption DEF total_rows
<1> QED BY <1>1, <1>2 DEF Loaded

(* The row cursor stays within the loaded rows or just past them. *)
LEMMA CursorType ==
  ASSUME NEW d, NEW t
  PROVE  NextCursor(d, t) \in 1..(total_rows + 1)
<1>1. total_rows \in Nat
  BY LoadedRows
<1>2. CASE \E j \in 1..total_rows : IsNextRow(d, t, j)
  <2> DEFINE c == CHOOSE j \in 1..total_rows : IsNextRow(d, t, j)
  <2>1. c \in 1..total_rows
    BY <1>2
  <2>2. NextCursor(d, t) = c
    BY <1>2 DEF NextCursor
  <2> QED BY <1>1, <2>1, <2>2
<1>3. CASE ~\E j \in 1..total_rows : IsNextRow(d, t, j)
  BY <1>1, <1>3 DEF NextCursor
<1> QED BY <1>2, <1>3

-----------------------------------------------------------------------------
(* Type correctness.  The facts of the state a send and a reply need:      *)

(* send() on an entry of the table keeps the sockets' contents messages. *)
LEMMA SendType ==
  ASSUME TypeOK, NEW i, NEW m \in Message, Send(i, m)
  PROVE  down' \in [Drones -> Seq(Message)] /\ running' \in BOOLEAN
<1>1. CASE node[i] \in Drones /\ alive[node[i]] /\ UNCHANGED running
           /\ down' = [down EXCEPT ![node[i]] = Append(@, m)]
  BY <1>1 DEF TypeOK
<1>2. CASE UNCHANGED down /\ running' \in BOOLEAN
  BY <1>2 DEF TypeOK
<1> QED BY <1>1, <1>2 DEF Send, TypeOK

(* A drone's reply keeps the replies in flight replies. *)
LEMMA ReplyType ==
  ASSUME TypeOK, NEW d \in Drones, NEW m \in Reply, SendToCenter(d, m)
  PROVE  up' \in [Drones -> Seq(Reply)] /\ alive' \in [Drones -> BOOLEAN]
<1>1. CASE up' = [up EXCEPT ![d] = Append(@, m)] /\ UNCHANGED alive
  BY <1>1 DEF TypeOK
<1>2. CASE UNCHANGED up /\ \E b \in BOOLEAN : alive' = [alive EXCEPT ![d] = b]
  BY <1>2 DEF TypeOK
<1> QED BY <1>1, <1>2 DEF SendToCenter

(* A drone that reads takes a message off its socket. *)
LEMMA ReadType ==
  ASSUME TypeOK, NEW d \in Drones, Read(d)
  PROVE  /\ down' \in [Drones -> Seq(Message)]
         /\ received' \in [Drones -> Nat]
         /\ Head(down[d]) \in Message
<1>1. down \in [Drones -> Seq(Message)] /\ received \in [Drones -> Nat]
  BY DEF TypeOK
<1>2. down[d] \in Seq(Message) /\ received[d] + 1 \in Nat
  BY <1>1
<1>3. /\ down[d] # <<>>
      /\ down' = [down EXCEPT ![d] = Tail(@)] /\ received' = [received EXCEPT ![d] = @ + 1]
  BY DEF Read
<1>4. Head(down[d]) \in Message /\ Tail(down[d]) \in Seq(Message)
  BY ONLY <1>2, <1>3, HeadTailProperties
<1> QED BY ONLY <1>1, <1>2, <1>3, <1>4

(* The types hold initially.                                               *)
LEMMA TypeInit == Init => TypeOK
BY NodesNum, LoadedRows DEF Init, TypeOK, Registrations, LogPCs, HandlerPCs, Ranging

(* Every step keeps them.                                                  *)
LEMMA TypeStep ==
  ASSUME TypeOK, [Next]_vars
  PROVE  TypeOK'
<1> USE NodesNum
<1>1. CASE TakeAllocation
  BY <1>1, RowInLog DEF TypeOK, TakeAllocation, LogPCs, table, handler, drone
<1>2. CASE TakeResponse
  BY <1>2 DEF TypeOK, TakeResponse, LogPCs, table, handler, drone
<1>3. CASE ScanEntry
  BY <1>3 DEF TypeOK, ScanEntry, LogPCs, table, semaphores, handler, drone
<1>4. CASE SendTask
  <2>1. Task \in Message
    BY <1>4, RecipientType DEF TypeOK, SendTask, Task, Message
  <2>2. down' \in [Drones -> Seq(Message)] /\ running' \in BOOLEAN
    BY <1>4, <2>1, SendType DEF SendTask
  <2> QED BY <1>4, <2>2 DEF TypeOK, SendTask, LogPCs, table, semaphores, handler, drone
<1>5. CASE NextTask
  BY <1>5 DEF TypeOK, NextTask, LogPCs, table, semaphores, handler, drone
<1>6. CASE PostBroadcast
  BY <1>6 DEF TypeOK, PostBroadcast, LogPCs, table, handler, drone
<1>7. CASE FinishLog
  BY <1>7 DEF TypeOK, FinishLog, center, table, semaphores, logVars, handler, drone
<1>8. ASSUME NEW d \in Drones, ReceiveRanging(d)
      PROVE  TypeOK'
  <2>1. Head(up[d]) \in Reply /\ Tail(up[d]) \in Seq(Reply)
    BY <1>8 DEF TypeOK, ReceiveRanging
  <2>2. Head(up[d]) \in Ranging
    BY <1>8, <2>1 DEF ReceiveRanging, Reply, Ranging
  <2> QED BY <1>8, <2>1, <2>2
          DEF TypeOK, ReceiveRanging, HandlerPCs, table, semaphores, logVars, drone
<1>9. ASSUME NEW d \in Drones, ReceiveResponse(d)
      PROVE  TypeOK'
  <2>1. up' \in [Drones -> Seq(Reply)]
    BY <1>9 DEF TypeOK, ReceiveResponse, AllAnswered
  <2>2. response_sem' \in Nat /\ response_count' \in 0..(NODES_NUM - 2)
    <3>1. CASE response_count + 1 = NODES_NUM - 1
      BY <1>9, <3>1 DEF TypeOK, ReceiveResponse, AllAnswered
    <3>2. CASE response_count + 1 # NODES_NUM - 1
      BY <1>9, <3>2 DEF TypeOK, ReceiveResponse, AllAnswered
    <3> QED BY <3>1, <3>2
  <2> QED BY <1>9, <2>1, <2>2 DEF TypeOK, ReceiveResponse, table, logVars, handler, drone
<1>10. ASSUME NEW d \in Drones, TakeBroadcast(d)
       PROVE  TypeOK'
  BY <1>10 DEF TypeOK, TakeBroadcast, HandlerPCs, table, logVars, drone
<1>11. ASSUME NEW d \in Drones, TakeResponseToRoute(d)
       PROVE  TypeOK'
  BY <1>11 DEF TypeOK, TakeResponseToRoute, HandlerPCs, table, logVars, drone
<1>12. ASSUME NEW d \in Drones, RouteEntry(d)
       PROVE  TypeOK'
  <2>1. msg[d] \in Message
    BY DEF TypeOK, Ranging, Message
  <2>2. down' \in [Drones -> Seq(Message)] /\ running' \in BOOLEAN
    BY <1>12, <2>1, SendType DEF RouteEntry
  <2>3. pos' \in [Drones -> 1..(NODES_NUM + 1)]
    BY <1>12 DEF TypeOK, RouteEntry, Routed
  <2> QED BY <1>12, <2>2, <2>3 DEF TypeOK, RouteEntry, table, semaphores, logVars, drone
<1>13. ASSUME NEW d \in Drones, PostAllocation(d)
       PROVE  TypeOK'
  BY <1>13 DEF TypeOK, PostAllocation, HandlerPCs, table, logVars, drone
<1>14. ASSUME NEW d \in Drones, TxCallBack(d)
       PROVE  TypeOK'
  <2>1. [kind |-> "RNG", addr |-> d, round |-> Head(down[d]).round] \in Reply
    BY <1>14, ReadType DEF TxCallBack, Message, Reply
  <2> QED BY <1>14, <2>1, ReadType, ReplyType
          DEF TypeOK, TxCallBack, center, table, semaphores, logVars, handler
<1>15. ASSUME NEW d \in Drones, TakeRxTimestamp(d)
       PROVE  TypeOK'
  <2>1. Response(d, Head(down[d]).round) \in Reply
    BY <1>15, ReadType DEF TakeRxTimestamp, Response, Message, Reply
  <2>2. Stamp(Head(down[d]).round, d) \in Int
    BY <1>15, ReadType, RowInt DEF TakeRxTimestamp, Stamp, Message
  <2> QED BY <1>15, <2>1, <2>2, ReadType, ReplyType
          DEF TypeOK, TakeRxTimestamp, center, table, semaphores, logVars, handler
<1>16. ASSUME NEW d \in Drones, Ignore(d)
       PROVE  TypeOK'
  BY <1>16, ReadType DEF TypeOK, Ignore, center, table, semaphores, logVars, handler
<1>17. ASSUME NEW d \in Drones, DropRanging(d)
       PROVE  TypeOK'
  <2>1. Response(d, Head(down[d]).round) \in Reply
    BY <1>17, ReadType DEF DropRanging, Response, Message, Reply
  <2> QED BY <1>17, <2>1, ReadType, ReplyType
          DEF TypeOK, DropRanging, center, table, semaphores, logVars, handler
<1>18. ASSUME NEW d \in Drones, ProcessRanging(d)
       PROVE  TypeOK'
  <2>1. Response(d, Head(down[d]).round) \in Reply
    BY <1>18, ReadType DEF ProcessRanging, Response, Message, Reply
  <2>2. NextCursor(d, RxTimestamp[d]) \in 1..(total_rows + 1)
    BY CursorType
  <2>3. csv_pos' \in [Drones -> 1..(total_rows + 1)]
    BY <1>18, <2>2 DEF TypeOK, ProcessRanging
  <2>4. RxTimestamp' \in [Drones -> Int]
    BY <1>18 DEF TypeOK, ProcessRanging
  <2>5. up' \in [Drones -> Seq(Reply)] /\ alive' \in [Drones -> BOOLEAN]
    BY <1>18, <2>1, ReplyType DEF ProcessRanging
  <2>6. down' \in [Drones -> Seq(Message)] /\ received' \in [Drones -> Nat]
    BY <1>18, ReadType DEF ProcessRanging
  <2> QED BY <1>18, <2>3, <2>4, <2>5, <2>6
          DEF TypeOK, ProcessRanging, center, table, semaphores, logVars, handler
<1>19. ASSUME NEW d \in Drones, DroneExit(d)
       PROVE  TypeOK'
  BY <1>19 DEF TypeOK, DroneExit, center, table, semaphores, logVars, handler, drone
<1>20. CASE UNCHANGED vars
  BY <1>20 DEF TypeOK, vars, center, table, semaphores, logVars, handler, drone
<1> QED
  BY <1>1, <1>2, <1>3, <1>4, <1>5, <1>6, <1>7, <1>8, <1>9, <1>10, <1>11, <1>12, <1>13,
     <1>14, <1>15, <1>16, <1>17, <1>18, <1>19, <1>20
  DEF Next, LogThread, Handler, Drone, Terminated

(* The program counters, counters, sockets and messages keep their types   *)
(* for every number of drones and every log.                               *)
THEOREM TypeCorrect == Spec => []TypeOK
<1>1. TypeOK /\ [Next]_vars => TypeOK'
  BY TypeStep
<1> QED BY <1>1, TypeInit, PTL DEF Spec

-----------------------------------------------------------------------------
(* Mutual exclusion of the phases.  OnePhaseAtATime is inductive once the  *)
(* types are known: the token that is a row to allocate, a message to      *)
(* route, the log thread or one handler changes its form and is never      *)
(* doubled.                                                                *)

(* A handler that leaves every other handler where it is.                  *)
LEMMA RoutingAfter ==
  ASSUME TypeOK, NEW d \in Drones, NEW l \in HandlerPCs, pc' = [pc EXCEPT ![d] = l]
  PROVE  Routing' = IF l \in {"resp_wait", "bcast"} THEN Routing \cup {d} ELSE Routing \ {d}
BY DEF TypeOK, Routing

(* A step that changes neither semaphore, nor the log thread's place       *)
(* between alloc and the rest, nor the routing handlers, keeps the phases  *)
(* apart.                                                                  *)
LEMMA SamePhase ==
  ASSUME OnePhaseAtATime, UNCHANGED <<allocation_sem, broadcast_sem>>,
         log_pc' = "alloc" <=> log_pc = "alloc", Routing' = Routing
  PROVE  OnePhaseAtATime'
BY DEF OnePhaseAtATime

(* No step of the center or of a drone lets two phases overlap.            *)
LEMMA PhaseStep ==
  ASSUME TypeOK, OnePhaseAtATime, [Next]_vars
  PROVE  OnePhaseAtATime'
<1> USE DEF LogPCs, HandlerPCs
<1>1. CASE TakeAllocation
  <2>1. allocation_sem = 1 /\ broadcast_sem = 0 /\ Routing = {}
    BY <1>1 DEF TypeOK, OnePhaseAtATime, TakeAllocation
  <2>2. Routing' = Routing
    BY <1>1 DEF TakeAllocation, handler, Routing
  <2> QED BY <1>1, <2>1, <2>2 DEF OnePhaseAtATime, TakeAllocation
<1>2. CASE TakeResponse \/ ScanEntry \/ SendTask
  <2>1. Routing' = Routing
    BY <1>2 DEF TakeResponse, ScanEntry, SendTask, handler, Routing
  <2>2. UNCHANGED <<allocation_sem, broadcast_sem>> /\ log_pc # "alloc" /\ log_pc' # "alloc"
    BY <1>2 DEF TakeResponse, ScanEntry, SendTask, semaphores
  <2> QED BY <2>1, <2>2, SamePhase
<1>3. CASE NextTask
  <2>1. Routing' = Routing
    BY <1>3 DEF NextTask, handler, Routing
  <2>2. UNCHANGED <<allocation_sem, broadcast_sem>> /\ log_pc # "alloc" /\ log_pc' # "alloc"
    BY <1>3 DEF NextTask, semaphores
  <2> QED BY <2>1, <2>2, SamePhase
<1>4. CASE PostBroadcast
  <2>1. allocation_sem = 0 /\ broadcast_sem = 0 /\ Routing = {}
    BY <1>4 DEF TypeOK, OnePhaseAtATime, PostBroadcast
  <2>2. Routing' = Routing
    BY <1>4 DEF PostBroadcast, handler, Routing
  <2> QED BY <1>4, <2>1, <2>2 DEF OnePhaseAtATime, PostBroadcast
<1>5. CASE FinishLog \/ UNCHANGED vars
  <2>1. UNCHANGED center
    BY <1>5 DEF FinishLog, vars
  <2> QED BY <2>1, SamePhase DEF center, semaphores, logVars, handler, Routing
<1>6. ASSUME NEW d \in Drones, ReceiveRanging(d)
      PROVE  OnePhaseAtATime'
  <2>1. d \notin Routing
    BY <1>6 DEF ReceiveRanging, Routing
  <2>2. Routing' = Routing \ {d}
    BY <1>6, RoutingAfter DEF ReceiveRanging
  <2>3. Routing' = Routing
    BY <2>1, <2>2
  <2> QED BY <1>6, <2>3, SamePhase DEF ReceiveRanging, semaphores, logVars
<1>7. ASSUME NEW d \in Drones, ReceiveResponse(d) \/ RouteEntry(d)
      PROVE  OnePhaseAtATime'
  <2>1. Routing' = Routing
    BY <1>7 DEF ReceiveResponse, RouteEntry, handler, Routing
  <2> QED BY <1>7, <2>1, SamePhase DEF ReceiveResponse, RouteEntry, semaphores, logVars
<1>8. ASSUME NEW d \in Drones, TakeBroadcast(d)
      PROVE  OnePhaseAtATime'
  <2>1. allocation_sem = 0 /\ broadcast_sem = 1 /\ log_pc = "alloc" /\ Routing = {}
    BY <1>8 DEF TypeOK, OnePhaseAtATime, TakeBroadcast
  <2>2. Routing' = {d}
    BY <1>8, <2>1, RoutingAfter DEF TakeBroadcast
  <2> QED BY <1>8, <2>1, <2>2 DEF OnePhaseAtATime, TakeBroadcast, logVars
<1>9. ASSUME NEW d \in Drones, TakeResponseToRoute(d)
      PROVE  OnePhaseAtATime'
  <2>1. d \in Routing
    BY <1>9 DEF TakeResponseToRoute, Routing
  <2>2. Routing' = Routing \cup {d}
    BY <1>9, RoutingAfter DEF TakeResponseToRoute
  <2>3. Routing' = Routing
    BY <2>1, <2>2
  <2> QED BY <1>9, <2>3, SamePhase DEF TakeResponseToRoute, logVars
<1>10. ASSUME NEW d \in Drones, PostAllocation(d)
       PROVE  OnePhaseAtATime'
  <2>1. d \in Routing
    BY <1>10 DEF PostAllocation, Routing
  <2>2. allocation_sem = 0 /\ broadcast_sem = 0 /\ log_pc = "alloc" /\ Routing = {d}
    BY <2>1 DEF TypeOK, OnePhaseAtATime
  <2>3. Routing' = {}
    BY <1>10, <2>2, RoutingAfter DEF PostAllocation
  <2> QED BY <1>10, <2>2, <2>3 DEF OnePhaseAtATime, PostAllocation, logVars
<1>11. ASSUME NEW d \in Drones, Drone(d)
       PROVE  OnePhaseAtATime'
  <2>1. UNCHANGED center
    BY <1>11
    DEF Drone, TxCallBack, TakeRxTimestamp, Ignore, DropRanging, ProcessRanging, DroneExit
  <2> QED BY <2>1, SamePhase DEF center, semaphores, logVars, handler, Routing
<1> QED
  BY <1>1, <1>2, <1>3, <1>4, <1>5, <1>6, <1>7, <1>8, <1>9, <1>10, <1>11
  DEF Next, LogThread, Handler, Terminated

(* Initially the first row may be allocated.                               *)
LEMMA PhaseInit == Init => OnePhaseAtATime
BY DEF Init, OnePhaseAtATime, Routing

(* Whatever the number of drones and the log, a row is never allocated     *)
(* while a ranging message is routed, and two messages are never routed at *)
(* the same time (center.c:98-99, 151, 187-190).                           *)
THEOREM PhasesExclusive == Spec => []OnePhaseAtATime
<1>1. TypeOK /\ OnePhaseAtATime /\ [Next]_vars => OnePhaseAtATime'
  BY PhaseStep
<1> QED BY <1>1, PhaseInit, TypeCorrect, PTL DEF Spec

-----------------------------------------------------------------------------
(* The lock-step rounds: the barriers, the delivery, the reception times,  *)
(* and the implementation of LogRounds.  All follow from one inductive     *)
(* invariant, which says of each drone how far it has been sent, how far   *)
(* it has read, and where its answer to the current phase is.              *)


(* How many messages a drone has been sent *)
SentTo(d) == received[d] + Len(down[d])

(* The round of the current phase, 0 before the first *)
Played == IF log_pc = "resp" THEN round - 1 ELSE round

(* The drones that have been sent the message of the current phase *)
Reached(d) ==
  /\ log_pc \in {"scan", "send"} =>
       \E k \in 0..task : /\ Recipient(round, k) = d
                          /\ k < task \/ \E i \in 1..(scan - 1) : node[i] = d
  /\ \A h \in Drones : pc[h] = "bcast" => \E i \in 1..(pos[h] - 1) : node[i] = d

(* The drone transmits in the round of the current phase. *)
Own(d) == Played > 0 /\ d = Sender(Played)

RangingOf(d) == [kind |-> "RNG", addr |-> d, round |-> Played]

(* The receivers whose answer to the current phase was counted *)
Answered == {d \in Drones : ~Own(d) /\ received[d] = CurrentPhase /\ up[d] = <<>>}

TableInv ==
  /\ count = NODES_NUM
  /\ node \in Registrations
  /\ log_pc = "send" => node[scan] = Recipient(round, task)

StartInv == /\ running => \A d \in Drones : alive[d]
            /\ round = 0 => allocation_sem = 1
            /\ Played > 0 => RowOf(Played) \in DOMAIN Log

SentInv ==
  \A d \in Drones : SentTo(d) = IF Reached(d) THEN CurrentPhase ELSE CurrentPhase - 1

MessageInv(d, i, m) ==
  /\ Number(m) = received[d] + i
  /\ m.round > 0 /\ RowOf(m.round) \in DOMAIN Log
  /\ IF m.kind = "RNG" THEN m.addr = Sender(m.round)
                       ELSE m.addr = d /\ (m.kind = "TX" <=> d = Sender(m.round))

ContentInv ==
  \A d \in Drones : \A i \in 1..Len(down[d]) : MessageInv(d, i, down[d][i])

(* Only the sender of the round before may not have read its own message. *)
ReadInv ==
  \A d \in Drones :
    \/ received[d] >= CurrentPhase - 1
    \/ /\ CurrentPhase = 2 * Played - 1 /\ Played > 1
       /\ d = Sender(Played - 1)
       /\ received[d] = CurrentPhase - 2

(* A receiver's answer is in flight or counted, once it has read the       *)
(* message of the phase.                                                   *)
ReceiverInv(d) ==
  /\ pc[d] = "recv"
  /\ \/ up[d] = <<>>
     \/ /\ Played > 0 /\ received[d] = CurrentPhase
        /\ Len(up[d]) = 1 /\ Head(up[d]).kind = "ACK"

(* The sender's ranging message is generated by its line, and its handler  *)
(* keeps it until it is routed.                                            *)
SenderInv(d) ==
  /\ CurrentPhase = 2 * Played - 1 =>
       \/ received[d] < CurrentPhase /\ pc[d] = "recv" /\ up[d] = <<>>
       \/ received[d] = CurrentPhase /\ pc[d] = "recv" /\ up[d] = <<RangingOf(d)>>
       \/ /\ received[d] = CurrentPhase /\ pc[d] \in {"bcast_wait", "resp_wait"}
          /\ up[d] = <<>> /\ msg[d] = RangingOf(d)
  /\ CurrentPhase = 2 * Played =>
       /\ up[d] = <<>>
       /\ pc[d] = "recv" \/ (pc[d] = "bcast" /\ msg[d] = RangingOf(d))

AnswerInv ==
  running => \A d \in Drones : IF Own(d) THEN SenderInv(d) ELSE ReceiverInv(d)

CountInv ==
  running =>
    \/ response_sem = 1 /\ response_count = 0 /\ \A d \in Drones : Own(d) \/ d \in Answered
    \/ Played > 0 /\ response_sem = 0 /\ response_count = Cardinality(Answered)

IInv ==
  /\ TypeOK /\ OnePhaseAtATime
  /\ TableInv /\ StartInv /\ SentInv /\ ContentInv /\ ReadInv /\ AnswerInv /\ CountInv

-----------------------------------------------------------------------------
(* The phase and its round *)

(* Phase 2n - 1 and phase 2n belong to round n. *)
LEMMA PhaseType ==
  ASSUME TypeOK, OnePhaseAtATime, StartInv
  PROVE  /\ CurrentPhase \in Nat /\ Played \in Nat
         /\ CurrentPhase \in {2 * Played - 1, 2 * Played}
<1>1. CASE log_pc = "resp"
  BY <1>1 DEF TypeOK, CurrentPhase, Played
<1>2. CASE log_pc \in {"scan", "send", "post"}
  BY <1>2 DEF TypeOK, CurrentPhase, Played
<1>3. CASE log_pc = "alloc"
  <2>1. round = 0 => allocation_sem = 1
    BY DEF StartInv
  <2> QED BY <1>3, <2>1 DEF TypeOK, CurrentPhase, Played
<1> QED BY <1>1, <1>2, <1>3 DEF TypeOK, LogPCs

(* The phase is an odd one while lines are sent and until a handler has    *)
(* the answers to them; it is an even one from there to the next lines.    *)
LEMMA PhaseIs ==
  ASSUME TypeOK, OnePhaseAtATime
  PROVE  /\ log_pc = "resp" => CurrentPhase = 2 * Played
         /\ log_pc \in {"scan", "send", "post"} => CurrentPhase = 2 * Played - 1
         /\ allocation_sem = 1 => CurrentPhase = 2 * Played
         /\ broadcast_sem = 1 => CurrentPhase = 2 * Played - 1
         /\ \A d \in Drones : pc[d] = "bcast" => CurrentPhase = 2 * Played /\ log_pc = "alloc"
         /\ \A d \in Drones : pc[d] = "resp_wait" =>
              CurrentPhase = 2 * Played - 1 /\ log_pc = "alloc"
<1>1. /\ log_pc = "resp" => CurrentPhase = 2 * Played
      /\ log_pc \in {"scan", "send", "post"} => CurrentPhase = 2 * Played - 1
  BY DEF CurrentPhase, Played
<1>2. allocation_sem = 1 => log_pc = "alloc" /\ CurrentPhase = 2 * Played
  BY DEF TypeOK, OnePhaseAtATime, CurrentPhase, Played
<1>3. broadcast_sem = 1 => CurrentPhase = 2 * Played - 1
  <2> SUFFICES ASSUME broadcast_sem = 1
               PROVE  CurrentPhase = 2 * Played - 1
    OBVIOUS
  <2>1. allocation_sem = 0 /\ log_pc = "alloc" /\ Routing = {}
    BY DEF TypeOK, OnePhaseAtATime
  <2>2. \A d \in Drones : pc[d] # "bcast"
    BY <2>1 DEF Routing
  <2> QED BY <2>1, <2>2 DEF CurrentPhase, Played
<1>4. ASSUME NEW d \in Drones, pc[d] = "bcast"
      PROVE  CurrentPhase = 2 * Played /\ log_pc = "alloc"
  <2>1. d \in Routing
    BY <1>4 DEF Routing
  <2>2. log_pc = "alloc"
    BY <2>1 DEF OnePhaseAtATime
  <2> QED BY <1>4, <2>2 DEF CurrentPhase, Played
<1>5. ASSUME NEW d \in Drones, pc[d] = "resp_wait"
      PROVE  CurrentPhase = 2 * Played - 1 /\ log_pc = "alloc"
  <2>1. d \in Routing
    BY <1>5 DEF Routing
  <2>2. log_pc = "alloc" /\ allocation_sem = 0 /\ \E h \in Drones : Routing = {h}
    BY <2>1 DEF OnePhaseAtATime, TypeOK
  <2>3. \A h \in Drones : pc[h] # "bcast"
    <3> SUFFICES ASSUME NEW h \in Drones, pc[h] = "bcast" PROVE FALSE
      OBVIOUS
    <3>1. h \in Routing
      BY DEF Routing
    <3>2. h = d
      BY <2>1, <2>2, <3>1
    <3> QED BY <1>5, <3>2
  <2> QED BY <2>2, <2>3 DEF CurrentPhase, Played
<1> QED BY <1>1, <1>2, <1>3, <1>4, <1>5

(* The two waits for response_sem are where a phase starts. *)
LEMMA PhaseStarts ==
  ASSUME IInv, TakeResponse \/ \E d \in Drones : TakeResponseToRoute(d)
  PROVE  /\ CurrentPhase' = CurrentPhase + 1
         /\ \/ /\ TakeResponse
               /\ CurrentPhase = 2 * Played /\ Played' = Played + 1 /\ Played' = round
            \/ /\ \E d \in Drones : TakeResponseToRoute(d)
               /\ CurrentPhase = 2 * Played - 1 /\ Played' = Played
<1> USE DEF IInv
<1>1. CASE TakeResponse
  BY <1>1, PhaseIs DEF TakeResponse, TypeOK, CurrentPhase, Played
<1>2. ASSUME NEW d \in Drones, TakeResponseToRoute(d)
      PROVE  CurrentPhase' = CurrentPhase + 1 /\ CurrentPhase = 2 * Played - 1 /\ Played' = Played
  <2>1. log_pc = "alloc" /\ CurrentPhase = 2 * Played - 1
    BY <1>2, PhaseIs DEF TakeResponseToRoute
  <2>2. pc'[d] = "bcast" /\ UNCHANGED logVars
    BY <1>2 DEF TakeResponseToRoute, TypeOK
  <2>3. log_pc' = "alloc" /\ Played' = Played /\ round' = round /\ Played = round
    BY <2>1, <2>2 DEF logVars, Played
  <2>4. CurrentPhase' = 2 * round
    BY <2>2, <2>3 DEF CurrentPhase
  <2> QED BY <2>1, <2>3, <2>4 DEF TypeOK
<1> QED BY <1>1, <1>2

(* The phase depends on the place of the log thread, on allocation_sem and *)
(* on whether a message is being routed.                                   *)
LEMMA SameParts ==
  ASSUME UNCHANGED <<log_pc, round, allocation_sem>>,
         \A d \in Drones : pc'[d] = "bcast" <=> pc[d] = "bcast"
  PROVE  CurrentPhase' = CurrentPhase /\ Played' = Played
BY DEF CurrentPhase, Played

(* No other step changes the phase. *)
LEMMA PhaseStays ==
  ASSUME IInv, [Next]_vars, ~TakeResponse, \A d \in Drones : ~TakeResponseToRoute(d)
  PROVE  CurrentPhase' = CurrentPhase /\ Played' = Played
<1> USE DEF IInv
<1>1. CASE TakeAllocation
  <2>1. allocation_sem = 1
    BY <1>1 DEF TakeAllocation, TypeOK, OnePhaseAtATime
  <2>2. CurrentPhase = 2 * round /\ Played = round
    BY <1>1, <2>1, PhaseIs DEF TakeAllocation, Played
  <2>3. log_pc' = "resp" /\ round' = round + 1
    BY <1>1 DEF TakeAllocation
  <2>4. CurrentPhase' = 2 * (round' - 1) /\ Played' = round' - 1
    BY <2>3 DEF CurrentPhase, Played
  <2> QED BY <2>2, <2>3, <2>4 DEF TypeOK
<1>2. CASE ScanEntry \/ SendTask \/ NextTask
  <2>1. /\ log_pc \in {"scan", "send"} /\ log_pc' \in {"scan", "send", "post"}
        /\ round' = round
    BY <1>2 DEF ScanEntry, SendTask, NextTask
  <2> QED BY <2>1 DEF CurrentPhase, Played
<1>3. CASE PostBroadcast
  <2>1. allocation_sem = 0 /\ Routing = {}
    BY <1>3 DEF PostBroadcast, TypeOK, OnePhaseAtATime
  <2>2. \A d \in Drones : pc'[d] # "bcast"
    BY <1>3, <2>1 DEF PostBroadcast, handler, Routing
  <2> QED BY <1>3, <2>1, <2>2 DEF PostBroadcast, CurrentPhase, Played
<1>4. CASE FinishLog \/ UNCHANGED vars
  BY <1>4, SameParts DEF FinishLog, vars, center, semaphores, logVars, handler
<1>5. ASSUME NEW d \in Drones,
             ReceiveRanging(d) \/ ReceiveResponse(d) \/ TakeBroadcast(d) \/ RouteEntry(d)
      PROVE  CurrentPhase' = CurrentPhase /\ Played' = Played
  <2>1. \A h \in Drones : pc'[h] = "bcast" <=> pc[h] = "bcast"
    BY <1>5
    DEF ReceiveRanging, ReceiveResponse, TakeBroadcast, RouteEntry, handler, TypeOK
  <2>2. UNCHANGED <<log_pc, round, allocation_sem>>
    BY <1>5
    DEF ReceiveRanging, ReceiveResponse, TakeBroadcast, RouteEntry, semaphores, logVars
  <2> QED BY <2>1, <2>2, SameParts
<1>6. ASSUME NEW d \in Drones, PostAllocation(d)
      PROVE  CurrentPhase' = CurrentPhase /\ Played' = Played
  <2>1. log_pc = "alloc" /\ CurrentPhase = 2 * Played
    BY <1>6, PhaseIs DEF PostAllocation
  <2>2. allocation_sem = 0
    <3>1. d \in Routing
      BY <1>6 DEF PostAllocation, Routing
    <3> QED BY <3>1 DEF OnePhaseAtATime, TypeOK
  <2> QED BY <1>6, <2>1, <2>2 DEF PostAllocation, logVars, CurrentPhase, Played
<1>7. ASSUME NEW d \in Drones, Drone(d)
      PROVE  CurrentPhase' = CurrentPhase /\ Played' = Played
  <2>1. UNCHANGED center
    BY <1>7
    DEF Drone, TxCallBack, TakeRxTimestamp, Ignore, DropRanging, ProcessRanging, DroneExit
  <2> QED BY <2>1, SameParts DEF center, semaphores, logVars, handler
<1> QED
  BY <1>1, <1>2, <1>3, <1>4, <1>5, <1>6, <1>7 DEF Next, LogThread, Handler, Terminated

-----------------------------------------------------------------------------
(* The table and the sockets while the center runs *)

(* While the center runs every drone is there, so that a send arrives. *)
LEMMA SendArrives ==
  ASSUME IInv, running, NEW i \in 1..NODES_NUM, NEW m, Send(i, m)
  PROVE  /\ node[i] \in Drones
         /\ running' = running
         /\ down' = [down EXCEPT ![node[i]] = Append(@, m)]
<1>1. node[i] \in Drones
  BY DEF IInv, TableInv, Registrations
<1>2. alive[node[i]]
  BY <1>1 DEF IInv, StartInv
<1> QED BY <1>1, <1>2 DEF Send

(* A drone is at exactly one place of the table. *)
LEMMA Places ==
  ASSUME IInv
  PROVE  /\ \A i \in 1..NODES_NUM : node[i] \in Drones
         /\ \A d \in Drones : \E i \in 1..NODES_NUM : node[i] = d
         /\ \A i, j \in 1..NODES_NUM : node[i] = node[j] => i = j
BY DEF IInv, TableInv, Registrations

(* A drone is exactly one of the recipients of a round. *)
LEMMA Recipients ==
  ASSUME NEW n, RowOf(n) \in DOMAIN Log
  PROVE  /\ \A d \in Drones : \E k \in 0..(NODES_NUM - 1) : Recipient(n, k) = d
         /\ \A j, k \in 0..(NODES_NUM - 1) : Recipient(n, j) = Recipient(n, k) => j = k
         /\ \A k \in 0..(NODES_NUM - 1) : Recipient(n, k) = Sender(n) <=> k = 0
<1> DEFINE r == RowOf(n)
<1>1. /\ \A d \in Drones \ {Log[r].tx} : \E k \in 1..(NODES_NUM - 1) : Log[r].rx[k] = d
      /\ \A k \in 1..(NODES_NUM - 1) : Log[r].rx[k] # Log[r].tx
      /\ \A j, k \in 1..(NODES_NUM - 1) : Log[r].rx[j] = Log[r].rx[k] => j = k
  BY LogAssumption
<1>2. \A k \in 0..(NODES_NUM - 1) : k = 0 \/ k \in 1..(NODES_NUM - 1)
  BY NodesNum
<1>3. 0 \in 0..(NODES_NUM - 1) /\ 1..(NODES_NUM - 1) \subseteq 0..(NODES_NUM - 1)
  BY NodesNum
<1> HIDE DEF r
<1>4. /\ Sender(n) = Log[r].tx /\ Recipient(n, 0) = Log[r].tx
      /\ \A k \in 1..(NODES_NUM - 1) : Recipient(n, k) = Log[r].rx[k]
  BY NodesNum DEF Recipient, Sender, r
<1>5. ASSUME NEW d \in Drones
      PROVE  \E k \in 0..(NODES_NUM - 1) : Recipient(n, k) = d
  BY <1>1, <1>3, <1>4
<1>6. ASSUME NEW j \in 0..(NODES_NUM - 1), NEW k \in 0..(NODES_NUM - 1),
             Recipient(n, j) = Recipient(n, k)
      PROVE  j = k
  BY <1>1, <1>2, <1>4, <1>6
<1>7. ASSUME NEW k \in 0..(NODES_NUM - 1)
      PROVE  Recipient(n, k) = Sender(n) <=> k = 0
  BY <1>1, <1>2, <1>4
<1> QED BY <1>5, <1>6, <1>7

(* The table stays as it is; the log thread is at an entry it matches. *)
LEMMA TableKeeps ==
  ASSUME IInv, [Next]_vars
  PROVE  TableInv'
<1> USE DEF IInv, TableInv
<1>1. UNCHANGED table
  BY DEF Next, LogThread, Handler, Drone, Terminated, TakeAllocation, TakeResponse, ScanEntry,
         SendTask, NextTask, PostBroadcast, FinishLog, ReceiveRanging, ReceiveResponse,
         TakeBroadcast, TakeResponseToRoute, RouteEntry, PostAllocation, TxCallBack,
         TakeRxTimestamp, Ignore, DropRanging, ProcessRanging, DroneExit, vars, center
<1>2. count' = count /\ node' = node
  BY <1>1 DEF table
<1>3. CASE LogThread
  <2>1. log_pc' = "send" => node'[scan'] = Recipient(round', task')
    BY <1>2, <1>3
    DEF LogThread, TakeAllocation, TakeResponse, ScanEntry, SendTask, NextTask, PostBroadcast,
        FinishLog, center, logVars
  <2> QED BY <1>2, <2>1 DEF Registrations
<1>4. CASE UNCHANGED logVars
  BY <1>2, <1>4 DEF logVars, Registrations
<1>5. LogThread \/ UNCHANGED logVars
  BY DEF Next, Handler, Drone, Terminated, ReceiveRanging, ReceiveResponse,
         TakeBroadcast, TakeResponseToRoute, RouteEntry, PostAllocation, TxCallBack,
         TakeRxTimestamp, Ignore, DropRanging, ProcessRanging, DroneExit, vars, center
<1> QED BY <1>3, <1>4, <1>5

(* The drones end only after the center; the first row is there to take    *)
(* until it is taken.                                                      *)
LEMMA StartKeeps ==
  ASSUME IInv, [Next]_vars
  PROVE  StartInv'
<1> USE DEF IInv, StartInv
<1>1. running' => \A d \in Drones : alive'[d]
  <2> SUFFICES ASSUME running'
               PROVE  \A d \in Drones : alive'[d]
    OBVIOUS
  <2>1. running
    BY DEF Next, LogThread, Handler, Drone, Terminated, TakeAllocation, TakeResponse, ScanEntry,
         SendTask, NextTask, PostBroadcast, FinishLog, ReceiveRanging, ReceiveResponse,
         TakeBroadcast, TakeResponseToRoute, RouteEntry, PostAllocation, TxCallBack,
         TakeRxTimestamp, Ignore, DropRanging, ProcessRanging, DroneExit, vars
  <2>2. UNCHANGED alive
    BY <2>1
    DEF Next, LogThread, Handler, Drone, Terminated, TakeAllocation, TakeResponse, ScanEntry,
         SendTask, NextTask, PostBroadcast, FinishLog, ReceiveRanging, ReceiveResponse,
         TakeBroadcast, TakeResponseToRoute, RouteEntry, PostAllocation, TxCallBack,
         TakeRxTimestamp, Ignore, DropRanging, ProcessRanging, DroneExit, SendToCenter, vars
  <2> QED BY <2>1, <2>2
<1>6. Played' > 0 => RowOf(Played') \in DOMAIN Log
  <2>1. CASE TakeResponse
    BY <2>1 DEF TakeResponse, TypeOK, Played
  <2>2. CASE ~TakeResponse
    <3>1. Played' = Played
      BY <2>2, PhaseStays, PhaseStarts
    <3> QED BY <3>1
  <2> QED BY <2>1, <2>2
<1>2. CASE TakeAllocation
  BY <1>1, <1>2, <1>6 DEF TakeAllocation, TypeOK
<1>3. ASSUME NEW d \in Drones, PostAllocation(d)
      PROVE  round' = 0 => allocation_sem' = 1
  <2>1. d \in Routing
    BY <1>3 DEF PostAllocation, Routing
  <2>2. allocation_sem = 0
    BY <2>1 DEF OnePhaseAtATime, TypeOK
  <2> QED BY <1>3, <2>2 DEF PostAllocation, logVars
<1>4. CASE UNCHANGED <<round, allocation_sem>>
  BY <1>1, <1>4, <1>6
<1>5. \/ TakeAllocation
      \/ \E d \in Drones : PostAllocation(d)
      \/ UNCHANGED <<round, allocation_sem>>
  BY DEF Next, LogThread, Handler, Drone, Terminated, TakeResponse, ScanEntry,
         SendTask, NextTask, PostBroadcast, FinishLog, ReceiveRanging, ReceiveResponse,
         TakeBroadcast, TakeResponseToRoute, RouteEntry, TxCallBack,
         TakeRxTimestamp, Ignore, DropRanging, ProcessRanging, DroneExit, vars, center,
         semaphores, logVars
<1> QED BY <1>1, <1>2, <1>3, <1>4, <1>5, <1>6

-----------------------------------------------------------------------------
(* Who has been sent what *)

(* A drone that reads takes over what it was sent. *)
LEMMA ReadCounts ==
  ASSUME TypeOK, NEW d \in Drones, Read(d)
  PROVE  /\ received'[d] = received[d] + 1
         /\ \A e \in Drones \ {d} : received'[e] = received[e] /\ down'[e] = down[e]
         /\ Len(down[d]) > 0 /\ Len(down'[d]) = Len(down[d]) - 1
         /\ \A i \in 1..Len(down'[d]) : i + 1 \in 1..Len(down[d]) /\ down'[d][i] = down[d][i + 1]
         /\ \A e \in Drones : SentTo(e)' = SentTo(e)
<1>1. /\ down \in [Drones -> Seq(Message)] /\ received \in [Drones -> Nat]
      /\ down[d] # <<>>
      /\ down' = [down EXCEPT ![d] = Tail(@)]
      /\ received' = [received EXCEPT ![d] = @ + 1]
  BY DEF TypeOK, Read
<1>2. down[d] \in Seq(Message) /\ Len(down[d]) \in Nat /\ Len(down[d]) > 0
  BY <1>1
<1>3. Len(Tail(down[d])) = Len(down[d]) - 1
  BY <1>1, <1>2
<1>4. \A i \in 1..Len(Tail(down[d])) : i + 1 \in 1..Len(down[d]) /\ Tail(down[d])[i] = down[d][i + 1]
  BY <1>1, <1>2
<1>5. down'[d] = Tail(down[d]) /\ received'[d] = received[d] + 1
  BY <1>1
<1>6. \A e \in Drones \ {d} : received'[e] = received[e] /\ down'[e] = down[e]
  BY <1>1
<1>7. ASSUME NEW e \in Drones
      PROVE  SentTo(e)' = SentTo(e)
  <2>1. SentTo(e)' = received'[e] + Len(down'[e])
    BY DEF SentTo
  <2>2. received[d] \in Nat
    BY <1>1
  <2>3. CASE e = d
    <3>1. Len(down'[d]) = Len(down[d]) - 1
      BY <1>3, <1>5
    <3>2. SentTo(d) = received[d] + Len(down[d])
      BY DEF SentTo
    <3>3. received[d] + 1 + (Len(down[d]) - 1) = received[d] + Len(down[d])
      BY <1>2, <2>2
    <3> QED BY <1>5, <2>1, <2>3, <3>1, <3>2, <3>3
  <2>4. CASE e # d
    BY <1>6, <2>1, <2>4 DEF SentTo
  <2> QED BY <2>3, <2>4
<1> QED BY <1>2, <1>3, <1>4, <1>5, <1>6, <1>7

(* What a send of the center adds to the sockets *)
LEMMA SendCounts ==
  ASSUME IInv, running, NEW i \in 1..NODES_NUM, NEW m \in Message, Send(i, m),
         UNCHANGED received, NEW s \in Drones, s = node[i]
  PROVE  /\ SentTo(s)' = SentTo(s) + 1
         /\ \A e \in Drones \ {s} : SentTo(e)' = SentTo(e) /\ down'[e] = down[e]
         /\ Len(down'[s]) = Len(down[s]) + 1
         /\ \A k \in 1..Len(down[s]) : down'[s][k] = down[s][k]
         /\ down'[s][Len(down[s]) + 1] = m
<1>1. down' = [down EXCEPT ![s] = Append(@, m)]
  BY SendArrives
<1>2. down \in [Drones -> Seq(Message)] /\ received \in [Drones -> Nat]
  BY DEF IInv, TypeOK
<1>3. down'[s] = Append(down[s], m) /\ down[s] \in Seq(Message) /\ received[s] \in Nat
  BY <1>1, <1>2
<1>4. Len(down'[s]) = Len(down[s]) + 1 /\ Len(down[s]) \in Nat
  BY <1>3
<1>5. \A k \in 1..Len(down[s]) : down'[s][k] = down[s][k]
  BY <1>3
<1>6. down'[s][Len(down[s]) + 1] = m
  BY <1>3
<1>7. \A e \in Drones \ {s} : down'[e] = down[e]
  BY <1>1, <1>2
<1>8. SentTo(s)' = received'[s] + Len(down'[s]) /\ SentTo(s) = received[s] + Len(down[s])
  BY DEF SentTo
<1>9. SentTo(s)' = SentTo(s) + 1
  <2>1. received'[s] = received[s] /\ received[s] \in Nat
    BY <1>3
  <2> QED BY ONLY <1>4, <1>8, <2>1
<1>10. \A e \in Drones \ {s} : SentTo(e)' = SentTo(e)
  BY <1>7 DEF SentTo
<1> QED BY <1>4, <1>5, <1>6, <1>7, <1>9, <1>10

(* The log thread is not at the lines of a round while a message is routed. *)
LEMMA NobodyRoutes ==
  ASSUME TypeOK, OnePhaseAtATime,
         log_pc # "alloc" \/ allocation_sem + broadcast_sem # 0
  PROVE  Routing = {} /\ \A d \in Drones : pc[d] # "bcast"
<1>1. Routing = {}
  BY DEF OnePhaseAtATime, TypeOK
<1> QED BY <1>1 DEF Routing

(* Nothing is sent, and the loops over the table are where they were. *)
LEMMA SameReached ==
  ASSUME IInv, UNCHANGED <<round, task, scan, node, pos>>,
         log_pc' \in {"scan", "send"} <=> log_pc \in {"scan", "send"},
         \A d \in Drones : pc'[d] = "bcast" <=> pc[d] = "bcast",
         \A d \in Drones : SentTo(d)' = SentTo(d),
         CurrentPhase' = CurrentPhase
  PROVE  SentInv'
<1>1. ASSUME NEW d \in Drones
      PROVE  Reached(d)' <=> Reached(d)
  BY DEF Reached
<1> QED BY <1>1 DEF IInv, SentInv

(* The log thread sends its line to the drone that its entry names. *)
LEMMA SendTaskSends ==
  ASSUME IInv, [Next]_vars, SendTask
  PROVE  SentInv'
<1> USE DEF IInv
<1>1. CurrentPhase' = CurrentPhase
  BY PhaseStays DEF TakeResponse, TakeResponseToRoute, SendTask, handler, TypeOK
<1>2. /\ running /\ log_pc = "send" /\ scan \in 1..NODES_NUM /\ task \in 0..(NODES_NUM - 1)
      /\ RowOf(round) \in DOMAIN Log
      /\ node[scan] = Recipient(round, task)
      /\ scan' = scan + 1 /\ log_pc' = "scan"
      /\ UNCHANGED <<round, task, node, pc, pos, received>>
  BY NodesNum DEF SendTask, TypeOK, TableInv, table, handler, drone
<1>3. node[scan] \in Drones /\ \A i \in 1..(scan - 1) : node[i] # node[scan]
  BY <1>2, Places, NodesNum
<1>4. PICK s \in Drones : s = node[scan]
  BY <1>3
<1>5. Task \in Message
  BY <1>2, RecipientType DEF Task, TypeOK, Message
<1>6. SentTo(s)' = SentTo(s) + 1 /\ \A e \in Drones \ {s} : SentTo(e)' = SentTo(e)
  BY <1>2, <1>4, <1>5, SendCounts DEF SendTask
<1>7. \A d \in Drones : pc[d] # "bcast"
  BY <1>2, NobodyRoutes
<1>8. \A k \in 0..(NODES_NUM - 1) : Recipient(round, k) = s => k = task
  BY <1>2, <1>4, Recipients
<1>9. ~Reached(s)
  <2> SUFFICES ASSUME Reached(s) PROVE FALSE
    OBVIOUS
  <2>1. PICK k \in 0..task : /\ Recipient(round, k) = s
                             /\ k < task \/ \E i \in 1..(scan - 1) : node[i] = s
    BY <1>2 DEF Reached
  <2>2. k \in 0..(NODES_NUM - 1)
    BY <1>2, NodesNum
  <2>3. k = task
    BY <1>8, <2>1, <2>2
  <2> QED BY <1>2, <1>3, <1>4, <2>1, <2>3
<1>10. Reached(s)'
  <2>1. scan \in 1..(scan' - 1) /\ node'[scan] = s
    BY <1>2, <1>4
  <2>2. Recipient(round', task') = s /\ task' \in 0..task'
    BY <1>2, <1>4
  <2> QED BY <1>2, <1>7, <2>1, <2>2 DEF Reached
<1>11. ASSUME NEW e \in Drones \ {s}
       PROVE  Reached(e)' <=> Reached(e)
  <2>1. \A i \in 1..scan : node[i] = e => i \in 1..(scan - 1)
    BY <1>2, <1>4
  <2>2. (\E i \in 1..(scan' - 1) : node'[i] = e) <=> (\E i \in 1..(scan - 1) : node[i] = e)
    BY <1>2, <2>1
  <2> QED BY <1>2, <1>7, <2>2 DEF Reached
<1>12. SentTo(s) \in Int /\ CurrentPhase \in Nat
  BY PhaseType, <1>9 DEF SentInv
<1> QED BY <1>1, <1>6, <1>9, <1>10, <1>11, <1>12 DEF SentInv

(* A handler routes its message to the next entry of the table. *)
LEMMA RouteEntrySends ==
  ASSUME IInv, [Next]_vars, NEW h \in Drones, RouteEntry(h)
  PROVE  SentInv'
<1> USE DEF IInv
<1>1. CurrentPhase' = CurrentPhase
  BY PhaseStays DEF TakeResponse, TakeResponseToRoute, RouteEntry, logVars, TypeOK
<1>2. /\ running /\ pc[h] = "bcast" /\ pos[h] \in 1..NODES_NUM
      /\ pos'[h] = pos[h] + 1
      /\ UNCHANGED <<log_pc, round, task, scan, node, pc, received>>
  BY NodesNum DEF RouteEntry, Routed, TypeOK, TableInv, table, logVars, drone
<1>3. log_pc = "alloc" /\ \A d \in Drones : pc[d] = "bcast" => d = h
  <2>1. h \in Routing /\ \A d \in Drones : pc[d] = "bcast" => d \in Routing
    BY <1>2 DEF Routing
  <2> QED BY <2>1 DEF OnePhaseAtATime
<1>4. PICK s \in Drones : s = node[pos[h]]
  BY <1>2, Places
<1>5. \A i \in 1..(pos[h] - 1) : node[i] # s
  BY <1>2, <1>4, Places, NodesNum
<1>6. msg[h] \in Message
  BY DEF TypeOK, Ranging, Message
<1>7. SentTo(s)' = SentTo(s) + 1 /\ \A e \in Drones \ {s} : SentTo(e)' = SentTo(e)
  BY <1>2, <1>4, <1>6, SendCounts DEF RouteEntry
<1>8. ASSUME NEW e \in Drones
      PROVE  /\ Reached(e) <=> \E i \in 1..(pos[h] - 1) : node[i] = e
             /\ Reached(e)' <=> \E i \in 1..pos[h] : node[i] = e
  <2>1. (\E i \in 1..(pos'[h] - 1) : node'[i] = e) <=> \E i \in 1..pos[h] : node[i] = e
    BY <1>2
  <2> QED BY <1>2, <1>3, <2>1 DEF Reached
<1>9. ~Reached(s) /\ Reached(s)'
  BY <1>2, <1>4, <1>5, <1>8
<1>10. ASSUME NEW e \in Drones \ {s}
       PROVE  Reached(e)' <=> Reached(e)
  BY <1>2, <1>4, <1>8
<1>11. SentTo(s) \in Int /\ CurrentPhase \in Nat
  BY PhaseType, <1>9 DEF SentInv
<1> QED BY <1>1, <1>7, <1>9, <1>10, <1>11 DEF SentInv

(* The log thread goes on to the next recipient of the row, or behind the  *)
(* last one hands over to the handlers: everybody has his line.            *)
LEMMA NextTaskSends ==
  ASSUME IInv, [Next]_vars, NextTask
  PROVE  SentInv'
<1> USE DEF IInv
<1>1. CurrentPhase' = CurrentPhase
  BY PhaseStays DEF TakeResponse, TakeResponseToRoute, NextTask, handler, TypeOK
<1>2. /\ log_pc = "scan" /\ scan > NODES_NUM /\ scan \in Int /\ task \in 0..(NODES_NUM - 1)
      /\ RowOf(round) \in DOMAIN Log
      /\ UNCHANGED <<round, node, pc, pos, received, down>>
  BY NodesNum DEF NextTask, TypeOK, TableInv, table, handler, drone
<1>3. \A d \in Drones : pc[d] # "bcast"
  BY <1>2, NobodyRoutes
<1>4. ASSUME NEW d \in Drones
      PROVE  Reached(d) <=> \E k \in 0..task : Recipient(round, k) = d
  <2>1. \E i \in 1..(scan - 1) : node[i] = d
    <3>1. PICK i \in 1..NODES_NUM : node[i] = d
      BY Places
    <3>2. i \in 1..(scan - 1)
      BY <1>2, NodesNum
    <3> QED BY <3>1, <3>2
  <2> QED BY <1>2, <1>3, <2>1 DEF Reached
<1>5. ASSUME NEW d \in Drones
      PROVE  Reached(d)' <=> Reached(d)
  <2>1. CASE task < NODES_NUM - 1
    <3>1. task' = task + 1 /\ scan' = 1 /\ log_pc' = "scan"
      BY <1>2, <2>1 DEF NextTask
    <3>2. Reached(d)' <=> \E k \in 0..(task + 1) : Recipient(round, k) = d /\ k < task + 1
      BY <1>2, <1>3, <3>1 DEF Reached
    <3>3. \A k \in Int : k \in 0..task <=> k \in 0..(task + 1) /\ k < task + 1
      BY <1>2
    <3> QED BY <1>4, <3>2, <3>3
  <2>2. CASE ~(task < NODES_NUM - 1)
    <3>1. task = NODES_NUM - 1 /\ log_pc' = "post"
      BY <1>2, <2>2, NodesNum DEF NextTask
    <3>2. Reached(d)
      BY <1>2, <1>4, <3>1, Recipients
    <3>3. Reached(d)'
      BY <1>2, <1>3, <3>1 DEF Reached
    <3> QED BY <3>2, <3>3
  <2> QED BY <2>1, <2>2
<1>6. \A d \in Drones : SentTo(d)' = SentTo(d)
  BY <1>2 DEF SentTo
<1> QED BY <1>1, <1>5, <1>6 DEF SentInv

(* A phase starts when everybody has been sent the message before.         *)
LEMMA StartSends ==
  ASSUME IInv, TakeResponse \/ \E h \in Drones : TakeResponseToRoute(h)
  PROVE  SentInv' /\ \A d \in Drones : SentTo(d) = CurrentPhase
<1> USE DEF IInv
<1>1. CurrentPhase' = CurrentPhase + 1 /\ CurrentPhase \in Nat
  BY PhaseStarts, PhaseType
<1>2. UNCHANGED <<node, received, down>>
  BY DEF TakeResponse, TakeResponseToRoute, table, drone
<1>3. \A d \in Drones : SentTo(d)' = SentTo(d)
  BY <1>2 DEF SentTo
<1>4. \A d \in Drones : Reached(d) /\ ~Reached(d)'
  <2> SUFFICES ASSUME NEW d \in Drones
               PROVE  Reached(d) /\ ~Reached(d)'
    OBVIOUS
  <2>1. CASE TakeResponse
    <3>1. log_pc = "resp" /\ log_pc' = "scan" /\ task' = 0 /\ scan' = 1
      BY <2>1 DEF TakeResponse
    <3>2. \A h \in Drones : pc[h] # "bcast"
      BY <3>1, NobodyRoutes
    <3> QED BY <3>1, <3>2 DEF Reached
  <2>2. ASSUME NEW h \in Drones, TakeResponseToRoute(h)
        PROVE  Reached(d) /\ ~Reached(d)'
    <3>1. /\ pc[h] = "resp_wait" /\ pc'[h] = "bcast" /\ pos'[h] = 1
          /\ log_pc = "alloc" /\ log_pc' = "alloc"
      BY <2>2, PhaseIs DEF TakeResponseToRoute, TypeOK, logVars
    <3>2. \A e \in Drones : pc[e] # "bcast"
      <4> SUFFICES ASSUME NEW e \in Drones, pc[e] = "bcast" PROVE FALSE
        OBVIOUS
      <4>1. e \in Routing /\ h \in Routing
        BY <3>1 DEF Routing
      <4>2. e = h
        BY <4>1 DEF OnePhaseAtATime
      <4> QED BY <3>1, <4>2
    <3> QED BY <3>1, <3>2 DEF Reached
  <2> QED BY <2>1, <2>2
<1> QED BY <1>1, <1>3, <1>4 DEF SentInv

(* Nobody is sent a message of a phase that has not started, and nobody is *)
(* left out of one that is over.                                           *)
LEMMA SentKeeps ==
  ASSUME IInv, [Next]_vars
  PROVE  SentInv'
<1> USE DEF IInv
<1>1. CASE TakeResponse \/ \E h \in Drones : TakeResponseToRoute(h)
  BY <1>1, StartSends
<1>2. CASE ~(TakeResponse \/ \E h \in Drones : TakeResponseToRoute(h))
  <2>1. CurrentPhase' = CurrentPhase
    BY <1>2, PhaseStays
  <2>2. CASE TakeAllocation
    <3>1. log_pc = "alloc" /\ log_pc' = "resp" /\ UNCHANGED <<node, pc, pos, received, down>>
      BY <2>2 DEF TakeAllocation, table, handler, drone
    <3>2. ASSUME NEW d \in Drones
          PROVE  (Reached(d)' <=> Reached(d)) /\ SentTo(d)' = SentTo(d)
      BY <3>1 DEF Reached, SentTo
    <3> QED BY <2>1, <3>2 DEF SentInv
  <2>3. CASE ScanEntry
    <3>1. /\ log_pc = "scan" /\ log_pc' \in {"scan", "send"} /\ scan \in 1..NODES_NUM
          /\ UNCHANGED <<round, task, node, pc, pos, received, down>>
          /\ task \in 0..(NODES_NUM - 1) /\ RowOf(round) \in DOMAIN Log
      BY <2>3, NodesNum DEF ScanEntry, table, handler, drone, TypeOK, TableInv
    <3>2. ASSUME NEW d \in Drones
          PROVE  Reached(d)' <=> Reached(d)
      <4>1. CASE scan' = scan
        BY <3>1, <4>1 DEF Reached
      <4>2. CASE scan' # scan
        <5>1. scan' = scan + 1 /\ node[scan] # Recipient(round, task)
          BY <2>3, <4>2 DEF ScanEntry
        <5>2. ASSUME d = Recipient(round, task)
              PROVE  (\E i \in 1..(scan' - 1) : node'[i] = d) <=> \E i \in 1..(scan - 1) : node[i] = d
          BY <3>1, <5>1, <5>2
        <5>3. ASSUME NEW k \in 0..task, Recipient(round, k) = d, ~(k < task)
              PROVE  d = Recipient(round, task)
          <6>1. k = task
            BY <3>1, <5>3
          <6> QED BY <5>3, <6>1
        <5> QED BY <3>1, <5>2, <5>3 DEF Reached
      <4> QED BY <4>1, <4>2
    <3>3. \A d \in Drones : SentTo(d)' = SentTo(d)
      BY <3>1 DEF SentTo
    <3> QED BY <2>1, <3>2, <3>3 DEF SentInv
  <2>4. CASE SendTask
    BY <2>4, SendTaskSends
  <2>5. CASE NextTask
    BY <2>5, NextTaskSends
  <2>6. CASE PostBroadcast
    <3>1. /\ log_pc = "post" /\ log_pc' = "alloc"
          /\ UNCHANGED <<round, task, scan, node, pc, pos, received, down>>
      BY <2>6 DEF PostBroadcast, table, handler, drone
    <3>2. \A d \in Drones : SentTo(d)' = SentTo(d)
      BY <3>1 DEF SentTo
    <3> QED BY <2>1, <3>1, <3>2, SameReached
  <2>7. ASSUME NEW d \in Drones, ReceiveRanging(d) \/ ReceiveResponse(d) \/ TakeBroadcast(d)
        PROVE  SentInv'
    <3>1. UNCHANGED <<log_pc, round, task, scan, node, pos, received, down>>
      BY <2>7
      DEF ReceiveRanging, ReceiveResponse, TakeBroadcast, table, logVars, handler, drone
    <3>2. \A h \in Drones : pc'[h] = "bcast" <=> pc[h] = "bcast"
      BY <2>7 DEF ReceiveRanging, ReceiveResponse, TakeBroadcast, handler, TypeOK
    <3>3. \A e \in Drones : SentTo(e)' = SentTo(e)
      BY <3>1 DEF SentTo
    <3> QED BY <2>1, <3>1, <3>2, <3>3, SameReached
  <2>8. ASSUME NEW d \in Drones, RouteEntry(d)
        PROVE  SentInv'
    BY <2>8, RouteEntrySends
  <2>9. ASSUME NEW h \in Drones, PostAllocation(h)
        PROVE  SentInv'
    <3>1. /\ pc[h] = "bcast" /\ pos[h] > NODES_NUM /\ pos[h] \in Int /\ log_pc = "alloc"
          /\ pc' = [pc EXCEPT ![h] = "recv"]
          /\ UNCHANGED <<log_pc, round, task, scan, node, pos, received, down>>
      BY <2>9, PhaseIs DEF PostAllocation, Routed, TypeOK, TableInv, table, logVars, drone
    <3>2. \A e \in Drones : pc[e] = "bcast" => e = h
      <4>1. h \in Routing /\ \A e \in Drones : pc[e] = "bcast" => e \in Routing
        BY <3>1 DEF Routing
      <4> QED BY <4>1 DEF OnePhaseAtATime
    <3>3. ASSUME NEW d \in Drones
          PROVE  Reached(d) /\ Reached(d)' /\ SentTo(d)' = SentTo(d)
      <4>1. PICK i \in 1..NODES_NUM : node[i] = d
        BY Places
      <4>2. i \in 1..(pos[h] - 1)
        BY <3>1, NodesNum
      <4>3. \A e \in Drones : pc'[e] # "bcast"
        BY <3>1, <3>2 DEF TypeOK
      <4> QED BY <3>1, <3>2, <4>1, <4>2, <4>3 DEF Reached, SentTo
    <3> QED BY <2>1, <3>3 DEF SentInv
  <2>10. ASSUME NEW d \in Drones, Drone(d)
         PROVE  SentInv'
    <3>1. UNCHANGED center
      BY <2>10
      DEF Drone, TxCallBack, TakeRxTimestamp, Ignore, DropRanging, ProcessRanging, DroneExit
    <3>2. Read(d) \/ UNCHANGED <<received, down>>
      BY <2>10
      DEF Drone, TxCallBack, TakeRxTimestamp, Ignore, DropRanging, ProcessRanging, DroneExit, drone
    <3>3. \A e \in Drones : SentTo(e)' = SentTo(e)
      BY <3>2, ReadCounts DEF SentTo
    <3> QED BY <2>1, <3>1, <3>3, SameReached DEF center, table, logVars, handler
  <2>11. CASE FinishLog \/ UNCHANGED vars
    <3>1. UNCHANGED center /\ UNCHANGED <<received, down>>
      BY <2>11 DEF FinishLog, vars, drone
    <3>2. \A e \in Drones : SentTo(e)' = SentTo(e)
      BY <3>1 DEF SentTo
    <3> QED BY <2>1, <3>1, <3>2, SameReached DEF center, table, logVars, handler
  <2> QED
    BY <1>2, <2>2, <2>3, <2>4, <2>5, <2>6, <2>7, <2>8, <2>9, <2>10, <2>11
    DEF Next, LogThread, Handler, Terminated
<1> QED BY <1>1, <1>2

(* The message a send of the center appends is the next one of its drone.  *)
LEMMA ContentSent ==
  ASSUME IInv, running, NEW i \in 1..NODES_NUM, NEW m \in Message, Send(i, m),
         UNCHANGED received, NEW s \in Drones, s = node[i],
         MessageInv(s, Len(down[s]) + 1, m)
  PROVE  ContentInv'
<1> USE DEF IInv
<1>1. /\ \A e \in Drones \ {s} : down'[e] = down[e]
      /\ Len(down'[s]) = Len(down[s]) + 1
      /\ \A k \in 1..Len(down[s]) : down'[s][k] = down[s][k]
      /\ down'[s][Len(down[s]) + 1] = m
  BY SendCounts
<1>2. Len(down[s]) \in Nat
  BY DEF TypeOK
<1>3. \A k \in 1..Len(down'[s]) : k \in 1..Len(down[s]) \/ k = Len(down[s]) + 1
  BY <1>1, <1>2
<1>4. ASSUME NEW d \in Drones, NEW k \in 1..Len(down'[d])
      PROVE  MessageInv(d, k, down'[d][k])
  <2>1. CASE d = s
    BY <1>1, <1>3, <2>1 DEF ContentInv
  <2>2. CASE d # s
    BY <1>1, <2>2 DEF ContentInv
  <2> QED BY <2>1, <2>2
<1> QED BY <1>4 DEF ContentInv, MessageInv

(* A handler that routes holds the ranging message of the round, and is    *)
(* its sender's.                                                           *)
LEMMA RoutedMessage ==
  ASSUME IInv, running, NEW h \in Drones, pc[h] \in {"resp_wait", "bcast"}
  PROVE  /\ Own(h) /\ msg[h] = RangingOf(h)
         /\ Played = round /\ round > 0 /\ RowOf(round) \in DOMAIN Log
         /\ pc[h] = "resp_wait" => received[h] = CurrentPhase /\ up[h] = <<>>
<1> USE DEF IInv
<1>1. log_pc = "alloc"
  BY PhaseIs
<1>2. Own(h)
  <2> SUFFICES ASSUME ~Own(h) PROVE FALSE
    OBVIOUS
  <2> QED BY DEF AnswerInv, ReceiverInv
<1>3. SenderInv(h)
  BY <1>2 DEF AnswerInv
<1>4. /\ pc[h] = "resp_wait" => CurrentPhase = 2 * Played - 1
      /\ pc[h] = "bcast" => CurrentPhase = 2 * Played
  BY PhaseIs
<1>5. CurrentPhase \in Nat /\ received[h] \in Nat
  BY PhaseType DEF TypeOK
<1>6. msg[h] = RangingOf(h) /\ (pc[h] = "resp_wait" => received[h] = CurrentPhase /\ up[h] = <<>>)
  BY <1>3, <1>4, <1>5 DEF SenderInv
<1>7. Played = round /\ round > 0
  BY <1>1, <1>2 DEF Played, Own
<1> QED BY <1>2, <1>6, <1>7 DEF TypeOK

(* What a drone is sent comes in the order of the phases, is its own line  *)
(* of each round and the ranging message of the round's sender.            *)
LEMMA ContentKeeps ==
  ASSUME IInv, [Next]_vars
  PROVE  ContentInv'
<1> USE DEF IInv
<1>1. SentInv' /\ CurrentPhase \in Nat
  BY SentKeeps, PhaseType
<1>2. CASE SendTask
  <2>1. CurrentPhase' = CurrentPhase
    BY <1>2, PhaseStays DEF TakeResponse, TakeResponseToRoute, SendTask, handler, TypeOK
  <2>2. /\ running /\ log_pc = "send" /\ scan \in 1..NODES_NUM /\ task \in 0..(NODES_NUM - 1)
        /\ RowOf(round) \in DOMAIN Log /\ round \in Nat /\ round > 0
        /\ node[scan] = Recipient(round, task)
        /\ UNCHANGED received
    BY <1>2, NodesNum DEF SendTask, TypeOK, TableInv, drone
  <2>3. CurrentPhase = 2 * round - 1
    BY <2>2 DEF CurrentPhase
  <2>4. PICK s \in Drones : s = node[scan]
    BY <2>2, Places
  <2>5. Task \in Message
    BY <2>2, RecipientType DEF Task, TypeOK, Message
  <2>6. SentTo(s)' = SentTo(s) + 1
    BY <1>2, <2>2, <2>4, <2>5, SendCounts DEF SendTask
  <2>7. SentTo(s)' = CurrentPhase
    BY <1>1, <2>1, <2>6 DEF SentInv
  <2>8. Number(Task) = SentTo(s) + 1 /\ SentTo(s) = received[s] + Len(down[s])
    <3>1. Number(Task) = 2 * round - 1
      BY DEF Number, Task
    <3> QED BY <2>3, <2>6, <2>7, <3>1 DEF SentTo
  <2>9. s = Sender(round) <=> task = 0
    BY <2>2, <2>4, Recipients
  <2>10. received[s] \in Nat /\ Len(down[s]) \in Nat
    BY DEF TypeOK
  <2>11. MessageInv(s, Len(down[s]) + 1, Task)
    BY <2>2, <2>4, <2>8, <2>9, <2>10 DEF MessageInv, Task
  <2> QED BY <1>2, <2>2, <2>4, <2>5, <2>11, ContentSent DEF SendTask
<1>3. ASSUME NEW h \in Drones, RouteEntry(h)
      PROVE  ContentInv'
  <2>1. CurrentPhase' = CurrentPhase
    BY <1>3, PhaseStays DEF TakeResponse, TakeResponseToRoute, RouteEntry, logVars, TypeOK
  <2>2. /\ running /\ pc[h] = "bcast" /\ pos[h] \in 1..NODES_NUM
        /\ UNCHANGED received
    BY <1>3, NodesNum DEF RouteEntry, Routed, TypeOK, TableInv, drone
  <2>3. /\ Own(h) /\ msg[h] = RangingOf(h)
        /\ Played = round /\ round > 0 /\ RowOf(round) \in DOMAIN Log
    BY <2>2, RoutedMessage
  <2>4. CurrentPhase = 2 * round
    BY <2>2, <2>3, PhaseIs
  <2>5. PICK s \in Drones : s = node[pos[h]]
    BY <2>2, Places
  <2>6. msg[h] \in Message
    BY DEF TypeOK, Ranging, Message
  <2>7. SentTo(s)' = SentTo(s) + 1
    BY <1>3, <2>2, <2>5, <2>6, SendCounts DEF RouteEntry
  <2>8. SentTo(s)' = CurrentPhase
    BY <1>1, <2>1, <2>7 DEF SentInv
  <2>9. received[s] \in Nat /\ Len(down[s]) \in Nat /\ SentTo(s) = received[s] + Len(down[s])
    BY DEF TypeOK, SentTo
  <2>10. /\ msg[h].kind = "RNG" /\ msg[h].addr = h /\ msg[h].round = round
         /\ h = Sender(round)
    BY <2>3 DEF RangingOf, Own
  <2>11. Number(msg[h]) = received[s] + (Len(down[s]) + 1)
    BY <2>4, <2>7, <2>8, <2>9, <2>10 DEF Number
  <2>12. MessageInv(s, Len(down[s]) + 1, msg[h])
    BY <2>3, <2>10, <2>11 DEF MessageInv
  <2> QED BY <1>3, <2>2, <2>5, <2>6, <2>12, ContentSent DEF RouteEntry
<1>4. ASSUME NEW d \in Drones, Read(d)
      PROVE  ContentInv'
  <2>1. /\ received'[d] = received[d] + 1
        /\ \A e \in Drones \ {d} : received'[e] = received[e] /\ down'[e] = down[e]
        /\ Len(down'[d]) = Len(down[d]) - 1 /\ Len(down[d]) \in Nat
        /\ \A i \in 1..Len(down'[d]) : i + 1 \in 1..Len(down[d]) /\ down'[d][i] = down[d][i + 1]
    <3>1. down[d] \in Seq(Message)
      BY DEF TypeOK
    <3>2. Len(down[d]) \in Nat
      BY ONLY <3>1
    <3> QED BY <1>4, <3>2, ReadCounts
  <2>2. ASSUME NEW e \in Drones, NEW i \in 1..Len(down'[e])
        PROVE  MessageInv(e, i, down[e][i])'
    <3>3. i \in Int
      <4>1. down' \in [Drones -> Seq(Message)]
        BY <1>4, ReadType
      <4>2. Len(down'[e]) \in Nat
        BY <4>1
      <4> QED BY <4>2
    <3>1. CASE e = d
      <4>1. MessageInv(d, i + 1, down[d][i + 1]) /\ received[d] \in Nat
        BY <2>1, <3>1 DEF ContentInv, TypeOK
      <4>2. down'[d][i] = down[d][i + 1]
        BY <2>1, <3>1
      <4>3. received'[d] + i = received[d] + (i + 1)
        <5>1. received'[d] = received[d] + 1 /\ received[d] \in Nat
          BY <2>1, <4>1
        <5> QED BY <3>3, <5>1
      <4> QED BY <3>1, <4>1, <4>2, <4>3 DEF MessageInv
    <3>2. CASE e # d
      <4>1. down'[e] = down[e] /\ received'[e] = received[e]
        BY <2>1, <3>2
      <4>2. MessageInv(e, i, down[e][i])
        BY <4>1 DEF ContentInv
      <4> QED BY <4>1, <4>2 DEF MessageInv
    <3> QED BY <3>1, <3>2
  <2> QED BY <2>2 DEF ContentInv
<1>5. CASE UNCHANGED <<down, received>>
  BY <1>5 DEF ContentInv, MessageInv
<1>6. \/ SendTask
      \/ \E h \in Drones : RouteEntry(h)
      \/ \E d \in Drones : Read(d)
      \/ UNCHANGED <<down, received>>
  BY DEF Next, LogThread, Handler, Drone, Terminated, TakeAllocation, TakeResponse, ScanEntry,
         NextTask, PostBroadcast, FinishLog, ReceiveRanging, ReceiveResponse,
         TakeBroadcast, TakeResponseToRoute, PostAllocation, TxCallBack,
         TakeRxTimestamp, Ignore, DropRanging, ProcessRanging, DroneExit, vars, drone
<1> QED BY <1>2, <1>3, <1>4, <1>5, <1>6

-----------------------------------------------------------------------------
(* What a drone reads, and what it answers *)

(* Nobody has been sent more than the message of the current phase.        *)
LEMMA ReadBound ==
  ASSUME IInv, NEW d \in Drones
  PROVE  /\ received[d] \in Nat /\ received[d] <= CurrentPhase
         /\ down[d] # <<>> => received[d] < CurrentPhase
<1>1. received[d] \in Nat /\ Len(down[d]) \in Nat /\ (down[d] # <<>> => Len(down[d]) > 0)
  BY DEF IInv, TypeOK
<1>2. CurrentPhase \in Nat
  BY PhaseType DEF IInv
<1>3. received[d] + Len(down[d]) \in {CurrentPhase - 1, CurrentPhase}
  BY DEF IInv, SentInv, SentTo
<1> QED BY <1>1, <1>2, <1>3

(* A drone reads the message of the current phase; or it is the sender of  *)
(* the round before and reads its own ranging message.                     *)
LEMMA MessageRead ==
  ASSUME IInv, NEW d \in Drones, Read(d)
  PROVE  LET m == Head(down[d])
         IN  \/ /\ received[d] + 1 < CurrentPhase
                /\ m.kind = "RNG" /\ m.addr = d
             \/ /\ received[d] + 1 = CurrentPhase /\ CurrentPhase = 2 * Played - 1
                /\ m.kind = (IF Own(d) THEN "TX" ELSE "RX") /\ m.addr = d
                /\ m.round = Played /\ Played > 0
             \/ /\ received[d] + 1 = CurrentPhase /\ CurrentPhase = 2 * Played
                /\ m.kind = "RNG" /\ (m.addr = d <=> Own(d))
                /\ m.round = Played /\ Played > 0
<1> DEFINE m == Head(down[d])
<1> USE DEF IInv
<1>1. down[d] # <<>> /\ down[d] \in Seq(Message) /\ Len(down[d]) \in Nat
  BY DEF Read, TypeOK
<1>2. m \in Message /\ m = down[d][1] /\ 1 \in 1..Len(down[d])
  BY <1>1
<1>3. MessageInv(d, 1, m)
  BY <1>2 DEF ContentInv
<1>4. received[d] \in Nat /\ received[d] < CurrentPhase
  BY <1>1, ReadBound
<1>5. CurrentPhase \in Nat /\ Played \in Nat /\ CurrentPhase \in {2 * Played - 1, 2 * Played}
  BY PhaseType
<1>6. m.round \in Nat /\ m.kind \in {"TX", "RX", "RNG"}
  BY <1>2 DEF Message
<1> HIDE DEF m
<1>7. Number(m) = received[d] + 1
  BY <1>3 DEF MessageInv
<1>8. /\ m.kind = "RNG" => received[d] + 1 = 2 * m.round
      /\ m.kind # "RNG" => received[d] + 1 = 2 * m.round - 1
  BY <1>7 DEF Number
<1>9. CASE received[d] + 1 < CurrentPhase
  <2>1. /\ CurrentPhase = 2 * Played - 1 /\ Played > 1
        /\ d = Sender(Played - 1)
        /\ received[d] = CurrentPhase - 2
    BY <1>4, <1>5, <1>9 DEF ReadInv
  <2>2. m.kind = "RNG" /\ m.round = Played - 1
    BY <1>5, <1>6, <1>8, <2>1
  <2> QED BY <1>3, <1>9, <2>1, <2>2 DEF MessageInv, m
<1>10. CASE received[d] + 1 = CurrentPhase /\ CurrentPhase = 2 * Played - 1
  <2>1. m.kind # "RNG" /\ m.round = Played /\ Played > 0
    BY <1>4, <1>5, <1>6, <1>8, <1>10
  <2>2. m.addr = d /\ (m.kind = "TX" <=> d = Sender(Played))
    BY <1>3, <2>1 DEF MessageInv
  <2> QED BY <1>6, <1>10, <2>1, <2>2 DEF m, Own
<1>11. CASE received[d] + 1 = CurrentPhase /\ CurrentPhase = 2 * Played
  <2>1. m.kind = "RNG" /\ m.round = Played /\ Played > 0
    BY <1>4, <1>5, <1>6, <1>8, <1>11
  <2>2. m.addr = Sender(Played)
    BY <1>3, <2>1 DEF MessageInv
  <2> QED BY <1>11, <2>1, <2>2 DEF m, Own
<1> QED BY <1>4, <1>5, <1>9, <1>10, <1>11

(* While the center runs, a drone's step is a read and its answer: none to *)
(* its own ranging message, that message to its TX line, an ACK to the     *)
(* rest.                                                                   *)
LEMMA ReadAnswers ==
  ASSUME IInv, running, NEW d \in Drones, Drone(d)
  PROVE  /\ Read(d) /\ UNCHANGED <<running, center>>
         /\ \/ received[d] + 1 < CurrentPhase /\ UNCHANGED up
            \/ /\ received[d] + 1 = CurrentPhase /\ Played > 0
               /\ \/ /\ Own(d) /\ CurrentPhase = 2 * Played - 1
                     /\ up' = [up EXCEPT ![d] = Append(@, RangingOf(d))]
                  \/ /\ Own(d) /\ CurrentPhase = 2 * Played
                     /\ UNCHANGED up
                  \/ /\ ~Own(d)
                     /\ up' = [up EXCEPT ![d] = Append(@, Response(d, Played))]
<1> DEFINE m == Head(down[d])
<1>1. /\ Read(d) /\ UNCHANGED <<running, center>>
      /\ \/ /\ m.kind = "TX" /\ m.addr = d
            /\ up' = [up EXCEPT ![d] = Append(@, [kind |-> "RNG", addr |-> d, round |-> m.round])]
         \/ /\ m.kind = "RX" /\ m.addr = d
            /\ up' = [up EXCEPT ![d] = Append(@, Response(d, m.round))]
         \/ (IF m.kind = "RNG" THEN m.addr = d ELSE m.addr # d) /\ UNCHANGED up
         \/ /\ m.kind = "RNG" /\ m.addr # d
            /\ up' = [up EXCEPT ![d] = Append(@, Response(d, m.round))]
  BY DEF Drone, TxCallBack, TakeRxTimestamp, Ignore, DropRanging, ProcessRanging, DroneExit,
         SendToCenter
<1>2. Read(d)
  BY <1>1
<1>3. \/ /\ received[d] + 1 < CurrentPhase
         /\ m.kind = "RNG" /\ m.addr = d
      \/ /\ received[d] + 1 = CurrentPhase /\ CurrentPhase = 2 * Played - 1
         /\ m.kind = (IF Own(d) THEN "TX" ELSE "RX") /\ m.addr = d
         /\ m.round = Played /\ Played > 0
      \/ /\ received[d] + 1 = CurrentPhase /\ CurrentPhase = 2 * Played
         /\ m.kind = "RNG" /\ (m.addr = d <=> Own(d))
         /\ m.round = Played /\ Played > 0
  BY <1>2, MessageRead
<1> HIDE DEF m
<1> QED BY <1>1, <1>3 DEF RangingOf

-----------------------------------------------------------------------------
(* A phase starts when the answers to the one before are counted *)

(* At the two waits for response_sem, a post of it means that every drone  *)
(* that answers has read the message of the phase, and that nothing is on  *)
(* the way to the center.                                                  *)
LEMMA QuietAtStart ==
  ASSUME IInv, running, response_sem > 0,
         log_pc = "resp" \/ \E h \in Drones : pc[h] = "resp_wait"
  PROVE  /\ response_sem = 1 /\ response_count = 0
         /\ \A d \in Drones : up[d] = <<>>
         /\ \A d \in Drones : Own(d) \/ received[d] = CurrentPhase
         /\ \A d \in Drones : pc[d] = "recv" \/ (pc[d] = "resp_wait" /\ Own(d))
         /\ log_pc = "resp" => \A d \in Drones : pc[d] = "recv"
         /\ \A h \in Drones : pc[h] = "resp_wait" => \A d \in Drones : received[d] = CurrentPhase
<1> USE DEF IInv
<1>1. response_sem = 1 /\ response_count = 0 /\ \A d \in Drones : Own(d) \/ d \in Answered
  BY DEF CountInv, TypeOK
<1>2. \A d \in Drones : ~Own(d) => up[d] = <<>> /\ received[d] = CurrentPhase /\ pc[d] = "recv"
  BY <1>1 DEF Answered, AnswerInv, ReceiverInv
<1>3. ASSUME log_pc = "resp", NEW d \in Drones, Own(d)
      PROVE  up[d] = <<>> /\ pc[d] = "recv"
  <2>1. CurrentPhase = 2 * Played /\ pc[d] # "bcast"
    BY <1>3, PhaseIs
  <2> QED BY <1>3, <2>1 DEF AnswerInv, SenderInv
<1>4. ASSUME NEW h \in Drones, pc[h] = "resp_wait"
      PROVE  /\ log_pc # "resp"
             /\ Own(h) /\ up[h] = <<>> /\ received[h] = CurrentPhase
             /\ \A d \in Drones : Own(d) => d = h
  <2>1. Own(h) /\ up[h] = <<>> /\ received[h] = CurrentPhase
    BY <1>4, RoutedMessage
  <2>2. log_pc = "alloc"
    BY <1>4, PhaseIs
  <2> QED BY <2>1, <2>2 DEF Own
<1> QED BY <1>1, <1>2, <1>3, <1>4

(* A drone is at most one message behind the phase before, and then it is  *)
(* the one that does not answer it.                                        *)
LEMMA ReadKeeps ==
  ASSUME IInv, [Next]_vars
  PROVE  ReadInv'
<1> USE DEF IInv
<1>1. \A d \in Drones : received[d] \in Nat /\ received[d] <= CurrentPhase
  BY ReadBound
<1>2. CurrentPhase \in Nat /\ Played \in Nat
  BY PhaseType
<1>3. CASE TakeResponse
  <2>1. running /\ log_pc = "resp" /\ response_sem > 0 /\ received' = received
    BY <1>3 DEF TakeResponse, drone
  <2>2. CurrentPhase = 2 * Played /\ CurrentPhase' = CurrentPhase + 1 /\ Played' = Played + 1
    BY <1>2, <1>3, <2>1, PhaseStarts, PhaseIs
  <2>3. ASSUME NEW d \in Drones
        PROVE  \/ received'[d] >= CurrentPhase' - 1
               \/ /\ CurrentPhase' = 2 * Played' - 1 /\ Played' > 1
                  /\ d = Sender(Played' - 1)
                  /\ received'[d] = CurrentPhase' - 2
    <3>1. CASE ~Own(d)
      <4>1. received[d] = CurrentPhase
        BY <2>1, <3>1, QuietAtStart
      <4> QED BY <1>2, <2>1, <2>2, <4>1
    <3>2. CASE Own(d)
      <4>1. Played > 0 /\ d = Sender(Played)
        BY <3>2 DEF Own
      <4>2. received[d] >= CurrentPhase - 1
        BY <1>2, <2>2 DEF ReadInv
      <4>3. Played' - 1 = Played /\ CurrentPhase' = 2 * Played' - 1 /\ Played' > 1
        BY <1>2, <2>2, <4>1
      <4> QED BY <1>1, <1>2, <2>1, <2>2, <4>1, <4>2, <4>3
    <3> QED BY <3>1, <3>2
  <2> QED BY <2>3 DEF ReadInv
<1>4. ASSUME NEW h \in Drones, TakeResponseToRoute(h)
      PROVE  ReadInv'
  <2>1. running /\ pc[h] = "resp_wait" /\ response_sem > 0 /\ received' = received
    BY <1>4 DEF TakeResponseToRoute, drone
  <2>2. \A d \in Drones : received[d] = CurrentPhase
    BY <2>1, QuietAtStart
  <2>3. CurrentPhase' = CurrentPhase + 1
    BY <1>4, PhaseStarts
  <2> QED BY <1>2, <2>1, <2>2, <2>3 DEF ReadInv
<1>5. CASE ~TakeResponse /\ \A h \in Drones : ~TakeResponseToRoute(h)
  <2>1. CurrentPhase' = CurrentPhase /\ Played' = Played
    BY <1>5, PhaseStays
  <2>2. ASSUME NEW d \in Drones, Read(d)
        PROVE  ReadInv'
    <3>1. /\ received'[d] = received[d] + 1
          /\ \A e \in Drones \ {d} : received'[e] = received[e]
      BY <2>2, ReadCounts
    <3>2. received'[d] >= CurrentPhase - 1
      BY <1>1, <1>2, <3>1 DEF ReadInv
    <3> QED BY <2>1, <3>1, <3>2 DEF ReadInv
  <2>3. CASE UNCHANGED received
    BY <2>1, <2>3 DEF ReadInv
  <2>4. (\E d \in Drones : Read(d)) \/ UNCHANGED received
    BY
    DEF Next, LogThread, Handler, Drone, Terminated, TakeAllocation, TakeResponse, ScanEntry,
        SendTask, NextTask, PostBroadcast, FinishLog, ReceiveRanging, ReceiveResponse,
        TakeBroadcast, TakeResponseToRoute, RouteEntry, PostAllocation, TxCallBack,
        TakeRxTimestamp, Ignore, DropRanging, ProcessRanging, DroneExit, vars, drone
  <2> QED BY <2>2, <2>3, <2>4
<1> QED BY <1>3, <1>4, <1>5

(* The answer of a drone is where its reading of the phase puts it: nobody *)
(* answers twice, and the sender's handler keeps the ranging message until *)
(* the answers to the lines are in.                                        *)
LEMMA AnswerKeeps ==
  ASSUME IInv, [Next]_vars
  PROVE  AnswerInv'
<1> SUFFICES ASSUME running' PROVE AnswerInv'
  BY DEF AnswerInv
<1> USE DEF IInv
<1>1. running
  BY DEF Next, LogThread, Handler, Drone, Terminated, TakeAllocation, TakeResponse, ScanEntry,
         SendTask, NextTask, PostBroadcast, FinishLog, ReceiveRanging, ReceiveResponse,
         TakeBroadcast, TakeResponseToRoute, RouteEntry, PostAllocation, TxCallBack,
         TakeRxTimestamp, Ignore, DropRanging, ProcessRanging, DroneExit, vars
<1>2. \A d \in Drones : received[d] \in Nat /\ received[d] <= CurrentPhase
  BY ReadBound
<1>3. CurrentPhase \in Nat /\ Played \in Nat /\ CurrentPhase \in {2 * Played - 1, 2 * Played}
  BY PhaseType
<1>4. \A d \in Drones : IF Own(d) THEN SenderInv(d) ELSE ReceiverInv(d)
  BY <1>1 DEF AnswerInv
<1>5. CASE TakeResponse
  <2>1. /\ log_pc = "resp" /\ response_sem > 0 /\ UNCHANGED <<received, up, pc>>
    BY <1>5 DEF TakeResponse, drone, handler
  <2>2. CurrentPhase' = CurrentPhase + 1
    BY <1>5, PhaseStarts
  <2>3. CurrentPhase' = 2 * Played' - 1 /\ Played' \in Nat
    BY <1>3, <1>5, <2>1, PhaseStarts, PhaseIs
  <2>4. \A d \in Drones : up'[d] = <<>> /\ pc'[d] = "recv" /\ received'[d] < CurrentPhase'
    BY <1>1, <1>2, <1>3, <2>1, <2>2, QuietAtStart
  <2>5. ASSUME NEW d \in Drones
        PROVE  SenderInv(d)' /\ ReceiverInv(d)'
    BY <2>3, <2>4 DEF SenderInv, ReceiverInv
  <2> QED BY <2>5 DEF AnswerInv
<1>6. ASSUME NEW h \in Drones, TakeResponseToRoute(h)
      PROVE  AnswerInv'
  <2>1. /\ pc[h] = "resp_wait" /\ response_sem > 0 /\ UNCHANGED <<received, up, msg>>
        /\ pc' = [pc EXCEPT ![h] = "bcast"]
    BY <1>6 DEF TakeResponseToRoute, drone
  <2>2. CurrentPhase' = CurrentPhase + 1
    BY <1>6, PhaseStarts
  <2>3. CurrentPhase = 2 * Played - 1 /\ Played' = Played
    BY <1>3, <1>6, <2>1, PhaseStarts, PhaseIs
  <2>4. Own(h) /\ msg[h] = RangingOf(h)
    BY <1>1, <2>1, RoutedMessage
  <2>5. \A d \in Drones : up'[d] = <<>>
    BY <1>1, <2>1, QuietAtStart
  <2>6. \A d \in Drones : Own(d)' <=> d = h
    BY <2>3, <2>4 DEF Own
  <2>7. \A d \in Drones \ {h} : pc'[d] = "recv"
    <3>1. \A d \in Drones \ {h} : ~Own(d)
      BY <2>4 DEF Own
    <3>2. \A d \in Drones \ {h} : pc[d] = "recv"
      BY <1>4, <3>1 DEF ReceiverInv
    <3> QED BY <2>1, <3>2 DEF TypeOK
  <2>8. SenderInv(h)'
    <3>1. pc'[h] = "bcast" /\ msg'[h] = RangingOf(h)'
      BY <2>1, <2>3, <2>4 DEF TypeOK, RangingOf
    <3>2. CurrentPhase' # 2 * Played' - 1
      BY <1>3, <2>2, <2>3
    <3> QED BY <2>5, <3>1, <3>2 DEF SenderInv
  <2>9. \A d \in Drones \ {h} : ReceiverInv(d)'
    BY <2>5, <2>7 DEF ReceiverInv
  <2> QED BY <2>6, <2>8, <2>9 DEF AnswerInv
<1>7. CASE ~TakeResponse /\ \A h \in Drones : ~TakeResponseToRoute(h)
  <2>1. CurrentPhase' = CurrentPhase /\ Played' = Played
    BY <1>7, PhaseStays
  <2>2. \A d \in Drones : (Own(d)' <=> Own(d)) /\ RangingOf(d)' = RangingOf(d)
    BY <2>1 DEF Own, RangingOf
  <2>3. ASSUME NEW d \in Drones,
               \A e \in Drones \ {d} : /\ pc'[e] = pc[e] /\ msg'[e] = msg[e]
                                       /\ up'[e] = up[e] /\ received'[e] = received[e],
               Own(d) => SenderInv(d)', ~Own(d) => ReceiverInv(d)'
        PROVE  AnswerInv'
    <3>1. ASSUME NEW e \in Drones
          PROVE  IF Own(e)' THEN SenderInv(e)' ELSE ReceiverInv(e)'
      <4>1. CASE e = d
        BY <2>2, <2>3, <4>1
      <4>2. CASE e # d
        BY <1>4, <2>1, <2>2, <2>3, <4>2 DEF SenderInv, ReceiverInv
      <4> QED BY <4>1, <4>2
    <3> QED BY <3>1 DEF AnswerInv
  <2>4. CASE UNCHANGED <<pc, msg, up, received>>
    <3>1. \A d \in Drones : (SenderInv(d)' <=> SenderInv(d)) /\ (ReceiverInv(d)' <=> ReceiverInv(d))
      BY <2>1, <2>2, <2>4 DEF SenderInv, ReceiverInv
    <3> QED BY <1>4, <2>2, <3>1 DEF AnswerInv
  <2>5. ASSUME NEW d \in Drones, ReceiveRanging(d)
        PROVE  AnswerInv'
    <3>1. /\ pc[d] = "recv" /\ up[d] # <<>> /\ Head(up[d]).kind = "RNG"
          /\ up' = [up EXCEPT ![d] = Tail(@)]
          /\ msg' = [msg EXCEPT ![d] = Head(up[d])]
          /\ pc' = [pc EXCEPT ![d] = "bcast_wait"]
          /\ received' = received
      BY <2>5 DEF ReceiveRanging, drone
    <3>2. Own(d)
      BY <1>4, <3>1 DEF ReceiverInv
    <3>3. CurrentPhase = 2 * Played - 1 /\ received[d] = CurrentPhase /\ up[d] = <<RangingOf(d)>>
      BY <1>3, <1>4, <3>1, <3>2 DEF SenderInv
    <3>4. up'[d] = <<>> /\ msg'[d] = RangingOf(d) /\ pc'[d] = "bcast_wait"
      BY <3>1, <3>3 DEF TypeOK
    <3>5. SenderInv(d)'
      BY <1>3, <2>1, <2>2, <3>1, <3>3, <3>4 DEF SenderInv
    <3> QED BY <2>3, <3>1, <3>2, <3>5 DEF TypeOK
  <2>6. ASSUME NEW d \in Drones, ReceiveResponse(d)
        PROVE  AnswerInv'
    <3>1. /\ pc[d] = "recv" /\ up[d] # <<>> /\ Head(up[d]).kind = "ACK"
          /\ up' = [up EXCEPT ![d] = Tail(@)]
          /\ UNCHANGED <<msg, pc, received>>
      BY <2>6 DEF ReceiveResponse, handler, drone
    <3>2. ~Own(d)
      <4> SUFFICES ASSUME Own(d) PROVE FALSE
        OBVIOUS
      <4>1. SenderInv(d)
        BY <1>4
      <4> QED BY <1>3, <3>1, <4>1 DEF SenderInv, RangingOf
    <3>3. Len(up[d]) = 1 /\ up[d] \in Seq(Reply)
      BY <1>4, <3>1, <3>2 DEF ReceiverInv, TypeOK
    <3>4. up'[d] = <<>>
      <4>1. up'[d] = Tail(up[d])
        BY <3>1 DEF TypeOK
      <4>2. Tail(up[d]) \in Seq(Reply) /\ Len(Tail(up[d])) = 0
        BY <3>1, <3>3
      <4> QED BY <4>1, <4>2, EmptySeq
    <3>5. ReceiverInv(d)'
      BY <3>1, <3>4 DEF ReceiverInv
    <3> QED BY <2>3, <3>1, <3>2, <3>5 DEF TypeOK
  <2>7. ASSUME NEW d \in Drones, TakeBroadcast(d) \/ PostAllocation(d)
        PROVE  AnswerInv'
    <3>1. /\ UNCHANGED <<msg, up, received>>
          /\ \/ pc[d] = "bcast_wait" /\ pc' = [pc EXCEPT ![d] = "resp_wait"]
             \/ pc[d] = "bcast" /\ pc' = [pc EXCEPT ![d] = "recv"]
      BY <2>7 DEF TakeBroadcast, PostAllocation, drone
    <3>2. Own(d)
      BY <1>4, <3>1 DEF ReceiverInv
    <3>3. SenderInv(d)'
      <4>1. CASE pc[d] = "bcast_wait" /\ pc' = [pc EXCEPT ![d] = "resp_wait"]
        BY <1>3, <1>4, <2>1, <2>2, <3>1, <3>2, <4>1 DEF SenderInv, TypeOK
      <4>2. CASE pc[d] = "bcast" /\ pc' = [pc EXCEPT ![d] = "recv"]
        <5>1. CurrentPhase = 2 * Played
          BY <4>2, PhaseIs
        <5> QED BY <1>3, <1>4, <2>1, <2>2, <3>1, <3>2, <4>2, <5>1 DEF SenderInv, TypeOK
      <4> QED BY <3>1, <4>1, <4>2
    <3> QED BY <2>3, <3>1, <3>2, <3>3 DEF TypeOK
  <2>8. ASSUME NEW d \in Drones, Drone(d)
        PROVE  AnswerInv'
    <3>1. /\ Read(d) /\ UNCHANGED <<pc, msg>>
          /\ \/ received[d] + 1 < CurrentPhase /\ UNCHANGED up
             \/ /\ received[d] + 1 = CurrentPhase /\ Played > 0
                /\ \/ /\ Own(d) /\ CurrentPhase = 2 * Played - 1
                      /\ up' = [up EXCEPT ![d] = Append(@, RangingOf(d))]
                   \/ /\ Own(d) /\ CurrentPhase = 2 * Played
                      /\ UNCHANGED up
                   \/ /\ ~Own(d)
                      /\ up' = [up EXCEPT ![d] = Append(@, Response(d, Played))]
      BY <1>1, <2>8, ReadAnswers DEF center, handler
    <3>2. /\ received'[d] = received[d] + 1
          /\ \A e \in Drones \ {d} : received'[e] = received[e]
      BY <3>1, ReadCounts
    <3>3. \A e \in Drones \ {d} : up'[e] = up[e]
      BY <3>1 DEF TypeOK
    <3>4. CASE Own(d)
      <4> SUFFICES SenderInv(d)'
        BY <2>3, <3>1, <3>2, <3>3, <3>4
      <4>1. SenderInv(d)
        BY <1>4, <3>4
      <4>2. CASE CurrentPhase = 2 * Played - 1
        <5>1. up[d] = <<>> /\ pc[d] = "recv"
          BY <1>2, <1>3, <3>1, <4>1, <4>2 DEF SenderInv
        <5>4. CurrentPhase' # 2 * Played'
          BY <1>3, <2>1, <4>2
        <5>2. CASE received[d] + 1 < CurrentPhase
          <6>1. up'[d] = <<>> /\ pc'[d] = "recv" /\ received'[d] < CurrentPhase'
            BY <1>2, <1>3, <2>1, <3>1, <3>2, <5>1, <5>2
          <6> QED BY <5>4, <6>1 DEF SenderInv
        <5>3. CASE received[d] + 1 = CurrentPhase
          <6>1. up' = [up EXCEPT ![d] = Append(@, RangingOf(d))]
            BY <1>2, <1>3, <3>1, <3>4, <4>2, <5>3
          <6>2. up'[d] = <<RangingOf(d)>>
            BY <5>1, <6>1 DEF TypeOK
          <6>3. received'[d] = CurrentPhase' /\ pc'[d] = "recv" /\ up'[d] = <<RangingOf(d)'>>
            BY <2>1, <2>2, <3>1, <3>2, <5>1, <5>3, <6>2
          <6> QED BY <5>4, <6>3 DEF SenderInv, RangingOf
        <5> QED BY <3>1, <5>2, <5>3
      <4>3. CASE CurrentPhase = 2 * Played
        <5>1. up' = up
          BY <1>3, <3>1, <3>4, <4>3
        <5> QED BY <1>3, <2>1, <2>2, <3>1, <4>1, <4>3, <5>1 DEF SenderInv
      <4> QED BY <1>3, <4>2, <4>3
    <3>5. CASE ~Own(d)
      <4>1. ReceiverInv(d) /\ received[d] # CurrentPhase
        BY <1>2, <1>3, <1>4, <3>1, <3>5
      <4>2. up[d] = <<>> /\ pc[d] = "recv"
        BY <4>1 DEF ReceiverInv
      <4>3. CASE UNCHANGED up
        BY <2>3, <3>1, <3>2, <3>3, <3>5, <4>2, <4>3 DEF ReceiverInv
      <4>4. CASE /\ received[d] + 1 = CurrentPhase /\ Played > 0
                 /\ up' = [up EXCEPT ![d] = Append(@, Response(d, Played))]
        <5>1. up'[d] = <<Response(d, Played)>>
          BY <4>2, <4>4 DEF TypeOK
        <5>2. Len(up'[d]) = 1 /\ Head(up'[d]).kind = "ACK"
          BY <5>1 DEF Response
        <5>3. ReceiverInv(d)'
          BY <2>1, <3>1, <3>2, <4>2, <4>4, <5>2 DEF ReceiverInv
        <5> QED BY <2>3, <3>1, <3>2, <3>3, <3>5, <5>3
      <4> QED BY <3>1, <3>5, <4>3, <4>4
    <3> QED BY <3>4, <3>5
  <2>9. \/ UNCHANGED <<pc, msg, up, received>>
        \/ \E d \in Drones : \/ ReceiveRanging(d) \/ ReceiveResponse(d)
                             \/ TakeBroadcast(d) \/ PostAllocation(d) \/ Drone(d)
    BY <1>7
    DEF Next, LogThread, Handler, Terminated, TakeAllocation, ScanEntry,
        SendTask, NextTask, PostBroadcast, FinishLog, RouteEntry, vars, center, handler, drone
  <2> QED BY <2>4, <2>5, <2>6, <2>7, <2>8, <2>9
<1> QED BY <1>5, <1>6, <1>7

(* In a round there is one receiver less than there are drones; when so    *)
(* many have answered, all have.                                           *)
LEMMA AllReceivers ==
  ASSUME StartInv, Played > 0,
         NEW A, A \subseteq {d \in Drones : ~Own(d)}, Cardinality(A) = NODES_NUM - 1
  PROVE  \A d \in Drones : Own(d) \/ d \in A
<1> DEFINE R == Drones \ {Sender(Played)}
<1>1. RowOf(Played) \in DOMAIN Log
  BY DEF StartInv
<1>2. Sender(Played) \in Drones
  BY <1>1, NodesNum, RecipientType DEF Recipient
<1>3. IsFiniteSet(R) /\ Cardinality(R) = NODES_NUM - 1
  BY <1>2, DronesAssumption, FS_RemoveElement DEF NODES_NUM
<1>4. A \subseteq R
  BY DEF Own
<1>5. A = R
  BY <1>3, <1>4, FS_Subset
<1> QED BY <1>5 DEF Own

(* A step that changes neither the counter nor who is counted *)
LEMMA SameCount ==
  ASSUME IInv, running, UNCHANGED <<response_sem, response_count>>,
         Answered' = Answered, \A d \in Drones : Own(d)' <=> Own(d), Played' = Played
  PROVE  CountInv'
BY DEF IInv, CountInv

(* At the start of a phase nobody has answered.                            *)
LEMMA CountStarts ==
  ASSUME IInv, running, response_sem > 0, response_sem' = response_sem - 1,
         log_pc = "resp" \/ \E h \in Drones : pc[h] = "resp_wait",
         UNCHANGED <<response_count, received>>, CurrentPhase' = CurrentPhase + 1, Played' > 0
  PROVE  CountInv'
<1>1. response_sem' = 0 /\ response_count' = 0
  BY QuietAtStart
<1>2. Answered' = {}
  <2>1. \A d \in Drones : received[d] <= CurrentPhase /\ received[d] \in Nat /\ CurrentPhase \in Nat
    BY ReadBound, PhaseType DEF IInv
  <2>2. \A d \in Drones : received'[d] # CurrentPhase'
    BY <2>1
  <2> QED BY <2>2 DEF Answered
<1> QED BY <1>1, <1>2, FS_EmptySet DEF CountInv

(* The counter counts the answers of the phase; the semaphore is posted    *)
(* when all are in, and not before.                                        *)
LEMMA CountKeeps ==
  ASSUME IInv, [Next]_vars
  PROVE  CountInv'
<1> SUFFICES ASSUME running' PROVE CountInv'
  BY DEF CountInv
<1> USE DEF IInv
<1>1. running
  BY DEF Next, LogThread, Handler, Drone, Terminated, TakeAllocation, TakeResponse, ScanEntry,
         SendTask, NextTask, PostBroadcast, FinishLog, ReceiveRanging, ReceiveResponse,
         TakeBroadcast, TakeResponseToRoute, RouteEntry, PostAllocation, TxCallBack,
         TakeRxTimestamp, Ignore, DropRanging, ProcessRanging, DroneExit, vars
<1>2. \A d \in Drones : received[d] \in Nat /\ received[d] <= CurrentPhase
  BY ReadBound
<1>3. CurrentPhase \in Nat /\ Played \in Nat
  BY PhaseType
<1>4. CASE TakeResponse
  <2>1. Played' > 0
    BY <1>4 DEF TakeResponse, TypeOK, Played
  <2>2. CurrentPhase' = CurrentPhase + 1
    BY <1>4, PhaseStarts
  <2> QED BY <1>1, <1>4, <2>1, <2>2, CountStarts DEF TakeResponse, drone
<1>5. ASSUME NEW h \in Drones, TakeResponseToRoute(h)
      PROVE  CountInv'
  <2>1. pc[h] = "resp_wait" /\ round' = round /\ log_pc' = log_pc
    BY <1>5 DEF TakeResponseToRoute, logVars
  <2>2. Played' > 0
    BY <1>1, <2>1, RoutedMessage DEF Played
  <2>3. CurrentPhase' = CurrentPhase + 1
    BY <1>5, PhaseStarts
  <2> QED BY <1>1, <1>5, <2>1, <2>2, <2>3, CountStarts DEF TakeResponseToRoute, drone
<1>6. CASE ~TakeResponse /\ \A h \in Drones : ~TakeResponseToRoute(h)
  <2>1. CurrentPhase' = CurrentPhase /\ Played' = Played
    BY <1>6, PhaseStays
  <2>2. \A d \in Drones : Own(d)' <=> Own(d)
    BY <2>1 DEF Own
  <2>3. CASE UNCHANGED <<up, received, response_sem, response_count>>
    <3>1. Answered' = Answered
      BY <2>1, <2>2, <2>3 DEF Answered
    <3> QED BY <1>1, <2>1, <2>2, <2>3, <3>1, SameCount
  <2>4. ASSUME NEW d \in Drones, ReceiveRanging(d)
        PROVE  CountInv'
    <3>1. /\ up[d] # <<>> /\ Head(up[d]).kind = "RNG"
          /\ up' = [up EXCEPT ![d] = Tail(@)]
          /\ UNCHANGED <<received, response_sem, response_count>>
      BY <2>4 DEF ReceiveRanging, semaphores, drone
    <3>2. Own(d)
      BY <1>1, <3>1 DEF AnswerInv, ReceiverInv
    <3>3. \A e \in Drones \ {d} : up'[e] = up[e]
      BY <3>1 DEF TypeOK
    <3>4. Answered' = Answered
      BY <2>1, <2>2, <3>1, <3>2, <3>3 DEF Answered
    <3> QED BY <1>1, <2>1, <2>2, <3>1, <3>4, SameCount
  <2>5. ASSUME NEW d \in Drones, ReceiveResponse(d)
        PROVE  CountInv'
    <3>1. /\ up[d] # <<>> /\ Head(up[d]).kind = "ACK"
          /\ up' = [up EXCEPT ![d] = Tail(@)]
          /\ IF response_count + 1 = NODES_NUM - 1
               THEN response_sem' = response_sem + 1 /\ response_count' = 0
               ELSE response_count' = response_count + 1 /\ UNCHANGED response_sem
          /\ UNCHANGED received
      BY <2>5 DEF ReceiveResponse, AllAnswered, drone
    <3>2. ~Own(d)
      <4> SUFFICES ASSUME Own(d) PROVE FALSE
        OBVIOUS
      <4>1. SenderInv(d) /\ CurrentPhase \in {2 * Played - 1, 2 * Played}
        BY <1>1, PhaseType DEF AnswerInv
      <4> QED BY <1>3, <3>1, <4>1 DEF SenderInv, RangingOf
    <3>3. Len(up[d]) = 1 /\ up[d] \in Seq(Reply) /\ received[d] = CurrentPhase /\ Played > 0
      BY <1>1, <3>1, <3>2 DEF AnswerInv, ReceiverInv, TypeOK
    <3>4. up'[d] = <<>> /\ \A e \in Drones \ {d} : up'[e] = up[e]
      <4>1. up'[d] = Tail(up[d]) /\ \A e \in Drones \ {d} : up'[e] = up[e]
        BY <3>1 DEF TypeOK
      <4>2. Tail(up[d]) \in Seq(Reply) /\ Len(Tail(up[d])) = 0
        BY <3>1, <3>3
      <4> QED BY <4>1, <4>2, EmptySeq
    <3>5. d \notin Answered /\ Answered' = Answered \cup {d}
      BY <2>1, <2>2, <3>1, <3>2, <3>3, <3>4 DEF Answered
    <3>6. response_sem = 0 /\ response_count = Cardinality(Answered)
      BY <1>1, <3>2, <3>5 DEF CountInv
    <3>7. IsFiniteSet(Answered)
      BY DronesAssumption, FS_Subset DEF Answered
    <3>8. Cardinality(Answered') = response_count + 1
      BY <3>5, <3>6, <3>7, FS_AddElement
    <3>9. CASE response_count + 1 = NODES_NUM - 1
      <4>1. Answered' \subseteq {e \in Drones : ~Own(e)}
        BY <2>2 DEF Answered
      <4>2. \A e \in Drones : Own(e) \/ e \in Answered'
        BY <3>3, <3>8, <3>9, <4>1, AllReceivers
      <4> QED BY <2>2, <3>1, <3>6, <3>9, <4>2 DEF CountInv
    <3>10. CASE response_count + 1 # NODES_NUM - 1
      BY <2>1, <3>1, <3>3, <3>6, <3>8, <3>10 DEF CountInv
    <3> QED BY <3>9, <3>10
  <2>6. ASSUME NEW d \in Drones, Drone(d)
        PROVE  CountInv'
    <3>1. /\ Read(d) /\ UNCHANGED <<response_sem, response_count>>
          /\ \/ received[d] + 1 < CurrentPhase /\ UNCHANGED up
             \/ /\ received[d] + 1 = CurrentPhase
                /\ \/ /\ Own(d)
                      /\ \/ up' = [up EXCEPT ![d] = Append(@, RangingOf(d))]
                         \/ UNCHANGED up
                   \/ up' = [up EXCEPT ![d] = Append(@, Response(d, Played))]
      BY <1>1, <2>6, ReadAnswers DEF center, semaphores
    <3>2. /\ received'[d] = received[d] + 1
          /\ \A e \in Drones \ {d} : received'[e] = received[e]
      BY <3>1, ReadCounts
    <3>3. \A e \in Drones \ {d} : up'[e] = up[e]
      BY <3>1 DEF TypeOK
    <3>4. received[d] # CurrentPhase
      BY <1>2, <1>3, <3>1
    <3>5. ~Own(d) => received'[d] # CurrentPhase \/ up'[d] # <<>>
      <4>1. CASE received[d] + 1 < CurrentPhase
        BY <1>2, <1>3, <3>2, <4>1
      <4>2. CASE up' = [up EXCEPT ![d] = Append(@, Response(d, Played))]
        <5>1. up'[d] = Append(up[d], Response(d, Played)) /\ up[d] \in Seq(Reply)
          BY <4>2 DEF TypeOK
        <5>2. up'[d] # <<>>
          BY <5>1
        <5> QED BY <5>2
      <4> QED BY <3>1, <4>1, <4>2
    <3>6. Answered' = Answered
      BY <2>1, <2>2, <3>2, <3>3, <3>4, <3>5 DEF Answered
    <3> QED BY <1>1, <2>1, <2>2, <3>1, <3>6, SameCount
  <2>7. \/ UNCHANGED <<up, received, response_sem, response_count>>
        \/ \E d \in Drones : ReceiveRanging(d) \/ ReceiveResponse(d) \/ Drone(d)
    BY <1>6
    DEF Next, LogThread, Handler, Terminated, TakeAllocation, ScanEntry, SendTask, NextTask,
        PostBroadcast, FinishLog, TakeBroadcast, RouteEntry, PostAllocation, vars, center,
        semaphores, drone
  <2> QED BY <2>3, <2>4, <2>5, <2>6, <2>7
<1> QED BY <1>4, <1>5, <1>6

-----------------------------------------------------------------------------
(* The invariant *)

(* Initially nothing is sent, and response_sem stands at one.              *)
LEMMA IInvInit == Init => IInv
<1> SUFFICES ASSUME Init PROVE IInv
  OBVIOUS
<1>1. TypeOK /\ OnePhaseAtATime
  BY TypeInit, PhaseInit
<1>2. /\ running = TRUE /\ round = 0 /\ log_pc = "alloc" /\ allocation_sem = 1
      /\ response_sem = 1 /\ response_count = 0
      /\ \A d \in Drones : /\ pc[d] = "recv" /\ down[d] = <<>> /\ up[d] = <<>>
                           /\ received[d] = 0 /\ alive[d] = TRUE
  BY DEF Init
<1>3. CurrentPhase = 0 /\ Played = 0
  BY <1>2 DEF CurrentPhase, Played
<1>4. \A d \in Drones : ~Own(d) /\ d \in Answered
  BY <1>2, <1>3 DEF Own, Answered
<1>5. TableInv
  BY DEF Init, TableInv
<1>6. StartInv /\ ContentInv /\ ReadInv
  BY <1>2, <1>3 DEF StartInv, ContentInv, ReadInv
<1>7. SentInv
  BY <1>2, <1>3 DEF SentInv, SentTo, Reached
<1>8. AnswerInv /\ CountInv
  BY <1>2, <1>3, <1>4 DEF AnswerInv, CountInv, ReceiverInv
<1> QED BY <1>1, <1>5, <1>6, <1>7, <1>8 DEF IInv

(* The invariant holds in every state.                                     *)
THEOREM RoundsInvariant == Spec => []IInv
<1>1. IInv /\ [Next]_vars => IInv'
  <2> SUFFICES ASSUME IInv, [Next]_vars PROVE IInv'
    OBVIOUS
  <2>1. TypeOK' /\ OnePhaseAtATime'
    BY TypeStep, PhaseStep DEF IInv
  <2> QED BY <2>1, TableKeeps, StartKeeps, SentKeeps, ContentKeeps, ReadKeeps, AnswerKeeps,
             CountKeeps DEF IInv
<1> QED BY <1>1, IInvInit, PTL DEF Spec

(* A ranging message is routed only once every drone has read its line of  *)
(* that round, and the lines of a round are sent only once every receiver  *)
(* of the round before has read its ranging message (center.c:98-99,       *)
(* 187-189).                                                               *)
THEOREM PhasesInStep == Spec => []Barriers
<1>1. IInv => Barriers
  <2> SUFFICES ASSUME IInv PROVE Barriers
    OBVIOUS
  <2> USE DEF IInv
  <2>1. \A d \in Drones : received[d] \in Nat
    BY DEF TypeOK
  <2>2. CurrentPhase \in Nat /\ Played \in Nat
    BY PhaseType
  <2>3. ASSUME NEW h \in Drones, running, pc[h] = "bcast"
        PROVE  msg[h].round = round /\ \A d \in Drones : received[d] >= 2 * round - 1
    <3>1. msg[h] = RangingOf(h) /\ Played = round
      BY <2>3, RoutedMessage
    <3>2. CurrentPhase = 2 * round
      BY <2>3, <3>1, PhaseIs
    <3>3. CurrentPhase # 2 * Played - 1
      BY <2>2, <3>1, <3>2
    <3> QED BY <2>1, <3>1, <3>2, <3>3 DEF ReadInv, RangingOf
  <2>4. ASSUME running, log_pc \in {"scan", "send", "post"}, round > 1
        PROVE  \A d \in Receivers(round - 1) : received[d] >= 2 * (round - 1)
    <3>1. Played = round /\ CurrentPhase = 2 * round - 1
      BY <2>4 DEF CurrentPhase, Played
    <3>2. ASSUME NEW d \in Drones, d # Sender(round - 1)
          PROVE  received[d] >= 2 * (round - 1)
      <4>1. received[d] >= CurrentPhase - 1
        BY <3>1, <3>2 DEF ReadInv
      <4> QED BY <2>1, <2>2, <3>1, <4>1
    <3> QED BY <3>2 DEF Receivers
  <2> QED BY <2>3, <2>4 DEF Barriers
<1> QED BY <1>1, RoundsInvariant, PTL

(* Every drone is sent its own line and the ranging message of each round, *)
(* in order, none twice and none left out (center.c:57-63, 112-150).       *)
THEOREM Delivery == Spec => []DeliveredInOrder
<1>1. IInv => DeliveredInOrder
  BY DEF IInv, ContentInv, MessageInv, DeliveredInOrder
<1> QED BY <1>1, RoundsInvariant, PTL

-----------------------------------------------------------------------------
(* The refinement *)

(* The waits for response_sem start a phase of LogRounds: every drone that *)
(* answers in the phase before has read that one's message.                *)
LEMMA StartRefines ==
  ASSUME IInv, TakeResponse \/ \E h \in Drones : TakeResponseToRoute(h)
  PROVE  Rounds!StartPhase
<1> USE DEF IInv
<1>1. CurrentPhase' = CurrentPhase + 1 /\ received' = received
  BY PhaseStarts DEF TakeResponse, TakeResponseToRoute, drone
<1>2. /\ running /\ response_sem > 0
      /\ log_pc = "resp" \/ \E h \in Drones : pc[h] = "resp_wait"
  BY DEF TakeResponse, TakeResponseToRoute
<1>3. CurrentPhase \in Nat /\ Played \in Nat
  BY PhaseType
<1>4. ASSUME NEW d \in Rounds!Due(CurrentPhase)
      PROVE  received[d] = CurrentPhase
  <2>1. d \in Drones
    BY DEF Rounds!Due
  <2>2. CASE \E h \in Drones : pc[h] = "resp_wait"
    BY <1>2, <2>1, <2>2, QuietAtStart
  <2>3. CASE log_pc = "resp"
    <3>1. CurrentPhase = 2 * Played
      BY <2>3, PhaseIs
    <3>2. Own(d) => CurrentPhase > 0 /\ CurrentPhase % 2 = 0 /\ CurrentPhase \div 2 = Played
      BY <1>3, <3>1 DEF Own
    <3>3. ~Own(d)
      BY <3>2 DEF Own, Rounds!Due
    <3> QED BY <1>2, <2>1, <2>3, <3>3, QuietAtStart
  <2> QED BY <1>2, <2>2, <2>3
<1> QED BY <1>1, <1>4 DEF Rounds!StartPhase

(* The threads and semaphores of the center and the drones implement the   *)
(* lock-step rounds of LogRounds: each step is the start of a phase, one   *)
(* drone's reading of the next message, or invisible there.                *)
THEOREM RoundsImplemented == Spec => ImplementsRounds
<1>1. Init => Rounds!Init
  <2> SUFFICES ASSUME Init PROVE Rounds!Init
    OBVIOUS
  <2>1. received = [d \in Drones |-> 0] /\ log_pc = "alloc" /\ allocation_sem = 1 /\ round = 0
    BY DEF Init
  <2>2. CurrentPhase = 0
    BY <2>1 DEF CurrentPhase
  <2> QED BY <2>1, <2>2 DEF Rounds!Init
<1>2. IInv /\ [Next]_vars => [Rounds!Next]_<<CurrentPhase, received>>
  <2> SUFFICES ASSUME IInv, [Next]_vars
               PROVE  Rounds!Next \/ (CurrentPhase' = CurrentPhase /\ received' = received)
    OBVIOUS
  <2> USE DEF IInv
  <2>1. CASE TakeResponse \/ \E h \in Drones : TakeResponseToRoute(h)
    BY <2>1, StartRefines DEF Rounds!Next
  <2>2. CASE ~(TakeResponse \/ \E h \in Drones : TakeResponseToRoute(h))
    <3>1. CurrentPhase' = CurrentPhase
      BY <2>2, PhaseStays
    <3>2. ASSUME NEW d \in Drones, Read(d)
          PROVE  Rounds!ReadMessage(d)
      <4>1. received[d] < CurrentPhase
        BY <3>2, ReadBound DEF Read
      <4> QED BY <3>1, <3>2, <4>1 DEF Read, Rounds!ReadMessage
    <3>3. (\E d \in Drones : Read(d)) \/ UNCHANGED received
      BY
      DEF Next, LogThread, Handler, Drone, Terminated, TakeAllocation, TakeResponse, ScanEntry,
          SendTask, NextTask, PostBroadcast, FinishLog, ReceiveRanging, ReceiveResponse,
          TakeBroadcast, TakeResponseToRoute, RouteEntry, PostAllocation, TxCallBack,
          TakeRxTimestamp, Ignore, DropRanging, ProcessRanging, DroneExit, vars, drone
    <3> QED BY <3>1, <3>2, <3>3 DEF Rounds!Next
  <2> QED BY <2>1, <2>2
<1> QED BY <1>1, <1>2, RoundsInvariant, PTL DEF Spec, ImplementsRounds, Rounds!Spec, Rounds!vars

-----------------------------------------------------------------------------
(* The reception times *)

(* From its line of a round to the round's ranging message a receiver      *)
(* keeps the reception time of that round.                                 *)
StampInv ==
  \A d \in Drones : \A m \in Nat \ {0} :
    received[d] = 2 * m - 1 /\ d # Sender(m) => RxTimestamp[d] = Stamp(m, d)

(* The first unread message of a drone is the line of the next round, or   *)
(* the ranging message of the round whose line it has read.                *)
LEMMA HeadMessage ==
  ASSUME IInv, NEW d \in Drones, down[d] # <<>>
  PROVE  LET m == Head(down[d])
         IN  /\ m.round \in Nat \ {0} /\ RowOf(m.round) \in DOMAIN Log
             /\ Number(m) = received[d] + 1
             /\ m.kind = "RNG" => received[d] = 2 * m.round - 1 /\ m.addr = Sender(m.round)
             /\ m.kind # "RNG" => /\ received[d] = 2 * m.round - 2 /\ m.addr = d
                                  /\ (m.kind = "TX" <=> d = Sender(m.round))
<1> DEFINE m == Head(down[d])
<1>1. m \in Message /\ m = down[d][1] /\ 1 \in 1..Len(down[d]) /\ received[d] \in Nat
  BY DEF IInv, TypeOK
<1>2. MessageInv(d, 1, m)
  BY <1>1 DEF IInv, ContentInv
<1>3. m.round \in Nat
  BY <1>1 DEF Message
<1> HIDE DEF m
<1>4. /\ Number(m) = received[d] + 1
      /\ m.round \in Nat \ {0} /\ RowOf(m.round) \in DOMAIN Log
      /\ IF m.kind = "RNG" THEN m.addr = Sender(m.round)
                           ELSE m.addr = d /\ (m.kind = "TX" <=> d = Sender(m.round))
  BY <1>2, <1>3 DEF MessageInv
<1>5. /\ m.kind = "RNG" => received[d] = 2 * m.round - 1
      /\ m.kind # "RNG" => received[d] = 2 * m.round - 2
  BY <1>1, <1>3, <1>4 DEF Number
<1> QED BY <1>4, <1>5 DEF m

(* Only the line of a round sets the reception time, to that round's.      *)
LEMMA StampKeeps ==
  ASSUME IInv, StampInv, [Next]_vars
  PROVE  StampInv'
<1>1. \A d \in Drones : received[d] \in Nat
  BY DEF IInv, TypeOK
<1>2. ASSUME NEW d \in Drones, Read(d),
             \A e \in Drones \ {d} : RxTimestamp'[e] = RxTimestamp[e],
             \A m \in Nat \ {0} :
               received[d] + 1 = 2 * m - 1 /\ d # Sender(m) => RxTimestamp'[d] = Stamp(m, d)
      PROVE  StampInv'
  <2>1. received'[d] = received[d] + 1 /\ \A e \in Drones \ {d} : received'[e] = received[e]
    BY <1>2, ReadCounts DEF IInv
  <2>2. ASSUME NEW e \in Drones, NEW m \in Nat \ {0},
               received'[e] = 2 * m - 1, e # Sender(m)
        PROVE  RxTimestamp'[e] = Stamp(m, e)
    <3>1. CASE e = d
      BY <1>2, <2>1, <2>2, <3>1
    <3>2. CASE e # d
      BY <1>2, <2>1, <2>2, <3>2 DEF StampInv
    <3> QED BY <3>1, <3>2
  <2> QED BY <2>2 DEF StampInv, Stamp
<1>3. ASSUME NEW d \in Drones, TakeRxTimestamp(d)
      PROVE  StampInv'
  <2> DEFINE h == Head(down[d])
  <2>1. /\ Read(d) /\ down[d] # <<>> /\ h.kind = "RX"
        /\ RxTimestamp' = [RxTimestamp EXCEPT ![d] = Stamp(h.round, d)]
    BY <1>3 DEF TakeRxTimestamp, Read
  <2>2. h.round \in Nat \ {0} /\ received[d] = 2 * h.round - 2
    BY <2>1, HeadMessage
  <2> HIDE DEF h
  <2>3. \A m \in Nat \ {0} : received[d] + 1 = 2 * m - 1 => m = h.round
    BY <1>1, <2>2
  <2>4. RxTimestamp'[d] = Stamp(h.round, d) /\ \A e \in Drones \ {d} : RxTimestamp'[e] = RxTimestamp[e]
    BY <2>1 DEF IInv, TypeOK
  <2> QED BY <1>2, <2>1, <2>3, <2>4
<1>4. ASSUME NEW d \in Drones, TxCallBack(d)
      PROVE  StampInv'
  <2> DEFINE h == Head(down[d])
  <2>1. Read(d) /\ down[d] # <<>> /\ h.kind = "TX" /\ RxTimestamp' = RxTimestamp
    BY <1>4 DEF TxCallBack, Read
  <2>2. h.round \in Nat \ {0} /\ received[d] = 2 * h.round - 2 /\ d = Sender(h.round)
    BY <2>1, HeadMessage
  <2> HIDE DEF h
  <2>3. \A m \in Nat \ {0} : received[d] + 1 = 2 * m - 1 => m = h.round
    BY <1>1, <2>2
  <2> QED BY <1>2, <2>1, <2>2, <2>3
<1>5. ASSUME NEW d \in Drones, Ignore(d) \/ DropRanging(d) \/ ProcessRanging(d)
      PROVE  StampInv'
  <2> DEFINE h == Head(down[d])
  <2>1. /\ Read(d) /\ down[d] # <<>>
        /\ h.kind # "RNG" => h.addr # d
        /\ RxTimestamp' = RxTimestamp \/ RxTimestamp' = [RxTimestamp EXCEPT ![d] = 0]
    BY <1>5 DEF Ignore, DropRanging, ProcessRanging, Read
  <2>2. h.round \in Nat \ {0} /\ received[d] = 2 * h.round - 1
    BY <2>1, HeadMessage
  <2> HIDE DEF h
  <2>3. \A m \in Nat \ {0} : received[d] + 1 # 2 * m - 1
    BY <1>1, <2>2
  <2>4. \A e \in Drones \ {d} : RxTimestamp'[e] = RxTimestamp[e]
    BY <2>1 DEF IInv, TypeOK
  <2> QED BY <1>2, <2>1, <2>3, <2>4
<1>6. CASE UNCHANGED <<received, RxTimestamp>>
  BY <1>6 DEF StampInv, Stamp
<1> QED
  BY <1>3, <1>4, <1>5, <1>6
  DEF Next, LogThread, Handler, Drone, Terminated, TakeAllocation, TakeResponse, ScanEntry,
      SendTask, NextTask, PostBroadcast, FinishLog, ReceiveRanging, ReceiveResponse,
      TakeBroadcast, TakeResponseToRoute, RouteEntry, PostAllocation, DroneExit, vars, drone

(* RxCallBack processes a ranging message with the reception time of the   *)
(* very round of the message (drone.c:175, 266).                           *)
LEMMA StampOfMessage ==
  ASSUME IInv, StampInv, NEW d \in Drones, down[d] # <<>>,
         Head(down[d]).kind = "RNG", Head(down[d]).addr # d
  PROVE  /\ RxTimestamp[d] = Stamp(Head(down[d]).round, d)
         /\ d # Sender(Head(down[d]).round)
<1> DEFINE h == Head(down[d])
<1>1. h.round \in Nat \ {0} /\ received[d] = 2 * h.round - 1 /\ d # Sender(h.round)
  BY HeadMessage
<1> HIDE DEF h
<1>2. RxTimestamp[d] = Stamp(h.round, d)
  BY <1>1 DEF StampInv
<1> QED BY <1>1, <1>2 DEF h

(* The reception time that is used is never one left over from another     *)
(* round, for any log and any number of drones (drone.c:175, 266).         *)
THEOREM StampsMatch == Spec => []StampMatchesMessage
<1>1. Init => StampInv
  <2> SUFFICES ASSUME Init, NEW d \in Drones, NEW m \in Nat \ {0}
               PROVE  received[d] # 2 * m - 1
    BY DEF StampInv
  <2> QED BY DEF Init
<1>2. IInv /\ StampInv /\ [Next]_vars => StampInv'
  BY StampKeeps
<1>3. IInv /\ StampInv => StampMatchesMessage
  BY StampOfMessage DEF StampMatchesMessage
<1> QED BY <1>1, <1>2, <1>3, RoundsInvariant, PTL DEF Spec

-----------------------------------------------------------------------------
(* The row cursor *)

(* A nonempty set of natural numbers has a least element.                  *)
LEMMA LeastNatural ==
  ASSUME NEW T, T \subseteq Nat, T # {}
  PROVE  \E x \in T : \A y \in T : x <= y
<1> DEFINE R == OpToRel(<, Nat)
<1>1. IsWellFoundedOn(R, Nat)
  BY NatLessThanWellFounded
<1>2. \A x, y \in Nat : y < x => <<y, x>> \in R
  BY DEF OpToRel
<1> HIDE DEF R
<1>3. PICK x \in T : \A y \in T : ~(<<y, x>> \in R)
  BY <1>1, WFMin
<1>4. \A y \in T : x \in Nat /\ y \in Nat /\ ~(y < x)
  BY <1>2, <1>3
<1>5. \A y \in T : x <= y
  BY <1>4
<1> QED BY <1>5

(* Blocks of N consecutive numbers, spread to a distance b >= N, keep      *)
(* their order.                                                            *)
LEMMA BlocksInOrder ==
  ASSUME NEW b \in Nat, NEW N \in Nat \ {0}, NEW k \in Nat, b >= N
  PROVE  (k \div N) * b + (k % N) < ((k + 1) \div N) * b + ((k + 1) % N)
<1> DEFINE q == k \div N
           r == k % N
           p == (k + 1) \div N
           s == (k + 1) % N
<1>1. /\ q \in Nat /\ p \in Nat /\ r \in 0..(N - 1) /\ s \in 0..(N - 1)
      /\ k = N * q + r /\ k + 1 = N * p + s
  OBVIOUS
<1> HIDE DEF q, p, r, s
<1>2. p >= q
  <2> SUFFICES ASSUME p + 1 <= q PROVE FALSE
    BY <1>1
  <2>1. N * (p + 1) <= N * q
    BY <1>1
  <2>2. N * (p + 1) = N * p + N
    BY <1>1
  <2> QED BY <1>1, <2>1, <2>2
<1>3. CASE p = q
  BY <1>1, <1>3 DEF q, p, r, s
<1>4. CASE p >= q + 1
  <2>1. p * b >= (q + 1) * b
    BY <1>1, <1>4
  <2>2. (q + 1) * b = q * b + b /\ q * b \in Int /\ p * b \in Int
    BY <1>1
  <2>3. q * b + r < p * b + s
    BY <1>1, <2>1, <2>2
  <2> QED BY <2>3 DEF q, p, r, s
<1> QED BY <1>1, <1>2, <1>3, <1>4

(* The rows are played in the order of the log.                            *)
LEMMA RowsInOrder ==
  ASSUME NEW n \in Nat \ {0}
  PROVE  RowOf(n) < RowOf(n + 1)
<1> DEFINE b == NODES_NUM * RANGING_PERIOD_RATE
           k == n - 1
<1>1. NODES_NUM \in Nat \ {0} /\ RANGING_PERIOD_RATE \in Nat \ {0} /\ k \in Nat
  BY NodesNum, RateAssumption
<1>2. b \in Nat /\ b >= NODES_NUM
  BY <1>1
<1>3. /\ RowOf(n) = (k \div NODES_NUM) * b + (k % NODES_NUM) + 1
      /\ RowOf(n + 1) = ((k + 1) \div NODES_NUM) * b + ((k + 1) % NODES_NUM) + 1
  BY DEF RowOf
<1> HIDE DEF b, k
<1>4. (k \div NODES_NUM) * b + (k % NODES_NUM)
        < ((k + 1) \div NODES_NUM) * b + ((k + 1) % NODES_NUM)
  BY <1>1, <1>2, BlocksInOrder
<1>5. RowOf(n) \in Int /\ RowOf(n + 1) \in Int
  BY RowInt
<1>6. (k \div NODES_NUM) * b \in Int /\ ((k + 1) \div NODES_NUM) * b \in Int
  BY <1>1, <1>2
<1>7. k % NODES_NUM \in Int /\ (k + 1) % NODES_NUM \in Int
  BY <1>1
<1> QED BY <1>3, <1>4, <1>5, <1>6, <1>7

(* The first receiver column names the drone in every loaded row that      *)
(* another one sends.                                                      *)
FirstColumn(d) == \A r \in 1..total_rows : d # Log[r].tx => Log[r].rx[1] = d

(* Such a drone's cursor, after the ranging message of round m, is at or   *)
(* before every later row of another drone that is loaded.                 *)
CursorInv ==
  \A d \in Drones : FirstColumn(d) =>
    \A m \in Nat : received[d] \in {2 * m, 2 * m + 1} =>
      \A j \in Loaded :
        d # Log[j].tx /\ (m > 0 => j > RowOf(m)) => csv_pos[d] <= j

(* get_next_RxTimestamp finds row r and goes to the next row of the drone. *)
LEMMA CursorFinds ==
  ASSUME NEW d \in Drones, FirstColumn(d), csv_pos[d] \in Nat,
         NEW r \in Loaded, d # Log[r].tx, d \in Log[r].heard, csv_pos[d] <= r
  PROVE  /\ CursorMatches(d, r) = {r}
         /\ \A j \in Loaded : d # Log[j].tx /\ j > r => NextCursor(d, r) <= j
<1>1. Loaded \subseteq Nat \ {0} /\ Log[r].rx[1] = d
  BY LoadedRows DEF FirstColumn, Loaded
<1>2. CursorMatches(d, r) = {r}
  BY <1>1 DEF CursorMatches, FirstColumnRows, Loaded
<1>3. ASSUME NEW j \in Loaded, d # Log[j].tx, j > r
      PROVE  NextCursor(d, r) <= j
  <2> DEFINE T == FirstColumnRows(d, r + 1)
             c == CHOOSE x \in Loaded : IsNextRow(d, r, x)
  <2>1. j \in T /\ T \subseteq Nat /\ T \subseteq Loaded
    BY <1>1, <1>3 DEF FirstColumnRows, FirstColumn, Loaded
  <2>2. \A x \in Loaded : IsNextRow(d, r, x) <=> x \in T /\ \A y \in T : x <= y
    BY <1>1, <1>2 DEF IsNextRow
  <2> HIDE DEF T
  <2>3. PICK x \in T : \A y \in T : x <= y
    BY <2>1, LeastNatural
  <2>4. \E y \in Loaded : IsNextRow(d, r, y)
    BY <2>1, <2>2, <2>3
  <2>5. c \in Loaded /\ IsNextRow(d, r, c)
    BY <2>4
  <2>6. c <= j
    BY <2>1, <2>2, <2>5
  <2> QED BY <2>4, <2>6 DEF NextCursor, Loaded
<1> QED BY <1>2, <1>3

(* The cursor of such a drone is at or before the row of the message that  *)
(* it processes.                                                           *)
LEMMA CursorAtMessage ==
  ASSUME IInv, StampInv, CursorInv, NEW d \in Drones, FirstColumn(d), down[d] # <<>>,
         Head(down[d]).kind = "RNG", Head(down[d]).addr # d, RxTimestamp[d] # 0
  PROVE  LET r == RowOf(Head(down[d]).round)
         IN  /\ r \in DOMAIN Log /\ d # Log[r].tx /\ d \in Log[r].heard
             /\ RxTimestamp[d] = r /\ (r \in Loaded => csv_pos[d] <= r)
<1> DEFINE m == Head(down[d]).round
<1>1. /\ m \in Nat \ {0} /\ RowOf(m) \in DOMAIN Log /\ received[d] = 2 * m - 1
      /\ RxTimestamp[d] = Stamp(m, d) /\ d # Sender(m)
  BY HeadMessage, StampOfMessage
<1> HIDE DEF m
<1>2. d # Log[RowOf(m)].tx /\ d \in Log[RowOf(m)].heard /\ RxTimestamp[d] = RowOf(m)
  BY <1>1 DEF Sender, Stamp
<1>3. m - 1 \in Nat /\ received[d] \in {2 * (m - 1), 2 * (m - 1) + 1}
  BY <1>1
<1>4. m - 1 > 0 => RowOf(m) > RowOf(m - 1)
  <2> SUFFICES ASSUME m - 1 > 0 PROVE RowOf(m) > RowOf(m - 1)
    OBVIOUS
  <2>1. m - 1 \in Nat \ {0} /\ (m - 1) + 1 = m
    BY <1>1
  <2>2. RowOf(m - 1) < RowOf((m - 1) + 1)
    BY <2>1, RowsInOrder
  <2>3. RowOf(m) \in Int /\ RowOf(m - 1) \in Int
    BY <1>1, <1>3, RowInt
  <2> QED BY <2>1, <2>2, <2>3
<1>5. RowOf(m) \in Loaded => csv_pos[d] <= RowOf(m)
  BY <1>1, <1>2, <1>3, <1>4 DEF CursorInv
<1> QED BY <1>1, <1>2, <1>5 DEF m

(* The cursor never passes a row that is still to be played.               *)
LEMMA CursorKeeps ==
  ASSUME IInv, StampInv, CursorInv, [Next]_vars
  PROVE  CursorInv'
<1>1. \A d \in Drones : received[d] \in Nat /\ csv_pos[d] \in Nat
  BY LoadedRows DEF IInv, TypeOK
<1>2. ASSUME NEW d \in Drones, Read(d), FirstColumn(d),
             NEW m \in Nat, received'[d] \in {2 * m, 2 * m + 1},
             NEW j \in Loaded, d # Log[j].tx, m > 0 => j > RowOf(m),
             \/ csv_pos'[d] = csv_pos[d]
             \/ ProcessRanging(d)
      PROVE  csv_pos'[d] <= j
  <2> DEFINE h == Head(down[d])
  <2>1. received'[d] = received[d] + 1 /\ down[d] # <<>>
    BY <1>2, ReadCounts DEF IInv, Read
  <2>2. CASE received'[d] = 2 * m + 1
    <3>1. received[d] = 2 * m
      BY <1>1, <2>1, <2>2
    <3>2. csv_pos[d] <= j
      BY <1>2, <3>1 DEF CursorInv
    <3>3. h.kind # "RNG"
      <4> SUFFICES ASSUME h.kind = "RNG" PROVE FALSE
        OBVIOUS
      <4>1. h.round \in Nat \ {0} /\ received[d] = 2 * h.round - 1
        BY <2>1, HeadMessage
      <4> HIDE DEF h
      <4> QED BY <3>1, <4>1
    <3>4. csv_pos'[d] = csv_pos[d]
      BY <1>2, <3>3 DEF ProcessRanging
    <3> QED BY <3>2, <3>4
  <2>3. CASE received'[d] = 2 * m
    <3>1. received[d] = 2 * m - 1 /\ m > 0 /\ m - 1 \in Nat
      BY <1>1, <2>1, <2>3
    <3>2. j > RowOf(m) /\ RowOf(m) \in Int /\ RowOf(m - 1) \in Int /\ j \in Int
      BY <1>2, <3>1, RowInt, LoadedRows
    <3>3. CASE csv_pos'[d] = csv_pos[d]
      <4>1. m - 1 > 0 => RowOf(m - 1) < RowOf(m)
        <5> SUFFICES ASSUME m - 1 > 0 PROVE RowOf(m - 1) < RowOf(m)
          OBVIOUS
        <5>1. m - 1 \in Nat \ {0} /\ (m - 1) + 1 = m
          BY <3>1
        <5> QED BY <5>1, RowsInOrder
      <4>2. m - 1 > 0 => j > RowOf(m - 1)
        BY <3>2, <4>1
      <4>3. received[d] \in {2 * (m - 1), 2 * (m - 1) + 1}
        BY <3>1
      <4>4. csv_pos[d] <= j
        BY <1>2, <3>1, <4>2, <4>3 DEF CursorInv
      <4> QED BY <3>3, <4>4
    <3>4. CASE ProcessRanging(d)
      <4>1. /\ h.kind = "RNG" /\ h.addr # d /\ RxTimestamp[d] # 0
            /\ csv_pos'[d] = NextCursor(d, RxTimestamp[d])
        BY <3>4 DEF ProcessRanging, IInv, TypeOK
      <4>2. h.round \in Nat \ {0} /\ received[d] = 2 * h.round - 1
        BY <2>1, <4>1, HeadMessage
      <4>3. /\ RowOf(h.round) \in DOMAIN Log /\ d # Log[RowOf(h.round)].tx
            /\ d \in Log[RowOf(h.round)].heard
            /\ RxTimestamp[d] = RowOf(h.round)
            /\ RowOf(h.round) \in Loaded => csv_pos[d] <= RowOf(h.round)
        BY <1>2, <2>1, <4>1, CursorAtMessage
      <4> HIDE DEF h
      <4>4. h.round = m
        BY <3>1, <4>2
      <4>5. RowOf(m) \in Loaded
        BY <1>2, <3>2, <4>3, <4>4, LoadedRows
      <4>6. NextCursor(d, RowOf(m)) <= j
        BY <1>1, <1>2, <3>2, <4>3, <4>4, <4>5, CursorFinds
      <4> QED BY <4>1, <4>3, <4>4, <4>6
    <3> QED BY <1>2, <3>3, <3>4
  <2> QED BY <1>2, <2>2, <2>3
<1>3. ASSUME NEW d \in Drones, Read(d),
             csv_pos' = csv_pos \/ ProcessRanging(d)
      PROVE  CursorInv'
  <2>1. \A e \in Drones \ {d} : received'[e] = received[e] /\ csv_pos'[e] = csv_pos[e]
    BY <1>3, ReadCounts DEF IInv, TypeOK, ProcessRanging
  <2>2. ASSUME NEW e \in Drones, FirstColumn(e),
               NEW m \in Nat, received'[e] \in {2 * m, 2 * m + 1},
               NEW j \in Loaded, e # Log[j].tx, m > 0 => j > RowOf(m)
        PROVE  csv_pos'[e] <= j
    <3>1. CASE e = d
      BY <1>2, <1>3, <2>2, <3>1
    <3>2. CASE e # d
      BY <2>1, <2>2, <3>2 DEF CursorInv
    <3> QED BY <3>1, <3>2
  <2> QED BY <2>2 DEF CursorInv, FirstColumn
<1>4. CASE UNCHANGED <<received, csv_pos>>
  BY <1>4 DEF CursorInv
<1>5. \/ \E d \in Drones : Read(d) /\ (csv_pos' = csv_pos \/ ProcessRanging(d))
      \/ UNCHANGED <<received, csv_pos>>
  BY
  DEF Next, LogThread, Handler, Drone, Terminated, TakeAllocation, TakeResponse, ScanEntry,
      SendTask, NextTask, PostBroadcast, FinishLog, ReceiveRanging, ReceiveResponse,
      TakeBroadcast, TakeResponseToRoute, RouteEntry, PostAllocation, TxCallBack,
      TakeRxTimestamp, Ignore, DropRanging, ProcessRanging, DroneExit, vars, drone
<1> QED BY <1>3, <1>4, <1>5

(* For a drone that the first receiver column names in every loaded row of *)
(* another drone, the look-up of the next reception time finds the row it  *)
(* is asked about if that row was loaded, whatever the log, the number of  *)
(* rows a drone loads and the replay rate (drone.c:37-58, 89-110).         *)
THEOREM CursorOnRow == Spec => []CursorFindsRow
<1>1. Init => StampInv /\ CursorInv
  <2> SUFFICES ASSUME Init PROVE StampInv /\ CursorInv
    OBVIOUS
  <2>1. \A d \in Drones : received[d] = 0 /\ csv_pos[d] = 1
    BY DEF Init
  <2>2. StampInv
    BY <2>1 DEF StampInv
  <2>3. CursorInv
    BY <2>1, LoadedRows DEF CursorInv
  <2> QED BY <2>2, <2>3
<1>2. IInv /\ StampInv /\ CursorInv /\ [Next]_vars => StampInv' /\ CursorInv'
  BY StampKeeps, CursorKeeps
<1>3. IInv /\ StampInv /\ CursorInv => CursorFindsRow
  <2> SUFFICES ASSUME IInv, StampInv, CursorInv, NEW d \in Drones, FirstColumn(d),
                      down[d] # <<>>, Head(down[d]).kind = "RNG", Head(down[d]).addr # d,
                      RxTimestamp[d] \in Loaded
               PROVE  CursorMatches(d, RxTimestamp[d]) # {}
    BY DEF CursorFindsRow, FirstColumn, Loaded
  <2> DEFINE r == RowOf(Head(down[d]).round)
  <2>1. /\ r \in Loaded /\ d # Log[r].tx /\ d \in Log[r].heard
        /\ RxTimestamp[d] = r /\ csv_pos[d] <= r
    BY CursorAtMessage, LoadedRows
  <2>2. csv_pos[d] \in Nat
    BY LoadedRows DEF IInv, TypeOK
  <2> HIDE DEF r
  <2>3. CursorMatches(d, r) = {r}
    BY <2>1, <2>2, CursorFinds
  <2> QED BY <2>1, <2>3
<1> QED BY <1>1, <1>2, <1>3, RoundsInvariant, PTL DEF Spec

-----------------------------------------------------------------------------
(* Drones that end (FlightLogFaults)                                       *)

(* The handler whose drone is being taken out of the table *)
Inside(d) == pc[d] \in {"shift", "drop"}

(* The drones the table should hold: those not yet removed, without the    *)
(* one that is being removed *)
Kept == {d \in Drones : pc[d] # "closed" /\ d # mutex}

(* The places of the entries that stay: all but the one being overwritten  *)
Staying ==
  IF mutex = NoNode THEN 1..count
  ELSE IF pc[mutex] = "shift" THEN (1..count) \ {pos[mutex]}
  ELSE 1..(count - 1)

MutexInv ==
  /\ mutex \in Drones \cup {NoNode}
  /\ \A d \in Drones : Inside(d) <=> mutex = d
  /\ mutex # NoNode => count > 0
  /\ mutex # NoNode /\ pc[mutex] = "shift" => pos[mutex] \in 1..count

(* The entries that stay are the drones that stay, each once; the rest of  *)
(* the table is clear.                                                     *)
EntriesInv ==
  /\ \A i \in Staying : node[i] \in Kept
  /\ \A d \in Kept : \E i \in Staying : node[i] = d
  /\ \A i, j \in Staying : node[i] = node[j] => i = j
  /\ \A i \in 1..NODES_NUM : i > count => node[i] = NoNode
  /\ mutex # NoNode /\ pc[mutex] = "drop" => node[count] = NoNode

FaultInv == TypeOK /\ OnePhaseAtATime /\ MutexInv /\ EntriesInv

-----------------------------------------------------------------------------

(* Initially the table holds every drone.                                  *)
LEMMA FaultInvInit == FaultInit => FaultInv
<1> SUFFICES ASSUME FaultInit PROVE FaultInv
  OBVIOUS
<1>1. TypeOK /\ OnePhaseAtATime
  BY TypeInit, PhaseInit DEF FaultInit
<1>2. /\ mutex = NoNode /\ count = NODES_NUM /\ node \in Registrations
      /\ \A d \in Drones : pc[d] = "recv"
  BY DEF FaultInit, Init
<1>3. MutexInv
  BY <1>2, NoNodeAssumption DEF MutexInv, Inside
<1>4. Staying = 1..NODES_NUM /\ Kept = Drones
  BY <1>2, NoNodeAssumption DEF Staying, Kept
<1>5. EntriesInv
  BY <1>2, <1>4, NodesNum DEF EntriesInv, Registrations
<1> QED BY <1>1, <1>3, <1>5 DEF FaultInv

(* A step that neither writes the table nor moves a removal on             *)
LEMMA SameTable ==
  ASSUME FaultInv, UNCHANGED <<table, mutex>>,
         \A d \in Drones : \A l \in {"shift", "drop", "closed"} : pc'[d] = l <=> pc[d] = l,
         \A d \in Drones : pc[d] = "shift" => pos'[d] = pos[d]
  PROVE  MutexInv' /\ EntriesInv'
<1> USE DEF FaultInv, MutexInv
<1>1. count' = count /\ node' = node /\ mutex' = mutex
  BY DEF table
<1>2. MutexInv'
  BY <1>1 DEF Inside
<1>3. Staying' = Staying
  BY <1>1 DEF Staying, Inside
<1>4. Kept' = Kept
  BY <1>1 DEF Kept
<1>5. mutex # NoNode => (pc'[mutex] = "drop" <=> pc[mutex] = "drop")
  OBVIOUS
<1> QED BY <1>1, <1>2, <1>3, <1>4, <1>5 DEF EntriesInv

(* A step of the replay itself keeps the invariant.                        *)
LEMMA ReplayStep ==
  ASSUME FaultInv, Next, UNCHANGED mutex
  PROVE  FaultInv'
<1> USE DEF FaultInv
<1>1. TypeOK' /\ OnePhaseAtATime'
  BY TypeStep, PhaseStep
<1>2. UNCHANGED table
  BY DEF Next, LogThread, Handler, Drone, Terminated, TakeAllocation, TakeResponse, ScanEntry,
         SendTask, NextTask, PostBroadcast, FinishLog, ReceiveRanging, ReceiveResponse,
         TakeBroadcast, TakeResponseToRoute, RouteEntry, PostAllocation, TxCallBack,
         TakeRxTimestamp, Ignore, DropRanging, ProcessRanging, DroneExit, vars, center
<1>3. ASSUME NEW d \in Drones, Handler(d)
      PROVE  /\ \A e \in Drones : \A l \in {"shift", "drop", "closed"} : pc'[e] = l <=> pc[e] = l
             /\ \A e \in Drones : pc[e] = "shift" => pos'[e] = pos[e]
  <2>1. /\ pc[d] \notin {"shift", "drop", "closed"}
        /\ pc' = pc \/ \E l \in {"recv", "bcast_wait", "resp_wait", "bcast"} :
                         pc' = [pc EXCEPT ![d] = l]
        /\ pos' = pos \/ \E i \in Int : pos' = [pos EXCEPT ![d] = i]
    BY <1>3
    DEF Handler, ReceiveRanging, ReceiveResponse, TakeBroadcast, TakeResponseToRoute,
        RouteEntry, PostAllocation, handler, TypeOK
  <2> QED BY <2>1 DEF TypeOK
<1>4. (\E d \in Drones : Handler(d)) \/ UNCHANGED <<pc, pos>>
  BY DEF Next, LogThread, Drone, Terminated, TakeAllocation, TakeResponse, ScanEntry,
         SendTask, NextTask, PostBroadcast, FinishLog, TxCallBack, TakeRxTimestamp, Ignore,
         DropRanging, ProcessRanging, DroneExit, vars, center, handler
<1>5. MutexInv' /\ EntriesInv'
  BY <1>2, <1>3, <1>4, SameTable
<1> QED BY <1>1, <1>5

(* A handler that leaves is not routing: the phases are as they were.      *)
LEMMA LeavingKeepsPhase ==
  ASSUME TypeOK, OnePhaseAtATime, NEW d \in Drones, NEW l \in {"lock", "shift", "drop", "closed"},
         pc[d] \notin {"resp_wait", "bcast"}, pc' = pc \/ pc' = [pc EXCEPT ![d] = l],
         UNCHANGED <<allocation_sem, broadcast_sem, log_pc>>
  PROVE  OnePhaseAtATime'
<1>1. Routing' = Routing
  <2>1. CASE pc' = [pc EXCEPT ![d] = l]
    <3>1. Routing' = Routing \ {d}
      BY <2>1, RoutingAfter DEF HandlerPCs
    <3>2. d \notin Routing
      BY DEF Routing
    <3> QED BY <3>1, <3>2
  <2>2. CASE pc' = pc
    BY <2>2 DEF Routing
  <2> QED BY <2>1, <2>2
<1> QED BY <1>1, SamePhase

(* The receive loop ends.                                                  *)
LEMMA EndOfStreamStep ==
  ASSUME FaultInv, NEW d \in Drones, EndOfStream(d)
  PROVE  FaultInv'
<1> USE DEF FaultInv
<1>1. /\ pc[d] = "recv" /\ pc' = [pc EXCEPT ![d] = "lock"] /\ pos' = pos
      /\ UNCHANGED <<table, semaphores, logVars, mutex>>
  BY DEF EndOfStream
<1>2. TypeOK'
  BY DEF EndOfStream, TypeOK, HandlerPCs, table, semaphores, logVars, drone
<1>3. OnePhaseAtATime'
  BY <1>1, LeavingKeepsPhase DEF semaphores, logVars
<1>4. MutexInv' /\ EntriesInv'
  BY <1>1, SameTable DEF TypeOK
<1> QED BY <1>2, <1>3, <1>4

(* The handler finds its entry: the entries that stay are all the others.  *)
LEMMA LockTableStep ==
  ASSUME FaultInv, NEW d \in Drones, LockTable(d)
  PROVE  FaultInv'
<1> USE DEF FaultInv, MutexInv
<1>1. PICK p \in 1..count : node[p] = d /\ pos' = [pos EXCEPT ![d] = p]
  BY DEF LockTable
<1>2. /\ pc[d] = "lock" /\ mutex = NoNode /\ mutex' = d
      /\ pc' = [pc EXCEPT ![d] = "shift"]
      /\ UNCHANGED <<table, semaphores, logVars>>
  BY DEF LockTable
<1>3. node' = node /\ count' = count /\ count \in 0..NODES_NUM
  BY <1>2 DEF table, TypeOK
<1>4. TypeOK'
  <2>1. pos' \in [Drones -> 1..(NODES_NUM + 1)]
    BY <1>1, <1>3, NodesNum DEF TypeOK
  <2> QED BY <2>1 DEF LockTable, TypeOK, HandlerPCs, table, semaphores, logVars, drone
<1>5. OnePhaseAtATime'
  BY <1>2, LeavingKeepsPhase DEF semaphores, logVars
<1>6. d # NoNode /\ pc'[d] = "shift" /\ pos'[d] = p /\ \A e \in Drones \ {d} : pc'[e] = pc[e]
  BY <1>1, <1>2, NoNodeAssumption DEF TypeOK
<1>7. MutexInv'
  <2>1. \A e \in Drones : Inside(e)' <=> mutex' = e
    BY <1>2, <1>6, NoNodeAssumption DEF Inside
  <2> QED BY <1>1, <1>2, <1>3, <1>6, <2>1
<1>8. Kept = Kept' \cup {d} /\ d \notin Kept'
  BY <1>2, <1>6, NoNodeAssumption DEF Kept
<1>9. Staying = 1..count /\ Staying' = (1..count) \ {p}
  BY <1>2, <1>3, <1>6 DEF Staying
<1>10. EntriesInv'
  BY <1>1, <1>2, <1>3, <1>6, <1>8, <1>9 DEF EntriesInv
<1> QED BY <1>4, <1>5, <1>7, <1>10

(* One entry moves down into the free place.                               *)
LEMMA ShiftEntryStep ==
  ASSUME FaultInv, NEW d \in Drones, ShiftEntry(d)
  PROVE  FaultInv'
<1> USE DEF FaultInv, MutexInv
<1> DEFINE p == pos[d]
<1>1. /\ pc[d] = "shift" /\ mutex = d /\ d # NoNode /\ p \in 1..count /\ p < count
      /\ node' = [node EXCEPT ![p] = node[p + 1]]
      /\ pos' = [pos EXCEPT ![d] = p + 1]
      /\ UNCHANGED <<count, pc, mutex, semaphores, logVars>>
  BY NoNodeAssumption DEF ShiftEntry, Inside
<1>2. /\ count \in 0..NODES_NUM /\ p + 1 \in 1..count /\ p + 1 \in 1..NODES_NUM /\ p \in 1..NODES_NUM
      /\ node \in [1..NODES_NUM -> Drones \cup {NoNode}] /\ pos \in [Drones -> 1..(NODES_NUM + 1)]
  BY <1>1, NodesNum DEF TypeOK
<1> HIDE DEF p
<1>3. TypeOK'
  <2>1. node' \in [1..NODES_NUM -> Drones \cup {NoNode}] /\ pos' \in [Drones -> 1..(NODES_NUM + 1)]
    BY <1>1, <1>2, NodesNum
  <2> QED BY <2>1 DEF ShiftEntry, TypeOK, HandlerPCs, semaphores, logVars, drone
<1>4. OnePhaseAtATime'
  BY <1>1, LeavingKeepsPhase DEF semaphores, logVars
<1>5. MutexInv'
  BY <1>1, <1>2 DEF Inside
<1>6. Kept' = Kept
  BY <1>1 DEF Kept
<1>7. Staying = (1..count) \ {p} /\ Staying' = (1..count) \ {p + 1}
  BY <1>1, <1>2 DEF Staying, p
<1>8. /\ node'[p] = node[p + 1]
      /\ \A i \in 1..NODES_NUM : i # p => node'[i] = node[i]
  BY <1>1, <1>2
<1>9. EntriesInv'
  <2>6. \A i \in Staying' : IF i = p THEN node'[i] = node[p + 1] /\ p + 1 \in Staying
                                        ELSE node'[i] = node[i] /\ i \in Staying
    <3> SUFFICES ASSUME NEW i \in Staying'
                 PROVE  IF i = p THEN node'[i] = node[p + 1] /\ p + 1 \in Staying
                                 ELSE node'[i] = node[i] /\ i \in Staying
      OBVIOUS
    <3>1. i \in 1..count /\ i \in 1..NODES_NUM
      BY <1>2, <1>7, NodesNum
    <3> QED BY <1>2, <1>7, <1>8, <3>1
  <2>7. \A i \in Staying : IF i = p + 1 THEN node'[p] = node[i] /\ p \in Staying'
                                        ELSE node'[i] = node[i] /\ i \in Staying'
    <3> SUFFICES ASSUME NEW i \in Staying
                 PROVE  IF i = p + 1 THEN node'[p] = node[i] /\ p \in Staying'
                                     ELSE node'[i] = node[i] /\ i \in Staying'
      OBVIOUS
    <3>1. i \in 1..count /\ i \in 1..NODES_NUM /\ i # p
      BY <1>2, <1>7, NodesNum
    <3> QED BY <1>2, <1>7, <1>8, <3>1
  <2>8. p \notin Staying /\ p + 1 \notin Staying' /\ Staying' \subseteq Int
    BY <1>7
  <2>1. \A i \in Staying' : node'[i] \in Kept'
    BY <1>6, <2>6 DEF EntriesInv
  <2>2. ASSUME NEW e \in Kept
        PROVE  \E i \in Staying' : node'[i] = e
    <3>1. PICK i \in Staying : node[i] = e
      BY <2>2 DEF EntriesInv
    <3> QED BY <2>7, <3>1
  <2>3. \A i, j \in Staying' : node'[i] = node'[j] => i = j
    BY <2>6, <2>8 DEF EntriesInv
  <2>4. \A i \in 1..NODES_NUM : i > count' => node'[i] = NoNode
    BY <1>1, <1>2, <1>8 DEF EntriesInv
  <2>5. pc'[mutex'] # "drop"
    BY <1>1
  <2> QED BY <1>6, <2>1, <2>2, <2>3, <2>4, <2>5 DEF EntriesInv
<1> QED BY <1>3, <1>4, <1>5, <1>9

(* The last entry, now a duplicate or the drone itself, is cleared.        *)
LEMMA ClearLastStep ==
  ASSUME FaultInv, NEW d \in Drones, ClearLast(d)
  PROVE  FaultInv'
<1> USE DEF FaultInv, MutexInv
<1>1. /\ pc[d] = "shift" /\ mutex = d /\ d # NoNode /\ pos[d] = count
      /\ node' = [node EXCEPT ![count] = NoNode]
      /\ pc' = [pc EXCEPT ![d] = "drop"]
      /\ UNCHANGED <<count, pos, mutex, semaphores, logVars>>
  BY NoNodeAssumption DEF ClearLast, Inside
<1>2. /\ count \in 1..NODES_NUM /\ node \in [1..NODES_NUM -> Drones \cup {NoNode}]
  BY <1>1, NodesNum DEF TypeOK
<1>3. TypeOK'
  BY <1>1, <1>2 DEF ClearLast, TypeOK, HandlerPCs, semaphores, logVars, drone
<1>4. OnePhaseAtATime'
  BY <1>1, LeavingKeepsPhase DEF semaphores, logVars
<1>5. pc'[d] = "drop" /\ \A e \in Drones \ {d} : pc'[e] = pc[e]
  BY <1>1 DEF TypeOK
<1>6. MutexInv'
  BY <1>1, <1>2, <1>5 DEF Inside
<1>7. Kept' = Kept
  BY <1>1, <1>5 DEF Kept
<1>8. Staying = (1..count) \ {count} /\ Staying' = 1..(count - 1)
  BY <1>1, <1>2, <1>5 DEF Staying
<1>9. Staying' = Staying /\ Staying \subseteq 1..NODES_NUM /\ count \notin Staying
  BY <1>2, <1>8, NodesNum
<1>10. node'[count] = NoNode /\ \A i \in 1..NODES_NUM : i # count => node'[i] = node[i]
  BY <1>1, <1>2
<1>11. EntriesInv'
  BY <1>1, <1>2, <1>7, <1>9, <1>10 DEF EntriesInv
<1> QED BY <1>3, <1>4, <1>6, <1>11

(* count-- and the unlock: the drone is out of the table.                  *)
LEMMA DropLastStep ==
  ASSUME FaultInv, NEW d \in Drones, DropLast(d)
  PROVE  FaultInv'
<1> USE DEF FaultInv, MutexInv
<1>1. /\ pc[d] = "drop" /\ mutex = d /\ d # NoNode
      /\ count' = count - 1 /\ mutex' = NoNode /\ node' = node
      /\ pc' = [pc EXCEPT ![d] = "closed"]
      /\ UNCHANGED <<pos, semaphores, logVars>>
  BY NoNodeAssumption DEF DropLast, Inside
<1>2. count \in 1..NODES_NUM
  BY <1>1, NodesNum DEF TypeOK
<1>3. TypeOK'
  <2>1. count' \in 0..NODES_NUM
    BY <1>1, <1>2, NodesNum
  <2> QED BY <1>1, <2>1 DEF DropLast, TypeOK, HandlerPCs, semaphores, logVars, drone
<1>4. OnePhaseAtATime'
  BY <1>1, LeavingKeepsPhase DEF semaphores, logVars
<1>5. pc'[d] = "closed" /\ \A e \in Drones \ {d} : pc'[e] = pc[e]
  BY <1>1 DEF TypeOK
<1>6. MutexInv'
  BY <1>1, <1>5, NoNodeAssumption DEF Inside
<1>7. Kept' = Kept
  BY <1>1, <1>5, NoNodeAssumption DEF Kept
<1>8. Staying' = Staying
  BY <1>1 DEF Staying
<1>9. \A i \in 1..NODES_NUM : i > count' => i > count \/ i = count
  BY <1>1, <1>2, NodesNum
<1>10. EntriesInv'
  BY <1>1, <1>7, <1>8, <1>9 DEF EntriesInv
<1> QED BY <1>3, <1>4, <1>6, <1>10

(* A drone ends, or main returns: the table is not touched.                *)
LEMMA OutsideStep ==
  ASSUME FaultInv, MainReturns \/ \E d \in Faulty : Crash(d)
  PROVE  FaultInv'
<1> USE DEF FaultInv
<1>1. UNCHANGED <<center, drone, mutex>>
  BY DEF MainReturns, Crash
<1>2. UNCHANGED <<pc, pos, table, allocation_sem, broadcast_sem, log_pc>>
  BY <1>1 DEF center, handler, semaphores, logVars
<1>3. TypeOK'
  <2>1. CASE MainReturns
    BY <2>1 DEF MainReturns, TypeOK, center, table, semaphores, logVars, handler, drone
  <2>2. ASSUME NEW d \in Faulty, Crash(d)
        PROVE  TypeOK'
    <3>1. alive' \in [Drones -> BOOLEAN] /\ down' \in [Drones -> Seq(Message)]
      <4>1. /\ alive' = [alive EXCEPT ![d] = FALSE] /\ down' = [down EXCEPT ![d] = <<>>]
            /\ alive \in [Drones -> BOOLEAN] /\ down \in [Drones -> Seq(Message)]
        BY <2>2 DEF Crash, TypeOK
      <4>2. alive' \in [Drones -> BOOLEAN]
        BY <4>1
      <4>3. down' \in [Drones -> Seq(Message)]
        <5>1. <<>> \in Seq(Message)
          OBVIOUS
        <5> QED BY <4>1, <5>1
      <4> QED BY <4>2, <4>3
    <3> QED BY <2>2, <3>1 DEF Crash, TypeOK, center, table, semaphores, logVars, handler, drone
  <2> QED BY <2>1, <2>2
<1>4. OnePhaseAtATime'
  BY <1>2, SamePhase DEF Routing
<1>5. MutexInv' /\ EntriesInv'
  BY <1>1, <1>2, SameTable
<1> QED BY <1>3, <1>4, <1>5

(* The invariant holds whatever drones end.                                *)
THEOREM FaultInvariant == FaultSpec => []FaultInv
<1>1. FaultInv /\ [FaultNext]_faultVars => FaultInv'
  <2> SUFFICES ASSUME FaultInv, [FaultNext]_faultVars PROVE FaultInv'
    OBVIOUS
  <2>1. CASE Next /\ UNCHANGED mutex
    BY <2>1, ReplayStep
  <2>2. ASSUME NEW d \in Drones, Removal(d)
        PROVE  FaultInv'
    BY <2>2, EndOfStreamStep, LockTableStep, ShiftEntryStep, ClearLastStep, DropLastStep
    DEF Removal
  <2>3. CASE MainReturns \/ \E d \in Faulty : Crash(d)
    BY <2>3, OutsideStep
  <2>4. CASE UNCHANGED faultVars
    <3>1. UNCHANGED vars /\ UNCHANGED <<table, pc, pos, mutex>>
      BY <2>4 DEF faultVars, vars, center, handler
    <3>2. TypeOK' /\ OnePhaseAtATime'
      BY <3>1, TypeStep, PhaseStep DEF FaultInv
    <3>3. MutexInv' /\ EntriesInv'
      BY <3>1, SameTable
    <3> QED BY <3>2, <3>3 DEF FaultInv
  <2> QED BY <2>1, <2>2, <2>3, <2>4 DEF FaultNext, Next
<1> QED BY <1>1, FaultInvInit, PTL DEF FaultSpec

(* Whenever nobody is inside the mutex, the table holds exactly the drones *)
(* not yet removed, each once, and is clear behind them: for any number of *)
(* drones that end, in any order, at any time (center.c:205-220).          *)
THEOREM TableAlwaysConsistent == FaultSpec => []TableConsistent
<1>1. FaultInv => TableConsistent
  <2> SUFFICES ASSUME FaultInv, mutex = NoNode
               PROVE  /\ \A d \in Drones : pc[d] # "closed" <=> \E i \in 1..count : node[i] = d
                      /\ \A i, j \in 1..count : node[i] = node[j] => i = j
                      /\ \A i \in 1..NODES_NUM : node[i] = NoNode <=> i > count
    BY DEF TableConsistent
  <2> USE DEF FaultInv
  <2>1. Staying = 1..count /\ Kept = {d \in Drones : pc[d] # "closed"}
    BY NoNodeAssumption DEF Staying, Kept
  <2>2. count \in Nat
    BY NodesNum DEF TypeOK
  <2>3. \A i \in 1..NODES_NUM : node[i] = NoNode => i > count
    BY <2>1, <2>2, NodesNum, NoNodeAssumption DEF EntriesInv
  <2> QED BY <2>1, <2>3 DEF EntriesInv
<1> QED BY <1>1, FaultInvariant, PTL

(* Neither do drones that end let two phases overlap (center.c:98-99, 151, *)
(* 187-190): a handler that leaves never holds a phase.                    *)
THEOREM PhasesStayExclusive == FaultSpec => []OnePhaseAtATime
BY FaultInvariant, PTL DEF FaultInv
=============================================================================
