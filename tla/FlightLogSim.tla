---------------------------- MODULE FlightLogSim ----------------------------
(***************************************************************************)
(* The running phase of the swarm simulation: the control center           *)
(* (center.c) replays a flight log to the drone processes (drone.c).       *)
(*                                                                         *)
(* Every row of the log is one round of two phases.  The log thread hands  *)
(* the row's sender its TX time and each receiver its RX time; once every  *)
(* receiver has answered, the center re-broadcasts the ranging message the *)
(* sender generated, and the receivers answer again.  The phases are kept  *)
(* apart by three semaphores and a response counter shared by the log      *)
(* thread and one handler thread per drone.                                *)
(*                                                                         *)
(* This module is the system with no disconnection after the start;        *)
(* FlightLogFaults adds the handlers' disconnection path.                  *)
(***************************************************************************)
EXTENDS Integers, Sequences, FiniteSets

CONSTANTS
  Drones,               \* the drone processes; one handler thread each
  Log,                  \* the rows of simulation_dep.csv, as far as a kept blank line
  MAX_ROWS,             \* rows a drone loads of it; 7000 in the code
  RANGING_PERIOD_RATE,  \* support.h: replay one block of rows in so many
  PACKET_LOSS           \* support.h: TRUE iff the loss rate is positive

NODES_NUM == Cardinality(Drones)

ASSUME DronesAssumption == IsFiniteSet(Drones) /\ NODES_NUM >= 2

ASSUME RowsAssumption == MAX_ROWS \in Nat

ASSUME RateAssumption == RANGING_PERIOD_RATE \in Nat \ {0} /\ PACKET_LOSS \in BOOLEAN

(***************************************************************************)
(* A row names the sender, the receivers in column order (every other      *)
(* drone, once), and the receivers whose reception time is not 0.  It is a *)
(* line shorter than MAX_LINE_LEN and MAX_LINE, which fgets reads whole.   *)
(***************************************************************************)
Row == [tx : Drones, rx : [1..(NODES_NUM - 1) -> Drones], heard : SUBSET Drones]

ASSUME LogAssumption ==
  /\ Log \in Seq(Row)
  /\ \A r \in DOMAIN Log :
       /\ \A d \in Drones \ {Log[r].tx} : \E k \in 1..(NODES_NUM - 1) : Log[r].rx[k] = d
       /\ \A k \in 1..(NODES_NUM - 1) : Log[r].rx[k] # Log[r].tx
       /\ \A j, k \in 1..(NODES_NUM - 1) : Log[r].rx[j] = Log[r].rx[k] => j = k

(***************************************************************************)
(* Round n plays row RowOf(n): the rows r with                             *)
(* ((r - 1) \div NODES_NUM) % RANGING_PERIOD_RATE = 0, in order.           *)
(***************************************************************************)
RowOf(n) ==
  ((n - 1) \div NODES_NUM) * (NODES_NUM * RANGING_PERIOD_RATE) + ((n - 1) % NODES_NUM) + 1

HasRow(n) == RowOf(n) <= Len(Log)

Sender(n)    == Log[RowOf(n)].tx
Receivers(n) == Drones \ {Sender(n)}

(* Task 0 of a round is the sender's, task k the k-th receiver's. *)
Recipient(n, k) == IF k = 0 THEN Sender(n) ELSE Log[RowOf(n)].rx[k]

(* The reception time of a row at a drone: the row's number, or 0 when the *)
(* sniffed data has none.                                                  *)
Stamp(n, d) == IF d \in Log[RowOf(n)].heard THEN RowOf(n) ELSE 0

NoNode == "no node"    \* a cleared entry of the node table

ASSUME NoNodeAssumption == NoNode \notin Drones

Message == [kind : {"TX", "RX", "RNG"}, addr : Drones, round : Nat]  \* center to drone
Reply   == [kind : {"RNG", "ACK"}, addr : Drones, round : Nat]       \* drone to center
Ranging == [kind : {"RNG"}, addr : Drones, round : Nat]

VARIABLES
  \* the center's shared state
  running,          \* the center process exists
  node,             \* droneNodeSet->node, by index from 1
  count,            \* droneNodeSet->count
  allocation_sem, broadcast_sem, response_sem,
  response_count,
  \* the log thread, broadcast_flightLog
  log_pc,           \* "alloc", "resp", "scan", "send", "post"
  round,            \* the number of rows taken so far
  task,             \* the recipient being served
  scan,             \* the loop index over node
  \* the handler threads, handle_node_connection
  pc,               \* "recv", "bcast_wait", "resp_wait", "bcast", ...
  msg,              \* the ranging message a handler is routing
  pos,              \* its loop index over node
  \* the sockets
  down,             \* bytes in flight from the center, in messages
  up,               \* from a drone to its handler
  \* the drones
  alive,            \* the process exists
  RxTimestamp,      \* reception time taken from the log, 0 when used up
  csv_pos,          \* row cursor of get_next_RxTimestamp, from 1
  received          \* history: number of messages a drone has read

semaphores == <<allocation_sem, broadcast_sem, response_sem>>
table      == <<node, count>>
logVars    == <<log_pc, round, task, scan>>
handler    == <<pc, msg, pos>>
drone      == <<RxTimestamp, csv_pos, received>>
center     == <<table, semaphores, response_count, logVars, handler>>
vars       == <<running, center, down, up, alive, drone>>

LogPCs     == {"alloc", "resp", "scan", "send", "post"}
HandlerPCs == {"recv", "bcast_wait", "resp_wait", "bcast", "lock", "shift", "drop", "closed"}

-----------------------------------------------------------------------------
(* Initially every drone is registered, in any order, and nothing is sent. *)

Registrations ==
  {f \in [1..NODES_NUM -> Drones] :
     /\ \A d \in Drones : \E i \in 1..NODES_NUM : f[i] = d
     /\ \A i, j \in 1..NODES_NUM : f[i] = f[j] => i = j}

Init ==
  /\ running = TRUE
  /\ node \in Registrations
  /\ count = NODES_NUM
  /\ allocation_sem = 1
  /\ broadcast_sem = 0
  /\ response_sem = 1
  /\ response_count = 0
  /\ log_pc = "alloc"
  /\ round = 0
  /\ task = 0
  /\ scan = 1
  /\ pc = [d \in Drones |-> "recv"]
  /\ msg = [d \in Drones |-> [kind |-> "RNG", addr |-> d, round |-> 0]]
  /\ pos = [d \in Drones |-> 1]
  /\ down = [d \in Drones |-> <<>>]
  /\ up = [d \in Drones |-> <<>>]
  /\ alive = [d \in Drones |-> TRUE]
  /\ RxTimestamp = [d \in Drones |-> 0]
  /\ csv_pos = [d \in Drones |-> 1]
  /\ received = [d \in Drones |-> 0]

(***************************************************************************)
(* send() on entry i of the table.  A cleared entry fails without effect.  *)
(* To a process that is gone the data is lost, and the center may be       *)
(* killed by SIGPIPE: send has no MSG_NOSIGNAL and no handler is set.      *)
(***************************************************************************)
Send(i, m) ==
  LET s == node[i]
  IN  \/ /\ s \in Drones
         /\ alive[s]
         /\ down' = [down EXCEPT ![s] = Append(@, m)]
         /\ UNCHANGED running
      \/ /\ s \notin Drones
         /\ UNCHANGED <<down, running>>
      \/ /\ s \in Drones
         /\ ~alive[s]
         /\ running' \in BOOLEAN
         /\ UNCHANGED down

-----------------------------------------------------------------------------
(* The log thread: broadcast_flightLog. *)

Task == [kind |-> IF task = 0 THEN "TX" ELSE "RX", addr |-> Recipient(round, task), round |-> round]

(* sem_wait(&allocation_sem), for the next row the rate filter keeps *)
TakeAllocation ==
  /\ running
  /\ log_pc = "alloc"
  /\ HasRow(round + 1)
  /\ allocation_sem > 0
  /\ allocation_sem' = allocation_sem - 1
  /\ round' = round + 1
  /\ log_pc' = "resp"
  /\ UNCHANGED <<running, table, broadcast_sem, response_sem, response_count, task, scan,
                 handler, down, up, alive, drone>>

(* sem_wait(&response_sem), then the first pass over the table starts *)
TakeResponse ==
  /\ running
  /\ log_pc = "resp"
  /\ response_sem > 0
  /\ response_sem' = response_sem - 1
  /\ task' = 0
  /\ scan' = 1
  /\ log_pc' = "scan"
  /\ UNCHANGED <<running, table, allocation_sem, broadcast_sem, response_count, round,
                 handler, down, up, alive, drone>>

(* One test of the loop over the table: the address is compared here, the  *)
(* socket is read by the send that follows.                                *)
ScanEntry ==
  /\ running
  /\ log_pc = "scan"
  /\ scan <= count
  /\ IF node[scan] = Recipient(round, task)
       THEN log_pc' = "send" /\ UNCHANGED scan
       ELSE scan' = scan + 1 /\ UNCHANGED log_pc
  /\ UNCHANGED <<running, table, semaphores, response_count, round, task,
                 handler, down, up, alive, drone>>

SendTask ==
  /\ running
  /\ log_pc = "send"
  /\ Send(scan, Task)
  /\ scan' = scan + 1
  /\ log_pc' = "scan"
  /\ UNCHANGED <<table, semaphores, response_count, round, task, handler, up, alive, drone>>

(* The table is exhausted: on to the next recipient of the row, if any *)
NextTask ==
  /\ running
  /\ log_pc = "scan"
  /\ scan > count
  /\ IF task < NODES_NUM - 1
       THEN task' = task + 1 /\ scan' = 1 /\ UNCHANGED log_pc
       ELSE log_pc' = "post" /\ UNCHANGED <<task, scan>>
  /\ UNCHANGED <<running, table, semaphores, response_count, round,
                 handler, down, up, alive, drone>>

PostBroadcast ==
  /\ running
  /\ log_pc = "post"
  /\ broadcast_sem' = broadcast_sem + 1
  /\ log_pc' = "alloc"
  /\ UNCHANGED <<running, table, allocation_sem, response_sem, response_count, round, task,
                 scan, handler, down, up, alive, drone>>

(* The log has no more rows: exit(EXIT_SUCCESS) ends the whole process *)
FinishLog ==
  /\ running
  /\ log_pc = "alloc"
  /\ ~HasRow(round + 1)
  /\ running' = FALSE
  /\ UNCHANGED <<center, down, up, alive, drone>>

LogThread ==
  \/ TakeAllocation \/ TakeResponse \/ ScanEntry \/ SendTask \/ NextTask
  \/ PostBroadcast \/ FinishLog

-----------------------------------------------------------------------------
(* A handler thread: the receive loop of handle_node_connection. *)

(* recv() returned a ranging message *)
ReceiveRanging(d) ==
  /\ running
  /\ pc[d] = "recv"
  /\ up[d] # <<>>
  /\ Head(up[d]).kind = "RNG"
  /\ up' = [up EXCEPT ![d] = Tail(@)]
  /\ msg' = [msg EXCEPT ![d] = Head(up[d])]
  /\ pc' = [pc EXCEPT ![d] = "bcast_wait"]
  /\ UNCHANGED <<running, table, semaphores, response_count, logVars, pos, down, alive, drone>>

(* Mutants of AllAnswered: the sender is counted; one response is enough. *)
EveryoneAnswered == response_count + 1 = NODES_NUM
OneAnswered      == response_count + 1 = 1

(* The response being counted is the last one of the phase. *)
AllAnswered == response_count + 1 = NODES_NUM - 1

(* recv() returned a response: the section under response_mutex *)
ReceiveResponse(d) ==
  /\ running
  /\ pc[d] = "recv"
  /\ up[d] # <<>>
  /\ Head(up[d]).kind = "ACK"
  /\ up' = [up EXCEPT ![d] = Tail(@)]
  /\ IF AllAnswered
       THEN response_sem' = response_sem + 1 /\ response_count' = 0
       ELSE response_count' = response_count + 1 /\ UNCHANGED response_sem
  /\ UNCHANGED <<running, table, allocation_sem, broadcast_sem, logVars, handler, down,
                 alive, drone>>

(* sem_wait(&broadcast_sem) *)
TakeBroadcast(d) ==
  /\ running
  /\ pc[d] = "bcast_wait"
  /\ broadcast_sem > 0
  /\ broadcast_sem' = broadcast_sem - 1
  /\ pc' = [pc EXCEPT ![d] = "resp_wait"]
  /\ UNCHANGED <<running, table, allocation_sem, response_sem, response_count, logVars, msg,
                 pos, down, up, alive, drone>>

(* Mutant of TakeResponseToRoute: the wait for the responses is dropped. *)
RouteUnanswered(d) ==
  /\ running
  /\ pc[d] = "resp_wait"
  /\ pc' = [pc EXCEPT ![d] = "bcast"]
  /\ pos' = [pos EXCEPT ![d] = 1]
  /\ UNCHANGED <<running, table, semaphores, response_count, logVars, msg, down, up, alive,
                 drone>>

(* sem_wait(&response_sem), then broadcast_rangingMessage starts *)
TakeResponseToRoute(d) ==
  /\ running
  /\ pc[d] = "resp_wait"
  /\ response_sem > 0
  /\ response_sem' = response_sem - 1
  /\ pc' = [pc EXCEPT ![d] = "bcast"]
  /\ pos' = [pos EXCEPT ![d] = 1]
  /\ UNCHANGED <<running, table, allocation_sem, broadcast_sem, response_count, logVars, msg,
                 down, up, alive, drone>>

(* Mutant of Routed: the loop stops before the last entry. *)
RoutedButLast(d) == pos[d] >= count

(* The loop of broadcast_rangingMessage has passed the last entry. *)
Routed(d) == pos[d] > count

(* One iteration of broadcast_rangingMessage: count and the entry are read *)
(* without the table's mutex                                               *)
RouteEntry(d) ==
  /\ running
  /\ pc[d] = "bcast"
  /\ ~Routed(d)
  /\ Send(pos[d], msg[d])
  /\ pos' = [pos EXCEPT ![d] = @ + 1]
  /\ UNCHANGED <<table, semaphores, response_count, logVars, pc, msg, up, alive, drone>>

(* broadcast_rangingMessage returns; sem_post(&allocation_sem) *)
PostAllocation(d) ==
  /\ running
  /\ pc[d] = "bcast"
  /\ Routed(d)
  /\ allocation_sem' = allocation_sem + 1
  /\ pc' = [pc EXCEPT ![d] = "recv"]
  /\ UNCHANGED <<running, table, broadcast_sem, response_sem, response_count, logVars, msg,
                 pos, down, up, alive, drone>>

Handler(d) ==
  \/ ReceiveRanging(d) \/ ReceiveResponse(d) \/ TakeBroadcast(d)
  \/ TakeResponseToRoute(d) \/ RouteEntry(d) \/ PostAllocation(d)

-----------------------------------------------------------------------------
(* A drone process: the receive thread receive_from_center. *)

(* Read the first message of the socket *)
Read(d) ==
  /\ alive[d]
  /\ down[d] # <<>>
  /\ down' = [down EXCEPT ![d] = Tail(@)]
  /\ received' = [received EXCEPT ![d] = @ + 1]

(* send() to the center; with the center gone it is lost or fatal *)
SendToCenter(d, m) ==
  \/ running /\ up' = [up EXCEPT ![d] = Append(@, m)] /\ UNCHANGED alive
  \/ ~running /\ UNCHANGED up /\ \E b \in BOOLEAN : alive' = [alive EXCEPT ![d] = b]

Response(d, n) == [kind |-> "ACK", addr |-> d, round |-> n]

(* A TX line for this drone: TxCallBack generates the ranging message *)
TxCallBack(d) ==
  LET m == Head(down[d])
  IN  /\ Read(d)
      /\ m.kind = "TX" /\ m.addr = d
      /\ SendToCenter(d, [kind |-> "RNG", addr |-> d, round |-> m.round])
      /\ UNCHANGED <<running, center, RxTimestamp, csv_pos>>

(* Mutant of TakeRxTimestamp: a reception time of 0 is not stored. *)
TakeHeardRxTimestamp(d) ==
  LET m == Head(down[d])
  IN  /\ Read(d)
      /\ m.kind = "RX" /\ m.addr = d
      /\ RxTimestamp' = IF Stamp(m.round, d) = 0 THEN RxTimestamp
                        ELSE [RxTimestamp EXCEPT ![d] = Stamp(m.round, d)]
      /\ SendToCenter(d, Response(d, m.round))
      /\ UNCHANGED <<running, center, csv_pos>>

(* An RX line for this drone: keep the time and answer *)
TakeRxTimestamp(d) ==
  LET m == Head(down[d])
  IN  /\ Read(d)
      /\ m.kind = "RX" /\ m.addr = d
      /\ RxTimestamp' = [RxTimestamp EXCEPT ![d] = Stamp(m.round, d)]
      /\ SendToCenter(d, Response(d, m.round))
      /\ UNCHANGED <<running, center, csv_pos>>

(* The drone's own ranging message, or a line for another drone *)
Ignore(d) ==
  LET m == Head(down[d])
  IN  /\ Read(d)
      /\ IF m.kind = "RNG" THEN m.addr = d ELSE m.addr # d
      /\ UNCHANGED <<running, center, up, alive, RxTimestamp, csv_pos>>

(* What load_csv_to_memory keeps of the log *)
total_rows == IF Len(Log) < MAX_ROWS THEN Len(Log) ELSE MAX_ROWS

(* Loaded rows whose first receiver column names d, from row r on *)
FirstColumnRows(d, r) == {i \in 1..total_rows : i >= r /\ Log[i].rx[1] = d}

(* Rows at or after the cursor that get_next_RxTimestamp matches *)
CursorMatches(d, time) ==
  {i \in FirstColumnRows(d, csv_pos[d]) : time = IF d \in Log[i].heard THEN i ELSE 0}

(* Row j is the first row of d after the first match *)
IsNextRow(d, time, j) ==
  \E i \in CursorMatches(d, time) :
    /\ \A k \in CursorMatches(d, time) : i <= k
    /\ j \in FirstColumnRows(d, i + 1)
    /\ \A k \in FirstColumnRows(d, i + 1) : j <= k

(* Mutant of NextCursor: the end of the loop is reached in any case. *)
CursorToEnd(d, time) == total_rows + 1

(* get_next_RxTimestamp moves the cursor there, or past the end *)
NextCursor(d, time) ==
  IF \E j \in 1..total_rows : IsNextRow(d, time, j)
    THEN CHOOSE j \in 1..total_rows : IsNextRow(d, time, j)
    ELSE total_rows + 1

(* Mutant of DropRanging: a message given up is not answered. *)
DropSilently(d) ==
  LET m == Head(down[d])
  IN  /\ Read(d)
      /\ m.kind = "RNG" /\ m.addr # d
      /\ PACKET_LOSS \/ RxTimestamp[d] = 0
      /\ UNCHANGED <<running, center, up, alive, RxTimestamp, csv_pos>>

(* RxCallBack gives the message up: no reception time, or simulated loss *)
DropRanging(d) ==
  LET m == Head(down[d])
  IN  /\ Read(d)
      /\ m.kind = "RNG" /\ m.addr # d
      /\ PACKET_LOSS \/ RxTimestamp[d] = 0
      /\ SendToCenter(d, Response(d, m.round))
      /\ UNCHANGED <<running, center, RxTimestamp, csv_pos>>

(* RxCallBack processes it, answers, and resets the reception time *)
ProcessRanging(d) ==
  LET m == Head(down[d])
  IN  /\ Read(d)
      /\ m.kind = "RNG" /\ m.addr # d
      /\ RxTimestamp[d] # 0
      /\ csv_pos' = [csv_pos EXCEPT ![d] = NextCursor(d, RxTimestamp[d])]
      /\ SendToCenter(d, Response(d, m.round))
      /\ RxTimestamp' = [RxTimestamp EXCEPT ![d] = 0]
      /\ UNCHANGED <<running, center>>

(* recv() <= 0: the center is gone and the socket is drained *)
DroneExit(d) ==
  /\ ~running
  /\ alive[d]
  /\ down[d] = <<>>
  /\ alive' = [alive EXCEPT ![d] = FALSE]
  /\ UNCHANGED <<running, center, down, up, drone>>

Drone(d) ==
  \/ TxCallBack(d) \/ TakeRxTimestamp(d) \/ Ignore(d) \/ DropRanging(d)
  \/ ProcessRanging(d) \/ DroneExit(d)

-----------------------------------------------------------------------------

(* Every process has ended. *)
Ended == ~running /\ \A d \in Drones : ~alive[d]

Terminated == Ended /\ UNCHANGED vars

Next ==
  \/ LogThread
  \/ \E d \in Drones : Handler(d)
  \/ \E d \in Drones : Drone(d)
  \/ Terminated

Spec == Init /\ [][Next]_vars

(***************************************************************************)
(* Every thread keeps running while it can.  Weak fairness is enough: a    *)
(* semaphore that a thread waits on is never taken by another meanwhile.   *)
(***************************************************************************)
Fairness ==
  /\ WF_vars(LogThread)
  /\ \A d \in Drones : WF_vars(Handler(d))
  /\ \A d \in Drones : WF_vars(Drone(d))

FairSpec == Spec /\ Fairness

-----------------------------------------------------------------------------
(* Properties *)

TypeOK ==
  /\ running \in BOOLEAN
  /\ node \in [1..NODES_NUM -> Drones \cup {NoNode}]
  /\ count \in 0..NODES_NUM
  /\ allocation_sem \in Nat /\ broadcast_sem \in Nat /\ response_sem \in Nat
  /\ response_count \in 0..(NODES_NUM - 2)
  /\ log_pc \in LogPCs
  /\ round \in Nat /\ (round = 0 \/ RowOf(round) \in DOMAIN Log)
  /\ task \in 0..(NODES_NUM - 1)
  /\ scan \in 1..(NODES_NUM + 1)
  /\ log_pc # "alloc" => round > 0
  /\ log_pc = "send" => scan <= NODES_NUM
  /\ pc \in [Drones -> HandlerPCs]
  /\ msg \in [Drones -> Ranging]
  /\ pos \in [Drones -> 1..(NODES_NUM + 1)]
  /\ down \in [Drones -> Seq(Message)]
  /\ up \in [Drones -> Seq(Reply)]
  /\ alive \in [Drones -> BOOLEAN]
  /\ RxTimestamp \in [Drones -> Int]
  /\ csv_pos \in [Drones -> 1..(total_rows + 1)]
  /\ received \in [Drones -> Nat]

(* The handlers between broadcast_sem and allocation_sem. *)
Routing == {d \in Drones : pc[d] \in {"resp_wait", "bcast"}}

(* At any time exactly one of these holds: a row may be allocated, or a    *)
(* ranging message may be routed, or the log thread is allocating a row,   *)
(* or one single handler is routing a message (center.c: the hand-over of  *)
(* allocation_sem and broadcast_sem).                                      *)
OnePhaseAtATime ==
  IF allocation_sem + broadcast_sem = 0
    THEN IF log_pc = "alloc" THEN \E h \in Drones : Routing = {h} ELSE Routing = {}
    ELSE allocation_sem + broadcast_sem = 1 /\ log_pc = "alloc" /\ Routing = {}

(* Nobody starts a phase before the phase it depends on has reached every  *)
(* drone: a ranging message is routed only once every drone has read its   *)
(* line of the same round, and it is that round's; the lines of a round    *)
(* are sent only once every receiver of the round before has read its      *)
(* ranging message (the semaphores of center.c:98-99, 187-189).            *)
Barriers ==
  /\ \A h \in Drones : running /\ pc[h] = "bcast" =>
       /\ msg[h].round = round
       /\ \A d \in Drones : received[d] >= 2 * round - 1
  /\ running /\ log_pc \in {"scan", "send", "post"} /\ round > 1 =>
       \A d \in Receivers(round - 1) : received[d] >= 2 * (round - 1)

(* The position of a message in what a drone should read: its line of      *)
(* round n, then the ranging message of round n.                           *)
Number(m) == IF m.kind = "RNG" THEN 2 * m.round ELSE 2 * m.round - 1

(* Every drone is sent its own line and the ranging message of each round, *)
(* in that order, none twice and none left out (center.c:112-150, 57-63).  *)
DeliveredInOrder ==
  \A d \in Drones : alive[d] =>
    \A i \in 1..Len(down[d]) :
      /\ Number(down[d][i]) = received[d] + i
      /\ down[d][i].kind # "RNG" => down[d][i].addr = d

(* RxCallBack uses the reception time of the very round of the message it  *)
(* processes, never one left over from another round (drone.c:175, 266).   *)
StampMatchesMessage ==
  \A d \in Drones :
    alive[d] /\ down[d] # <<>> /\ Head(down[d]).kind = "RNG" /\ Head(down[d]).addr # d =>
      RxTimestamp[d] = Stamp(Head(down[d]).round, d)

(* For a drone that the first receiver column names in every loaded row it *)
(* hears (the only column get_next_RxTimestamp reads), the look-up finds   *)
(* the row it is asked about, if that row was loaded: the cursor never     *)
(* runs ahead of the replay (drone.c:37-58, 89-110).                       *)
CursorFindsRow ==
  \A d \in Drones :
    /\ \A r \in 1..total_rows : d # Log[r].tx => Log[r].rx[1] = d
    /\ alive[d] /\ down[d] # <<>> /\ Head(down[d]).kind = "RNG" /\ Head(down[d]).addr # d
    /\ RxTimestamp[d] \in 1..total_rows
    => CursorMatches(d, RxTimestamp[d]) # {}

(* The phase of LogRounds that the center is in. *)
CurrentPhase ==
  CASE log_pc = "resp" -> 2 * (round - 1)
    [] log_pc \in {"scan", "send", "post"} -> 2 * round - 1
    [] log_pc = "alloc" ->
         IF allocation_sem = 1 \/ \E d \in Drones : pc[d] = "bcast"
           THEN 2 * round ELSE 2 * round - 1

Rounds == INSTANCE LogRounds WITH phase <- CurrentPhase, done <- received

(* The threads and semaphores implement the lock-step rounds of LogRounds. *)
ImplementsRounds == Rounds!Spec

(* The replay ends and every process exits, whatever the scheduling of the *)
(* threads: no round waits for ever on a semaphore (center.c:155-158).     *)
SimulationEnds == <>Ended

(* The center exits only after the ranging message of the last row was     *)
(* re-broadcast.                                                           *)
ExitAfterLastBroadcast == ~running => allocation_sem = 1
=============================================================================
