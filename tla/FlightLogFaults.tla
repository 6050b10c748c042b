--------------------------- MODULE FlightLogFaults ---------------------------
(***************************************************************************)
(* FlightLogSim with drones that may end at any time and the handlers'     *)
(* answer to it: the end of the receive loop, the removal of the drone     *)
(* from the node table under the table's mutex, one entry copied at a      *)
(* time, while the log thread and the other handlers go on reading the     *)
(* table without that mutex; and main, which returns when the table is     *)
(* empty.                                                                  *)
(***************************************************************************)
EXTENDS FlightLogSim

CONSTANT Faulty    \* the drones that may end before the center does

ASSUME FaultyAssumption == Faulty \subseteq Drones

VARIABLE mutex     \* the handler inside droneNodeSet->mutex, or NoNode

faultVars == <<vars, mutex>>

FaultInit == Init /\ mutex = NoNode

(* The drone's process ends: what its socket holds is lost with it. *)
Crash(d) ==
  /\ alive[d]
  /\ alive' = [alive EXCEPT ![d] = FALSE]
  /\ down' = [down EXCEPT ![d] = <<>>]
  /\ UNCHANGED <<running, center, up, drone, mutex>>

(* recv() <= 0 in the handler: what the drone had sent is read before *)
EndOfStream(d) ==
  /\ running
  /\ pc[d] = "recv"
  /\ ~alive[d]
  /\ up[d] = <<>>
  /\ pc' = [pc EXCEPT ![d] = "lock"]
  /\ UNCHANGED <<running, table, semaphores, response_count, logVars, msg, pos, down, up,
                 alive, drone, mutex>>

(* Mutant of LockTable: the handler does not wait for the mutex. *)
FindUnlocked(d) ==
  /\ running
  /\ pc[d] = "lock"
  /\ mutex' = d
  /\ \E i \in 1..count : node[i] = d /\ pos' = [pos EXCEPT ![d] = i]
  /\ pc' = [pc EXCEPT ![d] = "shift"]
  /\ UNCHANGED <<running, table, semaphores, response_count, logVars, msg, down, up, alive,
                 drone>>

(* Lock the table and find the first entry with this handler's socket *)
LockTable(d) ==
  /\ running
  /\ pc[d] = "lock"
  /\ mutex = NoNode
  /\ mutex' = d
  /\ \E i \in 1..count :
       /\ node[i] = d
       /\ \A j \in 1..(i - 1) : node[j] # d
       /\ pos' = [pos EXCEPT ![d] = i]
  /\ pc' = [pc EXCEPT ![d] = "shift"]
  /\ UNCHANGED <<running, table, semaphores, response_count, logVars, msg, down, up, alive,
                 drone>>

(* node[j - 1] = node[j]: one entry moves down *)
ShiftEntry(d) ==
  /\ running
  /\ pc[d] = "shift"
  /\ pos[d] < count
  /\ node' = [node EXCEPT ![pos[d]] = node[pos[d] + 1]]
  /\ pos' = [pos EXCEPT ![d] = @ + 1]
  /\ UNCHANGED <<running, count, semaphores, response_count, logVars, pc, msg, down, up,
                 alive, drone, mutex>>

(* memset of the last entry *)
ClearLast(d) ==
  /\ running
  /\ pc[d] = "shift"
  /\ pos[d] = count
  /\ node' = [node EXCEPT ![count] = NoNode]
  /\ pc' = [pc EXCEPT ![d] = "drop"]
  /\ UNCHANGED <<running, count, semaphores, response_count, logVars, msg, pos, down, up,
                 alive, drone, mutex>>

(* Mutants of DropLast: the mutex stays locked; the handler that leaves     *)
(* lets the log thread go on.                                              *)
DropKeepingLock(d) ==
  /\ running
  /\ pc[d] = "drop"
  /\ count' = count - 1
  /\ pc' = [pc EXCEPT ![d] = "closed"]
  /\ UNCHANGED <<running, node, semaphores, response_count, logVars, msg, pos, down, up,
                 alive, drone, mutex>>

DropPosting(d) ==
  /\ running
  /\ pc[d] = "drop"
  /\ count' = count - 1
  /\ mutex' = NoNode
  /\ pc' = [pc EXCEPT ![d] = "closed"]
  /\ allocation_sem' = allocation_sem + 1
  /\ UNCHANGED <<running, node, broadcast_sem, response_sem, response_count, logVars, msg,
                 pos, down, up, alive, drone>>

(* count--, unlock, close: the handler thread ends *)
DropLast(d) ==
  /\ running
  /\ pc[d] = "drop"
  /\ count' = count - 1
  /\ mutex' = NoNode
  /\ pc' = [pc EXCEPT ![d] = "closed"]
  /\ UNCHANGED <<running, node, semaphores, response_count, logVars, msg, pos, down, up,
                 alive, drone>>

(* main leaves its loop on count and returns, which ends the process *)
MainReturns ==
  /\ running
  /\ count = 0
  /\ running' = FALSE
  /\ UNCHANGED <<center, down, up, alive, drone, mutex>>

Removal(d) ==
  EndOfStream(d) \/ LockTable(d) \/ ShiftEntry(d) \/ ClearLast(d) \/ DropLast(d)

FaultNext ==
  \/ LogThread /\ UNCHANGED mutex
  \/ \E d \in Drones : (Handler(d) \/ Drone(d)) /\ UNCHANGED mutex
  \/ \E d \in Drones : Removal(d)
  \/ \E d \in Faulty : Crash(d)
  \/ MainReturns

FaultSpec == FaultInit /\ [][FaultNext]_faultVars

(***************************************************************************)
(* Threads keep running; nothing forces a drone to end, and main's         *)
(* unsynchronised read of count need never see it change.                  *)
(***************************************************************************)
FaultFairness ==
  /\ WF_faultVars(LogThread /\ UNCHANGED mutex)
  /\ \A d \in Drones :
       /\ WF_faultVars(Handler(d) /\ UNCHANGED mutex)
       /\ WF_faultVars(Drone(d) /\ UNCHANGED mutex)
       /\ WF_faultVars(Removal(d))

FairFaultSpec == FaultSpec /\ FaultFairness

(* Only the handlers that leave are sure to run: the log thread may stop   *)
(* between any two steps, so the end of the log does not end a removal.    *)
RemovalSpec == FaultSpec /\ \A d \in Drones : WF_faultVars(Removal(d))

-----------------------------------------------------------------------------
(* Properties *)

(* Whenever nobody is inside the mutex, the first count entries of the     *)
(* table are exactly the drones not yet removed, each once, and the rest   *)
(* is clear, however many removals ran and in whatever order               *)
(* (center.c:205-220).                                                     *)
TableConsistent ==
  mutex = NoNode =>
    /\ \A d \in Drones :
         pc[d] # "closed" <=> \E i \in 1..count : node[i] = d
    /\ \A i, j \in 1..count : node[i] = node[j] => i = j
    /\ \A i \in 1..NODES_NUM : node[i] = NoNode <=> i > count

(* However a removal disturbs the loops over the table, a drone that stays *)
(* never processes a ranging message with the reception time of another    *)
(* round: it has the right one or none (drone.c:175-180, 266).             *)
NoForeignStamp ==
  \A d \in Drones :
    alive[d] /\ down[d] # <<>> /\ Head(down[d]).kind = "RNG" /\ Head(down[d]).addr # d =>
      RxTimestamp[d] \in {0, Stamp(Head(down[d]).round, d)}

(* A handler that leaves its receive loop always gets its drone out of the *)
(* table, even if no other thread runs: no removal keeps another one       *)
(* waiting for ever (center.c:206-220).                                    *)
RemovalCompletes ==
  \A d \in Drones : pc[d] = "lock" ~> (pc[d] = "closed" \/ ~running)

(* Every drone that goes offline is taken out of the node table, or the    *)
(* center has ended (README.md:154).                                       *)
OfflineDetected ==
  \A d \in Faulty : (running /\ ~alive[d]) ~> (~running \/ pc[d] = "closed")
=============================================================================
