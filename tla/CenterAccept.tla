---------------------------- MODULE CenterAccept ----------------------------
(***************************************************************************)
(* The connection phase of the control center (center.c): main accepts     *)
(* connections one at a time and passes the table's mutex to the new       *)
(* handler thread, which unlocks it once its drone is registered; main     *)
(* waits for that by locking the mutex a second time, and starts the       *)
(* flight log when the table holds NODES_NUM entries.  Until then drones   *)
(* may end and connect again.                                              *)
(***************************************************************************)
EXTENDS Integers, FiniteSets, SequencesExt

CONSTANTS
  Drones,          \* the drones the flight log is about
  MaxAttempts,     \* bound: connections one drone makes
  CreateMayFail,   \* TRUE iff pthread_create may fail
  LogMayBeMissing  \* TRUE iff FILE_NAME may be unreadable or empty

NODES_NUM == Cardinality(Drones)

ASSUME AcceptAssumption ==
  /\ IsFiniteSet(Drones)
  /\ NODES_NUM >= 1
  /\ MaxAttempts \in Nat \ {0}
  /\ CreateMayFail \in BOOLEAN
  /\ LogMayBeMissing \in BOOLEAN

(* A connection is one attempt of one drone. *)
Connections == Drones \X (1..MaxAttempts)
DroneOf(c)  == c[1]

Free == <<>>     \* nobody holds the mutex
None == <<>>     \* main has no connection in hand

VARIABLES
  peer,       \* by connection, the drone's end: "unused", "open", "closed"
  named,      \* the connections over which an address was sent
  backlog,    \* connections waiting for accept()
  main_pc,    \* "accept", "lock", "relock", "start", "replay", "absent", "failed"
  current,    \* the connection main has in hand, or None
  mutex,      \* Free, or the connection it was locked for
  handler,    \* by connection: "none", "handshake", "serving", "leaving", "ended"
  node        \* the entries of droneNodeSet, as connections; count is its length

drone == <<peer, named>>
vars  == <<drone, backlog, main_pc, current, mutex, handler, node>>

count == Len(node)

Init ==
  /\ peer = [c \in Connections |-> "unused"]
  /\ named = {}
  /\ backlog = <<>>
  /\ main_pc = "accept"
  /\ current = None
  /\ mutex = Free
  /\ handler = [c \in Connections |-> "none"]
  /\ node = <<>>

-----------------------------------------------------------------------------
(* The drones: connect, send the address, end at any time and try again.   *)

Connect(c) ==
  /\ peer[c] = "unused"
  /\ \A k \in 1..(c[2] - 1) : peer[<<c[1], k>>] = "closed"
  /\ Len(backlog) < NODES_NUM
  /\ peer' = [peer EXCEPT ![c] = "open"]
  /\ backlog' = Append(backlog, c)
  /\ UNCHANGED <<named, main_pc, current, mutex, handler, node>>

SendAddress(c) ==
  /\ peer[c] = "open"
  /\ c \notin named
  /\ named' = named \cup {c}
  /\ UNCHANGED <<peer, backlog, main_pc, current, mutex, handler, node>>

Close(c) ==
  /\ peer[c] = "open"
  /\ peer' = [peer EXCEPT ![c] = "closed"]
  /\ UNCHANGED <<named, backlog, main_pc, current, mutex, handler, node>>

-----------------------------------------------------------------------------
(* main *)

Accept ==
  /\ main_pc = "accept"
  /\ backlog # <<>>
  /\ current' = Head(backlog)
  /\ backlog' = Tail(backlog)
  /\ main_pc' = "lock"
  /\ UNCHANGED <<drone, mutex, handler, node>>

(* Mutant of CreateHandler: the mutex is not locked for the handler. *)
CreateUnlocked ==
  /\ main_pc = "lock"
  /\ handler' = [handler EXCEPT ![current] = "handshake"]
  /\ main_pc' = "relock"
  /\ UNCHANGED <<drone, backlog, current, mutex, node>>

(* Lock the mutex for the handler that is about to start *)
CreateHandler ==
  /\ main_pc = "lock"
  /\ mutex = Free
  /\ mutex' = current
  /\ handler' = [handler EXCEPT ![current] = "handshake"]
  /\ main_pc' = "relock"
  /\ UNCHANGED <<drone, backlog, current, node>>

(* pthread_create fails: the socket is closed, the mutex stays locked *)
CreateFails ==
  /\ CreateMayFail
  /\ main_pc = "lock"
  /\ mutex = Free
  /\ mutex' = current
  /\ handler' = [handler EXCEPT ![current] = "ended"]
  /\ main_pc' = "relock"
  /\ UNCHANGED <<drone, backlog, current, node>>

(* Mutant of CheckCount: one drone may be missing. *)
CheckAlmost ==
  /\ main_pc = "relock"
  /\ mutex = Free
  /\ main_pc' = IF count >= NODES_NUM - 1 THEN "start" ELSE "accept"
  /\ current' = None
  /\ UNCHANGED <<drone, backlog, mutex, handler, node>>

(* Lock a second time, compare count, unlock *)
CheckCount ==
  /\ main_pc = "relock"
  /\ mutex = Free
  /\ main_pc' = IF count = NODES_NUM THEN "start" ELSE "accept"
  /\ current' = None
  /\ UNCHANGED <<drone, backlog, mutex, handler, node>>

(* The log thread compares count with the number of drones in the file,    *)
(* without the mutex; a difference ends the process.  Without a file, or   *)
(* with an empty one, the log thread returns and nothing is replayed.      *)
StartLog ==
  /\ main_pc = "start"
  /\ \/ main_pc' = IF count = NODES_NUM THEN "replay" ELSE "failed"
     \/ LogMayBeMissing /\ main_pc' = "absent"
  /\ UNCHANGED <<drone, backlog, current, mutex, handler, node>>

-----------------------------------------------------------------------------
(* The handler threads *)

Running == main_pc # "failed"

(* Mutant of Register: the mutex stays locked. *)
RegisterKeepingLock(c) ==
  /\ Running
  /\ handler[c] = "handshake"
  /\ c \in named
  /\ node' = Append(node, c)
  /\ handler' = [handler EXCEPT ![c] = "serving"]
  /\ UNCHANGED <<drone, backlog, main_pc, current, mutex>>

(* The address arrived: register the connection and unlock the mutex *)
Register(c) ==
  /\ Running
  /\ handler[c] = "handshake"
  /\ c \in named
  /\ node' = Append(node, c)
  /\ mutex' = Free
  /\ handler' = [handler EXCEPT ![c] = "serving"]
  /\ UNCHANGED <<drone, backlog, main_pc, current>>

(* recv() <= 0: the thread returns with the mutex locked *)
HandshakeFails(c) ==
  /\ Running
  /\ handler[c] = "handshake"
  /\ c \notin named
  /\ peer[c] = "closed"
  /\ handler' = [handler EXCEPT ![c] = "ended"]
  /\ UNCHANGED <<drone, backlog, main_pc, current, mutex, node>>

(* The receive loop ends *)
LeaveLoop(c) ==
  /\ Running
  /\ handler[c] = "serving"
  /\ peer[c] = "closed"
  /\ handler' = [handler EXCEPT ![c] = "leaving"]
  /\ UNCHANGED <<drone, backlog, main_pc, current, mutex, node>>

(* Mutant of Unregister: the entry is found by address, not by socket. *)
UnregisterByAddress(c) ==
  /\ Running
  /\ handler[c] = "leaving"
  /\ mutex = Free
  /\ node' = SelectSeq(node, LAMBDA e : DroneOf(e) # DroneOf(c))
  /\ handler' = [handler EXCEPT ![c] = "ended"]
  /\ UNCHANGED <<drone, backlog, main_pc, current, mutex>>

(* The first entry with this handler's socket *)
EntryOf(c) == CHOOSE i \in 1..count : node[i] = c /\ \A j \in 1..(i - 1) : node[j] # c

(* Under the mutex, the entry is removed and those behind it move down *)
Unregister(c) ==
  /\ Running
  /\ handler[c] = "leaving"
  /\ mutex = Free
  /\ node' = IF c \in ToSet(node) THEN RemoveAt(node, EntryOf(c)) ELSE node
  /\ handler' = [handler EXCEPT ![c] = "ended"]
  /\ UNCHANGED <<drone, backlog, main_pc, current, mutex>>

-----------------------------------------------------------------------------
Main == Accept \/ CreateHandler \/ CreateFails \/ CheckCount \/ StartLog

Handler(c) == Register(c) \/ HandshakeFails(c) \/ LeaveLoop(c) \/ Unregister(c)

Next ==
  \/ Main
  \/ \E c \in Connections : Connect(c) \/ SendAddress(c) \/ Close(c) \/ Handler(c)

Spec == Init /\ [][Next]_vars

(* main and the handlers run while they can; every drone connects and      *)
(* sends its address unless it ends first.                                 *)
Fairness ==
  /\ WF_vars(Main)
  /\ \A c \in Connections :
       WF_vars(Handler(c)) /\ WF_vars(Connect(c)) /\ WF_vars(SendAddress(c))

FairSpec == Spec /\ Fairness

-----------------------------------------------------------------------------
(* Properties *)

(* At most one handler is in its handshake, it is the one main locked the  *)
(* mutex for, and no entry is removed meanwhile: registration needs no     *)
(* lock of its own (center.c:174-177, 276-286).                            *)
HandOver ==
  \A c \in Connections :
    handler[c] = "handshake" => mutex = c /\ main_pc = "relock" /\ current = c

(* The table holds exactly the connections that are served or being left,  *)
(* each once, and never outgrows its NODES_NUM entries, although drones    *)
(* end and reconnect while others register (center.c:174-176, 205-219).    *)
TableExact ==
  /\ count <= NODES_NUM
  /\ IsInjective(node)
  /\ ToSet(node) = {c \in Connections : handler[c] \in {"serving", "leaving"}}

(* As long as no drone has ended, the log starts only with every drone in  *)
(* the table (center.c:285-290).                                           *)
CompleteUnlessOneEnded ==
  main_pc \in {"start", "replay"} /\ (\A c \in Connections : peer[c] # "closed") =>
    {DroneOf(c) : c \in ToSet(node)} = Drones

(* If no drone ends and no thread creation fails, the log thread gets as   *)
(* far as its file, and replays it if it is there.                         *)
LogStarts ==
  <>(main_pc \in {"replay", "absent"} \/ \E c \in Connections : peer[c] = "closed" \/ handler[c] = "ended")

(* When the log starts every drone is connected (the comment of            *)
(* center.c:285: "make sure all drones connected before broadcast").       *)
AllDronesConnected ==
  main_pc = "start" => {DroneOf(c) : c \in ToSet(node)} = Drones
=============================================================================
