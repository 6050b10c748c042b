------------------------------ MODULE TraceRing -----------------------------
(***************************************************************************)
(* The reassembly of sniffed records into rows of the flight log           *)
(* (data_process.py).  A record tells when its sender transmitted its      *)
(* previous message and received the latest ones of the others, so that    *)
(* the times of a row come in later records: a ring of slots waits for     *)
(* them, and every DRONE_NUM records the oldest slots are written.  Which  *)
(* drones there are the script finds out before, from the first records.   *)
(* A time is modelled by the message that it is the time of.               *)
(***************************************************************************)
EXTENDS Integers, FiniteSets, SequencesExt

CONSTANTS
  Swarm,         \* addresses of the drones, in the order in which they send
  DRONE_NUM,     \* how many drones the script is told of
  search_lines,  \* records in which it looks for addresses
  MaxMessages,   \* bound: messages sent
  MaxFaults      \* bound: messages unheard, records lost, drones falling silent

buffer_size == 5 * DRONE_NUM
Drones      == Range(Swarm)
Slots       == 0..(buffer_size - 1)
Columns     == 1..(DRONE_NUM - 1)

ASSUME RingAssumption ==
  /\ Swarm \in Seq(Nat \ {0}) \ {<<>>}
  /\ IsInjective(Swarm)
  /\ DRONE_NUM \in Nat /\ DRONE_NUM >= 2
  /\ search_lines \in Nat \ {0}
  /\ {MaxMessages, MaxFaults} \subseteq Nat

VARIABLES
  turn,         \* the drones send in turn
  silent,       \* the drones that do not send
  last_sent,    \* the number of the last message of each drone
  heard,        \* by receiver and sender: the last message received
  faults,       \* how many faults there were so far
  file,         \* the records that the sniffer caught
  stage,        \* of the script: "none", "search", "read", "done", "failed"
  searched,     \* the records that it has searched for addresses,
  addr_set,     \* and the addresses, in the order in which they name them
  records,      \* history: the records that its loop has read
  slot,         \* the ring: what the arrays hold at each position
  buffer_pos,
  rows          \* the output, with the record of each row

swarm  == <<turn, silent, last_sent, heard, faults, file>>
names  == <<searched, addr_set>>
loop   == <<records, slot, buffer_pos, rows>>
script == <<stage, names, loop>>
ring   == <<swarm, script>>

Message(drone, number) == [src |-> drone, seq |-> number]
None == Message(0, 0)

(* entry: history, which record is in the slot; carried: it came to a slot *)
(* that had not been cleaned up                                            *)
Clean == [src |-> 0, seq |-> 0, Tx_time |-> None,
          Rx_addr |-> [j \in Columns |-> 0], Rx_time |-> [j \in Columns |-> None],
          entry |-> 0, carried |-> FALSE]

RingInit ==
  /\ turn = 1
  /\ silent = {}
  /\ last_sent = [d \in Drones |-> 0]
  /\ heard = [d \in Drones |-> [e \in Drones |-> None]]
  /\ faults = 0
  /\ file = <<>>
  /\ stage = "none"
  /\ searched = 0
  /\ addr_set = <<>>
  /\ records = <<>>
  /\ slot = [i \in Slots |-> Clean]
  /\ buffer_pos = 0
  /\ rows = <<>>

-----------------------------------------------------------------------------
(* get_drones_addr, one record per step *)

Start ==
  /\ stage = "none"
  /\ stage' = "search"
  /\ UNCHANGED <<swarm, names, loop>>

(* IndexError where the file has no record any more *)
Search ==
  /\ stage = "search" /\ searched < search_lines
  /\ IF searched < Len(file)
       THEN LET addr == file[searched + 1].src IN
            /\ addr_set' = IF addr \in Range(addr_set) THEN addr_set ELSE Append(addr_set, addr)
            /\ searched' = searched + 1
            /\ UNCHANGED stage
       ELSE stage' = "failed" /\ UNCHANGED names
  /\ UNCHANGED <<swarm, loop>>

SearchEnd ==
  /\ stage = "search" /\ searched = search_lines
  /\ stage' = "read"
  /\ UNCHANGED <<swarm, names, loop>>

-----------------------------------------------------------------------------
(* A pass of the loop of data_process.py *)

(* The receivers of a record, in the order of addr_set: addr_pos goes past *)
(* the sender.                                                             *)
addr_pos(src, j)  ==
  IF \E i \in 1..Len(addr_set) : i <= j /\ addr_set[i] = src THEN j + 1 ELSE j
Receivers(src)    == [j \in Columns |-> addr_set[addr_pos(src, j)]]

(* IndexError otherwise *)
Receivable(src) == \A j \in Columns : addr_pos(src, j) <= Len(addr_set)

(* The record takes its slot; the times in it are left alone.  Rx_time of  *)
(* the slot holds by column, whatever drone the column was for.            *)
Stored(record) ==
  [slot EXCEPT ![buffer_pos] =
    [@ EXCEPT !.src = record.src, !.seq = record.seq,
              !.Rx_addr = Receivers(record.src),
              !.entry = Len(records) + 1,
              !.carried = slot[buffer_pos].src # 0]]

(* Mutant of Names: a slot is looked for by the number alone. *)
NamesBySeq(s, message) == s.src # 0 /\ s.seq = message.seq

Names(s, message) == s.src = message.src /\ s.seq = message.seq

(* The times that a record carries go to the slots of their messages. *)
Timed(held, record) ==
  [i \in Slots |->
    [held[i] EXCEPT
       !.Tx_time = IF Names(held[i], record.tx) THEN record.tx ELSE @,
       !.Rx_time = [j \in Columns |->
         LET mine == {m \in record.rx : Names(held[i], m) /\ held[i].Rx_addr[j] = record.src}
         IN IF mine = {} THEN @[j] ELSE CHOOSE m \in mine : TRUE]]]

(* The positions written after the record in hand, oldest first *)
Due(held) ==
  IF (buffer_pos + 1) % DRONE_NUM = 0 /\ held[2 * DRONE_NUM - 1].src # 0
    THEN [i \in 1..DRONE_NUM |-> (buffer_pos + i) % buffer_size]
    ELSE <<>>

(* Mutant of HasTxTime: rows are written without a transmission time too. *)
AnyRow(s) == s.src # 0

HasTxTime(s) == s.Tx_time # None

(* The output when the first n positions have been looked at *)
Output(held) ==
  LET due == Due(held)
      output[n \in 0..Len(due)] ==
        IF n = 0 THEN rows
        ELSE IF HasTxTime(held[due[n]]) THEN Append(output[n - 1], held[due[n]])
                                       ELSE output[n - 1]
  IN output[Len(due)]

(* The slots written are cleaned up, the others skipped as they are. *)
Written(held) ==
  /\ rows' = Output(held)
  /\ slot' = [i \in Slots |-> IF i \in Range(Due(held)) /\ HasTxTime(held[i]) THEN Clean
                                                                          ELSE held[i]]

Process(record) ==
  /\ Written(Timed(Stored(record), record))
  /\ records' = Append(records, record)
  /\ buffer_pos' = (buffer_pos + 1) % buffer_size

ReadRecord ==
  /\ stage = "read" /\ Len(records) < Len(file)
  /\ LET record == file[Len(records) + 1] IN
       IF Receivable(record.src)
         THEN Process(record) /\ UNCHANGED stage
         ELSE stage' = "failed" /\ UNCHANGED loop
  /\ UNCHANGED <<swarm, names>>

EndOfFile ==
  /\ stage = "read" /\ Len(records) = Len(file)
  /\ stage' = "done"
  /\ UNCHANGED <<swarm, names, loop>>

-----------------------------------------------------------------------------
(* The swarm and the sniffer; the script is run when the capture is over. *)

Sender == Swarm[turn]

(* What a message says of the past: the previous transmission of its       *)
(* sender, and the last reception from each of the others                  *)
Record(d) ==
  [src |-> d, seq |-> last_sent[d] + 1,
   tx  |-> Message(d, last_sent[d]),
   rx  |-> {heard[d][e] : e \in Drones \ {d}} \ {None}]

Broadcast(receivers) ==
  /\ last_sent' = [last_sent EXCEPT ![Sender] = @ + 1]
  /\ heard' = [e \in Drones |-> IF e \in receivers
                 THEN [heard[e] EXCEPT ![Sender] = Message(Sender, last_sent[Sender] + 1)]
                 ELSE heard[e]]

NextTurn == turn' = (turn % Len(Swarm)) + 1

Sent == FoldFunction(LAMBDA n, sum : n + sum, 0, last_sent)

Send ==
  /\ stage = "none" /\ Sent < MaxMessages
  /\ Sender \notin silent
  /\ \E missed \in SUBSET (Drones \ {Sender}), caught \in BOOLEAN :
       LET cost == Cardinality(missed) + IF caught THEN 0 ELSE 1
       IN /\ faults + cost <= MaxFaults
          /\ faults' = faults + cost
          /\ Broadcast(Drones \ ({Sender} \cup missed))
          /\ file' = IF caught THEN Append(file, Record(Sender)) ELSE file
  /\ NextTurn
  /\ UNCHANGED <<silent, script>>

(* A drone falls silent when it is its turn, or takes part again. *)
Toggle ==
  /\ stage = "none" /\ Sent < MaxMessages
  /\ faults < MaxFaults
  /\ faults' = faults + 1
  /\ silent' = IF Sender \in silent THEN silent \ {Sender} ELSE silent \cup {Sender}
  /\ silent' # Drones
  /\ UNCHANGED <<turn, last_sent, heard, file, script>>

Pass ==
  /\ stage = "none" /\ Sent < MaxMessages
  /\ Sender \in silent
  /\ NextTurn
  /\ UNCHANGED <<silent, last_sent, heard, faults, file, script>>

RingNext == Send \/ Toggle \/ Pass \/ Start \/ Search \/ SearchEnd \/ ReadRecord \/ EndOfFile

RingSpec == RingInit /\ [][RingNext]_ring

-----------------------------------------------------------------------------
(* Properties *)

(* The record after which the row of a record is due *)
WrittenAt(e) == DRONE_NUM * ((e - 1) \div DRONE_NUM + 5)

MessageOf(e) == Message(records[e].src, records[e].seq)

(* Its times that are reported until then *)
TxReported(e) == \E k \in e..WrittenAt(e) : records[k].tx = MessageOf(e)

RxReported(e, d) ==
  \E k \in e..WrittenAt(e) : records[k].src = d /\ MessageOf(e) \in records[k].rx

DueEntries == {e \in 1..Len(records) : WrittenAt(e) <= Len(records)}

RowEntries == [k \in 1..Len(rows) |-> rows[k].entry]

(* The script fails before its first row or not at all: where the file is  *)
(* shorter than the search for addresses, or names too few drones in the   *)
(* records searched.  Otherwise it reads the file to its end, also if      *)
(* drones it has not found send later.                                     *)
ScriptOutcome ==
  LET named    == {file[k].src : k \in 1..search_lines}
      suitable == Len(file) >= search_lines /\ Cardinality(named) >= DRONE_NUM
  IN /\ stage = "failed" => ~suitable /\ rows = <<>>
     /\ stage = "done" => suitable /\ records = file

(* The script fails before its first row or not at all.  Each record whose *)
(* transmission time is reported before its row is due becomes a row, once *)
(* and in the order of the records, whatever reception times it has; a     *)
(* record without a transmission time becomes a row only in a slot that    *)
(* was not cleaned up (get_drones_addr, the index into addr_set, the       *)
(* writing of data_process.py and its continue).                           *)
RowsComplete ==
  /\ ScriptOutcome
  /\ \A k \in 2..Len(rows) : RowEntries[k - 1] < RowEntries[k]
  /\ Range(RowEntries) \subseteq DueEntries
  /\ \A e \in DueEntries : TxReported(e) => e \in Range(RowEntries)
  /\ \A k \in 1..Len(rows) : ~TxReported(RowEntries[k]) => rows[k].carried

(* The times in a row are those that were reported of its own message, and *)
(* all of them: each receiver has its time in its own column, and a        *)
(* receiver that did not report one has none.  Where that is not so, the   *)
(* slot was not cleaned up when it was last due, and the time was left     *)
(* there by another message.                                               *)
RowsExact ==
  \A k \in 1..Len(rows) :
    LET row == rows[k]
        own == Message(row.src, row.seq)
    IN /\ own = MessageOf(row.entry)
       /\ row.Tx_time = own \/ row.carried
       /\ \A j \in Columns :
            IF RxReported(row.entry, row.Rx_addr[j]) THEN row.Rx_time[j] = own
                                                     ELSE row.Rx_time[j] = None \/ row.carried
=============================================================================
