-------------------------- MODULE CenterAcceptProofs --------------------------
(***************************************************************************)
(* Theorems about CenterAccept for any number of drones, of connections    *)
(* and of reconnections: the mutex that main locks and the handler unlocks *)
(* protects the node table, the table is exact and never outgrows its      *)
(* entries, and the log starts complete as long as no drone has ended.     *)
(***************************************************************************)
EXTENDS CenterAccept, FiniteSetTheorems, SequenceTheorems, TLAPS

TypeOK ==
  /\ peer \in [Connections -> {"unused", "open", "closed"}]
  /\ named \subseteq Connections
  /\ backlog \in Seq(Connections)
  /\ main_pc \in {"accept", "lock", "relock", "start", "replay", "absent", "failed"}
  /\ current \in Connections \cup {None}
  /\ mutex \in Connections \cup {Free}
  /\ handler \in [Connections -> {"none", "handshake", "serving", "leaving", "ended"}]
  /\ node \in Seq(Connections)

(* A connection waits once, and has no handler before main takes it.       *)
QueueInv ==
  /\ IsInjective(backlog)
  /\ \A c \in Connections : peer[c] = "unused" =>
       handler[c] = "none" /\ c \notin ToSet(backlog) /\ c # current
  /\ \A c \in ToSet(backlog) : handler[c] = "none" /\ c # current
  /\ main_pc = "lock" => current \in Connections /\ handler[current] = "none"
  /\ main_pc = "relock" => current \in Connections

(* The mutex that is locked is the one main locked for its connection, and *)
(* there is room for that one.                                             *)
RoomInv ==
  /\ mutex # Free => main_pc = "relock" /\ mutex = current /\ count < NODES_NUM
  /\ main_pc \in {"accept", "lock"} => count < NODES_NUM

(* A drone connects again only after its connection before has ended.      *)
EndedInv ==
  /\ \A c \in Connections : handler[c] = "leaving" => peer[c] = "closed"
  /\ \A c \in Connections : peer[c] # "unused" =>
       \A k \in 1..(c[2] - 1) : peer[<<c[1], k>>] = "closed"
  /\ main_pc \in {"start", "replay"} /\ (\A c \in Connections : peer[c] # "closed") =>
       count = NODES_NUM

IInv == TypeOK /\ QueueInv /\ HandOver /\ RoomInv /\ TableExact /\ EndedInv

-----------------------------------------------------------------------------
(* The table has room for at least one drone.                              *)
LEMMA NodesNum == NODES_NUM \in Nat /\ NODES_NUM >= 1
  BY AcceptAssumption, FS_CardinalityType DEF NODES_NUM

(* Nobody's connection is the cleared value.                               *)
LEMMA NotFree == \A c \in Connections : c # Free /\ c # None
BY DEF Connections, Free, None

(* Appending a new element to a sequence without repetition                *)
LEMMA AppendNew ==
  ASSUME NEW S, NEW s \in Seq(S), NEW e \in S, IsInjective(s), e \notin ToSet(s)
  PROVE  /\ Append(s, e) \in Seq(S) /\ Len(Append(s, e)) = Len(s) + 1
         /\ IsInjective(Append(s, e))
         /\ ToSet(Append(s, e)) = ToSet(s) \cup {e}
<1> DEFINE t == Append(s, e)
<1>1. /\ t \in Seq(S) /\ Len(t) = Len(s) + 1 /\ Len(s) \in Nat
      /\ \A i \in 1..Len(s) : t[i] = s[i]
      /\ t[Len(s) + 1] = e
  OBVIOUS
<1>2. DOMAIN s = 1..Len(s) /\ DOMAIN t = 1..(Len(s) + 1)
  BY <1>1
<1> HIDE DEF t
<1>3. \A i \in DOMAIN t : i \in DOMAIN s \/ i = Len(s) + 1
  BY <1>1, <1>2
<1>4. \A i \in DOMAIN s : s[i] # e /\ i \in DOMAIN t
  BY <1>1, <1>2 DEF ToSet
<1>5. IsInjective(t)
  BY <1>1, <1>2, <1>3, <1>4 DEF IsInjective
<1>6. ToSet(t) = ToSet(s) \cup {e}
  <2>1. \A x \in ToSet(t) : x \in ToSet(s) \cup {e}
    BY <1>1, <1>2, <1>3 DEF ToSet
  <2>2. \A x \in ToSet(s) : x \in ToSet(t)
    BY <1>1, <1>2, <1>4 DEF ToSet
  <2>3. e \in ToSet(t)
    BY <1>1, <1>2 DEF ToSet
  <2> QED BY <2>1, <2>2, <2>3
<1> QED BY <1>1, <1>5, <1>6 DEF t

(* Taking an element out of a sequence without repetition                  *)
LEMMA RemoveEntry ==
  ASSUME NEW S, NEW s \in Seq(S), IsInjective(s), NEW i \in 1..Len(s)
  PROVE  /\ RemoveAt(s, i) \in Seq(S) /\ Len(RemoveAt(s, i)) = Len(s) - 1
         /\ IsInjective(RemoveAt(s, i))
         /\ ToSet(RemoveAt(s, i)) = ToSet(s) \ {s[i]}
<1> DEFINE a == SubSeq(s, 1, i - 1)
           b == SubSeq(s, i + 1, Len(s))
           t == RemoveAt(s, i)
<1>1. Len(s) \in Nat /\ DOMAIN s = 1..Len(s) /\ i \in Nat /\ i <= Len(s) /\ i >= 1
  OBVIOUS
<1>2. a \in Seq(S) /\ Len(a) = i - 1 /\ \A j \in 1..(i - 1) : a[j] = s[j]
  <2>1. \A j \in 1..(i - 1) : s[j] \in S
    BY <1>1
  <2>2. /\ a \in Seq(S) /\ Len(a) = (IF 1 <= i - 1 THEN i - 1 - 1 + 1 ELSE 0)
        /\ \A j \in 1..(i - 1 - 1 + 1) : a[j] = s[1 + j - 1]
    BY <1>1, <2>1, SubSeqProperties
  <2> HIDE DEF a
  <2>3. Len(a) = i - 1
    <3>1. CASE i = 1
      BY <2>2, <3>1
    <3>2. CASE i > 1
      BY <1>1, <2>2, <3>2
    <3> QED BY <1>1, <3>1, <3>2
  <2>4. ASSUME NEW j \in 1..(i - 1)
        PROVE  a[j] = s[j]
    <3>1. j \in 1..(i - 1 - 1 + 1) /\ 1 + j - 1 = j
      BY <1>1
    <3>2. a[j] = s[1 + j - 1]
      BY <2>2, <3>1
    <3> QED BY <3>1, <3>2
  <2> QED BY <2>2, <2>3, <2>4
<1>3. b \in Seq(S) /\ Len(b) = Len(s) - i /\ \A j \in 1..(Len(s) - i) : b[j] = s[i + j]
  <2>1. \A j \in (i + 1)..Len(s) : s[j] \in S
    BY <1>1
  <2>2. /\ b \in Seq(S) /\ Len(b) = (IF i + 1 <= Len(s) THEN Len(s) - (i + 1) + 1 ELSE 0)
        /\ \A j \in 1..(Len(s) - (i + 1) + 1) : b[j] = s[i + 1 + j - 1]
    BY <1>1, <2>1, SubSeqProperties
  <2> HIDE DEF b
  <2>3. Len(b) = Len(s) - i
    <3>1. Len(b) = IF i + 1 <= Len(s) THEN Len(s) - (i + 1) + 1 ELSE 0
      BY <2>2
    <3>2. (i + 1 <= Len(s) /\ Len(s) - (i + 1) + 1 = Len(s) - i)
          \/ (~(i + 1 <= Len(s)) /\ 0 = Len(s) - i)
      <4>1. \A n, k \in Nat : k <= n =>
              (k + 1 <= n /\ n - (k + 1) + 1 = n - k) \/ (~(k + 1 <= n) /\ 0 = n - k)
        OBVIOUS
      <4> QED BY <1>1, <4>1
    <3> QED BY <3>1, <3>2
  <2>4. ASSUME NEW j \in 1..(Len(s) - i)
        PROVE  b[j] = s[i + j]
    <3>1. j \in 1..(Len(s) - (i + 1) + 1) /\ i + 1 + j - 1 = i + j
      BY <1>1
    <3>2. b[j] = s[i + 1 + j - 1]
      BY <2>2, <3>1
    <3> QED BY <3>1, <3>2
  <2> QED BY <2>2, <2>3, <2>4
<1>4. t = a \o b
  BY DEF RemoveAt
<1> HIDE DEF a, b, t
<1>5. /\ t \in Seq(S) /\ Len(t) = Len(s) - 1
      /\ \A j \in 1..(Len(s) - 1) : t[j] = IF j < i THEN s[j] ELSE s[j + 1]
  <2>1. /\ t \in Seq(S) /\ Len(t) = Len(a) + Len(b)
        /\ \A j \in 1..(Len(a) + Len(b)) : t[j] = IF j <= Len(a) THEN a[j] ELSE b[j - Len(a)]
    BY <1>2, <1>3, <1>4, ConcatProperties
  <2>2. Len(a) + Len(b) = Len(s) - 1
    BY <1>1, <1>2, <1>3
  <2>3. ASSUME NEW j \in 1..(Len(s) - 1)
        PROVE  t[j] = IF j < i THEN s[j] ELSE s[j + 1]
    <3>1. t[j] = IF j <= i - 1 THEN a[j] ELSE b[j - (i - 1)]
      BY <1>2, <2>1, <2>2
    <3>2. CASE j < i
      BY <1>1, <1>2, <3>1, <3>2
    <3>3. CASE ~(j < i)
      <4>1. j - (i - 1) \in 1..(Len(s) - i) /\ i + (j - (i - 1)) = j + 1
        BY <1>1, <3>3
      <4> QED BY <1>1, <1>3, <3>1, <3>3, <4>1
    <3> QED BY <3>2, <3>3
  <2> QED BY <2>1, <2>2, <2>3
<1>6. DOMAIN t = 1..(Len(s) - 1)
  BY <1>5
<1>7. IsInjective(t)
  <2> SUFFICES ASSUME NEW j \in 1..(Len(s) - 1), NEW k \in 1..(Len(s) - 1), t[j] = t[k]
               PROVE  j = k
    BY <1>6 DEF IsInjective
  <2> DEFINE x == IF j < i THEN j ELSE j + 1
             y == IF k < i THEN k ELSE k + 1
  <2>1. x \in DOMAIN s /\ y \in DOMAIN s /\ s[x] = s[y]
    BY <1>1, <1>5
  <2>2. x = y
    BY <2>1 DEF IsInjective
  <2> QED BY <1>1, <2>2
<1>8. ToSet(t) = ToSet(s) \ {s[i]}
  <2>1. ASSUME NEW j \in 1..(Len(s) - 1)
        PROVE  t[j] \in ToSet(s) /\ t[j] # s[i]
    <3> DEFINE x == IF j < i THEN j ELSE j + 1
    <3>1. x \in DOMAIN s /\ i \in DOMAIN s /\ x # i /\ t[j] = s[x]
      BY <1>1, <1>5
    <3> QED BY <3>1 DEF ToSet, IsInjective
  <2>2. ASSUME NEW x \in 1..Len(s), x # i
        PROVE  s[x] \in ToSet(t)
    <3> DEFINE j == IF x < i THEN x ELSE x - 1
    <3>1. j \in 1..(Len(s) - 1) /\ t[j] = s[x]
      BY <1>1, <1>5, <2>2
    <3> QED BY <1>6, <3>1 DEF ToSet
  <2> QED BY <1>1, <1>6, <2>1, <2>2 DEF ToSet
<1> QED BY <1>5, <1>7, <1>8 DEF t

(* The front of a queue without repetition leaves it.                      *)
LEMMA TakeFront ==
  ASSUME NEW S, NEW s \in Seq(S), IsInjective(s), s # <<>>
  PROVE  /\ Head(s) \in ToSet(s) /\ Head(s) \in S
         /\ Tail(s) \in Seq(S) /\ IsInjective(Tail(s))
         /\ ToSet(Tail(s)) = ToSet(s) \ {Head(s)}
<1> DEFINE t == RemoveAt(s, 1)
<1>1. Len(s) \in Nat /\ 1 \in 1..Len(s) /\ Head(s) = s[1]
  BY EmptySeq
<1>2. Tail(s) = t
  <2>1. SubSeq(s, 1, 0) = <<>>
    BY <1>1, SubSeqEmpty
  <2>2. Tail(s) = SubSeq(s, 2, Len(s))
    BY TailIsSubSeq
  <2>3. SubSeq(s, 2, Len(s)) \in Seq(S)
    BY <2>2, HeadTailProperties
  <2>4. t = <<>> \o SubSeq(s, 2, Len(s))
    BY <2>1 DEF RemoveAt
  <2> QED BY <2>2, <2>3, <2>4, ConcatEmptySeq
<1>3. /\ t \in Seq(S) /\ IsInjective(t) /\ ToSet(t) = ToSet(s) \ {s[1]}
  BY <1>1, RemoveEntry
<1>4. s[1] \in ToSet(s) /\ s[1] \in S
  BY <1>1 DEF ToSet
<1> QED BY <1>1, <1>2, <1>3, <1>4

-----------------------------------------------------------------------------
(* Nothing is connected at the start.                                      *)
LEMMA StartsEmpty == Init => IInv
<1> SUFFICES ASSUME Init PROVE IInv
  OBVIOUS
<1>1. <<>> \in Seq(Connections) /\ Len(<<>>) = 0 /\ ToSet(<<>>) = {} /\ IsInjective(<<>>)
  BY DEF ToSet, IsInjective
<1>2. TypeOK
  BY <1>1 DEF Init, TypeOK
<1>3. QueueInv
  BY <1>1, NotFree DEF Init, QueueInv
<1>4. RoomInv /\ TableExact
  BY <1>1, NodesNum DEF Init, RoomInv, TableExact, count
<1>5. HandOver /\ EndedInv
  BY DEF Init, HandOver, EndedInv
<1> QED BY <1>2, <1>3, <1>4, <1>5 DEF IInv

(* A drone connects: its connection is new to every queue and thread.      *)
LEMMA ConnectStep ==
  ASSUME IInv, NEW c \in Connections, Connect(c)
  PROVE  IInv'
<1> USE DEF IInv, Connect
<1>1. backlog' \in Seq(Connections) /\ IsInjective(backlog')
      /\ ToSet(backlog') = ToSet(backlog) \cup {c}
  BY AppendNew DEF TypeOK, QueueInv
<1>2. TypeOK'
  BY <1>1 DEF TypeOK
<1>3. peer'[c] = "open" /\ \A d \in Connections : d # c => peer'[d] = peer[d]
  BY DEF TypeOK
<1>4. QueueInv'
  BY <1>1, <1>3 DEF TypeOK, QueueInv
<1>5. HandOver' /\ RoomInv' /\ TableExact'
  BY DEF HandOver, RoomInv, TableExact, count
<1>6. EndedInv'
  <2>1. \A d \in Connections : handler[d] = "leaving" => peer'[d] = "closed"
    BY <1>3 DEF QueueInv, EndedInv
  <2>2. \A d \in Connections : peer[d] = "closed" => peer'[d] = "closed"
    BY <1>3
  <2>3. \A d \in Connections : \A k \in 1..(d[2] - 1) : <<d[1], k>> \in Connections
    BY AcceptAssumption DEF Connections
  <2>4. \A d \in Connections : peer'[d] # "unused" =>
          \A k \in 1..(d[2] - 1) : peer'[<<d[1], k>>] = "closed"
    BY <1>3, <2>2, <2>3 DEF EndedInv
  <2>5. (\A d \in Connections : peer'[d] # "closed") => \A d \in Connections : peer[d] # "closed"
    BY <2>2
  <2> QED BY <2>1, <2>4, <2>5 DEF EndedInv, count
<1> QED BY <1>2, <1>4, <1>5, <1>6

(* An address on its way changes nothing else.                             *)
LEMMA SendStep ==
  ASSUME IInv, NEW c \in Connections, SendAddress(c)
  PROVE  IInv'
BY DEF IInv, SendAddress, TypeOK, QueueInv, HandOver, RoomInv, TableExact, EndedInv, count

(* A drone ends: its connection stays ended.                               *)
LEMMA CloseStep ==
  ASSUME IInv, NEW c \in Connections, Close(c)
  PROVE  IInv'
<1> USE DEF IInv, Close
<1>1. peer'[c] = "closed" /\ \A d \in Connections : d # c => peer'[d] = peer[d]
  BY DEF TypeOK
<1>2. TypeOK'
  BY DEF TypeOK
<1>3. QueueInv'
  BY <1>1 DEF QueueInv
<1>4. HandOver' /\ RoomInv' /\ TableExact'
  BY DEF HandOver, RoomInv, TableExact, count
<1>5. EndedInv'
  <2>1. \A d \in Connections : \A k \in 1..(d[2] - 1) : <<d[1], k>> \in Connections
    BY AcceptAssumption DEF Connections
  <2> QED BY <1>1, <2>1 DEF EndedInv
<1> QED BY <1>2, <1>3, <1>4, <1>5

(* main takes the front of the queue: nobody else has that connection.     *)
LEMMA AcceptStep ==
  ASSUME IInv, Accept
  PROVE  IInv'
<1> USE DEF IInv, Accept
<1>1. /\ current' \in ToSet(backlog) /\ current' \in Connections
      /\ backlog' \in Seq(Connections) /\ IsInjective(backlog')
      /\ ToSet(backlog') = ToSet(backlog) \ {current'}
  BY TakeFront DEF TypeOK, QueueInv
<1>2. TypeOK'
  BY <1>1 DEF TypeOK, drone
<1>3. QueueInv'
  BY <1>1 DEF QueueInv, drone
<1>4. \A c \in Connections : handler[c] # "handshake"
  BY DEF HandOver
<1>5. HandOver' /\ RoomInv' /\ TableExact'
  BY <1>4 DEF HandOver, RoomInv, TableExact, count
<1>6. EndedInv'
  BY DEF EndedInv, count, drone
<1> QED BY <1>2, <1>3, <1>5, <1>6

(* The new handler is the only one in its handshake: the mutex was free.   *)
LEMMA CreateStep ==
  ASSUME IInv, CreateHandler \/ CreateFails
  PROVE  IInv'
<1> USE DEF IInv, CreateHandler, CreateFails
<1>1. /\ current \in Connections /\ handler[current] = "none" /\ peer[current] # "unused"
      /\ current \notin ToSet(backlog)
  BY DEF QueueInv
<1>2. PICK h \in {"handshake", "ended"} : handler' = [handler EXCEPT ![current] = h]
  OBVIOUS
<1>3. handler'[current] = h /\ \A c \in Connections : c # current => handler'[c] = handler[c]
  BY <1>1, <1>2 DEF TypeOK
<1>4. TypeOK'
  BY <1>1, <1>2 DEF TypeOK, drone
<1>5. QueueInv'
  <2>1. \A d \in Connections : peer[d] = "unused" => handler'[d] = "none" /\ d # current
    BY <1>1, <1>3 DEF QueueInv
  <2>2. \A d \in ToSet(backlog) : handler'[d] = "none" /\ d # current
    BY <1>1, <1>3 DEF QueueInv, TypeOK, ToSet
  <2> QED BY <1>1, <2>1, <2>2 DEF QueueInv, drone
<1>6. HandOver'
  BY <1>1, <1>3, NotFree DEF HandOver
<1>7. RoomInv'
  BY DEF RoomInv, count
<1>8. TableExact'
  BY <1>1, <1>3 DEF TableExact, count
<1>9. EndedInv'
  BY <1>1, <1>3 DEF EndedInv, count, drone
<1> QED BY <1>4, <1>5, <1>6, <1>7, <1>8, <1>9

(* Below NODES_NUM entries main accepts again, at NODES_NUM it goes on.    *)
LEMMA CheckStep ==
  ASSUME IInv, CheckCount
  PROVE  IInv'
<1> USE DEF IInv, CheckCount
<1>1. count \in Nat
  BY DEF TypeOK, count
<1>2. \A c \in Connections : handler[c] # "handshake"
  BY NotFree DEF HandOver
<1>3. TypeOK'
  BY DEF TypeOK, drone
<1>4. QueueInv'
  <2>1. current' = <<>> /\ main_pc' \in {"start", "accept"}
    BY DEF None
  <2>2. \A c \in Connections : c # current'
    BY <2>1, NotFree DEF None
  <2>3. \A c \in ToSet(backlog) : c \in Connections
    BY DEF TypeOK, ToSet
  <2> QED BY <2>1, <2>2, <2>3 DEF QueueInv, drone
<1>5. HandOver' /\ TableExact'
  BY <1>2 DEF HandOver, TableExact, count
<1>6. RoomInv'
  <2>1. count # NODES_NUM => count < NODES_NUM
    BY <1>1, NodesNum DEF TableExact
  <2> QED BY <2>1 DEF RoomInv, count
<1>7. EndedInv'
  BY DEF EndedInv, count, drone
<1> QED BY <1>3, <1>4, <1>5, <1>6, <1>7

(* The log thread only reads the count.                                    *)
LEMMA StartStep ==
  ASSUME IInv, StartLog
  PROVE  IInv'
<1> USE DEF IInv, StartLog
<1>1. \A c \in Connections : handler[c] # "handshake"
  BY DEF HandOver
<1>2. mutex = Free
  BY DEF RoomInv
<1>3. TypeOK' /\ QueueInv'
  BY DEF TypeOK, QueueInv, drone
<1>4. HandOver' /\ RoomInv' /\ TableExact'
  BY <1>1, <1>2 DEF HandOver, RoomInv, TableExact, count
<1>5. EndedInv'
  BY DEF EndedInv, count, drone
<1> QED BY <1>3, <1>4, <1>5

-----------------------------------------------------------------------------
(* The connection main locked the mutex for gets the entry kept for it.    *)
LEMMA RegisterStep ==
  ASSUME IInv, NEW c \in Connections, Register(c)
  PROVE  IInv'
<1> USE DEF IInv, Register
<1>1. main_pc = "relock" /\ current = c /\ mutex = c /\ mutex # Free
  BY NotFree DEF HandOver
<1>2. count \in Nat /\ count + 1 <= NODES_NUM
  BY <1>1, NodesNum DEF RoomInv, TypeOK, count
<1>3. c \notin ToSet(node)
  BY DEF TableExact
<1>4. /\ node' \in Seq(Connections) /\ Len(node') = count + 1
      /\ IsInjective(node') /\ ToSet(node') = ToSet(node) \cup {c}
  BY <1>3, AppendNew DEF TypeOK, TableExact, count
<1>5. handler'[c] = "serving" /\ \A d \in Connections : d # c => handler'[d] = handler[d]
  BY DEF TypeOK
<1>6. TypeOK'
  BY <1>4 DEF TypeOK, drone
<1>7. QueueInv'
  BY <1>1, <1>5 DEF QueueInv, drone
<1>8. HandOver'
  BY <1>1, <1>5 DEF HandOver
<1>9. RoomInv'
  BY <1>1 DEF RoomInv
<1>10. TableExact'
  BY <1>2, <1>4, <1>5 DEF TableExact, count
<1>11. EndedInv'
  BY <1>1, <1>5 DEF EndedInv, drone
<1> QED BY <1>6, <1>7, <1>8, <1>9, <1>10, <1>11

(* A handler that gives up or leaves its loop keeps table and mutex.       *)
LEMMA HandlerStep ==
  ASSUME IInv, NEW c \in Connections, HandshakeFails(c) \/ LeaveLoop(c)
  PROVE  IInv'
<1> USE DEF IInv, HandshakeFails, LeaveLoop
<1>1. handler[c] \in {"handshake", "serving"} /\ peer[c] = "closed"
  OBVIOUS
<1>2. PICK h \in {"leaving", "ended"} :
        /\ handler' = [handler EXCEPT ![c] = h]
        /\ h = "leaving" <=> handler[c] = "serving"
  OBVIOUS
<1>3. handler'[c] = h /\ \A d \in Connections : d # c => handler'[d] = handler[d]
  BY <1>2 DEF TypeOK
<1>4. TypeOK'
  BY <1>2 DEF TypeOK, drone
<1>5. QueueInv'
  <2>1. \A d \in Connections : peer[d] = "unused" => handler'[d] = "none"
    BY <1>1, <1>3 DEF QueueInv
  <2>2. \A d \in ToSet(backlog) : handler'[d] = "none" /\ d # current
    BY <1>1, <1>3 DEF QueueInv, TypeOK, ToSet
  <2>3. main_pc = "lock" => current \in Connections /\ handler'[current] = "none"
    BY <1>1, <1>3 DEF QueueInv
  <2> QED BY <2>1, <2>2, <2>3 DEF QueueInv, drone
<1>6. HandOver' /\ RoomInv'
  BY <1>3 DEF HandOver, RoomInv, count
<1>7. TableExact'
  BY <1>1, <1>2, <1>3 DEF TableExact, count
<1>8. EndedInv'
  BY <1>1, <1>3 DEF EndedInv, count, drone
<1> QED BY <1>4, <1>5, <1>6, <1>7, <1>8

(* A handler that ends takes its own entry out, and no other.              *)
LEMMA UnregisterStep ==
  ASSUME IInv, NEW c \in Connections, Unregister(c)
  PROVE  IInv'
<1> USE DEF IInv, Unregister
<1>1. c \in ToSet(node)
  BY DEF TableExact
<1>2. EntryOf(c) \in 1..count /\ node[EntryOf(c)] = c
  <2>1. PICK i \in 1..count : node[i] = c
    BY <1>1 DEF ToSet, TypeOK, count
  <2>2. \A j \in 1..(i - 1) : node[j] # c
    <3> SUFFICES ASSUME NEW j \in 1..(i - 1), node[j] = c PROVE FALSE
      OBVIOUS
    <3>1. i \in DOMAIN node /\ j \in DOMAIN node /\ i # j
      BY <2>1 DEF TypeOK, count
    <3> QED BY <2>1, <3>1 DEF TableExact, IsInjective
  <2> QED BY <2>1, <2>2 DEF EntryOf
<1>3. /\ node' \in Seq(Connections) /\ Len(node') = count - 1
      /\ IsInjective(node') /\ ToSet(node') = ToSet(node) \ {c}
  BY <1>1, <1>2, RemoveEntry DEF TypeOK, TableExact, count
<1>4. count \in Nat /\ count - 1 <= NODES_NUM /\ (count < NODES_NUM => count - 1 < NODES_NUM)
  BY NodesNum DEF TypeOK, TableExact, count
<1>5. handler'[c] = "ended" /\ \A d \in Connections : d # c => handler'[d] = handler[d]
  BY DEF TypeOK
<1>6. TypeOK'
  BY <1>3 DEF TypeOK, drone
<1>7. QueueInv'
  BY <1>5 DEF QueueInv, drone
<1>8. HandOver'
  BY <1>5 DEF HandOver
<1>9. RoomInv'
  BY <1>3, <1>4 DEF RoomInv, count
<1>10. TableExact'
  BY <1>3, <1>4, <1>5 DEF TableExact, count
<1>11. EndedInv'
  BY <1>5 DEF EndedInv, drone
<1> QED BY <1>6, <1>7, <1>8, <1>9, <1>10, <1>11

-----------------------------------------------------------------------------
(* The inductive invariant of the connection phase: the hand-over of the   *)
(* mutex, the exact table, and the room main leaves for one more entry.    *)
THEOREM AcceptInvariant == Spec => []IInv
<1>1. IInv /\ [Next]_vars => IInv'
  <2> SUFFICES ASSUME IInv, [Next]_vars PROVE IInv'
    OBVIOUS
  <2>1. CASE Accept
    BY <2>1, AcceptStep
  <2>2. CASE CreateHandler \/ CreateFails
    BY <2>2, CreateStep
  <2>3. CASE CheckCount
    BY <2>3, CheckStep
  <2>4. CASE StartLog
    BY <2>4, StartStep
  <2>5. ASSUME NEW c \in Connections,
               Connect(c) \/ SendAddress(c) \/ Close(c) \/ Handler(c)
        PROVE  IInv'
    BY <2>5, ConnectStep, SendStep, CloseStep, RegisterStep, HandlerStep, UnregisterStep
       DEF Handler
  <2>6. CASE UNCHANGED vars
    BY <2>6 DEF vars, drone, IInv, TypeOK, QueueInv, HandOver, RoomInv, TableExact,
                EndedInv, count
  <2> QED BY <2>1, <2>2, <2>3, <2>4, <2>5, <2>6 DEF Next, Main
<1> QED BY <1>1, StartsEmpty, PTL DEF Spec

(* At most one handler is in its handshake, the one main locked the mutex  *)
(* for: the entry is written without a lock of the handler's own.          *)
THEOREM MutexHandedOver == Spec => []HandOver
<1>1. IInv => HandOver
  BY DEF IInv
<1> QED BY <1>1, AcceptInvariant, PTL

(* However drones end and reconnect, the table holds the connections that  *)
(* are served or being left, each once, in at most NODES_NUM entries.      *)
THEOREM TableStaysExact == Spec => []TableExact
<1>1. IInv => TableExact
  BY DEF IInv
<1> QED BY <1>1, AcceptInvariant, PTL

(* As long as no drone has ended, NODES_NUM entries are NODES_NUM drones.  *)
LEMMA FullTable ==
  ASSUME IInv, count = NODES_NUM, \A c \in Connections : peer[c] # "closed"
  PROVE  {DroneOf(c) : c \in ToSet(node)} = Drones
<1> USE DEF IInv
<1>1. /\ count \in Nat /\ DOMAIN node = 1..count
      /\ \A i \in 1..count : node[i] \in Connections /\ node[i] \in ToSet(node)
  BY DEF TypeOK, count, ToSet
<1>2. \A c \in ToSet(node) : c \in Connections /\ peer[c] # "unused" /\ c[2] = 1
  <2> SUFFICES ASSUME NEW c \in ToSet(node)
               PROVE  c \in Connections /\ peer[c] # "unused" /\ c[2] = 1
    OBVIOUS
  <2>1. c \in Connections /\ handler[c] \in {"serving", "leaving"}
    BY DEF TableExact
  <2>2. peer[c] # "unused"
    BY <2>1 DEF QueueInv
  <2>3. c[2] \in Nat /\ c[2] >= 1 /\ c[1] \in Drones /\ <<c[1], 1>> \in Connections
    BY <2>1, AcceptAssumption DEF Connections
  <2>4. \A k \in 1..(c[2] - 1) : peer[<<c[1], k>>] = "closed"
    BY <2>1, <2>2 DEF EndedInv
  <2>5. c[2] = 1
    <3> SUFFICES ASSUME c[2] > 1 PROVE FALSE
      BY <2>3
    <3>1. 1 \in 1..(c[2] - 1)
      BY <2>3
    <3> QED BY <2>3, <2>4, <3>1
  <2> QED BY <2>1, <2>2, <2>5
<1>3. \A c \in ToSet(node) : c = <<c[1], 1>> /\ c[1] \in Drones
  BY <1>2 DEF Connections
<1> DEFINE f == [i \in 1..count |-> node[i][1]]
<1>4. f \in Injection(1..count, Drones)
  <2>1. f \in [1..count -> Drones]
    BY <1>1, <1>3
  <2>2. ASSUME NEW i \in 1..count, NEW j \in 1..count, f[i] = f[j]
        PROVE  i = j
    <3>1. node[i] = node[j]
      BY <1>1, <1>3, <2>2
    <3> QED BY <1>1, <3>1 DEF TableExact, IsInjective
  <2> QED BY <2>1, <2>2 DEF Injection, IsInjective
<1>5. Cardinality(1..count) = count
  BY <1>1, FS_Interval
<1> HIDE DEF f
<1>6. f \in Surjection(1..count, Drones)
  BY <1>4, <1>5, AcceptAssumption, FS_Injection DEF NODES_NUM
<1>7. \A d \in Drones : \E i \in 1..count : node[i][1] = d
  BY <1>6 DEF Surjection, f
<1> QED BY <1>1, <1>3, <1>7 DEF DroneOf

(* The log starts with every drone in the table unless one has ended: the  *)
(* count alone is compared, never the drones.                              *)
THEOREM LogStartsComplete == Spec => []CompleteUnlessOneEnded
<1>1. IInv => CompleteUnlessOneEnded
  BY FullTable DEF IInv, EndedInv, CompleteUnlessOneEnded
<1> QED BY <1>1, AcceptInvariant, PTL
=============================================================================
