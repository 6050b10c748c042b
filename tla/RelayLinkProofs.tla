--------------------------- MODULE RelayLinkProofs --------------------------
(***************************************************************************)
(* Facts about the relay that the proofs about the ground tools share: how *)
(* many ACKs a queue holds when something is added to it or taken from it, *)
(* and that the relay keeps the order in which messages were announced,    *)
(* whatever payload packets are missing and whatever it swallows.          *)
(***************************************************************************)
EXTENDS RelayLink, FiniteSetTheorems, SequenceTheorems, TLAPS

(* What the relay queues for the host *)
Entries == [position : Nat, claim : Nat]

AckPlaces(s) == {k \in 1..Len(s) : s[k] = Ack}
Acks(s)      == Cardinality(AckPlaces(s))

LEMMA AcksFinite ==
  ASSUME NEW s \in Seq(Entries)
  PROVE  IsFiniteSet(AckPlaces(s)) /\ Acks(s) \in Nat
<1>1. IsFiniteSet(1..Len(s))
  BY FS_Interval
<1>2. AckPlaces(s) \subseteq 1..Len(s)
  BY DEF AckPlaces
<1>3. IsFiniteSet(AckPlaces(s))
  BY <1>1, <1>2, FS_Subset
<1> QED BY <1>3, FS_CardinalityType DEF Acks

(* The ACKs of two queues, one behind the other, add up. *)
LEMMA AcksConcat ==
  ASSUME NEW s \in Seq(Entries), NEW t \in Seq(Entries)
  PROVE  Acks(s \o t) = Acks(s) + Acks(t)
<1> DEFINE n == Len(s)
           u == s \o t
           B == {k \in (n + 1)..(n + Len(t)) : t[k - n] = Ack}
<1>1. /\ n \in Nat /\ Len(t) \in Nat
      /\ Len(u) = n + Len(t)
      /\ \A i \in 1..(n + Len(t)) : u[i] = IF i <= n THEN s[i] ELSE t[i - n]
  BY ConcatProperties
<1> HIDE DEF u, n
<1>2. AckPlaces(u) = AckPlaces(s) \cup B
  <2>1. ASSUME NEW k \in AckPlaces(u) PROVE k \in AckPlaces(s) \cup B
    BY <1>1, <2>1 DEF AckPlaces, n
  <2>2. ASSUME NEW k \in AckPlaces(s) PROVE k \in AckPlaces(u)
    BY <1>1, <2>2 DEF AckPlaces, n
  <2>3. ASSUME NEW k \in B PROVE k \in AckPlaces(u)
    BY <1>1, <2>3 DEF AckPlaces
  <2> QED BY <2>1, <2>2, <2>3
<1>3. AckPlaces(s) \cap B = {}
  BY <1>1 DEF AckPlaces, n
<1>4. IsFiniteSet(B) /\ Cardinality(B) = Acks(t)
  <2> DEFINE f == [k \in AckPlaces(t) |-> k + n]
  <2>1. f \in [AckPlaces(t) -> B]
    BY <1>1 DEF AckPlaces
  <2>2. \A i, j \in AckPlaces(t) : f[i] = f[j] => i = j
    BY <1>1 DEF AckPlaces
  <2>3. \A k \in B : \E i \in AckPlaces(t) : f[i] = k
    <3> SUFFICES ASSUME NEW k \in B PROVE k - n \in AckPlaces(t) /\ f[k - n] = k
      OBVIOUS
    <3> QED BY <1>1 DEF AckPlaces
  <2> HIDE DEF f, B
  <2>4. ExistsBijection(AckPlaces(t), B)
    BY <2>1, <2>2, <2>3 DEF ExistsBijection, Bijection, Injection, Surjection, IsInjective
  <2> QED BY <2>4, AcksFinite, FS_Bijection DEF Acks
<1> HIDE DEF B
<1>5. Cardinality(AckPlaces(u)) = Acks(s) + Acks(t) - Cardinality({})
  BY <1>2, <1>3, <1>4, AcksFinite, FS_Union DEF Acks
<1> QED BY <1>5, AcksFinite, FS_EmptySet DEF Acks, u

LEMMA AcksOne ==
  ASSUME NEW e \in Entries
  PROVE  Acks(<<e>>) = IF e = Ack THEN 1 ELSE 0
<1>1. AckPlaces(<<e>>) = IF e = Ack THEN {1} ELSE {}
  BY DEF AckPlaces
<1> QED BY <1>1, FS_EmptySet, FS_Singleton DEF Acks

(* An entry at the end, and one taken from the front *)
LEMMA AcksAppend ==
  ASSUME NEW s \in Seq(Entries), NEW e \in Entries
  PROVE  Append(s, e) \in Seq(Entries) /\ Acks(Append(s, e)) = Acks(s) + IF e = Ack THEN 1 ELSE 0
<1>1. Append(s, e) = s \o <<e>> /\ <<e>> \in Seq(Entries)
  BY AppendIsConcat
<1>2. Acks(s \o <<e>>) = Acks(s) + Acks(<<e>>)
  BY <1>1, AcksConcat
<1>3. Append(s, e) \in Seq(Entries)
  BY AppendProperties
<1>4. Acks(<<e>>) = IF e = Ack THEN 1 ELSE 0
  BY AcksOne
<1> QED BY <1>1, <1>2, <1>3, <1>4

LEMMA AcksTail ==
  ASSUME NEW s \in Seq(Entries), s # <<>>
  PROVE  /\ Tail(s) \in Seq(Entries)
         /\ Acks(s) = (IF Head(s) = Ack THEN 1 ELSE 0) + Acks(Tail(s))
<1>1. Head(s) \in Entries /\ Tail(s) \in Seq(Entries) /\ <<Head(s)>> \in Seq(Entries)
  BY HeadTailProperties
<1>2. s = <<Head(s)>> \o Tail(s)
  <2> DEFINE t == <<Head(s)>> \o Tail(s)
  <2>1. Len(s) \in Nat /\ Len(s) >= 1 /\ Head(s) = s[1]
    BY EmptySeq
  <2>2. /\ t \in Seq(Entries) /\ Len(t) = 1 + Len(Tail(s))
        /\ \A i \in 1..(1 + Len(Tail(s))) : t[i] = IF i <= 1 THEN <<Head(s)>>[i] ELSE Tail(s)[i - 1]
    BY <1>1, ConcatProperties, Len(<<Head(s)>>) = 1
  <2> HIDE DEF t
  <2>3. Len(Tail(s)) = Len(s) - 1 /\ \A i \in 1..(Len(s) - 1) : Tail(s)[i] = s[i + 1]
    BY HeadTailProperties
  <2>4. ASSUME NEW i \in 1..Len(s) PROVE t[i] = s[i]
    <3>1. CASE i = 1
      BY <2>1, <2>2, <2>3, <3>1
    <3>2. CASE i > 1
      <4>1. i - 1 \in 1..(Len(s) - 1) /\ (i - 1) + 1 = i
        BY <2>1, <3>2
      <4> QED BY <2>1, <2>2, <2>3, <3>2, <4>1
    <3> QED BY <2>1, <3>1, <3>2
  <2> QED BY <2>1, <2>2, <2>3, <2>4, SeqEqual DEF t
<1> QED BY <1>1, <1>2, AcksConcat, AcksOne

-----------------------------------------------------------------------------
(* The order of the messages.  A message is announced by its metadata; the *)
(* relay passes announcements on from the endpoint to the message being    *)
(* assembled and to what it has delivered.                                 *)

Announcing == {k \in 1..Len(out) : out[k].meta}
Fresh      == head.message # OldMessage

PacketsOf(M) == [meta : BOOLEAN, message : M, number : Nat]
HeadsOf(M)   == [meta : {TRUE}, message : M \cup {OldMessage}, number : Nat]
Transmissions(M)  == [head : HeadsOf(M), body : Seq(PacketsOf(M))]

RelayTyped(M) ==
  /\ OldMessage \notin M
  /\ out \in Seq(PacketsOf(M))
  /\ in \in Seq(Entries)
  /\ head \in HeadsOf(M)
  /\ body \in Seq(PacketsOf(M))
  /\ head = NoHead => body = <<>>
  /\ ~Fresh => head \in {Meta(OldMessage, n) : n \in 0..StaleParts}
  /\ air \in Seq(Transmissions(M))
  /\ delivered \in Seq(M)

(* num numbers the messages: they are delivered, assembled and announced   *)
(* with growing numbers.                                                   *)
InTurn(num) ==
  /\ \A j, k \in Announcing : j < k => num[out[j].message] < num[out[k].message]
  /\ Fresh => \A k \in Announcing : num[head.message] < num[out[k].message]
  /\ \A i \in 1..Len(delivered) :
       /\ \A k \in Announcing : num[delivered[i]] < num[out[k].message]
       /\ Fresh => num[delivered[i]] < num[head.message]
  /\ \A i, j \in 1..Len(delivered) : i < j => num[delivered[i]] < num[delivered[j]]

(* No message in the relay has a number above bound. *)
UpTo(num, bound) ==
  /\ \A k \in Announcing : num[out[k].message] <= bound
  /\ Fresh => num[head.message] <= bound
  /\ \A i \in 1..Len(delivered) : num[delivered[i]] <= bound

(* The relay starts with nothing of its own. *)
LEMMA RelayStarts ==
  ASSUME NEW M, OldMessage \notin M, RelayInit, NEW num, NEW bound
  PROVE  /\ RelayTyped(M) /\ InTurn(num) /\ UpTo(num, bound)
         /\ out = <<>> /\ ~Fresh
         /\ Acks(in) \in Nat /\ Acks(in) <= StaleAcks
<1>1. /\ out = <<>> /\ body = <<>> /\ air = <<>> /\ delivered = <<>>
      /\ Len(<<>>) = 0
  BY DEF RelayInit
<1>2. PICK parts \in 0..StaleParts : head = Meta(OldMessage, parts)
  BY DEF RelayInit
<1>3. /\ ~Fresh /\ head \in HeadsOf(M)
  BY <1>2, RelayAssumption DEF Fresh, Meta, HeadsOf
<1>4. PICK n \in 0..StaleAcks : in = [k \in 1..n |-> Ack]
  BY DEF RelayInit
<1>5. n \in Nat /\ Len(in) = n /\ Ack \in Entries /\ in \in Seq(Entries)
  <2>1. n \in Nat /\ n <= StaleAcks
    BY RelayAssumption
  <2>2. Ack \in Entries
    BY DEF Ack, Piece, Entries
  <2> QED BY <1>4, <2>1, <2>2
<1>6. AckPlaces(in) = 1..n
  BY <1>4, <1>5 DEF AckPlaces
<1>7. Acks(in) = n
  BY <1>5, <1>6, FS_Interval DEF Acks
<1>8. Announcing = {}
  BY <1>1 DEF Announcing
<1>9. RelayTyped(M)
  BY <1>1, <1>2, <1>3, <1>5 DEF RelayTyped
<1>10. InTurn(num) /\ UpTo(num, bound)
  BY <1>1, <1>3, <1>8 DEF InTurn, UpTo
<1> QED BY <1>1, <1>3, <1>5, <1>7, <1>9, <1>10, RelayAssumption

(* What is behind the front of the endpoint *)
LEMMA OutTail ==
  ASSUME NEW M, RelayTyped(M), out # <<>>, out' = Tail(out)
  PROVE  /\ out' \in Seq(PacketsOf(M)) /\ Len(out') = Len(out) - 1 /\ Len(out) >= 1
         /\ \A k \in 1..Len(out') : k + 1 \in 1..Len(out) /\ out'[k] = out[k + 1]
         /\ Head(out) = out[1] /\ out[1] \in PacketsOf(M) /\ 1 \in 1..Len(out)
         /\ \A k \in Announcing' : k + 1 \in Announcing /\ out'[k] = out[k + 1]
<1>1. out \in Seq(PacketsOf(M)) /\ Len(out) \in Nat /\ Len(out) >= 1
  BY EmptySeq DEF RelayTyped
<1>2. /\ out' \in Seq(PacketsOf(M)) /\ Len(out') = Len(out) - 1
      /\ \A k \in 1..Len(out') : out'[k] = out[k + 1]
  BY <1>1, HeadTailProperties
<1>3. \A k \in 1..Len(out') : k + 1 \in 1..Len(out)
  BY <1>1, <1>2
<1>4. Head(out) = out[1] /\ 1 \in 1..Len(out) /\ out[1] \in PacketsOf(M)
  BY <1>1
<1> QED BY <1>1, <1>2, <1>3, <1>4 DEF Announcing

LEMMA TakeKeeps ==
  ASSUME NEW M, RelayTyped(M), NEW num, InTurn(num), TakePacket
  PROVE  /\ RelayTyped(M)' /\ InTurn(num)' /\ UNCHANGED <<in, air, delivered>>
         /\ \A bound : UpTo(num, bound) => UpTo(num, bound)'
<1>1. /\ out # <<>> /\ out' = Tail(out) /\ UNCHANGED <<in, air, delivered>>
  BY DEF TakePacket
<1>2. /\ out' \in Seq(PacketsOf(M)) /\ Len(out') = Len(out) - 1
      /\ out[1] \in PacketsOf(M) /\ Head(out) = out[1] /\ 1 \in 1..Len(out)
      /\ \A k \in Announcing' : k + 1 \in Announcing /\ out'[k] = out[k + 1]
  BY <1>1, OutTail
<1>3. \A k \in Announcing' : k \in Nat /\ k + 1 > 1
  BY DEF Announcing
<1>7. \A j, k \in Announcing' : j < k => num[out'[j].message] < num[out'[k].message]
  <2> SUFFICES ASSUME NEW j \in Announcing', NEW k \in Announcing', j < k
               PROVE  num[out'[j].message] < num[out'[k].message]
    OBVIOUS
  <2>1. j + 1 < k + 1
    BY <1>3
  <2>2. num[out[j + 1].message] < num[out[k + 1].message]
    BY <1>2, <2>1 DEF InTurn
  <2> QED BY <1>2, <2>2
<1>4. CASE head # NoHead
  <2>1. head' = head /\ body' = Append(body, out[1])
    BY <1>2, <1>4 DEF TakePacket
  <2>2. body' \in Seq(PacketsOf(M))
    BY <1>2, <2>1, AppendProperties DEF RelayTyped
  <2>3. RelayTyped(M)'
    BY <1>1, <1>2, <1>4, <2>1, <2>2 DEF RelayTyped, Fresh
  <2>4. InTurn(num)'
    BY <1>1, <1>2, <1>7, <2>1 DEF InTurn, Fresh
  <2>5. \A bound : UpTo(num, bound) => UpTo(num, bound)'
    BY <1>1, <1>2, <2>1 DEF UpTo, Fresh
  <2> QED BY <1>1, <2>3, <2>4, <2>5
<1>5. CASE head = NoHead /\ out[1].meta
  <2>1. head' = out[1] /\ body' = body
    BY <1>2, <1>5 DEF TakePacket
  <2>2. head' \in HeadsOf(M) /\ Fresh' /\ 1 \in Announcing
    BY <1>2, <1>5, <2>1 DEF PacketsOf, HeadsOf, Fresh, RelayTyped, Announcing
  <2>3. RelayTyped(M)'
    BY <1>1, <1>2, <1>5, <2>1, <2>2 DEF RelayTyped
  <2>4. InTurn(num)'
    <3>1. \A k \in Announcing' : num[head'.message] < num[out'[k].message]
      BY <1>2, <1>3, <2>1, <2>2 DEF InTurn
    <3>2. \A i \in 1..Len(delivered) : num[delivered[i]] < num[head'.message]
      BY <2>1, <2>2 DEF InTurn
    <3>3. \A i \in 1..Len(delivered) : \A k \in Announcing' :
            num[delivered[i]] < num[out'[k].message]
      BY <1>2 DEF InTurn
    <3> QED BY <1>1, <1>7, <3>1, <3>2, <3>3 DEF InTurn
  <2>5. \A bound : UpTo(num, bound) => UpTo(num, bound)'
    BY <1>1, <1>2, <2>1, <2>2 DEF UpTo
  <2> QED BY <1>1, <2>3, <2>4, <2>5
<1>6. CASE head = NoHead /\ ~out[1].meta
  <2>1. head' = head /\ body' = body
    BY <1>2, <1>6 DEF TakePacket
  <2>2. RelayTyped(M)'
    BY <1>1, <1>2, <2>1 DEF RelayTyped, Fresh
  <2>3. InTurn(num)'
    BY <1>1, <1>2, <1>7, <2>1 DEF InTurn, Fresh
  <2>4. \A bound : UpTo(num, bound) => UpTo(num, bound)'
    BY <1>1, <1>2, <2>1 DEF UpTo, Fresh
  <2> QED BY <1>1, <2>2, <2>3, <2>4
<1> QED BY <1>4, <1>5, <1>6

(* The assembled message goes out, an ACK for it comes back. *)
LEMMA TransmitKeeps ==
  ASSUME NEW M, RelayTyped(M), NEW num \in [M -> Nat], InTurn(num), Transmit
  PROVE  /\ RelayTyped(M)' /\ InTurn(num)'
         /\ \A bound : UpTo(num, bound) => UpTo(num, bound)'
         /\ out' = out /\ ~Fresh' /\ head' = NoHead /\ body' = <<>>
         /\ Len(air') = Len(air) + 1 /\ Len(air) \in Nat
         /\ Acks(in') = Acks(in) + 1
<1> DEFINE t == [head |-> head, body |-> body]
<1>1. /\ head # NoHead /\ Len(body) = head.number
      /\ air' = Append(air, t) /\ in' = Append(in, Ack)
      /\ head' = NoHead /\ body' = <<>> /\ out' = out
      /\ delivered' = IF Intact(t) THEN Append(delivered, head.message) ELSE delivered
  BY DEF Transmit
<1>2. ~Fresh' /\ NoHead \in HeadsOf(M) /\ NoHead \in {Meta(OldMessage, n) : n \in 0..StaleParts}
  <2>1. 0 \in 0..StaleParts
    BY RelayAssumption
  <2>2. NoHead \in {Meta(OldMessage, n) : n \in 0..StaleParts}
    BY <2>1 DEF NoHead
  <2>3. ~Fresh' /\ NoHead \in HeadsOf(M)
    BY <1>1 DEF Fresh, NoHead, Meta, HeadsOf
  <2> QED BY <2>2, <2>3
<1>3. t \in Transmissions(M) /\ air' \in Seq(Transmissions(M)) /\ Len(air') = Len(air) + 1 /\ Len(air) \in Nat
  BY <1>1, AppendProperties DEF RelayTyped, Transmissions
<1>4. Ack \in Entries
  BY DEF Ack, Piece, Entries
<1>5. in' \in Seq(Entries) /\ Acks(in') = Acks(in) + 1
  BY <1>1, <1>4, AcksAppend DEF RelayTyped
<1>6. CASE Intact(t)
  <2>1. Fresh /\ head.message \in M /\ delivered' = Append(delivered, head.message)
    BY <1>1, <1>6 DEF Intact, Fresh, RelayTyped, HeadsOf
  <2>2. /\ delivered \in Seq(M) /\ Len(delivered) \in Nat
        /\ delivered' \in Seq(M) /\ Len(delivered') = Len(delivered) + 1
        /\ \A i \in 1..Len(delivered) : delivered'[i] = delivered[i]
        /\ delivered'[Len(delivered) + 1] = head.message
    BY <2>1, AppendProperties DEF RelayTyped
  <2>3. \A i \in 1..Len(delivered') : i \in 1..Len(delivered) \/ i = Len(delivered) + 1
    BY <2>2
  <2>4. Announcing' = Announcing
    BY <1>1 DEF Announcing
  <2>5. InTurn(num)'
    <3>1. ASSUME NEW i \in 1..Len(delivered'), NEW k \in Announcing
          PROVE  num[delivered'[i]] < num[out[k].message]
      BY <2>1, <2>2, <2>3, <3>1 DEF InTurn
    <3>2. ASSUME NEW i \in 1..Len(delivered'), NEW j \in 1..Len(delivered'), i < j
          PROVE  num[delivered'[i]] < num[delivered'[j]]
      <4>1. i \in 1..Len(delivered)
        BY <2>2, <3>2
      <4>2. CASE j \in 1..Len(delivered)
        BY <2>2, <3>2, <4>1, <4>2 DEF InTurn
      <4>3. CASE j = Len(delivered) + 1
        BY <2>1, <2>2, <4>1, <4>3 DEF InTurn
      <4> QED BY <2>3, <4>2, <4>3
    <3> QED BY <1>1, <1>2, <2>4, <3>1, <3>2 DEF InTurn
  <2>6. \A bound : UpTo(num, bound) => UpTo(num, bound)'
    BY <1>1, <1>2, <2>1, <2>2, <2>3, <2>4 DEF UpTo
  <2>7. RelayTyped(M)'
    BY <1>1, <1>2, <1>3, <1>5, <2>2 DEF RelayTyped, Fresh
  <2> QED BY <1>1, <1>2, <1>3, <1>5, <2>5, <2>6, <2>7
<1>7. CASE ~Intact(t)
  <2>1. delivered' = delivered /\ Announcing' = Announcing
    BY <1>1, <1>7 DEF Announcing
  <2>2. InTurn(num)'
    BY <1>1, <1>2, <2>1 DEF InTurn
  <2>3. \A bound : UpTo(num, bound) => UpTo(num, bound)'
    BY <1>1, <1>2, <2>1 DEF UpTo
  <2>4. RelayTyped(M)'
    BY <1>1, <1>2, <1>3, <1>5, <2>1 DEF RelayTyped, Fresh
  <2> QED BY <1>1, <1>2, <1>3, <1>5, <2>2, <2>3, <2>4
<1> QED BY <1>6, <1>7

(* An overheard frame is no ACK. *)
LEMMA SniffKeeps ==
  ASSUME NEW M, RelayTyped(M), NEW f \in Nat \ {0}, NEW p \in Nat, Sniff(Piece(f, p))
  PROVE  /\ in' \in Seq(Entries) /\ Acks(in') = Acks(in)
         /\ UNCHANGED <<out, head, body, air, delivered>>
<1>1. Piece(f, p) \in Entries /\ Piece(f, p) # Ack
  BY DEF Ack, Piece, Entries
<1>2. in' = Append(in, Piece(f, p)) /\ UNCHANGED <<out, head, body, air, delivered>>
  BY DEF Sniff
<1>3. Acks(in) \in Nat
  BY AcksFinite DEF RelayTyped
<1>4. in' \in Seq(Entries) /\ Acks(in') = Acks(in) + 0
  BY <1>1, <1>2, AcksAppend DEF RelayTyped
<1> QED BY <1>2, <1>3, <1>4

(* The host writes a packet, or a transfer fails that may have got through.*)
LEMMA OutAppend ==
  ASSUME NEW M, RelayTyped(M), NEW p \in PacketsOf(M), Written(p)
  PROVE  /\ out' \in Seq(PacketsOf(M)) /\ Len(out') = Len(out) + 1 /\ Len(out) \in Nat
         /\ \A k \in 1..Len(out) : k \in 1..Len(out') /\ out'[k] = out[k]
         /\ out'[Len(out')] = p
         /\ \A k \in 1..Len(out') : k \in 1..Len(out) \/ k = Len(out')
<1>1. out \in Seq(PacketsOf(M)) /\ out' = Append(out, p) /\ Len(out) \in Nat
  BY DEF RelayTyped, Written
<1>2. /\ out' \in Seq(PacketsOf(M)) /\ Len(out') = Len(out) + 1
      /\ \A k \in 1..Len(out) : out'[k] = out[k]
      /\ out'[Len(out) + 1] = p
  BY <1>1, AppendProperties
<1> QED BY <1>1, <1>2

(* A payload packet announces nothing. *)
LEMMA WriteDataKeeps ==
  ASSUME NEW M, RelayTyped(M), NEW num, InTurn(num), NEW m \in M, NEW n \in Nat,
         Written(Data(m, n)), UNCHANGED <<in, head, body, air, delivered>>
  PROVE  /\ RelayTyped(M)' /\ InTurn(num)'
         /\ \A bound : UpTo(num, bound) => UpTo(num, bound)'
<1>1. Data(m, n) \in PacketsOf(M) /\ ~Data(m, n).meta
  BY DEF Data, PacketsOf
<1>2. /\ out' \in Seq(PacketsOf(M))
      /\ \A k \in Announcing' : k \in Announcing /\ out'[k] = out[k]
  BY <1>1, OutAppend DEF Announcing
<1>3. InTurn(num)'
  BY <1>2 DEF InTurn, Fresh
<1>4. \A bound : UpTo(num, bound) => UpTo(num, bound)'
  BY <1>2 DEF UpTo, Fresh
<1>5. RelayTyped(M)'
  BY <1>2 DEF RelayTyped, Fresh
<1> QED BY <1>3, <1>4, <1>5

(* A message with a number above all others is announced in turn. *)
LEMMA WriteMetaKeeps ==
  ASSUME NEW M, RelayTyped(M), NEW num \in [M -> Nat], InTurn(num), NEW m \in M, NEW n \in Nat,
         NEW bound \in Nat, UpTo(num, bound), bound < num[m],
         Written(Meta(m, n)), UNCHANGED <<in, head, body, air, delivered>>
  PROVE  RelayTyped(M)' /\ InTurn(num)' /\ UpTo(num, num[m])'
<1>1. Meta(m, n) \in PacketsOf(M) /\ Meta(m, n).meta /\ Meta(m, n).message = m
  BY DEF Meta, PacketsOf
<1>2. /\ out' \in Seq(PacketsOf(M)) /\ Len(out) \in Nat /\ Len(out') = Len(out) + 1
      /\ out'[Len(out')].message = m
      /\ \A k \in Announcing' : (k \in Announcing /\ out'[k] = out[k]) \/ k = Len(out')
      /\ \A k \in Announcing : k < Len(out')
  BY <1>1, OutAppend DEF Announcing
<1>3. /\ num[m] \in Nat
      /\ \A k \in Announcing : num[out[k].message] \in Nat
      /\ Fresh => num[head.message] \in Nat
      /\ \A i \in 1..Len(delivered) : num[delivered[i]] \in Nat
  <2>1. \A k \in Announcing : out[k] \in PacketsOf(M)
    BY DEF RelayTyped, Announcing
  <2>2. \A k \in Announcing : out[k].message \in M
    BY <2>1 DEF PacketsOf
  <2>3. Fresh => head.message \in M
    BY DEF RelayTyped, HeadsOf, Fresh
  <2>4. \A i \in 1..Len(delivered) : delivered[i] \in M
    BY DEF RelayTyped
  <2> QED BY <2>2, <2>3, <2>4
<1>4. /\ \A k \in Announcing : num[out[k].message] < num[m]
      /\ Fresh => num[head.message] < num[m]
      /\ \A i \in 1..Len(delivered) : num[delivered[i]] < num[m]
  BY <1>3 DEF UpTo
<1>5. InTurn(num)'
  <2>1. ASSUME NEW j \in Announcing', NEW k \in Announcing', j < k
        PROVE  num[out'[j].message] < num[out'[k].message]
    <3>1. CASE k = Len(out')
      <4>1. j # Len(out')
        BY <1>2, <2>1, <3>1
      <4> QED BY <1>2, <1>4, <3>1, <4>1
    <3>2. CASE k \in Announcing /\ out'[k] = out[k]
      <4>1. j # Len(out')
        BY <1>2, <2>1, <3>2 DEF Announcing
      <4> QED BY <1>2, <2>1, <3>2, <4>1 DEF InTurn
    <3> QED BY <1>2, <3>1, <3>2
  <2>2. Fresh => \A k \in Announcing' : num[head.message] < num[out'[k].message]
    BY <1>2, <1>4 DEF InTurn
  <2>3. \A i \in 1..Len(delivered) : \A k \in Announcing' : num[delivered[i]] < num[out'[k].message]
    BY <1>2, <1>4 DEF InTurn
  <2> QED BY <2>1, <2>2, <2>3 DEF InTurn, Fresh
<1>6. UpTo(num, num[m])'
  <2>1. \A k \in Announcing' : num[out'[k].message] <= num[m]
    BY <1>2, <1>3, <1>4
  <2>2. Fresh => num[head.message] <= num[m]
    BY <1>3, <1>4
  <2>3. \A i \in 1..Len(delivered) : num[delivered[i]] <= num[m]
    BY <1>3, <1>4
  <2> QED BY <2>1, <2>2, <2>3 DEF UpTo, Fresh
<1>7. RelayTyped(M)'
  BY <1>2 DEF RelayTyped, Fresh
<1> QED BY <1>5, <1>6, <1>7
=============================================================================
