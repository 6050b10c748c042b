------------------------ MODULE TwowayTransportProofs -----------------------
(***************************************************************************)
(* Facts about the two-way transport, for every size of the queues, of the *)
(* USB packets and of the frames, and every number of messages: no ACK is  *)
(* lost between the threads, none is counted twice, and the log file holds *)
(* the sniffed frames whole and in order.                                  *)
(***************************************************************************)
EXTENDS TwowayTransport, RelayLinkProofs

(* An entry of a queue is piece number i + 1 of what the relay overhears.  *)
IsPiece(t, e, i) == i < Len(t.claims) /\ e = Piece(i + 1, t.claims[i + 1])

LEMMA PieceIsNoAck ==
  ASSUME NEW t, NEW e, NEW i \in Nat, IsPiece(t, e, i)
  PROVE  e # Ack
<1>1. e.position = i + 1 /\ Ack.position = 0
  BY DEF IsPiece, Piece, Ack
<1> QED BY <1>1

LEMMA PieceFields ==
  ASSUME NEW t \in Traffic, NEW e, NEW i \in Nat, IsPiece(t, e, i)
  PROVE  /\ i + 1 \in 1..Len(t.claims)
         /\ e.position = i + 1 /\ e.claim = t.claims[i + 1]
BY TrafficAssumption DEF IsPiece, Piece

LEMMA TrafficTyped ==
  ASSUME NEW t \in Traffic
  PROVE  /\ t.claims \in Seq(Nat) /\ Len(t.claims) \in Nat
         /\ t.frames \in Seq(Nat) /\ Len(t.frames) \in Nat
         /\ \A p \in 1..Len(t.claims) : t.claims[p] \in Nat
         /\ \A k \in 1..Len(t.frames) : t.frames[k] \in Nat
         /\ \A p \in 1..Len(t.claims) : t.claims[p] # 0 => t.claims[p] >= META_PIECES
<1>1. t.claims \in Seq(Nat) /\ t.frames \in Seq(Nat)
  BY TrafficAssumption
<1> QED BY <1>1, TrafficAssumption

-----------------------------------------------------------------------------
(* Between its ACKs a queue carries the pieces from number a up to, not    *)
(* including, number b: f[k] counts what the first k entries carry.        *)

Counts(tr, s, a, b, f) ==
  /\ f \in [0..Len(s) -> Nat]
  /\ f[0] = a /\ f[Len(s)] = b
  /\ \A k \in 1..Len(s) : IF s[k] = Ack THEN f[k] = f[k - 1] ELSE IsPiece(tr, s[k], f[k - 1])
  /\ \A j, k \in 0..Len(s) :
       j <= k /\ (\A i \in (j + 1)..k : s[i] # Ack) => f[k] = f[j] + (k - j)

Carries(tr, s, a, b) == \E f : Counts(tr, s, a, b, f)

LEMMA CarriesAcks ==
  ASSUME NEW tr, NEW s \in Seq(Entries), NEW a \in Nat, \A k \in 1..Len(s) : s[k] = Ack
  PROVE  Carries(tr, s, a, a)
<1> DEFINE f == [k \in 0..Len(s) |-> a]
<1>1. Len(s) \in Nat
  OBVIOUS
<1>2. /\ f \in [0..Len(s) -> Nat] /\ \A k \in 0..Len(s) : f[k] = a
      /\ {0, Len(s)} \subseteq 0..Len(s)
      /\ \A k \in 1..Len(s) : k \in 0..Len(s) /\ k - 1 \in 0..Len(s)
  BY <1>1
<1>3. ASSUME NEW j \in 0..Len(s), NEW k \in 0..Len(s), j <= k, \A i \in (j + 1)..k : s[i] # Ack
      PROVE  f[k] = f[j] + (k - j)
  <2>1. CASE j = k
    BY <1>2, <2>1
  <2>2. CASE j # k
    <3>1. k \in (j + 1)..k /\ k \in 1..Len(s)
      BY <1>1, <1>3, <2>2
    <3> QED BY <1>3, <3>1
  <2> QED BY <2>1, <2>2
<1> HIDE DEF f
<1>4. Counts(tr, s, a, a, f)
  BY <1>2, <1>3 DEF Counts
<1> QED BY <1>4 DEF Carries

LEMMA CarriesNat ==
  ASSUME NEW tr, NEW s \in Seq(Entries), NEW a, NEW b, Carries(tr, s, a, b)
  PROVE  a \in Nat /\ b \in Nat
BY DEF Carries, Counts

(* An ACK is added at the end, or the next piece. *)
LEMMA CarriesOne ==
  ASSUME NEW tr, NEW s \in Seq(Entries), NEW a, NEW b, Carries(tr, s, a, b), NEW e, NEW c,
         (e = Ack /\ c = b) \/ (IsPiece(tr, e, b) /\ c = b + 1)
  PROVE  Carries(tr, Append(s, e), a, c)
<1> DEFINE n == Len(s)
           t == Append(s, e)
<1>1. PICK f : Counts(tr, s, a, b, f)
  BY DEF Carries
<1> DEFINE g == [k \in 0..(n + 1) |-> IF k <= n THEN f[k] ELSE c]
<1>2. /\ n \in Nat /\ Len(t) = n + 1 /\ t[n + 1] = e
      /\ \A k \in 1..n : t[k] = s[k]
  OBVIOUS
<1>3. /\ f \in [0..n -> Nat] /\ f[0] = a /\ f[n] = b /\ b \in Nat
      /\ \A k \in 1..n : IF s[k] = Ack THEN f[k] = f[k - 1] ELSE IsPiece(tr, s[k], f[k - 1])
      /\ \A j, k \in 0..n : j <= k /\ (\A i \in (j + 1)..k : s[i] # Ack) => f[k] = f[j] + (k - j)
  BY <1>1, <1>2 DEF Counts
<1>4. (e = Ack => c = b) /\ (e # Ack => IsPiece(tr, e, b) /\ c = b + 1)
  BY <1>3, PieceIsNoAck
<1>5. /\ g \in [0..(n + 1) -> Nat] /\ g[n + 1] = c
      /\ \A k \in 0..n : g[k] = f[k]
  BY <1>2, <1>3, <1>4
<1> HIDE DEF g, t, n
<1>6. \A k \in 1..(n + 1) : IF t[k] = Ack THEN g[k] = g[k - 1] ELSE IsPiece(tr, t[k], g[k - 1])
  <2> SUFFICES ASSUME NEW k \in 1..(n + 1)
               PROVE  IF t[k] = Ack THEN g[k] = g[k - 1] ELSE IsPiece(tr, t[k], g[k - 1])
    OBVIOUS
  <2>1. CASE k \in 1..n
    <3>1. k \in 0..n /\ k - 1 \in 0..n
      BY <1>2, <2>1
    <3> QED BY <1>2, <1>3, <1>5, <2>1, <3>1
  <2>2. CASE k = n + 1
    <3>1. k - 1 = n /\ n \in 0..n
      BY <1>2, <2>2
    <3> QED BY <1>2, <1>3, <1>5, <1>4, <2>2, <3>1
  <2> QED BY <1>2, <2>1, <2>2
<1>7. \A j, k \in 0..(n + 1) :
        j <= k /\ (\A i \in (j + 1)..k : t[i] # Ack) => g[k] = g[j] + (k - j)
  <2> SUFFICES ASSUME NEW j \in 0..(n + 1), NEW k \in 0..(n + 1), j <= k,
                      \A i \in (j + 1)..k : t[i] # Ack
               PROVE  g[k] = g[j] + (k - j)
    OBVIOUS
  <2>1. CASE k \in 0..n
    <3>1. j \in 0..n /\ \A i \in (j + 1)..k : i \in 1..n
      BY <1>2, <2>1
    <3>2. \A i \in (j + 1)..k : s[i] # Ack
      BY <1>2, <3>1
    <3> QED BY <1>3, <1>5, <2>1, <3>1, <3>2
  <2>2. CASE k = n + 1 /\ j = n + 1
    BY <1>2, <1>3, <1>5, <2>2
  <2>3. CASE k = n + 1 /\ j \in 0..n
    <3>1. n \in 0..n /\ j <= n /\ \A i \in (j + 1)..n : i \in (j + 1)..k /\ i \in 1..n
      BY <1>2, <2>3
    <3>2. \A i \in (j + 1)..n : s[i] # Ack
      BY <1>2, <3>1
    <3>3. f[n] = f[j] + (n - j)
      BY <1>3, <2>3, <3>1, <3>2
    <3>4. f[j] \in Nat
      BY <1>3, <2>3
    <3>5. n + 1 \in (j + 1)..k
      BY <1>2, <2>3
    <3>6. e # Ack
      BY <1>2, <3>5
    <3> QED BY <1>2, <1>3, <1>5, <1>4, <2>3, <3>3, <3>4, <3>6
  <2> QED BY <1>2, <2>1, <2>2, <2>3
<1>8. 0 \in 0..n
  BY <1>2
<1>9. Counts(tr, t, a, c, g)
  BY <1>2, <1>3, <1>5, <1>6, <1>7, <1>8 DEF Counts
<1> QED BY <1>9 DEF Carries, t

(* What stands in front of a place and what stands behind it *)
LEMMA CarriesSplit ==
  ASSUME NEW tr, NEW s \in Seq(Entries), NEW a, NEW b, Carries(tr, s, a, b), NEW n \in 0..Len(s)
  PROVE  \E c \in Nat :
           /\ Carries(tr, SubSeq(s, 1, n), a, c)
           /\ Carries(tr, SubSeq(s, n + 1, Len(s)), c, b)
           /\ n = 1 /\ s[1] = Ack => c = a
           /\ (\A k \in 1..n : s[k] # Ack) =>
                c = a + n /\ \A k \in 1..n : IsPiece(tr, s[k], a + k - 1)
<1> DEFINE m == Len(s)
           t == SubSeq(s, 1, n)
           u == SubSeq(s, n + 1, m)
<1>1. PICK f : Counts(tr, s, a, b, f)
  BY DEF Carries
<1>2. /\ m \in Nat /\ n \in Nat /\ n <= m
      /\ \A k \in 1..m : s[k] \in Entries
  OBVIOUS
<1>3. /\ f \in [0..m -> Nat] /\ f[0] = a /\ f[m] = b
      /\ \A k \in 1..m : IF s[k] = Ack THEN f[k] = f[k - 1] ELSE IsPiece(tr, s[k], f[k - 1])
      /\ \A j, k \in 0..m : j <= k /\ (\A i \in (j + 1)..k : s[i] # Ack) => f[k] = f[j] + (k - j)
  BY <1>1, <1>2 DEF Counts
<1>4. /\ Len(t) = n /\ \A k \in 1..n : t[k] = s[k]
  <2>1. /\ Len(t) = IF 1 <= n THEN n - 1 + 1 ELSE 0
        /\ \A k \in 1..(n - 1 + 1) : t[k] = s[1 + k - 1]
    BY <1>2, SubSeqProperties
  <2> QED BY <1>2, <2>1
<1>5. /\ Len(u) = m - n /\ \A k \in 1..(m - n) : u[k] = s[n + k]
  <2>1. /\ Len(u) = IF n + 1 <= m THEN m - (n + 1) + 1 ELSE 0
        /\ \A k \in 1..(m - (n + 1) + 1) : u[k] = s[(n + 1) + k - 1]
    BY <1>2, SubSeqProperties
  <2> QED BY <1>2, <2>1
<1> DEFINE g == [k \in 0..n |-> f[k]]
           h == [k \in 0..(m - n) |-> f[n + k]]
<1> HIDE DEF t, u, m
<1>6. /\ g \in [0..n -> Nat] /\ g[0] = a /\ \A k \in 0..n : k \in 0..m /\ g[k] = f[k]
      /\ h \in [0..(m - n) -> Nat] /\ h[0] = f[n]
      /\ \A k \in 0..(m - n) : n + k \in 0..m /\ h[k] = f[n + k]
  <2>1. \A k \in 0..n : k \in 0..m
    BY <1>2
  <2>2. \A k \in 0..(m - n) : n + k \in 0..m
    BY <1>2
  <2>3. f \in [0..m -> Nat] /\ f[0] = a /\ 0 \in 0..n /\ 0 \in 0..(m - n) /\ n + 0 = n
    BY <1>2, <1>3
  <2>4. g \in [0..n -> Nat] /\ g[0] = a /\ \A k \in 0..n : g[k] = f[k]
    BY <2>1, <2>3
  <2>5. /\ h \in [0..(m - n) -> Nat] /\ h[0] = f[n]
        /\ \A k \in 0..(m - n) : h[k] = f[n + k]
    BY <2>2, <2>3
  <2> QED BY <2>1, <2>2, <2>4, <2>5
<1> HIDE DEF g, h
<1>7. Counts(tr, t, a, f[n], g)
  <2>1. g[n] = f[n]
    BY <1>2, <1>6
  <2>2. \A k \in 1..n : IF t[k] = Ack THEN g[k] = g[k - 1] ELSE IsPiece(tr, t[k], g[k - 1])
    <3> SUFFICES ASSUME NEW k \in 1..n
                 PROVE  IF t[k] = Ack THEN g[k] = g[k - 1] ELSE IsPiece(tr, t[k], g[k - 1])
      OBVIOUS
    <3>1. k \in 1..m /\ k \in 0..n /\ k - 1 \in 0..n
      BY <1>2
    <3> QED BY <1>3, <1>4, <1>6, <3>1
  <2>3. \A j, k \in 0..n :
          j <= k /\ (\A i \in (j + 1)..k : t[i] # Ack) => g[k] = g[j] + (k - j)
    <3> SUFFICES ASSUME NEW j \in 0..n, NEW k \in 0..n, j <= k, \A i \in (j + 1)..k : t[i] # Ack
                 PROVE  g[k] = g[j] + (k - j)
      OBVIOUS
    <3>1. \A i \in (j + 1)..k : i \in 1..n
      BY <1>2
    <3>2. \A i \in (j + 1)..k : s[i] # Ack
      BY <1>4, <3>1
    <3> QED BY <1>3, <1>6, <3>2
  <2> QED BY <1>4, <1>6, <2>1, <2>2, <2>3 DEF Counts
<1>8. Counts(tr, u, f[n], b, h)
  <2>1. h[m - n] = b
    <3>1. m - n \in 0..(m - n) /\ n + (m - n) = m
      BY <1>2
    <3> QED BY <1>3, <1>6, <3>1
  <2>2. \A k \in 1..(m - n) : IF u[k] = Ack THEN h[k] = h[k - 1] ELSE IsPiece(tr, u[k], h[k - 1])
    <3> SUFFICES ASSUME NEW k \in 1..(m - n)
                 PROVE  IF u[k] = Ack THEN h[k] = h[k - 1] ELSE IsPiece(tr, u[k], h[k - 1])
      OBVIOUS
    <3>1. n + k \in 1..m /\ k \in 0..(m - n) /\ k - 1 \in 0..(m - n) /\ n + (k - 1) = (n + k) - 1
      BY <1>2
    <3> QED BY <1>3, <1>5, <1>6, <3>1
  <2>3. \A j, k \in 0..(m - n) :
          j <= k /\ (\A i \in (j + 1)..k : u[i] # Ack) => h[k] = h[j] + (k - j)
    <3> SUFFICES ASSUME NEW j \in 0..(m - n), NEW k \in 0..(m - n), j <= k,
                        \A i \in (j + 1)..k : u[i] # Ack
                 PROVE  h[k] = h[j] + (k - j)
      OBVIOUS
    <3>1. \A i \in ((n + j) + 1)..(n + k) : i - n \in (j + 1)..k /\ i - n \in 1..(m - n) /\ n + (i - n) = i
      BY <1>2
    <3>2. \A i \in ((n + j) + 1)..(n + k) : s[i] # Ack
      BY <1>5, <3>1
    <3>3. n + j \in 0..m /\ n + k \in 0..m /\ n + j <= n + k /\ (n + k) - (n + j) = k - j
      BY <1>2
    <3>4. f[n + k] = f[n + j] + ((n + k) - (n + j))
      BY <1>3, <3>2, <3>3
    <3> QED BY <1>6, <3>3, <3>4
  <2> QED BY <1>5, <1>6, <2>1, <2>2, <2>3 DEF Counts
<1>9. f[n] \in Nat
  BY <1>2, <1>3
<1>10. ASSUME NEW k \in 1..n, s[k] = Ack, n = 1 PROVE f[n] = a
  <2>1. k = 1 /\ 1 \in 1..m /\ 1 - 1 = 0
    BY <1>2, <1>10
  <2> QED BY <1>3, <1>10, <2>1
<1>11. ASSUME \A k \in 1..n : s[k] # Ack
       PROVE  f[n] = a + n /\ \A k \in 1..n : IsPiece(tr, s[k], a + k - 1)
  <2>1. ASSUME NEW k \in 0..n PROVE f[k] = a + k
    <3>1. 0 \in 0..m /\ k \in 0..m /\ 0 <= k /\ \A i \in (0 + 1)..k : i \in 1..n
      BY <1>2
    <3>2. \A i \in (0 + 1)..k : s[i] # Ack
      BY <1>11, <3>1
    <3>3. f[k] = f[0] + (k - 0)
      BY <1>3, <3>1, <3>2
    <3>4. f[0] \in Nat
      BY <1>2, <1>3
    <3> QED BY <1>3, <3>3, <3>4
  <2>2. n \in 0..n
    BY <1>2
  <2>3. ASSUME NEW k \in 1..n PROVE IsPiece(tr, s[k], a + k - 1)
    <3>1. k \in 1..m /\ k - 1 \in 0..n
      BY <1>2
    <3>2. a \in Nat
      BY <1>2, <1>3
    <3>3. f[k - 1] = a + (k - 1) /\ a + (k - 1) = a + k - 1
      BY <2>1, <3>1, <3>2
    <3> QED BY <1>3, <1>11, <3>1, <3>3
  <2> QED BY <2>1, <2>2, <2>3
<1>12. Carries(tr, t, a, f[n]) /\ Carries(tr, u, f[n], b)
  BY <1>7, <1>8 DEF Carries
<1> QED BY <1>9, <1>10, <1>11, <1>12 DEF t, u, m

(* A queue cut in two: no ACK is lost, none is counted twice. *)
LEMMA AcksSplit ==
  ASSUME NEW s \in Seq(Entries), NEW n \in 0..Len(s)
  PROVE  /\ SubSeq(s, 1, n) \in Seq(Entries) /\ Len(SubSeq(s, 1, n)) = n
         /\ \A k \in 1..n : SubSeq(s, 1, n)[k] = s[k]
         /\ SubSeq(s, n + 1, Len(s)) \in Seq(Entries)
         /\ Len(SubSeq(s, n + 1, Len(s))) = Len(s) - n
         /\ \A k \in 1..(Len(s) - n) : SubSeq(s, n + 1, Len(s))[k] = s[n + k]
         /\ Acks(s) = Acks(SubSeq(s, 1, n)) + Acks(SubSeq(s, n + 1, Len(s)))
<1> DEFINE t == SubSeq(s, 1, n)
           u == SubSeq(s, n + 1, Len(s))
<1>1. /\ Len(s) \in Nat /\ n \in Nat /\ n <= Len(s)
      /\ \A k \in 1..Len(s) : s[k] \in Entries
  OBVIOUS
<1>2. t \in Seq(Entries) /\ Len(t) = n /\ \A k \in 1..n : t[k] = s[k]
  <2>1. /\ t \in Seq(Entries) /\ Len(t) = IF 1 <= n THEN n - 1 + 1 ELSE 0
        /\ \A k \in 1..(n - 1 + 1) : t[k] = s[1 + k - 1]
    BY <1>1, SubSeqProperties
  <2> QED BY <1>1, <2>1
<1>3. u \in Seq(Entries) /\ Len(u) = Len(s) - n /\ \A k \in 1..(Len(s) - n) : u[k] = s[n + k]
  <2>1. /\ u \in Seq(Entries) /\ Len(u) = IF n + 1 <= Len(s) THEN Len(s) - (n + 1) + 1 ELSE 0
        /\ \A k \in 1..(Len(s) - (n + 1) + 1) : u[k] = s[(n + 1) + k - 1]
    BY <1>1, SubSeqProperties
  <2> QED BY <1>1, <2>1
<1> HIDE DEF t, u
<1>4. t \o u = s
  <2>1. /\ t \o u \in Seq(Entries) /\ Len(t \o u) = Len(s)
        /\ \A k \in 1..Len(s) : (t \o u)[k] = IF k <= n THEN t[k] ELSE u[k - n]
    BY <1>1, <1>2, <1>3, ConcatProperties
  <2>2. \A k \in 1..Len(s) : (t \o u)[k] = s[k]
    <3> SUFFICES ASSUME NEW k \in 1..Len(s) PROVE (t \o u)[k] = s[k]
      OBVIOUS
    <3>1. CASE k <= n
      BY <1>1, <1>2, <2>1, <3>1
    <3>2. CASE n < k
      <4>1. k - n \in 1..(Len(s) - n) /\ n + (k - n) = k
        BY <1>1, <3>2
      <4> QED BY <1>1, <1>3, <2>1, <3>2, <4>1
    <3>3. k <= n \/ n < k
      BY <1>1
    <3> QED BY <3>1, <3>2, <3>3
  <2> QED BY <2>1, <2>2, SeqEqual
<1>5. Acks(s) = Acks(t) + Acks(u)
  BY <1>2, <1>3, <1>4, AcksConcat
<1> QED BY <1>2, <1>3, <1>5 DEF t, u

LEMMA AcksNone ==
  ASSUME NEW s \in Seq(Entries)
  PROVE  Acks(s) = 0 <=> \A k \in 1..Len(s) : s[k] # Ack
<1>1. IsFiniteSet(AckPlaces(s))
  BY AcksFinite
<1>2. Acks(s) = 0 <=> AckPlaces(s) = {}
  BY <1>1, FS_EmptySet DEF Acks
<1> QED BY <1>2 DEF AckPlaces

-----------------------------------------------------------------------------
(* Every variable keeps to its type, and the messages on their way to the  *)
(* air are numbered by their sends: none is ahead of the operator, and the *)
(* one that is about to be sent is not among them.                         *)

Messages == [sequence : Nat \ {0}, kind : {"GETPC"}, index : {0}]
numbers  == [m \in Messages |-> m.sequence]

Controls ==
  /\ keep_running \in BOOLEAN /\ ackReceived \in BOOLEAN
  /\ sends \in Nat /\ sniffed \in Nat /\ traffic \in Traffic
  /\ rx_pc \in {"none", "check", "read", "dispatch", "parse", "ended"}
  /\ rx_pc \in {"none", "check", "read", "ended"} => packet = <<>>
  /\ main_pc = "setup" => rx_pc = "none"
  /\ main_pc \in {"reset", "meta", "payload"} => sends >= 1

Queues ==
  /\ RelayTyped(Messages)
  /\ packet \in Seq(Entries)
  /\ stream \in Seq(Entries)
  /\ IsFiniteSet(receipts)

Numbered ==
  /\ InTurn(numbers)
  /\ UpTo(numbers, sends)
  /\ main_pc \in {"reset", "meta"} => UpTo(numbers, sends - 1)

(* The ACK of the message that is waited for is on its way or reported.    *)
AckHeld ==
  main_pc \in {"payload", "wait", "sleep"} /\ rx_pc # "ended" /\ sends \in Sent =>
    ackReceived \/ Acks(in) + Acks(packet) >= 1

(* Every receipt and every ACK there is stands for a message on the air.   *)
Reported == IF ackReceived THEN 1 ELSE 0
Surplus  == Cardinality(receipts) + Acks(in) + Acks(packet) + Reported <= Len(air) + StaleAcks

IInv == Controls /\ Queues /\ Numbered /\ AckHeld /\ Surplus

LEMMA NumbersType ==
  /\ numbers \in [Messages -> Nat]
  /\ OldMessage \notin Messages
  /\ \A m \in Messages : numbers[m] = m.sequence /\ m.sequence \in Nat
BY DEF numbers, Messages, OldMessage

LEMMA QueueCounts ==
  ASSUME Queues
  PROVE  /\ Acks(in) \in Nat /\ Acks(packet) \in Nat
         /\ Cardinality(receipts) \in Nat /\ Len(air) \in Nat /\ StaleAcks \in Nat
BY AcksFinite, FS_CardinalityType, RelayAssumption DEF Queues, RelayTyped

LEMMA UpToGrows ==
  ASSUME Queues, NEW b \in Int, NEW c \in Int, UpTo(numbers, b), b <= c
  PROVE  UpTo(numbers, c)
<1>1. /\ \A k \in Announcing : numbers[out[k].message] \in Nat
      /\ Fresh => numbers[head.message] \in Nat
      /\ \A i \in 1..Len(delivered) : numbers[delivered[i]] \in Nat
  <2>1. \A k \in Announcing : out[k] \in PacketsOf(Messages)
    BY DEF Queues, RelayTyped, Announcing
  <2>2. \A k \in Announcing : out[k].message \in Messages
    BY <2>1 DEF PacketsOf
  <2>3. Fresh => head.message \in Messages
    BY DEF Queues, RelayTyped, HeadsOf, Fresh
  <2>4. \A i \in 1..Len(delivered) : delivered[i] \in Messages
    BY DEF Queues, RelayTyped
  <2> QED BY <2>2, <2>3, <2>4, NumbersType
<1>2. \A x \in Nat : x <= b => x <= c
  OBVIOUS
<1> QED BY <1>1, <1>2 DEF UpTo

(* A message with a number above all that were transmitted is not one of   *)
(* them.                                                                   *)
LEMMA NotSent ==
  ASSUME Queues, sends \in Nat, UpTo(numbers, sends - 1)
  PROVE  sends \notin Sent
<1> SUFFICES ASSUME NEW k \in 1..Len(delivered), delivered[k].sequence = sends
             PROVE  FALSE
  BY DEF Sent
<1>1. delivered[k] \in Messages
  BY DEF Queues, RelayTyped
<1>2. numbers[delivered[k]] = sends /\ numbers[delivered[k]] <= sends - 1
  BY <1>1, NumbersType DEF UpTo
<1> QED BY <1>2

LEMMA InitIInv == Init => IInv
<1> SUFFICES ASSUME Init PROVE IInv
  OBVIOUS
<1>1. /\ RelayTyped(Messages) /\ InTurn(numbers) /\ \A b : UpTo(numbers, b)
      /\ Acks(in) \in Nat /\ Acks(in) <= StaleAcks
  BY NumbersType, RelayStarts DEF Init
<1>2. Controls
  BY DEF Init, Controls
<1>3. <<>> \in Seq(Entries) /\ Len(<<>>) = 0
  BY EmptySeq
<1>4. Queues
  BY <1>1, <1>3, FS_EmptySet DEF Init, Queues
<1>5. Numbered
  BY <1>1 DEF Init, Numbered
<1>6. AckHeld
  BY DEF Init, AckHeld
<1>7. Acks(<<>>) = 0
  <2>1. \A k \in 1..Len(<<>>) : <<>>[k] # Ack
    BY <1>3
  <2> QED BY <1>3, <2>1, AcksNone
<1>8. Cardinality({}) = 0
  BY FS_EmptySet
<1>9. Surplus
  BY <1>1, <1>3, <1>7, <1>8, RelayAssumption DEF Init, RelayInit, Surplus, Reported
<1> QED BY <1>2, <1>4, <1>5, <1>6, <1>9 DEF IInv

(* What a step does to the queues and to the wait for the ACK: the queues  *)
(* are left alone, a packet is written, taken or cut, or the relay moves.  *)
Calm ==
  /\ UNCHANGED <<relay, packet>>
  /\ \/ /\ UNCHANGED <<send, ackReceived>>
        /\ rx_pc = "ended" => rx_pc' = "ended"
     \/ /\ main_pc' \notin {"meta", "payload", "wait", "sleep"}
        /\ sends' = IF main_pc' = "reset" THEN sends + 1 ELSE sends
        /\ UNCHANGED <<ackReceived, receipts>>
     \/ /\ main_pc = "reset" /\ main_pc' = "meta" /\ ackReceived' = FALSE
        /\ UNCHANGED <<sends, receipts>>
     \/ /\ {main_pc, main_pc'} \subseteq {"wait", "sleep"}
        /\ UNCHANGED <<sends, receipts, ackReceived, rx_pc>>
     \/ /\ main_pc' = "prompt" /\ ackReceived /\ ackReceived' = FALSE
        /\ receipts' = receipts \cup {sends}
        /\ UNCHANGED sends

Wrote ==
  /\ UNCHANGED <<in, head, body, air, delivered, packet, rx_pc, ackReceived, sends, receipts>>
  /\ \/ /\ main_pc = "meta" /\ main_pc' \in {"prompt", "payload", "wait"}
        /\ \E number \in 0..1 : Written(Meta(Current, number))
     \/ /\ main_pc = "payload" /\ main_pc' \in {"prompt", "wait"}
        /\ Written(Data(Current, 1))

LEMMA StepKinds ==
  ASSUME [Next]_vars
  PROVE  Calm \/ Wrote \/ RxPacket \/ DispatchAck \/ DispatchBytes \/ SniffPiece \/ RelayTx
<1>1. CASE Setup
  <2>1. main_pc' \in {"cleanup", "prompt", "reset"}
    BY <1>1 DEF Setup
  <2> QED BY <1>1, <2>1 DEF Setup, Calm, relaying
<1>2. CASE Prompt \/ Cleanup \/ Join \/ EnterMessage \/ EnterOther \/ WaitTimeout
  BY <1>2 DEF Prompt, Cleanup, Join, EnterMessage, EnterOther, WaitTimeout, Calm, receive, relaying
<1>3. CASE ResetAckWait
  BY <1>3 DEF ResetAckWait, Calm, receive, relaying
<1>4. CASE WaitAck \/ Wake
  BY <1>4 DEF WaitAck, Wake, Calm, receive, relaying
<1>5. CASE WriteMeta
  <2>1. /\ UNCHANGED <<in, head, body, air, delivered, packet, rx_pc, ackReceived, sends, receipts>>
        /\ main_pc = "meta"
    BY <1>5 DEF WriteMeta, receive
  <2>2. PICK number \in 0..1 :
          \/ /\ Written(Meta(Current, number))
             /\ main_pc' = IF number = 0 THEN "wait" ELSE "payload"
          \/ WriteFailed(Meta(Current, number)) /\ main_pc' = "prompt"
    BY <1>5 DEF WriteMeta
  <2>3. main_pc' \in {"prompt", "payload", "wait"}
    BY <2>2
  <2>4. CASE Written(Meta(Current, number))
    BY <2>1, <2>3, <2>4 DEF Wrote
  <2>5. CASE UNCHANGED out /\ main_pc' = "prompt"
    BY <2>1, <2>5 DEF Calm, relay
  <2> QED BY <2>2, <2>4, <2>5 DEF WriteFailed
<1>6. CASE WritePayload
  <2>1. /\ UNCHANGED <<in, head, body, air, delivered, packet, rx_pc, ackReceived, sends, receipts>>
        /\ main_pc = "payload" /\ main_pc' \in {"prompt", "wait"}
    BY <1>6 DEF WritePayload, receive
  <2>2. CASE Written(Data(Current, 1))
    BY <2>1, <2>2 DEF Wrote
  <2>3. CASE UNCHANGED out /\ main_pc' = "prompt"
    BY <2>1, <2>3 DEF Calm, relay
  <2> QED BY <1>6, <2>2, <2>3 DEF WritePayload, WriteFailed
<1>7. CASE RxLoop \/ RxTimeout \/ RxError \/ DispatchEnd
  BY <1>7 DEF RxLoop, RxTimeout, RxError, DispatchEnd, Calm, relaying
<1>8. CASE ParseEnd \/ ParseSkip \/ ParseInvalid \/ ParseFrame \/ ParseWriteError
  BY <1>8 DEF ParseEnd, ParseSkip, ParseInvalid, ParseFrame, ParseWriteError, Parsing, AtFrame, Calm,
              relaying
<1>9. CASE Sigint \/ UNCHANGED vars
  BY <1>9 DEF Sigint, vars, Calm, receive, relaying
<1> QED BY <1>1, <1>2, <1>3, <1>4, <1>5, <1>6, <1>7, <1>8, <1>9 DEF Next, Main, Rx

LEMMA ControlsStep ==
  ASSUME Controls, [Next]_vars
  PROVE  Controls'
<1>1. CASE Setup \/ Prompt \/ EnterMessage \/ EnterOther \/ Cleanup \/ Join
  <2>1. CASE Setup
    BY <2>1 DEF Controls, Setup, relaying
  <2>2. CASE Prompt \/ Cleanup \/ Join
    BY <2>2 DEF Controls, Prompt, Cleanup, Join, receive, relaying
  <2>3. CASE EnterMessage
    <3>1. sends' \in Nat /\ sends' >= 1
      BY <2>3 DEF Controls, EnterMessage
    <3> QED BY <2>3, <3>1 DEF Controls, EnterMessage, receive, relaying
  <2>4. CASE EnterOther
    <3>1. main_pc' \in {"prompt", "cleanup"} /\ keep_running' \in BOOLEAN
      BY <2>4 DEF Controls, EnterOther
    <3> QED BY <2>4, <3>1 DEF Controls, EnterOther, receive, relaying
  <2> QED BY <1>1, <2>1, <2>2, <2>3, <2>4
<1>2. CASE ResetAckWait \/ WaitAck \/ Wake \/ WaitTimeout
  BY <1>2 DEF Controls, ResetAckWait, WaitAck, Wake, WaitTimeout, receive, relaying
<1>3. CASE WriteMeta \/ WritePayload
  <2>1. UNCHANGED <<keep_running, ackReceived, sends, sniffed, traffic, receive>>
    BY <1>3 DEF WriteMeta, WritePayload
  <2>2. main_pc \in {"meta", "payload"} /\ main_pc' \in {"payload", "wait", "prompt"}
    BY <1>3 DEF WriteMeta, WritePayload
  <2> QED BY <2>1, <2>2 DEF Controls, receive
<1>4. CASE RxLoop \/ RxTimeout \/ RxError \/ RxPacket \/ DispatchEnd
  BY <1>4 DEF Controls, RxLoop, RxTimeout, RxError, RxPacket, DispatchEnd, send, relaying
<1>5. CASE DispatchAck \/ DispatchBytes
  BY <1>5 DEF Controls, DispatchAck, DispatchBytes, send, relaying
<1>6. CASE ParseEnd \/ ParseSkip \/ ParseInvalid \/ ParseFrame \/ ParseWriteError
  BY <1>6 DEF Controls, ParseEnd, ParseSkip, ParseInvalid, ParseFrame, ParseWriteError, Parsing,
              AtFrame, send, relaying
<1>7. CASE SniffPiece \/ RelayTx \/ Sigint \/ UNCHANGED vars
  <2>1. CASE SniffPiece \/ RelayTx
    BY <2>1 DEF Controls, SniffPiece, RelayTx, send, receive
  <2>2. CASE Sigint \/ UNCHANGED vars
    BY <2>2 DEF Controls, Sigint, vars, send, receive, relaying
  <2> QED BY <1>7, <2>1, <2>2
<1> QED BY <1>1, <1>2, <1>3, <1>4, <1>5, <1>6, <1>7 DEF Next, Main, Rx

LEMMA CurrentMessage ==
  ASSUME sends \in Nat, sends >= 1
  PROVE  Current \in Messages /\ numbers[Current] = sends
BY NumbersType DEF Current, Messages

(* What the receive thread takes out of the queue and out of its packet    *)
LEMMA TakenApart ==
  ASSUME Controls, Queues
  PROVE  /\ RxPacket => /\ in' \in Seq(Entries) /\ packet' \in Seq(Entries)
                        /\ Len(packet') <= PacketUnits
                        /\ Acks(in) + Acks(packet) = Acks(in') + Acks(packet')
         /\ DispatchAck => /\ packet' \in Seq(Entries)
                           /\ Acks(packet) = 1 + Acks(packet')
         /\ DispatchBytes => /\ packet' \in Seq(Entries) /\ stream' \in Seq(Entries)
                             /\ Acks(packet) = Acks(packet')
<1>1. /\ in \in Seq(Entries) /\ packet \in Seq(Entries) /\ stream \in Seq(Entries)
      /\ Acks(in) \in Nat /\ Acks(packet) \in Nat
  BY QueueCounts DEF Queues, RelayTyped
<1>2. ASSUME RxPacket
      PROVE  /\ in' \in Seq(Entries) /\ packet' \in Seq(Entries)
             /\ Len(packet') <= PacketUnits
             /\ Acks(in) + Acks(packet) = Acks(in') + Acks(packet')
  <2>1. PICK n \in 1..PacketUnits :
          n <= Len(in) /\ packet' = SubSeq(in, 1, n) /\ in' = SubSeq(in, n + 1, Len(in))
    BY <1>2 DEF RxPacket
  <2>2. n \in 0..Len(in) /\ n <= PacketUnits
    BY <1>1, <2>1, TwowayAssumption
  <2>3. /\ packet' \in Seq(Entries) /\ Len(packet') = n /\ in' \in Seq(Entries)
        /\ Acks(in) = Acks(packet') + Acks(in')
    BY <1>1, <2>1, <2>2, AcksSplit
  <2>4. packet = <<>>
    BY <1>2 DEF RxPacket, Controls
  <2>5. Acks(packet) = 0
    <3>1. \A k \in 1..Len(packet) : packet[k] # Ack
      BY <2>4
    <3> QED BY <1>1, <3>1, AcksNone
  <2>6. Acks(packet') \in Nat /\ Acks(in') \in Nat
    BY <2>3, AcksFinite
  <2> QED BY <1>1, <2>2, <2>3, <2>5, <2>6
<1>3. ASSUME DispatchAck PROVE packet' \in Seq(Entries) /\ Acks(packet) = 1 + Acks(packet')
  <2>1. packet # <<>> /\ Head(packet) = Ack /\ packet' = Tail(packet)
    BY <1>3 DEF DispatchAck
  <2> QED BY <1>1, <2>1, AcksTail
<1>4. ASSUME DispatchBytes
      PROVE  /\ packet' \in Seq(Entries) /\ stream' \in Seq(Entries)
             /\ Acks(packet) = Acks(packet')
  <2>1. PICK n \in 1..Len(packet) :
          /\ \A k \in 1..n : packet[k] # Ack
          /\ stream' = (IF Len(stream) + n > StreamLimit THEN <<>> ELSE stream) \o SubSeq(packet, 1, n)
          /\ packet' = SubSeq(packet, n + 1, Len(packet))
    BY <1>4 DEF DispatchBytes
  <2>2. n \in 0..Len(packet)
    BY <1>1, <2>1
  <2> DEFINE t == SubSeq(packet, 1, n)
  <2>3. /\ t \in Seq(Entries) /\ Len(t) = n /\ \A k \in 1..n : t[k] = packet[k]
        /\ packet' \in Seq(Entries) /\ Acks(packet) = Acks(t) + Acks(packet')
    BY <1>1, <2>1, <2>2, AcksSplit
  <2>4. Acks(t) = 0
    BY <2>1, <2>3, AcksNone
  <2>5. stream' \in Seq(Entries)
    <3>1. (IF Len(stream) + n > StreamLimit THEN <<>> ELSE stream) \in Seq(Entries)
      BY <1>1, EmptySeq
    <3> QED BY <2>1, <2>3, <3>1, ConcatProperties
  <2>6. Acks(packet') \in Nat
    BY <2>3, AcksFinite
  <2> QED BY <2>3, <2>4, <2>5, <2>6
<1> QED BY <1>2, <1>3, <1>4

(* What a pass of the parser's loop looks at                               *)
LEMMA NeededRange ==
  ASSUME NEW s \in Seq(Entries)
  PROVE  /\ Claim(s) \in Nat /\ Needed(s) \in 1..MAX_PIECES
         /\ Claim(s) # 0 => Claim(s) = s[1].claim
<1>1. /\ MAGIC_PIECES \in Nat \ {0} /\ META_PIECES \in Nat /\ MAX_PIECES \in Nat
      /\ MAGIC_PIECES <= META_PIECES /\ META_PIECES <= MAX_PIECES
  BY TwowayAssumption
<1>2. /\ Claim(s) \in Nat
      /\ Claim(s) # 0 => Claim(s) = s[1].claim
  <2>1. CASE Len(s) < MAGIC_PIECES
    BY <2>1 DEF Claim
  <2>2. CASE ~(Len(s) < MAGIC_PIECES)
    <3>1. 1 \in 1..Len(s) /\ Head(s) = s[1]
      BY <1>1, <2>2
    <3>2. Head(s) \in Entries
      BY <3>1
    <3>3. Head(s).claim \in Nat
      BY <3>2 DEF Entries
    <3>4. Claim(s) = Head(s).claim
      BY <2>2 DEF Claim
    <3> QED BY <3>1, <3>3, <3>4
  <2> QED BY <2>1, <2>2
<1> QED BY <1>1, <1>2 DEF Needed

LEMMA AtHead ==
  ASSUME stream \in Seq(Entries), Parsing
  PROVE  /\ stream # <<>> /\ Len(stream) \in Nat \ {0} /\ 1 \in 1..Len(stream)
         /\ Claim(stream) \in Nat /\ Claim(stream) = stream[1].claim
         /\ AtFrame => Claim(stream) \in 1..Len(stream)
<1>1. Len(stream) \in Nat /\ Len(stream) >= Needed(stream)
  BY DEF Parsing
<1>2. MAGIC_PIECES \in Nat \ {0} /\ MAX_PIECES \in Nat
  BY TwowayAssumption
<1>3. /\ Claim(stream) \in Nat /\ Needed(stream) \in 1..MAX_PIECES
      /\ Claim(stream) # 0 => Claim(stream) = stream[1].claim
  BY NeededRange
<1>4. Claim(stream) = 0 => Claim(stream) = stream[1].claim
  BY <1>1, <1>2 DEF Claim, Needed
<1>5. AtFrame => Claim(stream) \in 1..Len(stream)
  <2> SUFFICES ASSUME AtFrame PROVE Claim(stream) \in 1..Len(stream)
    OBVIOUS
  <2>1. Claim(stream) \in 1..MAX_PIECES
    BY DEF AtFrame
  <2>2. Needed(stream) = Claim(stream)
    BY <1>2, <2>1 DEF Needed
  <2> QED BY <1>1, <1>2, <2>1, <2>2
<1>6. Len(stream) >= 1
  BY <1>1, <1>2, <1>3
<1> QED BY <1>1, <1>3, <1>4, <1>5, <1>6

(* The stream is only ever cut. *)
LEMMA StreamTyped ==
  ASSUME Queues, Controls, [Next]_vars
  PROVE  stream' \in Seq(Entries)
<1>1. stream \in Seq(Entries)
  BY DEF Queues
<1>2. CASE stream' = stream
  BY <1>1, <1>2
<1>3. CASE DispatchBytes
  BY <1>3, TakenApart
<1>4. CASE ParseSkip \/ ParseInvalid
  <2>1. stream # <<>> /\ stream' = Tail(stream)
    BY <1>1, <1>4, AtHead DEF ParseSkip, ParseInvalid
  <2> QED BY <1>1, <2>1, HeadTailProperties
<1>5. CASE ParseFrame
  <2>1. Claim(stream) \in 0..Len(stream) /\ stream' = SubSeq(stream, Claim(stream) + 1, Len(stream))
    BY <1>1, <1>5, AtHead DEF ParseFrame, AtFrame
  <2> QED BY <1>1, <2>1, AcksSplit
<1>6. \/ stream' = stream \/ DispatchBytes \/ ParseSkip \/ ParseInvalid \/ ParseFrame
  <2>1. CASE Main \/ EnterMessage \/ EnterOther \/ SniffPiece \/ RelayTx \/ Sigint \/ UNCHANGED vars
    BY <2>1 DEF Main, Setup, Prompt, Cleanup, Join, ResetAckWait, WriteMeta, WritePayload, WaitAck,
                Wake, WaitTimeout, EnterMessage, EnterOther, SniffPiece, RelayTx, Sigint, vars, receive
  <2>2. CASE Rx
    BY <2>2 DEF Rx, RxLoop, RxTimeout, RxError, RxPacket, DispatchAck, DispatchEnd, ParseEnd,
                ParseWriteError
  <2> QED BY <2>1, <2>2 DEF Next
<1> QED BY <1>2, <1>3, <1>4, <1>5, <1>6

(* The order is kept: whatever the operator sends is announced once, after *)
(* all that was sent before.                                               *)
LEMMA OrderStep ==
  ASSUME IInv, [Next]_vars
  PROVE  Queues' /\ Numbered'
<1>1. /\ Controls /\ Queues /\ Numbered /\ RelayTyped(Messages) /\ InTurn(numbers)
      /\ sends \in Nat /\ packet \in Seq(Entries) /\ numbers \in [Messages -> Nat]
  BY NumbersType DEF IInv, Controls, Queues, Numbered
<1>2. stream' \in Seq(Entries)
  BY <1>1, StreamTyped
<1>3. PICK b \in Nat : b = sends
  BY <1>1
<1>4. UpTo(numbers, b) /\ (main_pc \in {"reset", "meta"} => UpTo(numbers, b - 1))
  BY <1>1, <1>3 DEF Numbered
<1>5. Messages' = Messages /\ numbers' = numbers
  BY DEF Messages, numbers
<1>6. ASSUME receipts' = receipts PROVE IsFiniteSet(receipts')
  BY <1>1, <1>6 DEF Queues
<1>7. ASSUME InTurn(numbers)', \A c : UpTo(numbers, c) => UpTo(numbers, c)', sends' = sends,
             main_pc' \in {"reset", "meta"} => main_pc \in {"reset", "meta"}
      PROVE  Numbered'
  <2>1. sends' = b /\ sends' - 1 = b - 1
    BY <1>3, <1>7
  <2>2. UpTo(numbers, b)' /\ (main_pc' \in {"reset", "meta"} => UpTo(numbers, b - 1)')
    BY <1>4, <1>7
  <2> QED BY <1>7, <2>1, <2>2 DEF Numbered
<1>8. ASSUME UNCHANGED relay
      PROVE  RelayTyped(Messages)' /\ InTurn(numbers)' /\ \A c : UpTo(numbers, c) => UpTo(numbers, c)'
  BY <1>1, <1>5, <1>8 DEF relay, RelayTyped, InTurn, UpTo, Fresh, Announcing
<1>9. ASSUME UNCHANGED <<out, head, body, air, delivered>>, in' \in Seq(Entries)
      PROVE  RelayTyped(Messages)' /\ InTurn(numbers)' /\ \A c : UpTo(numbers, c) => UpTo(numbers, c)'
  BY <1>1, <1>5, <1>9 DEF RelayTyped, InTurn, UpTo, Fresh, Announcing
<1>10. CASE Calm
  <2>1. RelayTyped(Messages)' /\ InTurn(numbers)' /\ packet' \in Seq(Entries)
        /\ \A c : UpTo(numbers, c) => UpTo(numbers, c)'
    BY <1>1, <1>8, <1>10 DEF Calm
  <2>2. IsFiniteSet(receipts')
    BY <1>1, <1>10, <1>6, FS_AddElement DEF Calm, Queues, send
  <2>3. Queues'
    BY <1>2, <2>1, <2>2 DEF Queues
  <2>4. CASE main_pc' = "reset" /\ sends' = sends + 1
    <3>1. UpTo(numbers, b + 1)
      BY <1>1, <1>3, <1>4, UpToGrows
    <3>2. UpTo(numbers, b)' /\ UpTo(numbers, b + 1)'
      BY <1>4, <2>1, <3>1
    <3>3. sends' = b + 1 /\ sends' - 1 = b
      BY <1>3, <2>4
    <3> QED BY <2>1, <2>3, <3>2, <3>3 DEF Numbered
  <2>5. CASE sends' = sends /\ (main_pc' \in {"reset", "meta"} => main_pc \in {"reset", "meta"})
    BY <1>7, <2>1, <2>3, <2>5
  <2>6. \/ main_pc' = "reset" /\ sends' = sends + 1
        \/ sends' = sends /\ (main_pc' \in {"reset", "meta"} => main_pc \in {"reset", "meta"})
    BY <1>10 DEF Calm, send
  <2> QED BY <2>4, <2>5, <2>6
<1>11. CASE Wrote
  <2>1. /\ UNCHANGED <<in, head, body, air, delivered, packet, sends, receipts>>
        /\ main_pc' \notin {"reset", "meta"}
    BY <1>11 DEF Wrote
  <2>2. PICK m : m = Current
    OBVIOUS
  <2>3. m \in Messages /\ numbers[m] = b
    BY <1>1, <1>3, <1>11, <2>2, CurrentMessage DEF Wrote, Controls
  <2>4. RelayTyped(Messages)' /\ InTurn(numbers)' /\ UpTo(numbers, b)'
    <3>1. CASE main_pc = "meta" /\ \E number \in 0..1 : Written(Meta(Current, number))
      <4>1. PICK n \in 0..1 : Written(Meta(m, n))
        BY <2>2, <3>1
      <4>2. b - 1 \in Nat /\ b - 1 < numbers[m] /\ UpTo(numbers, b - 1) /\ n \in Nat
        BY <1>1, <1>3, <1>4, <2>3, <3>1 DEF Controls
      <4>3. RelayTyped(Messages)' /\ InTurn(numbers)' /\ UpTo(numbers, numbers[m])'
        BY <1>1, <2>1, <2>3, <4>1, <4>2, WriteMetaKeeps
      <4> QED BY <1>5, <2>3, <4>3
    <3>2. CASE Written(Data(Current, 1))
      <4>1. Written(Data(m, 1))
        BY <2>2, <3>2
      <4> QED BY <1>1, <1>4, <2>1, <2>3, <4>1, WriteDataKeeps
    <3> QED BY <1>11, <3>1, <3>2 DEF Wrote
  <2>5. Queues'
    BY <1>1, <1>2, <1>6, <2>1, <2>4 DEF Queues
  <2>6. Numbered'
    BY <1>3, <2>1, <2>4 DEF Numbered
  <2> QED BY <2>5, <2>6
<1>12. CASE RxPacket
  <2>1. in' \in Seq(Entries) /\ packet' \in Seq(Entries)
    BY <1>1, <1>12, TakenApart
  <2>2. UNCHANGED <<out, head, body, air, delivered, sends, receipts, main_pc>>
    BY <1>12 DEF RxPacket, send
  <2> QED BY <1>2, <1>6, <1>7, <1>9, <2>1, <2>2 DEF Queues
<1>13. CASE DispatchAck \/ DispatchBytes
  <2>1. packet' \in Seq(Entries)
    BY <1>1, <1>13, TakenApart
  <2>2. UNCHANGED <<relay, sends, receipts, main_pc>>
    BY <1>13 DEF DispatchAck, DispatchBytes, send, relaying
  <2> QED BY <1>2, <1>6, <1>7, <1>8, <2>1, <2>2 DEF Queues
<1>14. CASE SniffPiece
  <2>1. PICK f, p : f = sniffed + 1 /\ p = traffic.claims[sniffed + 1]
    OBVIOUS
  <2>2. f \in Nat \ {0} /\ p \in Nat /\ Sniff(Piece(f, p))
    BY <1>1, <1>14, <2>1, TrafficTyped DEF SniffPiece, Controls
  <2>3. in' \in Seq(Entries) /\ UNCHANGED <<out, head, body, air, delivered>>
    BY <1>1, <2>2, SniffKeeps
  <2>4. UNCHANGED <<packet, sends, receipts, main_pc>>
    BY <1>14 DEF SniffPiece, send, receive
  <2> QED BY <1>1, <1>2, <1>6, <1>7, <1>9, <2>3, <2>4 DEF Queues
<1>15. CASE RelayTx
  <2>1. RelayTyped(Messages)' /\ InTurn(numbers)' /\ \A c : UpTo(numbers, c) => UpTo(numbers, c)'
    <3>1. CASE TakePacket
      BY <1>1, <3>1, TakeKeeps
    <3>2. CASE Transmit
      BY <1>1, <3>2, TransmitKeeps
    <3> QED BY <1>15, <3>1, <3>2 DEF RelayTx
  <2>2. UNCHANGED <<packet, sends, receipts, main_pc>>
    BY <1>15 DEF RelayTx, send, receive
  <2> QED BY <1>1, <1>2, <1>6, <1>7, <2>1, <2>2 DEF Queues
<1> QED BY <1>10, <1>11, <1>12, <1>13, <1>14, <1>15, StepKinds

(* The ACK is on its way before anybody can look for it, and it is only    *)
(* taken out of the queue to be reported.                                  *)
LEMMA AckHeldStep ==
  ASSUME IInv, [Next]_vars
  PROVE  AckHeld'
<1>1. /\ Controls /\ Queues /\ Numbered /\ AckHeld /\ RelayTyped(Messages)
      /\ Acks(in) \in Nat /\ Acks(packet) \in Nat
      /\ InTurn(numbers) /\ numbers \in [Messages -> Nat] /\ sends \in Nat
  BY QueueCounts, NumbersType DEF IInv, Queues, Numbered, Controls
<1>2. Queues' /\ Acks(in') \in Nat /\ Acks(packet') \in Nat
  BY OrderStep, AcksFinite DEF Queues, RelayTyped
<1>3. main_pc \in {"reset", "meta"} => sends \notin Sent
  BY <1>1, NotSent DEF Numbered
<1>4. ASSUME UNCHANGED <<delivered, sends>>, main_pc \in {"payload", "wait", "sleep"},
             ackReceived => ackReceived', rx_pc = "ended" => rx_pc' = "ended",
             Acks(in) + Acks(packet) = Acks(in') + Acks(packet')
      PROVE  AckHeld'
  BY <1>1, <1>2, <1>4 DEF AckHeld, Sent, Acks, AckPlaces
<1>5. ASSUME UNCHANGED <<delivered, sends>>, main_pc \in {"reset", "meta"}
      PROVE  AckHeld'
  BY <1>3, <1>5 DEF AckHeld, Sent
<1>6. ASSUME main_pc' \notin {"payload", "wait", "sleep"} PROVE AckHeld'
  BY <1>6 DEF AckHeld
<1>7. ASSUME UNCHANGED main_pc, main_pc \in {"payload", "wait", "sleep"} => AckHeld'
      PROVE  AckHeld'
  BY <1>6, <1>7
<1>8. CASE Calm
  <2>1. UNCHANGED <<delivered, in, packet>>
    BY <1>8 DEF Calm, relay
  <2> QED BY <1>4, <1>5, <1>6, <2>1, <1>8 DEF Calm, send
<1>9. CASE Wrote
  BY <1>4, <1>5, <1>9 DEF Wrote
<1>10. CASE RxPacket
  <2>1. Acks(in) + Acks(packet) = Acks(in') + Acks(packet')
    BY <1>1, <1>10, TakenApart
  <2>2. /\ UNCHANGED <<delivered, sends, main_pc, ackReceived>>
        /\ rx_pc # "ended"
    BY <1>10 DEF RxPacket, send
  <2> QED BY <1>4, <1>7, <2>1, <2>2
<1>11. CASE DispatchAck
  <2>1. ackReceived'
    BY <1>11 DEF DispatchAck
  <2> QED BY <2>1 DEF AckHeld
<1>12. CASE DispatchBytes
  <2>1. Acks(packet) = Acks(packet')
    BY <1>1, <1>12, TakenApart
  <2>2. /\ UNCHANGED <<in, delivered, sends, main_pc, ackReceived>>
        /\ rx_pc # "ended"
    BY <1>12 DEF DispatchBytes, send, relaying, relay
  <2> QED BY <1>4, <1>7, <2>1, <2>2
<1>13. CASE SniffPiece
  <2>1. PICK f, p : f = sniffed + 1 /\ p = traffic.claims[sniffed + 1]
    OBVIOUS
  <2>2. f \in Nat \ {0} /\ p \in Nat /\ Sniff(Piece(f, p))
    BY <1>1, <1>13, <2>1, TrafficTyped DEF SniffPiece, Controls
  <2>3. Acks(in') = Acks(in) /\ UNCHANGED delivered
    BY <1>1, <2>2, SniffKeeps
  <2>4. UNCHANGED <<packet, sends, main_pc, ackReceived, rx_pc>>
    BY <1>13 DEF SniffPiece, send, receive
  <2> QED BY <1>4, <1>7, <2>3, <2>4
<1>14. CASE RelayTx
  <2>1. UNCHANGED <<packet, sends, main_pc, ackReceived, rx_pc>>
    BY <1>14 DEF RelayTx, send, receive
  <2>2. CASE TakePacket
    BY <1>4, <1>7, <2>1, <2>2 DEF TakePacket
  <2>3. CASE Transmit
    <3>1. Acks(in') = Acks(in) + 1
      BY <1>1, <2>3, TransmitKeeps
    <3>2. Acks(in') + Acks(packet') >= 1
      BY <1>1, <1>2, <3>1
    <3> QED BY <3>2 DEF AckHeld, Acks, AckPlaces
  <2> QED BY <1>14, <2>2, <2>3 DEF RelayTx
<1> QED BY <1>8, <1>9, <1>10, <1>11, <1>12, <1>13, <1>14, StepKinds

(* A receipt uses up the report, the report uses up the ACK.               *)
LEMMA SurplusStep ==
  ASSUME IInv, [Next]_vars
  PROVE  Surplus'
<1>1. /\ Controls /\ Queues /\ Surplus /\ RelayTyped(Messages)
      /\ Acks(in) \in Nat /\ Acks(packet) \in Nat
      /\ Cardinality(receipts) \in Nat /\ Len(air) \in Nat /\ StaleAcks \in Nat
      /\ InTurn(numbers) /\ numbers \in [Messages -> Nat]
      /\ ackReceived \in BOOLEAN /\ IsFiniteSet(receipts)
  BY QueueCounts, NumbersType DEF IInv, Queues, Numbered, Controls
<1>2. Queues' /\ Acks(in') \in Nat /\ Acks(packet') \in Nat
  BY OrderStep, AcksFinite DEF Queues, RelayTyped
<1>3. ASSUME UNCHANGED <<air, receipts, ackReceived>>,
             Acks(in) + Acks(packet) = Acks(in') + Acks(packet')
      PROVE  Surplus'
  <2>1. Surplus' <=> Cardinality(receipts) + Acks(in') + Acks(packet') + Reported <= Len(air) + StaleAcks
    BY <1>3 DEF Surplus, Reported, Acks, AckPlaces
  <2> QED BY <1>1, <1>2, <1>3, <2>1 DEF Surplus, Reported
<1>4. CASE Calm
  <2>1. UNCHANGED <<air, in, packet>>
    BY <1>4 DEF Calm, relay
  <2>2. CASE UNCHANGED <<receipts, ackReceived>>
    BY <1>3, <2>1, <2>2
  <2>3. CASE UNCHANGED receipts /\ ackReceived' = FALSE
    BY <1>1, <2>1, <2>3 DEF Surplus, Reported, Acks, AckPlaces
  <2>4. CASE ackReceived /\ ackReceived' = FALSE /\ receipts' = receipts \cup {sends}
    <3>1. Cardinality(receipts') \in Nat /\ Cardinality(receipts') <= Cardinality(receipts) + 1
      <4>1. Cardinality(receipts \cup {sends})
              = IF sends \in receipts THEN Cardinality(receipts) ELSE Cardinality(receipts) + 1
        BY <1>1, FS_AddElement
      <4>2. receipts' = receipts \cup {sends}
        BY <2>4
      <4> QED BY <1>1, <4>1, <4>2
    <3>2. Reported = 1 /\ Reported' = 0
      BY <2>4 DEF Reported
    <3> QED BY <1>1, <2>1, <3>1, <3>2 DEF Surplus, Acks, AckPlaces
  <2> QED BY <1>4, <2>2, <2>3, <2>4 DEF Calm, send
<1>5. CASE Wrote
  BY <1>3, <1>5 DEF Wrote
<1>6. CASE RxPacket
  <2>1. Acks(in) + Acks(packet) = Acks(in') + Acks(packet')
    BY <1>1, <1>6, TakenApart
  <2> QED BY <1>3, <1>6, <2>1 DEF RxPacket, send
<1>7. CASE DispatchAck
  <2>1. Acks(packet) = 1 + Acks(packet')
    BY <1>1, <1>7, TakenApart
  <2>2. UNCHANGED <<air, in, receipts>> /\ Reported' = 1
    BY <1>7 DEF DispatchAck, relaying, relay, send, Reported
  <2> QED BY <1>1, <1>2, <2>1, <2>2 DEF Surplus, Reported, Acks, AckPlaces
<1>8. CASE DispatchBytes
  <2>1. Acks(packet) = Acks(packet')
    BY <1>1, <1>8, TakenApart
  <2> QED BY <1>3, <1>8, <2>1 DEF DispatchBytes, relaying, relay, send
<1>9. CASE SniffPiece
  <2>1. PICK f, p : f = sniffed + 1 /\ p = traffic.claims[sniffed + 1]
    OBVIOUS
  <2>2. f \in Nat \ {0} /\ p \in Nat /\ Sniff(Piece(f, p))
    BY <1>1, <1>9, <2>1, TrafficTyped DEF SniffPiece, Controls
  <2>3. Acks(in') = Acks(in) /\ UNCHANGED air
    BY <1>1, <2>2, SniffKeeps
  <2>4. UNCHANGED <<packet, receipts, ackReceived>>
    BY <1>9 DEF SniffPiece, send, receive
  <2> QED BY <1>3, <2>3, <2>4
<1>10. CASE RelayTx
  <2>1. UNCHANGED <<packet, receipts, ackReceived>>
    BY <1>10 DEF RelayTx, send, receive
  <2>2. CASE TakePacket
    BY <1>3, <2>1, <2>2 DEF TakePacket
  <2>3. CASE Transmit
    <3>1. Acks(in') = Acks(in) + 1 /\ Len(air') = Len(air) + 1
      BY <1>1, <2>3, TransmitKeeps
    <3> QED BY <1>1, <2>1, <3>1 DEF Surplus, Reported, Acks, AckPlaces
  <2> QED BY <1>10, <2>2, <2>3 DEF RelayTx
<1> QED BY <1>4, <1>5, <1>6, <1>7, <1>8, <1>9, <1>10, StepKinds

LEMMA NextIInv ==
  ASSUME IInv, [Next]_vars
  PROVE  IInv'
BY ControlsStep, OrderStep, AckHeldStep, SurplusStep DEF IInv

LEMMA TwowayInvariant == Spec => []IInv
<1>1. IInv /\ [Next]_vars => IInv'
  BY NextIInv
<1> QED BY InitIInv, <1>1, PTL DEF Spec

(* For every capacity of the queues and every moment at which the sender,  *)
(* the receive thread and the relay act: the ACK of the message that is    *)
(* waited for is not lost between the threads (reset_ack_wait, notify_ack, *)
(* wait_ack_ms, dispatch_usb_in_packet).                                   *)
THEOREM AckNeverMissed == Spec => []AckNotMissed
<1>1. IInv => AckNotMissed
  <2> SUFFICES ASSUME IInv, main_pc \in {"wait", "sleep"}, rx_pc # "ended", sends \in Sent,
                      ~ackReceived
               PROVE  Pending
    BY DEF AckNotMissed
  <2>1. Acks(in) + Acks(packet) >= 1
    BY DEF IInv, AckHeld
  <2>2. in \in Seq(Entries) /\ packet \in Seq(Entries)
    BY DEF IInv, Queues, RelayTyped
  <2>3. Acks(in \o packet) = Acks(in) + Acks(packet) /\ in \o packet \in Seq(Entries)
    BY <2>2, AcksConcat, ConcatProperties
  <2>4. Acks(in \o packet) # 0
    BY <2>1, <2>3
  <2> QED BY <2>3, <2>4, AcksNone DEF Pending
<1> QED BY <1>1, TwowayInvariant, PTL

(* No ACK yields two receipts, and a wake-up without one yields none       *)
(* (wait_ack_ms).                                                          *)
THEOREM ReceiptsCovered == Spec => []NoSurplusReceipt
<1>1. IInv => NoSurplusReceipt
  <2> SUFFICES ASSUME IInv PROVE NoSurplusReceipt
    OBVIOUS
  <2>1. /\ Acks(in) \in Nat /\ Acks(packet) \in Nat /\ Cardinality(receipts) \in Nat
        /\ Len(air) \in Nat /\ StaleAcks \in Nat
    BY QueueCounts DEF IInv
  <2> QED BY <2>1 DEF IInv, Surplus, Reported, NoSurplusReceipt
<1> QED BY <1>1, TwowayInvariant, PTL

-----------------------------------------------------------------------------
(* The log.  What the receive thread holds and what is queued for it carry *)
(* the pieces from number a + 1 up to the last one sniffed, without a gap; *)
(* what is in the file lies before them, and of clean traffic it is every  *)
(* frame that does.                                                        *)

Aligned(a) ==
  /\ \A k \in 1..Len(log) : Begin(log[k]) + Len(log[k]) <= a + 1
  /\ CleanTraffic(traffic) =>
       /\ Len(log) <= Len(traffic.frames)
       /\ \A k \in 1..Len(log) : Begin(log[k]) = traffic.frames[k]
       /\ \A k \in 1..Len(traffic.frames) : k > Len(log) => a + 1 <= traffic.frames[k]

FlowAt(a, b, c) ==
  /\ Aligned(a)
  /\ b = a + Len(stream)
  /\ \A k \in 1..Len(stream) : IsPiece(traffic, stream[k], a + k - 1)
  /\ Carries(traffic, packet, b, c)
  /\ Carries(traffic, in, c, sniffed)

Flow == \E a, b, c \in Nat : FlowAt(a, b, c)

(* Complete frames are taken out of the buffer before the next USB packet  *)
(* is read: there is always room for one.                                  *)
Room ==
  /\ Len(stream) + Len(packet) <= MAX_PIECES - 1 + PacketUnits
  /\ (rx_pc \in {"check", "dispatch"} /\ keep_running) \/ rx_pc \in {"none", "read"} =>
       Len(stream) < Needed(stream)

Logged ==
  /\ log \in Seq(Seq(Entries))
  /\ \A k \in 1..Len(log) :
       /\ Len(log[k]) >= 1
       /\ log[k] = Overheard(traffic, Begin(log[k]))
       /\ \A j \in 1..(k - 1) : Begin(log[j]) + Len(log[j]) <= Begin(log[k])

(* What the receive thread does to its buffer and to the file              *)
RxMoves ==
  \/ /\ UNCHANGED <<in, traffic, sniffed, rx_pc, packet, stream, log>>
     /\ keep_running' => keep_running
  \/ /\ UNCHANGED <<in, traffic, sniffed, packet, stream, log>> /\ (keep_running' => keep_running)
     /\ \/ rx_pc = "none" /\ rx_pc' = "check"
        \/ rx_pc = "check" /\ keep_running /\ rx_pc' = "read"
        \/ rx_pc' = "ended"
        \/ rx_pc = "read" /\ rx_pc' = "check"
        \/ rx_pc = "dispatch" /\ rx_pc' = "check"
        \/ /\ rx_pc = "parse" /\ rx_pc' = "dispatch"
           /\ ~keep_running' \/ Len(stream) < Needed(stream)

LEMMA RxKinds ==
  ASSUME Controls, [Next]_vars
  PROVE  \/ RxMoves \/ RxPacket \/ DispatchAck \/ DispatchBytes
         \/ ParseSkip \/ ParseInvalid \/ ParseFrame \/ SniffPiece
         \/ Transmit /\ UNCHANGED <<traffic, sniffed, keep_running, receive>>
<1>1. CASE Setup
  <2>1. rx_pc = "none" /\ rx_pc' \in {"none", "check"}
    BY <1>1 DEF Setup, Controls
  <2>2. UNCHANGED <<in, traffic, sniffed, packet, stream, log, keep_running>>
    BY <1>1 DEF Setup, relaying, relay
  <2> QED BY <2>1, <2>2 DEF RxMoves
<1>2. CASE Prompt \/ EnterMessage \/ EnterOther \/ Cleanup \/ Join
  <2>1. UNCHANGED <<relay, traffic, sniffed, receive>> /\ (keep_running' => keep_running)
    BY <1>2 DEF Controls, Prompt, EnterMessage, EnterOther, Cleanup, Join, relaying
  <2> QED BY <2>1 DEF RxMoves, relay, receive
<1>3. CASE ResetAckWait \/ WriteMeta \/ WritePayload \/ WaitAck \/ Wake \/ WaitTimeout
  <2>1. UNCHANGED <<in, traffic, sniffed, keep_running, receive>>
    BY <1>3 DEF ResetAckWait, WriteMeta, WritePayload, WaitAck, Wake, WaitTimeout, relaying, relay
  <2> QED BY <2>1 DEF RxMoves, receive
<1>4. CASE RxLoop \/ RxTimeout \/ RxError \/ DispatchEnd
  BY <1>4 DEF RxLoop, RxTimeout, RxError, DispatchEnd, RxMoves, relaying, relay
<1>5. CASE ParseEnd \/ ParseWriteError
  BY <1>5 DEF ParseEnd, ParseWriteError, AtFrame, Parsing, RxMoves, relaying, relay
<1>6. CASE Sigint \/ UNCHANGED vars
  BY <1>6 DEF Sigint, vars, RxMoves, relaying, relay, receive
<1>7. CASE RelayTx
  BY <1>7 DEF RelayTx, TakePacket, RxMoves, receive
<1>8. CASE Main
  BY <1>1, <1>2, <1>3, <1>8 DEF Main
<1>9. CASE Rx
  BY <1>4, <1>5, <1>9 DEF Rx
<1> QED BY <1>2, <1>6, <1>7, <1>8, <1>9 DEF Next

LEMMA RoomStep ==
  ASSUME IInv, Room, [Next]_vars
  PROVE  Room'
<1>1. /\ Controls /\ Queues
      /\ stream \in Seq(Entries) /\ packet \in Seq(Entries)
      /\ Len(stream) \in Nat /\ Len(packet) \in Nat
      /\ MAX_PIECES \in Nat \ {0} /\ PacketUnits \in Nat
      /\ Needed(stream) \in Nat /\ Needed(stream) <= MAX_PIECES
  <2>1. MAX_PIECES \in Nat \ {0} /\ PacketUnits \in Nat
    BY TwowayAssumption
  <2>2. Controls /\ Queues /\ stream \in Seq(Entries) /\ packet \in Seq(Entries)
    BY DEF IInv, Queues
  <2>3. Needed(stream) \in 1..MAX_PIECES
    BY <2>2, NeededRange
  <2> QED BY <2>1, <2>2, <2>3
<1>2. CASE RxMoves
  <2>1. UNCHANGED <<stream, packet>> /\ (keep_running' => keep_running) /\ Needed(stream') = Needed(stream)
    BY <1>2 DEF RxMoves
  <2>2. CASE UNCHANGED rx_pc
    BY <2>1, <2>2 DEF Room
  <2>3. CASE ~UNCHANGED rx_pc
    <3>1. \/ rx_pc = "none" /\ rx_pc' = "check"
          \/ rx_pc = "check" /\ keep_running /\ rx_pc' = "read"
          \/ rx_pc' = "ended"
          \/ rx_pc = "read" /\ rx_pc' = "check"
          \/ rx_pc = "dispatch" /\ rx_pc' = "check"
          \/ rx_pc = "parse" /\ rx_pc' = "dispatch" /\ (~keep_running' \/ Len(stream) < Needed(stream))
      BY <1>2, <2>3 DEF RxMoves
    <3> QED BY <2>1, <3>1 DEF Room
  <2> QED BY <2>2, <2>3
<1>3. CASE RxPacket
  <2>1. packet' \in Seq(Entries) /\ Len(packet') <= PacketUnits /\ Len(packet') \in Nat
    BY <1>1, <1>3, TakenApart
  <2>2. Len(stream) < Needed(stream) /\ stream' = stream /\ rx_pc' = "dispatch"
        /\ Needed(stream') = Needed(stream)
    BY <1>3 DEF RxPacket, Room
  <2>3. Len(stream') + Len(packet') <= MAX_PIECES - 1 + PacketUnits
    BY <1>1, <2>1, <2>2
  <2> QED BY <2>2, <2>3 DEF Room
<1>4. CASE DispatchAck
  <2>1. Len(packet') = Len(packet) - 1
    BY <1>1, <1>4, HeadTailProperties DEF DispatchAck
  <2>2. UNCHANGED <<stream, rx_pc, keep_running>> /\ Needed(stream') = Needed(stream)
    BY <1>4 DEF DispatchAck
  <2>3. Len(stream') + Len(packet') <= MAX_PIECES - 1 + PacketUnits
    BY <1>1, <2>1, <2>2 DEF Room
  <2> QED BY <2>2, <2>3 DEF Room
<1>5. CASE DispatchBytes
  <2>1. PICK n \in 1..Len(packet) :
          /\ stream' = (IF Len(stream) + n > StreamLimit THEN <<>> ELSE stream) \o SubSeq(packet, 1, n)
          /\ packet' = SubSeq(packet, n + 1, Len(packet))
    BY <1>5 DEF DispatchBytes
  <2>2. n \in 0..Len(packet)
    BY <1>1, <2>1
  <2> DEFINE kept == IF Len(stream) + n > StreamLimit THEN <<>> ELSE stream
             t == SubSeq(packet, 1, n)
  <2>3. t \in Seq(Entries) /\ Len(t) = n /\ Len(packet') = Len(packet) - n
    BY <1>1, <2>1, <2>2, AcksSplit
  <2>4. kept \in Seq(Entries) /\ Len(kept) \in Nat /\ Len(kept) <= Len(stream)
    BY <1>1, EmptySeq
  <2>5. stream' = kept \o t
    BY <2>1
  <2> HIDE DEF kept, t
  <2>6. Len(stream') = Len(kept) + n
    BY <2>3, <2>4, <2>5, ConcatProperties
  <2>7. rx_pc' = "parse"
    BY <1>5 DEF DispatchBytes
  <2> QED BY <1>1, <2>2, <2>3, <2>4, <2>6, <2>7 DEF Room
<1>6. CASE ParseSkip \/ ParseInvalid
  <2>1. Len(stream') = Len(stream) - 1
    <3>1. Parsing /\ stream' = Tail(stream)
      BY <1>6 DEF ParseSkip, ParseInvalid
    <3> QED BY <1>1, <3>1, AtHead, HeadTailProperties
  <2>2. UNCHANGED packet /\ rx_pc' = "parse"
    BY <1>6 DEF ParseSkip, ParseInvalid, Parsing
  <2> QED BY <1>1, <2>1, <2>2 DEF Room
<1>7. CASE ParseFrame
  <2>1. /\ Claim(stream) \in 1..Len(stream)
        /\ stream' = SubSeq(stream, Claim(stream) + 1, Len(stream))
    BY <1>1, <1>7, AtHead DEF ParseFrame, AtFrame
  <2>2. Claim(stream) \in 0..Len(stream) /\ Len(stream') = Len(stream) - Claim(stream)
    BY <1>1, <2>1, AcksSplit
  <2>3. UNCHANGED packet /\ rx_pc' = "parse"
    BY <1>7 DEF ParseFrame, AtFrame, Parsing
  <2> QED BY <1>1, <2>1, <2>2, <2>3 DEF Room
<1>8. CASE SniffPiece \/ (Transmit /\ UNCHANGED <<traffic, sniffed, keep_running, receive>>)
  <2>1. UNCHANGED <<stream, packet, rx_pc, keep_running>> /\ Needed(stream') = Needed(stream)
    BY <1>8 DEF SniffPiece, receive
  <2> QED BY <2>1 DEF Room
<1> QED BY <1>1, <1>2, <1>3, <1>4, <1>5, <1>6, <1>7, <1>8, RxKinds

(* Clean traffic, and the metadata of a frame at the head of the buffer:   *)
(* it is the frame to come.                                                *)
LEMMA FrameAhead ==
  ASSUME traffic \in Traffic, Logged, NEW a \in Nat, Aligned(a), CleanTraffic(traffic),
         a + 1 \in 1..Len(traffic.claims), traffic.claims[a + 1] \in 1..MAX_PIECES
  PROVE  Len(log) + 1 \in 1..Len(traffic.frames) /\ traffic.frames[Len(log) + 1] = a + 1
<1>1. /\ META_PIECES \in Nat \ {0} /\ MAX_PIECES \in Nat
      /\ Len(log) \in Nat /\ Len(traffic.frames) \in Nat
  BY TwowayAssumption, TrafficTyped DEF Logged
<1>2. traffic.claims[a + 1] \in META_PIECES..MAX_PIECES
  BY <1>1, TrafficTyped
<1>3. PICK k \in 1..Len(traffic.frames) : a + 1 \in Extent(traffic, k)
  BY <1>2 DEF CleanTraffic
<1> DEFINE f == traffic.frames[k]
           z == traffic.claims[f]
<1>4. f \in Nat /\ z \in Nat /\ z >= 1 /\ f <= a + 1 /\ a + 1 <= f + z - 1
  <2>1. f \in Nat /\ z \in META_PIECES..MAX_PIECES
    BY TrafficTyped DEF CleanTraffic
  <2> HIDE DEF z
  <2>2. a + 1 \in f..(f + z - 1)
    BY <1>3 DEF Extent, z
  <2> QED BY <1>1, <2>1, <2>2
<1>5. k > Len(log)
  <2> SUFFICES ASSUME k <= Len(log) PROVE FALSE
    BY <1>1
  <2>1. k \in 1..Len(log) /\ Begin(log[k]) = f
    BY <1>1 DEF Aligned
  <2>2. Len(log[k]) = z
    <3>1. log[k] \in Seq(Entries) /\ log[k] = Overheard(traffic, f)
      BY <2>1 DEF Logged
    <3>2. DOMAIN log[k] = 1..z
      BY <3>1 DEF Overheard
    <3> HIDE DEF f, z
    <3> QED BY <1>4, <3>1, <3>2
  <2>3. f + z <= a + 1
    BY <2>1, <2>2 DEF Aligned
  <2> HIDE DEF f, z
  <2> QED BY <1>4, <2>3
<1>6. a + 1 <= f
  BY <1>5 DEF Aligned
<1>7. k = Len(log) + 1
  <2> SUFFICES ASSUME k # Len(log) + 1 PROVE FALSE
    OBVIOUS
  <2>1. Len(log) + 1 \in 1..Len(traffic.frames) /\ Len(log) + 1 < k
    BY <1>1, <1>5
  <2> DEFINE g == traffic.frames[Len(log) + 1]
             y == traffic.claims[g]
  <2>2. g \in Nat /\ y \in META_PIECES..MAX_PIECES /\ g + y <= f
    BY <2>1, TrafficTyped DEF CleanTraffic
  <2>3. a + 1 <= g
    BY <1>1, <2>1 DEF Aligned
  <2> HIDE DEF f, z, g, y
  <2> QED BY <1>1, <1>4, <2>2, <2>3
<1> HIDE DEF f, z
<1>8. f = a + 1
  BY <1>4, <1>6
<1> QED BY <1>7, <1>8 DEF f

(* A piece that begins no metadata with a valid length is dropped alone:   *)
(* no frame begins with it.                                                *)
LEMMA NoFrameAhead ==
  ASSUME traffic \in Traffic, Logged, NEW a \in Nat, Aligned(a),
         a + 1 \in 1..Len(traffic.claims), traffic.claims[a + 1] \notin 1..MAX_PIECES
  PROVE  Aligned(a + 1)
<1>1. /\ META_PIECES \in Nat \ {0} /\ MAX_PIECES \in Nat
      /\ Len(log) \in Nat /\ Len(traffic.frames) \in Nat
  BY TwowayAssumption, TrafficTyped DEF Logged
<1>2. ASSUME NEW k \in 1..Len(log) PROVE Begin(log[k]) + Len(log[k]) <= (a + 1) + 1
  <2>1. log[k] \in Seq(Entries) /\ Len(log[k]) >= 1
    BY DEF Logged
  <2>2. log[k][1] \in Entries
    BY <2>1
  <2>3. Begin(log[k]) \in Nat /\ Len(log[k]) \in Nat
    BY <2>1, <2>2 DEF Begin, Entries
  <2>4. Begin(log[k]) + Len(log[k]) <= a + 1
    BY DEF Aligned
  <2> QED BY <2>3, <2>4
<1>3. ASSUME CleanTraffic(traffic), NEW k \in 1..Len(traffic.frames), k > Len(log)
      PROVE  (a + 1) + 1 <= traffic.frames[k]
  <2>1. /\ traffic.frames[k] \in Nat
        /\ traffic.claims[traffic.frames[k]] \in META_PIECES..MAX_PIECES
    BY <1>3, TrafficTyped DEF CleanTraffic
  <2>2. a + 1 <= traffic.frames[k]
    BY <1>3 DEF Aligned
  <2>3. traffic.frames[k] # a + 1
    <3> SUFFICES ASSUME traffic.frames[k] = a + 1 PROVE FALSE
      OBVIOUS
    <3>1. traffic.claims[a + 1] \in META_PIECES..MAX_PIECES
      BY <2>1
    <3> QED BY <1>1, <3>1
  <2> QED BY <2>1, <2>2, <2>3
<1> QED BY <1>2, <1>3 DEF Aligned

(* What the head of the buffer is                                          *)
LEMMA HeadPiece ==
  ASSUME Controls, Queues, Parsing, NEW a \in Nat,
         \A k \in 1..Len(stream) : IsPiece(traffic, stream[k], a + k - 1)
  PROVE  /\ a + 1 \in 1..Len(traffic.claims)
         /\ stream[1].position = a + 1
         /\ Claim(stream) = traffic.claims[a + 1]
<1>1. /\ stream \in Seq(Entries) /\ traffic \in Traffic
      /\ 1 \in 1..Len(stream) /\ Claim(stream) = stream[1].claim
  <2>1. stream \in Seq(Entries) /\ traffic \in Traffic
    BY DEF Queues, Controls
  <2> QED BY <2>1, AtHead
<1>2. a + 1 - 1 = a
  OBVIOUS
<1>3. IsPiece(traffic, stream[1], a)
  BY <1>1, <1>2
<1> QED BY <1>1, <1>3, PieceFields

(* Bytes that begin no metadata and metadata with a length out of range    *)
LEMMA NothingThere ==
  ASSUME Controls, Queues, Logged, Flow, ParseSkip \/ ParseInvalid
  PROVE  Logged' /\ Flow'
<1>1. PICK a, b, c \in Nat : FlowAt(a, b, c)
  BY DEF Flow
<1>2. /\ stream \in Seq(Entries) /\ Len(stream) \in Nat /\ traffic \in Traffic
      /\ MAX_PIECES \in Nat
  BY TwowayAssumption DEF Queues, Controls
<1>3. /\ Parsing /\ Claim(stream) \notin 1..MAX_PIECES /\ stream' = Tail(stream)
      /\ UNCHANGED <<in, traffic, sniffed, packet, log>>
  <2>1. Claim(stream) \in Nat /\ (Claim(stream) = 0 \/ Claim(stream) > MAX_PIECES)
    BY <1>2, NeededRange DEF ParseSkip, ParseInvalid
  <2>2. Claim(stream) \notin 1..MAX_PIECES
    BY <1>2, <2>1
  <2> QED BY <2>2 DEF ParseSkip, ParseInvalid, relaying, relay
<1>4. b = a + Len(stream) /\ \A k \in 1..Len(stream) : IsPiece(traffic, stream[k], a + k - 1)
  BY <1>1 DEF FlowAt
<1>5. Aligned(a + 1)
  <2>1. a + 1 \in 1..Len(traffic.claims) /\ traffic.claims[a + 1] \notin 1..MAX_PIECES
    BY <1>3, <1>4, HeadPiece
  <2> QED BY <1>1, <1>2, <2>1, NoFrameAhead DEF FlowAt
<1>6. Len(stream) >= 1 /\ Len(stream') = Len(stream) - 1
      /\ \A k \in 1..(Len(stream) - 1) : stream'[k] = stream[k + 1]
  <2>1. stream # <<>> /\ Len(stream) >= 1
    BY <1>2, <1>3, AtHead
  <2> QED BY <1>2, <1>3, <2>1, HeadTailProperties
<1>7. FlowAt(a + 1, b, c)'
  <2>1. Aligned(a + 1)'
    BY <1>3, <1>5 DEF Aligned
  <2>2. b = (a + 1) + Len(stream')
    BY <1>2, <1>4, <1>6
  <2>3. ASSUME NEW k \in 1..Len(stream') PROVE IsPiece(traffic', stream'[k], (a + 1) + k - 1)
    <3>1. k \in 1..(Len(stream) - 1) /\ k + 1 \in 1..Len(stream) /\ a + (k + 1) - 1 = (a + 1) + k - 1
      BY <1>2, <1>6
    <3>2. IsPiece(traffic, stream[k + 1], a + (k + 1) - 1)
      BY <1>4, <3>1
    <3> QED BY <1>3, <1>6, <3>1, <3>2
  <2>4. Carries(traffic, packet, b, c)' /\ Carries(traffic, in, c, sniffed)'
    BY <1>1, <1>3 DEF FlowAt
  <2> QED BY <2>1, <2>2, <2>3, <2>4 DEF FlowAt
<1>8. Logged'
  BY <1>3 DEF Logged
<1> QED BY <1>7, <1>8 DEF Flow

(* A complete frame goes to the file: what was overheard there, and of     *)
(* clean traffic the one that is due.                                      *)
LEMMA FrameLogged ==
  ASSUME Controls, Queues, Logged, Flow, ParseFrame
  PROVE  Logged' /\ Flow'
<1>1. PICK a, b, c \in Nat : FlowAt(a, b, c)
  BY DEF Flow
<1>0. PICK z : z = Claim(stream)
  OBVIOUS
<1> DEFINE n == Len(log)
           t == SubSeq(stream, 1, z)
           u == SubSeq(stream, z + 1, Len(stream))
<1>2. /\ stream \in Seq(Entries) /\ Len(stream) \in Nat /\ traffic \in Traffic
      /\ log \in Seq(Seq(Entries)) /\ n \in Nat
      /\ AtFrame /\ Parsing /\ z \in 1..MAX_PIECES
  BY <1>0 DEF Queues, Controls, Logged, ParseFrame, AtFrame
<1>3. b = a + Len(stream) /\ \A k \in 1..Len(stream) : IsPiece(traffic, stream[k], a + k - 1)
  BY <1>1 DEF FlowAt
<1>4. /\ a + 1 \in 1..Len(traffic.claims) /\ z = traffic.claims[a + 1]
      /\ z \in 1..Len(stream) /\ z \in Nat \ {0} /\ z \in 0..Len(stream)
  <2>1. a + 1 \in 1..Len(traffic.claims) /\ z = traffic.claims[a + 1]
    BY <1>0, <1>2, <1>3, HeadPiece
  <2>2. z \in 1..Len(stream)
    BY <1>0, <1>2, AtHead
  <2> QED BY <1>2, <2>1, <2>2
<1>5. z \in Nat /\ Len(stream) \in Nat /\ z <= Len(stream) /\ a \in Nat /\ a + z \in Nat
  BY <1>2, <1>4
<1>6. /\ t \in Seq(Entries) /\ Len(t) = z /\ \A k \in 1..z : t[k] = stream[k]
      /\ Len(u) = Len(stream) - z
      /\ \A k \in 1..(Len(stream) - z) : u[k] = stream[z + k]
  BY <1>2, <1>4, AcksSplit
<1>7. /\ log' = Append(log, t) /\ stream' = u
      /\ UNCHANGED <<in, packet, traffic, sniffed>>
  BY <1>0 DEF ParseFrame, relaying, relay
<1> HIDE DEF t, u, n
<1>8. ASSUME NEW k \in 1..z PROVE t[k] = Piece(a + k, traffic.claims[a + k])
  <2>1. k \in 1..Len(stream) /\ (a + k - 1) + 1 = a + k
    BY <1>2, <1>4
  <2>2. IsPiece(traffic, stream[k], a + k - 1)
    BY <1>3, <2>1
  <2> QED BY <1>6, <2>1, <2>2 DEF IsPiece
<1>9. Begin(t) = a + 1
  <2>1. 1 \in 1..z
    BY <1>4
  <2>2. t[1] = Piece(a + 1, traffic.claims[a + 1])
    BY <1>8, <2>1
  <2> QED BY <2>2 DEF Begin, Piece
<1>10. t = Overheard(traffic, Begin(t))
  <2>1. t = [k \in 1..z |-> t[k]]
    BY <1>6
  <2>2. ASSUME NEW k \in 1..z
        PROVE  t[k] = Piece((a + 1) + k - 1, traffic.claims[(a + 1) + k - 1])
    <3>1. (a + 1) + k - 1 = a + k
      BY <1>4
    <3> QED BY <1>8, <3>1
  <2>3. Overheard(traffic, a + 1)
          = [k \in 1..z |-> Piece((a + 1) + k - 1, traffic.claims[(a + 1) + k - 1])]
    BY <1>4 DEF Overheard
  <2> QED BY <1>9, <2>1, <2>2, <2>3
<1>11. /\ log' \in Seq(Seq(Entries)) /\ Len(log') = n + 1
       /\ log'[n + 1] = t /\ \A k \in 1..n : log'[k] = log[k]
  BY <1>2, <1>6, <1>7, AppendProperties DEF n
<1>12. ASSUME NEW k \in 1..n
       PROVE  /\ log[k] = Overheard(traffic, Begin(log[k])) /\ Len(log[k]) >= 1
              /\ Begin(log[k]) + Len(log[k]) <= a + 1
              /\ Begin(log[k]) \in Nat /\ Len(log[k]) \in Nat
  <2>1. /\ log[k] \in Seq(Entries) /\ Len(log[k]) >= 1
        /\ log[k] = Overheard(traffic, Begin(log[k]))
    BY DEF Logged, n
  <2>2. log[k][1] \in Entries
    BY <2>1
  <2>3. Begin(log[k]) \in Nat /\ Len(log[k]) \in Nat
    BY <2>1, <2>2 DEF Begin, Entries
  <2>4. Begin(log[k]) + Len(log[k]) <= a + 1
    BY <1>1 DEF FlowAt, Aligned, n
  <2> QED BY <2>1, <2>3, <2>4
<1>13. Logged'
  <2> SUFFICES ASSUME NEW k \in 1..Len(log')
               PROVE  /\ Len(log'[k]) >= 1 /\ log'[k] = Overheard(traffic, Begin(log'[k]))
                      /\ \A j \in 1..(k - 1) : Begin(log'[j]) + Len(log'[j]) <= Begin(log'[k])
    BY <1>7, <1>11 DEF Logged
  <2>1. CASE k \in 1..n
    <3>1. /\ \A j \in 1..(k - 1) : Begin(log[j]) + Len(log[j]) <= Begin(log[k])
          /\ \A j \in 1..(k - 1) : j \in 1..n
      BY <1>2, <2>1 DEF Logged, n
    <3> QED BY <1>11, <1>12, <2>1, <3>1
  <2>2. CASE k = n + 1
    <3>1. \A j \in 1..(k - 1) : j \in 1..n
      BY <1>2, <2>2
    <3>2. log'[k] = t /\ Len(t) >= 1
      BY <1>4, <1>6, <1>11, <2>2
    <3> QED BY <1>9, <1>10, <1>11, <1>12, <3>1, <3>2
  <2> QED BY <1>2, <1>11, <2>1, <2>2
<1>14. Aligned(a + z)'
  <2>1. ASSUME NEW k \in 1..Len(log') PROVE Begin(log'[k]) + Len(log'[k]) <= (a + z) + 1
    <3>1. CASE k \in 1..n
      <4>1. Begin(log[k]) + Len(log[k]) <= a + 1 /\ Begin(log[k]) \in Nat /\ Len(log[k]) \in Nat
        BY <1>12, <3>1
      <4>2. Begin(log[k]) + Len(log[k]) <= (a + z) + 1
        BY <1>5, <4>1
      <4> QED BY <1>11, <3>1, <4>2
    <3>2. CASE k = n + 1
      <4>1. (a + 1) + z <= (a + z) + 1
        BY <1>4
      <4> QED BY <1>6, <1>9, <1>11, <3>2, <4>1
    <3> QED BY <1>2, <1>11, <3>1, <3>2
  <2>2. ASSUME CleanTraffic(traffic)
        PROVE  /\ Len(log') <= Len(traffic.frames)
               /\ \A k \in 1..Len(log') : Begin(log'[k]) = traffic.frames[k]
               /\ \A k \in 1..Len(traffic.frames) :
                    k > Len(log') => (a + z) + 1 <= traffic.frames[k]
    <3>1. n + 1 \in 1..Len(traffic.frames) /\ traffic.frames[n + 1] = a + 1
      BY <1>1, <1>2, <1>4, <2>2, FrameAhead DEF FlowAt, n
    <3>2. Len(traffic.frames) \in Nat /\ \A k \in 1..Len(traffic.frames) : traffic.frames[k] \in Nat
      BY <1>2, TrafficTyped
    <3>3. \A k \in 1..n : Begin(log[k]) = traffic.frames[k]
      BY <1>1, <2>2 DEF FlowAt, Aligned, n
    <3>4. ASSUME NEW k \in 1..Len(log') PROVE Begin(log'[k]) = traffic.frames[k]
      <4>1. k \in 1..n \/ k = n + 1
        BY <1>2, <1>11
      <4> QED BY <1>9, <1>11, <3>1, <3>3, <4>1
    <3>5. ASSUME NEW k \in 1..Len(traffic.frames), k > Len(log')
          PROVE  (a + z) + 1 <= traffic.frames[k]
      <4>1. n + 1 < k
        BY <1>2, <1>11, <3>5
      <4>2. traffic.frames[n + 1] + traffic.claims[traffic.frames[n + 1]] <= traffic.frames[k]
        BY <2>2, <3>1, <4>1 DEF CleanTraffic
      <4>3. (a + 1) + z <= traffic.frames[k]
        BY <1>4, <3>1, <4>2
      <4> QED BY <1>4, <3>2, <4>3
    <3>6. Len(log') <= Len(traffic.frames)
      BY <1>2, <1>11, <3>1, <3>2
    <3> QED BY <3>4, <3>5, <3>6
  <2> QED BY <1>7, <2>1, <2>2 DEF Aligned
<1>15. FlowAt(a + z, b, c)'
  <2>1. b = (a + z) + Len(stream')
    <3>1. b = a + Len(stream) /\ Len(stream') = Len(stream) - z
      BY <1>3, <1>6, <1>7
    <3> QED BY <1>5, <3>1
  <2>2. ASSUME NEW k \in 1..Len(stream') PROVE IsPiece(traffic', stream'[k], (a + z) + k - 1)
    <3>1. k \in 1..(Len(stream) - z) /\ z + k \in 1..Len(stream)
          /\ a + (z + k) - 1 = (a + z) + k - 1
      <4>1. Len(stream') = Len(stream) - z
        BY <1>6, <1>7
      <4> QED BY <1>5, <2>2, <4>1
    <3>2. IsPiece(traffic, stream[z + k], a + (z + k) - 1)
      BY <1>3, <3>1
    <3> QED BY <1>6, <1>7, <3>1, <3>2
  <2>3. Carries(traffic, packet, b, c)' /\ Carries(traffic, in, c, sniffed)'
    BY <1>1, <1>7 DEF FlowAt
  <2> QED BY <1>14, <2>1, <2>2, <2>3 DEF FlowAt
<1> QED BY <1>13, <1>15, <1>5 DEF Flow

(* There is always room for what is appended, so nothing is thrown away    *)
(* (append_sniffer_bytes).                                                 *)
LEMMA BytesAppended ==
  ASSUME Queues, Room, Flow, StreamLimit >= MAX_PIECES - 1 + PacketUnits, DispatchBytes
  PROVE  Flow'
<1>1. PICK a, b, c \in Nat : FlowAt(a, b, c)
  BY DEF Flow
<1>2. PICK n \in 1..Len(packet) :
        /\ \A k \in 1..n : packet[k] # Ack
        /\ stream' = (IF Len(stream) + n > StreamLimit THEN <<>> ELSE stream) \o SubSeq(packet, 1, n)
        /\ packet' = SubSeq(packet, n + 1, Len(packet))
  BY DEF DispatchBytes
<1>3. /\ stream \in Seq(Entries) /\ Len(stream) \in Nat
      /\ packet \in Seq(Entries) /\ Len(packet) \in Nat
      /\ MAX_PIECES \in Nat /\ PacketUnits \in Nat /\ StreamLimit \in Nat
      /\ n \in 0..Len(packet)
  BY <1>2, TwowayAssumption DEF Queues
<1> DEFINE t == SubSeq(packet, 1, n)
<1>4. t \in Seq(Entries) /\ Len(t) = n /\ \A k \in 1..n : t[k] = packet[k]
  BY <1>3, AcksSplit
<1>5. stream' = stream \o t
  <2>1. ~(Len(stream) + n > StreamLimit)
    BY <1>3 DEF Room
  <2> QED BY <1>2, <2>1
<1>6. PICK d \in Nat :
        /\ Carries(traffic, SubSeq(packet, n + 1, Len(packet)), d, c)
        /\ d = b + n /\ \A k \in 1..n : IsPiece(traffic, packet[k], b + k - 1)
  <2>1. Carries(traffic, packet, b, c)
    BY <1>1 DEF FlowAt
  <2>2. PICK d \in Nat :
          /\ Carries(traffic, SubSeq(packet, 1, n), b, d)
          /\ Carries(traffic, SubSeq(packet, n + 1, Len(packet)), d, c)
          /\ n = 1 /\ packet[1] = Ack => d = b
          /\ (\A k \in 1..n : packet[k] # Ack) =>
               d = b + n /\ \A k \in 1..n : IsPiece(traffic, packet[k], b + k - 1)
    <3>1. packet \in Seq(Entries) /\ n \in 0..Len(packet)
      BY <1>3
    <3> HIDE DEF t
    <3> QED BY <2>1, <3>1, CarriesSplit, Zenon
  <2> QED BY <1>2, <2>2
<1> HIDE DEF t
<1>7. /\ Len(stream') = Len(stream) + n
      /\ \A k \in 1..(Len(stream) + n) :
           stream'[k] = IF k <= Len(stream) THEN stream[k] ELSE t[k - Len(stream)]
  BY <1>3, <1>4, <1>5, ConcatProperties
<1>8. b = a + Len(stream) /\ \A k \in 1..Len(stream) : IsPiece(traffic, stream[k], a + k - 1)
  BY <1>1 DEF FlowAt
<1>9. ASSUME NEW k \in 1..Len(stream') PROVE IsPiece(traffic, stream'[k], a + k - 1)
  <2>0. k \in 1..(Len(stream) + n) /\ n \in Nat
    BY <1>3, <1>7, <1>9
  <2>1. CASE k <= Len(stream)
    <3>1. k \in 1..Len(stream)
      BY <1>3, <2>0, <2>1
    <3> QED BY <1>7, <1>8, <2>0, <2>1, <3>1
  <2>2. CASE k > Len(stream)
    <3>1. k - Len(stream) \in 1..n /\ b + (k - Len(stream)) - 1 = a + k - 1
      BY <1>3, <1>8, <2>0, <2>2
    <3>2. IsPiece(traffic, t[k - Len(stream)], b + (k - Len(stream)) - 1)
      BY <1>4, <1>6, <3>1
    <3>3. ~(k <= Len(stream))
      BY <1>3, <2>0, <2>2
    <3> QED BY <1>7, <2>0, <3>1, <3>2, <3>3
  <2> QED BY <1>3, <2>0, <2>1, <2>2
<1>10. UNCHANGED <<in, traffic, sniffed, log>>
  BY DEF DispatchBytes, relaying, relay
<1>11. FlowAt(a, d, c)'
  <2>1. Aligned(a)'
    BY <1>1, <1>10 DEF FlowAt, Aligned
  <2>2. d = a + Len(stream')
    BY <1>3, <1>6, <1>7, <1>8
  <2>3. Carries(traffic, packet, d, c)'
    BY <1>2, <1>6, <1>10
  <2>4. Carries(traffic, in, c, sniffed)'
    BY <1>1, <1>10 DEF FlowAt
  <2> QED BY <1>9, <1>10, <2>1, <2>2, <2>3, <2>4 DEF FlowAt
<1> QED BY <1>11 DEF Flow

LEMMA FlowStep ==
  ASSUME IInv, Room, Flow, Logged, StreamLimit >= MAX_PIECES - 1 + PacketUnits, [Next]_vars
  PROVE  Flow' /\ Logged'
<1>1. PICK a, b, c \in Nat : FlowAt(a, b, c)
  BY DEF Flow
<1>2. /\ Controls /\ Queues
      /\ in \in Seq(Entries) /\ packet \in Seq(Entries) /\ stream \in Seq(Entries)
      /\ Len(in) \in Nat /\ Len(packet) \in Nat /\ Len(stream) \in Nat
      /\ Carries(traffic, packet, b, c) /\ Carries(traffic, in, c, sniffed) /\ sniffed \in Nat
  BY <1>1 DEF IInv, Controls, Queues, RelayTyped, FlowAt
<1>3. ASSUME UNCHANGED <<traffic, log>> PROVE Logged' /\ Aligned(a)'
  BY <1>1, <1>3 DEF Logged, FlowAt, Aligned
<1>4. CASE RxMoves
  <2>1. UNCHANGED <<in, traffic, sniffed, packet, stream, log>>
    BY <1>4 DEF RxMoves
  <2>2. FlowAt(a, b, c)'
    BY <1>1, <1>3, <2>1 DEF FlowAt
  <2> QED BY <1>3, <2>1, <2>2 DEF Flow
<1>5. ASSUME UNCHANGED <<traffic, packet, stream, log>>, Carries(traffic, in, c, sniffed)'
      PROVE  Flow' /\ Logged'
  <2>1. FlowAt(a, b, c)'
    BY <1>1, <1>3, <1>5 DEF FlowAt
  <2> QED BY <1>3, <1>5, <2>1 DEF Flow
<1>6. CASE SniffPiece
  <2>1. PICK e : e = Piece(sniffed + 1, traffic.claims[sniffed + 1])
    OBVIOUS
  <2>2. in' = Append(in, e) /\ sniffed' = sniffed + 1 /\ IsPiece(traffic, e, sniffed)
    BY <1>6, <2>1 DEF SniffPiece, Sniff, IsPiece
  <2>3. Carries(traffic, Append(in, e), c, sniffed + 1)
    BY <1>2, <2>2, CarriesOne
  <2>4. UNCHANGED <<traffic, packet, stream, log>>
    BY <1>6 DEF SniffPiece, receive
  <2>5. Carries(traffic, in, c, sniffed)'
    BY <2>2, <2>3, <2>4
  <2> QED BY <1>5, <2>4, <2>5
<1>7. CASE Transmit /\ UNCHANGED <<traffic, sniffed, keep_running, receive>>
  <2>1. in' = Append(in, Ack) /\ UNCHANGED <<traffic, sniffed, packet, stream, log>>
    BY <1>7 DEF Transmit, receive
  <2>2. Carries(traffic, Append(in, Ack), c, sniffed)
    BY <1>2, CarriesOne
  <2>3. Carries(traffic, in, c, sniffed)'
    BY <2>1, <2>2
  <2> QED BY <1>5, <2>1, <2>3
<1>8. CASE RxPacket
  <2>1. PICK n \in 1..PacketUnits :
          n <= Len(in) /\ packet' = SubSeq(in, 1, n) /\ in' = SubSeq(in, n + 1, Len(in))
    BY <1>8 DEF RxPacket
  <2>2. n \in 0..Len(in)
    BY <1>2, <2>1, TwowayAssumption
  <2>3. PICK d \in Nat : /\ Carries(traffic, SubSeq(in, 1, n), c, d)
                         /\ Carries(traffic, SubSeq(in, n + 1, Len(in)), d, sniffed)
    BY <1>2, <2>2, CarriesSplit
  <2>4. b = c
    <3>1. packet = <<>> /\ Len(packet) = 0
      BY <1>2, <1>8, EmptySeq DEF RxPacket, Controls
    <3>2. PICK f : Counts(traffic, packet, b, c, f)
      BY <1>2 DEF Carries
    <3>3. f[0] = b /\ f[Len(packet)] = c
      BY <3>2 DEF Counts
    <3> QED BY <3>1, <3>3
  <2>5. UNCHANGED <<traffic, sniffed, stream, log>>
    BY <1>8 DEF RxPacket
  <2>6. Carries(traffic, packet, b, d)' /\ Carries(traffic, in, d, sniffed)'
    BY <2>1, <2>3, <2>4, <2>5
  <2>7. FlowAt(a, b, d)'
    BY <1>1, <1>3, <2>5, <2>6 DEF FlowAt
  <2> QED BY <1>3, <2>5, <2>7 DEF Flow
<1>9. CASE DispatchAck
  <2>1. packet # <<>> /\ Head(packet) = Ack /\ packet' = Tail(packet)
        /\ UNCHANGED <<in, traffic, sniffed, stream, log>>
    BY <1>9 DEF DispatchAck, relaying, relay
  <2>2. 1 \in 0..Len(packet) /\ packet[1] = Ack
    BY <1>2, <2>1, EmptySeq
  <2>3. Carries(traffic, SubSeq(packet, 1 + 1, Len(packet)), b, c)
    <3>1. PICK n : n = 1
      OBVIOUS
    <3>2. packet \in Seq(Entries) /\ n \in 0..Len(packet) /\ Carries(traffic, packet, b, c)
      BY <1>2, <2>2, <3>1
    <3>3. PICK d \in Nat :
            /\ Carries(traffic, SubSeq(packet, 1, n), b, d)
            /\ Carries(traffic, SubSeq(packet, n + 1, Len(packet)), d, c)
            /\ n = 1 /\ packet[1] = Ack => d = b
            /\ (\A k \in 1..n : packet[k] # Ack) =>
                 d = b + n /\ \A k \in 1..n : IsPiece(traffic, packet[k], b + k - 1)
      BY <3>2, CarriesSplit, Zenon
    <3>4. Carries(traffic, SubSeq(packet, n + 1, Len(packet)), b, c)
      <4>1. d = b
        BY <2>2, <3>1, <3>3, Zenon
      <4> QED BY <3>3, <4>1, Zenon
    <3> QED BY <3>1, <3>4
  <2>4. packet' = SubSeq(packet, 1 + 1, Len(packet))
    BY <1>2, <2>1, TailIsSubSeq
  <2>5. FlowAt(a, b, c)'
    BY <1>1, <1>3, <2>1, <2>3, <2>4 DEF FlowAt
  <2> QED BY <1>3, <2>1, <2>5 DEF Flow
<1>10. CASE DispatchBytes
  <2>1. UNCHANGED <<traffic, log>>
    BY <1>10 DEF DispatchBytes, relaying
  <2> QED BY <1>2, <1>3, <1>10, <2>1, BytesAppended
<1>11. CASE ParseSkip \/ ParseInvalid
  BY <1>2, <1>11, NothingThere
<1>12. CASE ParseFrame
  BY <1>2, <1>12, FrameLogged
<1> QED BY <1>2, <1>4, <1>6, <1>7, <1>8, <1>9, <1>10, <1>11, <1>12, RxKinds

LEMMA FlowStarts == Init => Room /\ Flow /\ Logged
<1> SUFFICES ASSUME Init PROVE Room /\ Flow /\ Logged
  OBVIOUS
<1>1. /\ packet = <<>> /\ stream = <<>> /\ log = <<>> /\ sniffed = 0 /\ Len(<<>>) = 0
      /\ rx_pc = "none" /\ <<>> \in Seq(Entries) /\ <<>> \in Seq(Seq(Entries))
      /\ traffic \in Traffic
  BY EmptySeq DEF Init
<1>2. Room
  <2>1. MAX_PIECES \in Nat \ {0} /\ PacketUnits \in Nat
    BY TwowayAssumption
  <2>2. Needed(stream) \in 1..MAX_PIECES
    BY <1>1, NeededRange
  <2> QED BY <1>1, <2>1, <2>2 DEF Room
<1>3. Logged
  BY <1>1 DEF Logged
<1>4. Carries(traffic, packet, 0, 0)
  <2>1. packet \in Seq(Entries) /\ \A k \in 1..Len(packet) : packet[k] = Ack
    BY <1>1
  <2> QED BY <2>1, CarriesAcks
<1>5. Carries(traffic, in, 0, 0)
  <2>1. PICK n \in 0..StaleAcks : in = [k \in 1..n |-> Ack]
    BY DEF Init, RelayInit
  <2>2. n \in Nat /\ Ack \in Entries
    BY RelayAssumption DEF Ack, Piece, Entries
  <2>3. in \in Seq(Entries) /\ Len(in) = n
    BY <2>1, <2>2
  <2> QED BY <2>1, <2>3, CarriesAcks
<1>6. Aligned(0)
  <2>1. ASSUME CleanTraffic(traffic), NEW k \in 1..Len(traffic.frames) PROVE 0 + 1 <= traffic.frames[k]
    BY <1>1, <2>1, TrafficTyped DEF CleanTraffic
  <2>2. Len(log) = 0 /\ Len(log) <= Len(traffic.frames) /\ 1..Len(log) = {}
    BY <1>1, TrafficTyped
  <2> QED BY <2>1, <2>2 DEF Aligned
<1>7. FlowAt(0, 0, 0)
  BY <1>1, <1>4, <1>5, <1>6 DEF FlowAt
<1> QED BY <1>2, <1>3, <1>7 DEF Flow

(* When all that was queued has been read and parsed, a frame of clean     *)
(* traffic that is complete is in the file: the next one would be at the   *)
(* head of the buffer or behind less than its metadata, and the parser     *)
(* would not have stopped there.                                           *)
LEMMA AllTaken ==
  ASSUME Controls, Queues, Room, Flow, Logged, CleanTraffic(traffic),
         keep_running, rx_pc = "check", in = <<>>,
         NEW k \in 1..Len(traffic.frames), Extent(traffic, k) \subseteq 1..sniffed
  PROVE  k <= Len(log)
<1> SUFFICES ASSUME k > Len(log) PROVE FALSE
  BY TrafficTyped DEF Controls, Logged
<1>1. PICK a, b, c \in Nat : FlowAt(a, b, c)
  BY DEF Flow
<1>2. /\ stream \in Seq(Entries) /\ Len(stream) \in Nat /\ traffic \in Traffic /\ sniffed \in Nat
      /\ packet = <<>> /\ Len(log) \in Nat /\ Len(stream) < Needed(stream)
      /\ Len(traffic.frames) \in Nat
  BY TrafficTyped DEF Controls, Queues, Logged, Room
<1>3. /\ MAGIC_PIECES \in Nat \ {0} /\ META_PIECES \in Nat /\ MAX_PIECES \in Nat
      /\ MAGIC_PIECES <= META_PIECES /\ META_PIECES <= MAX_PIECES
  BY TwowayAssumption
<1>4. sniffed = a + Len(stream)
  <2>1. ASSUME NEW x \in Nat, NEW y \in Nat, NEW s \in Seq(Entries), s = <<>>,
               Carries(traffic, s, x, y)
        PROVE  x = y
    <3>1. PICK f : Counts(traffic, s, x, y, f)
      BY <2>1 DEF Carries
    <3>2. Len(s) = 0
      BY <2>1, EmptySeq
    <3> QED BY <3>1, <3>2 DEF Counts
  <2>2. b = c /\ c = sniffed
    BY <1>1, <1>2, <2>1, EmptySeq DEF FlowAt
  <2> QED BY <1>1, <2>2 DEF FlowAt
<1> DEFINE m == Len(log) + 1
           g == traffic.frames[m]
           y == traffic.claims[g]
<1>5. m \in 1..Len(traffic.frames) /\ m <= k
  BY <1>2
<1>6. g \in Nat /\ y \in Nat /\ META_PIECES <= y /\ y <= MAX_PIECES /\ a + 1 <= g
  <2>1. g \in Nat /\ y \in META_PIECES..MAX_PIECES
    BY <1>2, <1>5, TrafficTyped DEF CleanTraffic
  <2>2. m > Len(log)
    BY <1>2
  <2>3. a + 1 <= g
    BY <1>1, <1>5, <2>2 DEF FlowAt, Aligned
  <2> HIDE DEF g, y, m
  <2> QED BY <1>3, <2>1, <2>3
<1>7. g + y - 1 <= sniffed
  <2> DEFINE f == traffic.frames[k]
             z == traffic.claims[f]
  <2>1. f \in Nat /\ z \in META_PIECES..MAX_PIECES
    BY <1>2, TrafficTyped DEF CleanTraffic
  <2>2. f..(f + z - 1) \subseteq 1..sniffed
    BY DEF Extent
  <2>3. m < k => g + y <= f
    BY <1>5 DEF CleanTraffic
  <2>4. m = k => g = f /\ y = z
    OBVIOUS
  <2> HIDE DEF f, z, g, y, m
  <2>5. f + z - 1 \in f..(f + z - 1) /\ z \in Nat /\ z >= 1
    BY <1>3, <2>1
  <2>6. f + z - 1 <= sniffed
    BY <1>2, <2>2, <2>5
  <2>7. m \in Nat /\ k \in Nat
    BY <1>2, <1>5
  <2> QED BY <1>2, <1>5, <1>6, <2>1, <2>3, <2>4, <2>5, <2>6, <2>7
<1>8. Len(stream) >= META_PIECES /\ Len(stream) >= MAGIC_PIECES
  <2> HIDE DEF g, y, m
  <2> QED BY <1>2, <1>3, <1>4, <1>6, <1>7
<1>9. Claim(stream) \in 1..MAX_PIECES /\ Needed(stream) = Claim(stream)
  <2>1. Claim(stream) \in Nat
    BY <1>2, NeededRange
  <2>2. Claim(stream) # 0
    BY <1>2, <1>3, <1>8 DEF Needed
  <2>3. ~(Claim(stream) > MAX_PIECES)
    BY <1>2, <1>3, <1>8, <2>2 DEF Needed
  <2>4. Needed(stream) = Claim(stream)
    BY <2>2, <2>3 DEF Needed
  <2> QED BY <1>3, <2>1, <2>2, <2>3, <2>4
<1>10. a + 1 \in 1..Len(traffic.claims) /\ Claim(stream) = traffic.claims[a + 1]
  <2>1. 1 \in 1..Len(stream) /\ a + 1 - 1 = a
    BY <1>2, <1>3, <1>8
  <2>2. IsPiece(traffic, stream[1], a)
    BY <1>1, <2>1 DEF FlowAt
  <2>3. a + 1 \in 1..Len(traffic.claims) /\ stream[1].claim = traffic.claims[a + 1]
    BY <1>2, <2>2, PieceFields
  <2>4. Claim(stream) # 0
    BY <1>9
  <2> QED BY <1>2, <2>3, <2>4, NeededRange
<1>11. g = a + 1 /\ y = Claim(stream)
  BY <1>1, <1>2, <1>9, <1>10, FrameAhead DEF FlowAt
<1> HIDE DEF g, y, m
<1> QED BY <1>2, <1>4, <1>6, <1>7, <1>9, <1>11

(* If the reassembly buffer takes the rest of a frame and a USB packet     *)
(* (STREAM_BUFFER_SIZE is 8192), it never overflows, and whatever the      *)
(* relay overhears, the file holds runs of it of the announced length,     *)
(* none twice; of clean traffic it holds exactly the frames, and all that  *)
(* were complete (dispatch_usb_in_packet, append_sniffer_bytes,            *)
(* parse_sniffer_stream).                                                  *)
THEOREM FramesLogged ==
  ASSUME StreamLimit >= MAX_PIECES - 1 + PacketUnits
  PROVE  Spec => []LogExact
<1>1. Init => IInv /\ Room /\ Flow /\ Logged
  BY InitIInv, FlowStarts
<1>2. IInv /\ Room /\ Flow /\ Logged /\ [Next]_vars => (IInv /\ Room /\ Flow /\ Logged)'
  BY NextIInv, RoomStep, FlowStep
<1>3. IInv /\ Room /\ Flow /\ Logged => LogExact
  <2> SUFFICES ASSUME IInv, Room, Flow, Logged PROVE LogExact
    OBVIOUS
  <2>1. Len(stream) + Len(packet) <= StreamLimit
    <3>1. /\ Len(stream) \in Nat /\ Len(packet) \in Nat
          /\ MAX_PIECES \in Nat /\ PacketUnits \in Nat /\ StreamLimit \in Nat
      BY TwowayAssumption DEF IInv, Queues
    <3> QED BY <3>1 DEF Room
  <2>2. ASSUME NEW k \in 1..Len(log)
        PROVE  /\ log[k] = Overheard(traffic, Begin(log[k]))
               /\ \A j \in 1..(k - 1) : Begin(log[j]) + Len(log[j]) <= Begin(log[k])
    BY DEF Logged
  <2>3. ASSUME CleanTraffic(traffic), NEW k \in 1..Len(log)
        PROVE  k <= Len(traffic.frames) /\ Begin(log[k]) = traffic.frames[k]
    <3>1. /\ Len(log) <= Len(traffic.frames) /\ Begin(log[k]) = traffic.frames[k]
      BY <2>3 DEF Flow, FlowAt, Aligned
    <3>2. Len(log) \in Nat /\ Len(traffic.frames) \in Nat
      BY TrafficTyped DEF Logged, IInv, Controls
    <3> QED BY <3>1, <3>2
  <2>4. ASSUME CleanTraffic(traffic), keep_running, rx_pc = "check", in = <<>>,
               NEW k \in 1..Len(traffic.frames), Extent(traffic, k) \subseteq 1..sniffed
        PROVE  k <= Len(log)
    BY <2>4, AllTaken DEF IInv
  <2> QED BY <2>1, <2>2, <2>3, <2>4 DEF LogExact
<1> QED BY <1>1, <1>2, <1>3, PTL DEF Spec
=============================================================================
