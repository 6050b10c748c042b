------------------------- MODULE CaptureToolsProofs -------------------------
(***************************************************************************)
(* The capturing programs, for every delivery, every way in which          *)
(* transfers cut it, every size of the staging buffer and of a record: the *)
(* statistics account for every byte, no record in hand outgrows its       *)
(* buffers, nothing stays open, and status 0 means what it says.           *)
(***************************************************************************)
EXTENDS CaptureTools, SequenceTheorems, WellFoundedInduction, TLAPS

-----------------------------------------------------------------------------
(* A set of numbers has a least one: induction, in a form the provers can use. *)
LEMMA LeastNumber ==
  ASSUME NEW S \in SUBSET Nat, S # {}
  PROVE  \E n \in S : \A m \in S : n <= m
<1> DEFINE R == OpToRel(<, Nat)
<1>1. IsWellFoundedOn(R, Nat)
  BY NatLessThanWellFounded, Zenon
<1>2. \A m, n \in Nat : m < n => <<m, n>> \in R
  BY DEF OpToRel
<1> HIDE DEF R
<1>3. PICK n \in S : \A m \in S : ~(<<m, n>> \in R)
  BY ONLY <1>1, WFMin, S # {}, S \in SUBSET Nat, Zenon
<1>4. \A m \in S : n <= m
  <2> TAKE m \in S
  <2>1. m \in Nat /\ n \in Nat /\ ~(m < n)
    BY <1>2, <1>3
  <2> QED BY <2>1
<1> QED BY <1>3, <1>4

LEMMA Concatenated ==
  ASSUME NEW s \in Seq(Nat), NEW t \in Seq(Nat), NEW u \in Seq(Nat)
  PROVE  (s \o t) \o u = s \o (t \o u)
  BY ConcatAssociative

(* The units of a sequence from behind one offset up to another *)
Span(s, a, b) == SubSeq(s, a + 1, b)

LEMMA SpanFacts ==
  ASSUME NEW s \in Seq(Nat), NEW a \in Nat, NEW b \in Nat, a <= b, b <= Len(s)
  PROVE  /\ Span(s, a, b) \in Seq(Nat)
         /\ Len(Span(s, a, b)) = b - a
         /\ \A i \in 1..(b - a) : Span(s, a, b)[i] = s[a + i]
<1>1. \A i \in (a + 1)..b : s[i] \in Nat
  OBVIOUS
<1> DEFINE m == a + 1
<1>2. m \in Int /\ b \in Int
  OBVIOUS
<1>3. /\ (IF m <= b THEN b - m + 1 ELSE 0) = b - a
      /\ b - m + 1 = b - a
      /\ \A i \in 1..(b - a) : m + i - 1 = a + i
  OBVIOUS
<1> HIDE DEF m
<1>4. /\ SubSeq(s, m, b) \in Seq(Nat)
      /\ Len(SubSeq(s, m, b)) = IF m <= b THEN b - m + 1 ELSE 0
      /\ \A i \in 1..(b - m + 1) : SubSeq(s, m, b)[i] = s[m + i - 1]
  <2>1. \A i \in m..b : s[i] \in Nat
    BY <1>1 DEF m
  <2>2. SubSeq(s, m, b) \in Seq(Nat)
    BY <1>2, <2>1, SubSeqProperties
  <2>3. Len(SubSeq(s, m, b)) = IF m <= b THEN b - m + 1 ELSE 0
    BY <1>2, <2>1, SubSeqProperties
  <2>4. \A i \in 1..(b - m + 1) : SubSeq(s, m, b)[i] = s[m + i - 1]
    BY <1>2, <2>1, SubSeqProperties
  <2> QED BY <2>2, <2>3, <2>4
<1>5. Span(s, a, b) = SubSeq(s, m, b)
  BY DEF Span, m
<1> QED BY <1>3, <1>4, <1>5, Zenon

LEMMA SpanBegins ==
  ASSUME NEW s \in Seq(Nat), NEW n \in Nat, n <= Len(s)
  PROVE  /\ Span(s, 0, n) \in Seq(Nat)
         /\ Len(Span(s, 0, n)) = n
         /\ \A i \in 1..n : Span(s, 0, n)[i] = s[i]
  BY DEF Span

LEMMA SpanWhole ==
  ASSUME NEW s \in Seq(Nat)
  PROVE  Span(s, 0, Len(s)) = s
<1>1. Span(s, 0, Len(s)) \in Seq(Nat) /\ Len(Span(s, 0, Len(s))) = Len(s)
      /\ \A i \in 1..Len(s) : Span(s, 0, Len(s))[i] = s[i]
  BY DEF Span
<1> QED BY <1>1, SeqEqual

LEMMA SpanEmpty ==
  ASSUME NEW s \in Seq(Nat), NEW a \in Nat, a <= Len(s)
  PROVE  Span(s, a, a) = <<>>
<1>1. Span(s, a, a) \in Seq(Nat) /\ Len(Span(s, a, a)) = 0
  BY SpanFacts
<1> QED BY <1>1

(* Spans that meet *)
LEMMA SpansMeet ==
  ASSUME NEW s \in Seq(Nat), NEW a \in Nat, NEW b \in Nat, NEW c \in Nat,
         a <= b, b <= c, c <= Len(s)
  PROVE  Span(s, a, b) \o Span(s, b, c) = Span(s, a, c)
<1> DEFINE x == Span(s, a, b)
           y == Span(s, b, c)
           z == Span(s, a, c)
<1>0. Len(s) \in Nat /\ a <= c /\ b <= Len(s)
  OBVIOUS
<1>1. /\ x \in Seq(Nat) /\ Len(x) = b - a /\ \A i \in 1..(b - a) : x[i] = s[a + i]
      /\ y \in Seq(Nat) /\ Len(y) = c - b /\ \A i \in 1..(c - b) : y[i] = s[b + i]
      /\ z \in Seq(Nat) /\ Len(z) = c - a /\ \A i \in 1..(c - a) : z[i] = s[a + i]
  BY <1>0, SpanFacts, Zenon
<1> HIDE DEF x, y, z
<1>2. x \o y \in Seq(Nat) /\ Len(x \o y) = c - a
  BY <1>1
<1>3. \A i \in 1..(c - a) : (x \o y)[i] = s[a + i]
  <2> TAKE i \in 1..(c - a)
  <2>1. CASE i <= b - a
    BY <1>1, <2>1
  <2>2. CASE i > b - a
    <3>1. (x \o y)[i] = y[i - (b - a)] /\ i - (b - a) \in 1..(c - b)
      <4>1. \A k \in 1..Len(x) + Len(y) :
              (x \o y)[k] = IF k <= Len(x) THEN x[k] ELSE y[k - Len(x)]
        BY <1>1, ConcatProperties, Zenon
      <4>2. i \in 1..Len(x) + Len(y) /\ ~(i <= Len(x)) /\ i - (b - a) \in 1..(c - b)
        BY <1>1, <2>2
      <4>3. (x \o y)[i] = y[i - Len(x)]
        BY <4>1, <4>2, Zenon
      <4> QED BY <1>1, <4>2, <4>3, Zenon
    <3>2. y[i - (b - a)] = s[b + (i - (b - a))]
      BY <1>1, <3>1
    <3>3. b + (i - (b - a)) = a + i
      OBVIOUS
    <3> QED BY <3>1, <3>2, <3>3
  <2>3. i <= b - a \/ i > b - a
    OBVIOUS
  <2> QED BY <2>1, <2>2, <2>3, Zenon
<1>4. x \o y = z
  BY <1>1, <1>2, <1>3, SeqEqual
<1> QED BY <1>4 DEF x, y, z

(* A span of a span *)
LEMMA SpanOfSpan ==
  ASSUME NEW s \in Seq(Nat), NEW a \in Nat, NEW b \in Nat, a <= b, b <= Len(s),
         NEW i \in Nat, NEW j \in Nat, i <= j, j <= b - a
  PROVE  Span(Span(s, a, b), i, j) = Span(s, a + i, a + j)
<1> DEFINE x == Span(s, a, b)
           y == Span(x, i, j)
           z == Span(s, a + i, a + j)
<1>1. x \in Seq(Nat) /\ Len(x) = b - a /\ \A k \in 1..(b - a) : x[k] = s[a + k]
  BY SpanFacts
<1> HIDE DEF x
<1>2. /\ y \in Seq(Nat) /\ Len(y) = j - i /\ \A k \in 1..(j - i) : y[k] = x[i + k]
  BY <1>1, SpanFacts
<1>3. a + i \in Nat /\ a + j \in Nat /\ a + i <= a + j /\ a + j <= Len(s) /\ (a + j) - (a + i) = j - i
  OBVIOUS
<1>4. /\ z \in Seq(Nat) /\ Len(z) = j - i /\ \A k \in 1..(j - i) : z[k] = s[(a + i) + k]
  <2>1. /\ z \in Seq(Nat) /\ Len(z) = (a + j) - (a + i)
        /\ \A k \in 1..((a + j) - (a + i)) : z[k] = s[(a + i) + k]
    BY <1>3, SpanFacts, Zenon
  <2> QED BY <1>3, <2>1, Zenon
<1> HIDE DEF y, z
<1>5. \A k \in 1..(j - i) : y[k] = z[k]
  <2> TAKE k \in 1..(j - i)
  <2>1. i + k \in 1..(b - a) /\ a + (i + k) = (a + i) + k
    OBVIOUS
  <2>2. y[k] = x[i + k] /\ x[i + k] = s[a + (i + k)] /\ z[k] = s[(a + i) + k]
    BY <1>1, <1>2, <1>4, <2>1
  <2> QED BY <2>1, <2>2
<1>6. y = z
  BY <1>2, <1>4, <1>5, SeqEqual
<1> QED BY <1>6 DEF x, y, z


-----------------------------------------------------------------------------
(* FlattenSeq appends one sequence after the other.                        *)
Longer(g, seqs, i) == IF i = 1 THEN seqs[i] ELSE g[i - 1] \o seqs[i]

Flat(seqs) == CHOOSE flatten : flatten = [i \in 1..Len(seqs) |-> Longer(flatten, seqs, i)]

LEMMA FlattenIsFlat ==
  ASSUME NEW seqs
  PROVE  FlattenSeq(seqs) = IF Len(seqs) = 0 THEN seqs ELSE Flat(seqs)[Len(seqs)]
  BY DEF FlattenSeq, Flat, Longer

LEMMA FlatDefined ==
  ASSUME NEW seqs \in Seq(Seq(Nat))
  PROVE  \A i \in 1..Len(seqs) : Flat(seqs)[i] = Longer(Flat(seqs), seqs, i)
<1> DEFINE L == Len(seqs)
           Solves(g, m) == \A i \in 1..m : g[i] = Longer(g, seqs, i)
           S == {m \in 0..L : ~ \E g : Solves(g, m)}
<1>0. L \in Nat /\ S \in SUBSET Nat
  OBVIOUS
<1>1. ASSUME NEW g, NEW h, NEW i \in Nat, i # 0, i = 1 \/ g[i - 1] = h[i - 1]
      PROVE  Longer(g, seqs, i) = Longer(h, seqs, i)
  BY <1>1, Zenon DEF Longer
<1>2. S = {}
  <2> SUFFICES ASSUME S # {} PROVE FALSE
    OBVIOUS
  <2>1. PICK m \in S : \A k \in S : m <= k
    BY <1>0, LeastNumber, Zenon
  <2>2. m \in 0..L /\ m \in Nat /\ ~ \E g : Solves(g, m)
    BY <2>1
  <2>3. m # 0
    <3>1. m = 0 => Solves(<<>>, m)
      OBVIOUS
    <3> QED BY <2>2, <3>1, Zenon
  <2>4. m - 1 \in 0..L /\ ~(m <= m - 1)
    BY <1>0, <2>2, <2>3
  <2>5. PICK g : Solves(g, m - 1)
    BY <2>1, <2>4, Zenon
  <2> DEFINE h == [i \in 1..L |-> IF i = m THEN Longer(g, seqs, i) ELSE g[i]]
  <2>6. \A i \in 1..m :
          /\ i \in 1..L /\ i \in Nat /\ i # 0
          /\ i # m => i \in 1..(m - 1)
          /\ i # 1 => i - 1 \in 1..L /\ i - 1 # m
    BY <1>0, <2>2
  <2>7. ASSUME NEW i \in 1..m PROVE h[i] = Longer(h, seqs, i)
    <3>1. i = 1 \/ g[i - 1] = h[i - 1]
      BY <2>6, Zenon
    <3>2. Longer(g, seqs, i) = Longer(h, seqs, i)
      BY <1>1, <2>6, <3>1, Zenon
    <3>3. h[i] = Longer(g, seqs, i)
      BY <2>5, <2>6, Zenon
    <3> QED BY <3>2, <3>3, Zenon
  <2> QED BY <2>2, <2>7, Zenon
<1>3. PICK g : Solves(g, L)
  <2>1. L \in 0..L
    BY <1>0
  <2>2. L \notin S
    BY <1>2, Zenon
  <2> QED BY <2>1, <2>2, Zenon
<1> DEFINE f == [i \in 1..L |-> g[i]]
<1>4. ASSUME NEW i \in 1..L PROVE f[i] = Longer(f, seqs, i)
  <2>1. i \in Nat /\ i # 0 /\ (i # 1 => i - 1 \in 1..L)
    BY <1>0
  <2>2. Longer(g, seqs, i) = Longer(f, seqs, i)
    BY <1>1, <2>1, Zenon
  <2> QED BY <1>3, <2>2, Zenon
<1>5. f = [i \in 1..L |-> Longer(f, seqs, i)]
  BY <1>4, Zenon
<1> HIDE DEF f, L
<1>6. Flat(seqs) = [i \in 1..L |-> Longer(Flat(seqs), seqs, i)]
  <2>1. \E flatten : flatten = [i \in 1..L |-> Longer(flatten, seqs, i)]
    BY <1>5, Zenon
  <2> QED BY <2>1, Zenon DEF Flat, L
<1> QED BY <1>6, Zenon DEF L

(* All of the first sequences, one after the other                         *)
Upto(seqs, k) == FlattenSeq(SubSeq(seqs, 1, k))

LEMMA FlatTyped ==
  ASSUME NEW seqs \in Seq(Seq(Nat))
  PROVE  \A i \in 1..Len(seqs) : Flat(seqs)[i] \in Seq(Nat)
<1> DEFINE L == Len(seqs)
           F == Flat(seqs)
           S == {i \in 1..L : F[i] \notin Seq(Nat)}
<1>0. L \in Nat /\ S \in SUBSET Nat /\ \A i \in 1..L : seqs[i] \in Seq(Nat)
  OBVIOUS
<1>1. S = {}
  <2> SUFFICES ASSUME S # {} PROVE FALSE
    OBVIOUS
  <2>1. PICK i \in S : \A k \in S : i <= k
    BY <1>0, LeastNumber, Zenon
  <2>2. i \in 1..L /\ F[i] \notin Seq(Nat)
    BY <2>1
  <2> HIDE DEF F
  <2>3. F[i] = Longer(F, seqs, i) /\ seqs[i] \in Seq(Nat)
    BY <1>0, <2>2, FlatDefined, Zenon DEF F
  <2>4. CASE i = 1
    BY <2>2, <2>3, <2>4, Zenon DEF Longer
  <2>5. CASE i # 1
    <3>1. i - 1 \in 1..L /\ ~(i <= i - 1)
      BY <1>0, <2>2, <2>5
    <3>2. F[i - 1] \in Seq(Nat)
      BY <2>1, <3>1, Zenon
    <3>3. F[i - 1] \o seqs[i] \in Seq(Nat)
      BY <2>3, <3>2
    <3> QED BY <2>2, <2>3, <2>5, <3>3, Zenon DEF Longer
  <2> QED BY <2>4, <2>5, Zenon
<1> QED BY <1>1, Zenon

(* The first ones of a beginning of the sequences are those of all of them. *)
LEMMA FlatOfBeginning ==
  ASSUME NEW seqs \in Seq(Seq(Nat)), NEW k \in 0..Len(seqs)
  PROVE  Upto(seqs, k) = IF k = 0 THEN <<>> ELSE Flat(seqs)[k]
<1> DEFINE part == SubSeq(seqs, 1, k)
           F == Flat(seqs)
           G == Flat(part)
           S == {i \in 1..k : G[i] # F[i]}
<1>1. /\ part \in Seq(Seq(Nat)) /\ Len(part) = k /\ k \in Nat /\ Len(seqs) \in Nat
      /\ \A i \in 1..k : part[i] = seqs[i] /\ i \in 1..Len(seqs)
      /\ S \in SUBSET Nat
  OBVIOUS
<1>2. FlattenSeq(part) = IF k = 0 THEN part ELSE G[k]
  BY <1>1, FlattenIsFlat, Zenon
<1>3. k = 0 => part = <<>>
  BY <1>1
<1>4. S = {}
  <2> SUFFICES ASSUME S # {} PROVE FALSE
    OBVIOUS
  <2>1. PICK i \in S : \A j \in S : i <= j
    BY <1>1, LeastNumber, Zenon
  <2>2. i \in 1..k /\ G[i] # F[i]
    BY <2>1
  <2> HIDE DEF part, F, G
  <2>3. F[i] = Longer(F, seqs, i) /\ G[i] = Longer(G, part, i) /\ part[i] = seqs[i]
    BY <1>1, <2>2, FlatDefined, Zenon DEF F, G
  <2>4. i # 1 => G[i - 1] = F[i - 1]
    <3>1. i # 1 => i - 1 \in 1..k /\ ~(i <= i - 1)
      BY <1>1, <2>2
    <3> QED BY <2>1, <3>1, Zenon
  <2> QED BY <2>2, <2>3, <2>4, Zenon DEF Longer
<1>5. k # 0 => k \in 1..k
  BY <1>1
<1> QED BY <1>2, <1>3, <1>4, <1>5, Zenon DEF Upto

LEMMA Flattening ==
  ASSUME NEW seqs \in Seq(Seq(Nat))
  PROVE  /\ Upto(seqs, 0) = <<>>
         /\ Upto(seqs, Len(seqs)) = FlattenSeq(seqs)
         /\ \A k \in 0..Len(seqs) : Upto(seqs, k) \in Seq(Nat)
         /\ \A k \in 0..(Len(seqs) - 1) : Upto(seqs, k + 1) = Upto(seqs, k) \o seqs[k + 1]
<1>0. Len(seqs) \in Nat /\ 0 \in 0..Len(seqs) /\ <<>> \in Seq(Nat)
      /\ \A k \in 1..Len(seqs) : seqs[k] \in Seq(Nat)
  OBVIOUS
<1>1. Upto(seqs, 0) = <<>>
  BY <1>0, FlatOfBeginning, Zenon
<1>2. Upto(seqs, Len(seqs)) = FlattenSeq(seqs)
  BY SubSeqFull DEF Upto
<1>3. ASSUME NEW k \in 0..Len(seqs) PROVE Upto(seqs, k) \in Seq(Nat)
  <2>1. k # 0 => k \in 1..Len(seqs)
    BY <1>0
  <2> QED BY <1>0, <2>1, FlatOfBeginning, FlatTyped, Zenon
<1>4. ASSUME NEW k \in 0..(Len(seqs) - 1)
      PROVE  Upto(seqs, k + 1) = Upto(seqs, k) \o seqs[k + 1]
  <2>1. /\ k + 1 \in 1..Len(seqs) /\ k + 1 \in 0..Len(seqs) /\ k + 1 # 0 /\ k \in 0..Len(seqs)
        /\ (k + 1) - 1 = k /\ (k + 1 = 1 <=> k = 0)
    BY <1>0
  <2>2. Upto(seqs, k + 1) = Flat(seqs)[k + 1] /\ Upto(seqs, k) = IF k = 0 THEN <<>> ELSE Flat(seqs)[k]
    BY <2>1, FlatOfBeginning, Zenon
  <2>3. Flat(seqs)[k + 1] = IF k = 0 THEN seqs[k + 1] ELSE Flat(seqs)[k] \o seqs[k + 1]
    BY <2>1, FlatDefined, Zenon DEF Longer
  <2>4. <<>> \o seqs[k + 1] = seqs[k + 1]
    BY <1>0, <2>1, ConcatEmptySeq, Zenon
  <2> QED BY <2>2, <2>3, <2>4, Zenon
<1> QED BY <1>1, <1>2, <1>3, <1>4, Zenon

(* The first sequences stand at the beginning of more of them.             *)
LEMMA UptoBegins ==
  ASSUME NEW seqs \in Seq(Seq(Nat)), NEW k \in Nat, NEW j \in Nat, k <= j, j <= Len(seqs)
  PROVE  /\ Len(Upto(seqs, k)) <= Len(Upto(seqs, j))
         /\ Span(Upto(seqs, j), 0, Len(Upto(seqs, k))) = Upto(seqs, k)
<1> DEFINE x(i) == Upto(seqs, i)
           Begins(i) == Len(x(k)) <= Len(x(i)) /\ Span(x(i), 0, Len(x(k))) = x(k)
           S == {i \in k..j : ~Begins(i)}
<1>0. /\ S \in SUBSET Nat
      /\ \A i \in 0..Len(seqs) : x(i) \in Seq(Nat)
      /\ \A i \in k..j : i \in 0..Len(seqs) /\ (i # k => i - 1 \in k..j /\ i \in 1..Len(seqs))
  <2>1. S \in SUBSET Nat
    OBVIOUS
  <2>2. \A i \in 0..Len(seqs) : x(i) \in Seq(Nat)
    BY Flattening, Zenon
  <2>3. \A i \in k..j : i \in 0..Len(seqs) /\ (i # k => i - 1 \in k..j /\ i \in 1..Len(seqs))
    OBVIOUS
  <2> QED BY <2>1, <2>2, <2>3, Zenon
<1>1. S = {}
  <2> SUFFICES ASSUME S # {} PROVE FALSE
    OBVIOUS
  <2>1. PICK i \in S : \A m \in S : i <= m
    BY <1>0, LeastNumber, Zenon
  <2>2. i \in k..j /\ ~Begins(i)
    BY <2>1
  <2>3. x(i) \in Seq(Nat) /\ x(k) \in Seq(Nat)
    <3>1. k \in k..j
      OBVIOUS
    <3> QED BY <1>0, <2>2, <3>1, Zenon
  <2>4. CASE i = k
    <3>1. Len(x(k)) <= Len(x(k)) /\ Span(x(k), 0, Len(x(k))) = x(k)
      BY <2>3, SpanWhole
    <3> QED BY <2>2, <2>4, <3>1, Zenon
  <2>5. CASE i # k
    <3> DEFINE y == x(i - 1)
               f == seqs[i]
    <3>1. /\ i - 1 \in k..j /\ ~(i <= i - 1) /\ i \in 1..Len(seqs)
          /\ i - 1 \in 0..(Len(seqs) - 1) /\ (i - 1) + 1 = i
      BY <2>2, <2>5
    <3>2. Begins(i - 1)
      BY <2>1, <3>1, Zenon
    <3>3. x(i) = y \o f
      BY <3>1, Flattening, Zenon
    <3>4. f \in Seq(Nat) /\ y \in Seq(Nat)
      <4>1. f \in Seq(Nat)
        BY <3>1
      <4>2. y \in Seq(Nat)
        BY <1>0, <3>1, Zenon
      <4> QED BY <4>1, <4>2
    <3>5. Len(x(k)) <= Len(y) /\ Span(y, 0, Len(x(k))) = x(k)
      BY <3>2, Zenon
    <3> DEFINE n == Len(x(k))
    <3>6. n \in Nat
      BY <2>3
    <3> HIDE DEF x, y, f, n
    <3>7. n <= Len(y \o f) /\ Span(y \o f, 0, n) = Span(y, 0, n)
      <4>1. n <= Len(y)
        BY <3>5, Zenon DEF n
      <4>2. Len(y \o f) = Len(y) + Len(f) /\ Len(y) \in Nat /\ Len(f) \in Nat /\ y \o f \in Seq(Nat)
        BY <3>4
      <4>3. /\ Span(y \o f, 0, n) \in Seq(Nat) /\ Len(Span(y \o f, 0, n)) = n
            /\ Span(y, 0, n) \in Seq(Nat) /\ Len(Span(y, 0, n)) = n
            /\ \A m \in 1..n : /\ Span(y \o f, 0, n)[m] = (y \o f)[m]
                               /\ Span(y, 0, n)[m] = y[m]
        <5>1. n <= Len(y \o f)
          BY <3>6, <4>1, <4>2
        <5> QED BY <3>4, <3>6, <4>1, <4>2, <5>1, SpanBegins, Zenon
      <4>4. \A m \in 1..n : (y \o f)[m] = y[m]
        BY <3>4, <3>6, <4>1
      <4>5. Span(y \o f, 0, n) = Span(y, 0, n)
        BY <4>3, <4>4, SeqEqual
      <4>6. n <= Len(y \o f)
        BY <3>6, <4>1, <4>2
      <4> QED BY <4>5, <4>6
    <3> QED BY <2>2, <3>3, <3>5, <3>7, Zenon DEF n, x, y
  <2> QED BY <2>4, <2>5, Zenon
<1>2. j \in k..j /\ j \notin S
  <2>1. j \in k..j
    OBVIOUS
  <2> QED BY <1>1, <2>1, Zenon
<1> QED BY <1>2, Zenon

(* What the device delivers is a sequence of units. *)
LEMMA DeliveryTyped ==
  ASSUME NEW i \in Inputs
  PROVE  Delivery(i) \in Seq(Nat)
<1>1. i.torn \in Seq(Nat) /\ i.frames \in Seq(Seq(Nat)) /\ Len(i.frames) \in Nat
  BY InputsAssumption
<1>2. FlattenSeq(i.frames) \in Seq(Nat)
  <2>1. Len(i.frames) \in 0..Len(i.frames)
    BY <1>1
  <2> QED BY <1>1, <2>1, Flattening, Zenon
<1> QED BY <1>1, <1>2 DEF Delivery

-----------------------------------------------------------------------------
(* The account of the capture loop                                         *)

Counters == [records : Nat, received : Nat, stored : Nat, invalid_lengths : Nat,
             truncated : Nat, discarded : Nat]

(* What the variables range over *)
Typed ==
  /\ pc \in {"record", "magic", "window", "rest", "payload", "done"}
  /\ running \in BOOLEAN
  /\ cause \in {"none", "stopped", "EOF", "ERROR", "write_failed"}
  /\ pc = "done" <=> cause # "none"
  /\ wire \in Seq(Nat) /\ staged \in Seq(Nat) /\ raw \in Seq(Nat)
  /\ discarded \in Nat
  /\ stats \in Counters
  /\ input \in Inputs

(* How much of a record the loop holds where it stands: never more than    *)
(* it asked for, and in "rest" at least the magic, in "payload" at least   *)
(* the metadata, whose length was found valid.                             *)
InHand ==
  /\ pc = "record" => raw = <<>>
  /\ pc \in {"magic", "window"} => Len(raw) <= 2
  /\ pc = "rest" => Len(raw) \in 2..4
  /\ pc = "payload" => /\ Len(raw) >= 4
                       /\ raw[3] <= MAX_MESSAGE_SIZE
                       /\ Len(raw) <= 4 + raw[3]
  /\ Len(raw) <= 4 + MAX_MESSAGE_SIZE
  /\ Len(staged) <= RECEIVE_STAGING_SIZE
  /\ discarded > 0 => pc = "window"

(* A record is counted as truncated only where the capture ends. *)
Untruncated == pc # "done" => stats.truncated = 0

(* The conjuncts of BytesAccounted *)
Moved    == IF pc = "window" THEN discarded + 2 ELSE Len(raw)
Balance  == stats.received = stats.stored + stats.discarded + Moved + 4 * stats.invalid_lengths
Arrived  == stats.received + Len(staged) + Len(wire) = Len(Delivery(input))
EndCount == cause = "EOF" => stats.truncated = IF raw = <<>> THEN 0 ELSE 1

IInv == Typed /\ InHand /\ Untruncated /\ Balance /\ Arrived /\ EndCount

(* The sizes of the format *)
LEMMA Sizes == Magic = <<48059, 0>> /\ Len(Magic) = 2 /\ LENGTH = 3 /\ META_SIZE = 4
  BY DEF Magic, LENGTH, STAMP, META_SIZE

(* The inductive invariant implies the properties. *)
LEMMA IInvImplies == IInv => CaptureTypeOK /\ BytesAccounted
<1> SUFFICES ASSUME IInv PROVE CaptureTypeOK /\ BytesAccounted
  OBVIOUS
<1>1. CaptureTypeOK
  <2>1. Len(raw) <= META_SIZE + MAX_MESSAGE_SIZE
    BY Sizes DEF IInv, InHand
  <2> QED BY <2>1, Zenon DEF IInv, Typed, InHand, CaptureTypeOK
<1>2. BytesAccounted
  BY Sizes DEF IInv, Balance, Moved, Arrived, EndCount, BytesAccounted
<1> QED BY <1>1, <1>2

(* The invariant holds at the start. *)
LEMMA InitIInv == Init => IInv
<1> SUFFICES ASSUME Init PROVE IInv
  OBVIOUS
<1>1. wire \in Seq(Nat) /\ wire = Delivery(input) /\ input \in Inputs
  BY DeliveryTyped DEF Init
<1>2. /\ raw = <<>> /\ Len(raw) = 0 /\ staged = <<>> /\ Len(staged) = 0
      /\ raw \in Seq(Nat) /\ staged \in Seq(Nat) /\ discarded = 0
      /\ pc = "record" /\ cause = "none" /\ running = TRUE
      /\ stats = [records |-> 0, received |-> 0, stored |-> 0, invalid_lengths |-> 0,
                  truncated |-> 0, discarded |-> 0]
  BY DEF Init
<1>3. Typed
  BY <1>1, <1>2 DEF Typed, Counters
<1>4. InHand /\ Untruncated
  BY <1>2, CaptureAssumption, BinaryLogAssumption DEF InHand, Untruncated
<1>5. Balance /\ Arrived /\ EndCount
  BY <1>1, <1>2 DEF Balance, Moved, Arrived, EndCount
<1> QED BY <1>3, <1>4, <1>5 DEF IInv

(* What adding to a counter does *)
Adds(t, s, received, stored, discards, invalid, truncates) ==
  /\ t \in Counters
  /\ t.received = s.received + received
  /\ t.stored = s.stored + stored
  /\ t.discarded = s.discarded + discards
  /\ t.invalid_lengths = s.invalid_lengths + invalid
  /\ t.truncated = s.truncated + truncates

(* One counter moves, the others stay. *)
LEMMA Counting ==
  ASSUME NEW s \in Counters, NEW k \in Nat
  PROVE  /\ Adds([s EXCEPT !.received = @ + k], s, k, 0, 0, 0, 0)
         /\ Adds([s EXCEPT !.stored = @ + k], s, 0, k, 0, 0, 0)
         /\ Adds([s EXCEPT !.discarded = @ + k], s, 0, 0, k, 0, 0)
         /\ Adds([s EXCEPT !.invalid_lengths = @ + 1], s, 0, 0, 0, 1, 0)
         /\ Adds([s EXCEPT !.truncated = @ + 1], s, 0, 0, 0, 0, 1)
<1>1. Adds([s EXCEPT !.received = @ + k], s, k, 0, 0, 0, 0)
  BY DEF Adds, Counters
<1>2. Adds([s EXCEPT !.stored = @ + k], s, 0, k, 0, 0, 0)
  BY DEF Adds, Counters
<1>3. Adds([s EXCEPT !.discarded = @ + k], s, 0, 0, k, 0, 0)
  BY DEF Adds, Counters
<1>4. Adds([s EXCEPT !.invalid_lengths = @ + 1], s, 0, 0, 0, 1, 0)
  BY DEF Adds, Counters
<1>5. Adds([s EXCEPT !.truncated = @ + 1], s, 0, 0, 0, 0, 1)
  BY DEF Adds, Counters
<1> QED BY <1>1, <1>2, <1>3, <1>4, <1>5, Zenon

(* Storing a record moves two. *)
LEMMA CountingRecord ==
  ASSUME NEW s \in Counters, NEW k \in Nat
  PROVE  Adds([s EXCEPT !.stored = @ + k, !.records = @ + 1], s, 0, k, 0, 0, 0)
<1> DEFINE u == [s EXCEPT !.stored = @ + k]
           t == [u EXCEPT !.records = @ + 1]
<1>1. Adds(u, s, 0, k, 0, 0, 0)
  BY Counting, Zenon
<1>2. [s EXCEPT !.stored = @ + k, !.records = @ + 1] = t
  BY DEF Counters
<1> HIDE DEF u
<1>3. u \in Counters
  BY <1>1, Zenon DEF Adds
<1>4. /\ t \in Counters
      /\ t.received = u.received /\ t.stored = u.stored /\ t.discarded = u.discarded
      /\ t.invalid_lengths = u.invalid_lengths /\ t.truncated = u.truncated
  BY <1>3 DEF Counters
<1> HIDE DEF t
<1>5. Adds(t, s, 0, k, 0, 0, 0)
  BY <1>1, <1>4, Zenon DEF Adds
<1> QED BY <1>2, <1>5, Zenon

(* A sequence cut in two *)
LEMMA Cut ==
  ASSUME NEW s \in Seq(Nat), NEW n \in Nat, n <= Len(s)
  PROVE  /\ SubSeq(s, 1, n) \in Seq(Nat) /\ Len(SubSeq(s, 1, n)) = n
         /\ SubSeq(s, n + 1, Len(s)) \in Seq(Nat)
         /\ Len(SubSeq(s, n + 1, Len(s))) = Len(s) - n
         /\ SubSeq(s, 1, n) \o SubSeq(s, n + 1, Len(s)) = s
<1>1. /\ SubSeq(s, 1, n) \in Seq(Nat) /\ Len(SubSeq(s, 1, n)) = n
      /\ SubSeq(s, n + 1, Len(s)) \in Seq(Nat)
      /\ Len(SubSeq(s, n + 1, Len(s))) = Len(s) - n
  OBVIOUS
<1>2. SubSeq(s, 1, n) \o SubSeq(s, n + 1, Len(s)) = SubSeq(s, 1, Len(s))
  <2>1. 1 \in 1..Len(s) + 1 /\ n \in (1 - 1)..Len(s) /\ Len(s) \in n..Len(s)
    OBVIOUS
  <2> QED BY <2>1, ConcatAdjacentSubSeq, Zenon
<1>3. SubSeq(s, 1, Len(s)) = s
  BY SubSeqFull
<1> QED BY <1>1, <1>2, <1>3, Zenon

(* Of the units, the first so many at most, with the status; the others    *)
(* are staged, and the wire holds what is left.                            *)
Cuts(r, units, capacity, status, left) ==
  /\ r.chunk \in Seq(Nat) /\ r.staged \in Seq(Nat)
  /\ Len(r.chunk) <= capacity
  /\ Len(r.chunk) + Len(r.staged) = Len(units)
  /\ r.chunk \o r.staged = units
  /\ r.status = status /\ r.wire = left

(* A request takes the first units of what there is and leaves the rest. *)
LEMMA PartCuts ==
  ASSUME NEW units \in Seq(Nat), NEW capacity \in Nat, NEW status, NEW left
  PROVE  Cuts(Part(units, capacity, status, left), units, capacity, status, left)
<1> DEFINE n == Least(capacity, Len(units))
           r == Part(units, capacity, status, left)
<1>1. n \in Nat /\ n <= capacity /\ n <= Len(units)
  BY DEF Least
<1>2. /\ r.chunk = SubSeq(units, 1, n) /\ r.staged = SubSeq(units, n + 1, Len(units))
      /\ r.status = status /\ r.wire = left
  BY DEF Part
<1> HIDE DEF n, r
<1>3. /\ r.chunk \in Seq(Nat) /\ Len(r.chunk) = n
      /\ r.staged \in Seq(Nat) /\ Len(r.staged) = Len(units) - n
      /\ r.chunk \o r.staged = units
  BY <1>1, <1>2, Cut, Zenon
<1>4. Len(units) \in Nat
  OBVIOUS
<1>5. Len(r.chunk) <= capacity /\ Len(r.chunk) + Len(r.staged) = Len(units)
  BY <1>1, <1>3, <1>4
<1>6. Cuts(r, units, capacity, status, left)
  BY <1>2, <1>3, <1>5, Zenon DEF Cuts
<1> QED BY <1>6, Zenon DEF r

(* Nothing is lost, made up or reordered, no more is got than was asked    *)
(* for, and at the end of the device there is nothing any more.            *)
Kept(r, capacity) ==
  /\ r.chunk \in Seq(Nat) /\ r.staged \in Seq(Nat) /\ r.wire \in Seq(Nat)
  /\ Len(r.chunk) <= capacity
  /\ Len(r.chunk) + Len(r.staged) + Len(r.wire) = Len(staged) + Len(wire)
  /\ Len(r.staged) <= RECEIVE_STAGING_SIZE
  /\ r.chunk \o (r.staged \o r.wire) = staged \o wire
  /\ r.status \in {"DATA", "TIMEOUT", "INTERRUPTED", "ERROR", "EOF"}
  /\ r.status = "EOF" => Len(r.chunk) = 0 /\ staged \o wire = <<>>

(* A transfer of so many units leaves the others on the wire. *)
LEMMA TransferKeeps ==
  ASSUME wire \in Seq(Nat), staged = <<>>, NEW capacity \in Nat,
         NEW n \in Nat, n <= Len(wire), n <= RECEIVE_STAGING_SIZE,
         NEW status, status \in {"DATA", "TIMEOUT", "INTERRUPTED", "ERROR", "EOF"},
         status = "EOF" => n = 0 /\ wire = <<>>
  PROVE  Kept(Part(SubSeq(wire, 1, n), capacity, status, SubSeq(wire, n + 1, Len(wire))),
              capacity)
<1> DEFINE units == SubSeq(wire, 1, n)
           left  == SubSeq(wire, n + 1, Len(wire))
           r     == Part(units, capacity, status, left)
<1>1. /\ units \in Seq(Nat) /\ Len(units) = n /\ left \in Seq(Nat)
      /\ Len(left) = Len(wire) - n /\ units \o left = wire
  BY Cut, Zenon
<1> HIDE DEF units, left
<1>2. Cuts(r, units, capacity, status, left)
  BY <1>1, PartCuts, Zenon
<1> HIDE DEF r
<1>3. /\ r.chunk \in Seq(Nat) /\ r.staged \in Seq(Nat) /\ r.wire \in Seq(Nat)
      /\ Len(r.chunk) <= capacity
      /\ Len(r.chunk) + Len(r.staged) = n
      /\ r.chunk \o r.staged = units /\ r.wire = left
      /\ Len(r.wire) = Len(wire) - n
      /\ r.status = status
  BY <1>1, <1>2, Zenon DEF Cuts
<1>4. Len(r.chunk) \in Nat /\ Len(r.staged) \in Nat /\ Len(wire) \in Nat /\ Len(staged) = 0
  BY <1>3
<1>5. /\ Len(r.chunk) + Len(r.staged) + Len(r.wire) = Len(staged) + Len(wire)
      /\ Len(r.staged) <= RECEIVE_STAGING_SIZE
      /\ n = 0 => Len(r.chunk) = 0
  <2> DEFINE a == Len(r.chunk)
             b == Len(r.staged)
             c == Len(r.wire)
             d == Len(wire)
             e == Len(staged)
  <2>1. a \in Nat /\ b \in Nat /\ d \in Nat /\ e = 0 /\ a + b = n /\ c = d - n
    BY <1>3, <1>4, Zenon
  <2> HIDE DEF a, b, c, d, e
  <2>2. a + b + c = e + d /\ b <= RECEIVE_STAGING_SIZE /\ (n = 0 => a = 0)
    BY <2>1, CaptureAssumption
  <2> QED BY <2>2, Zenon DEF a, b, c, d, e
<1>6. r.chunk \o (r.staged \o r.wire) = wire
  <2>1. (r.chunk \o r.staged) \o r.wire = r.chunk \o (r.staged \o r.wire)
    BY <1>3, Concatenated, Zenon
  <2> QED BY <1>1, <1>3, <2>1, Zenon
<1>7. staged \o wire = wire
  BY ConcatEmptySeq, Zenon
<1>8. Kept(r, capacity)
  BY <1>3, <1>5, <1>6, <1>7, Zenon DEF Kept
<1> QED BY <1>8, Zenon DEF r, units, left

(* So does every answer to a request, from a transfer or from the buffer. *)
LEMMA ReadKeepsUnits ==
  ASSUME Typed, InHand, NEW capacity \in Nat, NEW r, r \in buffered_read(capacity)
  PROVE  Kept(r, capacity)
<1> DEFINE transfer(n, status) ==
             Part(SubSeq(wire, 1, n), capacity, status, SubSeq(wire, n + 1, Len(wire)))
<1>0. /\ wire \in Seq(Nat) /\ staged \in Seq(Nat)
      /\ Len(wire) \in Nat /\ Len(staged) \in Nat
      /\ RECEIVE_STAGING_SIZE \in Nat /\ Len(staged) <= RECEIVE_STAGING_SIZE
  <2>1. wire \in Seq(Nat) /\ staged \in Seq(Nat)
    BY Zenon DEF Typed
  <2>2. Len(wire) \in Nat /\ Len(staged) \in Nat
    BY <2>1
  <2>3. Len(staged) <= RECEIVE_STAGING_SIZE
    BY Zenon DEF InHand
  <2> QED BY <2>1, <2>2, <2>3, CaptureAssumption
<1>1. CASE staged # <<>>
  <2>1. r = Part(staged, capacity, "DATA", wire)
    BY <1>1 DEF buffered_read
  <2>2. Cuts(r, staged, capacity, "DATA", wire)
    BY <1>0, <2>1, PartCuts, Zenon
  <2>3. /\ r.chunk \in Seq(Nat) /\ r.staged \in Seq(Nat)
        /\ Len(r.chunk) <= capacity
        /\ Len(r.chunk) + Len(r.staged) = Len(staged)
        /\ r.chunk \o r.staged = staged
        /\ r.status = "DATA" /\ r.wire = wire
    BY <2>2, Zenon DEF Cuts
  <2>4. Len(r.chunk) \in Nat /\ Len(r.staged) \in Nat
    BY <2>3
  <2>5. /\ Len(r.chunk) + Len(r.staged) + Len(r.wire) = Len(staged) + Len(wire)
        /\ Len(r.staged) <= RECEIVE_STAGING_SIZE
    <3> DEFINE a == Len(r.chunk)
               b == Len(r.staged)
               c == Len(r.wire)
               d == Len(wire)
               e == Len(staged)
    <3>1. /\ a \in Nat /\ b \in Nat /\ d \in Nat /\ e \in Nat /\ a + b = e /\ c = d
          /\ e <= RECEIVE_STAGING_SIZE
      BY <1>0, <2>3, <2>4, Zenon
    <3> HIDE DEF a, b, c, d, e
    <3>2. a + b + c = e + d /\ b <= RECEIVE_STAGING_SIZE
      BY <3>1, CaptureAssumption
    <3> QED BY <3>2, Zenon DEF a, b, c, d, e
  <2>6. r.status \in {"DATA", "TIMEOUT", "INTERRUPTED", "ERROR", "EOF"} /\ r.status # "EOF"
    BY <2>3
  <2>7. r.chunk \o (r.staged \o r.wire) = staged \o wire
    <3>1. (r.chunk \o r.staged) \o r.wire = r.chunk \o (r.staged \o r.wire)
      BY <1>0, <2>3, Concatenated, Zenon
    <3> QED BY <2>3, <3>1, Zenon
  <2> QED BY <1>0, <2>3, <2>5, <2>6, <2>7, Zenon DEF Kept
<1>2. CASE staged = <<>>
  <2>1. \/ \E n \in 1..Least(RECEIVE_STAGING_SIZE, Len(wire)) :
             \E status \in {"DATA", "TIMEOUT", "INTERRUPTED", "ERROR"} : r = transfer(n, status)
        \/ \E status \in {"TIMEOUT", "INTERRUPTED", "ERROR"} : r = transfer(0, status)
        \/ wire = <<>> /\ r = transfer(0, "EOF")
    BY <1>2 DEF buffered_read, Transfers
  <2> HIDE DEF transfer
  <2>2. ASSUME NEW n \in Nat, n <= Len(wire), n <= RECEIVE_STAGING_SIZE,
               NEW status, status \in {"DATA", "TIMEOUT", "INTERRUPTED", "ERROR", "EOF"},
               status = "EOF" => n = 0 /\ wire = <<>>
        PROVE  Kept(transfer(n, status), capacity)
    BY <1>0, <1>2, <2>2, TransferKeeps, Zenon DEF transfer
  <2>3. CASE \E n \in 1..Least(RECEIVE_STAGING_SIZE, Len(wire)) :
               \E status \in {"DATA", "TIMEOUT", "INTERRUPTED", "ERROR"} : r = transfer(n, status)
    <3>1. PICK n \in 1..Least(RECEIVE_STAGING_SIZE, Len(wire)) :
               \E status \in {"DATA", "TIMEOUT", "INTERRUPTED", "ERROR"} : r = transfer(n, status)
      BY <2>3
    <3>2. n \in Nat /\ n <= Len(wire) /\ n <= RECEIVE_STAGING_SIZE
      BY <1>0 DEF Least
    <3>3. PICK status \in {"DATA", "TIMEOUT", "INTERRUPTED", "ERROR"} : r = transfer(n, status)
      BY <3>1, Zenon
    <3>4. status \in {"DATA", "TIMEOUT", "INTERRUPTED", "ERROR", "EOF"} /\ status # "EOF"
      OBVIOUS
    <3> QED BY <2>2, <3>2, <3>3, <3>4, Zenon
  <2>4. 0 \in Nat /\ 0 <= Len(wire) /\ 0 <= RECEIVE_STAGING_SIZE
    BY <1>0
  <2>5. CASE \E status \in {"TIMEOUT", "INTERRUPTED", "ERROR"} : r = transfer(0, status)
    <3>1. PICK status \in {"TIMEOUT", "INTERRUPTED", "ERROR"} : r = transfer(0, status)
      BY <2>5, Zenon
    <3>2. status \in {"DATA", "TIMEOUT", "INTERRUPTED", "ERROR", "EOF"} /\ status # "EOF"
      OBVIOUS
    <3> QED BY <2>2, <2>4, <3>1, <3>2, Zenon
  <2>6. CASE wire = <<>> /\ r = transfer(0, "EOF")
    <3>1. "EOF" \in {"DATA", "TIMEOUT", "INTERRUPTED", "ERROR", "EOF"}
      OBVIOUS
    <3> QED BY <2>2, <2>4, <2>6, <3>1, Zenon
  <2> QED BY <2>1, <2>3, <2>5, <2>6, Zenon
<1> QED BY <1>1, <1>2, Zenon

-----------------------------------------------------------------------------
(* A step that leaves the counters, the device and what was moved keeps    *)
(* the account.                                                            *)
LEMMA SameAccount ==
  ASSUME IInv, UNCHANGED <<input, source, stats>>, Moved' = Moved,
         cause' # "EOF", pc' # "done" => pc # "done"
  PROVE  Untruncated' /\ Balance' /\ Arrived' /\ EndCount'
  BY DEF IInv, Untruncated, Balance, Arrived, EndCount, source

-----------------------------------------------------------------------------
(* Every action keeps the invariant: one lemma for each. *)
LEMMA NextRecordKeeps ==
  ASSUME IInv, NextRecord
  PROVE  IInv'
<1>0. /\ \/ pc' = "magic" /\ cause' = cause
         \/ pc' = "done" /\ cause' = "stopped"
      /\ pc = "record" /\ raw' = <<>>
      /\ UNCHANGED <<input, source, wire, staged, running, discarded, stats>>
  BY DEF NextRecord, Finish, Go, options, source
<1>1. Typed'
  BY <1>0, EmptySeq DEF IInv, Typed
<1>2. InHand'
  BY <1>0, BinaryLogAssumption DEF IInv, InHand
<1>3. Moved' = Moved
  BY <1>0 DEF IInv, InHand, Moved
<1>4. Untruncated' /\ Balance' /\ Arrived' /\ EndCount'
  <2>1. cause' # "EOF"
    BY <1>0 DEF IInv, Typed
  <2> QED BY <1>0, <1>3, <2>1, SameAccount
<1> QED BY <1>1, <1>2, <1>4 DEF IInv

LEMMA MagicReadKeeps ==
  ASSUME IInv, MagicRead
  PROVE  IInv'
<1>0. Len(raw) = 2
  BY Sizes DEF MagicRead, Complete, Length
<1>1. Typed'
  BY DEF IInv, Typed, MagicRead, Go, options, source
<1>2. InHand'
  BY <1>0, BinaryLogAssumption DEF IInv, InHand, MagicRead, Go, options, source
<1>3. Moved' = Moved
  BY <1>0 DEF IInv, InHand, Typed, MagicRead, Go, Moved, options, source
<1>4. Untruncated' /\ Balance' /\ Arrived' /\ EndCount'
  BY <1>3, SameAccount DEF IInv, Typed, MagicRead, Go, options
<1> QED BY <1>1, <1>2, <1>4 DEF IInv

LEMMA SlideKeeps ==
  ASSUME IInv, Slide
  PROVE  IInv'
<1>0. Len(raw) = 2 /\ Tail(raw) \in Seq(Nat) /\ Len(Tail(raw)) = 1
  <2>1. Len(raw) = 2 /\ raw \in Seq(Nat)
    BY Sizes DEF Slide, Complete, Length, IInv, Typed
  <2>2. raw # <<>>
    <3>1. Len(<<>>) = 0 /\ 0 # 2
      OBVIOUS
    <3> QED BY <2>1, <3>1, Zenon
  <2> QED BY <2>1, <2>2, HeadTailProperties
<1>1. Typed'
  BY <1>0 DEF IInv, Typed, Slide, options, source
<1>2. InHand'
  BY <1>0, BinaryLogAssumption DEF IInv, InHand, Slide, options, source
<1>3. Moved' = Moved
  BY DEF Slide, Moved
<1>4. Untruncated' /\ Balance' /\ Arrived' /\ EndCount'
  BY <1>3, SameAccount DEF IInv, Typed, Slide, options
<1> QED BY <1>1, <1>2, <1>4 DEF IInv

(* A step keeps the account when what it counts as received goes to the    *)
(* other counters or to what is moved, and comes from the device.          *)
LEMMA NewAccount ==
  ASSUME IInv, input' = input,
         NEW received \in Nat, NEW stored \in Nat, NEW discards \in Nat,
         NEW invalid \in Nat, NEW truncates \in Nat,
         Adds(stats', stats, received, stored, discards, invalid, truncates),
         Moved' \in Nat,
         received + Moved = stored + discards + Moved' + 4 * invalid,
         Len(staged') \in Nat, Len(wire') \in Nat,
         received + Len(staged') + Len(wire') = Len(staged) + Len(wire)
  PROVE  Balance' /\ Arrived'
<1>1. stats \in Counters /\ staged \in Seq(Nat) /\ wire \in Seq(Nat) /\ raw \in Seq(Nat)
      /\ discarded \in Nat
  BY Zenon DEF IInv, Typed
<1>2. Moved \in Nat /\ Len(staged) \in Nat /\ Len(wire) \in Nat
  <2>1. Len(raw) \in Nat /\ Len(staged) \in Nat /\ Len(wire) \in Nat
    BY ONLY <1>1
  <2>2. discarded + 2 \in Nat
    BY ONLY <1>1
  <2> QED BY ONLY <2>1, <2>2 DEF Moved
<1>3. /\ stats.received \in Nat /\ stats.stored \in Nat /\ stats.discarded \in Nat
      /\ stats.invalid_lengths \in Nat
  BY <1>1 DEF Counters
<1>4. Balance'
  <2> DEFINE a == stats.received
             b == stats.stored
             c == stats.discarded
             d == stats.invalid_lengths
             m == Moved
             n == Moved'
  <2>1. /\ a \in Nat /\ b \in Nat /\ c \in Nat /\ d \in Nat /\ m \in Nat /\ n \in Nat
        /\ received + m = stored + discards + n + 4 * invalid
    BY <1>2, <1>3, Zenon
  <2>2. a = b + c + m + 4 * d
    BY Zenon DEF IInv, Balance
  <2>3. /\ stats'.received = a + received /\ stats'.stored = b + stored
        /\ stats'.discarded = c + discards /\ stats'.invalid_lengths = d + invalid
    BY Zenon DEF Adds
  <2> HIDE DEF a, b, c, d, m, n
  <2>4. a + received = (b + stored) + (c + discards) + n + 4 * (d + invalid)
    BY <2>1, <2>2
  <2>5. stats'.received = stats'.stored + stats'.discarded + n + 4 * stats'.invalid_lengths
    BY <2>3, <2>4, Zenon
  <2> QED BY <2>5, Zenon DEF n, Balance
<1>5. Arrived'
  <2>1. Delivery(input)' = Delivery(input)
    BY DEF Delivery
  <2>2. stats.received + Len(staged) + Len(wire) = Len(Delivery(input))
    BY Zenon DEF IInv, Arrived
  <2>3. stats'.received + Len(staged') + Len(wire')
          = stats.received + Len(staged) + Len(wire)
    <3> DEFINE a == stats.received
               b == Len(staged)
               c == Len(wire)
               d == Len(staged')
               e == Len(wire')
    <3>1. /\ a \in Nat /\ b \in Nat /\ c \in Nat /\ d \in Nat /\ e \in Nat
          /\ received + d + e = b + c
      BY <1>2, <1>3, Zenon
    <3>2. stats'.received = a + received
      BY Zenon DEF Adds
    <3> HIDE DEF a, b, c, d, e
    <3>3. (a + received) + d + e = a + b + c
      BY <3>1
    <3>4. stats'.received + d + e = a + b + c
      BY <3>2, <3>3, Zenon
    <3> QED BY <3>4, Zenon DEF a, b, c, d, e
  <2> QED BY <2>1, <2>2, <2>3 DEF Arrived
<1> QED BY <1>4, <1>5

(* So it is when nothing comes from the device. *)
LEMMA NewCount ==
  ASSUME IInv, input' = input, wire' = wire, staged' = staged,
         NEW stored \in Nat, NEW discards \in Nat, NEW invalid \in Nat, NEW truncates \in Nat,
         Adds(stats', stats, 0, stored, discards, invalid, truncates),
         Moved' \in Nat,
         Moved = stored + discards + Moved' + 4 * invalid
  PROVE  Balance' /\ Arrived'
<1>1. wire \in Seq(Nat) /\ staged \in Seq(Nat) /\ raw \in Seq(Nat) /\ discarded \in Nat
  BY Zenon DEF IInv, Typed
<1>2. Len(staged) \in Nat /\ Len(wire) \in Nat /\ Moved \in Nat
  BY <1>1 DEF Moved
<1>3. /\ Len(staged') = Len(staged) /\ Len(wire') = Len(wire)
      /\ Len(staged') \in Nat /\ Len(wire') \in Nat
  BY <1>2, Zenon
<1>4. /\ 0 + Moved = stored + discards + Moved' + 4 * invalid
      /\ 0 \in Nat
  BY <1>2
<1>5. 0 + Len(staged') + Len(wire') = Len(staged) + Len(wire)
  <2>1. 0 + Len(staged) + Len(wire) = Len(staged) + Len(wire)
    <3> DEFINE a == Len(staged)
               b == Len(wire)
    <3>1. a \in Nat /\ b \in Nat
      BY <1>2, Zenon
    <3> HIDE DEF a, b
    <3>2. 0 + a + b = a + b
      BY <3>1
    <3> QED BY <3>2, Zenon DEF a, b
  <2> QED BY <1>3, <2>1, Zenon
<1> QED BY <1>3, <1>4, <1>5, NewAccount, Zenon

LEMMA WindowEndsKeeps ==
  ASSUME IInv, WindowEnds
  PROVE  IInv'
<1>0. /\ \/ pc' = "rest" /\ cause' = cause
         \/ pc' = "done" /\ cause' = "stopped"
      /\ pc = "window" /\ Len(raw) = 2 /\ discarded' = 0
      /\ UNCHANGED <<input, wire, staged, running, raw>>
  BY Sizes DEF WindowEnds, Finish, Go, Complete, Length, options, source
<1>t. /\ stats \in Counters /\ discarded \in Nat /\ cause = "none"
      /\ staged \in Seq(Nat) /\ wire \in Seq(Nat)
  BY <1>0 DEF IInv, Typed
<1>1. Adds(stats', stats, 0, 0, discarded, 0, 0)
  <2>1. stats.discarded \in Nat
    BY <1>t DEF Counters
  <2>2. stats' = [stats EXCEPT !.discarded = @ + discarded]
    BY <1>t, <2>1 DEF WindowEnds, Discard
  <2> QED BY <1>t, <2>2, Counting, Zenon
<1>2. Typed'
  <2>1. stats' \in Counters
    BY <1>1 DEF Adds
  <2> QED BY <1>0, <1>t, <2>1 DEF IInv, Typed
<1>3. InHand'
  <2>1. Len(raw) <= 4 + MAX_MESSAGE_SIZE /\ Len(staged) <= RECEIVE_STAGING_SIZE
    BY Zenon DEF IInv, InHand
  <2>2. Len(raw') \in 2..4 /\ ~(discarded' > 0)
    BY <1>0
  <2>3. pc' \notin {"record", "magic", "window", "payload"}
    BY <1>0
  <2> QED BY <1>0, <2>1, <2>2, <2>3, Zenon DEF InHand
<1>4. Balance' /\ Arrived'
  <2>1. Moved = discarded + 2 /\ Moved' = 2
    BY <1>0 DEF Moved
  <2>2. Moved' \in Nat /\ Moved = 0 + discarded + Moved' + 4 * 0 /\ 0 \in Nat
    BY <1>t, <2>1
  <2> QED BY <1>0, <1>1, <1>t, <2>2, NewCount, Zenon
<1>5. Untruncated' /\ EndCount'
  <2>1. cause' # "EOF"
    BY <1>0, <1>t
  <2>2. stats'.truncated = 0
    BY <1>0, <1>1 DEF IInv, Untruncated, Adds
  <2> QED BY <2>1, <2>2 DEF Untruncated, EndCount
<1> QED BY <1>2, <1>3, <1>4, <1>5 DEF IInv

LEMMA ReadStoppedKeeps ==
  ASSUME IInv, ReadStopped
  PROVE  IInv'
<1>0. /\ pc # "done" /\ pc' = "done" /\ cause' = "stopped"
      /\ UNCHANGED <<input, wire, staged, running>>
  BY DEF ReadStopped, Reading, Finish, options, source
<1>t. /\ stats \in Counters /\ discarded \in Nat
      /\ staged \in Seq(Nat) /\ wire \in Seq(Nat)
  BY DEF IInv, Typed
<1>h. Len(raw) <= 4 + MAX_MESSAGE_SIZE /\ Len(staged) <= RECEIVE_STAGING_SIZE
  BY Zenon DEF IInv, InHand
<1>1. CASE pc = "window"
  <2>0. raw' = <<>> /\ discarded' = 0 /\ stats' = Discard(2)
    BY <1>1, Sizes DEF ReadStopped
  <2>1. Adds(stats', stats, 0, 0, discarded + 2, 0, 0)
    <3>1. stats.discarded \in Nat
      BY <1>t DEF Counters
    <3>2. stats' = [stats EXCEPT !.discarded = @ + (discarded + 2)]
      BY <1>t, <2>0, <3>1 DEF Discard
    <3>3. discarded + 2 \in Nat
      BY <1>t
    <3> QED BY <1>t, <3>2, <3>3, Counting, Zenon
  <2>2. Typed'
    <3>1. stats' \in Counters
      BY <2>1 DEF Adds
    <3> QED BY <1>0, <2>0, <3>1, EmptySeq DEF IInv, Typed
  <2>3. InHand'
    BY <1>0, <1>h, <2>0, BinaryLogAssumption DEF InHand
  <2>4. Balance' /\ Arrived'
    <3>1. Moved = discarded + 2 /\ Moved' = 0
      BY <1>0, <1>1, <2>0 DEF Moved
    <3>2. discarded + 2 \in Nat
      BY <1>t
    <3>3. Moved' \in Nat /\ Moved = 0 + (discarded + 2) + Moved' + 4 * 0 /\ 0 \in Nat
      BY <1>t, <3>1
    <3> QED BY <1>0, <2>1, <3>2, <3>3, NewCount, Zenon
  <2>5. Untruncated' /\ EndCount'
    BY <1>0 DEF Untruncated, EndCount
  <2> QED BY <2>2, <2>3, <2>4, <2>5 DEF IInv
<1>2. CASE pc # "window"
  <2>0. UNCHANGED <<stats, raw, discarded>>
    BY <1>2 DEF ReadStopped
  <2>1. Typed'
    BY <1>0, <2>0 DEF IInv, Typed
  <2>2. InHand'
    BY <1>0, <1>2, <2>0 DEF IInv, InHand, Typed
  <2>3. Moved' = Moved
    BY <1>0, <1>2, <2>0 DEF Moved
  <2>4. Untruncated' /\ Balance' /\ Arrived' /\ EndCount'
    BY <1>0, <2>0, <2>3, SameAccount DEF source
  <2> QED BY <2>1, <2>2, <2>4 DEF IInv
<1> QED BY <1>1, <1>2

LEMMA DecodeKeeps ==
  ASSUME IInv, Decode
  PROVE  IInv'
<1>0. /\ pc = "rest" /\ Len(raw) = 4 /\ cause' = cause
      /\ UNCHANGED <<input, wire, staged, running, discarded>>
  BY Sizes DEF Decode, Go, Complete, Length, options, source
<1>1. /\ raw \in Seq(Nat) /\ raw[3] \in Nat /\ discarded = 0
      /\ cause = "none" /\ stats \in Counters /\ stats.truncated = 0
      /\ staged \in Seq(Nat) /\ wire \in Seq(Nat)
  <2>1. /\ raw \in Seq(Nat) /\ discarded \in Nat /\ stats \in Counters
        /\ staged \in Seq(Nat) /\ wire \in Seq(Nat)
    BY DEF IInv, Typed
  <2>2. raw[3] \in Nat
    <3>1. 3 \in 1..Len(raw)
      BY <1>0
    <3> QED BY <2>1, <3>1, ElementOfSeq, Zenon
  <2> QED BY <1>0, <2>1, <2>2 DEF IInv, Typed, InHand, Untruncated
<1>h. Len(staged) <= RECEIVE_STAGING_SIZE
  BY Zenon DEF IInv, InHand
<1>2. CASE raw[3] > MAX_MESSAGE_SIZE
  <2>0. /\ pc' = "record" /\ raw' = <<>>
        /\ stats' = [stats EXCEPT !.invalid_lengths = @ + 1]
    BY <1>2, Sizes DEF Decode, Go
  <2>1. Adds(stats', stats, 0, 0, 0, 1, 0)
    BY <1>1, <2>0, Counting
  <2>2. Typed'
    <3>1. stats' \in Counters
      BY <2>1 DEF Adds
    <3> QED BY <1>0, <2>0, <3>1, EmptySeq DEF IInv, Typed
  <2>3. InHand'
    BY <1>0, <1>1, <1>h, <2>0, BinaryLogAssumption DEF InHand
  <2>4. Balance' /\ Arrived'
    <3>1. Moved = 4 /\ Moved' = 0
      BY <1>0, <2>0 DEF Moved
    <3>2. Moved' \in Nat /\ Moved = 0 + 0 + Moved' + 4 * 1 /\ 0 \in Nat /\ 1 \in Nat
      BY <3>1
    <3> QED BY <1>0, <2>1, <3>2, NewCount, Zenon
  <2>5. Untruncated' /\ EndCount'
    BY <1>0, <1>1, <2>1 DEF Untruncated, EndCount, Adds
  <2> QED BY <2>2, <2>3, <2>4, <2>5 DEF IInv
<1>3. CASE ~(raw[3] > MAX_MESSAGE_SIZE)
  <2>0. pc' = "payload" /\ UNCHANGED <<stats, raw>>
    BY <1>3, Sizes DEF Decode, Go
  <2>1. Typed'
    BY <1>0, <2>0 DEF IInv, Typed
  <2>2. InHand'
    <3>1. /\ raw[3] <= MAX_MESSAGE_SIZE /\ Len(raw) <= 4 + raw[3]
          /\ Len(raw) <= 4 + MAX_MESSAGE_SIZE /\ Len(raw) >= 4
      BY <1>0, <1>1, <1>3, BinaryLogAssumption
    <3>2. ~(discarded' > 0) /\ pc' \notin {"record", "magic", "window", "rest"}
      BY <1>0, <1>1, <2>0
    <3> QED BY <1>0, <1>h, <2>0, <3>1, <3>2, Zenon DEF InHand
  <2>3. Moved' = Moved
    BY <1>0, <2>0 DEF Moved
  <2>4. Untruncated' /\ Balance' /\ Arrived' /\ EndCount'
    BY <1>0, <1>1, <2>0, <2>3, SameAccount DEF source
  <2> QED BY <2>1, <2>2, <2>4 DEF IInv
<1> QED BY <1>2, <1>3

LEMMA StoreKeeps ==
  ASSUME IInv, Store
  PROVE  IInv'
<1>0. /\ pc = "payload" /\ pc' = "record" /\ cause' = cause /\ raw' = <<>>
      /\ stats' = [stats EXCEPT !.stored = @ + Len(raw), !.records = @ + 1]
      /\ UNCHANGED <<input, wire, staged, running, discarded>>
  BY DEF Store, Go, options, source
<1>1. /\ raw \in Seq(Nat) /\ stats \in Counters /\ stats.truncated = 0
      /\ cause = "none" /\ staged \in Seq(Nat) /\ wire \in Seq(Nat) /\ discarded = 0
  BY <1>0 DEF IInv, Typed, InHand, Untruncated
<1>2. Len(raw) \in Nat /\ Len(<<>>) = 0 /\ Len(staged) <= RECEIVE_STAGING_SIZE
  <2>1. Len(raw) \in Nat /\ Len(<<>>) = 0
    BY <1>1
  <2> QED BY <2>1, Zenon DEF IInv, InHand
<1>3. Adds(stats', stats, 0, Len(raw), 0, 0, 0)
  BY <1>0, <1>1, <1>2, CountingRecord, Zenon
<1>4. Typed'
  <2>1. stats' \in Counters
    BY <1>3 DEF Adds
  <2> QED BY <1>0, <2>1, EmptySeq DEF IInv, Typed
<1>5. InHand'
  BY <1>0, <1>1, <1>2, BinaryLogAssumption DEF InHand
<1>6. Balance' /\ Arrived'
  <2>1. Moved = Len(raw) /\ Moved' = 0
    BY <1>0, <1>2 DEF Moved
  <2>2. Moved' \in Nat /\ Moved = Len(raw) + 0 + Moved' + 4 * 0 /\ 0 \in Nat
    BY <1>2, <2>1
  <2> QED BY <1>0, <1>2, <1>3, <2>2, NewCount, Zenon
<1>7. Untruncated' /\ EndCount'
  BY <1>0, <1>1, <1>3 DEF Untruncated, EndCount, Adds
<1> QED BY <1>4, <1>5, <1>6, <1>7 DEF IInv

LEMMA StoreFailsKeeps ==
  ASSUME IInv, StoreFails
  PROVE  IInv'
<1>0. /\ pc = "payload" /\ pc' = "done" /\ cause' = "write_failed"
      /\ UNCHANGED <<input, wire, staged, running, discarded>>
  BY DEF StoreFails, Finish, options, source
<1>1. raw \in Seq(Nat) /\ stats \in Counters
  BY Zenon DEF IInv, Typed
<1>d. discarded = 0
  <2>1. discarded \in Nat /\ (discarded > 0 => pc = "window")
    BY Zenon DEF IInv, Typed, InHand
  <2> QED BY <1>0, <2>1
<1>2. PICK n \in 0..Len(raw) :
        /\ stats' = [stats EXCEPT !.stored = @ + n]
        /\ raw' = SubSeq(raw, n + 1, Len(raw))
  BY DEF StoreFails
<1>3. n \in Nat /\ n <= Len(raw) /\ Len(raw) \in Nat
  BY <1>1
<1>4. raw' \in Seq(Nat) /\ Len(raw') = Len(raw) - n
  BY <1>1, <1>2, <1>3, Cut, Zenon
<1>5. Len(staged) <= RECEIVE_STAGING_SIZE /\ Len(raw) <= 4 + MAX_MESSAGE_SIZE
  BY Zenon DEF IInv, InHand
<1>6. Adds(stats', stats, 0, n, 0, 0, 0)
  BY <1>1, <1>2, <1>3, Counting, Zenon
<1>7. Typed'
  <2>1. stats' \in Counters
    BY <1>6 DEF Adds
  <2> QED BY <1>0, <1>4, <2>1 DEF IInv, Typed
<1>8. InHand'
  <2>1. Len(raw') <= 4 + MAX_MESSAGE_SIZE
    BY <1>3, <1>4, <1>5, BinaryLogAssumption
  <2>2. ~(discarded' > 0) /\ pc' \notin {"record", "magic", "window", "rest", "payload"}
    BY <1>0, <1>d
  <2> QED BY <1>0, <1>5, <2>1, <2>2, Zenon DEF InHand
<1>9. Balance' /\ Arrived'
  <2>1. Moved = Len(raw) /\ Moved' = Len(raw) - n
    BY <1>0, <1>4 DEF Moved
  <2>2. Moved' \in Nat /\ Moved = n + 0 + Moved' + 4 * 0 /\ 0 \in Nat
    BY <1>3, <2>1
  <2> QED BY <1>0, <1>3, <1>6, <2>2, NewCount, Zenon
<1>10. Untruncated' /\ EndCount'
  BY <1>0 DEF Untruncated, EndCount
<1> QED BY <1>7, <1>8, <1>9, <1>10 DEF IInv

(* What the loop still needs, and what it holds after it got some of that *)
LEMMA Needed ==
  ASSUME IInv, Reading
  PROVE  /\ Length \in Nat /\ Len(raw) \in Nat /\ Length - Len(raw) \in Nat
         /\ Len(raw) < Length /\ Length <= 4 + MAX_MESSAGE_SIZE
         /\ pc \in {"magic", "window"} => Length = 2
         /\ pc = "rest" => Length = 4 /\ Len(raw) >= 2
         /\ pc = "payload" => /\ Length = 4 + raw[3] /\ Len(raw) >= 4
                              /\ raw[3] \in Nat /\ raw[3] <= MAX_MESSAGE_SIZE
<1>1. raw \in Seq(Nat) /\ Len(raw) \in Nat
  <2>1. raw \in Seq(Nat)
    BY Zenon DEF IInv, Typed
  <2> QED BY <2>1, LenProperties
<1>2. pc \in {"magic", "window", "rest", "payload"} /\ Len(raw) < Length
  BY Zenon DEF Reading
<1>3. CASE pc \in {"magic", "window"}
  <2>1. Length = 2
    BY <1>3, Sizes DEF Length
  <2> QED BY <1>1, <1>2, <1>3, <2>1, BinaryLogAssumption
<1>4. CASE pc = "rest"
  <2>1. Length = 4
    BY <1>4, Sizes DEF Length
  <2>2. Len(raw) >= 2
    <3>1. Len(raw) \in 2..4
      BY <1>4, Zenon DEF IInv, InHand
    <3> QED BY <3>1
  <2> QED BY <1>1, <1>2, <1>4, <2>1, <2>2, BinaryLogAssumption
<1>5. CASE pc = "payload"
  <2>1. Length = 4 + raw[3]
    BY <1>5, Sizes DEF Length
  <2>2. Len(raw) >= 4 /\ raw[3] <= MAX_MESSAGE_SIZE
    BY <1>5 DEF IInv, InHand
  <2>3. raw[3] \in Nat
    BY <1>1, <2>2, ElementOfSeq
  <2> QED BY <1>1, <1>2, <1>5, <2>1, <2>2, <2>3, BinaryLogAssumption
<1> QED BY <1>2, <1>3, <1>4, <1>5

(* What is appended leaves the length of the metadata as it was. *)
LEMMA Appended ==
  ASSUME NEW s \in Seq(Nat), NEW t \in Seq(Nat)
  PROVE  /\ s \o t \in Seq(Nat) /\ Len(s \o t) = Len(s) + Len(t)
         /\ Len(s) >= 4 => (s \o t)[3] = s[3]
<1>1. s \o t \in Seq(Nat) /\ Len(s \o t) = Len(s) + Len(t)
  BY ConcatProperties
<1>2. ASSUME Len(s) >= 4
      PROVE  (s \o t)[3] = s[3]
  BY <1>2, ConcatProperties, LenProperties
<1> QED BY <1>1, <1>2

(* A read has three outcomes: the loop goes on; the window gives up at an  *)
(* error; or the record in hand is cut off by it, if there is any of it.   *)
GoesOn(r) ==
  /\ raw' = raw \o r.chunk /\ pc' = pc /\ cause' = cause
  /\ discarded' = discarded + (IF pc = "window" THEN Len(r.chunk) ELSE 0)
  /\ stats' = [stats EXCEPT !.received = @ + Len(r.chunk)]

GivesUp(r) ==
  /\ pc = "window" /\ pc' = "done" /\ cause' = r.status
  /\ raw' = r.chunk /\ discarded' = 0
  /\ stats' = [[stats EXCEPT !.received = @ + Len(r.chunk)]
                 EXCEPT !.discarded = @ + discarded + 2]

CutsOff(r) ==
  /\ pc # "window" /\ pc' = "done" /\ cause' = r.status
  /\ raw' = raw \o r.chunk /\ discarded' = discarded
  /\ \/ /\ Len(raw \o r.chunk) = 0
        /\ stats' = [stats EXCEPT !.received = @ + Len(r.chunk)]
     \/ /\ Len(raw \o r.chunk) > 0 \/ pc \in {"rest", "payload"}
        /\ stats' = [[stats EXCEPT !.received = @ + Len(r.chunk)] EXCEPT !.truncated = @ + 1]

(* Read is one of the three. *)
LEMMA ReadCases ==
  ASSUME IInv, Read
  PROVE  /\ Reading /\ UNCHANGED <<input, running>>
         /\ \E r : /\ Kept(r, Length - Len(raw))
                   /\ wire' = r.wire /\ staged' = r.staged
                   /\ \/ r.status \notin {"EOF", "ERROR"} /\ GoesOn(r)
                      \/ r.status \in {"EOF", "ERROR"} /\ GivesUp(r)
                      \/ r.status \in {"EOF", "ERROR"} /\ CutsOff(r)
<1>1. Reading /\ UNCHANGED <<input, running>>
  BY DEF Read, options
<1> DEFINE capacity == Length - Len(raw)
           received(r) == [stats EXCEPT !.received = @ + Len(r.chunk)]
<1>2. capacity \in Nat
  BY <1>1, Needed
<1>3. PICK r \in buffered_read(capacity) :
        /\ wire' = r.wire /\ staged' = r.staged
        /\ IF r.status \in {"DATA", "TIMEOUT", "INTERRUPTED"}
             THEN /\ raw' = raw \o r.chunk
                  /\ discarded' = discarded + (IF pc = "window" THEN Len(r.chunk) ELSE 0)
                  /\ stats' = received(r)
                  /\ Go(pc)
             ELSE /\ Finish(r.status)
                  /\ IF pc = "window"
                       THEN /\ raw' = r.chunk
                            /\ discarded' = 0
                            /\ stats' = [received(r) EXCEPT
                                           !.discarded = @ + discarded + Len(Magic)]
                       ELSE /\ raw' = raw \o r.chunk
                            /\ stats' = IF pc \in {"rest", "payload"} \/ Len(raw \o r.chunk) > 0
                                          THEN [received(r) EXCEPT !.truncated = @ + 1]
                                          ELSE received(r)
                            /\ UNCHANGED discarded
  BY Zenon DEF Read
<1>4. Kept(r, capacity)
  BY <1>2, <1>3, ReadKeepsUnits, Zenon DEF IInv
<1>5. r.status \in {"DATA", "TIMEOUT", "INTERRUPTED", "ERROR", "EOF"}
  BY <1>4 DEF Kept
<1>6. CASE r.status \in {"DATA", "TIMEOUT", "INTERRUPTED"}
  <2>1. GoesOn(r) /\ r.status \notin {"EOF", "ERROR"}
    BY <1>3, <1>6 DEF GoesOn, Go
  <2> QED BY <1>1, <1>3, <1>4, <2>1, Zenon
<1>7. CASE r.status \in {"EOF", "ERROR"} /\ pc = "window"
  <2>1. GivesUp(r)
    BY <1>3, <1>7, Sizes DEF GivesUp, Finish
  <2> QED BY <1>1, <1>3, <1>4, <1>7, <2>1, Zenon
<1>8. CASE r.status \in {"EOF", "ERROR"} /\ pc # "window"
  <2>1. CutsOff(r)
    <3>1. /\ pc' = "done" /\ cause' = r.status
          /\ raw' = raw \o r.chunk /\ discarded' = discarded
          /\ stats' = IF pc \in {"rest", "payload"} \/ Len(raw \o r.chunk) > 0
                        THEN [received(r) EXCEPT !.truncated = @ + 1]
                        ELSE received(r)
      BY <1>3, <1>8 DEF Finish
    <3>2. Len(raw \o r.chunk) \in Nat
      BY <1>4, Appended, LenProperties DEF IInv, Typed, Kept
    <3>3. CASE pc \in {"rest", "payload"} \/ Len(raw \o r.chunk) > 0
      BY <1>8, <3>1, <3>3, Zenon DEF CutsOff
    <3>4. CASE ~(pc \in {"rest", "payload"} \/ Len(raw \o r.chunk) > 0)
      <4>1. Len(raw \o r.chunk) = 0
        BY <3>2, <3>4
      <4> QED BY <1>8, <3>1, <3>4, <4>1, Zenon DEF CutsOff
    <3> QED BY <3>3, <3>4, Zenon
  <2> QED BY <1>1, <1>3, <1>4, <1>8, <2>1, Zenon
<1> QED BY <1>5, <1>6, <1>7, <1>8

LEMMA ReadKeeps ==
  ASSUME IInv, Read
  PROVE  IInv'
<1>1. Reading /\ UNCHANGED <<input, running>>
  BY ReadCases
<1>2. PICK r : /\ Kept(r, Length - Len(raw))
               /\ wire' = r.wire /\ staged' = r.staged
               /\ \/ r.status \notin {"EOF", "ERROR"} /\ GoesOn(r)
                  \/ r.status \in {"EOF", "ERROR"} /\ GivesUp(r)
                  \/ r.status \in {"EOF", "ERROR"} /\ CutsOff(r)
  BY ReadCases, Zenon
<1> DEFINE k == Len(r.chunk)
<1>3. /\ stats \in Counters /\ discarded \in Nat /\ raw \in Seq(Nat)
      /\ pc \in {"magic", "window", "rest", "payload"} /\ cause = "none"
      /\ stats.truncated = 0 /\ (discarded > 0 => pc = "window")
  BY <1>1 DEF IInv, Typed, InHand, Untruncated, Reading
<1>4. /\ r.chunk \in Seq(Nat) /\ wire' \in Seq(Nat) /\ staged' \in Seq(Nat)
      /\ Len(staged') <= RECEIVE_STAGING_SIZE
      /\ k \in Nat /\ Len(wire') \in Nat /\ Len(staged') \in Nat
      /\ k + Len(staged') + Len(wire') = Len(staged) + Len(wire)
      /\ r.status = "EOF" => k = 0
  <2>1. /\ r.chunk \in Seq(Nat) /\ wire' \in Seq(Nat) /\ staged' \in Seq(Nat)
        /\ Len(staged') <= RECEIVE_STAGING_SIZE
        /\ k + Len(staged') + Len(wire') = Len(staged) + Len(wire)
        /\ r.status = "EOF" => k = 0
    BY <1>2, Zenon DEF Kept
  <2>2. k \in Nat /\ Len(wire') \in Nat /\ Len(staged') \in Nat
    BY <2>1, LenProperties, Zenon
  <2> QED BY <2>1, <2>2, Zenon
<1>5. /\ Length \in Nat /\ Len(raw) \in Nat /\ Len(raw) + k <= Length
      /\ Length <= 4 + MAX_MESSAGE_SIZE
      /\ pc \in {"magic", "window"} => Length = 2
      /\ pc = "rest" => Length = 4 /\ Len(raw) >= 2
      /\ pc = "payload" => /\ Length = 4 + raw[3] /\ Len(raw) >= 4
                           /\ raw[3] \in Nat /\ raw[3] <= MAX_MESSAGE_SIZE
  <2>1. k <= Length - Len(raw)
    BY <1>2, Zenon DEF Kept
  <2>2. Length \in Nat /\ Len(raw) \in Nat
    BY <1>1, Needed
  <2>3. Len(raw) + k <= Length
    BY <1>4, <2>1, <2>2
  <2> QED BY <1>1, <2>2, <2>3, Needed
<1>6. /\ raw \o r.chunk \in Seq(Nat) /\ Len(raw \o r.chunk) = Len(raw) + k
      /\ Len(raw) >= 4 => (raw \o r.chunk)[3] = raw[3]
  BY <1>3, <1>4, Appended
<1> HIDE DEF k
<1>7. CASE r.status \notin {"EOF", "ERROR"} /\ GoesOn(r)
  <2>1. /\ raw' = raw \o r.chunk /\ pc' = pc /\ cause' = cause
        /\ discarded' = discarded + (IF pc = "window" THEN k ELSE 0)
        /\ stats' = [stats EXCEPT !.received = @ + k]
    BY <1>7 DEF GoesOn, k
  <2>2. Adds(stats', stats, k, 0, 0, 0, 0)
    BY <1>3, <1>4, <2>1, Counting
  <2>3. discarded' \in Nat /\ (discarded' > 0 => pc' = "window")
    BY <1>3, <1>4, <2>1
  <2>4. Typed'
    <3>1. stats' \in Counters
      BY <2>2 DEF Adds
    <3>2. raw' \in Seq(Nat)
      BY <1>6, <2>1
    <3> QED BY <1>1, <1>4, <2>1, <2>3, <3>1, <3>2 DEF IInv, Typed
  <2>5. InHand'
    <3>1. Len(raw') = Len(raw) + k
      BY <1>6, <2>1
    <3>2. pc = "payload" => raw'[3] = raw[3]
      BY <1>5, <1>6, <2>1
    <3>3. Len(raw') <= Length /\ Len(raw') >= Len(raw) /\ Len(raw') \in Nat
      BY <1>4, <1>5, <3>1
    <3>4. /\ pc' # "record"
          /\ pc' \in {"magic", "window"} => Len(raw') <= 2
          /\ pc' = "rest" => Len(raw') \in 2..4
      BY <1>3, <1>5, <2>1, <3>3
    <3>5. pc' = "payload" => Len(raw') >= 4 /\ Len(raw') <= 4 + raw[3] /\ raw[3] <= MAX_MESSAGE_SIZE
      BY <1>5, <2>1, <3>3
    <3>6. Len(raw') <= 4 + MAX_MESSAGE_SIZE
      BY <1>5, <3>3, BinaryLogAssumption
    <3>7. pc' = "payload" => /\ Len(raw') >= 4 /\ raw'[3] <= MAX_MESSAGE_SIZE
                            /\ Len(raw') <= 4 + raw'[3]
      BY <2>1, <3>2, <3>5, Zenon
    <3> QED BY <1>4, <2>3, <3>4, <3>6, <3>7, Zenon DEF InHand
  <2>6. Balance' /\ Arrived'
    <3>1. Moved \in Nat /\ Moved' = Moved + k
      <4>1. Len(raw') = Len(raw) + k
        BY <1>6, <2>1
      <4> QED BY <1>3, <1>4, <1>5, <2>1, <4>1 DEF Moved
    <3>2. Moved' \in Nat /\ k + Moved = 0 + 0 + Moved' + 4 * 0 /\ 0 \in Nat
      BY <1>4, <3>1
    <3> QED BY <1>1, <1>4, <2>2, <3>2, NewAccount
  <2>7. Untruncated' /\ EndCount'
    <3>1. stats'.truncated = 0
      BY <1>3, <2>2 DEF Adds
    <3> QED BY <1>3, <2>1, <3>1 DEF Untruncated, EndCount
  <2> QED BY <2>4, <2>5, <2>6, <2>7 DEF IInv
<1>8. CASE r.status \in {"EOF", "ERROR"} /\ GivesUp(r)
  <2>1. /\ pc = "window" /\ pc' = "done" /\ cause' = r.status
        /\ raw' = r.chunk /\ discarded' = 0
        /\ stats' = [[stats EXCEPT !.received = @ + k] EXCEPT !.discarded = @ + discarded + 2]
    BY <1>8 DEF GivesUp, k
  <2> DEFINE u == [stats EXCEPT !.received = @ + k]
  <2>2. Adds(u, stats, k, 0, 0, 0, 0)
    BY <1>3, <1>4, Counting
  <2>3. stats' = [u EXCEPT !.discarded = @ + discarded + 2]
    BY <2>1
  <2> HIDE DEF u
  <2>4. u \in Counters /\ u.discarded \in Nat
    BY <2>2 DEF Adds, Counters
  <2>5. stats' = [u EXCEPT !.discarded = @ + (discarded + 2)] /\ discarded + 2 \in Nat
    BY <1>3, <2>3, <2>4
  <2>6. Adds(stats', u, 0, 0, discarded + 2, 0, 0)
    BY <2>4, <2>5, Counting
  <2>7. Adds(stats', stats, k, 0, discarded + 2, 0, 0)
    BY <1>3, <1>4, <2>2, <2>5, <2>6 DEF Adds, Counters
  <2>8. Typed'
    <3>1. stats' \in Counters
      BY <2>7 DEF Adds
    <3> QED BY <1>1, <1>4, <1>8, <2>1, <3>1 DEF IInv, Typed
  <2>9. Len(raw') = k /\ k <= 4 + MAX_MESSAGE_SIZE
    <3>1. Len(raw') = k
      BY <2>1 DEF k
    <3> QED BY <1>4, <1>5, <3>1, BinaryLogAssumption
  <2>10. InHand'
    BY <1>4, <2>1, <2>9 DEF InHand
  <2>11. Balance' /\ Arrived'
    <3>1. Moved = discarded + 2 /\ Moved' = k
      BY <2>1, <2>9 DEF Moved
    <3>2. k + Moved = 0 + (discarded + 2) + Moved' + 4 * 0 /\ Moved' \in Nat /\ 0 \in Nat
      BY <1>3, <1>4, <3>1
    <3> QED BY <1>1, <1>4, <2>5, <2>7, <3>2, NewAccount
  <2>12. Untruncated' /\ EndCount'
    <3>1. stats'.truncated = 0
      BY <1>3, <2>7 DEF Adds
    <3>2. cause' = "EOF" => raw' = <<>>
      BY <1>4, <2>1, <2>9, EmptySeq
    <3> QED BY <2>1, <3>1, <3>2 DEF Untruncated, EndCount
  <2> QED BY <2>8, <2>10, <2>11, <2>12 DEF IInv
<1>9. CASE r.status \in {"EOF", "ERROR"} /\ CutsOff(r)
  <2>1. /\ pc # "window" /\ pc' = "done" /\ cause' = r.status
        /\ raw' = raw \o r.chunk /\ discarded' = discarded
    BY <1>9 DEF CutsOff
  <2> DEFINE u == [stats EXCEPT !.received = @ + k]
             t == IF raw' = <<>> THEN 0 ELSE 1
  <2>2. Len(raw') = Len(raw) + k /\ raw' \in Seq(Nat) /\ Len(raw') <= 4 + MAX_MESSAGE_SIZE
    <3>1. Len(raw') = Len(raw) + k /\ raw' \in Seq(Nat)
      BY <1>6, <2>1
    <3> QED BY <1>4, <1>5, <3>1, BinaryLogAssumption
  <2>3. Adds(u, stats, k, 0, 0, 0, 0)
    BY <1>3, <1>4, Counting
  <2>4. \/ Len(raw') = 0 /\ stats' = u
        \/ Len(raw') > 0 /\ stats' = [u EXCEPT !.truncated = @ + 1]
    <3>1. \/ Len(raw') = 0 /\ stats' = u
          \/ /\ Len(raw') > 0 \/ pc \in {"rest", "payload"}
             /\ stats' = [u EXCEPT !.truncated = @ + 1]
      BY <1>9, <2>1, Zenon DEF CutsOff, k
    <3>2. pc \in {"rest", "payload"} => Len(raw') > 0
      BY <1>4, <1>5, <2>2
    <3> QED BY <3>1, <3>2, Zenon
  <2> HIDE DEF u
  <2>5. u \in Counters
    BY <2>3 DEF Adds
  <2>6. t \in Nat /\ Adds(stats', stats, k, 0, 0, 0, t)
    <3>1. CASE Len(raw') = 0 /\ stats' = u
      <4>1. t = 0
        BY <2>2, <3>1, EmptySeq
      <4> QED BY <2>3, <3>1, <4>1
    <3>2. CASE Len(raw') > 0 /\ stats' = [u EXCEPT !.truncated = @ + 1]
      <4>1. t = 1
        BY <2>2, <3>2, EmptySeq
      <4>2. Adds(stats', u, 0, 0, 0, 0, 1)
        BY <2>5, <3>2, Counting
      <4>3. Adds(stats', stats, k, 0, 0, 0, 1)
        BY <1>3, <1>4, <2>3, <4>2 DEF Adds, Counters
      <4> QED BY <4>1, <4>3
    <3> QED BY <2>4, <3>1, <3>2
  <2>7. Typed'
    <3>1. stats' \in Counters
      BY <2>6 DEF Adds
    <3> QED BY <1>1, <1>4, <1>9, <2>1, <2>2, <3>1 DEF IInv, Typed
  <2>8. InHand'
    BY <1>3, <1>4, <2>1, <2>2 DEF InHand
  <2>9. Balance' /\ Arrived'
    <3>1. Moved = Len(raw) /\ Moved' = Len(raw) + k
      BY <2>1, <2>2 DEF Moved
    <3>2. k + Moved = 0 + 0 + Moved' + 4 * 0 /\ Moved' \in Nat /\ 0 \in Nat
      BY <1>4, <1>5, <3>1
    <3> HIDE DEF t
    <3> QED BY <1>1, <1>4, <2>6, <3>2, NewAccount
  <2>10. Untruncated' /\ EndCount'
    <3>1. stats'.truncated = t
      BY <1>3, <2>6 DEF Adds
    <3> QED BY <2>1, <3>1 DEF Untruncated, EndCount
  <2> QED BY <2>7, <2>8, <2>9, <2>10 DEF IInv
<1> QED BY <1>2, <1>7, <1>8, <1>9, Zenon

LEMMA SignalKeeps ==
  ASSUME IInv, handle_signal
  PROVE  IInv'
  BY DEF IInv, Typed, InHand, Untruncated, Balance, Moved, Arrived, EndCount, handle_signal,
         options, source

LEMMA StutterKeeps ==
  ASSUME IInv, UNCHANGED vars
  PROVE  IInv'
  BY DEF IInv, Typed, InHand, Untruncated, Balance, Moved, Arrived, EndCount, vars,
         options, source

-----------------------------------------------------------------------------
(* Every step keeps the invariant. *)
LEMMA NextIInv == IInv /\ [Next]_vars => IInv'
<1> SUFFICES ASSUME IInv, [Next]_vars PROVE IInv'
  OBVIOUS
<1> QED BY NextRecordKeeps, ReadKeeps, ReadStoppedKeeps, MagicReadKeeps, SlideKeeps,
           WindowEndsKeeps, DecodeKeeps, StoreKeeps, StoreFailsKeeps, SignalKeeps,
           StutterKeeps, Zenon DEF Next, Capture

(* In every state, for every delivery and every way in which transfers cut *)
(* it, the variables keep to their types, and neither the record in hand   *)
(* nor the staging buffer outgrows its memory (CaptureTypeOK).             *)
THEOREM CaptureTypeCorrect == Spec => []CaptureTypeOK
  BY InitIInv, NextIInv, IInvImplies, PTL DEF Spec

(* In every state the statistics account for every byte that the device    *)
(* has delivered, and what was not asked for yet is staged: no path of the *)
(* loop, no cut of a transfer and no signal loses count (BytesAccounted).  *)
THEOREM CaptureAccountsForBytes == Spec => []BytesAccounted
  BY InitIInv, NextIInv, IInvImplies, PTL DEF Spec

-----------------------------------------------------------------------------
(* The programs around the loop: what is held where main is                *)
Memory == [context : BOOLEAN, handle : BOOLEAN, interface_claimed : BOOLEAN]

Knows(handle, claimed) ==
  transport.context /\ (transport.handle <=> handle) /\ (transport.interface_claimed <=> claimed)

Places == {"options", "open", "list", "list_devices", "enumerate", "select", "claim", "endpoints",
           "send", "open_file", "capture", "close_file", "plot", "cleanup", "exited"}

Owned ==
  /\ at \in Places /\ transport \in Memory
  /\ at \in {"options", "open", "list", "exited"} => held = {}
  /\ at = "list_devices" => held = {"context"}
  /\ at = "enumerate" => held = {"context"} /\ Knows(FALSE, FALSE)
  /\ at = "select" =>
       held = {"context", "list"} /\ Knows(FALSE, FALSE)
  /\ at = "claim" =>
       held = {"context", "handle"} /\ Knows(TRUE, FALSE)
  /\ at \in {"endpoints", "send", "open_file", "plot", "cleanup"} =>
       held = Device /\ Knows(TRUE, TRUE)
  /\ at \in {"capture", "close_file"} => held = Device \cup {"file"} /\ Knows(TRUE, TRUE)

(* What a capture that worked leaves                                       *)
CommandSent == send_command => sent = Command
Captured    == capture_enabled => cause \in {"stopped", "EOF"}
Done        == CommandSent /\ Captured /\ (capture_enabled => file_closed)

(* How far the storage program has come with what its status will claim: a *)
(* capture is behind the whole command, and status 0 behind everything.    *)
Reported ==
  /\ sent \in 0..Command
  /\ output \in Seq(Nat) /\ stats.stored = Len(output)
  /\ stats.received > 0 => CommandSent
  /\ at \in {"options", "open", "list", "list_devices", "enumerate", "select", "claim",
             "endpoints", "send", "open_file", "capture"} => exit_code = 0
  /\ at \in {"open", "enumerate", "select", "claim", "endpoints"} =>
       capture_enabled \/ send_command
  /\ at \in {"open_file", "capture", "close_file", "plot"} => CommandSent /\ capture_enabled
  /\ at = "close_file" /\ exit_code = 0 => Captured
  /\ at \in {"plot", "cleanup"} /\ exit_code = 0 => Done
  /\ at \in {"list", "list_devices"} => invocation.list_devices
  /\ at = "exited" /\ exit_code = 0 /\ ~invocation.list_devices => Done

ToolsInv == IInv /\ Owned /\ (program = "sniffer_storage" => Reported)

LEMMA ToolsInvImplies ==
  ToolsInv => CaptureTypeOK /\ BytesAccounted /\ NothingLeaked /\ SuccessMeansStored
<1> SUFFICES ASSUME ToolsInv
             PROVE  CaptureTypeOK /\ BytesAccounted /\ NothingLeaked /\ SuccessMeansStored
  OBVIOUS
<1>1. CaptureTypeOK /\ BytesAccounted
  BY IInvImplies DEF ToolsInv
<1>2. NothingLeaked
  BY DEF ToolsInv, Owned, NothingLeaked
<1>3. SuccessMeansStored
  <2> SUFFICES ASSUME program = "sniffer_storage"
               PROVE  /\ send_command /\ ("file" \in held \/ stats.received > 0) => sent = Command
                      /\ ~invocation.list_devices /\ at = "exited" /\ exit_code = 0 =>
                           /\ send_command => sent = Command
                           /\ capture_enabled => /\ cause \in {"stopped", "EOF"}
                                                 /\ stats.stored = Len(output)
                                                 /\ file_closed
    BY DEF SuccessMeansStored
  <2>1. Owned /\ Reported
    BY DEF ToolsInv
  <2>2. "file" \in held => at \in {"capture", "close_file"}
    <3>1. at \notin {"capture", "close_file"} =>
            held \in {{}, {"context"}, {"context", "list"}, {"context", "handle"}, Device}
      BY <2>1 DEF Owned, Places
    <3> QED BY <3>1 DEF Device
  <2> QED BY <2>1, <2>2 DEF Reported, CommandSent, Captured, Done
<1> QED BY <1>1, <1>2, <1>3

LEMMA ToolsStart == ToolsInit => ToolsInv
<1> SUFFICES ASSUME ToolsInit PROVE ToolsInv
  OBVIOUS
<1>1. IInv
  BY InitIInv DEF ToolsInit
<1>2. Owned
  BY DEF ToolsInit, LibusbInit, Owned, Places, Memory, Closed
<1>3. Reported
  <2>1. /\ at = "options" /\ exit_code = 0 /\ sent = 0 /\ output = <<>>
        /\ stats.stored = 0 /\ stats.received = 0
    BY DEF ToolsInit, LibusbInit, StorageInit, Init
  <2>2. output \in Seq(Nat) /\ Len(output) = 0 /\ 0 \in 0..Command
    BY <2>1, StorageAssumption
  <2> QED BY <2>1, <2>2 DEF Reported
<1> QED BY <1>1, <1>2, <1>3 DEF ToolsInv

-----------------------------------------------------------------------------
(* What Close gives back, besides others, is all that is held behind the   *)
(* place where it is called.                                               *)
LEMMA AllGivenBack ==
  ASSUME Owned, NEW others, Close(others),
         \/ at \in {"enumerate", "claim", "endpoints", "open_file", "cleanup"} /\ others = {}
         \/ at = "select" /\ others = {"list"}
         \/ at = "capture" /\ others = {"file"}
  PROVE  held' = {} /\ transport' \in Memory
  BY DEF Owned, Close, Closed, Memory, Knows, Device

(* The steps that both programs share keep track of what is held.          *)
LEMMA OpeningOwns ==
  ASSUME Owned, NEW explicit, NEW next, next \in {"send", "open_file"},
         \/ OpenContext
         \/ OpenEnumerate
         \/ OpenSelect(explicit)
         \/ OpenClaim
         \/ OpenEndpoints(next)
  PROVE  Owned'
<1>1. ASSUME NEW others, Refuse(others),
             \/ at \in {"enumerate", "claim", "endpoints"} /\ others = {}
             \/ at = "select" /\ others = {"list"}
      PROVE  Owned'
  <2>1. held' = {} /\ transport' \in Memory
    BY <1>1, AllGivenBack DEF Refuse
  <2>2. at' = "exited"
    BY <1>1 DEF Refuse, Quit
  <2> QED BY <2>1, <2>2 DEF Owned, Places, Knows
<1>2. CASE OpenContext
  <2>1. CASE /\ held' = held \cup {"context"}
             /\ transport' = [Closed EXCEPT !.context = TRUE]
             /\ To("enumerate")
    <3>1. at' = "enumerate" /\ held' = {"context"}
      BY <1>2, <2>1 DEF OpenContext, To, Owned
    <3>2. transport' \in Memory /\ Knows(FALSE, FALSE)'
      BY <2>1 DEF Closed, Memory, Knows
    <3> QED BY <3>1, <3>2 DEF Owned, Places
  <2>2. CASE Quit(1) /\ transport' = Closed /\ UNCHANGED held
    BY <1>2, <2>2 DEF Owned, OpenContext, Quit, Places, Closed, Memory
  <2> QED BY <1>2, <2>1, <2>2 DEF OpenContext
<1>3. CASE OpenEnumerate
  <2>1. CASE Refuse({})
    BY <1>1, <1>3, <2>1 DEF OpenEnumerate
  <2>2. CASE held' = held \cup {"list"} /\ To("select") /\ UNCHANGED transport
    BY <1>3, <2>2 DEF Owned, OpenEnumerate, To, Places, Knows
  <2> QED BY <1>3, <2>1, <2>2 DEF OpenEnumerate
<1>4. CASE OpenSelect(explicit)
  <2>1. CASE Refuse({"list"})
    BY <1>1, <1>4, <2>1 DEF OpenSelect
  <2>2. CASE /\ held' = (held \ {"list"}) \cup {"handle"}
             /\ transport' = [transport EXCEPT !.handle = TRUE]
             /\ To("claim")
    <3>1. at = "select" /\ at' = "claim"
      BY <1>4, <2>2 DEF OpenSelect, To
    <3>2. held' = {"context", "handle"}
      BY <2>2, <3>1 DEF Owned
    <3>3. transport' \in Memory /\ Knows(TRUE, FALSE)'
      BY <2>2, <3>1 DEF Owned, Memory, Knows
    <3> QED BY <3>1, <3>2, <3>3 DEF Owned, Places, Knows
  <2> QED BY <1>4, <2>1, <2>2 DEF OpenSelect
<1>5. CASE OpenClaim
  <2>1. CASE Refuse({})
    BY <1>1, <1>5, <2>1 DEF OpenClaim
  <2>2. CASE /\ held' = held \cup {"interface"}
             /\ transport' = [transport EXCEPT !.interface_claimed = TRUE]
             /\ To("endpoints")
    <3>1. at = "claim" /\ at' = "endpoints"
      BY <1>5, <2>2 DEF OpenClaim, To
    <3>2. held' = Device
      BY <2>2, <3>1 DEF Owned, Device
    <3>3. transport' \in Memory /\ Knows(TRUE, TRUE)'
      BY <2>2, <3>1 DEF Owned, Memory, Knows
    <3> QED BY <3>1, <3>2, <3>3 DEF Owned, Places, Knows
  <2> QED BY <1>5, <2>1, <2>2 DEF OpenClaim
<1>6. CASE OpenEndpoints(next)
  <2>1. CASE Refuse({})
    BY <1>1, <1>6, <2>1 DEF OpenEndpoints
  <2>2. CASE To(next) /\ UNCHANGED <<held, transport>>
    BY <1>6, <2>2 DEF Owned, OpenEndpoints, To, Places, Knows
  <2> QED BY <1>6, <2>1, <2>2 DEF OpenEndpoints
<1> QED BY <1>2, <1>3, <1>4, <1>5, <1>6

LEMMA StorageOwns ==
  ASSUME Owned, StorageStep
  PROVE  Owned'
<1>1. CASE ParseOptions
  BY <1>1 DEF ParseOptions, Owned, Places, Knows, To, Quit, usb
<1>2. CASE Open
  <2>1. CASE ListContext
    BY <2>1 DEF Owned, ListContext, To, Quit, Places, Knows
  <2>2. CASE ListDevices
    BY <2>2 DEF Owned, ListDevices, Quit, Places, Knows
  <2>3. (IF send_command THEN "send" ELSE "open_file") \in {"send", "open_file"}
    OBVIOUS
  <2> QED BY <1>2, <2>1, <2>2, <2>3, OpeningOwns DEF Open
<1>3. CASE Transfer
  BY <1>3 DEF Transfer, Owned, Places, Knows, To, Fail, usb
<1>4. CASE TransferEnds
  BY <1>4 DEF TransferEnds, Owned, Places, Knows, To, Fail, usb
<1>5. CASE OpenFile
  BY <1>5 DEF OpenFile, Owned, Places, Knows, To, Fail
<1>6. CASE CaptureStep
  BY <1>6 DEF CaptureStep, Owned, Places, Knows, usb
<1>7. CASE CaptureReturns
  BY <1>7 DEF CaptureReturns, Owned, Places, Knows, To, Fail, usb
<1>8. CASE CloseFile
  BY <1>8 DEF CloseFile, Owned, Places, Knows, To, Fail, Device
<1>9. CASE Plot
  BY <1>9 DEF Plot, Owned, Places, Knows, To, Fail, usb
<1>10. CASE Cleanup
  <2>1. held' = {} /\ transport' \in Memory
    BY <1>10, AllGivenBack DEF Cleanup
  <2> QED BY <1>10, <2>1 DEF Cleanup, Quit, Owned, Places, Knows
<1> QED BY <1>1, <1>2, <1>3, <1>4, <1>5, <1>6, <1>7, <1>8, <1>9, <1>10, Zenon DEF StorageStep

LEMMA WindowsOwns ==
  ASSUME Owned, WindowsStep
  PROVE  Owned'
<1>1. ASSUME GoOn PROVE Owned'
  BY <1>1 DEF GoOn, Owned, Knows
<1>2. ASSUME NEW code, Return(code), at = "capture" PROVE Owned'
  <2>1. held' = {} /\ transport' \in Memory
    BY <1>2, AllGivenBack DEF Return
  <2> QED BY <1>2, <2>1 DEF Return, Quit, Owned, Places, Knows
<1>3. CASE WindowsOpen
  <2>1. CASE at = "options" /\ To("open") /\ UNCHANGED <<held, transport>>
    BY <2>1 DEF To, Owned, Places, Knows
  <2>2. CASE at = "endpoints" /\ To("open_file") /\ UNCHANGED <<held, transport>>
    BY <2>2 DEF To, Owned, Places, Knows
  <2> QED BY <1>3, <2>1, <2>2, OpeningOwns DEF WindowsOpen, open_matching_device
<1>4. CASE OpenLog
  <2>1. CASE Refuse({})
    <3>1. held' = {} /\ transport' \in Memory /\ at' = "exited"
      BY <1>4, <2>1, AllGivenBack DEF OpenLog, Refuse, Quit
    <3> QED BY <3>1 DEF Owned, Places, Knows
  <2>2. CASE held' = held \cup {"file"} /\ To("capture") /\ UNCHANGED transport
    BY <1>4, <2>2 DEF OpenLog, Owned, Places, Knows, To
  <2> QED BY <1>4, <2>1, <2>2 DEF OpenLog
<1>5. CASE ReadUsb
  BY <1>1, <1>2, <1>5 DEF ReadUsb
<1>6. CASE WindowRead
  BY <1>1, <1>2, <1>6 DEF WindowRead, Returned
<1>7. CASE Look
  BY <1>1, <1>2, <1>7 DEF Look
<1>8. ASSUME NEW units, NEW next, Write(units, next), at = "capture" PROVE Owned'
  BY <1>1, <1>2, <1>8 DEF Write
<1>9. CASE MetaRead
  BY <1>1, <1>8, <1>9 DEF MetaRead, Returned
<1>10. CASE MetaStopped
  BY <1>2, <1>10 DEF MetaStopped, Returned
<1>11. CASE NextPacket
  BY <1>1, <1>2, <1>11 DEF NextPacket
<1>12. CASE StorePiece
  BY <1>8, <1>12 DEF StorePiece, Returned
<1>13. CASE PacketEnds
  BY <1>1, <1>13 DEF PacketEnds
<1> QED BY <1>3, <1>4, <1>5, <1>6, <1>7, <1>9, <1>10, <1>11, <1>12, <1>13, Zenon
        DEF WindowsStep

(* What has been stored is in the file, and the device has delivered       *)
(* nothing while nothing is read.                                          *)
LEMMA LoopReports ==
  ASSUME IInv, Reported, CaptureStep
  PROVE  Reported'
<1>1. /\ at = "capture" /\ Capture /\ UNCHANGED <<at, exit_code, invocation, sent, file_closed>>
      /\ raw \in Seq(Nat) /\ output \in Seq(Nat) /\ stats \in Counters
  BY DEF CaptureStep, sending, Reported, IInv, Typed
<1>2. output' \in Seq(Nat) /\ stats'.stored = Len(output')
  <2>1. CASE Store
    <3>1. /\ output' = output \o raw
          /\ stats' = [stats EXCEPT !.stored = @ + Len(raw), !.records = @ + 1]
      BY <2>1 DEF Store
    <3>2. stats'.stored = stats.stored + Len(raw)
      BY <1>1, <3>1 DEF Counters
    <3> QED BY <1>1, <3>1, <3>2 DEF Reported
  <2>2. CASE StoreFails
    <3>1. PICK n \in 0..Len(raw) : /\ output' = output \o SubSeq(raw, 1, n)
                                   /\ stats' = [stats EXCEPT !.stored = @ + n]
      BY <2>2 DEF StoreFails
    <3>2. SubSeq(raw, 1, n) \in Seq(Nat) /\ Len(SubSeq(raw, 1, n)) = n
      BY <1>1, Cut
    <3>3. stats'.stored = stats.stored + n
      BY <1>1, <3>1 DEF Counters
    <3> QED BY <1>1, <3>1, <3>2, <3>3 DEF Reported
  <2>3. CASE output' = output /\ stats'.stored = stats.stored
    BY <1>1, <2>3 DEF Reported
  <2>4. ASSUME ~Store, ~StoreFails PROVE output' = output /\ stats'.stored = stats.stored
    <3>1. CASE NextRecord
      BY <3>1 DEF NextRecord
    <3>2. CASE Read
      BY <3>2, <1>1 DEF Read, Counters
    <3>3. CASE ReadStopped
      BY <3>3, <1>1 DEF ReadStopped, Discard, Counters
    <3>4. CASE MagicRead
      BY <3>4 DEF MagicRead
    <3>5. CASE Slide
      BY <3>5 DEF Slide
    <3>6. CASE WindowEnds
      BY <3>6, <1>1 DEF WindowEnds, Discard, Counters
    <3>7. CASE Decode
      BY <3>7, <1>1 DEF Decode, Counters
    <3> QED BY <1>1, <2>4, <3>1, <3>2, <3>3, <3>4, <3>5, <3>6, <3>7, Zenon DEF Capture
  <2> QED BY <2>1, <2>2, <2>3, <2>4
<1>3. CommandSent' /\ capture_enabled'
  BY <1>1 DEF Reported, CommandSent, send_command, capture_enabled
<1> QED BY <1>1, <1>2, <1>3, Zenon DEF Reported

(* Every step of the storage program keeps to what its status will claim. *)
LEMMA StorageReports ==
  ASSUME IInv, Reported, StorageStep
  PROVE  Reported'
<1>s. ASSUME UNCHANGED <<invocation, sending, options, running, capture>>
      PROVE  UNCHANGED <<sent, stats, output, cause, invocation>> /\ CommandSent' = CommandSent
             /\ Captured' = Captured /\ capture_enabled' = capture_enabled
             /\ send_command' = send_command
  BY <1>s DEF sending, capture, CommandSent, Captured, capture_enabled, send_command
<1>1. CASE ParseOptions
  BY <1>1, <1>s DEF ParseOptions, Reported, To, Quit, Done, capture_enabled
<1>2. CASE Open
  <2>1. UNCHANGED <<invocation, sending, file_closed, options, running, capture>>
    BY <1>2 DEF Open
  <2>2. CASE ListContext
    BY <2>1, <2>2, <1>s DEF ListContext, Reported, To, Quit, Done
  <2>3. CASE ListDevices
    BY <2>1, <2>3, <1>s DEF ListDevices, Reported, To, Quit, Done
  <2>4. ASSUME at \in {"open", "enumerate", "select", "claim", "endpoints"},
               \/ at' = "exited" /\ exit_code' = 1
               \/ at' \in {"enumerate", "select", "claim", "endpoints"} /\ exit_code' = exit_code
               \/ at' = "send" /\ exit_code' = exit_code
               \/ at' = "open_file" /\ exit_code' = exit_code /\ ~send_command
        PROVE  Reported'
    <3>1. at' = "open_file" => CommandSent /\ capture_enabled
      BY <2>4 DEF CommandSent, Reported
    <3> QED BY <2>1, <2>4, <3>1, <1>s DEF Reported
  <2>5. CASE OpenContext
    BY <2>4, <2>5 DEF OpenContext, To, Quit
  <2>6. CASE OpenEnumerate
    BY <2>4, <2>6 DEF OpenEnumerate, To, Refuse, Quit
  <2>7. CASE OpenSelect(invocation.device)
    BY <2>4, <2>7 DEF OpenSelect, To, Refuse, Quit
  <2>8. CASE OpenClaim
    BY <2>4, <2>8 DEF OpenClaim, To, Refuse, Quit
  <2>9. CASE OpenEndpoints(IF send_command THEN "send" ELSE "open_file")
    BY <2>4, <2>9 DEF OpenEndpoints, To, Refuse, Quit
  <2> QED BY <1>2, <2>2, <2>3, <2>5, <2>6, <2>7, <2>8, <2>9 DEF Open
<1>3. CASE Transfer
  <2>1. /\ at = "send" /\ sent < Command
        /\ UNCHANGED <<usb, invocation, file_closed, options, running, capture>>
        /\ sent' \in 0..Command
        /\ \/ at' = "send" /\ exit_code' = exit_code
           \/ at' = "cleanup" /\ exit_code' = 1
    BY <1>3, StorageAssumption DEF Transfer, To, Fail, Reported
  <2>2. UNCHANGED <<stats, output, cause, invocation>> /\ Captured' = Captured
        /\ capture_enabled' = capture_enabled /\ send_command' = send_command
    BY <2>1 DEF capture, Captured, capture_enabled, send_command
  <2>3. stats.received > 0 => ~send_command
    BY <2>1, StorageAssumption DEF Reported, CommandSent
  <2> QED BY <2>1, <2>2, <2>3 DEF Reported, CommandSent
<1>4. CASE TransferEnds
  <2>1. /\ UNCHANGED <<usb, invocation, sending, file_closed, options, running, capture>>
        /\ at = "send" /\ exit_code = 0
        /\ \/ at' = "open_file" /\ exit_code' = 0 /\ sent = Command /\ capture_enabled
           \/ at' = "cleanup" /\ exit_code' = 0 /\ sent = Command /\ ~capture_enabled
           \/ at' = "cleanup" /\ exit_code' = 1
    BY <1>4 DEF TransferEnds, To, Fail, Reported
  <2> QED BY <2>1, <1>s DEF Reported, CommandSent, Captured, Done
<1>5. CASE OpenFile
  <2>1. /\ UNCHANGED <<invocation, sending, file_closed, options, running, capture>>
        /\ at = "open_file" /\ exit_code = 0
        /\ \/ at' = "capture" /\ exit_code' = 0
           \/ at' = "cleanup" /\ exit_code' = 1
    BY <1>5 DEF OpenFile, To, Fail, Reported
  <2> QED BY <2>1, <1>s DEF Reported
<1>6. CASE CaptureStep
  BY <1>6, LoopReports
<1>7. CASE CaptureReturns
  <2>1. /\ UNCHANGED <<invocation, sending, file_closed, options, running, capture>>
        /\ at = "capture" /\ at' = "close_file"
        /\ \/ exit_code' = 1
           \/ exit_code' = exit_code /\ pc = "done" /\ cause \notin {"ERROR", "write_failed"}
    BY <1>7 DEF CaptureReturns, To, Fail
  <2>2. exit_code' = 1 \/ Captured
    BY <2>1 DEF IInv, Typed, Captured
  <2> QED BY <2>1, <2>2, <1>s DEF Reported
<1>8. CASE CloseFile
  <2>1. /\ UNCHANGED <<invocation, sending, options, running, capture>>
        /\ at = "close_file"
        /\ \/ at' \in {"plot", "cleanup"} /\ exit_code' = exit_code /\ file_closed' = TRUE
           \/ at' = "cleanup" /\ exit_code' = 1
    BY <1>8 DEF CloseFile, To, Fail
  <2> QED BY <2>1, <1>s DEF Reported, Done
<1>9. CASE Plot
  <2>1. /\ UNCHANGED <<invocation, sending, file_closed, options, running, capture>>
        /\ at = "plot" /\ at' = "cleanup"
        /\ exit_code' \in {exit_code, 1}
    BY <1>9 DEF Plot, To, Fail
  <2> QED BY <2>1, <1>s DEF Reported, Done
<1>10. CASE Cleanup
  <2>1. /\ UNCHANGED <<invocation, sending, file_closed, options, running, capture>>
        /\ at = "cleanup" /\ at' = "exited" /\ exit_code' = exit_code
    BY <1>10 DEF Cleanup, Quit
  <2> QED BY <2>1, <1>s DEF Reported, Done
<1> QED BY <1>1, <1>2, <1>3, <1>4, <1>5, <1>6, <1>7, <1>8, <1>9, <1>10, Zenon DEF StorageStep

-----------------------------------------------------------------------------
(* A signal, and a step of the program whose capture is not running, leave *)
(* the loop alone.                                                         *)
LEMMA LoopStays ==
  ASSUME IInv, running' \in BOOLEAN, UNCHANGED <<input, capture>>
  PROVE  IInv'
  BY DEF IInv, Typed, InHand, Untruncated, Balance, Moved, Arrived, EndCount, capture, source

LEMMA ToolsNext == ToolsInv /\ [ToolsStep \/ ToolsSignal]_ToolsVars => ToolsInv'
<1> SUFFICES ASSUME ToolsInv, [ToolsStep \/ ToolsSignal]_ToolsVars PROVE ToolsInv'
  OBVIOUS
<1>0. IInv /\ Owned /\ (program = "sniffer_storage" => Reported) /\ running \in BOOLEAN
  BY DEF ToolsInv, IInv, Typed
<1>1. CASE program = "sniffer_storage" /\ StorageStep /\ UNCHANGED <<program, windows>>
  <2>1. Owned' /\ Reported'
    BY <1>0, <1>1, StorageOwns, StorageReports
  <2>2. IInv'
    <3>1. CASE CaptureStep
      BY <1>0, <3>1, NextIInv DEF CaptureStep, Next
    <3>2. CASE ~CaptureStep
      <4>1. UNCHANGED <<options, running, capture>>
        BY <1>1, <3>2 DEF StorageStep, ParseOptions, Open, Transfer, TransferEnds, OpenFile,
                          CaptureReturns, CloseFile, Plot, Cleanup
      <4> QED BY <1>0, <4>1, LoopStays DEF options
    <3> QED BY <3>1, <3>2
  <2> QED BY <2>1, <2>2 DEF ToolsInv
<1>2. CASE program = "ground_control_windows" /\ WindowsStep /\ UNCHANGED <<program, storage>>
  <2>1. UNCHANGED <<input, running, capture>>
    <3>1. UNCHANGED <<input, running>>
      BY <1>2 DEF WindowsStep, WindowsOpen, OpenLog, ReadUsb, WindowRead, Look, MetaRead,
                  MetaStopped, NextPacket, StorePiece, PacketEnds, device
    <3> QED BY <1>2, <3>1 DEF storage
  <2>2. IInv'
    BY <1>0, <2>1, LoopStays
  <2>3. Owned' /\ program' # "sniffer_storage"
    BY <1>0, <1>2, WindowsOwns
  <2> QED BY <2>2, <2>3 DEF ToolsInv
<1>3. CASE program = "sniffer_storage" /\ StorageSignal /\ UNCHANGED <<program, windows>>
  <2>1. /\ UNCHANGED <<at, exit_code, held, transport, invocation, sent, file_closed>>
        /\ UNCHANGED <<input, capture>> /\ running' = FALSE
    BY <1>3 DEF StorageSignal, handle_signal, usb, sending, options, capture
  <2>2. IInv'
    BY <1>0, <2>1, LoopStays
  <2>3. Owned'
    BY <1>0, <2>1 DEF Owned, Knows
  <2>4. Reported'
    BY <1>0, <1>3, <2>1 DEF Reported, CommandSent, Captured, Done, send_command, capture_enabled,
                            capture
  <2> QED BY <2>2, <2>3, <2>4 DEF ToolsInv
<1>4. CASE program = "ground_control_windows" /\ handle_sigint /\ UNCHANGED <<program, storage>>
  <2>1. UNCHANGED <<at, held, transport, input, capture>> /\ running' = FALSE
    BY <1>4 DEF handle_sigint, GoOn, storage
  <2>2. IInv'
    BY <1>0, <2>1, LoopStays
  <2>3. Owned' /\ program' # "sniffer_storage"
    BY <1>0, <1>4, <2>1 DEF Owned, Knows
  <2> QED BY <2>2, <2>3 DEF ToolsInv
<1>5. CASE UNCHANGED ToolsVars
  <2>1. /\ UNCHANGED <<program, at, exit_code, held, transport, invocation, sent, file_closed>>
        /\ UNCHANGED <<input, running, capture>>
    BY <1>5 DEF ToolsVars, storage, sending
  <2>2. IInv'
    BY <1>0, <2>1, LoopStays
  <2>3. Owned'
    BY <1>0, <2>1 DEF Owned, Knows
  <2>4. program' = "sniffer_storage" => Reported'
    BY <1>0, <2>1 DEF Reported, CommandSent, Captured, Done, send_command, capture_enabled, capture
  <2> QED BY <2>2, <2>3, <2>4 DEF ToolsInv
<1> QED BY <1>1, <1>2, <1>3, <1>4, <1>5 DEF ToolsStep, ToolsSignal

-----------------------------------------------------------------------------
(* The theorems about both programs                                        *)

(* Whatever step of either program fails and wherever a signal comes: what *)
(* libusb and stdio hold is given back before the program ends, and the    *)
(* device is used with its interface claimed only (NothingLeaked).         *)
THEOREM NothingStaysOpen == ToolsSpec => []NothingLeaked
  BY ToolsStart, ToolsNext, ToolsInvImplies, PTL DEF ToolsSpec

(* For every invocation, length of the command and cut into transfers: the *)
(* storage program captures behind a whole command only, and status 0      *)
(* means that everything it read is in a file that was closed              *)
(* (SuccessMeansStored).                                                   *)
THEOREM StatusIsTrue == ToolsSpec => []SuccessMeansStored
  BY ToolsStart, ToolsNext, ToolsInvImplies, PTL DEF ToolsSpec

(* The account of the loop also holds with the program around it, which    *)
(* opens, sends, and may be refused.                                       *)
THEOREM AccountWithinProgram == ToolsSpec => [](CaptureTypeOK /\ BytesAccounted)
  BY ToolsStart, ToolsNext, ToolsInvImplies, PTL DEF ToolsSpec

-----------------------------------------------------------------------------
(* The parser reads what its recursion says.                               *)
Parse(data) ==
  CHOOSE parse : parse = [offset \in 0..Len(data) |-> ParseFrom(parse, data, offset)]

(* What is said of records that are whole                                  *)
Doubted == {"duplicate_record", "timestamp_high_bits"}

LEMMA DoubtsAreDoubted ==
  ASSUME NEW record, NEW later
  PROVE  Doubts(record, later) \subseteq Doubted
  BY DEF Doubts, Doubted

LEMMA ParserParses == \A data : parse_binary(data) = Parse(data)[0]
  BY DEF parse_binary, Parse

(* The first magic from an offset on is one of those there are.            *)
LEMMA FirstFound ==
  ASSUME NEW data \in Seq(Nat), NEW from \in Nat, Found(data, from) # {}
  PROVE  First(Found(data, from)) \in from..Len(data)
<1> DEFINE S == Found(data, from)
<1>1. S \in SUBSET Nat /\ S \subseteq from..Len(data)
  BY DEF Found
<1>2. \E o \in S : \A p \in S : o <= p
  BY <1>1, LeastNumber, Zenon
<1>3. First(S) \in S
  BY <1>2, Zenon DEF First
<1> QED BY <1>1, <1>3

(* What the parser does at an offset, by what it finds there               *)
Resync(f, data, offset, from) ==
  IF Found(data, from) = {} THEN Stop(offset) ELSE f[First(Found(data, from))]

EndOf(data, offset) == offset + META_SIZE + data[offset + LENGTH]

RecordAt(data, offset) ==
  /\ offset + META_SIZE <= Len(data)
  /\ MagicAt(data, offset)
  /\ data[offset + LENGTH] <= MAX_MESSAGE_SIZE
  /\ EndOf(data, offset) <= Len(data)

Taken(f, data, offset) ==
  LET record == SubSeq(data, offset + 1, EndOf(data, offset))
      behind == f[EndOf(data, offset)]
  IN [behind EXCEPT !.records = <<record>> \o @,
                    !.errors  = @ \cup Doubts(record, behind.records)]

LEMMA ParseChain ==
  ASSUME NEW data \in Seq(Nat), NEW o \in 0..Len(data), NEW f
  PROVE  ParseFrom(f, data, o) =
           IF o = Len(data) THEN Stop(o)
           ELSE IF Len(data) - o < META_SIZE THEN WithError("truncated_meta", Stop(o))
           ELSE IF ~MagicAt(data, o)
             THEN WithError("magic_mismatch", Resync(f, data, o, o + 1))
           ELSE IF data[o + LENGTH] > MAX_MESSAGE_SIZE
             THEN WithError("invalid_length", Resync(f, data, o, o + 1))
           ELSE IF EndOf(data, o) > Len(data)
             THEN WithError("truncated_payload", Resync(f, data, o, o + META_SIZE))
           ELSE Taken(f, data, o)
<1>0. Len(data) \in Nat /\ o \in Nat /\ META_SIZE = 4 /\ LENGTH = 3
  BY Sizes
<1>1. CASE o = Len(data)
  BY <1>0, <1>1 DEF ParseFrom
<1>2. CASE o < Len(data) /\ Len(data) - o < META_SIZE
  BY <1>0, <1>2 DEF ParseFrom
<1>3. CASE Len(data) - o >= META_SIZE
  <2>1. ~(o = Len(data)) /\ ~(Len(data) - o < META_SIZE)
    BY <1>0, <1>3
  <2> QED BY <1>3, <2>1 DEF ParseFrom, Resync, Taken, EndOf
<1> QED BY <1>0, <1>1, <1>2, <1>3

LEMMA ParseCases ==
  ASSUME NEW data \in Seq(Nat), NEW o \in 0..Len(data), NEW f
  PROVE  \/ o = Len(data) /\ ParseFrom(f, data, o) = Stop(o)
         \/ /\ o < Len(data) /\ ~RecordAt(data, o)
            /\ \/ ParseFrom(f, data, o) = WithError("truncated_meta", Stop(o))
               \/ \E kind \in {"magic_mismatch", "invalid_length"} :
                    ParseFrom(f, data, o) = WithError(kind, Resync(f, data, o, o + 1))
               \/ ParseFrom(f, data, o)
                     = WithError("truncated_payload", Resync(f, data, o, o + META_SIZE))
         \/ o < Len(data) /\ RecordAt(data, o) /\ ParseFrom(f, data, o) = Taken(f, data, o)
<1> DEFINE e == EndOf(data, o)
           x == ParseFrom(f, data, o)
<1>0. Len(data) \in Nat /\ o \in Nat /\ META_SIZE = 4 /\ LENGTH = 3 /\ MAX_MESSAGE_SIZE \in Nat
  BY Sizes, BinaryLogAssumption
<1>1. CASE o = Len(data)
  BY <1>1, ParseChain
<1>2. CASE o # Len(data) /\ Len(data) - o < META_SIZE
  <2>1. o < Len(data) /\ ~(o + META_SIZE <= Len(data))
    BY <1>0, <1>2
  <2> QED BY <1>2, <2>1, ParseChain, Zenon DEF RecordAt
<1>3. CASE o # Len(data) /\ ~(Len(data) - o < META_SIZE)
  <2>1. /\ data[o + LENGTH] \in Nat /\ o < Len(data)
        /\ o + META_SIZE <= Len(data) /\ e \in Nat
    BY <1>0, <1>3 DEF EndOf
  <2>2. x = IF ~MagicAt(data, o)
              THEN WithError("magic_mismatch", Resync(f, data, o, o + 1))
            ELSE IF data[o + LENGTH] > MAX_MESSAGE_SIZE
              THEN WithError("invalid_length", Resync(f, data, o, o + 1))
            ELSE IF e > Len(data)
              THEN WithError("truncated_payload", Resync(f, data, o, o + META_SIZE))
            ELSE Taken(f, data, o)
    BY <1>3, ParseChain, Zenon
  <2>3. /\ ~(data[o + LENGTH] > MAX_MESSAGE_SIZE) => data[o + LENGTH] <= MAX_MESSAGE_SIZE
        /\ data[o + LENGTH] > MAX_MESSAGE_SIZE => ~(data[o + LENGTH] <= MAX_MESSAGE_SIZE)
        /\ ~(e > Len(data)) => e <= Len(data)
        /\ e > Len(data) => ~(e <= Len(data))
    BY <1>0, <2>1
  <2> QED BY <2>1, <2>2, <2>3, Zenon DEF RecordAt
<1> QED BY <1>1, <1>2, <1>3, Zenon

(* It looks only at what parse tells of later offsets.                     *)
LEMMA ParseLooksAhead ==
  ASSUME NEW data \in Seq(Nat), NEW o \in 0..Len(data), NEW f, NEW g,
         \A p \in (o + 1)..Len(data) : f[p] = g[p]
  PROVE  ParseFrom(f, data, o) = ParseFrom(g, data, o)
<1>0. Len(data) \in Nat /\ o \in Nat /\ META_SIZE = 4 /\ LENGTH = 3 /\ MAX_MESSAGE_SIZE \in Nat
  BY Sizes, BinaryLogAssumption
<1>1. ASSUME NEW from \in {o + 1, o + META_SIZE}
      PROVE  Resync(f, data, o, from) = Resync(g, data, o, from)
  <2>1. from \in Nat /\ from >= o + 1
    BY <1>0
  <2>2. CASE Found(data, from) # {}
    <3> DEFINE p == First(Found(data, from))
    <3>1. p \in from..Len(data)
      BY <2>1, <2>2, FirstFound, Zenon
    <3> HIDE DEF p
    <3>2. p \in (o + 1)..Len(data)
      BY <1>0, <2>1, <3>1
    <3> QED BY <2>2, <3>2, Zenon DEF Resync, p
  <2> QED BY <2>2, Zenon DEF Resync
<1>2. CASE o = Len(data)
  BY <1>2, ParseChain, Zenon
<1>3. CASE o # Len(data) /\ Len(data) - o < META_SIZE
  BY <1>3, ParseChain, Zenon
<1>4. CASE o # Len(data) /\ ~(Len(data) - o < META_SIZE)
  <2> DEFINE e == EndOf(data, o)
  <2>1. data[o + LENGTH] \in Nat /\ e \in Nat /\ e >= o + 1
    BY <1>0, <1>4 DEF EndOf
  <2>2. CASE ~(e > Len(data))
    <3>1. e \in (o + 1)..Len(data)
      BY <1>0, <2>1, <2>2
    <3>2. Taken(f, data, o) = Taken(g, data, o)
      BY <3>1, Zenon DEF Taken
    <3> QED BY <1>1, <1>4, <3>2, ParseChain, Zenon
  <2>3. CASE e > Len(data)
    BY <1>1, <1>4, <2>3, ParseChain, Zenon
  <2> QED BY <2>2, <2>3, Zenon
<1> QED BY <1>2, <1>3, <1>4, Zenon


(* There is a function that does so, built from the end of the data on:    *)
(* the recursion of parse_binary is well defined.                          *)
LEMMA ParserDefined ==
  ASSUME NEW data \in Seq(Nat)
  PROVE  Parse(data) = [o \in 0..Len(data) |-> ParseFrom(Parse(data), data, o)]
<1> DEFINE L == Len(data)
           Solves(g, m) == \A o \in (L - m)..L : g[o] = ParseFrom(g, data, o)
           S == {m \in 0..L : ~ \E g : Solves(g, m)}
<1>0. L \in Nat /\ S \in SUBSET Nat
  OBVIOUS
<1>1. S = {}
  <2> SUFFICES ASSUME S # {} PROVE FALSE
    OBVIOUS
  <2>1. PICK m \in S : \A k \in S : m <= k
    BY <1>0, LeastNumber, Zenon
  <2>2. m \in 0..L /\ m \in Nat /\ ~ \E g : Solves(g, m)
    BY <2>1
  <2>3. CASE m = 0
    <3> DEFINE g == [o \in 0..L |-> Stop(L)]
    <3>0. L \in 0..L
      BY <1>0
    <3>1. ParseFrom(g, data, L) = Stop(L) /\ g[L] = Stop(L)
      BY <3>0, ParseChain, Zenon
    <3>2. \A o \in (L - m)..L : o = L
      BY <1>0, <2>3
    <3>3. Solves(g, m)
      BY <3>1, <3>2, Zenon
    <3> QED BY <2>2, <3>3, Zenon
  <2>4. CASE m # 0
    <3>1. m - 1 \in 0..L /\ ~(m <= m - 1) /\ L - m \in 0..L
      BY <1>0, <2>2, <2>4
    <3>2. PICK g : Solves(g, m - 1)
      BY <2>1, <3>1, Zenon
    <3> DEFINE h == [o \in 0..L |-> IF o = L - m THEN ParseFrom(g, data, o) ELSE g[o]]
    <3>3. \A o \in (L - m)..L :
            /\ o \in 0..L
            /\ \A p \in (o + 1)..L : p \in 0..L /\ p # L - m
            /\ o # L - m => o \in (L - (m - 1))..L
      BY <1>0, <2>2, <2>4
    <3>4. ASSUME NEW o \in (L - m)..L PROVE h[o] = ParseFrom(h, data, o)
      <4>1. \A p \in (o + 1)..L : h[p] = g[p]
        BY <3>3, Zenon
      <4>2. ParseFrom(h, data, o) = ParseFrom(g, data, o)
        BY <3>3, <4>1, ParseLooksAhead, Zenon
      <4>3. h[o] = ParseFrom(g, data, o)
        BY <3>2, <3>3, Zenon
      <4> QED BY <4>2, <4>3, Zenon
    <3>5. Solves(h, m)
      BY <3>4, Zenon
    <3> QED BY <2>2, <3>5, Zenon
  <2> QED BY <2>3, <2>4, Zenon
<1>2. PICK g : Solves(g, L)
  <2>1. L \in 0..L /\ L \notin S
    BY <1>0, <1>1
  <2> QED BY <2>1, Zenon
<1> DEFINE f == [o \in 0..L |-> g[o]]
<1>3. ASSUME NEW o \in 0..L PROVE f[o] = ParseFrom(f, data, o)
  <2>1. o \in (L - L)..L /\ \A p \in (o + 1)..L : p \in 0..L
    BY <1>0
  <2>2. \A p \in (o + 1)..L : f[p] = g[p]
    BY <2>1, Zenon
  <2>3. ParseFrom(f, data, o) = ParseFrom(g, data, o)
    BY <2>2, ParseLooksAhead, Zenon
  <2>4. f[o] = ParseFrom(g, data, o)
    BY <1>2, <2>1, Zenon
  <2> QED BY <2>3, <2>4, Zenon
<1>4. f = [o \in 0..L |-> ParseFrom(f, data, o)]
  BY <1>3, Zenon
<1> HIDE DEF f, L
<1>5. \E parse : parse = [o \in 0..L |-> ParseFrom(parse, data, o)]
  BY <1>4, Zenon
<1> QED BY <1>5, Zenon DEF Parse, L

LEMMA ParserStep ==
  ASSUME NEW data \in Seq(Nat), NEW o \in 0..Len(data)
  PROVE  Parse(data)[o] = ParseFrom(Parse(data), data, o)
  BY ParserDefined, Zenon

(* What is read is a sequence of records, the kinds of errors, an offset.  *)
Errors == Doubted
            \cup {"truncated_meta", "truncated_payload", "magic_mismatch", "invalid_length"}
Parsed == [records : Seq(Seq(Nat)), errors : SUBSET Errors, consumed : Nat]

LEMMA ParserReads ==
  ASSUME NEW data \in Seq(Nat)
  PROVE  \A o \in 0..Len(data) : Parse(data)[o] \in Parsed
<1> DEFINE L == Len(data)
           P == Parse(data)
           S == {m \in 0..L : P[L - m] \notin Parsed}
<1>0. L \in Nat /\ S \in SUBSET Nat
  OBVIOUS
<1>1. ASSUME NEW offset \in Nat PROVE Stop(offset) \in Parsed
  BY DEF Stop, Parsed
<1>2. ASSUME NEW q \in Parsed, NEW kind \in Errors PROVE WithError(kind, q) \in Parsed
  <2>1. q.errors \in SUBSET Errors
    BY DEF Parsed
  <2>2. q.errors \cup {kind} \in SUBSET Errors
    BY <2>1
  <2>3. WithError(kind, q) = [q EXCEPT !.errors = q.errors \cup {kind}]
    BY DEF WithError
  <2> QED BY <2>2, <2>3 DEF Parsed
<1>3. S = {}
  <2> SUFFICES ASSUME S # {} PROVE FALSE
    OBVIOUS
  <2>1. PICK m \in S : \A k \in S : m <= k
    BY <1>0, LeastNumber, Zenon
  <2> DEFINE o == L - m
  <2>2. m \in 0..L /\ P[o] \notin Parsed /\ o \in 0..L
    BY <1>0, <2>1
  <2>3. ASSUME NEW p \in (o + 1)..L PROVE P[p] \in Parsed
    <3>1. L - p \in 0..L /\ ~(m <= L - p) /\ L - (L - p) = p
      BY <1>0, <2>2
    <3>2. L - p \notin S
      BY <2>1, <3>1, Zenon
    <3> QED BY <3>1, <3>2, Zenon
  <2> HIDE DEF o, P, S
  <2>4. ASSUME NEW from \in {o + 1, o + META_SIZE} PROVE Resync(P, data, o, from) \in Parsed
    <3>1. from \in Nat /\ from >= o + 1 /\ o \in Nat
      BY <2>2, Sizes
    <3>2. CASE Found(data, from) # {}
      <4>1. First(Found(data, from)) \in from..L
        BY <3>1, <3>2, FirstFound, Zenon
      <4>2. First(Found(data, from)) \in (o + 1)..L
        BY <1>0, <2>2, <3>1, <4>1
      <4> QED BY <2>3, <3>2, <4>2, Zenon DEF Resync
    <3> QED BY <1>1, <3>1, <3>2, Zenon DEF Resync
  <2>5. ASSUME RecordAt(data, o), o < L PROVE Taken(P, data, o) \in Parsed
    <3>1. o + META_SIZE <= L /\ EndOf(data, o) <= L /\ META_SIZE = 4 /\ LENGTH = 3
      BY <2>5, Sizes DEF RecordAt
    <3>2. EndOf(data, o) \in (o + 1)..L /\ o \in Nat
      BY <1>0, <2>2, <3>1 DEF EndOf
    <3> DEFINE e == EndOf(data, o)
               q == P[e]
               record == SubSeq(data, o + 1, e)
               r == <<record>>
               D == Doubts(record, q.records)
    <3>3. q \in Parsed
      BY <2>3, <3>2, Zenon
    <3>4. record \in Seq(Nat)
      BY <3>2
    <3>9. Taken(P, data, o) = [q EXCEPT !.records = r \o q.records, !.errors = q.errors \cup D]
      BY DEF Taken
    <3>10. D \in SUBSET Errors
      <4>1. D \subseteq Doubted
        BY DoubtsAreDoubted, Zenon
      <4> QED BY <4>1, Zenon DEF Errors
    <3> HIDE DEF q, e, record, D
    <3>5. q.errors \in SUBSET Errors /\ q.records \in Seq(Seq(Nat)) /\ q.consumed \in Nat
      BY <3>3 DEF Parsed
    <3>6. r \o q.records \in Seq(Seq(Nat)) /\ q.errors \cup D \in SUBSET Errors
      <4>1. r \o q.records \in Seq(Seq(Nat))
        BY <3>4, <3>5
      <4>2. q.errors \cup D \in SUBSET Errors
        BY <3>5, <3>10
      <4> QED BY <4>1, <4>2
    <3>7. [q EXCEPT !.records = r \o q.records, !.errors = q.errors \cup D] \in Parsed
      BY <3>3, <3>6 DEF Parsed
    <3> QED BY <3>7, <3>9, Zenon
  <2>6. P[o] = ParseFrom(P, data, o)
    BY <2>2, ParserStep, Zenon DEF P
  <2>7. o \in Nat /\ Stop(o) \in Parsed
    BY <1>1, <2>2
  <2>8. \A kind \in Errors : WithError(kind, Stop(o)) \in Parsed
    BY <1>2, <2>7, Zenon
  <2>9. \A kind \in Errors, from \in {o + 1, o + META_SIZE} :
          WithError(kind, Resync(P, data, o, from)) \in Parsed
    BY <1>2, <2>4, Zenon
  <2>10. /\ "truncated_meta" \in Errors /\ "truncated_payload" \in Errors
         /\ \A kind \in {"magic_mismatch", "invalid_length"} : kind \in Errors
    BY Zenon DEF Errors
  <2>11. ParseFrom(P, data, o) \in Parsed
    <3>1. o + 1 \in {o + 1, o + META_SIZE} /\ o + META_SIZE \in {o + 1, o + META_SIZE}
      BY Zenon
    <3> QED BY <3>1, <2>2, <2>5, <2>7, <2>8, <2>9, <2>10, ParseCases, Zenon
  <2> QED BY <2>2, <2>6, <2>11, Zenon
<1>4. ASSUME NEW o \in 0..L PROVE P[o] \in Parsed
  <2>1. L - o \in 0..L /\ L - (L - o) = o
    BY <1>0
  <2>2. L - o \notin S
    BY <1>3
  <2> QED BY <2>1, <2>2, Zenon
<1> QED BY <1>4, Zenon

(* A record is taken, and counts one more than what is read behind it.     *)
LEMMA RecordTaken ==
  ASSUME NEW data \in Seq(Nat), NEW o \in Nat, RecordAt(data, o)
  PROVE  /\ EndOf(data, o) \in (o + 1)..Len(data)
         /\ Len(Parse(data)[o].records) = Len(Parse(data)[EndOf(data, o)].records) + 1
         /\ Parse(data)[o].errors \ Doubted = Parse(data)[EndOf(data, o)].errors \ Doubted
         /\ Parse(data)[o].consumed = Parse(data)[EndOf(data, o)].consumed
<1> DEFINE P == Parse(data)
           e == EndOf(data, o)
<1>0. Len(data) \in Nat /\ META_SIZE = 4 /\ LENGTH = 3 /\ MAX_MESSAGE_SIZE \in Nat
  BY Sizes, BinaryLogAssumption
<1>1. /\ o + 4 <= Len(data) /\ MagicAt(data, o) /\ e <= Len(data)
      /\ data[o + LENGTH] <= MAX_MESSAGE_SIZE
  BY <1>0 DEF RecordAt
<1>2. o \in 0..Len(data) /\ e \in (o + 1)..Len(data) /\ e \in 0..Len(data) /\ data[o + LENGTH] \in Nat
  BY <1>0, <1>1 DEF EndOf
<1>3. /\ ~(o = Len(data)) /\ ~(Len(data) - o < META_SIZE)
      /\ ~(data[o + LENGTH] > MAX_MESSAGE_SIZE) /\ ~(e > Len(data))
  BY <1>0, <1>1, <1>2
<1>4. P[o] = Taken(P, data, o)
  BY <1>1, <1>2, <1>3, ParserStep, ParseChain, Zenon
<1> DEFINE q == P[e]
           record == SubSeq(data, o + 1, e)
           r == <<record>>
           D == Doubts(record, q.records)
<1>5. P[o] = [q EXCEPT !.records = r \o q.records, !.errors = q.errors \cup D]
  BY <1>4 DEF Taken
<1>11. D \subseteq Doubted
  BY DoubtsAreDoubted, Zenon
<1>6. q \in Parsed
  BY <1>2, ParserReads, Zenon
<1>7. r \in Seq(Seq(Nat)) /\ Len(r) = 1
  <2>1. record \in Seq(Nat)
    BY <1>2
  <2> HIDE DEF record
  <2> QED BY <2>1
<1> HIDE DEF q, r, e, P, record, D
<1>8. q.records \in Seq(Seq(Nat))
  BY <1>6 DEF Parsed
<1>9. Len(r \o q.records) = Len(q.records) + 1
  <2>1. Len(r \o q.records) = Len(r) + Len(q.records)
    BY <1>7, <1>8, ConcatProperties, Zenon
  <2>2. Len(q.records) \in Nat
    BY <1>8
  <2> QED BY <1>7, <2>1, <2>2
<1>10. /\ P[o].records = r \o q.records /\ P[o].errors = q.errors \cup D
       /\ P[o].consumed = q.consumed
  BY <1>5, <1>6 DEF Parsed
<1>12. P[o].errors \ Doubted = q.errors \ Doubted
  BY <1>10, <1>11
<1> QED BY <1>2, <1>9, <1>10, <1>12, Zenon DEF q, e, P

(* The data begin with so many records, which end at an offset.            *)
Linked(data, b, n) ==
  \A k \in 0..(n - 1) : RecordAt(data, b[k]) /\ b[k + 1] = EndOf(data, b[k])

Chain(data, n, m) ==
  \E b \in [0..n -> 0..m] : b[0] = 0 /\ b[n] = m /\ Linked(data, b, n)

(* All of them are read, and then whatever is behind them.                 *)
LEMMA ChainParsed ==
  ASSUME NEW data \in Seq(Nat), NEW n \in Nat, NEW m \in 0..Len(data), Chain(data, n, m)
  PROVE  /\ parse_binary(data) \in Parsed /\ Parse(data)[m] \in Parsed
         /\ Len(parse_binary(data).records) = Len(Parse(data)[m].records) + n
         /\ parse_binary(data).errors \ Doubted = Parse(data)[m].errors \ Doubted
         /\ parse_binary(data).consumed = Parse(data)[m].consumed
<1> DEFINE P == Parse(data)
           Reads(o, k) == /\ Len(P[o].records) = Len(P[m].records) + k
                          /\ P[o].errors \ Doubted = P[m].errors \ Doubted
                          /\ P[o].consumed = P[m].consumed
<1>1. PICK b \in [0..n -> 0..m] : b[0] = 0 /\ b[n] = m /\ Linked(data, b, n)
  BY DEF Chain
<1> DEFINE S == {j \in 0..n : ~Reads(b[n - j], j)}
<1>0. Len(data) \in Nat /\ S \in SUBSET Nat /\ 0 \in 0..Len(data) /\ m \in Nat
  OBVIOUS
<1>2. P[m] \in Parsed /\ P[0] \in Parsed
  BY <1>0, ParserReads, Zenon
<1>3. Len(P[m].records) \in Nat
  <2>1. P[m].records \in Seq(Seq(Nat))
    BY <1>2 DEF Parsed
  <2> QED BY <2>1
<1>4. S = {}
  <2> SUFFICES ASSUME S # {} PROVE FALSE
    OBVIOUS
  <2>1. PICK j \in S : \A i \in S : j <= i
    BY <1>0, LeastNumber, Zenon
  <2>2. j \in 0..n /\ ~Reads(b[n - j], j)
    BY <2>1
  <2>3. CASE j = 0
    <3>1. n - j = n /\ Len(P[m].records) = Len(P[m].records) + 0
      BY <1>3, <2>3
    <3>2. Reads(m, 0)
      BY <3>1, Zenon
    <3> QED BY <1>1, <2>2, <2>3, <3>1, <3>2, Zenon
  <2>4. CASE j # 0
    <3> DEFINE k == n - j
    <3>1. /\ j - 1 \in 0..n /\ ~(j <= j - 1) /\ n - (j - 1) = k + 1
          /\ k \in 0..(n - 1) /\ k \in 0..n
      BY <2>2, <2>4
    <3>2. Reads(b[k + 1], j - 1)
      <4>1. j - 1 \notin S
        BY <2>1, <3>1, Zenon
      <4> QED BY <3>1, <4>1, Zenon
    <3>3. RecordAt(data, b[k]) /\ b[k + 1] = EndOf(data, b[k]) /\ b[k] \in Nat
      <4>1. RecordAt(data, b[k]) /\ b[k + 1] = EndOf(data, b[k]) /\ b[k] \in 0..m
        BY <1>1, <3>1, Zenon DEF Linked
      <4> QED BY <1>0, <4>1
    <3>4. /\ Len(P[b[k]].records) = Len(P[b[k + 1]].records) + 1
          /\ P[b[k]].errors \ Doubted = P[b[k + 1]].errors \ Doubted
          /\ P[b[k]].consumed = P[b[k + 1]].consumed
      BY <3>3, RecordTaken, Zenon
    <3>5. Len(P[b[k]].records) = Len(P[m].records) + (j - 1) + 1
      BY <3>2, <3>4, Zenon
    <3>6. Len(P[b[k]].records) = Len(P[m].records) + j
      <4>1. \A x \in Nat, y \in Nat : x + (y - 1) + 1 = x + y
        OBVIOUS
      <4>2. j \in Nat
        BY <2>2
      <4> QED BY <1>3, <3>5, <4>1, <4>2, Zenon
    <3> QED BY <2>2, <3>2, <3>4, <3>6, Zenon
  <2> QED BY <2>3, <2>4, Zenon
<1>5. Reads(0, n)
  <2>1. n \in 0..n /\ n - n = 0
    OBVIOUS
  <2>2. n \notin S
    BY <1>4
  <2> QED BY <1>1, <2>1, <2>2, Zenon
<1> QED BY <1>2, <1>5, ParserParses, Zenon

LEMMA ChainStarts ==
  ASSUME NEW data
  PROVE  Chain(data, 0, 0)
<1> DEFINE b == [k \in 0..0 |-> 0]
<1>1. b \in [0..0 -> 0..0] /\ b[0] = 0 /\ ~ \E k \in 0..(0 - 1) : TRUE
  OBVIOUS
<1>2. Linked(data, b, 0)
  BY <1>1, Zenon DEF Linked
<1> QED BY <1>1, <1>2, Zenon DEF Chain

(* A record at the end of a chain makes it longer.                         *)
LEMMA ChainGrows ==
  ASSUME NEW data \in Seq(Nat), NEW n \in Nat, NEW m \in Nat, Chain(data, n, m),
         RecordAt(data, m)
  PROVE  Chain(data, n + 1, EndOf(data, m))
<1> DEFINE e == EndOf(data, m)
<1>1. PICK b \in [0..n -> 0..m] : b[0] = 0 /\ b[n] = m /\ Linked(data, b, n)
  BY DEF Chain
<1>2. e \in (m + 1)..Len(data) /\ e \in Nat
  <2>1. e \in (m + 1)..Len(data)
    BY RecordTaken, Zenon
  <2> QED BY <2>1
<1> HIDE DEF e
<1> DEFINE c == [k \in 0..(n + 1) |-> IF k = n + 1 THEN e ELSE b[k]]
<1>3. \A k \in 0..n : k \in 0..(n + 1) /\ k # n + 1 /\ b[k] \in 0..e
  BY <1>1, <1>2
<1>4. c \in [0..(n + 1) -> 0..e]
  BY <1>2, <1>3
<1>5. /\ 0 \in 0..n /\ n \in 0..n /\ n + 1 \in 0..(n + 1) /\ (n + 1) - 1 = n
      /\ \A k \in 0..n : k # n => k \in 0..(n - 1) /\ k + 1 \in 0..n
  OBVIOUS
<1>6. \A k \in 0..n : c[k] = b[k]
  BY <1>3, Zenon
<1>7. c[0] = 0 /\ c[n + 1] = e
  BY <1>1, <1>5, <1>6, Zenon
<1> HIDE DEF c
<1>8. ASSUME NEW k \in 0..n PROVE RecordAt(data, c[k]) /\ c[k + 1] = EndOf(data, c[k])
  <2>1. CASE k = n
    BY <1>1, <1>6, <1>7, <2>1, Zenon DEF e
  <2>2. CASE k # n
    BY <1>1, <1>5, <1>6, <2>2, Zenon DEF Linked
  <2> QED BY <2>1, <2>2, Zenon
<1>9. Linked(data, c, n + 1)
  BY <1>5, <1>8, Zenon DEF Linked
<1>10. Chain(data, n + 1, e)
  BY <1>4, <1>7, <1>9, Zenon DEF Chain
<1> QED BY <1>10, Zenon DEF e

(* What is written behind a record leaves it as it is.                     *)
LEMMA RecordStays ==
  ASSUME NEW data \in Seq(Nat), NEW rest \in Seq(Nat), NEW o \in Nat, RecordAt(data, o)
  PROVE  RecordAt(data \o rest, o) /\ EndOf(data \o rest, o) = EndOf(data, o)
<1> DEFINE d == data \o rest
<1>0. META_SIZE = 4 /\ LENGTH = 3 /\ Len(Magic) = 2 /\ MAX_MESSAGE_SIZE \in Nat /\ Len(data) \in Nat
  BY Sizes, BinaryLogAssumption
<1>1. /\ d \in Seq(Nat) /\ Len(d) = Len(data) + Len(rest)
      /\ \A i \in 1..Len(data) : d[i] = data[i]
  OBVIOUS
<1>2. o + 4 <= Len(data) /\ EndOf(data, o) <= Len(data)
  BY <1>0 DEF RecordAt
<1>3. d[o + LENGTH] = data[o + LENGTH]
  BY <1>0, <1>1, <1>2
<1>4. SubSeq(d, o + 1, o + 2) = SubSeq(data, o + 1, o + 2)
  BY <1>1, <1>2, SubSeqOfConcat1
<1>5. EndOf(d, o) = EndOf(data, o)
  BY <1>3, Zenon DEF EndOf
<1>6. Len(d) >= Len(data) /\ Len(d) \in Nat
  BY <1>1
<1>7. MagicAt(d, o)
  BY <1>0, <1>2, <1>4, <1>6 DEF RecordAt, MagicAt
<1>8. EndOf(data, o) \in Nat
  BY <1>0, <1>2 DEF EndOf
<1> HIDE DEF d
<1>9. RecordAt(d, o)
  BY <1>0, <1>2, <1>3, <1>5, <1>6, <1>7, <1>8 DEF RecordAt
<1> QED BY <1>5, <1>9, Zenon DEF d

LEMMA ChainStays ==
  ASSUME NEW data \in Seq(Nat), NEW rest \in Seq(Nat), NEW n \in Nat, NEW m \in Nat,
         Chain(data, n, m)
  PROVE  Chain(data \o rest, n, m)
<1>1. PICK b \in [0..n -> 0..m] : b[0] = 0 /\ b[n] = m /\ Linked(data, b, n)
  BY DEF Chain
<1>2. ASSUME NEW k \in 0..(n - 1)
      PROVE  RecordAt(data \o rest, b[k]) /\ b[k + 1] = EndOf(data \o rest, b[k])
  <2>1. k \in 0..n
    OBVIOUS
  <2>2. b[k] \in Nat
    BY <1>1, <2>1
  <2>3. RecordAt(data, b[k]) /\ b[k + 1] = EndOf(data, b[k])
    BY <1>1, <1>2, Zenon DEF Linked
  <2> QED BY <2>2, <2>3, RecordStays, Zenon
<1>3. Linked(data \o rest, b, n)
  BY <1>2, Zenon DEF Linked
<1> QED BY <1>1, <1>3, Zenon DEF Chain

(* The file is so many records and nothing else.                           *)
Whole(data, n) == Chain(data, n, Len(data))

LEMMA WholeStarts == Whole(<<>>, 0)
<1>1. Len(<<>>) = 0
  OBVIOUS
<1> QED BY <1>1, ChainStarts, Zenon DEF Whole

(* A record, on its own                                                    *)
IsRecord(r) == /\ r \in Seq(Nat)
               /\ MagicAt(r, 0)
               /\ r[LENGTH] <= MAX_MESSAGE_SIZE
               /\ Len(r) = META_SIZE + r[LENGTH]
               /\ META_SIZE <= Len(r)

LEMMA RecordWritten ==
  ASSUME NEW data \in Seq(Nat), NEW r, IsRecord(r)
  PROVE  /\ RecordAt(data \o r, Len(data))
         /\ EndOf(data \o r, Len(data)) = Len(data \o r)
<1> DEFINE d == data \o r
           n == Len(data)
           l == Len(r)
<1>0. META_SIZE = 4 /\ LENGTH = 3 /\ Len(Magic) = 2 /\ MAX_MESSAGE_SIZE \in Nat /\ n \in Nat
  BY Sizes, BinaryLogAssumption
<1>1. r \in Seq(Nat) /\ 4 <= l /\ r[3] <= MAX_MESSAGE_SIZE /\ l = 4 + r[3] /\ r[3] \in Nat /\ l \in Nat
  <2>1. r \in Seq(Nat) /\ 4 <= l /\ r[3] <= MAX_MESSAGE_SIZE /\ l = 4 + r[3]
    BY <1>0 DEF IsRecord
  <2> QED BY <2>1
<1>2. d \in Seq(Nat) /\ Len(d) = n + l
  BY <1>1
<1>3. \A i \in 1..(n + l) : d[i] = IF i <= n THEN data[i] ELSE r[i - n]
  BY <1>1, ConcatProperties, Zenon
<1>4. SubSeq(r, 1, 2) = Magic
  BY <1>0 DEF IsRecord, MagicAt
<1>5. SubSeq(d, n + 1, n + 2) = SubSeq(r, 1, 2)
  <2>1. n + 1 \in n + 1 .. n + l /\ n + 2 \in n + 1 .. n + l
    <3> HIDE DEF n, l
    <3> QED BY <1>0, <1>1
  <2>2. SubSeq(d, n + 1, n + 2) = SubSeq(r, (n + 1) - n, (n + 2) - n)
    BY <1>1, <2>1, SubSeqOfConcat2, Zenon
  <2>3. (n + 1) - n = 1 /\ (n + 2) - n = 2
    BY <1>0
  <2> QED BY <2>2, <2>3, Zenon
<1> HIDE DEF d, n, l
<1>6. d[n + 3] = r[3]
  <2>1. n + 3 \in 1..(n + l) /\ ~(n + 3 <= n) /\ (n + 3) - n = 3
    BY <1>0, <1>1
  <2> QED BY <1>3, <2>1, Zenon
<1>7. EndOf(d, n) = Len(d) /\ d[n + LENGTH] = r[3]
  <2>1. EndOf(d, n) = n + 4 + r[3] /\ d[n + LENGTH] = r[3]
    BY <1>0, <1>6, Zenon DEF EndOf
  <2>2. \A x, y, z \in Nat : z = 4 + x => y + 4 + x = y + z
    OBVIOUS
  <2>3. n + 4 + r[3] = n + l
    BY <1>0, <1>1, <2>2, Zenon
  <2> QED BY <1>2, <2>1, <2>3, Zenon
<1>8. MagicAt(d, n)
  <2>1. n + Len(Magic) = n + 2 /\ SubSeq(d, n + 1, n + 2) = Magic
    BY <1>0, <1>4, <1>5, Zenon
  <2>2. n + 2 <= Len(d)
    BY <1>0, <1>1, <1>2
  <2> QED BY <2>1, <2>2, Zenon DEF MagicAt
<1>9. n + META_SIZE <= Len(d) /\ d[n + LENGTH] <= MAX_MESSAGE_SIZE /\ EndOf(d, n) <= Len(d)
  <2>1. n + 4 <= n + l /\ n + l <= n + l
    BY <1>0, <1>1
  <2> QED BY <1>0, <1>1, <1>2, <1>7, <2>1, Zenon
<1>10. RecordAt(d, n)
  BY <1>8, <1>9 DEF RecordAt
<1> QED BY <1>7, <1>10, Zenon DEF d, n

(* A record behind whole records makes one more of them.                   *)
LEMMA WholeGrows ==
  ASSUME NEW data \in Seq(Nat), NEW n \in Nat, Whole(data, n), NEW r, IsRecord(r)
  PROVE  Whole(data \o r, n + 1)
<1> DEFINE d == data \o r
           m == Len(data)
<1>1. r \in Seq(Nat) /\ m \in Nat
  BY DEF IsRecord
<1>2. d \in Seq(Nat)
  BY <1>1
<1>3. Chain(d, n, m)
  BY <1>1, ChainStays, Zenon DEF Whole
<1>4. RecordAt(d, m) /\ EndOf(d, m) = Len(d)
  BY RecordWritten, Zenon
<1> HIDE DEF d, m
<1>5. Chain(d, n + 1, Len(d))
  BY <1>1, <1>2, <1>3, <1>4, ChainGrows, Zenon
<1> QED BY <1>5, Zenon DEF Whole, d

(* What the analysis reads from whole records, and from them with          *)
(* something behind them                                                   *)
LEMMA WholeRead ==
  ASSUME NEW data \in Seq(Nat), NEW n \in Nat, Whole(data, n)
  PROVE  /\ Len(parse_binary(data).records) = n
         /\ parse_binary(data).errors \subseteq Doubted
         /\ parse_binary(data).consumed = Len(data)
<1> DEFINE m == Len(data)
           q == Parse(data)[m]
           p == parse_binary(data)
<1>1. m \in 0..Len(data)
  OBVIOUS
<1>2. Chain(data, n, m)
  BY Zenon DEF Whole
<1>3. Len(p.records) = Len(q.records) + n /\ p.errors \ Doubted = q.errors \ Doubted
      /\ p.consumed = q.consumed
  BY <1>1, <1>2, ChainParsed, Zenon
<1>4. q = Stop(m)
  BY <1>1, ParserStep, ParseChain, Zenon
<1>5. q.records = <<>> /\ q.errors = {} /\ q.consumed = m
  BY <1>4 DEF Stop
<1>6. Len(<<>>) + n = n
  OBVIOUS
<1> HIDE DEF p, q, m
<1>7. Len(p.records) = n /\ p.consumed = m
  BY <1>3, <1>5, <1>6, Zenon
<1>8. p.errors \subseteq Doubted
  BY <1>3, <1>5
<1> QED BY <1>7, <1>8, Zenon DEF p, m

LEMMA ChainRead ==
  ASSUME NEW data \in Seq(Nat), NEW n \in Nat, NEW m \in 0..Len(data), Chain(data, n, m)
  PROVE  Len(parse_binary(data).records) >= n
<1> DEFINE q == Parse(data)[m]
           p == parse_binary(data)
<1>1. q \in Parsed /\ Len(p.records) = Len(q.records) + n
  BY ChainParsed, Zenon
<1> HIDE DEF p, q
<1>2. q.records \in Seq(Seq(Nat))
  BY <1>1 DEF Parsed
<1>3. Len(q.records) \in Nat
  BY <1>2
<1>4. Len(p.records) >= n
  BY <1>1, <1>3
<1> QED BY <1>4, Zenon DEF p

-----------------------------------------------------------------------------
(* Where a magic is                                                        *)
LEMMA MagicUnits ==
  ASSUME NEW d \in Seq(Nat), NEW o \in Nat
  PROVE  /\ MagicAt(d, o) <=> o + 2 <= Len(d) /\ d[o + 1] = Magic[1] /\ d[o + 2] = Magic[2]
         /\ o = 0 /\ Len(d) = 2 => (MagicAt(d, o) <=> d = Magic)
<1>0. Magic = <<48059, 0>> /\ Len(Magic) = 2 /\ Magic \in Seq(Nat)
  BY Sizes
<1>1. CASE o + 2 <= Len(d)
  <2> DEFINE s == SubSeq(d, o + 1, o + 2)
  <2>1. s \in Seq(Nat) /\ Len(s) = 2 /\ s[1] = d[o + 1] /\ s[2] = d[o + 2]
    <3>1. o + 2 \in Nat /\ o <= o + 2 /\ (o + 2) - o = 2 /\ 1 \in 1..2 /\ 2 \in 1..2
      OBVIOUS
    <3>2. /\ Span(d, o, o + 2) \in Seq(Nat) /\ Len(Span(d, o, o + 2)) = (o + 2) - o
          /\ \A j \in 1..((o + 2) - o) : Span(d, o, o + 2)[j] = d[o + j]
      BY <1>1, <3>1, SpanFacts, Zenon
    <3> QED BY <3>1, <3>2, Zenon DEF Span
  <2> HIDE DEF s
  <2>2. s = Magic <=> s[1] = Magic[1] /\ s[2] = Magic[2]
    <3>1. ASSUME s[1] = Magic[1], s[2] = Magic[2] PROVE s = Magic
      <4>1. \A j \in 1..Len(s) : s[j] = Magic[j]
        BY <1>0, <2>1, <3>1
      <4> QED BY <1>0, <2>1, <4>1, SeqEqual
    <3>2. s = Magic => s[1] = Magic[1] /\ s[2] = Magic[2]
      BY <1>0
    <3> QED BY <3>1, <3>2
  <2>3. MagicAt(d, o) <=> s = Magic
    BY <1>0, <1>1 DEF MagicAt, s
  <2>4. o = 0 /\ Len(d) = 2 => s = d
    <3>1. o = 0 /\ Len(d) = 2 => s = SubSeq(d, 1, Len(d))
      BY DEF s
    <3>2. SubSeq(d, 1, Len(d)) = d
      BY SubSeqFull, Zenon
    <3> QED BY <3>1, <3>2, Zenon
  <2> QED BY <1>1, <2>1, <2>2, <2>3, <2>4
<1>2. CASE ~(o + 2 <= Len(d))
  <2>1. ~MagicAt(d, o)
    BY <1>0, <1>2 DEF MagicAt
  <2>2. ~(o = 0 /\ Len(d) = 2)
    BY <1>2
  <2> QED BY <1>2, <2>1, <2>2
<1> QED BY <1>1, <1>2

LEMMA MagicFirst ==
  ASSUME NEW d \in Seq(Nat)
  PROVE  MagicAt(d, 0) <=> Len(d) >= 2 /\ d[1] = Magic[1] /\ d[2] = Magic[2]
<1> DEFINE o == 0
<1>1. o \in Nat /\ o + 2 = 2 /\ o + 1 = 1
  OBVIOUS
<1> HIDE DEF o
<1>2. MagicAt(d, o) <=> o + 2 <= Len(d) /\ d[o + 1] = Magic[1] /\ d[o + 2] = Magic[2]
  BY <1>1, MagicUnits, Zenon
<1>3. MagicAt(d, o) <=> 2 <= Len(d) /\ d[1] = Magic[1] /\ d[2] = Magic[2]
  BY <1>1, <1>2, Zenon
<1>4. 2 <= Len(d) <=> Len(d) >= 2
  OBVIOUS
<1> QED BY <1>3, <1>4, Zenon DEF o

(* Where the frames begin in the delivery                                  *)
Start(i, k) == Len(i.torn) + Len(Upto(i.frames, k))

LEMMA StartFacts ==
  ASSUME NEW i \in Inputs
  PROVE  /\ Delivery(i) \in Seq(Nat) /\ i.torn \in Seq(Nat) /\ i.frames \in Seq(Seq(Nat))
         /\ Len(i.torn) \in Nat /\ Len(i.frames) \in Nat
         /\ Start(i, 0) = Len(i.torn)
         /\ Start(i, Len(i.frames)) = Len(Delivery(i))
         /\ Delivery(i) = i.torn \o Upto(i.frames, Len(i.frames))
         /\ \A k \in 0..Len(i.frames) : /\ Upto(i.frames, k) \in Seq(Nat)
                                        /\ Start(i, k) \in Len(i.torn)..Len(Delivery(i))
<1> DEFINE N == Len(i.frames)
           x(k) == Upto(i.frames, k)
<1>1. /\ Delivery(i) \in Seq(Nat) /\ i.torn \in Seq(Nat) /\ i.frames \in Seq(Seq(Nat))
  BY InputsAssumption, DeliveryTyped
<1>2. Len(i.torn) \in Nat /\ N \in Nat /\ N \in 0..N /\ 0 \in 0..N
  BY <1>1
<1>3. x(0) = <<>> /\ x(N) = FlattenSeq(i.frames) /\ \A k \in 0..N : x(k) \in Seq(Nat)
  BY <1>1, Flattening, Zenon
<1>4. Delivery(i) = i.torn \o x(N)
  BY <1>3, Zenon DEF Delivery
<1> HIDE DEF x, N
<1>5. Len(Delivery(i)) = Len(i.torn) + Len(x(N)) /\ Len(x(N)) \in Nat
  BY <1>1, <1>2, <1>3, <1>4
<1>6. Start(i, N) = Len(Delivery(i))
  BY <1>5, Zenon DEF Start, x
<1>7. Start(i, 0) = Len(i.torn)
  <2>1. Len(<<>>) = 0 /\ Len(i.torn) + 0 = Len(i.torn)
    BY <1>2
  <2> QED BY <1>3, <2>1, Zenon DEF Start, x
<1>8. ASSUME NEW k \in 0..N PROVE Start(i, k) \in Len(i.torn)..Len(Delivery(i))
  <2>1. k \in Nat /\ k <= N /\ N <= N
    BY <1>2
  <2>2. Len(x(k)) <= Len(x(N))
    BY <1>1, <1>2, <2>1, UptoBegins, Zenon DEF x, N
  <2>3. Len(x(k)) \in Nat /\ Start(i, k) = Len(i.torn) + Len(x(k))
    BY <1>3 DEF Start, x
  <2> QED BY <1>2, <1>5, <2>2, <2>3
<1> QED BY <1>1, <1>2, <1>3, <1>4, <1>6, <1>7, <1>8, Zenon DEF x, N

(* The next frame stands there, and the one after it behind it.            *)
LEMMA FrameThere ==
  ASSUME NEW i \in Inputs, NEW k \in Nat, k < Len(i.frames)
  PROVE  /\ IsFrame(i.frames[k + 1]) /\ k + 1 \in 0..Len(i.frames) /\ k \in 0..Len(i.frames)
         /\ Upto(i.frames, k + 1) = Upto(i.frames, k) \o i.frames[k + 1]
         /\ Start(i, k + 1) = Start(i, k) + Len(i.frames[k + 1])
         /\ Span(Delivery(i), Start(i, k), Start(i, k + 1)) = i.frames[k + 1]
<1> DEFINE N == Len(i.frames)
           x(j) == Upto(i.frames, j)
           f == i.frames[k + 1]
           D == Delivery(i)
           T == Len(i.torn)
<1>0. /\ i.torn \in Seq(Nat) /\ i.frames \in Seq(Seq(Nat)) /\ T \in Nat /\ N \in Nat
      /\ D = i.torn \o x(N) /\ D \in Seq(Nat)
      /\ \A j \in 0..N : x(j) \in Seq(Nat) /\ Start(i, j) \in T..Len(D)
  BY StartFacts, Zenon
<1>1. k + 1 \in 1..N /\ k + 1 \in 0..N /\ k \in 0..N /\ k \in 0..(N - 1) /\ N \in 0..N
  BY <1>0
<1>2. IsFrame(f) /\ f \in Seq(Nat) /\ Len(f) \in Nat
  <2>1. IsFrame(f)
    BY <1>1, InputsAssumption
  <2>2. f \in Seq(Nat)
    BY <2>1 DEF IsFrame
  <2> QED BY <2>1, <2>2
<1>3. x(k + 1) = x(k) \o f
  BY <1>0, <1>1, Flattening, Zenon
<1>4. x(k) \in Seq(Nat) /\ x(k + 1) \in Seq(Nat) /\ x(N) \in Seq(Nat)
  BY <1>0, <1>1, Zenon
<1> DEFINE a == Len(x(k))
           b == Len(x(k + 1))
           c == Len(x(N))
<1>5. a \in Nat /\ b \in Nat /\ c \in Nat /\ b = a + Len(f)
  <2>1. a \in Nat /\ b \in Nat /\ c \in Nat
    BY <1>4
  <2>2. b = a + Len(f)
    BY <1>2, <1>3, <1>4, ConcatProperties, Zenon
  <2> QED BY <2>1, <2>2
<1>6. b <= c /\ Span(x(N), 0, b) = x(k + 1)
  <2>1. k + 1 \in Nat /\ k + 1 <= N /\ N <= N
    BY <1>0
  <2> QED BY <1>0, <2>1, UptoBegins, Zenon
<1>7. Start(i, k) = T + a /\ Start(i, k + 1) = T + b
  BY Zenon DEF Start
<1> HIDE DEF a, b, c, T, x, D, f, N
<1>8. Start(i, k + 1) = Start(i, k) + Len(f)
  BY <1>0, <1>2, <1>5, <1>7
<1>9. Span(D, T + a, T + b) = f
  <2>1. /\ f[0 + 1] = f[0 + 1] /\ Len(D) = T + c
        /\ \A j \in 1..(T + c) : D[j] = IF j <= T THEN i.torn[j] ELSE x(N)[j - T]
    BY <1>0, <1>4, ConcatProperties, Zenon DEF T, c
  <2>2. \A j \in 1..b : x(k + 1)[j] = x(N)[j]
    <3>1. b <= Len(x(N))
      BY <1>6, Zenon DEF c
    <3>2. \A j \in 1..b : Span(x(N), 0, b)[j] = x(N)[j]
      BY <1>4, <1>5, <3>1, SpanBegins, Zenon
    <3> QED BY <1>6, <3>2, Zenon
  <2>3. \A j \in 1..(a + Len(f)) : x(k + 1)[j] = IF j <= a THEN x(k)[j] ELSE f[j - a]
    <3>1. \A j \in 1..(Len(x(k)) + Len(f)) :
            (x(k) \o f)[j] = IF j <= Len(x(k)) THEN x(k)[j] ELSE f[j - Len(x(k))]
      BY <1>2, <1>4, ConcatProperties, Zenon
    <3> QED BY <1>3, <3>1, Zenon DEF a
  <2> DEFINE y == Span(D, T + a, T + b)
  <2>4. /\ T + a \in Nat /\ T + b \in Nat /\ T + a <= T + b /\ T + b <= T + c
        /\ (T + b) - (T + a) = Len(f)
    BY <1>0, <1>2, <1>5, <1>6
  <2>5. y \in Seq(Nat) /\ Len(y) = Len(f) /\ \A j \in 1..Len(f) : y[j] = D[(T + a) + j]
    <3>1. /\ y \in Seq(Nat) /\ Len(y) = (T + b) - (T + a)
          /\ \A j \in 1..((T + b) - (T + a)) : y[j] = D[(T + a) + j]
      BY <1>0, <2>1, <2>4, SpanFacts, Zenon
    <3> QED BY <2>4, <3>1, Zenon
  <2> HIDE DEF y
  <2>6. ASSUME NEW j \in 1..Len(f) PROVE y[j] = f[j]
    <3>1. /\ (T + a) + j \in 1..(T + c) /\ ~((T + a) + j <= T) /\ ((T + a) + j) - T = a + j
          /\ a + j \in 1..b /\ a + j \in 1..(a + Len(f)) /\ ~(a + j <= a) /\ (a + j) - a = j
      BY <1>0, <1>2, <1>5, <1>6
    <3>2. D[(T + a) + j] = x(N)[a + j]
      BY <2>1, <3>1, Zenon
    <3>3. x(N)[a + j] = x(k + 1)[a + j] /\ x(k + 1)[a + j] = f[j]
      BY <2>2, <2>3, <3>1, Zenon
    <3> QED BY <2>5, <3>2, <3>3, Zenon
  <2>7. y = f
    BY <1>2, <2>5, <2>6, SeqEqual, Zenon
  <2> QED BY <2>7, Zenon DEF y
<1> QED BY <1>1, <1>2, <1>3, <1>7, <1>8, <1>9, Zenon DEF x, f, N, D

-----------------------------------------------------------------------------
(* The file of the capture loop                                            *)
LoopFile ==
  /\ output \in Seq(Nat)
  /\ cause # "write_failed" => Whole(output, stats.records)
  /\ pc \in {"rest", "payload"} => MagicAt(raw, 0)

(* Of the steps of the loop, only two write.                               *)
LEMMA OnlyStoreWrites ==
  ASSUME IInv, Capture, ~Store, ~StoreFails
  PROVE  /\ output' = output /\ stats'.records = stats.records /\ input' = input
         /\ cause = "none" /\ cause' # "write_failed"
<1>0. stats \in Counters /\ (pc # "done" => cause = "none")
  BY DEF IInv, Typed
<1>1. CASE NextRecord
  BY <1>0, <1>1 DEF NextRecord, options, Go, Finish
<1>2. CASE Read
  <2>1. output' = output /\ input' = input /\ pc # "done"
    BY <1>2 DEF Read, options, Reading
  <2>2. PICK r : \/ GoesOn(r)
                 \/ r.status \in {"EOF", "ERROR"} /\ GivesUp(r)
                 \/ r.status \in {"EOF", "ERROR"} /\ CutsOff(r)
    BY <1>2, ReadCases, Zenon
  <2>3. CASE GoesOn(r)
    BY <1>0, <2>1, <2>3 DEF GoesOn, Counters
  <2>4. CASE r.status \in {"EOF", "ERROR"} /\ GivesUp(r)
    BY <1>0, <2>1, <2>4 DEF GivesUp, Counters
  <2>5. CASE r.status \in {"EOF", "ERROR"} /\ CutsOff(r)
    BY <1>0, <2>1, <2>5 DEF CutsOff, Counters
  <2> QED BY <2>2, <2>3, <2>4, <2>5, Zenon
<1>3. CASE ReadStopped
  BY <1>0, <1>3 DEF ReadStopped, Reading, options, Finish, Discard, Counters
<1>4. CASE MagicRead
  BY <1>0, <1>4 DEF MagicRead, options, Go
<1>5. CASE Slide
  BY <1>0, <1>5 DEF Slide, options
<1>6. CASE WindowEnds
  BY <1>0, <1>6 DEF WindowEnds, options, Finish, Go, Discard, Counters
<1>7. CASE Decode
  BY <1>0, <1>7 DEF Decode, options, Go, Counters
<1> QED BY <1>1, <1>2, <1>3, <1>4, <1>5, <1>6, <1>7, Zenon DEF Capture

(* What is stored is a record.                                             *)
LEMMA StoresRecord ==
  ASSUME IInv, LoopFile, pc = "payload", Complete
  PROVE  IsRecord(raw) /\ raw \in Seq(Nat) /\ Len(raw) = 4 + raw[3] /\ raw[3] \in Nat
<1>1. raw \in Seq(Nat) /\ Len(raw) = 4 + raw[3] /\ META_SIZE = 4 /\ LENGTH = 3
  BY Sizes DEF IInv, Typed, Complete, Length
<1>2. Len(raw) >= 4 /\ raw[3] <= MAX_MESSAGE_SIZE
  BY DEF IInv, InHand
<1>3. raw[3] \in Nat /\ 4 <= Len(raw)
  BY <1>1, <1>2
<1>4. MagicAt(raw, 0)
  BY DEF LoopFile
<1> QED BY <1>1, <1>2, <1>3, <1>4 DEF IsRecord

(* A magic at the beginning stays there.                                   *)
LEMMA MagicStays ==
  ASSUME NEW s \in Seq(Nat), NEW t \in Seq(Nat), MagicAt(s, 0)
  PROVE  MagicAt(s \o t, 0)
<1>1. Len(s) >= 2 /\ s[1] = Magic[1] /\ s[2] = Magic[2]
  BY MagicFirst, Zenon
<1> DEFINE d == s \o t
<1>2. d \in Seq(Nat) /\ Len(d) = Len(s) + Len(t) /\ d[1] = s[1] /\ d[2] = s[2] /\ Len(t) \in Nat
  BY <1>1
<1> HIDE DEF d
<1>3. Len(d) >= 2 /\ d[1] = Magic[1] /\ d[2] = Magic[2]
  BY <1>1, <1>2
<1>4. MagicAt(d, 0)
  BY <1>2, <1>3, MagicFirst, Zenon
<1> QED BY <1>4, Zenon DEF d

LEMMA LoopFileKept ==
  ASSUME IInv, LoopFile, Capture
  PROVE  LoopFile'
<1>0. /\ raw \in Seq(Nat) /\ stats \in Counters /\ stats.records \in Nat
      /\ output \in Seq(Nat) /\ (pc # "done" => cause = "none")
  BY DEF IInv, Typed, LoopFile, Counters
<1>1. CASE Store
  <2>1. /\ pc = "payload" /\ Complete /\ output' = output \o raw /\ pc' = "record"
        /\ stats' = [stats EXCEPT !.stored = @ + Len(raw), !.records = @ + 1]
    BY <1>1 DEF Store, Go
  <2>2. stats'.records = stats.records + 1
    BY <1>0, <2>1 DEF Counters
  <2>3. IsRecord(raw) /\ Whole(output, stats.records)
    BY <1>0, <2>1, StoresRecord DEF LoopFile
  <2>4. Whole(output \o raw, stats.records + 1)
    BY <1>0, <2>3, WholeGrows, Zenon
  <2>5. output' \in Seq(Nat)
    BY <1>0, <2>1
  <2>6. pc' \notin {"rest", "payload"}
    BY <2>1
  <2> QED BY <2>1, <2>2, <2>4, <2>5, <2>6, Zenon DEF LoopFile
<1>2. CASE StoreFails
  <2>1. /\ pc' = "done" /\ cause' = "write_failed"
        /\ \E n \in 0..Len(raw) : output' = output \o SubSeq(raw, 1, n)
    BY <1>2 DEF StoreFails, Finish
  <2>2. output' \in Seq(Nat)
    BY <1>0, <2>1
  <2> QED BY <2>1, <2>2 DEF LoopFile
<1>3. CASE ~Store /\ ~StoreFails
  <2>1. /\ output' = output /\ stats'.records = stats.records /\ cause # "write_failed"
    BY <1>3, OnlyStoreWrites
  <2>2. output' \in Seq(Nat) /\ (cause' # "write_failed" => Whole(output', stats'.records))
    BY <1>0, <2>1, Zenon DEF LoopFile
  <2>3. ASSUME pc' \in {"rest", "payload"} PROVE MagicAt(raw', 0)
    <3>1. CASE pc \in {"rest", "payload"} /\ raw' = raw
      BY <3>1, Zenon DEF LoopFile
    <3>2. CASE Read
      <4>1. PICK r : /\ Kept(r, Length - Len(raw))
                     /\ \/ GoesOn(r) \/ GivesUp(r) \/ CutsOff(r)
        BY <3>2, ReadCases, Zenon
      <4>2. raw' = raw \o r.chunk /\ pc' = pc /\ r.chunk \in Seq(Nat)
        BY <2>3, <4>1 DEF GoesOn, GivesUp, CutsOff, Kept
      <4>3. MagicAt(raw, 0)
        BY <2>3, <4>2 DEF LoopFile
      <4> QED BY <1>0, <4>2, <4>3, MagicStays, Zenon
    <3>3. CASE raw = Magic /\ raw' = raw
      <4>1. Len(raw) = 2
        BY <3>3, Sizes
      <4> QED BY <1>0, <3>3, <4>1, MagicUnits
    <3>4. CASE NextRecord
      BY <2>3, <3>4 DEF NextRecord, Go, Finish
    <3>5. CASE ReadStopped
      BY <2>3, <3>5 DEF ReadStopped, Finish
    <3>6. CASE MagicRead
      BY <2>3, <3>6, <3>3 DEF MagicRead, Go
    <3>7. CASE Slide
      BY <2>3, <3>7 DEF Slide
    <3>8. CASE WindowEnds
      BY <2>3, <3>8, <3>3 DEF WindowEnds, Go, Finish
    <3>9. CASE Decode
      BY <2>3, <3>9, <3>1 DEF Decode, Go
    <3> QED BY <1>3, <3>2, <3>4, <3>5, <3>6, <3>7, <3>8, <3>9, Zenon DEF Capture
  <2> QED BY <2>2, <2>3, Zenon DEF LoopFile
<1> QED BY <1>1, <1>2, <1>3, Zenon

LEMMA LoopFileStarts == Init => LoopFile
<1> SUFFICES ASSUME Init PROVE LoopFile
  OBVIOUS
<1>1. output = <<>> /\ stats.records = 0 /\ pc = "record" /\ output \in Seq(Nat)
  BY DEF Init
<1> QED BY <1>1, WholeStarts DEF LoopFile

LEMMA LoopFileImplies == LoopFile /\ IInv => FileReparses
<1> SUFFICES ASSUME LoopFile, IInv, cause # "write_failed"
             PROVE  /\ Len(parse_binary(output).records) = stats.records
                    /\ parse_binary(output).errors \subseteq Doubted
                    /\ parse_binary(output).consumed = Len(output)
  BY Zenon DEF FileReparses, Doubted
<1>1. output \in Seq(Nat) /\ stats.records \in Nat /\ Whole(output, stats.records)
  BY DEF LoopFile, IInv, Typed, Counters
<1> QED BY <1>1, WholeRead, Zenon

-----------------------------------------------------------------------------
(* A sequence is the end of another one, and stands there at an offset.    *)
Ends(s, d)   == Len(s) <= Len(d) /\ s = Span(d, Len(d) - Len(s), Len(d))
Offset(s, d) == Len(d) - Len(s)

LEMMA EndsAtStart ==
  ASSUME NEW d \in Seq(Nat)
  PROVE  Ends(d, d) /\ Offset(d, d) = 0
<1>1. Len(d) \in Nat /\ Len(d) - Len(d) = 0 /\ Len(d) <= Len(d)
  OBVIOUS
<1> QED BY <1>1, SpanWhole, Zenon DEF Ends, Offset

(* What stands where, of an end in two parts                               *)
LEMMA EndsIn ==
  ASSUME NEW d \in Seq(Nat), NEW s \in Seq(Nat), NEW t \in Seq(Nat), Ends(s \o t, d)
  PROVE  /\ Offset(s \o t, d) \in 0..Len(d) /\ Offset(s \o t, d) + Len(s) <= Len(d)
         /\ Len(s \o t) = Len(s) + Len(t) /\ s \o t \in Seq(Nat)
         /\ Ends(t, d) /\ Offset(t, d) = Offset(s \o t, d) + Len(s)
         /\ s = Span(d, Offset(s \o t, d), Offset(s \o t, d) + Len(s))
         /\ \A j \in 1..Len(s) : s[j] = d[Offset(s \o t, d) + j]
<1> DEFINE u == s \o t
           p == Offset(u, d)
           n == Len(d)
           a == Len(s)
           b == Len(t)
<1>1. /\ u \in Seq(Nat) /\ Len(u) = a + b
      /\ \A j \in 1..(a + b) : u[j] = IF j <= a THEN s[j] ELSE t[j - a]
  BY ConcatProperties, Zenon
<1>2. a \in Nat /\ b \in Nat /\ n \in Nat
  OBVIOUS
<1>3. Len(u) <= n /\ u = Span(d, p, n) /\ p = n - Len(u)
  BY Zenon DEF Ends, Offset
<1> HIDE DEF u, p, n, a, b
<1>p. p \in Nat /\ p = n - (a + b)
  <2>1. Len(u) = a + b /\ Len(u) <= n /\ p = n - Len(u)
    BY <1>1, <1>3, Zenon
  <2> QED BY <1>2, <2>1
<1>4. p \in Nat /\ p <= n /\ n <= n /\ p + a <= n /\ p + a \in Nat /\ p <= p + a /\ n - p = a + b
      /\ p \in 0..n /\ n - b = p + a /\ (p + a) - p = a /\ n - (p + a) = b /\ b <= n
  BY <1>2, <1>p
<1>5. \A j \in 1..(a + b) : u[j] = d[p + j]
  <2>1. \A j \in 1..(n - p) : Span(d, p, n)[j] = d[p + j]
    BY <1>2, <1>4, SpanFacts, Zenon DEF n
  <2> QED BY <1>3, <1>4, <2>1, Zenon
<1>6. ASSUME NEW j \in 1..a PROVE s[j] = d[p + j]
  <2>1. j \in 1..(a + b) /\ j <= a
    BY <1>2
  <2> QED BY <1>1, <1>5, <2>1, Zenon
<1>7. s = Span(d, p, p + a)
  <2> DEFINE x == Span(d, p, p + a)
  <2>1. x \in Seq(Nat) /\ Len(x) = a /\ \A j \in 1..a : x[j] = d[p + j]
    <3>1. /\ x \in Seq(Nat) /\ Len(x) = (p + a) - p
          /\ \A j \in 1..((p + a) - p) : x[j] = d[p + j]
      BY <1>4, SpanFacts, Zenon DEF n
    <3> QED BY <1>4, <3>1, Zenon
  <2> HIDE DEF x
  <2>2. s = x
    BY <1>2, <1>6, <2>1, SeqEqual, Zenon DEF a
  <2> QED BY <2>2, Zenon DEF x
<1>8. t = Span(d, p + a, n)
  <2> DEFINE y == Span(d, p + a, n)
  <2>1. y \in Seq(Nat) /\ Len(y) = b /\ \A j \in 1..b : y[j] = d[(p + a) + j]
    <3>1. /\ y \in Seq(Nat) /\ Len(y) = n - (p + a)
          /\ \A j \in 1..(n - (p + a)) : y[j] = d[(p + a) + j]
      BY <1>2, <1>4, SpanFacts, Zenon DEF n
    <3> QED BY <1>4, <3>1, Zenon
  <2> HIDE DEF y
  <2>2. ASSUME NEW j \in 1..b PROVE t[j] = y[j]
    <3>1. a + j \in 1..(a + b) /\ ~(a + j <= a) /\ (a + j) - a = j /\ p + (a + j) = (p + a) + j
      BY <1>2, <1>4
    <3> QED BY <1>1, <1>5, <2>1, <3>1, Zenon
  <2>3. t = y
    BY <2>1, <2>2, SeqEqual, Zenon DEF b
  <2> QED BY <2>3, Zenon DEF y
<1>9. Ends(t, d) /\ Offset(t, d) = p + a
  BY <1>4, <1>8, Zenon DEF Ends, Offset, n, b
<1> QED BY <1>1, <1>4, <1>6, <1>7, <1>9, Zenon DEF u, p, n, a, b

LEMMA EndsBehind ==
  ASSUME NEW d \in Seq(Nat), NEW s \in Seq(Nat), NEW t \in Seq(Nat), Ends(s \o t, d)
  PROVE  Ends(t, d) /\ Offset(t, d) = Offset(s \o t, d) + Len(s)
<1> DEFINE p == Offset(s \o t, d) + Len(s)
<1>1. Ends(t, d) /\ Offset(t, d) = p
  BY EndsIn, Zenon
<1> QED BY <1>1, Zenon

(* When the delivery is clean and what is left begins with the next frame: *)
(* that frame, and what is known of it                                     *)
Frame(i, k, f) ==
  /\ k < Len(i.frames) /\ f = i.frames[k + 1] /\ f \in Seq(Nat) /\ f[3] \in Nat
  /\ Len(f) = 4 + f[3] /\ f[3] <= MAX_MESSAGE_SIZE
  /\ f[1] = Magic[1] /\ f[2] = Magic[2]
  /\ Upto(i.frames, k + 1) = Upto(i.frames, k) \o f
  /\ Start(i, k + 1) = Start(i, k) + Len(f)
  /\ k + 1 \in 0..Len(i.frames)

(* a is a beginning of what is left, b the rest of it                      *)
BeginsWith(f, a, b) ==
  Len(f) <= Len(a) + Len(b) /\ \A j \in 1..Len(a) : j <= Len(f) => a[j] = f[j]

LEMMA NextFrame ==
  ASSUME input \in Inputs, CleanInput, NEW k \in 0..Len(input.frames),
         NEW a \in Seq(Nat), NEW b \in Seq(Nat), Ends(a \o b, Delivery(input)),
         Offset(a \o b, Delivery(input)) = Start(input, k),
         k < Len(input.frames) \/ Len(a) > 0
  PROVE  \E f : Frame(input, k, f) /\ BeginsWith(f, a, b)
<1> DEFINE D == Delivery(input)
           N == Len(input.frames)
           p == Start(input, k)
           f == input.frames[k + 1]
<1>1. D \in Seq(Nat) /\ N \in Nat /\ Start(input, N) = Len(D) /\ Len(D) \in Nat
  <2>1. D \in Seq(Nat) /\ N \in Nat /\ Start(input, N) = Len(D)
    BY StartFacts, Zenon
  <2> QED BY <2>1
<1>2. /\ p \in 0..Len(D) /\ p + Len(a) <= Len(D) /\ Len(a \o b) = Len(a) + Len(b)
      /\ \A j \in 1..Len(a) : a[j] = D[p + j]
      /\ p = Len(D) - Len(a \o b)
  <2>1. p = Offset(a \o b, D) /\ p = Len(D) - Len(a \o b)
    BY Zenon DEF Offset
  <2>2. /\ Offset(a \o b, D) \in 0..Len(D) /\ Offset(a \o b, D) + Len(a) <= Len(D)
        /\ Len(a \o b) = Len(a) + Len(b)
        /\ \A j \in 1..Len(a) : a[j] = D[Offset(a \o b, D) + j]
    <3>1. D \in Seq(Nat) /\ Ends(a \o b, D)
      BY <1>1
    <3> HIDE DEF D, p, N, f
    <3>2. a \in Seq(Nat) /\ b \in Seq(Nat)
      OBVIOUS
    <3>3. Offset(a \o b, D) \in 0..Len(D) /\ Offset(a \o b, D) + Len(a) <= Len(D)
      BY <3>1, <3>2, EndsIn, Zenon
    <3>4. Len(a \o b) = Len(a) + Len(b)
      BY <3>2
    <3>5. \A j \in 1..Len(a) : a[j] = D[Offset(a \o b, D) + j]
      BY <3>1, <3>2, EndsIn
    <3> QED BY <3>3, <3>4, <3>5, Zenon
  <2> QED BY <2>1, <2>2, Zenon
<1>3. Len(a) \in Nat /\ Len(b) \in Nat
  OBVIOUS
<1>4. k < N /\ k \in Nat
  <2>1. CASE k = N
    <3>1. p = Len(D)
      BY <1>1, <2>1, Zenon
    <3> HIDE DEF p, D
    <3>2. FALSE
      <4>1. ~(k < N)
        BY <2>1, <1>1
      <4>2. Len(a) > 0
        BY <4>1, Zenon
      <4> QED BY <1>1, <1>2, <1>3, <3>1, <4>2
    <3> QED BY <3>2
  <2> QED BY <1>1, <2>1
<1>5. /\ IsFrame(f) /\ k + 1 \in 0..N
      /\ Upto(input.frames, k + 1) = Upto(input.frames, k) \o f
      /\ Start(input, k + 1) = p + Len(f)
      /\ Span(D, p, Start(input, k + 1)) = f
  BY <1>4, FrameThere, Zenon
<1>6. f \in Seq(Nat) /\ META_SIZE = 4 /\ LENGTH = 3 /\ 4 <= Len(f) /\ MagicAt(f, 0)
      /\ (f[3] <= MAX_MESSAGE_SIZE => Len(f) = 4 + f[3])
  BY <1>5, Sizes DEF IsFrame
<1>7. f[3] <= MAX_MESSAGE_SIZE
  <2>1. k + 1 \in 1..N
    BY <1>1, <1>4
  <2> QED BY <2>1, <1>6, Zenon DEF CleanInput
<1>8. f[1] = Magic[1] /\ f[2] = Magic[2]
  BY <1>6, MagicFirst, Zenon
<1>9. f[3] \in Nat
  <2>1. 3 \in 1..Len(f)
    BY <1>6
  <2> QED BY <1>6, <2>1, ElementOfSeq, Zenon
<1>10. Frame(input, k, f)
  BY <1>4, <1>5, <1>6, <1>7, <1>8, <1>9, Zenon DEF Frame
<1>11. Start(input, k + 1) \in Nat /\ Start(input, k + 1) <= Len(D)
  <2>1. Start(input, k + 1) \in Len(input.torn)..Len(D) /\ Len(input.torn) \in Nat
    BY <1>5, StartFacts, Zenon
  <2> HIDE DEF D
  <2> QED BY <1>1, <2>1
<1>12. Len(f) \in Nat
  BY <1>6
<1> HIDE DEF D, N, p, f
<1>13. Len(f) <= Len(a) + Len(b)
  BY <1>1, <1>2, <1>3, <1>5, <1>11, <1>12
<1>14. ASSUME NEW j \in 1..Len(a), j <= Len(f) PROVE a[j] = f[j]
  <2>1. /\ j \in 1..(Start(input, k + 1) - p) /\ p \in Nat /\ p <= Start(input, k + 1)
    <3>1. Start(input, k + 1) - p = Len(f) /\ p \in Nat /\ p <= Start(input, k + 1)
      <4>1. p \in Nat /\ Start(input, k + 1) = p + Len(f)
        BY <1>1, <1>2, <1>5
      <4> QED BY <1>12, <4>1
    <3>2. j \in 1..Len(f)
      BY <1>3, <1>12, <1>14
    <3> QED BY <3>1, <3>2, Zenon
  <2>2. Span(D, p, Start(input, k + 1))[j] = D[p + j]
    BY <1>1, <1>11, <2>1, SpanFacts, Zenon
  <2> QED BY <1>2, <1>5, <2>2, Zenon
<1> QED BY <1>10, <1>13, <1>14, Zenon DEF BeginsWith

(* A magic in front of the first frame's is none when the delivery is clean. *)
LEMMA FirstMagic ==
  ASSUME input \in Inputs, CleanInput, NEW b \in Seq(Nat),
         Ends(Magic \o b, Delivery(input)),
         Offset(Magic \o b, Delivery(input)) <= Len(input.torn)
  PROVE  Offset(Magic \o b, Delivery(input)) = Start(input, 0)
<1> DEFINE D == Delivery(input)
           T == Len(input.torn)
           p == Offset(Magic \o b, D)
<1>1. D \in Seq(Nat) /\ T \in Nat /\ Start(input, 0) = T /\ Magic \in Seq(Nat) /\ Len(Magic) = 2
  <2>1. D \in Seq(Nat) /\ T \in Nat /\ Start(input, 0) = T
    BY StartFacts, Zenon
  <2> QED BY <2>1, Sizes
<1>2. p \in 0..Len(D) /\ p + 2 <= Len(D) /\ \A j \in 1..2 : Magic[j] = D[p + j]
  <2>1. /\ p \in 0..Len(D) /\ p + Len(Magic) <= Len(D)
        /\ \A j \in 1..Len(Magic) : Magic[j] = D[p + j]
    BY <1>1, EndsIn, Zenon
  <2> QED BY <1>1, <2>1, Zenon
<1>3. p \in Nat /\ 1 \in 1..2 /\ 2 \in 1..2
  BY <1>2
<1>4. MagicAt(D, p)
  BY <1>1, <1>2, <1>3, MagicUnits, Zenon
<1>5. ~(p \in 0..(T - 1))
  BY <1>4, Zenon DEF CleanInput
<1> HIDE DEF p, D, T
<1>6. p = T
  <2>1. p <= T
    BY Zenon DEF p, D, T
  <2> QED BY <1>1, <1>3, <1>5, <2>1
<1> QED BY <1>1, <1>6, Zenon DEF p, D, T

-----------------------------------------------------------------------------
(* The order of the frames in the file of the capture loop: what is in     *)
(* hand, staged and on the wire is the end of the delivery, and it begins  *)
(* behind the frames that are stored; in the window, somewhere in the torn *)
(* frame.                                                                  *)
LoopRest == raw \o (staged \o wire)

InOrder(i, where, k, p, file, why) ==
  /\ k \in 0..Len(i.frames) /\ file = Upto(i.frames, k)
  /\ where \in {"record", "magic"} => p = Start(i, k) \/ (k = 0 /\ p = 0)
  /\ where = "window" => k = 0 /\ p <= Len(i.torn)
  /\ where \in {"rest", "payload"} => p = Start(i, k)
  /\ why = "EOF" => k = Len(i.frames)

LoopOrder ==
  CleanInput =>
    /\ pc # "done" => Ends(LoopRest, Delivery(input))
    /\ cause # "write_failed" =>
         InOrder(input, pc, stats.records, Offset(LoopRest, Delivery(input)), output, cause)

LEMMA LoopOrderStarts == Init => LoopOrder
<1> SUFFICES ASSUME Init, CleanInput
             PROVE  /\ Ends(LoopRest, Delivery(input))
                    /\ InOrder(input, pc, stats.records, Offset(LoopRest, Delivery(input)),
                               output, cause)
  BY Zenon DEF LoopOrder
<1>1. /\ raw = <<>> /\ staged = <<>> /\ wire = Delivery(input) /\ input \in Inputs
      /\ stats.records = 0 /\ output = <<>> /\ pc = "record" /\ cause = "none"
  BY DEF Init
<1>2. Delivery(input) \in Seq(Nat) /\ input.frames \in Seq(Seq(Nat))
  BY <1>1, StartFacts, Zenon
<1>3. LoopRest = Delivery(input)
  <2>1. <<>> \o wire = wire
    BY <1>1, <1>2, ConcatEmptySeq, Zenon
  <2> QED BY <1>1, <2>1, Zenon DEF LoopRest
<1>4. Ends(LoopRest, Delivery(input)) /\ Offset(LoopRest, Delivery(input)) = 0
  BY <1>2, <1>3, EndsAtStart, Zenon
<1>5. Upto(input.frames, 0) = <<>> /\ 0 \in 0..Len(input.frames)
  BY <1>2, Flattening
<1> QED BY <1>1, <1>4, <1>5 DEF InOrder

(* What the state of the loop says when the delivery is clean              *)
LEMMA LoopStands ==
  ASSUME IInv, LoopOrder, CleanInput, pc # "done"
  PROVE  /\ input \in Inputs /\ raw \in Seq(Nat) /\ staged \o wire \in Seq(Nat)
         /\ staged \in Seq(Nat) /\ wire \in Seq(Nat)
         /\ cause = "none" /\ stats \in Counters
         /\ Ends(raw \o (staged \o wire), Delivery(input))
         /\ stats.records \in 0..Len(input.frames)
         /\ output = Upto(input.frames, stats.records)
         /\ Offset(raw \o (staged \o wire), Delivery(input)) \in Nat
         /\ pc \in {"record", "magic"} =>
              \/ Offset(raw \o (staged \o wire), Delivery(input)) = Start(input, stats.records)
              \/ /\ stats.records = 0
                 /\ Offset(raw \o (staged \o wire), Delivery(input)) = 0
         /\ pc = "window" =>
              /\ stats.records = 0
              /\ Offset(raw \o (staged \o wire), Delivery(input)) <= Len(input.torn)
         /\ pc \in {"rest", "payload"} =>
              Offset(raw \o (staged \o wire), Delivery(input)) = Start(input, stats.records)
<1>1. /\ input \in Inputs /\ raw \in Seq(Nat) /\ staged \in Seq(Nat) /\ wire \in Seq(Nat)
      /\ cause = "none" /\ stats \in Counters
  BY DEF IInv, Typed
<1>2. staged \o wire \in Seq(Nat)
  BY <1>1
<1>3. Ends(raw \o (staged \o wire), Delivery(input))
  BY Zenon DEF LoopOrder, LoopRest
<1>4. Delivery(input) \in Seq(Nat)
  BY <1>1, StartFacts, Zenon
<1>5. Offset(raw \o (staged \o wire), Delivery(input)) \in 0..Len(Delivery(input))
  BY <1>1, <1>2, <1>3, <1>4, EndsIn, Zenon
<1>6. Offset(raw \o (staged \o wire), Delivery(input)) \in Nat
  BY <1>5
<1>7. InOrder(input, pc, stats.records, Offset(raw \o (staged \o wire), Delivery(input)),
              output, cause)
  <2>1. cause # "write_failed"
    BY <1>1
  <2> QED BY <2>1, Zenon DEF LoopOrder, LoopRest
<1> QED BY <1>1, <1>2, <1>3, <1>6, <1>7, Zenon DEF InOrder

(* A step that leaves what is left and the file                            *)
LEMMA LoopOrderSame ==
  ASSUME IInv, LoopOrder, input' = input, output' = output, stats'.records = stats.records,
         pc # "done", cause' # "EOF",
         pc' = "done" \/ LoopRest' = LoopRest,
         CleanInput =>
           LET k == stats.records
               p == Offset(LoopRest, Delivery(input))
           IN /\ pc' \in {"record", "magic"} => pc \in {"record", "magic"}
              /\ pc' = "window" => k = 0 /\ p <= Len(input.torn)
              /\ pc' \in {"rest", "payload"} => p = Start(input, k)
  PROVE  LoopOrder'
<1> SUFFICES ASSUME CleanInput'
             PROVE  /\ pc' # "done" => Ends(LoopRest', Delivery(input))
                    /\ InOrder(input, pc', stats.records, Offset(LoopRest', Delivery(input)),
                               output, cause')
  BY Zenon DEF LoopOrder
<1>1. CleanInput
  BY DEF CleanInput
<1>2. /\ Ends(LoopRest, Delivery(input))
      /\ stats.records \in 0..Len(input.frames)
      /\ output = Upto(input.frames, stats.records)
      /\ pc \in {"record", "magic"} =>
           \/ Offset(LoopRest, Delivery(input)) = Start(input, stats.records)
           \/ stats.records = 0 /\ Offset(LoopRest, Delivery(input)) = 0
  BY <1>1, LoopStands, Zenon DEF LoopRest
<1>3. CASE pc' = "done"
  <2>1. pc' \notin {"record", "magic", "window", "rest", "payload"}
    BY <1>3
  <2> QED BY <1>2, <1>3, <2>1, Zenon DEF InOrder
<1>4. CASE LoopRest' = LoopRest
  BY <1>1, <1>2, <1>4, Zenon DEF InOrder
<1> QED BY <1>3, <1>4, Zenon

(* A read takes nothing away and adds nothing; at the end of the device    *)
(* every frame has been stored.                                            *)
LEMMA ReadKeepsOrder ==
  ASSUME IInv, LoopOrder, Read
  PROVE  LoopOrder'
<1>1. /\ Reading /\ input' = input /\ output' = output /\ stats'.records = stats.records
      /\ pc # "done" /\ cause = "none"
  <2>1. Reading /\ input' = input /\ output' = output /\ pc # "done" /\ ~Store /\ ~StoreFails
    BY DEF Read, Reading, options, Store, StoreFails, Complete
  <2>2. Capture
    BY Zenon DEF Capture
  <2> QED BY <2>1, <2>2, OnlyStoreWrites
<1>2. PICK r : /\ Kept(r, Length - Len(raw))
               /\ wire' = r.wire /\ staged' = r.staged
               /\ \/ r.status \notin {"EOF", "ERROR"} /\ GoesOn(r)
                  \/ r.status \in {"EOF", "ERROR"} /\ GivesUp(r)
                  \/ r.status \in {"EOF", "ERROR"} /\ CutsOff(r)
  BY ReadCases, Zenon
<1>3. /\ r.chunk \in Seq(Nat) /\ r.staged \in Seq(Nat) /\ r.wire \in Seq(Nat)
      /\ r.chunk \o (r.staged \o r.wire) = staged \o wire
      /\ r.status = "EOF" => Len(r.chunk) = 0 /\ staged \o wire = <<>>
      /\ raw \in Seq(Nat)
  BY <1>2, Zenon DEF Kept, IInv, Typed
<1>4. CASE GoesOn(r)
  <2>1. raw' = raw \o r.chunk /\ pc' = pc /\ cause' = cause
    BY <1>4, Zenon DEF GoesOn
  <2>2. LoopRest' = LoopRest
    <3>1. r.staged \o r.wire \in Seq(Nat)
      BY <1>3
    <3>2. (raw \o r.chunk) \o (r.staged \o r.wire) = raw \o (r.chunk \o (r.staged \o r.wire))
      BY <1>3, <3>1, Concatenated, Zenon
    <3> QED BY <1>2, <1>3, <2>1, <3>2, Zenon DEF LoopRest
  <2>3. ASSUME CleanInput
        PROVE  /\ pc' \in {"record", "magic"} => pc \in {"record", "magic"}
               /\ pc' = "window" =>
                    stats.records = 0 /\ Offset(LoopRest, Delivery(input)) <= Len(input.torn)
               /\ pc' \in {"rest", "payload"} =>
                    Offset(LoopRest, Delivery(input)) = Start(input, stats.records)
    BY <1>1, <2>1, <2>3, LoopStands, Zenon DEF LoopRest
  <2>4. cause' # "EOF"
    BY <1>1, <2>1
  <2> QED BY <1>1, <2>2, <2>3, <2>4, LoopOrderSame
<1>5. CASE r.status = "ERROR" /\ (GivesUp(r) \/ CutsOff(r))
  <2>1. pc' = "done" /\ cause' = "ERROR"
    BY <1>5 DEF GivesUp, CutsOff
  <2>2. cause' # "EOF" /\ pc' \notin {"record", "magic", "window", "rest", "payload"}
    BY <2>1
  <2> QED BY <1>1, <2>1, <2>2, LoopOrderSame, Zenon
<1>6. CASE r.status = "EOF" /\ (GivesUp(r) \/ CutsOff(r))
  <2>1. pc' = "done" /\ cause' = "EOF"
    BY <1>6 DEF GivesUp, CutsOff
  <2> SUFFICES ASSUME CleanInput'
               PROVE  InOrder(input, pc', stats.records, Offset(LoopRest', Delivery(input)),
                              output, cause')
    BY <1>1, <2>1, Zenon DEF LoopOrder
  <2>2. CleanInput
    BY <1>1 DEF CleanInput
  <2> DEFINE k == stats.records
             D == Delivery(input)
             p == Offset(raw \o (staged \o wire), D)
             N == Len(input.frames)
  <2>3. /\ input \in Inputs /\ Ends(raw \o (staged \o wire), D) /\ k \in 0..N
        /\ output = Upto(input.frames, k) /\ p \in Nat
        /\ pc \in {"record", "magic"} => p = Start(input, k) \/ (k = 0 /\ p = 0)
        /\ pc = "window" => k = 0 /\ p <= Len(input.torn)
        /\ pc \in {"rest", "payload"} => p = Start(input, k)
    BY <1>1, <2>2, LoopStands, Zenon
  <2>4. staged \o wire = <<>> /\ staged \o wire \in Seq(Nat) /\ Len(staged \o wire) = 0
    BY <1>3, <1>6
  <2>5. /\ Len(D) = p + Len(raw) /\ Len(raw) \in Nat
    <3>1. D \in Seq(Nat)
      BY <2>3, StartFacts, Zenon
    <3>2. Len(raw \o (staged \o wire)) = Len(raw) /\ Len(raw) \in Nat /\ Len(D) \in Nat
      BY <1>3, <2>4, <3>1
    <3>3. p = Len(D) - Len(raw \o (staged \o wire))
      BY Zenon DEF Offset
    <3> HIDE DEF p, D
    <3> QED BY <3>2, <3>3
  <2>6. k = N
    <3> SUFFICES ASSUME k # N PROVE FALSE
      OBVIOUS
    <3>1. N \in Nat /\ k \in Nat /\ k < N
      <4>1. N \in Nat
        BY <2>3, StartFacts, Zenon
      <4> HIDE DEF k, N
      <4> QED BY <2>3, <4>1
    <3>2. \A j \in 0..N : Start(input, j) \in Len(input.torn)..Len(D)
      BY <2>3, StartFacts, Zenon
    <3>3. /\ IsFrame(input.frames[k + 1]) /\ k + 1 \in 0..N
          /\ Start(input, k + 1) = Start(input, k) + Len(input.frames[k + 1])
      BY <2>3, <3>1, FrameThere, Zenon
    <3>4. Len(input.frames[k + 1]) \in Nat /\ Len(input.frames[k + 1]) >= 4
      BY <3>3, Sizes DEF IsFrame
    <3>5. /\ Start(input, k + 1) \in Len(input.torn)..Len(D)
          /\ Start(input, k) \in Len(input.torn)..Len(D)
          /\ Len(input.torn) \in Nat /\ Start(input, 0) = Len(input.torn)
      BY <2>3, <3>2, <3>3, StartFacts, Zenon
    <3>6. Len(raw) < Length /\ (pc \in {"magic", "window"} => Length = 2)
          /\ (pc = "rest" => Length = 4) /\ (pc = "payload" => Length = 4 + raw[3] /\ Len(raw) >= 4)
          /\ Length \in Nat /\ pc \in {"magic", "window", "rest", "payload"}
      BY <1>1, Needed DEF Reading
    <3> HIDE DEF D, p, k, N
    <3>7. CASE pc \in {"magic", "window"}
      <4>1. p <= Start(input, k)
        <5>1. CASE pc = "magic"
          BY <2>3, <3>5, <5>1
        <5>2. CASE pc = "window"
          BY <2>3, <3>5, <5>2
        <5> QED BY <3>7, <5>1, <5>2
      <4> QED BY <2>3, <2>5, <3>3, <3>4, <3>5, <3>6, <3>7, <4>1
    <3>8. CASE pc = "rest"
      BY <2>3, <2>5, <3>3, <3>4, <3>5, <3>6, <3>8
    <3>9. CASE pc = "payload"
      <4>1. PICK f : /\ Frame(input, k, f) /\ Len(f) <= Len(raw) + Len(staged \o wire)
                     /\ \A j \in 1..Len(raw) : j <= Len(f) => raw[j] = f[j]
        <5>1. p = Start(input, k) /\ (k < Len(input.frames) \/ Len(raw) > 0)
          BY <2>3, <3>1, <3>9 DEF N
        <5>2. /\ k \in 0..Len(input.frames)
              /\ Ends(raw \o (staged \o wire), Delivery(input))
              /\ Offset(raw \o (staged \o wire), Delivery(input)) = Start(input, k)
          BY <2>3, <5>1, Zenon DEF N, D, p
        <5>3. input \in Inputs /\ raw \in Seq(Nat) /\ staged \o wire \in Seq(Nat)
          BY <1>3, <2>3, <2>4
        <5>4. \E f : Frame(input, k, f) /\ BeginsWith(f, raw, staged \o wire)
          BY <2>2, <5>1, <5>2, <5>3, NextFrame, Zenon
        <5> QED BY <5>4, Zenon DEF BeginsWith
      <4>2. Len(f) = 4 + f[3] /\ f[3] \in Nat
        BY <4>1, Zenon DEF Frame
      <4>3. raw[3] = f[3]
        BY <2>5, <3>6, <3>9, <4>1, <4>2
      <4> QED BY <2>4, <2>5, <3>6, <3>9, <4>1, <4>2, <4>3
    <3> QED BY <3>6, <3>7, <3>8, <3>9
  <2>7. pc' \notin {"record", "magic", "window", "rest", "payload"}
    BY <2>1
  <2> QED BY <2>3, <2>6, <2>7, Zenon DEF InOrder
<1>7. r.status \in {"EOF", "ERROR"} => r.status = "EOF" \/ r.status = "ERROR"
  OBVIOUS
<1> QED BY <1>2, <1>4, <1>5, <1>6, <1>7, Zenon

-----------------------------------------------------------------------------
(* Where the next frame is, and two units of it are in hand, they are a    *)
(* magic.                                                                  *)
LEMMA FrameOpens ==
  ASSUME input \in Inputs, CleanInput, NEW k \in 0..Len(input.frames),
         NEW a \in Seq(Nat), Len(a) = 2, NEW b \in Seq(Nat), Ends(a \o b, Delivery(input)),
         Offset(a \o b, Delivery(input)) = Start(input, k)
  PROVE  a = Magic
<1>1. Len(a) > 0
  OBVIOUS
<1>2. PICK f : Frame(input, k, f) /\ BeginsWith(f, a, b)
  BY <1>1, NextFrame, Zenon
<1>3. /\ Len(f) = 4 + f[3] /\ f[3] \in Nat /\ f[1] = Magic[1] /\ f[2] = Magic[2]
      /\ \A j \in 1..Len(a) : j <= Len(f) => a[j] = f[j]
  BY <1>2, Zenon DEF Frame, BeginsWith
<1>4. /\ 1 \in 1..Len(a) /\ 2 \in 1..Len(a) /\ 1 <= Len(f) /\ 2 <= Len(f)
      /\ Len(Magic) = 2 /\ Magic \in Seq(Nat)
  BY <1>3, Sizes
<1>5. a[1] = Magic[1] /\ a[2] = Magic[2]
  BY <1>3, <1>4, Zenon
<1>6. \A j \in 1..Len(a) : a[j] = Magic[j]
  BY <1>5
<1> QED BY <1>4, <1>6, SeqEqual

LEMMA WindowKeepsOrder ==
  ASSUME IInv, LoopOrder, MagicRead \/ WindowEnds
  PROVE  LoopOrder'
<1>1. /\ input' = input /\ output' = output /\ stats'.records = stats.records
      /\ pc \in {"magic", "window"} /\ cause = "none" /\ raw' = raw /\ Len(raw) = 2
      /\ raw \in Seq(Nat) /\ LoopRest' = LoopRest
  <2>1. /\ raw' = raw /\ staged' = staged /\ wire' = wire /\ pc \in {"magic", "window"}
        /\ ~Store /\ ~StoreFails /\ raw \in Seq(Nat) /\ Len(raw) = 2
    BY Sizes DEF MagicRead, WindowEnds, source, Store, StoreFails, Complete, Length, IInv, Typed
  <2>2. Capture
    BY Zenon DEF Capture
  <2>3. LoopRest' = LoopRest
    BY <2>1, Zenon DEF LoopRest
  <2> QED BY <2>1, <2>2, <2>3, OnlyStoreWrites
<1>2. /\ cause' # "EOF"
      /\ \/ pc' = "rest" /\ raw = Magic
         \/ pc' = "window" /\ pc = "magic" /\ raw # Magic
         \/ pc' = "done"
  BY <1>1 DEF MagicRead, WindowEnds, Go, Finish
<1>3. pc # "done" /\ pc' \notin {"record", "magic"}
  BY <1>1, <1>2
<1>4. ASSUME CleanInput
      PROVE  LET k == stats.records
                 p == Offset(LoopRest, Delivery(input))
             IN /\ pc' = "window" => k = 0 /\ p <= Len(input.torn)
                /\ pc' \in {"rest", "payload"} => p = Start(input, k)
  <2> DEFINE k == stats.records
             b == staged \o wire
             p == Offset(raw \o b, Delivery(input))
  <2>1. /\ input \in Inputs /\ b \in Seq(Nat) /\ Ends(raw \o b, Delivery(input))
        /\ k \in 0..Len(input.frames) /\ p \in Nat
        /\ pc = "magic" => p = Start(input, k) \/ (k = 0 /\ p = 0)
        /\ pc = "window" => k = 0 /\ p <= Len(input.torn)
    BY <1>3, <1>4, LoopStands
  <2>2. Len(input.torn) \in Nat
    BY <2>1, StartFacts, Zenon
  <2>3. CASE raw = Magic
    <3>1. p = Start(input, k)
      <4>1. CASE p = Start(input, k)
        BY <4>1
      <4>2. CASE k = 0 /\ p <= Len(input.torn)
        BY <1>4, <2>1, <2>3, <4>2, FirstMagic, Zenon
      <4>3. k = 0 /\ p = 0 => p <= Len(input.torn)
        <5> HIDE DEF p
        <5> QED BY <2>2
      <4> QED BY <1>1, <2>1, <4>1, <4>2, <4>3
    <3>2. pc' # "window"
      BY <1>2, <2>3
    <3> QED BY <3>1, <3>2, Zenon DEF LoopRest
  <2>4. CASE raw # Magic
    <3>1. p # Start(input, k)
      BY <1>1, <1>4, <2>1, <2>4, FrameOpens, Zenon
    <3>2. k = 0 /\ p <= Len(input.torn)
      <4>1. p = 0 => p <= Len(input.torn)
        <5> HIDE DEF p
        <5> QED BY <2>2
      <4> QED BY <1>1, <2>1, <3>1, <4>1
    <3>3. pc' \notin {"rest", "payload"}
      BY <1>2, <2>4
    <3> QED BY <3>2, <3>3, Zenon DEF LoopRest
  <2> QED BY <2>3, <2>4, Zenon
<1> QED BY <1>1, <1>2, <1>3, <1>4, LoopOrderSame, Zenon

(* The window does not move over the first frame.                          *)
LEMMA SlideKeepsOrder ==
  ASSUME IInv, LoopOrder, Slide
  PROVE  LoopOrder'
<1>1. /\ input' = input /\ output' = output /\ stats' = stats /\ pc = "window" /\ pc' = pc
      /\ cause' = cause /\ staged' = staged /\ wire' = wire /\ raw' = Tail(raw) /\ raw # Magic
      /\ Len(raw) = 2 /\ raw \in Seq(Nat)
  BY Sizes DEF Slide, Complete, Length, options, source, IInv, Typed
<1> SUFFICES ASSUME CleanInput'
             PROVE  /\ Ends(LoopRest', Delivery(input))
                    /\ cause' # "write_failed" =>
                         InOrder(input, pc', stats.records, Offset(LoopRest', Delivery(input)),
                                 output, cause')
  BY <1>1, Zenon DEF LoopOrder
<1>2. CleanInput
  BY <1>1 DEF CleanInput
<1> DEFINE k == stats.records
           b == staged \o wire
           D == Delivery(input)
           p == Offset(raw \o b, D)
           x == SubSeq(raw, 1, 1)
           y == Tail(raw)
<1>3. /\ input \in Inputs /\ b \in Seq(Nat) /\ Ends(raw \o b, D) /\ k \in 0..Len(input.frames)
      /\ k = 0 /\ p <= Len(input.torn) /\ p \in Nat /\ cause = "none"
      /\ output = Upto(input.frames, k)
  <2>1. pc # "done" /\ pc \notin {"record", "magic", "rest", "payload"}
    BY <1>1
  <2> QED BY <1>1, <1>2, <2>1, LoopStands, Zenon
<1>4. Len(input.torn) \in Nat /\ Start(input, 0) = Len(input.torn) /\ D \in Seq(Nat)
  BY <1>3, StartFacts, Zenon
<1>5. x \in Seq(Nat) /\ y \in Seq(Nat) /\ Len(x) = 1 /\ x \o y = raw
  <2>1. /\ x \in Seq(Nat) /\ Len(x) = 1
        /\ SubSeq(raw, 1 + 1, Len(raw)) \in Seq(Nat)
        /\ x \o SubSeq(raw, 1 + 1, Len(raw)) = raw
    <3>1. 1 \in Nat /\ 1 <= Len(raw)
      BY <1>1
    <3> QED BY <1>1, <3>1, Cut, Zenon
  <2>2. y = SubSeq(raw, 1 + 1, Len(raw))
    <3>1. raw # <<>> /\ 1 + 1 = 2
      <4>1. Len(<<>>) = 0 /\ 1 + 1 = 2 /\ 0 # 2
        OBVIOUS
      <4> QED BY <1>1, <4>1, Zenon
    <3> QED BY <1>1, <3>1, TailIsSubSeq, Zenon
  <2> QED BY <2>1, <2>2, Zenon
<1> HIDE DEF x
<1>6. raw \o b = x \o (y \o b) /\ y \o b \in Seq(Nat)
  <2>1. (x \o y) \o b = x \o (y \o b)
    BY <1>3, <1>5, Concatenated, Zenon
  <2>2. y \o b \in Seq(Nat)
    BY <1>3, <1>5
  <2> QED BY <1>5, <2>1, <2>2, Zenon
<1>7. Ends(y \o b, D) /\ Offset(y \o b, D) = p + 1
  <2>1. Ends(x \o (y \o b), D)
    BY <1>3, <1>6, Zenon
  <2>2. Ends(y \o b, D) /\ Offset(y \o b, D) = Offset(x \o (y \o b), D) + Len(x)
    BY <1>4, <1>5, <1>6, <2>1, EndsBehind, Zenon
  <2> QED BY <1>5, <1>6, <2>2, Zenon
<1>8. p # Start(input, 0)
  <2>1. 0 \in 0..Len(input.frames)
    BY <1>3
  <2> QED BY <1>1, <1>2, <1>3, <2>1, FrameOpens, Zenon
<1>9. p + 1 <= Len(input.torn)
  <2> HIDE DEF p
  <2> QED BY <1>3, <1>4, <1>8
<1>10. LoopRest' = y \o b
  BY <1>1, Zenon DEF LoopRest
<1>11. pc' \notin {"record", "magic", "rest", "payload"} /\ cause' # "EOF"
  BY <1>1, <1>3
<1> QED BY <1>3, <1>7, <1>9, <1>10, <1>11, Zenon DEF InOrder

-----------------------------------------------------------------------------
(* Behind the frames stored, with the metadata of a record in hand: of the *)
(* next frame they are.                                                    *)
LEMMA FrameInHand ==
  ASSUME input \in Inputs, CleanInput, NEW k \in 0..Len(input.frames),
         NEW a \in Seq(Nat), Len(a) >= 4, NEW b \in Seq(Nat), Ends(a \o b, Delivery(input)),
         Offset(a \o b, Delivery(input)) = Start(input, k)
  PROVE  \E f : Frame(input, k, f) /\ BeginsWith(f, a, b) /\ a[3] = f[3]
<1>1. Len(a) > 0
  OBVIOUS
<1>2. PICK f : Frame(input, k, f) /\ BeginsWith(f, a, b)
  BY <1>1, NextFrame, Zenon
<1>3. Len(f) = 4 + f[3] /\ f[3] \in Nat
  BY <1>2, Zenon DEF Frame
<1>4. 3 \in 1..Len(a) /\ 3 <= Len(f)
  BY <1>3
<1>5. a[3] = f[3]
  BY <1>2, <1>4, Zenon DEF BeginsWith
<1> QED BY <1>2, <1>5, Zenon

(* No frame of a clean delivery is refused.                                *)
LEMMA DecodeKeepsOrder ==
  ASSUME IInv, LoopOrder, Decode
  PROVE  LoopOrder'
<1>1. /\ input' = input /\ output' = output /\ stats'.records = stats.records
      /\ pc = "rest" /\ cause = "none" /\ cause' = "none" /\ Len(raw) = 4 /\ raw \in Seq(Nat)
      /\ staged' = staged /\ wire' = wire
  <2>1. /\ staged' = staged /\ wire' = wire /\ pc = "rest" /\ cause' = cause
        /\ ~Store /\ ~StoreFails /\ raw \in Seq(Nat) /\ Len(raw) = 4
    BY Sizes DEF Decode, source, Store, StoreFails, Complete, Length, IInv, Typed, Go
  <2>2. Capture
    BY Zenon DEF Capture
  <2> QED BY <2>1, <2>2, OnlyStoreWrites
<1>2. CASE raw[3] <= MAX_MESSAGE_SIZE
  <2>1. pc' = "payload" /\ raw' = raw
    <3>1. ~(raw[LENGTH] > MAX_MESSAGE_SIZE)
      <4>1. raw[3] \in Nat /\ META_SIZE = 4 /\ LENGTH = 3
        <5>1. 3 \in 1..Len(raw)
          BY <1>1
        <5>2. raw[3] \in Nat
          BY <1>1, <5>1, ElementOfSeq, Zenon
        <5> QED BY <5>2, Sizes
      <4> QED BY <1>2, <4>1, BinaryLogAssumption
    <3> QED BY <3>1 DEF Decode, Go
  <2>2. LoopRest' = LoopRest
    BY <1>1, <2>1, Zenon DEF LoopRest
  <2>3. ASSUME CleanInput
        PROVE  Offset(LoopRest, Delivery(input)) = Start(input, stats.records)
    <3>1. pc # "done" /\ pc \in {"rest", "payload"}
      BY <1>1
    <3> QED BY <2>3, <3>1, LoopStands, Zenon DEF LoopRest
  <2>4. pc' \notin {"record", "magic", "window"} /\ cause' # "EOF" /\ pc # "done"
    BY <1>1, <2>1
  <2> QED BY <1>1, <2>2, <2>3, <2>4, LoopOrderSame, Zenon
<1>3. CASE ~(raw[3] <= MAX_MESSAGE_SIZE)
  <2>1. ~CleanInput
    <3> SUFFICES ASSUME CleanInput PROVE FALSE
      OBVIOUS
    <3>1. /\ input \in Inputs /\ staged \o wire \in Seq(Nat)
          /\ Ends(raw \o (staged \o wire), Delivery(input))
          /\ stats.records \in 0..Len(input.frames)
          /\ Offset(raw \o (staged \o wire), Delivery(input)) = Start(input, stats.records)
      <4>1. pc # "done" /\ pc \in {"rest", "payload"}
        BY <1>1
      <4> QED BY <4>1, LoopStands, Zenon
    <3>2. Len(raw) >= 4 /\ raw \in Seq(Nat)
      BY <1>1
    <3>3. \E f : /\ Frame(input, stats.records, f)
                 /\ BeginsWith(f, raw, staged \o wire) /\ raw[3] = f[3]
      <4> DEFINE b == staged \o wire
                 k == stats.records
      <4>1. /\ input \in Inputs /\ b \in Seq(Nat) /\ Ends(raw \o b, Delivery(input))
            /\ k \in 0..Len(input.frames)
            /\ Offset(raw \o b, Delivery(input)) = Start(input, k)
        BY <3>1, Zenon
      <4> HIDE DEF b, k
      <4>2. \E f : Frame(input, k, f) /\ BeginsWith(f, raw, b) /\ raw[3] = f[3]
        BY <3>2, <4>1, FrameInHand, Zenon
      <4> QED BY <4>2, Zenon DEF b, k
    <3> QED BY <1>3, <3>3, Zenon DEF Frame
  <2>2. ~CleanInput'
    BY <1>1, <2>1 DEF CleanInput
  <2> QED BY <2>2, Zenon DEF LoopOrder
<1> QED BY <1>2, <1>3, Zenon

(* A record that is stored is the next frame.                              *)
LEMMA StoreKeepsOrder ==
  ASSUME IInv, LoopFile, LoopOrder, Store
  PROVE  LoopOrder'
<1>1. /\ input' = input /\ pc = "payload" /\ pc' = "record" /\ cause' = cause
      /\ Complete /\ staged' = staged /\ wire' = wire /\ raw' = <<>>
      /\ output' = output \o raw
      /\ stats' = [stats EXCEPT !.stored = @ + Len(raw), !.records = @ + 1]
  BY DEF Store, options, source, Go
<1> SUFFICES ASSUME CleanInput'
             PROVE  /\ Ends(LoopRest', Delivery(input))
                    /\ InOrder(input, pc', stats'.records, Offset(LoopRest', Delivery(input)),
                               output', cause')
  BY <1>1, Zenon DEF LoopOrder
<1>2. CleanInput
  BY <1>1 DEF CleanInput
<1> DEFINE k == stats.records
           b == staged \o wire
           D == Delivery(input)
<1>3. /\ input \in Inputs /\ raw \in Seq(Nat) /\ b \in Seq(Nat) /\ Ends(raw \o b, D)
      /\ k \in 0..Len(input.frames) /\ output = Upto(input.frames, k)
      /\ Offset(raw \o b, D) = Start(input, k) /\ cause = "none" /\ stats \in Counters
  <2>1. pc # "done" /\ pc \in {"rest", "payload"}
    BY <1>1
  <2> QED BY <1>2, <2>1, LoopStands, Zenon
<1>4. /\ Len(raw) = 4 + raw[3] /\ raw[3] \in Nat
  BY <1>1, StoresRecord
<1>5. D \in Seq(Nat)
  BY <1>3, StartFacts, Zenon
<1>6. stats'.records = k + 1
  BY <1>1, <1>3 DEF Counters
<1>7. PICK f : /\ Frame(input, k, f) /\ raw[3] = f[3]
               /\ \A j \in 1..Len(raw) : j <= Len(f) => raw[j] = f[j]
  <2>1. Len(raw) >= 4
    BY <1>4
  <2>2. \E f : Frame(input, k, f) /\ BeginsWith(f, raw, b) /\ raw[3] = f[3]
    BY <1>2, <1>3, <2>1, FrameInHand, Zenon
  <2> QED BY <2>2, Zenon DEF BeginsWith
<1>8. /\ f \in Seq(Nat) /\ Len(f) = 4 + f[3]
      /\ Upto(input.frames, k + 1) = Upto(input.frames, k) \o f
      /\ Start(input, k + 1) = Start(input, k) + Len(f) /\ k + 1 \in 0..Len(input.frames)
  BY <1>7, Zenon DEF Frame
<1>9. raw = f
  <2>1. Len(raw) = Len(f)
    BY <1>4, <1>7, <1>8, Zenon
  <2>2. \A j \in 1..Len(raw) : j <= Len(f)
    <3>1. Len(f) \in Nat
      BY <1>8
    <3> QED BY <2>1, <3>1
  <2> QED BY <1>3, <1>7, <1>8, <2>1, <2>2, SeqEqual, Zenon
<1>10. LoopRest' = b
  <2>1. <<>> \o b = b
    BY <1>3, ConcatEmptySeq, Zenon
  <2> QED BY <1>1, <2>1, Zenon DEF LoopRest
<1>11. Ends(b, D) /\ Offset(b, D) = Start(input, k + 1)
  <2>1. Ends(b, D) /\ Offset(b, D) = Offset(raw \o b, D) + Len(raw)
    BY <1>3, <1>5, EndsBehind, Zenon
  <2> QED BY <1>3, <1>8, <1>9, <2>1, Zenon
<1>12. pc' \notin {"window", "rest", "payload"} /\ cause' # "EOF"
  BY <1>1, <1>3
<1>13. output' = Upto(input.frames, k + 1)
  BY <1>1, <1>3, <1>8, <1>9, Zenon
<1> QED BY <1>6, <1>8, <1>10, <1>11, <1>12, <1>13, Zenon DEF InOrder

(* Every step of the loop keeps the order.                                 *)
LEMMA LoopOrderKept ==
  ASSUME IInv, LoopFile, LoopOrder, Capture
  PROVE  LoopOrder'
<1>1. CASE NextRecord
  <2>1. /\ output' = output /\ stats'.records = stats.records /\ input' = input
        /\ cause = "none"
    <3>1. ~Store /\ ~StoreFails
      BY <1>1 DEF NextRecord, Store, StoreFails
    <3> QED BY <3>1, OnlyStoreWrites
  <2>2. /\ pc = "record" /\ raw' = <<>> /\ raw = <<>> /\ staged' = staged /\ wire' = wire
        /\ pc' \in {"magic", "done"} /\ cause' # "EOF" /\ pc # "done"
        /\ pc' \notin {"window", "rest", "payload"} /\ pc \in {"record", "magic"}
    BY <1>1, <2>1 DEF NextRecord, source, Go, Finish, IInv, InHand
  <2>3. LoopRest' = LoopRest
    BY <2>2, Zenon DEF LoopRest
  <2> QED BY <2>1, <2>2, <2>3, LoopOrderSame, Zenon
<1>2. CASE ReadStopped
  <2>1. output' = output /\ stats'.records = stats.records /\ input' = input
    <3>1. ~Store /\ ~StoreFails
      BY <1>2 DEF ReadStopped, Reading, Complete, Store, StoreFails, IInv, Typed
    <3> QED BY <3>1, OnlyStoreWrites
  <2>2. pc' = "done" /\ cause' = "stopped" /\ pc # "done"
    BY <1>2 DEF ReadStopped, Finish, Reading
  <2>3. cause' # "EOF" /\ pc' \notin {"record", "magic", "window", "rest", "payload"}
    BY <2>2
  <2> QED BY <2>1, <2>2, <2>3, LoopOrderSame, Zenon
<1>3. CASE StoreFails
  <2>1. pc' = "done" /\ cause' = "write_failed"
    BY <1>3 DEF StoreFails, Finish
  <2> QED BY <2>1, Zenon DEF LoopOrder
<1> QED BY <1>1, <1>2, <1>3, ReadKeepsOrder, WindowKeepsOrder, SlideKeepsOrder,
           DecodeKeepsOrder, StoreKeepsOrder, Zenon DEF Capture

LEMMA LoopOrderImplies == LoopOrder /\ IInv => NoFrameLost
<1> SUFFICES ASSUME LoopOrder, IInv, CleanInput, cause # "write_failed"
             PROVE  /\ stats.records <= Len(input.frames)
                    /\ output = FlattenSeq(SubSeq(input.frames, 1, stats.records))
                    /\ cause = "EOF" => stats.records = Len(input.frames)
  BY Zenon DEF NoFrameLost
<1>1. InOrder(input, pc, stats.records, Offset(LoopRest, Delivery(input)), output, cause)
  BY Zenon DEF LoopOrder
<1>2. /\ stats.records \in 0..Len(input.frames)
      /\ output = Upto(input.frames, stats.records)
      /\ cause = "EOF" => stats.records = Len(input.frames)
  BY <1>1, Zenon DEF InOrder
<1>3. stats.records <= Len(input.frames)
  BY <1>2
<1> QED BY <1>2, <1>3, Zenon DEF Upto

-----------------------------------------------------------------------------
(* The loop, and its signal                                                *)
LoopInv == IInv /\ LoopFile /\ LoopOrder

LEMMA LoopInvStays ==
  ASSUME LoopInv, running' \in BOOLEAN, UNCHANGED <<input, capture>>
  PROVE  LoopInv'
<1>1. /\ input' = input /\ pc' = pc /\ raw' = raw /\ stats' = stats /\ output' = output
      /\ cause' = cause /\ staged' = staged /\ wire' = wire /\ discarded' = discarded
  BY DEF capture, source
<1>2. IInv'
  BY LoopStays DEF LoopInv
<1>3. LoopFile'
  BY <1>1 DEF LoopInv, LoopFile
<1>4. LoopRest' = LoopRest
  BY <1>1, Zenon DEF LoopRest
<1>5. LoopOrder'
  <2> SUFFICES ASSUME CleanInput'
               PROVE  /\ pc # "done" => Ends(LoopRest, Delivery(input))
                      /\ cause # "write_failed" =>
                           InOrder(input, pc, stats.records, Offset(LoopRest, Delivery(input)),
                                   output, cause)
    BY <1>1, <1>4, Zenon DEF LoopOrder
  <2>1. CleanInput
    BY <1>1 DEF CleanInput
  <2> QED BY <2>1, Zenon DEF LoopInv, LoopOrder
<1> QED BY <1>2, <1>3, <1>5 DEF LoopInv

LEMMA LoopInvNext == LoopInv /\ [Next]_vars => LoopInv'
<1> SUFFICES ASSUME LoopInv, [Next]_vars PROVE LoopInv'
  OBVIOUS
<1>1. CASE Capture
  <2>1. IInv'
    BY <1>1, NextIInv DEF LoopInv, Next
  <2> QED BY <1>1, <2>1, LoopFileKept, LoopOrderKept DEF LoopInv
<1>2. CASE handle_signal
  BY <1>2, LoopInvStays DEF handle_signal, options, capture
<1>3. CASE UNCHANGED vars
  <2>1. UNCHANGED <<input, capture>> /\ running' = running
    BY <1>3 DEF vars, options, capture
  <2> QED BY <2>1, LoopInvStays DEF LoopInv, IInv, Typed
<1> QED BY <1>1, <1>2, <1>3 DEF Next

LEMMA LoopInvStarts == Init => LoopInv
  BY InitIInv, LoopFileStarts, LoopOrderStarts DEF LoopInv

LEMMA LoopInvImplies == LoopInv => FileReparses /\ NoFrameLost
  BY LoopFileImplies, LoopOrderImplies DEF LoopInv

(* In every state, for every delivery, torn or with invalid lengths, and   *)
(* every way in which transfers cut it, the analysis reads from the file   *)
(* the records that were counted and no gap between them: what it may say  *)
(* is that a record is there twice or has high bits (FileReparses).        *)
THEOREM EveryRecordReparses == Spec => []FileReparses
<1>1. Spec => []LoopInv
  BY LoopInvStarts, LoopInvNext, PTL DEF Spec
<1> QED BY <1>1, LoopInvImplies, PTL

(* In every state, when the delivery is clean, the file holds the frames   *)
(* one after the other, and all of them when the device has ended          *)
(* (NoFrameLost).                                                          *)
THEOREM EveryFrameStored == Spec => []NoFrameLost
<1>1. Spec => []LoopInv
  BY LoopInvStarts, LoopInvNext, PTL DEF Spec
<1> QED BY <1>1, LoopInvImplies, PTL

-----------------------------------------------------------------------------
(* The file of the Windows build: a record that is being written, of which *)
(* so many units are still to come, and one that was cut off               *)
UnderWay(data, n, left) ==
  /\ n > 0
  /\ \E m \in 0..Len(data) : /\ Chain(data, n - 1, m)
                             /\ m + 4 <= Len(data) /\ MagicAt(data, m)
                             /\ data[m + 3] <= MAX_MESSAGE_SIZE
                             /\ EndOf(data, m) = Len(data) + left

CutOff(data, n) == n > 0 /\ \E m \in 0..Len(data) : Chain(data, n - 1, m)

LEMMA UnderWayCut ==
  ASSUME NEW data, NEW n, NEW left, UnderWay(data, n, left)
  PROVE  CutOff(data, n)
  BY Zenon DEF UnderWay, CutOff

LEMMA UnderWayEnds ==
  ASSUME NEW data \in Seq(Nat), NEW n \in Nat, UnderWay(data, n, 0)
  PROVE  Whole(data, n)
<1>1. PICK m \in 0..Len(data) :
        /\ Chain(data, n - 1, m) /\ m + 4 <= Len(data) /\ MagicAt(data, m)
        /\ data[m + 3] <= MAX_MESSAGE_SIZE /\ EndOf(data, m) = Len(data) + 0
  BY Zenon DEF UnderWay
<1>2. m \in Nat /\ n - 1 \in Nat /\ (n - 1) + 1 = n /\ Len(data) + 0 = Len(data)
      /\ Len(data) <= Len(data)
  BY DEF UnderWay
<1>3. RecordAt(data, m)
  BY <1>1, <1>2, Sizes DEF RecordAt
<1>4. Chain(data, (n - 1) + 1, EndOf(data, m))
  BY <1>1, <1>2, <1>3, ChainGrows, Zenon
<1> QED BY <1>1, <1>2, <1>4, Zenon DEF Whole

LEMMA UnderWayBegins ==
  ASSUME NEW data \in Seq(Nat), NEW n \in Nat, Whole(data, n),
         NEW h \in Seq(Nat), Len(h) = 4, MagicAt(h, 0), h[3] <= MAX_MESSAGE_SIZE
  PROVE  UnderWay(data \o h, n + 1, h[3])
<1> DEFINE d == data \o h
           m == Len(data)
<1>1. /\ d \in Seq(Nat) /\ m \in Nat /\ Len(d) = m + 4 /\ h[3] \in Nat
      /\ \A j \in {1, 2, 3} : d[m + j] = h[j]
  <2>1. d \in Seq(Nat) /\ m \in Nat /\ h[3] \in Nat
    <3>1. 3 \in 1..Len(h)
      OBVIOUS
    <3>2. h[3] \in Nat
      BY <3>1, ElementOfSeq, Zenon
    <3> QED BY <3>2
  <2>2. Len(d) = m + 4 /\ \A j \in 1..(m + 4) : d[j] = IF j <= m THEN data[j] ELSE h[j - m]
    <3>1. /\ Len(d) = m + Len(h)
          /\ \A j \in 1..(m + Len(h)) : d[j] = IF j <= m THEN data[j] ELSE h[j - m]
      BY ConcatProperties, Zenon
    <3> QED BY <3>1, Zenon
  <2>3. \A j \in {1, 2, 3} : m + j \in 1..(m + 4) /\ ~(m + j <= m) /\ (m + j) - m = j
    OBVIOUS
  <2> HIDE DEF d, m
  <2>4. \A j \in {1, 2, 3} : d[m + j] = h[j]
    BY <2>2, <2>3, Zenon
  <2> QED BY <2>1, <2>2, <2>4, Zenon
<1>2. Chain(d, n, m)
  BY <1>1, ChainStays, Zenon DEF Whole
<1> HIDE DEF d, m
<1>3. m \in 0..Len(d) /\ m + 4 <= Len(d) /\ n + 1 > 0 /\ (n + 1) - 1 = n
  BY <1>1
<1>4. d[m + 3] = h[3] /\ d[m + 1] = h[1] /\ d[m + 2] = h[2]
  BY <1>1
<1>5. MagicAt(d, m)
  <2>1. h[1] = Magic[1] /\ h[2] = Magic[2]
    BY MagicFirst, Zenon
  <2>2. m + 2 <= Len(d)
    BY <1>1
  <2> QED BY <1>1, <1>4, <2>1, <2>2, MagicUnits, Zenon
<1>6. EndOf(d, m) = Len(d) + h[3]
  <2>1. META_SIZE = 4 /\ LENGTH = 3
    BY Sizes
  <2> QED BY <1>1, <1>4, <2>1, Zenon DEF EndOf
<1>7. UnderWay(d, n + 1, h[3])
  BY <1>2, <1>3, <1>4, <1>5, <1>6, Zenon DEF UnderWay
<1> QED BY <1>7, Zenon DEF d

LEMMA UnderWayGoesOn ==
  ASSUME NEW data \in Seq(Nat), NEW n \in Nat, NEW left \in Nat, UnderWay(data, n, left),
         NEW s \in Seq(Nat), Len(s) <= left
  PROVE  UnderWay(data \o s, n, left - Len(s))
<1> DEFINE d == data \o s
<1>1. PICK m \in 0..Len(data) :
        /\ Chain(data, n - 1, m) /\ m + 4 <= Len(data) /\ MagicAt(data, m)
        /\ data[m + 3] <= MAX_MESSAGE_SIZE /\ EndOf(data, m) = Len(data) + left
  BY Zenon DEF UnderWay
<1>2. /\ n > 0 /\ n - 1 \in Nat /\ m \in Nat /\ Len(s) \in Nat /\ Len(data) \in Nat
  BY DEF UnderWay
<1>3. /\ d \in Seq(Nat) /\ Len(d) = Len(data) + Len(s)
      /\ \A j \in 1..Len(data) : d[j] = data[j]
  OBVIOUS
<1>4. Chain(d, n - 1, m)
  BY <1>1, <1>2, ChainStays, Zenon
<1> HIDE DEF d
<1>5. m \in 0..Len(d) /\ m + 4 <= Len(d) /\ m + 2 <= Len(d) /\ m + 2 <= Len(data)
  <2>1. m + 4 <= Len(data)
    BY <1>1, Zenon
  <2> QED BY <1>2, <1>3, <2>1
<1>6. d[m + 1] = data[m + 1] /\ d[m + 2] = data[m + 2] /\ d[m + 3] = data[m + 3]
  <2>1. m + 1 \in 1..Len(data) /\ m + 2 \in 1..Len(data) /\ m + 3 \in 1..Len(data)
    BY <1>1, <1>2
  <2> QED BY <1>3, <2>1, Zenon
<1>7. MagicAt(d, m)
  <2>1. data[m + 1] = Magic[1] /\ data[m + 2] = Magic[2]
    BY <1>1, <1>2, MagicUnits, Zenon
  <2> QED BY <1>2, <1>3, <1>5, <1>6, <2>1, MagicUnits, Zenon
<1>8. EndOf(d, m) = Len(d) + (left - Len(s))
  <2>1. META_SIZE = 4 /\ LENGTH = 3
    BY Sizes
  <2>2. EndOf(d, m) = EndOf(data, m)
    BY <1>6, <2>1, Zenon DEF EndOf
  <2> QED BY <1>1, <1>2, <1>3, <2>2
<1>9. UnderWay(d, n, left - Len(s))
  BY <1>1, <1>2, <1>4, <1>5, <1>6, <1>7, <1>8, Zenon DEF UnderWay
<1> QED BY <1>9, Zenon DEF d

(* What the analysis reads where a record was cut off                      *)
LEMMA CutOffRead ==
  ASSUME NEW data \in Seq(Nat), NEW n \in Nat, Whole(data, n) \/ CutOff(data, n)
  PROVE  Len(parse_binary(data).records) >= n - 1
<1>1. CASE Whole(data, n)
  <2>1. Len(parse_binary(data).records) = n
    BY <1>1, WholeRead, Zenon
  <2> QED BY <2>1
<1>2. CASE CutOff(data, n)
  <2>1. PICK m \in 0..Len(data) : Chain(data, n - 1, m)
    BY <1>2, Zenon DEF CutOff
  <2>2. n - 1 \in Nat
    BY <1>2 DEF CutOff
  <2> QED BY <2>1, <2>2, ChainRead, Zenon
<1> QED BY <1>1, <1>2

-----------------------------------------------------------------------------
(* The Windows build while it captures: what it wants and holds where it   *)
(* stands, and what its file is then.  Untouched is how everything is      *)
(* before.                                                                 *)
WTyped ==
  /\ reading \in {"none", "window", "look", "next", "meta", "payload"}
  /\ bus \in Seq(Nat) /\ window \in Seq(Nat) /\ buffer \in Seq(Nat)
  /\ log_file \in Seq(Nat)
  /\ remaining \in Nat /\ packet_count \in Nat

Untouched ==
  /\ reading = "none" /\ window = <<>> /\ buffer = <<>> /\ log_file = <<>>
  /\ packet_count = 0 /\ remaining = 0 /\ bus = Delivery(input)

InBuffers ==
  /\ Len(buffer) <= Wanted
  /\ reading \in {"look", "next", "meta"} => Len(window) = 2
  /\ reading = "meta" => window = Magic
  /\ reading \in {"none", "window", "payload"} => window = <<>>

FileSound ==
  /\ reading \in {"window", "look", "next", "meta"} => Whole(log_file, packet_count)
  /\ reading = "payload" => UnderWay(log_file, packet_count, remaining)

Ended == Whole(log_file, packet_count) \/ CutOff(log_file, packet_count)

Capturing == program = "ground_control_windows" /\ at = "capture"

WFile ==
  /\ WTyped
  /\ program = "sniffer_storage" \/ at \notin {"capture", "exited"} => Untouched
  /\ reading = "none" => Whole(log_file, packet_count) \/ (~running /\ Ended)
  /\ Capturing => InBuffers /\ FileSound
  /\ program = "ground_control_windows" /\ at = "exited" /\ exit_code = 0 => ~running /\ Ended

LEMMA UntouchedIsSound ==
  ASSUME input \in Inputs, Untouched
  PROVE  /\ WTyped /\ Whole(log_file, packet_count) /\ InBuffers /\ FileSound
<1>1. /\ reading = "none" /\ window = <<>> /\ buffer = <<>> /\ log_file = <<>>
      /\ packet_count = 0 /\ remaining = 0 /\ bus = Delivery(input)
  BY DEF Untouched
<1>2. bus \in Seq(Nat)
  BY <1>1, StartFacts, Zenon
<1>3. WTyped
  BY <1>1, <1>2 DEF WTyped
<1>4. Whole(log_file, packet_count)
  BY <1>1, WholeStarts, Zenon
<1>5. InBuffers
  BY <1>1 DEF InBuffers, Wanted
<1>6. FileSound
  BY <1>1 DEF FileSound
<1> QED BY <1>3, <1>4, <1>5, <1>6

LEMMA WFileStarts == ToolsInit => WFile
<1> SUFFICES ASSUME ToolsInit PROVE WFile
  OBVIOUS
<1>1. Untouched /\ at = "options" /\ input \in Inputs
  BY DEF ToolsInit, Init, WindowsInit, LibusbInit, Untouched
<1>2. WTyped /\ Whole(log_file, packet_count) /\ InBuffers /\ FileSound
  BY <1>1, UntouchedIsSound
<1> QED BY <1>1, <1>2 DEF WFile

(* The program ends: its file is as it was, or what was left out counts.   *)
LEMMA WFileExits ==
  ASSUME WFile, WTyped', program' = "ground_control_windows", at' = "exited",
         reading' = "none" => (Whole(log_file, packet_count) \/ (~running /\ Ended))',
         exit_code' = 0 => (~running /\ Ended)'
  PROVE  WFile'
  BY DEF WFile, Capturing

LEMMA WFileGoesOn ==
  ASSUME WTyped', program' = "ground_control_windows", at' = "capture",
         reading' = "none" => (Whole(log_file, packet_count) \/ (~running /\ Ended))',
         InBuffers', FileSound'
  PROVE  WFile'
  BY DEF WFile, Capturing

LEMMA ReadUsbKeepsFile ==
  ASSUME WFile, Capturing, ReadUsb, program' = program
  PROVE  WFile'
<1>1. WTyped /\ InBuffers /\ FileSound
  BY DEF WFile
<1>2. /\ Len(buffer) < Wanted
      /\ input' = input /\ running' = running /\ reading' = reading /\ window' = window
      /\ remaining' = remaining /\ log_file' = log_file /\ packet_count' = packet_count
  BY DEF ReadUsb, storing
<1>3. PICK n \in 0..Least(Wanted - Len(buffer), Len(bus)) :
        /\ buffer' = buffer \o SubSeq(bus, 1, n)
        /\ bus' = SubSeq(bus, n + 1, Len(bus))
        /\ GoOn \/ Return(1)
  BY DEF ReadUsb
<1>4. Wanted \in Nat /\ Len(buffer) \in Nat /\ Len(bus) \in Nat
  <2>1. Wanted \in Nat
    BY <1>1, Sizes, WindowsAssumption DEF Wanted, WTyped, Least
  <2> QED BY <1>1, <2>1 DEF WTyped
<1>5. n \in Nat /\ n <= Len(bus) /\ Len(buffer) + n <= Wanted
  BY <1>2, <1>4 DEF Least
<1>6. /\ SubSeq(bus, 1, n) \in Seq(Nat) /\ Len(SubSeq(bus, 1, n)) = n
      /\ SubSeq(bus, n + 1, Len(bus)) \in Seq(Nat)
  BY <1>1, <1>5, Cut DEF WTyped
<1>7. buffer' \in Seq(Nat) /\ Len(buffer') = Len(buffer) + n
  BY <1>1, <1>3, <1>6 DEF WTyped
<1>8. WTyped'
  BY <1>1, <1>2, <1>3, <1>6, <1>7 DEF WTyped
<1>9. Wanted' = Wanted
  BY <1>2 DEF Wanted
<1>10. InBuffers' /\ FileSound'
  BY <1>1, <1>2, <1>5, <1>7, <1>9 DEF InBuffers, FileSound
<1>11. reading' = "none" => (Whole(log_file, packet_count) \/ (~running /\ Ended))'
  BY <1>2 DEF WFile, Ended
<1>12. CASE GoOn
  BY <1>8, <1>10, <1>11, <1>12, WFileGoesOn DEF GoOn, Capturing
<1>13. CASE Return(1)
  BY <1>8, <1>11, <1>13, WFileExits DEF Return, Quit, Capturing
<1> QED BY <1>3, <1>12, <1>13

(* The program ends with nothing written.                                  *)
LEMMA ReturnKeepsFile ==
  ASSUME WFile, Capturing, program' = program, NEW code, Return(code),
         UNCHANGED <<running, bus, reading, window, buffer, remaining, storing>>,
         code = 0 => ~running /\ Ended
  PROVE  WFile'
<1>1. /\ running' = running /\ bus' = bus /\ reading' = reading /\ window' = window
      /\ buffer' = buffer /\ remaining' = remaining
      /\ log_file' = log_file /\ packet_count' = packet_count
      /\ at' = "exited" /\ exit_code' = code
  BY DEF storing, Return, Quit
<1>2. WTyped'
  BY <1>1 DEF WFile, WTyped
<1>3. reading' = "none" => (Whole(log_file, packet_count) \/ (~running /\ Ended))'
  BY <1>1 DEF WFile, Ended
<1>4. exit_code' = 0 => (~running /\ Ended)'
  BY <1>1 DEF Ended
<1> QED BY <1>1, <1>2, <1>3, <1>4, WFileExits DEF Capturing

LEMMA WindowReadKeepsFile ==
  ASSUME WFile, Capturing, WindowRead, program' = program
  PROVE  WFile'
<1>1. /\ WTyped /\ InBuffers /\ FileSound /\ Returned /\ reading \in {"window", "next"}
      /\ Whole(log_file, packet_count)
  BY DEF WFile, WindowRead, FileSound
<1>2. UNCHANGED <<running, bus, remaining, storing>>
  BY DEF WindowRead, device
<1>3. CASE Stopped
  <2>1. Return(0) /\ UNCHANGED <<reading, window, buffer>>
    BY <1>3 DEF WindowRead
  <2>2. ~running
    <3>1. Wanted \in Nat /\ Len(buffer) \in Nat /\ Len(buffer) < Wanted
      BY <1>1, <1>3, Sizes, WindowsAssumption DEF Wanted, WTyped, Least, Stopped
    <3> QED BY <1>1, <3>1 DEF Returned
  <2> QED BY <1>1, <1>2, <2>1, <2>2, ReturnKeepsFile DEF Ended
<1>4. CASE ~Stopped
  <2>1. /\ window' = (IF reading = "next" THEN Tail(window) ELSE <<>>) \o buffer
        /\ buffer' = <<>> /\ reading' = "look" /\ GoOn
    BY <1>4 DEF WindowRead
  <2>2. /\ log_file' = log_file /\ packet_count' = packet_count /\ running' = running
        /\ bus' = bus /\ remaining' = remaining /\ at' = "capture"
    BY <1>2, <2>1 DEF storing, GoOn, Capturing
  <2>3. window' \in Seq(Nat) /\ Len(window') = 2
    <3>1. buffer \in Seq(Nat) /\ window \in Seq(Nat) /\ Len(buffer) = Wanted
      <4>1. buffer \in Seq(Nat) /\ window \in Seq(Nat) /\ Len(buffer) \in Nat
            /\ Len(buffer) <= Wanted /\ ~(Len(buffer) < Wanted)
        BY <1>1, <1>4 DEF WTyped, Stopped, InBuffers
      <4>2. Wanted \in Nat
        BY <1>1, Sizes, WindowsAssumption DEF Wanted
      <4> QED BY <4>1, <4>2
    <3>2. CASE reading = "window"
      <4>1. Len(buffer) = 2 /\ window' = <<>> \o buffer
        BY <2>1, <3>1, <3>2, Sizes DEF Wanted
      <4> QED BY <3>1, <4>1
    <3>3. CASE reading = "next"
      <4>1. Len(buffer) = 1 /\ window' = Tail(window) \o buffer /\ Len(window) = 2
        BY <1>1, <2>1, <3>1, <3>3 DEF Wanted, InBuffers
      <4>2. Tail(window) \in Seq(Nat) /\ Len(Tail(window)) = 1
        <5>1. window # <<>>
          BY <4>1
        <5>2. Tail(window) \in Seq(Nat) /\ Len(Tail(window)) = Len(window) - 1
          BY <3>1, <5>1, HeadTailProperties, Zenon
        <5> QED BY <4>1, <5>2
      <4>3. /\ Tail(window) \o buffer \in Seq(Nat)
            /\ Len(Tail(window) \o buffer) = Len(Tail(window)) + Len(buffer)
        BY <3>1, <4>2, ConcatProperties, Zenon
      <4>4. Len(Tail(window)) + Len(buffer) = 2
        BY <4>1, <4>2
      <4> QED BY <4>1, <4>3, <4>4, Zenon
    <3> QED BY <1>1, <3>2, <3>3
  <2>4. WTyped'
    BY <1>1, <2>1, <2>2, <2>3 DEF WTyped
  <2>5. InBuffers'
    BY <2>1, <2>3 DEF InBuffers, Wanted
  <2>6. FileSound'
    BY <1>1, <2>1, <2>2 DEF FileSound
  <2> QED BY <2>1, <2>2, <2>4, <2>5, <2>6, WFileGoesOn DEF Capturing
<1> QED BY <1>3, <1>4

LEMMA LookKeepsFile ==
  ASSUME WFile, Capturing, Look, program' = program
  PROVE  WFile'
<1>1. /\ WTyped /\ InBuffers /\ FileSound /\ reading = "look"
      /\ Whole(log_file, packet_count) /\ Len(buffer) = 0 /\ Len(window) = 2
  <2>1. WTyped /\ InBuffers /\ FileSound /\ reading = "look"
    BY DEF WFile, Look
  <2>2. Wanted = 0
    BY <2>1 DEF Wanted
  <2> QED BY <2>1, <2>2 DEF WTyped, InBuffers, FileSound
<1>2. UNCHANGED <<running, bus, window, buffer, remaining, storing>>
  BY DEF Look, device
<1>3. CASE ~running
  BY <1>1, <1>2, <1>3, ReturnKeepsFile DEF Look, Ended
<1>4. CASE running
  <2>1. /\ reading' = IF window = Magic THEN "meta" ELSE "next"
        /\ log_file' = log_file /\ packet_count' = packet_count /\ running' = running
        /\ bus' = bus /\ remaining' = remaining /\ at' = "capture"
        /\ window' = window /\ buffer' = buffer
    BY <1>2, <1>4 DEF Look, storing, GoOn, Capturing
  <2>2. WTyped'
    BY <1>1, <2>1 DEF WTyped
  <2>3. InBuffers'
    <3>1. Wanted' = IF reading' = "meta" THEN 2 ELSE 1
      BY <2>1, Sizes DEF Wanted
    <3> QED BY <1>1, <2>1, <3>1 DEF InBuffers
  <2>4. FileSound'
    BY <1>1, <2>1 DEF FileSound
  <2> QED BY <2>1, <2>2, <2>3, <2>4, WFileGoesOn DEF Capturing
<1> QED BY <1>3, <1>4

(* The metadata of a record is written, or a part of it                    *)
LEMMA MetaReadKeepsFile ==
  ASSUME WFile, Capturing, MetaRead, program' = program
  PROVE  WFile'
<1>1. /\ WTyped /\ InBuffers /\ FileSound /\ reading = "meta" /\ ~Stopped
      /\ Whole(log_file, packet_count) /\ window = Magic
  BY DEF WFile, MetaRead, FileSound, InBuffers
<1>2. Len(buffer) = 2 /\ buffer \in Seq(Nat) /\ buffer[1] \in Nat
  <2>1. Wanted = 2
    BY <1>1, Sizes DEF Wanted
  <2>2. ~(Len(buffer) < 2) /\ Len(buffer) <= 2
    BY <1>1, <2>1, Zenon DEF InBuffers, Stopped
  <2>3. buffer \in Seq(Nat)
    BY <1>1 DEF WTyped
  <2>4. Len(buffer) = 2
    <3>1. Len(buffer) \in Nat
      BY <2>3
    <3>2. \A x \in Nat : x <= 2 /\ ~(x < 2) => x = 2
      OBVIOUS
    <3> QED BY <2>2, <3>1, <3>2, Zenon
  <2>5. 1 \in 1..Len(buffer)
    BY <2>4
  <2> QED BY <2>3, <2>4, <2>5, ElementOfSeq, Zenon
<1>3. /\ buffer' = <<>> /\ bus' = bus /\ running' = running /\ input' = input
  BY DEF MetaRead, device
<1>4. CASE buffer[1] > MAX_MESSAGE_SIZE /\ reading' = "next" /\ GoOn
           /\ UNCHANGED <<window, remaining, storing>>
  <2>1. /\ window' = window /\ remaining' = remaining /\ log_file' = log_file
        /\ packet_count' = packet_count /\ at' = "capture" /\ reading' = "next"
    BY <1>4 DEF storing, GoOn, Capturing
  <2>2. WTyped'
    BY <1>1, <1>3, <2>1 DEF WTyped
  <2>3. InBuffers'
    <3>1. Wanted' = 1
      BY <2>1 DEF Wanted
    <3> QED BY <1>1, <1>3, <2>1, <3>1 DEF InBuffers
  <2>4. FileSound'
    BY <1>1, <2>1 DEF FileSound
  <2> QED BY <2>1, <2>2, <2>3, <2>4, WFileGoesOn DEF Capturing
<1>5. CASE buffer[1] <= MAX_MESSAGE_SIZE /\ Write(window \o buffer, "payload")
           /\ packet_count' = packet_count + 1 /\ remaining' = buffer[1] /\ window' = <<>>
  <2> DEFINE h == window \o buffer
  <2>1. h \in Seq(Nat) /\ Len(h) = 4 /\ MagicAt(h, 0) /\ h[3] = buffer[1]
    <3>1. window \in Seq(Nat) /\ Len(window) = 2
      BY <1>1, Sizes
    <3>2. /\ h \in Seq(Nat) /\ Len(h) = Len(window) + Len(buffer)
          /\ \A i \in 1..(Len(window) + Len(buffer)) :
               h[i] = IF i <= Len(window) THEN window[i] ELSE buffer[i - Len(window)]
      BY <1>2, <3>1, ConcatProperties, Zenon
    <3> HIDE DEF h
    <3>3. Len(h) = 4
      BY <1>2, <3>1, <3>2
    <3>4. h[1] = window[1] /\ h[2] = window[2] /\ h[3] = buffer[1]
      <4>1. Len(window) + Len(buffer) = 4
        BY <1>2, <3>1
      <4>2. \A i \in 1..4 : h[i] = IF i <= 2 THEN window[i] ELSE buffer[i - 2]
        BY <3>1, <3>2, <4>1, Zenon
      <4> QED BY <4>2
    <3>5. MagicAt(h, 0)
      <4>1. Len(h) >= 2
        BY <3>3
      <4> QED BY <1>1, <3>2, <3>4, <4>1, MagicFirst, Zenon
    <3> QED BY <3>2, <3>3, <3>4, <3>5
  <2> HIDE DEF h
  <2>2. /\ Write(h, "payload") /\ packet_count' = packet_count + 1 /\ remaining' = buffer[1]
        /\ window' = <<>> /\ buffer[1] <= MAX_MESSAGE_SIZE
    BY <1>5 DEF h
  <2>3. log_file \in Seq(Nat) /\ packet_count \in Nat
    BY <1>1 DEF WTyped
  <2>4. CASE log_file' = log_file \o h /\ reading' = "payload" /\ GoOn
    <3>1. UnderWay(log_file', packet_count', remaining')
      <4>1. UnderWay(log_file \o h, packet_count + 1, h[3])
        <5>1. h[3] <= MAX_MESSAGE_SIZE
          BY <2>1, <2>2
        <5> QED BY <1>1, <2>1, <2>3, <5>1, UnderWayBegins, Zenon
      <4> QED BY <2>1, <2>2, <2>4, <4>1, Zenon
    <3>2. WTyped'
      <4>1. log_file' \in Seq(Nat) /\ packet_count' \in Nat
        BY <2>1, <2>2, <2>3, <2>4
      <4> QED BY <1>1, <1>2, <1>3, <2>2, <2>4, <4>1 DEF WTyped
    <3>3. InBuffers'
      <4>1. Wanted' \in Nat
        BY <1>2, <2>2, <2>4, WindowsAssumption DEF Wanted, Least
      <4> QED BY <1>3, <2>2, <2>4, <4>1 DEF InBuffers
    <3>4. FileSound'
      BY <2>4, <3>1 DEF FileSound
    <3>5. at' = "capture"
      BY <2>4 DEF GoOn, Capturing
    <3> QED BY <2>4, <3>2, <3>3, <3>4, <3>5, WFileGoesOn DEF Capturing
  <2>5. CASE (\E n \in 0..(Len(h) - 1) : log_file' = log_file \o SubSeq(h, 1, n))
             /\ Return(1) /\ UNCHANGED reading
    <3>1. WTyped'
      <4>1. PICK n \in 0..(Len(h) - 1) : log_file' = log_file \o SubSeq(h, 1, n)
        BY <2>5
      <4>2. SubSeq(h, 1, n) \in Seq(Nat)
        <5>1. h \in Seq(Nat) /\ n <= Len(h) /\ n \in Nat
          BY <2>1
        <5> HIDE DEF h
        <5> QED BY <5>1
      <4>3. log_file' \in Seq(Nat) /\ packet_count' \in Nat
        BY <2>2, <2>3, <4>1, <4>2
      <4> QED BY <1>1, <1>2, <1>3, <2>2, <2>5, <4>3 DEF WTyped
    <3>2. reading' = "meta"
      BY <1>1, <2>5
    <3> QED BY <2>5, <3>1, <3>2, WFileExits DEF Return, Quit, Capturing
  <2> QED BY <2>2, <2>4, <2>5 DEF Write
<1> QED BY <1>4, <1>5 DEF MetaRead

LEMMA MetaStoppedKeepsFile ==
  ASSUME WFile, Capturing, MetaStopped, program' = program
  PROVE  WFile'
<1>1. /\ WTyped /\ InBuffers /\ FileSound /\ reading = "meta" /\ Stopped /\ Returned
      /\ Whole(log_file, packet_count)
  BY DEF WFile, MetaStopped, FileSound
<1>2. ~running
  <2>1. Wanted = 2 /\ Len(buffer) \in Nat
    BY <1>1, Sizes DEF Wanted, WTyped
  <2> QED BY <1>1, <2>1 DEF Returned, Stopped
<1>3. Return(0) /\ UNCHANGED <<running, bus, reading, window, buffer, remaining, storing>>
  BY DEF MetaStopped, device
<1> QED BY <1>1, <1>2, <1>3, ReturnKeepsFile DEF Ended

LEMMA NextPacketKeepsFile ==
  ASSUME WFile, Capturing, NextPacket, program' = program
  PROVE  WFile'
<1>1. /\ WTyped /\ InBuffers /\ FileSound /\ reading = "none" /\ window = <<>>
      /\ Whole(log_file, packet_count) \/ (~running /\ Ended)
  BY DEF WFile, NextPacket, InBuffers
<1>2. UNCHANGED <<running, bus, window, buffer, remaining, storing>>
  BY DEF NextPacket, device
<1>3. CASE running /\ reading' = "window" /\ GoOn
  <2>1. /\ window' = window /\ remaining' = remaining /\ log_file' = log_file
        /\ buffer' = buffer /\ bus' = bus
        /\ packet_count' = packet_count /\ at' = "capture" /\ reading' = "window"
    BY <1>2, <1>3 DEF storing, GoOn, Capturing
  <2>2. Len(buffer) = 0
    <3>1. Wanted = 0
      BY <1>1 DEF Wanted
    <3> QED BY <1>1, <3>1 DEF WTyped, InBuffers
  <2>3. WTyped'
    BY <1>1, <2>1 DEF WTyped
  <2>4. InBuffers'
    <3>1. Wanted' = 2
      BY <2>1, Sizes DEF Wanted
    <3> QED BY <1>1, <2>1, <2>2, <3>1 DEF InBuffers
  <2>5. FileSound'
    BY <1>1, <1>3, <2>1 DEF FileSound
  <2> QED BY <2>1, <2>3, <2>4, <2>5, WFileGoesOn DEF Capturing
<1>4. CASE ~running /\ Return(0) /\ UNCHANGED reading
  BY <1>1, <1>2, <1>4, ReturnKeepsFile DEF Ended
<1> QED BY <1>3, <1>4 DEF NextPacket

(* A piece of the payload is written, or a part of it                      *)
LEMMA StorePieceKeepsFile ==
  ASSUME WFile, Capturing, StorePiece, program' = program
  PROVE  WFile'
<1>1. /\ WTyped /\ InBuffers /\ FileSound /\ reading = "payload" /\ window = <<>>
      /\ UnderWay(log_file, packet_count, remaining)
  BY DEF WFile, StorePiece, FileSound, InBuffers
<1>2. /\ buffer \in Seq(Nat) /\ Len(buffer) \in Nat /\ Len(buffer) <= remaining
      /\ remaining \in Nat /\ log_file \in Seq(Nat) /\ packet_count \in Nat
  <2>1. remaining \in Nat /\ Len(buffer) \in Nat /\ Len(buffer) <= Wanted
    BY <1>1 DEF WTyped, InBuffers
  <2>2. Wanted <= remaining
    BY <1>1, <2>1, WindowsAssumption DEF Wanted, Least
  <2>3. Wanted \in Nat
    BY <1>1, <2>1, WindowsAssumption DEF Wanted, Least
  <2> QED BY <1>1, <2>1, <2>2, <2>3 DEF WTyped
<1>3. /\ remaining' = remaining - Len(buffer) /\ buffer' = <<>> /\ window' = window
      /\ packet_count' = packet_count /\ bus' = bus /\ running' = running
      /\ Write(buffer, "payload")
  BY DEF StorePiece, device
<1>4. remaining' \in Nat
  BY <1>2, <1>3
<1>5. CASE log_file' = log_file \o buffer /\ reading' = "payload" /\ GoOn
  <2>1. UnderWay(log_file', packet_count', remaining')
    <3>1. UnderWay(log_file \o buffer, packet_count, remaining - Len(buffer))
      BY <1>1, <1>2, UnderWayGoesOn, Zenon
    <3> QED BY <1>3, <1>5, <3>1, Zenon
  <2>2. WTyped'
    BY <1>1, <1>2, <1>3, <1>4, <1>5 DEF WTyped
  <2>3. InBuffers'
    <3>1. Wanted' \in Nat
      BY <1>4, <1>5, WindowsAssumption DEF Wanted, Least
    <3> QED BY <1>1, <1>3, <1>5, <3>1 DEF InBuffers
  <2>4. FileSound'
    BY <1>5, <2>1 DEF FileSound
  <2>5. at' = "capture"
    BY <1>5 DEF GoOn, Capturing
  <2> QED BY <1>5, <2>2, <2>3, <2>4, <2>5, WFileGoesOn DEF Capturing
<1>6. CASE (\E n \in 0..(Len(buffer) - 1) : log_file' = log_file \o SubSeq(buffer, 1, n))
           /\ Return(1) /\ UNCHANGED reading
  <2>1. PICK n \in 0..(Len(buffer) - 1) : log_file' = log_file \o SubSeq(buffer, 1, n)
    BY <1>6
  <2>2. SubSeq(buffer, 1, n) \in Seq(Nat)
    BY <1>2
  <2>3. log_file' \in Seq(Nat)
    BY <1>2, <2>1, <2>2
  <2>4. WTyped'
    BY <1>1, <1>2, <1>3, <1>4, <1>6, <2>3 DEF WTyped
  <2> QED BY <1>1, <1>6, <2>4, WFileExits DEF Return, Quit, Capturing
<1> QED BY <1>3, <1>5, <1>6 DEF Write

LEMMA PacketEndsKeepsFile ==
  ASSUME WFile, Capturing, PacketEnds, program' = program
  PROVE  WFile'
<1>1. /\ WTyped /\ InBuffers /\ FileSound /\ reading = "payload"
      /\ window = <<>> /\ UnderWay(log_file, packet_count, remaining)
  BY DEF WFile, PacketEnds, InBuffers, FileSound
<1>2. /\ buffer = <<>> /\ buffer' = buffer /\ remaining' = 0 /\ reading' = "none"
      /\ window' = window /\ log_file' = log_file /\ packet_count' = packet_count
      /\ bus' = bus /\ running' = running /\ at' = "capture"
      /\ remaining = 0 \/ ~running
  BY DEF PacketEnds, device, storing, GoOn, Capturing
<1>3. WTyped'
  BY <1>1, <1>2 DEF WTyped
<1>4. InBuffers' /\ FileSound'
  BY <1>1, <1>2 DEF InBuffers, FileSound, Wanted
<1>5. Whole(log_file, packet_count) \/ (~running /\ Ended)
  <2>1. CASE remaining = 0
    BY <1>1, <2>1, UnderWayEnds DEF WTyped
  <2>2. CASE ~running
    BY <1>1, <2>2, UnderWayCut, Zenon DEF Ended
  <2> QED BY <1>2, <2>1, <2>2
<1>6. (Whole(log_file, packet_count) \/ (~running /\ Ended))'
  BY <1>2, <1>5 DEF Ended
<1> QED BY <1>2, <1>3, <1>4, <1>6, WFileGoesOn DEF Capturing

-----------------------------------------------------------------------------
(* Steps besides the capture itself                                        *)
LEMMA OpeningKeepsFile ==
  ASSUME WFile, input \in Inputs, program = "ground_control_windows", program' = program,
         WindowsOpen \/ OpenLog, input' = input
  PROVE  WFile'
<1>1. at \notin {"capture", "exited"}
  BY DEF WindowsOpen, OpenLog, OpenContext, open_matching_device, OpenEnumerate, OpenSelect, OpenClaim
<1>2. Untouched
  BY <1>1 DEF WFile
<1>3. Untouched'
  BY <1>2 DEF Untouched, WindowsOpen, OpenLog, device, storing
<1>4. WTyped' /\ (Whole(log_file, packet_count))' /\ InBuffers' /\ FileSound'
  BY <1>2, <1>3, UntouchedIsSound DEF Untouched, WTyped, InBuffers, FileSound, Wanted
<1>5. at' = "exited" => exit_code' = 1
  BY <1>1 DEF WindowsOpen, OpenLog, OpenContext, open_matching_device, OpenEnumerate, OpenSelect,
              OpenClaim, Refuse, To, Quit
<1> QED BY <1>3, <1>4, <1>5 DEF WFile

LEMMA SignalKeepsFile ==
  ASSUME WFile, program = "ground_control_windows", program' = program, handle_sigint
  PROVE  WFile'
<1>1. /\ UNCHANGED <<input, bus, reading, window, buffer, remaining, log_file, packet_count>>
      /\ at' = at /\ at # "exited" /\ running' = FALSE
  BY DEF handle_sigint, GoOn, storing
<1>2. WTyped' /\ (Untouched => Untouched') /\ (InBuffers => InBuffers') /\ (FileSound => FileSound')
  BY <1>1 DEF WFile, WTyped, Untouched, InBuffers, FileSound, Wanted
<1>3. reading' = "none" => (Whole(log_file, packet_count) \/ (~running /\ Ended))'
  BY <1>1 DEF WFile, Ended
<1> QED BY <1>1, <1>2, <1>3 DEF WFile, Capturing

LEMMA OthersKeepFile ==
  ASSUME WFile, program' = program, UNCHANGED <<input, windows>>,
         program = "sniffer_storage" \/ UNCHANGED <<at, exit_code, running>>
  PROVE  WFile'
<1>1. /\ bus' = bus /\ reading' = reading /\ window' = window /\ buffer' = buffer
      /\ remaining' = remaining /\ log_file' = log_file /\ packet_count' = packet_count
      /\ input' = input
  BY DEF windows
<1>2. WTyped' /\ (Untouched => Untouched') /\ (InBuffers => InBuffers') /\ (FileSound => FileSound')
  BY <1>1 DEF WFile, WTyped, Untouched, InBuffers, FileSound, Wanted
<1>3. CASE program = "sniffer_storage"
  <2>1. Untouched /\ Untouched'
    BY <1>2, <1>3 DEF WFile
  <2>2. (Whole(log_file, packet_count))'
    BY <1>1, <2>1, WholeStarts DEF Untouched
  <2>3. program' = "sniffer_storage"
    BY <1>3
  <2> QED BY <1>2, <2>1, <2>2, <2>3 DEF WFile, Capturing
<1>4. CASE program # "sniffer_storage"
  <2>1. at' = at /\ exit_code' = exit_code /\ running' = running
    BY <1>4
  <2> QED BY <1>1, <1>2, <2>1 DEF WFile, Capturing, Ended
<1> QED BY <1>3, <1>4

LEMMA WindowsKeepFile ==
  ASSUME WFile, input \in Inputs, program = "ground_control_windows", program' = program,
         WindowsStep, input' = input
  PROVE  WFile'
<1>1. CASE WindowsOpen \/ OpenLog
  BY <1>1, OpeningKeepsFile
<1>2. CASE at = "capture"
  <2>1. Capturing
    BY <1>2 DEF Capturing
  <2>2. ~(WindowsOpen \/ OpenLog)
    BY <1>2 DEF WindowsOpen, OpenLog, OpenContext, open_matching_device, OpenEnumerate, OpenSelect,
                OpenClaim
  <2> QED BY <2>1, <2>2, ReadUsbKeepsFile, WindowReadKeepsFile, LookKeepsFile, MetaReadKeepsFile,
             MetaStoppedKeepsFile, NextPacketKeepsFile, StorePieceKeepsFile, PacketEndsKeepsFile,
             Zenon DEF WindowsStep
<1>3. (WindowsOpen \/ OpenLog) \/ at = "capture"
  BY DEF WindowsStep, ReadUsb, WindowRead, Look, MetaRead, MetaStopped, NextPacket, StorePiece,
         PacketEnds, Returned
<1> QED BY <1>1, <1>2, <1>3

LEMMA WFileNext ==
  ASSUME ToolsInv, WFile, [ToolsStep \/ ToolsSignal]_ToolsVars
  PROVE  WFile'
<1>0. input \in Inputs
  BY DEF ToolsInv, IInv, Typed
<1>1. CASE program = "sniffer_storage" /\ StorageStep /\ UNCHANGED <<program, windows>>
  <2>1. input' = input
    <3>1. CASE CaptureStep
      BY <3>1 DEF CaptureStep, Capture, NextRecord, Read, ReadStopped, MagicRead, Slide, WindowEnds,
                  Decode, Store, StoreFails, options, Finish, Discard, source
    <3>2. CASE ~CaptureStep
      BY <1>1, <3>2 DEF StorageStep, ParseOptions, Open, Transfer, TransferEnds, OpenFile,
                        CaptureReturns, CloseFile, Plot, Cleanup, options
    <3> QED BY <3>1, <3>2
  <2> QED BY <1>1, <2>1, OthersKeepFile
<1>2. CASE program = "ground_control_windows" /\ WindowsStep /\ UNCHANGED <<program, storage>>
  <2>1. input' = input
    BY <1>2 DEF WindowsStep, WindowsOpen, OpenLog, ReadUsb, WindowRead, Look, MetaRead,
                MetaStopped, NextPacket, StorePiece, PacketEnds, device
  <2> QED BY <1>0, <1>2, <2>1, WindowsKeepFile
<1>3. CASE program = "sniffer_storage" /\ StorageSignal /\ UNCHANGED <<program, windows>>
  BY <1>3, OthersKeepFile DEF StorageSignal, handle_signal, options
<1>4. CASE program = "ground_control_windows" /\ handle_sigint /\ UNCHANGED <<program, storage>>
  BY <1>4, SignalKeepsFile
<1>5. CASE UNCHANGED ToolsVars
  BY <1>5, OthersKeepFile DEF ToolsVars, windows
<1> QED BY <1>1, <1>2, <1>3, <1>4, <1>5 DEF ToolsStep, ToolsSignal

-----------------------------------------------------------------------------
(* The order of the units in the file of the Windows build: the file is    *)
(* the delivery from the first frame on, and what is in the window, in the *)
(* buffer and on the bus is the end of the delivery.                       *)
WRest == window \o (buffer \o bus)

Stored(i, log) ==
  /\ Len(i.torn) + Len(log) <= Len(Delivery(i))
  /\ log = Span(Delivery(i), Len(i.torn), Len(i.torn) + Len(log))

AtOutset(k, p, log) == k = 0 /\ p = 0 /\ log = <<>>
AtFrame(i, k, p, log) == p = Start(i, k) /\ Len(i.torn) + Len(log) = p

Stands(i, where, live, k, p, log, left) ==
  /\ where = "none" /\ live => AtOutset(k, p, log) \/ AtFrame(i, k, p, log)
  /\ where = "window" => AtOutset(k, p, log) \/ AtFrame(i, k, p, log)
  /\ where = "look" => (k = 0 /\ p <= Len(i.torn) /\ log = <<>>) \/ AtFrame(i, k, p, log)
  /\ where = "next" => k = 0 /\ p < Len(i.torn) /\ log = <<>>
  /\ where = "meta" => AtFrame(i, k, p, log)
  /\ where = "payload" => k > 0 /\ Len(i.torn) + Len(log) = p /\ p + left = Start(i, k)

WOrder ==
  CleanInput =>
    /\ packet_count \in 0..Len(input.frames) /\ Stored(input, log_file)
    /\ Capturing => /\ Ends(WRest, Delivery(input))
                    /\ Stands(input, reading, running, packet_count,
                              Offset(WRest, Delivery(input)), log_file, remaining)

LEMMA StoredStarts ==
  ASSUME NEW i \in Inputs
  PROVE  Stored(i, <<>>) /\ 0 \in 0..Len(i.frames)
<1>1. /\ Delivery(i) \in Seq(Nat) /\ Len(i.torn) \in Nat /\ Len(i.frames) \in Nat
      /\ Start(i, 0) = Len(i.torn)
  BY StartFacts, Zenon
<1>2. 0 \in 0..Len(i.frames)
  BY <1>1
<1>3. Len(i.torn) <= Len(Delivery(i))
  <2>1. Start(i, 0) \in Len(i.torn)..Len(Delivery(i))
    BY <1>2, StartFacts, Zenon
  <2> QED BY <1>1, <2>1
<1>4. Span(Delivery(i), Len(i.torn), Len(i.torn)) = <<>>
  BY <1>1, <1>3, SpanEmpty, Zenon
<1>5. Len(<<>>) = 0 /\ Len(i.torn) + 0 = Len(i.torn)
  BY <1>1
<1> QED BY <1>2, <1>3, <1>4, <1>5, Zenon DEF Stored

(* Units are written that follow those in the file.                        *)
LEMMA StoredGrows ==
  ASSUME NEW i \in Inputs, NEW log \in Seq(Nat), Stored(i, log),
         NEW s \in Seq(Nat), NEW t \in Seq(Nat), Ends(s \o t, Delivery(i)),
         Offset(s \o t, Delivery(i)) = Len(i.torn) + Len(log), NEW n \in 0..Len(s)
  PROVE  Stored(i, log \o SubSeq(s, 1, n))
<1> DEFINE D == Delivery(i)
           T == Len(i.torn)
           c == Len(log)
           x == SubSeq(s, 1, n)
           y == SubSeq(s, n + 1, Len(s))
<1>1. D \in Seq(Nat) /\ T \in Nat /\ c \in Nat /\ n \in Nat /\ n <= Len(s) /\ Len(D) \in Nat
  <2>1. D \in Seq(Nat) /\ T \in Nat
    BY StartFacts, Zenon
  <2> QED BY <2>1
<1>2. x \in Seq(Nat) /\ Len(x) = n /\ y \in Seq(Nat) /\ x \o y = s
  BY <1>1, Cut, Zenon
<1> HIDE DEF x, y, D, T, c
<1>3. s \o t = x \o (y \o t) /\ y \o t \in Seq(Nat)
  <2>1. (x \o y) \o t = x \o (y \o t)
    BY <1>2, Concatenated, Zenon
  <2>2. y \o t \in Seq(Nat)
    BY <1>2
  <2> QED BY <1>2, <2>1, <2>2, Zenon
<1>4. Ends(x \o (y \o t), D) /\ Offset(x \o (y \o t), D) = T + c
  BY <1>3, Zenon DEF D, T, c
<1>5. x = Span(D, T + c, (T + c) + n) /\ (T + c) + n <= Len(D)
  <2> DEFINE u == y \o t
  <2>0. u \in Seq(Nat) /\ Ends(x \o u, D) /\ Offset(x \o u, D) = T + c
    BY <1>3, <1>4
  <2> HIDE DEF u
  <2>1. Offset(x \o u, D) + Len(x) <= Len(D)
    BY <1>1, <1>2, <2>0, EndsIn, Zenon
  <2>2. x = Span(D, Offset(x \o u, D), Offset(x \o u, D) + Len(x))
    BY <1>1, <1>2, <2>0, EndsIn
  <2> QED BY <1>2, <2>0, <2>1, <2>2, Zenon
<1>6. log = Span(D, T, T + c)
  BY Zenon DEF Stored, D, T, c
<1>7. /\ T + c \in Nat /\ (T + c) + n \in Nat /\ T <= T + c /\ T + c <= (T + c) + n
      /\ (T + c) + n = T + (c + n)
  BY <1>1
<1>8. log \o x = Span(D, T, T + (c + n))
  <2>1. Span(D, T, T + c) \o Span(D, T + c, (T + c) + n) = Span(D, T, (T + c) + n)
    BY <1>1, <1>5, <1>7, SpansMeet, Zenon
  <2> QED BY <1>5, <1>6, <1>7, <2>1, Zenon
<1>9. Len(log \o x) = c + n
  <2>1. Len(log \o x) = Len(log) + Len(x)
    BY <1>2, ConcatProperties, Zenon
  <2> QED BY <1>2, <2>1, Zenon DEF c
<1> QED BY <1>5, <1>7, <1>8, <1>9, Zenon DEF Stored, D, T, c, x

(* What is in the file is a beginning of the frames.                       *)
LEMMA StoredBegins ==
  ASSUME NEW i \in Inputs, NEW log \in Seq(Nat), Stored(i, log)
  PROVE  IsPrefix(log, FlattenSeq(i.frames))
<1> DEFINE D == Delivery(i)
           T == Len(i.torn)
           c == Len(log)
           N == Len(i.frames)
           x == Upto(i.frames, N)
<1>1. /\ D \in Seq(Nat) /\ T \in Nat /\ N \in Nat /\ i.torn \in Seq(Nat) /\ D = i.torn \o x
      /\ i.frames \in Seq(Seq(Nat)) /\ \A k \in 0..N : Upto(i.frames, k) \in Seq(Nat)
  BY StartFacts, Zenon
<1>2. x \in Seq(Nat) /\ x = FlattenSeq(i.frames)
  <2>1. N \in 0..N
    BY <1>1
  <2>2. x \in Seq(Nat)
    BY <1>1, <2>1, Zenon
  <2>3. x = FlattenSeq(i.frames)
    BY <1>1, Flattening, Zenon
  <2> QED BY <2>2, <2>3, Zenon
<1>3. T + c <= Len(D) /\ log = Span(D, T, T + c) /\ c \in Nat
  <2>1. T + c <= Len(D) /\ log = Span(D, T, T + c)
    BY Zenon DEF Stored
  <2> QED BY <2>1
<1> HIDE DEF D, T, N, x, c
<1>4. Len(D) = T + Len(x) /\ Len(x) \in Nat
      /\ \A j \in 1..(T + Len(x)) : D[j] = IF j <= T THEN i.torn[j] ELSE x[j - T]
  <2>1. /\ Len(D) = Len(i.torn) + Len(x)
        /\ \A j \in 1..(Len(i.torn) + Len(x)) : D[j] = IF j <= Len(i.torn) THEN i.torn[j]
                                                       ELSE x[j - Len(i.torn)]
    BY <1>1, <1>2, ConcatProperties, Zenon
  <2>2. Len(x) \in Nat
    BY <1>2
  <2> QED BY <2>1, <2>2, Zenon DEF T
<1>5. c <= Len(x)
  BY <1>1, <1>3, <1>4
<1>6. ASSUME NEW j \in 1..c PROVE log[j] = x[j]
  <2>1. /\ T + c \in Nat /\ T <= T + c /\ (T + c) - T = c /\ T + j \in 1..(T + Len(x))
        /\ ~(T + j <= T) /\ (T + j) - T = j
    BY <1>1, <1>3, <1>4, <1>5
  <2>2. \A l \in 1..((T + c) - T) : Span(D, T, T + c)[l] = D[T + l]
    BY <1>1, <1>3, <2>1, SpanFacts, Zenon
  <2>3. log[j] = D[T + j]
    BY <1>3, <2>1, <2>2, Zenon
  <2>4. D[T + j] = x[j]
    BY <1>4, <2>1, Zenon
  <2> QED BY <2>3, <2>4, Zenon
<1>7. log = Span(x, 0, c)
  <2>1. /\ Span(x, 0, c) \in Seq(Nat) /\ Len(Span(x, 0, c)) = c
        /\ \A j \in 1..c : Span(x, 0, c)[j] = x[j]
    BY <1>2, <1>3, <1>5, SpanBegins, Zenon
  <2>2. Len(log) = Len(Span(x, 0, c)) /\ \A j \in 1..Len(log) : log[j] = Span(x, 0, c)[j]
    BY <1>6, <2>1, Zenon DEF c
  <2> QED BY <2>1, <2>2, SeqEqual, Zenon
<1>8. IsPrefix(log, x)
  <2>1. SubSeq(log, 1, c) = log
    <3>1. Span(log, 0, Len(log)) = log /\ 0 + 1 = 1
      BY SpanWhole
    <3> QED BY <3>1, Zenon DEF Span, c
  <2>2. SubSeq(x, 1, c) = log
    <3>1. 0 + 1 = 1
      OBVIOUS
    <3> QED BY <1>7, <3>1, Zenon DEF Span
  <2> QED BY <1>5, <2>1, <2>2, Zenon DEF IsPrefix, c
<1> QED BY <1>2, <1>8, Zenon

-----------------------------------------------------------------------------
(* What the state says when the delivery is clean, and what a step that    *)
(* goes on or ends the program has to show                                 *)
LEMMA WStands ==
  ASSUME WFile, WOrder, CleanInput, Capturing, input \in Inputs
  PROVE  /\ bus \in Seq(Nat) /\ window \in Seq(Nat) /\ buffer \in Seq(Nat) /\ log_file \in Seq(Nat)
         /\ buffer \o bus \in Seq(Nat)
         /\ remaining \in Nat /\ packet_count \in 0..Len(input.frames) /\ Stored(input, log_file)
         /\ Ends(WRest, Delivery(input)) /\ Offset(WRest, Delivery(input)) \in Nat
         /\ Stands(input, reading, running, packet_count,
                   Offset(WRest, Delivery(input)), log_file, remaining)
         /\ Len(input.torn) \in Nat /\ Start(input, 0) = Len(input.torn)
         /\ Delivery(input) \in Seq(Nat)
<1>1. /\ bus \in Seq(Nat) /\ window \in Seq(Nat) /\ buffer \in Seq(Nat) /\ log_file \in Seq(Nat)
      /\ remaining \in Nat
  BY DEF WFile, WTyped
<1>2. buffer \o bus \in Seq(Nat)
  BY <1>1
<1>3. /\ packet_count \in 0..Len(input.frames) /\ Stored(input, log_file)
      /\ Ends(WRest, Delivery(input))
      /\ Stands(input, reading, running, packet_count,
                Offset(WRest, Delivery(input)), log_file, remaining)
  BY Zenon DEF WOrder
<1>4. /\ Len(input.torn) \in Nat /\ Start(input, 0) = Len(input.torn)
      /\ Delivery(input) \in Seq(Nat)
  BY StartFacts, Zenon
<1>5. Offset(WRest, Delivery(input)) \in Nat
  <2>1. Offset(window \o (buffer \o bus), Delivery(input)) \in 0..Len(Delivery(input))
    BY <1>1, <1>2, <1>3, <1>4, EndsIn, Zenon DEF WRest
  <2> QED BY <2>1 DEF WRest
<1> QED BY <1>1, <1>2, <1>3, <1>4, <1>5, Zenon

LEMMA WOrderExits ==
  ASSUME WOrder, input' = input, at' = "exited",
         CleanInput => packet_count' \in 0..Len(input.frames) /\ Stored(input, log_file')
  PROVE  WOrder'
<1>1. CleanInput' <=> CleanInput
  BY DEF CleanInput
<1>2. ~Capturing'
  BY DEF Capturing
<1> QED BY <1>1, <1>2, Zenon DEF WOrder

LEMMA WOrderGoesOn ==
  ASSUME WOrder, input' = input,
         CleanInput =>
           /\ packet_count' \in 0..Len(input.frames) /\ Stored(input, log_file')
           /\ Ends(WRest', Delivery(input))
           /\ Stands(input, reading', running', packet_count',
                     Offset(WRest', Delivery(input)), log_file', remaining')
  PROVE  WOrder'
<1>1. CleanInput' <=> CleanInput
  BY DEF CleanInput
<1> QED BY <1>1, Zenon DEF WOrder

(* The program ends, or goes on, with nothing moved or written.            *)
LEMMA ReturnKeepsOrder ==
  ASSUME WOrder, input' = input, NEW code, Return(code), UNCHANGED storing
  PROVE  WOrder'
<1>1. at' = "exited" /\ log_file' = log_file /\ packet_count' = packet_count
  BY DEF Return, Quit, storing
<1>2. CleanInput => packet_count' \in 0..Len(input.frames) /\ Stored(input, log_file')
  BY <1>1, Zenon DEF WOrder
<1> QED BY <1>1, <1>2, WOrderExits, Zenon

LEMMA ReadUsbKeepsOrder ==
  ASSUME WFile, WOrder, input \in Inputs, Capturing, ReadUsb
  PROVE  WOrder'
<1>1. /\ input' = input /\ running' = running /\ reading' = reading /\ window' = window
      /\ remaining' = remaining /\ UNCHANGED storing
      /\ log_file' = log_file /\ packet_count' = packet_count
  BY DEF ReadUsb, storing
<1>2. PICK n \in 0..Least(Wanted - Len(buffer), Len(bus)) :
        /\ buffer' = buffer \o SubSeq(bus, 1, n)
        /\ bus' = SubSeq(bus, n + 1, Len(bus))
        /\ GoOn \/ Return(1)
  BY DEF ReadUsb
<1>3. bus \in Seq(Nat) /\ buffer \in Seq(Nat) /\ window \in Seq(Nat)
  BY DEF WFile, WTyped
<1>4. n \in Nat /\ n <= Len(bus)
  <2>1. Wanted \in Nat /\ Len(buffer) \in Nat /\ Len(bus) \in Nat
    BY <1>3, Sizes, WindowsAssumption DEF Wanted, WFile, WTyped, Least
  <2> QED BY <2>1 DEF Least
<1>5. buffer' \o bus' = buffer \o bus
  <2>1. /\ SubSeq(bus, 1, n) \in Seq(Nat) /\ SubSeq(bus, n + 1, Len(bus)) \in Seq(Nat)
        /\ SubSeq(bus, 1, n) \o SubSeq(bus, n + 1, Len(bus)) = bus
    BY <1>3, <1>4, Cut, Zenon
  <2>2. (buffer \o SubSeq(bus, 1, n)) \o SubSeq(bus, n + 1, Len(bus))
          = buffer \o (SubSeq(bus, 1, n) \o SubSeq(bus, n + 1, Len(bus)))
    BY <1>3, <2>1, Concatenated, Zenon
  <2> QED BY <1>2, <2>1, <2>2, Zenon
<1>6. WRest' = WRest
  BY <1>1, <1>5, Zenon DEF WRest
<1>7. CASE Return(1)
  BY <1>1, <1>7, ReturnKeepsOrder, Zenon
<1>8. CASE ~Return(1)
  <2>1. CleanInput =>
          /\ packet_count' \in 0..Len(input.frames) /\ Stored(input, log_file')
          /\ Ends(WRest', Delivery(input))
          /\ Stands(input, reading', running', packet_count',
                    Offset(WRest', Delivery(input)), log_file', remaining')
    BY <1>1, <1>6, WStands, Zenon
  <2> QED BY <1>1, <2>1, WOrderGoesOn, Zenon
<1> QED BY <1>7, <1>8

(* The window is filled, or moves on in the torn frame.                    *)
LEMMA WindowReadKeepsOrder ==
  ASSUME WFile, WOrder, input \in Inputs, Capturing, WindowRead
  PROVE  WOrder'
<1>1. /\ reading \in {"window", "next"} /\ input' = input /\ running' = running /\ bus' = bus
      /\ remaining' = remaining /\ UNCHANGED storing
      /\ log_file' = log_file /\ packet_count' = packet_count
  BY DEF WindowRead, device, storing
<1>2. CASE Stopped
  <2>1. Return(0)
    BY <1>2 DEF WindowRead
  <2> QED BY <1>1, <2>1, ReturnKeepsOrder, Zenon
<1>3. CASE ~Stopped
  <2>1. /\ window' = (IF reading = "next" THEN Tail(window) ELSE <<>>) \o buffer
        /\ buffer' = <<>> /\ reading' = "look"
    BY <1>3 DEF WindowRead
  <2> DEFINE D == Delivery(input)
             p == Offset(WRest, D)
             b == buffer \o bus
  <2>2. ASSUME CleanInput
        PROVE  /\ Ends(WRest', D)
               /\ Stands(input, "look", running, packet_count, Offset(WRest', D), log_file, remaining)
    <3>1. /\ bus \in Seq(Nat) /\ window \in Seq(Nat) /\ buffer \in Seq(Nat) /\ b \in Seq(Nat)
          /\ Ends(WRest, D) /\ p \in Nat /\ Len(input.torn) \in Nat /\ D \in Seq(Nat)
          /\ Stands(input, reading, running, packet_count, p, log_file, remaining)
      BY <2>2, WStands, Zenon
    <3>0. WRest = window \o b /\ b = buffer \o bus
      BY Zenon DEF WRest
    <3> HIDE DEF b
    <3>2. <<>> \o bus = bus /\ <<>> \o buffer = buffer /\ <<>> \o b = b /\ <<>> \in Seq(Nat)
      <4>1. <<>> \in Seq(Nat)
        OBVIOUS
      <4> QED BY <3>1, <4>1, ConcatEmptySeq, Zenon
    <3>3. CASE reading = "window"
      <4>1. window = <<>>
        BY <3>3 DEF WFile, InBuffers
      <4>2. WRest' = WRest
        <5>1. window' = <<>> \o buffer
          BY <2>1, <3>3
        <5>2. WRest' = buffer \o (<<>> \o bus)
          BY <1>1, <2>1, <3>2, <5>1, Zenon DEF WRest
        <5> QED BY <3>0, <3>2, <4>1, <5>2, Zenon
      <4>3. AtOutset(packet_count, p, log_file) \/ AtFrame(input, packet_count, p, log_file)
        BY <3>1, <3>3, Zenon DEF Stands
      <4>4. AtOutset(packet_count, p, log_file) =>
              packet_count = 0 /\ p <= Len(input.torn) /\ log_file = <<>>
        <5> HIDE DEF p
        <5> QED BY <3>1 DEF AtOutset
      <4> HIDE DEF p, D
      <4>5. Stands(input, "look", running, packet_count, p, log_file, remaining)
        BY <4>3, <4>4 DEF Stands
      <4> QED BY <3>1, <4>2, <4>5, Zenon DEF p
    <3>4. CASE reading = "next"
      <4> DEFINE x == SubSeq(window, 1, 1)
                 y == Tail(window)
      <4>1. Len(window) = 2
        BY <3>4 DEF WFile, InBuffers
      <4>2. x \in Seq(Nat) /\ y \in Seq(Nat) /\ Len(x) = 1 /\ x \o y = window
        <5>1. /\ x \in Seq(Nat) /\ Len(x) = 1
              /\ SubSeq(window, 1 + 1, Len(window)) \in Seq(Nat)
              /\ x \o SubSeq(window, 1 + 1, Len(window)) = window
          <6>1. 1 \in Nat /\ 1 <= Len(window)
            BY <4>1
          <6> QED BY <3>1, <6>1, Cut, Zenon
        <5>2. y = SubSeq(window, 1 + 1, Len(window))
          <6>1. window # <<>> /\ 1 + 1 = 2
            <7>1. Len(<<>>) = 0 /\ 1 + 1 = 2 /\ 0 # 2
              OBVIOUS
            <7> QED BY <4>1, <7>1, Zenon
          <6> QED BY <3>1, <6>1, TailIsSubSeq, Zenon
        <5> QED BY <5>1, <5>2, Zenon
      <4> HIDE DEF x, y
      <4>3. window \o b = x \o (y \o b) /\ y \o b \in Seq(Nat)
        <5>1. (x \o y) \o b = x \o (y \o b)
          <6>1. x \in Seq(Nat) /\ y \in Seq(Nat) /\ b \in Seq(Nat)
            BY <3>1, <4>2
          <6> QED BY <6>1, Concatenated, Zenon
        <5>2. y \o b \in Seq(Nat)
          BY <3>1, <4>2
        <5> QED BY <4>2, <5>1, <5>2, Zenon
      <4>4. Ends(y \o b, D) /\ Offset(y \o b, D) = p + 1
        <5>1. Ends(x \o (y \o b), D)
          BY <3>0, <3>1, <4>3, Zenon
        <5>2. Ends(y \o b, D) /\ Offset(y \o b, D) = Offset(x \o (y \o b), D) + Len(x)
          BY <3>1, <4>2, <4>3, <5>1, EndsBehind, Zenon
        <5> QED BY <3>0, <4>2, <4>3, <5>2, Zenon
      <4>5. WRest' = y \o b
        <5>1. WRest' = (y \o buffer) \o bus
          BY <1>1, <2>1, <3>2, <3>4, Zenon DEF WRest, y
        <5>2. (y \o buffer) \o bus = y \o (buffer \o bus)
          <6>1. y \in Seq(Nat) /\ buffer \in Seq(Nat) /\ bus \in Seq(Nat)
            BY <3>1, <4>2
          <6> QED BY <6>1, Concatenated, Zenon
        <5> QED BY <3>0, <5>1, <5>2, Zenon
      <4>6. packet_count = 0 /\ p < Len(input.torn) /\ log_file = <<>>
        BY <3>1, <3>4, Zenon DEF Stands
      <4> HIDE DEF p, D
      <4>7. p + 1 <= Len(input.torn)
        BY <3>1, <4>6
      <4>8. Stands(input, "look", running, packet_count, p + 1, log_file, remaining)
        BY <4>6, <4>7 DEF Stands
      <4> QED BY <4>4, <4>5, <4>8, Zenon
    <3> QED BY <1>1, <3>3, <3>4
  <2>3. CleanInput =>
          /\ packet_count' \in 0..Len(input.frames) /\ Stored(input, log_file')
          /\ Ends(WRest', Delivery(input))
          /\ Stands(input, reading', running', packet_count',
                    Offset(WRest', Delivery(input)), log_file', remaining')
    BY <1>1, <2>1, <2>2, WStands, Zenon
  <2> QED BY <1>1, <2>3, WOrderGoesOn, Zenon
<1> QED BY <1>2, <1>3

(* The window holds the magic of a frame where a frame is, and moves on    *)
(* where none is.                                                          *)
LEMMA LookKeepsOrder ==
  ASSUME WFile, WOrder, input \in Inputs, Capturing, Look
  PROVE  WOrder'
<1>1. /\ reading = "look" /\ input' = input /\ running' = running /\ bus' = bus
      /\ window' = window /\ buffer' = buffer /\ remaining' = remaining /\ UNCHANGED storing
      /\ log_file' = log_file /\ packet_count' = packet_count
  BY DEF Look, device, storing
<1>2. CASE ~running
  <2>1. Return(0)
    BY <1>2 DEF Look
  <2> QED BY <1>1, <2>1, ReturnKeepsOrder, Zenon
<1>3. CASE running
  <2>1. /\ window = Magic => reading' = "meta"
        /\ window # Magic => reading' = "next"
    BY <1>3 DEF Look
  <2>2. WRest' = WRest
    BY <1>1, Zenon DEF WRest
  <2> DEFINE D == Delivery(input)
             p == Offset(WRest, D)
             b == buffer \o bus
  <2>3. ASSUME CleanInput
        PROVE  Stands(input, reading', running, packet_count, p, log_file, remaining)
    <3>1. /\ window \in Seq(Nat) /\ b \in Seq(Nat) /\ log_file \in Seq(Nat)
          /\ Ends(WRest, D) /\ p \in Nat /\ Len(input.torn) \in Nat
          /\ Start(input, 0) = Len(input.torn) /\ packet_count \in 0..Len(input.frames)
          /\ Stands(input, reading, running, packet_count, p, log_file, remaining)
      BY <2>3, WStands, Zenon
    <3>2. WRest = window \o b
      BY Zenon DEF WRest
    <3>3. Len(window) = 2
      BY <1>1 DEF WFile, InBuffers
    <3> HIDE DEF b
    <3>4. \/ packet_count = 0 /\ p <= Len(input.torn) /\ log_file = <<>>
          \/ AtFrame(input, packet_count, p, log_file)
      BY <1>1, <3>1, Zenon DEF Stands
    <3>5. CASE window = Magic
      <4>1. AtFrame(input, packet_count, p, log_file)
        <5>1. ASSUME packet_count = 0, p <= Len(input.torn), log_file = <<>>
              PROVE  AtFrame(input, packet_count, p, log_file)
          <6>1. p = Start(input, 0)
            <7>1. Ends(Magic \o b, D) /\ Offset(Magic \o b, D) <= Len(input.torn)
              BY <3>1, <3>2, <3>5, <5>1, Zenon
            <7>2. Offset(Magic \o b, D) = Start(input, 0)
              BY <2>3, <3>1, <7>1, FirstMagic, Zenon
            <7> QED BY <3>2, <3>5, <7>2, Zenon
          <6>2. Len(log_file) = 0 /\ Len(input.torn) + 0 = Len(input.torn)
            BY <3>1, <5>1
          <6> QED BY <3>1, <5>1, <6>1, <6>2, Zenon DEF AtFrame
        <5> QED BY <3>4, <5>1
      <4> HIDE DEF p, D
      <4> QED BY <2>1, <3>5, <4>1 DEF Stands
    <3>6. CASE window # Magic
      <4>1. p # Start(input, packet_count)
        BY <2>3, <3>1, <3>2, <3>3, <3>6, FrameOpens, Zenon
      <4>2. packet_count = 0 /\ p <= Len(input.torn) /\ log_file = <<>>
        BY <3>4, <4>1, Zenon DEF AtFrame
      <4> HIDE DEF p, D
      <4>3. p < Len(input.torn)
        <5>1. p # Len(input.torn)
          BY <3>1, <4>1, <4>2, Zenon
        <5> QED BY <3>1, <4>2, <5>1
      <4> QED BY <2>1, <3>6, <4>2, <4>3 DEF Stands
    <3> QED BY <3>5, <3>6
  <2>4. CleanInput =>
          /\ packet_count' \in 0..Len(input.frames) /\ Stored(input, log_file')
          /\ Ends(WRest', Delivery(input))
          /\ Stands(input, reading', running', packet_count',
                    Offset(WRest', Delivery(input)), log_file', remaining')
    BY <1>1, <2>2, <2>3, WStands, Zenon
  <2> QED BY <1>1, <2>4, WOrderGoesOn, Zenon
<1> QED BY <1>2, <1>3

(* Metadata is that of the next frame.                                     *)
LEMMA MetaReadKeepsOrder ==
  ASSUME WFile, WOrder, input \in Inputs, Capturing, MetaRead
  PROVE  WOrder'
<1>1. /\ reading = "meta" /\ input' = input /\ running' = running /\ bus' = bus /\ buffer' = <<>>
      /\ WTyped /\ InBuffers /\ ~Stopped
  BY DEF MetaRead, device, WFile
<1>2. Len(buffer) = 2 /\ Len(window) = 2
  <2>1. Wanted = 2
    BY <1>1, Sizes DEF Wanted
  <2>2. ~(Len(buffer) < 2) /\ Len(buffer) <= 2
    BY <1>1, <2>1, Zenon DEF InBuffers, Stopped
  <2>3. Len(buffer) \in Nat
    BY <1>1 DEF WTyped
  <2>4. \A x \in Nat : x <= 2 /\ ~(x < 2) => x = 2
    OBVIOUS
  <2>5. Len(window) = 2
    BY <1>1 DEF InBuffers
  <2> QED BY <2>2, <2>3, <2>4, <2>5, Zenon
<1> DEFINE h == window \o buffer
           D == Delivery(input)
           p == Offset(WRest, D)
<1>3. h \in Seq(Nat) /\ Len(h) = 4 /\ h[3] = buffer[1] /\ buffer[1] \in Nat
  <2>1. window \in Seq(Nat) /\ buffer \in Seq(Nat)
    BY <1>1 DEF WTyped
  <2>2. /\ h \in Seq(Nat) /\ Len(h) = Len(window) + Len(buffer)
        /\ \A i \in 1..(Len(window) + Len(buffer)) :
             h[i] = IF i <= Len(window) THEN window[i] ELSE buffer[i - Len(window)]
    BY <2>1, ConcatProperties, Zenon
  <2> HIDE DEF h
  <2>3. Len(window) + Len(buffer) = 4 /\ 3 \in 1..4 /\ ~(3 <= 2) /\ 3 - 2 = 1
    BY <1>2
  <2>4. h[3] = buffer[1]
    BY <1>2, <2>2, <2>3, Zenon
  <2>5. buffer[1] \in Nat
    <3>1. 1 \in 1..Len(buffer)
      BY <1>2
    <3> QED BY <2>1, <3>1, ElementOfSeq, Zenon
  <2> QED BY <2>2, <2>3, <2>4, <2>5, Zenon
<1>4. ASSUME CleanInput
      PROVE  /\ h \o bus = WRest /\ Ends(h \o bus, D) /\ p = Start(input, packet_count)
             /\ Len(input.torn) + Len(log_file) = p /\ buffer[1] <= MAX_MESSAGE_SIZE
             /\ Start(input, packet_count + 1) = (p + 4) + buffer[1]
             /\ packet_count + 1 \in 0..Len(input.frames)
             /\ Stored(input, log_file) /\ log_file \in Seq(Nat) /\ bus \in Seq(Nat)
             /\ D \in Seq(Nat) /\ p \in Nat /\ packet_count \in 0..Len(input.frames)
  <2>1. /\ window \in Seq(Nat) /\ buffer \in Seq(Nat) /\ bus \in Seq(Nat) /\ log_file \in Seq(Nat)
        /\ Ends(WRest, D) /\ packet_count \in 0..Len(input.frames) /\ Stored(input, log_file)
        /\ D \in Seq(Nat) /\ p \in Nat
        /\ Stands(input, reading, running, packet_count, p, log_file, remaining)
    BY <1>4, WStands, Zenon
  <2>2. h \o bus = WRest
    BY <2>1, Concatenated, Zenon DEF WRest
  <2>3. p = Start(input, packet_count) /\ Len(input.torn) + Len(log_file) = p
    BY <1>1, <2>1, Zenon DEF Stands, AtFrame
  <2> HIDE DEF h, D
  <2>4. Len(h) >= 4
    BY <1>3
  <2>5. Ends(h \o bus, D) /\ Offset(h \o bus, D) = Start(input, packet_count)
    BY <2>1, <2>2, <2>3, Zenon
  <2> USE DEF D
  <2>6. \E f : Frame(input, packet_count, f) /\ BeginsWith(f, h, bus) /\ h[3] = f[3]
    BY <1>3, <1>4, <2>1, <2>4, <2>5, FrameInHand, Zenon
  <2>7. PICK f : Frame(input, packet_count, f) /\ h[3] = f[3]
    BY <2>6, Zenon
  <2>8. /\ f[3] = buffer[1] /\ Len(f) = 4 + f[3] /\ f[3] <= MAX_MESSAGE_SIZE
        /\ Start(input, packet_count + 1) = Start(input, packet_count) + Len(f)
        /\ packet_count + 1 \in 0..Len(input.frames)
    BY <1>3, <2>7, Zenon DEF Frame
  <2>9. Start(input, packet_count + 1) = (p + 4) + buffer[1]
    <3>1. Start(input, packet_count + 1) = p + (4 + buffer[1])
      BY <2>3, <2>8, Zenon
    <3>2. \A x, y \in Nat : x + (4 + y) = (x + 4) + y
      OBVIOUS
    <3> QED BY <1>3, <2>1, <3>1, <3>2, Zenon
  <2> QED BY <2>1, <2>2, <2>3, <2>5, <2>8, <2>9, Zenon
<1>5. CASE buffer[1] > MAX_MESSAGE_SIZE
  <2>1. ~CleanInput
    <3>1. ~(buffer[1] <= MAX_MESSAGE_SIZE)
      BY <1>3, <1>5, BinaryLogAssumption
    <3> QED BY <1>4, <3>1
  <2>2. ~CleanInput'
    BY <1>1, <2>1 DEF CleanInput
  <2> QED BY <2>2, Zenon DEF WOrder
<1>6. CASE Write(h, "payload") /\ packet_count' = packet_count + 1 /\ remaining' = buffer[1]
           /\ window' = <<>>
  <2>1. CASE log_file' = log_file \o h /\ reading' = "payload"
    <3>1. ASSUME CleanInput
          PROVE  /\ packet_count' \in 0..Len(input.frames) /\ Stored(input, log_file')
                 /\ Ends(WRest', D)
                 /\ Stands(input, reading', running', packet_count',
                           Offset(WRest', D), log_file', remaining')
      <4>1. packet_count' \in 0..Len(input.frames)
        BY <1>4, <1>6, <3>1
      <4> HIDE DEF h
      <4>2. Stored(input, log_file')
        <5>1. 4 \in 0..Len(h) /\ SubSeq(h, 1, 4) = h
          <6>1. 4 \in 0..Len(h) /\ SubSeq(h, 1, Len(h)) = h
            <7>1. SubSeq(h, 1, Len(h)) = h
              BY <1>3, SubSeqFull, Zenon
            <7> QED BY <1>3, <7>1
          <6> QED BY <1>3, <6>1, Zenon
        <5>2. /\ Stored(input, log_file) /\ log_file \in Seq(Nat) /\ bus \in Seq(Nat)
              /\ h \in Seq(Nat) /\ Ends(h \o bus, D)
              /\ Offset(h \o bus, D) = Len(input.torn) + Len(log_file)
          BY <1>3, <1>4, <3>1, Zenon
        <5>3. Stored(input, log_file \o SubSeq(h, 1, 4))
          BY <5>1, <5>2, StoredGrows, Zenon
        <5> QED BY <2>1, <5>1, <5>3, Zenon
      <4>3. WRest' = bus /\ Ends(bus, D) /\ Offset(bus, D) = p + 4
        <5>1. Ends(bus, D) /\ Offset(bus, D) = Offset(h \o bus, D) + Len(h)
          BY <1>3, <1>4, <3>1, EndsBehind, Zenon
        <5>2. <<>> \o bus = bus
          BY <1>4, <3>1, ConcatEmptySeq, Zenon
        <5>3. WRest' = bus
          BY <1>1, <1>6, <5>2, Zenon DEF WRest
        <5> QED BY <1>3, <1>4, <3>1, <5>1, <5>3, Zenon
      <4>4. Len(input.torn) + Len(log_file') = p + 4
        <5>1. Len(log_file \o h) = Len(log_file) + 4 /\ Len(log_file) \in Nat
          <6>1. log_file \in Seq(Nat) /\ h \in Seq(Nat)
            BY <1>3, <1>4, <3>1
          <6>2. Len(log_file \o h) = Len(log_file) + Len(h)
            BY <6>1, ConcatProperties, Zenon
          <6>3. Len(log_file) \in Nat
            BY <6>1
          <6> QED BY <1>3, <6>2, <6>3, Zenon
        <5>2. Len(input.torn) \in Nat
          BY StartFacts, Zenon
        <5>3. (Len(input.torn) + Len(log_file)) + 4 = Len(input.torn) + (Len(log_file) + 4)
          <6>1. \A x, y \in Nat : (x + y) + 4 = x + (y + 4)
            OBVIOUS
          <6> QED BY <5>1, <5>2, <6>1, Zenon
        <5> QED BY <1>4, <2>1, <3>1, <5>1, <5>3, Zenon
      <4>5. packet_count' > 0 /\ (p + 4) + remaining' = Start(input, packet_count')
        <5>1. packet_count + 1 > 0
          BY <1>4, <3>1
        <5> QED BY <1>4, <1>6, <3>1, <5>1, Zenon
      <4>6. Stands(input, reading', running', packet_count', p + 4, log_file', remaining')
        <5> HIDE DEF p, D
        <5> QED BY <2>1, <4>4, <4>5 DEF Stands
      <4> QED BY <4>1, <4>2, <4>3, <4>6, Zenon
    <3> QED BY <1>1, <3>1, WOrderGoesOn, Zenon
  <2>2. CASE (\E n \in 0..(Len(h) - 1) : log_file' = log_file \o SubSeq(h, 1, n)) /\ Return(1)
    <3>1. PICK n \in 0..(Len(h) - 1) : log_file' = log_file \o SubSeq(h, 1, n)
      BY <2>2
    <3>2. n \in 0..Len(h)
      BY <1>3, <3>1
    <3>3. ASSUME CleanInput
          PROVE  packet_count' \in 0..Len(input.frames) /\ Stored(input, log_file')
      <4>1. packet_count' \in 0..Len(input.frames)
        BY <1>4, <1>6, <3>3
      <4> HIDE DEF h
      <4>2. /\ Stored(input, log_file) /\ log_file \in Seq(Nat) /\ bus \in Seq(Nat)
            /\ h \in Seq(Nat) /\ Ends(h \o bus, D)
            /\ Offset(h \o bus, D) = Len(input.torn) + Len(log_file)
        BY <1>3, <1>4, <3>3, Zenon
      <4>3. Stored(input, log_file \o SubSeq(h, 1, n))
        BY <3>2, <4>2, StoredGrows, Zenon
      <4> QED BY <3>1, <4>1, <4>3, Zenon
    <3>4. at' = "exited"
      BY <2>2 DEF Return, Quit
    <3> QED BY <1>1, <3>3, <3>4, WOrderExits, Zenon
  <2> QED BY <1>6, <2>1, <2>2 DEF Write
<1> QED BY <1>5, <1>6 DEF MetaRead

(* A piece of the payload follows what is in the file.                     *)
LEMMA StorePieceKeepsOrder ==
  ASSUME WFile, WOrder, input \in Inputs, Capturing, StorePiece
  PROVE  WOrder'
<1>1. /\ reading = "payload" /\ input' = input /\ running' = running /\ bus' = bus
      /\ buffer' = <<>> /\ window' = window /\ packet_count' = packet_count
      /\ remaining' = remaining - Len(buffer) /\ Write(buffer, "payload") /\ WTyped /\ InBuffers
  BY DEF StorePiece, device, WFile
<1>2. window = <<>> /\ Len(buffer) \in Nat /\ Len(buffer) <= remaining /\ remaining \in Nat
  <2>1. remaining \in Nat /\ Len(buffer) \in Nat /\ Len(buffer) <= Wanted /\ window = <<>>
    BY <1>1 DEF WTyped, InBuffers
  <2>2. Wanted \in Nat /\ Wanted <= remaining
    BY <1>1, <2>1, WindowsAssumption DEF Wanted, Least
  <2> QED BY <2>1, <2>2
<1> DEFINE D == Delivery(input)
           p == Offset(WRest, D)
<1>3. ASSUME CleanInput
      PROVE  /\ buffer \o bus = WRest /\ Ends(buffer \o bus, D)
             /\ Len(input.torn) + Len(log_file) = p /\ packet_count > 0
             /\ p + remaining = Start(input, packet_count)
             /\ Stored(input, log_file) /\ log_file \in Seq(Nat)
             /\ buffer \in Seq(Nat) /\ bus \in Seq(Nat)
             /\ D \in Seq(Nat) /\ p \in Nat /\ packet_count \in 0..Len(input.frames)
             /\ Len(input.torn) \in Nat
  <2>1. /\ buffer \in Seq(Nat) /\ bus \in Seq(Nat) /\ log_file \in Seq(Nat)
        /\ buffer \o bus \in Seq(Nat)
        /\ Ends(WRest, D) /\ packet_count \in 0..Len(input.frames) /\ Stored(input, log_file)
        /\ D \in Seq(Nat) /\ p \in Nat /\ Len(input.torn) \in Nat
        /\ Stands(input, reading, running, packet_count, p, log_file, remaining)
    BY <1>3, WStands, Zenon
  <2>2. buffer \o bus = WRest
    BY <1>2, <2>1, ConcatEmptySeq, Zenon DEF WRest
  <2> QED BY <1>1, <2>1, <2>2, Zenon DEF Stands
<1>4. ASSUME CleanInput, NEW n \in 0..Len(buffer), log_file' = log_file \o SubSeq(buffer, 1, n)
      PROVE  Stored(input, log_file')
  <2>1. Offset(buffer \o bus, D) = Len(input.torn) + Len(log_file)
    BY <1>3, <1>4, Zenon
  <2>2. Stored(input, log_file \o SubSeq(buffer, 1, n))
    BY <1>3, <1>4, <2>1, StoredGrows, Zenon
  <2> QED BY <1>4, <2>2, Zenon
<1>5. CASE log_file' = log_file \o buffer /\ reading' = "payload"
  <2>1. ASSUME CleanInput
        PROVE  /\ packet_count' \in 0..Len(input.frames) /\ Stored(input, log_file')
               /\ Ends(WRest', D)
               /\ Stands(input, reading', running', packet_count',
                         Offset(WRest', D), log_file', remaining')
    <3>1. Stored(input, log_file')
      <4>1. Len(buffer) \in 0..Len(buffer) /\ SubSeq(buffer, 1, Len(buffer)) = buffer
        BY <1>2, <1>3, <2>1, SubSeqFull
      <4> QED BY <1>4, <1>5, <2>1, <4>1, Zenon
    <3>2. WRest' = bus /\ Ends(bus, D) /\ Offset(bus, D) = p + Len(buffer)
      <4>1. Ends(bus, D) /\ Offset(bus, D) = Offset(buffer \o bus, D) + Len(buffer)
        BY <1>3, <2>1, EndsBehind, Zenon
      <4>2. <<>> \o bus = bus
        BY <1>3, <2>1, ConcatEmptySeq, Zenon
      <4>3. WRest' = bus
        BY <1>1, <1>2, <4>2, Zenon DEF WRest
      <4> QED BY <1>3, <2>1, <4>1, <4>3, Zenon
    <3>3. Len(input.torn) + Len(log_file') = p + Len(buffer)
      <4>1. Len(log_file \o buffer) = Len(log_file) + Len(buffer)
        BY <1>3, <2>1, ConcatProperties, Zenon
      <4>2. Len(log_file) \in Nat
        BY <1>3, <2>1
      <4>3. \A x, y, z \in Nat : (x + y) + z = x + (y + z)
        OBVIOUS
      <4>4. (Len(input.torn) + Len(log_file)) + Len(buffer)
              = Len(input.torn) + (Len(log_file) + Len(buffer))
        BY <1>2, <1>3, <2>1, <4>2, <4>3, Zenon
      <4> QED BY <1>3, <1>5, <2>1, <4>1, <4>4, Zenon
    <3>4. (p + Len(buffer)) + remaining' = Start(input, packet_count')
      <4>1. \A x, y, z \in Nat : (x + y) + (z - y) = x + z
        OBVIOUS
      <4>2. (p + Len(buffer)) + (remaining - Len(buffer)) = p + remaining
        BY <1>2, <1>3, <2>1, <4>1, Zenon
      <4> QED BY <1>1, <1>3, <2>1, <4>2, Zenon
    <3>5. Stands(input, reading', running', packet_count', p + Len(buffer), log_file', remaining')
      <4>1. packet_count' > 0
        BY <1>1, <1>3, <2>1, Zenon
      <4> HIDE DEF p, D
      <4> QED BY <1>5, <3>3, <3>4, <4>1 DEF Stands
    <3> QED BY <1>1, <1>3, <2>1, <3>1, <3>2, <3>5, Zenon
  <2> QED BY <1>1, <2>1, WOrderGoesOn, Zenon
<1>6. CASE (\E n \in 0..(Len(buffer) - 1) : log_file' = log_file \o SubSeq(buffer, 1, n))
           /\ Return(1)
  <2>1. PICK n \in 0..(Len(buffer) - 1) : log_file' = log_file \o SubSeq(buffer, 1, n)
    BY <1>6
  <2>2. n \in 0..Len(buffer)
    BY <1>2, <2>1
  <2>3. CleanInput => packet_count' \in 0..Len(input.frames) /\ Stored(input, log_file')
    BY <1>1, <1>3, <1>4, <2>1, <2>2, Zenon
  <2>4. at' = "exited"
    BY <1>6 DEF Return, Quit
  <2> QED BY <1>1, <2>3, <2>4, WOrderExits, Zenon
<1> QED BY <1>1, <1>5, <1>6 DEF Write

LEMMA BetweenPacketsKeepsOrder ==
  ASSUME WFile, WOrder, input \in Inputs, Capturing, MetaStopped \/ NextPacket \/ PacketEnds
  PROVE  WOrder'
<1>1. /\ input' = input /\ running' = running /\ bus' = bus /\ UNCHANGED storing
      /\ window' = window /\ buffer' = buffer
      /\ packet_count' = packet_count /\ log_file' = log_file
  BY DEF MetaStopped, NextPacket, PacketEnds, device, storing
<1>2. CASE Return(0)
  BY <1>1, <1>2, ReturnKeepsOrder, Zenon
<1>3. CASE ~Return(0)
  <2>1. \/ reading = "none" /\ running /\ reading' = "window"
        \/ reading = "payload" /\ (remaining = 0 \/ ~running) /\ reading' = "none"
    BY <1>3 DEF MetaStopped, NextPacket, PacketEnds
  <2>2. WRest' = WRest
    BY <1>1, Zenon DEF WRest
  <2> DEFINE p == Offset(WRest, Delivery(input))
  <2>3. ASSUME CleanInput
        PROVE  Stands(input, reading', running, packet_count, p, log_file, remaining')
    <3>1. p \in Nat /\ Stands(input, reading, running, packet_count, p, log_file, remaining)
      BY <2>3, WStands, Zenon
    <3> HIDE DEF p
    <3>2. CASE reading = "none" /\ running /\ reading' = "window"
      <4>1. AtOutset(packet_count, p, log_file) \/ AtFrame(input, packet_count, p, log_file)
        BY <3>1, <3>2, Zenon DEF Stands
      <4> QED BY <3>2, <4>1 DEF Stands
    <3>3. CASE reading = "payload" /\ (remaining = 0 \/ ~running) /\ reading' = "none"
      <4>1. Len(input.torn) + Len(log_file) = p /\ p + remaining = Start(input, packet_count)
        BY <3>1, <3>3, Zenon DEF Stands
      <4>2. running => AtFrame(input, packet_count, p, log_file)
        <5>1. p + 0 = p
          BY <3>1
        <5> QED BY <3>3, <4>1, <5>1, Zenon DEF AtFrame
      <4> QED BY <3>3, <4>2 DEF Stands
    <3> QED BY <2>1, <3>2, <3>3
  <2>4. CleanInput =>
          /\ packet_count' \in 0..Len(input.frames) /\ Stored(input, log_file')
          /\ Ends(WRest', Delivery(input))
          /\ Stands(input, reading', running', packet_count',
                    Offset(WRest', Delivery(input)), log_file', remaining')
    BY <1>1, <2>2, <2>3, WStands, Zenon
  <2> QED BY <1>1, <2>4, WOrderGoesOn, Zenon
<1> QED BY <1>2, <1>3

(* Nothing has been captured.                                              *)
LEMMA UntouchedInOrder ==
  ASSUME input \in Inputs, Untouched
  PROVE  WOrder
<1>1. /\ reading = "none" /\ window = <<>> /\ buffer = <<>> /\ log_file = <<>>
      /\ packet_count = 0 /\ bus = Delivery(input)
  BY DEF Untouched
<1>2. Delivery(input) \in Seq(Nat)
  BY StartFacts, Zenon
<1>3. WRest = Delivery(input)
  <2>1. <<>> \o Delivery(input) = Delivery(input)
    BY <1>2, ConcatEmptySeq, Zenon
  <2> QED BY <1>1, <2>1, Zenon DEF WRest
<1>4. Ends(WRest, Delivery(input)) /\ Offset(WRest, Delivery(input)) = 0
  BY <1>2, <1>3, EndsAtStart, Zenon
<1>5. Stored(input, log_file) /\ packet_count \in 0..Len(input.frames)
  BY <1>1, StoredStarts, Zenon
<1>6. AtOutset(packet_count, 0, log_file)
  BY <1>1, Zenon DEF AtOutset
<1>7. Stands(input, reading, running, packet_count, 0, log_file, remaining)
  BY <1>1, <1>6 DEF Stands
<1> QED BY <1>4, <1>5, <1>7, Zenon DEF WOrder

LEMMA SignalKeepsOrder ==
  ASSUME WOrder, input' = input, UNCHANGED windows, program' = program,
         program # "sniffer_storage" => at' = at /\ (running' = running \/ running' = FALSE)
  PROVE  WOrder'
<1>1. /\ bus' = bus /\ reading' = reading /\ window' = window /\ buffer' = buffer
      /\ remaining' = remaining /\ log_file' = log_file /\ packet_count' = packet_count
  BY DEF windows
<1>2. WRest' = WRest
  BY <1>1, Zenon DEF WRest
<1>3. (CleanInput' <=> CleanInput) /\ (Capturing' => Capturing)
  BY DEF CleanInput, Capturing
<1>4. Capturing' => running' = running \/ running' = FALSE
  BY DEF Capturing
<1>5. ASSUME NEW p, Stands(input, reading, running, packet_count, p, log_file, remaining),
             Capturing'
      PROVE  Stands(input, reading, running', packet_count, p, log_file, remaining)
  BY <1>4, <1>5 DEF Stands
<1> QED BY <1>1, <1>2, <1>3, <1>5, Zenon DEF WOrder

LEMMA WindowsKeepOrder ==
  ASSUME WFile, WOrder, input \in Inputs, program = "ground_control_windows",
         program' = program, WindowsStep, input' = input
  PROVE  WOrder'
<1>1. CASE WindowsOpen \/ OpenLog
  <2>1. at \notin {"capture", "exited"}
    BY <1>1 DEF WindowsOpen, OpenLog, OpenContext, open_matching_device, OpenEnumerate, OpenSelect,
                OpenClaim
  <2>2. Untouched
    BY <2>1 DEF WFile
  <2>3. Untouched'
    BY <1>1, <2>2 DEF Untouched, WindowsOpen, OpenLog, device, storing
  <2>4. WOrder'
    <3>1. input' \in Inputs
      OBVIOUS
    <3>2. (input \in Inputs /\ Untouched => WOrder)'
      BY UntouchedInOrder, PTL
    <3> QED BY <2>3, <3>1, <3>2
  <2> QED BY <2>4
<1>2. CASE at = "capture"
  <2>1. Capturing
    BY <1>2 DEF Capturing
  <2>2. ~(WindowsOpen \/ OpenLog)
    BY <1>2 DEF WindowsOpen, OpenLog, OpenContext, open_matching_device, OpenEnumerate, OpenSelect,
                OpenClaim
  <2> QED BY <2>1, <2>2, ReadUsbKeepsOrder, WindowReadKeepsOrder, LookKeepsOrder,
             MetaReadKeepsOrder, StorePieceKeepsOrder, BetweenPacketsKeepsOrder,
             Zenon DEF WindowsStep
<1>3. (WindowsOpen \/ OpenLog) \/ at = "capture"
  BY DEF WindowsStep, ReadUsb, WindowRead, Look, MetaRead, MetaStopped, NextPacket, StorePiece,
         PacketEnds, Returned
<1> QED BY <1>1, <1>2, <1>3

LEMMA WOrderStarts == ToolsInit => WOrder
<1> SUFFICES ASSUME ToolsInit PROVE WOrder
  OBVIOUS
<1>1. Untouched /\ input \in Inputs
  BY DEF ToolsInit, Init, WindowsInit, Untouched
<1> QED BY <1>1, UntouchedInOrder

LEMMA WOrderNext ==
  ASSUME ToolsInv, WFile, WOrder, [ToolsStep \/ ToolsSignal]_ToolsVars
  PROVE  WOrder'
<1>0. input \in Inputs
  BY DEF ToolsInv, IInv, Typed
<1>1. CASE program = "sniffer_storage" /\ StorageStep /\ UNCHANGED <<program, windows>>
  <2>1. input' = input
    <3>1. CASE CaptureStep
      BY <3>1 DEF CaptureStep, Capture, NextRecord, Read, ReadStopped, MagicRead, Slide, WindowEnds,
                  Decode, Store, StoreFails, options, Finish, Discard, source
    <3>2. CASE ~CaptureStep
      BY <1>1, <3>2 DEF StorageStep, ParseOptions, Open, Transfer, TransferEnds, OpenFile,
                        CaptureReturns, CloseFile, Plot, Cleanup, options
    <3> QED BY <3>1, <3>2
  <2> QED BY <1>1, <2>1, SignalKeepsOrder
<1>2. CASE program = "ground_control_windows" /\ WindowsStep /\ UNCHANGED <<program, storage>>
  <2>1. input' = input
    BY <1>2 DEF WindowsStep, WindowsOpen, OpenLog, ReadUsb, WindowRead, Look, MetaRead,
                MetaStopped, NextPacket, StorePiece, PacketEnds, device
  <2> QED BY <1>0, <1>2, <2>1, WindowsKeepOrder
<1>3. CASE program = "sniffer_storage" /\ StorageSignal /\ UNCHANGED <<program, windows>>
  BY <1>3, SignalKeepsOrder DEF StorageSignal, handle_signal, options
<1>4. CASE program = "ground_control_windows" /\ handle_sigint /\ UNCHANGED <<program, storage>>
  BY <1>4, SignalKeepsOrder DEF handle_sigint, GoOn, windows, storing
<1>5. CASE UNCHANGED ToolsVars
  BY <1>5, SignalKeepsOrder DEF ToolsVars, windows
<1> QED BY <1>1, <1>2, <1>3, <1>4, <1>5 DEF ToolsStep, ToolsSignal

-----------------------------------------------------------------------------
(* Both programs and their files                                           *)
FilesInv == ToolsInv /\ LoopInv /\ WFile /\ WOrder

LEMMA FilesStart == ToolsInit => FilesInv
  BY ToolsStart, WFileStarts, WOrderStarts, LoopInvStarts DEF FilesInv, ToolsInit

LEMMA LoopInvTools ==
  ASSUME LoopInv, ToolsInv, [ToolsStep \/ ToolsSignal]_ToolsVars
  PROVE  LoopInv'
<1>0. running \in BOOLEAN
  BY DEF ToolsInv, IInv, Typed
<1>1. CASE CaptureStep
  BY <1>1, LoopInvNext DEF CaptureStep, Next
<1>2. CASE ~CaptureStep
  <2>1. UNCHANGED <<input, capture>> /\ (running' = running \/ running' = FALSE)
    <3>1. CASE program = "sniffer_storage" /\ StorageStep /\ UNCHANGED <<program, windows>>
      BY <1>2, <3>1 DEF StorageStep, ParseOptions, Open, Transfer, TransferEnds, OpenFile,
                        CaptureReturns, CloseFile, Plot, Cleanup, options
    <3>2. CASE program = "ground_control_windows" /\ WindowsStep /\ UNCHANGED <<program, storage>>
      <4>1. UNCHANGED <<input, running>>
        BY <3>2 DEF WindowsStep, WindowsOpen, OpenLog, ReadUsb, WindowRead, Look, MetaRead,
                    MetaStopped, NextPacket, StorePiece, PacketEnds, device
      <4> QED BY <3>2, <4>1 DEF storage
    <3>3. CASE program = "sniffer_storage" /\ StorageSignal /\ UNCHANGED <<program, windows>>
      BY <3>3 DEF StorageSignal, handle_signal, options, capture
    <3>4. CASE program = "ground_control_windows" /\ handle_sigint /\ UNCHANGED <<program, storage>>
      BY <3>4 DEF handle_sigint, GoOn, storage
    <3>5. CASE UNCHANGED ToolsVars
      BY <3>5 DEF ToolsVars, storage
    <3> QED BY <3>1, <3>2, <3>3, <3>4, <3>5 DEF ToolsStep, ToolsSignal
  <2> QED BY <1>0, <2>1, LoopInvStays
<1> QED BY <1>1, <1>2

LEMMA FilesNext == FilesInv /\ [ToolsStep \/ ToolsSignal]_ToolsVars => FilesInv'
  BY ToolsNext, LoopInvTools, WFileNext, WOrderNext DEF FilesInv

LEMMA FilesImply == FilesInv => GroundControlFile /\ FileReparses /\ NoFrameLost
<1> SUFFICES ASSUME FilesInv PROVE GroundControlFile /\ FileReparses /\ NoFrameLost
  OBVIOUS
<1>1. input \in Inputs /\ log_file \in Seq(Nat) /\ packet_count \in Nat
  BY DEF FilesInv, ToolsInv, IInv, Typed, WFile, WTyped
<1>2. ASSUME reading = "none", running
      PROVE  /\ Len(parse_binary(log_file).records) = packet_count
             /\ parse_binary(log_file).errors \subseteq Doubted
             /\ parse_binary(log_file).consumed = Len(log_file)
  <2>1. Whole(log_file, packet_count)
    BY <1>2 DEF FilesInv, WFile
  <2> QED BY <1>1, <2>1, WholeRead, Zenon
<1>3. CleanInput => IsPrefix(log_file, FlattenSeq(input.frames))
  <2>1. CleanInput => Stored(input, log_file)
    BY Zenon DEF FilesInv, WOrder
  <2> QED BY <1>1, <2>1, StoredBegins, Zenon
<1>4. ASSUME program = "ground_control_windows", at = "exited", exit_code = 0
      PROVE  ~running /\ Len(parse_binary(log_file).records) >= packet_count - 1
  <2>1. ~running /\ Ended
    BY <1>4, Zenon DEF FilesInv, WFile
  <2>2. Len(parse_binary(log_file).records) >= packet_count - 1
    BY <1>1, <2>1, CutOffRead, Zenon DEF Ended
  <2> QED BY <2>1, <2>2
<1>5. GroundControlFile
  BY <1>2, <1>3, <1>4, Zenon DEF GroundControlFile, Doubted
<1>6. FileReparses /\ NoFrameLost
  BY LoopInvImplies DEF FilesInv
<1> QED BY <1>5, <1>6

(* For every delivery, every cut of it into transfers and every moment of  *)
(* a signal: while the Windows build runs, the analysis reads the records  *)
(* it counted, one behind the other; behind a clean start its file is a    *)
(* beginning of the frames sent, and success costs one record at most      *)
(* (GroundControlFile).                                                    *)
THEOREM WindowsFileIsTrue == ToolsSpec => []GroundControlFile
  BY FilesStart, FilesNext, FilesImply, PTL DEF ToolsSpec

(* What the loop promises of its file holds within the program, too, where *)
(* it may be refused its buffer and a signal comes before it runs.         *)
THEOREM RecordsWithinProgram == ToolsSpec => [](FileReparses /\ NoFrameLost)
  BY FilesStart, FilesNext, FilesImply, PTL DEF ToolsSpec
=============================================================================
