-------------------------- MODULE TraceToolsProofs --------------------------
(***************************************************************************)
(* Facts about the readers of traces: for every clock, every order of the  *)
(* records and every number of lines, the time line and the tick count are *)
(* off by exactly the cycles that the code's shortcuts cost; for every     *)
(* swarm, the rows made of a trace hold the times reported of one record.  *)
(***************************************************************************)
EXTENDS RecordTools, FiniteSetTheorems, SequenceTheorems, WellFoundedInduction, TLAPS

(* Quotient and remainder of n cycles and a rest                           *)
LEMMA DivMod ==
  ASSUME NEW n \in Nat \ {0}, NEW q \in Nat, NEW r \in 0..(n - 1)
  PROVE  (q * n + r) \div n = q /\ (q * n + r) % n = r
<1> DEFINE x == q * n + r
           d == x \div n
           m == x % n
<1>1. x \in Nat /\ d \in Nat /\ m \in Nat /\ m < n /\ x = d * n + m
  OBVIOUS
<1>2. ~(d < q)
  <2> SUFFICES ASSUME d < q PROVE FALSE
    OBVIOUS
  <2>1. d + 1 <= q /\ (d + 1) * n <= q * n
    BY <1>1
  <2>2. (d + 1) * n = d * n + n
    BY <1>1
  <2> QED BY <1>1, <2>1, <2>2
<1>3. ~(q < d)
  <2> SUFFICES ASSUME q < d PROVE FALSE
    OBVIOUS
  <2>1. q + 1 <= d /\ (q + 1) * n <= d * n
    BY <1>1
  <2>2. (q + 1) * n = q * n + n
    BY <1>1
  <2> QED BY <1>1, <2>1, <2>2
<1>4. d = q
  BY <1>1, <1>2, <1>3
<1> QED BY <1>1, <1>4

(* The clock after a step: what of the step a stamp shows *)
LEMMA LaterClock ==
  ASSUME NEW c \in Clocks, NEW step \in (1 - WRAP)..(WRAP - 1)
  PROVE  /\ Later(c, step) \in Clocks
         /\ Elapsed(c, Later(c, step)) = step
         /\ step >= 0 => Later(c, step).cycle =
              IF Later(c, step).ticks < c.ticks THEN c.cycle + 1 ELSE c.cycle
         /\ step < 0 => Later(c, step).cycle =
              IF Later(c, step).ticks < c.ticks THEN c.cycle ELSE c.cycle - 1
<1> DEFINE ticks == c.ticks + step
<1>1. WRAP \in Nat \ {0} /\ c.cycle \in Int /\ c.ticks \in 0..(WRAP - 1) /\ ticks \in Int
  BY ClockAssumption DEF Clocks
<1>2. CASE ticks >= WRAP
  <2>1. Later(c, step) = [cycle |-> c.cycle + 1, ticks |-> ticks - WRAP]
    BY <1>1, <1>2 DEF Later
  <2> QED BY <1>1, <1>2, <2>1 DEF Clocks, Elapsed
<1>3. CASE ticks \in 0..(WRAP - 1)
  <2>1. Later(c, step) = [cycle |-> c.cycle, ticks |-> ticks]
    BY <1>1, <1>3 DEF Later
  <2> QED BY <1>1, <1>3, <2>1 DEF Clocks, Elapsed
<1>4. CASE ticks < 0
  <2>1. Later(c, step) = [cycle |-> c.cycle - 1, ticks |-> ticks + WRAP]
    BY <1>1, <1>4 DEF Later
  <2> QED BY <1>1, <1>4, <2>1 DEF Clocks, Elapsed
<1> QED BY <1>1, <1>2, <1>3, <1>4

-----------------------------------------------------------------------------
(* TimestampUnwrap: every record stands at its true time since the first   *)
(* one and a cycle for each time that the clock has gone back, and the     *)
(* time line does not decrease.                                            *)

Analyzed == [source : Sources, clock : Clocks, setbacks : Nat, ticks : Nat, continuous : Int]

Cycles(k) == analyzed[k].clock.cycle - analyzed[1].clock.cycle + analyzed[k].setbacks

UnwrapInv ==
  /\ clock \in Clocks
  /\ analyzed \in Seq(Analyzed)
  /\ wrap_count = IF analyzed = <<>> THEN 0 ELSE Cycles(Len(analyzed))
  /\ analyzed # <<>> => clock = Previous.clock /\ analyzed[1].setbacks = 0
  /\ \A k \in 1..Len(analyzed) :
       /\ analyzed[k].ticks = analyzed[k].clock.ticks
       /\ analyzed[k].continuous = analyzed[k].ticks + Cycles(k) * WRAP
  /\ \A j, k \in 1..Len(analyzed) : j <= k => analyzed[j].continuous <= analyzed[k].continuous

LEMMA UnwrapStarts == UnwrapInit => UnwrapInv
<1>1. <<>> \in Seq(Analyzed) /\ Len(<<>>) = 0
  OBVIOUS
<1> QED BY <1>1, ClockAssumption DEF UnwrapInit, UnwrapInv, Clocks

LEMMA AnalyzeStep ==
  ASSUME UnwrapInv, Analyze
  PROVE  UnwrapInv'
<1>0. PICK n \in Nat : n = Len(analyzed)
  BY DEF UnwrapInv
<1> DEFINE p == analyzed[n]
<1>1. PICK src \in Sources, high \in HighBits, step \in Steps :
        LET c       == Later(clock, step)
            current == Masked(c.ticks + high * WRAP)
            count   == IF Wrapped(current) THEN wrap_count + 1 ELSE wrap_count
        IN /\ clock' = c
           /\ wrap_count' = count
           /\ analyzed' = Append(analyzed,
                [source |-> src, clock |-> c, setbacks |-> Setbacks(c),
                 ticks |-> current, continuous |-> current + count * WRAP])
  BY DEF Analyze
<1> DEFINE c       == Later(clock, step)
           current == Masked(c.ticks + high * WRAP)
           count   == IF Wrapped(current) THEN wrap_count + 1 ELSE wrap_count
           e       == [source |-> src, clock |-> c, setbacks |-> Setbacks(c),
                       ticks |-> current, continuous |-> current + count * WRAP]
<1>2. clock' = c /\ wrap_count' = count /\ analyzed' = Append(analyzed, e)
  BY <1>1
<1>3. WRAP \in Nat \ {0} /\ step \in (1 - WRAP)..(WRAP - 1) /\ high \in Nat
  BY ClockAssumption, UnwrapAssumption
<1>4. clock \in Clocks /\ analyzed \in Seq(Analyzed) /\ n \in Nat
  BY <1>0 DEF UnwrapInv
<1>5. /\ c \in Clocks /\ c.cycle \in Int /\ c.ticks \in 0..(WRAP - 1)
      /\ clock.cycle \in Int /\ clock.ticks \in 0..(WRAP - 1)
      /\ Elapsed(clock, c) = step
      /\ step >= 0 => c.cycle = IF c.ticks < clock.ticks THEN clock.cycle + 1 ELSE clock.cycle
      /\ step < 0 => c.cycle = IF c.ticks < clock.ticks THEN clock.cycle ELSE clock.cycle - 1
  <2>1. \A d \in Clocks : d.cycle \in Int /\ d.ticks \in 0..(WRAP - 1)
    BY DEF Clocks
  <2> QED BY <1>3, <1>4, <2>1, LaterClock
<1> HIDE DEF c
<1>6. current = c.ticks
  <2>1. c.ticks + high * WRAP = high * WRAP + c.ticks
    BY <1>3, <1>5
  <2>2. (high * WRAP + c.ticks) % WRAP = c.ticks
    BY <1>3, <1>5, DivMod
  <2> QED BY <2>1, <2>2 DEF Masked
<1> HIDE DEF current
<1>9. count = IF Wrapped(c.ticks) THEN wrap_count + 1 ELSE wrap_count
  BY <1>6
<1> HIDE DEF count
<1>10. e = [source |-> src, clock |-> c, setbacks |-> Setbacks(c),
            ticks |-> c.ticks, continuous |-> c.ticks + count * WRAP]
  BY <1>6
<1> HIDE DEF e
<1>7. CASE analyzed = <<>>
  <2>1. n = 0 /\ Setbacks(c) = 0 /\ count = 0
    BY <1>0, <1>7, <1>9 DEF Setbacks, Wrapped, UnwrapInv
  <2>2. 0 * WRAP = 0
    BY <1>3
  <2>3. e \in Analyzed /\ e.continuous = c.ticks /\ e.setbacks = 0 /\ e.ticks = c.ticks /\ e.clock = c
    BY <1>3, <1>5, <1>10, <2>1, <2>2 DEF Analyzed
  <2>4. analyzed' = <<e>> /\ analyzed' \in Seq(Analyzed) /\ Len(analyzed') = 1 /\ analyzed'[1] = e
    BY <1>2, <1>7, <2>3
  <2>5. analyzed' # <<>> /\ Previous' = e
    BY <2>4 DEF Previous
  <2>6. Cycles(1)' = 0
    BY <1>5, <2>3, <2>4 DEF Cycles
  <2>7. wrap_count' = 0 /\ clock' = c
    BY <1>2, <2>1
  <2>8. \A k \in 1..Len(analyzed') : k = 1
    BY <2>4
  <2>9. e.continuous <= e.continuous
    BY <1>3, <1>5, <2>3
  <2> QED BY <1>5, <2>2, <2>3, <2>4, <2>5, <2>6, <2>7, <2>8, <2>9 DEF UnwrapInv
<1>8. CASE analyzed # <<>>
  <2>1. /\ n \in Nat \ {0} /\ 1 \in 1..n /\ n \in 1..n /\ p \in Analyzed /\ analyzed[1] \in Analyzed
        /\ p = Previous
    BY <1>0, <1>4, <1>8, EmptySeq DEF Previous
  <2>2. /\ clock = p.clock /\ analyzed[1].setbacks = 0 /\ p.ticks = clock.ticks
        /\ p.setbacks \in Nat /\ p.continuous \in Int
        /\ p.continuous = p.ticks + wrap_count * WRAP
        /\ wrap_count = clock.cycle - analyzed[1].clock.cycle + p.setbacks
        /\ analyzed[1].clock.cycle \in Int /\ wrap_count \in Int
    <3>1. clock = p.clock /\ analyzed[1].setbacks = 0 /\ p.ticks = p.clock.ticks
          /\ p.continuous = p.ticks + Cycles(n) * WRAP /\ wrap_count = Cycles(n)
      BY <1>0, <1>8, <2>1 DEF UnwrapInv
    <3>2. p.setbacks \in Nat /\ p.continuous \in Int /\ analyzed[1].clock.cycle \in Int
      BY <2>1 DEF Analyzed, Clocks
    <3>3. Cycles(n) = p.clock.cycle - analyzed[1].clock.cycle + p.setbacks
      BY DEF Cycles
    <3> QED BY <1>5, <3>1, <3>2, <3>3
  <2> HIDE DEF p
  <2>3. Setbacks(c) = p.setbacks + IF step < 0 THEN 1 ELSE 0
    BY <1>5, <1>8, <2>1, <2>2 DEF Setbacks
  <2>4. count = IF c.ticks < clock.ticks THEN wrap_count + 1 ELSE wrap_count
    BY <1>8, <1>9, <2>1, <2>2 DEF Wrapped
  <2>5. /\ count \in Int /\ Setbacks(c) \in Nat /\ Setbacks(c) \in Int
        /\ count = c.cycle - analyzed[1].clock.cycle + Setbacks(c)
    <3>1. CASE step >= 0
      BY <1>3, <1>5, <2>2, <2>3, <2>4, <3>1
    <3>2. CASE step < 0
      BY <1>3, <1>5, <2>2, <2>3, <2>4, <3>2
    <3> QED BY <1>3, <3>1, <3>2
  <2>6. /\ e \in Analyzed /\ e.clock = c /\ e.ticks = c.ticks /\ e.setbacks = Setbacks(c)
        /\ e.continuous = c.ticks + count * WRAP
    <3>1. count * WRAP \in Int
      BY <1>3, <2>5
    <3>2. c.ticks \in Nat /\ c.ticks \in Int
      BY <1>3, <1>5
    <3> QED BY <1>5, <1>10, <2>5, <3>1, <3>2 DEF Analyzed
  <2>7. p.continuous <= e.continuous
    <3>1. CASE c.ticks < clock.ticks
      <4>1. count * WRAP = wrap_count * WRAP + WRAP
        BY <1>3, <2>2, <2>4, <3>1
      <4> QED BY <1>3, <1>5, <2>2, <2>6, <3>1, <4>1
    <3>2. CASE ~(c.ticks < clock.ticks)
      BY <1>3, <1>5, <2>2, <2>4, <2>6, <3>2
    <3> QED BY <3>1, <3>2
  <2>8. /\ analyzed' \in Seq(Analyzed) /\ Len(analyzed') = n + 1
        /\ analyzed'[n + 1] = e /\ \A k \in 1..n : analyzed'[k] = analyzed[k]
        /\ analyzed' # <<>>
    BY <1>0, <1>2, <1>4, <2>6
  <2>9. \A k \in 1..n : Cycles(k)' = Cycles(k)
    BY <2>1, <2>8 DEF Cycles
  <2>10. Cycles(n + 1)' = count
    BY <2>1, <2>5, <2>6, <2>8 DEF Cycles
  <2>11. \A k \in 1..(n + 1) :
           /\ analyzed'[k].ticks = analyzed'[k].clock.ticks
           /\ analyzed'[k].continuous = analyzed'[k].ticks + Cycles(k)' * WRAP
    <3> SUFFICES ASSUME NEW k \in 1..(n + 1)
                 PROVE  /\ analyzed'[k].ticks = analyzed'[k].clock.ticks
                        /\ analyzed'[k].continuous = analyzed'[k].ticks + Cycles(k)' * WRAP
      OBVIOUS
    <3>1. CASE k \in 1..n
      BY <1>0, <2>8, <2>9, <3>1 DEF UnwrapInv
    <3>2. CASE k = n + 1
      BY <2>6, <2>8, <2>10, <3>2
    <3> QED BY <1>4, <3>1, <3>2
  <2>12. ASSUME NEW j \in 1..(n + 1), NEW k \in 1..(n + 1), j <= k
         PROVE  analyzed'[j].continuous <= analyzed'[k].continuous
    <3>1. CASE j \in 1..n /\ k \in 1..n
      BY <1>0, <2>8, <2>12, <3>1 DEF UnwrapInv
    <3>2. CASE j \in 1..n /\ k = n + 1
      <4>1. analyzed[j].continuous <= analyzed[n].continuous
        BY <1>0, <1>4, <2>1, <3>2 DEF UnwrapInv
      <4>3. analyzed[j] \in Analyzed
        BY <1>0, <1>4, <3>2
      <4>4. analyzed[j].continuous \in Int /\ analyzed[n].continuous = p.continuous
        BY <4>3 DEF Analyzed, p
      <4>2. e.continuous \in Int
        BY <2>6 DEF Analyzed
      <4> QED BY <2>2, <2>7, <2>8, <3>2, <4>1, <4>2, <4>4
    <3>3. CASE j = n + 1 /\ k = n + 1
      <4>1. e.continuous \in Int
        BY <2>6 DEF Analyzed
      <4> QED BY <2>8, <3>3, <4>1
    <3> QED BY <1>4, <2>12, <3>1, <3>2, <3>3
  <2>13. analyzed'[1] = analyzed[1] /\ Previous' = e
    BY <2>1, <2>8 DEF Previous
  <2> QED BY <1>2, <1>5, <2>2, <2>6, <2>8, <2>10, <2>11, <2>12, <2>13 DEF UnwrapInv
<1> QED BY <1>7, <1>8

(* The records of a source are sorted as they arrived. *)
LEMMA SortedByArrival ==
  ASSUME UnwrapInv, NEW k \in 1..Len(analyzed)
  PROVE  Before(k) = {i \in 1..(k - 1) : analyzed[i].source = analyzed[k].source}
<1>1. Len(analyzed) \in Nat /\ analyzed \in Seq(Analyzed)
  BY DEF UnwrapInv
<1>2. \A i \in 1..Len(analyzed) : analyzed[i].continuous \in Int
  <2>1. \A i \in 1..Len(analyzed) : analyzed[i] \in Analyzed
    BY <1>1
  <2> QED BY <2>1 DEF Analyzed
<1>3. \A i \in 1..Len(analyzed) : i \in 1..(k - 1) <=> i < k
  BY <1>1
<1>4. 1..(k - 1) \subseteq 1..Len(analyzed)
  BY <1>1
<1>5. ASSUME NEW i \in 1..Len(analyzed), i < k
      PROVE  \/ analyzed[i].continuous < analyzed[k].continuous
             \/ analyzed[i].continuous = analyzed[k].continuous
  <2>1. analyzed[i].continuous <= analyzed[k].continuous
    BY <1>1, <1>5 DEF UnwrapInv
  <2> QED BY <1>2, <2>1
<1>6. ASSUME NEW i \in 1..Len(analyzed), analyzed[i].continuous < analyzed[k].continuous
      PROVE  i < k
  <2>1. k <= i => analyzed[k].continuous <= analyzed[i].continuous
    BY DEF UnwrapInv
  <2> QED BY <1>1, <1>2, <1>6, <2>1
<1> QED BY <1>3, <1>4, <1>5, <1>6 DEF Before

(* The cycles counted are those the clock has gone through and the setbacks. *)
LEMMA TimeLine == UnwrapInv => TimeLineExact
<1> SUFFICES ASSUME UnwrapInv, NEW k \in 1..Len(analyzed)
             PROVE  LET earlier == {i \in 1..(k - 1) : analyzed[i].source = analyzed[k].source}
                    IN /\ rx_time(k) = Elapsed(analyzed[1].clock, analyzed[k].clock)
                                         + analyzed[k].setbacks * WRAP
                       /\ earlier = {} => delta(k) = {}
                       /\ \A i \in earlier :
                            (\A j \in earlier : j <= i)
                              /\ analyzed[i].setbacks = analyzed[k].setbacks
                              => delta(k) = {Elapsed(analyzed[i].clock, analyzed[k].clock)}
  BY DEF TimeLineExact
<1> DEFINE earlier == {i \in 1..(k - 1) : analyzed[i].source = analyzed[k].source}
<1>1. /\ Len(analyzed) \in Nat /\ analyzed # <<>> /\ 1 \in 1..Len(analyzed)
      /\ WRAP \in Nat \ {0}
  <2>1. analyzed \in Seq(Analyzed)
    BY DEF UnwrapInv
  <2> QED BY <2>1, EmptySeq, ClockAssumption
<1>2. ASSUME NEW i \in 1..Len(analyzed)
      PROVE  /\ analyzed[i].clock.cycle \in Int /\ analyzed[i].clock.ticks \in Int
             /\ analyzed[i].setbacks \in Int /\ analyzed[i].continuous \in Int
             /\ analyzed[i].continuous = analyzed[i].clock.ticks
                  + (analyzed[i].clock.cycle - analyzed[1].clock.cycle + analyzed[i].setbacks) * WRAP
  <2>1. analyzed[i] \in Analyzed
    BY <1>1 DEF UnwrapInv
  <2>2. /\ analyzed[i].continuous = analyzed[i].ticks + Cycles(i) * WRAP
        /\ analyzed[i].ticks = analyzed[i].clock.ticks
    BY DEF UnwrapInv
  <2>3. \A c \in Clocks : c.cycle \in Int /\ c.ticks \in Int
    BY <1>1 DEF Clocks
  <2> QED BY <2>1, <2>2, <2>3 DEF Analyzed, Cycles
<1>3. ASSUME NEW i \in 1..Len(analyzed)
      PROVE  analyzed[k].continuous - analyzed[i].continuous
               = Elapsed(analyzed[i].clock, analyzed[k].clock)
                   + (analyzed[k].setbacks - analyzed[i].setbacks) * WRAP
  <2> DEFINE c0 == analyzed[1].clock.cycle
             ci == analyzed[i].clock.cycle
             ck == analyzed[k].clock.cycle
             si == analyzed[i].setbacks
             sk == analyzed[k].setbacks
             ti == analyzed[i].clock.ticks
             tk == analyzed[k].clock.ticks
  <2>1. /\ c0 \in Int /\ ci \in Int /\ ck \in Int /\ si \in Int /\ sk \in Int
        /\ ti \in Int /\ tk \in Int
    BY <1>1, <1>2
  <2>2. /\ analyzed[i].continuous = ti + (ci - c0 + si) * WRAP
        /\ analyzed[k].continuous = tk + (ck - c0 + sk) * WRAP
        /\ Elapsed(analyzed[i].clock, analyzed[k].clock) = (ck - ci) * WRAP + tk - ti
    BY <1>2 DEF Elapsed
  <2> HIDE DEF c0, ci, ck, si, sk, ti, tk
  <2>3. (tk + (ck - c0 + sk) * WRAP) - (ti + (ci - c0 + si) * WRAP)
          = (ck - ci) * WRAP + tk - ti + (sk - si) * WRAP
    BY <1>1, <2>1
  <2> QED BY <2>2, <2>3 DEF si, sk
<1>4. rx_time(k) = Elapsed(analyzed[1].clock, analyzed[k].clock) + analyzed[k].setbacks * WRAP
  <2>1. analyzed[1].setbacks = 0 /\ analyzed[k].setbacks - 0 = analyzed[k].setbacks
    BY <1>1, <1>2 DEF UnwrapInv
  <2> QED BY <1>1, <1>3, <2>1 DEF rx_time
<1>5. Before(k) = earlier
  BY SortedByArrival
<1>6. ASSUME earlier = {} PROVE delta(k) = {}
  BY <1>5, <1>6 DEF delta, Predecessor
<1>7. ASSUME NEW i \in earlier, \A j \in earlier : j <= i,
             analyzed[i].setbacks = analyzed[k].setbacks
      PROVE  delta(k) = {Elapsed(analyzed[i].clock, analyzed[k].clock)}
  <2>1. /\ earlier \subseteq 1..Len(analyzed) /\ i \in 1..Len(analyzed)
        /\ \A j \in earlier : j \in Int /\ analyzed[j].continuous \in Int
    BY <1>1, <1>2
  <2>2. \A j \in earlier : analyzed[j].continuous <= analyzed[i].continuous
    BY <1>7, <2>1 DEF UnwrapInv
  <2>3. i \in Predecessor(k)
    BY <1>5, <1>7, <2>1, <2>2 DEF Predecessor
  <2>4. ASSUME NEW h \in Predecessor(k) PROVE h = i
    <3>1. /\ h \in earlier
          /\ \/ analyzed[i].continuous < analyzed[h].continuous
             \/ analyzed[i].continuous = analyzed[h].continuous /\ i <= h
      BY <1>5, <1>7 DEF Predecessor
    <3> HIDE DEF earlier
    <3> QED BY <1>7, <2>1, <2>2, <3>1
  <2>5. Predecessor(k) = {i}
    BY <2>3, <2>4
  <2>6. delta(k) = {analyzed[k].continuous - analyzed[i].continuous}
    BY <2>5 DEF delta
  <2>7. analyzed[k].continuous - analyzed[i].continuous
          = Elapsed(analyzed[i].clock, analyzed[k].clock)
    <3>1. (analyzed[k].setbacks - analyzed[i].setbacks) * WRAP = 0
      BY <1>1, <1>2, <1>7, <2>1
    <3>2. Elapsed(analyzed[i].clock, analyzed[k].clock) \in Int
      BY <1>1, <1>2, <2>1 DEF Elapsed
    <3> QED BY <1>3, <2>1, <3>1, <3>2
  <2> QED BY <2>6, <2>7
<1> QED BY <1>4, <1>6, <1>7

-----------------------------------------------------------------------------
(* TickCounter: the count of wrap-arounds is the number of stamps below    *)
(* the first one, and no cycle goes by without one as long as the drone    *)
(* asks often enough.                                                      *)

Low(s)  == {k \in 1..Len(s) : s[k].ticks < s[1].ticks}
Silent(s) == \E k \in 2..Len(s) : Elapsed(s[k - 1], s[k]) > s[1].ticks

(* A stamp that is added is low or not; a new cycle starts with a low one. *)
LEMMA LowAppend ==
  ASSUME NEW s \in Seq(Clocks), NEW c \in Clocks, s # <<>>
  PROVE  LET t == Append(s, c) IN
         /\ t \in Seq(Clocks) /\ t # <<>> /\ Len(t) = Len(s) + 1
         /\ t[1] = s[1] /\ t[Len(t)] = c
         /\ Cardinality(Low(s)) \in Nat /\ Cardinality(Low(s)) < Len(s)
         /\ Cardinality(Low(t)) = Cardinality(Low(s)) + IF c.ticks < s[1].ticks THEN 1 ELSE 0
         /\ ~Silent(t) => ~Silent(s) /\
              c.cycle - s[Len(s)].cycle <= IF c.ticks < s[1].ticks THEN 1 ELSE 0
<1> DEFINE n == Len(s)
           t == Append(s, c)
<1>1. /\ n \in Nat \ {0} /\ 1 \in 1..n /\ n \in 1..n
      /\ \A k \in 1..n : s[k] \in Clocks
  BY EmptySeq
<1>2. /\ t \in Seq(Clocks) /\ Len(t) = n + 1 /\ t[n + 1] = c
      /\ \A k \in 1..n : t[k] = s[k]
  OBVIOUS
<1>3. t # <<>> /\ t[1] = s[1]
  BY <1>1, <1>2
<1>4. /\ WRAP \in Nat /\ c.cycle \in Int /\ c.ticks \in 0..(WRAP - 1)
      /\ \A k \in 1..n : s[k].cycle \in Int /\ s[k].ticks \in 0..(WRAP - 1)
  BY <1>1, ClockAssumption DEF Clocks
<1> HIDE DEF n, t
<1>5. /\ IsFiniteSet(Low(s)) /\ Cardinality(Low(s)) \in Nat /\ Cardinality(Low(s)) < n
  <2>1. IsFiniteSet(2..n) /\ Cardinality(2..n) = n - 1
    <3>1. 2 \in Int /\ n \in Int
      BY <1>1
    <3>2. Cardinality(2..n) = IF 2 > n THEN 0 ELSE n - 2 + 1
      BY <3>1, FS_Interval
    <3> QED BY <1>1, <3>1, <3>2, FS_Interval
  <2>2. Low(s) \subseteq 2..n
    <3>1. ~(s[1].ticks < s[1].ticks)
      BY <1>1, <1>4
    <3>2. \A k \in 1..n : k = 1 \/ k \in 2..n
      BY <1>1
    <3> QED BY <3>1, <3>2 DEF Low, n
  <2>3. IsFiniteSet(Low(s)) /\ Cardinality(Low(s)) <= Cardinality(2..n)
    BY <2>1, <2>2, FS_Subset
  <2>4. Cardinality(Low(s)) \in Nat
    BY <2>3, FS_CardinalityType
  <2> QED BY <1>1, <2>1, <2>3, <2>4
<1>6. Low(t) = IF c.ticks < s[1].ticks THEN Low(s) \cup {n + 1} ELSE Low(s)
  <2>1. \A k \in 1..(n + 1) : t[k].ticks < t[1].ticks <=>
          IF k = n + 1 THEN c.ticks < s[1].ticks ELSE s[k].ticks < s[1].ticks
    BY <1>1, <1>2, <1>3
  <2>2. Low(t) = {k \in 1..(n + 1) : t[k].ticks < t[1].ticks}
    BY <1>2 DEF Low
  <2>3. Low(s) = {k \in 1..n : s[k].ticks < s[1].ticks}
    BY DEF Low, n
  <2>4. 1..(n + 1) = (1..n) \cup {n + 1} /\ n + 1 \notin 1..n
    BY <1>1
  <2> QED BY <2>1, <2>2, <2>3, <2>4
<1>7. Cardinality(Low(t)) = Cardinality(Low(s)) + IF c.ticks < s[1].ticks THEN 1 ELSE 0
  <2>1. n + 1 \notin Low(s)
    BY <1>1 DEF Low, n
  <2>2. Cardinality(Low(s) \cup {n + 1}) = Cardinality(Low(s)) + 1
    BY <1>5, <2>1, FS_AddElement
  <2> QED BY <1>5, <1>6, <2>2
<1>8. ASSUME ~Silent(t)
      PROVE  ~Silent(s) /\ c.cycle - s[n].cycle <= IF c.ticks < s[1].ticks THEN 1 ELSE 0
  <2>1. \A k \in 2..(n + 1) : ~(Elapsed(t[k - 1], t[k]) > s[1].ticks)
    BY <1>2, <1>3, <1>8 DEF Silent
  <2>2. ~Silent(s)
    <3>1. \A k \in 2..n : k \in 2..(n + 1) /\ k \in 1..n /\ k - 1 \in 1..n
      BY <1>1
    <3>2. \A k \in 2..n : ~(Elapsed(s[k - 1], s[k]) > s[1].ticks)
      BY <1>2, <2>1, <3>1
    <3> QED BY <3>2 DEF Silent, n
  <2>3. ~(Elapsed(s[n], c) > s[1].ticks)
    <3>1. n + 1 \in 2..(n + 1) /\ (n + 1) - 1 = n /\ n \in 1..n
      BY <1>1
    <3>2. t[(n + 1) - 1] = s[n]
      BY <1>2, <3>1
    <3> QED BY <1>2, <2>1, <3>1, <3>2
  <2> DEFINE x == c.cycle - s[n].cycle
             a == s[n].ticks
             f == s[1].ticks
             b == c.ticks
  <2>4. x \in Int /\ a \in 0..(WRAP - 1) /\ f \in 0..(WRAP - 1) /\ b \in 0..(WRAP - 1)
    BY <1>1, <1>4
  <2>5. x * WRAP + b - a <= f
    <3>1. Elapsed(s[n], c) = x * WRAP + b - a /\ x * WRAP \in Int
      BY <1>4, <2>4 DEF Elapsed
    <3> HIDE DEF x, a, f, b
    <3>2. x * WRAP + b - a \in Int
      BY <2>4, <3>1
    <3> QED BY <2>3, <2>4, <3>1, <3>2 DEF f
  <2> HIDE DEF x, a, f, b
  <2>6. x <= IF b < f THEN 1 ELSE 0
    <3>1. ~(x >= 2)
      <4> SUFFICES ASSUME x >= 2 PROVE FALSE
        OBVIOUS
      <4>1. x * WRAP >= 2 * WRAP
        BY <1>4, <2>4
      <4> QED BY <1>4, <2>4, <2>5, <4>1
    <3>2. x = 1 => b < f
      BY <1>4, <2>4, <2>5
    <3> QED BY <2>4, <3>1, <3>2
  <2> QED BY <2>2, <2>6 DEF x, b, f
<1> QED BY <1>2, <1>3, <1>5, <1>7, <1>8 DEF n, t

(* Stamps taken s, stamp x of clock c, first stamp and number of wraps *)
LineOk(s, x, c, last, count) ==
  /\ x # 0 => x = c.ticks
  /\ IF s = <<>>
       THEN last = 0 /\ count = 0
       ELSE /\ last = s[1].ticks /\ s[1].ticks # 0
            /\ count = Cardinality(Low(s))
            /\ ~Silent(s) => s[Len(s)].cycle - s[1].cycle <= count

Ticks(s, count) == count * (WRAP \div TICK) + s[Len(s)].ticks \div TICK

LineInv(l) ==
  /\ Len(used[l]) <= lines /\ (stamp[l] # 0 => Len(used[l]) < lines)
  /\ LineOk(used[l], stamp[l], stamped[l], lastTimestamp[l], wraps[l])
  /\ result.line = l => used[l] # <<>> /\ result.ticks = Ticks(used[l], wraps[l])

TickInv ==
  /\ now \in Clocks
  /\ lines \in Nat /\ lines <= MaxLines
  /\ stamped \in [Lines -> Clocks]
  /\ stamp \in [Lines -> Nat]
  /\ lastTimestamp \in [Lines -> Nat]
  /\ wraps \in [Lines -> Nat]
  /\ used \in [Lines -> Seq(Clocks)]
  /\ result \in [line : Lines \cup {"none"}, ticks : Int]
  /\ \A l \in Lines : LineInv(l)

LEMMA TicksStart == TickInit => TickInv
<1> SUFFICES ASSUME TickInit PROVE TickInv
  OBVIOUS
<1>1. /\ WRAP \in Nat \ {0} /\ MaxLines \in Nat
      /\ <<>> \in Seq(Clocks) /\ Len(<<>>) = 0 /\ "none" \notin Lines
  BY ClockAssumption, TickAssumption DEF Lines
<1>2. now \in Clocks
  BY <1>1 DEF TickInit, Clocks
<1>3. ASSUME NEW l \in Lines PROVE LineInv(l)
  <2>1. used[l] = <<>> /\ stamp[l] = 0 /\ lastTimestamp[l] = 0 /\ wraps[l] = 0 /\ lines = 0
        /\ result.line = "none"
    BY DEF TickInit
  <2> QED BY <1>1, <2>1 DEF LineInv, LineOk
<1> QED BY <1>1, <1>2, <1>3 DEF TickInit, TickInv

(* A line leaves a stamp. *)
LEMMA LineStep ==
  ASSUME TickInv, NEW l \in Lines, Line(l)
  PROVE  TickInv'
<1>1. PICK step \in LineSteps :
        /\ now' = Later(now, step)
        /\ stamp' = [stamp EXCEPT ![l] = Later(now, step).ticks]
        /\ stamped' = [stamped EXCEPT ![l] = Later(now, step)]
  BY DEF Line
<1> DEFINE c == Later(now, step)
<1>2. c \in Clocks /\ c.ticks \in Nat
  <2>1. step \in (1 - WRAP)..(WRAP - 1)
    BY ClockAssumption, TickAssumption
  <2>2. c \in Clocks
    BY <2>1, LaterClock DEF TickInv
  <2> QED BY <2>2, ClockAssumption DEF Clocks
<1> HIDE DEF c
<1>3. /\ lines' = lines + 1 /\ lines < MaxLines
      /\ UNCHANGED <<lastTimestamp, wraps, used, result>>
      /\ now' = c /\ stamp' = [stamp EXCEPT ![l] = c.ticks] /\ stamped' = [stamped EXCEPT ![l] = c]
  BY <1>1 DEF Line, c
<1>4. MaxLines \in Nat
  BY TickAssumption
<1>5. ASSUME NEW e \in Lines PROVE LineInv(e)'
  <2>1. LineInv(e) /\ Len(used[e]) \in Nat /\ lines \in Nat
    BY DEF TickInv
  <2>2. PICK x \in Nat, d \in Clocks :
          /\ x = stamp'[e] /\ d = stamped'[e]
          /\ IF e = l THEN x = d.ticks ELSE x = stamp[e] /\ d = stamped[e]
    BY <1>2, <1>3 DEF TickInv
  <2>3. LineOk(used[e], x, d, lastTimestamp[e], wraps[e])
    BY <2>1, <2>2 DEF LineInv, LineOk
  <2>4. Len(used[e]) <= lines + 1 /\ Len(used[e]) < lines + 1
    BY <2>1 DEF LineInv
  <2>5. result.line = e => used[e] # <<>> /\ result.ticks = Ticks(used[e], wraps[e])
    BY <2>1 DEF LineInv
  <2>6. UNCHANGED <<used[e], lastTimestamp[e], wraps[e], result>> /\ Ticks(used[e], wraps[e])' = Ticks(used[e], wraps[e])
    BY <1>3 DEF Ticks
  <2> QED BY <1>3, <2>2, <2>3, <2>4, <2>5, <2>6 DEF LineInv
<1> QED BY <1>2, <1>3, <1>4, <1>5 DEF TickInv

(* A call takes the stamp: the 16 bits of the count do not wrap as long as *)
(* there are fewer lines.                                                  *)
LEMMA TakeStep ==
  ASSUME TickInv, MaxLines < 65536, NEW l \in Lines, stamp[l] # 0, Take(l),
         UNCHANGED <<now, lines, stamped>>
  PROVE  TickInv'
<1> DEFINE s == used[l]
           c == stamped[l]
           t == Append(s, c)
           low == stamp[l] < lastTimestamp[l]
<1>1. /\ LineInv(l) /\ lines \in Nat /\ lines <= MaxLines /\ MaxLines \in Nat
      /\ s \in Seq(Clocks) /\ Len(s) \in Nat /\ c \in Clocks
      /\ stamp[l] \in Nat /\ stamp[l] = c.ticks /\ wraps[l] \in Nat
      /\ stamp \in [Lines -> Nat] /\ wraps \in [Lines -> Nat]
      /\ used \in [Lines -> Seq(Clocks)] /\ lastTimestamp \in [Lines -> Nat]
      /\ result \in [line : Lines \cup {"none"}, ticks : Int]
  BY TickAssumption DEF TickInv, LineInv, LineOk
<1>2. /\ lastTimestamp' = [lastTimestamp EXCEPT ![l] =
                             IF lastTimestamp[l] = 0 THEN stamp[l] ELSE lastTimestamp[l]]
      /\ wraps' = [wraps EXCEPT ![l] = IF low THEN (wraps[l] + 1) % 65536 ELSE wraps[l]]
      /\ result' = [result EXCEPT !.line = l,
                      !.ticks = wraps'[l] * (WRAP \div TICK) + stamp[l] \div TICK]
      /\ used' = [used EXCEPT ![l] = t]
      /\ stamp' = [stamp EXCEPT ![l] = 0]
  BY <1>1 DEF Take, Count
<1>3. /\ lastTimestamp'[l] = IF lastTimestamp[l] = 0 THEN stamp[l] ELSE lastTimestamp[l]
      /\ wraps'[l] = IF low THEN (wraps[l] + 1) % 65536 ELSE wraps[l]
      /\ used'[l] = t /\ stamp'[l] = 0
      /\ \A e \in Lines \ {l} : /\ lastTimestamp'[e] = lastTimestamp[e] /\ wraps'[e] = wraps[e]
                                /\ used'[e] = used[e] /\ stamp'[e] = stamp[e]
      /\ result'.line = l
      /\ result'.ticks = wraps'[l] * (WRAP \div TICK) + stamp[l] \div TICK
  BY <1>1, <1>2
<1>4. Len(s) + 1 <= lines /\ Len(s) < 65536
  BY <1>1 DEF LineInv
<1> HIDE DEF low, s, c, t
<1>5. /\ t \in Seq(Clocks) /\ t # <<>> /\ Len(t) = Len(s) + 1 /\ t[Len(t)] = c
      /\ wraps'[l] = Cardinality(Low(t)) /\ wraps'[l] \in Nat
      /\ lastTimestamp'[l] = t[1].ticks /\ t[1].ticks # 0 /\ t[1].ticks \in Nat
      /\ ~Silent(t) => t[Len(t)].cycle - t[1].cycle <= wraps'[l]
  <2>1. CASE s = <<>>
    <3>1. /\ t = <<c>> /\ t \in Seq(Clocks) /\ t # <<>> /\ Len(t) = 1 /\ t[1] = c /\ Len(s) = 0
          /\ t[Len(t)] = c
      BY <1>1, <2>1 DEF t
    <3>2. lastTimestamp[l] = 0 /\ wraps[l] = 0
      BY <1>1, <2>1 DEF LineInv, LineOk, s
    <3>3. lastTimestamp'[l] = c.ticks /\ wraps'[l] = 0
      BY <1>1, <1>3, <3>2 DEF low
    <3>4. Low(t) = {}
      <4>1. ~(c.ticks < c.ticks)
        BY <1>1
      <4> QED BY <3>1, <4>1 DEF Low
    <3>5. Cardinality(Low(t)) = 0
      BY <3>4, FS_EmptySet
    <3>6. t[Len(t)].cycle - t[1].cycle = 0
      BY <1>1, <3>1, ClockAssumption DEF Clocks
    <3> QED BY <1>1, <3>1, <3>3, <3>5, <3>6
  <2>2. CASE s # <<>>
    <3>1. /\ lastTimestamp[l] = s[1].ticks /\ s[1].ticks # 0
          /\ wraps[l] = Cardinality(Low(s))
          /\ ~Silent(s) => s[Len(s)].cycle - s[1].cycle <= wraps[l]
      BY <1>1, <2>2 DEF LineInv, LineOk, s
    <3>2. /\ t \in Seq(Clocks) /\ t # <<>> /\ Len(t) = Len(s) + 1
          /\ t[1] = s[1] /\ t[Len(t)] = c
          /\ Cardinality(Low(s)) \in Nat /\ Cardinality(Low(s)) < Len(s)
          /\ Cardinality(Low(t)) = Cardinality(Low(s)) + IF c.ticks < s[1].ticks THEN 1 ELSE 0
          /\ ~Silent(t) => ~Silent(s) /\
               c.cycle - s[Len(s)].cycle <= IF c.ticks < s[1].ticks THEN 1 ELSE 0
      BY <1>1, <2>2, LowAppend DEF t
    <3>3. low <=> c.ticks < s[1].ticks
      BY <1>1, <3>1 DEF low
    <3>4. wraps'[l] = wraps[l] + IF c.ticks < s[1].ticks THEN 1 ELSE 0
      <4>1. wraps[l] + 1 < 65536
        BY <1>1, <1>4, <3>1, <3>2
      <4>2. (wraps[l] + 1) % 65536 = wraps[l] + 1
        BY <1>1, <4>1
      <4> QED BY <1>1, <1>3, <3>3, <4>2
    <3>5. /\ s[1].cycle \in Int /\ s[Len(s)].cycle \in Int /\ c.cycle \in Int
          /\ s[1].ticks \in Nat
      <4>1. s[1] \in Clocks /\ s[Len(s)] \in Clocks
        BY <1>1, <2>2, EmptySeq
      <4> QED BY <1>1, <4>1, ClockAssumption DEF Clocks
    <3>6. lastTimestamp'[l] = s[1].ticks
      BY <1>3, <3>1
    <3>7. wraps'[l] = Cardinality(Low(t)) /\ wraps'[l] \in Nat
      BY <1>1, <3>1, <3>2, <3>4
    <3>8. lastTimestamp'[l] = t[1].ticks /\ t[1].ticks # 0 /\ t[1].ticks \in Nat
      BY <3>1, <3>2, <3>5, <3>6
    <3>9. ASSUME ~Silent(t) PROVE t[Len(t)].cycle - t[1].cycle <= wraps'[l]
      <4>1. /\ t[1] = s[1] /\ t[Len(t)] = c
            /\ c.cycle - s[Len(s)].cycle <= IF c.ticks < s[1].ticks THEN 1 ELSE 0
            /\ s[Len(s)].cycle - s[1].cycle <= wraps[l]
        BY <3>1, <3>2, <3>9
      <4>2. wraps[l] \in Nat
        BY <1>1
      <4>3. c.cycle - s[1].cycle <= wraps'[l]
        <5>1. CASE c.ticks < s[1].ticks
          <6>1. c.cycle - s[Len(s)].cycle <= 1 /\ wraps'[l] = wraps[l] + 1
            BY ONLY <3>4, <4>1, <5>1
          <6> QED BY ONLY <3>5, <4>1, <4>2, <6>1
        <5>2. CASE ~(c.ticks < s[1].ticks)
          <6>1. c.cycle - s[Len(s)].cycle <= 0 /\ wraps'[l] = wraps[l] + 0
            BY ONLY <3>4, <4>1, <5>2
          <6> QED BY ONLY <3>5, <4>1, <4>2, <6>1
        <5> QED BY ONLY <5>1, <5>2
      <4> QED BY ONLY <4>1, <4>3
    <3>10. ~Silent(t) => t[Len(t)].cycle - t[1].cycle <= wraps'[l]
      BY <3>9
    <3>11. t \in Seq(Clocks) /\ t # <<>> /\ Len(t) = Len(s) + 1 /\ t[Len(t)] = c
      BY <3>2
    <3> QED BY <3>7, <3>8, <3>10, <3>11
  <2> QED BY <2>1, <2>2
<1>6. LineInv(l)'
  <2>1. LineOk(t, 0, stamped'[l], lastTimestamp'[l], wraps'[l])
    BY <1>5 DEF LineOk
  <2>2. result'.ticks = Ticks(t, wraps'[l])
    BY <1>1, <1>3, <1>5 DEF Ticks
  <2> QED BY <1>3, <1>4, <1>5, <2>1, <2>2 DEF LineInv, Ticks
<1>7. ASSUME NEW e \in Lines, e # l PROVE LineInv(e)'
  <2>1. LineInv(e)
    BY DEF TickInv
  <2>2. /\ e \in Lines \ {l} /\ result'.line # e
        /\ UNCHANGED <<lines, stamped[e], lastTimestamp[e], wraps[e], used[e], stamp[e]>>
    BY <1>3, <1>7
  <2>3. LineOk(used[e], stamp[e], stamped[e], lastTimestamp[e], wraps[e])'
    BY <2>1, <2>2 DEF LineInv
  <2>4. (Len(used[e]) <= lines /\ (stamp[e] # 0 => Len(used[e]) < lines))'
    BY <2>1, <2>2 DEF LineInv
  <2>5. (result.line = e => used[e] # <<>> /\ result.ticks = Ticks(used[e], wraps[e]))'
    BY <2>2
  <2> QED BY <2>3, <2>4, <2>5 DEF LineInv
<1>8. /\ stamp' \in [Lines -> Nat] /\ wraps' \in [Lines -> Nat]
      /\ used' \in [Lines -> Seq(Clocks)] /\ lastTimestamp' \in [Lines -> Nat]
  <2>1. wraps'[l] = IF low THEN (wraps[l] + 1) % 65536 ELSE wraps[l]
    BY <1>3
  <2> QED BY <1>1, <1>2, <1>5, <2>1
<1>9. result' \in [line : Lines \cup {"none"}, ticks : Int]
  <2> DEFINE x == wraps'[l] * (WRAP \div TICK) + stamp[l] \div TICK
  <2>1. WRAP \div TICK \in Int /\ stamp[l] \div TICK \in Int
    BY <1>1, ClockAssumption, TickAssumption
  <2>2. x \in Int
    BY <1>5, <2>1
  <2>3. result' = [result EXCEPT !.line = l, !.ticks = x]
    BY <1>2
  <2> HIDE DEF x
  <2>4. result \in [line : Lines \cup {"none"}, ticks : Int]
    BY <1>1
  <2>5. [result EXCEPT !.line = l, !.ticks = x] \in [line : Lines \cup {"none"}, ticks : Int]
    BY ONLY <2>2, <2>4, l \in Lines
  <2> QED BY ONLY <2>3, <2>5
<1>10. ASSUME NEW e \in Lines PROVE LineInv(e)'
  BY <1>6, <1>7
<1>11. UNCHANGED <<now, lines, stamped>>
  OBVIOUS
<1>12. /\ now' \in Clocks /\ lines' \in Nat /\ lines' <= MaxLines
       /\ stamped' \in [Lines -> Clocks]
  BY <1>11 DEF TickInv
<1> QED BY ONLY <1>8, <1>9, <1>10, <1>12 DEF TickInv

(* A call: the stamp of a TX line, that of an RX line, or none *)
LEMMA CallStep ==
  ASSUME TickInv, MaxLines < 65536, xTaskGetTickCount
  PROVE  TickInv'
<1>1. "Tx" \in Lines /\ "Rx" \in Lines /\ UNCHANGED <<now, lines, stamped>>
  BY DEF Lines, xTaskGetTickCount
<1>2. CASE stamp["Tx"] # 0 /\ Take("Tx")
  BY <1>1, <1>2, TakeStep
<1>3. CASE stamp["Rx"] # 0 /\ Take("Rx")
  BY <1>1, <1>3, TakeStep
<1>4. CASE /\ result' \in [line : {"none"}, ticks : Unset]
           /\ UNCHANGED <<lastTimestamp, wraps, used, stamp>>
  <2>1. result'.line = "none" /\ result' \in [line : Lines \cup {"none"}, ticks : Int]
    <3>1. Unset \subseteq Int
      BY TickAssumption
    <3>2. \A r \in [line : {"none"}, ticks : Unset] :
            r.line = "none" /\ r \in [line : Lines \cup {"none"}, ticks : Int]
      BY ONLY <3>1
    <3> QED BY ONLY <1>4, <3>2
  <2>2. "none" \notin Lines
    BY DEF Lines
  <2>3. ASSUME NEW e \in Lines PROVE LineInv(e)'
    <3>1. LineInv(e)
      BY DEF TickInv
    <3>2. result'.line # e
      BY <2>1, <2>2
    <3>3. LineOk(used[e], stamp[e], stamped[e], lastTimestamp[e], wraps[e])'
      BY <1>1, <1>4, <3>1 DEF LineInv
    <3>4. (Len(used[e]) <= lines /\ (stamp[e] # 0 => Len(used[e]) < lines))'
      BY <1>1, <1>4, <3>1 DEF LineInv
    <3>5. (result.line = e => used[e] # <<>> /\ result.ticks = Ticks(used[e], wraps[e]))'
      BY <3>2
    <3> QED BY <3>3, <3>4, <3>5 DEF LineInv
  <2>4. /\ now' \in Clocks /\ lines' \in Nat /\ lines' <= MaxLines
        /\ stamped' \in [Lines -> Clocks] /\ stamp' \in [Lines -> Nat]
        /\ wraps' \in [Lines -> Nat] /\ used' \in [Lines -> Seq(Clocks)]
        /\ lastTimestamp' \in [Lines -> Nat]
    BY <1>1, <1>4 DEF TickInv
  <2> QED BY ONLY <2>1, <2>3, <2>4 DEF TickInv
<1> QED BY <1>2, <1>3, <1>4 DEF xTaskGetTickCount

LEMMA TickSame == TickInv /\ UNCHANGED ticking => TickInv'
<1> SUFFICES ASSUME TickInv, UNCHANGED ticking PROVE TickInv'
  OBVIOUS
<1>1. UNCHANGED <<now, lines, stamped, stamp, lastTimestamp, wraps, used, result>>
  BY DEF ticking
<1>2. ASSUME NEW e \in Lines PROVE LineInv(e)'
  <2>1. LineInv(e)
    BY DEF TickInv
  <2>2. LineOk(used[e], stamp[e], stamped[e], lastTimestamp[e], wraps[e])'
    BY <1>1, <2>1 DEF LineInv
  <2>3. (Len(used[e]) <= lines /\ (stamp[e] # 0 => Len(used[e]) < lines))'
    BY <1>1, <2>1 DEF LineInv
  <2>4. (result.line = e => used[e] # <<>> /\ result.ticks = Ticks(used[e], wraps[e]))'
    BY <1>1, <2>1 DEF LineInv, Ticks
  <2> QED BY <2>2, <2>3, <2>4 DEF LineInv
<1> QED BY <1>1, <1>2 DEF TickInv

(* The count of a line is that of its stamps below the first one.          *)
LEMMA CountAhead == TickInv => TicksAhead
<1> SUFFICES ASSUME TickInv, NEW l \in Lines, result.line = l
             PROVE  LET exact == Rounds(l) * (WRAP \div TICK) + Current(l).ticks \div TICK
                    IN /\ result.ticks = exact + (LowStamps(l) - Rounds(l)) * (WRAP \div TICK)
                       /\ NeverSilent(l) => result.ticks >= exact
  BY DEF TicksAhead
<1> DEFINE s == used[l]
           n == Len(s)
           r == Rounds(l)
           low == LowStamps(l)
           x == WRAP \div TICK
           c == Current(l).ticks \div TICK
<1>1. LineInv(l) /\ s \in Seq(Clocks) /\ wraps[l] \in Nat
  BY DEF TickInv
<1>2. s # <<>> /\ result.ticks = Ticks(s, wraps[l])
  BY <1>1 DEF LineInv
<1>3. wraps[l] = Cardinality(Low(s)) /\ (~Silent(s) => s[n].cycle - s[1].cycle <= wraps[l])
  BY <1>1, <1>2 DEF LineInv, LineOk
<1>4. low = wraps[l]
  BY <1>3 DEF LowStamps, Low, FirstUsed
<1>5. s[1] \in Clocks /\ s[n] \in Clocks
  BY <1>1, <1>2, EmptySeq
<1>6. WRAP \in Nat /\ TICK \in Nat \ {0} /\ x \in Nat
  BY ClockAssumption, TickAssumption
<1>7. r = s[n].cycle - s[1].cycle /\ r \in Int /\ c \in Int /\ low \in Nat
  BY <1>1, <1>4, <1>5, <1>6 DEF Clocks, Rounds, Current, FirstUsed
<1>8. result.ticks = low * x + c
  BY <1>2, <1>4 DEF Ticks, Current
<1>9. NeverSilent(l) => r <= low
  <2> SUFFICES ASSUME NeverSilent(l) PROVE r <= low
    OBVIOUS
  <2>1. \A k \in 2..n : s[k] \in Clocks /\ s[k - 1] \in Clocks
    <3> SUFFICES ASSUME NEW k \in 2..n PROVE s[k] \in Clocks /\ s[k - 1] \in Clocks
      OBVIOUS
    <3>1. n \in Nat /\ k \in 1..n /\ k - 1 \in 1..n
      BY <1>1
    <3> QED BY <1>1, <3>1
  <2>2. \A k \in 2..n : Elapsed(s[k - 1], s[k]) \in Int
    <3> SUFFICES ASSUME NEW k \in 2..n PROVE Elapsed(s[k - 1], s[k]) \in Int
      OBVIOUS
    <3> DEFINE a == s[k - 1]
               b == s[k]
    <3>1. a \in Clocks /\ b \in Clocks
      BY <2>1
    <3> HIDE DEF a, b
    <3>2. a.cycle \in Int /\ b.cycle \in Int /\ a.ticks \in Int /\ b.ticks \in Int
      BY ONLY <1>6, <3>1 DEF Clocks
    <3>3. b.cycle - a.cycle \in Int /\ (b.cycle - a.cycle) * WRAP \in Int
      BY ONLY <1>6, <3>2
    <3>4. Elapsed(a, b) \in Int
      BY ONLY <3>2, <3>3 DEF Elapsed
    <3> QED BY <3>4 DEF a, b
  <2>3. s[1].ticks \in Int
    BY <1>5, <1>6 DEF Clocks
  <2>4. ~Silent(s)
    BY <2>2, <2>3 DEF NeverSilent, Silent, FirstUsed
  <2> QED BY <1>3, <1>4, <1>7, <2>4
<1> HIDE DEF s, n, r, low, x, c
<1>10. low * x + c = r * x + c + (low - r) * x
  BY <1>6, <1>7
<1>11. r <= low => r * x <= low * x
  BY <1>6, <1>7
<1>12. r <= low => low * x + c >= r * x + c
  <2>1. r * x \in Int /\ low * x \in Int
    BY <1>6, <1>7
  <2> QED BY <1>7, <1>11, <2>1
<1> QED BY <1>8, <1>9, <1>10, <1>12 DEF r, low, x, c

-----------------------------------------------------------------------------
(* TraceRing: where the ring puts a record, and when its row is due        *)

Position(e)  == (e - 1) % buffer_size
Boundary(r)  == DRONE_NUM * (r \div DRONE_NUM) - 4 * DRONE_NUM

(* The ring has room for five records of each drone.                       *)
LEMMA RingSize ==
  /\ DRONE_NUM \in Nat \ {0} /\ DRONE_NUM >= 2
  /\ buffer_size \in Nat \ {0} /\ buffer_size = 5 * DRONE_NUM
<1>1. DRONE_NUM \in Nat /\ DRONE_NUM >= 2
  BY RingAssumption
<1> QED BY <1>1 DEF buffer_size

(* A number is so many times n, and a rest.                                *)
LEMMA Divided ==
  ASSUME NEW n \in Nat \ {0}, NEW x \in Nat
  PROVE  x \div n \in Nat /\ x % n \in 0..(n - 1) /\ x = (x \div n) * n + (x % n)
  OBVIOUS

(* Products grow with their factors.                                       *)
LEMMA TimesMonotonic ==
  ASSUME NEW n \in Nat, NEW a \in Int, NEW b \in Int, a <= b
  PROVE  a * n <= b * n
  OBVIOUS

(* Records that are less than a ring apart have different slots.           *)
LEMMA SlotsApart ==
  ASSUME NEW e \in Nat \ {0}, NEW f \in Nat \ {0}, e < f, f < e + buffer_size
  PROVE  Position(e) # Position(f)
<1> DEFINE B == buffer_size
           q == (e - 1) \div B
           t == (f - 1) \div B
           r == (e - 1) % B
           s == (f - 1) % B
<1>1. B \in Nat \ {0} /\ e - 1 \in Nat /\ f - 1 \in Nat
  BY RingSize
<1>2. q \in Nat /\ r \in 0..(B - 1) /\ e - 1 = q * B + r
  BY <1>1, Divided
<1>3. t \in Nat /\ s \in 0..(B - 1) /\ f - 1 = t * B + s
  BY <1>1, Divided
<1> HIDE DEF q, r, t, s, B
<1>4. r # s
  <2> SUFFICES ASSUME r = s PROVE FALSE
    OBVIOUS
  <2>1. q * B \in Int /\ t * B \in Int
    BY <1>1, <1>2, <1>3
  <2>2. q * B < t * B /\ t * B < q * B + B
    BY <1>1, <1>2, <1>3, <2>1 DEF B
  <2>3. CASE t <= q
    <3>1. t * B <= q * B
      BY <1>1, <1>2, <1>3, <2>3, TimesMonotonic
    <3> QED BY <2>1, <2>2, <3>1
  <2>4. CASE q + 1 <= t
    <3>1. (q + 1) * B <= t * B
      BY <1>1, <1>2, <1>3, <2>4, TimesMonotonic
    <3>2. (q + 1) * B = q * B + B
      BY <1>1, <1>2
    <3> QED BY <1>1, <2>1, <2>2, <3>1, <3>2
  <2> QED BY <1>2, <1>3, <2>3, <2>4
<1> QED BY <1>4 DEF r, s, B, Position

(* The position of a record, in the first round its number less one        *)
LEMMA PositionInRing ==
  ASSUME NEW e \in Nat \ {0}
  PROVE  Position(e) \in Slots /\ (e <= buffer_size => Position(e) = e - 1)
<1>1. buffer_size \in Nat \ {0} /\ e - 1 \in Nat
  BY RingSize
<1>2. (e - 1) % buffer_size \in 0..(buffer_size - 1)
  BY <1>1, Divided
<1>3. ASSUME e <= buffer_size PROVE (e - 1) % buffer_size = e - 1
  <2>1. e - 1 \in 0..(buffer_size - 1) /\ 0 * buffer_size + (e - 1) = e - 1
    BY <1>1, <1>3
  <2>2. (0 * buffer_size + (e - 1)) % buffer_size = e - 1
    BY <1>1, <2>1, DivMod, Zenon
  <2> QED BY <2>1, <2>2, Zenon
<1> QED BY <1>2, <1>3 DEF Position, Slots

(* The n-th position behind that of the record r + 1                       *)
LEMMA PositionBehind ==
  ASSUME NEW r \in Nat, NEW n \in 1..DRONE_NUM
  PROVE  /\ r + 1 + n > buffer_size =>
              /\ r + 1 - buffer_size + n \in Nat \ {0}
              /\ ((r % buffer_size) + n) % buffer_size = Position(r + 1 - buffer_size + n)
         /\ r + n < buffer_size => ((r % buffer_size) + n) % buffer_size = r + n
<1> DEFINE B == buffer_size
           q == r \div B
           s == r % B
<1>1. B \in Nat \ {0} /\ n \in Nat /\ n <= B /\ 1 <= n
  BY RingSize
<1>2. q \in Nat /\ s \in 0..(B - 1) /\ r = q * B + s
  BY <1>1, Divided
<1> HIDE DEF q, s
<1>3. ASSUME r + 1 + n > B
      PROVE  r + 1 - B + n \in Nat \ {0} /\ (s + n) % B = ((r + 1 - B + n) - 1) % B
  <2> HIDE DEF B
  <2>1. r + 1 - B + n \in Nat \ {0}
    BY <1>1, <1>3
  <2>2. q * B \in Nat
    BY <1>1, <1>2
  <2>3. CASE s + n < B
    <3>1. q # 0
      <4>1. q = 0 => q * B = 0
        BY <1>1
      <4> QED BY <1>1, <1>2, <1>3, <2>3, <4>1
    <3>2. q - 1 \in Nat /\ (q - 1) * B = q * B - B
      BY <1>1, <1>2, <3>1
    <3>3. (r + 1 - B + n) - 1 = (q - 1) * B + (s + n) /\ s + n \in 0..(B - 1)
      BY <1>1, <1>2, <2>2, <2>3, <3>2
    <3>4. ((r + 1 - B + n) - 1) % B = s + n
      BY <1>1, <3>2, <3>3, DivMod
    <3>5. (s + n) % B = s + n
      <4>1. 0 * B + (s + n) = s + n
        BY <1>1, <1>2
      <4>2. (0 * B + (s + n)) % B = s + n
        BY <1>1, <3>3, DivMod
      <4> QED BY <4>1, <4>2, Zenon
    <3> QED BY <2>1, <3>4, <3>5
  <2>4. CASE ~(s + n < B)
    <3>1. s + n - B \in 0..(B - 1) /\ (r + 1 - B + n) - 1 = q * B + (s + n - B)
      BY <1>1, <1>2, <2>2, <2>4
    <3>2. ((r + 1 - B + n) - 1) % B = s + n - B
      <4>1. (q * B + (s + n - B)) % B = s + n - B
        BY <1>1, <1>2, <3>1, DivMod, Zenon
      <4> QED BY <3>1, <4>1, Zenon
    <3>3. s + n = 1 * B + (s + n - B)
      BY <1>1, <1>2
    <3>4. (1 * B + (s + n - B)) % B = s + n - B
      BY <1>1, <3>1, DivMod
    <3> QED BY <2>1, <3>2, <3>3, <3>4
  <2> QED BY <2>3, <2>4
<1>4. ASSUME r + n < B PROVE (s + n) % B = r + n
  <2> HIDE DEF B
  <2>1. q = 0
    <3> SUFFICES ASSUME q # 0 PROVE FALSE
      OBVIOUS
    <3>1. 1 * B <= q * B
      BY <1>1, <1>2, TimesMonotonic
    <3>2. q * B \in Nat
      BY <1>1, <1>2
    <3> QED BY <1>1, <1>2, <1>4, <3>1, <3>2
  <2>2. s = r
    <3>1. q * B = 0
      BY <1>1, <2>1
    <3> QED BY <1>2, <3>1
  <2>3. r + n \in 0..(B - 1) /\ 0 * B + (r + n) = r + n
    BY <1>1, <1>4
  <2>4. (0 * B + (r + n)) % B = r + n
    BY <1>1, <2>3, DivMod
  <2> QED BY <2>2, <2>3, <2>4, Zenon
<1>5. Position(r + 1 - B + n) = ((r + 1 - B + n) - 1) % B
  BY Zenon DEF Position
<1>6. r + 1 + n > B => /\ r + 1 - B + n \in Nat \ {0}
                       /\ (s + n) % B = Position(r + 1 - B + n)
  BY <1>3, <1>5, Zenon
<1> QED BY <1>4, <1>6 DEF s

(* When a row is due                                                       *)
LEMMA WrittenFacts ==
  ASSUME NEW e \in Nat \ {0}
  PROVE  WrittenAt(e) \in Nat /\ WrittenAt(e) >= e + 4 * DRONE_NUM
<1> DEFINE N == DRONE_NUM
           q == (e - 1) \div N
           s == (e - 1) % N
<1>1. N \in Nat \ {0} /\ e - 1 \in Nat
  BY RingSize
<1>2. q \in Nat /\ s \in 0..(N - 1) /\ e - 1 = q * N + s
  BY <1>1, Divided
<1>3. WrittenAt(e) = N * (q + 5)
  BY DEF WrittenAt
<1> HIDE DEF q, s, N
<1>4. N * (q + 5) = q * N + 5 * N /\ q * N \in Nat
  BY <1>1, <1>2
<1>5. q * N + 5 * N >= e + 4 * N
  BY <1>1, <1>2, <1>4
<1>6. q * N + 5 * N \in Nat
  BY <1>1, <1>4
<1> QED BY <1>3, <1>4, <1>5, <1>6, Zenon DEF N

(* The records of a block are all due with the same record.                *)
LEMMA WrittenInBlock ==
  ASSUME NEW m \in Nat, NEW n \in 1..DRONE_NUM, m * DRONE_NUM - buffer_size + n >= 1
  PROVE  WrittenAt(m * DRONE_NUM - buffer_size + n) = m * DRONE_NUM
<1> DEFINE N == DRONE_NUM
           e == m * N - buffer_size + n
<1>1. N \in Nat \ {0} /\ n \in Nat /\ 1 <= n /\ n <= N /\ buffer_size = 5 * N
  BY RingSize
<1> HIDE DEF N
<1>2. m * N \in Nat
  BY <1>1
<1>3. m >= 5
  <2> SUFFICES ASSUME m <= 4 PROVE FALSE
    OBVIOUS
  <2>1. m * N <= 4 * N
    BY <1>1, TimesMonotonic
  <2> QED BY <1>1, <1>2, <2>1 DEF N
<1>4. m - 5 \in Nat /\ (m - 5) * N = m * N - 5 * N /\ n - 1 \in 0..(N - 1)
  BY <1>1, <1>3
<1>5. ((m - 5) * N + (n - 1)) \div N = m - 5
  BY <1>1, <1>4, DivMod, Zenon
<1>6. e - 1 = (m - 5) * N + (n - 1)
  BY <1>1, <1>2, <1>4
<1>7. N * ((m - 5) + 5) = m * N
  BY <1>1, <1>3
<1>8. WrittenAt(e) = N * ((m - 5) + 5)
  BY <1>5, <1>6, Zenon DEF WrittenAt, N
<1> QED BY <1>7, <1>8, Zenon DEF e, N

(* The records whose rows have been due are the first ones.                *)
LEMMA WrittenBy ==
  ASSUME NEW e \in Nat \ {0}, NEW r \in Nat
  PROVE  WrittenAt(e) <= r <=> e <= Boundary(r)
<1> DEFINE N == DRONE_NUM
           q == (e - 1) \div N
           s == (e - 1) % N
           t == r \div N
           u == r % N
<1>1. N \in Nat \ {0} /\ e - 1 \in Nat
  BY RingSize
<1>2. q \in Nat /\ s \in 0..(N - 1) /\ e - 1 = q * N + s
  BY <1>1, Divided
<1>3. t \in Nat /\ u \in 0..(N - 1) /\ r = t * N + u
  BY <1>1, Divided
<1>4. WrittenAt(e) = N * (q + 5) /\ Boundary(r) = N * t - 4 * N
  BY DEF WrittenAt, Boundary
<1> HIDE DEF q, s, t, u, N
<1>5. N * (q + 5) = q * N + 5 * N /\ q * N \in Nat /\ t * N \in Nat /\ N * t = t * N
  BY <1>1, <1>2, <1>3
<1>6. CASE q + 5 <= t
  <2>1. (q + 5) * N <= t * N
    BY <1>1, <1>2, <1>3, <1>6, TimesMonotonic
  <2>2. (q + 5) * N = q * N + 5 * N
    BY <1>1, <1>2
  <2>3. q * N + 5 * N <= r /\ e <= t * N - 4 * N
    BY <1>1, <1>2, <1>3, <1>5, <2>1, <2>2
  <2> QED BY <1>4, <1>5, <2>3, Zenon
<1>7. CASE t + 1 <= q + 5
  <2>1. (t + 1) * N <= (q + 5) * N
    BY <1>1, <1>2, <1>3, <1>7, TimesMonotonic
  <2>2. (q + 5) * N = q * N + 5 * N /\ (t + 1) * N = t * N + N
    BY <1>1, <1>2, <1>3
  <2>3. ~(q * N + 5 * N <= r) /\ ~(e <= t * N - 4 * N)
    BY <1>1, <1>2, <1>3, <1>5, <2>1, <2>2
  <2> QED BY <1>4, <1>5, <2>3, Zenon
<1> QED BY <1>2, <1>3, <1>6, <1>7

(* A block of rows is due with every DRONE_NUM-th record.                  *)
LEMMA BoundaryMoves ==
  ASSUME NEW r \in Nat
  PROVE  /\ ((r % buffer_size) + 1) % DRONE_NUM = 0 =>
              \E m \in Nat : /\ r + 1 = m * DRONE_NUM
                             /\ Boundary(r + 1) = r + 1 - buffer_size + DRONE_NUM
                             /\ Boundary(r) = r + 1 - buffer_size
         /\ ((r % buffer_size) + 1) % DRONE_NUM # 0 => Boundary(r + 1) = Boundary(r)
<1> DEFINE N == DRONE_NUM
           B == buffer_size
           q == r \div B
           s == r % B
           a == (s + 1) \div N
           b == (s + 1) % N
<1>1. N \in Nat \ {0} /\ N >= 2 /\ B \in Nat \ {0} /\ B = 5 * N
  BY RingSize
<1>2. q \in Nat /\ s \in 0..(B - 1) /\ r = q * B + s
  BY <1>1, Divided
<1>3. a \in Nat /\ b \in 0..(N - 1) /\ s + 1 = a * N + b
  <2> HIDE DEF s
  <2>1. s + 1 \in Nat
    BY <1>2
  <2> QED BY <1>1, <2>1, Divided
<1> HIDE DEF q, s, a, b, N, B
<1> DEFINE m == 5 * q + a
<1>4. m \in Nat /\ r + 1 = m * N + b
  <2>1. m * N = 5 * (q * N) + a * N /\ q * B = 5 * (q * N)
    BY <1>1, <1>2, <1>3
  <2>2. m \in Nat /\ q * N \in Nat /\ a * N \in Nat
    BY <1>1, <1>2, <1>3
  <2> HIDE DEF m
  <2> QED BY <1>1, <1>2, <1>3, <2>1, <2>2
<1> HIDE DEF m
<1>5. (r + 1) \div N = m
  <2>1. (m * N + b) \div N = m
    BY <1>1, <1>3, <1>4, DivMod, Zenon
  <2> QED BY <1>4, <2>1, Zenon
<1>6. m * N \in Nat /\ N * m = m * N
  BY <1>1, <1>4
<1>7. Boundary(r + 1) = m * N - 4 * N
  BY <1>5, <1>6, Zenon DEF Boundary, N
<1>8. CASE b = 0
  <2>1. m # 0
    <3>1. m = 0 => m * N = 0
      BY <1>1
    <3> QED BY <1>4, <1>8, <3>1
  <2>2. m - 1 \in Nat /\ (m - 1) * N = m * N - N /\ N * (m - 1) = m * N - N
    BY <1>1, <1>4, <2>1
  <2>3. r = (m - 1) * N + (N - 1) /\ N - 1 \in 0..(N - 1)
    BY <1>1, <1>4, <1>6, <1>8, <2>2
  <2>4. r \div N = m - 1
    <3>1. ((m - 1) * N + (N - 1)) \div N = m - 1
      BY <1>1, <2>2, <2>3, DivMod, Zenon
    <3> QED BY <2>3, <3>1, Zenon
  <2>5. Boundary(r) = m * N - N - 4 * N
    BY <2>2, <2>4, Zenon DEF Boundary, N
  <2>6. r + 1 = m * N /\ m * N - 4 * N = r + 1 - B + N /\ m * N - N - 4 * N = r + 1 - B
    BY <1>1, <1>4, <1>6, <1>8
  <2> QED BY <1>4, <1>7, <1>8, <2>5, <2>6, Zenon DEF b, s, N, B
<1>9. CASE b # 0
  <2>1. r = m * N + (b - 1) /\ b - 1 \in 0..(N - 1)
    BY <1>3, <1>4, <1>6, <1>9, <1>1
  <2>2. r \div N = m
    <3>1. (m * N + (b - 1)) \div N = m
      BY <1>1, <1>4, <2>1, DivMod, Zenon
    <3> QED BY <2>1, <3>1, Zenon
  <2>3. Boundary(r) = m * N - 4 * N
    BY <1>6, <2>2, Zenon DEF Boundary, N
  <2> QED BY <1>7, <1>9, <2>3, Zenon DEF b, s, N, B
<1> QED BY <1>8, <1>9

-----------------------------------------------------------------------------
(* What is in a slot of the ring: a record, with the times reported of it  *)
(* so far                                                                  *)
Messages == [src : Drones, seq : Nat]
Times    == Messages \cup {None}

Records == [src : Drones, seq : Nat \ {0}, tx : Messages, rx : SUBSET Messages]

AddrRows == [Columns -> Drones \cup {0}]

(* The script finds addresses for all receivers of a drone's messages.     *)
Known(d) == Receivers(d) \in AddrRows

SlotTypes == [src : Drones \cup {0}, seq : Nat, Tx_time : Times,
              Rx_addr : AddrRows, Rx_time : [Columns -> Times],
              entry : Nat, carried : BOOLEAN]

Own(r, e) == Message(r[e].src, r[e].seq)

OwnTx(r, e, m) == \E k \in e..m : r[k].tx = Own(r, e)

OwnRx(r, e, d, m) == \E k \in e..m : r[k].src = d /\ Own(r, e) \in r[k].rx

(* The slot s holds the record e, and the times that the records from e to *)
(* m report of it.                                                         *)
Holds(s, e, r, m) ==
  /\ s.entry = e /\ s.src = r[e].src /\ s.seq = r[e].seq
  /\ OwnTx(r, e, m) => s.Tx_time = Own(r, e)
  /\ ~OwnTx(r, e, m) => s.Tx_time = None \/ s.carried
  /\ \A j \in Columns :
       /\ OwnRx(r, e, s.Rx_addr[j], m) => s.Rx_time[j] = Own(r, e)
       /\ ~OwnRx(r, e, s.Rx_addr[j], m) => s.Rx_time[j] = None \/ s.carried

(* A slot without a record names no drone.                                 *)
LEMMA ZeroIsNoDrone == 0 \notin Drones
  BY RingAssumption DEF Drones, Range

(* A slot with the times that a record carries                             *)
TimedSlot(s, record) ==
  [s EXCEPT
     !.Tx_time = IF Names(s, record.tx) THEN record.tx ELSE @,
     !.Rx_time = [j \in Columns |->
       LET mine == {m \in record.rx : Names(s, m) /\ s.Rx_addr[j] = record.src}
       IN IF mine = {} THEN @[j] ELSE CHOOSE m \in mine : TRUE]]

(* Each slot takes the times on its own.                                   *)
LEMMA TimedSlots ==
  ASSUME NEW contents, NEW record, NEW i \in Slots
  PROVE  Timed(contents, record)[i] = TimedSlot(contents[i], record)
  BY DEF Timed, TimedSlot

(* The times are all that changes in a slot.                               *)
LEMMA TimedFields ==
  ASSUME NEW s \in SlotTypes, NEW record \in Records
  PROVE  /\ TimedSlot(s, record) \in SlotTypes
         /\ TimedSlot(s, record).src = s.src /\ TimedSlot(s, record).seq = s.seq
         /\ TimedSlot(s, record).entry = s.entry /\ TimedSlot(s, record).carried = s.carried
         /\ TimedSlot(s, record).Rx_addr = s.Rx_addr
         /\ TimedSlot(s, record).Tx_time = IF Names(s, record.tx) THEN record.tx ELSE s.Tx_time
         /\ \A j \in Columns :
              TimedSlot(s, record).Rx_time[j] =
                IF \E m \in record.rx : Names(s, m) /\ s.Rx_addr[j] = record.src
                  THEN CHOOSE m \in {m \in record.rx : Names(s, m) /\ s.Rx_addr[j] = record.src} : TRUE
                  ELSE s.Rx_time[j]
<1> DEFINE mine(j) == {m \in record.rx : Names(s, m) /\ s.Rx_addr[j] = record.src}
           tx == IF Names(s, record.tx) THEN record.tx ELSE s.Tx_time
           rx == [j \in Columns |-> IF mine(j) = {} THEN s.Rx_time[j] ELSE CHOOSE m \in mine(j) : TRUE]
<1>1. TimedSlot(s, record) = [s EXCEPT !.Tx_time = tx, !.Rx_time = rx]
  BY DEF TimedSlot
<1>2. tx \in Times
  BY DEF Records, SlotTypes, Times
<1>3. rx \in [Columns -> Times]
  <2>1. ASSUME NEW j \in Columns
        PROVE  (IF mine(j) = {} THEN s.Rx_time[j] ELSE CHOOSE m \in mine(j) : TRUE) \in Times
    <3>1. mine(j) \subseteq Times /\ s.Rx_time[j] \in Times
      BY DEF Records, SlotTypes, Times
    <3>2. mine(j) # {} => (CHOOSE m \in mine(j) : TRUE) \in mine(j)
      <4> HIDE DEF mine
      <4> QED OBVIOUS
    <3> HIDE DEF mine
    <3> QED BY <3>1, <3>2
  <2> HIDE DEF mine
  <2> QED BY <2>1
<1>4. \A j \in Columns : mine(j) # {} <=> \E m \in record.rx : Names(s, m) /\ s.Rx_addr[j] = record.src
  OBVIOUS
<1>5. \A j \in Columns : rx[j] = IF mine(j) = {} THEN s.Rx_time[j] ELSE CHOOSE m \in mine(j) : TRUE
  <2> HIDE DEF mine
  <2> QED OBVIOUS
<1> HIDE DEF tx, rx
<1>6. /\ TimedSlot(s, record) \in SlotTypes
      /\ TimedSlot(s, record).src = s.src /\ TimedSlot(s, record).seq = s.seq
      /\ TimedSlot(s, record).entry = s.entry /\ TimedSlot(s, record).carried = s.carried
      /\ TimedSlot(s, record).Rx_addr = s.Rx_addr
      /\ TimedSlot(s, record).Tx_time = tx /\ TimedSlot(s, record).Rx_time = rx
  BY <1>1, <1>2, <1>3 DEF SlotTypes
<1>7. ASSUME NEW j \in Columns
      PROVE  TimedSlot(s, record).Rx_time[j] =
                IF \E m \in record.rx : Names(s, m) /\ s.Rx_addr[j] = record.src
                  THEN CHOOSE m \in {m \in record.rx : Names(s, m) /\ s.Rx_addr[j] = record.src} : TRUE
                  ELSE s.Rx_time[j]
  BY <1>4, <1>5, <1>6, Zenon
<1> QED BY <1>6, <1>7, Zenon DEF tx

(* A slot without a record takes no times.                                 *)
LEMMA CleanStays ==
  ASSUME NEW record \in Records
  PROVE  Clean \in SlotTypes /\ TimedSlot(Clean, record) = Clean
<1>1. Clean \in SlotTypes
  BY DEF Clean, SlotTypes, Times, AddrRows
<1>2. \A m \in Messages : ~Names(Clean, m)
  BY ZeroIsNoDrone DEF Clean, Names, Messages
<1>3. ~Names(Clean, record.tx) /\ record.rx \subseteq Messages
  BY <1>2 DEF Records
<1>4. /\ TimedSlot(Clean, record) \in SlotTypes
      /\ TimedSlot(Clean, record).src = Clean.src /\ TimedSlot(Clean, record).seq = Clean.seq
      /\ TimedSlot(Clean, record).entry = Clean.entry
      /\ TimedSlot(Clean, record).carried = Clean.carried
      /\ TimedSlot(Clean, record).Rx_addr = Clean.Rx_addr
      /\ TimedSlot(Clean, record).Tx_time = Clean.Tx_time
  BY <1>1, <1>3, TimedFields, Zenon
<1>5. \A j \in Columns : TimedSlot(Clean, record).Rx_time[j] = Clean.Rx_time[j]
  BY <1>1, <1>2, <1>3, TimedFields, Zenon
<1>6. TimedSlot(Clean, record).Rx_time = Clean.Rx_time
  BY <1>1, <1>4, <1>5 DEF SlotTypes
<1> QED BY <1>1, <1>4, <1>6 DEF SlotTypes

(* A slot names the message of the record it holds, and no other.          *)
LEMMA NamesOwn ==
  ASSUME NEW s, NEW r, NEW e, s.src = r[e].src, s.seq = r[e].seq, NEW m \in Messages
  PROVE  Names(s, m) <=> m = Own(r, e)
  BY DEF Names, Messages, Own, Message

(* The times of one more record                                            *)
LEMMA TimedKeeps ==
  ASSUME NEW r \in Seq(Records), NEW m \in Nat, m + 1 <= Len(r), NEW e \in 1..(m + 1),
         NEW s \in SlotTypes, Holds(s, e, r, m)
  PROVE  Holds(TimedSlot(s, r[m + 1]), e, r, m + 1)
<1> DEFINE record == r[m + 1]
           t == TimedSlot(s, record)
<1>1. record \in Records /\ record.tx \in Messages /\ record.rx \subseteq Messages
  <2>1. m + 1 \in 1..Len(r)
    OBVIOUS
  <2>2. record \in Records
    BY <2>1, ElementOfSeq
  <2> QED BY <2>2 DEF Records
<1>2. ASSUME NEW x \in Messages PROVE Names(s, x) <=> x = Own(r, e)
  <2>1. s.src = r[e].src /\ s.seq = r[e].seq
    BY DEF Holds
  <2> QED BY <2>1, NamesOwn, Zenon
<1>3. e..(m + 1) = (e..m) \cup {m + 1}
  OBVIOUS
<1>4. /\ t.src = s.src /\ t.seq = s.seq /\ t.entry = s.entry /\ t.carried = s.carried
      /\ t.Rx_addr = s.Rx_addr
      /\ t.Tx_time = IF Names(s, record.tx) THEN record.tx ELSE s.Tx_time
  BY <1>1, TimedFields, Zenon
<1>5. \A j \in Columns :
        t.Rx_time[j] =
          IF \E x \in record.rx : Names(s, x) /\ s.Rx_addr[j] = record.src
            THEN CHOOSE x \in {x \in record.rx : Names(s, x) /\ s.Rx_addr[j] = record.src} : TRUE
            ELSE s.Rx_time[j]
  BY <1>1, TimedFields, Zenon
<1> HIDE DEF t
<1>6. /\ t.entry = e /\ t.src = r[e].src /\ t.seq = r[e].seq
  BY <1>4, Zenon DEF Holds
<1>7. /\ OwnTx(r, e, m + 1) => t.Tx_time = Own(r, e)
      /\ ~OwnTx(r, e, m + 1) => t.Tx_time = None \/ t.carried
  <2>1. OwnTx(r, e, m + 1) <=> OwnTx(r, e, m) \/ record.tx = Own(r, e)
    BY <1>3, Zenon DEF OwnTx
  <2>2. Names(s, record.tx) <=> record.tx = Own(r, e)
    BY <1>1, <1>2, Zenon
  <2>3. /\ OwnTx(r, e, m) => s.Tx_time = Own(r, e)
        /\ ~OwnTx(r, e, m) => s.Tx_time = None \/ s.carried
    BY Zenon DEF Holds
  <2> QED BY <1>4, <2>1, <2>2, <2>3, Zenon
<1>8. ASSUME NEW j \in Columns
      PROVE  /\ OwnRx(r, e, t.Rx_addr[j], m + 1) => t.Rx_time[j] = Own(r, e)
             /\ ~OwnRx(r, e, t.Rx_addr[j], m + 1) => t.Rx_time[j] = None \/ t.carried
  <2> DEFINE d == s.Rx_addr[j]
             mine == {x \in record.rx : Names(s, x) /\ d = record.src}
  <2>1. OwnRx(r, e, d, m + 1) <=> OwnRx(r, e, d, m) \/ (record.src = d /\ Own(r, e) \in record.rx)
    BY <1>3, Zenon DEF OwnRx
  <2>2. mine = IF record.src = d /\ Own(r, e) \in record.rx THEN {Own(r, e)} ELSE {}
    BY <1>1, <1>2, Zenon
  <2>3. (CHOOSE x \in {Own(r, e)} : TRUE) = Own(r, e)
    OBVIOUS
  <2>4. /\ OwnRx(r, e, d, m) => s.Rx_time[j] = Own(r, e)
        /\ ~OwnRx(r, e, d, m) => s.Rx_time[j] = None \/ s.carried
    BY Zenon DEF Holds
  <2>5. t.Rx_time[j] = IF mine = {} THEN s.Rx_time[j] ELSE CHOOSE x \in mine : TRUE
    <3>1. (\E x \in record.rx : Names(s, x) /\ d = record.src) <=> mine # {}
      OBVIOUS
    <3> QED BY <1>5, <3>1, Zenon
  <2> HIDE DEF mine
  <2>6. CASE record.src = d /\ Own(r, e) \in record.rx
    <3>1. mine = {Own(r, e)} /\ mine # {}
      BY <2>2, <2>6
    <3>2. t.Rx_time[j] = Own(r, e)
      BY <2>3, <2>5, <3>1, Zenon
    <3> QED BY <1>4, <2>1, <2>6, <3>2, Zenon
  <2>7. CASE ~(record.src = d /\ Own(r, e) \in record.rx)
    <3>1. mine = {}
      BY <2>2, <2>7, Zenon
    <3>2. t.Rx_time[j] = s.Rx_time[j]
      BY <2>5, <3>1, Zenon
    <3> QED BY <1>4, <2>1, <2>4, <2>7, <3>2, Zenon
  <2> QED BY <2>6, <2>7
<1>9. Holds(t, e, r, m + 1)
  BY <1>6, <1>7, <1>8, Zenon DEF Holds
<1> QED BY <1>9, Zenon DEF t

(* A record takes the slot: its times stay with what was in it.            *)
Refilled(s, record, e) ==
  [s EXCEPT !.src = record.src, !.seq = record.seq,
            !.Rx_addr = Receivers(record.src),
            !.entry = e, !.carried = s.src # 0]

(* The record is in its slot, with nothing reported of it yet.             *)
LEMMA RefilledHolds ==
  ASSUME NEW r \in Seq(Records), NEW e \in 1..Len(r), Known(r[e].src),
         NEW s \in SlotTypes, s = Clean \/ s.src # 0
  PROVE  /\ Refilled(s, r[e], e) \in SlotTypes /\ Refilled(s, r[e], e).src # 0
         /\ Holds(Refilled(s, r[e], e), e, r, e - 1)
<1> DEFINE record == r[e]
           t == Refilled(s, record, e)
           addr == Receivers(record.src)
<1>1. record \in Records /\ record.src \in Drones /\ record.seq \in Nat /\ record.src # 0
  <2>1. record \in Records
    BY ElementOfSeq
  <2> QED BY <2>1, ZeroIsNoDrone DEF Records
<1>2. addr \in AddrRows
  BY Zenon DEF Known
<1>3. t = [s EXCEPT !.src = record.src, !.seq = record.seq, !.Rx_addr = addr,
                    !.entry = e, !.carried = s.src # 0]
  BY DEF Refilled
<1>4. (s.src # 0) \in BOOLEAN /\ e \in Nat
  OBVIOUS
<1> HIDE DEF t, addr
<1>5. /\ t \in SlotTypes /\ t.src = record.src /\ t.seq = record.seq /\ t.entry = e
      /\ t.Tx_time = s.Tx_time /\ t.Rx_time = s.Rx_time
  BY <1>1, <1>2, <1>3, <1>4 DEF SlotTypes
<1>6. t.carried = (s.src # 0)
  BY <1>3 DEF SlotTypes
<1>12. s = Clean => s.Tx_time = None /\ \A j \in Columns : s.Rx_time[j] = None
  BY DEF Clean
<1>7. s.Tx_time = None \/ t.carried
  BY <1>6, <1>12
<1>8. \A j \in Columns : s.Rx_time[j] = None \/ t.carried
  BY <1>6, <1>12
<1>9. \A k : k \notin e..(e - 1)
  OBVIOUS
<1>10. ~OwnTx(r, e, e - 1) /\ \A d : ~OwnRx(r, e, d, e - 1)
  BY <1>9, Zenon DEF OwnTx, OwnRx
<1>11. Holds(t, e, r, e - 1)
  BY <1>5, <1>7, <1>8, <1>10, Zenon DEF Holds
<1> QED BY <1>1, <1>5, <1>11, Zenon DEF t

(* What a slot holds does not depend on the records that come later.       *)
LEMMA HoldsStays ==
  ASSUME NEW r, NEW t, NEW e \in Nat, NEW m \in Nat, \A k \in e..m : t[k] = r[k], t[e] = r[e],
         NEW s, Holds(s, e, r, m)
  PROVE  Holds(s, e, t, m)
<1>1. Own(t, e) = Own(r, e)
  BY DEF Own
<1>2. OwnTx(t, e, m) <=> OwnTx(r, e, m)
  BY <1>1, Zenon DEF OwnTx
<1>3. ASSUME NEW d PROVE OwnRx(t, e, d, m) <=> OwnRx(r, e, d, m)
  BY <1>1, Zenon DEF OwnRx
<1> QED BY <1>1, <1>2, <1>3, Zenon DEF Holds

-----------------------------------------------------------------------------
(* The output: it is defined position by position, and every property that *)
(* each position keeps holds in the end                                    *)

(* A set of numbers has a least one.                                       *)
LEMMA LeastNumber ==
  ASSUME NEW S \in SUBSET Nat, S # {}
  PROVE  \E n \in S : \A m \in S : n <= m
<1> DEFINE R == OpToRel(<, Nat)
<1>1. IsWellFoundedOn(R, Nat)
  BY NatLessThanWellFounded, Zenon
<1>2. \A m, n \in Nat : m < n => <<m, n>> \in R
  BY DEF OpToRel
<1> HIDE DEF R
<1>3. PICK n \in S : \A m \in S : ~(<<m, n>> \in R)
  BY ONLY <1>1, WFMin, S # {}, S \in SUBSET Nat, Zenon
<1>4. \A m \in S : n <= m
  <2> TAKE m \in S
  <2>1. m \in Nat /\ n \in Nat /\ ~(m < n)
    BY <1>2, <1>3
  <2> QED BY <2>1
<1> QED BY <1>3, <1>4

NextRows(f, contents, n) ==
  IF n = 0 THEN rows
  ELSE IF HasTxTime(contents[Due(contents)[n]]) THEN Append(f[n - 1], contents[Due(contents)[n]])
                                       ELSE f[n - 1]

OutputTo(contents) ==
  CHOOSE f : f = [n \in 0..Len(Due(contents)) |-> NextRows(f, contents, n)]

(* The output is that after the last position.                             *)
LEMMA OutputIs ==
  ASSUME NEW contents
  PROVE  Output(contents) = OutputTo(contents)[Len(Due(contents))]
  BY DEF Output, OutputTo, NextRows

(* As many positions are due                                               *)
LEMMA DueLength ==
  ASSUME NEW contents
  PROVE  Len(Due(contents)) \in Nat
  BY RingSize DEF Due

(* The function that makes the output exists, so it is what it is defined as. *)
LEMMA OutputDefined ==
  ASSUME NEW contents, NEW n \in 0..Len(Due(contents))
  PROVE  OutputTo(contents)[n] = NextRows(OutputTo(contents), contents, n)
<1> DEFINE L == Len(Due(contents))
           Solves(g, m) == \A i \in 0..m : g[i] = NextRows(g, contents, i)
           S == {m \in 0..L : ~ \E g : Solves(g, m)}
<1>0. L \in Nat /\ S \in SUBSET Nat
  BY DueLength
<1>1. ASSUME NEW g, NEW h, NEW i \in Nat, i = 0 \/ g[i - 1] = h[i - 1]
      PROVE  NextRows(g, contents, i) = NextRows(h, contents, i)
  BY <1>1, Zenon DEF NextRows
<1>2. S = {}
  <2> SUFFICES ASSUME S # {} PROVE FALSE
    OBVIOUS
  <2>1. PICK m \in S : \A k \in S : m <= k
    BY <1>0, LeastNumber, Zenon
  <2>2. m \in 0..L /\ m \in Nat /\ ~ \E g : Solves(g, m)
    BY <2>1
  <2>3. m # 0
    <3> DEFINE g == [i \in {0} |-> rows]
    <3>1. \A i \in 0..0 : g[i] = NextRows(g, contents, i)
      BY DEF NextRows
    <3>2. m = 0 => Solves(g, m)
      BY <3>1
    <3> QED BY <2>2, <3>2, Zenon
  <2>4. m - 1 \in 0..L /\ ~(m <= m - 1)
    BY <1>0, <2>2, <2>3
  <2>5. PICK g : Solves(g, m - 1)
    BY <2>1, <2>4, Zenon
  <2> DEFINE h == [i \in 0..L |-> IF i = m THEN NextRows(g, contents, i) ELSE g[i]]
  <2>6. \A i \in 0..m :
          /\ i \in 0..L /\ i \in Nat
          /\ i # m => i \in 0..(m - 1)
          /\ i # 0 => i - 1 \in 0..L /\ i - 1 # m
    BY <1>0, <2>2
  <2>7. ASSUME NEW i \in 0..m PROVE h[i] = NextRows(h, contents, i)
    <3>1. i = 0 \/ g[i - 1] = h[i - 1]
      BY <2>6, Zenon
    <3>2. NextRows(g, contents, i) = NextRows(h, contents, i)
      BY <1>1, <2>6, <3>1, Zenon
    <3>3. h[i] = NextRows(g, contents, i)
      BY <2>5, <2>6, Zenon
    <3> QED BY <3>2, <3>3, Zenon
  <2> QED BY <2>2, <2>7, Zenon
<1>3. PICK g : Solves(g, L)
  <2>1. L \in 0..L
    BY <1>0
  <2>2. L \notin S
    BY <1>2, Zenon
  <2> QED BY <2>1, <2>2, Zenon
<1> DEFINE f == [i \in 0..L |-> g[i]]
<1>4. ASSUME NEW i \in 0..L PROVE f[i] = NextRows(f, contents, i)
  <2>1. i \in Nat /\ (i # 0 => i - 1 \in 0..L)
    BY <1>0
  <2>2. NextRows(g, contents, i) = NextRows(f, contents, i)
    BY <1>1, <2>1, Zenon
  <2> QED BY <1>3, <2>2, Zenon
<1>5. f = [i \in 0..L |-> NextRows(f, contents, i)]
  BY <1>4, Zenon
<1> HIDE DEF f, L
<1>6. OutputTo(contents) = [i \in 0..L |-> NextRows(OutputTo(contents), contents, i)]
  <2>1. \E h : h = [i \in 0..L |-> NextRows(h, contents, i)]
    BY <1>5, Zenon
  <2> QED BY <2>1, Zenon DEF OutputTo, L
<1> QED BY <1>6, Zenon DEF L

(* The rows up to the record b, of the file r                              *)
RowOk(row, r, b) ==
  /\ row.entry \in 1..b
  /\ row.Tx_time # None
  /\ Holds(row, row.entry, r, WrittenAt(row.entry))

RowsOk(out, r, b) ==
  /\ \A k \in 1..Len(out) : RowOk(out[k], r, b)
  /\ \A k \in 2..Len(out) : out[k - 1].entry < out[k].entry
  /\ \A e \in 1..b : OwnTx(r, e, WrittenAt(e)) => \E k \in 1..Len(out) : out[k].entry = e

(* A slot with what there is to write of the record e                      *)
Ready(s, r, e) ==
  /\ HasTxTime(s) => e >= 1 /\ Holds(s, e, r, WrittenAt(e))
  /\ e >= 1 /\ OwnTx(r, e, WrittenAt(e)) => HasTxTime(s)

(* One more position: a row for the record b + 1, or none that is missed   *)
LEMMA RowWritten ==
  ASSUME NEW out \in Seq(SlotTypes), NEW s \in SlotTypes, NEW r, NEW b \in Int,
         RowsOk(out, r, b), Ready(s, r, b + 1)
  PROVE  RowsOk(IF HasTxTime(s) THEN Append(out, s) ELSE out, r, b + 1)
<1> DEFINE L == Len(out)
           w == Append(out, s)
<1>0. L \in Nat /\ L = Len(out)
  OBVIOUS
<1>1. /\ Len(w) = L + 1 /\ w[L + 1] = s
      /\ \A k \in 1..L : w[k] = out[k]
  OBVIOUS
<1>2. ASSUME NEW row, RowOk(row, r, b) PROVE RowOk(row, r, b + 1)
  <2>1. 1..b \subseteq 1..(b + 1)
    OBVIOUS
  <2> QED BY <1>2, <2>1, Zenon DEF RowOk
<1> HIDE DEF L, w
<1>4. CASE HasTxTime(s)
  <2>1. b + 1 >= 1 /\ Holds(s, b + 1, r, WrittenAt(b + 1)) /\ s.Tx_time # None
    BY <1>4, Zenon DEF Ready, HasTxTime
  <2>2. s.entry = b + 1 /\ b + 1 \in 1..(b + 1)
    BY <2>1 DEF Holds
  <2>3. RowOk(s, r, b + 1)
    BY <2>1, <2>2, Zenon DEF RowOk
  <2>4. ASSUME NEW k \in 1..Len(w) PROVE RowOk(w[k], r, b + 1)
    <3>1. k \in 1..L \/ k = L + 1
      BY <1>0, <1>1
    <3> QED BY <1>0, <1>1, <1>2, <2>3, <3>1, Zenon DEF RowsOk
  <2>5. ASSUME NEW k \in 2..Len(w) PROVE w[k - 1].entry < w[k].entry
    <3>1. CASE k = L + 1
      <4>1. k - 1 \in 1..L
        BY <1>0, <1>1, <3>1
      <4>2. w[k - 1].entry \in 1..b
        BY <1>0, <1>1, <4>1, Zenon DEF RowsOk, RowOk
      <4>3. w[k].entry = b + 1
        BY <1>1, <2>2, <3>1
      <4> QED BY <4>2, <4>3
    <3>2. CASE k # L + 1
      <4>1. k \in 2..L /\ k - 1 \in 1..L /\ k \in 1..L
        BY <1>0, <1>1, <3>2
      <4> QED BY <1>0, <1>1, <4>1, Zenon DEF RowsOk
    <3> QED BY <3>1, <3>2
  <2>6. ASSUME NEW e \in 1..(b + 1), OwnTx(r, e, WrittenAt(e))
        PROVE  \E k \in 1..Len(w) : w[k].entry = e
    <3>1. CASE e = b + 1
      <4>1. L + 1 \in 1..Len(w)
        BY <1>0, <1>1
      <4> QED BY <1>1, <2>2, <3>1, <4>1, Zenon
    <3>2. CASE e # b + 1
      <4>1. e \in 1..b
        BY <3>2
      <4>2. PICK k \in 1..L : out[k].entry = e
        BY <1>0, <2>6, <4>1, Zenon DEF RowsOk
      <4>3. k \in 1..Len(w)
        BY <1>0, <1>1
      <4> QED BY <1>1, <4>2, <4>3, Zenon
    <3> QED BY <3>1, <3>2
  <2> QED BY <1>4, <2>4, <2>5, <2>6, Zenon DEF RowsOk, w
<1>5. CASE ~HasTxTime(s)
  <2>1. \A k \in 1..Len(out) : RowOk(out[k], r, b + 1)
    BY <1>2, Zenon DEF RowsOk
  <2>2. ASSUME NEW e \in 1..(b + 1), OwnTx(r, e, WrittenAt(e))
        PROVE  \E k \in 1..Len(out) : out[k].entry = e
    <3>1. e # b + 1
      <4>1. b + 1 >= 1
        OBVIOUS
      <4> QED BY <1>5, <2>2, <4>1, Zenon DEF Ready
    <3>2. e \in 1..b
      BY <3>1
    <3> QED BY <2>2, <3>2, Zenon DEF RowsOk
  <2> QED BY <1>5, <2>1, <2>2, Zenon DEF RowsOk
<1> QED BY <1>4, <1>5

(* All of the positions                                                    *)
LEMMA OutputKeeps ==
  ASSUME NEW contents \in [Slots -> SlotTypes], NEW r, NEW b \in Int,
         rows \in Seq(SlotTypes), RowsOk(rows, r, b),
         \A n \in 1..Len(Due(contents)) : /\ Due(contents)[n] \in Slots
                                      /\ Ready(contents[Due(contents)[n]], r, b + n)
  PROVE  /\ Output(contents) \in Seq(SlotTypes)
         /\ RowsOk(Output(contents), r, b + Len(Due(contents)))
<1> DEFINE L == Len(Due(contents))
           out == OutputTo(contents)
           Kept(n) == out[n] \in Seq(SlotTypes) /\ RowsOk(out[n], r, b + n)
           S == {n \in 0..L : ~Kept(n)}
<1>0. L \in Nat /\ S \in SUBSET Nat
  BY DueLength
<1>1. S = {}
  <2> SUFFICES ASSUME S # {} PROVE FALSE
    OBVIOUS
  <2>1. PICK n \in S : \A k \in S : n <= k
    BY <1>0, LeastNumber, Zenon
  <2>2. n \in 0..L /\ n \in Nat /\ ~Kept(n)
    BY <2>1
  <2>3. out[n] = NextRows(out, contents, n)
    BY <2>2, OutputDefined, Zenon
  <2>4. n # 0
    <3>1. n = 0 => out[n] = rows /\ b + n = b
      BY <2>3 DEF NextRows
    <3> QED BY <2>2, <3>1, Zenon
  <2>5. n - 1 \in 0..L /\ ~(n <= n - 1) /\ n \in 1..L
    BY <1>0, <2>2, <2>4
  <2>6. Kept(n - 1)
    BY <2>1, <2>5, Zenon
  <2> DEFINE s == contents[Due(contents)[n]]
  <2>7. s \in SlotTypes /\ Ready(s, r, b + n)
    BY <2>5
  <2>8. b + n = (b + (n - 1)) + 1 /\ b + (n - 1) \in Int
    BY <2>2
  <2>9. out[n] = IF HasTxTime(s) THEN Append(out[n - 1], s) ELSE out[n - 1]
    BY <2>3, <2>4, Zenon DEF NextRows
  <2> HIDE DEF s
  <2>10. out[n] \in Seq(SlotTypes)
    BY <2>6, <2>7, <2>9
  <2>11. Ready(s, r, (b + (n - 1)) + 1)
    BY <2>7, <2>8
  <2>12. RowsOk(IF HasTxTime(s) THEN Append(out[n - 1], s) ELSE out[n - 1], r, (b + (n - 1)) + 1)
    BY <2>6, <2>7, <2>8, <2>11, RowWritten, Zenon
  <2>13. RowsOk(out[n], r, b + n)
    BY <2>8, <2>9, <2>12
  <2> QED BY <2>2, <2>10, <2>13, Zenon
<1>2. Kept(L)
  <2>1. L \in 0..L
    BY <1>0
  <2> QED BY <1>1, <2>1, Zenon
<1> QED BY <1>2, OutputIs

-----------------------------------------------------------------------------
(* A pass of the loop *)

(* The slot of the record e, after the file r: it holds the record, or has *)
(* been cleaned up because the row was due.                                *)
Kept(s, r, e) == Holds(s, e, r, Len(r)) \/ (s = Clean /\ WrittenAt(e) <= Len(r))

RingInv ==
  /\ records \in Seq(Records)
  /\ slot \in [Slots -> SlotTypes]
  /\ buffer_pos = Len(records) % buffer_size
  /\ \A i \in Slots : slot[i] = Clean \/ slot[i].src # 0
  /\ \A i \in Slots : i >= Len(records) => slot[i] = Clean
  /\ \A e \in 1..Len(records) : Len(records) - buffer_size < e =>
       Kept(slot[Position(e)], records, e)

RowsInv ==
  /\ rows \in Seq(SlotTypes)
  /\ RowsOk(rows, records, Boundary(Len(records)))

(* The ring with the record in hand, before rows are written               *)
Held(record) == Timed(Stored(record), record)

(* The slot of the record in hand is refilled, the others take its times.  *)
LEMMA HeldSlots ==
  ASSUME RingInv, NEW record \in Records, Known(record.src)
  PROVE  /\ buffer_pos \in Slots /\ buffer_pos = Position(Len(records) + 1)
         /\ Held(record) \in [Slots -> SlotTypes]
         /\ Held(record)[buffer_pos] =
              TimedSlot(Refilled(slot[buffer_pos], record, Len(records) + 1), record)
         /\ \A i \in Slots \ {buffer_pos} : Held(record)[i] = TimedSlot(slot[i], record)
<1> DEFINE p == buffer_pos
           t == Refilled(slot[p], record, Len(records) + 1)
<1>1. records \in Seq(Records) /\ slot \in [Slots -> SlotTypes] /\ Len(records) \in Nat
  BY DEF RingInv
<1>2. p = Position(Len(records) + 1)
  <2>1. (Len(records) + 1) - 1 = Len(records)
    BY <1>1
  <2> QED BY <2>1 DEF RingInv, Position
<1>3. p \in Slots
  <2>1. Len(records) + 1 \in Nat \ {0}
    BY <1>1
  <2> QED BY <1>2, <2>1, PositionInRing
<1>4. Stored(record) = [slot EXCEPT ![p] = t]
  BY DEF Stored, Refilled
<1>5. t \in SlotTypes
  <2>1. Append(records, record) \in Seq(Records) /\ Len(Append(records, record)) = Len(records) + 1
        /\ Append(records, record)[Len(records) + 1] = record
    BY <1>1
  <2>2. Len(records) + 1 \in 1..Len(Append(records, record))
    BY <1>1, <2>1
  <2>3. slot[p] \in SlotTypes /\ (slot[p] = Clean \/ slot[p].src # 0)
    BY <1>1, <1>3 DEF RingInv
  <2> HIDE DEF t, p
  <2>4. Refilled(slot[p], Append(records, record)[Len(records) + 1], Len(records) + 1) \in SlotTypes
    BY <2>1, <2>2, <2>3, RefilledHolds, Zenon
  <2> QED BY <2>1, <2>4 DEF t
<1> HIDE DEF t
<1>6. Stored(record) \in [Slots -> SlotTypes] /\ Stored(record)[p] = t
      /\ \A i \in Slots \ {p} : Stored(record)[i] = slot[i]
  BY <1>1, <1>3, <1>4, <1>5
<1>7. \A i \in Slots : Held(record)[i] = TimedSlot(Stored(record)[i], record)
  BY TimedSlots, Zenon DEF Held
<1>8. \A i \in Slots : Held(record)[i] \in SlotTypes
  <2> TAKE i \in Slots
  <2>1. Stored(record)[i] \in SlotTypes
    BY <1>6
  <2>2. TimedSlot(Stored(record)[i], record) \in SlotTypes
    BY <2>1, TimedFields, Zenon
  <2> QED BY <1>7, <2>2, Zenon
<1>9. Held(record) = [i \in Slots |-> Held(record)[i]]
  BY DEF Held, Timed
<1>10. Held(record) \in [Slots -> SlotTypes]
  BY <1>8, <1>9
<1> QED BY <1>2, <1>3, <1>6, <1>7, <1>10, Zenon DEF t

(* With the record in hand every slot of the last records holds one, but   *)
(* for those cleaned up before.                                            *)
LEMMA HeldKept ==
  ASSUME RingInv, NEW record \in Records, Known(record.src), NEW r, r = Append(records, record)
  PROVE  /\ \A i \in Slots : Held(record)[i] = Clean \/ Held(record)[i].src # 0
         /\ \A i \in Slots : i >= Len(r) => Held(record)[i] = Clean
         /\ \A e \in 1..Len(r) : Len(r) - buffer_size < e =>
              \/ Holds(Held(record)[Position(e)], e, r, Len(r))
              \/ Held(record)[Position(e)] = Clean /\ WrittenAt(e) <= Len(records)
<1> DEFINE h == Held(record)
           L == Len(records)
           p == buffer_pos
<1>1. /\ r \in Seq(Records) /\ L \in Nat /\ Len(r) = L + 1 /\ r[L + 1] = record
      /\ \A k \in 1..L : r[k] = records[k]
      /\ records \in Seq(Records) /\ slot \in [Slots -> SlotTypes]
      /\ buffer_size \in Nat
  BY RingSize DEF RingInv
<1>2. /\ p \in Slots /\ p = Position(L + 1) /\ h \in [Slots -> SlotTypes]
      /\ h[p] = TimedSlot(Refilled(slot[p], record, L + 1), record)
      /\ \A i \in Slots \ {p} : h[i] = TimedSlot(slot[i], record)
  BY HeldSlots, Zenon
<1> HIDE DEF h, L, p
<1>3. /\ \A i \in Slots : slot[i] \in SlotTypes /\ (slot[i] = Clean \/ slot[i].src # 0)
      /\ \A i \in Slots : i >= L => slot[i] = Clean
  BY <1>1 DEF RingInv, L
<1>4. /\ Refilled(slot[p], record, L + 1) \in SlotTypes /\ Refilled(slot[p], record, L + 1).src # 0
      /\ Holds(Refilled(slot[p], record, L + 1), L + 1, r, L)
  <2>1. L + 1 \in 1..Len(r) /\ (L + 1) - 1 = L
    BY <1>1
  <2>2. /\ Refilled(slot[p], r[L + 1], L + 1) \in SlotTypes
        /\ Refilled(slot[p], r[L + 1], L + 1).src # 0
        /\ Holds(Refilled(slot[p], r[L + 1], L + 1), L + 1, r, (L + 1) - 1)
    BY <1>1, <1>2, <1>3, <2>1, RefilledHolds, Zenon
  <2> QED BY <1>1, <2>1, <2>2
<1>5. h[p].src # 0 /\ Holds(h[p], L + 1, r, L + 1)
  <2>1. L + 1 <= Len(r) /\ L + 1 \in 1..(L + 1)
    BY <1>1
  <2>2. Holds(TimedSlot(Refilled(slot[p], record, L + 1), r[L + 1]), L + 1, r, L + 1)
    BY <1>1, <1>4, <2>1, TimedKeeps, Zenon
  <2>3. TimedSlot(Refilled(slot[p], record, L + 1), record).src = Refilled(slot[p], record, L + 1).src
    BY <1>4, TimedFields, Zenon
  <2> QED BY <1>1, <1>2, <1>4, <2>2, <2>3
<1>6. TimedSlot(Clean, record) = Clean
  BY CleanStays, Zenon
<1>7. \A i \in Slots : h[i] = Clean \/ h[i].src # 0
  <2> TAKE i \in Slots
  <2>1. i # p => h[i] = TimedSlot(slot[i], record) /\ slot[i] \in SlotTypes
    BY <1>2, <1>3
  <2>2. i # p => TimedSlot(slot[i], record).src = slot[i].src
    BY <2>1, TimedFields, Zenon
  <2> QED BY <1>3, <1>5, <1>6, <2>1, <2>2, Zenon
<1>8. \A i \in Slots : i >= L + 1 => h[i] = Clean
  <2> TAKE i \in Slots
  <2> HAVE i >= L + 1
  <2>1. i \in Nat /\ i < buffer_size
    BY <1>1 DEF Slots
  <2>2. L + 1 \in Nat \ {0} /\ L + 1 <= buffer_size /\ i >= L
    BY <1>1, <2>1
  <2>3. p = (L + 1) - 1
    BY <1>2, <2>2, PositionInRing
  <2>4. i # p
    BY <1>1, <2>1, <2>3
  <2> QED BY <1>2, <1>3, <1>6, <2>2, <2>4, Zenon
<1>9. ASSUME NEW e \in 1..(L + 1), L + 1 - buffer_size < e
      PROVE  \/ Holds(h[Position(e)], e, r, L + 1)
             \/ h[Position(e)] = Clean /\ WrittenAt(e) <= L
  <2>1. CASE e = L + 1
    BY <1>2, <1>5, <2>1
  <2>2. CASE e # L + 1
    <3>1. /\ e \in 1..L /\ e \in Nat \ {0} /\ L + 1 \in Nat \ {0} /\ e < L + 1
          /\ L + 1 < e + buffer_size /\ L - buffer_size < e
      BY <1>1, <1>9, <2>2
    <3>2. Position(e) # p
      BY <1>2, <3>1, SlotsApart, Zenon
    <3>3. Position(e) \in Slots
      BY <3>1, PositionInRing, Zenon
    <3> DEFINE s == slot[Position(e)]
    <3>4. s \in SlotTypes /\ h[Position(e)] = TimedSlot(s, record)
      BY <1>2, <1>3, <3>2, <3>3
    <3>5. Kept(s, records, e)
      BY <3>1 DEF RingInv, L
    <3> HIDE DEF s
    <3>6. CASE Holds(s, e, records, L)
      <4>1. \A k \in e..L : r[k] = records[k]
        BY <1>1, <3>1
      <4>2. r[e] = records[e]
        BY <1>1, <3>1
      <4>3. Holds(s, e, r, L)
        BY <1>1, <3>1, <3>6, <4>1, <4>2, HoldsStays, Zenon
      <4>4. L + 1 <= Len(r)
        BY <1>1
      <4>5. Holds(TimedSlot(s, r[L + 1]), e, r, L + 1)
        BY <1>1, <3>4, <4>3, <4>4, TimedKeeps, Zenon
      <4> QED BY <1>1, <3>4, <4>5
    <3>7. CASE s = Clean /\ WrittenAt(e) <= L
      BY <1>6, <3>4, <3>7, Zenon
    <3> QED BY <3>5, <3>6, <3>7, Zenon DEF Kept, L
  <2> QED BY <2>1, <2>2
<1>10. \A i \in Slots : i >= Len(r) => h[i] = Clean
  BY <1>1, <1>8
<1>11. ASSUME NEW e \in 1..Len(r), Len(r) - buffer_size < e
       PROVE  \/ Holds(h[Position(e)], e, r, Len(r))
              \/ h[Position(e)] = Clean /\ WrittenAt(e) <= L
  <2>1. e \in 1..(L + 1) /\ L + 1 - buffer_size < e
    BY <1>1, <1>11
  <2> QED BY <1>1, <1>9, <2>1
<1> QED BY <1>7, <1>10, <1>11, Zenon DEF h, L

(* In a full ring there is a record in each position.                      *)
LEMMA FullRing ==
  ASSUME NEW n \in Nat, n >= buffer_size, NEW i \in Slots
  PROVE  \E e \in 1..n : n - buffer_size < e /\ Position(e) = i
<1> DEFINE B == buffer_size
           q == (n - 1 - i) \div B
           s == (n - 1 - i) % B
           e == (q * B + i) + 1
<1>1. B \in Nat \ {0} /\ i \in Nat /\ i \in 0..(B - 1) /\ n - 1 - i \in Nat
  BY RingSize DEF Slots
<1>2. q \in Nat /\ s \in 0..(B - 1) /\ n - 1 - i = q * B + s
  BY <1>1, Divided
<1> HIDE DEF B, q, s
<1>3. q * B \in Nat
  BY <1>1, <1>2
<1>4. e \in 1..n /\ n - B < e /\ e - 1 = q * B + i
  BY <1>1, <1>2, <1>3
<1>5. Position(e) = i
  <2>1. (q * B + i) % B = i
    BY <1>1, <1>2, DivMod
  <2> QED BY <1>4, <2>1 DEF Position, B
<1> QED BY <1>4, <1>5 DEF B

(* The positions that are due are those of a group of records, each of     *)
(* which holds its record with all that is reported of it in time; while   *)
(* the ring is not full, there is nothing in them.                         *)
LEMMA DueReady ==
  ASSUME RingInv, NEW record \in Records, Known(record.src), NEW r, r = Append(records, record)
  PROVE  LET h == Held(record)
             b == Boundary(Len(records))
         IN /\ b \in Int
            /\ \A n \in 1..Len(Due(h)) : Due(h)[n] \in Slots /\ Ready(h[Due(h)[n]], r, b + n)
            /\ Boundary(Len(r)) = b + Len(Due(h)) \/ (Due(h) = <<>> /\ b <= 0 /\ Boundary(Len(r)) <= 0)
            /\ \A e \in 1..Len(r) :
                 /\ Len(r) - buffer_size < e
                 /\ Position(e) \in Range(Due(h))
                 /\ HasTxTime(h[Position(e)])
                 => WrittenAt(e) <= Len(r)
<1> DEFINE h == Held(record)
           L == Len(records)
           b == Boundary(L)
           D == Due(h)
           N == DRONE_NUM
           B == buffer_size
<1>1. /\ r \in Seq(Records) /\ L \in Nat /\ Len(r) = L + 1
      /\ buffer_pos = L % B
      /\ N \in Nat \ {0} /\ N >= 2 /\ B = 5 * N /\ B \in Nat \ {0}
  BY RingSize DEF RingInv
<1>2. /\ \A i \in Slots : h[i] = Clean \/ h[i].src # 0
      /\ \A i \in Slots : i >= L + 1 => h[i] = Clean
      /\ \A e \in 1..(L + 1) : L + 1 - B < e =>
           \/ Holds(h[Position(e)], e, r, L + 1)
           \/ h[Position(e)] = Clean /\ WrittenAt(e) <= L
  <2>1. /\ \A i \in Slots : h[i] = Clean \/ h[i].src # 0
        /\ \A i \in Slots : i >= Len(r) => h[i] = Clean
        /\ \A e \in 1..Len(r) : Len(r) - B < e =>
             \/ Holds(h[Position(e)], e, r, Len(r))
             \/ h[Position(e)] = Clean /\ WrittenAt(e) <= L
    BY HeldKept, Zenon
  <2> HIDE DEF h, L, B
  <2> QED BY <1>1, <2>1
<1>3. b \in Int
  <2>1. L \div N \in Int
    BY <1>1
  <2> QED BY <1>1, <2>1 DEF Boundary
<1> HIDE DEF h
<1>4. CASE ~((buffer_pos + 1) % N = 0)
  <2>1. D = <<>>
    BY <1>4 DEF Due
  <2>2. Boundary(L + 1) = b
    BY <1>1, <1>4, BoundaryMoves
  <2>3. Len(D) = 0 /\ Range(D) = {}
    BY <2>1 DEF Range
  <2>4. \A n \in 1..Len(D) : FALSE
    BY <2>3
  <2> HIDE DEF D, b
  <2>5. b + Len(D) = b
    BY <1>3, <2>3
  <2> QED BY <1>1, <1>3, <2>2, <2>3, <2>4, <2>5, Zenon DEF D, b, h
<1>5. CASE (buffer_pos + 1) % N = 0
  <2>1. PICK m \in Nat : /\ L + 1 = m * N /\ Boundary(L + 1) = L + 1 - B + N
                         /\ b = L + 1 - B
    BY <1>1, <1>5, BoundaryMoves
  <2> HIDE DEF b, D, L, N, B
  <2>2. CASE L + 1 < B
    <3>1. m < 5
      <4>1. CASE m >= 5
        <5>1. 5 * N <= m * N
          BY <1>1, <4>1, TimesMonotonic
        <5> QED BY <1>1, <2>1, <2>2, <5>1
      <4> QED BY <4>1
    <3>2. Boundary(L + 1) <= 0
      <4>1. m * N <= 4 * N
        BY <1>1, <3>1, TimesMonotonic
      <4> QED BY <1>1, <2>1, <4>1
    <3>3. ASSUME NEW n \in 1..Len(D)
          PROVE  D[n] \in Slots /\ h[D[n]] = Clean /\ b + n <= 0
      <4>1. Len(D) = N /\ D = [i \in 1..N |-> (buffer_pos + i) % B]
        BY <1>1 DEF Due, D, N, B
      <4>2. n \in 1..N /\ D[n] = ((L % B) + n) % B
        BY <1>1, <4>1
      <4>3. L + n < B
        BY <1>1, <2>1, <3>2, <4>2
      <4>4. D[n] = L + n
        BY <1>1, <4>2, <4>3, PositionBehind DEF N, B
      <4>5. D[n] \in Slots /\ D[n] >= L + 1
        BY <1>1, <4>2, <4>3, <4>4 DEF Slots, B
      <4>6. b + n <= 0
        BY <1>1, <2>1, <3>2, <4>2
      <4> QED BY <1>2, <4>5, <4>6
    <3>4. ~HasTxTime(Clean)
      BY DEF HasTxTime, Clean
    <3>5. \A n \in 1..Len(D) : D[n] \in Slots /\ Ready(h[D[n]], r, b + n)
      <4> TAKE n \in 1..Len(D)
      <4>1. D[n] \in Slots /\ ~HasTxTime(h[D[n]]) /\ ~(b + n >= 1)
        BY <1>3, <3>3, <3>4
      <4> QED BY <4>1, Zenon DEF Ready
    <3>6. \A i \in Range(D) : ~HasTxTime(h[i])
      <4>2. DOMAIN D = 1..Len(D)
        BY <1>1 DEF D, Due, N
      <4>1. \A i \in Range(D) : \E n \in 1..Len(D) : i = D[n]
        BY <4>2 DEF Range
      <4> QED BY <3>3, <3>4, <4>1
    <3>7. Boundary(L + 1) = b + Len(D) \/ (D = <<>> /\ b <= 0 /\ Boundary(L + 1) <= 0)
      <4>1. D = <<>> \/ Len(D) = N
        BY <1>1 DEF D, Due, N
      <4> QED BY <1>1, <2>1, <2>2, <3>2, <4>1
    <3> QED BY <1>1, <1>3, <3>5, <3>6, <3>7, Zenon DEF L, h, b, D
  <2>3. CASE L + 1 >= B
    <3>1. ASSUME NEW e \in 1..(L + 1), L + 1 - B < e
          PROVE  Holds(h[Position(e)], e, r, L + 1) /\ h[Position(e)].src # 0
      <4>1. ~(WrittenAt(e) <= L)
        <5>1. e \in Nat \ {0} /\ ~(e <= b)
          BY <1>1, <2>1, <3>1
        <5> QED BY <1>1, <5>1, WrittenBy DEF b
      <4>2. Holds(h[Position(e)], e, r, L + 1)
        BY <1>2, <3>1, <4>1, Zenon
      <4>3. r[e].src # 0
        <5>1. r[e] \in Records
          BY <1>1
        <5> QED BY <5>1, ZeroIsNoDrone DEF Records
      <4> QED BY <4>2, <4>3, Zenon DEF Holds
    <3>2. h[2 * N - 1].src # 0
      <4>1. 2 * N - 1 \in Slots
        BY <1>1 DEF Slots, B
      <4>2. PICK e \in 1..(L + 1) : L + 1 - B < e /\ Position(e) = 2 * N - 1
        <5>1. L + 1 \in Nat /\ L + 1 >= buffer_size
          BY <1>1, <2>3 DEF B
        <5>2. \E e \in 1..(L + 1) : (L + 1) - B < e /\ Position(e) = 2 * N - 1
          BY <4>1, <5>1, FullRing, Zenon DEF B
        <5> QED BY <1>1, <5>2
      <4> QED BY <3>1, <4>2
    <3>3. D = [i \in 1..N |-> (buffer_pos + i) % B] /\ Len(D) = N
      BY <1>1, <1>5, <3>2 DEF Due, D, N, B
    <3>4. ASSUME NEW n \in 1..N
          PROVE  /\ b + n \in 1..(L + 1) /\ L + 1 - B < b + n /\ D[n] = Position(b + n)
                 /\ WrittenAt(b + n) = L + 1
      <4>1. b + n \in 1..(L + 1) /\ L + 1 - B < b + n /\ L + 1 + n > B /\ b + n = L + 1 - B + n
        BY <1>1, <2>1, <2>3
      <4>2. D[n] = ((L % B) + n) % B
        BY <1>1, <3>3
      <4>3. D[n] = Position(b + n)
        <5>1. n \in 1..DRONE_NUM /\ L + 1 + n > buffer_size
          BY <4>1 DEF N, B
        <5>2. ((L % buffer_size) + n) % buffer_size = Position(L + 1 - buffer_size + n)
          BY <1>1, <5>1, PositionBehind, Zenon
        <5> QED BY <4>1, <4>2, <5>2 DEF B
      <4>4. m * N - B + n >= 1 /\ m * N - B + n = b + n
        BY <1>1, <2>1, <4>1
      <4>5. WrittenAt(m * N - B + n) = m * N
        BY <4>4, WrittenInBlock DEF N, B
      <4> QED BY <2>1, <4>1, <4>3, <4>4, <4>5
    <3>5. \A n \in 1..Len(D) : D[n] \in Slots /\ Ready(h[D[n]], r, b + n)
      <4> TAKE n \in 1..Len(D)
      <4> DEFINE e == b + n
                 s == h[D[n]]
      <4>1. n \in 1..N
        BY <3>3
      <4>2. /\ e \in 1..(L + 1) /\ L + 1 - B < e /\ D[n] = Position(e) /\ WrittenAt(e) = L + 1
        BY <3>4, <4>1
      <4> HIDE DEF e
      <4>3. e \in Nat \ {0} /\ e >= 1
        BY <1>1, <4>2
      <4>4. D[n] \in Slots
        BY <4>2, <4>3, PositionInRing
      <4>5. Holds(s, e, r, WrittenAt(e))
        BY <3>1, <4>2
      <4>6. OwnTx(r, e, WrittenAt(e)) => HasTxTime(s)
        <5>1. OwnTx(r, e, WrittenAt(e)) => s.Tx_time = Own(r, e)
          BY <4>5, Zenon DEF Holds
        <5>2. Own(r, e) # None
          <6>1. r[e] \in Records
            BY <1>1, <4>2
          <6> QED BY <6>1, ZeroIsNoDrone DEF Records, Own, None, Message
        <5> QED BY <5>1, <5>2, Zenon DEF HasTxTime
      <4>7. Ready(s, r, e)
        BY <4>3, <4>5, <4>6, Zenon DEF Ready
      <4> QED BY <4>4, <4>7 DEF e
    <3>6. ASSUME NEW e \in 1..(L + 1), L + 1 - B < e, Position(e) \in Range(D)
          PROVE  WrittenAt(e) <= L + 1
      <4>1. PICK n \in 1..N : Position(e) = D[n]
        BY <3>3, <3>6 DEF Range
      <4> DEFINE f == b + n
      <4>2. f \in 1..(L + 1) /\ L + 1 - B < f /\ Position(e) = Position(f) /\ WrittenAt(f) = L + 1
        BY <3>4, <4>1
      <4> HIDE DEF f
      <4>3. e \in Nat \ {0} /\ f \in Nat \ {0} /\ e < f + B /\ f < e + B
        BY <1>1, <3>6, <4>2
      <4>4. ~(e < f) /\ ~(f < e)
        BY <4>2, <4>3, SlotsApart DEF B
      <4>5. e = f
        BY <4>3, <4>4
      <4> QED BY <1>1, <4>2, <4>5
    <3>7. Boundary(L + 1) = b + Len(D)
      BY <1>1, <2>1, <3>3
    <3>8. ASSUME NEW e \in 1..Len(r), Len(r) - B < e, Position(e) \in Range(D)
          PROVE  WrittenAt(e) <= Len(r)
      <4>1. e \in 1..(L + 1) /\ L + 1 - B < e
        BY <1>1, <3>8
      <4> QED BY <1>1, <3>6, <3>8, <4>1
    <3>9. Boundary(Len(r)) = b + Len(D)
      BY <1>1, <3>7
    <3> QED BY <1>3, <3>5, <3>8, <3>9, Zenon DEF L, h, b, D, B
  <2> QED BY <1>1, <2>2, <2>3
<1> QED BY <1>4, <1>5

-----------------------------------------------------------------------------
(* The records in the file stay as they are, and with them the rows.       *)
LEMMA RowsStay ==
  ASSUME NEW out, NEW r \in Seq(Records), NEW t \in Seq(Records), NEW b \in Int,
         Len(r) <= Len(t), \A k \in 1..Len(r) : t[k] = r[k],
         \A e \in 1..b : WrittenAt(e) <= Len(r), RowsOk(out, r, b)
  PROVE  RowsOk(out, t, b)
<1>1. Len(r) \in Nat
  OBVIOUS
<1>2. ASSUME NEW e \in 1..b
      PROVE  /\ e \in Nat \ {0} /\ WrittenAt(e) \in Nat
             /\ t[e] = r[e] /\ \A k \in e..WrittenAt(e) : t[k] = r[k]
  <2>1. e \in Nat \ {0}
    OBVIOUS
  <2>2. WrittenAt(e) \in Nat /\ WrittenAt(e) >= e + 4 * DRONE_NUM
    BY <2>1, WrittenFacts
  <2>3. e \in 1..Len(r) /\ e..WrittenAt(e) \subseteq 1..Len(r)
    BY <1>1, <2>1, <2>2, RingSize
  <2> QED BY <2>1, <2>2, <2>3
<1>3. ASSUME NEW row, RowOk(row, r, b) PROVE RowOk(row, t, b)
  <2> DEFINE e == row.entry
  <2>1. e \in 1..b /\ Holds(row, e, r, WrittenAt(e))
    BY <1>3, Zenon DEF RowOk
  <2>2. e \in Nat /\ WrittenAt(e) \in Nat /\ t[e] = r[e] /\ \A k \in e..WrittenAt(e) : t[k] = r[k]
    BY <1>2, <2>1
  <2>3. Holds(row, e, t, WrittenAt(e))
    BY <2>1, <2>2, HoldsStays, Zenon
  <2> QED BY <1>3, <2>3, Zenon DEF RowOk
<1>4. \A e \in 1..b : OwnTx(t, e, WrittenAt(e)) <=> OwnTx(r, e, WrittenAt(e))
  BY <1>2, Zenon DEF OwnTx, Own
<1> QED BY <1>3, <1>4, Zenon DEF RowsOk

(* A pass keeps the ring ...                                               *)
LEMMA ProcessKeepsRing ==
  ASSUME RingInv, NEW record \in Records, Known(record.src), Process(record)
  PROVE  RingInv'
<1> DEFINE h == Held(record)
           L == Len(records)
           B == buffer_size
           r == Append(records, record)
<1>1. /\ records' = r /\ r \in Seq(Records) /\ L \in Nat /\ Len(r) = L + 1
      /\ buffer_pos = L % B /\ B \in Nat \ {0}
  BY RingSize DEF RingInv, Process
<1>2. slot' = [i \in Slots |-> IF i \in Range(Due(h)) /\ HasTxTime(h[i]) THEN Clean ELSE h[i]]
  BY Zenon DEF Process, Written, Held
<1>3. buffer_pos' = (buffer_pos + 1) % B
  BY DEF Process
<1>4. /\ h \in [Slots -> SlotTypes]
      /\ \A i \in Slots : h[i] = Clean \/ h[i].src # 0
      /\ \A i \in Slots : i >= Len(r) => h[i] = Clean
      /\ \A e \in 1..Len(r) : Len(r) - B < e =>
           \/ Holds(h[Position(e)], e, r, Len(r))
           \/ h[Position(e)] = Clean /\ WrittenAt(e) <= L
  BY HeldSlots, HeldKept, Zenon
<1>5. \A e \in 1..Len(r) :
        /\ Len(r) - B < e
        /\ Position(e) \in Range(Due(h))
        /\ HasTxTime(h[Position(e)])
        => WrittenAt(e) <= Len(r)
  BY DueReady, Zenon
<1> HIDE DEF h, L, B, r
<1>6. Clean \in SlotTypes
  BY DEF Clean, SlotTypes, Times, AddrRows
<1>7. slot' \in [Slots -> SlotTypes]
  BY <1>2, <1>4, <1>6
<1>8. buffer_pos' = Len(r) % B
  <2> DEFINE q == L \div B
             s == L % B
  <2>1. q \in Nat /\ s \in 0..(B - 1) /\ L = q * B + s
    BY <1>1, Divided
  <2> HIDE DEF q, s
  <2>2. CASE s + 1 < B
    <3>1. s + 1 \in 0..(B - 1) /\ 0 \in Nat /\ 0 * B + (s + 1) = s + 1 /\ L + 1 = q * B + (s + 1)
      BY <1>1, <2>1, <2>2
    <3>2. (0 * B + (s + 1)) % B = s + 1 /\ (q * B + (s + 1)) % B = s + 1
      BY <1>1, <2>1, <3>1, DivMod, Zenon
    <3> QED BY <1>1, <1>3, <3>1, <3>2 DEF s
  <2>3. CASE s + 1 = B
    <3>1. 0 \in 0..(B - 1) /\ 1 \in Nat /\ q + 1 \in Nat /\ 1 * B + 0 = B
      BY <1>1, <2>1
    <3>2. (1 * B + 0) % B = 0 /\ ((q + 1) * B + 0) % B = 0
      BY <1>1, <3>1, DivMod, Zenon
    <3>3. L + 1 = (q + 1) * B + 0
      BY <1>1, <2>1, <2>3
    <3> QED BY <1>1, <1>3, <2>3, <3>1, <3>2, <3>3 DEF s
  <2> QED BY <1>1, <2>1, <2>2, <2>3
<1>9. \A i \in Slots : slot'[i] = Clean \/ slot'[i].src # 0
  BY <1>2, <1>4
<1>10. \A i \in Slots : i >= Len(r) => slot'[i] = Clean
  BY <1>2, <1>4
<1>11. ASSUME NEW e \in 1..Len(r), Len(r) - B < e
       PROVE  Kept(slot'[Position(e)], r, e)
  <2>1. e \in Nat \ {0} /\ Len(r) = L + 1
    BY <1>1
  <2>2. Position(e) \in Slots
    BY <2>1, PositionInRing
  <2>3. slot'[Position(e)] =
          IF Position(e) \in Range(Due(h)) /\ HasTxTime(h[Position(e)]) THEN Clean
                                                                    ELSE h[Position(e)]
    BY <1>2, <2>2
  <2>4. CASE Position(e) \in Range(Due(h)) /\ HasTxTime(h[Position(e)])
    <3>1. WrittenAt(e) <= Len(r)
      BY <1>5, <1>11, <2>4, Zenon
    <3> QED BY <2>3, <2>4, <3>1, Zenon DEF Kept
  <2>5. CASE ~(Position(e) \in Range(Due(h)) /\ HasTxTime(h[Position(e)]))
    <3>1. slot'[Position(e)] = h[Position(e)]
      BY <2>3, <2>5, Zenon
    <3>2. WrittenAt(e) \in Nat
      BY <2>1, WrittenFacts
    <3>3. WrittenAt(e) <= L => WrittenAt(e) <= Len(r)
      BY <1>1, <2>1, <3>2
    <3> QED BY <1>4, <1>11, <3>1, <3>3, Zenon DEF Kept
  <2> QED BY <2>4, <2>5
<1> QED BY <1>1, <1>7, <1>8, <1>9, <1>10, <1>11, Zenon DEF RingInv, B

(* ... and the rows, up to the next block.                                 *)
LEMMA ProcessKeepsRows ==
  ASSUME RingInv, RowsInv, NEW record \in Records, Known(record.src), Process(record)
  PROVE  RowsInv'
<1> DEFINE h == Held(record)
           L == Len(records)
           b == Boundary(L)
           r == Append(records, record)
<1>1. /\ records' = r /\ records \in Seq(Records) /\ r \in Seq(Records) /\ L \in Nat
      /\ Len(r) = L + 1 /\ L <= Len(r) /\ \A k \in 1..L : r[k] = records[k]
  BY DEF RingInv, Process
<1>2. rows' = Output(h)
  BY Zenon DEF Process, Written, Held
<1>3. /\ b \in Int /\ h \in [Slots -> SlotTypes]
      /\ \A n \in 1..Len(Due(h)) : Due(h)[n] \in Slots /\ Ready(h[Due(h)[n]], r, b + n)
      /\ Boundary(Len(r)) = b + Len(Due(h)) \/ (Due(h) = <<>> /\ b <= 0 /\ Boundary(Len(r)) <= 0)
  BY HeldSlots, DueReady, Zenon
<1>4. rows \in Seq(SlotTypes) /\ RowsOk(rows, records, b)
  BY DEF RowsInv
<1> HIDE DEF h, L, b, r
<1>5. \A e \in 1..b : WrittenAt(e) <= L
  <2> TAKE e \in 1..b
  <2>1. e \in Nat \ {0} /\ e <= b
    BY <1>3
  <2> QED BY <1>1, <2>1, WrittenBy DEF b
<1>6. RowsOk(rows, r, b)
  BY <1>1, <1>3, <1>4, <1>5, RowsStay, Zenon DEF L
<1>7. Output(h) \in Seq(SlotTypes) /\ RowsOk(Output(h), r, b + Len(Due(h)))
  BY <1>3, <1>4, <1>6, OutputKeeps, Zenon
<1>8. RowsOk(Output(h), r, Boundary(Len(r)))
  <2>1. CASE Boundary(Len(r)) = b + Len(Due(h))
    BY <1>7, <2>1, Zenon
  <2>2. CASE Due(h) = <<>> /\ b <= 0 /\ Boundary(Len(r)) <= 0
    <3>1. Boundary(Len(r)) \in Int
      BY <1>1, RingSize DEF Boundary
    <3>2. 1..b = 1..Boundary(Len(r)) /\ b + Len(Due(h)) = b
      BY <1>3, <2>2, <3>1
    <3>3. RowsOk(Output(h), r, b)
      BY <1>7, <3>2
    <3> QED BY <3>2, <3>3, Zenon DEF RowsOk, RowOk
  <2> QED BY <1>3, <2>1, <2>2
<1> QED BY <1>1, <1>2, <1>7, <1>8, Zenon DEF RowsInv

-----------------------------------------------------------------------------
(* The swarm: what a record can say                                        *)
SwarmTyped ==
  /\ turn \in 1..Len(Swarm)
  /\ last_sent \in [Drones -> Nat]
  /\ heard \in [Drones -> [Drones -> Times]]
  /\ file \in Seq(Records)

(* The search for addresses: those that the first records of the file name *)
SearchInv ==
  /\ searched \in Nat /\ searched <= search_lines /\ searched <= Len(file)
  /\ addr_set \in Seq(Drones)
  /\ Range(addr_set) = {file[k].src : k \in 1..searched}
  /\ IsFiniteSet(Range(addr_set)) /\ Cardinality(Range(addr_set)) = Len(addr_set)
  /\ searched > 0 => addr_set # <<>> /\ addr_set[1] = file[1].src

(* The script: it reads a prefix of the file, and goes past the first      *)
(* record only with addresses for all columns.                             *)
ScriptInv ==
  /\ stage \in {"none", "search", "read", "done", "failed"}
  /\ stage = "none" => searched = 0
  /\ stage \in {"read", "done"} => searched = search_lines
  /\ Len(records) <= Len(file)
  /\ \A k \in 1..Len(records) : records[k] = file[k]
  /\ records = <<>> => rows = <<>>
  /\ records # <<>> => stage \in {"read", "done"} /\ Len(addr_set) >= DRONE_NUM
  /\ stage = "done" => records = file
  /\ stage = "failed" => \/ Len(file) < search_lines
                         \/ searched = search_lines /\ Len(addr_set) < DRONE_NUM

ReassemblyInv == SwarmTyped /\ SearchInv /\ ScriptInv /\ RingInv /\ RowsInv

(* A drone sends.                                                          *)
LEMMA SenderTyped == SwarmTyped => Sender \in Drones
<1> SUFFICES ASSUME SwarmTyped PROVE Swarm[turn] \in Range(Swarm)
  BY DEF Sender, Drones
<1>1. Swarm \in Seq(Nat \ {0}) /\ turn \in DOMAIN Swarm
  BY RingAssumption DEF SwarmTyped
<1> QED BY <1>1 DEF Range

(* A message of a drone is one, and a time.                                *)
LEMMA MessageTyped ==
  ASSUME NEW d \in Drones, NEW n \in Nat
  PROVE  Message(d, n) \in Messages /\ Message(d, n) \in Times
  BY DEF Message, Messages, Times

(* What a drone says is a record.                                          *)
LEMMA RecordTyped ==
  ASSUME SwarmTyped, NEW d \in Drones
  PROVE  Record(d) \in Records
<1>1. last_sent[d] \in Nat /\ last_sent[d] + 1 \in Nat \ {0} /\ \A e \in Drones : heard[d][e] \in Times
  BY DEF SwarmTyped
<1>2. Message(d, last_sent[d]) \in Messages
  BY <1>1, MessageTyped
<1>3. {heard[d][e] : e \in Drones \ {d}} \ {None} \in SUBSET Messages
  BY <1>1 DEF Times
<1> QED BY <1>1, <1>2, <1>3 DEF Record, Records

(* The next turn is that of a drone.                                       *)
LEMMA NextTurnTyped ==
  ASSUME turn \in 1..Len(Swarm), NextTurn
  PROVE  turn' \in 1..Len(Swarm)
<1> DEFINE n == Len(Swarm)
<1>1. n \in Nat \ {0}
  BY RingAssumption
<1> HIDE DEF n
<1>2. turn % n \in 0..(n - 1)
  BY <1>1 DEF n
<1> QED BY <1>1, <1>2 DEF NextTurn, n

(* A broadcast leaves the next drone to send.                              *)
LEMMA BroadcastTyped ==
  ASSUME SwarmTyped, NEW receivers, Broadcast(receivers), NextTurn,
         file' = file \/ file' = Append(file, Record(Sender))
  PROVE  SwarmTyped'
<1>1. Sender \in Drones
  BY SenderTyped
<1>2. last_sent' \in [Drones -> Nat] /\ last_sent[Sender] + 1 \in Nat
  BY <1>1 DEF SwarmTyped, Broadcast
<1> DEFINE m == Message(Sender, last_sent[Sender] + 1)
<1>3. m \in Times
  BY <1>1, <1>2, MessageTyped
<1>4. heard' = [e \in Drones |-> IF e \in receivers THEN [heard[e] EXCEPT ![Sender] = m]
                                                    ELSE heard[e]]
  BY DEF Broadcast
<1> HIDE DEF m
<1>5. heard' \in [Drones -> [Drones -> Times]]
  BY <1>3, <1>4 DEF SwarmTyped
<1>6. turn' \in 1..Len(Swarm)
  BY NextTurnTyped DEF SwarmTyped
<1>7. file' \in Seq(Records)
  <2>1. Record(Sender) \in Records /\ file \in Seq(Records)
    BY <1>1, RecordTyped DEF SwarmTyped
  <2> QED BY <2>1
<1> QED BY <1>2, <1>5, <1>6, <1>7 DEF SwarmTyped

(* Where the addresses suffice, every drone's receivers are known ...      *)
LEMMA EnoughAddresses ==
  ASSUME addr_set \in Seq(Drones), Len(addr_set) >= DRONE_NUM, NEW d
  PROVE  Receivable(d) /\ Known(d)
<1>1. DRONE_NUM \in Nat /\ Len(addr_set) \in Nat
  BY RingSize
<1>2. ASSUME NEW j \in Columns
      PROVE  addr_pos(d, j) \in 1..Len(addr_set) /\ addr_set[addr_pos(d, j)] \in Drones
  <2>1. j + 1 \in 1..Len(addr_set) /\ j \in 1..Len(addr_set)
    BY <1>1 DEF Columns
  <2>2. addr_pos(d, j) \in {j, j + 1}
    BY DEF addr_pos
  <2>3. addr_pos(d, j) \in 1..Len(addr_set)
    BY <2>1, <2>2
  <2> QED BY <2>3
<1>3. Receivable(d)
  BY <1>1, <1>2 DEF Receivable
<1>4. Known(d)
  BY <1>2 DEF Known, AddrRows, Receivers
<1> QED BY <1>3, <1>4

(* ... and where not, the script fails at its first record, because there  *)
(* the sender is the first address.                                        *)
LEMMA FirstReceivable ==
  ASSUME addr_set \in Seq(Drones), addr_set # <<>>, Receivable(addr_set[1])
  PROVE  Len(addr_set) >= DRONE_NUM
<1>1. DRONE_NUM - 1 \in Columns /\ DRONE_NUM \in Nat /\ Len(addr_set) \in Nat \ {0}
  BY RingSize DEF Columns
<1>2. 1 \in 1..Len(addr_set) /\ 1 <= DRONE_NUM - 1
  BY <1>1, RingSize
<1>3. addr_pos(addr_set[1], DRONE_NUM - 1) = (DRONE_NUM - 1) + 1
  BY <1>2 DEF addr_pos
<1>4. addr_pos(addr_set[1], DRONE_NUM - 1) <= Len(addr_set)
  BY <1>1 DEF Receivable
<1> QED BY <1>1, <1>3, <1>4

(* At first there are no records and the ring is empty.                    *)
LEMMA ReassemblyStarts == RingInit => ReassemblyInv
<1> SUFFICES ASSUME RingInit PROVE ReassemblyInv
  OBVIOUS
<1>1. /\ records = <<>> /\ Len(records) = 0 /\ rows = <<>> /\ Len(rows) = 0 /\ buffer_pos = 0
      /\ \A i \in Slots : slot[i] = Clean
      /\ slot = [i \in Slots |-> Clean]
  BY DEF RingInit
<1>2. Clean \in SlotTypes /\ None \in Times
  BY DEF Clean, SlotTypes, Times, AddrRows
<1>3. SwarmTyped
  BY <1>2, RingAssumption DEF RingInit, SwarmTyped
<1>4. 0 % buffer_size = 0
  <2>1. buffer_size \in Nat \ {0} /\ 0 \in Nat /\ 0 \in 0..(buffer_size - 1)
    BY RingSize
  <2>2. (0 * buffer_size + 0) % buffer_size = 0
    BY <2>1, DivMod
  <2>3. 0 * buffer_size + 0 = 0
    BY <2>1
  <2> QED BY <2>2, <2>3
<1>5. RingInv
  <2>1. records \in Seq(Records) /\ slot \in [Slots -> SlotTypes]
    BY <1>1, <1>2
  <2>2. \A e \in 1..Len(records) : FALSE
    BY <1>1
  <2>3. buffer_pos = Len(records) % buffer_size
    BY <1>1, <1>4
  <2> QED BY <1>1, <2>1, <2>2, <2>3, Zenon DEF RingInv
<1>6. RowsInv
  <2>1. rows \in Seq(SlotTypes) /\ \A k \in 1..Len(rows) : FALSE
    BY <1>1
  <2>2. \A k \in 2..Len(rows) : FALSE
    BY <1>1
  <2>3. \A e \in 1..Boundary(Len(records)) : FALSE
    <3>1. ASSUME NEW e \in 1..Boundary(Len(records)) PROVE FALSE
      <4>1. Boundary(0) \in Int
        BY RingSize DEF Boundary
      <4>2. e \in Nat \ {0} /\ e <= Boundary(0)
        BY <1>1, <4>1
      <4>3. WrittenAt(e) <= 0
        BY <4>2, WrittenBy
      <4> QED BY <4>2, <4>3, WrittenFacts, RingSize
    <3> QED BY <3>1
  <2> QED BY <2>1, <2>2, <2>3, Zenon DEF RowsInv, RowsOk
<1>7. SearchInv
  <2>1. /\ file = <<>> /\ Len(file) = 0 /\ searched = 0 /\ addr_set = <<>> /\ Len(addr_set) = 0
        /\ Range(addr_set) = {}
    BY DEF RingInit, Range
  <2>2. {file[k].src : k \in 1..searched} = {}
    BY <2>1
  <2>3. IsFiniteSet(Range(addr_set)) /\ Cardinality(Range(addr_set)) = 0
    BY <2>1, FS_EmptySet, Zenon
  <2>4. searched \in Nat /\ searched <= search_lines /\ searched <= Len(file) /\ ~(searched > 0)
        /\ addr_set \in Seq(Drones)
    BY <2>1, RingAssumption
  <2> QED BY <2>1, <2>2, <2>3, <2>4, Zenon DEF SearchInv
<1>8. ScriptInv
  BY <1>1 DEF RingInit, ScriptInv
<1> QED BY <1>3, <1>5, <1>6, <1>7, <1>8 DEF ReassemblyInv

(* Without a record nothing is reassembled.                                *)
LEMMA LoopSame ==
  ASSUME RingInv, RowsInv, UNCHANGED loop
  PROVE  RingInv' /\ RowsInv'
<1>1. records' = records /\ slot' = slot /\ buffer_pos' = buffer_pos /\ rows' = rows
  BY DEF loop
<1>2. RingInv'
  BY <1>1 DEF RingInv
<1>3. RowsInv'
  BY <1>1 DEF RowsInv
<1> QED BY <1>2, <1>3

(* Before the script is started the file may grow.                         *)
LEMMA CaptureKeeps ==
  ASSUME ReassemblyInv, stage = "none", UNCHANGED script, SwarmTyped',
         NEW record, file' = file \/ file' = Append(file, record)
  PROVE  ReassemblyInv'
<1>1. UNCHANGED <<stage, searched, addr_set, records, slot, buffer_pos, rows>> /\ UNCHANGED loop
  BY DEF script, names, loop
<1>2. file \in Seq(Records) /\ searched = 0 /\ records = <<>> /\ Len(records) = 0
  BY DEF ReassemblyInv, SwarmTyped, ScriptInv
<1>3. Len(file') >= Len(file) /\ Len(file) \in Nat /\ Len(file') \in Nat
  <2>1. CASE file' = file
    BY <1>2, <2>1
  <2>2. CASE file' = Append(file, record)
    <3>1. file \in Seq(Records \cup {record}) /\ Len(file') = Len(file) + 1
      BY <1>2, <2>2
    <3> QED BY <1>2, <3>1
  <2> QED BY <2>1, <2>2
<1>4. SearchInv'
  <2>1. SearchInv
    BY DEF ReassemblyInv
  <2>2. {file[k].src : k \in 1..searched} = {} /\ {file'[k].src : k \in 1..searched'} = {}
    BY <1>1, <1>2
  <2> QED BY <1>1, <1>2, <1>3, <2>1, <2>2 DEF SearchInv
<1>5. ScriptInv'
  BY <1>1, <1>2, <1>3 DEF ReassemblyInv, ScriptInv
<1>6. RingInv' /\ RowsInv'
  BY <1>1, LoopSame DEF ReassemblyInv
<1> QED BY <1>4, <1>5, <1>6 DEF ReassemblyInv

(* A record of the search                                                  *)
LEMMA SearchKeeps ==
  ASSUME ReassemblyInv, Search
  PROVE  ReassemblyInv'
<1>1. /\ stage = "search" /\ searched < search_lines /\ UNCHANGED swarm /\ UNCHANGED loop
      /\ UNCHANGED <<turn, last_sent, heard, file, records, rows>>
  BY DEF Search, swarm, loop
<1>2. SwarmTyped' /\ RingInv' /\ RowsInv'
  BY <1>1, LoopSame DEF ReassemblyInv, SwarmTyped
<1>3. /\ file \in Seq(Records) /\ searched \in Nat /\ search_lines \in Nat /\ addr_set \in Seq(Drones)
      /\ records = <<>> /\ Len(records) = 0
  BY <1>1, RingAssumption DEF ReassemblyInv, SwarmTyped, SearchInv, ScriptInv
<1>4. CASE searched < Len(file)
  <2> DEFINE n == searched + 1
             addr == file[n].src
  <2>1. n \in 1..Len(file) /\ n \in Nat /\ n <= search_lines /\ addr \in Drones
    <3>1. n \in 1..Len(file) /\ n \in Nat /\ n <= search_lines
      BY <1>1, <1>3, <1>4
    <3>2. file[n] \in Records
      BY <1>3, <3>1, ElementOfSeq, Zenon
    <3> QED BY <3>1, <3>2 DEF Records
  <2>2. /\ addr_set' = IF addr \in Range(addr_set) THEN addr_set ELSE Append(addr_set, addr)
        /\ searched' = n /\ UNCHANGED stage
    BY <1>4 DEF Search
  <2>3. {file[k].src : k \in 1..n} = {file[k].src : k \in 1..searched} \cup {addr}
    <3>1. 1..n = (1..searched) \cup {n}
      BY <1>3
    <3> QED BY <3>1
  <2>4. /\ Range(addr_set) = {file[k].src : k \in 1..searched}
        /\ IsFiniteSet(Range(addr_set)) /\ Cardinality(Range(addr_set)) = Len(addr_set)
        /\ searched > 0 => addr_set # <<>> /\ addr_set[1] = file[1].src
    BY DEF ReassemblyInv, SearchInv
  <2> HIDE DEF addr, n
  <2>5. CASE addr \in Range(addr_set)
    <3>1. addr_set' = addr_set /\ Range(addr_set) = Range(addr_set) \cup {addr}
      BY <2>2, <2>5
    <3>2. searched > 0
      <4>1. searched # 0
        BY <2>4, <2>5
      <4> QED BY <1>3, <4>1
    <3>3. SearchInv'
      <4>1. Range(addr_set') = {file'[k].src : k \in 1..searched'}
        BY <1>1, <2>2, <2>3, <2>4, <3>1, Zenon
      <4>2. searched' \in Nat /\ searched' <= search_lines' /\ searched' <= Len(file')
        BY <1>1, <2>1, <2>2
      <4>3. addr_set' # <<>> /\ addr_set'[1] = file'[1].src
        BY <1>1, <2>4, <3>1, <3>2
      <4>4. addr_set' \in Seq(Drones) /\ IsFiniteSet(Range(addr_set')) /\ Cardinality(Range(addr_set')) = Len(addr_set')
        BY <1>3, <2>4, <3>1
      <4> QED BY <4>1, <4>2, <4>3, <4>4, Zenon DEF SearchInv
    <3>4. ScriptInv'
      BY <1>1, <1>3, <2>2, <3>1 DEF ReassemblyInv, ScriptInv
    <3> QED BY <1>2, <3>3, <3>4 DEF ReassemblyInv
  <2>6. CASE addr \notin Range(addr_set)
    <3>1. /\ addr_set' = Append(addr_set, addr) /\ addr_set' \in Seq(Drones)
          /\ Len(addr_set') = Len(addr_set) + 1 /\ Len(addr_set) \in Nat
          /\ Range(addr_set') = Range(addr_set) \cup {addr}
      <4>1. addr_set' = Append(addr_set, addr)
        BY <2>2, <2>6
      <4>2. Range(Append(addr_set, addr)) = Range(addr_set) \cup {addr}
        <5> DEFINE a == Append(addr_set, addr)
                   m == Len(addr_set)
        <5>1. /\ m \in Nat /\ DOMAIN a = (1..m) \cup {m + 1} /\ DOMAIN addr_set = 1..m
              /\ a[m + 1] = addr /\ \A i \in 1..m : a[i] = addr_set[i]
          BY <1>3, <2>1
        <5> HIDE DEF a, m
        <5> QED BY <5>1 DEF Range, a
      <4> QED BY <1>3, <2>1, <4>1, <4>2
    <3>2. IsFiniteSet(Range(addr_set')) /\ Cardinality(Range(addr_set')) = Len(addr_set')
      <4>1. /\ IsFiniteSet(Range(addr_set) \cup {addr})
            /\ Cardinality(Range(addr_set) \cup {addr}) = Cardinality(Range(addr_set)) + 1
        BY <2>4, <2>6, FS_AddElement, Zenon
      <4> QED BY <2>4, <3>1, <4>1, Zenon
    <3>3. addr_set' # <<>> /\ addr_set'[1] = file[1].src
      <4>1. addr_set' # <<>>
        BY <3>1
      <4>2. CASE searched = 0
        <5>1. 1..searched = {} /\ n = 1
          BY <4>2 DEF n
        <5>2. Cardinality(Range(addr_set)) = 0
          <6>1. Range(addr_set) = {}
            BY <2>4, <5>1
          <6> QED BY <6>1, FS_EmptySet
        <5>3. addr_set'[1] = addr
          BY <1>3, <2>1, <2>4, <3>1, <5>2
        <5> QED BY <4>1, <5>1, <5>3 DEF addr
      <4>3. CASE searched # 0
        <5>1. searched > 0
          BY <1>3, <4>3
        <5>2. addr_set'[1] = addr_set[1]
          BY <1>3, <2>1, <2>4, <3>1, <5>1
        <5> QED BY <2>4, <4>1, <5>1, <5>2
      <4> QED BY <4>2, <4>3
    <3>4. SearchInv'
      <4>1. Range(addr_set') = {file'[k].src : k \in 1..searched'}
        BY <1>1, <2>2, <2>3, <2>4, <3>1, Zenon
      <4>2. searched' \in Nat /\ searched' <= search_lines' /\ searched' <= Len(file')
        BY <1>1, <2>1, <2>2
      <4>3. addr_set' # <<>> /\ addr_set'[1] = file'[1].src
        BY <1>1, <3>3
      <4> QED BY <3>1, <3>2, <4>1, <4>2, <4>3, Zenon DEF SearchInv
    <3>5. ScriptInv'
      BY <1>1, <1>3, <2>2 DEF ReassemblyInv, ScriptInv
    <3> QED BY <1>2, <3>4, <3>5 DEF ReassemblyInv
  <2> QED BY <2>5, <2>6
<1>5. CASE ~(searched < Len(file))
  <2>1. /\ stage' = "failed" /\ UNCHANGED <<searched, addr_set>>
    BY <1>5 DEF Search, names
  <2>2. Len(file) < search_lines
    BY <1>1, <1>3, <1>5
  <2>3. SearchInv'
    BY <1>1, <2>1 DEF ReassemblyInv, SearchInv
  <2>4. ScriptInv'
    BY <1>1, <1>3, <2>1, <2>2 DEF ReassemblyInv, ScriptInv
  <2> QED BY <1>2, <2>3, <2>4 DEF ReassemblyInv
<1> QED BY <1>4, <1>5

(* A record of the loop                                                    *)
LEMMA ReadKeeps ==
  ASSUME ReassemblyInv, ReadRecord
  PROVE  ReassemblyInv'
<1> DEFINE L == Len(records)
           record == file[L + 1]
<1>1. /\ stage = "read" /\ L < Len(file)
      /\ UNCHANGED <<turn, last_sent, heard, file, searched, addr_set>>
      /\ IF Receivable(record.src) THEN Process(record) /\ UNCHANGED stage
                                   ELSE stage' = "failed" /\ UNCHANGED loop
  BY DEF ReadRecord, swarm, names
<1>2. SwarmTyped' /\ SearchInv'
  BY <1>1 DEF ReassemblyInv, SwarmTyped, SearchInv
<1>3. /\ file \in Seq(Records) /\ records \in Seq(Records) /\ L \in Nat /\ Len(file) \in Nat
      /\ L + 1 \in 1..Len(file) /\ record \in Records
  <2>1. file \in Seq(Records) /\ records \in Seq(Records)
    BY DEF ReassemblyInv, SwarmTyped, RingInv
  <2>2. L \in Nat /\ Len(file) \in Nat /\ L + 1 \in 1..Len(file)
    BY <1>1, <2>1
  <2> QED BY <2>1, <2>2
<1>4. /\ searched = search_lines /\ addr_set \in Seq(Drones) /\ addr_set # <<>>
      /\ addr_set[1] = file[1].src
  BY <1>1, RingAssumption DEF ReassemblyInv, SearchInv, ScriptInv
<1>5. Receivable(record.src) <=> Len(addr_set) >= DRONE_NUM
  <2>1. CASE records = <<>>
    <3>1. record.src = addr_set[1]
      BY <1>4, <2>1
    <3> QED BY <1>4, <3>1, EnoughAddresses, FirstReceivable
  <2>2. CASE records # <<>>
    <3>1. Len(addr_set) >= DRONE_NUM
      BY <2>2 DEF ReassemblyInv, ScriptInv
    <3> QED BY <1>4, <3>1, EnoughAddresses
  <2> QED BY <2>1, <2>2
<1> HIDE DEF record, L
<1>6. CASE Receivable(record.src)
  <2>1. Process(record) /\ UNCHANGED stage /\ Len(addr_set) >= DRONE_NUM /\ Known(record.src)
    BY <1>1, <1>4, <1>5, <1>6, EnoughAddresses
  <2>2. RingInv' /\ RowsInv'
    BY <1>3, <2>1, ProcessKeepsRing, ProcessKeepsRows DEF ReassemblyInv
  <2>3. records' = Append(records, record)
    BY <2>1 DEF Process
  <2>4. /\ records' # <<>> /\ Len(records') = L + 1
        /\ \A k \in 1..Len(records') : records'[k] = file[k]
    <3>1. \A k \in 1..L : records[k] = file[k]
      BY DEF ReassemblyInv, ScriptInv, L
    <3> QED BY <1>3, <2>3, <3>1 DEF record, L
  <2>5. ScriptInv'
    BY <1>1, <1>3, <1>4, <2>1, <2>4 DEF ReassemblyInv, ScriptInv
  <2> QED BY <1>2, <2>2, <2>5 DEF ReassemblyInv
<1>7. CASE ~Receivable(record.src)
  <2>1. stage' = "failed" /\ UNCHANGED loop /\ UNCHANGED <<records, rows>>
    BY <1>1, <1>7 DEF loop
  <2>2. RingInv' /\ RowsInv'
    BY <2>1, LoopSame DEF ReassemblyInv
  <2>3. Len(addr_set) < DRONE_NUM
    BY <1>4, <1>5, <1>7, RingSize
  <2>4. ScriptInv'
    BY <1>1, <1>4, <2>1, <2>3, RingSize DEF ReassemblyInv, ScriptInv
  <2> QED BY <1>2, <2>2, <2>4 DEF ReassemblyInv
<1> QED BY <1>6, <1>7

(* Every step keeps the invariant.                                         *)
LEMMA ReassemblySteps ==
  ASSUME ReassemblyInv, RingNext \/ UNCHANGED ring
  PROVE  ReassemblyInv'
<1>0. SwarmTyped /\ SearchInv /\ ScriptInv /\ RingInv /\ RowsInv
  BY DEF ReassemblyInv
<1>1. CASE Send
  <2>1. PICK missed \in SUBSET (Drones \ {Sender}), caught \in BOOLEAN :
          /\ Broadcast(Drones \ ({Sender} \cup missed))
          /\ file' = IF caught THEN Append(file, Record(Sender)) ELSE file
    BY <1>1 DEF Send
  <2>2. SwarmTyped'
    BY <1>0, <1>1, <2>1, BroadcastTyped DEF Send
  <2> QED BY <1>1, <2>1, <2>2, CaptureKeeps DEF Send
<1>2. CASE Toggle
  <2>1. UNCHANGED <<turn, last_sent, heard, file, script>> /\ stage = "none"
    BY <1>2 DEF Toggle
  <2>2. SwarmTyped'
    BY <1>0, <2>1 DEF SwarmTyped
  <2> QED BY <2>1, <2>2, CaptureKeeps
<1>3. CASE Pass
  <2>1. UNCHANGED <<last_sent, heard, file, script>> /\ stage = "none"
    BY <1>3 DEF Pass
  <2>2. turn' \in 1..Len(Swarm)
    BY <1>0, <1>3, NextTurnTyped DEF Pass, SwarmTyped
  <2>3. SwarmTyped'
    BY <1>0, <2>1, <2>2 DEF SwarmTyped
  <2> QED BY <2>1, <2>3, CaptureKeeps
<1>4. CASE Start
  <2>1. UNCHANGED <<turn, last_sent, heard, file, searched, addr_set, records, rows>> /\ UNCHANGED loop
        /\ stage = "none" /\ stage' = "search"
    BY <1>4 DEF Start, swarm, names, loop
  <2>2. SwarmTyped' /\ SearchInv' /\ ScriptInv'
    BY <1>0, <2>1 DEF SwarmTyped, SearchInv, ScriptInv
  <2> QED BY <1>0, <2>1, <2>2, LoopSame DEF ReassemblyInv
<1>5. CASE Search
  BY <1>5, SearchKeeps
<1>6. CASE SearchEnd
  <2>1. UNCHANGED <<turn, last_sent, heard, file, searched, addr_set, records, rows>> /\ UNCHANGED loop
        /\ stage = "search" /\ searched = search_lines /\ stage' = "read"
    BY <1>6 DEF SearchEnd, swarm, names, loop
  <2>2. SwarmTyped' /\ SearchInv' /\ ScriptInv'
    BY <1>0, <2>1 DEF SwarmTyped, SearchInv, ScriptInv
  <2> QED BY <1>0, <2>1, <2>2, LoopSame DEF ReassemblyInv
<1>7. CASE ReadRecord
  BY <1>7, ReadKeeps
<1>8. CASE EndOfFile
  <2>1. UNCHANGED <<turn, last_sent, heard, file, searched, addr_set, records, rows>> /\ UNCHANGED loop
        /\ stage = "read" /\ Len(records) = Len(file) /\ stage' = "done"
    BY <1>8 DEF EndOfFile, swarm, names, loop
  <2>2. SwarmTyped' /\ SearchInv'
    BY <1>0, <2>1 DEF SwarmTyped, SearchInv
  <2>3. records = file
    <3>1. /\ records \in Seq(Records) /\ file \in Seq(Records) /\ Len(records) = Len(file)
          /\ \A k \in 1..Len(records) : records[k] = file[k]
      BY <1>0, <2>1 DEF SwarmTyped, ScriptInv, RingInv
    <3> QED BY <3>1, SeqEqual, Zenon
  <2>4. ScriptInv'
    BY <1>0, <2>1, <2>3 DEF ScriptInv
  <2> QED BY <1>0, <2>1, <2>2, <2>4, LoopSame DEF ReassemblyInv
<1>9. CASE UNCHANGED ring
  <2>1. UNCHANGED <<turn, last_sent, heard, file, stage, searched, addr_set, records, rows>>
        /\ UNCHANGED loop
    BY <1>9 DEF ring, swarm, script, names, loop
  <2>2. SwarmTyped' /\ SearchInv' /\ ScriptInv'
    BY <1>0, <2>1 DEF SwarmTyped, SearchInv, ScriptInv
  <2> QED BY <1>0, <2>1, <2>2, LoopSame DEF ReassemblyInv
<1> QED BY <1>1, <1>2, <1>3, <1>4, <1>5, <1>6, <1>7, <1>8, <1>9 DEF RingNext

(* How the script ended                                                    *)
LEMMA OutcomeHolds == ReassemblyInv => ScriptOutcome
<1> SUFFICES ASSUME SwarmTyped, SearchInv, ScriptInv, RingInv PROVE ScriptOutcome
  BY DEF ReassemblyInv
<1> DEFINE named    == {file[k].src : k \in 1..search_lines}
           suitable == Len(file) >= search_lines /\ Cardinality(named) >= DRONE_NUM
<1>1. search_lines \in Nat \ {0} /\ Len(file) \in Nat /\ Len(addr_set) \in Nat /\ DRONE_NUM \in Nat
  BY RingAssumption DEF SwarmTyped, SearchInv
<1>2. searched = search_lines => Cardinality(named) = Len(addr_set) /\ Len(file) >= search_lines
  BY <1>1 DEF SearchInv
<1> HIDE DEF named
<1>3. ASSUME stage = "failed" PROVE ~suitable /\ rows = <<>>
  <2>1. records = <<>> /\ rows = <<>>
    BY <1>3 DEF ScriptInv
  <2>2. ~suitable
    BY <1>1, <1>2, <1>3 DEF ScriptInv
  <2> QED BY <2>1, <2>2
<1>4. ASSUME stage = "done" PROVE suitable /\ records = file
  <2>1. searched = search_lines /\ records = file /\ Len(file) >= 1
    BY <1>1, <1>2, <1>4 DEF ScriptInv
  <2>2. records # <<>>
    BY <2>1
  <2>3. Len(addr_set) >= DRONE_NUM
    BY <2>2 DEF ScriptInv
  <2> QED BY <1>2, <2>1, <2>3
<1> QED BY <1>3, <1>4 DEF ScriptOutcome, named

(* What was reported of a record until its row was due *)
LEMMA Reported ==
  ASSUME NEW e
  PROVE  /\ MessageOf(e) = Own(records, e)
         /\ TxReported(e) <=> OwnTx(records, e, WrittenAt(e))
         /\ \A d : RxReported(e, d) <=> OwnRx(records, e, d, WrittenAt(e))
  BY Zenon DEF MessageOf, Own, TxReported, OwnTx, RxReported, OwnRx

(* The rows hold what their records say ...                                *)
LEMMA RowsAreExact == ReassemblyInv => RowsExact
<1> SUFFICES ASSUME RowsInv, NEW k \in 1..Len(rows)
             PROVE  LET row == rows[k]
                        own == Message(row.src, row.seq)
                    IN /\ own = MessageOf(row.entry)
                       /\ row.Tx_time = own \/ row.carried
                       /\ \A j \in Columns :
                            IF RxReported(row.entry, row.Rx_addr[j])
                              THEN row.Rx_time[j] = own
                              ELSE row.Rx_time[j] = None \/ row.carried
  BY DEF ReassemblyInv, RowsExact
<1> DEFINE row == rows[k]
           e == row.entry
           own == Message(row.src, row.seq)
<1>1. row.Tx_time # None /\ Holds(row, e, records, WrittenAt(e))
  BY Zenon DEF RowsInv, RowsOk, RowOk
<1> HIDE DEF row
<1>2. own = Own(records, e)
  BY <1>1, Zenon DEF Holds, Own
<1>3. row.Tx_time = own \/ row.carried
  BY <1>1, <1>2, Zenon DEF Holds
<1>4. ASSUME NEW j \in Columns
      PROVE  IF RxReported(e, row.Rx_addr[j]) THEN row.Rx_time[j] = own
                                              ELSE row.Rx_time[j] = None \/ row.carried
  <2>1. RxReported(e, row.Rx_addr[j]) <=> OwnRx(records, e, row.Rx_addr[j], WrittenAt(e))
    BY Reported, Zenon
  <2>2. /\ OwnRx(records, e, row.Rx_addr[j], WrittenAt(e)) => row.Rx_time[j] = own
        /\ ~OwnRx(records, e, row.Rx_addr[j], WrittenAt(e)) => row.Rx_time[j] = None \/ row.carried
    BY <1>1, <1>2, Zenon DEF Holds
  <2> QED BY <2>1, <2>2, Zenon
<1>5. own = MessageOf(e)
  BY <1>2, Reported, Zenon
<1> QED BY <1>3, <1>4, <1>5, Zenon DEF row

(* ... and there is a row for each record that was reported.               *)
LEMMA RowsAreComplete == ReassemblyInv => RowsComplete
<1> SUFFICES ASSUME ReassemblyInv, RingInv, RowsInv PROVE RowsComplete
  BY DEF ReassemblyInv
<1> DEFINE L == Len(records)
           b == Boundary(L)
<1>1. L \in Nat /\ b \in Int /\ Len(rows) \in Nat
  <2>1. L \in Nat /\ Len(rows) \in Nat
    BY DEF RingInv, RowsInv
  <2> QED BY <2>1, RingSize DEF Boundary
<1>2. /\ \A k \in 1..Len(rows) : RowOk(rows[k], records, b)
      /\ \A k \in 2..Len(rows) : rows[k - 1].entry < rows[k].entry
      /\ \A e \in 1..b : OwnTx(records, e, WrittenAt(e)) => \E k \in 1..Len(rows) : rows[k].entry = e
  BY Zenon DEF RowsInv, RowsOk
<1>3. \A k \in 1..Len(rows) : RowEntries[k] = rows[k].entry
  BY DEF RowEntries
<1>4. \A i : i \in Range(RowEntries) <=> \E k \in 1..Len(rows) : rows[k].entry = i
  BY DEF Range, RowEntries
<1>5. ASSUME NEW e \in Nat \ {0}
      PROVE  e \in DueEntries <=> e \in 1..b
  <2>1. WrittenAt(e) <= L <=> e <= b
    BY <1>1, WrittenBy
  <2>2. WrittenAt(e) \in Nat /\ WrittenAt(e) >= e + 4 * DRONE_NUM
    BY WrittenFacts
  <2>3. WrittenAt(e) <= L => e \in 1..L
    BY <1>1, <2>2, RingSize
  <2> QED BY <1>1, <2>1, <2>3 DEF DueEntries
<1> HIDE DEF b, L
<1>6. \A k \in 2..Len(rows) : RowEntries[k - 1] < RowEntries[k]
  <2> TAKE k \in 2..Len(rows)
  <2>1. k \in 1..Len(rows) /\ k - 1 \in 1..Len(rows)
    BY <1>1
  <2> QED BY <1>2, <1>3, <2>1
<1>7. Range(RowEntries) \subseteq DueEntries
  <2>1. ASSUME NEW k \in 1..Len(rows) PROVE rows[k].entry \in DueEntries
    <3>1. rows[k].entry \in 1..b
      BY <1>2, Zenon DEF RowOk
    <3>2. rows[k].entry \in Nat \ {0}
      BY <1>1, <3>1
    <3> QED BY <1>5, <3>1, <3>2
  <2> QED BY <1>4, <2>1
<1>8. ASSUME NEW e \in DueEntries, TxReported(e) PROVE e \in Range(RowEntries)
  <2>1. e \in Nat \ {0}
    BY <1>1 DEF DueEntries, L
  <2>2. e \in 1..b
    BY <1>5, <2>1
  <2>3. OwnTx(records, e, WrittenAt(e))
    BY <1>8, Reported, Zenon
  <2> QED BY <1>2, <1>4, <2>2, <2>3, Zenon
<1>9. ASSUME NEW k \in 1..Len(rows), ~TxReported(RowEntries[k]) PROVE rows[k].carried
  <2> DEFINE e == rows[k].entry
  <2>1. ~OwnTx(records, e, WrittenAt(e))
    BY <1>3, <1>9, Reported, Zenon
  <2>2. rows[k].Tx_time # None /\ Holds(rows[k], e, records, WrittenAt(e))
    BY <1>2, Zenon DEF RowOk
  <2> QED BY <2>1, <2>2, Zenon DEF Holds
<1> QED BY <1>6, <1>7, <1>8, <1>9, OutcomeHolds, Zenon DEF RowsComplete

-----------------------------------------------------------------------------
(* The theorems *)

(* For every length of the cycle, steps of the clock and number of         *)
(* records: the time line of analyze_records is exact but for a cycle that *)
(* each record out of order adds, and its differences are those of the     *)
(* clock between records with no such record in between.                   *)
THEOREM TimeLineHolds == TraceSpec => []TimeLineExact
<1>1. TraceInit => UnwrapInv
  BY UnwrapStarts DEF TraceInit
<1>2. UnwrapInv /\ [TraceNext]_traces => UnwrapInv'
  <2> SUFFICES ASSUME UnwrapInv, [TraceNext]_traces PROVE UnwrapInv'
    OBVIOUS
  <2>1. CASE Analyze
    BY <2>1, AnalyzeStep
  <2>2. CASE UNCHANGED unwrap
    BY <2>2 DEF UnwrapInv, unwrap, Cycles, Previous
  <2> QED BY <2>1, <2>2 DEF TraceNext, traces
<1>3. UnwrapInv => TimeLineExact
  BY TimeLine
<1> QED BY <1>1, <1>2, <1>3, PTL DEF TraceSpec

(* For every length of the cycle and of a tick, and every pace of the      *)
(* lines: what xTaskGetTickCount returns is ahead of the drone's clock by  *)
(* the cycles in which more than one stamp was low, and never behind when  *)
(* no cycle goes by unseen.  Fewer than 2^16 lines cannot wrap TxCount and *)
(* RxCount, which have 16 bits.                                            *)
THEOREM TickCountAhead ==
  ASSUME MaxLines < 65536
  PROVE  TraceSpec => []TicksAhead
<1>1. TraceInit => TickInv
  BY TicksStart DEF TraceInit
<1>2. TickInv /\ [TraceNext]_traces => TickInv'
  <2> SUFFICES ASSUME TickInv, [TraceNext]_traces PROVE TickInv'
    OBVIOUS
  <2>1. CASE xTaskGetTickCount
    BY <2>1, CallStep
  <2>2. ASSUME NEW l \in Lines, Line(l) PROVE TickInv'
    BY <2>2, LineStep
  <2>3. CASE UNCHANGED ticking
    BY <2>3, TickSame
  <2> QED BY <2>1, <2>2, <2>3 DEF TraceNext, TickNext, traces
<1>3. TickInv => TicksAhead
  BY CountAhead
<1> QED BY <1>1, <1>2, <1>3, PTL DEF TraceSpec

(* The invariant of the reassembly: the ring holds the last records, with *)
(* the times reported of them so far, and the rows are those that were due. *)
LEMMA ReassemblyHolds == TraceSpec => []ReassemblyInv
<1>1. TraceInit => ReassemblyInv
  BY ReassemblyStarts DEF TraceInit
<1>2. ReassemblyInv /\ [TraceNext]_traces => ReassemblyInv'
  <2> SUFFICES ASSUME ReassemblyInv, [TraceNext]_traces PROVE ReassemblyInv'
    OBVIOUS
  <2>1. RingNext \/ UNCHANGED ring
    BY DEF TraceNext, traces
  <2> QED BY <2>1, ReassemblySteps
<1> QED BY <1>1, <1>2, PTL DEF TraceSpec

(* For every swarm, whatever is lost or unheard: each row of the flight    *)
(* log has the address, number and transmission time of one record of the  *)
(* file and, for each receiver, exactly the reception time that was        *)
(* reported of it before the row was due; a time of another message stands *)
(* only in a row whose slot had not been cleaned up.                       *)
THEOREM RowsAreOwn == TraceSpec => []RowsExact
  BY ReassemblyHolds, RowsAreExact, PTL

(* ... and the rows come in the order of the records, none twice and none  *)
(* early; a record whose transmission time is reported before its row is   *)
(* due has a row.                                                          *)
THEOREM EveryRowInOrder == TraceSpec => []RowsComplete
  BY ReassemblyHolds, RowsAreComplete, PTL

(* For every swarm and every capture: the script fails before its first    *)
(* row where the file is shorter than its search for addresses or the      *)
(* records searched name too few drones, and otherwise reads all of it.    *)
THEOREM ScriptEnds == TraceSpec => []ScriptOutcome
  BY ReassemblyHolds, OutcomeHolds, PTL

(* What is shown of the capturing programs and of the readers by           *)
(* themselves holds of a behaviour of either (RecordTools), too: it is one *)
(* of both specifications.                                                 *)
THEOREM RecordToolsAreBoth ==
  RecordSpec => /\ TraceSpec
                /\ ToolsInit /\ [][ToolsStep \/ ToolsSignal]_ToolsVars
<1>1. RecordInit => TraceInit /\ ToolsInit
  BY DEF RecordInit
<1>2. [CaptureRuns \/ SignalComes \/ ReaderRuns]_RecordVars => [TraceNext]_traces
  BY DEF CaptureRuns, SignalComes, ReaderRuns, RecordVars
<1>3. [CaptureRuns \/ SignalComes \/ ReaderRuns]_RecordVars => [ToolsStep \/ ToolsSignal]_ToolsVars
  BY DEF CaptureRuns, SignalComes, ReaderRuns, RecordVars
<1> QED BY <1>1, <1>2, <1>3, PTL DEF RecordSpec, TraceSpec
=============================================================================
