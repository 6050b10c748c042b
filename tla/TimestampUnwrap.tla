--------------------------- MODULE TimestampUnwrap --------------------------
(***************************************************************************)
(* The time line of a capture (analyze_records of                          *)
(* analyze_sniffer_binary.py), one record per step.  The receiver stamps   *)
(* records with a clock that wraps; only its low bits are in a record, the *)
(* bits above are whatever the firmware left there.  Records mostly come   *)
(* in the order of their stamps, but a capture may also hold an earlier    *)
(* one behind a later one.                                                 *)
(***************************************************************************)
EXTENDS DeviceClock, Sequences, FiniteSets

CONSTANTS
  Sources,      \* source_id of the senders
  Steps,        \* by how much the clock of the next record differs
  HighBits,     \* what may stand above the bits of the clock
  MaxRecords    \* bound: records in a capture

ASSUME UnwrapAssumption ==
  /\ Steps \subseteq (1 - WRAP)..(WRAP - 1)
  /\ HighBits \subseteq Nat
  /\ MaxRecords \in Nat

VARIABLES
  clock,        \* history: the receiver's clock at the last record
  wrap_count,
  analyzed      \* the records so far, with the true clock of each

unwrap == <<clock, wrap_count, analyzed>>

UnwrapInit ==
  /\ clock = [cycle |-> 0, ticks |-> 0]
  /\ wrap_count = 0
  /\ analyzed = <<>>

Previous == analyzed[Len(analyzed)]

Masked(rx_timestamp_ticks) == rx_timestamp_ticks % WRAP

(* Mutant of Wrapped: two equal stamps count. *)
WrappedOrEqual(current) == analyzed # <<>> /\ current <= Previous.ticks

(* Any decrease counts, however small: see SmallDecreaseIsNoWrap. *)
Wrapped(current) == analyzed # <<>> /\ current < Previous.ticks

(* History: how often the true time has gone back, up to a record *)
Setbacks(c) ==
  IF analyzed = <<>> THEN 0
  ELSE Previous.setbacks + IF Elapsed(Previous.clock, c) < 0 THEN 1 ELSE 0

(* A record and its pass of the loop *)
Analyze ==
  /\ Len(analyzed) < MaxRecords
  /\ \E source \in Sources, high \in HighBits, step \in Steps :
       LET c       == Later(clock, step)
           current == Masked(c.ticks + high * WRAP)
           count  == IF Wrapped(current) THEN wrap_count + 1 ELSE wrap_count
       IN /\ clock' = c
          /\ wrap_count' = count
          /\ analyzed' = Append(analyzed,
               [source |-> source, clock |-> c, setbacks |-> Setbacks(c),
                ticks |-> current, continuous |-> current + count * WRAP])

UnwrapSpec == UnwrapInit /\ [][Analyze]_unwrap

-----------------------------------------------------------------------------
(* rx_time_ms and delta_ms, in ticks *)

rx_time(k) == analyzed[k].continuous - analyzed[1].continuous

(* The records of a source before another one, when its group is sorted by *)
(* time; sorted() keeps records with equal times in order of arrival.      *)
Before(k) ==
  {i \in 1..Len(analyzed) :
     /\ analyzed[i].source = analyzed[k].source
     /\ \/ analyzed[i].continuous < analyzed[k].continuous
        \/ analyzed[i].continuous = analyzed[k].continuous /\ i < k}

(* The record it is compared with; none for the first of a source *)
Predecessor(k) ==
  {i \in Before(k) : \A j \in Before(k) :
     \/ analyzed[j].continuous < analyzed[i].continuous
     \/ analyzed[j].continuous = analyzed[i].continuous /\ j <= i}

delta(k) == {analyzed[k].continuous - analyzed[i].continuous : i \in Predecessor(k)}

-----------------------------------------------------------------------------
(* Properties *)

(* The time of a record is the true time since the first one, also when    *)
(* the clock has wrapped in a gap of nearly a cycle; a record that is out  *)
(* of order puts itself and all later ones one cycle ahead, neither more   *)
(* nor less.  The interval before a record is the one since the arrival of *)
(* its source's last record, although the group is sorted by time, and     *)
(* without setbacks in between it is the true one (wrap_count and          *)
(* delta_by_arrival in analyze_records).                                   *)
TimeLineExact ==
  \A k \in 1..Len(analyzed) :
    LET earlier == {i \in 1..(k - 1) : analyzed[i].source = analyzed[k].source}
    IN /\ rx_time(k) = Elapsed(analyzed[1].clock, analyzed[k].clock)
                         + analyzed[k].setbacks * WRAP
       /\ earlier = {} => delta(k) = {}
       /\ \A i \in earlier :
            (\A j \in earlier : j <= i) /\ analyzed[i].setbacks = analyzed[k].setbacks
              => delta(k) = {Elapsed(analyzed[i].clock, analyzed[k].clock)}

(* A record whose stamp is less than the one before by at most half a      *)
(* cycle is out of order, not behind a wrap-around                         *)
(* (Docs/binary_sniffer_phase_implementation.md:106, the threshold 2^39 of *)
(* 2^40; Docs/real_sniffer_validation_20260711_115415.md:82).              *)
SmallDecreaseIsNoWrap ==
  \A k \in 2..Len(analyzed) :
    LET decrease == analyzed[k - 1].ticks - analyzed[k].ticks
    IN decrease \in 1..(WRAP \div 2) =>
         analyzed[k].continuous < analyzed[k - 1].continuous
=============================================================================
