----------------------------- MODULE DeviceClock ----------------------------
(***************************************************************************)
(* The clock of a UWB radio, which stamps what it sends and receives: it   *)
(* counts ticks and wraps around.  A reading is the cycle it is in, which  *)
(* nobody sees, and the ticks within the cycle, which are the stamp.       *)
(***************************************************************************)
EXTENDS Integers

CONSTANT WRAP   \* UWB_MAX_TIMESTAMP, 2^40 in the code

ASSUME ClockAssumption == WRAP \in Nat \ {0}

Clocks == [cycle : Int, ticks : 0..(WRAP - 1)]

(* The clock after a step of fewer ticks than a cycle, in either direction *)
Later(c, step) ==
  LET ticks == c.ticks + step
  IN CASE ticks >= WRAP           -> [cycle |-> c.cycle + 1, ticks |-> ticks - WRAP]
       [] ticks \in 0..(WRAP - 1) -> [cycle |-> c.cycle, ticks |-> ticks]
       [] ticks < 0               -> [cycle |-> c.cycle - 1, ticks |-> ticks + WRAP]

(* The true time from one reading to another *)
Elapsed(c, d) == (d.cycle - c.cycle) * WRAP + d.ticks - c.ticks
=============================================================================
