----------------------------- MODULE TickCounter ----------------------------
(***************************************************************************)
(* The tick count of a simulated drone (xTaskGetTickCount of support.c),   *)
(* which the classic ranging modes ask for after a TX or RX line has left  *)
(* its stamp in a global variable.  A call takes the stamp of a TX line    *)
(* first, then that of an RX line, and counts the wrap-arounds of each.    *)
(***************************************************************************)
EXTENDS DeviceClock, Sequences, FiniteSets

CONSTANTS
  TICK,        \* 2^24 in the code: ticks of the clock in a tick of the count
  LineSteps,   \* by how much the clock advances from line to line
  Unset,       \* what the uninitialised curTicks may hold
  MaxLines     \* bound: lines received

ASSUME TickAssumption ==
  /\ TICK \in Nat \ {0} /\ WRAP % TICK = 0
  /\ LineSteps \subseteq 0..(WRAP - 1)
  /\ Unset \subseteq Nat
  /\ MaxLines \in Nat

VARIABLES
  now,            \* history: the drone's clock
  stamped,        \* history: for the stamps, the clock they were taken from
  stamp,          \* TxTimestamp and RxTimestamp; 0 for none
  lastTimestamp,  \* lastTxTimestamp and lastRxTimestamp
  wraps,          \* TxCount and RxCount, of 16 bits
  used,           \* history: the clocks of the stamps that calls have taken
  result,         \* of the last call, and which stamp it took
  lines           \* history: lines received

ticking == <<now, lines, stamped, stamp, lastTimestamp, wraps, used, result>>

Lines == {"Tx", "Rx"}

TickInit ==
  /\ now = [cycle |-> 0, ticks |-> 0]
  /\ stamped = [l \in Lines |-> now]
  /\ stamp = [l \in Lines |-> 0]
  /\ lastTimestamp = [l \in Lines |-> 0]
  /\ wraps = [l \in Lines |-> 0]
  /\ used = [l \in Lines |-> <<>>]
  /\ result = [line |-> "none", ticks |-> 0]
  /\ lines = 0

(* receive_from_center of drone.c: a line overwrites the stamp before it.  *)
Line(l) ==
  /\ lines < MaxLines
  /\ lines' = lines + 1
  /\ \E step \in LineSteps :
       LET clock == Later(now, step)
       IN /\ now' = clock
          /\ stamp' = [stamp EXCEPT ![l] = clock.ticks]
          /\ stamped' = [stamped EXCEPT ![l] = clock]
  /\ UNCHANGED <<lastTimestamp, wraps, used, result>>

Count(l) == [result EXCEPT !.line = l,
                           !.ticks = wraps'[l] * (WRAP \div TICK) + stamp[l] \div TICK]

(* Mutant of Take: the stamp is compared with the one before it. *)
TakeNext(l) ==
  /\ lastTimestamp' = [lastTimestamp EXCEPT ![l] = stamp[l]]
  /\ wraps' = [wraps EXCEPT ![l] =
       IF stamp[l] < lastTimestamp[l] THEN (@ + 1) % 65536 ELSE @]
  /\ result' = Count(l)
  /\ used' = [used EXCEPT ![l] = Append(@, stamped[l])]
  /\ stamp' = [stamp EXCEPT ![l] = 0]

Take(l) ==
  /\ lastTimestamp' = [lastTimestamp EXCEPT ![l] = IF @ = 0 THEN stamp[l] ELSE @]
  /\ wraps' = [wraps EXCEPT ![l] =
       IF stamp[l] < lastTimestamp[l] THEN (@ + 1) % 65536 ELSE @]
  /\ result' = Count(l)
  /\ used' = [used EXCEPT ![l] = Append(@, stamped[l])]
  /\ stamp' = [stamp EXCEPT ![l] = 0]

xTaskGetTickCount ==
  /\ \/ stamp["Tx"] # 0 /\ Take("Tx")
     \/ stamp["Tx"] = 0 /\ stamp["Rx"] # 0 /\ Take("Rx")
     \/ /\ \A l \in Lines : stamp[l] = 0
        /\ result' \in [line : {"none"}, ticks : Unset]
        /\ UNCHANGED <<lastTimestamp, wraps, used, stamp>>
  /\ UNCHANGED <<now, lines, stamped>>

TickNext == xTaskGetTickCount \/ \E l \in Lines : Line(l)

TickSpec == TickInit /\ [][TickNext]_ticking

-----------------------------------------------------------------------------
(* Properties *)

FirstUsed(l) == used[l][1]
Current(l)   == used[l][Len(used[l])]

(* How often the count should have gone round, and how often a stamp was   *)
(* lower than the first one                                                *)
Rounds(l)  == Current(l).cycle - FirstUsed(l).cycle
LowStamps(l) == Cardinality({k \in 1..Len(used[l]) : used[l][k].ticks < FirstUsed(l).ticks})

(* No wrap-around goes by without a stamp below the first one. *)
NeverSilent(l) ==
  \A k \in 2..Len(used[l]) : Elapsed(used[l][k - 1], used[l][k]) <= FirstUsed(l).ticks

(* The ticks are those of the drone's clock as long as one stamp in each   *)
(* cycle is lower than the first one of all; each further low stamp puts   *)
(* the count a whole cycle ahead, and a cycle without one puts it back,    *)
(* which cannot be when lines come often enough.  Stamps of TX and RX      *)
(* lines do not disturb each other (lastTxTimestamp and lastRxTimestamp,   *)
(* which are set once).                                                    *)
TicksAhead ==
  \A l \in Lines : result.line = l =>
    LET exact == Rounds(l) * (WRAP \div TICK) + Current(l).ticks \div TICK
    IN /\ result.ticks = exact + (LowStamps(l) - Rounds(l)) * (WRAP \div TICK)
       /\ NeverSilent(l) => result.ticks >= exact
=============================================================================
