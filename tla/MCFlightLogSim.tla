--------------------------- MODULE MCFlightLogSim ---------------------------
(* Three drones, receivers in ascending order of address as data_process.py *)
(* writes them, and seven rows of which a rate of 2 plays 1, 2, 3 and 7 and *)
(* a drone loads the first six.  d3 sends twice in a row; receivers without *)
(* a reception time occur in the middle and at the end.                     *)
EXTENDS FlightLogSim

CONSTANTS d1, d2, d3

MCDrones == {d1, d2, d3}

From(d, heard) ==
  [tx |-> d,
   rx |-> CASE d = d1 -> <<d2, d3>> [] d = d2 -> <<d1, d3>> [] d = d3 -> <<d1, d2>>,
   heard |-> heard]

MCLog ==
  << From(d2, {d1, d3}), From(d1, {d2, d3}), From(d3, {d1}),
     From(d1, {d2}), From(d2, {d1}), From(d3, {d1, d2}),
     From(d3, {d1}) >>

(* RowOf counts through exactly the rows that the filter of the code keeps. *)
ASSUME {RowOf(n) : n \in {k \in 1..Len(MCLog) : HasRow(k)}}
         = {r \in 1..Len(MCLog) : ((r - 1) \div NODES_NUM) % RANGING_PERIOD_RATE = 0}
=============================================================================
