-------------------------- MODULE MCFlightLogFaults --------------------------
(* Three drones, with one or two rows. *)
EXTENDS FlightLogFaults

CONSTANTS d1, d2, d3

MCDrones == {d1, d2, d3}

OneRow == << [tx |-> d1, rx |-> <<d2, d3>>, heard |-> {d2, d3}] >>

TwoRows == OneRow \o << [tx |-> d3, rx |-> <<d1, d2>>, heard |-> {d1, d2}] >>
=============================================================================
