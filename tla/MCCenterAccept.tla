--------------------------- MODULE MCCenterAccept ---------------------------
(* The connection phase with named drones. *)
EXTENDS CenterAccept

CONSTANTS d1, d2, d3
=============================================================================
