------------------------------ MODULE LogRounds ------------------------------
(***************************************************************************)
(* What the control center promises the drones: the log is replayed in     *)
(* phases, two per round.  Phase 2n-1 gives every drone its line of round  *)
(* n, phase 2n gives every drone the ranging message of round n.  Each     *)
(* drone reads the messages of the phases in order, one per phase, and a   *)
(* phase starts only when every drone that answers in the phase before has *)
(* read that one's message.  The sender of a round does not answer its own *)
(* ranging message, so it may lag by one.                                  *)
(***************************************************************************)
EXTENDS Integers

CONSTANTS
  Drones,
  Sender(_)    \* the drone that transmits in round n

VARIABLES
  phase,       \* the phase being delivered; 0 before the first
  done         \* by drone, the last phase whose message it has read

vars == <<phase, done>>

(* The drones that must have read the message of phase p before p + 1. *)
Due(p) == IF p > 0 /\ p % 2 = 0 THEN Drones \ {Sender(p \div 2)} ELSE Drones

Init ==
  /\ phase = 0
  /\ done = [d \in Drones |-> 0]

StartPhase ==
  /\ \A d \in Due(phase) : done[d] = phase
  /\ phase' = phase + 1
  /\ UNCHANGED done

ReadMessage(d) ==
  /\ done[d] < phase
  /\ done' = [done EXCEPT ![d] = @ + 1]
  /\ UNCHANGED phase

Next == StartPhase \/ \E d \in Drones : ReadMessage(d)

Spec == Init /\ [][Next]_vars
=============================================================================
