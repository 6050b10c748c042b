---------------------------- MODULE SnifferStream ---------------------------
(***************************************************************************)
(* What the sniffer delivers to a program that captures it: the rest of a  *)
(* frame that was under way, and whole frames after it; and the flag of    *)
(* the program's signal handler.                                           *)
(***************************************************************************)
EXTENDS BinaryLog, SequencesExt

CONSTANT Inputs   \* what the device may deliver: [torn, frames]

VARIABLES
  input,        \* history: the rest of a frame, and whole frames after it
  running       \* keep_running, which the handler of a signal clears

Delivery(i) == i.torn \o FlattenSeq(i.frames)

(* A frame is a magic, a length, a stamp and, unless the length is out of  *)
(* range, as many units of payload.                                        *)
IsFrame(f) ==
  /\ f \in Seq(Nat)
  /\ META_SIZE <= Len(f)
  /\ MagicAt(f, 0)
  /\ f[LENGTH] <= MAX_MESSAGE_SIZE => Len(f) = META_SIZE + f[LENGTH]

ASSUME InputsAssumption ==
  \A i \in Inputs :
    /\ i.torn \in Seq(Nat)
    /\ i.frames \in Seq(Seq(Nat))
    /\ \A k \in 1..Len(i.frames) : IsFrame(i.frames[k])

Least(a, b) == IF a < b THEN a ELSE b

(* The torn frame holds no magic, and every length is in range. *)
CleanInput ==
  /\ \A o \in 0..(Len(input.torn) - 1) : ~MagicAt(Delivery(input), o)
  /\ \A k \in 1..Len(input.frames) : input.frames[k][LENGTH] <= MAX_MESSAGE_SIZE
=============================================================================
