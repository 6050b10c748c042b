------------------------------- MODULE OtaPlan ------------------------------
(***************************************************************************)
(* What an OTA broadcast promises to the air (ground_ota.c): the messages  *)
(* of one schedule, numbered from 1 -- the rounds of START, the chunks of  *)
(* the image, END, each repeated -- in the order of the schedule.  A       *)
(* message may be missing; none is out of order, twice, or another one.    *)
(***************************************************************************)
EXTENDS Integers, Sequences

CONSTANTS
  Rounds,      \* START rounds
  Chunks,      \* DATA chunks of the image
  Repeats      \* transmissions of each round, chunk and END

VARIABLE sent  \* the messages transmitted so far

Total == (Rounds + Chunks + 1) * Repeats

(* The i-th message; START and END carry the chunk index 0. *)
Message(i) ==
  LET n == (i - 1) \div Repeats IN
  [sequence |-> i,
   kind     |-> CASE n < Rounds                        -> "START"
                  [] n \in Rounds..(Rounds+Chunks-1)   -> "DATA"
                  [] OTHER                             -> "END",
   index    |-> IF n \in Rounds..(Rounds+Chunks-1) THEN n - Rounds ELSE 0]

Last == IF sent = <<>> THEN 0 ELSE sent[Len(sent)].sequence

Init == sent = <<>>

Transmit(i) == sent' = Append(sent, Message(i))

Next == \E i \in (Last + 1)..Total : Transmit(i)

Spec == Init /\ [][Next]_sent
=============================================================================
