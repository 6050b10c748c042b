-------------------------- MODULE MCTwowayTransport -------------------------
(* Two messages; packets that may hold an ACK between two pieces; and a    *)
(* buffer for one incomplete frame and one packet, the proportion that     *)
(* 8192 bytes leave in the code.                                           *)
EXTENDS TwowayTransport

ASSUME StreamLimit = MAX_PIECES - 1 + PacketUnits

(* A torn frame, metadata with an invalid length, and right behind it a    *)
(* frame of two pieces; a frame whose payload holds metadata, and another  *)
(* one; a torn frame that looks like a frame and swallows the next one.    *)
MCTraffic == {
  [claims |-> <<0, MAX_PIECES + 1, 2, 0, 2>>, frames |-> <<3, 5>>],
  [claims |-> <<3, 2, 0, 2, 0>>, frames |-> <<1, 4>>],
  [claims |-> <<2, 2, MAX_PIECES + 1, 0>>, frames |-> <<2>>]}
=============================================================================
