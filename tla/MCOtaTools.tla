----------------------------- MODULE MCOtaTools -----------------------------
(* An image of 225 bytes: a full chunk of four USB packets and a chunk of  *)
(* one byte; two START rounds of two transmissions each: ten transmissions *)
(* in all.  The ACK window is two full polls and a shorter one.            *)
(* The flasher may also find the image empty, of one chunk or of two full  *)
(* ones, or changed from one to another between its two looks.             *)
EXTENDS OtaTools
=============================================================================
