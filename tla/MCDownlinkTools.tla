--------------------------- MODULE MCDownlinkTools --------------------------
(* Three commands in any number of runs of either tool: one that fails or  *)
(* is stopped, one that takes its late ACK or is swallowed by it, and a    *)
(* third one after that.  A message of pc_to_uwb has no payload or two     *)
(* packets of it.                                                          *)
EXTENDS DownlinkTools
=============================================================================
