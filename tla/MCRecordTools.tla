--------------------------- MODULE MCRecordTools ----------------------------
(* For the capturing programs, up to three units of a torn frame and up to *)
(* two frames with payloads of up to two units; any of them may be a half  *)
(* of the magic, a small or an invalid length, and the torn frame may look *)
(* like metadata.  Frames may be equal, and have high bits in their        *)
(* stamps.  Transfers cut them anywhere, and may span two frames.          *)
EXTENDS RecordTools, MCTraceTools

Units == {48059, 0}

MCInputs ==
  LET torn   == {<<>>} \cup {<<u>> : u \in Units} \cup {<<u, v>> : u, v \in Units}
                  \cup {Magic \o <<2>>}
      frames == {Magic \o <<0, 1>>, Magic \o <<3, 0>>, Magic \o <<48059, 0>>,
                 Magic \o <<1, 0, 48059>>, Magic \o <<2, 1>> \o Magic}
      Followers == {Magic \o <<1, 0, 48059>>, Magic \o <<2, 1>> \o Magic}
  IN [torn : torn,
      frames : {<<>>} \cup {<<f>> : f \in frames} \cup {<<f, g>> : f \in frames, g \in Followers}]

(* A capture, a capture behind a command and before a plot, a command that *)
(* is only sent, a list, and two invocations that are refused              *)
MCInvocations ==
  LET plain == [list_devices |-> FALSE, device |-> FALSE, send_hex |-> "none",
                send_only |-> FALSE, plot |-> FALSE]
      aimed == [plain EXCEPT !.device = TRUE, !.send_hex = "valid"]
  IN {plain, [aimed EXCEPT !.plot = TRUE], [aimed EXCEPT !.send_only = TRUE],
      [plain EXCEPT !.list_devices = TRUE], [aimed EXCEPT !.send_hex = "invalid"],
      [aimed EXCEPT !.device = FALSE]}
=============================================================================
