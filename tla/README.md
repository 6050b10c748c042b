# Formal models of Sniffer-ground-station

TLA+ specifications of the repository in `src/`, TLC configurations that check
them on small instances, and TLAPS proofs of properties that hold for every
instance.

## 1. The system

The repository has two halves that meet only in files.

*The swarm simulation* (C, run on one host). `center.c`, the control center,
waits for `NODES_NUM` drone processes (`drone.c`), then replays the flight log
`data/simulation_dep.csv` to them. A row names a sender with its TX time and the
receivers with their RX times. `script/data_process.py` makes that file from a
trace of the sniffer.

*The ground station tools* (C and Python). They talk over USB to a Crazyflie that
sniffs the UWB channel and injects messages: capture (`sniffer_storage.c`,
`sniffer_capture.c`, and `ground_control_windows.c` on Windows), capture and sending at
once (`twoway_transport.c`), single messages (`pc_to_uwb.c`), terminal commands
(`ground_admin.c`), firmware broadcast (`ground_ota.c`; `ota_flasher.c` prints the same
messages). `analyze_sniffer_binary.py` makes a time line of what was captured.

| Component | State | Operations | Talks to |
|---|---|---|---|
| center, connection phase | node table and its mutex | accept, create handler, register, failed handshake, disconnect, start of the log | drones by TCP; `main` and the handlers share the mutex |
| center, replay | three semaphores, response counter, node table | log thread: take a row, wait for responses, send TX and RX lines, hand over; handler: route a ranging message, count a response, remove its drone | drones by TCP; threads share semaphores and, without a lock, the table |
| drone | RX time of the current row, row cursor, ranging tables | TX line, RX line, ranging message, loss, exit | center by TCP |
| two-way transport | ACK flag and condition variable, stream buffer | receive thread, sender | libusb, log file |
| capture | staging buffer, record in hand, output file, statistics | open the device, send a command, read meta, read payload, write, plot, close | libusb |
| device access | what libusb holds for the process, what the program remembers of it | open, list, close | libusb |
| admin, pc_to_uwb, OTA | sequence number, endpoint | send in packets, wait for the local ACK, repeat | the relay by libusb |
| OTA flasher | image file, chunk index | read size and CRC, print the messages | files |
| preprocessing, analysis | addresses found, ring of slots, wrap count | find the drones, reassemble late timestamps, unwrap | files |
| tick counter | last stamps, wrap counts | count ticks | the drone's TX and RX lines |

What is hard in it:

* The replay is a pipeline of one log thread, `NODES_NUM` handlers and
  `NODES_NUM` drones kept in lock-step by three semaphores posted by threads
  other than those that wait for them. One post too early and a drone uses the
  reception time of another row; one too few and everything stops.
* Drones may end at any moment. The handler then shifts the node table under a
  mutex which the loops that read the table do not take.
* The mutex of the table is locked by `main` for a thread that does not exist
  yet and unlocked by that thread.
* The ACKs of the USB tools carry no sequence number; the streams are cut in
  packets at any byte. What one run of a tool leaves at the relay, an unread ACK or half a
  message, meets the next run, of that tool or another.
* A signal comes between any two steps of opening, sending and capturing; each step may
  fail, and what was taken until then must be given back.
* A sniffed record tells the times of earlier messages. They wait for one another in a ring
  whose slots are not always cleaned up; the clock that gives them wraps around.

What makes each component correct: for the connection phase, a table that is
exact, never overflows, and a log that starts when everybody is there; for the
replay, rounds in lock-step, every message delivered once and in order, an end;
for the drone, the reception time of a message is that of its row and the cursor
never passes a row to come; for the transports, an ACK reported for a message
is that message's, frames are found again after a loss; for the capturing programs, a
file that reads back as what was received, an exit status that tells the truth, nothing left
open; for the readers of traces, rows, times and ticks that are those of the messages,
or off by exactly what the code's shortcuts cost.

PROJECT.json lists the hazards at their lines, each with the properties that
would catch it going wrong.

## 2. Modules

| Module | Models | Composes |
|---|---|---|
| `LogRounds` | what the center promises: a log replayed in phases, two per round | |
| `FlightLogSim` | `center.c` from the start of the log on, and `drone.c` | implements `LogRounds` |
| `FlightLogFaults` | the same with drones that end, removal from the table, `main` returning | extends `FlightLogSim` |
| `CenterAccept` | `center.c` until the log starts | hands a full table to `FlightLogSim` |
| `FlightLogSimProofs` | theorems about both | extends `FlightLogFaults` |
| `CenterAcceptProofs` | theorems | extends `CenterAccept` |
| `RelayLink` | the relay behind the USB endpoints, as the tools use it (external) | |
| `RelayLinkProofs` | the lemmas about the relay that the three modules with theorems below share | extends `RelayLink` |
| `OtaPlan` | what an OTA broadcast promises to the air | |
| `OtaImage` | the arithmetic of `ground_ota.c`: rounds, chunks, packets | |
| `GroundOta` | `ground_ota.c` | extends `OtaImage`, `RelayLink`; implements `OtaPlan` |
| `OtaFlasher` | `ota_flasher.c` | extends `OtaImage` |
| `OtaTools` | one of the two OTA programs | extends `GroundOta`, `OtaFlasher` |
| `GroundOtaProofs` | theorems about both | extends `OtaTools`, `RelayLinkProofs` |
| `Downlink` | what an operator knows of the commands sent | extends `RelayLink` |
| `GroundAdmin` | `ground_admin.c` | extends `Downlink` |
| `PcToUwb` | `pc_to_uwb.c` | extends `Downlink` |
| `DownlinkTools` | runs of both, one after another at one relay, that may be killed | extends `GroundAdmin`, `PcToUwb` |
| `DownlinkToolsProofs` | theorems | extends `DownlinkTools`, `RelayLinkProofs` |
| `TwowayTransport` | `twoway_transport.c` | extends `RelayLink` |
| `TwowayTransportProofs` | theorems | extends `TwowayTransport`, `RelayLinkProofs` |
| `BinaryLog` | the log file and `parse_binary` of `analyze_sniffer_binary.py` | |
| `SnifferStream` | what the device delivers; the flag of the signal handler | extends `BinaryLog` |
| `SnifferCapture` | `sniffer_capture.c` over `sniffer_buffered_transport.c` | extends `SnifferStream` |
| `LibusbTransport` | `libusb_transport.c`: open, list, close | |
| `SnifferStorage` | `main` of `sniffer_storage.c`, `sniffer_transport_write_all` | extends `SnifferCapture`, `LibusbTransport` |
| `GroundControlWindows` | `ground_control_windows.c` | extends `SnifferStream`, `LibusbTransport` |
| `CaptureTools` | one of the two capturing programs | extends `SnifferStorage`, `GroundControlWindows` |
| `CaptureToolsProofs` | theorems | extends `CaptureTools` |
| `DeviceClock` | the radio's clock, which wraps (external) | |
| `TimestampUnwrap` | `analyze_records` of `analyze_sniffer_binary.py` | extends `DeviceClock` |
| `TickCounter` | `xTaskGetTickCount` of `support.c` | extends `DeviceClock` |
| `TraceRing` | `data_process.py` | |
| `TraceTools` | one of the three | extends `TraceRing`, `TimestampUnwrap`, `TickCounter` |
| `RecordTools` | what records traces or what reads them, one program at a time | extends `CaptureTools`, `TraceTools` |
| `TraceToolsProofs` | theorems about `TraceTools`; what `RecordTools` has of both | extends `RecordTools` |
| `MC...` | instances for TLC | |

### FlightLogSim

Log thread: `log_pc` is the place in `broadcast_flightLog`. `TakeAllocation` and
`TakeResponse` are the two `sem_wait`s, `ScanEntry`, `SendTask`, `NextTask` the
loops over the table for the TX and RX lines, `PostBroadcast` the `sem_post`,
`FinishLog` the `exit`. Handler of drone *d*: `pc[d]`; `ReceiveRanging`,
`TakeBroadcast`, `TakeResponseToRoute`, `RouteEntry`, `PostAllocation` are the
branch for a ranging message, `ReceiveResponse` the one for a response. Drone:
`TxCallBack`, `TakeRxTimestamp`, `Ignore`, `DropRanging`, `ProcessRanging` are the
cases of `receive_from_center`, `DroneExit` its end.

`Log` is the file as far as the center replays it, which is up to a blank line that the
filter keeps (center.c:94-96). `RowOf(n)` is the row played n-th; it stands for the loop over the file with the
rate filter, and `MCFlightLogSim` assumes (TLC evaluates it) that it counts through
exactly the rows the filter keeps. A drone loads the first `MAX_ROWS` rows only (7000 in the code,
drone.c:18, 52), so its cursor ranges over `total_rows`; the center plays the rows behind
them as well. For those no row is found, and the cursor goes past the end. Lines are taken to
fit their buffers (`MAX_LINE_LEN`). Reception times are abstracted to the number of the row, 0 where
the trace has none: that is all the properties tell apart, and a look-up by time
is a look-up of the row. A drone that was not named in a row's columns does not
occur: `data_process.py` lists every other drone in every row.

Granularity. A step ends at each semaphore operation, socket operation and,
in the loops over the table, each iteration; in `FlightLogFaults` the copy of one
entry is a step, and the log thread reads an entry's address and its socket in
two steps, since both are read without the lock. The section under
`response_mutex` touches nothing outside it but `response_sem` and is one step. In
the handler the entry's socket is read and used in one step.

Modelled by what it does: a socket is a FIFO of messages. `recv` is called with the
size of one structure and its result is only compared with 0, so the code relies
on a structure arriving whole; so does the model. The two global times of
a drone are one variable: `TxTimestamp` is set and reset to 0 within `TxCallBack`.
The ranging tables belong to the `AdHocUWB` submodule, which is not in the
repository; nothing of the simulation reads them. `send` to a process that is gone
fails or kills the sender by SIGPIPE (no `MSG_NOSIGNAL`): both outcomes are
allowed. The build modelled is the one `support.h` selects, `DYNAMIC_RANGING`
(MODIFIED mode) with `REAL_TIME_ENABLE`; there the reception time is reset by
`RxCallBack`.

`received` is a history variable. It counts the messages a drone has read and
occurs in no guard.

### FlightLogFaults

`Crash` ends a drone and loses what its socket holds. Its handler first reads what the
drone had still sent, then `EndOfStream`, `LockTable`, `ShiftEntry` (once per
entry), `ClearLast`, `DropLast` are center.c:203-223. `MainReturns` is
the busy wait of `main`: the read of `count` is unsynchronised and may be
hoisted out of the loop by the compiler, hence the step may happen and need not.

### CenterAccept

A connection is a pair of a drone and an attempt. `main` accepts, locks the mutex,
creates the handler and locks again; `Register` unlocks. The code locks a mutex in
one thread and unlocks it in another, which POSIX leaves undefined for the default
type; with the NPTL of Linux, where the simulation runs, the unlock succeeds, and
that is what is modelled. `HandshakeFails` and `CreateFails` leave the
mutex locked, as the code does: `main` then waits for ever. `StartLog` ends in `"absent"` where the log thread returns because
its file cannot be opened or has no header (center.c:66-78). `MaxAttempts` bounds
the connections of one drone. `listen` has a backlog of `NODES_NUM`.

### RelayLink

The firmware is not in the repository; the comment of ground_admin.c:666-670 says
what the tools rely on: metadata first, the packets behind it are its payload.
`out` and `in` are the endpoints, `head` and `body` the message being assembled,
`air` the history of what was transmitted and `delivered` that of the
messages which went out as they were composed, metadata with its own payload (the part of `air` that the properties
compare; a variable of its own, which each step extends, rather than a filter over `air`).
The relay starts in any state an earlier run may
have left: up to `StaleAcks` unread ACKs and a message that misses up to `StaleParts`
packets. It may stop at any point. `Written` is a transfer that succeeds; `WriteFailed` one that
is reported as failed or short, which the relay may have got or not.

### GroundOta, OtaImage, OtaPlan

`phase`, `index`, `repeat` and `sequence` are the nested loops of `main`,
`broadcastImage` and `sendRepeated`; `step` and `part` the place in `sendOtaPayload`;
`elapsed` the account of `waitForLocalTxAck`, which charges a whole poll interval
for every packet it reads. `SentOne` is what the loops do after a
transmission, `Abort` the chain of `return false`. `PromptForPath` and `Confirm` wait for a line on stdin; they are
the operator's steps, not the program's, and `ReadImage` is what follows the path. A message stands for its sequence number, kind and
chunk index; the bytes are left out, their number and the number of packets are
not (`OtaImage`). `OtaPlan` is the schedule as a function of the number of the message; `ImplementsPlan`
maps `sent` to the messages that went on the air whole.

### OtaFlasher, OtaTools

`ota_flasher.c` opens the image twice: `PrintStart` is the pass for size and CRC,
`Reopen` may find an image of another size (`ImageSizes`), `PrintData` is a pass of the loop over chunks, `PrintEnd`
what follows it. `fread` fails at most once after it has read something. A printed message
is its kind, the 16-bit index of its header and its payload length; the header of START and
END holds index 0. `OtaTools` lets either program run. `Schedule` in `FlasherAgrees` is `OtaPlan`'s schedule without
repetitions, which ties the two programs together.

### Downlink, GroundAdmin, PcToUwb, DownlinkTools

`GroundAdmin` makes the same transfers as `GroundOta` with the sequence number kept by the caller: `Return` is
the end of `sendAdminCommand` and what `runOneCommand` or `runInteractive` does with its result. All commands are
alike. `PcToUwb` is one message with none, one or more payload packets; its wait reads `maxAttempts` packets at most and
ends with the first read that fails. `DownlinkTools` is an operator who starts one tool after
another. Neither handles SIGINT, so `Kill` ends a run between any two steps; the system then takes the
interface back, but what the relay and its endpoints hold stays. `reported` is a history variable:
which commands were reported as sent, after which kind of wait, in which run. `MaxCommands` bounds the
commands of all runs together.

### TwowayTransport

The main thread (`main_pc`) and the receive thread (`rx_pc`) share `ackReceived` under
a mutex and `keep_running` without one (it is `volatile sig_atomic_t` and only ever cleared).
`wait_ack_ms` holds the mutex except while it sleeps, so a pass of its loop is a step
(`WaitAck`); `Wake` stands for a signal and a spurious wake-up alike; `WaitTimeout`
returns without another look at the flag. A USB packet holds pieces of sniffed frames and
ACKs; the receive thread takes it apart
(`DispatchAck`; `DispatchBytes` takes all that comes before the next ACK), and `Parse...` are the passes of
`parse_sniffer_stream`. What is overheard is a sequence of pieces, each with a *claim*: 0 where no magic begins, otherwise
the number of pieces that the metadata there announces. `TrafficAssumption` asks no more than that a
claim covers the metadata; any piece may claim anything, in a payload and in a torn frame too. A claim
above `MAX_PIECES` is a length out of range (twoway_transport.c:281-287): `ParseInvalid` skips the first byte of the magic and
looks for the next one from there. For `t.frames` see `CleanTraffic`: there nothing between the frames
looks like a frame, though metadata with invalid lengths may stand there, and the log is then exactly the frames. Of any
other traffic `LogExact` still says that what is logged was overheard, in one piece and once. A sent message has no payload
packet or one. That a payload could hold the bytes of an ACK is left out.

### SnifferStream, SnifferCapture, BinaryLog

Here a unit is two bytes, so that the magic has two units, may overlap itself
with payload, and the sliding window has something to slide over. `raw` is the record in hand; `Length`
is how much of it the loop asks for at `pc`; `Read` is a pass of `read_exact` with whatever
`buffered_read` returns: part of what is staged, or of a new transfer, which may bring
data with a timeout or an error. The tests use a transport that ends (`EOF`);
`usb_read` never reports that. Timeouts are not counted; `truncated` is
`truncated_meta + truncated_payload`. `parse_binary` uses the same length limit as the capture, as
the defaults of both programs do (4096). Behind the length a record has a unit for sender, number and reception time
(`STAMP`); from `STAMPS` on it has bits above the 40 of the clock. `parse_binary` reports six kinds of errors. Four of them mean that the
file does not hold one record behind the other, and `FileReparses` says that a capture gives none of
these. The other two, `duplicate_record` and `timestamp_high_bits`, are about what the device sent: they may occur in a
valid capture (tests/test_analyze_sniffer_binary.py:79-84 expects both, and
Docs/real_sniffer_validation_20260711_115415.md:61 counts seven of the second kind). `Doubts` models when they are reported, the runs
deliver equal frames and frames with high bits, and the properties allow these two kinds and no other.

### LibusbTransport, SnifferStorage, GroundControlWindows, CaptureTools

`at` is the place in `main`; each call that may fail is a step. `held` is what libusb and
stdio really hold for the process, `transport` what the program remembers, from which `Close` works out what to
give back; `NothingLeaked` compares the two. `SnifferStorage` parses its options (the
outcomes, not the syntax), may send a command in transfers of any size (`Transfer`: data,
timeout, interruption, failure), runs the loop of `SnifferCapture` (`CaptureStep`), closes the file, may plot it
and cleans up. `GroundControlWindows` has its own reading loop: no staging buffer, a
window that slides by one unit, the payload in pieces of `MAX_TRANSFER_SIZE`, every piece written at
once; what its signal handler clears is the same flag. Its metadata is written before the payload, so a signal or an error leaves a record cut off.
A write may fail after any part of it; the buffering of stdio is left out.

### DeviceClock, TimestampUnwrap

A reading of the clock is a pair of the cycle, which nobody sees, and the ticks in it, which are the
stamp. `Analyze` is a pass of the loop of `analyze_records`: it masks the stamp (the bits
above the clock are arbitrary), compares it with the previous one and counts wraps. `Before`, `Predecessor` and `delta` are
the second half of the function, which sorts each source's records by time. Milliseconds are left out: the factor is
constant.

### TickCounter

TX and RX lines leave stamps (`Line`); `xTaskGetTickCount` takes one. Time goes on between lines by less than a cycle.
When there is no stamp the result is uninitialised, hence any of `Unset`. The first stamp of a kind is
kept for ever: `TicksAhead` says by how much the count is then off.

### TraceRing

The drones of `Swarm` send in turn, messages get lost, drones fall silent and come back, the sniffer misses
records: that is the environment, and `faults` bounds it. The script starts when the capture is over
(`Start`). `Search` is a pass of `get_drones_addr`: it reads `search_lines` records (50 in the code), and a
file that is shorter ends it with an IndexError; `addr_set` holds the addresses in the order in which they
were found. A drone that is silent so long is not among them. `ReadRecord` is a pass of the loop over the records. It fails where `addr_set`
is too short for the `DRONE_NUM - 1` receivers of a row (data_process.py:99-101; `Receivable`). Neither has to happen:
`DRONE_NUM` is what the script is told, and the swarm may be smaller or larger. `Stored` takes a slot, `Timed` delivers the times that the record
carries, `Due` and `Written` write the oldest `DRONE_NUM` slots, skip the ones without a TX time and clean up the
others. A time is represented by the message that it is the time of, so a time in the wrong row shows.
`ScriptOutcome`, a part of `RowsComplete`, says when the script fails and that it then has written nothing.
`entry` and `carried` are history: which record has the slot, and whether the slot had not been cleaned up.

## 3. Runs

| Run | Instance | Checks |
|---|---|---|
| `sim_rounds` | 3 drones, 7 rows of which 6 are loaded, rate 2, loss | `TypeOK`, `Barriers`, `DeliveredInOrder`, `StampMatchesMessage`, `CursorFindsRow`, `ImplementsRounds`, `SimulationEnds`, no deadlock |
| `sim_faults` | 3 drones, all may end, 1 row | `OnePhaseAtATime`, `TableConsistent`, `RemovalCompletes` |
| `accept` | 3 drones, 2 connections each, failures | `HandOver`, `TableExact`, `CompleteUnlessOneEnded`, `LogStarts` |
| `ota` | 225 bytes: chunks of 224 and 1; 2 START rounds, repeats of 2; ACK window of 2½ polls; images of 4 sizes for the flasher | `OtaTypeOK`, `NeverAhead`, `SuccessMeansDelivered`, `FlasherAgrees`, `ImplementsPlan`, `BroadcastEnds` |
| `admin` | 3 commands in up to 3 runs of two tools, ACK window of 1½ polls or 2 reads | `SentUnlessDisturbed`, `ReuseOnlyAfterFailure`, `SwallowedOnlyAfterFailure`, `PromptReturns` |
| `twoway` | 2 messages; 3 kinds of traffic of 4 or 5 pieces, with frames of up to 3; 3 pieces in a packet | `AckNotMissed`, `NoSurplusReceipt`, `LogExact`, `ShutdownCompletes` |
| `records` | capture: 8 torn frames, up to 2 of 5 frames, transfers of up to 4 units, limit of 1 record or none, 6 invocations; traces: 2 drones, 21 messages, 2 faults, search of 3 records, ring of 10; a clock of 4 ticks, 5 records of 2 sources, steps from -1 to 3; 5 lines | `CaptureTypeOK`, `BytesAccounted`, `FileReparses`, `NoFrameLost`, `NothingLeaked`, `SuccessMeansStored`, `GroundControlFile`, `ProgramEnds`, `RowsComplete`, `RowsExact`, `TimeLineExact`, `TicksAhead` |
| `sim_last_row` | as `sim_rounds` | violates `ExitAfterLastBroadcast` |
| `sim_removal_race` | 3 drones, 1 may end, 2 rows | violates `NoForeignStamp` |
| `sim_offline` | 3 drones, 2 may end, 2 rows | violates `OfflineDetected` |
| `accept_reconnect` | 2 drones, 2 connections each | violates `AllDronesConnected` |
| `trace_wrap` | the readers of `records` | violates `SmallDecreaseIsNoWrap` |

Bounds. Three drones are the least number for which a round has two receivers,
so that the response counter takes a value between its reset and its
threshold, the table has an entry between the first and the last, and a removal
may run while two others are in progress. Rate 2 with seven rows plays
rows 1, 2, 3 and 7: one full block, one skipped block and the start of a third; one drone
sends twice in a row; a receiver without reception time occurs in the middle and
at the end. The seventh row is played but not loaded. The faulty instance needs two rows only where a stale reception time is
at stake. Two connections per drone give every drone the chance to reconnect
while the entry of its first connection is still there. For the broadcaster, two rounds, two
chunks (one full, one short, so one message of four packets and messages of one) and two repetitions make every
loop end a pass and start another; the ACK window is cut short by its last poll. An OUT endpoint of two
packets lets the host run ahead of the relay by a message. Three commands are one that fails, one that takes its late ACK or is
swallowed by it, and one after that. In the two-way transport `StreamLimit` keeps
the proportion of the code: the buffer (8192 bytes) holds an incomplete frame (at most 4112 bytes) and a packet
(64). Its three kinds of traffic are a torn frame and metadata with an invalid length in front of frames, a frame whose payload
looks like metadata, and a torn frame that looks like a whole one and swallows the next. The staging buffer of four
units holds a frame and the start of the next; the torn frames include one that looks
like metadata and swallows what follows. For the readers of traces the ring is filled twice, so that
slots that were not cleaned up are used again; two drones are what `DRONE_NUM` is in the script. The search for addresses covers a turn and a record more, so that
each drone can be silent throughout it, and the file may end before it does. Two faults silence a drone and bring it back, or
lose two messages; 21 messages fill the ring twice and read one record more. A clock of
four ticks has steps that wrap by more and by less than half a cycle, and a step back. Pieces of one unit
cut a payload of two in the Windows program.

Fairness. Each thread is weakly fair. Strong fairness is not needed for the
semaphores: while one thread waits for a semaphore with a positive value, no other
thread can take it, because `OnePhaseAtATime` leaves a single candidate. Nothing
forces a drone to end, and `MainReturns` is not fair. `sim_faults` assumes fairness of the
leaving handlers only (`RemovalSpec`): with a fair log thread the end of the log would
end the process, and `RemovalCompletes` would hold whatever the handlers do. `BroadcastEnds` is
about `WF` on `Host`, which leaves out the two prompts of `ground_ota.c`, the path and the confirmation
(ground_ota.c:1079-1094): the operator may leave them unanswered, and the property says that the broadcaster ends or stands there. In `CenterAccept`, `main` and
the handlers are fair, and every drone connects and sends its address unless it
ends first. The USB tools run on (`WF` on their steps); the relay, the operator and the signal
need not do anything, which is the point of `BroadcastEnds`, `PromptReturns`, `ShutdownCompletes` and `ProgramEnds`. A
transfer ends at the latest with its timeout, which is why a step of a program is always possible.
In the two-way transport `WaitTimeout` is strongly fair: its deadline is absolute, so
spurious wake-ups, which start the wait again, do not put it off.

Deadlock is checked in `sim_rounds` (the end of all processes stutters). It is not
checked in the other runs: with drones that end, or threads that return
with the mutex locked, the center really does stop.

What the five violations show.

* `sim_last_row`. `broadcast_flightLog` calls `exit` (center.c:158) when the file is
  exhausted, without waiting for `allocation_sem`. The ranging message of the last
  row is not re-broadcast, although README.md:132 describes that for every row.
* `sim_removal_race`. A removal shifts the table (center.c:211-213) while a loop is
  running over it (README.md:157: "avoiding data races"). In the run d3 ends, and its removal turns `<<d3, d1, d2>>` into
  `<<d1, d1, d2>>` and then into `<<d1, d2, d2>>` while the log thread goes through the table. The loop at line 112 meets d1, the
  sender of row 1, twice and sends it the TX line twice; the loop at line 136 meets d2 twice and sends it the RX line twice. d1 makes
  two ranging messages. The first is routed and d2 processes it with the time of row 1; the two answers of d2 to its two lines count for two receivers.
  The second message waits in d1's socket until the phase of row 2, whose sender d3 is gone; it is routed
  as if it were the message of row 2, and d2, whose `RxTimestamp` is that of row 2 by then, processes it with that time.
* `sim_offline`. A handler that waits in `sem_wait` never gets back to `recv`; with the
  answers of an ended drone missing, it waits for ever and its own drone is
  never seen to go offline (README.md:154).
* `accept_reconnect`. A drone that ends and reconnects is counted twice until its old
  handler gets the mutex; the log starts without another drone (the comment of
  center.c:285).
* `trace_wrap`. Docs/binary_sniffer_phase_implementation.md:106 gives a threshold of 2^39 for a wrap-around, and
  Docs/real_sniffer_validation_20260711_115415.md:82 calls it correct that a smaller decrease is none.
  `analyze_records` counts every decrease (analyze_sniffer_binary.py:136); in the run a record is one tick behind the one before and is put one
  cycle ahead. `TimeLineExact` says what that costs the records behind it.

Disagreements that no run shows. Docs/sniffer_storage_macos_usage.md:425 takes the
line "Received downlink ACK from CF firmware" as proof that the relay has transmitted; ACKs name no message and
`reset_ack_wait` runs before the transfers, so the ACK of a message whose wait timed out ends the wait
of the next one (twoway_transport.c:149). `NoSurplusReceipt` and `SentUnlessDisturbed` are what remains true.
README.md:74 calls the rows that `data_process.py` counts "valid records (with complete Tx/Rx timestamps)"; it
looks at the TX time only (data_process.py:128) and writes 0 for an RX time that is missing.
`RowsComplete` therefore has a row for every record whose TX time is reported, and `RowsExact` says which RX times are in it.

## 4. Proofs

Every theorem holds for every value of the constants that satisfies the named assumptions.
Where a property is not inductive, the proof module states the invariant that is, as a
conjunction of named parts, shows that it holds initially and that every action keeps it (a lemma per action),
and that it implies the property. Every invariant, action property and refinement that a passing run checks is stated
by a theorem.

Five properties compare a state with what a recursive function computes: the parse of a file (`ParseFrom`), a
concatenation of frames (`FlattenSeq`), the rows that a pass over the ring writes (`Output`), the schedule without
repetitions (`Schedule`). The library's induction theorems take an operator as parameter, which the provers
cannot instantiate. Three proof modules therefore argue with the least
counterexample: `LeastNumber` says that a set of numbers that is not empty has a least element (from
`NatLessThanWellFounded` and `WFMin`), and the set is that of the arguments for which the claim fails. That the function
exists at all, so that its `CHOOSE` satisfies its equation, comes first (`FlatDefined`, `OutputDefined`,
`ScheduleIs`).

### FlightLogSimProofs

* `TypeCorrect` (`TypeOK`) is inductive as it stands.
* `PhasesExclusive` (`OnePhaseAtATime`). The invariant follows the token that is `allocation_sem`, then
  the log thread, then `broadcast_sem`, then one handler. It is inductive with `TypeOK`.
* `PhasesInStep` (`Barriers`), `Delivery` (`DeliveredInOrder`), `StampsMatch` (`StampMatchesMessage`), `CursorOnRow`
  (`CursorFindsRow`) and `RoundsImplemented` (`ImplementsRounds`: each step is one of `LogRounds` or a stutter) rest on
  `RoundsInvariant`. A barrier opens on a count, and the count says nothing of which drones
  have answered. The invariant therefore says of every drone how many messages it has been sent (`SentInv`), which ones they
  are (`ContentInv`), how far it has read (`ReadInv`) and where its answer to the phase is: not yet
  given, in flight, or counted (`ReceiverInv`, `SenderInv`); and that the counter is the
  number of receivers whose answer was counted (`CountInv`). Only the sender of the row before may lag: its own
  row's message is not answered.
* `TableAlwaysConsistent` (`TableConsistent`) and `PhasesStayExclusive`, with drones that end at any
  moment. `FaultInv` describes the table in the middle of a removal: which handler is in
  the mutex, which places hold the drones that stay, and which one is being overwritten or is
  a duplicate (`MutexInv`, `EntriesInv`).

`CursorOnRow` is about the rows that a drone loads; with `MAX_ROWS` a constant it covers logs of any length.

Assumptions: `DronesAssumption` (finite, at least two), `RateAssumption`, `RowsAssumption`, `LogAssumption` (every row
lists every drone but the sender exactly once, as `data_process.py` writes it), `NoNodeAssumption`
(a cleared entry is no drone), `FaultyAssumption`.

### CenterAcceptProofs

`MutexHandedOver` (`HandOver`), `TableStaysExact` (`TableExact`), `LogStartsComplete`
(`CompleteUnlessOneEnded`), for any number of drones and of connections. A locked mutex has no owner in the
code; the invariant says whose it is: that of the connection `main` waits for in `"relock"`, for which an entry is free
(`RoomInv`). `QueueInv` keeps a connection from being accepted twice; `EndedInv` says that a drone connects again only
after its connection before has ended, from which a full table holds all drones. Assumption: `AcceptAssumption`.

### RelayLinkProofs, GroundOtaProofs, TwowayTransportProofs

`RelayLinkProofs` holds what the tools share: ACKs add up when queues are joined or cut, and the relay keeps the order of
the messages (`InTurn`): what is delivered, assembled and announced has growing numbers, whatever was lost.

* `ChunksPartitionImage`: no chunk is empty or longer than the payload, each starts where the one
  before ends, and the last one ends with the image.
* `OtaTypeCorrect` (`OtaTypeOK`). `OtaTypeOK` bounds the sequence number by the whole schedule, which is not inductive;
  `Position` says where it is in the nested loops, `Counts` gives the bounds (at most 40 rounds and 1171 chunks) that
  keep the 16 bits from wrapping.
* `FollowsSchedule` (`ImplementsPlan`): what goes on the air as composed is `OtaPlan`, step by step. A message of the
  schedule is numbered by its place in it, and `InTurn` with that numbering makes every transmission a later one.
* `HostKeepsPace` (`NeverAhead`): each ACK read lets the host go on by one (`Paced`).
* `SuccessDelivers` (`SuccessMeansDelivered`). `Stream` says that, as long as no transfer has
  failed, the packets on their way to the relay are without a gap, so that it can swallow one message at most, the one
  that completes what an earlier run left.
* `AckNeverMissed` (`AckNotMissed`) and `ReceiptsCovered` (`NoSurplusReceipt`): the two threads, the queue, the packet being
  taken apart and the flag are one account of ACKs (`AckHeld`, `Surplus`), for which the sends are numbered.
* `FramesLogged` (`LogExact`), for every traffic that `TrafficAssumption` allows and `StreamLimit >= MAX_PIECES - 1 + PacketUnits`, that is, if the buffer takes an incomplete
  frame and a packet. In the code 8192 bytes face 4111 and 64. `Flow` says that the buffer, the packet and the queue carry the
  pieces sniffed so far one after another between their ACKs (`Carries`), `Room` that a packet always fits.

* `FlasherPrintsSchedule` (`FlasherAgrees`). `ScheduleIs` gives the schedule without repetitions in closed form:
  `Items(totalChunks + 2)`, a START, the chunks by their numbers, an END. `Printing` says how many items are printed at each place, and
  that the file was read to the end of the last chunk printed, as long as it is as long as the broadcaster's
  and no read has failed; after a failed read the exit status is 1.
* `BroadcastWithinTools` carries the broadcaster's theorems over to `OtaSpec`, where the other program may run instead.

Assumptions: `RelayAssumption`, `ImageAssumption`, `TimeoutAssumption`, `FlasherAssumption`, `TwowayAssumption`, `TrafficAssumption`.

### DownlinkToolsProofs

All three safety properties of `DownlinkTools`, for any number of commands and of runs, however they
are stopped, and any relay. `StepKinds` sorts the steps of both programs by what they do to the relay and to the reports
(announce a command, go on, fail, confirm, ...), so that the two tools are argued about once.

* `SwallowedOnlyAfterFailureHolds`. `Named`: the command under way is the newest there is, so an announcement
  is known by its number. `Flow`: unless its command failed, behind an announcement come all of its packets (or those
  written so far), in the endpoint and on into the message being assembled. `Aired` draws the consequence: a message on the air
  is intact, left over, or of a failed command; and no command is there twice.
* `SentUnlessDisturbedHolds`. `Paced` adds the ACKs: with those not yet read there are no more acknowledged commands than
  messages on the air and stale ACKs, and the ACK of the command under way is still to be read. Counted against `Aired`, each
  acknowledged command that is not on the air stands for a disturbed one, a stale ACK or a message left over.
* `ReuseOnlyAfterFailureHolds`. `Sequenced`: within a run the program's own number is above those of all commands that
  did not fail; `run` grows, and `Named` gives the order on the air. It assumes `MaxCommands < 65535`: after 65535
  commands of one run the 16 bits of the number wrap around and it is used again without a failure.

Assumptions: `RelayAssumption`, `DownlinkAssumption`, `PcAssumption`.

### CaptureToolsProofs

* `CaptureTypeCorrect` (`CaptureTypeOK`) and `CaptureAccountsForBytes` (`BytesAccounted`), for every delivery, every cut into transfers,
  every size of the staging buffer and every limit of a message. `IInv` adds how much of a record the loop holds at each
  `pc` (`InHand`) and that nothing is counted as truncated before the end; without them a step
  could append past the metadata or count a record twice. `ReadKeepsUnits` says that no answer to a
  request loses or makes up a unit. `AccountWithinProgram` carries both over to the whole programs.
* `NothingStaysOpen` (`NothingLeaked`). `Owned` says at each place in `main` what is really held and what the
  program remembers, which is what `close` goes by.
* `StatusIsTrue` (`SuccessMeansStored`). `Reported` says at each place what an exit status of 0 will claim: the whole
  command was sent before anything is captured, and everything read was stored before the file is closed.

* `EveryRecordReparses` (`FileReparses`). A file that is so many records and nothing else (`Whole`) is a chain of
  offsets, each a record further than the one before (`Chain`), and `parse_binary` walks along it. `LoopFile`: unless a write
  failed, the loop's file is `Whole`, with as many records as were counted; to append one it must know that
  what is in hand begins with a magic, which the resynchronisation establishes. A record of the chain adds no error but those of `Doubts` (`RecordTaken`).
* `EveryFrameStored` (`NoFrameLost`). `LoopOrder`: what is in hand, staged and on the wire is the end of the delivery,
  it begins where a frame begins, and the file is the frames before. While the window still slides it begins somewhere in
  the torn frame, which holds no magic, so that the first magic found is that of the first frame; at the end of
  the data every frame is stored. This needs a delivery that `CleanInput` allows; `FileReparses` does not.
* `WindowsFileIsTrue` (`GroundControlFile`). That program writes as it reads. `WFile`: its
  file is `Whole` between records, `UnderWay` within a payload, with `remaining` units to come, and `CutOff` in the last record
  after a signal or an error. `WOrder`: the file is the delivery from the first frame on, up to where the window, the buffer and
  the bus begin (`Stands`, for each place in the loop).
* `RecordsWithinProgram` carries `FileReparses` and `NoFrameLost` over to the whole programs; the invariant is
  `FilesInv`.

Assumptions: `CaptureAssumption`, `BinaryLogAssumption`, `StorageAssumption` and `InputsAssumption`: the torn rest is any sequence
of numbers, and every frame begins with a magic and has the payload that its length gives, unless the length is out of range.

### TraceToolsProofs

* `TimeLineHolds` (`TimeLineExact`): `UnwrapInv` says that a record stands at its true time and a cycle for each
  record that was out of order before it, and that the time line does not decrease, so the sort of a source's
  records keeps their order.
* `TickCountAhead` (`TicksAhead`) for fewer than 2^16 lines, since `TxCount` and `RxCount` have 16 bits. The count of
  wrap-arounds is the number of stamps below the first one (`LineOk`); a cycle in which there was no such stamp is
  missing in it, one in which there were several is counted several times.
* `EveryRowInOrder` (`RowsComplete`) and `RowsAreOwn` (`RowsExact`), for any number of drones, messages and faults. `RingInv`:
  each of the last `buffer_size` records is in its slot (`Position`) with all the times that were reported of its
  message so far, and with others only if the slot was not clean when it was filled; or the slot was cleaned up
  because its row was due. Slots of records that are less than a ring apart differ (`SlotsApart`). When `DRONE_NUM` more
  records are in the ring, the slots cleaned up last time are filled again; so the one slot that the script's
  guard looks at is in use as soon as the ring is full, and the oldest `DRONE_NUM` slots are written. `RowsInv`: the rows are exact,
  complete and in order up to that block (`Boundary`). Which columns a row has depends on the addresses found (`SearchInv`): they are
  distinct, and the sender of a record that is `Receivable` is given `DRONE_NUM - 1` others, itself not among them.
* `ScriptEnds` (`ScriptOutcome`, the first conjunct of `RowsComplete`). Enough addresses in the first records make every record of the file `Receivable`, also those
  of drones found by nobody (`EnoughAddresses`); with too few, already the first record fails (`FirstReceivable`), before any row.
* `RecordToolsAreBoth`. A behaviour of `RecordTools` is one of `TraceTools` and, fairness apart, one of `CaptureTools`, so the
  theorems about either hold of the specification that `records` runs.

Assumptions: `ClockAssumption`, `TickAssumption`, `UnwrapAssumption` (a step is shorter than a cycle), `RingAssumption`
(a swarm of drones with different addresses other than 0; `DRONE_NUM`, which need not be their number, at least two; a search of one record at least).

### What TLC checks only

* Liveness, in all runs that check it: `SimulationEnds`, `RemovalCompletes`, `LogStarts`, `BroadcastEnds`, `PromptReturns`,
  `ShutdownCompletes`, `ProgramEnds`. Fairness is defined with `ENABLED`, which the prover does not expand.
* Absence of deadlock in `sim_rounds`, for the same reason.
* The five violations, each a behaviour of an instance.
* `ReuseOnlyAfterFailure` with 65535 commands or more, and `TicksAhead` with 2^16 lines or more, are neither proved nor checked:
  there the 16-bit counters of the code wrap around.
* `LogExact` with a `StreamLimit` below `MAX_PIECES - 1 + PacketUnits`, which the code does not have.

## 5. Not modelled

* `evaluation.py`, `vicon.py`, `paint.py`, `rate.py`, the plots of `analyze_sniffer_binary.py` and
  `sniffer_plot_macos.c` compute numbers and plots from files and keep no state. `sequence_stats` is a fold over
  neighbours. The plot at the end of a capture is one step that may fail (`Plot`).
* The `AdHocUWB` submodule, whose directory is empty, and the firmware of relay and drones; the
  firmware's part in the protocols is external to the models.
* Parsing of command lines and hex, self-tests, descriptors of USB devices, the text of messages. Parsing is
  modelled by what it refuses.
* Buffers of stdio. The Windows program ignores the results of `fflush` and `fclose`
  (ground_control_windows.c:276, 334), so it may report success for a file that is not on disk.
* The four ACK bytes inside a sniffed payload, which twoway_transport.c:104 takes for an ACK: pieces of
  frames are opaque.
* SIGINT at the prompt of `twoway_transport.c` takes effect with the operator's next line (line 490);
  `ShutdownCompletes` leaves the prompt out for that reason.
* Time. The USB models have no clock: that non-ACK packets shorten
  the wait for an ACK (ground_ota.c:894, ground_admin.c:605; Docs/ground_ota_macos_port.md:123 gives a fixed
  1500 ms) shows in `elapsed` only.
* Lines of the flight log that are longer than their buffers, which `fgets` would cut in two.
* The check of the header's receiver count (center.c:79-87) is the comparison with `count` in `CenterAccept`, the
  file always having `NODES_NUM - 1` receivers.
