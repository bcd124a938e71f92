# Verification of the inverter bridge firmware

TLA+ models, TLC runs and TLAPS proofs for the ESP32-C6 firmware under
`src/main`: a board that reads a battery management system (BMS) on one bus and
speaks to an inverter on another, in whatever pair of protocols its settings
name.

## 1. The system

The firmware runs under FreeRTOS on one core. Tasks pre-empt each other at any
point that is not inside a critical section (`portENTER_CRITICAL`), and they
share state through static variables, length-1 queues (`xQueueOverwrite`) and
the battery model.

| Component | State it keeps | Operations | Talks to |
| --- | --- | --- | --- |
| `orchestrator/orchestrator.c` | `g_orchestratorCtx` (three queues, flags), the task handle | start from settings (nineteen dedicated branches and a generic one), start the second BMS, stop, forward packets | every task below |
| `runtime_settings.c` | the settings record in RAM and in NVS | load, validate, save, get | read by every task; written by the web server |
| `modes/mode_manager.c` | `s_modeStarted`, `s_runningMode`, the task handles of forward/sniffer mode | start a mode, apply settings | orchestrator, drivers |
| `protocols/common/battery_model.c` | the last model, its source and time, a debug override | get, get real, set, clear, override | written by pollers and decoders, read by responders and senders |
| pollers (`rs485_growatt`, `jkbms_modbus`, `jkbms_rs485`, `pace`, `voltronic`, `china_tower`, `wow`, `seplos`, `daly_rs485`, `daly_can`) | latest packet, per-register caches, statistics | start, poll, publish, clear when stale, stop | battery model, their output queue |
| `decoders/CAN_Decoder.c` | a cache per CAN protocol | decode a frame, publish a snapshot, clear stale, reset | battery model |
| `pylon/pylon_rs485_bridge.c` | reply cache, pending request, statistics | enable, passive decode, pass through, poll, answer, stop | RS485 drivers, battery model, CAN cache |
| `rs485_growatt/rs485_growatt_bridge.c` | snapshot of CAN values, register image | enable, answer Modbus reads, stop | CAN driver or battery model |
| senders (`growatt_inverter_task.c`, `pylon_inverter_task.c`) | latest packet | start, transmit periodically, stop | inverter queue, battery model, CAN driver |
| `modes/can_forward_sniffer.c` | two task contexts | relay CAN frames in bridge mode, snapshot | CAN driver, CAN decoder |
| `Web_interface/web_interface.c` | HTTP server, Wi-Fi retry count, apply queue | POST settings, POST override, apply task | runtime settings, mode manager |
| `Web_interface/bridge_compat.c` | none of its own | JSON telemetry | reads the others |
| drivers | UART/TWAI handles, bus mutex | reinit, read, write | hardware |

What is hard to get right, and to test, in this system:

* the life of a route: nineteen start sequences, each with hand-written failure
  paths, one stop that must cover them all, queues whose readers must be gone
  before they are deleted;
* tasks that publish while the control task is between two of its calls, so
  that data of one battery pack can survive into a route that serves another;
* a cascade of predicates whose order decides which tasks serve a
  configuration;
* freshness: data must stop being sent when its source goes silent, through
  copies that carry a time of their own;
* settings saved by the web server and applied by another task, with a crash or
  a second POST in between;
* batteries that must be found: at an address, in a dialect and on a line
  polarity that are not known, with answers that do not say what they answer,
  are lost, late or damaged, and a battery that may be exchanged at any time;
* two tasks per Pylon bridge and per CAN interface that share caches without a
  lock, or decide by what they copied under one.

The hazards are listed with their lines in `PROJECT.json`.

## 2. Modules

| Module | Models | From (under `src/main`) |
| --- | --- | --- |
| `RouteSelection` | settings records, `validateSettings`, the protocol predicates, the route predicates and the order in which the cascade tries them | `runtime_settings.c`, `config.h`, `orchestrator.c`, `pylon_rs485_bridge.c` |
| `RoutePrograms` | the tasks, and for every branch of the cascade the calls it makes in order, each with its failure path; the stop and the second-BMS script | `orchestrator.c`, `can_forward_sniffer.c`, `pylon_rs485_bridge.c` |
| `Orchestrator` | the control task that executes these programs, and the running tasks that write between its calls | `orchestrator.c`, `mode_manager.c`, start and stop functions of every task |
| `RouteLifecycle` | abstract: what the orchestrator promises about the set of serving tasks | - |
| `RouteCascade` | one settings record from validation through the cascade to its program | `runtime_settings.c`, `orchestrator.c` |
| `Forwarding` | one measurement from the poller through model and queues to the inverter, with the debug override | `orchestratorTask`, the two CAN senders, `battery_model.c`, the Growatt and Daly RS485 pollers, `fakeBmsPostHandler` |
| `SettingsApply` | settings from POST to flash, memory, route, drivers, Wi-Fi and web server, with crashes and boots | `runtime_settings.c`, `web_interface.c`, `mode_manager.c`, `main.c` |
| `WorkingModes` | forward and sniffer mode: start, task handles, the forwarder that edits frames | `mode_manager.c` |
| `SnifferFrames` | the RS485 sniffer: bytes into frames by silence | `mode_manager.c` |
| `WebTelemetry` | `GET /api/telemetry` and `telemetry2` while decoders store and routes change | `bridge_compat.c`, `jkbms_rs485_bms_task.c` and other pollers' latest data |
| `PylonCache` | the data of the Pylon bridge: reply cache, summary, publication | `pylon_rs485_bridge.c` |
| `PylonPassthrough` | its two tasks between a Pylon battery and a Pylon inverter | `pylon_rs485_bridge.c` |
| `PylonProbe` | its prober and receiver as the poller of a Pylon battery | `pylon_rs485_bridge.c` |
| `GrowattResponder` | the Growatt responder, fed by CAN frames or by the battery model | `rs485_growatt_bridge.c` |
| `ModbusDecoder` | from a stream of bytes to cached registers | `modbusDecoder.c` |
| `ModbusPoll` | the loop all register pollers share | `rs485_growatt_bms_task.c`, `jkbms_modbus`, `pace`, `voltronic`, `china_tower`, `wow` |
| `SeplosPoll` | search for protocol, address and polarity, framing of both protocols | `seplos_rs485_bms_task.c` |
| `JkNative` | the native JK poller and its decoder | `jkbms_rs485` |
| `DalySnapshot` | what the two Daly sources share | `daly_can`, `daly_rs485` |
| `DalyCan`, `DalyRs485` | the two Daly pollers | `daly_can`, `daly_rs485` |
| `CanDecoder` | receiver and snapshot task of one CAN interface | `CAN_Decoder.c`, `can_forward_sniffer.c`, `pylon_can_protocol.c` |
| `GrowattWords` | byte order of the words in Growatt frames | `CAN_Decoder.c` |
| `MCOrchestrator`, `MCRouteCascade`, `MCForwarding`, `MCSettingsApply`, `MCWorkingModes`, `MCWebTelemetry`, `MCBatterySources`, `MCInverterLines` | the instances TLC checks | - |
| `*_proofs` (eight) | theorems | - |

How they are composed:

* `RouteSelection` <- `RoutePrograms` <- `Orchestrator`, `RouteCascade`.
  `Orchestrator` instantiates `RouteLifecycle`, which it implements.
* `ModbusDecoder` <- `ModbusPoll`; `PylonCache` <- `PylonPassthrough`, `PylonProbe`;
  `DalySnapshot` <- `DalyCan`, `DalyRs485`.
* A route runs one source and one line to the inverter (`RouteCascade` checks
  that). So `MCBatterySources` is a *sum*: in the beginning one of twenty-one
  worlds - a source, a battery, a kind of harm - is chosen, and a behaviour is
  one of that source; the variables of the others are `Off`. `MCInverterLines`
  (two worlds), `MCForwarding` and `MCWorkingModes` (two each) are built alike.
  Which worlds a run of the first two has is a constant in its cfg. Modules only
  instantiated state their assumptions about constants as definitions, which
  the sum `ASSUME`s for every instance. The constants of `MCInverterLines` and of
  the sniffer's part of `MCWorkingModes` get their values in the cfg, so that the
  theorems about them hold for all values.
* `Orchestrator` looks at routes that come and go, `Forwarding`, the sources and
  the lines at one that runs, `SettingsApply` at the record they are started from.

### Orchestrator

The nineteen branches and the generic one are straight lines of calls with
`if (err != ESP_OK) { undo; return err; }` after most of them. They are data, not
actions: a *program* is a sequence of calls, each with the tasks its failure
path stops and whether the path ends in `orchestratorReset`. One action per
kind of call executes the current one: `MemsetCtx`, `CanDecoderResetCaches`,
`SetActive`, `CreateQueue`, `TaskStart`, `TaskStop`, `OrchestratorReset`,
`PylonRs485BridgeEnable`, `CanForwardSnifferStart`; `FailPrimary` and
`FailSecondary` are a call that returns an error, `UndoStop` and `UndoReturn`
the failure path.

* `running` is the set of tasks whose static handle is set; `held[t]` the queue
  handles a task was given; `ctx` the queue fields of `g_orchestratorCtx`; `live`
  the queues allocated and not deleted. `result` is the `esp_err_t`.
* `model` keeps who wrote the battery model last and under which configuration,
  `canCache` whether the decoder caches hold frames of this or of an earlier
  configuration. Any live publisher, decoder or stale test may write between
  any two calls of the control task.
* `pylonRs485BridgeEnable` and `canForwardSnifferStart` ignore failed
  `xTaskCreate` calls: any subset of their tasks may come to exist.
* Boot and settings apply are the same control task: `app_main` starts a mode
  before the web server exists, and afterwards only the settings-apply task
  calls `workingModesApplyRuntimeSettings`. The inline apply, taken when that
  task could not be created, is the same sequence of calls.
* What may be started is any record `validateSettings` accepts, in bridge mode.
* The order in which one failure path stops several tasks is left open.

### RouteCascade

`Validate` is `validateSettings`, `Select` the cascade. The properties compare
the branch it selects, and the program behind that branch, with the route matrix
of the repository's README and with what the settings ask for.

### Forwarding

One variable per copy of a measurement: the poller's cache (`sourceVal`,
`sourceAge`), `model`, `bmsQueue`, the `packet` of `orchestratorTask`,
`inverterQueue`, the sender's `latest`, and `chosen`, what it is about to send. A
copy carries its values, the age of the data and the age of its time stamp; the
two differ because a publication may stamp data anew (`EndRound`) and because
`buildPacketFromBatteryModel` does (`Built`).

Atomic steps are the critical sections and queue operations of the code:

* poller: `Receive` (a frame), `EndRound` (freshness test, then
  `batteryModelSet` or `batteryModelClear`), `QueuePacket`;
* orchestrator: `OrchReceive` with the test of the override, `OrchBuild`, a read of
  the model after it, `OrchForward` (comparison with the last packet, force period,
  `xQueueOverwrite`);
* sender: `SendReceive`, `SendRead` (model within its window, else the latest
  packet while fresh), and for Growatt `SendOverride`, `SendBuild` and
  `Read322`/`Send322`, the second look at the model for frame 0x322;
* web server: `SetDebugOverride`, then `SetDebugOverrideEnabled`.

Abstracted: the values of a packet are one model value; what `packetEquivalent`
compares is that value and whether the packet was built from the model (the two
kinds fill different fields). A Growatt source publishes at most once in a tick.
The Growatt sender's due test is always passed after its receive time-out, which
is its period. `MCForwarding` instantiates the module twice, for the Growatt poller with the
Growatt sender (`PacketStamp = "publish"`) and for the Daly poller, whose round
may take as long as its window, with the Pylon sender (`PacketStamp = "source"`).

**Time** is counted in ticks. A tick is longer than a cycle of any task, so
`Tick` waits until every task has done what was due (`Settled`); within a tick
tasks interleave freely. Ages are capped: the assumptions put the caps above
every window, so a capped age is one that no test can tell from a larger one.

### SettingsApply

A record is a function on fields; `bms` and `inv` stand for line, protocol and
port of one side. `nvs` (flash), `ram`, `running` (the route) and `rs`, `can` (the drivers)
each hold what they were set from.

* The handler of the POST: validation; the keys, of which any may fail, and the commit
  after them (`SaveFails`); the copy in two steps, `CopyFirstWord` and `CopyRest`, since the structure
  is copied without a lock; the answer, the request put into the queue with
  `xQueueOverwrite`, the task, if there is none yet. `InlineFallback` is the apply by
  the handler itself.
* The apply, by either: the comparison of the mode, `Snapshot` (the second read) and stop
  of the route, reinit of the RS485 and the CAN drivers, start, Wi-Fi, web server. A
  start may fail, and so may each creation of a task or of the queue.
* `Boot` loads with defaults, checks and starts the mode; `Crash` may come at every step, in
  the middle of the keys included; `GotIp` and `Disconnected` are the Wi-Fi station
  with its retries. `Fault` counts what the environment does wrong.

### PylonPassthrough, PylonProbe and PylonCache

`PylonCache` defines the data as functions on one record: what an answer is
parsed to, cached as, summed up and published. A payload keeps the command it
answered, when it was measured, its length as a number, and the flag whether its
SOC is below the floor.

`PylonPassthrough`: `TakeRequest`, `NoteRequest`, `ForwardRequest` or, while the
override is on, `Refresh61/42/63` and `AnswerInverter` are the inverter's task;
`TakeAnswer`, `Decode`, `PassOn` the battery's. They share request, cache and
summary with no lock, so each access is a step of its own. `LineAssumption` is about
their neighbours: a battery answers within `MaxDelay`, which is not longer than the
window in which the bridge pairs an answer with its request (1 s), and an inverter waits
for `Patience`, longer than that window, before it asks again.

`PylonProbe`: a tick is 400 ms, the time a request is waited for. The prober
goes through the commands and, until an address is preferred, the addresses;
the receiver takes answers for those to the pending request. Answers may be
lost or late, the battery exchanged.

### ModbusDecoder and ModbusPoll

A byte is a pair of a frame and a place in it; a checksum is right for a whole
frame only. `Feed` is `modbusDecoderFeed` with its buffer that runs over, the scan
for frames, the fallback on what the first bytes look like; `Respond` the attribution
of an answer - which does not say what registers it holds - to a request of the
queue. One step of `ModbusPoll` is one turn of the loop of a poller, scaled: read,
feed, clear if stale, send the next request, publish. The pollers differ in
constants only (blocks, periods, windows, echo, what is cleared), and a shared
definition is mapped to one of them where the code is equal. Requests that come
before the answer to the last are harmless if the answers come within the period or have
lengths of their own; the worlds `prompt` and `late` are these two.

### SeplosPoll and JkNative

`SeplosPoll` has two protocols, their dialects, and both polarities of the line; what
is read with the wrong polarity is noise. `ConsumeRx` is the search for frames of
either protocol, with a buffer that runs over, `Lock` the choice of a candidate,
`ClearStale` the release. `JkNative` sends one request and reads a frame from its
head as far as its length says; entries are known by their id, what has none is
skipped. Both have lost, split and damaged answers. A turn of a loop is the unit of time;
the windows are 8 and 16 turns. The buffers hold 9 and 12 bytes of the model: two long
Seplos answers and the begin of a third, two whole ones of JK; the Seplos worlds with fewer
harms have a buffer of 4, one long answer. Two history variables name what the properties
do not hold through: `crossed`, a Seplos task started again while an answer was on its way,
and `torn`, a JK battery disconnected in the middle of an answer (section 4).

Where a task works through a buffer or a queue, the model does it by a function of the
position (`upTo`), not by a fold over the sequence: it computes the same, and can be reasoned about one position after the other.

### DalyCan, DalyRs485 and DalySnapshot

A tick is the time an answer is waited for. `DalyCan` asks each command at several
addresses in several forms, learns the form that was answered, restarts the
controller after too many losses, and publishes at the end of a round. The
switching of the bit rate is never enabled by the start and not modelled; the
diagnostics of the other bus (section 5) are not either. `DalyRs485` asks a block at two
addresses and then the classic commands one by one; a Modbus answer is
modelled by what is found in it. The window is 6 ticks in most worlds, and a round with a
silent battery is longer. In `dalyLine` it is 16: a round with a silent battery (13 ticks) is
over before the window is, so that an old packet outlives it, and one with noise (19) is not. The time bytes
put the deadline off by (`Idle`) is 2 ticks, more than one, so that a request may
take up to its hard deadline. A block that is not whole is only taken at the deadline, up to
`2 * Timeout` after its bytes; `SilentIsCleared` allows for it.

### GrowattResponder

`CanTask` and `ModelTask` are one turn of the two kinds of task, `Requests` the
search for requests in the stream, which is modelled in halves of a request;
noise may come in between. `Cached` says which fields the frames that wait, of each
dialect, fill; they add up in any order. A turn of the task (2 ms) is far shorter than a tick. The values are
left out, except what the comparisons between them decide.

### CanDecoder and GrowattWords

`OnFrame` is the receiver, which stores a frame and publishes at once; `Copy` and
`Publish` are the two halves of the snapshot task, which decides by what it
copied under the lock. A tick is about 2 s; no tick falls between the copy and
what is done with it. Windows are 1 for the bridge, 2 for the period of the snapshot and 3
for Pylon-like frames. A frame is its identifier, its age and whether its SOC
can be.

`GrowattWords` reads a voltage and the two extreme cells of a battery of sixteen cells
as bytes, of either byte order: every voltage from 44.00 V to 58.40 V in steps
of 0.01 V, spreads of up to 127 mV, the flag byte of the lowest cell's frame 0,
64, 128 or 192. It is a table of readings, in which one step moves the voltage.

### WorkingModes and SnifferFrames

`Push`, `Created`, `NotCreated` are the creation of the tasks of a mode into the array
of eight handles. The forwarder receives a frame, copies the override under its
lock, edits and transmits; of its frames 0x351 carries limits, 0x35C the status, and
0x355 is a short one that must stay as it is. `SetDebugOverride` and
`SetDebugOverrideEnabled` are the two critical sections of a POST. In
`SnifferFrames` at most six bytes come, two in a tick, into frames of at most four,
which two quiet ticks end.

### WebTelemetry

A value is the slot it was made for and its age. CAN decoders push into a
cache (`SetterEnters`, `SetterStores`: the setter may have been pre-empted),
pollers keep a snapshot and a packet of their own, which JK stores in two steps. An answer
is `Ask`, `ReadManual`, `Kind`, `ReadSnapshot`, `ReadPacket`, `Answer`, each under
its own lock or none. `Save` happens between answers only, because one task of
the web server does both. `StopBridge`, `StopCan`, `StopPollers`, `Start` are
the apply, done by another task. Four routes - CAN or polled, with and without a second
BMS - are saved in any order, twice.

## 3. Runs

| Run | Question | Bounds |
| --- | --- | --- |
| `orchestrator` | starts, failures, stops and applies of every branch, with what running tasks write in between: no dangling or leaked queue, nothing left by a failed dedicated start, no start refused, `ESP_OK` is true, caches and model belong to the route, control returns, and the calls implement `RouteLifecycle` | one configuration per branch, the Pylon bridge with each of its task sets, four generic ones, six with a second BMS (those the firmware rejects are filtered by `ValidSettings`); three queue handles |
| `route_cascade` | which branch and tasks every record gets | all lines, protocols and ports; with a second BMS three of its protocols and both ports |
| `growatt_forwarding` | what is sent while the override is switched on and off | two values, source window 2 ticks, sender and bridge window 1, force period 2 |
| `forwarding_liveness` | a silent battery silences the sender, an answering one is served | the same route, and a Daly battery whose round is as long as its window behind the Pylon sender |
| `settings_apply` | flash, memory, route and drivers end up one valid record, the saved one; the orchestrator has one caller | four records, two POSTs, three faults, one Wi-Fi retry |
| `working_modes` | a started mode is whole; the override reaches the inverter and ends; the sniffer's frames are the messages | nine tasks at most, three frames, two POSTs, six bytes |
| `web_telemetry` | what is told is recent, of the route once that has settled, and a living battery is told | four routes, two saves, window 2 ticks, an interruption of 1 |
| `battery_sources` | what is shown was answered as that, is recent, and stays while the battery is heard | fifteen worlds, one to three faults each, one or two exchanges of the battery |
| `battery_is_found` | whatever happened before, the battery that is there in the end is found and shown | seven worlds |
| `inverter_lines` | what the inverter is told is right and recent, and it is answered | every command with two sizes, the override switched twice; batteries of six dialects, a queue of two frames, two requests in halves, readings of three halves, one fault (a lost half, noise, a failed write, a foreign frame or a restart) |
| `dual_stale_model`, `second_bms_port` | violations, section 6 | as `orchestrator`, `route_cascade` |

**Type invariants.** Those of `Orchestrator`, `Forwarding`, `SnifferFrames` and of the
lines are theorems (section 4), and those of the CAN decoder, the Pylon poller and the words of Growatt. Those of
the sources are the `TypeOK` of their run. `SettingsApply`, `WorkingModes` and
`WebTelemetry` state a `TypeOK` that their proofs or TLC, on the same instances, confirm;
it is not listed with the runs, since it says nothing about the code.

**Bounds.** The context has three queue fields, and a queue is created only when
its field was emptied by a reset, so that a fourth handle could only be needed
after a leak: with three, `NoQueueLeak` still sees one. Two routes in a row are
enough for data of an earlier configuration (`previous` stands for all of them).
The configurations contain every branch and every poller; protocols of one
family differ in nothing the orchestrator reads. In `Forwarding` ticks of about
2.5 s keep the order of the windows, not their exact ratios: Growatt source 5 s,
bridge and sender 2 s, publishing many times in between; Daly source and
sender 10 s, a round of up to 10 s. A force period of two ticks is longer than the
1 s of the code, which makes the throttle matter more. Two POSTs are enough for
one to overtake the apply of another, and the third fault for one more thing to fail
between them. The sources keep the order of the code's times - an answer, a
period, a round, a window - and which of them is longer where it decides
something: a Daly round with a silent battery is longer than the window (in one world shorter), a Pylon
request outlives a late answer. Ages are capped above every window. Two faults can hit
an answer and the one after it; three, a whole round of the native JK source.
The theorems of section 4 do not depend on any of these numbers.

**Fairness.** `Orchestrator` assumes `WF_vars(Control)`: the control task is not
starved for good and each of its calls returns (the stop functions delete tasks
and do not wait for them). Nothing is assumed of publishers. `Forwarding`
assumes weak fairness of its three tasks, each of which blocks only in delays and
receives with a time-out or for data, and that time diverges
(`[]<><<Tick>>_vars`); nothing of the battery or of the web server.
`SettingsApply` assumes it of the boot, the handler, the apply task, each apply, and
the two events of Wi-Fi; `WebTelemetry` of the apply, of reading, of one question of
the user and of the tasks that store. `battery_is_found` assumes that the tasks run, that
time passes (for a loop: that its turn is taken while it changes the time),
and that an answer on its way arrives; a battery that is not there need not answer, and faults and
exchanges are bounded, so that in the end one battery is left. In
`working_modes` a battery sends each of its frames for ever and not every one
is lost, which is strong fairness per identifier; it is an assumption about
the bus, not the code.

**Deadlock** is not checked where the system may stop: a start that fails at
boot leaves `s_modeStarted` false, and then no apply is accepted
(`Orchestrator`); `RouteCascade` ends with the selected route; in `SettingsApply` all
POSTs may be done and applied; in `WorkingModes` a failed start leaves nothing to do
when the POSTs are over; in `MCInverterLines` the times and requests end. In the other
runs it is checked.

**What is asked for, and what is not.** `LivingIsTold` is about polled batteries: of
a battery on CAN the cache may be dropped by the reader (section 6). `SettledIsOwn`
is about slots that are polled, for a decoder of the old route may store after the
telemetry was emptied. `ToldIsRecent` is about batteries on CAN and those whose packet alone is kept:
of the others a snapshot may be told without a time, since the packet with it is read later
(section 6). `RebootKeepsSettings` makes an exception of a save that failed half way, until another one is
done or the device boots: a boot takes what such a save, or a crash in one, left in flash, if only it is
valid (section 6). `StartedIsWhole` says nothing of a start that failed. `FoundIsKept` and the like
are asked of the worlds whose harm the code survives, and `AttributedRight` of those whose answers come in time or differ in
length: a Modbus answer does not say what it answers.

## 4. Proofs

`tlapm` checks every step; nothing is assumed but the named assumptions of the
modules.

**`Orchestrator_proofs`**, from `ConfigsAssumption` (every configuration is one
`validateSettings` accepts, in bridge mode) and `HandlesAssumption`:
`TypeCorrect`, `QueuesOutliveTasks` (`NoDanglingQueue`) and `Invariance`.
`NoDanglingQueue` is not inductive: that a reset frees no queue in use depends on
where in its script the control task is. The argument:

1. every program is *well formed* (`ProgramWF`, one lemma per shape of branch):
   queues are created before tasks start on them, at most once per field, and a
   failure path that resets the queues stops every queue task started before it;
2. the stop script stops every queue task before its reset (`StopShape`,
   `StopCoversQueueTasks`);
3. `IInv` adds to types and `NoDanglingQueue` that queue fields are live and
   distinct, which queue tasks may exist at the current `pc` of a start, that an
   undo with a reset still has every active queue task on its list, and that a
   stop past a task's entry has stopped it. One lemma per action.

It adds `QueuesAreNotLeaked` (`NoQueueLeak`): programs are
*careful* (the context is cleared by the first call only, no field gets two queues),
and during a start every field that names a queue was filled by a call already made
(`InCreate`), so that no queue is ever overwritten.

It then proves what a route promises. `RouteInv` says what may
run at each place of a program and of a stop: what the calls before it brought, and
nothing when a start begins. It rests on facts about all programs: no task is brought twice
(`Tidy`), a failure path undoes all that was started and created before it (`Clean`), a start
finds its queues created (`Supplied`), and which of the second BMS's tasks a route
uses itself (`Uses`). From it follow `NothingIsLeft` (`FailedStartLeavesNothing`),
`OkIsWhole` (`OkMeansStarted`), with `ReadyInv` `StartIsReady` (`StartFindsTaskStopped`),
with `CacheInv` `CachesAreOwn` (`CacheIsOfThisRoute`), and
`OrchestratorImplementsLifecycle` (`ImplementsLifecycle`): every call is a step of
`RouteLifecycle` or a stutter, under the mapping that reads the stage off the place
in the program.

`ModelIsOfThePoller` (`PollerModelIsOwn`) is about what pollers write between the calls.
Of a program with pollers it is shown that the model is cleared after the last task that
may publish was stopped and before the poller's task exists, that a poller which
publishes stays the only one, and that the poller of the second BMS keeps to its own copy.

**`RouteCascade_proofs`**, from `CandidatesAssumption`: for *every* settings record, not only those the run
enumerates, `MatrixRowIsSelectedAlways`, `DedicatedRouteServesInverterLineAlways`,
`RsSourceIsPolledAlways` and `SecondBmsHasOwnTaskAlways`. The cascade is characterised
once, as the first of nineteen predicates that holds (`CascadeIsFirst`); the rest is what each
predicate says of lines and protocols (no source has two branches to one inverter,
`BranchesDiffer`) and what each program starts.

**`Forwarding_proofs`**, from `TimeAssumption` (the caps exceed the windows),
`KindAssumption` and `NoDataAssumption`:

* `ForwardingType` (`TypeOK`);
* `SentAge` (`SentAgeBounded`) by `AgeInv`: in every copy the data are older than
  the time stamp by the source window at most, plus the bridge window if the
  packet was built from the model. It is inductive because a packet is built from
  the model, never from a packet, so that a stamp is renewed at most twice;
* `FakeData` (`FakeStops`) by `FakeInv`: once the override is off, every fake copy was
  stamped before the switch, and the model never holds one;
* `OverrideHides` (`OverrideWins`) by `OverrideInv`: what was read before the switch
  is gone at the first tick, and every read after it returns fake data;
* `ChangesArrive` (`NoChangeIsLost`) by `ChangeInv`: the values last published are
  in the BMS queue, else in the packet, else in `lastForwarded`, whose content
  is that of the inverter queue or, if that is empty, of the latest packet.

**`SettingsApply_proofs`**, from `SettingsAssumption` and `BoundAssumption`:
`AppliersExclude` (`OneApplier`), since the handler applies only while it found no
queue or could not create the task (`Appliers`) and an apply under way means a device
that is on (`OffIsIdle`); `ValidStays` (`SettingsAreValid`) and `RebootKeeps`
(`RebootKeepsSettings`), from what memory and flash hold at each step of a save
(`Saving`); a save that sets no key leaves what a boot would load (`NothingIsWritten`). `RouteSettlesAlways` (`RouteSettles`) needs more, since the four reads of one
apply may each see another record: unless the route is current, an apply that has read
nothing but what memory holds now is under way, or one is queued and there is somebody to
take it, or the handler is still about to queue it (`Covered`). A copy that is torn is
covered by the request its own POST sends afterwards.

**`WorkingModes_proofs`**: `StartIsWhole` (`StartedIsWhole`), from the tasks that must
run being created or still to be created unless the start has failed
(`ToBeWhole`); `LateIsOne` (`OneFrameIsLate`), of the CAN forwarder and the switch of the override
only, because what is sent edited while the override is off was in hand before (`InHand`).
`FramesAreTheMessagesAlways` (`FramesAreTheMessages`) and `MessagesAreLogged`, which says it of
`SnifferFrames` alone, hold for every rate of bytes, length of
frame and gap with two ticks of bytes fitting into a frame (`SnifferAssumption`). They rest on two clocks: the
task's, the age of its last reading, and the line's own silence, which differ by a tick at most
(`Clocks`). So the frame is divided where the line was silent, and what waits in the
buffer then belongs together; what is logged, gathered and waiting is the sequence of
bytes sent (`Room`, `NothingIsLost`).

**`Telemetry_proofs`**, the web server and six of the sources. Of the web server, from
`TelemetryAssumption`: `SettledIsOwnOfPollers` (`SettledIsOwn`): what a poller
keeps is of the route it was started for (`KeptIsRunning`), what the cache holds was
pushed by a decoder of a route on CAN (`PushedIsOnCan`), and an answer that began after
the route settled has read only such parts (`ReadIsOwn`). `ToldIsRecentAlways`
(`ToldIsRecent`): what was taken from the cache was young enough when it was taken, and what is
read of a poller later is judged by a stamp that is not younger than it (`TakenIsRecent`).

The theorems about the sources hold for every value of their constants within the assumptions named, and
state the properties that the run `battery_sources` checks of that source; the worlds of the run are instances.

Three sources work through what has come in a loop: the frames of a queue (`Drained`), the bytes
of a buffer (`ConsumeAscii`, `ConsumeRx`). What such a recursive function gives at each position is shown without
an induction theorem, by a property that holds before the first position and goes on from each
to the next: were there a position without it, there would be a least one (`LeastNumber`), and that has it from the
one before (`Climb`). The property is a set of values, so that no operator has to be instantiated.

* CAN decoder, from `DecoderAssumption`: `DecoderTypeIsRight`, `ToldByTheBusIsRecent`,
  `SilentBusIsForgottenAlways` and `OtherIsKeptAlways` by `DecInv`. No frame in a cache is younger than the
  silence of the bus, and what the snapshot task took out of it was young enough (`CopyIsFresh`); what is shown
  is older than the window by the time at most that the task was kept from looking (`Waited`), which a
  restart begins anew. `RecentOrForgotten` is proved for the interface of the battery (`bmsHere`): on another one
  nothing clears what was told there (`canClearStaleSourceTelemetry`). `OtherIsKept` assumes
  that the other bus holds nothing that is cached.
* Daly on CAN: `LearnedIsAnsweredAlways`, if no answer is late and no other device asks
  (`OnlyPrompt`; with them the source takes a wrong answer for one to its request, and `busyCan` does not
  check it). By `AnswersAreOwn`: until the battery is exchanged, what is in the air or in the queue
  while an answer is waited for is the answer to that request, since every request empties the queue first.
  From `CanAssumed` (the constants are of their kinds, nothing about harms): `CanKeepsTypes`, with every frame that is
  drained from the queue going through each case of the receiver, and `CanShowsItsExtremes`: in every snapshot
  between two frames the extremes are those of the cells that are known, once any is.
  `CanClearsTheSilent` (`SilentIsCleared`), while the controller stays on and no other device asks
  (`Undisturbed`: a controller that is off keeps the task from reading what it has received, and foreign requests
  keep a snapshot fresh): a frame waits three ticks at most for the task (`CanLags`), a round that began has only so many
  tries left (`CanLeft`), one for each command once a form is learned (`OneTry`), and silence and the
  tries left never exceed the window and one round (`CanShowsInTime`).
* Daly on RS485: `BlockIsShownWholeAlways`, for batteries that know only blocks, with cells enough, and no
  wrong bit (`OnlyBlocks`; a block with a wrong checksum is decoded at the deadline). By `LineInv`: a block on
  its way, one kept in part, the snapshot and the packet are each of one battery at one time;
  what a block does to a snapshot is `BlockReplaces`.
  From `LineAssumed` alone (the constants are of their kinds; every battery, every harm, any list of commands and
  addresses): `LineKeepsTypes` and `LineClearsTheSilent` (`SilentIsCleared`). A plan is always some requests for a block
  and then classic ones only (`PlanHas`), whatever answer cuts it short (`RemainingHas`), which says how long the rest of
  a round may take (`Work`, `LineDue`). Three relations are inductive together (`LineAged`): the snapshot is fresher
  than the battery's last word by no more than two time-outs (`LineFresh`), since a block kept in part is no older than
  what its request has used of the hard deadline (`BlockHeld`); and while something is shown, the silence and
  the rest of the round never exceed the window, a round and two time-outs (`Lasting`). Without the
  two time-outs the bound is false as soon as bytes put the deadline off by more than a tick.
* Pylon poller, from `SeqAssumption` and `NumberAssumption`: `ProbeTypeIsRight` and
  `SilentIsDroppedAlways` (only the clock shortens the sleep of the task).
* Seplos, from `SepAssumed` (the table and the batteries are of their kinds, and a whole answer comes before
  the next request): `SeplosKeepsTypes`, `SeplosAttributesRight`, `SeplosLocksTheAnswered`,
  `SeplosDropsTheSilent` and the action property `SeplosShowsOnlyNew`, by `SepInv`. Every whole frame on its way or in the
  buffer answers the request that is open, so what is decoded as pack, cells or alarms was sent as that; what
  is damaged, torn or noise is never found to be a frame, whichever starts and ends lie around it. The parts:
  `ConsumeAscii` and `ConsumeRtu` leave in the buffer only bytes that were there, decode only
  whole frames of it, and `ClearStale` empties all of the snapshot, so that what is shown next is of later frames.
  Three limits are not an artefact of the proof, and each was found by a step that could not be proved:
  an answer that is on its way when the task is started again, behind a `~` of noise, stays behind that start byte
  and is decoded when another request is open (`crossed`); the period of a split answer must leave room for its rest
  (`Quick`), since otherwise, when the inversion of the line fails (it is not retried), the rest
  locks the candidate after it in the table; and a battery that refuses requests keeps its
  candidate without ever being shown (`Unrefused`).
* Words of Growatt, from `WordsAssumption`: `WordsTypeIsRight`, `PackIsNotUnderstatedAlways` and, if the
  cells are near enough to the average (`CellsAreNear`), `CellNearAverageIsReadAlways`: the other
  reading of a word is a multiple of 255 away (`NearerIsRead`).

**`ModbusPoll_proofs`**, the sources on Modbus and the native one of JK. Of the former, from `SizeAssumption` and
`PollAssumption` (`PollAssumed`: the constants are of their kinds, nothing about their values):

* `ModbusKeepsTypes` (`TypeOK`): a pass of `Feed` over the buffer and each answer it finds keep
  the buffer, the queue and the cache within their bounds, and no register twice in the cache, whatever is
  lost, split, damaged, refused, echoed or noise.
* `ModbusAttributesRight` (`AttributedRight`), by time: if a request comes no sooner than an answer, its second half and
  the gap after it are over (`Settled`), then at a request buffer, line and battery are empty. So all that is
  read until the next one belongs to the last request, and as long as the first byte of an answer is
  about, that request stays open and is the one the answer is given to. `OneStatus`: no block but the status
  block itself looks like it, for it is recognised by its content, without a request. The worlds
  `prompt` and `echoing` leave one loop less than `Settled` asks for; that this still is enough there, and
  `late`, where lengths tell the answers apart, is what TLC shows.
* `ModbusClearsTheSilent` (`SilentIsCleared`), for a gap shorter than a loop, as in the JK, Pace, Voltronic, China
  Tower and WOW sources (`config.h`: 5 ms, where a loop takes 10): what is cached is at least as old as the
  last answer but one loop; no whole answer waits unless it has just come; and what is shown
  was built from registers that were within the window then. With a longer gap, as Growatt's 50 ms, an answer
  may wait in the buffer for some loops; this is left to the run (`echoing`).
* JK native, from `NativeAssumption`: `JkKeepsTypes` and `JkClearsTheSilent` (the age of what is shown is
  never less than the silence), whatever is lost, split, damaged, cut short or wrong in its length. If no byte is
  wrong or missing and an answer fits into the buffer (`JkCalm`), `JkShowsOneAnswer`: what waits is the rest of a frame that
  follows its begin, in order and of one answer, so a frame that is as long as it says is one that was
  sent. A battery that is disconnected in the middle of an answer (`torn`) is the exception: the begin stays in
  the buffer, the next answer completes it, and with four entries or more a frame of two answers can pass.

**`InverterLines_proofs`**, from `LinesAssumption`: `TypesAreRight` (`TypeOK`),
`ToldIsRightAlways` (`ToldIsRight`), `SilentIsNotToldAlways` (`SilentIsNotTold`) and
`HeardIsAnsweredAlways` (`HeardIsAnswered`, for batteries that speak one of the six dialects).

* Pylon bridge: `PylonInv`. One request is on its way at a time - in the inverter's task, on
  the line, at the battery, on its way back, in the other task (`OneAtATime`) - because the
  inverter waits longer than the window. So what the note of a request says is about the answer that
  comes, or too old to be paired with it (`NotedOrOld`, `NotedInTime`): no answer is taken
  for that to another command, and each 0x61 is found to be one in time for its SOC floor. What the
  cache holds is what was passed on (`ValuesAreOld`, `SummaryIsShown`), and a refresh
  under the override that is not switched meanwhile leaves fake data only
  (`RefreshInv`).
* Growatt responder: `GrowattInv`. A frame that waits was heard in this tick, the age of what is known
  is never less than the silence of the battery, and not more either once it has told something and
  nothing of it waits (`Silence`); what each of its frames tells is in the cache, or the frame waits
  (`ToldIsKnown`). Hence no answer to a silent battery's data, and an answer as soon as
  all was told (`ToldIsReady`).
* Its stream of requests: `StreamInv`. Of the halves read since the start the task has found every request, and
  keeps what it would keep had it read them at once. This is inductive because a stream may be
  cut anywhere: what is found in it is what is found before the cut and then, with what was kept there, after it
  (`RequestsJoin`), and the same holds of what is kept (`RestJoin`). Both are
  shown without induction, by counting: a request has as many others before it as its position in the result says
  (`RankedFacts`), and the requests of the two parts are those of the whole, moved by the halves dropped
  (`WindowFacts`).

Only model-checked:

* liveness (`ControlReturns`, `SilentSourceStopsSender`, `FreshSourceIsSent`, `SavedIsApplied`,
  `InverterFollowsOverride`, `LivingIsTold`, `BatteryIsFound`), which is out of the prover's reach;
* `TypeOK`, `ShownIsAnswered`, `ShownIsRecent` and `KeptWhileHeard` of `MCBatterySources` as they stand: each is the
  conjunction, over fifteen worlds, of a property of one source, and the theorems above state these one
  by one, for all constants. Not proved of the sources on Modbus: `OpenRequestsAreRecent`, and the two theorems above beyond
  their hypotheses (a longer gap, requests that follow closer);
* that the rounds of the pollers are short enough (`RoundsKeepSourceAlive`, `RoundKeepsFresh`,
  `FoundIsKept`): true of the periods in the code, not of all;
* `LittleExtremesAreRead`, which compares scores of four readings, two of them across the flags.

## 5. What is not modelled

* Values: the registers, cells, alarms and limits of answers and frames, their
  scaling and their bit fields, alert texts, the log decoders; only whether a value is known,
  how old it is and from where. The exception is `GrowattWords`, where the reading is a guess.
* The layout of the answers of the synthetic Pylon routes and of the Growatt
  responder; their requests, attribution, cache and freshness are modelled.
* JSON, HTML and the overlay of fake values in the telemetry; `GET` handlers change no
  state.
* Hardware set-up in the drivers, pins, and the switching of the Daly bit rate, which
  no start enables. The Pylon diagnostic sender and the scaler of forward mode are compiled out. The
  task of the Pylon BMS scaffold only logs.
* What the forwarder of bridge mode relays: it hands each frame on unchanged.
* The diagnostics of a stale Daly source (`daly_can_bms_task.c:858-925`), which take up to
  twelve frames out of the receive queue of the other bus and log them: whatever else reads that bus
  misses them.
* The wrap-around of the 32-bit millisecond stamps (after 49.7 days).
* `xTaskCreate` calls whose failure the Pylon bridge and the CAN forwarder ignore
  are modelled (any subset of their tasks may exist), but no property says that
  those tasks are there: the code does not promise it.

What could follow: the values of the Growatt register image against the model they
are built from; the answers of the synthetic Pylon routes; proofs of the bounds of a round (above).

## 6. Where the code departs from its documents

Two statements are refuted by runs of their own:

* `DualModelIsPrimary` (run `dual_stale_model`), against `docs/dual_bms.md:4-6`: with two
  BMSs the shared model can still be the one a task of the previous route wrote,
  since not every stop and not every start clears it.
* `SecondBmsPortIsFree` (run `second_bms_port`), against `docs/dual_bms.md:20`: a generic
  route with a CAN source polls the RS485 port that validation gives to the second BMS.

The following were met while modelling. The models do what the code does; the
properties are stated so that they hold in spite of these, or leave the case
out (section 3). Line numbers are of the code.

Routes and settings
* `orchestrator.c:818` and five more branches are not in the list of `README.md:129-144`.
* `orchestrator.c:1574` the stop empties the telemetry before the tasks on CAN end;
  what they store in between is told as the battery of the new route.
* `web_interface.c:1362` a second POST overwrites the request of the first, and with it the
  flags "restart web", "reconfigure Wi-Fi", though both were answered "Saved and applied" (`:1257`).
* `runtime_settings.c:235` thirteen keys are set one by one: a save that fails or is cut by a crash leaves a
  mix of two records, and the next boot takes it if it is valid, though the POST was answered 400 or not at all.
* `mode_manager.c:691` when the second task of forward mode cannot be created the start fails, but the
  first task goes on forwarding.
* `mode_manager.c:916` the mode is compared and the settings are read again: a POST in
  between has a route started from a record of another mode, against `README.md:124`.
* `pylon_rs485_bridge.c:182` tasks of the running route read the new record at once, also
  after a change of mode that is to wait for a restart.
* `web_interface.c:1175` values of the override and its switch are set in two critical
  sections: values of a POST that switches it off may be sent in between.
* `mode_manager.c:231` frames shorter than eight bytes are not edited; `:242` a limit of 0 is not
  edited in.

Pylon bridge (`pylon_rs485_bridge.c`)
* `:2626` the SOC floor is applied to an 0x42 of the length of an 0x61 as well; `:2638` a damaged
  answer gets a right checksum when it is raised.
* `:1485` the summary of the override is published as the battery model.
* `:1622` SOC and current are kept fresh by answers to other commands.
* `:2493` a battery at address 0 is never preferred, so it is searched for ever.

Pollers
* `daly_rs485_bms_task.c:963` the model is stamped when it is published, `:1136` the window is
  tested after a whole round only: the sender goes on longer than `README.md:287-292` says.
  `:648`, `:666`, `:760`: a block without values renews old ones, switches are told that were
  not read, and a damaged frame counts as a partial one.
* `modbusDecoder.c:1193` an answer with a wrong checksum is cached; `:1342` one fresh register keeps
  the rest; `jkbms_modbus_bms_task.c:1207` registers survive a stale source;
  `china_tower_modbus_bms_task.c:436` the latest packet is not cleared.
* `seplos_rs485_bms_task.c:737` a frame without content locks a candidate for good; `:450` an
  unread SOC is published as 0; `:569` alarms keep an old SOC fresh.
* `jkbms_rs485_native.c:448` neither checksum nor end is looked at; `jkbms_rs485_bms_task.c:94`
  a missing SOC is 0.
* `daly_can_bms_task.c:378`, `:1115`, `:384`: another master's request is taken for an answer, an answer
  to it teaches a form for good, and one from 0x21 is read the other way round;
  `:524` cells are placed from frame number 0, where the tools count from 1.

CAN decoder (`CAN_Decoder.c`) and Growatt responder (`rs485_growatt_bridge.c`)
* `CAN_Decoder.c:1588`, `:650` a frame of any identifier publishes cached Growatt or JK frames of any
  age; `:1910` the clear decides by a copy that may be old; `:1931` GoodWe's alternate
  frames are cleared between two of them; `:395` a SOC above 100 is published as 0.
* `CAN_Decoder.c:851`, `:1601`, `:958` the byte order of voltage, current and cells is guessed, and
  not always as the battery, or this firmware's own sender, means it.
* `pylon_can_protocol.c:351` a snapshot of Victron frames forbids charging.
* `rs485_growatt_bridge.c:446` any known frame keeps the SOC alive; `:1004` the window is that
  of the fastest dialect; `:181` estimated extremes stay; `:392` a voltage before the limits is halved or
  not by chance; `:621` cells are constants.

Telemetry (`bridge_compat.c`)
* `:1855` a value stored after the time was read counts as ages old and is dropped; `:1484`
  snapshot and packet are read apart, and when both are cleared in between the snapshot is told
  without a time; `:1482`, `:1901` from the save to the stop poller and name
  are of the saved record, the values of the old route.
