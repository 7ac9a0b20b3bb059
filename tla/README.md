# A formal model of modbus-to-x

This directory holds TLA+ modules for the firmware in `src/software/modbus-to-mqtt/`, an ESP32 gateway
that polls Modbus slaves on an RS-485 bus, publishes what it reads to an MQTT broker, takes write
commands from MQTT and HTTP, and is configured through a web server. TLC checks the modules on small
instances; TLAPS proves the central theorems for every value of the constants. `PROJECT.json` lists the
components, runs, mutants, hazards and theorems, and maps each definition to its lines of code.

    tlc -config MCModbusManager.cfg MCModbusManager      # a run; PROJECT.json names them all
    tlapm ModbusManagerProofs.tla                        # the proofs

## The system

### Who runs

| Task | Code | What it does |
|---|---|---|
| loopTask | `main.cpp` `setup`, `loop` | starts everything, then polls the bus, samples the MQTT connection, checks for updates |
| AsyncTCP ("web") | `MBXServerHandlers.cpp` | every HTTP handler, one after another, with the calls it makes into the managers |
| MQTT task | `MqttManager::processMQTTAsync` | reconnects, dispatches messages, and so runs write commands |
| Wi-Fi events, indicator, ad hoc tasks | `WifiConnectionController`, `IndicatorService`, `MBXServerHandlers` | events; LEDs; update, reset, access point shutdown |

Nothing protects the state they share except one atomic flag (`ModbusBus::_busy`), a few other atomics
and the memory log's mutex.

### Components

| Component | State | Operations | Talks to | Correct when |
|---|---|---|---|---|
| `ModbusBus` | `_active`, `_initialized`, `_busy`, UART, direction pin, one `ModbusMaster` | `begin`, `acquire`/`~Guard`, `setActive`, transactions | called by all three tasks | one owner; replies reach their request; pin low between transmissions |
| `ModbusManager`, `ModbusConfigLoader` | `_modbusRoot`, `_mqttConnectedLastLoop` | `begin`, `loop`, `readModbusDevice`, `executeCommand`, `reconfigureFromFile` | bus, scheduler, bridge, file | no UART used before it is set up; no due read lost; requests end; a reload stops polling |
| `ModbusPollScheduler` | `nextDueAtMs`, `pollIntervalMs` per datapoint | `isDue`, `scheduleNext` | `loop` | neither early nor late |
| `MqttManager`, `MqttSubscriptionHandler` | settings, enabled flag, will, handlers, `PubSubClient` | `ensureMQTTConnection`, `processMQTTAsync`, `reconfigureFromFile`, `testConnectOnce` | broker, bridge | the session is the one of the settings; it comes back |
| `ModbusMqttBridge` | `_writeTopics`, flags per device | `onConfigurationLoaded`, `onConnectionState`, `publishDatapoint`, write commands | manager, MQTT | handlers, subscriptions, announcements and will belong to the present configuration |
| Web server, uploads | per-request buffers, files | configuration, logs, commands, updates | everything | an aborted or concurrent upload leaves a loadable file |
| `BodyAccumulator` | buffer in the request | `append` | HTTP handlers | the body is complete or refused |
| `WifiConnectionController`, `NetworkPortal` | attempt, status, deadline, credentials to store, scanning suspended | `connect`, `cancel`, `loop`, events, scans | Wi-Fi driver, portal pages | what a connected status tells of is there, and saved; an attempt ends |
| `HttpOtaService`, `OtaService`, `ArduinoOtaManager` | pending update, status of the last check, release notes, applied hashes, the `Update` singleton | check, notes, apply, channel, upload | flash, preferences, web, loop | status, notes and hashes are those of the release they stand for; a complete update is whole; everything asked for ends |
| `MemoryLogger`, log stream | ring of lines, cursor | `append`, `copyAsText`, `broadcastLogDelta`, `getLogs` | all tasks, web clients | what is sent is the log without gaps, or a new window |
| Topic builder, string helpers, tee stream, indicator, time, statistics | little | formatting, output | | not modelled, see below |

### What is hard

The tasks interleave on the bus and on the one MQTT client. State is replaced while another task uses it
(device vector, handlers, settings). Waits are shorter than what they wait for (250 ms for a transaction
of 2 s; 50 ms for a task that sleeps 100 ms or blocks in a connect). Events are edges seen by sampling.
32-bit milliseconds start over. A restart keeps only the file system. `PROJECT.json` lists each hazard
at its line, with the properties that speak of it.

## Modules

| Module | Models |
|---|---|
| `BusArbiter` | abstract: one owner at a time, who gives the bus up itself; a reset takes it away |
| `ModbusBus` | the state of the bus and what each call does to it |
| `ModbusManager` | the three tasks on that bus: polling, ad hoc commands, MQTT writes, reload, enable, restart; implements `BusArbiter` |
| `PollScheduler` | due times and intervals as 32-bit integers |
| `MqttSession` | the MQTT manager, subscription handlers and bridge, with the broker's side of the session |
| `Flash` | the partitions an update goes to, and the Arduino `Update` singleton (external) |
| `Installation` | abstract: an update is of one release, brings whole images, the firmware first, and records only what is in flash; one that is disturbed promises nothing more |
| `HttpOta` | checks, release notes, the channel, updates and uploads in three tasks, on `Flash`; implements `Installation` |
| `BodyAccumulator` | the buffer in which a request's body is gathered, as operators on its slot |
| `StoredConfig` | abstract: an upload replaces and loads a configuration in the step that is answered with success, or spoils at most the file; other tasks load what they find there |
| `ConfigUpload` | chunked uploads of both configurations and the password, the files, and what the managers load; on `BodyAccumulator`; implements `StoredConfig` for both |
| `WifiConnection` | attempts to join a network, events of the driver, the portal and its scans, stored credentials |
| `LogStream` | the ring of log lines, the event stream with its cursor, and `GET /api/logs` |
| `MC...` | small instances for TLC |
| `ModbusManagerProofs`, `PollSchedulerProofs`, `MqttSessionProofs`, `HttpOtaProofs`, `ConfigUploadProofs`, `WifiConnectionProofs`, `LogStreamProofs` | theorems and proofs |

**ModbusManager.** `pc[t]` is where task `t` is in its call; a location is a point at which another task
can run with effect. `LoadConfiguration`, `Wire`, `Activate` are the three steps of `begin()` in loopTask
and of `reconfigureFromFile` in the web task; `Reload` is the upload's last chunk with the start of
`reconfigureFromFile`, `WaitWhileBusy` its wait. `StartPass`, `NextDevice`, `EndPass` are one pass of
`loop()`. `Execute` and `LazyBegin` are `executeCommand` up to the Guard. `TryAcquire` to `Leave` are a
batch of transactions, the same for a pass (`readModbusDevice`) and a command. `rest` is the iterator over
the device vector, and `stale` says that the vector was replaced under it: from then on what the iterator
yields is arbitrary, and the firmware may also panic (`Panic`, a restart). `file` can be missing, not
parse, or hold a configuration; `Restart` keeps only it. Time is abstract here: `Tick(p)` makes a
datapoint due.

**PollScheduler.** The interval is truncated (`Interval`) and the due time wraps (`Plus`), as unsigned
integers of the code do; `Modulus` stands for 2^32. `Elapse` lets up to `MaxStep` ms pass between two steps
of the loop task. `era`, `passEra`, `polledEra` and `polledAt` are history variables.

**MqttSession.** A topic is a pair of root and name. `Wake`, `BeginConnect`, `Accepted`/`Refused`,
`Subscribe` are `ensureMQTTConnection` in the MQTT or the web task. `PutSettings`, `EndPause`, `Switch` are
`reconfigureFromFile` around its pause; `PutFails` is an upload that opened and truncated the file and did not write all of it
(one that cannot open it changes nothing); `TestConnect` is `testConnectOnce`, which loads whatever is in the file (`Unreadable` if it does not parse)
and leaves the handlers alone. With the captive portal, `ClosePortal` and `ApOff` stand for the handler that ends it and the task it
starts; that boot serves none of the other requests, so the task uses `pc.web`. `Boot` and `ReloadModbus` are
`onConfigurationLoaded`, from `begin()` and from a reload; `BootUnconfigured` is a `begin()` whose file does not load. `Sample` is the edge
detection of `loop()`. A rebuild of the write subscriptions goes topic by topic, in loopTask or the web task: `StartRebuild` removes the
old handlers, `TakeTopic` reads the root for the next topic, `AddHandler` adds its handler, subscribes and notes it. `AnnounceOnline`,
`AnnounceDiscovery` and `PublishDatapoint` are the publications, each under the root of its moment. One device stands for those with discovery.

Three history variables mark what the code lets go wrong, until it puts it right, and the properties say what holds otherwise:

* `mixed`: new settings, or a test connection that loaded something else, or another rebuild came between two topics of a rebuild. Handlers can
  then be of two roots, or missing. The next rebuild that runs alone clears it.
* `overlooked`: the session began before `loop()`, which samples once per pass (`ModbusManager.cpp:46`), had seen the last one end. Cleared when it sees one end.
* `late`: the session's attempt began before the settings were switched; it lasts as long as the session.

**HttpOta.** A release is named by its firmware image; its URL, its hash and its notes stand for each other. The
model steps where the code awaits the network or flash, and where another task can see half of a change. `BeginService` is
`HttpOtaService::begin`: until then loopTask is in `setup`, for as long as the captive portal is open, and the web server answers already.
`CheckNow` and `PollStatus` begin a status request, `ReadResult` and `Answer` are its two reads. `Apply` starts the task or, unnoticed by the code, does not.
`StartCheck`, `FetchManifest`, `ProcessManifest`, `Report` are one check of `HttpOtaService::loop`, `CheckOffline` one
without Wi-Fi; `FetchNotes`, `VerifyNotes`, `KeepNotes` are one fetch of release notes: the hash is compared with the
release pending *then*, and the text is stored later. `SetIncludePrereleases` and `Invalidate` are the setter before and after
it writes its preference. `StartApply` to `Complete` are `applyPendingUpdate` in its own task: `part` is the component
it has got to (`TakePart` finds it on the list, `BeginDownload` takes its URL), `source` the release whose URL it took, and hashes and flags are read from what is pending at that moment,
as the code does. `Offer` is the end of `processManifestAndMaybeUpdate`: a component whose hash was
applied is left out, and both are forced if none is left. Uploads go part by part; a refused one goes on, as in the code.
`update.by` is who began the update that is running (None if that client is gone), and `update.data` whether the parts
written make an image. The server may offer any release at any time, older ones too. `watched`, `stale` (the status
request has read a result that is older than the watched request), `confirmed` and `disturbed` are history variables. An update is disturbed
when a check, the channel or an upload touches the pending release or the `Update` object while the apply task works on them
(`Disturb`); nothing is promised of it from then on, and the next update starts anew.

**ConfigUpload.** The AsyncTCP task handles one chunk at a time, of any request: an action is the handler's work on one
chunk, of any length. Byte `i` of `r`'s body is `<<r, i>>`, so a mixture of two bodies shows; a file loads if it is
the whole of a body that parses, or what the gateway came with. `got[r]` is the index of the next chunk, `opened[r]` and `slot[r]` are
`_tempFile` and `_tempObject`. `ModbusOpens`, `ModbusWrites`, `ModbusDrains`, `ModbusOpenFails` are the paths through
`handlePutModbusConfigBody`; `FinishModbus` is its end with the reload. The MQTT configuration and the password are gathered;
`MqttOpens` and `MqttWrites` are two steps, since a restart can come between them. `calloc`, the opening of files and
each write may fail, a write after any number of bytes. `Abort` is a client that goes away; the framework then closes the file and frees the buffer. `Boot` is
`ModbusManager::begin`, which runs when the web server does. `TestConnect` and the apOff tasks (`ApReads`, `ApLoads`) load `mqtt.json` as it is; while
one of them is in the middle of a load another can make it a mixture (None). A Modbus file that does not parse leaves the devices that run. The password
is answered with 204 whether or not it was stored, as in the code. How the reload meets the bus and the broker is in `ModbusManager` and
`MqttSession`. `latest` and `spoilt` are history variables: an upload of the Modbus configuration is spoilt when another has the file open at the same time, or when the byte that
marks its failure cannot be allocated; both are answered with 204, and nothing is promised of it.
The routes of uploads and of the portal are registered in different boots (`MBXServer.cpp:69`, `:216`); the model lets them meet, which allows more.

**WifiConnection.** The driver is external: `Joins`, `Loses` and `Leave` queue the events that `GotIp` and `Lost` handle in the
event task, as late as they like. Its own retries and `setAutoReconnect` are choices of `Loses`. `ConnectBegins` and `ConnectStarts`/`ConnectFails` are `connect()` before and after it calls
`WiFi.begin`; it notes the credentials before the driver can have joined. `WiFi.persistent(save)` is set around that call (`WifiConnectionController.cpp:78`), so
the driver may write untried credentials to flash there (`MayPersist`); whether it does is up to the Arduino core, and the model leaves both open. `Write` is the write
on an address, whose result the code ignores. `mode` says where loopTask is: in the portal's loop
("portal"), past it ("open"), or started as a station ("station", where none of these routes exist). `TimeOut` runs only past the portal.
`scan` is "due" between the look at `_scanSuspended` and the start of the scan, as in the code. A timeout may come at any time: a `_deadline`
that wraps makes an attempt time out at once. `kept` is a history variable: no write has failed, and nothing was erased, since the last one.

**LogStream.** A byte of text is its number in everything ever logged, a line the numbers of its first and last byte, so that the
copies and offsets of the code are arithmetic on positions and it shows exactly which text was sent. `CopyAsText` is
`copyAsText` with its newlines, evaluated on the ring as it is at that moment. `BroadcastStarts`, `ReadChunk` and `SendChunk` are
`broadcastLogDelta`: the size and the cursor are read once, the text chunk by chunk. `Join` and `SendInitialLogs` are what a client gets
when it connects, `GetLogs` and `SendAnswer` the answer to `GET /api/logs`. `sent` is what the gateway sent to each client; what a page makes of it is the browser's. `Gap` marks a place where the ring dropped lines. The list of clients is
locked while an event is sent and while a client connects (ESPAsyncWebServer); the model takes that as given.

## Runs

| Run | Instance | Result |
|---|---|---|
| `modbus` | 2 slaves, 2 datapoints, 2 configurations with different settings and writes, one of which leaves the bus disabled, 1 delay | all safety properties and `BusArbiter` hold; requests end; a bus switched off goes quiet (about 1.4 million states) |
| `modbus_reload` | 1 slave, 1 datapoint, the bus enabled or disabled by the file | `ReloadStopsPolling` fails: the vector is replaced under a pass |
| `poll` | clock of 8 ms, two restarts of the clock, intervals truncated to 0, 6 ms, and a write point | early polls only by overflow, late ones only by wrap |
| `poll_wrap` | the same | `IntervalIsKept` fails: every pass polls until the clock starts over |
| `mqtt` | 2 brokers with a root each, an upload that does not parse, 2 Modbus configurations, with and without the portal | the session, handlers, subscriptions and announcements of a settled state are the present ones; a lost session comes back, and serves again once requests stop (about 1.5 million states) |
| `mqtt_will` | 1 broker in use, 2 roots, enabled or not | `WillMatchesAvailability` fails |
| `ota` | 3 releases: the first, a prerelease, and one with the old file system; 1 client that uploads a file system | what status, notes, channel and hashes say is true; a complete update is whole, and every update goes as in `Installation` until it is disturbed; checks are answered, updates end (about 2.1 million states) |
| `ota_ui` | the same without uploads | `UiSurvivesFailedFlash` fails |
| `upload` | 2 uploads of each configuration, one of which does not parse, and 1 of the password; bodies of 1 to 3 bytes; 1 apOff task | a configuration that was answered with 204 is whole in its file, and both are replaced as in `StoredConfig` (about 490,000 states) |
| `wifi` | 2 networks, up to 3 events in the queue | a connected status is true and its credentials are saved, an attempt ends outside the portal (about 96,000 states) |
| `logs` | ring of 2 lines, chunks of 2 bytes, answers of 3, 9 bytes of log, 2 clients that join and leave | what is sent is the log without a byte missing or out of place, except where the ring dropped lines (about 4.8 million states, up to symmetry) |
| `log_rolled` | the same | `RollIsNoticed` fails: text is missing and nothing says so |

**Bounds.** Three tasks exist, and a task runs one call at a time, so nothing more can meet on the bus. Two
slaves are needed to mix replies, two devices for a pass to be interrupted between them, two configurations
for a reload that changes something. One delay shows the wait both ending early and giving up; more delays
repeat it. The clock is as short as it can be with an interval of more than half of it; `MaxStep` is below `Modulus`, since
a loop task that is blocked for 49 days says nothing. Two brokers and two roots tell the old from the new.
Three releases are the least with which a pending one can be replaced by another newer one, on either channel, and a
component be left out because its image did not change.
Two uploads of a configuration are needed to mix their bytes, and a third adds nothing: `file` holds what the last writers left.
Two networks tell the present attempt from the one before. A ring of two lines rolls after the third; lines of one and two bytes, chunks of
two and pages of three put a newline before, at and behind each boundary. Two clients are one that joins and one that is there.
The theorems do without these bounds.

Three runs have a CONSTRAINT: a state outside it is still checked, and not followed on. `FewAtWork` (`mqtt`): two of the three tasks are at work at a
time, and one while `mixed`; three at once add orders of the same steps. `FewThingsAtOnce` (`ota`): a disturbed update is not followed on (nothing is promised of it; the theorems
cover the next one), nor the status or the notes asked for during an update or an upload, nor a check during an upload. `OneFile` (`upload`): uploads of both configurations do
not meet; they share no state but the memory that may run out, which is a choice of each step. The safety properties are proved without these constraints. The liveness properties of
`mqtt` and `ota` are checked for behaviours that stay inside.

**Fairness.** `WF_vars(LoopStep)`, `WF_vars(WebStep)`, `WF_vars(MqttStep)`: FreeRTOS runs a task whose delay is over,
every call in the model returns (`ModbusMaster` has a response timeout, `PubSubClient` a socket timeout), and the
tasks of equal priority are time-sliced. Nothing is assumed of requests, time or Wi-Fi. `SF_vars(Accepted("mqtt"))`: a broker that is
there accepts one of any number of attempts; the premise of `Reconnects` says that Wi-Fi stays. In `MqttSession`,
`WF_vars(LoopStep)` is `setup` and `loop` of the loop task, and `WF_vars(PublishDatapoint)` says that a
polled slave answers now and then. `ServesAgain`
speaks of sessions that last once no more requests come in, that `loop()` has not overlooked and whose handlers are not mixed. In `HttpOta`, `WF_vars(LoopStep)` and `WF_vars(ApplyStep)` add that a
check or a download ends: `HTTPClient` and `downloadVerifyAndFlash` give up a stream that stalls (`HttpOtaService.cpp:774`). That an
image keeps arriving in ever more parts is excluded too: `Receive` repeats without changing the state. There is no fairness for `BeginService`: in the captive portal
loopTask does not come to `HttpOtaService::loop` (`main.cpp:88`), and a check asked for there is not answered until the portal is closed. `CheckIsAnswered` speaks of the time after
`setup`. `ApplyEnds` speaks of tasks that were created; a creation that fails leaves `g_otaHttpApplying` set, and every later update is answered with "ota_in_progress" until a restart. In `WifiConnection`,
`WF_vars(Event)` and `WF_vars(Connect)` run the event task and a handler that has begun, and `WF_vars(TimeOut)` says that `loop()` runs and
a deadline passes; nothing is assumed of the driver. `AttemptEnds` speaks of the time after the portal. In the portal `loop()`
does not run: an attempt of which the driver never speaks again lasts until a client cancels it, and meanwhile every other one is refused with 409.

## What is proved

`ModbusManagerProofs`, from the assumptions on the constants alone (any finite or infinite set of slaves, configurations of any
length, any number of waits):

* `TypeCorrect`, by one step per group of variables. Flags and data are separate steps.
* `BusIsExclusive`. `ExclusiveBus` is inductive together with `TypeOK`: that `_busy` is set *exactly when* some task is in
  its critical section is what makes mutual exclusion inductive, since the compare-and-swap tests `_busy` and
  not the other tasks' positions.
* `RefinesArbiter`: every step is a `Grant`, a `Yield`, a `Reset` or a stutter of `BusArbiter`, under the mapping of the
  owner to the task in its critical section; it needs `ExclusiveBus` so that the owner is unique.
* `DriverIsReleased`, `RepliesAreTheirOwn`: inductive with `ExclusiveBus`; only the owner moves the pin or the `ModbusMaster`.
* `UartIsSetUpFirst`: `NeverOnUnwiredBus` is not inductive. The strengthening `Wired` says that a task that is about to
  acquire, owns or activates the bus has seen it initialized; that a pass with devices left, or a device vector that is
  not empty, means it is initialized or a loader is about to do so; and that an active bus is initialized while the
  web task reloads.
* `NoReadIsForgotten`, an action property, from the type invariant.

`PollSchedulerProofs`, for every modulus, interval, step and number of eras: `TypeCorrect` (the arithmetic stays in
range), `AlwaysScheduled` (the due time of a polled datapoint is its last pass plus the interval, modulo the
counter), and from that `EarlyPollsAreOverflows` and `NoPollIsLate`. They bound the damage of the overflow from both
sides: a poll is early only when the sum did not fit, and only until the clock starts over; one whose interval is over is missed only when the clock
has started over since (`DueEra` is the turn of the clock in which the interval is over, whether the sum fitted or not).
`IntervalKeptElsewhere` is what remains true of `IntervalIsKept`, step by step.

`MqttSessionProofs`, for any brokers, roots, settings and Modbus configurations:

* `TypeCorrect`.
* `HandlersStayCurrent`: `HandlersInv` says that `_writeTopics` lists every handler but the system's, so that the next rebuild removes
  what MQTT off has left behind; that MQTT is off while settings are replaced; and that a rebuild nobody has cut adds only topics of the present configuration and root.
* `SessionIsOfSettings`: `SessionInv` says that what is loaded is the settings in place or nothing, that the file holds the same but during a
  replacement, and that every attempt that is not an old one, and every session that is not late, is with their broker.
* `WritesAreServed`, `AnnouncementsAreTrue`: `ServedInv` says of a session that `loop()` has seen begin and has not overlooked that each write datapoint is
  served or still before the rebuild, and that each flag tells the truth once the announcement it stands for has had its turn. `EdgeInv` says when what `loop()` has sampled and
  what it has acted on differ: only while it acts. A flag that outlives its session would break it; that is what `overlooked` marks.

`HttpOtaProofs`, for any releases, clients and uploads:

* `TypeCorrect`. That a partition never holds an image of the other kind is not inductive: `Writers` adds that a running update
  is of the component that whoever began it sends.
* `StatusStaysFresh`, `NotesStayOfPending`, `OffersStand`, `ChannelStaysFollowed`: one invariant each (`FreshInv`, `NotesInv`, `OfferInv`,
  `ChannelInv`) that says what holds in the middle of a check or a fetch. They rest on one fact: only loopTask offers an
  update, and the other tasks can only drop it or force a check (`ApplyKeeps`, `UploadKeeps`).
* `NothingLeftRunning`, from the type invariant.
* `UpdatesAreComplete`, `StoredHashesNameTheFlash`, `FirmwareIsFirst`: `SourceInv` says that what is downloaded, is pending and is in flash is the release that
  was confirmed, unless the update was disturbed; `SkippedInv` that a component left out was applied; `OrderInv` what is done when the file system's turn comes.
* `RefinesInstallation`: `Spec => ImplementsInstallation`. `Stage` and `Target` map the place of the apply task and the release
  it works on; checks, notes and the channel are stutters, unless they disturb an update; an upload is an `Overwrite`. That a component may be skipped rests on
  `SkippedInv`, that what is written and recorded is the target's on `SourceInv`.

`ConfigUploadProofs`, for any requests, lengths, apOff tasks and bodies that do or do not parse:

* `TypeCorrect`. `RequestsOK` says of each request what its buffer holds: exactly the bytes that have arrived.
* `GatheredKept`: `GatheredInv` adds that the file being written is the last writer's.
* `ModbusKept`: `ModbusInv` says that an upload that is not spoilt and not marked as failed has its file open, opened it last, and that the file holds exactly the part of its
  body that has arrived.
* `MqttInOnePiece` and `InOnePiece`: the uploads implement `StoredConfig`. A file maps to the
  configuration it holds, or to None; `PrefixIsNotWhole` says that a body cut short is nobody's whole body, which is what makes
  every chunk but the last an `Attempt` that shows nothing. For the Modbus configuration `ModbusInv` is needed to know that the last chunk completes its own body.

`WifiConnectionProofs`, for any networks and any length of the queue:

* `TypeCorrect`, and `ConnectedIsTrue`: `AddressInv` says that the link is up if the last event in the queue is an address, or, when the queue is empty, if the status is connected.
* `ConnectedStaysSaved`: `SavedInv` says that a network that was to be saved is saved, or its credentials wait and an address is still in the queue once the link is up.

`LogStreamProofs`, for any capacity, chunk, answer and line sizes and any clients:

* `CopyIsPartOfText`: what `copyAsText` yields is the text from the offset on, as many bytes as there are up to the limit. The
  copies are recursive functions over the lines (`offsetOf`, `Copies`). An induction theorem takes an operator, which the provers cannot
  instantiate; so the set of numbers at which the closed form holds is shown to be all of Nat by `Induction`, a
  lemma about sets that follows from the order on Nat being well-founded.
* `TypeCorrect`: the ring is one piece of what was logged. The types are not inductive without `CursorInv`: the cursor is where the
  text ended at some time, and a broadcast goes by a ring between that one and the present one.
* `NothingSentIsTorn`: `StreamInv` relates what was sent to where the text is. `ChunkInv` says which bytes the chunk in hand begins and ends
  with; `IntactInv` that what a client was sent ends where the next chunk begins, as long as the ring stood still; `IdleInv` that between broadcasts no client lags behind
  the cursor; `JoinInv` that the size a joining client's window goes by reaches as far as what was broadcast, without which its first
  window could end short; `ViewInv` and `AnswerInv` are what is wanted of the stream and of `GET /api/logs`.

**Only model-checked:** the liveness properties (`RequestsEnd` and its like): fairness and ENABLED are out of the prover's
reach. Every other property of a passing run is a theorem, for every value of the constants that satisfies the ASSUMEs of the
module (sizes are positive, None is none of the values it is told from).

## Disagreements with what the code says

Those that a run shows are "findings" in `PROJECT.json`. In short: a reload does not stop a running pass (`ModbusManager.cpp:173`); an
interval is not kept when the due time overflows (`ModbusConfigLoader.cpp:156`); a ring of log lines that is full rolls
unnoticed, and pages miss text (`MBXServerHandlers.cpp:301`); the will is not the one of the device (`ModbusMqttBridge.cpp:43`); a failed
file system download does not leave the old web interface in place (`HttpOtaService.cpp:306`).

Others are in the models without a run of their own:

* "Rebuild subscriptions for new root topic ... connect and resubscribe immediately" (`MqttManager.cpp:355`, `:362`): `reconfigureFromFile` clears every handler and registers
  only the system ones; if it has a new session before `loop()` samples again, nobody sees an edge, and the write topics have no handlers until a later loss is seen (`overlooked`).
* "Give the task a moment to observe the flag" (`MqttManager.cpp:340`): 50 ms, for a task that sleeps 100 ms and can block in a connect for seconds. A session with the broker of the old settings can follow the switch (`late`).
* `rebuildWriteSubscriptions` works on vectors that `reconfigureFromFile` and the other task's rebuild change under it (`mixed`).
* "otherwise concurrent or aborted requests corrupt the next caller" (`MBXServerHandlers.cpp:519`): the request-scoped slots prevent it for the handle and the buffer, not for
  the file behind two handles; two uploads of the Modbus configuration mix in it, and both are answered with 204 (`spoilt`).
* `POST /api/config/mqtt/secret` answers 204 without looking at whether the password was stored (`MBXServerHandlers.cpp:641-644`).
* An update during which the channel changes can report "complete" with nothing applied; one during which a check replaces the pending release can store the new one's
  hash for the old image (`disturbed`).

## Not modelled

* What register words mean: scale, slice, text; the text of topics, discovery messages and log lines; parsing
  of URLs and payloads. They are functions without state.
* The data races *inside* `std::vector` of handlers; their outcome is undefined, and the model has a restart for the
  device vector and none for the handlers.
* Diagnostics: the tee stream, error counters, statistics and their events, LEDs other than the Modbus one.
* Of Wi-Fi: the contents of a scan, static addresses, the access point's own set-up and DNS, and `g_portal`, which points to a local
  variable that is gone when the portal ends (the handlers then write into the stack of loopTask).
* Of the log: what the browser makes of what it is sent (Refresh replaces the page by the answer of `GET /api/logs`, `index.js:220-230`, over log events that came during the download; the
  page is cut to `MAX_LOG_CHARS`, `:182-185`), time stamps and levels, and `setMaxLines`, `toText`, `lines`, `streamTo`, which nothing calls.
* Of the web server: pages and files it serves (a `GET` of a configuration can show a file in the middle of an upload), and the
  functions nothing calls (`safeWriteFile`, `readConfig`, `streamSPIFFSFileChunked`).
* Of updates: the signature (every manifest that is not refused is genuine), failed writes of preferences (a hash or the channel is then forgotten by the next start), reads
  of a `String` that another task assigns, the fields of an offer one by one (`Offer` and `ClearPending` are one step each), the flag `s_notesInProgress`, progress events, ArduinoOTA.
* Of MQTT: `reconfigureFromFile` after its pause is one step up to the connection, an attempt reads broker and will at one moment, `ensureMQTTConnection` subscribes to all topics
  in one step, removing and clearing handlers is one step, and so is adding, subscribing and noting one topic; a publication reads the root and is sent in one step, and one on a live session succeeds. One apOff task runs at a time.
* Of files: a write is on flash when it returns, a loader reads a file at one moment, and bytes behind the end of a JSON document count as part of it.
* The browser's pages, the hardware, the bootloader.

## Plan

Done: `ModbusBus`, `ModbusManager`, `PollScheduler`, `MqttSession`, `Flash`, `HttpOta`, `BodyAccumulator`, `ConfigUpload`, `WifiConnection` and
`LogStream` with their proofs, and the abstract `BusArbiter`, `Installation` and `StoredConfig` with the proofs that they are implemented.
What is left, in this order:

1. MQTT writes from the broker to the slave: what is dropped when the bus is busy, over `MqttSession` and `ModbusManager`.
2. Uploads and reloads together: `ConfigUpload` with the reload of `ModbusManager` as more than one step.
