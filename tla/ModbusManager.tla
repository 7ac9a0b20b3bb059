----------------------------- MODULE ModbusManager -----------------------------
(***************************************************************************)
(* ModbusManager.cpp on top of ModbusBus: the three tasks that use the     *)
(* RS-485 bus, each an interleaving of its steps with the others.          *)
(*                                                                         *)
(*   "loop"  Arduino's loopTask: setup()'s begin(), then one polling pass  *)
(*           after another (loop() and readModbusDevice)                   *)
(*   "web"   the AsyncTCP task, which runs every HTTP handler: ad hoc      *)
(*           commands, enable and disable, upload and reload of the        *)
(*           configuration (reconfigureFromFile)                           *)
(*   "mqtt"  the MQTT task: a message on a write topic runs executeCommand *)
(*                                                                         *)
(* Which write handlers are registered is a matter of the MQTT session;    *)
(* here a reload may leave the old ones, or install those of its file.     *)
(* Time is abstracted: Tick makes a datapoint due (PollScheduler models    *)
(* the arithmetic), and the wait in reconfigureFromFile counts its delays. *)
(***************************************************************************)
EXTENDS ModbusBus, FiniteSets

CONSTANTS Datapoints,     \* datapoints with a read function
          Adhoc,          \* the one request of an ad hoc command
          Configs,        \* the configurations a file can hold
          Missing, Bad,   \* no file; a file that does not open or parse
          Commands,       \* [function, hasValue] of an ad hoc command
          DefaultSerial,  \* DEFAULT_MODBUS_BAUD_RATE and DEFAULT_MODBUS_MODE
          MaxWaits        \* delays before reconfigureFromFile stops waiting (50)

Tasks == {"loop", "web", "mqtt"}

Device == [slave : Slaves, reads : SUBSET Datapoints]

Config == [enabled : BOOLEAN, serial : Serials, devices : Seq(Device), writes : SUBSET Slaves]

Contents == Configs \cup {Missing, Bad}

ASSUME ManagerAssumption ==
  /\ Configs \subseteq Config
  /\ Missing \notin Configs /\ Bad \notin Configs /\ Missing # Bad
  /\ Adhoc \notin Datapoints
  /\ Commands \subseteq [function : Nat, hasValue : BOOLEAN]
  /\ DefaultSerial \in Serials
  /\ MaxWaits \in Nat

VARIABLES
  file,         \* /conf/config.json; the only thing a restart keeps
  bus,          \* _modbusRoot.bus: settings and enabled
  devices,      \* _modbusRoot.devices
  due,          \* datapoints of devices whose nextDueAtMs has come
  writeSlaves,  \* slaves the registered MQTT write handlers command
  pc,           \* where each task is
  job,          \* its transaction: the slave and the requests still to make
  rest,         \* devices the running pass has still to visit
  stale,        \* devices was replaced under the running pass
  attempted,    \* anyAttempted of the running pass
  success,      \* anySuccess of the running pass
  led,          \* the LED that shows that Modbus works
  waits         \* delays reconfigureFromFile has made

configVars == <<file, bus, devices, writeSlaves>>
passVars == <<rest, stale, attempted, success, led>>
vars == <<busVars, configVars, due, pc, job, passVars, waits>>

Locations == {"boot", "wire", "activate", "deactivate", "idle", "scan",
              "lazy", "acquire", "begin", "request", "tx", "rx", "collect",
              "wait", "load"}

\* Between acquire() and ~Guard().
Critical == {"begin", "request", "tx", "rx", "collect"}

\* loop() is in its walk over the devices.
InPass == pc["loop"] \in Critical \cup {"scan", "acquire"}

NoJob == [slave |-> None, points |-> {}]

TypeOK ==
  /\ BusTypeOK
  /\ file \in Contents
  /\ bus \in [serial : Serials \cup {None}, enabled : BOOLEAN]
  /\ devices \in Seq(Device)
  /\ due \subseteq Datapoints
  /\ writeSlaves \subseteq Slaves
  /\ pc \in [Tasks -> Locations]
  /\ job \in [Tasks -> [slave : Slaves \cup {None}, points : SUBSET (Datapoints \cup {Adhoc})]]
  /\ rest \in Seq(Device)
  /\ stale \in BOOLEAN
  /\ attempted \in BOOLEAN
  /\ success \in BOOLEAN
  /\ led \in BOOLEAN
  /\ waits \in 0..MaxWaits

Init ==
  /\ BusInit
  /\ file \in Contents
  /\ bus = [serial |-> None, enabled |-> FALSE]
  /\ devices = <<>>
  /\ due = {}
  /\ writeSlaves = {}
  /\ pc = [t \in Tasks |-> IF t = "loop" THEN "boot" ELSE "idle"]
  /\ job = [t \in Tasks |-> NoJob]
  /\ rest = <<>>
  /\ stale = FALSE
  /\ attempted = FALSE
  /\ success = FALSE
  /\ led = FALSE
  /\ waits = 0

Goto(t, location) == pc' = [pc EXCEPT ![t] = location]

ReadsOf(devs) == UNION {devs[i].reads : i \in 1..Len(devs)}

-------------------------------------------------------------------------------
(***************************************************************************)
(* Loading a configuration: begin() in "loop", reconfigureFromFile in      *)
(* "web".  The device vector is replaced whether or not a pass iterates it.*)
(***************************************************************************)
ReplaceDevices(devs) ==
  /\ devices' = devs
  /\ due' = ReadsOf(devs)
  /\ stale' = InPass

LoadConfiguration(t) ==
  /\ pc[t] = (IF t = "loop" THEN "boot" ELSE "load")
  /\ \/ /\ file = Missing
        /\ bus' = [bus EXCEPT !.serial = DefaultSerial]
        /\ ReplaceDevices(<<>>)
        /\ UNCHANGED writeSlaves
        /\ Goto(t, "deactivate")
     \/ /\ file = Bad
        /\ UNCHANGED <<bus, devices, due, stale, writeSlaves>>
        /\ Goto(t, "deactivate")
     \/ /\ file \in Configs
        /\ bus' = [serial |-> file.serial, enabled |-> file.enabled]
        /\ ReplaceDevices(file.devices)
        \* onConfigurationLoaded rebuilds the handlers only while MQTT is enabled
        /\ writeSlaves' \in {writeSlaves, file.writes}
        /\ Goto(t, "wire")
  /\ UNCHANGED <<busVars, file, job, rest, attempted, success, led, waits>>

\* Slip: the new settings are stored, the UART is not set up.
WireSkipped(t) ==
  /\ pc[t] = "wire"
  /\ Goto(t, "activate")
  /\ UNCHANGED <<busVars, configVars, due, job, passVars, waits>>

Wire(t) ==
  /\ pc[t] = "wire"
  /\ BeginBus(bus.serial)
  /\ Goto(t, "activate")
  /\ UNCHANGED <<configVars, due, job, passVars, waits>>

Activate(t) ==
  /\ pc[t] \in {"activate", "deactivate"}
  /\ SetActive(pc[t] = "activate" /\ bus.enabled)
  /\ Goto(t, "idle")
  /\ UNCHANGED <<configVars, due, job, passVars, waits>>

\* PUT /api/config/modbus: the file is complete, reconfigureFromFile starts.
Reload(contents) ==
  /\ pc["web"] = "idle"
  /\ file' = contents
  /\ SetActive(FALSE)
  /\ Goto("web", "wait")
  /\ UNCHANGED <<bus, devices, writeSlaves, due, job, passVars, waits>>

\* Slip: wait until the bus is free, without a bound.
WaitForever ==
  /\ pc["web"] = "wait"
  /\ ~busy
  /\ Goto("web", "load")
  /\ UNCHANGED <<busVars, configVars, due, job, passVars, waits>>

\* Slip: one delay too many.
WaitOnceMore ==
  /\ pc["web"] = "wait"
  /\ IF busy /\ waits <= MaxWaits
     THEN waits' = waits + 1 /\ UNCHANGED pc
     ELSE waits' = 0 /\ Goto("web", "load")
  /\ UNCHANGED <<busVars, configVars, due, job, passVars>>

\* The loop over isBusy() ends when the bus is free, or after its last delay.
WaitWhileBusy ==
  /\ pc["web"] = "wait"
  /\ IF busy /\ waits < MaxWaits
     THEN waits' = waits + 1 /\ UNCHANGED pc
     ELSE waits' = 0 /\ Goto("web", "load")
  /\ UNCHANGED <<busVars, configVars, due, job, passVars>>

\* POST /api/modbus/enable and /disable: the flag alone.
Enable(state) ==
  /\ pc["web"] = "idle"
  /\ SetActive(state)
  /\ UNCHANGED <<configVars, due, pc, job, passVars, waits>>

-------------------------------------------------------------------------------
(***************************************************************************)
(* A polling pass of loop(): the devices in order, for each the datapoints *)
(* due when the pass reaches it.                                           *)
(***************************************************************************)
\* Slip: a pass starts without a look at isActive().
StartPassAlways ==
  /\ pc["loop"] = "idle"
  /\ rest' = devices
  /\ Goto("loop", "scan")
  /\ UNCHANGED <<busVars, configVars, due, job, stale, attempted, success, led, waits>>

StartPass ==
  /\ pc["loop"] = "idle"
  /\ IF active
     THEN rest' = devices /\ Goto("loop", "scan") /\ UNCHANGED led
     ELSE led' = FALSE /\ UNCHANGED <<rest, pc>>
  /\ UNCHANGED <<busVars, configVars, due, job, stale, attempted, success, waits>>

Visit(slave, points) ==
  /\ rest' = Tail(rest)
  /\ IF points = {}
     THEN UNCHANGED <<job, attempted, pc>>
     ELSE /\ job' = [job EXCEPT !["loop"] = [slave |-> slave, points |-> points]]
          /\ attempted' = TRUE
          /\ Goto("loop", "acquire")

\* collectDueReadDatapoints.  A device that was freed under the pass can hold
\* anything: then slave and datapoints are arbitrary.
NextDevice ==
  /\ pc["loop"] = "scan"
  /\ rest # <<>>
  /\ IF stale
     THEN \E slave \in Slaves, points \in SUBSET Datapoints : Visit(slave, points)
     ELSE Visit(Head(rest).slave, Head(rest).reads \cap due)
  /\ UNCHANGED <<busVars, configVars, due, stale, success, led, waits>>

EndPass ==
  /\ pc["loop"] = "scan"
  /\ rest = <<>>
  /\ led' = IF attempted THEN success ELSE led
  /\ stale' = FALSE
  /\ attempted' = FALSE
  /\ success' = FALSE
  /\ Goto("loop", "idle")
  /\ UNCHANGED <<busVars, configVars, due, job, rest, waits>>

-------------------------------------------------------------------------------
(***************************************************************************)
(* executeCommand, from an HTTP request or an MQTT message.                *)
(***************************************************************************)
IsWrite(cmd) == cmd.function \in {5, 6, 16}

Rejected(cmd) ==
  \/ IsWrite(cmd) /\ ~cmd.hasValue
  \/ ~IsWrite(cmd) /\ cmd.function \notin 1..4

\* "web" commands any slave; a write handler only its own, and always a value.
Addressable(t) == IF t = "web" THEN Slaves ELSE writeSlaves

Execute(t, slave, cmd) ==
  /\ t \in {"web", "mqtt"}
  /\ pc[t] = "idle"
  /\ slave \in Addressable(t)
  /\ t = "mqtt" => IsWrite(cmd) /\ cmd.hasValue
  /\ IF Rejected(cmd)
     THEN UNCHANGED <<job, pc>>
     ELSE /\ job' = [job EXCEPT ![t] = [slave |-> slave, points |-> {Adhoc}]]
          /\ Goto(t, IF initialized THEN "acquire" ELSE "lazy")
  /\ UNCHANGED <<busVars, configVars, due, passVars, waits>>

\* begin() on first use, with the defaults when nothing set a baud rate yet.
LazyBegin(t) ==
  /\ pc[t] = "lazy"
  /\ bus' = IF bus.serial = None THEN [bus EXCEPT !.serial = DefaultSerial] ELSE bus
  /\ BeginBus(bus'.serial)
  /\ Goto(t, "acquire")
  /\ UNCHANGED <<file, devices, writeSlaves, due, job, passVars, waits>>

-------------------------------------------------------------------------------
(***************************************************************************)
(* One transaction after the other under the Guard, for any task.          *)
(***************************************************************************)
\* The batch is over: back to the walk over the devices, or to the next request.
GoHome(t) ==
  /\ job' = [job EXCEPT ![t] = NoJob]
  /\ Goto(t, IF t = "loop" THEN "scan" ELSE "idle")

Current(t) == CHOOSE p \in job[t].points : TRUE

\* Slip: the slave is set before the Guard is tested.
TryAcquireAddressFirst(t) ==
  /\ pc[t] = "acquire"
  /\ \/ Acquire /\ Goto(t, "begin") /\ UNCHANGED job
     \/ busy /\ NodeBegin(job[t].slave) /\ GoHome(t)
  /\ UNCHANGED <<configVars, due, passVars, waits>>

\* Slip: a pass that finds the bus busy schedules its datapoints all the same.
TryAcquireReschedules(t) ==
  /\ pc[t] = "acquire"
  /\ \/ Acquire /\ Goto(t, "begin") /\ UNCHANGED <<job, due>>
     \/ AcquireFails /\ GoHome(t) /\ due' = due \ job[t].points
  /\ UNCHANGED <<configVars, passVars, waits>>

TryAcquire(t) ==
  /\ pc[t] = "acquire"
  /\ \/ Acquire /\ Goto(t, "begin") /\ UNCHANGED job
     \/ AcquireFails /\ GoHome(t)
  /\ UNCHANGED <<configVars, due, passVars, waits>>

Begin(t) ==
  /\ pc[t] = "begin"
  /\ NodeBegin(job[t].slave)
  /\ Goto(t, "request")
  /\ UNCHANGED <<configVars, due, job, passVars, waits>>

Transmit(t) ==
  /\ pc[t] = "request"
  /\ job[t].points # {}
  /\ PreTransmission
  /\ Goto(t, "tx")
  /\ UNCHANGED <<configVars, due, job, passVars, waits>>

Turnaround(t) ==
  /\ pc[t] = "tx"
  /\ PostTransmission
  /\ Goto(t, "rx")
  /\ UNCHANGED <<configVars, due, job, passVars, waits>>

\* The request is over; scheduleNext makes a polled datapoint wait again.
Finish(t) ==
  /\ job' = [job EXCEPT ![t].points = @ \ {Current(t)}]
  /\ due' = IF t = "loop" THEN due \ {Current(t)} ELSE due
  /\ Goto(t, "request")

Receive(t) ==
  /\ pc[t] = "rx"
  /\ \/ /\ Answer
        /\ Goto(t, "collect")
        /\ UNCHANGED <<job, due>>
     \/ /\ NoAnswer
        /\ Finish(t)
  /\ UNCHANGED <<configVars, passVars, waits>>

\* getResponseBuffer: the words are published, or copied to the caller.
Collect(t) ==
  /\ pc[t] = "collect"
  /\ success' = IF t = "loop" THEN TRUE ELSE success
  /\ Finish(t)
  /\ UNCHANGED <<busVars, configVars, rest, stale, attempted, led, waits>>

Leave(t) ==
  /\ pc[t] = "request"
  /\ job[t].points = {}
  /\ Release
  /\ GoHome(t)
  /\ UNCHANGED <<configVars, due, passVars, waits>>

-------------------------------------------------------------------------------
\* Time passes: nextDueAtMs of a configured datapoint is reached.
Tick(p) ==
  /\ p \in ReadsOf(devices) \ due
  /\ due' = due \cup {p}
  /\ UNCHANGED <<busVars, configVars, pc, job, passVars, waits>>

Reboot ==
  /\ BusReset
  /\ bus' = [serial |-> None, enabled |-> FALSE]
  /\ devices' = <<>>
  /\ due' = {}
  /\ writeSlaves' = {}
  /\ pc' = [t \in Tasks |-> IF t = "loop" THEN "boot" ELSE "idle"]
  /\ job' = [t \in Tasks |-> NoJob]
  /\ rest' = <<>>
  /\ stale' = FALSE
  /\ attempted' = FALSE
  /\ success' = FALSE
  /\ led' = FALSE
  /\ waits' = 0
  /\ UNCHANGED file

\* handleDeviceReset runs in "web".
Restart == pc["web"] = "idle" /\ Reboot

\* A data race on the device vector can also end in an exception.
Panic ==
  /\ \/ stale /\ InPass
     \/ pc["loop"] = "boot" /\ pc["web"] = "load"
  /\ Reboot

-------------------------------------------------------------------------------
\* What a task does by itself once it has started something.
BusStep(t) ==
  \/ LazyBegin(t) \/ TryAcquire(t) \/ Begin(t) \/ Transmit(t) \/ Turnaround(t)
  \/ Receive(t) \/ Collect(t) \/ Leave(t)

LoadStep(t) == LoadConfiguration(t) \/ Wire(t) \/ Activate(t)

LoopStep == LoadStep("loop") \/ StartPass \/ NextDevice \/ EndPass \/ BusStep("loop")

WebStep == WaitWhileBusy \/ LoadStep("web") \/ BusStep("web")

MqttStep == BusStep("mqtt")

Request ==
  \/ \E contents \in Configs \cup {Bad} : Reload(contents)
  \/ \E state \in BOOLEAN : Enable(state)
  \/ \E t \in {"web", "mqtt"}, slave \in Slaves, cmd \in Commands : Execute(t, slave, cmd)
  \/ Restart

Next ==
  \/ LoopStep
  \/ WebStep
  \/ MqttStep
  \/ Request
  \/ \E p \in Datapoints : Tick(p)
  \/ Panic

Spec == Init /\ [][Next]_vars

\* FreeRTOS runs each task whose delay is over, and a Modbus transaction ends
\* by itself after ModbusMaster's response timeout.
FairSpec == Spec /\ WF_vars(LoopStep) /\ WF_vars(WebStep) /\ WF_vars(MqttStep)
-------------------------------------------------------------------------------
(***************************************************************************)
(* Properties.                                                             *)
(***************************************************************************)
\* One task at a time is between acquire() and ~Guard(), and _busy says so:
\* no early return leaks the bus, no release frees somebody else's.
ExclusiveBus ==
  /\ \A t, u \in Tasks : pc[t] \in Critical /\ pc[u] \in Critical => t = u
  /\ busy <=> \E t \in Tasks : pc[t] \in Critical

\* The one ModbusMaster serves three tasks: between node.begin and the end of
\* the batch it addresses the slave of the task that owns the bus, and the words
\* that task collects were sent by that slave.
RepliesAreOwn ==
  \A t \in Tasks :
    /\ pc[t] \in Critical \ {"begin"} => node.slave = job[t].slave
    /\ pc[t] = "collect" => node.reply = job[t].slave

\* The transceiver drives the line only while the owner of the bus transmits;
\* a stuck direction pin would silence every slave.
DriverFollowsOwner == driving => \E t \in Tasks : pc[t] = "tx"

\* No transaction runs on a UART that was never set up: not when the web task
\* enables the bus, or an MQTT write arrives, before begin() has come that far.
NeverOnUnwiredBus == (\E t \in Tasks : pc[t] \in Critical) => initialized

\* The steps that may take a due datapoint off the list.
Rescheduled(p) ==
  \/ pc["loop"] \in {"rx", "collect"} /\ p = Current("loop")
  \/ pc["web"] = "load" \/ pc["loop"] = "boot"
  \/ pc'["loop"] = "boot"

\* A datapoint whose time has come is given up only by a transaction of the
\* polling task, or with its whole configuration: a pass that finds the bus busy
\* leaves it due for the next one.
MissedReadsStayDue == [][ \A p \in due \ due' : Rescheduled(p) ]_vars

\* The bus is handed from task to task as BusArbiter promises.
Owner ==
  IF \E t \in Tasks : pc[t] \in Critical
  THEN CHOOSE t \in Tasks : pc[t] \in Critical
  ELSE "nobody"

Arbiter == INSTANCE BusArbiter WITH Users <- Tasks, Nobody <- "nobody", owner <- Owner

ImplementsArbiter == Arbiter!Spec

\* The web task, blocked in reconfigureFromFile or in a command, gets back to its
\* clients however the other tasks use the bus.
RequestsEnd == pc["web"] # "idle" ~> pc["web"] = "idle"

\* A bus that is switched off for good is soon polled no more, and its LED is dark.
SwitchedOffGoesQuiet ==
  <>[]~active => <>[](pc["loop"] \notin Critical /\ ~led)

\* "Stop regular loop polling" (ModbusManager.cpp:173): once reconfigureFromFile
\* has replaced the devices, no pass still visits the ones it freed.
ReloadStopsPolling ==
  stale => rest = <<>> /\ pc["loop"] \notin Critical \cup {"acquire"}
===============================================================================
