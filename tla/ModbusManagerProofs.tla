-------------------------- MODULE ModbusManagerProofs --------------------------
(***************************************************************************)
(* Theorems about ModbusManager, for any slaves, datapoints, commands,     *)
(* configurations and bound on the wait in reconfigureFromFile.            *)
(*                                                                         *)
(* The order: type correctness; what a step may do to _busy (BusSteps),    *)
(* from which mutual exclusion and the refinement of BusArbiter follow;    *)
(* the invariants on the ModbusMaster, the direction pin and the UART.     *)
(***************************************************************************)
EXTENDS ModbusManager, TLAPS

\* The tuples of unchanged variables, and the way a task moves.
USE DEF busVars, configVars, passVars, Goto

-------------------------------------------------------------------------------
(***************************************************************************)
(* Type correctness, Boolean variables apart from the others.              *)
(***************************************************************************)
Flags ==
  /\ active \in BOOLEAN /\ initialized \in BOOLEAN /\ busy \in BOOLEAN /\ driving \in BOOLEAN
  /\ stale \in BOOLEAN /\ attempted \in BOOLEAN /\ success \in BOOLEAN /\ led \in BOOLEAN

Jobs == [Tasks -> [slave : Slaves \cup {None}, points : SUBSET (Datapoints \cup {Adhoc})]]

Data ==
  /\ serial \in Serials \cup {None}
  /\ node \in [slave : Slaves \cup {None}, reply : Slaves \cup {None}]
  /\ file \in Contents
  /\ bus \in [serial : Serials \cup {None}, enabled : BOOLEAN]
  /\ devices \in Seq(Device)
  /\ due \subseteq Datapoints
  /\ writeSlaves \subseteq Slaves
  /\ pc \in [Tasks -> Locations]
  /\ job \in Jobs
  /\ rest \in Seq(Device)
  /\ waits \in 0..MaxWaits

\* The two halves make up TypeOK.
LEMMA TypeParts == TypeOK <=> Flags /\ Data
  BY DEF TypeOK, BusTypeOK, Flags, Data, Jobs

\* After a power-up every variable has its type.
LEMMA InitTypeOK == Init => TypeOK
  <1>1. Init => Flags
    BY DEF Init, BusInit, Flags
  <1>2. Init => Data
    <2>1. BusInit => serial \in Serials \cup {None}
                     /\ node \in [slave : Slaves \cup {None}, reply : Slaves \cup {None}]
      BY DEF BusInit
    <2>2. Init => /\ file \in Contents
                  /\ bus \in [serial : Serials \cup {None}, enabled : BOOLEAN]
                  /\ devices \in Seq(Device) /\ rest \in Seq(Device)
                  /\ due \subseteq Datapoints /\ writeSlaves \subseteq Slaves
                  /\ waits \in 0..MaxWaits
      BY ManagerAssumption DEF Init
    <2>3. Init => pc \in [Tasks -> Locations] /\ job \in Jobs
      BY DEF Init, Locations, Jobs, NoJob
    <2> QED
      BY <2>1, <2>2, <2>3 DEF Data, Init
  <1> QED
    BY <1>1, <1>2, TypeParts

\* Every step stores Booleans in the flags.
LEMMA FlagsStep == Flags /\ [Next]_vars => Flags'
  <1> SUFFICES ASSUME Flags, [Next]_vars PROVE Flags'
    OBVIOUS
  <1> USE DEF Flags
  <1>1. CASE UNCHANGED vars
    BY <1>1 DEF vars
  <1>2. ASSUME NEW t \in Tasks, BusStep(t) PROVE Flags'
    BY <1>2 DEF BusStep, LazyBegin, BeginBus, TryAcquire, Acquire, AcquireFails, Begin, NodeBegin, Transmit,
       PreTransmission, Turnaround, PostTransmission, Receive, Answer, NoAnswer, Finish, Collect, Leave, Release, GoHome
  <1>3. ASSUME NEW t \in Tasks, LoadStep(t) PROVE Flags'
    <2>1. CASE LoadConfiguration(t)
      <3>1. stale' = stale \/ stale' = InPass
        BY <2>1 DEF LoadConfiguration, ReplaceDevices
      <3>2. InPass \in BOOLEAN
        BY DEF InPass
      <3> QED
        BY <2>1, <3>1, <3>2 DEF LoadConfiguration
    <2>2. CASE Wire(t)
      BY <2>2 DEF Wire, BeginBus
    <2>3. CASE Activate(t)
      <3>1. (pc[t] = "activate" /\ bus.enabled) \in BOOLEAN
        OBVIOUS
      <3> QED
      BY <2>3, <3>1 DEF Activate, SetActive
    <2> QED
      BY <1>3, <2>1, <2>2, <2>3 DEF LoadStep
  <1>4. ASSUME StartPass \/ NextDevice \/ EndPass PROVE Flags'
    BY <1>4 DEF StartPass, NextDevice, Visit, EndPass
  <1>5. ASSUME WaitWhileBusy PROVE Flags'
    BY <1>5 DEF WaitWhileBusy
  <1>6. ASSUME Reboot PROVE Flags'
    BY <1>6 DEF Reboot, BusReset
  <1>7. ASSUME Request PROVE Flags'
    <2>1. ASSUME NEW contents \in Configs \cup {Bad}, Reload(contents) PROVE Flags'
      BY <2>1 DEF Reload, SetActive
    <2>2. ASSUME NEW state \in BOOLEAN, Enable(state) PROVE Flags'
      BY <2>2 DEF Enable, SetActive
    <2>3. ASSUME NEW t, NEW slave, NEW cmd, Execute(t, slave, cmd) PROVE Flags'
      BY <2>3 DEF Execute
    <2> QED
      BY <1>6, <1>7, <2>1, <2>2, <2>3 DEF Request, Restart
  <1>8. ASSUME NEW p \in Datapoints, Tick(p) PROVE Flags'
    BY <1>8 DEF Tick
  <1> QED
    BY <1>1, <1>2, <1>3, <1>4, <1>5, <1>6, <1>7, <1>8 DEF Next, LoopStep, WebStep, MqttStep, Panic, Tasks

\* What a loader makes due are datapoints.
LEMMA ReadsAreDatapoints ==
  ASSUME NEW devs \in Seq(Device) PROVE ReadsOf(devs) \subseteq Datapoints
  <1>1. ASSUME NEW i \in 1..Len(devs) PROVE devs[i] \in Device
    OBVIOUS
  <1> QED BY <1>1 DEF ReadsOf, Device

\* Every step keeps the type of the other variables.
LEMMA DataStep == Data /\ [Next]_vars => Data'
  <1> SUFFICES ASSUME Data, [Next]_vars PROVE Data'
    OBVIOUS
  <1> USE DEF Data
  <1>1. CASE UNCHANGED vars
    BY <1>1 DEF vars
  <1>2. ASSUME NEW t \in Tasks, BusStep(t) PROVE Data'
    <2> /\ pc[t] \in Locations
        /\ job[t] \in [slave : Slaves \cup {None}, points : SUBSET (Datapoints \cup {Adhoc})]
        /\ NoJob \in [slave : Slaves \cup {None}, points : SUBSET (Datapoints \cup {Adhoc})]
      BY DEF Jobs, NoJob
    <2>1. CASE LazyBegin(t)
      BY <2>1, ManagerAssumption DEF LazyBegin, BeginBus, Locations
    <2>2. CASE TryAcquire(t)
      <3>1. CASE Acquire /\ Goto(t, "begin") /\ UNCHANGED job
        BY <2>2, <3>1 DEF TryAcquire, Acquire, Locations
      <3>2. CASE AcquireFails /\ GoHome(t)
        BY <2>2, <3>2 DEF TryAcquire, AcquireFails, GoHome, Locations, Jobs
      <3> QED
        BY <2>2, <3>1, <3>2 DEF TryAcquire
    <2>3. CASE Begin(t)
      BY <2>3 DEF Begin, NodeBegin, Locations
    <2>4. CASE Transmit(t)
      BY <2>4 DEF Transmit, PreTransmission, Locations
    <2>5. CASE Turnaround(t)
      BY <2>5 DEF Turnaround, PostTransmission, Locations
    <2>6. ASSUME Finish(t)
          PROVE  job' \in Jobs /\ due' \subseteq Datapoints /\ pc' \in [Tasks -> Locations]
      BY <2>6 DEF Finish, Jobs, Locations
    <2>7. CASE Receive(t)
      <3>1. CASE Answer /\ Goto(t, "collect") /\ UNCHANGED <<job, due>>
        BY <2>7, <3>1 DEF Receive, Answer, Locations
      <3>2. CASE NoAnswer /\ Finish(t)
        BY <2>7, <3>2, <2>6 DEF Receive, NoAnswer
      <3> QED
        BY <2>7, <3>1, <3>2 DEF Receive
    <2>8. CASE Collect(t)
      BY <2>8, <2>6 DEF Collect
    <2>9. CASE Leave(t)
      BY <2>9 DEF Leave, Release, GoHome, Locations, Jobs
    <2> QED
      BY <1>2, <2>1, <2>2, <2>3, <2>4, <2>5, <2>7, <2>8, <2>9 DEF BusStep
  <1>3. ASSUME NEW t \in Tasks, LoadStep(t) PROVE Data'
    <2> USE DEF Locations
    <2>1. CASE LoadConfiguration(t)
      <3>1. ASSUME file \in Configs
            PROVE  /\ [serial |-> file.serial, enabled |-> file.enabled] \in [serial : Serials \cup {None}, enabled : BOOLEAN]
                   /\ file.devices \in Seq(Device) /\ file.writes \subseteq Slaves
        BY <3>1, ManagerAssumption DEF Config
      <3>2. pc' \in [Tasks -> Locations] /\ serial' = serial /\ UNCHANGED <<node, file, job, rest, waits>>
        BY <2>1 DEF LoadConfiguration
      <3>3. CASE file = Missing /\ bus' = [bus EXCEPT !.serial = DefaultSerial] /\ ReplaceDevices(<<>>) /\ UNCHANGED writeSlaves
        <4>1. <<>> \in Seq(Device)
          OBVIOUS
        <4>2. bus' \in [serial : Serials \cup {None}, enabled : BOOLEAN]
          BY <3>3, ManagerAssumption
        <4> QED
          BY <3>2, <3>3, <4>1, <4>2, ReadsAreDatapoints DEF ReplaceDevices
      <3>4. CASE UNCHANGED <<bus, devices, due, stale, writeSlaves>>
        BY <3>2, <3>4
      <3>5. CASE /\ file \in Configs
                 /\ bus' = [serial |-> file.serial, enabled |-> file.enabled]
                 /\ ReplaceDevices(file.devices)
                 /\ writeSlaves' \in {writeSlaves, file.writes}
        BY <3>1, <3>2, <3>5, ReadsAreDatapoints DEF ReplaceDevices
      <3> QED
        BY <2>1, <3>3, <3>4, <3>5 DEF LoadConfiguration
    <2>2. CASE Wire(t)
      BY <2>2 DEF Wire, BeginBus
    <2>3. CASE Activate(t)
      BY <2>3 DEF Activate, SetActive
    <2> QED
      BY <1>3, <2>1, <2>2, <2>3 DEF LoadStep
  <1>4. ASSUME StartPass \/ NextDevice \/ EndPass PROVE Data'
    <2> USE DEF Locations
    <2>1. CASE StartPass
      BY <2>1 DEF StartPass
    <2>2. CASE NextDevice
      <3>1. Tail(rest) \in Seq(Device) /\ Head(rest) \in Device
        BY <2>2 DEF NextDevice
      <3>2. ASSUME NEW slave \in Slaves, NEW points \in SUBSET Datapoints, Visit(slave, points)
            PROVE  job' \in Jobs /\ pc' \in [Tasks -> Locations] /\ rest' \in Seq(Device)
        BY <3>1, <3>2 DEF Visit, Jobs, Tasks
      <3>3. Head(rest).slave \in Slaves /\ Head(rest).reads \cap due \in SUBSET Datapoints
        BY <3>1 DEF Device
      <3> QED
        BY <2>2, <3>2, <3>3 DEF NextDevice
    <2>3. CASE EndPass
      BY <2>3 DEF EndPass
    <2> QED
      BY <1>4, <2>1, <2>2, <2>3
  <1>5. ASSUME WaitWhileBusy PROVE Data'
    BY <1>5, ManagerAssumption DEF WaitWhileBusy, Locations
  <1>6. ASSUME Reboot PROVE Data'
    BY <1>6, ManagerAssumption DEF Reboot, BusReset, Locations, Jobs, NoJob
  <1>7. ASSUME Request PROVE Data'
    <2> USE DEF Locations
    <2>1. ASSUME NEW contents \in Configs \cup {Bad}, Reload(contents) PROVE Data'
      BY <2>1 DEF Reload, SetActive, Contents
    <2>2. ASSUME NEW state \in BOOLEAN, Enable(state) PROVE Data'
      BY <2>2 DEF Enable, SetActive
    <2>3. ASSUME NEW t \in Tasks, NEW slave \in Slaves, NEW cmd, Execute(t, slave, cmd) PROVE Data'
      BY <2>3 DEF Execute, Jobs
    <2> QED
      BY <1>6, <1>7, <2>1, <2>2, <2>3 DEF Request, Restart, Tasks
  <1>8. ASSUME NEW p \in Datapoints, Tick(p) PROVE Data'
    BY <1>8 DEF Tick
  <1> QED
    BY <1>1, <1>2, <1>3, <1>4, <1>5, <1>6, <1>7, <1>8 DEF Next, LoopStep, WebStep, MqttStep, Panic, Tasks

\* Every variable keeps its type, in particular the count of waits its bound.
THEOREM TypeCorrect == Spec => []TypeOK
  <1>1. TypeOK /\ [Next]_vars => TypeOK'
    BY FlagsStep, DataStep DEF TypeOK, BusTypeOK, Flags, Data, Jobs
  <1> QED
    BY <1>1, InitTypeOK, PTL DEF Spec

-------------------------------------------------------------------------------
(***************************************************************************)
(* The four things a step may do to the bus.                               *)
(***************************************************************************)
Quiet ==
  /\ busy' = busy
  /\ \A t \in Tasks : pc'[t] \in Critical <=> pc[t] \in Critical

Enters(t) ==
  /\ ~busy /\ busy'
  /\ pc[t] \notin Critical
  /\ pc' = [pc EXCEPT ![t] = "begin"]

Leaves(t) ==
  /\ ~busy'
  /\ pc[t] \in Critical
  /\ pc' = [pc EXCEPT ![t] = IF t = "loop" THEN "scan" ELSE "idle"]

Boots ==
  /\ ~busy'
  /\ \A t \in Tasks : pc'[t] \notin Critical

\* Only acquire() and the destructor of a Guard, or a restart, touch _busy, and a
\* task is between the two exactly when its location says so.
LEMMA BusSteps ==
  ASSUME TypeOK, [Next]_vars
  PROVE  Quiet \/ Boots \/ \E t \in Tasks : Enters(t) \/ Leaves(t)
  <1> USE DEF Critical
  <1>0. pc \in [Tasks -> Locations] /\ busy \in BOOLEAN
    BY DEF TypeOK, BusTypeOK
  <1>1. CASE UNCHANGED vars
    BY <1>1 DEF vars, Quiet
  <1>2. ASSUME NEW t \in Tasks, BusStep(t)
        PROVE  Quiet \/ Enters(t) \/ Leaves(t)
    <2>1. CASE LazyBegin(t)
      BY <1>0, <2>1 DEF LazyBegin, BeginBus, Quiet
    <2>2. CASE TryAcquire(t)
      BY <1>0, <2>2 DEF TryAcquire, Acquire, AcquireFails, GoHome, Quiet, Enters
    <2>3. CASE Begin(t)
      BY <1>0, <2>3 DEF Begin, NodeBegin, Quiet
    <2>4. CASE Transmit(t)
      BY <1>0, <2>4 DEF Transmit, PreTransmission, Quiet
    <2>5. CASE Turnaround(t)
      BY <1>0, <2>5 DEF Turnaround, PostTransmission, Quiet
    <2>6. CASE Receive(t)
      BY <1>0, <2>6 DEF Receive, Answer, NoAnswer, Finish, Quiet
    <2>7. CASE Collect(t)
      BY <1>0, <2>7 DEF Collect, Finish, Quiet
    <2>8. CASE Leave(t)
      BY <1>0, <2>8 DEF Leave, Release, GoHome, Leaves
    <2> QED
      BY <1>2, <2>1, <2>2, <2>3, <2>4, <2>5, <2>6, <2>7, <2>8 DEF BusStep
  <1>3. ASSUME NEW t \in Tasks, LoadStep(t) PROVE Quiet
    BY <1>0, <1>3 DEF LoadStep, LoadConfiguration, Wire, BeginBus, Activate, SetActive, Quiet
  <1>4. ASSUME StartPass \/ NextDevice \/ EndPass PROVE Quiet
    BY <1>0, <1>4 DEF StartPass, NextDevice, Visit, EndPass, Quiet
  <1>5. ASSUME WaitWhileBusy PROVE Quiet
    BY <1>0, <1>5 DEF WaitWhileBusy, Quiet
  <1>6. ASSUME Reboot PROVE Boots
    BY <1>6 DEF Reboot, BusReset, Boots
  <1>7. ASSUME Request PROVE Quiet \/ Boots
    BY <1>0, <1>6, <1>7 DEF Request, Restart, Reload, Enable, SetActive, Execute, Quiet
  <1>8. ASSUME NEW p \in Datapoints, Tick(p) PROVE Quiet
    BY <1>8 DEF Tick, Quiet
  <1> QED
    BY <1>1, <1>2, <1>3, <1>4, <1>5, <1>6, <1>7, <1>8
    DEF Next, LoopStep, WebStep, MqttStep, Panic, Tasks

\* Mutual exclusion is inductive: it needs no more than the four kinds of steps.
LEMMA ExclusiveBusStep ==
  ASSUME TypeOK, ExclusiveBus, [Next]_vars
  PROVE  ExclusiveBus'
  <1>0. pc \in [Tasks -> Locations]
    BY DEF TypeOK
  <1>1. CASE Quiet
    BY <1>1 DEF Quiet, ExclusiveBus
  <1>2. CASE Boots
    BY <1>2 DEF Boots, ExclusiveBus
  <1>3. ASSUME NEW t \in Tasks, Enters(t) PROVE ExclusiveBus'
    BY <1>0, <1>3 DEF Enters, ExclusiveBus, Critical
  <1>4. ASSUME NEW t \in Tasks, Leaves(t) PROVE ExclusiveBus'
    BY <1>0, <1>4 DEF Leaves, ExclusiveBus, Critical
  <1> QED
    BY <1>1, <1>2, <1>3, <1>4, BusSteps

\* Mutual exclusion of the three tasks on the RS-485 bus, and _busy says who has it.
THEOREM BusIsExclusive == Spec => []ExclusiveBus
  <1>1. Init => ExclusiveBus
    BY DEF Init, BusInit, ExclusiveBus, Critical
  <1> QED
    BY <1>1, TypeCorrect, ExclusiveBusStep, PTL DEF Spec

-------------------------------------------------------------------------------
(***************************************************************************)
(* The refinement of BusArbiter.                                           *)
(***************************************************************************)
\* The owner is whoever is between acquire() and ~Guard().
LEMMA OwnerIs ==
  ASSUME ExclusiveBus
  PROVE  /\ \A t \in Tasks : pc[t] \in Critical => Owner = t
         /\ (\A t \in Tasks : pc[t] \notin Critical) => Owner = "nobody"
  BY DEF ExclusiveBus, Owner

\* A step that changes the owner is one of the arbiter's.
LEMMA ArbiterStep ==
  ASSUME TypeOK, ExclusiveBus, ExclusiveBus', [Next]_vars
  PROVE  [Arbiter!Next]_Owner
  <1>0. pc \in [Tasks -> Locations]
    BY DEF TypeOK
  <1>a. /\ \A t \in Tasks : pc'[t] \in Critical => Owner' = t
        /\ (\A t \in Tasks : pc'[t] \notin Critical) => Owner' = "nobody"
    BY DEF ExclusiveBus, Owner
  <1>1. CASE Quiet
    <2>1. Owner' = Owner
      BY <1>1, <1>a, OwnerIs DEF Quiet
    <2> QED
      BY <2>1
  <1>2. CASE Boots
    BY <1>2, <1>a DEF Boots, Arbiter!Next, Arbiter!Reset
  <1>3. ASSUME NEW t \in Tasks, Enters(t) PROVE Arbiter!Grant(t)
    <2>1. Owner = "nobody"
      BY <1>3, OwnerIs DEF Enters, ExclusiveBus
    <2>2. Owner' = t
      BY <1>0, <1>3, <1>a DEF Enters, Critical
    <2> QED
      BY <2>1, <2>2 DEF Arbiter!Grant
  <1>4. ASSUME NEW t \in Tasks, Leaves(t) PROVE Arbiter!Yield(t)
    <2>1. Owner = t
      BY <1>4, OwnerIs DEF Leaves
    <2>2. Owner' = "nobody"
      BY <1>0, <1>4, <1>a DEF Leaves, ExclusiveBus
    <2> QED
      BY <2>1, <2>2 DEF Arbiter!Yield
  <1> QED
    BY <1>1, <1>2, <1>3, <1>4, BusSteps DEF Arbiter!Next

\* The CAS on _busy and the Guards implement the arbiter: the bus goes from one task
\* to the next only by way of nobody, whatever the tasks do in between.
THEOREM RefinesArbiter == Spec => ImplementsArbiter
  <1>1. Init => Arbiter!Init
    BY DEF Init, Owner, Critical, Arbiter!Init
  <1>2. TypeOK /\ ExclusiveBus /\ ExclusiveBus' /\ [Next]_vars => [Arbiter!Next]_Owner
    BY ArbiterStep
  <1> QED
    BY <1>1, <1>2, TypeCorrect, BusIsExclusive, PTL DEF Spec, ImplementsArbiter, Arbiter!Spec

-------------------------------------------------------------------------------
(***************************************************************************)
(* The direction pin.                                                      *)
(***************************************************************************)
\* Every step keeps the pin low outside of a transmission.
LEMMA DriverStep ==
  ASSUME TypeOK, DriverFollowsOwner, [Next]_vars
  PROVE  DriverFollowsOwner'
  <1> USE DEF DriverFollowsOwner
  <1>0. pc \in [Tasks -> Locations]
    BY DEF TypeOK
  <1>1. CASE UNCHANGED vars
    BY <1>1 DEF vars
  <1>2. ASSUME NEW t \in Tasks, BusStep(t) PROVE DriverFollowsOwner'
    <2>1. CASE LazyBegin(t)
      BY <2>1 DEF LazyBegin, BeginBus
    <2>2. CASE TryAcquire(t)
      BY <1>0, <2>2 DEF TryAcquire, Acquire, AcquireFails, GoHome
    <2>3. CASE Begin(t)
      BY <1>0, <2>3 DEF Begin, NodeBegin
    <2>4. CASE Transmit(t)
      BY <1>0, <2>4 DEF Transmit
    <2>5. CASE Turnaround(t)
      BY <2>5 DEF Turnaround, PostTransmission
    <2>6. CASE Receive(t)
      BY <1>0, <2>6 DEF Receive, Answer, NoAnswer, Finish
    <2>7. CASE Collect(t)
      BY <1>0, <2>7 DEF Collect, Finish
    <2>8. CASE Leave(t)
      BY <1>0, <2>8 DEF Leave, Release, GoHome
    <2> QED
      BY <1>2, <2>1, <2>2, <2>3, <2>4, <2>5, <2>6, <2>7, <2>8 DEF BusStep
  <1>3. ASSUME NEW t \in Tasks, LoadStep(t) PROVE DriverFollowsOwner'
    BY <1>0, <1>3 DEF LoadStep, LoadConfiguration, Wire, BeginBus, Activate, SetActive
  <1>4. ASSUME StartPass \/ NextDevice \/ EndPass PROVE DriverFollowsOwner'
    BY <1>0, <1>4 DEF StartPass, NextDevice, Visit, EndPass
  <1>5. ASSUME WaitWhileBusy PROVE DriverFollowsOwner'
    BY <1>0, <1>5 DEF WaitWhileBusy
  <1>6. ASSUME Reboot PROVE DriverFollowsOwner'
    BY <1>6 DEF Reboot, BusReset
  <1>7. ASSUME Request PROVE DriverFollowsOwner'
    BY <1>0, <1>6, <1>7 DEF Request, Restart, Reload, Enable, SetActive, Execute
  <1>8. ASSUME NEW p \in Datapoints, Tick(p) PROVE DriverFollowsOwner'
    BY <1>8 DEF Tick
  <1> QED
    BY <1>1, <1>2, <1>3, <1>4, <1>5, <1>6, <1>7, <1>8
    DEF Next, LoopStep, WebStep, MqttStep, Panic, Tasks

\* The transceiver is never left driving the line outside of a transmission.
THEOREM DriverIsReleased == Spec => []DriverFollowsOwner
  <1>1. Init => DriverFollowsOwner
    BY DEF Init, BusInit, DriverFollowsOwner
  <1> QED
    BY <1>1, TypeCorrect, DriverStep, PTL DEF Spec

-------------------------------------------------------------------------------
(***************************************************************************)
(* The ModbusMaster: nobody but the owner of the bus changes its slave or  *)
(* its response buffer, and the owner's job stays as it is until it leaves.*)
(***************************************************************************)
\* Every step keeps slave and response buffer with the owner of the bus.
LEMMA RepliesStep ==
  ASSUME TypeOK, ExclusiveBus, RepliesAreOwn, [Next]_vars
  PROVE  RepliesAreOwn'
  <1> USE DEF Critical
  <1>0. /\ pc \in [Tasks -> Locations]
        /\ job \in [Tasks -> [slave : Slaves \cup {None}, points : SUBSET (Datapoints \cup {Adhoc})]]
        /\ node \in [slave : Slaves \cup {None}, reply : Slaves \cup {None}]
    BY DEF TypeOK, BusTypeOK
  <1>a. ASSUME UNCHANGED node,
               \A t \in Tasks : \/ pc'[t] = pc[t] /\ job'[t] = job[t]
                               \/ pc'[t] \notin Critical \ {"begin"}
        PROVE  RepliesAreOwn'
    BY <1>a DEF RepliesAreOwn
  <1>1. CASE UNCHANGED vars
    BY <1>1, <1>a DEF vars, busVars
  <1>2. ASSUME NEW t \in Tasks, BusStep(t) PROVE RepliesAreOwn'
    <2>1. CASE LazyBegin(t)
      BY <1>0, <1>a, <2>1 DEF LazyBegin, BeginBus
    <2>2. CASE TryAcquire(t)
      BY <1>0, <1>a, <2>2 DEF TryAcquire, Acquire, AcquireFails, GoHome, busVars
    <2>3. CASE Begin(t)
      <3>1. node'.slave = job[t].slave /\ job' = job /\ pc' = [pc EXCEPT ![t] = "request"]
        BY <1>0, <2>3 DEF Begin, NodeBegin
      <3>2. \A u \in Tasks \ {t} : pc'[u] \notin Critical
        BY <1>0, <2>3, <3>1 DEF Begin, ExclusiveBus
      <3> QED
        BY <1>0, <3>1, <3>2 DEF RepliesAreOwn
    <2>4. CASE Transmit(t)
      BY <1>0, <2>4 DEF Transmit, PreTransmission, RepliesAreOwn
    <2>5. CASE Turnaround(t)
      BY <1>0, <2>5 DEF Turnaround, PostTransmission, RepliesAreOwn
    <2>6. CASE Receive(t)
      <3>0. \A u \in Tasks \ {t} : pc[u] \notin Critical
        BY <2>6 DEF Receive, ExclusiveBus
      <3>1. node.slave = job[t].slave
        BY <2>6 DEF Receive, RepliesAreOwn
      <3>2. node'.slave = node.slave /\ job'[t].slave = job[t].slave
        BY <1>0, <2>6 DEF Receive, Answer, NoAnswer, Finish
      <3>3. \A u \in Tasks \ {t} : pc'[u] \notin Critical
        BY <1>0, <2>6, <3>0 DEF Receive, Finish
      <3>4. pc'[t] = "collect" => node'.reply = node.slave
        BY <1>0, <2>6 DEF Receive, Answer, Finish
      <3> QED
        BY <1>0, <3>1, <3>2, <3>3, <3>4 DEF RepliesAreOwn
    <2>7. CASE Collect(t)
      <3>1. \A u \in Tasks \ {t} : pc'[u] = pc[u] /\ job'[u] = job[u]
        BY <1>0, <2>7 DEF Collect, Finish
      <3>2. pc'[t] = "request" /\ job'[t].slave = job[t].slave /\ node' = node
        BY <1>0, <2>7 DEF Collect, Finish, busVars
      <3> QED
        BY <1>0, <2>7, <3>1, <3>2 DEF Collect, RepliesAreOwn
    <2>8. CASE Leave(t)
      BY <1>0, <1>a, <2>8 DEF Leave, Release, GoHome
    <2> QED
      BY <1>2, <2>1, <2>2, <2>3, <2>4, <2>5, <2>6, <2>7, <2>8 DEF BusStep
  <1>3. ASSUME NEW t \in Tasks, LoadStep(t) PROVE RepliesAreOwn'
    BY <1>0, <1>3, <1>a DEF LoadStep, LoadConfiguration, Wire, BeginBus, Activate, SetActive, busVars
  <1>4. ASSUME StartPass \/ NextDevice \/ EndPass PROVE RepliesAreOwn'
    BY <1>0, <1>4, <1>a DEF StartPass, NextDevice, Visit, EndPass, busVars
  <1>5. ASSUME WaitWhileBusy PROVE RepliesAreOwn'
    BY <1>0, <1>5, <1>a DEF WaitWhileBusy, busVars
  <1>6. ASSUME Reboot PROVE RepliesAreOwn'
    BY <1>6 DEF Reboot, RepliesAreOwn
  <1>7. ASSUME Request PROVE RepliesAreOwn'
    BY <1>0, <1>6, <1>7, <1>a DEF Request, Restart, Reload, Enable, SetActive, Execute, busVars
  <1>8. ASSUME NEW p \in Datapoints, Tick(p) PROVE RepliesAreOwn'
    BY <1>8, <1>a DEF Tick, busVars
  <1> QED
    BY <1>1, <1>2, <1>3, <1>4, <1>5, <1>6, <1>7, <1>8
    DEF Next, LoopStep, WebStep, MqttStep, Panic, Tasks

\* No task ever publishes, or returns, words that another slave sent.
THEOREM RepliesAreTheirOwn == Spec => []RepliesAreOwn
  <1>1. Init => RepliesAreOwn
    BY DEF Init, RepliesAreOwn, Critical
  <1> QED
    BY <1>1, TypeCorrect, BusIsExclusive, RepliesStep, PTL DEF Spec

-------------------------------------------------------------------------------
(***************************************************************************)
(* The UART is set up before it is used.  That a task has come as far as   *)
(* acquire() is not enough: the invariant follows the two other ways to    *)
(* the bus, the devices and the active flag, back to begin().              *)
(***************************************************************************)
\* The inductive invariant behind NeverOnUnwiredBus.
Wired ==
  \* whoever is that far has seen _initialized, or set it
  /\ \A t \in Tasks : pc[t] \in Critical \cup {"acquire", "activate"} => initialized
  /\ pc["loop"] = "scan" /\ rest # <<>> => initialized
  \* devices come with a configuration, whose begin() is the loader's next step
  /\ devices # <<>> => initialized \/ pc["web"] = "wire" \/ pc["loop"] = "wire"
  \* while the web task loads one, an active bus is one that works already
  /\ pc["web"] \in {"wait", "load", "wire"} /\ active => initialized

\* Every step keeps it.
LEMMA WiredStep ==
  ASSUME TypeOK, Wired, [Next]_vars
  PROVE  Wired'
  <1> USE DEF Critical
  <1>0. pc \in [Tasks -> Locations]
    BY DEF TypeOK
  <1>t. Tasks = {"loop", "web", "mqtt"}
    BY DEF Tasks
  <1>1. CASE UNCHANGED vars
    BY <1>1 DEF vars, busVars, configVars, passVars, Wired
  <1>2. ASSUME NEW t \in Tasks, BusStep(t) PROVE Wired'
    <2>1. CASE LazyBegin(t)
      BY <2>1 DEF LazyBegin, BeginBus, Wired
    <2>2. ASSUME pc[t] \in Critical \cup {"acquire"}, UNCHANGED <<initialized>>
          PROVE  Wired'
      <3>1. initialized /\ initialized'
        BY <2>2 DEF Wired
      <3> QED
        BY <3>1 DEF Wired
    <2> QED
      BY <1>2, <2>1, <2>2 DEF BusStep, TryAcquire, Acquire, AcquireFails, Begin, NodeBegin, Transmit,
        PreTransmission, Turnaround, PostTransmission, Receive, Answer, NoAnswer, Collect, Leave, Release, busVars
  <1>3. ASSUME NEW t \in {"loop", "web"}, LoadStep(t) PROVE Wired'
    <2>1. CASE LoadConfiguration(t)
      <3>1. initialized' = initialized /\ active' = active /\ rest' = rest
        BY <2>1 DEF LoadConfiguration, busVars
      <3>2. \/ devices' = <<>> /\ pc' = [pc EXCEPT ![t] = "deactivate"]
            \/ devices' = devices /\ pc' = [pc EXCEPT ![t] = "deactivate"]
            \/ pc' = [pc EXCEPT ![t] = "wire"]
        BY <2>1 DEF LoadConfiguration, ReplaceDevices, Goto
      <3>3. \/ t = "loop" /\ pc[t] = "boot"
            \/ t = "web" /\ pc[t] = "load"
        BY <2>1 DEF LoadConfiguration
      <3> QED
        BY <1>0, <1>t, <3>1, <3>2, <3>3 DEF Wired
    <2>2. CASE Wire(t)
      BY <2>2 DEF Wire, BeginBus, Wired
    <2>3. CASE Activate(t)
      <3>1. initialized' = initialized /\ rest' = rest /\ devices' = devices
            /\ pc' = [pc EXCEPT ![t] = "idle"]
            /\ (active' => pc[t] = "activate")
        BY <2>3 DEF Activate, SetActive, configVars, passVars
      <3>2. pc[t] \in {"activate", "deactivate"}
        BY <2>3 DEF Activate
      <3> QED
        BY <1>0, <1>t, <3>1, <3>2 DEF Wired
    <2> QED
      BY <1>3, <2>1, <2>2, <2>3 DEF LoadStep
  <1>4. ASSUME StartPass \/ NextDevice \/ EndPass PROVE Wired'
    <2>1. CASE StartPass
      BY <1>0, <1>t, <2>1 DEF StartPass, busVars, configVars, Wired
    <2>2. CASE NextDevice
      BY <1>0, <1>t, <2>2 DEF NextDevice, Visit, busVars, configVars, Wired
    <2>3. CASE EndPass
      BY <1>0, <1>t, <2>3 DEF EndPass, busVars, configVars, Wired
    <2> QED
      BY <1>4, <2>1, <2>2, <2>3
  <1>5. ASSUME WaitWhileBusy PROVE Wired'
    BY <1>0, <1>t, <1>5 DEF WaitWhileBusy, busVars, configVars, passVars, Wired
  <1>6. ASSUME Reboot PROVE Wired'
    BY <1>t, <1>6 DEF Reboot, BusReset, Wired
  <1>7. ASSUME Request PROVE Wired'
    <2>1. ASSUME NEW contents \in Configs \cup {Bad}, Reload(contents) PROVE Wired'
      BY <1>0, <1>t, <2>1 DEF Reload, SetActive, passVars, Wired
    <2>2. ASSUME NEW state \in BOOLEAN, Enable(state) PROVE Wired'
      BY <1>0, <1>t, <2>2 DEF Enable, SetActive, configVars, passVars, Wired
    <2>3. ASSUME NEW t \in {"web", "mqtt"}, NEW slave, NEW cmd, Execute(t, slave, cmd) PROVE Wired'
      BY <1>0, <1>t, <2>3 DEF Execute, busVars, configVars, passVars, Wired
    <2> QED
      BY <1>6, <1>7, <2>1, <2>2, <2>3 DEF Request, Restart
  <1>8. ASSUME NEW p \in Datapoints, Tick(p) PROVE Wired'
    BY <1>8 DEF Tick, busVars, configVars, passVars, Wired
  <1> QED
    BY <1>1, <1>2, <1>3, <1>4, <1>5, <1>6, <1>7, <1>8
    DEF Next, LoopStep, WebStep, MqttStep, Panic, Tasks

\* No transaction starts on a UART that begin() has not set up, although the web
\* server runs before it and enabling the bus checks nothing.
THEOREM UartIsSetUpFirst == Spec => []NeverOnUnwiredBus
  <1>1. Init => Wired
    BY DEF Init, BusInit, Wired, Critical
  <1>2. Wired => NeverOnUnwiredBus
    BY DEF Wired, NeverOnUnwiredBus
  <1> QED
    BY <1>1, <1>2, TypeCorrect, WiredStep, PTL DEF Spec

-------------------------------------------------------------------------------
\* Only a transaction of the polling task, a reload or a restart takes a due
\* datapoint off the list.
THEOREM NoReadIsForgotten == Spec => MissedReadsStayDue
  <1>1. ASSUME [Next]_vars, NEW p \in due \ due'
        PROVE  Rescheduled(p)
    <2>0. p \in due /\ p \notin due'
      BY <1>1
    <2>1. CASE UNCHANGED vars
      BY <2>0, <2>1 DEF vars
    <2>2. ASSUME NEW t \in Tasks, BusStep(t) PROVE Rescheduled(p)
      <3>1. CASE Receive(t) \/ Collect(t)
        BY <2>0, <3>1 DEF Receive, Collect, Finish, Rescheduled
      <3> QED
        BY <2>0, <2>2, <3>1 DEF BusStep, LazyBegin, TryAcquire, Begin, Transmit, Turnaround, Leave
    <2>3. ASSUME NEW t \in {"loop", "web"}, LoadStep(t) PROVE Rescheduled(p)
      BY <2>0, <2>3 DEF LoadStep, LoadConfiguration, Wire, Activate, Rescheduled
    <2>4. ASSUME StartPass \/ NextDevice \/ EndPass PROVE Rescheduled(p)
      BY <2>0, <2>4 DEF StartPass, NextDevice, EndPass
    <2>5. ASSUME WaitWhileBusy PROVE Rescheduled(p)
      BY <2>0, <2>5 DEF WaitWhileBusy
    <2>6. ASSUME Reboot PROVE Rescheduled(p)
      <3>1. pc'["loop"] = "boot"
        BY <2>6 DEF Reboot, Tasks
      <3> QED
        BY <3>1 DEF Rescheduled
    <2>7. ASSUME Request PROVE Rescheduled(p)
      BY <2>0, <2>6, <2>7 DEF Request, Restart, Reload, Enable, Execute
    <2>8. ASSUME NEW q \in Datapoints, Tick(q) PROVE Rescheduled(p)
      BY <2>0, <2>8 DEF Tick
    <2> QED
      BY <1>1, <2>1, <2>2, <2>3, <2>4, <2>5, <2>6, <2>7, <2>8
      DEF Next, LoopStep, WebStep, MqttStep, Panic, Tasks
  <1>2. [Next]_vars => [\A p \in due \ due' : Rescheduled(p)]_vars
    BY <1>1
  <1> QED
    BY <1>2, PTL DEF Spec, MissedReadsStayDue
===============================================================================
