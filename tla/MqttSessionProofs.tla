--------------------------- MODULE MqttSessionProofs ---------------------------
(***************************************************************************)
(* Theorems about MqttSession, for any brokers, roots, settings and Modbus *)
(* configurations.                                                         *)
(***************************************************************************)
EXTENDS MqttSession, TLAPS

\* The tuples of unchanged variables, and the way a task moves.
USE DEF localVars, topicVars, rebuildVars, flagVars, edgeVars, linkVars, brokerVars, Goto

-------------------------------------------------------------------------------
(***************************************************************************)
(* Type correctness, Boolean variables apart from the others.              *)
(***************************************************************************)
Places == [mqtt : {"home", "connect", "dial", "subscribe"},
           web : {"home", "pause", "switch", "connect", "dial", "subscribe", "topic", "register"},
           loop : {"boot", "run", "topic", "register", "online", "discover"}]

Dials == [Callers -> [server : Servers \cup {None}, will : Roots \cup {None}, old : BOOLEAN]]

Flags ==
  /\ wifi \in BOOLEAN /\ enabled \in BOOLEAN
  /\ online \in BOOLEAN /\ discovered \in BOOLEAN
  /\ connectedNow \in BOOLEAN /\ lastSeen \in BOOLEAN
  /\ late \in BOOLEAN /\ overlooked \in BOOLEAN /\ mixed \in BOOLEAN

\* What the gateway stores.
Local ==
  /\ portal \in {"none", "open", "closed"}
  /\ {file, settings, current} \subseteq Settings \cup {Unreadable}
  /\ will \in Roots \cup {None}
  /\ handlers \subseteq Topics
  /\ writeTopics \subseteq Topics
  /\ config \in Configs \cup {Unloaded}

\* Where its tasks are, and what they have at hand there.
Tasks ==
  /\ pc \in Places
  /\ dial \in Dials
  /\ \A t \in Callers : (dial[t].server \in Servers) = (pc[t] = "dial")
  /\ todo \in [Rebuilders -> SUBSET Writes]
  /\ base \in [Rebuilders -> Roots \cup {None}]
  /\ \A t \in Rebuilders : (todo[t] # {}) = Rebuilding(t) /\ (base[t] \in Roots) = (pc[t] = "register")

\* What the broker stores.
Broker ==
  /\ session \in Servers \cup {None}
  /\ subscriptions \subseteq Topics
  /\ sessionWill \in Roots \cup {None}
  /\ available \in Roots \cup {None} /\ advertised \in Roots \cup {None}

\* The four groups make up TypeOK.
LEMMA TypeParts == TypeOK <=> Flags /\ Local /\ Tasks /\ Broker
  BY DEF TypeOK, Flags, Local, Tasks, Broker, Places, Dials

\* What the members of a configuration and of the settings are.
LEMMA DataTypes ==
  /\ \A s \in Settings \cup {Unreadable} :
       s.enabled \in BOOLEAN /\ s.server \in Servers \cup {None} /\ s.root \in Roots
  /\ \A c \in Configs \cup {Unloaded} : c.discovery \in BOOLEAN /\ c.writes \subseteq Writes
  <1>1. \A s \in Settings \cup {Unreadable} : s \in [enabled : BOOLEAN, server : Servers \cup {None}, root : Roots]
    <2>1. Unreadable \in [enabled : BOOLEAN, server : Servers \cup {None}, root : Roots]
      BY SessionAssumption DEF Unreadable
    <2> QED
      BY <2>1, SessionAssumption
  <1>2. \A c \in Configs \cup {Unloaded} : c \in [writes : SUBSET Writes, discovery : BOOLEAN]
    <2>1. Unloaded \in [writes : SUBSET Writes, discovery : BOOLEAN]
      BY DEF Unloaded
    <2>2. Configs \subseteq [writes : SUBSET Writes, discovery : BOOLEAN]
      BY SessionAssumption
    <2> QED
      BY <2>1, <2>2
  <1>3. \A s \in Settings \cup {Unreadable} : s.enabled \in BOOLEAN
    BY <1>1
  <1>4. \A s \in Settings \cup {Unreadable} : s.server \in Servers \cup {None} /\ s.root \in Roots
    BY <1>1
  <1>5. \A c \in Configs \cup {Unloaded} : c.discovery \in BOOLEAN
    BY <1>2
  <1>6. \A c \in Configs \cup {Unloaded} : c.writes \subseteq Writes
    BY <1>2
  <1> QED
    BY <1>3, <1>4, <1>5, <1>6

\* After begin() every variable has its type.
LEMMA InitTypeOK == Init => TypeOK
  <1>1. Init => Flags
    BY DataTypes DEF Init, Flags
  <1>2. Init => Local
    BY DataTypes DEF Init, Local, Topics
  <1>3. Init => Tasks
    BY SessionAssumption DEF Init, Tasks, Places, Dials, NoDial, Callers, Rebuilders, Rebuilding
  <1>4. Init => Broker
    BY DEF Init, Broker
  <1> QED
    BY <1>1, <1>2, <1>3, <1>4, TypeParts

-------------------------------------------------------------------------------
(***************************************************************************)
(* What the steps of a connection attempt and of a rebuild leave alone.    *)
(***************************************************************************)
LEMMA ConnectFrame ==
  ASSUME NEW t \in Callers, Connect(t)
  PROVE  /\ UNCHANGED <<wifi, localVars, topicVars, rebuildVars, flagVars, edgeVars>>
         /\ pc[t] \in {"connect", "dial", "subscribe"}
         /\ \E l \in {"home", "dial", "subscribe"} : pc' = [pc EXCEPT ![t] = l]
  <1>1. UNCHANGED <<wifi, localVars, topicVars, rebuildVars, flagVars, edgeVars>>
    BY DEF Connect, BeginConnect, Accepted, Refused, Subscribe
  <1>2. pc[t] \in {"connect", "dial", "subscribe"}
    BY DEF Connect, BeginConnect, Accepted, Refused, Subscribe
  <1>3. \E l \in {"home", "dial", "subscribe"} : pc' = [pc EXCEPT ![t] = l]
    BY DEF Connect, BeginConnect, Accepted, Refused, Subscribe
  <1> QED
    BY <1>1, <1>2, <1>3

LEMMA RebuildFrame ==
  ASSUME NEW t \in Rebuilders, RebuildStep(t)
  PROVE  /\ UNCHANGED <<wifi, localVars, mixed, flagVars, edgeVars, dial, linkVars, available, advertised>>
         /\ Rebuilding(t)
         /\ \E l \in {"home", "run", "online", "topic", "register"} :
              pc' = [pc EXCEPT ![t] = l] /\ (t = "web" => l \notin {"run", "online"}) /\ (t = "loop" => l # "home")
  <1> USE DEF Rebuilders, Rebuilding, RebuildStep
  <1>1. CASE TakeTopic(t)
    BY <1>1 DEF TakeTopic
  <1>2. CASE AddHandler(t)
    BY <1>2 DEF AddHandler, Register, AfterRebuild
  <1> QED
    BY <1>1, <1>2

-------------------------------------------------------------------------------
\* Every step stores Booleans in the flags.
LEMMA FlagsStep ==
  ASSUME Flags, Local, Tasks, [Next]_vars
  PROVE  Flags'
  <1> USE DEF Flags
  <1>1. ASSUME NEW t \in Callers, Connect(t)
        PROVE  Flags'
    <2>1. UNCHANGED <<wifi, localVars, topicVars, rebuildVars, flagVars, edgeVars>>
      BY <1>1, ConnectFrame
    <2>2. CASE Accepted(t)
      <3>1. dial[t] \in [server : Servers \cup {None}, will : Roots \cup {None}, old : BOOLEAN]
        BY DEF Tasks, Dials
      <3> QED
        BY <2>1, <2>2, <3>1 DEF Accepted
    <2>3. CASE Refused(t)
      BY <2>1, <2>3 DEF Refused, NoSession
    <2>4. CASE BeginConnect(t) \/ Subscribe(t)
      BY <2>1, <2>4 DEF BeginConnect, Subscribe
    <2> QED
      BY <1>1, <2>2, <2>3, <2>4 DEF Connect
  <1>2. ASSUME NEW t \in Rebuilders, RebuildStep(t)
        PROVE  Flags'
    BY <1>2, RebuildFrame
  <1>3. CASE Wake \/ EndPause \/ BootUnconfigured
    BY <1>3 DEF Wake, EndPause, BootUnconfigured
  <1>4. CASE Switch
    <2>1. file.enabled \in BOOLEAN
      BY DataTypes DEF Local
    <2>2. mixed' \in BOOLEAN
      BY <1>4 DEF Switch, LoadNew, Rebuilding
    <2> QED
      BY <1>4, <2>1, <2>2 DEF Switch, LoadNew, NoSession
  <1>5. ASSUME NEW t \in Rebuilders, Mix(t)
        PROVE  mixed' \in BOOLEAN
    BY <1>5 DEF Mix
  <1>6. CASE \E c \in Configs : Boot(c) \/ ReloadModbus(c)
    BY <1>5, <1>6 DEF Boot, ReloadModbus, ConfigurationLoaded, StartRebuild, Rebuilders
  <1>7. CASE Sample
    <2>1. CASE HandleConnected
      BY <1>5, <1>7, <2>1 DEF Sample, HandleConnected, StartRebuild, Rebuilders
    <2>2. CASE HandleDisconnected
      BY <1>7, <2>2 DEF Sample, HandleDisconnected
    <2> QED
      BY <1>7, <2>1, <2>2 DEF Sample
  <1>8. CASE AnnounceOnline \/ PublishDatapoint \/ AnnounceDiscovery
    <2>1. config.discovery \in BOOLEAN
      BY DataTypes DEF Local
    <2>2. CanPublish \in BOOLEAN
      BY DEF CanPublish
    <2> QED
      BY <1>8, <2>2 DEF AnnounceOnline, PublishDatapoint, AnnounceDiscovery, PublishOnline
  <1>9. CASE (\E new \in Settings : PutSettings(new)) \/ PutFails \/ ClosePortal \/ ApOff \/ TestConnect
    BY <1>9 DEF PutSettings, PutFails, ClosePortal, ApOff, TestConnect
  <1>10. CASE Drop \/ WifiChanges \/ UNCHANGED vars
    BY <1>10 DEF Drop, NoSession, WifiChanges, vars
  <1> QED
    BY <1>1, <1>2, <1>3, <1>4, <1>6, <1>7, <1>8, <1>9, <1>10
    DEF Next, MqttStep, WebStep, LoopStep, Begin, Request, Callers, Rebuilders

\* Write topics under a root are topics.
LEMMA TopicsOfConfigs ==
  ASSUME NEW c \in Configs \cup {Unloaded}, NEW r \in Roots
  PROVE  WriteTopics(c, r) \subseteq Topics /\ <<r, System>> \in Topics
  BY DataTypes DEF WriteTopics, Topics

\* Every step keeps the type of what the gateway stores.
LEMMA LocalStep ==
  ASSUME Local, Tasks, [Next]_vars
  PROVE  Local'
  <1> USE DEF Local
  <1>1. CASE \E t \in Callers : Connect(t)
    BY <1>1, ConnectFrame
  <1>2. ASSUME NEW t \in Rebuilders, RebuildStep(t)
        PROVE  Local'
    <2>1. UNCHANGED localVars
      BY <1>2, RebuildFrame
    <2>2. CASE TakeTopic(t)
      BY <2>1, <2>2 DEF TakeTopic
    <2>3. CASE AddHandler(t)
      <3>1. PICK w \in todo[t] : Register(t, w)
        BY <2>3 DEF AddHandler
      <3>2. <<base[t], w>> \in Topics
        BY <2>3 DEF AddHandler, Tasks, Topics
      <3> QED
        BY <2>1, <3>1, <3>2 DEF Register
    <2> QED
      BY <1>2, <2>2, <2>3 DEF RebuildStep
  <1>3. CASE Wake \/ EndPause \/ BootUnconfigured
    BY <1>3 DEF Wake, EndPause, BootUnconfigured
  <1>4. CASE Switch
    <2>1. <<file.root, System>> \in Topics
      BY DataTypes DEF Topics
    <2> QED
      BY <1>4, <2>1 DEF Switch, LoadNew
  <1>5. ASSUME NEW t \in Rebuilders, NEW c \in Configs, NEW next, ConfigurationLoaded(t, c, next)
        PROVE  Local'
    <2>1. will' \in Roots \cup {None}
      BY <1>5, DataTypes DEF ConfigurationLoaded
    <2> QED
      BY <1>5, <2>1 DEF ConfigurationLoaded, StartRebuild
  <1>6. CASE \E c \in Configs : Boot(c) \/ ReloadModbus(c)
    BY <1>5, <1>6 DEF Boot, ReloadModbus, Rebuilders
  <1>7. CASE Sample
    BY <1>7 DEF Sample, HandleConnected, HandleDisconnected, StartRebuild
  <1>8. CASE AnnounceOnline \/ PublishDatapoint \/ AnnounceDiscovery
    BY <1>8 DEF AnnounceOnline, PublishDatapoint, AnnounceDiscovery
  <1>9. CASE (\E new \in Settings : PutSettings(new)) \/ PutFails \/ ClosePortal \/ ApOff \/ TestConnect
    BY <1>9 DEF PutSettings, PutFails, ClosePortal, ApOff, TestConnect
  <1>10. CASE Drop \/ WifiChanges \/ UNCHANGED vars
    BY <1>10 DEF Drop, WifiChanges, vars
  <1> QED
    BY <1>1, <1>2, <1>3, <1>4, <1>6, <1>7, <1>8, <1>9, <1>10
    DEF Next, MqttStep, WebStep, LoopStep, Begin, Request, Callers, Rebuilders

\* A rebuild that starts has the write datapoints of its configuration before it.
LEMMA StartRebuildTasks ==
  ASSUME Tasks, NEW t \in Rebuilders, NEW c \in Configs \cup {Unloaded}, NEW next,
         StartRebuild(t, c, next), ~Rebuilding(t), UNCHANGED dial,
         t = "web" => pc.web = "home" /\ next = "home",
         t = "loop" => next \in {"run", "online"}
  PROVE  Tasks'
  <1> USE DEF Tasks, Rebuilders, Rebuilding, Callers
  <1>1. c.writes \in SUBSET Writes
    BY DataTypes
  <1>2. CASE enabled /\ c.writes # {}
    BY <1>1, <1>2 DEF StartRebuild, Places
  <1>3. CASE enabled /\ c.writes = {}
    BY <1>1, <1>3 DEF StartRebuild, Places
  <1>4. CASE ~enabled
    BY <1>4 DEF StartRebuild, Places
  <1> QED
    BY <1>2, <1>3, <1>4

\* Every step keeps the tasks at their places.
LEMMA TasksStep ==
  ASSUME Local, Tasks, [Next]_vars
  PROVE  Tasks'
  <1> USE DEF Tasks, Callers, Rebuilders, Rebuilding
  <1>1. ASSUME NEW t \in Callers, Connect(t)
        PROVE  Tasks'
    <2>1. UNCHANGED <<todo, base>>
      BY <1>1, ConnectFrame
    <2>2. CASE BeginConnect(t)
      <3>1. [server |-> settings.server, will |-> will, old |-> FALSE]
              \in [server : Servers \cup {None}, will : Roots \cup {None}, old : BOOLEAN]
        BY DataTypes DEF Local
      <3>2. CASE settings.server = None \/ Connected
        BY <2>1, <2>2, <3>2 DEF BeginConnect, Places
      <3>3. CASE settings.server # None /\ ~Connected
        <4>1. settings.server \in Servers
          BY <3>3, DataTypes DEF Local
        <4>2. dial' \in Dials
          BY <2>2, <3>1, <3>3 DEF BeginConnect, Dials
        <4> QED
          BY <2>1, <2>2, <3>3, <4>1, <4>2 DEF BeginConnect, Places, Dials
      <3> QED
        BY <2>2, <3>2, <3>3 DEF BeginConnect
    <2>3. CASE Accepted(t) \/ Refused(t)
      <3>1. NoDial \in [server : Servers \cup {None}, will : Roots \cup {None}, old : BOOLEAN]
        BY DEF NoDial
      <3>2. NoDial.server \notin Servers
        BY SessionAssumption DEF NoDial
      <3>3. dial' \in Dials
        BY <2>3, <3>1 DEF Accepted, Refused, Dials
      <3> QED
        BY <2>1, <2>3, <3>2, <3>3 DEF Accepted, Refused, Places, Dials
    <2>4. CASE Subscribe(t)
      BY <2>1, <2>4 DEF Subscribe, Places
    <2> QED
      BY <1>1, <2>2, <2>3, <2>4 DEF Connect
  <1>2. ASSUME NEW t \in Rebuilders, RebuildStep(t)
        PROVE  Tasks'
    <2>1. CASE TakeTopic(t)
      <3>1. settings.root \in Roots
        BY DataTypes DEF Local
      <3> QED
        BY <2>1, <3>1 DEF TakeTopic, Places
    <2>2. CASE AddHandler(t)
      <3>1. PICK w \in todo[t] : Register(t, w)
        BY <2>2 DEF AddHandler
      <3>2. None \notin Roots
        BY SessionAssumption
      <3>3. UNCHANGED dial /\ \A u \in Rebuilders \ {t} : todo'[u] = todo[u] /\ base'[u] = base[u] /\ pc'[u] = pc[u]
        BY <3>1 DEF Register
      <3>4. CASE todo[t] = {w}
        BY <2>2, <3>1, <3>2, <3>4 DEF AddHandler, Register, AfterRebuild, Places
      <3>5. CASE todo[t] # {w}
        BY <2>2, <3>1, <3>2, <3>5 DEF AddHandler, Register, Places
      <3> QED
        BY <3>4, <3>5
    <2> QED
      BY <1>2, <2>1, <2>2 DEF RebuildStep
  <1>3. CASE Wake \/ EndPause \/ BootUnconfigured
    BY <1>3 DEF Wake, EndPause, BootUnconfigured, Places
  <1>4. CASE Switch
    <2>1. \A t \in Callers :
            /\ dial'[t] \in [server : Servers \cup {None}, will : Roots \cup {None}, old : BOOLEAN]
            /\ dial'[t].server = dial[t].server
      BY <1>4 DEF Switch, LoadNew, Dials
    <2>2. dial' \in Dials
      BY <1>4, <2>1 DEF Switch, LoadNew, Dials
    <2> QED
      BY <1>4, <2>1, <2>2 DEF Switch, LoadNew, Places
  <1>5. ASSUME NEW c \in Configs, Boot(c) \/ ReloadModbus(c)
        PROVE  Tasks'
    <2>1. CASE Boot(c)
      BY <2>1, StartRebuildTasks DEF Boot, ConfigurationLoaded
    <2>2. CASE ReloadModbus(c)
      BY <2>2, StartRebuildTasks DEF ReloadModbus, ConfigurationLoaded
    <2> QED
      BY <1>5, <2>1, <2>2
  <1>6. CASE Sample
    <2>1. CASE HandleConnected /\ enabled
      BY <1>6, <2>1, StartRebuildTasks DEF Sample, HandleConnected, Local
    <2>2. CASE UNCHANGED <<todo, base, pc, dial>>
      BY <2>2
    <2> QED
      BY <1>6, <2>1, <2>2 DEF Sample, HandleConnected, HandleDisconnected
  <1>7. CASE AnnounceOnline \/ PublishDatapoint \/ AnnounceDiscovery
    BY <1>7 DEF AnnounceOnline, PublishDatapoint, AnnounceDiscovery, Places
  <1>8. CASE (\E new \in Settings : PutSettings(new)) \/ PutFails \/ ClosePortal \/ ApOff \/ TestConnect
    BY <1>8 DEF PutSettings, PutFails, ClosePortal, ApOff, TestConnect, Places
  <1>9. CASE Drop \/ WifiChanges \/ UNCHANGED vars
    BY <1>9 DEF Drop, WifiChanges, vars
  <1> QED
    BY <1>1, <1>2, <1>3, <1>4, <1>5, <1>6, <1>7, <1>8, <1>9
    DEF Next, MqttStep, WebStep, LoopStep, Begin, Request

\* Every step keeps the type of what the broker stores.
LEMMA BrokerStep ==
  ASSUME Local, Tasks, Broker, [Next]_vars
  PROVE  Broker'
  <1> USE DEF Broker
  <1>1. ASSUME NEW t \in Callers, Connect(t)
        PROVE  Broker'
    <2>1. CASE Accepted(t)
      <3>1. dial[t] \in [server : Servers \cup {None}, will : Roots \cup {None}, old : BOOLEAN]
        BY DEF Tasks, Dials
      <3> QED
        BY <2>1, <3>1 DEF Accepted
    <2>2. CASE Refused(t)
      BY <2>2 DEF Refused, NoSession
    <2>3. CASE Subscribe(t)
      BY <2>3 DEF Subscribe, Local
    <2>4. CASE BeginConnect(t)
      BY <2>4 DEF BeginConnect
    <2> QED
      BY <1>1, <2>1, <2>2, <2>3, <2>4 DEF Connect
  <1>2. ASSUME NEW t \in Rebuilders, RebuildStep(t)
        PROVE  Broker'
    <2>1. CASE TakeTopic(t)
      BY <2>1 DEF TakeTopic
    <2>2. CASE AddHandler(t)
      <3>1. \A w \in todo[t] : <<base[t], w>> \in Topics
        BY <2>2 DEF AddHandler, Tasks, Topics
      <3> QED
        BY <2>2, <3>1 DEF AddHandler, Register
    <2> QED
      BY <1>2, <2>1, <2>2 DEF RebuildStep
  <1>3. CASE Switch
    BY <1>3 DEF Switch, NoSession
  <1>4. CASE \E c \in Configs : Boot(c) \/ ReloadModbus(c)
    BY <1>4 DEF Boot, ReloadModbus, ConfigurationLoaded, StartRebuild
  <1>5. CASE Sample
    BY <1>5 DEF Sample, HandleConnected, HandleDisconnected, StartRebuild
  <1>6. CASE AnnounceOnline \/ PublishDatapoint \/ AnnounceDiscovery
    <2>1. settings.root \in Roots
      BY DataTypes DEF Local
    <2> QED
      BY <1>6, <2>1 DEF AnnounceOnline, PublishDatapoint, AnnounceDiscovery, PublishOnline
  <1>7. CASE Drop
    BY <1>7 DEF Drop, NoSession
  <1>8. CASE Wake \/ EndPause \/ BootUnconfigured \/ WifiChanges \/ UNCHANGED vars
    BY <1>8 DEF Wake, EndPause, BootUnconfigured, WifiChanges, vars
  <1>9. CASE (\E new \in Settings : PutSettings(new)) \/ PutFails \/ ClosePortal \/ ApOff \/ TestConnect
    BY <1>9 DEF PutSettings, PutFails, ClosePortal, ApOff, TestConnect
  <1> QED
    BY <1>1, <1>2, <1>3, <1>4, <1>5, <1>6, <1>7, <1>8, <1>9
    DEF Next, MqttStep, WebStep, LoopStep, Begin, Request, Callers, Rebuilders

\* Every variable keeps its type, an attempt is made only with a broker, and a task is in a
\* rebuild as long as write datapoints are before it.
THEOREM TypeCorrect == Spec => []TypeOK
  <1>1. TypeOK /\ [Next]_vars => TypeOK'
    BY TypeParts, FlagsStep, LocalStep, TasksStep, BrokerStep
    DEF TypeOK, Flags, Local, Tasks, Broker, Places, Dials
  <1> QED
    BY <1>1, InitTypeOK, PTL DEF Spec

-------------------------------------------------------------------------------
(***************************************************************************)
(* The handlers.                                                           *)
(***************************************************************************)
\* What a rebuild that nobody has met is about to add belongs to the present configuration
\* and root; MQTT is off between the request that stores new settings and their loading; and
\* writeTopics lists every handler but the system's, so that the next rebuild removes it.
HandlersInv ==
  /\ handlers \subseteq writeTopics \cup (Roots \X {System})
  /\ pc.web \in {"pause", "switch"} => ~enabled
  /\ ~mixed => \A t \in Rebuilders :
       Rebuilding(t) => todo[t] \subseteq config.writes /\ (pc[t] = "register" => base[t] = settings.root)
  /\ ~mixed /\ enabled => handlers \subseteq WriteTopics(config, settings.root) \cup (Roots \X {System})

\* A rebuild that starts leaves the system's handlers, and meets no other or says so.
LEMMA StartRebuildHandlers ==
  ASSUME TypeOK, HandlersInv, NEW t \in Rebuilders, NEW c \in Configs \cup {Unloaded}, NEW next,
         StartRebuild(t, c, next), ~Rebuilding(t), UNCHANGED <<settings, enabled>>, config' = c,
         t = "web" => pc.web = "home" /\ next = "home",
         t = "loop" => next \in {"run", "online"},
         config = c \/ enabled \/ \A u \in Rebuilders : ~Rebuilding(u) \/ mixed'
  PROVE  HandlersInv'
  <1> USE DEF HandlersInv, Rebuilders, Rebuilding
  <1>1. pc \in Places
    BY TypeParts DEF Tasks
  <1>2. todo \in [Rebuilders -> SUBSET Writes]
    BY DEF TypeOK
  <1>3. CASE enabled
    <2>1. handlers' \subseteq Roots \X {System}
      BY <1>3 DEF StartRebuild
    <2>2. ~mixed' => \A u \in Rebuilders \ {t} : ~Rebuilding(u)
      BY <1>3 DEF StartRebuild, Mix
    <2>3. todo'[t] = c.writes /\ pc'[t] # "register"
      BY <1>1, <1>2, <1>3 DEF StartRebuild, Places
    <2>4. \A u \in Rebuilders \ {t} : pc'[u] = pc[u]
      BY <1>1, <1>3 DEF StartRebuild, Places
    <2>5. ~(pc'.web \in {"pause", "switch"}) \/ pc'.web = pc.web
      BY <1>1, <1>3 DEF StartRebuild, Places
    <2> QED
      BY <1>3, <2>1, <2>2, <2>3, <2>4, <2>5
  <1>4. CASE ~enabled
    <2>1. ~mixed' => ~mixed /\ \A u \in Rebuilders \ {t} : ~Rebuilding(u)
      BY <1>4 DEF StartRebuild, Mix
    <2>2. UNCHANGED <<handlers, writeTopics>>
      BY <1>4 DEF StartRebuild
    <2>3. \A u \in Rebuilders : Rebuilding(u)' => Rebuilding(u) /\ u # t
      BY <1>1, <1>4 DEF StartRebuild, Places
    <2> QED
      BY <1>4, <2>1, <2>2, <2>3
  <1> QED
    BY <1>3, <1>4

\* Every step keeps the handlers' invariant.
LEMMA HandlersStep ==
  ASSUME TypeOK, HandlersInv, [Next]_vars
  PROVE  HandlersInv'
  <1> USE DEF HandlersInv, Callers, Rebuilders, Rebuilding
  <1>0. pc \in Places
    BY TypeParts DEF Tasks
  <1>1. ASSUME NEW t \in Callers, Connect(t)
        PROVE  HandlersInv'
    <2>1. UNCHANGED <<localVars, topicVars, rebuildVars>>
      BY <1>1, ConnectFrame
    <2>2. \A u \in Rebuilders : Rebuilding(u)' => Rebuilding(u) /\ pc'[u] = pc[u]
      BY <1>0, <1>1, ConnectFrame DEF Places
    <2>3. pc'.web \in {"pause", "switch"} => pc.web \in {"pause", "switch"}
      BY <1>0, <1>1, ConnectFrame DEF Places
    <2> QED
      BY <2>1, <2>2, <2>3 DEF WriteTopics
  <1>2. ASSUME NEW t \in Rebuilders, RebuildStep(t)
        PROVE  HandlersInv'
    <2>1. UNCHANGED <<localVars, mixed>>
      BY <1>2, RebuildFrame
    <2>2. pc'.web \in {"pause", "switch"} => pc.web \in {"pause", "switch"}
      BY <1>0, <1>2, RebuildFrame DEF Places
    <2>3. CASE TakeTopic(t)
      BY <1>0, <2>1, <2>2, <2>3 DEF TakeTopic, TypeOK, Places, WriteTopics
    <2>4. CASE AddHandler(t)
      <3>1. PICK w \in todo[t] : Register(t, w)
        BY <2>4 DEF AddHandler
      <3>2. pc[t] = "register"
        BY <2>4 DEF AddHandler
      <3>3. ~mixed => w \in config.writes /\ base[t] = settings.root
        BY <3>1, <3>2
      <3>4. ~mixed => <<base[t], w>> \in WriteTopics(config, settings.root)
        BY <3>3 DEF WriteTopics
      <3>5. \A u \in Rebuilders : todo'[u] \subseteq todo[u]
        BY <3>1 DEF Register, TypeOK
      <3>6. pc'[t] # "register" /\ \A u \in Rebuilders \ {t} : pc'[u] = pc[u] /\ base'[u] = base[u]
        BY <1>0, <3>1 DEF Register, AfterRebuild, TypeOK, Places
      <3>7. handlers' = handlers \cup {<<base[t], w>>} /\ writeTopics' = writeTopics \cup {<<base[t], w>>}
        BY <3>1 DEF Register
      <3>8. WriteTopics(config, settings.root)' = WriteTopics(config, settings.root)
        BY <2>1 DEF WriteTopics
      <3> QED
        BY <2>1, <2>2, <3>2, <3>4, <3>5, <3>6, <3>7, <3>8
    <2> QED
      BY <1>2, <2>3, <2>4 DEF RebuildStep
  <1>3. CASE Wake \/ BootUnconfigured
    BY <1>0, <1>3 DEF Wake, BootUnconfigured, Places, WriteTopics
  <1>4. CASE EndPause
    BY <1>0, <1>4 DEF EndPause, Places, WriteTopics
  <1>5. CASE Switch
    <2>1. <<file.root, System>> \in Roots \X {System}
      BY DataTypes DEF TypeOK
    <2>2. ~mixed' => \A u \in Rebuilders : ~Rebuilding(u)'
      BY <1>0, <1>5 DEF Switch, LoadNew, Places
    <2>3. pc'.web \notin {"pause", "switch"} /\ handlers' = {<<file.root, System>>}
      BY <1>0, <1>5 DEF Switch, LoadNew, Places
    <2> QED
      BY <2>1, <2>2, <2>3
  <1>6. ASSUME NEW c \in Configs, Boot(c) \/ ReloadModbus(c)
        PROVE  HandlersInv'
    <2>1. CASE Boot(c)
      BY <1>0, <2>1, StartRebuildHandlers DEF Boot, ConfigurationLoaded, StartRebuild, Mix
    <2>2. CASE ReloadModbus(c)
      BY <1>0, <2>2, StartRebuildHandlers DEF ReloadModbus, ConfigurationLoaded, StartRebuild, Mix
    <2> QED
      BY <1>6, <2>1, <2>2
  <1>7. CASE Sample
    <2>1. CASE HandleConnected /\ enabled
      BY <1>0, <1>7, <2>1, StartRebuildHandlers DEF Sample, HandleConnected, TypeOK
    <2>2. CASE UNCHANGED <<topicVars, rebuildVars, pc>>
      BY <1>7, <2>2 DEF Sample, WriteTopics
    <2> QED
      BY <1>7, <2>1, <2>2 DEF Sample, HandleConnected, HandleDisconnected
  <1>8. CASE AnnounceOnline \/ PublishDatapoint \/ AnnounceDiscovery
    BY <1>0, <1>8 DEF AnnounceOnline, PublishDatapoint, AnnounceDiscovery, Places, WriteTopics
  <1>9. CASE (\E new \in Settings : PutSettings(new)) \/ ApOff
    BY <1>0, <1>9 DEF PutSettings, ApOff, Places
  <1>10. CASE PutFails \/ ClosePortal
    BY <1>10 DEF PutFails, ClosePortal, WriteTopics
  <1>11. CASE TestConnect
    <2>1. UNCHANGED <<handlers, writeTopics, todo, base, config, enabled>>
      BY <1>11 DEF TestConnect
    <2>2. ~mixed' => ~mixed /\ UNCHANGED settings
      BY <1>11 DEF TestConnect
    <2>3. \A u \in Rebuilders : Rebuilding(u)' => Rebuilding(u) /\ pc'[u] = pc[u]
      BY <1>0, <1>11 DEF TestConnect, Places
    <2>4. pc'.web \notin {"pause", "switch"}
      BY <1>0, <1>11 DEF TestConnect, Places
    <2> QED
      BY <2>1, <2>2, <2>3, <2>4 DEF WriteTopics
  <1>12. CASE Drop \/ WifiChanges \/ UNCHANGED vars
    BY <1>12 DEF Drop, WifiChanges, vars, WriteTopics
  <1> QED
    BY <1>1, <1>2, <1>3, <1>4, <1>5, <1>6, <1>7, <1>8, <1>9, <1>10, <1>11, <1>12
    DEF Next, MqttStep, WebStep, LoopStep, Begin, Request

\* The handlers' invariant holds from the start.
LEMMA AlwaysHandlers == Spec => []HandlersInv
  <1>1. Init => HandlersInv
    <2>1. Init => handlers \subseteq Roots \X {System}
      BY DataTypes DEF Init
    <2> QED
      BY <2>1 DEF Init, HandlersInv, Rebuilders, Rebuilding
  <1>2. TypeOK /\ HandlersInv /\ [Next]_vars => HandlersInv'
    BY HandlersStep
  <1> QED
    BY <1>1, <1>2, TypeCorrect, PTL DEF Spec

\* However the tasks' rebuilds, new settings, test connections and new configurations
\* interleave topic by topic, an enabled gateway dispatches messages only to handlers of the
\* present configuration under the present root, unless a rebuild met another one or other
\* settings and none has been made since.
THEOREM HandlersStayCurrent == Spec => []HandlersAreCurrent
  <1>1. HandlersInv => HandlersAreCurrent
    BY DEF HandlersInv, HandlersAreCurrent
  <1> QED
    BY <1>1, AlwaysHandlers, PTL
-------------------------------------------------------------------------------
(***************************************************************************)
(* The session and the settings.                                           *)
(***************************************************************************)
\* What is loaded and, but for the time a request replaces it, stored are the settings in
\* place or nothing; an attempt that is not an old one is with their broker.
SessionInv ==
  /\ settings \in {current, Unreadable}
  /\ pc.web \notin {"pause", "switch"} => file \in {current, Unreadable}
  /\ \A t \in Callers : pc[t] = "dial" /\ ~dial[t].old => dial[t].server = current.server
  /\ Connected /\ ~late => session = current.server

\* Every step keeps it.
LEMMA SessionStep ==
  ASSUME TypeOK, SessionInv, [Next]_vars
  PROVE  SessionInv'
  <1> USE DEF SessionInv, Callers
  <1>0. pc \in Places
    BY TypeParts DEF Tasks
  <1>1. ASSUME NEW t \in Callers, Connect(t)
        PROVE  SessionInv'
    <2>1. UNCHANGED <<file, settings, current>>
      BY <1>1, ConnectFrame
    <2>2. pc'.web \in {"pause", "switch"} <=> pc.web \in {"pause", "switch"}
      BY <1>0, <1>1, ConnectFrame DEF Places
    <2>3. \A u \in Callers \ {t} : pc'[u] = pc[u]
      BY <1>0, <1>1, ConnectFrame DEF Places
    <2>4. CASE BeginConnect(t)
      <3>1. settings.server # None => settings.server = current.server
        BY DEF Unreadable
      <3> QED
        BY <1>0, <2>1, <2>2, <2>3, <2>4, <3>1 DEF BeginConnect, TypeOK, Places, Connected
    <2>5. CASE Accepted(t)
      BY <1>0, <2>1, <2>2, <2>3, <2>5 DEF Accepted, TypeOK, Places, Connected
    <2>6. CASE Refused(t)
      BY <1>0, <2>1, <2>2, <2>3, <2>6 DEF Refused, NoSession, TypeOK, Places, Connected
    <2>7. CASE Subscribe(t)
      BY <1>0, <2>1, <2>2, <2>3, <2>7 DEF Subscribe, TypeOK, Places, Connected
    <2> QED
      BY <1>1, <2>4, <2>5, <2>6, <2>7 DEF Connect
  <1>2. ASSUME NEW t \in Rebuilders, RebuildStep(t)
        PROVE  SessionInv'
    <2>1. UNCHANGED <<localVars, dial, linkVars>>
      BY <1>2, RebuildFrame
    <2>2. \A u \in Callers : pc'[u] = "dial" => pc[u] = "dial"
      BY <1>0, <1>2, RebuildFrame DEF Places, Rebuilders
    <2>3. pc.web \in {"pause", "switch"} => pc'.web \in {"pause", "switch"}
      BY <1>0, <1>2, RebuildFrame DEF Places, Rebuilders, Rebuilding
    <2> QED
      BY <2>1, <2>2, <2>3 DEF Connected
  <1>3. CASE Wake \/ EndPause \/ BootUnconfigured
    BY <1>0, <1>3 DEF Wake, EndPause, BootUnconfigured, Places, Connected
  <1>4. CASE Switch
    <2>1. \A t \in Callers : pc'[t] = "dial" => pc[t] = "dial"
      BY <1>0, <1>4 DEF Switch, LoadNew, Places
    <2>2. \A t \in Callers : pc[t] = "dial" => dial'[t].old
      BY <1>4 DEF Switch, LoadNew, TypeOK
    <2> QED
      BY <1>4, <2>1, <2>2 DEF Switch, LoadNew, NoSession, Connected
  <1>5. CASE (\E new \in Settings : PutSettings(new)) \/ ApOff
    BY <1>0, <1>5 DEF PutSettings, ApOff, Places, Connected
  <1>6. CASE PutFails \/ ClosePortal \/ TestConnect
    BY <1>0, <1>6 DEF PutFails, ClosePortal, TestConnect, Places, Connected
  <1>7. ASSUME NEW c \in Configs, Boot(c) \/ ReloadModbus(c)
        PROVE  SessionInv'
    <2>1. UNCHANGED <<file, settings, current, dial, session, late>>
      BY <1>7 DEF Boot, ReloadModbus, ConfigurationLoaded
    <2>2. \A u \in Callers : pc'[u] = "dial" => pc[u] = "dial"
      BY <1>0, <1>7 DEF Boot, ReloadModbus, ConfigurationLoaded, StartRebuild, Places
    <2>3. pc.web \in {"pause", "switch"} => pc'.web \in {"pause", "switch"}
      BY <1>0, <1>7 DEF Boot, ReloadModbus, ConfigurationLoaded, StartRebuild, Places
    <2> QED
      BY <2>1, <2>2, <2>3 DEF Connected
  <1>8. CASE Sample
    <2>1. UNCHANGED <<file, settings, current, dial, session, late>>
      BY <1>8 DEF Sample
    <2>2. \A u \in Callers : pc'[u] = pc[u]
      BY <1>0, <1>8 DEF Sample, HandleConnected, HandleDisconnected, StartRebuild, Places
    <2> QED
      BY <2>1, <2>2 DEF Connected
  <1>9. CASE AnnounceOnline \/ PublishDatapoint \/ AnnounceDiscovery
    BY <1>0, <1>9 DEF AnnounceOnline, PublishDatapoint, AnnounceDiscovery, Places, Connected
  <1>10. CASE Drop \/ WifiChanges \/ UNCHANGED vars
    BY <1>10 DEF Drop, NoSession, WifiChanges, vars, Connected
  <1> QED
    BY <1>1, <1>2, <1>3, <1>4, <1>5, <1>6, <1>7, <1>8, <1>9, <1>10
    DEF Next, MqttStep, WebStep, LoopStep, Begin, Request, Callers, Rebuilders

\* Whatever is uploaded, fails to be stored, is tested and is switched to, a settled session is
\* with the broker of the settings in place, or it is marked as the work of an attempt that
\* began before them; and these settings are what is stored, or the file is spoilt.
THEOREM SessionIsOfSettings == Spec => []SessionFollowsSettings
  <1>1. Init => SessionInv
    BY DEF Init, SessionInv, Callers, Connected
  <1>2. TypeOK /\ SessionInv /\ [Next]_vars => SessionInv'
    BY SessionStep
  <1>3. SessionInv => SessionFollowsSettings
    BY DEF SessionInv, SessionFollowsSettings, Settled
  <1> QED
    BY <1>1, <1>2, <1>3, TypeCorrect, PTL DEF Spec
-------------------------------------------------------------------------------
(***************************************************************************)
(* What loop() does for a session it has seen.                             *)
(***************************************************************************)
\* A session that loop() has seen and not taken for its predecessor, with MQTT enabled and no
\* rebuild mixed up with another.
Live == enabled /\ Connected /\ connectedNow /\ ~overlooked /\ ~mixed

\* Each write datapoint is served, or a rebuild has it before it.
Served ==
  \A w \in config.writes :
    w \in todo["web"] \cup todo["loop"] \/ <<settings.root, w>> \in subscriptions \cap handlers

\* What is announced was announced in this session.
AvailabilityTrue == online => available = settings.root
DiscoveryTrue == discovered => advertised = settings.root

\* handleMqttConnected has not come to the two announcements yet.
BeforeOnline == pc.loop \in {"topic", "register", "online"}
BeforeDiscovery == BeforeOnline \/ (pc.loop = "discover" /\ connectedNow # lastSeen)

ServedInv ==
  /\ online \/ discovered => config.discovery
  /\ Live => Served
  /\ Live /\ ~BeforeOnline => AvailabilityTrue
  /\ Live /\ ~BeforeDiscovery => DiscoveryTrue

\* Only a task in a rebuild has write datapoints before it.
LEMMA TodoOfRebuilds ==
  ASSUME TypeOK
  PROVE  /\ pc \in Places
         /\ todo \in [Rebuilders -> SUBSET Writes]
         /\ \A t \in Rebuilders : (todo[t] # {}) = Rebuilding(t)
  BY TypeParts DEF Tasks

\* When what loop() has sampled and what it has acted on differ: only while it acts.
EdgeInv ==
  /\ pc.loop \in {"boot", "run"} => connectedNow = lastSeen
  /\ lastSeen => connectedNow
  /\ BeforeOnline \/ pc.loop = "boot" => ~lastSeen

\* Every step keeps it.
LEMMA EdgeStep ==
  ASSUME TypeOK, EdgeInv, [Next]_vars
  PROVE  EdgeInv'
  <1> USE DEF EdgeInv, BeforeOnline, Callers, Rebuilders
  <1>0. pc \in Places
    BY TodoOfRebuilds
  <1>1. ASSUME UNCHANGED edgeVars, pc'.loop = pc.loop
        PROVE  EdgeInv'
    BY <1>1
  <1>2. CASE \E t \in Callers : Connect(t)
    BY <1>0, <1>1, <1>2, ConnectFrame DEF Places
  <1>3. CASE RebuildStep("web")
    BY <1>0, <1>1, <1>3, RebuildFrame DEF Places
  <1>4. CASE RebuildStep("loop")
    <2>1. UNCHANGED edgeVars /\ BeforeOnline
      BY <1>4, RebuildFrame DEF Rebuilding
    <2>2. CASE connectedNow
      <3>1. pc'.loop \in {"topic", "register", "online"}
        BY <1>0, <1>4, <2>2 DEF RebuildStep, TakeTopic, AddHandler, Register, AfterRebuild, Places
      <3> QED
        BY <2>1, <3>1
    <2>3. CASE ~connectedNow
      <3>1. pc'.loop # "boot"
        BY <1>0, <1>4, RebuildFrame DEF Places
      <3>2. connectedNow = lastSeen
        BY <2>1, <2>3 DEF TypeOK
      <3> QED
        BY <2>1, <2>3, <3>1, <3>2
    <2> QED
      BY <2>2, <2>3
  <1>5. CASE Wake \/ EndPause \/ Switch \/ (\E c \in Configs : ReloadModbus(c))
    <2>1. UNCHANGED edgeVars /\ pc'.loop = pc.loop
      BY <1>0, <1>5
      DEF Wake, EndPause, Switch, LoadNew, ReloadModbus, ConfigurationLoaded, StartRebuild, Places
    <2> QED
      BY <1>1, <2>1
  <1>6. CASE BootUnconfigured \/ \E c \in Configs : Boot(c)
    <2>1. pc.loop = "boot" /\ UNCHANGED edgeVars /\ pc'.loop \in {"run", "topic"}
      BY <1>0, <1>6 DEF BootUnconfigured, Boot, ConfigurationLoaded, StartRebuild, Places
    <2> QED
      BY <2>1
  <1>7. CASE Sample
    <2>1. CASE HandleConnected /\ enabled
      <3>1. pc'.loop \in {"topic", "online"}
        BY <1>0, <1>7, <2>1 DEF Sample, HandleConnected, StartRebuild, Places
      <3>2. connectedNow' /\ ~lastSeen'
        BY <2>1 DEF HandleConnected
      <3> QED
        BY <3>1, <3>2
    <2>2. CASE (HandleConnected /\ ~enabled) \/ HandleDisconnected
      <3>1. connectedNow' = lastSeen' /\ pc'.loop = "run"
        BY <1>7, <2>2 DEF Sample, HandleConnected, HandleDisconnected
      <3> QED
        BY <3>1
    <2> QED
      BY <1>7, <2>1, <2>2 DEF Sample
  <1>8. CASE AnnounceOnline \/ PublishDatapoint
    BY <1>0, <1>8 DEF AnnounceOnline, PublishDatapoint, Places
  <1>9. CASE AnnounceDiscovery
    BY <1>0, <1>9 DEF AnnounceDiscovery, Places
  <1>10. CASE (\E new \in Settings : PutSettings(new)) \/ PutFails \/ ClosePortal \/ ApOff \/ TestConnect
    BY <1>0, <1>1, <1>10 DEF PutSettings, PutFails, ClosePortal, ApOff, TestConnect, Places
  <1>11. CASE Drop \/ WifiChanges \/ UNCHANGED vars
    BY <1>1, <1>11 DEF Drop, WifiChanges, vars
  <1> QED
    BY <1>2, <1>3, <1>4, <1>5, <1>6, <1>7, <1>8, <1>9, <1>10, <1>11
    DEF Next, MqttStep, WebStep, LoopStep, Begin, Request

\* A rebuild that an enabled gateway starts has all write datapoints before it.
LEMMA StartRebuildServes ==
  ASSUME TypeOK, NEW t \in Rebuilders, NEW c, NEW next, StartRebuild(t, c, next),
         enabled, config' = c
  PROVE  Served'
  <1>1. todo'[t] = c.writes
    BY TodoOfRebuilds DEF StartRebuild
  <1> QED
    BY <1>1 DEF Served, Rebuilders

\* A step that leaves this to other steps keeps it; loop() may move between places at which
\* nothing was announced.
LEMMA ServedFrame ==
  ASSUME TypeOK, ServedInv,
         UNCHANGED <<flagVars, edgeVars, config, available, advertised, todo, handlers>>,
         pc'.loop = pc.loop,
         Live' => Live /\ UNCHANGED settings /\ subscriptions \subseteq subscriptions'
  PROVE  ServedInv'
  BY DEF ServedInv, Served, AvailabilityTrue, DiscoveryTrue, BeforeOnline, BeforeDiscovery

\* Every step keeps it.
LEMMA ServedStep ==
  ASSUME TypeOK, HandlersInv, EdgeInv, ServedInv, [Next]_vars
  PROVE  ServedInv'
  <1> USE DEF Callers, Rebuilders
  <1>0. pc \in Places /\ todo \in [Rebuilders -> SUBSET Writes]
    BY TodoOfRebuilds
  <1>1. ASSUME NEW t \in Callers, Connect(t)
        PROVE  ServedInv'
    <2>1. UNCHANGED <<wifi, localVars, topicVars, rebuildVars, flagVars, edgeVars>> /\ pc'.loop = pc.loop
      BY <1>0, <1>1, ConnectFrame DEF Places
    <2>2. CASE Accepted(t) \/ (Refused(t) /\ NoSession)
      <3>1. ~Live'
        BY <2>1, <2>2 DEF Accepted, NoSession, Live, Connected
      <3> QED
        BY <2>1, <3>1 DEF ServedInv
    <2>3. CASE ~Accepted(t) /\ ~(Refused(t) /\ NoSession)
      <3>1. UNCHANGED <<linkVars, available, advertised>> /\ subscriptions \subseteq subscriptions'
        BY <1>1, <2>3 DEF Connect, BeginConnect, Refused, Subscribe
      <3> QED
        BY <2>1, <3>1, ServedFrame DEF Live, Connected
    <2> QED
      BY <2>2, <2>3
  <1>2. ASSUME NEW t \in Rebuilders, RebuildStep(t)
        PROVE  ServedInv'
    <2>1. UNCHANGED <<localVars, mixed, flagVars, edgeVars, linkVars, available, advertised>>
      BY <1>2, RebuildFrame
    <2>2. Live' => Live
      BY <2>1 DEF Live, Connected
    <2>3. Live' /\ BeforeOnline => BeforeOnline'
      BY <1>0, <1>2, <2>1
      DEF RebuildStep, TakeTopic, AddHandler, Register, AfterRebuild, BeforeOnline, Places, Live
    <2>4. pc'.loop \notin {"boot", "discover"} \/ pc'.loop = pc.loop
      BY <1>0, <1>2, RebuildFrame DEF Places
    <2>5. ~BeforeOnline => pc'.loop = pc.loop
      BY <1>0, <1>2, RebuildFrame DEF Places, BeforeOnline, Rebuilding
    <2>6. Live => Served'
      <3>1. CASE TakeTopic(t)
        BY <2>1, <3>1 DEF TakeTopic, ServedInv, Served
      <3>2. CASE AddHandler(t)
        <4>1. PICK w \in todo[t] : Register(t, w)
                 /\ subscriptions' = IF Connected THEN subscriptions \cup {<<base[t], w>>} ELSE subscriptions
          BY <3>2 DEF AddHandler
        <4>2. Live => base[t] = settings.root
          BY <1>2, <3>2, RebuildFrame DEF AddHandler, HandlersInv, Live
        <4>3. Live => <<settings.root, w>> \in subscriptions' \cap handlers'
          BY <4>1, <4>2 DEF Live, Register
        <4>4. \A v \in Writes \ {w} : v \in todo["web"] \cup todo["loop"] => v \in todo'["web"] \cup todo'["loop"]
          BY <1>0, <4>1 DEF Register
        <4>5. subscriptions \subseteq subscriptions' /\ handlers \subseteq handlers'
          BY <4>1 DEF Register
        <4>6. config.writes \subseteq Writes
          BY DataTypes DEF TypeOK
        <4> QED
          BY <2>1, <4>3, <4>4, <4>5, <4>6 DEF ServedInv, Served
      <3> QED
        BY <1>2, <3>1, <3>2 DEF RebuildStep
    <2>7. Live' /\ ~BeforeOnline' => AvailabilityTrue'
      BY <2>1, <2>2, <2>3 DEF ServedInv, AvailabilityTrue
    <2>8. Live' /\ ~BeforeDiscovery' => DiscoveryTrue'
      BY <2>1, <2>2, <2>3, <2>5 DEF ServedInv, DiscoveryTrue, BeforeDiscovery
    <2> QED
      BY <2>1, <2>2, <2>6, <2>7, <2>8 DEF ServedInv
  <1>3. CASE Wake \/ EndPause
    BY <1>0, <1>3, ServedFrame DEF Wake, EndPause, Places, Live, Connected
  <1>4. CASE Switch
    <2>1. ~Live' /\ pc'.loop = pc.loop /\ UNCHANGED <<flagVars, edgeVars, config>>
      BY <1>0, <1>4 DEF Switch, LoadNew, NoSession, Live, Connected, Places
    <2> QED
      BY <2>1 DEF ServedInv
  <1>5. ASSUME NEW t \in Rebuilders, NEW c \in Configs, NEW next, ConfigurationLoaded(t, c, next)
        PROVE  ServedInv'
    <2>1. ~online' /\ ~discovered' /\ UNCHANGED <<enabled, edgeVars>>
      BY <1>5 DEF ConfigurationLoaded
    <2>2. Live' => Served'
      BY <1>5, <2>1, StartRebuildServes DEF ConfigurationLoaded, Live
    <2> QED
      BY <1>5, <2>1, <2>2 DEF ServedInv, AvailabilityTrue, DiscoveryTrue
  <1>6. ASSUME NEW c \in Configs, Boot(c) \/ ReloadModbus(c)
        PROVE  ServedInv'
    BY <1>5, <1>6 DEF Boot, ReloadModbus
  <1>7. CASE BootUnconfigured
    <2>1. UNCHANGED <<localVars, topicVars, rebuildVars, flagVars, edgeVars, brokerVars>>
      BY <1>7 DEF BootUnconfigured
    <2>2. ~BeforeOnline /\ ~BeforeDiscovery
      BY <1>7 DEF BootUnconfigured, BeforeOnline, BeforeDiscovery
    <2> QED
      BY <2>1, <2>2 DEF ServedInv, Live, Connected, Served, AvailabilityTrue, DiscoveryTrue
  <1>8. CASE Sample
    <2>1. UNCHANGED <<localVars, session, available, advertised>>
      BY <1>8 DEF Sample
    <2>2. CASE HandleConnected /\ enabled
      <3>1. pc'.loop \in {"topic", "online"}
        BY <1>0, <1>8, <2>2 DEF Sample, HandleConnected, StartRebuild, Places
      <3>2. Served'
        BY <2>1, <2>2, StartRebuildServes DEF HandleConnected
      <3>3. UNCHANGED flagVars
        BY <2>2 DEF HandleConnected
      <3>4. BeforeOnline' /\ BeforeDiscovery'
        BY <3>1 DEF BeforeOnline, BeforeDiscovery
      <3>5. online' \/ discovered' => config'.discovery
        BY <2>1, <3>3 DEF ServedInv
      <3> QED
        BY <3>1, <3>2, <3>3, <3>4, <3>5 DEF ServedInv
    <2>3. CASE HandleConnected /\ ~enabled
      <3>1. ~Live'
        BY <2>1, <2>3 DEF Live
      <3>2. UNCHANGED flagVars
        BY <2>3 DEF HandleConnected
      <3> QED
        BY <2>1, <3>1, <3>2 DEF ServedInv
    <2>4. CASE HandleDisconnected
      <3>1. ~Live' /\ ~online' /\ ~discovered'
        BY <2>4 DEF HandleDisconnected, Live
      <3> QED
        BY <3>1 DEF ServedInv
    <2> QED
      BY <1>8, <2>2, <2>3, <2>4 DEF Sample
  <1>9. CASE AnnounceOnline \/ PublishDatapoint \/ AnnounceDiscovery
    <2>1. UNCHANGED <<localVars, topicVars, rebuildVars, linkVars, subscriptions, connectedNow>>
      BY <1>9 DEF AnnounceOnline, PublishDatapoint, AnnounceDiscovery
    <2>2. (Live' <=> Live) /\ (Live' => Served')
      BY <2>1 DEF ServedInv, Live, Connected, Served
    <2>3. Live /\ config.discovery => CanPublish
      BY DEF Live, CanPublish
    <2>4. online' \/ discovered' => config'.discovery
      BY <1>9, <2>1
      DEF AnnounceOnline, PublishDatapoint, AnnounceDiscovery, PublishOnline, CanPublish, ServedInv
    <2>5. CASE AnnounceOnline
      <3>1. Live => connectedNow' # lastSeen'
        BY <2>5 DEF AnnounceOnline, EdgeInv, BeforeOnline, Live
      <3>2. pc'.loop = "discover"
        BY <1>0, <2>5 DEF AnnounceOnline, Places
      <3>3. Live => AvailabilityTrue'
        BY <2>1, <2>3, <2>5 DEF AnnounceOnline, PublishOnline, ServedInv, AvailabilityTrue
      <3> QED
        BY <2>1, <2>2, <2>4, <3>1, <3>2, <3>3 DEF ServedInv, BeforeDiscovery
    <2>6. CASE PublishDatapoint
      <3>1. ~BeforeOnline /\ ~BeforeDiscovery
        BY <2>6 DEF PublishDatapoint, BeforeOnline, BeforeDiscovery
      <3>2. pc'.loop = "discover" /\ UNCHANGED <<discovered, advertised>>
        BY <1>0, <2>6 DEF PublishDatapoint, Places
      <3>3. Live => AvailabilityTrue'
        BY <2>1, <2>3, <2>6, <3>1 DEF PublishDatapoint, PublishOnline, ServedInv, AvailabilityTrue
      <3> QED
        BY <2>1, <2>2, <2>4, <3>1, <3>2, <3>3 DEF ServedInv, DiscoveryTrue
    <2>7. CASE AnnounceDiscovery
      <3>1. ~BeforeOnline /\ UNCHANGED <<online, available>>
        BY <2>7 DEF AnnounceDiscovery, BeforeOnline
      <3>2. Live => DiscoveryTrue'
        BY <2>1, <2>3, <2>7, <3>1 DEF AnnounceDiscovery, ServedInv, DiscoveryTrue, BeforeDiscovery
      <3> QED
        BY <2>1, <2>2, <2>4, <3>1, <3>2 DEF ServedInv, AvailabilityTrue
    <2> QED
      BY <1>9, <2>5, <2>6, <2>7
  <1>10. CASE (\E new \in Settings : PutSettings(new)) \/ ApOff
    BY <1>0, <1>10, ServedFrame DEF PutSettings, ApOff, Places, Live
  <1>11. CASE PutFails \/ ClosePortal
    BY <1>11, ServedFrame DEF PutFails, ClosePortal, Live, Connected
  <1>12. CASE TestConnect
    BY <1>0, <1>12, ServedFrame DEF TestConnect, Places, Live, Connected
  <1>13. CASE Drop
    BY <1>13 DEF Drop, NoSession, Live, Connected, ServedInv
  <1>14. CASE WifiChanges \/ UNCHANGED vars
    BY <1>14, ServedFrame DEF WifiChanges, vars, Live, Connected
  <1> QED
    BY <1>1, <1>2, <1>3, <1>4, <1>6, <1>7, <1>8, <1>9, <1>10, <1>11, <1>12, <1>13, <1>14
    DEF Next, MqttStep, WebStep, LoopStep, Begin, Request

\* It holds from the start.
LEMMA AlwaysServed == Spec => [](EdgeInv /\ ServedInv)
  <1>1. Init => EdgeInv /\ ServedInv
    BY DEF Init, EdgeInv, BeforeOnline, ServedInv, Live, Connected
  <1>2. TypeOK /\ HandlersInv /\ EdgeInv /\ ServedInv /\ [Next]_vars => (EdgeInv /\ ServedInv)'
    BY EdgeStep, ServedStep
  <1> QED
    BY <1>1, <1>2, TypeCorrect, AlwaysHandlers, PTL DEF Spec

\* A settled session has its write topics subscribed and handled, after any sequence of
\* losses, new settings and new configurations, if loop() saw the last session end before it
\* began and no rebuild met another since the last that was made alone.
THEOREM WritesAreServed == Spec => []WriteTopicsAreSubscribed
  <1>1. TypeOK /\ EdgeInv /\ ServedInv => WriteTopicsAreSubscribed
    <2>1. ASSUME TypeOK, EdgeInv, ServedInv, Settled, ~mixed
          PROVE  WriteTopics(config, settings.root) \subseteq subscriptions \cap handlers
      <3>1. Served
        BY <2>1 DEF Settled, EdgeInv, ServedInv, Live
      <3>2. todo["web"] = {} /\ todo["loop"] = {}
        BY <2>1, TodoOfRebuilds DEF Settled, Rebuilders, Rebuilding
      <3> QED
        BY <3>1, <3>2 DEF Served, WriteTopics
    <2> QED
      BY <2>1 DEF WriteTopicsAreSubscribed
  <1> QED
    BY <1>1, TypeCorrect, AlwaysServed, PTL

\* And what the bridge believes to have announced, it has announced in this session under the
\* present root.
THEOREM AnnouncementsAreTrue == Spec => []FlagsTellTheTruth
  <1>1. EdgeInv /\ ServedInv => FlagsTellTheTruth
    BY DEF EdgeInv, ServedInv, Live, Settled, FlagsTellTheTruth, BeforeOnline, BeforeDiscovery,
           AvailabilityTrue, DiscoveryTrue
  <1> QED
    BY <1>1, AlwaysServed, PTL
===============================================================================
