------------------------------ MODULE MqttSession ------------------------------
(***************************************************************************)
(* The gateway's MQTT session (MqttManager, MqttSubscriptionHandler,       *)
(* ModbusMqttBridge): who connects, which topics are subscribed, which     *)
(* handlers are registered, and what Home Assistant is told.               *)
(*                                                                         *)
(*   "mqtt"  processMQTTAsync: reconnects a lost session                   *)
(*   "web"   the AsyncTCP task: new MQTT settings (reconfigureFromFile), a *)
(*           test connection, a new Modbus configuration; in a gateway     *)
(*           that started with the captive portal, which serves none of    *)
(*           these, the task "apOff", which calls reconfigureFromFile too  *)
(*   "loop"  loopTask: samples the connection once per pass, acts on the   *)
(*           edges it sees, publishes what it polls                        *)
(*                                                                         *)
(* All three call one PubSubClient without a lock.  A topic is a pair of a *)
(* root and a name.  The broker's side is the session, with its            *)
(* subscriptions, its will and what was published in it; a publication on  *)
(* a live session succeeds.  A definition marked "Slip" is a plausible     *)
(* mistake in the one after it.                                            *)
(***************************************************************************)
EXTENDS FiniteSets

CONSTANTS Servers,   \* brokers
          Roots,     \* root topics
          NoRoot,    \* the empty root topic
          Writes,    \* names of the topics of write datapoints
          System,    \* name of the topics every root has
          None,      \* no broker, no will
          Settings,  \* the contents of /conf/mqtt.json that are uploaded
          Configs    \* the Modbus configurations, as far as MQTT is concerned

\* What loadMQTTConfig makes of a file that is damaged, or not there.
Unreadable == [enabled |-> FALSE, server |-> None, root |-> NoRoot]

ASSUME SessionAssumption ==
  /\ None \notin Servers \cup Roots
  /\ NoRoot \in Roots
  /\ System \notin Writes
  /\ Settings \subseteq [enabled : BOOLEAN, server : Servers \cup {None}, root : Roots]
  /\ Configs \subseteq [writes : SUBSET Writes, discovery : BOOLEAN]

VARIABLES
  wifi,           \* the station is connected
  portal,         \* the captive portal of this start: none, open or closed
  file,           \* /conf/mqtt.json, as it loads
  settings,       \* what loadMQTTConfig last read
  enabled,        \* s_mqttEnabled
  will,           \* root of the topic configureWill was last called with, or None
  handlers,       \* topics with a handler (MqttSubscriptionHandler)
  writeTopics,    \* _writeTopics of the bridge
  todo,           \* per task: write datapoints that its rebuild has not come to
  base,           \* per task: root its rebuild builds the next topic with, or None
  config,         \* the Modbus configuration
  online,         \* haAvailabilityOnlinePublished
  discovered,     \* haDiscoveryPublished
  connectedNow,   \* mqttConnectedNow, what this pass of loop() has sampled
  lastSeen,       \* _mqttConnectedLastLoop
  pc,             \* where each task is
  dial,           \* connection attempts under way: server, will, and whether the
                  \* settings were changed meanwhile
  session,        \* broker of the session, None without one
  sessionWill,    \* root of the topic of the session's will, or None
  subscriptions,  \* topics the session is subscribed to and that have a handler
  available,      \* root of the last "online" published in the session, or None
  advertised,     \* root in the last discovery messages published in it, or None
  current,        \* history: the settings the gateway was started with or switched to
  late,           \* history: the session's attempt began before that
  overlooked,     \* history: the session began before loop() had seen the end of the last
  mixed           \* history: a rebuild met another, or other settings

localVars == <<portal, file, settings, enabled, will, config, current>>
topicVars == <<handlers, writeTopics>>
rebuildVars == <<todo, base, mixed>>
flagVars == <<online, discovered>>
edgeVars == <<connectedNow, lastSeen>>
linkVars == <<session, sessionWill, late, overlooked>>
brokerVars == <<linkVars, subscriptions, available, advertised>>
vars == <<wifi, localVars, topicVars, rebuildVars, flagVars, edgeVars, pc, dial, brokerVars>>

Callers == {"mqtt", "web"}
Rebuilders == {"web", "loop"}
Topics == Roots \X (Writes \cup {System})
NoDial == [server |-> None, will |-> None, old |-> FALSE]
Unloaded == [writes |-> {}, discovery |-> FALSE]

Rebuilding(t) == pc[t] \in {"topic", "register"}

TypeOK ==
  /\ wifi \in BOOLEAN
  /\ portal \in {"none", "open", "closed"}
  /\ {file, settings, current} \subseteq Settings \cup {Unreadable}
  /\ enabled \in BOOLEAN
  /\ will \in Roots \cup {None}
  /\ handlers \subseteq Topics
  /\ writeTopics \subseteq Topics
  /\ todo \in [Rebuilders -> SUBSET Writes]
  /\ base \in [Rebuilders -> Roots \cup {None}]
  /\ \A t \in Rebuilders : (todo[t] # {}) = Rebuilding(t) /\ (base[t] \in Roots) = (pc[t] = "register")
  /\ config \in Configs \cup {Unloaded}
  /\ online \in BOOLEAN /\ discovered \in BOOLEAN
  /\ connectedNow \in BOOLEAN /\ lastSeen \in BOOLEAN
  /\ pc \in [mqtt : {"home", "connect", "dial", "subscribe"},
             web : {"home", "pause", "switch", "connect", "dial", "subscribe", "topic", "register"},
             loop : {"boot", "run", "topic", "register", "online", "discover"}]
  /\ dial \in [Callers -> [server : Servers \cup {None}, will : Roots \cup {None}, old : BOOLEAN]]
  /\ \A t \in Callers : (dial[t].server \in Servers) = (pc[t] = "dial")
  /\ session \in Servers \cup {None}
  /\ subscriptions \subseteq Topics
  /\ sessionWill \in Roots \cup {None}
  /\ available \in Roots \cup {None} /\ advertised \in Roots \cup {None}
  /\ late \in BOOLEAN /\ overlooked \in BOOLEAN /\ mixed \in BOOLEAN

\* MqttManager::begin has run and the web server serves, ModbusManager::begin has not run.
\* With the captive portal MQTT is off until the portal is closed.
Init ==
  /\ wifi = FALSE
  /\ portal \in {"none", "open"}
  /\ file \in Settings \cup {Unreadable}
  /\ settings = file /\ current = file
  /\ enabled = (file.enabled /\ portal = "none")
  /\ will = None
  /\ handlers = {<<file.root, System>>}
  /\ writeTopics = {}
  /\ todo = [t \in Rebuilders |-> {}] /\ base = [t \in Rebuilders |-> None] /\ mixed = FALSE
  /\ config = Unloaded
  /\ online = FALSE /\ discovered = FALSE
  /\ connectedNow = FALSE /\ lastSeen = FALSE
  /\ pc = [mqtt |-> "home", web |-> "home", loop |-> "boot"]
  /\ dial = [t \in Callers |-> NoDial]
  /\ session = None /\ sessionWill = None /\ late = FALSE /\ overlooked = FALSE
  /\ subscriptions = {} /\ available = None /\ advertised = None

Goto(t, location) == pc' = [pc EXCEPT ![t] = location]

Connected == session # None

WriteTopics(c, root) == {root} \X c.writes

-------------------------------------------------------------------------------
(***************************************************************************)
(* The broker's side.                                                      *)
(***************************************************************************)
\* What goes with a session.
NoSession ==
  /\ session' = None /\ sessionWill' = None /\ late' = FALSE
  /\ subscriptions' = {} /\ available' = None /\ advertised' = None

\* The connection breaks, or the broker gives up on a silent client.
Drop ==
  /\ Connected
  /\ NoSession
  /\ UNCHANGED <<wifi, localVars, topicVars, rebuildVars, flagVars, edgeVars, pc, dial, overlooked>>

WifiChanges ==
  /\ wifi' = ~wifi
  /\ UNCHANGED <<localVars, topicVars, rebuildVars, flagVars, edgeVars, pc, dial, brokerVars>>

-------------------------------------------------------------------------------
(***************************************************************************)
(* ensureMQTTConnection, in the MQTT task or in the web task.              *)
(***************************************************************************)
\* Slip: only the end of a session is acted on, not its absence.
WakeOnEdge ==
  /\ pc.mqtt = "home"
  /\ enabled /\ wifi /\ ~Connected /\ lastSeen
  /\ Goto("mqtt", "connect")
  /\ UNCHANGED <<wifi, localVars, topicVars, rebuildVars, flagVars, edgeVars, dial, brokerVars>>

\* Wi-Fi is up and the session is gone; whether the reconnect interval is over is
\* left open.
Wake ==
  /\ pc.mqtt = "home"
  /\ enabled /\ wifi /\ ~Connected
  /\ Goto("mqtt", "connect")
  /\ UNCHANGED <<wifi, localVars, topicVars, rebuildVars, flagVars, edgeVars, dial, brokerVars>>

\* Slip: the broker's name is not looked at first.
BeginConnectBlindly(t) ==
  /\ pc[t] = "connect"
  /\ IF Connected
     THEN Goto(t, "subscribe") /\ UNCHANGED dial
     ELSE /\ dial' = [dial EXCEPT ![t] = [server |-> settings.server, will |-> will, old |-> FALSE]]
          /\ Goto(t, "dial")
  /\ UNCHANGED <<wifi, localVars, topicVars, rebuildVars, flagVars, edgeVars, brokerVars>>

\* Without a broker nothing is done at all.  connect() returns at once when the
\* other task has a session already.
BeginConnect(t) ==
  /\ pc[t] = "connect"
  /\ \/ settings.server = None /\ Goto(t, "home") /\ UNCHANGED dial
     \/ settings.server # None /\ Connected /\ Goto(t, "subscribe") /\ UNCHANGED dial
     \/ /\ settings.server # None /\ ~Connected
        /\ dial' = [dial EXCEPT ![t] = [server |-> settings.server, will |-> will, old |-> FALSE]]
        /\ Goto(t, "dial")
  /\ UNCHANGED <<wifi, localVars, topicVars, rebuildVars, flagVars, edgeVars, brokerVars>>

\* A clean session starts without subscriptions; it ends one that the other task
\* has opened meanwhile with the same client id.
Accepted(t) ==
  /\ pc[t] = "dial"
  /\ wifi
  /\ session' = dial[t].server /\ sessionWill' = dial[t].will /\ late' = dial[t].old
  /\ subscriptions' = {} /\ available' = None /\ advertised' = None
  /\ overlooked' = (overlooked \/ connectedNow)
  /\ dial' = [dial EXCEPT ![t] = NoDial]
  /\ Goto(t, "subscribe")
  /\ UNCHANGED <<wifi, localVars, topicVars, rebuildVars, flagVars, edgeVars>>

\* The attempt fails.  Two attempts at the same time share one client, and one that
\* fails closes the connection of the other.
Refused(t) ==
  /\ pc[t] = "dial"
  /\ \/ UNCHANGED brokerVars
     \/ Connected /\ NoSession /\ UNCHANGED overlooked
  /\ dial' = [dial EXCEPT ![t] = NoDial]
  /\ Goto(t, "subscribe")
  /\ UNCHANGED <<wifi, localVars, topicVars, rebuildVars, flagVars, edgeVars>>

\* Every topic with a handler is subscribed, whether or not connect() succeeded.
Subscribe(t) ==
  /\ pc[t] = "subscribe"
  /\ subscriptions' = IF Connected THEN subscriptions \cup handlers ELSE subscriptions
  /\ Goto(t, "home")
  /\ UNCHANGED <<wifi, localVars, topicVars, rebuildVars, flagVars, edgeVars, dial, linkVars, available, advertised>>

-------------------------------------------------------------------------------
(***************************************************************************)
(* New settings.                                                           *)
(***************************************************************************)
\* PUT /api/config/mqtt up to the pause in reconfigureFromFile.
PutSettings(new) ==
  /\ pc.web = "home" /\ portal = "none"
  /\ file' = new
  /\ enabled' = FALSE
  /\ Goto("web", "pause")
  /\ UNCHANGED <<wifi, portal, settings, will, config, current, topicVars, rebuildVars, flagVars, edgeVars,
                 dial, brokerVars>>

\* The file was opened, and so truncated, but not written to the end: 500, and nothing is
\* loaded.
PutFails ==
  /\ pc.web = "home" /\ portal = "none"
  /\ file' = Unreadable
  /\ UNCHANGED <<wifi, portal, settings, enabled, will, config, current, topicVars, rebuildVars, flagVars, edgeVars, pc,
                 dial, brokerVars>>

\* POST /api/wifi/ap/off stops the portal, and with it what holds up setup() ...
ClosePortal ==
  /\ portal = "open"
  /\ portal' = "closed"
  /\ UNCHANGED <<wifi, file, settings, enabled, will, config, current, topicVars, rebuildVars, flagVars, edgeVars, pc,
                 dial, brokerVars>>

\* ... and starts a task that calls reconfigureFromFile after a while; it can be asked for
\* again.
ApOff ==
  /\ pc.web = "home" /\ portal = "closed"
  /\ enabled' = FALSE
  /\ Goto("web", "pause")
  /\ UNCHANGED <<wifi, portal, file, settings, will, config, current, topicVars, rebuildVars, flagVars, edgeVars,
                 dial, brokerVars>>

\* The pause is over, whatever the MQTT task is doing.
EndPause ==
  /\ pc.web = "pause"
  /\ Goto("web", "switch")
  /\ UNCHANGED <<wifi, localVars, topicVars, rebuildVars, flagVars, edgeVars, dial, brokerVars>>

\* What loads and replaces the settings: attempts under way are with the old ones, and a
\* rebuild under way goes on with the new root.
LoadNew ==
  /\ settings' = file /\ current' = file
  /\ handlers' = {<<file.root, System>>}
  /\ mixed' = Rebuilding("loop")
  /\ dial' = [t \in Callers |-> [dial[t] EXCEPT !.old = (pc[t] = "dial")]]
  /\ enabled' = file.enabled
  /\ Goto("web", IF file.enabled /\ wifi THEN "connect" ELSE "home")

\* Slip: the client is not disconnected first.
SwitchStaysConnected ==
  /\ pc.web = "switch"
  /\ LoadNew
  /\ subscriptions' = subscriptions \cap {<<file.root, System>>}
  /\ UNCHANGED <<wifi, portal, file, will, config, writeTopics, todo, base, flagVars, edgeVars, linkVars,
                 available, advertised>>

\* The rest of reconfigureFromFile: disconnect, load, clear, resume.  After a clean
\* disconnect the broker drops the will.
Switch ==
  /\ pc.web = "switch"
  /\ NoSession
  /\ LoadNew
  /\ UNCHANGED <<wifi, portal, file, will, config, writeTopics, todo, base, flagVars, edgeVars, overlooked>>

\* testConnectOnce loads the file as it is and leaves the handlers as they are; then it asks
\* for Wi-Fi, but not whether MQTT is enabled.
TestConnect ==
  /\ pc.web = "home" /\ portal = "none"
  /\ settings' = file
  /\ mixed' = (mixed \/ file # settings)
  /\ IF wifi THEN Goto("web", "connect") ELSE UNCHANGED pc
  /\ UNCHANGED <<wifi, portal, file, enabled, will, config, current, topicVars, todo, base, flagVars, edgeVars,
                 dial, brokerVars>>

-------------------------------------------------------------------------------
(***************************************************************************)
(* rebuildWriteSubscriptions of ModbusMqttBridge, by task t.               *)
(***************************************************************************)
\* A rebuild that begins while another is under way works on the same vectors.  One that
\* begins alone puts right what others have left behind.
Mix(t) == mixed' = IF \E other \in Rebuilders \ {t} : Rebuilding(other) THEN TRUE ELSE ~enabled /\ mixed

\* Slip: the old handlers are forgotten, not removed.
StartRebuildAdds(t, c, next) ==
  /\ Mix(t)
  /\ IF enabled
     THEN /\ writeTopics' = {}
          /\ todo' = [todo EXCEPT ![t] = c.writes]
          /\ Goto(t, IF c.writes = {} THEN next ELSE "topic")
          /\ UNCHANGED <<handlers, subscriptions>>
     ELSE Goto(t, next) /\ UNCHANGED <<topicVars, todo, subscriptions>>
  /\ UNCHANGED base

\* If MQTT is enabled the old handlers are removed, and each write datapoint gets a new one;
\* next is where the task goes after that.
StartRebuild(t, c, next) ==
  /\ Mix(t)
  /\ IF enabled
     THEN /\ handlers' = handlers \ writeTopics
          /\ subscriptions' = subscriptions \ writeTopics
          /\ writeTopics' = {}
          /\ todo' = [todo EXCEPT ![t] = c.writes]
          /\ Goto(t, IF c.writes = {} THEN next ELSE "topic")
     ELSE Goto(t, next) /\ UNCHANGED <<topicVars, todo, subscriptions>>
  /\ UNCHANGED base

\* The root is read anew for every topic ...
TakeTopic(t) ==
  /\ pc[t] = "topic"
  /\ base' = [base EXCEPT ![t] = settings.root]
  /\ Goto(t, "register")
  /\ UNCHANGED <<wifi, localVars, topicVars, todo, mixed, flagVars, edgeVars, dial, brokerVars>>

AfterRebuild(t) == IF t = "web" THEN "home" ELSE IF connectedNow THEN "online" ELSE "run"

\* What a new topic changes besides the subscriptions.
Register(t, w) ==
  /\ handlers' = handlers \cup {<<base[t], w>>}
  /\ writeTopics' = writeTopics \cup {<<base[t], w>>}
  /\ todo' = [todo EXCEPT ![t] = @ \ {w}] /\ base' = [base EXCEPT ![t] = None]
  /\ Goto(t, IF todo[t] = {w} THEN AfterRebuild(t) ELSE "topic")
  /\ UNCHANGED <<wifi, localVars, mixed, flagVars, edgeVars, dial, linkVars, available, advertised>>

\* Slip: the topic is left to be subscribed with the next session.
AddHandlerOnly(t) ==
  /\ pc[t] = "register"
  /\ \E w \in todo[t] : Register(t, w)
  /\ UNCHANGED subscriptions

\* ... which gets its handler and is subscribed.
AddHandler(t) ==
  /\ pc[t] = "register"
  /\ \E w \in todo[t] :
       /\ Register(t, w)
       /\ subscriptions' = IF Connected THEN subscriptions \cup {<<base[t], w>>} ELSE subscriptions

RebuildStep(t) == TakeTopic(t) \/ AddHandler(t)

-------------------------------------------------------------------------------
(***************************************************************************)
(* The rest of ModbusMqttBridge.                                           *)
(***************************************************************************)
\* onConfigurationLoaded, in begin() and when the web task reloads the configuration.
\* A file that cannot be loaded leaves all of this as it is.
ConfigurationLoaded(t, c, next) ==
  /\ config' = c
  /\ online' = FALSE /\ discovered' = FALSE
  /\ will' = IF c.discovery THEN settings.root ELSE None
  /\ StartRebuild(t, c, next)
  /\ UNCHANGED <<wifi, portal, file, settings, enabled, current, edgeVars, dial, linkVars, available, advertised>>

Boot(c) ==
  /\ pc.loop = "boot" /\ portal # "open"
  /\ ConfigurationLoaded("loop", c, "run")

\* There is no configuration, or none that parses.
BootUnconfigured ==
  /\ pc.loop = "boot" /\ portal # "open"
  /\ Goto("loop", "run")
  /\ UNCHANGED <<wifi, localVars, topicVars, rebuildVars, flagVars, edgeVars, dial, brokerVars>>

ReloadModbus(c) ==
  /\ pc.web = "home" /\ portal = "none"
  /\ ConfigurationLoaded("web", c, "home")

\* handleMqttConnected, when loop() sees that the session is new.
HandleConnected ==
  /\ Connected /\ ~lastSeen
  /\ connectedNow' = TRUE
  /\ IF enabled
     THEN StartRebuild("loop", config, "online") /\ UNCHANGED lastSeen
     ELSE lastSeen' = TRUE /\ UNCHANGED <<topicVars, rebuildVars, subscriptions, pc>>
  /\ UNCHANGED <<flagVars, overlooked>>

\* handleMqttDisconnected, when loop() sees that it is gone.
HandleDisconnected ==
  /\ ~Connected /\ lastSeen
  /\ connectedNow' = FALSE /\ lastSeen' = FALSE
  /\ online' = FALSE /\ discovered' = FALSE
  /\ overlooked' = FALSE
  /\ UNCHANGED <<topicVars, rebuildVars, subscriptions, pc>>

\* Slip: _mqttConnectedLastLoop is updated before it is compared, so no edge is seen.
SampleTooLate ==
  /\ pc.loop = "run"
  /\ connectedNow' = Connected /\ lastSeen' = Connected
  /\ UNCHANGED <<wifi, localVars, topicVars, rebuildVars, flagVars, pc, dial, brokerVars>>

\* The first lines of loop(); without an edge they change nothing.
Sample ==
  /\ pc.loop = "run"
  /\ HandleConnected \/ HandleDisconnected
  /\ UNCHANGED <<wifi, localVars, dial, session, sessionWill, late, available, advertised>>

\* What is published now is published under the present root.
CanPublish == config.discovery /\ enabled /\ Connected

PublishOnline ==
  /\ available' = IF CanPublish THEN settings.root ELSE available
  /\ online' = (online \/ CanPublish)

\* publishAvailabilityOnline of handleMqttConnected.
AnnounceOnline ==
  /\ pc.loop = "online"
  /\ PublishOnline
  /\ Goto("loop", "discover")
  /\ UNCHANGED <<wifi, localVars, topicVars, rebuildVars, discovered, edgeVars, dial, linkVars,
                 subscriptions, advertised>>

\* publishDatapoint makes up for what has not been announced.
PublishDatapoint ==
  /\ pc.loop = "run"
  /\ config.discovery /\ enabled
  /\ \/ ~online /\ PublishOnline
     \/ online /\ ~discovered /\ UNCHANGED <<online, available>>
  /\ Goto("loop", "discover")
  /\ UNCHANGED <<wifi, localVars, topicVars, rebuildVars, discovered, edgeVars, dial, linkVars,
                 subscriptions, advertised>>

\* publishHomeAssistantDiscovery, in publishDatapoint only if it is not done yet; after
\* handleMqttConnected the pass goes on, and takes down what it has sampled.
AnnounceDiscovery ==
  /\ pc.loop = "discover"
  /\ IF CanPublish /\ (~discovered \/ connectedNow # lastSeen)
     THEN advertised' = settings.root /\ discovered' = TRUE
     ELSE UNCHANGED <<advertised, discovered>>
  /\ lastSeen' = connectedNow
  /\ Goto("loop", "run")
  /\ UNCHANGED <<wifi, localVars, topicVars, rebuildVars, online, connectedNow, dial, linkVars,
                 subscriptions, available>>

-------------------------------------------------------------------------------
Connect(t) == BeginConnect(t) \/ Accepted(t) \/ Refused(t) \/ Subscribe(t)

MqttStep == Wake \/ Connect("mqtt")

WebStep == EndPause \/ Switch \/ Connect("web") \/ RebuildStep("web")

Begin == BootUnconfigured \/ \E c \in Configs : Boot(c)

LoopStep == Begin \/ Sample \/ RebuildStep("loop") \/ AnnounceOnline \/ AnnounceDiscovery

Request ==
  \/ \E new \in Settings : PutSettings(new)
  \/ PutFails \/ ClosePortal \/ ApOff \/ TestConnect
  \/ \E c \in Configs : ReloadModbus(c)

Next == MqttStep \/ WebStep \/ LoopStep \/ PublishDatapoint \/ Request \/ Drop \/ WifiChanges

Spec == Init /\ [][Next]_vars

\* The scheduler runs every task, a polled slave answers now and then, and the broker
\* accepts one of any number of attempts.
FairSpec ==
  /\ Spec
  /\ WF_vars(MqttStep) /\ WF_vars(WebStep)
  /\ WF_vars(LoopStep) /\ WF_vars(PublishDatapoint)
  /\ SF_vars(Accepted("mqtt"))
-------------------------------------------------------------------------------
(***************************************************************************)
(* Properties.                                                             *)
(***************************************************************************)
\* No step of any task is under way, and loop() has acted on the present session.
Settled ==
  /\ pc = [mqtt |-> "home", web |-> "home", loop |-> "run"]
  /\ enabled /\ Connected /\ lastSeen /\ ~overlooked

\* A message can only trigger a write of the present configuration under the present
\* root, also when the configuration changed while MQTT was off.  Handlers of an earlier
\* root or of removed datapoints are gone before MQTT is enabled again, unless a rebuild
\* met another or other settings; the next one puts that right.
HandlersAreCurrent ==
  enabled /\ ~mixed =>
    handlers \subseteq WriteTopics(config, settings.root) \cup (Roots \X {System})

\* "Rebuild subscriptions for new root topic ... connect and resubscribe immediately"
\* (MqttManager.cpp:355, 362): in a settled session every write datapoint is subscribed
\* and has its handler.
WriteTopicsAreSubscribed ==
  Settled /\ ~mixed => WriteTopics(config, settings.root) \subseteq subscriptions \cap handlers

\* A settled session is one with the broker of the last settings that were put in place,
\* whatever test connections have loaded since, unless it comes from an attempt that the
\* pause did not wait for; and these settings are what is stored, or nothing is.
SessionFollowsSettings ==
  Settled => /\ session = current.server \/ late
             /\ file \in {current, Unreadable}

\* What the bridge believes it has announced was announced in this session: "online" under
\* the present root, discovery messages that name the present topics.
FlagsTellTheTruth ==
  Settled /\ ~mixed => /\ online => available = settings.root
                       /\ discovered => advertised = settings.root

\* "LWT uses the first matched device" (ModbusMqttBridge.cpp:43): a session that told
\* Home Assistant a device is online has the will to say it is offline.
WillMatchesAvailability ==
  Settled /\ ~mixed /\ config.discovery /\ online => sessionWill = settings.root

\* The MQTT task gets a lost session back while Wi-Fi and the broker are there.
Reconnects ==
  <>[](wifi /\ enabled /\ pc.web = "home" /\ settings.server # None) => []<>Connected

\* Once no more requests come in, a session that lasts, and whose predecessor loop() has
\* seen to end, is soon one in which write datapoints can be written and Home Assistant
\* shows the device as available.
ServesAgain ==
  <>[][~Request]_vars /\ <>[](Connected /\ enabled /\ ~overlooked /\ ~mixed) =>
    <>[](/\ WriteTopics(config, settings.root) \subseteq subscriptions \cap handlers
         /\ config.discovery => available = settings.root)
===============================================================================
