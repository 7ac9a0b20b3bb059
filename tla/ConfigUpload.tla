----------------------------- MODULE ConfigUpload ------------------------------
(***************************************************************************)
(* Uploads of the Modbus configuration, the MQTT configuration and the     *)
(* MQTT password (MBXServerHandlers.cpp), chunk by chunk.                  *)
(*                                                                         *)
(* The AsyncTCP task handles one chunk after another, of whatever request  *)
(* it belongs to. The Modbus configuration goes into its file as it comes  *)
(* (one handle per request, _tempFile); the other two are gathered in a    *)
(* buffer first (_tempObject, BodyAccumulator). A body is told from others *)
(* by its request: byte i of r's body is <<r, i>>. A write is on flash     *)
(* when it returns, and a loader reads a file at one moment. Tasks of the  *)
(* portal (handleWifiApOff) load mqtt.json at any time.                    *)
(***************************************************************************)
EXTENDS BodyAccumulator

CONSTANTS ModbusPuts,   \* requests PUT /api/config/modbus
          MqttPuts,     \* requests PUT /api/config/mqtt
          SecretPosts,  \* requests POST /api/config/mqtt/secret
          Error,        \* the error byte that markBodyError leaves in _tempObject
          Unparsable,   \* requests whose body is not JSON
          Length,       \* of each request's body
          ApTasks       \* the "apOff" tasks that can run at one time

Requests == ModbusPuts \cup MqttPuts \cup SecretPosts

ASSUME UploadAssumption ==
  /\ Length \in [Requests -> Nat \ {0}]
  /\ None \notin Requests \cup ApTasks /\ Error # None /\ None # "ok"
  /\ \A r \in Requests : Nul # <<r, 1>>
  /\ Unparsable \subseteq Requests
  /\ ModbusPuts \cap (MqttPuts \cup SecretPosts) = {} /\ MqttPuts \cap SecretPosts = {}

VARIABLES
  got,       \* bytes of each request's body that have arrived; 0 outside a request
  opened,    \* _tempFile of each request is open
  slot,      \* _tempObject of each request
  answer,    \* how each request ended last: "ok", "failed", or None (not, or cut off)
  file,      \* contents of config.json and mqtt.json, and the password in preferences
  web,       \* the request whose MQTT file is being written, or None
  running,   \* what ModbusManager and MqttManager have loaded; None if no request and no
             \* new gateway brought it: no devices, MQTT defaults, or a mixture
  booted,    \* setup() has run ModbusManager::begin
  copy,      \* the contents of mqtt.json that an apOff task has read and not yet loaded
  overtaken, \* the apOff tasks during whose load another task loaded
  latest,    \* history: the request that opened each of the two files last
  spoilt     \* history: the Modbus uploads with which another one had the file open, or
             \* whose failure could not be marked

requestVars == <<got, opened, slot, answer>>
loaderVars == <<booted, copy, overtaken>>
vars == <<requestVars, file, web, running, loaderVars, latest, spoilt>>

Kinds == {"modbus", "mqtt", "secret"}

\* What ensureConfigFile leaves in the file of a new gateway.
Factory == <<Nul>>

Part(r, first, last) == [i \in 1 .. last - first + 1 |-> <<r, first + i - 1>>]
Body(r) == Part(r, 1, Length[r])

\* The contents that parse as the configuration that they are.
Loadable == {Factory} \cup {Body(r) : r \in Requests \ Unparsable}

ASSUME NoneIsNoFile == None \notin Loadable

\* loadMQTTConfig: defaults if the file does not parse.
Load(contents) == IF contents \in Loadable THEN contents ELSE None

\* MqttManager after a load: two tasks that load at a time can each set a part of it.
Loads(contents) == {Load(contents)} \cup {None : t \in {u \in ApTasks : copy[u] # None}}

\* loadConfiguration: the devices stay if the file does not parse. What several uploads
\* have written may parse too, as something else.
Beginnings == UNION {{Part(r, 1, k) : k \in 0 .. Length[r]} : r \in ModbusPuts}
LoadsModbus(contents) ==
  IF contents \in Loadable THEN {contents}
  ELSE {running.modbus} \cup (IF contents \in Beginnings THEN {} ELSE {None})

\* The bytes of part, written to a file at an offset that another handle may have made too
\* large by truncating the file: the file system appends then.
WriteAt(contents, offset, part) ==
  LET at == IF offset < Len(contents) THEN offset ELSE Len(contents)
      end == at + Len(part)
  IN [i \in 1 .. (IF end < Len(contents) THEN Len(contents) ELSE end) |->
       IF i \in at + 1 .. end THEN part[i - at] ELSE contents[i]]

Init ==
  /\ got = [r \in Requests |-> 0]
  /\ opened = [r \in Requests |-> FALSE]
  /\ slot = [r \in Requests |-> None]
  /\ answer = [r \in Requests |-> None]
  /\ file = [k \in Kinds |-> Factory]
  /\ web = None
  /\ running = [modbus |-> None, mqtt |-> Factory]
  /\ booted = FALSE
  /\ copy = [t \in ApTasks |-> None]
  /\ overtaken = {}
  /\ latest = [k \in {"modbus", "mqtt"} |-> None]
  /\ spoilt = {}
-------------------------------------------------------------------------------
\* The next n bytes of r's body arrive while the task is free.
Arrives(r, n) ==
  /\ web = None
  /\ n \in 1 .. Length[r] - got[r]

Chunk(r, n) == Part(r, got[r] + 1, got[r] + n)

IsLast(r, n) == got[r] + n = Length[r]

\* The request goes on, or is answered, destroyed and its file closed.
Proceed(r, n, handle, object, result) ==
  /\ got' = [got EXCEPT ![r] = IF IsLast(r, n) THEN 0 ELSE @ + n]
  /\ opened' = [opened EXCEPT ![r] = handle /\ ~IsLast(r, n)]
  /\ slot' = [slot EXCEPT ![r] = IF IsLast(r, n) THEN None ELSE object]
  /\ answer' = [answer EXCEPT ![r] = IF IsLast(r, n) THEN result ELSE None]

\* Slip: markBodyError forgotten.
MarkedNever(object, granted) == object

\* markBodyError: one byte, if it can be had.
Marked(object, granted) == IF object = None /\ ~granted THEN None ELSE Error

\* Slip: the reload does not look at bodyFailed.
FinishModbusAlways(r, n, object, contents) ==
  /\ file' = [file EXCEPT !.modbus = contents]
  /\ \E devices \in IF IsLast(r, n) THEN LoadsModbus(contents) ELSE {running.modbus} :
       running' = [running EXCEPT !.modbus = devices]

\* The end of handlePutModbusConfigBody: 500 after an error, else reload and 204. The
\* result of the reload is not looked at.
FinishModbus(r, n, object, contents) ==
  /\ file' = [file EXCEPT !.modbus = contents]
  /\ \E devices \in IF IsLast(r, n) /\ object # Error
                     THEN LoadsModbus(contents) ELSE {running.modbus} :
       running' = [running EXCEPT !.modbus = devices]

ModbusOutcome(object) == IF object = Error THEN "failed" ELSE "ok"

\* The first chunk does not get the file open.
ModbusOpenFails(r, n) ==
  /\ Arrives(r, n) /\ got[r] = 0
  /\ \E granted \in BOOLEAN :
       LET object == Marked(None, granted)
       IN /\ Proceed(r, n, FALSE, object, ModbusOutcome(object))
          /\ FinishModbus(r, n, object, file.modbus)
          /\ spoilt' = IF granted THEN spoilt ELSE spoilt \cup {r}
  /\ UNCHANGED <<web, loaderVars, latest>>

\* The uploads, other than r, that have the file open.
OthersOpen(r) == {q \in ModbusPuts \ {r} : opened[q]}

\* The first chunk opens and truncates the file, and is written: k of its n bytes, a
\* short write unless all of them.
ModbusOpens(r, n) ==
  /\ Arrives(r, n) /\ got[r] = 0
  /\ \E k \in 0 .. n, granted \in BOOLEAN :
       LET object == IF k = n THEN None ELSE Marked(None, granted)
       IN /\ Proceed(r, n, k = n, object, ModbusOutcome(object))
          /\ FinishModbus(r, n, object, Part(r, 1, k))
          /\ spoilt' = IF OthersOpen(r) # {} \/ (k < n /\ ~granted)
                         THEN spoilt \cup OthersOpen(r) \cup {r} ELSE spoilt \ {r}
  /\ latest' = [latest EXCEPT !.modbus = r]
  /\ UNCHANGED <<web, loaderVars>>

\* A later chunk is written, wholly or not.
ModbusWrites(r, n) ==
  /\ Arrives(r, n) /\ got[r] > 0
  /\ opened[r] /\ slot[r] # Error
  /\ \E k \in 0 .. n, granted \in BOOLEAN :
       LET object == IF k = n THEN None ELSE Marked(None, granted)
       IN /\ Proceed(r, n, k = n, object, ModbusOutcome(object))
          /\ FinishModbus(r, n, object,
                          WriteAt(file.modbus, got[r], Part(r, got[r] + 1, got[r] + k)))
          /\ spoilt' = IF k < n /\ ~granted THEN spoilt \cup {r} ELSE spoilt
  /\ UNCHANGED <<web, loaderVars, latest>>

\* A later chunk finds no open file, or an error.
ModbusDrains(r, n) ==
  /\ Arrives(r, n) /\ got[r] > 0
  /\ ~opened[r] \/ slot[r] = Error
  /\ Proceed(r, n, opened[r], slot[r], ModbusOutcome(slot[r]))
  /\ FinishModbus(r, n, slot[r], file.modbus)
  /\ UNCHANGED <<web, loaderVars, latest, spoilt>>

-------------------------------------------------------------------------------
\* The buffer of r after a chunk, and whether append() hands it out.
Gathers(r, n, granted) == Accumulate(slot[r], Chunk(r, n), got[r], Length[r], granted)
HandsOut(r, n, granted) == Complete(Gathers(r, n, granted), Chunk(r, n), got[r], Length[r])

\* A chunk of a gathered body that is not the last, or for which there was no memory.
Gather(r, n) ==
  /\ Arrives(r, n)
  /\ \E granted \in BOOLEAN :
       /\ ~HandsOut(r, n, granted)
       /\ Proceed(r, n, FALSE, Gathers(r, n, granted), "failed")
  /\ UNCHANGED <<file, web, running, loaderVars, latest, spoilt>>

\* The last chunk of a password: one write to preferences, if it parses. 204 is sent
\* also when the preferences do not open or the write fails, and nothing is stored.
PostSecret(r, n) ==
  /\ Arrives(r, n)
  /\ \E granted \in BOOLEAN :
       /\ HandsOut(r, n, granted)
       /\ IF r \in Unparsable
            THEN /\ Proceed(r, n, FALSE, None, "failed")
                 /\ file' = file
            ELSE /\ Proceed(r, n, FALSE, None, "ok")
                 /\ \E stored \in {file.secret, Gathers(r, n, granted)} :
                      file' = [file EXCEPT !.secret = stored]
  /\ UNCHANGED <<web, running, loaderVars, latest, spoilt>>

\* The last chunk of an MQTT configuration: the file does not open,
MqttOpenFails(r, n) ==
  /\ Arrives(r, n)
  /\ \E granted \in BOOLEAN :
       /\ HandsOut(r, n, granted)
       /\ Proceed(r, n, FALSE, None, "failed")
  /\ UNCHANGED <<file, web, running, loaderVars, latest, spoilt>>

\* or it opens and is truncated, and the task goes on to write it.
MqttOpens(r, n) ==
  /\ Arrives(r, n)
  /\ \E granted \in BOOLEAN :
       /\ HandsOut(r, n, granted)
       /\ slot' = [slot EXCEPT ![r] = Gathers(r, n, granted)]
  /\ got' = [got EXCEPT ![r] = Length[r]]
  /\ file' = [file EXCEPT !.mqtt = <<>>]
  /\ web' = r
  /\ answer' = [answer EXCEPT ![r] = None]
  /\ latest' = [latest EXCEPT !.mqtt = r]
  /\ UNCHANGED <<opened, running, loaderVars, spoilt>>

\* MqttManager loads contents in this step, in another task than t.
LoadMqtt(t, contents) ==
  /\ \E settings \in Loads(contents) : running' = [running EXCEPT !.mqtt = settings]
  /\ overtaken' = overtaken \cup {u \in ApTasks \ {t} : copy[u] # None}

\* Slip: the result of the write to mqtt.json is not looked at.
MqttWritesUnchecked(r) ==
  /\ web = r
  /\ \E k \in 0 .. Length[r] :
       /\ file' = [file EXCEPT !.mqtt = SubSeq(slot[r], 1, k)]
       /\ LoadMqtt(None, SubSeq(slot[r], 1, k))
       /\ answer' = [answer EXCEPT ![r] = "ok"]
  /\ got' = [got EXCEPT ![r] = 0]
  /\ slot' = [slot EXCEPT ![r] = None]
  /\ web' = None
  /\ UNCHANGED <<opened, booted, copy, latest, spoilt>>

\* It writes k bytes of the body: 500 if that is not all of it, else reload and 204.
MqttWrites(r) ==
  /\ web = r
  /\ \E k \in 0 .. Length[r] :
       /\ file' = [file EXCEPT !.mqtt = SubSeq(slot[r], 1, k)]
       /\ answer' = [answer EXCEPT ![r] = IF k = Length[r] THEN "ok" ELSE "failed"]
       /\ IF k = Length[r] THEN LoadMqtt(None, slot[r]) ELSE UNCHANGED <<running, overtaken>>
  /\ got' = [got EXCEPT ![r] = 0]
  /\ slot' = [slot EXCEPT ![r] = None]
  /\ web' = None
  /\ UNCHANGED <<opened, booted, copy, latest, spoilt>>

\* The task handles a request to test the connection: testConnectOnce loads the file first.
TestConnect ==
  /\ web = None
  /\ LoadMqtt(None, file.mqtt)
  /\ UNCHANGED <<requestVars, file, web, booted, copy, latest, spoilt>>

\* An apOff task comes to reconfigureFromFile and reads the file as it is,
ApReads(t) ==
  /\ copy[t] = None
  /\ copy' = [copy EXCEPT ![t] = file.mqtt]
  /\ UNCHANGED <<requestVars, file, web, running, booted, overtaken, latest, spoilt>>

\* and sets MqttManager to what it read.
ApLoads(t) ==
  /\ copy[t] # None
  /\ \E settings \in {Load(copy[t])} \cup {None : u \in overtaken \cap {t}} :
       running' = [running EXCEPT !.mqtt = settings]
  /\ copy' = [copy EXCEPT ![t] = None]
  /\ overtaken' = {u \in ApTasks \ {t} : copy[u] # None}
  /\ UNCHANGED <<requestVars, file, web, booted, latest, spoilt>>
-------------------------------------------------------------------------------
\* Slip: the framework does not free the buffer of a request whose client went away.
AbortLeaks(r) ==
  /\ web = None /\ got[r] > 0
  /\ got' = [got EXCEPT ![r] = 0]
  /\ UNCHANGED <<opened, slot, answer, file, web, running, loaderVars, latest, spoilt>>

\* The client goes away in the middle of its body: the framework closes the file and frees
\* the buffer. What is in the file stays.
Abort(r) ==
  /\ web = None /\ got[r] > 0
  /\ got' = [got EXCEPT ![r] = 0]
  /\ opened' = [opened EXCEPT ![r] = FALSE]
  /\ slot' = [slot EXCEPT ![r] = None]
  /\ UNCHANGED <<answer, file, web, running, loaderVars, latest, spoilt>>

\* loopTask: setup() gets to ModbusManager::begin, which reads the file as it is, also in
\* the middle of an upload: the web server runs already.
Boot ==
  /\ ~booted
  /\ booted' = TRUE
  /\ \E devices \in LoadsModbus(file.modbus) : running' = [running EXCEPT !.modbus = devices]
  /\ UNCHANGED <<requestVars, file, web, copy, overtaken, latest, spoilt>>

\* Requests are lost; setup() has read mqtt.json before the web server runs again.
Restart ==
  /\ got' = [r \in Requests |-> 0]
  /\ opened' = [r \in Requests |-> FALSE]
  /\ slot' = [r \in Requests |-> None]
  /\ web' = None
  /\ running' = [modbus |-> None, mqtt |-> Load(file.mqtt)]
  /\ booted' = FALSE
  /\ copy' = [t \in ApTasks |-> None]
  /\ overtaken' = {}
  /\ UNCHANGED <<answer, file, latest, spoilt>>

ModbusChunk(r, n) == ModbusOpenFails(r, n) \/ ModbusOpens(r, n) \/ ModbusWrites(r, n) \/ ModbusDrains(r, n)
MqttChunk(r, n) == Gather(r, n) \/ MqttOpenFails(r, n) \/ MqttOpens(r, n)
SecretChunk(r, n) == Gather(r, n) \/ PostSecret(r, n)

Next ==
  \/ \E r \in ModbusPuts : \E n \in 1 .. Length[r] : ModbusChunk(r, n)
  \/ \E r \in MqttPuts : \E n \in 1 .. Length[r] : MqttChunk(r, n)
  \/ \E r \in SecretPosts : \E n \in 1 .. Length[r] : SecretChunk(r, n)
  \/ \E r \in MqttPuts : MqttWrites(r)
  \/ TestConnect
  \/ \E t \in ApTasks : ApReads(t) \/ ApLoads(t)
  \/ \E r \in Requests : Abort(r)
  \/ Boot
  \/ Restart

Spec == Init /\ [][Next]_vars
-------------------------------------------------------------------------------
Bytes == (Requests \X (Nat \ {0})) \cup {Nul}

\* The buffer of r of which n bytes are filled.
Buffer(r, n) == [i \in 1 .. Length[r] |-> IF i <= n THEN <<r, i>> ELSE Nul]

\* Every variable has its type; only a running request has a file or a buffer, and the task
\* writes an MQTT file only from a whole body.
TypeOK ==
  /\ got \in [Requests -> Nat]
  /\ \A r \in Requests :
       /\ got[r] <= Length[r]
       /\ got[r] = Length[r] <=> web = r
       /\ opened[r] => r \in ModbusPuts
       /\ got[r] = 0 => ~opened[r] /\ slot[r] = None
       /\ slot[r] \in {None, IF r \in ModbusPuts THEN Error ELSE Buffer(r, got[r])}
  /\ opened \in [Requests -> BOOLEAN]
  /\ answer \in [Requests -> {None, "ok", "failed"}]
  /\ file \in [Kinds -> Seq(Bytes)]
  /\ web \in MqttPuts \cup {None}
  /\ web # None => slot[web] = Body(web)
  /\ running \in [modbus : Seq(Bytes) \cup {None}, mqtt : Seq(Bytes) \cup {None}]
  /\ booted \in BOOLEAN
  /\ copy \in [ApTasks -> Seq(Bytes) \cup {None}]
  /\ overtaken \in SUBSET ApTasks
  /\ latest \in [{"modbus", "mqtt"} -> Requests \cup {None}]
  /\ spoilt \in SUBSET ModbusPuts

\* A Modbus configuration whose upload was answered with 204 is in its file, whole, until
\* another upload opens that file, through other requests that are aborted, fail or
\* are marked, and restarts. Not promised for an upload that overlapped with another
\* one, or that failed without memory for the error byte: both are answered with 204.
ModbusUploadIsKept ==
  \A r \in ModbusPuts \ spoilt :
    latest["modbus"] = r /\ answer[r] = "ok" => file["modbus"] = Body(r)

\* Bodies that are gathered first survive whatever other requests, and restarts, do in
\* between: a configuration that was answered with 204 is in mqtt.json, whole, and the
\* password is at all times one that was sent and parsed, whole, or none. (That the
\* password of a request that was answered with 204 is stored is not promised.)
GatheredUploadIsKept ==
  /\ \A r \in MqttPuts : latest["mqtt"] = r /\ answer[r] = "ok" => file["mqtt"] = Body(r)
  /\ file["secret"] \in {Factory} \cup {Body(r) : r \in SecretPosts \ Unparsable}

\* The two configurations as their owners see them: contents that are no whole body are no
\* configuration.
Whole == {Factory} \cup {Body(r) : r \in Requests}
Stored(kind) == IF file[kind] \in Whole THEN file[kind] ELSE None
Bodies(puts) == [r \in puts |-> Body(r)]
Answers(puts) == [r \in puts |-> answer[r]]

\* What a loader has read, as a configuration.
Read == [t \in ApTasks |-> IF copy[t] \in Whole THEN copy[t] ELSE None]

ModbusConfig == INSTANCE StoredConfig WITH
  Uploads <- ModbusPuts, Document <- Bodies(ModbusPuts), Configurations <- Whole,
  Loaders <- {}, AtStartup <- TRUE,
  stored <- Stored("modbus"), loaded <- running["modbus"], answered <- Answers(ModbusPuts),
  spoilt <- spoilt, read <- [t \in {} |-> None], started <- booted

MqttConfig == INSTANCE StoredConfig WITH
  Uploads <- MqttPuts, Document <- Bodies(MqttPuts), Configurations <- Whole,
  Loaders <- ApTasks, AtStartup <- FALSE,
  stored <- Stored("mqtt"), loaded <- running["mqtt"], answered <- Answers(MqttPuts),
  spoilt <- {}, read <- Read, started <- booted

\* Chunk by chunk, with aborts, short writes, restarts and other loaders, each configuration
\* is as if it came in one piece: 204 is sent in the step that completes the file and
\* loads it, and an upload that gets no 204 changes of the file at most that it holds no
\* configuration any more, and nothing that runs until the file is loaded again. Only
\* uploads of the Modbus configuration that overlap, or fail unmarked, do more.
ImplementsStoredConfig == ModbusConfig!Spec /\ MqttConfig!Spec
===============================================================================
