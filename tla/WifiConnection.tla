---------------------------- MODULE WifiConnection -----------------------------
(***************************************************************************)
(* WifiConnectionController and the captive portal: a gateway without      *)
(* working credentials lets a client choose a network over its own access  *)
(* point, tries it, and stores the credentials when it has an address.     *)
(*                                                                         *)
(* Three tasks work on the controller: the AsyncTCP task runs the          *)
(* handlers, the event task onEvent, and loopTask its loop(), though only  *)
(* after NetworkPortal::begin has returned. The driver is external: it     *)
(* joins the network it was given, loses it, and queues an event for each. *)
(***************************************************************************)
EXTENDS Naturals, Sequences

CONSTANTS Networks,         \* each with the one password a client gives for it
          None,
          MaxEvents         \* bound: events in the queue

Links == [to : Networks, save : BOOLEAN, up : BOOLEAN]
Requests == [to : Networks, save : BOOLEAN]

ASSUME WifiAssumption ==
  /\ None \notin Networks \cup Links \cup Requests
  /\ MaxEvents \in Nat \ {0}

VARIABLES
  state,      \* _status.state
  remembered, \* _persistSsid while _persistRequested, else None
  web,        \* the connect() that has not called WiFi.begin yet, or None
  mode,       \* "portal": begin() blocks loopTask; "open": it has returned; "station"
  suspended,  \* _scanSuspended
  scan,       \* of the portal: "none", "due" (about to start), "running"
  link,       \* driver: the network it joins or has joined (up), and whether connect()
              \* was to save its credentials; or None
  events,     \* driver: what onEvent has not handled yet
  stored,     \* the network whose credentials are in flash, or None
  kept        \* history: the last credentials that onEvent wrote are still there

radio == <<link, events>>
flash == <<stored, kept>>
portal == <<mode, suspended, scan>>
vars == <<state, remembered, web, portal, radio, flash>>

Init ==
  /\ state = "idle"
  /\ remembered = None
  /\ web = None
  /\ mode = "portal"
  /\ suspended = FALSE
  /\ scan = "none"
  /\ link = None
  /\ events = <<>>
  /\ stored = None
  /\ kept = TRUE
-------------------------------------------------------------------------------
(* The driver.                                                             *)

Room == Len(events) < MaxEvents

Joining(request) == [to |-> request.to, save |-> request.save, up |-> FALSE]

\* It leaves its network for another, or for none, and says so if it was up.
Leave(next) ==
  /\ Room
  /\ link' = next
  /\ events' \in IF link = None THEN {events}
                 ELSE {Append(events, "down")} \cup (IF link.up THEN {} ELSE {events})

\* The network gives an address.
Joins ==
  /\ Room /\ link # None /\ ~link.up
  /\ link' = [link EXCEPT !.up = TRUE]
  /\ events' = Append(events, "ip")
  /\ UNCHANGED <<state, remembered, web, portal, flash>>

\* The network is not there, does not take the password, or is lost; the driver tries
\* again, or gives up.
Loses ==
  /\ Room /\ link # None
  /\ link' \in {Joining(link), None}
  /\ events' = Append(events, "down")
  /\ UNCHANGED <<state, remembered, web, portal, flash>>
-------------------------------------------------------------------------------
(* onEvent.                                                                *)

\* writePlainCredsToNvs. Its results are ignored, and a write to flash can fail.
Write(network) ==
  \/ stored' = network /\ kept' = TRUE
  \/ stored' = stored /\ kept' = FALSE

\* Slip: only the address of an attempt that has not failed stores its credentials.
GotIpOfAttempt ==
  /\ events # <<>> /\ Head(events) = "ip"
  /\ events' = Tail(events)
  /\ state' = "connected"
  /\ IF remembered # None /\ state = "connecting" THEN Write(remembered) ELSE UNCHANGED flash
  /\ remembered' = None
  /\ UNCHANGED <<web, portal, link>>

\* STA_GOT_IP, from whatever attempt: credentials that wait for it are stored.
GotIp ==
  /\ events # <<>> /\ Head(events) = "ip"
  /\ events' = Tail(events)
  /\ state' = "connected"
  /\ IF remembered # None THEN Write(remembered) ELSE UNCHANGED flash
  /\ remembered' = None
  /\ UNCHANGED <<web, portal, link>>

\* Slip: an event that comes when no attempt is under way is ignored.
LostDuringAttempt ==
  /\ events # <<>> /\ Head(events) = "down"
  /\ events' = Tail(events)
  /\ state' = IF state = "connecting" THEN "failed" ELSE state
  /\ UNCHANGED <<remembered, web, portal, link, flash>>

\* STA_DISCONNECTED: fails the attempt under way, also if it is about the network before.
Lost ==
  /\ events # <<>> /\ Head(events) = "down"
  /\ events' = Tail(events)
  /\ state' = IF state = "connecting" THEN "failed" ELSE "disconnected"
  /\ UNCHANGED <<remembered, web, portal, link, flash>>
-------------------------------------------------------------------------------
(* The handlers.                                                           *)

\* POST /api/wifi/connect: connect() refuses a second attempt (409), otherwise it resets
\* the status,
ConnectBegins(network, save) ==
  /\ web = None /\ mode # "station"
  /\ state # "connecting"
  /\ state' = "connecting"
  /\ web' = [to |-> network, save |-> save]
  /\ UNCHANGED <<remembered, portal, radio, flash>>

\* handleWifiConnect, after connect(): a portal that still runs stops scanning.
Suspend ==
  /\ suspended' = (suspended \/ mode = "portal")
  /\ scan' = IF mode = "portal" /\ scan = "running" THEN "none" ELSE scan
  /\ UNCHANGED mode

\* WiFi.begin after WiFi.persistent(TRUE): the driver may write what it is given to flash
\* at once, long before the network has given an address.
MayPersist(request) ==
  stored' \in {stored} \cup (IF request.save THEN {request.to} ELSE {})

\* and finds that the static configuration cannot be parsed, or that the driver refuses:
\* the wish to store the credentials of an earlier attempt stays.
ConnectFails ==
  /\ web # None
  /\ \/ UNCHANGED <<radio, stored>>
     \/ Leave(None) /\ MayPersist(web)
  /\ state' = "failed"
  /\ web' = None
  /\ Suspend
  /\ UNCHANGED <<remembered, kept>>

\* or gives the driver its new network. Joining takes the driver longer than connect()
\* takes to note the credentials.
ConnectStarts ==
  /\ web # None
  /\ Leave(Joining(web)) /\ MayPersist(web)
  /\ remembered' = IF web.save THEN web.to ELSE None
  /\ web' = None
  /\ Suspend
  /\ UNCHANGED <<state, kept>>

\* Slip: scanning goes on with any request for the status.
StatusAlwaysResumes ==
  /\ web = None /\ mode = "portal"
  /\ suspended' = FALSE
  /\ UNCHANGED <<state, remembered, web, mode, scan, radio, flash>>

\* GET /api/wifi/status: scanning goes on once a client has seen how the attempt ended.
Status ==
  /\ web = None /\ mode = "portal"
  /\ state \in {"connected", "failed", "disconnected"}
  /\ suspended' = FALSE
  /\ UNCHANGED <<state, remembered, web, mode, scan, radio, flash>>

\* POST /api/wifi/cancel.
Cancel ==
  /\ web = None
  /\ state = "connecting"
  /\ Leave(None)
  /\ state' = "failed"
  /\ UNCHANGED <<remembered, web, portal, flash>>

\* POST /api/wifi/ap_off: the portal's loop ends, setup() goes on.
ApOff ==
  /\ web = None /\ mode = "portal"
  /\ mode' = "open"
  /\ UNCHANGED <<state, remembered, web, suspended, scan, radio, flash>>

\* The task of handleNetworkReset erases what is stored, several times, and leaves the
\* network; it restarts the gateway a little later.
NetworkReset ==
  /\ UNCHANGED radio \/ Leave(None)
  /\ stored' = None
  /\ kept' = FALSE
  /\ UNCHANGED <<state, remembered, web, portal>>
-------------------------------------------------------------------------------
(* loopTask.                                                               *)

\* Slip: loop() is called only when the gateway started as a station.
TimeOutOfStation ==
  /\ mode = "station" /\ web = None
  /\ state = "connecting"
  /\ Leave(None)
  /\ state' = "failed"
  /\ UNCHANGED <<remembered, web, portal, flash>>

\* WifiConnectionController::loop, after the deadline. connect() itself is much faster.
TimeOut ==
  /\ mode = "open" /\ web = None
  /\ state = "connecting"
  /\ Leave(None)
  /\ state' = "failed"
  /\ UNCHANGED <<remembered, web, portal, flash>>

\* NetworkPortal::begin looks whether to scan,
DecideToScan ==
  /\ mode = "portal" /\ ~suspended
  /\ scan = "none"
  /\ scan' = "due"
  /\ UNCHANGED <<state, remembered, web, mode, suspended, radio, flash>>

\* starts the scan, although a client may have begun an attempt in between,
StartScan ==
  /\ mode = "portal"
  /\ scan = "due"
  /\ scan' = "running"
  /\ UNCHANGED <<state, remembered, web, mode, suspended, radio, flash>>

\* and publishes what it found, or drops a scan that failed.
CollectScan ==
  /\ mode = "portal" /\ ~suspended
  /\ scan = "running"
  /\ scan' = "none"
  /\ UNCHANGED <<state, remembered, web, mode, suspended, radio, flash>>

\* A restart tries the stored credentials first and opens the portal if they fail.
Restart ==
  /\ mode' \in {"portal"} \cup (IF stored = None THEN {} ELSE {"station"})
  /\ state' = "idle"
  /\ remembered' = None
  /\ web' = None
  /\ suspended' = FALSE
  /\ scan' = "none"
  /\ link' = None
  /\ events' = <<>>
  /\ UNCHANGED flash

Event == GotIp \/ Lost
Connect == ConnectFails \/ ConnectStarts
Scan == DecideToScan \/ StartScan \/ CollectScan

Next ==
  \/ Joins \/ Loses
  \/ Event
  \/ \E network \in Networks, save \in BOOLEAN : ConnectBegins(network, save)
  \/ Connect
  \/ Status \/ Cancel \/ ApOff \/ NetworkReset
  \/ TimeOut \/ Scan
  \/ Restart

Spec == Init /\ [][Next]_vars

\* The tasks run, and deadlines pass.
FairSpec == Spec /\ WF_vars(Event) /\ WF_vars(Connect) /\ WF_vars(TimeOut)
-------------------------------------------------------------------------------
\* Types. While an attempt is under way the portal does not look for networks: a scan
\* takes the radio away from the channel of the network being joined.
TypeOK ==
  /\ state \in {"idle", "connecting", "connected", "failed", "disconnected"}
  /\ remembered \in Networks \cup {None}
  /\ web \in Requests \cup {None}
  /\ mode \in {"portal", "open", "station"}
  /\ suspended \in BOOLEAN
  /\ scan \in {"none", "due", "running"}
  /\ link \in Links \cup {None}
  /\ events \in Seq({"ip", "down"})
  /\ stored \in Networks \cup {None}
  /\ kept \in BOOLEAN
  /\ mode = "portal" /\ state = "connecting" /\ web = None => suspended

\* Once its events are handled, a status "connected" of an attempt that was to save tells
\* of credentials that a restart will find (unless the write failed or they were erased):
\* through late events, failed, cancelled and superseded attempts, none is forgotten and
\* none is stored over it.
ConnectedIsSaved ==
  events = <<>> /\ state = "connected" /\ link # None /\ link.save /\ kept => stored = link.to

\* Once its events are handled, a status "connected" tells of a link that is there.
ConnectedHasAddress == events = <<>> /\ state = "connected" => link # None /\ link.up

\* Outside the portal an attempt ends by itself. In the portal it need not: loop() does
\* not run there, and an attempt of which the driver never speaks again refuses all others.
AttemptEnds == mode = "open" /\ state = "connecting" ~> state # "connecting"
===============================================================================
