------------------------------- MODULE HttpOta --------------------------------
(***************************************************************************)
(* Updates of the gateway: HttpOtaService, the upload handlers with        *)
(* OtaService, and the HTTP handlers that start them.                      *)
(*                                                                         *)
(*   "loop"   loopTask: HttpOtaService::loop, one check for a newer        *)
(*            release and one fetch of release notes per pass              *)
(*   "web"    the AsyncTCP task: asks for a check or for notes, changes    *)
(*            the channel, starts an update, receives uploads              *)
(*   "apply"  the otaHttpApply task: applyPendingUpdate                    *)
(*                                                                         *)
(* They share what HttpOtaService keeps of the pending update, and the     *)
(* Update object, without a lock.  A release is named by its firmware      *)
(* image; the image, its URL and its hash stand for each other.  The       *)
(* server offers one release at a time, any one, and what it serves has a  *)
(* valid signature.  A definition marked "Slip" is a plausible mistake in  *)
(* the one after it.                                                       *)
(***************************************************************************)
EXTENDS Naturals, Flash

CONSTANTS Version,      \* major.minor.patch of a firmware, as one number
          Prereleases,  \* the releases that only the prerelease channel has
          UIOf,         \* the file system image of a release
          Clients,      \* clients that upload images
          Uploads       \* what they upload: a component and an image of it

ASSUME OtaAssumption ==
  /\ None \notin Firmware \cup UIs /\ Broken \notin Firmware \cup UIs \cup {None}
  /\ Version \in [Firmware -> Nat]
  /\ Prereleases \subseteq Firmware
  /\ UIOf \in [Firmware -> UIs]
  /\ None \notin Clients \cup {"app", "fs", "apply"} /\ "apply" \notin Clients
  /\ Uploads \subseteq [kind : {"app"}, image : Firmware] \cup [kind : {"fs"}, image : UIs]

VARIABLES
  include,         \* s_includePrereleases
  preRel,          \* the preference that begin() takes it from
  appliedApp,      \* s_appliedAppSha, also a preference
  appliedFs,       \* s_appliedFsSha, also a preference
  force,           \* s_forceCheck
  checkRequested,  \* s_checkRequested
  checking,        \* s_checkInProgress
  pending,         \* the s_pending... of one release, or None (s_updateAvailable)
  parts,           \* the components with s_pendingUpdateApp, s_pendingUpdateFs
  last,            \* result of the last check: ok, and the release it offers
  notes,           \* the release whose notes s_pendingNotesText has
  notesReady,      \* s_notesReady
  notesRequested,  \* s_notesRequested
  applying,        \* g_otaHttpApplying
  pc,              \* where each task is
  found,           \* release that a check or a fetch of notes of loopTask is about
  part,            \* component the apply task has got to
  source,          \* release the apply task downloads from
  upload,          \* per client: what it uploads
  confirmed,       \* history: pending when the update started
  disturbed,       \* history: others changed what it works on since
  watched,         \* history: one request for a check and what became of it
  stale            \* history: the web task copied the result before that

storedVars == <<include, preRel, appliedApp, appliedFs>>
checkVars == <<force, checkRequested, checking, last, watched, stale>>
pendingVars == <<pending, parts>>
notesVars == <<notes, notesReady, notesRequested>>
applyVars == <<applying, part, source, confirmed, disturbed>>
vars == <<storedVars, checkVars, pendingVars, notesVars, applyVars, upload, pc, found, flashVars>>

Components == {"app", "fs"}
NoResult == [ok |-> FALSE, offer |-> None]
NoUpload == [kind |-> None, image |-> None]

\* The image of a component of a release.
Image(release, component) == IF component = "app" THEN release ELSE UIOf[release]

\* compareVersions, which ignores what follows a "-".
Newer(release) == Version[release] > Version[fw]

\* The apply task runs; it gives up g_otaHttpApplying before it restarts the gateway.
Updating == pc.apply \notin {"idle", "reboot"}

TypeOK ==
  /\ FlashTypeOK(Clients \cup {"apply"})
  /\ include \in BOOLEAN /\ preRel \in BOOLEAN
  /\ appliedApp \in Firmware \cup {None} /\ appliedFs \in UIs \cup {None}
  /\ force \in BOOLEAN /\ checkRequested \in BOOLEAN /\ checking \in BOOLEAN
  /\ pending \in Firmware \cup {None}
  /\ parts \subseteq Components /\ (parts = {} <=> pending = None)
  /\ last \in [ok : BOOLEAN, offer : Firmware \cup {None}]
  /\ notes \in Firmware \cup {None} /\ notesReady \in BOOLEAN /\ notesRequested \in BOOLEAN
  /\ applying \in BOOLEAN /\ (Updating => applying)
  /\ pc \in [loop : {"setup", "idle", "begin", "process", "report", "notes", "fetch", "keep"},
             web : {"idle", "status", "answer", "invalidate"},
             apply : {"idle", "start", "part", "connect", "download", "received", "store",
                      "complete", "reboot"}]
  /\ found \in Firmware \cup {None}
  /\ part \in Components
  /\ source \in Firmware \cup {None} /\ confirmed \in Firmware \cup {None}
  /\ upload \in [Clients -> Uploads \cup {NoUpload}]
  /\ disturbed \in BOOLEAN
  /\ watched \in {"none", "asked", "started"} /\ stale \in BOOLEAN

\* The web server answers before HttpOtaService::begin is called: loopTask is in setup(),
\* and stays in NetworkPortal::begin as long as the captive portal is open.
RamInit ==
  /\ include = FALSE
  /\ force = FALSE /\ checkRequested = FALSE /\ checking = FALSE
  /\ pending = None /\ parts = {}
  /\ last = NoResult
  /\ notes = None /\ notesReady = FALSE /\ notesRequested = FALSE
  /\ applying = FALSE
  /\ pc = [loop |-> "setup", web |-> "idle", apply |-> "idle"]
  /\ found = None /\ part = "app" /\ source = None /\ confirmed = None /\ disturbed = FALSE
  /\ upload = [c \in Clients |-> NoUpload]
  /\ watched = "none" /\ stale = FALSE

\* A gateway that was flashed by wire, with a release, and never updated.
Init ==
  /\ fw \in Firmware /\ boot = fw /\ ui = UIOf[fw] /\ update = Stopped
  /\ preRel = FALSE /\ appliedApp = None /\ appliedFs = None
  /\ RamInit

Goto(t, location) == pc' = [pc EXCEPT ![t] = location]

\* The apply task does its work on what is pending and on the flash.
Working == pc.apply \in {"part", "connect", "download", "received", "store"}

\* What others do to the pending update or to the Update object meets it.
Disturb ==
  /\ disturbed' = IF Working THEN TRUE ELSE disturbed
  /\ UNCHANGED <<applying, part, source, confirmed>>

-------------------------------------------------------------------------------
(***************************************************************************)
(* What the service keeps of the pending update.                           *)
(***************************************************************************)
ClearPending ==
  /\ pending' = None /\ parts' = {}
  /\ notes' = None /\ notesReady' = FALSE /\ notesRequested' = FALSE

\* Slip: the notes of the release that was pending before are kept.
OfferKeepsNotes(release) ==
  /\ pending' = release
  /\ parts' = Components
  /\ UNCHANGED notesVars

\* Slip: an update without changed components is offered as it is.
OfferUnforced(release) ==
  /\ pending' = release
  /\ parts' = {c \in Components : Image(release, c) # IF c = "app" THEN appliedApp ELSE appliedFs}
  /\ notes' = None /\ notesReady' = FALSE
  /\ UNCHANGED notesRequested

\* The tail of processManifestAndMaybeUpdate: a component whose hash was applied is left
\* out, and both are forced if that leaves none.
Offer(release) ==
  LET changed == {c \in Components : Image(release, c) # IF c = "app" THEN appliedApp ELSE appliedFs}
  IN /\ pending' = release
     /\ parts' = IF changed = {} THEN Components ELSE changed
     /\ notes' = None /\ notesReady' = FALSE
     /\ UNCHANGED notesRequested

-------------------------------------------------------------------------------
(***************************************************************************)
(* HttpOtaService::loop.                                                   *)
(***************************************************************************)
\* setup() gets to HttpOtaService::begin: the portal is closed, or was not needed.  A
\* change of the channel on its way may have reached the variable only.
BeginService ==
  /\ pc.loop = "setup"
  /\ force' = TRUE
  /\ include' \in {preRel} \cup (IF pc.web = "invalidate" THEN {~preRel} ELSE {})
  /\ Goto("loop", "idle")
  /\ UNCHANGED <<preRel, appliedApp, appliedFs, checkRequested, checking, last, watched, stale, pendingVars,
                 notesVars, applyVars, upload, found, flashVars>>

\* No check is due.
PassCheck ==
  /\ pc.loop = "idle"
  /\ ~force /\ ~checkRequested
  /\ Goto("loop", "notes")
  /\ UNCHANGED <<storedVars, checkVars, pendingVars, notesVars, applyVars, upload, found, flashVars>>

\* Slip: without Wi-Fi the request waits.
CheckOfflineLater ==
  /\ pc.loop = "idle"
  /\ Goto("loop", "notes")
  /\ UNCHANGED <<storedVars, checkVars, pendingVars, notesVars, applyVars, upload, found, flashVars>>

\* A check without Wi-Fi answers the request, if there is one.
CheckOffline ==
  /\ pc.loop = "idle"
  /\ checkRequested' = FALSE
  /\ last' = IF checkRequested THEN NoResult ELSE last
  /\ watched' = IF checkRequested THEN "none" ELSE watched
  /\ Goto("loop", "notes")
  /\ UNCHANGED <<storedVars, force, checking, stale, pendingVars, notesVars, applyVars, upload, found, flashVars>>

\* The check is on; whether the interval is over is left open.
StartCheck ==
  /\ pc.loop = "idle"
  /\ force' = FALSE /\ checkRequested' = FALSE
  /\ Goto("loop", "begin")
  /\ UNCHANGED <<storedVars, checking, last, watched, stale, pendingVars, notesVars, applyVars, upload, found, flashVars>>

\* Slip: s_checkInProgress is not set.
FetchUnmarked ==
  /\ pc.loop = "begin"
  /\ force' = FALSE
  /\ found' \in {None} \cup {r \in Firmware : r \in Prereleases => include}
  /\ watched' = IF watched = "asked" THEN "started" ELSE watched
  /\ Goto("loop", "process")
  /\ UNCHANGED <<storedVars, checkRequested, checking, last, stale, pendingVars, notesVars, applyVars, upload, flashVars>>

\* s_checkInProgress, then checkForUpdate, which clears s_forceCheck once more and
\* fetches a manifest of the channel it finds.  None: it is not there or refused.
FetchManifest ==
  /\ pc.loop = "begin"
  /\ checking' = TRUE
  /\ force' = FALSE
  /\ found' \in {None} \cup {r \in Firmware : r \in Prereleases => include}
  /\ watched' = IF watched = "asked" THEN "started" ELSE watched
  /\ Goto("loop", "process")
  /\ UNCHANGED <<storedVars, checkRequested, last, stale, pendingVars, notesVars, applyVars, upload, flashVars>>

\* processManifestAndMaybeUpdate, and what checkForUpdate returns.
ProcessManifest ==
  /\ pc.loop = "process"
  /\ \/ found = None /\ UNCHANGED <<pendingVars, notesVars, applyVars>>
     \/ found # None /\ Newer(found) /\ Offer(found) /\ Disturb
     \/ found # None /\ ~Newer(found) /\ ClearPending /\ Disturb
  /\ Goto("loop", "report")
  /\ UNCHANGED <<storedVars, checkVars, upload, found, flashVars>>

\* Slip: a failed check leaves the last result in place.
ReportSuccess ==
  /\ pc.loop = "report"
  /\ last' = IF found = None THEN last
             ELSE [ok |-> TRUE, offer |-> IF Newer(found) THEN found ELSE None]
  /\ checking' = FALSE
  /\ watched' = IF watched = "started" THEN "none" ELSE watched
  /\ found' = None
  /\ Goto("loop", "notes")
  /\ UNCHANGED <<storedVars, force, checkRequested, stale, pendingVars, notesVars, applyVars, upload, flashVars>>

\* The result is stored for handleOtaHttpCheck.
Report ==
  /\ pc.loop = "report"
  /\ last' = IF found = None THEN NoResult
             ELSE [ok |-> TRUE, offer |-> IF Newer(found) THEN found ELSE None]
  /\ checking' = FALSE
  /\ watched' = IF watched = "started" THEN "none" ELSE watched
  /\ found' = None
  /\ Goto("loop", "notes")
  /\ UNCHANGED <<storedVars, force, checkRequested, stale, pendingVars, notesVars, applyVars, upload, flashVars>>

\* No notes are wanted, or they cannot be fetched.
PassNotes ==
  /\ pc.loop = "notes"
  /\ notesRequested' = FALSE
  /\ Goto("loop", "idle")
  /\ UNCHANGED <<storedVars, checkVars, pendingVars, notes, notesReady, applyVars, upload, found, flashVars>>

FetchNotes ==
  /\ pc.loop = "notes"
  /\ notesRequested /\ pending # None
  /\ found' = pending
  /\ Goto("loop", "fetch")
  /\ UNCHANGED <<storedVars, checkVars, pendingVars, notesVars, applyVars, upload, flashVars>>

\* The hash of the notes is compared with the one of the release pending now.
VerifyNotes ==
  /\ pc.loop = "fetch"
  /\ \/ pending = found /\ Goto("loop", "keep") /\ UNCHANGED <<notesVars, found>>
     \/ /\ notes' = None /\ notesReady' = FALSE /\ notesRequested' = FALSE
        /\ found' = None /\ Goto("loop", "idle")
  /\ UNCHANGED <<storedVars, checkVars, pendingVars, applyVars, upload, flashVars>>

\* They are stored, even if the update was dropped in the meantime.
KeepNotes ==
  /\ pc.loop = "keep"
  /\ notes' = found /\ notesReady' = TRUE /\ notesRequested' = FALSE
  /\ found' = None
  /\ Goto("loop", "idle")
  /\ UNCHANGED <<storedVars, checkVars, pendingVars, applyVars, upload, flashVars>>

-------------------------------------------------------------------------------
(***************************************************************************)
(* Requests of the web task.                                               *)
(***************************************************************************)
\* POST .../http/check with refresh.  One request is watched.
CheckNow ==
  /\ pc.web = "idle"
  /\ force' = TRUE /\ checkRequested' = TRUE
  /\ watched' \in IF watched = "none" THEN {"none", "asked"} ELSE {watched}
  /\ Goto("web", "status")
  /\ UNCHANGED <<storedVars, checking, last, stale, pendingVars, notesVars, applyVars, upload, found, flashVars>>

\* The same without refresh.
PollStatus ==
  /\ pc.web = "idle"
  /\ Goto("web", "status")
  /\ UNCHANGED <<storedVars, checkVars, pendingVars, notesVars, applyVars, upload, found, flashVars>>

\* getLastCheckStatus copies the result ...
ReadResult ==
  /\ pc.web = "status"
  /\ stale' = (watched # "none")
  /\ Goto("web", "answer")
  /\ UNCHANGED <<storedVars, force, checkRequested, checking, last, watched, pendingVars, notesVars, applyVars,
                 upload, found, flashVars>>

\* ... and isCheckPending tells whether it is the one the client waits for.
Answer ==
  /\ pc.web = "answer"
  /\ stale' = FALSE
  /\ Goto("web", "idle")
  /\ UNCHANGED <<storedVars, force, checkRequested, checking, last, watched, pendingVars, notesVars, applyVars,
                 upload, found, flashVars>>

\* POST .../http/notes with refresh.
RequestNotes ==
  /\ pc.web = "idle"
  /\ pending # None /\ ~notesReady
  /\ notesRequested' = TRUE
  /\ UNCHANGED <<storedVars, checkVars, pendingVars, notes, notesReady, applyVars, upload, pc, found, flashVars>>

\* setIncludePrereleases up to the preference, which takes a while to write: a restart that
\* comes before is one that comes before the request ...
SetIncludePrereleases ==
  /\ pc.web = "idle"
  /\ include' = ~include /\ preRel' = ~include
  /\ Goto("web", "invalidate")
  /\ UNCHANGED <<appliedApp, appliedFs, checkVars, pendingVars, notesVars, applyVars, upload, found, flashVars>>

\* Slip: no check is forced.
InvalidateOnly ==
  /\ pc.web = "invalidate"
  /\ last' = NoResult
  /\ ClearPending /\ Disturb
  /\ Goto("web", "idle")
  /\ UNCHANGED <<storedVars, force, checkRequested, checking, watched, stale, upload, found, flashVars>>

\* ... and the rest of it.
Invalidate ==
  /\ pc.web = "invalidate"
  /\ last' = NoResult
  /\ ClearPending /\ Disturb
  /\ force' = TRUE
  /\ Goto("web", "idle")
  /\ UNCHANGED <<storedVars, checkRequested, checking, watched, stale, upload, found, flashVars>>

\* POST .../http/apply starts the apply task, if there is none.  Whether the task could be
\* created is not looked at: if not, the flag stays.
Apply ==
  /\ pc.web = "idle"
  /\ pending # None
  /\ ~applying
  /\ applying' = TRUE
  /\ Goto("apply", "start") \/ UNCHANGED pc
  /\ UNCHANGED <<storedVars, checkVars, pendingVars, notesVars, part, source, confirmed, disturbed, upload,
                 found, flashVars>>

-------------------------------------------------------------------------------
(***************************************************************************)
(* applyPendingUpdate in the task otaHttpApply.                            *)
(***************************************************************************)
\* Slip: g_otaHttpApplying is not reset.
FailKeepsFlag ==
  /\ UNCHANGED applying /\ Goto("apply", "idle")
  /\ part' = "app" /\ source' = None /\ confirmed' = None /\ disturbed' = FALSE

\* The task ends; the pending update stays.
Fail ==
  /\ applying' = FALSE /\ Goto("apply", "idle")
  /\ part' = "app" /\ source' = None /\ confirmed' = None /\ disturbed' = FALSE

\* The pending update is gone, or Wi-Fi is.
ApplyRefused ==
  /\ pc.apply = "start"
  /\ Fail
  /\ UNCHANGED <<storedVars, checkVars, pendingVars, notesVars, upload, found, flashVars>>

\* Slip: the file system comes first, and then nothing.
StartWithFs ==
  /\ pc.apply = "start"
  /\ pending # None
  /\ part' = "fs" /\ confirmed' = pending /\ disturbed' = FALSE
  /\ Goto("apply", "part")
  /\ UNCHANGED <<storedVars, checkVars, pendingVars, notesVars, applying, source, upload, found, flashVars>>

StartApply ==
  /\ pc.apply = "start"
  /\ pending # None
  /\ part' = "app" /\ confirmed' = pending /\ disturbed' = FALSE
  /\ Goto("apply", "part")
  /\ UNCHANGED <<storedVars, checkVars, pendingVars, notesVars, applying, source, upload, found, flashVars>>

\* After the firmware comes the file system, and after that the update is complete.
Advance ==
  IF part = "app"
  THEN part' = "fs" /\ Goto("apply", "part") /\ UNCHANGED <<pendingVars, notesVars>>
  ELSE ClearPending /\ Goto("apply", "complete") /\ UNCHANGED part

\* "Firmware up to date, skipping", "Filesystem up to date, skipping".
SkipPart ==
  /\ pc.apply = "part"
  /\ part \notin parts
  /\ Advance
  /\ UNCHANGED <<storedVars, checkVars, applying, source, confirmed, disturbed, upload, found, flashVars>>

\* The component is on the list ...
TakePart ==
  /\ pc.apply = "part"
  /\ part \in parts
  /\ Goto("apply", "connect")
  /\ UNCHANGED <<storedVars, checkVars, pendingVars, notesVars, applyVars, upload, found, flashVars>>

\* ... and downloadVerifyAndFlash takes the URL that is pending now, and begins the update.
BeginDownload ==
  /\ pc.apply = "connect"
  /\ pending # None
  /\ BeginUpdate(part, "apply")
  /\ source' = pending
  /\ Goto("apply", "download")
  /\ UNCHANGED <<storedVars, checkVars, pendingVars, notesVars, applying, part, confirmed, disturbed, upload, found>>

\* Slip: what downloadVerifyAndFlash returns is not looked at.
RefusedGoesOn ==
  /\ pc.apply = "connect"
  /\ Goto("apply", "store")
  /\ UNCHANGED <<storedVars, checkVars, pendingVars, notesVars, applying, part, source, confirmed, disturbed, upload, found, flashVars>>

\* No URL, no connection, no such file, no partition, or an update is running.
DownloadRefused ==
  /\ pc.apply = "connect"
  /\ Fail
  /\ UNCHANGED <<storedVars, checkVars, pendingVars, notesVars, upload, found, flashVars>>

Receive ==
  /\ pc.apply \in {"download", "received"}
  /\ Write("apply", Image(source, part))
  /\ Goto("apply", "received")
  /\ UNCHANGED <<storedVars, checkVars, pendingVars, notesVars, applyVars, upload, found>>

\* Slip: the update is left running when the download stalls.
StallWithoutAbort ==
  /\ pc.apply \in {"download", "received"}
  /\ Fail
  /\ UNCHANGED <<storedVars, checkVars, pendingVars, notesVars, upload, found, flashVars>>

\* The stream stalls or ends early, the data is not what was signed, or a write fails.
AbortDownload ==
  /\ pc.apply \in {"download", "received"}
  /\ Abort
  /\ Fail
  /\ UNCHANGED <<storedVars, checkVars, pendingVars, notesVars, upload, found>>

\* All has arrived and its hash is the one pending now: Update.end.
FinishDownload ==
  /\ pc.apply = "received"
  /\ pending # None /\ Image(source, part) = Image(pending, part)
  /\ EndUpdate
  /\ IF EndAccepts THEN Goto("apply", "store") /\ UNCHANGED applyVars ELSE Fail
  /\ UNCHANGED <<storedVars, checkVars, pendingVars, notesVars, upload, found>>

\* Slip: the hash is not stored.
StoreForgotten ==
  /\ pc.apply = "store"
  /\ Advance
  /\ UNCHANGED <<storedVars, checkVars, applying, source, confirmed, disturbed, upload, found, flashVars>>

\* storeAppliedAppHash, storeAppliedFsHash: the hash pending now, if there is one.
StoreApplied ==
  /\ pc.apply = "store"
  /\ appliedApp' = IF part = "app" /\ pending # None THEN pending ELSE appliedApp
  /\ appliedFs' = IF part = "fs" /\ pending # None THEN UIOf[pending] ELSE appliedFs
  /\ Advance
  /\ UNCHANGED <<include, preRel, checkVars, applying, source, confirmed, disturbed, upload, found, flashVars>>

\* The task reports, gives up the flag, and restarts the gateway after a delay.
Complete ==
  /\ pc.apply = "complete"
  /\ applying' = FALSE
  /\ Goto("apply", "reboot")
  /\ UNCHANGED <<storedVars, checkVars, pendingVars, notesVars, part, source, confirmed, disturbed, upload, found, flashVars>>

-------------------------------------------------------------------------------
(***************************************************************************)
(* Uploads through OtaService, in the web task.                            *)
(***************************************************************************)
\* The first part of an upload.  If the update cannot begin, the client is told so, but
\* the parts that follow are still handled.
UploadFirst(c, u) ==
  /\ pc.web = "idle"
  /\ upload[c] = NoUpload
  /\ upload' = [upload EXCEPT ![c] = u]
  /\ \/ BeginUpdate(u.kind, c)
     \/ Running /\ UNCHANGED flashVars
  /\ UNCHANGED <<storedVars, checkVars, pendingVars, notesVars, applyVars, pc, found>>

UploadPart(c) ==
  /\ pc.web = "idle"
  /\ upload[c] # NoUpload
  /\ Write(c, upload[c].image)
  /\ Disturb
  /\ UNCHANGED <<storedVars, checkVars, pendingVars, notesVars, upload, pc, found>>

\* OtaService::end(true) after the last part; Restart follows if it went well.
UploadEnd(c) ==
  /\ pc.web = "idle"
  /\ upload[c] # NoUpload
  /\ EndUpdate
  /\ Disturb
  /\ upload' = [upload EXCEPT ![c] = NoUpload]
  /\ UNCHANGED <<storedVars, checkVars, pendingVars, notesVars, pc, found>>

\* The client is gone; nothing is told to the Update object.
UploadLost(c) ==
  /\ upload[c] # NoUpload
  /\ upload' = [upload EXCEPT ![c] = NoUpload]
  /\ update' = IF update.by = c THEN [update EXCEPT !.by = None] ELSE update
  /\ UNCHANGED <<fw, boot, ui, storedVars, checkVars, pendingVars, notesVars, applyVars, pc, found>>

-------------------------------------------------------------------------------
\* A power failure, or the restart after an update: only flash and preferences last.  The
\* preference may not have been written yet.
Restart ==
  /\ preRel' \in {preRel} \cup (IF pc.web = "invalidate" THEN {~preRel} ELSE {})
  /\ UNCHANGED <<appliedApp, appliedFs>>
  /\ include' = FALSE
  /\ force' = FALSE /\ checkRequested' = FALSE /\ checking' = FALSE
  /\ last' = NoResult /\ watched' = "none" /\ stale' = FALSE
  /\ pending' = None /\ parts' = {}
  /\ notes' = None /\ notesReady' = FALSE /\ notesRequested' = FALSE
  /\ applying' = FALSE /\ part' = "app" /\ source' = None /\ confirmed' = None /\ disturbed' = FALSE
  /\ upload' = [c \in Clients |-> NoUpload]
  /\ pc' = [loop |-> "setup", web |-> "idle", apply |-> "idle"] /\ found' = None
  /\ BootFlash

CheckStep == PassCheck \/ CheckOffline \/ StartCheck \/ FetchManifest \/ ProcessManifest \/ Report
NotesStep == PassNotes \/ FetchNotes \/ VerifyNotes \/ KeepNotes
LoopStep == CheckStep \/ NotesStep

ApplyStep ==
  \/ ApplyRefused \/ StartApply \/ SkipPart \/ TakePart \/ BeginDownload \/ DownloadRefused
  \/ Receive \/ AbortDownload \/ FinishDownload \/ StoreApplied \/ Complete

Request == CheckNow \/ PollStatus \/ RequestNotes \/ SetIncludePrereleases \/ Apply

WebStep == Request \/ ReadResult \/ Answer \/ Invalidate

UploadStep(c) == (\E u \in Uploads : UploadFirst(c, u)) \/ UploadPart(c) \/ UploadEnd(c) \/ UploadLost(c)

Next ==
  \/ BeginService \/ LoopStep \/ ApplyStep \/ WebStep
  \/ \E c \in Clients : UploadStep(c)
  \/ Restart

Spec == Init /\ [][Next]_vars

\* The scheduler runs both tasks, and their downloads time out.  Nothing says that setup()
\* ends: the captive portal stays open until somebody closes it.
FairSpec == Spec /\ WF_vars(LoopStep) /\ WF_vars(ApplyStep)
-------------------------------------------------------------------------------
(***************************************************************************)
(* Properties.                                                             *)
(***************************************************************************)
Checking == pc.loop \in {"begin", "process", "report"}

\* The notes shown with a pending update are those of that release, also when the update
\* was dropped, and another offered, around their download.
NotesAreOfPending == notesReady /\ pending # None => notes = pending

\* An answer that carries the result of an earlier check than the one asked for says
\* "pending", so that no client takes it for its own, but for two windows: the check was
\* answered between the handler's two reads (MBXServerHandlers.cpp:982-983), and loop() has
\* taken the request and not yet set s_checkInProgress (HttpOtaService.cpp:169-170).
StatusIsFresh ==
  pc.web = "answer" /\ stale =>
    checkRequested \/ checking \/ watched = "none" \/ pc.loop = "begin"

\* An update the status offers is the one that can be applied, or another check is due.
OfferStands ==
  last.offer # None =>
    pending = last.offer \/ force \/ Checking \/ pc.apply \in {"complete", "reboot"}

\* "Invalidate any cached check result" (HttpOtaService.cpp:121): once prereleases are
\* switched off none is pending, unless a check is due or the last one failed.  A check
\* that was under way can bring one back.
ChannelIsFollowed ==
  pending \in Prereleases /\ ~include => force \/ Checking \/ ~last.ok \/ pc.web = "invalidate"

\* Every way out of downloadVerifyAndFlash ends or aborts the update it began: one left
\* running would make all further updates fail.
ApplyLeavesNothingRunning == update.by = "apply" => pc.apply \in {"download", "received"}

\* How far the apply task has got with the release that was confirmed.
Stage ==
  IF pc.apply \in {"idle", "start", "reboot"} THEN "idle"
  ELSE IF disturbed THEN "disturbed"
  ELSE IF Working THEN part ELSE "complete"

Target == IF Stage \in {"idle", "disturbed"} THEN None ELSE confirmed

Installed ==
  INSTANCE Installation WITH running <- fw, record <- [app |-> appliedApp, fs |-> appliedFs],
                             target <- Target, stage <- Stage

\* An update does what Installation promises, whatever fails, is skipped, is checked for in the
\* meantime or is cut by a restart: one release from beginning to end, whole images only, the
\* firmware first, and nothing recorded that is not in flash.  It promises nothing any more
\* once the pending update or the Update object was changed under it, and the next one does.
ImplementsInstallation == Installed!Spec

\* A hash is stored as applied only when that image is in flash, unless the update was
\* disturbed: a later update leaves the component out because of it.
HashesNameTheFlash ==
  [][~disturbed => /\ appliedApp' # appliedApp => boot' = appliedApp'
                   /\ appliedFs' # appliedFs => ui' = appliedFs']_vars

\* An update that was not disturbed and reports "complete" has flashed, or had flashed before,
\* both components of the release that was confirmed.
UpdateIsComplete ==
  pc.apply \in {"complete", "reboot"} /\ ~disturbed =>
    appliedApp = confirmed /\ appliedFs = UIOf[confirmed]

\* "Flash firmware FIRST" (HttpOtaService.cpp:306): an update at work does not touch the web
\* interface before the firmware that goes with it is in place; only others can.
FirmwareComesFirst == [][Working /\ ~disturbed' /\ ui' # ui => appliedApp = confirmed]_vars

\* "... so that a failed FS flash leaves the old (working) UI in place rather than
\* bricking the web interface" (HttpOtaService.cpp:306).
UiSurvivesFailedFlash == ~applying /\ (\A c \in Clients : upload[c] = NoUpload) => ui # Broken

\* Every check that is asked for is answered, if only by "wifi_disconnected", once setup() is
\* done.
CheckIsAnswered == watched = "asked" /\ pc.loop # "setup" ~> watched = "none"

\* No update that was started holds on to g_otaHttpApplying.
ApplyEnds == Updating ~> ~applying
===============================================================================
