----------------------------- MODULE HttpOtaProofs -----------------------------
(***************************************************************************)
(* Theorems about HttpOta, for any releases, clients and uploads.          *)
(***************************************************************************)
EXTENDS HttpOta, TLAPS

\* The tuples of unchanged variables, and the way a task moves.
USE DEF storedVars, checkVars, pendingVars, notesVars, applyVars, flashVars, Goto

-------------------------------------------------------------------------------
(***************************************************************************)
(* Type correctness, Boolean variables apart from the others.              *)
(***************************************************************************)
Places == [loop : {"setup", "idle", "begin", "process", "report", "notes", "fetch", "keep"},
           web : {"idle", "status", "answer", "invalidate"},
           apply : {"idle", "start", "part", "connect", "download", "received", "store",
                    "complete", "reboot"}]

Flags ==
  /\ include \in BOOLEAN /\ preRel \in BOOLEAN
  /\ force \in BOOLEAN /\ checkRequested \in BOOLEAN /\ checking \in BOOLEAN
  /\ notesReady \in BOOLEAN /\ notesRequested \in BOOLEAN
  /\ disturbed \in BOOLEAN /\ stale \in BOOLEAN

\* Where the tasks are, and the flag that an update is under way.
Control ==
  /\ pc \in Places
  /\ applying \in BOOLEAN /\ (Updating => applying)
  /\ part \in Components
  /\ watched \in {"none", "asked", "started"}

\* What is known of releases.
Known ==
  /\ appliedApp \in Firmware \cup {None} /\ appliedFs \in UIs \cup {None}
  /\ pending \in Firmware \cup {None}
  /\ parts \subseteq Components /\ (parts = {} <=> pending = None)
  /\ last \in [ok : BOOLEAN, offer : Firmware \cup {None}]
  /\ notes \in Firmware \cup {None}
  /\ found \in Firmware \cup {None}
  /\ source \in Firmware \cup {None} /\ confirmed \in Firmware \cup {None}

\* Flash and who writes it: an update that the apply task or a client began is of the
\* component it sends, so only an image of that kind can become whole.
Writers ==
  /\ FlashTypeOK(Clients \cup {"apply"})
  /\ upload \in [Clients -> Uploads \cup {NoUpload}]
  /\ update.by # None => Running
  /\ update.by = "apply" => update.kind = part /\ pc.apply \in {"download", "received"}
  /\ pc.apply \in {"download", "received"} => source \in Firmware
  /\ \A c \in Clients : update.by = c => upload[c].kind = update.kind

\* The groups, and what Writers adds, make up TypeOK.
LEMMA TypeParts == Flags /\ Control /\ Known /\ Writers => TypeOK
  BY DEF TypeOK, Flags, Control, Known, Writers, Places

\* After begin() every variable has its type.
LEMMA InitTypeOK == Init => Flags /\ Control /\ Known /\ Writers
  <1> SUFFICES ASSUME Init PROVE Flags /\ Control /\ Known /\ Writers
    OBVIOUS
  <1> USE DEF Init, RamInit
  <1>1. Flags
    BY DEF Flags
  <1>2. Control
    BY DEF Control, Places, Components, Updating
  <1>3. Known
    BY DEF Known, NoResult
  <1>4. Writers
    BY OtaAssumption DEF Writers, FlashTypeOK, Stopped, Running, NoUpload
  <1> QED
    BY <1>1, <1>2, <1>3, <1>4

\* Steps of uploads change nothing of checks and notes, and of an update only whether it was
\* disturbed.
LEMMA UploadKeeps ==
  ASSUME NEW c \in Clients, UploadStep(c)
  PROVE  /\ UNCHANGED <<storedVars, checkVars, pendingVars, notesVars, applying, part, source, confirmed, pc, found>>
         /\ disturbed' = disturbed \/ (Working /\ disturbed')
  <1>1. CASE UploadPart(c) \/ UploadEnd(c)
    BY <1>1 DEF UploadPart, UploadEnd, Disturb
  <1>2. CASE UploadLost(c) \/ \E u \in Uploads : UploadFirst(c, u)
    BY <1>2 DEF UploadFirst, UploadLost
  <1> QED
    BY <1>1, <1>2 DEF UploadStep

\* Every step stores Booleans in the flags.
LEMMA FlagsStep ==
  ASSUME Flags, [Next]_vars
  PROVE  Flags'
  <1> USE DEF Flags, ClearPending, Disturb, Working
  <1>1. CASE CheckStep
    <2>1. CASE PassCheck \/ CheckOffline \/ StartCheck \/ FetchManifest
      BY <2>1 DEF PassCheck, CheckOffline, StartCheck, FetchManifest
    <2>2. CASE ProcessManifest \/ Report
      BY <2>2 DEF ProcessManifest, Report, Offer
    <2> QED
      BY <1>1, <2>1, <2>2 DEF CheckStep
  <1>2. CASE NotesStep
    BY <1>2 DEF NotesStep, PassNotes, FetchNotes, VerifyNotes, KeepNotes
  <1>3. CASE ApplyStep
    BY <1>3 DEF ApplyStep, ApplyRefused, StartApply, SkipPart, TakePart, BeginDownload, DownloadRefused, Receive,
                AbortDownload, FinishDownload, StoreApplied, Complete, Advance, Fail
  <1>4. CASE Invalidate
    BY <1>4 DEF Invalidate
  <1>5. CASE Request
    BY <1>5 DEF Request, CheckNow, PollStatus, RequestNotes, SetIncludePrereleases, Apply
  <1>6. CASE \E c \in Clients : UploadStep(c)
    BY <1>6, UploadKeeps
  <1>7. CASE Restart
    BY <1>7 DEF Restart
  <1>8. CASE UNCHANGED vars
    BY <1>8 DEF vars
  <1>9. CASE BeginService \/ ReadResult \/ Answer
    BY <1>9 DEF BeginService, ReadResult, Answer
  <1> QED
    BY <1>1, <1>2, <1>3, <1>4, <1>5, <1>6, <1>7, <1>8, <1>9 DEF Next, LoopStep, WebStep

\* Every step keeps the tasks at places of their code.
LEMMA ControlStep ==
  ASSUME Control, [Next]_vars
  PROVE  Control'
  <1> USE DEF Control, Places, Components, Updating, Disturb
  <1>1. CASE CheckStep
    BY <1>1 DEF CheckStep, PassCheck, CheckOffline, StartCheck, FetchManifest, ProcessManifest, Report
  <1>2. CASE NotesStep
    BY <1>2 DEF NotesStep, PassNotes, FetchNotes, VerifyNotes, KeepNotes
  <1>3. CASE ApplyStep
    <2>1. CASE ApplyRefused \/ StartApply \/ DownloadRefused \/ AbortDownload
      BY <2>1 DEF ApplyRefused, StartApply, DownloadRefused, AbortDownload, Fail
    <2>2. CASE TakePart \/ BeginDownload \/ Receive \/ Complete
      BY <2>2 DEF TakePart, BeginDownload, Receive, Complete
    <2>3. CASE SkipPart \/ StoreApplied
      BY <2>3 DEF SkipPart, StoreApplied, Advance
    <2>4. CASE FinishDownload
      BY <2>4 DEF FinishDownload, Fail
    <2> QED
      BY <1>3, <2>1, <2>2, <2>3, <2>4 DEF ApplyStep
  <1>4. CASE Invalidate
    BY <1>4 DEF Invalidate
  <1>5. CASE Request
    <2>1. CASE CheckNow
      BY <2>1 DEF CheckNow
    <2>2. CASE PollStatus \/ RequestNotes \/ SetIncludePrereleases
      BY <2>2 DEF PollStatus, RequestNotes, SetIncludePrereleases
    <2>3. CASE Apply
      BY <2>3 DEF Apply
    <2> QED
      BY <1>5, <2>1, <2>2, <2>3 DEF Request
  <1>6. CASE \E c \in Clients : UploadStep(c)
    BY <1>6, UploadKeeps
  <1>7. CASE Restart
    BY <1>7 DEF Restart
  <1>8. CASE UNCHANGED vars
    BY <1>8 DEF vars
  <1>9. CASE BeginService \/ ReadResult \/ Answer
    BY <1>9 DEF BeginService, ReadResult, Answer
  <1> QED
    BY <1>1, <1>2, <1>3, <1>4, <1>5, <1>6, <1>7, <1>8, <1>9 DEF Next, LoopStep, WebStep

\* Every step names releases, and keeps components with a pending update only.
LEMMA KnownStep ==
  ASSUME Known, [Next]_vars
  PROVE  Known'
  <1> USE DEF Known, Components, ClearPending, NoResult, Disturb
  <1>1. CASE CheckStep
    <2>1. CASE PassCheck \/ StartCheck
      BY <2>1 DEF PassCheck, StartCheck
    <2>2. CASE ProcessManifest
      <3>1. CASE found # None /\ Offer(found)
        BY <2>2, <3>1, OtaAssumption DEF ProcessManifest, Offer
      <3>2. CASE ~(found # None /\ Offer(found))
        BY <2>2, <3>2 DEF ProcessManifest
      <3> QED
        BY <3>1, <3>2
    <2>3. CASE Report
      BY <2>3 DEF Report
    <2>4. CASE CheckOffline
      BY <2>4 DEF CheckOffline
    <2>5. CASE FetchManifest
      BY <2>5 DEF FetchManifest
    <2> QED
      BY <1>1, <2>1, <2>2, <2>3, <2>4, <2>5 DEF CheckStep
  <1>2. CASE NotesStep
    BY <1>2 DEF NotesStep, PassNotes, FetchNotes, VerifyNotes, KeepNotes
  <1>3. CASE ApplyStep
    <2>1. CASE ApplyRefused \/ StartApply \/ DownloadRefused \/ AbortDownload
      BY <2>1 DEF ApplyRefused, StartApply, DownloadRefused, AbortDownload, Fail
    <2>2. CASE TakePart \/ BeginDownload \/ Receive \/ Complete
      BY <2>2 DEF TakePart, BeginDownload, Receive, Complete
    <2>3. CASE SkipPart
      BY <2>3 DEF SkipPart, Advance
    <2>4. CASE StoreApplied
      <3>1. pending # None => UIOf[pending] \in UIs
        BY OtaAssumption
      <3> QED
        BY <2>4, <3>1 DEF StoreApplied, Advance
    <2>5. CASE FinishDownload
      BY <2>5 DEF FinishDownload, Fail
    <2> QED
      BY <1>3, <2>1, <2>2, <2>3, <2>4, <2>5 DEF ApplyStep
  <1>4. CASE Invalidate
    BY <1>4 DEF Invalidate
  <1>5. CASE Request
    BY <1>5 DEF Request, CheckNow, PollStatus, RequestNotes, SetIncludePrereleases, Apply
  <1>6. CASE \E c \in Clients : UploadStep(c)
    BY <1>6, UploadKeeps
  <1>7. CASE Restart
    BY <1>7 DEF Restart
  <1>8. CASE UNCHANGED vars
    BY <1>8 DEF vars
  <1>9. CASE BeginService \/ ReadResult \/ Answer
    BY <1>9 DEF BeginService, ReadResult, Answer
  <1> QED
    BY <1>1, <1>2, <1>3, <1>4, <1>5, <1>6, <1>7, <1>8, <1>9 DEF Next, LoopStep, WebStep

-------------------------------------------------------------------------------
\* What leaves the flash and its writers alone.
LEMMA WritersStay ==
  ASSUME Writers, UNCHANGED <<flashVars, upload, part, source>>, pc'.apply = pc.apply
  PROVE  Writers'
  BY DEF Writers, FlashTypeOK, Running

\* A whole image in a partition is of the kind the update writes.
LEMMA EndUpdateTypes ==
  ASSUME NEW W, FlashTypeOK(W), EndUpdate
  PROVE  FlashTypeOK(W)' /\ update' = Stopped
  BY DEF FlashTypeOK, EndUpdate, EndAccepts, Running, Stopped

\* Only the kind of image that the running update takes arrives whole.
LEMMA WriteTypes ==
  ASSUME NEW W, FlashTypeOK(W), NEW who, NEW image, Write(who, image),
         update.by = who => image \in IF update.kind = "app" THEN Firmware ELSE UIs
  PROVE  /\ FlashTypeOK(W)'
         /\ update'.by = update.by /\ update'.kind = update.kind
  <1>1. update' = [update EXCEPT !.data =
                     IF update.by = who /\ update.data \in {None, image} THEN image ELSE Broken]
    BY DEF Write
  <1>2. update' \in [kind : {"app", "fs", None}, by : W \cup {None},
                    data : Firmware \cup UIs \cup {None, Broken}]
    BY <1>1 DEF FlashTypeOK
  <1>3. update'.data \in {None, Broken} \cup (IF update.kind = "app" THEN Firmware ELSE UIs)
    BY <1>1 DEF FlashTypeOK
  <1>4. update'.by = update.by /\ update'.kind = update.kind
    BY <1>1 DEF FlashTypeOK
  <1> QED
    BY <1>2, <1>3, <1>4 DEF Write, FlashTypeOK

\* Every step keeps what is known of the flash and its writers.
LEMMA WritersStep ==
  ASSUME Control, Known, Writers, [Next]_vars
  PROVE  Writers'
  <1>1. CASE BeginService \/ LoopStep \/ (WebStep /\ ~Apply)
    <2>1. UNCHANGED <<flashVars, upload, part, source>>
      BY <1>1 DEF BeginService, LoopStep, CheckStep, NotesStep, PassCheck, CheckOffline, StartCheck, FetchManifest,
         ProcessManifest, Report, PassNotes, FetchNotes, VerifyNotes, KeepNotes, WebStep, Request,
         ReadResult, Answer, Invalidate, Disturb, CheckNow, PollStatus, RequestNotes, SetIncludePrereleases
    <2>2. pc'.apply = pc.apply
      BY <1>1 DEF BeginService, LoopStep, CheckStep, NotesStep, PassCheck, CheckOffline, StartCheck, FetchManifest,
         ProcessManifest, Report, PassNotes, FetchNotes, VerifyNotes, KeepNotes, WebStep, Request,
         ReadResult, Answer, Invalidate, Disturb, CheckNow, PollStatus, RequestNotes, SetIncludePrereleases, Control, Places
    <2> QED
      BY <2>1, <2>2, WritersStay
  <1>2. CASE ApplyStep
    <2> USE DEF Control, Places, Writers
    <2>1. CASE ApplyRefused \/ StartApply \/ DownloadRefused
      BY <2>1 DEF ApplyRefused, StartApply, DownloadRefused, Fail, FlashTypeOK, Running
    <2>2. CASE SkipPart \/ TakePart \/ StoreApplied \/ Complete
      BY <2>2 DEF SkipPart, TakePart, StoreApplied, Complete, Advance, FlashTypeOK, Running
    <2>3. CASE BeginDownload
      <3>1. pending \in Firmware
        BY <2>3 DEF BeginDownload, Known
      <3> QED
        BY <2>3, <3>1, OtaAssumption DEF BeginDownload, BeginUpdate, FlashTypeOK, Running, Components
    <2>4. CASE Receive
      <3>1. source \in Firmware
        BY <2>4 DEF Receive
      <3>2. update.by = "apply" => Image(source, part) \in IF update.kind = "app" THEN Firmware ELSE UIs
        BY <3>1, OtaAssumption DEF Image
      <3>3. /\ FlashTypeOK(Clients \cup {"apply"})'
            /\ update'.by = update.by /\ update'.kind = update.kind
        BY <2>4, <3>2, WriteTypes DEF Receive
      <3> QED
        BY <2>4, <3>3 DEF Receive, Running
    <2>5. CASE AbortDownload
      BY <2>5, OtaAssumption DEF AbortDownload, Abort, Fail, FlashTypeOK, Stopped, Running
    <2>6. CASE FinishDownload
      <3>1. FlashTypeOK(Clients \cup {"apply"})' /\ update' = Stopped
        BY <2>6, EndUpdateTypes DEF FinishDownload
      <3>2. pc'.apply \in {"store", "idle"} /\ UNCHANGED upload
        BY <2>6 DEF FinishDownload, Fail
      <3> QED
        BY <3>1, <3>2, OtaAssumption DEF Stopped, Running
    <2> QED
      BY <1>2, <2>1, <2>2, <2>3, <2>4, <2>5, <2>6 DEF ApplyStep
  <1>3. CASE Apply
    BY <1>3 DEF Apply, Control, Places, Updating, Writers, FlashTypeOK, Running
  <1>4. ASSUME NEW c \in Clients, UploadStep(c)
        PROVE  Writers'
    <2> USE <1>4 DEF Writers
    <2>1. ASSUME NEW u \in Uploads, UploadFirst(c, u)
          PROVE  Writers'
      <3>1. u.kind \in {"app", "fs"}
        BY OtaAssumption
      <3>2. CASE BeginUpdate(u.kind, c)
        BY <2>1, <3>1, <3>2, OtaAssumption DEF UploadFirst, BeginUpdate, FlashTypeOK, Running
      <3>3. CASE UNCHANGED flashVars
        BY <2>1, <3>3, OtaAssumption DEF UploadFirst, NoUpload, FlashTypeOK, Running
      <3> QED
        BY <2>1, <3>2, <3>3 DEF UploadFirst
    <2>2. CASE UploadPart(c)
      <3>1. upload[c] \in Uploads
        BY <2>2 DEF UploadPart
      <3>2. update.by = c => upload[c].image \in IF update.kind = "app" THEN Firmware ELSE UIs
        BY <3>1, OtaAssumption
      <3>3. /\ FlashTypeOK(Clients \cup {"apply"})'
            /\ update'.by = update.by /\ update'.kind = update.kind
        BY <2>2, <3>2, WriteTypes DEF UploadPart
      <3> QED
        BY <2>2, <3>3 DEF UploadPart, Disturb, Running
    <2>3. CASE UploadEnd(c)
      <3>1. FlashTypeOK(Clients \cup {"apply"})' /\ update' = Stopped
        BY <2>3, EndUpdateTypes DEF UploadEnd
      <3> QED
        BY <2>3, <3>1, OtaAssumption DEF UploadEnd, Disturb, Stopped, Running
    <2>4. CASE UploadLost(c)
      BY <2>4, OtaAssumption DEF UploadLost, FlashTypeOK, Running
    <2> QED
      BY <2>1, <2>2, <2>3, <2>4 DEF UploadStep
  <1>5. CASE Restart
    BY <1>5, OtaAssumption DEF Restart, BootFlash, Writers, FlashTypeOK, Stopped, Running, NoUpload
  <1>6. CASE UNCHANGED vars
    BY <1>6, WritersStay DEF vars
  <1> QED
    BY <1>1, <1>2, <1>3, <1>4, <1>5, <1>6 DEF Next, WebStep, Request

TypeInv == Flags /\ Control /\ Known /\ Writers

\* The four groups are an inductive invariant.
LEMMA TypeInvariant == Spec => []TypeInv
  <1>1. Init => TypeInv
    BY InitTypeOK DEF TypeInv
  <1>2. TypeInv /\ [Next]_vars => TypeInv'
    BY FlagsStep, ControlStep, KnownStep, WritersStep DEF TypeInv
  <1> QED
    BY <1>1, <1>2, PTL DEF Spec

\* Every variable keeps its type; a partition holds an image of its own kind, or none.
THEOREM TypeCorrect == Spec => []TypeOK
  BY TypeInvariant, TypeParts, PTL DEF TypeInv
-------------------------------------------------------------------------------
(***************************************************************************)
(* Checks and notes, whatever runs next to them.  A step of the other      *)
(* tasks can drop the pending update, or force a check.                    *)
(***************************************************************************)
\* A request that is watched is waiting, taken, or being answered.
FreshInv ==
  /\ watched = "asked" => checkRequested \/ pc.loop = "begin"
  /\ watched = "started" => pc.loop \in {"process", "report"}
  /\ pc.loop \in {"process", "report"} => checking

\* Only loopTask offers an update, so notes that were verified are of the pending
\* release as long as there is one.
NotesInv ==
  /\ pc.loop = "keep" => pending \in {None, found}
  /\ notesReady /\ pending # None => notes = pending

\* What is offered is pending, unless it was dropped: then a check is forced, or the
\* update is complete.
Dropped == force \/ (pending = None /\ pc.apply \in {"complete", "reboot"})
OfferInv ==
  /\ last.offer # None => pending = last.offer \/ Checking \/ Dropped
  /\ pc.loop = "report" /\ found # None /\ Newer(found) => pending = found \/ Dropped

\* A check that found a prerelease on a channel that was left meanwhile is followed by
\* another one.
ChannelInv ==
  /\ pending \in Prereleases /\ ~include => force \/ Checking \/ last.ok = FALSE \/ pc.web = "invalidate"
  /\ pc.loop \in {"process", "report"} /\ found \in Prereleases /\ ~include => force \/ pc.web = "invalidate"
  /\ pc.loop = "report" /\ found # None /\ pending # None => pending = found

\* What a step of the tasks other than loopTask does to checks and notes.
OthersKeep ==
  /\ pc'.loop = pc.loop /\ found' = found
  /\ checking' = checking
  /\ notesReady' => notesReady /\ notes' = notes
  /\ pending' \in {pending, None}

CheckInv == FreshInv /\ NotesInv /\ OfferInv /\ ChannelInv

LEMMA ApplyKeeps ==
  ASSUME Control, ApplyStep
  PROVE  /\ OthersKeep
         /\ UNCHANGED <<include, force, checkRequested, last, watched>> /\ pc'.web = pc.web
         /\ \/ pending' = pending /\ (pc.apply \in {"complete", "reboot"} => pc'.apply \in {"complete", "reboot"})
            \/ pending' = None /\ pc'.apply = "complete"
  <1> USE DEF Control, Places, OthersKeep
  <1>1. CASE ApplyRefused \/ StartApply \/ DownloadRefused \/ AbortDownload
    BY <1>1 DEF ApplyRefused, StartApply, DownloadRefused, AbortDownload, Fail
  <1>2. CASE TakePart \/ BeginDownload \/ Receive \/ Complete
    BY <1>2 DEF TakePart, BeginDownload, Receive, Complete
  <1>3. CASE SkipPart
    BY <1>3 DEF SkipPart, Advance, ClearPending
  <1>4. CASE StoreApplied
    BY <1>4 DEF StoreApplied, Advance, ClearPending
  <1>5. CASE FinishDownload
    BY <1>5 DEF FinishDownload, Fail
  <1> QED
    BY <1>1, <1>2, <1>3, <1>4, <1>5 DEF ApplyStep

\* Every step keeps what is known of a watched request.
LEMMA FreshStep ==
  ASSUME Control, FreshInv, [Next]_vars
  PROVE  FreshInv'
  <1> USE DEF FreshInv
  <1>1. CASE CheckStep
    BY <1>1 DEF CheckStep, PassCheck, CheckOffline, StartCheck, FetchManifest, ProcessManifest, Report,
       Control, Places
  <1>2. CASE NotesStep
    BY <1>2 DEF NotesStep, PassNotes, FetchNotes, VerifyNotes, KeepNotes, Control, Places
  <1>3. CASE ApplyStep
    BY <1>3, ApplyKeeps DEF OthersKeep
  <1>4. CASE WebStep
    BY <1>4 DEF WebStep, ReadResult, Answer, Invalidate, Disturb, Request, CheckNow, PollStatus, RequestNotes, SetIncludePrereleases, Apply, Control, Places
  <1>5. CASE \E c \in Clients : UploadStep(c)
    BY <1>5, UploadKeeps
  <1>6. CASE Restart \/ UNCHANGED vars
    BY <1>6 DEF Restart, vars
  <1>9. CASE BeginService
    BY <1>9 DEF BeginService, Control, Places
  <1> QED
    BY <1>1, <1>2, <1>3, <1>4, <1>5, <1>6, <1>9 DEF Next, LoopStep

\* Every step keeps what is known of notes.
LEMMA NotesStepKeeps ==
  ASSUME Control, NotesInv, [Next]_vars
  PROVE  NotesInv'
  <1> USE DEF NotesInv
  <1>1. CASE CheckStep
    BY <1>1 DEF CheckStep, PassCheck, CheckOffline, StartCheck, FetchManifest, ProcessManifest, Report,
       Offer, ClearPending, Control, Places
  <1>2. CASE NotesStep
    BY <1>2 DEF NotesStep, PassNotes, FetchNotes, VerifyNotes, KeepNotes, Control, Places
  <1>3. CASE ApplyStep
    BY <1>3, ApplyKeeps DEF OthersKeep
  <1>4. CASE WebStep
    BY <1>4 DEF WebStep, ReadResult, Answer, Invalidate, ClearPending, Request, CheckNow, PollStatus,
       RequestNotes, SetIncludePrereleases, Apply, Control, Places
  <1>5. CASE \E c \in Clients : UploadStep(c)
    BY <1>5, UploadKeeps
  <1>6. CASE Restart \/ UNCHANGED vars
    BY <1>6 DEF Restart, vars
  <1>9. CASE BeginService
    BY <1>9 DEF BeginService, Control, Places
  <1> QED
    BY <1>1, <1>2, <1>3, <1>4, <1>5, <1>6, <1>9 DEF Next, LoopStep

\* Every step keeps what is known of an offer.
LEMMA OfferStep ==
  ASSUME Control, Known, OfferInv, [Next]_vars
  PROVE  OfferInv'
  <1> USE DEF OfferInv, Dropped, Checking
  <1>1. CASE CheckStep
    <2> USE DEF Control, Places
    <2>1. CASE PassCheck \/ StartCheck
      BY <2>1 DEF PassCheck, StartCheck
    <2>2. CASE CheckOffline
      BY <2>2 DEF CheckOffline, NoResult
    <2>3. CASE FetchManifest
      BY <2>3 DEF FetchManifest
    <2>4. CASE ProcessManifest
      BY <2>4 DEF ProcessManifest, Offer, Newer
    <2>5. CASE Report
      BY <2>5 DEF Report, NoResult
    <2> QED
      BY <1>1, <2>1, <2>2, <2>3, <2>4, <2>5 DEF CheckStep
  <1>2. CASE NotesStep
    BY <1>2 DEF NotesStep, PassNotes, FetchNotes, VerifyNotes, KeepNotes, Control, Places
  <1>3. CASE ApplyStep
    <2>1. UNCHANGED fw
      BY <1>3 DEF ApplyStep, ApplyRefused, StartApply, SkipPart, TakePart, BeginDownload, DownloadRefused, Receive,
         AbortDownload, FinishDownload, StoreApplied, Complete, BeginUpdate, Write, Abort, EndUpdate
    <2> QED
      BY <1>3, <2>1, ApplyKeeps DEF OthersKeep, Newer
  <1>4. CASE Invalidate
    BY <1>4 DEF Invalidate, NoResult, Control, Places
  <1>5. CASE Request
    <2>1. CASE CheckNow
      BY <2>1 DEF CheckNow
    <2>2. CASE PollStatus \/ RequestNotes \/ SetIncludePrereleases
      BY <2>2 DEF PollStatus, RequestNotes, SetIncludePrereleases, Control, Places, Newer
    <2>3. CASE Apply
      BY <2>3 DEF Apply, Control, Places, Newer
    <2> QED
      BY <1>5, <2>1, <2>2, <2>3 DEF Request
  <1>6. ASSUME NEW c \in Clients, UploadStep(c)
        PROVE  OfferInv'
    <2>1. UNCHANGED fw
      BY <1>6 DEF UploadStep, UploadFirst, UploadPart, UploadEnd, UploadLost, Disturb, BeginUpdate, Write, EndUpdate
    <2> QED
      BY <1>6, <2>1, UploadKeeps DEF Newer
  <1>7. CASE Restart
    BY <1>7 DEF Restart, NoResult
  <1>8. CASE UNCHANGED vars
    BY <1>8 DEF vars, Newer
  <1>9. CASE BeginService \/ ReadResult \/ Answer
    BY <1>9 DEF BeginService, ReadResult, Answer, Control, Places, Newer
  <1> QED
    BY <1>1, <1>2, <1>3, <1>4, <1>5, <1>6, <1>7, <1>8, <1>9 DEF Next, LoopStep, WebStep

\* Every step keeps what is known of the channel.
LEMMA ChannelStep ==
  ASSUME Flags, Control, Known, ChannelInv, [Next]_vars
  PROVE  ChannelInv'
  <1> USE DEF ChannelInv, Checking
  <1>0. None \notin Prereleases
    BY OtaAssumption
  <1>1. CASE CheckStep
    <2> USE DEF Control, Places
    <2>1. CASE PassCheck \/ StartCheck
      BY <2>1 DEF PassCheck, StartCheck
    <2>2. CASE CheckOffline
      BY <2>2 DEF CheckOffline, NoResult
    <2>3. CASE FetchManifest
      BY <1>0, <2>3 DEF FetchManifest
    <2>4. CASE ProcessManifest
      BY <2>4 DEF ProcessManifest, Offer, ClearPending
    <2>5. CASE Report
      BY <1>0, <2>5 DEF Report, NoResult
    <2> QED
      BY <1>1, <2>1, <2>2, <2>3, <2>4, <2>5 DEF CheckStep
  <1>2. CASE NotesStep
    BY <1>2 DEF NotesStep, PassNotes, FetchNotes, VerifyNotes, KeepNotes, Control, Places
  <1>3. CASE ApplyStep
    BY <1>0, <1>3, ApplyKeeps DEF OthersKeep
  <1>4. CASE Invalidate
    BY <1>0, <1>4 DEF Invalidate, ClearPending, Control, Places
  <1>5. CASE Request
    BY <1>5 DEF Request, CheckNow, PollStatus, RequestNotes, SetIncludePrereleases, Apply, Control, Places
  <1>6. CASE \E c \in Clients : UploadStep(c)
    BY <1>6, UploadKeeps
  <1>7. CASE Restart
    BY <1>0, <1>7 DEF Restart
  <1>8. CASE UNCHANGED vars
    BY <1>8 DEF vars
  <1>9. CASE BeginService \/ ReadResult \/ Answer
    BY <1>9 DEF BeginService, ReadResult, Answer, Control, Places
  <1> QED
    BY <1>1, <1>2, <1>3, <1>4, <1>5, <1>6, <1>7, <1>8, <1>9 DEF Next, LoopStep, WebStep

LEMMA CheckInvariant == Spec => []CheckInv
  <1>1. Init => CheckInv
    BY OtaAssumption DEF Init, RamInit, NoResult, CheckInv, FreshInv, NotesInv, OfferInv, ChannelInv
  <1>2. TypeInv /\ CheckInv /\ [Next]_vars => CheckInv'
    BY FreshStep, NotesStepKeeps, OfferStep, ChannelStep DEF TypeInv, CheckInv
  <1> QED
    BY <1>1, <1>2, TypeInvariant, PTL DEF Spec

\* The status says "pending" until a requested check is answered, except in the gap.
THEOREM StatusStaysFresh == Spec => []StatusIsFresh
  <1>1. TypeInv /\ CheckInv => StatusIsFresh
    BY DEF TypeInv, Control, CheckInv, FreshInv, StatusIsFresh
  <1> QED
    BY <1>1, TypeInvariant, CheckInvariant, PTL

\* The notes are those of the pending release.
THEOREM NotesStayOfPending == Spec => []NotesAreOfPending
  <1>1. CheckInv => NotesAreOfPending
    BY DEF CheckInv, NotesInv, NotesAreOfPending
  <1> QED
    BY <1>1, CheckInvariant, PTL

\* What the status offers can be applied, or another check is due.
THEOREM OffersStand == Spec => []OfferStands
  <1>1. CheckInv => OfferStands
    BY DEF CheckInv, OfferInv, Dropped, OfferStands
  <1> QED
    BY <1>1, CheckInvariant, PTL

\* A prerelease does not stay pending when prereleases are switched off.
THEOREM ChannelStaysFollowed == Spec => []ChannelIsFollowed
  <1>1. CheckInv => ChannelIsFollowed
    BY DEF CheckInv, ChannelInv, ChannelIsFollowed
  <1> QED
    BY <1>1, CheckInvariant, PTL

\* Whatever way the apply task takes, it leaves no update of its own running.
THEOREM NothingLeftRunning == Spec => []ApplyLeavesNothingRunning
  <1>1. TypeInv => ApplyLeavesNothingRunning
    BY DEF TypeInv, Writers, ApplyLeavesNothingRunning
  <1> QED
    BY <1>1, TypeInvariant, PTL

-------------------------------------------------------------------------------
(***************************************************************************)
(* An update that nobody disturbs.                                         *)
(***************************************************************************)
\* A component that a pending update leaves out was applied.
SkippedInv ==
  pending # None =>
    /\ "app" \notin parts => appliedApp = pending
    /\ "fs" \notin parts => appliedFs = UIOf[pending]

\* The apply task downloads from the release that was confirmed, and what it has got
\* to is in flash.
SourceInv ==
  ~disturbed =>
    /\ Working => pending = confirmed /\ confirmed \in Firmware
    /\ pc.apply \in {"download", "received"} => source = confirmed /\ update.by = "apply"
    /\ pc.apply = "download" => update.data = None
    /\ pc.apply = "received" => update.data = Image(confirmed, part)
    /\ pc.apply = "store" => IF part = "app" THEN boot = confirmed ELSE ui = UIOf[confirmed]

\* What was done for the firmware is known before the file system's turn comes.
OrderInv ==
  ~disturbed =>
    /\ Working /\ part = "fs" => appliedApp = confirmed
    /\ pc.apply \in {"complete", "reboot"} => appliedApp = confirmed /\ appliedFs = UIOf[confirmed]

\* Every step keeps what is known of skipped components.
LEMMA SkippedStep ==
  ASSUME Known, SkippedInv, [Next]_vars
  PROVE  SkippedInv'
  <1> USE DEF SkippedInv
  <1>1. CASE CheckStep
    <2>1. CASE ProcessManifest
      BY <2>1, OtaAssumption DEF ProcessManifest, Offer, ClearPending, Image, Components
    <2> QED
      BY <1>1, <2>1 DEF CheckStep, PassCheck, CheckOffline, StartCheck, FetchManifest, Report
  <1>2. CASE NotesStep
    BY <1>2 DEF NotesStep, PassNotes, FetchNotes, VerifyNotes, KeepNotes
  <1>3. CASE ApplyStep
    <2>1. CASE StoreApplied
      BY <2>1 DEF StoreApplied, Advance, ClearPending
    <2>2. CASE SkipPart
      BY <2>2 DEF SkipPart, Advance, ClearPending
    <2> QED
      BY <1>3, <2>1, <2>2 DEF ApplyStep, ApplyRefused, StartApply, TakePart, BeginDownload, DownloadRefused,
         Receive, AbortDownload, FinishDownload, Complete
  <1>4. CASE Invalidate
    BY <1>4 DEF Invalidate, ClearPending
  <1>5. CASE BeginService \/ (WebStep /\ ~Invalidate)
    BY <1>5 DEF BeginService, WebStep, ReadResult, Answer, Request, CheckNow, PollStatus, RequestNotes,
       SetIncludePrereleases, Apply
  <1>6. CASE \E c \in Clients : UploadStep(c)
    BY <1>6, UploadKeeps
  <1>7. CASE Restart \/ UNCHANGED vars
    BY <1>7 DEF Restart, vars
  <1> QED
    BY <1>1, <1>2, <1>3, <1>4, <1>5, <1>6, <1>7 DEF Next, LoopStep

\* Steps of the other tasks that do not disturb an update at work leave alone what it works on.
LEMMA OthersStay ==
  ASSUME TypeInv, Working, ~disturbed', [Next]_vars, ~ApplyStep, ~Restart
  PROVE  /\ UNCHANGED <<pending, parts, appliedApp, appliedFs, part, source, confirmed, fw, boot, ui>>
         /\ ~disturbed
         /\ pc'.apply = pc.apply
         /\ update.by = "apply" => update' = update
  <1> USE DEF TypeInv, Control, Places, Disturb
  <1>1. CASE CheckStep
    <2>1. CASE ProcessManifest
      <3>1. UNCHANGED <<pendingVars, applyVars>>
        BY <2>1 DEF ProcessManifest
      <3> QED
        BY <2>1, <3>1 DEF ProcessManifest, Goto, pendingVars, applyVars, storedVars, flashVars
    <2> QED
      BY <1>1, <2>1 DEF CheckStep, PassCheck, CheckOffline, StartCheck, FetchManifest, Report
  <1>2. CASE NotesStep
    BY <1>2 DEF NotesStep, PassNotes, FetchNotes, VerifyNotes, KeepNotes
  <1>3. CASE BeginService
    BY <1>3 DEF BeginService
  <1>4. CASE WebStep
    <2>1. applying
      BY DEF Working, Updating
    <2>2. ~Invalidate /\ ~Apply
      BY <2>1 DEF Invalidate, Apply
    <2> QED
      BY <1>4, <2>2 DEF WebStep, ReadResult, Answer, Request, CheckNow, PollStatus, RequestNotes,
         SetIncludePrereleases
  <1>5. ASSUME NEW c \in Clients, UploadStep(c)
        PROVE  /\ UNCHANGED <<pending, parts, appliedApp, appliedFs, part, source, confirmed, fw, boot, ui>>
               /\ ~disturbed
               /\ pc'.apply = pc.apply
               /\ update.by = "apply" => update' = update
    <2>1. c # "apply"
      BY OtaAssumption
    <2>2. update.by = "apply" => Running
      BY OtaAssumption DEF Writers
    <2>3. ~UploadPart(c) /\ ~UploadEnd(c)
      BY DEF UploadPart, UploadEnd
    <2> QED
      BY <1>5, <2>1, <2>2, <2>3 DEF UploadStep, UploadFirst, UploadLost, BeginUpdate
  <1>6. CASE UNCHANGED vars
    BY <1>6 DEF vars
  <1> QED
    BY <1>1, <1>2, <1>3, <1>4, <1>5, <1>6 DEF Next, LoopStep

\* The other tasks can only start an update, or disturb one; they store no hashes.
LEMMA OthersKeepPlace ==
  ASSUME TypeInv, [Next]_vars, ~ApplyStep, ~Restart
  PROVE  /\ UNCHANGED <<appliedApp, appliedFs, part, confirmed>>
         /\ disturbed => disturbed'
         /\ disturbed' => disturbed \/ Working
         /\ \/ pc'.apply = pc.apply
            \/ pc.apply \in {"idle", "reboot"} /\ pc'.apply = "start"
  <1> USE DEF TypeInv, Control, Places, Disturb
  <1>1. CASE LoopStep
    <2>1. CASE ProcessManifest
      BY <2>1 DEF ProcessManifest
    <2> QED
      BY <1>1, <2>1 DEF LoopStep, CheckStep, PassCheck, CheckOffline, StartCheck, FetchManifest, Report,
         NotesStep, PassNotes, FetchNotes, VerifyNotes, KeepNotes
  <1>2. CASE BeginService
    BY <1>2 DEF BeginService
  <1>3. CASE Invalidate
    BY <1>3 DEF Invalidate
  <1>4. CASE Apply
    BY <1>4 DEF Apply, Updating
  <1>5. CASE WebStep /\ ~Invalidate /\ ~Apply
    BY <1>5 DEF WebStep, ReadResult, Answer, Request, CheckNow, PollStatus, RequestNotes, SetIncludePrereleases
  <1>6. ASSUME NEW c \in Clients, UploadStep(c)
        PROVE  /\ UNCHANGED <<appliedApp, appliedFs, part, confirmed, pc>>
               /\ disturbed => disturbed'
               /\ disturbed' => disturbed \/ Working
    <2>1. CASE UploadPart(c)
      BY <2>1 DEF UploadPart
    <2>2. CASE UploadEnd(c)
      BY <2>2 DEF UploadEnd
    <2> QED
      BY <1>6, <2>1, <2>2 DEF UploadStep, UploadFirst, UploadLost
  <1>7. CASE UNCHANGED vars
    BY <1>7 DEF vars
  <1> QED
    BY <1>1, <1>2, <1>3, <1>4, <1>5, <1>6, <1>7 DEF Next

\* The steps of the apply task keep what it works on together.
LEMMA SourceStep ==
  ASSUME TypeInv, SourceInv, [Next]_vars
  PROVE  SourceInv'
  <1> USE DEF SourceInv, Working
  <1>1. CASE ApplyStep
    <2> USE DEF TypeInv, Control, Places
    <2>1. CASE ApplyRefused \/ DownloadRefused \/ AbortDownload
      BY <2>1 DEF ApplyRefused, DownloadRefused, AbortDownload, Fail
    <2>2. CASE StartApply
      BY <2>2 DEF StartApply, Known
    <2>3. CASE SkipPart \/ TakePart \/ StoreApplied \/ Complete
      BY <2>3 DEF SkipPart, TakePart, StoreApplied, Complete, Advance
    <2>4. CASE BeginDownload
      BY <2>4 DEF BeginDownload, BeginUpdate
    <2>5. CASE Receive
      <3>1. ~disturbed => update'.by = "apply" /\ update'.data = Image(confirmed, part)
        BY <2>5 DEF Receive, Write, Writers, FlashTypeOK
      <3> QED
        BY <2>5, <3>1 DEF Receive
    <2>6. CASE FinishDownload
      <3>1. ~disturbed => update.kind = part /\ update.data = Image(confirmed, part)
        BY <2>6 DEF FinishDownload, Writers
      <3>2. CASE EndAccepts
        <4>1. /\ pc.apply = "received" /\ pc'.apply = "store"
              /\ UNCHANGED <<part, confirmed, pending, disturbed>>
          BY <2>6, <3>2 DEF FinishDownload
        <4>2. ~disturbed => IF part = "app" THEN boot' = confirmed ELSE ui' = UIOf[confirmed]
          BY <2>6, <3>1, <3>2 DEF FinishDownload, EndUpdate, Image, Components
        <4> QED
          BY <4>1, <4>2
      <3>3. CASE ~EndAccepts
        BY <2>6, <3>3 DEF FinishDownload, Fail
      <3> QED
        BY <3>2, <3>3
    <2> QED
      BY <1>1, <2>1, <2>2, <2>3, <2>4, <2>5, <2>6 DEF ApplyStep
  <1>2. CASE Restart
    BY <1>2 DEF Restart
  <1>3. CASE ~ApplyStep /\ ~Restart /\ Working
    BY <1>3, OthersStay DEF Image
  <1>4. CASE ~ApplyStep /\ ~Restart /\ ~Working
    BY <1>4, OthersKeepPlace
  <1> QED
    BY <1>1, <1>2, <1>3, <1>4

\* The steps of the apply task keep their order.
LEMMA OrderStep ==
  ASSUME TypeInv, SkippedInv, SourceInv, OrderInv, [Next]_vars
  PROVE  OrderInv'
  <1> USE DEF OrderInv, Working
  <1>1. CASE ApplyStep
    <2> USE DEF TypeInv, Control, Places
    <2>1. CASE ApplyRefused \/ DownloadRefused \/ AbortDownload
      BY <2>1 DEF ApplyRefused, DownloadRefused, AbortDownload, Fail
    <2>2. CASE StartApply \/ TakePart \/ BeginDownload \/ Receive \/ Complete
      BY <2>2 DEF StartApply, TakePart, BeginDownload, Receive, Complete
    <2>3. CASE SkipPart
      <3>1. ~disturbed => pending # None /\ pending = confirmed
        BY <2>3, OtaAssumption DEF SkipPart, SourceInv
      <3>2. ~disturbed => IF part = "app" THEN appliedApp = confirmed ELSE appliedFs = UIOf[confirmed]
        BY <2>3, <3>1 DEF SkipPart, SkippedInv, Components
      <3> QED
        BY <2>3, <3>2 DEF SkipPart, Advance, Components
    <2>4. CASE StoreApplied
      <3>1. ~disturbed => pending # None /\ pending = confirmed
        BY <2>4, OtaAssumption DEF StoreApplied, SourceInv
      <3> QED
        BY <2>4, <3>1 DEF StoreApplied, Advance, Components
    <2>5. CASE FinishDownload
      BY <2>5 DEF FinishDownload, Fail
    <2> QED
      BY <1>1, <2>1, <2>2, <2>3, <2>4, <2>5 DEF ApplyStep
  <1>2. CASE Restart
    BY <1>2 DEF Restart
  <1>3. CASE ~ApplyStep /\ ~Restart /\ Working
    BY <1>3, OthersStay
  <1>4. CASE ~ApplyStep /\ ~Restart /\ ~Working
    BY <1>4, OthersKeepPlace
  <1> QED
    BY <1>1, <1>2, <1>3, <1>4

UpdateInv == SkippedInv /\ SourceInv /\ OrderInv

LEMMA UpdateInvariant == Spec => []UpdateInv
  <1>1. Init => UpdateInv
    BY DEF Init, RamInit, UpdateInv, SkippedInv, SourceInv, OrderInv, Working
  <1>2. TypeInv /\ UpdateInv /\ [Next]_vars => UpdateInv'
    BY SkippedStep, SourceStep, OrderStep DEF TypeInv, UpdateInv
  <1> QED
    BY <1>1, <1>2, TypeInvariant, PTL DEF Spec

\* An update that nobody disturbed and that reports "complete" has both components applied,
\* however checks, requests and uploads came in between.
THEOREM UpdatesAreComplete == Spec => []UpdateIsComplete
  <1>1. UpdateInv => UpdateIsComplete
    BY DEF UpdateInv, OrderInv, UpdateIsComplete
  <1> QED
    BY <1>1, UpdateInvariant, PTL

\* Hashes are stored only for what is in flash, unless the update was disturbed.
THEOREM StoredHashesNameTheFlash == Spec => HashesNameTheFlash
  <1>1. TypeInv /\ UpdateInv /\ [Next]_vars
        => [~disturbed => /\ appliedApp' # appliedApp => boot' = appliedApp'
                          /\ appliedFs' # appliedFs => ui' = appliedFs']_vars
    <2> SUFFICES ASSUME TypeInv, UpdateInv, [Next]_vars, ~disturbed
                 PROVE  /\ appliedApp' # appliedApp => boot' = appliedApp'
                        /\ appliedFs' # appliedFs => ui' = appliedFs'
      OBVIOUS
    <2>1. CASE StoreApplied
      BY <2>1 DEF StoreApplied, UpdateInv, SourceInv, Working
    <2>2. CASE ~StoreApplied
      <3>1. UNCHANGED <<appliedApp, appliedFs>>
        <4>1. CASE ApplyStep
          BY <2>2, <4>1 DEF ApplyStep, ApplyRefused, StartApply, SkipPart, TakePart, BeginDownload,
             DownloadRefused, Receive, AbortDownload, FinishDownload, Complete
        <4>2. CASE Restart
          BY <4>2 DEF Restart
        <4>3. CASE ~ApplyStep /\ ~Restart
          BY <4>3, OthersKeepPlace
        <4> QED
          BY <4>1, <4>2, <4>3
      <3> QED
        BY <3>1
    <2> QED
      BY <2>1, <2>2
  <1> QED
    BY <1>1, TypeInvariant, UpdateInvariant, PTL DEF Spec, HashesNameTheFlash

\* An update touches the web interface after the firmware, and nobody else touches it next to
\* an update without disturbing that.
THEOREM FirmwareIsFirst == Spec => FirmwareComesFirst
  <1>1. TypeInv /\ UpdateInv /\ [Next]_vars
        => [Working /\ ~disturbed' /\ ui' # ui => appliedApp = confirmed]_vars
    <2> SUFFICES ASSUME TypeInv, UpdateInv, [Next]_vars, Working, ~disturbed', ui' # ui
                 PROVE  appliedApp = confirmed
      OBVIOUS
    <2>1. ApplyStep
      BY OthersStay DEF Restart, BootFlash
    <2>2. CASE Receive \/ FinishDownload
      <3>0. pc.apply \in {"download", "received"} /\ ~disturbed
        <4>1. CASE Receive
          BY <4>1 DEF Receive
        <4>2. CASE FinishDownload
          <5>1. EndAccepts
            BY <4>2 DEF FinishDownload, EndUpdate
          <5> QED
            BY <4>2, <5>1 DEF FinishDownload
        <4> QED
          BY <2>2, <4>1, <4>2
      <3>1. update.kind = part
        BY <3>0 DEF UpdateInv, SourceInv, TypeInv, Writers
      <3>2. part = "fs"
        BY <2>2, <3>1 DEF Receive, FinishDownload, Write, EndUpdate, TypeInv, Control, Components
      <3> QED
        BY <3>0, <3>2 DEF UpdateInv, OrderInv
    <2>3. CASE ~(Receive \/ FinishDownload)
      BY <2>1, <2>3 DEF ApplyStep, ApplyRefused, StartApply, SkipPart, TakePart, BeginDownload,
         DownloadRefused, AbortDownload, StoreApplied, Complete, BeginUpdate, Abort
    <2> QED
      BY <2>2, <2>3
  <1> QED
    BY <1>1, TypeInvariant, UpdateInvariant, PTL DEF Spec, FirmwareComesFirst
-------------------------------------------------------------------------------
(***************************************************************************)
(* Installation.                                                           *)
(***************************************************************************)
\* Only a restart changes what runs.
LEMMA RunningStays ==
  ASSUME [Next]_vars, ~Restart
  PROVE  UNCHANGED fw
  <1>1. CASE LoopStep
    BY <1>1 DEF LoopStep, CheckStep, PassCheck, CheckOffline, StartCheck, FetchManifest, ProcessManifest,
       Report, NotesStep, PassNotes, FetchNotes, VerifyNotes, KeepNotes
  <1>2. CASE ApplyStep
    BY <1>2 DEF ApplyStep, ApplyRefused, StartApply, SkipPart, TakePart, BeginDownload, DownloadRefused, Receive,
       AbortDownload, FinishDownload, StoreApplied, Complete, BeginUpdate, Write, Abort, EndUpdate
  <1>3. CASE BeginService \/ WebStep
    BY <1>3 DEF BeginService, WebStep, ReadResult, Answer, Invalidate, Request, CheckNow, PollStatus,
       RequestNotes, SetIncludePrereleases, Apply
  <1>4. CASE \E c \in Clients : UploadStep(c)
    BY <1>4 DEF UploadStep, UploadFirst, UploadPart, UploadEnd, UploadLost, BeginUpdate, Write, EndUpdate
  <1>5. CASE UNCHANGED vars
    BY <1>5 DEF vars
  <1> QED
    BY <1>1, <1>2, <1>3, <1>4, <1>5 DEF Next

\* A step of the apply task is one of the installation, if nobody disturbed that.
LEMMA ApplyInstalls ==
  ASSUME TypeInv, UpdateInv, ApplyStep, pc.apply # "start", ~disturbed
  PROVE  Installed!Next \/ UNCHANGED Installed!vars
  <1> DEFINE record == [app |-> appliedApp, fs |-> appliedFs]
  <1> USE DEF Installed!Next, Installed!vars, Installed!flash, Working
  <1>0. pc \in Places /\ part \in {"app", "fs"} /\ confirmed \in Firmware \cup {None}
    BY DEF TypeInv, Control, Known, Components
  <1>1. ASSUME Fail, UNCHANGED <<fw, boot, ui, appliedApp, appliedFs>>, pc.apply # "complete"
        PROVE  Installed!Next \/ UNCHANGED Installed!vars
    <2>1. Stage' = "idle" /\ Target' = None
      BY <1>0, <1>1 DEF Fail, Stage, Target, Places
    <2>2. CASE Stage = "idle"
      BY <1>1, <2>1, <2>2 DEF Target
    <2>3. CASE Stage # "idle"
      BY <1>1, <2>1, <2>3 DEF Installed!Leave
    <2> QED
      BY <2>2, <2>3
  <1>2. CASE DownloadRefused \/ AbortDownload
    BY <1>1, <1>2 DEF DownloadRefused, AbortDownload, Abort
  <1>3. CASE ApplyRefused \/ StartApply
    BY <1>3 DEF ApplyRefused, StartApply
  <1>4. CASE SkipPart \/ StoreApplied
    <2>1. pending = confirmed /\ confirmed \in Firmware /\ confirmed # None /\ Stage = part
      BY <1>4, OtaAssumption DEF UpdateInv, SourceInv, SkipPart, StoreApplied, Stage
    <2>2. Target = confirmed
      BY <1>0, <2>1 DEF Target
    <2>3. UNCHANGED <<fw, boot, ui, confirmed>>
      BY <1>4 DEF SkipPart, StoreApplied
    <2>4. CASE part = "app"
      <3>1. appliedApp' = confirmed /\ appliedFs' = appliedFs /\ confirmed \in {appliedApp, boot}
        <4>1. CASE SkipPart
          BY <2>1, <2>4, <4>1 DEF SkipPart, UpdateInv, SkippedInv
        <4>2. CASE StoreApplied
          BY <2>1, <2>4, <4>2 DEF StoreApplied, UpdateInv, SourceInv
        <4> QED
          BY <1>4, <4>1, <4>2
      <3>2. Stage' = "fs" /\ Target' = confirmed
        BY <1>0, <1>4, <2>3, <2>4 DEF SkipPart, StoreApplied, Advance, Stage, Target, Places
      <3> QED
        BY <2>1, <2>2, <2>3, <2>4, <3>1, <3>2 DEF Installed!FirmwareDone
    <2>5. CASE part = "fs"
      <3>1. appliedFs' = UIOf[confirmed] /\ appliedApp' = appliedApp /\ UIOf[confirmed] \in {appliedFs, ui}
        <4>1. CASE SkipPart
          BY <2>1, <2>5, <4>1 DEF SkipPart, UpdateInv, SkippedInv
        <4>2. CASE StoreApplied
          BY <2>1, <2>5, <4>2 DEF StoreApplied, UpdateInv, SourceInv
        <4> QED
          BY <1>4, <4>1, <4>2
      <3>2. Stage' = "complete" /\ Target' = confirmed
        BY <1>0, <1>4, <2>3, <2>5 DEF SkipPart, StoreApplied, Advance, Stage, Target, Places
      <3> QED
        BY <2>1, <2>2, <2>3, <2>5, <3>1, <3>2 DEF Installed!UIDone
    <2> QED
      BY <1>0, <2>4, <2>5
  <1>5. CASE TakePart \/ BeginDownload
    BY <1>0, <1>5 DEF TakePart, BeginDownload, BeginUpdate, Stage, Target, Places
  <1>6. CASE Receive
    <2>1. Stage = part /\ Stage' = Stage /\ Target' = Target /\ update.kind = part
      BY <1>0, <1>6 DEF Receive, Stage, Target, Places, TypeInv, Writers, UpdateInv, SourceInv
    <2>2. UNCHANGED <<fw, appliedApp, appliedFs>>
      BY <1>6 DEF Receive, Write
    <2>3. CASE part = "app"
      BY <1>6, <2>1, <2>2, <2>3 DEF Receive, Write, Installed!WriteFirmware
    <2>4. CASE part = "fs"
      BY <1>6, <2>1, <2>2, <2>4 DEF Receive, Write, Installed!EraseUI
    <2> QED
      BY <1>0, <2>3, <2>4
  <1>7. CASE FinishDownload
    <2>1. update.kind = part /\ update.data = Image(confirmed, part) /\ Stage = part
      BY <1>7 DEF FinishDownload, TypeInv, Writers, UpdateInv, SourceInv, Stage
    <2>2. UNCHANGED <<fw, appliedApp, appliedFs>>
      BY <1>7 DEF FinishDownload, EndUpdate
    <2>3. CASE EndAccepts
      <3>1. pc'.apply = "store" /\ UNCHANGED <<part, confirmed>>
        BY <1>0, <1>7, <2>3 DEF FinishDownload, Places
      <3>2. Stage' = Stage /\ Target' = Target /\ Target = confirmed
        BY <1>0, <1>7, <2>1, <2>3, <3>1 DEF FinishDownload, Stage, Target
      <3>3. CASE part = "app"
        <4>1. boot' = confirmed /\ ui' = ui
          BY <1>7, <2>1, <2>3, <3>3 DEF FinishDownload, EndUpdate, Image
        <4> QED
          BY <2>1, <2>2, <3>2, <3>3, <4>1 DEF Installed!SwitchFirmware
      <3>4. CASE part = "fs"
        <4>1. ui' = UIOf[confirmed] /\ boot' = boot
          BY <1>7, <2>1, <2>3, <3>4 DEF FinishDownload, EndUpdate, Image
        <4> QED
          BY <2>1, <2>2, <3>2, <3>4, <4>1 DEF Installed!ReplaceUI
      <3> QED
        BY <1>0, <3>3, <3>4
    <2>4. CASE ~EndAccepts
      BY <1>1, <1>7, <2>2, <2>4 DEF FinishDownload, EndUpdate
    <2> QED
      BY <2>3, <2>4
  <1>8. CASE Complete
    <2>1. Stage = "complete" /\ Stage' = "idle" /\ Target' = None
      BY <1>0, <1>8 DEF Complete, Stage, Target, Places
    <2> QED
      BY <1>8, <2>1 DEF Complete, Installed!Leave
  <1> QED
    BY <1>2, <1>3, <1>4, <1>5, <1>6, <1>7, <1>8 DEF ApplyStep

\* The place of the apply task tells whether something is installed.
LEMMA StagePlaces ==
  ASSUME pc \in Places, part \in Components
  PROVE  /\ pc.apply \in {"idle", "start", "reboot"} => Stage = "idle" /\ Target = None
         /\ Working /\ ~disturbed => Stage = part /\ Target = confirmed
         /\ pc.apply = "complete" /\ ~disturbed => Stage = "complete" /\ Target = confirmed
         /\ Working \/ pc.apply = "complete" =>
              (disturbed => Stage = "disturbed" /\ Target = None)
         /\ pc.apply \in {"idle", "start", "reboot", "complete"} \/ Working
  BY DEF Places, Components, Working, Stage, Target

\* The apply task goes on whatever was done to it, to its end.
LEMMA DisturbedApply ==
  ASSUME TypeInv, TypeInv', ApplyStep, pc.apply # "start", disturbed
  PROVE  Installed!Next \/ UNCHANGED Installed!vars
  <1> USE DEF Installed!Next, Installed!vars, Installed!flash
  <1>0. /\ pc \in Places /\ part \in Components /\ pc' \in Places /\ part' \in Components
        /\ boot' \in Firmware /\ ui' \in UIs \cup {Broken}
        /\ appliedApp' \in Firmware \cup {None} /\ appliedFs' \in UIs \cup {None}
    BY DEF TypeInv, Control, Known, Writers, FlashTypeOK
  <1>1. Working \/ pc.apply = "complete"
    BY DEF Working, ApplyStep, ApplyRefused, StartApply, SkipPart, TakePart, BeginDownload, DownloadRefused,
       Receive, AbortDownload, FinishDownload, StoreApplied, Complete
  <1>2. Stage = "disturbed" /\ Target = None
    BY <1>0, <1>1, StagePlaces
  <1>3. CASE DownloadRefused \/ AbortDownload \/ Complete \/ (FinishDownload /\ ~EndAccepts)
    <2>1. pc'.apply \in {"idle", "reboot"} /\ UNCHANGED <<fw, boot, ui, appliedApp, appliedFs>>
      BY <1>0, <1>3 DEF DownloadRefused, AbortDownload, Complete, FinishDownload, Fail, Abort, EndUpdate, Places
    <2>2. Stage' = "idle" /\ Target' = None
      BY <2>1 DEF Stage, Target
    <2> QED
      BY <1>2, <2>1, <2>2 DEF Installed!Leave
  <1>4. CASE SkipPart \/ TakePart \/ BeginDownload \/ Receive \/ StoreApplied \/ (FinishDownload /\ EndAccepts)
    <2>1. /\ pc'.apply \in {"part", "connect", "download", "received", "store", "complete"}
          /\ disturbed' = disturbed /\ fw' = fw
      <3>1. CASE SkipPart \/ StoreApplied
        BY <1>0, <3>1 DEF SkipPart, StoreApplied, Advance, Places
      <3>2. CASE TakePart \/ BeginDownload \/ Receive \/ (FinishDownload /\ EndAccepts)
        BY <1>0, <3>2 DEF TakePart, BeginDownload, Receive, FinishDownload, BeginUpdate, Write, EndUpdate, Places
      <3> QED
        BY <1>4, <3>1, <3>2
    <2>2. Stage' = "disturbed" /\ Target' = None
      BY <1>0, <2>1 DEF Stage, Target, Working
    <2> QED
      BY <1>0, <1>2, <2>1, <2>2 DEF Installed!GoOnDisturbed
  <1> QED
    BY <1>3, <1>4 DEF ApplyStep, ApplyRefused, StartApply

\* The other tasks may overwrite the flash, or disturb what is installed.
LEMMA OthersInstall ==
  ASSUME TypeInv, TypeInv', UpdateInv, [Next]_vars, ~ApplyStep, ~Restart
  PROVE  Installed!Next \/ UNCHANGED Installed!vars
  <1> USE DEF Installed!Next, Installed!vars, Installed!flash
  <1>0. /\ pc \in Places /\ part \in Components /\ pc' \in Places /\ part' \in Components
        /\ boot' \in Firmware /\ ui' \in UIs \cup {Broken}
        /\ appliedApp' \in Firmware \cup {None} /\ appliedFs' \in UIs \cup {None}
    BY DEF TypeInv, Control, Known, Writers, FlashTypeOK
  <1>1. UNCHANGED <<fw, appliedApp, appliedFs, part, confirmed>>
    BY OthersKeepPlace, RunningStays
  <1>2. CASE Working /\ ~disturbed /\ ~disturbed'
    <2>1. UNCHANGED <<boot, ui>> /\ pc'.apply = pc.apply
      BY <1>2, OthersStay
    <2>2. Stage' = Stage /\ Target' = Target
      BY <1>1, <1>2, <2>1 DEF Stage, Target, Working
    <2> QED
      BY <1>1, <2>1, <2>2
  <1>3. CASE Working /\ ~disturbed /\ disturbed'
    <2>1. pc'.apply = pc.apply
      BY <1>3, OthersKeepPlace DEF Working
    <2>2. Stage \in {"app", "fs"}
      BY <1>0, <1>3, StagePlaces DEF Components
    <2>3. Stage' = "disturbed" /\ Target' = None
      BY <1>3, <2>1 DEF Stage, Target, Working
    <2> QED
      BY <1>0, <1>1, <2>2, <2>3 DEF Installed!Disturb
  <1>4. CASE (Working \/ pc.apply = "complete") /\ disturbed
    <2>1. pc'.apply = pc.apply /\ disturbed'
      BY <1>4, OthersKeepPlace DEF Working
    <2>2. Stage = "disturbed" /\ Target = None /\ Stage' = "disturbed" /\ Target' = None
      BY <1>4, <2>1 DEF Stage, Target, Working
    <2> QED
      BY <1>0, <1>1, <2>2 DEF Installed!GoOnDisturbed
  <1>5. CASE pc.apply = "complete" /\ ~disturbed
    <2>1. pc'.apply = pc.apply /\ ~disturbed'
      BY <1>5, OthersKeepPlace DEF Working
    <2>2. Stage = "complete" /\ Stage' = "complete" /\ Target' = Target
      BY <1>1, <1>5, <2>1 DEF Stage, Target, Working
    <2> QED
      BY <1>0, <1>1, <2>2 DEF Installed!Overwrite
  <1>6. CASE pc.apply \in {"idle", "start", "reboot"}
    <2>1. pc'.apply \in {"idle", "start", "reboot"}
      BY <1>6, OthersKeepPlace
    <2>2. Stage = "idle" /\ Stage' = "idle" /\ Target = None /\ Target' = None
      BY <1>6, <2>1 DEF Stage, Target
    <2> QED
      BY <1>0, <1>1, <2>2 DEF Installed!Overwrite
  <1> QED
    BY <1>0, <1>2, <1>3, <1>4, <1>5, <1>6, StagePlaces

\* So every step is one of the installation.
LEMMA InstallationStep ==
  ASSUME TypeInv, TypeInv', UpdateInv, [Next]_vars
  PROVE  Installed!Next \/ UNCHANGED Installed!vars
  <1> USE DEF Installed!Next, Installed!vars, Installed!flash
  <1>1. CASE Restart
    <2>1. Stage' = "idle" /\ Target' = None
      BY <1>1 DEF Restart, Stage, Target
    <2> QED
      BY <1>1, <2>1 DEF Restart, BootFlash, Installed!Restart
  <1>2. CASE ApplyStep /\ pc.apply = "start"
    <2>1. Stage = "idle" /\ Target = None
      BY <1>2 DEF Stage, Target
    <2>2. CASE StartApply
      <3>1. /\ pending \in Firmware /\ confirmed' = pending /\ part' = "app" /\ pc'.apply = "part"
            /\ ~disturbed' /\ UNCHANGED <<fw, boot, ui, appliedApp, appliedFs>>
        BY <2>2 DEF StartApply, TypeInv, Control, Known, Places
      <3>2. Stage' = "app" /\ Target' = pending
        BY <3>1 DEF Stage, Target, Working
      <3> QED
        BY <2>1, <3>1, <3>2 DEF Installed!Begin
    <2>3. CASE ApplyRefused
      <3>1. pc'.apply = "idle" /\ UNCHANGED <<fw, boot, ui, appliedApp, appliedFs>>
        BY <2>3 DEF ApplyRefused, Fail, TypeInv, Control, Places
      <3>2. Stage' = "idle" /\ Target' = None
        BY <3>1 DEF Stage, Target
      <3> QED
        BY <2>1, <3>1, <3>2
    <2> QED
      BY <1>2, <2>2, <2>3 DEF ApplyStep, SkipPart, TakePart, BeginDownload, DownloadRefused, Receive,
         AbortDownload, FinishDownload, StoreApplied, Complete
  <1>3. CASE ApplyStep /\ pc.apply # "start" /\ ~disturbed
    BY <1>3, ApplyInstalls
  <1>4. CASE ApplyStep /\ pc.apply # "start" /\ disturbed
    BY <1>4, DisturbedApply
  <1>5. CASE ~ApplyStep /\ ~Restart
    BY <1>5, OthersInstall
  <1> QED
    BY <1>1, <1>2, <1>3, <1>4, <1>5

\* Every step of checks, updates, uploads and restarts is one of an installation
\* (applyPendingUpdate, downloadVerifyAndFlash): whatever fails, is skipped or is cut by a
\* restart, and whatever the other tasks do to it.
THEOREM RefinesInstallation == Spec => ImplementsInstallation
  <1>1. Init => Installed!Init
    BY DEF Init, RamInit, Stage, Target, Installed!Init
  <1>2. TypeInv /\ TypeInv' /\ UpdateInv /\ [Next]_vars => [Installed!Next]_(Installed!vars)
    BY InstallationStep
  <1> QED
    BY <1>1, <1>2, TypeInvariant, UpdateInvariant, PTL DEF Spec, ImplementsInstallation, Installed!Spec
===============================================================================
