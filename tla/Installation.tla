----------------------------- MODULE Installation ------------------------------
(***************************************************************************)
(* What an update promises: it is of one release from beginning to end,    *)
(* brings the firmware first and the web interface when that is done, each *)
(* as a whole image or not at all, and records a component only when it is *)
(* in flash. It may be given up, or cut by a restart, at any point. While  *)
(* nothing is installed, others may write to the flash. An installation    *)
(* that others disturb promises nothing until it is left.                  *)
(***************************************************************************)
CONSTANTS Firmware,  \* firmware images, which stand for their releases
          UIs,       \* images of the web interface
          UIOf,      \* the web interface of a release
          None,
          Broken     \* no whole image

VARIABLES
  running,  \* the firmware that runs
  boot,     \* the firmware a restart would run
  ui,       \* the web interface in flash
  record,   \* what is recorded as installed
  target,   \* the release that is installed now, or None
  stage     \* how far that has got

flash == <<running, boot, ui>>
vars == <<flash, record, target, stage>>

Init ==
  /\ running \in Firmware /\ boot = running /\ ui = UIOf[running]
  /\ record = [app |-> None, fs |-> None]
  /\ target = None /\ stage = "idle"

Begin(release) ==
  /\ stage = "idle"
  /\ target' = release /\ stage' = "app"
  /\ UNCHANGED <<flash, record>>

\* The slot for the next firmware cannot be booted while it is written ...
WriteFirmware ==
  /\ stage = "app"
  /\ boot' = running
  /\ UNCHANGED <<running, ui, record, target, stage>>

\* ... and can when it holds the whole image.
SwitchFirmware ==
  /\ stage = "app"
  /\ boot' = target
  /\ UNCHANGED <<running, ui, record, target, stage>>

\* Firmware that is on record is not brought again.
FirmwareDone ==
  /\ stage = "app"
  /\ target \in {record.app, boot}
  /\ record' = [record EXCEPT !.app = target]
  /\ stage' = "fs"
  /\ UNCHANGED <<flash, target>>

\* There is one place for the web interface.
EraseUI ==
  /\ stage = "fs"
  /\ ui' = Broken
  /\ UNCHANGED <<running, boot, record, target, stage>>

ReplaceUI ==
  /\ stage = "fs"
  /\ ui' = UIOf[target]
  /\ UNCHANGED <<running, boot, record, target, stage>>

UIDone ==
  /\ stage = "fs"
  /\ UIOf[target] \in {record.fs, ui}
  /\ record' = [record EXCEPT !.fs = UIOf[target]]
  /\ stage' = "complete"
  /\ UNCHANGED <<flash, target>>

\* Others change what is being installed, or where ...
Disturb ==
  /\ stage \in {"app", "fs"}
  /\ boot' \in Firmware /\ ui' \in UIs \cup {Broken}
  /\ target' = None /\ stage' = "disturbed"
  /\ UNCHANGED <<running, record>>

\* ... and it may leave anything behind.
GoOnDisturbed ==
  /\ stage = "disturbed"
  /\ boot' \in Firmware /\ ui' \in UIs \cup {Broken}
  /\ record' \in [app : Firmware \cup {None}, fs : UIs \cup {None}]
  /\ UNCHANGED <<running, target, stage>>

\* The installation is complete, or given up.
Leave ==
  /\ stage # "idle"
  /\ target' = None /\ stage' = "idle"
  /\ UNCHANGED <<flash, record>>

Overwrite ==
  /\ stage \in {"idle", "complete"}
  /\ boot' \in Firmware /\ ui' \in UIs \cup {Broken}
  /\ UNCHANGED <<running, record, target, stage>>

Restart ==
  /\ running' = boot
  /\ target' = None /\ stage' = "idle"
  /\ UNCHANGED <<boot, ui, record>>

Next ==
  \/ \E release \in Firmware : Begin(release)
  \/ WriteFirmware \/ SwitchFirmware \/ FirmwareDone
  \/ EraseUI \/ ReplaceUI \/ UIDone
  \/ Disturb \/ GoOnDisturbed \/ Leave \/ Overwrite \/ Restart

Spec == Init /\ [][Next]_vars
===============================================================================
