-------------------------------- MODULE Flash ---------------------------------
(***************************************************************************)
(* The partitions an update goes to and the Arduino Update singleton that  *)
(* writes them, as HttpOtaService and OtaService use them.  There is one   *)
(* Update object for all tasks: whoever calls write() or end() acts on the *)
(* update that is running, whoever began it.                               *)
(*                                                                         *)
(* Firmware goes to the slot that is not running, and is booted only if    *)
(* end() accepts the image.  The web interface has one partition, and is   *)
(* overwritten while it downloads.                                         *)
(***************************************************************************)
CONSTANTS Firmware,  \* firmware images
          UIs,       \* file system images with the web interface
          None,      \* nothing
          Broken     \* a partition that holds no whole image

VARIABLES
  fw,      \* the firmware that is running
  boot,    \* the firmware a restart would run
  ui,      \* what the "spiffs" partition holds
  update   \* the Update singleton: what it writes, who began it, what was written

flashVars == <<fw, boot, ui, update>>

Stopped == [kind |-> None, by |-> None, data |-> None]
Running == update.kind # None

FlashTypeOK(writers) ==
  /\ fw \in Firmware /\ boot \in Firmware
  /\ ui \in UIs \cup {Broken}
  /\ update \in [kind : {"app", "fs", None}, by : writers \cup {None},
                 data : Firmware \cup UIs \cup {None, Broken}]
  /\ update.data \in {None, Broken} \cup (IF update.kind = "app" THEN Firmware ELSE UIs)

\* Update.begin, which fails while an update is running.
BeginUpdate(kind, who) ==
  /\ ~Running
  /\ update' = [kind |-> kind, by |-> who, data |-> None]
  /\ UNCHANGED <<fw, boot, ui>>

\* Update.write of a part of an image: parts of two images do not make one.  The
\* slot that is written cannot be booted, and the file system is gone.
Write(who, image) ==
  /\ Running
  /\ update' = [update EXCEPT !.data =
                  IF update.by = who /\ @ \in {None, image} THEN image ELSE Broken]
  /\ ui' = IF update.kind = "fs" THEN Broken ELSE ui
  /\ boot' = IF update.kind = "app" THEN fw ELSE boot
  /\ UNCHANGED fw

\* Update.abort: what was written stays where it is.
Abort ==
  /\ update' = Stopped
  /\ UNCHANGED <<fw, boot, ui>>

\* Update.end(true) succeeds: a firmware image is checked first, a file system is not.
EndAccepts == Running /\ update.data # None /\ (update.kind = "app" => update.data \in Firmware)

EndUpdate ==
  /\ update' = Stopped
  /\ boot' = IF EndAccepts /\ update.kind = "app" THEN update.data ELSE boot
  /\ ui' = IF EndAccepts /\ update.kind = "fs" THEN update.data ELSE ui
  /\ UNCHANGED fw

\* A restart runs the firmware that was made bootable, and forgets the update.
BootFlash ==
  /\ fw' = boot
  /\ update' = Stopped
  /\ UNCHANGED <<boot, ui>>
===============================================================================
