------------------------------ MODULE MCHttpOta -------------------------------
(***************************************************************************)
(* Small instances of HttpOta.                                             *)
(***************************************************************************)
EXTENDS HttpOta, TLC

CONSTANTS r1, r2, r3, u1, u2, c1

\* The release r1, a prerelease r2 of the next version, and that version, r3, which has
\* the web interface of r1 again.
SomeVersions == (r1 :> 1) @@ (r2 :> 2) @@ (r3 :> 2)
SomeUIs == (r1 :> u1) @@ (r2 :> u2) @@ (r3 :> u1)

\* A client uploads the new web interface. (The firmware is uploaded in the same way.)
SomeUploads == {[kind |-> "fs", image |-> u2]}
Uploading == \E c \in Clients : upload[c] # NoUpload
Busy == applying \/ pc.apply = "reboot"

\* No update at work: the task could not be created, or waits for the restart.
Idling == Busy /\ pc.apply \in {"idle", "reboot"}

\* The bounds of the run.  A behaviour is not followed on from a state with an update that was
\* disturbed; with the status or the notes asked for next to an update or an upload; with the
\* status read when no request is watched; with a check next to an upload; or with others
\* than loop() at work next to an update that is not.  Such a state is still checked.
FewThingsAtOnce ==
  /\ ~disturbed
  /\ Busy \/ Uploading => watched = "none" /\ pc.web \in {"idle", "invalidate"} /\ ~notesRequested
  /\ pc.web \in {"status", "answer"} => watched # "none" \/ stale
  /\ Uploading \/ Idling => pc.loop \in {"setup", "idle", "notes"}
  /\ Idling => ~Uploading /\ pc.web = "idle"
===============================================================================
