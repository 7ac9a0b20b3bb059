----------------------------- MODULE StoredConfig ------------------------------
(***************************************************************************)
(* What uploading a configuration promises. An upload is confirmed in the  *)
(* one step in which the whole of it is in the file and is loaded; one     *)
(* that is not can damage the file, and nothing else. What runs changes    *)
(* with a confirmation, with a start, which loads what is in the file, and *)
(* when another task loads what it found in the file. Of an upload that is *)
(* spoilt nothing is promised.                                             *)
(***************************************************************************)
CONSTANTS Uploads,
          Document,   \* the configuration that each upload brings
          Configurations,   \* all that the file can hold
          Factory,    \* the configuration of a new gateway
          Loadable,   \* the configurations that load
          Loaders,    \* the other tasks that load the file at any time
          AtStartup,  \* a start loads the file when it ends, and only if it can, not when
                      \* it begins
          None        \* no configuration that anyone sent, no answer

VARIABLES
  stored,    \* the configuration in the file, or None
  loaded,    \* the configuration that runs, or None
  answered,  \* the answer to the last attempt of each upload: "ok", "failed" or None
  spoilt,    \* the uploads that got in each other's way, or failed without a trace
  read,      \* what each of the other loaders has found in the file, or None
  started    \* the start has ended

vars == <<stored, loaded, answered, spoilt, read, started>>

\* What runs after a load: of a configuration that does not load, the default, or what ran
\* before. Two loaders at a time can make a mixture.
Loads(configuration) ==
  {IF configuration \in Loadable THEN configuration
   ELSE IF AtStartup THEN loaded ELSE None} \cup {None : t \in Loaders}

Init ==
  /\ stored = Factory
  /\ loaded = IF AtStartup THEN None ELSE Factory
  /\ answered = [u \in Uploads |-> None]
  /\ spoilt = {}
  /\ read = [t \in Loaders |-> None]
  /\ started = FALSE

\* An upload is under way, or fails.
Attempt(u) ==
  /\ stored' \in {stored, None} \cup {c \in Configurations : u \in spoilt'}
  /\ \E result \in {None, "failed"} : answered' = [answered EXCEPT ![u] = result]
  /\ spoilt' \in SUBSET Uploads
  /\ UNCHANGED <<loaded, read, started>>

Confirm(u) ==
  /\ stored' = Document[u]
  /\ loaded' \in Loads(Document[u])
  /\ answered' = [answered EXCEPT ![u] = "ok"]
  /\ spoilt' \in SUBSET Uploads
  /\ UNCHANGED <<read, started>>

\* The last chunk of a spoilt upload: whatever is in the file then is loaded.
ConfirmSpoilt(u) ==
  /\ u \in spoilt'
  /\ stored' \in Configurations \cup {None}
  /\ loaded' \in Loads(stored') \cup {None}
  /\ answered' = [answered EXCEPT ![u] = "ok"]
  /\ spoilt' \in SUBSET Uploads
  /\ UNCHANGED <<read, started>>

Restart ==
  /\ started' = FALSE
  /\ IF AtStartup THEN loaded' = None ELSE loaded' \in Loads(stored)
  /\ read' = [t \in Loaders |-> None]
  /\ UNCHANGED <<stored, answered, spoilt>>

Start ==
  /\ ~started
  /\ started' = TRUE
  /\ IF AtStartup THEN loaded' \in Loads(stored) \cup {None : u \in spoilt} ELSE loaded' = loaded
  /\ UNCHANGED <<stored, answered, spoilt, read>>

\* Another task reads the file,
Read(t) ==
  /\ read' = [read EXCEPT ![t] = stored]
  /\ UNCHANGED <<stored, loaded, answered, spoilt, started>>

\* and sets what runs to what it read.
Load(t) ==
  /\ loaded' \in Loads(read[t])
  /\ read' = [read EXCEPT ![t] = None]
  /\ UNCHANGED <<stored, answered, spoilt, started>>

\* The task that takes the uploads loads the file for another request.
Reload ==
  /\ ~AtStartup
  /\ loaded' \in Loads(stored)
  /\ UNCHANGED <<stored, answered, spoilt, read, started>>

Next ==
  \/ \E u \in Uploads : Attempt(u) \/ Confirm(u) \/ ConfirmSpoilt(u)
  \/ \E t \in Loaders : Read(t) \/ Load(t)
  \/ Restart \/ Start \/ Reload

Spec == Init /\ [][Next]_vars
===============================================================================
