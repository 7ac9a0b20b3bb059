----------------------------- MODULE MCMqttSession -----------------------------
(***************************************************************************)
(* Small instances of MqttSession.                                         *)
(***************************************************************************)
EXTENDS MqttSession, Naturals

CONSTANTS b1, b2, r1, r0, w1, w2

\* Two brokers with a root each, and a file that does not parse.
ManySettings == {[enabled |-> TRUE, server |-> b1, root |-> r1],
                 [enabled |-> TRUE, server |-> b2, root |-> r0],
                 Unreadable}

FewSettings == {[enabled |-> TRUE, server |-> b1, root |-> r1],
                [enabled |-> TRUE, server |-> b1, root |-> r0],
                [enabled |-> FALSE, server |-> b1, root |-> r1]}

\* A device with discovery and one without, with different write datapoints.
SomeConfigs == {[writes |-> {w1, w2}, discovery |-> TRUE],
                [writes |-> {w2}, discovery |-> FALSE]}

\* Bound: two of the three tasks are at work at a time, and one while what a rebuild has mixed
\* up is not put right.
Busy == {t \in Callers : pc[t] # "home"} \cup {t \in {"loop"} : pc.loop \notin {"boot", "run"}}

FewAtWork == Cardinality(Busy) <= IF mixed THEN 1 ELSE 2
===============================================================================
