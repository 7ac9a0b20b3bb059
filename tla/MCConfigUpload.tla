---------------------------- MODULE MCConfigUpload -----------------------------
(***************************************************************************)
(* Small instances of ConfigUpload.                                        *)
(***************************************************************************)
EXTENDS ConfigUpload

CONSTANTS m1, m2, q1, q2, s1, a1

\* Bodies of different lengths, so that one can end inside or beyond another.
SomeLengths == [r \in {m1, m2, q1, q2, s1} |->
  CASE r = m1 -> 3 [] r = s1 -> 1 [] OTHER -> 2]

\* Bound: a behaviour with uploads of both files is not followed on.
Uploaded(kind, puts) ==
  latest[kind] # None \/ \E r \in puts : got[r] > 0 \/ answer[r] # None
OneFile == ~(Uploaded("modbus", ModbusPuts) /\ Uploaded("mqtt", MqttPuts))
===============================================================================
