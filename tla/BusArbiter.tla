------------------------------ MODULE BusArbiter ------------------------------
(***************************************************************************)
(* What the RS-485 bus promises to the tasks that share it: one owner at a *)
(* time, who gives the bus up itself before anybody else gets it.  A reset *)
(* of the device takes the bus away from whoever had it.                   *)
(***************************************************************************)
CONSTANTS Users,    \* the tasks that share the bus
          Nobody    \* the owner of a free bus, no member of Users

VARIABLE owner

Init == owner = Nobody

Grant(u) == owner = Nobody /\ owner' = u

Yield(u) == owner = u /\ owner' = Nobody

Reset == owner' = Nobody

Next == Reset \/ \E u \in Users : Grant(u) \/ Yield(u)

Spec == Init /\ [][Next]_owner
===============================================================================
