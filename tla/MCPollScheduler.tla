---------------------------- MODULE MCPollScheduler ----------------------------
(***************************************************************************)
(* PollScheduler with a clock of Modulus ms: a datapoint whose interval is *)
(* truncated to 0 and so polled in every pass, one whose interval is most  *)
(* of the clock, and a write datapoint.                                    *)
(***************************************************************************)
EXTENDS PollScheduler

SomePoints == {"always", "seldom", "write"}
SomeIntervals == [always |-> 8, seldom |-> 6, write |-> 2]
===============================================================================
