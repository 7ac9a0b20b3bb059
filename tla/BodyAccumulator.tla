---------------------------- MODULE BodyAccumulator ----------------------------
(***************************************************************************)
(* BodyAccumulator.cpp: the buffer in which a handler gathers the chunks   *)
(* of a request's body. A slot is None or holds a buffer of the announced  *)
(* length; bytes that have not arrived are Nul.                            *)
(***************************************************************************)
EXTENDS Naturals, Sequences

CONSTANTS None, Nul

Fresh(total) == [i \in 1 .. total |-> Nul]

\* The slot after a chunk: the first one allocates the buffer, if there is memory, and no
\* chunk writes beyond the announced length.
Accumulate(slot, data, index, total, granted) ==
  LET buffer == IF index # 0 THEN slot ELSE IF granted THEN Fresh(total) ELSE None
  IN IF buffer = None THEN None
     ELSE [i \in 1 .. total |-> IF i \in index + 1 .. index + Len(data)
                                THEN data[i - index] ELSE buffer[i]]

\* append() returns the buffer: it has one and the body is complete.
Complete(slot, data, index, total) == slot # None /\ index + Len(data) >= total
===============================================================================
