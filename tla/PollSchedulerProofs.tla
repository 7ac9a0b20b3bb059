-------------------------- MODULE PollSchedulerProofs --------------------------
(***************************************************************************)
(* Theorems about PollScheduler for any width of millis(), any datapoints  *)
(* and intervals, any length of a pass.                                    *)
(*                                                                         *)
(* The properties relate nextDueAtMs to the time that has really passed.   *)
(* They follow from what Scheduled says: nextDueAtMs is a function of the  *)
(* pass that last polled the datapoint, and passes are ordered in time.    *)
(***************************************************************************)
EXTENDS PollScheduler, TLAPS

USE SchedulerAssumption

\* Unsigned addition stays in the range of the counter.
LEMMA PlusInRange ==
  ASSUME NEW a \in 0..(Modulus - 1), NEW b \in 0..(Modulus - 1)
  PROVE  Plus(a, b) \in 0..(Modulus - 1)
  BY DEF Plus

\* Truncation to the width of pollIntervalMs.
LEMMA IntervalInRange ==
  ASSUME NEW p \in Points
  PROVE  Interval(p) \in 0..(Modulus - 1)
  BY DEF Interval

\* What scheduleNext stores.
LEMMA NextDueInRange ==
  ASSUME NEW p \in Points, NEW ms \in 0..(Modulus - 1)
  PROVE  NextDue(p, ms) \in 0..(Modulus - 1)
  <1>1. Interval(p) \in 0..(Modulus - 1)
    BY IntervalInRange
  <1>2. Plus(ms, Interval(p)) \in 0..(Modulus - 1)
    BY <1>1, PlusInRange
  <1> QED
    BY <1>2 DEF NextDue

-------------------------------------------------------------------------------
\* The counter and every value derived from it stay in the range of 32 bits.
THEOREM TypeCorrect == Spec => []TypeOK
  <1>1. Init => TypeOK
    BY DEF Init, TypeOK
  <1>2. TypeOK /\ [Next]_vars => TypeOK'
    <2> SUFFICES ASSUME TypeOK, [Next]_vars
                 PROVE  TypeOK'
      OBVIOUS
    <2> USE DEF TypeOK, historyVars
    <2>1. ASSUME NEW d \in 1..MaxStep, Elapse(d) PROVE TypeOK'
      <3>1. d \in 0..(Modulus - 1)
        OBVIOUS
      <3>2. millis' \in 0..(Modulus - 1)
        BY <2>1, <3>1, PlusInRange DEF Elapse
      <3>3. era' \in 0..Eras
        BY <2>1 DEF Elapse
      <3> QED
        BY <2>1, <3>2, <3>3 DEF Elapse
    <2>2. CASE StartPass
      BY <2>2 DEF StartPass
    <2>3. ASSUME NEW p \in Points, Poll(p) PROVE TypeOK'
      BY <2>3, NextDueInRange DEF Poll
    <2>4. ASSUME NEW p \in Points, Skip(p) PROVE TypeOK'
      BY <2>4 DEF Skip
    <2>5. CASE Reload
      BY <2>5 DEF Reload
    <2>6. CASE UNCHANGED vars
      BY <2>6 DEF vars
    <2> QED
      BY <2>1, <2>2, <2>3, <2>4, <2>5, <2>6 DEF Next
  <1> QED
    BY <1>1, <1>2, PTL DEF Spec

-------------------------------------------------------------------------------
\* The inductive invariant behind both properties.
Scheduled ==
  \* the running pass does not lie in the future
  /\ passEra < era \/ (passEra = era /\ now <= millis)
  /\ \A p \in Points :
       IF Polled(p)
       THEN \* the last poll belongs to this pass or an earlier one
            /\ polledEra[p] < passEra \/ (polledEra[p] = passEra /\ polledAt[p] <= now)
            /\ nextDue[p] = NextDue(p, polledAt[p])
       ELSE nextDue[p] = 0

\* Every step keeps it.
LEMMA ScheduledStep ==
  ASSUME TypeOK, Scheduled, [Next]_vars
  PROVE  Scheduled'
  <1> USE DEF TypeOK, historyVars, Scheduled, Polled, Never
  <1>1. ASSUME NEW d \in 1..MaxStep, Elapse(d) PROVE Scheduled'
    BY <1>1 DEF Elapse, Plus, NextDue, Interval
  <1>2. CASE StartPass
    BY <1>2 DEF StartPass, NextDue, Interval, Plus
  <1>3. ASSUME NEW p \in Points, Poll(p) PROVE Scheduled'
    BY <1>3 DEF Poll
  <1>4. ASSUME NEW p \in Points, Skip(p) PROVE Scheduled'
    BY <1>4 DEF Skip
  <1>5. CASE Reload
    BY <1>5 DEF Reload
  <1>6. CASE UNCHANGED vars
    BY <1>6 DEF vars
  <1> QED
    BY <1>1, <1>2, <1>3, <1>4, <1>5, <1>6 DEF Next

\* The strengthening is an invariant.
THEOREM AlwaysScheduled == Spec => []Scheduled
  <1>1. Init => Scheduled
    BY DEF Init, Scheduled, Polled, Never
  <1> QED
    BY <1>1, TypeCorrect, ScheduledStep, PTL DEF Spec

\* A datapoint is polled before its interval is over only when the sum of millis()
\* and the interval overflowed, and only until millis() starts over.
LEMMA EarlyFollows == TypeOK /\ Scheduled => EarlyOnlyByOverflow
  <1> SUFFICES ASSUME TypeOK, Scheduled, NEW p \in todo \ Writes,
                      Polled(p), Within(p, Interval(p)),
                      SumFitted(p) \/ passEra # polledEra[p]
               PROVE  ~IsDue(p, now)
    BY DEF EarlyOnlyByOverflow
  <1>1. p \in Points /\ Interval(p) \in 0..(Modulus - 1)
    BY IntervalInRange DEF TypeOK
  <1>2. nextDue[p] = NextDue(p, polledAt[p])
    BY <1>1 DEF Scheduled
  <1>3. /\ polledAt[p] \in 0..(Modulus - 1) /\ now \in 0..(Modulus - 1)
        /\ polledEra[p] \in Int /\ passEra \in Int
    BY <1>1 DEF TypeOK, Never
  <1>4. Interval(p) > 0
    BY <1>1, <1>3 DEF Scheduled, Within, Polled
  <1>5. CASE SumFitted(p)
    <2>1. nextDue[p] = polledAt[p] + Interval(p)
      BY <1>1, <1>2, <1>4, <1>5 DEF NextDue, Plus, SumFitted
    <2> QED
      BY <1>1, <1>3, <1>4, <1>5, <2>1 DEF IsDue, Within, SumFitted
  <1>6. CASE ~SumFitted(p)
    <2>1. nextDue[p] = polledAt[p] + Interval(p) - Modulus
      BY <1>1, <1>2, <1>4, <1>6 DEF NextDue, Plus, SumFitted
    <2>2. Modulus + now - polledAt[p] < Interval(p)
      BY <1>6 DEF Within
    <2> QED
      BY <1>1, <1>3, <1>4, <2>1, <2>2 DEF IsDue
  <1> QED
    BY <1>5, <1>6

THEOREM EarlyPollsAreOverflows == Spec => []EarlyOnlyByOverflow
  BY EarlyFollows, TypeCorrect, AlwaysScheduled, PTL

\* How far the configured interval is kept: IntervalIsKept for every poll but those between
\* an overflow of the sum and the moment at which millis() starts over.
THEOREM IntervalKeptElsewhere ==
  Spec => [][ \A p \in Points :
                Poll(p) /\ Polled(p) /\ (SumFitted(p) \/ passEra # polledEra[p])
                  => ~Within(p, Interval(p)) ]_vars
  <1>1. EarlyOnlyByOverflow =>
          \A p \in Points :
            Poll(p) /\ Polled(p) /\ (SumFitted(p) \/ passEra # polledEra[p])
              => ~Within(p, Interval(p))
    BY DEF EarlyOnlyByOverflow, Poll, IsDue
  <1> QED
    BY <1>1, EarlyPollsAreOverflows, PTL

\* An interval that is over makes its datapoint due until millis() starts over after that.
THEOREM NoPollIsLate == Spec => []LateOnlyByWrap
  <1>1. TypeOK /\ Scheduled => LateOnlyByWrap
    <2> SUFFICES ASSUME TypeOK, Scheduled, NEW p \in todo \ Writes,
                        ~Polled(p) \/ (passEra = DueEra(p) /\ ~Within(p, Interval(p)))
                 PROVE  IsDue(p, now)
      BY DEF LateOnlyByWrap
    <2>1. p \in Points /\ Interval(p) \in 0..(Modulus - 1)
      BY IntervalInRange DEF TypeOK
    <2>2. /\ now \in 0..(Modulus - 1) /\ polledAt[p] \in 0..(Modulus - 1)
          /\ passEra \in Int /\ polledEra[p] \in Int
      BY <2>1 DEF TypeOK, Never
    <2>3. CASE ~Polled(p)
      BY <2>1, <2>2, <2>3 DEF Scheduled, IsDue
    <2>4. CASE Polled(p) /\ passEra = DueEra(p) /\ ~Within(p, Interval(p)) /\ SumFitted(p)
      <3>1. polledAt[p] <= now /\ nextDue[p] = NextDue(p, polledAt[p])
        BY <2>1, <2>2, <2>4 DEF Scheduled, DueEra
      <3>2. now - polledAt[p] >= Interval(p)
        BY <2>1, <2>2, <2>4 DEF Within, DueEra
      <3>3. nextDue[p] <= now
        BY <2>1, <2>2, <3>1, <3>2 DEF NextDue, Plus
      <3> QED
        BY <2>1, <2>2, <3>3 DEF IsDue
    <2>5. CASE Polled(p) /\ passEra = DueEra(p) /\ ~Within(p, Interval(p)) /\ ~SumFitted(p)
      <3>1. nextDue[p] = NextDue(p, polledAt[p])
        BY <2>1, <2>5 DEF Scheduled
      <3>2. Modulus + now - polledAt[p] >= Interval(p)
        BY <2>1, <2>2, <2>5 DEF Within, DueEra
      <3>3. Interval(p) > 0
        BY <2>1, <2>2, <2>5 DEF SumFitted
      <3>4. nextDue[p] = polledAt[p] + Interval(p) - Modulus
        BY <2>1, <2>2, <2>5, <3>1, <3>3 DEF NextDue, Plus, SumFitted
      <3> QED
        BY <2>1, <2>2, <3>2, <3>4 DEF IsDue
    <2> QED
      BY <2>3, <2>4, <2>5
  <1> QED
    BY <1>1, TypeCorrect, AlwaysScheduled, PTL
===============================================================================
