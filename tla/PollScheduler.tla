----------------------------- MODULE PollScheduler -----------------------------
(***************************************************************************)
(* When a datapoint is polled (ModbusPollScheduler.cpp and the pass of     *)
(* ModbusManager::loop that drives it).  millis() is a 32-bit counter that *)
(* starts over at Modulus (2^32 ms, 49.7 days); nextDueAtMs is an absolute *)
(* value of it and isDue compares the two as plain unsigned integers.      *)
(* A definition marked "Slip" is a plausible mistake in the one after it.  *)
(*                                                                         *)
(* era, passEra, polledEra and polledAt are history variables: how often   *)
(* millis() has started over, and when the pass that last polled a         *)
(* datapoint began.  They let the properties speak of the true time        *)
(* between two polls.                                                      *)
(***************************************************************************)
EXTENDS Integers

CONSTANTS Points,     \* the configured datapoints
          Writes,     \* those with a write function
          Asked,      \* the interval the configuration asks for, in milliseconds
          Modulus,    \* 2^32
          MaxStep,    \* longest time between two steps of the loop task
          Eras        \* how often millis() may start over before a behaviour ends

ASSUME SchedulerAssumption ==
  /\ Writes \subseteq Points
  /\ Asked \in [Points -> Nat]
  /\ Modulus \in Nat \ {0}
  /\ MaxStep \in 1..(Modulus - 1)
  /\ Eras \in Nat

VARIABLES millis,    \* millis()
          nextDue,   \* nextDueAtMs of each datapoint
          now,       \* the millis() that the running pass works with
          todo,      \* datapoints the running pass has not looked at
          era,       \* history: how often millis() has started over
          passEra,   \* history: era in which the running pass started
          polledEra, \* history: passEra of the last poll, or Never
          polledAt   \* history: now of the pass of the last poll

historyVars == <<era, passEra, polledEra, polledAt>>
vars == <<millis, nextDue, now, todo, historyVars>>

Never == -1

\* Slip: the counter is taken to reach Modulus itself.
PlusOneOver(a, b) == IF a + b <= Modulus THEN a + b ELSE a + b - Modulus

\* The sum of two unsigned 32-bit values.
Plus(a, b) == IF a + b < Modulus THEN a + b ELSE a + b - Modulus

\* pollIntervalMs: poll_interval_ms, or the seconds of poll_interval times 1000;
\* the product is truncated to 32 bits.
Interval(p) == Asked[p] % Modulus

TypeOK ==
  /\ millis \in 0..(Modulus - 1)
  /\ nextDue \in [Points -> 0..(Modulus - 1)]
  /\ now \in 0..(Modulus - 1)
  /\ todo \subseteq Points
  /\ era \in 0..Eras
  /\ passEra \in 0..Eras
  /\ polledEra \in [Points -> 0..Eras \cup {Never}]
  /\ polledAt \in [Points -> 0..(Modulus - 1)]

Init ==
  /\ millis = 0
  /\ nextDue = [p \in Points |-> 0]
  /\ now = 0
  /\ todo = {}
  /\ era = 0
  /\ passEra = 0
  /\ polledEra = [p \in Points |-> Never]
  /\ polledAt = [p \in Points |-> 0]

-------------------------------------------------------------------------------
\* Slip: strictly later than the due time.
IsDueLate(p, ms) == p \notin Writes /\ (Interval(p) = 0 \/ ms > nextDue[p])

IsDue(p, ms) ==
  /\ p \notin Writes
  /\ Interval(p) = 0 \/ ms >= nextDue[p]

\* Slip: the interval is counted from the old due time, which catches up a
\* blocked loop by polling in quick succession.
NextDueCatchUp(p, ms) == IF Interval(p) > 0 THEN Plus(nextDue[p], Interval(p)) ELSE 0

NextDue(p, ms) == IF Interval(p) > 0 THEN Plus(ms, Interval(p)) ELSE 0

-------------------------------------------------------------------------------
\* Time passes between the steps of the loop task: its delay(10), a transaction
\* that times out, an update check.
Elapse(d) ==
  /\ millis' = Plus(millis, d)
  /\ era' = IF millis + d < Modulus THEN era ELSE era + 1
  /\ era' <= Eras
  /\ UNCHANGED <<nextDue, now, todo, passEra, polledEra, polledAt>>

\* loop() reads millis() once per pass.
StartPass ==
  /\ todo = {}
  /\ now' = millis
  /\ passEra' = era
  /\ todo' = Points
  /\ UNCHANGED <<millis, nextDue, era, polledEra, polledAt>>

\* readModbusDevice had the bus: whatever the slave answered, the datapoint is
\* scheduled from the start of the pass.
Poll(p) ==
  /\ p \in todo
  /\ IsDue(p, now)
  /\ nextDue' = [nextDue EXCEPT ![p] = NextDue(p, now)]
  /\ polledEra' = [polledEra EXCEPT ![p] = passEra]
  /\ polledAt' = [polledAt EXCEPT ![p] = now]
  /\ todo' = todo \ {p}
  /\ UNCHANGED <<millis, now, era, passEra>>

\* Not due, or due while another task holds the bus.
Skip(p) ==
  /\ p \in todo
  /\ todo' = todo \ {p}
  /\ UNCHANGED <<millis, nextDue, now, historyVars>>

\* The configuration is loaded again: every datapoint starts over.
Reload ==
  /\ todo = {}
  /\ nextDue' = [p \in Points |-> 0]
  /\ polledEra' = [p \in Points |-> Never]
  /\ polledAt' = [p \in Points |-> 0]
  /\ UNCHANGED <<millis, now, todo, era, passEra>>

Next ==
  \/ \E d \in 1..MaxStep : Elapse(d)
  \/ StartPass
  \/ \E p \in Points : Poll(p) \/ Skip(p)
  \/ Reload

Spec == Init /\ [][Next]_vars

-------------------------------------------------------------------------------
(***************************************************************************)
(* Properties.  A pass can be late, so intervals are measured from pass to *)
(* pass, as the code schedules them.                                       *)
(***************************************************************************)
Polled(p) == polledEra[p] # Never

\* The running pass started less than ms milliseconds (ms < Modulus) after the
\* pass that last polled p.
Within(p, ms) ==
  \/ passEra = polledEra[p] /\ now - polledAt[p] < ms
  \/ passEra = polledEra[p] + 1 /\ Modulus + now - polledAt[p] < ms

\* millis() plus the interval still fitted into the counter at the last poll.
SumFitted(p) == polledAt[p] + Interval(p) < Modulus

\* The turn of the clock in which the interval since the last poll is over.
DueEra(p) == IF SumFitted(p) THEN polledEra[p] ELSE polledEra[p] + 1

\* A datapoint is due again only when its interval is over: a poll that comes too early is
\* always the work of a nextDueAtMs that overflowed, and none comes after millis() has
\* started over.
EarlyOnlyByOverflow ==
  \A p \in todo \ Writes :
    Polled(p) /\ Within(p, Interval(p)) /\ (SumFitted(p) \/ passEra # polledEra[p]) => ~IsDue(p, now)

\* A datapoint whose interval is over is due in every pass until millis() starts over after
\* that: a loop task that was blocked, or found the bus busy, forgets none.
LateOnlyByWrap ==
  \A p \in todo \ Writes :
    ~Polled(p) \/ (passEra = DueEra(p) /\ ~Within(p, Interval(p))) => IsDue(p, now)

\* "Optional per-datapoint poll interval" (ModbusConfigLoader.cpp:156): a datapoint
\* polled again has waited for at least its interval.
IntervalIsKept ==
  [][ \A p \in Points :
        Poll(p) /\ Polled(p) => ~Within(p, Interval(p)) ]_vars
===============================================================================
