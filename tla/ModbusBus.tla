------------------------------- MODULE ModbusBus -------------------------------
(***************************************************************************)
(* The RS-485 bus of the gateway (ModbusBus.cpp): the flags every task     *)
(* reads and writes (_active, _initialized, _busy), the settings the UART  *)
(* runs with, the direction pin of the transceiver and the one ModbusMaster*)
(* object that all transactions go through.                                *)
(*                                                                         *)
(* Every operator is what one call does to that state; the tasks that make *)
(* the calls are in ModbusManager.  A definition marked "Slip" is a        *)
(* plausible mistake in the one after it: the properties must notice it.   *)
(***************************************************************************)
EXTENDS Naturals, Sequences

CONSTANTS Slaves,     \* slave addresses
          Serials,    \* line settings (baud rate and format)
          None        \* no slave, no settings

ASSUME BusAssumption == None \notin Slaves /\ None \notin Serials

VARIABLES active,       \* _active: regular polling is switched on
          initialized,  \* _initialized: the UART was set up once
          busy,         \* _busy: a Guard owns the bus
          serial,       \* the settings Serial1.begin was last called with
          driving,      \* RS485_DERE_PIN is high: this end drives the line
          node          \* the ModbusMaster: its slave, and who filled its response buffer

busVars == <<active, initialized, busy, serial, driving, node>>

BusTypeOK ==
  /\ active \in BOOLEAN
  /\ initialized \in BOOLEAN
  /\ busy \in BOOLEAN
  /\ serial \in Serials \cup {None}
  /\ driving \in BOOLEAN
  /\ node \in [slave : Slaves \cup {None}, reply : Slaves \cup {None}]

BusInit ==
  /\ active = FALSE
  /\ initialized = FALSE
  /\ busy = FALSE
  /\ serial = None
  /\ driving = FALSE
  /\ node = [slave |-> None, reply |-> None]

\* A restart of the chip: every field gets its initial value again.
BusReset ==
  /\ active' = FALSE
  /\ initialized' = FALSE
  /\ busy' = FALSE
  /\ serial' = None
  /\ driving' = FALSE
  /\ node' = [slave |-> None, reply |-> None]

-------------------------------------------------------------------------------
\* begin() and initializeWiring(): no look at _busy.
BeginBus(settings) ==
  /\ serial' = settings
  /\ driving' = FALSE
  /\ initialized' = TRUE
  /\ UNCHANGED <<active, busy, node>>

SetActive(enabled) ==
  /\ active' = enabled
  /\ UNCHANGED <<initialized, busy, serial, driving, node>>

\* Slip: a store instead of the compare-and-swap.
AcquireUnchecked ==
  /\ busy' = TRUE
  /\ UNCHANGED <<active, initialized, serial, driving, node>>

\* acquire(): the compare-and-swap that succeeds, and the one that fails.
Acquire ==
  /\ ~busy
  /\ busy' = TRUE
  /\ UNCHANGED <<active, initialized, serial, driving, node>>

AcquireFails == busy /\ UNCHANGED busVars

\* ~Guard(): the owner's release().
Release ==
  /\ busy' = FALSE
  /\ UNCHANGED <<active, initialized, serial, driving, node>>

\* ModbusMaster::begin: later transactions address this slave.
NodeBegin(slave) ==
  /\ node' = [node EXCEPT !.slave = slave]
  /\ UNCHANGED <<active, initialized, busy, serial, driving>>

PreTransmission ==
  /\ driving' = TRUE
  /\ UNCHANGED <<active, initialized, busy, serial, node>>

\* Slip: the direction pin is left high.
PostTransmissionStuck == UNCHANGED busVars

PostTransmission ==
  /\ driving' = FALSE
  /\ UNCHANGED <<active, initialized, busy, serial, node>>

\* The addressed slave answers: the response buffer holds its words.
Answer ==
  /\ node' = [node EXCEPT !.reply = node.slave]
  /\ UNCHANGED <<active, initialized, busy, serial, driving>>

\* A timeout, a bad checksum or an exception response.
NoAnswer ==
  /\ node' = [node EXCEPT !.reply = None]
  /\ UNCHANGED <<active, initialized, busy, serial, driving>>
===============================================================================
