---------------------------- MODULE MCModbusManager ----------------------------
(***************************************************************************)
(* Small instances of ModbusManager.                                       *)
(***************************************************************************)
EXTENDS ModbusManager

CONSTANTS s1, s2, d1, d2, fast, slow

\* Two devices polled in turn, the second one also written through MQTT; and the second
\* one alone at another speed, on a bus that stays disabled until a client enables it.
TwoDevices == [enabled |-> TRUE, serial |-> fast, writes |-> {s2},
               devices |-> <<[slave |-> s1, reads |-> {d1}],
                             [slave |-> s2, reads |-> {d2}]>>]
OneDevice  == [enabled |-> FALSE, serial |-> slow, writes |-> {},
               devices |-> <<[slave |-> s2, reads |-> {d2}]>>]
SeveralConfigs == {TwoDevices, OneDevice}

Single   == [enabled |-> TRUE, serial |-> fast, writes |-> {s1},
             devices |-> <<[slave |-> s1, reads |-> {d1}]>>]
Disabled == [Single EXCEPT !.enabled = FALSE]
FewConfigs == {Single, Disabled}

\* A read, a write, a write without a value and a function executeCommand refuses.
SomeCommands == {[function |-> 3, hasValue |-> FALSE], [function |-> 6, hasValue |-> TRUE],
                 [function |-> 5, hasValue |-> FALSE], [function |-> 23, hasValue |-> FALSE]}
===============================================================================
