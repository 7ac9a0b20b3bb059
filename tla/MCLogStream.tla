------------------------------ MODULE MCLogStream ------------------------------
EXTENDS LogStream

CONSTANTS c1, c2

MCClients == {c1, c2}

\* The clients of two clients are interchangeable.
Symmetry == Permutations(MCClients)
===============================================================================
