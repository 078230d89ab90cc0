------------------------------- MODULE MCScan -------------------------------
\* Scan for model checking: two keys of one master, with a slot of no key
\* between them, and one key of another master.
EXTENDS Scan

CONSTANTS k1, k2, k3, m1, m2

MCHome == [k \in ScanKeys |-> CASE k = k1 -> <<m1, 1>> [] k = k2 -> <<m1, 3>> [] k = k3 -> <<m2, 2>>]
=============================================================================
