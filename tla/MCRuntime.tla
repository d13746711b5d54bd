------------------------------ MODULE MCRuntime ------------------------------
\* Instances of Runtime: one /run --bg job and submitted tasks of one name.
EXTENDS Runtime, TLC
CONSTANTS t1, t2, t3, probe
MCTracked == {t1}
MCNameOf == [t \in {t2, t3} |-> probe]
Symmetry == Permutations({t2, t3})
=============================================================================
