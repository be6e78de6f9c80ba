---------------------------- MODULE SupervisorMC ----------------------------
EXTENDS Supervisor, TLC
CONSTANTS p1, p2, t1, t2, t3, m1, m2
AnyOne == Permutations({p1, p2}) \cup Permutations({t1, t2, t3}) \cup Permutations({m1, m2})
=============================================================================
