---------------------------- MODULE ProjectionMC ----------------------------
EXTENDS Projection, TLC
CONSTANTS o1, o2
AnyRepair == Permutations(Repairs)
=============================================================================
