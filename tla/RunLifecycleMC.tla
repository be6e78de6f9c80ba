--------------------------- MODULE RunLifecycleMC ---------------------------
(* Small instances of RunLifecycle for TLC. *)
EXTENDS RunLifecycle, TLC

CONSTANTS w1, w2

AnyWorker == Permutations(Workers)
=============================================================================
