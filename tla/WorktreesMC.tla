----------------------------- MODULE WorktreesMC -----------------------------
(* Small instances of Worktrees for TLC. *)
EXTENDS Worktrees, TLC

CONSTANTS l1, l2

AnyLane == Permutations(Lanes)
=============================================================================
