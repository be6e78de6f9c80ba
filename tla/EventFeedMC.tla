---------------------------- MODULE EventFeedMC ----------------------------
(* Small instances of EventFeed for TLC. *)
EXTENDS EventFeed

CONSTANTS a, b

\* A block settles, then its run ends.
TextThenEnd == <<"ai_text", "run_finished">>

\* Nothing depends on which session is which.
AnySession == Permutations({a, b})
=============================================================================
