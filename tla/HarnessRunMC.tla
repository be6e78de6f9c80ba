---------------------------- MODULE HarnessRunMC ----------------------------
(* Small instances of HarnessRun for TLC. *)
EXTENDS HarnessRun

CONSTANTS main, review, first, again

\* Every run in one lane, so one after another.
OneLane == [r \in Runs |-> main]

\* One run is alone in `review`; with two runs, both lanes are busy at once.
TwoLanes == [r \in Runs |-> IF r = CHOOSE q \in Runs : TRUE THEN main ELSE review]

\* A narrated call under the id an earlier one took; any other call under its own.
OneRepeats == [c \in Calls |-> IF c = again THEN first ELSE c]
=============================================================================
