---------------------------- MODULE TransportMC ----------------------------
(* A small instance of Transport for TLC. *)
EXTENDS Transport

CONSTANTS text, usage, thought

\* Deltas of one block with those of another in between, then two whole values.
Streams == <<text, thought, text, text>>
=============================================================================
