------------------------------ MODULE Choosing ------------------------------
(***************************************************************************)
(* The filter that the record, the conversation and their properties use.  *)
(* The library's SelectSeq says the same, but the provers do not expand    *)
(* it; a recursive function they do.                                       *)
(***************************************************************************)
EXTENDS Integers, Sequences

\* The elements of a sequence that are in a set, in their order.
Chosen(s, S) ==
  LET upTo[n \in 0 .. Len(s)] ==
        IF n = 0 THEN <<>> ELSE IF s[n] \in S THEN Append(upTo[n - 1], s[n]) ELSE upTo[n - 1]
  IN  upTo[Len(s)]
=============================================================================
