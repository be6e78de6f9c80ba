------------------------------ MODULE ToolLedger ------------------------------
(***************************************************************************)
(* What the harness promises about the tool calls of a run, crash or no    *)
(* crash: a call is begun at most once, it gets exactly one answer and is  *)
(* not begun after it, and a run does not end while it owes an answer.     *)
(***************************************************************************)
CONSTANTS Runs, Calls

VARIABLES
  run,       \* "absent", "open" or "ended"
  owed,      \* the calls of each run's turn still without an answer
  begun,     \* the calls whose tool was started
  answered   \* the calls with an answer

vars == <<run, owed, begun, answered>>

Fresh(c) == c \notin answered /\ \A q \in Runs : c \notin owed[q]

Init ==
  /\ run = [r \in Runs |-> "absent"]
  /\ owed = [r \in Runs |-> {}]
  /\ begun = {} /\ answered = {}

Open(r) ==
  /\ run[r] = "absent"
  /\ run' = [run EXCEPT ![r] = "open"]
  /\ UNCHANGED <<owed, begun, answered>>

\* A turn asks for calls only when the previous turn's are all answered.
Plan(r, S) ==
  /\ run[r] = "open" /\ owed[r] = {} /\ \A c \in S : Fresh(c)
  /\ owed' = [owed EXCEPT ![r] = S]
  /\ UNCHANGED <<run, begun, answered>>

Begin(r, c) ==
  /\ c \in owed[r] /\ c \notin begun
  /\ begun' = begun \cup {c}
  /\ UNCHANGED <<run, owed, answered>>

Answer(r, c) ==
  /\ c \in owed[r]
  /\ owed' = [owed EXCEPT ![r] = @ \ {c}]
  /\ answered' = answered \cup {c}
  /\ UNCHANGED <<run, begun>>

End(r) ==
  /\ run[r] = "open" /\ owed[r] = {}
  /\ run' = [run EXCEPT ![r] = "ended"]
  /\ UNCHANGED <<owed, begun, answered>>

Next == \E r \in Runs :
  \/ Open(r) \/ End(r)
  \/ \E S \in SUBSET Calls : Plan(r, S)
  \/ \E c \in Calls : Begin(r, c) \/ Answer(r, c)

Spec == Init /\ [][Next]_vars
=============================================================================
