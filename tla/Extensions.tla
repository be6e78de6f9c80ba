----------------------------- MODULE Extensions -----------------------------
(***************************************************************************)
(* The rules of a session and the loop that asks them.  A contributor of   *)
(* the build registers one handler on one extension point; a session keeps *)
(* the contributors it has on in its record, and a run takes them when it  *)
(* starts.  At each point the loop asks the run's handlers in order of     *)
(* priority.  Every handler is awaited, so toggles, other runs and crashes *)
(* come between two answers of one dispatch.                               *)
(***************************************************************************)
EXTENDS Naturals

CONSTANTS
  None,
  Lanes,
  Contributors,  \* every contributor any build has shipped
  Shipped,       \* those of this build
  Default,       \* on where the session has chosen nothing
  Fits,          \* written against a contract that this build serves
  Point,         \* Contributors -> the point its handler is on
  Priority,      \* Contributors -> its band
  Rank           \* Contributors -> its place among the build's contributors

Points == {"request:before", "tool:before", "tool:after", "run:complete"}

ASSUME ContributorsAssumption ==
  /\ Default \subseteq Shipped
  /\ Shipped \subseteq Contributors
  /\ Fits \subseteq Contributors
  /\ Point \in [Contributors -> Points]
  /\ Priority \in [Contributors -> Nat]
  /\ Rank \in [Contributors -> Nat]
  /\ \A c, d \in Contributors : c # d => Rank[c] # Rank[d]

ASSUME NoneAssumption == None \notin Contributors

VARIABLES
  plugins,  \* the register session.plugins: whether anyone has chosen, and whom
  run       \* Lanes -> the run in the lane: where it is, its registry, the dispatch under way

extensionVars == <<plugins, run>>

StrikeLimit == 3

\* `asked` are the handlers that the dispatch is done with, `passed` those of them that let
\* the value through, `by` the one that put a substitute in its place.
NoRun == [at |-> "none", rules |-> {}, strikes |-> [c \in Contributors |-> 0],
          asked |-> {}, passed |-> {}, by |-> None]

ExtensionsInit ==
  /\ plugins \in {[chosen |-> FALSE, ids |-> {}],
                  [chosen |-> TRUE, ids |-> Contributors]}
  /\ run = [l \in Lanes |-> NoRun]

-----------------------------------------------------------------------------
(* The session's choice.                                                   *)

\* A name that this build no longer ships is passed over.
ActiveFor == IF plugins.chosen THEN plugins.ids \cap Shipped ELSE Default

Compatible(c) == c \in Shipped \cap Fits

EnablementWrites(c, on) ==
  [chosen |-> TRUE, ids |-> IF on THEN ActiveFor \cup {c} ELSE ActiveFor \ {c}]

SetPluginEnabled(c, on) ==
  /\ Compatible(c)
  /\ plugins' = EnablementWrites(c, on)
  /\ UNCHANGED run

-----------------------------------------------------------------------------
(* The registry of a run.                                                  *)

Before(c, d) ==
  \/ Priority[c] < Priority[d]
  \/ Priority[c] = Priority[d] /\ Rank[c] < Rank[d]

Disabled(r) == {c \in Contributors : r.strikes[c] >= StrikeLimit}

Standing(r) == {c \in r.rules : Point[c] = r.at} \ (Disabled(r) \cup r.asked)

IsNext(r, c) ==
  /\ c \in Standing(r)
  /\ \A d \in Standing(r) \ {c} : Before(c, d)

Dispatched(r, point) ==
  [r EXCEPT !.at = point, !.asked = {}, !.passed = {}, !.by = None]

\* What the loop does with the outcome of a dispatch.  It looks only for a refusal: a
\* replaced call goes on as it was asked.
Outcome(r, refused) ==
  CASE r.at = "request:before" /\ refused  -> Dispatched(r, "run:complete")
    [] r.at = "request:before" /\ ~refused -> [r EXCEPT !.at = "provider"]
    [] r.at = "tool:before" /\ refused     -> [r EXCEPT !.at = "calls"]
    [] r.at = "tool:before" /\ ~refused    -> [r EXCEPT !.at = "effect"]
    [] r.at = "tool:after"                 -> [r EXCEPT !.at = "calls"]
    [] OTHER                               -> NoRun

Continues(r, c) == [r EXCEPT !.asked = @ \cup {c}, !.passed = @ \cup {c}]
Refuses(r, c)   == Outcome(r, TRUE)
Replaces(r, c)  == Outcome([Continues(r, c) EXCEPT !.by = c], FALSE)

Strike(r, c) == [r EXCEPT !.strikes[c] = @ + 1]

\* Faulty: a failure is contained at every point alike.
FailsOpen(r, c) == [Strike(r, c) EXCEPT !.asked = @ \cup {c}]

\* It threw, or did not answer in time.  A gate that fails is closed.
Fails(r, c) ==
  IF r.at = "tool:before" THEN Outcome(Strike(r, c), TRUE)
  ELSE [Strike(r, c) EXCEPT !.asked = @ \cup {c}]

-----------------------------------------------------------------------------
(* A run.                                                                  *)

Step(l, from, r) ==
  /\ run[l].at = from
  /\ run' = [run EXCEPT ![l] = r]
  /\ UNCHANGED plugins

StartRun(l) == Step(l, "none", [NoRun EXCEPT !.at = "turn", !.rules = ActiveFor])

BeginTurn(l)    == Step(l, "turn", Dispatched(run[l], "request:before"))
Abort(l)        == Step(l, "turn", Dispatched(run[l], "run:complete"))
EndRun(l)       == Step(l, "provider", Dispatched(run[l], "run:complete"))
AskForTools(l)  == Step(l, "provider", [run[l] EXCEPT !.at = "calls"])
GateCall(l)     == Step(l, "calls", Dispatched(run[l], "tool:before"))
NextTurn(l)     == Step(l, "calls", [run[l] EXCEPT !.at = "turn"])
ToolReturns(l)  == Step(l, "effect", Dispatched(run[l], "tool:after"))

Dispatch(l) ==
  /\ run[l].at \in Points
  /\ \/ \E c \in Contributors :
          /\ IsNext(run[l], c)
          /\ \E r \in {Continues(run[l], c), Refuses(run[l], c),
                       Replaces(run[l], c), Fails(run[l], c)} : Step(l, run[l].at, r)
     \/ /\ Standing(run[l]) = {}
        /\ Step(l, run[l].at, Outcome(run[l], FALSE))

\* Registries live in memory.  Recovery answers what the run had under way and starts no loop.
Crash ==
  /\ \E l \in Lanes : run[l].at # "none"
  /\ run' = [l \in Lanes |-> NoRun]
  /\ UNCHANGED plugins

RunNext(l) ==
  \/ BeginTurn(l) \/ Abort(l) \/ EndRun(l) \/ AskForTools(l)
  \/ GateCall(l) \/ NextTurn(l) \/ ToolReturns(l) \/ Dispatch(l)

ExtensionsNext ==
  \/ \E l \in Lanes : StartRun(l) \/ RunNext(l)
  \/ \E c \in Contributors, on \in BOOLEAN : SetPluginEnabled(c, on)
  \/ Crash

ExtensionsSpec == ExtensionsInit /\ [][ExtensionsNext]_extensionVars

-----------------------------------------------------------------------------

Gates(r) == {c \in r.rules : Point[c] = "tool:before"}

\* A tool runs only if every rule that gates this run's calls let it through, unless that rule
\* had failed three times in this run or a handler before it substituted the call: a gate that
\* hangs, throws or is toggled meanwhile never lets one call pass.
GateHolds ==
  \A l \in Lanes : run[l].at = "effect" =>
    \A c \in Gates(run[l]) :
      \/ c \in run[l].passed
      \/ run[l].strikes[c] >= StrikeLimit
      \/ run[l].by # None /\ Before(run[l].by, c)

=============================================================================
