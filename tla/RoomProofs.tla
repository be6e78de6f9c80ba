----------------------------- MODULE RoomProofs -----------------------------
(***************************************************************************)
(* The rules, the skills and the feed of a session, for any members, lanes,*)
(* contributors, skills, threads and budgets.                              *)
(*                                                                         *)
(* Rules: while a call's gate is under way, the handlers that the dispatch *)
(* is done with have all let the call through (GateUnderWay); each step of *)
(* the room is one of Extensions or leaves the rules alone.                *)
(* Skills: a body leaves a directory only for the graveyard, or because it *)
(* was to be replaced (SkillStepKeeps).                                    *)
(* Feed: a row is announced by the thread that made it, and its removal is *)
(* the last word on it unless it came first (People); what was last changed*)
(* is in doubt, about to be told or told (Changes); a promised skill of a  *)
(* managed root is there or its removal is told (Promises); and nobody     *)
(* active was ever told of as removed (Asked).  The steps are first put in *)
(* the few forms that these invariants tell apart (Steps).                 *)
(***************************************************************************)
EXTENDS Room, TLAPS

-----------------------------------------------------------------------------
(* The rules and the loop that asks them.                                  *)

RunState ==
  [at : {"none", "turn", "provider", "calls", "effect"} \cup Points,
   rules : SUBSET Contributors,
   strikes : [Contributors -> Nat],
   asked : SUBSET Contributors,
   passed : SUBSET Contributors,
   by : Contributors \cup {None}]

TypeInvariant ==
  /\ plugins \in [chosen : BOOLEAN, ids : SUBSET Contributors]
  /\ run \in [Lanes -> RunState]

GateUnderWay(r) == r.at = "tool:before" => r.asked \subseteq r.passed /\ r.by = None

Held(r) ==
  r.at = "effect" =>
    \A c \in Gates(r) : \/ c \in r.passed
                        \/ r.strikes[c] >= StrikeLimit
                        \/ r.by # None /\ Before(r.by, c)

\* A lane without a run remembers nothing of the last one.
Cleared(r) == r.at = "none" => r = NoRun

GateInvariant ==
  /\ TypeInvariant
  /\ \A l \in Lanes : GateUnderWay(run[l]) /\ Held(run[l]) /\ Cleared(run[l])

Good(r) == r \in RunState /\ GateUnderWay(r) /\ Held(r) /\ Cleared(r)

\* A run that waits outside the gate and outside a tool call is good whatever it remembers.
LEMMA Elsewhere ==
  ASSUME NEW r \in RunState, r.at \notin {"tool:before", "effect", "none"}
  PROVE  Good(r)
BY DEF Good, GateUnderWay, Held, Cleared

\* A dispatch begins with nobody asked.
LEMMA DispatchedIsGood ==
  ASSUME NEW r \in RunState, NEW p \in Points
  PROVE  Good(Dispatched(r, p))
<1>1. Dispatched(r, p) \in RunState
  BY DEF Dispatched, RunState
<1>2. /\ Dispatched(r, p).at = p
      /\ Dispatched(r, p).asked = {}
      /\ Dispatched(r, p).by = None
  BY DEF Dispatched, RunState
<1>3. p # "effect" /\ p # "none"
  BY DEF Points
<1> QED
  BY <1>1, <1>2, <1>3 DEF Good, GateUnderWay, Held, Cleared

\* A run that has not begun.
LEMMA NoRunIsGood == Good(NoRun)
<1>1. NoRun \in RunState
  BY DEF NoRun, RunState
<1> QED
  BY <1>1 DEF Good, GateUnderWay, Held, Cleared, NoRun

\* A call goes to its tool when nobody is left to ask: each gate of the run was asked, and then
\* it passed the call, or is disabled.
LEMMA PassedByAll ==
  ASSUME NEW r \in RunState, GateUnderWay(r), r.at \in Points, Standing(r) = {}
  PROVE  Good(Outcome(r, FALSE))
<1>1. CASE r.at = "tool:before"
  <2>1. Outcome(r, FALSE) = [r EXCEPT !.at = "effect"]
    BY <1>1 DEF Outcome
  <2>2. \A c \in Gates(r) : c \in r.passed \/ r.strikes[c] >= StrikeLimit
    BY <1>1 DEF Standing, Gates, Disabled, GateUnderWay, RunState
  <2>3. [r EXCEPT !.at = "effect"] \in RunState
    BY DEF RunState
  <2>4. Held([r EXCEPT !.at = "effect"])
    BY <2>2 DEF Held, Gates, RunState
  <2> QED
    BY <2>1, <2>3, <2>4 DEF Good, GateUnderWay, Cleared, RunState
<1>2. CASE r.at = "request:before"
  <2>1. Outcome(r, FALSE) = [r EXCEPT !.at = "provider"]
    BY <1>2 DEF Outcome
  <2>2. [r EXCEPT !.at = "provider"] \in RunState
    BY DEF RunState
  <2> QED
    BY <2>1, <2>2, Elsewhere DEF RunState
<1>3. CASE r.at = "tool:after"
  <2>1. Outcome(r, FALSE) = [r EXCEPT !.at = "calls"]
    BY <1>3 DEF Outcome
  <2>2. [r EXCEPT !.at = "calls"] \in RunState
    BY DEF RunState
  <2> QED
    BY <2>1, <2>2, Elsewhere DEF RunState
<1>4. CASE r.at = "run:complete"
  BY <1>4, NoRunIsGood DEF Outcome
<1> QED
  BY <1>1, <1>2, <1>3, <1>4 DEF Points

\* A refused dispatch never leads to the tool.
LEMMA RefusedIsGood ==
  ASSUME NEW r \in RunState, r.at \in Points
  PROVE  Good(Outcome(r, TRUE))
<1>1. CASE r.at = "request:before"
  <2>1. Outcome(r, TRUE) = Dispatched(r, "run:complete")
    BY <1>1 DEF Outcome
  <2> QED
    BY <2>1, DispatchedIsGood DEF Points
<1>2. CASE r.at \in {"tool:before", "tool:after"}
  <2>1. Outcome(r, TRUE) = [r EXCEPT !.at = "calls"]
    BY <1>2 DEF Outcome
  <2>2. [r EXCEPT !.at = "calls"] \in RunState
    BY DEF RunState
  <2> QED
    BY <2>1, <2>2, Elsewhere DEF RunState
<1>3. CASE r.at = "run:complete"
  BY <1>3, NoRunIsGood DEF Outcome
<1> QED
  BY <1>1, <1>2, <1>3 DEF Points

\* A handler that lets the value through joins the asked and the passed together.
LEMMA ContinuedIsGood ==
  ASSUME NEW r \in RunState, r.at \in Points, GateUnderWay(r), NEW c \in Contributors
  PROVE  Good(Continues(r, c))
<1>1. Continues(r, c) \in RunState
  BY DEF Continues, RunState
<1>2. /\ Continues(r, c).at = r.at
      /\ Continues(r, c).asked = r.asked \cup {c}
      /\ Continues(r, c).passed = r.passed \cup {c}
      /\ Continues(r, c).by = r.by
  BY DEF Continues, RunState
<1>3. r.at # "effect" /\ r.at # "none"
  BY DEF Points
<1> QED
  BY <1>1, <1>2, <1>3 DEF Good, GateUnderWay, Held, Cleared

\* A failed handler closes a gate; elsewhere it is passed over.
LEMMA FailedIsGood ==
  ASSUME NEW r \in RunState, r.at \in Points, NEW c \in Contributors
  PROVE  Good(Fails(r, c))
<1>1. Strike(r, c) \in RunState /\ Strike(r, c).at = r.at
  BY DEF Strike, RunState
<1>2. CASE r.at = "tool:before"
  BY <1>1, <1>2, RefusedIsGood DEF Fails
<1>3. CASE r.at # "tool:before"
  <2>1. Fails(r, c) = [Strike(r, c) EXCEPT !.asked = @ \cup {c}]
    BY <1>3 DEF Fails
  <2>2. Fails(r, c) \in RunState /\ Fails(r, c).at = r.at
    BY <1>1, <2>1 DEF RunState
  <2>3. r.at # "effect" /\ r.at # "none"
    BY DEF Points
  <2> QED
    BY <1>3, <2>2, <2>3, Elsewhere
<1> QED
  BY <1>2, <1>3

\* The handler that substitutes comes before every one that still stood: those are the only
\* gates that the call was not put to.
LEMMA ReplacedIsGood ==
  ASSUME NEW r \in RunState, r.at \in Points, GateUnderWay(r), NEW c \in Contributors,
         IsNext(r, c)
  PROVE  Good(Replaces(r, c))
<1> DEFINE q == [Continues(r, c) EXCEPT !.by = c]
<1>1. /\ q \in RunState
      /\ q.at = r.at /\ q.by = c /\ q.rules = r.rules
      /\ q.passed = r.passed \cup {c} /\ q.strikes = r.strikes
  BY DEF Continues, RunState
<1>2. Replaces(r, c) = Outcome(q, FALSE)
  BY DEF Replaces
<1>3. CASE r.at = "tool:before"
  <2>1. Outcome(q, FALSE) = [q EXCEPT !.at = "effect"]
    BY <1>1, <1>3 DEF Outcome
  <2>2. ASSUME NEW d \in Gates(q)
        PROVE  d \in q.passed \/ q.strikes[d] >= StrikeLimit \/ Before(c, d)
    BY <1>1, <1>3 DEF IsNext, Standing, Gates, Disabled, GateUnderWay, RunState
  <2>3. [q EXCEPT !.at = "effect"] \in RunState
    BY <1>1 DEF RunState
  <2>4. Held([q EXCEPT !.at = "effect"])
    <3>1. c # None
      BY NoneAssumption
    <3>2. SUFFICES ASSUME NEW d \in Gates(q)
                   PROVE  \/ d \in q.passed
                          \/ q.strikes[d] >= StrikeLimit
                          \/ q.by # None /\ Before(q.by, d)
      BY <1>1 DEF Held, Gates, RunState
    <3> QED
      BY <2>2, <1>1, <3>1
  <2> QED
    BY <2>1, <2>2, <2>3, <2>4, <1>2 DEF Good, GateUnderWay, Cleared, RunState
<1>4. CASE r.at = "request:before"
  <2>1. Outcome(q, FALSE) = [q EXCEPT !.at = "provider"]
    BY <1>1, <1>4 DEF Outcome
  <2>2. [q EXCEPT !.at = "provider"] \in RunState
    BY <1>1 DEF RunState
  <2> QED
    BY <1>1, <1>2, <2>1, <2>2, Elsewhere DEF RunState
<1>5. CASE r.at = "tool:after"
  <2>1. Outcome(q, FALSE) = [q EXCEPT !.at = "calls"]
    BY <1>1, <1>5 DEF Outcome
  <2>2. [q EXCEPT !.at = "calls"] \in RunState
    BY <1>1 DEF RunState
  <2> QED
    BY <1>1, <1>2, <2>1, <2>2, Elsewhere DEF RunState
<1>6. CASE r.at = "run:complete"
  BY <1>1, <1>2, <1>6, NoRunIsGood DEF Outcome
<1> QED
  BY <1>3, <1>4, <1>5, <1>6 DEF Points

-----------------------------------------------------------------------------

LEMMA InitGood == ExtensionsInit => GateInvariant
<1> SUFFICES ASSUME ExtensionsInit PROVE GateInvariant
  OBVIOUS
<1>1. plugins \in [chosen : BOOLEAN, ids : SUBSET Contributors]
  <2>1. CASE plugins = [chosen |-> FALSE, ids |-> {}]
    BY <2>1
  <2>2. CASE plugins = [chosen |-> TRUE, ids |-> Contributors]
    BY <2>2
  <2> QED
    BY <2>1, <2>2 DEF ExtensionsInit
<1>2. run = [l \in Lanes |-> NoRun]
  BY DEF ExtensionsInit
<1>3. run \in [Lanes -> RunState]
  BY <1>2, NoRunIsGood DEF Good
<1>4. \A l \in Lanes : GateUnderWay(run[l]) /\ Held(run[l]) /\ Cleared(run[l])
  BY <1>2, NoRunIsGood DEF Good
<1> QED
  BY <1>1, <1>3, <1>4 DEF GateInvariant, TypeInvariant

\* A step of one lane preserves the invariant when it leaves that lane's run good.
LEMMA LaneStep ==
  ASSUME GateInvariant, NEW l \in Lanes, NEW r, Good(r),
         run' = [run EXCEPT ![l] = r], UNCHANGED plugins
  PROVE  GateInvariant'
<1>1. run' \in [Lanes -> RunState]
  BY DEF GateInvariant, TypeInvariant, Good
<1>2. \A k \in Lanes : run'[k] = IF k = l THEN r ELSE run[k]
  BY DEF GateInvariant, TypeInvariant
<1>3. \A k \in Lanes : GateUnderWay(run'[k]) /\ Held(run'[k]) /\ Cleared(run'[k])
  BY <1>2 DEF GateInvariant, Good
<1> QED
  BY <1>1, <1>3 DEF GateInvariant, TypeInvariant

LEMMA ActiveIsShipped ==
  ASSUME GateInvariant
  PROVE  ActiveFor \subseteq Contributors
BY ContributorsAssumption DEF GateInvariant, TypeInvariant, ActiveFor

LEMMA NextGood == GateInvariant /\ [ExtensionsNext]_extensionVars => GateInvariant'
<1> SUFFICES ASSUME GateInvariant, [ExtensionsNext]_extensionVars PROVE GateInvariant'
  OBVIOUS
<1>1. ASSUME NEW l \in Lanes, StartRun(l) PROVE GateInvariant'
  <2> DEFINE r == [NoRun EXCEPT !.at = "turn", !.rules = ActiveFor]
  <2>1. r \in RunState /\ r.at = "turn"
    BY ActiveIsShipped DEF NoRun, RunState
  <2>2. Good(r)
    BY <2>1, Elsewhere
  <2> QED
    BY <1>1, <2>2, LaneStep DEF StartRun, Step
<1>2. ASSUME NEW l \in Lanes, RunNext(l) PROVE GateInvariant'
  <2> DEFINE r == run[l]
  <2>1. r \in RunState /\ GateUnderWay(r) /\ Held(r)
    BY DEF GateInvariant, TypeInvariant
  <2>2. CASE BeginTurn(l)
    BY <2>1, <2>2, DispatchedIsGood, LaneStep DEF BeginTurn, Step, Points
  <2>3. CASE Abort(l) \/ EndRun(l)
    BY <2>1, <2>3, DispatchedIsGood, LaneStep DEF Abort, EndRun, Step, Points
  <2>4. CASE AskForTools(l)
    <3>1. [r EXCEPT !.at = "calls"] \in RunState
      BY <2>1 DEF RunState
    <3>2. Good([r EXCEPT !.at = "calls"])
      BY <2>1, <3>1, Elsewhere DEF RunState
    <3> QED
      BY <2>4, <3>2, LaneStep DEF AskForTools, Step
  <2>5. CASE GateCall(l) \/ ToolReturns(l)
    BY <2>1, <2>5, DispatchedIsGood, LaneStep DEF GateCall, ToolReturns, Step, Points
  <2>6. CASE NextTurn(l)
    <3>1. [r EXCEPT !.at = "turn"] \in RunState
      BY <2>1 DEF RunState
    <3>2. Good([r EXCEPT !.at = "turn"])
      BY <2>1, <3>1, Elsewhere DEF RunState
    <3> QED
      BY <2>6, <3>2, LaneStep DEF NextTurn, Step
  <2>7. CASE Dispatch(l)
    <3>1. r.at \in Points
      BY <2>7 DEF Dispatch
    <3>2. ASSUME NEW c \in Contributors, IsNext(r, c),
                 NEW q \in {Continues(r, c), Refuses(r, c), Replaces(r, c), Fails(r, c)},
                 Step(l, r.at, q)
          PROVE  GateInvariant'
      <4>1. Good(q)
        BY <2>1, <3>1, <3>2, ContinuedIsGood, RefusedIsGood, ReplacedIsGood, FailedIsGood
           DEF Refuses
      <4> QED
        BY <3>2, <4>1, LaneStep DEF Step
    <3>3. ASSUME Standing(r) = {}, Step(l, r.at, Outcome(r, FALSE))
          PROVE  GateInvariant'
      BY <2>1, <3>1, <3>3, PassedByAll, LaneStep DEF Step
    <3> QED
      BY <2>7, <3>2, <3>3 DEF Dispatch
  <2> QED
    BY <1>2, <2>2, <2>3, <2>4, <2>5, <2>6, <2>7 DEF RunNext
<1>3. ASSUME NEW c \in Contributors, NEW on \in BOOLEAN, SetPluginEnabled(c, on)
      PROVE  GateInvariant'
  <2>1. plugins' \in [chosen : BOOLEAN, ids : SUBSET Contributors]
    BY <1>3, ActiveIsShipped DEF SetPluginEnabled, EnablementWrites
  <2>2. UNCHANGED run
    BY <1>3 DEF SetPluginEnabled
  <2> QED
    BY <2>1, <2>2 DEF GateInvariant, TypeInvariant, GateUnderWay, Held, Cleared, Gates, Before
<1>4. CASE run' = [l \in Lanes |-> NoRun] /\ UNCHANGED plugins
  <2>1. run' = [l \in Lanes |-> NoRun] /\ UNCHANGED plugins
    BY <1>4
  <2>2. run' \in [Lanes -> RunState]
    BY <2>1, NoRunIsGood DEF Good
  <2>3. \A l \in Lanes : GateUnderWay(run'[l]) /\ Held(run'[l]) /\ Cleared(run'[l])
    BY <2>1, NoRunIsGood DEF Good
  <2> QED
    BY <2>1, <2>2, <2>3 DEF GateInvariant, TypeInvariant
<1>5. CASE UNCHANGED extensionVars
  BY <1>5 DEF GateInvariant, TypeInvariant, GateUnderWay, Held, Cleared, Gates, Before, extensionVars
<1> QED
  BY <1>1, <1>2, <1>3, <1>4, <1>5 DEF ExtensionsNext, Crash

\* Whatever rules a session has, on whatever points and in whatever order they answer, fail or
\* are toggled meanwhile: a tool runs only past every gate of its run.
THEOREM GatesHold == ExtensionsSpec => []GateHolds
<1>1. GateInvariant => GateHolds
  BY DEF GateInvariant, GateHolds, Held
<1> QED
  BY InitGood, NextGood, <1>1, PTL DEF ExtensionsSpec

-----------------------------------------------------------------------------
(* The room: what its variables hold.                                      *)

Roles    == {"owner", "viewer"}
Choices  == [id : Contributors, on : BOOLEAN]
Args     == Roles \cup {"add", "replace", "remove", "added", "removed"}
              \cup (SUBSET Contributors) \cup Choices
Subjects == {<<"plugins">>} \cup (Scopes \X Names)
Abouts   == {<<>>, <<"chat">>, <<"run">>} \cup Subjects \cup ({"row"} \X Nat) \cup ({"invite"} \X Invites)
Words    == {"joined", "removed", "chat_message", "toggled"} \cup Args
Events   == [by : Nat, about : Abouts, says : Words, active : Args, since : Nat]
Ops      == {"none", "join", "remove", "chat", "toggle", "skill", "run"}
Requests == [op : Ops, at : {"idle", "act", "tell"}, user : Users \cup {None}, row : Nat,
             about : Abouts, arg : Args, since : Nat]
Members  == [user : Users \cup {Host}, role : Roles, removed : BOOLEAN]

\* What a thread works on, by its operation and by whether it has acted.
Shape(q) ==
  /\ q.op = "none" => q = Idle
  /\ q.op # "none" => q.at \in {"act", "tell"}
  /\ q.op \notin {"none", "skill"} => q.user \in Users
  /\ q.op = "join" => IF q.at = "act" THEN q.arg \in Roles ELSE q.about = <<"row", q.row>>
  /\ q.op = "remove" => q.at = "act" /\ q.about \in {"row"} \X Nat
  /\ q.op = "chat" => q.at = "act" /\ q.about = <<"chat">>
  /\ q.op = "run" => q.at = "act" /\ q.about = <<"run">>
  /\ q.op = "toggle" => /\ q.about = <<"plugins">>
                        /\ IF q.at = "act" THEN q.arg \in Choices
                                           ELSE q.arg \in SUBSET Contributors
  /\ q.op = "skill" => /\ q.about \in Scopes \X Names
                       /\ q.arg \in IF q.at = "act" THEN {"add", "replace", "remove"}
                                                    ELSE {"added", "removed"}

RoomType ==
  /\ rows \in Seq(Members)
  /\ invites \in [Invites -> [role : Roles, status : {"none", "usable", "revoked", "expired"}]]
  /\ feed \in Seq(Events)
  /\ request \in [Threads -> Requests]
  /\ \A t \in Threads : Shape(request[t]) /\ request[t].since <= Len(feed)
  /\ unsure \subseteq Abouts

Dirs == {"none", "bare", "full", "link"}

SkillType ==
  /\ skill \in [Scopes -> [Names -> [dir : Dirs, name : Names \cup {""}, body : Nat \cup written]]]
  /\ removed = [s \in Scopes |-> removed[s]]
  /\ index = [l \in Readers |-> index[l]]

-----------------------------------------------------------------------------
(* The feed and what it says.                                              *)

\* The last event about something, if there is one.
Newest(about, i) == i \in Told(about) /\ \A j \in Told(about) : j <= i

Tells(t, about) == request[t].at = "tell" /\ request[t].about = about

Joins(t, r) == request[t].op = "join" /\ request[t].at = "tell" /\ request[t].row = r

\* Somebody was told that the row is removed.
Gone(r) == \E i \in Told(<<"row", r>>) : feed[i].says = "removed"

\* A row is announced by the thread that made it, and its removal, which is told, is the last that
\* is said of it or leaves it in doubt.
Present(r) ==
  IF rows[r].removed
  THEN \/ \E i \in DOMAIN feed : Newest(<<"row", r>>, i) /\ feed[i].says = "removed"
       \/ <<"row", r>> \in unsure /\ Gone(r)
  ELSE \/ \E i \in DOMAIN feed : Newest(<<"row", r>>, i) /\ feed[i].says = "joined"
       \/ ~Announced(r) /\ (<<"row", r>> \in unsure \/ \E t \in Threads : Joins(t, r))

Awaited(r) ==
  (\E t \in Threads : Joins(t, r)) =>
    /\ r \in DOMAIN rows
    /\ <<"row", r>> \in unsure \/ (~Announced(r) /\ ~rows[r].removed)
    /\ \A t, u \in Threads : Joins(t, r) /\ Joins(u, r) => t = u

Targets == \A t \in Threads : request[t].op = "remove" =>
  \E r \in DOMAIN rows : request[t].about = <<"row", r>>

People ==
  /\ \A r \in Nat : (Announced(r) => r \in DOMAIN rows) /\ Awaited(r)
  /\ Targets
  /\ \A r \in DOMAIN rows : Present(r)

\* The thread will say something as the row that its request names.
Acting(t) == request[t].op = "chat" \/ (request[t].op = "join" /\ request[t].at = "tell")

\* Nobody is told of as removed who is not, and who chats or joins was there when asked.
Asked ==
  /\ \A j \in DOMAIN feed, r \in DOMAIN rows :
       feed[j].says = "removed" /\ feed[j].about = <<"row", r>> => rows[r].removed
  /\ \A t \in Threads : Acting(t) =>
       \A j \in DOMAIN feed :
         feed[j].says = "removed" /\ feed[j].about = <<"row", request[t].row>> => request[t].since < j

\* What is so, and what an event says of it.
Truth(about) == IF about = <<"plugins">> THEN ActiveFor ELSE SkillThere(about[1], about[2])
Word(e)      == IF e.about = <<"plugins">> THEN e.active ELSE e.says

\* The last change of a rule or a skill is about to be told, or has been, unless it is in doubt.
Settled(a) ==
  /\ \A t, u \in Threads : Tells(t, a) /\ Tells(u, a) => t = u
  /\ \A t \in Threads : Tells(t, a) => request[t].arg = Truth(a)
  /\ \/ \E t \in Threads : Tells(t, a)
     \/ Told(a) = {}
     \/ \E i \in DOMAIN feed : Newest(a, i) /\ Word(feed[i]) = Truth(a)

Changes == \A a \in Subjects \ unsure : Settled(a)

\* A skill that a run was promised in a managed root is there, or its removal is about to be told, or has been.
Promised(place) ==
  \/ place \in unsure
  \/ skill[place[1]][place[2]].dir \in {"full", "link"}
  \/ /\ skill[place[1]][place[2]].dir = "none"
     /\ Told(place) # {} \/ \E t \in Threads : Tells(t, place)

Promises ==
  \A l \in Lanes : \A name \in DOMAIN index[l] :
    /\ index[l][name] \in Places
    /\ index[l][name][1] \in Scopes => Promised(index[l][name])

RoomInv ==
  /\ GateInvariant /\ RoomType /\ SkillType /\ SkillsAreKept
  /\ People /\ Asked /\ Changes /\ Promises /\ RemovedActNoMore

-----------------------------------------------------------------------------
(* What the steps of a request do.                                         *)

LEMMA Appended ==
  ASSUME feed \in Seq(Events), NEW e \in Events, feed' = Append(feed, e)
  PROVE  /\ feed' \in Seq(Events) /\ Len(feed) \in Nat /\ Len(feed') = Len(feed) + 1
         /\ DOMAIN feed = 1 .. Len(feed) /\ DOMAIN feed' = 1 .. Len(feed) + 1
         /\ \A i \in 1 .. Len(feed) : feed'[i] = feed[i]
         /\ feed'[Len(feed) + 1] = e
OBVIOUS

\* An event is the last word on what it is about, and on nothing else.
LEMMA ToldGrows ==
  ASSUME feed \in Seq(Events), NEW e \in Events, feed' = Append(feed, e), NEW a
  PROVE  /\ \A i \in Told(a) : feed'[i] = feed[i] /\ i \in DOMAIN feed
         /\ a # e.about => Told(a)' = Told(a) /\ \A i : Newest(a, i)' <=> Newest(a, i)
         /\ a = e.about => /\ Told(a)' # {}
                           /\ \E i \in DOMAIN feed' : Newest(a, i)' /\ feed'[i] = e /\ i = Len(feed) + 1
         /\ Told(a) # {} => Told(a)' # {}
<1>1. /\ Len(feed) \in Nat /\ DOMAIN feed = 1 .. Len(feed) /\ DOMAIN feed' = 1 .. Len(feed) + 1
      /\ \A i \in 1 .. Len(feed) : feed'[i] = feed[i]
      /\ feed'[Len(feed) + 1] = e
  BY Appended
<1>2. \A i \in Told(a) : feed'[i] = feed[i] /\ i \in DOMAIN feed  BY <1>1 DEF Told
<1>3. Told(a)' = IF a = e.about THEN Told(a) \cup {Len(feed) + 1} ELSE Told(a)
  <2>1. \A i \in DOMAIN feed' : i \in DOMAIN feed \/ i = Len(feed) + 1  BY <1>1
  <2> QED  BY <1>1, <2>1 DEF Told
<1>4. \A i \in Told(a) : i <= Len(feed) + 1  BY <1>1 DEF Told
<1>5. \A i : Newest(a, i)' <=> i \in Told(a)' /\ \A j \in Told(a)' : j <= i  BY DEF Newest
<1>6. a = e.about => \E i \in DOMAIN feed' : Newest(a, i)' /\ feed'[i] = e /\ i = Len(feed) + 1
  <2> SUFFICES ASSUME a = e.about, NEW i, i = Len(feed) + 1
               PROVE  i \in DOMAIN feed' /\ Newest(a, i)' /\ feed'[i] = e
    OBVIOUS
  <2>1. i \in Told(a)' /\ \A j \in Told(a)' : j <= i  BY <1>1, <1>3, <1>4
  <2> QED  BY <1>1, <1>5, <2>1
<1>7. a # e.about => Told(a)' = Told(a) /\ \A i : Newest(a, i)' <=> Newest(a, i)
  BY <1>3, <1>5 DEF Newest
<1> QED  BY <1>2, <1>3, <1>6, <1>7

\* A request passes its checks.
Asking(t) ==
  /\ request[t].op = "none"
  /\ \E q \in Requests :
       /\ request' = [request EXCEPT ![t] = q]
       /\ Shape(q) /\ q.op # "none" /\ q.at = "act" /\ q.since = Len(feed)
       /\ q.op = "remove" => \E r \in DOMAIN rows : q.about = <<"row", r>>
       /\ q.op = "chat" => q.row \in Active
  /\ UNCHANGED <<extensionVars, skillVars, tableVars, feed, unsure>>

LEMMA AcceptIs ==
  ASSUME RoomType, NEW t \in Threads, NEW op \in Ops \ {"none"}, NEW user \in Users \cup {None}, NEW row \in Nat,
         NEW about \in Abouts, NEW arg \in Args, Accept(t, op, user, row, about, arg),
         Shape([op |-> op, at |-> "act", user |-> user, row |-> row, about |-> about, arg |-> arg,
                since |-> Len(feed)]),
         op = "remove" => \E r \in DOMAIN rows : about = <<"row", r>>,
         op = "chat" => row \in Active
  PROVE  Asking(t)
<1> DEFINE q == [op |-> op, at |-> "act", user |-> user, row |-> row, about |-> about, arg |-> arg,
                 since |-> Len(feed)]
<1>1. Len(feed) \in Nat  BY DEF RoomType
<1>2. q \in Requests  BY <1>1 DEF Requests
<1> QED  BY <1>2 DEF Accept, Asking

LEMMA RowsAre ==
  ASSUME RoomType
  PROVE  /\ DOMAIN rows = 1 .. Len(rows) /\ Len(rows) \in Nat
         /\ \A r \in DOMAIN rows : r \in Nat /\ rows[r] \in Members
         /\ DOMAIN feed = 1 .. Len(feed) /\ Len(feed) \in Nat
         /\ \A i \in DOMAIN feed : feed[i] \in Events
BY DEF RoomType

LEMMA AsksIs ==
  ASSUME RoomType, NEW t \in Threads,
         \/ AskJoin(t) \/ AskRemove(t) \/ AskChat(t) \/ AskToggle(t)
         \/ AskSkill(t) \/ AskSkillThere(t) \/ AskRun(t)
  PROVE  Asking(t)
<1>1. CASE AskJoin(t)
  <2>1. PICK u \in Users, i \in Invites :
          Accept(t, "join", u, 0, <<"invite", i>>, invites[i].role)
    BY <1>1 DEF AskJoin
  <2>2. invites[i].role \in Roles  BY DEF RoomType
  <2>3. <<"invite", i>> \in Abouts  BY DEF Abouts
  <2> QED  BY <2>1, <2>2, <2>3, AcceptIs DEF Args, Ops, Shape
<1>2. CASE AskRemove(t)
  <2>1. PICK u \in Users, r \in Active :
          Accept(t, "remove", u, 0, <<"row", r>>, {})
    BY <1>2 DEF AskRemove
  <2>2. r \in DOMAIN rows /\ r \in Nat  BY RowsAre DEF Active
  <2>3. <<"row", r>> \in Abouts /\ <<"row", r>> \in {"row"} \X Nat  BY <2>2 DEF Abouts
  <2>4. {} \in Args  BY DEF Args
  <2> QED  BY <2>1, <2>2, <2>3, <2>4, AcceptIs DEF Ops, Shape
<1>3. CASE AskChat(t)
  <2>0. PICK u \in Users : \E r \in ParticipantFor(u) : Accept(t, "chat", u, r, <<"chat">>, {})
    BY <1>3 DEF AskChat
  <2>1. PICK r \in ParticipantFor(u) : Accept(t, "chat", u, r, <<"chat">>, {})
    BY <2>0
  <2>2. r \in Active /\ r \in Nat  BY RowsAre DEF ParticipantFor, Active
  <2>3. <<"chat">> \in Abouts /\ {} \in Args  BY DEF Abouts, Args
  <2> QED  BY <2>1, <2>2, <2>3, AcceptIs DEF Ops, Shape
<1>4. CASE AskToggle(t)
  <2>1. PICK u \in Users, c \in Contributors, on \in BOOLEAN :
          Accept(t, "toggle", u, 0, <<"plugins">>, [id |-> c, on |-> on])
    BY <1>4 DEF AskToggle
  <2>2. [id |-> c, on |-> on] \in Choices  BY DEF Choices
  <2>3. <<"plugins">> \in Abouts  BY DEF Abouts, Subjects
  <2>4. [id |-> c, on |-> on] \in Args
    BY <2>2 DEF Args
  <2> QED  BY <2>1, <2>2, <2>3, <2>4, AcceptIs DEF Ops, Shape
<1>5. CASE AskSkill(t) \/ AskSkillThere(t)
  <2>1. PICK u \in Users \cup {None}, s \in Scopes, n \in Names, what \in {"add", "replace", "remove"} :
          Accept(t, "skill", u, 0, <<s, n>>, what)
    BY <1>5 DEF AskSkill, AskSkillThere
  <2>2. <<s, n>> \in Scopes \X Names /\ <<s, n>> \in Abouts /\ what \in Args
    BY DEF Abouts, Subjects, Args
  <2> QED  BY <2>1, <2>2, AcceptIs DEF Ops, Shape
<1>6. CASE AskRun(t)
  <2>1. PICK u \in Users : Accept(t, "run", u, 0, <<"run">>, {})
    BY <1>6 DEF AskRun
  <2>2. <<"run">> \in Abouts /\ {} \in Args  BY DEF Abouts, Args
  <2> QED  BY <2>1, <2>2, AcceptIs DEF Ops, Shape
<1> QED  BY <1>1, <1>2, <1>3, <1>4, <1>5, <1>6

\* A request is given up, refused or over; what it has done and not told is in doubt.
Leaving(t) ==
  /\ request' = [request EXCEPT ![t] = Idle]
  /\ unsure' = unsure \/ unsure' = unsure \cup {request[t].about}
  /\ request[t].at = "tell" => request[t].about \in unsure'
  /\ \A s \in Scopes, n \in Names : <<s, n>> \notin unsure' => skill'[s][n] = skill[s][n]
  /\ UNCHANGED <<plugins, rows, invites, feed>>

LEMMA LeavesIs ==
  ASSUME RoomType, NEW t \in Threads,
         Refused(t) \/ Unannounced(t) \/ LoseThread(t) \/ Start(t) \/ Busy(t)
  PROVE  Leaving(t)
<1>1. CASE Refused(t)
  BY <1>1 DEF Refused, Leaving, Answer, extensionVars, skillVars, tableVars
<1>2. CASE Unannounced(t)
  BY <1>2 DEF Unannounced, Leaving, Answer, extensionVars, skillVars, tableVars
<1>3. CASE LoseThread(t)
  BY <1>3 DEF LoseThread, Leaving, Answer, extensionVars, skillVars, tableVars
<1>4. CASE Start(t)
  <2>1. request[t].at # "tell"  BY <1>4 DEF Start, RoomType, Shape
  <2> QED  BY <1>4, <2>1 DEF Start, StartRun, Step, ResolveSkills, Leaving, Answer, tableVars
<1>5. CASE Busy(t)
  <2>1. request[t].at # "tell"  BY <1>5 DEF Busy, RoomType, Shape
  <2> QED  BY <1>5, <2>1 DEF Busy, Leaving, Answer, extensionVars, skillVars, tableVars
<1> QED  BY <1>1, <1>2, <1>3, <1>4, <1>5

-----------------------------------------------------------------------------
(* What the variables hold, step by step.                                  *)

\* Events about people, about what they say and about rules and skills are about different things.
LEMMA Distinct ==
  /\ \A a \in Scopes \X Names : a # <<"plugins">>
  /\ \A a \in Subjects : a # <<"chat">> /\ \A r : a # <<"row", r>>
  /\ \A r : <<"row", r>> # <<"chat">>
  /\ \A r, v : <<"row", r>> = <<"row", v>> => r = v
  /\ <<"plugins">> \in Subjects
  /\ \A s \in Scopes, n \in Names : <<s, n>> \in Subjects
  /\ Scopes \X Names \subseteq Subjects
<1>1. \A x, y, z : <<x, y>> # <<z>>
  <2> SUFFICES ASSUME NEW x, NEW y, NEW z, <<x, y>> = <<z>> PROVE FALSE
    OBVIOUS
  <2>1. Len(<<x, y>>) = 2 /\ Len(<<z>>) = 1  OBVIOUS
  <2> QED  BY <2>1
<1>2. \A a \in Scopes \X Names : \E s \in Scopes, n \in Names : a = <<s, n>>  OBVIOUS
<1>3. \A s \in Scopes : \A n, r : <<s, n>> # <<"row", r>>  BY DEF Scopes
<1>4. <<"plugins">> # <<"chat">>  OBVIOUS
<1>5. \A a \in Scopes \X Names : a # <<"plugins">> /\ a # <<"chat">> /\ \A r : a # <<"row", r>>
  BY <1>1, <1>2, <1>3
<1>6. \A r : <<"row", r>> # <<"chat">> /\ <<"row", r>> # <<"plugins">>  BY <1>1
<1>7. \A r, v : <<"row", r>> = <<"row", v>> => r = v  OBVIOUS
<1> QED  BY <1>4, <1>5, <1>6, <1>7 DEF Subjects

LEMMA IdleIs == Idle \in Requests /\ Shape(Idle) /\ Idle.op = "none" /\ Idle.at = "idle" /\ Idle.since = 0
<1>1. <<>> \in Abouts /\ {} \in Args  BY DEF Abouts, Args
<1> QED  BY <1>1 DEF Idle, Requests, Shape, Ops

LEMMA RequestIs ==
  ASSUME RoomType, NEW t \in Threads, NEW q \in Requests, request' = [request EXCEPT ![t] = q]
  PROVE  /\ request' \in [Threads -> Requests]
         /\ request'[t] = q
         /\ \A u \in Threads : u # t => request'[u] = request[u]
BY DEF RoomType

\* A thread's request changes within its shape, and the feed only grows.
LEMMA RequestKeepsType ==
  ASSUME RoomType, NEW t \in Threads, NEW q \in Requests, request' = [request EXCEPT ![t] = q],
         Shape(q), Len(feed') \in Nat, q.since <= Len(feed'), Len(feed) <= Len(feed'),
         rows' \in Seq(Members), invites' = invites, feed' \in Seq(Events),
         unsure' \subseteq Abouts
  PROVE  RoomType'
<1>1. /\ request' \in [Threads -> Requests]
      /\ request'[t] = q
      /\ \A u \in Threads : u # t => request'[u] = request[u]
  BY RequestIs
<1>2. Len(feed) \in Nat /\ \A u \in Threads : request[u].since \in Nat  BY DEF RoomType, Requests
<1>3. q.since \in Nat  BY DEF Requests
<1>4. ASSUME NEW u \in Threads PROVE Shape(request'[u]) /\ request'[u].since <= Len(feed')
  <2>1. CASE u = t  BY <1>1, <2>1
  <2>2. CASE u # t
    <3>1. Shape(request[u]) /\ request[u].since <= Len(feed)  BY DEF RoomType
    <3>2. request[u].since <= Len(feed')  BY <1>2, <3>1
    <3> QED  BY <1>1, <2>2, <3>1, <3>2
  <2> QED  BY <2>1, <2>2
<1>5. invites' \in [Invites -> [role : Roles, status : {"none", "usable", "revoked", "expired"}]]
  BY DEF RoomType
<1> QED  BY <1>1, <1>4, <1>5 DEF RoomType

LEMMA ThreadsAre ==
  ASSUME RoomType, NEW t \in Threads
  PROVE  /\ request[t] \in Requests /\ Shape(request[t]) /\ request[t].since <= Len(feed)
         /\ request[t].op \in Ops /\ request[t].at \in {"idle", "act", "tell"}
         /\ request[t].user \in Users \cup {None} /\ request[t].row \in Nat
         /\ request[t].about \in Abouts /\ request[t].arg \in Args /\ request[t].since \in Nat
BY DEF RoomType, Requests

\* A finished request leaves an idle thread.
LEMMA AnsweredKeepsType ==
  ASSUME RoomType, NEW t \in Threads, request' = [request EXCEPT ![t] = Idle],
         Len(feed') \in Nat, Len(feed) <= Len(feed'),
         rows' \in Seq(Members), invites' = invites, feed' \in Seq(Events),
         unsure' \subseteq Abouts
  PROVE  RoomType'
<1>1. Idle \in Requests /\ Shape(Idle) /\ Idle.since <= Len(feed')  BY IdleIs
<1> QED  BY <1>1, RequestKeepsType

\* What a thread says of its request is an event.
LEMMA EventIs ==
  ASSUME RoomType, NEW t \in Threads, NEW r \in Nat, NEW says \in Words, NEW on \in Args
  PROVE  /\ Event(t, r, says, on) \in Events
         /\ Event(t, r, says, on).by = r /\ Event(t, r, says, on).about = request[t].about
         /\ Event(t, r, says, on).says = says /\ Event(t, r, says, on).active = on
         /\ Event(t, r, says, on).since = request[t].since
BY ThreadsAre DEF Event, Events

\* A thread is over with its request and says so.
Telling(t, e) ==
  /\ e \in Events /\ e.about = request[t].about /\ e.since = request[t].since
  /\ feed' = Append(feed, e)
  /\ request' = [request EXCEPT ![t] = Idle]
  /\ unsure \subseteq unsure' /\ unsure' \subseteq unsure \cup {request[t].about}
  /\ UNCHANGED <<extensionVars, skillVars, invites>>

LEMMA TellingKeepsType ==
  ASSUME RoomType, NEW t \in Threads, NEW e, Telling(t, e), rows' \in Seq(Members)
  PROVE  RoomType'
<1>1. feed' \in Seq(Events) /\ Len(feed) \in Nat /\ Len(feed') = Len(feed) + 1
  BY Appended DEF RoomType, Telling
<1>2. Len(feed') \in Nat /\ Len(feed) <= Len(feed')  BY <1>1
<1>3. request' = [request EXCEPT ![t] = Idle] /\ invites' = invites  BY DEF Telling
<1>4. unsure' \subseteq Abouts  BY ThreadsAre DEF RoomType, Telling
<1> QED  BY <1>1, <1>2, <1>3, <1>4, AnsweredKeepsType

LEMMA JoinedIs ==
  ASSUME RoomType, NEW t \in Threads, AnnounceParticipantJoined(t)
  PROVE  \E e : /\ Telling(t, e) /\ e.by = request[t].row /\ e.says = "joined"
                /\ UNCHANGED <<rows, archived>>
<1> DEFINE e == Event(t, request[t].row, "joined", {})
<1>1. "joined" \in Words /\ {} \in Args  BY DEF Words, Args
<1>2. request[t].row \in Nat  BY ThreadsAre
<1> QED  BY <1>1, <1>2, EventIs DEF AnnounceParticipantJoined, Tell, Answer, Telling, tableVars

LEMMA ChatIs ==
  ASSUME RoomType, NEW t \in Threads, Chat(t)
  PROVE  \E e : /\ Telling(t, e) /\ e.by = request[t].row /\ e.says = "chat_message"
                /\ UNCHANGED <<rows, archived>>
<1> DEFINE e == Event(t, request[t].row, "chat_message", {})
<1>1. "chat_message" \in Words /\ {} \in Args  BY DEF Words, Args
<1>2. request[t].row \in Nat  BY ThreadsAre
<1> QED  BY <1>1, <1>2, EventIs DEF Chat, Tell, Answer, Telling, tableVars

LEMMA ChangeIs ==
  ASSUME RoomType, NEW t \in Threads, RecordChange(t)
  PROVE  \E e : /\ Telling(t, e) /\ e.by \in Active \cup {0}
                /\ request[t].about \in Subjects /\ Word(e) = request[t].arg
                /\ UNCHANGED <<rows, archived>>
<1>1. PICK r \in IF request[t].user = None THEN {0} ELSE ParticipantFor(request[t].user) :
        IF request[t].op = "toggle" THEN Tell(t, r, "toggled", request[t].arg)
                                    ELSE Tell(t, r, request[t].arg, {})
  BY DEF RecordChange
<1>2. r \in Active \cup {0} /\ r \in Nat  BY RowsAre DEF ParticipantFor, Active
<1>3. Shape(request[t]) /\ request[t].arg \in Args  BY ThreadsAre
<1>4. CASE request[t].op = "toggle"
  <2> DEFINE e == Event(t, r, "toggled", request[t].arg)
  <2>1. "toggled" \in Words  BY DEF Words
  <2>2. request[t].about = <<"plugins">>  BY <1>3, <1>4 DEF Shape
  <2>3. /\ e \in Events /\ e.by = r /\ e.about = request[t].about
        /\ e.active = request[t].arg /\ e.since = request[t].since
    BY <1>2, <1>3, <2>1, EventIs
  <2>4. Word(e) = request[t].arg  BY <2>2, <2>3 DEF Word
  <2>5. Telling(t, e)
    BY <1>1, <1>4, <2>3 DEF RecordChange, Tell, Answer, Telling, tableVars
  <2>6. UNCHANGED <<rows, archived>>  BY DEF RecordChange, tableVars
  <2> QED  BY <1>2, <2>2, <2>3, <2>4, <2>5, <2>6 DEF Subjects
<1>5. CASE request[t].op = "skill"
  <2> DEFINE e == Event(t, r, request[t].arg, {})
  <2>1. request[t].arg \in Words /\ {} \in Args  BY <1>3 DEF Words, Args
  <2>2. request[t].about \in Scopes \X Names  BY <1>3, <1>5 DEF Shape
  <2>3. /\ e \in Events /\ e.by = r /\ e.about = request[t].about
        /\ e.says = request[t].arg /\ e.since = request[t].since
    BY <1>2, <1>3, <2>1, EventIs
  <2>4. Word(e) = request[t].arg  BY <2>2, <2>3, Distinct DEF Word
  <2>5. Telling(t, e)
    BY <1>1, <1>5, <2>3 DEF RecordChange, Tell, Answer, Telling, tableVars
  <2>6. UNCHANGED <<rows, archived>>  BY DEF RecordChange, tableVars
  <2> QED  BY <1>2, <2>2, <2>3, <2>4, <2>5, <2>6 DEF Subjects
<1> QED  BY <1>4, <1>5 DEF RecordChange

LEMMA RemoveIs ==
  ASSUME RoomType, NEW t \in Threads, Remove(t)
  PROVE  /\ rows' = [rows EXCEPT ![request[t].about[2]].removed = TRUE]
         /\ \E e : Telling(t, e) /\ e.by \in Active /\ e.says = "removed"
         /\ Announced(request[t].about[2]) \/ request[t].about \in unsure'
<1>1. PICK r \in ParticipantFor(request[t].user) :
        /\ rows' = [rows EXCEPT ![request[t].about[2]].removed = TRUE]
        /\ Tell(t, r, "removed", {})
  BY DEF Remove
<1>2. r \in Active /\ r \in Nat  BY RowsAre DEF ParticipantFor, Active
<1>3. "removed" \in Words /\ {} \in Args  BY DEF Words, Args
<1> DEFINE e == Event(t, r, "removed", {})
<1>4. Telling(t, e) /\ e.by = r /\ e.says = "removed"
  BY <1>1, <1>2, <1>3, EventIs DEF Remove, Tell, Answer, Telling
<1> QED  BY <1>1, <1>2, <1>4 DEF Remove

-----------------------------------------------------------------------------
(* The skills on disk.                                                     *)

SkillStep ==
  \/ \E s \in Scopes, n \in Names, replace \in BOOLEAN :
       \/ \E body : AddSkill(s, n, replace, body)
       \/ CutAdd(s, n, replace)
  \/ \E s \in Scopes, n \in Names : RemoveSkill(s, n)
  \/ /\ index' = [l \in Readers |-> index'[l]]
     /\ UNCHANGED <<skill, removed, written, overwritten>>

Cells == [dir : Dirs, name : Names \cup {""}, body : Nat \cup written]

\* Where the bodies are.
InRoot(b)      == \E s \in Scopes, n \in Names : b \in Body(skill[s][n])
InGraveyard(b) == \E s \in Scopes : \E path \in DOMAIN removed[s] : b \in removed[s][path]

LEMMA KeptIs ==
  /\ SkillsAreKept <=> \A b \in written \ overwritten : InRoot(b) \/ InGraveyard(b)
  /\ SkillsAreKept' <=> \A b \in written' \ overwritten' : InRoot(b)' \/ InGraveyard(b)'
BY DEF SkillsAreKept, InRoot, InGraveyard

LEMMA CellsAre ==
  ASSUME SkillType, NEW s \in Scopes, NEW n \in Names
  PROVE  /\ skill[s][n] \in Cells /\ skill[s][n].dir \in Dirs
         /\ skill[s] \in [Names -> Cells] /\ skill \in [Scopes -> [Names -> Cells]]
BY DEF SkillType, Cells

\* One directory changes.
LEMMA CellChanges ==
  ASSUME SkillType, NEW s \in Scopes, NEW n \in Names, NEW e,
         skill' = [skill EXCEPT ![s][n] = e]
  PROVE  /\ skill'[s][n] = e
         /\ \A z \in Scopes, m \in Names : <<z, m>> # <<s, n>> => skill'[z][m] = skill[z][m]
<1>1. skill \in [Scopes -> [Names -> Cells]]  BY CellsAre
<1>2. \A z \in Scopes, m \in Names :
        skill'[z][m] = IF z = s /\ m = n THEN e ELSE skill[z][m]
  BY <1>1
<1> QED  BY <1>2

LEMMA CellTyped ==
  ASSUME SkillType, NEW s \in Scopes, NEW n \in Names, NEW e,
         e \in [dir : Dirs, name : Names \cup {""}, body : Nat \cup written'],
         skill' = [skill EXCEPT ![s][n] = e], written \subseteq written',
         removed' = [z \in Scopes |-> removed'[z]], index' = index
  PROVE  SkillType'
<1> DEFINE Fresh == [dir : Dirs, name : Names \cup {""}, body : Nat \cup written']
<1>1. Cells \subseteq Fresh  BY DEF Cells
<1>2. skill \in [Scopes -> [Names -> Cells]]  BY CellsAre
<1>3. skill \in [Scopes -> [Names -> Fresh]]  BY <1>1, <1>2, ZenonT(60)
<1>4. skill' \in [Scopes -> [Names -> Fresh]]
  <2> HIDE DEF Fresh
  <2>1. e \in Fresh  BY DEF Fresh
  <2>2. [skill[s] EXCEPT ![n] = e] \in [Names -> Fresh]  BY <1>3, <2>1
  <2> QED  BY <1>3, <2>2
<1> QED  BY <1>4 DEF SkillType

\* A body that leaves a directory goes to the graveyard or was written over on request.
LEMMA SkillStepKeeps ==
  ASSUME SkillType, SkillsAreKept, SkillStep
  PROVE  SkillType' /\ SkillsAreKept'
<1>0. \A b \in written \ overwritten : InRoot(b) \/ InGraveyard(b)  BY KeptIs
<1>1. ASSUME NEW s \in Scopes, NEW n \in Names, NEW replace \in BOOLEAN, NEW body,
             AddSkill(s, n, replace, body)
      PROVE  SkillType' /\ SkillsAreKept'
  <2> DEFINE e == [dir |-> "full", name |-> n, body |-> body]
  <2>1. /\ skill' = [skill EXCEPT ![s][n] = e] /\ written' = written \cup {body}
        /\ removed' = removed /\ index' = index
    BY <1>1 DEF AddSkill
  <2>2. SkillType'
    <3>1. removed' = [z \in Scopes |-> removed'[z]]  BY <2>1 DEF SkillType
    <3>2. e \in [dir : Dirs, name : Names \cup {""}, body : Nat \cup written']  BY <2>1 DEF Dirs
    <3> QED  BY <2>1, <3>1, <3>2, CellTyped
  <2>3. skill'[s][n] = e /\ \A z \in Scopes, m \in Names : <<z, m>> # <<s, n>> => skill'[z][m] = skill[z][m]
    <3> HIDE DEF e
    <3>1. skill' = [skill EXCEPT ![s][n] = e]  BY <2>1
    <3>2. skill'[s][n] = e  BY <3>1, CellsAre
    <3> QED  BY <3>1, <3>2, CellChanges
  <2>4. Body(e) = {body}  BY DEF Body
  <2>5. overwritten \subseteq overwritten' /\ Body(skill[s][n]) \subseteq overwritten'
    <3>1. CASE replace  BY <1>1, <3>1 DEF AddSkill
    <3>2. CASE ~replace
      <4>1. skill[s][n].dir = "none"  BY <1>1, <3>2 DEF AddSkill, MayAdd
      <4> QED  BY <1>1, <3>2, <4>1 DEF AddSkill, Body
    <3> QED  BY <3>1, <3>2
  <2>6. ASSUME NEW b \in written' \ overwritten' PROVE InRoot(b)' \/ InGraveyard(b)'
    <3>1. CASE b = body  BY <2>3, <2>4, <3>1 DEF InRoot
    <3>2. CASE b # body
      <4>1. b \in written \ overwritten  BY <2>1, <2>5, <3>2
      <4>2. CASE InRoot(b)
        <5>1. PICK z \in Scopes, m \in Names : b \in Body(skill[z][m])  BY <4>2 DEF InRoot
        <5>2. <<z, m>> # <<s, n>>  BY <2>5, <5>1
        <5> QED  BY <2>3, <5>1, <5>2 DEF InRoot
      <4>3. CASE InGraveyard(b)  BY <2>1, <4>3 DEF InGraveyard
      <4> QED  BY <1>0, <4>1, <4>2, <4>3
    <3> QED  BY <3>1, <3>2
  <2> QED  BY <2>2, <2>6, KeptIs
<1>2. ASSUME NEW s \in Scopes, NEW n \in Names, NEW replace \in BOOLEAN, CutAdd(s, n, replace)
      PROVE  SkillType' /\ SkillsAreKept'
  <2> DEFINE e == IF skill[s][n].dir = "full" THEN [dir |-> "full", name |-> n, body |-> 0]
                                              ELSE [NoSkill EXCEPT !.dir = "bare", !.name = n]
  <2>1. /\ skill' = [skill EXCEPT ![s][n] = e] /\ written' = written
        /\ removed' = removed /\ index' = index
    BY <1>2, CellsAre DEF CutAdd
  <2>2. SkillType'
    <3>1. removed' = [z \in Scopes |-> removed'[z]]  BY <2>1 DEF SkillType
    <3>2. e \in [dir : Dirs, name : Names \cup {""}, body : Nat \cup written']  BY DEF Dirs, NoSkill
    <3> QED  BY <2>1, <3>1, <3>2, CellTyped
  <2>3. \A z \in Scopes, m \in Names : <<z, m>> # <<s, n>> => skill'[z][m] = skill[z][m]
    BY <2>1, CellChanges
  <2>4. overwritten \subseteq overwritten' /\ Body(skill[s][n]) \subseteq overwritten'
    <3>1. CASE replace  BY <1>2, <3>1 DEF CutAdd
    <3>2. CASE ~replace
      <4>1. skill[s][n].dir = "none"  BY <1>2, <3>2 DEF CutAdd, MayAdd
      <4> QED  BY <1>2, <3>2, <4>1 DEF CutAdd, Body
    <3> QED  BY <3>1, <3>2
  <2>5. ASSUME NEW b \in written' \ overwritten' PROVE InRoot(b)' \/ InGraveyard(b)'
    <3>1. b \in written \ overwritten  BY <2>1, <2>4
    <3>2. CASE InRoot(b)
      <4>1. PICK z \in Scopes, m \in Names : b \in Body(skill[z][m])  BY <3>2 DEF InRoot
      <4>2. <<z, m>> # <<s, n>>  BY <2>4, <4>1
      <4> QED  BY <2>3, <4>1, <4>2 DEF InRoot
    <3>3. CASE InGraveyard(b)  BY <2>1, <3>3 DEF InGraveyard
    <3> QED  BY <1>0, <3>1, <3>2, <3>3
  <2> QED  BY <2>2, <2>5, KeptIs
<1>3. ASSUME NEW s \in Scopes, NEW n \in Names, RemoveSkill(s, n)
      PROVE  SkillType' /\ SkillsAreKept'
  <2>1. /\ skill' = [skill EXCEPT ![s][n] = NoSkill] /\ written' = written
        /\ overwritten' = overwritten /\ index' = index
    BY <1>3 DEF RemoveSkill
  <2>2. PICK path : /\ path \notin DOMAIN removed[s]
                    /\ removed' = [removed EXCEPT ![s] = Put(@, path, Body(skill[s][n]))]
    BY <1>3 DEF RemoveSkill, FreeRemovedPath
  <2>3. removed = [z \in Scopes |-> removed[z]]  BY DEF SkillType
  <2>4. \A z \in Scopes : removed'[z] = IF z = s THEN Put(removed[s], path, Body(skill[s][n]))
                                                 ELSE removed[z]
    BY <2>2, <2>3
  <2>5. SkillType'
    <3>1. removed' = [z \in Scopes |-> removed'[z]]  BY <2>2, <2>3
    <3>2. NoSkill \in [dir : Dirs, name : Names \cup {""}, body : Nat \cup written']  BY DEF Dirs, NoSkill
    <3> QED  BY <2>1, <3>1, <3>2, CellTyped
  <2>6. \A z \in Scopes, m \in Names : <<z, m>> # <<s, n>> => skill'[z][m] = skill[z][m]
    BY <2>1, CellChanges
  <2>7. \A b \in Body(skill[s][n]) : InGraveyard(b)'
    <3>1. path \in DOMAIN removed'[s] /\ removed'[s][path] = Body(skill[s][n])  BY <2>4 DEF Put
    <3> QED  BY <3>1 DEF InGraveyard
  <2>8. ASSUME NEW b, InGraveyard(b) PROVE InGraveyard(b)'
    <3>1. PICK z \in Scopes : \E p \in DOMAIN removed[z] : b \in removed[z][p]
      BY <2>8 DEF InGraveyard
    <3>2. PICK p \in DOMAIN removed[z] : b \in removed[z][p]  BY <3>1
    <3>3. p \in DOMAIN removed'[z] /\ removed'[z][p] = removed[z][p]  BY <2>2, <2>4, <3>2 DEF Put
    <3> QED  BY <3>2, <3>3 DEF InGraveyard
  <2>9. ASSUME NEW b \in written' \ overwritten' PROVE InRoot(b)' \/ InGraveyard(b)'
    <3>1. CASE InRoot(b)
      <4>1. PICK z \in Scopes, m \in Names : b \in Body(skill[z][m])  BY <3>1 DEF InRoot
      <4>2. CASE <<z, m>> = <<s, n>>  BY <2>7, <4>1, <4>2
      <4>3. CASE <<z, m>> # <<s, n>>  BY <2>6, <4>1, <4>3 DEF InRoot
      <4> QED  BY <4>2, <4>3
    <3> QED  BY <1>0, <2>1, <2>8, <3>1
  <2> QED  BY <2>5, <2>9, KeptIs
<1>4. CASE index' = [l \in Readers |-> index'[l]] /\ UNCHANGED <<skill, removed, written, overwritten>>
  <2>1. SkillType'  BY <1>4 DEF SkillType
  <2>2. SkillsAreKept'  BY <1>4 DEF SkillsAreKept
  <2> QED  BY <2>1, <2>2
<1> QED  BY <1>1, <1>2, <1>3, <1>4 DEF SkillStep

-----------------------------------------------------------------------------
(* What the harness does for a request.                                    *)

\* The thread t has changed a, and is to tell what is so now.
Changing(t, a) ==
  /\ a \in Subjects /\ request[t].about = a
  /\ request[t].op \in {"toggle", "skill"} /\ request[t].at = "act"
  /\ \E q \in Requests :
       /\ request' = [request EXCEPT ![t] = q] /\ Shape(q)
       /\ q.op = request[t].op /\ q.at = "tell" /\ q.about = a /\ q.arg = Truth(a)'
       /\ q.since = request[t].since
  /\ unsure' = Doubt(t)
  /\ \A b \in Subjects : b # a => Truth(b)' = Truth(b)
  /\ \A s \in Scopes, n \in Names :
       IF <<s, n>> = a THEN skill'[s][n].dir \in {"full", "none"} ELSE skill'[s][n] = skill[s][n]
  /\ UNCHANGED <<index, tableVars, feed>>

LEMMA TruthIs ==
  /\ Truth(<<"plugins">>) = ActiveFor /\ Truth(<<"plugins">>)' = ActiveFor'
  /\ \A s \in Scopes, n \in Names :
       /\ Truth(<<s, n>>) = SkillThere(s, n) /\ Truth(<<s, n>>)' = SkillThere(s, n)'
<1>1. \A s \in Scopes, n \in Names : <<s, n>> # <<"plugins">>  BY Distinct
<1> QED  BY <1>1 DEF Truth

LEMMA SubjectsAre ==
  ASSUME NEW a \in Subjects
  PROVE  a = <<"plugins">> \/ \E s \in Scopes, n \in Names : a = <<s, n>>
BY DEF Subjects

\* What is so of a rule set or a skill depends on that alone.
LEMMA TruthStays ==
  ASSUME NEW a \in Subjects
  PROVE  /\ a = <<"plugins">> /\ UNCHANGED plugins => Truth(a)' = Truth(a)
         /\ \A s \in Scopes, n \in Names : a = <<s, n>> /\ skill'[s][n] = skill[s][n] => Truth(a)' = Truth(a)
<1>1. UNCHANGED plugins => ActiveFor' = ActiveFor  BY DEF ActiveFor
<1>2. \A s \in Scopes, n \in Names : skill'[s][n] = skill[s][n] => SkillThere(s, n)' = SkillThere(s, n)
  BY DEF SkillThere
<1> QED  BY <1>1, <1>2, TruthIs

LEMMA ActiveShipped ==
  ASSUME TypeInvariant, NEW c \in Contributors, NEW on \in BOOLEAN
  PROVE  SetPluginEnabled(c, on) => ActiveFor' \in SUBSET Contributors
BY ContributorsAssumption DEF TypeInvariant, SetPluginEnabled, EnablementWrites, ActiveFor

LEMMA ToggleIs ==
  ASSUME TypeInvariant, RoomType, SkillType, NEW t \in Threads, ApplyToggle(t)
  PROVE  Changing(t, <<"plugins">>) /\ UNCHANGED <<skillVars, run>>
<1> DEFINE a == <<"plugins">>
           q == [request[t] EXCEPT !.at = "tell", !.arg = ActiveFor']
<1>1. /\ request[t].op = "toggle" /\ request[t].at = "act" /\ request[t].about = a
      /\ request[t].arg \in Choices /\ request[t].user \in Users
  BY ThreadsAre DEF ApplyToggle, Shape
<1>2. request[t].arg.id \in Contributors /\ request[t].arg.on \in BOOLEAN  BY <1>1 DEF Choices
<1>3. ActiveFor' \in SUBSET Contributors /\ ActiveFor' \in Args
  <2>1. SetPluginEnabled(request[t].arg.id, request[t].arg.on)  BY DEF ApplyToggle
  <2>2. ActiveFor' \in SUBSET Contributors  BY <1>2, <2>1, ActiveShipped
  <2> QED  BY <2>2 DEF Args
<1>4. request' = [request EXCEPT ![t] = q]  BY ThreadsAre DEF ApplyToggle, RoomType, Requests
<1>5. /\ q \in Requests /\ q.op = "toggle" /\ q.at = "tell" /\ q.about = a /\ q.arg = ActiveFor'
      /\ q.since = request[t].since /\ q.user = request[t].user
  BY <1>1, <1>3, ThreadsAre DEF Requests
<1>6. Shape(q)
  <2> HIDE DEF q
  <2> QED  BY <1>1, <1>3, <1>5 DEF Shape
<1>7. \A b \in Subjects : b # a => Truth(b)' = Truth(b)
  <2>1. skill' = skill  BY DEF ApplyToggle, skillVars
  <2>2. \A s \in Scopes, n \in Names : skill'[s][n] = skill[s][n]  BY <2>1
  <2> QED  BY <2>2, SubjectsAre, TruthStays
<1>8. \A s \in Scopes, n \in Names : <<s, n>> # a /\ skill'[s][n] = skill[s][n]
  BY Distinct DEF ApplyToggle, skillVars
<1>9. /\ unsure' = Doubt(t) /\ UNCHANGED <<skillVars, tableVars, feed, run>>
      /\ index' = index
  BY DEF ApplyToggle, SetPluginEnabled, skillVars
<1>10. a \in Subjects /\ Truth(a)' = ActiveFor'  BY Distinct, TruthIs
<1>11. \E x \in Requests :
         /\ request' = [request EXCEPT ![t] = x] /\ Shape(x)
         /\ x.op = request[t].op /\ x.at = "tell" /\ x.about = a /\ x.arg = Truth(a)'
         /\ x.since = request[t].since
  <2> HIDE DEF q
  <2> QED  BY <1>1, <1>4, <1>5, <1>6, <1>10
<1> HIDE DEF a
<1>12. Changing(t, a) /\ UNCHANGED <<skillVars, run>>
  BY <1>1, <1>7, <1>8, <1>9, <1>10, <1>11 DEF Changing
<1> QED  BY <1>12 DEF a

LEMMA ApplySkillIs ==
  ASSUME RoomType, SkillType, NEW t \in Threads, ApplySkill(t)
  PROVE  \E a \in Subjects : Changing(t, a) /\ SkillStep /\ UNCHANGED extensionVars
<1>1. /\ request[t].op = "skill" /\ request[t].at = "act" /\ request[t].about \in Scopes \X Names
      /\ request[t].arg \in {"add", "replace", "remove"}
  BY ThreadsAre DEF ApplySkill, Shape
<1>2. PICK s \in Scopes, n \in Names : request[t].about = <<s, n>>  BY <1>1
<1> DEFINE v == IF request[t].arg = "remove" THEN "removed" ELSE "added"
           q == [request[t] EXCEPT !.at = "tell", !.arg = v]
<1>3. \/ /\ request[t].arg \in {"add", "replace"}
         /\ \E body : AddSkill(s, n, request[t].arg = "replace", body)
      \/ request[t].arg = "remove" /\ RemoveSkill(s, n)
  BY <1>2 DEF ApplySkill
<1>4. SkillStep
  <2>1. (request[t].arg = "replace") \in BOOLEAN  OBVIOUS
  <2> QED  BY <1>3, <2>1 DEF SkillStep
<1>5. SkillThere(s, n)' = v /\ skill'[s][n].dir \in {"full", "none"}
  <2>1. CASE request[t].arg \in {"add", "replace"}
    <3>1. PICK body : AddSkill(s, n, request[t].arg = "replace", body)  BY <1>3, <2>1
    <3>2. skill' = [skill EXCEPT ![s][n] = [dir |-> "full", name |-> n, body |-> body]]
      BY <3>1 DEF AddSkill
    <3>3. skill'[s][n] = [dir |-> "full", name |-> n, body |-> body]  BY <3>2, CellsAre
    <3>4. skill'[s][n].dir = "full"  BY <3>3
    <3> QED  BY <2>1, <3>4 DEF SkillThere
  <2>2. CASE request[t].arg = "remove"
    <3>1. skill' = [skill EXCEPT ![s][n] = NoSkill]  BY <1>3, <2>2 DEF RemoveSkill
    <3>2. skill'[s][n] = NoSkill  BY <3>1, CellsAre
    <3>3. NoSkill.dir = "none"  BY DEF NoSkill
    <3>4. skill'[s][n].dir = "none"  BY <3>2, <3>3
    <3> QED  BY <2>2, <3>4 DEF SkillThere
  <2> QED  BY <1>1, <2>1, <2>2
<1>6. /\ \A z \in Scopes, m \in Names : <<z, m>> # <<s, n>> => skill'[z][m] = skill[z][m]
      /\ index' = index
  <2>1. PICK e : skill' = [skill EXCEPT ![s][n] = e]  BY <1>3 DEF AddSkill, RemoveSkill
  <2>2. \A z \in Scopes, m \in Names : <<z, m>> # <<s, n>> => skill'[z][m] = skill[z][m]
    BY <2>1, CellChanges
  <2> QED  BY <1>3, <2>2 DEF AddSkill, RemoveSkill
<1>7. request' = [request EXCEPT ![t] = q]
  BY ThreadsAre DEF ApplySkill, RoomType, Requests
<1>8. /\ q \in Requests /\ q.op = "skill" /\ q.at = "tell" /\ q.about = <<s, n>> /\ q.arg = v
      /\ q.since = request[t].since /\ q.user = request[t].user
  <2>1. v \in Args  BY DEF Args
  <2> QED  BY <1>1, <1>2, <2>1, ThreadsAre DEF Requests
<1>9. v \in {"added", "removed"}  OBVIOUS
<1>10. Shape(q)
  <2> HIDE DEF q, v
  <2> QED  BY <1>1, <1>2, <1>8, <1>9 DEF Shape
<1>11. PICK a : a = <<s, n>>  OBVIOUS
<1>12. a \in Subjects /\ Truth(a)' = SkillThere(s, n)'  BY <1>11, Distinct, TruthIs
<1>13. \E x \in Requests :
         /\ request' = [request EXCEPT ![t] = x] /\ Shape(x)
         /\ x.op = request[t].op /\ x.at = "tell" /\ x.about = a /\ x.arg = Truth(a)'
         /\ x.since = request[t].since
  <2> HIDE DEF q, v
  <2> QED  BY <1>1, <1>5, <1>7, <1>8, <1>10, <1>11, <1>12
<1>14. \A b \in Subjects : b # a => Truth(b)' = Truth(b)
  <2> SUFFICES ASSUME NEW b \in Subjects, b # a PROVE Truth(b)' = Truth(b)
    OBVIOUS
  <2>1. UNCHANGED plugins  BY DEF ApplySkill, extensionVars
  <2>2. CASE b = <<"plugins">>  BY <2>1, <2>2, TruthStays
  <2>3. CASE \E z \in Scopes, m \in Names : b = <<z, m>>  BY <1>6, <1>11, <2>3, TruthStays
  <2> QED  BY <2>2, <2>3, SubjectsAre
<1>15. unsure' = Doubt(t) /\ UNCHANGED <<tableVars, feed, extensionVars>>  BY DEF ApplySkill
<1>16. \A z \in Scopes, m \in Names :
         IF <<z, m>> = a THEN skill'[z][m].dir \in {"full", "none"} ELSE skill'[z][m] = skill[z][m]
  BY <1>5, <1>6, <1>11
<1>17. Changing(t, a)
  BY <1>1, <1>2, <1>6, <1>11, <1>12, <1>13, <1>14, <1>15, <1>16 DEF Changing
<1> QED  BY <1>4, <1>12, <1>15, <1>17

-----------------------------------------------------------------------------
(* Types.                                                                  *)

LEMMA AskingKeepsType ==
  ASSUME RoomType, NEW t \in Threads, Asking(t)
  PROVE  RoomType'
<1>1. PICK q \in Requests : /\ request' = [request EXCEPT ![t] = q]
                            /\ Shape(q) /\ q.since = Len(feed)
  BY DEF Asking
<1>2. feed' = feed /\ rows' = rows /\ invites' = invites /\ unsure' = unsure
  BY DEF Asking, tableVars
<1>3. /\ feed' \in Seq(Events) /\ Len(feed') \in Nat /\ rows' \in Seq(Members)
      /\ unsure' \subseteq Abouts
  BY <1>2 DEF RoomType
<1>4. q.since <= Len(feed') /\ Len(feed) <= Len(feed')  BY <1>1, <1>2, <1>3
<1> QED  BY <1>1, <1>2, <1>3, <1>4, RequestKeepsType

LEMMA LeavingKeepsType ==
  ASSUME RoomType, NEW t \in Threads, Leaving(t)
  PROVE  RoomType'
<1>1. /\ feed' = feed /\ rows' = rows /\ invites' = invites
      /\ request' = [request EXCEPT ![t] = Idle]
  BY DEF Leaving
<1>2. unsure' \subseteq Abouts
  <2>1. request[t].about \in Abouts /\ unsure \subseteq Abouts  BY ThreadsAre DEF RoomType
  <2> QED  BY <2>1 DEF Leaving
<1>3. feed' \in Seq(Events) /\ Len(feed') \in Nat /\ rows' \in Seq(Members)
  BY <1>1 DEF RoomType
<1>4. Len(feed) <= Len(feed')  BY <1>1, <1>3
<1> QED  BY <1>1, <1>2, <1>3, <1>4, AnsweredKeepsType

LEMMA ChangingKeepsType ==
  ASSUME RoomType, NEW t \in Threads, NEW a, Changing(t, a)
  PROVE  RoomType'
<1>1. PICK q \in Requests : /\ request' = [request EXCEPT ![t] = q]
                            /\ Shape(q) /\ q.since = request[t].since
  BY DEF Changing
<1>2. feed' = feed /\ rows' = rows /\ invites' = invites  BY DEF Changing, tableVars
<1>3. unsure' \subseteq Abouts
  <2>1. request[t].about \in Abouts /\ unsure \subseteq Abouts  BY ThreadsAre DEF RoomType
  <2> QED  BY <2>1 DEF Changing, Doubt
<1>4. feed' \in Seq(Events) /\ Len(feed') \in Nat /\ rows' \in Seq(Members)
  BY <1>2 DEF RoomType
<1>5. Len(feed) <= Len(feed') /\ q.since <= Len(feed')  BY <1>1, <1>2, <1>4, ThreadsAre
<1> QED  BY <1>1, <1>2, <1>3, <1>4, <1>5, RequestKeepsType

\* A new row, and the thread that is to announce it.
Joining(t) ==
  /\ request[t].op = "join" /\ request[t].at = "act"
  /\ \E q \in Requests, m \in Members :
       /\ request' = [request EXCEPT ![t] = q] /\ Shape(q)
       /\ q.op = "join" /\ q.at = "tell" /\ q.row = Len(rows) + 1
       /\ q.about = <<"row", Len(rows) + 1>> /\ q.since = request[t].since
       /\ rows' = Append(rows, m) /\ ~m.removed
  /\ UNCHANGED <<extensionVars, skillVars, invites, feed, unsure>>

LEMMA JoinIs ==
  ASSUME RoomType, NEW t \in Threads, Join(t)
  PROVE  Joining(t)
<1> DEFINE q == [request[t] EXCEPT !.at = "tell", !.row = Len(rows'), !.about = <<"row", Len(rows')>>]
           m == [user |-> request[t].user, role |-> request[t].arg, removed |-> FALSE]
<1>1. /\ request[t].op = "join" /\ request[t].at = "act" /\ request[t].user \in Users
      /\ request[t].arg \in Roles
  BY ThreadsAre DEF Join, Shape
<1>2. m \in Members /\ ~m.removed  BY <1>1 DEF Members
<1>3. rows' = Append(rows, m)  BY DEF Join
<1>4. Len(rows') = Len(rows) + 1 /\ Len(rows) \in Nat
  <2> HIDE DEF m
  <2> QED  BY <1>2, <1>3 DEF RoomType
<1>5. request' = [request EXCEPT ![t] = q]  BY ThreadsAre DEF Join, RoomType, Requests
<1>6. <<"row", Len(rows')>> \in Abouts /\ Len(rows') \in Nat  BY <1>4 DEF Abouts
<1>7. /\ q \in Requests /\ q.op = "join" /\ q.at = "tell" /\ q.row = Len(rows')
      /\ q.about = <<"row", Len(rows')>> /\ q.since = request[t].since /\ q.user = request[t].user
  BY <1>1, <1>6, ThreadsAre DEF Requests
<1>8. Shape(q)
  <2> HIDE DEF q
  <2> QED  BY <1>1, <1>7 DEF Shape
<1>9. UNCHANGED <<extensionVars, skillVars, invites, feed, unsure>>  BY DEF Join
<1> HIDE DEF q, m
<1> QED  BY <1>1, <1>2, <1>3, <1>4, <1>5, <1>7, <1>8, <1>9 DEF Joining

LEMMA JoiningKeepsType ==
  ASSUME RoomType, NEW t \in Threads, Joining(t)
  PROVE  RoomType'
<1>1. PICK q \in Requests, m \in Members :
        /\ request' = [request EXCEPT ![t] = q] /\ Shape(q) /\ q.since = request[t].since
        /\ rows' = Append(rows, m)
  BY DEF Joining
<1>2. feed' = feed /\ invites' = invites /\ unsure' = unsure  BY DEF Joining
<1>3. /\ feed' \in Seq(Events) /\ Len(feed') \in Nat /\ rows' \in Seq(Members)
      /\ unsure' \subseteq Abouts
  BY <1>1, <1>2 DEF RoomType
<1>4. Len(feed) <= Len(feed') /\ q.since <= Len(feed')  BY <1>1, <1>2, <1>3, ThreadsAre
<1> QED  BY <1>1, <1>2, <1>3, <1>4, RequestKeepsType

LEMMA RemovalKeepsRows ==
  ASSUME RoomType, People, NEW t \in Threads, Remove(t)
  PROVE  /\ rows' \in Seq(Members)
         /\ \E r \in DOMAIN rows :
              /\ request[t].about = <<"row", r>> /\ (Announced(r) \/ <<"row", r>> \in unsure')
              /\ rows' = [rows EXCEPT ![r].removed = TRUE]
<1>1. PICK r \in DOMAIN rows : request[t].about = <<"row", r>>
  BY DEF Remove, People, Targets
<1>0. Announced(r) \/ <<"row", r>> \in unsure'
  <2>1. request[t].about[2] = r  BY <1>1
  <2> QED  BY <1>1, <2>1, RemoveIs
<1>2. rows' = [rows EXCEPT ![r].removed = TRUE]
  <2>1. request[t].about[2] = r  BY <1>1
  <2> QED  BY <2>1 DEF Remove
<1>3. [rows[r] EXCEPT !.removed = TRUE] \in Members  BY <1>1, RowsAre DEF Members
<1>4. rows' \in Seq(Members)
  <2>1. rows' = [rows EXCEPT ![r] = [rows[r] EXCEPT !.removed = TRUE]]  BY <1>2
  <2> QED  BY <1>1, <1>3, <2>1 DEF RoomType
<1> QED  BY <1>0, <1>1, <1>2, <1>4

\* An invite changes and nothing else.
Inviting ==
  /\ invites' \in [Invites -> [role : Roles, status : {"none", "usable", "revoked", "expired"}]]
  /\ UNCHANGED <<extensionVars, skillVars, rows, feed, request, unsure>>

LEMMA InvitingIs ==
  ASSUME RoomType, Generate \/ Revoke \/ Expire \/ Archive
  PROVE  Inviting
<1> DEFINE Kinds == [role : Roles, status : {"none", "usable", "revoked", "expired"}]
<1>1. CASE Generate
  <2>1. PICK i \in Invites, role \in {"owner", "viewer"} :
          invites' = [invites EXCEPT ![i] = [role |-> role, status |-> "usable"]]
    BY <1>1 DEF Generate
  <2>2. [role |-> role, status |-> "usable"] \in Kinds  BY DEF Roles
  <2>3. invites' \in [Invites -> Kinds]
    <3> HIDE DEF Kinds
    <3>1. invites \in [Invites -> Kinds]  BY DEF RoomType, Kinds
    <3> QED  BY <2>1, <2>2, <3>1
  <2> QED  BY <1>1, <2>3 DEF Generate, Inviting
<1>2. CASE Revoke
  <2>1. PICK i \in Invites : invites' = [invites EXCEPT ![i].status = "revoked"]  BY <1>2 DEF Revoke
  <2>2. invites' \in [Invites -> Kinds]  BY <2>1 DEF RoomType
  <2> QED  BY <1>2, <2>2 DEF Revoke, Inviting
<1>3. CASE Expire
  <2>1. PICK i \in Invites : invites' = [invites EXCEPT ![i].status = "expired"]  BY <1>3 DEF Expire
  <2>2. invites' \in [Invites -> Kinds]  BY <2>1 DEF RoomType
  <2> QED  BY <1>3, <2>2 DEF Expire, Inviting
<1>4. CASE Archive
  BY <1>4 DEF Archive, Inviting, RoomType
<1> QED  BY <1>1, <1>2, <1>3, <1>4

LEMMA InvitingKeepsType ==
  ASSUME RoomType, Inviting
  PROVE  RoomType'
BY DEF RoomType, Inviting

-----------------------------------------------------------------------------
(* The steps of the room.                                                  *)

Joined(t, e) ==
  /\ request[t].op = "join" /\ request[t].at = "tell"
  /\ e.by = request[t].row /\ e.says = "joined" /\ rows' = rows
Removing(t, e) ==
  /\ request[t].op = "remove" /\ e.by \in Active /\ e.says = "removed"
  /\ rows' \in Seq(Members)
  /\ \E r \in DOMAIN rows : /\ request[t].about = <<"row", r>>
                            /\ Announced(r) \/ <<"row", r>> \in unsure'
                            /\ rows' = [rows EXCEPT ![r].removed = TRUE]
Chatting(t, e) ==
  /\ request[t].op = "chat" /\ e.by = request[t].row /\ e.says = "chat_message" /\ rows' = rows
Recording(t, e) ==
  /\ request[t].op \in {"toggle", "skill"} /\ request[t].at = "tell"
  /\ request[t].about \in Subjects /\ Word(e) = request[t].arg
  /\ e.by \in Active \cup {0} /\ rows' = rows

Quietly ==
  /\ UNCHANGED <<plugins, skill, rows, feed, request, unsure>>
  /\ invites' \in [Invites -> [role : Roles, status : {"none", "usable", "revoked", "expired"}]]

Steps ==
  \/ \E t \in Threads : Asking(t) \/ Leaving(t) \/ Joining(t)
  \/ \E t \in Threads, a \in Subjects : Changing(t, a)
  \/ \E t \in Threads : \E e :
       Telling(t, e) /\ (Joined(t, e) \/ Removing(t, e) \/ Chatting(t, e) \/ Recording(t, e))
  \/ Quietly

\* A skill that is not written whole is in doubt.
LEMMA CutIs ==
  ASSUME RoomType, SkillType, NEW t \in Threads, request[t].op = "skill", request[t].at = "act",
         CutAdd(request[t].about[1], request[t].about[2], request[t].arg = "replace"),
         unsure' = unsure \cup {request[t].about}, Answer(t), UNCHANGED <<plugins, rows, invites, feed>>
  PROVE  SkillStep /\ Leaving(t) /\ UNCHANGED index
<1>2. request[t].about \in Scopes \X Names  BY ThreadsAre DEF Shape
<1>3. PICK s \in Scopes, n \in Names : request[t].about = <<s, n>>  BY <1>2
<1>4. CutAdd(s, n, request[t].arg = "replace")  BY <1>3
<1>5. (request[t].arg = "replace") \in BOOLEAN  OBVIOUS
<1>6. SkillStep  BY <1>4, <1>5 DEF SkillStep
<1>7. \A z \in Scopes, m \in Names : <<z, m>> # <<s, n>> => skill'[z][m] = skill[z][m]
  <2>1. PICK e : skill' = [skill EXCEPT ![s][n] = e]  BY <1>4, CellsAre DEF CutAdd
  <2> QED  BY <2>1, CellChanges
<1>8. \A z \in Scopes, m \in Names : <<z, m>> \notin unsure' => skill'[z][m] = skill[z][m]
  <2>1. <<s, n>> \in unsure'  BY <1>3
  <2> QED  BY <1>7, <2>1
<1>9. UNCHANGED index  BY <1>4 DEF CutAdd
<1>10. Leaving(t)  BY <1>8 DEF Leaving, Answer
<1> QED  BY <1>6, <1>9, <1>10

LEMMA WriteFailsIs ==
  ASSUME RoomType, SkillType, NEW t \in Threads, WriteFails(t)
  PROVE  SkillStep /\ Leaving(t) /\ UNCHANGED <<index, extensionVars>>
<1>1. UNCHANGED <<plugins, rows, invites, feed, extensionVars>>
  BY DEF WriteFails, extensionVars, tableVars
<1> QED  BY <1>1, CutIs DEF WriteFails

LEMMA CrashIs ==
  ASSUME RoomType, SkillType, CrashHarness, ~UNCHANGED <<skillVars, request, unsure>>
  PROVE  SkillStep /\ (\E t \in Threads : Leaving(t)) /\ UNCHANGED index
<1>1. PICK t \in Threads :
        /\ request[t].op = "skill" /\ request[t].at = "act"
        /\ CutAdd(request[t].about[1], request[t].about[2], request[t].arg = "replace")
        /\ unsure' = unsure \cup {request[t].about}
        /\ Answer(t)
  BY DEF CrashHarness
<1>2. UNCHANGED <<plugins, rows, invites, feed>>  BY DEF CrashHarness, tableVars
<1> QED  BY <1>1, <1>2, CutIs

LEMMA StepsAre ==
  ASSUME TypeInvariant, RoomType, SkillType, People, [Next]_vars
  PROVE  Steps
<1>1. ASSUME NEW t \in Threads, Rails(t) PROVE Steps
  <2>1. CASE \/ AskJoin(t) \/ AskRemove(t) \/ AskChat(t) \/ AskToggle(t)
             \/ AskSkill(t) \/ AskSkillThere(t) \/ AskRun(t)
    BY <2>1, AsksIs DEF Steps
  <2>2. CASE Refused(t) \/ Unannounced(t) \/ LoseThread(t) \/ Start(t) \/ Busy(t)
    BY <2>2, LeavesIs DEF Steps
  <2>10. CASE WriteFails(t)  BY <2>10, WriteFailsIs DEF Steps
  <2>3. CASE Join(t)
    BY <2>3, JoinIs DEF Steps
  <2>4. CASE AnnounceParticipantJoined(t)
    <3>1. PICK e : /\ Telling(t, e) /\ e.by = request[t].row /\ e.says = "joined"
                   /\ UNCHANGED <<rows, archived>>
      BY <2>4, JoinedIs
    <3>2. Joined(t, e)  BY <2>4, <3>1 DEF Joined, AnnounceParticipantJoined
    <3> QED  BY <3>1, <3>2 DEF Steps
  <2>5. CASE Remove(t)
    <3>1. PICK e : Telling(t, e) /\ e.by \in Active /\ e.says = "removed"  BY <2>5, RemoveIs
    <3>2. Removing(t, e)
      <4>1. request[t].op = "remove"  BY <2>5 DEF Remove
      <4> QED  BY <2>5, <3>1, <4>1, RemovalKeepsRows DEF Removing
    <3> QED  BY <3>1, <3>2 DEF Steps
  <2>6. CASE Chat(t)
    <3>1. PICK e : /\ Telling(t, e) /\ e.by = request[t].row /\ e.says = "chat_message"
                   /\ UNCHANGED <<rows, archived>>
      BY <2>6, ChatIs
    <3>2. Chatting(t, e)  BY <2>6, <3>1 DEF Chatting, Chat
    <3> QED  BY <3>1, <3>2 DEF Steps
  <2>7. CASE ApplyToggle(t)
    <3>1. Changing(t, <<"plugins">>) /\ <<"plugins">> \in Subjects  BY <2>7, ToggleIs, Distinct
    <3> QED  BY <3>1 DEF Steps
  <2>8. CASE ApplySkill(t)
    BY <2>8, ApplySkillIs DEF Steps
  <2>9. CASE RecordChange(t)
    <3>1. PICK e : /\ Telling(t, e) /\ e.by \in Active \cup {0}
                   /\ request[t].about \in Subjects /\ Word(e) = request[t].arg
                   /\ UNCHANGED <<rows, archived>>
      BY <2>9, ChangeIs
    <3>2. Recording(t, e)  BY <2>9, <3>1 DEF Recording, RecordChange
    <3> QED  BY <3>1, <3>2 DEF Steps
  <2> QED  BY <1>1, <2>1, <2>2, <2>3, <2>4, <2>5, <2>6, <2>7, <2>8, <2>9, <2>10 DEF Rails
<1>2. ASSUME NEW l \in Lanes, Runs(l) PROVE Steps
  <2>1. UNCHANGED plugins
    BY <1>2 DEF Runs, RunNext, BeginTurn, Abort, EndRun, AskForTools, GateCall, NextTurn,
                ToolReturns, Dispatch, Step
  <2>2. UNCHANGED <<skill, rows, invites, feed, request, unsure>>
    BY <1>2 DEF Runs, ForgetSkills, skillVars, tableVars
  <2> QED  BY <2>1, <2>2 DEF Steps, Quietly, RoomType
<1>3. CASE Generate \/ Revoke \/ Expire \/ Archive
  <2>1. Inviting  BY <1>3, InvitingIs
  <2> QED  BY <2>1 DEF Inviting, Steps, Quietly, extensionVars, skillVars
<1>4. CASE CrashHarness
  <2>1. CASE UNCHANGED <<skillVars, request, unsure>>
    BY <1>4, <2>1 DEF CrashHarness, Steps, Quietly, RoomType, skillVars, tableVars
  <2> QED  BY <1>4, <2>1, CrashIs DEF Steps
<1>5. CASE UNCHANGED vars
  BY <1>5 DEF vars, extensionVars, skillVars, tableVars, Steps, Quietly, RoomType
<1> QED  BY <1>1, <1>2, <1>3, <1>4, <1>5 DEF Next

LEMMA StepsKeepType ==
  ASSUME RoomType, Steps
  PROVE  RoomType'
<1>1. ASSUME NEW t \in Threads, NEW e, Telling(t, e),
             Joined(t, e) \/ Removing(t, e) \/ Chatting(t, e) \/ Recording(t, e)
      PROVE  RoomType'
  <2>1. rows' \in Seq(Members)  BY <1>1 DEF Joined, Removing, Chatting, Recording, RoomType
  <2> QED  BY <1>1, <2>1, TellingKeepsType
<1>2. CASE Quietly  BY <1>2 DEF Quietly, RoomType
<1> QED  BY <1>1, <1>2, AskingKeepsType, LeavingKeepsType, JoiningKeepsType, ChangingKeepsType DEF Steps

LEMMA NextKeepsSkills ==
  ASSUME TypeInvariant, RoomType, SkillType, SkillsAreKept, [Next]_vars
  PROVE  SkillType' /\ SkillsAreKept'
<1>0. UNCHANGED skillVars => SkillStep  BY DEF skillVars, SkillStep, SkillType
<1>1. ASSUME NEW t \in Threads, Rails(t) PROVE SkillStep
  <2>1. CASE ApplySkill(t)  BY <2>1, ApplySkillIs
  <2>2. CASE Start(t)
    <3>1. PICK l \in Lanes, selection \in {{}, Names} : ResolveSkills(l, mode, selection)
      BY <2>2 DEF Start
    <3>2. index' = [k \in Readers |-> index'[k]]  BY <3>1 DEF ResolveSkills, SkillType
    <3> QED  BY <3>1, <3>2 DEF ResolveSkills, SkillStep
  <2>3. CASE ApplyToggle(t)  BY <1>0, <2>3 DEF ApplyToggle
  <2>4. CASE Join(t) \/ AnnounceParticipantJoined(t) \/ Remove(t) \/ Chat(t) \/ RecordChange(t)
    BY <1>0, <2>4 DEF Join, AnnounceParticipantJoined, Remove, Chat, RecordChange
  <2>5. CASE Refused(t) \/ Unannounced(t) \/ LoseThread(t) \/ Busy(t)
    BY <1>0, <2>5 DEF Refused, Unannounced, LoseThread, Busy
  <2>6. CASE \/ AskJoin(t) \/ AskRemove(t) \/ AskChat(t) \/ AskToggle(t)
             \/ AskSkill(t) \/ AskSkillThere(t) \/ AskRun(t)
    BY <1>0, <2>6 DEF AskJoin, AskRemove, AskChat, AskToggle, AskSkill, AskSkillThere,
                        AskRun, Accept
  <2>7. CASE WriteFails(t)  BY <2>7, WriteFailsIs
  <2> QED  BY <1>1, <2>1, <2>2, <2>3, <2>4, <2>5, <2>6, <2>7 DEF Rails
<1>2. ASSUME NEW l \in Lanes, Runs(l) PROVE SkillStep
  <2>1. CASE ForgetSkills(l)
    <3>1. index' = [k \in Readers |-> index'[k]]  BY <2>1 DEF ForgetSkills, SkillType
    <3> QED  BY <2>1, <3>1 DEF ForgetSkills, SkillStep
  <2> QED  BY <1>0, <1>2, <2>1 DEF Runs
<1>3. ASSUME Generate \/ Revoke \/ Expire \/ Archive PROVE SkillStep
  BY <1>0, <1>3, InvitingIs DEF Inviting
<1>4. ASSUME CrashHarness PROVE SkillStep
  <2>1. CASE UNCHANGED <<skillVars, request, unsure>>  BY <1>0, <2>1
  <2> QED  BY <1>4, <2>1, CrashIs
<1>5. ASSUME UNCHANGED vars PROVE SkillStep  BY <1>0, <1>5 DEF vars
<1> QED  BY <1>1, <1>2, <1>3, <1>4, <1>5, SkillStepKeeps DEF Next

\* Every step of the room is a step of Extensions, or leaves rules and runs alone.
LEMMA RoomStep ==
  ASSUME GateInvariant, RoomType, SkillType, [Next]_vars
  PROVE  [ExtensionsNext]_extensionVars
<1>1. ASSUME NEW t \in Threads, Rails(t) PROVE [ExtensionsNext]_extensionVars
  <2>1. CASE ApplyToggle(t)
    <3>1. request[t].op = "toggle" /\ request[t].at = "act"  BY <2>1 DEF ApplyToggle
    <3>2. request[t].arg \in Choices  BY <3>1, ThreadsAre DEF Shape
    <3>3. request[t].arg.id \in Contributors /\ request[t].arg.on \in BOOLEAN  BY <3>2 DEF Choices
    <3> QED  BY <2>1, <3>3 DEF ApplyToggle, ExtensionsNext
  <2>2. CASE Start(t)  BY <2>2 DEF Start, ExtensionsNext
  <2>3. CASE ApplySkill(t)  BY <2>3 DEF ApplySkill
  <2>4. CASE Join(t) \/ AnnounceParticipantJoined(t) \/ Remove(t) \/ Chat(t) \/ RecordChange(t)
    BY <2>4 DEF Join, AnnounceParticipantJoined, Remove, Chat, RecordChange
  <2>5. CASE Refused(t) \/ Unannounced(t) \/ LoseThread(t) \/ Busy(t)
    BY <2>5 DEF Refused, Unannounced, LoseThread, Busy
  <2>6. CASE \/ AskJoin(t) \/ AskRemove(t) \/ AskChat(t) \/ AskToggle(t)
             \/ AskSkill(t) \/ AskSkillThere(t) \/ AskRun(t)
    BY <2>6 DEF AskJoin, AskRemove, AskChat, AskToggle, AskSkill, AskSkillThere,
                        AskRun, Accept
  <2>7. CASE WriteFails(t)  BY <2>7, WriteFailsIs
  <2> QED  BY <1>1, <2>1, <2>2, <2>3, <2>4, <2>5, <2>6, <2>7 DEF Rails
<1>2. ASSUME NEW l \in Lanes, Runs(l) PROVE [ExtensionsNext]_extensionVars
  BY <1>2 DEF Runs, ExtensionsNext
<1>3. CASE Generate \/ Revoke \/ Expire \/ Archive
  BY <1>3 DEF Generate, Revoke, Expire, Archive
<1>4. CASE CrashHarness
  <2>1. run' = [l \in Lanes |-> NoRun] /\ UNCHANGED plugins  BY <1>4 DEF CrashHarness
  <2>2. CASE \E l \in Lanes : run[l].at # "none"  BY <2>1, <2>2 DEF Crash, ExtensionsNext
  <2>3. CASE \A l \in Lanes : run[l].at = "none"
    <3>1. \A l \in Lanes : run[l] = NoRun  BY <2>3 DEF GateInvariant, Cleared
    <3>2. run = [l \in Lanes |-> run[l]]  BY DEF GateInvariant, TypeInvariant
    <3>3. run' = run  BY <2>1, <3>1, <3>2
    <3> QED  BY <2>1, <3>3 DEF extensionVars
  <2> QED  BY <2>2, <2>3
<1>5. CASE UNCHANGED vars  BY <1>5 DEF vars
<1> QED  BY <1>1, <1>2, <1>3, <1>4, <1>5 DEF Next

-----------------------------------------------------------------------------
(* The last change of each rule set and each skill is told.                *)

LEMMA SettledStays ==
  ASSUME NEW a, Settled(a), Truth(a)' = Truth(a),
         \A u \in Threads : Tells(u, a)' <=> Tells(u, a),
         \A u \in Threads : Tells(u, a) => request'[u].arg = request[u].arg,
         Told(a)' = Told(a), \A i \in Told(a) : i \in DOMAIN feed' /\ feed'[i] = feed[i]
  PROVE  Settled(a)'
<1>1. /\ \A t, u \in Threads : Tells(t, a)' /\ Tells(u, a)' => t = u
      /\ \A t \in Threads : Tells(t, a)' => request'[t].arg = Truth(a)'
  BY DEF Settled
<1>2. \A i \in DOMAIN feed : Newest(a, i) /\ Word(feed[i]) = Truth(a) =>
        i \in DOMAIN feed' /\ Newest(a, i)' /\ Word(feed'[i]) = Truth(a)'
  BY DEF Newest
<1>3. \/ \E t \in Threads : Tells(t, a)'
      \/ Told(a)' = {}
      \/ \E i \in DOMAIN feed' : Newest(a, i)' /\ Word(feed'[i]) = Truth(a)'
  BY <1>2 DEF Settled
<1> QED  BY <1>1, <1>3 DEF Settled, Word

\* While the feed stays the same, so does what it says.
LEMMA FeedStays ==
  ASSUME RoomType, UNCHANGED feed, NEW a
  PROVE  Told(a)' = Told(a) /\ \A i \in Told(a) : i \in DOMAIN feed' /\ feed'[i] = feed[i]
BY DEF Told

LEMMA TellsIs ==
  ASSUME RoomType, NEW t \in Threads, NEW q \in Requests, request' = [request EXCEPT ![t] = q], NEW a
  PROVE  /\ \A u \in Threads : u # t => (Tells(u, a)' <=> Tells(u, a)) /\ request'[u] = request[u]
         /\ Tells(t, a)' <=> q.at = "tell" /\ q.about = a
BY RequestIs DEF Tells

LEMMA OtherTruths ==
  ASSUME NEW a \in Subjects, UNCHANGED plugins,
         \A s \in Scopes, n \in Names : <<s, n>> = a => skill'[s][n] = skill[s][n]
  PROVE  Truth(a)' = Truth(a)
BY SubjectsAre, TruthStays

LEMMA StepsKeepChanges ==
  ASSUME RoomType, Changes, Steps
  PROVE  Changes'
<1> SUFFICES ASSUME NEW a \in Subjects, a \notin unsure' PROVE Settled(a)'
  BY DEF Changes
<1>1. ASSUME NEW t \in Threads, Asking(t) PROVE Settled(a)'
  <2>1. PICK q \in Requests : request' = [request EXCEPT ![t] = q] /\ q.at = "act"  BY <1>1 DEF Asking
  <2>2. request[t] = Idle  BY <1>1, ThreadsAre DEF Asking, Shape
  <2>3. ~Tells(t, a)  BY <2>2, IdleIs DEF Tells
  <2>4. /\ \A u \in Threads : Tells(u, a)' <=> Tells(u, a)
        /\ \A u \in Threads : Tells(u, a) => request'[u].arg = request[u].arg
    BY <2>1, <2>3, TellsIs
  <2>5. UNCHANGED <<plugins, skill, feed, unsure>>  BY <1>1 DEF Asking, extensionVars, skillVars
  <2>6. Settled(a)  BY <2>5 DEF Changes
  <2>7. Truth(a)' = Truth(a)  BY <2>5, OtherTruths
  <2> QED  BY <2>4, <2>5, <2>6, <2>7, FeedStays, SettledStays
<1>2. ASSUME NEW t \in Threads, Leaving(t) PROVE Settled(a)'
  <2>1. request' = [request EXCEPT ![t] = Idle] /\ UNCHANGED <<plugins, feed>> /\ unsure \subseteq unsure'
    BY <1>2 DEF Leaving
  <2>2. ~Tells(t, a)  BY <1>2 DEF Tells, Leaving
  <2>3. /\ \A u \in Threads : Tells(u, a)' <=> Tells(u, a)
        /\ \A u \in Threads : Tells(u, a) => request'[u].arg = request[u].arg
    BY <2>1, <2>2, IdleIs, TellsIs
  <2>4. Settled(a)  BY <2>1 DEF Changes
  <2>5. Truth(a)' = Truth(a)
    <3>1. \A s \in Scopes, n \in Names : <<s, n>> = a => skill'[s][n] = skill[s][n]
      BY <1>2 DEF Leaving
    <3> QED  BY <2>1, <3>1, OtherTruths
  <2> QED  BY <2>1, <2>3, <2>4, <2>5, FeedStays, SettledStays
<1>3. ASSUME NEW t \in Threads, Joining(t) PROVE Settled(a)'
  <2>1. PICK q \in Requests : /\ request' = [request EXCEPT ![t] = q]
                              /\ q.about = <<"row", Len(rows) + 1>>
    BY <1>3 DEF Joining
  <2>2. q.about # a  BY <2>1, Distinct
  <2>3. ~Tells(t, a)  BY <1>3 DEF Joining, Tells
  <2>4. /\ \A u \in Threads : Tells(u, a)' <=> Tells(u, a)
        /\ \A u \in Threads : Tells(u, a) => request'[u].arg = request[u].arg
    BY <2>1, <2>2, <2>3, TellsIs
  <2>5. UNCHANGED <<plugins, skill, feed, unsure>>  BY <1>3 DEF Joining, extensionVars, skillVars
  <2>6. Settled(a)  BY <2>5 DEF Changes
  <2>7. Truth(a)' = Truth(a)  BY <2>5, OtherTruths
  <2> QED  BY <2>4, <2>5, <2>6, <2>7, FeedStays, SettledStays
<1>4. ASSUME NEW t \in Threads, NEW b \in Subjects, Changing(t, b) PROVE Settled(a)'
  <2>1. PICK q \in Requests : /\ request' = [request EXCEPT ![t] = q]
                              /\ q.at = "tell" /\ q.about = b /\ q.arg = Truth(b)'
    BY <1>4 DEF Changing
  <2>2. ~Tells(t, a)  BY <1>4 DEF Changing, Tells
  <2>3. UNCHANGED feed /\ unsure' = Doubt(t) /\ request[t].about = b  BY <1>4 DEF Changing
  <2>4. a \notin unsure  BY <2>3 DEF Doubt
  <2>5. CASE a # b
    <3>1. /\ \A u \in Threads : Tells(u, a)' <=> Tells(u, a)
          /\ \A u \in Threads : Tells(u, a) => request'[u].arg = request[u].arg
      BY <2>1, <2>2, <2>5, TellsIs
    <3>2. Settled(a)  BY <2>4 DEF Changes
    <3>3. Truth(a)' = Truth(a)  BY <1>4, <2>5 DEF Changing
    <3> QED  BY <2>3, <3>1, <3>2, <3>3, FeedStays, SettledStays
  <2>6. CASE a = b
    <3>1. ~Overlaps(t)  BY <2>3, <2>6 DEF Doubt
    <3>2. \A u \in Threads : u # t => ~Tells(u, a)  BY <2>3, <2>6, <3>1 DEF Overlaps, Tells
    <3>3. \A u \in Threads : Tells(u, a)' => u = t  BY <2>1, <3>2, TellsIs
    <3>4. Tells(t, a)'  BY <2>1, <2>6, TellsIs
    <3>5. request'[t].arg = Truth(a)'
      <4>1. request'[t] = q  BY <2>1, RequestIs
      <4> QED  BY <2>1, <2>6, <4>1
    <3> QED  BY <3>3, <3>4, <3>5 DEF Settled
  <2> QED  BY <2>5, <2>6
<1>5. ASSUME NEW t \in Threads, NEW e, Telling(t, e),
             Joined(t, e) \/ Removing(t, e) \/ Chatting(t, e) \/ Recording(t, e)
      PROVE  Settled(a)'
  <2>1. /\ e \in Events /\ feed' = Append(feed, e) /\ e.about = request[t].about
        /\ request' = [request EXCEPT ![t] = Idle] /\ UNCHANGED <<plugins, skill>>
        /\ unsure \subseteq unsure'
    BY <1>5 DEF Telling, extensionVars, skillVars
  <2>2. Settled(a)  BY <2>1 DEF Changes
  <2>3. Truth(a)' = Truth(a)  BY <2>1, OtherTruths
  <2>4. feed \in Seq(Events)  BY DEF RoomType
  <2>5. CASE request[t].about # a
    <3>1. Told(a)' = Told(a) /\ \A i \in Told(a) : i \in DOMAIN feed' /\ feed'[i] = feed[i]
      <4>1. Told(a)' = Told(a) /\ \A i \in Told(a) : i \in DOMAIN feed /\ feed'[i] = feed[i]
        BY <2>1, <2>4, <2>5, ToldGrows
      <4>2. DOMAIN feed \subseteq DOMAIN feed'  BY <2>1, <2>4
      <4> QED  BY <4>1, <4>2
    <3>2. ~Tells(t, a)  BY <2>5 DEF Tells
    <3>3. /\ \A u \in Threads : Tells(u, a)' <=> Tells(u, a)
          /\ \A u \in Threads : Tells(u, a) => request'[u].arg = request[u].arg
      BY <2>1, <3>2, IdleIs, TellsIs
    <3> QED  BY <2>2, <2>3, <3>1, <3>3, SettledStays
  <2>6. CASE request[t].about = a
    <3>1. Recording(t, e)
      <4>1. ~Joined(t, e)  BY <2>6, Distinct, ThreadsAre DEF Joined, Shape
      <4>2. ~Removing(t, e)  BY <2>6, Distinct DEF Removing
      <4>3. ~Chatting(t, e)  BY <2>6, Distinct, ThreadsAre DEF Chatting, Shape
      <4> QED  BY <1>5, <4>1, <4>2, <4>3
    <3>2. Tells(t, a)  BY <2>6, <3>1 DEF Recording, Tells
    <3>3. Word(e) = Truth(a)'  BY <2>2, <2>3, <3>1, <3>2 DEF Recording, Settled
    <3>4. \A u \in Threads : ~Tells(u, a)'
      <4>1. ~Tells(t, a)'  BY <2>1, IdleIs, TellsIs
      <4>2. \A u \in Threads : u # t => ~Tells(u, a)  BY <2>2, <3>2 DEF Settled
      <4> QED  BY <2>1, <4>1, <4>2, IdleIs, TellsIs
    <3>5. PICK i \in DOMAIN feed' : Newest(a, i)' /\ feed'[i] = e
      BY <2>1, <2>4, <2>6, ToldGrows
    <3>6. Word(feed'[i]) = Truth(a)'  BY <3>3, <3>5
    <3> QED  BY <3>4, <3>5, <3>6 DEF Settled, Word
  <2> QED  BY <2>5, <2>6
<1>6. CASE Quietly
  <2>1. UNCHANGED <<plugins, skill, feed, request, unsure>>  BY <1>6 DEF Quietly
  <2>2. Settled(a)  BY <2>1 DEF Changes
  <2>3. Truth(a)' = Truth(a)  BY <2>1, OtherTruths
  <2>4. \A u \in Threads : Tells(u, a)' <=> Tells(u, a)  BY <2>1 DEF Tells
  <2> QED  BY <2>1, <2>2, <2>3, <2>4, FeedStays, SettledStays
<1> QED  BY <1>1, <1>2, <1>3, <1>4, <1>5, <1>6 DEF Steps

-----------------------------------------------------------------------------
(* What a run was promised.                                                *)

LEMMA PromisedIs ==
  ASSUME NEW s, NEW n, NEW place, place = <<s, n>>
  PROVE  /\ Promised(place) <=>
              \/ place \in unsure
              \/ skill[s][n].dir \in {"full", "link"}
              \/ skill[s][n].dir = "none" /\ (Told(place) # {} \/ \E t \in Threads : Tells(t, place))
         /\ Promised(place)' <=>
              \/ place \in unsure'
              \/ skill'[s][n].dir \in {"full", "link"}
              \/ skill'[s][n].dir = "none" /\ (Told(place)' # {} \/ \E t \in Threads : Tells(t, place)')
BY DEF Promised

LEMMA StepsKeepPromised ==
  ASSUME RoomType, Steps, NEW s \in Scopes, NEW n \in Names, NEW place, place = <<s, n>>,
         Promised(place)
  PROVE  Promised(place)'
<1>0. place \in Subjects  BY Distinct
<1>1. ASSUME NEW t \in Threads, Asking(t) PROVE Promised(place)'
  <2>1. PICK q \in Requests : request' = [request EXCEPT ![t] = q]  BY <1>1 DEF Asking
  <2>2. request[t] = Idle  BY <1>1, ThreadsAre DEF Asking, Shape
  <2>3. ~Tells(t, place)  BY <2>2, IdleIs DEF Tells
  <2>4. \A u \in Threads : Tells(u, place) => Tells(u, place)'  BY <2>1, <2>3, TellsIs
  <2>5. UNCHANGED <<skill, feed, unsure>>  BY <1>1 DEF Asking, skillVars
  <2>6. Told(place)' = Told(place)  BY <2>5, FeedStays
  <2> QED  BY <2>4, <2>5, <2>6, PromisedIs
<1>2. ASSUME NEW t \in Threads, Leaving(t), place \notin unsure' PROVE Promised(place)'
  <2>1. request' = [request EXCEPT ![t] = Idle] /\ UNCHANGED feed /\ unsure \subseteq unsure'
    BY <1>2 DEF Leaving
  <2>2. ~Tells(t, place)  BY <1>2 DEF Tells, Leaving
  <2>3. \A u \in Threads : Tells(u, place) => Tells(u, place)'  BY <2>1, <2>2, IdleIs, TellsIs
  <2>4. skill'[s][n] = skill[s][n]  BY <1>2 DEF Leaving
  <2>5. Told(place)' = Told(place)  BY <2>1, FeedStays
  <2>6. place \notin unsure  BY <1>2, <2>1
  <2> QED  BY <2>3, <2>4, <2>5, <2>6, PromisedIs
<1>3. ASSUME NEW t \in Threads, Joining(t) PROVE Promised(place)'
  <2>1. PICK q \in Requests : request' = [request EXCEPT ![t] = q]  BY <1>3 DEF Joining
  <2>2. ~Tells(t, place)  BY <1>3 DEF Tells, Joining
  <2>3. \A u \in Threads : Tells(u, place) => Tells(u, place)'  BY <2>1, <2>2, TellsIs
  <2>4. UNCHANGED <<skill, feed, unsure>>  BY <1>3 DEF Joining, skillVars
  <2>5. Told(place)' = Told(place)  BY <2>4, FeedStays
  <2> QED  BY <2>3, <2>4, <2>5, PromisedIs
<1>4. ASSUME NEW t \in Threads, NEW a \in Subjects, Changing(t, a) PROVE Promised(place)'
  <2>1. PICK q \in Requests : /\ request' = [request EXCEPT ![t] = q]
                              /\ q.at = "tell" /\ q.about = a
    BY <1>4 DEF Changing
  <2>2. UNCHANGED feed /\ unsure' = Doubt(t)  BY <1>4 DEF Changing
  <2>3. Told(place)' = Told(place)  BY <2>2, FeedStays
  <2>4. unsure \subseteq unsure'  BY <2>2 DEF Doubt
  <2>5. CASE place = a
    <3>1. Tells(t, place)'  BY <2>1, <2>5, TellsIs
    <3>2. skill'[s][n].dir \in {"full", "none"}  BY <1>4, <2>5 DEF Changing
    <3> QED  BY <3>1, <3>2, PromisedIs
  <2>6. CASE place # a
    <3>1. skill'[s][n] = skill[s][n]  BY <1>4, <2>6 DEF Changing
    <3>2. ~Tells(t, place)  BY <1>4 DEF Changing, Tells
    <3>3. \A u \in Threads : Tells(u, place) => Tells(u, place)'  BY <2>1, <3>2, TellsIs
    <3> QED  BY <2>3, <2>4, <3>1, <3>3, PromisedIs
  <2> QED  BY <2>5, <2>6
<1>5. ASSUME NEW t \in Threads, NEW e, Telling(t, e) PROVE Promised(place)'
  <2>1. /\ e \in Events /\ feed' = Append(feed, e) /\ e.about = request[t].about
        /\ request' = [request EXCEPT ![t] = Idle] /\ UNCHANGED skill
        /\ unsure \subseteq unsure' /\ feed \in Seq(Events)
    BY <1>5 DEF Telling, skillVars, RoomType
  <2>2. Told(place) # {} => Told(place)' # {}  BY <2>1, ToldGrows
  <2>3. Tells(t, place) => Told(place)' # {}  BY <2>1, ToldGrows DEF Tells
  <2>4. \A u \in Threads : u # t => (Tells(u, place) => Tells(u, place)')  BY <2>1, IdleIs, TellsIs
  <2> QED  BY <2>1, <2>2, <2>3, <2>4, PromisedIs
<1>6. CASE Quietly
  <2>1. UNCHANGED <<skill, feed, request, unsure>>  BY <1>6 DEF Quietly
  <2>2. Told(place)' = Told(place)  BY <2>1, FeedStays
  <2>3. \A u \in Threads : Tells(u, place)' <=> Tells(u, place)  BY <2>1 DEF Tells
  <2> QED  BY <2>1, <2>2, <2>3, PromisedIs
<1>7. ASSUME place \in unsure' PROVE Promised(place)'  BY <1>7, PromisedIs
<1> QED  BY <1>1, <1>2, <1>3, <1>4, <1>5, <1>6, <1>7 DEF Steps

\* A run's skills are the ones it had, or were there when it started.
Reads ==
  \A l \in Lanes : \A name \in DOMAIN index'[l] :
    \/ name \in DOMAIN index[l] /\ index'[l][name] = index[l][name]
    \/ \E s \in Scopes, n \in Names :
         index'[l][name] = <<s, n>> /\ skill'[s][n].dir \in {"full", "link"}
    \/ index'[l][name] \in {"worktree"} \X Names

LEMMA ReadsAre ==
  ASSUME RoomType, SkillType, [Next]_vars
  PROVE  Reads
<1>0. UNCHANGED index => Reads  BY DEF Reads
<1>1. ASSUME NEW t \in Threads, Start(t) PROVE Reads
  <2>1. PICK k \in Lanes, selection \in {{}, Names} : ResolveSkills(k, mode, selection)
    BY <1>1 DEF Start
  <2>0. PICK own \in OwnSkillsOf(mode) :
          LET found == {name \in selection : LocateSkills(own, name) # {}}
          IN \E places \in [found -> Places] :
               /\ \A name \in found : places[name] \in LocateSkills(own, name)
               /\ index' = [index EXCEPT ![k] = places]
    BY <2>1 DEF ResolveSkills
  <2> DEFINE found == {name \in selection : LocateSkills(own, name) # {}}
  <2>2. PICK places \in [found -> Places] :
          /\ \A name \in found : places[name] \in LocateSkills(own, name)
          /\ index' = [index EXCEPT ![k] = places]
    BY <2>0
  <2>3. skill' = skill  BY <2>1 DEF ResolveSkills
  <2>4. index = [l \in Lanes |-> index[l]]  BY LanesAssumption DEF SkillType
  <2>5. ASSUME NEW name \in found
        PROVE  \/ \E s \in Scopes, n \in Names :
                    places[name] = <<s, n>> /\ skill[s][n].dir \in {"full", "link"}
               \/ places[name] \in {"worktree"} \X Names
    <3>1. places[name] \in LocateSkills(own, name) /\ name \in Names  BY <2>2
    <3>2. "project" \in Scopes /\ "host" \in Scopes  BY DEF Scopes
    <3>3. CASE places[name] \in {<<"host", n>> : n \in Scan("host", name)}
      BY <3>2, <3>3 DEF Scan, Listed
    <3>4. CASE places[name] \in own[name] /\ mode = "chat"
      <4>1. own[name] = {<<"project", n>> : n \in Scan("project", name)}
        BY <3>1, <3>4 DEF OwnSkillsOf
      <4> QED  BY <3>2, <3>4, <4>1 DEF Scan, Listed
    <3>5. CASE places[name] \in own[name] /\ mode # "chat"
      <4>1. own[name] \subseteq {<<"worktree", name>>}  BY <3>1, <3>5 DEF OwnSkillsOf
      <4> QED  BY <3>1, <3>5, <4>1
    <3> QED  BY <3>1, <3>3, <3>4, <3>5 DEF LocateSkills
  <2>6. ASSUME NEW l \in Lanes, NEW name \in DOMAIN index'[l]
        PROVE  \/ name \in DOMAIN index[l] /\ index'[l][name] = index[l][name]
               \/ \E s \in Scopes, n \in Names :
                    index'[l][name] = <<s, n>> /\ skill'[s][n].dir \in {"full", "link"}
               \/ index'[l][name] \in {"worktree"} \X Names
    <3> HIDE DEF found
    <3>1. CASE l = k
      <4>1. index'[l] = places  BY <2>2, <2>4, <3>1
      <4>2. name \in found  BY <2>2, <2>6, <4>1
      <4> QED  BY <2>3, <2>5, <4>1, <4>2
    <3>2. CASE l # k
      <4>1. index'[l] = index[l]  BY <2>2, <2>4, <3>2
      <4> QED  BY <2>6, <4>1
    <3> QED  BY <3>1, <3>2
  <2> QED  BY <2>6 DEF Reads
<1>2. ASSUME NEW t \in Threads, Rails(t) PROVE Reads
  <2>1. CASE Start(t)  BY <1>1, <2>1
  <2>2. CASE ApplySkill(t)  BY <1>0, <2>2, ApplySkillIs DEF Changing
  <2>3. CASE ApplyToggle(t)  BY <1>0, <2>3 DEF ApplyToggle, skillVars
  <2>4. CASE Join(t) \/ AnnounceParticipantJoined(t) \/ Remove(t) \/ Chat(t) \/ RecordChange(t)
    BY <1>0, <2>4 DEF Join, AnnounceParticipantJoined, Remove, Chat, RecordChange, skillVars
  <2>5. CASE Refused(t) \/ Unannounced(t) \/ LoseThread(t) \/ Busy(t)
    BY <1>0, <2>5 DEF Refused, Unannounced, LoseThread, Busy, skillVars
  <2>6. CASE \/ AskJoin(t) \/ AskRemove(t) \/ AskChat(t) \/ AskToggle(t)
             \/ AskSkill(t) \/ AskSkillThere(t) \/ AskRun(t)
    BY <1>0, <2>6 DEF AskJoin, AskRemove, AskChat, AskToggle, AskSkill, AskSkillThere,
                        AskRun, Accept, skillVars
  <2>7. CASE WriteFails(t)  BY <1>0, <2>7, WriteFailsIs
  <2> QED  BY <1>2, <2>1, <2>2, <2>3, <2>4, <2>5, <2>6, <2>7 DEF Rails
<1>3. ASSUME NEW k \in Lanes, Runs(k) PROVE Reads
  <2>1. CASE ForgetSkills(k)
    <3>1. index' = [index EXCEPT ![k] = <<>>]  BY <2>1 DEF ForgetSkills
    <3>2. index = [l \in Lanes |-> index[l]]  BY LanesAssumption DEF SkillType
    <3>3. \A l \in Lanes : index'[l] = IF l = k THEN <<>> ELSE index[l]  BY <3>1, <3>2
    <3>4. DOMAIN <<>> = {}  OBVIOUS
    <3> QED  BY <3>3, <3>4 DEF Reads
  <2>2. CASE UNCHANGED skillVars  BY <1>0, <2>2 DEF skillVars
  <2> QED  BY <1>3, <2>1, <2>2 DEF Runs
<1>4. ASSUME Generate \/ Revoke \/ Expire \/ Archive PROVE Reads
  BY <1>0, <1>4, InvitingIs, SMTT(30) DEF Inviting, skillVars
<1>5. ASSUME CrashHarness PROVE Reads
  <2>1. CASE UNCHANGED <<skillVars, request, unsure>>  BY <1>0, <2>1 DEF skillVars
  <2> QED  BY <1>0, <1>5, <2>1, CrashIs
<1>6. ASSUME UNCHANGED vars PROVE Reads  BY <1>0, <1>6 DEF vars, skillVars
<1> QED  BY <1>2, <1>3, <1>4, <1>5, <1>6 DEF Next

LEMMA StepsKeepPromises ==
  ASSUME RoomType, Steps, Reads, Promises
  PROVE  Promises'
<1> SUFFICES ASSUME NEW l \in Lanes, NEW name \in DOMAIN index'[l], NEW place, place = index'[l][name]
             PROVE  place \in Places /\ (place[1] \in Scopes => Promised(place)')
  BY DEF Promises
<1>1. CASE name \in DOMAIN index[l] /\ index'[l][name] = index[l][name]
  <2>1. place \in Places /\ (place[1] \in Scopes => Promised(place))  BY <1>1 DEF Promises
  <2>2. CASE place[1] \in Scopes
    <3>1. PICK s \in Scopes, n \in Names : place = <<s, n>>  BY <2>1, <2>2 DEF Places
    <3> QED  BY <2>1, <2>2, <3>1, StepsKeepPromised
  <2> QED  BY <2>1, <2>2
<1>2. CASE \E s \in Scopes, n \in Names : place = <<s, n>> /\ skill'[s][n].dir \in {"full", "link"}
  BY <1>2, PromisedIs DEF Places
<1>3. CASE place \in {"worktree"} \X Names
  BY <1>3 DEF Places, Scopes
<1> QED  BY <1>1, <1>2, <1>3 DEF Reads

-----------------------------------------------------------------------------
(* Who is in the room.                                                     *)

LEMMA JoinsAre ==
  ASSUME RoomType, NEW t \in Threads, NEW q \in Requests, request' = [request EXCEPT ![t] = q], NEW r
  PROVE  /\ \A u \in Threads : u # t => (Joins(u, r)' <=> Joins(u, r))
         /\ Joins(t, r)' <=> q.op = "join" /\ q.at = "tell" /\ q.row = r
BY RequestIs DEF Joins

\* Announced is what somebody was told of.
LEMMA AnnouncedIs ==
  ASSUME NEW r
  PROVE  (Announced(r) <=> Told(<<"row", r>>) # {}) /\ (Announced(r)' <=> Told(<<"row", r>>)' # {})
BY DEF Announced, Told

\* A row that nothing is said or done about stays as it was.
LEMMA RowStays ==
  ASSUME NEW r, NEW a, a = <<"row", r>>, rows'[r] = rows[r], Told(a)' = Told(a),
         \A i \in Told(a) : i \in DOMAIN feed' /\ feed'[i] = feed[i],
         a \in unsure => a \in unsure',
         a \notin unsure' => \A t \in Threads : Joins(t, r) => Joins(t, r)'
  PROVE  Present(r) => Present(r)'
<1>1. Announced(r)' <=> Announced(r)  BY AnnouncedIs
<1>2. \A i \in DOMAIN feed : Newest(a, i) =>
        i \in DOMAIN feed' /\ Newest(a, i)' /\ feed'[i] = feed[i]
  BY DEF Newest
<1>5. Gone(r) => Gone(r)'  BY DEF Gone
<1>3. CASE rows[r].removed  BY <1>2, <1>3, <1>5 DEF Present
<1>4. CASE ~rows[r].removed
  <2>1. ASSUME NEW i \in DOMAIN feed, Newest(a, i), feed[i].says = "joined" PROVE Present(r)'
    BY <1>2, <1>4, <2>1 DEF Present
  <2>2. ASSUME ~Announced(r), a \in unsure \/ \E t \in Threads : Joins(t, r) PROVE Present(r)'
    BY <1>1, <1>4, <2>2 DEF Present
  <2> QED  BY <1>4, <2>1, <2>2 DEF Present
<1> QED  BY <1>3, <1>4

LEMMA AwaitedStays ==
  ASSUME NEW r, r \in DOMAIN rows => r \in DOMAIN rows' /\ rows'[r].removed = rows[r].removed,
         Announced(r)' <=> Announced(r), <<"row", r>> \in unsure => <<"row", r>> \in unsure',
         \A t \in Threads : Joins(t, r)' => Joins(t, r)
  PROVE  Awaited(r) => Awaited(r)'
BY DEF Awaited

\* A step that makes no row, removes none and says nothing of any.
LEMMA PeopleStay ==
  ASSUME RoomType, People, UNCHANGED rows,
         \A r \in Nat : Told(<<"row", r>>)' = Told(<<"row", r>>),
         \A r \in Nat : \A i \in Told(<<"row", r>>) : i \in DOMAIN feed' /\ feed'[i] = feed[i],
         unsure \subseteq unsure',
         \A r \in Nat : \A t \in Threads : Joins(t, r)' => Joins(t, r),
         \A r \in Nat : <<"row", r>> \notin unsure' => \A t \in Threads : Joins(t, r) => Joins(t, r)',
         \A t \in Threads : request'[t].op = "remove" =>
           \E r \in DOMAIN rows : request'[t].about = <<"row", r>>
  PROVE  People'
<1>1. \A r \in Nat : Announced(r)' <=> Announced(r)  BY AnnouncedIs
<1>2. \A r \in DOMAIN rows : r \in Nat  BY RowsAre
<1>3. \A r \in Nat : Awaited(r)'  BY <1>1, AwaitedStays DEF People
<1>4. \A r \in DOMAIN rows' : Present(r)'
  <2> SUFFICES ASSUME NEW r \in DOMAIN rows PROVE Present(r)'
    OBVIOUS
  <2>1. PICK a : a = <<"row", r>>  OBVIOUS
  <2>2. r \in Nat /\ Present(r)  BY <1>2 DEF People
  <2> QED  BY <2>1, <2>2, RowStays
<1>5. Targets'  BY <1>1, <1>2 DEF Targets
<1> QED  BY <1>1, <1>3, <1>4, <1>5 DEF People

LEMMA StepsKeepPeople ==
  ASSUME RoomType, People, Steps
  PROVE  People'
<1>0. feed \in Seq(Events)  BY DEF RoomType
<1>1. ASSUME NEW t \in Threads, Asking(t) PROVE People'
  <2>1. PICK q \in Requests :
          /\ request' = [request EXCEPT ![t] = q] /\ q.at = "act"
          /\ q.op = "remove" => \E r \in DOMAIN rows : q.about = <<"row", r>>
    BY <1>1 DEF Asking
  <2>2. UNCHANGED <<rows, feed, unsure>>  BY <1>1 DEF Asking, tableVars
  <2>3. request[t] = Idle  BY <1>1, ThreadsAre DEF Asking, Shape
  <2>4. \A r \in Nat : \A u \in Threads : Joins(u, r)' <=> Joins(u, r)
    <3>1. \A r \in Nat : ~Joins(t, r)  BY <2>3, IdleIs DEF Joins
    <3> QED  BY <2>1, <3>1, JoinsAre
  <2>5. \A u \in Threads : request'[u].op = "remove" =>
          \E r \in DOMAIN rows : request'[u].about = <<"row", r>>
    BY <2>1, RequestIs DEF People, Targets
  <2> QED  BY <2>2, <2>4, <2>5, FeedStays, PeopleStay
<1>2. ASSUME NEW t \in Threads, Leaving(t) PROVE People'
  <2>1. request' = [request EXCEPT ![t] = Idle] /\ UNCHANGED <<rows, feed>> /\ unsure \subseteq unsure'
    BY <1>2 DEF Leaving
  <2>2. \A r \in Nat : ~Joins(t, r)'  BY <2>1, IdleIs, JoinsAre
  <2>3. \A r \in Nat : Joins(t, r) => <<"row", r>> \in unsure'
    BY <1>2, ThreadsAre DEF Joins, Shape, Leaving
  <2>4. \A r \in Nat : \A u \in Threads : u # t => (Joins(u, r)' <=> Joins(u, r))
    BY <2>1, IdleIs, JoinsAre
  <2>5. \A u \in Threads : request'[u].op = "remove" =>
          \E r \in DOMAIN rows : request'[u].about = <<"row", r>>
    BY <2>1, IdleIs, RequestIs DEF People, Targets
  <2> QED  BY <2>1, <2>2, <2>3, <2>4, <2>5, FeedStays, PeopleStay
<1>3. ASSUME NEW t \in Threads, Joining(t) PROVE People'
  <2>1. PICK q \in Requests, m \in Members :
          /\ request' = [request EXCEPT ![t] = q]
          /\ q.op = "join" /\ q.at = "tell" /\ q.row = Len(rows) + 1
          /\ rows' = Append(rows, m) /\ ~m.removed
    BY <1>3 DEF Joining
  <2>2. UNCHANGED <<feed, unsure>> /\ request[t].at = "act"  BY <1>3 DEF Joining
  <2>3. PICK new : new = Len(rows) + 1  OBVIOUS
  <2>4. /\ new \in Nat /\ new \notin DOMAIN rows /\ DOMAIN rows' = DOMAIN rows \cup {new}
        /\ rows'[new] = m /\ \A r \in DOMAIN rows : rows'[r] = rows[r] /\ r # new /\ r \in Nat
    BY <2>1, <2>3 DEF RoomType
  <2>5. \A r \in Nat : \A u \in Threads : Joins(u, r)' <=> IF u = t THEN r = new ELSE Joins(u, r)
    BY <2>1, <2>3, JoinsAre
  <2>6. \A r \in Nat : ~Joins(t, r)  BY <2>2 DEF Joins
  <2>7. \A r : Announced(r)' <=> Announced(r)  BY <2>2 DEF Announced
  <2>8. ~Announced(new) /\ \A u \in Threads : ~Joins(u, new)  BY <2>4 DEF People, Awaited
  <2>9. ASSUME NEW r \in Nat PROVE Awaited(r)'
    <3>1. CASE r = new  BY <2>1, <2>4, <2>5, <2>7, <2>8, <3>1 DEF Awaited
    <3>2. CASE r # new
      <4>1. \A u \in Threads : Joins(u, r)' => Joins(u, r)  BY <2>5, <3>2
      <4> QED  BY <2>2, <2>4, <2>7, <4>1, AwaitedStays DEF People
    <3> QED  BY <3>1, <3>2
  <2>10. ASSUME NEW r \in DOMAIN rows' PROVE Present(r)'
    <3>1. CASE r = new
      <4>1. Joins(t, r)'  BY <2>4, <2>5, <3>1
      <4>2. ~rows'[r].removed /\ ~Announced(r)'  BY <2>1, <2>4, <2>7, <2>8, <3>1
      <4> QED  BY <4>1, <4>2 DEF Present
    <3>2. CASE r \in DOMAIN rows
      <4>1. PICK a : a = <<"row", r>>  OBVIOUS
      <4>2. \A u \in Threads : Joins(u, r) => Joins(u, r)'  BY <2>4, <2>5, <2>6, <3>2
      <4>3. Told(a)' = Told(a) /\ \A i \in Told(a) : i \in DOMAIN feed' /\ feed'[i] = feed[i]
        BY <2>2, FeedStays
      <4>4. rows'[r] = rows[r] /\ Present(r)  BY <2>4, <3>2 DEF People
      <4> QED  BY <2>2, <4>1, <4>2, <4>3, <4>4, RowStays
    <3> QED  BY <2>4, <3>1, <3>2
  <2>11. Targets'
    <3>1. \A u \in Threads : request'[u].op = "remove" => request'[u] = request[u]  BY <2>1, RequestIs
    <3> QED  BY <2>4, <2>7, <3>1 DEF People, Targets
  <2> QED  BY <2>4, <2>7, <2>9, <2>10, <2>11 DEF People
<1>4. ASSUME NEW t \in Threads, NEW a \in Subjects, Changing(t, a) PROVE People'
  <2>1. PICK q \in Requests : request' = [request EXCEPT ![t] = q] /\ q.op = request[t].op
    BY <1>4 DEF Changing
  <2>2. request[t].op \in {"toggle", "skill"} /\ UNCHANGED <<rows, feed>> /\ unsure' = Doubt(t)
    BY <1>4 DEF Changing, tableVars
  <2>3. \A r \in Nat : \A u \in Threads : Joins(u, r)' <=> Joins(u, r)
    <3>1. \A r \in Nat : ~Joins(t, r)  BY <2>2 DEF Joins
    <3> QED  BY <2>1, <2>2, <3>1, JoinsAre
  <2>4. \A u \in Threads : request'[u].op = "remove" =>
          \E r \in DOMAIN rows : request'[u].about = <<"row", r>>
    BY <2>1, <2>2, RequestIs DEF People, Targets
  <2>5. unsure \subseteq unsure'  BY <2>2 DEF Doubt
  <2> QED  BY <2>2, <2>3, <2>4, <2>5, FeedStays, PeopleStay
<1>5. ASSUME NEW t \in Threads, NEW e, Telling(t, e), Chatting(t, e) \/ Recording(t, e) PROVE People'
  <2>1. /\ e \in Events /\ feed' = Append(feed, e) /\ e.about = request[t].about
        /\ request' = [request EXCEPT ![t] = Idle] /\ unsure \subseteq unsure'
    BY <1>5 DEF Telling
  <2>2. rows' = rows /\ request[t].op # "join"  BY <1>5 DEF Chatting, Recording
  <2>3. \A r \in Nat : <<"row", r>> # e.about
    BY <1>5, <2>1, Distinct, ThreadsAre DEF Chatting, Recording, Shape
  <2>4. \A r \in Nat : /\ Told(<<"row", r>>)' = Told(<<"row", r>>)
                       /\ \A i \in Told(<<"row", r>>) : i \in DOMAIN feed' /\ feed'[i] = feed[i]
    <3>1. DOMAIN feed \subseteq DOMAIN feed'  BY <1>0, <2>1
    <3> QED  BY <1>0, <2>1, <2>3, <3>1, ToldGrows
  <2>5. \A r \in Nat : \A u \in Threads : Joins(u, r)' <=> Joins(u, r)
    <3>1. \A r \in Nat : ~Joins(t, r)  BY <2>2 DEF Joins
    <3> QED  BY <2>1, <3>1, IdleIs, JoinsAre
  <2>6. \A u \in Threads : request'[u].op = "remove" =>
          \E r \in DOMAIN rows : request'[u].about = <<"row", r>>
    BY <2>1, IdleIs, RequestIs DEF People, Targets
  <2> QED  BY <2>1, <2>2, <2>4, <2>5, <2>6, PeopleStay
<1>6. ASSUME NEW t \in Threads, NEW e, Telling(t, e), Joined(t, e) \/ Removing(t, e) PROVE People'
  <2>1. /\ e \in Events /\ feed' = Append(feed, e) /\ e.about = request[t].about
        /\ request' = [request EXCEPT ![t] = Idle] /\ unsure \subseteq unsure'
    BY <1>6 DEF Telling
  <2>2. PICK r \in DOMAIN rows :
          /\ e.about = <<"row", r>>
          /\ DOMAIN rows' = DOMAIN rows
          /\ \A v \in DOMAIN rows : v # r => rows'[v] = rows[v]
          /\ \/ e.says = IF rows'[r].removed THEN "removed" ELSE "joined"
             \/ rows'[r].removed /\ <<"row", r>> \in unsure /\ Gone(r)
          /\ \A u \in Threads : u # t /\ Joins(u, r) => <<"row", r>> \in unsure'
          /\ \A u, v \in Threads : Joins(u, r) /\ Joins(v, r) => u = v
          /\ \A v \in Nat : Joins(t, v) => v = r
    <3>1. CASE Joined(t, e)
      <4>0. PICK v \in Nat : v = request[t].row  BY ThreadsAre
      <4>1. Joins(t, v)  BY <3>1, <4>0 DEF Joined, Joins
      <4>2. /\ v \in DOMAIN rows /\ Present(v)
            /\ <<"row", v>> \in unsure \/ ~rows[v].removed
            /\ \A u, w \in Threads : Joins(u, v) /\ Joins(w, v) => u = w
        BY <4>1 DEF People, Awaited
      <4>3. e.about = <<"row", v>>  BY <2>1, <3>1, <4>0, ThreadsAre DEF Joined, Shape
      <4>4. rows' = rows /\ e.says = "joined" /\ \A w \in Nat : Joins(t, w) => w = v
        BY <3>1, <4>0 DEF Joined, Joins
      <4>5. rows[v].removed => Gone(v)
        BY <4>2 DEF Present, Gone, Newest
      <4>6. \A u \in Threads : ~(u # t /\ Joins(u, v))  BY <4>1, <4>2
      <4> QED  BY <4>2, <4>3, <4>4, <4>5, <4>6
    <3>2. CASE Removing(t, e)
      <4>1. PICK v \in DOMAIN rows : /\ request[t].about = <<"row", v>>
                                     /\ Announced(v) \/ <<"row", v>> \in unsure'
                                     /\ rows' = [rows EXCEPT ![v].removed = TRUE]
        BY <3>2 DEF Removing
      <4>2. v \in Nat /\ rows[v] \in Members  BY RowsAre
      <4>3. /\ \A u \in Threads : Joins(u, v) => <<"row", v>> \in unsure'
            /\ \A u, w \in Threads : Joins(u, v) /\ Joins(w, v) => u = w
        BY <2>1, <4>1, <4>2 DEF People, Awaited
      <4>4. /\ DOMAIN rows' = DOMAIN rows /\ \A w \in DOMAIN rows : w # v => rows'[w] = rows[w]
            /\ rows'[v] = [rows[v] EXCEPT !.removed = TRUE]
        BY <4>1 DEF RoomType
      <4>5. rows'[v].removed  BY <4>2, <4>4 DEF Members
      <4>6. \A w \in Nat : ~Joins(t, w)  BY <3>2 DEF Removing, Joins
      <4>7. e.says = "removed"  BY <3>2 DEF Removing
      <4> QED  BY <2>1, <4>1, <4>3, <4>4, <4>5, <4>6, <4>7
    <3> QED  BY <1>6, <3>1, <3>2
  <2>3. r \in Nat  BY RowsAre
  <2>4. \A v \in Nat : v # r => /\ Told(<<"row", v>>)' = Told(<<"row", v>>)
                                /\ \A i \in Told(<<"row", v>>) : i \in DOMAIN feed' /\ feed'[i] = feed[i]
    <3>1. DOMAIN feed \subseteq DOMAIN feed'  BY <1>0, <2>1
    <3>2. \A v \in Nat : v # r => <<"row", v>> # e.about  BY <2>2, Distinct
    <3> QED  BY <1>0, <2>1, <3>1, <3>2, ToldGrows
  <2>5. PICK b : b = <<"row", r>>  OBVIOUS
  <2>6. PICK i \in DOMAIN feed' : Newest(b, i)' /\ feed'[i] = e
    <3>1. b = e.about /\ e \in Events /\ feed' = Append(feed, e)  BY <2>1, <2>2, <2>5
    <3> QED  BY ONLY <1>0, <3>1, ToldGrows
  <2>7. \A v \in Nat : Announced(v)' <=> v = r \/ Announced(v)
    <3>1. Announced(r)'  BY <2>5, <2>6, AnnouncedIs DEF Newest
    <3> QED  BY <2>4, <3>1, AnnouncedIs
  <2>8. \A v \in Nat : \A u \in Threads : Joins(u, v)' <=> (u # t /\ Joins(u, v))
    BY <2>1, IdleIs, JoinsAre
  <2>9. ASSUME NEW v \in Nat PROVE Awaited(v)'
    <3>1. CASE v = r
      <4>1. /\ \A u \in Threads : Joins(u, v)' => Joins(u, v) /\ <<"row", v>> \in unsure'
            /\ \A u, w \in Threads : Joins(u, v)' /\ Joins(w, v)' => u = w
            /\ v \in DOMAIN rows'
        BY <2>2, <2>8, <3>1
      <4> QED  BY <4>1 DEF Awaited
    <3>2. CASE v # r
      <4>1. \A u \in Threads : Joins(u, v)' => Joins(u, v)  BY <2>8
      <4>2. Announced(v)' <=> Announced(v)  BY <2>7, <3>2
      <4>3. v \in DOMAIN rows => v \in DOMAIN rows' /\ rows'[v].removed = rows[v].removed
        BY <2>2, <3>2
      <4> QED  BY <2>1, <4>1, <4>2, <4>3, AwaitedStays DEF People
    <3> QED  BY <3>1, <3>2
  <2>10. ASSUME NEW v \in DOMAIN rows PROVE Present(v)'
    <3>1. CASE v = r /\ e.says = IF rows'[r].removed THEN "removed" ELSE "joined"
      <4>1. Newest(<<"row", v>>, i)'  BY <2>5, <2>6, <3>1 DEF Newest, Told
      <4>2. feed'[i].says = IF rows'[v].removed THEN "removed" ELSE "joined"  BY <2>6, <3>1
      <4> QED  BY <4>1, <4>2 DEF Present
    <3>3. CASE v = r /\ rows'[r].removed /\ <<"row", r>> \in unsure /\ Gone(r)
      <4>1. PICK k \in Told(b) : feed[k].says = "removed"  BY <2>5, <3>3 DEF Gone
      <4>2. k \in Told(b)' /\ feed'[k] = feed[k]
        <5>1. k \in DOMAIN feed /\ feed[k].about = b  BY <4>1 DEF Told
        <5>2. k \in DOMAIN feed' /\ feed'[k] = feed[k]  BY <1>0, <2>1, <5>1
        <5> QED  BY <5>1, <5>2 DEF Told
      <4>3. Gone(r)'  BY <2>5, <4>1, <4>2 DEF Gone
      <4> QED  BY <2>1, <3>3, <4>3 DEF Present
    <3>2. CASE v # r
      <4>1. PICK a : a = <<"row", v>>  OBVIOUS
      <4>2. v \in Nat /\ Present(v) /\ rows'[v] = rows[v]  BY <2>2, <3>2, RowsAre DEF People
      <4>3. \A u \in Threads : Joins(u, v) => Joins(u, v)'  BY <2>2, <2>8, <3>2, <4>2
      <4>4. Told(a)' = Told(a) /\ \A j \in Told(a) : j \in DOMAIN feed' /\ feed'[j] = feed[j]
        BY <2>4, <3>2, <4>1, <4>2
      <4> QED  BY <2>1, <4>1, <4>2, <4>3, <4>4, RowStays
    <3> QED  BY <2>2, <3>1, <3>2, <3>3
  <2>11. Targets'
    <3>1. \A u \in Threads : request'[u].op = "remove" => request'[u] = request[u]
      BY <2>1, IdleIs, RequestIs
    <3> QED  BY <2>2, <3>1 DEF People, Targets
  <2> QED  BY <2>2, <2>3, <2>7, <2>9, <2>10, <2>11 DEF People
<1>7. CASE Quietly
  <2>1. UNCHANGED <<rows, feed, request, unsure>>  BY <1>7 DEF Quietly
  <2>2. \A r \in Nat : \A u \in Threads : Joins(u, r)' <=> Joins(u, r)  BY <2>1 DEF Joins
  <2>3. \A u \in Threads : request'[u].op = "remove" =>
          \E r \in DOMAIN rows : request'[u].about = <<"row", r>>
    BY <2>1 DEF People, Targets
  <2> QED  BY <2>1, <2>2, <2>3, FeedStays, PeopleStay
<1> QED  BY <1>1, <1>2, <1>3, <1>4, <1>5, <1>6, <1>7 DEF Steps

-----------------------------------------------------------------------------
(* What a removed participant still does.                                  *)

\* Nobody who is in the room was ever told of as removed.
LEMMA ActiveUntold ==
  ASSUME Asked, NEW r \in Active, NEW j \in DOMAIN feed
  PROVE  ~(feed[j].says = "removed" /\ feed[j].about = <<"row", r>>)
BY DEF Asked, Active

\* A new event follows no removal that its author had not preceded.
Fresh(e) ==
  \A j \in DOMAIN feed :
    feed[j].says = "removed" /\ feed[j].about = <<"row", e.by>> => e.since < j

LEMMA StepsSayNoMore ==
  ASSUME RoomType, People, Asked, RemovedActNoMore, Steps
  PROVE  RemovedActNoMore'
<1>1. CASE UNCHANGED feed  BY <1>1 DEF RemovedActNoMore
<1>2. ASSUME NEW t \in Threads, NEW e, Telling(t, e),
             Joined(t, e) \/ Removing(t, e) \/ Chatting(t, e) \/ Recording(t, e)
      PROVE  RemovedActNoMore'
  <2>1. e \in Events /\ feed' = Append(feed, e) /\ feed \in Seq(Events) /\ e.since = request[t].since
    BY <1>2 DEF Telling, RoomType
  <2>2. Fresh(e)
    <3>1. CASE Joined(t, e)  BY <2>1, <3>1 DEF Joined, Fresh, Asked, Acting
    <3>2. CASE Removing(t, e)  BY <3>2, ActiveUntold DEF Removing, Fresh
    <3>3. CASE Recording(t, e)
      <4>1. CASE e.by \in Active  BY <4>1, ActiveUntold DEF Fresh
      <4>2. CASE e.by = 0
        <5>1. 0 \notin DOMAIN rows  BY RowsAre
        <5>2. ~Announced(0)  BY <5>1 DEF People
        <5> QED  BY <4>2, <5>2 DEF Announced, Fresh
      <4> QED  BY <3>3, <4>1, <4>2 DEF Recording
    <3>4. CASE Chatting(t, e)
      <4>1. Acting(t) /\ e.by = request[t].row  BY <3>4 DEF Chatting, Acting
      <4> QED  BY <2>1, <4>1 DEF Fresh, Asked
    <3> QED  BY <1>2, <3>1, <3>2, <3>3, <3>4
  <2>3. /\ Len(feed) \in Nat /\ DOMAIN feed = 1 .. Len(feed) /\ DOMAIN feed' = 1 .. Len(feed) + 1
        /\ \A i \in 1 .. Len(feed) : feed'[i] = feed[i]
        /\ feed'[Len(feed) + 1] = e
    BY <2>1, Appended
  <2>4. ASSUME NEW i \in DOMAIN feed', NEW j \in DOMAIN feed', j < i,
               feed'[j].says = "removed", feed'[j].about = <<"row", feed'[i].by>>
        PROVE  feed'[i].since < j
    <3>1. j \in DOMAIN feed /\ feed'[j] = feed[j]  BY <2>3, <2>4
    <3>2. CASE i \in DOMAIN feed
      <4>1. feed'[i] = feed[i]  BY <2>3, <3>2
      <4> QED  BY <2>4, <3>1, <3>2, <4>1 DEF RemovedActNoMore
    <3>3. CASE i = Len(feed) + 1
      <4>1. feed'[i] = e  BY <2>3, <3>3
      <4> QED  BY <2>2, <2>4, <3>1, <4>1 DEF Fresh
    <3> QED  BY <2>3, <3>2, <3>3
  <2> QED  BY <2>4 DEF RemovedActNoMore
<1> QED
  BY <1>1, <1>2 DEF Steps, Asking, Leaving, Joining, Changing, Quietly

\* Nothing new is said of anyone's removal, and who newly chats or joins was told of nothing.
LEMMA AskedStays ==
  ASSUME RoomType, Asked, UNCHANGED feed,
         \A r \in DOMAIN rows' :
           IF r \in DOMAIN rows THEN rows[r].removed => rows'[r].removed
           ELSE \A j \in DOMAIN feed : feed[j].about # <<"row", r>>,
         \A t \in Threads : Acting(t)' =>
           \/ request'[t] = request[t]
           \/ \A j \in DOMAIN feed :
                ~(feed[j].says = "removed" /\ feed[j].about = <<"row", request'[t].row>>)
  PROVE  Asked'
<1>1. ASSUME NEW j \in DOMAIN feed, NEW r \in DOMAIN rows', feed[j].says = "removed",
             feed[j].about = <<"row", r>>
      PROVE  rows'[r].removed
  BY <1>1 DEF Asked
<1>2. ASSUME NEW t \in Threads, Acting(t)', NEW j \in DOMAIN feed,
             feed[j].says = "removed", feed[j].about = <<"row", request'[t].row>>
      PROVE  request'[t].since < j
  <2>1. request'[t] = request[t]  BY <1>2
  <2> QED  BY <1>2, <2>1 DEF Asked, Acting
<1> QED  BY <1>1, <1>2 DEF Asked

LEMMA StepsKeepAsked ==
  ASSUME RoomType, People, Asked, Steps
  PROVE  Asked'
<1>0. UNCHANGED rows => \A r \in DOMAIN rows' :
        IF r \in DOMAIN rows THEN rows[r].removed => rows'[r].removed
        ELSE \A j \in DOMAIN feed : feed[j].about # <<"row", r>>
  OBVIOUS
<1>1. ASSUME NEW t \in Threads, Asking(t) PROVE Asked'
  <2>1. PICK q \in Requests :
          /\ request' = [request EXCEPT ![t] = q] /\ q.at = "act"
          /\ q.op = "chat" => q.row \in Active
    BY <1>1 DEF Asking
  <2>2. UNCHANGED <<rows, feed>>  BY <1>1 DEF Asking, tableVars
  <2>3. \A u \in Threads : Acting(u)' => request'[u] = request[u] \/ request'[u].row \in Active
    BY <2>1, RequestIs DEF Acting
  <2>4. \A r \in Active, j \in DOMAIN feed : ~(feed[j].says = "removed" /\ feed[j].about = <<"row", r>>)
    BY ActiveUntold
  <2> QED  BY <1>0, <2>2, <2>3, <2>4, AskedStays
<1>2. ASSUME NEW t \in Threads, Leaving(t) PROVE Asked'
  <2>1. request' = [request EXCEPT ![t] = Idle] /\ UNCHANGED <<rows, feed>>  BY <1>2 DEF Leaving
  <2>2. \A u \in Threads : Acting(u)' => request'[u] = request[u]
    BY <2>1, IdleIs, RequestIs DEF Acting
  <2> QED  BY <1>0, <2>1, <2>2, AskedStays
<1>3. ASSUME NEW t \in Threads, Joining(t) PROVE Asked'
  <2>1. PICK q \in Requests, m \in Members :
          /\ request' = [request EXCEPT ![t] = q] /\ q.row = Len(rows) + 1
          /\ rows' = Append(rows, m)
    BY <1>3 DEF Joining
  <2>2. UNCHANGED feed  BY <1>3 DEF Joining
  <2>3. ASSUME NEW u \in Threads, u = t, NEW j \in DOMAIN feed
        PROVE  feed[j].about # <<"row", request'[u].row>>
    <3>1. Len(rows) + 1 \in Nat /\ Len(rows) + 1 \notin DOMAIN rows  BY RowsAre
    <3>2. ~Announced(Len(rows) + 1)  BY <3>1 DEF People
    <3>3. request'[u].row = Len(rows) + 1  BY <2>1, <2>3, RequestIs
    <3> QED  BY <3>2, <3>3 DEF Announced
  <2>5. \A u \in Threads : u # t => request'[u] = request[u]  BY <2>1, RequestIs
  <2>4. \A r \in DOMAIN rows' :
          IF r \in DOMAIN rows THEN rows[r].removed => rows'[r].removed
          ELSE \A j \in DOMAIN feed : feed[j].about # <<"row", r>>
    <3>1. \A r \in DOMAIN rows' : r \in Nat /\ (r \in DOMAIN rows => rows'[r] = rows[r])
      BY <2>1 DEF RoomType
    <3>2. \A r \in DOMAIN rows' : r \notin DOMAIN rows => ~Announced(r)  BY <3>1 DEF People
    <3> QED  BY <3>1, <3>2 DEF Announced
  <2> QED  BY <2>2, <2>3, <2>4, <2>5, AskedStays
<1>4. ASSUME NEW t \in Threads, NEW a \in Subjects, Changing(t, a) PROVE Asked'
  <2>1. PICK q \in Requests : request' = [request EXCEPT ![t] = q] /\ q.op = request[t].op
    BY <1>4 DEF Changing
  <2>2. request[t].op \in {"toggle", "skill"} /\ UNCHANGED <<rows, feed>>
    BY <1>4 DEF Changing, tableVars
  <2>3. \A u \in Threads : Acting(u)' => request'[u] = request[u]
    BY <2>1, <2>2, RequestIs DEF Acting
  <2> QED  BY <1>0, <2>2, <2>3, AskedStays
<1>5. CASE Quietly
  <2>1. UNCHANGED <<rows, feed, request>>  BY <1>5 DEF Quietly
  <2> QED  BY <1>0, <2>1, AskedStays
<1>6. ASSUME NEW t \in Threads, NEW e, Telling(t, e),
             Joined(t, e) \/ Removing(t, e) \/ Chatting(t, e) \/ Recording(t, e)
      PROVE  Asked'
  <2>1. /\ e \in Events /\ feed' = Append(feed, e) /\ feed \in Seq(Events)
        /\ e.about = request[t].about /\ request' = [request EXCEPT ![t] = Idle]
    BY <1>6 DEF Telling, RoomType
  <2>2. /\ Len(feed) \in Nat /\ DOMAIN feed = 1 .. Len(feed) /\ DOMAIN feed' = 1 .. Len(feed) + 1
        /\ \A i \in 1 .. Len(feed) : feed'[i] = feed[i]
        /\ feed'[Len(feed) + 1] = e
    BY <2>1, Appended
  <2>3. /\ DOMAIN rows' = DOMAIN rows
        /\ \A r \in DOMAIN rows : rows[r].removed => rows'[r].removed
        /\ \A r \in DOMAIN rows : e.says = "removed" /\ e.about = <<"row", r>> => rows'[r].removed
    <3>1. CASE Removing(t, e)
      <4>1. PICK r \in DOMAIN rows : /\ request[t].about = <<"row", r>>
                                     /\ rows' = [rows EXCEPT ![r].removed = TRUE]
        BY <3>1 DEF Removing
      <4>2. rows[r] \in Members  BY RowsAre
      <4>3. /\ DOMAIN rows' = DOMAIN rows /\ \A v \in DOMAIN rows : v # r => rows'[v] = rows[v]
            /\ rows'[r] = [rows[r] EXCEPT !.removed = TRUE]
        BY <4>1 DEF RoomType
      <4>4. rows'[r].removed  BY <4>2, <4>3 DEF Members
      <4>5. \A v \in DOMAIN rows : e.about = <<"row", v>> => v = r  BY <2>1, <4>1, Distinct
      <4> QED  BY <4>3, <4>4, <4>5
    <3>2. CASE Joined(t, e)  BY <3>2 DEF Joined
    <3>3. CASE Chatting(t, e)  BY <3>3 DEF Chatting
    <3>4. CASE Recording(t, e)  BY <2>1, <3>4, Distinct DEF Recording
    <3> QED  BY <1>6, <3>1, <3>2, <3>3, <3>4
  <2>4. ASSUME NEW j \in DOMAIN feed', NEW r \in DOMAIN rows, feed'[j].says = "removed",
               feed'[j].about = <<"row", r>>
        PROVE  rows'[r].removed
    <3>1. CASE j \in DOMAIN feed  BY <2>2, <2>3, <2>4, <3>1 DEF Asked
    <3>2. CASE j = Len(feed) + 1  BY <2>2, <2>3, <2>4, <3>2
    <3> QED  BY <2>2, <3>1, <3>2
  <2>5. ASSUME NEW u \in Threads, Acting(u)', NEW j \in DOMAIN feed',
               feed'[j].says = "removed", feed'[j].about = <<"row", request'[u].row>>
        PROVE  request'[u].since < j
    <3>1. request'[u] = request[u] /\ Acting(u)  BY <2>1, <2>5, IdleIs, RequestIs DEF Acting
    <3>2. CASE j \in DOMAIN feed  BY <2>2, <2>5, <3>1, <3>2 DEF Asked
    <3>3. CASE j = Len(feed) + 1
      <4>1. request[u].since <= Len(feed) /\ request[u].since \in Nat  BY ThreadsAre
      <4> QED  BY <2>2, <3>1, <3>3, <4>1
    <3> QED  BY <2>2, <3>2, <3>3
  <2> QED  BY <2>3, <2>4, <2>5 DEF Asked
<1> QED  BY <1>1, <1>2, <1>3, <1>4, <1>5, <1>6 DEF Steps

-----------------------------------------------------------------------------
(* The invariant and what follows from it.                                 *)

LEMMA InitSkills == SkillsInit => SkillType /\ SkillsAreKept /\ index = [l \in Readers |-> <<>>]
<1> SUFFICES ASSUME SkillsInit PROVE SkillType /\ SkillsAreKept
  BY DEF SkillsInit
<1>1. PICK kept \in HostSkills :
        skill = [s \in Scopes |-> IF s = "host" THEN kept ELSE [n \in Names |-> NoSkill]]
  BY DEF SkillsInit
<1>2. kept \in [Names -> Entries]  BY SkillsAssumption
<1>3. Entries \subseteq Cells /\ NoSkill \in Cells  BY DEF Entries, Cells, Dirs, NoSkill
<1>4. kept \in [Names -> Cells] /\ [n \in Names |-> NoSkill] \in [Names -> Cells]  BY <1>2, <1>3
<1>5. skill \in [Scopes -> [Names -> Cells]]  BY <1>1, <1>4
<1>6. SkillType
  <2>1. removed = [s \in Scopes |-> removed[s]]  BY DEF SkillsInit
  <2>2. index = [l \in Readers |-> index[l]]  BY DEF SkillsInit
  <2> QED  BY <1>5, <2>1, <2>2 DEF SkillType, Cells
<1>7. SkillsAreKept
  <2>1. "host" \in Scopes  BY DEF Scopes
  <2>2. \A b \in written : \E n \in Names : b \in Body(skill["host"][n])  BY DEF SkillsInit
  <2> QED  BY <2>1, <2>2 DEF SkillsAreKept
<1> QED  BY <1>6, <1>7

LEMMA InitRoom == Init => RoomInv
<1> SUFFICES ASSUME Init PROVE RoomInv
  OBVIOUS
<1> DEFINE first == [by |-> 1, about |-> <<"row", 1>>, says |-> "joined", active |-> {}, since |-> 0]
           owner == [user |-> Host, role |-> "owner", removed |-> FALSE]
<1>1. GateInvariant  BY InitGood DEF Init
<1>2. SkillType /\ SkillsAreKept /\ index = [l \in Readers |-> <<>>]  BY InitSkills DEF Init
<1>3. /\ first \in Events /\ first.by = 1 /\ first.about = <<"row", 1>> /\ first.says = "joined"
      /\ owner \in Members /\ ~owner.removed
  <2>1. <<"row", 1>> \in Abouts /\ "joined" \in Words /\ {} \in Args  BY DEF Abouts, Words, Args
  <2> QED  BY <2>1 DEF Events, Members, Roles
<1>4. feed = <<first>> /\ rows = <<owner>> /\ unsure = {}  BY DEF Init
<1> HIDE DEF first, owner
<1>5. /\ feed \in Seq(Events) /\ DOMAIN feed = {1} /\ feed[1] = first /\ Len(feed) = 1
      /\ rows \in Seq(Members) /\ DOMAIN rows = {1} /\ rows[1] = owner
  BY <1>3, <1>4
<1>6. \A t \in Threads : request[t] = Idle  BY DEF Init
<1>7. RoomType
  <2>1. request \in [Threads -> Requests]
    <3>1. request = [t \in Threads |-> Idle]  BY DEF Init
    <3> QED  BY <3>1, IdleIs
  <2>2. \A t \in Threads : Shape(request[t]) /\ request[t].since <= Len(feed)  BY <1>5, <1>6, IdleIs
  <2>3. invites \in [Invites -> [role : Roles, status : {"none", "usable", "revoked", "expired"}]]
    BY DEF Init, Roles
  <2> QED  BY <1>4, <1>5, <2>1, <2>2, <2>3 DEF RoomType
<1>8. \A t \in Threads : request[t].op = "none" /\ request[t].at = "idle"  BY <1>6, IdleIs
<1>9. People
  <2>1. \A r \in Nat : Announced(r) => r = 1  BY <1>3, <1>5, Distinct DEF Announced
  <2>2. \A r \in Nat, t \in Threads : ~Joins(t, r)  BY <1>8 DEF Joins
  <2>3. Targets  BY <1>8 DEF Targets
  <2>4. Newest(<<"row", 1>>, 1)  BY <1>3, <1>5 DEF Newest, Told
  <2>5. Present(1)  BY <1>3, <1>5, <2>4 DEF Present
  <2> QED  BY <1>5, <2>1, <2>2, <2>3, <2>5 DEF People, Awaited
<1>10. Asked /\ RemovedActNoMore  BY <1>3, <1>5, <1>8 DEF Asked, Acting, RemovedActNoMore
<1>11. Changes
  <2> SUFFICES ASSUME NEW a \in Subjects PROVE Settled(a)
    BY DEF Changes
  <2>1. Told(a) = {}  BY <1>3, <1>5, Distinct DEF Told
  <2> QED  BY <1>8, <2>1 DEF Settled, Tells
<1>12. Promises
  <2>1. \A l \in Lanes : DOMAIN index[l] = {}  BY <1>2, LanesAssumption
  <2> QED  BY <2>1 DEF Promises
<1> QED  BY <1>1, <1>2, <1>7, <1>9, <1>10, <1>11, <1>12 DEF RoomInv

LEMMA NextRoom == RoomInv /\ [Next]_vars => RoomInv'
<1> SUFFICES ASSUME RoomInv, [Next]_vars PROVE RoomInv'
  OBVIOUS
<1>1. /\ GateInvariant /\ TypeInvariant /\ RoomType /\ SkillType /\ SkillsAreKept
      /\ People /\ Asked /\ Changes /\ Promises /\ RemovedActNoMore
  BY DEF RoomInv, GateInvariant
<1>2. Steps /\ Reads  BY <1>1, StepsAre, ReadsAre
<1>3. GateInvariant'  BY <1>1, RoomStep, NextGood
<1>4. SkillType' /\ SkillsAreKept'  BY <1>1, NextKeepsSkills
<1>5. RoomType'  BY <1>1, <1>2, StepsKeepType
<1>6. People'  BY <1>1, <1>2, StepsKeepPeople
<1>7. Asked'  BY <1>1, <1>2, StepsKeepAsked
<1>8. RemovedActNoMore'  BY <1>1, <1>2, StepsSayNoMore
<1>9. Changes'  BY <1>1, <1>2, StepsKeepChanges
<1>10. Promises'  BY <1>1, <1>2, StepsKeepPromises
<1> QED  BY <1>3, <1>4, <1>5, <1>6, <1>7, <1>8, <1>9, <1>10 DEF RoomInv

LEMMA LastIs ==
  ASSUME RoomType, NEW a, NEW i, Newest(a, i)
  PROVE  Last(a) = feed[i]
<1>1. Told(a) \subseteq Nat  BY RowsAre DEF Told
<1>2. \A j \in Told(a) : (\A k \in Told(a) : k <= j) => j = i  BY <1>1 DEF Newest
<1> QED  BY <1>2 DEF Newest, Last

LEMMA InvTells == RoomInv => RoomIsTold
<1> SUFFICES ASSUME RoomInv, Quiet PROVE
      /\ \A r \in DOMAIN rows :
           /\ <<"row", r>> \notin unsure =>
                LastWord(<<"row", r>>) = IF rows[r].removed THEN "removed" ELSE "joined"
           /\ rows[r].removed => \E i \in Told(<<"row", r>>) : feed[i].says = "removed"
      /\ <<"plugins">> \notin unsure /\ Told(<<"plugins">>) # {} =>
           Last(<<"plugins">>).active = ActiveFor
      /\ \A s \in Scopes, n \in Names :
           <<s, n>> \notin unsure /\ Told(<<s, n>>) # {} => LastWord(<<s, n>>) = SkillThere(s, n)
      /\ \A l \in Lanes : \A name \in DOMAIN index[l] :
           LET place == index[l][name]
           IN place[1] \in Scopes =>
                \/ Loads(l, name)
                \/ skill[place[1]][place[2]].dir = "link"
                \/ place \in unsure
                \/ Told(place) # {} /\ LastWord(place) = "removed"
  BY DEF RoomIsTold
<1>1. RoomType /\ People /\ Changes /\ Promises  BY DEF RoomInv
<1>2. \A t \in Threads : request[t] = Idle  BY <1>1, ThreadsAre DEF Quiet, Shape
<1>3. \A t \in Threads : \A a : ~Tells(t, a) /\ ~Joins(t, a)  BY <1>2, IdleIs DEF Tells, Joins
<1>9. ASSUME NEW r \in DOMAIN rows, rows[r].removed
      PROVE  \E i \in Told(<<"row", r>>) : feed[i].says = "removed"
  BY <1>1, <1>9 DEF People, Present, Gone, Newest
<1>4. ASSUME NEW r \in DOMAIN rows, <<"row", r>> \notin unsure
      PROVE  LastWord(<<"row", r>>) = IF rows[r].removed THEN "removed" ELSE "joined"
  <2>1. PICK a : a = <<"row", r>>  OBVIOUS
  <2>2. PICK i \in DOMAIN feed :
          Newest(a, i) /\ feed[i].says = IF rows[r].removed THEN "removed" ELSE "joined"
    BY <1>1, <1>3, <1>4, <2>1 DEF People, Present
  <2> QED  BY <1>1, <2>1, <2>2, LastIs DEF LastWord
<1>5. ASSUME NEW a \in Subjects, a \notin unsure, Told(a) # {}
      PROVE  \E i \in DOMAIN feed : Last(a) = feed[i] /\ feed[i].about = a /\ Word(feed[i]) = Truth(a)
  <2>1. PICK i \in DOMAIN feed : Newest(a, i) /\ Word(feed[i]) = Truth(a)
    BY <1>1, <1>3, <1>5 DEF Changes, Settled
  <2> QED  BY <1>1, <2>1, LastIs DEF Newest, Told
<1>6. <<"plugins">> \notin unsure /\ Told(<<"plugins">>) # {} => Last(<<"plugins">>).active = ActiveFor
  BY <1>5, Distinct, TruthIs DEF Word
<1>7. ASSUME NEW s \in Scopes, NEW n \in Names, <<s, n>> \notin unsure, Told(<<s, n>>) # {}
      PROVE  LastWord(<<s, n>>) = SkillThere(s, n)
  <2>1. PICK a : a = <<s, n>>  OBVIOUS
  <2>2. a \in Subjects /\ a # <<"plugins">> /\ Truth(a) = SkillThere(s, n)  BY <2>1, Distinct, TruthIs
  <2> QED  BY <1>5, <1>7, <2>1, <2>2 DEF Word, LastWord
<1>8. ASSUME NEW l \in Lanes, NEW name \in DOMAIN index[l], NEW place, place = index[l][name],
             place[1] \in Scopes
      PROVE  \/ Loads(l, name)
             \/ skill[place[1]][place[2]].dir = "link"
             \/ place \in unsure
             \/ Told(place) # {} /\ LastWord(place) = "removed"
  <2>1. place \in Scopes \X Names /\ Promised(place)  BY <1>1, <1>8 DEF Promises, Places
  <2>2. PICK s \in Scopes, n \in Names : place = <<s, n>>  BY <2>1
  <2>3. \/ place \in unsure
        \/ skill[s][n].dir \in {"full", "link"}
        \/ skill[s][n].dir = "none" /\ Told(place) # {}
    BY <1>3, <2>1, <2>2, PromisedIs
  <2>4. CASE skill[s][n].dir = "none" /\ Told(place) # {} /\ place \notin unsure
    BY <1>7, <2>2, <2>4 DEF SkillThere
  <2>5. skill[s][n].dir = "full" => Loads(l, name)  BY <1>8, <2>2 DEF Loads
  <2> QED  BY <2>2, <2>3, <2>4, <2>5
<1> QED  BY <1>4, <1>6, <1>7, <1>8, <1>9

\* Whatever the members ask for, and owners of other sessions on the same skills, at once and in
\* whatever order, and whatever is lost: when no request is under way the feed says who is in the
\* room and which rules are on, and the feeds together say which skills stand where, and why a
\* promised skill is gone.
THEOREM ToldAlways == Spec => []RoomIsTold
BY InitRoom, NextRoom, InvTells, PTL DEF Spec

\* However late a request acts, nobody does anything after the room was told of their removal
\* that they had not asked for before.
THEOREM RemovedNoMore == Spec => []RemovedActNoMore
<1>1. RoomInv => RemovedActNoMore  BY DEF RoomInv
<1> QED  BY InitRoom, NextRoom, <1>1, PTL DEF Spec

\* No order of adding, replacing and removing skills, and no crash between, loses a body that
\* nobody asked to replace.
THEOREM SkillsKept == Spec => []SkillsAreKept
<1>1. RoomInv => SkillsAreKept  BY DEF RoomInv
<1> QED  BY InitRoom, NextRoom, <1>1, PTL DEF Spec

\* The room implements the rules: each of its steps is one of Extensions, or leaves the session's
\* choice and the runs as they are.
THEOREM RoomKeepsTheRules == Spec => ExtensionsSpec
<1>1. Init => ExtensionsInit  BY DEF Init
<1>2. RoomInv /\ [Next]_vars => [ExtensionsNext]_extensionVars
  BY RoomStep DEF RoomInv
<1> QED  BY InitRoom, NextRoom, <1>1, <1>2, PTL DEF Spec, ExtensionsSpec

\* So in the room too a tool runs only past every gate of its run.
THEOREM GatesHoldInTheRoom == Spec => []GateHolds
BY RoomKeepsTheRules, GatesHold, PTL

=============================================================================
