------------------------------- MODULE RoomMC -------------------------------
EXTENDS Room, TLC

\* Two gates, a handler on another point, and a contributor that only an old record names.
RulePoint == "bash" :> "tool:before" @@ "write" :> "tool:before"
             @@ "audit" :> "request:before" @@ "old" :> "tool:after"
RuleBand  == [c \in Contributors |-> IF c = "audit" THEN 50 ELSE 0]
RuleRank  == "bash" :> 1 @@ "write" :> 2 @@ "audit" :> 3 @@ "old" :> 4

\* A removed copy of `deploy` may take the name of the other skill.
CopyNames == "deploy" :> <<"deploy", "deploy-2">> @@ "deploy-2" :> <<"deploy-2", "deploy-2-2">>

\* The developer's own: nothing, a skill that calls itself by another name, a link, or a
\* directory without a SKILL.md.
Kept(dir, name) == [dir |-> dir, name |-> name, body |-> 1]
OwnSkills == {[n \in Names |-> NoSkill],
              [n \in Names |-> IF n = "deploy" THEN Kept("full", "deploy-2") ELSE NoSkill],
              [n \in Names |-> IF n = "deploy" THEN Kept("link", "deploy") ELSE NoSkill],
              [n \in Names |-> IF n = "deploy" THEN Kept("bare", "deploy") ELSE NoSkill]}

Nothing == [join |-> 0, remove |-> 0, chat |-> 0, archive |-> 0, toggle |-> 0, skill |-> 0,
            there |-> 0, run |-> 0, lost |-> 0, fault |-> 0]

\* People come and go; an owner is removed while its change is under way; rules change one
\* another, and under a run; skills change one another, here and from another session, and under
\* a run.
Scenes == {[Nothing EXCEPT !.join = 3, !.remove = 2, !.chat = 1, !.lost = 1],
           [Nothing EXCEPT !.join = 2, !.remove = 1, !.toggle = 1, !.skill = 1],
           [Nothing EXCEPT !.toggle = 2, !.lost = 1],
           [Nothing EXCEPT !.toggle = 1, !.run = 2, !.archive = 1],
           [Nothing EXCEPT !.skill = 3, !.fault = 1, !.lost = 1],
           [Nothing EXCEPT !.skill = 1, !.there = 1, !.lost = 1],
           [Nothing EXCEPT !.there = 1, !.run = 1, !.fault = 1]}

\* What was there before matters where it can change or be read.
Opening ==
  /\ Init
  /\ left.run = 0 => mode = "chat"
  /\ left.toggle = 0 => ~plugins.chosen
  /\ left.skill + left.there = 0 \/ left.remove > 0 => skill["host"] = [n \in Names |-> NoSkill]

OpeningSpec == Opening /\ [][Next]_vars

AnyThread == Permutations(Threads)
=============================================================================
