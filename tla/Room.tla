-------------------------------- MODULE Room --------------------------------
(***************************************************************************)
(* A session as its members see it: who is in it, what they may do, and    *)
(* the events that tell the room what was done.  Several threads of Rails  *)
(* work on requests at once.  A request looks up the caller's row and      *)
(* role, acts, and is announced; for a rule or a skill the act is the      *)
(* harness's, and the announcement is a transaction of its own.  Composes  *)
(* Extensions and Skills: the same members start the runs that ask the     *)
(* session's rules and read its skills.  Skills are not the session's own: *)
(* owners of other sessions on the same repository change them too, and    *)
(* are heard only there.                                                   *)
(***************************************************************************)
EXTENDS Extensions, Skills, FiniteSets

CONSTANTS
  Users,      \* display names: joining under the same name is being the same user
  Host,       \* the one who created the session
  Invites,
  Threads,
  Budgets     \* what may happen in one behaviour: requests by kind, faults, lost threads

ASSUME LanesAssumption == Readers = Lanes

VARIABLES
  rows,       \* the table participants: [user, role, removed]
  invites,    \* Invites -> [role, status]
  archived,
  mode,       \* of the session, for its lifetime
  feed,       \* the sessions' events by id, each with how many there were when it was asked for;
              \* those of other sessions, which this one does not see, are by 0
  request,    \* Threads -> what the thread works on, and where it stands
  \* history
  unsure,     \* what the feed may have missed or has out of order
  left        \* what remains of the budget

tableVars == <<rows, invites, archived, mode>>
vars == <<extensionVars, skillVars, tableVars, feed, request, unsure, left>>

Idle == [op |-> "none", at |-> "idle", user |-> None, row |-> 0, about |-> <<>>,
         arg |-> {}, since |-> 0]

Matrix ==
  [owner    |-> {"view", "chat", "run", "manage_invites", "manage_session", "archive"},
   editor   |-> {"view", "chat", "run"},
   reviewer |-> {"view", "chat"},
   viewer   |-> {"view", "chat"}]

Event(t, row, says, active) ==
  [by |-> row, about |-> request[t].about, says |-> says, active |-> active,
   since |-> request[t].since]

\* SessionsController.create, with its announcement.
Init ==
  /\ ExtensionsInit
  /\ SkillsInit
  /\ rows = <<[user |-> Host, role |-> "owner", removed |-> FALSE]>>
  /\ invites = [i \in Invites |-> [role |-> "viewer", status |-> "none"]]
  /\ archived = FALSE
  /\ mode \in {"chat", "review"}
  /\ feed = <<[by |-> 1, about |-> <<"row", 1>>, says |-> "joined", active |-> {}, since |-> 0]>>
  /\ request = [t \in Threads |-> Idle]
  /\ unsure = {}
  /\ left \in Budgets

Spend(what) == /\ left[what] > 0
               /\ left' = [left EXCEPT ![what] = @ - 1]

-----------------------------------------------------------------------------
(* Who asks.                                                               *)

Active == {r \in DOMAIN rows : ~rows[r].removed}

\* Faulty: the lookup forgets that rows are revoked and not deleted.
ParticipantForAny(user) == {r \in DOMAIN rows : rows[r].user = user}

\* find_by names no order: of several rows of one user any may be the one.
ParticipantFor(user) == {r \in Active : rows[r].user = user}

Can(user, action) == \E r \in ParticipantFor(user) : action \in Matrix[rows[r].role]

\* The request passed its checks and is about to act.
Accept(t, op, user, row, about, arg) ==
  /\ request[t].op = "none"
  /\ request' = [request EXCEPT ![t] =
       [op |-> op, at |-> "act", user |-> user, row |-> row, about |-> about, arg |-> arg,
        since |-> Len(feed)]]
  /\ UNCHANGED <<extensionVars, skillVars, tableVars, feed, unsure>>

Answer(t) == request' = [request EXCEPT ![t] = Idle]

Tell(t, row, says, active) == feed' = Append(feed, Event(t, row, says, active))

-----------------------------------------------------------------------------
(* Invites and joining.                                                    *)

Generate ==
  /\ Spend("join")
  /\ \E u \in Users, i \in Invites, role \in {"owner", "viewer"} :
       /\ Can(u, "manage_invites")
       /\ invites[i].status = "none"
       /\ invites' = [invites EXCEPT ![i] = [role |-> role, status |-> "usable"]]
  /\ UNCHANGED <<extensionVars, skillVars, rows, archived, mode, feed, request, unsure>>

Revoke ==
  /\ Spend("join")
  /\ \E u \in Users, i \in Invites :
       /\ Can(u, "manage_invites")
       /\ invites[i].status # "none"
       /\ invites' = [invites EXCEPT ![i].status = "revoked"]
  /\ UNCHANGED <<extensionVars, skillVars, rows, archived, mode, feed, request, unsure>>

Usable(i) == invites[i].status = "usable"

Expire ==
  /\ Spend("join")
  /\ \E i \in Invites : Usable(i) /\ invites' = [invites EXCEPT ![i].status = "expired"]
  /\ UNCHANGED <<extensionVars, skillVars, rows, archived, mode, feed, request, unsure>>

\* No cookie is needed and no row is looked for: who joins again gets another row.
AskJoin(t) ==
  /\ Spend("join")
  /\ \E u \in Users, i \in Invites :
       /\ Usable(i)
       /\ Accept(t, "join", u, 0, <<"invite", i>>, invites[i].role)

Join(t) ==
  /\ request[t].op = "join" /\ request[t].at = "act"
  /\ rows' = Append(rows, [user |-> request[t].user, role |-> request[t].arg, removed |-> FALSE])
  /\ request' = [request EXCEPT ![t].at = "tell", ![t].row = Len(rows'),
                                ![t].about = <<"row", Len(rows')>>]
  /\ UNCHANGED <<extensionVars, skillVars, invites, archived, mode, feed, unsure, left>>

AnnounceParticipantJoined(t) ==
  /\ request[t].op = "join" /\ request[t].at = "tell"
  /\ Tell(t, request[t].row, "joined", {})
  /\ Answer(t)
  /\ UNCHANGED <<extensionVars, skillVars, tableVars, unsure, left>>

-----------------------------------------------------------------------------
(* Removing, talking, archiving.                                           *)

Announced(r) == \E i \in DOMAIN feed : feed[i].about = <<"row", r>>

AskRemove(t) ==
  /\ Spend("remove")
  /\ \E u \in Users : \E r \in Active :
       /\ Can(u, "manage_session")
       /\ rows[r].user # Host
       /\ Accept(t, "remove", u, 0, <<"row", r>>, {})

\* The caller's row is read again, and the target's removal and its event are one transaction.
\* A row whose joining was not announced yet may be announced after this.
Remove(t) ==
  /\ request[t].op = "remove"
  /\ \E r \in ParticipantFor(request[t].user) :
       /\ rows' = [rows EXCEPT ![request[t].about[2]].removed = TRUE]
       /\ Tell(t, r, "removed", {})
  /\ unsure' = IF Announced(request[t].about[2]) THEN unsure ELSE unsure \cup {request[t].about}
  /\ Answer(t)
  /\ UNCHANGED <<extensionVars, skillVars, invites, archived, mode, left>>

AskChat(t) ==
  /\ Spend("chat")
  /\ \E u \in Users : \E r \in ParticipantFor(u) :
       /\ Can(u, "chat")
       /\ Accept(t, "chat", u, r, <<"chat">>, {})

Chat(t) ==
  /\ request[t].op = "chat"
  /\ Tell(t, request[t].row, "chat_message", {})
  /\ Answer(t)
  /\ UNCHANGED <<extensionVars, skillVars, tableVars, unsure, left>>

Archive ==
  /\ Spend("archive")
  /\ \E u \in Users : Can(u, "archive")
  /\ archived' = TRUE
  /\ UNCHANGED <<extensionVars, skillVars, rows, invites, mode, feed, request, unsure>>

-----------------------------------------------------------------------------
(* Rules and skills: the harness acts, Rails announces.                    *)

AskToggle(t) ==
  /\ Spend("toggle")
  /\ \E u \in Users, c \in Contributors, on \in BOOLEAN :
       /\ Can(u, "manage_session")
       /\ Accept(t, "toggle", u, 0, <<"plugins">>, [id |-> c, on |-> on])

\* Others that have acted on the same thing and not yet said so.
Overlaps(t) ==
  \E o \in Threads \ {t} : request[o].at = "tell" /\ request[o].about = request[t].about

Doubt(t) == IF Overlaps(t) THEN unsure \cup {request[t].about} ELSE unsure

\* Faulty: the harness answers with the set it had read before it wrote.
ApplyToggleStale(t) ==
  /\ request[t].op = "toggle" /\ request[t].at = "act"
  /\ SetPluginEnabled(request[t].arg.id, request[t].arg.on)
  /\ request' = [request EXCEPT ![t].at = "tell", ![t].arg = ActiveFor]
  /\ unsure' = Doubt(t)
  /\ UNCHANGED <<skillVars, tableVars, feed, left>>

\* The harness answers with the set that is now on, which goes into the event.
ApplyToggle(t) ==
  /\ request[t].op = "toggle" /\ request[t].at = "act"
  /\ SetPluginEnabled(request[t].arg.id, request[t].arg.on)
  /\ request' = [request EXCEPT ![t].at = "tell", ![t].arg = ActiveFor']
  /\ unsure' = Doubt(t)
  /\ UNCHANGED <<skillVars, tableVars, feed, left>>

AskSkill(t) ==
  /\ Spend("skill")
  /\ \E u \in Users, s \in Scopes, n \in Names, what \in {"add", "replace", "remove"} :
       /\ Can(u, "manage_session")
       /\ Accept(t, "skill", u, 0, <<s, n>>, what)

\* An owner of another session whose repository or whose machine is this one's.
AskSkillThere(t) ==
  /\ Spend("there")
  /\ \E s \in Scopes, n \in Names, what \in {"add", "replace", "remove"} :
       Accept(t, "skill", None, 0, <<s, n>>, what)

ApplySkill(t) ==
  /\ request[t].op = "skill" /\ request[t].at = "act"
  /\ LET s == request[t].about[1]
         n == request[t].about[2]
     IN \/ /\ request[t].arg \in {"add", "replace"}
           /\ AddSkill(s, n, request[t].arg = "replace", 10 * Cardinality(written) + 10)
        \/ /\ request[t].arg = "remove"
           /\ RemoveSkill(s, n)
  /\ request' = [request EXCEPT ![t].at = "tell",
                   ![t].arg = IF @ = "remove" THEN "removed" ELSE "added"]
  /\ unsure' = Doubt(t)
  /\ UNCHANGED <<extensionVars, tableVars, feed, left>>

\* record_change: the caller's row is read again, after the effect, and the event goes to the
\* caller's session alone.
RecordChange(t) ==
  /\ request[t].op \in {"toggle", "skill"} /\ request[t].at = "tell"
  /\ \E r \in IF request[t].user = None THEN {0} ELSE ParticipantFor(request[t].user) :
       IF request[t].op = "toggle" THEN Tell(t, r, "toggled", request[t].arg)
                                   ELSE Tell(t, r, request[t].arg, {})
  /\ Answer(t)
  /\ UNCHANGED <<extensionVars, skillVars, tableVars, unsure, left>>

-----------------------------------------------------------------------------
(* What goes wrong.                                                        *)

\* Refused by the harness, or by the lookup that Remove repeats: nothing was done.
Refused(t) ==
  /\ request[t].at = "act"
  /\ \/ request[t].op = "toggle" /\ ~Compatible(request[t].arg.id)
     \/ /\ request[t].op = "skill"
        /\ LET e == skill[request[t].about[1]][request[t].about[2]]
           IN IF request[t].arg = "remove" THEN e.dir \in {"none", "link"}
              ELSE ~MayAdd(request[t].about[1], request[t].about[2], request[t].arg = "replace")
     \/ request[t].op = "remove" /\ ParticipantFor(request[t].user) = {}
  /\ Answer(t)
  /\ UNCHANGED <<extensionVars, skillVars, tableVars, feed, unsure, left>>

\* The file cannot be written after its directory was made, or was opened and emptied: the harness
\* answers with a failure, and nothing is announced.
WriteFails(t) ==
  /\ request[t].op = "skill" /\ request[t].at = "act" /\ request[t].arg \in {"add", "replace"}
  /\ Spend("fault")
  /\ CutAdd(request[t].about[1], request[t].about[2], request[t].arg = "replace")
  /\ unsure' = unsure \cup {request[t].about}
  /\ Answer(t)
  /\ UNCHANGED <<extensionVars, tableVars, feed>>

\* The caller was removed between the effect and its announcement.
Unannounced(t) ==
  /\ request[t].op \in {"toggle", "skill"} /\ request[t].at = "tell"
  /\ ParticipantFor(request[t].user) = {}
  /\ unsure' = unsure \cup {request[t].about}
  /\ Answer(t)
  /\ UNCHANGED <<extensionVars, skillVars, tableVars, feed, left>>

\* The thread dies, or gives up on an answer of the harness.
LoseThread(t) ==
  /\ request[t].op # "none"
  /\ Spend("lost")
  /\ unsure' = IF request[t].at = "tell" THEN unsure \cup {request[t].about} ELSE unsure
  /\ Answer(t)
  /\ UNCHANGED <<extensionVars, skillVars, tableVars, feed>>

\* The harness dies, between two requests or in the middle of writing a skill.
CrashHarness ==
  /\ Spend("fault")
  /\ run' = [l \in Lanes |-> NoRun]
  /\ UNCHANGED <<plugins, tableVars, feed>>
  /\ \/ UNCHANGED <<skillVars, request, unsure>>
     \/ \E t \in Threads :
          /\ request[t].op = "skill" /\ request[t].at = "act"
          /\ request[t].arg \in {"add", "replace"}
          /\ CutAdd(request[t].about[1], request[t].about[2], request[t].arg = "replace")
          /\ unsure' = unsure \cup {request[t].about}
          /\ Answer(t)

-----------------------------------------------------------------------------
(* Runs.                                                                   *)

AskRun(t) ==
  /\ Spend("run")
  /\ \E u \in Users : Can(u, "run") /\ ~archived /\ Accept(t, "run", u, 0, <<"run">>, {})

Start(t) ==
  /\ request[t].op = "run"
  /\ \E l \in Lanes, selection \in {{}, Names} : StartRun(l) /\ ResolveSkills(l, mode, selection)
  /\ Answer(t)
  /\ UNCHANGED <<tableVars, feed, unsure, left>>

Busy(t) ==
  /\ request[t].op = "run"
  /\ \A l \in Lanes : run[l].at # "none"
  /\ Answer(t)
  /\ UNCHANGED <<extensionVars, skillVars, tableVars, feed, unsure, left>>

Runs(l) ==
  /\ RunNext(l)
  /\ IF run'[l].at = "none" THEN ForgetSkills(l) ELSE UNCHANGED skillVars
  /\ UNCHANGED <<tableVars, feed, request, unsure, left>>

-----------------------------------------------------------------------------

Rails(t) ==
  \/ AskJoin(t) \/ Join(t) \/ AnnounceParticipantJoined(t)
  \/ AskRemove(t) \/ Remove(t) \/ AskChat(t) \/ Chat(t)
  \/ AskToggle(t) \/ ApplyToggle(t) \/ AskSkill(t) \/ AskSkillThere(t)
  \/ ApplySkill(t) \/ RecordChange(t)
  \/ Refused(t) \/ WriteFails(t) \/ Unannounced(t) \/ LoseThread(t)
  \/ AskRun(t) \/ Start(t) \/ Busy(t)

Next ==
  \/ \E t \in Threads : Rails(t)
  \/ \E l \in Lanes : Runs(l)
  \/ Generate \/ Revoke \/ Expire \/ Archive \/ CrashHarness

Spec == Init /\ [][Next]_vars

-----------------------------------------------------------------------------
(* Properties.                                                             *)

Quiet == \A t \in Threads : request[t].op = "none"

Told(about) == {i \in DOMAIN feed : feed[i].about = about}
Last(about) == feed[CHOOSE i \in Told(about) : \A j \in Told(about) : j <= i]
LastWord(about) == Last(about).says

SkillThere(s, n) == IF skill[s][n].dir = "none" THEN "removed" ELSE "added"

\* When no request is under way, the session's feed says who is in the room and which rules are on;
\* and the feeds of the sessions that share the roots, in the order of their events, say which
\* skills stand where (this one's alone does if no other session changed the skill later) - except
\* about what a lost thread, a failed write or announcement, two overlapping changes or a removal
\* before the announcement left them unsure of.  Removing someone is announced whatever is lost, and
\* a managed skill that a run was promised and cannot load is one whose removal was told, or a link.
RoomIsTold ==
  Quiet =>
    /\ \A r \in DOMAIN rows :
         /\ <<"row", r>> \notin unsure =>
              LastWord(<<"row", r>>) = IF rows[r].removed THEN "removed" ELSE "joined"
         /\ rows[r].removed => \E i \in Told(<<"row", r>>) : feed[i].says = "removed"
    /\ <<"plugins">> \notin unsure /\ Told(<<"plugins">>) # {} =>
         Last(<<"plugins">>).active = ActiveFor
    /\ \A s \in Scopes, n \in Names :
         <<s, n>> \notin unsure /\ Told(<<s, n>>) # {} => LastWord(<<s, n>>) = SkillThere(s, n)
    /\ \A l \in Lanes : \A name \in DOMAIN index[l] :
         LET place == index[l][name]
         IN place[1] \in Scopes =>
              \/ Loads(l, name)
              \/ skill[place[1]][place[2]].dir = "link"
              \/ place \in unsure
              \/ Told(place) # {} /\ LastWord(place) = "removed"

\* Whatever a removed participant does after the room was told was asked for before: its checks
\* were passed when the row was still there.
RemovedActNoMore ==
  \A i, j \in DOMAIN feed :
    j < i /\ feed[j].says = "removed" /\ feed[j].about = <<"row", feed[i].by>>
      => feed[i].since < j

=============================================================================
