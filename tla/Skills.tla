------------------------------- MODULE Skills -------------------------------
(***************************************************************************)
(* The skills on disk: the two roots a skill may live in, the graveyard    *)
(* beside each of them, and the index a run was given when it started.     *)
(* Requests to the harness and runs share these directories with people,   *)
(* who keep skills there by hand, under any directory name and sometimes   *)
(* as a link, and with every session of the same repository; the host's    *)
(* root is the machine's.                                                  *)
(***************************************************************************)
EXTENDS Naturals, Sequences

CONSTANTS
  Readers,      \* the lanes whose runs read skills
  Names,        \* skill names
  Copies,       \* Names -> the graveyard's names for a removed copy, in the order tried
  HostSkills    \* what the developer keeps in the host root: functions Names -> entries

Scopes == {"project", "host"}

Entries == [dir : {"none", "bare", "full", "link"}, name : Names \cup {""}, body : Nat]

ASSUME SkillsAssumption == HostSkills \subseteq [Names -> Entries]

VARIABLES
  skill,        \* Scopes -> Names of directories -> what stands there
  removed,      \* Scopes -> the graveyard: names of removed copies -> their bodies
  index,        \* Readers -> the skills of the lane's run: names -> where the body is
  \* history
  written,      \* every body that was ever in a root
  overwritten   \* those that an explicit replacement wrote over

skillVars == <<skill, removed, index, written, overwritten>>

\* dir: no such directory, a directory without SKILL.md, one with it, or a link to one that
\* lies outside the root.  `name` is the name that the file gives itself, or else the
\* directory's.
NoSkill == [dir |-> "none", name |-> "", body |-> 0]

Body(e) == IF e.dir \in {"full", "link"} THEN {e.body} ELSE {}

SkillsInit ==
  /\ \E kept \in HostSkills :
       skill = [s \in Scopes |-> IF s = "host" THEN kept ELSE [n \in Names |-> NoSkill]]
  /\ removed = [s \in Scopes |-> <<>>]
  /\ index = [l \in Readers |-> <<>>]
  /\ written = UNION {Body(skill["host"][n]) : n \in Names}
  /\ overwritten = {}

-----------------------------------------------------------------------------
(* Adding and removing.                                                    *)

MayAdd(s, n, replace) ==
  /\ skill[s][n].dir = "none" \/ replace
  /\ skill[s][n].dir # "link"

AddSkill(s, n, replace, body) ==
  /\ MayAdd(s, n, replace)
  /\ skill' = [skill EXCEPT ![s][n] = [dir |-> "full", name |-> n, body |-> body]]
  /\ written' = written \cup {body}
  /\ overwritten' = IF replace THEN overwritten \cup Body(skill[s][n]) ELSE overwritten
  /\ UNCHANGED <<removed, index>>

\* The process dies between making the directory and writing the file, or, over an old file,
\* between opening and writing it.
CutAdd(s, n, replace) ==
  /\ MayAdd(s, n, replace)
  /\ skill' = [skill EXCEPT ![s][n] =
                 IF @.dir = "full" THEN [dir |-> "full", name |-> n, body |-> 0]
                                   ELSE [NoSkill EXCEPT !.dir = "bare", !.name = n]]
  /\ overwritten' = IF replace THEN overwritten \cup Body(skill[s][n]) ELSE overwritten
  /\ UNCHANGED <<removed, index, written>>

Put(f, k, v) == [x \in DOMAIN f \cup {k} |-> IF x = k THEN v ELSE f[x]]

\* Faulty: a removed copy always takes the skill's own name.
FirstRemovedPath(s, n, path) == path = Copies[n][1]

FreeRemovedPath(s, n, path) ==
  \E k \in DOMAIN Copies[n] :
    /\ path = Copies[n][k]
    /\ path \notin DOMAIN removed[s]
    /\ \A j \in 1 .. k - 1 : Copies[n][j] \in DOMAIN removed[s]

RemoveSkill(s, n) ==
  /\ skill[s][n].dir \in {"bare", "full"}
  /\ \E path \in UNION {{Copies[m][k] : k \in DOMAIN Copies[m]} : m \in Names} :
       /\ FreeRemovedPath(s, n, path)
       /\ removed' = [removed EXCEPT ![s] = Put(@, path, Body(skill[s][n]))]
  /\ skill' = [skill EXCEPT ![s][n] = NoSkill]
  /\ UNCHANGED <<index, written, overwritten>>

-----------------------------------------------------------------------------
(* The skills of a run.                                                    *)

Listed(e) == e.dir \in {"full", "link"}

Scan(s, name) == {n \in Names : Listed(skill[s][n]) /\ skill[s][n].name = name}

Places == (Scopes \cup {"worktree"}) \X Names

\* What the run's own directory may offer under each name.  A chat runs in the repository whose
\* root is managed; a review run has a worktree, and in it the skills that are committed or that
\* runs have left there, which nobody manages: any.
OwnSkillsOf(mode) ==
  IF mode = "chat"
  THEN {[name \in Names |-> {<<"project", n>> : n \in Scan("project", name)}]}
  ELSE {[name \in Names |-> IF name \in held THEN {<<"worktree", name>>} ELSE {}] :
          held \in SUBSET Names}

LocateSkills(own, name) ==
  IF own[name] # {} THEN own[name] ELSE {<<"host", n>> : n \in Scan("host", name)}

\* Two directories of one root may give themselves the same name: the first one listed wins.
ResolveSkills(l, mode, selection) ==
  /\ \E own \in OwnSkillsOf(mode) :
       LET found == {name \in selection : LocateSkills(own, name) # {}}
       IN \E places \in [found -> Places] :
            /\ \A name \in found : places[name] \in LocateSkills(own, name)
            /\ index' = [index EXCEPT ![l] = places]
  /\ UNCHANGED <<skill, removed, written, overwritten>>

\* What the skill tool answers with, of a managed root: the body as it is now, read inside it.
Loads(l, name) ==
  LET place == index[l][name] IN skill[place[1]][place[2]].dir = "full"

ForgetSkills(l) ==
  /\ index' = [index EXCEPT ![l] = <<>>]
  /\ UNCHANGED <<skill, removed, written, overwritten>>

-----------------------------------------------------------------------------

\* Managing skills destroys nobody's work: every body that ever stood in a root stands there
\* still, or lies in the graveyard, or was replaced by a request that asked to replace it.
SkillsAreKept ==
  \A b \in written \ overwritten :
    \/ \E s \in Scopes, n \in Names : b \in Body(skill[s][n])
    \/ \E s \in Scopes : \E path \in DOMAIN removed[s] : b \in removed[s][path]

=============================================================================
