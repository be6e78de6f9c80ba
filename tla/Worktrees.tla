------------------------------ MODULE Worktrees ------------------------------
(***************************************************************************)
(* The worktrees and branches of a session's lanes (worktree_manager.rb),  *)
(* the diff a reviewer is shown with the conflicts it reports (diff.rb,    *)
(* lane_conflicts.rb), and the runs that edit the trees through their      *)
(* tools and are approved or rejected (start.rb, approve.rb, reject.rb).   *)
(*                                                                         *)
(* A review's check, its git commands and its record are one step here:    *)
(* RunLifecycle interleaves them.  The repository's own HEAD stays put.    *)
(***************************************************************************)
EXTENDS Tools, SequencesExt

CONSTANTS
  Tracked,   \* the paths in the repository
  Ignored    \* the paths .gitignore names

ASSUME IgnoredAssumption == Tracked \subseteq Paths /\ Ignored \subseteq Paths \ Tracked

VARIABLES
  branch,    \* the commits of each lane's branch: none before its worktree is made
  own        \* history: the lanes in which a command committed by itself

vars == <<run, aborted, tree, left, writtenVars, commandVars, calls, branch, own>>
gitVars == <<branch, own>>

-----------------------------------------------------------------------------
Original == [p \in Paths |-> IF p \in Tracked THEN Old ELSE Absent]

NotStarted == [lane |-> "none", status |-> "none", base |-> 0, top |-> 0, own |-> FALSE]

Started == {r \in Runs : run[r].status # "none"}

HeadOf(l) == IF branch[l] = <<>> THEN Original ELSE Last(branch[l])

\* git status --porcelain and the diff's throwaway index both see untracked files.
Changed(l) == {p \in Paths \ Ignored : tree[l][p] # HeadOf(l)[p]}
Dirty(l)   == Changed(l) # {}

InLane(l, statuses) == {r \in Runs : run[r].lane = l /\ run[r].status \in statuses}

-----------------------------------------------------------------------------
(* Lane conflicts.                                                         *)

Listed == {"awaiting_review", "approved"}

\* The newest unreviewed or approved run of every other lane.
Siblings(r) ==
  {s \in Runs : /\ run[s].status \in Listed /\ run[s].lane # run[r].lane
                /\ \A t \in InLane(run[s].lane, Listed) : t <= s}

\* git diff HEAD knows tracked files only; an approved run is asked for base..HEAD.
\* Faulty variant: both are asked for their uncommitted changes.
ChangedUncommitted(s) ==
  LET l == run[s].lane IN {p \in Changed(l) : HeadOf(l)[p] # Absent}

ChangedPaths(s) ==
  LET l == run[s].lane IN
  IF run[s].status = "awaiting_review"
  THEN {p \in Changed(l) : HeadOf(l)[p] # Absent}
  ELSE {p \in Paths : HeadOf(l)[p] # branch[l][run[s].base][p]}

Conflicts(r) ==
  UNION {(ChangedPaths(s) \cap Changed(run[r].lane)) \X {run[s].lane} : s \in Siblings(r)}

-----------------------------------------------------------------------------
(* Runs, reviews and what they do to the tree.                             *)

EnsureWorktree(l) ==
  IF branch[l] = <<>>
  THEN /\ branch' = [branch EXCEPT ![l] = <<Original>>]
       /\ tree' = [tree EXCEPT ![l] = Original]
  ELSE UNCHANGED <<branch, tree>>

\* A fresh run needs a clean tree and a free lane; a revise supersedes the run under review.
Start(l, revise) ==
  \E r \in Runs \ Started :
    /\ \A q \in Runs \ Started : r <= q
    /\ InLane(l, {"running"}) = {}
    /\ revise \/ (InLane(l, {"awaiting_review"}) = {} /\ ~Dirty(l))
    /\ EnsureWorktree(l)
    /\ run' = [q \in Runs |->
                 IF q = r THEN [lane |-> l, status |-> "running", base |-> Len(branch'[l]),
                                top |-> 0, own |-> r \in Equipped]
                 ELSE IF q \in InLane(l, {"awaiting_review"})
                      THEN [run[q] EXCEPT !.status = "superseded"] ELSE run[q]]
    /\ UNCHANGED <<aborted, left, writtenVars, commandVars, calls, own>>

\* A loop waits for its tool, so a run ends between calls; its changes go under review.
Finish(r) ==
  /\ Live(r) /\ command[r].st = "none"
  /\ run' = [run EXCEPT ![r].status = IF Dirty(run[r].lane) THEN "awaiting_review"
                                                           ELSE "completed_clean"]
  /\ aborted' = aborted \ {r}
  /\ UNCHANGED <<tree, left, writtenVars, commandVars, calls, gitVars>>

\* A failed run leaves its tree as it is.
Fail(r) ==
  /\ Live(r) /\ command[r].st = "none"
  /\ run' = [run EXCEPT ![r].status = "failed"]
  /\ aborted' = aborted \ {r}
  /\ UNCHANGED <<tree, left, writtenVars, commandVars, calls, gitVars>>

\* git add -A and commit, which a clean tree skips.
Commit(l) ==
  branch' = [branch EXCEPT ![l] =
               IF Dirty(l) THEN Append(@, [p \in Paths |-> IF p \in Ignored THEN HeadOf(l)[p]
                                                                            ELSE tree[l][p]])
               ELSE @]

\* A command of a run may commit as well, and so may what it left behind.
CommandCommits(r) ==
  /\ AtWork(r) /\ Dirty(run[r].lane)
  /\ Commit(run[r].lane)
  /\ own' = own \cup {run[r].lane}
  /\ UNCHANGED <<run, aborted, tree, left, writtenVars, commandVars, calls>>

Approve(r) ==
  /\ run[r].status = "awaiting_review"
  /\ Commit(run[r].lane)
  /\ run' = [run EXCEPT ![r].status = "approved", ![r].top = Len(branch'[run[r].lane])]
  /\ UNCHANGED <<aborted, tree, left, writtenVars, commandVars, calls, own>>

\* git reset --hard HEAD, then git clean -fd.
\* Faulty variant: the untracked files stay.
ResetOnly(l) ==
  tree' = [tree EXCEPT ![l] = [p \in Paths |-> IF HeadOf(l)[p] = Absent THEN @[p] ELSE HeadOf(l)[p]]]

ResetHard(l) ==
  tree' = [tree EXCEPT ![l] = [p \in Paths |-> IF p \in Ignored THEN @[p] ELSE HeadOf(l)[p]]]

Reject(r) ==
  /\ run[r].status = "awaiting_review"
  /\ ResetHard(run[r].lane)
  /\ run' = [run EXCEPT ![r].status = "rejected"]
  /\ UNCHANGED <<aborted, left, writtenVars, commandVars, calls, gitVars>>

-----------------------------------------------------------------------------
Init ==
  /\ run = [r \in Runs |-> NotStarted]
  /\ aborted = {} /\ left = {} /\ outside = {} /\ through = {} /\ own = {} /\ calls = 0
  /\ tree = [l \in Lanes |-> Original]
  /\ branch = [l \in Lanes |-> <<>>]
  /\ current = [r \in 0..MaxRuns |-> NoRun]
  /\ command = [r \in Runs |-> Idle]

Next ==
  \/ \E l \in Lanes, revise \in BOOLEAN : Start(l, revise)
  \/ \E r \in Runs :
       \/ ToolStep(r) /\ UNCHANGED gitVars
       \/ CommandCommits(r) \/ Finish(r) \/ Fail(r) \/ Approve(r) \/ Reject(r)

Spec == Init /\ [][Next]_vars

-----------------------------------------------------------------------------
(* Properties.                                                             *)

\* What the file tools of a rejected run wrote is gone: it is neither in the tree that git
\* watches, nor on the branch, nor anywhere outside the worktree, whatever links and commands
\* there were in between (paths.ts, assertWritable; reject.rb) - unless a command committed it
\* before anyone reviewed it, or `create` made a file through a dangling link, or a process
\* that a command left behind could put a link in the way of a write already checked.
RejectUndoes ==
  \A r \in Runs : run[r].status = "rejected" =>
    LET l == run[r].lane IN
    /\ r \in outside => r \in through \/ l \in left
    /\ l \notin own => \A p \in Paths \ Ignored : tree[l][p] # r /\ HeadOf(l)[p] # r

\* What a lane has changed and nobody else may overlook: under review, or approved.
Unreviewed(l) == IF InLane(l, {"awaiting_review"}) = {} THEN {} ELSE Changed(l)
Approved(s)   == {p \in Paths : branch[run[s].lane][run[s].base][p] # branch[run[s].lane][run[s].top][p]}

\* The diff of a run under review reports every path that another lane has changed too, be
\* the change under review or approved, and no other - except that it misses files new in the
\* other lane and approvals older than that lane's newest listed run, and that it takes what
\* a command committed after an approval for approved (lane_conflicts.rb).
ConflictsAreReported ==
  \A r \in Runs : run[r].status = "awaiting_review" =>
    \A l \in Lanes \ {run[r].lane} : \A p \in Changed(run[r].lane) :
      LET approvals == {s \in InLane(l, {"approved"}) : p \in Approved(s)}
          newest    == {s \in approvals : \A t \in InLane(l, Listed) : t <= s}
      IN  /\ (p \in Unreviewed(l) /\ HeadOf(l)[p] # Absent) \/ (newest # {} /\ l \notin own)
               => <<p, l>> \in Conflicts(r)
          /\ <<p, l>> \in Conflicts(r) => p \in Unreviewed(l) \/ approvals # {} \/ l \in own
=============================================================================
