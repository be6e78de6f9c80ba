---------------------------- MODULE RunLifecycle ----------------------------
(***************************************************************************)
(* What Rails makes of a run: from the request that starts it to the human *)
(* decision about its changes, with the worktree the run edits.            *)
(*                                                                         *)
(* Rails serves each request, each posted event and each job in a thread   *)
(* of its own; between two statements of a thread any other thread may     *)
(* run, and a thread may die with its process.  A record that a thread     *)
(* has loaded does not follow the database: what it writes later is what   *)
(* it decided from the old value.  A worker here is such a thread.         *)
(*                                                                         *)
(* The model is one lane of one review session.  Lanes share only the      *)
(* archived mark: the index, the worktree and the branch are per lane.  A  *)
(* chat session has no worktree, as a lane whose tree is never edited.     *)
(* The harness is the part of HarnessRun that Rails can see, and the wire  *)
(* the order of delivery that Transport shows.                             *)
(***************************************************************************)
EXTENDS Integers, FiniteSets, Sequences, FiniteSetsExt

CONSTANTS
  Workers,      \* bound: threads of Rails at work at the same time
  MaxRuns,      \* bound: runs created
  MaxStarts,    \* bound: requests to start one
  MaxDecisions, \* bound: approvals and rejections asked for
  MaxInterrupts, \* bound: interrupts asked for
  MaxArchives,  \* bound: requests to archive
  MaxCrashes,   \* bound: crashes of the harness
  MaxTimeouts,  \* bound: harness calls that Rails gives up
  MaxDeaths,    \* bound: threads of Rails that die half way
  MaxRestarts   \* bound: restarts of Rails

ASSUME BoundsAssumption ==
  /\ IsFiniteSet(Workers) /\ MaxRuns \in Nat /\ MaxStarts \in Nat /\ MaxDecisions \in Nat
  /\ MaxInterrupts \in Nat /\ MaxArchives \in Nat /\ MaxCrashes \in Nat
  /\ MaxTimeouts \in Nat /\ MaxDeaths \in Nat /\ MaxRestarts \in Nat

Runs == 1 .. MaxRuns

Sweepable == {"queued", "running"}
Active    == Sweepable \cup {"awaiting_review"}
Restorable == {"failed", "completed_clean", "superseded"}
Decided   == {"approved", "rejected"}
Statuses  == Active \cup Restorable \cup Decided

VARIABLES
  \* Rails
  status,    \* ai_runs.status; "unborn" before the insert, "destroyed" after the delete
  rows,      \* the events table: the rows of each run
  archived,  \* the session is closed
  fresh,     \* the run was created, or named in a heartbeat, in the last 15 seconds
  work,      \* what each worker is doing
  \* the disk
  tree,      \* the worktree: is it there, whose edits are uncommitted, whose committed
  \* the harness
  held,      \* "no", "starting" (inside startRun), "live", "ended", "lost" in a crash
  top,       \* the last seq the harness gave to an event of the run
  aborted,   \* runs told to stop
  wire,      \* the transport's buffer, oldest first
  posting,   \* a POST of that buffer is in the air or queued
  \* history
  shared,    \* runs that shared the tree or the harness with another, or whose decision met another
  spent      \* how much of each bound is used

railsVars == <<status, rows, archived, fresh>>
harnessVars == <<held, top, aborted, wire, posting>>
vars == <<railsVars, work, tree, harnessVars, shared, spent>>

Event(r, seq, type) == [run |-> r, seq |-> seq, type |-> type]

\* A worker's job: what it does, where it is, and what it has loaded.
Job(op, at, r) == [op |-> op, at |-> at, run |-> r, saw |-> "none", seq |-> 0, ids |-> {}]
Idle == Job("idle", "idle", 0)
Loaded(job) == [job EXCEPT !.saw = status[job.run]]

Limit == [starts |-> MaxStarts, decisions |-> MaxDecisions,
          interrupts |-> MaxInterrupts, archives |-> MaxArchives, crashes |-> MaxCrashes, timeouts |-> MaxTimeouts,
          deaths |-> MaxDeaths, restarts |-> MaxRestarts]
Spend(what) == /\ spent[what] < Limit[what]
               /\ spent' = [spent EXCEPT ![what] = @ + 1]

Init ==
  /\ status = [r \in Runs |-> "unborn"] /\ rows = {} /\ archived = FALSE
  /\ fresh = [r \in Runs |-> FALSE]
  /\ work = [w \in Workers |-> Idle]
  /\ tree = [there |-> FALSE, dirty |-> {}, kept |-> {}]
  /\ held = [r \in Runs |-> "no"] /\ top = [r \in Runs |-> 0]
  /\ aborted = {} /\ wire = <<>> /\ posting = FALSE
  /\ shared = {}
  /\ spent = [b \in DOMAIN Limit |-> 0]

-----------------------------------------------------------------------------
(* Helpers                                                                 *)

Known == {r \in Runs : status[r] \in Statuses}
ActiveRuns == {r \in Runs : status[r] \in Active}

\* index_ai_runs_one_active_per_lane: may the run take this status now?
IndexAllows(r, s) == s \in Active => ActiveRuns \subseteq {r}

\* index_events_on_run_and_seq.  A row without a seq never collides.
RowAllowed(e) == e.seq = 0 \/ \A row \in rows : <<row.run, row.seq>> # <<e.run, e.seq>>

\* (run.events.maximum(:seq) || 0) + 1
Seqs(table, r) == {row.seq : row \in {x \in table : x.run = r}}
NextSeq(table, r) == Max(Seqs(table, r) \cup {0}) + 1

\* WorktreeManager#dirty?; an unreadable tree counts as clean.
Dirty == tree.there /\ tree.dirty # {}

\* The web server takes nothing while bin/rails harness:reconcile runs before it.  The jobs,
\* in a container of their own, go on.
Booting == \E w \in Workers : work[w].op = "reconcile"
Takes(w, job) == /\ work[w] = Idle /\ ~Booting
                 /\ work' = [work EXCEPT ![w] = job]
Goes(w, job) == work' = [work EXCEPT ![w] = job]
Done(w) == Goes(w, Idle)
Doing(w, op, at) == work[w].op = op /\ work[w].at = at

\* Only the run's status, or its status and a row, change: Events::Append is one transaction.
Sets(r, s) == status' = [status EXCEPT ![r] = s]
Appends(r, s, e) == Sets(r, s) /\ rows' = rows \cup {e}

-----------------------------------------------------------------------------
(* start.rb                                                                *)

\* preflight, the active run of the lane, the worktree and, for a fresh run, its cleanliness.
\* What fails here changes nothing but the worktree, which may have been created.
StartLook(w, mode) ==
  /\ Spend("starts") /\ ~archived
  /\ tree' = [tree EXCEPT !.there = TRUE]
  /\ \E prior \in IF ActiveRuns = {} THEN {0} ELSE ActiveRuns :
       IF mode = "fresh" /\ (prior # 0 \/ tree.dirty # {})
       THEN ~Booting /\ UNCHANGED work
       ELSE Takes(w, IF prior = 0 THEN Job("start", "create", 0)
                     ELSE Loaded(Job("start", "supersede", prior)))
  /\ UNCHANGED <<railsVars, harnessVars, shared>>

\* A revise: the run under review is superseded, whatever has become of it since it was loaded.
Supersede(w) ==
  /\ Doing(w, "start", "supersede")
  /\ IF work[w].run \in Known THEN Sets(work[w].run, "superseded") ELSE UNCHANGED status
  /\ Goes(w, Job("start", "create", 0))
  /\ shared' = shared \cup {r \in Runs : r = work[w].run \/ status[r] = "unborn"}
  /\ UNCHANGED <<rows, archived, fresh, tree, harnessVars, spent>>

\* AiRun.create!; the partial unique index refuses a second active run.
Create(w) ==
  /\ Doing(w, "start", "create")
  /\ \/ /\ ActiveRuns # {} /\ Done(w) /\ UNCHANGED <<status, fresh>>
     \/ \E r \in Runs :
          /\ ActiveRuns = {} /\ status[r] = "unborn"
          /\ \A q \in Runs : q < r => status[q] # "unborn"
          /\ Sets(r, "queued") /\ fresh' = [fresh EXCEPT ![r] = TRUE]
          /\ Goes(w, Job("start", "post", r))
  /\ UNCHANGED <<rows, archived, tree, harnessVars, shared, spent>>

\* run.destroy: the row goes, its events stay and belong to no run.
Destroy(r) == Sets(r, "destroyed") /\ rows' = {row \in rows : row.run # r}

\* POST /runs.  The harness refuses when a run is registered in the lane (supervisor.ts);
\* a run that is still starting is not.
Post(w) ==
  /\ Doing(w, "start", "post")
  /\ LET r == work[w].run IN
     IF \E q \in Runs : held[q] = "live"
     THEN Destroy(r) /\ Done(w) /\ UNCHANGED held
     ELSE /\ Goes(w, Job("start", "wait", r))
          /\ held' = [held EXCEPT ![r] = "starting"] /\ UNCHANGED <<status, rows>>
  /\ UNCHANGED <<archived, fresh, tree, top, aborted, wire, posting, shared, spent>>

\* The answer: a 2xx once the run is registered; a refusal when it is not; or none within
\* the client's read timeout, and Rails forgets a run that the harness may hold.
Answered(w) ==
  /\ Doing(w, "start", "wait")
  /\ LET r == work[w].run IN
     \/ held[r] \in {"live", "ended", "lost"} /\ UNCHANGED <<status, rows, spent>>
     \/ held[r] = "no" /\ Destroy(r) /\ UNCHANGED spent
     \/ held[r] \in {"starting", "live"} /\ Spend("timeouts") /\ Destroy(r)
  /\ Done(w)
  /\ UNCHANGED <<archived, fresh, tree, harnessVars, shared>>

-----------------------------------------------------------------------------
(* ingest.rb, finalize.rb                                                  *)

\* Events::Ingest: the row is inserted, then Finalize loads the run and looks at its tree,
\* all before any transition.  seq is the one of the changeset_ready that a dirty tree calls for.
Ingest(w, op, e) ==
  /\ rows' = rows \cup {e}
  /\ Goes(w, [Loaded(Job(op, e.type, e.run)) EXCEPT !.seq = IF Dirty THEN NextSeq(rows', e.run) ELSE 0])

\* Faulty variant: a duplicate is an error.
DeliverOnce(w) ==
  /\ wire # <<>> /\ posting /\ ~Booting
  /\ \A v \in Workers : work[v].op # "ingest"
  /\ LET e == Head(wire) IN
     /\ status[e.run] # "destroyed" /\ RowAllowed(e)
     /\ work[w] = Idle /\ Ingest(w, "ingest", e)
  /\ wire' = Tail(wire) /\ posting' = (wire' # <<>>)
  /\ UNCHANGED <<status, archived, fresh, tree, held, top, aborted, shared, spent>>

\* POST /internal/events: one batch at a time, in order.  A duplicate is skipped.  A run Rails
\* has destroyed fails the foreign key, which nothing rescues: the answer is a 500 and the
\* batch stays at the head of the buffer.
Deliver(w) ==
  /\ wire # <<>> /\ posting /\ ~Booting
  /\ \A v \in Workers : work[v].op # "ingest"
  /\ LET e == Head(wire) IN
     /\ status[e.run] # "destroyed"
     /\ IF RowAllowed(e) THEN work[w] = Idle /\ Ingest(w, "ingest", e) ELSE UNCHANGED <<rows, work>>
  /\ wire' = Tail(wire) /\ posting' = (wire' # <<>>)
  /\ UNCHANGED <<status, archived, fresh, tree, held, top, aborted, shared, spent>>

\* The harness keeps what it could not post and posts it again with its next event, or with
\* a POST already queued behind this one.  No timer does it.
PostLost == posting' \in {posting, FALSE}

\* A POST that nobody answers, or that answers 500.
PostFails ==
  /\ wire # <<>> /\ posting
  /\ Booting \/ status[Head(wire).run] = "destroyed"
  /\ PostLost
  /\ UNCHANGED <<railsVars, work, tree, held, top, aborted, wire, shared, spent>>

Settling(w, types) == work[w].op \in {"ingest", "interrupt"} /\ work[w].at \in types

\* A statement that would give the lane a second active run raises RecordNotUnique, which
\* Ingest takes for a duplicate; one that finds its run destroyed changes nothing; and update!
\* writes nothing when the loaded value is already the new one.
Transition(w, s) ==
  LET r == work[w].run IN
  /\ Done(w)
  /\ IF r \in Known /\ IndexAllows(r, s) /\ work[w].saw # s THEN Sets(r, s) ELSE UNCHANGED status
  /\ UNCHANGED <<archived, fresh, tree, harnessVars, shared, spent>>

\* run_started => running, if it was loaded as queued.
SettleStarted(w) ==
  /\ Settling(w, {"run_started"})
  /\ Transition(w, IF work[w].saw = "queued" THEN "running" ELSE work[w].saw)
  /\ UNCHANGED rows

\* run_failed => failed, whatever the run was.
SettleFailed(w) ==
  /\ Settling(w, {"run_failed"})
  /\ Transition(w, "failed") /\ UNCHANGED rows

\* run_finished and run_interrupted on a clean tree => completed_clean.
SettleClean(w) ==
  /\ Settling(w, {"run_finished", "run_interrupted"}) /\ work[w].seq = 0
  /\ Transition(w, "completed_clean") /\ UNCHANGED rows

\* Faulty variant: the status does not wait for its event.
SettleReviewApart(w) ==
  /\ Settling(w, {"run_finished", "run_interrupted"}) /\ work[w].seq # 0
  /\ Transition(w, "awaiting_review")
  /\ LET ready == Event(work[w].run, work[w].seq, "changeset_ready")
     IN  rows' = IF RowAllowed(ready) /\ work[w].saw = "running" THEN rows \cup {ready} ELSE rows

\* enter_awaiting_review: the status and its changeset_ready commit together, or neither does.
SettleReview(w) ==
  /\ Settling(w, {"run_finished", "run_interrupted"}) /\ work[w].seq # 0
  /\ LET r == work[w].run
         ready == Event(r, work[w].seq, "changeset_ready")
     IN  IF /\ r \in Known /\ work[w].saw # "awaiting_review"
            /\ RowAllowed(ready) /\ IndexAllows(r, "awaiting_review")
         THEN Appends(r, "awaiting_review", ready)
         ELSE UNCHANGED <<status, rows>>
  /\ Done(w)
  /\ UNCHANGED <<archived, fresh, tree, harnessVars, shared, spent>>

\* An event no transition follows from.
SettleNothing(w) ==
  /\ Settling(w, {"recovery_applied"})
  /\ Done(w)
  /\ UNCHANGED <<railsVars, tree, harnessVars, shared, spent>>

-----------------------------------------------------------------------------
(* approve.rb, reject.rb, runs_controller.rb                               *)

Verdict  == [approve |-> "approved", reject |-> "rejected"]
Decision == [approve |-> "changeset_approved", reject |-> "changeset_rejected"]

\* The runs that some reviewer is deciding.
Deciding == {work[w].run : w \in {v \in Workers : work[v].op \in DOMAIN Verdict}}

\* Faulty variant: any run may be decided.
DecideAny(w, op, r) ==
  /\ Spend("decisions") /\ status[r] \in Statuses
  /\ Takes(w, Loaded(Job(op, "git", r)))
  /\ shared' = IF Deciding = {} THEN shared ELSE shared \cup Deciding \cup {r}
  /\ UNCHANGED <<railsVars, tree, harnessVars>>

\* raise NotReviewable unless the loaded run awaits review
Decide(w, op, r) ==
  /\ Spend("decisions") /\ status[r] = "awaiting_review"
  /\ Takes(w, Loaded(Job(op, "git", r)))
  /\ shared' = IF Deciding = {} THEN shared ELSE shared \cup Deciding \cup {r}
  /\ UNCHANGED <<railsVars, tree, harnessVars>>

\* commit! keeps what is uncommitted, reset_hard! drops it; git fails without a tree.
Git(w) ==
  /\ work[w].op \in DOMAIN Verdict /\ work[w].at = "git"
  /\ IF ~tree.there THEN Done(w) /\ UNCHANGED tree
     ELSE /\ tree' = [tree EXCEPT !.dirty = {},
                        !.kept = IF work[w].op = "approve" THEN @ \cup tree.dirty ELSE @]
          /\ Goes(w, [work[w] EXCEPT !.at = "pick"])
  /\ shared' = IF tree.dirty \subseteq {work[w].run} THEN shared ELSE shared \cup tree.dirty
  /\ UNCHANGED <<railsVars, harnessVars, spent>>

PickSeq(w) ==
  /\ work[w].op \in DOMAIN Verdict /\ work[w].at = "pick"
  /\ Goes(w, [work[w] EXCEPT !.at = "record", !.seq = NextSeq(rows, work[w].run)])
  /\ UNCHANGED <<railsVars, tree, harnessVars, shared, spent>>

\* The event and the status, in one transaction; a seq taken meanwhile fails it.
Record(w) ==
  /\ work[w].op \in DOMAIN Verdict /\ work[w].at = "record"
  /\ LET r == work[w].run
         e == Event(r, work[w].seq, Decision[work[w].op])
     IN  IF r \in Known /\ RowAllowed(e)
         THEN Appends(r, Verdict[work[w].op], e)
         ELSE UNCHANGED <<status, rows>>
  /\ Done(w)
  /\ UNCHANGED <<archived, fresh, tree, harnessVars, shared, spent>>

\* POST /runs/:id/interrupt: the harness aborts a run it has registered; for any other it
\* answers 404, and Rails ends the run itself if it was loaded as active.
AskInterrupt(w, r) ==
  /\ Spend("interrupts") /\ status[r] \in Statuses
  /\ Takes(w, Loaded(Job("interrupt", "ask", r)))
  /\ UNCHANGED <<railsVars, tree, harnessVars, shared>>

\* reconcile_interrupted: an event without a seq.
Interrupted(w) ==
  /\ Doing(w, "interrupt", "ask")
  /\ LET r == work[w].run IN
     IF held[r] = "live"
     THEN aborted' = aborted \cup {r} /\ Done(w) /\ UNCHANGED rows
     ELSE /\ UNCHANGED aborted
          /\ IF work[w].saw \in Active /\ r \in Known
             THEN Ingest(w, "interrupt", Event(r, 0, "run_interrupted"))
             ELSE Done(w) /\ UNCHANGED rows
  /\ UNCHANGED <<status, archived, fresh, tree, held, top, wire, posting, shared, spent>>

-----------------------------------------------------------------------------
(* healthcheck_job.rb, reconcile.rb, heartbeats_controller.rb              *)

\* Faulty variants: sweep the runs under review as well; sweep only what runs.
SweepActive(w, r) ==
  /\ status[r] \in Active /\ ~fresh[r]
  /\ work[w] = Idle /\ Goes(w, Loaded(Job("sweep", "fail", r)))
  /\ UNCHANGED <<railsVars, tree, harnessVars, shared, spent>>
SweepRunning(w, r) ==
  /\ status[r] = "running" /\ ~fresh[r]
  /\ work[w] = Idle /\ Goes(w, Loaded(Job("sweep", "fail", r)))
  /\ UNCHANGED <<railsVars, tree, harnessVars, shared, spent>>

\* stale_runs loads the runs, fail_run comes to them one after another.
SweepLook(w, r) ==
  /\ status[r] \in Sweepable /\ ~fresh[r]
  /\ work[w] = Idle /\ Goes(w, Loaded(Job("sweep", "fail", r)))
  /\ UNCHANGED <<railsVars, tree, harnessVars, shared, spent>>

SweepFail(w) ==
  /\ Doing(w, "sweep", "fail")
  /\ LET r == work[w].run IN
     IF r \in Known THEN Appends(r, "failed", Event(r, 0, "run_failed"))
     ELSE UNCHANGED <<status, rows>>
  /\ Done(w)
  /\ UNCHANGED <<archived, fresh, tree, harnessVars, shared, spent>>

\* The harness names the runs it has registered; Rails touches the ones it may sweep.
Heartbeat(r) ==
  /\ held[r] = "live" /\ status[r] \in Sweepable /\ ~fresh[r] /\ ~Booting
  /\ fresh' = [fresh EXCEPT ![r] = TRUE]
  /\ UNCHANGED <<status, rows, archived, work, tree, harnessVars, shared, spent>>

\* 15 seconds pass without news of the run.  With the run in the harness this is an outage.
GoesStale(r) ==
  /\ fresh[r] /\ status[r] \in Sweepable
  /\ fresh' = [fresh EXCEPT ![r] = FALSE]
  /\ IF held[r] \in {"starting", "live"} THEN Spend("timeouts") ELSE UNCHANGED spent
  /\ UNCHANGED <<status, rows, archived, work, tree, harnessVars, shared>>

\* The web server restarts: its threads die, and harness:reconcile asks the harness for its
\* runs.  The job that sweeps runs in another container.
Restart(w) ==
  /\ Spend("restarts") /\ work[w].op # "sweep"
  /\ work' = [v \in Workers |->
       CASE v = w -> [Job("reconcile", "apply", 0) EXCEPT !.ids = {r \in Runs : held[r] = "live"}]
         [] work[v].op = "sweep" -> work[v]
         [] OTHER -> Idle]
  /\ shared' = shared \cup Deciding
  /\ PostLost
  /\ UNCHANGED <<railsVars, tree, held, top, aborted, wire>>

\* The runs the harness has lost fail; of the ones it holds, those to restore are loaded.
Reconcile(w) ==
  /\ Doing(w, "reconcile", "apply")
  /\ LET lost == {r \in Runs : status[r] \in Sweepable} \ work[w].ids IN
     /\ status' = [r \in Runs |-> IF r \in lost THEN "failed" ELSE status[r]]
     /\ rows' = rows \cup {Event(r, 0, "run_failed") : r \in lost}
  /\ Goes(w, [work[w] EXCEPT !.at = "restore", !.ids = {r \in @ : status[r] \in Restorable}])
  /\ UNCHANGED <<archived, fresh, tree, harnessVars, shared, spent>>

\* They are restored in the order of their ids, until one would be the second active run of
\* the lane: that one raises RecordNotUnique, which ends the task.
Restore(w) ==
  /\ Doing(w, "reconcile", "restore")
  /\ \/ /\ \A r \in work[w].ids : (\E q \in work[w].ids : q < r) \/ ~IndexAllows(r, "running")
        /\ Done(w) /\ UNCHANGED <<status, fresh>>
     \/ \E r \in work[w].ids :
          /\ \A q \in work[w].ids : r <= q
          /\ IndexAllows(r, "running")
          /\ Sets(r, "running") /\ fresh' = [fresh EXCEPT ![r] = TRUE]
          /\ Goes(w, [work[w] EXCEPT !.ids = @ \ {r}])
  /\ UNCHANGED <<rows, archived, tree, harnessVars, shared, spent>>

\* A thread dies between two of its statements.
Die(w) ==
  /\ Spend("deaths") /\ work[w] # Idle
  /\ shared' = IF work[w].op \in DOMAIN Verdict THEN shared \cup {work[w].run} ELSE shared
  /\ IF work[w].op = "ingest" THEN PostLost ELSE UNCHANGED posting
  /\ Done(w)
  /\ UNCHANGED <<railsVars, tree, held, top, aborted, wire>>

-----------------------------------------------------------------------------
(* sessions_controller.rb: archive, and the worktree with it if it is clean *)

Archive(w) ==
  /\ Spend("archives") /\ tree.there
  /\ archived' = TRUE
  /\ IF Dirty THEN ~Booting /\ UNCHANGED work ELSE Takes(w, Job("archive", "remove", 0))
  /\ UNCHANGED <<status, rows, fresh, tree, harnessVars, shared>>

\* git worktree remove --force
RemoveTree(w) ==
  /\ Doing(w, "archive", "remove")
  /\ tree' = [tree EXCEPT !.there = FALSE, !.dirty = {}]
  /\ Done(w)
  /\ UNCHANGED <<railsVars, harnessVars, shared, spent>>

-----------------------------------------------------------------------------
(* The harness                                                             *)

Emits(r, type) == /\ top' = [top EXCEPT ![r] = @ + 1]
                  /\ wire' = Append(wire, Event(r, top[r] + 1, type)) /\ posting' = TRUE

\* The end of startRun: registered, and the loop's first event is out.
Register(r) ==
  /\ held[r] = "starting"
  /\ held' = [held EXCEPT ![r] = "live"] /\ Emits(r, "run_started")
  /\ LET others == {q \in Runs \ {r} : held[q] \in {"starting", "live"}} IN
     shared' = IF others = {} THEN shared ELSE shared \cup others \cup {r}
  /\ UNCHANGED <<railsVars, work, tree, aborted, spent>>

\* startRun throws.
StartFails(r) ==
  /\ held[r] = "starting"
  /\ held' = [held EXCEPT ![r] = "no"]
  /\ UNCHANGED <<railsVars, work, tree, top, aborted, wire, posting, shared, spent>>

\* A tool of the run changes a file.
Edit(r) ==
  /\ held[r] = "live" /\ tree.there /\ r \notin tree.dirty
  /\ tree' = [tree EXCEPT !.dirty = @ \cup {r}]
  /\ UNCHANGED <<railsVars, work, harnessVars, shared, spent>>

End(r) ==
  /\ held[r] = "live"
  /\ held' = [held EXCEPT ![r] = "ended"]
  /\ \E type \in IF r \in aborted THEN {"run_interrupted"} ELSE {"run_finished", "run_failed"} :
       Emits(r, type)
  /\ UNCHANGED <<railsVars, work, tree, aborted, shared, spent>>

\* The process dies with its map of runs and its buffer; recovery writes of every run that
\* had not ended, and the transport of the new process ships that.
Crash ==
  /\ Spend("crashes")
  /\ LET live == {r \in Runs : held[r] = "live"} IN
     /\ held' = [r \in Runs |-> CASE r \in live -> "lost"
                                  [] held[r] = "starting" -> "no"
                                  [] OTHER -> held[r]]
     /\ top' = [r \in Runs |-> IF r \in live THEN top[r] + 1 ELSE top[r]]
     /\ \E order \in [1 .. Cardinality(live) -> live] :
          /\ \A i, j \in DOMAIN order : i < j => order[i] < order[j]
          /\ wire' = [i \in DOMAIN order |-> Event(order[i], top'[order[i]], "recovery_applied")]
     /\ posting' = (live # {})
  /\ UNCHANGED <<railsVars, work, tree, aborted, shared>>

-----------------------------------------------------------------------------

Request(w) ==
  \/ \E mode \in {"fresh", "revise"} : StartLook(w, mode)
  \/ \E r \in Runs : Decide(w, "approve", r) \/ Decide(w, "reject", r) \/ AskInterrupt(w, r)
  \/ Archive(w)

\* The next statement of a thread.
Step(w) ==
  \/ Supersede(w) \/ Create(w) \/ Post(w) \/ Answered(w)
  \/ SettleStarted(w) \/ SettleFailed(w) \/ SettleClean(w) \/ SettleReview(w) \/ SettleNothing(w)
  \/ Git(w) \/ PickSeq(w) \/ Record(w)
  \/ Interrupted(w) \/ SweepFail(w) \/ Reconcile(w) \/ Restore(w) \/ RemoveTree(w)

Sweep(r) == \E w \in Workers : SweepLook(w, r)

Harness(r) == Register(r) \/ StartFails(r) \/ Edit(r) \/ End(r) \/ Heartbeat(r)

Next ==
  \/ \E w \in Workers : Request(w) \/ Step(w) \/ Deliver(w) \/ Restart(w) \/ Die(w)
  \/ \E r \in Runs : Sweep(r) \/ Harness(r) \/ GoesStale(r)
  \/ PostFails \/ Crash

\* A thread that has begun goes on, the job runs every five seconds, time passes, a start that
\* the harness works on ends one way or the other, and a POST that is in the air or queued gets
\* its answer.  Nothing says that a run ends, or that a POST that failed is made again.
Fairness ==
  /\ \A w \in Workers : WF_vars(Step(w))
  /\ \A r \in Runs : /\ WF_vars(Sweep(r)) /\ WF_vars(Register(r) \/ StartFails(r))
                     /\ WF_vars(GoesStale(r) /\ held[r] \notin {"starting", "live"})
  /\ WF_vars(\E w \in Workers : Deliver(w))

Safety == Init /\ [][Next]_vars
Spec   == Safety /\ Fairness

-----------------------------------------------------------------------------
(* Properties.                                                             *)

Told(r, types) == \E row \in rows : row.run = r /\ row.type \in types

\* Whatever thread dies and whoever races, the feed alone explains the status: a review, a
\* decision or a failure is in the event stream (append.rb:4, "no mutation commits without
\* its event").
StatusIsAnnounced ==
  \A r \in Runs :
    /\ status[r] = "awaiting_review" => Told(r, {"changeset_ready"})
    /\ status[r] = "approved" => Told(r, {"changeset_approved"})
    /\ status[r] = "rejected" => Told(r, {"changeset_rejected"})
    /\ status[r] = "failed" => Told(r, {"run_failed"})
    /\ status[r] = "completed_clean" => Told(r, {"run_finished", "run_interrupted"})

\* Rails ended the run on its own word: the event has no seq.
Guessed(r) == \E row \in rows : row.run = r /\ row.seq = 0

\* The branch never holds a change that its reviewer rejected: whatever is delivered late,
\* swept or lost, as long as the run had the tree, and its reviewer the run, for itself.
RejectedNeverKept ==
  \A r \in Runs : status[r] = "rejected" /\ r \in tree.kept => r \in shared \/ Guessed(r)

\* Some thread still works with what it loaded before the run got its status.
StaleCopy(r) == \E w \in Workers : work[w].run = r /\ work[w].saw \notin {"none", status[r]}

\* A pending review and a decision stand: nothing but a stale copy, or an end that Rails
\* guessed, takes them away (healthcheck_job.rb:10, reconcile.rb:22).
ReviewIsRespected ==
  [][\A r \in Runs : status[r] \in Decided \cup {"awaiting_review"} /\ status'[r] # status[r] =>
       \/ status[r] = "awaiting_review" /\ status'[r] \in Decided \cup {"superseded"}
       \/ StaleCopy(r) \/ Guessed(r)]_vars

Stuck(r) == status[r] \in Sweepable /\ held[r] \notin {"starting", "live"}

\* A run that the harness does not hold leaves its lane, whatever was lost on the way
\* (healthcheck_job.rb:4, "cannot leave a session permanently blocked").
LostRunIsFreed == \A r \in Runs : Stuck(r) ~> ~Stuck(r)

OnTheWire(r) == status[r] \in Statuses /\ \E i \in DOMAIN wire : wire[i].run = r

\* What the harness reports of a run is recorded, unless the POST failed, as Rails restarted
\* or a thread of it died, and no event has come after it; or unless Rails has destroyed a run
\* that the harness took: its events answer 500 and hold up all that come after them.
EventsAreTaken ==
  \A r \in Runs :
    OnTheWire(r) ~> (~OnTheWire(r) \/ ~posting \/ \E q \in Runs : status[q] = "destroyed")

\* A lost run frees its lane, and a report whose POST did not fail is taken.
NothingIsStuck == LostRunIsFreed /\ EventsAreTaken
=============================================================================
