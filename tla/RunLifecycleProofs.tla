-------------------------- MODULE RunLifecycleProofs --------------------------
(***************************************************************************)
(* What Rails promises of a run, for any number of threads, of runs, and   *)
(* of everything that may go wrong.                                        *)
(*                                                                         *)
(* A run that nobody disturbed - Rails never ended it on its own word, and *)
(* it never shared its tree or its reviewer - is reviewed only after the   *)
(* harness has said its last word (Owed), is decided by one thread at a    *)
(* time (Deciders), and is settled only before it is reviewed (Ingests).   *)
(***************************************************************************)
EXTENDS RunLifecycle, WellFoundedInduction, SequenceTheorems, FiniteSetTheorems, TLAPS

Ends    == {"run_finished", "run_failed", "run_interrupted"}
Reports == Ends \cup {"run_started", "recovery_applied"}
Types   == Reports \cup {"changeset_ready", "changeset_approved", "changeset_rejected"}

Wired == [run : Runs, seq : Nat, type : Reports]

Jobs ==
  [op : {"idle", "start", "ingest", "interrupt", "approve", "reject", "sweep", "reconcile", "archive"},
   at : Reports \cup {"idle", "supersede", "create", "post", "wait", "ask", "git", "pick", "record",
                      "fail", "apply", "restore", "remove"},
   run : Runs \cup {0}, saw : Statuses \cup {"none", "unborn", "destroyed"}, seq : Nat,
   ids : SUBSET Runs]

\* Which jobs there are, and what they have loaded.
Proper(job) ==
  /\ job.op = "start" => job.at \in {"supersede", "create", "post", "wait"}
  /\ job.op = "start" /\ job.at = "supersede" => job.run \in Runs /\ job.saw \in Active
  /\ job.op = "start" /\ job.at \in {"post", "wait"} => job.run \in Runs
  /\ job.op = "ingest" => job.run \in Runs /\ job.at \in Reports
  /\ job.op = "interrupt" => job.run \in Runs /\ job.at \in {"ask", "run_interrupted"}
  /\ job.op \in DOMAIN Verdict =>
       job.run \in Runs /\ job.saw = "awaiting_review" /\ job.at \in {"git", "pick", "record"}
  /\ job.op = "sweep" => job.run \in Runs /\ job.saw \in Sweepable

TypeOK ==
  /\ status \in [Runs -> Statuses \cup {"unborn", "destroyed"}]
  /\ rows \subseteq [run : Runs, seq : Nat, type : Types]
  /\ archived \in BOOLEAN /\ fresh \in [Runs -> BOOLEAN]
  /\ work \in [Workers -> Jobs] /\ \A w \in Workers : Proper(work[w])
  /\ tree \in [there : BOOLEAN, dirty : SUBSET Runs, kept : SUBSET Runs]
  /\ held \in [Runs -> {"no", "starting", "live", "ended", "lost"}]
  /\ top \in [Runs -> Nat] /\ aborted \subseteq Runs
  /\ wire \in Seq(Wired) /\ posting \in BOOLEAN
  /\ shared \subseteq Runs
  /\ spent \in [DOMAIN Limit -> Nat]

-----------------------------------------------------------------------------
(* The inductive invariant.                                                *)

Under(r) == status[r] \in Decided \cup {"awaiting_review"}

\* Rails ended the run on its own word, or has forgotten it.
Off(r) == Guessed(r) \/ status[r] = "destroyed"

Loose(r) == Off(r) \/ r \in shared

\* The harness has reported the end of the run, and nothing of it is on its way.
Over(r) == held[r] = "ended" /\ \A i \in DOMAIN wire : wire[i].run # r

Decides(w, r)  == work[w].op \in DOMAIN Verdict /\ work[w].run = r
Approves(w, r) == work[w].op = "approve" /\ work[w].at \in {"pick", "record"} /\ work[w].run = r

\* The end of a run is the last that is on the wire of it.
Wire ==
  \A i \in DOMAIN wire : wire[i].type \in Ends =>
    /\ held[wire[i].run] = "ended"
    /\ \A j \in DOMAIN wire : i < j => wire[j].run # wire[i].run

\* A run is posted once.
Posting(w) == work[w].op = "start" /\ work[w].at = "post"
Posts ==
  /\ \A r \in Runs : status[r] = "unborn" => held[r] = "no"
  /\ \A w \in Workers : Posting(w) =>
       /\ status[work[w].run] # "unborn" /\ held[work[w].run] = "no"
       /\ \A v \in Workers : Posting(v) /\ work[v].run = work[w].run => v = w

\* A review waits for the last word of the harness.
Owed == \A r \in Runs : Under(r) => Off(r) \/ Over(r)

\* Events are ingested one at a time, each before its run is reviewed.
Ingests ==
  /\ \A v, w \in Workers : work[v].op = "ingest" /\ work[w].op = "ingest" => v = w
  /\ \A w \in Workers : work[w].op = "ingest" =>
       LET r == work[w].run IN
       /\ work[w].at \in Ends => Over(r)
       /\ Off(r) \/ (~Under(r) /\ \A v \in Workers : ~Decides(v, r))
  /\ \A w \in Workers : work[w].op = "interrupt" /\ work[w].at # "ask" => Off(work[w].run)

\* A decision has its run for itself, and its event a seq that nobody took.
Deciders ==
  \A w \in Workers : work[w].op \in DOMAIN Verdict =>
    LET r == work[w].run IN
    /\ Off(r) \/ Over(r)
    /\ \/ Loose(r)
       \/ /\ status[r] = "awaiting_review"
          /\ \A v \in Workers : Decides(v, r) => v = w
          /\ work[w].at = "record" =>
               work[w].seq # 0 /\ \A row \in rows : row.run = r => row.seq # work[w].seq

\* What is on the branch is approved, or about to be.
Kept ==
  \A r \in tree.kept :
    Loose(r) \/ status[r] = "approved" \/ \E w \in Workers : Approves(w, r)

\* What a thread settles is in the event stream.
Heard ==
  \A w \in Workers : work[w].op \in {"ingest", "interrupt"} /\ work[w].at # "ask" =>
    Told(work[w].run, {work[w].at}) \/ status[work[w].run] = "destroyed"

\* Before the web server is up, only the sweep works next to the reconciliation; the runs to
\* restore can still be restored.
Boots ==
  \A w \in Workers : work[w].op = "reconcile" =>
    /\ \A v \in Workers : v # w => work[v].op \in {"idle", "sweep"}
    /\ work[w].at = "restore" => \A r \in work[w].ids : status[r] \in Restorable

\* The seqs have an upper bound, so that there is a next one.
Numbered == \E n \in Nat : \A row \in rows : row.seq <= n

Inv == TypeOK /\ Wire /\ Posts /\ Owed /\ Ingests /\ Deciders /\ Kept /\ Heard /\ StatusIsAnnounced
       /\ Boots /\ Numbered

-----------------------------------------------------------------------------
(* Jobs.                                                                   *)

LEMMA VerdictIs ==
  /\ DOMAIN Verdict = {"approve", "reject"}
  /\ Verdict["approve"] = "approved" /\ Verdict["reject"] = "rejected"
  /\ Decision["approve"] = "changeset_approved" /\ Decision["reject"] = "changeset_rejected"
BY DEF Verdict, Decision

LEMMA StatusesAre ==
  /\ Sweepable \subseteq Active /\ Active \subseteq Statuses
  /\ Restorable \subseteq Statuses /\ Decided \subseteq Statuses
  /\ "none" \notin Statuses /\ "unborn" \notin Statuses /\ "destroyed" \notin Statuses
BY DEF Sweepable, Active, Restorable, Decided, Statuses

LEMMA NoRun == 0 \notin Runs
BY DEF Runs

LEMMA JobType ==
  ASSUME NEW op, NEW at, NEW r, Job(op, at, r) \in Jobs, NEW s \in Statuses
  PROVE  [Job(op, at, r) EXCEPT !.saw = s] \in Jobs
BY DEF Jobs, Job

\* The jobs that the code makes.
LEMMA JobsAre ==
  /\ Idle \in Jobs /\ Proper(Idle)
  /\ \A at \in {"create", "supersede", "post", "wait"} : \A r \in Runs \cup {0} :
       Job("start", at, r) \in Jobs
  /\ \A r \in Runs : /\ Job("ingest", "run_started", r) \in Jobs
                     /\ \A op \in DOMAIN Verdict : Job(op, "git", r) \in Jobs
                     /\ Job("interrupt", "ask", r) \in Jobs /\ Job("sweep", "fail", r) \in Jobs
                     /\ \A op \in {"ingest", "interrupt"}, at \in Reports : Job(op, at, r) \in Jobs
  /\ Job("archive", "remove", 0) \in Jobs /\ Job("reconcile", "apply", 0) \in Jobs
BY VerdictIs DEF Jobs, Job, Idle, Proper, Reports, Ends

\* A thread's next job.
LEMMA NextJob ==
  ASSUME TypeOK, NEW w \in Workers, NEW job \in Jobs, Proper(job), Goes(w, job)
  PROVE  work' \in [Workers -> Jobs] /\ \A v \in Workers : Proper(work'[v])
BY DEF TypeOK, Goes

LEMMA Spending ==
  ASSUME TypeOK
  PROVE  /\ DOMAIN Limit = {"starts", "decisions", "interrupts", "archives", "crashes", "timeouts",
                            "deaths", "restarts"}
         /\ spent \in [DOMAIN Limit -> Nat]
         /\ \A what \in DOMAIN Limit : Spend(what) => spent' \in [DOMAIN Limit -> Nat]
<1>1. spent \in [DOMAIN Limit -> Nat]  BY DEF TypeOK
<1>2. ASSUME NEW what \in DOMAIN Limit, Spend(what) PROVE spent' \in [DOMAIN Limit -> Nat]
  BY <1>1, <1>2 DEF Spend
<1>3. DOMAIN Limit = {"starts", "decisions", "interrupts", "archives", "crashes", "timeouts",
                      "deaths", "restarts"}
  BY DEF Limit
<1> QED  BY <1>1, <1>2, <1>3

Frame == UNCHANGED <<status, rows, held, top, wire, posting>>

-----------------------------------------------------------------------------
(* Steps.                                                                  *)

Began(w, op, at) == work'[w].op = op /\ work'[w].at = at

\* A request or a sweep is taken by an idle thread, or turned down.
LEMMA Requests ==
  ASSUME TypeOK, NEW w \in Workers, Request(w) \/ \E r \in Runs : SweepLook(w, r)
  PROVE  /\ Frame /\ aborted' = aborted
         /\ archived' \in BOOLEAN /\ fresh' = fresh
         /\ tree' \in [there : BOOLEAN, dirty : SUBSET Runs, kept : SUBSET Runs]
         /\ tree'.kept = tree.kept /\ tree'.dirty = tree.dirty
         /\ shared \subseteq shared' /\ shared' \subseteq Runs
         /\ spent' \in [DOMAIN Limit -> Nat]
         /\ \/ work' = work
            \/ \E job \in Jobs :
                 /\ Proper(job) /\ Goes(w, job) /\ work[w] = Idle
                 /\ \/ job.op = "start" /\ job.at \in {"create", "supersede"}
                    \/ job.op = "interrupt" /\ job.at = "ask"
                    \/ job.op \in {"sweep", "archive"}
                    \/ /\ job.op \in DOMAIN Verdict /\ job.at = "git"
                       /\ status[job.run] = "awaiting_review"
                       /\ Deciding # {} => Deciding \cup {job.run} \subseteq shared'
<1> USE DEF Frame, railsVars, harnessVars
<1>0. /\ status \in [Runs -> Statuses \cup {"unborn", "destroyed"}] /\ shared \subseteq Runs
      /\ tree \in [there : BOOLEAN, dirty : SUBSET Runs, kept : SUBSET Runs]
      /\ spent \in [DOMAIN Limit -> Nat] /\ archived \in BOOLEAN
  BY DEF TypeOK
<1>1. \A what \in DOMAIN Limit : Spend(what) => spent' \in [DOMAIN Limit -> Nat]  BY Spending
<1>2. {"starts", "decisions", "interrupts", "archives"} \subseteq DOMAIN Limit  BY Spending
<1>3. ASSUME NEW mode, StartLook(w, mode) PROVE
         /\ Frame /\ aborted' = aborted /\ archived' = archived /\ fresh' = fresh
         /\ tree' = [tree EXCEPT !.there = TRUE] /\ shared' = shared
         /\ spent' \in [DOMAIN Limit -> Nat]
         /\ \/ work' = work
            \/ \E job \in Jobs :
                 /\ Proper(job) /\ Goes(w, job) /\ work[w] = Idle
                 /\ job.op = "start" /\ job.at \in {"create", "supersede"}
  <2>1. \/ work' = work
        \/ Takes(w, Job("start", "create", 0))
        \/ \E prior \in ActiveRuns : Takes(w, Loaded(Job("start", "supersede", prior)))
    BY <1>3 DEF StartLook
  <2>2. Job("start", "create", 0) \in Jobs /\ Proper(Job("start", "create", 0))
    BY JobsAre, VerdictIs DEF Proper, Job
  <2>3. ASSUME NEW prior \in ActiveRuns
        PROVE  /\ Loaded(Job("start", "supersede", prior)) \in Jobs
               /\ Proper(Loaded(Job("start", "supersede", prior)))
               /\ Loaded(Job("start", "supersede", prior)).op = "start"
               /\ Loaded(Job("start", "supersede", prior)).at = "supersede"
    <3>1. prior \in Runs /\ status[prior] \in Active  BY DEF ActiveRuns
    <3>2. Job("start", "supersede", prior) \in Jobs  BY <3>1, JobsAre
    <3> QED  BY <3>1, <3>2, StatusesAre, VerdictIs DEF Loaded, Job, Proper, Jobs
  <2>4. Job("start", "create", 0).op = "start" /\ Job("start", "create", 0).at = "create"
    BY DEF Job
  <2>5. \/ work' = work
        \/ \E job \in Jobs :
             /\ Proper(job) /\ Goes(w, job) /\ work[w] = Idle
             /\ job.op = "start" /\ job.at \in {"create", "supersede"}
    BY <2>1, <2>2, <2>3, <2>4 DEF Takes, Goes
  <2> QED  BY <1>1, <1>2, <1>3, <2>5 DEF StartLook
<1>4. ASSUME NEW r \in Runs, NEW op \in DOMAIN Verdict, Decide(w, op, r) PROVE
         /\ Frame /\ aborted' = aborted /\ archived' = archived /\ fresh' = fresh
         /\ tree' = tree /\ shared \subseteq shared' /\ shared' \subseteq Runs
         /\ spent' \in [DOMAIN Limit -> Nat]
         /\ \E job \in Jobs :
              /\ Proper(job) /\ Goes(w, job) /\ work[w] = Idle
              /\ job.op \in DOMAIN Verdict /\ job.at = "git"
              /\ status[job.run] = "awaiting_review"
              /\ Deciding # {} => Deciding \cup {job.run} \subseteq shared'
  <2> DEFINE job == Loaded(Job(op, "git", r))
  <2>1. status[r] = "awaiting_review" /\ Takes(w, job)  BY <1>4 DEF Decide
  <2>2. Job(op, "git", r) \in Jobs  BY JobsAre
  <2>3. job \in Jobs /\ job.op = op /\ job.at = "git" /\ job.run = r /\ job.saw = "awaiting_review"
    BY <2>1, <2>2, StatusesAre DEF Loaded, Job, Jobs, Active
  <2>4. Proper(job)  BY <2>3, VerdictIs DEF Proper
  <2>5. Deciding \subseteq Runs
    BY DEF Deciding, TypeOK, Proper
  <2>6. shared \subseteq shared' /\ shared' \subseteq Runs
        /\ (Deciding # {} => Deciding \cup {r} \subseteq shared')
    BY <1>0, <1>4, <2>5 DEF Decide
  <2> HIDE DEF job
  <2> QED  BY <1>1, <1>2, <1>4, <2>1, <2>3, <2>4, <2>6 DEF Decide, Takes, Goes
<1>5. ASSUME NEW r \in Runs, AskInterrupt(w, r) \/ SweepLook(w, r) PROVE
         /\ Frame /\ aborted' = aborted /\ archived' = archived /\ fresh' = fresh
         /\ tree' = tree /\ shared' = shared
         /\ spent' \in [DOMAIN Limit -> Nat]
         /\ \E job \in Jobs :
              /\ Proper(job) /\ Goes(w, job) /\ work[w] = Idle
              /\ \/ job.op = "interrupt" /\ job.at = "ask"
                 \/ job.op = "sweep"
  <2>1. CASE AskInterrupt(w, r)
    <3> DEFINE job == Loaded(Job("interrupt", "ask", r))
    <3>1. Job("interrupt", "ask", r) \in Jobs /\ status[r] \in Statuses /\ Takes(w, job)
      BY <2>1, JobsAre DEF AskInterrupt
    <3>2. job \in Jobs /\ job.op = "interrupt" /\ job.at = "ask" /\ job.run = r
      BY <3>1 DEF Loaded, Job, Jobs
    <3>3. Proper(job)  BY <3>2, VerdictIs DEF Proper
    <3> HIDE DEF job
    <3> QED  BY <1>1, <1>2, <2>1, <3>1, <3>2, <3>3 DEF AskInterrupt, Takes, Goes
  <2>2. CASE SweepLook(w, r)
    <3> DEFINE job == Loaded(Job("sweep", "fail", r))
    <3>1. Job("sweep", "fail", r) \in Jobs /\ status[r] \in Sweepable /\ work[w] = Idle /\ Goes(w, job)
      BY <2>2, JobsAre DEF SweepLook
    <3>2. job \in Jobs /\ job.op = "sweep" /\ job.run = r /\ job.saw \in Sweepable
      BY <3>1, StatusesAre DEF Loaded, Job, Jobs
    <3>3. Proper(job)  BY <3>2, VerdictIs DEF Proper
    <3> HIDE DEF job
    <3> QED  BY <1>0, <2>2, <3>1, <3>2, <3>3 DEF SweepLook, Takes, Goes
  <2> QED  BY <1>5, <2>1, <2>2
<1>6. ASSUME Archive(w) PROVE
         /\ Frame /\ aborted' = aborted /\ archived' = TRUE /\ fresh' = fresh
         /\ tree' = tree /\ shared' = shared
         /\ spent' \in [DOMAIN Limit -> Nat]
         /\ \/ work' = work
            \/ \E job \in Jobs : Proper(job) /\ Goes(w, job) /\ work[w] = Idle /\ job.op = "archive"
  <2>1. Job("archive", "remove", 0) \in Jobs /\ Job("archive", "remove", 0).op = "archive"
    BY JobsAre DEF Job
  <2>2. Proper(Job("archive", "remove", 0))  BY <2>1, VerdictIs DEF Proper
  <2> QED  BY <1>1, <1>2, <1>6, <2>1, <2>2 DEF Archive, Takes, Goes
<1>7. CASE \E mode \in {"fresh", "revise"} : StartLook(w, mode)
  <2>1. /\ Frame /\ aborted' = aborted /\ archived' = archived /\ fresh' = fresh
        /\ tree' = [tree EXCEPT !.there = TRUE] /\ shared' = shared
        /\ spent' \in [DOMAIN Limit -> Nat]
        /\ \/ work' = work
           \/ \E job \in Jobs :
                /\ Proper(job) /\ Goes(w, job) /\ work[w] = Idle
                /\ job.op = "start" /\ job.at \in {"create", "supersede"}
    BY <1>3, <1>7
  <2>2. /\ tree' \in [there : BOOLEAN, dirty : SUBSET Runs, kept : SUBSET Runs]
        /\ tree'.kept = tree.kept /\ tree'.dirty = tree.dirty
    BY <1>0, <2>1
  <2> QED  BY <1>0, <2>1, <2>2
<1>8. CASE \E r \in Runs : Decide(w, "approve", r) \/ Decide(w, "reject", r)
  <2>1. \E r \in Runs, op \in DOMAIN Verdict : Decide(w, op, r)  BY <1>8, VerdictIs
  <2> QED  BY <1>0, <1>4, <2>1
<1>9. CASE \E r \in Runs : AskInterrupt(w, r) \/ SweepLook(w, r)
  BY <1>0, <1>5, <1>9
<1>10. CASE Archive(w)  BY <1>0, <1>6, <1>10
<1> QED  BY <1>7, <1>8, <1>9, <1>10 DEF Request

\* What follows from an event, for its run, and the thread is done.
LEMMA Settles ==
  ASSUME TypeOK, NEW w \in Workers,
         SettleStarted(w) \/ SettleFailed(w) \/ SettleClean(w) \/ SettleReview(w) \/ SettleNothing(w)
  PROVE  LET r == work[w].run IN
         /\ Done(w) /\ work[w].op \in {"ingest", "interrupt"} /\ work[w].at \in Reports /\ r \in Runs
         /\ UNCHANGED <<archived, fresh, tree, harnessVars, shared, spent>>
         /\ \/ UNCHANGED <<status, rows>>
            \/ /\ r \in Known /\ rows' = rows
               /\ \/ Sets(r, "running") /\ work[w].saw = "queued"
                  \/ Sets(r, "failed") /\ work[w].at = "run_failed" /\ work[w].saw # "failed"
                  \/ /\ Sets(r, "completed_clean") /\ work[w].saw # "completed_clean"
                     /\ work[w].at \in {"run_finished", "run_interrupted"}
            \/ /\ r \in Known /\ work[w].at \in {"run_finished", "run_interrupted"}
               /\ work[w].seq # 0 /\ work[w].saw # "awaiting_review"
               /\ Appends(r, "awaiting_review", Event(r, work[w].seq, "changeset_ready"))
<1>1. work[w].op \in {"ingest", "interrupt"} /\ work[w].at \in Reports
  BY DEF SettleStarted, SettleFailed, SettleClean, SettleReview, SettleNothing, Settling, Reports, Ends
<1>2. work[w].run \in Runs  BY <1>1 DEF TypeOK, Proper
<1>3. CASE SettleStarted(w)
  <2>1. /\ work[w].at = "run_started" /\ rows' = rows
        /\ Transition(w, IF work[w].saw = "queued" THEN "running" ELSE work[w].saw)
    BY <1>3 DEF SettleStarted, Settling
  <2> QED  BY <1>1, <1>2, <2>1 DEF Transition
<1>4. CASE SettleFailed(w)
  <2>1. work[w].at = "run_failed" /\ rows' = rows /\ Transition(w, "failed")
    BY <1>4 DEF SettleFailed, Settling
  <2> QED  BY <1>1, <1>2, <2>1 DEF Transition
<1>5. CASE SettleClean(w)
  <2>1. /\ work[w].at \in {"run_finished", "run_interrupted"} /\ rows' = rows
        /\ Transition(w, "completed_clean")
    BY <1>5 DEF SettleClean, Settling
  <2> QED  BY <1>1, <1>2, <2>1 DEF Transition
<1>6. CASE SettleReview(w)  BY <1>1, <1>2, <1>6 DEF SettleReview, Settling
<1>7. CASE SettleNothing(w)  BY <1>1, <1>2, <1>7 DEF SettleNothing, railsVars
<1> QED  BY <1>3, <1>4, <1>5, <1>6, <1>7

\* Rails forgets a run that it asked the harness for.
LEMMA Destroys ==
  ASSUME TypeOK, NEW w \in Workers, Post(w) \/ Answered(w)
  PROVE  LET r == work[w].run IN
         /\ work[w].op = "start" /\ work[w].at \in {"post", "wait"} /\ r \in Runs
         /\ UNCHANGED <<archived, fresh, tree, top, aborted, wire, posting, shared>>
         /\ spent' \in [DOMAIN Limit -> Nat]
         /\ \/ Destroy(r) /\ Done(w) /\ held' = held /\ work[w].at = "post"
            \/ Destroy(r) /\ Done(w) /\ held' = held /\ work[w].at = "wait" /\ held[r] # "ended"
            \/ UNCHANGED <<status, rows, held>> /\ Done(w)
            \/ /\ UNCHANGED <<status, rows>> /\ held' = [held EXCEPT ![r] = "starting"]
               /\ Goes(w, Job("start", "wait", r)) /\ work[w].at = "post"
<1>1. /\ spent \in [DOMAIN Limit -> Nat] /\ "timeouts" \in DOMAIN Limit
      /\ Spend("timeouts") => spent' \in [DOMAIN Limit -> Nat]
  BY Spending
<1>2. CASE Post(w)
  <2>1. work[w].op = "start" /\ work[w].at = "post" /\ work[w].run \in Runs
    BY <1>2 DEF Post, Doing, TypeOK, Proper
  <2> QED  BY <1>1, <1>2, <2>1 DEF Post
<1>3. CASE Answered(w)
  <2>1. work[w].op = "start" /\ work[w].at = "wait" /\ work[w].run \in Runs
    BY <1>3 DEF Answered, Doing, TypeOK, Proper
  <2>2. UNCHANGED <<archived, fresh, tree, harnessVars, shared>> /\ Done(w)
    BY <1>3 DEF Answered
  <2>3. \/ UNCHANGED <<status, rows, spent>>
        \/ Destroy(work[w].run) /\ spent' = spent /\ held[work[w].run] # "ended"
        \/ Destroy(work[w].run) /\ Spend("timeouts") /\ held[work[w].run] # "ended"
    BY <1>3 DEF Answered
  <2> QED  BY <1>1, <2>1, <2>2, <2>3 DEF harnessVars
<1> QED  BY <1>2, <1>3

\* A revise gives up the run under review.
LEMMA SupersedeIs ==
  ASSUME TypeOK, NEW w \in Workers, Supersede(w)
  PROVE  LET r == work[w].run IN
         /\ work[w].op = "start" /\ r \in Runs /\ work[w].saw \in Active
         /\ Goes(w, Job("start", "create", 0))
         /\ \/ status' = status
            \/ r \in Known /\ Sets(r, "superseded")
         /\ r \in shared' /\ shared \subseteq shared' /\ shared' \subseteq Runs
         /\ UNCHANGED <<rows, archived, fresh, tree, harnessVars, spent>>
BY DEF Supersede, Doing, TypeOK, Proper

LEMMA CreateIs ==
  ASSUME TypeOK, NEW w \in Workers, Create(w)
  PROVE  /\ UNCHANGED <<rows, archived, tree, harnessVars, shared, spent>>
         /\ work[w].op = "start" /\ work[w].at = "create"
         /\ \/ Done(w) /\ UNCHANGED <<status, fresh>>
            \/ \E r \in Runs : /\ status[r] = "unborn" /\ Sets(r, "queued")
                               /\ fresh' = [fresh EXCEPT ![r] = TRUE]
                               /\ Goes(w, Job("start", "post", r))
BY DEF Create, Doing

\* What a thread does for a decision, before it records it.
LEMMA GitIs ==
  ASSUME TypeOK, NEW w \in Workers, Git(w)
  PROVE  /\ work[w].op \in DOMAIN Verdict /\ work[w].at = "git" /\ work[w].run \in Runs
         /\ UNCHANGED <<railsVars, harnessVars, spent>>
         /\ tree' \in [there : BOOLEAN, dirty : SUBSET Runs, kept : SUBSET Runs]
         /\ shared \subseteq shared' /\ shared' \subseteq Runs
         /\ \/ Done(w) /\ tree' = tree
            \/ /\ Goes(w, [work[w] EXCEPT !.at = "pick"])
               /\ tree.dirty \subseteq shared' \cup {work[w].run}
               /\ tree'.kept = IF work[w].op = "approve" THEN tree.kept \cup tree.dirty ELSE tree.kept
<1>1. /\ tree \in [there : BOOLEAN, dirty : SUBSET Runs, kept : SUBSET Runs] /\ shared \subseteq Runs
  BY DEF TypeOK
<1>2. work[w].op \in DOMAIN Verdict /\ work[w].at = "git" /\ work[w].run \in Runs
  BY DEF Git, TypeOK, Proper
<1>3. UNCHANGED <<railsVars, harnessVars, spent>>  BY DEF Git
<1>4. /\ shared \subseteq shared' /\ shared' \subseteq Runs
      /\ tree.dirty \subseteq shared' \cup {work[w].run}
  BY <1>1 DEF Git
<1>5. CASE ~tree.there  BY <1>1, <1>2, <1>3, <1>4, <1>5 DEF Git
<1>6. CASE tree.there
  <2>1. /\ tree' = [tree EXCEPT !.dirty = {},
                       !.kept = IF work[w].op = "approve" THEN @ \cup tree.dirty ELSE @]
        /\ Goes(w, [work[w] EXCEPT !.at = "pick"])
    BY <1>6 DEF Git
  <2>2. /\ tree' \in [there : BOOLEAN, dirty : SUBSET Runs, kept : SUBSET Runs]
        /\ tree'.kept = IF work[w].op = "approve" THEN tree.kept \cup tree.dirty ELSE tree.kept
    BY <1>1, <2>1
  <2> QED  BY <1>2, <1>3, <1>4, <2>1, <2>2
<1> QED  BY <1>5, <1>6

\* ... and the record of it.
LEMMA RecordIs ==
  ASSUME TypeOK, NEW w \in Workers, Record(w)
  PROVE  LET r == work[w].run IN
         /\ work[w].op \in DOMAIN Verdict /\ work[w].at = "record" /\ r \in Runs
         /\ work[w].saw = "awaiting_review"
         /\ UNCHANGED <<archived, fresh, tree, harnessVars, shared, spent>> /\ Done(w)
         /\ LET e == Event(r, work[w].seq, Decision[work[w].op]) IN
            /\ r \in Known /\ RowAllowed(e) => Appends(r, Verdict[work[w].op], e)
            /\ ~(r \in Known /\ RowAllowed(e)) => UNCHANGED <<status, rows>>
BY DEF Record, TypeOK, Proper

LEMMA InterruptedIs ==
  ASSUME TypeOK, NEW w \in Workers, Interrupted(w)
  PROVE  LET r == work[w].run IN
         /\ work[w].op = "interrupt" /\ r \in Runs
         /\ UNCHANGED <<status, archived, fresh, tree, held, top, wire, posting, shared, spent>>
         /\ aborted' \subseteq Runs
         /\ \/ Done(w) /\ rows' = rows
            \/ Ingest(w, "interrupt", Event(r, 0, "run_interrupted")) /\ r \in Known
<1>1. work[w].op = "interrupt" /\ work[w].run \in Runs /\ aborted \subseteq Runs
  BY DEF Interrupted, Doing, TypeOK, Proper
<1> QED  BY <1>1 DEF Interrupted

LEMMA SweepFailIs ==
  ASSUME TypeOK, NEW w \in Workers, SweepFail(w)
  PROVE  LET r == work[w].run IN
         /\ work[w].op = "sweep" /\ r \in Runs /\ work[w].saw \in Sweepable
         /\ UNCHANGED <<archived, fresh, tree, harnessVars, shared, spent>> /\ Done(w)
         /\ \/ UNCHANGED <<status, rows>>
            \/ r \in Known /\ Appends(r, "failed", Event(r, 0, "run_failed"))
BY DEF SweepFail, Doing, TypeOK, Proper

\* The runs that the harness has lost fail, and the ones to restore are loaded.
LEMMA ReconcileIs ==
  ASSUME TypeOK, NEW w \in Workers, Reconcile(w)
  PROVE  /\ work[w].op = "reconcile"
         /\ UNCHANGED <<archived, fresh, tree, harnessVars, shared, spent>>
         /\ \E job \in Jobs : /\ Proper(job) /\ Goes(w, job)
                              /\ job.op = "reconcile" /\ job.at = "restore"
                              /\ \A r \in job.ids : status'[r] \in Restorable
         /\ status' \in [Runs -> Statuses \cup {"unborn", "destroyed"}]
         /\ rows \subseteq rows'
         /\ \A row \in rows' \ rows : \E r \in Runs : row = Event(r, 0, "run_failed")
         /\ \A r \in Runs : status'[r] # status[r] =>
              status[r] \in Sweepable /\ status'[r] = "failed" /\ Event(r, 0, "run_failed") \in rows'
<1> DEFINE lost == {r \in Runs : status[r] \in Sweepable} \ work[w].ids
           job == [work[w] EXCEPT !.at = "restore", !.ids = {r \in @ : status[r] \in Restorable}]
<1>1. /\ work[w].op = "reconcile" /\ UNCHANGED <<archived, fresh, tree, harnessVars, shared, spent>>
      /\ Goes(w, job)
      /\ status' = [r \in Runs |-> IF r \in lost THEN "failed" ELSE status[r]]
      /\ rows' = rows \cup {Event(r, 0, "run_failed") : r \in lost}
  BY DEF Reconcile, Doing
<1>2. lost \subseteq Runs /\ \A r \in lost : status[r] \in Sweepable /\ r \notin work[w].ids  OBVIOUS
<1>3. status \in [Runs -> Statuses \cup {"unborn", "destroyed"}] /\ work[w] \in Jobs  BY DEF TypeOK
<1>4. /\ job \in Jobs /\ job.op = "reconcile" /\ job.at = "restore"
      /\ \A r \in job.ids : r \in Runs /\ r \in work[w].ids /\ status[r] \in Restorable
  BY <1>1, <1>3 DEF Jobs
<1> HIDE DEF lost, job
<1>5. Proper(job)  BY <1>4, VerdictIs DEF Proper
<1>6. status' \in [Runs -> Statuses \cup {"unborn", "destroyed"}]
  BY <1>1, <1>3 DEF Statuses, Active, Sweepable, Restorable
<1>7. \A r \in job.ids : status'[r] \in Restorable  BY <1>1, <1>2, <1>4
<1>8. rows \subseteq rows' /\ \A row \in rows' \ rows : \E r \in Runs : row = Event(r, 0, "run_failed")
  BY <1>1, <1>2
<1>9. ASSUME NEW r \in Runs, status'[r] # status[r]
      PROVE  status[r] \in Sweepable /\ status'[r] = "failed" /\ Event(r, 0, "run_failed") \in rows'
  BY <1>1, <1>2, <1>9
<1> QED  BY <1>1, <1>4, <1>5, <1>6, <1>7, <1>8, <1>9

\* One run is restored, or the task ends.
LEMMA RestoreIs ==
  ASSUME TypeOK, Boots, NEW w \in Workers, Restore(w)
  PROVE  /\ work[w].op = "reconcile" /\ work[w].at = "restore"
         /\ UNCHANGED <<rows, archived, tree, harnessVars, shared, spent>>
         /\ fresh' \in [Runs -> BOOLEAN]
         /\ \/ Done(w) /\ status' = status
            \/ \E r \in Runs, job \in Jobs :
                 /\ Proper(job) /\ Goes(w, job) /\ job.op = "reconcile" /\ job.at = "restore"
                 /\ job.ids = work[w].ids \ {r}
                 /\ status[r] \in Restorable /\ Sets(r, "running")
<1>1. /\ work[w].op = "reconcile" /\ work[w].at = "restore" /\ work[w] \in Jobs
      /\ \A r \in work[w].ids : r \in Runs /\ status[r] \in Restorable
      /\ fresh \in [Runs -> BOOLEAN]
      /\ UNCHANGED <<rows, archived, tree, harnessVars, shared, spent>>
  BY DEF Restore, Doing, TypeOK, Boots, Jobs
<1>2. CASE Done(w) /\ UNCHANGED <<status, fresh>>  BY <1>1, <1>2
<1>3. ASSUME NEW r \in work[w].ids, Sets(r, "running"), fresh' = [fresh EXCEPT ![r] = TRUE],
             Goes(w, [work[w] EXCEPT !.ids = @ \ {r}])
      PROVE  /\ fresh' \in [Runs -> BOOLEAN]
             /\ \E job \in Jobs :
                  /\ Proper(job) /\ Goes(w, job) /\ job.op = "reconcile" /\ job.at = "restore"
                  /\ job.ids = work[w].ids \ {r}
             /\ r \in Runs /\ status[r] \in Restorable
  <2> DEFINE job == [work[w] EXCEPT !.ids = @ \ {r}]
  <2>1. /\ job \in Jobs /\ job.op = "reconcile" /\ job.at = "restore"
        /\ job.ids = work[w].ids \ {r}
    BY <1>1 DEF Jobs
  <2>2. Goes(w, job)  BY <1>3
  <2> HIDE DEF job
  <2>3. Proper(job)  BY <2>1, VerdictIs DEF Proper
  <2>4. fresh' \in [Runs -> BOOLEAN]  BY <1>1, <1>3
  <2> QED  BY <1>1, <2>1, <2>2, <2>3, <2>4
<1> QED  BY <1>1, <1>2, <1>3 DEF Restore

-----------------------------------------------------------------------------
(* Seqs.                                                                   *)

\* A set of numbers with an upper bound has a largest member.
LEMMA Largest ==
  ASSUME NEW S \in SUBSET Nat, S # {}, NEW n \in Nat, \A m \in S : m <= n
  PROVE  \E x \in S : \A m \in S : m <= x
<1> DEFINE U == {x \in Nat : \A m \in S : m <= x}
<1>1. U \subseteq Nat /\ U # {}  OBVIOUS
<1>2. PICK x \in U : \A y \in U : ~ (<<y, x>> \in OpToRel(<, Nat))
  BY <1>1, NatLessThanWellFounded, WFMin
<1>3. \A y \in U : ~ (y < x)
  <2> SUFFICES ASSUME NEW y \in U, y < x PROVE FALSE  OBVIOUS
  <2>1. <<y, x>> \in Nat \X Nat /\ <<y, x>>[1] < <<y, x>>[2]  BY <1>1
  <2>2. <<y, x>> \in OpToRel(<, Nat)  BY <2>1 DEF OpToRel
  <2> QED  BY <1>2, <2>2
<1>4. x \in S
  <2> SUFFICES ASSUME x \notin S PROVE FALSE  OBVIOUS
  <2>1. PICK m \in S : m \in Nat  OBVIOUS
  <2>2. \A k \in S : k <= x - 1  BY <1>1
  <2>3. x - 1 \in Nat  BY <1>1, <2>1, <2>2
  <2>4. x - 1 \in U  BY <2>2, <2>3
  <2> QED  BY <1>1, <1>3, <2>4
<1> QED  BY <1>4

LEMMA NextSeqIs ==
  ASSUME NEW table, NEW r, NEW n \in Nat, \A row \in table : row.seq \in Nat /\ row.seq <= n
  PROVE  /\ NextSeq(table, r) \in Nat \ {0}
         /\ \A row \in table : row.run = r => row.seq < NextSeq(table, r)
<1> DEFINE S == Seqs(table, r) \cup {0}
<1>1. S \in SUBSET Nat /\ S # {} /\ \A m \in S : m <= n  BY DEF Seqs
<1>2. \A row \in table : row.run = r => row.seq \in S  BY DEF Seqs
<1>3. NextSeq(table, r) = Max(S) + 1  BY DEF NextSeq
<1> HIDE DEF S
<1>4. \E x \in S : \A m \in S : m <= x  BY <1>1, Largest
<1>5. \E x \in S : \A m \in S : x >= m  BY <1>1, <1>4
<1>6. Max(S) \in S /\ \A m \in S : Max(S) >= m  BY <1>5 DEF Max
<1> DEFINE m == Max(S)
<1>7. m \in Nat /\ NextSeq(table, r) = m + 1  BY <1>1, <1>3, <1>6
<1>8. \A row \in table : row.run = r => row.seq <= m /\ row.seq \in Nat  BY <1>1, <1>2, <1>6
<1> HIDE DEF m
<1> QED  BY <1>7, <1>8

LEMMA TableIs ==
  ASSUME TypeOK, Numbered, NEW new, new \subseteq [run : Runs, seq : Nat, type : Types],
         NEW k \in Nat, \A row \in new : row.seq <= k
  PROVE  /\ rows \cup new \subseteq [run : Runs, seq : Nat, type : Types]
         /\ \E n \in Nat : \A row \in rows \cup new : row.seq \in Nat /\ row.seq <= n
<1>1. PICK n \in Nat : \A row \in rows : row.seq <= n  BY DEF Numbered
<1>2. rows \subseteq [run : Runs, seq : Nat, type : Types]  BY DEF TypeOK
<1>3. n + k \in Nat /\ \A row \in rows \cup new : row.seq \in Nat /\ row.seq <= n + k
  BY <1>1, <1>2
<1> QED  BY <1>2, <1>3

-----------------------------------------------------------------------------
(* The events that are ingested.                                           *)

\* An event is in the table, and its thread goes on to what follows from it.
LEMMA IngestIs ==
  ASSUME TypeOK, NEW w \in Workers, NEW op \in {"ingest", "interrupt"}, NEW e \in Wired,
         Ingest(w, op, e), status[e.run] \in Statuses \cup {"unborn"},
         op = "interrupt" => e.type = "run_interrupted", Numbered
  PROVE  /\ \E job \in Jobs : /\ Proper(job) /\ Goes(w, job)
                              /\ job.op = op /\ job.at = e.type /\ job.run = e.run
         /\ rows' = rows \cup {e} /\ rows' \subseteq [run : Runs, seq : Nat, type : Types] /\ Numbered'
<1> DEFINE job == [Loaded(Job(op, e.type, e.run)) EXCEPT
                     !.seq = IF Dirty THEN NextSeq(rows', e.run) ELSE 0]
<1>1. rows' = rows \cup {e} /\ Goes(w, job)  BY DEF Ingest
<1>2. e.run \in Runs /\ e.seq \in Nat /\ e.type \in Reports /\ e.seq <= e.seq
      /\ {e} \subseteq [run : Runs, seq : Nat, type : Types]
  BY DEF Wired, Types
<1>3. PICK n \in Nat : \A row \in rows' : row.seq \in Nat /\ row.seq <= n  BY <1>1, <1>2, TableIs
<1>4. NextSeq(rows', e.run) \in Nat  BY <1>3, NextSeqIs
<1>5. Job(op, e.type, e.run) \in Jobs  BY <1>2, JobsAre
<1>6. job \in Jobs /\ job.op = op /\ job.at = e.type /\ job.run = e.run
  BY <1>4, <1>5 DEF Loaded, Job, Jobs
<1> HIDE DEF job
<1>7. Proper(job)  BY <1>2, <1>6, VerdictIs DEF Proper
<1>8. rows' \subseteq [run : Runs, seq : Nat, type : Types]  BY <1>1, <1>2 DEF TypeOK
<1>9. Numbered'  BY <1>3 DEF Numbered
<1> QED  BY <1>1, <1>6, <1>7, <1>8, <1>9

\* A posted event is ingested, or skipped.
LEMMA DeliverIs ==
  ASSUME TypeOK, NEW w \in Workers, Deliver(w)
  PROVE  LET e == Head(wire) IN
         /\ wire # <<>> /\ e \in Wired /\ wire' = Tail(wire) /\ wire' \in Seq(Wired)
         /\ status[e.run] \in Statuses \cup {"unborn"}
         /\ \A v \in Workers : work[v].op # "ingest"
         /\ UNCHANGED <<status, archived, fresh, tree, held, top, aborted, shared, spent>>
         /\ posting' \in BOOLEAN
         /\ \/ UNCHANGED <<rows, work>>
            \/ Ingest(w, "ingest", e) /\ work[w] = Idle
<1>1. wire # <<>> /\ wire \in Seq(Wired)  BY DEF Deliver, TypeOK
<1>2. Head(wire) \in Wired /\ Tail(wire) \in Seq(Wired)  BY <1>1
<1>3. Head(wire).run \in Runs  BY <1>2 DEF Wired
<1>4. status[Head(wire).run] \in Statuses \cup {"unborn"}  BY <1>3 DEF Deliver, TypeOK
<1> QED  BY <1>1, <1>2, <1>4 DEF Deliver

-----------------------------------------------------------------------------
(* Types.                                                                  *)

\* The row a thread adds.
LEMMA RowAdded ==
  ASSUME TypeOK, Numbered, NEW r \in Runs, NEW n \in Nat, NEW type \in Types,
         rows' = rows \cup {Event(r, n, type)}
  PROVE  rows' \subseteq [run : Runs, seq : Nat, type : Types] /\ Numbered'
<1>1. {Event(r, n, type)} \subseteq [run : Runs, seq : Nat, type : Types]
      /\ \A row \in {Event(r, n, type)} : row.seq <= n
  BY DEF Event
<1>2. \E k \in Nat : \A row \in rows' : row.seq \in Nat /\ row.seq <= k  BY <1>1, TableIs
<1>3. rows' \subseteq [run : Runs, seq : Nat, type : Types]  BY <1>1 DEF TypeOK
<1> QED  BY <1>2, <1>3 DEF Numbered

LEMMA StatusSet ==
  ASSUME TypeOK, NEW r \in Runs, NEW s \in Statuses \cup {"destroyed"}, Sets(r, s)
  PROVE  /\ status' \in [Runs -> Statuses \cup {"unborn", "destroyed"}]
         /\ status'[r] = s /\ \A q \in Runs : q # r => status'[q] = status[q]
BY DEF TypeOK, Sets

LEMMA DestroyIs ==
  ASSUME TypeOK, Numbered, NEW r \in Runs, Destroy(r)
  PROVE  /\ status' \in [Runs -> Statuses \cup {"unborn", "destroyed"}]
         /\ rows' \subseteq [run : Runs, seq : Nat, type : Types] /\ Numbered'
         /\ status'[r] = "destroyed" /\ \A q \in Runs : q # r => status'[q] = status[q]
         /\ \A row \in rows : row.run # r => row \in rows'
         /\ rows' \subseteq rows
BY StatusSet DEF TypeOK, Numbered, Destroy

LEMMA StatusNames ==
  /\ {"superseded", "queued", "running", "failed", "completed_clean", "awaiting_review"} \subseteq Statuses
  /\ \A op \in DOMAIN Verdict : Verdict[op] \in Statuses /\ Decision[op] \in Types
BY VerdictIs DEF Statuses, Active, Sweepable, Restorable, Decided, Types

LEMMA SettleTypes ==
  ASSUME TypeOK, Numbered, NEW w \in Workers,
         SettleStarted(w) \/ SettleFailed(w) \/ SettleClean(w) \/ SettleReview(w) \/ SettleNothing(w)
  PROVE  TypeOK' /\ Numbered'
<1> DEFINE r == work[w].run
<1>1. /\ Done(w) /\ r \in Runs
      /\ UNCHANGED <<archived, fresh, tree, harnessVars, shared, spent>>
      /\ \/ UNCHANGED <<status, rows>>
         \/ /\ rows' = rows
            /\ \E s \in Statuses : Sets(r, s)
         \/ Appends(r, "awaiting_review", Event(r, work[w].seq, "changeset_ready"))
  BY Settles, StatusNames
<1>2. work' \in [Workers -> Jobs] /\ \A v \in Workers : Proper(work'[v])
  BY <1>1, NextJob, JobsAre DEF Done
<1>3. /\ status' \in [Runs -> Statuses \cup {"unborn", "destroyed"}]
      /\ rows' \subseteq [run : Runs, seq : Nat, type : Types] /\ Numbered'
  <2> HIDE DEF r
  <2>1. CASE UNCHANGED <<status, rows>>  BY <2>1 DEF TypeOK, Numbered
  <2>2. CASE rows' = rows /\ \E s \in Statuses : Sets(r, s)
    BY <1>1, <2>2, StatusSet DEF TypeOK, Numbered
  <2>3. CASE Appends(r, "awaiting_review", Event(r, work[w].seq, "changeset_ready"))
    <3>1. work[w].seq \in Nat /\ "changeset_ready" \in Types  BY DEF TypeOK, Jobs, Types
    <3>2. Sets(r, "awaiting_review") /\ rows' = rows \cup {Event(r, work[w].seq, "changeset_ready")}
      BY <2>3 DEF Appends
    <3> QED  BY <1>1, <3>1, <3>2, RowAdded, StatusSet, StatusNames
  <2> QED  BY <1>1, <2>1, <2>2, <2>3
<1> QED  BY <1>1, <1>2, <1>3 DEF TypeOK, harnessVars

LEMMA RecordTypes ==
  ASSUME TypeOK, Numbered, NEW w \in Workers, Record(w)
  PROVE  TypeOK' /\ Numbered'
<1> DEFINE r == work[w].run
           e == Event(r, work[w].seq, Decision[work[w].op])
<1>1. /\ work[w].op \in DOMAIN Verdict /\ r \in Runs /\ Done(w)
      /\ UNCHANGED <<archived, fresh, tree, harnessVars, shared, spent>>
      /\ Appends(r, Verdict[work[w].op], e) \/ UNCHANGED <<status, rows>>
  BY RecordIs
<1>2. work' \in [Workers -> Jobs] /\ \A v \in Workers : Proper(work'[v])
  BY <1>1, NextJob, JobsAre DEF Done
<1>3. /\ status' \in [Runs -> Statuses \cup {"unborn", "destroyed"}]
      /\ rows' \subseteq [run : Runs, seq : Nat, type : Types] /\ Numbered'
  <2>1. CASE UNCHANGED <<status, rows>>  BY <2>1 DEF TypeOK, Numbered
  <2>2. CASE Appends(r, Verdict[work[w].op], e)
    <3>1. work[w].seq \in Nat /\ Decision[work[w].op] \in Types /\ Verdict[work[w].op] \in Statuses
      BY <1>1, StatusNames DEF TypeOK, Jobs
    <3>2. Sets(r, Verdict[work[w].op]) /\ rows' = rows \cup {e}  BY <2>2 DEF Appends
    <3> QED  BY <1>1, <3>1, <3>2, RowAdded, StatusSet
  <2> QED  BY <1>1, <2>1, <2>2
<1> QED  BY <1>1, <1>2, <1>3 DEF TypeOK, harnessVars

LEMMA ThreadTypes ==
  ASSUME TypeOK, Boots, Numbered, NEW w \in Workers, Step(w)
  PROVE  TypeOK' /\ Numbered'
<1> DEFINE r == work[w].run
<1>1. CASE Supersede(w)
  <2>1. /\ Goes(w, Job("start", "create", 0)) /\ r \in Runs
        /\ status' = status \/ Sets(r, "superseded")
        /\ shared' \subseteq Runs
        /\ UNCHANGED <<rows, archived, fresh, tree, harnessVars, spent>>
    BY <1>1, SupersedeIs
  <2>2. Proper(Job("start", "create", 0))  BY VerdictIs DEF Proper, Job
  <2>3. work' \in [Workers -> Jobs] /\ \A v \in Workers : Proper(work'[v])
    BY <2>1, <2>2, NextJob, JobsAre
  <2>4. status' \in [Runs -> Statuses \cup {"unborn", "destroyed"}]
    BY <2>1, StatusSet, StatusNames DEF TypeOK
  <2> QED  BY <2>1, <2>3, <2>4 DEF TypeOK, Numbered, harnessVars
<1>2. CASE Create(w)
  <2>1. /\ UNCHANGED <<rows, archived, tree, harnessVars, shared, spent>>
        /\ \/ Done(w) /\ UNCHANGED <<status, fresh>>
           \/ \E q \in Runs : /\ Sets(q, "queued") /\ fresh' = [fresh EXCEPT ![q] = TRUE]
                              /\ Goes(w, Job("start", "post", q))
    BY <1>2, CreateIs
  <2>2. ASSUME NEW q \in Runs
        PROVE  Job("start", "post", q) \in Jobs /\ Proper(Job("start", "post", q))
    <3>1. Proper(Job("start", "post", q))  BY VerdictIs DEF Proper, Job
    <3> QED  BY <3>1, JobsAre
  <2>3. work' \in [Workers -> Jobs] /\ \A v \in Workers : Proper(work'[v])
    BY <2>1, <2>2, NextJob, JobsAre DEF Done
  <2>4. status' \in [Runs -> Statuses \cup {"unborn", "destroyed"}]
    BY <2>1, StatusSet, StatusNames DEF TypeOK
  <2>5. fresh' \in [Runs -> BOOLEAN]  BY <2>1 DEF TypeOK
  <2> QED  BY <2>1, <2>3, <2>4, <2>5 DEF TypeOK, Numbered, harnessVars
<1>3. CASE Post(w) \/ Answered(w)
  <2>1. /\ r \in Runs /\ UNCHANGED <<archived, fresh, tree, top, aborted, wire, posting, shared>>
        /\ spent' \in [DOMAIN Limit -> Nat]
        /\ \/ Destroy(r) /\ Done(w) /\ held' = held
           \/ UNCHANGED <<status, rows, held>> /\ Done(w)
           \/ /\ UNCHANGED <<status, rows>> /\ held' = [held EXCEPT ![r] = "starting"]
              /\ Goes(w, Job("start", "wait", r))
    BY <1>3, Destroys
  <2>2. Job("start", "wait", r) \in Jobs /\ Proper(Job("start", "wait", r))
    BY <2>1, JobsAre, VerdictIs DEF Proper, Job
  <2>3. work' \in [Workers -> Jobs] /\ \A v \in Workers : Proper(work'[v])
    BY <2>1, <2>2, NextJob, JobsAre DEF Done
  <2>4. held' \in [Runs -> {"no", "starting", "live", "ended", "lost"}]  BY <2>1 DEF TypeOK
  <2>5. /\ status' \in [Runs -> Statuses \cup {"unborn", "destroyed"}]
        /\ rows' \subseteq [run : Runs, seq : Nat, type : Types] /\ Numbered'
    BY <2>1, DestroyIs DEF TypeOK, Numbered
  <2> QED  BY <2>1, <2>3, <2>4, <2>5 DEF TypeOK
<1>4. CASE SettleStarted(w) \/ SettleFailed(w) \/ SettleClean(w) \/ SettleReview(w) \/ SettleNothing(w)
  BY <1>4, SettleTypes
<1>5. CASE Git(w)
  <2>1. /\ work[w].op \in DOMAIN Verdict /\ r \in Runs /\ UNCHANGED <<railsVars, harnessVars, spent>>
        /\ tree' \in [there : BOOLEAN, dirty : SUBSET Runs, kept : SUBSET Runs]
        /\ shared' \subseteq Runs
        /\ Done(w) \/ Goes(w, [work[w] EXCEPT !.at = "pick"])
    BY <1>5, GitIs
  <2>2. work[w] \in Jobs /\ Proper(work[w])  BY DEF TypeOK
  <2>3. [work[w] EXCEPT !.at = "pick"] \in Jobs /\ Proper([work[w] EXCEPT !.at = "pick"])
    BY <2>1, <2>2, VerdictIs DEF Jobs, Proper
  <2>4. work' \in [Workers -> Jobs] /\ \A v \in Workers : Proper(work'[v])
    BY <2>1, <2>3, NextJob, JobsAre DEF Done
  <2> QED  BY <2>1, <2>4 DEF TypeOK, Numbered, railsVars, harnessVars
<1>6. CASE PickSeq(w)
  <2> DEFINE job == [work[w] EXCEPT !.at = "record", !.seq = NextSeq(rows, r)]
  <2>1. /\ work[w].op \in DOMAIN Verdict /\ Goes(w, job)
        /\ UNCHANGED <<railsVars, tree, harnessVars, shared, spent>>
    BY <1>6 DEF PickSeq
  <2>2. work[w] \in Jobs /\ Proper(work[w])  BY DEF TypeOK
  <2>3. NextSeq(rows, r) \in Nat  BY NextSeqIs DEF Numbered, TypeOK
  <2>4. job \in Jobs /\ Proper(job)  BY <2>1, <2>2, <2>3, VerdictIs DEF Jobs, Proper
  <2> HIDE DEF job
  <2>5. work' \in [Workers -> Jobs] /\ \A v \in Workers : Proper(work'[v])
    BY <2>1, <2>4, NextJob
  <2> QED  BY <2>1, <2>5 DEF TypeOK, Numbered, railsVars, harnessVars
<1>7. CASE Record(w)  BY <1>7, RecordTypes
<1>8. CASE Interrupted(w)
  <2> DEFINE e == Event(r, 0, "run_interrupted")
  <2>1. /\ r \in Runs /\ aborted' \subseteq Runs
        /\ UNCHANGED <<status, archived, fresh, tree, held, top, wire, posting, shared, spent>>
        /\ \/ Done(w) /\ rows' = rows
           \/ Ingest(w, "interrupt", e) /\ r \in Known
    BY <1>8, InterruptedIs
  <2>2. e \in Wired /\ e.run = r /\ e.type = "run_interrupted"
    BY <2>1 DEF Event, Wired, Reports, Ends
  <2> HIDE DEF e
  <2>3. /\ work' \in [Workers -> Jobs] /\ \A v \in Workers : Proper(work'[v])
        /\ rows' \subseteq [run : Runs, seq : Nat, type : Types] /\ Numbered'
    <3>1. CASE Done(w) /\ rows' = rows
      BY <3>1, NextJob, JobsAre DEF Done, TypeOK, Numbered
    <3>2. CASE Ingest(w, "interrupt", e) /\ r \in Known
      <4>1. status[e.run] \in Statuses  BY <2>2, <3>2 DEF Known
      <4> QED  BY <2>2, <3>2, <4>1, IngestIs, NextJob
    <3> QED  BY <2>1, <3>1, <3>2
  <2> QED  BY <2>1, <2>3 DEF TypeOK
<1>9. CASE SweepFail(w)
  <2>1. /\ r \in Runs /\ UNCHANGED <<archived, fresh, tree, harnessVars, shared, spent>> /\ Done(w)
        /\ \/ UNCHANGED <<status, rows>>
           \/ Sets(r, "failed") /\ rows' = rows \cup {Event(r, 0, "run_failed")}
    BY <1>9, SweepFailIs DEF Appends
  <2>2. work' \in [Workers -> Jobs] /\ \A v \in Workers : Proper(work'[v])
    BY <2>1, NextJob, JobsAre DEF Done
  <2>3. "run_failed" \in Types  BY DEF Types, Reports, Ends
  <2>4. /\ status' \in [Runs -> Statuses \cup {"unborn", "destroyed"}]
        /\ rows' \subseteq [run : Runs, seq : Nat, type : Types] /\ Numbered'
    <3>1. CASE UNCHANGED <<status, rows>>  BY <3>1 DEF TypeOK, Numbered
    <3>2. CASE Sets(r, "failed") /\ rows' = rows \cup {Event(r, 0, "run_failed")}
      BY <2>1, <2>3, <3>2, RowAdded, StatusSet, StatusNames
    <3> QED  BY <2>1, <3>1, <3>2
  <2> QED  BY <2>1, <2>2, <2>4 DEF TypeOK, harnessVars
<1>10. CASE Reconcile(w)
  <2>1. /\ UNCHANGED <<archived, fresh, tree, harnessVars, shared, spent>>
        /\ \E job \in Jobs : Proper(job) /\ Goes(w, job)
        /\ status' \in [Runs -> Statuses \cup {"unborn", "destroyed"}]
        /\ \A row \in rows' \ rows : \E q \in Runs : row = Event(q, 0, "run_failed")
    BY <1>10, ReconcileIs
  <2>2. work' \in [Workers -> Jobs] /\ \A v \in Workers : Proper(work'[v])
    BY <2>1, NextJob
  <2>3. \A row \in rows' \ rows : row \in [run : Runs, seq : Nat, type : Types] /\ row.seq = 0
    BY <2>1 DEF Event, Types, Reports, Ends
  <2>4. rows' \subseteq [run : Runs, seq : Nat, type : Types]  BY <2>3 DEF TypeOK
  <2>5. Numbered'  BY <2>3 DEF Numbered
  <2> QED  BY <2>1, <2>2, <2>4, <2>5 DEF TypeOK, harnessVars
<1>12. CASE Restore(w)
  <2>1. /\ UNCHANGED <<rows, archived, tree, harnessVars, shared, spent>>
        /\ fresh' \in [Runs -> BOOLEAN]
        /\ \/ Done(w) /\ status' = status
           \/ /\ \E q \in Runs : Sets(q, "running")
              /\ \E job \in Jobs : Proper(job) /\ Goes(w, job)
    BY <1>12, RestoreIs
  <2>2. work' \in [Workers -> Jobs] /\ \A v \in Workers : Proper(work'[v])
    BY <2>1, NextJob, JobsAre DEF Done
  <2>3. status' \in [Runs -> Statuses \cup {"unborn", "destroyed"}]
    BY <2>1, StatusSet, StatusNames DEF TypeOK
  <2> QED  BY <2>1, <2>2, <2>3 DEF TypeOK, Numbered, harnessVars
<1>11. CASE RemoveTree(w)
  <2>1. /\ tree' = [tree EXCEPT !.there = FALSE, !.dirty = {}] /\ Done(w)
        /\ UNCHANGED <<railsVars, harnessVars, shared, spent>>
    BY <1>11 DEF RemoveTree
  <2>2. work' \in [Workers -> Jobs] /\ \A v \in Workers : Proper(work'[v])
    BY <2>1, NextJob, JobsAre DEF Done
  <2>3. tree' \in [there : BOOLEAN, dirty : SUBSET Runs, kept : SUBSET Runs]  BY <2>1 DEF TypeOK
  <2> QED  BY <2>1, <2>2, <2>3 DEF TypeOK, Numbered, railsVars, harnessVars
<1> QED
  BY <1>1, <1>2, <1>3, <1>4, <1>5, <1>6, <1>7, <1>8, <1>9, <1>10, <1>11, <1>12 DEF Step

\* What the harness does.
LEMMA HarnessTypes ==
  ASSUME TypeOK, Numbered, PostFails \/ Crash \/ \E r \in Runs : Harness(r) \/ GoesStale(r)
  PROVE  TypeOK' /\ Numbered'
<1> USE DEF railsVars, harnessVars
<1>1. ASSUME NEW r \in Runs, NEW n \in Nat, NEW type \in Reports, wire' = Append(wire, Event(r, n, type))
      PROVE  wire' \in Seq(Wired)
  <2>1. Event(r, n, type) \in Wired  BY DEF Event, Wired
  <2> QED  BY <1>1, <2>1 DEF TypeOK
<1>2. ASSUME NEW r \in Runs, Register(r) PROVE TypeOK' /\ Numbered'
  <2>1. /\ held' = [held EXCEPT ![r] = "live"] /\ top' = [top EXCEPT ![r] = @ + 1]
        /\ wire' = Append(wire, Event(r, top[r] + 1, "run_started")) /\ posting' = TRUE
        /\ UNCHANGED <<railsVars, work, tree, aborted, spent>>
    BY <1>2 DEF Register, Emits
  <2>2. shared' \subseteq Runs  BY <1>2 DEF Register, TypeOK
  <2>3. wire' \in Seq(Wired)
    <3>1. top[r] + 1 \in Nat /\ "run_started" \in Reports  BY DEF TypeOK, Reports
    <3> QED  BY <1>1, <2>1, <3>1
  <2> QED  BY <2>1, <2>2, <2>3 DEF TypeOK, Numbered
<1>3. ASSUME NEW r \in Runs, StartFails(r) PROVE TypeOK' /\ Numbered'
  BY <1>3 DEF StartFails, TypeOK, Numbered
<1>4. ASSUME NEW r \in Runs, Edit(r) PROVE TypeOK' /\ Numbered'
  BY <1>4 DEF Edit, TypeOK, Numbered
<1>5. ASSUME NEW r \in Runs, End(r) PROVE TypeOK' /\ Numbered'
  <2>1. PICK type \in Ends :
          /\ held' = [held EXCEPT ![r] = "ended"] /\ top' = [top EXCEPT ![r] = @ + 1]
          /\ wire' = Append(wire, Event(r, top[r] + 1, type)) /\ posting' = TRUE
          /\ UNCHANGED <<railsVars, work, tree, aborted, shared, spent>>
    BY <1>5 DEF End, Emits, Ends
  <2>2. wire' \in Seq(Wired)
    <3>1. top[r] + 1 \in Nat /\ type \in Reports  BY DEF TypeOK, Reports
    <3> QED  BY <1>1, <2>1, <3>1
  <2> QED  BY <2>1, <2>2 DEF TypeOK, Numbered
<1>6. ASSUME NEW r \in Runs, Heartbeat(r) \/ GoesStale(r) PROVE TypeOK' /\ Numbered'
  <2>1. "timeouts" \in DOMAIN Limit  BY Spending
  <2>2. spent' \in [DOMAIN Limit -> Nat]  BY <1>6, <2>1, Spending DEF Heartbeat, GoesStale
  <2>3. /\ fresh' \in [Runs -> BOOLEAN]
        /\ UNCHANGED <<status, rows, archived, work, tree, harnessVars, shared>>
    BY <1>6 DEF Heartbeat, GoesStale, TypeOK
  <2> QED  BY <2>2, <2>3 DEF TypeOK, Numbered
<1>7. CASE Crash
  <2> DEFINE live == {r \in Runs : held[r] = "live"}
  <2>1. /\ held' = [r \in Runs |-> CASE r \in live -> "lost"
                                     [] held[r] = "starting" -> "no"
                                     [] OTHER -> held[r]]
        /\ top' = [r \in Runs |-> IF r \in live THEN top[r] + 1 ELSE top[r]]
        /\ UNCHANGED <<railsVars, work, tree, aborted, shared>>
        /\ Spend("crashes") /\ posting' = (live # {})
    BY <1>7 DEF Crash
  <2>2. PICK order \in [1 .. Cardinality(live) -> live] :
          wire' = [i \in DOMAIN order |-> Event(order[i], top'[order[i]], "recovery_applied")]
    BY <1>7 DEF Crash
  <2>3. spent' \in [DOMAIN Limit -> Nat]  BY <2>1, Spending
  <2>4. held' \in [Runs -> {"no", "starting", "live", "ended", "lost"}]  BY <2>1 DEF TypeOK
  <2>5. top' \in [Runs -> Nat]  BY <2>1 DEF TypeOK
  <2>6. wire' \in Seq(Wired)
    <3>1. \A r \in live : Event(r, top'[r], "recovery_applied") \in Wired
      BY <2>5 DEF Event, Wired, Reports
    <3>2. IsFiniteSet(live)
      <4>1. IsFiniteSet(Runs)  BY FS_Interval, BoundsAssumption DEF Runs
      <4> QED  BY <4>1, FS_Subset
    <3>3. Cardinality(live) \in Nat  BY <3>2, FS_CardinalityType
    <3> HIDE DEF live
    <3>4. wire' \in [1 .. Cardinality(live) -> Wired]  BY <2>2, <3>1
    <3> QED  BY <3>3, <3>4, SeqDef
  <2>7. posting' \in BOOLEAN  BY <2>1
  <2> HIDE DEF live
  <2> QED  BY <2>1, <2>3, <2>4, <2>5, <2>6, <2>7 DEF TypeOK, Numbered
<1>8. CASE PostFails
  <2>1. /\ posting' \in {posting, FALSE}
        /\ UNCHANGED <<railsVars, work, tree, held, top, aborted, wire, shared, spent>>
    BY <1>8 DEF PostFails, PostLost
  <2> QED  BY <2>1 DEF TypeOK, Numbered
<1> QED  BY <1>2, <1>3, <1>4, <1>5, <1>6, <1>7, <1>8 DEF Harness

\* A thread is lost, or all of them.
LEMMA LossTypes ==
  ASSUME TypeOK, Numbered, NEW w \in Workers, Restart(w) \/ Die(w)
  PROVE  TypeOK' /\ Numbered'
<1>1. CASE Restart(w)
  <2> DEFINE job == [Job("reconcile", "apply", 0) EXCEPT !.ids = {r \in Runs : held[r] = "live"}]
  <2>1. /\ Spend("restarts")
        /\ work' = [v \in Workers |-> CASE v = w -> job
                                        [] work[v].op = "sweep" -> work[v]
                                        [] OTHER -> Idle]
        /\ shared' = shared \cup Deciding /\ posting' \in {posting, FALSE}
        /\ UNCHANGED <<railsVars, tree, held, top, aborted, wire>>
    BY <1>1 DEF Restart, PostLost
  <2>2. job \in Jobs /\ Proper(job)
    <3>1. Job("reconcile", "apply", 0) \in Jobs  BY JobsAre
    <3> QED  BY <3>1, VerdictIs DEF Jobs, Proper, Job
  <2> HIDE DEF job
  <2>3. work' \in [Workers -> Jobs] /\ \A v \in Workers : Proper(work'[v])
    <3>1. \A v \in Workers : work[v] \in Jobs /\ Proper(work[v])  BY DEF TypeOK
    <3>2. \A v \in Workers : work'[v] \in {job, work[v], Idle}  BY <2>1
    <3>3. DOMAIN work' = Workers /\ work' = [v \in Workers |-> work'[v]]  BY <2>1
    <3> QED  BY <2>2, <3>1, <3>2, <3>3, JobsAre
  <2>4. shared' \subseteq Runs  BY <2>1 DEF Deciding, TypeOK, Proper
  <2>5. spent' \in [DOMAIN Limit -> Nat]  BY <2>1, Spending
  <2> QED  BY <2>1, <2>3, <2>4, <2>5 DEF TypeOK, Numbered, railsVars
<1>2. CASE Die(w)
  <2>1. /\ Spend("deaths") /\ Done(w) /\ posting' \in {posting, FALSE}
        /\ UNCHANGED <<railsVars, tree, held, top, aborted, wire>>
        /\ shared' = IF work[w].op \in DOMAIN Verdict THEN shared \cup {work[w].run} ELSE shared
    BY <1>2 DEF Die, PostLost
  <2>2. work' \in [Workers -> Jobs] /\ \A v \in Workers : Proper(work'[v])
    BY <2>1, NextJob, JobsAre DEF Done
  <2>3. shared' \subseteq Runs  BY <2>1 DEF TypeOK, Proper
  <2>4. spent' \in [DOMAIN Limit -> Nat]  BY <2>1, Spending
  <2> QED  BY <2>1, <2>2, <2>3, <2>4 DEF TypeOK, Numbered, railsVars
<1> QED  BY <1>1, <1>2

LEMMA DeliverTypes ==
  ASSUME TypeOK, Numbered, NEW w \in Workers, Deliver(w)
  PROVE  TypeOK' /\ Numbered'
<1> DEFINE e == Head(wire)
<1>1. /\ e \in Wired /\ wire' \in Seq(Wired) /\ status[e.run] \in Statuses \cup {"unborn"}
      /\ UNCHANGED <<status, archived, fresh, tree, held, top, aborted, shared, spent>>
      /\ posting' \in BOOLEAN
      /\ UNCHANGED <<rows, work>> \/ Ingest(w, "ingest", e)
  BY DeliverIs
<1> HIDE DEF e
<1>2. CASE UNCHANGED <<rows, work>>  BY <1>1, <1>2 DEF TypeOK, Numbered
<1>3. CASE Ingest(w, "ingest", e)
  <2>1. /\ rows' \subseteq [run : Runs, seq : Nat, type : Types] /\ Numbered'
        /\ work' \in [Workers -> Jobs] /\ \A v \in Workers : Proper(work'[v])
    BY <1>1, <1>3, IngestIs, NextJob
  <2> QED  BY <1>1, <2>1 DEF TypeOK
<1> QED  BY <1>1, <1>2, <1>3

LEMMA RequestTypes ==
  ASSUME TypeOK, Numbered, NEW w \in Workers, Request(w) \/ \E r \in Runs : SweepLook(w, r)
  PROVE  TypeOK' /\ Numbered'
<1>1. work' \in [Workers -> Jobs] /\ \A v \in Workers : Proper(work'[v])
  BY Requests, NextJob DEF TypeOK
<1> QED  BY <1>1, Requests, SMTT(30) DEF TypeOK, Numbered, Frame

LEMMA TypeStep ==
  ASSUME TypeOK, Boots, Numbered, [Next]_vars
  PROVE  TypeOK' /\ Numbered'
<1>1. CASE UNCHANGED vars  BY <1>1 DEF vars, railsVars, harnessVars, TypeOK, Numbered
<1>2. ASSUME NEW w \in Workers, Request(w) PROVE TypeOK' /\ Numbered'  BY <1>2, RequestTypes
<1>3. ASSUME NEW w \in Workers, Step(w) PROVE TypeOK' /\ Numbered'  BY <1>3, ThreadTypes
<1>4. ASSUME NEW w \in Workers, Deliver(w) PROVE TypeOK' /\ Numbered'  BY <1>4, DeliverTypes
<1>5. ASSUME NEW w \in Workers, Restart(w) \/ Die(w) PROVE TypeOK' /\ Numbered'  BY <1>5, LossTypes
<1>6. ASSUME NEW r \in Runs, Sweep(r) PROVE TypeOK' /\ Numbered'  BY <1>6, RequestTypes DEF Sweep
<1>7. CASE PostFails \/ Crash \/ \E r \in Runs : Harness(r) \/ GoesStale(r)  BY <1>7, HarnessTypes
<1> QED  BY <1>1, <1>2, <1>3, <1>4, <1>5, <1>6, <1>7 DEF Next

-----------------------------------------------------------------------------
(* What a step does to the harness and the wire.                           *)

HarnessMoves ==
  \/ UNCHANGED <<held, wire>>
  \/ \E w \in Workers : /\ Posting(w) /\ wire' = wire
                        /\ held' = [held EXCEPT ![work[w].run] = "starting"] /\ ~Posting(w)'
  \/ \E r \in Runs : held[r] = "starting" /\ held' = [held EXCEPT ![r] = "no"] /\ wire' = wire
  \/ \E r \in Runs, n \in Nat :
       /\ held[r] = "starting" /\ held' = [held EXCEPT ![r] = "live"]
       /\ wire' = Append(wire, Event(r, n, "run_started"))
  \/ \E r \in Runs, n \in Nat, type \in Ends :
       /\ held[r] = "live" /\ held' = [held EXCEPT ![r] = "ended"]
       /\ wire' = Append(wire, Event(r, n, type))
  \/ held' = held /\ wire # <<>> /\ wire' = Tail(wire)
  \/ /\ \A r \in Runs : /\ held'[r] = "ended" <=> held[r] = "ended"
                        /\ held[r] = "no" => held'[r] = "no"
     /\ \A i \in DOMAIN wire' : wire'[i].type \notin Ends /\ held[wire'[i].run] = "live"

LEMMA HarnessMove ==
  ASSUME TypeOK, Numbered, [Next]_vars
  PROVE  HarnessMoves
<1>1. CASE UNCHANGED vars  BY <1>1 DEF vars, harnessVars, HarnessMoves
<1>2. ASSUME NEW w \in Workers, Request(w) \/ \E r \in Runs : SweepLook(w, r) PROVE HarnessMoves
  BY <1>2, Requests DEF Frame, HarnessMoves
<1>3. ASSUME NEW w \in Workers, Step(w) PROVE HarnessMoves
  <2>1. CASE Post(w) \/ Answered(w)
    <3>1. wire' = wire  BY <2>1, Destroys
    <3>2. \/ held' = held
          \/ /\ held' = [held EXCEPT ![work[w].run] = "starting"]
             /\ Goes(w, Job("start", "wait", work[w].run)) /\ Posting(w)
      BY <2>1, Destroys DEF Posting
    <3>3. CASE held' = held  BY <3>1, <3>3 DEF HarnessMoves
    <3>4. CASE /\ held' = [held EXCEPT ![work[w].run] = "starting"]
               /\ Goes(w, Job("start", "wait", work[w].run)) /\ Posting(w)
      <4>1. ~Posting(w)'  BY <3>4, SMTT(30) DEF Goes, Posting, Job, TypeOK
      <4> QED  BY <3>1, <3>4, <4>1 DEF HarnessMoves
    <3> QED  BY <3>2, <3>3, <3>4
  <2>2. CASE ~(Post(w) \/ Answered(w))
    <3>1. UNCHANGED <<held, wire>>
      BY <1>3, <2>2, Settles
      DEF Step, Supersede, Create, Git, PickSeq, Record, Interrupted, SweepFail, Reconcile, Restore, RemoveTree,
          harnessVars
    <3> QED  BY <3>1, SMTT(30) DEF HarnessMoves
  <2> QED  BY <2>1, <2>2
<1>4. ASSUME NEW w \in Workers, Deliver(w) PROVE HarnessMoves
  <2>1. held' = held /\ wire # <<>> /\ wire' = Tail(wire)  BY <1>4, DeliverIs
  <2> QED  BY <2>1 DEF HarnessMoves
<1>5. ASSUME NEW w \in Workers, Restart(w) \/ Die(w) PROVE HarnessMoves
  BY <1>5 DEF Restart, Die, harnessVars, HarnessMoves
<1>6. ASSUME NEW r \in Runs, Harness(r) \/ GoesStale(r) PROVE HarnessMoves
  <2>1. top[r] + 1 \in Nat  BY DEF TypeOK
  <2>2. CASE Register(r)
    <3>1. /\ held[r] = "starting" /\ held' = [held EXCEPT ![r] = "live"]
          /\ wire' = Append(wire, Event(r, top[r] + 1, "run_started"))
      BY <2>2 DEF Register, Emits
    <3> QED  BY <2>1, <3>1 DEF HarnessMoves
  <2>3. CASE End(r)
    <3>1. held[r] = "live" /\ held' = [held EXCEPT ![r] = "ended"]  BY <2>3 DEF End
    <3>2. \E type \in Ends : wire' = Append(wire, Event(r, top[r] + 1, type))
      BY <2>3 DEF End, Emits, Ends
    <3> QED  BY <2>1, <3>1, <3>2 DEF HarnessMoves
  <2>4. CASE StartFails(r)  BY <2>4 DEF StartFails, HarnessMoves
  <2>5. CASE Edit(r) \/ Heartbeat(r) \/ GoesStale(r)
    <3>1. UNCHANGED <<held, wire>>  BY <2>5 DEF Edit, Heartbeat, GoesStale, harnessVars
    <3> QED  BY <3>1 DEF HarnessMoves
  <2> QED  BY <1>6, <2>2, <2>3, <2>4, <2>5 DEF Harness
<1>7. CASE Crash
  <2> DEFINE live == {r \in Runs : held[r] = "live"}
  <2>1. held' = [r \in Runs |-> CASE r \in live -> "lost"
                                  [] held[r] = "starting" -> "no"
                                  [] OTHER -> held[r]]
    BY <1>7 DEF Crash
  <2>2. PICK order \in [1 .. Cardinality(live) -> live] :
          wire' = [i \in DOMAIN order |-> Event(order[i], top'[order[i]], "recovery_applied")]
    BY <1>7 DEF Crash
  <2>3. \A i \in DOMAIN wire' : wire'[i].type \notin Ends /\ held[wire'[i].run] = "live"
    BY <2>2 DEF Event, Ends
  <2>4. \A r \in Runs : /\ held'[r] = "ended" <=> held[r] = "ended"
                        /\ held[r] = "no" => held'[r] = "no"
    BY <2>1 DEF TypeOK
  <2> QED  BY <2>3, <2>4 DEF HarnessMoves
<1>8. CASE PostFails  BY <1>8 DEF PostFails, HarnessMoves
<1> QED
  BY <1>1, <1>2, <1>3, <1>4, <1>5, <1>6, <1>7, <1>8 DEF Next, Sweep

\* The wire before and after an event more.
LEMMA WireGrows ==
  ASSUME TypeOK, NEW e, e \in Wired, wire' = Append(wire, e)
  PROVE  \A i \in DOMAIN wire' : \/ i \in DOMAIN wire /\ wire'[i] = wire[i] /\ i < Len(wire) + 1
                                 \/ i = Len(wire) + 1 /\ wire'[i] = e
<1>1. wire \in Seq(Wired)  BY DEF TypeOK
<1>2. /\ Len(wire) \in Nat /\ DOMAIN wire = 1 .. Len(wire)
      /\ DOMAIN wire' = 1 .. Len(wire) + 1
      /\ \A i \in 1 .. Len(wire) : wire'[i] = wire[i]
      /\ wire'[Len(wire) + 1] = e
  BY <1>1, AppendProperties, LenProperties
<1> QED  BY <1>2

LEMMA WireShrinks ==
  ASSUME TypeOK, wire # <<>>, wire' = Tail(wire)
  PROVE  /\ 1 \in DOMAIN wire /\ Head(wire) = wire[1] /\ Head(wire) \in Wired
         /\ \A i \in DOMAIN wire' :
              i \in Nat /\ i + 1 \in DOMAIN wire /\ wire'[i] = wire[i + 1] /\ 1 < i + 1
<1>1. wire \in Seq(Wired)  BY DEF TypeOK
<1>2. /\ Len(wire) \in Nat \ {0} /\ DOMAIN wire = 1 .. Len(wire) /\ wire' \in Seq(Wired)
      /\ Len(wire') = Len(wire) - 1 /\ Head(wire) = wire[1] /\ Head(wire) \in Wired
      /\ \A i \in 1 .. Len(wire') : wire'[i] = wire[i + 1]
  BY <1>1, HeadTailProperties, LenProperties, EmptySeq
<1>3. DOMAIN wire' = 1 .. Len(wire')  BY <1>2, LenProperties
<1> QED  BY <1>2, <1>3

\* The harness's last word stays the last one.
LEMMA WireStep ==
  ASSUME TypeOK, TypeOK', Wire, Posts, HarnessMoves
  PROVE  Wire' /\ \A r \in Runs : Over(r) => Over(r)'
<1>0. /\ held \in [Runs -> {"no", "starting", "live", "ended", "lost"}]
      /\ \A i \in DOMAIN wire : wire[i] \in Wired /\ wire[i].run \in Runs
  <2>1. \A i \in DOMAIN wire : wire[i] \in Wired
    BY LenProperties, ElementOfSeq DEF TypeOK
  <2> QED  BY <2>1 DEF TypeOK, Wired
<1>1. CASE UNCHANGED <<held, wire>>  BY <1>1 DEF Wire, Over
<1>2. ASSUME NEW r \in Runs, held[r] # "ended", NEW h, h # "ended",
             held' = [held EXCEPT ![r] = h], wire' = wire
      PROVE  Wire' /\ \A q \in Runs : Over(q) => Over(q)'
  <2>1. \A q \in Runs : held[q] = "ended" => held'[q] = "ended"  BY <1>0, <1>2
  <2> QED  BY <1>0, <1>2, <2>1 DEF Wire, Over
<1>3. ASSUME NEW r \in Runs, NEW n \in Nat, NEW type \in Reports, NEW h,
             held[r] # "ended", held' = [held EXCEPT ![r] = h],
             wire' = Append(wire, Event(r, n, type)), type \in Ends => h = "ended"
      PROVE  Wire' /\ \A q \in Runs : Over(q) => Over(q)'
  <2>1. Event(r, n, type) \in Wired /\ Event(r, n, type).run = r /\ Event(r, n, type).type = type
    BY DEF Event, Wired
  <2>2. \A i \in DOMAIN wire' : \/ i \in DOMAIN wire /\ wire'[i] = wire[i] /\ i < Len(wire) + 1
                                \/ i = Len(wire) + 1 /\ wire'[i] = Event(r, n, type)
    BY <1>3, <2>1, WireGrows
  <2>3. \A q \in Runs : held[q] = "ended" => held'[q] = "ended" /\ q # r  BY <1>0, <1>3
  <2>4. held'[r] = h  BY <1>0, <1>3
  <2>5. Wire'
    <3> SUFFICES ASSUME NEW i \in DOMAIN wire', wire'[i].type \in Ends
                 PROVE  /\ held'[wire'[i].run] = "ended"
                        /\ \A j \in DOMAIN wire' : i < j => wire'[j].run # wire'[i].run
      BY DEF Wire
    <3>1. CASE i \in DOMAIN wire /\ wire'[i] = wire[i]
      <4>1. held[wire[i].run] = "ended" /\ \A j \in DOMAIN wire : i < j => wire[j].run # wire[i].run
        BY <3>1 DEF Wire
      <4>2. held'[wire[i].run] = "ended" /\ wire[i].run # r  BY <1>0, <2>3, <3>1, <4>1
      <4> QED  BY <2>1, <2>2, <3>1, <4>1, <4>2
    <3>2. CASE i = Len(wire) + 1 /\ wire'[i] = Event(r, n, type)
      <4>1. \A j \in DOMAIN wire' : ~ (i < j)
        <5>1. Len(wire) \in Nat  BY LenProperties DEF TypeOK
        <5>2. \A j \in DOMAIN wire' : j \in Nat  BY LenProperties DEF TypeOK
        <5> QED  BY <2>2, <3>2, <5>1, <5>2
      <4> QED  BY <1>3, <2>1, <2>4, <3>2, <4>1
    <3> QED  BY <2>2, <3>1, <3>2
  <2>6. \A q \in Runs : Over(q) => Over(q)'  BY <2>1, <2>2, <2>3 DEF Over
  <2> QED  BY <2>5, <2>6
<1>4. CASE held' = held /\ wire # <<>> /\ wire' = Tail(wire)
  <2>1. \A i \in DOMAIN wire' :
          i \in Nat /\ i + 1 \in DOMAIN wire /\ wire'[i] = wire[i + 1] /\ 1 < i + 1
    BY <1>4, WireShrinks
  <2>2. \A i, j \in DOMAIN wire' : i < j => i + 1 < j + 1  BY <2>1
  <2>3. Wire'  BY <1>4, <2>1, <2>2 DEF Wire
  <2> QED  BY <1>4, <2>1, <2>3 DEF Over
<1>5. CASE /\ \A r \in Runs : /\ held'[r] = "ended" <=> held[r] = "ended"
                              /\ held[r] = "no" => held'[r] = "no"
           /\ \A i \in DOMAIN wire' : wire'[i].type \notin Ends /\ held[wire'[i].run] = "live"
  BY <1>5 DEF Wire, Over
<1>6. \A w \in Workers : Posting(w) => work[w].run \in Runs /\ held[work[w].run] = "no"
  BY DEF Posts, Posting, TypeOK, Proper
<1>7. CASE \E w \in Workers : /\ Posting(w) /\ wire' = wire
                             /\ held' = [held EXCEPT ![work[w].run] = "starting"]
  <2>1. PICK w \in Workers : /\ Posting(w) /\ wire' = wire
                            /\ held' = [held EXCEPT ![work[w].run] = "starting"]
    BY <1>7
  <2>2. work[w].run \in Runs /\ held[work[w].run] # "ended"  BY <1>6, <2>1
  <2> QED  BY <1>2, <2>1, <2>2
<1>8. CASE \E r \in Runs : held[r] = "starting" /\ held' = [held EXCEPT ![r] = "no"] /\ wire' = wire
  BY <1>2, <1>8
<1>9. CASE \E r \in Runs, n \in Nat :
             /\ held[r] = "starting" /\ held' = [held EXCEPT ![r] = "live"]
             /\ wire' = Append(wire, Event(r, n, "run_started"))
  <2>1. "run_started" \in Reports /\ "run_started" \notin Ends  BY DEF Reports, Ends
  <2>2. PICK r \in Runs, n \in Nat :
          /\ held[r] = "starting" /\ held' = [held EXCEPT ![r] = "live"]
          /\ wire' = Append(wire, Event(r, n, "run_started"))
    BY <1>9
  <2> QED  BY <1>3, <2>1, <2>2
<1>10. CASE \E r \in Runs, n \in Nat, type \in Ends :
              /\ held[r] = "live" /\ held' = [held EXCEPT ![r] = "ended"]
              /\ wire' = Append(wire, Event(r, n, type))
  <2>1. Ends \subseteq Reports  BY DEF Reports
  <2>2. PICK r \in Runs, n \in Nat, type \in Ends :
          /\ held[r] = "live" /\ held' = [held EXCEPT ![r] = "ended"]
          /\ wire' = Append(wire, Event(r, n, type))
    BY <1>10
  <2> QED  BY <1>3, <2>1, <2>2
<1> QED
  BY <1>1, <1>4, <1>5, <1>7, <1>8, <1>9, <1>10 DEF HarnessMoves

-----------------------------------------------------------------------------
(* What a step does to Rails.                                              *)

Plain(job) == \/ job.op \in {"idle", "sweep", "reconcile", "archive"}
              \/ job.op = "start" /\ job.at # "post"
              \/ job.op = "interrupt" /\ job.at = "ask"

Alone(w) == \A v \in Workers : v # w => work'[v] = work[v]

\* The thread that ends with what follows from its event, or from its decision.
Settler(w, r)  == /\ work[w].op \in {"ingest", "interrupt"} /\ work[w].at # "ask" /\ work[w].run = r
                  /\ work'[w] = Idle
Recorder(w, r) == /\ Decides(w, r) /\ work[w].at = "record" /\ work[w].saw = "awaiting_review"
                  /\ work'[w] = Idle

\* What the database has seen, it has seen, and so has the harness.
Steady ==
  /\ \A r \in Runs : /\ status[r] = "destroyed" => status'[r] = "destroyed"
                     /\ status[r] # "unborn" => status'[r] # "unborn"
  /\ shared \subseteq shared'
  /\ \A row \in rows : row \in rows' \/ status'[row.run] = "destroyed"

\* How a run gets its status.
Move(r) ==
  \/ status[r] = "unborn" /\ status'[r] = "queued"
  \/ status'[r] = "destroyed" /\ held[r] # "ended"
  \/ /\ status'[r] = "superseded" /\ r \in shared'
     /\ \E w \in Workers : work[w].run = r /\ work[w].saw \in Active
  \/ status[r] \in Restorable /\ status'[r] = "running"
  \/ \E w \in Workers :
       /\ Settler(w, r) /\ status[r] \in Statuses
       /\ \/ status'[r] = "running"
          \/ status'[r] = "failed" /\ work[w].at = "run_failed"
          \/ status'[r] = "completed_clean" /\ work[w].at \in {"run_finished", "run_interrupted"}
          \/ /\ status'[r] = "awaiting_review" /\ work[w].at \in Ends
             /\ \E n \in Nat : Event(r, n, "changeset_ready") \in rows'
  \/ \E w \in Workers :
       /\ Recorder(w, r) /\ status'[r] = Verdict[work[w].op]
       /\ \E n \in Nat : Event(r, n, Decision[work[w].op]) \in rows'
  \/ /\ status'[r] = "failed" /\ Event(r, 0, "run_failed") \in rows'
     /\ \/ status[r] \in Sweepable
        \/ \E w \in Workers : work[w].run = r /\ work[w].saw \in Sweepable
Moved == \A r \in Runs : status'[r] # status[r] => Move(r)

\* Where a row comes from.
RowsMove ==
  \A row \in rows' \ rows :
    \/ row.seq = 0
    \/ wire # <<>> /\ row = Head(wire)
    \/ \E w \in Workers : Settler(w, row.run) \/ Recorder(w, row.run)

\* How a thread gets its job.
JobMove(w) ==
  \/ work'[w] = work[w]
  \/ /\ Plain(work'[w])
     /\ \A r \in Runs : Approves(w, r) => r \in shared' \/ Record(w)
  \/ /\ work[w].op = "start" /\ work'[w].op = "start" /\ Alone(w) /\ held' = held
     /\ \E r \in Runs : /\ status[r] = "unborn" /\ status'[r] # "unborn" /\ work'[w].run = r
  \/ /\ work'[w].op = "ingest" /\ Alone(w) /\ \A v \in Workers : work[v].op # "ingest"
     /\ work[w] = Idle /\ wire # <<>> /\ wire' = Tail(wire) /\ UNCHANGED <<status, held>>
     /\ work'[w].run = Head(wire).run /\ work'[w].at = Head(wire).type /\ Head(wire) \in rows'
  \/ /\ work'[w].op = "interrupt" /\ work'[w].at = "run_interrupted" /\ work[w].op = "interrupt"
     /\ Event(work'[w].run, 0, "run_interrupted") \in rows'
  \/ /\ work'[w].op \in DOMAIN Verdict /\ work'[w].at = "git" /\ Alone(w) /\ work[w] = Idle
     /\ UNCHANGED <<status, rows>> /\ status[work'[w].run] = "awaiting_review"
     /\ Deciding # {} => Deciding \cup {work'[w].run} \subseteq shared'
  \/ /\ work[w].op \in DOMAIN Verdict /\ work[w].at = "git"
     /\ work'[w] = [work[w] EXCEPT !.at = "pick"] /\ Alone(w)
  \/ /\ work[w].op \in DOMAIN Verdict /\ work[w].at = "pick" /\ rows' = rows /\ Alone(w)
     /\ work'[w] = [work[w] EXCEPT !.at = "record", !.seq = NextSeq(rows, work[w].run)]
JobsMove == \A w \in Workers : JobMove(w)

TreeMove ==
  \A r \in tree'.kept : r \in tree.kept \/ r \in shared' \/ \E w \in Workers : Approves(w, r)'

RailsMoves == Steady /\ Moved /\ RowsMove /\ JobsMove /\ TreeMove

LEMMA QuietIs ==
  ASSUME UNCHANGED <<status, rows>>, shared \subseteq shared'
  PROVE  Steady /\ Moved /\ RowsMove
BY DEF Steady, Moved, RowsMove

LEMMA GoesTo ==
  ASSUME TypeOK, NEW w \in Workers, NEW job, Goes(w, job)
  PROVE  work'[w] = job /\ Alone(w)
BY DEF TypeOK, Goes, Alone

LEMMA OthersStay ==
  ASSUME NEW w \in Workers, Alone(w), JobMove(w)
  PROVE  JobsMove
<1>1. ASSUME NEW v \in Workers, v # w PROVE JobMove(v)  BY <1>1 DEF JobMove, Alone
<1> QED  BY <1>1 DEF JobsMove

\* A thread with a plain job now.
LEMMA PlainJob ==
  ASSUME TypeOK, NEW w \in Workers, NEW job, Goes(w, job), Plain(job),
         work[w].op \notin DOMAIN Verdict \/ work[w].at = "git" \/ Record(w)
  PROVE  JobsMove
<1>1. work'[w] = job /\ Alone(w)  BY GoesTo
<1>2. \A r \in Runs : Approves(w, r) => Record(w)  BY VerdictIs DEF Approves
<1>3. JobMove(w)  BY <1>1, <1>2 DEF JobMove
<1> QED  BY <1>1, <1>3, OthersStay

LEMMA IdleIsPlain == Plain(Idle)
BY DEF Plain, Idle, Job

\* One run gets a status, and no row is lost.
LEMMA OneMove ==
  ASSUME TypeOK, NEW r \in Runs, status[r] \in Statuses \cup {"unborn"}, NEW s \in Statuses, Sets(r, s),
         rows \subseteq rows', shared \subseteq shared', Move(r)
  PROVE  Steady /\ Moved
<1>1. status'[r] = s /\ \A q \in Runs : q # r => status'[q] = status[q]  BY StatusSet
<1>2. "unborn" \notin Statuses /\ "destroyed" \notin Statuses  BY StatusesAre
<1>3. Steady  BY <1>1, <1>2 DEF Steady
<1>4. Moved  BY <1>1 DEF Moved
<1> QED  BY <1>3, <1>4

LEMMA SettleMoves ==
  ASSUME TypeOK, NEW w \in Workers,
         SettleStarted(w) \/ SettleFailed(w) \/ SettleClean(w) \/ SettleReview(w) \/ SettleNothing(w)
  PROVE  RailsMoves
<1> DEFINE r == work[w].run
<1>1. /\ Done(w) /\ work[w].op \in {"ingest", "interrupt"} /\ work[w].at \in Reports /\ r \in Runs
      /\ tree' = tree /\ shared' = shared
      /\ \/ UNCHANGED <<status, rows>>
         \/ /\ r \in Known /\ rows' = rows
            /\ \/ Sets(r, "running")
               \/ Sets(r, "failed") /\ work[w].at = "run_failed"
               \/ Sets(r, "completed_clean") /\ work[w].at \in {"run_finished", "run_interrupted"}
         \/ /\ r \in Known /\ work[w].at \in {"run_finished", "run_interrupted"}
            /\ Appends(r, "awaiting_review", Event(r, work[w].seq, "changeset_ready"))
  BY Settles
<1>2. work[w].at # "ask"  BY <1>1 DEF Reports, Ends
<1>3. work'[w] = Idle  BY <1>1, GoesTo DEF Done
<1>4. Settler(w, r)  BY <1>1, <1>2, <1>3 DEF Settler
<1>5. JobsMove  BY <1>1, PlainJob, IdleIsPlain, VerdictIs DEF Done
<1>6. TreeMove  BY <1>1 DEF TreeMove
<1>7. work[w].seq \in Nat  BY DEF TypeOK, Jobs
<1> HIDE DEF r
<1>8. CASE UNCHANGED <<status, rows>>  BY <1>1, <1>5, <1>6, <1>8, QuietIs DEF RailsMoves
<1>9. CASE /\ r \in Known /\ rows' = rows
           /\ \/ Sets(r, "running")
              \/ Sets(r, "failed") /\ work[w].at = "run_failed"
              \/ Sets(r, "completed_clean") /\ work[w].at \in {"run_finished", "run_interrupted"}
  <2>1. status[r] \in Statuses  BY <1>9 DEF Known
  <2>2. PICK s \in {"running", "failed", "completed_clean"} :
          /\ Sets(r, s)
          /\ s = "failed" => work[w].at = "run_failed"
          /\ s = "completed_clean" => work[w].at \in {"run_finished", "run_interrupted"}
    BY <1>9
  <2>3. s \in Statuses  BY StatusNames
  <2>4. status'[r] = s  BY <1>1, <2>2, <2>3, StatusSet
  <2>5. Move(r)  BY <1>4, <2>1, <2>2, <2>4 DEF Move
  <2>6. Steady /\ Moved  BY <1>1, <1>9, <2>1, <2>2, <2>3, <2>5, OneMove
  <2>7. RowsMove  BY <1>9 DEF RowsMove
  <2> QED  BY <1>5, <1>6, <2>6, <2>7 DEF RailsMoves
<1>10. CASE /\ r \in Known /\ work[w].at \in {"run_finished", "run_interrupted"}
            /\ Appends(r, "awaiting_review", Event(r, work[w].seq, "changeset_ready"))
  <2>1. status[r] \in Statuses  BY <1>10 DEF Known
  <2>2. /\ Sets(r, "awaiting_review")
        /\ rows' = rows \cup {Event(r, work[w].seq, "changeset_ready")}
    BY <1>10 DEF Appends
  <2>3. status'[r] = "awaiting_review"  BY <1>1, <2>2, StatusSet, StatusNames
  <2>4. work[w].at \in Ends  BY <1>10 DEF Ends
  <2>5. Event(r, work[w].seq, "changeset_ready") \in rows'  BY <2>2
  <2>6. Move(r)  BY <1>4, <1>7, <2>1, <2>3, <2>4, <2>5 DEF Move
  <2>7. Steady /\ Moved  BY <1>1, <2>1, <2>2, <2>6, OneMove, StatusNames
  <2>8. RowsMove  BY <1>4, <2>2 DEF RowsMove, Event
  <2> QED  BY <1>5, <1>6, <2>7, <2>8 DEF RailsMoves
<1> QED  BY <1>1, <1>8, <1>9, <1>10


LEMMA RecordMoves ==
  ASSUME TypeOK, NEW w \in Workers, Record(w)
  PROVE  RailsMoves
<1> DEFINE r == work[w].run
           e == Event(r, work[w].seq, Decision[work[w].op])
<1>1. /\ Decides(w, r) /\ work[w].at = "record" /\ r \in Runs /\ work[w].saw = "awaiting_review"
      /\ tree' = tree /\ shared' = shared /\ Done(w)
      /\ \/ Appends(r, Verdict[work[w].op], e) /\ r \in Known
         \/ UNCHANGED <<status, rows>>
  BY RecordIs DEF Decides
<1>2. Recorder(w, r)  BY <1>1, GoesTo DEF Recorder, Done
<1>3. JobsMove  BY <1>1, PlainJob, IdleIsPlain DEF Done
<1>4. TreeMove  BY <1>1 DEF TreeMove
<1>5. work[w].seq \in Nat /\ Verdict[work[w].op] \in Statuses
  BY <1>1, StatusNames DEF TypeOK, Jobs, Decides
<1>6. CASE UNCHANGED <<status, rows>>  BY <1>1, <1>3, <1>4, <1>6, QuietIs DEF RailsMoves
<1>7. CASE Appends(r, Verdict[work[w].op], e) /\ r \in Known
  <2>1. status[r] \in Statuses  BY <1>7 DEF Known
  <2>2. Sets(r, Verdict[work[w].op]) /\ rows' = rows \cup {e}  BY <1>7 DEF Appends
  <2>3. status'[r] = Verdict[work[w].op]  BY <1>1, <1>5, <2>2, StatusSet
  <2>4. Move(r)
    <3>1. \E n \in Nat : Event(r, n, Decision[work[w].op]) \in rows'  BY <1>5, <2>2
    <3> QED  BY <1>2, <2>3, <3>1 DEF Move
  <2>5. Steady /\ Moved  BY <1>1, <1>5, <2>1, <2>2, <2>4, OneMove
  <2>6. RowsMove  BY <1>2, <2>2 DEF RowsMove, Event
  <2> QED  BY <1>3, <1>4, <2>5, <2>6 DEF RailsMoves
<1> QED  BY <1>1, <1>6, <1>7

LEMMA DestroyMoves ==
  ASSUME TypeOK, Posts, NEW w \in Workers, Post(w) \/ Answered(w)
  PROVE  RailsMoves
<1> DEFINE r == work[w].run
<1>1. /\ work[w].op = "start" /\ work[w].at \in {"post", "wait"} /\ r \in Runs
      /\ tree' = tree /\ shared' = shared
      /\ \/ Destroy(r) /\ Done(w) /\ work[w].at = "post"
         \/ Destroy(r) /\ Done(w) /\ held[r] # "ended"
         \/ UNCHANGED <<status, rows>> /\ Done(w)
         \/ UNCHANGED <<status, rows>> /\ Goes(w, Job("start", "wait", r))
  BY Destroys
<1>2. work[w].at = "post" => held[r] # "ended"  BY <1>1 DEF Posts, Posting
<1>3. JobsMove
  <2>1. Plain(Job("start", "wait", r))  BY DEF Plain, Job
  <2> QED  BY <1>1, <2>1, PlainJob, IdleIsPlain, VerdictIs DEF Done
<1>4. TreeMove  BY <1>1 DEF TreeMove
<1>5. CASE UNCHANGED <<status, rows>>  BY <1>1, <1>3, <1>4, <1>5, QuietIs DEF RailsMoves
<1>6. CASE Destroy(r) /\ held[r] # "ended"
  <2>1. /\ status'[r] = "destroyed" /\ \A q \in Runs : q # r => status'[q] = status[q]
        /\ rows' = {row \in rows : row.run # r}
    <3>1. Sets(r, "destroyed") /\ rows' = {row \in rows : row.run # r}  BY <1>6 DEF Destroy
    <3> QED  BY <1>1, <3>1, StatusSet
  <2>2. Steady  BY <1>1, <2>1 DEF Steady
  <2>3. Moved  BY <1>6, <2>1 DEF Moved, Move
  <2>4. RowsMove  BY <2>1 DEF RowsMove
  <2> QED  BY <1>3, <1>4, <2>2, <2>3, <2>4 DEF RailsMoves
<1> QED  BY <1>1, <1>2, <1>5, <1>6

LEMMA GitMoves ==
  ASSUME TypeOK, NEW w \in Workers, Git(w)
  PROVE  RailsMoves
<1>1. /\ work[w].op \in DOMAIN Verdict /\ work[w].at = "git" /\ work[w].run \in Runs
      /\ UNCHANGED <<status, rows>> /\ shared \subseteq shared'
      /\ \/ Done(w) /\ tree' = tree
         \/ /\ Goes(w, [work[w] EXCEPT !.at = "pick"])
            /\ tree.dirty \subseteq shared' \cup {work[w].run}
            /\ tree'.kept = IF work[w].op = "approve" THEN tree.kept \cup tree.dirty ELSE tree.kept
  BY GitIs DEF railsVars
<1>2. Steady /\ Moved /\ RowsMove  BY <1>1, QuietIs
<1>3. CASE Done(w) /\ tree' = tree
  <2>1. JobsMove  BY <1>1, <1>3, PlainJob, IdleIsPlain DEF Done
  <2> QED  BY <1>2, <1>3, <2>1 DEF RailsMoves, TreeMove
<1>4. CASE /\ Goes(w, [work[w] EXCEPT !.at = "pick"])
           /\ tree.dirty \subseteq shared' \cup {work[w].run}
           /\ tree'.kept = IF work[w].op = "approve" THEN tree.kept \cup tree.dirty ELSE tree.kept
  <2>1. work'[w] = [work[w] EXCEPT !.at = "pick"] /\ Alone(w)  BY <1>4, GoesTo
  <2>2. JobMove(w)  BY <1>1, <2>1 DEF JobMove
  <2>3. JobsMove  BY <2>1, <2>2, OthersStay
  <2>4. ASSUME work[w].op = "approve", NEW r, r = work[w].run PROVE Approves(w, r)'
    <3>1. work[w] \in Jobs  BY DEF TypeOK
    <3>2. work'[w].op = work[w].op /\ work'[w].at = "pick" /\ work'[w].run = work[w].run
      BY <2>1, <3>1 DEF Jobs
    <3> QED  BY <2>4, <3>2 DEF Approves
  <2>5. TreeMove  BY <1>4, <2>4 DEF TreeMove
  <2> QED  BY <1>2, <2>3, <2>5 DEF RailsMoves
<1> QED  BY <1>1, <1>3, <1>4


LEMMA RequestMoves ==
  ASSUME TypeOK, NEW w \in Workers, Request(w) \/ \E r \in Runs : SweepLook(w, r)
  PROVE  RailsMoves
<1>1. /\ UNCHANGED <<status, rows>> /\ shared \subseteq shared' /\ tree'.kept = tree.kept
      /\ \/ work' = work
         \/ \E job \in Jobs :
              /\ Proper(job) /\ Goes(w, job) /\ work[w] = Idle
              /\ \/ Plain(job)
                 \/ /\ job.op \in DOMAIN Verdict /\ job.at = "git"
                    /\ status[job.run] = "awaiting_review"
                    /\ Deciding # {} => Deciding \cup {job.run} \subseteq shared'
  BY Requests DEF Frame, Plain
<1>2. Steady /\ Moved /\ RowsMove  BY <1>1, QuietIs
<1>3. TreeMove  BY <1>1 DEF TreeMove
<1>4. CASE work' = work  BY <1>2, <1>3, <1>4 DEF RailsMoves, JobsMove, JobMove
<1>5. ASSUME NEW job, Goes(w, job), work[w] = Idle, Plain(job) PROVE JobsMove
  <2>1. work[w].op \notin DOMAIN Verdict  BY <1>5, VerdictIs DEF Idle, Job
  <2> QED  BY <1>5, <2>1, PlainJob
<1>6. ASSUME NEW job, Goes(w, job), work[w] = Idle, job.op \in DOMAIN Verdict, job.at = "git",
             status[job.run] = "awaiting_review",
             Deciding # {} => Deciding \cup {job.run} \subseteq shared'
      PROVE  JobsMove
  <2>1. work'[w] = job /\ Alone(w)  BY <1>6, GoesTo
  <2>2. JobMove(w)  BY <1>1, <1>6, <2>1 DEF JobMove
  <2> QED  BY <2>1, <2>2, OthersStay
<1> QED  BY <1>1, <1>2, <1>3, <1>4, <1>5, <1>6 DEF RailsMoves

LEMMA StartMoves ==
  ASSUME TypeOK, NEW w \in Workers, Supersede(w) \/ Create(w)
  PROVE  RailsMoves
<1>1. CASE Supersede(w)
  <2> DEFINE r == work[w].run
  <2>1. /\ work[w].op = "start" /\ r \in Runs /\ work[w].saw \in Active
        /\ Goes(w, Job("start", "create", 0))
        /\ \/ status' = status
           \/ r \in Known /\ Sets(r, "superseded")
        /\ r \in shared' /\ shared \subseteq shared' /\ rows' = rows /\ tree' = tree
    BY <1>1, SupersedeIs
  <2>2. Plain(Job("start", "create", 0))  BY DEF Plain, Job
  <2>3. JobsMove  BY <2>1, <2>2, PlainJob, VerdictIs
  <2>4. TreeMove  BY <2>1 DEF TreeMove
  <2>5. RowsMove  BY <2>1 DEF RowsMove
  <2>6. CASE status' = status  BY <2>1, <2>3, <2>4, <2>6, QuietIs DEF RailsMoves
  <2>7. CASE r \in Known /\ Sets(r, "superseded")
    <3>1. status[r] \in Statuses  BY <2>7 DEF Known
    <3>2. status'[r] = "superseded"  BY <2>1, <2>7, StatusSet, StatusNames
    <3>3. Move(r)
      <4>1. \E v \in Workers : work[v].run = r /\ work[v].saw \in Active  BY <2>1
      <4> QED  BY <2>1, <3>2, <4>1 DEF Move
    <3>4. Steady /\ Moved  BY <2>1, <2>7, <3>1, <3>3, OneMove, StatusNames
    <3> QED  BY <2>3, <2>4, <2>5, <3>4 DEF RailsMoves
  <2> QED  BY <2>1, <2>6, <2>7
<1>2. CASE Create(w)
  <2>1. /\ rows' = rows /\ tree' = tree /\ shared' = shared /\ held' = held /\ work[w].op = "start"
        /\ \/ Done(w) /\ status' = status
           \/ \E r \in Runs : /\ status[r] = "unborn" /\ Sets(r, "queued")
                              /\ Goes(w, Job("start", "post", r))
    BY <1>2, CreateIs DEF harnessVars
  <2>2. TreeMove /\ RowsMove  BY <2>1 DEF TreeMove, RowsMove
  <2>3. CASE Done(w) /\ status' = status
    <3>1. JobsMove  BY <2>1, <2>3, PlainJob, IdleIsPlain, VerdictIs DEF Done
    <3> QED  BY <2>1, <2>2, <2>3, <3>1, QuietIs DEF RailsMoves
  <2>4. ASSUME NEW r \in Runs, status[r] = "unborn", Sets(r, "queued"), Goes(w, Job("start", "post", r))
        PROVE  RailsMoves
    <3>1. status'[r] = "queued"  BY <2>4, StatusSet, StatusNames
    <3>2. Move(r)  BY <2>4, <3>1 DEF Move
    <3>3. Steady /\ Moved  BY <2>1, <2>4, <3>2, OneMove, StatusNames
    <3>4. work'[w].op = "start" /\ work'[w].run = r /\ Alone(w)  BY <2>4, GoesTo DEF Job
    <3>5. JobMove(w)  BY <2>1, <2>4, <3>1, <3>4 DEF JobMove
    <3>6. JobsMove  BY <3>4, <3>5, OthersStay
    <3> QED  BY <2>2, <3>3, <3>6 DEF RailsMoves
  <2> QED  BY <2>1, <2>3, <2>4
<1> QED  BY <1>1, <1>2

\* A thread that sweeps, or picks a seq.
LEMMA OtherMoves ==
  ASSUME TypeOK, Boots, NEW w \in Workers,
         PickSeq(w) \/ SweepFail(w) \/ Reconcile(w) \/ Restore(w) \/ RemoveTree(w)
  PROVE  RailsMoves
<1>1. CASE PickSeq(w)
  <2>1. /\ work[w].op \in DOMAIN Verdict /\ work[w].at = "pick"
        /\ Goes(w, [work[w] EXCEPT !.at = "record", !.seq = NextSeq(rows, work[w].run)])
        /\ UNCHANGED <<status, rows, tree, shared>>
    BY <1>1 DEF PickSeq, railsVars
  <2>2. work'[w] = [work[w] EXCEPT !.at = "record", !.seq = NextSeq(rows, work[w].run)] /\ Alone(w)
    BY <2>1, GoesTo
  <2>3. JobMove(w)  BY <2>1, <2>2 DEF JobMove
  <2>4. JobsMove  BY <2>2, <2>3, OthersStay
  <2>5. TreeMove  BY <2>1 DEF TreeMove
  <2>6. shared \subseteq shared'  BY <2>1
  <2> QED  BY <2>1, <2>4, <2>5, <2>6, QuietIs DEF RailsMoves
<1>2. CASE SweepFail(w)
  <2> DEFINE r == work[w].run
  <2>1. /\ work[w].op = "sweep" /\ r \in Runs /\ work[w].saw \in Sweepable
        /\ tree' = tree /\ shared' = shared /\ Done(w)
        /\ \/ UNCHANGED <<status, rows>>
           \/ r \in Known /\ Appends(r, "failed", Event(r, 0, "run_failed"))
    BY <1>2, SweepFailIs
  <2>2. JobsMove  BY <2>1, PlainJob, IdleIsPlain, VerdictIs DEF Done
  <2>3. TreeMove  BY <2>1 DEF TreeMove
  <2>4. CASE UNCHANGED <<status, rows>>  BY <2>1, <2>2, <2>3, <2>4, QuietIs DEF RailsMoves
  <2>5. CASE r \in Known /\ Appends(r, "failed", Event(r, 0, "run_failed"))
    <3>1. /\ status[r] \in Statuses /\ Sets(r, "failed")
          /\ rows' = rows \cup {Event(r, 0, "run_failed")}
      BY <2>5 DEF Known, Appends
    <3>2. status'[r] = "failed"  BY <2>1, <3>1, StatusSet, StatusNames
    <3>3. Move(r)
      <4>1. \E v \in Workers : work[v].run = r /\ work[v].saw \in Sweepable  BY <2>1
      <4>2. Event(r, 0, "run_failed") \in rows'  BY <3>1
      <4> QED  BY <3>2, <4>1, <4>2 DEF Move
    <3>4. Steady /\ Moved  BY <2>1, <3>1, <3>3, OneMove, StatusNames
    <3>5. RowsMove  BY <3>1 DEF RowsMove, Event
    <3> QED  BY <2>2, <2>3, <3>4, <3>5 DEF RailsMoves
  <2> QED  BY <2>1, <2>4, <2>5
<1>3. CASE Reconcile(w)
  <2>1. /\ work[w].op = "reconcile" /\ tree' = tree /\ shared' = shared
        /\ \E job : Goes(w, job) /\ job.op = "reconcile"
        /\ rows \subseteq rows'
        /\ \A row \in rows' \ rows : \E r \in Runs : row = Event(r, 0, "run_failed")
        /\ \A r \in Runs : status'[r] # status[r] =>
             status[r] \in Sweepable /\ status'[r] = "failed" /\ Event(r, 0, "run_failed") \in rows'
    BY <1>3, ReconcileIs
  <2>2. JobsMove  BY <2>1, PlainJob, VerdictIs DEF Plain
  <2>3. TreeMove  BY <2>1 DEF TreeMove
  <2>4. RowsMove  BY <2>1 DEF RowsMove, Event
  <2>5. Moved  BY <2>1 DEF Moved, Move
  <2>6. Steady  BY <2>1, StatusesAre DEF Steady
  <2> QED  BY <2>2, <2>3, <2>4, <2>5, <2>6 DEF RailsMoves
<1>5. CASE Restore(w)
  <2>1. /\ work[w].op = "reconcile" /\ tree' = tree /\ shared' = shared /\ rows' = rows
        /\ \/ Done(w) /\ status' = status
           \/ /\ \E job : Goes(w, job) /\ job.op = "reconcile"
              /\ \E r \in Runs : status[r] \in Restorable /\ Sets(r, "running")
    BY <1>5, RestoreIs
  <2>2. TreeMove  BY <2>1 DEF TreeMove
  <2>3. CASE Done(w) /\ status' = status
    <3>1. JobsMove  BY <2>1, <2>3, PlainJob, IdleIsPlain, VerdictIs DEF Done
    <3> QED  BY <2>1, <2>2, <2>3, <3>1, QuietIs DEF RailsMoves
  <2>4. CASE /\ \E job : Goes(w, job) /\ job.op = "reconcile"
             /\ \E r \in Runs : status[r] \in Restorable /\ Sets(r, "running")
    <3>1. JobsMove  BY <2>1, <2>4, PlainJob, VerdictIs DEF Plain
    <3>2. PICK r \in Runs : status[r] \in Restorable /\ Sets(r, "running")  BY <2>4
    <3>3. status[r] \in Statuses /\ "running" \in Statuses  BY <3>2, StatusesAre, StatusNames
    <3>4. Move(r)
      <4>1. status'[r] = "running"  BY <3>2, <3>3, StatusSet
      <4> QED  BY <3>2, <4>1 DEF Move
    <3>5. Steady /\ Moved  BY <2>1, <3>2, <3>3, <3>4, OneMove
    <3>6. RowsMove  BY <2>1 DEF RowsMove
    <3> QED  BY <2>2, <3>1, <3>5, <3>6 DEF RailsMoves
  <2> QED  BY <2>1, <2>3, <2>4
<1>4. CASE RemoveTree(w)
  <2>1. /\ work[w].op = "archive" /\ Done(w) /\ UNCHANGED <<status, rows, shared>>
        /\ tree' = [tree EXCEPT !.there = FALSE, !.dirty = {}]
    BY <1>4 DEF RemoveTree, Doing, railsVars
  <2>2. tree'.kept = tree.kept  BY <2>1 DEF TypeOK
  <2>3. JobsMove  BY <2>1, PlainJob, IdleIsPlain, VerdictIs DEF Done
  <2>4. TreeMove  BY <2>2 DEF TreeMove
  <2> QED  BY <2>1, <2>3, <2>4, QuietIs DEF RailsMoves
<1> QED  BY <1>1, <1>2, <1>3, <1>4, <1>5

\* An event becomes a row, and the thread goes on to its consequence.
LEMMA IngestMoves ==
  ASSUME TypeOK, NEW w \in Workers, Numbered, Deliver(w) \/ Interrupted(w)
  PROVE  RailsMoves
<1>1. CASE Deliver(w)
  <2> DEFINE e == Head(wire)
  <2>1. /\ wire # <<>> /\ e \in Wired /\ wire' = Tail(wire)
        /\ status[e.run] \in Statuses \cup {"unborn"}
        /\ \A v \in Workers : work[v].op # "ingest"
        /\ UNCHANGED <<status, tree, held, shared>>
        /\ \/ UNCHANGED <<rows, work>>
           \/ Ingest(w, "ingest", e) /\ work[w] = Idle
    BY <1>1, DeliverIs
  <2>2. TreeMove  BY <2>1 DEF TreeMove
  <2>3. CASE UNCHANGED <<rows, work>>
    BY <2>1, <2>2, <2>3, QuietIs DEF RailsMoves, JobsMove, JobMove
  <2>4. CASE Ingest(w, "ingest", e) /\ work[w] = Idle
    <3>1. /\ \E job \in Jobs : /\ Goes(w, job)
                               /\ job.op = "ingest" /\ job.at = e.type /\ job.run = e.run
          /\ rows' = rows \cup {e}
      BY <2>1, <2>4, IngestIs
    <3>2. /\ work'[w].op = "ingest" /\ work'[w].at = e.type /\ work'[w].run = e.run /\ Alone(w)
      BY <3>1, GoesTo
    <3>3. JobMove(w)  BY <2>1, <2>4, <3>1, <3>2 DEF JobMove
    <3>4. JobsMove  BY <3>2, <3>3, OthersStay
    <3>5. Steady  BY <2>1, <3>1 DEF Steady
    <3>6. Moved  BY <2>1 DEF Moved
    <3>7. RowsMove  BY <2>1, <3>1 DEF RowsMove
    <3> QED  BY <2>2, <3>4, <3>5, <3>6, <3>7 DEF RailsMoves
  <2> QED  BY <2>1, <2>3, <2>4
<1>2. CASE Interrupted(w)
  <2> DEFINE r == work[w].run
             e == Event(r, 0, "run_interrupted")
  <2>1. /\ work[w].op = "interrupt" /\ r \in Runs /\ UNCHANGED <<status, tree, shared>>
        /\ \/ Done(w) /\ rows' = rows
           \/ Ingest(w, "interrupt", e) /\ r \in Known
    BY <1>2, InterruptedIs
  <2>2. TreeMove  BY <2>1 DEF TreeMove
  <2>3. CASE Done(w) /\ rows' = rows
    <3>1. JobsMove  BY <2>1, <2>3, PlainJob, IdleIsPlain, VerdictIs DEF Done
    <3> QED  BY <2>1, <2>2, <2>3, <3>1, QuietIs DEF RailsMoves
  <2>4. CASE Ingest(w, "interrupt", e) /\ r \in Known
    <3>1. e \in Wired /\ e.run = r /\ e.type = "run_interrupted" /\ e.seq = 0
      BY <2>1 DEF Event, Wired, Reports, Ends
    <3>2. status[r] \in Statuses  BY <2>4 DEF Known
    <3>3. /\ \E job \in Jobs : /\ Goes(w, job)
                               /\ job.op = "interrupt" /\ job.at = "run_interrupted" /\ job.run = r
          /\ rows' = rows \cup {e}
      <4> HIDE DEF e
      <4> QED  BY <2>4, <3>1, <3>2, IngestIs
    <3>4. /\ work'[w].op = "interrupt" /\ work'[w].at = "run_interrupted" /\ work'[w].run = r
          /\ Alone(w)
      BY <3>3, GoesTo
    <3>5. JobMove(w)  BY <2>1, <3>3, <3>4 DEF JobMove
    <3>6. JobsMove  BY <3>4, <3>5, OthersStay
    <3>7. Steady  BY <2>1, <3>3 DEF Steady
    <3>8. Moved  BY <2>1 DEF Moved
    <3>9. RowsMove  BY <3>1, <3>3 DEF RowsMove
    <3> QED  BY <2>2, <3>6, <3>7, <3>8, <3>9 DEF RailsMoves
  <2> QED  BY <2>1, <2>3, <2>4
<1> QED  BY <1>1, <1>2


\* Who loses its thread had its run disturbed.
LEMMA LossMoves ==
  ASSUME TypeOK, NEW w \in Workers, Restart(w) \/ Die(w)
  PROVE  RailsMoves
<1>1. UNCHANGED <<status, rows, tree>> /\ shared \subseteq shared'
  BY DEF Restart, Die, railsVars
<1>2. Steady /\ Moved /\ RowsMove /\ TreeMove  BY <1>1, QuietIs DEF TreeMove
<1>3. CASE Restart(w)
  <2> DEFINE job == [Job("reconcile", "apply", 0) EXCEPT !.ids = {r \in Runs : held[r] = "live"}]
  <2>1. /\ work' = [v \in Workers |-> CASE v = w -> job
                                        [] work[v].op = "sweep" -> work[v]
                                        [] OTHER -> Idle]
        /\ shared' = shared \cup Deciding
    BY <1>3 DEF Restart
  <2>2. Plain(job) /\ Plain(Idle)  BY IdleIsPlain DEF Plain, Job
  <2> HIDE DEF job
  <2>3. \A v \in Workers : Plain(work'[v])  BY <2>1, <2>2 DEF Plain
  <2>4. \A v \in Workers, r \in Runs : Approves(v, r) => r \in shared'
    BY <2>1, VerdictIs DEF Approves, Deciding
  <2>5. \A v \in Workers : JobMove(v)  BY <2>3, <2>4 DEF JobMove
  <2> QED  BY <1>2, <2>5 DEF RailsMoves, JobsMove
<1>4. CASE Die(w)
  <2>1. Done(w) /\ shared' = IF work[w].op \in DOMAIN Verdict THEN shared \cup {work[w].run} ELSE shared
    BY <1>4 DEF Die
  <2>2. work'[w] = Idle /\ Alone(w)  BY <2>1, GoesTo DEF Done
  <2>3. \A r \in Runs : Approves(w, r) => r \in shared'  BY <2>1, VerdictIs DEF Approves
  <2>4. JobMove(w)  BY <2>2, <2>3, IdleIsPlain DEF JobMove
  <2> QED  BY <1>2, <2>2, <2>4, OthersStay DEF RailsMoves
<1> QED  BY <1>3, <1>4

LEMMA RailsMove ==
  ASSUME TypeOK, Boots, Numbered, Posts, [Next]_vars
  PROVE  RailsMoves
<1>1. ASSUME UNCHANGED <<status, rows, work>>, shared \subseteq shared', tree'.kept = tree.kept
      PROVE  RailsMoves
  BY <1>1, QuietIs DEF RailsMoves, JobsMove, JobMove, TreeMove
<1>2. CASE UNCHANGED vars  BY <1>1, <1>2 DEF vars, railsVars
<1>3. ASSUME NEW w \in Workers, Request(w) PROVE RailsMoves  BY <1>3, RequestMoves
<1>4. ASSUME NEW w \in Workers, Step(w) PROVE RailsMoves
  <2>1. CASE Supersede(w) \/ Create(w)  BY <2>1, StartMoves
  <2>2. CASE Post(w) \/ Answered(w)  BY <2>2, DestroyMoves
  <2>3. CASE \/ SettleStarted(w) \/ SettleFailed(w) \/ SettleClean(w) \/ SettleReview(w)
             \/ SettleNothing(w)
    BY <2>3, SettleMoves
  <2>4. CASE Git(w)  BY <2>4, GitMoves
  <2>5. CASE Record(w)  BY <2>5, RecordMoves
  <2>6. CASE PickSeq(w) \/ SweepFail(w) \/ Reconcile(w) \/ Restore(w) \/ RemoveTree(w)
    BY <2>6, OtherMoves
  <2>7. CASE Interrupted(w)  BY <2>7, IngestMoves
  <2> QED  BY <1>4, <2>1, <2>2, <2>3, <2>4, <2>5, <2>6, <2>7 DEF Step
<1>5. ASSUME NEW w \in Workers, Deliver(w) PROVE RailsMoves  BY <1>5, IngestMoves
<1>6. ASSUME NEW w \in Workers, Restart(w) \/ Die(w) PROVE RailsMoves  BY <1>6, LossMoves
<1>7. ASSUME NEW r \in Runs, Sweep(r) PROVE RailsMoves  BY <1>7, RequestMoves DEF Sweep
<1>8. ASSUME NEW r \in Runs, Harness(r) \/ GoesStale(r) PROVE RailsMoves
  <2>1. tree'.kept = tree.kept
    BY <1>8 DEF Harness, Register, StartFails, Edit, End, Heartbeat, GoesStale, TypeOK
  <2>2. UNCHANGED <<status, rows, work>> /\ shared \subseteq shared'
    BY <1>8 DEF Harness, Register, StartFails, Edit, End, Heartbeat, GoesStale, railsVars
  <2> QED  BY <1>1, <2>1, <2>2
<1>9. CASE Crash \/ PostFails  BY <1>1, <1>9 DEF Crash, PostFails, railsVars
<1> QED  BY <1>2, <1>3, <1>4, <1>5, <1>6, <1>7, <1>8, <1>9 DEF Next

-----------------------------------------------------------------------------
(* The invariant is inductive.                                             *)

\* What has disturbed a run has disturbed it for good.
LEMMA Stays ==
  ASSUME TypeOK, TypeOK', Steady, NEW r \in Runs
  PROVE  /\ Off(r) => Off(r)'
         /\ Loose(r) => Loose(r)'
         /\ \A types : Told(r, types) => Told(r, types)' \/ status'[r] = "destroyed"
<1>1. \A types : Told(r, types) => Told(r, types)' \/ status'[r] = "destroyed"
  BY DEF Steady, Told
<1>2. Off(r) => Off(r)'  BY DEF Steady, Off, Guessed
<1>3. Loose(r) => Loose(r)'  BY <1>2 DEF Steady, Loose
<1> QED  BY <1>1, <1>2, <1>3

\* Who settles an undecided run.
LEMMA SettlerIs ==
  ASSUME TypeOK, Ingests, NEW r \in Runs, NEW w \in Workers, Settler(w, r)
  PROVE  /\ Off(r) \/ (~Under(r) /\ \A v \in Workers : ~Decides(v, r))
         /\ work[w].at \in Ends => Off(r) \/ Over(r)
         /\ work[w].op = "interrupt" => Off(r)
BY DEF Settler, Ingests

\* What is reviewed or decided.
LEMMA UnderIs ==
  ASSUME NEW r \in Runs
  PROVE  /\ Under(r) => status[r] \notin Restorable \cup Sweepable \cup {"unborn", "destroyed"}
         /\ Under(r) <=> status[r] \in {"approved", "rejected", "awaiting_review"}
         /\ Under(r)' <=> status'[r] \in {"approved", "rejected", "awaiting_review"}
BY DEF Under, Decided, Restorable, Sweepable

LEMMA OwedStep ==
  ASSUME TypeOK, TypeOK', Owed, Ingests, Deciders, RailsMoves, \A r \in Runs : Over(r) => Over(r)'
  PROVE  Owed'
<1> SUFFICES ASSUME NEW r \in Runs, Under(r)' PROVE Off(r)' \/ Over(r)'  BY DEF Owed
<1>1. Off(r) \/ Over(r) => Off(r)' \/ Over(r)'  BY Stays DEF RailsMoves
<1>2. status'[r] \in {"approved", "rejected", "awaiting_review"}  BY UnderIs
<1>3. CASE status'[r] = status[r]
  <2>1. Under(r)  BY <1>2, <1>3, UnderIs
  <2> QED  BY <1>1, <2>1 DEF Owed
<1>4. CASE status'[r] # status[r]
  <2>1. Move(r)  BY <1>4 DEF RailsMoves, Moved
  <2>2. \/ \E w \in Workers : Settler(w, r) /\ work[w].at \in Ends
        \/ \E w \in Workers : Recorder(w, r)
    BY <1>2, <2>1 DEF Move
  <2>3. ASSUME NEW w \in Workers, Settler(w, r), work[w].at \in Ends PROVE Off(r) \/ Over(r)
    BY <2>3, SettlerIs
  <2>4. ASSUME NEW w \in Workers, Recorder(w, r) PROVE Off(r) \/ Over(r)
    BY <2>4 DEF Recorder, Decides, Deciders
  <2> QED  BY <1>1, <2>2, <2>3, <2>4
<1> QED  BY <1>3, <1>4

\* Whose decision a thread works at, and since when.
LEMMA DecidesIs ==
  ASSUME TypeOK, TypeOK', JobsMove, NEW w \in Workers, NEW r \in Runs, Decides(w, r)'
  PROVE  \/ work'[w] = work[w] /\ Decides(w, r)
         \/ /\ work'[w].at = "git" /\ Alone(w) /\ work[w] = Idle /\ UNCHANGED <<status, rows>>
            /\ status[r] = "awaiting_review"
            /\ Deciding # {} => Deciding \cup {r} \subseteq shared'
         \/ work'[w].at = "pick" /\ Decides(w, r)
         \/ /\ work'[w].at = "record" /\ Decides(w, r) /\ rows' = rows /\ Alone(w)
            /\ work'[w].seq = NextSeq(rows, r)
<1>1. work[w] \in Jobs /\ work'[w] \in Jobs  BY DEF TypeOK
<1>2. work'[w].op \in {"approve", "reject"} /\ work'[w].run = r  BY VerdictIs DEF Decides
<1>3. JobMove(w)  BY DEF JobsMove
<1>4. CASE work'[w] = work[w]  BY <1>2, <1>4, VerdictIs DEF Decides
<1>5. CASE /\ work[w].op \in DOMAIN Verdict /\ work[w].at = "git"
           /\ work'[w] = [work[w] EXCEPT !.at = "pick"]
  BY <1>1, <1>2, <1>5 DEF Decides, Jobs
<1>6. CASE /\ work[w].op \in DOMAIN Verdict /\ rows' = rows /\ Alone(w)
           /\ work'[w] = [work[w] EXCEPT !.at = "record", !.seq = NextSeq(rows, work[w].run)]
  BY <1>1, <1>2, <1>6 DEF Decides, Jobs
<1>7. CASE /\ work'[w].op \in DOMAIN Verdict /\ work'[w].at = "git" /\ Alone(w) /\ work[w] = Idle
           /\ UNCHANGED <<status, rows>> /\ status[work'[w].run] = "awaiting_review"
           /\ Deciding # {} => Deciding \cup {work'[w].run} \subseteq shared'
  BY <1>2, <1>7
<1> QED  BY <1>2, <1>3, <1>4, <1>5, <1>6, <1>7 DEF JobMove, Plain


LEMMA IngestsStep ==
  ASSUME TypeOK, TypeOK', Wire, Owed, Ingests, Deciders, RailsMoves,
         \A r \in Runs : Over(r) => Over(r)'
  PROVE  Ingests'
<1> USE DEF RailsMoves
<1>1. \A r \in Runs : Off(r) => Off(r)'  BY Stays
<1>2. ASSUME NEW w \in Workers, work'[w].op = "ingest"
      PROVE  \/ work'[w] = work[w]
             \/ /\ Alone(w) /\ \A v \in Workers : work[v].op # "ingest"
                /\ wire # <<>> /\ wire' = Tail(wire) /\ UNCHANGED <<status, held>>
                /\ work'[w].run = Head(wire).run /\ work'[w].at = Head(wire).type
  <2>1. JobMove(w)  BY DEF JobsMove
  <2>2. work[w] \in Jobs  BY DEF TypeOK
  <2>3. work'[w].op \notin DOMAIN Verdict  BY <1>2, VerdictIs
  <2>4. ~Plain(work'[w])  BY <1>2 DEF Plain
  <2>5. ~ /\ work[w].op \in DOMAIN Verdict
          /\ \/ work'[w] = [work[w] EXCEPT !.at = "pick"]
             \/ work'[w] = [work[w] EXCEPT !.at = "record", !.seq = NextSeq(rows, work[w].run)]
    BY <2>2, <2>3 DEF Jobs
  <2> QED  BY <1>2, <2>1, <2>3, <2>4, <2>5 DEF JobMove
<1>3. ASSUME NEW v \in Workers, NEW w \in Workers, work'[v].op = "ingest", work'[w].op = "ingest"
      PROVE  v = w
  BY <1>2, <1>3 DEF Ingests, Alone
<1>4. ASSUME NEW w \in Workers, work'[w].op = "ingest", NEW r, r = work'[w].run
      PROVE  /\ r \in Runs
             /\ work'[w].at \in Ends => Over(r)'
             /\ Off(r)' \/ (~Under(r)' /\ \A v \in Workers : ~Decides(v, r)')
  <2>0. r \in Runs  BY <1>4 DEF TypeOK, Proper
  <2>1. CASE work'[w] = work[w]
    <3>1. /\ work[w].at \in Ends => Over(r)
          /\ Off(r) \/ (~Under(r) /\ \A v \in Workers : ~Decides(v, r))
      BY <1>4, <2>1 DEF Ingests
    <3>2. ASSUME ~Off(r)' PROVE ~Under(r)' /\ \A v \in Workers : ~Decides(v, r)'
      <4>1. ~Off(r) /\ ~Under(r) /\ \A v \in Workers : ~Decides(v, r)  BY <1>1, <2>0, <3>1, <3>2
      <4>2. \A v \in Workers : ~Decides(v, r)'
        <5>1. status[r] # "awaiting_review"  BY <2>0, <4>1, UnderIs
        <5> QED  BY <2>0, <4>1, <5>1, DecidesIs
      <4>3. ASSUME Under(r)' PROVE FALSE
        <5>1. status'[r] # status[r]  BY <2>0, <4>1, <4>3, UnderIs
        <5>2. Move(r) /\ status'[r] \in {"approved", "rejected", "awaiting_review"}
          BY <2>0, <4>3, <5>1, UnderIs DEF Moved
        <5>3. \/ \E u \in Workers : Settler(u, r)
              \/ \E u \in Workers : Recorder(u, r)
          BY <5>2 DEF Move
        <5>4. PICK u \in Workers : Settler(u, r)  BY <4>1, <5>3 DEF Recorder
        <5>5. work[u].op = "ingest"  BY <2>0, <4>1, <5>4, SettlerIs DEF Settler
        <5>6. u = w  BY <1>4, <2>1, <5>5 DEF Ingests
        <5>7. work'[w].op = "idle"  BY <5>4, <5>6 DEF Settler, Idle, Job
        <5> QED  BY <1>4, <5>7
      <4> QED  BY <4>2, <4>3
    <3> QED  BY <1>4, <2>0, <2>1, <3>1, <3>2
  <2>2. CASE /\ Alone(w) /\ wire # <<>> /\ wire' = Tail(wire) /\ UNCHANGED <<status, held>>
             /\ r = Head(wire).run /\ work'[w].at = Head(wire).type
    <3>1. /\ 1 \in DOMAIN wire /\ Head(wire) = wire[1]
          /\ \A i \in DOMAIN wire' :
               i \in Nat /\ i + 1 \in DOMAIN wire /\ wire'[i] = wire[i + 1] /\ 1 < i + 1
      BY <2>2, WireShrinks
    <3>2. ASSUME work'[w].at \in Ends PROVE Over(r)'
      <4>1. wire[1].type \in Ends  BY <2>2, <3>1, <3>2
      <4>2. held[r] = "ended" /\ \A j \in DOMAIN wire : 1 < j => wire[j].run # r
        BY <2>2, <3>1, <4>1 DEF Wire
      <4> QED  BY <2>2, <3>1, <4>2 DEF Over
    <3>3. ~Over(r)  BY <2>2, <3>1 DEF Over
    <3>4. ASSUME ~Off(r)' PROVE ~Under(r)' /\ \A v \in Workers : ~Decides(v, r)'
      <4>1. ~Off(r)  BY <1>1, <2>0, <3>4
      <4>2. ~Under(r)  BY <2>0, <3>3, <4>1 DEF Owed
      <4>3. \A v \in Workers : ~Decides(v, r)  BY <3>3, <4>1 DEF Deciders, Decides
      <4>4. ~Under(r)'  BY <2>2, <4>2 DEF Under
      <4>5. status[r] # "awaiting_review"  BY <2>0, <4>2, UnderIs
      <4>6. \A v \in Workers : ~Decides(v, r)'  BY <2>0, <4>3, <4>5, DecidesIs
      <4> QED  BY <4>4, <4>6
    <3> QED  BY <2>0, <3>2, <3>4
  <2> QED  BY <1>2, <1>4, <2>1, <2>2
<1>5. ASSUME NEW w \in Workers, work'[w].op = "interrupt", work'[w].at # "ask", NEW r, r = work'[w].run
      PROVE  Off(r)'
  <2>0. r \in Runs /\ work[w] \in Jobs  BY <1>5 DEF TypeOK, Proper
  <2>1. CASE work'[w] = work[w]  BY <1>1, <1>5, <2>0, <2>1 DEF Ingests
  <2>2. CASE Event(r, 0, "run_interrupted") \in rows'
    <3>1. Event(r, 0, "run_interrupted").run = r /\ Event(r, 0, "run_interrupted").seq = 0
      BY DEF Event
    <3> QED  BY <2>2, <3>1 DEF Off, Guessed
  <2>3. JobMove(w) /\ work'[w].op \notin DOMAIN Verdict  BY <1>5, VerdictIs DEF JobsMove
  <2>4. ~Plain(work'[w])  BY <1>5 DEF Plain
  <2>5. ~ /\ work[w].op \in DOMAIN Verdict
          /\ \/ work'[w] = [work[w] EXCEPT !.at = "pick"]
             \/ work'[w] = [work[w] EXCEPT !.at = "record", !.seq = NextSeq(rows, work[w].run)]
    BY <2>0, <2>3 DEF Jobs
  <2> QED  BY <1>5, <2>1, <2>2, <2>3, <2>4, <2>5 DEF JobMove
<1>6. Ingests'
  <2> SUFFICES ASSUME NEW w \in Workers, work'[w].op = "ingest", NEW r, r = work'[w].run
               PROVE  /\ work'[w].at \in Ends => Over(r)'
                      /\ Off(r)' \/ (~Under(r)' /\ \A v \in Workers : ~Decides(v, r)')
    BY <1>3, <1>5 DEF Ingests, Over, Off, Guessed, Under, Decides
  <2> QED  BY <1>4
<1> QED  BY <1>6


\* A review that nobody disturbs is ended by its decision.
LEMMA ReviewStays ==
  ASSUME TypeOK, TypeOK', Ingests, Deciders, RailsMoves, NEW r \in Runs,
         status[r] = "awaiting_review", ~Loose(r)', NEW w \in Workers, Decides(w, r)
  PROVE  \/ status'[r] = "awaiting_review"
         \/ Recorder(w, r)
<1> SUFFICES ASSUME status'[r] # "awaiting_review" PROVE Recorder(w, r)  OBVIOUS
<1>1. ~Loose(r) /\ ~Off(r)  BY Stays DEF RailsMoves, Loose
<1>2. Move(r)  BY DEF RailsMoves, Moved
<1>3. status'[r] # "destroyed" /\ r \notin shared' /\ ~Guessed(r)'  BY DEF Loose, Off
<1>4. Event(r, 0, "run_failed") \notin rows'  BY <1>3 DEF Guessed, Event
<1>5. status[r] \notin Restorable /\ status[r] # "unborn"  BY DEF Restorable
<1>6. \A u \in Workers : ~Settler(u, r)  BY <1>1, SettlerIs
<1>7. PICK u \in Workers : Recorder(u, r)  BY <1>2, <1>3, <1>4, <1>5, <1>6 DEF Move
<1>8. u = w  BY <1>1, <1>7 DEF Deciders, Decides, Recorder
<1> QED  BY <1>7, <1>8

LEMMA DecidersStep ==
  ASSUME TypeOK, TypeOK', Numbered, Wire, Owed, Ingests, Deciders, RailsMoves,
         \A r \in Runs : Over(r) => Over(r)'
  PROVE  Deciders'
<1> USE DEF RailsMoves
<1>1. \A r \in Runs : (Off(r) => Off(r)') /\ (Loose(r) => Loose(r)')  BY Stays
<1>2. ASSUME NEW w \in Workers, NEW r \in Runs, Decides(w, r)'
      PROVE  Off(r)' \/ Over(r)'
  <2>1. Decides(w, r) \/ status[r] = "awaiting_review"  BY <1>2, DecidesIs
  <2>2. CASE Decides(w, r)  BY <1>1, <2>2 DEF Deciders, Decides
  <2>3. CASE status[r] = "awaiting_review"  BY <1>1, <2>3, UnderIs DEF Owed
  <2> QED  BY <2>1, <2>2, <2>3
<1>3. ASSUME NEW w \in Workers, NEW r \in Runs, Decides(w, r)', ~Loose(r)'
      PROVE  /\ status'[r] = "awaiting_review"
             /\ \A v \in Workers : Decides(v, r)' => v = w
             /\ work'[w].at = "record" =>
                  work'[w].seq # 0 /\ \A row \in rows' : row.run = r => row.seq # work'[w].seq
  <2>1. ~Loose(r) /\ ~Off(r) /\ ~Off(r)' /\ r \notin shared'  BY <1>1, <1>3 DEF Loose
  <2>2. work'[w].op # "idle"  BY <1>3, VerdictIs DEF Decides
  <2>3. ~Recorder(w, r)  BY <2>2 DEF Recorder, Idle, Job
  <2>4. CASE Decides(w, r)
    <3>1. /\ status[r] = "awaiting_review" /\ Over(r)
          /\ \A v \in Workers : Decides(v, r) => v = w
          /\ work[w].at = "record" =>
               work[w].seq # 0 /\ \A row \in rows : row.run = r => row.seq # work[w].seq
      BY <2>1, <2>4 DEF Deciders, Decides
    <3>2. status'[r] = "awaiting_review"  BY <1>3, <2>3, <2>4, <3>1, ReviewStays
    <3>3. r \in Deciding  BY <2>4 DEF Deciding, Decides
    <3>4. \A v \in Workers : Decides(v, r)' => v = w
      BY <2>1, <3>1, <3>3, DecidesIs
    <3>5. ASSUME work'[w].at = "record"
          PROVE  work'[w].seq # 0 /\ \A row \in rows' : row.run = r => row.seq # work'[w].seq
      <4>1. CASE work'[w] = work[w]
        <5>1. work'[w].seq # 0 /\ \A row \in rows : row.run = r => row.seq # work'[w].seq
          BY <3>1, <3>5, <4>1
        <5>2. ASSUME NEW row \in rows', row \notin rows, row.run = r PROVE row.seq = 0
          <6>1. ~ (wire # <<>> /\ row = Head(wire))
            <7> SUFFICES ASSUME wire # <<>>, row = Head(wire) PROVE FALSE  OBVIOUS
            <7>1. wire \in Seq(Wired) /\ Head(wire) = wire[1] /\ 1 \in DOMAIN wire
              BY HeadTailProperties, LenProperties, EmptySeq DEF TypeOK
            <7> QED  BY <3>1, <5>2, <7>1 DEF Over
          <6>2. \A u \in Workers : ~Settler(u, r)  BY <2>1, <2>4, SettlerIs
          <6>3. \A u \in Workers : ~Recorder(u, r)  BY <2>3, <3>1 DEF Recorder
          <6> QED  BY <5>2, <6>1, <6>2, <6>3 DEF RowsMove
        <5> QED  BY <5>1, <5>2
      <4>2. CASE work'[w].seq = NextSeq(rows, r) /\ rows' = rows
        <5>1. PICK n \in Nat : \A row \in rows : row.seq <= n  BY DEF Numbered
        <5>2. \A row \in rows : row.seq \in Nat /\ row.seq <= n  BY <5>1 DEF TypeOK
        <5>3. /\ NextSeq(rows, r) \in Nat \ {0}
              /\ \A row \in rows : row.run = r => row.seq < NextSeq(rows, r)
          BY <5>2, NextSeqIs
        <5> QED  BY <4>2, <5>2, <5>3
      <4> QED  BY <1>3, <3>5, <4>1, <4>2, DecidesIs
    <3> QED  BY <3>2, <3>4, <3>5
  <2>5. CASE ~Decides(w, r)
    <3>1. /\ work'[w].at = "git" /\ Alone(w) /\ status' = status
          /\ status[r] = "awaiting_review"
          /\ Deciding # {} => Deciding \cup {r} \subseteq shared'
      BY <1>3, <2>5, DecidesIs
    <3>2. Deciding = {}  BY <2>1, <3>1
    <3>3. \A v \in Workers : ~Decides(v, r)  BY <3>2 DEF Deciding, Decides
    <3>4. \A v \in Workers : Decides(v, r)' => v = w  BY <3>1, <3>3 DEF Alone, Decides
    <3> QED  BY <3>1, <3>4
  <2> QED  BY <2>4, <2>5
<1> SUFFICES ASSUME NEW w \in Workers, work'[w].op \in DOMAIN Verdict, NEW r, r = work'[w].run
             PROVE  /\ Off(r)' \/ Over(r)'
                    /\ \/ Loose(r)'
                       \/ /\ status'[r] = "awaiting_review"
                          /\ \A v \in Workers : Decides(v, r)' => v = w
                          /\ work'[w].at = "record" =>
                               /\ work'[w].seq # 0
                               /\ \A row \in rows' : row.run = r => row.seq # work'[w].seq
  BY VerdictIs DEF Deciders, Over, Off, Guessed, Loose, Decides
<1>4. r \in Runs /\ Decides(w, r)'  BY VerdictIs DEF Decides, TypeOK, Proper
<1> QED  BY <1>2, <1>3, <1>4

\* A decision that is not disturbed is recorded.
LEMMA Approval ==
  ASSUME TypeOK, TypeOK', Deciders, NEW w \in Workers, Record(w), NEW r \in Runs, Approves(w, r), ~Loose(r)
  PROVE  status'[r] = "approved"
<1>1. Decides(w, r) /\ work[w].run = r /\ work[w].at = "record" /\ work[w].op = "approve"
  BY RecordIs, VerdictIs DEF Approves, Decides
<1>2. /\ status[r] = "awaiting_review" /\ work[w].seq # 0
      /\ \A row \in rows : row.run = r => row.seq # work[w].seq
  BY <1>1 DEF Deciders, Decides
<1>3. r \in Known  BY <1>2 DEF Known, Statuses, Active
<1>4. RowAllowed(Event(r, work[w].seq, Decision["approve"]))  BY <1>2 DEF RowAllowed, Event
<1>5. Appends(r, "approved", Event(r, work[w].seq, Decision["approve"]))
  BY <1>1, <1>3, <1>4, RecordIs, VerdictIs
<1> QED  BY <1>5, StatusSet, StatusNames, VerdictIs DEF Appends

LEMMA KeptStep ==
  ASSUME TypeOK, TypeOK', Ingests, Deciders, Kept, RailsMoves
  PROVE  Kept'
<1> USE DEF RailsMoves
<1> SUFFICES ASSUME NEW r \in tree'.kept, ~Loose(r)'
             PROVE  status'[r] = "approved" \/ \E w \in Workers : Approves(w, r)'
  BY DEF Kept
<1>0. r \in Runs  BY DEF TypeOK
<1>1. ~Loose(r) /\ ~Off(r) /\ r \notin shared' /\ status'[r] # "destroyed" /\ ~Guessed(r)'
  BY <1>0, Stays DEF Loose, Off
<1>2. CASE r \in tree.kept /\ status[r] = "approved"
  <2> SUFFICES ASSUME status'[r] # "approved" PROVE FALSE  OBVIOUS
  <2>1. Move(r)  BY <1>0, <1>2 DEF Moved
  <2>2. Event(r, 0, "run_failed") \notin rows'  BY <1>1 DEF Guessed, Event
  <2>3. Under(r)  BY <1>0, <1>2, UnderIs
  <2>4. \A u \in Workers : ~Settler(u, r)  BY <1>0, <1>1, <2>3, SettlerIs
  <2>5. \A u \in Workers : ~Recorder(u, r)  BY <1>1, <1>2 DEF Recorder, Decides, Deciders
  <2>6. status[r] \notin Restorable /\ status[r] # "unborn"  BY <1>2 DEF Restorable
  <2> QED  BY <1>1, <2>1, <2>2, <2>4, <2>5, <2>6 DEF Move
<1>3. ASSUME NEW w \in Workers, Approves(w, r), status'[r] # "approved" PROVE Approves(w, r)'
  <2>1. JobMove(w) /\ work[w] \in Jobs  BY DEF JobsMove, TypeOK
  <2>2. work[w].op = "approve" /\ work[w].at \in {"pick", "record"} /\ work[w].run = r
    BY <1>3 DEF Approves
  <2>3. CASE work'[w] = work[w]  BY <2>2, <2>3 DEF Approves
  <2>4. CASE work'[w] = [work[w] EXCEPT !.at = "record", !.seq = NextSeq(rows, work[w].run)]
    BY <2>1, <2>2, <2>4 DEF Approves, Jobs
  <2>5. r \notin shared' /\ ~Record(w)  BY <1>0, <1>1, <1>3, Approval
  <2>6. work[w].op \notin {"interrupt", "idle"} /\ work[w] # Idle  BY <2>2 DEF Idle, Job
  <2> QED  BY <1>0, <1>3, <2>1, <2>2, <2>3, <2>4, <2>5, <2>6 DEF JobMove
<1>4. CASE r \in tree.kept /\ \E w \in Workers : Approves(w, r)  BY <1>3, <1>4
<1>5. CASE r \notin tree.kept  BY <1>1, <1>5 DEF TreeMove
<1> QED  BY <1>1, <1>2, <1>4, <1>5 DEF Kept


LEMMA HeardStep ==
  ASSUME TypeOK, TypeOK', Heard, RailsMoves
  PROVE  Heard'
<1> USE DEF RailsMoves
<1> SUFFICES ASSUME NEW w \in Workers, work'[w].op \in {"ingest", "interrupt"}, work'[w].at # "ask",
                    NEW r, r = work'[w].run, NEW at, at = work'[w].at
             PROVE  Told(r, {at})' \/ status'[r] = "destroyed"
  BY DEF Heard, Told
<1>1. r \in Runs /\ JobMove(w) /\ work[w] \in Jobs  BY DEF TypeOK, Proper, JobsMove
<1>2. CASE work'[w] = work[w]
  <2>1. Told(r, {at}) \/ status[r] = "destroyed"  BY <1>2 DEF Heard
  <2> QED  BY <1>1, <1>2, <2>1 DEF Steady, Told
<1>3. CASE Head(wire) \in rows' /\ r = Head(wire).run /\ at = Head(wire).type
  BY <1>3 DEF Told
<1>4. CASE Event(r, 0, "run_interrupted") \in rows' /\ at = "run_interrupted"
  <2>1. Event(r, 0, "run_interrupted").run = r
        /\ Event(r, 0, "run_interrupted").type = "run_interrupted"
    BY DEF Event
  <2> QED  BY <1>4, <2>1 DEF Told
<1>5. ~Plain(work'[w]) /\ work'[w].op \notin DOMAIN Verdict  BY VerdictIs DEF Plain
<1>6. ~ /\ work[w].op \in DOMAIN Verdict
        /\ \/ work'[w] = [work[w] EXCEPT !.at = "pick"]
           \/ work'[w] = [work[w] EXCEPT !.at = "record", !.seq = NextSeq(rows, work[w].run)]
  BY <1>1, <1>5 DEF Jobs
<1> QED  BY <1>1, <1>2, <1>3, <1>4, <1>5, <1>6 DEF JobMove

\* The status is announced with the event that gave it.
LEMMA AnnouncedStep ==
  ASSUME TypeOK, TypeOK', Heard, StatusIsAnnounced, RailsMoves
  PROVE  StatusIsAnnounced'
<1> USE DEF RailsMoves
<1> SUFFICES ASSUME NEW r \in Runs
             PROVE  /\ status'[r] = "awaiting_review" => Told(r, {"changeset_ready"})'
                    /\ status'[r] = "approved" => Told(r, {"changeset_approved"})'
                    /\ status'[r] = "rejected" => Told(r, {"changeset_rejected"})'
                    /\ status'[r] = "failed" => Told(r, {"run_failed"})'
                    /\ status'[r] = "completed_clean" => Told(r, {"run_finished", "run_interrupted"})'
  BY DEF StatusIsAnnounced
<1>1. CASE status'[r] = status[r]
  <2>1. \A types : Told(r, types) => Told(r, types)' \/ status'[r] = "destroyed"  BY Stays
  <2> QED  BY <1>1, <2>1 DEF StatusIsAnnounced
<1>2. CASE status'[r] # status[r]
  <2>1. Move(r)  BY <1>2 DEF Moved
  <2>2. ASSUME NEW n, NEW type, NEW types, Event(r, n, type) \in rows', type \in types
        PROVE  Told(r, types)'
    <3>1. Event(r, n, type).run = r /\ Event(r, n, type).type = type  BY DEF Event
    <3> QED  BY <2>2, <3>1 DEF Told
  <2>3. ASSUME NEW w \in Workers, Settler(w, r), status[r] \in Statuses, status'[r] # "destroyed",
               NEW at, at = work[w].at
        PROVE  Told(r, {at})'
    <3>1. Told(r, {at})
      BY <2>3, StatusesAre DEF Heard, Settler
    <3> QED  BY <2>3, <3>1 DEF Steady, Told
  <2>4. ASSUME NEW w \in Workers, Settler(w, r), status[r] \in Statuses, status'[r] = "failed",
               work[w].at = "run_failed"
        PROVE  Told(r, {"run_failed"})'
    BY <2>3, <2>4 DEF Told
  <2>5. ASSUME NEW w \in Workers, Settler(w, r), status[r] \in Statuses, status'[r] = "completed_clean",
               work[w].at \in {"run_finished", "run_interrupted"}
        PROVE  Told(r, {"run_finished", "run_interrupted"})'
    BY <2>3, <2>5 DEF Told
  <2>6. ASSUME NEW w \in Workers, Recorder(w, r), status'[r] = Verdict[work[w].op], NEW n \in Nat,
               Event(r, n, Decision[work[w].op]) \in rows'
        PROVE  \/ status'[r] = "approved" /\ Told(r, {"changeset_approved"})'
               \/ status'[r] = "rejected" /\ Told(r, {"changeset_rejected"})'
    <3>1. \A type : type = Decision[work[w].op] => Told(r, {type})'
      <4>1. Event(r, n, Decision[work[w].op]).run = r
            /\ Event(r, n, Decision[work[w].op]).type = Decision[work[w].op]
        BY DEF Event
      <4> QED  BY <2>6, <4>1 DEF Told
    <3>2. work[w].op \in {"approve", "reject"}  BY <2>6, VerdictIs DEF Recorder, Decides
    <3>3. CASE work[w].op = "approve"
      <4>1. Decision[work[w].op] = "changeset_approved" /\ Verdict[work[w].op] = "approved"
        BY <3>3, VerdictIs
      <4> QED  BY <2>6, <3>1, <4>1 DEF Told
    <3>4. CASE work[w].op = "reject"
      <4>1. Decision[work[w].op] = "changeset_rejected" /\ Verdict[work[w].op] = "rejected"
        BY <3>4, VerdictIs
      <4> QED  BY <2>6, <3>1, <4>1 DEF Told
    <3> QED  BY <3>2, <3>3, <3>4
  <2>7. CASE \E w \in Workers :
               /\ Settler(w, r) /\ status[r] \in Statuses
               /\ \/ status'[r] = "running"
                  \/ status'[r] = "failed" /\ work[w].at = "run_failed"
                  \/ status'[r] = "completed_clean" /\ work[w].at \in {"run_finished", "run_interrupted"}
                  \/ /\ status'[r] = "awaiting_review" /\ work[w].at \in Ends
                     /\ \E n \in Nat : Event(r, n, "changeset_ready") \in rows'
    <3>1. status'[r] = "awaiting_review" => \E n : Event(r, n, "changeset_ready") \in rows'  BY <2>7
    <3>2. status'[r] = "awaiting_review" => Told(r, {"changeset_ready"})'  BY <2>2, <3>1
    <3>3. status'[r] = "failed" => Told(r, {"run_failed"})'  BY <2>4, <2>7
    <3>4. status'[r] = "completed_clean" => Told(r, {"run_finished", "run_interrupted"})'  BY <2>5, <2>7
    <3>5. status'[r] \notin {"approved", "rejected"}  BY <2>7
    <3> QED  BY <3>2, <3>3, <3>4, <3>5
  <2>8. CASE \E w \in Workers :
               /\ Recorder(w, r) /\ status'[r] = Verdict[work[w].op]
               /\ \E n \in Nat : Event(r, n, Decision[work[w].op]) \in rows'
    BY <2>6, <2>8
  <2>9. CASE status'[r] = "failed" /\ Event(r, 0, "run_failed") \in rows'
    <3>1. Told(r, {"run_failed"})'  BY <2>2, <2>9
    <3> QED  BY <2>9, <3>1
  <2> QED  BY <2>1, <2>7, <2>8, <2>9 DEF Move
<1> QED  BY <1>1, <1>2


\* A run is posted once: its job is made with it.
LEMMA PostsStep ==
  ASSUME TypeOK, TypeOK', Posts, HarnessMoves, RailsMoves
  PROVE  Posts'
<1>1. ASSUME NEW r \in Runs, held[r] = "no", held'[r] # "no"
      PROVE  \E w \in Workers : Posting(w) /\ work[w].run = r /\ ~Posting(w)'
  BY <1>1 DEF HarnessMoves, TypeOK, Proper, Posting
<1>2. ASSUME NEW r \in Runs, status'[r] = "unborn" PROVE held'[r] = "no"
  <2>1. status[r] = "unborn"  BY <1>2 DEF RailsMoves, Steady
  <2>2. held[r] = "no"  BY <2>1 DEF Posts
  <2>3. \A w \in Workers : Posting(w) => work[w].run # r  BY <2>1 DEF Posts
  <2> QED  BY <1>1, <2>2, <2>3
<1>3. ASSUME NEW w \in Workers, Posting(w)'
      PROVE  \/ work'[w] = work[w] /\ Posting(w)
             \/ /\ held' = held /\ Alone(w)
                /\ \E r \in Runs : status[r] = "unborn" /\ status'[r] # "unborn" /\ work'[w].run = r
  <2>1. JobMove(w) /\ work[w] \in Jobs  BY DEF RailsMoves, JobsMove, TypeOK
  <2>2. work'[w].op = "start" /\ work'[w].at = "post"  BY <1>3 DEF Posting
  <2>3. ~Plain(work'[w]) /\ work'[w].op \notin DOMAIN Verdict  BY <2>2, VerdictIs DEF Plain
  <2>4. ~ /\ work[w].op \in DOMAIN Verdict
          /\ \/ work'[w] = [work[w] EXCEPT !.at = "pick"]
             \/ work'[w] = [work[w] EXCEPT !.at = "record", !.seq = NextSeq(rows, work[w].run)]
    BY <2>1, <2>3 DEF Jobs
  <2>5. work'[w] = work[w] => Posting(w)  BY <2>2 DEF Posting
  <2> QED  BY <2>1, <2>2, <2>3, <2>4, <2>5 DEF JobMove
<1>4. ASSUME NEW w \in Workers, Posting(w)', NEW r, r = work'[w].run
      PROVE  /\ r \in Runs /\ status'[r] # "unborn" /\ held'[r] = "no"
             /\ \A v \in Workers : Posting(v)' /\ work'[v].run = r => v = w
  <2>0. r \in Runs  BY <1>4 DEF Posting, TypeOK, Proper
  <2>1. CASE work'[w] = work[w] /\ Posting(w)
    <3>1. /\ status[r] # "unborn" /\ held[r] = "no"
          /\ \A v \in Workers : Posting(v) /\ work[v].run = r => v = w
      BY <1>4, <2>1 DEF Posts
    <3>2. held'[r] = "no"  BY <1>1, <1>4, <2>0, <3>1
    <3>3. ASSUME NEW v \in Workers, Posting(v)', work'[v].run = r PROVE v = w
      BY <1>3, <3>1, <3>3
    <3> QED  BY <2>0, <3>1, <3>2, <3>3 DEF RailsMoves, Steady
  <2>2. CASE /\ held' = held /\ Alone(w)
             /\ \E q \in Runs : status[q] = "unborn" /\ status'[q] # "unborn" /\ work'[w].run = q
    <3>1. status[r] = "unborn" /\ status'[r] # "unborn"  BY <1>4, <2>2
    <3>2. held'[r] = "no" /\ \A v \in Workers : Posting(v) => work[v].run # r
      BY <2>0, <2>2, <3>1 DEF Posts
    <3>3. ASSUME NEW v \in Workers, v # w, Posting(v)' PROVE work'[v].run # r
      <4>1. work'[v] = work[v] /\ Posting(v)  BY <2>2, <3>3 DEF Alone, Posting
      <4> QED  BY <3>2, <4>1
    <3> QED  BY <2>0, <3>1, <3>2, <3>3
  <2> QED  BY <1>3, <1>4, <2>1, <2>2
<1> SUFFICES ASSUME NEW w \in Workers, Posting(w)', NEW r, r = work'[w].run
             PROVE  /\ status'[r] # "unborn" /\ held'[r] = "no"
                    /\ \A v \in Workers : Posting(v)' /\ work'[v].run = r => v = w
  BY <1>2 DEF Posts
<1> QED  BY <1>4

\* What a thread goes on with is never a reconciliation, unless that is what it was at.
LEMMA ThreadJob ==
  ASSUME TypeOK, Numbered, NEW w \in Workers, Step(w), work[w].op # "reconcile"
  PROVE  Alone(w) /\ work'[w].op # "reconcile"
<1>1. ASSUME NEW job, Goes(w, job), job.op # "reconcile" PROVE Alone(w) /\ work'[w].op # "reconcile"
  BY <1>1, GoesTo
<1>2. Idle.op # "reconcile" /\ \A at, r : Job("start", at, r).op # "reconcile"  BY DEF Idle, Job
<1>3. CASE Supersede(w) \/ Create(w)  BY <1>1, <1>2, <1>3, GoesTo DEF Supersede, Create, Done
<1>4. CASE Post(w) \/ Answered(w)  BY <1>1, <1>2, <1>4 DEF Post, Answered, Done
<1>5. CASE \/ SettleStarted(w) \/ SettleFailed(w) \/ SettleClean(w) \/ SettleReview(w)
           \/ SettleNothing(w)
  <2>1. Done(w)  BY <1>5, Settles
  <2> QED  BY <1>1, <1>2, <2>1 DEF Done
<1>6. CASE Git(w) \/ PickSeq(w) \/ Record(w)
  <2>1. work[w] \in Jobs  BY DEF TypeOK
  <2>2. \A n : /\ [work[w] EXCEPT !.at = "pick"].op = work[w].op
               /\ [work[w] EXCEPT !.at = "record", !.seq = n].op = work[w].op
    BY <2>1 DEF Jobs
  <2>3. CASE Git(w)  BY <1>1, <1>2, <2>2, <2>3 DEF Git, Done
  <2>4. CASE PickSeq(w)  BY <1>1, <2>2, <2>4 DEF PickSeq
  <2>5. CASE Record(w)  BY <1>1, <1>2, <2>5 DEF Record, Done
  <2> QED  BY <1>6, <2>3, <2>4, <2>5
<1>7. CASE Interrupted(w)
  <2>1. JobMove(w) /\ JobsMove  BY <1>7, IngestMoves DEF RailsMoves, JobsMove
  <2>2. CASE Done(w)  BY <1>1, <1>2, <2>2 DEF Done
  <2>3. CASE \E e : Ingest(w, "interrupt", e)
    <3>1. PICK e : Ingest(w, "interrupt", e)  BY <2>3
    <3> DEFINE job == [Loaded(Job("interrupt", e.type, e.run)) EXCEPT
                         !.seq = IF Dirty THEN NextSeq(rows', e.run) ELSE 0]
    <3>2. Goes(w, job) /\ job.op = "interrupt"  BY <3>1 DEF Ingest, Loaded, Job
    <3> HIDE DEF job
    <3> QED  BY <1>1, <3>2
  <2> QED  BY <1>7, <2>2, <2>3 DEF Interrupted
<1>8. CASE SweepFail(w) \/ RemoveTree(w)  BY <1>1, <1>2, <1>8 DEF SweepFail, RemoveTree, Done
<1>9. CASE Reconcile(w) \/ Restore(w)  BY <1>9 DEF Reconcile, Restore, Doing
<1> QED  BY <1>3, <1>4, <1>5, <1>6, <1>7, <1>8, <1>9 DEF Step

\* What a thread that sweeps, or reconciles, may do.
LEMMA BootSteps ==
  ASSUME NEW w \in Workers, Step(w)
  PROVE  /\ work[w].op # "idle"
         /\ work[w].op = "sweep" => SweepFail(w)
         /\ work[w].op = "reconcile" => Reconcile(w) \/ Restore(w)
BY VerdictIs
DEF Step, Supersede, Create, Post, Answered, SettleStarted, SettleFailed, SettleClean, SettleReview,
    SettleNothing, Git, PickSeq, Record, Interrupted, SweepFail, Reconcile, Restore, RemoveTree,
    Doing, Settling

LEMMA BootsStep ==
  ASSUME TypeOK, TypeOK', Boots, Numbered, [Next]_vars
  PROVE  Boots'
<1>1. ASSUME UNCHANGED <<status, work>> PROVE Boots'  BY <1>1 DEF Boots
<1>2. ASSUME NEW w \in Workers, Alone(w), ~Booting, work'[w].op # "reconcile" PROVE Boots'
  BY <1>2 DEF Boots, Booting, Alone
<1>3. ASSUME NEW w \in Workers, Alone(w), work'[w].op \in {"idle", "sweep"}, work[w].op # "reconcile",
             \A r \in Runs : status[r] \in Restorable => status'[r] \in Restorable
      PROVE  Boots'
  <2>1. \A v \in Workers : work[v].ids \subseteq Runs  BY DEF TypeOK, Jobs
  <2> QED  BY <1>3, <2>1 DEF Boots, Alone
<1>4. ASSUME NEW w \in Workers, Alone(w), work[w].op = "reconcile",
             work'[w].op = "reconcile" => \A r \in work'[w].ids : status'[r] \in Restorable,
             work'[w].op \in {"idle", "reconcile"}
      PROVE  Boots'
  BY <1>4 DEF Boots, Alone
<1>5. ASSUME NEW w \in Workers, Request(w) PROVE Boots'
  <2>1. UNCHANGED status  BY <1>5, Requests DEF Frame
  <2>2. work' = work \/ (~Booting /\ \E job \in Jobs : Goes(w, job) /\ job.op # "reconcile")
    <3>1. \/ work' = work
          \/ \E job \in Jobs : Goes(w, job) /\ job.op # "reconcile"
      BY <1>5, Requests, VerdictIs
    <3>2. work' = work \/ ~Booting
      BY <1>5 DEF Request, StartLook, Decide, AskInterrupt, Archive, Takes
    <3> QED  BY <3>1, <3>2
  <2> QED  BY <1>1, <1>2, <2>1, <2>2, GoesTo
<1>6. ASSUME NEW w \in Workers, NEW r \in Runs, SweepLook(w, r) PROVE Boots'
  <2>1. /\ UNCHANGED status /\ work[w] = Idle
        /\ Goes(w, Loaded(Job("sweep", "fail", r)))
    BY <1>6 DEF SweepLook, railsVars
  <2>2. Loaded(Job("sweep", "fail", r)).op = "sweep" /\ Idle.op = "idle"  BY DEF Loaded, Job, Idle
  <2>3. work'[w].op = "sweep" /\ Alone(w) /\ work[w].op = "idle"  BY <2>1, <2>2, GoesTo
  <2> QED  BY <1>3, <2>1, <2>3
<1>7. ASSUME NEW w \in Workers, Step(w) PROVE Boots'
  <2>1. CASE work[w].op = "reconcile"
    <3>1. CASE Reconcile(w)
      <4>1. \E job \in Jobs : /\ Goes(w, job) /\ job.op = "reconcile"
                              /\ \A r \in job.ids : status'[r] \in Restorable
        BY <3>1, ReconcileIs
      <4> QED  BY <1>4, <2>1, <4>1, GoesTo
    <3>2. CASE Restore(w)
      <4>1. CASE Done(w)
        <5>1. work'[w].op = "idle" /\ Alone(w)  BY <4>1, GoesTo DEF Done, Idle, Job
        <5> QED  BY <1>4, <2>1, <5>1
      <4>2. CASE \E r \in Runs, job \in Jobs :
                   /\ Goes(w, job) /\ job.op = "reconcile" /\ job.ids = work[w].ids \ {r}
                   /\ Sets(r, "running")
        <5>1. PICK r \in Runs, job \in Jobs :
                /\ Goes(w, job) /\ job.op = "reconcile" /\ job.ids = work[w].ids \ {r}
                /\ Sets(r, "running")
          BY <4>2
        <5>2. \A q \in work[w].ids : q \in Runs /\ status[q] \in Restorable
          BY <2>1, <3>2, RestoreIs DEF Boots, TypeOK, Jobs
        <5>3. \A q \in Runs : q # r => status'[q] = status[q]  BY <5>1 DEF Sets, TypeOK
        <5>4. work'[w] = job /\ Alone(w)  BY <5>1, GoesTo
        <5> QED  BY <1>4, <2>1, <5>1, <5>2, <5>3, <5>4
      <4> QED  BY <3>2, <4>1, <4>2, RestoreIs
    <3> QED  BY <1>7, <2>1, <3>1, <3>2, BootSteps
  <2>2. CASE work[w].op # "reconcile" /\ ~Booting
    BY <1>2, <1>7, <2>2, ThreadJob
  <2>3. CASE work[w].op # "reconcile" /\ Booting
    <3>1. SweepFail(w)
      <4>1. work[w].op \in {"idle", "sweep"}  BY <2>3 DEF Booting, Boots
      <4> QED  BY <1>7, <4>1, BootSteps
    <3>2. Done(w) /\ \A r \in Runs : status'[r] = status[r] \/ status'[r] = "failed"
      BY <3>1, SweepFailIs DEF Appends, Sets, TypeOK
    <3>3. work'[w].op = "idle" /\ Alone(w)  BY <3>2, GoesTo DEF Done, Idle, Job
    <3>4. "failed" \in Restorable  BY DEF Restorable
    <3> QED  BY <1>3, <2>3, <3>2, <3>3, <3>4
  <2> QED  BY <2>1, <2>2, <2>3
<1>8. ASSUME NEW w \in Workers, Deliver(w) PROVE Boots'
  <2>1. UNCHANGED <<status, work>> \/ (status' = status /\ Ingest(w, "ingest", Head(wire)))
    BY <1>8, DeliverIs
  <2>2. ~Booting  BY <1>8 DEF Deliver
  <2>3. CASE Ingest(w, "ingest", Head(wire))
    <3> DEFINE job == [Loaded(Job("ingest", Head(wire).type, Head(wire).run)) EXCEPT
                         !.seq = IF Dirty THEN NextSeq(rows', Head(wire).run) ELSE 0]
    <3>1. Goes(w, job) /\ job.op = "ingest"  BY <2>3 DEF Ingest, Loaded, Job
    <3> HIDE DEF job
    <3>2. work'[w].op # "reconcile" /\ Alone(w)  BY <3>1, GoesTo
    <3> QED  BY <1>2, <2>2, <3>2
  <2> QED  BY <1>1, <2>1, <2>3
<1>9. ASSUME NEW w \in Workers, Restart(w) PROVE Boots'
  <2> DEFINE job == [Job("reconcile", "apply", 0) EXCEPT !.ids = {r \in Runs : held[r] = "live"}]
  <2>1. work' = [v \in Workers |-> CASE v = w -> job
                                      [] work[v].op = "sweep" -> work[v]
                                      [] OTHER -> Idle]
    BY <1>9 DEF Restart
  <2>2. job.op = "reconcile" /\ job.at = "apply" /\ Idle.op = "idle"  BY DEF Job, Idle
  <2> HIDE DEF job
  <2>3. \A v \in Workers : v # w => work'[v].op \in {"idle", "sweep"}  BY <2>1, <2>2
  <2>4. work'[w].at = "apply"
    <3>1. work[w].op # "sweep"  BY <1>9 DEF Restart
    <3>2. work'[w] = job  BY <2>1, <3>1
    <3> QED  BY <2>2, <3>2
  <2> QED  BY <2>3, <2>4 DEF Boots
<1>10. ASSUME NEW w \in Workers, Die(w) PROVE Boots'
  <2>1. Done(w) /\ status' = status  BY <1>10 DEF Die, railsVars
  <2>2. work'[w].op = "idle" /\ Alone(w)  BY <2>1, GoesTo DEF Done, Idle, Job
  <2>3. CASE work[w].op = "reconcile"  BY <1>4, <2>2, <2>3
  <2>4. CASE work[w].op # "reconcile"  BY <1>3, <2>1, <2>2, <2>4
  <2> QED  BY <2>3, <2>4
<1>11. CASE \/ UNCHANGED vars \/ Crash \/ PostFails
            \/ \E r \in Runs : Harness(r) \/ GoesStale(r)
  <2>1. UNCHANGED <<status, work>>
    BY <1>11 DEF vars, railsVars, Crash, PostFails, Harness, Register, StartFails, Edit, End,
                 Heartbeat, GoesStale
  <2> QED  BY <1>1, <2>1
<1> QED  BY <1>5, <1>6, <1>7, <1>8, <1>9, <1>10, <1>11 DEF Next, Sweep

LEMMA InitInv ==
  Init => Inv
<1> SUFFICES ASSUME Init PROVE Inv  OBVIOUS
<1>1. /\ status = [r \in Runs |-> "unborn"] /\ rows = {} /\ wire = <<>> /\ tree.kept = {}
      /\ held = [r \in Runs |-> "no"] /\ work = [w \in Workers |-> Idle]
  BY DEF Init
<1>2. TypeOK
  <2>1. work \in [Workers -> Jobs] /\ \A w \in Workers : Proper(work[w])  BY <1>1, JobsAre
  <2>2. wire \in Seq(Wired)  BY <1>1
  <2>3. spent \in [DOMAIN Limit -> Nat]  BY DEF Init
  <2>4. tree \in [there : BOOLEAN, dirty : SUBSET Runs, kept : SUBSET Runs]  BY DEF Init
  <2>5. archived \in BOOLEAN /\ fresh \in [Runs -> BOOLEAN]  BY DEF Init
  <2> QED  BY <2>1, <2>2, <2>3, <2>4, <2>5 DEF Init, TypeOK
<1>3. \A w \in Workers : work[w].op = "idle"  BY <1>1 DEF Idle, Job
<1>4. Wire  BY <1>1 DEF Wire
<1>5. Posts  BY <1>1, <1>3 DEF Posts, Posting
<1>6. Owed  BY <1>1, UnderIs DEF Owed
<1>7. Ingests  BY <1>3 DEF Ingests
<1>8. Deciders  BY <1>3, VerdictIs DEF Deciders
<1>9. Kept  BY <1>1 DEF Kept
<1>10. Heard  BY <1>3 DEF Heard
<1>11. StatusIsAnnounced  BY <1>1 DEF StatusIsAnnounced
<1>12. Numbered  BY <1>1 DEF Numbered
<1>13. Boots  BY <1>3 DEF Boots
<1> QED
  BY <1>13, <1>2, <1>4, <1>5, <1>6, <1>7, <1>8, <1>9, <1>10, <1>11, <1>12 DEF Inv

LEMMA InvStep ==
  Inv /\ [Next]_vars => Inv'
<1> SUFFICES ASSUME Inv, [Next]_vars PROVE Inv'  OBVIOUS
<1> USE DEF Inv
<1>1. TypeOK' /\ Numbered'  BY TypeStep
<1>2. HarnessMoves  BY HarnessMove
<1>3. RailsMoves /\ Steady  BY RailsMove DEF RailsMoves
<1>4. Wire' /\ \A r \in Runs : Over(r) => Over(r)'  BY <1>1, <1>2, WireStep
<1>5. Posts'  BY <1>1, <1>2, <1>3, PostsStep
<1>6. Owed'  BY <1>1, <1>3, <1>4, OwedStep
<1>7. Ingests'  BY <1>1, <1>3, <1>4, IngestsStep
<1>8. Deciders'  BY <1>1, <1>3, <1>4, DecidersStep
<1>9. Kept'  BY <1>1, <1>3, KeptStep
<1>10. Heard'  BY <1>1, <1>3, HeardStep
<1>11. StatusIsAnnounced'  BY <1>1, <1>3, AnnouncedStep
<1>12. Boots'  BY <1>1, BootsStep
<1> QED  BY <1>12, <1>1, <1>4, <1>5, <1>6, <1>7, <1>8, <1>9, <1>10, <1>11

\* The invariant holds throughout, whatever thread dies, call is lost or process restarts.
THEOREM Invariance == Safety => []Inv
<1>1. Init => Inv  BY InitInv
<1>2. Inv /\ [Next]_vars => Inv'  BY InvStep
<1> QED  BY <1>1, <1>2, PTL DEF Safety

-----------------------------------------------------------------------------
(* What follows for the people who review.                                 *)

\* A review, a decision, a failure and a clean end are in the event stream, for any number of
\* threads and runs: no thread gives a run a status whose event it has not stored.
THEOREM StatusAnnounced == Spec => []StatusIsAnnounced
<1>1. Inv => StatusIsAnnounced  BY DEF Inv
<1> QED  BY <1>1, Invariance, PTL DEF Spec

\* The branch never holds a change that its reviewer rejected, as long as the run had the tree,
\* and its reviewer the run, for itself, and Rails did not end it on its own word.
THEOREM RejectedKeptOut == Spec => []RejectedNeverKept
<1>1. Inv => RejectedNeverKept
  <2> SUFFICES ASSUME Inv, NEW r \in Runs, status[r] = "rejected", r \in tree.kept
               PROVE  r \in shared \/ Guessed(r)
    BY DEF RejectedNeverKept
  <2>1. Loose(r) \/ \E w \in Workers : Approves(w, r)  BY DEF Inv, Kept
  <2>2. \A w \in Workers : Approves(w, r) => Loose(r)
    BY VerdictIs DEF Inv, Deciders, Approves
  <2> QED  BY <2>1, <2>2 DEF Loose, Off
<1> QED  BY <1>1, Invariance, PTL DEF Spec

\* A pending review and a decision stand: only a thread that works with what it loaded before,
\* or an end that Rails guessed, takes them away.
THEOREM ReviewRespected == Spec => ReviewIsRespected
<1>1. Inv /\ [Next]_vars =>
        \A r \in Runs : status[r] \in Decided \cup {"awaiting_review"} /\ status'[r] # status[r] =>
          \/ status[r] = "awaiting_review" /\ status'[r] \in Decided \cup {"superseded"}
          \/ StaleCopy(r) \/ Guessed(r)
  <2> SUFFICES ASSUME Inv, [Next]_vars, NEW r \in Runs, Under(r), status'[r] # status[r], ~Guessed(r)
               PROVE  \/ status[r] = "awaiting_review" /\ status'[r] \in Decided \cup {"superseded"}
                      \/ StaleCopy(r)
    BY DEF Under
  <2>1. Move(r)  BY RailsMove DEF Inv, RailsMoves, Moved
  <2>2. /\ status[r] \in {"approved", "rejected", "awaiting_review"}
        /\ status[r] \notin Restorable \cup Sweepable \cup {"unborn", "destroyed"}
    BY UnderIs
  <2>3. ~Off(r) /\ Over(r)  BY <2>2 DEF Off, Inv, Owed
  <2>4. \A w \in Workers : ~Settler(w, r)  BY <2>3, SettlerIs DEF Inv
  <2>5. held[r] = "ended"  BY <2>3 DEF Over
  <2>6. ASSUME NEW w \in Workers, work[w].run = r, work[w].saw # status[r], work[w].saw # "none"
        PROVE  StaleCopy(r)
    BY <2>6 DEF StaleCopy
  <2>7. ASSUME NEW w \in Workers, Recorder(w, r), status'[r] = Verdict[work[w].op]
        PROVE  \/ status[r] = "awaiting_review" /\ status'[r] \in Decided
               \/ StaleCopy(r)
    <3>1. work[w].run = r /\ work[w].saw = "awaiting_review" /\ status'[r] \in Decided
      BY <2>7, VerdictIs DEF Recorder, Decides, Decided
    <3> QED  BY <2>6, <3>1
  <2>8. ASSUME NEW w \in Workers, work[w].run = r, work[w].saw \in Active, status'[r] = "superseded"
        PROVE  status[r] = "awaiting_review" \/ StaleCopy(r)
    <3>1. work[w].saw # "approved" /\ work[w].saw # "rejected" /\ work[w].saw # "none"
      BY <2>8 DEF Active, Sweepable
    <3> QED  BY <2>2, <2>6, <2>8, <3>1
  <2>9. ASSUME NEW w \in Workers, work[w].run = r, work[w].saw \in Sweepable PROVE StaleCopy(r)
    <3>1. work[w].saw # status[r] /\ work[w].saw # "none"  BY <2>2, <2>9 DEF Sweepable
    <3> QED  BY <2>6, <2>9, <3>1
  <2> QED  BY <2>1, <2>2, <2>4, <2>5, <2>7, <2>8, <2>9 DEF Move
<1> QED  BY <1>1, Invariance, PTL DEF Spec, Safety, ReviewIsRespected

=============================================================================
