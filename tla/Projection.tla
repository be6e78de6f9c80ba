----------------------------- MODULE Projection -----------------------------
(***************************************************************************)
(* How the events table follows the harness's record, and how an owner     *)
(* repairs it when it does not: gap-fill and reset.                        *)
(*                                                                         *)
(* The record is a log that only grows, its position is store_seq.  Events *)
(* reach Rails over the wire, in order (Transport), or by a repair that    *)
(* asks the harness for the log and ingests it again.  Rails adds rows of  *)
(* its own, which the record does not have.                                *)
(*                                                                         *)
(* The model is one lane of one session.  Ingesting one event is one step  *)
(* here (RunLifecycle splits it), a reset is the one transaction it is in  *)
(* the code, and the two reads of a repair and each event of a gap-fill    *)
(* are steps of their own, between which anything may happen.              *)
(***************************************************************************)
EXTENDS Integers, FiniteSets, Sequences

CONSTANTS
  Repairs,     \* bound: repairs asked for
  MaxRuns,     \* bound: runs
  MaxLog,      \* bound: entries of the record
  MaxEvicted,  \* bound: events that the ring buffer drops
  MaxGuesses,  \* bound: runs that Rails fails or forgets on its own
  BatchLimit   \* BATCH_LIMIT: entries that one repair replays

ASSUME ProjectionBounds ==
  /\ IsFiniteSet(Repairs) /\ MaxRuns \in Nat /\ MaxLog \in Nat /\ MaxEvicted \in Nat
  /\ MaxGuesses \in Nat /\ BatchLimit \in Nat \ {0}

Runs == 1 .. MaxRuns
Active  == {"queued", "running", "awaiting_review"}
Decided == {"approved", "rejected"}
Ends    == {"run_finished", "run_failed", "run_interrupted"}

VARIABLES
  log,       \* the record: entries [run, seq, type]; one with seq 0 is store-only
  ring,      \* the transport's ring buffer: the positions it holds, oldest first
  eventRows, \* the events table: [run, seq, type, store]; store 0: Rails appended it itself
  status,  \* ai_runs.status
  dirty,   \* the worktree has uncommitted changes
  repair,  \* Repairs -> what it does: mode, where it is, its cursor, the last position it was
           \* served (history) and what it has still to replay
  \* history
  shown,   \* how often each position was broadcast
  evicted, \* positions the buffer dropped
  dropped, \* positions a reset deleted and did not rebuild
  guesses

recordVars == <<log, ring>>
tableVars  == <<eventRows, status, dirty>>
projectionVars == <<recordVars, tableVars, repair, shown, evicted, dropped, guesses>>

NoRepair == [mode |-> "none", at |-> "none", from |-> 0, upto |-> 0, todo |-> {}]

ProjectionInit ==
  /\ log = <<>> /\ ring = <<>>
  /\ eventRows = {} /\ status = [r \in Runs |-> "unborn"] /\ dirty = FALSE
  /\ repair = [w \in Repairs |-> NoRepair]
  /\ shown = [i \in 1 .. MaxLog |-> 0]
  /\ evicted = {} /\ dropped = {} /\ guesses = 0

-----------------------------------------------------------------------------
(* The record                                                              *)

Positions == DOMAIN log
Emitted   == {i \in Positions : log[i].seq # 0}
Entries(r) == {i \in Emitted : log[i].run = r}
Live(r)   == Entries(r) # {} /\ \A i \in Entries(r) : log[i].type \notin Ends

\* The loop records an event and hands it to the transport.
Emit(r, type) ==
  /\ Len(log) < MaxLog
  /\ log' = Append(log, [run |-> r, seq |-> Cardinality(Entries(r)) + 1, type |-> type])
  /\ ring' = Append(ring, Len(log) + 1)

\* Rails creates the run, the harness takes it and records its start.
Start(r) ==
  /\ status[r] = "unborn" /\ \A q \in 1 .. r - 1 : status[q] # "unborn"
  /\ \A q \in Runs : status[q] \notin Active /\ ~Live(q)
  /\ status' = [status EXCEPT ![r] = "queued"]
  /\ Emit(r, "run_started")
  /\ UNCHANGED <<eventRows, dirty, repair, shown, evicted, dropped, guesses>>

Works(r) ==
  /\ Live(r)
  /\ \/ Emit(r, "tool_finished") /\ dirty' = TRUE
     \/ \E type \in Ends : Emit(r, type) /\ UNCHANGED dirty
     \/ /\ Len(log) < MaxLog /\ log' = Append(log, [run |-> r, seq |-> 0, type |-> "store_only"])
        /\ UNCHANGED <<ring, dirty>>
  /\ UNCHANGED <<eventRows, status, repair, shown, evicted, dropped, guesses>>

\* The ring buffer is full.
Evict ==
  /\ ring # <<>> /\ Cardinality(evicted) < MaxEvicted
  /\ evicted' = evicted \cup {Head(ring)} /\ ring' = Tail(ring)
  /\ UNCHANGED <<log, tableVars, repair, shown, dropped, guesses>>

-----------------------------------------------------------------------------
(* Ingest and Finalize, on a table and the statuses that go with it        *)

Taken(table, r, seq) == seq # 0 /\ \E row \in table : row.run = r /\ row.seq = seq
NextSeq(table, r) ==
  LET seqs == {row.seq : row \in {x \in table : x.run = r}}
  IN  (CHOOSE n \in seqs \cup {0} : \A m \in seqs : m <= n) + 1
RowOf(i) == [run |-> log[i].run, seq |-> log[i].seq, type |-> log[i].type, store |-> i]
Own(r, seq, type) == [run |-> r, seq |-> seq, type |-> type, store |-> 0]
FreeLane(s, r) == \A q \in Runs \ {r} : s[q] \notin Active

\* db is [rows, status, ok].  A unique violation leaves db as it was, and says so: outside a
\* transaction the event counts as skipped, inside one nothing can commit any more.
Refused(db) == [db EXCEPT !.ok = FALSE]

\* enter_awaiting_review: with its changeset_ready, or not at all.
EnterReview(db, r) ==
  LET ready == Own(r, NextSeq(db.rows, r), "changeset_ready")
  IN  IF db.status[r] = "awaiting_review" THEN db
      ELSE IF FreeLane(db.status, r)
           THEN [db EXCEPT !.rows = @ \cup {ready}, !.status[r] = "awaiting_review"]
           ELSE Refused(db)

Settle(db, r, type) ==
  CASE type = "run_started" /\ db.status[r] = "queued" -> [db EXCEPT !.status[r] = "running"]
    [] type = "run_failed" -> [db EXCEPT !.status[r] = "failed"]
    [] type \in {"run_finished", "run_interrupted"} /\ dirty -> EnterReview(db, r)
    [] type \in {"run_finished", "run_interrupted"} /\ ~dirty ->
         [db EXCEPT !.status[r] = "completed_clean"]
    [] OTHER -> db

Ingest(db, i) ==
  IF Taken(db.rows, log[i].run, log[i].seq) THEN Refused(db)
  ELSE Settle([db EXCEPT !.rows = @ \cup {RowOf(i)}], log[i].run, log[i].type)

Db == [rows |-> eventRows, status |-> status, ok |-> TRUE]
Commits(db) == eventRows' = db.rows /\ status' = db.status

\* An event of a run that Rails has destroyed breaks the foreign key.
Orphan(i) == status[log[i].run] = "destroyed"

IngestAndShow(i) ==
  /\ Commits(Ingest(Db, i))
  /\ shown' = [shown EXCEPT ![i] = IF Taken(eventRows, log[i].run, log[i].seq) THEN @ ELSE @ + 1]

\* POST /internal/events.  An orphan is answered 500 and stays at the head of the buffer.
Deliver ==
  /\ ring # <<>> /\ ~Orphan(Head(ring))
  /\ IngestAndShow(Head(ring)) /\ ring' = Tail(ring)
  /\ UNCHANGED <<log, dirty, repair, evicted, dropped, guesses>>

-----------------------------------------------------------------------------
(* What Rails does on its own                                              *)

\* Approve and reject: the tree is clean afterwards, the decision is a row of Rails's own.
Decide(r) ==
  /\ status[r] = "awaiting_review"
  /\ \E verdict \in Decided :
       /\ status' = [status EXCEPT ![r] = verdict]
       /\ eventRows' = eventRows \cup {Own(r, NextSeq(eventRows, r), verdict)}
  /\ dirty' = FALSE
  /\ UNCHANGED <<recordVars, repair, shown, evicted, dropped, guesses>>

\* The health check fails a run it has no news of; a start that timed out destroys the run, and
\* its rows then belong to no run (dependent: :nullify).
Guess(r) ==
  /\ guesses < MaxGuesses /\ guesses' = guesses + 1
  /\ status[r] \in {"queued", "running"}
  /\ \/ /\ status' = [status EXCEPT ![r] = "failed"]
        /\ eventRows' = eventRows \cup {Own(r, 0, "run_failed")}
     \/ /\ status' = [status EXCEPT ![r] = "destroyed"]
        /\ eventRows' = {IF row.run = r THEN [row EXCEPT !.run = 0] ELSE row : row \in eventRows}
  /\ UNCHANGED <<recordVars, dirty, repair, shown, evicted, dropped>>

-----------------------------------------------------------------------------
(* Rederive                                                                *)

Has(i) == \E row \in eventRows : row.store = i
Recorded == {row \in eventRows : row.store # 0}
Newest(positions) == CHOOSE n \in positions \cup {0} : \A m \in positions : m <= n
Cursor   == Newest({row.store : row \in Recorded})

Doing(w, mode, at) == repair[w].mode = mode /\ repair[w].at = at
Goes(w, job) == repair' = [repair EXCEPT ![w] = job]
Gives(w, outcome) == Goes(w, [repair[w] EXCEPT !.at = outcome, !.todo = {}])

\* The cursor is read before the log is asked for.
Ask(w, mode) ==
  /\ repair[w] = NoRepair
  /\ Goes(w, [NoRepair EXCEPT !.mode = mode, !.at = "fetch",
                               !.from = IF mode = "reset" THEN 0 ELSE Cursor])
  /\ UNCHANGED <<recordVars, tableVars, shown, evicted, dropped, guesses>>

\* Faulty variant: the cursor is taken to be the first position that is wanted.
ServedPastNext(after) == {i \in Emitted : i > after + 1}

\* GET /sessions/:id/entries?after=, exclusive: the projection, without store-only entries.
Served(after) == {i \in Emitted : i > after}

\* The first of these positions, as many as the limit allows.
Batch(served) == {i \in served : Cardinality({j \in served : j <= i}) <= BatchLimit}

Fetch(w) ==
  /\ repair[w].at = "fetch"
  /\ \/ LET batch == Batch(Served(repair[w].from))
        IN  Goes(w, [repair[w] EXCEPT !.at = "replay", !.todo = batch, !.upto = Newest(batch)])
     \/ Gives(w, "failed")
  /\ UNCHANGED <<recordVars, tableVars, shown, evicted, dropped, guesses>>

\* Gap-fill: each event as if it were live.  An orphan raises, and ends the repair.
Fill(w) ==
  /\ Doing(w, "gap-fill", "replay")
  /\ \/ repair[w].todo = {} /\ Gives(w, "done") /\ UNCHANGED <<eventRows, status, shown>>
     \/ \E i \in repair[w].todo :
          /\ \A j \in repair[w].todo : i <= j
          /\ \/ Orphan(i) /\ Gives(w, "failed") /\ UNCHANGED <<eventRows, status, shown>>
             \/ ~Orphan(i) /\ IngestAndShow(i) /\ Goes(w, [repair[w] EXCEPT !.todo = @ \ {i}])
  /\ UNCHANGED <<recordVars, dirty, evicted, dropped, guesses>>

\* All the rows that came from the record go, Rails's own stay, and the log is replayed.
Rebuilt(todo) ==
  LET replayed[i \in 0 .. Len(log)] ==
        IF i = 0 THEN [rows |-> eventRows \ Recorded, status |-> status, ok |-> TRUE]
        ELSE IF i \in todo /\ replayed[i - 1].ok THEN Ingest(replayed[i - 1], i)
        ELSE replayed[i - 1]
  IN  replayed[Len(log)]

Replaces(w) ==
  LET todo == repair[w].todo
      db == Rebuilt(todo)
  IN  /\ db.ok /\ \A i \in todo : ~Orphan(i)
      /\ Commits(db) /\ Gives(w, "done")
      /\ dropped' = dropped \cup ({row.store : row \in Recorded} \ todo)

\* The last entry is refused: its seq is taken, its run cannot come under review, or its row
\* came over the wire since the delete.
LastRefused(todo) ==
  LET last == Newest(todo)
  IN  /\ last \in todo /\ \A i \in todo : ~Orphan(i)
      /\ Rebuilt(todo \ {last}).ok
      /\ ~Rebuilt(todo).ok \/ Has(last)

\* Ingest takes a refusal for a duplicate and says so, but PostgreSQL has given up the
\* transaction: the next statement raises, and if there is none, COMMIT rolls back and no one
\* is told: the repair says that it is done ("void").
RollsBack(w) ==
  /\ \/ Gives(w, "failed")
     \/ LastRefused(repair[w].todo) /\ Gives(w, "void")
  /\ UNCHANGED <<eventRows, status, dropped>>

\* Faulty variant: a reset announces what it rebuilds.
RebuildAloud(w) ==
  /\ Doing(w, "reset", "replay")
  /\ \/ /\ Replaces(w)
        /\ shown' = [i \in DOMAIN shown |-> shown[i] + (IF i \in repair[w].todo THEN 1 ELSE 0)]
     \/ RollsBack(w) /\ UNCHANGED shown
  /\ UNCHANGED <<recordVars, dirty, evicted, guesses>>

\* Reset: one transaction, no broadcast.
Rebuild(w) ==
  /\ Doing(w, "reset", "replay")
  /\ Replaces(w) \/ RollsBack(w)
  /\ UNCHANGED <<recordVars, dirty, shown, evicted, guesses>>

-----------------------------------------------------------------------------

ProjectionNext ==
  \/ \E r \in Runs : Start(r) \/ Works(r) \/ Decide(r) \/ Guess(r)
  \/ Evict \/ Deliver
  \/ \E w \in Repairs :
       \/ \E mode \in {"gap-fill", "reset"} : Ask(w, mode)
       \/ Fetch(w) \/ Fill(w) \/ Rebuild(w)

ProjectionSpec == ProjectionInit /\ [][ProjectionNext]_projectionVars

-----------------------------------------------------------------------------
(* Properties.                                                             *)

Clashes(i) == Taken({row \in eventRows : row.store # i}, log[i].run, log[i].seq)

\* A repair repairs: once it is done, the table holds all that it was served, whatever came over
\* the wire, was decided or was repaired meanwhile (rederive.rb:6).  Missing may be only what
\* another reset deleted, and an event of which Rails has taken the seq for a row of its own.
\* A reset whose last entry was refused says that it is done as well and has done nothing
\* ("void", RollsBack): of that one it promises nothing.
Repaired ==
  \A w \in Repairs : repair[w].at = "done" =>
    \A i \in Emitted \cap repair[w].from + 1 .. repair[w].upto :
      Has(i) \/ i \in dropped \/ Clashes(i)

\* No event is shown twice, whether it comes over the wire, by a gap-fill or both: only one that
\* a reset deleted and did not rebuild may be (rederive.rb:17).
ShownOnce == \A i \in Positions : shown[i] <= 1 \/ i \in dropped

=============================================================================
