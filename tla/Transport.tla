------------------------------ MODULE Transport ------------------------------
(***************************************************************************)
(* The channel from the harness to Rails (transport.ts) and the endpoint   *)
(* that ingests what it carries (internal/events_controller.rb, ingest.rb).*)
(*                                                                         *)
(* Durable events wait in a ring buffer.  Every delivery queues a flush;   *)
(* flushes run one after another, and each POSTs the whole buffer.         *)
(* Ephemeral events (deltas) wait in a queue of their own, merged with     *)
(* their neighbours, and one pump POSTs what has gathered.                 *)
(*                                                                         *)
(* An action is the code between two awaits.  Rails takes the events of a  *)
(* POST one at a time, so a POST that fails, or that the harness gave up,  *)
(* may have been ingested in part, and the rest may still be on its way.   *)
(***************************************************************************)
EXTENDS Integers, FiniteSets, Sequences, SequencesExt

CONSTANTS
  StreamOf,     \* the block of each delta: <<session, run, type, block>> in the code
  Merging,      \* the blocks whose deltas accumulate on the client (COALESCING_TYPES)
  MaxBuffer,    \* maxBufferSize
  QueueLimit,   \* EPHEMERAL_QUEUE_LIMIT
  MaxEvents,    \* bound: durable events handed over
  MaxBatch,     \* bound: durable events of one delivery
  MaxFaults     \* bound: POSTs that do not get a 2xx

ASSUME StreamAssumption == StreamOf \in Seq(Range(StreamOf)) /\ Merging \subseteq Range(StreamOf)
ASSUME SizeAssumption ==
  /\ MaxBuffer \in Nat \ {0} /\ QueueLimit \in Nat \ {0}
  /\ MaxEvents \in Nat /\ MaxBatch \in Nat \ {0} /\ MaxFaults \in Nat

VARIABLES
  \* the durable path of the Transport
  buffer,     \* durable events not acknowledged yet, oldest first
  chain,      \* flushChain: flushes not finished, the running one included
  batch,      \* flushOnce: the copy of the buffer its POST carries, <<>> between two
  fatal,      \* Rails refused a POST: nothing is sent any more
  outcome,    \* what the last flush resolved to
  evicted,    \* history: the evictions enqueue logged
  \* the ephemeral path
  queue,      \* ephemeralQueue: entries, each the deltas merged into it
  timer,      \* ephemeralTimer is set
  pump,       \* ephemeralPump: "idle", "posting", or "ending" until its finally has run
  \* graceful shutdown (index.ts)
  closing,    \* "open", "flushing", then "drained" or "deadline" when the process exits
  due,        \* flushes up to and including the one shutdown waits for
  verdict,    \* what that flush resolved to
  joined,     \* shutdown waits for the pump
  \* Rails and the network
  posted,     \* events of the outstanding durable POST that Rails has not taken
  voiced,     \* entries of the outstanding ephemeral POST that Rails has not taken
  strays,     \* what is left of POSTs nobody waits for any more
  rows,       \* the events table, in the order of its ids
  heard,      \* entries, each one event for Rails, in the order it broadcast them
  \* history
  emitted, streamed,   \* events and deltas handed over
  handed,              \* events handed over when shutdown began
  late,                \* an ephemeral POST was given up with entries still on their way
  faults

durableVars   == <<buffer, chain, batch, fatal, outcome, evicted>>
ephemeralVars == <<queue, timer, pump>>
closingVars   == <<closing, due, verdict, joined, handed>>
railsVars     == <<rows, heard>>
vars == <<durableVars, ephemeralVars, closingVars, railsVars,
          posted, voiced, strays, emitted, streamed, late, faults>>

Events == 1 .. MaxEvents
Deltas == DOMAIN StreamOf

Running == closing \in {"open", "flushing"}

Init ==
  /\ buffer = <<>> /\ chain = 0 /\ batch = <<>> /\ fatal = FALSE
  /\ outcome = "acked" /\ evicted = {}
  /\ queue = <<>> /\ timer = FALSE /\ pump = "idle"
  /\ closing = "open" /\ due = 0 /\ verdict = "none" /\ joined = FALSE /\ handed = 0
  /\ posted = <<>> /\ voiced = <<>> /\ strays = {} /\ rows = <<>> /\ heard = <<>>
  /\ emitted = 0 /\ streamed = 0 /\ late = FALSE /\ faults = 0

-----------------------------------------------------------------------------
(* Durable delivery.                                                       *)

\* enqueue: each event pushed into a full buffer evicts the oldest one, and logs it.
Enqueue(events) ==
  LET all  == buffer \o events
      over == IF Len(all) > MaxBuffer THEN Len(all) - MaxBuffer ELSE 0
  IN  /\ buffer' = SubSeq(all, over + 1, Len(all))
      /\ evicted' = evicted \cup Range(SubSeq(all, 1, over))

\* Faulty variant: join a flush that is queued or running.
JoinFlush == IF chain > 0 THEN chain ELSE 1

\* flush: one more link of the chain, also while a POST is outstanding.
Flush == chain + 1

\* deliverDurable: the caller does not await the flush it queues.
DeliverDurable(n) ==
  /\ Running /\ emitted + n <= MaxEvents
  /\ Enqueue([i \in 1 .. n |-> emitted + i])
  /\ emitted' = emitted + n
  /\ chain' = Flush
  /\ UNCHANGED <<batch, fatal, outcome, ephemeralVars, closingVars, railsVars,
                 posted, voiced, strays, streamed, late, faults>>

\* What is left of a POST that the harness gave up and Rails has not.
Stray(kind, rest) == IF rest = <<>> THEN {} ELSE {[kind |-> kind, rest |-> rest]}

\* A flush resolves and the next one of the chain may start.
Resolve(o) ==
  /\ chain' = chain - 1 /\ outcome' = o /\ batch' = <<>>
  /\ due' = IF due > 0 THEN due - 1 ELSE 0
  /\ verdict' = IF due = 1 THEN o ELSE verdict
  /\ UNCHANGED <<closing, joined, handed>>

\* flushOnce with nothing it could send.
FlushNothing ==
  /\ Running /\ chain > 0 /\ batch = <<>>
  /\ fatal \/ buffer = <<>>
  /\ Resolve(IF fatal THEN "fatal" ELSE "acked")
  /\ UNCHANGED <<buffer, fatal, evicted, ephemeralVars, railsVars, posted, voiced, strays,
                 emitted, streamed, late, faults>>

\* flushOnce up to its await: POST a copy of the buffer.
PostBuffer ==
  /\ Running /\ chain > 0 /\ batch = <<>> /\ ~fatal /\ buffer # <<>>
  /\ batch' = buffer /\ posted' = buffer
  /\ UNCHANGED <<buffer, chain, fatal, outcome, evicted, ephemeralVars, closingVars, railsVars,
                 voiced, strays, emitted, streamed, late, faults>>

\* Faulty variant: clear the buffer.
SplicedWhole == <<>>

\* buffer.splice(0, batch.length): as many from the head as were sent.
Spliced == SubSeq(buffer, Len(batch) + 1, Len(buffer))

\* 2xx: Rails has been through the whole batch.
Acknowledge ==
  /\ Running /\ batch # <<>> /\ posted = <<>>
  /\ buffer' = Spliced
  /\ Resolve("acked")
  /\ UNCHANGED <<fatal, evicted, ephemeralVars, railsVars, posted, voiced, strays,
                 emitted, streamed, late, faults>>

\* 5xx, after any part of the batch; or a network error, which may leave the POST on its way.
FailTransiently ==
  /\ Running /\ batch # <<>> /\ faults < MaxFaults
  /\ faults' = faults + 1
  /\ strays' \in {strays, strays \cup Stray("durable", posted)}
  /\ posted' = <<>>
  /\ Resolve("buffered")
  /\ UNCHANGED <<buffer, fatal, evicted, ephemeralVars, railsVars, voiced,
                 emitted, streamed, late>>

\* 4xx: refused before anything was ingested, and nothing is sent from now on.
Refuse ==
  /\ Running /\ batch # <<>> /\ posted = batch /\ faults < MaxFaults
  /\ faults' = faults + 1
  /\ fatal' = TRUE /\ posted' = <<>>
  /\ Resolve("fatal")
  /\ UNCHANGED <<buffer, evicted, ephemeralVars, railsVars, voiced, strays,
                 emitted, streamed, late>>

-----------------------------------------------------------------------------
(* Ephemeral delivery.                                                     *)

\* mergeable: the last entry is the same block of a type that accumulates.
Mergeable(entry, d) == StreamOf[Last(entry)] = StreamOf[d] /\ StreamOf[d] \in Merging

\* Faulty variant: merge into the latest entry of the same block.
QueuedAnywhere(d) ==
  LET same == {i \in DOMAIN queue : Mergeable(queue[i], d)}
  IN  IF same # {} THEN [queue EXCEPT ![CHOOSE i \in same : TRUE] = Append(@, d)]
                   ELSE Append(queue, <<d>>)

\* enqueueEphemeral: merge into the last entry only; a full queue drops its oldest.
Queued(d) ==
  IF queue # <<>> /\ Mergeable(Last(queue), d)
  THEN [queue EXCEPT ![Len(queue)] = Append(@, d)]
  ELSE Append(IF Len(queue) >= QueueLimit THEN Tail(queue) ELSE queue, <<d>>)

\* scheduleEphemeralFlush: the timer is set, unless it already is.
ScheduleFlush == timer' = TRUE

\* deliverEphemeral: resolves on enqueue.
DeliverEphemeral ==
  /\ Running /\ streamed + 1 \in Deltas
  /\ queue' = Queued(streamed + 1)
  /\ streamed' = streamed + 1
  /\ ScheduleFlush
  /\ UNCHANGED <<durableVars, pump, closingVars, railsVars, posted, voiced, strays,
                 emitted, late, faults>>

\* drainEphemeral at the top of its loop: POST all that has gathered, or return.
Drain ==
  /\ queue' = <<>>
  /\ voiced' = queue
  /\ pump' = IF queue = <<>> THEN "ending" ELSE "posting"

\* pumpEphemeral: join the pump that runs, or start one.
PumpEphemeral == IF pump = "idle" THEN Drain ELSE UNCHANGED <<queue, voiced, pump>>

\* The window of EPHEMERAL_FLUSH_MS is over.  A timer never fires between the microtasks
\* in which a pump ends.
TimerFires ==
  /\ Running /\ timer /\ pump # "ending"
  /\ timer' = FALSE
  /\ PumpEphemeral
  /\ UNCHANGED <<durableVars, closingVars, railsVars, posted, strays, emitted, streamed,
                 late, faults>>

\* Faulty variant: one batch per pump.
DeltasAnsweredOnce ==
  /\ Running /\ pump = "posting" /\ voiced = <<>>
  /\ pump' = "ending"
  /\ UNCHANGED <<durableVars, queue, timer, closingVars, railsVars, posted, voiced, strays,
                 emitted, streamed, late, faults>>

\* postEphemeral returns: an answer of any status.
DeltasAnswered ==
  /\ Running /\ pump = "posting" /\ voiced = <<>>
  /\ Drain
  /\ UNCHANGED <<durableVars, timer, closingVars, railsVars, posted, strays, emitted, streamed,
                 late, faults>>

\* ... or a failure: an answer that cut the batch short, a network error, or the deadline
\* of EPHEMERAL_POST_TIMEOUT_MS with the POST still on its way.
DeltasFail ==
  /\ Running /\ pump = "posting" /\ faults < MaxFaults
  /\ faults' = faults + 1
  /\ \/ UNCHANGED <<strays, late>>
     \/ /\ strays' = strays \cup Stray("ephemeral", voiced)
        /\ late' = (late \/ voiced # <<>>)
  /\ Drain
  /\ UNCHANGED <<durableVars, timer, closingVars, railsVars, posted, emitted, streamed>>

\* The pump's `finally`, a microtask after its loop returned.
PumpEnds ==
  /\ Running /\ pump = "ending"
  /\ pump' = "idle" /\ joined' = FALSE
  /\ UNCHANGED <<durableVars, queue, timer, closing, due, verdict, handed, railsVars, posted,
                 voiced, strays, emitted, streamed, late, faults>>

-----------------------------------------------------------------------------
(* Graceful shutdown: flushWithTimeout, then exit.                         *)

Shutdown ==
  /\ closing = "open"
  /\ closing' = "flushing" /\ handed' = emitted
  /\ chain' = Flush /\ due' = Flush
  /\ timer' = FALSE /\ PumpEphemeral /\ joined' = TRUE
  /\ UNCHANGED <<buffer, batch, fatal, outcome, evicted, verdict, railsVars, posted, strays,
                 emitted, streamed, late, faults>>

\* Both flushes are done, or the timeout elapsed.
Exit ==
  /\ closing = "flushing"
  /\ closing' = IF due = 0 /\ ~joined THEN "drained" ELSE "deadline"
  /\ UNCHANGED <<durableVars, ephemeralVars, due, verdict, joined, handed, railsVars, posted,
                 voiced, strays, emitted, streamed, late, faults>>

-----------------------------------------------------------------------------
(* Rails: EventsController#create goes through a batch with Events::Ingest.*)

\* Faulty variant: no unique index on (ai_run_id, seq).
IngestAgain(e) == rows' = Append(rows, e)

\* A durable event gets a row unless (ai_run_id, seq) has one already.
Ingest(e) == rows' = IF e \in Range(rows) THEN rows ELSE Append(rows, e)

IngestPosted ==
  /\ posted # <<>>
  /\ Ingest(Head(posted)) /\ posted' = Tail(posted)
  /\ UNCHANGED <<durableVars, ephemeralVars, closingVars, heard, voiced, strays,
                 emitted, streamed, late, faults>>

\* An ephemeral event is broadcast and forgotten.
BroadcastVoiced ==
  /\ voiced # <<>>
  /\ heard' = Append(heard, Head(voiced)) /\ voiced' = Tail(voiced)
  /\ UNCHANGED <<durableVars, ephemeralVars, closingVars, rows, posted, strays,
                 emitted, streamed, late, faults>>

\* A POST the harness gave up is still worked on, interleaved with the later ones.
IngestStray ==
  \E s \in strays :
    /\ strays' = (strays \ {s}) \cup Stray(s.kind, Tail(s.rest))
    /\ \/ s.kind = "durable" /\ Ingest(Head(s.rest)) /\ UNCHANGED heard
       \/ s.kind = "ephemeral" /\ heard' = Append(heard, Head(s.rest)) /\ UNCHANGED rows
    /\ UNCHANGED <<durableVars, ephemeralVars, closingVars, posted, voiced,
                   emitted, streamed, late, faults>>

-----------------------------------------------------------------------------
Next ==
  \/ \E n \in 1 .. MaxBatch : DeliverDurable(n)
  \/ FlushNothing \/ PostBuffer \/ Acknowledge \/ FailTransiently \/ Refuse
  \/ DeliverEphemeral \/ TimerFires \/ DeltasAnswered \/ DeltasFail \/ PumpEnds
  \/ Shutdown \/ Exit
  \/ IngestPosted \/ BroadcastVoiced \/ IngestStray

\* Node runs what is ready, a timer that is set fires, and Rails works through the POST that
\* is waited for, or fails it.  Nobody owes a delivery, a shutdown or the end of a stray POST.
Fairness ==
  /\ WF_vars(FlushNothing \/ PostBuffer \/ Acknowledge)
  /\ WF_vars(TimerFires) /\ WF_vars(DeltasAnswered \/ PumpEnds)
  /\ WF_vars(IngestPosted) /\ WF_vars(BroadcastVoiced)

Spec == Init /\ [][Next]_vars /\ Fairness

-----------------------------------------------------------------------------
(* Properties.                                                             *)

\* Durable events that are neither in Rails nor in the buffer.
Vanished == {e \in 1 .. emitted : e \notin Range(rows) \cup Range(buffer)}

\* Without an overflow no durable event ever vanishes, whatever POSTs fail, arrive late or
\* arrive twice; with overflows, no more events vanish than evictions were logged
\* (transport.ts, flush and flushOnce: "ack: clear exactly what we sent").
LossIsLogged == Cardinality(Vanished) <= Cardinality(evicted)

\* Rails holds the durable events once, in the order of their emission and without a gap,
\* even when a POST that failed is ingested at the same time as its retry.
RowsInOrder == evicted = {} => rows = [i \in 1 .. Len(rows) |-> i]

\* Arrival order equals emission order, inside a merged event and from one to the next, as
\* long as no ephemeral POST was given up (transport.ts, deliverEphemeral: "One request in
\* flight at a time").
Rising(entry) == \A k, l \in DOMAIN entry : k < l => entry[k] < entry[l]
Before(entry, next) == \A k \in DOMAIN entry, l \in DOMAIN next : entry[k] < next[l]
InOrder(entries) ==
  /\ \A i \in DOMAIN entries : Rising(entries[i])
  /\ \A i, j \in DOMAIN entries : i < j => Before(entries[i], entries[j])
DeltasInOrder == ~late => InOrder(heard)

\* A shutdown whose flush drained and was acknowledged left nothing behind that had been
\* handed over before it (index.ts, flushWithTimeout).
ShutdownDrains ==
  closing = "drained" /\ verdict = "acked" /\ evicted = {} => 1 .. handed \subseteq Range(rows)

\* Whatever was handed over is in the end ingested, unless a flush failed, Rails refused, the
\* buffer overflowed or the process exits: again and again Rails holds all there is.
EventsArrive ==
  []<>(Range(rows) = 1 .. emitted \/ outcome # "acked" \/ evicted # {} \/ ~Running)

\* "A dropped ephemeral is acceptable; a never-sent one is not" (transport.ts): the queue of
\* deltas empties again and again.
DeltasLeave == []<>(queue = <<>> \/ closing # "open")

\* Nothing that was handed over, durable or not, stays behind in the harness.
NothingStays == EventsArrive /\ DeltasLeave
=============================================================================
