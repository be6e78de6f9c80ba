# clawdparty: a TLA+ model

clawdparty lets several people drive one AI coding agent. Three programs cooperate:

* the **harness** (`src/harness`, TypeScript) owns the agent loop and a SQLite record per session;
* the **API** (`src/api`, Rails) starts runs, ingests the harness's events into a projection,
  finalizes runs and lets people review their changes;
* the **web client** (`src/web`) follows a session's events live.

This directory holds TLA+ modules of the parts that can go wrong in ways a test would hardly reach,
TLC configurations that check them on small instances, and TLAPS proofs of the main theorems.

Contents: 1 inventory, 2 how the modules fit together, 3 the modules and their correspondence to
the code, 4 the runs with bounds and fairness, 5 what is proved, 6 what the models showed of the
code, 7 what is not modelled.

## 1. Inventory

| Component | Code | State | Operations | Hard behaviour | Module |
|---|---|---|---|---|---|
| Agent loop | `harness/src/loop/run_loop.ts`, `checkpoint.ts`, `normalize.ts`, `stop_reasons.ts` | turns, resume attempt, inbox, abort signal, next seq, failure streak | turn boundary, request intent, stream, settle, tool dispatch, terminate | a crash between any two commits; a stream that fails half way; tools with side effects; interrupts at any await | `HarnessRun`, `ProviderStream` |
| Store | `harness/src/store/store.ts`, `schema.sql`, `lane_scope.ts` | log, registers, usage ledger, writer lock | commit, reserveUsageId, allocateSeq, claim, release | UNIQUE violations are skipped in silence; two lanes share one file | `HarnessRun`, `Supervisor` |
| Recovery | `harness/src/store/recovery.ts` | the record only | one of five actions per unfinished run | crash inside recovery; calls that may or may not have happened | `HarnessRun`, `ToolLedger` |
| Supervisor | `harness/src/supervisor.ts`, `index.ts` | live runs, open stores and their references | start, follow-up, interrupt, recover, heartbeat, shutdown | state checked before an await and used after it; two processes and one lock | `Supervisor` |
| Transport | `harness/src/transport.ts` | ring buffer, flush chain, delta queue and pump | deliverDurable, deliverEphemeral, flush | lost, late and refused POSTs; eviction while a POST is in flight | `Transport` |
| Request builder | `harness/src/loop/request_builder.ts`, `context/compaction.ts` | none: a fold of the record | fold, pair, translate, size, rebuild | calls without answers, two lanes on one surface, limits that meet | `Conversation`, `RequestShape` |
| Provider streams | `providers/anthropic_family.ts`, `converse_*.ts` | the mapper of one stream | raw events to blocks, calls, stop reasons | cut streams, blocks without a start, narrated calls | `ProviderStream` |
| Provider logins, models | the other `providers/*`, `credentials/*` | an adapter's remembered token; the process's refused read | discover, probe, build a client, list, verify | a login that changes between two looks; adapters that must not share one; a list with repeats | `Credentials`, `Providers`, `BedrockCatalogue` |
| Extensions | `harness/src/extensions/host.ts`, `points.ts` | session choice, registry of a run, strikes | toggle, dispatch | a gate that hangs, throws or is switched off | `Extensions` |
| Skills | `harness/src/skills.ts`, `skills_admin.ts` | two roots, two graveyards, a run's index | add, replace, remove, resolve, load | a write cut short; a body removed under a run | `Skills` |
| Tools, connectors | `harness/src/tools/*`, `mcp/*` | the one child a bash tool remembers | bash, create, str_replace | one remembered child shared by many runs; links | `Tools`; connecting and closing in `Supervisor` |
| Ingestion, projection | `api/app/services/events/*` | events table, store_seq cursor | ingest, append, gap-fill, reset | duplicates, gaps, effects outside the transaction | `Transport`, `EventFeed`, `Projection` |
| Run lifecycle | `api/app/services/runs/*`, `harness/reconcile.rb`, `jobs/harness/*` | run status | start, revise, finalize, approve, reject, interrupt, sweep, reconcile | late events against decisions and a health check | `RunLifecycle` |
| Worktrees | `api/app/services/git/*` | a tree and a branch per lane | create, commit, reset, remove, diff | git acts outside the transaction; lanes that conflict | `Worktrees`, `RunLifecycle` |
| Sessions, participants, invites | `api/app/models/*`, `policies/*`, controllers | rows, roles, feed | join, remove, chat, archive, toggle, manage skills | an act and its announcement are two transactions | `Room` |
| Web event store | `web/src/stores/event_store.ts`, `lib/cable.ts` | ordered event list, live text | backfill, live delta, navigation | late join, two catch-ups at once | `EventFeed` |
| Contracts | `packages/contracts` | none | types | none | |

How they interact: Rails calls the harness over HTTP (start, message, interrupt, toggle, skills); the
harness posts durable envelopes and unbuffered deltas back; Rails rebuilds what it missed from the
harness's log, paged by `store_seq`; the web client gets what Rails broadcasts and backfills the
rest. Inside the harness the loop, the recovery and the lanes of a session share one store through
synchronous commits, and all runs of a process share one transport and one default tool registry.

What makes each component correct:

* *Loop, store, recovery*: a tool starts at most once and never without a durable mark; every call
  gets exactly one answer; no entry vanishes but the result of a repeated call id; a terminal run never
  changes again; a run ends unless it waits on something that never answers.
* *Supervisor*: one writer per store; a store is closed when, and only when, nobody uses it.
* *Transport*: an event handed over is acknowledged, still buffered, or knowingly refused, and
  arrives in order.
* *Request builder*: every request is one the provider accepts, extends the one before, and can be
  rebuilt from the record.
* *Providers*: however an answer arrives, the record holds each of its blocks once and whole; the
  credential a run records is the one it sends; a login or a model is offered by one adapter.
* *Extensions*: a tool runs only past every gate. *Skills*: managing them destroys nothing.
* *Tools, worktrees*: stopping a run stops its command and no other; a rejection undoes the run.
* *Run lifecycle*: a decision is not undone by a late event; git and the feed agree; a run that
  nobody holds frees its lane.
* *Projection and web store*: a repair repairs; nothing is shown twice; gaps have a reason.
* *Room*: the feed says what was done, and only members act.

`PROJECT.json` lists the hazards at their lines with the properties that cover them, and maps each
definition to the lines it models.

## 2. How the modules fit together

```
ToolLedger  <--implements--  HarnessRun --- HarnessRunProofs
Choosing, RequestShape --- Conversation ------+
Credentials, BedrockCatalogue --- Providers --+-- ProviderProofs
Choosing --- ProviderStream ------------------+
Providers, ProviderStream --- ProvidersMC
Extensions, Skills --- Room --- RoomProofs
Tools --- Worktrees --- WorktreesProofs
Transport --- TransportProofs            Supervisor --- SupervisorProofs
RunLifecycle --- RunLifecycleProofs      EventFeed ---+-- EventFeedProofs
                                         Projection --+
```

A line is EXTENDS where it says nothing else; `ToolLedger` is an INSTANCE inside `HarnessRun`.
`EventFeedProofs` and `ProvidersMC` extend two specifications that share no variable, `ProviderProofs`
three. Modules that no line joins each
take from their neighbours what those show: `RunLifecycle`, `Projection` and `EventFeed` take the order of
delivery from `Transport`; `Transport` and `Projection` take a record that only grows from `HarnessRun`;
`Conversation` and `ProviderStream` refine what one turn of `HarnessRun` leaves open; `Supervisor`
refines who may run it. They are not composed into one state machine: their product is far out of
TLC's reach, and each boundary is one of the interfaces above.

`<Module>MC` holds the instance for TLC. A definition whose comment begins "Faulty" is a mutation
that a plausible bug would make; no action uses it.

Still worth doing: the wire of `HarnessRun` through `Transport` into `Projection` as one module; the
gate of `Extensions` awaited between `Conversation`'s build and intent.

## 3. The modules

### HarnessRun

One session: the `RunLoop` of each run, the record they share, a crash, and `recoverSession`.
The process is single-threaded, so **an action is the code between two awaits**, split further
where the code commits twice, since a crash can fall between two commits.

| Variable | Code |
|---|---|
| `phase`, `reqkey`, `plan`, `status`, `replay` | the `run.position` register (`types.ts`, `checkpoint.ts`): its phase, the settlement key of the pending request, the calls of a `tools` position with their status and replay policy |
| `entries`, `storeSeq`, `lost` | the insert-only `entries` table, its AUTOINCREMENT counter, and the entries `insertEntry` skipped on a UNIQUE violation (history) |
| `usage`, `owner` | the usage ledger and the `lane.state` register |
| `mode`, `todo`, `current`, `notes` | the process: serving, down or recovering; `recoverSession`'s queue and its unsent announcements |
| `skipped` | history: the unfinished runs of a session that `recoverAll` skipped at this boot because a dead writer's lock was fresh |
| `loop` | per run: where its loop stands (`pc`), turns, attempt, next seq, running call, abort flag, inbox, failure streak, the log position folded into the request and the recorded boundary, the reserved usage id, the outcome |
| `effects`, `shipped`, `accepted` | history: tools started, envelopes handed to the transport, follow-ups acknowledged |

| `pc` | Await the loop stands at |
|---|---|
| `turn` | top of the `while` |
| `gate` | `request:before` handlers, after the fold |
| `stream` | the provider stream, after `commitRequestIntent` |
| `stopped` | an `end_turn`, before the inbox is looked at |
| `calls`, `marked`, `running` | `tool:before`; the call's mark is durable and the tool is about to start; the tool has started and is waited for |
| `ending`, `closing` | `run:complete` handlers, the supervisor's `finally` |

Abstractions, all of data: a payload is dropped; a tool call is its occurrence in a response, and
`IdOf` gives the id it came under, which is unique within a response but which a later one may repeat
(narrated calls, `converse_response.ts:47`); a settlement key is the call's *id* or the request's
`<<turn, attempt>>`, and that is what `insertEntry` compares (`Duplicate`); a failing tool only
moves the failure streak, handlers and the provider answer anything. `Start` merges the lane
claim with the loop's opening commit, because nothing reads `lane.state` before the run's own
release.

### ToolLedger

What the harness promises about tool calls, with neither loop nor crash: calls are planned when
nothing is owed, begun at most once, answered exactly once and not begun afterwards, and a run ends
owing nothing. `HarnessRun` implements it under the mapping at its end (`LedgerSpec`).

### ProviderStream

One turn's answer on its way from the wire into the record: raw events through the adapter's mapper,
the normalizer and `streamTurn`.

| Variable | Code |
|---|---|
| `path` | how the adapter reads an answer: `"family"` (`anthropic_family.ts`, shared by the three Anthropic adapters), `"converse"` (`converse_stream.ts`), `"replay"` (`converse_response.ts`, an unstreamed answer played back as a stream) |
| `said`, `wire` | external: the blocks as the provider means them, and where the stream is |
| `st` | `opened`, `held`: the mapper's open blocks and deferred stop reason; `acc`, `seq`, `turn`: the normalizer; `durable`, `blocks`, `calls`, `stop`: what `streamTurn` gathers; `shown`: deltas already sent; `next`: the replay's next block index |
| `log`, `run`, `past` | the recorded entries, the loop's decision, the answers that settled (history) |

A text is the number of pieces it comes in. `Cut` is a connection that ends without an error: it settles as
`end_turn` with half-open blocks, so properties speak of answers that were not cut. `Unknown` is a start or
delta that the mapper of Converse hands on as `raw`; an answer may end for any reason its path knows,
whatever blocks it has. `Read` takes one raw event through mapper, normalizer and loop (`Take` once for each
provider event that the mapper makes of it); `TakeAll` and `ReadAll` are the two `for` loops, as recursive
functions. Its names (`StreamInit`, `StreamNext`, `StreamSpec`) leave `Init` and `Next` to the modules it is
checked and proved beside.

### Credentials, BedrockCatalogue, Providers

`Credentials` is the logins of a host as a record (environment variables, files, the Keychain's item)
and the pure functions over them: the slots of `discoverAnthropicCredential` and
`discoverAwsCredential`, of which the first that is *claimed* wins, usable or not, and which
credential the client of each adapter ends up with. `BedrockCatalogue` is what the two adapters of
AWS keep of one listing: a profile is a scope and a model.

| Variable of `Providers` | Code |
|---|---|
| `env`, `at` | `process.env`, fixed while the process runs; the logins, which change at any moment |
| `readFailed` | the process-wide memory of a refused Keychain read (`keychain.ts`) |
| `call` | per use (`GET /models`, `POST /verify`, a run) and adapter: where it stands between two awaits, the source it recorded, the token it remembers, what its last client was built with, the reason or models it answered with; `moved` (history) says that the host changed while a run's probe was out |

`Asks` probes all four adapters at once, as `Promise.all` does; each then waits for its provider. A
run keeps one adapter for its turns (`StartsRun`, `TurnProbed`, `NextTurn`). What a provider answers is
external: anything to a credential that could be valid, a refusal to a blank one.

### Conversation, RequestShape

`Conversation` is what the model is sent: the fold over the surface (`foldSurface`), the pairing of calls
with results, the translation to a provider's dialect, and `reconstruct`. The cache breakpoints that `build`
also computes are left out: no adapter reads them. `surface` holds the entries with `on_surface = 1`;
`header` the record's last `request_header`; `loop` per lane the run, its position (`turn`, `asking`,
`tools`, `answered`, `recovering`), the first entry it folds, the answers it owes and the request it sent
last with the record's boundary at that time. The folds are recursive functions over the number of entries,
and so is the filter `Chosen`, which it shares with `ProviderStream` (module `Choosing`), because the prover
cannot expand `SelectSeq` or `FoldLeft`. `RequestShape` holds the pure arithmetic: which thinking and how
many tokens a request asks for from what an adapter declares of a model. `Build` is the fold and the intent
in one step: what another lane may write during `request:before` is `HarnessRun`'s subject.

### Supervisor

The harness process around its runs, for one session and several processes.

| Variable | Code |
|---|---|
| `host`, `cache`, `runs`, `awaited` | a process: its stage from boot to exit, the `stores` map (handle and references), the `runs` map, the runs a shutdown waits for |
| `task` | a request between two of its awaits; one that starts a run goes on as that run until its store is released |
| `handle`, `lock` | the open stores, and `session.lock` with its owner and whether its heartbeat is recent |
| `leaked`, `lapsed` | history: tasks that failed holding a reference; the lock of an open store has gone stale |

### Transport

The channel from the harness to Rails, with the endpoint that ingests what it carries. An action is
the code between two awaits on the harness's side and one event of a batch on Rails's side.

| Variable | Code |
|---|---|
| `buffer`, `fatal` | the fields of `Transport` |
| `chain`, `batch`, `outcome` | `flushChain` as the number of flushes not resolved, the copy the running `flushOnce` posted, what the last one resolved to |
| `queue`, `timer`, `pump` | `ephemeralQueue` (an entry is the deltas merged into it), `ephemeralTimer`, `ephemeralPump`; `"ending"` is the time between the return of `drainEphemeral` and its `finally` |
| `closing`, `due`, `verdict`, `joined` | the shutdown of `index.ts`: which flush and which pump it waits for |
| `posted`, `voiced`, `strays` | what Rails has not taken yet of the two outstanding POSTs, and of those nobody waits for any more |
| `rows`, `heard` | the events table in id order, the deltas in the order they were broadcast |
| `evicted`, `late`, `handed`, ... | history: logged evictions, a POST given up with deltas under way, what was handed over before shutdown |

Event and delta are numbers in the order of their emission; `StreamOf` gives the block of a delta.
A POST that gets a 5xx has been ingested up to any point; one that meets a network error, or the
deadline of an ephemeral POST, may go on being ingested beside its retry. Abstracted: Rails's
`rejected` (an invalid envelope is answered 200 and dropped), and which 4xx it was.

### Projection

How the events table follows the record, and how an owner repairs it. `log` is the record with its
positions (`store_seq`), `ring` what the transport holds, `eventRows` the events table, `status` the runs,
`repair` a gap-fill or a reset under way with the cursor it read and the batch it was served. A live
event, each event of a gap-fill and each read are steps of their own; a reset's replay is the one
transaction it is in the code (`Replaces`), which a unique violation or an event of a destroyed run aborts.
`Ingest` rescues the violation inside the transaction and without a savepoint, so PostgreSQL refuses
every statement after it; if there is none, COMMIT rolls back without an error and the reset says that it
is done (`RollsBack`, `void`).

### EventFeed

How a browser follows a session: `inserting`, `rows`, `announcing` are the three stages of an event
in a Rails thread (id taken, committed, about to be broadcast); `stream` and `wire` are the socket,
with the confirmation that calls `connected()`; `fetches` the backfills under way; `view`, `ctl`,
`live`, `buffer` the controllers of the sessions opened so far, of which only the last is not
stopped; `store` the one event store of the page, whose events are a set (`seen`), because the list that
is shown is that set in the order of the ids. A session stands for one run with one block, so
that live, settled and ended text are sets of sessions. `mixed` is history: rows of another session than
the one in view got into the store.

### RunLifecycle

What Rails makes of a run. Every request, posted event and job is a thread; between two of its
statements any other thread may run, it may die, and what it loaded does not follow the database.

| Variable | Code |
|---|---|
| `status`, `rows`, `archived`, `fresh` | `ai_runs.status`, the events table, the session's mark, "created or named in a heartbeat in the last 15 s" |
| `work` | a thread: its operation, the statement it is before, the run it loaded and the status it saw, the seq it picked |
| `tree` | the worktree: is it there, whose edits are uncommitted, whose are committed |
| `held`, `top`, `aborted`, `wire`, `posting` | the harness as Rails sees it: the runs it holds, their last seq, what it has been told to stop, its buffer, and whether a POST of it is in the air or queued |
| `shared`, `spent` | history: runs that shared tree, harness or decision with another; the bounds |

A POST that is refused leaves its events in `wire` and sets `posting` to false: nothing posts them again
before the next event (`PostFails`, `PostLost`; `transport.ts:241`). The health check runs in the `jobs`
container, so it survives a `Restart` of the web server and sweeps beside `harness:reconcile`, which is
two steps: `Reconcile` fails the runs the harness has lost, `Restore` puts one after the other back.

### Extensions, Skills, Room

`Extensions` is a session's choice of contributors (`plugins`) and, per lane, the run with its registry:
which handlers are bound, their strikes, and the dispatch under way (who was asked, who let it pass, who
substituted). `Skills` is the two managed roots, their graveyards and the index a run was given: a run of a
chat session reads the repository's root, one of a review session its worktree's copy of it (`OwnSkillsOf`),
about which management says nothing. `Room` composes both with Rails: participants, invites, the feed, and
requests that check, act and announce in separate steps over several threads, one of which may be lost, with
a harness that may crash or fail while it writes a skill. The roots are not the session's own:
`AskSkillThere` is another session on the machine that manages the same skills. Its events go to its own
feed; `feed` is both in the order of their events, and those of the other session are by row 0. An act of
one row and no later step (generating or revoking an invite, archiving) is one action. Users are the display
names they join under, because the code knows them by nothing else.

### Tools, Worktrees

`Tools`: `current` is `BashTool.current` of each registry (0 is the one that all runs without connectors or
skills share), `command` the bash call of each run, `tree` the content of each path by who wrote it last. A
stop kills the shell; what it had started goes on (`left`), may change the tree after the call was answered,
and may put a link in the way of a path that was checked. `Link` is a link out of the worktree, `Dangling`
one to nothing yet, through which `create` writes (`WriteOut`); `outside` and `through` are the runs that
wrote out, and those that did so through such a link. `Worktrees` adds `branch`, the commits of a lane, and
the start, end, approval and rejection of runs with `Diff` and `LaneConflicts`. A review's check, its git
commands and its record are one step here; `RunLifecycle` interleaves them.

### The proof modules

`HarnessRunProofs`, `SupervisorProofs`, `TransportProofs`, `RunLifecycleProofs`, `WorktreesProofs`,
`RoomProofs` (with `Extensions` and `Skills`), `EventFeedProofs` and `ProviderProofs` each hold the
inductive invariants of their module and what follows from them; `ProviderProofs` also the arithmetic of a
request (`RequestShape`) and the invariant of the conversation it is folded from (`Conversation`) and that
of an answer on its way into the record (`ProviderStream`), `EventFeedProofs` also the invariant of the
table behind the feed (`Projection`). The invariants of `ProviderProofs` are three modules without theorems:
`ConversationInvariant`, `StreamInvariant` and `CredentialsInvariant`. See section 5.

## 4. The runs

| Run | Question | Distinct states |
|---|---|---|
| `harness_crashes` | one run, three calls of which two have one id, two crashes, an interrupt, a restart that may meet the dead writer's lock: is the record always consistent, does the harness implement `ToolLedger`, does every run end that waits on nothing for ever? | 842,397 |
| `harness_lanes` | two lanes of one store, two crashes, recoveries that re-execute tools, boots that skip the session: is everything else recovered before serving, is a never-call started again only where a recovery that ran it under no mark died? | 2,528,063 |
| `transport` | three durable events through a buffer of two, four deltas of two blocks, one failed or refused POST, a shutdown: does anything vanish, arrive out of order, or wait for nobody? | 1,407,012 |
| `feed` | two sessions opened, one drop, one failed backfill or broadcast, two Rails threads: is stale live text shown, what can a feed that has caught up miss? | 3,820,651 |
| `lifecycle` | two threads, two runs of a lane, a revise, two decisions, a start that times out, an archive: does the feed explain the status, is a rejected change never kept, is a review respected? | 2,554,947 |
| `lifecycle_frees` | one run with an interrupt, a start that times out, a crash of the harness, a dying thread, a restart and refused POSTs: does a lost run free its lane, is a report recorded whose POST did not fail? | 322,362 |
| `supervisor` | two processes, three requests, a kill and a SIGTERM over one store: one writer, counted references, an exit that leaves no lock? | 621,391 |
| `projection` | two repairs beside a live, evicting harness: does a repair repair, is a row shown once? | 318,258 |
| `conversation` | two lanes, two models, one crash: is every request accepted, an extension of the last, and rebuildable? | 450,405 |
| `providers` | two scenes: a listing, a verification or a run beside logins that come and go (75,118 states), and answers of two blocks by each path over two turns: is the recorded credential the one sent, is a login or a model offered once, is the record the answer, does live text settle, is an announced call dispatched exactly when the answer stopped for it? | 1,563,554 |
| `room` | seven scenes of requests by two members, and by another session, on two threads: do gates hold, is the room told, do removed members act, are skills kept? | 1,875,356 |
| `worktrees` | two lanes, three runs, three tool calls, links and what commands leave behind: are commands stopped, does a rejection undo, are conflicts reported? | 665,936 |

All twelve hold. Where a property names an exception ("unless ..."), the exception is a behaviour the
code has and section 6 describes; without it TLC finds that behaviour.

### Bounds

* `harness_crashes`: two crashes are the least that put a crash inside the recovery from a crash; three
  calls the least that have one completed, one pending and one still planned over two turns, with the id
  of the first repeated in the second.
  `MaxBlocks = 1` lets a turn's events collide or be dropped. `harness_lanes`: two runs in two lanes
  are the least that share a store.
* `transport`: a buffer of two and three events are the least that evict an event of a POST in flight
  and leave one behind it; the deltas are two of one block around one of another and one more, so that
  merging, not merging and a full queue all happen. A POST carries one event, so that a flush takes
  several.
* `feed`: two rows are the least that commit in the wrong order, two sessions the least for a stale
  backfill.
* `lifecycle`: two threads and two decisions make the two reviewers; one timed-out start makes the
  run that Rails forgot. Crashes, deaths and restarts are 0 there and 1 in `lifecycle_frees`, which gives
  up the second run and the decisions for them; the theorems cover all of them together.
* `supervisor`: two processes for the lock, three requests so that one may find the store cached while
  another opens it and a third ends; three stores opened in all. A suspended process
  (`MaxLapses`) is left out of the instance; a lock that lapses during a shutdown is in it.
* `projection`: a batch limit of two with three positions makes a truncated repair.
* `conversation`: limits of a few tokens placed so that a budget just fits and a headroom does not;
  a surface of four entries; one model that narrates its calls.
* `providers`: one use at a time (`MaxUses = 1`: uses share nothing but the refused read), all four
  adapters in it; environments and logins one at a time and in the pairs of which one hides the other;
  a listing with a repeat, an empty one, and one of each kind of model. For the stream two blocks of two
  pieces, two turns, one resume. The scenes have no variable in common, so their next-state relation is
  the disjunction of the two. A block of an unknown kind counts as one of the two blocks.
* `room`: `RoomMC.Scenes` lists what may happen together (`there`: requests of the other session, `fault`: a
  write that fails); one behaviour with all budgets at once does
  not finish. The strike limit is the code's three; a graveyard name has two candidates where the code
  tries fifty.
* `worktrees`: one tracked, one new and one ignored path. Three calls are the least for a link, a
  write through it and a command beside them.

Lanes, threads, processes, sessions and repairs are symmetric where the configuration says so, and
no run with symmetry checks liveness. Deadlock checking is off because a session in which every run has
ended, or every bound is used up, really stops.

### Fairness

* `HarnessRun`: weak fairness of each run's loop step, except while it waits for a tool or for a stream that
  nobody has interrupted (`WaitsFor`). Node runs every ready continuation, a handler is given up at its
  deadline (`points.ts:194`), and a stream ends once its signal fires. A tool owes nothing: `bash` answers
  when its pipes close, which its descendants decide (`bash.ts:141`), and an MCP server may be silent.
  Nothing is assumed of boots or recoveries, because the harness is a process of the host that nothing
  restarts (`docker-compose.yml:7`); so `EveryRunEnds` says of a process that lives on that the run ends or
  from some point on waits for ever. No choice between the actions of a loop is assumed fair: the provider
  may ask for tools forever, so the property rests on `MAX_TURNS`.
* `Transport`: a link of the flush chain runs, a timer fires, a pump ends, and Rails goes through the POST
  that is waited for and answers it. Of the actions named together in one conjunct of `Fairness` one is
  enabled at a time. Deliveries, shutdown and stray POSTs owe nothing.
* `RunLifecycle`: a thread that has begun goes on, the health check runs every five seconds, time
  passes, a start that the harness works on ends one way or the other, and a batch is taken while a POST of
  it is in the air or queued. No timer posts again what was refused (`transport.ts:243`), so `EventsAreTaken`
  promises nothing of events that wait for a next one. That a run ends is not assumed.
* The other modules have safety properties only and assume nothing.

## 5. What is proved

With tlapm, for every set of runs, lanes, calls, processes, threads, members, skills and contributors
and every value of the limits, under the named assumptions of each module: `None` is none of the things
it stands beside; limits are natural numbers; ranks of contributors differ; the threads of a process
and the requests made of it are finite in number (`Supervisor`, `RunLifecycle`: references are counted,
a free thread is looked for); the kinds of the rows and the number of sessions opened are arbitrary
(`EventFeed`); a skill on disk is a directory of one of the kinds the scan knows
(`Skills`); the readers of the skills are the lanes (`Room`).

Each proof rests on one inductive invariant. None of the properties is inductive itself: they speak of
what can be seen in the end, the invariants of what keeps it from going wrong meanwhile.

**`HarnessRunProofs`.** `TypeOK` alone is not inductive, because seqs and usage ids are computed as the
highest element of a set, which is only a number when there is one. `SeqInv` carries that each run's
seqs and the usage ids have a highest element, and that a live loop's counter is at or above every seq
its run has in the record: `TypeCorrect`. On top of it:

* `Control`: `PhaseInv`, the position register matches where the loop stands; `HostInv`, recovery never
  meets a live loop; `PlanInv`, plans of different runs are disjoint and hold the calls that are planned
  or pending; `CallInv`, the call a loop runs is its own and marked. `CallsStartOnce`: `~Reexecute`
  implies `[]StartedUnderMark`, with `EffectInv` (a loop about to start a tool has not started it
  before): only `RunTool` starts one, from a state `ClearCall` made by turning a `planned` mark into
  `effect_pending`; no step turns a mark back, and no other run can touch it.
* `Surface`: a completed call has one answer, recorded or lost, and another none (`AnswerInv`), a request's
  settlement key is unused while it is pending (`KeyInv`), and what was lost was the answer of a call whose
  id another call of the run had been answered under. Each step is described by the batch it
  adds; `SeqInv` says a batch's seqs are new and `Surface` that its keys are, but for repeated ids.
  `RecordKept`: `[]LostToRepeats`; `CallsAnsweredOnce`: `[]EveryCallAnswered`; `EndedRunsStay`:
  `TerminalIsFinal`. Nothing is assumed of `IdOf`.
* `StartInv` (an unused call, or a planned one of a live loop, was never started) gives `StartsAreOnce`:
  `NeverRestarted` whatever recovery is given. `RecoverInv` (an unsettled run that was not skipped has a live
  loop while serving, and is queued or in hand while recovering) gives `RecoveredFirst`:
  `[]RecoveredBeforeServing`, with no assumption on how soon a boot follows a crash.
* `HarnessKeepsTheLedger`, `Spec => LedgerSpec`: under the refinement mapping every step of a loop or of
  a recovery opens, plans, begins, answers or ends, or stutters; a crash stutters, because everything the
  mapping reads is durable.

**`SupervisorProofs`.** As long as no lock of an open store went stale, an open store is the one that the
lock names (`Held`), so a second cannot be opened: `OneWriterHolds`. The process that caches the store
counts exactly the tasks that use it, the leaked references and its own recovery (`Kept`), which each
step changes by as many as begin or cease to use it: `ReferencesCounted`. At an exit nothing counts any
more, but for the exceptions `CleanExit` names: `ExitsClean`.

**`TransportProofs`.** The buffer is the last of the events handed over (`Window`), and the batch of the
POST under way is a run of them that starts no later than the buffer does (`InFlight`). When an
acknowledgement splices the buffer it takes as many events that were not posted as were evicted from
the batch, so each event that vanishes is charged to one eviction (`Charged`): `LossLogged`. What Rails
is sent continues what it has, or repeats it (`Ordered`): `RowsOrdered`. Chain links are resolved in
order, so the flush a shutdown waits for comes after all that was handed over (`Drained`):
`ShutdownDrained`. Deltas heard, posted and queued follow one another (`Live`), and merging two keeps
that because no third of another block lies between them: `DeltasOrdered`. The run has a batch limit
of one, the theorems any.

**`RunLifecycleProofs`.** What a thread loaded is worth nothing by itself, so the invariant ties each thread
to the database only through what no other thread can undo. `Heard`: an event whose effect a thread is about
to settle is stored, hence `StatusAnnounced`. A run that Rails did not end on its own word is under review
only when the harness has said its last (`Owed`), the threads that would settle it are done by then
(`Ingests`), and a run that never shared its reviewer is decided by one thread (`Deciders`): so what git
keeps of it was approved or is about to be (`Kept`), `RejectedKeptOut`, and its status stands,
`ReviewRespected`. While the web server boots only the sweep works beside its reconciliation, so a run that
was to be restored when it was loaded still is (`Boots`).

**`WorktreesProofs`.** A live command whose run has its registry for itself is the child the registry
remembers (`Children`), so that stopping the run kills its shell: `CommandsStopped`. A run that wrote
outside the worktree did so through a dangling link, or in a lane where something a command left behind is
at work (`Escapes`). A lane has one run at work or under review, its newest (`Newest`); an edit in a lane's
tree is of a run of the lane that was not rejected, and one on its branch of a run that nobody can reject
any more (`Trees`): `RejectionUndoes`. The last approval is the end of its branch, and each run started at a
commit of it (`Branches`): so the diff of a lane, against where its run started, and the commits of the
others, against theirs, are the changes themselves: `ConflictsReported`.

**`RoomProofs`.** `GatesHold`, `ExtensionsSpec => []GateHolds`: while a call's gate is under way the
handlers asked have all let it through, because a refusal or a failure leaves the gate and a substitute
leaves it for the tool; the order of the handlers is strict on those still standing, which bounds the
ones a substitute skips. `RoomKeepsTheRules`, `Spec => ExtensionsSpec`: every step of the room is one of
Extensions or leaves the rules alone, hence `GatesHoldInTheRoom`. `SkillsKept`: a body leaves a directory
only for the graveyard, under a name that was free, or because it was to be replaced. For the feed each
subject (the rules, a skill's place) is in doubt, about to be told by one request, or its newest row in
the feed is the truth (`Changes`); a row of participants is announced once and then removed at most once
(`People`), unless it was removed before its joining was announced, which leaves it in doubt; a promised
skill of a managed root is there or its removal is told or about to be (`Promises`): `ToldAlways`.
Who was told of as removed is removed, and who chats or joins asked before it was told (`Asked`):
`RemovedNoMore`.

**`EventFeedProofs`.** What one event does to the store is a case of `Apply`; that a catch-up, which applies
a backfill and a buffer one event after the other, does so for each of them is an induction over their
numbers, done by hand from the least number it fails at (`Counting`, `Applied`). `Fresh`, the store knows of
each block and run it has a row of that it is over, gives `LiveTextFresh`. For gaps: as long as no backfill
failed and no row of another session was shown (`Clear`), a row that was announced is doomed (its
announcement failed or came after a younger row was visible), safe (in the store, or in a backfill under
way), on the socket or held back (`Reached`). That lasts because nothing is ever passed over: a row no
younger than the last one in the store, than the cursor or the answer of a backfill, or than a row held
back, is doomed or in one of them (`Behind`), which in turn needs that the socket is in order but for
overtaken rows (`Socket`) and that a cursor is a row of its session (`Cursors`). Once all is settled only
the doomed are missing: `GapsExplained`.

Of the table behind the feed (`Projection`): a seq of a run belongs to one entry of the record (`Numbered`),
and a row is of the entry it names, or of no run once its run is destroyed, or Rails's own, and then, if it
has a seq, of a run that no start is waited for (`Truthful`). So a row that has an entry's run and seq is
that entry's or Rails's own (`ClashingRow`), which neither a reset nor a destroyed run takes away. Ingesting
one event keeps what is there and leaves its seq taken (`IngestKeeps`); a reset's replay is an induction
over the record, by hand (`Replayed`, `RebuiltKeeps`). What was shown has its seq taken, or is an orphan, or
was dropped (`Shows`), hence `NeverShownTwice`; what a repair was served is still to be replayed, or there,
dropped or clashing (`Repairing`), and the batch it was served leaves nothing out below its newest
(`BatchIs`), hence `RepairsRepair`.

**`ProviderProofs`.** `RequestFits`: for a model that takes at least what its adapter declares
(`DeclaresNoMore`, the theorem's assumption), a request asks for neither thinking nor a size the model
refuses; `AnswerKeepsItsRoom`: a thinking budget is only spent beside the room of the answer.

For the conversation, `ConversationStaysSane` carries `Sane`, a conjunction over the record and every
lane. An entry holds calls, or the result of one under its id, or neither; a result stands behind its
run's call and its lane wrote only results of that response in between (`Recorded`); the calls a lane
owes are its last response's (`Owing`); a lane that asks has folded the record from a prompt to its
boundary (`Asking`, `Busy`); nobody starts while a lane recovers (`Exclusive`); and what a lane sent last is
such a fold, after which, if it was built with no other lane's call under way, no result of an earlier
call is written (`Asked`, `Apart`). Each step moves one lane and writes at most one entry, which
`LoopStep` says once for all of them. TLC found `Sane` true on the run's instance before it was proved.
From it:

* `RequestsAreAccepted`. Without interleaving and with each id called once, the window a request is folded
  from is `Orderly`: a kept result stands behind its call with only other results of that response
  between. `FoldInOrder` is an induction over the window, by hand (`Counting`): folding an
  orderly window gives messages in which each answers the calls of the one before (`InOrder`), with what
  the last one calls still due. `OrderIsAccepted`: saying them in another dialect drops no call and no
  result, and a message it empties held neither, so the provider takes what is left. The size is
  `RequestFits`.
* `RequestsAreRebuilt`. What follows the boundary does not change the fold up to it, and the last header
  before it is the run's own because no other lane wrote one.
* `PrefixesAreStable`. The later window extends the earlier one, and with `Apart` what the first fold kept of
  its entries the second keeps, and no more; joining to the last message appends to the
  blocks, so the flat list of the first is a beginning of that of the second.

For the credentials, `FirstClaimedIs` says which slot wins, and `DiscoveredIs` what that leaves for a
source to be: the documented order, or one of three Claude logins with nothing documented above it.
`OffersAre` says of any listing that each adapter keeps a model once and that the two keep different
ones. `OfferedOnceHolds`: an adapter serves only some time after its probe, when the logins that its
probe saw may be gone, so what a probe did not refuse counts as serving from the moment it was sent
(`LaneInv`, `BlankInv`); that both are probed in one step is what keeps them apart. `RecordHoldsAlways`:
while a turn's probe is out its source is what would be discovered now, of the environment in any
case and otherwise unless the host has changed, and a Keychain login is in the adapter's hand (`Pending`), so
that the client built afterwards carries it (`PendingSends`). The sets of environments, logins and
listings are arbitrary.

For the stream, `AnswersAreGathered` carries `Streaming`. The three properties speak of settled answers
only, so it says what is true while one comes in:

* `Gathering`. The durable events gathered so far are, as type and text, what the blocks said so far mean
  (`Heard`); between blocks that is all of them, within a block all but the open one, whose accumulator
  holds as much text as has been said of it (`OpenBlock`). Each block that the normalizer knows has shown
  as many deltas as it holds (`AccIsShown`); each but the open one has one event, under its own key
  and with its text, and no event but an unkeyed raw one is without a block (`EventsAreKeyed`); each
  kept block and each call has its event (`BlocksAreTold`). The mapper of Converse knows the open block
  alone, with the same text (`MapperIsOpen`), which is why the text a block ends with is the text that was
  shown.
* `History`. A turn has one answer at most, entries and shown keys are of turns begun, and from
  the moment an answer has stopped its reason is held by the mapper or already with the loop, mapped
  (`StoppedBy`): what `DispatchTools`, `GoOn`, `FailTurn` and `Finish` then decide follows from it.
* `AnswersHold`. Every settled answer is recorded as it was meant (`IsRecorded`), which implies the three
  properties: `AnswersAreRecorded`, `LiveTextsSettle`, `AllCallsAreDispatched`.

Per raw event a lemma says what `Read` makes of it on either path (`ReadStart`, `ReadDelta`, `ReadStop`,
`ReadRaw`); the replay of a whole response is at most five of them in a row (`ReplayIs`). Settling appends a
turn's entries behind those of earlier turns, so that what an earlier answer has in the record, and what was
shown of it, stays what it was (`OfLater`, `RecordedLater`), and what the new one has is exactly its entries
(`OfNow`), of which one carries the blocks (`EntriesAreRecorded`). Filters and concatenations are recursive,
so their laws (`Chosen` and `FlattenSeq` of a longer sequence) are inductions by hand over `Counting`, as
for the conversation. TLC checked `Streaming` on the run's instance first. The proof needed one conjunct
that the first draft did not have: no stop reason is held while an answer comes in, without which `Close`
might let one of an earlier turn decide.

Only model-checked:

* `EveryRunEnds`, `NothingStays`, `NothingIsStuck`: liveness under fairness is out of this prover's reach.
* That the definitions mean what they should for actual values: the theorems are about every instance, the
  runs about one that shows the interesting cases happen and, by their mutants, that each property
  can fail.

Every other property of every run, invariants and action properties alike, is a theorem.

## 6. What the models showed of the code

Behaviours met while modelling, each at its line. None is asserted by a run as a violation; where one
is the exception in a property, the property's name is given.

### Loop, store and recovery

* `recovery_applied` takes the highest recorded seq plus one and is never recorded (`recovery.ts:305`):
  the next recovery of that run uses the seq again and Rails skips it as a duplicate. It and
  `provider_error` are the only envelopes shipped without a commit before.
* The `run_interrupted` of an uncertain request is settled in the record and never shipped
  (`recovery.ts:131`); recovering a checkpoint resumes no loop (`recovery.ts:70`).
* With a `reexecute` callback, which the supervisor does not pass today, two crashes start a planned
  call twice even under policy `never` (`recovery.ts:188`): `NeverRestarted` names this exception, and
  `StartedUnderMark` is stated without re-execution.
* `reserveUsageId` (`store.ts:422`) reads without allocating: of two lanes in flight the second loses
  its usage row. With two lanes the recorded prefix boundary covers entries of the other lane that the
  request did not fold (`run_loop.ts:317`).
* A failed stream leaves a hole in the run's seqs, and its deltas have been shown (`run_loop.ts:321`,
  `:543`). A follow-up answered 200 lives in the inbox until the next `end_turn` (`run_loop.ts:452`) and
  dies with the process.
* A restart sooner than the lock goes stale skips the session's recovery while the process serves
  (`supervisor.ts:416`, `store.ts:163`), against `index.ts:424`, "RECOVER BEFORE SERVING". Those runs are
  `skipped`, the exception of `RecoveredBeforeServing`.
* The settlement key of a result is its call's id (`checkpoint.ts:123`, "unique, known before the effect
  starts"), and narrated calls have the same ids in every response (`converse_response.ts:47`): a
  second call under an id runs, is marked completed, and `insertEntry` skips its result (`store.ts:281`).
  `LostToRepeats` says that nothing else is ever lost. The starts are not confused, because the plan of a
  turn is its own: `StartedUnderMark` and `EveryCallAnswered` (an answer is written, recorded or skipped)
  need no assumption on ids.
* A tool may never answer, and then nothing ends its run: `bash` resolves on `close`, which a descendant
  that keeps stdout open holds off through time-out and interrupt (`bash.ts:114`, `:141`). A stream that
  stays silent is ended by nothing but an interrupt. Both are the exception of `EveryRunEnds`.

### Transport and the two readers

* An eviction while a POST is in flight makes its ack splice one event too many (`transport.ts:238`). A
  buffered event is posted again only by the next delivery or by shutdown (`transport.ts:243`, "will
  retry"): the last event of a run whose POST was refused waits for the next run. `EventsAreTaken` excepts
  it. A delta POST given up at its deadline may be broadcast after the next one (`transport.ts:203`).
* A ring-buffer hole below the highest `store_seq` is never filled by a gap-fill (`rederive.rb:12`). A
  reset drops rows that race it or lie past its 5000; it replays `Finalize` and so undoes a decision's
  status; a unique violation or an entry of a destroyed run aborts it, and each later repair. If the entry
  that is refused is the last one replayed, the aborted transaction is committed, which PostgreSQL answers with
  a rollback and no error (`rederive.rb:71`, `ingest.rb:74`): the reset reports success and has changed
  nothing. `Repaired` promises nothing of such a reset.
* Catch-up in the browser is not gap-free with two Rails threads, because ids are taken before commit
  (`cable.ts:49`); a failed backfill leaves the controller not live until the next `connected()`
  (`cable.ts:126`), which starts a second catch-up beside the first (`use_session_events.ts:42`); `stop()`
  does not stop a backfill under way (`cable.ts:50`), which fills the next session's store. The last id of
  such a store is the cursor of the next catch-up (`cable.ts:49`) and hides older rows of the session's
  own, even after the session was left and opened again: four sessions in a row show it, which the run
  does not open. The proof of `GapsAreExplained` did, and `~mixed` excludes it.

### Supervisor and tools

* `heartbeat()` overwrites the lock and `close()` deletes it whoever owns it, and commits do not check
  ownership. SIGTERM stops the heartbeat while runs still write, as does a beat that returns early once
  `fatal`: a live writer can then be reclaimed, which `index.ts:303` says cannot be. A run started during
  shutdown is cut by `process.exit` and leaves its lock.
* An unknown provider or a duplicate tool id leaks a reference to the store and the connectors
  (`supervisor.ts:212`); a connector that connects after its timeout is never closed; two starts in one
  lane both pass the check (`supervisor.ts:205`).
* Runs without connectors or skills share one `BashTool` with one `current` (`supervisor.ts:154`): stopping
  one run kills whichever command started last, and a command that ends makes the tool forget another's,
  whose abort and timeout then stop nothing; `independent_interrupt.test.ts:144` expects otherwise.
  `CommandsAreStopped` is stated for a command that had the registry to itself.
* SIGKILL reaches the shell only (`bash.ts:148`, "let bash tear down its own children", which a killed bash
  does not): its descendants go on, hold the pipe, and write on in the tree. `CommandsAreStopped` is about
  the shell.
* `containForCreate` takes a dangling link for a path that is not there yet (`paths.ts:76`), and
  `writeFileSync` follows it (`text_editor.ts:106`): `create` makes a file outside the worktree, which no
  rejection undoes. `RejectUndoes` excepts it, and a lane where a process that a command left behind may
  change a path between its check and the write.
* An abort fired before a command starts never reaches its listener. File tools may write ignored paths,
  which neither diff nor reject sees: `RejectUndoes` excludes those, and a lane on which a command
  committed.

### Requests and answers

* `adapterFor` builds fresh adapters per run, and only `listModels` fills their capability cache: a run
  on `anthropic-direct` or `anthropic-oauth` always uses the conservative fallback (no thinking, 8192
  tokens, no compaction), against `anthropic_direct.ts:171`. Compaction concerns adapters passed in through
  the options.
* `build` computes cache breakpoints (`request_builder.ts:30`, `:174`), and no adapter reads them
  (`anthropic_direct.ts:182`, `anthropic_oauth.ts:245`): no request carries one. With the one of the system
  block there may be five, where the constant says four. They are not modelled.
* A native call in an answer that ends in `refusal`, `end_turn`, `pause_turn` or a guardrail
  (`converse_stream.ts:37`, `converse_response.ts:118`) is announced by `tool_started` and never dispatched
  (`stop_reasons.ts:77`): the room waits for a result that nobody owes. `CallsAreDispatched` states both halves.
* Nothing checks a declared ceiling against the model's: `DeclaresNoMore` is an assumption.
* A narrated call's id is made of its place in the response (`converse_response.ts:47`), so it repeats in
  every turn and every run. In one run the second turn's result is skipped as a duplicate
  (`checkpoint.ts:123`, `LostToRepeats`); in two, an unanswered call is taken to be paired with another
  run's result (`request_builder.ts:101`). Either way later requests are refused or no extension of the
  earlier ones. `RequestIsAccepted` and `PrefixIsStable` exclude a session in which calls were narrated
  twice. That the ids collide across runs came out of the proof: the exception for one run did not carry the
  induction, and TLC then found the violation on a longer surface than the run's.
* Two lanes that interleave within a tool turn leave a call and result on the surface that no request
  can use; a late result of another lane makes a request no extension of the one before. A run severed
  by `resume_context: false`, or beside which another lane wrote, cannot be rebuilt from its record.
* A Converse stream that ends without `messageStop` settles as `end_turn` with half-open blocks, as does
  one that ends in an exception event; a truncated answer may announce a call that never runs; replay
  drops encrypted reasoning.

### Credentials and models

* A failed probe makes a turn record `none`, and the turn is sent all the same with whatever a client
  built without a probe finds (`run_loop.ts:967`); `RecordHolds` speaks of turns that record a source.
* Of a discovered profile the host-login adapter takes a Claude file instead if there is one, and
  else builds a client without arguments (`anthropic_oauth.ts:306`), though its comment says never; the
  credential is discovered again after the probe was awaited, so a login that changes meanwhile is sent
  under the name of the old one. The direct adapter's comment that both are the same
  (`anthropic_direct.ts:212`) holds within the exceptions of `RecordHolds`.
* `AWS_PROFILE` is recorded whenever it is set, also when the session's profile or
  `HARNESS_AWS_PROFILE` is what signs (`anthropic_bedrock.ts:231`, `discover.ts:239`). `GET /models` and
  `POST /verify` build adapters without a session's profile (`index.ts:115`), so what they list may be
  another account's than the run's, which the comment at `anthropic_bedrock.ts:396` means to exclude.
* A blank `HARNESS_AWS_PROFILE` or `AWS_REGION` is taken as it is and hides the variable after it (`??`,
  `anthropic_bedrock.ts:231`, `:322`), while a blank `AWS_PROFILE` counts as absent to `discover.ts:240`.
* `verifyProvider` lists outside its `try` (`verify.ts:57`): one provider whose listing fails
  fails the request of all, against the comment at `verify.ts:123`. Only the Anthropic Bedrock adapter
  says why a listing failed; the others are `unreachable`.
* Rails deletes the cached listing after a verification (`providers_controller.rb:34`); a fetch that began
  before may put the old one back.

### Extensions and skills

* The loop looks only for a refusal: a `replace` at `tool:before` runs the original input and skips the
  gates after it (`points.ts:22`); the value rewritten at `request:before` is ignored, although
  `run_loop.ts:238` says it may rewrite what is claimed. `GateHolds` counts those gates as skipped.
* A gate disabled after three strikes lets later calls through, though `points.ts:85` says a hung gate must
  not silently permit. Strikes live as long as a run's registry, not the session.
* `setPluginEnabled` writes the record and Rails appends the announcement apart, though `host.ts:138` says
  one transaction; a toggle in a build without a contributor forgets that contributor's choice.
* Skills of the host are the machine's and those of a project the repository path's, while `skill_changed`
  goes to the feed of the session that changed them (`skills_controller.rb:90`): a second session is not
  told of what its next run will read. `RoomIsTold` takes the feeds of both together. A run of a review
  session reads the skills of its worktree (`start.rb:74`, `supervisor.ts:237`), which managing does not
  change at all.
* A write of a skill that fails after `mkdir` is answered 500 and leaves a bare directory that nobody is
  told of (`skills_admin.ts:119`).
* `scan()` follows links and `readBody` is contained, so a linked skill is listed and cannot be loaded
  (`skills.ts:55`). A crash between `mkdir` and the write leaves a bare directory that blocks a plain add;
  over an old file it leaves it empty, which the request had asked to replace: `SkillsAreKept` holds.

### Runs, worktrees and rooms

* A revise is not restricted to runs awaiting review: it supersedes a live one, and a refusal by the
  harness destroys the new run and leaves the old superseded (`start.rb:81`). `superseded` has no event.
* A late `run_failed` overwrites a decision (`finalize.rb:48`) when Rails had guessed the end; after a guess
  `changeset_ready` or `approved` takes a seq that the harness still uses, and an approval may commit in git
  and fail to record. The health check reads a status and writes later (`jobs/harness/*`), over a review.
  `ReviewIsRespected` excludes a guessed end and a thread that holds a stale copy.
* A start that times out destroys a run that the harness may hold: its events violate the foreign key
  (`ingest.rb:79`) and the batch stays at the buffer's head. Archiving removes a tree that a run started
  meanwhile may use (`sessions_controller.rb:84`). Two reviewers may both decide (`approve.rb:25`).
* `LaneConflicts` misses untracked files of the other lane, a bash `git commit` puts edits on the branch
  without review, and an approval commits what the tree holds, not what was shown.
* An act and its announcement in a room are two transactions: an effect may stay unannounced, two toggles
  may be announced in the other order, two removals are announced twice (`participants_controller.rb:53`). A
  user is a display name; one joined twice has two rows, of which `participant_for` takes any, and removing
  one leaves access. A removed participant's open socket survives. One may be removed before the joining was
  announced (`participants_controller.rb:54` does not ask), and is then announced as joined afterwards.

## 7. Not modelled

* `packages/contracts` is types and validation of envelopes; landing pages, forms, diff rendering and
  the other components of the web client keep no state another part reads, and its selectors are
  functions of the event list.
* The transform of a tool's input by a handler (`points.ts:213`, `run_loop.ts:624`): which gate let a call
  pass is modelled, the value it passed on is not. The renames that a diff lists as `old => new`
  (`diff.rb:61`) after a `git mv` in a command. An owner who moves a session to another repository
  (`sessions_controller.rb:147`) and with it to other project skills. Links from one lane's worktree into
  another's.
* Cache breakpoints, which leave the harness by no adapter.
* Read-only parts: browsing files, listings, `glob`, `grep`, `read` and web tools,
  projection checks, reports, `scripts/`.
* Presence, readings of the context window, titles, run defaults, the working directory of a session.
* The credential of Codex, which no adapter asks for, the opt-in identity of the host login, the panel that
  shows listings, and a verification of a named model. What is inside a login, provider protocols
  and the protocol of connectors are external; what the code makes of their outcomes is modelled.
* Formatting, redaction, pricing, digests and the wording of prompts, notes and errors.
* Schema versions of the record and the `lane.leaf` register, which no decision of the modelled code reads.
* Pings, 404s and the authentication of HTTP requests between the programs.
