------------------------------ MODULE HarnessRun ------------------------------
(***************************************************************************)
(* One session of the harness: the agent loop of each run (run_loop.ts),   *)
(* the durable record it writes (store.ts, checkpoint.ts) and the recovery *)
(* a restarted harness applies to that record (recovery.ts, supervisor.ts).*)
(*                                                                         *)
(* The process is single-threaded: an action is the code between two       *)
(* awaits, and it is split where it commits twice, because a crash can     *)
(* fall between two commits (Start is the exception: its first commit only *)
(* writes lane.state, which no recovery reads).  A crash destroys the loops*)
(* and keeps the record.  What the transport does with an envelope is      *)
(* another module's subject: here `shipped` only remembers it.             *)
(***************************************************************************)
EXTENDS Integers, FiniteSets

CONSTANTS
  Runs,         \* run ids Rails may start in this session
  Lanes,        \* lanes of the session
  LaneOf,       \* the lane each run is started in
  Calls,        \* the tool calls the model asks for
  Ids,          \* tool_use ids
  IdOf,         \* the id of each call: a narrated call takes one an earlier response took
  None,         \* no run, no call, no settlement key
  MaxTurns,     \* MAX_TURNS
  MaxResumes,   \* MAX_PAUSE_RESUMES
  MaxFailures,  \* MAX_REPEATED_TOOL_FAILURES
  Reexecute,    \* whether recovery is given a `reexecute` (the supervisor gives none)
  Reports,      \* whether a turn may come with a usage report, without one, or both
  MaxBlocks,    \* bound: durable events of one provider turn
  MaxCrashes,   \* bound: crashes of the process
  MaxMessages,  \* bound: follow-ups accepted per run
  Stoppable     \* bound: the runs somebody may interrupt

ASSUME RunsAssumption == None \notin Runs /\ LaneOf \in [Runs -> Lanes]
ASSUME CallsAssumption ==
  /\ None \notin Calls \cup Ids \cup (Nat \X Nat) /\ (Calls \cup Ids) \cap (Nat \X Nat) = {}
  /\ IdOf \in [Calls -> Ids]
ASSUME LimitsAssumption ==
  /\ MaxTurns \in Nat /\ MaxResumes \in Nat /\ MaxFailures \in Nat
  /\ MaxBlocks \in Nat /\ MaxCrashes \in Nat /\ MaxMessages \in Nat
  /\ Stoppable \subseteq Runs /\ Reports \subseteq BOOLEAN
  /\ Reexecute \in BOOLEAN

VARIABLES
  \* the record: one SQLite file
  phase,      \* run.position: its phase ("absent" while the register is not written)
  reqkey,     \* run.position: settlement key of the pending request
  plan,       \* run.position: the calls a tools position lists
  status,     \* run.position: the status of each call
  replay,     \* run.position: the replay policy of each call
  entries,    \* the insert-only log
  storeSeq,   \* AUTOINCREMENT counter of the log
  lost,       \* history: entries a UNIQUE index made insertEntry skip
  usage,      \* the usage ledger
  owner,      \* lane.state: the run that owns each lane
  \* the process
  mode,       \* "serving", "down" or "recovering"
  todo,       \* recoverSession: runs still to recover
  current,    \* recoverSession: the run being recovered
  skipped,    \* history: the unfinished runs of a store recoverAll could not open
  notes,      \* recoverSession: recovery_applied envelopes not shipped yet
  loop,       \* the RunLoop of each live run, and its LoopNormalizer
  crashes,
  \* outside the process
  effects,    \* history: how many times each tool call was started
  shipped,    \* history: durable envelopes handed to the transport
  accepted    \* history: follow-ups answered 200

recordVars == <<phase, reqkey, plan, status, replay, entries, storeSeq, lost, usage, owner>>
hostVars   == <<mode, todo, current, skipped, notes, crashes>>
pastVars   == <<effects, accepted>>
vars       == <<recordVars, hostVars, loop, shipped, pastVars>>

-----------------------------------------------------------------------------
Phases   == {"absent", "checkpoint", "request_pending", "tools", "terminal"}
Statuses == {"unused", "planned", "effect_pending", "completed"}
Policies == {"safe", "never"}
Types    == {"user_prompt", "run_started", "request_header", "assistant", "provider_error",
             "tool_event", "tool_refused", "tool_result",
             "run_finished", "run_failed", "run_interrupted"}
Outcomes == {"finished", "failed", "interrupted"}
Steps    == {"idle", "turn", "gate", "stream", "stopped", "calls", "marked", "running",
             "ending", "closing"}

Idle == [pc |-> "idle", turns |-> 0, attempt |-> 0, seq |-> 0, call |-> None,
         aborted |-> FALSE, inbox |-> 0, streak |-> 0, fold |-> 0, boundary |-> 0,
         uid |-> 0, end |-> "none"]

At(r, pc) == mode = "serving" /\ loop[r].pc = pc
Live(r)   == mode = "serving" /\ loop[r].pc # "idle"

Highest(S) == CHOOSE s \in S : \A t \in S : t <= s

\* highestSeq: COALESCE(MAX(seq), 0) over the run's entries.
HighestSeq(r) == Highest({0} \cup {e.seq : e \in {f \in entries : f.run = r}})

-----------------------------------------------------------------------------
(* Writing the record and handing envelopes to the transport.              *)

\* The loop's envelopes take the next seqs of its normalizer, in order.
Events(r, types) ==
  {[id |-> storeSeq + i, run |-> r, seq |-> loop[r].seq + i, type |-> types[i],
    settles |-> None] : i \in DOMAIN types}

\* A settlement is store-only: no seq, and the request or the call that it settles.
Settlement(r, type, what, at) ==
  [id |-> storeSeq + at, run |-> r, seq |-> 0, type |-> type, settles |-> what]

\* Its key can be used once in its run.  A call's is its id.
KeyOf(what) == IF what \in Calls THEN IdOf[what] ELSE what

Duplicate(e) ==
  \E f \in entries : /\ f.run = e.run
                     /\ \/ e.seq # 0 /\ f.seq = e.seq
                        \/ e.settles # None /\ KeyOf(f.settles) = KeyOf(e.settles)

\* insertEntry: a UNIQUE violation skips the entry and the commit goes on.
Record(batch, n) ==
  /\ entries' = entries \cup {e \in batch : ~Duplicate(e)}
  /\ lost' = lost \cup {e \in batch : Duplicate(e)}
  /\ storeSeq' = storeSeq + n

Envelopes(batch) == {[run |-> e.run, seq |-> e.seq, type |-> e.type, from |-> "none"] : e \in batch}

Ship(envelopes) == shipped' = shipped \cup envelopes

\* entryFor each event, commit, then emit: the record is always ahead of the wire.
RecordAndShip(r, types, n) ==
  Record(Events(r, types), n) /\ Ship(Envelopes(Events(r, types)))

Becomes(r, l) == loop' = [loop EXCEPT ![r] = l]

SetPhase(r, p) == phase' = [phase EXCEPT ![r] = p]

\* lane.state: who owns the lane now.
ClaimLane(l, r) == owner' = [owner EXCEPT ![l] = r]

-----------------------------------------------------------------------------
(* Starting a run, follow-ups and interrupts.                              *)

\* startRun: one live run per lane; claim the lane, then the loop's opening commit.
Start(r) ==
  /\ mode = "serving" /\ phase[r] = "absent"
  /\ \A q \in Runs : Live(q) => LaneOf[q] # LaneOf[r]
  /\ ClaimLane(LaneOf[r], r)
  /\ Becomes(r, [Idle EXCEPT !.pc = "turn", !.seq = HighestSeq(r) + 2])
  /\ LET opening == {[id |-> storeSeq + i, run |-> r, seq |-> HighestSeq(r) + i,
                      type |-> <<"user_prompt", "run_started">>[i], settles |-> None] : i \in 1..2}
     IN  Record(opening, 2) /\ Ship(Envelopes(opening))
  /\ SetPhase(r, "checkpoint")
  /\ UNCHANGED <<reqkey, plan, status, replay, usage, hostVars, pastVars>>

\* pushMessage: answered 200 and kept in the loop's memory.
Message(r) ==
  /\ Live(r) /\ accepted[r] < MaxMessages
  /\ Becomes(r, [loop[r] EXCEPT !.inbox = @ + 1])
  /\ accepted' = [accepted EXCEPT ![r] = @ + 1]
  /\ UNCHANGED <<recordVars, hostVars, shipped, effects>>

Interrupt(r) ==
  /\ r \in Stoppable /\ Live(r) /\ ~loop[r].aborted
  /\ Becomes(r, [loop[r] EXCEPT !.aborted = TRUE])
  /\ UNCHANGED <<recordVars, hostVars, shipped, pastVars>>

-----------------------------------------------------------------------------
(* The loop: a turn boundary, a provider request, its settlement.          *)

GoesTo(r, pc)      == Becomes(r, [loop[r] EXCEPT !.pc = pc])
EndsAs(r, outcome) == Becomes(r, [loop[r] EXCEPT !.pc = "ending", !.end = outcome])

\* The `while` condition comes first: the turn limit wins over an interrupt.
TurnLimit(r) ==
  /\ At(r, "turn") /\ loop[r].turns >= MaxTurns
  /\ EndsAs(r, "failed")
  /\ UNCHANGED <<recordVars, hostVars, shipped, pastVars>>

StopAtBoundary(r) ==
  /\ At(r, "turn") /\ loop[r].turns < MaxTurns /\ loop[r].aborted
  /\ EndsAs(r, "interrupted")
  /\ UNCHANGED <<recordVars, hostVars, shipped, pastVars>>

\* request.build folds the surface as it is now; request:before is awaited next.
Build(r) ==
  /\ At(r, "turn") /\ loop[r].turns < MaxTurns /\ ~loop[r].aborted
  /\ Becomes(r, [loop[r] EXCEPT !.pc = "gate", !.turns = @ + 1, !.fold = storeSeq])
  /\ UNCHANGED <<recordVars, hostVars, shipped, pastVars>>

\* refuse: the reason is recorded, then the run fails.
Refuse(r) ==
  /\ At(r, "gate")
  /\ RecordAndShip(r, <<"provider_error">>, 1)
  /\ Becomes(r, [loop[r] EXCEPT !.pc = "ending", !.end = "failed", !.seq = @ + 1])
  /\ UNCHANGED <<phase, reqkey, plan, status, replay, usage, owner, hostVars, pastVars>>

\* The header is written when the snapshot changed, so always on a run's first turn.
HeaderSizes(r) == IF loop[r].turns = 1 THEN {1} ELSE {0, 1}

\* reserveUsageId: a read of the ledger, not an allocation.
NextUsageId == 1 + Highest({0} \cup {u.id : u \in usage})

\* The key a request will settle under: its turn and its attempt.
CommitRequestIntent(r) ==
  /\ SetPhase(r, "request_pending")
  /\ reqkey' = [reqkey EXCEPT ![r] = <<loop[r].turns, loop[r].attempt>>]

\* commitRequestIntent, then the prefix boundary is read from the store.
Intent(r) ==
  /\ At(r, "gate")
  /\ \E n \in HeaderSizes(r) :
       /\ RecordAndShip(r, [i \in 1..n |-> "request_header"], n)
       /\ Becomes(r, [loop[r] EXCEPT !.pc = "stream", !.seq = @ + n,
                                !.uid = NextUsageId, !.boundary = storeSeq + n])
  /\ CommitRequestIntent(r)
  /\ UNCHANGED <<plan, status, replay, usage, owner, hostVars, pastVars>>

\* streamTurn threw after n durable events: they took seqs and are dropped, and the
\* provider_error takes one more.  It is emitted, and not recorded, unless the
\* throw was the abort's.
StreamFails(r) ==
  /\ At(r, "stream")
  /\ \E n \in 0..MaxBlocks :
       LET failure == [run |-> r, seq |-> loop[r].seq + n + 1, type |-> "provider_error",
                       from |-> "none"]
       IN  /\ Becomes(r, [loop[r] EXCEPT !.pc = "ending", !.seq = @ + n + 1,
                                    !.end = IF loop[r].aborted THEN "interrupted" ELSE "failed"])
           /\ Ship(IF loop[r].aborted THEN {} ELSE {failure})
  /\ UNCHANGED <<recordVars, hostVars, pastVars>>

\* A row whose reserved id is taken is dropped.
InsertUsage(r) ==
  usage' = IF \A u \in usage : u.id # loop[r].uid
           THEN usage \cup {[id |-> loop[r].uid, run |-> r, turn |-> loop[r].turns,
                             fold |-> loop[r].fold, boundary |-> loop[r].boundary]}
           ELSE usage

\* The turn's durable events and its usage row, one commit with the position.
Settle(r, n, billed) ==
  /\ RecordAndShip(r, [i \in 1..n |-> "assistant"], n)
  /\ IF billed THEN InsertUsage(r) ELSE usage' = usage
  /\ UNCHANGED <<reqkey, owner, hostVars, effects, accepted>>

\* Each call is planned with its replay policy.
PlanTools(r, S) ==
  /\ \E policy \in [S -> Policies] :
       replay' = [c \in Calls |-> IF c \in S THEN policy[c] ELSE replay[c]]
  /\ plan' = [plan EXCEPT ![r] = S]
  /\ status' = [c \in Calls |-> IF c \in S THEN "planned" ELSE status[c]]

\* The calls a response may ask for: new ones, under different ids.
Askable == {S \in SUBSET {c \in Calls : status[c] = "unused"} :
              \A c, d \in S : IdOf[c] = IdOf[d] => c = d}

\* stop_reason tool_use: settle, and plan the turn's calls (possibly none).
DispatchTools(r) ==
  /\ At(r, "stream")
  /\ \E S \in Askable, n \in 0..MaxBlocks, billed \in Reports :
       /\ S # {} => n > 0
       /\ Settle(r, n, billed)
       /\ PlanTools(r, S)
       /\ Becomes(r, [loop[r] EXCEPT !.pc = "calls", !.seq = @ + n])
  /\ SetPhase(r, "tools")

\* Any other stop reason settles to a checkpoint.
SettleTo(r, pc, attempt, end) ==
  /\ \E n \in 0..MaxBlocks, billed \in Reports :
       /\ Settle(r, n, billed)
       /\ Becomes(r, [loop[r] EXCEPT !.pc = pc, !.seq = @ + n, !.attempt = attempt,
                                !.end = end])
  /\ SetPhase(r, "checkpoint")
  /\ UNCHANGED <<plan, status, replay>>

PauseTurn(r) ==
  /\ At(r, "stream")
  /\ IF loop[r].attempt >= MaxResumes
     THEN SettleTo(r, "ending", loop[r].attempt, "failed")
     ELSE SettleTo(r, "turn", loop[r].attempt + 1, "none")

Compact(r) == At(r, "stream") /\ SettleTo(r, "turn", 0, "none")

\* max_tokens and refusal.
CutOff(r) == At(r, "stream") /\ SettleTo(r, "ending", loop[r].attempt, "failed")

EndTurn(r) == At(r, "stream") /\ SettleTo(r, "stopped", loop[r].attempt, "none")

\* appendFollowUps: drain the inbox into the record.
FollowUps(r) ==
  /\ At(r, "stopped") /\ loop[r].inbox > 0
  /\ RecordAndShip(r, [i \in 1..loop[r].inbox |-> "user_prompt"], loop[r].inbox)
  /\ Becomes(r, [loop[r] EXCEPT !.pc = "turn", !.seq = @ + loop[r].inbox, !.inbox = 0,
                           !.attempt = 0])
  /\ SetPhase(r, "checkpoint")
  /\ UNCHANGED <<reqkey, plan, status, replay, usage, owner, hostVars, pastVars>>

Finish(r) ==
  /\ At(r, "stopped") /\ loop[r].inbox = 0
  /\ EndsAs(r, "finished")
  /\ UNCHANGED <<recordVars, hostVars, shipped, pastVars>>

-----------------------------------------------------------------------------
(* Dispatching a turn's calls, one after another.                          *)

WithCallStatus(c, to) == status' = [status EXCEPT ![c] = to]

\* tool:before refused: the refusal is the call's result.
RefuseCall(r, c) ==
  /\ At(r, "calls") /\ c \in plan[r] /\ status[c] = "planned"
  /\ Record(Events(r, <<"tool_refused">>) \cup {Settlement(r, "tool_result", c, 2)}, 2)
  /\ Ship(Envelopes(Events(r, <<"tool_refused">>)))
  /\ WithCallStatus(c, "completed")
  /\ Becomes(r, [loop[r] EXCEPT !.seq = @ + 1])
  /\ UNCHANGED <<phase, reqkey, plan, replay, usage, owner, hostVars, pastVars>>

\* Faulty variant: the tool runs before its effect_pending mark is durable.
ClearCallUnmarked(r, c) ==
  /\ At(r, "calls") /\ c \in plan[r] /\ status[c] = "planned"
  /\ Becomes(r, [loop[r] EXCEPT !.pc = "marked", !.call = c])
  /\ UNCHANGED <<recordVars, hostVars, shipped, pastVars>>

\* Faulty variant: a call that already has its result may be dispatched again.
ClearCallAgain(r, c) ==
  /\ At(r, "calls") /\ c \in plan[r] /\ status[c] \in {"planned", "completed"}
  /\ WithCallStatus(c, "effect_pending")
  /\ Becomes(r, [loop[r] EXCEPT !.pc = "marked", !.call = c])
  /\ UNCHANGED <<phase, reqkey, plan, replay, entries, storeSeq, lost, usage, owner,
                 hostVars, shipped, pastVars>>

ClearCall(r, c) ==
  /\ At(r, "calls") /\ c \in plan[r] /\ status[c] = "planned"
  /\ WithCallStatus(c, "effect_pending")
  /\ Becomes(r, [loop[r] EXCEPT !.pc = "marked", !.call = c])
  /\ UNCHANGED <<phase, reqkey, plan, replay, entries, storeSeq, lost, usage, owner,
                 hostVars, shipped, pastVars>>

\* runTool starts the tool, and the loop waits for it.
RunTool(r) ==
  /\ At(r, "marked")
  /\ effects' = [effects EXCEPT ![loop[r].call] = @ + 1]
  /\ GoesTo(r, "running")
  /\ UNCHANGED <<recordVars, hostVars, shipped, accepted>>

\* noteToolOutcome: a success clears the streak, another failing call restarts it.
Streaks(r) == {0, 1, loop[r].streak + 1}

SettleCall(r) ==
  /\ At(r, "running")
  /\ LET c == loop[r].call
     IN  /\ Record(Events(r, <<"tool_event">>) \cup {Settlement(r, "tool_result", c, 2)}, 2)
         /\ WithCallStatus(c, "completed")
  /\ Ship(Envelopes(Events(r, <<"tool_event">>)))
  /\ \E k \in Streaks(r) :
       Becomes(r, [loop[r] EXCEPT !.pc = "calls", !.seq = @ + 1, !.call = None,
                             !.streak = k])
  /\ UNCHANGED <<phase, reqkey, plan, replay, usage, owner, hostVars, pastVars>>

\* The marker leaves the tools phase; a stuck model ends the run here.
FinishCalls(r) ==
  /\ At(r, "calls") /\ \A c \in plan[r] : status[c] = "completed"
  /\ SetPhase(r, "checkpoint") /\ plan' = [plan EXCEPT ![r] = {}]
  /\ IF loop[r].streak >= MaxFailures
     THEN EndsAs(r, "failed")
     ELSE Becomes(r, [loop[r] EXCEPT !.pc = "turn", !.attempt = 0])
  /\ UNCHANGED <<reqkey, status, replay, entries, storeSeq, lost, usage, owner,
                 hostVars, shipped, pastVars>>

-----------------------------------------------------------------------------
(* The end of a run.                                                       *)

TerminalType(outcome) ==
  CASE outcome = "finished" -> "run_finished"
    [] outcome = "failed" -> "run_failed"
    [] OTHER -> "run_interrupted"

\* Faulty variant: the loop does not return after its terminal transaction.
TerminateTwice(r) ==
  /\ At(r, "ending")
  /\ RecordAndShip(r, <<TerminalType(loop[r].end)>>, 1)
  /\ SetPhase(r, "terminal")
  /\ \E pc \in {"ending", "closing"} :
       Becomes(r, [loop[r] EXCEPT !.pc = pc, !.seq = @ + 1])
  /\ UNCHANGED <<reqkey, plan, status, replay, usage, owner, hostVars, pastVars>>

\* Faulty variant: a run:complete handler can hold an interrupted run back.
TerminateUnlessAborted(r) ==
  /\ At(r, "ending") /\ ~loop[r].aborted
  /\ RecordAndShip(r, <<TerminalType(loop[r].end)>>, 1)
  /\ SetPhase(r, "terminal")
  /\ Becomes(r, [loop[r] EXCEPT !.pc = "closing", !.seq = @ + 1])
  /\ UNCHANGED <<reqkey, plan, status, replay, usage, owner, hostVars, pastVars>>

\* terminate, after notifyComplete: terminal entry and terminal position in one commit.
Terminate(r) ==
  /\ At(r, "ending")
  /\ RecordAndShip(r, <<TerminalType(loop[r].end)>>, 1)
  /\ SetPhase(r, "terminal")
  /\ Becomes(r, [loop[r] EXCEPT !.pc = "closing", !.seq = @ + 1])
  /\ UNCHANGED <<reqkey, plan, status, replay, usage, owner, hostVars, pastVars>>

\* The supervisor's finally: forget the run and release its lane in the record.
Close(r) ==
  /\ At(r, "closing")
  /\ Becomes(r, Idle)
  /\ ClaimLane(LaneOf[r], None)
  /\ UNCHANGED <<phase, reqkey, plan, status, replay, entries, storeSeq, lost, usage,
                 hostVars, shipped, pastVars>>

-----------------------------------------------------------------------------
(* Crash, restart and recovery.                                            *)

Crash ==
  /\ mode # "down" /\ crashes < MaxCrashes
  /\ mode' = "down" /\ crashes' = crashes + 1
  /\ loop' = [r \in Runs |-> Idle]
  /\ notes' = {} /\ todo' = {} /\ current' = None /\ skipped' = {}
  /\ UNCHANGED <<recordVars, shipped, pastVars>>

\* recoverSession: every run whose position register is not terminal.
Unfinished == {r \in Runs : phase[r] \notin {"absent", "terminal"}}

Boot ==
  /\ mode = "down"
  /\ mode' = "recovering"
  /\ todo' = Unfinished
  /\ UNCHANGED <<recordVars, current, skipped, notes, crashes, loop, shipped, pastVars>>

\* storeFor found the dead writer's lock still fresh: recoverAll passes over the session.
BootLocked ==
  /\ mode = "down"
  /\ mode' = "serving"
  /\ skipped' = Unfinished
  /\ UNCHANGED <<recordVars, todo, current, notes, crashes, loop, shipped, pastVars>>

\* Faulty variant: only the first run found is recovered.
PickOneRun(r) ==
  /\ mode = "recovering" /\ current = None /\ r \in todo
  /\ current' = r /\ todo' = {}
  /\ UNCHANGED <<recordVars, mode, skipped, notes, crashes, loop, shipped, pastVars>>

PickRun(r) ==
  /\ mode = "recovering" /\ current = None /\ r \in todo
  /\ current' = r /\ todo' = todo \ {r}
  /\ UNCHANGED <<recordVars, mode, skipped, notes, crashes, loop, shipped, pastVars>>

Recovering(r) == mode = "recovering" /\ current = r

\* recoveryEvent: its seq is allocated from the record, and it is not recorded.
Recovered(r) ==
  /\ current' = None
  /\ notes' = notes \cup {[run |-> r, seq |-> HighestSeq(r) + 1, type |-> "recovery_applied",
                           from |-> phase[r]]}
  /\ UNCHANGED <<mode, todo, skipped, crashes>>

RecoverResume(r) ==
  /\ Recovering(r) /\ phase[r] = "checkpoint"
  /\ Recovered(r)
  /\ UNCHANGED <<recordVars, loop, shipped, pastVars>>

\* settleUncertain: the pending request is settled as interrupted, under its own key.
RecoverUncertain(r) ==
  /\ Recovering(r) /\ phase[r] = "request_pending"
  /\ Record({Settlement(r, "run_interrupted", reqkey[r], 1)}, 1)
  /\ SetPhase(r, "terminal")
  /\ Recovered(r)
  /\ UNCHANGED <<reqkey, plan, status, replay, usage, owner, loop, shipped, pastVars>>

\* finishTools answers the calls that must not run again, then those that never
\* started, then those that are safe to run again.
Pending(r, policy) == {c \in plan[r] : status[c] = "effect_pending" /\ replay[c] = policy}
Planned(r)         == {c \in plan[r] : status[c] = "planned"}

\* Faulty variant: the replay policy of a call that had started is not looked at.
OwedUnderAnyPolicy(r) ==
  IF Planned(r) # {} THEN Planned(r) ELSE Pending(r, "safe") \cup Pending(r, "never")

Owed(r) ==
  IF Pending(r, "never") # {} THEN {}
  ELSE IF Planned(r) # {} THEN Planned(r) ELSE Pending(r, "safe")

\* Faulty variant: the answer is committed without the call's new status.
AnswerWithoutStatus(r, c) ==
  /\ Record({Settlement(r, "tool_result", c, 1)}, 1)
  /\ UNCHANGED <<phase, reqkey, plan, status, replay, usage, owner, hostVars, shipped,
                 pastVars>>

AnswerInRecovery(r, c) ==
  /\ Record({Settlement(r, "tool_result", c, 1)}, 1)
  /\ WithCallStatus(c, "completed")
  /\ UNCHANGED <<phase, reqkey, plan, replay, usage, owner, hostVars, shipped, pastVars>>

RecoverSynthesize(r, c) ==
  /\ Recovering(r) /\ phase[r] = "tools" /\ c \in Pending(r, "never")
  /\ AnswerInRecovery(r, c)
  /\ UNCHANGED loop

\* runCall with a `reexecute`: the tool runs with no effect_pending mark before it.
RecoverExecute(r, c) ==
  /\ Reexecute
  /\ Recovering(r) /\ phase[r] = "tools" /\ c \in Owed(r) /\ loop[r].call = None
  /\ effects' = [effects EXCEPT ![c] = @ + 1]
  /\ Becomes(r, [loop[r] EXCEPT !.call = c])
  /\ UNCHANGED <<recordVars, hostVars, shipped, accepted>>

\* Without one the call is answered as interrupted.
RecoverAnswer(r, c) ==
  /\ Recovering(r) /\ phase[r] = "tools" /\ c \in Owed(r)
  /\ Reexecute => loop[r].call = c
  /\ AnswerInRecovery(r, c)
  /\ Becomes(r, [loop[r] EXCEPT !.call = None])

\* Faulty variant: recovery finishes with planned calls unanswered.
RecoverToolsEarly(r) ==
  /\ Recovering(r) /\ phase[r] = "tools" /\ \A c \in plan[r] : status[c] # "effect_pending"
  /\ SetPhase(r, "checkpoint") /\ plan' = [plan EXCEPT ![r] = {}]
  /\ Recovered(r)
  /\ UNCHANGED <<reqkey, status, replay, entries, storeSeq, lost, usage, owner, loop,
                 shipped, pastVars>>

RecoverTools(r) ==
  /\ Recovering(r) /\ phase[r] = "tools" /\ \A c \in plan[r] : status[c] = "completed"
  /\ SetPhase(r, "checkpoint") /\ plan' = [plan EXCEPT ![r] = {}]
  /\ Recovered(r)
  /\ UNCHANGED <<reqkey, status, replay, entries, storeSeq, lost, usage, owner, loop,
                 shipped, pastVars>>

\* Recovery is over: its envelopes are shipped, and the server starts to serve.
Serve ==
  /\ mode = "recovering" /\ current = None /\ todo = {}
  /\ mode' = "serving" /\ notes' = {}
  /\ Ship(notes)
  /\ UNCHANGED <<recordVars, todo, current, skipped, crashes, loop, pastVars>>

-----------------------------------------------------------------------------
Init ==
  /\ phase = [r \in Runs |-> "absent"]
  /\ reqkey = [r \in Runs |-> None]
  /\ plan = [r \in Runs |-> {}]
  /\ status = [c \in Calls |-> "unused"]
  /\ replay = [c \in Calls |-> "never"]
  /\ entries = {} /\ storeSeq = 0 /\ lost = {} /\ usage = {}
  /\ owner = [l \in Lanes |-> None]
  /\ mode = "serving" /\ todo = {} /\ current = None /\ skipped = {} /\ notes = {}
  /\ crashes = 0
  /\ loop = [r \in Runs |-> Idle]
  /\ effects = [c \in Calls |-> 0]
  /\ shipped = {}
  /\ accepted = [r \in Runs |-> 0]

LoopStep(r) ==
  \/ TurnLimit(r) \/ StopAtBoundary(r) \/ Build(r) \/ Refuse(r) \/ Intent(r)
  \/ StreamFails(r) \/ DispatchTools(r) \/ PauseTurn(r) \/ Compact(r) \/ CutOff(r)
  \/ EndTurn(r) \/ FollowUps(r) \/ Finish(r)
  \/ \E c \in Calls : RefuseCall(r, c) \/ ClearCall(r, c)
  \/ RunTool(r) \/ SettleCall(r) \/ FinishCalls(r) \/ Terminate(r) \/ Close(r)

RecoveryStep(r) ==
  \/ PickRun(r) \/ RecoverResume(r) \/ RecoverUncertain(r) \/ RecoverTools(r)
  \/ \E c \in Calls : RecoverSynthesize(r, c) \/ RecoverExecute(r, c) \/ RecoverAnswer(r, c)

ClientStep(r) == Start(r) \/ Message(r) \/ Interrupt(r)

Next ==
  \/ \E r \in Runs : ClientStep(r) \/ LoopStep(r) \/ RecoveryStep(r)
  \/ Crash \/ Boot \/ BootLocked \/ Serve

Spec == Init /\ [][Next]_vars

(* Fairness.  The event loop runs every ready continuation, and the handlers a loop awaits *)
(* are abandoned after a time (points.ts, withTimeout).  Nothing bounds a provider's stream *)
(* but the signal it is given, and nothing a tool: bash answers on the `close` of a pipe    *)
(* that a process it left behind may hold.  The harness is a process of the host, which     *)
(* nothing restarts.  So a stream owes an end once its run is interrupted; tools, clients,  *)
(* crashes and restarts owe nothing.                                                        *)
WaitsFor(r) ==
  \/ At(r, "running")
  \/ At(r, "stream") /\ ~loop[r].aborted

Fairness == \A r \in Runs : WF_vars(LoopStep(r) /\ ~WaitsFor(r))

FairSpec == Spec /\ Fairness

-----------------------------------------------------------------------------
(* Properties.                                                             *)

Settled == Calls \cup {None} \cup (Nat \X Nat)

Loops == [pc : Steps, turns : 0..MaxTurns, attempt : 0..MaxResumes, seq : Nat,
          call : Calls \cup {None}, aborted : BOOLEAN, inbox : Nat, streak : Nat,
          fold : Nat, boundary : Nat, uid : Nat, end : Outcomes \cup {"none"}]

Entries == [id : Nat, run : Runs, seq : Nat, type : Types, settles : Settled]

\* Every variable of the record, the process and the wire keeps its type.
TypeOK ==
  /\ phase \in [Runs -> Phases] /\ reqkey \in [Runs -> {None} \cup (Nat \X Nat)]
  /\ plan \in [Runs -> SUBSET Calls]
  /\ status \in [Calls -> Statuses] /\ replay \in [Calls -> Policies]
  /\ entries \subseteq Entries /\ lost \subseteq Entries /\ storeSeq \in Nat
  /\ usage \subseteq [id : Nat, run : Runs, turn : Nat, fold : Nat, boundary : Nat]
  /\ owner \in [Lanes -> Runs \cup {None}]
  /\ mode \in {"serving", "down", "recovering"}
  /\ todo \subseteq Runs /\ current \in Runs \cup {None} /\ skipped \subseteq Runs
  /\ crashes \in 0..MaxCrashes
  /\ loop \in [Runs -> Loops]
  /\ effects \in [Calls -> Nat] /\ accepted \in [Runs -> 0..MaxMessages]

\* A tool that must not be replayed is started again in one case only: a recovery that runs
\* planned calls under no mark died before it could record the answer (recovery.ts,
\* finishTools: "they never started").  The loop, and recovery of a call that had started,
\* never start one twice (no_double_effect.test.ts).
NeverRestarted ==
  [][\A c \in Calls :
       replay[c] = "never" /\ effects[c] > 0 /\ effects'[c] > effects[c]
         => mode = "recovering" /\ status[c] = "planned"]_vars

\* A tool is started at most once and only under a durable mark, so that no crash point
\* leaves a started call that recovery would take for one that never began.
StartedUnderMark ==
  \A c \in Calls :
    effects[c] <= IF status[c] \in {"effect_pending", "completed"} THEN 1 ELSE 0

\* The results written for a call, kept or skipped.
Answers(c) == {e \in entries \cup lost : e.settles = c}

\* Every planned call has exactly one result once its marker says completed, over interrupts,
\* crashes and recoveries, and a run whose position is no longer `tools` left none of its calls
\* without one: the next request would be refused by the provider (recovery.ts,
\* toolResultWrite).  Whether the result is kept is the next property's subject.
EveryCallAnswered ==
  \A c \in Calls :
    /\ Cardinality(Answers(c)) = IF status[c] = "completed" THEN 1 ELSE 0
    /\ status[c] \in {"planned", "effect_pending"}
         => \E r \in Runs : phase[r] = "tools" /\ c \in plan[r]

\* The result of a call whose id an earlier call's result of the same run had taken.
Repeats(e) ==
  /\ e.settles \in Calls
  /\ \E f \in entries :
       /\ f.run = e.run
       /\ f.settles \in Calls \ {e.settles} /\ IdOf[f.settles] = IdOf[e.settles]

\* insertEntry swallows a UNIQUE violation, so an entry under a taken seq or a taken settlement
\* key vanishes without a trace.  One thing is ever lost that way: the result of a narrated call,
\* whose id converse_response.ts mints again in each response and planTools takes for a key
\* ("unique", checkpoint.ts:123).  No event, no settled request and no other result is, and no
\* crash, interrupt or recovery writes a call's result twice.
LostToRepeats == \A e \in lost : Repeats(e)

\* A terminal position is final and ends the run's history: neither a late tool, a later
\* turn nor any number of recoveries adds to it (checkpoint.ts, "nothing_owed").
TerminalIsFinal ==
  [][\A r \in Runs : phase[r] = "terminal" =>
       /\ phase'[r] = "terminal"
       /\ {e \in entries' : e.run = r} = {e \in entries : e.run = r}]_vars

\* In a process that lives on, a run ends, whatever handlers, follow-ups and interrupts do
\* (run_loop.ts: MAX_TURNS, and the refusal of run:complete to fail the terminal transaction),
\* unless it waits for ever on a tool, or on a stream that nobody interrupts.  After a crash a
\* run left at a checkpoint has no loop, and nothing ends it.
EveryRunEnds ==
  \A r \in Runs :
    \/ [](phase[r] = "absent")
    \/ <>(phase[r] = "terminal" \/ crashes > 0)
    \/ <>[]WaitsFor(r)

\* Once the server serves, no run is left with an uncertain request or a call without an answer
\* unless its own loop is at work on it, whatever was at work when the process died
\* ("RECOVER BEFORE SERVING", index.ts:424).  One exception: the runs of a session that
\* recoverAll passed over because its dead writer's lock was fresh (supervisor.ts:400).
RecoveredBeforeServing ==
  mode = "serving" =>
    \A r \in Runs \ skipped : phase[r] \in {"request_pending", "tools"} => Live(r)

-----------------------------------------------------------------------------
(* The harness implements the promise of ToolLedger.                       *)

Ledger == INSTANCE ToolLedger WITH
  run      <- [r \in Runs |-> IF phase[r] = "absent" THEN "absent"
                              ELSE IF phase[r] = "terminal" THEN "ended" ELSE "open"],
  owed     <- [r \in Runs |-> {c \in plan[r] : status[c] # "completed"}],
  begun    <- {c \in Calls : effects[c] > 0},
  answered <- {c \in Calls : status[c] = "completed"}

\* The harness, its crashes and its recoveries are steps or stutters of the ledger.
LedgerSpec == Ledger!Spec
=============================================================================
