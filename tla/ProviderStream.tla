--------------------------- MODULE ProviderStream ---------------------------
(***************************************************************************)
(* How one turn's answer gets from a provider into the record              *)
(* (src/harness/src/providers, src/harness/src/loop/normalize.ts and       *)
(* RunLoop.streamTurn): raw wire events, one at a time, through the        *)
(* adapter's mapper, which speaks the harness's own vocabulary, through    *)
(* the normalizer, which makes envelopes of it, to the loop, which shows   *)
(* deltas at once and keeps the rest for the end of the turn.              *)
(*                                                                         *)
(* A text is the number of pieces it arrives in.  A tool's input, a model  *)
(* name and a signature are not told apart.                                *)
(***************************************************************************)
EXTENDS Integers, Sequences, SequencesExt, FiniteSets, Choosing

CONSTANTS MaxBlocks,   \* content blocks of the first answer, each later one has one less
          MaxPieces,   \* pieces of one block
          MaxTurns,    \* turns of the run (MAX_TURNS)
          MaxPauseResumes  \* resumes of a paused turn (MAX_PAUSE_RESUMES)

VARIABLES path,   \* how the adapter of this run reads an answer
          said,   \* the blocks of the current answer so far, as the provider means them
          wire,   \* where the stream is: "idle", "open", "block", "stopped", "billed",
                  \* "closed", or "cut" when it broke off without an error
          st,     \* mapper, normalizer and streamTurn: what the current turn has gathered
          log,    \* the recorded entries of the run
          past,   \* history: the answers that settled
          run     \* [attempt, aborted, result]

streamVars == <<path, said, wire, st, log, past, run>>

-----------------------------------------------------------------------------
(* What a provider answers.                                                *)

\* The three Anthropic adapters share one mapper; ConverseStream has its own; a model that
\* cannot use tools while it streams is asked by Converse and its answer replayed.
Paths == {"family", "converse", "replay"}

\* "hidden" is encrypted reasoning, "told" a tool call that a model wrote out as text,
\* "other" a block that no one knows.
BlockKinds ==
  CASE path = "family"   -> {"text", "thinking", "hidden", "call", "compaction"}
    [] path = "converse" -> {"text", "thinking", "hidden", "call", "other"}
    [] path = "replay"   -> {"text", "thinking", "hidden", "call", "told", "other"}

Wordy == {"text", "thinking"}

\* A bound of the model.
Full == Len(said) + st.turn > MaxBlocks

HasKind(answer, kind) == \E i \in DOMAIN answer : answer[i].kind = kind

\* Any reason may come with any answer; "refusal" is also what a guardrail of Bedrock is mapped to.
Reasons ==
  {"end_turn", "tool_use", "stop_sequence", "refusal", "max_tokens", "model_context_window_exceeded"}
    \cup IF path = "family" THEN {"pause_turn"} ELSE {}

-----------------------------------------------------------------------------
(* The mappers: one raw event to provider events.                          *)

Event(t, raw) == [t |-> t, index |-> raw.index, kind |-> raw.kind]

BlockKind(content) ==
  CASE content = "hidden" -> "thinking"
    [] content = "call"   -> "tool_use"
    [] OTHER              -> content

BlockStart(raw) == <<[Event("block_start", raw) EXCEPT !.kind = BlockKind(raw.kind)]>>

BlockStop(raw, block) ==
  <<[t |-> "block_stop", index |-> raw.index, kind |-> raw.kind, block |-> block]>>

\* The SDK assembles the block, which is passed through untouched.
Family(raw) ==
  CASE raw.raw = "start" -> BlockStart(raw)
    [] raw.raw = "delta" -> IF raw.kind \in Wordy THEN <<Event("delta", raw)>> ELSE <<>>
    [] raw.raw = "stop"  -> BlockStop(raw, [kind |-> raw.kind, size |-> raw.size])

Unopened(s, raw) == raw.index \notin DOMAIN s.opened

\* Only a tool call announces itself: the first delta of any other block opens it.
Synthesized(s, raw) == IF Unopened(s, raw) THEN BlockStart(raw) ELSE <<>>

Converse(s, raw) ==
  CASE raw.raw = "start" -> BlockStart(raw)
    [] raw.raw = "delta" /\ raw.kind \in Wordy -> Synthesized(s, raw) \o <<Event("delta", raw)>>
    [] raw.raw = "delta" /\ raw.kind = "hidden" -> Synthesized(s, raw)
    [] raw.raw = "delta" /\ raw.kind = "call" /\ ~Unopened(s, raw) -> <<>>
    [] raw.raw = "stop" /\ ~Unopened(s, raw) -> BlockStop(raw, s.opened[raw.index])
    [] OTHER -> <<Event("raw", raw)>>

Mapped(s, raw) == IF path = "family" THEN Family(raw) ELSE Converse(s, raw)

Put(f, i, x) == [j \in DOMAIN f \cup {i} |-> IF j = i THEN x ELSE f[j]]

\* The Converse mapper assembles its blocks itself.
Opened(s, raw) ==
  IF path = "family" \/ raw.kind = "other" THEN s.opened
  ELSE CASE raw.raw = "start" -> Put(s.opened, raw.index, [kind |-> raw.kind, size |-> 0])
         [] raw.raw = "delta" ->
              Put(s.opened, raw.index,
                  [kind |-> raw.kind, size |-> 1 + IF Unopened(s, raw) THEN 0
                                                   ELSE s.opened[raw.index].size])
         [] raw.raw = "stop"  -> [i \in DOMAIN s.opened \ {raw.index} |-> s.opened[i]]

ConverseReasons == {"end_turn", "tool_use", "max_tokens", "refusal"}

MapStopReason(reason) ==
  IF reason = "stop_sequence" \/ (path # "family" /\ reason \notin ConverseReasons)
  THEN "end_turn" ELSE reason

-----------------------------------------------------------------------------
(* The normalizer and streamTurn: one provider event to envelopes.         *)

\* A faulty variant for the mutation checks: the old "<id>:<block kind>" key.
KeyByKind(s, index) == <<s.turn, s.acc[index].kind>>

\* Index-based, under the harness's own id of the turn.
BlockKey(s, index) == <<s.turn, index>>

\* seq is for durable events only: a delta takes none.
Durable(s, type, key, size) ==
  [s EXCEPT !.seq = @ + 1,
            !.durable = Append(@, [seq |-> s.seq + 1, type |-> type, turn |-> s.turn,
                                   key |-> key, size |-> size])]

TypeOf(kind) ==
  CASE kind = "text"       -> "ai_text"
    [] kind = "thinking"   -> "ai_thinking"
    [] kind = "compaction" -> "context_compacted"
    [] OTHER               -> "tool_started"

\* The text the normalizer finds in a block: Converse nests its reasoning elsewhere.
TextOf(block) ==
  IF block.kind = "text" \/ (block.kind = "thinking" /\ path = "family") THEN block.size ELSE 0

MapBlockStop(s, e) ==
  LET acc  == s.acc[e.index]
      size == CASE acc.kind \notin Wordy -> 0
                [] TextOf(e.block) > 0 -> TextOf(e.block)
                [] OTHER -> acc.size
  IN  Durable(s, TypeOf(acc.kind), BlockKey(s, e.index), size)

\* The loop keeps the block and recognises the call by its canonical shape.
Collect(s, e) ==
  [s EXCEPT !.blocks = Append(@, e.block),
            !.calls = IF e.block.kind = "call" THEN Append(@, e.index) ELSE @]

Shown(s, e) ==
  [s EXCEPT !.acc[e.index].size = @ + 1, !.shown = Append(@, BlockKey(s, e.index))]

Take(s, e) ==
  CASE e.t = "block_start" ->
         [s EXCEPT !.acc = Put(@, e.index, [kind |-> e.kind, size |-> 0])]
    [] e.t = "delta"      -> Shown(s, e)
    [] e.t = "block_stop" -> MapBlockStop(Collect(s, e), e)
    [] e.t = "raw"        -> Durable(s, "ai_raw", <<>>, 0)

TakeAll(s, events) ==
  LET after[n \in 0 .. Len(events)] == IF n = 0 THEN s ELSE Take(after[n - 1], events[n])
  IN  after[Len(events)]

\* One raw event, through everything.
Read(s, raw) == [TakeAll(s, Mapped(s, raw)) EXCEPT !.opened = Opened(s, raw)]

ReadAll(s, raws) ==
  LET after[n \in 0 .. Len(raws)] == IF n = 0 THEN s ELSE Read(after[n - 1], raws[n])
  IN  after[Len(raws)]

RawEvent(raw, index, kind, size) == [raw |-> raw, index |-> index, kind |-> kind, size |-> size]

-----------------------------------------------------------------------------
(* The replay of an answer that came in one piece.                         *)

Delta(index, kind) == RawEvent("delta", index, kind, 1)
Stop(index, kind)  == RawEvent("stop", index, kind, 1)

ReplayCall(index) ==
  <<RawEvent("start", index, "call", 0), Delta(index, "call"), Stop(index, "call")>>

ReplayText(index, kind) == <<Delta(index, kind), Stop(index, kind)>>

\* A told call keeps the prose before it, if any, as a block of its own; encrypted reasoning
\* has no text and is passed over.
Replayed(block, index) ==
  CASE block.kind \in Wordy  -> ReplayText(index, block.kind)
    [] block.kind = "call"   -> ReplayCall(index)
    [] block.kind = "told"   -> IF block.size = 0 THEN ReplayCall(index)
                                ELSE ReplayText(index, "text") \o ReplayCall(index + 1)
    [] block.kind = "hidden" -> <<>>
    [] block.kind = "other"  -> <<Delta(index, "other")>>

Slots(block) ==
  CASE block.kind = "hidden" -> 0
    [] block.kind = "told"   -> 1 + block.size
    [] OTHER                 -> 1

\* A faulty variant: the response's own reason is honoured.
ReplayStopAsClaimed(reason) == reason

\* A converted call reports tool_use, whatever the response claimed.
ReplayStop(reason) == IF HasKind(said, "told") THEN "tool_use" ELSE reason

-----------------------------------------------------------------------------
(* The end of a turn.                                                      *)

Claude == {"ai_text", "ai_thinking", "tool_started"}

\* A faulty variant: every text of the turn carries its blocks.
CarriersAll(durable) == {i \in DOMAIN durable : durable[i].type \in {"ai_text", "ai_thinking"}}

\* Exactly one entry of the turn carries its blocks; a compaction alone is carried by the
\* system's own event.
Carriers(durable) ==
  LET of(types) == {i \in DOMAIN durable : durable[i].type \in types}
      first(S)  == {i \in S : \A j \in S : i <= j}
  IN  IF of(Claude) # {} THEN first(of(Claude)) ELSE first(of({"context_compacted"}))

Entries(s) ==
  [i \in DOMAIN s.durable |->
     [type |-> s.durable[i].type, seq |-> s.durable[i].seq, turn |-> s.durable[i].turn,
      key |-> s.durable[i].key, size |-> s.durable[i].size,
      blocks |-> IF i \in Carriers(s.durable) THEN s.blocks ELSE <<>>]]

Plain(type, seq) ==
  [type |-> type, seq |-> seq, turn |-> 0, key |-> <<>>, size |-> 0, blocks |-> <<>>]

\* What was shown stays shown; all else starts anew with the turn.
NewTurn(s) ==
  [s EXCEPT !.turn = @ + 1, !.opened = <<>>, !.held = "none", !.next = 1, !.acc = <<>>,
            !.durable = <<>>, !.blocks = <<>>, !.calls = <<>>, !.stop = "none"]

StreamInit ==
  /\ path \in Paths
  /\ said = <<>> /\ wire = "idle" /\ log = <<>> /\ past = <<>>
  /\ st = [turn |-> 0, seq |-> 0, opened |-> <<>>, held |-> "none", next |-> 1, acc |-> <<>>,
           durable |-> <<>>, blocks |-> <<>>, calls |-> <<>>, stop |-> "none", shown |-> <<>>]
  /\ run = [attempt |-> 0, aborted |-> FALSE, result |-> "running"]

Ends(result, entries) ==
  /\ run' = [run EXCEPT !.result = result]
  /\ st' = [st EXCEPT !.seq = @ + 1]
  /\ log' = log \o entries \o <<Plain("run_" \o result, st.seq + 1)>>

BeginTurn ==
  /\ wire = "idle" /\ run.result = "running" /\ ~run.aborted /\ st.turn < MaxTurns
  /\ wire' = "open" /\ said' = <<>> /\ st' = NewTurn(st)
  /\ UNCHANGED <<path, log, past, run>>

\* The boundary of a turn looks for an abort, and for the last turn.
EndAtBoundary ==
  /\ wire = "idle" /\ run.result = "running" /\ (run.aborted \/ st.turn = MaxTurns)
  /\ Ends(IF run.aborted THEN "interrupted" ELSE "failed", <<>>)
  /\ UNCHANGED <<path, said, wire, past>>

Abort ==
  /\ run.result = "running" /\ ~run.aborted /\ run' = [run EXCEPT !.aborted = TRUE]
  /\ UNCHANGED <<path, said, wire, st, log, past>>

-----------------------------------------------------------------------------
(* The wire.                                                               *)

StartBlock(kind) ==
  /\ wire = "open" /\ path # "replay" /\ kind # "other" /\ ~Full
  /\ wire' = "block" /\ said' = Append(said, [kind |-> kind, size |-> 0])
  /\ st' = IF path = "family" \/ kind = "call"
           THEN Read(st, RawEvent("start", Len(said) + 1, kind, 0)) ELSE st
  /\ UNCHANGED <<path, log, past, run>>

Piece ==
  /\ wire = "block" /\ Last(said).size < MaxPieces
  /\ said' = [said EXCEPT ![Len(said)].size = @ + 1]
  /\ st' = Read(st, Delta(Len(said), Last(said).kind))
  /\ UNCHANGED <<path, wire, log, past, run>>

\* A block of Converse exists by its deltas; a thinking block of the family may be finalized
\* as a signature, with no text.
EndBlock ==
  /\ wire = "block"
  /\ path = "converse" /\ Last(said).kind # "call" => Last(said).size > 0
  /\ \E size \in {Last(said).size}
                   \cup (IF path = "family" /\ Last(said).kind = "thinking" THEN {0} ELSE {}) :
       st' = Read(st, RawEvent("stop", Len(said), Last(said).kind, size))
  /\ wire' = "open"
  /\ UNCHANGED <<path, said, log, past, run>>

Replay(kind) ==
  /\ wire = "open" /\ path = "replay" /\ ~Full
  /\ \E size \in IF kind = "told" THEN {0, 1} ELSE {1} :
       LET block == [kind |-> kind, size |-> size]
       IN  /\ said' = Append(said, block)
           /\ st' = [ReadAll(st, Replayed(block, st.next)) EXCEPT !.next = @ + Slots(block)]
  /\ UNCHANGED <<path, wire, log, past, run>>

\* An event between two blocks that the mapper of Converse does not know.
Unknown ==
  /\ wire = "open" /\ path = "converse" /\ ~Full
  /\ said' = Append(said, [kind |-> "other", size |-> 1])
  /\ st' = Read(st, Delta(Len(said) + 1, "other"))
  /\ UNCHANGED <<path, wire, log, past, run>>

\* The family's message_delta speaks at once; Converse's stop reason waits for the usage.
StopMessage(reason) ==
  /\ wire = "open" /\ wire' = "stopped"
  /\ LET mapped == MapStopReason(IF path = "replay" THEN ReplayStop(reason) ELSE reason)
     IN  st' = IF path = "family" THEN [st EXCEPT !.stop = mapped] ELSE [st EXCEPT !.held = mapped]
  /\ past' = Append(past, [turn |-> st.turn, path |-> path, reason |-> reason,
                           said |-> said, done |-> "no", calls |-> <<>>])
  /\ UNCHANGED <<path, said, log, run>>

Metadata ==
  /\ wire = "stopped" /\ path # "family"
  /\ wire' = "billed" /\ st' = [st EXCEPT !.stop = st.held, !.held = "none"]
  /\ UNCHANGED <<path, said, log, past, run>>

\* A stream that stopped without metadata still settles.
Close ==
  /\ wire \in {"stopped", "billed"} /\ wire' = "closed"
  /\ st' = IF st.held = "none" THEN st ELSE [st EXCEPT !.stop = st.held, !.held = "none"]
  /\ UNCHANGED <<path, said, log, past, run>>

\* The connection ends in the middle, and the iteration with it.
Cut ==
  /\ wire \in {"open", "block"} /\ path # "replay" /\ wire' = "cut"
  /\ UNCHANGED <<path, said, st, log, past, run>>

\* The turn's durable events are dropped, though they hold seqs and their deltas were shown.
\* The fault is told in an event that is not recorded, and of an abort not even sent: it takes a
\* seq all the same.
Throw ==
  /\ wire \in {"open", "block", "stopped", "billed"}
  /\ path = "replay" => wire = "open" /\ said = <<>>
  /\ wire' = "idle"
  /\ LET result == IF run.aborted THEN "interrupted" ELSE "failed"
     IN  /\ st' = [st EXCEPT !.seq = @ + 2]
         /\ log' = Append(log, Plain("run_" \o result, st.seq + 2))
         /\ run' = [run EXCEPT !.result = result]
  /\ UNCHANGED <<path, said, past>>

-----------------------------------------------------------------------------
(* What the loop does about the stop reason.                               *)

Reason == IF st.stop = "none" THEN "end_turn" ELSE st.stop

Settles(calls) ==
  /\ wire \in {"closed", "cut"} /\ wire' = "idle"
  /\ past' = IF wire = "cut" THEN past
             ELSE [past EXCEPT ![Len(past)].done = "yes", ![Len(past)].calls = calls]
  /\ UNCHANGED <<path, said>>

\* Each call ends in one more durable event; how it gets there is HarnessRun's.
DispatchTools ==
  /\ Reason = "tool_use" /\ Settles(st.calls)
  /\ st' = [st EXCEPT !.seq = @ + Len(st.calls)]
  /\ log' = log \o Entries(st)
                \o [i \in DOMAIN st.calls |-> Plain("tool_finished", st.seq + i)]
  /\ run' = [run EXCEPT !.attempt = 0]

GoOn ==
  /\ \/ /\ Reason = "pause_turn" /\ run.attempt < MaxPauseResumes
        /\ run' = [run EXCEPT !.attempt = @ + 1]
     \/ /\ Reason = "model_context_window_exceeded"
        /\ run' = [run EXCEPT !.attempt = 0]
  /\ Settles(<<>>) /\ log' = log \o Entries(st)
  /\ UNCHANGED st

FailTurn ==
  /\ \/ Reason \in {"max_tokens", "refusal"}
     \/ Reason = "pause_turn" /\ run.attempt = MaxPauseResumes
  /\ Settles(<<>>) /\ Ends("failed", Entries(st))

Finish == Reason = "end_turn" /\ Settles(<<>>) /\ Ends("finished", Entries(st))

Wire ==
  \/ \E kind \in BlockKinds : StartBlock(kind) \/ Replay(kind)
  \/ \E reason \in Reasons : StopMessage(reason)
  \/ Piece \/ EndBlock \/ Unknown \/ Metadata \/ Close \/ Cut \/ Throw

StreamNext ==
  \/ Wire \/ BeginTurn \/ EndAtBoundary \/ Abort
  \/ DispatchTools \/ GoOn \/ FailTurn \/ Finish

StreamSpec == StreamInit /\ [][StreamNext]_streamVars

-----------------------------------------------------------------------------
(* Properties.                                                             *)

\* What a block of an answer is to the record: its events, with the text they hold.
Meaning(p, block) ==
  CASE block.kind \in Wordy -> <<<<TypeOf(block.kind), block.size>>>>
    [] block.kind = "compaction" -> <<<<"context_compacted", 0>>>>
    [] block.kind = "call"   -> <<<<"tool_started", 0>>>>
    [] block.kind = "hidden" -> IF p = "replay" THEN <<>> ELSE <<<<"ai_thinking", 0>>>>
    [] block.kind = "told"   -> (IF block.size = 0 THEN <<>> ELSE <<<<"ai_text", 1>>>>)
                                  \o <<<<"tool_started", 0>>>>
    [] block.kind = "other"  -> <<<<"ai_raw", 0>>>>

Meant(a) == FlattenSeq([i \in DOMAIN a.said |-> Meaning(a.path, a.said[i])])

\* What the record holds of an answer.
Of(a) == Chosen(log, {e \in Range(log) : e.turn = a.turn})

OfType(entries, types) == Chosen(entries, {e \in Range(entries) : e.type \in types})

SettledAnswers == {past[i] : i \in {j \in DOMAIN past : past[j].done = "yes"}}

KindsOf(type) ==
  CASE type = "ai_text" -> {"text"} [] type = "ai_thinking" -> {"thinking", "hidden"}
    [] type = "tool_started" -> {"call"} [] type = "context_compacted" -> {"compaction"}

\* However an answer was cut into pieces and by whichever path it came, the record holds one
\* event per block, in order and with the whole text, and the conversation carries each block
\* exactly once (run_loop.ts, blockCarrier; converse_stream.ts, the hazards at its head).
AnswerIsRecorded ==
  \A a \in SettledAnswers :
    /\ [i \in DOMAIN Of(a) |-> <<Of(a)[i].type, Of(a)[i].size>>] = Meant(a)
    /\ LET surface == FlattenSeq([i \in DOMAIN Of(a) |-> Of(a)[i].blocks])
           spoken  == OfType(Of(a), Claude \cup {"context_compacted"})
       IN  /\ Len(surface) = Len(spoken)
           /\ \A i \in DOMAIN surface : surface[i].kind \in KindsOf(spoken[i].type)

\* What participants saw arrive is what the record then says, block by block: the event of a
\* block settles exactly the text shown under its key (normalize.ts:23, BLOCK KEY).
LiveTextSettles ==
  \A a \in SettledAnswers : \A key \in Range(st.shown) :
    key[1] = a.turn =>
      \E i \in DOMAIN Of(a) :
        /\ Of(a)[i].size = Len(Chosen(st.shown, {key}))
        /\ \A j \in DOMAIN Of(a) : Of(a)[j].key = key <=> j = i

\* The answers after which the loop runs calls: a provider that stops for its tools says so, and
\* for a call that a model wrote out as text the replay does.
Dispatches(a) == a.reason = "tool_use" \/ HasKind(a.said, "told")

\* Every call that the room was told has started is run if the answer stopped for its tools or any
\* of them was written out (converse_response.ts:115); if it stopped for anything else, not one
\* is, whatever the room was told (stop_reasons.ts:77).
CallsAreDispatched ==
  \A a \in SettledAnswers :
    Len(a.calls) = IF Dispatches(a) THEN Len(OfType(Of(a), {"tool_started"})) ELSE 0
=============================================================================
