-------------------------- MODULE StreamInvariant --------------------------
(***************************************************************************)
(* What every event of a stream and every step of the loop keeps, of what  *)
(* is gathered of an answer while it comes in and of what is recorded of   *)
(* the answers before: the inductive invariant from which ProviderProofs   *)
(* has the properties of the record.                                       *)
(***************************************************************************)
EXTENDS ProviderStream

-----------------------------------------------------------------------------
Maps(X) == UNION {[D -> X] : D \in SUBSET Nat}

\* What a block may be to a provider, and to the normalizer.
BlockNames ==
  {"text", "thinking", "hidden", "call", "compaction", "told", "other", "tool_use"}

EventNames == {"ai_text", "ai_thinking", "context_compacted", "tool_started", "ai_raw"}

RecordNames == EventNames \cup {"tool_finished"} \cup {"run_" \o r : r \in {"failed", "finished", "interrupted"}}

StopNames ==
  {"none", "tool_use", "end_turn", "stop_sequence", "refusal", "pause_turn", "max_tokens",
   "model_context_window_exceeded"}

ContentBlock == [kind : BlockNames, size : Nat]

Keys == {<<>>} \cup Nat \X Nat

Durables == [seq : Nat, type : EventNames, turn : Nat, key : Keys, size : Nat]

Recordings ==
  [type : RecordNames, seq : Nat, turn : Nat, key : Keys, size : Nat, blocks : Seq(ContentBlock)]

PastAnswers ==
  [turn : Nat, path : Paths, reason : StopNames, said : Seq(ContentBlock), done : {"no", "yes"},
   calls : Seq(Nat)]

Gatherings ==
  [turn : Nat, seq : Nat, opened : Maps(ContentBlock), held : StopNames, next : Nat, acc : Maps(ContentBlock),
   durable : Seq(Durables), blocks : Seq(ContentBlock), calls : Seq(Nat), stop : StopNames,
   shown : Seq(Nat \X Nat)]

Spoken == Claude \cup {"context_compacted"}

Pairs(entries) == [i \in DOMAIN entries |-> <<entries[i].type, entries[i].size>>]

MeantBy(answer) == FlattenSeq([i \in DOMAIN answer |-> Meaning(path, answer[i])])

\* What was shown of block n of a turn.
Seen(turn, shown, n) == Len(Chosen(shown, {<<turn, n>>}))

\* Every block that the normalizer knows has shown what it holds, and its number is at most top.
AccIsShown(turn, acc, shown, top) ==
  /\ \A n \in DOMAIN acc : n \in 1 .. top /\ Seen(turn, shown, n) = acc[n].size
  /\ \A i \in DOMAIN shown :
       shown[i][1] <= turn /\ (shown[i][1] = turn => shown[i][2] \in DOMAIN acc)

\* Every block but the open one has its event, and every event its block.
EventsAreKeyed(turn, acc, durable, open) ==
  /\ \A i \in DOMAIN durable :
       /\ durable[i].turn = turn
       /\ \/ durable[i].key = <<>>
          \/ \E n \in DOMAIN acc : /\ n # open /\ durable[i].key = <<turn, n>>
                                   /\ durable[i].size = acc[n].size
  /\ \A n \in DOMAIN acc : n # open => \E i \in DOMAIN durable : durable[i].key = <<turn, n>>
  /\ \A i, j \in DOMAIN durable :
       durable[i].key = durable[j].key /\ durable[i].key # <<>> => i = j

\* Every block that was kept has its event, and every call.
BlocksAreTold(durable, blocks, calls) ==
  LET told == OfType(durable, Spoken)
  IN  /\ Len(blocks) = Len(told)
      /\ \A i \in DOMAIN blocks : blocks[i].kind \in KindsOf(told[i].type)
      /\ Len(calls) = Len(OfType(durable, {"tool_started"}))

\* The mapper of Converse knows the open block, and no other.
MapperIsOpen(s, open) ==
  /\ path = "family" => s.opened = <<>>
  /\ path # "family" => /\ DOMAIN s.opened = DOMAIN s.acc \cap {open}
                        /\ \A n \in DOMAIN s.opened :
                             /\ s.acc[n].kind = BlockKind(s.opened[n].kind)
                             /\ s.opened[n].kind \in Wordy => s.opened[n].size = s.acc[n].size

Heard(s, meant, open, top) ==
  /\ s \in Gatherings /\ Pairs(s.durable) = meant
  /\ AccIsShown(s.turn, s.acc, s.shown, top) /\ EventsAreKeyed(s.turn, s.acc, s.durable, open)
  /\ BlocksAreTold(s.durable, s.blocks, s.calls)

Gathered(s, meant, open, top) == Heard(s, meant, open, top) /\ MapperIsOpen(s, open)

\* The open block is gathered as it is said.
OpenBlock(s, block, n) ==
  IF n \in DOMAIN s.acc
  THEN /\ s.acc[n].kind = BlockKind(block.kind)
       /\ s.acc[n].size = IF block.kind \in Wordy THEN block.size ELSE 0
       /\ path # "family" => s.opened[n].kind = block.kind
  ELSE path # "family" /\ block.kind # "call" /\ block.size = 0

Gathering ==
  /\ wire \in {"open", "stopped", "billed", "closed"} =>
       Gathered(st, MeantBy(said), 0, IF path = "replay" THEN st.next - 1 ELSE Len(said))
  /\ wire = "block" =>
       /\ path # "replay" /\ said # <<>>
       /\ Gathered(st, MeantBy(Front(said)), Len(said), Len(said))
       /\ OpenBlock(st, said[Len(said)], Len(said)) /\ said[Len(said)].kind # "other"

\* A settled answer and its entries, and what was shown of it.
IsRecorded(a, entries, shown) ==
  /\ Pairs(entries) = FlattenSeq([i \in DOMAIN a.said |-> Meaning(a.path, a.said[i])])
  /\ LET carried == FlattenSeq([i \in DOMAIN entries |-> entries[i].blocks])
         spoken  == OfType(entries, Spoken)
     IN  /\ Len(carried) = Len(spoken)
         /\ \A i \in DOMAIN carried : carried[i].kind \in KindsOf(spoken[i].type)
  /\ \A key \in Range(shown) :
       key[1] = a.turn =>
         \E i \in DOMAIN entries :
           /\ entries[i].size = Len(Chosen(shown, {key}))
           /\ \A j \in DOMAIN entries : entries[j].key = key <=> j = i
  /\ Len(a.calls) = IF Dispatches(a) THEN Len(OfType(entries, {"tool_started"})) ELSE 0

\* The stop reason as it reaches the loop.
MappedStop(reason) == MapStopReason(IF path = "replay" THEN ReplayStop(reason) ELSE reason)

\* The answer that has stopped, and where its stop reason is.
StoppedBy(a) ==
  /\ a.turn = st.turn /\ a.path = path /\ a.said = said /\ a.reason \in Reasons /\ a.done = "no"
  /\ \/ st.held = MappedStop(a.reason) /\ wire # "closed"
     \/ /\ st.held = "none" /\ st.stop = MappedStop(a.reason)
        /\ path = "family" \/ wire # "stopped"

\* There is one answer of a turn, and what is recorded of it is recorded when the turn ends.
History ==
  /\ \A i \in DOMAIN past : past[i].turn \in 1 .. st.turn
  /\ wire \in {"open", "block", "cut"} =>
       st.held = "none" /\ \A i \in DOMAIN past : past[i].turn < st.turn
  /\ wire \in {"stopped", "billed", "closed"} =>
       /\ past # <<>> /\ StoppedBy(past[Len(past)])
       /\ \A i \in 1 .. Len(past) - 1 : past[i].turn < st.turn
  /\ \A i \in DOMAIN log : log[i].turn <= st.turn
  /\ wire # "idle" => st.turn > 0 /\ \A i \in DOMAIN log : log[i].turn < st.turn
  /\ \A i \in DOMAIN st.shown : st.shown[i][1] <= st.turn
  /\ wire # "idle" => \A i \in DOMAIN st.durable : st.durable[i].turn = st.turn

StreamTypes ==
  /\ path \in Paths /\ said \in Seq(ContentBlock) /\ \A i \in DOMAIN said : said[i].kind \in BlockKinds
  /\ wire \in {"idle", "open", "block", "stopped", "billed", "closed", "cut"}
  /\ st \in Gatherings /\ st.next > 0 /\ log \in Seq(Recordings) /\ past \in Seq(PastAnswers)

\* What was recorded of the answers that settled.
AnswersHold == \A a \in SettledAnswers : IsRecorded(a, Of(a), st.shown)

Streaming == StreamTypes /\ Gathering /\ History /\ AnswersHold
=============================================================================
