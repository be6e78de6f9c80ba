---------------------------- MODULE Conversation ----------------------------
(***************************************************************************)
(* What the model is sent.  A request is a fold over the surface of the    *)
(* record, which every lane of the session writes: prompts, the blocks of  *)
(* the responses, the results of the tool calls.  The provider refuses a   *)
(* request in which a call is not answered by the very next message, and   *)
(* once such a pair is on the surface every later request repeats it.      *)
(*                                                                         *)
(* The bookkeeping of a run is HarnessRun's; here a turn is four steps:    *)
(* the request is built, the response settles, its calls are answered one  *)
(* by one, and the loop decides what follows.  A crash leaves the calls    *)
(* that are owed to recovery, which answers them before anything starts.   *)
(***************************************************************************)
EXTENDS Integers, FiniteSets, Sequences, SequencesExt, Choosing, RequestShape

CONSTANTS
  Lanes,
  RunModels,   \* the models a run may be started with
  MaxResumes,  \* MAX_PAUSE_RESUMES
  MaxRuns,     \* bound: runs of the session
  MaxSurface,  \* bound: entries of the surface
  MaxCrashes   \* bound: crashes of the harness

ASSUME ConversationAssumption ==
  /\ IsFiniteSet(Lanes) /\ RunModels \subseteq ModelInfo
  /\ MaxResumes \in Nat /\ MaxRuns \in Nat /\ MaxSurface \in Nat /\ MaxCrashes \in Nat

\* The dialect of its blocks, which both Anthropic adapters share.
Dialect(model) == IF model.adapter = "converse" THEN "converse" ELSE "anthropic"

VARIABLES
  surface,  \* entries with on_surface = 1: [lane, run, role, key, blocks]
  header,   \* the last request_header of the record: its lane and its model
  loop,     \* lane -> its run, where it is and the request it sent last
  runs,     \* runs started so far
  crashes
conversationVars == <<surface, header, loop, runs, crashes>>

NoId == <<>>
NoModel == [adapter |-> "none"]
NoHeader == [lane |-> "none", model |-> NoModel]
NoBoundary == [at |-> 0, snapshot |-> NoHeader]   \* where the record ended when a request left
NoRequest == [messages |-> <<>>, alone |-> TRUE]
NoLoop == [run |-> 0, model |-> NoModel, at |-> "none", base |-> 1, resumes |-> 0,
           owed |-> <<>>, sent |-> NoRequest, headed |-> FALSE, asked |-> NoBoundary]

ConversationInit ==
  /\ surface = <<>> /\ header = NoHeader /\ loop = [l \in Lanes |-> NoLoop]
  /\ runs = 0 /\ crashes = 0

-----------------------------------------------------------------------------
(* A response                                                              *)

\* What the blocks of a response may be.  A model compacts only when it is asked to.
Contents(model) ==
  {<<>>, <<"thinking">>, <<"thinking", "text", "use">>, <<"use", "use">>}
  \cup IF Capabilities(model).compaction THEN {<<"compaction">>} ELSE {}

\* The id of the n-th block's call: the provider's own, which no other call has, or for a call
\* that was narrated one made of its place in the response.
Narrated(model) == model.adapter = "converse" /\ model.narrates
CallId(model, n) == IF Narrated(model) THEN <<0, n>> ELSE <<Len(surface) + 1, n>>

Blocks(model, content) ==
  [n \in DOMAIN content |->
     [kind |-> content[n], by |-> Dialect(model),
      id |-> IF content[n] = "use" THEN CallId(model, n) ELSE NoId]]

\* All the blocks ride on one entry: the first one of Claude's, or else the compaction's, and a
\* compaction is the system's, which the fold takes for the user.
Carrier(content) == IF Range(content) \subseteq {"compaction"} THEN "user" ELSE "assistant"

\* The ids of its calls.
Calls(blocks) ==
  LET uses == Chosen(blocks, {b \in Range(blocks) : b.kind = "use"})
  IN  [n \in DOMAIN uses |-> uses[n].id]

Stops == {"end_turn", "tool_use", "max_tokens", "pause_turn", "refusal", "window_exceeded"}

\* decide(): what the loop does about a stop reason.
Decide(stop, resumes) ==
  CASE stop = "end_turn" -> "settle"
    [] stop = "tool_use" -> "dispatch"
    [] stop \in {"max_tokens", "refusal"} -> "fail"
    [] stop = "pause_turn" -> IF resumes >= MaxResumes THEN "fail" ELSE "resume"
    [] stop = "window_exceeded" -> "compact"

-----------------------------------------------------------------------------
(* The fold                                                                *)

Ids(entries, kind) ==
  {b.id : b \in {c \in UNION {Range(e.blocks) : e \in Range(entries)} : c.kind = kind}}

Paired(entries) == Ids(entries, "use") \cap Ids(entries, "result")

\* Faulty variant: orphans are sent.
KeptAll(entry, paired) == entry.blocks
Kept(entry, paired) ==
  Chosen(entry.blocks, {b \in Range(entry.blocks) : b.id = NoId \/ b.id \in paired})

\* Entries that follow one another under one role are one message.
Join(messages, role, kept) ==
  IF kept = <<>> THEN messages
  ELSE IF messages # <<>> /\ Last(messages).role = role
       THEN [messages EXCEPT ![Len(messages)].content = @ \o kept]
       ELSE Append(messages, [role |-> role, content |-> kept])

FoldSurface(entries) ==
  LET paired == Paired(entries)
      fold[n \in 0 .. Len(entries)] ==
        IF n = 0 THEN <<>> ELSE Join(fold[n - 1], entries[n].role, Kept(entries[n], paired))
  IN  fold[Len(entries)]

\* What the adapter can say to its provider: text and calls in either dialect, its own dialect's
\* reasoning (Converse takes none that it can read), and nothing else.
Sayable(b, model) ==
  \/ b.kind \in {"text", "use", "result"}
  \/ b.by = Dialect(model) /\ ~(b.by = "converse" /\ b.kind = "thinking")

Say(message, model) ==
  [message EXCEPT !.content = Chosen(@, {b \in Range(@) : Sayable(b, model)})]

Translate(messages, model) ==
  LET said == [n \in DOMAIN messages |-> Say(messages[n], model)]
  IN  Chosen(said, {m \in Range(said) : m.content # <<>>})

\* Faulty variant: only the last entries are folded, to save tokens.
SurfaceWindow(base) == SubSeq(surface, IF base > Len(surface) - 2 THEN base ELSE Len(surface) - 2,
                              Len(surface))
SurfaceFrom(base) == SubSeq(surface, base, Len(surface))

Flat(messages) == FlattenSeq([n \in DOMAIN messages |-> messages[n].content])

-----------------------------------------------------------------------------
(* Rebuilding a request                                                    *)

\* reconstruct(): the model of the last header up to the boundary, and the fold of the surface
\* up to there.
Reconstruct(boundary) ==
  [model |-> boundary.snapshot.model, messages |-> FoldSurface(SubSeq(surface, 1, boundary.at))]

-----------------------------------------------------------------------------
(* The loop                                                                *)

\* The settlement key makes an entry single in its run: a second one is skipped, silently.
Write(entry) ==
  LET taken == entry.key # NoId
               /\ \E e \in Range(surface) : e.run = entry.run /\ e.key = entry.key
  IN  surface' = IF taken THEN surface ELSE Append(surface, entry)

Prompt(l, run) ==
  [lane |-> l, run |-> run, role |-> "user", key |-> NoId,
   blocks |-> <<[kind |-> "text", by |-> "loop", id |-> NoId]>>]

Result(l, id) ==
  [lane |-> l, run |-> loop[l].run, role |-> "user", key |-> id,
   blocks |-> <<[kind |-> "result", by |-> "loop", id |-> id]>>]

Over(l) == loop' = [loop EXCEPT ![l] = NoLoop]

\* resume_context = FALSE folds only what comes after: the baseline and the prompt are one step.
Start(l, model, severed) ==
  /\ loop[l].at = "none" /\ \A m \in Lanes : loop[m].at # "recovering"
  /\ runs < MaxRuns /\ Len(surface) < MaxSurface
  /\ runs' = runs + 1
  /\ Write(Prompt(l, runs'))
  /\ loop' = [loop EXCEPT ![l] = [NoLoop EXCEPT !.run = runs', !.model = model, !.at = "turn",
                                    !.base = IF severed THEN Len(surface) + 1 ELSE 1]]
  /\ UNCHANGED <<header, crashes>>

\* Faulty variant: a header for the session's first request only.
AnnouncesFirst(l) == header = NoHeader
\* The header is written when the loop's last one was another, so for a run's first request.
Announces(l) == ~loop[l].headed

\* build() cuts and reorders nothing of the surface.  The request leaves with the end of the
\* record noted, its header included; what another lane may write while request:before is awaited
\* in between is HarnessRun's subject.
Build(l) ==
  /\ loop[l].at = "turn"
  /\ header' = IF Announces(l) THEN [lane |-> l, model |-> loop[l].model] ELSE header
  /\ LET messages == FoldSurface(SurfaceFrom(loop[l].base))
     IN  loop' = [loop EXCEPT ![l].at = "asking", ![l].headed = TRUE,
                    ![l].asked = [at |-> Len(surface), snapshot |-> header'],
                    ![l].sent = [messages |-> messages,
                                 alone |-> \A m \in Lanes \ {l} : loop[m].at # "tools"]]
  /\ UNCHANGED <<surface, runs, crashes>>

\* The response settles: its blocks, the calls it plans, and what the loop does next.
Respond(l, content, stop) ==
  /\ loop[l].at = "asking" /\ Len(surface) < MaxSurface
  /\ stop = "tool_use" => "use" \in Range(content)
  /\ Narrated(loop[l].model) /\ "use" \in Range(content) => stop = "tool_use"
  /\ IF content = <<>> THEN UNCHANGED surface
     ELSE Write([lane |-> l, run |-> loop[l].run, role |-> Carrier(content), key |-> NoId,
                 blocks |-> Blocks(loop[l].model, content)])
  /\ LET action == Decide(stop, loop[l].resumes)
     IN  IF action = "fail" THEN Over(l)
         ELSE loop' = [loop EXCEPT
           ![l].at = CASE action = "dispatch" -> "tools" [] action = "settle" -> "answered"
                       [] OTHER -> "turn",
           ![l].asked = NoBoundary,
           ![l].resumes = IF action = "resume" THEN @ + 1 ELSE 0,
           ![l].owed = IF action = "dispatch" THEN Calls(Blocks(loop[l].model, content)) ELSE <<>>]
  /\ UNCHANGED <<header, runs, crashes>>

\* A follow-up that waited in the inbox extends the run, else the run finishes.
FollowUp(l) ==
  /\ loop[l].at = "answered"
  /\ \/ Len(surface) < MaxSurface /\ Write(Prompt(l, loop[l].run))
        /\ loop' = [loop EXCEPT ![l].at = "turn"]
     \/ Over(l) /\ UNCHANGED surface
  /\ UNCHANGED <<header, runs, crashes>>

\* One result an entry, refused, failed or finished.  When all are there the next turn begins,
\* unless the same failure keeps coming back.
Answer(l) ==
  /\ loop[l].at = "tools"
  /\ \/ /\ loop[l].owed # <<>> /\ Write(Result(l, Head(loop[l].owed)))
        /\ loop' = [loop EXCEPT ![l].owed = Tail(@)]
     \/ /\ loop[l].owed = <<>> /\ UNCHANGED surface
        /\ loop' = [loop EXCEPT ![l].at = "turn"] \/ Over(l)
  /\ UNCHANGED <<header, runs, crashes>>

\* An interrupt at the boundary of a turn, a stream that fails or is aborted, a hook that refuses.
End(l) ==
  /\ loop[l].at \in {"turn", "asking"}
  /\ Over(l)
  /\ UNCHANGED <<surface, header, runs, crashes>>

Crash ==
  /\ crashes < MaxCrashes /\ crashes' = crashes + 1
  /\ loop' = [l \in Lanes |->
       IF loop[l].at \in {"tools", "recovering"}
       THEN [loop[l] EXCEPT !.at = "recovering", !.sent = NoRequest] ELSE NoLoop]
  /\ UNCHANGED <<surface, header, runs>>

\* Recovery runs or makes up a result for each call that is owed, under the key it would have had.
Recover(l) ==
  /\ loop[l].at = "recovering"
  /\ IF loop[l].owed = <<>>
     THEN Over(l) /\ UNCHANGED surface
     ELSE /\ Write(Result(l, Head(loop[l].owed)))
          /\ loop' = [loop EXCEPT ![l].owed = Tail(@)]
  /\ UNCHANGED <<header, runs, crashes>>

ConversationNext ==
  \/ \E l \in Lanes :
       \/ \E model \in RunModels, severed \in BOOLEAN : Start(l, model, severed)
       \/ Build(l) \/ FollowUp(l) \/ Answer(l) \/ End(l) \/ Recover(l)
       \/ /\ loop[l].at = "asking"
          /\ \E content \in Contents(loop[l].model), stop \in Stops : Respond(l, content, stop)
  \/ Crash

ConversationSpec == ConversationInit /\ [][ConversationNext]_conversationVars

-----------------------------------------------------------------------------
(* Properties.                                                             *)

\* Another lane wrote between a call and its answer.
Interleaved ==
  \E i, j, k \in DOMAIN surface :
    /\ i < j /\ j < k /\ surface[j].lane # surface[i].lane
    /\ \E id \in Paired(surface) : /\ id \in Ids(<<surface[i]>>, "use")
                                   /\ id \in Ids(<<surface[k]>>, "result")

\* Calls were narrated in two turns: their ids are the same.  In one run the results of the second
\* turn are taken for those of the first and are not written; in two, a call that nobody has
\* answered yet, or the result of one that is not in the request, is taken for half of a pair.
NarratedTwice ==
  \E i, j \in DOMAIN surface :
    i < j /\ Ids(<<surface[i]>>, "use") \cap Ids(<<surface[j]>>, "use") # {}

IdsOf(message, kind) == {b.id : b \in {c \in Range(message.content) : c.kind = kind}}

\* The provider takes the request: it opens with the user, no message is hollow, and each call is
\* answered by the message that follows it, which answers no other.
Accepted(messages) ==
  /\ messages # <<>> /\ Head(messages).role = "user"
  /\ \A n \in DOMAIN messages : messages[n].content # <<>>
  /\ IdsOf(messages[1], "result") = {} /\ IdsOf(Last(messages), "use") = {}
  /\ \A n \in 1 .. Len(messages) - 1 :
       IdsOf(messages[n], "use") = IdsOf(messages[n + 1], "result")

\* No request is refused for how the conversation is put together or sized, whatever was
\* interrupted, cut off, crashed or recovered before it (request_builder.ts:95), as long as no
\* other lane wrote between a call and its answer and calls were not narrated in two turns.
RequestIsAccepted ==
  \A l \in Lanes :
    loop[l].at = "asking" /\ ~Interleaved /\ ~NarratedTwice =>
      Accepted(Translate(loop[l].sent.messages, loop[l].model)) /\ Fits(loop[l].model)

\* A run's requests extend one another (request_builder.ts:16): only a call that another lane had
\* under way when the first was built comes into the middle of the second, and a result whose call
\* is not in the first until another is narrated under its id.
Extends(l) ==
  /\ loop[l].sent # loop'[l].sent /\ loop[l].run = loop'[l].run
  /\ loop'[l].at = "asking" /\ loop[l].sent.alone

PrefixIsStable ==
  [][\A l \in Lanes :
       Extends(l) /\ ~NarratedTwice =>
         IsPrefix(Flat(loop[l].sent.messages), Flat(loop'[l].sent.messages))]_conversationVars

\* The run resumes the session, and had the record to itself since its first entry.
Undisturbed(l) ==
  /\ loop[l].base = 1 /\ loop[l].asked.snapshot.lane \notin Lanes \ {l}
  /\ \A i, j \in 1 .. loop[l].asked.at :
       i < j /\ surface[i].run = loop[l].run => surface[j].lane = l

\* A request can be rebuilt from the record (request_builder.ts:14): up to where the record ended
\* when it left, it says the model and the messages.  A run beside which another lane wrote and a
\* run that does not resume the session cannot be rebuilt.
RequestIsRebuilt ==
  \A l \in Lanes :
    loop[l].at = "asking" /\ Undisturbed(l) =>
      Reconstruct(loop[l].asked) = [model |-> loop[l].model, messages |-> loop[l].sent.messages]
=============================================================================
