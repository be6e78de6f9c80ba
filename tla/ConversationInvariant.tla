----------------------- MODULE ConversationInvariant -----------------------
(***************************************************************************)
(* What every step of the conversation keeps, of the record, of each lane  *)
(* and of the request it sent last: the inductive invariant from which     *)
(* ProviderProofs has the properties of a request.                         *)
(***************************************************************************)
EXTENDS Conversation

-----------------------------------------------------------------------------
(* Types.                                                                  *)

CallIds == {NoId} \cup (Nat \X Nat)
Block   == [kind : {"text", "thinking", "use", "result", "compaction"},
            by : {"converse", "anthropic", "loop"}, id : CallIds]
Role    == {"user", "assistant"}
Entry   == [lane : Lanes, run : Nat, role : Role, key : CallIds, blocks : Seq(Block)]
Message == [role : Role, content : Seq(Block)]

-----------------------------------------------------------------------------
(* The record and the lanes.                                               *)

GivenIds    == Nat \X Nat
Called(e)   == {b.id : b \in {c \in Range(e.blocks) : c.kind = "use"}}
Answered(e) == {b.id : b \in {c \in Range(e.blocks) : c.kind = "result"}}

RequestHeader == [lane : Lanes \cup {"none"}, model : ModelInfo \cup {NoModel}]
Request       == [messages : Seq(Message), alone : BOOLEAN]
Loop          ==
  [run : Nat, model : ModelInfo \cup {NoModel},
   at : {"none", "turn", "asking", "tools", "answered", "recovering"}, base : Nat \ {0},
   resumes : Nat, owed : Seq(GivenIds), sent : Request, headed : BOOLEAN,
   asked : [at : Nat, snapshot : RequestHeader]]

Typed(s, h, L, r) ==
  s \in Seq(Entry) /\ h \in RequestHeader /\ L \in [Lanes -> Loop] /\ r \in Nat

\* An entry holds calls or the result of one, under its call's id, or neither.
Sound(e) ==
  /\ \A b \in Range(e.blocks) : b.id = NoId <=> b.kind \notin {"use", "result"}
  /\ Called(e) # {} => e.role = "assistant"
  /\ Answered(e) # {} => e.role = "user" /\ Answered(e) = {e.key} /\ e.key # NoId

IsPrompt(e) == e.role = "user" /\ \E b \in Range(e.blocks) : b.kind = "text"

\* From the i-th entry to the k-th its lane wrote nothing but results of its calls.
Follows(s, i, k) ==
  \A j \in i + 1 .. k :
    s[j].lane = s[i].lane => Answered(s[j]) # {} /\ Answered(s[j]) \subseteq Called(s[i])

Single(s) ==
  \A i, k \in 1 .. Len(s) :
    i # k /\ s[i].run = s[k].run /\ s[i].key = s[k].key => s[i].key = NoId

Made(s) ==
  \A k \in 1 .. Len(s) : Answered(s[k]) # {} =>
    \E i \in 1 .. k - 1 : /\ Answered(s[k]) \subseteq Called(s[i]) /\ Follows(s, i, k)
                          /\ s[i].run = s[k].run /\ s[i].lane = s[k].lane

Recorded(s) ==
  /\ \A k \in 1 .. Len(s) : Sound(s[k])
  /\ s # <<>> => IsPrompt(s[1])
  /\ Single(s) /\ Made(s)

Owes(c) == c.at \in {"tools", "recovering"} /\ c.owed # <<>>

\* The calls that a lane owes are those of its last response.
Owing(s, l, c) ==
  Owes(c) =>
    \E i \in 1 .. Len(s) : /\ Range(c.owed) \subseteq Called(s[i]) /\ Follows(s, i, Len(s))
                           /\ s[i].run = c.run /\ s[i].lane = l

\* No result of a call of the first n entries is written after them.
Apart(s, L, n) ==
  /\ \A k \in n + 1 .. Len(s) : \A x \in Answered(s[k]) : \E i \in n + 1 .. k - 1 : x \in Called(s[i])
  /\ \A m \in Lanes : Owes(L[m]) => \E i \in n + 1 .. Len(s) : Range(L[m].owed) \subseteq Called(s[i])

\* What a lane asked last is the fold of the record as it was.
Asked(s, L, c) ==
  c.sent # NoRequest =>
    \E n \in c.base .. Len(s) : /\ c.sent.messages = FoldSurface(SubSeq(s, c.base, n))
                                /\ c.sent.alone => Apart(s, L, n)

\* A request that is out, and the header it left with.
Asking(s, l, c) ==
  /\ c.asked.at \in c.base .. Len(s)
  /\ c.sent.messages = FoldSurface(SubSeq(s, c.base, c.asked.at))
  /\ c.asked.snapshot.lane \in Lanes
  /\ c.asked.snapshot.lane = l => c.asked.snapshot.model = c.model

Busy(s, h, r, l, c) ==
  c.at # "none" =>
    /\ c.run \in 1 .. r /\ c.model \in RunModels
    /\ c.base <= Len(s) /\ IsPrompt(s[c.base])
    /\ c.headed => h.lane \in Lanes /\ (h.lane = l => h.model = c.model)
    /\ c.at = "recovering" => c.sent = NoRequest
    /\ c.at = "asking" => Asking(s, l, c)

\* Nothing starts while a lane recovers.
Exclusive(L) ==
  /\ \A l, m \in Lanes : L[l].at = "recovering" => L[m].at \in {"none", "recovering"}
  /\ \A l \in Lanes : L[l].at = "none" => L[l] = NoLoop

Sane(s, h, L, r) ==
  /\ Typed(s, h, L, r) /\ Recorded(s) /\ Exclusive(L)
  /\ \A l \in Lanes : Owing(s, l, L[l]) /\ Asked(s, L, L[l]) /\ Busy(s, h, r, l, L[l])

ConversationInv == Sane(surface, header, loop, runs)

-----------------------------------------------------------------------------
(* A window of the record from which a request can be folded.              *)

\* The calls and the results of an entry that a request keeps, and the calls that are still owed
\* their results after n entries.
UsesAt(s, n)    == {x \in Paired(s) : \E b \in Range(s[n].blocks) : b.kind = "use" /\ b.id = x}
ResultsAt(s, n) == {x \in Paired(s) : \E b \in Range(s[n].blocks) : b.kind = "result" /\ b.id = x}
Due(s, n)       == {x \in Paired(s) : /\ \E i \in 1 .. n : x \in UsesAt(s, i)
                                      /\ \A k \in 1 .. n : x \notin ResultsAt(s, k)}

\* A call is made once, its result comes after it and once, and nothing comes between them but
\* results of calls that were made with it.
Orderly(s) ==
  /\ s # <<>> /\ s[1].role = "user" /\ \E b \in Range(s[1].blocks) : b.kind = "text"
  /\ \A n \in 1 .. Len(s) :
       /\ \A b \in Range(s[n].blocks) : b.id = NoId <=> b.kind \notin {"use", "result"}
       /\ UsesAt(s, n) # {} => s[n].role = "assistant"
       /\ ResultsAt(s, n) # {} => s[n].role = "user"
       /\ ResultsAt(s, n) \subseteq Due(s, n - 1)
       /\ Due(s, n - 1) # {} => ResultsAt(s, n) # {}
       /\ \A i \in 1 .. n - 1 : UsesAt(s, i) \cap UsesAt(s, n) = {}

\* No call was narrated twice, and no other lane wrote between a call and its result.
Once(s) == \A i, k \in 1 .. Len(s) : i # k => Called(s[i]) \cap Called(s[k]) = {}
Undivided(s) ==
  \A i, j, k \in 1 .. Len(s) :
    i < j /\ j < k /\ s[j].lane # s[i].lane => Called(s[i]) \cap Answered(s[k]) = {}

\* The request so far: what it owes is what its last calls wait for.
InOrder(M, due) ==
  /\ M \in Seq(Message) /\ M # <<>> /\ \A k \in 1 .. Len(M) : M[k].content # <<>>
  /\ M[1].role = "user" /\ IdsOf(M[1], "result") = {} /\ \E b \in Range(M[1].content) : b.kind = "text"
  /\ \A k \in 1 .. Len(M) - 2 : IdsOf(M[k + 1], "result") = IdsOf(M[k], "use")
  /\ Len(M) = 1 => due = {}
  /\ M[Len(M)].role = "assistant" =>
       /\ IdsOf(M[Len(M)], "use") = due
       /\ IdsOf(M[Len(M)], "result") = {} /\ IdsOf(M[Len(M) - 1], "use") = {}
  /\ M[Len(M)].role = "user" =>
       /\ IdsOf(M[Len(M)], "use") = {}
       /\ Len(M) > 1 => /\ due \subseteq IdsOf(M[Len(M) - 1], "use")
                        /\ IdsOf(M[Len(M)], "result") = IdsOf(M[Len(M) - 1], "use") \ due
=============================================================================
