--------------------------- MODULE HarnessRunProofs ---------------------------
(***************************************************************************)
(* The types of HarnessRun, and that no tool is started twice; what the    *)
(* log of a session holds and what a restart owes: no entry is skipped,    *)
(* every call has one answer, a run that has ended is never added to, and  *)
(* none is served that a recovery has still to answer for; and that the    *)
(* harness, with its loops, crashes and recoveries, implements ToolLedger. *)
(*                                                                         *)
(* The inductive invariant is a conjunction of named parts, each proved by *)
(* a lemma with one step per action.                                       *)
(***************************************************************************)
EXTENDS HarnessRun, FiniteSetTheorems, TLAPS

-----------------------------------------------------------------------------
(* Highest elements.  A finite set of numbers has one, but finiteness would *)
(* need an induction: the invariant carries the highest element instead.    *)

HasHighest(S) == \E s \in S : \A t \in S : t <= s

SeqsOf(r) == {0} \cup {e.seq : e \in {f \in entries : f.run = r}}

UsageIds == {0} \cup {u.id : u \in usage}

LEMMA HighestIsHighest ==
  ASSUME NEW S, HasHighest(S)
  PROVE  Highest(S) \in S /\ \A t \in S : t <= Highest(S)
  BY DEF HasHighest, Highest

\* The record's seqs and usage ids have highest elements, and a live run's normalizer is
\* at or above every seq its run has in the record.
SeqInv ==
  /\ \A r \in Runs : HasHighest(SeqsOf(r))
  /\ HasHighest(UsageIds)
  /\ \A r \in Runs : loop[r].pc # "idle" =>
       \A e \in entries : e.run = r => e.seq <= loop[r].seq

-----------------------------------------------------------------------------
(* Lemmas about the operators that write the record.                       *)

LEMMA EventsTyped ==
  ASSUME NEW r \in Runs, NEW n \in Nat, NEW types, DOMAIN types = 1..n,
         \A i \in 1..n : types[i] \in Types, loop[r].seq \in Nat, storeSeq \in Nat
  PROVE  Events(r, types) \subseteq Entries
  BY DEF Events, Entries, Settled

LEMMA SettlementTyped ==
  ASSUME NEW r \in Runs, NEW type \in Types, NEW key \in Settled, NEW at \in Nat,
         storeSeq \in Nat
  PROVE  Settlement(r, type, key, at) \in Entries
  BY DEF Settlement, Entries

LEMMA RecordTyped ==
  ASSUME entries \subseteq Entries, lost \subseteq Entries, storeSeq \in Nat,
         NEW batch \in SUBSET Entries, NEW n \in Nat, Record(batch, n)
  PROVE  entries' \subseteq Entries /\ lost' \subseteq Entries /\ storeSeq' \in Nat
  BY DEF Record

LEMMA HighestSeqTyped ==
  ASSUME entries \subseteq Entries, NEW r \in Runs, HasHighest(SeqsOf(r))
  PROVE  HighestSeq(r) \in Nat /\ \A e \in entries : e.run = r => e.seq <= HighestSeq(r)
<1>1. SeqsOf(r) \subseteq Nat  BY DEF SeqsOf, Entries
<1>2. HighestSeq(r) = Highest(SeqsOf(r))  BY DEF HighestSeq, SeqsOf
<1>3. \A e \in entries : e.run = r => e.seq \in SeqsOf(r)  BY DEF SeqsOf
<1>4. Highest(SeqsOf(r)) \in SeqsOf(r) /\ \A t \in SeqsOf(r) : t <= Highest(SeqsOf(r))
  BY HighestIsHighest
<1> QED  BY <1>1, <1>2, <1>3, <1>4

LEMMA NextUsageIdTyped ==
  ASSUME HasHighest(UsageIds), \A u \in usage : u.id \in Nat
  PROVE  NextUsageId \in Nat
<1>1. UsageIds \subseteq Nat  BY DEF UsageIds
<1>2. NextUsageId = 1 + Highest(UsageIds)  BY DEF NextUsageId, UsageIds
<1>3. Highest(UsageIds) \in UsageIds  BY HighestIsHighest
<1>4. Highest(UsageIds) \in Nat  BY <1>1, <1>3
<1> QED  BY <1>2, <1>4

\* A batch above `base` keeps the run's highest seq well defined, and moves it by n at most.
LEMMA BatchKeepsSeqs ==
  ASSUME entries \subseteq Entries, NEW r \in Runs, NEW base \in Nat, NEW n \in Nat,
         NEW batch \in SUBSET Entries, NEW k \in Nat, Record(batch, k),
         \A q \in Runs : HasHighest(SeqsOf(q)),
         \A e \in entries : e.run = r => e.seq <= base,
         \A e \in batch : e.run = r /\ (e.seq = 0 \/ e.seq \in base + 1 .. base + n),
         \A i \in 1..n : \E e \in batch : e.seq = base + i /\ e.settles = None
  PROVE  /\ \A q \in Runs : HasHighest(SeqsOf(q))'
         /\ \A e \in entries' : e.run = r => e.seq <= base + n
         /\ \A e \in entries' : e.run # r => e \in entries
<1>1. \A e \in entries' : e \in entries \/ e \in batch  BY DEF Record
<1>2. \A e \in entries : e \in entries'  BY DEF Record
<1>3. \A e \in entries' : e.run = r => e.seq <= base + n
  BY <1>1 DEF Entries
<1>4. \A e \in entries' : e.run # r => e \in entries
  BY <1>1
<1>5. ASSUME NEW q \in Runs, q # r PROVE HasHighest(SeqsOf(q))'
  <2>1. SeqsOf(q)' = SeqsOf(q)  BY <1>2, <1>4, <1>5 DEF SeqsOf
  <2> QED  BY <2>1 DEF HasHighest
<1>6. HasHighest(SeqsOf(r))'
  <2>1. CASE n = 0
    <3>1. SeqsOf(r)' = SeqsOf(r)
      <4>1. \A e \in batch : e.seq = 0  BY <2>1
      <4> QED  BY <1>1, <1>2, <4>1 DEF SeqsOf
    <3> QED  BY <3>1 DEF HasHighest
  <2>2. CASE n > 0
    <3>1. PICK e \in batch : e.seq = base + n /\ e.settles = None  BY <2>2
    <3>2. ~Duplicate(e)  BY <3>1, <2>2 DEF Duplicate, Entries
    <3>3. e \in entries'  BY <3>2 DEF Record
    <3>4. base + n \in SeqsOf(r)'  BY <3>1, <3>3 DEF SeqsOf
    <3>5. \A t \in SeqsOf(r)' : t <= base + n  BY <1>3 DEF SeqsOf
    <3> QED  BY <3>4, <3>5 DEF HasHighest
  <2> QED  BY <2>1, <2>2
<1> QED  BY <1>3, <1>4, <1>5, <1>6

\* What one commit of a live run's loop does to the log.
LEMMA LoopCommit ==
  ASSUME TypeOK, SeqInv, NEW r \in Runs, loop[r].pc # "idle", NEW n \in Nat, NEW types,
         DOMAIN types = 1..n, \A i \in 1..n : types[i] \in Types,
         NEW X \in SUBSET Entries, \A x \in X : x.run = r /\ x.seq = 0,
         NEW k \in Nat, Record(Events(r, types) \cup X, k)
  PROVE  /\ entries' \subseteq Entries /\ lost' \subseteq Entries /\ storeSeq' \in Nat
         /\ \A q \in Runs : HasHighest(SeqsOf(q))'
         /\ \A e \in entries' : e.run = r => e.seq <= loop[r].seq + n
         /\ \A e \in entries' : e.run # r => e \in entries
<1> DEFINE batch == Events(r, types) \cup X
<1>1. loop[r].seq \in Nat /\ storeSeq \in Nat /\ entries \subseteq Entries /\ lost \subseteq Entries
  BY DEF TypeOK, Loops
<1>2. batch \in SUBSET Entries  BY <1>1, EventsTyped
<1>3. \A e \in batch : e.run = r /\ (e.seq = 0 \/ e.seq \in loop[r].seq + 1 .. loop[r].seq + n)
  BY <1>1 DEF Events
<1>4. ASSUME NEW i \in 1..n PROVE \E e \in batch : e.seq = loop[r].seq + i /\ e.settles = None
  <2> DEFINE e == [id |-> storeSeq + i, run |-> r, seq |-> loop[r].seq + i, type |-> types[i],
                   settles |-> None]
  <2>1. e \in batch  BY DEF Events
  <2>2. e.seq = loop[r].seq + i /\ e.settles = None  OBVIOUS
  <2> HIDE DEF e
  <2> QED  BY <2>1, <2>2
<1>5. \A e \in entries : e.run = r => e.seq <= loop[r].seq
  BY DEF SeqInv
<1>6. \A q \in Runs : HasHighest(SeqsOf(q))  BY DEF SeqInv
<1> HIDE DEF batch
<1>7. Record(batch, k)  BY DEF batch
<1> QED  BY <1>1, <1>2, <1>3, <1>4, <1>5, <1>6, <1>7, BatchKeepsSeqs, RecordTyped

\* Recovery writes settlements only, which take no seq.
LEMMA RecoveryCommit ==
  ASSUME TypeOK, SeqInv, NEW r \in Runs, NEW x \in Entries, x.run = r, x.seq = 0,
         Record({x}, 1)
  PROVE  /\ entries' \subseteq Entries /\ lost' \subseteq Entries /\ storeSeq' \in Nat
         /\ \A q \in Runs : HasHighest(SeqsOf(q))'
<1>1. storeSeq \in Nat /\ entries \subseteq Entries /\ lost \subseteq Entries
  BY DEF TypeOK
<1>2. HighestSeq(r) \in Nat /\ \A e \in entries : e.run = r => e.seq <= HighestSeq(r)
  BY <1>1, HighestSeqTyped DEF SeqInv
<1>3. \A q \in Runs : HasHighest(SeqsOf(q))  BY DEF SeqInv
<1> DEFINE batch == {x}
<1>4. /\ batch \in SUBSET Entries /\ Record(batch, 1)
      /\ \A e \in batch : e.run = r /\ e.seq = 0
  OBVIOUS
<1> HIDE DEF batch
<1> QED  BY <1>1, <1>2, <1>3, <1>4, BatchKeepsSeqs, RecordTyped

-----------------------------------------------------------------------------
(* Type correctness.                                                       *)

LEMMA TypeInit == Init => TypeOK /\ SeqInv
<1> SUFFICES ASSUME Init PROVE TypeOK /\ SeqInv  OBVIOUS
<1>1. TypeOK
  BY LimitsAssumption, RunsAssumption
  DEF Init, TypeOK, Phases, Statuses, Policies, Loops, Steps, Idle
<1>2. SeqInv
  BY DEF Init, SeqInv, SeqsOf, UsageIds, HasHighest, Idle
<1> QED  BY <1>1, <1>2

\* What an update of one run's loop does to the loops.
LEMMA Moved ==
  ASSUME loop \in [Runs -> Loops], NEW r \in Runs, NEW l \in Loops, Becomes(r, l)
  PROVE  /\ loop' \in [Runs -> Loops] /\ loop'[r] = l
         /\ \A q \in Runs : q # r => loop'[q] = loop[q]
  BY DEF Becomes

\* A step that leaves the log and the ledger alone, while live loops only move forward.
LEMMA QuietStep ==
  ASSUME TypeOK, SeqInv, UNCHANGED <<entries, usage>>, loop' \in [Runs -> Loops],
         \A r \in Runs : loop'[r].pc # "idle" =>
           loop[r].pc # "idle" /\ loop[r].seq <= loop'[r].seq
  PROVE  SeqInv'
<1>1. \A r \in Runs : SeqsOf(r)' = SeqsOf(r)  BY DEF SeqsOf
<1>2. UsageIds' = UsageIds  BY DEF UsageIds
<1>3. ASSUME NEW r \in Runs, loop'[r].pc # "idle", NEW e \in entries', e.run = r
      PROVE  e.seq <= loop'[r].seq
  BY <1>3 DEF SeqInv, TypeOK, Loops, Entries
<1> QED  BY <1>1, <1>2, <1>3 DEF SeqInv

\* A step of one run's loop that leaves the log and the ledger alone.
LEMMA QuietMove ==
  ASSUME TypeOK, SeqInv, NEW r \in Runs, NEW l \in Loops, Becomes(r, l),
         UNCHANGED <<entries, usage>>,
         l.pc # "idle" => loop[r].pc # "idle" /\ loop[r].seq <= l.seq
  PROVE  loop' \in [Runs -> Loops] /\ SeqInv'
<1>1. loop \in [Runs -> Loops]  BY DEF TypeOK
<1>2. /\ loop' \in [Runs -> Loops] /\ loop'[r] = l
      /\ \A q \in Runs : q # r => loop'[q] = loop[q]
  BY <1>1, Moved
<1>3. ASSUME NEW q \in Runs, loop'[q].pc # "idle"
      PROVE  loop[q].pc # "idle" /\ loop[q].seq <= loop'[q].seq
  <2>1. loop[q].seq \in Nat  BY <1>1 DEF Loops
  <2>2. CASE q = r  BY <2>2, <1>2, <1>3
  <2>3. CASE q # r  BY <2>1, <2>3, <1>2, <1>3
  <2> QED  BY <2>2, <2>3
<1> QED  BY <1>2, <1>3, QuietStep

\* A step that commits a batch of the loop: n events, and settlements X.
LEMMA CommitMove ==
  ASSUME TypeOK, SeqInv, NEW r \in Runs, loop[r].pc # "idle", NEW n \in Nat, NEW types,
         DOMAIN types = 1..n, \A i \in 1..n : types[i] \in Types,
         NEW X \in SUBSET Entries, \A x \in X : x.run = r /\ x.seq = 0,
         NEW k \in Nat, Record(Events(r, types) \cup X, k),
         NEW l \in Loops, Becomes(r, l), l.seq = loop[r].seq + n, HasHighest(UsageIds)'
  PROVE  /\ loop' \in [Runs -> Loops]
         /\ entries' \subseteq Entries /\ lost' \subseteq Entries /\ storeSeq' \in Nat
         /\ SeqInv'
<1>1. loop \in [Runs -> Loops]  BY DEF TypeOK
<1>2. /\ loop' \in [Runs -> Loops] /\ loop'[r] = l
      /\ \A q \in Runs : q # r => loop'[q] = loop[q]
  BY <1>1, Moved
<1>3. /\ entries' \subseteq Entries /\ lost' \subseteq Entries /\ storeSeq' \in Nat
      /\ \A q \in Runs : HasHighest(SeqsOf(q))'
      /\ \A e \in entries' : e.run = r => e.seq <= loop[r].seq + n
      /\ \A e \in entries' : e.run # r => e \in entries
  BY LoopCommit
<1>4. ASSUME NEW q \in Runs, loop'[q].pc # "idle", NEW e \in entries', e.run = q
      PROVE  e.seq <= loop'[q].seq
  <2>1. CASE q = r  BY <2>1, <1>2, <1>3, <1>4
  <2>2. CASE q # r  BY <2>2, <1>2, <1>3, <1>4 DEF SeqInv
  <2> QED  BY <2>1, <2>2
<1>5. SeqInv'  BY <1>3, <1>4 DEF SeqInv
<1> QED  BY <1>2, <1>3, <1>5

\* The same with no settlement, which is how most of the loop writes.
LEMMA EventMove ==
  ASSUME TypeOK, SeqInv, NEW r \in Runs, loop[r].pc # "idle", NEW n \in Nat, NEW types,
         DOMAIN types = 1..n, \A i \in 1..n : types[i] \in Types,
         Record(Events(r, types), n),
         NEW l \in Loops, Becomes(r, l), l.seq = loop[r].seq + n, HasHighest(UsageIds)'
  PROVE  /\ loop' \in [Runs -> Loops]
         /\ entries' \subseteq Entries /\ lost' \subseteq Entries /\ storeSeq' \in Nat
         /\ SeqInv'
<1>1. Events(r, types) \cup {} = Events(r, types)  OBVIOUS
<1>2. Record(Events(r, types) \cup {}, n)  BY <1>1
<1> QED  BY <1>2, CommitMove

\* A usage row under a reserved id keeps the ledger's highest id well defined.
LEMMA UsageRow ==
  ASSUME TypeOK, SeqInv, NEW u, u.id \in Nat,
         usage' = usage \cup {u} \/ usage' = usage
  PROVE  HasHighest(UsageIds)'
<1>1. CASE usage' = usage
  <2>1. UsageIds' = UsageIds  BY <1>1 DEF UsageIds
  <2> QED  BY <2>1 DEF SeqInv, HasHighest
<1>2. CASE usage' = usage \cup {u}
  <2>1. UsageIds' = UsageIds \cup {u.id}  BY <1>2 DEF UsageIds
  <2>2. UsageIds \subseteq Nat  BY DEF UsageIds, TypeOK
  <2>3. PICK h \in UsageIds : \A t \in UsageIds : t <= h  BY DEF SeqInv, HasHighest
  <2>4. CASE u.id <= h  BY <2>1, <2>3, <2>4 DEF HasHighest
  <2>5. CASE ~(u.id <= h)
    <3>1. \A t \in UsageIds : t <= u.id  BY <2>2, <2>3, <2>5
    <3> QED  BY <2>1, <3>1 DEF HasHighest
  <2> QED  BY <2>4, <2>5
<1> QED  BY <1>1, <1>2

\* The words of the model belong to their sets.
LEMMA Words ==
  /\ "turn" \in Steps /\ "gate" \in Steps /\ "stream" \in Steps /\ "stopped" \in Steps
  /\ "calls" \in Steps /\ "marked" \in Steps /\ "running" \in Steps /\ "ending" \in Steps
  /\ "closing" \in Steps /\ "idle" \in Steps
  /\ "finished" \in Outcomes /\ "failed" \in Outcomes /\ "interrupted" \in Outcomes
  BY DEF Steps, Outcomes

LEMMA IdleTyped == Idle \in Loops
  BY Words, LimitsAssumption DEF Idle, Loops

-----------------------------------------------------------------------------
(* The actions that only move a loop.                                      *)

LEMMA TypeTurnLimit ==
  ASSUME TypeOK, SeqInv, NEW r \in Runs, TurnLimit(r)
  PROVE  TypeOK' /\ SeqInv'
<1>1. loop[r] \in Loops /\ loop[r].seq \in Nat  BY DEF TypeOK, Loops
<1> DEFINE l == [loop[r] EXCEPT !.pc = "ending", !.end = "failed"]
<1>2. l \in Loops  BY <1>1, Words DEF Loops
<1>a. l.pc # "idle" => loop[r].seq <= l.seq  BY <1>1 DEF Loops
<1>3. Becomes(r, l) /\ (l.pc # "idle" => loop[r].pc # "idle")
  BY <1>1 DEF TurnLimit, EndsAs, At, Live, Loops
<1>4. UNCHANGED <<entries, usage>>  BY DEF TurnLimit, recordVars
<1> HIDE DEF l
<1>5. loop' \in [Runs -> Loops] /\ SeqInv'
  BY <1>2, <1>a, <1>3, <1>4, QuietMove
<1> QED  BY <1>5, RunsAssumption, LimitsAssumption DEF TypeOK, TurnLimit, SetPhase, Phases, Statuses, recordVars, hostVars, pastVars

LEMMA TypeStopAtBoundary ==
  ASSUME TypeOK, SeqInv, NEW r \in Runs, StopAtBoundary(r)
  PROVE  TypeOK' /\ SeqInv'
<1>1. loop[r] \in Loops /\ loop[r].seq \in Nat  BY DEF TypeOK, Loops
<1> DEFINE l == [loop[r] EXCEPT !.pc = "ending", !.end = "interrupted"]
<1>2. l \in Loops  BY <1>1, Words DEF Loops
<1>a. l.pc # "idle" => loop[r].seq <= l.seq  BY <1>1 DEF Loops
<1>3. Becomes(r, l) /\ (l.pc # "idle" => loop[r].pc # "idle")
  BY <1>1 DEF StopAtBoundary, EndsAs, At, Live, Loops
<1>4. UNCHANGED <<entries, usage>>  BY DEF StopAtBoundary, recordVars
<1> HIDE DEF l
<1>5. loop' \in [Runs -> Loops] /\ SeqInv'
  BY <1>2, <1>a, <1>3, <1>4, QuietMove
<1> QED  BY <1>5, RunsAssumption, LimitsAssumption DEF TypeOK, StopAtBoundary, SetPhase, Phases, Statuses, recordVars, hostVars, pastVars

LEMMA TypeBuild ==
  ASSUME TypeOK, SeqInv, NEW r \in Runs, Build(r)
  PROVE  TypeOK' /\ SeqInv'
<1>1. loop[r] \in Loops /\ loop[r].seq \in Nat  BY DEF TypeOK, Loops
<1>b. loop[r].turns + 1 \in 0..MaxTurns /\ storeSeq \in Nat
  BY <1>1, LimitsAssumption DEF Build, TypeOK, Loops
<1> DEFINE l == [loop[r] EXCEPT !.pc = "gate", !.turns = @ + 1, !.fold = storeSeq]
<1>2. l \in Loops  BY <1>1, Words, <1>b DEF Loops
<1>a. l.pc # "idle" => loop[r].seq <= l.seq  BY <1>1 DEF Loops
<1>3. Becomes(r, l) /\ (l.pc # "idle" => loop[r].pc # "idle")
  BY <1>1 DEF Build, At, Live, Loops
<1>4. UNCHANGED <<entries, usage>>  BY DEF Build, recordVars
<1> HIDE DEF l
<1>5. loop' \in [Runs -> Loops] /\ SeqInv'
  BY <1>2, <1>a, <1>3, <1>4, QuietMove
<1> QED  BY <1>5, RunsAssumption, LimitsAssumption DEF TypeOK, Build, SetPhase, Phases, Statuses, recordVars, hostVars, pastVars

LEMMA TypeFinish ==
  ASSUME TypeOK, SeqInv, NEW r \in Runs, Finish(r)
  PROVE  TypeOK' /\ SeqInv'
<1>1. loop[r] \in Loops /\ loop[r].seq \in Nat  BY DEF TypeOK, Loops
<1> DEFINE l == [loop[r] EXCEPT !.pc = "ending", !.end = "finished"]
<1>2. l \in Loops  BY <1>1, Words DEF Loops
<1>a. l.pc # "idle" => loop[r].seq <= l.seq  BY <1>1 DEF Loops
<1>3. Becomes(r, l) /\ (l.pc # "idle" => loop[r].pc # "idle")
  BY <1>1 DEF Finish, EndsAs, At, Live, Loops
<1>4. UNCHANGED <<entries, usage>>  BY DEF Finish, recordVars
<1> HIDE DEF l
<1>5. loop' \in [Runs -> Loops] /\ SeqInv'
  BY <1>2, <1>a, <1>3, <1>4, QuietMove
<1> QED  BY <1>5, RunsAssumption, LimitsAssumption DEF TypeOK, Finish, SetPhase, Phases, Statuses, recordVars, hostVars, pastVars

LEMMA TypeRunTool ==
  ASSUME TypeOK, SeqInv, NEW r \in Runs, RunTool(r)
  PROVE  TypeOK' /\ SeqInv'
<1>1. loop[r] \in Loops /\ loop[r].seq \in Nat  BY DEF TypeOK, Loops
<1> DEFINE l == [loop[r] EXCEPT !.pc = "running"]
<1>2. l \in Loops  BY <1>1, Words DEF Loops
<1>a. l.pc # "idle" => loop[r].seq <= l.seq  BY <1>1 DEF Loops
<1>3. Becomes(r, l) /\ (l.pc # "idle" => loop[r].pc # "idle")
  BY <1>1 DEF RunTool, GoesTo, At, Live, Loops
<1>4. UNCHANGED <<entries, usage>>  BY DEF RunTool, recordVars
<1> HIDE DEF l
<1>5. loop' \in [Runs -> Loops] /\ SeqInv'
  BY <1>2, <1>a, <1>3, <1>4, QuietMove
<1>e. effects' \in [Calls -> Nat]
  <2>1. effects \in [Calls -> Nat]  BY DEF TypeOK
  <2>2. effects' = [effects EXCEPT ![loop[r].call] = @ + 1]  BY DEF RunTool
  <2>3. \A c \in Calls : effects'[c] \in Nat  BY <2>1, <2>2
  <2>4. effects' = [c \in Calls |-> effects'[c]]  BY <2>1, <2>2
  <2> QED  BY <2>3, <2>4
<1> QED  BY <1>5, <1>e, RunsAssumption, LimitsAssumption DEF TypeOK, RunTool, SetPhase, Phases, Statuses, recordVars, hostVars, pastVars

LEMMA TypeMessage ==
  ASSUME TypeOK, SeqInv, NEW r \in Runs, Message(r)
  PROVE  TypeOK' /\ SeqInv'
<1>1. loop[r] \in Loops /\ loop[r].seq \in Nat  BY DEF TypeOK, Loops
<1> DEFINE l == [loop[r] EXCEPT !.inbox = @ + 1]
<1>2. l \in Loops  BY <1>1, Words DEF Loops
<1>a. l.pc # "idle" => loop[r].seq <= l.seq  BY <1>1 DEF Loops
<1>3. Becomes(r, l) /\ (l.pc # "idle" => loop[r].pc # "idle")
  BY <1>1 DEF Message, At, Live, Loops
<1>4. UNCHANGED <<entries, usage>>  BY DEF Message, recordVars
<1> HIDE DEF l
<1>5. loop' \in [Runs -> Loops] /\ SeqInv'
  BY <1>2, <1>a, <1>3, <1>4, QuietMove
<1>e. accepted' \in [Runs -> 0..MaxMessages]
  BY LimitsAssumption DEF TypeOK, Message
<1> QED  BY <1>5, <1>e, RunsAssumption, LimitsAssumption DEF TypeOK, Message, SetPhase, Phases, Statuses, recordVars, hostVars, pastVars

LEMMA TypeInterrupt ==
  ASSUME TypeOK, SeqInv, NEW r \in Runs, Interrupt(r)
  PROVE  TypeOK' /\ SeqInv'
<1>1. loop[r] \in Loops /\ loop[r].seq \in Nat  BY DEF TypeOK, Loops
<1> DEFINE l == [loop[r] EXCEPT !.aborted = TRUE]
<1>2. l \in Loops  BY <1>1, Words DEF Loops
<1>a. l.pc # "idle" => loop[r].seq <= l.seq  BY <1>1 DEF Loops
<1>3. Becomes(r, l) /\ (l.pc # "idle" => loop[r].pc # "idle")
  BY <1>1 DEF Interrupt, At, Live, Loops
<1>4. UNCHANGED <<entries, usage>>  BY DEF Interrupt, recordVars
<1> HIDE DEF l
<1>5. loop' \in [Runs -> Loops] /\ SeqInv'
  BY <1>2, <1>a, <1>3, <1>4, QuietMove
<1> QED  BY <1>5, RunsAssumption, LimitsAssumption DEF TypeOK, Interrupt, SetPhase, Phases, Statuses, recordVars, hostVars, pastVars

LEMMA TypeClearCall ==
  ASSUME TypeOK, SeqInv, NEW r \in Runs, NEW c \in Calls, ClearCall(r, c)
  PROVE  TypeOK' /\ SeqInv'
<1>1. loop[r] \in Loops /\ loop[r].seq \in Nat  BY DEF TypeOK, Loops
<1> DEFINE l == [loop[r] EXCEPT !.pc = "marked", !.call = c]
<1>2. l \in Loops  BY <1>1, Words DEF Loops
<1>a. l.pc # "idle" => loop[r].seq <= l.seq  BY <1>1 DEF Loops
<1>3. Becomes(r, l) /\ (l.pc # "idle" => loop[r].pc # "idle")
  BY <1>1 DEF ClearCall, At, Live, Loops, WithCallStatus
<1>4. UNCHANGED <<entries, usage>>  BY DEF ClearCall, recordVars, WithCallStatus
<1> HIDE DEF l
<1>5. loop' \in [Runs -> Loops] /\ SeqInv'
  BY <1>2, <1>a, <1>3, <1>4, QuietMove
<1> QED  BY <1>5, RunsAssumption, LimitsAssumption DEF TypeOK, ClearCall, SetPhase, Phases, Statuses, recordVars, hostVars, pastVars, WithCallStatus

LEMMA TypeClose ==
  ASSUME TypeOK, SeqInv, NEW r \in Runs, Close(r)
  PROVE  TypeOK' /\ SeqInv'
<1>1. loop[r] \in Loops /\ loop[r].seq \in Nat  BY DEF TypeOK, Loops
<1> DEFINE l == Idle
<1>2. l \in Loops  BY <1>1, Words, IdleTyped DEF Loops, Idle
<1>a. l.pc # "idle" => loop[r].seq <= l.seq  BY <1>1 DEF Loops, Idle
<1>3. Becomes(r, l) /\ (l.pc # "idle" => loop[r].pc # "idle")
  BY <1>1 DEF Close, At, Live, Loops, ClaimLane
<1>4. UNCHANGED <<entries, usage>>  BY DEF Close, recordVars, ClaimLane
<1> HIDE DEF l
<1>5. loop' \in [Runs -> Loops] /\ SeqInv'
  BY <1>2, <1>a, <1>3, <1>4, QuietMove
<1> QED  BY <1>5, RunsAssumption, LimitsAssumption DEF TypeOK, Close, SetPhase, Phases, Statuses, recordVars, hostVars, pastVars, ClaimLane

LEMMA TypeStreamFails ==
  ASSUME TypeOK, SeqInv, NEW r \in Runs, StreamFails(r)
  PROVE  TypeOK' /\ SeqInv'
<1>1. loop[r] \in Loops /\ loop[r].seq \in Nat  BY DEF TypeOK, Loops
<1>p. PICK n \in 0..MaxBlocks :
       Becomes(r, [loop[r] EXCEPT !.pc = "ending", !.seq = @ + n + 1,
                     !.end = IF loop[r].aborted THEN "interrupted" ELSE "failed"])
  BY DEF StreamFails
<1>q. n \in Nat /\ loop[r].seq + n + 1 \in Nat
      /\ (IF loop[r].aborted THEN "interrupted" ELSE "failed") \in Outcomes
  BY <1>1, Words, LimitsAssumption
<1> DEFINE l == [loop[r] EXCEPT !.pc = "ending", !.seq = @ + n + 1,
                              !.end = IF loop[r].aborted THEN "interrupted" ELSE "failed"]
<1>2. l \in Loops  BY <1>1, <1>p, Words, <1>q DEF Loops
<1>a. l.pc # "idle" => loop[r].seq <= l.seq  BY <1>1, <1>q
<1>3. Becomes(r, l) /\ (l.pc # "idle" => loop[r].pc # "idle")
  BY <1>1, <1>p DEF StreamFails, At, Live, Loops
<1>4. UNCHANGED <<entries, usage>>  BY <1>p DEF StreamFails, recordVars
<1> HIDE DEF l
<1>5. loop' \in [Runs -> Loops] /\ SeqInv'
  BY <1>2, <1>a, <1>3, <1>4, QuietMove
<1> QED  BY <1>5, <1>p, RunsAssumption, LimitsAssumption DEF TypeOK, StreamFails, SetPhase, Phases, Statuses, recordVars, hostVars, pastVars

LEMMA TypeFinishCalls ==
  ASSUME TypeOK, SeqInv, NEW r \in Runs, FinishCalls(r)
  PROVE  TypeOK' /\ SeqInv'
<1>1. loop[r] \in Loops /\ loop[r].seq \in Nat  BY DEF TypeOK, Loops
<1>q. [loop[r] EXCEPT !.pc = "ending", !.end = "failed"] \in Loops  BY <1>1, Words DEF Loops
<1>0. 0 \in 0..MaxResumes  BY LimitsAssumption
<1>s. [loop[r] EXCEPT !.pc = "turn", !.attempt = 0] \in Loops  BY <1>1, <1>0, Words DEF Loops
<1> DEFINE l == IF loop[r].streak >= MaxFailures
                THEN [loop[r] EXCEPT !.pc = "ending", !.end = "failed"]
                ELSE [loop[r] EXCEPT !.pc = "turn", !.attempt = 0]
<1>2. l \in Loops  BY <1>1, Words, <1>q, <1>s DEF Loops
<1>a. l.pc # "idle" => loop[r].seq <= l.seq  BY <1>1 DEF Loops
<1>3. Becomes(r, l) /\ (l.pc # "idle" => loop[r].pc # "idle")
  BY <1>1 DEF FinishCalls, EndsAs, At, Live, Loops
<1>4. UNCHANGED <<entries, usage>>  BY DEF FinishCalls, recordVars
<1> HIDE DEF l
<1>5. loop' \in [Runs -> Loops] /\ SeqInv'
  BY <1>2, <1>a, <1>3, <1>4, QuietMove
<1> QED  BY <1>5, RunsAssumption, LimitsAssumption DEF TypeOK, FinishCalls, SetPhase, Phases, Statuses, recordVars, hostVars, pastVars

-----------------------------------------------------------------------------
(* The actions that write the log.                                         *)

\* The types of a batch of one entry, and of one of n like entries.
LEMMA OneType ==
  ASSUME NEW t \in Types
  PROVE  DOMAIN <<t>> = 1..1 /\ \A i \in 1..1 : <<t>>[i] \in Types
<1>1. DOMAIN <<t>> = 1..1  OBVIOUS
<1>2. <<t>>[1] \in Types /\ \A i \in 1..1 : i = 1  OBVIOUS
<1> QED  BY <1>1, <1>2

LEMMA SameTypes ==
  ASSUME NEW n \in Nat, NEW t \in Types
  PROVE  DOMAIN [i \in 1..n |-> t] = 1..n /\ \A j \in 1..n : [i \in 1..n |-> t][j] \in Types
  OBVIOUS

\* The record's other columns, as a settlement leaves them.
LEMMA LedgerAlone ==
  ASSUME SeqInv, usage' = usage
  PROVE  HasHighest(UsageIds)'
<1>1. UsageIds' = UsageIds  BY DEF UsageIds
<1> QED  BY <1>1 DEF SeqInv, HasHighest

LEMMA TypeRefuse ==
  ASSUME TypeOK, SeqInv, NEW r \in Runs, Refuse(r)
  PROVE  TypeOK' /\ SeqInv'
<1> DEFINE l == [loop[r] EXCEPT !.pc = "ending", !.end = "failed", !.seq = @ + 1]
           types == <<"provider_error">>
<1>1. loop[r] \in Loops /\ loop[r].seq \in Nat  BY DEF TypeOK, Loops
<1>2. l \in Loops
  <2>1. loop[r].seq + 1 \in Nat  BY <1>1
  <2> QED  BY <1>1, <2>1, Words DEF Loops
<1>3. l.seq = loop[r].seq + 1  BY <1>1 DEF Loops
<1>4. DOMAIN types = 1..1 /\ \A i \in 1..1 : types[i] \in Types  BY OneType DEF Types
<1>5. Becomes(r, l) /\ loop[r].pc # "idle" /\ Record(Events(r, types), 1)
  BY DEF Refuse, RecordAndShip, At
<1>6. HasHighest(UsageIds)'  BY LedgerAlone DEF Refuse
<1> HIDE DEF l, types
<1>7. /\ loop' \in [Runs -> Loops]
      /\ entries' \subseteq Entries /\ lost' \subseteq Entries /\ storeSeq' \in Nat
      /\ SeqInv'
  BY <1>2, <1>3, <1>4, <1>5, <1>6, EventMove
<1> QED  BY <1>7 DEF TypeOK, Refuse, hostVars, pastVars

LEMMA TypeTerminate ==
  ASSUME TypeOK, SeqInv, NEW r \in Runs, Terminate(r)
  PROVE  TypeOK' /\ SeqInv'
<1> DEFINE l == [loop[r] EXCEPT !.pc = "closing", !.seq = @ + 1]
           types == <<TerminalType(loop[r].end)>>
<1>1. loop[r] \in Loops /\ loop[r].seq \in Nat  BY DEF TypeOK, Loops
<1>2. l \in Loops
  <2>1. loop[r].seq + 1 \in Nat  BY <1>1
  <2> QED  BY <1>1, <2>1, Words DEF Loops
<1>3. l.seq = loop[r].seq + 1  BY <1>1 DEF Loops
<1>4. DOMAIN types = 1..1 /\ \A i \in 1..1 : types[i] \in Types
  <2>1. TerminalType(loop[r].end) \in Types  BY DEF TerminalType, Types
  <2> QED  BY <2>1, OneType
<1>5. Becomes(r, l) /\ loop[r].pc # "idle" /\ Record(Events(r, types), 1)
  BY DEF Terminate, RecordAndShip, At
<1>6. HasHighest(UsageIds)'  BY LedgerAlone DEF Terminate
<1> HIDE DEF l, types
<1>7. /\ loop' \in [Runs -> Loops]
      /\ entries' \subseteq Entries /\ lost' \subseteq Entries /\ storeSeq' \in Nat
      /\ SeqInv'
  BY <1>2, <1>3, <1>4, <1>5, <1>6, EventMove
<1> QED  BY <1>7 DEF TypeOK, Terminate, SetPhase, Phases, hostVars, pastVars

LEMMA TypeFollowUps ==
  ASSUME TypeOK, SeqInv, NEW r \in Runs, FollowUps(r)
  PROVE  TypeOK' /\ SeqInv'
<1> DEFINE n == loop[r].inbox
           l == [loop[r] EXCEPT !.pc = "turn", !.seq = @ + loop[r].inbox, !.inbox = 0,
                                !.attempt = 0]
           types == [i \in 1..n |-> "user_prompt"]
<1>1. loop[r] \in Loops /\ loop[r].seq \in Nat /\ n \in Nat /\ 0 \in 0..MaxResumes
  BY LimitsAssumption DEF TypeOK, Loops
<1>2. l \in Loops
  <2>1. loop[r].seq + loop[r].inbox \in Nat  BY <1>1
  <2> QED  BY <1>1, <2>1, Words DEF Loops
<1>3. l.seq = loop[r].seq + n  BY <1>1 DEF Loops
<1>4. DOMAIN types = 1..n /\ \A i \in 1..n : types[i] \in Types  BY <1>1, SameTypes DEF Types
<1>5. Becomes(r, l) /\ loop[r].pc # "idle" /\ Record(Events(r, types), n)
  BY DEF FollowUps, RecordAndShip, At
<1>6. HasHighest(UsageIds)'  BY LedgerAlone DEF FollowUps
<1> HIDE DEF l, n, types
<1>7. /\ loop' \in [Runs -> Loops]
      /\ entries' \subseteq Entries /\ lost' \subseteq Entries /\ storeSeq' \in Nat
      /\ SeqInv'
  BY <1>1, <1>2, <1>3, <1>4, <1>5, <1>6, EventMove
<1> QED  BY <1>7 DEF TypeOK, FollowUps, SetPhase, Phases, hostVars, pastVars

LEMMA TypeIntent ==
  ASSUME TypeOK, SeqInv, NEW r \in Runs, Intent(r)
  PROVE  TypeOK' /\ SeqInv'
<1>1. /\ loop[r] \in Loops /\ loop[r].seq \in Nat /\ loop[r].turns \in Nat
      /\ loop[r].attempt \in Nat /\ storeSeq \in Nat
  BY LimitsAssumption DEF TypeOK, Loops
<1>2. PICK n \in HeaderSizes(r) :
        /\ RecordAndShip(r, [i \in 1..n |-> "request_header"], n)
        /\ Becomes(r, [loop[r] EXCEPT !.pc = "stream", !.seq = @ + n,
                                      !.uid = NextUsageId, !.boundary = storeSeq + n])
  BY DEF Intent, CommitRequestIntent
<1>3. n \in Nat /\ storeSeq + n \in Nat  BY <1>1 DEF HeaderSizes
<1>4. NextUsageId \in Nat
  <2>1. \A u \in usage : u.id \in Nat  BY DEF TypeOK
  <2> QED  BY <2>1, NextUsageIdTyped DEF SeqInv
<1> DEFINE l == [loop[r] EXCEPT !.pc = "stream", !.seq = @ + n,
                                !.uid = NextUsageId, !.boundary = storeSeq + n]
           types == [i \in 1..n |-> "request_header"]
<1>5. l \in Loops
  <2>1. loop[r].seq + n \in Nat  BY <1>1, <1>3
  <2> QED  BY <1>1, <1>3, <1>4, <2>1, Words DEF Loops
<1>6. l.seq = loop[r].seq + n  BY <1>1 DEF Loops
<1>7. DOMAIN types = 1..n /\ \A i \in 1..n : types[i] \in Types  BY <1>3, SameTypes DEF Types
<1>8. Becomes(r, l) /\ loop[r].pc # "idle" /\ Record(Events(r, types), n)
  BY <1>2 DEF Intent, RecordAndShip, At, CommitRequestIntent
<1>9. HasHighest(UsageIds)'  BY LedgerAlone DEF Intent, CommitRequestIntent
<1> HIDE DEF l, types
<1>10. /\ loop' \in [Runs -> Loops]
       /\ entries' \subseteq Entries /\ lost' \subseteq Entries /\ storeSeq' \in Nat
       /\ SeqInv'
  BY <1>3, <1>5, <1>6, <1>7, <1>8, <1>9, EventMove
<1>11. reqkey' \in [Runs -> {None} \cup (Nat \X Nat)]
  BY <1>1 DEF TypeOK, Intent, CommitRequestIntent
<1> QED  BY <1>10, <1>11 DEF TypeOK, Intent, SetPhase, Phases, hostVars, pastVars, CommitRequestIntent

\* A settlement of the pending request, whatever position it leaves.
LEMMA SettleTyped ==
  ASSUME TypeOK, SeqInv, NEW r \in Runs, loop[r].pc # "idle", NEW n \in 0..MaxBlocks,
         NEW billed, Settle(r, n, billed),
         NEW l \in Loops, Becomes(r, l), l.seq = loop[r].seq + n
  PROVE  /\ loop' \in [Runs -> Loops]
         /\ entries' \subseteq Entries /\ lost' \subseteq Entries /\ storeSeq' \in Nat
         /\ usage' \subseteq [id : Nat, run : Runs, turn : Nat, fold : Nat, boundary : Nat]
         /\ SeqInv'
<1> DEFINE types == [i \in 1..n |-> "assistant"]
           u == [id |-> loop[r].uid, run |-> r, turn |-> loop[r].turns,
                 fold |-> loop[r].fold, boundary |-> loop[r].boundary]
<1>1. n \in Nat  BY LimitsAssumption
<1>2. DOMAIN types = 1..n /\ \A i \in 1..n : types[i] \in Types  BY <1>1, SameTypes DEF Types
<1>3. Record(Events(r, types), n)  BY DEF Settle, RecordAndShip, InsertUsage
<1>4. usage' = usage \cup {u} \/ usage' = usage  BY DEF Settle, InsertUsage
<1>5. u \in [id : Nat, run : Runs, turn : Nat, fold : Nat, boundary : Nat] /\ u.id \in Nat
  BY LimitsAssumption DEF TypeOK, Loops
<1> HIDE DEF types, u
<1>6. HasHighest(UsageIds)'  BY <1>4, <1>5, UsageRow
<1>7. usage' \subseteq [id : Nat, run : Runs, turn : Nat, fold : Nat, boundary : Nat]
  BY <1>4, <1>5 DEF TypeOK
<1> QED  BY <1>1, <1>2, <1>3, <1>6, <1>7, EventMove

LEMMA TypeSettleTo ==
  ASSUME TypeOK, SeqInv, NEW r \in Runs, loop[r].pc # "idle",
         NEW pc \in Steps, NEW attempt \in 0..MaxResumes, NEW end \in Outcomes \cup {"none"},
         SettleTo(r, pc, attempt, end)
  PROVE  TypeOK' /\ SeqInv'
<1>1. loop[r] \in Loops /\ loop[r].seq \in Nat  BY DEF TypeOK, Loops
<1>2. PICK n \in 0..MaxBlocks, billed \in Reports :
        /\ Settle(r, n, billed)
        /\ Becomes(r, [loop[r] EXCEPT !.pc = pc, !.seq = @ + n, !.attempt = attempt,
                                      !.end = end])
  BY DEF SettleTo
<1> DEFINE l == [loop[r] EXCEPT !.pc = pc, !.seq = @ + n, !.attempt = attempt, !.end = end]
<1>3. l \in Loops
  <2>1. loop[r].seq + n \in Nat  BY <1>1, LimitsAssumption
  <2> QED  BY <1>1, <2>1 DEF Loops
<1>4. l.seq = loop[r].seq + n  BY <1>1 DEF Loops
<1>5. Becomes(r, l)  BY <1>2
<1> HIDE DEF l
<1>6. /\ loop' \in [Runs -> Loops]
      /\ entries' \subseteq Entries /\ lost' \subseteq Entries /\ storeSeq' \in Nat
      /\ usage' \subseteq [id : Nat, run : Runs, turn : Nat, fold : Nat, boundary : Nat]
      /\ SeqInv'
  BY <1>2, <1>3, <1>4, <1>5, SettleTyped
<1>7. UNCHANGED <<plan, status, replay, reqkey, owner, hostVars, effects, accepted>>
  BY <1>2 DEF SettleTo, Settle, InsertUsage
<1>8. phase' \in [Runs -> Phases]  BY DEF TypeOK, SettleTo, SetPhase, Phases
<1> QED  BY <1>6, <1>7, <1>8 DEF TypeOK, hostVars

LEMMA TypeTurnOver ==
  ASSUME TypeOK, SeqInv, NEW r \in Runs, PauseTurn(r) \/ Compact(r) \/ CutOff(r) \/ EndTurn(r)
  PROVE  TypeOK' /\ SeqInv'
<1>1. loop[r].attempt \in 0..MaxResumes /\ 0 \in 0..MaxResumes
  BY LimitsAssumption DEF TypeOK, Loops
<1>2. loop[r].pc # "idle"  BY DEF PauseTurn, Compact, CutOff, EndTurn, At
<1>3. PICK pc \in Steps, attempt \in 0..MaxResumes, end \in Outcomes \cup {"none"} :
        SettleTo(r, pc, attempt, end)
  <2>1. CASE PauseTurn(r)
    <3>1. CASE loop[r].attempt >= MaxResumes
      BY <1>1, <2>1, <3>1, Words DEF PauseTurn
    <3>2. CASE ~(loop[r].attempt >= MaxResumes)
      <4>1. loop[r].attempt + 1 \in 0..MaxResumes  BY <1>1, <3>2, LimitsAssumption
      <4> QED  BY <4>1, <2>1, <3>2, Words DEF PauseTurn
    <3> QED  BY <3>1, <3>2
  <2>2. CASE Compact(r)  BY <1>1, <2>2, Words DEF Compact
  <2>3. CASE CutOff(r)  BY <1>1, <2>3, Words DEF CutOff
  <2>4. CASE EndTurn(r)  BY <1>1, <2>4, Words DEF EndTurn
  <2> QED  BY <2>1, <2>2, <2>3, <2>4
<1> QED  BY <1>2, <1>3, TypeSettleTo

LEMMA TypeDispatchTools ==
  ASSUME TypeOK, SeqInv, NEW r \in Runs, DispatchTools(r)
  PROVE  TypeOK' /\ SeqInv'
<1>1. loop[r] \in Loops /\ loop[r].seq \in Nat  BY DEF TypeOK, Loops
<1>2. PICK S \in SUBSET {c \in Calls : status[c] = "unused"}, n \in 0..MaxBlocks,
           billed \in Reports :
        /\ Settle(r, n, billed)
        /\ \E policy \in [S -> Policies] :
             replay' = [c \in Calls |-> IF c \in S THEN policy[c] ELSE replay[c]]
        /\ plan' = [plan EXCEPT ![r] = S]
        /\ status' = [c \in Calls |-> IF c \in S THEN "planned" ELSE status[c]]
        /\ Becomes(r, [loop[r] EXCEPT !.pc = "calls", !.seq = @ + n])
  BY DEF DispatchTools, Askable, PlanTools
<1> DEFINE l == [loop[r] EXCEPT !.pc = "calls", !.seq = @ + n]
<1>3. l \in Loops
  <2>1. loop[r].seq + n \in Nat  BY <1>1, LimitsAssumption
  <2> QED  BY <1>1, Words, <2>1 DEF Loops
<1>4. l.seq = loop[r].seq + n  BY <1>1 DEF Loops
<1>5. Becomes(r, l) /\ loop[r].pc # "idle"  BY <1>2 DEF DispatchTools, At, PlanTools
<1> HIDE DEF l
<1>6. /\ loop' \in [Runs -> Loops]
      /\ entries' \subseteq Entries /\ lost' \subseteq Entries /\ storeSeq' \in Nat
      /\ usage' \subseteq [id : Nat, run : Runs, turn : Nat, fold : Nat, boundary : Nat]
      /\ SeqInv'
  BY <1>2, <1>3, <1>4, <1>5, SettleTyped
<1>7. UNCHANGED <<reqkey, owner, hostVars, effects, accepted>>  BY <1>2 DEF Settle, InsertUsage
<1>8. phase' \in [Runs -> Phases]  BY DEF TypeOK, DispatchTools, SetPhase, Phases, PlanTools
<1>9. plan' \in [Runs -> SUBSET Calls]  BY <1>2 DEF TypeOK
<1>10. status' \in [Calls -> Statuses]  BY <1>2 DEF TypeOK, Statuses
<1>11. replay' \in [Calls -> Policies]
  <2>1. PICK policy \in [S -> Policies] :
          replay' = [c \in Calls |-> IF c \in S THEN policy[c] ELSE replay[c]]
    BY <1>2
  <2> QED  BY <2>1 DEF TypeOK
<1> QED  BY <1>6, <1>7, <1>8, <1>9, <1>10, <1>11 DEF TypeOK, hostVars

\* A call's result: one event of the loop and one settlement under the call's id.
LEMMA AnswerTyped ==
  ASSUME TypeOK, SeqInv, NEW r \in Runs, loop[r].pc # "idle", NEW type \in Types,
         NEW c \in Calls \cup {None},
         Record(Events(r, <<type>>) \cup {Settlement(r, "tool_result", c, 2)}, 2),
         usage' = usage, NEW l \in Loops, Becomes(r, l), l.seq = loop[r].seq + 1
  PROVE  /\ loop' \in [Runs -> Loops]
         /\ entries' \subseteq Entries /\ lost' \subseteq Entries /\ storeSeq' \in Nat
         /\ SeqInv'
<1> DEFINE types == <<type>>
           X == {Settlement(r, "tool_result", c, 2)}
<1>1. DOMAIN types = 1..1 /\ \A i \in 1..1 : types[i] \in Types  BY OneType
<1>2. storeSeq \in Nat /\ c \in Settled  BY DEF TypeOK, Settled
<1>3. X \in SUBSET Entries
  <2>1. Settlement(r, "tool_result", c, 2) \in Entries  BY <1>2, SettlementTyped DEF Types
  <2> QED  BY <2>1
<1>4. \A x \in X : x.run = r /\ x.seq = 0  BY DEF Settlement
<1>5. HasHighest(UsageIds)'  BY LedgerAlone
<1>6. Record(Events(r, types) \cup X, 2)  OBVIOUS
<1> HIDE DEF types, X
<1> QED  BY <1>1, <1>3, <1>4, <1>5, <1>6, CommitMove

LEMMA TypeRefuseCall ==
  ASSUME TypeOK, SeqInv, NEW r \in Runs, NEW c \in Calls, RefuseCall(r, c)
  PROVE  TypeOK' /\ SeqInv'
<1> DEFINE l == [loop[r] EXCEPT !.seq = @ + 1]
<1>1. loop[r] \in Loops /\ loop[r].seq \in Nat  BY DEF TypeOK, Loops
<1>2. l \in Loops  BY <1>1 DEF Loops
<1>3. l.seq = loop[r].seq + 1  BY <1>1 DEF Loops
<1>4. Becomes(r, l) /\ loop[r].pc # "idle" /\ usage' = usage  BY DEF RefuseCall, At, WithCallStatus
<1>5. Record(Events(r, <<"tool_refused">>) \cup {Settlement(r, "tool_result", c, 2)}, 2)
  BY DEF RefuseCall, WithCallStatus
<1> HIDE DEF l
<1>6. /\ loop' \in [Runs -> Loops]
      /\ entries' \subseteq Entries /\ lost' \subseteq Entries /\ storeSeq' \in Nat
      /\ SeqInv'
  <2>1. "tool_refused" \in Types  BY DEF Types
  <2> QED  BY <1>2, <1>3, <1>4, <1>5, <2>1, AnswerTyped
<1> QED  BY <1>6 DEF TypeOK, RefuseCall, Statuses, hostVars, pastVars, WithCallStatus

LEMMA TypeSettleCall ==
  ASSUME TypeOK, SeqInv, NEW r \in Runs, SettleCall(r)
  PROVE  TypeOK' /\ SeqInv'
<1>1. /\ loop[r] \in Loops /\ loop[r].seq \in Nat /\ loop[r].streak \in Nat
      /\ loop[r].call \in Calls \cup {None}
  BY DEF TypeOK, Loops
<1>2. PICK k \in Streaks(r) :
        Becomes(r, [loop[r] EXCEPT !.pc = "calls", !.seq = @ + 1, !.call = None, !.streak = k])
  BY DEF SettleCall, WithCallStatus
<1>3. k \in Nat  BY <1>1 DEF Streaks
<1> DEFINE l == [loop[r] EXCEPT !.pc = "calls", !.seq = @ + 1, !.call = None, !.streak = k]
<1>4. l \in Loops
  <2>1. loop[r].seq + 1 \in Nat  BY <1>1
  <2> QED  BY <1>1, <1>3, <2>1, Words DEF Loops
<1>5. l.seq = loop[r].seq + 1  BY <1>1 DEF Loops
<1>6. Becomes(r, l) /\ loop[r].pc # "idle" /\ usage' = usage  BY <1>2 DEF SettleCall, At, WithCallStatus
<1>7. Record(Events(r, <<"tool_event">>) \cup {Settlement(r, "tool_result", loop[r].call, 2)}, 2)
  BY DEF SettleCall, WithCallStatus
<1> HIDE DEF l
<1>8. /\ loop' \in [Runs -> Loops]
      /\ entries' \subseteq Entries /\ lost' \subseteq Entries /\ storeSeq' \in Nat
      /\ SeqInv'
  <2>1. "tool_event" \in Types  BY DEF Types
  <2> QED  BY <1>1, <1>4, <1>5, <1>6, <1>7, <2>1, AnswerTyped
<1>9. status' \in [Calls -> Statuses]
  <2>1. status' = [status EXCEPT ![loop[r].call] = "completed"]  BY DEF SettleCall, WithCallStatus
  <2> QED  BY <2>1 DEF TypeOK, Statuses
<1> QED  BY <1>8, <1>9 DEF TypeOK, SettleCall, hostVars, pastVars, WithCallStatus

LEMMA TypeStart ==
  ASSUME TypeOK, SeqInv, NEW r \in Runs, Start(r)
  PROVE  TypeOK' /\ SeqInv'
<1> DEFINE base == HighestSeq(r)
           l == [Idle EXCEPT !.pc = "turn", !.seq = HighestSeq(r) + 2]
           types == <<"user_prompt", "run_started">>
           opening == {[id |-> storeSeq + i, run |-> r, seq |-> HighestSeq(r) + i,
                        type |-> <<"user_prompt", "run_started">>[i], settles |-> None] : i \in 1..2}
<1>1. entries \subseteq Entries /\ lost \subseteq Entries /\ storeSeq \in Nat /\ loop \in [Runs -> Loops]
  BY DEF TypeOK
<1>2. base \in Nat /\ \A e \in entries : e.run = r => e.seq <= base
  BY <1>1, HighestSeqTyped DEF SeqInv
<1>3. l \in Loops
  <2>1. HighestSeq(r) + 2 \in Nat  BY <1>2
  <2> QED  BY <2>1, IdleTyped, Words DEF Loops, Idle
<1>4. l.seq = base + 2 /\ l.pc = "turn"  BY DEF Idle
<1>5. \A i \in 1..2 : i = 1 \/ i = 2  OBVIOUS
<1>6. types[1] \in Types /\ types[2] \in Types  BY DEF Types
<1>7. ASSUME NEW e \in opening
      PROVE  e \in Entries /\ e.run = r /\ e.seq \in base + 1 .. base + 2
  <2>1. PICK i \in 1..2 :
          e = [id |-> storeSeq + i, run |-> r, seq |-> HighestSeq(r) + i,
               type |-> types[i], settles |-> None]
    OBVIOUS
  <2>2. types[i] \in Types  BY <1>5, <1>6
  <2>3. storeSeq + i \in Nat /\ HighestSeq(r) + i \in Nat /\ HighestSeq(r) + i \in base + 1 .. base + 2
    BY <1>1, <1>2
  <2> HIDE DEF types, opening
  <2> QED  BY <2>1, <2>2, <2>3 DEF Entries, Settled
<1>8. ASSUME NEW i \in 1..2 PROVE \E e \in opening : e.seq = base + i /\ e.settles = None
  <2> DEFINE e == [id |-> storeSeq + i, run |-> r, seq |-> HighestSeq(r) + i,
                   type |-> types[i], settles |-> None]
  <2>1. e \in opening /\ e.seq = base + i /\ e.settles = None  OBVIOUS
  <2> HIDE DEF e, opening
  <2> QED  BY <2>1
<1>9. Becomes(r, l) /\ Record(opening, 2)  BY DEF Start, ClaimLane
<1> HIDE DEF base, l, types, opening
<1>10. opening \in SUBSET Entries  BY <1>7
<1>11. \A q \in Runs : HasHighest(SeqsOf(q))  BY DEF SeqInv
<1>12. /\ \A q \in Runs : HasHighest(SeqsOf(q))'
       /\ \A e \in entries' : e.run = r => e.seq <= base + 2
       /\ \A e \in entries' : e.run # r => e \in entries
  <2>1. \A e \in opening : e.run = r /\ (e.seq = 0 \/ e.seq \in base + 1 .. base + 2)  BY <1>7
  <2>2. \A i \in 1..2 : \E e \in opening : e.seq = base + i /\ e.settles = None  BY <1>8
  <2>3. 2 \in Nat  OBVIOUS
  <2> QED  BY <1>1, <1>2, <1>9, <1>10, <1>11, <2>1, <2>2, <2>3, BatchKeepsSeqs
<1>13. entries' \subseteq Entries /\ lost' \subseteq Entries /\ storeSeq' \in Nat
  BY <1>1, <1>9, <1>10, RecordTyped
<1>14. /\ loop' \in [Runs -> Loops] /\ loop'[r] = l
       /\ \A q \in Runs : q # r => loop'[q] = loop[q]
  BY <1>1, <1>3, <1>9, Moved
<1>15. HasHighest(UsageIds)'  BY LedgerAlone DEF Start, ClaimLane
<1>16. ASSUME NEW q \in Runs, loop'[q].pc # "idle", NEW e \in entries', e.run = q
       PROVE  e.seq <= loop'[q].seq
  <2>1. CASE q = r  BY <1>4, <1>12, <1>14, <1>16, <2>1
  <2>2. CASE q # r  BY <1>12, <1>14, <1>16, <2>2 DEF SeqInv
  <2> QED  BY <2>1, <2>2
<1>17. SeqInv'  BY <1>12, <1>15, <1>16 DEF SeqInv
<1> QED  BY <1>13, <1>14, <1>17, RunsAssumption DEF TypeOK, Start, SetPhase, Phases, hostVars, pastVars, ClaimLane

-----------------------------------------------------------------------------
(* Crashes, restarts and recovery.                                         *)

LEMMA TypeHost ==
  ASSUME TypeOK, SeqInv, Crash \/ Boot \/ BootLocked \/ Serve
  PROVE  TypeOK' /\ SeqInv'
<1>1. loop' \in [Runs -> Loops] /\ \A r \in Runs : loop'[r].pc # "idle" => loop'[r] = loop[r]
  <2>1. CASE Crash
    <3>1. loop' = [r \in Runs |-> Idle]  BY <2>1 DEF Crash
    <3> QED  BY <3>1, IdleTyped DEF Idle
  <2>2. CASE Boot \/ BootLocked \/ Serve
    BY <2>2 DEF TypeOK, Boot, BootLocked, Serve
  <2> QED  BY <2>1, <2>2
<1>2. UNCHANGED <<entries, usage>>
  BY DEF Crash, Boot, BootLocked, Serve, recordVars
<1>3. \A r \in Runs : loop[r].seq \in Nat  BY DEF TypeOK, Loops
<1>4. \A r \in Runs : loop'[r].pc # "idle" => loop[r].pc # "idle" /\ loop[r].seq <= loop'[r].seq
  BY <1>1, <1>3
<1>5. SeqInv'  BY <1>1, <1>2, <1>4, QuietStep
<1>6. mode' \in {"serving", "down", "recovering"} /\ todo' \subseteq Runs
      /\ current' \in Runs \cup {None} /\ skipped' \subseteq Runs
      /\ crashes' \in 0..MaxCrashes
  BY LimitsAssumption DEF TypeOK, Crash, Boot, BootLocked, Serve, Unfinished
<1>7. UNCHANGED <<recordVars, pastVars>>  BY DEF Crash, Boot, BootLocked, Serve
<1> QED  BY <1>1, <1>5, <1>6, <1>7 DEF TypeOK, recordVars, pastVars

\* The recovery steps that write no entry.
LEMMA TypeRecoverQuiet ==
  ASSUME TypeOK, SeqInv, NEW r \in Runs, PickRun(r) \/ RecoverResume(r) \/ RecoverTools(r)
  PROVE  TypeOK' /\ SeqInv'
<1>1. UNCHANGED <<entries, usage, loop, reqkey, status, replay, storeSeq, lost, owner, pastVars>>
  BY DEF PickRun, RecoverResume, RecoverTools, recordVars
<1>2. \A q \in Runs : loop[q].seq <= loop'[q].seq  BY <1>1 DEF TypeOK, Loops
<1>3. SeqInv'  BY <1>1, <1>2, QuietStep DEF TypeOK
<1>4. phase' \in [Runs -> Phases] /\ plan' \in [Runs -> SUBSET Calls]
  BY DEF TypeOK, PickRun, RecoverResume, RecoverTools, SetPhase, Phases, recordVars
<1>5. UNCHANGED mode /\ todo' \subseteq Runs /\ current' \in Runs \cup {None}
      /\ UNCHANGED <<skipped, crashes>>
  BY DEF TypeOK, PickRun, RecoverResume, RecoverTools, Recovered
<1> QED  BY <1>1, <1>3, <1>4, <1>5 DEF TypeOK, pastVars

\* The recovery steps that settle a request or a call.
LEMMA TypeRecoverSettle ==
  ASSUME TypeOK, SeqInv, NEW r \in Runs, NEW type \in Types, NEW key \in Settled,
         Record({Settlement(r, type, key, 1)}, 1), usage' = usage,
         loop' \in [Runs -> Loops],
         \A q \in Runs : loop'[q].pc = loop[q].pc /\ loop'[q].seq = loop[q].seq
  PROVE  /\ entries' \subseteq Entries /\ lost' \subseteq Entries /\ storeSeq' \in Nat
         /\ SeqInv'
<1> DEFINE x == Settlement(r, type, key, 1)
<1>1. storeSeq \in Nat  BY DEF TypeOK
<1>2. x \in Entries  BY <1>1, SettlementTyped
<1>3. x.run = r /\ x.seq = 0  BY DEF Settlement
<1>4. Record({x}, 1)  OBVIOUS
<1> HIDE DEF x
<1>5. /\ entries' \subseteq Entries /\ lost' \subseteq Entries /\ storeSeq' \in Nat
      /\ \A q \in Runs : HasHighest(SeqsOf(q))'
  BY <1>2, <1>3, <1>4, RecoveryCommit
<1>6. HasHighest(UsageIds)'  BY LedgerAlone
<1>7. ASSUME NEW q \in Runs, loop'[q].pc # "idle", NEW e \in entries', e.run = q
      PROVE  e.seq <= loop'[q].seq
  <2>1. CASE e \in entries  BY <1>7, <2>1 DEF SeqInv
  <2>2. CASE e = x  BY <1>3, <1>7, <2>2 DEF TypeOK, Loops
  <2> QED  BY <1>4, <1>7, <2>1, <2>2 DEF Record
<1> QED  BY <1>5, <1>6, <1>7 DEF SeqInv

LEMMA TypeRecoverUncertain ==
  ASSUME TypeOK, SeqInv, NEW r \in Runs, RecoverUncertain(r)
  PROVE  TypeOK' /\ SeqInv'
<1>1. "run_interrupted" \in Types /\ reqkey[r] \in Settled  BY DEF Types, TypeOK, Settled
<1>2. loop' \in [Runs -> Loops] /\ UNCHANGED loop /\ usage' = usage
  BY DEF TypeOK, RecoverUncertain
<1>3. Record({Settlement(r, "run_interrupted", reqkey[r], 1)}, 1)  BY DEF RecoverUncertain
<1>4. /\ entries' \subseteq Entries /\ lost' \subseteq Entries /\ storeSeq' \in Nat
      /\ SeqInv'
  BY <1>1, <1>2, <1>3, TypeRecoverSettle
<1> QED  BY <1>2, <1>4 DEF TypeOK, RecoverUncertain, Recovered, SetPhase, Phases, pastVars

\* The answers recovery commits, one call at a time.
LEMMA AnswerInRecoveryTyped ==
  ASSUME TypeOK, SeqInv, NEW r \in Runs, NEW c \in Calls, AnswerInRecovery(r, c),
         loop' \in [Runs -> Loops],
         \A q \in Runs : loop'[q].pc = loop[q].pc /\ loop'[q].seq = loop[q].seq
  PROVE  TypeOK' /\ SeqInv'
<1>1. "tool_result" \in Types /\ c \in Settled  BY DEF Types, Settled
<1>2. Record({Settlement(r, "tool_result", c, 1)}, 1) /\ usage' = usage
  BY DEF AnswerInRecovery, WithCallStatus
<1>3. /\ entries' \subseteq Entries /\ lost' \subseteq Entries /\ storeSeq' \in Nat
      /\ SeqInv'
  BY <1>1, <1>2, TypeRecoverSettle
<1> QED  BY <1>3 DEF TypeOK, AnswerInRecovery, Statuses, hostVars, pastVars, WithCallStatus

LEMMA TypeRecoverCall ==
  ASSUME TypeOK, SeqInv, NEW r \in Runs, NEW c \in Calls,
         RecoverSynthesize(r, c) \/ RecoverExecute(r, c) \/ RecoverAnswer(r, c)
  PROVE  TypeOK' /\ SeqInv'
<1>1. loop \in [Runs -> Loops] /\ loop[r] \in Loops  BY DEF TypeOK
<1>2. CASE RecoverSynthesize(r, c)
  <2>1. AnswerInRecovery(r, c) /\ UNCHANGED loop  BY <1>2 DEF RecoverSynthesize
  <2> QED  BY <1>1, <2>1, AnswerInRecoveryTyped
<1>3. CASE RecoverAnswer(r, c)
  <2> DEFINE l == [loop[r] EXCEPT !.call = None]
  <2>1. l \in Loops  BY <1>1 DEF Loops
  <2>2. l.pc = loop[r].pc /\ l.seq = loop[r].seq  BY <1>1 DEF Loops
  <2>3. Becomes(r, l) /\ AnswerInRecovery(r, c)  BY <1>3 DEF RecoverAnswer
  <2> HIDE DEF l
  <2>4. /\ loop' \in [Runs -> Loops] /\ loop'[r] = l
        /\ \A q \in Runs : q # r => loop'[q] = loop[q]
    BY <1>1, <2>1, <2>3, Moved
  <2>5. \A q \in Runs : loop'[q].pc = loop[q].pc /\ loop'[q].seq = loop[q].seq
    BY <2>2, <2>4
  <2> QED  BY <2>3, <2>4, <2>5, AnswerInRecoveryTyped
<1>4. CASE RecoverExecute(r, c)
  <2> DEFINE l == [loop[r] EXCEPT !.call = c]
  <2>1. l \in Loops  BY <1>1 DEF Loops
  <2>2. l.pc = loop[r].pc /\ l.seq = loop[r].seq /\ loop[r].seq \in Nat  BY <1>1 DEF Loops
  <2>3. Becomes(r, l) /\ UNCHANGED <<recordVars, hostVars, accepted>>
    BY <1>4 DEF RecoverExecute
  <2> HIDE DEF l
  <2>4. loop' \in [Runs -> Loops] /\ SeqInv'
    BY <2>1, <2>2, <2>3, QuietMove DEF recordVars
  <2>5. effects' \in [Calls -> Nat]  BY <1>4 DEF TypeOK, RecoverExecute
  <2> QED  BY <2>3, <2>4, <2>5 DEF TypeOK, recordVars, hostVars
<1> QED  BY <1>2, <1>3, <1>4

-----------------------------------------------------------------------------
(* The theorem: the steps together.                                        *)

LEMMA TypeStep ==
  ASSUME TypeOK, SeqInv, [Next]_vars
  PROVE  TypeOK' /\ SeqInv'
<1>1. CASE UNCHANGED vars
  <2>1. TypeOK'
    BY <1>1 DEF TypeOK, vars, recordVars, hostVars, pastVars
  <2>2. UNCHANGED <<entries, usage, loop>>
    BY <1>1 DEF vars, recordVars
  <2>3. loop' \in [Runs -> Loops] /\ \A r \in Runs : loop[r].seq <= loop'[r].seq
    BY <2>2 DEF TypeOK, Loops
  <2> QED  BY <2>1, <2>2, <2>3, QuietStep
<1>2. ASSUME NEW r \in Runs, ClientStep(r) PROVE TypeOK' /\ SeqInv'
  BY <1>2, TypeStart, TypeMessage, TypeInterrupt DEF ClientStep
<1>3. ASSUME NEW r \in Runs, LoopStep(r) PROVE TypeOK' /\ SeqInv'
  BY <1>3, TypeTurnLimit, TypeStopAtBoundary, TypeBuild, TypeRefuse, TypeIntent,
     TypeStreamFails, TypeDispatchTools, TypeTurnOver, TypeFollowUps, TypeFinish,
     TypeRefuseCall, TypeClearCall, TypeRunTool, TypeSettleCall, TypeFinishCalls,
     TypeTerminate, TypeClose
  DEF LoopStep
<1>4. ASSUME NEW r \in Runs, RecoveryStep(r) PROVE TypeOK' /\ SeqInv'
  BY <1>4, TypeRecoverQuiet, TypeRecoverUncertain, TypeRecoverCall DEF RecoveryStep
<1>5. CASE Crash \/ Boot \/ BootLocked \/ Serve
  BY <1>5, TypeHost
<1> QED  BY <1>1, <1>2, <1>3, <1>4, <1>5 DEF Next

\* The record, the process and the wire keep their types: in particular every entry gets
\* a natural seq and a legal settlement key, whatever interleaving, crash or recovery wrote it.
THEOREM TypeCorrect == Spec => []TypeOK
<1>1. Init => TypeOK /\ SeqInv  BY TypeInit
<1>2. TypeOK /\ SeqInv /\ [Next]_vars => TypeOK' /\ SeqInv'  BY TypeStep
<1> QED  BY <1>1, <1>2, PTL DEF Spec

-----------------------------------------------------------------------------
(* Where each loop stands with respect to its position register, and which *)
(* calls have been started.                                                *)

\* The phase of the position register a loop's step goes with.
PhaseAt(pc, p) ==
  /\ pc \in {"turn", "gate", "stopped"} => p = "checkpoint"
  /\ pc = "stream" => p = "request_pending"
  /\ pc \in {"calls", "marked", "running"} => p = "tools"
  /\ pc = "ending" => p \in {"checkpoint", "request_pending"}
  /\ pc = "closing" => p = "terminal"

PhaseInv == \A r \in Runs : PhaseAt(loop[r].pc, phase[r])

\* Recovery works on dead runs: it never meets a live loop.
HostInv == mode # "serving" => \A r \in Runs : loop[r].pc = "idle"

\* A call belongs to one turn, and stays in its plan until it is answered.
PlanInv ==
  /\ \A r, q \in Runs : \A c \in plan[r] : c \in plan[q] => r = q
  /\ \A r \in Runs : \A c \in plan[r] : status[c] # "unused" /\ phase[r] = "tools"
  /\ \A c \in Calls : status[c] \in {"planned", "effect_pending"} => \E r \in Runs : c \in plan[r]

\* The call a loop is running is its own and is marked.
CallInv ==
  \A r \in Runs : loop[r].pc \in {"marked", "running"} =>
    loop[r].call \in plan[r] /\ status[loop[r].call] = "effect_pending"

Control == PhaseInv /\ HostInv /\ PlanInv /\ CallInv

\* Each call a loop is running has not been started, and no call is started unmarked.
EffectInv ==
  /\ StartedUnderMark
  /\ \A r \in Runs : loop[r].pc = "marked" => effects[loop[r].call] = 0

-----------------------------------------------------------------------------
(* Control: where the loops stand with respect to the record.              *)

\* A step of one live loop that leaves plans and statuses alone.
LEMMA ControlMove ==
  ASSUME TypeOK, Control, NEW r \in Runs, NEW l \in Loops, Becomes(r, l),
         mode = "serving", mode' = mode, UNCHANGED <<plan, status>>,
         NEW p \in Phases, phase' = [phase EXCEPT ![r] = p],
         p = "tools" <=> phase[r] = "tools", PhaseAt(l.pc, p),
         l.pc \in {"marked", "running"} =>
           loop[r].pc \in {"marked", "running"} /\ l.call = loop[r].call
  PROVE  Control'
<1>1. loop \in [Runs -> Loops] /\ phase \in [Runs -> Phases] /\ plan \in [Runs -> SUBSET Calls]
  BY DEF TypeOK
<1>2. loop'[r] = l /\ \A q \in Runs : q # r => loop'[q] = loop[q]
  BY <1>1, Moved
<1>3. phase'[r] = p /\ \A q \in Runs : q # r => phase'[q] = phase[q]
  BY <1>1
<1>4. PhaseInv'  BY <1>2, <1>3 DEF Control, PhaseInv
<1>5. HostInv'  BY DEF HostInv
<1>6. PlanInv'  BY <1>3 DEF Control, PlanInv
<1>7. CallInv'
  <2>1. ASSUME NEW q \in Runs, loop'[q].pc \in {"marked", "running"}
        PROVE  loop[q].pc \in {"marked", "running"} /\ loop'[q].call = loop[q].call
    BY <1>2, <2>1
  <2> QED  BY <2>1 DEF Control, CallInv
<1> QED  BY <1>4, <1>5, <1>6, <1>7 DEF Control

\* The same when the register is not written either.
LEMMA ControlQuiet ==
  ASSUME TypeOK, Control, NEW r \in Runs, NEW l \in Loops, Becomes(r, l),
         mode = "serving", mode' = mode, UNCHANGED <<plan, status, phase>>,
         PhaseAt(l.pc, phase[r]),
         l.pc \in {"marked", "running"} =>
           loop[r].pc \in {"marked", "running"} /\ l.call = loop[r].call
  PROVE  Control'
<1>1. phase[r] \in Phases /\ phase' = [phase EXCEPT ![r] = phase[r]]  BY DEF TypeOK
<1> QED  BY <1>1, ControlMove

LEMMA ControlTurnLimit ==
  ASSUME TypeOK, Control, NEW r \in Runs, TurnLimit(r)
  PROVE  Control'
<1>1. loop[r] \in Loops /\ loop[r].seq \in Nat /\ PhaseAt(loop[r].pc, phase[r])
  BY DEF TypeOK, Loops, Control, PhaseInv
<1> DEFINE l == [loop[r] EXCEPT !.pc = "ending", !.end = "failed"]
<1>2. l \in Loops  BY <1>1, Words DEF Loops
<1>3. l.pc = "ending"  BY <1>1 DEF Loops
<1>4. Becomes(r, l) /\ mode = "serving" /\ UNCHANGED <<mode, plan, status>>
  BY <1>1 DEF TurnLimit, EndsAs, At, Live, recordVars, hostVars
<1>5. UNCHANGED phase /\ PhaseAt(l.pc, phase[r])
  BY <1>1, <1>3 DEF TurnLimit, EndsAs, PhaseAt, At, recordVars
<1>6. l.pc \notin {"marked", "running"}  BY <1>3
<1> HIDE DEF l
<1> QED  BY <1>2, <1>4, <1>5, <1>6, ControlQuiet

LEMMA ControlStopAtBoundary ==
  ASSUME TypeOK, Control, NEW r \in Runs, StopAtBoundary(r)
  PROVE  Control'
<1>1. loop[r] \in Loops /\ loop[r].seq \in Nat /\ PhaseAt(loop[r].pc, phase[r])
  BY DEF TypeOK, Loops, Control, PhaseInv
<1> DEFINE l == [loop[r] EXCEPT !.pc = "ending", !.end = "interrupted"]
<1>2. l \in Loops  BY <1>1, Words DEF Loops
<1>3. l.pc = "ending"  BY <1>1 DEF Loops
<1>4. Becomes(r, l) /\ mode = "serving" /\ UNCHANGED <<mode, plan, status>>
  BY <1>1 DEF StopAtBoundary, EndsAs, At, Live, recordVars, hostVars
<1>5. UNCHANGED phase /\ PhaseAt(l.pc, phase[r])
  BY <1>1, <1>3 DEF StopAtBoundary, EndsAs, PhaseAt, At, recordVars
<1>6. l.pc \notin {"marked", "running"}  BY <1>3
<1> HIDE DEF l
<1> QED  BY <1>2, <1>4, <1>5, <1>6, ControlQuiet

LEMMA ControlBuild ==
  ASSUME TypeOK, Control, NEW r \in Runs, Build(r)
  PROVE  Control'
<1>1. loop[r] \in Loops /\ loop[r].seq \in Nat /\ PhaseAt(loop[r].pc, phase[r])
  BY DEF TypeOK, Loops, Control, PhaseInv
<1>b. loop[r].turns + 1 \in 0..MaxTurns /\ storeSeq \in Nat
  BY <1>1, LimitsAssumption DEF Build, TypeOK, Loops
<1> DEFINE l == [loop[r] EXCEPT !.pc = "gate", !.turns = @ + 1, !.fold = storeSeq]
<1>2. l \in Loops  BY <1>1, Words, <1>b DEF Loops
<1>3. l.pc = "gate"  BY <1>1 DEF Loops
<1>4. Becomes(r, l) /\ mode = "serving" /\ UNCHANGED <<mode, plan, status>>
  BY <1>1 DEF Build, At, Live, recordVars, hostVars
<1>5. UNCHANGED phase /\ PhaseAt(l.pc, phase[r])
  BY <1>1, <1>3 DEF Build, PhaseAt, At, recordVars
<1>6. l.pc \notin {"marked", "running"}  BY <1>3
<1> HIDE DEF l
<1> QED  BY <1>2, <1>4, <1>5, <1>6, ControlQuiet

LEMMA ControlFinish ==
  ASSUME TypeOK, Control, NEW r \in Runs, Finish(r)
  PROVE  Control'
<1>1. loop[r] \in Loops /\ loop[r].seq \in Nat /\ PhaseAt(loop[r].pc, phase[r])
  BY DEF TypeOK, Loops, Control, PhaseInv
<1> DEFINE l == [loop[r] EXCEPT !.pc = "ending", !.end = "finished"]
<1>2. l \in Loops  BY <1>1, Words DEF Loops
<1>3. l.pc = "ending"  BY <1>1 DEF Loops
<1>4. Becomes(r, l) /\ mode = "serving" /\ UNCHANGED <<mode, plan, status>>
  BY <1>1 DEF Finish, EndsAs, At, Live, recordVars, hostVars
<1>5. UNCHANGED phase /\ PhaseAt(l.pc, phase[r])
  BY <1>1, <1>3 DEF Finish, EndsAs, PhaseAt, At, recordVars
<1>6. l.pc \notin {"marked", "running"}  BY <1>3
<1> HIDE DEF l
<1> QED  BY <1>2, <1>4, <1>5, <1>6, ControlQuiet

LEMMA ControlRunTool ==
  ASSUME TypeOK, Control, NEW r \in Runs, RunTool(r)
  PROVE  Control'
<1>1. loop[r] \in Loops /\ loop[r].seq \in Nat /\ PhaseAt(loop[r].pc, phase[r])
  BY DEF TypeOK, Loops, Control, PhaseInv
<1> DEFINE l == [loop[r] EXCEPT !.pc = "running"]
<1>2. l \in Loops  BY <1>1, Words DEF Loops
<1>3. l.pc = "running"  BY <1>1 DEF Loops
<1>4. Becomes(r, l) /\ mode = "serving" /\ UNCHANGED <<mode, plan, status>>
  BY <1>1 DEF RunTool, GoesTo, At, Live, recordVars, hostVars
<1>5. UNCHANGED phase /\ PhaseAt(l.pc, phase[r])
  BY <1>1, <1>3 DEF RunTool, GoesTo, PhaseAt, At, recordVars
<1>6. l.pc \in {"marked", "running"} => loop[r].pc \in {"marked", "running"} /\ l.call = loop[r].call
  BY <1>1, <1>3 DEF RunTool, At, Loops
<1> HIDE DEF l
<1> QED  BY <1>2, <1>4, <1>5, <1>6, ControlQuiet

LEMMA ControlMessage ==
  ASSUME TypeOK, Control, NEW r \in Runs, Message(r)
  PROVE  Control'
<1>1. loop[r] \in Loops /\ loop[r].seq \in Nat /\ PhaseAt(loop[r].pc, phase[r])
  BY DEF TypeOK, Loops, Control, PhaseInv
<1> DEFINE l == [loop[r] EXCEPT !.inbox = @ + 1]
<1>2. l \in Loops  BY <1>1, Words DEF Loops
<1>3. l.pc = loop[r].pc  BY <1>1 DEF Loops
<1>4. Becomes(r, l) /\ mode = "serving" /\ UNCHANGED <<mode, plan, status>>
  BY <1>1 DEF Message, At, Live, recordVars, hostVars
<1>5. UNCHANGED phase /\ PhaseAt(l.pc, phase[r])
  BY <1>1, <1>3 DEF Message, PhaseAt, At, recordVars
<1>6. l.pc \in {"marked", "running"} => loop[r].pc \in {"marked", "running"} /\ l.call = loop[r].call
  BY <1>1, <1>3 DEF Message, At, Loops
<1> HIDE DEF l
<1> QED  BY <1>2, <1>4, <1>5, <1>6, ControlQuiet

LEMMA ControlInterrupt ==
  ASSUME TypeOK, Control, NEW r \in Runs, Interrupt(r)
  PROVE  Control'
<1>1. loop[r] \in Loops /\ loop[r].seq \in Nat /\ PhaseAt(loop[r].pc, phase[r])
  BY DEF TypeOK, Loops, Control, PhaseInv
<1> DEFINE l == [loop[r] EXCEPT !.aborted = TRUE]
<1>2. l \in Loops  BY <1>1, Words DEF Loops
<1>3. l.pc = loop[r].pc  BY <1>1 DEF Loops
<1>4. Becomes(r, l) /\ mode = "serving" /\ UNCHANGED <<mode, plan, status>>
  BY <1>1 DEF Interrupt, At, Live, recordVars, hostVars
<1>5. UNCHANGED phase /\ PhaseAt(l.pc, phase[r])
  BY <1>1, <1>3 DEF Interrupt, PhaseAt, At, recordVars
<1>6. l.pc \in {"marked", "running"} => loop[r].pc \in {"marked", "running"} /\ l.call = loop[r].call
  BY <1>1, <1>3 DEF Interrupt, At, Loops
<1> HIDE DEF l
<1> QED  BY <1>2, <1>4, <1>5, <1>6, ControlQuiet

LEMMA ControlClose ==
  ASSUME TypeOK, Control, NEW r \in Runs, Close(r)
  PROVE  Control'
<1>1. loop[r] \in Loops /\ loop[r].seq \in Nat /\ PhaseAt(loop[r].pc, phase[r])
  BY DEF TypeOK, Loops, Control, PhaseInv
<1> DEFINE l == Idle
<1>2. l \in Loops  BY <1>1, Words, IdleTyped DEF Loops
<1>3. l.pc = "idle"  BY DEF Idle
<1>4. Becomes(r, l) /\ mode = "serving" /\ UNCHANGED <<mode, plan, status>>
  BY <1>1 DEF Close, At, Live, recordVars, hostVars, ClaimLane
<1>5. UNCHANGED phase /\ PhaseAt(l.pc, phase[r])
  BY <1>1, <1>3 DEF Close, PhaseAt, At, recordVars, ClaimLane
<1>6. l.pc \notin {"marked", "running"}  BY <1>3
<1> HIDE DEF l
<1> QED  BY <1>2, <1>4, <1>5, <1>6, ControlQuiet

LEMMA ControlRefuse ==
  ASSUME TypeOK, Control, NEW r \in Runs, Refuse(r)
  PROVE  Control'
<1>1. loop[r] \in Loops /\ loop[r].seq \in Nat /\ PhaseAt(loop[r].pc, phase[r])
  BY DEF TypeOK, Loops, Control, PhaseInv
<1>b. loop[r].seq + 1 \in Nat  BY <1>1
<1> DEFINE l == [loop[r] EXCEPT !.pc = "ending", !.end = "failed", !.seq = @ + 1]
<1>2. l \in Loops  BY <1>1, Words, <1>b DEF Loops
<1>3. l.pc = "ending"  BY <1>1 DEF Loops
<1>4. Becomes(r, l) /\ mode = "serving" /\ UNCHANGED <<mode, plan, status>>
  BY <1>1 DEF Refuse, RecordAndShip, At, Live, recordVars, hostVars
<1>5. UNCHANGED phase /\ PhaseAt(l.pc, phase[r])
  BY <1>1, <1>3 DEF Refuse, RecordAndShip, PhaseAt, At, recordVars
<1>6. l.pc \notin {"marked", "running"}  BY <1>3
<1> HIDE DEF l
<1> QED  BY <1>2, <1>4, <1>5, <1>6, ControlQuiet

LEMMA ControlTerminate ==
  ASSUME TypeOK, Control, NEW r \in Runs, Terminate(r)
  PROVE  Control'
<1>1. loop[r] \in Loops /\ loop[r].seq \in Nat /\ PhaseAt(loop[r].pc, phase[r])
  BY DEF TypeOK, Loops, Control, PhaseInv
<1>b. loop[r].seq + 1 \in Nat  BY <1>1
<1> DEFINE l == [loop[r] EXCEPT !.pc = "closing", !.seq = @ + 1]
<1>2. l \in Loops  BY <1>1, Words, <1>b DEF Loops
<1>3. l.pc = "closing"  BY <1>1 DEF Loops
<1>4. Becomes(r, l) /\ mode = "serving" /\ UNCHANGED <<mode, plan, status>>
  BY <1>1 DEF Terminate, At, Live, recordVars, hostVars
<1>5. phase' = [phase EXCEPT ![r] = "terminal"] /\ PhaseAt(l.pc, "terminal") /\ "terminal" \in Phases
  BY <1>3 DEF Terminate, PhaseAt, SetPhase, Phases, At
<1>6. phase[r] # "tools" /\ l.pc \notin {"marked", "running"}
  BY <1>1, <1>3 DEF Terminate, PhaseAt, At
<1> HIDE DEF l
<1> QED  BY <1>2, <1>4, <1>5, <1>6, ControlMove

LEMMA ControlFollowUps ==
  ASSUME TypeOK, Control, NEW r \in Runs, FollowUps(r)
  PROVE  Control'
<1>1. loop[r] \in Loops /\ loop[r].seq \in Nat /\ PhaseAt(loop[r].pc, phase[r])
  BY DEF TypeOK, Loops, Control, PhaseInv
<1>b. loop[r].seq + loop[r].inbox \in Nat /\ 0 \in 0..MaxResumes
  BY <1>1, LimitsAssumption DEF Loops
<1> DEFINE l == [loop[r] EXCEPT !.pc = "turn", !.seq = @ + loop[r].inbox, !.inbox = 0,
                                !.attempt = 0]
<1>2. l \in Loops  BY <1>1, Words, <1>b DEF Loops
<1>3. l.pc = "turn"  BY <1>1 DEF Loops
<1>4. Becomes(r, l) /\ mode = "serving" /\ UNCHANGED <<mode, plan, status>>
  BY <1>1 DEF FollowUps, At, Live, recordVars, hostVars
<1>5. phase' = [phase EXCEPT ![r] = "checkpoint"] /\ PhaseAt(l.pc, "checkpoint") /\ "checkpoint" \in Phases
  BY <1>3 DEF FollowUps, PhaseAt, SetPhase, Phases, At
<1>6. phase[r] # "tools" /\ l.pc \notin {"marked", "running"}
  BY <1>1, <1>3 DEF FollowUps, PhaseAt, At
<1> HIDE DEF l
<1> QED  BY <1>2, <1>4, <1>5, <1>6, ControlMove

LEMMA ControlStreamFails ==
  ASSUME TypeOK, Control, NEW r \in Runs, StreamFails(r)
  PROVE  Control'
<1>1. loop[r] \in Loops /\ loop[r].seq \in Nat /\ PhaseAt(loop[r].pc, phase[r])
  BY DEF TypeOK, Loops, Control, PhaseInv
<1>p. PICK n \in 0..MaxBlocks :
       Becomes(r, [loop[r] EXCEPT !.pc = "ending", !.seq = @ + n + 1,
                     !.end = IF loop[r].aborted THEN "interrupted" ELSE "failed"])
  BY DEF StreamFails
<1>b. n \in Nat /\ loop[r].seq + n + 1 \in Nat
      /\ (IF loop[r].aborted THEN "interrupted" ELSE "failed") \in Outcomes
  BY <1>1, Words, LimitsAssumption
<1> DEFINE l == [loop[r] EXCEPT !.pc = "ending", !.seq = @ + n + 1,
                              !.end = IF loop[r].aborted THEN "interrupted" ELSE "failed"]
<1>2. l \in Loops  BY <1>1, Words, <1>b DEF Loops
<1>3. l.pc = "ending"  BY <1>1 DEF Loops
<1>4. Becomes(r, l) /\ mode = "serving" /\ UNCHANGED <<mode, plan, status>>
  BY <1>1, <1>p DEF StreamFails, At, Live, recordVars, hostVars
<1>5. UNCHANGED phase /\ PhaseAt(l.pc, phase[r])
  BY <1>1, <1>3 DEF StreamFails, PhaseAt, At, recordVars
<1>6. l.pc \notin {"marked", "running"}  BY <1>3
<1> HIDE DEF l
<1> QED  BY <1>2, <1>4, <1>5, <1>6, ControlQuiet

LEMMA ControlIntent ==
  ASSUME TypeOK, SeqInv, Control, NEW r \in Runs, Intent(r)
  PROVE  Control'
<1>1. loop[r] \in Loops /\ loop[r].seq \in Nat /\ PhaseAt(loop[r].pc, phase[r])
  BY DEF TypeOK, Loops, Control, PhaseInv
<1>p. PICK n \in HeaderSizes(r) :
       Becomes(r, [loop[r] EXCEPT !.pc = "stream", !.seq = @ + n,
                                  !.uid = NextUsageId, !.boundary = storeSeq + n])
  BY DEF Intent, CommitRequestIntent
<1>b. storeSeq + n \in Nat /\ loop[r].seq + n \in Nat  BY <1>1 DEF HeaderSizes, TypeOK
<1>c. NextUsageId \in Nat
  <2>1. \A u \in usage : u.id \in Nat  BY DEF TypeOK
  <2> QED  BY <2>1, NextUsageIdTyped DEF SeqInv
<1> DEFINE l == [loop[r] EXCEPT !.pc = "stream", !.seq = @ + n,
                                !.uid = NextUsageId, !.boundary = storeSeq + n]
<1>2. l \in Loops  BY <1>1, Words, <1>b, <1>c DEF Loops
<1>3. l.pc = "stream"  BY <1>1 DEF Loops
<1>4. Becomes(r, l) /\ mode = "serving" /\ UNCHANGED <<mode, plan, status>>
  BY <1>1, <1>p DEF Intent, At, Live, recordVars, hostVars, CommitRequestIntent
<1>5. phase' = [phase EXCEPT ![r] = "request_pending"] /\ PhaseAt(l.pc, "request_pending") /\ "request_pending" \in Phases
  BY <1>3 DEF Intent, PhaseAt, SetPhase, Phases, At, CommitRequestIntent
<1>6. phase[r] # "tools" /\ l.pc \notin {"marked", "running"}
  BY <1>1, <1>3 DEF Intent, PhaseAt, At, CommitRequestIntent
<1> HIDE DEF l
<1> QED  BY <1>2, <1>4, <1>5, <1>6, ControlMove

LEMMA ControlStart ==
  ASSUME TypeOK, SeqInv, Control, NEW r \in Runs, Start(r)
  PROVE  Control'
<1> DEFINE l == [Idle EXCEPT !.pc = "turn", !.seq = HighestSeq(r) + 2]
<1>1. l \in Loops
  <2>1. entries \subseteq Entries  BY DEF TypeOK
  <2>2. HighestSeq(r) + 2 \in Nat  BY <2>1, HighestSeqTyped DEF SeqInv
  <2> QED  BY <2>2, IdleTyped, Words DEF Loops, Idle
<1>2. l.pc = "turn"  BY DEF Idle
<1>3. Becomes(r, l) /\ mode = "serving" /\ UNCHANGED <<mode, plan, status>>
  BY DEF Start, hostVars, ClaimLane
<1>4. phase' = [phase EXCEPT ![r] = "checkpoint"] /\ "checkpoint" \in Phases
  BY DEF Start, SetPhase, Phases, ClaimLane
<1>5. phase[r] # "tools" /\ PhaseAt(l.pc, "checkpoint")  BY <1>2 DEF Start, PhaseAt, ClaimLane
<1> HIDE DEF l
<1> QED  BY <1>1, <1>2, <1>3, <1>4, <1>5, ControlMove

LEMMA ControlSettleTo ==
  ASSUME TypeOK, Control, NEW r \in Runs, At(r, "stream"),
         NEW pc \in {"turn", "ending", "stopped"}, NEW attempt \in 0..MaxResumes,
         NEW end \in Outcomes \cup {"none"}, SettleTo(r, pc, attempt, end)
  PROVE  Control'
<1>1. /\ loop[r] \in Loops /\ loop[r].seq \in Nat /\ phase[r] = "request_pending"
      /\ pc \in Steps
  BY Words DEF TypeOK, Loops, Control, PhaseInv, PhaseAt, At
<1>2. PICK n \in 0..MaxBlocks, billed \in Reports :
        /\ Settle(r, n, billed)
        /\ Becomes(r, [loop[r] EXCEPT !.pc = pc, !.seq = @ + n, !.attempt = attempt,
                                      !.end = end])
  BY DEF SettleTo
<1> DEFINE l == [loop[r] EXCEPT !.pc = pc, !.seq = @ + n, !.attempt = attempt, !.end = end]
<1>3. l \in Loops
  <2>1. loop[r].seq + n \in Nat  BY <1>1, LimitsAssumption
  <2> QED  BY <1>1, <2>1 DEF Loops
<1>4. l.pc = pc  BY <1>1 DEF Loops
<1>5. Becomes(r, l) /\ mode = "serving" /\ UNCHANGED <<mode, plan, status>>
  BY <1>2 DEF At, SettleTo, Settle, hostVars, InsertUsage
<1>6. phase' = [phase EXCEPT ![r] = "checkpoint"] /\ "checkpoint" \in Phases
  BY DEF SettleTo, SetPhase, Phases
<1>7. PhaseAt(l.pc, "checkpoint")  BY <1>4 DEF PhaseAt
<1>8. l.pc \notin {"marked", "running"}  BY <1>4
<1> HIDE DEF l
<1> QED  BY <1>1, <1>3, <1>5, <1>6, <1>7, <1>8, ControlMove

LEMMA ControlTurnOver ==
  ASSUME TypeOK, Control, NEW r \in Runs, PauseTurn(r) \/ Compact(r) \/ CutOff(r) \/ EndTurn(r)
  PROVE  Control'
<1>1. loop[r].attempt \in 0..MaxResumes /\ 0 \in 0..MaxResumes
  BY LimitsAssumption DEF TypeOK, Loops
<1>2. At(r, "stream")  BY DEF PauseTurn, Compact, CutOff, EndTurn
<1>3. PICK pc \in {"turn", "ending", "stopped"}, attempt \in 0..MaxResumes,
           end \in Outcomes \cup {"none"} : SettleTo(r, pc, attempt, end)
  <2>1. CASE PauseTurn(r)
    <3>1. CASE loop[r].attempt >= MaxResumes
      BY <1>1, <2>1, <3>1, Words DEF PauseTurn
    <3>2. CASE ~(loop[r].attempt >= MaxResumes)
      <4>1. loop[r].attempt + 1 \in 0..MaxResumes  BY <1>1, <3>2, LimitsAssumption
      <4> QED  BY <4>1, <2>1, <3>2 DEF PauseTurn
    <3> QED  BY <3>1, <3>2
  <2>2. CASE Compact(r)  BY <1>1, <2>2 DEF Compact
  <2>3. CASE CutOff(r)  BY <1>1, <2>3, Words DEF CutOff
  <2>4. CASE EndTurn(r)  BY <1>1, <2>4 DEF EndTurn
  <2> QED  BY <2>1, <2>2, <2>3, <2>4
<1> QED  BY <1>2, <1>3, ControlSettleTo

\* A step of one live loop that also changes its plan, or the status of its calls.
LEMMA ControlTools ==
  ASSUME TypeOK, Control, NEW r \in Runs, NEW l \in Loops, Becomes(r, l),
         mode = "serving", mode' = mode, loop[r].pc # "idle",
         NEW p \in Phases, phase' = [phase EXCEPT ![r] = p], PhaseAt(l.pc, p), PlanInv',
         \A q \in Runs : q # r =>
           plan'[q] = plan[q] /\ \A c \in plan[q] : status'[c] = status[c],
         l.pc \in {"marked", "running"} =>
           l.call \in plan'[r] /\ status'[l.call] = "effect_pending"
  PROVE  Control'
<1>1. loop \in [Runs -> Loops] /\ phase \in [Runs -> Phases]  BY DEF TypeOK
<1>2. loop'[r] = l /\ \A q \in Runs : q # r => loop'[q] = loop[q]
  BY <1>1, Moved
<1>3. phase'[r] = p /\ \A q \in Runs : q # r => phase'[q] = phase[q]
  BY <1>1
<1>4. PhaseInv'  BY <1>2, <1>3 DEF Control, PhaseInv
<1>5. HostInv'  BY DEF HostInv
<1>6. CallInv'
  <2> SUFFICES ASSUME NEW q \in Runs, loop'[q].pc \in {"marked", "running"}
               PROVE  loop'[q].call \in plan'[q] /\ status'[loop'[q].call] = "effect_pending"
    BY DEF CallInv
  <2>1. CASE q = r  BY <1>2, <2>1
  <2>2. CASE q # r
    <3>1. loop[q].call \in plan[q] /\ status[loop[q].call] = "effect_pending"
      BY <1>2, <2>2 DEF Control, CallInv
    <3> QED  BY <1>2, <2>2, <3>1
  <2> QED  BY <2>1, <2>2
<1> QED  BY <1>4, <1>5, <1>6 DEF Control

LEMMA ControlDispatchTools ==
  ASSUME TypeOK, Control, NEW r \in Runs, DispatchTools(r)
  PROVE  Control'
<1>1. /\ loop[r] \in Loops /\ loop[r].seq \in Nat /\ phase[r] = "request_pending"
      /\ loop[r].pc # "idle" /\ mode = "serving"
  BY DEF TypeOK, Loops, Control, PhaseInv, PhaseAt, At, DispatchTools, PlanTools
<1>2. PICK S \in SUBSET {c \in Calls : status[c] = "unused"}, n \in 0..MaxBlocks,
           billed \in Reports :
        /\ Settle(r, n, billed)
        /\ plan' = [plan EXCEPT ![r] = S]
        /\ status' = [c \in Calls |-> IF c \in S THEN "planned" ELSE status[c]]
        /\ Becomes(r, [loop[r] EXCEPT !.pc = "calls", !.seq = @ + n])
  BY DEF DispatchTools, Askable, PlanTools
<1> DEFINE l == [loop[r] EXCEPT !.pc = "calls", !.seq = @ + n]
<1>3. l \in Loops
  <2>1. loop[r].seq + n \in Nat  BY <1>1, LimitsAssumption
  <2> QED  BY <1>1, <2>1, Words DEF Loops
<1>4. l.pc = "calls"  BY <1>1 DEF Loops
<1>5. Becomes(r, l) /\ UNCHANGED mode  BY <1>2 DEF Settle, hostVars, InsertUsage
<1>6. phase' = [phase EXCEPT ![r] = "tools"] /\ "tools" \in Phases
  BY DEF DispatchTools, SetPhase, Phases, PlanTools
<1>7. PhaseAt(l.pc, "tools")  BY <1>4 DEF PhaseAt
<1>8. plan[r] = {}  BY <1>1 DEF TypeOK, Control, PlanInv
<1>9. /\ plan'[r] = S
      /\ \A q \in Runs : q # r => plan'[q] = plan[q] /\ phase'[q] = phase[q]
      /\ phase'[r] = "tools"
  BY <1>2, <1>6 DEF TypeOK
<1>10. \A q \in Runs : \A c \in plan[q] : c \in Calls /\ c \notin S
  BY DEF TypeOK, Control, PlanInv
<1>11. \A q \in Runs : \A c \in plan[q] : status'[c] = status[c]
  BY <1>2, <1>10
<1>12. PlanInv'
  <2>1. \A s, q \in Runs : \A c \in plan'[s] : c \in plan'[q] => s = q
    BY <1>9, <1>10 DEF Control, PlanInv
  <2>2. \A s \in Runs : \A c \in plan'[s] : status'[c] # "unused" /\ phase'[s] = "tools"
    <3> SUFFICES ASSUME NEW s \in Runs, NEW c \in plan'[s]
                 PROVE  status'[c] # "unused" /\ phase'[s] = "tools"
      OBVIOUS
    <3>1. CASE s = r  BY <1>2, <1>9, <3>1
    <3>2. CASE s # r  BY <1>9, <1>11, <3>2 DEF Control, PlanInv
    <3> QED  BY <3>1, <3>2
  <2>3. ASSUME NEW c \in Calls, status'[c] \in {"planned", "effect_pending"}
        PROVE  \E s \in Runs : c \in plan'[s]
    <3>1. CASE c \in S  BY <1>9, <3>1
    <3>2. CASE c \notin S
      <4>1. status'[c] = status[c]  BY <1>2, <3>2
      <4>2. PICK s \in Runs : c \in plan[s]  BY <2>3, <4>1 DEF Control, PlanInv
      <4> QED  BY <1>8, <1>9, <4>2
    <3> QED  BY <3>1, <3>2
  <2> QED  BY <2>1, <2>2, <2>3 DEF PlanInv
<1>13. l.pc \notin {"marked", "running"}  BY <1>4
<1> HIDE DEF l
<1> QED  BY <1>1, <1>3, <1>5, <1>6, <1>7, <1>9, <1>11, <1>12, <1>13, ControlTools

\* Marking or answering one call of a run's plan keeps the plans consistent.
LEMMA PlanMark ==
  ASSUME TypeOK, PlanInv, NEW r \in Runs, NEW c \in plan[r], NEW s \in Statuses, s # "unused",
         status' = [status EXCEPT ![c] = s], UNCHANGED <<plan, phase>>
  PROVE  /\ PlanInv'
         /\ \A q \in Runs : q # r => \A d \in plan[q] : status'[d] = status[d]
         /\ status'[c] = s
<1>1. plan[r] \subseteq Calls /\ status \in [Calls -> Statuses]  BY DEF TypeOK
<1>2. status'[c] = s /\ \A d \in Calls : d # c => status'[d] = status[d]
  BY <1>1
<1>3. \A q \in Runs : q # r => \A d \in plan[q] : status'[d] = status[d]
  BY <1>2 DEF PlanInv, TypeOK
<1>4. \A q \in Runs : \A d \in plan[q] : status'[d] # "unused" /\ phase'[q] = "tools"
  BY <1>2 DEF PlanInv, TypeOK
<1>5. \A d \in Calls : status'[d] \in {"planned", "effect_pending"} =>
        \E q \in Runs : d \in plan'[q]
  BY <1>2 DEF PlanInv
<1> QED  BY <1>2, <1>3, <1>4, <1>5 DEF PlanInv

LEMMA ControlClearCall ==
  ASSUME TypeOK, Control, NEW r \in Runs, NEW c \in Calls, ClearCall(r, c)
  PROVE  Control'
<1>1. loop[r] \in Loops /\ phase[r] = "tools" /\ loop[r].pc # "idle" /\ mode = "serving"
  BY DEF TypeOK, Control, PhaseInv, PhaseAt, At, ClearCall, WithCallStatus
<1> DEFINE l == [loop[r] EXCEPT !.pc = "marked", !.call = c]
<1>2. l \in Loops  BY <1>1, Words DEF Loops
<1>3. l.pc = "marked" /\ l.call = c  BY <1>1 DEF Loops
<1>4. /\ Becomes(r, l) /\ UNCHANGED <<mode, plan, phase>> /\ c \in plan[r]
      /\ status' = [status EXCEPT ![c] = "effect_pending"]
  BY DEF ClearCall, hostVars, WithCallStatus
<1>5. "effect_pending" \in Statuses /\ "effect_pending" # "unused"  BY DEF Statuses
<1>6. /\ PlanInv' /\ status'[c] = "effect_pending"
      /\ \A q \in Runs : q # r => \A d \in plan[q] : status'[d] = status[d]
  BY <1>4, <1>5, PlanMark, ZenonT(60) DEF Control
<1>7. phase' = [phase EXCEPT ![r] = "tools"] /\ "tools" \in Phases
  BY <1>1, <1>4 DEF TypeOK, Phases
<1>8. PhaseAt(l.pc, "tools")  BY <1>3 DEF PhaseAt
<1> HIDE DEF l
<1> QED  BY <1>1, <1>2, <1>3, <1>4, <1>6, <1>7, <1>8, ControlTools

LEMMA ControlRefuseCall ==
  ASSUME TypeOK, Control, NEW r \in Runs, NEW c \in Calls, RefuseCall(r, c)
  PROVE  Control'
<1>1. /\ loop[r] \in Loops /\ loop[r].seq + 1 \in Nat /\ phase[r] = "tools"
      /\ loop[r].pc = "calls" /\ mode = "serving"
  BY DEF TypeOK, Loops, Control, PhaseInv, PhaseAt, At, RefuseCall, WithCallStatus
<1> DEFINE l == [loop[r] EXCEPT !.seq = @ + 1]
<1>2. l \in Loops  BY <1>1 DEF Loops
<1>3. l.pc = "calls"  BY <1>1 DEF Loops
<1>4. /\ Becomes(r, l) /\ UNCHANGED <<mode, plan, phase>> /\ c \in plan[r]
      /\ status' = [status EXCEPT ![c] = "completed"]
  BY DEF RefuseCall, hostVars, WithCallStatus
<1>5. "completed" \in Statuses /\ "completed" # "unused"  BY DEF Statuses
<1>6. /\ PlanInv'
      /\ \A q \in Runs : q # r => \A d \in plan[q] : status'[d] = status[d]
  BY <1>4, <1>5, PlanMark DEF Control
<1>7. phase' = [phase EXCEPT ![r] = "tools"] /\ "tools" \in Phases
  BY <1>1, <1>4 DEF TypeOK, Phases
<1>8. PhaseAt(l.pc, "tools")  BY <1>3 DEF PhaseAt
<1>9. l.pc \notin {"marked", "running"} /\ loop[r].pc # "idle"  BY <1>1, <1>3
<1> HIDE DEF l
<1> QED  BY <1>1, <1>2, <1>4, <1>6, <1>7, <1>8, <1>9, ControlTools

LEMMA ControlSettleCall ==
  ASSUME TypeOK, Control, NEW r \in Runs, SettleCall(r)
  PROVE  Control'
<1>1. /\ loop[r] \in Loops /\ loop[r].seq + 1 \in Nat /\ phase[r] = "tools"
      /\ loop[r].pc = "running" /\ mode = "serving" /\ loop[r].call \in plan[r]
      /\ loop[r].streak \in Nat
  BY DEF TypeOK, Loops, Control, PhaseInv, CallInv, PhaseAt, At, SettleCall, WithCallStatus
<1>2. PICK k \in Streaks(r) :
        Becomes(r, [loop[r] EXCEPT !.pc = "calls", !.seq = @ + 1, !.call = None, !.streak = k])
  BY DEF SettleCall, WithCallStatus
<1> DEFINE c == loop[r].call
           l == [loop[r] EXCEPT !.pc = "calls", !.seq = @ + 1, !.call = None, !.streak = k]
<1>3. l \in Loops
  <2>1. k \in Nat  BY <1>1 DEF Streaks
  <2> QED  BY <1>1, <2>1, Words DEF Loops
<1>4. l.pc = "calls"  BY <1>1 DEF Loops
<1>5. /\ Becomes(r, l) /\ UNCHANGED <<mode, plan, phase>>
      /\ status' = [status EXCEPT ![c] = "completed"]
  BY <1>2 DEF SettleCall, hostVars, WithCallStatus
<1>6. "completed" \in Statuses /\ "completed" # "unused"  BY DEF Statuses
<1>7. c \in plan[r]  BY <1>1
<1> HIDE DEF l, c
<1>8. /\ PlanInv'
      /\ \A q \in Runs : q # r => \A d \in plan[q] : status'[d] = status[d]
  BY <1>5, <1>6, <1>7, PlanMark DEF Control
<1>9. phase' = [phase EXCEPT ![r] = "tools"] /\ "tools" \in Phases
  BY <1>1, <1>5 DEF TypeOK, Phases
<1>10. PhaseAt(l.pc, "tools")  BY <1>4 DEF PhaseAt
<1>11. l.pc \notin {"marked", "running"} /\ loop[r].pc # "idle"  BY <1>1, <1>4
<1> QED  BY <1>1, <1>3, <1>5, <1>8, <1>9, <1>10, <1>11, ControlTools

\* Emptying the plan of a run whose calls are all answered.
LEMMA PlanEmptied ==
  ASSUME TypeOK, PlanInv, NEW r \in Runs, \A c \in plan[r] : status[c] = "completed",
         plan' = [plan EXCEPT ![r] = {}], phase' = [phase EXCEPT ![r] = "checkpoint"],
         status' = status
  PROVE  PlanInv' /\ \A q \in Runs : q # r => plan'[q] = plan[q]
<1>1. plan'[r] = {} /\ \A q \in Runs : q # r => plan'[q] = plan[q] /\ phase'[q] = phase[q]
  BY DEF TypeOK
<1>2. ASSUME NEW c \in Calls, status[c] \in {"planned", "effect_pending"}
      PROVE  \E q \in Runs : c \in plan'[q]
  <2>1. PICK q \in Runs : c \in plan[q]  BY <1>2 DEF PlanInv
  <2> QED  BY <1>1, <1>2, <2>1
<1> QED  BY <1>1, <1>2 DEF PlanInv

LEMMA ControlFinishCalls ==
  ASSUME TypeOK, Control, NEW r \in Runs, FinishCalls(r)
  PROVE  Control'
<1>1. loop[r] \in Loops /\ loop[r].pc # "idle" /\ mode = "serving" /\ 0 \in 0..MaxResumes
  BY LimitsAssumption DEF TypeOK, FinishCalls, At
<1> DEFINE l == IF loop[r].streak >= MaxFailures
                THEN [loop[r] EXCEPT !.pc = "ending", !.end = "failed"]
                ELSE [loop[r] EXCEPT !.pc = "turn", !.attempt = 0]
<1>2. l \in Loops
  <2>1. [loop[r] EXCEPT !.pc = "ending", !.end = "failed"] \in Loops  BY <1>1, Words DEF Loops
  <2>2. [loop[r] EXCEPT !.pc = "turn", !.attempt = 0] \in Loops  BY <1>1, Words DEF Loops
  <2> QED  BY <2>1, <2>2
<1>3. l.pc \in {"ending", "turn"}  BY <1>1 DEF Loops
<1>4. Becomes(r, l) /\ UNCHANGED <<mode, status>>  BY DEF FinishCalls, EndsAs, hostVars
<1>5. /\ phase' = [phase EXCEPT ![r] = "checkpoint"] /\ "checkpoint" \in Phases
      /\ plan' = [plan EXCEPT ![r] = {}] /\ \A c \in plan[r] : status[c] = "completed"
  BY DEF FinishCalls, SetPhase, Phases
<1>6. PlanInv' /\ \A q \in Runs : q # r => plan'[q] = plan[q]
  BY <1>4, <1>5, PlanEmptied DEF Control
<1>7. PhaseAt(l.pc, "checkpoint") /\ l.pc \notin {"marked", "running"}  BY <1>3 DEF PhaseAt
<1>8. \A q \in Runs : q # r => \A c \in plan[q] : status'[c] = status[c]  BY <1>4
<1> HIDE DEF l
<1> QED  BY <1>1, <1>2, <1>4, <1>5, <1>6, <1>7, <1>8, ControlTools

LEMMA ControlHost ==
  ASSUME TypeOK, Control, Crash \/ Boot \/ BootLocked \/ Serve
  PROVE  Control'
<1>1. UNCHANGED <<phase, plan, status>>  BY DEF Crash, Boot, BootLocked, Serve, recordVars
<1>2. PlanInv'  BY <1>1 DEF Control, PlanInv
<1>3. CASE Crash
  <2>1. \A r \in Runs : loop'[r].pc = "idle"  BY <1>3 DEF Crash, Idle
  <2> QED  BY <1>2, <2>1 DEF Control, PhaseInv, PhaseAt, HostInv, CallInv
<1>4. CASE Boot \/ BootLocked \/ Serve
  <2>1. UNCHANGED loop  BY <1>4 DEF Boot, BootLocked, Serve
  <2>2. mode # "serving"  BY <1>4 DEF Boot, BootLocked, Serve
  <2>3. \A r \in Runs : loop'[r].pc = "idle"  BY <2>1, <2>2 DEF Control, HostInv
  <2> QED  BY <1>2, <2>3 DEF Control, PhaseInv, PhaseAt, HostInv, CallInv
<1> QED  BY <1>3, <1>4

\* Recovery meets no live loop, so only the plans can go wrong.
LEMMA ControlRecovering ==
  ASSUME Control, mode = "recovering", \A q \in Runs : loop'[q].pc = loop[q].pc, PlanInv'
  PROVE  Control'
<1>1. \A q \in Runs : loop'[q].pc = "idle"  BY DEF Control, HostInv
<1> QED  BY <1>1 DEF Control, PhaseInv, PhaseAt, HostInv, CallInv

LEMMA ControlRecoverRun ==
  ASSUME TypeOK, Control, NEW r \in Runs,
         PickRun(r) \/ RecoverResume(r) \/ RecoverUncertain(r) \/ RecoverTools(r)
  PROVE  Control'
<1>1. mode = "recovering" /\ UNCHANGED <<loop, status>>
  BY DEF PickRun, RecoverResume, RecoverUncertain, RecoverTools, Recovering, recordVars
<1>2. PlanInv'
  <2>1. CASE PickRun(r) \/ RecoverResume(r)
    <3>1. UNCHANGED <<phase, plan>>  BY <2>1 DEF PickRun, RecoverResume, recordVars
    <3> QED  BY <1>1, <3>1 DEF Control, PlanInv
  <2>2. CASE RecoverUncertain(r)
    <3>1. phase' = [phase EXCEPT ![r] = "terminal"] /\ UNCHANGED plan /\ phase[r] = "request_pending"
      BY <2>2 DEF RecoverUncertain, SetPhase
    <3>2. \A q \in Runs : phase[q] = "tools" => phase'[q] = "tools"  BY <3>1 DEF TypeOK
    <3> QED  BY <1>1, <3>1, <3>2 DEF Control, PlanInv
  <2>3. CASE RecoverTools(r)
    <3>1. /\ phase' = [phase EXCEPT ![r] = "checkpoint"] /\ plan' = [plan EXCEPT ![r] = {}]
          /\ \A c \in plan[r] : status[c] = "completed"
      BY <2>3 DEF RecoverTools, SetPhase
    <3> QED  BY <1>1, <3>1, PlanEmptied DEF Control
  <2> QED  BY <2>1, <2>2, <2>3
<1> QED  BY <1>1, <1>2, ControlRecovering

\* The calls recovery answers or runs are in the plan and have no result yet.
LEMMA RecoveredCall ==
  ASSUME NEW r \in Runs, NEW c \in Calls,
         c \in Owed(r) \/ c \in Pending(r, "never")
  PROVE  c \in plan[r] /\ status[c] # "completed"
  BY DEF Owed, Pending, Planned

LEMMA ControlRecoverCall ==
  ASSUME TypeOK, Control, NEW r \in Runs, NEW c \in Calls,
         RecoverSynthesize(r, c) \/ RecoverExecute(r, c) \/ RecoverAnswer(r, c)
  PROVE  Control'
<1>1. mode = "recovering" /\ loop \in [Runs -> Loops] /\ c \in plan[r]
  BY RecoveredCall DEF TypeOK, RecoverSynthesize, RecoverExecute, RecoverAnswer, Recovering
<1>2. \A q \in Runs : loop'[q].pc = loop[q].pc
  <2>1. CASE RecoverSynthesize(r, c)  BY <2>1 DEF RecoverSynthesize
  <2>2. CASE RecoverExecute(r, c)
    BY <1>1, <2>2 DEF RecoverExecute, Becomes, Loops
  <2>3. CASE RecoverAnswer(r, c)
    BY <1>1, <2>3 DEF RecoverAnswer, Becomes, Loops
  <2> QED  BY <2>1, <2>2, <2>3
<1>3. PlanInv'
  <2>1. CASE RecoverExecute(r, c)
    <3>1. UNCHANGED <<plan, status, phase>>  BY <2>1 DEF RecoverExecute, recordVars
    <3> QED  BY <3>1 DEF Control, PlanInv
  <2>2. CASE RecoverSynthesize(r, c) \/ RecoverAnswer(r, c)
    <3>1. status' = [status EXCEPT ![c] = "completed"] /\ UNCHANGED <<plan, phase>>
      BY <2>2 DEF RecoverSynthesize, RecoverAnswer, AnswerInRecovery, WithCallStatus
    <3>2. "completed" \in Statuses /\ "completed" # "unused"  BY DEF Statuses
    <3> QED  BY <1>1, <3>1, <3>2, PlanMark DEF Control
  <2> QED  BY <2>1, <2>2
<1> QED  BY <1>1, <1>2, <1>3, ControlRecovering

LEMMA ControlInit == Init => Control
  BY DEF Init, Control, PhaseInv, PhaseAt, HostInv, PlanInv, CallInv, Idle

LEMMA ControlStep ==
  ASSUME TypeOK, SeqInv, Control, [Next]_vars
  PROVE  Control'
<1>1. CASE UNCHANGED vars
  BY <1>1 DEF Control, PhaseInv, HostInv, PlanInv, CallInv, vars, recordVars, hostVars
<1>2. ASSUME NEW r \in Runs, ClientStep(r) PROVE Control'
  BY <1>2, ControlStart, ControlMessage, ControlInterrupt DEF ClientStep
<1>3. ASSUME NEW r \in Runs, LoopStep(r) PROVE Control'
  BY <1>3, ControlTurnLimit, ControlStopAtBoundary, ControlBuild, ControlRefuse,
     ControlIntent, ControlStreamFails, ControlDispatchTools, ControlTurnOver,
     ControlFollowUps, ControlFinish, ControlRefuseCall, ControlClearCall, ControlRunTool,
     ControlSettleCall, ControlFinishCalls, ControlTerminate, ControlClose
  DEF LoopStep
<1>4. ASSUME NEW r \in Runs, RecoveryStep(r) PROVE Control'
  BY <1>4, ControlRecoverRun, ControlRecoverCall DEF RecoveryStep
<1>5. CASE Crash \/ Boot \/ BootLocked \/ Serve
  BY <1>5, ControlHost
<1> QED  BY <1>1, <1>2, <1>3, <1>4, <1>5 DEF Next

-----------------------------------------------------------------------------
(* Effects: which calls have been started.  A `reexecute` handed to recovery *)
(* runs calls under no mark, so the theorem is about a harness without one.  *)

LEMMA EffectInit == Init => EffectInv
  BY DEF Init, EffectInv, StartedUnderMark, Idle

\* Steps that start no tool, and only ever mark or answer a call.
LEMMA EffectQuiet ==
  ASSUME TypeOK, EffectInv, UNCHANGED effects,
         \A c \in Calls : status[c] \in {"effect_pending", "completed"} =>
           status'[c] \in {"effect_pending", "completed"},
         \A r \in Runs : loop'[r].pc = "marked" =>
           \/ loop[r].pc = "marked" /\ loop'[r].call = loop[r].call
           \/ effects[loop'[r].call] = 0
  PROVE  EffectInv'
<1>1. StartedUnderMark'  BY DEF EffectInv, StartedUnderMark, TypeOK
<1>2. \A r \in Runs : loop'[r].pc = "marked" => effects'[loop'[r].call] = 0
  BY DEF EffectInv
<1> QED  BY <1>1, <1>2 DEF EffectInv

\* The loop's steps that neither start a tool nor touch a call's status.
LEMMA EffectPlain ==
  ASSUME TypeOK, NEW r \in Runs,
         TurnLimit(r) \/ StopAtBoundary(r) \/ Build(r) \/ Finish(r) \/ Refuse(r) \/ Intent(r)
         \/ StreamFails(r) \/ FollowUps(r) \/ Terminate(r) \/ FinishCalls(r)
  PROVE  /\ UNCHANGED <<effects, status>> /\ loop'[r].pc # "marked"
         /\ \A q \in Runs : q # r => loop'[q] = loop[q]
<1>1. loop \in [Runs -> Loops] /\ loop[r] \in Loops  BY DEF TypeOK
<1>2. CASE TurnLimit(r)
  BY <1>1, <1>2 DEF TurnLimit, EndsAs, Becomes, Loops, recordVars, pastVars
<1>3. CASE StopAtBoundary(r)
  BY <1>1, <1>3 DEF StopAtBoundary, EndsAs, Becomes, Loops, recordVars, pastVars
<1>4. CASE Build(r)
  BY <1>1, <1>4 DEF Build, Becomes, Loops, recordVars, pastVars
<1>5. CASE Finish(r)
  BY <1>1, <1>5 DEF Finish, EndsAs, Becomes, Loops, recordVars, pastVars
<1>6. CASE Refuse(r)
  BY <1>1, <1>6 DEF Refuse, Becomes, Loops, recordVars, pastVars
<1>7. CASE Intent(r)
  BY <1>1, <1>7, ZenonT(60) DEF Intent, Becomes, Loops, recordVars, pastVars, CommitRequestIntent
<1>8. CASE StreamFails(r)
  <2>1. PICK n \in 0..MaxBlocks :
          Becomes(r, [loop[r] EXCEPT !.pc = "ending", !.seq = @ + n + 1,
                        !.end = IF loop[r].aborted THEN "interrupted" ELSE "failed"])
    BY <1>8 DEF StreamFails
  <2>2. UNCHANGED <<effects, status>>  BY <1>8 DEF StreamFails, recordVars, pastVars
  <2> QED  BY <1>1, <2>1, <2>2 DEF Becomes, Loops
<1>9. CASE FollowUps(r)
  BY <1>1, <1>9 DEF FollowUps, Becomes, Loops, recordVars, pastVars
<1>10. CASE Terminate(r)
  BY <1>1, <1>10 DEF Terminate, Becomes, Loops, recordVars, pastVars
<1>11. CASE FinishCalls(r)
  <2>1. UNCHANGED <<effects, status>>  BY <1>11 DEF FinishCalls, pastVars
  <2>2. \/ Becomes(r, [loop[r] EXCEPT !.pc = "ending", !.end = "failed"])
        \/ Becomes(r, [loop[r] EXCEPT !.pc = "turn", !.attempt = 0])
    BY <1>11 DEF FinishCalls, EndsAs
  <2> QED  BY <1>1, <2>1, <2>2, ZenonT(60) DEF Becomes, Loops
<1> QED  BY <1>2, <1>3, <1>4, <1>5, <1>6, <1>7, <1>8, <1>9, <1>10, <1>11

LEMMA EffectStep ==
  ASSUME ~Reexecute, TypeOK, Control, EffectInv, [Next]_vars
  PROVE  EffectInv'
<1>1. /\ loop \in [Runs -> Loops] /\ \A q \in Runs : loop[q] \in Loops
      /\ status \in [Calls -> Statuses] /\ effects \in [Calls -> Nat]
  BY DEF TypeOK
<1>2. CASE UNCHANGED vars
  BY <1>2, EffectQuiet DEF vars, recordVars, pastVars
<1>3. ASSUME NEW r \in Runs, ClientStep(r) PROVE EffectInv'
  <2>1. UNCHANGED <<effects, status>>
    BY <1>3 DEF ClientStep, Start, Message, Interrupt, recordVars, pastVars, ClaimLane
  <2>2. \A q \in Runs : q # r => loop'[q] = loop[q]
    BY <1>1, <1>3 DEF ClientStep, Start, Message, Interrupt, Becomes, ClaimLane
  <2>3. loop'[r].pc = "marked" => loop[r].pc = "marked" /\ loop'[r].call = loop[r].call
    <3>1. CASE Start(r)  BY <1>1, <3>1 DEF Start, Becomes, Idle, ClaimLane
    <3>2. CASE Message(r)  BY <1>1, <3>2 DEF Message, Becomes, Loops
    <3>3. CASE Interrupt(r)  BY <1>1, <3>3 DEF Interrupt, Becomes, Loops
    <3> QED  BY <1>3, <3>1, <3>2, <3>3 DEF ClientStep
  <2> QED  BY <2>1, <2>2, <2>3, EffectQuiet
<1>4. ASSUME NEW r \in Runs, LoopStep(r) PROVE EffectInv'
  <2>1. CASE TurnLimit(r) \/ StopAtBoundary(r) \/ Build(r) \/ Finish(r) \/ Refuse(r) \/ Intent(r)
            \/ StreamFails(r) \/ FollowUps(r) \/ Terminate(r) \/ FinishCalls(r)
    <3>1. /\ UNCHANGED <<effects, status>> /\ loop'[r].pc # "marked"
          /\ \A q \in Runs : q # r => loop'[q] = loop[q]
      BY <2>1, EffectPlain
    <3> QED  BY <3>1, EffectQuiet
  <2>2. CASE Close(r)
    <3>1. UNCHANGED <<effects, status>> /\ \A q \in Runs : loop'[q] = loop[q] \/ loop'[q] = Idle
      BY <1>1, <2>2 DEF Close, Becomes, pastVars, ClaimLane
    <3> QED  BY <3>1, EffectQuiet DEF Idle
  <2>3. CASE DispatchTools(r)
    <3>1. PICK S \in SUBSET {c \in Calls : status[c] = "unused"}, n \in 0..MaxBlocks,
               billed \in Reports :
            /\ Settle(r, n, billed)
            /\ status' = [c \in Calls |-> IF c \in S THEN "planned" ELSE status[c]]
            /\ Becomes(r, [loop[r] EXCEPT !.pc = "calls", !.seq = @ + n])
      BY <2>3 DEF DispatchTools, Askable, PlanTools
    <3>2. UNCHANGED effects  BY <3>1 DEF Settle, InsertUsage
    <3>3. \A c \in Calls : status[c] \in {"effect_pending", "completed"} => status'[c] = status[c]
      BY <3>1
    <3>4. loop'[r].pc = "calls" /\ \A q \in Runs : q # r => loop'[q] = loop[q]
      BY <1>1, <3>1 DEF Becomes, Loops
    <3> QED  BY <3>2, <3>3, <3>4, EffectQuiet
  <2>4. ASSUME PauseTurn(r) \/ Compact(r) \/ CutOff(r) \/ EndTurn(r) PROVE EffectInv'
    <3>0. PICK pc \in {"turn", "ending", "stopped"} :
            \E attempt, end : SettleTo(r, pc, attempt, end)
      BY <2>4 DEF PauseTurn, Compact, CutOff, EndTurn
    <3>1. PICK attempt, end : SettleTo(r, pc, attempt, end)
      BY <3>0
    <3>2. PICK n, billed :
            /\ Settle(r, n, billed)
            /\ Becomes(r, [loop[r] EXCEPT !.pc = pc, !.seq = @ + n, !.attempt = attempt,
                                          !.end = end])
      BY <3>1 DEF SettleTo
    <3>3. UNCHANGED <<effects, status>>  BY <3>1, <3>2 DEF Settle, SettleTo, InsertUsage
    <3>4. loop'[r].pc = pc /\ \A q \in Runs : q # r => loop'[q] = loop[q]
      BY <1>1, <3>2 DEF Becomes, Loops
    <3> QED  BY <3>3, <3>4, EffectQuiet
  <2>5. ASSUME NEW c \in Calls, RefuseCall(r, c) PROVE EffectInv'
    <3>1. UNCHANGED effects /\ status' = [status EXCEPT ![c] = "completed"]
      BY <2>5 DEF RefuseCall, pastVars, WithCallStatus
    <3>2. \A q \in Runs : loop'[q].pc = loop[q].pc /\ loop'[q].call = loop[q].call
      BY <1>1, <2>5 DEF RefuseCall, Becomes, Loops, WithCallStatus
    <3> QED  BY <1>1, <3>1, <3>2, EffectQuiet
  <2>6. ASSUME NEW c \in Calls, ClearCall(r, c) PROVE EffectInv'
    <3>1. UNCHANGED effects /\ status' = [status EXCEPT ![c] = "effect_pending"]
      BY <2>6 DEF ClearCall, pastVars, WithCallStatus
    <3>2. loop'[r].call = c /\ \A q \in Runs : q # r => loop'[q] = loop[q]
      BY <1>1, <2>6 DEF ClearCall, Becomes, Loops, WithCallStatus
    <3>3. effects[c] = 0
      BY <1>1, <2>6 DEF ClearCall, EffectInv, StartedUnderMark, WithCallStatus
    <3> QED  BY <1>1, <3>1, <3>2, <3>3, EffectQuiet
  <2>7. CASE RunTool(r)
    <3> DEFINE c == loop[r].call
    <3>1. loop[r].pc = "marked"  BY <2>7 DEF RunTool, At
    <3>2. c \in plan[r] /\ c \in Calls /\ status[c] = "effect_pending" /\ effects[c] = 0
      BY <3>1 DEF TypeOK, Control, CallInv, EffectInv
    <3>3. UNCHANGED status /\ effects' = [effects EXCEPT ![c] = @ + 1]
      BY <2>7 DEF RunTool, recordVars
    <3>4. loop'[r].pc = "running" /\ \A q \in Runs : q # r => loop'[q] = loop[q]
      BY <1>1, <2>7 DEF RunTool, GoesTo, Becomes, Loops
    <3>5. effects'[c] = 1 /\ \A d \in Calls : d # c => effects'[d] = effects[d]
      BY <1>1, <3>2, <3>3
    <3>6. StartedUnderMark'  BY <3>2, <3>3, <3>5 DEF EffectInv, StartedUnderMark
    <3>7. ASSUME NEW q \in Runs, loop'[q].pc = "marked" PROVE effects'[loop'[q].call] = 0
      <4>1. q # r /\ loop'[q] = loop[q]  BY <3>4, <3>7
      <4>2. loop[q].call \in plan[q] /\ loop[q].call \in Calls /\ effects[loop[q].call] = 0
        BY <3>7, <4>1 DEF TypeOK, Control, CallInv, EffectInv
      <4>3. loop[q].call # c  BY <3>2, <4>1, <4>2 DEF Control, PlanInv
      <4> QED  BY <3>5, <4>1, <4>2, <4>3
    <3> QED  BY <3>6, <3>7 DEF EffectInv
  <2>8. CASE SettleCall(r)
    <3>1. UNCHANGED effects /\ status' = [status EXCEPT ![loop[r].call] = "completed"]
      BY <2>8 DEF SettleCall, pastVars, WithCallStatus
    <3>2. loop'[r].pc = "calls" /\ \A q \in Runs : q # r => loop'[q] = loop[q]
      BY <1>1, <2>8 DEF SettleCall, Becomes, Loops, WithCallStatus
    <3> QED  BY <1>1, <3>1, <3>2, EffectQuiet
  <2> QED  BY <1>4, <2>1, <2>2, <2>3, <2>4, <2>5, <2>6, <2>7, <2>8 DEF LoopStep
<1>5. ASSUME NEW r \in Runs, RecoveryStep(r) PROVE EffectInv'
  <2>1. CASE PickRun(r) \/ RecoverResume(r) \/ RecoverUncertain(r) \/ RecoverTools(r)
    <3>1. UNCHANGED <<effects, status, loop>>
      BY <2>1 DEF PickRun, RecoverResume, RecoverUncertain, RecoverTools, recordVars, pastVars
    <3> QED  BY <3>1, EffectQuiet
  <2>2. ASSUME NEW c \in Calls, RecoverSynthesize(r, c) \/ RecoverAnswer(r, c) PROVE EffectInv'
    <3>1. UNCHANGED effects /\ status' = [status EXCEPT ![c] = "completed"]
      BY <2>2 DEF RecoverSynthesize, RecoverAnswer, AnswerInRecovery, pastVars, WithCallStatus
    <3>2. mode = "recovering" /\ \A q \in Runs : loop'[q].pc = loop[q].pc
      BY <1>1, <2>2 DEF RecoverSynthesize, RecoverAnswer, Recovering, Becomes, Loops
    <3>3. \A q \in Runs : loop'[q].pc = "idle"  BY <3>2 DEF Control, HostInv
    <3> QED  BY <1>1, <3>1, <3>3, EffectQuiet
  <2>3. ASSUME NEW c \in Calls, RecoverExecute(r, c) PROVE EffectInv'
    BY <2>3 DEF RecoverExecute
  <2> QED  BY <1>5, <2>1, <2>2, <2>3 DEF RecoveryStep
<1>6. CASE Crash \/ Boot \/ BootLocked \/ Serve
  <2>1. UNCHANGED <<effects, status>>
    BY <1>6 DEF Crash, Boot, BootLocked, Serve, recordVars, pastVars
  <2>2. \A q \in Runs : loop'[q] = loop[q] \/ loop'[q].pc = "idle"
    BY <1>6 DEF Crash, Boot, BootLocked, Serve, Idle
  <2> QED  BY <2>1, <2>2, EffectQuiet
<1> QED  BY <1>2, <1>3, <1>4, <1>5, <1>6 DEF Next

\* Without a `reexecute`, which the supervisor never passes, a tool is started at most once
\* and only under its durable mark, over any number of runs, lanes, turns and crashes.
THEOREM CallsStartOnce ==
  ASSUME ~Reexecute
  PROVE  Spec => []StartedUnderMark
<1>1. Init => TypeOK /\ SeqInv /\ Control /\ EffectInv  BY TypeInit, ControlInit, EffectInit
<1>2. TypeOK /\ SeqInv /\ Control /\ EffectInv /\ [Next]_vars
        => TypeOK' /\ SeqInv' /\ Control' /\ EffectInv'
  BY TypeStep, ControlStep, EffectStep
<1>3. EffectInv => StartedUnderMark  BY DEF EffectInv
<1> QED  BY <1>1, <1>2, <1>3, PTL DEF Spec

-----------------------------------------------------------------------------
(* The record: the parts of the invariant about the log of a session.     *)

AnswerInv ==
  \A c \in Calls :
    IF status[c] = "completed" THEN \E e : Answers(c) = {e} ELSE Answers(c) = {}

\* A pending request is settled under its own key only as the run ends.
KeyInv == \A e \in entries : e.settles \in Nat \X Nat => phase[e.run] = "terminal"

Surface == AnswerInv /\ KeyInv /\ LostToRepeats

\* What a step may add to the log, or lose.
Adds(batch) ==
  /\ entries \subseteq entries' /\ entries' \subseteq entries \cup batch
  /\ entries' \cup lost' = entries \cup lost \cup batch
  /\ \A e \in lost' : e \in lost \/ Repeats(e)
  /\ \A e \in batch : /\ phase[e.run] # "terminal"
                      /\ e.settles \in Nat \X Nat => phase'[e.run] = "terminal"
  /\ \A c \in Calls :
       \/ /\ \A e \in batch : e.settles # c
          /\ status'[c] = "completed" <=> status[c] = "completed"
       \/ /\ status[c] # "completed" /\ status'[c] = "completed"
          /\ \E e \in batch : {f \in batch : f.settles = c} = {e}

PhasesStay == \A r \in Runs : phase[r] = "terminal" => phase'[r] = "terminal"

LEMMA AddsKeepsSurface ==
  ASSUME TypeOK, Surface, NEW batch, Adds(batch), PhasesStay
  PROVE  Surface'
<1>1. LostToRepeats'
  <2> SUFFICES ASSUME NEW e \in lost' PROVE Repeats(e)'  BY DEF LostToRepeats
  <2>1. Repeats(e)  BY DEF Adds, Surface, LostToRepeats
  <2>2. entries \subseteq entries'  BY DEF Adds
  <2> QED  BY <2>1, <2>2 DEF Repeats
<1>2. KeyInv'
  <2> SUFFICES ASSUME NEW e \in entries', e.settles \in Nat \X Nat
               PROVE  phase'[e.run] = "terminal"
    BY DEF KeyInv
  <2>1. CASE e \in batch  BY <2>1 DEF Adds
  <2>2. CASE e \in entries
    BY <2>2 DEF Surface, KeyInv, PhasesStay, TypeOK, Entries
  <2> QED  BY <2>1, <2>2 DEF Adds
<1>3. AnswerInv'
  <2> SUFFICES ASSUME NEW c \in Calls
               PROVE  IF status'[c] = "completed" THEN \E e : Answers(c)' = {e}
                                                  ELSE Answers(c)' = {}
    BY DEF AnswerInv
  <2>1. Answers(c)' = Answers(c) \cup {f \in batch : f.settles = c}  BY DEF Answers, Adds
  <2>2. CASE (\A e \in batch : e.settles # c) /\ (status'[c] = "completed" <=> status[c] = "completed")
    <3>1. Answers(c)' = Answers(c)  BY <2>1, <2>2
    <3> QED  BY <2>2, <3>1 DEF Surface, AnswerInv, Adds
  <2>3. CASE /\ status[c] # "completed" /\ status'[c] = "completed"
             /\ \E e \in batch : {f \in batch : f.settles = c} = {e}
    <3>1. Answers(c) = {}  BY <2>3 DEF Surface, AnswerInv
    <3> QED  BY <2>1, <2>3, <3>1 DEF Adds
  <2> QED  BY <2>2, <2>3 DEF Adds
<1> QED  BY <1>1, <1>2, <1>3 DEF Surface

-----------------------------------------------------------------------------
(* A terminal position is final.                                           *)

\* A run that has ended has no loop at work but the one that is closing.
LEMMA EndedIsOver ==
  ASSUME Control, NEW r \in Runs, phase[r] = "terminal"
  PROVE  loop[r].pc \notin {"turn", "gate", "stream", "stopped", "calls", "marked", "running", "ending"}
  BY DEF Control, PhaseInv, PhaseAt

\* The register of one run is written, and it was not terminal or becomes it.
LEMMA OnePhase ==
  ASSUME TypeOK, NEW r \in Runs, NEW p, phase' = [phase EXCEPT ![r] = p],
         phase[r] # "terminal" \/ p = "terminal"
  PROVE  PhasesStay
  BY DEF TypeOK, PhasesStay

LEMMA PhasesStep ==
  ASSUME TypeOK, Control, [Next]_vars
  PROVE  PhasesStay
<1>1. CASE UNCHANGED phase  BY <1>1 DEF PhasesStay
<1>2. ASSUME NEW r \in Runs, ClientStep(r) PROVE PhasesStay
  <2>1. CASE Start(r)
    BY <2>1, OnePhase DEF Start, SetPhase, ClaimLane
  <2> QED  BY <1>1, <1>2, <2>1 DEF ClientStep, Message, Interrupt, recordVars
<1>3. ASSUME NEW r \in Runs, LoopStep(r) PROVE PhasesStay
  <2>1. CASE Intent(r)
    BY <2>1, OnePhase, EndedIsOver DEF Intent, CommitRequestIntent, SetPhase, At
  <2>2. CASE DispatchTools(r)
    BY <2>2, OnePhase, EndedIsOver DEF DispatchTools, SetPhase, At
  <2>3. CASE PauseTurn(r) \/ Compact(r) \/ CutOff(r) \/ EndTurn(r)
    BY <2>3, OnePhase, EndedIsOver DEF PauseTurn, Compact, CutOff, EndTurn, SettleTo, SetPhase, At
  <2>4. CASE FollowUps(r)
    BY <2>4, OnePhase, EndedIsOver DEF FollowUps, SetPhase, At
  <2>5. CASE FinishCalls(r)
    BY <2>5, OnePhase, EndedIsOver DEF FinishCalls, SetPhase, At
  <2>6. CASE Terminate(r)
    BY <2>6, OnePhase DEF Terminate, SetPhase
  <2>7. CASE \E c \in Calls : RefuseCall(r, c) \/ ClearCall(r, c)
    BY <1>1, <2>7 DEF RefuseCall, ClearCall
  <2>8. CASE \/ TurnLimit(r) \/ StopAtBoundary(r) \/ Build(r) \/ Refuse(r) \/ StreamFails(r)
             \/ Finish(r) \/ RunTool(r) \/ SettleCall(r) \/ Close(r)
    BY <1>1, <2>8 DEF TurnLimit, StopAtBoundary, Build, Refuse, StreamFails, Finish, RunTool,
                      SettleCall, Close, recordVars
  <2> QED  BY <1>3, <2>1, <2>2, <2>3, <2>4, <2>5, <2>6, <2>7, <2>8 DEF LoopStep
<1>4. ASSUME NEW r \in Runs, RecoveryStep(r) PROVE PhasesStay
  <2>1. CASE RecoverUncertain(r)  BY <2>1, OnePhase DEF RecoverUncertain, SetPhase
  <2>2. CASE RecoverTools(r)  BY <2>2, OnePhase DEF RecoverTools, SetPhase
  <2>3. CASE PickRun(r) \/ RecoverResume(r)
    BY <1>1, <2>3 DEF PickRun, RecoverResume, recordVars
  <2>4. CASE \E c \in Calls : RecoverSynthesize(r, c) \/ RecoverExecute(r, c) \/ RecoverAnswer(r, c)
    BY <1>1, <2>4 DEF RecoverSynthesize, RecoverExecute, RecoverAnswer, AnswerInRecovery, recordVars
  <2> QED  BY <1>4, <2>1, <2>2, <2>3, <2>4 DEF RecoveryStep
<1>5. CASE Crash \/ Boot \/ BootLocked \/ Serve
  BY <1>1, <1>5 DEF Crash, Boot, BootLocked, Serve, recordVars
<1>6. CASE UNCHANGED vars  BY <1>1, <1>6 DEF vars, recordVars
<1> QED  BY <1>2, <1>3, <1>4, <1>5, <1>6 DEF Next

-----------------------------------------------------------------------------
(* What each step adds to the log.                                         *)

\* A step that writes nothing and answers no call.
LEMMA AddsNothing ==
  ASSUME UNCHANGED <<entries, lost>>,
         \A c \in Calls : status'[c] = "completed" <=> status[c] = "completed"
  PROVE  \E batch : Adds(batch)
<1>1. Adds({})  BY DEF Adds
<1> QED  BY <1>1

LEMMA AllRecorded ==
  ASSUME NEW batch, NEW n, Record(batch, n), \A e \in batch : ~Duplicate(e)
  PROVE  entries' = entries \cup batch /\ lost' = lost
  BY DEF Record

\* An entry that is skipped is in the history of what is lost.
LEMMA AllWritten ==
  ASSUME NEW batch, NEW n, Record(batch, n), \A e \in batch : Duplicate(e) => Repeats(e)
  PROVE  /\ entries \subseteq entries' /\ entries' \subseteq entries \cup batch
         /\ entries' \cup lost' = entries \cup lost \cup batch
         /\ \A e \in lost' : e \in lost \/ Repeats(e)
  BY DEF Record

\* The events of a live loop take seqs that nobody has taken, and no key.
LEMMA EventsAreNew ==
  ASSUME TypeOK, SeqInv, NEW r \in Runs, loop[r].pc # "idle", NEW n \in Nat, NEW types,
         DOMAIN types = 1..n
  PROVE  \A e \in Events(r, types) : e.run = r /\ e.settles = None /\ ~Duplicate(e)
<1> SUFFICES ASSUME NEW i \in 1..n
             PROVE  LET e == [id |-> storeSeq + i, run |-> r, seq |-> loop[r].seq + i,
                              type |-> types[i], settles |-> None]
                    IN  e.run = r /\ e.settles = None /\ ~Duplicate(e)
  BY DEF Events
<1> DEFINE e == [id |-> storeSeq + i, run |-> r, seq |-> loop[r].seq + i,
                 type |-> types[i], settles |-> None]
<1>1. loop[r].seq \in Nat /\ i >= 1  BY DEF TypeOK, Loops
<1>2. \A f \in entries : f.run = r => f.seq \in Nat /\ f.seq <= loop[r].seq
  BY DEF SeqInv, TypeOK, Entries
<1>3. e.run = r /\ e.settles = None /\ e.seq = loop[r].seq + i  OBVIOUS
<1> HIDE DEF e
<1>4. ~Duplicate(e)  BY <1>1, <1>2, <1>3 DEF Duplicate
<1> QED  BY <1>3, <1>4 DEF e

\* A step whose batch is the events of a live loop.
LEMMA AddsEvents ==
  ASSUME TypeOK, SeqInv, Control, NEW r \in Runs, loop[r].pc \notin {"idle", "closing"},
         NEW n \in Nat, NEW types, DOMAIN types = 1..n, Record(Events(r, types), n),
         \A c \in Calls : status'[c] = "completed" <=> status[c] = "completed"
  PROVE  \E batch : Adds(batch)
<1> DEFINE batch == Events(r, types)
<1>1. \A e \in batch : e.run = r /\ e.settles = None /\ ~Duplicate(e)  BY EventsAreNew
<1>2. phase[r] # "terminal"
  BY DEF Control, PhaseInv, PhaseAt, TypeOK, Loops, Steps
<1> HIDE DEF batch
<1>3. entries' = entries \cup batch /\ lost' = lost  BY <1>1, AllRecorded DEF batch
<1>4. Adds(batch)  BY <1>1, <1>2, <1>3, CallsAssumption DEF Adds
<1> QED  BY <1>4

\* A step that answers a call: perhaps events of a loop, and the result under the call's id.
LEMMA AddsAnswer ==
  ASSUME TypeOK, Surface, NEW r \in Runs, phase[r] # "terminal",
         NEW c \in Calls, status[c] # "completed", NEW B, NEW at, NEW n,
         \A e \in B : e.run = r /\ e.settles = None /\ ~Duplicate(e),
         Record(B \cup {Settlement(r, "tool_result", c, at)}, n),
         status' = [status EXCEPT ![c] = "completed"]
  PROVE  \E batch : Adds(batch)
<1> DEFINE x == Settlement(r, "tool_result", c, at)
           batch == B \cup {x}
<1>1. x.run = r /\ x.seq = 0 /\ x.settles = c  BY DEF Settlement
<1> HIDE DEF x
<1>2. Answers(c) = {}  BY DEF Surface, AnswerInv
<1>3. \A f \in entries : f.settles # c /\ f.settles \in Settled
  BY <1>2 DEF Answers, TypeOK, Entries
<1>5. c # None /\ c \notin Nat \X Nat  BY CallsAssumption
<1>4. Duplicate(x) => Repeats(x)
  <2> SUFFICES ASSUME NEW f \in entries, f.run = x.run, KeyOf(f.settles) = KeyOf(x.settles)
               PROVE  Repeats(x)
    BY <1>1 DEF Duplicate
  <2>1. f.settles \in Calls
    <3>1. IdOf[c] \in Ids /\ KeyOf(c) = IdOf[c]  BY CallsAssumption DEF KeyOf
    <3> QED  BY <1>1, <1>3, <3>1, CallsAssumption DEF KeyOf, Settled
  <2> QED  BY <1>1, <1>3, <2>1 DEF Repeats, KeyOf
<1>6. \A e \in batch : Duplicate(e) => Repeats(e)
  BY <1>4
<1>a. Record(batch, n)  BY DEF x
<1>7. \A e \in batch : e.run = r /\ (e.settles = None \/ e.settles = c)  BY <1>1
<1>8. \A e \in batch : phase[e.run] # "terminal" /\ e.settles \notin Nat \X Nat
  BY <1>5, <1>7, CallsAssumption
<1>9. {f \in batch : f.settles = c} = {x}  BY <1>1, <1>5
<1>10. status'[c] = "completed" /\ \A d \in Calls : d # c => status'[d] = status[d]
  BY DEF TypeOK
<1>11. \A d \in Calls : d # c => \A e \in batch : e.settles # d
  BY <1>7, CallsAssumption
<1>12. x \in batch  OBVIOUS
<1> HIDE DEF batch
<1>13. Adds(batch)  BY <1>6, <1>a, <1>8, <1>9, <1>10, <1>11, <1>12, AllWritten DEF Adds
<1> QED  BY <1>13

LEMMA AddsStart ==
  ASSUME TypeOK, SeqInv, NEW r \in Runs, Start(r)
  PROVE  \E batch : Adds(batch)
<1> DEFINE base == HighestSeq(r)
           batch == {[id |-> storeSeq + i, run |-> r, seq |-> base + i,
                      type |-> <<"user_prompt", "run_started">>[i], settles |-> None] : i \in 1..2}
<1>1. base \in Nat /\ \A f \in entries : f.run = r => f.seq <= base
  BY HighestSeqTyped DEF TypeOK, SeqInv
<1>2. \A f \in entries : f.seq \in Nat  BY DEF TypeOK, Entries
<1>3. Record(batch, 2) /\ phase[r] = "absent" /\ status' = status
  BY DEF Start
<1> HIDE DEF base
<1>4. \A e \in batch : e.run = r /\ e.settles = None /\ e.seq \in {base + 1, base + 2}
  OBVIOUS
<1> HIDE DEF batch
<1>5. \A e \in batch : ~Duplicate(e)
  BY <1>1, <1>2, <1>4 DEF Duplicate
<1>6. entries' = entries \cup batch /\ lost' = lost  BY <1>3, <1>5, AllRecorded
<1>7. Adds(batch)  BY <1>3, <1>4, <1>6, CallsAssumption DEF Adds
<1> QED  BY <1>7

LEMMA AddsTurn ==
  ASSUME TypeOK, SeqInv, Control, NEW r \in Runs,
         \/ Refuse(r) \/ Intent(r) \/ FollowUps(r) \/ Terminate(r) \/ DispatchTools(r)
         \/ PauseTurn(r) \/ Compact(r) \/ CutOff(r) \/ EndTurn(r)
  PROVE  \E batch : Adds(batch)
<1>1. loop[r].pc \notin {"idle", "closing"}
  BY DEF Refuse, Intent, FollowUps, Terminate, DispatchTools, PauseTurn, Compact, CutOff,
         EndTurn, At
<1>2. loop[r].inbox \in Nat  BY DEF TypeOK, Loops
<1>3. CASE Refuse(r) \/ Terminate(r)
  <2>1. PICK type : Record(Events(r, <<type>>), 1)
    BY <1>3 DEF Refuse, Terminate, RecordAndShip
  <2>2. status' = status  BY <1>3 DEF Refuse, Terminate
  <2>3. DOMAIN <<type>> = 1..1  BY OneType
  <2> QED  BY <1>1, <2>1, <2>2, <2>3, AddsEvents
<1>4. CASE Intent(r) \/ FollowUps(r)
  <2>1. PICK n, type : n \in Nat /\ Record(Events(r, [i \in 1..n |-> type]), n)
    <3>1. CASE Intent(r)
      <4>1. PICK n \in HeaderSizes(r) : Record(Events(r, [i \in 1..n |-> "request_header"]), n)
        BY <3>1 DEF Intent, RecordAndShip
      <4>2. n \in Nat  BY DEF HeaderSizes
      <4> QED  BY <4>1, <4>2
    <3>2. CASE FollowUps(r)
      BY <1>2, <3>2 DEF FollowUps, RecordAndShip
    <3> QED  BY <1>4, <3>1, <3>2
  <2>2. status' = status  BY <1>4 DEF Intent, FollowUps
  <2> DEFINE types == [i \in 1..n |-> type]
  <2>3. n \in Nat /\ DOMAIN types = 1..n  BY <2>1
  <2>4. Record(Events(r, types), n)  BY <2>1
  <2> HIDE DEF types
  <2> QED  BY <1>1, <2>2, <2>3, <2>4, AddsEvents
<1>5. CASE DispatchTools(r) \/ PauseTurn(r) \/ Compact(r) \/ CutOff(r) \/ EndTurn(r)
  <2>1. /\ \E n \in 0..MaxBlocks, billed \in Reports : Settle(r, n, billed)
        /\ \A c \in Calls : status'[c] = "completed" <=> status[c] = "completed"
    <3>1. CASE DispatchTools(r)
      <4>1. PICK S \in SUBSET {c \in Calls : status[c] = "unused"}, n \in 0..MaxBlocks,
                 billed \in Reports : Settle(r, n, billed) /\ PlanTools(r, S)
        BY <3>1 DEF DispatchTools, Askable
      <4>2. status' = [c \in Calls |-> IF c \in S THEN "planned" ELSE status[c]]
        BY <4>1 DEF PlanTools
      <4> QED  BY <4>1, <4>2
    <3>2. CASE PauseTurn(r) \/ Compact(r) \/ CutOff(r) \/ EndTurn(r)
      <4>1. PICK pc, attempt, end : SettleTo(r, pc, attempt, end)
        BY <3>2 DEF PauseTurn, Compact, CutOff, EndTurn
      <4>2. status' = status  BY <4>1 DEF SettleTo
      <4>3. \E n \in 0..MaxBlocks, billed \in Reports : Settle(r, n, billed)
        BY <4>1 DEF SettleTo
      <4> QED  BY <4>2, <4>3
    <3> QED  BY <1>5, <3>1, <3>2
  <2>2. PICK n \in 0..MaxBlocks, billed \in Reports : Settle(r, n, billed)  BY <2>1
  <2> DEFINE types == [i \in 1..n |-> "assistant"]
  <2>3. n \in Nat /\ DOMAIN types = 1..n  BY LimitsAssumption
  <2>4. Record(Events(r, types), n)  BY <2>2 DEF Settle, RecordAndShip
  <2> HIDE DEF types
  <2> QED  BY <1>1, <2>1, <2>3, <2>4, AddsEvents
<1> QED  BY <1>3, <1>4, <1>5

LEMMA AddsLoopAnswer ==
  ASSUME TypeOK, SeqInv, Control, Surface, NEW r \in Runs,
         SettleCall(r) \/ \E c \in Calls : RefuseCall(r, c)
  PROVE  \E batch : Adds(batch)
<1>1. PICK c, type :
        /\ c \in Calls
        /\ status[c] # "completed" /\ status' = [status EXCEPT ![c] = "completed"]
        /\ Record(Events(r, <<type>>) \cup {Settlement(r, "tool_result", c, 2)}, 2)
  <2>1. CASE SettleCall(r)
    <3>1. loop[r].pc = "running"  BY <2>1 DEF SettleCall, At
    <3>2. loop[r].call \in Calls /\ status[loop[r].call] # "completed"
      BY <3>1 DEF Control, CallInv, TypeOK
    <3> QED  BY <2>1, <3>2 DEF SettleCall, WithCallStatus
  <2>2. CASE \E c \in Calls : RefuseCall(r, c)
    BY <2>2 DEF RefuseCall, WithCallStatus
  <2> QED  BY <2>1, <2>2
<1>2. loop[r].pc \in {"calls", "running"}  BY DEF SettleCall, RefuseCall, At
<1>3. phase[r] = "tools"  BY <1>2 DEF Control, PhaseInv, PhaseAt
<1>4. DOMAIN <<type>> = 1..1  BY OneType
<1>5. \A e \in Events(r, <<type>>) : e.run = r /\ e.settles = None /\ ~Duplicate(e)
  BY <1>2, <1>4, EventsAreNew
<1> QED  BY <1>1, <1>3, <1>5, AddsAnswer

LEMMA AddsRecovery ==
  ASSUME TypeOK, SeqInv, Control, Surface, NEW r \in Runs, RecoveryStep(r)
  PROVE  \E batch : Adds(batch)
<1>1. CASE RecoverUncertain(r)
  <2> DEFINE x == Settlement(r, "run_interrupted", reqkey[r], 1)
  <2>1. x.run = r /\ x.seq = 0 /\ x.settles = reqkey[r]  BY DEF Settlement
  <2>2. Record({x}, 1) /\ status' = status /\ phase[r] = "request_pending" /\ phase'[r] = "terminal"
    BY <1>1 DEF RecoverUncertain, SetPhase, TypeOK
  <2> HIDE DEF x
  <2>3. reqkey[r] = None \/ reqkey[r] \in Nat \X Nat  BY DEF TypeOK
  <2>4. \A f \in entries : f.run = r => f.settles \notin Nat \X Nat
    BY <2>2 DEF Surface, KeyInv
  <2>5. ~Duplicate(x)
    <3> SUFFICES ASSUME NEW f \in entries, f.run = r, reqkey[r] # None,
                        KeyOf(f.settles) = KeyOf(reqkey[r])
                 PROVE  FALSE
      BY <2>1 DEF Duplicate
    <3>1. reqkey[r] \in Nat \X Nat /\ KeyOf(reqkey[r]) = reqkey[r]
      BY <2>3, CallsAssumption DEF KeyOf
    <3>2. f.settles \in Calls => KeyOf(f.settles) \notin Nat \X Nat
      BY CallsAssumption DEF KeyOf
    <3>3. f.settles = reqkey[r]  BY <3>1, <3>2 DEF KeyOf
    <3> QED  BY <2>4, <3>1, <3>3
  <2>6. entries' = entries \cup {x} /\ lost' = lost  BY <2>2, <2>5, AllRecorded
  <2>7. Adds({x})  BY <2>1, <2>2, <2>3, <2>6, CallsAssumption DEF Adds
  <2> QED  BY <2>7
<1>2. CASE PickRun(r) \/ RecoverResume(r) \/ RecoverTools(r)
  BY <1>2, AddsNothing DEF PickRun, RecoverResume, RecoverTools, recordVars
<1>3. ASSUME NEW c \in Calls, RecoverExecute(r, c) PROVE \E batch : Adds(batch)
  BY <1>3, AddsNothing DEF RecoverExecute, recordVars
<1>4. ASSUME NEW c \in Calls, RecoverSynthesize(r, c) \/ RecoverAnswer(r, c)
      PROVE  \E batch : Adds(batch)
  <2>1. status[c] # "completed" /\ phase[r] = "tools" /\ AnswerInRecovery(r, c)
    BY <1>4, RecoveredCall DEF RecoverSynthesize, RecoverAnswer
  <2> DEFINE none == {}
  <2>2. Record(none \cup {Settlement(r, "tool_result", c, 1)}, 1)
    BY <2>1 DEF AnswerInRecovery
  <2>3. status' = [status EXCEPT ![c] = "completed"]
    BY <2>1 DEF AnswerInRecovery, WithCallStatus
  <2>4. \A e \in none : e.run = r /\ e.settles = None /\ ~Duplicate(e)  OBVIOUS
  <2> HIDE DEF none
  <2> QED  BY <2>1, <2>2, <2>3, <2>4, AddsAnswer
<1> QED  BY <1>1, <1>2, <1>3, <1>4 DEF RecoveryStep

LEMMA StepAdds ==
  ASSUME TypeOK, SeqInv, Control, Surface, [Next]_vars
  PROVE  \E batch : Adds(batch)
<1>1. CASE UNCHANGED vars \/ Crash \/ Boot \/ BootLocked \/ Serve
  BY <1>1, AddsNothing DEF vars, Crash, Boot, BootLocked, Serve, recordVars
<1>2. ASSUME NEW r \in Runs, ClientStep(r) PROVE \E batch : Adds(batch)
  BY <1>2, AddsStart, AddsNothing DEF ClientStep, Message, Interrupt, recordVars
<1>3. ASSUME NEW r \in Runs, LoopStep(r) PROVE \E batch : Adds(batch)
  <2>1. CASE \/ TurnLimit(r) \/ StopAtBoundary(r) \/ Build(r) \/ StreamFails(r) \/ Finish(r)
             \/ RunTool(r) \/ FinishCalls(r) \/ Close(r)
    BY <2>1, AddsNothing DEF TurnLimit, StopAtBoundary, Build, StreamFails, Finish, RunTool,
                             FinishCalls, Close, recordVars
  <2>2. ASSUME NEW c \in Calls, ClearCall(r, c) PROVE \E batch : Adds(batch)
    <3>1. /\ UNCHANGED <<entries, lost>> /\ status[c] = "planned"
          /\ status' = [status EXCEPT ![c] = "effect_pending"]
      BY <2>2 DEF ClearCall, WithCallStatus
    <3>2. \A d \in Calls : status'[d] = "completed" <=> status[d] = "completed"
      BY <3>1 DEF TypeOK
    <3> QED  BY <3>1, <3>2, AddsNothing
  <2> QED  BY <1>3, <2>1, <2>2, AddsTurn, AddsLoopAnswer DEF LoopStep
<1>4. ASSUME NEW r \in Runs, RecoveryStep(r) PROVE \E batch : Adds(batch)
  BY <1>4, AddsRecovery
<1> QED  BY <1>1, <1>2, <1>3, <1>4 DEF Next

-----------------------------------------------------------------------------
(* The theorems.                                                           *)

LEMMA SurfaceInit == Init => Surface
  BY DEF Init, Surface, AnswerInv, Answers, KeyInv, LostToRepeats

RecordInv == TypeOK /\ SeqInv /\ Control /\ Surface

LEMMA RecordInvInductive == Spec => []RecordInv
<1>1. Init => RecordInv  BY TypeInit, ControlInit, SurfaceInit DEF RecordInv
<1>2. RecordInv /\ [Next]_vars => RecordInv'
  <2> SUFFICES ASSUME RecordInv, [Next]_vars PROVE RecordInv'  OBVIOUS
  <2>1. TypeOK' /\ SeqInv'  BY TypeStep DEF RecordInv
  <2>2. Control'  BY ControlStep DEF RecordInv
  <2>3. Surface'  BY StepAdds, PhasesStep, AddsKeepsSurface DEF RecordInv
  <2> QED  BY <2>1, <2>2, <2>3 DEF RecordInv
<1> QED  BY <1>1, <1>2, PTL DEF Spec

\* Over any number of runs, lanes, turns, follow-ups and crashes, and whatever ids the calls
\* carry, insertEntry skips nothing but the result of a call under an id that an earlier call's
\* result of its run had used: with unrepeated ids it skips nothing.
THEOREM RecordKept == Spec => []LostToRepeats
<1>1. RecordInv => LostToRepeats  BY DEF RecordInv, Surface
<1> QED  BY <1>1, RecordInvInductive, PTL

\* Every completed call has had one result written, a call without one has none, and it is
\* still in the plan of a run in its tool phase.
THEOREM CallsAnsweredOnce == Spec => []EveryCallAnswered
<1>1. RecordInv => EveryCallAnswered
  <2> SUFFICES ASSUME RecordInv, NEW c \in Calls
               PROVE  /\ Cardinality(Answers(c)) = IF status[c] = "completed" THEN 1 ELSE 0
                      /\ status[c] \in {"planned", "effect_pending"}
                           => \E r \in Runs : phase[r] = "tools" /\ c \in plan[r]
    BY DEF EveryCallAnswered
  <2>1. CASE status[c] = "completed"
    <3>1. PICK e : Answers(c) = {e}  BY <2>1 DEF RecordInv, Surface, AnswerInv
    <3> QED  BY <2>1, <3>1, FS_Singleton
  <2>2. CASE status[c] # "completed"
    <3>1. Cardinality(Answers(c)) = 0  BY <2>2, FS_EmptySet DEF RecordInv, Surface, AnswerInv
    <3>2. status[c] \in {"planned", "effect_pending"}
            => \E r \in Runs : phase[r] = "tools" /\ c \in plan[r]
      BY DEF RecordInv, Control, PlanInv
    <3> QED  BY <2>2, <3>1, <3>2
  <2> QED  BY <2>1, <2>2
<1> QED  BY <1>1, RecordInvInductive, PTL

\* Nothing a run, another lane, a late tool or a recovery does adds to a run that has ended.
THEOREM EndedRunsStay == Spec => TerminalIsFinal
<1>1. RecordInv /\ [Next]_vars =>
        [\A r \in Runs : phase[r] = "terminal" =>
           /\ phase'[r] = "terminal"
           /\ {e \in entries' : e.run = r} = {e \in entries : e.run = r}]_vars
  <2> SUFFICES ASSUME RecordInv, [Next]_vars, NEW r \in Runs, phase[r] = "terminal"
               PROVE  /\ phase'[r] = "terminal"
                      /\ {e \in entries' : e.run = r} = {e \in entries : e.run = r}
    OBVIOUS
  <2>1. phase'[r] = "terminal"  BY PhasesStep DEF RecordInv, PhasesStay
  <2>2. PICK batch : Adds(batch)  BY StepAdds DEF RecordInv
  <2>3. \A e \in batch : e.run # r  BY <2>2 DEF Adds
  <2>4. entries \subseteq entries' /\ entries' \subseteq entries \cup batch  BY <2>2 DEF Adds
  <2> QED  BY <2>1, <2>3, <2>4
<1> QED  BY <1>1, RecordInvInductive, PTL DEF Spec, TerminalIsFinal

-----------------------------------------------------------------------------
(* Starts.  A recovery given a `reexecute` starts planned calls unmarked,   *)
(* but it meets no live loop: what a live loop has planned was not started. *)

StartInv ==
  /\ \A c \in Calls : status[c] = "unused" => effects[c] = 0
  /\ \A r \in Runs : loop[r].pc # "idle" =>
       \A c \in plan[r] : status[c] = "planned" => effects[c] = 0
  /\ \A r \in Runs : loop[r].pc = "marked" => effects[loop[r].call] = 0

\* A step that starts no tool and plans none.
LEMMA StartQuiet ==
  ASSUME TypeOK, StartInv, UNCHANGED effects,
         \A r \in Runs : plan'[r] \subseteq plan[r],
         \A c \in Calls : status'[c] \in {"planned", "unused"} => status'[c] = status[c],
         \A r \in Runs : loop'[r].pc # "idle" => loop[r].pc # "idle" \/ plan[r] = {},
         \A r \in Runs : loop'[r].pc = "marked" =>
           \/ loop[r].pc = "marked" /\ loop'[r].call = loop[r].call
           \/ effects[loop'[r].call] = 0
  PROVE  StartInv'
<1>1. \A c \in Calls : status'[c] = "unused" => effects'[c] = 0  BY DEF StartInv
<1>2. ASSUME NEW r \in Runs, loop'[r].pc # "idle", NEW c \in plan'[r], status'[c] = "planned"
      PROVE  effects'[c] = 0
  <2>1. c \in plan[r] /\ c \in Calls  BY <1>2 DEF TypeOK
  <2> QED  BY <1>2, <2>1 DEF StartInv
<1>3. \A r \in Runs : loop'[r].pc = "marked" => effects'[loop'[r].call] = 0
  BY DEF StartInv
<1> QED  BY <1>1, <1>2, <1>3 DEF StartInv

LEMMA StartClient ==
  ASSUME TypeOK, Control, StartInv, NEW r \in Runs, ClientStep(r)
  PROVE  StartInv'
<1>1. loop \in [Runs -> Loops] /\ loop[r] \in Loops  BY DEF TypeOK
<1>2. UNCHANGED <<effects, plan, status>>
  BY DEF ClientStep, Start, Message, Interrupt, recordVars, pastVars
<1>3. \A q \in Runs : q # r => loop'[q] = loop[q]
  BY <1>1 DEF ClientStep, Start, Message, Interrupt, Becomes
<1>4. CASE Start(r)
  <2>1. phase[r] = "absent" /\ loop'[r].pc = "turn"
    BY <1>1, <1>4 DEF Start, Becomes, Idle
  <2>2. plan[r] = {}  BY <2>1 DEF Control, PlanInv, TypeOK
  <2> QED  BY <1>2, <1>3, <2>1, <2>2, StartQuiet
<1>5. CASE Message(r) \/ Interrupt(r)
  <2>1. loop'[r].pc = loop[r].pc /\ loop'[r].call = loop[r].call
    BY <1>1, <1>5 DEF Message, Interrupt, Becomes, Loops
  <2> QED  BY <1>2, <1>3, <2>1, StartQuiet
<1> QED  BY <1>4, <1>5 DEF ClientStep

\* The loop's steps around the calls of a turn.
LEMMA StartPlans ==
  ASSUME TypeOK, Control, StartInv, NEW r \in Runs, DispatchTools(r)
  PROVE  StartInv'
<1>1. PICK S \in SUBSET {c \in Calls : status[c] = "unused"}, n \in 0..MaxBlocks,
           billed \in Reports :
        /\ Settle(r, n, billed) /\ PlanTools(r, S)
        /\ Becomes(r, [loop[r] EXCEPT !.pc = "calls", !.seq = @ + n])
  BY DEF DispatchTools, Askable
<1>2. /\ plan' = [plan EXCEPT ![r] = S] /\ effects' = effects
      /\ status' = [c \in Calls |-> IF c \in S THEN "planned" ELSE status[c]]
  BY <1>1 DEF PlanTools, Settle
<1>3. loop'[r].pc = "calls" /\ \A q \in Runs : q # r => loop'[q] = loop[q]
  BY <1>1 DEF TypeOK, Becomes, Loops
<1>4. \A q \in Runs : plan'[q] = (IF q = r THEN S ELSE plan[q])  BY <1>2 DEF TypeOK
<1>5. \A q \in Runs : \A c \in plan[q] : c \in Calls /\ c \notin S
  BY DEF TypeOK, Control, PlanInv
<1>6. \A c \in S : effects[c] = 0  BY DEF StartInv
<1>7. ASSUME NEW q \in Runs, loop'[q].pc # "idle", NEW c \in plan'[q], status'[c] = "planned"
      PROVE  effects'[c] = 0
  <2>1. CASE q = r  BY <1>2, <1>4, <1>6, <1>7, <2>1
  <2>2. CASE q # r
    <3>1. c \in plan[q] /\ status'[c] = status[c] /\ loop[q].pc # "idle"
      BY <1>2, <1>3, <1>4, <1>5, <1>7, <2>2
    <3> QED  BY <1>2, <1>7, <3>1 DEF StartInv
  <2> QED  BY <2>1, <2>2
<1>8. \A c \in Calls : status'[c] = "unused" => effects'[c] = 0  BY <1>2 DEF StartInv
<1>9. \A q \in Runs : loop'[q].pc = "marked" => effects'[loop'[q].call] = 0
  BY <1>2, <1>3 DEF StartInv
<1> QED  BY <1>7, <1>8, <1>9 DEF StartInv

LEMMA StartCalls ==
  ASSUME TypeOK, Control, StartInv, NEW r \in Runs,
         NEW c \in Calls, RefuseCall(r, c) \/ ClearCall(r, c)
  PROVE  StartInv'
<1>1. loop \in [Runs -> Loops] /\ loop[r] \in Loops  BY DEF TypeOK
<1>2. UNCHANGED <<effects, plan>> /\ \A q \in Runs : q # r => loop'[q] = loop[q]
  BY <1>1 DEF RefuseCall, ClearCall, Becomes, pastVars
<1>3. loop[r].pc = "calls" /\ c \in plan[r] /\ status[c] = "planned"
  BY DEF RefuseCall, ClearCall, At
<1>4. effects[c] = 0  BY <1>3 DEF StartInv
<1>5. \A d \in Calls : status'[d] \in {"planned", "unused"} => status'[d] = status[d]
  BY DEF TypeOK, RefuseCall, ClearCall, WithCallStatus
<1>6. loop'[r].pc = "marked" => effects[loop'[r].call] = 0
  <2>1. CASE RefuseCall(r, c)  BY <1>1, <1>3, <2>1 DEF RefuseCall, Becomes, Loops
  <2>2. CASE ClearCall(r, c)  BY <1>1, <1>4, <2>2 DEF ClearCall, Becomes, Loops
  <2> QED  BY <2>1, <2>2
<1> QED  BY <1>2, <1>3, <1>5, <1>6, StartQuiet

LEMMA StartRunTool ==
  ASSUME TypeOK, Control, StartInv, NEW r \in Runs, RunTool(r)
  PROVE  StartInv' /\ effects[loop[r].call] = 0
<1> DEFINE c == loop[r].call
<1>1. loop[r].pc = "marked"  BY DEF RunTool, At
<1>2. c \in plan[r] /\ c \in Calls /\ status[c] = "effect_pending" /\ effects[c] = 0
  BY <1>1 DEF TypeOK, Control, CallInv, StartInv
<1>3. UNCHANGED <<status, plan>> /\ effects' = [effects EXCEPT ![c] = @ + 1]
  BY DEF RunTool, recordVars
<1>4. loop'[r].pc = "running" /\ \A q \in Runs : q # r => loop'[q] = loop[q]
  BY DEF RunTool, GoesTo, Becomes, TypeOK, Loops
<1>5. \A d \in Calls : d # c => effects'[d] = effects[d]  BY <1>3 DEF TypeOK
<1> HIDE DEF c
<1>6. \A d \in Calls : status'[d] = "unused" => effects'[d] = 0
  BY <1>2, <1>3, <1>5 DEF StartInv
<1>7. ASSUME NEW q \in Runs, loop'[q].pc # "idle", NEW d \in plan'[q], status'[d] = "planned"
      PROVE  effects'[d] = 0
  <2>1. d \in plan[q] /\ d \in Calls /\ status[d] = "planned" /\ loop[q].pc # "idle"
    BY <1>1, <1>3, <1>4, <1>7 DEF TypeOK
  <2>2. d # c  BY <1>2, <2>1
  <2> QED  BY <1>5, <2>1, <2>2 DEF StartInv
<1>8. ASSUME NEW q \in Runs, loop'[q].pc = "marked" PROVE effects'[loop'[q].call] = 0
  <2>1. q # r /\ loop'[q] = loop[q]  BY <1>4, <1>8
  <2>2. loop[q].call \in plan[q] /\ loop[q].call \in Calls /\ effects[loop[q].call] = 0
    BY <1>8, <2>1 DEF TypeOK, Control, CallInv, StartInv
  <2>3. loop[q].call # c  BY <1>2, <2>1, <2>2 DEF Control, PlanInv
  <2> QED  BY <1>5, <2>1, <2>2, <2>3
<1> QED  BY <1>2, <1>6, <1>7, <1>8 DEF StartInv, c

LEMMA StartLoop ==
  ASSUME TypeOK, Control, StartInv, NEW r \in Runs, LoopStep(r)
  PROVE  StartInv'
<1>1. loop \in [Runs -> Loops] /\ loop[r] \in Loops /\ plan \in [Runs -> SUBSET Calls]
  BY DEF TypeOK
<1>2. CASE \/ TurnLimit(r) \/ StopAtBoundary(r) \/ Build(r) \/ Finish(r) \/ Refuse(r)
           \/ Intent(r) \/ StreamFails(r) \/ FollowUps(r) \/ Terminate(r) \/ FinishCalls(r)
  <2>1. /\ UNCHANGED <<effects, status>> /\ loop'[r].pc # "marked"
        /\ \A q \in Runs : q # r => loop'[q] = loop[q]
    BY <1>2, EffectPlain
  <2>2. \A q \in Runs : plan'[q] \subseteq plan[q]
    BY <1>1, <1>2 DEF TurnLimit, StopAtBoundary, Build, Finish, Refuse, Intent, StreamFails,
                      FollowUps, Terminate, FinishCalls, recordVars
  <2>3. loop[r].pc # "idle"
    BY <1>2 DEF TurnLimit, StopAtBoundary, Build, Finish, Refuse, Intent, StreamFails,
                FollowUps, Terminate, FinishCalls, At
  <2> QED  BY <2>1, <2>2, <2>3, StartQuiet
<1>3. CASE Close(r)
  <2>1. UNCHANGED <<effects, status, plan>>  BY <1>3 DEF Close, pastVars
  <2>2. loop'[r].pc = "idle" /\ \A q \in Runs : q # r => loop'[q] = loop[q]
    BY <1>1, <1>3 DEF Close, Becomes, Idle
  <2> QED  BY <2>1, <2>2, StartQuiet
<1>4. CASE PauseTurn(r) \/ Compact(r) \/ CutOff(r) \/ EndTurn(r)
  <2>1. PICK pc \in {"turn", "ending", "stopped"} :
          \E attempt, end : SettleTo(r, pc, attempt, end)
    BY <1>4 DEF PauseTurn, Compact, CutOff, EndTurn
  <2>2. PICK attempt, end : SettleTo(r, pc, attempt, end)  BY <2>1
  <2>3. PICK n, billed :
          /\ Settle(r, n, billed)
          /\ Becomes(r, [loop[r] EXCEPT !.pc = pc, !.seq = @ + n, !.attempt = attempt,
                                        !.end = end])
    BY <2>2 DEF SettleTo
  <2>4. UNCHANGED <<effects, status, plan>>  BY <2>2, <2>3 DEF Settle, SettleTo
  <2>5. loop'[r].pc = pc /\ \A q \in Runs : q # r => loop'[q] = loop[q]
    BY <1>1, <2>3 DEF Becomes, Loops
  <2>6. loop[r].pc # "idle"  BY <1>4 DEF PauseTurn, Compact, CutOff, EndTurn, At
  <2> QED  BY <2>4, <2>5, <2>6, StartQuiet
<1>5. CASE SettleCall(r)
  <2>1. UNCHANGED <<effects, plan>> /\ status' = [status EXCEPT ![loop[r].call] = "completed"]
    BY <1>5 DEF SettleCall, pastVars, WithCallStatus
  <2>2. \A d \in Calls : status'[d] \in {"planned", "unused"} => status'[d] = status[d]
    BY <2>1 DEF TypeOK
  <2>3. loop'[r].pc = "calls" /\ \A q \in Runs : q # r => loop'[q] = loop[q]
    BY <1>1, <1>5 DEF SettleCall, Becomes, Loops
  <2>4. loop[r].pc # "idle"  BY <1>5 DEF SettleCall, At
  <2> QED  BY <2>1, <2>2, <2>3, <2>4, StartQuiet
<1> QED  BY <1>2, <1>3, <1>4, <1>5, StartPlans, StartCalls, StartRunTool DEF LoopStep

LEMMA StartRecovery ==
  ASSUME TypeOK, Control, StartInv, NEW r \in Runs, RecoveryStep(r)
  PROVE  StartInv'
<1>1. mode = "recovering" /\ loop \in [Runs -> Loops]
  BY DEF RecoveryStep, PickRun, RecoverResume, RecoverUncertain, RecoverTools,
         RecoverSynthesize, RecoverExecute, RecoverAnswer, Recovering, TypeOK
<1>2. \A q \in Runs : loop'[q].pc = "idle" /\ loop[q].pc = "idle"
  <2>1. \A q \in Runs : loop'[q].pc = loop[q].pc
    BY <1>1 DEF RecoveryStep, PickRun, RecoverResume, RecoverUncertain, RecoverTools,
         RecoverSynthesize, RecoverExecute, RecoverAnswer, Becomes, Loops
  <2> QED  BY <1>1, <2>1 DEF Control, HostInv
<1>3. \A c \in Calls : status'[c] = "unused" => status[c] = "unused" /\ effects'[c] = effects[c]
  <2>1. CASE PickRun(r) \/ RecoverResume(r) \/ RecoverUncertain(r) \/ RecoverTools(r)
    BY <2>1 DEF PickRun, RecoverResume, RecoverUncertain, RecoverTools, recordVars, pastVars
  <2>2. ASSUME NEW d \in Calls, RecoverSynthesize(r, d) \/ RecoverAnswer(r, d)
        PROVE  \A c \in Calls : status'[c] = "unused" => status[c] = "unused" /\ effects'[c] = effects[c]
    <3>1. status' = [status EXCEPT ![d] = "completed"] /\ effects' = effects
      BY <2>2 DEF RecoverSynthesize, RecoverAnswer, AnswerInRecovery, WithCallStatus, pastVars
    <3> QED  BY <3>1 DEF TypeOK
  <2>3. ASSUME NEW d \in Calls, RecoverExecute(r, d)
        PROVE  \A c \in Calls : status'[c] = "unused" => status[c] = "unused" /\ effects'[c] = effects[c]
    <3>1. effects' = [effects EXCEPT ![d] = @ + 1] /\ status' = status
      BY <2>3 DEF RecoverExecute, recordVars
    <3>2. status[d] # "unused"
      BY <2>3, RecoveredCall DEF RecoverExecute, Control, PlanInv
    <3> QED  BY <3>1, <3>2 DEF TypeOK
  <2> QED  BY <2>1, <2>2, <2>3 DEF RecoveryStep
<1> QED  BY <1>2, <1>3 DEF StartInv

LEMMA StartStep ==
  ASSUME TypeOK, Control, StartInv, [Next]_vars
  PROVE  StartInv'
<1>1. CASE UNCHANGED vars
  BY <1>1, StartQuiet DEF vars, recordVars, pastVars
<1>2. CASE Crash \/ Boot \/ BootLocked \/ Serve
  <2>1. UNCHANGED <<effects, status, plan>>
    BY <1>2 DEF Crash, Boot, BootLocked, Serve, recordVars, pastVars
  <2>2. \A q \in Runs : loop'[q] = loop[q] \/ loop'[q].pc = "idle"
    BY <1>2 DEF Crash, Boot, BootLocked, Serve, Idle
  <2> QED  BY <2>1, <2>2, StartQuiet
<1> QED  BY <1>1, <1>2, StartClient, StartLoop, StartRecovery DEF Next

\* The only steps that start a tool.
LEMMA WhoStarts ==
  ASSUME TypeOK, Control, StartInv, [Next]_vars, NEW c \in Calls, effects'[c] > effects[c],
         effects[c] > 0, replay[c] = "never"
  PROVE  mode = "recovering" /\ status[c] = "planned"
<1>1. effects \in [Calls -> Nat] /\ effects'[c] # effects[c]  BY DEF TypeOK
<1>2. CASE \E r \in Runs : RunTool(r)
  <2>1. PICK r \in Runs : RunTool(r)  BY <1>2
  <2>2. effects[loop[r].call] = 0  BY <2>1, StartRunTool
  <2>3. effects' = [effects EXCEPT ![loop[r].call] = @ + 1]  BY <2>1 DEF RunTool
  <2> QED  BY <1>1, <2>2, <2>3
<1>3. CASE \E r \in Runs : \E d \in Calls : RecoverExecute(r, d)
  <2>1. PICK r \in Runs, d \in Calls : RecoverExecute(r, d)  BY <1>3
  <2>2. effects' = [effects EXCEPT ![d] = @ + 1] /\ d \in Owed(r) /\ mode = "recovering"
    BY <2>1 DEF RecoverExecute, Recovering
  <2>3. d = c  BY <1>1, <2>2
  <2> QED  BY <2>2, <2>3 DEF Owed, Planned, Pending
<1>4. CASE /\ ~\E r \in Runs : RunTool(r)
           /\ ~\E r \in Runs : \E d \in Calls : RecoverExecute(r, d)
  <2>1. effects' = effects
    <3>1. CASE UNCHANGED vars \/ Crash \/ Boot \/ BootLocked \/ Serve
      BY <3>1 DEF vars, Crash, Boot, BootLocked, Serve, pastVars
    <3>2. ASSUME NEW r \in Runs, ClientStep(r) PROVE effects' = effects
      BY <3>2 DEF ClientStep, Start, Message, Interrupt, pastVars
    <3>3. ASSUME NEW r \in Runs, LoopStep(r) PROVE effects' = effects
      <4>1. CASE \/ TurnLimit(r) \/ StopAtBoundary(r) \/ Build(r) \/ Finish(r) \/ Refuse(r)
                 \/ Intent(r) \/ StreamFails(r) \/ FollowUps(r) \/ Terminate(r)
                 \/ FinishCalls(r) \/ Close(r) \/ SettleCall(r)
        BY <4>1, ZenonT(60) DEF TurnLimit, StopAtBoundary, Build, Finish, Refuse, Intent, StreamFails,
                    FollowUps, Terminate, FinishCalls, Close, SettleCall, pastVars
      <4>2. CASE PauseTurn(r) \/ Compact(r) \/ CutOff(r) \/ EndTurn(r) \/ DispatchTools(r)
        BY <4>2 DEF PauseTurn, Compact, CutOff, EndTurn, DispatchTools, SettleTo, Settle
      <4>3. CASE \E d \in Calls : RefuseCall(r, d) \/ ClearCall(r, d)
        BY <4>3 DEF RefuseCall, ClearCall, pastVars
      <4> QED  BY <1>4, <3>3, <4>1, <4>2, <4>3 DEF LoopStep
    <3>4. ASSUME NEW r \in Runs, RecoveryStep(r) PROVE effects' = effects
      BY <1>4, <3>4 DEF RecoveryStep, PickRun, RecoverResume, RecoverUncertain, RecoverTools,
                        RecoverSynthesize, RecoverAnswer, AnswerInRecovery, pastVars
    <3> QED  BY <3>1, <3>2, <3>3, <3>4 DEF Next
  <2> QED  BY <1>1, <2>1
<1> QED  BY <1>2, <1>3, <1>4

\* Whatever recovery is given, the loop starts a call once, and recovery starts a call that
\* must not be replayed only while its mark says that it never began.
THEOREM StartsAreOnce == Spec => NeverRestarted
<1> DEFINE Inv == TypeOK /\ SeqInv /\ Control /\ StartInv
<1>1. Init => Inv
  <2>1. Init => StartInv  BY DEF Init, StartInv, Idle
  <2> QED  BY <2>1, TypeInit, ControlInit
<1>2. Inv /\ [Next]_vars => Inv'
  BY TypeStep, ControlStep, StartStep
<1>3. Inv /\ [Next]_vars =>
        [\A c \in Calls :
           replay[c] = "never" /\ effects[c] > 0 /\ effects'[c] > effects[c]
             => mode = "recovering" /\ status[c] = "planned"]_vars
  BY WhoStarts
<1> HIDE DEF Inv
<1> QED  BY <1>1, <1>2, <1>3, PTL DEF Spec, NeverRestarted

-----------------------------------------------------------------------------
(* Recovery before serving.  A restart that passes over a session whose lock *)
(* is still fresh serves it unrecovered: its unfinished runs are `skipped`.  *)

Unsettled(r) == phase[r] \in {"request_pending", "tools"}

RecoverInv ==
  /\ mode = "serving" => \A r \in Runs \ skipped : Unsettled(r) => loop[r].pc # "idle"
  /\ mode = "recovering" => \A r \in Runs : Unsettled(r) => r \in todo \/ r = current

\* A step of a live loop: only the last one forgets the run, and that one has ended.
LEMMA RecoverMove ==
  ASSUME RecoverInv, NEW r \in Runs, mode = "serving", UNCHANGED <<mode, skipped>>,
         \A q \in Runs : q # r => loop'[q] = loop[q] /\ phase'[q] = phase[q],
         loop'[r].pc # "idle" \/ phase'[r] = "terminal"
  PROVE  RecoverInv'
  BY DEF RecoverInv, Unsettled

LEMMA RecoverLoopMove ==
  ASSUME TypeOK, Control, NEW r \in Runs, ClientStep(r) \/ LoopStep(r)
  PROVE  /\ mode = "serving" /\ UNCHANGED <<mode, skipped>>
         /\ \A q \in Runs : q # r => loop'[q] = loop[q] /\ phase'[q] = phase[q]
         /\ loop'[r].pc # "idle" \/ phase'[r] = "terminal"
<1>1. loop \in [Runs -> Loops] /\ loop[r] \in Loops /\ phase \in [Runs -> Phases]
  BY DEF TypeOK
<1>2. CASE Start(r)
  <2>1. mode = "serving" /\ UNCHANGED <<mode, skipped>> /\ phase' = [phase EXCEPT ![r] = "checkpoint"]
    BY <1>2 DEF Start, SetPhase, hostVars
  <2>2. loop'[r].pc = "turn" /\ \A q \in Runs : q # r => loop'[q] = loop[q]
    BY <1>1, <1>2 DEF Start, Becomes, Idle
  <2> QED  BY <1>1, <2>1, <2>2
<1>3. CASE \/ Message(r) \/ Interrupt(r) \/ TurnLimit(r) \/ StopAtBoundary(r) \/ Build(r)
           \/ Finish(r) \/ RunTool(r)
  <2>1. mode = "serving" /\ UNCHANGED <<mode, skipped>> /\ phase' = phase
    BY <1>3 DEF Message, Interrupt, TurnLimit, StopAtBoundary, Build, Finish, RunTool, At, Live,
                hostVars, recordVars
  <2>2. CASE Message(r) \/ Interrupt(r)
    <3>1. loop'[r].pc = loop[r].pc /\ \A q \in Runs : q # r => loop'[q] = loop[q]
      BY <1>1, <2>2 DEF Message, Interrupt, Becomes, Loops
    <3> QED  BY <2>1, <2>2, <3>1 DEF Message, Interrupt, Live
  <2>3. ASSUME TurnLimit(r) \/ StopAtBoundary(r) \/ Build(r) \/ Finish(r) \/ RunTool(r)
        PROVE  loop'[r].pc \in {"ending", "gate", "running"} /\ \A q \in Runs : q # r => loop'[q] = loop[q]
    <3>1. CASE TurnLimit(r)  BY <1>1, <3>1 DEF TurnLimit, EndsAs, Becomes, Loops
    <3>2. CASE StopAtBoundary(r)  BY <1>1, <3>2 DEF StopAtBoundary, EndsAs, Becomes, Loops
    <3>3. CASE Build(r)  BY <1>1, <3>3 DEF Build, Becomes, Loops
    <3>4. CASE Finish(r)  BY <1>1, <3>4 DEF Finish, EndsAs, Becomes, Loops
    <3>5. CASE RunTool(r)  BY <1>1, <3>5 DEF RunTool, GoesTo, Becomes, Loops
    <3> QED  BY <2>3, <3>1, <3>2, <3>3, <3>4, <3>5
  <2> QED  BY <1>3, <2>1, <2>2, <2>3
<1>4. CASE Refuse(r) \/ FollowUps(r) \/ Terminate(r)
  <2>1. mode = "serving" /\ UNCHANGED <<mode, skipped>>
    BY <1>4 DEF Refuse, FollowUps, Terminate, At, hostVars
  <2>2. \A q \in Runs : q # r => phase'[q] = phase[q]
    BY <1>1, <1>4 DEF Refuse, FollowUps, Terminate, SetPhase
  <2>3. loop'[r].pc \in {"ending", "turn", "closing"} /\ \A q \in Runs : q # r => loop'[q] = loop[q]
    <3>1. CASE Refuse(r)  BY <1>1, <3>1 DEF Refuse, Becomes, Loops
    <3>2. CASE FollowUps(r)  BY <1>1, <3>2 DEF FollowUps, Becomes, Loops
    <3>3. CASE Terminate(r)  BY <1>1, <3>3 DEF Terminate, Becomes, Loops
    <3> QED  BY <1>4, <3>1, <3>2, <3>3
  <2> QED  BY <2>1, <2>2, <2>3
<1>5. CASE Intent(r)
  BY <1>1, <1>5 DEF Intent, CommitRequestIntent, At, SetPhase, Becomes, Loops, hostVars
<1>6. CASE StreamFails(r)
  <2>1. PICK n \in 0..MaxBlocks :
          Becomes(r, [loop[r] EXCEPT !.pc = "ending", !.seq = @ + n + 1,
                        !.end = IF loop[r].aborted THEN "interrupted" ELSE "failed"])
    BY <1>6 DEF StreamFails
  <2> QED  BY <1>1, <1>6, <2>1 DEF StreamFails, At, Becomes, Loops, hostVars, recordVars
<1>7. CASE DispatchTools(r)
  <2>1. PICK n \in 0..MaxBlocks, billed \in Reports :
          /\ Settle(r, n, billed)
          /\ Becomes(r, [loop[r] EXCEPT !.pc = "calls", !.seq = @ + n])
    BY <1>7 DEF DispatchTools
  <2>2. loop'[r].pc = "calls" /\ \A q \in Runs : q # r => loop'[q] = loop[q]
    BY <1>1, <2>1 DEF Becomes, Loops
  <2>3. mode = "serving" /\ UNCHANGED <<mode, skipped>>  BY <1>7, <2>1 DEF DispatchTools, At, Settle, hostVars
  <2>4. phase' = [phase EXCEPT ![r] = "tools"]  BY <1>7 DEF DispatchTools, SetPhase
  <2> QED  BY <1>1, <2>2, <2>3, <2>4
<1>8. CASE PauseTurn(r) \/ Compact(r) \/ CutOff(r) \/ EndTurn(r)
  <2>1. PICK pc \in {"turn", "ending", "stopped"} :
          \E attempt, end : SettleTo(r, pc, attempt, end)
    BY <1>8 DEF PauseTurn, Compact, CutOff, EndTurn
  <2>2. PICK attempt, end : SettleTo(r, pc, attempt, end)  BY <2>1
  <2>3. PICK n, billed :
          /\ Settle(r, n, billed)
          /\ Becomes(r, [loop[r] EXCEPT !.pc = pc, !.seq = @ + n, !.attempt = attempt,
                                        !.end = end])
    BY <2>2 DEF SettleTo
  <2>4. loop'[r].pc = pc /\ \A q \in Runs : q # r => loop'[q] = loop[q]
    BY <1>1, <2>3 DEF Becomes, Loops
  <2>5. mode = "serving" /\ UNCHANGED <<mode, skipped>>
    BY <1>8, <2>3 DEF PauseTurn, Compact, CutOff, EndTurn, At, Settle, hostVars
  <2>6. phase' = [phase EXCEPT ![r] = "checkpoint"]  BY <2>2 DEF SettleTo, SetPhase
  <2> QED  BY <1>1, <2>4, <2>5, <2>6
<1>9. ASSUME NEW c \in Calls, RefuseCall(r, c) \/ ClearCall(r, c)
      PROVE  /\ mode = "serving" /\ UNCHANGED <<mode, skipped>>
             /\ \A q \in Runs : q # r => loop'[q] = loop[q] /\ phase'[q] = phase[q]
             /\ loop'[r].pc # "idle" \/ phase'[r] = "terminal"
  BY <1>1, <1>9 DEF RefuseCall, ClearCall, At, Becomes, Loops, hostVars
<1>10. CASE SettleCall(r)
  BY <1>1, <1>10 DEF SettleCall, At, Becomes, Loops, hostVars
<1>11. CASE FinishCalls(r)
  <2>1. \/ Becomes(r, [loop[r] EXCEPT !.pc = "ending", !.end = "failed"])
        \/ Becomes(r, [loop[r] EXCEPT !.pc = "turn", !.attempt = 0])
    BY <1>11 DEF FinishCalls, EndsAs
  <2>2. loop'[r].pc \in {"ending", "turn"} /\ \A q \in Runs : q # r => loop'[q] = loop[q]
    <3>1. CASE Becomes(r, [loop[r] EXCEPT !.pc = "ending", !.end = "failed"])
      BY <1>1, <3>1 DEF Becomes, Loops
    <3>2. CASE Becomes(r, [loop[r] EXCEPT !.pc = "turn", !.attempt = 0])
      BY <1>1, <3>2 DEF Becomes, Loops
    <3> QED  BY <2>1, <3>1, <3>2
  <2>3. /\ mode = "serving" /\ UNCHANGED <<mode, skipped>>
        /\ \A q \in Runs : q # r => phase'[q] = phase[q]
    BY <1>1, <1>11 DEF FinishCalls, At, SetPhase, hostVars
  <2> QED  BY <2>2, <2>3
<1>12. CASE Close(r)
  <2>1. phase[r] = "terminal"  BY <1>12 DEF Close, At, Control, PhaseInv, PhaseAt
  <2> QED  BY <1>1, <1>12, <2>1 DEF Close, At, Becomes, hostVars
<1> QED  BY <1>2, <1>3, <1>4, <1>5, <1>6, <1>7, <1>8, <1>9, <1>10, <1>11, <1>12
         DEF ClientStep, LoopStep

LEMMA RecoverRecovery ==
  ASSUME TypeOK, RecoverInv, NEW r \in Runs, RecoveryStep(r)
  PROVE  RecoverInv'
<1>1. mode = "recovering" /\ mode' = mode
  BY DEF RecoveryStep, PickRun, RecoverResume, RecoverUncertain, RecoverTools,
         RecoverSynthesize, RecoverExecute, RecoverAnswer, AnswerInRecovery, Recovering,
         Recovered, hostVars
<1>2. CASE PickRun(r)
  <2>1. current = None /\ current' = r /\ todo' = todo \ {r} /\ phase' = phase
    BY <1>2 DEF PickRun, recordVars
  <2>2. \A q \in Runs : Unsettled(q) => q \in todo
    BY <1>1, <2>1, RunsAssumption DEF RecoverInv
  <2>3. \A q \in Runs : Unsettled(q)' => q \in todo' \/ q = current'
    BY <2>1, <2>2 DEF Unsettled
  <2> QED  BY <1>1, <2>3 DEF RecoverInv
<1>3. CASE RecoverResume(r) \/ RecoverUncertain(r) \/ RecoverTools(r)
  <2>1. current = r /\ todo' = todo
    BY <1>3 DEF RecoverResume, RecoverUncertain, RecoverTools, Recovering, Recovered
  <2>2. \A q \in Runs : IF q = r THEN phase'[q] \in {"checkpoint", "terminal"}
                                 ELSE phase'[q] = phase[q]
    BY <1>3 DEF RecoverResume, RecoverUncertain, RecoverTools, SetPhase, recordVars, TypeOK
  <2> QED  BY <1>1, <2>1, <2>2 DEF RecoverInv, Unsettled
<1>4. ASSUME NEW c \in Calls,
             RecoverSynthesize(r, c) \/ RecoverExecute(r, c) \/ RecoverAnswer(r, c)
      PROVE  RecoverInv'
  <2>1. UNCHANGED <<phase, todo, current>>
    BY <1>4 DEF RecoverSynthesize, RecoverExecute, RecoverAnswer, AnswerInRecovery, hostVars,
                recordVars
  <2> QED  BY <1>1, <2>1 DEF RecoverInv, Unsettled
<1> QED  BY <1>2, <1>3, <1>4 DEF RecoveryStep

LEMMA RecoverStep ==
  ASSUME TypeOK, Control, RecoverInv, [Next]_vars
  PROVE  RecoverInv'
<1>1. CASE UNCHANGED vars
  BY <1>1 DEF vars, recordVars, hostVars, RecoverInv, Unsettled
<1>2. CASE Crash  BY <1>2 DEF Crash, RecoverInv
<1>3. CASE Boot
  BY <1>3 DEF Boot, Unfinished, RecoverInv, Unsettled, recordVars
<1>4. CASE BootLocked
  BY <1>4 DEF BootLocked, Unfinished, RecoverInv, Unsettled, recordVars
<1>5. CASE Serve
  <2>1. \A r \in Runs : ~Unsettled(r)
    BY <1>5, RunsAssumption DEF Serve, RecoverInv
  <2> QED  BY <1>5, <2>1 DEF Serve, RecoverInv, Unsettled, recordVars
<1>6. ASSUME NEW r \in Runs, ClientStep(r) \/ LoopStep(r) PROVE RecoverInv'
  BY <1>6, RecoverLoopMove, RecoverMove
<1> QED  BY <1>1, <1>2, <1>3, <1>4, <1>5, <1>6, RecoverRecovery DEF Next

\* Over any number of runs, lanes, crashes and restarts, early ones too: a run with an uncertain
\* request or an unanswered call has a loop at work on it, or is in the hands of a recovery that
\* has not ended, or was unfinished in a session that the last restart passed over.
THEOREM RecoveredFirst == Spec => []RecoveredBeforeServing
<1> DEFINE Inv == TypeOK /\ SeqInv /\ Control /\ RecoverInv
<1>1. Init => Inv
  <2>1. Init => RecoverInv  BY DEF Init, RecoverInv, Unsettled
  <2> QED  BY <2>1, TypeInit, ControlInit
<1>2. Inv /\ [Next]_vars => Inv'
  BY TypeStep, ControlStep, RecoverStep
<1>3. Inv => RecoveredBeforeServing
  BY DEF RecoverInv, Unsettled, RecoveredBeforeServing, Live
<1> HIDE DEF Inv
<1> QED  BY <1>1, <1>2, <1>3, PTL DEF Spec

-----------------------------------------------------------------------------
(* The refinement mapping, by name.                                        *)

RunOf == [r \in Runs |-> IF phase[r] = "absent" THEN "absent"
                         ELSE IF phase[r] = "terminal" THEN "ended" ELSE "open"]

OwedOf == [r \in Runs |-> {c \in plan[r] : status[c] # "completed"}]

BegunOf == {c \in Calls : effects[c] > 0}

AnsweredOf == {c \in Calls : status[c] = "completed"}

LedgerStep == Ledger!Next \/ UNCHANGED Ledger!vars

LEMMA Stutter ==
  ASSUME UNCHANGED <<RunOf, OwedOf, BegunOf, AnsweredOf>>
  PROVE  LedgerStep
  BY DEF LedgerStep, Ledger!vars, RunOf, OwedOf, BegunOf, AnsweredOf

LEMMA Opens ==
  ASSUME NEW r \in Runs, RunOf[r] = "absent", RunOf' = [RunOf EXCEPT ![r] = "open"],
         UNCHANGED <<OwedOf, BegunOf, AnsweredOf>>
  PROVE  LedgerStep
<1>1. Ledger!Open(r)  BY DEF Ledger!Open, RunOf, OwedOf, BegunOf, AnsweredOf
<1> QED  BY <1>1 DEF LedgerStep, Ledger!Next

LEMMA Ends ==
  ASSUME NEW r \in Runs, RunOf[r] = "open", OwedOf[r] = {},
         RunOf' = [RunOf EXCEPT ![r] = "ended"], UNCHANGED <<OwedOf, BegunOf, AnsweredOf>>
  PROVE  LedgerStep
<1>1. Ledger!End(r)  BY DEF Ledger!End, RunOf, OwedOf, BegunOf, AnsweredOf
<1> QED  BY <1>1 DEF LedgerStep, Ledger!Next

LEMMA Plans ==
  ASSUME NEW r \in Runs, NEW S \in SUBSET Calls, RunOf[r] = "open", OwedOf[r] = {},
         \A c \in S : c \notin AnsweredOf /\ \A q \in Runs : c \notin OwedOf[q],
         OwedOf' = [OwedOf EXCEPT ![r] = S], UNCHANGED <<RunOf, BegunOf, AnsweredOf>>
  PROVE  LedgerStep
<1>1. Ledger!Plan(r, S)
  BY DEF Ledger!Plan, Ledger!Fresh, RunOf, OwedOf, BegunOf, AnsweredOf
<1> QED  BY <1>1 DEF LedgerStep, Ledger!Next

LEMMA Begins ==
  ASSUME NEW r \in Runs, NEW c \in Calls, c \in OwedOf[r], c \notin BegunOf,
         BegunOf' = BegunOf \cup {c}, UNCHANGED <<RunOf, OwedOf, AnsweredOf>>
  PROVE  LedgerStep
<1>1. Ledger!Begin(r, c)  BY DEF Ledger!Begin, RunOf, OwedOf, BegunOf, AnsweredOf
<1> QED  BY <1>1 DEF LedgerStep, Ledger!Next

LEMMA Answered ==
  ASSUME NEW r \in Runs, NEW c \in Calls, c \in OwedOf[r],
         OwedOf' = [OwedOf EXCEPT ![r] = @ \ {c}], AnsweredOf' = AnsweredOf \cup {c},
         UNCHANGED <<RunOf, BegunOf>>
  PROVE  LedgerStep
<1>1. Ledger!Answer(r, c)  BY DEF Ledger!Answer, RunOf, OwedOf, BegunOf, AnsweredOf
<1> QED  BY <1>1 DEF LedgerStep, Ledger!Next

-----------------------------------------------------------------------------
(* Kinds of steps.                                                         *)

\* A step that writes neither position nor plan and starts no tool.
LEMMA LedgerQuiet ==
  ASSUME UNCHANGED <<phase, plan, status, effects>>
  PROVE  LedgerStep
  BY Stutter DEF RunOf, OwedOf, BegunOf, AnsweredOf

\* A run that is open and owes nothing moves on.
LEMMA LedgerMoves ==
  ASSUME TypeOK, NEW r \in Runs, NEW p, phase' = [phase EXCEPT ![r] = p],
         p \notin {"absent", "terminal"}, phase[r] \notin {"absent", "terminal"},
         OwedOf' = OwedOf, UNCHANGED <<status, effects>>
  PROVE  LedgerStep
<1>1. RunOf' = RunOf
  <2>1. \A q \in Runs : phase'[q] = (IF q = r THEN p ELSE phase[q])  BY DEF TypeOK
  <2> QED  BY <2>1 DEF RunOf
<1> QED  BY <1>1, Stutter DEF BegunOf, AnsweredOf

LEMMA LedgerEnds ==
  ASSUME TypeOK, Control, NEW r \in Runs, phase' = [phase EXCEPT ![r] = "terminal"],
         phase[r] \in {"checkpoint", "request_pending"}, UNCHANGED <<plan, status, effects>>
  PROVE  LedgerStep
<1>1. plan[r] = {}  BY DEF Control, PlanInv, TypeOK
<1>2. OwedOf[r] = {}  BY <1>1 DEF OwedOf
<1>3. RunOf' = [RunOf EXCEPT ![r] = "ended"] /\ RunOf[r] = "open"
  <2>1. \A q \in Runs : phase'[q] = (IF q = r THEN "terminal" ELSE phase[q])  BY DEF TypeOK
  <2>2. \A q \in Runs : RunOf'[q] = (IF q = r THEN "ended" ELSE RunOf[q])  BY <2>1 DEF RunOf
  <2> QED  BY <2>2 DEF RunOf
<1> QED  BY <1>2, <1>3, Ends DEF OwedOf, BegunOf, AnsweredOf

\* A call of the run's plan gets its result.
LEMMA LedgerAnswers ==
  ASSUME TypeOK, Control, NEW r \in Runs, NEW c \in Calls, c \in plan[r],
         status[c] # "completed", status' = [status EXCEPT ![c] = "completed"],
         UNCHANGED <<phase, plan, effects>>
  PROVE  LedgerStep
<1>1. \A d \in Calls : status'[d] = (IF d = c THEN "completed" ELSE status[d])
  BY DEF TypeOK
<1>2. \A q \in Runs : plan[q] \subseteq Calls /\ (q # r => c \notin plan[q])
  BY DEF TypeOK, Control, PlanInv
<1>3. OwedOf' = [OwedOf EXCEPT ![r] = @ \ {c}]
  <2>1. \A q \in Runs : {d \in plan[q] : status'[d] # "completed"}
                          = IF q = r THEN {d \in plan[q] : status[d] # "completed"} \ {c}
                                     ELSE {d \in plan[q] : status[d] # "completed"}
    BY <1>1, <1>2
  <2> QED  BY <2>1 DEF OwedOf
<1>4. AnsweredOf' = AnsweredOf \cup {c}  BY <1>1 DEF AnsweredOf
<1>5. c \in OwedOf[r]  BY DEF OwedOf
<1> QED  BY <1>3, <1>4, <1>5, Answered DEF RunOf, BegunOf

\* A tool is started for a call that is owed: for the first time, or once more.
LEMMA LedgerBegins ==
  ASSUME TypeOK, NEW r \in Runs, NEW c \in Calls, c \in plan[r], status[c] # "completed",
         effects' = [effects EXCEPT ![c] = @ + 1], UNCHANGED <<phase, plan, status>>
  PROVE  LedgerStep
<1>1. \A d \in Calls : effects[d] \in Nat /\ effects'[d] = (IF d = c THEN effects[d] + 1 ELSE effects[d])
  BY DEF TypeOK
<1>2. BegunOf' = BegunOf \cup {c}  BY <1>1 DEF BegunOf
<1>3. UNCHANGED <<RunOf, OwedOf, AnsweredOf>>  BY DEF RunOf, OwedOf, AnsweredOf
<1>4. CASE c \in BegunOf
  <2>1. BegunOf' = BegunOf  BY <1>2, <1>4
  <2> QED  BY <1>3, <2>1, Stutter
<1>5. CASE c \notin BegunOf
  <2>1. c \in OwedOf[r]  BY DEF OwedOf
  <2> QED  BY <1>2, <1>3, <1>5, <2>1, Begins
<1> QED  BY <1>4, <1>5

\* The tools phase is left with every call answered.
LEMMA LedgerLeavesTools ==
  ASSUME TypeOK, NEW r \in Runs, phase[r] = "tools", phase' = [phase EXCEPT ![r] = "checkpoint"],
         plan' = [plan EXCEPT ![r] = {}], \A c \in plan[r] : status[c] = "completed",
         UNCHANGED <<status, effects>>
  PROVE  LedgerStep
<1>1. \A q \in Runs : plan'[q] = (IF q = r THEN {} ELSE plan[q])  BY DEF TypeOK
<1>2. OwedOf' = OwedOf
  <2>1. \A q \in Runs : {c \in plan'[q] : status[c] # "completed"}
                          = {c \in plan[q] : status[c] # "completed"}
    BY <1>1
  <2> QED  BY <2>1 DEF OwedOf
<1> QED  BY <1>2, LedgerMoves, ZenonT(60)

LEMMA LedgerPlans ==
  ASSUME TypeOK, Control, NEW r \in Runs, DispatchTools(r)
  PROVE  LedgerStep
<1>1. PICK S \in SUBSET {c \in Calls : status[c] = "unused"}, n \in 0..MaxBlocks,
           billed \in Reports : Settle(r, n, billed) /\ PlanTools(r, S)
  BY DEF DispatchTools, Askable
<1>2. /\ plan' = [plan EXCEPT ![r] = S] /\ phase' = [phase EXCEPT ![r] = "tools"]
      /\ status' = [c \in Calls |-> IF c \in S THEN "planned" ELSE status[c]]
      /\ effects' = effects
  BY <1>1 DEF PlanTools, Settle, DispatchTools, SetPhase
<1>3. phase[r] = "request_pending"  BY DEF DispatchTools, At, Control, PhaseInv, PhaseAt
<1>4. plan[r] = {}  BY <1>3 DEF Control, PlanInv, TypeOK
<1>5. \A q \in Runs : \A c \in plan[q] : c \in Calls /\ c \notin S
  BY DEF TypeOK, Control, PlanInv
<1>6. \A q \in Runs : plan'[q] = (IF q = r THEN S ELSE plan[q])  BY <1>2 DEF TypeOK
<1>7. OwedOf' = [OwedOf EXCEPT ![r] = S]
  <2>1. \A q \in Runs : {c \in plan'[q] : status'[c] # "completed"}
                          = IF q = r THEN S ELSE {c \in plan[q] : status[c] # "completed"}
    <3> SUFFICES ASSUME NEW q \in Runs
                 PROVE  {c \in plan'[q] : status'[c] # "completed"}
                          = IF q = r THEN S ELSE {c \in plan[q] : status[c] # "completed"}
      OBVIOUS
    <3>1. CASE q = r
      <4>1. \A c \in S : status'[c] = "planned"  BY <1>2
      <4> QED  BY <1>6, <3>1, <4>1
    <3>2. CASE q # r
      <4>1. \A c \in plan[q] : status'[c] = status[c]  BY <1>2, <1>5
      <4> QED  BY <1>6, <3>2, <4>1
    <3> QED  BY <3>1, <3>2
  <2> QED  BY <2>1 DEF OwedOf
<1>8. AnsweredOf' = AnsweredOf
  <2>1. \A c \in Calls : status'[c] = "completed" <=> status[c] = "completed"  BY <1>2
  <2> QED  BY <2>1 DEF AnsweredOf
<1>9. RunOf' = RunOf /\ RunOf[r] = "open"
  <2>1. \A q \in Runs : phase'[q] = (IF q = r THEN "tools" ELSE phase[q])  BY <1>2 DEF TypeOK
  <2> QED  BY <1>3, <2>1 DEF RunOf
<1>10. OwedOf[r] = {}  BY <1>4 DEF OwedOf
<1>11. \A c \in S : c \notin AnsweredOf /\ \A q \in Runs : c \notin OwedOf[q]
  BY <1>5 DEF AnsweredOf, OwedOf
<1>12. BegunOf' = BegunOf  BY <1>2 DEF BegunOf
<1> QED  BY <1>7, <1>8, <1>9, <1>10, <1>11, <1>12, Plans

-----------------------------------------------------------------------------
(* Every step of the harness.                                              *)

LEMMA LedgerClient ==
  ASSUME TypeOK, Control, NEW r \in Runs, ClientStep(r)
  PROVE  LedgerStep
<1>1. CASE Start(r)
  <2>1. /\ phase[r] = "absent" /\ phase' = [phase EXCEPT ![r] = "checkpoint"]
        /\ UNCHANGED <<plan, status, effects>>
    BY <1>1 DEF Start, SetPhase, pastVars
  <2>2. \A q \in Runs : phase'[q] = (IF q = r THEN "checkpoint" ELSE phase[q])
    BY <2>1 DEF TypeOK
  <2>3. \A q \in Runs : RunOf'[q] = (IF q = r THEN "open" ELSE RunOf[q])
    BY <2>1, <2>2 DEF RunOf
  <2>4. RunOf[r] = "absent" /\ RunOf' = [RunOf EXCEPT ![r] = "open"]
    BY <2>1, <2>3 DEF RunOf
  <2> QED  BY <2>1, <2>4, Opens DEF OwedOf, BegunOf, AnsweredOf
<1>2. CASE Message(r) \/ Interrupt(r)
  BY <1>2, LedgerQuiet DEF Message, Interrupt, recordVars, pastVars
<1> QED  BY <1>1, <1>2 DEF ClientStep

LEMMA LedgerLoop ==
  ASSUME TypeOK, Control, NEW r \in Runs, LoopStep(r)
  PROVE  LedgerStep
<1>1. CASE \/ TurnLimit(r) \/ StopAtBoundary(r) \/ Build(r) \/ Refuse(r) \/ StreamFails(r)
           \/ Finish(r) \/ Close(r)
  BY <1>1, LedgerQuiet
  DEF TurnLimit, StopAtBoundary, Build, Refuse, StreamFails, Finish, Close, recordVars, pastVars
<1>2. CASE Intent(r) \/ PauseTurn(r) \/ Compact(r) \/ CutOff(r) \/ EndTurn(r) \/ FollowUps(r)
  <2>1. /\ \/ phase' = [phase EXCEPT ![r] = "request_pending"]
           \/ phase' = [phase EXCEPT ![r] = "checkpoint"]
        /\ UNCHANGED <<plan, status, effects>>
    <3>1. CASE Intent(r)
      BY <3>1 DEF Intent, CommitRequestIntent, SetPhase, pastVars
    <3>2. CASE FollowUps(r)  BY <3>2 DEF FollowUps, SetPhase, pastVars
    <3>3. CASE PauseTurn(r) \/ Compact(r) \/ CutOff(r) \/ EndTurn(r)
      <4>1. PICK pc, attempt, end : SettleTo(r, pc, attempt, end)
        BY <3>3 DEF PauseTurn, Compact, CutOff, EndTurn
      <4>2. phase' = [phase EXCEPT ![r] = "checkpoint"] /\ UNCHANGED <<plan, status>>
        BY <4>1 DEF SettleTo, SetPhase
      <4>3. UNCHANGED effects  BY <4>1 DEF SettleTo, Settle
      <4> QED  BY <4>2, <4>3
    <3> QED  BY <1>2, <3>1, <3>2, <3>3
  <2>2. loop[r].pc \in {"gate", "stream", "stopped"}
    BY <1>2 DEF Intent, PauseTurn, Compact, CutOff, EndTurn, FollowUps, At
  <2>3. phase[r] \notin {"absent", "terminal"}
    BY <2>2 DEF Control, PhaseInv, PhaseAt
  <2>4. OwedOf' = OwedOf  BY <2>1 DEF OwedOf
  <2> QED  BY <2>1, <2>3, <2>4, LedgerMoves
<1>3. CASE DispatchTools(r)  BY <1>3, LedgerPlans
<1>4. ASSUME NEW c \in Calls, RefuseCall(r, c) PROVE LedgerStep
  BY <1>4, LedgerAnswers DEF RefuseCall, WithCallStatus, pastVars
<1>5. ASSUME NEW c \in Calls, ClearCall(r, c) PROVE LedgerStep
  <2>1. /\ status[c] = "planned" /\ status' = [status EXCEPT ![c] = "effect_pending"]
        /\ UNCHANGED <<phase, plan, effects>>
    BY <1>5 DEF ClearCall, WithCallStatus, pastVars
  <2>2. \A d \in Calls : status'[d] = "completed" <=> status[d] = "completed"
    BY <2>1 DEF TypeOK
  <2>3. \A q \in Runs : {d \in plan[q] : status'[d] # "completed"}
                          = {d \in plan[q] : status[d] # "completed"}
    BY <2>2 DEF TypeOK
  <2>4. UNCHANGED <<OwedOf, AnsweredOf>>  BY <2>1, <2>2, <2>3 DEF OwedOf, AnsweredOf
  <2> QED  BY <2>1, <2>4, Stutter DEF RunOf, BegunOf
<1>6. CASE RunTool(r)
  <2>1. loop[r].call \in plan[r] /\ loop[r].call \in Calls /\ status[loop[r].call] # "completed"
    BY <1>6 DEF RunTool, At, Control, CallInv, TypeOK
  <2>2. effects' = [effects EXCEPT ![loop[r].call] = @ + 1] /\ UNCHANGED <<phase, plan, status>>
    BY <1>6 DEF RunTool, recordVars
  <2> QED  BY <2>1, <2>2, LedgerBegins
<1>7. CASE SettleCall(r)
  <2>1. loop[r].call \in plan[r] /\ loop[r].call \in Calls /\ status[loop[r].call] # "completed"
    BY <1>7 DEF SettleCall, At, Control, CallInv, TypeOK
  <2>2. /\ status' = [status EXCEPT ![loop[r].call] = "completed"]
        /\ UNCHANGED <<phase, plan, effects>>
    BY <1>7 DEF SettleCall, WithCallStatus, pastVars
  <2> QED  BY <2>1, <2>2, LedgerAnswers
<1>8. CASE FinishCalls(r)
  <2>1. phase[r] = "tools"  BY <1>8 DEF FinishCalls, At, Control, PhaseInv, PhaseAt
  <2> QED  BY <1>8, <2>1, LedgerLeavesTools DEF FinishCalls, SetPhase, pastVars
<1>9. CASE Terminate(r)
  <2>1. phase[r] \in {"checkpoint", "request_pending"}
    BY <1>9 DEF Terminate, At, Control, PhaseInv, PhaseAt
  <2> QED  BY <1>9, <2>1, LedgerEnds DEF Terminate, SetPhase, pastVars
<1> QED  BY <1>1, <1>2, <1>3, <1>4, <1>5, <1>6, <1>7, <1>8, <1>9 DEF LoopStep

LEMMA LedgerRecovery ==
  ASSUME TypeOK, Control, NEW r \in Runs, RecoveryStep(r)
  PROVE  LedgerStep
<1>1. CASE PickRun(r) \/ RecoverResume(r)
  BY <1>1, LedgerQuiet DEF PickRun, RecoverResume, recordVars, pastVars
<1>2. CASE RecoverUncertain(r)
  BY <1>2, LedgerEnds DEF RecoverUncertain, SetPhase, pastVars
<1>3. CASE RecoverTools(r)
  BY <1>3, LedgerLeavesTools DEF RecoverTools, SetPhase, pastVars
<1>4. ASSUME NEW c \in Calls, RecoverSynthesize(r, c) \/ RecoverAnswer(r, c)
      PROVE  LedgerStep
  <2>1. c \in plan[r] /\ status[c] # "completed"
    BY <1>4, RecoveredCall DEF RecoverSynthesize, RecoverAnswer
  <2> QED  BY <1>4, <2>1, LedgerAnswers
           DEF RecoverSynthesize, RecoverAnswer, AnswerInRecovery, WithCallStatus, pastVars
<1>5. ASSUME NEW c \in Calls, RecoverExecute(r, c) PROVE LedgerStep
  <2>1. c \in plan[r] /\ status[c] # "completed"
    BY <1>5, RecoveredCall DEF RecoverExecute
  <2> QED  BY <1>5, <2>1, LedgerBegins DEF RecoverExecute, recordVars
<1> QED  BY <1>1, <1>2, <1>3, <1>4, <1>5 DEF RecoveryStep

LEMMA EveryStepIsALedgerStep ==
  ASSUME TypeOK, Control, [Next]_vars
  PROVE  LedgerStep
<1>1. CASE UNCHANGED vars \/ Crash \/ Boot \/ BootLocked \/ Serve
  BY <1>1, LedgerQuiet DEF vars, Crash, Boot, BootLocked, Serve, recordVars, pastVars
<1> QED  BY <1>1, LedgerClient, LedgerLoop, LedgerRecovery DEF Next

LEMMA LedgerStart == Init => Ledger!Init
  BY DEF Init, Ledger!Init

\* For every set of runs, lanes and calls, and whatever crashes: a tool starts only for a call
\* that is owed, a call is answered once and not started afterwards, a turn asks for calls only
\* when the last one's are answered, and a run ends only when it owes none.
THEOREM HarnessKeepsTheLedger == Spec => LedgerSpec
<1>1. Init => TypeOK /\ SeqInv /\ Control  BY TypeInit, ControlInit
<1>2. TypeOK /\ SeqInv /\ Control /\ [Next]_vars => TypeOK' /\ SeqInv' /\ Control'
  BY TypeStep, ControlStep
<1>3. TypeOK /\ Control /\ [Next]_vars => [Ledger!Next]_(Ledger!vars)
  BY EveryStepIsALedgerStep DEF LedgerStep
<1> QED  BY <1>1, <1>2, <1>3, LedgerStart, PTL DEF Spec, LedgerSpec, Ledger!Spec
=============================================================================
