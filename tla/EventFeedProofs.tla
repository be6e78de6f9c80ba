--------------------------- MODULE EventFeedProofs ---------------------------
(***************************************************************************)
(* What is proved of the events of a session: what a browser shows of them *)
(* (EventFeed), for any sessions, rows, threads, sockets that drop and     *)
(* sessions opened one after another, and how their table follows the      *)
(* harness's record (Projection).  The two are specifications of their own *)
(* and share no variable.                                                  *)
(***************************************************************************)
EXTENDS EventFeed, Projection, WellFoundedInduction, SequenceTheorems, FiniteSetTheorems, TLAPS

Rows   == [id : Nat \ {0}, session : Sessions, type : Range(KindOf)]
Events == Rows \cup {DeltaOf(s) : s \in Sessions}
Stores == [seen : SUBSET Rows, max : Nat, text : SUBSET Sessions, settled : SUBSET Sessions,
           ended : SUBSET Sessions]
Backfills == UNION {[S -> Rows] : S \in SUBSET Nat}
Fetches == [ctl : Controllers, session : Sessions, cursor : Nat, answered : BOOLEAN,
            events : Backfills]

TypeOK ==
  /\ lastId \in Nat
  /\ inserting \subseteq Rows /\ rows \subseteq Rows /\ announcing \subseteq Rows
  /\ stream \in BOOLEAN /\ mixed \in BOOLEAN
  /\ wire \in Seq(Events \cup {Confirmation}) /\ fetches \in Seq(Fetches)
  /\ view \in Sessions \cup {None} /\ ctl \in 0 .. MaxViews
  /\ live \in [Controllers -> BOOLEAN] /\ buffer \in [Controllers -> Seq(Events)]
  /\ store \in Stores
  /\ overtaken \subseteq Rows /\ silent \subseteq Rows
  /\ deltas \in Nat /\ drops \in Nat /\ failures \in Nat

-----------------------------------------------------------------------------
(* The inductive invariant.                                                *)

\* A row has an id of its own, and is announced once, if at all.
Table ==
  /\ rows \cap inserting = {} /\ announcing \subseteq rows
  /\ \A e \in rows \cup inserting : e.id <= lastId
  /\ \A e, f \in rows \cup inserting : e.id = f.id => e = f
  /\ overtaken \cup silent \subseteq rows \ announcing
  /\ IsFiniteSet(silent) /\ Cardinality(silent) <= failures

\* The socket carries what was announced of the session in view since it was subscribed to.
Socket ==
  /\ view \in Sessions <=> ctl # 0
  /\ ~stream => wire = <<>>
  /\ stream => view \in Sessions
  /\ \A i \in DOMAIN wire : wire[i] = Confirmation => i = 1
  /\ \A i \in DOMAIN wire : wire[i] # Confirmation => wire[i].session = view
  /\ \A i \in DOMAIN wire : ~Ephemeral(wire[i]) => wire[i] \in rows \ announcing
  /\ \A i, j \in DOMAIN wire :
       i < j /\ ~Ephemeral(wire[i]) /\ ~Ephemeral(wire[j]) /\ wire[j].id < wire[i].id =>
         wire[j] \in overtaken

\* What the controllers hold, and what they have asked for.
Browser ==
  /\ \A c \in Controllers : c > ctl => buffer[c] = <<>>
  /\ \A c \in Controllers : \A k \in DOMAIN buffer[c] :
       ~Ephemeral(buffer[c][k]) => buffer[c][k] \in rows
  /\ ctl # 0 /\ live[ctl] => buffer[ctl] = <<>>
  /\ \A i \in DOMAIN fetches :
       /\ fetches[i].ctl <= ctl /\ (fetches[i].ctl = ctl => fetches[i].session = view)
       /\ fetches[i].answered \/ fetches[i].events = <<>>
       /\ \A n \in DOMAIN fetches[i].events :
            /\ fetches[i].events[n] \in rows /\ fetches[i].events[n].id = n
            /\ fetches[i].events[n].session = fetches[i].session
  /\ store.seen \subseteq rows
  /\ ~mixed => \A e \in store.seen : e.session = view

\* The store knows its last id, and of each block and run whether it is over.
Fresh(st) ==
  /\ \A e \in st.seen : e.id <= st.max
  /\ st.max = 0 \/ \E e \in st.seen : e.id = st.max
  /\ st.text \cap (st.settled \cup st.ended) = {}
  /\ \A e \in st.seen : (e.type = "ai_text" => e.session \in st.settled)
                     /\ (e.type = "run_finished" => e.session \in st.ended)

\* The row's announcement failed or came after a younger row was visible, or will.
Doomed(e) == \/ e \in overtaken \cup silent
             \/ e \in announcing /\ Younger(e) # {}

\* The row is in the store, or a backfill under way will bring it.
Safe(e) == \/ e \in store.seen
           \/ \E i \in DOMAIN fetches :
                /\ fetches[i].ctl = ctl
                /\ IF fetches[i].answered THEN e.id \in DOMAIN fetches[i].events
                                          ELSE fetches[i].cursor < e.id

Good(e) == Doomed(e) \/ Safe(e)

Ours == {e \in rows : e.session = view}

Cursors ==
  \A i \in DOMAIN fetches :
    \/ fetches[i].cursor = 0
    \/ \E f \in rows : f.session = fetches[i].session /\ f.id = fetches[i].cursor

\* The subscription is still to be confirmed.
Rejoins == ~stream \/ (wire # <<>> /\ Head(wire) = Confirmation)

\* What was announced is shown, on its way, or will be asked for.
OnItsWay(e) == \/ \E k \in DOMAIN wire : wire[k] = e
               \/ \E k \in DOMAIN buffer[ctl] : buffer[ctl][k] = e
               \/ Rejoins

Reached == \A e \in Ours : e \notin announcing => Good(e) \/ OnItsWay(e)

\* Nothing older is forgotten by what has been applied, asked for or held back.
Behind ==
  /\ \A e \in Ours : e.id <= store.max => Good(e)
  /\ \A i \in DOMAIN fetches : fetches[i].session = view =>
       \A e \in Ours : e.id <= fetches[i].cursor \/ (\E n \in DOMAIN fetches[i].events : e.id <= n) =>
         Good(e) \/ e.id \in DOMAIN fetches[i].events
  /\ \A c \in Controllers, e \in Ours : \A k \in DOMAIN buffer[c] :
       ~Ephemeral(buffer[c][k]) /\ buffer[c][k].session = view /\ e.id <= buffer[c][k].id =>
         \/ Good(e)
         \/ c = ctl /\ \E j \in DOMAIN buffer[c] : buffer[c][j] = e

Clear == failures = Cardinality(silent) /\ ~mixed

Inv == /\ TypeOK /\ Table /\ Socket /\ Browser /\ Fresh(store)
       /\ (Clear => Cursors /\ Reached /\ Behind)

-----------------------------------------------------------------------------
(* Counting.                                                               *)

LEMMA Counting ==
  ASSUME NEW n \in Nat, NEW S, 0 \in S, \A i \in 0 .. n : i \in S /\ i # n => i + 1 \in S
  PROVE  0 .. n \subseteq S
<1> SUFFICES ASSUME ~ (0 .. n \subseteq S) PROVE FALSE  OBVIOUS
<1> DEFINE U == (0 .. n) \ S
<1>1. U \subseteq Nat /\ U # {}  OBVIOUS
<1>2. PICK x \in U : \A y \in U : ~ (<<y, x>> \in OpToRel(<, Nat))
  BY <1>1, NatLessThanWellFounded, WFMin
<1>3. x # 0 /\ x - 1 \in 0 .. n /\ x - 1 # n /\ x = (x - 1) + 1  OBVIOUS
<1>4. x - 1 \notin S  BY <1>3
<1>5. x - 1 \in U  BY <1>3, <1>4
<1>6. <<x - 1, x>> \in Nat \X Nat /\ <<x - 1, x>>[1] < <<x - 1, x>>[2]  BY <1>1, <1>5
<1>7. <<x - 1, x>> \in OpToRel(<, Nat)  BY <1>6 DEF OpToRel
<1> QED  BY <1>2, <1>5, <1>7

LEMMA Largest ==
  ASSUME NEW n \in Nat, NEW S \in SUBSET (0 .. n), S # {}
  PROVE  Max(S) \in S /\ \A m \in S : m <= Max(S)
<1> SUFFICES \E x \in S : \A m \in S : x >= m
  BY DEF Max
<1> SUFFICES ASSUME \A x \in S : \E m \in S : ~ (x >= m) PROVE FALSE  OBVIOUS
<1> DEFINE T == {i \in 0 .. n : \E m \in S : m >= i}
<1>1. 0 \in T
  <2>1. PICK m \in S : m \in 0 .. n  OBVIOUS
  <2>2. m >= 0 /\ 0 \in 0 .. n  BY <2>1
  <2> QED  BY <2>2
<1>2. ASSUME NEW i \in 0 .. n, i \in T, i # n PROVE i + 1 \in T
  <2>1. PICK m \in S : m >= i  BY <1>2
  <2>2. PICK k \in S : ~ (m >= k)  OBVIOUS
  <2>3. m \in 0 .. n /\ k \in 0 .. n  OBVIOUS
  <2>4. k >= i + 1 /\ i + 1 \in 0 .. n  BY <1>2, <2>1, <2>2, <2>3
  <2> QED  BY <2>4
<1> HIDE DEF T
<1>3. 0 .. n \subseteq T  BY <1>1, <1>2, Counting
<1>4. PICK m \in S : m >= n  BY <1>3 DEF T
<1>5. PICK k \in S : ~ (m >= k)  OBVIOUS
<1> QED  BY <1>4, <1>5

-----------------------------------------------------------------------------
(* Applying one event after another.                                       *)

LEMMA Folded ==
  ASSUME NEW st, NEW events, NEW n \in Nat
  PROVE  \E after :
           /\ after = [i \in 0 .. n |-> IF i = 0 THEN st
                        ELSE IF i \in DOMAIN events THEN Apply(after[i - 1], events[i])
                        ELSE after[i - 1]]
           /\ ApplyMany(st, events, n) = after[n]
<1> DEFINE One(a, i) == IF i \in DOMAIN events THEN Apply(a, events[i]) ELSE a
           Is(f, m) == f = [i \in 0 .. m |-> IF i = 0 THEN st ELSE One(f[i - 1], i)]
           S == {m \in 0 .. n : \E f : Is(f, m)}
<1>1. 0 \in S
  <2> DEFINE f == [i \in 0 .. 0 |-> st]
  <2>1. Is(f, 0)  OBVIOUS
  <2>2. 0 \in 0 .. n  OBVIOUS
  <2> HIDE DEF f, Is
  <2> QED  BY <2>1, <2>2
<1>2. ASSUME NEW m \in 0 .. n, m \in S, m # n PROVE m + 1 \in S
  <2>1. PICK g : Is(g, m)  BY <1>2
  <2> HIDE DEF One
  <2>2. DOMAIN g = 0 .. m /\ \A i \in 0 .. m : g[i] = IF i = 0 THEN st ELSE One(g[i - 1], i)
    BY <2>1
  <2> DEFINE f == [i \in 0 .. m + 1 |-> IF i = m + 1 THEN One(g[m], m + 1) ELSE g[i]]
  <2>3. ASSUME NEW i \in 0 .. m + 1 PROVE f[i] = IF i = 0 THEN st ELSE One(f[i - 1], i)
    <3>1. CASE i = m + 1
      <4>1. i # 0 /\ i - 1 = m /\ f[i - 1] = g[m]  BY <3>1
      <4> QED  BY <3>1, <4>1
    <3>2. CASE i # m + 1
      <4>1. i \in 0 .. m /\ f[i] = g[i]  BY <3>2
      <4>2. i # 0 => i - 1 \in 0 .. m + 1 /\ i - 1 # m + 1 /\ f[i - 1] = g[i - 1]  BY <4>1
      <4> QED  BY <2>2, <4>1, <4>2
    <3> QED  BY <3>1, <3>2
  <2>4. DOMAIN f = 0 .. m + 1 /\ f = [i \in 0 .. m + 1 |-> f[i]]  OBVIOUS
  <2> HIDE DEF f
  <2>5. Is(f, m + 1)  BY <2>3, <2>4
  <2>6. m + 1 \in 0 .. n  BY <1>2
  <2> QED  BY <2>5, <2>6
<1>3. n \in S
  <2> HIDE DEF S
  <2>1. 0 .. n \subseteq S  BY <1>1, <1>2, Counting
  <2> QED  BY <2>1
<1>4. \E f : Is(f, n)  BY <1>3
<1> DEFINE after == CHOOSE f : Is(f, n)
<1>5. Is(after, n)  BY <1>4
<1>6. ApplyMany(st, events, n) = after[n]  BY DEF ApplyMany
<1> QED  BY <1>5, <1>6

LEMMA AppliedOne ==
  ASSUME NEW st \in Stores, Fresh(st), NEW e \in Events
  PROVE  /\ Apply(st, e) \in Stores /\ Fresh(Apply(st, e))
         /\ Apply(st, e).seen = IF Ephemeral(e) THEN st.seen ELSE st.seen \cup {e}
<1>1. CASE Ephemeral(e)
  <2>1. e.session \in Sessions /\ Apply(st, e) = ApplyDelta(st, e)
    BY <1>1 DEF Events, Rows, DeltaOf, Apply
  <2>2. CASE e.session \in st.settled \cup st.ended
    BY <1>1, <2>1, <2>2 DEF ApplyDelta
  <2>3. CASE e.session \notin st.settled \cup st.ended
    <3>1. Apply(st, e) = [st EXCEPT !.text = @ \cup {e.session}]  BY <2>1, <2>3 DEF ApplyDelta
    <3> QED  BY <1>1, <2>1, <2>3, <3>1 DEF Stores, Fresh
  <2> QED  BY <2>2, <2>3
<1>2. CASE ~Ephemeral(e) /\ e \in st.seen
  BY <1>2 DEF Apply
<1>3. CASE ~Ephemeral(e) /\ e \notin st.seen
  <2>1. e \in Rows /\ e.session \in Sessions /\ e.id \in Nat
    BY <1>3 DEF Events, Rows, DeltaOf, Ephemeral
  <2> DEFINE s == [st EXCEPT !.seen = @ \cup {e}, !.max = IF e.id > @ THEN e.id ELSE @]
  <2>2. Apply(st, e) = ReconcileLive(s, e)  BY <1>3 DEF Apply
  <2>3. /\ s \in Stores /\ s.seen = st.seen \cup {e} /\ s.max = (IF e.id > st.max THEN e.id ELSE st.max)
        /\ s.text = st.text /\ s.settled = st.settled /\ s.ended = st.ended
    BY <2>1 DEF Stores
  <2>4. /\ \A f \in s.seen : f.id <= s.max
        /\ s.max = 0 \/ \E f \in s.seen : f.id = s.max
    BY <2>1, <2>3 DEF Fresh, Stores, Rows
  <2> HIDE DEF s
  <2>5. CASE e.type = "ai_text"
    <3>1. Apply(st, e) = [s EXCEPT !.settled = @ \cup {e.session}, !.text = @ \ {e.session}]
      BY <2>2, <2>5 DEF ReconcileLive
    <3> DEFINE t == Apply(st, e)
    <3>6. /\ s.settled \cup {e.session} \in SUBSET Sessions /\ s.text \ {e.session} \in SUBSET Sessions
          /\ s \in Stores
      BY <2>1, <2>3 DEF Stores
    <3>2. /\ t \in Stores /\ t.seen = s.seen /\ t.max = s.max /\ t.text = s.text \ {e.session}
          /\ t.settled = s.settled \cup {e.session}
          /\ t.ended = s.ended
      BY <3>1, <3>6 DEF Stores
    <3> HIDE DEF t
    <3>3. \A f \in t.seen : f = e \/ f \in st.seen  BY <2>3, <3>2
    <3>4. t.text \cap (t.settled \cup t.ended) = {}  BY <2>3, <3>2 DEF Fresh
    <3>5. \A f \in t.seen : (f.type = "ai_text" => f.session \in t.settled)
                          /\ (f.type = "run_finished" => f.session \in t.ended)
      BY <2>3, <2>5, <3>2, <3>3 DEF Fresh
    <3> QED  BY <1>3, <2>3, <2>4, <3>2, <3>4, <3>5 DEF Fresh, t
  <2>6. CASE e.type = "run_finished"
    <3>1. Apply(st, e) = [s EXCEPT !.ended = @ \cup {e.session}, !.text = @ \ {e.session}]
      BY <2>2, <2>6 DEF ReconcileLive
    <3> DEFINE t == Apply(st, e)
    <3>6. /\ s.ended \cup {e.session} \in SUBSET Sessions /\ s.text \ {e.session} \in SUBSET Sessions
          /\ s \in Stores
      BY <2>1, <2>3 DEF Stores
    <3>2. /\ t \in Stores /\ t.seen = s.seen /\ t.max = s.max /\ t.text = s.text \ {e.session}
          /\ t.settled = s.settled
          /\ t.ended = s.ended \cup {e.session}
      BY <3>1, <3>6 DEF Stores
    <3> HIDE DEF t
    <3>3. \A f \in t.seen : f = e \/ f \in st.seen  BY <2>3, <3>2
    <3>4. t.text \cap (t.settled \cup t.ended) = {}  BY <2>3, <3>2 DEF Fresh
    <3>5. \A f \in t.seen : (f.type = "ai_text" => f.session \in t.settled)
                          /\ (f.type = "run_finished" => f.session \in t.ended)
      BY <2>3, <2>6, <3>2, <3>3 DEF Fresh
    <3> QED  BY <1>3, <2>3, <2>4, <3>2, <3>4, <3>5 DEF Fresh, t
  <2>7. CASE e.type \notin {"ai_text", "run_finished"}
    <3>1. Apply(st, e) = s  BY <2>2, <2>7 DEF ReconcileLive
    <3> QED  BY <1>3, <2>1, <2>3, <2>4, <2>7, <3>1 DEF Stores, Fresh
  <2> QED  BY <2>5, <2>6, <2>7
<1> QED  BY <1>1, <1>2, <1>3

\* The durable events of a numbering, up to a number.
Durables(events, n) == {e \in Rows : \E i \in DOMAIN events : i \in 1 .. n /\ events[i] = e}

LEMMA Applied ==
  ASSUME NEW st \in Stores, Fresh(st), NEW n \in Nat, NEW events,
         \A i \in DOMAIN events : i \in 1 .. n => events[i] \in Events
  PROVE  /\ ApplyMany(st, events, n) \in Stores /\ Fresh(ApplyMany(st, events, n))
         /\ ApplyMany(st, events, n).seen = st.seen \cup Durables(events, n)
<1>1. PICK after :
        /\ after = [i \in 0 .. n |-> IF i = 0 THEN st
                     ELSE IF i \in DOMAIN events THEN Apply(after[i - 1], events[i])
                     ELSE after[i - 1]]
        /\ ApplyMany(st, events, n) = after[n]
  BY Folded
<1> DEFINE P(i) == /\ after[i] \in Stores /\ Fresh(after[i])
                   /\ after[i].seen = st.seen \cup Durables(events, i)
           S == {i \in 0 .. n : P(i)}
<1>2. after[0] = st  BY <1>1
<1>3. \A i \in 1 .. n : after[i] = IF i \in DOMAIN events THEN Apply(after[i - 1], events[i])
                                   ELSE after[i - 1]
  BY <1>1
<1>4. 0 \in S
  <2>1. Durables(events, 0) = {}  BY DEF Durables
  <2> QED  BY <1>2, <2>1
<1>5. ASSUME NEW i \in 0 .. n, i \in S, i # n PROVE i + 1 \in S
  <2>1. i + 1 \in 1 .. n /\ i + 1 - 1 = i  BY <1>5
  <2>2. after[i + 1] = IF i + 1 \in DOMAIN events THEN Apply(after[i], events[i + 1]) ELSE after[i]
    BY <1>3, <2>1
  <2>3. CASE i + 1 \in DOMAIN events
    <3> DEFINE e == events[i + 1]
    <3>1. e \in Events /\ e = events[i + 1]  BY <2>1, <2>3
    <3>4. after[i] \in Stores /\ Fresh(after[i])  BY <1>5
    <3> HIDE DEF e, P
    <3>2. /\ after[i + 1] \in Stores /\ Fresh(after[i + 1])
          /\ after[i + 1].seen = IF Ephemeral(e) THEN after[i].seen ELSE after[i].seen \cup {e}
      BY <2>2, <2>3, <3>1, <3>4, AppliedOne
    <3>3. Durables(events, i + 1) = Durables(events, i) \cup (IF Ephemeral(e) THEN {} ELSE {e})
      <4>1. Ephemeral(e) => e \notin Rows  BY DEF Ephemeral, Rows
      <4>2. ~Ephemeral(e) => e \in Rows
        <5>1. \A q \in Sessions : Ephemeral(DeltaOf(q))  BY DEF Ephemeral, DeltaOf
        <5> QED  BY <3>1, <5>1 DEF Events
      <4>3. \A j : j \in 1 .. i + 1 <=> j \in 1 .. i \/ j = i + 1  BY <2>1
      <4> QED  BY <2>3, <3>1, <4>1, <4>2, <4>3 DEF Durables
    <3> QED  BY <1>5, <2>1, <3>2, <3>3, <3>4 DEF P
  <2>4. CASE i + 1 \notin DOMAIN events
    <3>1. \A j : j \in 1 .. i + 1 <=> j \in 1 .. i \/ j = i + 1  BY <2>1
    <3>2. Durables(events, i + 1) = Durables(events, i)  BY <2>4, <3>1 DEF Durables
    <3> QED  BY <1>5, <2>1, <2>2, <2>4, <3>2
  <2> QED  BY <2>3, <2>4
<1> HIDE DEF S
<1>6. 0 .. n \subseteq S  BY <1>4, <1>5, Counting
<1> QED  BY <1>1, <1>6 DEF S

LEMMA NotConfirmed ==
  \A e \in Events : e # Confirmation /\ e.session \in Sessions /\ (~Ephemeral(e) <=> e \in Rows)
<1>1. \A s \in Sessions : DeltaOf(s).session = s /\ DeltaOf(s).id = 0  BY DEF DeltaOf
<1>2. Confirmation.session = None  BY DEF Confirmation
<1> QED  BY <1>1, <1>2, SessionsAssumption DEF Events, Rows, Ephemeral

\* What is left when one is taken out.
LEMMA Removed ==
  ASSUME NEW T, NEW s \in Seq(T), NEW i \in DOMAIN s
  PROVE  /\ RemoveAt(s, i) \in Seq(T)
         /\ \A j \in DOMAIN s : j # i => \E k \in DOMAIN RemoveAt(s, i) : RemoveAt(s, i)[k] = s[j]
         /\ \A k \in DOMAIN RemoveAt(s, i) : \E j \in DOMAIN s : j # i /\ RemoveAt(s, i)[k] = s[j]
<1> DEFINE a == SubSeq(s, 1, i - 1)
           b == SubSeq(s, i + 1, Len(s))
           c == RemoveAt(s, i)
<1>1. Len(s) \in Nat /\ DOMAIN s = 1 .. Len(s) /\ i \in 1 .. Len(s)  OBVIOUS
<1>2. a \in Seq(T) /\ Len(a) = i - 1 /\ \A k \in 1 .. i - 1 : a[k] = s[k]  BY <1>1
<1>3. b \in Seq(T) /\ Len(b) = Len(s) - i /\ \A k \in 1 .. Len(s) - i : b[k] = s[i + k]  BY <1>1, SMTT(30)
<1>4. c = a \o b  BY DEF RemoveAt
<1> HIDE DEF a, b, c
<1>5. /\ c \in Seq(T) /\ Len(c) = Len(s) - 1 /\ DOMAIN c = 1 .. Len(s) - 1
      /\ \A k \in 1 .. Len(s) - 1 : c[k] = IF k < i THEN s[k] ELSE s[k + 1]
  <2>1. c \in Seq(T) /\ Len(c) = Len(a) + Len(b)  BY <1>2, <1>3, <1>4, ConcatProperties
  <2>2. \A k \in 1 .. Len(c) : c[k] = IF k <= Len(a) THEN a[k] ELSE b[k - Len(a)]
    BY <1>2, <1>3, <1>4, ConcatProperties, SMTT(30)
  <2>3. Len(c) = Len(s) - 1 /\ DOMAIN c = 1 .. Len(s) - 1  BY <1>1, <1>2, <1>3, <2>1
  <2>4. ASSUME NEW k \in 1 .. Len(s) - 1 PROVE c[k] = IF k < i THEN s[k] ELSE s[k + 1]
    <3>1. CASE k < i  BY <1>1, <1>2, <2>2, <2>3, <3>1
    <3>2. CASE ~ (k < i)
      <4>1. k - (i - 1) \in 1 .. Len(s) - i /\ i + (k - (i - 1)) = k + 1  BY <1>1, <3>2
      <4>2. c[k] = b[k - (i - 1)]  BY <1>1, <1>2, <2>2, <2>3, <3>2
      <4> QED  BY <1>3, <3>2, <4>1, <4>2
    <3> QED  BY <3>1, <3>2
  <2> QED  BY <2>1, <2>3, <2>4
<1>6. ASSUME NEW j \in DOMAIN s, j # i PROVE \E k \in DOMAIN c : c[k] = s[j]
  <2>1. CASE j < i  BY <1>1, <1>5, <2>1, SMTT(30)
  <2>2. CASE j > i
    <3>1. j - 1 \in DOMAIN c /\ ~ (j - 1 < i) /\ (j - 1) + 1 = j  BY <1>1, <1>5, <2>2
    <3> QED  BY <1>5, <3>1
  <2> QED  BY <1>1, <1>6, <2>1, <2>2
<1>7. ASSUME NEW k \in DOMAIN c PROVE \E j \in DOMAIN s : j # i /\ c[k] = s[j]
  <2>1. CASE k < i  BY <1>1, <1>5, <2>1
  <2>2. CASE ~ (k < i)
    <3>1. k + 1 \in DOMAIN s /\ k + 1 # i  BY <1>1, <1>5, <2>2
    <3> QED  BY <1>5, <2>2, <3>1
  <2> QED  BY <2>1, <2>2
<1> QED  BY <1>5, <1>6, <1>7 DEF c

-----------------------------------------------------------------------------
(* Types.                                                                  *)

LEMMA Emptied == EmptyStore \in Stores /\ Fresh(EmptyStore) /\ EmptyStore.seen = {} /\ EmptyStore.max = 0
BY DEF EmptyStore, Stores, Fresh

LEMMA InitInv == Init => Inv
<1> SUFFICES ASSUME Init PROVE Inv  OBVIOUS
<1> USE DEF Init
<1>1. TypeOK
  <2>1. live \in [Controllers -> BOOLEAN] /\ buffer \in [Controllers -> Seq(Events)]  OBVIOUS
  <2>2. wire \in Seq(Events \cup {Confirmation}) /\ fetches \in Seq(Fetches)  OBVIOUS
  <2>3. ctl \in 0 .. MaxViews  BY BoundsAssumption
  <2> QED  BY <2>1, <2>2, <2>3, Emptied DEF TypeOK
<1>2. Table
  <2>1. IsFiniteSet({}) /\ Cardinality({}) = 0  BY FS_EmptySet
  <2> QED  BY <2>1 DEF Table
<1>3. Socket  BY SessionsAssumption DEF Socket
<1>4. Browser  BY Emptied, BoundsAssumption DEF Browser
<1>5. Cursors  BY DEF Cursors
<1>6. Ours = {}  BY DEF Ours
<1>7. Reached /\ Behind  BY <1>6 DEF Reached, Behind
<1> QED  BY <1>1, <1>2, <1>3, <1>4, <1>5, <1>7, Emptied DEF Inv

\* A catch-up asks for what is after the cursor.
LEMMA AskedFor ==
  ASSUME fetches \in Seq(Fetches), live \in [Controllers -> BOOLEAN], view' \in Sessions,
         NEW c \in Controllers, NEW cursor \in Nat, CatchUp(c, cursor)
  PROVE  \E f \in Fetches :
           /\ f.ctl = c /\ f.session = view' /\ f.cursor = cursor /\ ~f.answered /\ f.events = <<>>
           /\ fetches' = Append(fetches, f) /\ fetches' \in Seq(Fetches)
           /\ live' = [live EXCEPT ![c] = FALSE] /\ live' \in [Controllers -> BOOLEAN]
<1> DEFINE f == [ctl |-> c, session |-> view', cursor |-> cursor, answered |-> FALSE, events |-> <<>>]
<1>1. <<>> \in Backfills
  <2>1. <<>> \in [{} -> Rows] /\ {} \in SUBSET Nat  OBVIOUS
  <2> QED  BY <2>1 DEF Backfills
<1>2. f \in Fetches  BY <1>1 DEF Fetches
<1>3. fetches' = Append(fetches, f) /\ live' = [live EXCEPT ![c] = FALSE]  BY DEF CatchUp
<1>4. f.ctl = c /\ f.session = view' /\ f.cursor = cursor /\ ~f.answered /\ f.events = <<>>  OBVIOUS
<1> HIDE DEF f
<1> QED  BY <1>2, <1>3, <1>4

\* What a backfill and its drain make of the store.
Filled(f) == ApplyMany(ApplyMany(store, f.events, lastId),
                       Drained(buffer[f.ctl], MaxBackfilledId(f)), Len(buffer[f.ctl]))

LEMMA Arrived ==
  ASSUME TypeOK, Table, Browser, Fresh(store), NEW i \in DOMAIN fetches
  PROVE  LET f == fetches[i]
         IN  /\ f \in Fetches /\ f.ctl \in Controllers /\ f.ctl <= ctl
             /\ \A n \in DOMAIN f.events : n \in 1 .. lastId
             /\ Filled(f) \in Stores /\ Fresh(Filled(f))
             /\ Filled(f).seen =
                  store.seen \cup {f.events[n] : n \in DOMAIN f.events}
                    \cup {e \in Rows : /\ \E k \in DOMAIN buffer[f.ctl] : buffer[f.ctl][k] = e
                                       /\ e.id > MaxBackfilledId(f)}
<1> DEFINE f == fetches[i]
           held == buffer[f.ctl]
<1>1. f \in Fetches /\ held \in Seq(Events) /\ lastId \in Nat /\ store \in Stores
  <2>1. f \in Fetches  BY DEF TypeOK
  <2>2. f.ctl \in Controllers  BY <2>1 DEF Fetches
  <2> QED  BY <2>1, <2>2 DEF TypeOK
<1>12. f.ctl \in Controllers /\ f.ctl <= ctl  BY <1>1 DEF Fetches, Browser
<1>2. PICK S \in SUBSET Nat : f.events \in [S -> Rows]  BY <1>1 DEF Fetches, Backfills
<1>3. \A n \in DOMAIN f.events : f.events[n] \in Rows /\ f.events[n].id = n /\ n \in 1 .. lastId
  <2>1. \A n \in DOMAIN f.events : f.events[n] \in Rows /\ f.events[n].id = n /\ n \in Nat
    BY <1>2 DEF Browser
  <2>2. \A n \in DOMAIN f.events : n <= lastId  BY <2>1 DEF Browser, Table
  <2> QED  BY <1>1, <2>1, <2>2 DEF Rows
<1> DEFINE mid == ApplyMany(store, f.events, lastId)
<1>4. mid \in Stores /\ Fresh(mid) /\ mid.seen = store.seen \cup Durables(f.events, lastId)
  BY <1>1, <1>3, Applied DEF Events
<1>5. Durables(f.events, lastId) = {f.events[n] : n \in DOMAIN f.events}
  BY <1>3 DEF Durables
<1> DEFINE through == Drained(held, MaxBackfilledId(f))
<1>6. /\ DOMAIN through = {k \in DOMAIN held : Ephemeral(held[k]) \/ held[k].id > MaxBackfilledId(f)}
      /\ \A k \in DOMAIN through : through[k] = held[k]
  BY DEF Drained, Restrict
<1> HIDE DEF mid, through
<1>7. Len(held) \in Nat /\ DOMAIN held = 1 .. Len(held) /\ \A k \in DOMAIN held : held[k] \in Events  BY <1>1
<1>8. Filled(f) = ApplyMany(mid, through, Len(held))  BY DEF mid, through, Filled
<1>9. /\ Filled(f) \in Stores /\ Fresh(Filled(f))
      /\ Filled(f).seen = mid.seen \cup Durables(through, Len(held))
  BY <1>4, <1>6, <1>7, <1>8, Applied
<1>10. \A e \in Rows : ~Ephemeral(e)  BY DEF Rows, Ephemeral
<1>11. Durables(through, Len(held)) =
         {e \in Rows : (\E k \in DOMAIN held : held[k] = e) /\ e.id > MaxBackfilledId(f)}
  BY <1>6, <1>7, <1>10 DEF Durables
<1> QED  BY <1>1, <1>3, <1>4, <1>5, <1>9, <1>11, <1>12

\* The highest id that a catch-up has asked for or been given.
LEMMA BackfilledTo ==
  ASSUME NEW f \in Fetches, lastId \in Nat, \A n \in DOMAIN f.events : n \in 1 .. lastId
  PROVE  /\ MaxBackfilledId(f) \in Nat /\ MaxBackfilledId(f) >= f.cursor
         /\ \A n \in DOMAIN f.events : MaxBackfilledId(f) >= n
         /\ MaxBackfilledId(f) = f.cursor \/ MaxBackfilledId(f) \in DOMAIN f.events
<1> DEFINE S == {f.cursor} \cup DOMAIN f.events
           n == lastId + f.cursor
<1>1. f.cursor \in Nat  BY DEF Fetches
<1>2. n \in Nat /\ S \in SUBSET (0 .. n) /\ S # {}  BY <1>1
<1>3. \A m \in S : m \in Nat  BY <1>2
<1>4. MaxBackfilledId(f) = Max(S)  BY DEF MaxBackfilledId
<1>5. f.cursor \in S /\ \A k \in DOMAIN f.events : k \in S  OBVIOUS
<1>6. \A m \in S : m = f.cursor \/ m \in DOMAIN f.events  OBVIOUS
<1> HIDE DEF S, n
<1>7. Max(S) \in S /\ \A m \in S : m <= Max(S)  BY <1>2, Largest
<1>8. MaxBackfilledId(f) \in S /\ \A m \in S : m <= MaxBackfilledId(f)  BY <1>4, <1>7
<1> QED  BY <1>3, <1>5, <1>6, <1>8

\* A callback of the socket: the confirmation, an event passed through, or one held back.
LEMMA Received ==
  ASSUME TypeOK, Socket, Receive
  PROVE  /\ ctl \in Controllers /\ view \in Sessions /\ stream
         /\ UNCHANGED <<railsVars, stream, view, ctl, pastVars>>
         /\ wire # <<>> /\ wire' = Tail(wire) /\ wire' \in Seq(Events \cup {Confirmation})
         /\ \/ /\ Head(wire) = Confirmation /\ CatchUp(ctl, store.max)
               /\ UNCHANGED <<store, buffer>>
            \/ /\ Head(wire) \in Events /\ live[ctl] /\ store' = Apply(store, Head(wire))
               /\ UNCHANGED <<fetches, live, buffer>>
            \/ /\ Head(wire) \in Events /\ ~live[ctl]
               /\ buffer' = [buffer EXCEPT ![ctl] = Append(@, Head(wire))]
               /\ UNCHANGED <<fetches, live, store>>
<1>1. wire \in Seq(Events \cup {Confirmation}) /\ wire # <<>> /\ wire' = Tail(wire)
  BY DEF Receive, TypeOK
<1>2. wire' \in Seq(Events \cup {Confirmation}) /\ Head(wire) \in Events \cup {Confirmation}  BY <1>1
<1>3. stream /\ view \in Sessions /\ ctl # 0  BY <1>1 DEF Socket, TypeOK
<1>4. ctl \in Controllers  BY <1>3, BoundsAssumption DEF TypeOK, Controllers
<1>5. UNCHANGED <<railsVars, stream, view, ctl, pastVars>>  BY DEF Receive
<1> DEFINE e == Head(wire)
<1>6. \/ /\ e = Confirmation /\ CatchUp(ctl, store.max) /\ UNCHANGED <<store, buffer>>
      \/ /\ e # Confirmation /\ live[ctl] /\ store' = Apply(store, e)
         /\ UNCHANGED <<fetches, live, buffer>>
      \/ /\ e # Confirmation /\ ~live[ctl] /\ buffer' = [buffer EXCEPT ![ctl] = Append(@, e)]
         /\ UNCHANGED <<fetches, live, store>>
  BY DEF Receive
<1> QED  BY <1>1, <1>2, <1>3, <1>4, <1>5, <1>6

\* What the endpoint answers: the rows after the cursor.
LEMMA Answered ==
  ASSUME TypeOK, Table, Backfill
  PROVE  \E i \in DOMAIN fetches, g \in Fetches :
           /\ fetches' = [fetches EXCEPT ![i] = g] /\ fetches' \in Seq(Fetches)
           /\ ~fetches[i].answered /\ g.answered
           /\ g.ctl = fetches[i].ctl /\ g.session = fetches[i].session /\ g.cursor = fetches[i].cursor
           /\ \A n \in DOMAIN g.events :
                g.events[n] \in rows /\ g.events[n].id = n /\ g.events[n].session = g.session
           /\ \A e \in rows : e.session = g.session /\ e.id > g.cursor => e.id \in DOMAIN g.events
<1>1. PICK i \in DOMAIN fetches :
        /\ ~fetches[i].answered
        /\ fetches' = [fetches EXCEPT ![i].answered = TRUE,
            ![i].events = [n \in {e.id : e \in {h \in rows : h.session = fetches[i].session /\ h.id > fetches[i].cursor}} |->
                             CHOOSE e \in {h \in rows : h.session = fetches[i].session /\ h.id > fetches[i].cursor} : e.id = n]]
  BY DEF Backfill
<1> DEFINE news == {h \in rows : h.session = fetches[i].session /\ h.id > fetches[i].cursor}
           given == [n \in {e.id : e \in news} |-> CHOOSE e \in news : e.id = n]
<1>2. DOMAIN given = {e.id : e \in news}  OBVIOUS
<1>3. \A n \in {e.id : e \in news} : given[n] \in news /\ given[n].id = n  OBVIOUS
<1>4. given \in Backfills
  <2>1. {e.id : e \in news} \in SUBSET Nat  BY DEF TypeOK, Rows
  <2>2. given \in [{e.id : e \in news} -> Rows]  BY <1>3 DEF TypeOK
  <2> HIDE DEF given
  <2> QED  BY <2>1, <2>2 DEF Backfills
<1>5. fetches' = [fetches EXCEPT ![i].answered = TRUE, ![i].events = given]  BY <1>1
<1> HIDE DEF given
<1>6. fetches \in Seq(Fetches)  BY DEF TypeOK
<1>7. fetches[i] \in Fetches /\ i \in 1 .. Len(fetches)  BY <1>6
<1>8. PICK g : g = [fetches[i] EXCEPT !.answered = TRUE, !.events = given]  OBVIOUS
<1>9. /\ g \in Fetches /\ g.answered /\ g.events = given
      /\ g.ctl = fetches[i].ctl /\ g.session = fetches[i].session /\ g.cursor = fetches[i].cursor
  BY <1>4, <1>7, <1>8 DEF Fetches
<1>10. fetches' = [fetches EXCEPT ![i] = g]  BY <1>5, <1>8
<1>11. [fetches EXCEPT ![i] = g] \in Seq(Fetches)  BY <1>6, <1>7, <1>9, ExceptSeq
<1>12. \A n \in DOMAIN g.events :
         g.events[n] \in rows /\ g.events[n].id = n /\ g.events[n].session = g.session
  BY <1>2, <1>3, <1>9
<1>13. \A e \in rows : e.session = g.session /\ e.id > g.cursor => e.id \in DOMAIN g.events
  BY <1>2, <1>9
<1> QED  BY <1>1, <1>9, <1>10, <1>11, <1>12, <1>13, ZenonT(60)

LEMMA TypeStep ==
  ASSUME TypeOK, Table, Socket, Browser, Fresh(store), [Next]_vars
  PROVE  TypeOK' /\ Fresh(store)'
<1>1. CASE UNCHANGED vars
  BY <1>1 DEF TypeOK, Fresh, vars, railsVars, browserVars, pastVars
<1>2. ASSUME NEW s \in Sessions, Open(s) PROVE TypeOK' /\ Fresh(store)'
  <2>1. ctl + 1 \in Controllers /\ view' \in Sessions /\ ctl' = ctl + 1 /\ 0 \in Nat
    BY <1>2, BoundsAssumption DEF Open, TypeOK, Controllers
  <2>2. PICK c \in Controllers : c = ctl'  BY <2>1
  <2>3. CatchUp(c, 0)  BY <1>2, <2>2 DEF Open, CatchUp
  <2>4. fetches' \in Seq(Fetches) /\ live' \in [Controllers -> BOOLEAN]
    BY <2>1, <2>3, AskedFor DEF TypeOK
  <2>5. /\ view' \in Sessions /\ ctl' \in 0 .. MaxViews /\ store' = EmptyStore
        /\ stream' = FALSE /\ wire' = <<>> /\ UNCHANGED <<railsVars, buffer, pastVars>>
    BY <1>2, <2>1 DEF Open, Controllers
  <2>6. Fresh(store)' /\ store' \in Stores  BY <2>5, Emptied DEF Fresh
  <2>7. wire' \in Seq(Events \cup {Confirmation})  BY <2>5
  <2> QED  BY <2>4, <2>5, <2>6, <2>7 DEF TypeOK, railsVars, pastVars
<1>3. ASSUME Receive PROVE TypeOK' /\ Fresh(store)'
  <2>1. /\ ctl \in Controllers /\ view \in Sessions /\ stream
        /\ UNCHANGED <<railsVars, stream, view, ctl, pastVars>>
        /\ wire' \in Seq(Events \cup {Confirmation})
    BY <1>3, Received
  <2>2. CASE Head(wire) = Confirmation /\ CatchUp(ctl, store.max) /\ UNCHANGED <<store, buffer>>
    <3>1. store.max \in Nat /\ fetches \in Seq(Fetches) /\ live \in [Controllers -> BOOLEAN]
      BY DEF TypeOK, Stores
    <3>2. PICK max \in Nat : max = store.max  BY <3>1
    <3>3. CatchUp(ctl, max)  BY <2>2, <3>2
    <3>4. view' \in Sessions  BY <2>1
    <3>5. fetches' \in Seq(Fetches) /\ live' \in [Controllers -> BOOLEAN]
      BY <2>1, <3>1, <3>3, <3>4, AskedFor
    <3> QED  BY <2>1, <2>2, <3>5 DEF TypeOK, Fresh, railsVars, pastVars
  <2>3. CASE Head(wire) \in Events /\ live[ctl] /\ store' = Apply(store, Head(wire))
             /\ UNCHANGED <<fetches, live, buffer>>
    <3>1. store \in Stores  BY DEF TypeOK
    <3>2. Apply(store, Head(wire)) \in Stores /\ Fresh(Apply(store, Head(wire)))
      BY <2>3, <3>1, AppliedOne
    <3>3. store' \in Stores /\ Fresh(store)'  BY <2>3, <3>2 DEF Fresh
    <3> QED  BY <2>1, <2>3, <3>3 DEF TypeOK, railsVars, pastVars
  <2>4. CASE Head(wire) \in Events /\ ~live[ctl]
             /\ buffer' = [buffer EXCEPT ![ctl] = Append(@, Head(wire))]
             /\ UNCHANGED <<fetches, live, store>>
    <3>1. buffer \in [Controllers -> Seq(Events)]  BY DEF TypeOK
    <3>2. Append(buffer[ctl], Head(wire)) \in Seq(Events)  BY <2>1, <2>4, <3>1
    <3>3. buffer' \in [Controllers -> Seq(Events)]  BY <2>4, <3>1, <3>2
    <3> QED  BY <2>1, <2>4, <3>3 DEF TypeOK, Fresh, railsVars, pastVars
  <2> QED  BY <1>3, <2>2, <2>3, <2>4, Received
<1>4. ASSUME BackfillArrives PROVE TypeOK' /\ Fresh(store)'
  <2>1. PICK i \in DOMAIN fetches :
          /\ fetches[i].answered
          /\ store' = Filled(fetches[i])
          /\ mixed' = (mixed \/ \E e \in store'.seen : e.session # view)
          /\ buffer' = [buffer EXCEPT ![fetches[i].ctl] = <<>>]
          /\ live' = IF fetches[i].ctl = ctl THEN [live EXCEPT ![fetches[i].ctl] = TRUE] ELSE live
          /\ fetches' = RemoveAt(fetches, i)
          /\ UNCHANGED <<railsVars, stream, wire, view, ctl, overtaken, silent, deltas, drops,
                         failures>>
    BY <1>4 DEF BackfillArrives, Filled
  <2>2. store' \in Stores /\ Fresh(store)' /\ fetches[i].ctl \in Controllers
    BY <2>1, Arrived DEF Fresh
  <2>3. fetches' \in Seq(Fetches)  BY <2>1, Removed DEF TypeOK
  <2>4. buffer' \in [Controllers -> Seq(Events)] /\ live' \in [Controllers -> BOOLEAN]
    BY <2>1, <2>2 DEF TypeOK
  <2>5. mixed' \in BOOLEAN  BY <2>1
  <2> QED  BY <2>1, <2>2, <2>3, <2>4, <2>5 DEF TypeOK, railsVars
<1>5. ASSUME BackfillFails PROVE TypeOK' /\ Fresh(store)'
  <2>1. PICK i \in DOMAIN fetches : fetches' = RemoveAt(fetches, i)  BY <1>5 DEF BackfillFails
  <2>2. fetches' \in Seq(Fetches)  BY <2>1, Removed DEF TypeOK
  <2>3. failures' \in Nat
        /\ UNCHANGED <<railsVars, stream, wire, browserVars, overtaken, silent, mixed, deltas, drops>>
    BY <1>5 DEF BackfillFails, TypeOK
  <2> QED  BY <2>2, <2>3 DEF TypeOK, Fresh, railsVars, browserVars
<1>6. ASSUME Backfill PROVE TypeOK' /\ Fresh(store)'
  <2>1. fetches' \in Seq(Fetches)  BY <1>6, Answered
  <2>2. UNCHANGED <<railsVars, stream, wire, browserVars, pastVars>>  BY <1>6 DEF Backfill
  <2> QED  BY <2>1, <2>2 DEF TypeOK, Fresh, railsVars, browserVars, pastVars
<1>7. ASSUME NEW s \in Sessions, Insert(s) PROVE TypeOK' /\ Fresh(store)'
  <2>1. lastId + 1 \in Nat /\ lastId + 1 # 0 /\ lastId + 1 \in DOMAIN KindOf
    BY <1>7 DEF Insert, TypeOK
  <2>2. KindOf[lastId + 1] \in Range(KindOf)  BY <2>1 DEF Range
  <2>3. [id |-> lastId + 1, session |-> s, type |-> KindOf[lastId + 1]] \in Rows
    BY <2>1, <2>2 DEF Rows
  <2> QED  BY <1>7, <2>1, <2>3 DEF Insert, TypeOK, Fresh, browserVars, pastVars
<1>8. ASSUME NEW e \in inserting, Commit(e) PROVE TypeOK' /\ Fresh(store)'
  BY <1>8 DEF Commit, TypeOK, Fresh, browserVars, pastVars
<1>9. ASSUME NEW e \in announcing, Announce(e) PROVE TypeOK' /\ Fresh(store)'
  <2>1. e \in Rows /\ overtaken' \subseteq Rows /\ announcing' \subseteq Rows
    BY <1>9 DEF Announce, TypeOK
  <2>2. wire' \in Seq(Events \cup {Confirmation})
    BY <1>9, <2>1 DEF Announce, Reaches, TypeOK, Events
  <2> QED  BY <1>9, <2>1, <2>2 DEF Announce, TypeOK, Fresh, browserVars
<1>10. ASSUME NEW e \in announcing, AnnounceFails(e) PROVE TypeOK' /\ Fresh(store)'
  BY <1>10 DEF AnnounceFails, TypeOK, Fresh, browserVars
<1>11. ASSUME NEW s \in Sessions, AnnounceDelta(s) PROVE TypeOK' /\ Fresh(store)'
  <2>1. wire' \in Seq(Events \cup {Confirmation})
    BY <1>11 DEF AnnounceDelta, Reaches, TypeOK, Events
  <2>2. deltas' \in Nat  BY <1>11 DEF AnnounceDelta, TypeOK
  <2> QED  BY <1>11, <2>1, <2>2 DEF AnnounceDelta, TypeOK, Fresh, railsVars, browserVars
<1>12. ASSUME Subscribed PROVE TypeOK' /\ Fresh(store)'
  <2>1. wire' \in Seq(Events \cup {Confirmation})  BY <1>12 DEF Subscribed, TypeOK
  <2> QED  BY <1>12, <2>1 DEF Subscribed, TypeOK, Fresh, railsVars, browserVars, pastVars
<1>13. ASSUME Drop PROVE TypeOK' /\ Fresh(store)'
  <2>1. wire' \in Seq(Events \cup {Confirmation}) /\ drops' \in Nat  BY <1>13 DEF Drop, TypeOK
  <2> QED  BY <1>13, <2>1 DEF Drop, TypeOK, Fresh, railsVars, browserVars
<1> QED
  BY <1>1, <1>2, <1>3, <1>4, <1>5, <1>6, <1>7, <1>8, <1>9, <1>10, <1>11, <1>12, <1>13 DEF Next

LEMMA TableStep ==
  ASSUME TypeOK, Table, [Next]_vars
  PROVE  Table'
<1>1. CASE UNCHANGED <<railsVars, overtaken, silent, failures>>
  BY <1>1 DEF Table, railsVars
<1>2. ASSUME BackfillFails PROVE Table'
  <2>1. UNCHANGED <<railsVars, overtaken, silent>> /\ failures' = failures + 1
    BY <1>2 DEF BackfillFails
  <2>2. Cardinality(silent) \in Nat /\ failures \in Nat  BY FS_CardinalityType DEF Table, TypeOK
  <2> QED  BY <2>1, <2>2 DEF Table, railsVars
<1>3. ASSUME NEW s \in Sessions, Insert(s) PROVE Table'
  <2> DEFINE n == [id |-> lastId + 1, session |-> s, type |-> KindOf[lastId + 1]]
  <2>1. lastId' = lastId + 1 /\ inserting' = inserting \cup {n} /\ n.id = lastId + 1 /\ lastId \in Nat
        /\ UNCHANGED <<rows, announcing, overtaken, silent, failures>>
    BY <1>3 DEF Insert, TypeOK, pastVars
  <2> HIDE DEF n
  <2>2. \A e \in rows \cup inserting : e.id \in Nat /\ e.id <= lastId  BY DEF Table, TypeOK, Rows
  <2>3. n \notin rows  BY <2>1, <2>2
  <2>4. \A e \in rows' \cup inserting' : e.id <= lastId'  BY <2>1, <2>2
  <2>5. \A e, f \in rows' \cup inserting' : e.id = f.id => e = f
    <3>1. \A e \in rows' \cup inserting' : e = n \/ e \in rows \cup inserting  BY <2>1
    <3>2. \A e \in rows \cup inserting : e.id # n.id  BY <2>1, <2>2
    <3> QED  BY <3>1, <3>2 DEF Table
  <2> QED  BY <2>1, <2>3, <2>4, <2>5 DEF Table
<1>4. ASSUME NEW e \in inserting, Commit(e) PROVE Table'
  <2>1. /\ inserting' = inserting \ {e} /\ rows' = rows \cup {e} /\ announcing' = announcing \cup {e}
        /\ UNCHANGED <<lastId, overtaken, silent, failures>>
    BY <1>4 DEF Commit, pastVars
  <2>2. e \notin rows  BY DEF Table
  <2>3. rows' \cup inserting' = rows \cup inserting  BY <2>1
  <2> QED  BY <2>1, <2>2, <2>3 DEF Table
<1>5. ASSUME NEW e \in announcing, Announce(e) PROVE Table'
  <2>1. /\ announcing' = announcing \ {e} /\ overtaken' \subseteq overtaken \cup {e}
        /\ UNCHANGED <<lastId, inserting, rows, silent, failures>>
    BY <1>5 DEF Announce
  <2> QED  BY <2>1 DEF Table
<1>6. ASSUME NEW e \in announcing, AnnounceFails(e) PROVE Table'
  <2>1. /\ announcing' = announcing \ {e} /\ silent' = silent \cup {e} /\ failures' = failures + 1
        /\ UNCHANGED <<lastId, inserting, rows, overtaken>>
    BY <1>6 DEF AnnounceFails
  <2>2. IsFiniteSet(silent) /\ Cardinality(silent) <= failures /\ e \notin silent /\ failures \in Nat
    BY DEF Table, TypeOK
  <2>3. IsFiniteSet(silent') /\ Cardinality(silent') = Cardinality(silent) + 1
    BY <2>1, <2>2, FS_AddElement
  <2>4. Cardinality(silent) \in Nat  BY <2>2, FS_CardinalityType
  <2>5. Cardinality(silent') <= failures'  BY <2>1, <2>2, <2>3, <2>4, SMTT(30)
  <2> QED  BY <2>1, <2>3, <2>5 DEF Table
<1>7. ASSUME \/ \E s \in Sessions : Open(s) \/ AnnounceDelta(s)
             \/ Receive \/ BackfillArrives \/ Subscribed \/ Drop \/ Backfill
      PROVE  Table'
  <2>1. UNCHANGED <<railsVars, overtaken, silent, failures>>
    BY <1>7 DEF Open, AnnounceDelta, Receive, BackfillArrives, Subscribed, Drop, Backfill, pastVars
  <2> QED  BY <1>1, <2>1, SMTT(30)
<1>8. CASE UNCHANGED vars
  BY <1>1, <1>8 DEF vars, pastVars
<1> QED
  BY <1>2, <1>3, <1>4, <1>5, <1>6, <1>7, <1>8 DEF Next

LEMMA SocketStep ==
  ASSUME TypeOK, Table, Socket, [Next]_vars
  PROVE  Socket'
<1>1. CASE UNCHANGED <<rows, announcing, overtaken, stream, wire, view, ctl>>
  BY <1>1 DEF Socket
<1>2. ASSUME NEW s \in Sessions, Open(s) PROVE Socket'
  <2>1. ctl' = ctl + 1 /\ ctl \in Nat /\ view' \in Sessions /\ stream' = FALSE /\ wire' = <<>>
    BY <1>2, BoundsAssumption DEF Open, TypeOK
  <2>2. ctl' # 0  BY <2>1
  <2> QED  BY <2>1, <2>2 DEF Socket
<1>3. ASSUME Receive PROVE Socket'
  <2>1. /\ stream /\ UNCHANGED <<rows, announcing, overtaken, stream, view, ctl>>
        /\ wire # <<>> /\ wire' = Tail(wire)
    BY <1>3, Received DEF railsVars, pastVars
  <2>2. wire \in Seq(Events \cup {Confirmation})  BY DEF TypeOK
  <2>3. \A i \in DOMAIN wire' : i \in Nat /\ i # 0 /\ i + 1 \in DOMAIN wire /\ wire'[i] = wire[i + 1]
    BY <2>1, <2>2
  <2>4. \A i \in DOMAIN wire' : i + 1 # 1  BY <2>3
  <2>5. \A i \in DOMAIN wire' : wire'[i] # Confirmation  BY <2>3, <2>4 DEF Socket
  <2>6. \A i, j \in DOMAIN wire' : i < j => i + 1 < j + 1  BY <2>3
  <2>7. \A i, j \in DOMAIN wire' :
          i < j /\ ~Ephemeral(wire'[i]) /\ ~Ephemeral(wire'[j]) /\ wire'[j].id < wire'[i].id =>
            wire'[j] \in overtaken'
    BY <2>1, <2>3, <2>6 DEF Socket
  <2>8. \A i \in DOMAIN wire' : /\ wire'[i].session = view'
                                /\ ~Ephemeral(wire'[i]) => wire'[i] \in rows' \ announcing'
    BY <2>1, <2>3, <2>5 DEF Socket
  <2> QED  BY <2>1, <2>5, <2>7, <2>8 DEF Socket, Ephemeral
<1>4. ASSUME NEW e \in inserting, Commit(e) PROVE Socket'
  <2>1. /\ rows' = rows \cup {e} /\ announcing' = announcing \cup {e} /\ e \notin rows
        /\ UNCHANGED <<overtaken, stream, wire, view, ctl>>
    BY <1>4 DEF Commit, Table, browserVars, pastVars
  <2> QED  BY <2>1 DEF Socket, Ephemeral
<1>5. ASSUME NEW e \in announcing, AnnounceFails(e) PROVE Socket'
  BY <1>5 DEF AnnounceFails, Socket, Ephemeral, browserVars
<1>6. ASSUME Subscribed PROVE Socket'
  <2>1. /\ view # None /\ ~stream /\ stream' = TRUE /\ wire' = Append(wire, Confirmation)
        /\ UNCHANGED <<rows, announcing, overtaken, view, ctl>>
    BY <1>6 DEF Subscribed, railsVars, browserVars, pastVars
  <2>2. wire = <<>> /\ view \in Sessions  BY <2>1 DEF Socket, TypeOK
  <2>3. DOMAIN wire' = {1} /\ wire'[1] = Confirmation  BY <2>1, <2>2
  <2>4. Ephemeral(Confirmation)  BY DEF Ephemeral, Confirmation
  <2> QED  BY <2>1, <2>2, <2>3, <2>4 DEF Socket, Ephemeral
<1>7. ASSUME Drop PROVE Socket'
  BY <1>7 DEF Drop, Socket, Ephemeral, railsVars, browserVars
\* Sending: what is sent comes last, and what it overtakes is younger.
<1>8. ASSUME NEW e \in Events, wire' = Append(wire, e), stream, e.session = view,
             UNCHANGED <<rows, stream, view, ctl>>, announcing' \subseteq announcing,
             overtaken \subseteq overtaken',
             ~Ephemeral(e) => /\ e \in rows \ announcing'
                              /\ Younger(e) # {} => e \in overtaken'
      PROVE  Socket'
  <2>1. wire \in Seq(Events \cup {Confirmation})  BY DEF TypeOK
  <2>2. /\ DOMAIN wire = 1 .. Len(wire) /\ DOMAIN wire' = 1 .. Len(wire) + 1 /\ Len(wire) \in Nat
        /\ wire'[Len(wire) + 1] = e
        /\ \A i \in DOMAIN wire : wire'[i] = wire[i]
    BY <1>8, <2>1
  <2>3. \A i \in DOMAIN wire' : i = Len(wire) + 1 \/ i \in DOMAIN wire  BY <2>2
  <2>4. \A i \in DOMAIN wire' : wire'[i] = Confirmation => i = 1
    BY <2>2, <2>3, NotConfirmed, <1>8 DEF Socket
  <2>5. \A i \in DOMAIN wire' : wire'[i] # Confirmation => wire'[i].session = view'
    BY <2>2, <2>3, <1>8 DEF Socket
  <2>6. \A i \in DOMAIN wire' : ~Ephemeral(wire'[i]) => wire'[i] \in rows' \ announcing'
    BY <2>2, <2>3, <1>8 DEF Socket
  <2>7. ASSUME NEW i \in DOMAIN wire', NEW j \in DOMAIN wire', i < j,
               ~Ephemeral(wire'[i]), ~Ephemeral(wire'[j]), wire'[j].id < wire'[i].id
        PROVE  wire'[j] \in overtaken'
    <3>1. i \in DOMAIN wire  BY <2>2, <2>3, <2>7
    <3>2. CASE j \in DOMAIN wire
      BY <1>8, <2>2, <2>7, <3>1, <3>2 DEF Socket
    <3>3. CASE j = Len(wire) + 1
      <4>1. wire'[j] = e /\ wire'[i] = wire[i] /\ wire[i] \in rows  BY <2>2, <2>7, <3>1, <3>3 DEF Socket
      <4>2. wire[i] # Confirmation  BY <2>7, <4>1 DEF Ephemeral, Confirmation
      <4>3. wire[i].session = e.session  BY <1>8, <3>1, <4>2 DEF Socket
      <4>4. wire[i].id > e.id  BY <1>8, <2>7, <4>1, NotConfirmed DEF TypeOK, Rows
      <4>5. wire[i] \in Younger(e)  BY <4>1, <4>3, <4>4 DEF Younger
      <4> QED  BY <1>8, <2>7, <4>1, <4>5
    <3> QED  BY <2>3, <3>2, <3>3
  <2>8. (view' \in Sessions <=> ctl' # 0) /\ (~stream' => wire' = <<>>) /\ (stream' => view' \in Sessions)
    BY <1>8 DEF Socket
  <2> QED  BY <2>4, <2>5, <2>6, <2>7, <2>8 DEF Socket, Ephemeral
<1>9. ASSUME NEW e \in announcing, Announce(e) PROVE Socket'
  <2>1. /\ announcing' = announcing \ {e} /\ UNCHANGED <<rows, stream, view, ctl>>
        /\ wire' = (IF stream /\ view = e.session THEN Append(wire, e) ELSE wire)
        /\ overtaken' = (IF Younger(e) = {} THEN overtaken ELSE overtaken \cup {e})
    BY <1>9 DEF Announce, Reaches, browserVars
  <2>2. e \in rows /\ e \in Events  BY DEF Table, TypeOK, Events
  <2>3. CASE stream /\ view = e.session
    BY <1>8, <2>1, <2>2, <2>3
  <2>4. CASE ~ (stream /\ view = e.session)
    BY <2>1, <2>4 DEF Socket, Ephemeral
  <2> QED  BY <2>3, <2>4
<1>10. ASSUME NEW s \in Sessions, AnnounceDelta(s) PROVE Socket'
  <2>1. /\ stream /\ view = s /\ UNCHANGED <<rows, announcing, overtaken, stream, view, ctl>>
        /\ wire' = Append(wire, DeltaOf(s))
    BY <1>10 DEF AnnounceDelta, Reaches, railsVars, browserVars
  <2>2. DeltaOf(s) \in Events /\ DeltaOf(s).session = s /\ Ephemeral(DeltaOf(s))
    BY DEF Events, DeltaOf, Ephemeral
  <2> QED  BY <1>8, <2>1, <2>2
<1>11. ASSUME \/ BackfillArrives \/ BackfillFails \/ Backfill \/ \E s \in Sessions : Insert(s)
       PROVE  Socket'
  <2>1. UNCHANGED <<rows, announcing, overtaken, stream, wire, view, ctl>>
    BY <1>11 DEF BackfillArrives, BackfillFails, Backfill, Insert, railsVars, browserVars, pastVars
  <2> QED  BY <1>1, <2>1
<1>12. CASE UNCHANGED vars
  BY <1>1, <1>12 DEF vars, railsVars, browserVars, pastVars
<1> QED
  BY <1>2, <1>3, <1>4, <1>5, <1>6, <1>7, <1>9, <1>10, <1>11, <1>12 DEF Next

\* A fetch that is added, answered or taken away leaves the others alone.
FetchOK(f, c, v, table) ==
  /\ f.ctl <= c /\ (f.ctl = c => f.session = v)
  /\ f.answered \/ f.events = <<>>
  /\ \A n \in DOMAIN f.events :
       f.events[n] \in table /\ f.events[n].id = n /\ f.events[n].session = f.session

LEMMA BrowserStep ==
  ASSUME TypeOK, Table, Socket, Browser, Fresh(store), [Next]_vars
  PROVE  Browser'
<1>1. CASE UNCHANGED <<browserVars, rows, fetches, mixed>>
  BY <1>1 DEF Browser, Ephemeral, browserVars
<1>2. ASSUME NEW s \in Sessions, Open(s) PROVE Browser'
  <2>1. /\ ctl \in Nat /\ ctl' = ctl + 1 /\ ctl + 1 \in Controllers /\ view' \in Sessions /\ 0 \in Nat
        /\ store' = EmptyStore /\ UNCHANGED <<rows, buffer, mixed>>
    BY <1>2, BoundsAssumption DEF Open, TypeOK, Controllers, railsVars, pastVars
  <2>2. PICK c \in Controllers : c = ctl'  BY <2>1
  <2>3. CatchUp(c, 0)  BY <1>2, <2>2 DEF Open, CatchUp
  <2>4. PICK f \in Fetches :
          /\ f.ctl = c /\ f.session = view' /\ f.events = <<>> /\ ~f.answered
          /\ fetches' = Append(fetches, f)
          /\ live' = [live EXCEPT ![c] = FALSE]
    BY <2>1, <2>3, AskedFor DEF TypeOK
  <2>5. \A d \in Controllers : d > ctl' => d > ctl  BY <2>1 DEF Controllers
  <2>6. \A d \in Controllers : d > ctl' => buffer'[d] = <<>>  BY <2>1, <2>5 DEF Browser
  <2>7. ~live'[ctl']  BY <2>2, <2>4 DEF TypeOK
  <2>8. fetches \in Seq(Fetches) /\ \A g \in Fetches : g.ctl \in Nat  BY DEF TypeOK, Fetches, Controllers
  <2>9. \A i \in DOMAIN fetches : fetches[i].ctl \in Nat /\ fetches[i].ctl <= ctl  BY <2>8 DEF Browser
  <2>10. \A i \in DOMAIN fetches : fetches[i].ctl <= ctl' /\ fetches[i].ctl # ctl'  BY <2>1, <2>9
  <2>11. \A i \in DOMAIN fetches' : fetches'[i] = f \/ (i \in DOMAIN fetches /\ fetches'[i] = fetches[i])
    BY <2>4, <2>8
  <2>12. c \in Nat  BY <2>1, <2>2
  <2>13. FetchOK(f, ctl', view', rows)  BY <2>2, <2>4, <2>12 DEF FetchOK
  <2>14. \A i \in DOMAIN fetches : FetchOK(fetches[i], ctl', view', rows)  BY <2>10 DEF Browser, FetchOK
  <2>15. \A i \in DOMAIN fetches' : FetchOK(fetches'[i], ctl', view', rows')
    BY <2>1, <2>11, <2>13, <2>14
  <2> QED  BY <2>1, <2>6, <2>7, <2>15, Emptied DEF Browser, FetchOK, Ephemeral
<1>3. ASSUME Receive PROVE Browser'
  <2>1. /\ ctl \in Controllers /\ view \in Sessions /\ UNCHANGED <<rows, view, ctl, mixed>>
        /\ wire # <<>> /\ wire \in Seq(Events \cup {Confirmation})
    BY <1>3, Received DEF railsVars, pastVars, TypeOK
  <2>2. CASE Head(wire) = Confirmation /\ CatchUp(ctl, store.max) /\ UNCHANGED <<store, buffer>>
    <3>1. store.max \in Nat /\ fetches \in Seq(Fetches) /\ live \in [Controllers -> BOOLEAN]
          /\ view' \in Sessions
      BY <2>1 DEF TypeOK, Stores
    <3>2. PICK max \in Nat : max = store.max  BY <3>1
    <3>3. CatchUp(ctl, max)  BY <2>2, <3>2
    <3>4. PICK f \in Fetches :
            /\ f.ctl = ctl /\ f.session = view' /\ f.events = <<>> /\ ~f.answered
            /\ fetches' = Append(fetches, f)
            /\ live' = [live EXCEPT ![ctl] = FALSE]
      BY <2>1, <3>1, <3>3, AskedFor
    <3>5. \A i \in DOMAIN fetches' : fetches'[i] = f \/ (i \in DOMAIN fetches /\ fetches'[i] = fetches[i])
      BY <3>1, <3>4
    <3>6. ctl \in Nat /\ ~live'[ctl']  BY <2>1, <3>1, <3>4 DEF Controllers
    <3>7. FetchOK(f, ctl, view, rows)  BY <2>1, <3>4, <3>6 DEF FetchOK
    <3>8. \A i \in DOMAIN fetches : FetchOK(fetches[i], ctl, view, rows)  BY DEF Browser, FetchOK
    <3>9. \A i \in DOMAIN fetches' : FetchOK(fetches'[i], ctl', view', rows')  BY <2>1, <3>5, <3>7, <3>8
    <3> QED  BY <2>1, <2>2, <3>6, <3>9 DEF Browser, FetchOK, Ephemeral
  <2>5. Head(wire) = wire[1] /\ 1 \in DOMAIN wire  BY <2>1
  <2>6. Head(wire) \in Events => /\ Head(wire).session = view
                                 /\ ~Ephemeral(Head(wire)) => Head(wire) \in rows
    BY <2>5, NotConfirmed DEF Socket
  <2>3. CASE Head(wire) \in Events /\ live[ctl] /\ store' = Apply(store, Head(wire))
             /\ UNCHANGED <<fetches, live, buffer>>
    <3>1. store \in Stores  BY DEF TypeOK
    <3>2. store'.seen = IF Ephemeral(Head(wire)) THEN store.seen ELSE store.seen \cup {Head(wire)}
      BY <2>3, <3>1, AppliedOne
    <3>3. store'.seen \subseteq rows' /\ (~mixed' => \A e \in store'.seen : e.session = view')
      BY <2>1, <2>3, <2>6, <3>2 DEF Browser
    <3> QED  BY <2>1, <2>3, <3>3 DEF Browser, Ephemeral
  <2>4. CASE Head(wire) \in Events /\ ~live[ctl]
             /\ buffer' = [buffer EXCEPT ![ctl] = Append(@, Head(wire))]
             /\ UNCHANGED <<fetches, live, store>>
    <3>1. buffer[ctl] \in Seq(Events) /\ buffer \in [Controllers -> Seq(Events)]  BY <2>1 DEF TypeOK
    <3>2. \A k \in DOMAIN buffer'[ctl] : buffer'[ctl][k] = Head(wire)
                                       \/ (k \in DOMAIN buffer[ctl] /\ buffer'[ctl][k] = buffer[ctl][k])
      BY <2>1, <2>4, <3>1
    <3>3. \A c \in Controllers : c # ctl => buffer'[c] = buffer[c]  BY <2>4, <3>1
    <3>4. \A k \in DOMAIN buffer'[ctl] : ~Ephemeral(buffer'[ctl][k]) => buffer'[ctl][k] \in rows
      BY <2>1, <2>4, <2>6, <3>2 DEF Browser
    <3>5. \A c \in Controllers : \A k \in DOMAIN buffer'[c] :
            ~Ephemeral(buffer'[c][k]) => buffer'[c][k] \in rows
      BY <3>3, <3>4 DEF Browser
    <3>6. \A c \in Controllers : c > ctl => c # ctl  BY <2>1 DEF Controllers
    <3>7. \A c \in Controllers : c > ctl => buffer'[c] = <<>>  BY <3>3, <3>6 DEF Browser
    <3> QED  BY <2>1, <2>4, <3>5, <3>7 DEF Browser, Ephemeral
  <2> QED  BY <1>3, <2>2, <2>3, <2>4, Received
<1>4. ASSUME BackfillArrives PROVE Browser'
  <2>1. PICK i \in DOMAIN fetches :
          /\ fetches[i].answered
          /\ store' = Filled(fetches[i])
          /\ mixed' = (mixed \/ \E e \in store'.seen : e.session # view)
          /\ buffer' = [buffer EXCEPT ![fetches[i].ctl] = <<>>]
          /\ live' = IF fetches[i].ctl = ctl THEN [live EXCEPT ![fetches[i].ctl] = TRUE] ELSE live
          /\ fetches' = RemoveAt(fetches, i)
          /\ UNCHANGED <<railsVars, stream, wire, view, ctl, overtaken, silent, deltas, drops,
                         failures>>
    BY <1>4 DEF BackfillArrives, Filled
  <2> DEFINE f == fetches[i]
  <2>2. /\ f.ctl \in Controllers
        /\ Filled(f).seen = store.seen \cup {f.events[n] : n \in DOMAIN f.events}
                              \cup {e \in Rows : /\ \E k \in DOMAIN buffer[f.ctl] : buffer[f.ctl][k] = e
                                                 /\ e.id > MaxBackfilledId(f)}
    BY Arrived
  <2>3. rows' = rows /\ view' = view /\ ctl' = ctl  BY <2>1 DEF railsVars
  <2>4. store'.seen \subseteq rows'
    <3>1. \A n \in DOMAIN f.events : f.events[n] \in rows  BY DEF Browser
    <3>2. \A e \in Rows : (\E k \in DOMAIN buffer[f.ctl] : buffer[f.ctl][k] = e) => e \in rows
      BY <2>2 DEF Browser, Rows, Ephemeral
    <3> QED  BY <2>1, <2>2, <2>3, <3>1, <3>2 DEF Browser
  <2>5. ~mixed' => \A e \in store'.seen : e.session = view'  BY <2>1
  <2>6. \A c \in Controllers : buffer'[c] = IF c = f.ctl THEN <<>> ELSE buffer[c]
    BY <2>1, <2>2 DEF TypeOK
  <2>7. ctl' # 0 /\ live'[ctl'] => buffer'[ctl'] = <<>>
    <3>1. CASE f.ctl = ctl  BY <2>2, <2>3, <2>6, <3>1
    <3>2. CASE f.ctl # ctl
      <4>1. ctl # 0 => ctl \in Controllers  BY BoundsAssumption DEF TypeOK, Controllers
      <4> QED  BY <2>1, <2>3, <2>6, <3>2, <4>1 DEF Browser
    <3> QED  BY <3>1, <3>2
  <2>8. \A k \in DOMAIN fetches' : \E j \in DOMAIN fetches : fetches'[k] = fetches[j]
    BY <2>1, Removed DEF TypeOK
  <2>9. \A k \in DOMAIN fetches' : FetchOK(fetches'[k], ctl', view', rows')
    <3>1. \A j \in DOMAIN fetches : FetchOK(fetches[j], ctl, view, rows)  BY DEF Browser, FetchOK
    <3> QED  BY <2>3, <2>8, <3>1
  <2>10. \A c \in Controllers : c > ctl' => buffer'[c] = <<>>  BY <2>3, <2>6 DEF Browser
  <2>11. \A c \in Controllers : \A k \in DOMAIN buffer'[c] :
           ~Ephemeral(buffer'[c][k]) => buffer'[c][k] \in rows'
    BY <2>3, <2>6 DEF Browser
  <2> QED  BY <2>4, <2>5, <2>7, <2>9, <2>10, <2>11 DEF Browser, FetchOK, Ephemeral
<1>5. ASSUME BackfillFails PROVE Browser'
  <2>1. PICK i \in DOMAIN fetches : fetches' = RemoveAt(fetches, i)  BY <1>5 DEF BackfillFails
  <2>2. \A k \in DOMAIN fetches' : \E j \in DOMAIN fetches : fetches'[k] = fetches[j]
    BY <2>1, Removed DEF TypeOK
  <2>3. UNCHANGED <<browserVars, rows, mixed>>  BY <1>5 DEF BackfillFails, railsVars
  <2>4. \A j \in DOMAIN fetches : FetchOK(fetches[j], ctl, view, rows)  BY DEF Browser, FetchOK
  <2>5. \A k \in DOMAIN fetches' : FetchOK(fetches'[k], ctl', view', rows')
    BY <2>2, <2>3, <2>4 DEF browserVars
  <2> QED  BY <2>3, <2>5 DEF Browser, FetchOK, Ephemeral, browserVars
<1>6. ASSUME Backfill PROVE Browser'
  <2>1. PICK i \in DOMAIN fetches, g \in Fetches :
          /\ fetches' = [fetches EXCEPT ![i] = g]
          /\ g.ctl = fetches[i].ctl /\ g.session = fetches[i].session /\ g.answered
          /\ \A n \in DOMAIN g.events :
               g.events[n] \in rows /\ g.events[n].id = n /\ g.events[n].session = g.session
    BY <1>6, Answered
  <2>2. UNCHANGED <<browserVars, rows, mixed>>  BY <1>6 DEF Backfill, railsVars, pastVars
  <2>3. \A j \in DOMAIN fetches : FetchOK(fetches[j], ctl, view, rows)  BY DEF Browser, FetchOK
  <2>4. FetchOK(g, ctl, view, rows)  BY <2>1, <2>3 DEF FetchOK
  <2>5. \A j \in DOMAIN fetches' : FetchOK(fetches'[j], ctl', view', rows')
    BY <2>1, <2>2, <2>3, <2>4 DEF browserVars
  <2> QED  BY <2>2, <2>5 DEF Browser, FetchOK, Ephemeral, browserVars
<1>7. ASSUME NEW e \in inserting, Commit(e) PROVE Browser'
  <2>1. rows' = rows \cup {e} /\ UNCHANGED <<browserVars, fetches, mixed>>
    BY <1>7 DEF Commit, pastVars
  <2> QED  BY <2>1 DEF Browser, Ephemeral, browserVars
<1>8. ASSUME \/ Subscribed \/ Drop
             \/ \E s \in Sessions : AnnounceDelta(s) \/ Insert(s)
             \/ \E e \in announcing : Announce(e) \/ AnnounceFails(e)
      PROVE  Browser'
  <2>1. UNCHANGED <<browserVars, rows, fetches, mixed>>
    BY <1>8 DEF Subscribed, Drop, AnnounceDelta, Insert, Announce, AnnounceFails, railsVars, pastVars
  <2> QED  BY <1>1, <2>1
<1>9. CASE UNCHANGED vars
  BY <1>1, <1>9 DEF vars, railsVars, pastVars
<1> QED
  BY <1>2, <1>3, <1>4, <1>5, <1>6, <1>7, <1>8, <1>9 DEF Next

-----------------------------------------------------------------------------
(* What is promised of a row stays promised.                               *)

LEMMA RowsStay ==
  ASSUME TypeOK, Table, [Next]_vars
  PROVE  /\ rows \subseteq rows' /\ overtaken \subseteq overtaken' /\ silent \subseteq silent'
         /\ \A e \in rows' \ rows : Commit(e) /\ e \in inserting
         /\ \A e \in announcing : e \in announcing' \/ Announce(e) \/ AnnounceFails(e)
         /\ \A e \in announcing' : e \in announcing \/ Commit(e)
<1>1. CASE UNCHANGED <<railsVars, overtaken, silent>>
  BY <1>1, SMTT(30) DEF railsVars
<1>2. ASSUME \/ \E s \in Sessions : Open(s) \/ AnnounceDelta(s)
             \/ Receive \/ BackfillArrives \/ BackfillFails \/ Subscribed \/ Drop \/ Backfill
             \/ UNCHANGED vars
      PROVE  UNCHANGED <<railsVars, overtaken, silent>>
  BY <1>2 DEF Open, AnnounceDelta, Receive, BackfillArrives, BackfillFails, Subscribed, Drop,
              Backfill, pastVars, vars
<1>3. ASSUME NEW s \in Sessions, Insert(s)
      PROVE  UNCHANGED <<rows, announcing, overtaken, silent>>
  BY <1>3 DEF Insert, pastVars
<1>4. ASSUME NEW e \in inserting, Commit(e)
      PROVE  /\ rows' = rows \cup {e} /\ announcing' = announcing \cup {e}
             /\ UNCHANGED <<overtaken, silent>>
  BY <1>4 DEF Commit, pastVars
<1>5. ASSUME NEW e \in announcing, Announce(e)
      PROVE  /\ announcing' = announcing \ {e} /\ overtaken \subseteq overtaken'
             /\ UNCHANGED <<rows, silent>>
  BY <1>5 DEF Announce
<1>6. ASSUME NEW e \in announcing, AnnounceFails(e)
      PROVE  /\ announcing' = announcing \ {e} /\ silent' = silent \cup {e}
             /\ UNCHANGED <<rows, overtaken>>
  BY <1>6 DEF AnnounceFails
<1> QED  BY <1>1, <1>2, <1>3, <1>4, <1>5, <1>6, SMTT(30) DEF Next

LEMMA DoomedStays ==
  ASSUME TypeOK, Table, [Next]_vars, NEW e \in rows, Doomed(e)
  PROVE  Doomed(e)'
<1>1. Younger(e) \subseteq Younger(e)'  BY RowsStay DEF Younger
<1>2. CASE e \in overtaken \cup silent  BY <1>2, RowsStay DEF Doomed
<1>3. CASE e \in announcing /\ Younger(e) # {}
  <2>1. CASE e \in announcing'  BY <1>1, <1>3, <2>1 DEF Doomed
  <2>2. CASE Announce(e)  BY <1>3, <2>2 DEF Announce, Doomed
  <2>3. CASE AnnounceFails(e)  BY <2>3 DEF AnnounceFails, Doomed
  <2> QED  BY <1>3, <2>1, <2>2, <2>3, RowsStay
<1> QED  BY <1>2, <1>3 DEF Doomed

\* A row that a backfill is to bring is brought, unless the backfill fails or another session
\* is opened.
LEMMA SafeStays ==
  ASSUME TypeOK, Table, Socket, Browser, Fresh(store), [Next]_vars, ~BackfillFails,
         \A s \in Sessions : ~Open(s), NEW e \in Ours, Safe(e)
  PROVE  Safe(e)'
<1>1. e \in rows /\ e.session = view /\ e \in Rows /\ e.id \in Nat  BY DEF Ours, TypeOK, Rows
<1>2. ASSUME UNCHANGED <<store, fetches, ctl>> PROVE Safe(e)'
  BY <1>2 DEF Safe
<1>3. ASSUME Receive PROVE Safe(e)'
  <2>1. ctl \in Controllers /\ view \in Sessions /\ UNCHANGED <<view, ctl>>  BY <1>3, Received
  <2>2. CASE Head(wire) = Confirmation /\ CatchUp(ctl, store.max) /\ UNCHANGED <<store, buffer>>
    <3>1. store.max \in Nat /\ fetches \in Seq(Fetches) /\ live \in [Controllers -> BOOLEAN]
          /\ view' \in Sessions
      BY <2>1 DEF TypeOK, Stores
    <3>2. PICK max \in Nat : max = store.max  BY <3>1
    <3>3. CatchUp(ctl, max)  BY <2>2, <3>2
    <3>4. PICK f \in Fetches : fetches' = Append(fetches, f)
      BY <2>1, <3>1, <3>3, AskedFor
    <3>5. \A i \in DOMAIN fetches : i \in DOMAIN fetches' /\ fetches'[i] = fetches[i]
      BY <3>1, <3>4
    <3> QED  BY <2>1, <2>2, <3>5 DEF Safe
  <2>3. CASE Head(wire) \in Events /\ live[ctl] /\ store' = Apply(store, Head(wire))
             /\ UNCHANGED <<fetches, live, buffer>>
    <3>1. store \in Stores  BY DEF TypeOK
    <3>2. store.seen \subseteq store'.seen  BY <2>3, <3>1, AppliedOne
    <3> QED  BY <2>1, <2>3, <3>2 DEF Safe
  <2>4. CASE UNCHANGED <<fetches, live, store>>
    BY <1>2, <2>1, <2>4
  <2> QED  BY <1>3, <2>2, <2>3, <2>4, Received
<1>4. ASSUME BackfillArrives PROVE Safe(e)'
  <2>1. PICK i \in DOMAIN fetches :
          fetches[i].answered /\ store' = Filled(fetches[i]) /\ fetches' = RemoveAt(fetches, i) /\ ctl' = ctl
    BY <1>4 DEF BackfillArrives, Filled
  <2> DEFINE f == fetches[i]
  <2>2. store'.seen = store.seen \cup {f.events[n] : n \in DOMAIN f.events}
                        \cup {g \in Rows : /\ \E k \in DOMAIN buffer[f.ctl] : buffer[f.ctl][k] = g
                                           /\ g.id > MaxBackfilledId(f)}
    BY <2>1, Arrived
  <2>3. CASE e \in store.seen  BY <2>2, <2>3 DEF Safe
  <2>4. ASSUME NEW j \in DOMAIN fetches, fetches[j].ctl = ctl,
               IF fetches[j].answered THEN e.id \in DOMAIN fetches[j].events
                                      ELSE fetches[j].cursor < e.id
        PROVE  Safe(e)'
    <3>1. CASE j = i
      <4>1. e.id \in DOMAIN f.events  BY <2>1, <2>4, <3>1
      <4>2. f.events[e.id] \in rows /\ f.events[e.id].id = e.id  BY <4>1 DEF Browser
      <4>3. f.events[e.id] = e  BY <1>1, <4>2 DEF Table
      <4>4. e \in {f.events[n] : n \in DOMAIN f.events}  BY <4>1, <4>3
      <4> QED  BY <2>2, <4>4 DEF Safe
    <3>2. CASE j # i
      <4>1. \E k \in DOMAIN fetches' : fetches'[k] = fetches[j]
        BY <2>1, <3>2, Removed DEF TypeOK
      <4> QED  BY <2>1, <2>4, <4>1 DEF Safe
    <3> QED  BY <3>1, <3>2
  <2> QED  BY <2>3, <2>4 DEF Safe
<1>5. ASSUME Backfill PROVE Safe(e)'
  <2>1. PICK i \in DOMAIN fetches, g \in Fetches :
          /\ fetches' = [fetches EXCEPT ![i] = g]
          /\ ~fetches[i].answered /\ g.answered
          /\ g.ctl = fetches[i].ctl /\ g.session = fetches[i].session /\ g.cursor = fetches[i].cursor
          /\ \A h \in rows : h.session = g.session /\ h.id > g.cursor => h.id \in DOMAIN g.events
    BY <1>5, Answered
  <2>2. store' = store /\ ctl' = ctl  BY <1>5 DEF Backfill, browserVars
  <2>3. CASE e \in store.seen  BY <2>2, <2>3 DEF Safe
  <2>4. ASSUME NEW j \in DOMAIN fetches, fetches[j].ctl = ctl,
               IF fetches[j].answered THEN e.id \in DOMAIN fetches[j].events
                                      ELSE fetches[j].cursor < e.id
        PROVE  Safe(e)'
    <3>1. CASE j = i
      <4>1. g.session = view  BY <2>1, <2>4, <3>1 DEF Browser
      <4>2. g.cursor < e.id /\ g.cursor \in Nat  BY <2>1, <2>4, <3>1 DEF Fetches
      <4>3. e.id \in DOMAIN g.events  BY <1>1, <2>1, <4>1, <4>2
      <4>4. fetches'[i] = g /\ i \in DOMAIN fetches'  BY <2>1
      <4> QED  BY <2>1, <2>2, <2>4, <3>1, <4>3, <4>4 DEF Safe
    <3>2. CASE j # i
      <4>1. fetches'[j] = fetches[j] /\ j \in DOMAIN fetches'  BY <2>1, <3>2
      <4> QED  BY <2>2, <2>4, <4>1 DEF Safe
    <3> QED  BY <3>1, <3>2
  <2> QED  BY <2>3, <2>4 DEF Safe
<1>6. ASSUME \/ Subscribed \/ Drop \/ \E s \in Sessions : AnnounceDelta(s) \/ Insert(s)
             \/ \E g \in inserting : Commit(g)
             \/ \E g \in announcing : Announce(g) \/ AnnounceFails(g)
             \/ UNCHANGED vars
      PROVE  UNCHANGED <<store, fetches, ctl>>
  BY <1>6 DEF Subscribed, Drop, AnnounceDelta, Insert, Commit, Announce, AnnounceFails, browserVars, vars
<1> QED  BY <1>2, <1>3, <1>4, <1>5, <1>6 DEF Next

LEMMA GoodStays ==
  ASSUME TypeOK, Table, Socket, Browser, Fresh(store), [Next]_vars, ~BackfillFails,
         \A s \in Sessions : ~Open(s), NEW e \in Ours, Good(e)
  PROVE  Good(e)'
<1>1. e \in rows  BY DEF Ours
<1> QED  BY <1>1, DoomedStays, SafeStays DEF Good

\* As long as no backfill has failed and no other session's rows are shown, none had.
LEMMA ClearBefore ==
  ASSUME TypeOK, Table, [Next]_vars, Clear'
  PROVE  Clear /\ ~BackfillFails
<1>1. failures \in Nat /\ IsFiniteSet(silent) /\ Cardinality(silent) \in Nat /\ Cardinality(silent) <= failures
  BY FS_CardinalityType DEF Table, TypeOK
<1>2. ~BackfillFails
  <2>1. ASSUME BackfillFails PROVE FALSE
    <3>1. failures' = failures + 1 /\ silent' = silent  BY <2>1 DEF BackfillFails
    <3>2. failures' = Cardinality(silent')  BY DEF Clear
    <3> QED  BY <1>1, <3>1, <3>2
  <2> QED  BY <2>1
<1>3. ASSUME NEW e \in announcing, AnnounceFails(e) PROVE Clear
  <2>1. silent' = silent \cup {e} /\ failures' = failures + 1 /\ mixed' = mixed /\ e \notin silent
    BY <1>3 DEF AnnounceFails, Table
  <2>2. Cardinality(silent') = Cardinality(silent) + 1  BY <1>1, <2>1, FS_AddElement, SMTT(30)
  <2>3. failures' = Cardinality(silent')  BY DEF Clear
  <2>4. failures = Cardinality(silent)  BY <1>1, <2>1, <2>2, <2>3
  <2>5. ~mixed  BY <2>1, Zenon DEF Clear
  <2> QED  BY <2>4, <2>5 DEF Clear
<1>4. ASSUME \/ \E s \in Sessions : Open(s) \/ AnnounceDelta(s) \/ Insert(s)
             \/ \E e \in inserting : Commit(e)
             \/ \E e \in announcing : Announce(e)
             \/ Receive \/ BackfillArrives \/ Subscribed \/ Drop \/ Backfill \/ UNCHANGED vars
      PROVE  Clear
  <2>1. silent' = silent /\ failures' = failures
    BY <1>4 DEF Open, AnnounceDelta, Insert, Commit, Announce, Receive, BackfillArrives, Subscribed,
                Drop, Backfill, pastVars, vars
  <2>2. BackfillArrives \/ mixed' = mixed
    BY <1>4 DEF Open, AnnounceDelta, Insert, Commit, Announce, Receive, Subscribed,
                Drop, Backfill, pastVars, vars
  <2>3. ~mixed
    <3>1. BackfillArrives => \E q \in BOOLEAN : mixed' = (mixed \/ q)
      BY Zenon DEF BackfillArrives
    <3>2. ~mixed'  BY DEF Clear
    <3> QED  BY <2>2, <3>1, <3>2, Zenon
  <2> QED  BY <2>1, <2>3, SMTT(30) DEF Clear
<1> QED  BY <1>2, <1>3, <1>4 DEF Next

-----------------------------------------------------------------------------
(* The steps that leave no row behind.                                     *)

Whole  == TypeOK /\ Table /\ Socket /\ Browser /\ Fresh(store)
Linked == Cursors /\ Reached /\ Behind

\* A step of Rails or of the socket.
Quiet == \/ Subscribed \/ Drop \/ \E s \in Sessions : AnnounceDelta(s) \/ Insert(s)
         \/ \E e \in inserting : Commit(e)
         \/ \E e \in announcing : Announce(e) \/ AnnounceFails(e)
         \/ UNCHANGED vars

\* A row that commits late is doomed, as younger ones are visible.
LEMMA Late ==
  ASSUME TypeOK, Table, NEW e \in inserting, Commit(e), NEW f \in rows, f.session = e.session, e.id <= f.id
  PROVE  Doomed(e)'
<1>1. rows' = rows \cup {e} /\ announcing' = announcing \cup {e}  BY DEF Commit
<1>2. e \notin rows /\ e # f /\ e.id # f.id  BY DEF Table
<1>3. e.id \in Nat /\ f.id \in Nat  BY DEF TypeOK, Rows
<1>4. f.id > e.id  BY <1>2, <1>3
<1>5. f \in Younger(e)'  BY <1>1, <1>4 DEF Younger
<1> QED  BY <1>1, <1>5 DEF Doomed

LEMMA QuietStep ==
  ASSUME Whole, Linked, ~mixed, Quiet, [Next]_vars, ~BackfillFails, \A s \in Sessions : ~Open(s)
  PROVE  Linked'
<1> USE DEF Whole
<1>1. UNCHANGED <<store, fetches, ctl, view, buffer>>
  BY DEF Quiet, Subscribed, Drop, AnnounceDelta, Insert, Commit, Announce, AnnounceFails, browserVars, vars
<1>2. \A e \in Ours : Good(e) => Good(e)'  BY GoodStays
<1>3. rows \subseteq rows' /\ \A e \in rows' \ rows : e \in inserting /\ Commit(e)  BY RowsStay
<1>4. Cursors'  BY <1>1, <1>3 DEF Linked, Cursors
<1>5. ASSUME NEW e \in Ours, OnItsWay(e) PROVE OnItsWay(e)'
  <2>1. wire \in Seq(Events \cup {Confirmation})  BY DEF TypeOK
  <2>2. ASSUME wire' = wire, stream' = stream PROVE OnItsWay(e)'
    BY <1>1, <1>5, <2>2 DEF OnItsWay, Rejoins
  <2>3. ASSUME NEW g \in Events, wire' = Append(wire, g), stream, stream' = stream
        PROVE  OnItsWay(e)'
    <3>1. \A k \in DOMAIN wire : k \in DOMAIN wire' /\ wire'[k] = wire[k]  BY <2>1, <2>3
    <3>2. wire # <<>> => wire' # <<>> /\ Head(wire') = Head(wire)  BY <2>1, <2>3
    <3>3. CASE \E k \in DOMAIN wire : wire[k] = e  BY <3>1, <3>3 DEF OnItsWay
    <3>4. CASE \E k \in DOMAIN buffer[ctl] : buffer[ctl][k] = e  BY <1>1, <3>4 DEF OnItsWay
    <3>5. CASE Rejoins  BY <2>3, <3>2, <3>5 DEF OnItsWay, Rejoins
    <3> QED  BY <1>5, <3>3, <3>4, <3>5 DEF OnItsWay
  <2>4. ASSUME NEW g \in announcing, Announce(g) PROVE OnItsWay(e)'
    <3>1. g \in Events  BY DEF TypeOK, Events
    <3>2. stream' = stream /\ (wire' = wire \/ (wire' = Append(wire, g) /\ stream))
      BY <2>4 DEF Announce, Reaches
    <3> QED  BY <2>2, <2>3, <3>1, <3>2
  <2>5. ASSUME NEW s \in Sessions, AnnounceDelta(s) PROVE OnItsWay(e)'
    <3>1. DeltaOf(s) \in Events  BY DEF Events
    <3>2. stream' = stream /\ stream /\ wire' = Append(wire, DeltaOf(s))
      BY <2>5 DEF AnnounceDelta, Reaches
    <3> QED  BY <2>3, <3>1, <3>2
  <2>6. ASSUME Subscribed PROVE OnItsWay(e)'
    <3>1. wire = <<>> /\ wire' = Append(wire, Confirmation)  BY <2>6 DEF Subscribed, Socket
    <3>2. wire' # <<>> /\ Head(wire') = Confirmation  BY <2>1, <3>1
    <3> QED  BY <3>2 DEF OnItsWay, Rejoins
  <2>7. ASSUME Drop PROVE OnItsWay(e)'
    BY <2>7 DEF Drop, OnItsWay, Rejoins
  <2>8. ASSUME \/ UNCHANGED vars
               \/ \E s \in Sessions : Insert(s)
               \/ \E g \in inserting : Commit(g)
               \/ \E g \in announcing : AnnounceFails(g)
        PROVE  OnItsWay(e)'
    <3>1. wire' = wire /\ stream' = stream  BY <2>8 DEF Insert, Commit, AnnounceFails, vars
    <3> QED  BY <2>2, <3>1
  <2> QED  BY <2>4, <2>5, <2>6, <2>7, <2>8, Zenon DEF Quiet
<1>6. Reached'
  <2>1. SUFFICES ASSUME NEW e \in Ours', e \notin announcing' PROVE Good(e)' \/ OnItsWay(e)'
    BY DEF Reached
  <2>2. e \in Ours
    <3>1. Commit(e) => e \in announcing'  BY DEF Commit
    <3> QED  BY <1>1, <1>3, <2>1, <3>1 DEF Ours
  <2>3. CASE e \notin announcing  BY <1>2, <1>5, <2>2, <2>3 DEF Linked, Reached
  <2>4. CASE e \in announcing /\ AnnounceFails(e)
    <3>1. e \in silent'  BY <2>4 DEF AnnounceFails
    <3> QED  BY <3>1 DEF Good, Doomed
  <2>5. CASE e \in announcing /\ Announce(e)
    <3>1. e.session = view /\ e \in Events  BY <2>2 DEF Ours, TypeOK, Events
    <3>2. stream' = stream /\ (stream => wire' = Append(wire, e))
      BY <2>5, <3>1 DEF Announce, Reaches
    <3>3. CASE stream
      <4>1. wire \in Seq(Events \cup {Confirmation})  BY DEF TypeOK
      <4>2. Len(wire) + 1 \in DOMAIN wire' /\ wire'[Len(wire) + 1] = e  BY <3>1, <3>2, <3>3, <4>1
      <4> QED  BY <4>2 DEF OnItsWay
    <3>4. CASE ~stream
      BY <3>2, <3>4 DEF OnItsWay, Rejoins
    <3> QED  BY <3>3, <3>4
  <2> QED  BY <2>1, <2>3, <2>4, <2>5, RowsStay
<1>7. Behind'
  <2>1. \A e \in Ours' : e \in Ours \/ (e \in inserting /\ Commit(e) /\ e.session = view)
    BY <1>1, <1>3 DEF Ours
  <2>2. \A e \in Ours' : e.id \in Nat /\ e.id # 0
    <3>1. \A e \in Ours' : e \in Rows  BY <2>1 DEF Ours, TypeOK
    <3> QED  BY <3>1 DEF Rows
  <2>3. ASSUME NEW e \in Ours', e.id <= store'.max PROVE Good(e)'
    <3>1. CASE e \in Ours  BY <1>1, <1>2, <2>3, <3>1 DEF Linked, Behind
    <3>2. CASE e \in inserting /\ Commit(e) /\ e.session = view
      <4>1. store.max \in Nat /\ e.id <= store.max  BY <1>1, <2>3 DEF TypeOK, Stores
      <4>2. PICK f \in store.seen : f.id = store.max  BY <2>2, <4>1 DEF Fresh
      <4>3. f \in rows /\ f.session = view  BY DEF Browser
      <4>4. Doomed(e)'  BY <3>2, <4>1, <4>2, <4>3, Late
      <4> QED  BY <4>4 DEF Good
    <3> QED  BY <2>1, <3>1, <3>2
  <2>4. ASSUME NEW i \in DOMAIN fetches', fetches'[i].session = view', NEW e \in Ours',
               e.id <= fetches'[i].cursor \/ \E n \in DOMAIN fetches'[i].events : e.id <= n
        PROVE  Good(e)' \/ e.id \in DOMAIN fetches'[i].events
    <3>1. CASE e \in Ours  BY <1>1, <1>2, <2>4, <3>1 DEF Linked, Behind
    <3>2. CASE e \in inserting /\ Commit(e) /\ e.session = view
      <4>1. i \in DOMAIN fetches /\ fetches[i].cursor \in Nat
        <5>1. i \in DOMAIN fetches /\ fetches[i] \in Fetches  BY <1>1 DEF TypeOK
        <5> QED  BY <5>1 DEF Fetches
      <4>2. \E f \in rows : f.session = view /\ e.id <= f.id
        <5>1. CASE e.id <= fetches[i].cursor
          <6>1. fetches[i].cursor # 0  BY <2>2, <4>1, <5>1
          <6> QED  BY <1>1, <2>4, <4>1, <5>1, <6>1 DEF Linked, Cursors
        <5>2. CASE \E n \in DOMAIN fetches[i].events : e.id <= n
          <6>1. PICK n \in DOMAIN fetches[i].events : e.id <= n  BY <5>2
          <6>2. fetches[i].events[n] \in rows /\ fetches[i].events[n].id = n
                /\ fetches[i].events[n].session = fetches[i].session
            BY <4>1 DEF Browser
          <6> QED  BY <1>1, <2>4, <6>1, <6>2
        <5> QED  BY <1>1, <2>4, <5>1, <5>2
      <4>3. Doomed(e)'  BY <3>2, <4>2, Late
      <4> QED  BY <4>3 DEF Good
    <3> QED  BY <2>1, <3>1, <3>2
  <2>5. ASSUME NEW c \in Controllers, NEW e \in Ours', NEW k \in DOMAIN buffer'[c],
               ~Ephemeral(buffer'[c][k]), buffer'[c][k].session = view', e.id <= buffer'[c][k].id
        PROVE  Good(e)' \/ (c = ctl' /\ \E j \in DOMAIN buffer'[c] : buffer'[c][j] = e)
    <3>1. CASE e \in Ours  BY <1>1, <1>2, <2>5, <3>1 DEF Linked, Behind
    <3>2. CASE e \in inserting /\ Commit(e) /\ e.session = view
      <4>1. buffer[c][k] \in rows  BY <1>1, <2>5 DEF Browser
      <4>2. Doomed(e)'  BY <1>1, <2>5, <3>2, <4>1, Late
      <4> QED  BY <4>2 DEF Good
    <3> QED  BY <2>1, <3>1, <3>2
  <2> QED  BY <2>3, <2>4, <2>5 DEF Behind, Ephemeral
<1> QED  BY <1>4, <1>6, <1>7 DEF Linked

\* The first catch-up of a controller asks for everything.
LEMMA OpenStep ==
  ASSUME Whole, Linked, NEW s \in Sessions, Open(s), Browser'
  PROVE  Linked'
<1> USE DEF Whole
<1>1. /\ ctl \in Nat /\ ctl' = ctl + 1 /\ ctl + 1 \in Controllers /\ view' \in Sessions /\ 0 \in Nat
      /\ view' = s /\ store' = EmptyStore /\ stream' = FALSE
      /\ UNCHANGED <<rows, inserting, announcing, buffer, overtaken, silent>>
  BY BoundsAssumption DEF Open, TypeOK, Controllers, railsVars, pastVars
<1>2. PICK c \in Controllers : c = ctl'  BY <1>1
<1>3. CatchUp(c, 0)  BY <1>2 DEF Open, CatchUp
<1>4. PICK f \in Fetches :
        /\ f.ctl = c /\ f.session = view' /\ f.cursor = 0 /\ ~f.answered /\ f.events = <<>>
        /\ fetches' = Append(fetches, f)
  BY <1>1, <1>3, AskedFor DEF TypeOK
<1>5. fetches \in Seq(Fetches)  BY DEF TypeOK
<1>6. \A i \in DOMAIN fetches' : fetches'[i] = f \/ (i \in DOMAIN fetches /\ fetches'[i] = fetches[i])
  BY <1>4, <1>5
<1>7. Cursors'  BY <1>1, <1>4, <1>6 DEF Linked, Cursors
<1>8. Reached'  BY <1>1 DEF Reached, OnItsWay, Rejoins
<1>9. \A e \in Ours' : Good(e)'
  <2>1. SUFFICES ASSUME NEW e \in Ours' PROVE Safe(e)'  BY DEF Good
  <2>2. e \in Rows  BY <1>1, <2>1 DEF Ours, TypeOK
  <2>3. 0 < e.id  BY <2>2 DEF Rows
  <2>4. Len(fetches) + 1 \in DOMAIN fetches' /\ fetches'[Len(fetches) + 1] = f  BY <1>4, <1>5
  <2> QED  BY <1>2, <1>4, <2>3, <2>4 DEF Safe
<1>10. Behind'  BY <1>9 DEF Behind, Ephemeral
<1> QED  BY <1>7, <1>8, <1>10 DEF Linked

\* The answer holds what was asked for, as of now.
LEMMA AnswerStep ==
  ASSUME Whole, Linked, Backfill, [Next]_vars, ~BackfillFails, \A s \in Sessions : ~Open(s)
  PROVE  Linked'
<1> USE DEF Whole
<1>1. PICK i \in DOMAIN fetches, g \in Fetches :
        /\ fetches' = [fetches EXCEPT ![i] = g]
        /\ ~fetches[i].answered
        /\ g.ctl = fetches[i].ctl /\ g.session = fetches[i].session /\ g.cursor = fetches[i].cursor
        /\ \A n \in DOMAIN g.events :
             g.events[n] \in rows /\ g.events[n].id = n /\ g.events[n].session = g.session
        /\ \A e \in rows : e.session = g.session /\ e.id > g.cursor => e.id \in DOMAIN g.events
  BY Answered
<1>2. UNCHANGED <<railsVars, stream, wire, browserVars, pastVars>>  BY DEF Backfill
<1>3. \A e \in Ours : Good(e) => Good(e)'  BY GoodStays
<1>4. Ours' = Ours  BY <1>2 DEF Ours, railsVars, browserVars
<1>5. \A j \in DOMAIN fetches' : \/ j = i /\ fetches'[j] = g
                                 \/ j \in DOMAIN fetches /\ fetches'[j] = fetches[j]
  BY <1>1
<1>6. Cursors'  BY <1>1, <1>2, <1>5 DEF Linked, Cursors, railsVars
<1>7. \A e : OnItsWay(e) => OnItsWay(e)'  BY <1>2 DEF OnItsWay, Rejoins, browserVars
<1>8. Reached'  BY <1>2, <1>3, <1>4, <1>7 DEF Linked, Reached, railsVars
<1>9. ASSUME NEW j \in DOMAIN fetches', fetches'[j].session = view', NEW e \in Ours',
             e.id <= fetches'[j].cursor \/ \E n \in DOMAIN fetches'[j].events : e.id <= n
      PROVE  Good(e)' \/ e.id \in DOMAIN fetches'[j].events
  <2>1. view' = view /\ e \in Ours  BY <1>2, <1>4 DEF browserVars
  <2>2. CASE j \in DOMAIN fetches /\ fetches'[j] = fetches[j]
    BY <1>3, <1>9, <2>1, <2>2 DEF Linked, Behind
  <2>3. CASE j = i /\ fetches'[j] = g
    <3>1. e \in rows /\ e.session = g.session /\ e \in Rows  BY <1>9, <2>1, <2>3 DEF Ours, TypeOK
    <3>2. e.id \in Nat /\ g.cursor \in Nat  BY <3>1 DEF Rows, Fetches
    <3>3. CASE e.id > g.cursor  BY <1>1, <2>3, <3>1, <3>3
    <3>4. CASE e.id <= g.cursor
      <4>1. fetches[i].events = <<>>  BY <1>1 DEF Browser
      <4>2. Good(e) \/ e.id \in DOMAIN fetches[i].events
        BY <1>1, <1>9, <2>1, <2>3, <3>4 DEF Linked, Behind
      <4> QED  BY <1>3, <2>1, <4>1, <4>2
    <3> QED  BY <3>2, <3>3, <3>4
  <2> QED  BY <1>5, <2>2, <2>3
<1>10. \A e \in Ours' : e.id <= store'.max => Good(e)'
  BY <1>2, <1>3, <1>4 DEF Linked, Behind, browserVars
<1>11. ASSUME NEW d \in Controllers, NEW e \in Ours', NEW k \in DOMAIN buffer'[d],
              ~Ephemeral(buffer'[d][k]), buffer'[d][k].session = view', e.id <= buffer'[d][k].id
       PROVE  Good(e)' \/ (d = ctl' /\ \E j \in DOMAIN buffer'[d] : buffer'[d][j] = e)
  BY <1>2, <1>3, <1>4, <1>11 DEF Linked, Behind, browserVars
<1>12. Behind'  BY <1>9, <1>10, <1>11 DEF Behind, Ephemeral
<1> QED  BY <1>6, <1>8, <1>12 DEF Linked

\* What is older than the next event, of those announced, does not come after it.
LEMMA InOrder ==
  ASSUME Whole, Linked, Head(wire) \in Events, wire # <<>>, stream, NEW e \in Ours,
         ~Ephemeral(Head(wire)), e.id <= Head(wire).id, e # Head(wire)
  PROVE  Good(e) \/ \E k \in DOMAIN buffer[ctl] : buffer[ctl][k] = e
<1> USE DEF Whole
<1> DEFINE f == Head(wire)
<1>1. wire \in Seq(Events \cup {Confirmation})  BY DEF TypeOK
<1>2. f = wire[1] /\ 1 \in DOMAIN wire /\ \A k \in DOMAIN wire : k # 1 => 1 < k  BY <1>1
<1>3. f # Confirmation  BY NotConfirmed
<1>4. f \in rows /\ f.session = view  BY <1>2, <1>3 DEF Socket
<1>5. e \in rows /\ e.session = view /\ e \in Rows /\ f \in Rows  BY <1>4 DEF Ours, TypeOK
<1>6. e.id \in Nat /\ f.id \in Nat /\ e.id # f.id  BY <1>4, <1>5 DEF Table, Rows
<1>7. e.id < f.id  BY <1>6
<1>8. CASE e \in announcing
  <2>1. f \in Younger(e)  BY <1>4, <1>5, <1>6, <1>7 DEF Younger
  <2> QED  BY <1>8, <2>1 DEF Good, Doomed
<1>9. CASE e \notin announcing /\ ~Good(e)
  <2>1. OnItsWay(e)  BY <1>9 DEF Linked, Reached
  <2>2. ~Rejoins  BY <1>3 DEF Rejoins
  <2>3. ASSUME NEW k \in DOMAIN wire, wire[k] = e PROVE Good(e)
    <3>1. 1 < k  BY <1>2, <2>3
    <3>2. ~Ephemeral(wire[k]) /\ ~Ephemeral(wire[1]) /\ wire[k].id < wire[1].id
      BY <1>2, <1>5, <1>7, <2>3 DEF Ephemeral, Rows
    <3>3. e \in overtaken  BY <1>2, <2>3, <3>1, <3>2 DEF Socket
    <3> QED  BY <3>3 DEF Good, Doomed
  <2> QED  BY <2>1, <2>2, <2>3 DEF OnItsWay
<1> QED  BY <1>8, <1>9

LEMMA ReceiveStep ==
  ASSUME Whole, Linked, ~mixed, Receive, [Next]_vars, ~BackfillFails, \A s \in Sessions : ~Open(s),
         Fresh(store)', store' \in Stores
  PROVE  Linked'
<1> USE DEF Whole
<1>1. /\ ctl \in Controllers /\ view \in Sessions /\ stream
      /\ UNCHANGED <<railsVars, stream, view, ctl, pastVars>>
      /\ wire # <<>> /\ wire' = Tail(wire)
  BY Received
<1>2. /\ wire \in Seq(Events \cup {Confirmation}) /\ fetches \in Seq(Fetches)
      /\ live \in [Controllers -> BOOLEAN] /\ store \in Stores /\ store.max \in Nat
      /\ buffer \in [Controllers -> Seq(Events)]
  BY DEF TypeOK, Stores
<1>3. \A e \in Ours : Good(e) => Good(e)'  BY GoodStays
<1>4. Ours' = Ours /\ announcing' = announcing /\ view' = view /\ ctl' = ctl /\ rows' = rows
  BY <1>1 DEF Ours, railsVars
<1>5. \A e \in Ours : e \in Rows /\ e \in rows /\ e.id \in Nat /\ e.id # 0 /\ ~Ephemeral(e) /\ e.session = view
  <2>1. \A e \in Ours : e \in Rows  BY DEF Ours, TypeOK
  <2> QED  BY <2>1 DEF Ours, Rows, Ephemeral
<1>6. \A k \in DOMAIN wire : k # 1 => k - 1 \in DOMAIN wire' /\ wire'[k - 1] = wire[k]
  BY <1>1, <1>2
<1>7. Head(wire) = wire[1] /\ 1 \in DOMAIN wire  BY <1>1, <1>2
<1>8. CASE Head(wire) = Confirmation /\ CatchUp(ctl, store.max) /\ UNCHANGED <<store, buffer>>
  <2>1. PICK max \in Nat : max = store.max  BY <1>2
  <2>2. CatchUp(ctl, max)  BY <1>8, <2>1
  <2>3. view' \in Sessions  BY <1>1
  <2>4. PICK f \in Fetches :
          /\ f.ctl = ctl /\ f.session = view' /\ f.cursor = max /\ ~f.answered /\ f.events = <<>>
          /\ fetches' = Append(fetches, f)
    BY <1>1, <1>2, <2>2, <2>3, AskedFor
  <2>5. \A j \in DOMAIN fetches' : fetches'[j] = f \/ (j \in DOMAIN fetches /\ fetches'[j] = fetches[j])
    BY <1>2, <2>4
  <2>6. Cursors'
    <3>1. max = 0 \/ \E e \in rows : e.session = view /\ e.id = max
      <4>1. max = 0 \/ \E e \in store.seen : e.id = max  BY <2>1 DEF Fresh
      <4> QED  BY <4>1 DEF Browser
    <3>2. ASSUME NEW j \in DOMAIN fetches'
          PROVE  fetches'[j].cursor = 0
                 \/ \E e \in rows' : e.session = fetches'[j].session /\ e.id = fetches'[j].cursor
      <4>1. CASE fetches'[j] = f  BY <1>4, <2>4, <3>1, <4>1
      <4>2. CASE j \in DOMAIN fetches /\ fetches'[j] = fetches[j]
        BY <1>4, <4>2 DEF Linked, Cursors
      <4> QED  BY <2>5, <4>1, <4>2
    <3> QED  BY <3>2 DEF Cursors
  <2>7. \A e \in Ours : e.id <= max => Good(e)'  BY <1>3, <2>1 DEF Linked, Behind
  <2>8. \A e \in Ours : Good(e)'
    <3>1. SUFFICES ASSUME NEW e \in Ours, ~ (e.id <= max) PROVE Good(e)'  BY <2>7
    <3>2. max < e.id  BY <1>5, <3>1
    <3>3. Len(fetches) + 1 \in DOMAIN fetches' /\ fetches'[Len(fetches) + 1] = f  BY <1>2, <2>4
    <3>4. Safe(e)'  BY <1>4, <2>4, <3>2, <3>3 DEF Safe
    <3> QED  BY <3>4 DEF Good
  <2>9. Reached'  BY <1>4, <2>8 DEF Reached
  <2>10. Behind'  BY <1>4, <2>8 DEF Behind, Ephemeral
  <2> QED  BY <2>6, <2>9, <2>10 DEF Linked
<1>9. CASE Head(wire) \in Events /\ live[ctl] /\ store' = Apply(store, Head(wire))
           /\ UNCHANGED <<fetches, live, buffer>>
  <2> DEFINE f == Head(wire)
  <2>1. store'.seen = IF Ephemeral(f) THEN store.seen ELSE store.seen \cup {f}
    BY <1>2, <1>9, AppliedOne
  <2>2. Cursors'  BY <1>4, <1>9 DEF Linked, Cursors
  <2>3. ctl # 0 /\ buffer[ctl] = <<>>  BY <1>1, <1>9 DEF Browser, Controllers
  <2>4. f # Confirmation /\ ~Rejoins  BY <1>1, <1>9, NotConfirmed DEF Rejoins
  <2>5. Reached'
    <3>1. SUFFICES ASSUME NEW e \in Ours, e \notin announcing PROVE Good(e)' \/ OnItsWay(e)'
      BY <1>4 DEF Reached
    <3>2. CASE Good(e)  BY <1>3, <3>2
    <3>3. ASSUME NEW k \in DOMAIN wire, wire[k] = e PROVE Good(e)' \/ OnItsWay(e)'
      <4>1. CASE k = 1
        <5>1. e \in store'.seen  BY <1>5, <1>7, <2>1, <3>3, <4>1
        <5> QED  BY <5>1 DEF Good, Safe
      <4>2. CASE k # 1
        <5>1. k - 1 \in DOMAIN wire' /\ wire'[k - 1] = e  BY <1>6, <3>3, <4>2
        <5> QED  BY <5>1 DEF OnItsWay
      <4> QED  BY <4>1, <4>2
    <3> QED  BY <2>3, <2>4, <3>1, <3>2, <3>3 DEF Linked, Reached, OnItsWay
  <2>6. ASSUME NEW e \in Ours, e.id <= store'.max PROVE Good(e)'
    <3>1. PICK g \in store'.seen : g.id = store'.max
      <4>1. store'.max # 0  BY <1>5, <2>6 DEF Stores
      <4> QED  BY <4>1 DEF Fresh
    <3>2. CASE g \in store.seen
      <4>1. g.id <= store.max /\ g.id \in Nat  BY <1>2, <3>2 DEF Fresh, Stores, Rows
      <4>2. e.id <= store.max  BY <1>2, <1>5, <2>6, <3>1, <4>1
      <4> QED  BY <1>3, <4>2 DEF Linked, Behind
    <3>3. CASE g \notin store.seen
      <4>1. g = f /\ ~Ephemeral(f)  BY <2>1, <3>1, <3>3
      <4>2. CASE e = f
        <5>1. e \in store'.seen  BY <2>1, <4>1, <4>2
        <5> QED  BY <5>1 DEF Good, Safe
      <4>3. CASE e # f
        <5>1. Good(e) \/ \E k \in DOMAIN buffer[ctl] : buffer[ctl][k] = e
          BY <1>1, <1>9, <2>6, <3>1, <4>1, <4>3, InOrder
        <5> QED  BY <1>3, <2>3, <5>1
      <4> QED  BY <4>2, <4>3
    <3> QED  BY <3>2, <3>3
  <2>7. ASSUME NEW j \in DOMAIN fetches', fetches'[j].session = view', NEW e \in Ours',
               e.id <= fetches'[j].cursor \/ \E n \in DOMAIN fetches'[j].events : e.id <= n
        PROVE  Good(e)' \/ e.id \in DOMAIN fetches'[j].events
    BY <1>3, <1>4, <1>9, <2>7 DEF Linked, Behind
  <2>8. ASSUME NEW d \in Controllers, NEW e \in Ours', NEW k \in DOMAIN buffer'[d],
               ~Ephemeral(buffer'[d][k]), buffer'[d][k].session = view', e.id <= buffer'[d][k].id
        PROVE  Good(e)' \/ (d = ctl' /\ \E j \in DOMAIN buffer'[d] : buffer'[d][j] = e)
    BY <1>3, <1>4, <1>9, <2>8 DEF Linked, Behind
  <2>9. Behind'  BY <1>4, <2>6, <2>7, <2>8 DEF Behind, Ephemeral
  <2> QED  BY <2>2, <2>5, <2>9 DEF Linked
<1>10. CASE Head(wire) \in Events /\ ~live[ctl]
            /\ buffer' = [buffer EXCEPT ![ctl] = Append(@, Head(wire))]
            /\ UNCHANGED <<fetches, live, store>>
  <2> DEFINE f == Head(wire)
  <2>1. buffer[ctl] \in Seq(Events) /\ buffer'[ctl] = Append(buffer[ctl], f)  BY <1>1, <1>2, <1>10
  <2>2. /\ \A k \in DOMAIN buffer[ctl] : k \in DOMAIN buffer'[ctl] /\ buffer'[ctl][k] = buffer[ctl][k]
        /\ Len(buffer[ctl]) + 1 \in DOMAIN buffer'[ctl] /\ buffer'[ctl][Len(buffer[ctl]) + 1] = f
        /\ \A k \in DOMAIN buffer'[ctl] : buffer'[ctl][k] = f
                                        \/ (k \in DOMAIN buffer[ctl] /\ buffer'[ctl][k] = buffer[ctl][k])
    BY <1>10, <2>1
  <2>3. \A d \in Controllers : d # ctl => buffer'[d] = buffer[d]  BY <1>2, <1>10
  <2>4. Cursors'  BY <1>4, <1>10 DEF Linked, Cursors
  <2>5. f # Confirmation /\ ~Rejoins  BY <1>1, <1>10, NotConfirmed DEF Rejoins
  <2>6. Reached'
    <3>1. SUFFICES ASSUME NEW e \in Ours, e \notin announcing PROVE Good(e)' \/ OnItsWay(e)'
      BY <1>4 DEF Reached
    <3>2. CASE Good(e)  BY <1>3, <3>2
    <3>3. ASSUME NEW k \in DOMAIN wire, wire[k] = e PROVE Good(e)' \/ OnItsWay(e)'
      <4>1. CASE k = 1  BY <1>4, <1>7, <2>2, <3>3, <4>1 DEF OnItsWay
      <4>2. CASE k # 1
        <5>1. k - 1 \in DOMAIN wire' /\ wire'[k - 1] = e  BY <1>6, <3>3, <4>2
        <5> QED  BY <5>1 DEF OnItsWay
      <4> QED  BY <4>1, <4>2
    <3>4. ASSUME NEW k \in DOMAIN buffer[ctl], buffer[ctl][k] = e PROVE OnItsWay(e)'
      BY <1>4, <2>2, <3>4 DEF OnItsWay
    <3> QED  BY <2>5, <3>1, <3>2, <3>3, <3>4 DEF Linked, Reached, OnItsWay
  <2>7. \A e \in Ours : e.id <= store'.max => Good(e)'  BY <1>3, <1>10 DEF Linked, Behind
  <2>8. ASSUME NEW j \in DOMAIN fetches', fetches'[j].session = view', NEW e \in Ours',
               e.id <= fetches'[j].cursor \/ \E n \in DOMAIN fetches'[j].events : e.id <= n
        PROVE  Good(e)' \/ e.id \in DOMAIN fetches'[j].events
    BY <1>3, <1>4, <1>10, <2>8 DEF Linked, Behind
  <2>9. ASSUME NEW d \in Controllers, NEW e \in Ours', NEW k \in DOMAIN buffer'[d],
               ~Ephemeral(buffer'[d][k]), buffer'[d][k].session = view', e.id <= buffer'[d][k].id
        PROVE  Good(e)' \/ (d = ctl' /\ \E j \in DOMAIN buffer'[d] : buffer'[d][j] = e)
    <3>1. CASE d # ctl
      BY <1>3, <1>4, <2>3, <2>9, <3>1 DEF Linked, Behind
    <3>2. CASE d = ctl /\ k \in DOMAIN buffer[ctl] /\ buffer'[ctl][k] = buffer[ctl][k]
      <4>1. Good(e) \/ \E j \in DOMAIN buffer[ctl] : buffer[ctl][j] = e
        BY <1>1, <1>4, <2>9, <3>2 DEF Linked, Behind
      <4> QED  BY <1>3, <1>4, <2>2, <3>2, <4>1
    <3>3. CASE d = ctl /\ buffer'[ctl][k] = f
      <4>1. CASE e = f  BY <1>4, <2>2, <3>3, <4>1
      <4>2. CASE e # f
        <5>1. Good(e) \/ \E j \in DOMAIN buffer[ctl] : buffer[ctl][j] = e
          BY <1>1, <1>4, <1>10, <2>9, <3>3, <4>2, InOrder
        <5> QED  BY <1>3, <1>4, <2>2, <3>3, <5>1
      <4> QED  BY <4>1, <4>2
    <3> QED  BY <2>2, <2>9, <3>1, <3>2, <3>3
  <2>10. Behind'  BY <1>4, <2>7, <2>8, <2>9 DEF Behind, Ephemeral
  <2> QED  BY <2>4, <2>6, <2>10 DEF Linked
<1> QED  BY <1>8, <1>9, <1>10, Received

\* A catch-up leaves out no row that it, or what it lets pass, has gone past.
LEMMA ArrivesStep ==
  ASSUME Whole, Linked, ~mixed, BackfillArrives, [Next]_vars, ~BackfillFails,
         \A s \in Sessions : ~Open(s), Fresh(store)', store' \in Stores, ~mixed', Browser'
  PROVE  Linked'
<1> USE DEF Whole
<1>1. PICK i \in DOMAIN fetches :
        /\ store' = Filled(fetches[i])
        /\ buffer' = [buffer EXCEPT ![fetches[i].ctl] = <<>>]
        /\ fetches' = RemoveAt(fetches, i)
        /\ UNCHANGED <<railsVars, stream, wire, view, ctl>>
  BY DEF BackfillArrives, Filled
<1> DEFINE f == fetches[i]
           max == MaxBackfilledId(f)
<1>2. /\ f \in Fetches /\ f.ctl \in Controllers
      /\ \A n \in DOMAIN f.events : n \in 1 .. lastId
      /\ store'.seen = store.seen \cup {f.events[n] : n \in DOMAIN f.events}
                         \cup {e \in Rows : /\ \E k \in DOMAIN buffer[f.ctl] : buffer[f.ctl][k] = e
                                            /\ e.id > max}
  BY <1>1, Arrived
<1>3. max \in Nat /\ (max = f.cursor \/ max \in DOMAIN f.events)
  BY <1>2, BackfilledTo DEF TypeOK
<1>4. \A e \in Ours : Good(e) => Good(e)'  BY GoodStays
<1>5. Ours' = Ours /\ announcing' = announcing /\ view' = view /\ ctl' = ctl /\ rows' = rows
  BY <1>1 DEF Ours, railsVars
<1>6. \A e \in Ours : e \in Rows /\ e \in rows /\ e.id \in Nat /\ e.id # 0 /\ ~Ephemeral(e) /\ e.session = view
  <2>1. \A e \in Ours : e \in Rows  BY DEF Ours, TypeOK
  <2> QED  BY <2>1 DEF Ours, Rows, Ephemeral
<1>7. \A k \in DOMAIN fetches' : \E j \in DOMAIN fetches : fetches'[k] = fetches[j]
  BY <1>1, Removed DEF TypeOK
<1>8. \A d \in Controllers : buffer'[d] = IF d = f.ctl THEN <<>> ELSE buffer[d]
  BY <1>1, <1>2 DEF TypeOK
<1>9. \A e \in Ours : e \in store'.seen => Good(e)'  BY DEF Good, Safe
<1>10. ASSUME NEW e \in Ours, e.id \in DOMAIN f.events PROVE Good(e)'
  <2>1. f.events[e.id] \in rows /\ f.events[e.id].id = e.id  BY <1>10 DEF Browser
  <2>2. f.events[e.id] = e  BY <1>6, <2>1 DEF Table
  <2>3. e \in store'.seen  BY <1>2, <1>10, <2>2
  <2> QED  BY <1>9, <2>3
\* What the catch-up has gone past.
<1>11. ASSUME NEW e \in Ours, f.session = view, e.id <= f.cursor \/ \E n \in DOMAIN f.events : e.id <= n
       PROVE  Good(e)'
  BY <1>4, <1>10, <1>11 DEF Linked, Behind
\* What was held back is shown, or the catch-up has gone past it.
<1>12. ASSUME NEW e \in Ours, f.ctl = ctl, NEW k \in DOMAIN buffer[ctl], buffer[ctl][k] = e
       PROVE  Good(e)'
  <2>1. CASE e.id > max
    <3>1. e \in store'.seen  BY <1>2, <1>6, <1>12, <2>1
    <3> QED  BY <1>9, <3>1
  <2>2. CASE e.id <= max
    <3>1. f.session = view  BY <1>12 DEF Browser
    <3> QED  BY <1>3, <1>11, <2>2, <3>1
  <2> QED  BY <1>3, <1>6, <2>1, <2>2
<1>13. Cursors'  BY <1>5, <1>7 DEF Linked, Cursors
<1>14. Reached'
  <2>1. SUFFICES ASSUME NEW e \in Ours, e \notin announcing PROVE Good(e)' \/ OnItsWay(e)'
    BY <1>5 DEF Reached
  <2>2. CASE Good(e)  BY <1>4, <2>2
  <2>3. CASE \E k \in DOMAIN wire : wire[k] = e  BY <1>1, <2>3 DEF OnItsWay
  <2>4. ASSUME NEW k \in DOMAIN buffer[ctl], buffer[ctl][k] = e PROVE Good(e)' \/ OnItsWay(e)'
    <3>1. CASE f.ctl = ctl  BY <1>12, <2>4, <3>1
    <3>2. CASE f.ctl # ctl
      <4>1. ctl \in Controllers
        <5>1. ctl # 0
          <6>1. f.ctl \in Nat /\ f.ctl # 0 /\ f.ctl <= ctl  BY <1>2 DEF Browser, Controllers
          <6> QED  BY <6>1
        <5> QED  BY <5>1, BoundsAssumption DEF TypeOK, Controllers
      <4>2. buffer'[ctl'] = buffer[ctl]  BY <1>5, <1>8, <3>2, <4>1
      <4> QED  BY <2>4, <4>2 DEF OnItsWay
    <3> QED  BY <3>1, <3>2
  <2>5. CASE Rejoins  BY <1>1, <2>5 DEF OnItsWay, Rejoins
  <2> QED  BY <2>1, <2>2, <2>3, <2>4, <2>5 DEF Linked, Reached, OnItsWay
<1>15. ASSUME NEW e \in Ours, e.id <= store'.max PROVE Good(e)'
  <2>1. PICK g \in store'.seen : g.id = store'.max
    <3>1. store'.max # 0  BY <1>6, <1>15 DEF Stores
    <3> QED  BY <3>1 DEF Fresh
  <2>2. g \in rows /\ g.session = view /\ g \in Rows /\ ~Ephemeral(g) /\ g.id \in Nat
    <3>1. g \in rows /\ g.session = view  BY <1>5, <2>1 DEF Browser
    <3> QED  BY <3>1 DEF TypeOK, Rows, Ephemeral
  <2>3. CASE g \in store.seen
    <3>1. g.id <= store.max /\ store.max \in Nat  BY <2>3 DEF Fresh, TypeOK, Stores
    <3>2. e.id <= store.max  BY <1>6, <1>15, <2>1, <2>2, <3>1
    <3> QED  BY <1>4, <3>2 DEF Linked, Behind
  <2>4. ASSUME NEW n \in DOMAIN f.events, g = f.events[n] PROVE Good(e)'
    <3>1. f.session = view /\ n = g.id  BY <2>2, <2>4 DEF Browser
    <3> QED  BY <1>11, <1>15, <2>1, <2>4, <3>1
  <2>5. ASSUME NEW k \in DOMAIN buffer[f.ctl], buffer[f.ctl][k] = g PROVE Good(e)'
    <3>1. Good(e) \/ (f.ctl = ctl /\ \E j \in DOMAIN buffer[f.ctl] : buffer[f.ctl][j] = e)
      BY <1>2, <1>15, <2>1, <2>2, <2>5 DEF Linked, Behind
    <3> QED  BY <1>4, <1>12, <3>1
  <2> QED  BY <1>2, <2>1, <2>3, <2>4, <2>5
<1>16. ASSUME NEW k \in DOMAIN fetches', fetches'[k].session = view', NEW e \in Ours',
              e.id <= fetches'[k].cursor \/ \E n \in DOMAIN fetches'[k].events : e.id <= n
       PROVE  Good(e)' \/ e.id \in DOMAIN fetches'[k].events
  <2>1. PICK j \in DOMAIN fetches : fetches'[k] = fetches[j]  BY <1>7
  <2>2. Good(e) \/ e.id \in DOMAIN fetches[j].events
    BY <1>5, <1>16, <2>1 DEF Linked, Behind
  <2> QED  BY <1>4, <1>5, <2>1, <2>2
<1>17. ASSUME NEW d \in Controllers, NEW e \in Ours', NEW k \in DOMAIN buffer'[d],
              ~Ephemeral(buffer'[d][k]), buffer'[d][k].session = view', e.id <= buffer'[d][k].id
       PROVE  Good(e)' \/ (d = ctl' /\ \E j \in DOMAIN buffer'[d] : buffer'[d][j] = e)
  <2>1. buffer'[d] = buffer[d]
    <3>1. d # f.ctl  BY <1>8, <1>17
    <3> QED  BY <1>8, <3>1
  <2>2. Good(e) \/ (d = ctl /\ \E j \in DOMAIN buffer[d] : buffer[d][j] = e)
    BY <1>5, <1>17, <2>1 DEF Linked, Behind
  <2> QED  BY <1>4, <1>5, <2>1, <2>2
<1>18. Behind'  BY <1>5, <1>15, <1>16, <1>17 DEF Behind, Ephemeral
<1> QED  BY <1>13, <1>14, <1>18 DEF Linked

\* Inv holds in every reachable state: what the table, the socket and the browser hold fits
\* together, and no row is left behind without an explanation.
THEOREM Invariance == Spec => []Inv
<1>1. ASSUME Inv, [Next]_vars PROVE Inv'
  <2>1. Whole  BY <1>1 DEF Inv, Whole
  <2>2. /\ TypeOK' /\ Fresh(store)' /\ Table' /\ Socket' /\ Browser'
    BY <1>1, <2>1, TypeStep, TableStep, SocketStep, BrowserStep DEF Whole
  <2>3. ASSUME Clear' PROVE Linked'
    <3>1. Clear /\ ~BackfillFails  BY <1>1, <2>1, <2>3, ClearBefore DEF Whole
    <3>2. Linked /\ ~mixed /\ ~mixed'  BY <1>1, <2>3, <3>1 DEF Inv, Linked, Clear
    <3>3. store' \in Stores  BY <2>2 DEF TypeOK
    <3>4. CASE \E s \in Sessions : Open(s)  BY <2>1, <2>2, <3>2, <3>4, OpenStep
    <3>5. CASE \A s \in Sessions : ~Open(s)
      <4>1. CASE Receive  BY <1>1, <2>1, <2>2, <3>1, <3>2, <3>3, <3>5, <4>1, ReceiveStep
      <4>2. CASE BackfillArrives  BY <1>1, <2>1, <2>2, <3>1, <3>2, <3>3, <3>5, <4>2, ArrivesStep
      <4>3. CASE Backfill  BY <1>1, <2>1, <3>1, <3>2, <3>5, <4>3, AnswerStep
      <4>4. CASE Quiet  BY <1>1, <2>1, <3>1, <3>2, <3>5, <4>4, QuietStep
      <4>5. Receive \/ BackfillArrives \/ Backfill \/ Quiet
        BY <1>1, <3>1, <3>5, Zenon DEF Next, Quiet
      <4> QED  BY <4>1, <4>2, <4>3, <4>4, <4>5
    <3> QED  BY <3>4, <3>5
  <2> QED  BY <2>2, <2>3 DEF Inv, Linked
<1> QED  BY <1>1, InitInv, PTL DEF Spec

-----------------------------------------------------------------------------
(* What a session shows.                                                   *)

\* No live text is shown beside the settled text it became, nor after its run
\* (event_store.ts, applyDelta and reconcileLive), in whatever order the socket, the buffer
\* and the backfills bring the events.
THEOREM LiveTextFresh == Spec => []LiveTextIsFresh
<1>1. Inv => LiveTextIsFresh  BY DEF Inv, Fresh, LiveTextIsFresh, Shown
<1> QED  BY <1>1, Invariance, PTL

\* A feed that has caught up misses no row of its session, but those whose announcement failed
\* or came after a younger row was visible (cable.ts, catchUp): for any number of sessions
\* opened one after another, of threads that record events, and of sockets that drop.
THEOREM GapsExplained == Spec => []GapsAreExplained
<1>1. ASSUME Inv, Settled, Clear PROVE Missed \subseteq overtaken \cup silent
  <2>1. SUFFICES ASSUME NEW e \in Missed PROVE e \in overtaken \cup silent  OBVIOUS
  <2>2. e \in Ours /\ e \notin announcing /\ e \notin store.seen  BY DEF Missed, Shown, Ours
  <2>3. stream /\ wire = <<>> /\ live[ctl] /\ \A i \in DOMAIN fetches : fetches[i].ctl # ctl
    BY <1>1 DEF Settled, Range
  <2>4. ctl # 0 /\ buffer[ctl] = <<>>  BY <1>1, <2>3 DEF Inv, Socket, Browser
  <2>5. ~OnItsWay(e)  BY <2>3, <2>4 DEF OnItsWay, Rejoins
  <2>6. Good(e)  BY <1>1, <2>2, <2>5 DEF Inv, Reached
  <2>7. ~Safe(e)  BY <2>2, <2>3 DEF Safe
  <2> QED  BY <2>2, <2>6, <2>7 DEF Good, Doomed
<1>2. Inv => GapsAreExplained  BY <1>1 DEF GapsAreExplained, Clear
<1> QED  BY <1>2, Invariance, PTL

-----------------------------------------------------------------------------
(* How the events table follows the harness's record, for any repairs,     *)
(* runs, entries and limits.  The table is eventRows in Projection; rows   *)
(* are the ones of it that the feed is about.                              *)

\* The statuses of a run that has no row of Rails's own but a guess.
Young == {"unborn", "queued", "running"}

Statuses == Young \cup Decided \cup {"awaiting_review", "failed", "completed_clean", "destroyed"}
Entry == [run : Runs, seq : Nat, type : Ends \cup {"run_started", "tool_finished", "store_only"}]
Job == [mode : {"none", "gap-fill", "reset"}, at : {"none", "fetch", "replay", "done", "void", "failed"},
        from : Nat, upto : Nat, todo : SUBSET Nat]

\* What each variable is, as far as the properties need it.
Shape ==
  /\ log \in Seq(Entry) /\ Len(log) <= MaxLog
  /\ ring \in Seq(Nat) /\ \A n \in DOMAIN ring : ring[n] \in Emitted
  /\ status \in [Runs -> Statuses]
  /\ repair \in [Repairs -> Job]
  /\ \A w \in Repairs : repair[w].todo \subseteq Emitted /\ repair[w].upto <= Len(log)
  /\ shown \in [1 .. MaxLog -> Nat]

\* The loop never uses a seq of a run twice.
Numbered ==
  /\ \A i \in Emitted : log[i].seq <= Cardinality(Entries(log[i].run))
  /\ \A i, j \in Emitted : log[i].run = log[j].run /\ log[i].seq = log[j].seq => i = j

\* A row is of the entry it names, or of nothing once its run is destroyed; one of Rails's own
\* with a seq of its own is of a run that no start is waited for any more.
Truthful(table, st) ==
  \A row \in table :
    /\ row.store # 0 => /\ row.store \in Emitted /\ row.seq = log[row.store].seq
                        /\ \/ row.run = log[row.store].run
                           \/ row.run = 0 /\ st[log[row.store].run] = "destroyed"
    /\ row.store = 0 /\ row.seq # 0 => row.run \in Runs /\ st[row.run] \notin Young

LEMMA EntryIs ==
  ASSUME Shape, NEW i \in Positions
  PROVE  log[i] \in Entry /\ log[i].run \in Runs /\ log[i].seq \in Nat /\ i \in 1 .. Len(log) /\ i \in Nat \ {0}
<1>1. log \in Seq(Entry) /\ i \in 1 .. Len(log) /\ Len(log) \in Nat
  BY DEF Shape, Positions
<1>2. log[i] \in Entry
  BY <1>1
<1> QED BY <1>1, <1>2 DEF Entry

LEMMA EntriesFinite ==
  ASSUME Shape, NEW r
  PROVE  Cardinality(Entries(r)) \in Nat
<1>1. Entries(r) \subseteq 1 .. Len(log) /\ Len(log) \in Nat
  BY DEF Shape, Entries, Emitted, Positions
<1>2. IsFiniteSet(1 .. Len(log))
  BY <1>1, FS_Interval
<1> QED BY <1>1, <1>2, FS_Subset, FS_CardinalityType

\* One event is ingested: what was there stays, its row is there, and no run rises again.
LEMMA IngestKeeps ==
  ASSUME Shape, NEW table, NEW st \in [Runs -> Statuses], NEW ok \in BOOLEAN, Truthful(table, st),
         NEW i \in Emitted, i \in Positions, st[log[i].run] # "destroyed", NEW db,
         db = Ingest([rows |-> table, status |-> st, ok |-> ok], i)
  PROVE  /\ db = [rows |-> db.rows, status |-> db.status, ok |-> db.ok]
         /\ db.status \in [Runs -> Statuses] /\ db.ok \in BOOLEAN
         /\ Truthful(db.rows, db.status) /\ table \subseteq db.rows
         /\ Taken(table, log[i].run, log[i].seq) => db.rows = table /\ db.status = st
         /\ ~Taken(table, log[i].run, log[i].seq) => RowOf(i) \in db.rows
         /\ db.ok => RowOf(i) \in db.rows
         /\ \A r \in Runs : db.status[r] = "destroyed" <=> st[r] = "destroyed"
<1> DEFINE r == log[i].run
           row == RowOf(i)
           d == [rows |-> table \cup {row}, status |-> st, ok |-> ok]
           own == Own(r, NextSeq(d.rows, r), "changeset_ready")
<1> DEFINE Goal ==
               /\ db = [rows |-> db.rows, status |-> db.status, ok |-> db.ok]
               /\ db.status \in [Runs -> Statuses] /\ db.ok \in BOOLEAN
               /\ Truthful(db.rows, db.status) /\ table \subseteq db.rows
               /\ Taken(table, log[i].run, log[i].seq) => db.rows = table /\ db.status = st
               /\ ~Taken(table, log[i].run, log[i].seq) => RowOf(i) \in db.rows
               /\ db.ok => RowOf(i) \in db.rows
               /\ \A q \in Runs : db.status[q] = "destroyed" <=> st[q] = "destroyed"
<1>1. /\ r \in Runs /\ i \in Nat \ {0}
      /\ row.run = r /\ row.seq = log[i].seq /\ row.store = i
      /\ own.run = r /\ own.store = 0
  BY EntryIs DEF RowOf, Own
<1>2. CASE Taken(table, r, log[i].seq)
  <2>1. db = [rows |-> table, status |-> st, ok |-> FALSE]
    BY <1>2 DEF Ingest, Refused
  <2>2. db.rows = table /\ db.status = st /\ db.ok = FALSE
    BY <2>1
  <2> QED BY <1>2, <2>1, <2>2
<1>3. ASSUME ~Taken(table, r, log[i].seq) PROVE Goal
  <2>1. db = Settle(d, r, log[i].type)
    BY <1>3 DEF Ingest
  <2> DEFINE t == table \cup {row}
  <2> HIDE DEF row
  <2>2. Truthful(t, st) /\ table \subseteq t /\ row \in t
    BY <1>1 DEF Truthful
  <2>3. ASSUME NEW s \in Statuses, s # "destroyed", s \in Young => st[r] = "queued" /\ s = "running"
        PROVE  LET u == [st EXCEPT ![r] = s]
               IN  /\ u \in [Runs -> Statuses] /\ Truthful(t, u)
                   /\ \A q \in Runs : u[q] = "destroyed" <=> st[q] = "destroyed"
    BY <1>1, <2>2, <2>3 DEF Truthful, Young
  <2>4. ASSUME NEW b \in BOOLEAN, db = [rows |-> t, status |-> st, ok |-> b]
        PROVE  Goal
    <3>1. db.rows = t /\ db.status = st /\ db.ok = b
      BY <2>4
    <3> QED BY <1>3, <2>2, <2>4, <3>1 DEF row
  <2>5. ASSUME NEW s \in Statuses, s # "destroyed", s \in Young => st[r] = "queued" /\ s = "running",
               NEW u, u = [st EXCEPT ![r] = s], db = [rows |-> t, status |-> u, ok |-> ok]
        PROVE  Goal
    <3>1. db.rows = t /\ db.status = u /\ db.ok = ok
      <4> HIDE DEF t
      <4>1. db.rows = t
        BY ONLY <2>5
      <4>2. db.status = u
        BY ONLY <2>5
      <4>3. db.ok = ok
        BY ONLY <2>5
      <4> QED BY <4>1, <4>2, <4>3
    <3>2. /\ u \in [Runs -> Statuses] /\ Truthful(t, u)
          /\ \A q \in Runs : u[q] = "destroyed" <=> st[q] = "destroyed"
      BY <2>3, <2>5
    <3> QED BY <1>3, <2>2, <2>5, <3>1, <3>2 DEF row
  <2>6. ASSUME NEW u, u = [st EXCEPT ![r] = "awaiting_review"],
               db = [rows |-> t \cup {own}, status |-> u, ok |-> ok]
        PROVE  Goal
    <3>1. db.rows = t \cup {own} /\ db.status = u /\ db.ok = ok
      <4> HIDE DEF t, own
      <4>1. db.rows = t \cup {own}
        BY ONLY <2>6
      <4>2. db.status = u
        BY ONLY <2>6
      <4>3. db.ok = ok
        BY ONLY <2>6
      <4> QED BY <4>1, <4>2, <4>3
    <3>2. /\ u \in [Runs -> Statuses] /\ Truthful(t, u)
          /\ \A q \in Runs : u[q] = "destroyed" <=> st[q] = "destroyed"
      <4>1. "awaiting_review" \notin Young
        BY DEF Young
      <4>2. "awaiting_review" \in Statuses /\ "awaiting_review" # "destroyed"
        BY DEF Statuses
      <4> HIDE DEF t
      <4> QED BY ONLY <2>3, <2>6, <4>1, <4>2
    <3>3. u[r] = "awaiting_review"
      BY <1>1, <2>6
    <3>4. Truthful(t \cup {own}, u)
      <4> HIDE DEF own
      <4> QED BY <1>1, <3>2, <3>3 DEF Truthful, Young
    <3> HIDE DEF own
    <3> QED BY <1>3, <2>2, <2>6, <3>1, <3>2, <3>4 DEF row
  <2>7. d = [rows |-> t, status |-> st, ok |-> ok]
    OBVIOUS
  <2>8. \/ EnterReview(d, r) = d
        \/ EnterReview(d, r) = [rows |-> t \cup {own}, status |-> [st EXCEPT ![r] = "awaiting_review"], ok |-> ok]
        \/ EnterReview(d, r) = [rows |-> t, status |-> st, ok |-> FALSE]
    BY DEF EnterReview, Refused
  <2>9. \/ db = d \/ db = EnterReview(d, r)
        \/ st[r] = "queued" /\ db = [rows |-> t, status |-> [st EXCEPT ![r] = "running"], ok |-> ok]
        \/ \E s \in {"failed", "completed_clean"} : db = [rows |-> t, status |-> [st EXCEPT ![r] = s], ok |-> ok]
    BY <2>1 DEF Settle
  <2> HIDE DEF d, own, t, Goal
  <2>10. Goal \/ db = EnterReview(d, r)
    <3>1. CASE db = d
      BY <2>4, <2>7, <3>1
    <3>2. CASE st[r] = "queued" /\ db = [rows |-> t, status |-> [st EXCEPT ![r] = "running"], ok |-> ok]
      <4>1. "running" \in Statuses /\ "running" # "destroyed"
        BY DEF Statuses, Young
      <4> DEFINE v == [st EXCEPT ![r] = "running"]
      <4>2. db = [rows |-> t, status |-> v, ok |-> ok]
        BY <3>2
      <4> QED BY ONLY <2>5, <3>2, <4>1, <4>2
    <3>3. ASSUME NEW s \in {"failed", "completed_clean"},
                 db = [rows |-> t, status |-> [st EXCEPT ![r] = s], ok |-> ok]
          PROVE  Goal
      <4>1. s \notin Young /\ s # "destroyed" /\ s \in Statuses
        BY <3>3, SMTT(30) DEF Young, Statuses
      <4> QED BY <2>5, <3>3, <4>1, SMTT(30)
    <3> QED BY <2>9, <3>1, <3>2, <3>3
  <2>11. EnterReview(d, r) = db => Goal
    BY <2>4, <2>6, <2>7, <2>8
  <2> QED BY <2>10, <2>11 DEF Goal
<1> QED BY <1>2, <1>3

\* What a reset replays, one position after the other.
LEMMA Replayed ==
  ASSUME Shape, NEW todo
  PROVE  \E after :
           /\ after = [i \in 0 .. Len(log) |->
                         IF i = 0 THEN [rows |-> eventRows \ Recorded, status |-> status, ok |-> TRUE]
                         ELSE IF i \in todo /\ after[i - 1].ok THEN Ingest(after[i - 1], i)
                         ELSE after[i - 1]]
           /\ Rebuilt(todo) = after[Len(log)]
<1> DEFINE n == Len(log)
           kept == [rows |-> eventRows \ Recorded, status |-> status, ok |-> TRUE]
           One(a, i) == IF i \in todo /\ a.ok THEN Ingest(a, i) ELSE a
           Is(f, m) == f = [i \in 0 .. m |-> IF i = 0 THEN kept ELSE One(f[i - 1], i)]
           S == {m \in 0 .. n : \E f : Is(f, m)}
<1>0. n \in Nat
  BY DEF Shape
<1>1. 0 \in S
  <2> DEFINE f == [i \in 0 .. 0 |-> kept]
  <2>1. Is(f, 0)  OBVIOUS
  <2>2. 0 \in 0 .. n  BY <1>0
  <2> HIDE DEF f, Is, n
  <2> QED  BY <2>1, <2>2
<1>2. ASSUME NEW m \in 0 .. n, m \in S, m # n PROVE m + 1 \in S
  <2>1. PICK g : Is(g, m)  BY <1>2
  <2> HIDE DEF One, n, kept
  <2>2. DOMAIN g = 0 .. m /\ \A i \in 0 .. m : g[i] = IF i = 0 THEN kept ELSE One(g[i - 1], i)
    BY <2>1
  <2> DEFINE f == [i \in 0 .. m + 1 |-> IF i = m + 1 THEN One(g[m], m + 1) ELSE g[i]]
  <2>3. ASSUME NEW i \in 0 .. m + 1 PROVE f[i] = IF i = 0 THEN kept ELSE One(f[i - 1], i)
    <3>0. m \in Nat  BY <1>0
    <3>1. CASE i = m + 1
      <4>1. i # 0 /\ i - 1 = m /\ f[i - 1] = g[m]  BY <3>0, <3>1
      <4> QED  BY <3>1, <4>1
    <3>2. CASE i # m + 1
      <4>1. i \in 0 .. m /\ f[i] = g[i]  BY <3>0, <3>2
      <4>2. i # 0 => i - 1 \in 0 .. m + 1 /\ i - 1 # m + 1 /\ f[i - 1] = g[i - 1]  BY <3>0, <4>1
      <4> QED  BY <2>2, <4>1, <4>2
    <3> QED  BY <3>1, <3>2
  <2>4. DOMAIN f = 0 .. m + 1 /\ f = [i \in 0 .. m + 1 |-> f[i]]  OBVIOUS
  <2> HIDE DEF f
  <2>5. Is(f, m + 1)  BY <2>3, <2>4, ZenonT(60)
  <2>6. m + 1 \in 0 .. n  BY <1>0, <1>2
  <2> QED  BY <2>5, <2>6
<1>3. n \in S
  <2> HIDE DEF S, n
  <2>1. 0 .. n \subseteq S  BY <1>0, <1>1, <1>2, Counting
  <2> QED  BY <1>0, <2>1
<1>4. \E f : Is(f, n)  BY <1>3, SMTT(30)
<1> DEFINE after == CHOOSE f : Is(f, n)
<1>5. Is(after, n)  BY <1>4
<1>6. Rebuilt(todo) = after[n]  BY SMTT(30) DEF Rebuilt
<1> QED  BY <1>5, <1>6

\* A reset that ends well has Rails's own rows, and one of each entry it was served.
LEMMA RebuiltKeeps ==
  ASSUME Shape, Truthful(eventRows, status), NEW todo, todo \subseteq Emitted,
         \A i \in todo : ~Orphan(i), NEW db, db = Rebuilt(todo)
  PROVE  /\ db.status \in [Runs -> Statuses] /\ Truthful(db.rows, db.status)
         /\ eventRows \ Recorded \subseteq db.rows
         /\ db.ok => \A i \in todo : RowOf(i) \in db.rows
         /\ \A r \in Runs : db.status[r] = "destroyed" <=> status[r] = "destroyed"
<1> DEFINE n == Len(log)
           kept == [rows |-> eventRows \ Recorded, status |-> status, ok |-> TRUE]
<1>1. PICK after :
        /\ after = [i \in 0 .. n |-> IF i = 0 THEN [rows |-> eventRows \ Recorded, status |-> status, ok |-> TRUE]
                     ELSE IF i \in todo /\ after[i - 1].ok THEN Ingest(after[i - 1], i)
                     ELSE after[i - 1]]
        /\ Rebuilt(todo) = after[n]
  BY Replayed
<1>2. n \in Nat /\ status \in [Runs -> Statuses] /\ todo \subseteq 1 .. n
  BY DEF Shape, Emitted, Positions
<1> DEFINE P(i) == /\ after[i] = [rows |-> after[i].rows, status |-> after[i].status, ok |-> after[i].ok]
                   /\ after[i].status \in [Runs -> Statuses] /\ after[i].ok \in BOOLEAN
                   /\ Truthful(after[i].rows, after[i].status)
                   /\ eventRows \ Recorded \subseteq after[i].rows
                   /\ after[i].ok => \A j \in todo : j <= i => RowOf(j) \in after[i].rows
                   /\ \A r \in Runs : after[i].status[r] = "destroyed" <=> status[r] = "destroyed"
           S == {i \in 0 .. n : P(i)}
<1>3. after[0] = kept
  BY <1>1, <1>2
<1>4. \A i \in 1 .. n : after[i] = IF i \in todo /\ after[i - 1].ok THEN Ingest(after[i - 1], i)
                                   ELSE after[i - 1]
  <2>1. \A i \in 1 .. n : i \in 0 .. n /\ i # 0
    BY <1>2
  <2> HIDE DEF n
  <2> QED BY <1>1, <2>1
<1>5. 0 \in S
  <2>1. Truthful(eventRows \ Recorded, status)
    BY DEF Truthful
  <2>2. after[0].rows = eventRows \ Recorded /\ after[0].status = status /\ after[0].ok = TRUE
    BY <1>3
  <2>3. \A j \in todo : ~(j <= 0)
    BY <1>2
  <2>4. P(0)
    BY <1>2, <1>3, <2>1, <2>2, <2>3
  <2> QED BY <1>2, <2>4
<1>6. ASSUME NEW m \in 0 .. n, m \in S, m # n PROVE m + 1 \in S
  <2>0. m \in Nat /\ m + 1 \in 1 .. n /\ (m + 1) - 1 = m /\ P(m)
    BY <1>2, <1>6
  <2>1. after[m + 1] = IF m + 1 \in todo /\ after[m].ok THEN Ingest(after[m], m + 1) ELSE after[m]
    BY <1>4, <2>0
  <2>2. \A j \in todo : j <= m + 1 <=> j <= m \/ j = m + 1
    BY <1>2, <2>0
  <2> DEFINE a == after[m]
             b == after[m + 1]
  <2>3. CASE m + 1 \in todo /\ a.ok
    <3>1. m + 1 \in Emitted /\ m + 1 \in Positions /\ status[log[m + 1].run] # "destroyed"
      BY <2>3 DEF Orphan, Emitted
    <3>2. a.status[log[m + 1].run] # "destroyed"
      BY <2>0, <3>1, EntryIs
    <3>3. b = Ingest([rows |-> a.rows, status |-> a.status, ok |-> a.ok], m + 1)
      BY <2>0, <2>1, <2>3
    <3> HIDE DEF a, b
    <3>4. /\ a.status \in [Runs -> Statuses] /\ a.ok \in BOOLEAN /\ Truthful(a.rows, a.status)
      BY <2>0 DEF a
    <3>5. /\ b = [rows |-> b.rows, status |-> b.status, ok |-> b.ok]
          /\ b.status \in [Runs -> Statuses] /\ b.ok \in BOOLEAN
          /\ Truthful(b.rows, b.status) /\ a.rows \subseteq b.rows
          /\ b.ok => RowOf(m + 1) \in b.rows
          /\ \A r \in Runs : b.status[r] = "destroyed" <=> a.status[r] = "destroyed"
      BY <3>1, <3>2, <3>3, <3>4, IngestKeeps
    <3>6. P(m + 1)
      BY <2>0, <2>2, <2>3, <3>5 DEF a, b
    <3> QED BY <2>0, <3>6
  <2>4. CASE ~(m + 1 \in todo /\ a.ok)
    <3>1. b = a
      BY <2>1, <2>4
    <3>2. P(m + 1)
      BY <2>0, <2>2, <2>4, <3>1
    <3> QED BY <2>0, <3>2
  <2> QED BY <2>3, <2>4
<1>7. n \in S
  <2> HIDE DEF S, n
  <2>1. 0 .. n \subseteq S  BY <1>2, <1>5, <1>6, Counting
  <2> QED  BY <1>2, <2>1
<1> QED BY <1>1, <1>2, <1>7

-----------------------------------------------------------------------------
(* The invariant.                                                          *)

\* An event that was shown is not shown again: its seq is taken, or its run is destroyed.
Met(i) == Taken(eventRows, log[i].run, log[i].seq) \/ Orphan(i)

Shows ==
  /\ \A i \in 1 .. MaxLog : i \notin Positions => shown[i] = 0
  /\ \A i \in Positions : /\ shown[i] <= 1 \/ i \in dropped
                          /\ shown[i] = 0 \/ i \in dropped \/ Met(i)

\* What a repair was served is still to be replayed, or is settled; a reset replays all of it.
Kept(i) == Has(i) \/ i \in dropped \/ Clashes(i)
Wanted(w) == {i \in Emitted : repair[w].from < i /\ i <= repair[w].upto}

Repairing ==
  \A w \in Repairs :
    /\ repair[w].at \in {"replay", "done"} => \A i \in Wanted(w) : i \in repair[w].todo \/ Kept(i)
    /\ repair[w].at = "replay" /\ repair[w].mode = "reset" => Wanted(w) \subseteq repair[w].todo
    /\ repair[w].at = "done" => repair[w].todo = {}

TableInv == Shape /\ Numbered /\ Truthful(eventRows, status) /\ Shows /\ Repairing

LEMMA TableInvImplies == TableInv => Repaired /\ ShownOnce
<1> SUFFICES ASSUME TableInv PROVE Repaired /\ ShownOnce
  OBVIOUS
<1>1. Repaired
  <2> SUFFICES ASSUME NEW w \in Repairs, repair[w].at = "done",
                      NEW i \in Emitted \cap repair[w].from + 1 .. repair[w].upto
               PROVE  Has(i) \/ i \in dropped \/ Clashes(i)
    BY DEF Repaired
  <2>1. repair[w].from \in Nat /\ repair[w].upto \in Nat
    BY DEF TableInv, Shape, Job
  <2>2. i \in Wanted(w)
    BY <2>1 DEF Wanted
  <2> QED BY <2>2 DEF TableInv, Repairing, Kept
<1>2. ShownOnce
  BY DEF TableInv, Shows, ShownOnce
<1> QED BY <1>1, <1>2

LEMMA TableInvInit == ProjectionInit => TableInv
<1> SUFFICES ASSUME ProjectionInit PROVE TableInv
  OBVIOUS
<1>1. log = <<>> /\ Len(log) = 0 /\ Positions = {} /\ Emitted = {} /\ ring = <<>> /\ eventRows = {}
  BY DEF ProjectionInit, Positions, Emitted
<1>2. Shape
  <2>1. status \in [Runs -> Statuses]
    BY DEF ProjectionInit, Statuses, Young
  <2>2. repair \in [Repairs -> Job] /\ \A w \in Repairs : repair[w].todo = {} /\ repair[w].upto = 0
    BY DEF ProjectionInit, NoRepair, Job
  <2>3. shown \in [1 .. MaxLog -> Nat]
    BY DEF ProjectionInit
  <2>4. log \in Seq(Entry) /\ ring \in Seq(Nat) /\ DOMAIN ring = {}
    BY <1>1
  <2> QED BY <1>1, <2>1, <2>2, <2>3, <2>4, ProjectionBounds DEF Shape
<1>3. Numbered /\ Truthful(eventRows, status)
  BY <1>1 DEF Numbered, Truthful
<1>4. Shows
  BY <1>1 DEF ProjectionInit, Shows
<1>5. Repairing
  BY DEF ProjectionInit, NoRepair, Repairing
<1> QED BY <1>2, <1>3, <1>4, <1>5 DEF TableInv

\* The record only grows, by an entry with the next seq of its run or none.
LEMMA Grows ==
  ASSUME TableInv, NEW e \in Entry, Len(log) < MaxLog, log' = Append(log, e),
         e.seq = 0 \/ e.seq = Cardinality(Entries(e.run)) + 1
  PROVE  /\ log' \in Seq(Entry) /\ Len(log') = Len(log) + 1 /\ Len(log) \in Nat
         /\ Positions = 1 .. Len(log) /\ Positions' = 1 .. Len(log) + 1
         /\ \A i \in Positions : log'[i] = log[i] /\ i <= Len(log)
         /\ log'[Len(log) + 1] = e
         /\ Emitted' = Emitted \cup (IF e.seq = 0 THEN {} ELSE {Len(log) + 1})
         /\ Numbered'
<1> DEFINE new == Len(log) + 1
<1>1. log \in Seq(Entry) /\ Len(log) \in Nat /\ Positions = 1 .. Len(log)
  BY DEF TableInv, Shape, Positions
<1>2. /\ log' \in Seq(Entry) /\ Len(log') = new /\ Positions' = 1 .. new
      /\ \A i \in 1 .. Len(log) : log'[i] = log[i]
      /\ log'[new] = e
  BY <1>1 DEF Positions
<1>3. Emitted' = Emitted \cup (IF e.seq = 0 THEN {} ELSE {new})
  <2>1. Emitted' = {i \in 1 .. new : log'[i].seq # 0} /\ Emitted = {i \in 1 .. Len(log) : log[i].seq # 0}
    BY <1>1, <1>2 DEF Emitted
  <2>2. \A i : i \in 1 .. new <=> i \in 1 .. Len(log) \/ i = new
    BY <1>1
  <2> HIDE DEF new
  <2> QED BY <1>2, <2>1, <2>2
<1>4. /\ Emitted \subseteq 1 .. Len(log) /\ \A i \in Emitted : log[i] \in Entry
      /\ Numbered
  BY <1>1 DEF Emitted, TableInv
<1> DEFINE Of(q) == {i \in Emitted : log[i].run = q}
           Now(q) == {i \in Emitted' : log'[i].run = q}
<1>5. \A q : Now(q) = Of(q) \cup (IF e.seq # 0 /\ e.run = q THEN {new} ELSE {})
  <2> HIDE DEF new
  <2> QED BY <1>2, <1>3, <1>4
<1>6. ASSUME NEW q
      PROVE  /\ Cardinality(Of(q)) \in Nat /\ Cardinality(Now(q)) \in Nat
             /\ Cardinality(Now(q)) >= Cardinality(Of(q))
             /\ e.seq # 0 /\ e.run = q => Cardinality(Now(q)) = Cardinality(Of(q)) + 1
  <2>1. Of(q) \subseteq 1 .. Len(log)
    BY <1>4
  <2>2. IsFiniteSet(Of(q)) /\ Cardinality(Of(q)) \in Nat
    <3>1. IsFiniteSet(1 .. Len(log))
      BY <1>1, FS_Interval
    <3> QED BY <2>1, <3>1, FS_Subset, FS_CardinalityType
  <2>3. new \notin Of(q)
    BY <1>1, <2>1
  <2> HIDE DEF Of, Now, new
  <2>4. Cardinality(Of(q) \cup {new}) = Cardinality(Of(q)) + 1
    BY <2>2, <2>3, FS_AddElement
  <2>5. CASE e.seq # 0 /\ e.run = q
    <3>1. Now(q) = Of(q) \cup {new}
      BY <1>5, <2>5
    <3> QED BY <2>2, <2>4, <2>5, <3>1
  <2>6. CASE ~(e.seq # 0 /\ e.run = q)
    <3>1. Now(q) = Of(q)
      BY <1>5, <2>6
    <3> QED BY <2>2, <2>6, <3>1
  <2> QED BY <2>5, <2>6
<1>7. Numbered'
  <2>1. \A i \in Emitted : log[i].seq \in Nat /\ log[i].seq <= Cardinality(Of(log[i].run))
    BY <1>4 DEF Entry, Numbered, Entries
  <2>2. \A i \in Emitted, j \in Emitted : log[i].run = log[j].run /\ log[i].seq = log[j].seq => i = j
    BY <1>4 DEF Numbered
  <2>3. \A i \in Emitted : log'[i] = log[i]
    BY <1>2, <1>4
  <2>4. e.seq \in Nat /\ log'[new] = e
    BY <1>2 DEF Entry
  <2>5. \A i \in Emitted' : i \in Emitted \/ (i = new /\ e.seq # 0 /\ e.seq = Cardinality(Of(e.run)) + 1)
    BY <1>3 DEF Entries
  <2>7. ASSUME NEW i \in Emitted', NEW q, q = log'[i].run
        PROVE  log'[i].seq <= Cardinality(Now(q))
    <3>0. /\ Cardinality(Of(q)) \in Nat /\ Cardinality(Now(q)) \in Nat
          /\ Cardinality(Now(q)) >= Cardinality(Of(q))
          /\ e.seq # 0 /\ e.run = q => Cardinality(Now(q)) = Cardinality(Of(q)) + 1
      BY <1>6
    <3> HIDE DEF Of, Now, new
    <3>1. CASE i \in Emitted
      <4>1. log[i].seq \in Nat /\ log[i].seq <= Cardinality(Of(q)) /\ log'[i].seq = log[i].seq
        BY <2>1, <2>3, <2>7, <3>1
      <4> QED BY <3>0, <4>1
    <3>2. CASE i = new /\ e.seq # 0 /\ e.seq = Cardinality(Of(e.run)) + 1
      <4>1. q = e.run /\ log'[i].seq = Cardinality(Of(q)) + 1 /\ e.seq # 0
        BY <2>4, <2>7, <3>2
      <4> QED BY <3>0, <4>1
    <3> QED BY <2>5, <3>1, <3>2
  <2>8. ASSUME NEW i \in Emitted', NEW j \in Emitted', log'[i].run = log'[j].run, log'[i].seq = log'[j].seq
        PROVE  i = j
    <3>0. \A q : Cardinality(Of(q)) \in Nat
      BY <1>6
    <3> HIDE DEF Of, new
    <3>1. CASE i \in Emitted /\ j \in Emitted
      BY <2>2, <2>3, <2>8, <3>1
    <3>2. CASE i \in Emitted /\ j = new /\ e.seq = Cardinality(Of(e.run)) + 1
      <4>1. log[i].run = e.run /\ log[i].seq = e.seq
        BY <2>3, <2>4, <2>8, <3>2
      <4> QED BY <2>1, <3>0, <3>2, <4>1
    <3>3. CASE j \in Emitted /\ i = new /\ e.seq = Cardinality(Of(e.run)) + 1
      <4>1. log[j].run = e.run /\ log[j].seq = e.seq
        BY <2>3, <2>4, <2>8, <3>3
      <4> QED BY <2>1, <3>0, <3>3, <4>1
    <3> QED BY <2>5, <3>1, <3>2, <3>3
  <2>9. \A i \in Emitted' : log'[i].seq <= Cardinality(Now(log'[i].run))
    <3> HIDE DEF Now
    <3> QED BY <2>7
  <2> QED BY <2>8, <2>9 DEF Numbered, Entries
<1> QED BY <1>1, <1>2, <1>3, <1>7

\* Nothing but the record grows, and perhaps a run is born.
LEMMA RecordGrows ==
  ASSUME TableInv, NEW e \in Entry, Len(log) < MaxLog, log' = Append(log, e),
         e.seq = 0 \/ e.seq = Cardinality(Entries(e.run)) + 1,
         ring' = ring \/ (e.seq # 0 /\ ring' = Append(ring, Len(log) + 1)),
         status' = status \/ \E r \in Runs : status[r] = "unborn" /\ status' = [status EXCEPT ![r] = "queued"],
         UNCHANGED <<eventRows, repair, shown, dropped>>
  PROVE  TableInv'
<1>1. /\ log' \in Seq(Entry) /\ Len(log') = Len(log) + 1 /\ Len(log) \in Nat
      /\ Positions = 1 .. Len(log) /\ Positions' = 1 .. Len(log) + 1
      /\ \A i \in Positions : log'[i] = log[i] /\ i <= Len(log)
      /\ Emitted' = Emitted \cup (IF e.seq = 0 THEN {} ELSE {Len(log) + 1})
      /\ Numbered'
  BY Grows
<1>2. /\ Emitted \subseteq Emitted' /\ Emitted \subseteq Positions
      /\ \A i \in Emitted' : i \in Emitted \/ i = Len(log) + 1
  BY <1>1 DEF Emitted
<1>3. /\ status \in [Runs -> Statuses] /\ status' \in [Runs -> Statuses]
      /\ \A r \in Runs : status'[r] = status[r] \/ (status[r] = "unborn" /\ status'[r] = "queued")
  <2>1. status \in [Runs -> Statuses]
    BY DEF TableInv, Shape
  <2>2. "queued" \in Statuses
    BY DEF Statuses, Young
  <2> QED BY <2>1, <2>2
<1>4. Shape'
  <2>1. ring' \in Seq(Nat) /\ \A n \in DOMAIN ring' : ring'[n] \in Emitted'
    <3>1. ring \in Seq(Nat) /\ \A n \in DOMAIN ring : ring[n] \in Emitted
      BY DEF TableInv, Shape
    <3>2. CASE ring' = ring
      BY <1>2, <3>1, <3>2
    <3>3. CASE e.seq # 0 /\ ring' = Append(ring, Len(log) + 1)
      <4>1. Len(log) + 1 \in Nat /\ Len(log) + 1 \in Emitted'
        BY <1>1, <3>3
      <4>2. /\ ring' \in Seq(Nat) /\ DOMAIN ring' = 1 .. Len(ring) + 1 /\ DOMAIN ring = 1 .. Len(ring)
            /\ ring'[Len(ring) + 1] = Len(log) + 1 /\ \A n \in 1 .. Len(ring) : ring'[n] = ring[n]
            /\ Len(ring) \in Nat
        BY <3>1, <3>3, <4>1
      <4>3. \A n \in 1 .. Len(ring) + 1 : n \in 1 .. Len(ring) \/ n = Len(ring) + 1
        BY <4>2
      <4> QED BY <1>2, <3>1, <4>1, <4>2, <4>3
    <3> QED BY <3>2, <3>3
  <2>2. /\ repair' \in [Repairs -> Job] /\ shown' \in [1 .. MaxLog -> Nat] /\ Len(log') <= MaxLog
    BY <1>1, ProjectionBounds DEF TableInv, Shape
  <2>3. \A w \in Repairs : repair'[w].todo \subseteq Emitted' /\ repair'[w].upto <= Len(log')
    <3>1. \A w \in Repairs : /\ repair[w].todo \subseteq Emitted /\ repair[w].upto <= Len(log)
                             /\ repair[w].upto \in Nat
      BY DEF TableInv, Shape, Job
    <3> QED BY <1>1, <1>2, <3>1
  <2> QED BY <1>1, <1>3, <2>1, <2>2, <2>3 DEF Shape
<1>5. Truthful(eventRows, status)'
  <2>1. Truthful(eventRows, status)
    BY DEF TableInv
  <2> SUFFICES ASSUME NEW row \in eventRows
               PROVE  /\ row.store # 0 => /\ row.store \in Emitted' /\ row.seq = log'[row.store].seq
                                          /\ \/ row.run = log'[row.store].run
                                             \/ row.run = 0 /\ status'[log'[row.store].run] = "destroyed"
                      /\ row.store = 0 /\ row.seq # 0 => row.run \in Runs /\ status'[row.run] \notin Young
    BY DEF Truthful
  <2>2. row.store # 0 => /\ row.store \in Emitted /\ log'[row.store] = log[row.store]
                         /\ log[row.store].run \in Runs
    <3>1. row.store # 0 => row.store \in Emitted
      BY <2>1 DEF Truthful
    <3> QED BY <1>1, <1>2, <3>1, EntryIs DEF TableInv
  <2>3. row.store # 0 => \/ row.run = log[row.store].run
                         \/ row.run = 0 /\ status'[log[row.store].run] = "destroyed"
    BY <1>3, <2>1, <2>2 DEF Truthful
  <2>4. row.store = 0 /\ row.seq # 0 => row.run \in Runs /\ status'[row.run] \notin Young
    BY <1>3, <2>1 DEF Truthful, Young
  <2>5. row.store # 0 => row.seq = log[row.store].seq
    BY <2>1 DEF Truthful
  <2> QED BY <1>2, <2>2, <2>3, <2>4, <2>5
<1>6. Shows'
  <2>1. Shows /\ Shape
    BY DEF TableInv
  <2>2. \A i \in 1 .. MaxLog : i \notin Positions' => shown'[i] = 0
    BY <1>1, <2>1 DEF Shows
  <2>3. ASSUME NEW i \in Positions'
        PROVE  /\ shown'[i] <= 1 \/ i \in dropped'
               /\ shown'[i] = 0 \/ i \in dropped' \/ Met(i)'
    <3>1. CASE i \in Positions
      <4>1. log'[i] = log[i] /\ log[i].run \in Runs
        BY <1>1, <2>1, <3>1, EntryIs
      <4>2. Orphan(i) => Orphan(i)'
        BY <1>3, <4>1 DEF Orphan
      <4>3. Taken(eventRows, log[i].run, log[i].seq) => Taken(eventRows', log'[i].run, log'[i].seq)
        BY <4>1
      <4> QED BY <2>1, <3>1, <4>2, <4>3 DEF Shows, Met
    <3>2. CASE i \notin Positions
      <4>1. i \in 1 .. MaxLog
        BY <1>1, ProjectionBounds
      <4>2. shown'[i] = 0
        BY <2>1, <3>2, <4>1 DEF Shows
      <4> QED BY <4>2
    <3> QED BY <3>1, <3>2
  <2> QED BY <2>2, <2>3 DEF Shows
<1>7. Repairing'
  <2> SUFFICES ASSUME NEW w \in Repairs
               PROVE  /\ repair[w].at \in {"replay", "done"} => \A i \in Wanted(w)' : i \in repair[w].todo \/ Kept(i)'
                      /\ repair[w].at = "replay" /\ repair[w].mode = "reset" => Wanted(w)' \subseteq repair[w].todo
                      /\ repair[w].at = "done" => repair[w].todo = {}
    BY DEF Repairing
  <2>1. repair[w].upto \in Nat /\ repair[w].upto <= Len(log)
    BY DEF TableInv, Shape, Job
  <2>2. Wanted(w)' = Wanted(w)
    BY <1>1, <1>2, <2>1 DEF Wanted
  <2>3. \A i \in Wanted(w) : Kept(i) => Kept(i)'
    <3> SUFFICES ASSUME NEW i \in Wanted(w) PROVE Kept(i) => Kept(i)'
      OBVIOUS
    <3>1. log'[i] = log[i]
      BY <1>1, <1>2 DEF Wanted
    <3> QED BY <3>1 DEF Kept, Has, Clashes
  <2> QED BY <2>2, <2>3 DEF TableInv, Repairing
<1> QED BY <1>1, <1>4, <1>5, <1>6, <1>7 DEF TableInv

LEMMA StartStep == ASSUME TableInv, NEW r \in Runs, Start(r) PROVE TableInv'
<1> DEFINE e == [run |-> r, seq |-> Cardinality(Entries(r)) + 1, type |-> "run_started"]
<1>1. Cardinality(Entries(r)) \in Nat
  BY EntriesFinite DEF TableInv
<1>2. e \in Entry /\ e.seq # 0 /\ e.seq = Cardinality(Entries(e.run)) + 1
  BY <1>1 DEF Entry
<1>3. /\ log' = Append(log, e) /\ ring' = Append(ring, Len(log) + 1) /\ Len(log) < MaxLog
      /\ status[r] = "unborn" /\ status' = [status EXCEPT ![r] = "queued"]
      /\ UNCHANGED <<eventRows, repair, shown, dropped>>
  BY DEF Start, Emit
<1> HIDE DEF e
<1> QED BY <1>2, <1>3, RecordGrows

LEMMA WorksStep == ASSUME TableInv, NEW r \in Runs, Works(r) PROVE TableInv'
<1>1. Cardinality(Entries(r)) \in Nat
  BY EntriesFinite DEF TableInv
<1>2. ASSUME NEW type \in Ends \cup {"tool_finished"}, Emit(r, type) PROVE TableInv'
  <2> DEFINE e == [run |-> r, seq |-> Cardinality(Entries(r)) + 1, type |-> type]
  <2>1. e \in Entry /\ e.seq # 0 /\ e.seq = Cardinality(Entries(e.run)) + 1
    BY <1>1 DEF Entry
  <2>2. /\ log' = Append(log, e) /\ ring' = Append(ring, Len(log) + 1) /\ Len(log) < MaxLog
        /\ UNCHANGED <<eventRows, repair, shown, dropped, status>>
    BY <1>2 DEF Works, Emit
  <2> HIDE DEF e
  <2> QED BY <2>1, <2>2, RecordGrows
<1>3. ASSUME Len(log) < MaxLog, log' = Append(log, [run |-> r, seq |-> 0, type |-> "store_only"]), ring' = ring
      PROVE  TableInv'
  <2> DEFINE e == [run |-> r, seq |-> 0, type |-> "store_only"]
  <2>1. e \in Entry /\ e.seq = 0
    BY DEF Entry
  <2>2. UNCHANGED <<eventRows, repair, shown, dropped, status>>
    BY DEF Works
  <2> HIDE DEF e
  <2> QED BY <1>3, <2>1, <2>2, RecordGrows DEF e
<1> QED BY <1>2, <1>3 DEF Works

-----------------------------------------------------------------------------
(* The steps that leave the record alone.                                  *)

LEMMA SameRecord ==
  ASSUME log' = log
  PROVE  Positions' = Positions /\ Emitted' = Emitted /\ (Numbered => Numbered')
<1>1. Positions' = Positions /\ Emitted' = Emitted
  BY DEF Positions, Emitted
<1> QED BY <1>1 DEF Numbered, Entries

\* An entry leaves the head of the buffer.
LEMMA WireShrinks ==
  ASSUME Shape, ring # <<>>
  PROVE  /\ Head(ring) \in Emitted /\ Tail(ring) \in Seq(Nat)
         /\ \A n \in DOMAIN Tail(ring) : Tail(ring)[n] \in Emitted
<1>1. ring \in Seq(Nat) /\ \A n \in DOMAIN ring : ring[n] \in Emitted
  BY DEF Shape
<1>2. /\ Len(ring) \in Nat \ {0} /\ DOMAIN ring = 1 .. Len(ring) /\ Head(ring) = ring[1]
      /\ Tail(ring) \in Seq(Nat) /\ Len(Tail(ring)) = Len(ring) - 1
      /\ DOMAIN Tail(ring) = 1 .. Len(ring) - 1
      /\ \A n \in 1 .. Len(ring) - 1 : Tail(ring)[n] = ring[n + 1]
  BY <1>1
<1>3. \A n \in 1 .. Len(ring) - 1 : n + 1 \in 1 .. Len(ring)
  BY <1>2
<1> QED BY <1>1, <1>2, <1>3

\* Repairs other than w stay as they are; what was settled for them stays settled.
LEMMA RepairsKeep ==
  ASSUME TableInv, log' = log, \A i \in Emitted : Kept(i) => Kept(i)', NEW w \in Repairs, NEW job,
         repair' = [repair EXCEPT ![w] = job],
         job.at \in {"replay", "done"} =>
           \A i \in Emitted : job.from < i /\ i <= job.upto => i \in job.todo \/ Kept(i)',
         job.at = "replay" /\ job.mode = "reset" =>
           \A i \in Emitted : job.from < i /\ i <= job.upto => i \in job.todo,
         job.at = "done" => job.todo = {}
  PROVE  Repairing'
<1>1. Emitted' = Emitted /\ repair'[w] = job /\ \A v \in Repairs : v # w => repair'[v] = repair[v]
  BY SameRecord DEF TableInv, Shape
<1> SUFFICES ASSUME NEW v \in Repairs
             PROVE  /\ repair'[v].at \in {"replay", "done"} =>
                         \A i \in Wanted(v)' : i \in repair'[v].todo \/ Kept(i)'
                    /\ repair'[v].at = "replay" /\ repair'[v].mode = "reset" => Wanted(v)' \subseteq repair'[v].todo
                    /\ repair'[v].at = "done" => repair'[v].todo = {}
  BY DEF Repairing
<1>2. CASE v = w
  <2>1. Wanted(w)' = {i \in Emitted : job.from < i /\ i <= job.upto}
    BY <1>1 DEF Wanted
  <2> QED BY <1>1, <1>2, <2>1
<1>3. CASE v # w
  <2>1. Wanted(v)' = Wanted(v) /\ Wanted(v) \subseteq Emitted
    BY <1>1, <1>3 DEF Wanted
  <2> QED BY <1>1, <1>3, <2>1 DEF TableInv, Repairing
<1> QED BY <1>2, <1>3

LEMMA RepairsStay ==
  ASSUME TableInv, log' = log, \A i \in Emitted : Kept(i) => Kept(i)', repair' = repair
  PROVE  Repairing'
<1>1. \A w \in Repairs : Wanted(w)' = Wanted(w) /\ Wanted(w) \subseteq Emitted
  BY SameRecord DEF Wanted
<1> QED BY <1>1 DEF TableInv, Repairing

\* With the table as it was, nothing is lost.
LEMMA TableStays ==
  ASSUME TableInv, UNCHANGED <<log, eventRows, status, dropped>>
  PROVE  /\ Truthful(eventRows, status)' /\ Numbered' /\ \A i \in Emitted : Kept(i) => Kept(i)'
         /\ shown' = shown => Shows'
<1>1. Positions' = Positions /\ Emitted' = Emitted /\ Numbered'
  BY SameRecord DEF TableInv
<1>2. Truthful(eventRows, status)'
  BY <1>1 DEF TableInv, Truthful
<1>3. \A i \in Emitted : Kept(i) => Kept(i)'
  BY DEF Kept, Has, Clashes
<1>4. shown' = shown => Shows'
  BY <1>1 DEF TableInv, Shows, Met, Orphan
<1> QED BY <1>1, <1>2, <1>3, <1>4

LEMMA EvictStep == ASSUME TableInv, Evict PROVE TableInv'
<1>1. UNCHANGED <<log, eventRows, status, dropped>> /\ ring' = Tail(ring) /\ ring # <<>> /\ repair' = repair /\ shown' = shown
  BY DEF Evict, tableVars
<1>2. Shape'
  BY <1>1, WireShrinks, SameRecord DEF TableInv, Shape
<1>3. Truthful(eventRows, status)' /\ Numbered' /\ Shows' /\ Repairing'
  BY <1>1, TableStays, RepairsStay
<1> QED BY <1>2, <1>3 DEF TableInv

\* An event is ingested, live or by a gap-fill, and shown if it is new.
LEMMA IngestStep ==
  ASSUME TableInv, NEW i \in Emitted, ~Orphan(i), IngestAndShow(i), UNCHANGED <<log, dropped>>
  PROVE  /\ status' \in [Runs -> Statuses] /\ shown' \in [1 .. MaxLog -> Nat]
         /\ Truthful(eventRows, status)' /\ Numbered' /\ Shows'
         /\ \A j \in Emitted : Kept(j) => Kept(j)'
         /\ Kept(i)'
<1> DEFINE db == Ingest(Db, i)
<1>1. /\ Shape /\ Numbered /\ Truthful(eventRows, status) /\ Shows
      /\ status \in [Runs -> Statuses] /\ shown \in [1 .. MaxLog -> Nat]
      /\ i \in Positions /\ log[i].seq # 0
  BY DEF TableInv, Shape, Emitted
<1>2. /\ Positions' = Positions /\ Emitted' = Emitted /\ Numbered'
      /\ Positions \subseteq 1 .. MaxLog
  <2>1. Positions = 1 .. Len(log) /\ Len(log) \in Nat /\ Len(log) <= MaxLog
    BY <1>1 DEF Shape, Positions
  <2> QED BY <1>1, <2>1, SameRecord, ProjectionBounds
<1>3. eventRows' = db.rows /\ status' = db.status
  BY DEF IngestAndShow, Commits
<1>4. db = Ingest([rows |-> eventRows, status |-> status, ok |-> TRUE], i)
  BY DEF Db
<1> HIDE DEF db
<1>5. /\ status' \in [Runs -> Statuses]
      /\ Truthful(eventRows', status') /\ eventRows \subseteq eventRows'
      /\ Taken(eventRows, log[i].run, log[i].seq) => eventRows' = eventRows /\ status' = status
      /\ ~Taken(eventRows, log[i].run, log[i].seq) => RowOf(i) \in eventRows'
      /\ \A r \in Runs : status'[r] = "destroyed" <=> status[r] = "destroyed"
  <2>1. status[log[i].run] # "destroyed" /\ TRUE \in BOOLEAN
    BY DEF Orphan
  <2> DEFINE ok == TRUE
  <2>2. ok \in BOOLEAN /\ db = Ingest([rows |-> eventRows, status |-> status, ok |-> ok], i)
    BY <1>4
  <2> HIDE DEF ok
  <2>3. /\ db.status \in [Runs -> Statuses]
        /\ Truthful(db.rows, db.status) /\ eventRows \subseteq db.rows
        /\ Taken(eventRows, log[i].run, log[i].seq) => db.rows = eventRows /\ db.status = status
        /\ ~Taken(eventRows, log[i].run, log[i].seq) => RowOf(i) \in db.rows
        /\ \A r \in Runs : db.status[r] = "destroyed" <=> status[r] = "destroyed"
    BY <1>1, <2>1, <2>2, IngestKeeps
  <2> QED BY <1>3, <2>3
<1>6. Truthful(eventRows, status)'
  BY <1>2, <1>5 DEF Truthful
<1>7. /\ RowOf(i).run = log[i].run /\ RowOf(i).seq = log[i].seq /\ RowOf(i).store = i
  BY DEF RowOf
<1>8. Taken(eventRows', log[i].run, log[i].seq)
  BY <1>1, <1>5, <1>7 DEF Taken
<1>9. \A j \in Positions : Met(j) => Met(j)'
  <2> SUFFICES ASSUME NEW j \in Positions, Met(j) PROVE Met(j)'
    OBVIOUS
  <2>1. log[j].run \in Runs
    BY <1>1, EntryIs
  <2>2. Orphan(j) => Orphan(j)'
    BY <1>5, <2>1 DEF Orphan
  <2>3. Taken(eventRows, log[j].run, log[j].seq) => Taken(eventRows, log[j].run, log[j].seq)'
    BY <1>5 DEF Taken
  <2> QED BY <2>2, <2>3 DEF Met
<1>10. /\ shown' \in [1 .. MaxLog -> Nat] /\ \A j \in 1 .. MaxLog : j # i => shown'[j] = shown[j]
       /\ shown'[i] = IF Taken(eventRows, log[i].run, log[i].seq) THEN shown[i] ELSE shown[i] + 1
  BY <1>1, <1>2 DEF IngestAndShow
<1>11. Shows'
  <2>1. \A j \in 1 .. MaxLog : j \notin Positions' => shown'[j] = 0
    BY <1>1, <1>2, <1>10 DEF Shows
  <2>2. ASSUME NEW j \in Positions
        PROVE  /\ shown'[j] <= 1 \/ j \in dropped'
               /\ shown'[j] = 0 \/ j \in dropped' \/ Met(j)'
    <3>1. CASE j # i
      BY <1>1, <1>2, <1>9, <1>10, <3>1 DEF Shows
    <3>2. CASE j = i
      <4>1. Met(i)'
        BY <1>8 DEF Met
      <4>2. shown[i] = 0 \/ i \in dropped \/ Taken(eventRows, log[i].run, log[i].seq)
        BY <1>1 DEF Shows, Met
      <4>3. shown[i] <= 1 \/ i \in dropped
        BY <1>1 DEF Shows
      <4> QED BY <1>10, <3>2, <4>1, <4>2, <4>3
    <3> QED BY <3>1, <3>2
  <2> QED BY <1>2, <2>1, <2>2 DEF Shows
<1>12. \A j \in Emitted : Kept(j) => Kept(j)'
  BY <1>5 DEF Kept, Has, Clashes, Taken
<1>13. Kept(i)'
  <2>1. CASE Taken(eventRows, log[i].run, log[i].seq)
    <3>1. PICK row \in eventRows' : row.run = log[i].run /\ row.seq = log[i].seq
      BY <1>5, <2>1 DEF Taken
    <3> QED BY <1>1, <3>1 DEF Kept, Has, Clashes, Taken
  <2>2. CASE ~Taken(eventRows, log[i].run, log[i].seq)
    BY <1>5, <1>7, <2>2 DEF Kept, Has
  <2> QED BY <2>1, <2>2
<1> QED BY <1>2, <1>5, <1>6, <1>10, <1>11, <1>12, <1>13

LEMMA DeliverStep == ASSUME TableInv, Deliver PROVE TableInv'
<1>1. Head(ring) \in Emitted /\ ring # <<>>
  BY WireShrinks DEF Deliver, TableInv
<1>2. IngestAndShow(Head(ring)) /\ ~Orphan(Head(ring)) /\ UNCHANGED <<log, dropped, repair>> /\ ring' = Tail(ring)
  BY DEF Deliver
<1>3. /\ status' \in [Runs -> Statuses] /\ shown' \in [1 .. MaxLog -> Nat]
      /\ Truthful(eventRows, status)' /\ Numbered' /\ Shows'
      /\ \A j \in Emitted : Kept(j) => Kept(j)'
  <2> DEFINE i == Head(ring)
  <2> HIDE DEF i
  <2>1. i \in Emitted /\ IngestAndShow(i) /\ ~Orphan(i)
    BY <1>1, <1>2 DEF i
  <2> QED BY <1>2, <2>1, IngestStep
<1>4. Shape'
  BY <1>1, <1>2, <1>3, WireShrinks, SameRecord DEF TableInv, Shape
<1>5. Repairing'
  BY <1>2, <1>3, RepairsStay
<1> QED BY <1>3, <1>4, <1>5 DEF TableInv

-----------------------------------------------------------------------------
(* What Rails does on its own.                                             *)

\* A row that has the seq of an entry and is not that entry's is one of Rails's own.
LEMMA ClashingRow ==
  ASSUME TableInv, NEW i \in Emitted, NEW row \in eventRows, row.run = log[i].run, row.seq = log[i].seq
  PROVE  /\ row.store = i \/ row.store = 0
         /\ row.store = 0 => status[log[i].run] \notin Young
<1>1. Shape /\ Numbered /\ Truthful(eventRows, status) /\ i \in Positions /\ log[i].seq # 0
  BY DEF TableInv, Emitted
<1>2. log[i].run \in Runs /\ log[i].run # 0
  BY <1>1, EntryIs, ProjectionBounds DEF Runs
<1>3. row.store = 0 => status[log[i].run] \notin Young
  BY <1>1 DEF Truthful
<1>4. row.store # 0 => row.store = i
  BY <1>1, <1>2 DEF Truthful, Numbered
<1> QED BY <1>3, <1>4

\* Rails adds a row of its own, and the run it is of has been decided or failed.
LEMMA OwnRow ==
  ASSUME TableInv, NEW r \in Runs, NEW s \in Statuses \ (Young \cup {"destroyed"}), status[r] # "destroyed",
         NEW seq, NEW type, eventRows' = eventRows \cup {Own(r, seq, type)},
         status' = [status EXCEPT ![r] = s], UNCHANGED <<log, ring, repair, shown, dropped>>
  PROVE  TableInv'
<1>1. /\ Shape /\ Numbered /\ Truthful(eventRows, status) /\ Shows
      /\ Positions' = Positions /\ Emitted' = Emitted /\ Numbered'
  BY SameRecord DEF TableInv
<1>2. /\ status' \in [Runs -> Statuses] /\ status'[r] = s
      /\ \A q \in Runs : status'[q] = "destroyed" <=> status[q] = "destroyed"
      /\ \A q \in Runs : status'[q] \in Young => status[q] \in Young
  BY <1>1 DEF Shape
<1>3. Own(r, seq, type).run = r /\ Own(r, seq, type).store = 0
  BY DEF Own
<1>4. Shape'
  BY <1>1, <1>2 DEF Shape
<1>5. Truthful(eventRows, status)'
  <2> SUFFICES ASSUME NEW row \in eventRows'
               PROVE  /\ row.store # 0 => /\ row.store \in Emitted /\ row.seq = log[row.store].seq
                                          /\ \/ row.run = log[row.store].run
                                             \/ row.run = 0 /\ status'[log[row.store].run] = "destroyed"
                      /\ row.store = 0 /\ row.seq # 0 => row.run \in Runs /\ status'[row.run] \notin Young
    BY <1>1 DEF Truthful
  <2>1. CASE row = Own(r, seq, type)
    BY <1>2, <1>3, <2>1
  <2>2. CASE row \in eventRows
    <3>1. row.store # 0 => row.store \in Emitted /\ log[row.store].run \in Runs
      BY <1>1, <2>2, EntryIs DEF Truthful, Emitted
    <3> QED BY <1>1, <1>2, <2>2, <3>1 DEF Truthful
  <2> QED BY <2>1, <2>2
<1>6. \A i \in Emitted : Kept(i) => Kept(i)'
  BY DEF Kept, Has, Clashes, Taken
<1>7. ASSUME NEW i \in Positions PROVE Met(i) => Met(i)'
  <2>1. log[i].run \in Runs
    BY <1>1, EntryIs
  <2> QED BY <1>2, <2>1 DEF Met, Taken, Orphan
<1>8. Shows'
  BY <1>1, <1>7 DEF Shows
<1>9. Repairing'
  BY <1>6, RepairsStay
<1> QED BY <1>1, <1>4, <1>5, <1>8, <1>9 DEF TableInv

LEMMA DecideStep == ASSUME TableInv, NEW r \in Runs, Decide(r) PROVE TableInv'
<1>1. PICK verdict \in Decided :
        /\ status' = [status EXCEPT ![r] = verdict]
        /\ eventRows' = eventRows \cup {Own(r, NextSeq(eventRows, r), verdict)}
  BY DEF Decide
<1>2. verdict \in Statuses \ (Young \cup {"destroyed"}) /\ status[r] # "destroyed"
  BY DEF Decide, Statuses, Young, Decided
<1>3. UNCHANGED <<log, ring, repair, shown, dropped>>
  BY DEF Decide, recordVars
<1> QED BY <1>1, <1>2, <1>3, OwnRow

\* The run goes, its rows stay behind and are of no run.
LEMMA Destroyed ==
  ASSUME TableInv, NEW r \in Runs, status[r] \in Young, status' = [status EXCEPT ![r] = "destroyed"],
         eventRows' = {IF row.run = r THEN [row EXCEPT !.run = 0] ELSE row : row \in eventRows},
         UNCHANGED <<log, ring, repair, shown, dropped>>
  PROVE  TableInv'
<1>1. /\ Shape /\ Numbered /\ Truthful(eventRows, status) /\ Shows
      /\ Positions' = Positions /\ Emitted' = Emitted /\ Numbered' /\ r # 0 /\ r \in Runs
  BY SameRecord, ProjectionBounds DEF TableInv, Runs
<1>2. /\ status' \in [Runs -> Statuses] /\ status'[r] = "destroyed"
      /\ \A q \in Runs : q # r => status'[q] = status[q]
  BY <1>1 DEF Shape, Statuses
<1>3. Shape'
  BY <1>1, <1>2 DEF Shape
<1>4. Truthful(eventRows, status)'
  <2> SUFFICES ASSUME NEW row \in eventRows'
               PROVE  /\ row.store # 0 => /\ row.store \in Emitted /\ row.seq = log[row.store].seq
                                          /\ \/ row.run = log[row.store].run
                                             \/ row.run = 0 /\ status'[log[row.store].run] = "destroyed"
                      /\ row.store = 0 /\ row.seq # 0 => row.run \in Runs /\ status'[row.run] \notin Young
    BY <1>1 DEF Truthful
  <2>1. PICK old \in eventRows : row = IF old.run = r THEN [old EXCEPT !.run = 0] ELSE old
    OBVIOUS
  <2>2. old.store # 0 => old.store \in Emitted /\ log[old.store].run \in Runs
    BY <1>1, EntryIs DEF Truthful, Emitted
  <2>3. CASE old.run = r
    <3>1. row = [old EXCEPT !.run = 0]
      BY <2>1, <2>3
    <3>2. row.store = old.store /\ row.seq = old.seq
      BY <3>1
    <3>3. old.store = 0 => old.seq = 0
      BY <1>1, <2>3 DEF Truthful
    <3>4. old.store # 0 => old.seq = log[old.store].seq /\ log[old.store].run = r
      BY <1>1, <2>3 DEF Truthful
    <3>5. old.store # 0 => row.run = 0
      BY <3>1
    <3> QED BY <1>2, <2>2, <3>2, <3>3, <3>4, <3>5
  <2>4. CASE old.run # r
    <3>1. row = old
      BY <2>1, <2>4
    <3> QED BY <1>1, <1>2, <2>2, <2>4, <3>1 DEF Truthful
  <2> QED BY <2>3, <2>4
<1>5. ASSUME NEW old \in eventRows, old.run # r PROVE old \in eventRows'
  BY <1>5
<1>6. ASSUME NEW i \in Emitted, Kept(i) PROVE Kept(i)'
  <2>1. CASE Has(i)
    <3>1. PICK old \in eventRows : old.store = i
      BY <2>1 DEF Has
    <3>2. [old EXCEPT !.run = 0].store = i
      BY <3>1
    <3>3. \E row \in eventRows' : row.store = i
      BY <3>1, <3>2
    <3> QED BY <3>3 DEF Kept, Has
  <2>2. CASE i \in dropped
    BY <2>2 DEF Kept
  <2>3. CASE Clashes(i)
    <3>1. PICK old \in eventRows : old.store # i /\ old.run = log[i].run /\ old.seq = log[i].seq /\ log[i].seq # 0
      BY <2>3 DEF Clashes, Taken
    <3>2. old.run # r
      BY <3>1, ClashingRow
    <3>3. old \in eventRows'
      BY <1>5, <3>2
    <3> QED BY <3>1, <3>3 DEF Kept, Clashes, Taken
  <2> QED BY <1>6, <2>1, <2>2, <2>3 DEF Kept
<1>7. ASSUME NEW i \in Positions, Met(i) PROVE Met(i)'
  <2>1. CASE log[i].run = r
    BY <1>2, <2>1 DEF Met, Orphan
  <2>2. CASE log[i].run # r
    <3>1. log[i].run \in Runs
      BY <1>1, EntryIs
    <3>2. Orphan(i) => Orphan(i)'
      BY <1>2, <2>2, <3>1 DEF Orphan
    <3>3. Taken(eventRows, log[i].run, log[i].seq) => Taken(eventRows', log[i].run, log[i].seq)
      BY <1>5, <2>2 DEF Taken
    <3>4. Taken(eventRows', log[i].run, log[i].seq) <=> Taken(eventRows, log[i].run, log[i].seq)'
      BY DEF Taken
    <3> QED BY <1>7, <3>2, <3>3, <3>4 DEF Met
  <2> QED BY <2>1, <2>2
<1>8. Shows'
  BY <1>1, <1>7 DEF Shows
<1>9. Repairing'
  BY <1>6, RepairsStay
<1> QED BY <1>1, <1>3, <1>4, <1>8, <1>9 DEF TableInv

LEMMA GuessStep == ASSUME TableInv, NEW r \in Runs, Guess(r) PROVE TableInv'
<1>1. UNCHANGED <<log, ring, repair, shown, dropped>> /\ status[r] \in Young /\ status[r] # "destroyed"
  BY DEF Guess, recordVars, Young
<1>2. CASE status' = [status EXCEPT ![r] = "failed"] /\ eventRows' = eventRows \cup {Own(r, 0, "run_failed")}
  <2>1. "failed" \in Statuses \ (Young \cup {"destroyed"})
    BY DEF Statuses, Young
  <2> QED BY <1>1, <1>2, <2>1, OwnRow
<1>3. CASE /\ status' = [status EXCEPT ![r] = "destroyed"]
           /\ eventRows' = {IF row.run = r THEN [row EXCEPT !.run = 0] ELSE row : row \in eventRows}
  BY <1>1, <1>3, Destroyed
<1> QED BY <1>2, <1>3 DEF Guess

-----------------------------------------------------------------------------
(* What a repair does.                                                     *)

\* The newest of some positions is one of them, or 0, and none is newer.
LEMMA NewestIs ==
  ASSUME NEW n \in Nat, NEW positions, positions \subseteq 0 .. n
  PROVE  /\ Newest(positions) \in positions \cup {0} /\ Newest(positions) \in 0 .. n
         /\ \A m \in positions : m <= Newest(positions)
<1> DEFINE P(k) == \E x \in positions \cup {0} : \A m \in positions : m <= k => m <= x
           S == {k \in 0 .. n : P(k)}
<1>1. 0 \in S
  BY DEF S
<1>2. ASSUME NEW k \in 0 .. n, k \in S, k # n PROVE k + 1 \in S
  <2>1. PICK x \in positions \cup {0} : \A m \in positions : m <= k => m <= x
    BY <1>2
  <2>2. CASE k + 1 \in positions
    <3>1. \A m \in positions : m <= k + 1 => m <= k + 1
      OBVIOUS
    <3> QED BY <2>2, <3>1
  <2>3. CASE k + 1 \notin positions
    <3>1. \A m \in positions : m <= k + 1 => m <= k
      BY <2>3
    <3>2. \A m \in positions : m <= k + 1 => m <= x
      BY <2>1, <3>1
    <3>3. P(k + 1)
      BY <2>1, <3>2
    <3>4. k + 1 \in 0 .. n
      BY <1>2
    <3> HIDE DEF P
    <3> QED BY <3>3, <3>4
  <2> QED BY <2>2, <2>3
<1>3. n \in S
  <2> HIDE DEF S
  <2>1. 0 .. n \subseteq S
    BY <1>1, <1>2, Counting
  <2> QED BY <2>1
<1>4. \E x \in positions \cup {0} : \A m \in positions : m <= x
  BY <1>3
<1> DEFINE top == Newest(positions)
<1>5. top = CHOOSE x \in positions \cup {0} : \A m \in positions : m <= x
  BY DEF Newest
<1> HIDE DEF top
<1>6. top \in positions \cup {0} /\ \A m \in positions : m <= top
  BY <1>4, <1>5
<1>7. top \in 0 .. n
  BY <1>6
<1> QED BY <1>6, <1>7 DEF top

LEMMA AskStep == ASSUME TableInv, NEW w \in Repairs, NEW mode \in {"gap-fill", "reset"}, Ask(w, mode) PROVE TableInv'
<1>1. /\ UNCHANGED <<log, ring, eventRows, status, shown, dropped>>
      /\ Shape /\ Truthful(eventRows, status) /\ Emitted' = Emitted
  BY SameRecord DEF Ask, recordVars, tableVars, TableInv
<1>2. Cursor \in Nat
  <2>1. Len(log) \in Nat /\ \A row \in Recorded : row.store \in 1 .. Len(log)
    BY <1>1 DEF Shape, Truthful, Recorded, Emitted, Positions
  <2> QED BY <2>1, NewestIs DEF Cursor
<1> DEFINE job == [NoRepair EXCEPT !.mode = mode, !.at = "fetch", !.from = IF mode = "reset" THEN 0 ELSE Cursor]
<1>3. /\ job \in Job /\ job.at = "fetch" /\ job.todo = {} /\ job.upto = 0
      /\ repair' = [repair EXCEPT ![w] = job]
  BY <1>2 DEF Ask, Goes, NoRepair, Job
<1> HIDE DEF job
<1>4. Truthful(eventRows, status)' /\ Numbered' /\ Shows' /\ \A i \in Emitted : Kept(i) => Kept(i)'
  BY <1>1, TableStays
<1>5. Repairing'
  BY <1>1, <1>3, <1>4, RepairsKeep
<1>6. Shape'
  BY <1>1, <1>3 DEF Shape
<1> QED BY <1>4, <1>5, <1>6 DEF TableInv

\* A repair ends, and nothing else happens.
LEMMA Ending ==
  ASSUME TableInv, NEW w \in Repairs, NEW outcome \in {"done", "void", "failed"}, Gives(w, outcome),
         UNCHANGED <<log, ring, eventRows, status, shown, dropped>>,
         outcome = "done" => repair[w].at = "replay" /\ repair[w].todo = {}
  PROVE  TableInv'
<1>1. Shape /\ Emitted' = Emitted
  BY SameRecord DEF TableInv
<1> DEFINE job == [repair[w] EXCEPT !.at = outcome, !.todo = {}]
<1>2. /\ job \in Job /\ job.at = outcome /\ job.todo = {}
      /\ job.upto = repair[w].upto /\ job.from = repair[w].from
      /\ repair' = [repair EXCEPT ![w] = job]
  BY <1>1 DEF Gives, Goes, Job, Shape
<1> HIDE DEF job
<1>3. Truthful(eventRows, status)' /\ Numbered' /\ Shows' /\ \A i \in Emitted : Kept(i) => Kept(i)'
  BY TableStays
<1>4. outcome = "done" => \A i \in Emitted : job.from < i /\ i <= job.upto => Kept(i)'
  BY <1>2, <1>3 DEF TableInv, Repairing, Wanted
<1>5. Repairing'
  BY <1>2, <1>3, <1>4, RepairsKeep
<1>6. Shape'
  BY <1>1, <1>2 DEF Shape
<1> QED BY <1>3, <1>5, <1>6 DEF TableInv

\* All the entries after the cursor that are not newer than the newest of the batch are in it.
LEMMA BatchIs ==
  ASSUME Shape, NEW after \in Nat, NEW batch, batch = Batch(Served(after))
  PROVE  /\ batch \subseteq Emitted /\ Newest(batch) \in Nat /\ Newest(batch) <= Len(log)
         /\ \A i \in Emitted : after < i /\ i <= Newest(batch) => i \in batch
<1> DEFINE n == Len(log)
           served == Served(after)
           top == Newest(batch)
<1>1. /\ n \in Nat /\ served \subseteq Emitted /\ Emitted \subseteq 1 .. n
      /\ served = {i \in Emitted : i > after}
      /\ batch = {i \in served : Cardinality({j \in served : j <= i}) <= BatchLimit}
  BY DEF Shape, Served, Emitted, Positions, Batch
<1> HIDE DEF served
<1>2. batch \subseteq 0 .. n /\ batch \subseteq Emitted
  <2>1. batch \subseteq served
    BY <1>1
  <2>2. batch \subseteq Emitted /\ Emitted \subseteq 1 .. n /\ 1 .. n \subseteq 0 .. n
    BY <1>1, <2>1
  <2> QED BY ONLY <2>2
<1>3. top \in batch \cup {0} /\ top \in 0 .. n
  <2> HIDE DEF n
  <2> QED BY <1>1, <1>2, NewestIs
<1>4. ASSUME NEW i \in Emitted, after < i, i <= top PROVE i \in batch
  <2>1. i \in served /\ i \in 1 .. n
    BY <1>1, <1>4
  <2>2. top \in batch
    BY <1>3, <1>4, <2>1
  <2> DEFINE A == {j \in served : j <= i}
             B == {j \in served : j <= top}
  <2>3. A \subseteq B /\ B \subseteq 1 .. n
    <3> HIDE DEF n, top
    <3>1. \A j \in served : j \in 1 .. n
      BY <1>1
    <3>2. \A j \in served : j <= i => j <= top
      BY <1>1, <1>3, <1>4, <2>1, <3>1
    <3> QED BY <3>1, <3>2
  <2>4. IsFiniteSet(B)
    <3>1. IsFiniteSet(1 .. n)
      BY <1>1, FS_Interval
    <3> HIDE DEF A, B, n
    <3> QED BY <2>3, <3>1, FS_Subset
  <2>5. Cardinality(A) \in Nat /\ Cardinality(B) \in Nat /\ Cardinality(A) <= Cardinality(B)
    <3> HIDE DEF A, B
    <3> QED BY <2>3, <2>4, FS_Subset, FS_CardinalityType
  <2>6. Cardinality(B) <= BatchLimit
    BY <1>1, <2>2
  <2>7. Cardinality(A) <= BatchLimit
    <3> HIDE DEF A, B
    <3> QED BY <2>5, <2>6, ProjectionBounds
  <2> QED BY <1>1, <2>1, <2>7
<1> QED BY <1>1, <1>2, <1>3, <1>4

LEMMA FetchStep == ASSUME TableInv, NEW w \in Repairs, Fetch(w) PROVE TableInv'
<1>1. /\ UNCHANGED <<log, ring, eventRows, status, shown, dropped>>
      /\ Shape /\ Emitted' = Emitted
  BY SameRecord DEF Fetch, recordVars, tableVars, TableInv
<1>2. CASE Gives(w, "failed")
  BY <1>1, <1>2, Ending
<1>3. ASSUME NEW batch, batch = Batch(Served(repair[w].from)),
             Goes(w, [repair[w] EXCEPT !.at = "replay", !.todo = batch, !.upto = Newest(batch)])
      PROVE  TableInv'
  <2>1. repair[w] \in Job /\ repair[w].from \in Nat
    BY <1>1 DEF Shape, Job
  <2>2. /\ batch \subseteq Emitted /\ Newest(batch) \in Nat /\ Newest(batch) <= Len(log)
        /\ \A i \in Emitted : repair[w].from < i /\ i <= Newest(batch) => i \in batch
    BY <1>1, <1>3, <2>1, BatchIs
  <2>3. Emitted \subseteq Nat
    BY <1>1 DEF Shape, Emitted, Positions
  <2> DEFINE job == [repair[w] EXCEPT !.at = "replay", !.todo = batch, !.upto = Newest(batch)]
  <2>4. /\ job \in Job /\ job.at = "replay" /\ job.todo = batch
        /\ job.upto = Newest(batch) /\ job.from = repair[w].from
        /\ repair' = [repair EXCEPT ![w] = job]
    <3> DEFINE top == Newest(batch)
    <3>1. top \in Nat /\ batch \subseteq Nat
      BY <2>2, <2>3
    <3> HIDE DEF top
    <3>2. job = [repair[w] EXCEPT !.at = "replay", !.todo = batch, !.upto = top]
      BY DEF top
    <3>3. repair' = [repair EXCEPT ![w] = job]
      BY <1>3 DEF Goes
    <3> HIDE DEF job
    <3> QED BY <2>1, <3>1, <3>2, <3>3 DEF Job, top
  <2> HIDE DEF job
  <2>5. Truthful(eventRows, status)' /\ Numbered' /\ Shows' /\ \A i \in Emitted : Kept(i) => Kept(i)'
    BY <1>1, TableStays
  <2>6. Repairing'
    BY <1>1, <2>2, <2>4, <2>5, RepairsKeep
  <2>7. Shape'
    BY <1>1, <2>2, <2>4 DEF Shape
  <2> QED BY <2>5, <2>6, <2>7 DEF TableInv
<1> QED BY <1>2, <1>3 DEF Fetch

LEMMA FillStep == ASSUME TableInv, NEW w \in Repairs, Fill(w) PROVE TableInv'
<1>1. /\ UNCHANGED <<log, ring, dropped>> /\ Shape /\ Repairing /\ Emitted' = Emitted
      /\ repair[w].mode = "gap-fill" /\ repair[w].at = "replay" /\ repair[w].todo \subseteq Emitted
  BY SameRecord DEF Fill, Doing, recordVars, TableInv, Shape
<1>2. CASE repair[w].todo = {} /\ Gives(w, "done") /\ UNCHANGED <<eventRows, status, shown>>
  BY <1>1, <1>2, Ending
<1>3. CASE Gives(w, "failed") /\ UNCHANGED <<eventRows, status, shown>>
  BY <1>1, <1>3, Ending
<1>4. ASSUME NEW i \in repair[w].todo, ~Orphan(i), IngestAndShow(i),
             Goes(w, [repair[w] EXCEPT !.todo = @ \ {i}])
      PROVE  TableInv'
  <2>1. /\ status' \in [Runs -> Statuses] /\ shown' \in [1 .. MaxLog -> Nat]
        /\ Truthful(eventRows, status)' /\ Numbered' /\ Shows'
        /\ \A j \in Emitted : Kept(j) => Kept(j)'
        /\ Kept(i)'
    BY <1>1, <1>4, IngestStep
  <2> DEFINE job == [repair[w] EXCEPT !.todo = @ \ {i}]
  <2>2. /\ job \in Job /\ job.at = "replay" /\ job.mode = "gap-fill" /\ job.todo = repair[w].todo \ {i}
        /\ job.upto = repair[w].upto /\ job.from = repair[w].from
        /\ repair' = [repair EXCEPT ![w] = job]
    <3>1. repair[w] \in Job
      BY <1>1 DEF Shape
    <3>2. repair' = [repair EXCEPT ![w] = job]
      BY <1>4 DEF Goes
    <3> QED BY <1>1, <3>1, <3>2 DEF Job
  <2> HIDE DEF job
  <2>3. \A j \in Emitted : job.from < j /\ j <= job.upto => j \in job.todo \/ Kept(j)'
    BY <1>1, <2>1, <2>2 DEF Repairing, Wanted
  <2>4. Repairing'
    BY <1>1, <2>1, <2>2, <2>3, RepairsKeep
  <2>5. Shape'
    BY <1>1, <2>1, <2>2 DEF Shape
  <2> QED BY <2>1, <2>4, <2>5 DEF TableInv
<1> QED BY <1>2, <1>3, <1>4 DEF Fill

\* A reset: what it deletes it has rebuilt, or it is among the dropped.
LEMMA RebuildStep == ASSUME TableInv, NEW w \in Repairs, Rebuild(w) PROVE TableInv'
<1> DEFINE todo == repair[w].todo
           db == Rebuilt(todo)
<1>1. /\ UNCHANGED <<log, ring, shown>> /\ Shape /\ Numbered /\ Truthful(eventRows, status) /\ Shows /\ Repairing
      /\ Positions' = Positions /\ Emitted' = Emitted /\ Numbered'
      /\ repair[w].mode = "reset" /\ repair[w].at = "replay" /\ todo \subseteq Emitted
  BY SameRecord DEF Rebuild, Doing, recordVars, TableInv, Shape
<1>2. CASE RollsBack(w)
  <2>1. PICK outcome \in {"void", "failed"} : Gives(w, outcome)  BY <1>2 DEF RollsBack
  <2>2. UNCHANGED <<eventRows, status, dropped>>  BY <1>2 DEF RollsBack
  <2> QED  BY <1>1, <2>1, <2>2, Ending
<1>3. ASSUME db.ok, \A i \in todo : ~Orphan(i), Commits(db), Gives(w, "done"),
             dropped' = dropped \cup ({row.store : row \in Recorded} \ todo)
      PROVE  TableInv'
  <2>1. eventRows' = db.rows /\ status' = db.status
    BY <1>3 DEF Commits
  <2> HIDE DEF todo, db
  <2>2. /\ db.status \in [Runs -> Statuses] /\ Truthful(db.rows, db.status)
        /\ eventRows \ Recorded \subseteq db.rows
        /\ \A i \in todo : RowOf(i) \in db.rows
        /\ \A r \in Runs : db.status[r] = "destroyed" <=> status[r] = "destroyed"
    BY <1>1, <1>3, RebuiltKeeps DEF db
  <2>3. /\ status' \in [Runs -> Statuses] /\ Truthful(eventRows', status')
        /\ \A row \in eventRows : row.store = 0 => row \in eventRows'
        /\ \A i \in todo : RowOf(i) \in eventRows'
        /\ \A r \in Runs : status'[r] = "destroyed" <=> status[r] = "destroyed"
    BY <2>1, <2>2 DEF Recorded
  <2>4. Truthful(eventRows, status)'
    BY <1>1, <2>3 DEF Truthful
  <2>5. ASSUME NEW i \in Emitted, Has(i) PROVE Has(i)' \/ i \in dropped'
    <3>1. PICK row \in eventRows : row.store = i
      BY <2>5 DEF Has
    <3>2. i # 0
      BY <1>1 DEF Emitted, Positions, Shape
    <3>3. CASE i \in todo
      <4>1. RowOf(i) \in eventRows' /\ RowOf(i).store = i
        BY <2>3, <3>3 DEF RowOf
      <4> QED BY <4>1 DEF Has
    <3>4. CASE i \notin todo
      BY <1>3, <3>1, <3>2, <3>4 DEF Recorded
    <3> QED BY <3>3, <3>4
  <2>6. ASSUME NEW i \in Emitted, Kept(i) PROVE Kept(i)'
    <3>1. CASE Clashes(i)
      <4>1. PICK row \in eventRows : row.store # i /\ row.run = log[i].run /\ row.seq = log[i].seq /\ log[i].seq # 0
        BY <3>1 DEF Clashes, Taken
      <4>2. row \in eventRows'
        BY <2>3, <4>1, ClashingRow
      <4> QED BY <1>1, <4>1, <4>2 DEF Kept, Clashes, Taken
    <3>2. CASE Has(i)
      BY <2>5, <3>2 DEF Kept
    <3>3. CASE i \in dropped
      BY <1>3, <3>3 DEF Kept
    <3> QED BY <2>6, <3>1, <3>2, <3>3 DEF Kept
  <2>7. ASSUME NEW i \in Positions, Met(i) PROVE Met(i)' \/ i \in dropped'
    <3>1. CASE Orphan(i)
      <4>1. log[i].run \in Runs
        BY <1>1, EntryIs
      <4> QED BY <1>1, <2>3, <3>1, <4>1 DEF Orphan, Met
    <3>2. CASE Taken(eventRows, log[i].run, log[i].seq)
      <4>1. PICK row \in eventRows : row.run = log[i].run /\ row.seq = log[i].seq /\ log[i].seq # 0
        BY <3>2 DEF Taken
      <4>2. i \in Emitted
        BY <4>1 DEF Emitted
      <4>3. CASE row.store = 0
        BY <1>1, <2>3, <4>1, <4>3 DEF Met, Taken
      <4>4. CASE row.store = i /\ i \in todo
        <5>1. RowOf(i) \in eventRows' /\ RowOf(i).run = log[i].run /\ RowOf(i).seq = log[i].seq
          BY <2>3, <4>4 DEF RowOf
        <5> QED BY <1>1, <4>1, <5>1 DEF Met, Taken
      <4>5. CASE row.store = i /\ row.store # 0 /\ i \notin todo
        BY <1>3, <4>5 DEF Recorded
      <4> QED BY <4>1, <4>2, <4>3, <4>4, <4>5, ClashingRow
    <3> QED BY <2>7, <3>1, <3>2 DEF Met
  <2>8. Shows'
    BY <1>1, <1>3, <2>7 DEF Shows
  <2> DEFINE job == [repair[w] EXCEPT !.at = "done", !.todo = {}]
  <2>9. /\ job \in Job /\ job.at = "done" /\ job.todo = {}
        /\ job.upto = repair[w].upto /\ job.from = repair[w].from
        /\ repair' = [repair EXCEPT ![w] = job]
    <3>1. repair[w] \in Job
      BY <1>1 DEF Shape
    <3> QED BY <1>3, <3>1 DEF Gives, Goes, Job
  <2> HIDE DEF job
  <2>10. \A i \in Emitted : job.from < i /\ i <= job.upto => Kept(i)'
    <3> SUFFICES ASSUME NEW i \in Emitted, job.from < i, i <= job.upto PROVE Kept(i)'
      OBVIOUS
    <3>1. i \in todo
      BY <1>1, <2>9 DEF Repairing, Wanted, todo
    <3>2. RowOf(i) \in eventRows' /\ RowOf(i).store = i
      BY <2>3, <3>1 DEF RowOf
    <3> QED BY <3>2 DEF Kept, Has
  <2>11. Repairing'
    BY <1>1, <2>6, <2>9, <2>10, RepairsKeep
  <2>12. Shape'
    BY <1>1, <2>3, <2>9 DEF Shape
  <2> QED BY <1>1, <2>4, <2>8, <2>11, <2>12 DEF TableInv
<1> QED BY <1>2, <1>3 DEF Rebuild, Replaces

LEMMA TableInvNext == TableInv /\ [ProjectionNext]_projectionVars => TableInv'
<1> SUFFICES ASSUME TableInv, [ProjectionNext]_projectionVars PROVE TableInv'
  OBVIOUS
<1>1. ASSUME NEW r \in Runs, Start(r) \/ Works(r) \/ Decide(r) \/ Guess(r) PROVE TableInv'
  BY <1>1, StartStep, WorksStep, DecideStep, GuessStep
<1>2. CASE Evict \/ Deliver
  BY <1>2, EvictStep, DeliverStep
<1>3. ASSUME NEW w \in Repairs,
             (\E mode \in {"gap-fill", "reset"} : Ask(w, mode)) \/ Fetch(w) \/ Fill(w) \/ Rebuild(w)
      PROVE  TableInv'
  BY <1>3, AskStep, FetchStep, FillStep, RebuildStep
<1>4. CASE UNCHANGED projectionVars
  <2>1. UNCHANGED <<log, ring, eventRows, status, repair, shown, dropped>>
    BY <1>4 DEF projectionVars, recordVars, tableVars
  <2>2. Truthful(eventRows, status)' /\ Numbered' /\ Shows' /\ Repairing'
    BY <2>1, TableStays, RepairsStay
  <2>3. Shape'
    BY <2>1, SameRecord DEF TableInv, Shape
  <2> QED BY <2>2, <2>3 DEF TableInv
<1> QED BY <1>1, <1>2, <1>3, <1>4 DEF ProjectionNext

LEMMA TableInvAlways == ProjectionSpec => []TableInv
<1> QED BY TableInvInit, TableInvNext, PTL DEF ProjectionSpec

\* A gap-fill or a reset that is done has put into the table all that it was served, whatever
\* came over the wire, was decided or was repaired meanwhile (rederive.rb:6); a reset that the
\* database rolled back at its last entry is not one of them ("void").
THEOREM RepairsRepair == ProjectionSpec => []Repaired
<1>1. TableInv => Repaired
  BY TableInvImplies
<1> QED BY <1>1, TableInvAlways, PTL

\* No event is broadcast twice, live or by a gap-fill, but one that a reset deleted and did not
\* rebuild (rederive.rb:17).
THEOREM NeverShownTwice == ProjectionSpec => []ShownOnce
<1>1. TableInv => ShownOnce
  BY TableInvImplies
<1> QED BY <1>1, TableInvAlways, PTL
=============================================================================
