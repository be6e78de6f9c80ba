--------------------------- MODULE TransportProofs ---------------------------
(***************************************************************************)
(* What the channel to Rails promises, for every size of its buffers, any  *)
(* number of events and any number of POSTs that fail.                     *)
(*                                                                         *)
(* The buffer is always the last events that were handed over (Window),    *)
(* and so is the batch of the POST under way, but for the events that were *)
(* evicted meanwhile (InFlight).  The splice of an acknowledgement removes *)
(* as many events too many as were evicted from the batch, which is what   *)
(* the log can be charged with (Charged).                                  *)
(***************************************************************************)
EXTENDS Transport, SequenceTheorems, FiniteSetTheorems, TLAPS

Durables   == [kind : {"durable"}, rest : Seq(Nat)]
Ephemerals == [kind : {"ephemeral"}, rest : Seq(Seq(Nat))]

TypeOK ==
  /\ buffer \in Seq(Nat) /\ batch \in Seq(Nat) /\ posted \in Seq(Nat) /\ rows \in Seq(Nat)
  /\ queue \in Seq(Seq(Nat)) /\ voiced \in Seq(Seq(Nat)) /\ heard \in Seq(Seq(Nat))
  /\ strays \subseteq Durables \cup Ephemerals /\ \A s \in strays : s.rest # <<>>
  /\ chain \in Nat /\ due \in Nat /\ emitted \in Nat /\ streamed \in Nat /\ handed \in Nat /\ faults \in Nat
  /\ evicted \in SUBSET Nat
  /\ pump \in {"idle", "posting", "ending"}
  /\ closing \in {"open", "flushing", "drained", "deadline"}
  /\ outcome \in {"acked", "buffered", "fatal"} /\ verdict \in {"none", "acked", "buffered", "fatal"}
  /\ fatal \in BOOLEAN /\ late \in BOOLEAN /\ timer \in BOOLEAN /\ joined \in BOOLEAN

\* The events that have left the buffer are the first ones.
Gone == emitted - Len(buffer)

Window ==
  /\ Gone \in Nat
  /\ \A i \in 1 .. Len(buffer) : buffer[i] = Gone + i
  /\ evicted \subseteq 1 .. Gone

\* A batch is a run of events; those of it that left the buffer meanwhile were evicted.
Sequel(events) == \A i \in 1 .. Len(events) : events[i] = events[1] + i - 1

InFlight ==
  /\ batch = <<>> => posted = <<>>
  /\ batch # <<>> =>
       /\ chain > 0 /\ Sequel(batch)
       /\ batch[1] \in 1 .. Gone + 1 /\ batch[1] + Len(batch) - 1 <= emitted
       /\ \A e \in Range(batch) : e \in evicted <=> e <= Gone
       /\ Range(batch) \subseteq Range(rows) \cup Range(posted)

\* The evictions account for what vanished, the batch aside.
Charged == Cardinality(Vanished \ Range(batch)) <= Cardinality(evicted \ Range(batch))

\* Without an eviction every POST carries on where the table ends, or earlier.
Follows(events) == events # <<>> => events[1] \in 1 .. Len(rows) + 1 /\ Sequel(events)

Ordered ==
  evicted = {} =>
    /\ \A i \in 1 .. Len(rows) : rows[i] = i
    /\ Follows(posted)
    /\ \A s \in strays : s.kind = "durable" => Follows(s.rest)

\* The flush that shutdown waits for POSTs what had been handed over.
Drained ==
  /\ due <= chain /\ handed <= emitted
  /\ closing = "open" => due = 0 /\ verdict = "none"
  /\ due = 1 /\ batch # <<>> => handed <= batch[1] + Len(batch) - 1
  /\ closing # "open" /\ verdict = "acked" /\ evicted = {} => 1 .. handed \subseteq Range(rows)

Durable == Window /\ InFlight /\ Charged /\ Ordered /\ Drained

\* What is queued comes after what is posted, and that after what was heard.
Precede(entries, others) ==
  \A i \in DOMAIN entries, j \in DOMAIN others : Before(entries[i], others[j])

UpTo(entries, n) == \A i \in DOMAIN entries : \A k \in DOMAIN entries[i] : entries[i][k] <= n

Live ==
  /\ pump # "posting" => voiced = <<>>
  /\ ~late => /\ \A s \in strays : s.kind = "durable"
              /\ UpTo(heard, streamed) /\ UpTo(voiced, streamed) /\ UpTo(queue, streamed)
              /\ InOrder(heard) /\ InOrder(voiced) /\ InOrder(queue)
              /\ Precede(heard, voiced) /\ Precede(heard, queue) /\ Precede(voiced, queue)

Inv == TypeOK /\ Durable /\ Live

-----------------------------------------------------------------------------
(* Sequences.                                                              *)

LEMMA TailIs ==
  ASSUME NEW S, NEW s \in Seq(S), s # <<>>
  PROVE  /\ Len(s) \in Nat \ {0} /\ Head(s) = s[1] /\ s[1] \in S
         /\ Tail(s) \in Seq(S) /\ Len(Tail(s)) = Len(s) - 1
         /\ \A i \in 1 .. Len(Tail(s)) : Tail(s)[i] = s[i + 1]
BY HeadTailProperties, EmptySeq, LenProperties

LEMMA RangeIs ==
  ASSUME NEW S, NEW s \in Seq(S)
  PROVE  Len(s) \in Nat /\ DOMAIN s = 1 .. Len(s) /\ Range(s) = {s[i] : i \in 1 .. Len(s)}
         /\ (s = <<>> <=> Len(s) = 0) /\ Range(<<>>) = {}
BY LenProperties, EmptySeq DEF Range

LEMMA EmptyRange == Range(<<>>) = {} /\ Len(<<>>) = 0
BY RangeIs, EmptySeq

\* The events of a run of numbers.
LEMMA SequelRange ==
  ASSUME NEW s \in Seq(Nat), s # <<>>, Sequel(s)
  PROVE  Range(s) = s[1] .. s[1] + Len(s) - 1 /\ s[1] \in Nat /\ Len(s) \in Nat \ {0}
<1>1. Len(s) \in Nat \ {0} /\ s[1] \in Nat  BY TailIs
<1>2. Range(s) = {s[i] : i \in 1 .. Len(s)}  BY RangeIs
<1>3. ASSUME NEW x \in s[1] .. s[1] + Len(s) - 1 PROVE x \in Range(s)
  <2>1. x - s[1] + 1 \in 1 .. Len(s)  BY <1>1
  <2>2. s[x - s[1] + 1] = x  BY <1>1, <2>1, SMTT(30) DEF Sequel
  <2> QED  BY <1>2, <2>1, <2>2
<1>4. ASSUME NEW x \in Range(s) PROVE x \in s[1] .. s[1] + Len(s) - 1
  <2>1. PICK i \in 1 .. Len(s) : x = s[i]  BY <1>2
  <2> QED  BY <1>1, <2>1, SMTT(30) DEF Sequel
<1> QED  BY <1>1, <1>3, <1>4

LEMMA WindowRange ==
  ASSUME TypeOK, Window
  PROVE  Range(buffer) = Gone + 1 .. emitted /\ Vanished = {e \in 1 .. Gone : e \notin Range(rows)}
         /\ Len(buffer) \in Nat /\ Gone + Len(buffer) = emitted
<1>1. Len(buffer) \in Nat /\ emitted \in Nat /\ Gone \in Nat
  BY RangeIs DEF TypeOK, Window
<1>2. Range(buffer) = {buffer[i] : i \in 1 .. Len(buffer)}  BY RangeIs DEF TypeOK
<1>3. ASSUME NEW x \in Gone + 1 .. emitted PROVE x \in Range(buffer)
  <2>1. x - Gone \in 1 .. Len(buffer)  BY <1>1 DEF Gone
  <2>2. buffer[x - Gone] = x  BY <1>1, <2>1 DEF Window
  <2> QED  BY <1>2, <2>1, <2>2
<1>4. ASSUME NEW x \in Range(buffer) PROVE x \in Gone + 1 .. emitted
  <2>1. PICK i \in 1 .. Len(buffer) : x = buffer[i]  BY <1>2
  <2> QED  BY <1>1, <2>1 DEF Window, Gone
<1>5. Range(buffer) = Gone + 1 .. emitted  BY <1>3, <1>4
<1>6. Gone + Len(buffer) = emitted  BY <1>1 DEF Gone
<1>7. Vanished = {e \in 1 .. Gone : e \notin Range(rows)}
  BY <1>1, <1>5, <1>6 DEF Vanished
<1> QED  BY <1>1, <1>5, <1>6, <1>7

-----------------------------------------------------------------------------
(* Cardinalities.                                                          *)

\* A set split in two.
LEMMA Split ==
  ASSUME NEW S, NEW B, IsFiniteSet(S)
  PROVE  /\ IsFiniteSet(S \ B) /\ IsFiniteSet(S \cap B)
         /\ Cardinality(S) = Cardinality(S \ B) + Cardinality(S \cap B)
         /\ Cardinality(S \ B) \in Nat /\ Cardinality(S \cap B) \in Nat
<1>1. IsFiniteSet(S \ B) /\ IsFiniteSet(S \cap B)  BY FS_Subset
<1>2. Cardinality(S \ B) \in Nat /\ Cardinality(S \cap B) \in Nat  BY <1>1, FS_CardinalityType
<1>3. (S \ B) \cup (S \cap B) = S /\ (S \ B) \cap (S \cap B) = {}  OBVIOUS
<1>4. Cardinality(S) = Cardinality(S \ B) + Cardinality(S \cap B)
  <2> DEFINE P == S \ B
             Q == S \cap B
  <2> HIDE DEF P, Q
  <2>1. IsFiniteSet(P) /\ IsFiniteSet(Q) /\ P \cup Q = S /\ P \cap Q = {}  BY <1>1, <1>3 DEF P, Q
  <2>2. Cardinality(P \cup Q) = Cardinality(P) + Cardinality(Q) - Cardinality(P \cap Q)
    BY <2>1, FS_Union
  <2>3. Cardinality(P) \in Nat /\ Cardinality(Q) \in Nat  BY <1>2 DEF P, Q
  <2>4. Cardinality(P \cap Q) = 0  BY <2>1, FS_EmptySet
  <2>5. Cardinality(P \cup Q) = Cardinality(S)  BY <2>1
  <2>6. Cardinality(S) = Cardinality(P) + Cardinality(Q)  BY <2>2, <2>3, <2>4, <2>5
  <2> QED  BY <2>6 DEF P, Q
<1> QED  BY <1>1, <1>2, <1>4

\* Subsets of numbers up to a bound are finite.
LEMMA NumbersFinite ==
  ASSUME NEW n \in Nat, NEW S \in SUBSET (1 .. n)
  PROVE  IsFiniteSet(S)
<1>1. IsFiniteSet(1 .. n)  BY FS_Interval
<1> QED  BY <1>1, FS_Subset

LEMMA Interval ==
  ASSUME NEW a \in Nat, NEW b \in Int, b >= a - 1
  PROVE  IsFiniteSet(a .. b) /\ Cardinality(a .. b) = b - a + 1
<1>1. a \in Int /\ (a > b => b - a + 1 = 0)  OBVIOUS
<1>2. IsFiniteSet(a .. b) /\ Cardinality(a .. b) = IF a > b THEN 0 ELSE b - a + 1
  BY <1>1, FS_Interval
<1> QED  BY <1>1, <1>2

LEMMA Smaller ==
  ASSUME NEW T, IsFiniteSet(T), NEW S \in SUBSET T
  PROVE  IsFiniteSet(S) /\ Cardinality(S) <= Cardinality(T)
         /\ Cardinality(S) \in Nat /\ Cardinality(T) \in Nat
BY FS_Subset, FS_CardinalityType

\* What vanished and what was evicted are finite; with no POST under way, the one is charged
\* to the other.
LEMMA ChargedIs ==
  ASSUME TypeOK, Window, InFlight, Charged
  PROVE  /\ IsFiniteSet(Vanished) /\ IsFiniteSet(evicted)
         /\ Cardinality(Vanished) <= Cardinality(evicted)
         /\ evicted = {} => Vanished = {}
<1>1. Vanished \in SUBSET (1 .. Gone) /\ evicted \in SUBSET (1 .. Gone) /\ Gone \in Nat
  BY WindowRange DEF Window
<1>2. IsFiniteSet(Vanished) /\ IsFiniteSet(evicted)  BY <1>1, NumbersFinite
<1> DEFINE B == Range(batch)
<1>3. Vanished \cap B \in SUBSET (evicted \cap B)
  <2>1. CASE batch = <<>>  BY <2>1, RangeIs DEF TypeOK
  <2>2. CASE batch # <<>>
    BY <1>1, <2>2 DEF InFlight
  <2> QED  BY <2>1, <2>2
<1> HIDE DEF B
<1>4. /\ IsFiniteSet(evicted \cap B)
      /\ Cardinality(Vanished) = Cardinality(Vanished \ B) + Cardinality(Vanished \cap B)
      /\ Cardinality(evicted) = Cardinality(evicted \ B) + Cardinality(evicted \cap B)
      /\ Cardinality(Vanished \ B) \in Nat /\ Cardinality(Vanished \cap B) \in Nat
      /\ Cardinality(evicted \ B) \in Nat /\ Cardinality(evicted \cap B) \in Nat
  BY <1>2, Split
<1>5. Cardinality(Vanished \cap B) <= Cardinality(evicted \cap B)  BY <1>3, <1>4, Smaller
<1>6. Cardinality(Vanished \ B) <= Cardinality(evicted \ B)  BY DEF Charged, B
<1>7. Cardinality(Vanished) <= Cardinality(evicted)  BY <1>4, <1>5, <1>6
<1>8. evicted = {} => Vanished = {}
  <2> SUFFICES ASSUME evicted = {} PROVE Vanished = {}  OBVIOUS
  <2>1. Cardinality(evicted) = 0  BY FS_EmptySet
  <2>2. Cardinality(Vanished) = 0  BY <1>4, <1>7, <2>1
  <2> QED  BY <1>2, <2>2, FS_EmptySet
<1> QED  BY <1>2, <1>7, <1>8

\* What is left of a POST is left as it was.
LEMMA StrayIs ==
  ASSUME NEW kind, NEW rest, NEW s \in Stray(kind, rest)
  PROVE  s.kind = kind /\ s.rest = rest /\ rest # <<>> /\ s = [kind |-> kind, rest |-> rest]
<1>1. rest # <<>> /\ s \in {[kind |-> kind, rest |-> rest]}  BY DEF Stray
<1>2. s = [kind |-> kind, rest |-> rest]  BY <1>1
<1> QED  BY <1>1, <1>2

\* What stays out of the durable path.
LEMMA OtherKeeps ==
  ASSUME Durable,
         UNCHANGED <<buffer, chain, batch, evicted, posted, rows, emitted, due, verdict, handed>>,
         closing' = "open" <=> closing = "open",
         \A u \in strays' : u.kind = "durable" => u \in strays
  PROVE  Durable'
<1>1. Window' /\ InFlight'  BY DEF Durable, Window, InFlight, Gone
<1>2. Charged'  BY DEF Durable, Charged, Vanished
<1>3. Ordered'  BY DEF Durable, Ordered, Follows
<1>4. Drained'  BY DEF Durable, Drained
<1> QED  BY <1>1, <1>2, <1>3, <1>4 DEF Durable

-----------------------------------------------------------------------------
(* Rails takes an event.                                                   *)

LEMMA IngestIs ==
  ASSUME rows \in Seq(Nat), NEW e \in Nat, Ingest(e)
  PROVE  /\ rows' \in Seq(Nat) /\ Range(rows') = Range(rows) \cup {e} /\ Len(rows') >= Len(rows)
         /\ Len(rows') \in Nat /\ Len(rows) \in Nat
         /\ (\A i \in 1 .. Len(rows) : rows[i] = i) /\ e \in 1 .. Len(rows) + 1 =>
              (\A i \in 1 .. Len(rows') : rows'[i] = i) /\ e <= Len(rows')
<1>1. Range(rows) = {rows[i] : i \in 1 .. Len(rows)} /\ Len(rows) \in Nat  BY RangeIs
<1>2. CASE e \in Range(rows)
  <2>1. rows' = rows  BY <1>2 DEF Ingest
  <2>2. (\A i \in 1 .. Len(rows) : rows[i] = i) => e <= Len(rows)  BY <1>1, <1>2
  <2> QED  BY <1>1, <1>2, <2>1, <2>2
<1>3. CASE e \notin Range(rows)
  <2>1. rows' = Append(rows, e)  BY <1>3 DEF Ingest
  <2>2. /\ rows' \in Seq(Nat) /\ Len(rows') = Len(rows) + 1 /\ rows'[Len(rows) + 1] = e
        /\ \A i \in 1 .. Len(rows) : rows'[i] = rows[i]
    BY <2>1, AppendProperties
  <2>3. Range(rows') = {rows'[i] : i \in 1 .. Len(rows')}  BY <2>2, RangeIs
  <2>4. 1 .. Len(rows') = 1 .. Len(rows) \cup {Len(rows) + 1}  BY <1>1, <2>2
  <2>5. Range(rows') = Range(rows) \cup {e}
    <3>1. \A x : x \in Range(rows') <=> \E i \in 1 .. Len(rows) \cup {Len(rows) + 1} : x = rows'[i]
      BY <2>3, <2>4
    <3>2. \A x : x \in Range(rows) <=> \E i \in 1 .. Len(rows) : x = rows[i]  BY <1>1
    <3>3. \A x : x \in Range(rows') <=> x \in Range(rows) \/ x = e  BY <2>2, <3>1, <3>2
    <3> QED  BY <3>3
  <2>6. ASSUME \A i \in 1 .. Len(rows) : rows[i] = i, e \in 1 .. Len(rows) + 1
        PROVE  (\A i \in 1 .. Len(rows') : rows'[i] = i) /\ e <= Len(rows')
    <3>1. e \notin 1 .. Len(rows)
      <4> SUFFICES ASSUME e \in 1 .. Len(rows) PROVE FALSE  OBVIOUS
      <4>1. rows[e] = e  BY <2>6
      <4> QED  BY <1>1, <1>3, <4>1
    <3>2. e = Len(rows) + 1  BY <1>1, <2>6, <3>1
    <3> QED  BY <2>2, <2>4, <2>6, <3>2, SMTT(30)
  <2> QED  BY <1>1, <2>2, <2>5, <2>6
<1> QED  BY <1>2, <1>3

\* What is left of a POST after its first event.
LEMMA FollowsTail ==
  ASSUME NEW s \in Seq(Nat), s # <<>>, Sequel(s), NEW n \in Nat, s[1] <= n
  PROVE  Tail(s) # <<>> => Tail(s)[1] \in 1 .. n + 1 /\ Sequel(Tail(s))
<1> SUFFICES ASSUME Tail(s) # <<>> PROVE Tail(s)[1] \in 1 .. n + 1 /\ Sequel(Tail(s))
  OBVIOUS
<1>1. /\ Len(s) \in Nat \ {0} /\ s[1] \in Nat /\ Tail(s) \in Seq(Nat) /\ Len(Tail(s)) = Len(s) - 1
      /\ \A i \in 1 .. Len(Tail(s)) : Tail(s)[i] = s[i + 1]
  BY TailIs
<1>2. Len(Tail(s)) > 0  BY <1>1, RangeIs
<1>3. \A i \in 1 .. Len(Tail(s)) : Tail(s)[i] = s[1] + i
  <2> SUFFICES ASSUME NEW i \in 1 .. Len(Tail(s)) PROVE Tail(s)[i] = s[1] + i  OBVIOUS
  <2>1. i + 1 \in 1 .. Len(s)  BY <1>1
  <2>2. s[i + 1] = s[1] + (i + 1) - 1  BY <2>1 DEF Sequel
  <2> QED  BY <1>1, <2>2
<1>4. Tail(s)[1] = s[1] + 1  BY <1>1, <1>2, <1>3
<1>5. Sequel(Tail(s))  BY <1>1, <1>3, <1>4, SMTT(30) DEF Sequel
<1> QED  BY <1>1, <1>4, <1>5

\* The table grows by an event of a POST.
LEMMA GrowKeeps ==
  ASSUME TypeOK, Durable, NEW e \in Nat, Ingest(e),
         UNCHANGED <<durableVars, closingVars, emitted>>,
         batch = <<>> => posted' = <<>>,
         Range(posted) \subseteq Range(posted') \cup {e},
         evicted = {} => /\ e \in 1 .. Len(rows) + 1
                         /\ Len(rows') >= Len(rows) /\ e <= Len(rows') => Ordered'
  PROVE  Durable'
<1>1. /\ rows' \in Seq(Nat) /\ Range(rows') = Range(rows) \cup {e} /\ Len(rows') >= Len(rows)
      /\ (\A i \in 1 .. Len(rows) : rows[i] = i) /\ e \in 1 .. Len(rows) + 1 =>
           (\A i \in 1 .. Len(rows') : rows'[i] = i) /\ e <= Len(rows')
  BY IngestIs DEF TypeOK
<1>2. /\ buffer' = buffer /\ chain' = chain /\ batch' = batch /\ evicted' = evicted
      /\ closing' = closing /\ due' = due /\ verdict' = verdict /\ handed' = handed
      /\ emitted' = emitted
  BY DEF durableVars, closingVars
<1>3. Window'  BY <1>2 DEF Durable, Window, Gone
<1>4. InFlight'  BY <1>1, <1>2 DEF Durable, InFlight, Gone
<1>5. Charged'
  <2>1. Vanished' \subseteq Vanished  BY <1>1, <1>2 DEF Vanished
  <2>2. IsFiniteSet(Vanished \ Range(batch))  BY ChargedIs, Split DEF Durable
  <2>3. Vanished' \ Range(batch) \in SUBSET (Vanished \ Range(batch))  BY <2>1
  <2>4. /\ Cardinality(Vanished' \ Range(batch)) <= Cardinality(Vanished \ Range(batch))
        /\ Cardinality(Vanished' \ Range(batch)) \in Nat
        /\ Cardinality(Vanished \ Range(batch)) \in Nat
    BY <2>2, <2>3, Smaller
  <2>5. Cardinality(Vanished \ Range(batch)) <= Cardinality(evicted \ Range(batch))
    BY DEF Durable, Charged
  <2>6. Cardinality(evicted \ Range(batch)) \in Nat  BY ChargedIs, Split DEF Durable
  <2>7. Cardinality(Vanished' \ Range(batch)) <= Cardinality(evicted \ Range(batch))
    BY <2>4, <2>5, <2>6
  <2> QED  BY <1>2, <2>7 DEF Charged
<1>6. Ordered'
  <2>1. CASE evicted = {}  BY <1>1, <2>1 DEF Durable, Ordered
  <2>2. CASE evicted # {}  BY <1>2, <2>2 DEF Ordered
  <2> QED  BY <2>1, <2>2
<1>7. Drained'  BY <1>1, <1>2 DEF Durable, Drained
<1> QED  BY <1>3, <1>4, <1>5, <1>6, <1>7 DEF Durable

LEMMA IngestPostedKeeps ==
  ASSUME TypeOK, Durable, IngestPosted
  PROVE  Durable'
<1>1. /\ posted # <<>> /\ Ingest(Head(posted)) /\ posted' = Tail(posted) /\ strays' = strays
      /\ UNCHANGED <<durableVars, closingVars, emitted>>
  BY DEF IngestPosted
<1>2. /\ Len(posted) \in Nat \ {0} /\ Head(posted) = posted[1] /\ posted[1] \in Nat
      /\ Tail(posted) \in Seq(Nat) /\ Len(Tail(posted)) = Len(posted) - 1
      /\ \A i \in 1 .. Len(Tail(posted)) : Tail(posted)[i] = posted[i + 1]
  BY <1>1, TailIs DEF TypeOK
<1>3. Range(posted) \subseteq Range(posted') \cup {Head(posted)}
  <2> SUFFICES ASSUME NEW i \in 1 .. Len(posted), i # 1 PROVE posted[i] \in Range(Tail(posted))
    <3>1. Range(posted) = {posted[i] : i \in 1 .. Len(posted)}  BY RangeIs DEF TypeOK
    <3> QED  BY <1>1, <1>2, <3>1
  <2>1. i - 1 \in 1 .. Len(Tail(posted))  BY <1>2
  <2>2. Tail(posted)[i - 1] = posted[i]  BY <1>2, <2>1
  <2> QED  BY <1>2, <2>1, <2>2, RangeIs, ZenonT(60)
<1>4. Len(rows) \in Nat /\ Len(rows') \in Nat /\ Range(rows) \subseteq Range(rows')
  BY <1>1, <1>2, IngestIs DEF TypeOK
<1>5. ASSUME evicted = {}
      PROVE  /\ Head(posted) \in 1 .. Len(rows) + 1
             /\ Len(rows') >= Len(rows) /\ Head(posted) <= Len(rows') => Ordered'
  <2>1. Head(posted) \in 1 .. Len(rows) + 1 /\ Sequel(posted)
    BY <1>1, <1>2, <1>5 DEF Durable, Ordered, Follows
  <2> SUFFICES ASSUME Len(rows') >= Len(rows), Head(posted) <= Len(rows') PROVE Ordered'
    BY <2>1
  <2>2. Follows(posted)'  BY <1>1, <1>2, <1>4, <2>1, FollowsTail DEF Follows, TypeOK
  <2>3. ASSUME NEW s \in strays, s.kind = "durable"
        PROVE  s.rest # <<>> => s.rest[1] \in 1 .. Len(rows') + 1 /\ Sequel(s.rest)
    BY <1>4, <1>5, <2>3 DEF Durable, Ordered, Follows
  <2>4. \A i \in 1 .. Len(rows') : rows'[i] = i
    BY <1>1, <1>2, <1>5, <2>1, IngestIs DEF Durable, Ordered, TypeOK
  <2> QED  BY <1>1, <2>2, <2>3, <2>4 DEF Ordered, Follows
<1>6. batch = <<>> => posted' = <<>>  BY <1>1 DEF Durable, InFlight
<1> QED  BY <1>1, <1>2, <1>3, <1>5, <1>6, GrowKeeps

LEMMA StrayKeeps ==
  ASSUME TypeOK, Durable, IngestStray
  PROVE  Durable'
<1>1. PICK s \in strays :
        /\ strays' = (strays \ {s}) \cup Stray(s.kind, Tail(s.rest))
        /\ \/ s.kind = "durable" /\ Ingest(Head(s.rest))
           \/ s.kind = "ephemeral" /\ rows' = rows
        /\ posted' = posted /\ UNCHANGED <<durableVars, closingVars, emitted>>
  BY DEF IngestStray
<1>2. CASE s.kind = "durable"
  <2>1. s.rest \in Seq(Nat) /\ s.rest # <<>>  BY <1>2 DEF TypeOK, Durables, Ephemerals
  <2>2. /\ Head(s.rest) = s.rest[1] /\ s.rest[1] \in Nat /\ Ingest(Head(s.rest))
    BY <1>1, <1>2, <2>1, TailIs
  <2>3. Len(rows) \in Nat /\ Len(rows') \in Nat  BY <2>2, IngestIs DEF TypeOK
  <2>4. ASSUME evicted = {}
        PROVE  /\ Head(s.rest) \in 1 .. Len(rows) + 1
               /\ Len(rows') >= Len(rows) /\ Head(s.rest) <= Len(rows') => Ordered'
    <3>1. Head(s.rest) \in 1 .. Len(rows) + 1 /\ Sequel(s.rest)
      BY <1>2, <2>1, <2>2, <2>4 DEF Durable, Ordered, Follows
    <3> SUFFICES ASSUME Len(rows') >= Len(rows), Head(s.rest) <= Len(rows') PROVE Ordered'
      BY <3>1
    <3>2. Tail(s.rest) # <<>> =>
            Tail(s.rest)[1] \in 1 .. Len(rows') + 1 /\ Sequel(Tail(s.rest))
      BY <2>1, <2>2, <2>3, <3>1, FollowsTail
    <3>3. ASSUME NEW u \in strays', u.kind = "durable"
          PROVE  u.rest # <<>> => u.rest[1] \in 1 .. Len(rows') + 1 /\ Sequel(u.rest)
      <4>1. CASE u \in strays  BY <2>3, <2>4, <3>3, <4>1 DEF Durable, Ordered, Follows
      <4>2. CASE u \in Stray(s.kind, Tail(s.rest))  
        <5>1. u.rest = Tail(s.rest)  BY <4>2, StrayIs
        <5> QED  BY <3>2, <5>1
      <4> QED  BY <1>1, <4>1, <4>2
    <3>4. posted # <<>> => posted[1] \in 1 .. Len(rows') + 1 /\ Sequel(posted)
      BY <2>3, <2>4 DEF Durable, Ordered, Follows
    <3>5. \A i \in 1 .. Len(rows') : rows'[i] = i
      BY <2>2, <2>4, <3>1, IngestIs DEF Durable, Ordered, TypeOK
    <3> QED  BY <1>1, <3>3, <3>4, <3>5 DEF Ordered, Follows
  <2>5. batch = <<>> => posted' = <<>>  BY <1>1 DEF Durable, InFlight
  <2> QED  BY <1>1, <2>2, <2>4, <2>5, GrowKeeps
<1>3. CASE s.kind = "ephemeral"
  <2>1. \A u \in strays' : u.kind = "durable" => u \in strays  BY <1>1, <1>3, StrayIs
  <2> QED  BY <1>1, <1>3, <2>1, OtherKeeps DEF durableVars, closingVars
<1> QED  BY <1>1, <1>2, <1>3

-----------------------------------------------------------------------------
(* The harness hands over, posts, and hears of its POSTs.                  *)

\* Without an eviction, what has left the buffer is in the table, from its first row on.
LEMMA GoneIsTaken ==
  ASSUME TypeOK, Durable, evicted = {}
  PROVE  1 .. Gone \subseteq Range(rows) /\ Gone <= Len(rows) /\ Len(rows) \in Nat /\ Gone \in Nat
<1>1. Vanished = {}  BY ChargedIs DEF Durable
<1>2. 1 .. Gone \subseteq Range(rows) /\ Gone \in Nat  BY <1>1, WindowRange DEF Durable, Window
<1>3. Range(rows) = {rows[i] : i \in 1 .. Len(rows)} /\ Len(rows) \in Nat  BY RangeIs DEF TypeOK
<1>4. Range(rows) \subseteq 1 .. Len(rows)  BY <1>3 DEF Durable, Ordered
<1>5. Gone > 0 => Gone \in 1 .. Len(rows)  BY <1>2, <1>4
<1> QED  BY <1>2, <1>3, <1>5

\* enqueue keeps the last events and evicts the ones before.
LEMMA EnqueueIs ==
  ASSUME TypeOK, Window, NEW n \in Nat,
         Enqueue([i \in 1 .. n |-> emitted + i]), emitted' = emitted + n
  PROVE  /\ buffer' \in Seq(Nat) /\ Window' /\ Gone \in Nat /\ Gone' \in Nat /\ Gone' >= Gone
         /\ evicted' = evicted \cup (Gone + 1 .. Gone')
<1> DEFINE events == [i \in 1 .. n |-> emitted + i]
           all == buffer \o events
           over == IF Len(all) > MaxBuffer THEN Len(all) - MaxBuffer ELSE 0
<1>1. events \in Seq(Nat) /\ Len(events) = n /\ \A i \in 1 .. n : events[i] = emitted + i
  BY SeqDef DEF TypeOK
<1>2. Len(buffer) \in Nat /\ emitted \in Nat /\ Gone \in Nat /\ Gone + Len(buffer) = emitted
  BY RangeIs DEF TypeOK, Window, Gone
<1>3. buffer' = SubSeq(all, over + 1, Len(all)) /\ evicted' = evicted \cup Range(SubSeq(all, 1, over))
  BY DEF Enqueue
<1> HIDE DEF events
<1>4. /\ all \in Seq(Nat) /\ Len(all) = Len(buffer) + n
      /\ \A i \in 1 .. Len(buffer) + n :
           all[i] = IF i <= Len(buffer) THEN buffer[i] ELSE events[i - Len(buffer)]
  BY <1>1, ConcatProperties DEF TypeOK
<1> HIDE DEF all
<1>5. ASSUME NEW i \in 1 .. Len(all) PROVE all[i] = Gone + i /\ all[i] \in Nat
  <2>1. CASE i <= Len(buffer)
    <3>1. i \in 1 .. Len(buffer) /\ all[i] = buffer[i]  BY <1>2, <1>4, <2>1
    <3>2. buffer[i] = Gone + i  BY <3>1 DEF Window
    <3> QED  BY <1>2, <3>1, <3>2
  <2>2. CASE i > Len(buffer)
    <3>1. i - Len(buffer) \in 1 .. n  BY <1>2, <1>4, <2>2
    <3>2. all[i] = emitted + (i - Len(buffer))  BY <1>1, <1>2, <1>4, <2>2, <3>1
    <3> QED  BY <1>2, <3>2, SMTT(30)
  <2> QED  BY <1>2, <2>1, <2>2
<1>6. over \in 0 .. Len(all) /\ Len(all) \in Nat  BY <1>2, <1>4, SizeAssumption
<1> HIDE DEF over
<1>7. /\ buffer' \in Seq(Nat) /\ Len(buffer') = Len(all) - over
      /\ \A i \in 1 .. Len(all) - over : buffer'[i] = all[over + i]
  <2>1. \A i \in over + 1 .. Len(all) : all[i] \in Nat  BY <1>5, <1>6
  <2>2. /\ SubSeq(all, over + 1, Len(all)) \in Seq(Nat)
        /\ Len(SubSeq(all, over + 1, Len(all))) =
             IF over + 1 <= Len(all) THEN Len(all) - (over + 1) + 1 ELSE 0
        /\ \A i \in 1 .. Len(all) - (over + 1) + 1 :
             SubSeq(all, over + 1, Len(all))[i] = all[over + 1 + i - 1]
    BY <1>6, <2>1, SubSeqProperties
  <2> DEFINE kept == SubSeq(all, over + 1, Len(all))
  <2>3. kept \in Seq(Nat) /\ buffer' = kept  BY <1>3, <2>2
  <2>4. Len(kept) = Len(all) - over  BY <1>6, <2>2
  <2>5. ASSUME NEW i \in 1 .. Len(all) - over PROVE kept[i] = all[over + i]
    <3>1. i \in 1 .. Len(all) - (over + 1) + 1 /\ over + 1 + i - 1 = over + i  BY <1>6
    <3> QED  BY <2>2, <3>1
  <2> HIDE DEF kept
  <2> QED  BY <2>3, <2>4, <2>5
<1>8. Gone' = Gone + over  BY <1>2, <1>4, <1>6, <1>7 DEF Gone
<1>9. Range(SubSeq(all, 1, over)) = Gone + 1 .. Gone'
  <2>1. \A i \in 1 .. over : all[i] \in Nat  BY <1>5, <1>6
  <2>2. /\ SubSeq(all, 1, over) \in Seq(Nat) /\ Len(SubSeq(all, 1, over)) = over
        /\ \A i \in 1 .. over : SubSeq(all, 1, over)[i] = all[i]
    BY <1>6, <2>1, SubSeqProperties
  <2>3. Range(SubSeq(all, 1, over)) = {SubSeq(all, 1, over)[i] : i \in 1 .. over}  BY <2>2, RangeIs
  <2>4. \A x : x \in Range(SubSeq(all, 1, over)) <=> \E i \in 1 .. over : x = Gone + i
    <3>1. \A i \in 1 .. over : SubSeq(all, 1, over)[i] = Gone + i  BY <1>5, <1>6, <2>2
    <3> HIDE <2>2
    <3> QED  BY <2>3, <3>1
  <2>5. ASSUME NEW x \in Gone + 1 .. Gone' PROVE \E i \in 1 .. over : x = Gone + i
    <3>1. x - Gone \in 1 .. over /\ x = Gone + (x - Gone)  BY <1>2, <1>6, <1>8
    <3> QED  BY <3>1
  <2>6. \A i \in 1 .. over : Gone + i \in Gone + 1 .. Gone'  BY <1>2, <1>6, <1>8
  <2> QED  BY <2>4, <2>5, <2>6
<1>10. Window'
  <2>1. Gone' \in Nat  BY <1>2, <1>6, <1>8
  <2>2. \A i \in 1 .. Len(buffer') : buffer'[i] = Gone' + i
    <3> SUFFICES ASSUME NEW i \in 1 .. Len(all) - over PROVE buffer'[i] = Gone' + i  BY <1>7
    <3>1. over + i \in 1 .. Len(all)  BY <1>6
    <3>2. buffer'[i] = Gone + (over + i)  BY <1>5, <1>7, <3>1
    <3> QED  BY <1>2, <1>6, <1>8, <3>2
  <2>3. evicted' \subseteq 1 .. Gone'
    <3>1. evicted \subseteq 1 .. Gone /\ evicted' = evicted \cup (Gone + 1 .. Gone')
      BY <1>3, <1>9 DEF Window
    <3>2. Gone' >= Gone /\ Gone' \in Nat  BY <1>2, <1>6, <1>8
    <3> QED  BY <1>2, <3>1, <3>2
  <2> QED  BY <2>1, <2>2, <2>3 DEF Window
<1> QED  BY <1>2, <1>3, <1>6, <1>7, <1>8, <1>9, <1>10

\* Whatever else vanishes is evicted with it.
LEMMA ChargeMore ==
  ASSUME NEW V, NEW E, NEW X, NEW W, IsFiniteSet(V), IsFiniteSet(E), IsFiniteSet(X),
         Cardinality(V) <= Cardinality(E), E \cap X = {}, W \subseteq V \cup X
  PROVE  Cardinality(W) <= Cardinality(E \cup X)
<1>1. /\ IsFiniteSet(V \cup X)
      /\ Cardinality(V \cup X) = Cardinality(V) + Cardinality(X) - Cardinality(V \cap X)
  BY FS_Union
<1>2. Cardinality(E \cup X) = Cardinality(E) + Cardinality(X) - Cardinality(E \cap X)
  BY FS_Union
<1>3. Cardinality(E \cap X) = 0  BY FS_EmptySet
<1>4. /\ Cardinality(V) \in Nat /\ Cardinality(E) \in Nat /\ Cardinality(X) \in Nat
  BY FS_CardinalityType
<1>5. IsFiniteSet(V \cap X) /\ Cardinality(V \cap X) \in Nat
  BY FS_Subset, FS_CardinalityType
<1>6. Cardinality(W) <= Cardinality(V \cup X) /\ Cardinality(W) \in Nat  BY <1>1, Smaller
<1>7. Cardinality(V \cup X) <= Cardinality(E \cup X)  BY <1>1, <1>2, <1>3, <1>4, <1>5
<1> QED  BY <1>1, <1>2, <1>3, <1>4, <1>5, <1>6

LEMMA DeliverKeeps ==
  ASSUME TypeOK, Durable, NEW n \in Nat, DeliverDurable(n)
  PROVE  Durable'
<1>1. /\ Enqueue([i \in 1 .. n |-> emitted + i]) /\ emitted' = emitted + n /\ chain' = chain + 1
      /\ batch' = batch /\ posted' = posted /\ rows' = rows /\ strays' = strays
      /\ closing' = closing /\ due' = due /\ verdict' = verdict /\ handed' = handed
  BY DEF DeliverDurable, Flush, closingVars, railsVars
<1>2. /\ Window' /\ Gone \in Nat /\ Gone' \in Nat /\ Gone' >= Gone
      /\ evicted' = evicted \cup (Gone + 1 .. Gone')
  BY <1>1, EnqueueIs DEF Durable
<1>3. emitted \in Nat /\ emitted' >= emitted /\ chain \in Nat /\ batch \in Seq(Nat)
  BY <1>1 DEF TypeOK
<1>4. InFlight'
  <2>1. CASE batch = <<>>  BY <1>1, <2>1 DEF Durable, InFlight
  <2>2. CASE batch # <<>>
    <3>1. Range(batch) = batch[1] .. batch[1] + Len(batch) - 1
          /\ batch[1] \in Nat /\ Len(batch) \in Nat
      BY <1>3, <2>2, SequelRange DEF Durable, InFlight
    <3>2. batch[1] \in 1 .. Gone' + 1 /\ batch[1] + Len(batch) - 1 <= emitted'
      BY <1>1, <1>2, <1>3, <2>2, <3>1 DEF Durable, InFlight
    <3>3. ASSUME NEW e \in Range(batch) PROVE e \in evicted' <=> e <= Gone'
      <4>1. e \in evicted <=> e <= Gone  BY <2>2 DEF Durable, InFlight
      <4>2. e \in Nat  BY <3>1
      <4> QED  BY <1>2, <4>1, <4>2
    <3> QED  BY <1>1, <1>3, <2>2, <3>2, <3>3 DEF Durable, InFlight
  <2> QED  BY <2>1, <2>2
<1>5. Charged'
  <2> DEFINE B == Range(batch)
             X == Gone + 1 .. Gone'
  <2>1. Vanished' \subseteq Vanished \cup X
    <3>1. Range(buffer) = Gone + 1 .. emitted /\ Gone + Len(buffer) = emitted /\ Len(buffer) \in Nat
      BY WindowRange DEF Durable
    <3>2. Len(buffer') \in Nat  BY <1>1, EnqueueIs, RangeIs DEF Durable
    <3>3. ASSUME NEW e \in Gone' + 1 .. emitted' PROVE e \in Range(buffer')
      <4>1. e - Gone' \in 1 .. Len(buffer')  BY <1>1, <1>2, <1>3, <3>2 DEF Gone, TypeOK
      <4>2. buffer'[e - Gone'] = e
        <5>1. buffer'[e - Gone'] = Gone' + (e - Gone')  BY <1>2, <4>1 DEF Window
        <5>2. e \in Int /\ Gone' \in Int  BY <1>2
        <5>3. \A a, b \in Int : b + (a - b) = a  OBVIOUS
        <5> QED  BY <5>1, <5>2, <5>3
      <4>3. buffer' \in Seq(Nat)  BY <1>1, EnqueueIs DEF Durable
      <4> QED  BY <4>1, <4>2, <4>3, RangeIs
    <3>4. ASSUME NEW e \in Vanished', e \notin X PROVE e \in Vanished
      <4>1. e \in 1 .. emitted' /\ e \notin Range(rows) /\ e \notin Range(buffer')
        BY <1>1 DEF Vanished
      <4>2. e \notin Gone' + 1 .. emitted'  BY <3>3, <4>1
      <4>3. emitted' \in Nat  BY <1>1 DEF TypeOK
      <4>4. e <= Gone
        <5>1. \A g, h, m \in Nat : \A x \in 1 .. m :
                x \notin g + 1 .. h /\ x \notin h + 1 .. m => x <= g
          OBVIOUS
        <5> QED  BY <1>2, <3>4, <4>1, <4>2, <4>3, <5>1
      <4> QED  BY <1>2, <1>3, <3>1, <4>1, <4>4 DEF Vanished
    <3> QED  BY <3>4
  <2>2. /\ IsFiniteSet(Vanished) /\ IsFiniteSet(evicted)  BY ChargedIs DEF Durable
  <2>3. evicted \cap X = {}  BY <1>2 DEF Durable, Window
  <2>4. IsFiniteSet(X)
    <3>1. Gone + 1 \in Int /\ Gone' \in Int  BY <1>2
    <3> QED  BY <3>1, FS_Interval
  <2> HIDE DEF B, X
  <2>5. IsFiniteSet(Vanished \ B) /\ IsFiniteSet(evicted \ B) /\ IsFiniteSet(X \ B)
    BY <2>2, <2>4, Split
  <2>6. (evicted \ B) \cap (X \ B) = {} /\ Vanished' \ B \subseteq (Vanished \ B) \cup (X \ B)
    BY <2>1, <2>3
  <2>7. Cardinality(Vanished \ B) <= Cardinality(evicted \ B)  BY DEF Durable, Charged, B
  <2>8. Cardinality(Vanished' \ B) <= Cardinality((evicted \ B) \cup (X \ B))
    BY <2>5, <2>6, <2>7, ChargeMore
  <2>9. evicted' \ B = (evicted \ B) \cup (X \ B)  BY <1>2 DEF X
  <2> QED  BY <1>1, <2>8, <2>9 DEF Charged, B
<1>6. Ordered'  BY <1>1, <1>2 DEF Durable, Ordered, Follows
<1>7. Drained'
  <2>1. due <= chain + 1 /\ handed <= emitted'  BY <1>1, <1>3 DEF Durable, Drained, TypeOK
  <2> QED  BY <1>1, <1>2, <2>1 DEF Durable, Drained
<1> QED  BY <1>2, <1>4, <1>5, <1>6, <1>7 DEF Durable

\* A flush that resolves is acknowledged, if it is the one shutdown waits for, only when all
\* that had been handed over is in the table.
LEMMA ResolveKeeps ==
  ASSUME TypeOK, Durable, NEW o, Resolve(o), chain > 0, rows' = rows, evicted' = evicted,
         emitted' = emitted,
         o = "acked" /\ due = 1 /\ evicted = {} => 1 .. handed \subseteq Range(rows)
  PROVE  Drained' /\ batch' = <<>>
<1>1. /\ chain' = chain - 1 /\ batch' = <<>> /\ closing' = closing /\ handed' = handed
      /\ due' = (IF due > 0 THEN due - 1 ELSE 0) /\ verdict' = IF due = 1 THEN o ELSE verdict
  BY DEF Resolve
<1>2. due' <= chain' /\ handed' <= emitted'  BY <1>1 DEF Durable, Drained, TypeOK
<1>3. closing' = "open" => due' = 0 /\ verdict' = "none"  BY <1>1 DEF Durable, Drained
<1>4. closing' # "open" /\ verdict' = "acked" /\ evicted' = {} => 1 .. handed' \subseteq Range(rows')
  BY <1>1 DEF Durable, Drained
<1> QED  BY <1>1, <1>2, <1>3, <1>4 DEF Drained

\* A POST that was not acknowledged leaves the buffer as it is, and may stay on its way.
LEMMA FailKeeps ==
  ASSUME TypeOK, Durable, FailTransiently \/ Refuse
  PROVE  Durable'
<1>1. /\ batch # <<>> /\ posted' = <<>>
      /\ strays' \subseteq strays \cup Stray("durable", posted)
      /\ Resolve("buffered") \/ Resolve("fatal")
      /\ buffer' = buffer /\ evicted' = evicted /\ rows' = rows /\ emitted' = emitted
  BY DEF FailTransiently, Refuse, railsVars
<1>2. chain > 0  BY <1>1 DEF Durable, InFlight
<1>3. Drained' /\ batch' = <<>>  BY <1>1, <1>2, ResolveKeeps
<1>4. Window' /\ InFlight'  BY <1>1, <1>3 DEF Durable, Window, InFlight, Gone
<1>5. Charged'
  <2>1. Cardinality(Vanished) <= Cardinality(evicted)  BY ChargedIs DEF Durable
  <2>2. Range(batch') = {}  BY <1>3, EmptyRange
  <2>3. Vanished' \ Range(batch') = Vanished /\ evicted' \ Range(batch') = evicted
    BY <1>1, <2>2 DEF Vanished
  <2> QED  BY <2>1, <2>3 DEF Charged
<1>6. Ordered'
  <2> SUFFICES ASSUME evicted = {} PROVE Ordered'  BY <1>1 DEF Ordered
  <2>1. ASSUME NEW u \in strays', u.kind = "durable"
        PROVE  u.rest # <<>> => u.rest[1] \in 1 .. Len(rows) + 1 /\ Sequel(u.rest)
    <3>1. CASE u \in strays  BY <2>1, <3>1 DEF Durable, Ordered, Follows
    <3>2. CASE u \in Stray("durable", posted)
      <4>1. u.rest = posted  BY <3>2, StrayIs
      <4> QED  BY <4>1 DEF Durable, Ordered, Follows
    <3> QED  BY <1>1, <3>1, <3>2
  <2> QED  BY <1>1, <2>1 DEF Durable, Ordered, Follows
<1> QED  BY <1>3, <1>4, <1>5, <1>6 DEF Durable

LEMMA NothingKeeps ==
  ASSUME TypeOK, Durable, FlushNothing
  PROVE  Durable'
<1>1. /\ chain > 0 /\ batch = <<>> /\ posted' = posted /\ strays' = strays
      /\ Resolve(IF fatal THEN "fatal" ELSE "acked")
      /\ ~fatal => buffer = <<>>
      /\ buffer' = buffer /\ evicted' = evicted /\ rows' = rows /\ emitted' = emitted
  BY DEF FlushNothing, railsVars
<1>2. ASSUME ~fatal, evicted = {} PROVE 1 .. handed \subseteq Range(rows)
  <2>1. Gone = emitted  BY <1>1, <1>2, EmptyRange DEF Gone, TypeOK
  <2>2. handed <= emitted /\ emitted \in Nat /\ handed \in Nat  BY DEF Durable, Drained, TypeOK
  <2> QED  BY <1>2, <2>1, <2>2, GoneIsTaken
<1>3. Drained' /\ batch' = <<>>
  <2>1. CASE fatal  BY <1>1, <2>1, ResolveKeeps
  <2>2. CASE ~fatal
    <3>1. Resolve("acked")  BY <1>1, <2>2
    <3> QED  BY <1>1, <1>2, <2>2, <3>1, ResolveKeeps
  <2> QED  BY <2>1, <2>2
<1>4. posted' = <<>>  BY <1>1 DEF Durable, InFlight
<1>5. Window' /\ InFlight'  BY <1>1, <1>3, <1>4 DEF Durable, Window, InFlight, Gone
<1>6. Charged'  BY <1>1, <1>3 DEF Durable, Charged, Vanished
<1>7. Ordered'  BY <1>1 DEF Durable, Ordered, Follows
<1> QED  BY <1>3, <1>5, <1>6, <1>7 DEF Durable

\* A POST starts: no event of the buffer has vanished or was evicted.
LEMMA PostKeeps ==
  ASSUME TypeOK, Durable, PostBuffer
  PROVE  Durable'
<1>1. /\ chain > 0 /\ batch = <<>> /\ buffer # <<>> /\ batch' = buffer /\ posted' = buffer
      /\ buffer' = buffer /\ chain' = chain /\ evicted' = evicted /\ rows' = rows
      /\ emitted' = emitted /\ strays' = strays
      /\ closing' = closing /\ due' = due /\ verdict' = verdict /\ handed' = handed
  BY DEF PostBuffer, railsVars, closingVars
<1>2. /\ Range(buffer) = Gone + 1 .. emitted /\ Vanished \subseteq 1 .. Gone
      /\ Len(buffer) \in Nat /\ Gone + Len(buffer) = emitted
      /\ Gone \in Nat /\ evicted \subseteq 1 .. Gone /\ emitted \in Nat
  BY WindowRange DEF Durable, Window, TypeOK
<1>3. Len(buffer) > 0  BY <1>1, <1>2, RangeIs DEF TypeOK
<1>4. buffer[1] = Gone + 1 /\ Sequel(buffer)
  <2>1. buffer[1] = Gone + 1  BY <1>2, <1>3 DEF Durable, Window
  <2> QED  BY <1>2, <2>1 DEF Durable, Window, Sequel
<1>5. Window'  BY <1>1 DEF Durable, Window, Gone
<1>6. InFlight'
  <2>1. buffer[1] \in 1 .. Gone + 1 /\ buffer[1] + Len(buffer) - 1 <= emitted
    BY <1>2, <1>4
  <2>2. \A e \in Range(buffer) : e \in evicted <=> e <= Gone  BY <1>2
  <2>3. Gone' = Gone  BY <1>1 DEF Gone
  <2> QED  BY <1>1, <1>4, <2>1, <2>2, <2>3 DEF InFlight
<1>7. Charged'
  <2>1. Cardinality(Vanished) <= Cardinality(evicted)  BY ChargedIs DEF Durable
  <2>2. Vanished' = Vanished  BY <1>1 DEF Vanished
  <2>3. Vanished \ Range(buffer) = Vanished /\ evicted \ Range(buffer) = evicted  BY <1>2
  <2> QED  BY <1>1, <2>1, <2>2, <2>3 DEF Charged
<1>8. Ordered'
  <2> SUFFICES ASSUME evicted = {} PROVE Ordered'  BY <1>1 DEF Ordered
  <2>1. Gone <= Len(rows) /\ Len(rows) \in Nat  BY GoneIsTaken
  <2>2. buffer[1] \in 1 .. Len(rows) + 1  BY <1>2, <1>4, <2>1
  <2> QED  BY <1>1, <1>4, <2>2 DEF Durable, Ordered, Follows
<1>9. Drained'
  <2>1. handed <= buffer[1] + Len(buffer) - 1  BY <1>2, <1>4 DEF Durable, Drained, TypeOK
  <2> QED  BY <1>1, <2>1 DEF Durable, Drained
<1> QED  BY <1>5, <1>6, <1>7, <1>8, <1>9 DEF Durable

\* A POST is acknowledged: what the splice removes besides the batch is as much as was
\* evicted from the batch.
LEMMA AcknowledgeKeeps ==
  ASSUME TypeOK, Durable, Acknowledge
  PROVE  Durable'
<1> DEFINE b == batch[1]
           m == Len(batch)
           n == Len(buffer)
           B == Range(batch)
           over == IF m < n THEN m ELSE n
<1>1. /\ batch # <<>> /\ posted = <<>> /\ posted' = posted /\ strays' = strays
      /\ buffer' = SubSeq(buffer, m + 1, n) /\ Resolve("acked")
      /\ evicted' = evicted /\ rows' = rows /\ emitted' = emitted
  BY DEF Acknowledge, Spliced, railsVars
<1>2. B = b .. b + m - 1 /\ b \in Nat /\ m \in Nat \ {0}
  BY <1>1, SequelRange DEF Durable, InFlight, TypeOK
<1>3. /\ Range(buffer) = Gone + 1 .. emitted /\ Gone + n = emitted /\ n \in Nat /\ Gone \in Nat
      /\ emitted \in Nat /\ Vanished = {e \in 1 .. Gone : e \notin Range(rows)}
      /\ evicted \subseteq 1 .. Gone
  BY WindowRange DEF Durable, Window, TypeOK
<1>4. /\ b >= 1 /\ b <= Gone + 1 /\ b + m - 1 <= emitted
      /\ \A e \in B : e \in evicted <=> e <= Gone
  BY <1>1, <1>2 DEF Durable, InFlight
<1>5. B \subseteq Range(rows)  BY <1>1, EmptyRange DEF Durable, InFlight
<1>6. chain > 0  BY <1>1 DEF Durable, InFlight
<1>7. /\ buffer' \in Seq(Nat) /\ Len(buffer') = n - over
      /\ \A i \in 1 .. n - over : buffer'[i] = Gone + over + i
  <2>1. ASSUME NEW i \in m + 1 .. n PROVE buffer[i] \in Nat
    <3>1. i \in 1 .. Len(buffer)  BY <1>2, <1>3
    <3> QED  BY <3>1, ElementOfSeq DEF TypeOK
  <2>2. /\ SubSeq(buffer, m + 1, n) \in Seq(Nat)
        /\ Len(SubSeq(buffer, m + 1, n)) = IF m + 1 <= n THEN n - (m + 1) + 1 ELSE 0
        /\ \A i \in 1 .. n - (m + 1) + 1 : SubSeq(buffer, m + 1, n)[i] = buffer[m + 1 + i - 1]
    BY <1>2, <1>3, <2>1, SubSeqProperties
  <2>3. Len(buffer') = n - over
    <3>1. CASE m < n
      <4>1. n - (m + 1) + 1 = n - m /\ m + 1 <= n  BY <1>2, <1>3, <3>1
      <4> QED  BY <1>1, <2>2, <3>1, <4>1
    <3>2. CASE ~(m < n)
      <4>1. n - n = 0 /\ ~(m + 1 <= n)  BY <1>2, <1>3, <3>2
      <4> QED  BY <1>1, <2>2, <3>2, <4>1
    <3> QED  BY <3>1, <3>2
  <2>4. ASSUME NEW i \in 1 .. n - over PROVE buffer'[i] = Gone + over + i
    <3>1. over = m /\ i \in 1 .. n - (m + 1) + 1 /\ m + 1 + i - 1 = m + i  BY <1>2, <1>3
    <3>2. m + i \in 1 .. n  BY <1>2, <1>3, <3>1
    <3>3. buffer[m + i] = Gone + (m + i)  BY <3>2 DEF Durable, Window
    <3> QED  BY <1>1, <1>2, <1>3, <2>2, <3>1, <3>3
  <2> QED  BY <1>1, <2>2, <2>3, <2>4
<1>8. over \in 0 .. n /\ over <= m  BY <1>2, <1>3
<1>9. Gone' = Gone + over
  <2>1. Gone' = emitted - (n - over)  BY <1>1, <1>7 DEF Gone
  <2> HIDE DEF n, over
  <2> QED  BY <1>3, <1>8, <2>1
<1> HIDE DEF b, m, n, over
<1>10. ASSUME evicted = {} PROVE 1 .. b + m - 1 \subseteq Range(rows)
  <2>1. 1 .. Gone \subseteq Range(rows)  BY <1>10, GoneIsTaken
  <2>2. \A e \in 1 .. b + m - 1 : e \in 1 .. Gone \/ e \in b .. b + m - 1  BY <1>2, <1>3, <1>4
  <2> QED  BY <1>2, <1>5, <2>1, <2>2
<1>11. Drained' /\ batch' = <<>>
  <2>1. ASSUME due = 1, evicted = {} PROVE 1 .. handed \subseteq Range(rows)
    <3>1. handed <= b + m - 1 /\ handed \in Nat
      BY <1>1, <2>1 DEF Durable, Drained, TypeOK, b, m
    <3> QED  BY <1>2, <1>10, <2>1, <3>1
  <2> QED  BY <1>1, <1>6, <2>1, ResolveKeeps
<1>12. Window'
  <2>1. Gone' \in Nat /\ evicted \subseteq 1 .. Gone'  BY <1>3, <1>8, <1>9
  <2>2. \A i \in 1 .. Len(buffer') : buffer'[i] = Gone' + i  BY <1>7, <1>9
  <2> QED  BY <1>1, <2>1, <2>2 DEF Window
<1>13. InFlight'  BY <1>1, <1>11 DEF InFlight
<1>14. Charged'
  <2> DEFINE Y == (Gone + 1 .. Gone + m) \ B
             E == evicted \cap B
  <2>1. Vanished' \subseteq (Vanished \ B) \cup Y
    <3>1. ASSUME NEW e \in Vanished' PROVE e \in (Vanished \ B) \cup Y
      <4>1. e \in 1 .. emitted /\ e \notin Range(rows) /\ e \notin Range(buffer')
        BY <1>1 DEF Vanished
      <4>2. e \notin B  BY <1>5, <4>1
      <4>3. e \notin Gone + over + 1 .. emitted
        <5> SUFFICES ASSUME e \in Gone + over + 1 .. emitted PROVE FALSE  OBVIOUS
        <5>1. e - (Gone + over) \in 1 .. n - over  BY <1>3, <1>8
        <5>2. buffer'[e - (Gone + over)] = e  BY <1>3, <1>7, <1>8, <5>1
        <5> QED  BY <1>7, <4>1, <5>1, <5>2, RangeIs
      <4>4. e \in 1 .. Gone \/ e \in Gone + 1 .. Gone + m  BY <1>2, <1>3, <1>8, <4>1, <4>3
      <4> QED  BY <1>3, <4>1, <4>2, <4>4
    <3> QED  BY <3>1
  <2>2. IsFiniteSet(Vanished) /\ IsFiniteSet(evicted)  BY ChargedIs DEF Durable
  <2>3. /\ IsFiniteSet(Vanished \ B) /\ IsFiniteSet(evicted \ B) /\ IsFiniteSet(E)
        /\ Cardinality(evicted) = Cardinality(evicted \ B) + Cardinality(E)
        /\ Cardinality(Vanished \ B) \in Nat /\ Cardinality(evicted \ B) \in Nat
        /\ Cardinality(E) \in Nat
    BY <2>2, Split
  <2>4. IsFiniteSet(Y) /\ Cardinality(Y) <= Cardinality(E) /\ Cardinality(Y) \in Nat
    <3>1. CASE Gone >= b + m - 1
      <4>1. E = b .. b + m - 1  BY <1>2, <1>3, <1>4, <3>1
      <4>2. Cardinality(E) = m
        <5>1. b + m - 1 \in Int /\ b + m - 1 >= b - 1 /\ (b + m - 1) - b + 1 = m  BY <1>2
        <5>2. Cardinality(b .. b + m - 1) = (b + m - 1) - b + 1  BY <1>2, <5>1, Interval
        <5> QED  BY <4>1, <5>1, <5>2
      <4>3. IsFiniteSet(Gone + 1 .. Gone + m) /\ Cardinality(Gone + 1 .. Gone + m) = m
        BY <1>2, <1>3, FS_Interval
      <4> QED  BY <4>2, <4>3, Smaller
    <3>2. CASE ~(Gone >= b + m - 1)
      <4>1. E = b .. Gone  BY <1>2, <1>3, <1>4, <3>2
      <4>2. Cardinality(E) = Gone - b + 1
        <5>1. Gone \in Int /\ Gone >= b - 1  BY <1>2, <1>3, <1>4
        <5> QED  BY <1>2, <4>1, <5>1, Interval
      <4>3. Y \subseteq b + m .. Gone + m  BY <1>2, <1>3, <1>4, <3>2
      <4>4. IsFiniteSet(b + m .. Gone + m) /\ Cardinality(b + m .. Gone + m) = Gone - b + 1
        <5>1. /\ b + m \in Nat /\ Gone + m \in Int /\ Gone + m >= (b + m) - 1
              /\ (Gone + m) - (b + m) + 1 = Gone - b + 1
          BY <1>2, <1>3, <1>4
        <5>2. /\ IsFiniteSet(b + m .. Gone + m)
              /\ Cardinality(b + m .. Gone + m) = (Gone + m) - (b + m) + 1
          BY <5>1, Interval
        <5> QED  BY <5>1, <5>2
      <4> QED  BY <4>2, <4>3, <4>4, Smaller
    <3> QED  BY <3>1, <3>2
  <2> HIDE DEF Y, E
  <2>5. /\ IsFiniteSet((Vanished \ B) \cup Y)
        /\ Cardinality((Vanished \ B) \cup Y) =
             Cardinality(Vanished \ B) + Cardinality(Y) - Cardinality((Vanished \ B) \cap Y)
        /\ Cardinality((Vanished \ B) \cap Y) \in Nat
    BY <2>3, <2>4, FS_Union, FS_Subset, FS_CardinalityType
  <2>6. Cardinality(Vanished') <= Cardinality((Vanished \ B) \cup Y) /\ Cardinality(Vanished') \in Nat
    BY <2>1, <2>5, Smaller
  <2>7. Cardinality(Vanished \ B) <= Cardinality(evicted \ B)  BY DEF Durable, Charged
  <2>8. Cardinality(Vanished') <= Cardinality(evicted)  BY <2>3, <2>4, <2>5, <2>6, <2>7
  <2>9. Range(batch') = {}  BY <1>11, EmptyRange
  <2>10. Vanished' \ Range(batch') = Vanished' /\ evicted' \ Range(batch') = evicted  BY <1>1, <2>9
  <2> QED  BY <2>8, <2>10 DEF Charged
<1>15. Ordered'  BY <1>1 DEF Durable, Ordered, Follows
<1> QED  BY <1>11, <1>12, <1>13, <1>14, <1>15 DEF Durable

\* Shutdown queues a flush of its own behind the POST under way.
LEMMA ShutdownKeeps ==
  ASSUME TypeOK, Durable, Shutdown
  PROVE  Durable'
<1>1. /\ closing = "open" /\ closing' = "flushing" /\ handed' = emitted
      /\ chain' = chain + 1 /\ due' = chain + 1 /\ verdict' = verdict
      /\ buffer' = buffer /\ batch' = batch /\ evicted' = evicted /\ posted' = posted
      /\ rows' = rows /\ strays' = strays /\ emitted' = emitted
  BY DEF Shutdown, Flush, railsVars
<1>2. Window' /\ InFlight'  BY <1>1, SMTT(30) DEF Durable, Window, InFlight, Gone, TypeOK
<1>3. Charged'  BY <1>1 DEF Durable, Charged, Vanished
<1>4. Ordered'  BY <1>1 DEF Durable, Ordered, Follows
<1>5. Drained'
  <2>1. verdict' = "none" /\ due' <= chain' /\ handed' <= emitted'
    BY <1>1 DEF Durable, Drained, TypeOK
  <2>2. due' = 1 => batch' = <<>>  BY <1>1 DEF Durable, InFlight, TypeOK
  <2> QED  BY <1>1, <2>1, <2>2 DEF Drained
<1> QED  BY <1>2, <1>3, <1>4, <1>5 DEF Durable

LEMMA DurableStep ==
  ASSUME TypeOK, Durable, [Next]_vars
  PROVE  Durable'
<1>1. CASE \E n \in 1 .. MaxBatch : DeliverDurable(n)
  BY <1>1, SizeAssumption, DeliverKeeps
<1>2. CASE FlushNothing \/ PostBuffer \/ Acknowledge \/ FailTransiently \/ Refuse \/ Shutdown
  BY <1>2, NothingKeeps, PostKeeps, AcknowledgeKeeps, FailKeeps, ShutdownKeeps
<1>3. CASE IngestPosted \/ IngestStray  BY <1>3, IngestPostedKeeps, StrayKeeps
<1>4. CASE DeliverEphemeral \/ TimerFires \/ DeltasAnswered \/ PumpEnds \/ BroadcastVoiced
           \/ UNCHANGED vars
  BY <1>4, OtherKeeps DEF DeliverEphemeral, TimerFires, DeltasAnswered, PumpEnds, BroadcastVoiced,
     vars, durableVars, closingVars, railsVars
<1>5. CASE DeltasFail
  <2>1. strays' \subseteq strays \cup Stray("ephemeral", voiced)  BY <1>5 DEF DeltasFail
  <2>2. \A u \in strays' : u.kind = "durable" => u \in strays  BY <2>1, StrayIs
  <2> QED  BY <1>5, <2>2, OtherKeeps DEF DeltasFail, durableVars, closingVars, railsVars
<1>6. CASE Exit
  <2>1. (closing' = "open" <=> closing = "open") /\ strays' = strays  BY <1>6 DEF Exit
  <2> QED  BY <1>6, <2>1, OtherKeeps DEF Exit, durableVars, railsVars
<1> QED  BY <1>1, <1>2, <1>3, <1>4, <1>5, <1>6 DEF Next

-----------------------------------------------------------------------------
(* Deltas.                                                                 *)

\* enqueueEphemeral: the queue with a delta more, or merged, and perhaps an entry less.
LEMMA QueuedIs ==
  ASSUME TypeOK, NEW d \in Nat
  PROVE  \/ /\ queue # <<>> /\ Len(queue) \in DOMAIN queue
            /\ Queued(d) = [queue EXCEPT ![Len(queue)] = Append(@, d)]
         \/ Queued(d) = Append(queue, <<d>>)
         \/ queue # <<>> /\ Queued(d) = Append(Tail(queue), <<d>>)
<1>1. Len(queue) \in Nat /\ DOMAIN queue = 1 .. Len(queue) /\ (queue = <<>> <=> Len(queue) = 0)
  BY RangeIs DEF TypeOK
<1>2. Len(queue) >= QueueLimit => queue # <<>>  BY <1>1, SizeAssumption
<1>3. CASE queue # <<>> /\ Mergeable(Last(queue), d)
  <2>1. Queued(d) = [queue EXCEPT ![Len(queue)] = Append(@, d)]  BY <1>3 DEF Queued
  <2>2. Len(queue) \in DOMAIN queue  BY <1>1, <1>3
  <2> QED  BY <1>3, <2>1, <2>2, Zenon
<1>4. CASE ~(queue # <<>> /\ Mergeable(Last(queue), d))
  <2>1. Queued(d) = Append(IF Len(queue) >= QueueLimit THEN Tail(queue) ELSE queue, <<d>>)
    BY <1>4 DEF Queued
  <2> QED  BY <1>2, <2>1
<1> QED  BY <1>3, <1>4

LEMMA QueuedType ==
  ASSUME TypeOK, NEW d \in Nat
  PROVE  Queued(d) \in Seq(Seq(Nat))
<1>1. <<d>> \in Seq(Nat) /\ queue \in Seq(Seq(Nat))  BY DEF TypeOK
<1>2. CASE /\ queue # <<>> /\ Len(queue) \in DOMAIN queue
           /\ Queued(d) = [queue EXCEPT ![Len(queue)] = Append(@, d)]
  <2>1. queue[Len(queue)] \in Seq(Nat) /\ Len(queue) \in 1 .. Len(queue)
    BY <1>1, <1>2, LenProperties, ElementOfSeq
  <2>2. Append(queue[Len(queue)], d) \in Seq(Nat)  BY <2>1, AppendProperties
  <2> QED  BY <1>1, <1>2, <2>1, <2>2, ExceptSeq
<1>3. CASE Queued(d) = Append(queue, <<d>>)  BY <1>1, <1>3, AppendProperties
<1>4. CASE queue # <<>> /\ Queued(d) = Append(Tail(queue), <<d>>)
  <2>1. Tail(queue) \in Seq(Seq(Nat))  BY <1>1, <1>4, HeadTailProperties
  <2> QED  BY <1>1, <1>4, <2>1, AppendProperties
<1> QED  BY <1>2, <1>3, <1>4, QueuedIs

LEMMA DrainType ==
  ASSUME TypeOK, Drain
  PROVE  queue' \in Seq(Seq(Nat)) /\ voiced' \in Seq(Seq(Nat)) /\ pump' \in {"idle", "posting", "ending"}
BY DEF TypeOK, Drain

LEMMA PumpType ==
  ASSUME TypeOK, PumpEphemeral
  PROVE  queue' \in Seq(Seq(Nat)) /\ voiced' \in Seq(Seq(Nat)) /\ pump' \in {"idle", "posting", "ending"}
BY DrainType DEF TypeOK, PumpEphemeral

LEMMA ResolveType ==
  ASSUME TypeOK, NEW o \in {"acked", "buffered", "fatal"}, Resolve(o), chain > 0
  PROVE  /\ chain' \in Nat /\ outcome' \in {"acked", "buffered", "fatal"} /\ batch' \in Seq(Nat)
         /\ due' \in Nat /\ verdict' \in {"none", "acked", "buffered", "fatal"}
         /\ closing' = closing /\ joined' = joined /\ handed' = handed
BY DEF TypeOK, Resolve

\* What a POST leaves behind.
LEMMA StrayType ==
  ASSUME TypeOK, NEW kind, NEW rest,
         \/ kind = "durable" /\ rest \in Seq(Nat)
         \/ kind = "ephemeral" /\ rest \in Seq(Seq(Nat)),
         NEW S, S \subseteq strays \cup Stray(kind, rest)
  PROVE  S \subseteq Durables \cup Ephemerals /\ \A s \in S : s.rest # <<>>
<1>1. [kind |-> kind, rest |-> rest] \in Durables \cup Ephemerals  BY DEF Durables, Ephemerals
<1>2. \A s \in Stray(kind, rest) : s \in Durables \cup Ephemerals /\ s.rest # <<>>
  BY <1>1, StrayIs
<1> QED  BY <1>2 DEF TypeOK

LEMMA TypeStep ==
  ASSUME TypeOK, Durable, [Next]_vars
  PROVE  TypeOK'
<1>1. CASE \E n \in 1 .. MaxBatch : DeliverDurable(n)
  <2>1. PICK n \in 1 .. MaxBatch : DeliverDurable(n)  BY <1>1
  <2>2. n \in Nat  BY SizeAssumption
  <2>3. /\ buffer' \in Seq(Nat) /\ evicted' = evicted \cup (Gone + 1 .. Gone')
        /\ Gone \in Nat /\ Gone' \in Nat
    BY <2>1, <2>2, EnqueueIs DEF DeliverDurable, Durable
  <2>4. emitted' \in Nat /\ chain' \in Nat
    BY <2>1, <2>2 DEF DeliverDurable, Flush, TypeOK
  <2>5. evicted' \in SUBSET Nat
    <3>1. Gone + 1 .. Gone' \subseteq Nat  BY <2>3
    <3> QED  BY <2>3, <3>1 DEF TypeOK
  <2> QED  BY <2>1, <2>3, <2>4, <2>5 DEF DeliverDurable, TypeOK, ephemeralVars, closingVars, railsVars
<1>2. CASE FlushNothing
  <2>1. chain > 0 /\ \E o \in {"acked", "buffered", "fatal"} : Resolve(o)  BY <1>2 DEF FlushNothing
  <2> QED  BY <1>2, <2>1, ResolveType DEF FlushNothing, TypeOK, ephemeralVars, railsVars
<1>3. CASE PostBuffer
  BY <1>3 DEF PostBuffer, TypeOK, ephemeralVars, closingVars, railsVars
<1>4. CASE Acknowledge
  <2>1. chain > 0 /\ Resolve("acked")  BY <1>4 DEF Acknowledge, Durable, InFlight
  <2>2. buffer' \in Seq(Nat)
    <3>1. Len(batch) \in Nat /\ Len(buffer) \in Nat  BY RangeIs DEF TypeOK
    <3>2. ASSUME NEW i \in Len(batch) + 1 .. Len(buffer) PROVE buffer[i] \in Nat
      <4>1. i \in 1 .. Len(buffer)  BY <3>1
      <4> QED  BY <4>1, ElementOfSeq DEF TypeOK
    <3> QED  BY <1>4, <3>1, <3>2, SubSeqProperties DEF Acknowledge, Spliced
  <2> QED  BY <1>4, <2>1, <2>2, ResolveType DEF Acknowledge, TypeOK, ephemeralVars, railsVars
<1>5. CASE FailTransiently \/ Refuse
  <2>1. PICK o \in {"acked", "buffered", "fatal"} : Resolve(o)
    BY <1>5 DEF FailTransiently, Refuse
  <2>4. chain > 0  BY <1>5 DEF FailTransiently, Refuse, Durable, InFlight
  <2>5. /\ chain' \in Nat /\ outcome' \in {"acked", "buffered", "fatal"} /\ batch' \in Seq(Nat)
        /\ due' \in Nat /\ verdict' \in {"none", "acked", "buffered", "fatal"}
        /\ closing' = closing /\ joined' = joined /\ handed' = handed
    BY <2>1, <2>4, ResolveType
  <2>6. posted' \in Seq(Nat) /\ fatal' \in BOOLEAN /\ faults' \in Nat
    <3>1. fatal \in BOOLEAN /\ faults \in Nat  BY DEF TypeOK
    <3>2. fatal' \in BOOLEAN  BY <1>5, <3>1, Zenon DEF FailTransiently, Refuse
    <3>3. posted' = <<>> /\ faults' = faults + 1  BY <1>5 DEF FailTransiently, Refuse
    <3> QED  BY <3>1, <3>2, <3>3, EmptySeq
  <2>2. strays' \subseteq strays \cup Stray("durable", posted)
    BY <1>5 DEF FailTransiently, Refuse
  <2>3. strays' \subseteq Durables \cup Ephemerals /\ \A s \in strays' : s.rest # <<>>
    BY <2>2, StrayType DEF TypeOK
  <2> QED
    BY <1>5, <2>3, <2>5, <2>6 DEF FailTransiently, Refuse, TypeOK, ephemeralVars, railsVars
<1>6. CASE DeliverEphemeral
  <2>1. streamed + 1 \in Nat  BY DEF TypeOK
  <2>2. queue' \in Seq(Seq(Nat))  BY <1>6, <2>1, QueuedType DEF DeliverEphemeral
  <2> QED
    BY <1>6, <2>1, <2>2 DEF DeliverEphemeral, ScheduleFlush, TypeOK, durableVars, closingVars, railsVars
<1>7. CASE TimerFires
  BY <1>7, PumpType DEF TimerFires, TypeOK, durableVars, closingVars, railsVars
<1>8. CASE DeltasAnswered
  BY <1>8, DrainType DEF DeltasAnswered, TypeOK, durableVars, closingVars, railsVars
<1>9. CASE DeltasFail
  <2>1. strays' \subseteq strays \cup Stray("ephemeral", voiced) /\ late' \in BOOLEAN
    BY <1>9 DEF DeltasFail, TypeOK
  <2>2. strays' \subseteq Durables \cup Ephemerals /\ \A s \in strays' : s.rest # <<>>
    BY <2>1, StrayType DEF TypeOK
  <2> QED
    BY <1>9, <2>1, <2>2, DrainType DEF DeltasFail, TypeOK, durableVars, closingVars, railsVars
<1>10. CASE PumpEnds
  BY <1>10 DEF PumpEnds, TypeOK, durableVars, railsVars
<1>11. CASE Shutdown
  <2>1. /\ queue' \in Seq(Seq(Nat)) /\ voiced' \in Seq(Seq(Nat))
        /\ pump' \in {"idle", "posting", "ending"}
    BY <1>11, PumpType DEF Shutdown
  <2>2. /\ chain' \in Nat /\ due' \in Nat /\ handed' \in Nat /\ timer' \in BOOLEAN
        /\ joined' \in BOOLEAN /\ closing' \in {"open", "flushing", "drained", "deadline"}
    <3>1. chain \in Nat /\ emitted \in Nat  BY DEF TypeOK
    <3>2. timer' \in BOOLEAN /\ joined' \in BOOLEAN  BY <1>11, Zenon DEF Shutdown
    <3>3. chain' = chain + 1 /\ due' = chain + 1 /\ handed' = emitted /\ closing' = "flushing"
      BY <1>11 DEF Shutdown, Flush
    <3> QED  BY <3>1, <3>2, <3>3
  <2> QED  BY <1>11, <2>1, <2>2 DEF Shutdown, TypeOK, railsVars
<1>12. CASE Exit
  BY <1>12 DEF Exit, TypeOK, durableVars, ephemeralVars, railsVars
<1>13. CASE IngestPosted
  <2>1. Head(posted) \in Nat /\ Tail(posted) \in Seq(Nat)
    BY <1>13, HeadTailProperties DEF IngestPosted, TypeOK
  <2>2. rows' \in Seq(Nat)  BY <1>13, <2>1, IngestIs DEF IngestPosted, TypeOK
  <2> QED
    BY <1>13, <2>1, <2>2 DEF IngestPosted, TypeOK, durableVars, ephemeralVars, closingVars
<1>14. CASE BroadcastVoiced
  <2>1. Head(voiced) \in Seq(Nat) /\ Tail(voiced) \in Seq(Seq(Nat))
    BY <1>14, HeadTailProperties DEF BroadcastVoiced, TypeOK
  <2>2. heard' \in Seq(Seq(Nat))  BY <1>14, <2>1, AppendProperties DEF BroadcastVoiced, TypeOK
  <2> QED
    BY <1>14, <2>1, <2>2 DEF BroadcastVoiced, TypeOK, durableVars, ephemeralVars, closingVars
<1>15. CASE IngestStray
  <2>1. PICK s \in strays :
          /\ strays' = (strays \ {s}) \cup Stray(s.kind, Tail(s.rest))
          /\ \/ s.kind = "durable" /\ Ingest(Head(s.rest)) /\ UNCHANGED heard
             \/ s.kind = "ephemeral" /\ heard' = Append(heard, Head(s.rest)) /\ UNCHANGED rows
          /\ UNCHANGED <<durableVars, ephemeralVars, closingVars, posted, voiced,
                         emitted, streamed, late, faults>>
    BY <1>15 DEF IngestStray
  <2>2. s.rest # <<>> /\ \/ s.kind = "durable" /\ s.rest \in Seq(Nat)
                         \/ s.kind = "ephemeral" /\ s.rest \in Seq(Seq(Nat))
    BY DEF TypeOK, Durables, Ephemerals
  <2>3. \/ s.kind = "durable" /\ Head(s.rest) \in Nat /\ Tail(s.rest) \in Seq(Nat)
        \/ s.kind = "ephemeral" /\ Head(s.rest) \in Seq(Nat) /\ Tail(s.rest) \in Seq(Seq(Nat))
    BY <2>2, HeadTailProperties
  <2>4. strays' \subseteq Durables \cup Ephemerals /\ \A u \in strays' : u.rest # <<>>
    <3>1. strays' \subseteq strays \cup Stray(s.kind, Tail(s.rest))  BY <2>1
    <3>2. \/ s.kind = "durable" /\ Tail(s.rest) \in Seq(Nat)
          \/ s.kind = "ephemeral" /\ Tail(s.rest) \in Seq(Seq(Nat))
      BY <2>3
    <3> QED  BY <3>1, <3>2, StrayType
  <2>5. rows' \in Seq(Nat) /\ heard' \in Seq(Seq(Nat))
    <3>1. CASE s.kind = "durable"  BY <2>1, <2>3, <3>1, IngestIs DEF TypeOK
    <3>2. CASE s.kind = "ephemeral"
      <4>1. Head(s.rest) \in Seq(Nat) /\ heard' = Append(heard, Head(s.rest)) /\ rows' = rows
        BY <2>1, <2>3, <3>2
      <4>2. heard \in Seq(Seq(Nat)) /\ rows \in Seq(Nat)  BY DEF TypeOK
      <4> QED  BY <4>1, <4>2, AppendProperties
    <3> QED  BY <2>2, <3>1, <3>2
  <2> QED  BY <2>1, <2>4, <2>5 DEF TypeOK, durableVars, ephemeralVars, closingVars
<1>16. CASE UNCHANGED vars
  BY <1>16 DEF vars, TypeOK, durableVars, ephemeralVars, closingVars, railsVars
<1> QED
  BY <1>1, <1>2, <1>3, <1>4, <1>5, <1>6, <1>7, <1>8, <1>9, <1>10, <1>11, <1>12, <1>13, <1>14,
     <1>15, <1>16 DEF Next

Entries == Seq(Seq(Nat))

\* The first entry, and the others.
LEMMA TailInOrder ==
  ASSUME NEW s \in Entries, s # <<>>, InOrder(s), NEW n, UpTo(s, n)
  PROVE  /\ Tail(s) \in Entries /\ InOrder(Tail(s)) /\ UpTo(Tail(s), n)
         /\ Head(s) \in Seq(Nat) /\ Rising(Head(s)) /\ \A k \in DOMAIN Head(s) : Head(s)[k] <= n
         /\ \A i \in DOMAIN Tail(s) : Before(Head(s), Tail(s)[i])
         /\ \A x : Precede(x, s) => Precede(x, Tail(s)) /\ \A i \in DOMAIN x : Before(x[i], Head(s))
         /\ \A x : Precede(s, x) => Precede(Tail(s), x) /\ \A i \in DOMAIN x : Before(Head(s), x[i])
<1>1. /\ Len(s) \in Nat \ {0} /\ Head(s) = s[1] /\ s[1] \in Seq(Nat) /\ Tail(s) \in Entries
      /\ Len(Tail(s)) = Len(s) - 1 /\ \A i \in 1 .. Len(Tail(s)) : Tail(s)[i] = s[i + 1]
  BY TailIs DEF Entries
<1>2. DOMAIN s = 1 .. Len(s) /\ DOMAIN Tail(s) = 1 .. Len(Tail(s))  BY <1>1, LenProperties DEF Entries
<1>3. 1 \in DOMAIN s /\ \A i \in DOMAIN Tail(s) : i + 1 \in DOMAIN s /\ 1 < i + 1 /\ Tail(s)[i] = s[i + 1]
  BY <1>1, <1>2
<1>4. \A i, j \in DOMAIN Tail(s) : i < j => i + 1 < j + 1  BY <1>2
<1>5. InOrder(Tail(s))  BY <1>3, <1>4 DEF InOrder
<1>6. UpTo(Tail(s), n) /\ \A k \in DOMAIN Head(s) : Head(s)[k] <= n  BY <1>1, <1>3 DEF UpTo
<1>7. Rising(Head(s)) /\ \A i \in DOMAIN Tail(s) : Before(Head(s), Tail(s)[i])
  BY <1>1, <1>3 DEF InOrder
<1>8. \A x : Precede(x, s) => Precede(x, Tail(s)) /\ \A i \in DOMAIN x : Before(x[i], Head(s))
  BY <1>1, <1>3 DEF Precede
<1>9. \A x : Precede(s, x) => Precede(Tail(s), x) /\ \A i \in DOMAIN x : Before(Head(s), x[i])
  BY <1>1, <1>3 DEF Precede
<1> QED  BY <1>1, <1>5, <1>6, <1>7, <1>8, <1>9

\* An entry more at the end.
LEMMA AppendInOrder ==
  ASSUME NEW s \in Entries, NEW e \in Seq(Nat)
  PROVE  /\ InOrder(s) /\ Rising(e) /\ (\A i \in DOMAIN s : Before(s[i], e)) => InOrder(Append(s, e))
         /\ \A n : UpTo(s, n) /\ (\A k \in DOMAIN e : e[k] <= n) => UpTo(Append(s, e), n)
         /\ \A x : Precede(x, s) /\ (\A i \in DOMAIN x : Before(x[i], e)) => Precede(x, Append(s, e))
         /\ \A x : Precede(s, x) /\ (\A i \in DOMAIN x : Before(e, x[i])) => Precede(Append(s, e), x)
<1> DEFINE a == Append(s, e)
<1>1. /\ Len(s) \in Nat /\ DOMAIN s = 1 .. Len(s) /\ DOMAIN a = 1 .. Len(s) + 1
      /\ \A i \in 1 .. Len(s) : a[i] = s[i]
      /\ a[Len(s) + 1] = e
  BY AppendProperties, LenProperties DEF Entries
<1> HIDE DEF a
<1>2. \A i \in DOMAIN a : \/ i \in DOMAIN s /\ a[i] = s[i]
                          \/ i = Len(s) + 1 /\ a[i] = e
  BY <1>1
<1>3. \A i \in DOMAIN a : \A j \in DOMAIN a : i < j => i \in DOMAIN s /\ a[i] = s[i]  BY <1>1
<1>4. InOrder(s) /\ Rising(e) /\ (\A i \in DOMAIN s : Before(s[i], e)) => InOrder(a)
  BY <1>2, <1>3 DEF InOrder
<1>5. \A n : UpTo(s, n) /\ (\A k \in DOMAIN e : e[k] <= n) => UpTo(a, n)
  BY <1>2 DEF UpTo
<1>6. \A x : Precede(x, s) /\ (\A i \in DOMAIN x : Before(x[i], e)) => Precede(x, a)
  BY <1>2 DEF Precede
<1>7. \A x : Precede(s, x) /\ (\A i \in DOMAIN x : Before(e, x[i])) => Precede(a, x)
  BY <1>2 DEF Precede
<1> QED  BY <1>4, <1>5, <1>6, <1>7 DEF a

\* A queue with a delta that is newer than all: in an entry of its own, or merged.
Newest(s, d, x) == InOrder(s) /\ UpTo(s, d) /\ Precede(x, s)

LEMMA OwnEntry ==
  ASSUME NEW n \in Nat, NEW s \in Entries, NEW x \in Entries, InOrder(s), UpTo(s, n), UpTo(x, n),
         Precede(x, s)
  PROVE  Newest(Append(s, <<n + 1>>), n + 1, x)
<1> DEFINE e == <<n + 1>>
<1>1. e \in Seq(Nat) /\ DOMAIN e = {1} /\ e[1] = n + 1  OBVIOUS
<1> HIDE DEF e
<1>2. \A y \in Entries : UpTo(y, n) =>
        (\A i \in DOMAIN y : \A k \in DOMAIN y[i] : y[i][k] < n + 1 /\ y[i][k] <= n + 1)
  <2> SUFFICES ASSUME NEW y \in Entries, UpTo(y, n), NEW i \in DOMAIN y, NEW k \in DOMAIN y[i]
               PROVE  y[i][k] < n + 1 /\ y[i][k] <= n + 1
    OBVIOUS
  <2>1. y[i] \in Seq(Nat)  BY LenProperties, ElementOfSeq DEF Entries
  <2>2. y[i][k] \in Nat  BY <2>1, LenProperties, ElementOfSeq
  <2> QED  BY <2>2 DEF UpTo
<1>3. Rising(e)  BY <1>1 DEF Rising
<1>4. \A y \in Entries : UpTo(y, n) => UpTo(y, n + 1) /\ \A i \in DOMAIN y : Before(y[i], e)
  BY <1>1, <1>2 DEF UpTo, Before
<1>5. \A k \in DOMAIN e : e[k] <= n + 1  BY <1>1
<1> QED  BY <1>1, <1>3, <1>4, <1>5, AppendInOrder DEF Newest, e

LEMMA MergedEntry ==
  ASSUME NEW n \in Nat, NEW s \in Entries, NEW x \in Entries, InOrder(s), UpTo(s, n), UpTo(x, n),
         Precede(x, s), s # <<>>
  PROVE  Newest([s EXCEPT ![Len(s)] = Append(@, n + 1)], n + 1, x)
<1> DEFINE l == Len(s)
           e == Append(s[l], n + 1)
           t == [s EXCEPT ![l] = e]
<1>1. l \in Nat \ {0} /\ DOMAIN s = 1 .. l /\ \A i \in DOMAIN s : s[i] \in Seq(Nat)
  BY LenProperties, EmptySeq, ElementOfSeq DEF Entries
<1>2. DOMAIN t = DOMAIN s /\ l \in DOMAIN s /\ t[l] = e /\ \A i \in DOMAIN s : i # l => t[i] = s[i]
  BY <1>1
<1>3. /\ Len(s[l]) \in Nat /\ DOMAIN s[l] = 1 .. Len(s[l]) /\ DOMAIN e = 1 .. Len(s[l]) + 1
      /\ e[Len(s[l]) + 1] = n + 1
      /\ \A k \in 1 .. Len(s[l]) : e[k] = s[l][k]
  BY <1>1, <1>2, AppendProperties, LenProperties
<1> HIDE DEF l, e, t
<1>4. \A y \in Entries : UpTo(y, n) =>
        (\A i \in DOMAIN y : \A k \in DOMAIN y[i] : y[i][k] < n + 1 /\ y[i][k] <= n + 1)
  <2> SUFFICES ASSUME NEW y \in Entries, UpTo(y, n), NEW i \in DOMAIN y, NEW k \in DOMAIN y[i]
               PROVE  y[i][k] < n + 1 /\ y[i][k] <= n + 1
    OBVIOUS
  <2>1. y[i] \in Seq(Nat)  BY LenProperties, ElementOfSeq DEF Entries
  <2>2. y[i][k] \in Nat  BY <2>1, LenProperties, ElementOfSeq
  <2> QED  BY <2>2 DEF UpTo
<1>5. \A k \in DOMAIN e : \/ k \in DOMAIN s[l] /\ e[k] = s[l][k]
                          \/ k = Len(s[l]) + 1 /\ e[k] = n + 1
  <2> SUFFICES ASSUME NEW k \in DOMAIN e
               PROVE  \/ k \in DOMAIN s[l] /\ e[k] = s[l][k]
                      \/ k = Len(s[l]) + 1 /\ e[k] = n + 1
    OBVIOUS
  <2>1. k \in 1 .. Len(s[l]) \/ k = Len(s[l]) + 1  BY <1>3
  <2>2. CASE k \in 1 .. Len(s[l])  BY <1>3, <2>2
  <2>3. CASE k = Len(s[l]) + 1  BY <1>3, <2>3
  <2> QED  BY <2>1, <2>2, <2>3
<1>6. \A k \in DOMAIN e : \A m \in DOMAIN e : k < m => k \in DOMAIN s[l] /\ e[k] = s[l][k]
  BY <1>3
<1>7. \A i \in DOMAIN s : \A k \in DOMAIN s[i] : s[i][k] < n + 1 /\ s[i][k] <= n + 1  BY <1>4
<1>8. Rising(e)
  <2> SUFFICES ASSUME NEW k \in DOMAIN e, NEW m \in DOMAIN e, k < m PROVE e[k] < e[m]
    BY DEF Rising
  <2>1. k \in DOMAIN s[l] /\ e[k] = s[l][k]  BY <1>6
  <2>2. CASE m \in DOMAIN s[l] /\ e[m] = s[l][m]  BY <1>2, <2>1, <2>2 DEF InOrder, Rising
  <2>3. CASE e[m] = n + 1  BY <1>2, <1>7, <2>1, <2>3
  <2> QED  BY <1>5, <2>2, <2>3
<1>9. \A f : Before(f, s[l]) /\ (\A k \in DOMAIN f : f[k] < n + 1) => Before(f, e)
  BY <1>5 DEF Before
<1>10. InOrder(t)
  <2>1. \A i \in DOMAIN t : Rising(t[i])  BY <1>2, <1>8 DEF InOrder
  <2>2. ASSUME NEW i \in DOMAIN t, NEW j \in DOMAIN t, i < j PROVE Before(t[i], t[j])
    <3>1. i # l /\ t[i] = s[i] /\ i \in DOMAIN s  BY <1>1, <1>2, <2>2 DEF l
    <3>2. CASE j = l
      <4>1. Before(s[i], s[l])  BY <1>2, <2>2, <3>1, <3>2 DEF InOrder
      <4> QED  BY <1>2, <1>7, <1>9, <3>1, <3>2, <4>1
    <3>3. CASE j # l  BY <1>2, <2>2, <3>1, <3>3 DEF InOrder
    <3> QED  BY <3>2, <3>3
  <2> QED  BY <2>1, <2>2 DEF InOrder
<1>11. UpTo(t, n + 1)
  <2> SUFFICES ASSUME NEW i \in DOMAIN t, NEW k \in DOMAIN t[i] PROVE t[i][k] <= n + 1
    BY DEF UpTo
  <2>1. CASE i # l  BY <1>2, <1>7, <2>1
  <2>2. CASE i = l
    <3>1. k \in DOMAIN e /\ t[i][k] = e[k]  BY <1>2, <2>2
    <3> QED  BY <1>2, <1>5, <1>7, <3>1
  <2> QED  BY <2>1, <2>2
<1>12. Precede(x, t)
  <2> SUFFICES ASSUME NEW i \in DOMAIN x, NEW j \in DOMAIN t PROVE Before(x[i], t[j])
    BY DEF Precede
  <2>1. CASE j # l  BY <1>2, <2>1 DEF Precede
  <2>2. CASE j = l
    <3>1. Before(x[i], s[l])  BY <1>2 DEF Precede
    <3>2. \A k \in DOMAIN x[i] : x[i][k] < n + 1  BY <1>4
    <3> QED  BY <1>2, <1>9, <2>2, <3>1, <3>2
  <2> QED  BY <2>1, <2>2
<1> QED  BY <1>10, <1>11, <1>12 DEF Newest, t, e, l

LEMMA NothingInOrder ==
  InOrder(<<>>) /\ \A x : UpTo(<<>>, x) /\ Precede(<<>>, x) /\ Precede(x, <<>>)
<1>1. DOMAIN <<>> = {}  OBVIOUS
<1> QED  BY <1>1 DEF InOrder, UpTo, Precede

LEMMA UpToMore ==
  ASSUME NEW n \in Nat, NEW s \in Entries, UpTo(s, n)
  PROVE  UpTo(s, n + 1)
<1> SUFFICES ASSUME NEW i \in DOMAIN s, NEW k \in DOMAIN s[i] PROVE s[i][k] <= n + 1
  BY DEF UpTo
<1>1. s[i] \in Seq(Nat)  BY LenProperties, ElementOfSeq DEF Entries
<1>2. s[i][k] \in Nat  BY <1>1, LenProperties, ElementOfSeq
<1> QED  BY <1>2 DEF UpTo

\* The queue with the next delta, after everything of x.
LEMMA QueuedNewest ==
  ASSUME TypeOK, NEW x \in Entries, InOrder(queue), UpTo(queue, streamed), UpTo(x, streamed),
         Precede(x, queue)
  PROVE  Newest(Queued(streamed + 1), streamed + 1, x)
<1>1. streamed \in Nat /\ streamed + 1 \in Nat /\ queue \in Entries  BY DEF TypeOK, Entries
<1>2. CASE /\ queue # <<>> /\ Len(queue) \in DOMAIN queue
           /\ Queued(streamed + 1) = [queue EXCEPT ![Len(queue)] = Append(@, streamed + 1)]
  BY <1>1, <1>2, MergedEntry
<1>3. CASE Queued(streamed + 1) = Append(queue, <<streamed + 1>>)
  BY <1>1, <1>3, OwnEntry
<1>4. CASE queue # <<>> /\ Queued(streamed + 1) = Append(Tail(queue), <<streamed + 1>>)
  <2> DEFINE q == Tail(queue)
  <2>1. q \in Entries /\ InOrder(q) /\ UpTo(q, streamed) /\ Precede(x, q)
    BY <1>1, <1>4, TailInOrder
  <2>2. Queued(streamed + 1) = Append(q, <<streamed + 1>>)  BY <1>4
  <2> HIDE DEF q
  <2> QED  BY <1>1, <2>1, <2>2, OwnEntry
<1> QED  BY <1>1, <1>2, <1>3, <1>4, QueuedIs

\* Steps that leave the deltas where they are.
LEMMA LiveKeeps ==
  ASSUME Live, UNCHANGED <<queue, voiced, heard, streamed, late>>,
         \A u \in strays' : u \in strays \/ u.kind = "durable",
         pump' # "posting" => voiced' = <<>>
  PROVE  Live'
BY DEF Live

\* What has gathered goes out after what went out before.
LEMMA DrainKeeps ==
  ASSUME Live, Drain, UNCHANGED <<heard, streamed>>,
         ~late' => ~late /\ strays' \subseteq strays
  PROVE  Live'
<1>1. pump' # "posting" => voiced' = <<>>  BY DEF Drain
<1>2. CASE late'  BY <1>1, <1>2 DEF Live
<1>3. CASE ~late'
  <2>1. queue' = <<>> /\ voiced' = queue /\ heard' = heard /\ streamed' = streamed  BY DEF Drain
  <2>2. ~late /\ \A u \in strays' : u.kind = "durable"  BY <1>3 DEF Live
  <2> QED  BY <1>1, <2>1, <2>2, NothingInOrder DEF Live
<1> QED  BY <1>2, <1>3

LEMMA BroadcastKeeps ==
  ASSUME TypeOK, Live, BroadcastVoiced
  PROVE  Live'
<1>1. /\ voiced # <<>> /\ heard' = Append(heard, Head(voiced)) /\ voiced' = Tail(voiced)
      /\ UNCHANGED <<queue, pump, streamed, late, strays>>
  BY DEF BroadcastVoiced, ephemeralVars
<1>2. pump' # "posting" => voiced' = <<>>  BY <1>1 DEF Live
<1>3. CASE late  BY <1>1, <1>2, <1>3 DEF Live
<1>4. CASE ~late
  <2> DEFINE h == Head(voiced)
             t == Tail(voiced)
  <2>1. /\ voiced \in Entries /\ heard \in Entries
        /\ InOrder(heard) /\ InOrder(voiced) /\ InOrder(queue)
        /\ UpTo(heard, streamed) /\ UpTo(voiced, streamed) /\ UpTo(queue, streamed)
        /\ Precede(heard, voiced) /\ Precede(heard, queue) /\ Precede(voiced, queue)
    BY <1>4 DEF TypeOK, Entries, Live
  <2>2. /\ t \in Entries /\ InOrder(t) /\ UpTo(t, streamed)
        /\ h \in Seq(Nat) /\ Rising(h) /\ \A k \in DOMAIN h : h[k] <= streamed
        /\ \A i \in DOMAIN t : Before(h, t[i])
    BY <1>1, <2>1, TailInOrder
  <2>3. Precede(heard, t) /\ \A i \in DOMAIN heard : Before(heard[i], h)
    BY <1>1, <2>1, TailInOrder
  <2>4. Precede(t, queue) /\ \A i \in DOMAIN queue : Before(h, queue[i])
    BY <1>1, <2>1, TailInOrder
  <2>5. heard' = Append(heard, h) /\ voiced' = t  BY <1>1
  <2> HIDE DEF h, t
  <2>6. InOrder(heard') /\ UpTo(heard', streamed)  BY <2>1, <2>2, <2>3, <2>5, AppendInOrder
  <2>7. Precede(heard', t)  BY <2>1, <2>2, <2>3, <2>5, AppendInOrder
  <2>8. Precede(heard', queue)  BY <2>1, <2>2, <2>4, <2>5, AppendInOrder
  <2>9. \A u \in strays' : u.kind = "durable"  BY <1>1, <1>4 DEF Live
  <2> QED  BY <1>1, <1>2, <2>1, <2>2, <2>4, <2>5, <2>6, <2>7, <2>8, <2>9 DEF Live
<1> QED  BY <1>3, <1>4

LEMMA EphemeralKeeps ==
  ASSUME TypeOK, Live, DeliverEphemeral
  PROVE  Live'
<1>1. /\ queue' = Queued(streamed + 1) /\ streamed' = streamed + 1
      /\ UNCHANGED <<pump, heard, voiced, strays, late>>
  BY DEF DeliverEphemeral, railsVars
<1>2. pump' # "posting" => voiced' = <<>>  BY <1>1 DEF Live
<1>3. CASE late  BY <1>1, <1>2, <1>3 DEF Live
<1>4. CASE ~late
  <2>1. /\ heard \in Entries /\ voiced \in Entries /\ streamed \in Nat
        /\ InOrder(heard) /\ InOrder(voiced) /\ InOrder(queue)
        /\ UpTo(heard, streamed) /\ UpTo(voiced, streamed) /\ UpTo(queue, streamed)
        /\ Precede(heard, voiced) /\ Precede(heard, queue) /\ Precede(voiced, queue)
    BY <1>4 DEF TypeOK, Entries, Live
  <2>2. Newest(queue', streamed', heard) /\ Newest(queue', streamed', voiced)
    BY <1>1, <2>1, QueuedNewest
  <2>3. UpTo(heard, streamed') /\ UpTo(voiced, streamed')  BY <1>1, <2>1, UpToMore
  <2>4. \A u \in strays' : u.kind = "durable"  BY <1>1, <1>4 DEF Live
  <2> QED  BY <1>1, <1>2, <2>1, <2>2, <2>3, <2>4 DEF Live, Newest
<1> QED  BY <1>3, <1>4

LEMMA LiveStep ==
  ASSUME TypeOK, Live, [Next]_vars
  PROVE  Live'
<1> USE DEF durableVars, ephemeralVars, closingVars, railsVars
<1>1. ASSUME NEW n \in 1 .. MaxBatch, DeliverDurable(n) PROVE Live'
  <2>1. UNCHANGED <<queue, voiced, heard, streamed, late, strays, pump>>  BY <1>1 DEF DeliverDurable
  <2> QED  BY <2>1, LiveKeeps DEF Live
<1>2. CASE FlushNothing \/ PostBuffer \/ Acknowledge \/ Refuse
  <2>1. UNCHANGED <<queue, voiced, heard, streamed, late, strays, pump>>
    BY <1>2 DEF FlushNothing, PostBuffer, Acknowledge, Refuse
  <2> QED  BY <2>1, LiveKeeps DEF Live
<1>3. CASE FailTransiently
  <2>1. /\ UNCHANGED <<queue, voiced, heard, streamed, late, pump>>
        /\ strays' \subseteq strays \cup Stray("durable", posted)
    BY <1>3 DEF FailTransiently
  <2>2. \A u \in strays' : u \in strays \/ u.kind = "durable"  BY <2>1, StrayIs
  <2> QED  BY <2>1, <2>2, LiveKeeps DEF Live
<1>4. CASE DeliverEphemeral  BY <1>4, EphemeralKeeps
<1>5. CASE TimerFires \/ Shutdown
  <2>1. PumpEphemeral /\ UNCHANGED <<heard, streamed, late, strays>>
    BY <1>5 DEF TimerFires, Shutdown
  <2>2. CASE pump = "idle"
    <3>1. Drain  BY <2>1, <2>2 DEF PumpEphemeral
    <3> QED  BY <2>1, <3>1, DrainKeeps
  <2>3. CASE pump # "idle"
    <3>1. UNCHANGED <<queue, voiced, pump>>  BY <2>1, <2>3 DEF PumpEphemeral
    <3> QED  BY <2>1, <3>1, LiveKeeps DEF Live
  <2> QED  BY <2>2, <2>3
<1>6. CASE DeltasAnswered  BY <1>6, DrainKeeps DEF DeltasAnswered
<1>7. CASE DeltasFail
  <2>1. /\ Drain /\ UNCHANGED <<heard, streamed>>
        /\ \/ UNCHANGED <<strays, late>>
           \/ /\ strays' = strays \cup Stray("ephemeral", voiced)
              /\ late' = (late \/ voiced # <<>>)
    BY <1>7 DEF DeltasFail
  <2>2. ~late' => ~late /\ strays' \subseteq strays  BY <2>1 DEF Stray
  <2> QED  BY <2>1, <2>2, DrainKeeps
<1>8. CASE PumpEnds
  <2>1. /\ UNCHANGED <<queue, voiced, heard, streamed, late, strays>> /\ pump # "posting"
    BY <1>8 DEF PumpEnds
  <2> QED  BY <2>1, LiveKeeps DEF Live
<1>9. CASE Exit \/ IngestPosted \/ UNCHANGED vars
  <2>1. UNCHANGED <<queue, voiced, heard, streamed, late, strays, pump>>
    BY <1>9 DEF Exit, IngestPosted, vars
  <2> QED  BY <2>1, LiveKeeps DEF Live
<1>10. CASE BroadcastVoiced  BY <1>10, BroadcastKeeps
<1>11. CASE IngestStray
  <2>1. PICK s \in strays :
          /\ strays' = (strays \ {s}) \cup Stray(s.kind, Tail(s.rest))
          /\ \/ s.kind = "durable" /\ UNCHANGED heard
             \/ s.kind = "ephemeral"
          /\ UNCHANGED <<queue, voiced, streamed, late, pump>>
    BY <1>11 DEF IngestStray
  <2>2. pump' # "posting" => voiced' = <<>>  BY <2>1 DEF Live
  <2>3. CASE late  BY <2>1, <2>2, <2>3 DEF Live
  <2>4. CASE ~late
    <3>1. s.kind = "durable"  BY <2>4 DEF Live
    <3>2. heard' = heard  BY <2>1, <3>1
    <3>3. \A u \in strays' : u \in strays \/ u.kind = "durable"  BY <2>1, <3>1, StrayIs
    <3> QED  BY <2>1, <2>2, <3>2, <3>3, LiveKeeps
  <2> QED  BY <2>3, <2>4
<1> QED
  BY <1>1, <1>2, <1>3, <1>4, <1>5, <1>6, <1>7, <1>8, <1>9, <1>10, <1>11 DEF Next

-----------------------------------------------------------------------------
(* The invariant.                                                          *)

LEMMA InitInv == Init => Inv
<1> SUFFICES ASSUME Init PROVE Inv  OBVIOUS
<1>1. /\ buffer = <<>> /\ batch = <<>> /\ posted = <<>> /\ rows = <<>> /\ queue = <<>>
      /\ voiced = <<>> /\ heard = <<>> /\ strays = {} /\ evicted = {}
      /\ chain = 0 /\ due = 0 /\ emitted = 0 /\ streamed = 0 /\ handed = 0 /\ faults = 0
      /\ pump = "idle" /\ closing = "open" /\ outcome = "acked" /\ verdict = "none"
      /\ fatal = FALSE /\ late = FALSE /\ timer = FALSE /\ joined = FALSE
  BY DEF Init
<1>2. \A S : <<>> \in Seq(S)  BY EmptySeq
<1>3. TypeOK  BY <1>1, <1>2 DEF TypeOK
<1>4. Len(<<>>) = 0 /\ Range(<<>>) = {}  BY EmptyRange
<1>5. Window /\ InFlight /\ Ordered /\ Drained
  BY <1>1, <1>4 DEF Window, Gone, InFlight, Ordered, Follows, Drained
<1>6. Vanished = {}  BY <1>1 DEF Vanished
<1>7. Charged  BY <1>1, <1>4, <1>6, FS_EmptySet DEF Charged
<1>8. Live  BY <1>1, NothingInOrder DEF Live
<1> QED  BY <1>3, <1>5, <1>7, <1>8 DEF Inv, Durable

LEMMA InvStep == Inv /\ [Next]_vars => Inv'
BY TypeStep, DurableStep, LiveStep DEF Inv

\* In every reachable state the buffer is a window on the events handed over, a POST under way
\* carries a run of them, and the deltas are heard, posted and queued in the order of their
\* emission.
THEOREM Invariance == Spec => []Inv
BY InitInv, InvStep, PTL DEF Spec

\* No more durable events vanish than evictions were logged, however flushes, deliveries,
\* failures and late POSTs interleave (flush and flushOnce).
THEOREM LossLogged == Spec => []LossIsLogged
<1>1. Inv => LossIsLogged  BY ChargedIs DEF Inv, Durable, LossIsLogged
<1> QED  BY <1>1, Invariance, PTL

\* Without an eviction the table holds the events once, in the order of their emission and
\* without a gap, also while a POST that failed is ingested beside its retry (ingest.rb).
THEOREM RowsOrdered == Spec => []RowsInOrder
<1>1. Inv => RowsInOrder
  <2> SUFFICES ASSUME Inv, evicted = {} PROVE rows = [i \in 1 .. Len(rows) |-> i]
    BY DEF RowsInOrder
  <2>1. rows \in Seq(Nat) /\ \A i \in 1 .. Len(rows) : rows[i] = i
    BY DEF Inv, TypeOK, Durable, Ordered
  <2> QED  BY <2>1, LenProperties
<1> QED  BY <1>1, Invariance, PTL

\* Arrival order equals emission order, inside a merged event and from one to the next, unless
\* a POST was given up on its way (deliverEphemeral, enqueueEphemeral, pumpEphemeral).
THEOREM DeltasOrdered == Spec => []DeltasInOrder
<1>1. Inv => DeltasInOrder  BY DEF Inv, Live, DeltasInOrder
<1> QED  BY <1>1, Invariance, PTL

\* A shutdown that drained, its flush acknowledged, left nothing behind that had been handed
\* over before it (index.ts, flushWithTimeout).
THEOREM ShutdownDrained == Spec => []ShutdownDrains
<1>1. Inv => ShutdownDrains
  BY DEF Inv, Durable, Drained, ShutdownDrains
<1> QED  BY <1>1, Invariance, PTL
=============================================================================
