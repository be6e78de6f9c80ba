------------------------------ MODULE EventFeed ------------------------------
(***************************************************************************)
(* How a browser follows a session: Rails inserts events and broadcasts    *)
(* them (ingest.rb, append.rb, session_channel.rb), the backfill endpoint  *)
(* reads them (events_controller.rb), and the browser joins the two        *)
(* (cable.ts, use_session_events.ts) into its store (event_store.ts).      *)
(*                                                                         *)
(* Rails writes from several threads, and from its jobs: the id of a row   *)
(* is taken when it is inserted, but the row is seen when it commits.      *)
(* The browser is single-threaded: an action of it is a callback.          *)
(***************************************************************************)
EXTENDS Integers, FiniteSets, Sequences, SequencesExt

CONSTANTS
  Sessions,    \* the sessions a participant may open
  None,        \* no session is open yet
  KindOf,      \* the type of each row: "ai_text", "run_finished" or another
  Threads,     \* bound: threads of Rails that record an event at the same time
  MaxDeltas,   \* bound: ephemeral events
  MaxViews,    \* bound: sessions opened in the browser, one after another
  MaxDrops,    \* bound: times the socket drops
  MaxFailures  \* bound: backfills and broadcasts that fail

ASSUME SessionsAssumption == None \notin Sessions /\ IsFiniteSet(Sessions)
ASSUME BoundsAssumption ==
  /\ KindOf \in Seq(Range(KindOf)) /\ Threads \in Nat /\ MaxDeltas \in Nat
  /\ MaxViews \in Nat /\ MaxDrops \in Nat /\ MaxFailures \in Nat

VARIABLES
  \* Rails
  lastId,     \* the sequence behind events.id
  inserting,  \* rows inserted in transactions that have not committed
  rows,       \* the events table
  announcing, \* committed rows whose broadcast is still to come
  stream,     \* whether SessionChannel streams to the browser
  \* the network
  wire,       \* what the socket carries to the browser, oldest first
  fetches,    \* backfill requests not answered yet
  \* the browser
  view,       \* the session in view
  ctl,        \* its CableController: they are numbered in the order of creation
  live,       \* per controller: pass events through
  buffer,     \* per controller: events held back
  store,      \* the event store, one for the whole page
  \* history
  overtaken,  \* rows broadcast after a younger row of their session had committed
  silent,     \* rows whose broadcast failed
  mixed,      \* rows of another session than the one in view got into the store
  deltas, drops, failures

railsVars   == <<lastId, inserting, rows, announcing>>
browserVars == <<view, ctl, live, buffer, store>>
pastVars    == <<overtaken, silent, mixed, deltas, drops, failures>>
vars == <<railsVars, stream, wire, fetches, browserVars, pastVars>>

Controllers == 1 .. MaxViews

\* What the socket carries: an event, or the confirmation of the subscription.
Confirmation == [type |-> "confirm", id |-> 0, session |-> None]
DeltaOf(s)   == [type |-> "delta", id |-> 0, session |-> s]

Ephemeral(e) == e.id = 0

-----------------------------------------------------------------------------
(* event_store.ts.  A session stands for its one run and that run's block. *)

EmptyStore == [seen |-> {}, max |-> 0, text |-> {}, settled |-> {}, ended |-> {}]

\* Faulty variant: forget that the block settled.
ApplyDeltaAlways(st, e) == [st EXCEPT !.text = @ \cup {e.session}]

\* apply, ephemeral: a delta of a settled block or of a run that is over is stale.
ApplyDelta(st, e) ==
  IF e.session \in st.settled \cup st.ended
  THEN st
  ELSE [st EXCEPT !.text = @ \cup {e.session}]

\* reconcileLive: a settled block or a terminal event supersedes the live text.
ReconcileLive(st, e) ==
  CASE e.type = "ai_text"      -> [st EXCEPT !.settled = @ \cup {e.session}, !.text = @ \ {e.session}]
    [] e.type = "run_finished" -> [st EXCEPT !.ended = @ \cup {e.session}, !.text = @ \ {e.session}]
    [] OTHER -> st

\* apply: a durable event is kept once, by its id.
Apply(st, e) ==
  IF Ephemeral(e) THEN ApplyDelta(st, e)
  ELSE IF e \in st.seen THEN st
  ELSE ReconcileLive([st EXCEPT !.seen = @ \cup {e}, !.max = IF e.id > @ THEN e.id ELSE @], e)

\* applyMany, and the loops of a catch-up: one after the other, those of the numbers 1 .. n
\* that there are.
ApplyMany(st, events, n) ==
  LET after[i \in 0 .. n] == IF i = 0 THEN st
                             ELSE IF i \in DOMAIN events THEN Apply(after[i - 1], events[i])
                             ELSE after[i - 1]
  IN  after[n]

-----------------------------------------------------------------------------
(* cable.ts                                                                *)

\* Up to the await of catchUp: hold events back and ask for what is after the cursor.
CatchUp(c, cursor) ==
  /\ live' = [live EXCEPT ![c] = FALSE]
  /\ fetches' = Append(fetches, [ctl |-> c, session |-> view', cursor |-> cursor,
                                 answered |-> FALSE, events |-> <<>>])

\* Faulty variant: clear the buffer before it is drained.
DrainedTooLate(held, max) == <<>>

\* The drain: a durable event up to the last backfilled id is in the backfill.
Drained(held, max) ==
  Restrict(held, {n \in DOMAIN held : Ephemeral(held[n]) \/ held[n].id > max})

\* Open a session: stop the old controller, reset the store, start a new controller.
\* Stopping unsubscribes; it does not take back a backfill that is on its way.
Open(s) ==
  /\ ctl < MaxViews /\ s # view
  /\ view' = s /\ ctl' = ctl + 1
  /\ store' = EmptyStore
  /\ stream' = FALSE /\ wire' = <<>>
  /\ CatchUp(ctl', 0)
  /\ UNCHANGED <<railsVars, buffer, pastVars>>

\* onEvent, or connected(): the subscription is confirmed, at first or after a reconnect.
Receive ==
  /\ wire # <<>>
  /\ wire' = Tail(wire)
  /\ LET e == Head(wire) IN
       \/ /\ e = Confirmation
          /\ UNCHANGED view /\ CatchUp(ctl, store.max)
          /\ UNCHANGED <<store, buffer>>
       \/ /\ e # Confirmation /\ live[ctl]
          /\ store' = Apply(store, e)
          /\ UNCHANGED <<fetches, view, live, buffer>>
       \/ /\ e # Confirmation /\ ~live[ctl]
          /\ buffer' = [buffer EXCEPT ![ctl] = Append(@, e)]
          /\ UNCHANGED <<fetches, view, live, store>>
  /\ UNCHANGED <<railsVars, stream, ctl, pastVars>>

MaxBackfilledId(f) == Max({f.cursor} \cup DOMAIN f.events)

\* The rest of catchUp: apply the backfill, drain what was held back, go live unless stopped.
BackfillArrives ==
  \E i \in DOMAIN fetches :
    LET f    == fetches[i]
        held == buffer[f.ctl]
    IN  /\ f.answered
        /\ store' = ApplyMany(ApplyMany(store, f.events, lastId),
                              Drained(held, MaxBackfilledId(f)), Len(held))
        /\ mixed' = (mixed \/ \E e \in store'.seen : e.session # view)
        /\ buffer' = [buffer EXCEPT ![f.ctl] = <<>>]
        /\ live' = IF f.ctl = ctl THEN [live EXCEPT ![f.ctl] = TRUE] ELSE live
        /\ fetches' = RemoveAt(fetches, i)
        /\ UNCHANGED <<railsVars, stream, wire, view, ctl, overtaken, silent, deltas, drops, failures>>

\* A backfill that fails (no 404) rejects catchUp: nothing goes live, nothing is retried.
BackfillFails ==
  /\ failures < MaxFailures
  /\ \E i \in DOMAIN fetches : fetches' = RemoveAt(fetches, i)
  /\ failures' = failures + 1
  /\ UNCHANGED <<railsVars, stream, wire, browserVars, overtaken, silent, mixed, deltas, drops>>

-----------------------------------------------------------------------------
(* Rails and the socket.                                                   *)

\* A thread inserts an event and has its id.
Insert(s) ==
  /\ lastId + 1 \in DOMAIN KindOf /\ Cardinality(inserting \cup announcing) < Threads
  /\ lastId' = lastId + 1
  /\ inserting' = inserting \cup {[id |-> lastId + 1, session |-> s, type |-> KindOf[lastId + 1]]}
  /\ UNCHANGED <<rows, announcing, stream, wire, fetches, browserVars, pastVars>>

Commit(e) ==
  /\ inserting' = inserting \ {e} /\ rows' = rows \cup {e} /\ announcing' = announcing \cup {e}
  /\ UNCHANGED <<lastId, stream, wire, fetches, browserVars, pastVars>>

\* broadcast_to reaches the browsers whose subscription streams the session.
Reaches(s, e) == wire' = IF stream /\ view = s THEN Append(wire, e) ELSE wire

Younger(e) == {f \in rows : f.session = e.session /\ f.id > e.id}

\* After the commit: broadcast.
Announce(e) ==
  /\ announcing' = announcing \ {e}
  /\ Reaches(e.session, e)
  /\ overtaken' = IF Younger(e) = {} THEN overtaken ELSE overtaken \cup {e}
  /\ UNCHANGED <<lastId, inserting, rows, stream, fetches, browserVars, silent, mixed, deltas,
                 drops, failures>>

\* The broadcast fails, or the process dies before it; a retry is skipped as a duplicate.
AnnounceFails(e) ==
  /\ failures < MaxFailures
  /\ announcing' = announcing \ {e} /\ silent' = silent \cup {e} /\ failures' = failures + 1
  /\ UNCHANGED <<lastId, inserting, rows, stream, wire, fetches, browserVars, overtaken, mixed,
                 deltas, drops>>

\* An ephemeral event is broadcast and not stored: it only matters to who streams it.
AnnounceDelta(s) ==
  /\ deltas < MaxDeltas /\ stream /\ view = s
  /\ deltas' = deltas + 1
  /\ Reaches(s, DeltaOf(s))
  /\ UNCHANGED <<railsVars, stream, fetches, browserVars, overtaken, silent, mixed, drops, failures>>

\* SessionChannel#subscribed streams, and the confirmation is sent.
Subscribed ==
  /\ view # None /\ ~stream
  /\ stream' = TRUE /\ wire' = Append(wire, Confirmation)
  /\ UNCHANGED <<railsVars, fetches, browserVars, pastVars>>

\* The socket drops: what it carried is gone, and the consumer will subscribe again.
Drop ==
  /\ stream /\ drops < MaxDrops
  /\ stream' = FALSE /\ wire' = <<>> /\ drops' = drops + 1
  /\ UNCHANGED <<railsVars, fetches, browserVars, overtaken, silent, mixed, deltas, failures>>

\* EventsController#index: the committed rows after the cursor, by ascending id.
Backfill ==
  \E i \in DOMAIN fetches :
    LET f    == fetches[i]
        news == {e \in rows : e.session = f.session /\ e.id > f.cursor}
    IN  /\ ~f.answered
        /\ fetches' = [fetches EXCEPT ![i].answered = TRUE,
                         ![i].events = [n \in {e.id : e \in news} |-> CHOOSE e \in news : e.id = n]]
        /\ UNCHANGED <<railsVars, stream, wire, browserVars, pastVars>>

-----------------------------------------------------------------------------
Init ==
  /\ lastId = 0 /\ inserting = {} /\ rows = {} /\ announcing = {}
  /\ stream = FALSE /\ wire = <<>> /\ fetches = <<>>
  /\ view = None /\ ctl = 0 /\ store = EmptyStore
  /\ live = [c \in Controllers |-> FALSE] /\ buffer = [c \in Controllers |-> <<>>]
  /\ overtaken = {} /\ silent = {} /\ mixed = FALSE /\ deltas = 0 /\ drops = 0 /\ failures = 0

Next ==
  \/ \E s \in Sessions : Open(s) \/ AnnounceDelta(s) \/ Insert(s)
  \/ \E e \in inserting : Commit(e)
  \/ \E e \in announcing : Announce(e) \/ AnnounceFails(e)
  \/ Receive \/ BackfillArrives \/ BackfillFails
  \/ Subscribed \/ Drop \/ Backfill

Spec == Init /\ [][Next]_vars

-----------------------------------------------------------------------------
(* Properties.                                                             *)

Shown == store.seen

\* No live text beside the settled text it became, nor after its run: deltas arrive late,
\* or were held back while the block settled (event_store.ts, reconcileLive).
LiveTextIsFresh ==
  \A e \in Shown : e.type \in {"ai_text", "run_finished"} => e.session \notin store.text

\* The browser has caught up and waits for nothing.
Settled == /\ stream /\ wire = <<>> /\ live[ctl]
           /\ \A f \in Range(fetches) : f.ctl # ctl

Missed == {e \in rows \ announcing : e.session = view /\ e \notin Shown}

\* All that a settled feed can miss are rows whose announcement failed or came after a
\* younger row was visible, as long as no backfill failed and the store never held rows of
\* another session (the cursor of a catch-up is then no row of its own session).
GapsAreExplained ==
  Settled /\ failures = Cardinality(silent) /\ ~mixed =>
    Missed \subseteq overtaken \cup silent

=============================================================================
