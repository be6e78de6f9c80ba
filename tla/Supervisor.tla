----------------------------- MODULE Supervisor -----------------------------
(***************************************************************************)
(* The harness process around its runs: who opens a session's store, who   *)
(* counts on it, who closes it, and who may write it.                      *)
(*                                                                         *)
(* Several processes may use one store directory, an old harness and the   *)
(* one that replaces it; the lock in the store is what keeps them apart.   *)
(* Inside a process an action is the code between two awaits.  The model   *)
(* is one session, that is one store file: sessions share nothing but the  *)
(* fate of their process.  Connectors are attached and closed, no more.    *)
(*                                                                         *)
(* A task is one request.  A request that starts a run goes on as that     *)
(* run; one that reads the projection or switches a plugin only borrows    *)
(* the store.  What the run does is in HarnessRun.                         *)
(***************************************************************************)
EXTENDS Integers, FiniteSets

CONSTANTS
  Hosts,     \* harness processes over one store directory
  Tasks,     \* bound: requests
  Lanes,
  None,      \* no task, process or lane
  MaxOpens,  \* bound: stores opened
  MaxKills,  \* bound: processes killed
  MaxStops,  \* bound: SIGTERMs
  MaxLapses  \* bound: times a process is suspended past the staleness of its lock

ASSUME BoundsAssumption ==
  /\ None \notin Tasks \cup Hosts /\ IsFiniteSet(Tasks)
  /\ MaxOpens \in Nat /\ MaxKills \in Nat /\ MaxStops \in Nat /\ MaxLapses \in Nat

\* A handle is an open store; its number is the random owner it writes into the lock.
Handles == 1 .. MaxOpens

VARIABLES
  host,    \* Hosts -> "down", "booting", "recovering", "up", "stopping", "closing"
  cache,   \* Hosts -> the stores map: the session's handle (0: none) and its refs
  runs,    \* Hosts -> the runs map
  awaited, \* Hosts -> the runs that shutdown waits for
  task,    \* Tasks -> the request: what for, where it stands, in which process and lane, its handle
  \* the store file
  handle,  \* Handles -> "none", "open", "closed", "lost" with its process
  lock,    \* session.lock: its owner (0: no lock), and whether its heartbeat is recent
  \* history
  leaked,  \* tasks that failed after they had counted on the store
  lapsed,  \* the lock of an open store has gone stale
  spent

hostVars == <<host, cache, runs, awaited>>
fileVars == <<handle, lock>>
vars == <<hostVars, task, fileVars, leaked, lapsed, spent>>

NoRequest == [op |-> "none", at |-> "none", host |-> None, lane |-> None, store |-> 0]
NoStore == [handle |-> 0, refs |-> 0]
NoLock  == [owner |-> 0, fresh |-> FALSE]
Limit == [kills |-> MaxKills, stops |-> MaxStops, lapses |-> MaxLapses]
Spend(what) == /\ spent[what] < Limit[what]
               /\ spent' = [spent EXCEPT ![what] = @ + 1]

Init ==
  /\ host = [p \in Hosts |-> "down"] /\ cache = [p \in Hosts |-> NoStore]
  /\ runs = [p \in Hosts |-> {}] /\ awaited = [p \in Hosts |-> {}]
  /\ task = [t \in Tasks |-> NoRequest]
  /\ handle = [h \in Handles |-> "none"] /\ lock = NoLock
  /\ leaked = {} /\ lapsed = FALSE
  /\ spent = [b \in DOMAIN Limit |-> 0]

-----------------------------------------------------------------------------
(* The store: openStore, claimLock, close                                  *)

At(t, places) == task[t].at \in places
Moves(t, place) == task' = [task EXCEPT ![t].at = place]
Done(t) == task' = [task EXCEPT ![t] = [NoRequest EXCEPT !.at = "done", !.host = task[t].host]]
Of(p) == {t \in Tasks : task[t].host = p}

\* A fresh lock of another owner refuses, and every open has an owner of its own.
Locked == lock.owner # 0 /\ lock.fresh

\* Faulty variant: a lock that is held at all is taken to be ours.
OpenAnyway(p, h) ==
  /\ handle[h] = "none" /\ \A g \in 1 .. h - 1 : handle[g] # "none"
  /\ handle' = [handle EXCEPT ![h] = "open"]
  /\ lock' = [owner |-> h, fresh |-> TRUE]
  /\ cache' = [cache EXCEPT ![p] = [handle |-> h, refs |-> 1]]

\* openStore after its mkdir, with the caching that follows it.
Open(p, h) ==
  /\ ~Locked
  /\ handle[h] = "none" /\ \A g \in 1 .. h - 1 : handle[g] # "none"
  /\ handle' = [handle EXCEPT ![h] = "open"]
  /\ lock' = [owner |-> h, fresh |-> TRUE]
  /\ cache' = [cache EXCEPT ![p] = [handle |-> h, refs |-> 1]]

\* close deletes the lock, whoever owns it.
CloseStore(h) == handle' = [handle EXCEPT ![h] = "closed"] /\ lock' = NoLock

\* Faulty variant: the first to finish closes the store.
ReleaseAll(p) ==
  IF cache[p].handle = 0 THEN UNCHANGED <<cache, handle, lock>>
  ELSE cache' = [cache EXCEPT ![p] = NoStore] /\ CloseStore(cache[p].handle)

\* releaseStore: the last reference closes.
Release(p) ==
  IF cache[p].handle = 0 THEN UNCHANGED <<cache, handle, lock>>
  ELSE IF cache[p].refs > 1
       THEN cache' = [cache EXCEPT ![p].refs = @ - 1] /\ UNCHANGED <<handle, lock>>
       ELSE cache' = [cache EXCEPT ![p] = NoStore] /\ CloseStore(cache[p].handle)

-----------------------------------------------------------------------------
(* Requests                                                                *)

Serving(p) == host[p] \in {"up", "stopping"}

\* A new request, up to its first await.  A start is refused if the lane has a registered run.
\* storeFor counts on the store that is cached, or goes to open it.
Ask(t, p, op, l) ==
  /\ Serving(p) /\ task[t] = NoRequest
  /\ op = "start" => \A r \in runs[p] : task[r].lane # l
  /\ LET cached == cache[p].handle # 0 IN
     /\ cache' = IF cached THEN [cache EXCEPT ![p].refs = @ + 1] ELSE cache
     /\ task' = [task EXCEPT ![t] =
          [op |-> op, at |-> IF cached THEN "got" ELSE "opening", host |-> p, lane |-> l,
           store |-> cache[p].handle]]
  /\ UNCHANGED <<host, runs, awaited, fileVars, leaked, lapsed, spent>>

\* storeFor resumes: two requests may both have found nothing cached.
Opened(t) ==
  /\ At(t, {"opening"})
  /\ \E h \in Handles :
       /\ Open(task[t].host, h)
       /\ task' = [task EXCEPT ![t].at = "got", ![t].store = h]
  /\ UNCHANGED <<host, runs, awaited, leaked, lapsed, spent>>

\* The lock is held, or the file is corrupt or of another version: the request fails.
OpenRefused(t) ==
  /\ At(t, {"opening"}) /\ Done(t)
  /\ UNCHANGED <<hostVars, fileVars, leaked, lapsed, spent>>

\* projectionEntries, activePlugins and setPluginEnabled use the store and give it back.
Serve(t) ==
  /\ At(t, {"got"}) /\ task[t].op = "borrow"
  /\ Done(t) /\ Release(task[t].host)
  /\ UNCHANGED <<host, runs, awaited, leaked, lapsed, spent>>

\* startRun after storeFor: an unknown provider throws, and the reference stays counted.
UnknownProvider(t) ==
  /\ At(t, {"got"}) /\ task[t].op = "start"
  /\ Done(t) /\ leaked' = leaked \cup {t}
  /\ UNCHANGED <<hostVars, fileVars, lapsed, spent>>

Attach(t) ==
  /\ At(t, {"got"}) /\ task[t].op = "start"
  /\ Moves(t, "attaching")
  /\ UNCHANGED <<hostVars, fileVars, leaked, lapsed, spent>>

\* A connector's tool has the id of another, or the store was closed: what comes after the
\* connectors throws.
StartThrows(t) ==
  /\ At(t, {"attaching"}) /\ Done(t)
  /\ leaked' = leaked \cup {t}
  /\ UNCHANGED <<hostVars, fileVars, lapsed, spent>>

Usable(t) == handle[task[t].store] = "open"

\* The lane's register is written, the loop starts and the runs map gets it, without an await.
Register(t) ==
  /\ At(t, {"attaching"}) /\ Usable(t)
  /\ Moves(t, "running")
  /\ runs' = [runs EXCEPT ![task[t].host] = @ \cup {t}]
  /\ UNCHANGED <<host, cache, awaited, handle, lock, leaked, lapsed, spent>>

\* The loop resolves: out of the map, out of the register; then the connectors are closed.
RunEnds(t) ==
  /\ At(t, {"running"}) /\ Usable(t)
  /\ Moves(t, "ending")
  /\ runs' = [runs EXCEPT ![task[t].host] = @ \ {t}]
  /\ UNCHANGED <<host, cache, awaited, handle, lock, leaked, lapsed, spent>>

\* The store was closed under the run: what the loop and its `finally` commit throws, and the
\* reference is not given back.
RunBreaks(t) ==
  /\ At(t, {"running"}) /\ ~Usable(t)
  /\ Done(t) /\ leaked' = leaked \cup {t}
  /\ runs' = [runs EXCEPT ![task[t].host] = @ \ {t}]
  /\ UNCHANGED <<host, cache, awaited, fileVars, lapsed, spent>>

RunReleases(t) ==
  /\ At(t, {"ending"})
  /\ Done(t) /\ Release(task[t].host)
  /\ UNCHANGED <<host, runs, awaited, leaked, lapsed, spent>>

-----------------------------------------------------------------------------
(* The process                                                             *)

Boot(p) ==
  /\ host[p] = "down" /\ host' = [host EXCEPT ![p] = "booting"]
  /\ UNCHANGED <<cache, runs, awaited, task, fileVars, leaked, lapsed, spent>>

\* recoverAll: a locked store is skipped, an open one is recovered and released, then the
\* server listens.  What recovery does is in HarnessRun.
BootOpens(p) ==
  /\ host[p] = "booting"
  /\ \/ \E h \in Handles : Open(p, h) /\ host' = [host EXCEPT ![p] = "recovering"]
     \/ Locked /\ host' = [host EXCEPT ![p] = "up"] /\ UNCHANGED <<cache, handle, lock>>
  /\ UNCHANGED <<runs, awaited, task, leaked, lapsed, spent>>

Recovers(p) ==
  /\ host[p] = "recovering"
  /\ host' = [host EXCEPT ![p] = "up"] /\ Release(p)
  /\ UNCHANGED <<runs, awaited, task, leaked, lapsed, spent>>

\* Every five seconds while the process serves: the cached store takes the lock, whoever has it.
Beat(p) ==
  /\ host[p] = "up" /\ cache[p].handle # 0
  /\ lock # [owner |-> cache[p].handle, fresh |-> TRUE]
  /\ lock' = [owner |-> cache[p].handle, fresh |-> TRUE]
  /\ UNCHANGED <<hostVars, task, handle, leaked, lapsed, spent>>

OpenHandles == {h \in Handles : handle[h] = "open"}

\* Fifteen seconds without a heartbeat.  A process that serves beats unless it is suspended;
\* one that shuts down has stopped its timer, and one that recovers has not started it.
GoesStale ==
  /\ Locked /\ lock' = [lock EXCEPT !.fresh = FALSE]
  /\ IF \E p \in Hosts : host[p] = "up" /\ cache[p].handle = lock.owner
     THEN Spend("lapses") ELSE UNCHANGED spent
  /\ lapsed' = (lapsed \/ lock.owner \in OpenHandles)
  /\ UNCHANGED <<hostVars, task, handle, leaked>>

\* The heartbeat stops, the registered runs are told to abort, and are waited for.
Sigterm(p) ==
  /\ host[p] = "up" /\ Spend("stops")
  /\ host' = [host EXCEPT ![p] = "stopping"]
  /\ awaited' = [awaited EXCEPT ![p] = runs[p]]
  /\ UNCHANGED <<cache, runs, task, fileVars, leaked, lapsed>>

\* Faulty variant: shutdown waits for the loops, not for what follows them.
StopsEarly(p) ==
  /\ host[p] = "stopping" /\ awaited[p] \cap runs[p] = {}
  /\ host' = [host EXCEPT ![p] = "closing"]
  /\ UNCHANGED <<cache, runs, awaited, task, fileVars, leaked, lapsed, spent>>

\* app.close: no more requests.
StopsServing(p) ==
  /\ host[p] = "stopping" /\ \A t \in awaited[p] : At(t, {"done"})
  /\ host' = [host EXCEPT ![p] = "closing"]
  /\ UNCHANGED <<cache, runs, awaited, task, fileVars, leaked, lapsed, spent>>

\* Whatever the process held is lost with it; the file stays as it is.
Dies(p) ==
  /\ host' = [host EXCEPT ![p] = "down"]
  /\ cache' = [cache EXCEPT ![p] = NoStore]
  /\ runs' = [runs EXCEPT ![p] = {}] /\ awaited' = [awaited EXCEPT ![p] = {}]
  /\ handle' = [h \in Handles |->
       IF handle[h] = "open" /\ (h = cache[p].handle \/ \E t \in Of(p) : task[t].store = h)
       THEN "lost" ELSE handle[h]]
  /\ task' = [t \in Tasks |-> IF t \in Of(p) THEN [NoRequest EXCEPT !.at = "dead"] ELSE task[t]]
  /\ UNCHANGED <<lock, leaked, lapsed>>

Requested == {"opening", "got", "attaching"}

\* process.exit once the requests under way are answered; a run started meanwhile is cut.
Exit(p) ==
  /\ host[p] = "closing" /\ \A t \in Of(p) : ~At(t, Requested)
  /\ Dies(p) /\ UNCHANGED spent

Kill(p) == host[p] # "down" /\ Spend("kills") /\ Dies(p)

-----------------------------------------------------------------------------

Step(t) ==
  \/ Opened(t) \/ OpenRefused(t) \/ Serve(t) \/ UnknownProvider(t) \/ Attach(t)
  \/ StartThrows(t) \/ Register(t) \/ RunReleases(t)

Process(p) == Boot(p) \/ BootOpens(p) \/ Recovers(p)

Next ==
  \/ \E t \in Tasks :
       \/ Step(t) \/ RunEnds(t) \/ RunBreaks(t)
       \/ \E p \in Hosts, l \in Lanes, op \in {"start", "borrow"} : Ask(t, p, op, l)
  \/ \E p \in Hosts : Process(p) \/ Beat(p) \/ Sigterm(p) \/ StopsServing(p) \/ Exit(p) \/ Kill(p)
  \/ GoesStale

Spec == Init /\ [][Next]_vars

-----------------------------------------------------------------------------
(* Properties.                                                             *)

\* One session has one writer, whatever requests, crashes and restarts overlap, as long as
\* the lock of an open store is kept alive (store.ts:146).
OneWriter == Cardinality(OpenHandles) <= 1 \/ lapsed

Users(p) == {t \in Of(p) : At(t, {"got", "attaching", "running", "ending"})}

\* The references of the cached store are the tasks that use it and the ones that leaked
\* theirs, a store without references is closed, and a task that uses a store uses the cached
\* one, open: no lane closes it under another (supervisor.ts:437).
RefsAreCounted ==
  lapsed \/ \A p \in Hosts :
    /\ cache[p].refs = Cardinality(Users(p) \cup {t \in leaked : t \in Of(p) /\ At(t, {"done"})})
                       + (IF host[p] = "recovering" THEN 1 ELSE 0)
    /\ \A h \in OpenHandles : \E q \in Hosts : cache[q].handle = h
    /\ \A t \in Users(p) : task[t].store = cache[p].handle /\ handle[task[t].store] = "open"

\* A graceful exit leaves no lock behind, so that the next process recovers and serves at
\* once (store.ts:470); only a leak or a run started while it shut down does.
CleanExit ==
  [][\A p \in Hosts : Exit(p) =>
       \/ \A h \in Handles : handle'[h] # "lost" \/ handle[h] = "lost"
       \/ lapsed \/ leaked # {} \/ \E t \in Of(p) \ awaited[p] : At(t, {"running", "ending"})]_vars
=============================================================================
