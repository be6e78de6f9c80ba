--------------------------- MODULE SupervisorProofs ---------------------------
(***************************************************************************)
(* One writer per store, counted references and a clean exit, for every    *)
(* set of processes, requests and lanes and every number of kills, stops,  *)
(* suspensions and opened stores.                                          *)
(*                                                                         *)
(* Everything rests on the lock.  As long as no lock of an open store has  *)
(* gone stale, an open store is the one that the lock names, so a second   *)
(* cannot be opened (Held).  Then the process that caches it is the only   *)
(* one that counts on a store, and each step changes its count by as many  *)
(* tasks as begin or cease to use it (Kept).                               *)
(***************************************************************************)
EXTENDS Supervisor, FiniteSetTheorems, TLAPS

Stages == {"down", "booting", "recovering", "up", "stopping", "closing"}
Places == {"none", "opening", "got", "attaching", "running", "ending", "done", "dead"}

TypeOK ==
  /\ host \in [Hosts -> Stages]
  /\ cache \in [Hosts -> [handle : 0 .. MaxOpens, refs : Nat]]
  /\ runs \in [Hosts -> SUBSET Tasks] /\ awaited \in [Hosts -> SUBSET Tasks]
  /\ task \in [Tasks -> [op : {"none", "start", "borrow"}, at : Places,
                         host : Hosts \cup {None}, lane : Lanes \cup {None}, store : 0 .. MaxOpens]]
  /\ handle \in [Handles -> {"none", "open", "closed", "lost"}]
  /\ lock \in [owner : 0 .. MaxOpens, fresh : BOOLEAN]
  /\ leaked \in SUBSET Tasks /\ lapsed \in BOOLEAN

\* Where a task stands says whether it belongs to a process, holds a store, may have leaked;
\* and the tasks a process knows are its own.
Using == {"got", "attaching", "running", "ending"}
Standing ==
  /\ \A t \in Tasks :
       /\ task[t].at \in {"none", "dead"} <=> task[t].host = None
       /\ task[t].store # 0 => task[t].at \in Using
       /\ t \in leaked => task[t].at \in {"done", "dead"}
  /\ \A p \in Hosts : \A t \in runs[p] \cup awaited[p] : task[t].host = p
  /\ \A p \in Hosts : host[p] = "closing" => \A t \in awaited[p] : task[t].at = "done"

Counted(p) == Users(p) \cup {t \in leaked : t \in Of(p) /\ At(t, {"done"})}
Recovery(p) == IF host[p] = "recovering" THEN 1 ELSE 0

\* The lock names the store that is open, and the process that caches it.
Held ==
  /\ \A h \in Handles : handle[h] = "open" =>
       lock = [owner |-> h, fresh |-> TRUE] /\ \E p \in Hosts : cache[p].handle = h
  /\ \A p \in Hosts : cache[p].handle # 0 => handle[cache[p].handle] = "open"
  /\ \A p, q \in Hosts : cache[p].handle # 0 /\ cache[q].handle # 0 => p = q

\* The cached store is referenced, and its users use it.
Kept ==
  \A p \in Hosts :
    /\ cache[p].refs = Cardinality(Counted(p)) + Recovery(p)
    /\ cache[p].handle = 0 <=> cache[p].refs = 0
    /\ \A t \in Users(p) : task[t].store = cache[p].handle

Inv == TypeOK /\ Standing /\ (lapsed \/ (Held /\ Kept))

-----------------------------------------------------------------------------
(* Counting.                                                               *)

LEMMA CountedIsFinite ==
  ASSUME TypeOK, NEW p \in Hosts
  PROVE  /\ IsFiniteSet(Counted(p)) /\ Cardinality(Counted(p)) \in Nat
         /\ Cardinality(Counted(p)) = 0 <=> Counted(p) = {}
<1>1. Counted(p) \in SUBSET Tasks  BY DEF Counted, Users, Of, TypeOK
<1>2. IsFiniteSet(Counted(p))  BY <1>1, BoundsAssumption, FS_Subset
<1> QED  BY <1>2, FS_CardinalityType, FS_EmptySet

\* A process without a store counts on none and is used by nobody.
LEMMA NoStoreNoUsers ==
  ASSUME TypeOK, Kept, NEW p \in Hosts, cache[p].handle = 0
  PROVE  Counted(p) = {} /\ host[p] # "recovering"
<1>1. cache[p].refs = 0 /\ cache[p].refs = Cardinality(Counted(p)) + Recovery(p)
  BY DEF Kept
<1>2. Cardinality(Counted(p)) \in Nat  BY CountedIsFinite
<1>3. Recovery(p) \in {0, 1}  BY DEF Recovery
<1>4. Cardinality(Counted(p)) = 0 /\ Recovery(p) = 0  BY <1>1, <1>2, <1>3
<1> QED  BY <1>4, CountedIsFinite DEF Recovery

\* With no fresh lock no store is open, so that no process has one.
LEMMA UnlockedIsUnused ==
  ASSUME TypeOK, Held, ~Locked
  PROVE  /\ \A h \in Handles : handle[h] # "open"
         /\ \A p \in Hosts : cache[p].handle = 0
<1>1. \A h \in Handles : handle[h] # "open"
  BY DEF Held, Locked, Handles
<1>2. ASSUME NEW p \in Hosts PROVE cache[p].handle = 0
  BY <1>1, BoundsAssumption DEF Held, TypeOK, Handles
<1> QED  BY <1>1, <1>2

-----------------------------------------------------------------------------
(* The initial states.                                                     *)

LEMMA InitInv == Init => Inv
<1> SUFFICES ASSUME Init PROVE Inv  OBVIOUS
<1>1. TypeOK
  <2>1. 0 \in 0 .. MaxOpens  BY BoundsAssumption
  <2>2. NoStore \in [handle : 0 .. MaxOpens, refs : Nat] /\ NoLock \in [owner : 0 .. MaxOpens, fresh : BOOLEAN]
    BY <2>1 DEF NoStore, NoLock
  <2>3. NoRequest \in [op : {"none", "start", "borrow"}, at : Places, host : Hosts \cup {None},
                       lane : Lanes \cup {None}, store : 0 .. MaxOpens]
    BY <2>1 DEF NoRequest, Places
  <2> QED  BY <2>2, <2>3 DEF Init, TypeOK, Stages
<1>2. Standing  BY DEF Init, Standing, NoRequest
<1>3. Held  BY DEF Init, Held, NoStore
<1>4. ASSUME NEW p \in Hosts
      PROVE  Counted(p) = {} /\ Users(p) = {} /\ cache[p] = NoStore /\ Recovery(p) = 0
  BY BoundsAssumption DEF Init, Counted, Users, Of, At, Recovery, NoRequest
<1>5. Kept
  BY <1>4, FS_EmptySet DEF Kept, NoStore
<1> QED  BY <1>1, <1>2, <1>3, <1>5 DEF Inv

-----------------------------------------------------------------------------
(* Types and places of tasks.                                              *)

Request == [op : {"none", "start", "borrow"}, at : Places, host : Hosts \cup {None},
            lane : Lanes \cup {None}, store : 0 .. MaxOpens]

\* A task that moves stays where and what it is.
LEMMA MovesTo ==
  ASSUME TypeOK, NEW t \in Tasks, NEW place \in Places, Moves(t, place)
  PROVE  /\ task' \in [Tasks -> Request]
         /\ task'[t].at = place /\ task'[t].host = task[t].host /\ task'[t].store = task[t].store
         /\ \A u \in Tasks \ {t} : task'[u] = task[u]
BY ZenonT(60) DEF TypeOK, Moves, Request

\* A task that is done belongs to its process, and holds nothing.
LEMMA DoneIs ==
  ASSUME TypeOK, NEW t \in Tasks, Done(t)
  PROVE  /\ task' \in [Tasks -> Request]
         /\ task'[t].at = "done" /\ task'[t].host = task[t].host /\ task'[t].store = 0
         /\ \A u \in Tasks \ {t} : task'[u] = task[u]
<1> DEFINE d == [NoRequest EXCEPT !.at = "done", !.host = task[t].host]
<1>1. d.at = "done" /\ d.host = task[t].host /\ d.store = 0
  BY DEF NoRequest
<1>2. d \in Request
  <2>1. 0 \in 0 .. MaxOpens  BY BoundsAssumption
  <2>2. task[t].host \in Hosts \cup {None}  BY DEF TypeOK
  <2> QED  BY <2>1, <2>2 DEF NoRequest, Request, Places
<1>3. task' = [task EXCEPT ![t] = d]
  BY DEF Done
<1> HIDE DEF d
<1> QED  BY <1>1, <1>2, <1>3 DEF TypeOK, Request

LEMMA ReleaseType ==
  ASSUME TypeOK, NEW p \in Hosts, Release(p)
  PROVE  /\ cache' \in [Hosts -> [handle : 0 .. MaxOpens, refs : Nat]]
         /\ handle' \in [Handles -> {"none", "open", "closed", "lost"}]
         /\ lock' \in [owner : 0 .. MaxOpens, fresh : BOOLEAN]
<1>1. CASE cache[p].handle = 0
  BY <1>1 DEF TypeOK, Release
<1>2. CASE cache[p].handle # 0 /\ cache[p].refs > 1
  <2>1. [cache[p] EXCEPT !.refs = @ - 1] \in [handle : 0 .. MaxOpens, refs : Nat]
    BY <1>2 DEF TypeOK
  <2> QED  BY <1>2, <2>1, ZenonT(60) DEF TypeOK, Release
<1>3. CASE cache[p].handle # 0 /\ ~(cache[p].refs > 1)
  <2>1. NoStore \in [handle : 0 .. MaxOpens, refs : Nat] /\ NoLock \in [owner : 0 .. MaxOpens, fresh : BOOLEAN]
    BY BoundsAssumption DEF NoStore, NoLock
  <2> QED  BY <1>3, <2>1 DEF TypeOK, Release, CloseStore
<1> QED  BY <1>1, <1>2, <1>3

LEMMA OpenType ==
  ASSUME TypeOK, NEW p \in Hosts, NEW h \in Handles, Open(p, h)
  PROVE  /\ cache' \in [Hosts -> [handle : 0 .. MaxOpens, refs : Nat]]
         /\ handle' \in [Handles -> {"none", "open", "closed", "lost"}]
         /\ lock' \in [owner : 0 .. MaxOpens, fresh : BOOLEAN]
         /\ h \in 0 .. MaxOpens /\ h # 0
<1>1. h \in 0 .. MaxOpens /\ h # 0  BY BoundsAssumption DEF Handles
<1> QED  BY <1>1 DEF TypeOK, Open

\* Every step of a request keeps the types.
LEMMA RequestType ==
  ASSUME TypeOK, Standing, NEW t \in Tasks,
         \/ Step(t) \/ RunEnds(t) \/ RunBreaks(t)
         \/ \E p \in Hosts, l \in Lanes, op \in {"start", "borrow"} : Ask(t, p, op, l)
  PROVE  TypeOK'
<1>1. CASE Opened(t)
  <2>1. PICK h \in Handles :
          Open(task[t].host, h) /\ task' = [task EXCEPT ![t].at = "got", ![t].store = h]
    BY <1>1 DEF Opened
  <2>2. task[t].host \in Hosts
    BY <1>1 DEF Opened, At, Standing, TypeOK
  <2> DEFINE r == [task[t] EXCEPT !.at = "got", !.store = h]
  <2>3. r \in Request
    <3>1. h \in 0 .. MaxOpens  BY BoundsAssumption DEF Handles
    <3>2. task[t] \in Request  BY DEF TypeOK, Request
    <3> QED  BY <3>1, <3>2 DEF Request, Places
  <2>4. task' \in [Tasks -> Request]
    <3>1. task' = [task EXCEPT ![t] = r]  BY <2>1 DEF TypeOK
    <3> HIDE DEF r
    <3> QED  BY <2>3, <3>1 DEF TypeOK, Request
  <2>5. /\ cache' \in [Hosts -> [handle : 0 .. MaxOpens, refs : Nat]]
        /\ handle' \in [Handles -> {"none", "open", "closed", "lost"}]
        /\ lock' \in [owner : 0 .. MaxOpens, fresh : BOOLEAN]
    BY <2>1, <2>2, OpenType
  <2> QED  BY <1>1, <2>4, <2>5 DEF Opened, TypeOK, Request
<1>2. CASE OpenRefused(t) \/ UnknownProvider(t) \/ StartThrows(t)
  <2>1. task' \in [Tasks -> Request]
    BY <1>2, DoneIs DEF OpenRefused, UnknownProvider, StartThrows
  <2> QED
    BY <1>2, <2>1 DEF OpenRefused, UnknownProvider, StartThrows, hostVars, fileVars, TypeOK, Request
<1>3. CASE Serve(t) \/ RunReleases(t)
  <2>1. task' \in [Tasks -> Request]  BY <1>3, DoneIs DEF Serve, RunReleases
  <2>2. task[t].host \in Hosts
    BY <1>3 DEF Serve, RunReleases, At, Standing, TypeOK
  <2>3. /\ cache' \in [Hosts -> [handle : 0 .. MaxOpens, refs : Nat]]
        /\ handle' \in [Handles -> {"none", "open", "closed", "lost"}]
        /\ lock' \in [owner : 0 .. MaxOpens, fresh : BOOLEAN]
    BY <1>3, <2>2, ReleaseType DEF Serve, RunReleases
  <2> QED  BY <1>3, <2>1, <2>3 DEF Serve, RunReleases, TypeOK, Request
<1>4. CASE Attach(t)
  <2>1. task' \in [Tasks -> Request]  BY <1>4, MovesTo DEF Attach, Places
  <2> QED  BY <1>4, <2>1 DEF Attach, hostVars, fileVars, TypeOK, Request
<1>5. CASE Register(t)
  <2>1. task' \in [Tasks -> Request]  BY <1>5, MovesTo DEF Register, Places
  <2> QED  BY <1>5, <2>1 DEF Register, TypeOK, Request
<1>6. CASE RunEnds(t)
  <2>1. task' \in [Tasks -> Request]  BY <1>6, MovesTo DEF RunEnds, Places
  <2> QED  BY <1>6, <2>1 DEF RunEnds, TypeOK, Request
<1>7. CASE RunBreaks(t)
  <2>1. task' \in [Tasks -> Request]  BY <1>7, DoneIs DEF RunBreaks
  <2> QED  BY <1>7, <2>1 DEF RunBreaks, fileVars, TypeOK, Request
<1>8. CASE \E p \in Hosts, l \in Lanes, op \in {"start", "borrow"} : Ask(t, p, op, l)
  <2>1. PICK p \in Hosts, l \in Lanes, op \in {"start", "borrow"} : Ask(t, p, op, l)
    BY <1>8
  <2>2. task' \in [Tasks -> Request]  BY <2>1 DEF Ask, TypeOK, Request, Places
  <2>3. cache' \in [Hosts -> [handle : 0 .. MaxOpens, refs : Nat]]
    <3>1. [cache[p] EXCEPT !.refs = @ + 1] \in [handle : 0 .. MaxOpens, refs : Nat]
      BY DEF TypeOK
    <3> QED  BY <2>1, <3>1 DEF Ask, TypeOK
  <2> QED  BY <2>1, <2>2, <2>3 DEF Ask, fileVars, TypeOK, Request
<1> QED
  BY <1>1, <1>2, <1>3, <1>4, <1>5, <1>6, <1>7, <1>8 DEF Step

\* So does every step of a process.
LEMMA ProcessType ==
  ASSUME TypeOK, NEW p \in Hosts,
         Process(p) \/ Beat(p) \/ Sigterm(p) \/ StopsServing(p) \/ Dies(p)
  PROVE  TypeOK'
<1>1. CASE Boot(p) \/ Sigterm(p) \/ StopsServing(p)
  BY <1>1 DEF Boot, Sigterm, StopsServing, fileVars, TypeOK, Stages
<1>2. CASE BootOpens(p)
  <2>1. host' \in [Hosts -> Stages]  BY <1>2 DEF BootOpens, TypeOK, Stages
  <2>2. CASE \E h \in Handles : Open(p, h)
    BY <1>2, <2>1, <2>2, OpenType DEF BootOpens, TypeOK
  <2>3. CASE UNCHANGED <<cache, handle, lock>>
    BY <1>2, <2>1, <2>3 DEF BootOpens, TypeOK
  <2> QED  BY <1>2, <2>2, <2>3 DEF BootOpens
<1>3. CASE Recovers(p)
  BY <1>3, ReleaseType DEF Recovers, TypeOK, Stages
<1>4. CASE Beat(p)
  BY <1>4 DEF Beat, hostVars, TypeOK
<1>5. CASE Dies(p)
  <2>1. [NoRequest EXCEPT !.at = "dead"] \in Request
    <3>1. 0 \in 0 .. MaxOpens  BY BoundsAssumption
    <3> QED  BY <3>1 DEF NoRequest, Request, Places
  <2>2. NoStore \in [handle : 0 .. MaxOpens, refs : Nat]
    BY BoundsAssumption DEF NoStore
  <2>3. task' \in [Tasks -> Request]  BY <1>5, <2>1 DEF Dies, TypeOK, Request
  <2>4. handle' \in [Handles -> {"none", "open", "closed", "lost"}]  BY <1>5 DEF Dies, TypeOK
  <2>5. lock' = lock /\ leaked' = leaked /\ lapsed' = lapsed  BY <1>5 DEF Dies
  <2>6. /\ host' \in [Hosts -> Stages] /\ cache' \in [Hosts -> [handle : 0 .. MaxOpens, refs : Nat]]
        /\ runs' \in [Hosts -> SUBSET Tasks] /\ awaited' \in [Hosts -> SUBSET Tasks]
    BY <1>5, <2>2 DEF Dies, TypeOK, Stages
  <2> QED  BY <2>3, <2>4, <2>5, <2>6 DEF TypeOK, Request
<1> QED  BY <1>1, <1>2, <1>3, <1>4, <1>5 DEF Process

\* What a step of one request must do so that the places stay right.
LEMMA OneTaskStands ==
  ASSUME TypeOK, Standing, NEW t \in Tasks,
         \A u \in Tasks \ {t} : task'[u] = task[u],
         task'[t].host \in Hosts, task[t].host \in {None, task'[t].host},
         task'[t].at \notin {"none", "dead"}, task[t].at \notin {"done", "dead"},
         task'[t].store # 0 => task'[t].at \in Using,
         leaked' \subseteq IF task'[t].at = "done" THEN leaked \cup {t} ELSE leaked,
         host' = host, awaited' = awaited,
         \A p \in Hosts : runs'[p] \subseteq IF p = task'[t].host THEN runs[p] \cup {t} ELSE runs[p]
  PROVE  Standing'
<1>1. \A p \in Hosts : p # None  BY BoundsAssumption
<1>2. ASSUME NEW u \in Tasks
      PROVE  /\ (task'[u].at \in {"none", "dead"} <=> task'[u].host = None)
             /\ (task'[u].store # 0 => task'[u].at \in Using)
             /\ (u \in leaked' => task'[u].at \in {"done", "dead"})
  <2>1. CASE u # t  BY <2>1 DEF Standing
  <2>2. CASE u = t
    <3>1. t \notin leaked  BY DEF Standing
    <3> QED  BY <1>1, <2>2, <3>1
  <2> QED  BY <2>1, <2>2
<1>3. ASSUME NEW p \in Hosts, NEW u \in runs'[p] \cup awaited'[p] PROVE task'[u].host = p
  <2>1. u = t \/ u \in Tasks \ {t}  BY DEF TypeOK
  <2>2. u # t \/ task'[t].host # p => u \in runs[p] \cup awaited[p]  OBVIOUS
  <2>3. u \in runs[p] \cup awaited[p] => task[u].host = p  BY DEF Standing
  <2> QED  BY <1>1, <2>1, <2>2, <2>3
<1>4. ASSUME NEW p \in Hosts, host'[p] = "closing", NEW u \in awaited'[p]
      PROVE  task'[u].at = "done"
  <2>1. task[u].at = "done" /\ u \in Tasks  BY <1>4 DEF Standing, TypeOK
  <2> QED  BY <2>1
<1> QED  BY <1>2, <1>3, <1>4 DEF Standing

LEMMA RequestStanding ==
  ASSUME TypeOK, Standing, NEW t \in Tasks,
         \/ Step(t) \/ RunEnds(t) \/ RunBreaks(t)
         \/ \E p \in Hosts, l \in Lanes, op \in {"start", "borrow"} : Ask(t, p, op, l)
  PROVE  Standing'
<1>1. CASE Opened(t)
  <2>1. PICK h \in Handles : task' = [task EXCEPT ![t].at = "got", ![t].store = h]
    BY <1>1 DEF Opened
  <2>2. /\ task'[t].at = "got" /\ task'[t].host = task[t].host
        /\ \A u \in Tasks \ {t} : task'[u] = task[u]
    BY <2>1 DEF TypeOK
  <2>3. /\ host' = host /\ runs' = runs /\ awaited' = awaited /\ leaked' = leaked
        /\ task[t].at = "opening"
    BY <1>1 DEF Opened, At
  <2>4. task[t].host \in Hosts  BY <2>3 DEF Standing, TypeOK
  <2> QED  BY <2>2, <2>3, <2>4, OneTaskStands DEF Using
<1>2. CASE OpenRefused(t) \/ UnknownProvider(t) \/ StartThrows(t) \/ Serve(t) \/ RunReleases(t)
        \/ RunBreaks(t)
  <2>1. Done(t) /\ task[t].at \in Places \ {"none", "dead", "done"}
    BY <1>2 DEF OpenRefused, UnknownProvider, StartThrows, Serve, RunReleases, RunBreaks, At, Places
  <2>2. /\ task'[t].at = "done" /\ task'[t].host = task[t].host /\ task'[t].store = 0
        /\ \A u \in Tasks \ {t} : task'[u] = task[u]
    BY <2>1, DoneIs
  <2>3. /\ host' = host /\ awaited' = awaited /\ leaked' \subseteq leaked \cup {t}
        /\ \A p \in Hosts : runs'[p] \subseteq runs[p]
    BY <1>2 DEF OpenRefused, UnknownProvider, StartThrows, Serve, RunReleases, RunBreaks, hostVars,
                TypeOK
  <2>4. task[t].host \in Hosts  BY <2>1 DEF Standing, TypeOK
  <2> QED  BY <2>1, <2>2, <2>3, <2>4, OneTaskStands
<1>3. CASE Attach(t) \/ Register(t) \/ RunEnds(t)
  <2>1. PICK place \in Using : Moves(t, place)
    BY <1>3 DEF Attach, Register, RunEnds, Using
  <2>2. place \in Places  BY DEF Using, Places
  <2>3. /\ task'[t].at = place /\ task'[t].host = task[t].host
        /\ \A u \in Tasks \ {t} : task'[u] = task[u]
    BY <2>1, <2>2, MovesTo DEF TypeOK
  <2>4. /\ host' = host /\ awaited' = awaited /\ leaked' = leaked
        /\ task[t].at \in Using
    BY <1>3 DEF Attach, Register, RunEnds, hostVars, Using, At
  <2>5. task[t].host \in Hosts  BY <2>4 DEF Standing, TypeOK, Using
  <2>6. \A p \in Hosts : runs'[p] \subseteq IF p = task[t].host THEN runs[p] \cup {t} ELSE runs[p]
    BY <1>3, <2>5 DEF Attach, Register, RunEnds, hostVars, TypeOK
  <2> QED  BY <2>3, <2>4, <2>5, <2>6, OneTaskStands DEF Using
<1>4. CASE \E p \in Hosts, l \in Lanes, op \in {"start", "borrow"} : Ask(t, p, op, l)
  <2>1. PICK p \in Hosts, l \in Lanes, op \in {"start", "borrow"} : Ask(t, p, op, l)
    BY <1>4
  <2>2. /\ task'[t].host = p /\ task'[t].at \in {"got", "opening"}
        /\ task'[t].at = "opening" => task'[t].store = 0
        /\ \A u \in Tasks \ {t} : task'[u] = task[u]
        /\ task[t].host = None /\ task[t].at = "none"
    BY <2>1 DEF Ask, NoRequest, TypeOK
  <2>3. host' = host /\ runs' = runs /\ awaited' = awaited /\ leaked' = leaked
    BY <2>1 DEF Ask
  <2> QED  BY <2>2, <2>3, OneTaskStands DEF Using
<1> QED
  BY <1>1, <1>2, <1>3, <1>4 DEF Step

LEMMA ProcessStanding ==
  ASSUME TypeOK, Standing, NEW p \in Hosts,
         Process(p) \/ Beat(p) \/ Sigterm(p) \/ StopsServing(p) \/ Dies(p)
  PROVE  Standing'
<1>1. CASE Process(p) \/ Beat(p) \/ Sigterm(p)
  <2>1. task' = task /\ leaked' = leaked /\ runs' = runs
    BY <1>1 DEF Process, Boot, BootOpens, Recovers, Beat, Sigterm, hostVars
  <2>2. \A q \in Hosts : awaited'[q] \subseteq runs[q] \cup awaited[q]
    BY <1>1 DEF Process, Boot, BootOpens, Recovers, Beat, Sigterm, hostVars, TypeOK
  <2>3. \A q \in Hosts : host'[q] = "closing" => host[q] = "closing" /\ awaited'[q] = awaited[q]
    BY <1>1 DEF Process, Boot, BootOpens, Recovers, Beat, Sigterm, hostVars, TypeOK
  <2> QED  BY <2>1, <2>2, <2>3 DEF Standing
<1>2. CASE StopsServing(p)
  BY <1>2 DEF StopsServing, Standing, TypeOK, At
<1>3. CASE Dies(p)
  <2>1. \A t \in Tasks : IF task[t].host = p
                         THEN task'[t].at = "dead" /\ task'[t].host = None /\ task'[t].store = 0
                         ELSE task'[t] = task[t]
    BY <1>3 DEF Dies, Of, NoRequest
  <2>2. /\ leaked' = leaked /\ runs'[p] = {} /\ awaited'[p] = {}
        /\ \A q \in Hosts \ {p} : runs'[q] = runs[q] /\ awaited'[q] = awaited[q] /\ host'[q] = host[q]
        /\ runs' \in [Hosts -> SUBSET Tasks] /\ awaited' \in [Hosts -> SUBSET Tasks]
    BY <1>3 DEF Dies, TypeOK
  <2>3. p # None  BY BoundsAssumption
  <2> QED  BY <2>1, <2>2, <2>3 DEF Standing, TypeOK
<1> QED  BY <1>1, <1>2, <1>3

-----------------------------------------------------------------------------
(* What a step does to the counts.                                         *)

CountsOn(t) == task[t].at \in Using \/ (t \in leaked /\ task[t].at = "done")

LEMMA CountedIs ==
  ASSUME NEW p \in Hosts
  PROVE  /\ Counted(p) = {t \in Tasks : task[t].host = p /\ CountsOn(t)}
         /\ Counted(p)' = {t \in Tasks : task'[t].host = p /\ CountsOn(t)'}
         /\ Users(p) = {t \in Tasks : task[t].host = p /\ task[t].at \in Using}
         /\ Users(p)' = {t \in Tasks : task'[t].host = p /\ task'[t].at \in Using}
BY DEF Counted, Users, Of, At, CountsOn, Using

LEMMA OneTaskCounts ==
  ASSUME Standing, NEW t \in Tasks, NEW p \in Hosts,
         task'[t].host = p, task[t].host \in {None, p},
         \A u \in Tasks \ {t} : task'[u] = task[u] /\ (u \in leaked' <=> u \in leaked)
  PROVE  /\ \A q \in Hosts \ {p} : Counted(q)' = Counted(q) /\ Users(q)' = Users(q)
         /\ Counted(p)' \ {t} = Counted(p) \ {t} /\ Users(p)' \ {t} = Users(p) \ {t}
         /\ t \in Counted(p) <=> CountsOn(t)
         /\ t \in Counted(p)' <=> CountsOn(t)'
<1>1. \A q \in Hosts : q # None  BY BoundsAssumption
<1>2. task[t].host = None => ~CountsOn(t)  BY DEF Standing, CountsOn, Using
<1>3. \A u \in Tasks \ {t} : CountsOn(u)' <=> CountsOn(u)  BY DEF CountsOn
<1>4. ASSUME NEW q \in Hosts \ {p} PROVE Counted(q)' = Counted(q) /\ Users(q)' = Users(q)
  <2>1. task'[t].host # q /\ task[t].host # q  BY <1>1
  <2>2. \A u \in Tasks : task'[u].host = q <=> task[u].host = q  BY <2>1
  <2>3. \A u \in Tasks : task[u].host = q => (CountsOn(u)' <=> CountsOn(u)) /\ task'[u] = task[u]
    BY <1>3, <2>1
  <2>4. \A u : u \in Counted(q)' <=> u \in Counted(q)  BY <2>2, <2>3, CountedIs
  <2>5. \A u : u \in Users(q)' <=> u \in Users(q)  BY <2>2, <2>3, CountedIs
  <2> QED  BY <2>4, <2>5
<1>5. Counted(p)' \ {t} = Counted(p) \ {t} /\ Users(p)' \ {t} = Users(p) \ {t}
  BY <1>3, CountedIs
<1>6. (t \in Counted(p) <=> CountsOn(t)) /\ (t \in Counted(p)' <=> CountsOn(t)')
  BY <1>1, <1>2, CountedIs
<1> QED  BY <1>4, <1>5, <1>6

\* One task more or less.
LEMMA CountChanges ==
  ASSUME NEW p \in Hosts, NEW t \in Tasks, Counted(p)' \ {t} = Counted(p) \ {t}
  PROVE  Cardinality(Counted(p)') = Cardinality(Counted(p)) - (IF t \in Counted(p) THEN 1 ELSE 0)
                                      + (IF t \in Counted(p)' THEN 1 ELSE 0)
<1>1. Counted(p) \in SUBSET Tasks /\ Counted(p)' \in SUBSET Tasks  BY CountedIs
<1>2. IsFiniteSet(Counted(p)) /\ IsFiniteSet(Counted(p)')  BY <1>1, BoundsAssumption, FS_Subset
<1>3. Cardinality(Counted(p)) \in Nat /\ Cardinality(Counted(p)') \in Nat
  BY <1>2, FS_CardinalityType
<1> DEFINE S == Counted(p)
           T == Counted(p)'
<1> HIDE DEF S, T
<1>4. Cardinality(S \ {t}) = IF t \in S THEN Cardinality(S) - 1 ELSE Cardinality(S)
  BY <1>2, FS_RemoveElement DEF S
<1>5. Cardinality(T \ {t}) = IF t \in T THEN Cardinality(T) - 1 ELSE Cardinality(T)
  BY <1>2, FS_RemoveElement DEF T
<1>6. S \ {t} = T \ {t} /\ Cardinality(S) \in Nat /\ Cardinality(T) \in Nat
  BY <1>3 DEF S, T
<1>7. Cardinality(T) = Cardinality(S) - (IF t \in S THEN 1 ELSE 0) + (IF t \in T THEN 1 ELSE 0)
  BY <1>4, <1>5, <1>6
<1> QED  BY <1>7 DEF S, T

LEMMA CountedSame ==
  ASSUME task' = task, leaked' = leaked, NEW p \in Hosts
  PROVE  Counted(p)' = Counted(p) /\ Users(p)' = Users(p)
BY CountedIs, ZenonT(60) DEF CountsOn

\* A task that goes on counting on its store, or on none, disturbs nothing.
LEMMA SameCount ==
  ASSUME Standing, Held, Kept, NEW t \in Tasks, NEW p \in Hosts,
         task'[t].host = p, task[t].host \in {None, p},
         \A u \in Tasks \ {t} : task'[u] = task[u] /\ (u \in leaked' <=> u \in leaked),
         CountsOn(t)' <=> CountsOn(t),
         task'[t].at \in Using => task[t].at \in Using /\ task'[t].store = task[t].store,
         host' = host, cache' = cache, handle' = handle, lock' = lock
  PROVE  Held' /\ Kept'
<1>1. Held'  BY DEF Held
<1>2. ASSUME NEW q \in Hosts PROVE Counted(q)' = Counted(q)
  BY OneTaskCounts
<1>3. ASSUME NEW q \in Hosts, NEW u \in Users(q)'
      PROVE  u \in Users(q) /\ task'[u].store = task[u].store
  <2>1. CASE u = t
    <3>1. q = p /\ task[t].at \in Using  BY <2>1, CountedIs
    <3>2. task[t].host = p  BY <3>1, BoundsAssumption DEF Standing, Using
    <3> QED  BY <2>1, <3>1, <3>2, CountedIs
  <2>2. CASE u # t  BY <2>2, CountedIs
  <2> QED  BY <2>1, <2>2
<1>4. ASSUME NEW q \in Hosts PROVE Recovery(q)' = Recovery(q)  BY DEF Recovery
<1>5. Kept'  BY <1>2, <1>3, <1>4 DEF Kept
<1> QED  BY <1>1, <1>5

-----------------------------------------------------------------------------
(* Opening and releasing.                                                  *)

\* A store is opened only when no other is open.
LEMMA OpenHolds ==
  ASSUME TypeOK, Held, Kept, NEW p \in Hosts, NEW h \in Handles, Open(p, h)
  PROVE  /\ Held' /\ cache'[p].handle = h /\ cache'[p].refs = 1 /\ h # 0
         /\ \A q \in Hosts \ {p} : cache'[q] = cache[q]
         /\ \A q \in Hosts : Counted(q) = {} /\ host[q] # "recovering" /\ cache[q].handle = 0
<1>1. /\ \A g \in Handles : handle[g] # "open"
      /\ \A q \in Hosts : cache[q].handle = 0
  BY UnlockedIsUnused DEF Open
<1>2. ASSUME NEW q \in Hosts PROVE Counted(q) = {} /\ host[q] # "recovering"
  BY <1>1, NoStoreNoUsers
<1>3. /\ cache'[p].handle = h /\ cache'[p].refs = 1 /\ h # 0
      /\ \A q \in Hosts \ {p} : cache'[q] = cache[q]
  BY BoundsAssumption DEF Open, TypeOK, Handles
<1>4. /\ lock' = [owner |-> h, fresh |-> TRUE]
      /\ \A g \in Handles : handle'[g] = "open" <=> g = h
  BY <1>1 DEF Open, TypeOK
<1>5. \A q \in Hosts : cache'[q].handle # 0 => q = p /\ cache'[q].handle = h
  BY <1>1, <1>3
<1>6. ASSUME NEW g \in Handles, handle'[g] = "open"
      PROVE  lock' = [owner |-> g, fresh |-> TRUE] /\ \E q \in Hosts : cache'[q].handle = g
  BY <1>3, <1>4, <1>6
<1>7. Held'  BY <1>4, <1>5, <1>6 DEF Held
<1> QED  BY <1>1, <1>2, <1>3, <1>7

\* The last reference closes, any other is given back.
LEMMA ReleaseHolds ==
  ASSUME TypeOK, Held, NEW p \in Hosts, cache[p].handle # 0, Release(p)
  PROVE  /\ Held' /\ \A q \in Hosts \ {p} : cache'[q] = cache[q]
         /\ cache[p].refs > 1 => /\ cache'[p].handle = cache[p].handle
                                 /\ cache'[p].refs = cache[p].refs - 1
         /\ ~(cache[p].refs > 1) => cache'[p].handle = 0 /\ cache'[p].refs = 0
<1>1. CASE cache[p].refs > 1
  <2>1. /\ cache' = [cache EXCEPT ![p].refs = @ - 1] /\ handle' = handle /\ lock' = lock
    BY <1>1 DEF Release
  <2>2. /\ \A q \in Hosts : cache'[q].handle = cache[q].handle
        /\ \A q \in Hosts \ {p} : cache'[q] = cache[q]
        /\ cache'[p].refs = cache[p].refs - 1
    BY <2>1 DEF TypeOK
  <2>3. Held'  BY <2>1, <2>2 DEF Held
  <2> QED  BY <1>1, <2>2, <2>3
<1>2. CASE ~(cache[p].refs > 1)
  <2>1. cache' = [cache EXCEPT ![p] = NoStore] /\ CloseStore(cache[p].handle)
    BY <1>2 DEF Release
  <2>2. /\ cache'[p].handle = 0 /\ cache'[p].refs = 0
        /\ \A q \in Hosts \ {p} : cache'[q] = cache[q]
    BY <2>1 DEF TypeOK, NoStore
  <2>3. cache[p].handle \in Handles /\ handle[cache[p].handle] = "open"
    BY BoundsAssumption DEF Held, TypeOK, Handles
  <2>4. \A h \in Handles : handle'[h] # "open"
    BY <2>1, <2>3 DEF Held, CloseStore, TypeOK
  <2>5. \A q \in Hosts : cache'[q].handle = 0
    BY <2>2 DEF Held
  <2> QED  BY <1>2, <2>2, <2>4, <2>5 DEF Held
<1> QED  BY <1>1, <1>2

\* A user of the store gives its reference back.
LEMMA UserReleases ==
  ASSUME TypeOK, Standing, Held, Kept, NEW t \in Tasks, NEW p \in Hosts, task[t].host = p,
         task[t].at \in Using, task'[t].at = "done", task'[t].host = p,
         \A u \in Tasks \ {t} : task'[u] = task[u],
         leaked' = leaked, host' = host, Release(p)
  PROVE  Held' /\ Kept'
<1>1. CountsOn(t) /\ ~CountsOn(t)'
  BY DEF CountsOn, Using, Standing
<1>2. /\ \A q \in Hosts \ {p} : Counted(q)' = Counted(q) /\ Users(q)' = Users(q)
      /\ Counted(p)' \ {t} = Counted(p) \ {t} /\ Users(p)' \ {t} = Users(p) \ {t}
      /\ t \in Counted(p) /\ t \notin Counted(p)'
  BY <1>1, OneTaskCounts
<1>3. Cardinality(Counted(p)') = Cardinality(Counted(p)) - 1
  BY <1>2, CountChanges, CountedIsFinite
<1>4. Cardinality(Counted(p)) \in Nat \ {0}  BY <1>2, CountedIsFinite
<1>5. cache[p].handle # 0  BY <1>2, NoStoreNoUsers
<1>6. /\ Held' /\ \A q \in Hosts \ {p} : cache'[q] = cache[q]
      /\ cache[p].refs > 1 => /\ cache'[p].handle = cache[p].handle
                              /\ cache'[p].refs = cache[p].refs - 1
      /\ ~(cache[p].refs > 1) => cache'[p].handle = 0 /\ cache'[p].refs = 0
  BY <1>5, ReleaseHolds
<1>7. ASSUME NEW q \in Hosts PROVE Recovery(q)' = Recovery(q) /\ Recovery(q) \in {0, 1}
  BY DEF Recovery
<1>8. Users(p)' \subseteq Users(p) \ {t} /\ Users(p)' \subseteq Counted(p)'
  BY <1>2, CountedIs DEF CountsOn, Using
<1>9. cache[p].refs \in Nat /\ cache[p].refs = Cardinality(Counted(p)) + Recovery(p)
  BY DEF Kept, TypeOK
<1>10. /\ cache'[p].refs = Cardinality(Counted(p)') + Recovery(p)'
       /\ cache'[p].handle = 0 <=> cache'[p].refs = 0
  BY <1>3, <1>4, <1>5, <1>6, <1>7, <1>9
<1>11. ASSUME NEW u \in Users(p)' PROVE task'[u].store = cache'[p].handle
  <2>1. u \in Users(p) /\ u # t /\ u \in Tasks  BY <1>8, CountedIs
  <2>2. task'[u].store = cache[p].handle  BY <2>1 DEF Kept
  <2>3. u \in Counted(p) /\ u \in Counted(p)'  BY <1>8, <2>1, CountedIs DEF CountsOn
  <2>4. Cardinality(Counted(p)) # 1
    <3>1. IsFiniteSet(Counted(p))  BY CountedIsFinite
    <3> QED  BY <1>2, <2>1, <2>3, <3>1, FS_Singleton
  <2>5. cache[p].refs > 1  BY <1>4, <1>7, <1>9, <2>4
  <2> QED  BY <1>6, <2>2, <2>5
<1>12. ASSUME NEW q \in Hosts \ {p}
       PROVE  /\ cache'[q].refs = Cardinality(Counted(q)') + Recovery(q)'
              /\ cache'[q].handle = 0 <=> cache'[q].refs = 0
              /\ \A u \in Users(q)' : task'[u].store = cache'[q].handle
  <2>1. \A u \in Users(q) : u # t /\ u \in Tasks  BY CountedIs
  <2> QED  BY <1>2, <1>6, <1>7, <2>1 DEF Kept
<1>13. Kept'  BY <1>10, <1>11, <1>12 DEF Kept
<1> QED  BY <1>6, <1>13

-----------------------------------------------------------------------------
(* Every step keeps the lock and the counts.                               *)

LEMMA RequestKeeps ==
  ASSUME TypeOK, Standing, Held, Kept, NEW t \in Tasks,
         \/ Step(t) \/ RunEnds(t) \/ RunBreaks(t)
         \/ \E p \in Hosts, l \in Lanes, op \in {"start", "borrow"} : Ask(t, p, op, l)
  PROVE  Held' /\ Kept'
<1> DEFINE p == task[t].host
<1>1. ASSUME task[t].at \in Places \ {"none", "dead"}
      PROVE  p \in Hosts
  BY <1>1 DEF Standing, TypeOK
<1>2. CASE Opened(t)
  <2>1. PICK r \in Hosts : r = task[t].host  BY <1>1, <1>2 DEF Opened, At, Places
  <2>2. PICK h \in Handles :
          Open(r, h) /\ task' = [task EXCEPT ![t].at = "got", ![t].store = h]
    BY <1>2, <2>1 DEF Opened
  <2>3. host' = host /\ leaked' = leaked  BY <1>2 DEF Opened
  <2>4. /\ task'[t].at = "got" /\ task'[t].store = h /\ task'[t].host = r
        /\ \A u \in Tasks \ {t} : task'[u] = task[u]
    BY <2>1, <2>2 DEF TypeOK
  <2>5. /\ Held' /\ cache'[r].handle = h /\ cache'[r].refs = 1 /\ h # 0
        /\ \A q \in Hosts \ {r} : cache'[q] = cache[q]
        /\ \A q \in Hosts : Counted(q) = {} /\ host[q] # "recovering" /\ cache[q].handle = 0
    BY <2>2, OpenHolds
  <2>6. CountsOn(t)'  BY <2>4 DEF CountsOn, Using
  <2>7. /\ \A q \in Hosts \ {r} : Counted(q)' = Counted(q) /\ Users(q)' = Users(q)
        /\ Counted(r)' \ {t} = Counted(r) \ {t} /\ Users(r)' \ {t} = Users(r) \ {t}
        /\ t \in Counted(r)'
    BY <2>1, <2>3, <2>4, <2>6, OneTaskCounts
  <2>8. Counted(r)' = {t} /\ Users(r)' \subseteq {t}
    BY <2>5, <2>7, CountedIs DEF CountsOn
  <2>9. Cardinality(Counted(r)') = 1  BY <2>8, FS_Singleton
  <2>10. \A q \in Hosts : Recovery(q)' = 0 /\ Recovery(q) = 0  BY <2>3, <2>5 DEF Recovery
  <2>11. ASSUME NEW q \in Hosts \ {r}
         PROVE  /\ cache'[q].refs = Cardinality(Counted(q)') + Recovery(q)'
                /\ cache'[q].handle = 0 <=> cache'[q].refs = 0
                /\ Users(q)' = {}
    <3>1. Users(q) \subseteq Counted(q)  BY CountedIs DEF CountsOn
    <3> QED  BY <2>5, <2>7, <2>10, <3>1 DEF Kept
  <2>12. cache'[r].refs = Cardinality(Counted(r)') + Recovery(r)'
    <3>1. Recovery(r)' = 0  BY <2>10
    <3> HIDE DEF Recovery
    <3> QED  BY <2>5, <2>9, <3>1
  <2>13. cache'[r].handle = 0 <=> cache'[r].refs = 0
    BY <2>5
  <2>14. \A u \in Users(r)' : task'[u].store = cache'[r].handle
    BY <2>4, <2>5, <2>8
  <2>15. Kept'  BY <2>11, <2>12, <2>13, <2>14 DEF Kept
  <2> QED  BY <2>5, <2>15
<1>3. CASE OpenRefused(t)
  <2>1. Done(t) /\ task[t].at = "opening"  BY <1>3 DEF OpenRefused, At
  <2>2. /\ host' = host /\ cache' = cache /\ handle' = handle /\ lock' = lock /\ leaked' = leaked
    BY <1>3 DEF OpenRefused, hostVars, fileVars
  <2>3. ~CountsOn(t) /\ ~CountsOn(t)'
    BY <2>1, <2>2, DoneIs DEF CountsOn, Using, Standing
  <2>4. p \in Hosts  BY <1>1, <2>1 DEF Places
  <2> QED  BY <2>1, <2>2, <2>3, <2>4, DoneIs, SameCount DEF Using
<1>4. CASE UnknownProvider(t) \/ StartThrows(t) \/ RunBreaks(t)
  <2>1. Done(t) /\ task[t].at \in Using
    BY <1>4 DEF UnknownProvider, StartThrows, RunBreaks, At, Using
  <2>2. /\ host' = host /\ cache' = cache /\ handle' = handle /\ lock' = lock
        /\ leaked' = leaked \cup {t}
    BY <1>4 DEF UnknownProvider, StartThrows, RunBreaks, hostVars, fileVars
  <2>3. CountsOn(t) /\ CountsOn(t)'
    BY <2>1, <2>2, DoneIs DEF CountsOn
  <2>4. p \in Hosts  BY <1>1, <2>1 DEF Places, Using
  <2> QED  BY <2>1, <2>2, <2>3, <2>4, DoneIs, SameCount DEF Using
<1>5. CASE Serve(t) \/ RunReleases(t)
  <2>1. Done(t) /\ task[t].at \in Using /\ Release(p)
    BY <1>5 DEF Serve, RunReleases, At, Using
  <2>2. host' = host /\ leaked' = leaked  BY <1>5 DEF Serve, RunReleases
  <2>3. p \in Hosts  BY <1>1, <2>1 DEF Places, Using
  <2> QED  BY <2>1, <2>2, <2>3, DoneIs, UserReleases
<1>6. CASE Attach(t) \/ Register(t) \/ RunEnds(t)
  <2>1. /\ task[t].at \in Using /\ \E place \in Using : Moves(t, place)
    BY <1>6 DEF Attach, Register, RunEnds, At, Using
  <2>2. /\ host' = host /\ cache' = cache /\ handle' = handle /\ lock' = lock /\ leaked' = leaked
    BY <1>6 DEF Attach, Register, RunEnds, hostVars, fileVars
  <2>3. /\ task'[t].at \in Using /\ task'[t].host = p /\ task'[t].store = task[t].store
        /\ \A u \in Tasks \ {t} : task'[u] = task[u]
    BY <2>1, MovesTo DEF Using, Places
  <2>4. CountsOn(t) /\ CountsOn(t)'  BY <2>1, <2>3 DEF CountsOn
  <2>5. p \in Hosts  BY <1>1, <2>1 DEF Places, Using
  <2> QED  BY <2>1, <2>2, <2>3, <2>4, <2>5, SameCount
<1>7. CASE \E q \in Hosts, l \in Lanes, op \in {"start", "borrow"} : Ask(t, q, op, l)
  <2>1. PICK q \in Hosts, l \in Lanes, op \in {"start", "borrow"} : Ask(t, q, op, l)
    BY <1>7
  <2>2. /\ task[t].host = None /\ task[t].at = "none" /\ task'[t].host = q
        /\ \A u \in Tasks \ {t} : task'[u] = task[u]
        /\ host' = host /\ handle' = handle /\ lock' = lock /\ leaked' = leaked
    BY <2>1 DEF Ask, NoRequest, fileVars, TypeOK
  <2>3. ~CountsOn(t)  BY <2>2 DEF CountsOn, Using
  <2>4. CASE cache[q].handle = 0
    <3>1. cache' = cache /\ task'[t].at = "opening"  BY <2>1, <2>4 DEF Ask, TypeOK
    <3>2. ~CountsOn(t)'  BY <2>2, <3>1 DEF CountsOn, Using
    <3> QED  BY <2>2, <2>3, <3>1, <3>2, SameCount DEF Using
  <2>5. CASE cache[q].handle # 0
    <3>1. /\ cache' = [cache EXCEPT ![q].refs = @ + 1]
          /\ task'[t].at = "got" /\ task'[t].store = cache[q].handle
      BY <2>1, <2>5 DEF Ask, TypeOK
    <3>2. CountsOn(t)'  BY <3>1 DEF CountsOn, Using
    <3>3. /\ \A r \in Hosts \ {q} : Counted(r)' = Counted(r) /\ Users(r)' = Users(r)
          /\ Counted(q)' \ {t} = Counted(q) \ {t} /\ Users(q)' \ {t} = Users(q) \ {t}
          /\ t \notin Counted(q) /\ t \in Counted(q)'
      BY <2>2, <2>3, <3>2, OneTaskCounts
    <3>4. Cardinality(Counted(q)') = Cardinality(Counted(q)) + 1
      BY <3>3, CountChanges, CountedIsFinite
    <3>5. /\ \A r \in Hosts : cache'[r].handle = cache[r].handle
          /\ \A r \in Hosts \ {q} : cache'[r] = cache[r]
          /\ cache'[q].refs = cache[q].refs + 1
      BY <3>1 DEF TypeOK
    <3>6. Held'  BY <2>2, <3>5 DEF Held
    <3>7. \A r \in Hosts : Recovery(r)' = Recovery(r) /\ Recovery(r) \in {0, 1}
      BY <2>2 DEF Recovery
    <3>8. ASSUME NEW r \in Hosts \ {q}
          PROVE  /\ cache'[r].refs = Cardinality(Counted(r)') + Recovery(r)'
                 /\ cache'[r].handle = 0 <=> cache'[r].refs = 0
                 /\ \A u \in Users(r)' : task'[u].store = cache'[r].handle
      <4>1. \A u \in Users(r)' : u # t /\ u \in Tasks /\ u \in Users(r)
        BY <2>2, <3>3, CountedIs
      <4> QED  BY <2>2, <3>3, <3>5, <3>7, <4>1 DEF Kept
    <3>9. /\ cache'[q].refs = Cardinality(Counted(q)') + Recovery(q)'
          /\ cache'[q].handle = 0 <=> cache'[q].refs = 0
      <4>1. cache[q].refs = Cardinality(Counted(q)) + Recovery(q)  BY DEF Kept
      <4>2. Cardinality(Counted(q)) \in Nat  BY CountedIsFinite
      <4>3. cache[q].refs \in Nat  BY DEF TypeOK
      <4>4. cache'[q].refs = Cardinality(Counted(q)') + Recovery(q)'
        BY <3>4, <3>5, <3>7, <4>1, <4>2
      <4> QED  BY <2>5, <3>5, <4>3, <4>4
    <3>10. ASSUME NEW u \in Users(q)' PROVE task'[u].store = cache'[q].handle
      <4>1. CASE u = t  BY <3>1, <3>5, <4>1
      <4>2. CASE u # t
        <5>1. u \in Users(q) /\ u \in Tasks  BY <3>3, <4>2, CountedIs
        <5> QED  BY <2>2, <3>5, <4>2, <5>1 DEF Kept
      <4> QED  BY <4>1, <4>2
    <3>11. Kept'  BY <3>8, <3>9, <3>10 DEF Kept
    <3> QED  BY <3>6, <3>11
  <2> QED  BY <2>4, <2>5
<1> QED
  BY <1>2, <1>3, <1>4, <1>5, <1>6, <1>7 DEF Step

LEMMA ProcessKeeps ==
  ASSUME TypeOK, Standing, Held, Kept, NEW p \in Hosts,
         Process(p) \/ Beat(p) \/ Sigterm(p) \/ StopsServing(p)
  PROVE  Held' /\ Kept'
<1>1. \A q \in Hosts : Counted(q)' = Counted(q) /\ Users(q)' = Users(q)
  BY CountedSame DEF Process, Boot, BootOpens, Recovers, Beat, Sigterm, StopsServing
<1>2. task' = task
  BY DEF Process, Boot, BootOpens, Recovers, Beat, Sigterm, StopsServing
<1>3. ASSUME \A q \in Hosts : host'[q] = "recovering" <=> host[q] = "recovering",
             cache' = cache, handle' = handle, lock' = lock
      PROVE  Held' /\ Kept'
  <2>1. \A q \in Hosts : Recovery(q)' = Recovery(q)  BY <1>3 DEF Recovery
  <2> QED  BY <1>1, <1>2, <1>3, <2>1 DEF Held, Kept
<1>4. CASE Boot(p) \/ Sigterm(p) \/ StopsServing(p)
  BY <1>3, <1>4 DEF Boot, Sigterm, StopsServing, fileVars, TypeOK
<1>5. CASE BootOpens(p)
  <2>1. CASE \E h \in Handles : Open(p, h) /\ host' = [host EXCEPT ![p] = "recovering"]
    <3>1. PICK h \in Handles : Open(p, h) /\ host' = [host EXCEPT ![p] = "recovering"]
      BY <2>1
    <3>2. /\ Held' /\ cache'[p].handle = h /\ cache'[p].refs = 1 /\ h # 0
          /\ \A q \in Hosts \ {p} : cache'[q] = cache[q]
          /\ \A q \in Hosts : Counted(q) = {} /\ host[q] # "recovering" /\ cache[q].handle = 0
      BY <3>1, OpenHolds
    <3>3. Recovery(p)' = 1 /\ \A q \in Hosts \ {p} : Recovery(q)' = 0 /\ Recovery(q) = 0
      BY <3>1, <3>2 DEF Recovery, TypeOK
    <3>4. \A q \in Hosts : Counted(q)' = {} /\ Users(q)' = {}
      BY <1>1, <3>2, CountedIs DEF CountsOn
    <3>5. Cardinality({}) = 0  BY FS_EmptySet
    <3>6. \A q \in Hosts \ {p} : cache'[q].refs = 0 /\ cache'[q].handle = 0
      BY <3>2 DEF Kept
    <3>7. ASSUME NEW q \in Hosts
          PROVE  cache'[q].refs = Cardinality(Counted(q)') + Recovery(q)'
      <4>1. Cardinality(Counted(q)') = 0  BY <3>4, <3>5
      <4>2. CASE q = p
        <5>1. Recovery(q)' = 1 /\ cache'[q].refs = 1  BY <3>2, <3>3, <4>2
        <5> QED  BY <4>1, <5>1
      <4>3. CASE q # p
        <5>1. Recovery(q)' = 0 /\ cache'[q].refs = 0  BY <3>3, <3>6, <4>3
        <5> QED  BY <4>1, <5>1
      <4> QED  BY <4>2, <4>3
    <3>8. Kept'  BY <3>2, <3>4, <3>6, <3>7 DEF Kept
    <3> QED  BY <3>2, <3>8
  <2>2. CASE host' = [host EXCEPT ![p] = "up"] /\ UNCHANGED <<cache, handle, lock>>
    BY <1>3, <1>5, <2>2 DEF BootOpens, TypeOK
  <2> QED  BY <1>5, <2>1, <2>2 DEF BootOpens
<1>6. CASE Recovers(p)
  <2>1. host[p] = "recovering" /\ host' = [host EXCEPT ![p] = "up"] /\ Release(p)
    BY <1>6 DEF Recovers
  <2>2. cache[p].handle # 0  BY <2>1, NoStoreNoUsers
  <2>3. /\ Held' /\ \A q \in Hosts \ {p} : cache'[q] = cache[q]
        /\ cache[p].refs > 1 => /\ cache'[p].handle = cache[p].handle
                                /\ cache'[p].refs = cache[p].refs - 1
        /\ ~(cache[p].refs > 1) => cache'[p].handle = 0 /\ cache'[p].refs = 0
    BY <2>1, <2>2, ReleaseHolds
  <2>4. Recovery(p) = 1 /\ Recovery(p)' = 0 /\ \A q \in Hosts \ {p} : Recovery(q)' = Recovery(q)
    BY <2>1 DEF Recovery, TypeOK
  <2>5. /\ cache[p].refs = Cardinality(Counted(p)) + 1
        /\ Cardinality(Counted(p)) \in Nat
        /\ Cardinality(Counted(p)) = 0 <=> Counted(p) = {}
    BY <2>4, CountedIsFinite DEF Kept
  <2>6. /\ cache'[p].refs = Cardinality(Counted(p)') + Recovery(p)'
        /\ cache'[p].handle = 0 <=> cache'[p].refs = 0
    BY <1>1, <2>2, <2>3, <2>4, <2>5
  <2>7. ASSUME NEW u \in Users(p)' PROVE task'[u].store = cache'[p].handle
    <3>1. u \in Users(p) /\ u \in Counted(p)  BY <1>1, CountedIs DEF CountsOn
    <3>2. cache[p].refs > 1  BY <2>5, <3>1
    <3> QED  BY <1>2, <2>3, <3>1, <3>2 DEF Kept
  <2>8. Kept'  BY <1>1, <1>2, <2>3, <2>4, <2>6, <2>7 DEF Kept
  <2> QED  BY <2>3, <2>8
<1>7. CASE Beat(p)
  <2>1. cache[p].handle \in Handles /\ handle[cache[p].handle] = "open"
    BY <1>7, BoundsAssumption DEF Beat, Held, TypeOK, Handles
  <2>2. lock = [owner |-> cache[p].handle, fresh |-> TRUE]  BY <2>1 DEF Held
  <2> QED  BY <1>7, <2>2 DEF Beat
<1> QED  BY <1>4, <1>5, <1>6, <1>7 DEF Process

\* Neither does a lock that goes stale, unless it is that of an open store.
LEMMA StaleKeeps ==
  ASSUME TypeOK, Held, Kept, GoesStale
  PROVE  lapsed' \/ (Held' /\ Kept')
<1>1. SUFFICES ASSUME ~lapsed' PROVE Held' /\ Kept'
  OBVIOUS
<1>2. lock.owner \notin OpenHandles  BY <1>1 DEF GoesStale
<1>3. \A h \in Handles : handle[h] # "open"  BY <1>2 DEF Held, OpenHandles
<1>4. /\ task' = task /\ leaked' = leaked /\ host' = host /\ cache' = cache /\ handle' = handle
  BY DEF GoesStale, hostVars
<1>5. Held'  BY <1>3, <1>4 DEF Held
<1>6. \A q \in Hosts : Counted(q)' = Counted(q) /\ Users(q)' = Users(q) /\ Recovery(q)' = Recovery(q)
  BY <1>4, CountedSame DEF Recovery
<1>7. Kept'  BY <1>4, <1>6 DEF Kept
<1> QED  BY <1>5, <1>7

\* A process takes only what is its own: the store of every other stays open, and counted.
LEMMA DiesKeeps ==
  ASSUME TypeOK, Standing, Held, Kept, NEW p \in Hosts, Dies(p)
  PROVE  Held' /\ Kept'
<1>1. /\ host'[p] = "down" /\ cache'[p].handle = 0 /\ cache'[p].refs = 0
      /\ \A q \in Hosts \ {p} : host'[q] = host[q] /\ cache'[q] = cache[q]
      /\ lock' = lock /\ leaked' = leaked
  BY DEF Dies, TypeOK, NoStore
<1>2. \A t \in Tasks : IF task[t].host = p
                       THEN task'[t].at = "dead" /\ task'[t].host = None
                       ELSE task'[t] = task[t]
  BY DEF Dies, Of, NoRequest
<1>3. \A h \in Handles : handle'[h] = "open" <=>
        handle[h] = "open" /\ h # cache[p].handle /\ \A t \in Of(p) : task[t].store # h
  BY DEF Dies, TypeOK
<1>4. ASSUME NEW t \in Of(p), task[t].store # 0 PROVE task[t].store = cache[p].handle
  <2>1. t \in Users(p)  BY <1>4 DEF Standing, Users, Of, At, Using
  <2> QED  BY <2>1 DEF Kept
<1>5. \A h \in Handles : h # 0  BY BoundsAssumption DEF Handles
<1>6. \A h \in Handles : handle'[h] = "open" <=> handle[h] = "open" /\ h # cache[p].handle
  BY <1>3, <1>4, <1>5
<1>7. \A q \in Hosts : cache[q].handle # 0 => cache[q].handle \in Handles
  BY BoundsAssumption DEF TypeOK, Handles
<1>8. Held'
  <2>1. ASSUME NEW h \in Handles, handle'[h] = "open"
        PROVE  lock' = [owner |-> h, fresh |-> TRUE] /\ \E q \in Hosts : cache'[q].handle = h
    <3>1. handle[h] = "open" /\ h # cache[p].handle  BY <1>6, <2>1
    <3>2. PICK q \in Hosts : cache[q].handle = h  BY <3>1 DEF Held
    <3> QED  BY <1>1, <3>1, <3>2 DEF Held
  <2>2. ASSUME NEW q \in Hosts, cache'[q].handle # 0 PROVE handle'[cache'[q].handle] = "open"
    <3>1. q # p /\ cache'[q] = cache[q]  BY <1>1, <2>2
    <3>2. handle[cache[q].handle] = "open" /\ cache[q].handle \in Handles
      BY <1>7, <2>2, <3>1 DEF Held
    <3>3. cache[q].handle # cache[p].handle  BY <2>2, <3>1 DEF Held
    <3> QED  BY <1>6, <3>1, <3>2, <3>3
  <2>3. \A q, r \in Hosts : cache'[q].handle # 0 /\ cache'[r].handle # 0 => q = r
    BY <1>1 DEF Held
  <2> QED  BY <2>1, <2>2, <2>3 DEF Held
<1>9. \A q \in Hosts : q # None  BY BoundsAssumption
<1>10. Counted(p)' = {} /\ Users(p)' = {}  BY <1>2, <1>9, CountedIs
<1>11. ASSUME NEW q \in Hosts \ {p}
       PROVE  /\ Counted(q)' = Counted(q) /\ Users(q)' = Users(q)
              /\ \A u \in Users(q)' : task'[u] = task[u]
  <2>1. \A u \in Tasks : task'[u].host = q <=> task[u].host = q  BY <1>2, <1>9
  <2>2. \A u \in Tasks : task[u].host = q => task'[u] = task[u] /\ (CountsOn(u)' <=> CountsOn(u))
    BY <1>1, <1>2 DEF CountsOn
  <2>3. \A u : u \in Counted(q)' <=> u \in Counted(q)  BY <2>1, <2>2, CountedIs
  <2>4. \A u : u \in Users(q)' <=> u \in Users(q)  BY <2>1, <2>2, CountedIs
  <2>5. \A u \in Users(q)' : task'[u] = task[u]  BY <2>1, <2>2, CountedIs
  <2> QED  BY <2>3, <2>4, <2>5
<1>12. ASSUME NEW q \in Hosts
       PROVE  /\ cache'[q].refs = Cardinality(Counted(q)') + Recovery(q)'
              /\ cache'[q].handle = 0 <=> cache'[q].refs = 0
              /\ \A u \in Users(q)' : task'[u].store = cache'[q].handle
  <2>1. CASE q = p
    <3>1. Cardinality(Counted(q)') = 0  BY <1>10, <2>1, FS_EmptySet
    <3>2. Recovery(q)' = 0  BY <1>1, <2>1 DEF Recovery
    <3> QED  BY <1>1, <1>10, <2>1, <3>1, <3>2
  <2>2. CASE q # p
    <3>1. Recovery(q)' = Recovery(q)  BY <1>1, <2>2 DEF Recovery
    <3> QED  BY <1>1, <1>11, <2>2, <3>1 DEF Kept
  <2> QED  BY <2>1, <2>2
<1>13. Kept'  BY <1>12 DEF Kept
<1> QED  BY <1>8, <1>13

\* The lock of an open store that went stale once stays a lapse.
LEMMA LapsedStays ==
  ASSUME TypeOK, lapsed, [Next]_vars
  PROVE  lapsed'
<1>1. CASE \E t \in Tasks :
             \/ Step(t) \/ RunEnds(t) \/ RunBreaks(t)
             \/ \E p \in Hosts, l \in Lanes, op \in {"start", "borrow"} : Ask(t, p, op, l)
  BY <1>1 DEF Step, Opened, OpenRefused, Serve, UnknownProvider, Attach, StartThrows, Register,
              RunReleases, RunEnds, RunBreaks, Ask
<1>2. CASE \E p \in Hosts : Process(p) \/ Beat(p) \/ Sigterm(p) \/ StopsServing(p) \/ Exit(p) \/ Kill(p)
  BY <1>2 DEF Process, Boot, BootOpens, Recovers, Beat, Sigterm, StopsServing, Exit, Kill, Dies
<1>3. CASE GoesStale  BY <1>3 DEF GoesStale
<1>4. CASE UNCHANGED vars  BY <1>4 DEF vars
<1> QED  BY <1>1, <1>2, <1>3, <1>4 DEF Next

LEMMA InvStep == Inv /\ [Next]_vars => Inv'
<1> SUFFICES ASSUME Inv, [Next]_vars PROVE Inv'  OBVIOUS
<1> DEFINE Good == Held /\ Kept
<1>1. TypeOK /\ Standing /\ (lapsed \/ Good)  BY DEF Inv
<1>2. lapsed => lapsed'  BY <1>1, LapsedStays
<1> SUFFICES TypeOK' /\ Standing' /\ (Good => lapsed' \/ Good')
  BY <1>1, <1>2 DEF Inv
<1>3. CASE \E t \in Tasks :
             \/ Step(t) \/ RunEnds(t) \/ RunBreaks(t)
             \/ \E p \in Hosts, l \in Lanes, op \in {"start", "borrow"} : Ask(t, p, op, l)
  <2>1. PICK t \in Tasks :
             \/ Step(t) \/ RunEnds(t) \/ RunBreaks(t)
             \/ \E p \in Hosts, l \in Lanes, op \in {"start", "borrow"} : Ask(t, p, op, l)
    BY <1>3
  <2>2. TypeOK'  BY <1>1, <2>1, RequestType
  <2>3. Standing'  BY <1>1, <2>1, RequestStanding
  <2>4. Good => Good'  BY <1>1, <2>1, RequestKeeps
  <2> QED  BY <2>2, <2>3, <2>4
<1>4. CASE \E p \in Hosts : Process(p) \/ Beat(p) \/ Sigterm(p) \/ StopsServing(p)
  <2>1. PICK p \in Hosts : Process(p) \/ Beat(p) \/ Sigterm(p) \/ StopsServing(p)
    BY <1>4
  <2>2. TypeOK' /\ Standing'  BY <1>1, <2>1, ProcessType, ProcessStanding
  <2>3. Good => Good'  BY <1>1, <2>1, ProcessKeeps
  <2> QED  BY <2>2, <2>3
<1>5. CASE \E p \in Hosts : Exit(p) \/ Kill(p)
  <2>1. PICK p \in Hosts : Dies(p)  BY <1>5 DEF Exit, Kill
  <2>2. TypeOK' /\ Standing'  BY <1>1, <2>1, ProcessType, ProcessStanding
  <2>3. Good => Good'  BY <1>1, <2>1, DiesKeeps
  <2> QED  BY <2>2, <2>3
<1>6. CASE GoesStale
  <2>1. TypeOK'
    <3>1. lock' \in [owner : 0 .. MaxOpens, fresh : BOOLEAN]  BY <1>1, <1>6 DEF GoesStale, TypeOK
    <3>2. lapsed' \in BOOLEAN  BY <1>6 DEF GoesStale
    <3> QED  BY <1>1, <1>6, <3>1, <3>2 DEF GoesStale, hostVars, TypeOK
  <2>2. Standing'  BY <1>1, <1>6 DEF GoesStale, hostVars, Standing
  <2> QED  BY <1>1, <1>6, <2>1, <2>2, StaleKeeps
<1>7. CASE UNCHANGED vars
  <2>1. /\ host' = host /\ cache' = cache /\ runs' = runs /\ awaited' = awaited /\ task' = task
        /\ handle' = handle /\ lock' = lock /\ leaked' = leaked /\ lapsed' = lapsed
    BY <1>7 DEF vars, hostVars, fileVars
  <2>2. \A q \in Hosts : Counted(q)' = Counted(q) /\ Users(q)' = Users(q) /\ Recovery(q)' = Recovery(q)
    BY <2>1, CountedSame DEF Recovery
  <2>3. TypeOK' /\ Standing'  BY <1>1, <2>1 DEF TypeOK, Standing
  <2>4. Held => Held'  BY <2>1 DEF Held
  <2>5. Kept => Kept'  BY <2>1, <2>2 DEF Kept
  <2> QED  BY <2>3, <2>4, <2>5
<1> QED  BY <1>3, <1>4, <1>5, <1>6, <1>7 DEF Next

THEOREM Invariance == Spec => []Inv
BY InitInv, InvStep, PTL DEF Spec

-----------------------------------------------------------------------------
(* The properties.                                                         *)

\* A session never has two writers, unless the lock of an open store went stale
\* (store.ts:146): the open store is the one that the lock names.
THEOREM OneWriterHolds == Spec => []OneWriter
<1>1. Inv => OneWriter
  <2> SUFFICES ASSUME Inv, ~lapsed PROVE Cardinality(OpenHandles) <= 1  BY DEF OneWriter
  <2>1. OpenHandles \subseteq {lock.owner}  BY DEF Inv, Held, OpenHandles
  <2>2. IsFiniteSet({lock.owner}) /\ Cardinality({lock.owner}) = 1  BY FS_Singleton
  <2>3. Cardinality(OpenHandles) \leq Cardinality({lock.owner})  BY <2>1, <2>2, FS_Subset
  <2> QED  BY <2>2, <2>3
<1> QED  BY <1>1, Invariance, PTL

\* The references of a cached store are its users and the leaks, and its users use it, open
\* (supervisor.ts:437): no lane's end closes the store under another lane.
THEOREM ReferencesCounted == Spec => []RefsAreCounted
<1>1. Inv => RefsAreCounted
  <2> SUFFICES ASSUME Inv, ~lapsed, NEW p \in Hosts
               PROVE  /\ cache[p].refs = Cardinality(Counted(p)) + Recovery(p)
                      /\ \A h \in OpenHandles : \E q \in Hosts : cache[q].handle = h
                      /\ \A t \in Users(p) :
                           task[t].store = cache[p].handle /\ handle[task[t].store] = "open"
    BY DEF RefsAreCounted, Counted, Recovery
  <2>1. \A h \in OpenHandles : \E q \in Hosts : cache[q].handle = h
    BY DEF Inv, Held, OpenHandles
  <2>2. ASSUME NEW t \in Users(p)
        PROVE  task[t].store = cache[p].handle /\ handle[task[t].store] = "open"
    <3>1. t \in Counted(p)  BY DEF Counted
    <3>2. cache[p].handle # 0  BY <3>1, NoStoreNoUsers DEF Inv
    <3> QED  BY <3>2 DEF Inv, Kept, Held
  <2> QED  BY <2>1, <2>2 DEF Inv, Kept
<1> QED  BY <1>1, Invariance, PTL

\* A graceful exit leaves no store open behind it, and so no lock (store.ts:470), but for a
\* leaked reference or a run that was started while the process shut down: when everything
\* it waits for is done and no request is under way, nothing counts on the store.
THEOREM ExitsClean == Spec => CleanExit
<1> DEFINE Clean(p) == \/ \A h \in Handles : handle'[h] # "lost" \/ handle[h] = "lost"
                       \/ lapsed \/ leaked # {}
                       \/ \E t \in Of(p) \ awaited[p] : At(t, {"running", "ending"})
<1>1. ASSUME Inv, NEW p \in Hosts, Exit(p) PROVE Clean(p)
  <2> SUFFICES ASSUME ~lapsed, leaked = {},
                      \A t \in Of(p) \ awaited[p] : ~At(t, {"running", "ending"}),
                      NEW h \in Handles, handle'[h] = "lost"
               PROVE  handle[h] = "lost"
    OBVIOUS
  <2>1. \A t \in Of(p) : task[t].at \notin Using
    <3>1. \A t \in awaited[p] : task[t].at = "done"  BY <1>1 DEF Exit, Inv, Standing
    <3>2. \A t \in Of(p) : ~At(t, Requested)  BY <1>1 DEF Exit
    <3> QED  BY <3>1, <3>2 DEF At, Requested, Using
  <2>2. Counted(p) = {}  BY <2>1 DEF Counted, Users, At, Using
  <2>3. Recovery(p) = 0  BY <1>1 DEF Exit, Recovery
  <2>4. cache[p].refs = 0
    <3>1. cache[p].refs = Cardinality(Counted(p)) + Recovery(p)  BY <1>1 DEF Inv, Kept
    <3>2. Cardinality(Counted(p)) = 0  BY <2>2, FS_EmptySet
    <3> QED  BY <2>3, <3>1, <3>2
  <2>5. cache[p].handle = 0  BY <1>1, <2>4 DEF Inv, Kept
  <2>6. \A t \in Of(p) : task[t].store = 0  BY <1>1, <2>1 DEF Inv, Standing, Of
  <2>7. h # 0  BY BoundsAssumption DEF Handles
  <2> QED  BY <1>1, <2>5, <2>6, <2>7 DEF Exit, Dies
<1>2. Inv /\ [Next]_vars =>
        [\A p \in Hosts : Exit(p) =>
           \/ \A h \in Handles : handle'[h] # "lost" \/ handle[h] = "lost"
           \/ lapsed \/ leaked # {} \/ \E t \in Of(p) \ awaited[p] : At(t, {"running", "ending"})]_vars
  BY <1>1
<1> QED  BY <1>2, Invariance, PTL DEF Spec, CleanExit

=============================================================================
