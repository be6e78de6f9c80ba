--------------------------- MODULE WorktreesProofs ---------------------------
(***************************************************************************)
(* What stopping a run, rejecting it and reviewing it beside others come   *)
(* to, for any lanes, paths, runs and calls.                               *)
(*                                                                         *)
(* A command alone in its registry is the child its registry remembers     *)
(* (Commands).  A lane has one run at work or under review, its newest, so *)
(* that what is on the branch was approved (Trees), and an approval is the *)
(* end of the branch until the next one (Branches).                        *)
(***************************************************************************)
EXTENDS Worktrees, SequenceTheorems, TLAPS

Stages   == {"none", "running", "killed"}
Commands == [st : Stages, listens : BOOLEAN, armed : BOOLEAN, told : BOOLEAN, mixed : BOOLEAN]
Contents == Runs \cup {Old, Absent, Link, Dangling}
Statuses == {"none", "running", "awaiting_review", "completed_clean", "failed", "superseded",
             "approved", "rejected"}

Records  == [lane : Lanes \cup {"none"}, status : Statuses, base : Nat, top : Nat, own : BOOLEAN]

TypeOK ==
  /\ run \in [Runs -> Records]
  /\ \A r \in Started : run[r].lane \in Lanes
  /\ aborted \subseteq Runs /\ own \subseteq Lanes /\ left \subseteq Lanes
  /\ tree \in [Lanes -> [Paths -> Contents]]
  /\ branch \in [Lanes -> Seq([Paths -> Contents])]
  /\ current \in [0 .. MaxRuns -> 0 .. MaxRuns]
  /\ command \in [Runs -> Commands]

-----------------------------------------------------------------------------
(* The inductive invariant.                                                *)

Busy(r)   == command[r].st # "none"
Active(r) == run[r].status \in {"running", "awaiting_review"}

\* A registry remembers a command that runs, and forgets none that is alone.
Children ==
  /\ \A r \in Runs : ~Busy(r) => command[r] = Idle
  /\ \A r \in Runs : Busy(r) => Live(r)
  /\ \A r, q \in Runs : r # q /\ Busy(r) /\ Busy(q) /\ Registry(r) = Registry(q) => command[r].mixed
  /\ \A k \in 0 .. MaxRuns : current[k] # NoRun =>
       Registry(current[k]) = k /\ command[current[k]].st = "running"
  /\ \A r \in Runs : command[r].st = "running" /\ ~command[r].mixed => current[Registry(r)] = r

\* Runs are started in order, and only the newest of a lane is at work or under review.
Newest ==
  /\ \A r \in Started : \A q \in Runs : q < r => q \in Started
  /\ \A r \in Runs : Active(r) =>
       \A q \in Started : run[q].lane = run[r].lane => q <= r

\* What the runs of a lane have written: nothing of a rejected one is left, and what is
\* committed is nobody's to reject.
Trees ==
  \A l \in Lanes \ own : \A p \in Paths \ Ignored :
    /\ tree[l][p] \in Runs =>
         run[tree[l][p]].status \notin {"none", "rejected"} /\ run[tree[l][p]].lane = l
    /\ HeadOf(l)[p] \in Runs =>
         /\ run[HeadOf(l)[p]].status \notin {"none", "running", "awaiting_review", "rejected"}
         /\ run[HeadOf(l)[p]].lane = l

\* A write that left the worktree went through a dangling link, or a process was left behind
\* in that lane.
Escapes == \A r \in outside : r \in Started /\ (r \in through \/ run[r].lane \in left)

\* The branch grows, and its end is what the last approval made of it.
Branches ==
  /\ \A r \in Started : run[r].base \in 1 .. Len(branch[run[r].lane])
  /\ \A r \in Runs : run[r].status = "approved" => run[r].top \in 1 .. Len(branch[run[r].lane])
  /\ \A r \in Runs :
       /\ run[r].status = "approved" /\ run[r].lane \notin own
       /\ \A q \in InLane(run[r].lane, {"approved"}) : q <= r
       => run[r].top = Len(branch[run[r].lane])

Inv == TypeOK /\ Children /\ CommandsAreStopped /\ Newest /\ Trees /\ Branches /\ Escapes

-----------------------------------------------------------------------------
(* Commands.                                                               *)

LEMMA RegistryIs ==
  ASSUME TypeOK, NEW r \in Runs
  PROVE  Registry(r) \in 0 .. MaxRuns /\ r \in 0 .. MaxRuns /\ r # NoRun
<1>1. MaxRuns \in Nat  BY PathsAssumption
<1> QED  BY <1>1 DEF Registry, Runs, NoRun

LEMMA KilledIs ==
  ASSUME TypeOK, Children, NEW k \in 0 .. MaxRuns
  PROVE  /\ Killed(k) \in [Runs -> Commands]
         /\ \A q \in Runs : Killed(k)[q] = IF current[k] = q THEN [command[q] EXCEPT !.st = "killed"]
                                           ELSE command[q]
<1>1. command \in [Runs -> Commands] /\ current[k] \in 0 .. MaxRuns /\ MaxRuns \in Nat
  BY PathsAssumption DEF TypeOK
<1>2. CASE current[k] = NoRun
  BY <1>1, <1>2, RegistryIs DEF Killed
<1>3. CASE current[k] # NoRun
  <2>1. current[k] \in Runs  BY <1>1, <1>3 DEF Runs, NoRun
  <2>2. command[current[k]].st = "running"  BY <1>3 DEF Children
  <2>3. Killed(k) = [command EXCEPT ![current[k]].st = "killed"]  BY <1>3, <2>2 DEF Killed
  <2>4. [command[current[k]] EXCEPT !.st = "killed"] \in Commands  BY <1>1, <2>1 DEF Commands, Stages
  <2> QED  BY <1>1, <2>1, <2>3, <2>4
<1> QED  BY <1>2, <1>3

\* A run's command is told to stop, and its registry kills the child it remembers.
Stopped(r) ==
  /\ current' = [current EXCEPT ![Registry(r)] = NoRun]
  /\ command' \in [Runs -> Commands]
  /\ \A q \in Runs : /\ command'[q].st = IF current[Registry(r)] = q THEN "killed" ELSE command[q].st
                     /\ command'[q].mixed = command[q].mixed
                     /\ q # r => command'[q].told = command[q].told
                     /\ q # r /\ current[Registry(r)] # q => command'[q] = command[q]
  /\ command'[r].told

LEMMA StoppedIs ==
  ASSUME TypeOK, Children, CommandsAreStopped, NEW r \in Runs, Busy(r), Stopped(r), run' = run
  PROVE  Children' /\ CommandsAreStopped' /\ current' \in [0 .. MaxRuns -> 0 .. MaxRuns]
<1> DEFINE k == Registry(r)
<1>1. k \in 0 .. MaxRuns /\ current \in [0 .. MaxRuns -> 0 .. MaxRuns] /\ MaxRuns \in Nat
  BY RegistryIs, PathsAssumption DEF TypeOK
<1>2. /\ current' \in [0 .. MaxRuns -> 0 .. MaxRuns] /\ current'[k] = NoRun
      /\ \A j \in 0 .. MaxRuns : j # k => current'[j] = current[j]
  BY <1>1 DEF Stopped, NoRun
<1>3. \A q \in Runs : Registry(q)' = Registry(q) /\ Live(q)' = Live(q)  BY DEF Registry, Live
<1>4. \A q \in Runs : current[k] = q => Registry(q) = k /\ command[q].st = "running"
  BY <1>1, RegistryIs DEF Children
<1>5. \A q \in Runs : Busy(q)' <=> Busy(q)  BY <1>4 DEF Busy, Stopped
<1>6. \A q \in Runs : q # r /\ current[k] = q => command[q].mixed  BY <1>4 DEF Children, Busy
<1>7. \A q \in Runs : ~Busy(q)' => command'[q] = Idle
  BY <1>4, <1>5 DEF Children, Stopped, Busy
<1>8. \A q \in Runs : Busy(q)' => Live(q)'  BY <1>3, <1>5 DEF Children
<1>9. \A p, q \in Runs : p # q /\ Busy(p)' /\ Busy(q)' /\ Registry(p)' = Registry(q)' => command'[p].mixed
  BY <1>3, <1>5 DEF Children, Stopped
<1>10. ASSUME NEW j \in 0 .. MaxRuns, current'[j] # NoRun
       PROVE  /\ current'[j] = current[j] /\ current[j] \in Runs /\ Registry(current[j]) = j
              /\ command'[current[j]].st = "running"
  <2>1. j # k /\ current'[j] = current[j]  BY <1>2, <1>10
  <2>2. current[j] \in Runs  BY <1>1, <1>10, <2>1 DEF Runs, NoRun
  <2>3. Registry(current[j]) = j /\ command[current[j]].st = "running"  BY <1>10, <2>1 DEF Children
  <2>4. current[k] # current[j]  BY <1>4, <2>1, <2>2, <2>3
  <2>5. command'[current[j]].st = command[current[j]].st  BY <2>2, <2>4 DEF Stopped
  <2> QED  BY <2>1, <2>2, <2>3, <2>5
<1>11. ASSUME NEW q \in Runs, command'[q].st = "running", ~command'[q].mixed
       PROVE  current'[Registry(q)] = q
  <2>1. command[q].st = "running" /\ ~command[q].mixed /\ current[k] # q  BY <1>11 DEF Stopped
  <2>2. current[Registry(q)] = q  BY <2>1 DEF Children
  <2> QED  BY <1>2, <2>1, <2>2, RegistryIs
<1>12. Children'
  <2>1. \A j \in 0 .. MaxRuns : current'[j] # NoRun =>
          /\ (IF run'[current'[j]].own THEN current'[j] ELSE NoRun) = j
          /\ command'[current'[j]].st = "running"
    BY <1>10 DEF Registry
  <2>2. \A q \in Runs : command'[q].st = "running" /\ ~command'[q].mixed
                          => current'[IF run'[q].own THEN q ELSE NoRun] = q
    BY <1>11 DEF Registry
  <2> QED  BY <1>3, <1>7, <1>8, <1>9, <2>1, <2>2 DEF Children, Registry
<1>13. CommandsAreStopped'
  <2> SUFFICES ASSUME NEW q \in Runs, ~command'[q].mixed
               PROVE  /\ command'[q].st = "running" => ~command'[q].told
                      /\ command'[q].st = "killed" => command'[q].told
    BY DEF CommandsAreStopped
  <2>1. ~command[q].mixed  BY DEF Stopped
  <2>2. CASE q = r
    <3>1. command[r].st = "running" => current[k] = r  BY <2>1, <2>2 DEF Children
    <3> QED  BY <2>2, <3>1 DEF Stopped
  <2>3. CASE q # r  BY <1>6, <2>1, <2>3 DEF Stopped, CommandsAreStopped
  <2> QED  BY <2>2, <2>3
<1> QED  BY <1>2, <1>12, <1>13

\* An interrupt that its command hears, or a timeout.
LEMMA StopStep ==
  ASSUME TypeOK, Children, CommandsAreStopped, NEW r \in Runs, Interrupt(r) \/ TimeOut(r)
  PROVE  /\ Children' /\ CommandsAreStopped' /\ current' \in [0 .. MaxRuns -> 0 .. MaxRuns]
         /\ command' \in [Runs -> Commands] /\ aborted' \subseteq Runs
         /\ UNCHANGED <<run, tree>>
<1> DEFINE k == Registry(r)
<1>1. k \in 0 .. MaxRuns  BY RegistryIs
<1>2. /\ Killed(k) \in [Runs -> Commands]
      /\ \A q \in Runs : Killed(k)[q] = IF current[k] = q THEN [command[q] EXCEPT !.st = "killed"]
                                        ELSE command[q]
  BY <1>1, KilledIs
<1>3. /\ UNCHANGED <<run, tree>> /\ aborted' \subseteq Runs
  BY DEF Interrupt, TimeOut, TypeOK
<1>4. command[r].listens \/ command[r].armed => Busy(r)
  BY DEF Children, Idle
<1>5. ASSUME Stop(r) \/ command' = [Killed(k) EXCEPT ![r].told = TRUE, ![r].armed = FALSE],
             current' = [current EXCEPT ![k] = NoRun]
      PROVE  Stopped(r)
  <2>1. PICK new : /\ new \in Commands /\ new.told /\ new.mixed = Killed(k)[r].mixed
                   /\ new.st = Killed(k)[r].st /\ command' = [Killed(k) EXCEPT ![r] = new]
    <3>1. Killed(k)[r] \in Commands  BY <1>2
    <3>2. CASE Stop(r)
      <4> DEFINE new == [Killed(k)[r] EXCEPT !.told = TRUE, !.listens = FALSE]
      <4>1. command' = [Killed(k) EXCEPT ![r] = new]  BY <1>2, <3>2 DEF Stop
      <4>2. new \in Commands /\ new.told /\ new.mixed = Killed(k)[r].mixed /\ new.st = Killed(k)[r].st
        BY <3>1 DEF Commands
      <4> QED  BY <4>1, <4>2
    <3>3. CASE command' = [Killed(k) EXCEPT ![r].told = TRUE, ![r].armed = FALSE]
      <4> DEFINE new == [Killed(k)[r] EXCEPT !.told = TRUE, !.armed = FALSE]
      <4>1. command' = [Killed(k) EXCEPT ![r] = new]  BY <1>2, <3>3
      <4>2. new \in Commands /\ new.told /\ new.mixed = Killed(k)[r].mixed /\ new.st = Killed(k)[r].st
        BY <3>1 DEF Commands
      <4> QED  BY <4>1, <4>2
    <3> QED  BY <1>5, <3>2, <3>3
  <2>2. command' \in [Runs -> Commands] /\ command'[r] = new
        /\ \A q \in Runs : q # r => command'[q] = Killed(k)[q]
    BY <1>2, <2>1
  <2>3. \A q \in Runs : command[q] \in Commands  BY DEF TypeOK
  <2> HIDE DEF k
  <2>4. \A q \in Runs : /\ Killed(k)[q].st = IF current[k] = q THEN "killed" ELSE command[q].st
                        /\ Killed(k)[q].mixed = command[q].mixed
                        /\ Killed(k)[q].told = command[q].told
    BY <1>2, <2>3 DEF Commands
  <2> QED  BY <1>2, <1>5, <2>1, <2>2, <2>4 DEF Stopped, k
<1>6. CASE Interrupt(r)
  <2>1. CASE command[r].listens
    <3>1. Stop(r) /\ current' = [current EXCEPT ![k] = NoRun]  BY <1>6, <2>1 DEF Interrupt, Stop
    <3>2. Stopped(r) /\ Busy(r)  BY <1>4, <1>5, <2>1, <3>1
    <3> QED  BY <1>3, <3>2, StoppedIs DEF Stopped
  <2>2. CASE ~command[r].listens
    <3>1. UNCHANGED <<current, command>>  BY <1>6, <2>2 DEF Interrupt
    <3> QED
      BY <1>3, <3>1 DEF TypeOK, Children, CommandsAreStopped, Busy, Live, Registry
  <2> QED  BY <2>1, <2>2
<1>7. CASE TimeOut(r)
  <2>1. /\ command[r].armed /\ current' = [current EXCEPT ![k] = NoRun]
        /\ command' = [Killed(k) EXCEPT ![r].told = TRUE, ![r].armed = FALSE]
    BY <1>7 DEF TimeOut
  <2>2. Stopped(r) /\ Busy(r)  BY <1>4, <1>5, <2>1
  <2> QED  BY <1>3, <2>2, StoppedIs DEF Stopped
<1> QED  BY <1>6, <1>7

\* A call of bash marks every command that runs beside it, and touches no other.
LEMMA BashMarks ==
  ASSUME TypeOK, Children, NEW r \in Runs, Bash(r)
  PROVE  /\ ~Busy(r) /\ Live(r) /\ command' \in [Runs -> Commands]
         /\ \A q \in Sharing(r) : command'[q].mixed /\ Busy(q) /\ Busy(q)'
         /\ \A q \in Runs \ {r} : q \notin Sharing(r) => command'[q] = command[q]
         /\ \/ /\ current' = [current EXCEPT ![Registry(r)] = r]
               /\ command'[r].st = "running" /\ ~command'[r].told
               /\ Sharing(r) # {} => command'[r].mixed
            \/ /\ current' = [current EXCEPT ![Registry(r)] = NoRun]
               /\ command'[r] = command[r]
         /\ UNCHANGED <<run, aborted, tree>>
<1> DEFINE k == Registry(r)
<1>1. k \in 0 .. MaxRuns  BY RegistryIs
<1>2. /\ Killed(k) \in [Runs -> Commands]
      /\ \A q \in Runs : Killed(k)[q] = IF current[k] = q THEN [command[q] EXCEPT !.st = "killed"]
                                        ELSE command[q]
  BY <1>1, KilledIs
<1>3. command \in [Runs -> Commands] /\ Sharing(r) \subseteq Runs \ {r}  BY DEF TypeOK, Sharing
<1>4. \A q \in Runs : current[k] = q => q # r /\ q \in Sharing(r)
  <2> SUFFICES ASSUME NEW q \in Runs, current[k] = q  PROVE q # r /\ q \in Sharing(r)
    OBVIOUS
  <2>1. Registry(q) = k /\ command[q].st = "running"  BY <1>1, RegistryIs DEF Children
  <2> QED  BY <2>1 DEF Bash, Sharing
<1>5. ~Busy(r) /\ Live(r) /\ UNCHANGED <<run, aborted, tree>>  BY DEF Bash, Busy
<1>6. PICK restart, given \in BOOLEAN :
        LET before == IF restart THEN Killed(k) ELSE command
            met    == [q \in Runs |-> IF q \in Sharing(r) THEN [before[q] EXCEPT !.mixed = TRUE]
                                                          ELSE before[q]]
        IN  /\ command' =
                 IF given
                 THEN [met EXCEPT ![r] = [st |-> "running", listens |-> r \notin aborted,
                                          armed |-> TRUE, told |-> FALSE,
                                          mixed |-> Sharing(r) # {}]]
                 ELSE met
            /\ current' = [current EXCEPT ![k] = IF given THEN r ELSE NoRun]
  BY DEF Bash
<1> DEFINE before == IF restart THEN Killed(k) ELSE command
           met    == [q \in Runs |-> IF q \in Sharing(r) THEN [before[q] EXCEPT !.mixed = TRUE]
                                                         ELSE before[q]]
           new    == [st |-> "running", listens |-> r \notin aborted, armed |-> TRUE,
                      told |-> FALSE, mixed |-> Sharing(r) # {}]
<1>7. /\ before \in [Runs -> Commands] /\ \A q \in Runs : q \notin Sharing(r) => before[q] = command[q]
      /\ \A q \in Sharing(r) : before[q].st # "none"
  <2>1. \A q \in Sharing(r) : command[q].st # "none" /\ command[q] \in Commands
    BY <1>3 DEF Sharing
  <2>2. \A q \in Sharing(r) : Killed(k)[q].st # "none"  BY <1>2, <1>3, <2>1 DEF Commands
  <2> QED  BY <1>2, <1>3, <1>4, <2>1, <2>2
<1>8. command' = (IF given THEN [met EXCEPT ![r] = new] ELSE met)
      /\ current' = [current EXCEPT ![k] = IF given THEN r ELSE NoRun]
  BY <1>6
<1> HIDE DEF before
<1>9. /\ met \in [Runs -> Commands]
      /\ \A q \in Sharing(r) : met[q].mixed /\ met[q].st # "none"
      /\ \A q \in Runs : q \notin Sharing(r) => met[q] = command[q]
  <2>1. \A q \in Runs : [before[q] EXCEPT !.mixed = TRUE] \in Commands
                        /\ [before[q] EXCEPT !.mixed = TRUE].mixed
                        /\ [before[q] EXCEPT !.mixed = TRUE].st = before[q].st
    BY <1>7 DEF Commands
  <2>2. \A q \in Runs : met[q] = IF q \in Sharing(r) THEN [before[q] EXCEPT !.mixed = TRUE] ELSE before[q]
    OBVIOUS
  <2>3. \A q \in Runs : met[q] \in Commands  BY <1>7, <2>1, <2>2
  <2> QED  BY <1>3, <1>7, <2>1, <2>2, <2>3
<1>10. new \in Commands /\ new.st = "running" /\ ~new.told /\ (Sharing(r) # {} => new.mixed)
  <2>1. (r \notin aborted) \in BOOLEAN /\ (Sharing(r) # {}) \in BOOLEAN  OBVIOUS
  <2> QED  BY <2>1 DEF Commands, Stages
<1> HIDE DEF met, new
<1>11. \A q \in Sharing(r) : Busy(q)  BY DEF Sharing, Busy
<1>12. r \notin Sharing(r)  BY DEF Sharing
<1>13. CASE given
  BY <1>3, <1>5, <1>8, <1>9, <1>10, <1>11, <1>12, <1>13 DEF Busy
<1>14. CASE ~given
  BY <1>3, <1>5, <1>8, <1>9, <1>10, <1>11, <1>12, <1>14 DEF Busy
<1> QED  BY <1>13, <1>14

LEMMA BashStep ==
  ASSUME TypeOK, Children, CommandsAreStopped, NEW r \in Runs, Bash(r)
  PROVE  Children' /\ CommandsAreStopped' /\ current' \in [0 .. MaxRuns -> 0 .. MaxRuns]
<1> DEFINE k == Registry(r)
<1>0. NoRun \in 0 .. MaxRuns  BY PathsAssumption DEF NoRun
<1>1. k \in 0 .. MaxRuns /\ r \in 0 .. MaxRuns /\ r # NoRun /\ NoRun \in 0 .. MaxRuns
      /\ current \in [0 .. MaxRuns -> 0 .. MaxRuns]
  BY <1>0, RegistryIs DEF TypeOK
<1>2. /\ ~Busy(r) /\ Live(r) /\ run' = run
      /\ \A q \in Sharing(r) : command'[q].mixed /\ Busy(q) /\ Busy(q)'
      /\ \A q \in Runs \ {r} : q \notin Sharing(r) => command'[q] = command[q]
      /\ \/ /\ current' = [current EXCEPT ![k] = r]
            /\ command'[r].st = "running" /\ ~command'[r].told
            /\ Sharing(r) # {} => command'[r].mixed
         \/ /\ current' = [current EXCEPT ![k] = NoRun]
            /\ command'[r] = command[r]
  BY BashMarks
<1>3. \A q \in Runs : Registry(q)' = Registry(q) /\ Live(q)' = Live(q)  BY <1>2 DEF Registry, Live
<1>4. \A q \in Runs \ {r} : q \in Sharing(r) <=> Registry(q) = k /\ Busy(q)
  BY DEF Sharing, Busy
<1>5. current' \in [0 .. MaxRuns -> 0 .. MaxRuns] /\ (current'[k] = NoRun \/ current'[k] = r)
      /\ \A j \in 0 .. MaxRuns : j # k => current'[j] = current[j]
  BY <1>1, <1>2
<1> HIDE DEF k
<1>6. \A q \in Runs \ {r} : Busy(q)' => Busy(q)
  BY <1>2 DEF Busy
<1>7. \A q \in Runs : ~Busy(q)' => command'[q] = Idle
  <2> SUFFICES ASSUME NEW q \in Runs, ~Busy(q)'  PROVE command'[q] = Idle
    OBVIOUS
  <2>1. CASE q = r  BY <1>2, <2>1 DEF Children, Busy
  <2>2. CASE q # r /\ q \notin Sharing(r)  BY <1>2, <2>2 DEF Children, Busy
  <2>3. CASE q # r /\ q \in Sharing(r)  BY <1>2, <2>3
  <2> QED  BY <2>1, <2>2, <2>3
<1>8. \A q \in Runs : Busy(q)' => Live(q)'
  BY <1>2, <1>3, <1>6 DEF Children
<1>9. \A p, q \in Runs : p # q /\ Busy(p)' /\ Busy(q)' /\ Registry(p)' = Registry(q)'
                           => command'[p].mixed
  <2> SUFFICES ASSUME NEW p \in Runs, NEW q \in Runs, p # q, Busy(p)', Busy(q)',
                      Registry(p)' = Registry(q)'
               PROVE  command'[p].mixed
    OBVIOUS
  <2>1. CASE p = r
    <3>1. q \in Sharing(r)  BY <1>3, <1>4, <1>6, <2>1 DEF k
    <3>2. command'[r].st # "none"  BY <2>1 DEF Busy
    <3> QED  BY <1>2, <2>1, <3>1, <3>2 DEF Busy
  <2>2. CASE q = r
    <3>1. p \in Sharing(r)  BY <1>3, <1>4, <1>6, <2>2 DEF k
    <3> QED  BY <1>2, <3>1
  <2>3. CASE p # r /\ q # r /\ p \notin Sharing(r)
    <3>1. Busy(p) /\ Busy(q) /\ Registry(p) = Registry(q)  BY <1>3, <1>6, <2>3
    <3>2. command[p].mixed  BY <3>1 DEF Children
    <3> QED  BY <1>2, <2>3, <3>2
  <2>4. CASE p \in Sharing(r)  BY <1>2, <2>4
  <2> QED  BY <2>1, <2>2, <2>3, <2>4
<1>10. ASSUME NEW j \in 0 .. MaxRuns, NEW c, c = current'[j], c # NoRun
       PROVE  Registry(c) = j /\ command'[c].st = "running"
  <2>1. CASE j = k  BY <1>2, <1>5, <1>10, <2>1 DEF k, Children, Busy
  <2>2. CASE j # k
    <3>1. c = current[j]  BY <1>5, <1>10, <2>2
    <3>2. Registry(c) = j /\ command[c].st = "running" /\ c \in Runs
      BY <1>1, <1>10, <3>1 DEF Children, Runs, NoRun
    <3>3. c \notin Sharing(r) /\ c # r  BY <1>2, <2>2, <3>2 DEF k, Sharing, Busy
    <3> QED  BY <1>2, <3>2, <3>3
  <2> QED  BY <2>1, <2>2
<1>11. ASSUME NEW q \in Runs, command'[q].st = "running", ~command'[q].mixed
       PROVE  current'[Registry(q)] = q
  <2>1. CASE q = r  BY <1>1, <1>2, <1>11, <2>1 DEF k, Busy
  <2>2. CASE q # r
    <3>1. q \notin Sharing(r)  BY <1>2, <1>11, <2>2
    <3>2. command'[q] = command[q]  BY <1>2, <2>2, <3>1
    <3>3. Busy(q) /\ current[Registry(q)] = q /\ Registry(q) # k
      BY <1>4, <1>11, <2>2, <3>1, <3>2 DEF Children, Busy
    <3> QED  BY <1>5, <3>3, RegistryIs
  <2> QED  BY <2>1, <2>2
<1>12. Children'
  <2>1. \A j \in 0 .. MaxRuns : current'[j] # NoRun =>
          /\ (IF run'[current'[j]].own THEN current'[j] ELSE NoRun) = j
          /\ command'[current'[j]].st = "running"
    BY <1>2, <1>10 DEF Registry
  <2>2. \A q \in Runs : command'[q].st = "running" /\ ~command'[q].mixed
                          => current'[IF run'[q].own THEN q ELSE NoRun] = q
    BY <1>2, <1>11 DEF Registry
  <2> QED  BY <1>7, <1>8, <1>9, <2>1, <2>2 DEF Children, Registry
<1>13. CommandsAreStopped'
  <2> SUFFICES ASSUME NEW q \in Runs, ~command'[q].mixed
               PROVE  /\ command'[q].st = "running" => ~command'[q].told
                      /\ command'[q].st = "killed" => command'[q].told
    BY DEF CommandsAreStopped
  <2>1. CASE q = r  BY <1>2, <2>1 DEF CommandsAreStopped
  <2>2. CASE q # r
    <3>1. command'[q] = command[q]  BY <1>2, <2>2
    <3> QED  BY <3>1 DEF CommandsAreStopped
  <2> QED  BY <2>1, <2>2
<1> QED  BY <1>5, <1>12, <1>13

\* A closing command is forgotten; its registry forgets the child it remembers.
LEMMA ClosesStep ==
  ASSUME TypeOK, Children, CommandsAreStopped, NEW r \in Runs, Closes(r)
  PROVE  /\ Children' /\ CommandsAreStopped' /\ current' \in [0 .. MaxRuns -> 0 .. MaxRuns]
         /\ command' \in [Runs -> Commands]
         /\ UNCHANGED <<run, aborted, tree>>
<1> DEFINE k == Registry(r)
<1>0. NoRun \in 0 .. MaxRuns  BY PathsAssumption DEF NoRun
<1>1. k \in 0 .. MaxRuns /\ NoRun \in 0 .. MaxRuns
      /\ current \in [0 .. MaxRuns -> 0 .. MaxRuns] /\ command \in [Runs -> Commands]
      /\ Idle \in Commands
  BY <1>0, RegistryIs DEF TypeOK, Idle, Commands, Stages
<1>2. UNCHANGED <<run, aborted, tree>>  BY DEF Closes
<1>3. /\ command' \in [Runs -> Commands] /\ command'[r] = Idle /\ Busy(r)
      /\ \A q \in Runs : q # r => command'[q] = command[q]
  BY <1>1 DEF Closes, Busy
<1>4. /\ current' \in [0 .. MaxRuns -> 0 .. MaxRuns] /\ current'[k] = NoRun
      /\ \A j \in 0 .. MaxRuns : j # k => current'[j] = current[j]
  BY <1>1 DEF Closes
<1>5. \A q \in Runs : Registry(q)' = Registry(q) /\ Live(q)' = Live(q)  BY <1>2 DEF Registry, Live
<1>6. Idle.st = "none" /\ Idle.mixed = FALSE  BY DEF Idle
<1> HIDE DEF k
<1>7. \A q \in Runs : Busy(q)' => q # r /\ Busy(q) /\ command'[q] = command[q]
  BY <1>3, <1>6 DEF Busy
<1>8. \A q \in Runs : ~Busy(q)' => command'[q] = Idle
  <2> SUFFICES ASSUME NEW q \in Runs, ~Busy(q)'  PROVE command'[q] = Idle
    OBVIOUS
  <2>1. CASE q = r  BY <1>3, <2>1
  <2>2. CASE q # r  BY <1>3, <2>2 DEF Children, Busy
  <2> QED  BY <2>1, <2>2
<1>9. \A q \in Runs : Busy(q)' => Live(q)'  BY <1>5, <1>7 DEF Children
<1>10. \A p, q \in Runs : p # q /\ Busy(p)' /\ Busy(q)' /\ Registry(p)' = Registry(q)'
                            => command'[p].mixed
  BY <1>5, <1>7 DEF Children
<1>11. ASSUME NEW j \in 0 .. MaxRuns, NEW c, c = current'[j], c # NoRun
       PROVE  Registry(c) = j /\ command'[c].st = "running"
  <2>1. j # k /\ c = current[j]  BY <1>4, <1>11
  <2>2. Registry(c) = j /\ command[c].st = "running" /\ c \in Runs
    BY <1>1, <1>11, <2>1 DEF Children, Runs, NoRun
  <2>3. c # r  BY <2>1, <2>2 DEF k
  <2> QED  BY <1>3, <2>2, <2>3
<1>12. ASSUME NEW q \in Runs, command'[q].st = "running", ~command'[q].mixed
       PROVE  current'[Registry(q)] = q
  <2>1. q # r /\ command'[q] = command[q] /\ Busy(q)  BY <1>7, <1>12 DEF Busy
  <2>2. ~command[q].mixed  BY <1>12, <2>1
  <2>3. Registry(q) # k  BY <1>3, <2>1, <2>2 DEF Children, k
  <2>4. current[Registry(q)] = q  BY <1>12, <2>1, <2>2 DEF Children
  <2> QED  BY <1>4, <2>3, <2>4, RegistryIs
<1>13. Children'
  <2>1. \A j \in 0 .. MaxRuns : current'[j] # NoRun =>
          /\ (IF run'[current'[j]].own THEN current'[j] ELSE NoRun) = j
          /\ command'[current'[j]].st = "running"
    BY <1>2, <1>11 DEF Registry
  <2>2. \A q \in Runs : command'[q].st = "running" /\ ~command'[q].mixed
                          => current'[IF run'[q].own THEN q ELSE NoRun] = q
    BY <1>2, <1>12 DEF Registry
  <2> QED  BY <1>8, <1>9, <1>10, <2>1, <2>2 DEF Children, Registry
<1>14. CommandsAreStopped'
  <2> SUFFICES ASSUME NEW q \in Runs, ~command'[q].mixed
               PROVE  /\ command'[q].st = "running" => ~command'[q].told
                      /\ command'[q].st = "killed" => command'[q].told
    BY DEF CommandsAreStopped
  <2>1. CASE q = r  BY <1>3, <1>6, <2>1
  <2>2. CASE q # r
    <3>1. command'[q] = command[q]  BY <1>3, <2>2
    <3> QED  BY <3>1 DEF CommandsAreStopped
  <2> QED  BY <2>1, <2>2
<1> QED  BY <1>2, <1>3, <1>4, <1>13, <1>14

\* A step that leaves commands and registries alone, and the runs that have one.
LEMMA CommandsStay ==
  ASSUME TypeOK, Children, CommandsAreStopped, UNCHANGED commandVars,
         \A q \in Runs : Busy(q) => run'[q].own = run[q].own /\ run'[q].status = run[q].status
  PROVE  Children' /\ CommandsAreStopped' /\ current' \in [0 .. MaxRuns -> 0 .. MaxRuns]
         /\ command' \in [Runs -> Commands]
<1>1. current' = current /\ command' = command  BY DEF commandVars
<1>2. \A q \in Runs : Busy(q) => Registry(q)' = Registry(q) /\ Live(q)' = Live(q)
  BY DEF Registry, Live
<1>3. \A q \in Runs : Busy(q)' <=> Busy(q)  BY <1>1 DEF Busy
<1>4. \A q \in Runs : ~Busy(q)' => command'[q] = Idle  BY <1>1, <1>3 DEF Children
<1>5. \A q \in Runs : Busy(q)' => Live(q)'  BY <1>2, <1>3 DEF Children
<1>6. \A p, q \in Runs : p # q /\ Busy(p)' /\ Busy(q)' /\ Registry(p)' = Registry(q)'
                           => command'[p].mixed
  BY <1>1, <1>2, <1>3 DEF Children
<1>7. ASSUME NEW j \in 0 .. MaxRuns, NEW c, c = current'[j], c # NoRun
      PROVE  (IF run'[c].own THEN c ELSE NoRun) = j /\ command'[c].st = "running"
  <2>1. c = current[j] /\ c \in Runs  BY <1>1, <1>7 DEF TypeOK, Runs, NoRun
  <2>2. Registry(c) = j /\ command[c].st = "running"  BY <1>7, <2>1 DEF Children
  <2> QED  BY <1>1, <2>1, <2>2 DEF Registry, Busy
<1>8. \A q \in Runs : command'[q].st = "running" /\ ~command'[q].mixed
                        => current'[IF run'[q].own THEN q ELSE NoRun] = q
  BY <1>1 DEF Children, Busy, Registry
<1>9. Children'
  <2>1. \A j \in 0 .. MaxRuns : current'[j] # NoRun =>
          /\ (IF run'[current'[j]].own THEN current'[j] ELSE NoRun) = j
          /\ command'[current'[j]].st = "running"
    BY <1>7
  <2> QED  BY <1>4, <1>5, <1>6, <1>8, <2>1 DEF Children, Registry
<1>10. CommandsAreStopped'  BY <1>1 DEF CommandsAreStopped
<1> QED  BY <1>1, <1>9, <1>10 DEF TypeOK

-----------------------------------------------------------------------------
(* Branches.                                                               *)

LEMMA HeadIs ==
  ASSUME TypeOK, NEW l \in Lanes
  PROVE  /\ HeadOf(l) \in [Paths -> Contents] /\ Original \in [Paths -> Contents]
         /\ branch[l] # <<>> => Len(branch[l]) >= 1 /\ HeadOf(l) = branch[l][Len(branch[l])]
         /\ \A p \in Paths : Original[p] \notin Runs
<1>1. Original \in [Paths -> Contents] /\ \A p \in Paths : Original[p] \notin Runs
  <2>1. MaxRuns \in Nat  BY PathsAssumption
  <2> QED  BY <2>1 DEF Original, Contents, Old, Absent, Runs
<1>2. branch[l] \in Seq([Paths -> Contents])  BY DEF TypeOK
<1>3. CASE branch[l] = <<>>  BY <1>1, <1>3 DEF HeadOf
<1>4. CASE branch[l] # <<>>
  <2>1. Len(branch[l]) \in 1 .. Len(branch[l])  BY <1>2, <1>4
  <2>2. HeadOf(l) = branch[l][Len(branch[l])]  BY <1>4 DEF HeadOf, Last
  <2>3. branch[l][Len(branch[l])] \in [Paths -> Contents]  BY <1>2, <2>1
  <2> QED  BY <1>1, <1>2, <2>1, <2>2, <2>3
<1> QED  BY <1>3, <1>4

\* A commit puts the tree that git watches at the end of the branch, and rewrites nothing.
LEMMA CommitIs ==
  ASSUME TypeOK, NEW l \in Lanes, Commit(l)
  PROVE  /\ branch' \in [Lanes -> Seq([Paths -> Contents])]
         /\ \A m \in Lanes : m # l => branch'[m] = branch[m] /\ HeadOf(m)' = HeadOf(m)
         /\ Len(branch'[l]) >= Len(branch[l])
         /\ \A p \in Paths \ Ignored : HeadOf(l)'[p] = tree[l][p]
<1> DEFINE c == [p \in Paths |-> IF p \in Ignored THEN HeadOf(l)[p] ELSE tree[l][p]]
<1>1. c \in [Paths -> Contents]  BY HeadIs DEF TypeOK
<1>2. branch[l] \in Seq([Paths -> Contents]) /\ branch \in [Lanes -> Seq([Paths -> Contents])]
  BY DEF TypeOK
<1>3. branch' = [branch EXCEPT ![l] = IF Dirty(l) THEN Append(branch[l], c) ELSE branch[l]]
  BY DEF Commit
<1> HIDE DEF c
<1>4. Append(branch[l], c) \in Seq([Paths -> Contents])  BY <1>1, <1>2
<1>5. /\ branch' \in [Lanes -> Seq([Paths -> Contents])]
      /\ \A m \in Lanes : m # l => branch'[m] = branch[m]
      /\ branch'[l] = IF Dirty(l) THEN Append(branch[l], c) ELSE branch[l]
  BY <1>2, <1>3, <1>4
<1>6. \A m \in Lanes : m # l => HeadOf(m)' = HeadOf(m)  BY <1>5 DEF HeadOf, Original
<1>7. CASE Dirty(l)
  <2>1. branch'[l] = Append(branch[l], c)  BY <1>5, <1>7
  <2>2. /\ Len(branch'[l]) = Len(branch[l]) + 1 /\ Len(branch[l]) \in Nat
        /\ branch'[l] # <<>> /\ branch'[l][Len(branch'[l])] = c
    <3>1. Append(branch[l], c) # <<>> /\ Len(Append(branch[l], c)) = Len(branch[l]) + 1
          /\ Append(branch[l], c)[Len(branch[l]) + 1] = c
      BY <1>1, <1>2, AppendProperties
    <3> QED  BY <1>2, <2>1, <3>1
  <2>3. HeadOf(l)' = c  BY <2>2 DEF HeadOf, Last
  <2> QED  BY <1>5, <1>6, <2>2, <2>3 DEF c
<1>8. CASE ~Dirty(l)
  <2>1. branch'[l] = branch[l]  BY <1>5, <1>8
  <2>2. HeadOf(l)' = HeadOf(l)  BY <2>1 DEF HeadOf, Original
  <2>3. \A p \in Paths \ Ignored : tree[l][p] = HeadOf(l)[p]  BY <1>8 DEF Dirty, Changed
  <2>4. Len(branch[l]) \in Nat  BY <1>2
  <2> QED  BY <1>5, <1>6, <2>1, <2>2, <2>3, <2>4
<1> QED  BY <1>7, <1>8


-----------------------------------------------------------------------------
(* What the runs do to the trees.                                          *)

Git == Newest /\ Trees /\ Branches

\* No run, branch or tree changes.
LEMMA GitStays ==
  ASSUME TypeOK, Git, UNCHANGED <<run, tree, branch, own>>
  PROVE  Git'
BY DEF Git, Newest, Trees, Branches, Started, Active, InLane, HeadOf, Original

\* One path of a run's tree is replaced by a link, or written by that run if it is live.
LEMMA EditStep ==
  ASSUME TypeOK, Git, NEW r \in Runs, run[r].lane \in Lanes, NEW p \in Paths,
         NEW c \in {r, Link, Dangling}, c = r => Live(r),
         tree' = [tree EXCEPT ![run[r].lane][p] = c],
         UNCHANGED <<run, branch, own>>
  PROVE  Git' /\ tree' \in [Lanes -> [Paths -> Contents]]
<1> DEFINE l == run[r].lane
<1>1. l \in Lanes  OBVIOUS
<1>2. c \in Contents /\ (c \in Runs => c = r)
  <2>1. MaxRuns \in Nat  BY PathsAssumption
  <2> QED  BY <2>1 DEF Contents, Link, Dangling, Runs
<1>3. /\ tree' \in [Lanes -> [Paths -> Contents]]
      /\ \A m \in Lanes, q \in Paths : tree'[m][q] = IF m = l /\ q = p THEN c ELSE tree[m][q]
  BY <1>1, <1>2 DEF TypeOK
<1>4. \A m \in Lanes : HeadOf(m)' = HeadOf(m)  BY SMTT(30) DEF HeadOf, Original
<1>5. Newest' /\ Branches'
  BY SMTT(30) DEF Git, Newest, Branches, Started, Active, InLane
<1>6. Trees'
  <2> SUFFICES ASSUME NEW m \in Lanes \ own, NEW q \in Paths \ Ignored
               PROVE  /\ tree'[m][q] \in Runs =>
                            run'[tree'[m][q]].status \notin {"none", "rejected"}
                            /\ run'[tree'[m][q]].lane = m
                      /\ HeadOf(m)' [q] \in Runs =>
                            /\ run'[HeadOf(m)'[q]].status
                                 \notin {"none", "running", "awaiting_review", "rejected"}
                            /\ run'[HeadOf(m)'[q]].lane = m
    BY DEF Git, Trees
  <2>1. CASE m = l /\ q = p  BY <1>2, <1>3, <1>4, <2>1 DEF Git, Trees, Live
  <2>2. CASE ~(m = l /\ q = p)  BY <1>3, <1>4, <2>2 DEF Git, Trees
  <2> QED  BY <2>1, <2>2, SMTT(30)
<1> QED  BY <1>3, <1>5, <1>6 DEF Git

\* What a command left behind is in a lane, and so is a command.
LEMMA LaneAtWork ==
  ASSUME TypeOK, Children, NEW r \in Runs, AtWork(r) \/ Live(r)
  PROVE  run[r].lane \in Lanes
<1>1. Live(r) => r \in Started  BY DEF Live, Started
<1>2. Busy(r) => Live(r)  BY DEF Children
<1>3. CASE Live(r)  BY <1>1, <1>3 DEF TypeOK
<1>4. CASE AtWork(r)  BY <1>1, <1>2, <1>4 DEF AtWork, Busy, TypeOK
<1> QED  BY <1>3, <1>4

\* A call of a file tool: what it checks keeps the write inside, as far as it can.
LEMMA WriteStep ==
  ASSUME TypeOK, Children, Git, Escapes, NEW r \in Runs, NEW p \in Paths,
         StrReplace(r, p) \/ Create(r, p), UNCHANGED gitVars
  PROVE  /\ Git' /\ Escapes' /\ tree' \in [Lanes -> [Paths -> Contents]]
         /\ UNCHANGED <<run, aborted, left, commandVars>>
<1>1. /\ Live(r) /\ UNCHANGED <<run, aborted, left, commandVars, branch, own>> /\ Write(r, p)
      /\ tree[run[r].lane][p] # Link
  BY DEF StrReplace, Create, CanCall, Writable, Creatable, Write, gitVars
<1>2. run[r].lane \in Lanes  BY <1>1, LaneAtWork
<1>3. PICK c \in {r, Link, Dangling} : tree' = [tree EXCEPT ![run[r].lane][p] = c]
  BY <1>1 DEF Write, WriteOut
<1>4. Git' /\ tree' \in [Lanes -> [Paths -> Contents]]  BY <1>1, <1>2, <1>3, EditStep
<1>5. /\ outside' \subseteq outside \cup {r} /\ through \subseteq through'
      /\ outside' # outside => r \in through' \/ run[r].lane \in left
  BY <1>1 DEF Write, WriteOut, writtenVars
<1>6. r \in Started  BY <1>1 DEF Live, Started
<1>7. Escapes'  BY <1>1, <1>5, <1>6 DEF Escapes, Started
<1> QED  BY <1>1, <1>4, <1>7

LEMMA LinksOutStep ==
  ASSUME TypeOK, Children, Git, NEW r \in Runs, NEW p \in Paths, LinksOut(r, p), UNCHANGED gitVars
  PROVE  /\ Git' /\ tree' \in [Lanes -> [Paths -> Contents]]
         /\ UNCHANGED <<run, aborted, left, writtenVars, commandVars>>
<1>1. UNCHANGED <<run, aborted, left, writtenVars, commandVars, branch, own>> /\ AtWork(r)
  BY DEF LinksOut, gitVars
<1>2. PICK c \in {Link, Dangling} : tree' = [tree EXCEPT ![run[r].lane][p] = c]  BY DEF LinksOut
<1>3. run[r].lane \in Lanes  BY <1>1, LaneAtWork
<1>4. MaxRuns \in Nat  BY PathsAssumption
<1>5. c # r  BY <1>4 DEF Link, Dangling, Runs
<1> QED  BY <1>1, <1>2, <1>3, <1>5, EditStep

\* A step after which nothing more has been written outside.
LEMMA EscapesStay ==
  ASSUME Escapes, outside' = outside, through' = through, left \subseteq left',
         \A q \in Started : q \in Started' /\ run'[q].lane = run[q].lane
  PROVE  Escapes'
BY DEF Escapes

\* A run of a lane goes from one status to another, and comes to life in none.
Moves(r) ==
  /\ run' \in [Runs -> Records]
  /\ \A q \in Runs : q # r => run'[q] = run[q]
  /\ run'[r].lane = run[r].lane /\ run'[r].base = run[r].base
  /\ run[r].status # "none" /\ run'[r].status # "none"
  /\ Active(r)

LEMMA NewestStays ==
  ASSUME TypeOK, Newest, NEW r \in Runs, Moves(r)
  PROVE  Newest' /\ Started' = Started
<1>1. Started' = Started  BY DEF Started, Moves
<1>2. \A q \in Runs : run'[q].lane = run[q].lane /\ (Active(q)' => Active(q))
  BY DEF Moves, Active
<1>3. \A q \in Runs : Active(q)' => \A s \in Started' : run'[s].lane = run'[q].lane => s <= q
  <2>1. Started \subseteq Runs  BY DEF Started
  <2> QED  BY <1>1, <1>2, <2>1 DEF Newest
<1>4. \A s \in Started' : \A q \in Runs : q < s => q \in Started'  BY <1>1 DEF Newest
<1> QED  BY <1>1, <1>3, <1>4 DEF Newest

\* A run ends without an approval.
LEMMA EndStep ==
  ASSUME TypeOK, Git, NEW r \in Runs, Finish(r) \/ Fail(r)
  PROVE  /\ Git' /\ run' \in [Runs -> Records] /\ aborted' \subseteq Runs
         /\ \A q \in Started' : run'[q].lane \in Lanes
         /\ \A q \in Started : q \in Started' /\ run'[q].lane = run[q].lane
         /\ \A q \in Runs : q # r => run'[q] = run[q]
         /\ UNCHANGED <<tree, commandVars, branch, own>> /\ ~Busy(r)
<1>1. /\ UNCHANGED <<tree, commandVars, branch, own>> /\ ~Busy(r) /\ Live(r)
      /\ aborted' \subseteq Runs
  BY DEF Finish, Fail, gitVars, Busy, TypeOK
<1>2. PICK s \in {"awaiting_review", "completed_clean", "failed"} :
        run' = [run EXCEPT ![r].status = s]
  BY DEF Finish, Fail
<1>3. /\ Moves(r) /\ run'[r].status = s /\ run'[r].top = run[r].top
  <2>1. run[r] \in Records /\ [run[r] EXCEPT !.status = s] \in Records
    BY <1>2 DEF TypeOK, Records, Statuses
  <2> QED  BY <1>1, <1>2, <2>1 DEF Moves, TypeOK, Live, Active, Records
<1>4. Newest' /\ Started' = Started  BY <1>3, NewestStays DEF Git
<1>5. \A q \in Runs : /\ run'[q].lane = run[q].lane /\ run'[q].base = run[q].base
                      /\ run'[q].top = run[q].top
                      /\ q # r => run'[q].status = run[q].status
  BY <1>3 DEF Moves
<1>6. \A m \in Lanes : HeadOf(m)' = HeadOf(m)  BY <1>1 DEF HeadOf, Original
<1>7. Trees'
  <2> SUFFICES ASSUME NEW m \in Lanes \ own, NEW q \in Paths \ Ignored
               PROVE  /\ tree[m][q] \in Runs =>
                            run'[tree[m][q]].status \notin {"none", "rejected"}
                            /\ run'[tree[m][q]].lane = m
                      /\ HeadOf(m)[q] \in Runs =>
                            /\ run'[HeadOf(m)[q]].status
                                 \notin {"none", "running", "awaiting_review", "rejected"}
                            /\ run'[HeadOf(m)[q]].lane = m
    BY <1>1, <1>6 DEF Git, Trees
  <2> QED  BY <1>1, <1>3, <1>5 DEF Git, Trees, Live
<1>8. Branches'
  <2>1. \A q \in Runs : run'[q].status = "approved" <=> run[q].status = "approved"
    BY <1>1, <1>3, <1>5 DEF Live
  <2>2. \A m \in Lanes : InLane(m, {"approved"})' = InLane(m, {"approved"})
    BY <1>5, <2>1 DEF InLane
  <2>3. \A q \in Runs : run[q].status = "approved" => run[q].lane \in Lanes
    BY DEF TypeOK, Started
  <2>4. Started \subseteq Runs  BY DEF Started
  <2> QED  BY <1>1, <1>4, <1>5, <2>1, <2>2, <2>3, <2>4 DEF Git, Branches, InLane
<1>9. \A q \in Started' : run'[q].lane \in Lanes
  BY <1>4, <1>5 DEF TypeOK, Started
<1>10. \A q \in Started : q \in Started' /\ run'[q].lane = run[q].lane  BY <1>4, <1>5 DEF Started
<1> QED  BY <1>1, <1>3, <1>4, <1>7, <1>8, <1>9, <1>10 DEF Git, Moves


\* A fresh run takes the next number; its lane has no other at work or under review.
LEMMA StartStep ==
  ASSUME TypeOK, Children, Git, NEW l \in Lanes, NEW revise \in BOOLEAN, Start(l, revise)
  PROVE  /\ Git' /\ run' \in [Runs -> Records]
         /\ branch' \in [Lanes -> Seq([Paths -> Contents])]
         /\ tree' \in [Lanes -> [Paths -> Contents]]
         /\ \A q \in Started' : run'[q].lane \in Lanes
         /\ \A q \in Started : q \in Started' /\ run'[q].lane = run[q].lane
         /\ \A q \in Runs : Busy(q) => run'[q].own = run[q].own /\ run'[q].status = run[q].status
         /\ UNCHANGED <<aborted, commandVars, own>>
<1>1. PICK r \in Runs \ Started :
        /\ \A q \in Runs \ Started : r <= q
        /\ run' = [q \in Runs |->
                     IF q = r THEN [lane |-> l, status |-> "running", base |-> Len(branch'[l]),
                                    top |-> 0, own |-> r \in Equipped]
                     ELSE IF q \in InLane(l, {"awaiting_review"})
                          THEN [run[q] EXCEPT !.status = "superseded"] ELSE run[q]]
  BY DEF Start
<1>2. /\ InLane(l, {"running"}) = {} /\ EnsureWorktree(l)
      /\ UNCHANGED <<aborted, commandVars, own>>
  BY DEF Start
<1>3. /\ branch' \in [Lanes -> Seq([Paths -> Contents])]
      /\ tree' \in [Lanes -> [Paths -> Contents]]
      /\ \A m \in Lanes : (m # l \/ branch[m] # <<>>) => branch'[m] = branch[m] /\ tree'[m] = tree[m]
      /\ branch[l] = <<>> => branch'[l] = <<Original>> /\ tree'[l] = Original
      /\ branch'[l] # <<>>
  <2>1. Original \in [Paths -> Contents]  BY HeadIs
  <2>2. <<Original>> \in Seq([Paths -> Contents]) /\ <<Original>> # <<>>  BY <2>1
  <2>3. CASE branch[l] = <<>>
    <3>1. branch' = [branch EXCEPT ![l] = <<Original>>] /\ tree' = [tree EXCEPT ![l] = Original]
      BY <1>2, <2>3 DEF EnsureWorktree
    <3> QED  BY <2>1, <2>2, <2>3, <3>1 DEF TypeOK
  <2>4. CASE branch[l] # <<>>
    <3>1. branch' = branch /\ tree' = tree  BY <1>2, <2>4 DEF EnsureWorktree
    <3> QED  BY <2>4, <3>1 DEF TypeOK
  <2> QED  BY <2>3, <2>4
<1>4. Len(branch'[l]) \in Nat /\ Len(branch'[l]) >= 1  BY <1>3
<1>5. /\ run' \in [Runs -> Records]
      /\ run'[r].lane = l /\ run'[r].status = "running" /\ run'[r].base = Len(branch'[l])
      /\ \A q \in Runs : q # r =>
           /\ run'[q].lane = run[q].lane /\ run'[q].base = run[q].base /\ run'[q].top = run[q].top
           /\ run'[q].own = run[q].own
           /\ run'[q].status = IF q \in InLane(l, {"awaiting_review"}) THEN "superseded"
                                                                       ELSE run[q].status
  <2>1. [lane |-> l, status |-> "running", base |-> Len(branch'[l]), top |-> 0, own |-> r \in Equipped]
          \in Records
    BY <1>4 DEF Records, Statuses
  <2>2. \A q \in Runs : run[q] \in Records /\ [run[q] EXCEPT !.status = "superseded"] \in Records
    BY DEF TypeOK, Records, Statuses
  <2>3. \A q \in Runs : q # r =>
          run'[q] = IF q \in InLane(l, {"awaiting_review"})
                    THEN [run[q] EXCEPT !.status = "superseded"] ELSE run[q]
    BY <1>1
  <2>4. run'[r] = [lane |-> l, status |-> "running", base |-> Len(branch'[l]), top |-> 0,
                   own |-> r \in Equipped]
    BY <1>1
  <2>5. run' \in [Runs -> Records]
    <3>1. \A q \in Runs : run'[q] \in Records  BY <2>1, <2>2, <2>3, <2>4
    <3> QED  BY <1>1, <3>1
  <2> QED  BY <2>2, <2>3, <2>4, <2>5 DEF Records
<1>6. r \in Runs /\ run[r].status = "none"  BY DEF Started
<1>7. Started' = Started \cup {r}
  BY <1>5, <1>6 DEF Started, InLane
<1>8. Started \subseteq Runs /\ Runs \subseteq Int /\ r \notin Started
  BY <1>6 DEF Started, Runs
<1>9. Newest'
  <2>1. \A s \in Started' : \A q \in Runs : q < s => q \in Started'
    BY <1>1, <1>7, <1>8 DEF Git, Newest
  <2>2. \A s \in Started : s <= r
    BY <1>6, <1>8 DEF Git, Newest
  <2>3. ASSUME NEW q \in Runs, Active(q)', NEW s \in Started', run'[s].lane = run'[q].lane
        PROVE  s <= q
    <3>1. CASE q = r  BY <1>7, <1>8, <2>2, <3>1
    <3>2. CASE q # r
      <4>1. Active(q) /\ run'[q].lane = run[q].lane /\ run[q].lane # l
        BY <1>2, <1>5, <2>3, <3>2 DEF Active, InLane
      <4>2. s # r /\ s \in Started /\ run'[s].lane = run[s].lane
        BY <1>5, <1>7, <1>8, <2>3, <4>1
      <4> QED  BY <2>3, <4>1, <4>2 DEF Git, Newest
    <3> QED  BY <3>1, <3>2
  <2> QED  BY <2>1, <2>3 DEF Newest
<1>10. \A m \in Lanes : m # l => HeadOf(m)' = HeadOf(m)  BY <1>3 DEF HeadOf, Original
<1>11. branch[l] # <<>> => HeadOf(l)' = HeadOf(l)  BY <1>3 DEF HeadOf, Original
<1>12. branch[l] = <<>> => HeadOf(l)' = Original
  <2>1. Last(<<Original>>) = Original  BY DEF Last
  <2> QED  BY <1>3, <2>1 DEF HeadOf
<1>13. Trees'
  <2> SUFFICES ASSUME NEW m \in Lanes \ own, NEW q \in Paths \ Ignored, NEW h, h = HeadOf(m)' [q]
               PROVE  /\ tree'[m][q] \in Runs =>
                            run'[tree'[m][q]].status \notin {"none", "rejected"}
                            /\ run'[tree'[m][q]].lane = m
                      /\ h \in Runs =>
                            /\ run'[h].status
                                 \notin {"none", "running", "awaiting_review", "rejected"}
                            /\ run'[h].lane = m
    BY <1>2 DEF Git, Trees
  <2>1. CASE m = l /\ branch[l] = <<>>
    BY <1>3, <1>12, <2>1, HeadIs
  <2>2. CASE m # l \/ branch[l] # <<>>
    <3>1. tree'[m][q] = tree[m][q] /\ h = HeadOf(m)[q]  BY <1>3, <1>10, <1>11, <2>2
    <3> HIDE DEF Trees
    <3>2. tree[m][q] \in Runs => run[tree[m][q]].status \notin {"none", "rejected"}
                                 /\ run[tree[m][q]].lane = m
      BY DEF Git, Trees
    <3>3. h \in Runs => /\ run[h].status \notin {"none", "running", "awaiting_review", "rejected"}
                        /\ run[h].lane = m
      BY <3>1 DEF Git, Trees
    <3>4. tree[m][q] \in Runs => run'[tree[m][q]].status \notin {"none", "rejected"}
                                 /\ run'[tree[m][q]].lane = m
      BY <1>5, <1>6, <3>2
    <3>5. h \in Runs => /\ run'[h].status \notin {"none", "running", "awaiting_review", "rejected"}
                        /\ run'[h].lane = m
      BY <1>5, <1>6, <3>3
    <3> QED  BY <3>1, <3>4, <3>5
  <2> QED  BY <2>1, <2>2
<1>14. Branches'
  <2>1. \A q \in Started : /\ q # r /\ run[q].lane \in Lanes /\ branch'[run[q].lane] = branch[run[q].lane]
    <3> SUFFICES ASSUME NEW q \in Started
                 PROVE  q # r /\ run[q].lane \in Lanes /\ branch'[run[q].lane] = branch[run[q].lane]
      OBVIOUS
    <3>1. run[q].lane \in Lanes  BY DEF TypeOK
    <3>2. branch[run[q].lane] # <<>>  BY DEF Git, Branches
    <3> QED  BY <1>3, <1>8, <3>1, <3>2
  <2>2. \A q \in Runs : run'[q].status = "approved" <=> run[q].status = "approved"
    BY <1>5, <1>6 DEF InLane
  <2>3. \A q \in Runs : run[q].status = "approved" => q \in Started  BY DEF Started
  <2>4. \A q \in Started' : run'[q].base \in 1 .. Len(branch'[run'[q].lane])
    <3> SUFFICES ASSUME NEW q \in Started'  PROVE run'[q].base \in 1 .. Len(branch'[run'[q].lane])
      OBVIOUS
    <3>1. CASE q = r  BY <1>4, <1>5, <3>1
    <3>2. CASE q # r  BY <1>5, <1>7, <1>8, <2>1, <3>2 DEF Git, Branches
    <3> QED  BY <3>1, <3>2
  <2>5. \A q \in Runs : run'[q].status = "approved" => run'[q].top \in 1 .. Len(branch'[run'[q].lane])
    BY <1>5, <1>8, <2>1, <2>2, <2>3 DEF Git, Branches
  <2>6. ASSUME NEW q \in Runs, run'[q].status = "approved", run'[q].lane \notin own,
               \A s \in Runs : run'[s].lane = run'[q].lane /\ run'[s].status = "approved" => s <= q
        PROVE  run'[q].top = Len(branch'[run'[q].lane])
    <3>1. q \in Started /\ q # r /\ run'[q].lane = run[q].lane /\ run'[q].top = run[q].top
      BY <1>5, <1>8, <2>2, <2>3, <2>6
    <3>2. \A s \in InLane(run[q].lane, {"approved"}) : s <= q
      BY <1>5, <1>8, <2>1, <2>2, <2>3, <2>6, <3>1 DEF InLane
    <3> QED  BY <2>1, <2>2, <2>6, <3>1, <3>2 DEF Git, Branches
  <2> QED  BY <1>2, <2>4, <2>5, <2>6 DEF Branches, InLane
<1>15. \A q \in Started' : run'[q].lane \in Lanes
  BY <1>5, <1>7, <1>8 DEF TypeOK
<1>16. \A q \in Runs : Busy(q) => run'[q].own = run[q].own /\ run'[q].status = run[q].status
  <2>1. \A q \in Runs : Busy(q) => run[q].status = "running"  BY DEF Children, Live
  <2> QED  BY <1>5, <1>6, <2>1 DEF InLane
<1>17. \A q \in Started : q \in Started' /\ run'[q].lane = run[q].lane  BY <1>5, <1>7, <1>8
<1> QED  BY <1>2, <1>3, <1>5, <1>9, <1>13, <1>14, <1>15, <1>16, <1>17 DEF Git


\* A command commits: what was never reviewed is on the branch from now on.
LEMMA CommandCommitsStep ==
  ASSUME TypeOK, Children, Git, NEW r \in Runs, CommandCommits(r)
  PROVE  /\ Git' /\ branch' \in [Lanes -> Seq([Paths -> Contents])] /\ own' \subseteq Lanes
         /\ UNCHANGED <<run, aborted, tree, commandVars>>
<1> DEFINE l == run[r].lane
<1>1. /\ UNCHANGED <<run, aborted, tree, commandVars>> /\ own' = own \cup {l}
      /\ Commit(l) /\ AtWork(r)
  BY DEF CommandCommits
<1>2. l \in Lanes  BY <1>1, LaneAtWork
<1> HIDE DEF l
<1>3. /\ branch' \in [Lanes -> Seq([Paths -> Contents])]
      /\ \A m \in Lanes : m # l => branch'[m] = branch[m] /\ HeadOf(m)' = HeadOf(m)
      /\ Len(branch'[l]) >= Len(branch[l])
  BY <1>1, <1>2, CommitIs
<1>4. \A m \in Lanes : Len(branch'[m]) >= Len(branch[m]) /\ Len(branch[m]) \in Nat
                       /\ Len(branch'[m]) \in Nat
  <2>1. \A m \in Lanes : branch[m] \in Seq([Paths -> Contents]) /\ branch'[m] \in Seq([Paths -> Contents])
    BY <1>3 DEF TypeOK
  <2>2. \A m \in Lanes : Len(branch[m]) \in Nat /\ Len(branch'[m]) \in Nat  BY <2>1
  <2> QED  BY <1>3, <2>2
<1>5. Newest'  BY <1>1 DEF Git, Newest, Started, Active
<1>6. Trees'  BY <1>1, <1>2, <1>3 DEF Git, Trees
<1>7. Branches'
  <2>1. \A q \in Started : run[q].base \in 1 .. Len(branch'[run[q].lane])
    BY <1>4 DEF Git, Branches, TypeOK
  <2>2. \A q \in Runs : run[q].status = "approved" => q \in Started  BY DEF Started
  <2>3. \A q \in Runs : run[q].status = "approved" => run[q].top \in 1 .. Len(branch'[run[q].lane])
    BY <1>4, <2>2 DEF Git, Branches, TypeOK
  <2>4. \A q \in Runs : run[q].status = "approved" /\ run[q].lane \notin own' =>
          run[q].lane \notin own /\ branch'[run[q].lane] = branch[run[q].lane]
    BY <1>1, <1>3, <2>2 DEF TypeOK
  <2> QED  BY <1>1, <2>1, <2>3, <2>4 DEF Git, Branches, Started, InLane
<1>8. own' \subseteq Lanes  BY <1>1, <1>2 DEF TypeOK
<1> QED  BY <1>1, <1>3, <1>5, <1>6, <1>7, <1>8 DEF Git

\* An approval puts the run's tree at the end of its lane's branch.
LEMMA ApproveStep ==
  ASSUME TypeOK, Children, Git, NEW r \in Runs, Approve(r)
  PROVE  /\ Git' /\ branch' \in [Lanes -> Seq([Paths -> Contents])] /\ run' \in [Runs -> Records]
         /\ \A q \in Started' : run'[q].lane \in Lanes
         /\ \A q \in Started : q \in Started' /\ run'[q].lane = run[q].lane
         /\ \A q \in Runs : q # r => run'[q] = run[q]
         /\ UNCHANGED <<aborted, tree, commandVars, own>> /\ ~Busy(r)
<1>0. PICK l \in Lanes : l = run[r].lane  BY DEF Approve, TypeOK, Started
<1>1. /\ UNCHANGED <<aborted, tree, commandVars, own>> /\ Commit(l)
      /\ run[r].status = "awaiting_review"
      /\ run' = [run EXCEPT ![r].status = "approved", ![r].top = Len(branch'[l])]
  BY <1>0 DEF Approve
<1>2. l \in Lanes /\ r \in Started  BY <1>1 DEF Started
<1>3. /\ branch' \in [Lanes -> Seq([Paths -> Contents])]
      /\ \A m \in Lanes : m # l => branch'[m] = branch[m] /\ HeadOf(m)' = HeadOf(m)
      /\ Len(branch'[l]) >= Len(branch[l])
      /\ \A p \in Paths \ Ignored : HeadOf(l)'[p] = tree[l][p]
  BY <1>1, <1>2, CommitIs
<1>4. \A m \in Lanes : Len(branch'[m]) >= Len(branch[m]) /\ Len(branch[m]) \in Nat
                       /\ Len(branch'[m]) \in Nat
  <2>1. \A m \in Lanes : branch[m] \in Seq([Paths -> Contents]) /\ branch'[m] \in Seq([Paths -> Contents])
    BY <1>3 DEF TypeOK
  <2>2. \A m \in Lanes : Len(branch[m]) \in Nat /\ Len(branch'[m]) \in Nat  BY <2>1
  <2> QED  BY <1>3, <2>2
<1>5. /\ run' \in [Runs -> Records] /\ run'[r].status = "approved"
      /\ run'[r].top = Len(branch'[l]) /\ run'[r].lane = l /\ run'[r].base = run[r].base
      /\ \A q \in Runs : q # r => run'[q] = run[q]
  <2> DEFINE new == [run[r] EXCEPT !.status = "approved", !.top = Len(branch'[l])]
  <2>1. run[r] \in Records  BY DEF TypeOK
  <2>2. Len(branch'[l]) \in Nat  BY <1>2, <1>4
  <2>3. new \in Records  BY <2>1, <2>2 DEF Records, Statuses
  <2>4. run' = [run EXCEPT ![r] = new]  BY <1>1 DEF TypeOK
  <2>5. /\ new.status = "approved" /\ new.top = Len(branch'[l]) /\ new.lane = run[r].lane
        /\ new.base = run[r].base
    BY <2>1 DEF Records
  <2> HIDE DEF new
  <2> QED  BY <1>0, <2>3, <2>4, <2>5 DEF TypeOK
<1>6. Moves(r)  BY <1>0, <1>1, <1>5 DEF Moves, Active
<1>7. Newest' /\ Started' = Started  BY <1>6, NewestStays DEF Git
<1>8. \A q \in Started : run[q].lane = l => q <= r  BY <1>0, <1>1 DEF Git, Newest, Active
<1>9. Started \subseteq Runs /\ Runs \subseteq Int /\ \A q \in Started : run[q].lane \in Lanes
  BY DEF Started, Runs, TypeOK
<1>10. Trees'
  <2> SUFFICES ASSUME NEW m \in Lanes \ own, NEW q \in Paths \ Ignored, NEW h, h = HeadOf(m)' [q]
               PROVE  /\ tree[m][q] \in Runs =>
                            run'[tree[m][q]].status \notin {"none", "rejected"}
                            /\ run'[tree[m][q]].lane = m
                      /\ h \in Runs =>
                            /\ run'[h].status
                                 \notin {"none", "running", "awaiting_review", "rejected"}
                            /\ run'[h].lane = m
    <3>1. tree' = tree /\ own' = own  BY <1>1 DEF Git, Trees
    <3> QED  BY <3>1 DEF Trees
  <2>1. tree[m][q] \in Runs => run[tree[m][q]].status \notin {"none", "rejected"}
                               /\ run[tree[m][q]].lane = m
    BY DEF Git, Trees
  <2>2. tree[m][q] \in Runs => run'[tree[m][q]].status \notin {"none", "rejected"}
                               /\ run'[tree[m][q]].lane = m
    BY <1>0, <1>5, <2>1
  <2>3. CASE m # l
    <3>1. h = HeadOf(m)[q]  BY <1>3, <2>3
    <3>2. h \in Runs => /\ run[h].status \notin {"none", "running", "awaiting_review", "rejected"}
                        /\ run[h].lane = m
      BY <3>1 DEF Git, Trees
    <3> QED  BY <1>1, <1>5, <2>2, <3>2
  <2>4. CASE m = l
    <3>1. h = tree[l][q]  BY <1>3, <2>4
    <3>2. ASSUME h \in Runs, h # r  PROVE ~Active(h)
      <4>1. h \in Started /\ run[h].lane = l  BY <2>1, <2>4, <3>1, <3>2 DEF Started
      <4>2. h <= r /\ (Active(h) => r <= h)
        BY <1>0, <1>2, <1>8, <3>2, <4>1 DEF Git, Newest
      <4> QED  BY <1>9, <3>2, <4>1, <4>2
    <3> QED  BY <1>5, <2>1, <2>2, <2>4, <3>1, <3>2 DEF Active
  <2> QED  BY <2>3, <2>4
<1>11. Branches'
  <2>1. \A q \in Runs : run'[q].lane = run[q].lane /\ run'[q].base = run[q].base
    BY <1>0, <1>5
  <2>2. \A q \in Started : run'[q].base \in 1 .. Len(branch'[run'[q].lane])
    BY <1>4, <1>9, <2>1 DEF Git, Branches
  <2>3. Len(branch'[l]) >= 1
    BY <1>0, <1>2, <1>4 DEF Git, Branches
  <2>4. ASSUME NEW q \in Runs, run'[q].status = "approved"
        PROVE  q \in Started /\ run'[q].top \in 1 .. Len(branch'[run'[q].lane])
    <3>1. CASE q = r  BY <1>2, <1>4, <1>5, <2>3, <3>1
    <3>2. CASE q # r
      <4>1. run[q].status = "approved" /\ q \in Started /\ run'[q].top = run[q].top
        BY <1>5, <2>4, <3>2 DEF Started
      <4> QED  BY <1>4, <1>9, <2>1, <4>1 DEF Git, Branches
    <3> QED  BY <3>1, <3>2
  <2>5. ASSUME NEW q \in Runs, run'[q].status = "approved", run'[q].lane \notin own,
               \A s \in Runs : run'[s].lane = run'[q].lane /\ run'[s].status = "approved" => s <= q
        PROVE  run'[q].top = Len(branch'[run'[q].lane])
    <3>1. CASE q = r  BY <1>5, <3>1
    <3>2. CASE q # r /\ run[q].lane = l
      <4>1. q <= r /\ r <= q  BY <1>5, <1>8, <2>1, <2>4, <2>5, <3>2
      <4> QED  BY <1>9, <3>2, <4>1, <2>4, <1>2
    <3>3. CASE q # r /\ run[q].lane # l
      <4>1. /\ run[q].status = "approved" /\ run'[q].top = run[q].top /\ q \in Started
            /\ branch'[run[q].lane] = branch[run[q].lane]
        BY <1>3, <1>5, <1>9, <2>4, <2>5, <3>3
      <4>2. \A s \in InLane(run[q].lane, {"approved"}) : s <= q
        BY <1>0, <1>5, <2>1, <2>5, <3>3 DEF InLane
      <4> QED  BY <2>1, <2>5, <4>1, <4>2 DEF Git, Branches
    <3> QED  BY <3>1, <3>2, <3>3
  <2> QED  BY <1>1, <1>7, <2>2, <2>4, <2>5 DEF Branches, InLane
<1>12. \A q \in Started' : run'[q].lane \in Lanes  BY <1>2, <1>5, <1>7, <1>9
<1>13. ~Busy(r)  BY <1>1 DEF Children, Live
<1>14. \A q \in Started : q \in Started' /\ run'[q].lane = run[q].lane  BY <1>0, <1>5, <1>7, <1>9
<1> QED  BY <1>1, <1>3, <1>5, <1>7, <1>10, <1>11, <1>12, <1>13, <1>14 DEF Git

\* A rejection puts the tree that git watches back to the end of the branch.
LEMMA RejectStep ==
  ASSUME TypeOK, Children, Git, NEW r \in Runs, Reject(r)
  PROVE  /\ Git' /\ tree' \in [Lanes -> [Paths -> Contents]] /\ run' \in [Runs -> Records]
         /\ \A q \in Started' : run'[q].lane \in Lanes
         /\ \A q \in Started : q \in Started' /\ run'[q].lane = run[q].lane
         /\ \A q \in Runs : q # r => run'[q] = run[q]
         /\ UNCHANGED <<aborted, commandVars, branch, own>> /\ ~Busy(r)
<1> DEFINE l == run[r].lane
           back == [p \in Paths |-> IF p \in Ignored THEN tree[l][p] ELSE HeadOf(l)[p]]
<1>1. /\ UNCHANGED <<aborted, commandVars, branch, own>>
      /\ run[r].status = "awaiting_review"
      /\ run' = [run EXCEPT ![r].status = "rejected"]
      /\ tree' = [tree EXCEPT ![l] = back]
  BY DEF Reject, ResetHard, gitVars
<1>2. l \in Lanes /\ r \in Started  BY <1>1 DEF TypeOK, Started
<1>3. back \in [Paths -> Contents]  BY <1>2, HeadIs DEF TypeOK
<1>4. /\ tree' \in [Lanes -> [Paths -> Contents]]
      /\ \A m \in Lanes : m # l => tree'[m] = tree[m]
      /\ \A p \in Paths \ Ignored : tree'[l][p] = HeadOf(l)[p]
  BY <1>1, <1>2, <1>3 DEF TypeOK
<1>5. /\ run' \in [Runs -> Records] /\ run'[r].status = "rejected" /\ run'[r].lane = l
      /\ run'[r].base = run[r].base /\ run'[r].top = run[r].top
      /\ \A q \in Runs : q # r => run'[q] = run[q]
  <2>1. run[r] \in Records /\ [run[r] EXCEPT !.status = "rejected"] \in Records
    BY DEF TypeOK, Records, Statuses
  <2> QED  BY <1>1, <2>1 DEF TypeOK, Records
<1>6. Moves(r)  BY <1>1, <1>5 DEF Moves, Active
<1>7. Newest' /\ Started' = Started  BY <1>6, NewestStays DEF Git
<1>8. \A m \in Lanes : HeadOf(m)' = HeadOf(m)  BY <1>1 DEF HeadOf, Original
<1>9. \A q \in Runs : run'[q].lane = run[q].lane /\ run'[q].base = run[q].base
                      /\ run'[q].top = run[q].top /\ (q # r => run'[q].status = run[q].status)
  BY <1>5
<1> HIDE DEF l, back
<1>10. Trees'
  <2> SUFFICES ASSUME NEW m \in Lanes \ own, NEW q \in Paths \ Ignored,
                      NEW c, c = tree'[m][q], NEW h, h = HeadOf(m)[q]
               PROVE  /\ c \in Runs => run'[c].status \notin {"none", "rejected"} /\ run'[c].lane = m
                      /\ h \in Runs =>
                            /\ run'[h].status
                                 \notin {"none", "running", "awaiting_review", "rejected"}
                            /\ run'[h].lane = m
    BY <1>1, <1>8 DEF Git, Trees
  <2>1. h \in Runs => /\ run[h].status \notin {"none", "running", "awaiting_review", "rejected"}
                      /\ run[h].lane = m
    BY DEF Git, Trees
  <2>2. h \in Runs => h # r /\ run'[h] = run[h]  BY <1>1, <1>5, <2>1
  <2>3. CASE m = l  BY <1>4, <2>1, <2>2, <2>3
  <2>4. CASE m # l
    <3>1. c = tree[m][q]  BY <1>4, <2>4
    <3>2. c \in Runs => run[c].status \notin {"none", "rejected"} /\ run[c].lane = m
      BY <3>1 DEF Git, Trees
    <3>3. c \in Runs => c # r /\ run'[c] = run[c]  BY <1>5, <2>4, <3>2 DEF l
    <3> QED  BY <2>1, <2>2, <3>2, <3>3
  <2> QED  BY <2>3, <2>4
<1>11. Branches'
  <2>1. \A q \in Runs : run'[q].status = "approved" <=> run[q].status = "approved"
    BY <1>1, <1>5, <1>9
  <2>2. \A m \in Lanes : InLane(m, {"approved"})' = InLane(m, {"approved"})
    BY <1>9, <2>1 DEF InLane
  <2>3. \A q \in Runs : run[q].status = "approved" => run[q].lane \in Lanes
    BY DEF TypeOK, Started
  <2>4. Started \subseteq Runs  BY DEF Started
  <2> QED  BY <1>1, <1>7, <1>9, <2>1, <2>2, <2>3, <2>4 DEF Git, Branches, InLane
<1>12. \A q \in Started' : run'[q].lane \in Lanes
  BY <1>7, <1>9 DEF TypeOK, Started
<1>13. ~Busy(r)  BY <1>1 DEF Children, Live
<1>14. \A q \in Started : q \in Started' /\ run'[q].lane = run[q].lane  BY <1>7, <1>9 DEF Started
<1> QED  BY <1>1, <1>4, <1>5, <1>7, <1>10, <1>11, <1>12, <1>13, <1>14 DEF Git


-----------------------------------------------------------------------------
(* Every step, and the theorems.                                           *)

LEMMA InitInv == Init => Inv
<1> SUFFICES ASSUME Init  PROVE Inv
  OBVIOUS
<1>0. MaxRuns \in Nat /\ NoRun \in 0 .. MaxRuns  BY PathsAssumption DEF NoRun
<1>1. /\ run = [r \in Runs |-> NotStarted] /\ aborted = {} /\ left = {} /\ outside = {} /\ own = {}
      /\ tree = [l \in Lanes |-> Original] /\ branch = [l \in Lanes |-> <<>>]
      /\ current = [k \in 0 .. MaxRuns |-> NoRun] /\ command = [r \in Runs |-> Idle]
  BY DEF Init
<1>2. \A r \in Runs : run[r] = NotStarted /\ command[r] = Idle  BY <1>1
<1>3. NotStarted \in Records /\ Idle \in Commands /\ NotStarted.status = "none"
      /\ Idle.st = "none"
  BY DEF NotStarted, Records, Statuses, Idle, Commands, Stages
<1>4. Original \in [Paths -> Contents] /\ \A p \in Paths : Original[p] \notin Runs
  BY <1>0 DEF Original, Contents, Old, Absent, Runs
<1>5. Started = {}  BY <1>2, <1>3 DEF Started
<1>6. TypeOK
  <2>1. <<>> \in Seq([Paths -> Contents])  OBVIOUS
  <2> QED  BY <1>0, <1>1, <1>3, <1>4, <1>5, <2>1 DEF TypeOK
<1>7. Children
  <2>1. \A r \in Runs : ~Busy(r)  BY <1>2, <1>3 DEF Busy
  <2>2. \A k \in 0 .. MaxRuns : current[k] = NoRun  BY <1>1
  <2> QED  BY <1>2, <1>3, <2>1, <2>2 DEF Children
<1>8. CommandsAreStopped  BY <1>2, <1>3 DEF CommandsAreStopped
<1>9. Newest  BY <1>2, <1>3, <1>5 DEF Newest, Active
<1>10. Trees
  <2>1. \A l \in Lanes : tree[l] = Original /\ HeadOf(l) = Original  BY <1>1 DEF HeadOf
  <2> QED  BY <1>1, <1>4, <2>1 DEF Trees
<1>11. Branches  BY <1>2, <1>3, <1>5 DEF Branches
<1>12. Escapes  BY <1>1 DEF Escapes
<1> QED  BY <1>6, <1>7, <1>8, <1>9, <1>10, <1>11, <1>12 DEF Inv

\* A call of a tool, an interrupt or a timeout.
LEMMA ToolsHold ==
  ASSUME Inv, NEW r \in Runs, ToolStep(r), UNCHANGED gitVars
  PROVE  Inv'
<1>1. UNCHANGED <<branch, own>>  BY DEF gitVars
<1>2. Git /\ TypeOK /\ Children /\ CommandsAreStopped /\ Escapes  BY DEF Inv, Git
<1>3. CASE Bash(r) \/ Interrupt(r) \/ TimeOut(r) \/ Closes(r)
  <2>1. /\ Children' /\ CommandsAreStopped' /\ current' \in [0 .. MaxRuns -> 0 .. MaxRuns]
        /\ command' \in [Runs -> Commands] /\ aborted' \subseteq Runs
        /\ UNCHANGED <<run, tree>>
    <3>1. CASE Bash(r)
      <4>1. aborted' \subseteq Runs  BY <1>2, <3>1, BashMarks DEF TypeOK
      <4> QED  BY <1>2, <3>1, <4>1, BashMarks, BashStep
    <3>2. CASE Interrupt(r) \/ TimeOut(r)  BY <1>2, <3>2, StopStep
    <3>3. CASE Closes(r)
      <4>1. aborted' \subseteq Runs  BY <1>2, <3>3, ClosesStep DEF TypeOK
      <4> QED  BY <1>2, <3>3, <4>1, ClosesStep
    <3> QED  BY <1>3, <3>1, <3>2, <3>3
  <2>2. Git'  BY <1>1, <1>2, <2>1, GitStays
  <2>3. UNCHANGED writtenVars /\ left \subseteq left' /\ left' \subseteq left \cup {run[r].lane}
    BY <1>3 DEF Bash, Interrupt, TimeOut, Closes
  <2>4. left' \subseteq Lanes
    <3>1. CASE Closes(r)
      <4>1. AtWork(r)  BY <3>1 DEF Closes, AtWork
      <4> QED  BY <1>2, <2>3, <4>1, LaneAtWork DEF TypeOK
    <3>2. CASE ~Closes(r)
      <4>1. left' = left  BY <1>3, <3>2 DEF Bash, Interrupt, TimeOut
      <4> QED  BY <1>2, <4>1 DEF TypeOK
    <3> QED  BY <3>1, <3>2
  <2>5. TypeOK'  BY <1>1, <1>2, <2>1, <2>4 DEF TypeOK, Started
  <2>6. Escapes'  BY <1>2, <2>1, <2>3, EscapesStay DEF Started, writtenVars
  <2> QED  BY <2>1, <2>2, <2>5, <2>6 DEF Inv, Git
<1>4. ASSUME NEW p \in Paths, LinksOut(r, p) \/ StrReplace(r, p) \/ Create(r, p)
      PROVE  Inv'
  <2>1. /\ Git' /\ tree' \in [Lanes -> [Paths -> Contents]]
        /\ UNCHANGED <<run, aborted, left, commandVars>>
    BY <1>2, <1>4, WriteStep, LinksOutStep
  <2>2. Children' /\ CommandsAreStopped' /\ current' \in [0 .. MaxRuns -> 0 .. MaxRuns]
        /\ command' \in [Runs -> Commands]
    BY <1>2, <2>1, CommandsStay
  <2>3. TypeOK'  BY <1>1, <1>2, <2>1, <2>2 DEF TypeOK, Started
  <2>4. Escapes'
    <3>1. CASE LinksOut(r, p)
      <4>1. UNCHANGED writtenVars  BY <3>1 DEF LinksOut
      <4> QED  BY <1>2, <2>1, <4>1, EscapesStay DEF Started, writtenVars
    <3>2. CASE StrReplace(r, p) \/ Create(r, p)  BY <1>2, <3>2, WriteStep
    <3> QED  BY <1>4, <3>1, <3>2
  <2> QED  BY <2>1, <2>2, <2>3, <2>4 DEF Inv, Git
<1> QED  BY <1>3, <1>4 DEF ToolStep

LEMMA NextInv ==
  ASSUME Inv, [Next]_vars
  PROVE  Inv'
<1>1. Git /\ TypeOK /\ Children /\ CommandsAreStopped /\ Escapes  BY DEF Inv, Git
<1>2. ASSUME /\ Git' /\ run' \in [Runs -> Records] /\ aborted' \subseteq Runs /\ own' \subseteq Lanes
             /\ tree' \in [Lanes -> [Paths -> Contents]]
             /\ branch' \in [Lanes -> Seq([Paths -> Contents])]
             /\ \A q \in Started' : run'[q].lane \in Lanes
             /\ \A q \in Runs : Busy(q) => run'[q].own = run[q].own /\ run'[q].status = run[q].status
             /\ UNCHANGED <<left, writtenVars, commandVars>>
             /\ \A q \in Started : q \in Started' /\ run'[q].lane = run[q].lane
      PROVE  Inv'
  <2>1. Children' /\ CommandsAreStopped' /\ current' \in [0 .. MaxRuns -> 0 .. MaxRuns]
        /\ command' \in [Runs -> Commands]
    BY <1>1, <1>2, CommandsStay
  <2>2. TypeOK'  BY <1>1, <1>2, <2>1 DEF TypeOK
  <2>3. Escapes'  BY <1>1, <1>2, EscapesStay DEF writtenVars
  <2> QED  BY <1>2, <2>1, <2>2, <2>3 DEF Inv, Git
<1>3. /\ run \in [Runs -> Records] /\ aborted \subseteq Runs /\ own \subseteq Lanes
      /\ tree \in [Lanes -> [Paths -> Contents]] /\ branch \in [Lanes -> Seq([Paths -> Contents])]
      /\ \A q \in Started : run[q].lane \in Lanes
  BY <1>1 DEF TypeOK
<1>4. ASSUME NEW l \in Lanes, NEW revise \in BOOLEAN, Start(l, revise)  PROVE Inv'
  <2>1. aborted' \subseteq Runs /\ own' \subseteq Lanes  BY <1>1, <1>3, <1>4, StartStep
  <2>2. UNCHANGED <<left, writtenVars>>  BY <1>4 DEF Start
  <2> QED  BY <1>1, <1>2, <1>4, <2>1, <2>2, StartStep
<1>5. ASSUME NEW r \in Runs, ToolStep(r), UNCHANGED gitVars  PROVE Inv'
  BY <1>5, ToolsHold
<1>6. ASSUME NEW r \in Runs, CommandCommits(r)  PROVE Inv'
  <2>1. /\ Git' /\ branch' \in [Lanes -> Seq([Paths -> Contents])] /\ own' \subseteq Lanes
        /\ run' = run /\ aborted' = aborted /\ tree' = tree /\ UNCHANGED commandVars
    BY <1>1, <1>6, CommandCommitsStep
  <2>2. \A q \in Started' : run'[q].lane \in Lanes  BY <1>3, <2>1 DEF Started
  <2>3. UNCHANGED <<left, writtenVars>>  BY <1>6 DEF CommandCommits
  <2> QED  BY <1>2, <1>3, <2>1, <2>2, <2>3 DEF Started
<1>7. ASSUME NEW r \in Runs, Finish(r) \/ Fail(r)  PROVE Inv'
  <2>1. /\ tree' = tree /\ branch' = branch /\ own' = own
    BY <1>1, <1>7, EndStep
  <2>2. \A q \in Runs : Busy(q) => run'[q] = run[q]  BY <1>1, <1>7, EndStep
  <2>3. UNCHANGED <<left, writtenVars>>  BY <1>7 DEF Finish, Fail
  <2> QED  BY <1>1, <1>2, <1>3, <1>7, <2>1, <2>2, <2>3, EndStep
<1>8. ASSUME NEW r \in Runs, Approve(r)  PROVE Inv'
  <2>1. aborted' = aborted /\ tree' = tree /\ own' = own  BY <1>1, <1>8, ApproveStep
  <2>2. \A q \in Runs : Busy(q) => run'[q] = run[q]  BY <1>1, <1>8, ApproveStep
  <2>3. UNCHANGED <<left, writtenVars>>  BY <1>8 DEF Approve
  <2> QED  BY <1>1, <1>2, <1>3, <1>8, <2>1, <2>2, <2>3, ApproveStep
<1>9. ASSUME NEW r \in Runs, Reject(r)  PROVE Inv'
  <2>1. aborted' = aborted /\ branch' = branch /\ own' = own  BY <1>1, <1>9, RejectStep
  <2>2. \A q \in Runs : Busy(q) => run'[q] = run[q]  BY <1>1, <1>9, RejectStep
  <2>3. UNCHANGED <<left, writtenVars>>  BY <1>9 DEF Reject
  <2> QED  BY <1>1, <1>2, <1>3, <1>9, <2>1, <2>2, <2>3, RejectStep
<1>10. CASE UNCHANGED vars
  <2>1. /\ run' = run /\ aborted' = aborted /\ tree' = tree
        /\ UNCHANGED <<left, writtenVars, commandVars>> /\ branch' = branch /\ own' = own
    BY <1>10 DEF vars, commandVars, writtenVars
  <2>2. Git'  BY <1>1, <2>1, GitStays
  <2>3. \A q \in Started' : run'[q].lane \in Lanes  BY <1>3, <2>1 DEF Started
  <2> QED  BY <1>2, <1>3, <2>1, <2>2, <2>3 DEF Started
<1> QED  BY <1>4, <1>5, <1>6, <1>7, <1>8, <1>9, <1>10 DEF Next

THEOREM Invariance == Spec => []Inv
BY InitInv, NextInv, PTL DEF Spec

\* The shell of a command that was interrupted or ran out of time is killed and no other is, as
\* long as no other run of its registry has a command beside it (bash.ts, killCurrent).
THEOREM CommandsStopped == Spec => []CommandsAreStopped
<1>1. Inv => CommandsAreStopped  BY DEF Inv
<1> QED  BY <1>1, Invariance, PTL

\* A rejection leaves nothing of what the run's file tools wrote: not in the tree, not on the
\* branch, not outside the worktree - unless a command committed it, `create` met a dangling
\* link, or a process was left behind in the lane (paths.ts; reject.rb).
THEOREM RejectionUndoes == Spec => []RejectUndoes
<1>1. Inv => RejectUndoes
  <2> SUFFICES ASSUME Inv, NEW r \in Runs, run[r].status = "rejected", NEW l, l = run[r].lane
               PROVE  /\ r \in outside => r \in through \/ l \in left
                      /\ l \notin own => \A p \in Paths \ Ignored : tree[l][p] # r /\ HeadOf(l)[p] # r
    BY DEF RejectUndoes
  <2>1. l \in Lanes  BY DEF Inv, TypeOK, Started
  <2> QED  BY <2>1 DEF Inv, Trees, Escapes
<1> QED  BY <1>1, Invariance, PTL

\* The newest listed run of a lane is the one whose changes stand against the others': a run
\* under review is newer than every approved one, and the newest approval ends the branch.
LEMMA ReportsComplete ==
  ASSUME Inv, NEW r \in Runs, run[r].status = "awaiting_review",
         NEW l \in Lanes \ {run[r].lane}, NEW p \in Changed(run[r].lane),
         \/ p \in Unreviewed(l) /\ HeadOf(l)[p] # Absent
         \/ /\ l \notin own
            /\ \E s \in InLane(l, {"approved"}) :
                 p \in Approved(s) /\ \A t \in InLane(l, Listed) : t <= s
  PROVE  <<p, l>> \in Conflicts(r)
<1>1. ASSUME NEW s \in Siblings(r), run[s].lane = l, p \in ChangedPaths(s)
      PROVE  <<p, l>> \in Conflicts(r)
  BY <1>1 DEF Conflicts
<1>2. CASE p \in Unreviewed(l) /\ HeadOf(l)[p] # Absent
  <2>1. PICK s \in InLane(l, {"awaiting_review"}) : p \in Changed(l)  BY <1>2 DEF Unreviewed
  <2>2. s \in Runs /\ run[s].lane = l /\ run[s].status = "awaiting_review"  BY DEF InLane
  <2>3. \A t \in InLane(l, Listed) : t <= s
    <3>1. \A t \in InLane(l, Listed) : t \in Started /\ run[t].lane = l
      BY DEF InLane, Listed, Started
    <3> QED  BY <2>2, <3>1 DEF Inv, Newest, Active
  <2>4. s \in Siblings(r)  BY <2>2, <2>3 DEF Siblings, Listed
  <2>5. p \in ChangedPaths(s)  BY <1>2, <2>1, <2>2 DEF ChangedPaths
  <2> QED  BY <1>1, <2>2, <2>4, <2>5
<1>3. CASE /\ l \notin own
           /\ \E s \in InLane(l, {"approved"}) :
                p \in Approved(s) /\ \A t \in InLane(l, Listed) : t <= s
  <2>1. PICK s \in InLane(l, {"approved"}) : p \in Approved(s) /\ \A t \in InLane(l, Listed) : t <= s
    BY <1>3
  <2>2. s \in Runs /\ run[s].lane = l /\ run[s].status = "approved"  BY DEF InLane
  <2>3. s \in Siblings(r)  BY <2>1, <2>2 DEF Siblings, Listed
  <2>4. \A t \in InLane(l, {"approved"}) : t <= s  BY <2>1 DEF InLane, Listed
  <2>5. run[s].top = Len(branch[l]) /\ run[s].top \in 1 .. Len(branch[l])
    BY <1>3, <2>2, <2>4 DEF Inv, Branches
  <2>6. HeadOf(l) = branch[l][run[s].top]
    <3>1. branch[l] # <<>>  BY <2>5
    <3> QED  BY <2>5, <3>1, HeadIs DEF Inv
  <2>7. p \in Paths /\ p \in ChangedPaths(s)
    BY <2>1, <2>2, <2>6 DEF ChangedPaths, Approved
  <2> QED  BY <1>1, <2>2, <2>3, <2>7
<1> QED  BY <1>2, <1>3

LEMMA ReportsTrue ==
  ASSUME Inv, NEW r \in Runs, run[r].status = "awaiting_review",
         NEW l \in Lanes \ {run[r].lane}, NEW p \in Changed(run[r].lane),
         <<p, l>> \in Conflicts(r), l \notin own
  PROVE  p \in Unreviewed(l) \/ \E s \in InLane(l, {"approved"}) : p \in Approved(s)
<1>1. PICK s \in Siblings(r) : run[s].lane = l /\ p \in ChangedPaths(s)
  BY DEF Conflicts
<1>2. s \in Runs /\ run[s].status \in Listed /\ \A t \in InLane(l, Listed) : t <= s
  BY <1>1 DEF Siblings
<1>3. CASE run[s].status = "awaiting_review"
  BY <1>1, <1>2, <1>3 DEF ChangedPaths, Unreviewed, InLane
<1>4. CASE run[s].status = "approved"
  <2>1. \A t \in InLane(l, {"approved"}) : t <= s  BY <1>2 DEF InLane, Listed
  <2>2. run[s].top = Len(branch[l]) /\ run[s].top \in 1 .. Len(branch[l])
    BY <1>1, <1>2, <1>4, <2>1 DEF Inv, Branches
  <2>3. HeadOf(l) = branch[l][run[s].top]
    <3>1. branch[l] # <<>>  BY <2>2
    <3> QED  BY <2>2, <3>1, HeadIs DEF Inv
  <2>4. p \in Approved(s)  BY <1>1, <1>4, <2>3 DEF ChangedPaths, Approved
  <2> QED  BY <1>1, <1>2, <1>4, <2>4 DEF InLane
<1> QED  BY <1>2, <1>3, <1>4 DEF Listed

\* The diff of a run under review reports what the other lanes have changed too, and nothing
\* else, but for the files and approvals it does not look at (lane_conflicts.rb).
THEOREM ConflictsReported == Spec => []ConflictsAreReported
<1>1. Inv => ConflictsAreReported
  <2> SUFFICES ASSUME Inv, NEW r \in Runs, run[r].status = "awaiting_review",
                      NEW l \in Lanes \ {run[r].lane}, NEW p \in Changed(run[r].lane),
                      NEW approvals, approvals = {s \in InLane(l, {"approved"}) : p \in Approved(s)},
                      NEW newest, newest = {s \in approvals : \A t \in InLane(l, Listed) : t <= s}
               PROVE  /\ (p \in Unreviewed(l) /\ HeadOf(l)[p] # Absent) \/ (newest # {} /\ l \notin own)
                           => <<p, l>> \in Conflicts(r)
                      /\ <<p, l>> \in Conflicts(r) => p \in Unreviewed(l) \/ approvals # {} \/ l \in own
    BY DEF ConflictsAreReported
  <2>1. ASSUME newest # {}
        PROVE  \E s \in InLane(l, {"approved"}) :
                 p \in Approved(s) /\ \A t \in InLane(l, Listed) : t <= s
    BY <2>1
  <2>2. ASSUME <<p, l>> \in Conflicts(r), l \notin own
        PROVE  p \in Unreviewed(l) \/ approvals # {}
    BY <2>2, ReportsTrue
  <2> QED  BY <2>1, <2>2, ReportsComplete
<1> QED  BY <1>1, Invariance, PTL

=============================================================================
