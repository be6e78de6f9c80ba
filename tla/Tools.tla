-------------------------------- MODULE Tools --------------------------------
(***************************************************************************)
(* The tools of a run that change something: the bash tool with the one    *)
(* child process it remembers (bash.ts), and the file tools with the path  *)
(* checks before each write (text_editor.ts, paths.ts).                    *)
(*                                                                         *)
(* A registry is built once per process and shared by every run without    *)
(* connectors or skills (supervisor.ts), so their bash calls share one     *)
(* `current`.  A run makes one call at a time.  The child is the shell: it *)
(* is all that is ever signalled, and what it has started goes on, while   *)
(* the call is open and after it.  A file is known by who wrote it last;   *)
(* text, sizes and binary content are left out.                            *)
(***************************************************************************)
EXTENDS Integers

CONSTANTS
  Lanes,        \* lanes of the session, each with its own worktree
  Paths,        \* paths a call may name
  Denied,       \* the paths among them on the denylist
  Equipped,     \* the runs with connectors or skills
  MaxRuns,      \* bound: runs started
  MaxCalls      \* bound: calls of tools, and links made by commands

ASSUME PathsAssumption == Denied \subseteq Paths /\ MaxRuns \in Nat /\ MaxCalls \in Nat

VARIABLES
  run,       \* ai_runs: lane, status, base_sha, and what its tools are bound to
  aborted,   \* the live runs whose AbortSignal has fired
  tree,      \* the files of each lane's worktree
  left,      \* the lanes where a process of a command has outlived its call
  outside,   \* history: the runs whose file tools wrote outside their worktree
  through,   \* history: those among them that wrote through a dangling link
  current,   \* BashTool.current of each registry: the run whose child it is, or NoRun
  command,   \* the bash call of each run
  calls      \* calls of tools, and links made by commands, so far

commandVars == <<current, command>>
writtenVars == <<outside, through>>

-----------------------------------------------------------------------------
Runs  == 1..MaxRuns
NoRun == 0

\* What a path holds: the content a run wrote last, or one of these.
Old      == 0     \* as in the repository the worktree was made from
Absent   == -1
Link     == -2    \* a link to a file outside the worktree
Dangling == -3    \* a link to a place outside it where there is no file yet

Idle == [st |-> "none", listens |-> FALSE, armed |-> FALSE, told |-> FALSE, mixed |-> FALSE]

Live(r) == run[r].status = "running"

\* A run with connectors or skills gets a registry, and a BashTool, of its own.
Registry(r) == IF run[r].own THEN r ELSE NoRun

\* The command of a call, or what an earlier one left behind, is at work in a lane.
AtWork(r) == command[r].st # "none" \/ run[r].lane \in left

Sharing(r) == {q \in Runs \ {r} : Registry(q) = Registry(r) /\ command[q].st # "none"}

-----------------------------------------------------------------------------
(* The bash tool.                                                          *)

\* killCurrent: SIGKILL to the shell it remembers, whoever spawned it, and to nothing else.
\* Faulty variant: nothing is signalled.
KilledNothing(registry) == command

Killed(registry) ==
  IF current[registry] = NoRun THEN command
  ELSE [command EXCEPT ![current[registry]].st = IF @ = "running" THEN "killed" ELSE @]

\* A call may restart first, which kills, and then spawn its command.  An abort that has
\* already fired never reaches the listener it adds.
Bash(r) ==
  /\ Live(r) /\ command[r].st = "none" /\ calls < MaxCalls
  /\ \E restart, given \in BOOLEAN :
       LET before == IF restart THEN Killed(Registry(r)) ELSE command
           met    == [q \in Runs |-> IF q \in Sharing(r) THEN [before[q] EXCEPT !.mixed = TRUE]
                                                         ELSE before[q]]
       IN  /\ restart \/ given
           /\ command' =
                IF given
                THEN [met EXCEPT ![r] = [st |-> "running", listens |-> r \notin aborted,
                                         armed |-> TRUE, told |-> FALSE,
                                         mixed |-> Sharing(r) # {}]]
                ELSE met
           /\ current' = [current EXCEPT ![Registry(r)] = IF given THEN r ELSE NoRun]
  /\ calls' = calls + 1
  /\ UNCHANGED <<run, aborted, tree, left, writtenVars>>

Stop(r) ==
  /\ command' = [Killed(Registry(r)) EXCEPT ![r].told = TRUE, ![r].listens = FALSE]
  /\ current' = [current EXCEPT ![Registry(r)] = NoRun]

\* The abort reaches the command through its listener only.
Interrupt(r) ==
  /\ Live(r) /\ r \notin aborted
  /\ aborted' = aborted \cup {r}
  /\ IF command[r].listens THEN Stop(r) ELSE UNCHANGED <<current, command>>
  /\ UNCHANGED <<run, tree, left, writtenVars, calls>>

\* BASH_TIMEOUT_MS, once per call.
TimeOut(r) ==
  /\ command[r].armed
  /\ command' = [Killed(Registry(r)) EXCEPT ![r].told = TRUE, ![r].armed = FALSE]
  /\ current' = [current EXCEPT ![Registry(r)] = NoRun]
  /\ UNCHANGED <<run, aborted, tree, left, writtenVars, calls>>

\* finish, on `close` or `error`: no process holds the pipe any more.  The call returns and
\* the remembered child is forgotten, whoever's it is; a process that has closed its output
\* may stay.
Closes(r) ==
  /\ command[r].st # "none"
  /\ command' = [command EXCEPT ![r] = Idle]
  /\ current' = [current EXCEPT ![Registry(r)] = NoRun]
  /\ \E stays \in BOOLEAN : left' = IF stays THEN left \cup {run[r].lane} ELSE left
  /\ UNCHANGED <<run, aborted, tree, writtenVars, calls>>

\* A command, its shell killed or not, replaces a path of its worktree by a link that leads
\* out of it.
LinksOut(r, p) ==
  /\ AtWork(r) /\ calls < MaxCalls
  /\ calls' = calls + 1
  /\ \E to \in {Link, Dangling} \ {tree[run[r].lane][p]} :
       tree' = [tree EXCEPT ![run[r].lane][p] = to]
  /\ UNCHANGED <<run, aborted, left, writtenVars, commandVars>>

-----------------------------------------------------------------------------
(* The file tools.  Each is synchronous: nothing of the harness runs       *)
(* between the check and the write, but what a command left behind may.    *)

\* writeFileSync follows a link, and makes the file a dangling one names.
WriteOut(r, p) ==
  /\ outside' = outside \cup {r}
  /\ tree' = [tree EXCEPT ![run[r].lane][p] = Link]

Write(r, p) ==
  /\ calls < MaxCalls
  /\ calls' = calls + 1
  /\ LET found == tree[run[r].lane][p] IN
     \/ /\ found \in {Link, Dangling}
        /\ WriteOut(r, p)
        /\ through' = IF found = Dangling THEN through \cup {r} ELSE through
     \/ /\ found \notin {Link, Dangling}
        /\ tree' = [tree EXCEPT ![run[r].lane][p] = r]
        /\ UNCHANGED writtenVars
     \/ /\ run[r].lane \in left
        /\ WriteOut(r, p)
        /\ UNCHANGED through
  /\ UNCHANGED <<run, aborted, left, commandVars>>

\* assertWritable: an existing file, not denied, whose real path is in the worktree.
\* Faulty variant: assertReadable, which follows links out of the worktree.
Readable(r, p) == p \notin Denied /\ tree[run[r].lane][p] \notin {Absent, Dangling}

Writable(r, p) == p \notin Denied /\ tree[run[r].lane][p] \notin {Absent, Link, Dangling}

\* containForCreate: a new file below a contained directory, or a writable one.  A dangling
\* link has no real path either, so it is taken for a new file.
Creatable(r, p) == p \notin Denied /\ tree[run[r].lane][p] # Link

CanCall(r) == Live(r) /\ command[r].st = "none"

\* str_replace and insert.
StrReplace(r, p) == CanCall(r) /\ Writable(r, p) /\ Write(r, p)

Create(r, p) == CanCall(r) /\ Creatable(r, p) /\ Write(r, p)

ToolStep(r) ==
  \/ Bash(r) \/ Interrupt(r) \/ TimeOut(r) \/ Closes(r)
  \/ \E p \in Paths : LinksOut(r, p) \/ StrReplace(r, p) \/ Create(r, p)

-----------------------------------------------------------------------------
\* The shell of a command that was interrupted or ran out of time is killed, and no other is,
\* unless another run of the same registry had a command at the same time: the registry
\* remembers one child, so a stop then reaches the shell started last, or none (bash.ts,
\* killCurrent; independent_interrupt.test.ts: an interrupt leaves the other lane running).
\* It says nothing of the processes the shell had started: they go on (LinksOut).
CommandsAreStopped ==
  \A r \in Runs : ~command[r].mixed =>
    /\ command[r].st = "running" => ~command[r].told
    /\ command[r].st = "killed" => command[r].told
=============================================================================
