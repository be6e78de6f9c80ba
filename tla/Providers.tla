----------------------------- MODULE Providers -----------------------------
(***************************************************************************)
(* The four adapters of the harness, asked what they serve (GET /models),  *)
(* asked whether they work (POST /verify), and used by a run.  Each use    *)
(* has its own instance of the adapter.  An adapter looks for its          *)
(* credential again every time it builds a client, and between two looks   *)
(* the provider is answering and the host may change.                      *)
(***************************************************************************)
EXTENDS Credentials, BedrockCatalogue, FiniteSets

CONSTANTS
  MaxUses,    \* uses of the adapters at one time, a bound of the model
  Envs,       \* the variables a harness may be started with
  Hosts,      \* the logins a host may hold
  Catalogues  \* what AWS may list

ASSUME ProvidersAssumption ==
  /\ MaxUses \in Nat
  /\ Envs \subseteq EnvVars /\ Hosts \subseteq Logins /\ Catalogues \subseteq Seq(Profile)

ADAPTER_IDS == {"direct", "oauth", "bedrock", "converse"}
OnAws == {"bedrock", "converse"}
Ops == {"models", "verify", "run"}

VARIABLES
  env,          \* process.env
  at,           \* the logins of the host
  readFailed,   \* the Keychain's secret could not be read
  call          \* what each use of an adapter is waiting for, and what it has found

vars == <<env, at, readFailed, call>>

Reports == {"none", "no_credential", "credential_expired", "not_entitled", "unreachable",
            "available", "no_models", "api_error", "ok"}

Sources == DirectSources \cup OauthSources \cup {"none", "aws_profile", "aws_files"}
Clients == Sources \cup {"session_profile", "harness_profile", "ambient"}

Use == [stage : {"idle", "probing", "listing", "sending", "sent", "settled"}, source : Sources,
        token : {"unasked", "held", "null"}, profile : BOOLEAN, carried : Clients,
        report : Reports, offered : SUBSET (Profile \cup {<<"", "direct">>, <<"", "oauth">>}),
        moved : BOOLEAN]

TypeOK ==
  /\ env \in Envs /\ at \in Hosts
  /\ readFailed \in BOOLEAN
  /\ call \in [Ops -> [ADAPTER_IDS -> Use]]

\* token is what the instance remembers of the Keychain; profile says that the session names an
\* AWS profile; source is what the probe discovered and carried is what the last client was built
\* with; moved, that the host has changed in between.
Fresh == [stage |-> "idle", source |-> "none", token |-> "unasked", profile |-> FALSE,
          carried |-> "none", report |-> "none", offered |-> {}, moved |-> FALSE]

Idle(op) == \A a \in ADAPTER_IDS : call[op][a].stage = "idle"

May(op) == Idle(op) /\ Cardinality({x \in Ops : ~Idle(x)}) < MaxUses

-----------------------------------------------------------------------------
\* The Keychain is read when the item is what is discovered, once by each instance and not again
\* by a process that was refused.
Source(a) == IF a \in OnAws THEN DiscoverAws(env, at) ELSE DiscoverAnthropic(env, at)

Reads(a, c) == a = "oauth" /\ Source(a).source = "keychain" /\ c.token = "unasked"

Remembered(a, c) ==
  IF ~Reads(a, c) THEN c.token
  ELSE IF KeychainRead(at, readFailed).token THEN "held" ELSE "null"

WithClient(a, c) ==
  LET token == Remembered(a, c)
  IN  [c EXCEPT !.token = token,
                !.carried = CASE a = "direct" -> DirectClient(env, at)
                              [] a = "oauth"  -> OauthClient(env, at, token = "held")
                              [] OTHER        -> AwsClient(env, c.profile)]

\* What happens to the process when these uses look at the Keychain, all of them in one go.
KeychainAfter(readers) ==
  readFailed' = IF readers = {} THEN readFailed ELSE KeychainRead(at, readFailed).failed

\* What a probe refuses before it sends anything: a credential that is another adapter's, a login
\* that the Keychain does not hand out, an account without a region.
ServesNot(a, c, source) ==
  \/ a = "direct" /\ source \notin DirectSources
  \/ a = "oauth" /\ source \notin OauthSources
  \/ a = "oauth" /\ source = "keychain" /\ Remembered(a, c) # "held"
  \/ a \in OnAws /\ ~env.region

Unusable(a, c) ==
  LET found == Source(a)
  IN  CASE found.source = "none" -> "no_credential"
        [] found.source # "none" /\ ~found.usable -> "credential_expired"
        [] found.usable /\ ServesNot(a, c, found.source) -> "no_credential"
        [] OTHER -> "none"

Probed(a, c) ==
  IF Unusable(a, c) # "none"
  THEN [c EXCEPT !.stage = "settled", !.report = Unusable(a, c), !.token = Remembered(a, c)]
  ELSE [WithClient(a, c) EXCEPT !.stage = IF a \in OnAws THEN "listing" ELSE "probing",
                                !.source = Source(a).source]

\* External: what a provider may answer to a credential. Nothing is sent without one.
Answers(carried) ==
  CASE carried = "none" -> {"unsent"}
    [] carried = "api_key" /\ env.apiKey = "blank" -> {"rejected"}
    [] carried = "auth_token" /\ env.authToken = "blank" -> {"rejected"}
    [] OTHER -> {"ok", "rejected", "forbidden", "failed"}

\* classifyProbeFailure.
Classified(answer) ==
  CASE answer = "rejected"  -> "credential_expired"
    [] answer = "forbidden" -> "not_entitled"
    [] answer = "unsent"    -> "no_credential"
    [] OTHER                -> "unreachable"

\* A listing that fails: the reason the adapter has put on the exception, if it has put one on it.
Described(a, answer) == IF a = "bedrock" THEN Classified(answer) ELSE "unreachable"

\* classifyStreamError.
Verdict(answer) == IF answer \in {"rejected", "forbidden"} THEN Classified(answer) ELSE "api_error"

-----------------------------------------------------------------------------
Set(op, a, c) == call' = [call EXCEPT ![op][a] = c]

Settled(c, report) == [c EXCEPT !.stage = "settled", !.report = report, !.carried = "none"]

\* GET /models and POST /verify: every adapter is probed before any of them is answered.
Asks(op) ==
  /\ op # "run" /\ May(op)
  /\ call' = [call EXCEPT ![op] = [a \in ADAPTER_IDS |-> Probed(a, Fresh)]]
  /\ KeychainAfter({a \in ADAPTER_IDS : Reads(a, Fresh)})
  /\ UNCHANGED <<env, at>>

ProbeAnswered(op, a) ==
  /\ op # "run" /\ call[op][a].stage = "probing"
  /\ \E answer \in Answers(call[op][a].carried) :
       \/ /\ answer = "ok"
          /\ Set(op, a, [WithClient(a, call[op][a]) EXCEPT !.stage = "listing"])
          /\ KeychainAfter({x \in {a} : Reads(x, call[op][a])})
       \/ /\ answer # "ok"
          /\ Set(op, a, Settled(call[op][a], Classified(answer)))
          /\ UNCHANGED readFailed
  /\ UNCHANGED <<env, at>>

\* What a listing may hold: an account may have been given no model at all.
Listings(a) == IF a \in OnAws THEN {Offers(a, listed) : listed \in Catalogues} ELSE {{}, {<<"", a>>}}

\* A provider that lists its models. Bedrock takes an empty list for a failure.
Lists(op, a) ==
  /\ call[op][a].stage = "listing" /\ "ok" \in Answers(call[op][a].carried)
  /\ \E models \in Listings(a) :
       /\ models # {} \/ a # "bedrock"
       /\ \/ /\ op = "models"
             /\ Set(op, a, [Settled(call[op][a], "available") EXCEPT
                              !.offered = models, !.carried = call[op][a].carried])
             /\ UNCHANGED readFailed
          \/ /\ op = "verify" /\ models = {}
             /\ Set(op, a, Settled(call[op][a], "no_models"))
             /\ UNCHANGED readFailed
          \/ /\ op = "verify" /\ models # {}
             /\ Set(op, a, [WithClient(a, call[op][a]) EXCEPT !.stage = "sending"])
             /\ KeychainAfter({x \in {a} : Reads(x, call[op][a])})
  /\ UNCHANGED <<env, at>>

\* What is caught is described. In a verification nothing is caught: the request has failed, and
\* the other providers go on unheard.
Told(op, a, answer) ==
  CASE op = "verify" -> "none"
    [] op = "models" /\ answer = "ok" -> "unreachable"
    [] OTHER -> Described(a, answer)

\* A provider that does not, or that lists nothing where that is taken for a failure.
ListingFails(op, a) ==
  /\ call[op][a].stage = "listing"
  /\ \E answer \in Answers(call[op][a].carried) :
       /\ answer # "ok" \/ (a = "bedrock" /\ {} \in Listings(a))
       /\ Set(op, a, Settled(call[op][a], Told(op, a, answer)))
  /\ UNCHANGED <<env, at, readFailed>>

\* The least turn of a verification, through the path a run takes.
Sent(a) ==
  /\ call["verify"][a].stage = "sending"
  /\ \E answer \in Answers(call["verify"][a].carried) :
       Set("verify", a, Settled(call["verify"][a], IF answer = "ok" THEN "ok" ELSE Verdict(answer)))
  /\ UNCHANGED <<env, at, readFailed>>

\* The request is answered, and what was built for it is dropped.
Responds(op) ==
  /\ op # "run" /\ \A a \in ADAPTER_IDS : call[op][a].stage = "settled"
  /\ call' = [call EXCEPT ![op] = [a \in ADAPTER_IDS |-> Fresh]]
  /\ UNCHANGED <<env, at, readFailed>>

-----------------------------------------------------------------------------
\* A run keeps one instance for all its turns. A turn probes, records the source, and sends.
Sends(a, c, recorded) ==
  [WithClient(a, c) EXCEPT !.stage = "sent", !.report = "none", !.source = recorded]

\* The probe of a turn that asks nobody: recorded and sent at once.
TurnSends(a, c) ==
  LET p == Probed(a, c)
  IN  IF p.stage = "probing" THEN p
      ELSE Sends(a, p, IF p.stage = "settled" THEN "none" ELSE p.source)

StartsRun(a, profile) ==
  /\ May("run")
  /\ LET c == [Fresh EXCEPT !.profile = profile]
     IN  /\ Set("run", a, TurnSends(a, c))
         /\ KeychainAfter({x \in {a} : Reads(x, c)})
  /\ UNCHANGED <<env, at>>

TurnProbed(a) ==
  /\ call["run"][a].stage = "probing"
  /\ \E answer \in Answers(call["run"][a].carried) :
       LET c == call["run"][a]
       IN  /\ Set("run", a, Sends(a, c, IF answer = "ok" THEN c.source ELSE "none"))
           /\ KeychainAfter({x \in {a} : Reads(x, c)})
  /\ UNCHANGED <<env, at>>

\* The model has answered with calls of tools, and the next turn begins.
NextTurn(a) ==
  /\ call["run"][a].stage = "sent" /\ "ok" \in Answers(call["run"][a].carried)
  /\ LET c == [call["run"][a] EXCEPT !.moved = FALSE, !.source = "none", !.carried = "none"]
     IN  /\ Set("run", a, TurnSends(a, c))
         /\ KeychainAfter({x \in {a} : Reads(x, c)})
  /\ UNCHANGED <<env, at>>

\* The last answer, or a failure.
EndsRun(a) ==
  /\ call["run"][a].stage = "sent"
  /\ Set("run", a, Fresh)
  /\ UNCHANGED <<env, at, readFailed>>

-----------------------------------------------------------------------------
\* A login is made, renewed or removed, or runs out.
HostChanges ==
  /\ at' \in Hosts \ {at}
  /\ call' = [op \in DOMAIN call |-> [a \in ADAPTER_IDS |->
                [call[op][a] EXCEPT !.moved = @ \/ (op = "run" /\ call[op][a].stage = "probing")]]]
  /\ UNCHANGED <<env, readFailed>>

HarnessRestarts ==
  /\ env' \in Envs
  /\ readFailed' = FALSE
  /\ call' = [op \in DOMAIN call |-> [a \in ADAPTER_IDS |-> Fresh]]
  /\ UNCHANGED at

Init ==
  /\ env \in Envs /\ at \in Hosts
  /\ readFailed = FALSE
  /\ call = [op \in Ops |-> [a \in ADAPTER_IDS |-> Fresh]]

Next ==
  \/ \E op \in Ops : Asks(op) \/ Responds(op)
  \/ \E op \in Ops, a \in ADAPTER_IDS : ProbeAnswered(op, a) \/ Lists(op, a) \/ ListingFails(op, a)
  \/ \E a \in ADAPTER_IDS : Sent(a) \/ TurnProbed(a) \/ NextTurn(a) \/ EndsRun(a)
  \/ \E a \in ADAPTER_IDS, profile \in BOOLEAN : StartsRun(a, profile)
  \/ HostChanges
  \/ HarnessRestarts

Spec == Init /\ [][Next]_vars

-----------------------------------------------------------------------------
\* An adapter that says it can be used.
Serves(op, a) ==
  \/ call[op][a].stage \in {"listing", "sending"}
  \/ call[op][a].report \in {"available", "ok", "no_models"}

\* Two adapters never offer one login as theirs: of the key's and the host login's, at most one
\* says in an answer that it can be used, whatever the host holds and however it changes
\* (DIRECT_SOURCES and OAUTH_SOURCES, which only the probes look at).
LoginInOneLane ==
  \A op \in {"models", "verify"} : ~(Serves(op, "direct") /\ Serves(op, "oauth"))

\* A key that is exported blank keeps its slot: neither adapter of Anthropic says that it can be
\* used, whichever logins the host has below it (the trap of discoverAnthropicCredential).
BlankKeyClaims ==
  env.apiKey = "blank" =>
    \A op \in {"models", "verify"} : ~Serves(op, "direct") /\ ~Serves(op, "oauth")

\* In one answer a model is offered once, by one adapter and in one scope, and only if it can
\* answer at all, though the two adapters list the account at different times
\* (isAnthropicProfileId, dedupeByModel, isInvocable, isServableAnthropicProfile).
ModelsOfferedOnce ==
  \A a, b \in OnAws : \A p \in call["models"][a].offered, q \in call["models"][b].offered :
    /\ ModelOf(p) = ModelOf(q) => a = b /\ p = q
    /\ ModelOf(p) \notin EndOfLife \cup NotInvocable

\* What a participant is offered, each login and each model of it once.
OfferedOnce == LoginInOneLane /\ BlankKeyClaims /\ ModelsOfferedOnce

\* What a run has recorded is what its request carries. The files of AWS hold its profiles.
Names(c) ==
  \/ c.source = c.carried
  \/ c.source = "aws_files" /\ c.carried \in {"session_profile", "harness_profile", "ambient"}

\* A source that a run records is the one its request carries, if the host has not changed while
\* the probe was being answered; a key or a token of the environment, even if it has. Left out are
\* a profile in whose place a Claude file is taken, and AWS_PROFILE when the session or the harness
\* names one, if only a blank one.
RecordHolds ==
  \A a \in ADAPTER_IDS :
    LET c == call["run"][a]
    IN  /\ c.stage = "sent" /\ c.source # "none"
        /\ ~c.moved \/ c.source \in {"api_key", "auth_token"}
        /\ ~(c.source \in {"active_profile", "named_profile"} /\ c.carried = "claude_file")
        /\ ~(c.source = "aws_profile" /\ (c.profile \/ env.harnessProfile # "unset"))
        => Names(c)
=============================================================================
