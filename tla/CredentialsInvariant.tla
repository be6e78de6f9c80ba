------------------------ MODULE CredentialsInvariant ------------------------
(***************************************************************************)
(* What every step of a listing, a verification or a run keeps, from which *)
(* ProviderProofs has what is offered and what is recorded.                *)
(***************************************************************************)
EXTENDS Providers

-----------------------------------------------------------------------------
(* What an answer offers.                                                  *)

\* A use that may still say that its provider serves, or has said so.
Engaged(op, a) ==
  \/ call[op][a].stage \in {"probing", "listing", "sending"}
  \/ call[op][a].report \in {"available", "ok", "no_models"}

\* OfferedOnce is not inductive: a provider that is being asked serves a moment later. What a
\* probe did not refuse is counted from the moment it was sent.
LaneInv == \A op \in {"models", "verify"} : ~(Engaged(op, "direct") /\ Engaged(op, "oauth"))

BlankInv ==
  env.apiKey = "blank" => \A op \in {"models", "verify"}, a \in {"direct", "oauth"} : ~Engaged(op, a)

\* What is offered is what one listing held.
ListInv ==
  \A a \in OnAws : \/ call["models"][a].offered = {}
                   \/ \E listed \in Catalogues : call["models"][a].offered = Offers(a, listed)

-----------------------------------------------------------------------------
(* What a run records.                                                     *)

\* RecordHolds, of one use.
Holds(c) ==
  /\ c.stage = "sent" /\ c.source # "none"
  /\ ~c.moved \/ c.source \in {"api_key", "auth_token"}
  /\ ~(c.source \in {"active_profile", "named_profile"} /\ c.carried = "claude_file")
  /\ ~(c.source = "aws_profile" /\ (c.profile \/ env.harnessProfile # "unset"))
  => Names(c)

\* While its probe is out, a turn's source is one of its adapter's, and is what would be
\* discovered now: of the environment always, else unless the host has changed.
Pending(a, c) ==
  /\ \/ a = "direct" /\ c.source \in DirectSources
     \/ a = "oauth" /\ c.source \in OauthSources
  /\ c.source = "keychain" => c.token = "held"
  /\ ~c.moved \/ c.source \in {"api_key", "auth_token"} => Source(a).source = c.source
  /\ ~c.moved /\ c.source = "claude_file" => HoldsFileToken(at)

\* RecordHolds is not inductive: what a turn sends is settled by what its probe found.
RunInv ==
  \A a \in ADAPTER_IDS :
    /\ call["run"][a].stage = "probing" => Pending(a, call["run"][a])
    /\ Holds(call["run"][a])
=============================================================================
