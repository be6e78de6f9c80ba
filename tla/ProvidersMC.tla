---------------------------- MODULE ProvidersMC ----------------------------
(***************************************************************************)
(* Small instances for TLC of the two halves of an adapter, as two scenes  *)
(* that have no state in common: the credentials and models of Providers,  *)
(* and an answer on its way into the record (ProviderStream).              *)
(***************************************************************************)
EXTENDS Providers, ProviderStream

CONSTANTS opus, old, nova, pegasus, canvas

VARIABLE scene

NoVars == [apiKey |-> "unset", authToken |-> "unset", profile |-> FALSE, wif |-> FALSE,
           oauthToken |-> FALSE, awsProfile |-> FALSE, harnessProfile |-> "unset", region |-> TRUE]
NoLogins == [named |-> FALSE, active |-> FALSE, claude |-> "absent", keychain |-> "absent",
             aws |-> FALSE]

\* One variable set at a time, and the pairs of which one hides the other.
SomeEnvs ==
  { NoVars,
    [NoVars EXCEPT !.apiKey = "set", !.awsProfile = TRUE],
    [NoVars EXCEPT !.apiKey = "blank", !.oauthToken = TRUE, !.region = FALSE],
    [NoVars EXCEPT !.authToken = "set", !.harnessProfile = "blank", !.awsProfile = TRUE],
    [NoVars EXCEPT !.profile = TRUE],
    [NoVars EXCEPT !.wif = TRUE, !.harnessProfile = "set"],
    [NoVars EXCEPT !.oauthToken = TRUE] }

SomeHosts ==
  { NoLogins,
    [NoLogins EXCEPT !.active = TRUE, !.claude = "mcp"],
    [NoLogins EXCEPT !.named = TRUE, !.active = TRUE, !.claude = "live"],
    [NoLogins EXCEPT !.claude = "live", !.aws = TRUE],
    [NoLogins EXCEPT !.claude = "expired", !.keychain = "live"],
    [NoLogins EXCEPT !.keychain = "live"],
    [NoLogins EXCEPT !.keychain = "expired"],
    [NoLogins EXCEPT !.keychain = "refused"],
    [NoLogins EXCEPT !.claude = "empty", !.keychain = "empty", !.aws = TRUE] }

AllIds       == {opus, old, nova, pegasus, canvas}
AnthropicIds == {opus, old}
OldIds       == {old}
RefusedIds   == {pegasus}
TextIds      == {opus, old, nova, pegasus}
ScopeRank    == [global |-> 0, us |-> 1, ca |-> 9]

\* A page that is listed twice as the account changes, an account with nothing, and one of each.
SomeCatalogues ==
  { <<>>,
    << <<"us", opus>>, <<"global", opus>>, <<"us", nova>>, <<"us", opus>>, <<"global", nova>> >>,
    << <<"ca", nova>>, <<"ca", old>>, <<"us", pegasus>>, <<"us", canvas>>, <<"ca", opus>>,
       <<"ca", opus>> >> }

-----------------------------------------------------------------------------
SceneInit ==
  /\ Init /\ StreamInit
  /\ \/ scene = "uses" /\ path = "family"
     \/ scene = "stream" /\ env = NoVars /\ at = NoLogins

SceneNext ==
  \/ scene = "uses" /\ Next /\ UNCHANGED <<scene, streamVars>>
  \/ scene = "stream" /\ StreamNext /\ UNCHANGED <<scene, vars>>

SceneSpec == SceneInit /\ [][SceneNext]_<<scene, vars, streamVars>>
=============================================================================
