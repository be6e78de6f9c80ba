---------------------------- MODULE Credentials ----------------------------
(***************************************************************************)
(* The logins of the host, and which of them a provider uses.  A host is a *)
(* record: the variables the process was started with, the files of the    *)
(* home directory and the item of the Keychain.  What is inside a login    *)
(* never matters here, only where it came from.                            *)
(***************************************************************************)
EXTENDS Integers, Sequences

\* Set at the start of a process and fixed while it runs. A key or a harness's profile that is
\* exported blank is "blank"; for the others, blank is unset. region is what AWS_REGION says, or
\* AWS_DEFAULT_REGION if it is not exported at all.
EnvVars ==
  [apiKey : {"unset", "blank", "set"}, authToken : {"unset", "blank", "set"},
   profile : BOOLEAN, wif : BOOLEAN, oauthToken : BOOLEAN,
   awsProfile : BOOLEAN, harnessProfile : {"unset", "blank", "set"}, region : BOOLEAN]

\* Changed by the user, by another program or by time. A file that holds only the logins of MCP
\* servers is "mcp"; an item that the Keychain lists and does not hand out is "refused".
Logins ==
  [named : BOOLEAN, active : BOOLEAN,
   claude : {"absent", "mcp", "unreadable", "empty", "expired", "live"},
   keychain : {"absent", "refused", "empty", "expired", "live"},
   aws : BOOLEAN]

Slot(source, claimed, usable) == [source |-> source, claimed |-> claimed, usable |-> usable]

NoCredential == Slot("none", TRUE, FALSE)

\* A slot that is claimed wins whether or not it can be used: nothing below it is looked at.
FirstClaimed(slots) ==
  IF \E i \in DOMAIN slots : slots[i].claimed
  THEN slots[CHOOSE i \in DOMAIN slots : slots[i].claimed /\ \A j \in 1..(i - 1) : ~slots[j].claimed]
  ELSE NoCredential

\* The documented order, which the SDK follows too when it is given no credential.
DocumentedSlots(env, at) ==
  << Slot("api_key",    env.apiKey # "unset",    env.apiKey = "set"),
     Slot("auth_token", env.authToken # "unset", env.authToken = "set"),
     Slot("named_profile",  env.profile, at.named),
     Slot("active_profile", at.active, TRUE),
     Slot("wif", env.wif, TRUE) >>

\* The Claude login that the SDK does not know. The file claims its slot by what it holds.
ClaudeSlots(env, at) ==
  << Slot("claude_file", at.claude \notin {"absent", "mcp"}, at.claude = "live"),
     Slot("oauth_token", env.oauthToken, TRUE),
     Slot("keychain", at.keychain # "absent", TRUE) >>

\* Faulty variant: a login that the user has made comes before what was exported.
ProfileFirst(env, at) ==
  FirstClaimed(<<Slot("active_profile", at.active, TRUE)>> \o DocumentedSlots(env, at) \o ClaudeSlots(env, at))

DiscoverAnthropic(env, at) == FirstClaimed(DocumentedSlots(env, at) \o ClaudeSlots(env, at))

DiscoverAws(env, at) ==
  FirstClaimed(<< Slot("aws_profile", env.awsProfile, TRUE), Slot("aws_files", at.aws, TRUE) >>)

\* Nobody asks whether the login of the file has expired.
HoldsFileToken(at) == at.claude \in {"expired", "live"}

\* One read of the item's secret. A read that fails is remembered by the process and not tried
\* again; an expired login is not a failure.
KeychainRead(at, failed) ==
  [token  |-> ~failed /\ at.keychain = "live",
   failed |-> failed \/ at.keychain \notin {"expired", "live"}]

\* External: a client built with no credential takes the first of the documented slots.
SdkResolves(env, at) == FirstClaimed(DocumentedSlots(env, at)).source

\* What each adapter is for.
DirectSources == {"api_key", "auth_token", "wif"}
OauthSources == {"oauth_token", "claude_file", "keychain", "active_profile", "named_profile"}

\* The credential of the client an adapter builds, from what it discovers as it builds it. The
\* direct adapter has no case for a Claude file or for the Keychain; the one for the host's login
\* has none for a key or for a profile, and looks for a Claude file first.
DirectClient(env, at) ==
  LET found == DiscoverAnthropic(env, at).source
  IN  IF found \in {"api_key", "auth_token", "oauth_token"} THEN found ELSE SdkResolves(env, at)

OauthClient(env, at, token) ==
  LET found == DiscoverAnthropic(env, at).source
  IN  IF found = "oauth_token" \/ (found = "keychain" /\ token) THEN found
      ELSE IF HoldsFileToken(at) THEN "claude_file" ELSE SdkResolves(env, at)

\* The profile of the session, then that of the harness, then that of AWS, then whatever AWS finds.
\* A blank one of the harness hides that of AWS.
AwsClient(env, profile) ==
  CASE profile -> "session_profile"
    [] ~profile /\ env.harnessProfile = "set"   -> "harness_profile"
    [] ~profile /\ env.harnessProfile = "blank" -> "ambient"
    [] OTHER -> IF env.awsProfile THEN "aws_profile" ELSE "ambient"
=============================================================================
