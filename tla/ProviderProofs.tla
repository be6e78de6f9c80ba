-------------------------- MODULE ProviderProofs --------------------------
(***************************************************************************)
(* What is proved of the way to a provider: that no request is refused for *)
(* its size or for how the conversation in it is put together, that it can *)
(* be rebuilt from the record, extends the one before and finds it in the  *)
(* cache, that what is offered and recorded of a credential is what is     *)
(* there, and that an answer is recorded as it was meant.                  *)
(* The inductive invariants have modules of their own.                     *)
(***************************************************************************)
EXTENDS RequestShape, ConversationInvariant, CredentialsInvariant, StreamInvariant,
        WellFoundedInduction, SequenceTheorems, FiniteSetTheorems, TLAPS

-----------------------------------------------------------------------------
(* The size of a request.                                                  *)

\* A model's adapter declares no more tokens than the model has: nothing in the code checks it,
\* and it is only at stake for the two ceilings that are one number for all models.
DeclaresNoMore(m) == Capabilities(m).ceiling <= m.ceiling

\* A budget is at least the least one, and leaves the answer its room under the ceiling.
LEMMA BudgetLeavesRoom ==
  ASSUME NEW caps \in [adaptive : BOOLEAN, budget : Nat, ceiling : Nat \ {0},
                       compaction : BOOLEAN]
  PROVE  /\ BudgetFor(caps) \in Nat
         /\ BudgetFor(caps) # 0 => /\ BudgetFor(caps) >= MinBudget
                                   /\ BudgetFor(caps) + AnswerTokens + 1 <= caps.ceiling
BY ShapeAssumption DEF BudgetFor, Least

\* What an adapter declares has the form the builder expects.
LEMMA CapabilitiesTyped ==
  ASSUME NEW m \in ModelInfo
  PROVE  Capabilities(m) \in [adaptive : BOOLEAN, budget : Nat, ceiling : Nat \ {0},
                              compaction : BOOLEAN]
BY ShapeAssumption DEF Capabilities, Reported, Fallback, Measured, Conversed, BudgetOf, ModelInfo

\* An adapter declares only thinking that its model takes.
LEMMA ThinkingIsKnown ==
  ASSUME NEW m \in ModelInfo
  PROVE  /\ Capabilities(m).adaptive => m.adaptive
         /\ Capabilities(m).budget # 0 => m.budgeted
BY DEF Capabilities, Reported, Fallback, Measured, Conversed, BudgetOf, ModelInfo

\* Every request fits its model (request_builder.ts:243): its tokens are some and within the
\* model's, and a thinking budget is one the model takes, below the tokens of the answer.
THEOREM RequestFits ==
  ASSUME NEW m \in ModelInfo, DeclaresNoMore(m)
  PROVE  Fits(m)
<1> DEFINE caps == Capabilities(m)
<1>1. caps \in [adaptive : BOOLEAN, budget : Nat, ceiling : Nat \ {0},
                compaction : BOOLEAN]
  BY CapabilitiesTyped
<1>2. /\ BudgetFor(caps) \in Nat
      /\ BudgetFor(caps) # 0 => /\ BudgetFor(caps) >= MinBudget
                                /\ BudgetFor(caps) + AnswerTokens + 1 <= caps.ceiling
  BY <1>1, BudgetLeavesRoom
<1>3. SizeMaxTokens(caps) \in 1 .. caps.ceiling
  BY <1>1, <1>2, ShapeAssumption DEF SizeMaxTokens, Least
<1>4. caps.ceiling <= m.ceiling /\ m.ceiling \in Nat
  BY DEF DeclaresNoMore, ModelInfo
<1>5. MaxTokens(m) \in 1 .. m.ceiling /\ MaxTokens(m) >= SizeMaxTokens(caps)
  <2> HIDE DEF caps
  <2>1. SizeMaxTokens(caps) \in Nat /\ SizeMaxTokens(caps) >= 1 /\ SizeMaxTokens(caps) <= m.ceiling
    BY <1>1, <1>3, <1>4
  <2> QED BY <2>1, <1>4, ShapeAssumption DEF MaxTokens, Least, caps
<1>6. ASSUME Thinking(caps) = "adaptive" PROVE m.adaptive
  BY <1>6, <1>1, ThinkingIsKnown DEF Thinking
<1>7. ASSUME Thinking(caps) = "enabled"
      PROVE  m.budgeted /\ BudgetFor(caps) \in MinBudget .. MaxTokens(m) - 1
  <2>1. ~caps.adaptive /\ BudgetFor(caps) # 0 /\ caps.budget # 0
    BY <1>7, <1>1 DEF Thinking, BudgetFor
  <2>2. SizeMaxTokens(caps) = AnswerTokens + BudgetFor(caps) + 1
    BY <2>1, <1>1, <1>2, ShapeAssumption DEF SizeMaxTokens, Least
  <2>3. m.budgeted
    BY <2>1, ThinkingIsKnown
  <2> QED BY <2>1, <2>2, <2>3, <1>2, <1>5, ShapeAssumption
<1> QED BY <1>5, <1>6, <1>7 DEF Fits

\* Thinking never takes the answer's room (request_builder.ts:230): what a request may say
\* beside its budget is more than the answer the builder was asked for.
THEOREM AnswerKeepsItsRoom ==
  ASSUME NEW m \in ModelInfo
  PROVE  AnswerHasRoom(m)
<1> DEFINE caps == Capabilities(m)
<1> SUFFICES ASSUME Thinking(caps) = "enabled" PROVE MaxTokens(m) - BudgetFor(caps) > AnswerTokens
  BY DEF AnswerHasRoom
<1>1. caps \in [adaptive : BOOLEAN, budget : Nat, ceiling : Nat \ {0},
                compaction : BOOLEAN]
  BY CapabilitiesTyped
<1>2. ~caps.adaptive /\ BudgetFor(caps) # 0 /\ caps.budget # 0
  BY <1>1 DEF Thinking, BudgetFor
<1>3. /\ BudgetFor(caps) \in Nat
      /\ BudgetFor(caps) + AnswerTokens + 1 <= caps.ceiling
  BY <1>1, <1>2, BudgetLeavesRoom
<1>4. SizeMaxTokens(caps) = AnswerTokens + BudgetFor(caps) + 1
  BY <1>1, <1>2, <1>3, ShapeAssumption DEF SizeMaxTokens, Least
<1>5. m.adapter # "converse"
  BY <1>2 DEF Capabilities, Conversed, ModelInfo
<1> QED BY <1>3, <1>4, <1>5, ShapeAssumption DEF MaxTokens

-----------------------------------------------------------------------------
(* Which login is found.                                                   *)

\* The first slot that is claimed is the one that is found.
LEMMA FirstClaimedIs ==
  ASSUME NEW slots, NEW k \in DOMAIN slots, DOMAIN slots \subseteq Int,
         slots[k].claimed, \A j \in 1 .. (k - 1) : ~slots[j].claimed,
         \A i \in DOMAIN slots : 1 <= i
  PROVE  FirstClaimed(slots) = slots[k]
<1> DEFINE First(i) == slots[i].claimed /\ \A j \in 1 .. (i - 1) : ~slots[j].claimed
           c == CHOOSE i \in DOMAIN slots : First(i)
<1>1. c \in DOMAIN slots /\ First(c)
  OBVIOUS
<1>2. c = k
  <2>1. ~ c < k
    BY <1>1
  <2>2. ~ k < c
    BY <1>1
  <2> QED BY <1>1, <2>1, <2>2
<1> QED BY <1>2 DEF FirstClaimed

\* No slot is claimed.
LEMMA NoneClaimed ==
  ASSUME NEW slots, \A i \in DOMAIN slots : ~slots[i].claimed
  PROVE  FirstClaimed(slots) = NoCredential
BY DEF FirstClaimed

\* A sequence of five and one of three, one after the other.
LEMMA FiveAndThree ==
  ASSUME NEW S, NEW d \in Seq(S), NEW c \in Seq(S), Len(d) = 5, Len(c) = 3
  PROVE  /\ DOMAIN d = 1 .. 5 /\ DOMAIN (d \o c) = 1 .. 8
         /\ \A i \in 1 .. 5 : (d \o c)[i] = d[i]
         /\ (d \o c)[6] = c[1] /\ (d \o c)[7] = c[2] /\ (d \o c)[8] = c[3]
<1> PICK w \in Seq(S) : w = d \o c
  BY ConcatProperties
<1>1. /\ Len(w) = 8
      /\ \A i \in 1 .. 8 : w[i] = IF i <= 5 THEN d[i] ELSE c[i - 5]
  <2>1. /\ Len(w) = Len(d) + Len(c)
        /\ \A i \in 1 .. Len(d) + Len(c) : w[i] = IF i <= Len(d) THEN d[i] ELSE c[i - Len(d)]
    BY ConcatProperties, Zenon
  <2> QED BY <2>1, SMTT(30)
<1>2. DOMAIN d = 1 .. 5 /\ DOMAIN w = 1 .. 8
  BY <1>1, SMTT(30)
<1>3. \A i \in 1 .. 5 : w[i] = d[i]
  BY <1>1
<1>4. w[6] = c[1] /\ w[7] = c[2] /\ w[8] = c[3]
  BY <1>1
<1> QED BY <1>2, <1>3, <1>4

\* What a slot says.
Says(slot, source, claimed, usable) ==
  slot.source = source /\ (slot.claimed <=> claimed) /\ (slot.usable <=> usable)

\* The slots, one by one.
AreSlots(e, h, d, all) ==
  /\ DOMAIN d = 1 .. 5 /\ DOMAIN all = 1 .. 8
  /\ \A i \in 1 .. 5 : all[i] = d[i]
  /\ Says(d[1], "api_key", e.apiKey # "unset", e.apiKey = "set")
  /\ Says(d[2], "auth_token", e.authToken # "unset", e.authToken = "set")
  /\ Says(d[3], "named_profile", e.profile, h.named)
  /\ Says(d[4], "active_profile", h.active, TRUE)
  /\ Says(d[5], "wif", e.wif, TRUE)
  /\ Says(all[6], "claude_file", h.claude \notin {"absent", "mcp"}, h.claude = "live")
  /\ Says(all[7], "oauth_token", e.oauthToken, TRUE)
  /\ Says(all[8], "keychain", h.keychain # "absent", TRUE)

LEMMA SlotsAre ==
  ASSUME NEW e \in EnvVars, NEW h \in Logins, NEW d, NEW all,
         d = DocumentedSlots(e, h), all = DocumentedSlots(e, h) \o ClaudeSlots(e, h)
  PROVE  AreSlots(e, h, d, all)
<1> DEFINE c == ClaudeSlots(e, h)
           S == {d[1], d[2], d[3], d[4], d[5], c[1], c[2], c[3]}
<1>1. d \in Seq(S) /\ Len(d) = 5
  <2> SUFFICES ASSUME NEW T, NEW a1 \in T, NEW a2 \in T, NEW a3 \in T, NEW a4 \in T, NEW a5 \in T
               PROVE  <<a1, a2, a3, a4, a5>> \in Seq(T) /\ Len(<<a1, a2, a3, a4, a5>>) = 5
    BY DEF DocumentedSlots
  <2> QED OBVIOUS
<1>2. c \in Seq(S) /\ Len(c) = 3
  <2> SUFFICES ASSUME NEW T, NEW a1 \in T, NEW a2 \in T, NEW a3 \in T
               PROVE  <<a1, a2, a3>> \in Seq(T) /\ Len(<<a1, a2, a3>>) = 3
    BY DEF ClaudeSlots
  <2> QED OBVIOUS
<1>3. /\ DOMAIN d = 1 .. 5 /\ DOMAIN all = 1 .. 8
      /\ \A i \in 1 .. 5 : all[i] = d[i]
      /\ all[6] = c[1] /\ all[7] = c[2] /\ all[8] = c[3]
  <2>1. all = d \o c
    OBVIOUS
  <2> HIDE DEF c, S
  <2>2. /\ DOMAIN d = 1 .. 5 /\ DOMAIN (d \o c) = 1 .. 8
        /\ \A i \in 1 .. 5 : (d \o c)[i] = d[i]
        /\ (d \o c)[6] = c[1] /\ (d \o c)[7] = c[2] /\ (d \o c)[8] = c[3]
    BY ONLY <1>1, <1>2, FiveAndThree, SMTT(30)
  <2> QED BY <2>1, <2>2
<1>4. ASSUME NEW source, NEW claimed \in BOOLEAN, NEW usable \in BOOLEAN
      PROVE  Says(Slot(source, claimed, usable), source, claimed, usable)
  BY <1>4 DEF Says, Slot
<1>5. /\ d[1] = Slot("api_key", e.apiKey # "unset", e.apiKey = "set")
      /\ d[2] = Slot("auth_token", e.authToken # "unset", e.authToken = "set")
      /\ d[3] = Slot("named_profile", e.profile, h.named)
      /\ d[4] = Slot("active_profile", h.active, TRUE)
      /\ d[5] = Slot("wif", e.wif, TRUE)
  BY DEF DocumentedSlots
<1>6. /\ c[1] = Slot("claude_file", h.claude \notin {"absent", "mcp"}, h.claude = "live")
      /\ c[2] = Slot("oauth_token", e.oauthToken, TRUE)
      /\ c[3] = Slot("keychain", h.keychain # "absent", TRUE)
  BY DEF ClaudeSlots
<1>7. {e.profile, e.wif, e.oauthToken, h.named, h.active} \subseteq BOOLEAN
  BY DEF EnvVars, Logins
<1>8. /\ Says(d[1], "api_key", e.apiKey # "unset", e.apiKey = "set")
      /\ Says(d[2], "auth_token", e.authToken # "unset", e.authToken = "set")
  BY <1>4, <1>5
<1>9. /\ Says(d[3], "named_profile", e.profile, h.named)
      /\ Says(d[4], "active_profile", h.active, TRUE)
      /\ Says(d[5], "wif", e.wif, TRUE)
  BY <1>4, <1>5, <1>7
<1>10. /\ Says(c[1], "claude_file", h.claude \notin {"absent", "mcp"}, h.claude = "live")
       /\ Says(c[2], "oauth_token", e.oauthToken, TRUE)
       /\ Says(c[3], "keychain", h.keychain # "absent", TRUE)
  <2> HIDE DEF c
  <2>1. Says(c[1], "claude_file", h.claude \notin {"absent", "mcp"}, h.claude = "live")
    BY <1>4, <1>6
  <2>2. Says(c[2], "oauth_token", e.oauthToken, TRUE)
    BY <1>4, <1>6, <1>7
  <2>3. Says(c[3], "keychain", h.keychain # "absent", TRUE)
    BY <1>4, <1>6
  <2> QED BY <2>1, <2>2, <2>3
<1> QED BY <1>3, <1>8, <1>9, <1>10 DEF AreSlots

\* The documented order as one choice after another; `rest` is what comes after it.
Documented(e, h, rest) ==
  IF e.apiKey # "unset" THEN "api_key"
  ELSE IF e.authToken # "unset" THEN "auth_token"
  ELSE IF e.profile THEN "named_profile"
  ELSE IF h.active THEN "active_profile"
  ELSE IF e.wif THEN "wif" ELSE rest

ClaudeLogin(e, h) ==
  IF h.claude \notin {"absent", "mcp"} THEN "claude_file"
  ELSE IF e.oauthToken THEN "oauth_token"
  ELSE IF h.keychain # "absent" THEN "keychain" ELSE "none"

\* What is discovered, and what the SDK resolves by itself, as choices; what is usable is a key
\* that is not blank, or a file's login that is live.
LEMMA DiscoveredIs ==
  ASSUME NEW e \in EnvVars, NEW h \in Logins
  PROVE  /\ DiscoverAnthropic(e, h).source = Documented(e, h, ClaudeLogin(e, h))
         /\ SdkResolves(e, h) = Documented(e, h, "none")
         /\ DiscoverAnthropic(e, h).usable =>
              /\ DiscoverAnthropic(e, h).source = "api_key" => e.apiKey = "set"
              /\ DiscoverAnthropic(e, h).source = "claude_file" => h.claude = "live"
<1>0. PICK d, all : d = DocumentedSlots(e, h) /\ all = DocumentedSlots(e, h) \o ClaudeSlots(e, h)
  OBVIOUS
<1>1. /\ DOMAIN d = 1 .. 5 /\ DOMAIN all = 1 .. 8
      /\ \A i \in 1 .. 5 : all[i] = d[i]
      /\ Says(d[1], "api_key", e.apiKey # "unset", e.apiKey = "set")
      /\ Says(d[2], "auth_token", e.authToken # "unset", e.authToken = "set")
      /\ Says(d[3], "named_profile", e.profile, h.named)
      /\ Says(d[4], "active_profile", h.active, TRUE)
      /\ Says(d[5], "wif", e.wif, TRUE)
      /\ Says(all[6], "claude_file", h.claude \notin {"absent", "mcp"}, h.claude = "live")
      /\ Says(all[7], "oauth_token", e.oauthToken, TRUE)
      /\ Says(all[8], "keychain", h.keychain # "absent", TRUE)
  <2>1. AreSlots(e, h, d, all)
    BY <1>0, SlotsAre
  <2> QED BY <2>1 DEF AreSlots
<1>2. DiscoverAnthropic(e, h) = FirstClaimed(all) /\ SdkResolves(e, h) = FirstClaimed(d).source
  BY <1>0 DEF DiscoverAnthropic, SdkResolves
<1>3. ASSUME NEW s, DOMAIN s \in {1 .. 5, 1 .. 8}, \A i \in 1 .. 5 : s[i] = d[i],
             NEW k \in DOMAIN s, s[k].claimed, \A j \in 1 .. (k - 1) : ~s[j].claimed
      PROVE  FirstClaimed(s) = s[k]
  BY ONLY <1>3, FirstClaimedIs
<1>4. ASSUME NEW s, DOMAIN s \in {1 .. 5, 1 .. 8}, \A i \in 1 .. 5 : s[i] = d[i]
      PROVE  \/ /\ FirstClaimed(s).source = Documented(e, h, "none")
                /\ Documented(e, h, ClaudeLogin(e, h)) = Documented(e, h, "none")
                /\ FirstClaimed(s).source \in {"api_key", "auth_token", "named_profile",
                                               "active_profile", "wif"}
                /\ FirstClaimed(s).usable /\ FirstClaimed(s).source = "api_key" => e.apiKey = "set"
             \/ /\ \A i \in 1 .. 5 : ~s[i].claimed
                /\ Documented(e, h, "none") = "none"
                /\ Documented(e, h, ClaudeLogin(e, h)) = ClaudeLogin(e, h)
  <2> DEFINE k1 == s[1].claimed
             k2 == s[2].claimed
             k3 == s[3].claimed
             k4 == s[4].claimed
             k5 == s[5].claimed
  <2>0. s[1] = d[1] /\ s[2] = d[2] /\ s[3] = d[3] /\ s[4] = d[4] /\ s[5] = d[5] /\ 1 .. 5 \subseteq DOMAIN s
    BY <1>4
  <2>1. CASE k1
    <3>1. FirstClaimed(s) = s[1]
      BY <1>3, <1>4, <2>0, <2>1
    <3> QED BY <3>1, <2>0, <2>1, <1>1 DEF Documented, Says
  <2>2. CASE ~k1 /\ k2
    <3>1. FirstClaimed(s) = s[2]
      BY <1>3, <1>4, <2>0, <2>2
    <3> QED BY <3>1, <2>0, <2>2, <1>1 DEF Documented, Says
  <2>3. CASE ~k1 /\ ~k2 /\ k3
    <3>1. FirstClaimed(s) = s[3]
      BY <1>3, <1>4, <2>0, <2>3
    <3> QED BY <3>1, <2>0, <2>3, <1>1 DEF Documented, Says
  <2>4. CASE ~k1 /\ ~k2 /\ ~k3 /\ k4
    <3>1. FirstClaimed(s) = s[4]
      BY <1>3, <1>4, <2>0, <2>4
    <3> QED BY <3>1, <2>0, <2>4, <1>1 DEF Documented, Says
  <2>5. CASE ~k1 /\ ~k2 /\ ~k3 /\ ~k4 /\ k5
    <3>1. FirstClaimed(s) = s[5]
      BY <1>3, <1>4, <2>0, <2>5
    <3> QED BY <3>1, <2>0, <2>5, <1>1 DEF Documented, Says
  <2>6. CASE ~k1 /\ ~k2 /\ ~k3 /\ ~k4 /\ ~k5
    BY <2>0, <2>6, <1>1 DEF Documented, Says
  <2> QED BY <2>1, <2>2, <2>3, <2>4, <2>5, <2>6
<1>5. SdkResolves(e, h) = Documented(e, h, "none")
  <2>1. ASSUME \A i \in 1 .. 5 : ~d[i].claimed PROVE FirstClaimed(d).source = "none"
    <3>1. \A i \in DOMAIN d : ~d[i].claimed
      BY <2>1, <1>1
    <3>2. FirstClaimed(d) = NoCredential
      BY ONLY <3>1, NoneClaimed
    <3> QED BY <3>2 DEF NoCredential, Slot
  <2> QED BY <1>1, <1>2, <1>4, <2>1
<1>6. ASSUME \A i \in 1 .. 5 : ~all[i].claimed
      PROVE  /\ FirstClaimed(all).source = ClaudeLogin(e, h)
             /\ FirstClaimed(all).source # "api_key"
             /\ FirstClaimed(all).usable /\ FirstClaimed(all).source = "claude_file" => h.claude = "live"
  <2>1. CASE all[6].claimed
    <3>0. 6 \in DOMAIN all /\ all[6].claimed /\ \A j \in 1 .. (6 - 1) : ~all[j].claimed
      BY <1>1, <1>6, <2>1
    <3>1. FirstClaimed(all) = all[6]
      BY ONLY <3>0, <1>1, FirstClaimedIs
    <3> QED BY <3>1, <2>1, <1>1 DEF ClaudeLogin, Says
  <2>2. CASE ~all[6].claimed /\ all[7].claimed
    <3>0. 7 \in DOMAIN all /\ all[7].claimed /\ \A j \in 1 .. (7 - 1) : ~all[j].claimed
      BY <1>1, <1>6, <2>2
    <3>1. FirstClaimed(all) = all[7]
      BY ONLY <3>0, <1>1, FirstClaimedIs
    <3> QED BY <3>1, <2>2, <1>1 DEF ClaudeLogin, Says
  <2>3. CASE ~all[6].claimed /\ ~all[7].claimed /\ all[8].claimed
    <3>0. 8 \in DOMAIN all /\ all[8].claimed /\ \A j \in 1 .. (8 - 1) : ~all[j].claimed
      BY <1>1, <1>6, <2>3
    <3>1. FirstClaimed(all) = all[8]
      BY ONLY <3>0, <1>1, FirstClaimedIs
    <3> QED BY <3>1, <2>3, <1>1 DEF ClaudeLogin, Says
  <2>4. CASE ~all[6].claimed /\ ~all[7].claimed /\ ~all[8].claimed
    <3>0. \A i \in DOMAIN all : ~all[i].claimed
      BY <1>1, <1>6, <2>4
    <3>1. FirstClaimed(all) = NoCredential
      BY ONLY <3>0, NoneClaimed
    <3> QED BY <3>1, <2>4, <1>1 DEF ClaudeLogin, Says, NoCredential, Slot
  <2> QED BY <2>1, <2>2, <2>3, <2>4
<1>7. \/ /\ FirstClaimed(all).source = Documented(e, h, "none")
         /\ Documented(e, h, ClaudeLogin(e, h)) = Documented(e, h, "none")
         /\ FirstClaimed(all).source \in {"api_key", "auth_token", "named_profile",
                                          "active_profile", "wif"}
         /\ FirstClaimed(all).usable /\ FirstClaimed(all).source = "api_key" => e.apiKey = "set"
      \/ /\ \A i \in 1 .. 5 : ~all[i].claimed
         /\ Documented(e, h, ClaudeLogin(e, h)) = ClaudeLogin(e, h)
  BY ONLY <1>1, <1>4
<1> QED BY ONLY <1>2, <1>5, <1>6, <1>7

\* The same of AWS.
LEMMA AwsDiscoveredIs ==
  ASSUME NEW e \in EnvVars, NEW h \in Logins
  PROVE  DiscoverAws(e, h).source =
           IF e.awsProfile THEN "aws_profile" ELSE IF h.aws THEN "aws_files" ELSE "none"
<1> DEFINE s == << Slot("aws_profile", e.awsProfile, TRUE), Slot("aws_files", h.aws, TRUE) >>
<1>1. /\ DOMAIN s = 1 .. 2 /\ DiscoverAws(e, h) = FirstClaimed(s)
      /\ s[1] = Slot("aws_profile", e.awsProfile, TRUE) /\ s[2] = Slot("aws_files", h.aws, TRUE)
  BY DEF DiscoverAws
<1>2. e.awsProfile \in BOOLEAN /\ h.aws \in BOOLEAN
  BY DEF EnvVars, Logins
<1> HIDE DEF s
<1>3. CASE e.awsProfile
  <2>1. s[1].claimed /\ s[1].source = "aws_profile"
    BY <1>1, <1>3 DEF Slot
  <2>2. 1 \in DOMAIN s /\ DOMAIN s \subseteq Int /\ (\A i \in DOMAIN s : 1 <= i)
        /\ \A j \in 1 .. (1 - 1) : ~s[j].claimed
    BY <1>1
  <2>3. FirstClaimed(s) = s[1]
    BY ONLY <2>1, <2>2, FirstClaimedIs
  <2> QED BY <1>1, <1>3, <2>1, <2>3
<1>4. CASE ~e.awsProfile /\ h.aws
  <2>1. ~s[1].claimed /\ s[2].claimed /\ s[2].source = "aws_files"
    BY <1>1, <1>4 DEF Slot
  <2>2. 2 \in DOMAIN s /\ DOMAIN s \subseteq Int /\ (\A i \in DOMAIN s : 1 <= i)
        /\ \A j \in 1 .. (2 - 1) : ~s[j].claimed
    <3>1. \A j \in 1 .. (2 - 1) : j = 1
      OBVIOUS
    <3>2. \A j \in 1 .. (2 - 1) : ~s[j].claimed
      BY ONLY <3>1, <2>1
    <3> QED BY <1>1, <3>2
  <2>3. FirstClaimed(s) = s[2]
    BY ONLY <2>1, <2>2, FirstClaimedIs
  <2> QED BY <1>1, <1>4, <2>1, <2>3
<1>5. CASE ~e.awsProfile /\ ~h.aws
  <2>1. \A i \in DOMAIN s : ~s[i].claimed
    BY <1>1, <1>5 DEF Slot
  <2>2. FirstClaimed(s) = NoCredential
    BY ONLY <2>1, NoneClaimed
  <2> QED BY <1>1, <1>5, <2>2 DEF NoCredential, Slot
<1> QED BY <1>3, <1>4, <1>5


-----------------------------------------------------------------------------
(* Which models are offered.                                               *)

\* What is kept of a list is of it and wanted, and one of each model.
LEMMA KeptOnce ==
  ASSUME NEW listed \in Seq(Profile), NEW models, NEW rank,
         \A scope \in Scope : rank[scope] \in Nat
  PROVE  /\ \A p \in Keeps(listed, models, rank) : p \in Profile /\ ModelOf(p) \in models
         /\ \A p, q \in Keeps(listed, models, rank) : ModelOf(p) = ModelOf(q) => p = q
<1>1. \A i \in DOMAIN listed : /\ listed[i] \in Profile /\ i \in Int
                               /\ rank[ScopeOf(listed[i])] \in Nat
  BY DEF Profile, ScopeOf
<1> DEFINE Before(i, j) == LET p == rank[ScopeOf(listed[i])]
                               q == rank[ScopeOf(listed[j])]
                           IN  p < q \/ (p = q /\ i < j)
           wanted == {i \in DOMAIN listed : ModelOf(listed[i]) \in models}
           best   == {k \in wanted : \A j \in wanted \ {k} :
                        ModelOf(listed[j]) = ModelOf(listed[k]) => Before(k, j)}
<1>2. Keeps(listed, models, rank) = {listed[k] : k \in best}
  BY DEF Keeps
<1>3. ASSUME NEW i \in DOMAIN listed, NEW j \in DOMAIN listed PROVE ~(Before(i, j) /\ Before(j, i))
  BY <1>1
<1>4. ASSUME NEW k \in best, NEW j \in best, ModelOf(listed[k]) = ModelOf(listed[j]) PROVE k = j
  <2> HIDE DEF Before
  <2> QED BY <1>3, <1>4
<1>5. \A k \in best : listed[k] \in Profile /\ ModelOf(listed[k]) \in models
  BY <1>1
<1> HIDE DEF best
<1> QED BY <1>2, <1>4, <1>5

\* What an adapter of AWS offers of a list: profiles of it, each model once, and none that cannot
\* answer; and the two adapters never offer the same model.
LEMMA OffersAre ==
  ASSUME NEW listed \in Catalogues, NEW a \in OnAws
  PROVE  /\ Offers(a, listed) \subseteq Profile
         /\ \A p, q \in Offers(a, listed) : ModelOf(p) = ModelOf(q) => p = q
         /\ \A p \in Offers(a, listed) : /\ ModelOf(p) \in Anthropic <=> a = "bedrock"
                                         /\ ModelOf(p) \notin EndOfLife \cup NotInvocable
<1>1. listed \in Seq(Profile)
  BY ProvidersAssumption
<1>2. CASE a = "bedrock"
  <2>1. Offers(a, listed) = Keeps(listed, Servable, Rank)
    BY <1>2 DEF Offers, AnthropicProfiles
  <2>2. \A scope \in Scope : Rank[scope] \in Nat
    BY CatalogueAssumption DEF Scope
  <2> QED BY <1>1, <1>2, <2>1, <2>2, KeptOnce, CatalogueAssumption DEF Servable
<1>3. CASE a = "converse"
  <2>1. /\ Offers(a, listed) \subseteq Keeps(listed, ConverseModels, AnyScope)
        /\ \A p \in Offers(a, listed) : ModelOf(p) \notin NotInvocable
    BY <1>3 DEF Offers, ConverseProfiles, IsInvocable
  <2>2. \A scope \in Scope : AnyScope[scope] \in Nat
    BY DEF AnyScope
  <2> QED BY <1>1, <1>3, <2>1, <2>2, KeptOnce, CatalogueAssumption DEF ConverseModels
<1> QED BY <1>2, <1>3 DEF OnAws


-----------------------------------------------------------------------------
(* The type of a use.                                                      *)

\* The sources and the clients there are.
LEMMA CredentialsTyped ==
  ASSUME TypeOK, NEW a \in ADAPTER_IDS, NEW token, NEW profile
  PROVE  /\ Source(a).source \in Sources
         /\ DirectClient(env, at) \in Clients
         /\ OauthClient(env, at, token) \in Clients
         /\ AwsClient(env, profile) \in Clients
<1>1. env \in EnvVars /\ at \in Logins
  BY ProvidersAssumption DEF TypeOK
<1>2. DiscoverAnthropic(env, at).source \in Sources /\ SdkResolves(env, at) \in Sources
  BY <1>1, DiscoveredIs DEF Documented, ClaudeLogin, Sources, DirectSources, OauthSources
<1>3. DiscoverAws(env, at).source \in Sources
  BY <1>1, AwsDiscoveredIs DEF Sources
<1>4. AwsClient(env, profile) \in Clients
  BY DEF AwsClient, Clients, Sources
<1>5. DirectClient(env, at) \in Sources
  BY <1>2 DEF DirectClient
<1>6. OauthClient(env, at, token) \in Sources
  BY <1>2 DEF OauthClient, Sources, OauthSources
<1> QED BY <1>2, <1>3, <1>4, <1>5, <1>6 DEF Source, Clients

\* Building a client changes what the use knows of the Keychain and what it carries, no more.
LEMMA ClientTyped ==
  ASSUME TypeOK, NEW a \in ADAPTER_IDS, NEW c \in Use
  PROVE  /\ Remembered(a, c) \in {"unasked", "held", "null"}
         /\ WithClient(a, c) \in Use
         /\ WithClient(a, c).stage = c.stage /\ WithClient(a, c).source = c.source
         /\ WithClient(a, c).report = c.report /\ WithClient(a, c).offered = c.offered
         /\ WithClient(a, c).profile = c.profile /\ WithClient(a, c).moved = c.moved
         /\ WithClient(a, c).token = Remembered(a, c)
         /\ a = "direct" => WithClient(a, c).carried = DirectClient(env, at)
         /\ a = "oauth" => WithClient(a, c).carried = OauthClient(env, at, Remembered(a, c) = "held")
         /\ a \in OnAws => WithClient(a, c).carried = AwsClient(env, c.profile)
<1>1. Remembered(a, c) \in {"unasked", "held", "null"}
  BY Zenon DEF Remembered, Use
<1> DEFINE carried == CASE a = "direct" -> DirectClient(env, at)
                        [] a = "oauth"  -> OauthClient(env, at, Remembered(a, c) = "held")
                        [] OTHER        -> AwsClient(env, c.profile)
<1>2. WithClient(a, c) = [c EXCEPT !.token = Remembered(a, c), !.carried = carried]
  BY DEF WithClient
<1>3. /\ a = "direct" => carried = DirectClient(env, at)
      /\ a = "oauth" => carried = OauthClient(env, at, Remembered(a, c) = "held")
      /\ a \in OnAws => carried = AwsClient(env, c.profile)
  BY DEF OnAws
<1>4. carried \in Clients
  BY CredentialsTyped
<1> HIDE DEF carried
<1> QED BY <1>1, <1>2, <1>3, <1>4, Zenon DEF Use

\* A probe that refuses settles; any other knows its source and has a client.
LEMMA ProbedIs ==
  ASSUME TypeOK, NEW a \in ADAPTER_IDS, NEW c \in Use
  PROVE  /\ Probed(a, c) \in Use
         /\ Probed(a, c).offered = c.offered /\ Probed(a, c).profile = c.profile
         /\ Probed(a, c).moved = c.moved /\ Probed(a, c).token = Remembered(a, c)
         /\ \/ /\ Unusable(a, c) # "none" /\ Probed(a, c).stage = "settled"
               /\ Probed(a, c).report \in {"no_credential", "credential_expired"}
               /\ Probed(a, c).source = c.source
            \/ /\ Unusable(a, c) = "none"
               /\ Probed(a, c).stage = (IF a \in OnAws THEN "listing" ELSE "probing")
               /\ Probed(a, c).source = Source(a).source /\ Probed(a, c).report = c.report
               /\ Probed(a, c).carried = WithClient(a, c).carried
<1>1. Unusable(a, c) \in {"none", "no_credential", "credential_expired"}
  BY DEF Unusable
<1>2. Source(a).source \in Sources
  BY CredentialsTyped
<1>3. CASE Unusable(a, c) # "none"
  <2>1. Probed(a, c) = [c EXCEPT !.stage = "settled", !.report = Unusable(a, c),
                                 !.token = Remembered(a, c)]
    BY <1>3 DEF Probed
  <2>2. Remembered(a, c) \in {"unasked", "held", "null"}
    BY ClientTyped
  <2> QED BY <1>1, <1>3, <2>1, <2>2, Zenon DEF Use, Reports
<1>4. CASE Unusable(a, c) = "none"
  <2> DEFINE stage == IF a \in OnAws THEN "listing" ELSE "probing"
             w == WithClient(a, c)
  <2>1. Probed(a, c) = [w EXCEPT !.stage = stage, !.source = Source(a).source]
    BY <1>4 DEF Probed
  <2>2. stage \in {"listing", "probing"}
    OBVIOUS
  <2>3. /\ w \in Use /\ w.report = c.report /\ w.offered = c.offered /\ w.profile = c.profile
        /\ w.moved = c.moved /\ w.token = Remembered(a, c)
    BY ClientTyped
  <2> HIDE DEF w, stage
  <2>4. /\ Probed(a, c) \in Use
        /\ Probed(a, c).offered = c.offered /\ Probed(a, c).profile = c.profile
        /\ Probed(a, c).moved = c.moved /\ Probed(a, c).token = Remembered(a, c)
        /\ Probed(a, c).stage = stage /\ Probed(a, c).source = Source(a).source
        /\ Probed(a, c).report = c.report /\ Probed(a, c).carried = w.carried
    BY <1>2, <2>1, <2>2, <2>3, Zenon DEF Use
  <2> QED BY <1>4, <2>4 DEF stage, w
<1> QED BY <1>3, <1>4

\* What a probe does not refuse is usable, and is its own adapter's.
LEMMA UsableIs ==
  ASSUME NEW a \in ADAPTER_IDS, NEW c, Unusable(a, c) = "none"
  PROVE  /\ Source(a).source # "none" /\ Source(a).usable
         /\ a = "direct" => Source(a).source \in DirectSources
         /\ a = "oauth" => Source(a).source \in OauthSources
         /\ a = "oauth" /\ Source(a).source = "keychain" => Remembered(a, c) = "held"
BY DEF Unusable, ServesNot


LEMMA FreshTyped == Fresh \in Use
BY DEF Fresh, Use, Sources, Clients, Reports

LEMMA SettledTyped ==
  ASSUME NEW c \in Use, NEW report \in Reports
  PROVE  /\ Settled(c, report) \in Use /\ Settled(c, report).stage = "settled"
         /\ Settled(c, report).report = report /\ Settled(c, report).offered = c.offered
BY Zenon DEF Settled, Use, Sources, Clients

LEMMA SendsTyped ==
  ASSUME TypeOK, NEW a \in ADAPTER_IDS, NEW c \in Use, NEW recorded \in Sources
  PROVE  /\ Sends(a, c, recorded) \in Use
         /\ Sends(a, c, recorded).stage = "sent" /\ Sends(a, c, recorded).source = recorded
         /\ Sends(a, c, recorded).carried = WithClient(a, c).carried
         /\ Sends(a, c, recorded).moved = c.moved /\ Sends(a, c, recorded).profile = c.profile
<1> DEFINE w == WithClient(a, c)
<1>1. w \in Use /\ w.moved = c.moved /\ w.profile = c.profile
  BY ClientTyped
<1>2. Sends(a, c, recorded) = [w EXCEPT !.stage = "sent", !.report = "none", !.source = recorded]
  BY DEF Sends
<1> HIDE DEF w
<1>3. /\ Sends(a, c, recorded) \in Use
      /\ Sends(a, c, recorded).stage = "sent" /\ Sends(a, c, recorded).source = recorded
      /\ Sends(a, c, recorded).carried = w.carried
      /\ Sends(a, c, recorded).moved = w.moved /\ Sends(a, c, recorded).profile = w.profile
  BY <1>1, <1>2, Zenon DEF Use, Reports
<1> QED BY <1>1, <1>3 DEF w

LEMMA TurnSendsTyped ==
  ASSUME TypeOK, NEW a \in ADAPTER_IDS, NEW c \in Use
  PROVE  TurnSends(a, c) \in Use
<1> DEFINE p == Probed(a, c)
<1>1. p \in Use /\ p.source \in Sources /\ "none" \in Sources
  BY ProbedIs, Zenon DEF Use, Sources
<1>2. \A recorded \in Sources : Sends(a, p, recorded) \in Use
  BY <1>1, SendsTyped
<1> QED BY <1>1, <1>2 DEF TurnSends

LEMMA KeychainTyped ==
  ASSUME TypeOK, NEW readers, KeychainAfter(readers)
  PROVE  readFailed' \in BOOLEAN
BY DEF TypeOK, KeychainAfter, KeychainRead

LEMMA ListingsTyped ==
  ASSUME NEW a \in ADAPTER_IDS, NEW models \in Listings(a)
  PROVE  models \subseteq Profile \cup {<<"", "direct">>, <<"", "oauth">>}
<1>1. CASE a \in OnAws
  <2>1. PICK listed \in Catalogues : models = Offers(a, listed)
    BY <1>1 DEF Listings
  <2> QED BY <1>1, <2>1, OffersAre, Zenon
<1>2. CASE a \notin OnAws
  <2>1. a \in {"direct", "oauth"} /\ models \in {{}, {<<"", a>>}}
    BY <1>2, Zenon DEF Listings, ADAPTER_IDS, OnAws
  <2> QED BY <2>1, Zenon
<1> QED BY <1>1, <1>2, Zenon

\* Setting one use, or all of one kind.
LEMMA SetTyped ==
  ASSUME TypeOK, NEW op \in Ops, NEW a \in ADAPTER_IDS, NEW c \in Use, Set(op, a, c)
  PROVE  /\ call' \in [Ops -> [ADAPTER_IDS -> Use]] /\ call'[op][a] = c
         /\ \A x \in Ops, b \in ADAPTER_IDS : x # op \/ b # a => call'[x][b] = call[x][b]
BY DEF TypeOK, Set

LEMMA AnswersTyped ==
  ASSUME NEW carried, NEW answer \in Answers(carried)
  PROVE  answer \in {"unsent", "ok", "rejected", "forbidden", "failed"}
BY DEF Answers


\* Every step keeps the type.
LEMMA TypeStep ==
  ASSUME TypeOK, [Next]_vars
  PROVE  TypeOK'
<1> USE DEF Ops
<1>1. ASSUME NEW op \in Ops, Asks(op) PROVE TypeOK'
  <2>1. \A a \in ADAPTER_IDS : Probed(a, Fresh) \in Use
    BY FreshTyped, ProbedIs
  <2>2. readFailed' \in BOOLEAN
    BY <1>1, KeychainTyped DEF Asks
  <2> QED BY <1>1, <2>1, <2>2 DEF Asks, TypeOK
<1>2. ASSUME NEW op \in Ops, Responds(op) PROVE TypeOK'
  BY <1>2, FreshTyped DEF Responds, TypeOK
<1>3. ASSUME NEW op \in Ops, NEW a \in ADAPTER_IDS, ProbeAnswered(op, a) PROVE TypeOK'
  <2> DEFINE c == call[op][a]
  <2>1. c \in Use
    BY DEF TypeOK
  <2>2. PICK answer \in Answers(c.carried) :
          \/ /\ Set(op, a, [WithClient(a, c) EXCEPT !.stage = "listing"])
             /\ KeychainAfter({x \in {a} : Reads(x, c)})
          \/ /\ Set(op, a, Settled(c, Classified(answer)))
             /\ UNCHANGED readFailed
    BY <1>3 DEF ProbeAnswered
  <2>3. [WithClient(a, c) EXCEPT !.stage = "listing"] \in Use
    BY <2>1, ClientTyped, ZenonT(60) DEF Use
  <2>4. Settled(c, Classified(answer)) \in Use
    BY <2>1, SettledTyped DEF Classified, Reports
  <2> HIDE DEF c
  <2>5. call' \in [Ops -> [ADAPTER_IDS -> Use]]
    BY <2>2, <2>3, <2>4, SetTyped
  <2>6. readFailed' \in BOOLEAN
    BY <2>2, KeychainTyped DEF TypeOK
  <2> QED BY <1>3, <2>5, <2>6 DEF ProbeAnswered, TypeOK
<1>4. ASSUME NEW op \in Ops, NEW a \in ADAPTER_IDS, Lists(op, a) PROVE TypeOK'
  <2> DEFINE c == call[op][a]
             given(models) == [Settled(c, "available") EXCEPT !.offered = models, !.carried = c.carried]
  <2>1. c \in Use
    BY DEF TypeOK
  <2>2. PICK models \in Listings(a) :
          \/ Set(op, a, given(models)) /\ UNCHANGED readFailed
          \/ Set(op, a, Settled(c, "no_models")) /\ UNCHANGED readFailed
          \/ /\ Set(op, a, [WithClient(a, c) EXCEPT !.stage = "sending"])
             /\ KeychainAfter({x \in {a} : Reads(x, c)})
    BY <1>4, Zenon DEF Lists
  <2>3. [WithClient(a, c) EXCEPT !.stage = "sending"] \in Use
    BY <2>1, ClientTyped, ZenonT(60) DEF Use
  <2>4. Settled(c, "no_models") \in Use /\ Settled(c, "available") \in Use
    BY <2>1, SettledTyped DEF Reports
  <2>5. given(models) \in Use
    BY <2>1, <2>4, ListingsTyped, Zenon DEF Use
  <2> HIDE DEF c, given
  <2>6. call' \in [Ops -> [ADAPTER_IDS -> Use]]
    BY <2>2, <2>3, <2>4, <2>5, SetTyped
  <2>7. readFailed' \in BOOLEAN
    BY <2>2, KeychainTyped DEF TypeOK
  <2> QED BY <1>4, <2>6, <2>7 DEF Lists, TypeOK
<1>5. ASSUME NEW op \in Ops, NEW a \in ADAPTER_IDS, ListingFails(op, a) PROVE TypeOK'
  <2>1. PICK answer \in Answers(call[op][a].carried) : Set(op, a, Settled(call[op][a], Told(op, a, answer)))
    BY <1>5 DEF ListingFails
  <2>2. Told(op, a, answer) \in Reports
    BY <2>1, AnswersTyped DEF Told, Described, Classified, Reports
  <2>3. Settled(call[op][a], Told(op, a, answer)) \in Use
    BY <2>2, SettledTyped DEF TypeOK
  <2>4. call' \in [Ops -> [ADAPTER_IDS -> Use]]
    BY <2>1, <2>3, SetTyped
  <2> QED BY <1>5, <2>4 DEF ListingFails, TypeOK
<1>6. ASSUME NEW a \in ADAPTER_IDS, Sent(a) PROVE TypeOK'
  <2> DEFINE verdict(answer) == IF answer = "ok" THEN "ok" ELSE Verdict(answer)
  <2>1. PICK answer \in Answers(call["verify"][a].carried) :
          Set("verify", a, Settled(call["verify"][a], verdict(answer)))
    BY <1>6 DEF Sent
  <2>2. verdict(answer) \in Reports
    BY DEF Verdict, Classified, Reports
  <2>3. Settled(call["verify"][a], verdict(answer)) \in Use
    BY <2>2, SettledTyped DEF TypeOK
  <2>4. call' \in [Ops -> [ADAPTER_IDS -> Use]]
    BY <2>1, <2>3, SetTyped
  <2> QED BY <1>6, <2>4 DEF Sent, TypeOK
<1>7. ASSUME NEW a \in ADAPTER_IDS, TurnProbed(a) PROVE TypeOK'
  <2> DEFINE c == call["run"][a]
  <2>1. c \in Use
    BY DEF TypeOK
  <2>2. PICK answer \in Answers(c.carried) :
          /\ Set("run", a, Sends(a, c, IF answer = "ok" THEN c.source ELSE "none"))
          /\ KeychainAfter({x \in {a} : Reads(x, c)})
    BY <1>7 DEF TurnProbed
  <2>3. Sends(a, c, IF answer = "ok" THEN c.source ELSE "none") \in Use
    BY <2>1, SendsTyped, Zenon DEF Use, Sources
  <2> HIDE DEF c
  <2>4. call' \in [Ops -> [ADAPTER_IDS -> Use]]
    BY <2>2, <2>3, SetTyped
  <2>5. readFailed' \in BOOLEAN
    BY <2>2, KeychainTyped
  <2> QED BY <1>7, <2>4, <2>5 DEF TurnProbed, TypeOK
<1>8. ASSUME NEW a \in ADAPTER_IDS, NEW c \in Use, Set("run", a, TurnSends(a, c)),
             KeychainAfter({x \in {a} : Reads(x, c)}), UNCHANGED <<env, at>>
      PROVE  TypeOK'
  <2>1. call' \in [Ops -> [ADAPTER_IDS -> Use]]
    BY <1>8, TurnSendsTyped, SetTyped
  <2>2. readFailed' \in BOOLEAN
    BY <1>8, KeychainTyped
  <2> QED BY <1>8, <2>1, <2>2 DEF TypeOK
<1>9. ASSUME NEW a \in ADAPTER_IDS, NextTurn(a) PROVE TypeOK'
  <2>1. [call["run"][a] EXCEPT !.moved = FALSE, !.source = "none", !.carried = "none"] \in Use
    <3>1. call["run"][a] \in Use
      BY DEF TypeOK
    <3> QED BY <3>1, Zenon DEF Use, Sources, Clients
  <2> QED BY <1>8, <1>9, <2>1 DEF NextTurn
<1>10. ASSUME NEW a \in ADAPTER_IDS, EndsRun(a) PROVE TypeOK'
  <2>1. call' \in [Ops -> [ADAPTER_IDS -> Use]]
    BY <1>10, FreshTyped, SetTyped DEF EndsRun
  <2> QED BY <1>10, <2>1 DEF EndsRun, TypeOK
<1>11. ASSUME NEW a \in ADAPTER_IDS, NEW profile \in BOOLEAN, StartsRun(a, profile) PROVE TypeOK'
  <2>1. [Fresh EXCEPT !.profile = profile] \in Use
    BY FreshTyped, Zenon DEF Use
  <2> QED BY <1>8, <1>11, <2>1 DEF StartsRun
<1>12. CASE HostChanges
  <2> DEFINE aside(op, a) == op = "run" /\ call[op][a].stage = "probing"
             moved(op, a) == [call[op][a] EXCEPT !.moved = @ \/ aside(op, a)]
  <2>1. ASSUME NEW op \in Ops, NEW a \in ADAPTER_IDS PROVE moved(op, a) \in Use
    <3>1. call[op][a] \in Use
      BY DEF TypeOK
    <3>2. (call[op][a].moved \/ aside(op, a)) \in BOOLEAN
      OBVIOUS
    <3> QED BY <3>1, <3>2, Zenon DEF Use
  <2>2. call' = [op \in Ops |-> [a \in ADAPTER_IDS |-> moved(op, a)]]
    BY <1>12 DEF HostChanges, TypeOK
  <2> HIDE DEF moved
  <2>3. call' \in [Ops -> [ADAPTER_IDS -> Use]]
    BY <2>1, <2>2
  <2> QED BY <1>12, <2>3 DEF HostChanges, TypeOK
<1>13. CASE HarnessRestarts
  BY <1>13, FreshTyped DEF HarnessRestarts, TypeOK
<1>14. CASE UNCHANGED vars
  BY <1>14 DEF vars, TypeOK
<1> QED BY <1>1, <1>2, <1>3, <1>4, <1>5, <1>6, <1>7, <1>9, <1>10, <1>11, <1>12, <1>13, <1>14 DEF Next

\* Every state is of the type: what an adapter reports, records and carries is always one of the
\* things the contracts name.
THEOREM TypeCorrect == Spec => []TypeOK
<1>1. Init => TypeOK
  BY FreshTyped DEF Init, TypeOK
<1>2. TypeOK /\ [Next]_vars => TypeOK'
  BY TypeStep
<1> QED BY <1>1, <1>2, PTL DEF Spec


-----------------------------------------------------------------------------
(* What an answer offers.                                                  *)

\* A change of the host is noted by the turns whose probe is out, and changes no use otherwise.
LEMMA HostChangesIs ==
  ASSUME TypeOK, HostChanges, NEW op \in Ops, NEW a \in ADAPTER_IDS
  PROVE  LET c == call[op][a]
             d == call'[op][a]
         IN  /\ d.stage = c.stage /\ d.report = c.report /\ d.offered = c.offered
             /\ d.source = c.source /\ d.carried = c.carried /\ d.profile = c.profile
             /\ d.token = c.token
             /\ d.moved = (c.moved \/ (op = "run" /\ c.stage = "probing"))
<1>1. call'[op][a] = [call[op][a] EXCEPT !.moved = @ \/ (op = "run" /\ call[op][a].stage = "probing")]
  BY DEF HostChanges, TypeOK
<1>2. call[op][a] \in Use
  BY DEF TypeOK
<1> QED BY <1>1, <1>2, Zenon DEF Use

\* Only a request engages a provider: all that follows goes on with it, or ends it.
LEMMA OnlyAsksEngages ==
  ASSUME TypeOK, Next, NEW op \in {"models", "verify"}, ~Asks(op), NEW a \in ADAPTER_IDS, Engaged(op, a)'
  PROVE  Engaged(op, a)
<1> USE DEF Ops
<1> SUFFICES ASSUME call'[op][a].stage # call[op][a].stage \/ call'[op][a].report # call[op][a].report
             PROVE  Engaged(op, a)
  BY DEF Engaged
<1>0. op \in Ops /\ \A x \in Ops, b \in ADAPTER_IDS : call[x][b] \in Use
  BY DEF TypeOK
<1>1. ASSUME NEW x \in Ops, NEW b \in ADAPTER_IDS, NEW c, Set(x, b, c) PROVE x = op /\ b = a /\ call'[op][a] = c
  BY <1>1, <1>0 DEF Set, TypeOK
<1>2. ASSUME NEW x \in Ops, Asks(x) PROVE FALSE
  BY <1>2, <1>0 DEF Asks, TypeOK
<1>3. ASSUME NEW x \in Ops, Responds(x) PROVE FALSE
  BY <1>3, <1>0 DEF Responds, TypeOK, Engaged, Fresh
<1>4. ASSUME NEW x \in Ops, NEW b \in ADAPTER_IDS, ProbeAnswered(x, b) PROVE Engaged(op, a)
  BY <1>4, <1>1 DEF ProbeAnswered, Engaged
<1>5. ASSUME NEW x \in Ops, NEW b \in ADAPTER_IDS, Lists(x, b) PROVE Engaged(op, a)
  BY <1>5, <1>1 DEF Lists, Engaged
<1>6. ASSUME NEW x \in Ops, NEW b \in ADAPTER_IDS, ListingFails(x, b) PROVE Engaged(op, a)
  BY <1>6, <1>1 DEF ListingFails, Engaged
<1>7. ASSUME NEW b \in ADAPTER_IDS, Sent(b) PROVE Engaged(op, a)
  BY <1>7, <1>1 DEF Sent, Engaged
<1>8. ASSUME NEW b \in ADAPTER_IDS, NEW profile \in BOOLEAN,
             TurnProbed(b) \/ NextTurn(b) \/ EndsRun(b) \/ StartsRun(b, profile)
      PROVE  FALSE
  BY <1>8, <1>1 DEF TurnProbed, NextTurn, EndsRun, StartsRun
<1>9. CASE HostChanges
  <2>1. /\ call'[op][a].stage = call[op][a].stage
        /\ call'[op][a].report = call[op][a].report
    BY <1>9, HostChangesIs
  <2> QED BY <2>1
<1>10. CASE HarnessRestarts
  BY <1>0, <1>10 DEF HarnessRestarts, TypeOK, Engaged, Fresh
<1> QED BY <1>2, <1>3, <1>4, <1>5, <1>6, <1>7, <1>8, <1>9, <1>10 DEF Next

\* A request engages a provider only with a source that is its own.
LEMMA AsksEngages ==
  ASSUME TypeOK, NEW op \in {"models", "verify"}, Asks(op), NEW a \in {"direct", "oauth"}, Engaged(op, a)'
  PROVE  /\ Source(a).source # "none" /\ Source(a).usable
         /\ a = "direct" => Source(a).source \in DirectSources
         /\ a = "oauth" => Source(a).source \in OauthSources
<1>1. call'[op][a] = Probed(a, Fresh)
  BY DEF Asks, TypeOK, Ops, ADAPTER_IDS
<1>2. Unusable(a, Fresh) = "none"
  <2>1. Probed(a, Fresh).stage \in {"probing", "listing", "sending"}
          \/ Probed(a, Fresh).report \in {"available", "ok", "no_models"}
    BY <1>1 DEF Engaged
  <2> QED BY <2>1, FreshTyped, ProbedIs DEF ADAPTER_IDS
<1> QED BY <1>2, UsableIs DEF ADAPTER_IDS

LEMMA LaneStep ==
  ASSUME TypeOK, LaneInv, [Next]_vars
  PROVE  LaneInv'
<1> SUFFICES ASSUME NEW op \in {"models", "verify"}, Engaged(op, "direct")', Engaged(op, "oauth")'
             PROVE  FALSE
  BY DEF LaneInv
<1>1. CASE Next /\ ~Asks(op)
  BY <1>1, OnlyAsksEngages DEF LaneInv, ADAPTER_IDS
<1>2. CASE Asks(op)
  <2>1. Source("direct").source \in DirectSources /\ Source("oauth").source \in OauthSources
    BY <1>2, AsksEngages
  <2>2. Source("direct") = Source("oauth")
    BY DEF Source, OnAws
  <2> QED BY <2>1, <2>2 DEF DirectSources, OauthSources
<1>3. CASE UNCHANGED vars
  BY <1>3 DEF LaneInv, Engaged, vars
<1> QED BY <1>1, <1>2, <1>3

LEMMA BlankStep ==
  ASSUME TypeOK, BlankInv, [Next]_vars
  PROVE  BlankInv'
<1> SUFFICES ASSUME env'.apiKey = "blank", NEW op \in {"models", "verify"},
                    NEW a \in {"direct", "oauth"}, Engaged(op, a)'
             PROVE  FALSE
  BY DEF BlankInv
<1>1. CASE HarnessRestarts
  BY <1>1, SMTT(30) DEF HarnessRestarts, TypeOK, Engaged, Fresh, Ops, ADAPTER_IDS
<1>2. ASSUME Next, ~HarnessRestarts PROVE env' = env
  BY <1>2, Zenon DEF Next, Asks, Responds, ProbeAnswered, Lists, ListingFails, Sent, TurnProbed,
                   NextTurn, EndsRun, StartsRun, HostChanges
<1>3. CASE Next /\ ~HarnessRestarts /\ ~Asks(op)
  BY <1>2, <1>3, OnlyAsksEngages DEF BlankInv, ADAPTER_IDS
<1>4. CASE Next /\ ~HarnessRestarts /\ Asks(op)
  <2>1. Source(a).usable /\ Source(a) = DiscoverAnthropic(env, at)
    BY <1>4, AsksEngages DEF Source, OnAws
  <2>2. env \in EnvVars /\ at \in Logins /\ env.apiKey = "blank"
    BY <1>2, <1>4, ProvidersAssumption DEF TypeOK
  <2>3. DiscoverAnthropic(env, at).source = "api_key"
    BY <2>2, DiscoveredIs DEF Documented
  <2> QED BY <2>1, <2>2, <2>3, DiscoveredIs
<1>5. CASE UNCHANGED vars
  BY <1>5 DEF BlankInv, Engaged, vars
<1> QED BY <1>1, <1>3, <1>4, <1>5


LEMMA ListStep ==
  ASSUME TypeOK, ListInv, [Next]_vars
  PROVE  ListInv'
<1> USE DEF Ops
<1> SUFFICES ASSUME NEW a \in OnAws,
                    call'["models"][a].offered # call["models"][a].offered
             PROVE  \/ call'["models"][a].offered = {}
                    \/ \E listed \in Catalogues : call'["models"][a].offered = Offers(a, listed)
  BY DEF ListInv, Offers, AnthropicProfiles, ConverseProfiles, Keeps
<1>0. a \in ADAPTER_IDS /\ \A x \in Ops, b \in ADAPTER_IDS : call[x][b] \in Use
  BY DEF TypeOK, OnAws, ADAPTER_IDS
<1>1. ASSUME NEW x \in Ops, NEW b \in ADAPTER_IDS, NEW c, Set(x, b, c)
      PROVE  x = "models" /\ b = a /\ call'["models"][a] = c
  BY <1>1, <1>0 DEF Set, TypeOK
<1>2. ASSUME NEW x \in Ops, Asks(x) PROVE call'["models"][a].offered = {}
  <2>1. Probed(a, Fresh).offered = {}
    BY <1>0, FreshTyped, ProbedIs DEF Fresh
  <2> QED BY <1>0, <1>2, <2>1 DEF Asks, TypeOK
<1>3. ASSUME NEW x \in Ops, Responds(x) PROVE call'["models"][a].offered = {}
  BY <1>3, <1>0 DEF Responds, TypeOK, Fresh
<1>4. ASSUME NEW x \in Ops, NEW b \in ADAPTER_IDS, ProbeAnswered(x, b) PROVE FALSE
  <2> DEFINE c == call[x][b]
  <2>1. PICK answer : \/ Set(x, b, [WithClient(b, c) EXCEPT !.stage = "listing"])
                      \/ Set(x, b, Settled(c, Classified(answer)))
    BY <1>4 DEF ProbeAnswered
  <2>2. c \in Use /\ WithClient(b, c).offered = c.offered /\ WithClient(b, c) \in Use
    BY <1>0, ClientTyped
  <2>3. /\ [WithClient(b, c) EXCEPT !.stage = "listing"].offered = c.offered
        /\ \A report : Settled(c, report).offered = c.offered
    BY <2>2, Zenon DEF Settled, Use
  <2> QED BY <2>1, <2>3, <1>1
<1>5. ASSUME NEW x \in Ops, NEW b \in ADAPTER_IDS, Lists(x, b)
      PROVE  \E listed \in Catalogues : call'["models"][a].offered = Offers(a, listed)
  <2> DEFINE c == call[x][b]
  <2>1. PICK models \in Listings(b) :
          \/ x = "models" /\ Set(x, b, [Settled(c, "available") EXCEPT
                                          !.offered = models, !.carried = c.carried])
          \/ Set(x, b, Settled(c, "no_models"))
          \/ Set(x, b, [WithClient(b, c) EXCEPT !.stage = "sending"])
    BY <1>5, Zenon DEF Lists
  <2>2. c \in Use /\ WithClient(b, c).offered = c.offered /\ WithClient(b, c) \in Use
    BY <1>0, ClientTyped
  <2>3. /\ [WithClient(b, c) EXCEPT !.stage = "sending"].offered = c.offered
        /\ \A report : Settled(c, report).offered = c.offered
        /\ [Settled(c, "available") EXCEPT !.offered = models, !.carried = c.carried].offered = models
    BY <2>2, Zenon DEF Settled, Use
  <2>4. b = a /\ call'["models"][a].offered = models
    BY <2>1, <2>3, <1>1, ZenonT(60)
  <2> QED BY <2>4 DEF Listings
<1>6. ASSUME NEW x \in Ops, NEW b \in ADAPTER_IDS, ListingFails(x, b) PROVE FALSE
  <2>1. PICK report : Set(x, b, Settled(call[x][b], report))
    BY <1>6 DEF ListingFails
  <2>2. Settled(call[x][b], report).offered = call[x][b].offered
    BY <1>0, ZenonT(60) DEF Settled, Use
  <2> QED BY <2>1, <2>2, <1>1
<1>7. ASSUME NEW b \in ADAPTER_IDS, Sent(b) PROVE FALSE
  BY <1>7, <1>1 DEF Sent
<1>8. ASSUME NEW b \in ADAPTER_IDS, NEW profile \in BOOLEAN,
             TurnProbed(b) \/ NextTurn(b) \/ EndsRun(b) \/ StartsRun(b, profile)
      PROVE  FALSE
  BY <1>8, <1>1 DEF TurnProbed, NextTurn, EndsRun, StartsRun
<1>9. CASE HostChanges
  BY <1>0, <1>9, HostChangesIs
<1>10. CASE HarnessRestarts
  BY <1>0, <1>10 DEF HarnessRestarts, TypeOK, Fresh
<1>11. CASE UNCHANGED vars
  BY <1>11 DEF vars
<1> QED BY <1>2, <1>3, <1>4, <1>5, <1>6, <1>7, <1>8, <1>9, <1>10, <1>11 DEF Next

\* Each login and each model of it is offered once: at most one adapter of Anthropic says that it
\* serves, none below a blank key, and each model of Bedrock is offered by one adapter, in one
\* scope, and only if it can answer (anthropic_direct.ts:136, discover.ts:69, bedrock_routing.ts).
THEOREM OfferedOnceHolds == Spec => []OfferedOnce
<1> DEFINE IInv == TypeOK /\ LaneInv /\ BlankInv /\ ListInv
<1>1. Init => IInv
  <2> SUFFICES ASSUME Init PROVE IInv
    OBVIOUS
  <2>1. TypeOK
    BY FreshTyped DEF Init, TypeOK
  <2>2. \A op \in Ops, a \in ADAPTER_IDS : call[op][a] = Fresh
    BY DEF Init
  <2>3. \A op \in Ops, a \in ADAPTER_IDS : ~Engaged(op, a) /\ call[op][a].offered = {}
    BY <2>2 DEF Engaged, Fresh
  <2> QED BY <2>1, <2>3 DEF LaneInv, BlankInv, ListInv, Ops, ADAPTER_IDS, OnAws
<1>2. IInv /\ [Next]_vars => IInv'
  BY TypeStep, LaneStep, BlankStep, ListStep
<1>3. IInv => OfferedOnce
  <2> SUFFICES ASSUME IInv PROVE OfferedOnce
    OBVIOUS
  <2>1. \A op, a : Serves(op, a) => Engaged(op, a)
    BY DEF Serves, Engaged
  <2>2. LoginInOneLane /\ BlankKeyClaims
    BY <2>1 DEF LaneInv, BlankInv, LoginInOneLane, BlankKeyClaims
  <2>3. ASSUME NEW a \in OnAws, NEW p \in call["models"][a].offered
        PROVE  /\ \A q \in call["models"][a].offered : ModelOf(p) = ModelOf(q) => p = q
               /\ ModelOf(p) \in Anthropic <=> a = "bedrock"
               /\ ModelOf(p) \notin EndOfLife \cup NotInvocable
    <3>1. PICK listed \in Catalogues : call["models"][a].offered = Offers(a, listed)
      BY <2>3 DEF ListInv
    <3> QED BY <2>3, <3>1, OffersAre
  <2>4. ModelsOfferedOnce
    <3> SUFFICES ASSUME NEW a \in OnAws, NEW b \in OnAws, NEW p \in call["models"][a].offered,
                        NEW q \in call["models"][b].offered
                 PROVE  /\ ModelOf(p) = ModelOf(q) => a = b /\ p = q
                        /\ ModelOf(p) \notin EndOfLife \cup NotInvocable
      BY DEF ModelsOfferedOnce
    <3>1. ModelOf(p) = ModelOf(q) => a = b
      BY <2>3 DEF OnAws
    <3> QED BY <2>3, <3>1
  <2> QED BY <2>2, <2>4 DEF OfferedOnce
<1> QED BY <1>1, <1>2, <1>3, PTL DEF Spec


-----------------------------------------------------------------------------
(* What a run records.                                                     *)

\* A turn sends with what its probe found.
LEMMA PendingSends ==
  ASSUME TypeOK, NEW a \in ADAPTER_IDS, NEW c \in Use, Pending(a, c), NEW recorded \in {c.source, "none"}
  PROVE  Holds(Sends(a, c, recorded))
<1> DEFINE s == Sends(a, c, recorded)
<1>1. recorded \in Sources
  BY Zenon DEF Use, Sources
<1>2. /\ s.source = recorded /\ s.carried = WithClient(a, c).carried
      /\ s.moved = c.moved
  BY <1>1, SendsTyped
<1>3. /\ a = "direct" => s.carried = DirectClient(env, at)
      /\ a = "oauth" => s.carried = OauthClient(env, at, Remembered(a, c) = "held")
  BY <1>2, ClientTyped
<1>4. env \in EnvVars /\ at \in Logins
  BY ProvidersAssumption DEF TypeOK
<1> HIDE DEF s
<1> SUFFICES ASSUME recorded = c.source, c.source # "none",
                    ~c.moved \/ c.source \in {"api_key", "auth_token"},
                    ~(c.source \in {"active_profile", "named_profile"} /\ s.carried = "claude_file")
             PROVE  s.carried = c.source
  BY <1>2 DEF Holds, Names, s
<1>5. Source(a).source = c.source /\ Source(a).source = DiscoverAnthropic(env, at).source
  BY DEF Pending, Source, OnAws
<1>6. c.source \in {"active_profile", "named_profile", "wif"} => SdkResolves(env, at) = c.source
  BY <1>4, <1>5, DiscoveredIs DEF Documented, ClaudeLogin
<1>7. CASE a = "direct"
  <2>1. c.source \in DirectSources
    BY <1>7 DEF Pending
  <2> QED BY <1>3, <1>5, <1>6, <1>7, <2>1 DEF DirectClient, DirectSources
<1>8. CASE a = "oauth"
  <2>1. c.source \in OauthSources
    BY <1>8 DEF Pending
  <2>2. CASE c.source \in {"oauth_token", "keychain"}
    <3>1. c.source = "keychain" => Remembered(a, c) = "held"
      BY DEF Pending, Remembered, Reads
    <3> QED BY <1>3, <1>5, <1>8, <2>2, <3>1 DEF OauthClient
  <2>3. CASE c.source = "claude_file"
    <3>1. HoldsFileToken(at)
      BY <2>3 DEF Pending
    <3> QED BY <1>3, <1>5, <1>8, <2>3, <3>1 DEF OauthClient
  <2>4. CASE c.source \in {"active_profile", "named_profile"}
    BY <1>3, <1>5, <1>6, <1>8, <2>4 DEF OauthClient
  <2> QED BY <2>1, <2>2, <2>3, <2>4 DEF OauthSources
<1> QED BY <1>7, <1>8 DEF Pending

\* A turn that begins either waits for its probe, or has sent what it recorded, or nothing it did.
LEMMA TurnBegins ==
  ASSUME TypeOK, NEW a \in ADAPTER_IDS, NEW c \in Use, ~c.moved
  PROVE  LET d == TurnSends(a, c)
         IN  (d.stage = "probing" => Pending(a, d)) /\ Holds(d)
<1> DEFINE p == Probed(a, c)
<1>1. /\ p \in Use /\ p.profile = c.profile /\ ~p.moved /\ p.token = Remembered(a, c)
      /\ \/ Unusable(a, c) # "none" /\ p.stage = "settled"
         \/ /\ Unusable(a, c) = "none" /\ p.stage = (IF a \in OnAws THEN "listing" ELSE "probing")
            /\ p.source = Source(a).source
  BY ProbedIs
<1>2. env \in EnvVars /\ at \in Logins
  BY ProvidersAssumption DEF TypeOK
<1>3. CASE Unusable(a, c) # "none"
  <2>1. p.stage = "settled"
    BY <1>1, <1>3
  <2>2. TurnSends(a, c) = Sends(a, p, "none")
    BY <2>1 DEF TurnSends
  <2>3. Sends(a, p, "none").stage = "sent" /\ Sends(a, p, "none").source = "none"
    BY <1>1, SendsTyped DEF Sources
  <2> QED BY <2>2, <2>3 DEF Holds
<1>4. CASE Unusable(a, c) = "none" /\ a \notin OnAws
  <2>1. p.stage = "probing" /\ p.source = Source(a).source
    BY <1>1, <1>4
  <2>2. TurnSends(a, c) = p
    BY <2>1 DEF TurnSends
  <2>3. /\ Source(a).source # "none" /\ Source(a).usable
        /\ a = "direct" => Source(a).source \in DirectSources
        /\ a = "oauth" => Source(a).source \in OauthSources
        /\ a = "oauth" /\ Source(a).source = "keychain" => Remembered(a, c) = "held"
    BY <1>4, UsableIs
  <2>4. Source(a) = DiscoverAnthropic(env, at)
    BY <1>4 DEF Source
  <2>5. p.source = "claude_file" => HoldsFileToken(at)
    BY <1>2, <2>1, <2>3, <2>4, DiscoveredIs DEF HoldsFileToken
  <2>6. a \in {"direct", "oauth"} /\ "keychain" \notin DirectSources
    BY <1>4 DEF OnAws, ADAPTER_IDS, DirectSources
  <2>7. Pending(a, p)
    <3> HIDE DEF p
    <3>1. ~p.moved /\ p.token = Remembered(a, c)
      BY <1>1
    <3>2. \/ a = "direct" /\ p.source \in DirectSources
          \/ a = "oauth" /\ p.source \in OauthSources
      BY <2>1, <2>3, <2>6
    <3>3. p.source = "keychain" => p.token = "held"
      BY <2>1, <2>3, <2>6, <3>1
    <3> QED BY <2>1, <2>5, <3>1, <3>2, <3>3 DEF Pending
  <2> QED BY <2>1, <2>2, <2>7 DEF Holds
<1>5. CASE Unusable(a, c) = "none" /\ a \in OnAws
  <2>1. p.stage = "listing" /\ p.source = Source(a).source
    BY <1>1, <1>5
  <2>2. TurnSends(a, c) = Sends(a, p, p.source)
    BY <2>1 DEF TurnSends
  <2>3. p.source \in Sources
    BY <1>1, Zenon DEF Use
  <2>4. /\ Sends(a, p, p.source).stage = "sent" /\ Sends(a, p, p.source).source = p.source
        /\ Sends(a, p, p.source).carried = AwsClient(env, p.profile)
        /\ Sends(a, p, p.source).profile = p.profile
    BY <1>1, <1>5, <2>3, SendsTyped, ClientTyped
  <2>5. Source(a).source = IF env.awsProfile THEN "aws_profile" ELSE IF at.aws THEN "aws_files" ELSE "none"
    BY <1>2, <1>5, AwsDiscoveredIs DEF Source
  <2> QED BY <2>1, <2>2, <2>4, <2>5 DEF Holds, Names, AwsClient
<1> QED BY <1>3, <1>4, <1>5


LEMMA RunStep ==
  ASSUME TypeOK, RunInv, [Next]_vars
  PROVE  RunInv'
<1> USE DEF Ops
<1> DEFINE Good(a) == /\ call["run"][a].stage = "probing" => Pending(a, call["run"][a])
                      /\ Holds(call["run"][a])
<1> SUFFICES ASSUME NEW a \in ADAPTER_IDS PROVE Good(a)'
  BY DEF RunInv
<1>0. /\ \A x \in Ops, b \in ADAPTER_IDS : call[x][b] \in Use
      /\ Good(a)
  BY DEF TypeOK, RunInv
<1>1. ASSUME call'["run"][a] = call["run"][a], UNCHANGED <<env, at>> PROVE Good(a)'
  BY <1>0, <1>1 DEF Pending, Holds, Names, Source
<1>2. ASSUME call'["run"][a] = Fresh PROVE Good(a)'
  BY <1>2 DEF Fresh, Holds
<1>3. ASSUME NEW x \in Ops, NEW b \in ADAPTER_IDS, NEW c, Set(x, b, c)
      PROVE  call'["run"][a] = IF x = "run" /\ b = a THEN c ELSE call["run"][a]
  BY <1>3 DEF Set, TypeOK
<1>4. ASSUME NEW c \in Use, call'["run"][a] = TurnSends(a, c), ~c.moved, UNCHANGED <<env, at>>
      PROVE  Good(a)'
  <2>1. (TurnSends(a, c).stage = "probing" => Pending(a, TurnSends(a, c))) /\ Holds(TurnSends(a, c))
    BY <1>4, TurnBegins
  <2> QED BY <1>4, <2>1 DEF Pending, Holds, Names, Source
<1> HIDE DEF Good
<1>5. ASSUME NEW x \in Ops, Asks(x) \/ Responds(x) PROVE Good(a)'
  <2>1. call'["run"][a] = call["run"][a] /\ UNCHANGED <<env, at>>
    BY <1>5 DEF Asks, Responds, TypeOK
  <2> QED BY <2>1, <1>1
<1>6. ASSUME NEW x \in Ops, NEW b \in ADAPTER_IDS, ProbeAnswered(x, b) PROVE Good(a)'
  <2>1. x # "run" /\ (\E c : Set(x, b, c)) /\ UNCHANGED <<env, at>>
    BY <1>6 DEF ProbeAnswered
  <2> QED BY <2>1, <1>1, <1>3
<1>7. ASSUME NEW x \in Ops, NEW b \in ADAPTER_IDS, Lists(x, b) PROVE Good(a)'
  <2>1. x # "run" /\ (\E c : Set(x, b, c)) /\ UNCHANGED <<env, at>>
    BY <1>7 DEF Lists
  <2> QED BY <2>1, <1>1, <1>3
<1>8. ASSUME NEW b \in ADAPTER_IDS, Sent(b) PROVE Good(a)'
  <2>1. (\E c : Set("verify", b, c)) /\ UNCHANGED <<env, at>>
    BY <1>8 DEF Sent
  <2> QED BY <2>1, <1>1, <1>3
<1>9. ASSUME NEW x \in Ops, NEW b \in ADAPTER_IDS, ListingFails(x, b) PROVE Good(a)'
  <2>1. PICK report : Set(x, b, Settled(call[x][b], report)) /\ UNCHANGED <<env, at>>
    BY <1>9 DEF ListingFails
  <2>2. Settled(call[x][b], report).stage = "settled"
    BY <1>0, ZenonT(60) DEF Settled, Use
  <2>3. CASE x = "run" /\ b = a
    <3>1. call'["run"][a].stage = "settled"
      BY <1>3, <2>1, <2>2, <2>3
    <3> QED BY <3>1 DEF Good, Holds
  <2> QED BY <2>1, <2>3, <1>1, <1>3
<1>10. ASSUME NEW b \in ADAPTER_IDS, TurnProbed(b) PROVE Good(a)'
  <2> DEFINE c == call["run"][b]
  <2>1. PICK recorded \in {c.source, "none"} : Set("run", b, Sends(b, c, recorded)) /\ UNCHANGED <<env, at>>
    BY <1>10 DEF TurnProbed
  <2>2. CASE b = a
    <3>1. Pending(a, c) /\ c \in Use
      BY <1>0, <1>10, <2>2 DEF TurnProbed, Good
    <3>2. call'["run"][a] = Sends(a, c, recorded)
      BY <1>3, <2>1, <2>2
    <3> HIDE DEF c
    <3>3. recorded \in Sources
      BY <3>1, Zenon DEF Use, Sources
    <3>4. Sends(a, c, recorded).stage = "sent"
      BY <3>1, <3>3, SendsTyped
    <3>5. Holds(Sends(a, c, recorded))
      BY <3>1, PendingSends
    <3> QED BY <2>1, <3>2, <3>4, <3>5 DEF Good, Holds, Names
  <2> QED BY <2>1, <2>2, <1>1, <1>3
<1>11. ASSUME NEW b \in ADAPTER_IDS, NextTurn(b) PROVE Good(a)'
  <2> DEFINE c == [call["run"][b] EXCEPT !.moved = FALSE, !.source = "none", !.carried = "none"]
  <2>1. Set("run", b, TurnSends(b, c)) /\ UNCHANGED <<env, at>>
    BY <1>11 DEF NextTurn
  <2>2. c \in Use /\ ~c.moved
    <3>1. call["run"][b] \in Use
      BY <1>0
    <3> QED BY <3>1, Zenon DEF Use, Sources, Clients
  <2> HIDE DEF c
  <2> QED BY <2>1, <2>2, <1>1, <1>3, <1>4
<1>12. ASSUME NEW b \in ADAPTER_IDS, NEW profile \in BOOLEAN, StartsRun(b, profile) PROVE Good(a)'
  <2> DEFINE c == [Fresh EXCEPT !.profile = profile]
  <2>1. Set("run", b, TurnSends(b, c)) /\ UNCHANGED <<env, at>>
    BY <1>12 DEF StartsRun
  <2>2. c \in Use /\ ~c.moved
    BY FreshTyped, Zenon DEF Use, Fresh
  <2> HIDE DEF c
  <2> QED BY <2>1, <2>2, <1>1, <1>3, <1>4
<1>13. ASSUME NEW b \in ADAPTER_IDS, EndsRun(b) PROVE Good(a)'
  <2>1. Set("run", b, Fresh) /\ UNCHANGED <<env, at>>
    BY <1>13 DEF EndsRun
  <2> QED BY <2>1, <1>1, <1>2, <1>3
<1>14. CASE HostChanges
  <2> DEFINE c == call["run"][a]
             d == call'["run"][a]
  <2>1. /\ d.stage = c.stage /\ d.source = c.source /\ d.carried = c.carried
        /\ d.profile = c.profile /\ d.token = c.token
        /\ d.moved = (c.moved \/ c.stage = "probing")
    BY <1>14, HostChangesIs
  <2>2. env' = env
    BY <1>14 DEF HostChanges
  <2>3. Holds(c)'
    BY <1>0, <2>1, <2>2 DEF Good, Holds, Names
  <2>4. ASSUME d.stage = "probing" PROVE Pending(a, c)'
    <3>1. Pending(a, c) /\ d.moved
      BY <1>0, <2>1, <2>4 DEF Good
    <3>2. ASSUME c.source \in {"api_key", "auth_token"} PROVE Source(a).source' = c.source
      <4>1. /\ env \in EnvVars /\ at \in Logins /\ at' \in Logins /\ a \notin OnAws
        BY <1>14, <3>1, ProvidersAssumption DEF TypeOK, HostChanges, Pending, OnAws
      <4>2. /\ DiscoverAnthropic(env, at).source = c.source
        BY <3>1, <3>2, <4>1 DEF Pending, Source
      <4>3. Documented(env, at, ClaudeLogin(env, at)) = c.source
        BY <4>1, <4>2, DiscoveredIs
      <4>4. Documented(env, at', ClaudeLogin(env, at')) = c.source
        BY <3>2, <4>3 DEF Documented, ClaudeLogin
      <4>5. DiscoverAnthropic(env, at').source = c.source
        BY <4>1, <4>4, DiscoveredIs
      <4> QED BY <2>2, <4>1, <4>5 DEF Source
    <3> QED BY <2>1, <2>2, <3>1, <3>2 DEF Pending
  <2> QED BY <2>3, <2>4 DEF Good
<1>15. CASE HarnessRestarts
  <2>1. call'["run"][a] = Fresh
    BY <1>15 DEF HarnessRestarts, TypeOK
  <2> QED BY <2>1, <1>2
<1>16. CASE UNCHANGED vars
  BY <1>1, <1>16 DEF vars
<1> QED BY <1>5, <1>6, <1>7, <1>8, <1>9, <1>10, <1>11, <1>12, <1>13, <1>14, <1>15, <1>16 DEF Next

\* The source that a turn records is the credential its request carries, unless a login changed
\* while the probe was being answered, and but for the two cases that the property names
\* (run_loop.ts:967, the clients of the adapters).
THEOREM RecordHoldsAlways == Spec => []RecordHolds
<1> DEFINE IInv == TypeOK /\ RunInv
<1>1. Init => IInv
  <2> SUFFICES ASSUME Init PROVE IInv
    OBVIOUS
  <2>1. TypeOK
    BY FreshTyped DEF Init, TypeOK
  <2>2. \A a \in ADAPTER_IDS : call["run"][a] = Fresh
    BY DEF Init, Ops
  <2> QED BY <2>1, <2>2 DEF RunInv, Holds, Fresh
<1>2. IInv /\ [Next]_vars => IInv'
  BY TypeStep, RunStep
<1>3. IInv => RecordHolds
  BY DEF RunInv, Holds, RecordHolds
<1> QED BY <1>1, <1>2, <1>3, PTL DEF Spec

-----------------------------------------------------------------------------
(* The conversation a request is folded from.                            *)

LEMMA Counting ==
  ASSUME NEW n \in Nat, NEW S, 0 \in S, \A i \in 0 .. n : i \in S /\ i # n => i + 1 \in S
  PROVE  0 .. n \subseteq S
<1> SUFFICES ASSUME ~ (0 .. n \subseteq S) PROVE FALSE  OBVIOUS
<1> DEFINE U == (0 .. n) \ S
<1>1. U \subseteq Nat /\ U # {}  OBVIOUS
<1>2. PICK x \in U : \A y \in U : ~ (<<y, x>> \in OpToRel(<, Nat))
  BY <1>1, NatLessThanWellFounded, WFMin, Zenon
<1>3. x # 0 /\ x - 1 \in 0 .. n /\ x - 1 # n /\ x = (x - 1) + 1  OBVIOUS
<1>4. x - 1 \notin S  BY <1>3
<1>5. x - 1 \in U  BY <1>3, <1>4
<1>6. <<x - 1, x>> \in Nat \X Nat /\ <<x - 1, x>>[1] < <<x - 1, x>>[2]  BY <1>1, <1>5
<1>7. <<x - 1, x>> \in OpToRel(<, Nat)  BY <1>6 DEF OpToRel
<1> QED  BY <1>2, <1>5, <1>7, Zenon

-----------------------------------------------------------------------------
(* Sequences.                                                              *)

\* What is chosen of the beginnings of a sequence, one element at a time.
ChosenUpTo(f, s, S) ==
  /\ DOMAIN f = 0 .. Len(s) /\ f[0] = <<>> /\ Chosen(s, S) = f[Len(s)]
  /\ \A n \in 1 .. Len(s) : f[n] = IF s[n] \in S THEN Append(f[n - 1], s[n]) ELSE f[n - 1]

\* Where in the sequence what is chosen of it was: in the order it was in, and all that is in S.
Places(g, s, S) ==
  /\ g \in [1 .. Len(Chosen(s, S)) -> 1 .. Len(s)]
  /\ \A k \in 1 .. Len(Chosen(s, S)) : Chosen(s, S)[k] = s[g[k]] /\ s[g[k]] \in S
  /\ \A j, k \in 1 .. Len(Chosen(s, S)) : j < k => g[j] < g[k]
  /\ \A i \in 1 .. Len(s) : s[i] \in S => \E k \in 1 .. Len(Chosen(s, S)) : g[k] = i

LEMMA ChosenSteps ==
  ASSUME NEW T, NEW s \in Seq(T), NEW S
  PROVE  \E f : ChosenUpTo(f, s, S)
<1> DEFINE One(a, i) == IF s[i] \in S THEN Append(a, s[i]) ELSE a
           Is(f, m) == f = [i \in 0 .. m |-> IF i = 0 THEN <<>> ELSE One(f[i - 1], i)]
           Z == {m \in 0 .. Len(s) : \E f : Is(f, m)}
<1>0. Len(s) \in Nat  OBVIOUS
<1>1. 0 \in Z
  <2> DEFINE f == [i \in 0 .. 0 |-> <<>>]
  <2>1. Is(f, 0)  OBVIOUS
  <2>2. 0 \in 0 .. Len(s)  OBVIOUS
  <2> HIDE DEF f, Is
  <2> QED  BY <2>1, <2>2
<1>2. ASSUME NEW m \in 0 .. Len(s), m \in Z, m # Len(s) PROVE m + 1 \in Z
  <2>1. PICK g : Is(g, m)  BY <1>2
  <2> HIDE DEF One
  <2>2. DOMAIN g = 0 .. m /\ \A i \in 0 .. m : g[i] = IF i = 0 THEN <<>> ELSE One(g[i - 1], i)
    BY <2>1
  <2> DEFINE f == [i \in 0 .. m + 1 |-> IF i = m + 1 THEN One(g[m], m + 1) ELSE g[i]]
  <2>3. ASSUME NEW i \in 0 .. m + 1 PROVE f[i] = IF i = 0 THEN <<>> ELSE One(f[i - 1], i)
    <3>1. CASE i = m + 1
      <4>1. i # 0 /\ i - 1 = m /\ f[i - 1] = g[m]  BY <3>1
      <4> QED  BY <3>1, <4>1
    <3>2. CASE i # m + 1
      <4>1. i \in 0 .. m /\ f[i] = g[i]  BY <3>2
      <4>2. i # 0 => i - 1 \in 0 .. m + 1 /\ i - 1 # m + 1 /\ f[i - 1] = g[i - 1]  BY <4>1
      <4> QED  BY <2>2, <4>1, <4>2
    <3> QED  BY <3>1, <3>2
  <2>4. DOMAIN f = 0 .. m + 1 /\ f = [i \in 0 .. m + 1 |-> f[i]]  OBVIOUS
  <2> HIDE DEF f
  <2>5. Is(f, m + 1)  BY <2>3, <2>4
  <2>6. m + 1 \in 0 .. Len(s)  BY <1>2
  <2> QED  BY <2>5, <2>6
<1>3. Len(s) \in Z
  <2> HIDE DEF Z
  <2>1. 0 .. Len(s) \subseteq Z  BY <1>0, <1>1, <1>2, Counting, SMTT(30)
  <2> QED  BY <2>1
<1>4. \E f : Is(f, Len(s))  BY <1>3, SMTT(30)
<1> DEFINE f == CHOOSE f : Is(f, Len(s))
<1>5. Is(f, Len(s))  BY <1>4, Zenon
<1>6. Chosen(s, S) = f[Len(s)]  BY DEF Chosen
<1> HIDE DEF f
<1>7. DOMAIN f = 0 .. Len(s) /\ \A i \in 0 .. Len(s) : f[i] = IF i = 0 THEN <<>> ELSE One(f[i - 1], i)
  BY <1>5
<1>8. f[0] = <<>> /\ \A n \in 1 .. Len(s) : f[n] = One(f[n - 1], n)
  <2> HIDE DEF One
  <2> QED  BY <1>0, <1>7
<1>9. ChosenUpTo(f, s, S)  BY <1>6, <1>7, <1>8 DEF ChosenUpTo
<1> HIDE DEF Is, One
<1> QED  BY <1>9

LEMMA FoldSteps ==
  ASSUME NEW T, NEW s \in Seq(T)
  PROVE  \E f : /\ DOMAIN f = 0 .. Len(s) /\ f[0] = <<>> /\ FoldSurface(s) = f[Len(s)]
                /\ \A n \in 1 .. Len(s) :
                     f[n] = Join(f[n - 1], s[n].role, Kept(s[n], Paired(s)))
<1> DEFINE One(a, i) == Join(a, s[i].role, Kept(s[i], Paired(s)))
           Is(f, m) == f = [i \in 0 .. m |-> IF i = 0 THEN <<>> ELSE One(f[i - 1], i)]
           Z == {m \in 0 .. Len(s) : \E f : Is(f, m)}
<1>0. Len(s) \in Nat  OBVIOUS
<1>1. 0 \in Z
  <2> DEFINE f == [i \in 0 .. 0 |-> <<>>]
  <2>1. Is(f, 0)  OBVIOUS
  <2>2. 0 \in 0 .. Len(s)  OBVIOUS
  <2> HIDE DEF f, Is
  <2> QED  BY <2>1, <2>2
<1>2. ASSUME NEW m \in 0 .. Len(s), m \in Z, m # Len(s) PROVE m + 1 \in Z
  <2>1. PICK g : Is(g, m)  BY <1>2
  <2> HIDE DEF One
  <2>2. DOMAIN g = 0 .. m /\ \A i \in 0 .. m : g[i] = IF i = 0 THEN <<>> ELSE One(g[i - 1], i)
    BY <2>1
  <2> DEFINE f == [i \in 0 .. m + 1 |-> IF i = m + 1 THEN One(g[m], m + 1) ELSE g[i]]
  <2>3. ASSUME NEW i \in 0 .. m + 1 PROVE f[i] = IF i = 0 THEN <<>> ELSE One(f[i - 1], i)
    <3>1. CASE i = m + 1
      <4>1. i # 0 /\ i - 1 = m /\ f[i - 1] = g[m]  BY <3>1
      <4> QED  BY <3>1, <4>1
    <3>2. CASE i # m + 1
      <4>1. i \in 0 .. m /\ f[i] = g[i]  BY <3>2
      <4>2. i # 0 => i - 1 \in 0 .. m + 1 /\ i - 1 # m + 1 /\ f[i - 1] = g[i - 1]  BY <4>1
      <4> QED  BY <2>2, <4>1, <4>2
    <3> QED  BY <3>1, <3>2
  <2>4. DOMAIN f = 0 .. m + 1 /\ f = [i \in 0 .. m + 1 |-> f[i]]  OBVIOUS
  <2> HIDE DEF f
  <2>5. Is(f, m + 1)  BY <2>3, <2>4
  <2>6. m + 1 \in 0 .. Len(s)  BY <1>2
  <2> QED  BY <2>5, <2>6
<1>3. Len(s) \in Z
  <2> HIDE DEF Z
  <2>1. 0 .. Len(s) \subseteq Z  BY <1>0, <1>1, <1>2, Counting
  <2> QED  BY <2>1
<1>4. \E f : Is(f, Len(s))  BY <1>3
<1> DEFINE f == CHOOSE f : Is(f, Len(s))
<1>5. Is(f, Len(s))  BY <1>4
<1>6. FoldSurface(s) = f[Len(s)]  BY DEF FoldSurface
<1> HIDE DEF f
<1>7. DOMAIN f = 0 .. Len(s) /\ \A i \in 0 .. Len(s) : f[i] = IF i = 0 THEN <<>> ELSE One(f[i - 1], i)
  BY <1>5
<1>8. f[0] = <<>> /\ \A n \in 1 .. Len(s) : f[n] = One(f[n - 1], n)
  BY <1>7
<1> QED  BY <1>6, <1>7, <1>8

LEMMA FlattenSteps ==
  ASSUME NEW T, NEW s \in Seq(T), s # <<>>
  PROVE  \E f : /\ DOMAIN f = 1 .. Len(s) /\ f[1] = s[1] /\ FlattenSeq(s) = f[Len(s)]
                /\ \A n \in 2 .. Len(s) : f[n] = f[n - 1] \o s[n]
<1> DEFINE Is(f, m) == f = [i \in 1 .. m |-> IF i = 1 THEN s[i] ELSE f[i - 1] \o s[i]]
           Z == {m \in 0 .. Len(s) : \E f : Is(f, m)}
<1>0. Len(s) \in Nat /\ Len(s) # 0  OBVIOUS
<1>1. 0 \in Z
  <2> DEFINE f == <<>>
  <2>1. Is(f, 0)
    <3>1. 1 .. 0 = {}  OBVIOUS
    <3>2. DOMAIN f = {} /\ f = [i \in {} |-> f[i]]  OBVIOUS
    <3> QED  BY <3>1, <3>2
  <2>2. 0 \in 0 .. Len(s)  OBVIOUS
  <2> HIDE DEF f, Is
  <2> QED  BY <2>1, <2>2
<1>2. ASSUME NEW m \in 0 .. Len(s), m \in Z, m # Len(s) PROVE m + 1 \in Z
  <2>1. PICK g : Is(g, m)  BY <1>2
  <2> DEFINE One(a, i) == a \o s[i]
  <2>0. \A a, i : a \o s[i] = One(a, i)  OBVIOUS
  <2> HIDE DEF One
  <2>2. DOMAIN g = 1 .. m /\ \A i \in 1 .. m : g[i] = IF i = 1 THEN s[1] ELSE One(g[i - 1], i)
    BY <2>1, <2>0
  <2> DEFINE f == [i \in 1 .. m + 1 |-> IF i = m + 1 THEN (IF m = 0 THEN s[1] ELSE One(g[m], m + 1)) ELSE g[i]]
  <2>3. ASSUME NEW i \in 1 .. m + 1 PROVE f[i] = IF i = 1 THEN s[1] ELSE One(f[i - 1], i)
    <3>1. CASE i = m + 1
      <4>1. i # 1 => m # 0 /\ i - 1 = m /\ f[i - 1] = g[m]  BY <3>1
      <4> QED  BY <3>1, <4>1
    <3>2. CASE i # m + 1
      <4>1. i \in 1 .. m /\ f[i] = g[i]  BY <3>2
      <4>2. i # 1 => i - 1 \in 1 .. m + 1 /\ i - 1 # m + 1 /\ f[i - 1] = g[i - 1]  BY <4>1
      <4> QED  BY <2>2, <4>1, <4>2
    <3> QED  BY <3>1, <3>2
  <2>4. DOMAIN f = 1 .. m + 1 /\ f = [i \in 1 .. m + 1 |-> f[i]]  OBVIOUS
  <2> HIDE DEF f
  <2>5. Is(f, m + 1)
    <3>1. \A i \in 1 .. m + 1 : f[i] = IF i = 1 THEN s[i] ELSE f[i - 1] \o s[i]
      <4>1. \A i \in 1 .. m + 1 : f[i] = IF i = 1 THEN s[i] ELSE One(f[i - 1], i)
        BY <2>3
      <4> QED BY <4>1, Zenon DEF One
    <3> QED  BY <2>4, <3>1, Zenon
  <2>6. m + 1 \in 0 .. Len(s)  BY <1>2
  <2> QED  BY <2>5, <2>6
<1>3. Len(s) \in Z
  <2> HIDE DEF Z
  <2>1. 0 .. Len(s) \subseteq Z  BY <1>0, <1>1, <1>2, Counting, SMTT(30)
  <2> QED  BY <2>1
<1>4. \E f : Is(f, Len(s))  BY <1>3
<1> DEFINE f == CHOOSE f : Is(f, Len(s))
<1>5. Is(f, Len(s))  BY <1>4, Zenon
<1>6. FlattenSeq(s) = f[Len(s)]  BY <1>0 DEF FlattenSeq
<1> HIDE DEF f
<1>7. DOMAIN f = 1 .. Len(s) /\ \A i \in 1 .. Len(s) : f[i] = IF i = 1 THEN s[i] ELSE f[i - 1] \o s[i]
  BY <1>5
<1>8. 1 \in 1 .. Len(s) /\ \A n \in 2 .. Len(s) : n \in 1 .. Len(s) /\ n # 1
  BY <1>0
<1>9. f[1] = s[1] /\ \A n \in 2 .. Len(s) : f[n] = f[n - 1] \o s[n]
  BY <1>7, <1>8, Zenon
<1> QED  BY <1>6, <1>7, <1>9

LEMMA ChosenIs ==
  ASSUME NEW T, NEW s \in Seq(T), NEW S
  PROVE  Chosen(s, S) \in Seq(T) /\ \E g : Places(g, s, S)
<1>0. PICK f : ChosenUpTo(f, s, S)  BY ChosenSteps
<1>1. /\ DOMAIN f = 0 .. Len(s) /\ f[0] = <<>> /\ Chosen(s, S) = f[Len(s)]
      /\ \A n \in 1 .. Len(s) : f[n] = IF s[n] \in S THEN Append(f[n - 1], s[n]) ELSE f[n - 1]
  BY <1>0 DEF ChosenUpTo
<1> DEFINE G(c, g, n) ==
             /\ c \in Seq(T) /\ g \in [1 .. Len(c) -> 1 .. n]
             /\ \A k \in 1 .. Len(c) : c[k] = s[g[k]] /\ s[g[k]] \in S
             /\ \A j, k \in 1 .. Len(c) : j < k => g[j] < g[k]
             /\ \A i \in 1 .. n : s[i] \in S => \E k \in 1 .. Len(c) : g[k] = i
           Z == {n \in 0 .. Len(s) : \E g : G(f[n], g, n)}
<1>2. 0 \in Z
  <2> DEFINE g == [k \in {} |-> 1]
  <2>1. f[0] = <<>> /\ 1 .. Len(f[0]) = {} /\ 1 .. 0 = {} /\ f[0] \in Seq(T)  BY <1>1
  <2>2. g \in [1 .. Len(f[0]) -> 1 .. 0]  BY <2>1
  <2> HIDE DEF g
  <2>3. G(f[0], g, 0)  BY <2>1, <2>2
  <2>4. 0 \in 0 .. Len(s)  OBVIOUS
  <2> HIDE DEF G
  <2> QED  BY <2>3, <2>4
<1>3. ASSUME NEW n \in 0 .. Len(s), n \in Z, n # Len(s) PROVE n + 1 \in Z
  <2>1. n + 1 \in 1 .. Len(s) /\ n + 1 \in 0 .. Len(s) /\ n + 1 - 1 = n /\ n \in Nat  BY <1>3
  <2>2. PICK g : G(f[n], g, n)  BY <1>3
  <2> DEFINE c == f[n]
             x == s[n + 1]
  <2>3. f[n + 1] = IF x \in S THEN Append(c, x) ELSE c  BY <1>1, <2>1
  <2>4. x \in T  BY <2>1
  <2>5. CASE x \in S
    <3> DEFINE d == Append(c, x)
               h == [k \in 1 .. Len(c) + 1 |-> IF k = Len(c) + 1 THEN n + 1 ELSE g[k]]
    <3>1. c \in Seq(T) /\ Len(c) \in Nat  BY <2>2
    <3>2. /\ d \in Seq(T) /\ Len(d) = Len(c) + 1 /\ d[Len(c) + 1] = x
          /\ \A k \in 1 .. Len(c) : d[k] = c[k]
      BY <2>4, <3>1
    <3> HIDE DEF c, x, d
    <3>3. /\ DOMAIN h = 1 .. Len(d) /\ h[Len(c) + 1] = n + 1
          /\ \A k \in 1 .. Len(c) : h[k] = g[k] /\ g[k] \in 1 .. n
      <4>1. g \in [1 .. Len(c) -> 1 .. n]  BY <2>2 DEF c
      <4>2. \A k \in 1 .. Len(c) : k \in 1 .. Len(c) + 1 /\ k # Len(c) + 1  BY <3>1
      <4>3. Len(c) + 1 \in 1 .. Len(c) + 1  BY <3>1
      <4> QED  BY <3>2, <4>1, <4>2, <4>3
    <3> HIDE DEF h
    <3>4. \A k \in 1 .. Len(d) : k \in 1 .. Len(c) \/ k = Len(c) + 1  BY <3>1, <3>2
    <3>5. h \in [1 .. Len(d) -> 1 .. n + 1]
      <4>1. \A k \in 1 .. Len(d) : h[k] \in 1 .. n + 1  BY <2>1, <3>3, <3>4
      <4>2. h = [k \in 1 .. Len(d) |-> h[k]]  BY <3>3 DEF h
      <4> QED  BY <4>1, <4>2
    <3>6. \A k \in 1 .. Len(d) : d[k] = s[h[k]] /\ s[h[k]] \in S
      BY <2>2, <2>5, <3>2, <3>3, <3>4 DEF c, x
    <3>7. ASSUME NEW j \in 1 .. Len(d), NEW k \in 1 .. Len(d), j < k PROVE h[j] < h[k]
      <4>1. j \in 1 .. Len(c)  BY <3>1, <3>2, <3>7
      <4>2. CASE k = Len(c) + 1  BY <2>1, <3>3, <4>1, <4>2
      <4>3. CASE k \in 1 .. Len(c)  BY <2>2, <3>3, <3>7, <4>1, <4>3 DEF c
      <4> QED  BY <3>4, <4>2, <4>3
    <3>8. ASSUME NEW i \in 1 .. n + 1, s[i] \in S PROVE \E k \in 1 .. Len(d) : h[k] = i
      <4>1. CASE i = n + 1
        <5>1. Len(c) + 1 \in 1 .. Len(d)  BY <3>1, <3>2
        <5> QED  BY <3>3, <4>1, <5>1
      <4>2. CASE i # n + 1
        <5>1. i \in 1 .. n  BY <2>1, <4>2
        <5>2. PICK k \in 1 .. Len(c) : g[k] = i  BY <2>2, <3>8, <5>1 DEF c
        <5>3. k \in 1 .. Len(d)  BY <3>1, <3>2
        <5> QED  BY <3>3, <5>2, <5>3
      <4> QED  BY <4>1, <4>2
    <3>9. G(d, h, n + 1)  BY <3>2, <3>5, <3>6, <3>7, <3>8
    <3>10. f[n + 1] = d  BY <2>3, <2>5 DEF d
    <3> HIDE DEF G
    <3> QED  BY <2>1, <3>9, <3>10
  <2>6. CASE x \notin S
    <3>1. \A i \in 1 .. n + 1 : s[i] \in S => i \in 1 .. n  BY <2>1, <2>6
    <3>2. g \in [1 .. Len(c) -> 1 .. n + 1]  BY <2>1, <2>2
    <3>3. G(c, g, n + 1)  BY <2>2, <3>1, <3>2
    <3>4. f[n + 1] = c  BY <2>3, <2>6
    <3> HIDE DEF G, c
    <3> QED  BY <2>1, <3>3, <3>4
  <2> QED  BY <2>5, <2>6
<1> HIDE DEF Z
<1>4. 0 .. Len(s) \subseteq Z  BY <1>2, <1>3, Counting, SMTT(30)
<1>5. Len(s) \in Z  BY <1>4
<1> USE DEF Z
<1>6. PICK g : G(f[Len(s)], g, Len(s))  BY <1>5
<1>7. Chosen(s, S) \in Seq(T) /\ Places(g, s, S)  BY <1>1, <1>6 DEF Places
<1> HIDE DEF G, Z
<1> QED  BY <1>7

LEMMA ChosenRange ==
  ASSUME NEW T, NEW s \in Seq(T), NEW S
  PROVE  Range(Chosen(s, S)) = Range(s) \cap S
<1> DEFINE c == Chosen(s, S)
<1>0. PICK g : Places(g, s, S)  BY ChosenIs
<1>1. /\ g \in [1 .. Len(c) -> 1 .. Len(s)] /\ c \in Seq(T)
      /\ \A k \in 1 .. Len(c) : c[k] = s[g[k]] /\ s[g[k]] \in S
      /\ \A i \in 1 .. Len(s) : s[i] \in S => \E k \in 1 .. Len(c) : g[k] = i
  BY <1>0, ChosenIs DEF Places
<1> HIDE DEF c
<1>2. DOMAIN c = 1 .. Len(c) /\ DOMAIN s = 1 .. Len(s)  BY <1>1
<1>3. ASSUME NEW y \in Range(c) PROVE y \in Range(s) \cap S
  <2>1. PICK k \in 1 .. Len(c) : y = c[k]  BY <1>2 DEF Range
  <2>2. g[k] \in 1 .. Len(s) /\ y = s[g[k]] /\ y \in S  BY <1>1, <2>1
  <2> QED  BY <1>2, <2>2 DEF Range
<1>4. ASSUME NEW y \in Range(s) \cap S PROVE y \in Range(c)
  <2>1. PICK i \in 1 .. Len(s) : y = s[i]  BY <1>2 DEF Range
  <2>2. PICK k \in 1 .. Len(c) : g[k] = i  BY <1>1, <2>1
  <2>3. c[k] = y  BY <1>1, <2>1, <2>2
  <2> QED  BY <1>2, <2>3 DEF Range
<1> QED  BY <1>3, <1>4 DEF c

LEMMA FlattenAppend ==
  ASSUME NEW T, NEW s \in Seq(Seq(T)), NEW x \in Seq(T)
  PROVE  FlattenSeq(s) \in Seq(T) /\ FlattenSeq(Append(s, x)) = FlattenSeq(s) \o x
<1> DEFINE t == Append(s, x)
<1>0. /\ t \in Seq(Seq(T)) /\ t # <<>> /\ Len(t) = Len(s) + 1 /\ t[Len(s) + 1] = x
      /\ Len(s) \in Nat /\ \A i \in 1 .. Len(s) : t[i] = s[i]
  <2>1. /\ t \in Seq(Seq(T)) /\ Len(t) = Len(s) + 1 /\ t[Len(s) + 1] = x
        /\ \A i \in 1 .. Len(s) : t[i] = s[i]
    BY AppendProperties
  <2> HIDE DEF t
  <2> QED  BY <2>1
<1> HIDE DEF t
<1>1. PICK f : /\ DOMAIN f = 1 .. Len(t) /\ f[1] = t[1] /\ FlattenSeq(t) = f[Len(t)]
               /\ \A n \in 2 .. Len(t) : f[n] = f[n - 1] \o t[n]
  BY <1>0, FlattenSteps
<1>2. CASE s = <<>>
  <2>1. FlattenSeq(s) = <<>>  BY <1>2 DEF FlattenSeq
  <2>2. FlattenSeq(t) = x  BY <1>0, <1>1, <1>2
  <2> QED  BY <2>1, <2>2 DEF t
<1>3. CASE s # <<>>
  <2>1. PICK g : /\ DOMAIN g = 1 .. Len(s) /\ g[1] = s[1] /\ FlattenSeq(s) = g[Len(s)]
                 /\ \A n \in 2 .. Len(s) : g[n] = g[n - 1] \o s[n]
    BY <1>3, FlattenSteps
  <2> DEFINE Z == {n \in 0 .. Len(s) : n # 0 => f[n] = g[n] /\ g[n] \in Seq(T)}
  <2>2. 0 \in Z
    <3>1. 0 \in 0 .. Len(s)  BY <1>0
    <3> QED  BY <3>1, Zenon
  <2>3. ASSUME NEW n \in 0 .. Len(s), n \in Z, n # Len(s) PROVE n + 1 \in Z
    <3>1. n + 1 \in 1 .. Len(s) /\ n + 1 - 1 = n /\ n + 1 \in 0 .. Len(s) /\ n \in Nat
          /\ s[n + 1] \in Seq(T)
      BY <2>3
    <3>2. CASE n = 0
      <4>1. 1 \in 1 .. Len(s)  BY <3>1, <3>2
      <4>2. f[1] = t[1] /\ g[1] = s[1] /\ t[1] = s[1]  BY <1>0, <1>1, <2>1, <4>1
      <4>3. f[n + 1] = g[n + 1] /\ g[n + 1] \in Seq(T)  BY <3>1, <3>2, <4>2
      <4> QED  BY <3>1, <4>3
    <3>3. CASE n # 0
      <4>1. n + 1 \in 2 .. Len(s) /\ n + 1 \in 2 .. Len(t)  BY <1>0, <3>1, <3>3
      <4>2. f[n + 1] = f[n] \o t[n + 1] /\ g[n + 1] = g[n] \o s[n + 1] /\ t[n + 1] = s[n + 1]
        <5> PICK m : m = n + 1  OBVIOUS
        <5>0. m \in 2 .. Len(s) /\ m \in 2 .. Len(t) /\ m - 1 = n /\ m \in 1 .. Len(s)
          BY <3>1, <4>1
        <5>1. f[m] = f[m - 1] \o t[m] /\ g[m] = g[m - 1] \o s[m]
          BY <1>1, <2>1, <5>0, Zenon
        <5> QED  BY <1>0, <5>0, <5>1, Zenon
      <4>3. f[n] = g[n] /\ g[n] \in Seq(T)  BY <2>3, <3>3
      <4>4. g[n] \o s[n + 1] \in Seq(T)  BY <3>1, <4>3
      <4>5. f[n + 1] = g[n + 1] /\ g[n + 1] \in Seq(T)  BY <4>2, <4>3, <4>4, Zenon
      <4> QED  BY <3>1, <4>5
    <3> QED  BY <3>2, <3>3
  <2>4. Len(s) \in Z
    <3> HIDE DEF Z
    <3>1. 0 .. Len(s) \subseteq Z  BY <1>0, <2>2, <2>3, Counting
    <3> QED  BY <1>0, <3>1
  <2>5. Len(s) # 0  BY <1>3
  <2>6. f[Len(s)] = g[Len(s)] /\ g[Len(s)] \in Seq(T)  BY <2>4, <2>5
  <2>7. f[Len(t)] = f[Len(s)] \o x
    <3>1. Len(t) \in 2 .. Len(t) /\ Len(t) - 1 = Len(s)  BY <1>0, <2>5
    <3>2. f[Len(t)] = f[Len(t) - 1] \o t[Len(t)]  BY <1>1, <3>1, Zenon
    <3> QED  BY <1>0, <3>1, <3>2, Zenon
  <2> QED  BY <1>1, <2>1, <2>6, <2>7, Zenon DEF t
<1> QED  BY <1>2, <1>3

-----------------------------------------------------------------------------
(* The fold.                                                               *)

LEMMA KeptIs ==
  ASSUME NEW e \in Entry, NEW P
  PROVE  /\ Kept(e, P) \in Seq(Block)
         /\ \A b : b \in Range(Kept(e, P)) <=> b \in Range(e.blocks) /\ (b.id = NoId \/ b.id \in P)
<1>1. e.blocks \in Seq(Block)  BY DEF Entry
<1> QED  BY <1>1, ChosenIs, ChosenRange DEF Kept

LEMMA FlatAppend ==
  ASSUME NEW M \in Seq(Message), NEW m \in Message
  PROVE  Flat(M) \in Seq(Block) /\ Flat(Append(M, m)) = Flat(M) \o m.content
<1> DEFINE s == [n \in DOMAIN M |-> M[n].content]
           t == [n \in DOMAIN Append(M, m) |-> Append(M, m)[n].content]
<1>0. /\ DOMAIN M = 1 .. Len(M) /\ Len(M) \in Nat
      /\ DOMAIN Append(M, m) = 1 .. Len(M) + 1 /\ Append(M, m)[Len(M) + 1] = m
      /\ \A n \in 1 .. Len(M) : Append(M, m)[n] = M[n]
  OBVIOUS
<1>1. m.content \in Seq(Block) /\ \A n \in 1 .. Len(M) : M[n].content \in Seq(Block)
  <2>1. \A n \in 1 .. Len(M) : M[n] \in Message  OBVIOUS
  <2> QED  BY <2>1 DEF Message
<1>2. s \in Seq(Seq(Block)) /\ Len(s) = Len(M) /\ \A n \in 1 .. Len(M) : s[n] = M[n].content
  BY <1>0, <1>1
<1>3. t = Append(s, m.content)
  <2> DEFINE a == Append(s, m.content)
  <2>1. /\ a \in Seq(Seq(Block)) /\ Len(a) = Len(M) + 1 /\ a[Len(M) + 1] = m.content
        /\ \A n \in 1 .. Len(M) : a[n] = M[n].content
    <3> HIDE DEF s
    <3> QED  BY <1>1, <1>2, AppendProperties
  <2>2. /\ DOMAIN t = 1 .. Len(M) + 1 /\ t[Len(M) + 1] = m.content
        /\ \A n \in 1 .. Len(M) : t[n] = M[n].content
    BY <1>0
  <2>3. DOMAIN a = 1 .. Len(M) + 1  BY <2>1
  <2>4. \A n \in 1 .. Len(M) + 1 : n \in 1 .. Len(M) \/ n = Len(M) + 1  BY <1>0
  <2>5. t = [n \in DOMAIN t |-> t[n]]  OBVIOUS
  <2>6. a = [n \in DOMAIN a |-> a[n]]  BY <2>1
  <2> HIDE DEF a, t
  <2>7. \A n \in 1 .. Len(M) + 1 : t[n] = a[n]  BY <2>1, <2>2, <2>4
  <2>8. t = a  BY <2>2, <2>3, <2>5, <2>6, <2>7
  <2> QED  BY <2>8 DEF a
<1>4. Flat(M) = FlattenSeq(s) /\ Flat(Append(M, m)) = FlattenSeq(t)  BY DEF Flat
<1> HIDE DEF s, t
<1>5. FlattenSeq(s) \in Seq(Block) /\ FlattenSeq(Append(s, m.content)) = FlattenSeq(s) \o m.content
  BY <1>1, <1>2, FlattenAppend
<1> QED  BY <1>3, <1>4, <1>5

LEMMA FlatEmpty == Flat(<<>>) = <<>>
<1>1. [n \in DOMAIN <<>> |-> <<>>[n].content] = <<>>  OBVIOUS
<1>2. FlattenSeq(<<>>) = <<>>  BY DEF FlattenSeq
<1> QED  BY <1>1, <1>2, Zenon DEF Flat

LEMMA Extended ==
  ASSUME NEW M \in Seq(Message), M # <<>>, NEW kept \in Seq(Block)
  PROVE  LET N == [M EXCEPT ![Len(M)].content = @ \o kept]
             m == [role |-> M[Len(M)].role, content |-> M[Len(M)].content \o kept]
         IN  /\ m \in Message /\ N \in Seq(Message) /\ Len(N) = Len(M) /\ N[Len(M)] = m
             /\ \A n \in 1 .. Len(M) - 1 : N[n] = M[n]
             /\ N = Append(SubSeq(M, 1, Len(M) - 1), m)
<1> DEFINE N == [M EXCEPT ![Len(M)].content = @ \o kept]
           m == [role |-> M[Len(M)].role, content |-> M[Len(M)].content \o kept]
           F == SubSeq(M, 1, Len(M) - 1)
           A == Append(F, m)
<1>1. Len(M) \in Nat /\ Len(M) # 0 /\ DOMAIN M = 1 .. Len(M) /\ M[Len(M)] \in Message  OBVIOUS
<1>2. m \in Message
  <2>1. M[Len(M)].content \in Seq(Block) /\ M[Len(M)].role \in Role  BY <1>1 DEF Message
  <2>2. M[Len(M)].content \o kept \in Seq(Block)  BY <2>1
  <2> QED  BY <2>1, <2>2 DEF Message
<1>3. [M[Len(M)] EXCEPT !.content = @ \o kept] = m
  <2> DEFINE x == M[Len(M)]
  <2>1. x = [role |-> x.role, content |-> x.content]  BY <1>1 DEF Message
  <2> HIDE DEF x
  <2> DEFINE y == x.content \o kept
  <2> HIDE DEF y
  <2>3. [x EXCEPT !.content = y] = [role |-> x.role, content |-> y]
    <3>1. PICK r, c : x = [role |-> r, content |-> c]  BY <2>1
    <3> QED  BY <3>1
  <2>2. [x EXCEPT !.content = x.content \o kept] = [role |-> x.role, content |-> x.content \o kept]
    BY <2>3 DEF y
  <2> QED  BY <2>2 DEF x
<1>4. N = [M EXCEPT ![Len(M)] = m]  BY <1>1, <1>3
<1> HIDE DEF m
<1>5. N \in Seq(Message) /\ Len(N) = Len(M) /\ N[Len(M)] = m /\ DOMAIN N = 1 .. Len(M)
      /\ \A n \in 1 .. Len(M) - 1 : N[n] = M[n]
  <2>1. [M EXCEPT ![Len(M)] = m] \in Seq(Message) /\ Len([M EXCEPT ![Len(M)] = m]) = Len(M)
        /\ \A n \in 1 .. Len(M) : [M EXCEPT ![Len(M)] = m][n] = IF n = Len(M) THEN m ELSE M[n]
    BY <1>1, <1>2, ExceptSeq
  <2>2. N \in Seq(Message) /\ Len(N) = Len(M) /\ \A n \in 1 .. Len(M) : N[n] = IF n = Len(M) THEN m ELSE M[n]
    <3> HIDE DEF N
    <3> QED  BY <1>4, <2>1, Zenon
  <2> HIDE DEF N
  <2>3. \A n \in 1 .. Len(M) - 1 : n \in 1 .. Len(M) /\ n # Len(M)
    <3>1. Len(M) \in Nat  BY <1>1
    <3> QED  BY ONLY <3>1
  <2>4. Len(M) \in 1 .. Len(M)  BY <1>1
  <2>5. DOMAIN N = 1 .. Len(N)  BY <2>2
  <2> QED  BY <2>2, <2>3, <2>4, <2>5, Zenon
<1>6. F \in Seq(Message) /\ Len(F) = Len(M) - 1 /\ \A n \in 1 .. Len(M) - 1 : F[n] = M[n]
  BY <1>1
<1> HIDE DEF N, F, A
<1>7. /\ A \in Seq(Message) /\ Len(A) = Len(M) /\ A[Len(M)] = m
      /\ \A n \in 1 .. Len(M) - 1 : A[n] = M[n]
  <2>1. /\ Append(F, m) \in Seq(Message) /\ Len(Append(F, m)) = Len(F) + 1
        /\ Append(F, m)[Len(F) + 1] = m /\ \A n \in 1 .. Len(F) : Append(F, m)[n] = F[n]
    BY <1>2, <1>6, AppendProperties
  <2>2. A = Append(F, m)  BY DEF A
  <2>3. Len(F) + 1 = Len(M)  BY <1>1, <1>6, SMTT(30)
  <2>4. \A n \in 1 .. Len(M) - 1 : n \in 1 .. Len(F)  BY <1>6, SMTT(30)
  <2> QED  BY <1>6, <2>1, <2>2, <2>3, <2>4, Zenon
<1>8. N = A
  <2>1. \A n \in 1 .. Len(M) : N[n] = A[n]
    <3>1. \A n \in 1 .. Len(M) : n \in 1 .. Len(M) - 1 \/ n = Len(M)
      <4>1. Len(M) \in Nat  BY <1>1
      <4> QED  BY ONLY <4>1
    <3> QED  BY <1>5, <1>7, <3>1, Zenon
  <2> QED  BY <1>5, <1>7, <2>1, SeqEqual, SMTT(30)
<1> QED  BY <1>2, <1>5, <1>8 DEF N, m, A, F

LEMMA JoinIs ==
  ASSUME NEW M \in Seq(Message), NEW role \in Role, NEW kept \in Seq(Block)
  PROVE  /\ Join(M, role, kept) \in Seq(Message)
         /\ Flat(Join(M, role, kept)) = Flat(M) \o kept
         /\ Flat(M) \in Seq(Block)
<1>0. Flat(M) \in Seq(Block)
  <2>1. [role |-> role, content |-> kept] \in Message  BY DEF Message
  <2> QED  BY <2>1, FlatAppend
<1>1. CASE kept = <<>>
  <2>1. Flat(M) \o <<>> = Flat(M)  BY <1>0, ConcatEmptySeq
  <2> QED  BY <1>0, <1>1, <2>1 DEF Join
<1>2. CASE kept # <<>> /\ M # <<>> /\ Last(M).role = role
  <2> DEFINE N == [M EXCEPT ![Len(M)].content = @ \o kept]
             c == M[Len(M)].content
             m == [role |-> M[Len(M)].role, content |-> c \o kept]
             F == SubSeq(M, 1, Len(M) - 1)
  <2>1. N \in Seq(Message) /\ m \in Message /\ N = Append(F, m)  BY <1>2, Extended
  <2>2. Join(M, role, kept) = N  BY <1>2 DEF Join
  <2>3. F \in Seq(Message) /\ c \in Seq(Block) /\ M[Len(M)] \in Message
    <3>1. Len(M) \in Nat \ {0} /\ M[Len(M)] \in Message  BY <1>2
    <3>2. \A x \in Message : x.content \in Seq(Block)  BY DEF Message
    <3>3. F \in Seq(Message)  BY <3>1
    <3> QED  BY <3>1, <3>2, <3>3
  <2>4. M = Append(F, M[Len(M)])
    <3>1. Len(M) \in Nat \ {0}  BY <1>2
    <3>2. Len(F) = Len(M) - 1 /\ \A n \in 1 .. Len(M) - 1 : F[n] = M[n]
      <4> PICK k \in Nat : k = Len(M)  BY <3>1
      <4>1. 1 \in 1 .. k + 1 /\ k - 1 \in 0 .. k  BY <3>1
      <4>2. Len(SubSeq(M, 1, k - 1)) = k - 1 /\ \A n \in 1 .. k - 1 : SubSeq(M, 1, k - 1)[n] = M[n]
        BY <3>1, <4>1
      <4> QED  BY <4>2 DEF F
    <3> HIDE DEF F
    <3>3. /\ Append(F, M[Len(M)]) \in Seq(Message) /\ Len(Append(F, M[Len(M)])) = Len(M)
          /\ \A n \in 1 .. Len(M) : Append(F, M[Len(M)])[n] = M[n]
      BY <2>3, <3>1, <3>2, AppendProperties
    <3> QED  BY <3>3, SeqEqual
  <2> HIDE DEF N, c, F
  <2>5. Flat(F) \in Seq(Block) /\ Flat(N) = Flat(F) \o (c \o kept) /\ Flat(M) = Flat(F) \o c
    <3>1. m.content = c \o kept /\ M[Len(M)].content = c  BY DEF c
    <3>2. Flat(Append(F, m)) = Flat(F) \o m.content  BY <2>1, <2>3, FlatAppend
    <3>3. Flat(Append(F, M[Len(M)])) = Flat(F) \o M[Len(M)].content /\ Flat(F) \in Seq(Block)
      BY <2>3, FlatAppend
    <3> HIDE DEF m
    <3> QED  BY <2>1, <2>4, <3>1, <3>2, <3>3, Zenon
  <2>6. (Flat(F) \o c) \o kept = Flat(F) \o (c \o kept)
    <3>1. Flat(F) \in Seq(Block) /\ c \in Seq(Block) /\ kept \in Seq(Block)  BY <2>3, <2>5
    <3>2. \A x, y, z \in Seq(Block) : (x \o y) \o z = x \o (y \o z)  BY ONLY ConcatAssociative, SMTT(30)
    <3> QED  BY <3>1, <3>2, Zenon
  <2> QED  BY <1>0, <2>1, <2>2, <2>5, <2>6
<1>3. CASE kept # <<>> /\ ~(M # <<>> /\ Last(M).role = role)
  <2> DEFINE m == [role |-> role, content |-> kept]
  <2>1. m \in Message /\ m.content = kept  BY DEF Message
  <2>2. Join(M, role, kept) = Append(M, m)  BY <1>3 DEF Join
  <2> HIDE DEF m
  <2>3. Flat(Append(M, m)) = Flat(M) \o kept /\ Append(M, m) \in Seq(Message)
    BY <2>1, FlatAppend, AppendProperties
  <2> QED  BY <1>0, <2>2, <2>3
<1> QED  BY <1>1, <1>2, <1>3

LEMMA FoldTyped ==
  ASSUME NEW s \in Seq(Entry)
  PROVE  \E f : /\ DOMAIN f = 0 .. Len(s) /\ f[0] = <<>> /\ FoldSurface(s) = f[Len(s)]
                /\ \A n \in 0 .. Len(s) : f[n] \in Seq(Message)
                /\ \A n \in 1 .. Len(s) :
                     /\ f[n] = Join(f[n - 1], s[n].role, Kept(s[n], Paired(s)))
                     /\ Flat(f[n]) = Flat(f[n - 1]) \o Kept(s[n], Paired(s))
<1>1. PICK f : /\ DOMAIN f = 0 .. Len(s) /\ f[0] = <<>> /\ FoldSurface(s) = f[Len(s)]
               /\ \A n \in 1 .. Len(s) : f[n] = Join(f[n - 1], s[n].role, Kept(s[n], Paired(s)))
  BY FoldSteps
<1> DEFINE Z == {n \in 0 .. Len(s) : f[n] \in Seq(Message)}
<1>0. Len(s) \in Nat  OBVIOUS
<1>2. 0 \in Z
  <2>1. 0 \in 0 .. Len(s) /\ <<>> \in Seq(Message)  BY <1>0
  <2> QED  BY <1>1, <2>1
<1>3. \A n \in 1 .. Len(s) : s[n] \in Entry /\ s[n].role \in Role /\ Kept(s[n], Paired(s)) \in Seq(Block)
  <2>1. \A n \in 1 .. Len(s) : s[n] \in Entry  OBVIOUS
  <2>2. \A e \in Entry : e.role \in Role  BY DEF Entry
  <2> QED  BY <2>1, <2>2, KeptIs
<1>4. ASSUME NEW n \in 0 .. Len(s), n \in Z, n # Len(s) PROVE n + 1 \in Z
  <2>1. n + 1 \in 1 .. Len(s) /\ n + 1 - 1 = n /\ n + 1 \in 0 .. Len(s)  BY <1>4
  <2>2. f[n] \in Seq(Message)  BY <1>4
  <2>3. f[n + 1] = Join(f[n], s[n + 1].role, Kept(s[n + 1], Paired(s)))  BY <1>1, <2>1
  <2>4. f[n + 1] \in Seq(Message)  BY <1>3, <2>1, <2>2, <2>3, JoinIs
  <2> QED  BY <2>1, <2>4
<1>5. \A n \in 0 .. Len(s) : f[n] \in Seq(Message)
  <2> HIDE DEF Z
  <2>1. 0 .. Len(s) \subseteq Z  BY <1>0, <1>2, <1>4, Counting
  <2> QED  BY <2>1 DEF Z
<1>6. ASSUME NEW n \in 1 .. Len(s)
      PROVE  Flat(f[n]) = Flat(f[n - 1]) \o Kept(s[n], Paired(s))
  <2>1. n - 1 \in 0 .. Len(s)  OBVIOUS
  <2>2. f[n - 1] \in Seq(Message)  BY <1>5, <2>1
  <2>3. f[n] = Join(f[n - 1], s[n].role, Kept(s[n], Paired(s)))  BY <1>1
  <2>4. s[n].role \in Role /\ Kept(s[n], Paired(s)) \in Seq(Block)  BY <1>3
  <2> DEFINE a == f[n - 1]
             r == s[n].role
             k == Kept(s[n], Paired(s))
  <2>5. a \in Seq(Message) /\ r \in Role /\ k \in Seq(Block) /\ f[n] = Join(a, r, k)
    BY <2>2, <2>3, <2>4
  <2> HIDE DEF a, r, k
  <2>6. Flat(Join(a, r, k)) = Flat(a) \o k  BY <2>5, JoinIs
  <2> QED  BY <2>5, <2>6, Zenon DEF a, k
<1> QED  BY <1>1, <1>5, <1>6

LEMMA PrefixGrows ==
  ASSUME NEW T, NEW u \in Seq(T), NEW a \in Seq(T), NEW k \in Seq(T), IsPrefix(u, a)
  PROVE  IsPrefix(u, a \o k)
<1>1. Len(u) \in Nat /\ Len(a) \in Nat /\ Len(k) \in Nat /\ Len(a \o k) = Len(a) + Len(k)
  OBVIOUS
<1>2. Len(u) <= Len(a) /\ SubSeq(u, 1, Len(u)) = SubSeq(a, 1, Len(u))  BY DEF IsPrefix
<1>3. SubSeq(a \o k, 1, Len(u)) = SubSeq(a, 1, Len(u))
  <2>1. 1 \in 1 .. Len(a) + 1 /\ Len(u) \in 1 - 1 .. Len(a)  BY <1>1, <1>2
  <2> QED  BY <2>1, SubSeqOfConcat1
<1>4. Len(u) <= Len(a \o k)
  <2> DEFINE n == Len(a \o k)
  <2> HIDE DEF n
  <2>1. n = Len(a) + Len(k)  BY <1>1 DEF n
  <2> QED  BY <1>1, <1>2, <2>1 DEF n
<1> QED  BY <1>2, <1>3, <1>4, Zenon DEF IsPrefix

LEMMA FoldPrefix ==
  ASSUME NEW s \in Seq(Entry), NEW t \in Seq(Entry), Len(s) <= Len(t),
         \A n \in 1 .. Len(s) : /\ s[n].role = t[n].role
                                /\ Kept(s[n], Paired(s)) = Kept(t[n], Paired(t))
  PROVE  IsPrefix(Flat(FoldSurface(s)), Flat(FoldSurface(t)))
<1>0. Len(s) \in Nat /\ Len(t) \in Nat  OBVIOUS
<1>1. PICK f : /\ DOMAIN f = 0 .. Len(s) /\ f[0] = <<>> /\ FoldSurface(s) = f[Len(s)]
               /\ \A n \in 0 .. Len(s) : f[n] \in Seq(Message)
               /\ \A n \in 1 .. Len(s) : f[n] = Join(f[n - 1], s[n].role, Kept(s[n], Paired(s)))
  BY FoldTyped
<1>2. PICK g : /\ DOMAIN g = 0 .. Len(t) /\ g[0] = <<>> /\ FoldSurface(t) = g[Len(t)]
               /\ \A n \in 0 .. Len(t) : g[n] \in Seq(Message)
               /\ \A n \in 1 .. Len(t) :
                    /\ g[n] = Join(g[n - 1], t[n].role, Kept(t[n], Paired(t)))
                    /\ Flat(g[n]) = Flat(g[n - 1]) \o Kept(t[n], Paired(t))
  BY FoldTyped
<1> DEFINE Z == {n \in 0 .. Len(s) : f[n] = g[n]}
<1>3. 0 \in Z  BY <1>0, <1>1, <1>2
<1>4. ASSUME NEW n \in 0 .. Len(s), n \in Z, n # Len(s) PROVE n + 1 \in Z
  <2> PICK m : m = n + 1  OBVIOUS
  <2>1. m \in 1 .. Len(s) /\ m \in 1 .. Len(t) /\ m - 1 = n /\ m \in 0 .. Len(s)  BY <1>0, <1>4
  <2>2. /\ f[m] = Join(f[m - 1], s[m].role, Kept(s[m], Paired(s)))
        /\ g[m] = Join(g[m - 1], t[m].role, Kept(t[m], Paired(t)))
    BY <1>1, <1>2, <2>1, Zenon
  <2>3. f[m - 1] = g[m - 1]  BY <1>4, <2>1
  <2>4. f[m] = g[m]  BY <2>1, <2>2, <2>3, Zenon
  <2> QED  BY <2>1, <2>4
<1>5. f[Len(s)] = g[Len(s)]
  <2> HIDE DEF Z
  <2>1. 0 .. Len(s) \subseteq Z  BY <1>0, <1>3, <1>4, Counting
  <2> QED  BY <1>0, <2>1 DEF Z
<1> DEFINE u == Flat(FoldSurface(s))
           Y == {n \in 0 .. Len(t) - Len(s) : IsPrefix(u, Flat(g[Len(s) + n]))}
<1>6. u \in Seq(Block) /\ \A n \in 0 .. Len(t) : Flat(g[n]) \in Seq(Block)
  <2>1. ASSUME NEW M \in Seq(Message) PROVE Flat(M) \in Seq(Block)
    <3>1. <<>> \in Seq(Block) /\ "user" \in Role  BY DEF Role
    <3> QED  BY <3>1, JoinIs
  <2>2. Len(s) \in 0 .. Len(s)  BY <1>0
  <2> QED  BY <1>1, <1>2, <2>1, <2>2
<1>7. u = Flat(g[Len(s)])  BY <1>1, <1>5
<1> HIDE DEF u
<1>8. 0 \in Y
  <2>1. Len(u) \in Nat  BY <1>6
  <2>2. IsPrefix(u, u)  BY <2>1 DEF IsPrefix
  <2>3. Len(s) + 0 = Len(s) /\ 0 \in 0 .. Len(t) - Len(s)  BY <1>0
  <2> QED  BY <1>7, <2>2, <2>3
<1>9. ASSUME NEW n \in 0 .. Len(t) - Len(s), n \in Y, n # Len(t) - Len(s) PROVE n + 1 \in Y
  <2> PICK m : m = Len(s) + n + 1  OBVIOUS
  <2>1. /\ m \in 1 .. Len(t) /\ m - 1 \in 0 .. Len(t) /\ m - 1 = Len(s) + n
        /\ m = Len(s) + (n + 1) /\ n + 1 \in 0 .. Len(t) - Len(s)
    BY <1>0, <1>9
  <2> DEFINE a == Flat(g[m - 1])
             k == Kept(t[m], Paired(t))
  <2>2. IsPrefix(u, a)  BY <1>9, <2>1
  <2>3. a \in Seq(Block)  BY <1>6, <2>1
  <2>4. k \in Seq(Block)
    <3>1. t[m] \in Entry  BY <2>1
    <3> QED  BY <3>1, KeptIs
  <2>5. Flat(g[m]) = a \o k  BY <1>2, <2>1, Zenon
  <2> HIDE DEF a, k
  <2>6. IsPrefix(u, a \o k)  BY <1>6, <2>2, <2>3, <2>4, PrefixGrows
  <2>7. IsPrefix(u, Flat(g[m]))  BY <2>5, <2>6
  <2> QED  BY <2>1, <2>7
<1>10. Len(t) - Len(s) \in Y
  <2> HIDE DEF Y
  <2>0. Len(t) - Len(s) \in Nat  BY <1>0
  <2>1. 0 .. Len(t) - Len(s) \subseteq Y  BY <2>0, <1>8, <1>9, Counting
  <2> QED  BY <2>0, <2>1
<1>11. Len(s) + (Len(t) - Len(s)) = Len(t)  BY <1>0
<1>12. IsPrefix(u, Flat(g[Len(t)]))  BY <1>10, <1>11
<1> QED  BY <1>2, <1>12 DEF u

LEMMA InIds ==
  ASSUME NEW T, NEW s \in Seq(T), NEW kind
  PROVE  \A x : x \in Ids(s, kind) <=> \E i \in 1 .. Len(s) : \E b \in Range(s[i].blocks) : b.kind = kind /\ b.id = x
<1>1. Range(s) = {s[i] : i \in 1 .. Len(s)}  BY DEF Range
<1>2. ASSUME NEW x \in Ids(s, kind)
      PROVE  \E i \in 1 .. Len(s) : \E b \in Range(s[i].blocks) : b.kind = kind /\ b.id = x
  <2>1. PICK b \in UNION {Range(e.blocks) : e \in Range(s)} : b.kind = kind /\ b.id = x
    BY <1>2 DEF Ids
  <2>2. PICK e \in Range(s) : b \in Range(e.blocks)  BY <2>1
  <2>3. PICK i \in 1 .. Len(s) : e = s[i]  BY <1>1, <2>2
  <2> QED  BY <2>1, <2>2, <2>3
<1>3. ASSUME NEW x, NEW i \in 1 .. Len(s), NEW b \in Range(s[i].blocks), b.kind = kind, b.id = x
      PROVE  x \in Ids(s, kind)
  <2>1. s[i] \in Range(s)  BY <1>1
  <2>2. b \in UNION {Range(e.blocks) : e \in Range(s)}  BY <2>1
  <2> QED  BY <1>3, <2>2 DEF Ids
<1> QED  BY <1>2, <1>3

LEMMA PairedGrows ==
  ASSUME NEW s \in Seq(Entry), NEW t \in Seq(Entry), Len(s) <= Len(t),
         \A n \in 1 .. Len(s) : s[n] = t[n]
  PROVE  Paired(s) \subseteq Paired(t)
<1>1. \A n \in 1 .. Len(s) : n \in 1 .. Len(t)
  <2>1. Len(s) \in Nat /\ Len(t) \in Nat  OBVIOUS
  <2> QED  BY ONLY <2>1, Len(s) <= Len(t)
<1>2. ASSUME NEW kind, NEW x \in Ids(s, kind) PROVE x \in Ids(t, kind)
  <2>1. PICK i \in 1 .. Len(s) : \E b \in Range(s[i].blocks) : b.kind = kind /\ b.id = x
    BY InIds
  <2>2. i \in 1 .. Len(t) /\ s[i] = t[i]  BY <1>1
  <2>3. \E j \in 1 .. Len(t) : \E b \in Range(t[j].blocks) : b.kind = kind /\ b.id = x
    BY <2>1, <2>2, Zenon
  <2> QED  BY <2>3, InIds
<1> QED  BY <1>2 DEF Paired

-----------------------------------------------------------------------------
(* A conversation in good order is taken.                                  *)

LEMMA DueNext ==
  ASSUME NEW s \in Seq(Entry), Orderly(s), NEW n \in 1 .. Len(s)
  PROVE  Due(s, n) = (Due(s, n - 1) \cup UsesAt(s, n)) \ ResultsAt(s, n)
<1>0. \A i : i \in 1 .. n <=> i \in 1 .. n - 1 \/ i = n  OBVIOUS
<1>1. ASSUME NEW x \in Due(s, n) PROVE x \in (Due(s, n - 1) \cup UsesAt(s, n)) \ ResultsAt(s, n)
  BY <1>0, <1>1 DEF Due
<1>2. ASSUME NEW x \in Due(s, n - 1), x \notin ResultsAt(s, n) PROVE x \in Due(s, n)
  BY <1>0, <1>2 DEF Due
<1>3. ASSUME NEW x \in UsesAt(s, n), x \notin ResultsAt(s, n) PROVE x \in Due(s, n)
  <2>1. ASSUME NEW k \in 1 .. n - 1, x \in ResultsAt(s, k) PROVE FALSE
    <3>1. k \in 1 .. Len(s)  OBVIOUS
    <3>2. x \in Due(s, k - 1)  BY <2>1, <3>1 DEF Orderly
    <3>3. PICK i \in 1 .. k - 1 : x \in UsesAt(s, i)  BY <3>2 DEF Due
    <3>4. i \in 1 .. n - 1  OBVIOUS
    <3>5. UsesAt(s, i) \cap UsesAt(s, n) = {}  BY <3>4 DEF Orderly
    <3> QED  BY <1>3, <3>3, <3>5
  <2>2. x \in Paired(s)  BY <1>3 DEF UsesAt
  <2>3. n \in 1 .. n  OBVIOUS
  <2> QED  BY <1>0, <1>3, <2>1, <2>2, <2>3 DEF Due
<1> QED  BY <1>1, <1>2, <1>3

LEMMA DueEnds ==
  ASSUME NEW s \in Seq(Entry)
  PROVE  Due(s, 0) = {} /\ Due(s, Len(s)) = {}
<1>1. 1 .. 0 = {}  OBVIOUS
<1>2. ASSUME NEW x \in Due(s, Len(s)) PROVE FALSE
  <2>1. x \in Paired(s) /\ \A k \in 1 .. Len(s) : x \notin ResultsAt(s, k)  BY <1>2 DEF Due
  <2>2. PICK k \in 1 .. Len(s) : \E b \in Range(s[k].blocks) : b.kind = "result" /\ b.id = x
    BY <2>1, InIds DEF Paired
  <2>3. x \in ResultsAt(s, k)  BY <2>1, <2>2 DEF ResultsAt
  <2> QED  BY <2>1, <2>3
<1> QED  BY <1>1, <1>2 DEF Due

LEMMA InIdsOf ==
  ASSUME NEW m, NEW kind
  PROVE  \A x : x \in IdsOf(m, kind) <=> \E b \in Range(m.content) : b.kind = kind /\ b.id = x
BY DEF IdsOf

\* What an entry adds to a request.
LEMMA KeptIds ==
  ASSUME NEW s \in Seq(Entry), Orderly(s), NEW n \in 1 .. Len(s)
  PROVE  LET m == [role |-> s[n].role, content |-> Kept(s[n], Paired(s))]
         IN  /\ m \in Message
             /\ IdsOf(m, "use") = UsesAt(s, n) /\ IdsOf(m, "result") = ResultsAt(s, n)
<1> DEFINE k == Kept(s[n], Paired(s))
           m == [role |-> s[n].role, content |-> k]
<1>0. s[n] \in Entry  OBVIOUS
<1>1. /\ k \in Seq(Block)
      /\ \A b : b \in Range(k) <=> b \in Range(s[n].blocks) /\ (b.id = NoId \/ b.id \in Paired(s))
  BY <1>0, KeptIs
<1>2. s[n].role \in Role  BY <1>0 DEF Entry
<1>3. \A b \in Range(s[n].blocks) : b.id = NoId <=> b.kind \notin {"use", "result"}  BY DEF Orderly
<1> HIDE DEF k
<1>4. m \in Message /\ m.content = k  BY <1>1, <1>2 DEF Message
<1> HIDE DEF m
<1>5. \A x : x \in IdsOf(m, "use") <=> \E b \in Range(k) : b.kind = "use" /\ b.id = x
  BY <1>4, InIdsOf
<1>6. \A x : x \in IdsOf(m, "result") <=> \E b \in Range(k) : b.kind = "result" /\ b.id = x
  BY <1>4, InIdsOf
<1>7. \A x : x \in IdsOf(m, "use") <=> x \in UsesAt(s, n)  BY <1>1, <1>3, <1>5 DEF UsesAt
<1>8. \A x : x \in IdsOf(m, "result") <=> x \in ResultsAt(s, n)  BY <1>1, <1>3, <1>6 DEF ResultsAt
<1> QED  BY <1>4, <1>7, <1>8 DEF m, k

\* The ids of two messages that become one.
LEMMA IdsOfJoined ==
  ASSUME NEW m \in Message, NEW c \in Seq(Block), NEW d, NEW j,
         d.content = c, j.content = m.content \o c
  PROVE  /\ \A kind : IdsOf(j, kind) = IdsOf(m, kind) \cup IdsOf(d, kind)
         /\ \A b : b \in Range(m.content) => b \in Range(j.content)
         /\ m.content # <<>> => j.content # <<>>
<1>1. m.content \in Seq(Block)  BY DEF Message
<1>2. Range(m.content \o c) = Range(m.content) \cup Range(c)  BY <1>1, RangeConcatenation
<1>4. ASSUME NEW kind PROVE IdsOf(j, kind) = IdsOf(m, kind) \cup IdsOf(d, kind)
  <2>1. \A x : x \in IdsOf(j, kind) <=> \E b \in Range(j.content) : b.kind = kind /\ b.id = x  BY ONLY InIdsOf
  <2>2. \A x : x \in IdsOf(m, kind) <=> \E b \in Range(m.content) : b.kind = kind /\ b.id = x  BY InIdsOf
  <2>3. \A x : x \in IdsOf(d, kind) <=> \E b \in Range(d.content) : b.kind = kind /\ b.id = x  BY InIdsOf
  <2> QED  BY <1>2, <2>1, <2>2, <2>3
<1>5. m.content # <<>> => m.content \o c # <<>>
  <2>1. Len(m.content \o c) = Len(m.content) + Len(c) /\ Len(m.content) \in Nat /\ Len(c) \in Nat
    BY <1>1
  <2>2. m.content # <<>> => Len(m.content) # 0  BY <1>1
  <2>3. m.content \o c = <<>> => Len(m.content \o c) = 0  OBVIOUS
  <2> QED  BY <2>1, <2>2, <2>3
<1> QED  BY <1>2, <1>4, <1>5

\* An entry that keeps the order.
LEMMA InOrderNext ==
  ASSUME NEW M, NEW due, InOrder(M, due), NEW role \in Role, NEW kept \in Seq(Block),
         NEW U, NEW R, U = IdsOf([role |-> role, content |-> kept], "use"),
         R = IdsOf([role |-> role, content |-> kept], "result"),
         U # {} => role = "assistant", R # {} => role = "user", R \subseteq due,
         due # {} => R # {}
  PROVE  InOrder(Join(M, role, kept), (due \cup U) \ R)
<1> DEFINE e == [role |-> role, content |-> kept]
           next == (due \cup U) \ R
           N == Join(M, role, kept)
<1>0. M \in Seq(Message) /\ M # <<>> /\ Len(M) \in Nat \ {0} /\ e \in Message
  BY DEF InOrder, Message
<1>1. CASE kept = <<>>
  <2>1. Range(kept) = {}  BY <1>1 DEF Range
  <2>2. U = {} /\ R = {}  BY <2>1, InIdsOf
  <2>3. next = due /\ N = M  BY <1>1, <2>2 DEF Join
  <2> QED  BY <2>3
<1>2. CASE kept # <<>> /\ M[Len(M)].role = role
  <2> DEFINE j == [role |-> role, content |-> M[Len(M)].content \o kept]
  <2>1. M[Len(M)] \in Message  BY <1>0
  <2>2. N = [M EXCEPT ![Len(M)].content = @ \o kept]  BY <1>0, <1>2 DEF Join, Last
  <2>3. /\ N \in Seq(Message) /\ Len(N) = Len(M) /\ N[Len(M)] = j
        /\ \A n \in 1 .. Len(M) - 1 : N[n] = M[n]
    <3> DEFINE x == M[Len(M)]
               o == [role |-> x.role, content |-> x.content \o kept]
    <3>1. o = j  BY <1>2
    <3>2. /\ [M EXCEPT ![Len(M)].content = @ \o kept] \in Seq(Message)
          /\ Len([M EXCEPT ![Len(M)].content = @ \o kept]) = Len(M)
          /\ [M EXCEPT ![Len(M)].content = @ \o kept][Len(M)] = o
          /\ \A n \in 1 .. Len(M) - 1 : [M EXCEPT ![Len(M)].content = @ \o kept][n] = M[n]
      BY <1>0, Extended
    <3> HIDE DEF o, j, N
    <3> QED  BY <2>2, <3>1, <3>2, Zenon
  <2>4. /\ \A kind : IdsOf(j, kind) = IdsOf(M[Len(M)], kind) \cup IdsOf(e, kind)
        /\ \A b : b \in Range(M[Len(M)].content) => b \in Range(j.content)
        /\ M[Len(M)].content # <<>> => j.content # <<>>
    <3>1. e.content = kept /\ j.content = M[Len(M)].content \o kept  OBVIOUS
    <3> HIDE DEF e, j
    <3> QED  BY <2>1, <3>1, IdsOfJoined
  <2>5. /\ IdsOf(j, "use") = IdsOf(M[Len(M)], "use") \cup U
        /\ IdsOf(j, "result") = IdsOf(M[Len(M)], "result") \cup R
    BY <2>4
  <2>6. j.role = role  OBVIOUS
  <2> HIDE DEF j, N, e
  <2>7. N # <<>>  BY <1>0, <2>3
  <2>7a. M[Len(M)].content # <<>>  BY <1>0 DEF InOrder
  <2>8. \A k \in 1 .. Len(N) : N[k].content # <<>>
    <3> SUFFICES ASSUME NEW k \in 1 .. Len(N) PROVE N[k].content # <<>>  OBVIOUS
    <3>1. CASE k = Len(M)  BY <2>3, <2>4, <2>7a, <3>1
    <3>2. CASE k # Len(M)
      <4>1. k \in 1 .. Len(M) - 1 /\ k \in 1 .. Len(M)  BY <1>0, <2>3, <3>2
      <4>2. N[k] = M[k]  BY <2>3, <4>1
      <4> QED  BY <4>1, <4>2 DEF InOrder
    <3> QED  BY <3>1, <3>2
  <2>9. IdsOf(N[1], "result") = {} /\ \E b \in Range(N[1].content) : b.kind = "text"
    <3>1. IdsOf(M[1], "result") = {} /\ \E b \in Range(M[1].content) : b.kind = "text"
      BY DEF InOrder
    <3>2. CASE Len(M) = 1
      <4>1. due = {}  BY <3>2 DEF InOrder
      <4>2. N[1] = j /\ R = {}  BY <2>3, <3>2, <4>1
      <4> QED  BY <2>4, <2>5, <3>1, <3>2, <4>2
    <3>3. CASE Len(M) # 1
      <4>1. N[1] = M[1]  BY <1>0, <2>3, <3>3
      <4> QED  BY <3>1, <4>1
    <3> QED  BY <3>2, <3>3
  <2>10. N[1].role = "user"  BY <1>0, <1>2, <2>3, <2>6, SMTT(30) DEF InOrder
  <2>11. \A k \in 1 .. Len(N) - 2 : IdsOf(N[k + 1], "result") = IdsOf(N[k], "use")
    BY <1>0, <2>3 DEF InOrder
  <2>12. Len(N) = 1 => next = {}  BY <1>0, <1>2, <2>3 DEF InOrder
  <2>13. CASE role = "assistant"
    <3>1. due = {} /\ R = {}  BY <2>13
    <3>2. Len(M) > 1  BY <1>0, <1>2, <2>13 DEF InOrder
    <3>3. N[Len(M) - 1] = M[Len(M) - 1]  BY <1>0, <2>3, <3>2, SMTT(30)
    <3>4. IdsOf(N[Len(N)], "use") = next  BY <1>2, <2>3, <2>5, <2>13, <3>1 DEF InOrder
    <3>5. IdsOf(N[Len(N)], "result") = {} /\ IdsOf(N[Len(N) - 1], "use") = {}
      BY <1>2, <2>3, <2>5, <2>13, <3>1, <3>3 DEF InOrder
    <3>6. N[Len(N)].role # "user"  BY <2>3, <2>6, <2>13
    <3> QED  BY <2>3, <2>7, <2>8, <2>9, <2>10, <2>11, <2>12, <3>4, <3>5, <3>6 DEF InOrder, N
  <2>14. CASE role # "assistant"
    <3>1. U = {} /\ role = "user"  BY <2>14 DEF Role
    <3>2. IdsOf(N[Len(N)], "use") = {}  BY <1>2, <2>3, <2>5, <3>1 DEF InOrder
    <3>3. ASSUME Len(N) > 1
          PROVE  /\ next \subseteq IdsOf(N[Len(N) - 1], "use")
                 /\ IdsOf(N[Len(N)], "result") = IdsOf(N[Len(N) - 1], "use") \ next
      <4>1. N[Len(N) - 1] = M[Len(M) - 1]  BY <1>0, <2>3, <3>3, SMTT(30)
      <4>2. /\ due \subseteq IdsOf(M[Len(M) - 1], "use")
            /\ IdsOf(M[Len(M)], "result") = IdsOf(M[Len(M) - 1], "use") \ due
        BY <1>2, <2>3, <3>1, <3>3 DEF InOrder
      <4>3. IdsOf(N[Len(N)], "result") = IdsOf(M[Len(M)], "result") \cup R  BY <2>3, <2>5
      <4> QED  BY <3>1, <4>1, <4>2, <4>3
    <3>4. N[Len(N)].role # "assistant"  BY <2>3, <2>6, <2>14
    <3> QED  BY <2>3, <2>7, <2>8, <2>9, <2>10, <2>11, <2>12, <3>2, <3>3, <3>4 DEF InOrder, N
  <2> QED  BY <2>13, <2>14
<1>3. CASE kept # <<>> /\ M[Len(M)].role # role
  <2>1. N = Append(M, e)  BY <1>0, <1>3 DEF Join, Last
  <2>2. /\ N \in Seq(Message) /\ Len(N) = Len(M) + 1 /\ N[Len(N)] = e
        /\ \A n \in 1 .. Len(M) : N[n] = M[n]
    BY <1>0, <2>1
  <2>3. e.role = role /\ e.content = kept /\ IdsOf(e, "use") = U /\ IdsOf(e, "result") = R
    OBVIOUS
  <2>4. M[Len(M)] \in Message  BY <1>0
  <2>5. M[Len(M)].role \in Role  BY <2>4 DEF Message
  <2> HIDE DEF N, e
  <2>6. N # <<>> /\ N[1] = M[1] /\ N[Len(N) - 1] = M[Len(M)]  BY <1>0, <2>2
  <2>7. \A k \in 1 .. Len(N) : N[k].content # <<>>
    BY <1>0, <1>3, <2>2, <2>3, SMTT(30) DEF InOrder
  <2>8. CASE role = "assistant"
    <3>1. due = {} /\ R = {} /\ M[Len(M)].role = "user"  BY <1>3, <2>5, <2>8 DEF Role
    <3>2. IdsOf(M[Len(M)], "use") = {}  BY <3>1 DEF InOrder
    <3>3. ASSUME NEW k \in 1 .. Len(N) - 2
          PROVE  IdsOf(N[k + 1], "result") = IdsOf(N[k], "use")
      <4>1. CASE k = Len(M) - 1
        <5>1. N[k] = M[Len(M) - 1] /\ N[k + 1] = M[Len(M)] /\ Len(M) > 1  BY <1>0, <2>2, <4>1, SMTT(30)
        <5> QED  BY <3>1, <5>1 DEF InOrder
      <4>2. CASE k # Len(M) - 1
        <5>1. k \in 1 .. Len(M) - 2 /\ N[k] = M[k] /\ N[k + 1] = M[k + 1]  BY <1>0, <2>2, <4>2
        <5> QED  BY <5>1 DEF InOrder
      <4> QED  BY <4>1, <4>2
    <3>4. IdsOf(N[Len(N)], "use") = next /\ IdsOf(N[Len(N)], "result") = {}
      BY <2>2, <2>3, <3>1
    <3>5. N[Len(N)].role # "user" /\ Len(N) # 1  BY <1>0, <2>2, <2>3, <2>8
    <3> QED  BY <2>2, <2>6, <2>7, <3>2, <3>3, <3>4, <3>5 DEF InOrder, N
  <2>9. CASE role # "assistant"
    <3>1. U = {} /\ role = "user" /\ M[Len(M)].role = "assistant"  BY <1>3, <2>5, <2>9 DEF Role
    <3>2. /\ IdsOf(M[Len(M)], "use") = due /\ IdsOf(M[Len(M)], "result") = {}
          /\ IdsOf(M[Len(M) - 1], "use") = {}
      BY <3>1 DEF InOrder
    <3>3. ASSUME NEW k \in 1 .. Len(N) - 2
          PROVE  IdsOf(N[k + 1], "result") = IdsOf(N[k], "use")
      <4>1. CASE k = Len(M) - 1
        <5>1. N[k] = M[Len(M) - 1] /\ N[k + 1] = M[Len(M)]  BY <1>0, <2>2, <4>1, SMTT(30)
        <5> QED  BY <3>2, <5>1
      <4>2. CASE k # Len(M) - 1
        <5>1. k \in 1 .. Len(M) - 2 /\ N[k] = M[k] /\ N[k + 1] = M[k + 1]  BY <1>0, <2>2, <4>2
        <5> QED  BY <5>1 DEF InOrder
      <4> QED  BY <4>1, <4>2
    <3>4. IdsOf(N[Len(N)], "use") = {}  BY <2>2, <2>3, <3>1
    <3>5. /\ next \subseteq IdsOf(N[Len(N) - 1], "use")
          /\ IdsOf(N[Len(N)], "result") = IdsOf(N[Len(N) - 1], "use") \ next
      BY <2>2, <2>3, <2>6, <3>1, <3>2
    <3>6. N[Len(N)].role # "assistant" /\ Len(N) # 1  BY <1>0, <2>2, <2>3, <2>9
    <3> QED  BY <2>2, <2>6, <2>7, <3>3, <3>4, <3>5, <3>6 DEF InOrder, N
  <2> QED  BY <2>8, <2>9
<1> QED  BY <1>1, <1>2, <1>3

\* The fold of an orderly surface.
LEMMA FoldInOrder ==
  ASSUME NEW s \in Seq(Entry), Orderly(s)
  PROVE  InOrder(FoldSurface(s), {})
<1>1. PICK f : /\ DOMAIN f = 0 .. Len(s) /\ f[0] = <<>> /\ FoldSurface(s) = f[Len(s)]
               /\ \A n \in 1 .. Len(s) : f[n] = Join(f[n - 1], s[n].role, Kept(s[n], Paired(s)))
  BY FoldTyped
<1> DEFINE k(n) == Kept(s[n], Paired(s))
           m(n) == [role |-> s[n].role, content |-> k(n)]
<1>0. Len(s) \in Nat \ {0} /\ 1 \in 1 .. Len(s)  BY DEF Orderly
<1>2. \A n \in 1 .. Len(s) : s[n] \in Entry /\ s[n].role \in Role
  <2>1. \A e \in Entry : e.role \in Role  BY DEF Entry
  <2> QED  BY <2>1
<1>3. \A n \in 1 .. Len(s) : k(n) \in Seq(Block)  BY <1>2, KeptIs
<1>4. \A n \in 1 .. Len(s) : IdsOf(m(n), "use") = UsesAt(s, n) /\ IdsOf(m(n), "result") = ResultsAt(s, n)
  BY KeptIds
<1> HIDE DEF k
<1>5. InOrder(f[1], Due(s, 1))
  <2>1. f[1] = Join(<<>>, s[1].role, k(1))  BY <1>0, <1>1 DEF k
  <2>2. PICK b \in Range(s[1].blocks) : b.kind = "text"  BY DEF Orderly
  <2>3. b.id = NoId  BY <1>0, <2>2 DEF Orderly
  <2>4. b \in Range(k(1))  BY <1>0, <1>2, <2>2, <2>3, KeptIs DEF k
  <2>5. k(1) # <<>>  BY <2>4 DEF Range
  <2>6. f[1] = <<m(1)>>  BY <2>1, <2>5 DEF Join
  <2>7. UsesAt(s, 1) = {} /\ ResultsAt(s, 1) = {} /\ Due(s, 1) = {}
    <3>1. UsesAt(s, 1) = {}  BY <1>0 DEF Orderly
    <3>2. Due(s, 0) = {}  BY DueEnds
    <3>3. Due(s, 1 - 1) = {}  BY <3>2
    <3>4. ResultsAt(s, 1) = {}  BY <1>0, <3>3 DEF Orderly
    <3>5. Due(s, 1) = (Due(s, 1 - 1) \cup UsesAt(s, 1)) \ ResultsAt(s, 1)  BY <1>0, DueNext
    <3> QED  BY <3>1, <3>3, <3>4, <3>5
  <2>8. s[1].role = "user"  BY DEF Orderly
  <2>9. m(1) \in Message /\ m(1).role = "user" /\ m(1).content = k(1)
    BY <1>0, <1>2, <1>3, <2>8 DEF Message
  <2>10. IdsOf(m(1), "use") = {} /\ IdsOf(m(1), "result") = {}  BY <1>0, <1>4, <2>7
  <2> HIDE DEF m
  <2>11. /\ f[1] \in Seq(Message) /\ Len(f[1]) = 1 /\ f[1][1] = m(1) /\ f[1] # <<>>
    BY <2>6, <2>9
  <2>12. \E c \in Range(f[1][1].content) : c.kind = "text"  BY <2>2, <2>4, <2>9, <2>11
  <2> QED  BY <2>5, <2>7, <2>9, <2>10, <2>11, <2>12 DEF InOrder
<1>6. ASSUME NEW n \in 1 .. Len(s), n # Len(s), InOrder(f[n], Due(s, n))
      PROVE  InOrder(f[n + 1], Due(s, n + 1))
  <2>1. n + 1 \in 1 .. Len(s) /\ n + 1 - 1 = n  BY <1>0, <1>6
  <2>2. f[n + 1] = Join(f[n], s[n + 1].role, k(n + 1))  BY <1>1, <2>1 DEF k
  <2>3. Due(s, n + 1) = (Due(s, n) \cup UsesAt(s, n + 1)) \ ResultsAt(s, n + 1)
    BY <2>1, DueNext
  <2>4. /\ UsesAt(s, n + 1) # {} => s[n + 1].role = "assistant"
        /\ ResultsAt(s, n + 1) # {} => s[n + 1].role = "user"
        /\ ResultsAt(s, n + 1) \subseteq Due(s, n)
        /\ Due(s, n) # {} => ResultsAt(s, n + 1) # {}
    BY <2>1 DEF Orderly
  <2>5. /\ UsesAt(s, n + 1) = IdsOf(m(n + 1), "use") /\ ResultsAt(s, n + 1) = IdsOf(m(n + 1), "result")
        /\ s[n + 1].role \in Role /\ k(n + 1) \in Seq(Block)
    BY <1>2, <1>3, <1>4, <2>1
  <2> QED  BY <1>6, <2>2, <2>3, <2>4, <2>5, InOrderNext
<1>7. InOrder(f[Len(s)], Due(s, Len(s)))
  <2> DEFINE Z == {0} \cup {n \in 1 .. Len(s) : InOrder(f[n], Due(s, n))}
  <2>1. \A i \in 0 .. Len(s) : i \in Z /\ i # Len(s) => i + 1 \in Z
    <3> SUFFICES ASSUME NEW i \in 0 .. Len(s), i \in Z, i # Len(s) PROVE i + 1 \in Z  OBVIOUS
    <3>1. CASE i = 0  BY <1>0, <1>5, <3>1
    <3>2. CASE i # 0
      <4>1. i \in 1 .. Len(s) /\ InOrder(f[i], Due(s, i)) /\ i + 1 \in 1 .. Len(s)  BY <1>0, <3>2
      <4> QED  BY <1>6, <4>1
    <3> QED  BY <3>1, <3>2
  <2>2. 0 \in Z  OBVIOUS
  <2> HIDE DEF Z
  <2>3. 0 .. Len(s) \subseteq Z  BY <1>0, <2>1, <2>2, Counting
  <2>4. Len(s) \in Z /\ Len(s) # 0  BY <1>0, <2>3
  <2> QED  BY <2>4 DEF Z
<1> QED  BY <1>1, <1>7, DueEnds

\* What the adapter says of a message: less reasoning, the same calls and results.
LEMMA SayIs ==
  ASSUME NEW m \in Message, NEW model
  PROVE  /\ Say(m, model) \in Message /\ Say(m, model).role = m.role
         /\ IdsOf(Say(m, model), "use") = IdsOf(m, "use")
         /\ IdsOf(Say(m, model), "result") = IdsOf(m, "result")
         /\ (\E b \in Range(m.content) : b.kind = "text") => Say(m, model).content # <<>>
<1> DEFINE S == {b \in Range(m.content) : Sayable(b, model)}
           c == Chosen(m.content, S)
           w == Say(m, model)
<1>1. m.content \in Seq(Block) /\ m.role \in Role /\ m = [role |-> m.role, content |-> m.content]
  BY DEF Message
<1>2. c \in Seq(Block) /\ Range(c) = Range(m.content) \cap S
  <2> HIDE DEF S
  <2> QED  BY <1>1, ChosenIs, ChosenRange
<1>3. w = [m EXCEPT !.content = c]  BY DEF Say
<1> HIDE DEF c, w
<1>4. w = [role |-> m.role, content |-> c]  BY <1>1, <1>3
<1>5. w \in Message /\ w.role = m.role /\ w.content = c  BY <1>1, <1>2, <1>4 DEF Message
<1>6. \A b : b \in Range(c) <=> b \in Range(m.content) /\ Sayable(b, model)
  BY <1>2
<1>7. \A b : b.kind \in {"text", "use", "result"} => Sayable(b, model)  BY DEF Sayable
<1>8. \A x : x \in IdsOf(w, "use") <=> \E b \in Range(c) : b.kind = "use" /\ b.id = x
  BY <1>5, InIdsOf
<1>9. \A x : x \in IdsOf(w, "result") <=> \E b \in Range(c) : b.kind = "result" /\ b.id = x
  BY <1>5, InIdsOf
<1>10. \A x : x \in IdsOf(m, "use") <=> \E b \in Range(m.content) : b.kind = "use" /\ b.id = x
  BY InIdsOf
<1>11. \A x : x \in IdsOf(m, "result") <=> \E b \in Range(m.content) : b.kind = "result" /\ b.id = x
  BY InIdsOf
<1>12. IdsOf(w, "use") = IdsOf(m, "use")  BY <1>6, <1>7, <1>8, <1>10
<1>13. IdsOf(w, "result") = IdsOf(m, "result")  BY <1>6, <1>7, <1>9, <1>11
<1>14. ASSUME NEW b \in Range(m.content), b.kind = "text" PROVE w.content # <<>>
  <2>1. b \in Range(c)  BY <1>6, <1>7, <1>14
  <2> QED  BY <1>5, <2>1 DEF Range
<1> QED  BY <1>5, <1>12, <1>13, <1>14 DEF w

\* The provider takes what a fold in good order says.
LEMMA OrderIsAccepted ==
  ASSUME NEW M, InOrder(M, {}), NEW model
  PROVE  Accepted(Translate(M, model))
<1> DEFINE spoke == [n \in DOMAIN M |-> Say(M[n], model)]
           S == {m \in Range(spoke) : m.content # <<>>}
           T == Chosen(spoke, S)
<1>0. M \in Seq(Message) /\ Len(M) \in Nat \ {0} /\ DOMAIN M = 1 .. Len(M)  BY DEF InOrder
<1>1. \A n \in 1 .. Len(M) : M[n] \in Message  BY <1>0
<1>2. \A n \in 1 .. Len(M) :
         /\ spoke[n] \in Message /\ spoke[n].role = M[n].role
         /\ IdsOf(spoke[n], "use") = IdsOf(M[n], "use")
         /\ IdsOf(spoke[n], "result") = IdsOf(M[n], "result")
         /\ (\E b \in Range(M[n].content) : b.kind = "text") => spoke[n].content # <<>>
  BY <1>0, <1>1, SayIs
<1>3. spoke \in Seq(Message) /\ Len(spoke) = Len(M)  BY <1>0, <1>2
<1> HIDE DEF spoke
<1>4. \A n \in 1 .. Len(M) : spoke[n] \in S <=> spoke[n].content # <<>>
  BY <1>3 DEF Range
<1>4a. PICK g : Places(g, spoke, S)
  <2> HIDE DEF S
  <2> QED  BY <1>3, ChosenIs
<1>5. /\ g \in [1 .. Len(T) -> 1 .. Len(spoke)]
      /\ \A k \in 1 .. Len(T) : T[k] = spoke[g[k]] /\ spoke[g[k]] \in S
      /\ \A j, k \in 1 .. Len(T) : j < k => g[j] < g[k]
      /\ \A i \in 1 .. Len(spoke) : spoke[i] \in S => \E k \in 1 .. Len(T) : g[k] = i
  <2> HIDE DEF S
  <2> QED  BY <1>4a DEF Places
<1>6. T \in Seq(Message) /\ Len(T) \in Nat
  <2> HIDE DEF S
  <2>1. T \in Seq(Message)  BY <1>3, ChosenIs
  <2> QED  BY <2>1
<1>7. Translate(M, model) = T  BY DEF Translate, spoke
<1> HIDE DEF T, S
<1> DEFINE U(n) == IdsOf(M[n], "use")
           R(n) == IdsOf(M[n], "result")
<1>8. M[1].role = "user" /\ R(1) = {} /\ \E b \in Range(M[1].content) : b.kind = "text"
  BY DEF InOrder
<1>9. U(Len(M)) = {}
  <2>1. M[Len(M)] \in Message  BY <1>0, <1>1
  <2>2. M[Len(M)].role \in Role  BY <2>1 DEF Message
  <2> QED  BY <2>2 DEF InOrder, Role
<1>10. ASSUME NEW n \in 1 .. Len(M) - 1 PROVE R(n + 1) = U(n)
  <2>1. CASE n # Len(M) - 1
    <3>1. n \in 1 .. Len(M) - 2
      <4>1. Len(M) \in Nat  BY <1>0
      <4> QED  BY ONLY <2>1, <4>1
    <3> QED  BY <3>1 DEF InOrder
  <2>2. CASE n = Len(M) - 1
    <3>1. n + 1 = Len(M) /\ Len(M) > 1  BY <1>0, <2>2
    <3>2. M[Len(M)] \in Message  BY <1>0, <1>1
    <3>3. M[Len(M)].role \in Role  BY <3>2 DEF Message
    <3>4. CASE M[Len(M)].role = "assistant"
      <4>1. R(Len(M)) = {} /\ U(Len(M) - 1) = {}  BY <3>4 DEF InOrder
      <4> QED  BY <2>2, <3>1, <4>1
    <3>5. CASE M[Len(M)].role = "user"
      <4>1. R(Len(M)) = U(Len(M) - 1) \ {}  BY <3>1, <3>5 DEF InOrder
      <4> QED  BY <2>2, <3>1, <4>1
    <3> QED  BY <3>3, <3>4, <3>5 DEF Role
  <2> QED  BY <2>1, <2>2
<1>11. \A n \in 1 .. Len(M) : spoke[n].content = <<>> => U(n) = {} /\ R(n) = {}
  <2> SUFFICES ASSUME NEW n \in 1 .. Len(M), spoke[n].content = <<>> PROVE U(n) = {} /\ R(n) = {}
    OBVIOUS
  <2>1. Range(spoke[n].content) = {}
    <3> PICK e : e = spoke[n].content  OBVIOUS
    <3>1. Range(e) = {}  BY DEF Range
    <3> QED  BY <3>1
  <2>2. IdsOf(spoke[n], "use") = {}  BY ONLY <2>1, InIdsOf
  <2>3. IdsOf(spoke[n], "result") = {}  BY ONLY <2>1, InIdsOf
  <2> QED  BY <1>2, <2>2, <2>3
<1> HIDE DEF U, R
<1>12. \A k \in 1 .. Len(T) : /\ g[k] \in 1 .. Len(M) /\ T[k].role = M[g[k]].role
                              /\ IdsOf(T[k], "use") = U(g[k]) /\ IdsOf(T[k], "result") = R(g[k])
                              /\ T[k].content # <<>>
  <2> SUFFICES ASSUME NEW k \in 1 .. Len(T)
               PROVE  /\ g[k] \in 1 .. Len(M) /\ T[k].role = M[g[k]].role
                      /\ IdsOf(T[k], "use") = U(g[k]) /\ IdsOf(T[k], "result") = R(g[k])
                      /\ T[k].content # <<>>
    OBVIOUS
  <2>1. PICK i \in 1 .. Len(M) : i = g[k]  BY <1>3, <1>5
  <2>2. T[k] = spoke[i] /\ spoke[i] \in S  BY <1>5, <2>1
  <2> QED  BY <1>2, <1>4, <2>1, <2>2, Zenon DEF U, R
<1>13. Len(T) # 0 /\ g[1] = 1
  <2>1. 1 \in 1 .. Len(M)  BY <1>0
  <2>2. spoke[1] \in S  BY <1>2, <1>4, <1>8, <2>1
  <2>3. PICK k \in 1 .. Len(T) : g[k] = 1  BY <1>3, <1>5, <2>1, <2>2
  <2>4. 1 \in 1 .. Len(T)  BY <1>6
  <2>5. k = 1 \/ 1 < k  OBVIOUS
  <2>6. 1 < k => g[1] < g[k]  BY <1>5, <2>4
  <2>7. g[1] \in 1 .. Len(M)  BY <1>12, <2>4
  <2> QED  BY <2>3, <2>5, <2>6, <2>7
<1>14. ASSUME NEW i \in 1 .. Len(M), \A k \in 1 .. Len(T) : g[k] # i
       PROVE  U(i) = {} /\ R(i) = {}
  <2>1. spoke[i].content = <<>>  BY <1>3, <1>4, <1>5, <1>14
  <2> QED  BY <1>11, <2>1
<1>15. U(g[Len(T)]) = {}
  <2> PICK last \in 1 .. Len(T) : last = Len(T)  BY <1>6, <1>13
  <2> PICK i \in 1 .. Len(M) : i = g[last]  BY <1>12
  <2>1. CASE i = Len(M)  BY <1>9, <2>1
  <2>2. CASE i # Len(M)
    <3>1. i + 1 \in 1 .. Len(M) /\ i \in 1 .. Len(M) - 1  BY <1>0, <2>2
    <3>2. ASSUME NEW k \in 1 .. Len(T) PROVE g[k] # i + 1
      <4>1. k < last \/ k = last  BY <1>6
      <4>2. k < last => g[k] < g[last]  BY <1>5
      <4>3. g[k] \in 1 .. Len(M)  BY <1>12
      <4> QED  BY <4>1, <4>2, <4>3
    <3>3. R(i + 1) = {}  BY <1>14, <3>1, <3>2
    <3> QED  BY <1>10, <3>1, <3>3
  <2> QED  BY <2>1, <2>2
<1>16. ASSUME NEW n \in 1 .. Len(T) - 1 PROVE U(g[n]) = R(g[n + 1])
  <2>1. n \in 1 .. Len(T) /\ n + 1 \in 1 .. Len(T) /\ n < n + 1  BY <1>6
  <2> PICK i \in 1 .. Len(M) : i = g[n]  BY <1>12, <2>1
  <2> PICK j \in 1 .. Len(M) : j = g[n + 1]  BY <1>12, <2>1
  <2>2. i < j  BY <1>5, <2>1
  <2>3. ASSUME NEW k \in 1 .. Len(T) PROVE ~(i < g[k] /\ g[k] < j)
    <3>1. k < n \/ k = n \/ k = n + 1 \/ n + 1 < k  BY <1>6
    <3>2. /\ k < n => g[k] < g[n]
          /\ n + 1 < k => g[n + 1] < g[k]
      BY <1>5, <2>1
    <3>3. g[k] \in 1 .. Len(M)  BY <1>12
    <3> QED  BY <3>1, <3>2, <3>3
  <2>4. CASE j = i + 1
    <3>1. i \in 1 .. Len(M) - 1  BY <1>0, <2>4
    <3> QED  BY <1>10, <2>4, <3>1
  <2>5. CASE j # i + 1
    <3>1. /\ i + 1 \in 1 .. Len(M) /\ i \in 1 .. Len(M) - 1 /\ j - 1 \in 1 .. Len(M)
          /\ j - 1 \in 1 .. Len(M) - 1 /\ i < i + 1 /\ i + 1 < j /\ i < j - 1 /\ j - 1 < j /\ (j - 1) + 1 = j
      BY <1>0, <2>2, <2>5, SMTT(30)
    <3>2. R(i + 1) = {}  BY <1>14, <2>3, <3>1
    <3>3. U(j - 1) = {}
      <4> PICK h \in 1 .. Len(M) : h = j - 1  BY <3>1
      <4>1. \A k \in 1 .. Len(T) : g[k] # h  BY <2>3, <3>1
      <4> QED  BY <1>14, <4>1
    <3>4. R(i + 1) = U(i)  BY <1>10, <3>1
    <3>5. R((j - 1) + 1) = U(j - 1)  BY <1>10, <3>1
    <3> QED  BY <3>1, <3>2, <3>3, <3>4, <3>5
  <2> QED  BY <2>4, <2>5
<1>17. 1 \in 1 .. Len(T) /\ Len(T) \in 1 .. Len(T) /\ T # <<>> /\ Head(T) = T[1] /\ Last(T) = T[Len(T)]
       /\ DOMAIN T = 1 .. Len(T)
  BY <1>6, <1>13 DEF Last
<1>18. Head(T).role = "user" /\ IdsOf(T[1], "result") = {}
  BY <1>8, <1>12, <1>13, <1>17 DEF R
<1>19. IdsOf(Last(T), "use") = {}  BY <1>12, <1>15, <1>17
<1>20. \A n \in 1 .. Len(T) - 1 : IdsOf(T[n], "use") = IdsOf(T[n + 1], "result")
  <2> SUFFICES ASSUME NEW n \in 1 .. Len(T) - 1
               PROVE  IdsOf(T[n], "use") = IdsOf(T[n + 1], "result")
    OBVIOUS
  <2>1. n \in 1 .. Len(T) /\ n + 1 \in 1 .. Len(T)  BY <1>6
  <2> QED  BY <1>12, <1>16, <2>1
<1>21. \A n \in DOMAIN T : T[n].content # <<>>  BY <1>12, <1>17
<1> QED  BY <1>7, <1>17, <1>18, <1>19, <1>20, <1>21 DEF Accepted

-----------------------------------------------------------------------------
(* The record and the loops, of which all that is promised follows.        *)

LEMMA GivenIdsAre == NoId \notin GivenIds /\ GivenIds \subseteq CallIds /\ NoId \in CallIds
BY DEF NoId, GivenIds, CallIds

LEMMA PromptIs ==
  ASSUME NEW l \in Lanes, NEW r \in Nat, NEW e, e = Prompt(l, r)
  PROVE  /\ e \in Entry /\ IsPrompt(e) /\ Sound(e) /\ Called(e) = {} /\ Answered(e) = {}
         /\ e.key = NoId /\ e.lane = l /\ e.run = r
<1> DEFINE b == [kind |-> "text", by |-> "loop", id |-> NoId]
<1>1. b \in Block /\ b.kind = "text" /\ b.id = NoId  BY GivenIdsAre DEF Block
<1>2. e = [lane |-> l, run |-> r, role |-> "user", key |-> NoId, blocks |-> <<b>>]  BY DEF Prompt
<1> HIDE DEF b
<1>3. Range(<<b>>) = {b} /\ <<b>> \in Seq(Block)  BY <1>1 DEF Range
<1>4. e.blocks = <<b>> /\ e.role = "user" /\ e.key = NoId /\ e.lane = l /\ e.run = r  BY <1>2
<1>5. e \in Entry  BY <1>2, <1>3, GivenIdsAre DEF Entry, Role
<1>6. Called(e) = {} /\ Answered(e) = {}  BY <1>1, <1>3, <1>4 DEF Called, Answered
<1>7. IsPrompt(e)  BY <1>1, <1>3, <1>4 DEF IsPrompt
<1>8. Sound(e)  BY <1>1, <1>3, <1>4, <1>6 DEF Sound
<1> QED  BY <1>4, <1>5, <1>6, <1>7, <1>8

LEMMA ResultIs ==
  ASSUME NEW l \in Lanes, loop[l].run \in Nat, NEW id \in GivenIds, NEW e, e = Result(l, id)
  PROVE  /\ e \in Entry /\ Sound(e) /\ Called(e) = {} /\ Answered(e) = {id}
         /\ e.key = id /\ e.lane = l /\ e.run = loop[l].run
<1> DEFINE b == [kind |-> "result", by |-> "loop", id |-> id]
<1>1. b \in Block /\ b.kind = "result" /\ b.id = id  BY GivenIdsAre DEF Block
<1>2. e = [lane |-> l, run |-> loop[l].run, role |-> "user", key |-> id, blocks |-> <<b>>]
  BY DEF Result
<1> HIDE DEF b
<1>3. Range(<<b>>) = {b} /\ <<b>> \in Seq(Block)  BY <1>1 DEF Range
<1>4. e.blocks = <<b>> /\ e.role = "user" /\ e.key = id /\ e.lane = l /\ e.run = loop[l].run
  BY <1>2
<1>5. e \in Entry  BY <1>2, <1>3, GivenIdsAre DEF Entry, Role
<1>6. Called(e) = {} /\ Answered(e) = {id}
  <2>1. {c \in {b} : c.kind = "use"} = {} /\ {c \in {b} : c.kind = "result"} = {b}  BY <1>1
  <2> QED  BY <1>1, <1>3, <1>4, <2>1 DEF Called, Answered
<1>7. Sound(e)  BY <1>1, <1>3, <1>4, <1>6, GivenIdsAre DEF Sound
<1> QED  BY <1>4, <1>5, <1>6, <1>7

\* What a model may say.
LEMMA ContentIs ==
  ASSUME NEW model, NEW content \in Contents(model)
  PROVE  /\ content \in Seq({"thinking", "text", "use", "compaction"})
         /\ "use" \in Range(content) => Carrier(content) = "assistant"
         /\ Carrier(content) \in Role
<1>1. content \in {<<>>, <<"thinking">>, <<"thinking", "text", "use">>, <<"use", "use">>, <<"compaction">>}
  BY DEF Contents
<1>2. content \in Seq({"thinking", "text", "use", "compaction"})
  <2> DEFINE K == {"thinking", "text", "use", "compaction"}
  <2>1. "thinking" \in K /\ "text" \in K /\ "use" \in K /\ "compaction" \in K  OBVIOUS
  <2> HIDE DEF K
  <2>2. <<>> \in Seq(K) /\ <<"thinking">> \in Seq(K) /\ <<"compaction">> \in Seq(K)  BY <2>1
  <2>3. <<"use", "use">> \in Seq(K)  BY <2>1
  <2>4. <<"thinking", "text", "use">> \in Seq(K)  BY <2>1
  <2>5. content \in Seq(K)  BY <1>1, <2>2, <2>3, <2>4, Zenon
  <2> QED  BY <2>5 DEF K
<1> QED  BY <1>2 DEF Carrier, Role

LEMMA ResponseIs ==
  ASSUME surface \in Seq(Entry), NEW l \in Lanes, NEW r \in Nat, NEW model,
         NEW content \in Contents(model), NEW e,
         e = [lane |-> l, run |-> r, role |-> Carrier(content), key |-> NoId,
              blocks |-> Blocks(model, content)]
  PROVE  /\ e \in Entry /\ Sound(e) /\ Answered(e) = {} /\ e.key = NoId /\ e.lane = l /\ e.run = r
         /\ Calls(Blocks(model, content)) \in Seq(GivenIds)
         /\ Range(Calls(Blocks(model, content))) = Called(e)
<1> DEFINE B == Blocks(model, content)
           S == {b \in Range(B) : b.kind = "use"}
           U == Chosen(B, S)
           C == Calls(B)
<1>0. /\ content \in Seq({"thinking", "text", "use", "compaction"}) /\ Carrier(content) \in Role
      /\ "use" \in Range(content) => Carrier(content) = "assistant"
  BY ContentIs
<1>1. Len(surface) \in Nat /\ Len(content) \in Nat /\ DOMAIN content = 1 .. Len(content)  BY <1>0
<1>2. ASSUME NEW n \in 1 .. Len(content)
      PROVE  /\ B[n] \in Block /\ B[n].kind = content[n] /\ content[n] \in Range(content)
             /\ content[n] = "use" => B[n].id \in GivenIds
             /\ content[n] # "use" => B[n].id = NoId
             /\ content[n] # "result"
  <2>1. B[n] = [kind |-> content[n], by |-> Dialect(model),
                id |-> IF content[n] = "use" THEN CallId(model, n) ELSE NoId]
    BY <1>1 DEF Blocks
  <2>2. CallId(model, n) \in GivenIds  BY <1>1 DEF CallId, GivenIds
  <2>3. Dialect(model) \in {"converse", "anthropic"}  BY DEF Dialect
  <2>4. content[n] \in {"thinking", "text", "use", "compaction"}  BY <1>0
  <2>5. content[n] \in Range(content)  BY <1>1 DEF Range
  <2> HIDE DEF B
  <2> QED  BY <2>1, <2>2, <2>3, <2>4, <2>5, GivenIdsAre DEF Block
<1>3. DOMAIN B = 1 .. Len(content)  BY <1>1 DEF Blocks
<1> HIDE DEF B
<1>4. B \in Seq(Block) /\ Len(B) = Len(content)
  <2>1. B = [n \in 1 .. Len(content) |-> B[n]]  BY <1>3 DEF Blocks, B
  <2> QED  BY <1>1, <1>2, <2>1
<1>5. \A b : b \in Range(B) <=> \E n \in 1 .. Len(content) : b = B[n]  BY <1>3 DEF Range
<1>6. e \in Entry /\ e.blocks = B /\ e.role = Carrier(content) /\ e.key = NoId /\ e.lane = l /\ e.run = r
  BY <1>0, <1>4, GivenIdsAre DEF Entry, B
<1>7. Answered(e) = {}
  <2>1. \A b \in Range(B) : b.kind # "result"  BY <1>2, <1>5
  <2> QED  BY <1>6, <2>1 DEF Answered
<1>8. Called(e) # {} => e.role = "assistant"
  <2> SUFFICES ASSUME Called(e) # {} PROVE e.role = "assistant"  OBVIOUS
  <2>1. PICK b \in Range(B) : b.kind = "use"  BY <1>6 DEF Called
  <2>2. "use" \in Range(content)  BY <1>2, <1>5, <2>1
  <2> QED  BY <1>0, <1>6, <2>2
<1>9. \A b \in Range(B) : b.id = NoId <=> b.kind \notin {"use", "result"}
  BY <1>2, <1>5, GivenIdsAre
<1>10. Sound(e)  BY <1>6, <1>7, <1>8, <1>9 DEF Sound
<1>11. U \in Seq(Block) /\ Range(U) = S
  <2> HIDE DEF S
  <2>1. U \in Seq(Block) /\ Range(U) = Range(B) \cap S  BY <1>4, ChosenIs, ChosenRange
  <2> QED  BY <2>1 DEF S
<1>12. C = [n \in DOMAIN U |-> U[n].id]  BY DEF Calls
<1> HIDE DEF C, U
<1>13. \A n \in 1 .. Len(U) : U[n] \in S /\ U[n].id \in GivenIds
  <2> SUFFICES ASSUME NEW n \in 1 .. Len(U) PROVE U[n] \in S /\ U[n].id \in GivenIds  OBVIOUS
  <2>1. U[n] \in S  BY <1>11, SMTT(30) DEF Range
  <2> QED  BY <1>2, <1>5, <2>1
<1>14. C \in Seq(GivenIds) /\ DOMAIN C = 1 .. Len(U) /\ \A n \in 1 .. Len(U) : C[n] = U[n].id
  <2>1. DOMAIN U = 1 .. Len(U) /\ Len(U) \in Nat  BY <1>11
  <2> QED  BY <1>12, <1>13, <2>1
<1>15. Range(C) = Called(e)
  <2>1. \A x : x \in Range(C) <=> \E n \in 1 .. Len(U) : x = U[n].id  BY <1>14 DEF Range
  <2>2. \A b : b \in S <=> \E n \in 1 .. Len(U) : b = U[n]
    <3>1. DOMAIN U = 1 .. Len(U)  BY <1>11
    <3> HIDE DEF S
    <3> QED  BY <1>11, <3>1 DEF Range
  <2>3. Called(e) = {b.id : b \in S}  BY <1>6 DEF Called
  <2> HIDE DEF S
  <2>4. \A x : x \in Called(e) <=> \E b \in S : x = b.id  BY <2>3
  <2>5. \A x : x \in Range(C) <=> x \in Called(e)
    <3> QED  BY ONLY <2>1, <2>2, <2>4
  <2> QED  BY <2>5, Zenon
<1> QED  BY <1>6, <1>7, <1>10, <1>14, <1>15 DEF C, B

-----------------------------------------------------------------------------
(* A step of a lane.                                                       *)

LEMMA AppendIs ==
  ASSUME NEW s \in Seq(Entry), NEW e \in Entry, NEW t, t = Append(s, e)
  PROVE  /\ t \in Seq(Entry) /\ Len(t) = Len(s) + 1 /\ t[Len(t)] = e
         /\ \A i \in 1 .. Len(s) : t[i] = s[i]
OBVIOUS

LEMMA FollowsStays ==
  ASSUME NEW s, NEW t, NEW k \in Nat, \A i \in 1 .. k : t[i] = s[i], NEW i \in 1 .. k, Follows(s, i, k)
  PROVE  Follows(t, i, k)
<1>1. \A j \in i + 1 .. k : j \in 1 .. k  OBVIOUS
<1> QED  BY <1>1 DEF Follows

\* An entry that may be written.
LEMMA RecordedAppend ==
  ASSUME NEW s \in Seq(Entry), Recorded(s), NEW e \in Entry, Sound(e), s = <<>> => IsPrompt(e),
         e.key # NoId => \A i \in 1 .. Len(s) : ~(s[i].run = e.run /\ s[i].key = e.key),
         Answered(e) # {} => \E i \in 1 .. Len(s) :
           /\ Answered(e) \subseteq Called(s[i]) /\ Follows(s, i, Len(s))
           /\ s[i].run = e.run /\ s[i].lane = e.lane,
         NEW t, t = Append(s, e)
  PROVE  Recorded(t)
<1>1. /\ t \in Seq(Entry) /\ Len(t) = Len(s) + 1 /\ t[Len(t)] = e /\ Len(s) \in Nat
      /\ \A i \in 1 .. Len(s) : t[i] = s[i]
  OBVIOUS
<1>2. \A k \in 1 .. Len(t) : k \in 1 .. Len(s) \/ k = Len(t)
  BY ONLY <1>1
<1>3. \A k \in 1 .. Len(t) : Sound(t[k])  BY <1>1, <1>2 DEF Recorded
<1>4. IsPrompt(t[1])
  <2>1. CASE s = <<>>  BY <1>1, <2>1
  <2>2. CASE s # <<>>
    <3>1. 1 \in 1 .. Len(s)  BY <2>2
    <3> QED  BY <1>1, <2>2, <3>1 DEF Recorded
  <2> QED  BY <2>1, <2>2
<1>5. Single(t)
  <2> SUFFICES ASSUME NEW i \in 1 .. Len(t), NEW k \in 1 .. Len(t), i # k,
                      t[i].run = t[k].run, t[i].key = t[k].key
               PROVE  t[i].key = NoId
    BY DEF Single
  <2>1. CASE i \in 1 .. Len(s) /\ k \in 1 .. Len(s)  BY <1>1, <2>1 DEF Recorded, Single
  <2>2. CASE i = Len(t) /\ k \in 1 .. Len(s)  BY <1>1, <2>2
  <2>3. CASE k = Len(t) /\ i \in 1 .. Len(s)  BY <1>1, <2>3
  <2> QED  BY <1>2, <2>1, <2>2, <2>3
<1>6. Made(t)
  <2> SUFFICES ASSUME NEW k \in 1 .. Len(t), Answered(t[k]) # {}
               PROVE  \E i \in 1 .. k - 1 :
                        /\ Answered(t[k]) \subseteq Called(t[i]) /\ Follows(t, i, k)
                        /\ t[i].run = t[k].run /\ t[i].lane = t[k].lane
    BY DEF Made
  <2>1. CASE k \in 1 .. Len(s)
    <3>1. t[k] = s[k]  BY <1>1, <2>1
    <3>2. PICK i \in 1 .. k - 1 : /\ Answered(s[k]) \subseteq Called(s[i]) /\ Follows(s, i, k)
                                  /\ s[i].run = s[k].run /\ s[i].lane = s[k].lane
      BY <2>1, <3>1 DEF Recorded, Made
    <3>3. i \in 1 .. k /\ i \in 1 .. Len(s) /\ k \in Nat /\ \A j \in 1 .. k : t[j] = s[j]
      BY <1>1, <2>1
    <3>4. Follows(t, i, k)  BY <3>2, <3>3, FollowsStays
    <3>5. t[i] = s[i]  BY <1>1, <3>3
    <3> QED  BY <3>1, <3>2, <3>4, <3>5
  <2>2. CASE k = Len(t)
    <3>1. t[k] = e  BY <1>1, <2>2
    <3>2. PICK i \in 1 .. Len(s) : /\ Answered(e) \subseteq Called(s[i]) /\ Follows(s, i, Len(s))
                                   /\ s[i].run = e.run /\ s[i].lane = e.lane
      BY <3>1
    <3>3. Follows(t, i, Len(s))  BY <1>1, <3>2, FollowsStays
    <3>4. t[i] = s[i] /\ i \in 1 .. k - 1  BY <1>1, <2>2
    <3>5. \A j \in i + 1 .. k : j \in i + 1 .. Len(s) \/ j = k  BY ONLY <1>1, <2>2
    <3>6. Follows(t, i, k)  BY <3>1, <3>2, <3>3, <3>4, <3>5 DEF Follows
    <3> QED  BY <3>1, <3>2, <3>4, <3>6
  <2> QED  BY <1>2, <2>1, <2>2
<1> QED  BY <1>1, <1>3, <1>4, <1>5, <1>6 DEF Recorded

\* What a request was folded from does not change.
LEMMA WindowStays ==
  ASSUME NEW s \in Seq(Entry), NEW t \in Seq(Entry), Len(s) <= Len(t),
         \A i \in 1 .. Len(s) : t[i] = s[i], NEW b \in Nat \ {0}, NEW n \in b .. Len(s)
  PROVE  SubSeq(t, b, n) = SubSeq(s, b, n)
<1>1. SubSeq(s, b, n) \in Seq(Entry) /\ Len(SubSeq(s, b, n)) = n - b + 1
      /\ \A i \in 1 .. n - b + 1 : SubSeq(s, b, n)[i] = s[b + i - 1]
  OBVIOUS
<1>2. SubSeq(t, b, n) \in Seq(Entry) /\ Len(SubSeq(t, b, n)) = n - b + 1
      /\ \A i \in 1 .. n - b + 1 : SubSeq(t, b, n)[i] = t[b + i - 1]
  OBVIOUS
<1>3. \A i \in 1 .. n - b + 1 : b + i - 1 \in 1 .. Len(s)  OBVIOUS
<1>4. \A i \in 1 .. n - b + 1 : t[b + i - 1] = s[b + i - 1]  BY <1>3
<1> DEFINE u == SubSeq(s, b, n)
           v == SubSeq(t, b, n)
<1>5. u \in Seq(Entry) /\ v \in Seq(Entry) /\ Len(u) = Len(v) /\ \A i \in 1 .. Len(u) : u[i] = v[i]
  BY <1>1, <1>2, <1>4
<1> HIDE DEF u, v
<1>6. u = v  BY <1>5, SeqEqual
<1> QED  BY <1>6 DEF u, v

\* What holds a request apart from what was under way keeps it apart.
LEMMA ApartStays ==
  ASSUME NEW s \in Seq(Entry), NEW t \in Seq(Entry), Len(s) <= Len(t),
         \A i \in 1 .. Len(s) : t[i] = s[i], NEW L, NEW K,
         \A k \in Len(s) + 1 .. Len(t) : \A x \in Answered(t[k]) :
           \E m \in Lanes : Owes(L[m]) /\ x \in Range(L[m].owed),
         \A m \in Lanes : Owes(K[m]) =>
           \/ Owes(L[m]) /\ Range(K[m].owed) \subseteq Range(L[m].owed)
           \/ \E i \in Len(s) + 1 .. Len(t) : Range(K[m].owed) \subseteq Called(t[i]),
         NEW n \in 0 .. Len(s), Apart(s, L, n)
  PROVE  Apart(t, K, n)
<1>0. Len(s) \in Nat /\ Len(t) \in Nat  OBVIOUS
<1>1. ASSUME NEW k \in n + 1 .. Len(t), NEW x \in Answered(t[k])
      PROVE  \E i \in n + 1 .. k - 1 : x \in Called(t[i])
  <2>1. CASE k <= Len(s)
    <3>1. k \in 1 .. Len(s) /\ k \in n + 1 .. Len(s)  BY <1>0, <2>1
    <3>2. t[k] = s[k]  BY <3>1
    <3>3. PICK i \in n + 1 .. k - 1 : x \in Called(s[i])  BY <1>1, <3>1, <3>2 DEF Apart
    <3>4. i \in 1 .. Len(s)  BY <3>1
    <3> QED  BY <3>3, <3>4
  <2>2. CASE k > Len(s)
    <3>1. k \in Len(s) + 1 .. Len(t)  BY <1>0, <2>2
    <3>2. PICK m \in Lanes : Owes(L[m]) /\ x \in Range(L[m].owed)  BY <1>1, <3>1
    <3>3. PICK i \in n + 1 .. Len(s) : Range(L[m].owed) \subseteq Called(s[i])  BY <3>2 DEF Apart
    <3>4. i \in 1 .. Len(s) /\ i \in n + 1 .. k - 1  BY <1>0, <3>1
    <3>5. t[i] = s[i]  BY <3>4
    <3> QED  BY <3>2, <3>3, <3>4, <3>5
  <2> QED  BY <1>0, <2>1, <2>2
<1>2. ASSUME NEW m \in Lanes, Owes(K[m])
      PROVE  \E i \in n + 1 .. Len(t) : Range(K[m].owed) \subseteq Called(t[i])
  <2>1. CASE Owes(L[m]) /\ Range(K[m].owed) \subseteq Range(L[m].owed)
    <3>1. PICK i \in n + 1 .. Len(s) : Range(L[m].owed) \subseteq Called(s[i])  BY <2>1 DEF Apart
    <3>2. i \in 1 .. Len(s) /\ i \in n + 1 .. Len(t)  BY <1>0
    <3>3. t[i] = s[i]  BY <3>2
    <3> QED  BY <2>1, <3>1, <3>2, <3>3
  <2>2. CASE \E i \in Len(s) + 1 .. Len(t) : Range(K[m].owed) \subseteq Called(t[i])
    <3>1. PICK i \in Len(s) + 1 .. Len(t) : Range(K[m].owed) \subseteq Called(t[i])  BY <2>2
    <3>2. i \in n + 1 .. Len(t)  BY <1>0
    <3> QED  BY <3>1, <3>2
  <2> QED  BY <1>2, <2>1, <2>2
<1> QED  BY <1>1, <1>2 DEF Apart

\* One lane moves, and writes at most what it owes.
LEMMA LoopStep ==
  ASSUME NEW s, NEW h, NEW L, NEW r, Sane(s, h, L, r), NEW l \in Lanes, NEW c \in Loop,
         NEW t \in Seq(Entry), NEW q \in Nat, r <= q, NEW g \in RequestHeader,
         g = h \/ g.lane = l,
         Recorded(t), Len(s) <= Len(t), \A i \in 1 .. Len(s) : t[i] = s[i],
         \A k \in Len(s) + 1 .. Len(t) :
           t[k].lane = l /\ \A x \in Answered(t[k]) : Owes(L[l]) /\ x \in Range(L[l].owed),
         Owes(c) => \/ Owes(L[l]) /\ Range(c.owed) \subseteq Range(L[l].owed)
                    \/ \E i \in Len(s) + 1 .. Len(t) : Range(c.owed) \subseteq Called(t[i]),
         Owing(t, l, c), Busy(t, g, q, l, c),
         c.sent # NoRequest =>
           \/ c.sent = L[l].sent /\ c.base = L[l].base
           \/ \E n \in c.base .. Len(t) :
                /\ c.sent.messages = FoldSurface(SubSeq(t, c.base, n))
                /\ c.sent.alone => Apart(t, [L EXCEPT ![l] = c], n),
         c.at = "none" => c = NoLoop,
         c.at = "recovering" => L[l].at = "recovering",
         c.at \notin {"none", "recovering"} =>
           \/ L[l].at \notin {"none", "recovering"}
           \/ \A m \in Lanes : L[m].at # "recovering"
  PROVE  Sane(t, g, [L EXCEPT ![l] = c], q)
<1> DEFINE K == [L EXCEPT ![l] = c]
<1>0. /\ s \in Seq(Entry) /\ h \in RequestHeader /\ L \in [Lanes -> Loop] /\ r \in Nat
      /\ Len(s) \in Nat /\ Len(t) \in Nat
  BY DEF Sane, Typed
<1>1. K \in [Lanes -> Loop] /\ K[l] = c /\ \A m \in Lanes : m # l => K[m] = L[m]  BY <1>0
<1> HIDE DEF K
<1>2. \A m \in Lanes : L[m] \in Loop /\ L[m].base \in Nat \ {0} /\ K[m].base \in Nat \ {0}
      /\ L[m].asked.at \in Nat
  <2>1. \A x \in Loop : x.base \in Nat \ {0} /\ x.asked.at \in Nat  BY DEF Loop
  <2> QED  BY <1>0, <1>1, <2>1
<1>3. \A n \in 0 .. Len(s) : Apart(s, L, n) => Apart(t, K, n)
  <2>1. \A k \in Len(s) + 1 .. Len(t) : \A x \in Answered(t[k]) :
          \E m \in Lanes : Owes(L[m]) /\ x \in Range(L[m].owed)
    OBVIOUS
  <2>2. \A m \in Lanes : Owes(K[m]) =>
          \/ Owes(L[m]) /\ Range(K[m].owed) \subseteq Range(L[m].owed)
          \/ \E i \in Len(s) + 1 .. Len(t) : Range(K[m].owed) \subseteq Called(t[i])
    BY <1>1
  <2> QED  BY <1>0, <2>1, <2>2, ApartStays
<1>4. \A b \in Nat \ {0} : \A n \in b .. Len(s) : SubSeq(t, b, n) = SubSeq(s, b, n)
  BY <1>0, WindowStays
<1>5. ASSUME NEW m \in Lanes, m # l PROVE Owing(t, m, K[m])
  <2> SUFFICES ASSUME Owes(L[m])
               PROVE  \E i \in 1 .. Len(t) :
                        /\ Range(L[m].owed) \subseteq Called(t[i]) /\ Follows(t, i, Len(t))
                        /\ t[i].run = L[m].run /\ t[i].lane = m
    BY <1>1, <1>5 DEF Owing
  <2>1. PICK i \in 1 .. Len(s) :
          /\ Range(L[m].owed) \subseteq Called(s[i]) /\ Follows(s, i, Len(s))
          /\ s[i].run = L[m].run /\ s[i].lane = m
    BY DEF Sane, Owing
  <2>2. Follows(t, i, Len(s))  BY <1>0, <2>1, FollowsStays
  <2>3. t[i] = s[i] /\ i \in 1 .. Len(t)  BY <1>0
  <2>4. \A j \in i + 1 .. Len(t) : j \in i + 1 .. Len(s) \/ j \in Len(s) + 1 .. Len(t)  BY <1>0
  <2>5. Follows(t, i, Len(t))  BY <1>5, <2>1, <2>2, <2>3, <2>4 DEF Follows
  <2> QED  BY <2>1, <2>3, <2>5
<1>6. ASSUME NEW m \in Lanes, NEW x, x.sent = L[m].sent, x.base = L[m].base PROVE Asked(t, K, x)
  <2> SUFFICES ASSUME x.sent # NoRequest
               PROVE  \E n \in x.base .. Len(t) : /\ x.sent.messages = FoldSurface(SubSeq(t, x.base, n))
                                                  /\ x.sent.alone => Apart(t, K, n)
    BY DEF Asked
  <2>1. PICK n \in L[m].base .. Len(s) :
          /\ L[m].sent.messages = FoldSurface(SubSeq(s, L[m].base, n))
          /\ L[m].sent.alone => Apart(s, L, n)
    BY <1>6 DEF Sane, Asked
  <2>2. n \in 0 .. Len(s) /\ n \in L[m].base .. Len(t)  BY <1>0, <1>2
  <2>3. SubSeq(t, L[m].base, n) = SubSeq(s, L[m].base, n)  BY <1>2, <1>4
  <2> QED  BY <1>3, <1>6, <2>1, <2>2, <2>3
<1>7. ASSUME NEW m \in Lanes, m # l PROVE Asked(t, K, K[m])  BY <1>1, <1>6, <1>7
<1>8. Asked(t, K, c)
  <2>1. CASE c.sent = L[l].sent /\ c.base = L[l].base  BY <1>6, <2>1
  <2>2. CASE ~(c.sent = L[l].sent /\ c.base = L[l].base)  BY <2>2 DEF Asked, K
  <2> QED  BY <2>1, <2>2
<1>9. ASSUME NEW m \in Lanes, m # l PROVE Busy(t, g, q, m, K[m])
  <2> SUFFICES ASSUME L[m].at # "none"
               PROVE  /\ L[m].run \in 1 .. q /\ L[m].model \in RunModels
                      /\ L[m].base <= Len(t) /\ IsPrompt(t[L[m].base])
                      /\ L[m].headed => g.lane \in Lanes /\ (g.lane = m => g.model = L[m].model)
                      /\ L[m].at = "recovering" => L[m].sent = NoRequest
                      /\ L[m].at = "asking" => Asking(t, m, L[m])
    BY <1>1, <1>9 DEF Busy
  <2>1. /\ L[m].run \in 1 .. r /\ L[m].model \in RunModels
        /\ L[m].base <= Len(s) /\ IsPrompt(s[L[m].base])
        /\ L[m].headed => h.lane \in Lanes /\ (h.lane = m => h.model = L[m].model)
        /\ L[m].at = "recovering" => L[m].sent = NoRequest
        /\ L[m].at = "asking" => Asking(s, m, L[m])
    BY DEF Sane, Busy
  <2>2. L[m].base \in 1 .. Len(s)  BY <1>0, <1>2, <2>1
  <2>3. t[L[m].base] = s[L[m].base] /\ L[m].base <= Len(t)  BY <1>0, <2>2
  <2>4. L[m].run \in 1 .. q  BY <1>0, <2>1
  <2>5. L[m].headed => g.lane \in Lanes /\ (g.lane = m => g.model = L[m].model)
    BY <1>9, <2>1
  <2>6. ASSUME L[m].at = "asking" PROVE Asking(t, m, L[m])
    <3>1. Asking(s, m, L[m])  BY <2>1, <2>6
    <3>2. L[m].asked.at \in L[m].base .. Len(s)  BY <3>1 DEF Asking
    <3>3. L[m].asked.at \in L[m].base .. Len(t)  BY <1>0, <1>2, <3>2
    <3>4. SubSeq(t, L[m].base, L[m].asked.at) = SubSeq(s, L[m].base, L[m].asked.at)
      BY <1>2, <1>4, <3>2
    <3> QED  BY <3>1, <3>3, <3>4 DEF Asking
  <2> QED  BY <2>1, <2>3, <2>4, <2>5, <2>6
<1>10. Exclusive(K)
  <2>1. ASSUME NEW m \in Lanes, NEW n \in Lanes, K[m].at = "recovering"
        PROVE  K[n].at \in {"none", "recovering"}
    <3>1. L[m].at = "recovering"  BY <1>1, <2>1
    <3>2. L[n].at \in {"none", "recovering"} /\ L[l].at \in {"none", "recovering"}
      BY <3>1 DEF Sane, Exclusive
    <3>3. CASE n = l  BY <1>1, <3>1, <3>2, <3>3
    <3>4. CASE n # l  BY <1>1, <3>2, <3>4
    <3> QED  BY <3>3, <3>4
  <2>2. ASSUME NEW m \in Lanes, K[m].at = "none" PROVE K[m] = NoLoop
    <3>1. CASE m = l  BY <1>1, <2>2, <3>1
    <3>2. CASE m # l  BY <1>1, <2>2, <3>2 DEF Sane, Exclusive
    <3> QED  BY <3>1, <3>2
  <2> QED  BY <2>1, <2>2 DEF Exclusive
<1>11. \A m \in Lanes : Owing(t, m, K[m]) /\ Asked(t, K, K[m]) /\ Busy(t, g, q, m, K[m])
  BY <1>1, <1>5, <1>7, <1>8, <1>9
<1>12. Typed(t, g, K, q)  BY <1>1 DEF Typed
<1> QED  BY <1>10, <1>11, <1>12 DEF Sane, K

-----------------------------------------------------------------------------
(* The steps.                                                              *)

LEMMA LoopIs ==
  ASSUME NEW c \in Loop
  PROVE  /\ c.run \in Nat /\ c.model \in ModelInfo \cup {NoModel}
         /\ c.at \in {"none", "turn", "asking", "tools", "answered", "recovering"}
         /\ c.base \in Nat \ {0} /\ c.resumes \in Nat /\ c.owed \in Seq(GivenIds)
         /\ c.sent \in Request /\ c.headed \in BOOLEAN
         /\ c.asked \in [at : Nat, snapshot : RequestHeader]
BY DEF Loop

LEMMA NothingIs ==
  /\ NoRequest \in Request /\ NoHeader \in RequestHeader
  /\ NoBoundary \in [at : Nat, snapshot : RequestHeader]
  /\ NoLoop \in Loop /\ NoLoop.at = "none" /\ NoLoop.sent = NoRequest /\ NoLoop.owed = <<>>
<1>1. NoRequest \in Request  BY DEF NoRequest, Request
<1>2. NoHeader \in RequestHeader  BY DEF NoHeader, RequestHeader
<1>3. NoBoundary \in [at : Nat, snapshot : RequestHeader]  BY <1>2 DEF NoBoundary
<1>4. NoLoop \in Loop  BY <1>1, <1>3 DEF NoLoop, Loop
<1> QED  BY <1>1, <1>2, <1>3, <1>4 DEF NoLoop

\* A lane that is through.
LEMMA OverStep ==
  ASSUME ConversationInv, NEW l \in Lanes, Over(l), UNCHANGED <<header, runs>>,
         surface' \in Seq(Entry), Recorded(surface'), Len(surface) <= Len(surface'),
         \A i \in 1 .. Len(surface) : surface'[i] = surface[i],
         \A k \in Len(surface) + 1 .. Len(surface') :
           surface'[k].lane = l /\ Answered(surface'[k]) = {}
  PROVE  ConversationInv'
<1>1. Sane(surface, header, loop, runs)  BY DEF ConversationInv
<1>2. runs \in Nat /\ header \in RequestHeader  BY <1>1 DEF Sane, Typed
<1>3. NoLoop \in Loop /\ NoLoop.at = "none" /\ NoLoop.sent = NoRequest /\ NoLoop.owed = <<>>
  BY NothingIs
<1>4. ~Owes(NoLoop) /\ Owing(surface', l, NoLoop) /\ Busy(surface', header, runs, l, NoLoop)
  BY <1>3 DEF Owes, Owing, Busy
<1>5. runs <= runs  BY <1>2
<1>6. Sane(surface', header, [loop EXCEPT ![l] = NoLoop], runs)
  BY <1>1, <1>2, <1>3, <1>4, <1>5, LoopStep
<1> QED  BY <1>6 DEF ConversationInv, Over

LEMMA StartKeeps ==
  ASSUME ConversationInv, NEW l \in Lanes, NEW model \in RunModels, NEW severed \in BOOLEAN,
         Start(l, model, severed)
  PROVE  ConversationInv'
<1> DEFINE c == [NoLoop EXCEPT !.run = runs', !.model = model, !.at = "turn",
                               !.base = IF severed THEN Len(surface) + 1 ELSE 1]
<1> PICK e : e = Prompt(l, runs')  OBVIOUS
<1>1. Sane(surface, header, loop, runs)  BY DEF ConversationInv
<1>2. /\ runs \in Nat /\ header \in RequestHeader /\ surface \in Seq(Entry) /\ Len(surface) \in Nat
      /\ Recorded(surface)
  BY <1>1 DEF Sane, Typed
<1>3. /\ loop' = [loop EXCEPT ![l] = c] /\ runs' = runs + 1 /\ header' = header
      /\ \A m \in Lanes : loop[m].at # "recovering"
  BY DEF Start
<1>4. /\ e \in Entry /\ IsPrompt(e) /\ Sound(e) /\ Called(e) = {} /\ Answered(e) = {}
      /\ e.key = NoId /\ e.lane = l
  <2>1. runs' \in Nat  BY <1>2, <1>3
  <2> QED  BY <2>1, PromptIs
<1>5. surface' = Append(surface, e)  BY <1>4 DEF Start, Write
<1>6. /\ Recorded(surface') /\ surface' \in Seq(Entry) /\ Len(surface') = Len(surface) + 1
      /\ surface'[Len(surface')] = e /\ \A i \in 1 .. Len(surface) : surface'[i] = surface[i]
  <2>1. Recorded(surface')  BY <1>2, <1>4, <1>5, RecordedAppend
  <2> QED  BY <1>2, <1>4, <1>5, <2>1, AppendIs
<1>7. /\ c \in Loop /\ c.run = runs + 1 /\ c.model = model /\ c.at = "turn"
      /\ c.base = (IF severed THEN Len(surface) + 1 ELSE 1)
      /\ c.sent = NoRequest /\ c.owed = <<>> /\ c.headed = FALSE
  <2>1. model \in ModelInfo  BY ConversationAssumption
  <2>2. PICK d \in Loop : /\ d = NoLoop /\ d.sent = NoRequest /\ d.owed = <<>> /\ d.headed = FALSE
    <3>1. NoLoop.headed = FALSE  BY DEF NoLoop
    <3> QED  BY <3>1, NothingIs
  <2> PICK b \in Nat \ {0} : b = IF severed THEN Len(surface) + 1 ELSE 1  BY <1>2
  <2> PICK n \in Nat : n = runs'  BY <1>2, <1>3
  <2>3. c = [d EXCEPT !.run = n, !.model = model, !.at = "turn", !.base = b]  BY <2>2
  <2> HIDE DEF c
  <2>4. c \in Loop  BY <2>1, <2>3 DEF Loop
  <2>5. /\ c.run = n /\ c.model = model /\ c.at = "turn" /\ c.base = b
        /\ c.sent = d.sent /\ c.owed = d.owed /\ c.headed = d.headed
    BY <2>3 DEF Loop
  <2> QED  BY <1>3, <2>2, <2>4, <2>5
<1> HIDE DEF c
<1>8. ~Owes(c) /\ Owing(surface', l, c)  BY <1>7 DEF Owes, Owing
<1>9. Busy(surface', header, runs', l, c)
  <2>1. c.base <= Len(surface') /\ IsPrompt(surface'[c.base])
    <3>1. CASE severed  BY <1>2, <1>4, <1>6, <1>7, <3>1
    <3>2. CASE ~severed
      <4>1. surface' # <<>> /\ 1 <= Len(surface')  BY <1>2, <1>6
      <4> QED  BY <1>6, <1>7, <3>2, <4>1 DEF Recorded
    <3> QED  BY <3>1, <3>2
  <2>2. c.run \in 1 .. runs'  BY <1>2, <1>3, <1>7
  <2> QED  BY <1>7, <2>1, <2>2 DEF Busy
<1>10. runs' \in Nat /\ runs <= runs' /\ Len(surface) <= Len(surface')  BY <1>2, <1>3, <1>6
<1>11. \A k \in Len(surface) + 1 .. Len(surface') :
         surface'[k].lane = l /\ Answered(surface'[k]) = {}
  <2>1. \A k \in Len(surface) + 1 .. Len(surface') : k = Len(surface')  BY <1>2, <1>6
  <2> QED  BY <1>4, <1>6, <2>1
<1>12. Sane(surface', header, [loop EXCEPT ![l] = c], runs')
  BY <1>1, <1>2, <1>3, <1>6, <1>7, <1>8, <1>9, <1>10, <1>11, LoopStep
<1> QED  BY <1>3, <1>12 DEF ConversationInv

LEMMA FoldIs ==
  ASSUME NEW s \in Seq(Entry)
  PROVE  FoldSurface(s) \in Seq(Message) /\ Flat(FoldSurface(s)) \in Seq(Block)
<1>1. PICK f : /\ FoldSurface(s) = f[Len(s)] /\ \A n \in 0 .. Len(s) : f[n] \in Seq(Message)
  BY FoldTyped
<1>2. FoldSurface(s) \in Seq(Message)  BY <1>1
<1>3. [role |-> "user", content |-> <<>>] \in Message  BY DEF Message, Role
<1> QED  BY <1>2, <1>3, FlatAppend

LEMMA BuildKeeps ==
  ASSUME ConversationInv, NEW l \in Lanes, Build(l)
  PROVE  ConversationInv'
<1> DEFINE messages == FoldSurface(SurfaceFrom(loop[l].base))
           sent == [messages |-> messages,
                    alone |-> \A m \in Lanes \ {l} : loop[m].at # "tools"]
           asked == [at |-> Len(surface), snapshot |-> header']
           c == [loop[l] EXCEPT !.at = "asking", !.headed = TRUE, !.asked = asked, !.sent = sent]
<1>1. Sane(surface, header, loop, runs)  BY DEF ConversationInv
<1>2. /\ runs \in Nat /\ header \in RequestHeader /\ surface \in Seq(Entry) /\ Len(surface) \in Nat
      /\ Recorded(surface) /\ loop \in [Lanes -> Loop] /\ loop[l] \in Loop
  BY <1>1 DEF Sane, Typed
<1>3. /\ loop' = [loop EXCEPT ![l] = c] /\ runs' = runs /\ surface' = surface
      /\ loop[l].at = "turn"
      /\ header' = IF Announces(l) THEN [lane |-> l, model |-> loop[l].model] ELSE header
  BY <1>2 DEF Build
<1>4. /\ loop[l].run \in 1 .. runs /\ loop[l].model \in RunModels
      /\ loop[l].base <= Len(surface) /\ IsPrompt(surface[loop[l].base])
      /\ loop[l].headed => header.lane \in Lanes /\ (header.lane = l => header.model = loop[l].model)
  BY <1>1, <1>3 DEF Sane, Busy
<1>5. /\ loop[l].base \in Nat \ {0} /\ loop[l].model \in ModelInfo \cup {NoModel}
      /\ loop[l].owed \in Seq(GivenIds) /\ loop[l].run \in Nat /\ loop[l].resumes \in Nat
  BY <1>2, LoopIs
<1>6. /\ header' \in RequestHeader /\ header'.lane \in Lanes
      /\ header'.lane = l => header'.model = loop[l].model
      /\ header' = header \/ header'.lane = l
  BY <1>2, <1>3, <1>4, <1>5 DEF Announces, RequestHeader
<1>7. SurfaceFrom(loop[l].base) = SubSeq(surface, loop[l].base, Len(surface))
      /\ SubSeq(surface, loop[l].base, Len(surface)) \in Seq(Entry)
  BY <1>2, <1>4, <1>5 DEF SurfaceFrom
<1>8. messages \in Seq(Message) /\ Len(Flat(messages)) \in Nat
  <2>1. PICK w \in Seq(Entry) : w = SurfaceFrom(loop[l].base)  BY <1>7
  <2>2. FoldSurface(w) \in Seq(Message) /\ Flat(FoldSurface(w)) \in Seq(Block)  BY FoldIs
  <2>3. Len(Flat(FoldSurface(w))) \in Nat  BY <2>2
  <2> QED  BY <2>1, <2>2, <2>3
<1>9. sent \in Request
  <2> HIDE DEF messages
  <2> QED  BY <1>8 DEF Request
<1>10. asked \in [at : Nat, snapshot : RequestHeader] /\ asked.at = Len(surface)
       /\ asked.snapshot = header'
  BY <1>2, <1>6
<1>11. /\ sent.messages = FoldSurface(SubSeq(surface, loop[l].base, Len(surface)))
       /\ sent.alone => \A m \in Lanes \ {l} : loop[m].at # "tools"
  BY <1>7
<1> HIDE DEF sent, asked
<1>12. /\ c \in Loop /\ c.run = loop[l].run /\ c.model = loop[l].model /\ c.at = "asking"
       /\ c.base = loop[l].base /\ c.sent = sent /\ c.headed = TRUE /\ c.asked = asked
  <2>1. PICK d \in Loop : d = loop[l]  BY <1>2
  <2>2. c = [d EXCEPT !.at = "asking", !.headed = TRUE, !.asked = asked, !.sent = sent]  BY <2>1
  <2> HIDE DEF c
  <2>3. c \in Loop  BY <1>9, <1>10, <2>2 DEF Loop
  <2>4. /\ c.run = d.run /\ c.model = d.model /\ c.at = "asking" /\ c.base = d.base
        /\ c.sent = sent /\ c.headed = TRUE /\ c.asked = asked
    BY <2>2 DEF Loop
  <2> QED  BY <2>1, <2>3, <2>4
<1> HIDE DEF c
<1>13. ~Owes(c) /\ Owing(surface, l, c)  BY <1>12 DEF Owes, Owing
<1>14. Busy(surface, header', runs, l, c)
  <2>1. c.asked.at \in c.base .. Len(surface)  BY <1>2, <1>4, <1>5, <1>10, <1>12
  <2>2. Asking(surface, l, c)  BY <1>6, <1>10, <1>11, <1>12, <2>1 DEF Asking
  <2> QED  BY <1>4, <1>6, <1>12, <2>2 DEF Busy
<1>15. c.sent.alone => Apart(surface, [loop EXCEPT ![l] = c], Len(surface))
  <2> SUFFICES ASSUME c.sent.alone PROVE Apart(surface, [loop EXCEPT ![l] = c], Len(surface))
    OBVIOUS
  <2>1. \A m \in Lanes : ~Owes([loop EXCEPT ![l] = c][m])
    <3> SUFFICES ASSUME NEW m \in Lanes PROVE ~Owes([loop EXCEPT ![l] = c][m])  OBVIOUS
    <3>1. CASE m = l  BY <1>2, <1>13, <3>1
    <3>2. CASE m # l
      <4>1. loop[m].at # "tools"  BY <1>11, <1>12, <3>2
      <4>2. loop[m].at # "recovering"  BY <1>1, <1>3 DEF Sane, Exclusive
      <4>3. [loop EXCEPT ![l] = c][m] = loop[m]  BY <1>2, <3>2
      <4> QED  BY <4>1, <4>2, <4>3 DEF Owes
    <3> QED  BY <3>1, <3>2
  <2>2. Len(surface) + 1 .. Len(surface) = {}  BY <1>2
  <2> QED  BY <2>1, <2>2 DEF Apart
<1>16. c.sent # NoRequest =>
         \/ c.sent = loop[l].sent /\ c.base = loop[l].base
         \/ \E n \in c.base .. Len(surface) :
              /\ c.sent.messages = FoldSurface(SubSeq(surface, c.base, n))
              /\ c.sent.alone => Apart(surface, [loop EXCEPT ![l] = c], n)
  <2>1. Len(surface) \in c.base .. Len(surface)  BY <1>2, <1>4, <1>5, <1>12
  <2>2. c.sent.messages = FoldSurface(SubSeq(surface, c.base, Len(surface)))  BY <1>11, <1>12
  <2> QED  BY <1>15, <2>1, <2>2
<1>17. /\ runs <= runs /\ Len(surface) <= Len(surface)
       /\ \A k \in Len(surface) + 1 .. Len(surface) :
            surface[k].lane = l /\ \A x \in Answered(surface[k]) : Owes(loop[l]) /\ x \in Range(loop[l].owed)
  BY <1>2
<1>18. Sane(surface, header', [loop EXCEPT ![l] = c], runs)
  <2>1. /\ c.at # "none" /\ c.at # "recovering" /\ loop[l].at \notin {"none", "recovering"}
        /\ header' = header \/ header'.lane = l
    BY <1>3, <1>6, <1>12
  <2> QED  BY <1>1, <1>2, <1>6, <1>12, <1>13, <1>14, <1>16, <1>17, <2>1, LoopStep
<1> QED  BY <1>3, <1>18 DEF ConversationInv

\* A prompt or a response is written.
LEMMA PlainWrite ==
  ASSUME surface \in Seq(Entry), Recorded(surface), NEW e \in Entry, Sound(e), Answered(e) = {},
         e.key = NoId, surface = <<>> => IsPrompt(e), Write(e)
  PROVE  /\ surface' \in Seq(Entry) /\ Recorded(surface') /\ Len(surface) \in Nat
         /\ Len(surface') = Len(surface) + 1
         /\ \A i \in 1 .. Len(surface) : surface'[i] = surface[i]
         /\ \A k \in Len(surface) + 1 .. Len(surface') : surface'[k] = e
<1>1. surface' = Append(surface, e)  BY DEF Write
<1>2. Recorded(surface')  BY <1>1, RecordedAppend
<1>3. /\ surface' \in Seq(Entry) /\ Len(surface') = Len(surface) + 1 /\ surface'[Len(surface')] = e
      /\ \A i \in 1 .. Len(surface) : surface'[i] = surface[i]
  BY <1>1, AppendIs
<1>4. \A k \in Len(surface) + 1 .. Len(surface') : k = Len(surface')  BY <1>3
<1> QED  BY <1>2, <1>3, <1>4

\* A result is written, unless it is there.
LEMMA ResultWrite ==
  ASSUME ConversationInv, NEW l \in Lanes, Owes(loop[l]), Write(Result(l, Head(loop[l].owed)))
  PROVE  /\ surface' \in Seq(Entry) /\ Recorded(surface') /\ Len(surface) <= Len(surface')
         /\ \A i \in 1 .. Len(surface) : surface'[i] = surface[i]
         /\ \A k \in Len(surface) + 1 .. Len(surface') :
              surface'[k].lane = l /\ \A x \in Answered(surface'[k]) : x \in Range(loop[l].owed)
         /\ \A c : c.run = loop[l].run /\ Range(c.owed) \subseteq Range(loop[l].owed)
                     => Owing(surface', l, c)
<1>1. Sane(surface, header, loop, runs)  BY DEF ConversationInv
<1>2. /\ surface \in Seq(Entry) /\ Len(surface) \in Nat /\ Recorded(surface)
      /\ loop \in [Lanes -> Loop] /\ loop[l] \in Loop
  BY <1>1 DEF Sane, Typed
<1>3. loop[l].run \in Nat /\ loop[l].owed \in Seq(GivenIds) /\ loop[l].owed # <<>>
  BY <1>2, LoopIs DEF Owes
<1> PICK id \in GivenIds : id = Head(loop[l].owed) /\ id \in Range(loop[l].owed)
  <2>1. Head(loop[l].owed) = loop[l].owed[1] /\ 1 \in DOMAIN loop[l].owed
        /\ loop[l].owed[1] \in GivenIds
    BY <1>3
  <2>2. loop[l].owed[1] \in Range(loop[l].owed)  BY <2>1 DEF Range
  <2> QED  BY <2>1, <2>2
<1> PICK e : e = Result(l, id)  OBVIOUS
<1>4. /\ e \in Entry /\ Sound(e) /\ Called(e) = {} /\ Answered(e) = {id}
      /\ e.key = id /\ e.lane = l /\ e.run = loop[l].run
  BY <1>3, ResultIs
<1>5. PICK i \in 1 .. Len(surface) :
        /\ Range(loop[l].owed) \subseteq Called(surface[i]) /\ Follows(surface, i, Len(surface))
        /\ surface[i].run = loop[l].run /\ surface[i].lane = l
  BY <1>1 DEF Sane, Owing
<1>6. Write(e)  OBVIOUS
<1>7. CASE surface' = surface
  <2>1. \A c : c.run = loop[l].run /\ Range(c.owed) \subseteq Range(loop[l].owed)
                 => Owing(surface', l, c)
    BY <1>5, <1>7 DEF Owing
  <2>2. /\ Len(surface) + 1 .. Len(surface') = {} /\ Len(surface) <= Len(surface')
    BY <1>2, <1>7
  <2> QED  BY <1>2, <1>7, <2>1, <2>2
<1>8. CASE surface' # surface
  <2>1. surface' = Append(surface, e)  BY <1>6, <1>8 DEF Write
  <2>2. \A j \in 1 .. Len(surface) : ~(surface[j].run = e.run /\ surface[j].key = e.key)
    <3> SUFFICES ASSUME NEW j \in 1 .. Len(surface), surface[j].run = e.run, surface[j].key = e.key
                 PROVE  FALSE
      OBVIOUS
    <3>1. surface[j] \in Range(surface)  BY <1>2 DEF Range
    <3>2. e.key # NoId  BY <1>4, GivenIdsAre
    <3> QED  BY <1>6, <1>8, <3>1, <3>2 DEF Write
  <2>3. /\ Answered(e) \subseteq Called(surface[i]) /\ Follows(surface, i, Len(surface))
        /\ surface[i].run = e.run /\ surface[i].lane = e.lane
    BY <1>4, <1>5
  <2>4. surface # <<>>  BY <1>2, <1>5
  <2>5. Recorded(surface')  BY <1>2, <1>4, <2>1, <2>2, <2>3, <2>4, RecordedAppend
  <2>6. /\ surface' \in Seq(Entry) /\ Len(surface') = Len(surface) + 1
        /\ surface'[Len(surface')] = e /\ \A j \in 1 .. Len(surface) : surface'[j] = surface[j]
    BY <1>2, <1>4, <2>1, AppendIs
  <2>7. \A k \in Len(surface) + 1 .. Len(surface') : k = Len(surface')  BY <1>2, <2>6
  <2>8. \A k \in Len(surface) + 1 .. Len(surface') :
          surface'[k].lane = l /\ \A x \in Answered(surface'[k]) : x \in Range(loop[l].owed)
    BY <1>4, <2>6, <2>7
  <2>9. Follows(surface', i, Len(surface'))
    <3>1. Follows(surface', i, Len(surface))  BY <1>2, <1>5, <2>6, FollowsStays
    <3>2. \A j \in i + 1 .. Len(surface') : j \in i + 1 .. Len(surface) \/ j = Len(surface')
      BY <1>2, <2>6
    <3>3. surface'[i] = surface[i] /\ Answered(e) # {}  BY <1>4, <2>6
    <3> QED  BY <2>3, <2>6, <3>1, <3>2, <3>3 DEF Follows
  <2>10. surface'[i] = surface[i] /\ i \in 1 .. Len(surface')  BY <1>2, <2>6
  <2>11. ASSUME NEW c, c.run = loop[l].run, Range(c.owed) \subseteq Range(loop[l].owed)
         PROVE  Owing(surface', l, c)
    BY <1>5, <2>9, <2>10, <2>11 DEF Owing
  <2> QED  BY <1>2, <2>5, <2>6, <2>8, <2>11
<1> QED  BY <1>7, <1>8

\* A lane goes on with its run.
LEMMA MoveStep ==
  ASSUME ConversationInv, NEW l \in Lanes, loop[l].at # "none", NEW c \in Loop,
         loop' = [loop EXCEPT ![l] = c], UNCHANGED <<header, runs>>,
         c.run = loop[l].run, c.model = loop[l].model, c.base = loop[l].base,
         c.headed = loop[l].headed, c.sent = loop[l].sent, c.at \notin {"none", "asking"},
         c.at = "recovering" <=> loop[l].at = "recovering",
         surface' \in Seq(Entry), Recorded(surface'), Len(surface) <= Len(surface'),
         \A i \in 1 .. Len(surface) : surface'[i] = surface[i],
         \A k \in Len(surface) + 1 .. Len(surface') :
           /\ surface'[k].lane = l
           /\ \A x \in Answered(surface'[k]) : Owes(loop[l]) /\ x \in Range(loop[l].owed),
         Owes(c) => \/ Owes(loop[l]) /\ Range(c.owed) \subseteq Range(loop[l].owed)
                    \/ \E i \in Len(surface) + 1 .. Len(surface') :
                         Range(c.owed) \subseteq Called(surface'[i]),
         Owing(surface', l, c)
  PROVE  ConversationInv'
<1>1. Sane(surface, header, loop, runs)  BY DEF ConversationInv
<1>2. /\ surface \in Seq(Entry) /\ Len(surface) \in Nat /\ runs \in Nat /\ header \in RequestHeader
      /\ loop \in [Lanes -> Loop] /\ loop[l] \in Loop
  BY <1>1 DEF Sane, Typed
<1>3. /\ loop[l].run \in 1 .. runs /\ loop[l].model \in RunModels
      /\ loop[l].base <= Len(surface) /\ IsPrompt(surface[loop[l].base])
      /\ loop[l].headed => header.lane \in Lanes /\ (header.lane = l => header.model = loop[l].model)
      /\ loop[l].at = "recovering" => loop[l].sent = NoRequest
  BY <1>1 DEF Sane, Busy
<1>4. loop[l].base \in 1 .. Len(surface)
  <2>1. loop[l].base \in Nat \ {0}  BY <1>2, LoopIs
  <2> QED  BY <1>2, <1>3, <2>1
<1>5. c.base <= Len(surface') /\ IsPrompt(surface'[c.base])  BY <1>2, <1>3, <1>4
<1>6. Busy(surface', header, runs, l, c)  BY <1>3, <1>5 DEF Busy
<1>7. runs <= runs /\ header = header  BY <1>2
<1>8. c.at \notin {"none", "recovering"} => loop[l].at \notin {"none", "recovering"}  OBVIOUS
<1>9. Sane(surface', header, [loop EXCEPT ![l] = c], runs)
  BY <1>1, <1>2, <1>6, <1>7, <1>8, LoopStep
<1> QED  BY <1>9 DEF ConversationInv

LEMMA RespondKeeps ==
  ASSUME ConversationInv, NEW l \in Lanes, NEW content \in Contents(loop[l].model), NEW stop \in Stops,
         Respond(l, content, stop)
  PROVE  ConversationInv'
<1>1. Sane(surface, header, loop, runs)  BY DEF ConversationInv
<1>2. /\ surface \in Seq(Entry) /\ Len(surface) \in Nat /\ Recorded(surface)
      /\ loop \in [Lanes -> Loop] /\ loop[l] \in Loop /\ loop[l].at = "asking"
      /\ UNCHANGED <<header, runs>>
  BY <1>1 DEF Sane, Typed, Respond
<1>3. loop[l].run \in Nat /\ loop[l].resumes \in Nat  BY <1>2, LoopIs
<1>4. surface # <<>>
  <2>1. loop[l].base <= Len(surface)  BY <1>1, <1>2 DEF Sane, Busy
  <2>2. loop[l].base \in Nat \ {0}  BY <1>2, LoopIs
  <2> QED  BY <1>2, <2>1, <2>2
<1> PICK e : e = [lane |-> l, run |-> loop[l].run, role |-> Carrier(content), key |-> NoId,
                  blocks |-> Blocks(loop[l].model, content)]
  OBVIOUS
<1> DEFINE calls == Calls(Blocks(loop[l].model, content))
<1>5. /\ e \in Entry /\ Sound(e) /\ Answered(e) = {} /\ e.key = NoId /\ e.lane = l
      /\ e.run = loop[l].run /\ calls \in Seq(GivenIds) /\ Range(calls) = Called(e)
  BY <1>2, <1>3, ResponseIs
<1>6. /\ surface' \in Seq(Entry) /\ Recorded(surface') /\ Len(surface) <= Len(surface')
      /\ \A i \in 1 .. Len(surface) : surface'[i] = surface[i]
      /\ \A k \in Len(surface) + 1 .. Len(surface') : surface'[k] = e
      /\ content # <<>> => Len(surface') = Len(surface) + 1
  <2>1. CASE content = <<>>
    <3>1. surface' = surface  BY <2>1 DEF Respond
    <3>2. Len(surface) + 1 .. Len(surface') = {} /\ Len(surface) <= Len(surface')  BY <1>2, <3>1
    <3> QED  BY <1>2, <2>1, <3>1, <3>2
  <2>2. CASE content # <<>>
    <3>1. Write(e)  BY <2>2 DEF Respond
    <3>2. Len(surface) <= Len(surface) + 1  BY <1>2
    <3> QED  BY <1>2, <1>4, <1>5, <3>1, <3>2, PlainWrite
  <2> QED  BY <2>1, <2>2
<1> DEFINE action == Decide(stop, loop[l].resumes)
           next == CASE action = "dispatch" -> "tools" [] action = "settle" -> "answered"
                   [] OTHER -> "turn"
           resumes == IF action = "resume" THEN loop[l].resumes + 1 ELSE 0
           owed == IF action = "dispatch" THEN calls ELSE <<>>
<1>7. CASE action = "fail"
  <2>1. Over(l)  BY <1>7 DEF Respond
  <2>2. \A k \in Len(surface) + 1 .. Len(surface') :
          surface'[k].lane = l /\ Answered(surface'[k]) = {}
    BY <1>5, <1>6
  <2> QED  BY <1>2, <1>6, <2>1, <2>2, OverStep
<1>8. CASE action # "fail"
  <2> DEFINE c == [loop[l] EXCEPT !.at = next, !.asked = NoBoundary, !.resumes = resumes, !.owed = owed]
  <2>1. loop' = [loop EXCEPT ![l] = c]  BY <1>2, <1>8 DEF Respond
  <2>2. next \in {"tools", "answered", "turn"} /\ resumes \in Nat /\ owed \in Seq(GivenIds)
    BY <1>3, <1>5
  <2>3. owed # <<>> => owed = calls /\ Len(surface') = Len(surface) + 1
    <3> SUFFICES ASSUME owed # <<>> PROVE owed = calls /\ Len(surface') = Len(surface) + 1  OBVIOUS
    <3>1. action = "dispatch"  OBVIOUS
    <3>2. stop = "tool_use"
      <4>1. stop \in {"end_turn", "tool_use", "max_tokens", "pause_turn", "refusal", "window_exceeded"}
        BY DEF Stops
      <4> QED  BY <3>1, <4>1 DEF Decide
    <3>3. "use" \in Range(content)  BY <3>2 DEF Respond
    <3>4. content # <<>>  BY <3>3 DEF Range
    <3> QED  BY <1>6, <3>1, <3>4
  <2> HIDE DEF action, next, resumes, owed, calls
  <2>4. /\ c \in Loop /\ c.run = loop[l].run /\ c.model = loop[l].model /\ c.base = loop[l].base
        /\ c.headed = loop[l].headed /\ c.sent = loop[l].sent /\ c.at = next /\ c.owed = owed
    <3> PICK d \in Loop : d = loop[l]  BY <1>2
    <3> PICK b : b = NoBoundary  OBVIOUS
    <3>1. b \in [at : Nat, snapshot : RequestHeader]  BY NothingIs
    <3>2. c = [d EXCEPT !.at = next, !.asked = b, !.resumes = resumes, !.owed = owed]  OBVIOUS
    <3> HIDE DEF c
    <3>3. c \in Loop  BY <2>2, <3>1, <3>2 DEF Loop
    <3>4. /\ c.run = d.run /\ c.model = d.model /\ c.base = d.base /\ c.headed = d.headed
          /\ c.sent = d.sent /\ c.at = next /\ c.owed = owed
      BY <3>2 DEF Loop
    <3> QED  BY <3>3, <3>4
  <2> HIDE DEF c
  <2>5. \A k \in Len(surface) + 1 .. Len(surface') :
          surface'[k].lane = l /\ Answered(surface'[k]) = {}
    BY <1>5, <1>6
  <2>6. ASSUME c.owed # <<>>
        PROVE  /\ Len(surface') \in Len(surface) + 1 .. Len(surface') /\ Len(surface') \in 1 .. Len(surface')
               /\ surface'[Len(surface')] = e /\ Range(c.owed) = Called(e)
    <3>1. owed = calls /\ Len(surface') = Len(surface) + 1  BY <2>3, <2>4, <2>6
    <3>2. Len(surface') \in Len(surface) + 1 .. Len(surface') /\ Len(surface') \in 1 .. Len(surface')
      BY <1>2, <3>1
    <3> QED  BY <1>5, <1>6, <2>4, <3>1, <3>2 DEF calls
  <2>7. Owing(surface', l, c)
    <3> SUFFICES ASSUME Owes(c)
                 PROVE  \E i \in 1 .. Len(surface') :
                          /\ Range(c.owed) \subseteq Called(surface'[i])
                          /\ Follows(surface', i, Len(surface'))
                          /\ surface'[i].run = c.run /\ surface'[i].lane = l
      BY DEF Owing
    <3>1. c.owed # <<>>  BY DEF Owes
    <3>2. Follows(surface', Len(surface'), Len(surface'))
      <4>1. Len(surface') + 1 .. Len(surface') = {}  BY <1>6
      <4> QED  BY <4>1 DEF Follows
    <3> QED  BY <1>5, <2>4, <2>6, <3>1, <3>2
  <2>8. Owes(c) => \E i \in Len(surface) + 1 .. Len(surface') : Range(c.owed) \subseteq Called(surface'[i])
    <3>1. Owes(c) => c.owed # <<>>  BY DEF Owes
    <3> QED  BY <2>6, <3>1
  <2> QED  BY <1>2, <1>6, <2>1, <2>2, <2>4, <2>5, <2>7, <2>8, MoveStep
<1> QED  BY <1>7, <1>8

\* Nothing is written.
LEMMA NoWrite ==
  ASSUME ConversationInv, surface' = surface
  PROVE  /\ surface' \in Seq(Entry) /\ Recorded(surface') /\ Len(surface) <= Len(surface')
         /\ \A i \in 1 .. Len(surface) : surface'[i] = surface[i]
         /\ Len(surface) + 1 .. Len(surface') = {}
<1>1. surface \in Seq(Entry) /\ Recorded(surface) /\ Len(surface) \in Nat
  BY DEF ConversationInv, Sane, Typed
<1> QED  BY <1>1

LEMMA FollowUpKeeps ==
  ASSUME ConversationInv, NEW l \in Lanes, FollowUp(l)
  PROVE  ConversationInv'
<1>1. Sane(surface, header, loop, runs)  BY DEF ConversationInv
<1>2. /\ surface \in Seq(Entry) /\ Recorded(surface) /\ loop \in [Lanes -> Loop]
      /\ loop[l] \in Loop /\ loop[l].at = "answered" /\ UNCHANGED <<header, runs>>
  BY <1>1 DEF Sane, Typed, FollowUp
<1>3. CASE Over(l) /\ UNCHANGED surface
  <2> HIDE DEF Over
  <2> QED  BY <1>2, <1>3, NoWrite, OverStep
<1>4. CASE Write(Prompt(l, loop[l].run)) /\ loop' = [loop EXCEPT ![l].at = "turn"]
  <2> PICK e : e = Prompt(l, loop[l].run)  OBVIOUS
  <2> DEFINE c == [loop[l] EXCEPT !.at = "turn"]
  <2>1. loop[l].run \in Nat  BY <1>2, LoopIs
  <2>2. /\ e \in Entry /\ IsPrompt(e) /\ Sound(e) /\ Answered(e) = {} /\ e.key = NoId /\ e.lane = l
    BY <2>1, PromptIs
  <2>3. /\ surface' \in Seq(Entry) /\ Recorded(surface') /\ Len(surface) <= Len(surface')
        /\ \A i \in 1 .. Len(surface) : surface'[i] = surface[i]
        /\ \A k \in Len(surface) + 1 .. Len(surface') : surface'[k] = e
    <3>1. /\ surface' \in Seq(Entry) /\ Recorded(surface') /\ Len(surface) \in Nat
          /\ Len(surface') = Len(surface) + 1
          /\ \A i \in 1 .. Len(surface) : surface'[i] = surface[i]
          /\ \A k \in Len(surface) + 1 .. Len(surface') : surface'[k] = e
      BY <1>2, <1>4, <2>2, PlainWrite
    <3>2. Len(surface) <= Len(surface')  BY <3>1
    <3> QED  BY <3>1, <3>2
  <2>4. loop' = [loop EXCEPT ![l] = c]  BY <1>2, <1>4
  <2>5. /\ c \in Loop /\ c.run = loop[l].run /\ c.model = loop[l].model /\ c.base = loop[l].base
        /\ c.headed = loop[l].headed /\ c.sent = loop[l].sent /\ c.at = "turn"
    <3> PICK d \in Loop : d = loop[l]  BY <1>2
    <3>1. c = [d EXCEPT !.at = "turn"]  OBVIOUS
    <3> HIDE DEF c
    <3>2. c \in Loop  BY <3>1 DEF Loop
    <3>3. /\ c.run = d.run /\ c.model = d.model /\ c.base = d.base /\ c.headed = d.headed
          /\ c.sent = d.sent /\ c.at = "turn"
      BY <3>1 DEF Loop
    <3> QED  BY <3>2, <3>3
  <2> HIDE DEF c
  <2>6. ~Owes(c) /\ Owing(surface', l, c)  BY <2>5 DEF Owes, Owing
  <2>7. \A k \in Len(surface) + 1 .. Len(surface') :
          surface'[k].lane = l /\ Answered(surface'[k]) = {}
    BY <2>2, <2>3
  <2> QED  BY <1>2, <2>3, <2>4, <2>5, <2>6, <2>7, MoveStep
<1> QED  BY <1>3, <1>4 DEF FollowUp

\* A result is written for the first of the calls that are owed.
LEMMA PayStep ==
  ASSUME ConversationInv, NEW l \in Lanes, Owes(loop[l]), UNCHANGED <<header, runs>>,
         Write(Result(l, Head(loop[l].owed))), loop' = [loop EXCEPT ![l].owed = Tail(@)]
  PROVE  ConversationInv'
<1>1. Sane(surface, header, loop, runs)  BY DEF ConversationInv
<1>2. /\ loop \in [Lanes -> Loop] /\ loop[l] \in Loop
      /\ loop[l].at \in {"tools", "recovering"} /\ loop[l].owed # <<>>
  BY <1>1 DEF Sane, Typed, Owes
<1>3. loop[l].owed \in Seq(GivenIds)  BY <1>2, LoopIs
<1> PICK w : w = Tail(loop[l].owed)  OBVIOUS
<1>4. w \in Seq(GivenIds) /\ Range(w) \subseteq Range(loop[l].owed)
  <2> PICK o : o = loop[l].owed  OBVIOUS
  <2>1. o \in Seq(GivenIds) /\ o # <<>> /\ w = Tail(o)  BY <1>2, <1>3
  <2>2. w \in Seq(GivenIds) /\ Len(w) = Len(o) - 1 /\ \A i \in 1 .. Len(w) : w[i] = o[i + 1]
    BY ONLY <2>1
  <2>3. DOMAIN w = 1 .. Len(w) /\ DOMAIN o = 1 .. Len(o) /\ Len(o) \in Nat  BY <2>1, <2>2
  <2>4. \A i \in 1 .. Len(w) : i + 1 \in 1 .. Len(o)  BY <2>2, <2>3
  <2>5. Range(w) \subseteq Range(o)  BY <2>2, <2>3, <2>4 DEF Range
  <2> QED  BY <2>2, <2>5
<1> DEFINE c == [loop[l] EXCEPT !.owed = w]
<1>5. loop' = [loop EXCEPT ![l] = c]  BY <1>2
<1>6. /\ c \in Loop /\ c.run = loop[l].run /\ c.model = loop[l].model /\ c.base = loop[l].base
      /\ c.headed = loop[l].headed /\ c.sent = loop[l].sent /\ c.at = loop[l].at /\ c.owed = w
  <2> PICK d \in Loop : d = loop[l]  BY <1>2
  <2>1. c = [d EXCEPT !.owed = w]  OBVIOUS
  <2> HIDE DEF c
  <2>2. c \in Loop  BY <1>4, <2>1 DEF Loop
  <2>3. /\ c.run = d.run /\ c.model = d.model /\ c.base = d.base /\ c.headed = d.headed
        /\ c.sent = d.sent /\ c.at = d.at /\ c.owed = w
    BY <2>1 DEF Loop
  <2> QED  BY <2>2, <2>3
<1> HIDE DEF c
<1>7. /\ surface' \in Seq(Entry) /\ Recorded(surface') /\ Len(surface) <= Len(surface')
      /\ \A i \in 1 .. Len(surface) : surface'[i] = surface[i]
      /\ \A k \in Len(surface) + 1 .. Len(surface') :
           surface'[k].lane = l /\ \A x \in Answered(surface'[k]) : x \in Range(loop[l].owed)
      /\ \A d : d.run = loop[l].run /\ Range(d.owed) \subseteq Range(loop[l].owed)
                  => Owing(surface', l, d)
  BY ResultWrite
<1>8. Owing(surface', l, c)  BY <1>4, <1>6, <1>7
<1>9. Owes(c) => Owes(loop[l]) /\ Range(c.owed) \subseteq Range(loop[l].owed)  BY <1>4, <1>6
<1>10. c.at \notin {"none", "asking"} /\ loop[l].at # "none"  BY <1>2, <1>6
<1> QED  BY <1>5, <1>6, <1>7, <1>8, <1>9, <1>10, MoveStep

LEMMA AnswerKeeps ==
  ASSUME ConversationInv, NEW l \in Lanes, Answer(l)
  PROVE  ConversationInv'
<1>1. Sane(surface, header, loop, runs)  BY DEF ConversationInv
<1>2. /\ loop \in [Lanes -> Loop] /\ loop[l] \in Loop /\ loop[l].at = "tools"
      /\ UNCHANGED <<header, runs>>
  BY <1>1 DEF Sane, Typed, Answer
<1>3. CASE loop[l].owed # <<>> /\ Write(Result(l, Head(loop[l].owed)))
           /\ loop' = [loop EXCEPT ![l].owed = Tail(@)]
  <2>1. Owes(loop[l])  BY <1>2, <1>3 DEF Owes
  <2> QED  BY <1>2, <1>3, <2>1, PayStep
<1>4. CASE UNCHANGED surface /\ Over(l)
  <2> HIDE DEF Over
  <2> QED  BY <1>2, <1>4, NoWrite, OverStep
<1>5. CASE loop[l].owed = <<>> /\ UNCHANGED surface /\ loop' = [loop EXCEPT ![l].at = "turn"]
  <2> DEFINE c == [loop[l] EXCEPT !.at = "turn"]
  <2>1. loop' = [loop EXCEPT ![l] = c]  BY <1>2, <1>5
  <2>2. /\ c \in Loop /\ c.run = loop[l].run /\ c.model = loop[l].model /\ c.base = loop[l].base
        /\ c.headed = loop[l].headed /\ c.sent = loop[l].sent /\ c.at = "turn"
    <3> PICK d \in Loop : d = loop[l]  BY <1>2
    <3>1. c = [d EXCEPT !.at = "turn"]  OBVIOUS
    <3> HIDE DEF c
    <3>2. c \in Loop  BY <3>1 DEF Loop
    <3>3. /\ c.run = d.run /\ c.model = d.model /\ c.base = d.base /\ c.headed = d.headed
          /\ c.sent = d.sent /\ c.at = "turn"
      BY <3>1 DEF Loop
    <3> QED  BY <3>2, <3>3
  <2> HIDE DEF c
  <2>3. ~Owes(c) /\ Owing(surface', l, c)  BY <2>2 DEF Owes, Owing
  <2>4. /\ surface' \in Seq(Entry) /\ Recorded(surface') /\ Len(surface) <= Len(surface')
        /\ \A i \in 1 .. Len(surface) : surface'[i] = surface[i]
        /\ Len(surface) + 1 .. Len(surface') = {}
    BY <1>5, NoWrite
  <2> QED  BY <1>2, <2>1, <2>2, <2>3, <2>4, MoveStep
<1> QED  BY <1>3, <1>4, <1>5 DEF Answer

LEMMA RecoverKeeps ==
  ASSUME ConversationInv, NEW l \in Lanes, Recover(l)
  PROVE  ConversationInv'
<1>1. loop[l].at = "recovering" /\ UNCHANGED <<header, runs>>  BY DEF Recover
<1>2. CASE loop[l].owed = <<>>
  <2>1. Over(l) /\ surface' = surface  BY <1>2 DEF Recover
  <2> QED  BY <1>1, <2>1, NoWrite, OverStep
<1>3. CASE loop[l].owed # <<>>
  <2>1. Owes(loop[l])  BY <1>1, <1>3 DEF Owes
  <2>2. Write(Result(l, Head(loop[l].owed))) /\ loop' = [loop EXCEPT ![l].owed = Tail(@)]
    BY <1>3 DEF Recover
  <2> QED  BY <1>1, <2>1, <2>2, PayStep
<1> QED  BY <1>2, <1>3

LEMMA EndKeeps ==
  ASSUME ConversationInv, NEW l \in Lanes, End(l)
  PROVE  ConversationInv'
<1>1. Over(l) /\ surface' = surface /\ UNCHANGED <<header, runs>>  BY DEF End
<1> QED  BY <1>1, NoWrite, OverStep

LEMMA CrashKeeps ==
  ASSUME ConversationInv, Crash
  PROVE  ConversationInv'
<1>1. Sane(surface, header, loop, runs)  BY DEF ConversationInv
<1>2. /\ surface' = surface /\ header' = header /\ runs' = runs
      /\ loop' = [l \in Lanes |->
           IF loop[l].at \in {"tools", "recovering"}
           THEN [loop[l] EXCEPT !.at = "recovering", !.sent = NoRequest] ELSE NoLoop]
  BY Zenon DEF Crash
<1>3. loop \in [Lanes -> Loop]  BY <1>1 DEF Sane, Typed
<1>4. ASSUME NEW l \in Lanes
      PROVE  \/ loop'[l] = NoLoop
             \/ /\ loop[l].at \in {"tools", "recovering"} /\ loop'[l] \in Loop
                /\ loop'[l].at = "recovering" /\ loop'[l].sent = NoRequest
                /\ loop'[l].run = loop[l].run /\ loop'[l].model = loop[l].model
                /\ loop'[l].base = loop[l].base /\ loop'[l].headed = loop[l].headed
                /\ loop'[l].owed = loop[l].owed
  <2> SUFFICES ASSUME loop'[l] # NoLoop
               PROVE  /\ loop[l].at \in {"tools", "recovering"} /\ loop'[l] \in Loop
                      /\ loop'[l].at = "recovering" /\ loop'[l].sent = NoRequest
                      /\ loop'[l].run = loop[l].run /\ loop'[l].model = loop[l].model
                      /\ loop'[l].base = loop[l].base /\ loop'[l].headed = loop[l].headed
                      /\ loop'[l].owed = loop[l].owed
    OBVIOUS
  <2> PICK d \in Loop : d = loop[l]  BY <1>3
  <2> PICK n \in Request : n = NoRequest  BY NothingIs
  <2> PICK c : c = loop'[l]  OBVIOUS
  <2>1. loop[l].at \in {"tools", "recovering"} /\ c = [d EXCEPT !.at = "recovering", !.sent = n]
    BY <1>2, Zenon
  <2>2. c \in Loop  BY <2>1 DEF Loop
  <2>3. /\ c.run = d.run /\ c.model = d.model /\ c.base = d.base /\ c.headed = d.headed
        /\ c.sent = n /\ c.at = "recovering" /\ c.owed = d.owed
    BY <2>1 DEF Loop
  <2> QED  BY <2>1, <2>2, <2>3
<1>5. loop' \in [Lanes -> Loop]
  <2>1. \A l \in Lanes : loop'[l] \in Loop  BY <1>4, NothingIs
  <2>2. DOMAIN loop' = Lanes /\ loop' = [l \in Lanes |-> loop'[l]]  BY <1>2, Zenon
  <2> QED  BY <2>1, <2>2
<1>6. Typed(surface, header, loop', runs)  BY <1>1, <1>5 DEF Sane, Typed
<1>7. Exclusive(loop')
  <2>1. \A l \in Lanes : loop'[l].at \in {"none", "recovering"}  BY <1>4, NothingIs
  <2>2. \A l \in Lanes : loop'[l].at = "none" => loop'[l] = NoLoop
    <3> SUFFICES ASSUME NEW l \in Lanes, loop'[l].at = "none" PROVE loop'[l] = NoLoop  OBVIOUS
    <3> QED  BY <1>4
  <2> QED  BY <2>1, <2>2 DEF Exclusive
<1>8. ASSUME NEW l \in Lanes
      PROVE  /\ Owing(surface, l, loop'[l]) /\ Asked(surface, loop', loop'[l])
             /\ Busy(surface, header, runs, l, loop'[l])
  <2>1. loop'[l].sent = NoRequest  BY <1>4, NothingIs
  <2>2. Asked(surface, loop', loop'[l])  BY <2>1 DEF Asked
  <2>3. CASE loop'[l] = NoLoop
    <3>1. ~Owes(loop'[l]) /\ loop'[l].at = "none"  BY <2>3, NothingIs DEF Owes
    <3> QED  BY <2>2, <3>1 DEF Owing, Busy
  <2>4. CASE loop'[l] # NoLoop
    <3>1. /\ loop[l].at \in {"tools", "recovering"} /\ loop'[l].at = "recovering"
          /\ loop'[l].run = loop[l].run /\ loop'[l].model = loop[l].model
          /\ loop'[l].base = loop[l].base /\ loop'[l].headed = loop[l].headed
          /\ loop'[l].owed = loop[l].owed
      BY <1>4, <2>4
    <3>2. Owing(surface, l, loop[l]) /\ Busy(surface, header, runs, l, loop[l])
      BY <1>1 DEF Sane
    <3>3. Owing(surface, l, loop'[l])
      <4>1. Owes(loop'[l]) => Owes(loop[l])  BY <3>1 DEF Owes
      <4> QED  BY <3>1, <3>2, <4>1 DEF Owing
    <3>4. Busy(surface, header, runs, l, loop'[l])  BY <2>1, <3>1, <3>2 DEF Busy
    <3> QED  BY <2>2, <3>3, <3>4
  <2> QED  BY <2>3, <2>4
<1>9. Sane(surface, header, loop', runs)  BY <1>1, <1>6, <1>7, <1>8 DEF Sane
<1> QED  BY <1>2, <1>9, Zenon DEF ConversationInv

LEMMA ConversationBegins ==
  ASSUME ConversationInit
  PROVE  ConversationInv
<1>1. surface = <<>> /\ header = NoHeader /\ loop = [l \in Lanes |-> NoLoop] /\ runs = 0
  BY DEF ConversationInit
<1>2. Typed(surface, header, loop, runs)  BY <1>1, NothingIs DEF Typed
<1>3. Recorded(surface)
  <2>1. 1 .. Len(surface) = {}  BY <1>1
  <2> QED  BY <1>1, <2>1 DEF Recorded, Single, Made
<1>4. \A l \in Lanes : loop[l] = NoLoop /\ loop[l].at = "none" /\ ~Owes(loop[l]) /\ loop[l].sent = NoRequest
  BY <1>1, NothingIs DEF Owes
<1>5. Exclusive(loop)  BY <1>4 DEF Exclusive
<1> QED  BY <1>2, <1>3, <1>4, <1>5 DEF ConversationInv, Sane, Owing, Asked, Busy

LEMMA ConversationStep ==
  ASSUME ConversationInv, [ConversationNext]_conversationVars
  PROVE  ConversationInv'
<1>1. CASE UNCHANGED conversationVars
  BY <1>1 DEF conversationVars, ConversationInv
<1>2. ASSUME NEW l \in Lanes, NEW model \in RunModels, NEW severed \in BOOLEAN, Start(l, model, severed)
      PROVE  ConversationInv'
  BY <1>2, StartKeeps
<1>3. ASSUME NEW l \in Lanes, Build(l) PROVE ConversationInv'  BY <1>3, BuildKeeps
<1>4. ASSUME NEW l \in Lanes, FollowUp(l) PROVE ConversationInv'  BY <1>4, FollowUpKeeps
<1>5. ASSUME NEW l \in Lanes, Answer(l) PROVE ConversationInv'  BY <1>5, AnswerKeeps
<1>6. ASSUME NEW l \in Lanes, End(l) PROVE ConversationInv'  BY <1>6, EndKeeps
<1>7. ASSUME NEW l \in Lanes, Recover(l) PROVE ConversationInv'  BY <1>7, RecoverKeeps
<1>8. ASSUME NEW l \in Lanes, NEW content \in Contents(loop[l].model), NEW stop \in Stops,
             Respond(l, content, stop)
      PROVE  ConversationInv'
  BY <1>8, RespondKeeps
<1>9. ASSUME Crash PROVE ConversationInv'  BY <1>9, CrashKeeps
<1> QED  BY <1>1, <1>2, <1>3, <1>4, <1>5, <1>6, <1>7, <1>8, <1>9 DEF ConversationNext

\* The record and the loops stay sane: an entry holds calls or one result, a result is written
\* once and after its call with nothing of its lane in between but other results of the same
\* response, the calls a lane owes are its last response's, and what a lane asked last is the
\* fold of the record as it was (run_loop.ts:515, request_builder.ts:94).
THEOREM ConversationStaysSane == ConversationSpec => []ConversationInv
BY ConversationBegins, ConversationStep, PTL DEF ConversationSpec

-----------------------------------------------------------------------------
(* What is promised of a request.                                          *)

LEMMA IdsOfOne ==
  ASSUME NEW e
  PROVE  Ids(<<e>>, "use") = Called(e) /\ Ids(<<e>>, "result") = Answered(e)
<1>1. Range(<<e>>) = {e}  BY DEF Range
<1>2. UNION {Range(d.blocks) : d \in {e}} = Range(e.blocks)  OBVIOUS
<1> QED  BY <1>1, <1>2 DEF Ids, Called, Answered

LEMMA PairedIs ==
  ASSUME NEW T, NEW s \in Seq(T)
  PROVE  \A x : x \in Paired(s) <=> /\ \E i \in 1 .. Len(s) : x \in Called(s[i])
                                    /\ \E k \in 1 .. Len(s) : x \in Answered(s[k])
<1>1. \A x : x \in Ids(s, "use") <=> \E i \in 1 .. Len(s) : \E b \in Range(s[i].blocks) : b.kind = "use" /\ b.id = x
  BY InIds
<1>2. \A x : x \in Ids(s, "result") <=> \E i \in 1 .. Len(s) : \E b \in Range(s[i].blocks) : b.kind = "result" /\ b.id = x
  BY InIds
<1> QED  BY <1>1, <1>2 DEF Paired, Called, Answered

LEMMA OnceIs ==
  ASSUME surface \in Seq(Entry)
  PROVE  ~NarratedTwice => Once(surface)
<1>1. DOMAIN surface = 1 .. Len(surface)  OBVIOUS
<1> SUFFICES ASSUME ~NarratedTwice, NEW i \in 1 .. Len(surface), NEW k \in 1 .. Len(surface), i # k
             PROVE  Called(surface[i]) \cap Called(surface[k]) = {}
  BY DEF Once
<1>2. /\ Ids(<<surface[i]>>, "use") = Called(surface[i])
      /\ Ids(<<surface[k]>>, "use") = Called(surface[k])
  BY IdsOfOne
<1>3. i < k \/ k < i  OBVIOUS
<1>4. \A h, j \in 1 .. Len(surface) :
         h < j => Ids(<<surface[h]>>, "use") \cap Ids(<<surface[j]>>, "use") = {}
  BY <1>1, Zenon DEF NarratedTwice
<1>5. i < k => Called(surface[i]) \cap Called(surface[k]) = {}  BY <1>2, <1>4
<1>6. k < i => Called(surface[k]) \cap Called(surface[i]) = {}  BY <1>2, <1>4
<1> QED  BY <1>3, <1>5, <1>6

LEMMA UndividedIs ==
  ASSUME surface \in Seq(Entry)
  PROVE  ~Interleaved => Undivided(surface)
<1>1. DOMAIN surface = 1 .. Len(surface)  OBVIOUS
<1> SUFFICES ASSUME ~Interleaved, NEW i \in 1 .. Len(surface), NEW j \in 1 .. Len(surface),
                    NEW k \in 1 .. Len(surface), i < j, j < k, surface[j].lane # surface[i].lane,
                    NEW x \in Called(surface[i]), x \in Answered(surface[k])
             PROVE  FALSE
  BY DEF Undivided
<1>2. Ids(<<surface[i]>>, "use") = Called(surface[i])  BY IdsOfOne
<1>3. Ids(<<surface[k]>>, "result") = Answered(surface[k])  BY IdsOfOne
<1>4. x \in Paired(surface)  BY PairedIs
<1> QED  BY <1>1, <1>2, <1>3, <1>4 DEF Interleaved

\* A stretch of the record that opens with a prompt is in good order.
LEMMA WindowIsOrderly ==
  ASSUME NEW s \in Seq(Entry), Recorded(s), Once(s), Undivided(s), NEW b \in Nat \ {0},
         NEW n \in b .. Len(s), IsPrompt(s[b]), NEW w, w = SubSeq(s, b, n)
  PROVE  w \in Seq(Entry) /\ Orderly(w)
<1>1. /\ w \in Seq(Entry) /\ Len(w) = n - b + 1 /\ Len(s) \in Nat
      /\ \A m \in 1 .. n - b + 1 : w[m] = s[b + m - 1]
  OBVIOUS
<1>0. s \in Seq(Entry) /\ Recorded(s) /\ Once(s) /\ Len(w) \in Nat  BY <1>1
<1>2. \A m \in 1 .. Len(w) : b + m - 1 \in 1 .. Len(s) /\ w[m] = s[b + m - 1]  BY <1>1
<1>3. \A x : x \in Paired(w) <=> /\ \E i \in 1 .. Len(w) : x \in Called(w[i])
                                 /\ \E k \in 1 .. Len(w) : x \in Answered(w[k])
  BY <1>1, PairedIs
<1>4. \A m : UsesAt(w, m) = Paired(w) \cap Called(w[m]) /\ ResultsAt(w, m) = Paired(w) \cap Answered(w[m])
  BY DEF UsesAt, ResultsAt, Called, Answered
<1>5. \A m \in 1 .. Len(w) : Sound(w[m])  BY <1>2 DEF Recorded
<1>6. w # <<>> /\ IsPrompt(w[1])
  <2>1. 1 \in 1 .. Len(w) /\ b + 1 - 1 = b  BY <1>1
  <2>2. w[1] = s[b + 1 - 1]  BY <1>2, <2>1
  <2> QED  BY <1>1, <2>1, <2>2
<1>7. ASSUME NEW k \in 1 .. Len(w), NEW x \in Answered(w[k]), NEW i \in 1 .. Len(w), x \in Called(w[i])
      PROVE  /\ i \in 1 .. k - 1 /\ Answered(w[k]) \subseteq Called(w[i])
             /\ \A j \in i + 1 .. k : w[j].lane = w[i].lane =>
                  Answered(w[j]) # {} /\ Answered(w[j]) \subseteq Called(w[i])
             /\ w[i].run = w[k].run /\ w[k].key = x /\ x # NoId
  <2> PICK p \in 1 .. Len(s) : p = b + k - 1 /\ w[k] = s[p]  BY <1>2
  <2> PICK q \in 1 .. Len(s) : q = b + i - 1 /\ w[i] = s[q]  BY <1>2
  <2>1. /\ q \in 1 .. p - 1 /\ Answered(s[p]) \subseteq Called(s[q]) /\ Follows(s, q, p)
        /\ s[q].run = s[p].run /\ s[q].lane = s[p].lane /\ s[p].key = x /\ x # NoId
    <3>1. x \in Answered(s[p]) /\ x \in Called(s[q])  BY <1>7, Zenon
    <3>2. PICK j \in 1 .. p - 1 : /\ Answered(s[p]) \subseteq Called(s[j]) /\ Follows(s, j, p)
                                  /\ s[j].run = s[p].run /\ s[j].lane = s[p].lane
      BY ONLY <1>0, <3>1 DEF Recorded, Made
    <3>3. j \in 1 .. Len(s)  OBVIOUS
    <3>4. q = j  BY ONLY <1>0, <3>1, <3>2, <3>3 DEF Once
    <3>5. Answered(s[p]) = {s[p].key} /\ s[p].key # NoId  BY ONLY <1>0, <3>1 DEF Recorded, Sound
    <3> QED  BY ONLY <3>1, <3>2, <3>4, <3>5
  <2>2. i \in 1 .. k - 1  BY <2>1, SMTT(30)
  <2>3. ASSUME NEW j \in i + 1 .. k, w[j].lane = w[i].lane
        PROVE  Answered(w[j]) # {} /\ Answered(w[j]) \subseteq Called(w[i])
    <3>1. j \in 1 .. Len(w)  BY ONLY <1>0
    <3>2. PICK h \in 1 .. Len(s) : h = b + j - 1 /\ w[j] = s[h]  BY <1>2, <3>1
    <3>3. h \in q + 1 .. p  BY <3>2
    <3> QED  BY <2>1, <2>3, <3>2, <3>3 DEF Follows
  <2> QED  BY <2>1, <2>2, <2>3
<1>8. ASSUME NEW i \in 1 .. Len(w), NEW k \in 1 .. Len(w), i # k, w[i].run = w[k].run, w[i].key = w[k].key
      PROVE  w[i].key = NoId
  <2> PICK p \in 1 .. Len(s) : p = b + k - 1 /\ w[k] = s[p]  BY <1>2
  <2> PICK q \in 1 .. Len(s) : q = b + i - 1 /\ w[i] = s[q]  BY <1>2
  <2>1. p # q  BY <1>8
  <2> QED  BY <1>8, <2>1 DEF Recorded, Single
<1>9. ASSUME NEW i \in 1 .. Len(w), NEW k \in 1 .. Len(w), i # k
      PROVE  Called(w[i]) \cap Called(w[k]) = {}
  <2> PICK p \in 1 .. Len(s) : p = b + k - 1 /\ w[k] = s[p]  BY <1>2
  <2> PICK q \in 1 .. Len(s) : q = b + i - 1 /\ w[i] = s[q]  BY <1>2
  <2>1. p # q  BY <1>9
  <2> QED  BY <2>1 DEF Once
<1>10. ASSUME NEW i \in 1 .. Len(w), NEW j \in 1 .. Len(w), NEW k \in 1 .. Len(w), i < j, j < k,
              w[j].lane # w[i].lane
       PROVE  Called(w[i]) \cap Answered(w[k]) = {}
  <2> PICK p \in 1 .. Len(s) : p = b + k - 1 /\ w[k] = s[p]  BY <1>2
  <2> PICK q \in 1 .. Len(s) : q = b + i - 1 /\ w[i] = s[q]  BY <1>2
  <2> PICK h \in 1 .. Len(s) : h = b + j - 1 /\ w[j] = s[h]  BY <1>2
  <2>1. q < h /\ h < p  BY <1>10
  <2>2. s[h].lane # s[q].lane  BY <1>10, Zenon
  <2>3. Called(s[q]) \cap Answered(s[p]) = {}  BY <2>1, <2>2 DEF Undivided
  <2> QED  BY <2>3
<1>11. ASSUME NEW m \in 1 .. Len(w), NEW x \in ResultsAt(w, m) PROVE x \in Due(w, m - 1)
  <2>1. x \in Paired(w) /\ x \in Answered(w[m])  BY <1>4, SMTT(30)
  <2>2. PICK i \in 1 .. Len(w) : x \in Called(w[i])  BY <1>3, <2>1
  <2>3. i \in 1 .. m - 1 /\ w[i].run = w[m].run /\ w[m].key = x /\ x # NoId  BY ONLY <1>7, <2>1, <2>2
  <2>4. x \in UsesAt(w, i)  BY <1>4, <2>1, <2>2
  <2>5. ASSUME NEW k \in 1 .. m - 1, x \in ResultsAt(w, k) PROVE FALSE
    <3>1. k \in 1 .. Len(w) /\ k # m  OBVIOUS
    <3>2. x \in Answered(w[k])  BY <1>4, <2>5
    <3>3. w[i].run = w[k].run /\ w[k].key = x  BY ONLY <1>7, <2>2, <3>1, <3>2
    <3> QED  BY <1>8, <2>3, <3>1, <3>3
  <2> QED  BY <2>1, <2>3, <2>4, <2>5 DEF Due
<1>12. ASSUME NEW m \in 1 .. Len(w), NEW x \in Due(w, m - 1) PROVE ResultsAt(w, m) # {}
  <2>1. /\ x \in Paired(w) /\ \A k \in 1 .. m - 1 : x \notin ResultsAt(w, k)
        /\ \E i \in 1 .. m - 1 : x \in UsesAt(w, i)
    BY <1>12 DEF Due
  <2>2. PICK i \in 1 .. m - 1 : x \in Called(w[i])  BY <1>4, <2>1, ZenonT(60)
  <2>3. PICK k \in 1 .. Len(w) : x \in Answered(w[k])  BY <1>3, <2>1
  <2>4. ~(k \in 1 .. m - 1)  BY <1>4, <2>1, <2>3
  <2>5. i \in 1 .. Len(w) /\ i < m /\ m <= k /\ m \in i + 1 .. k  BY <2>4
  <2>6. CASE k = m  BY <1>4, <2>1, <2>3, <2>6, ZenonT(60)
  <2>7. CASE k # m
    <3>1. w[m].lane = w[i].lane
      <4>1. m < k  BY <2>5, <2>7
      <4> QED  BY <1>10, <2>2, <2>3, <2>5, <4>1
    <3>2. Answered(w[m]) # {} /\ Answered(w[m]) \subseteq Called(w[i])
      BY <1>7, <2>2, <2>3, <2>5, <3>1
    <3>3. PICK y \in Answered(w[m]) : y \in Called(w[i])  BY <3>2
    <3>4. y \in Paired(w)  BY <1>3, <2>5, <3>3
    <3> QED  BY <1>4, <3>3, <3>4
  <2> QED  BY <2>6, <2>7
<1>13. ASSUME NEW m \in 1 .. Len(w)
       PROVE  /\ \A c \in Range(w[m].blocks) : c.id = NoId <=> c.kind \notin {"use", "result"}
              /\ UsesAt(w, m) # {} => w[m].role = "assistant"
              /\ ResultsAt(w, m) # {} => w[m].role = "user"
              /\ ResultsAt(w, m) \subseteq Due(w, m - 1)
              /\ Due(w, m - 1) # {} => ResultsAt(w, m) # {}
              /\ \A i \in 1 .. m - 1 : UsesAt(w, i) \cap UsesAt(w, m) = {}
  <2>1. Sound(w[m])  BY <1>5
  <2>2. \A i \in 1 .. m - 1 : i \in 1 .. Len(w) /\ i # m  OBVIOUS
  <2>3. \A i \in 1 .. m - 1 : UsesAt(w, i) \cap UsesAt(w, m) = {}
    <3> SUFFICES ASSUME NEW i \in 1 .. m - 1 PROVE UsesAt(w, i) \cap UsesAt(w, m) = {}  OBVIOUS
    <3>1. Called(w[i]) \cap Called(w[m]) = {}  BY <1>9, <2>2, Zenon
    <3> QED  BY <1>4, <3>1
  <2>4. /\ UsesAt(w, m) # {} => Called(w[m]) # {}
        /\ ResultsAt(w, m) # {} => Answered(w[m]) # {}
    BY <1>4
  <2> QED  BY <1>11, <1>12, <2>1, <2>3, <2>4 DEF Sound
<1> QED  BY <1>1, <1>6, <1>13 DEF Orderly, IsPrompt

LEMMA AskedIsAccepted ==
  ASSUME ConversationInv, NEW l \in Lanes, loop[l].at = "asking", ~Interleaved, ~NarratedTwice
  PROVE  /\ Accepted(Translate(loop[l].sent.messages, loop[l].model))
         /\ loop[l].model \in RunModels
<1>1. Sane(surface, header, loop, runs)  BY DEF ConversationInv
<1>2. surface \in Seq(Entry) /\ Recorded(surface) /\ loop[l] \in Loop  BY <1>1 DEF Sane, Typed
<1>3. loop[l].base \in Nat \ {0}  BY <1>2, LoopIs
<1>4. /\ loop[l].model \in RunModels /\ IsPrompt(surface[loop[l].base])
      /\ loop[l].asked.at \in loop[l].base .. Len(surface)
      /\ loop[l].sent.messages = FoldSurface(SubSeq(surface, loop[l].base, loop[l].asked.at))
  BY <1>1 DEF Sane, Busy, Asking
<1>5. Once(surface) /\ Undivided(surface)  BY <1>2, OnceIs, UndividedIs
<1> PICK w : w = SubSeq(surface, loop[l].base, loop[l].asked.at)  OBVIOUS
<1>6. w \in Seq(Entry) /\ Orderly(w)  BY <1>2, <1>3, <1>4, <1>5, WindowIsOrderly
<1>7. InOrder(FoldSurface(w), {})  BY <1>6, FoldInOrder
<1>8. Accepted(Translate(FoldSurface(w), loop[l].model))  BY <1>7, OrderIsAccepted
<1> QED  BY <1>4, <1>8

\* A request can be rebuilt from the record (request_builder.ts:14): what was folded when it left
\* is the record up to the boundary, and the last header of the record is the run's own.
THEOREM RequestsAreRebuilt == ConversationSpec => []RequestIsRebuilt
<1>1. ConversationInv => RequestIsRebuilt
  <2> SUFFICES ASSUME ConversationInv, NEW l \in Lanes, loop[l].at = "asking", Undisturbed(l)
               PROVE  Reconstruct(loop[l].asked)
                        = [model |-> loop[l].model, messages |-> loop[l].sent.messages]
    BY DEF RequestIsRebuilt
  <2>1. /\ loop[l].sent.messages = FoldSurface(SubSeq(surface, loop[l].base, loop[l].asked.at))
        /\ loop[l].asked.snapshot.lane \in Lanes
        /\ loop[l].asked.snapshot.lane = l => loop[l].asked.snapshot.model = loop[l].model
    BY DEF ConversationInv, Sane, Busy, Asking
  <2>2. loop[l].base = 1 /\ loop[l].asked.snapshot.lane = l  BY <2>1 DEF Undisturbed
  <2> QED  BY <2>1, <2>2 DEF Reconstruct
<1> QED  BY <1>1, ConversationStaysSane, PTL

LEMMA WindowIs ==
  ASSUME NEW s \in Seq(Entry), NEW b \in 1 .. Len(s), NEW n \in b .. Len(s), NEW w, w = SubSeq(s, b, n)
  PROVE  /\ w \in Seq(Entry) /\ Len(w) = n - b + 1 /\ Len(w) \in Nat /\ Len(s) \in Nat
         /\ \A m \in 1 .. Len(w) : b + m - 1 \in 1 .. Len(s) /\ w[m] = s[b + m - 1]
<1>1. Len(s) \in Nat /\ n - b + 1 \in Nat  OBVIOUS
<1>2. w \in Seq(Entry) /\ Len(w) = n - b + 1 /\ \A m \in 1 .. n - b + 1 : w[m] = s[b + m - 1]
  OBVIOUS
<1>3. \A m \in 1 .. n - b + 1 : b + m - 1 \in 1 .. Len(s)  BY ONLY <1>1
<1> QED  BY <1>1, <1>2, <1>3

\* A request that extends another is built by the one step that builds requests.
LEMMA ExtendedByBuild ==
  ASSUME ConversationInv, [ConversationNext]_conversationVars, NEW l \in Lanes, Extends(l)
  PROVE  Build(l)
<1>1. /\ loop \in [Lanes -> Loop] /\ loop'[l].at = "asking" /\ loop'[l].sent # loop[l].sent
  BY DEF ConversationInv, Sane, Typed, Extends
<1>2. CASE UNCHANGED conversationVars  BY <1>1, <1>2 DEF conversationVars
<1>3. ASSUME NEW m \in Lanes, NEW model \in RunModels, NEW severed \in BOOLEAN, Start(m, model, severed)
      PROVE  FALSE
  <2>1. loop' = [loop EXCEPT ![m] = loop'[m]] /\ loop'[m].at = "turn"  BY <1>1, <1>3 DEF Start, NoLoop
  <2> QED  BY <1>1, <2>1
<1>4. ASSUME NEW m \in Lanes, Build(m), m # l PROVE FALSE
  <2>1. loop' = [loop EXCEPT ![m] = loop'[m]]  BY <1>1, <1>4 DEF Build
  <2> QED  BY <1>1, <1>4, <2>1
<1>5. ASSUME NEW m \in Lanes, Over(m) PROVE FALSE
  <2>1. loop' = [loop EXCEPT ![m] = loop'[m]] /\ loop'[m].at = "none"
    BY <1>1, <1>5, NothingIs DEF Over
  <2> QED  BY <1>1, <2>1
<1>6. ASSUME NEW m \in Lanes, NEW next, next # "asking", loop' = [loop EXCEPT ![m].at = next] PROVE FALSE
  <2>1. CASE m = l
    <3>1. loop'[l] = [loop[l] EXCEPT !.at = next]  BY <1>1, <1>6, <2>1
    <3>2. PICK d \in Loop : d = loop[l]  BY <1>1
    <3>3. [d EXCEPT !.at = next].at = next  BY DEF Loop
    <3> QED  BY <1>1, <1>6, <3>1, <3>2, <3>3
  <2>2. CASE m # l  BY <1>1, <1>6, <2>2
  <2> QED  BY <2>1, <2>2
<1>7. ASSUME NEW m \in Lanes, loop' = [loop EXCEPT ![m].owed = Tail(@)] PROVE FALSE
  <2>1. CASE m = l
    <3>1. loop'[l] = [loop[l] EXCEPT !.owed = Tail(loop[l].owed)]  BY <1>1, <1>7, <2>1
    <3>2. PICK d \in Loop : d = loop[l]  BY <1>1
    <3>3. \A w : [d EXCEPT !.owed = w].sent = d.sent  BY DEF Loop
    <3> QED  BY <1>1, <3>1, <3>2, <3>3
  <2>2. CASE m # l  BY <1>1, <1>7, <2>2
  <2> QED  BY <2>1, <2>2
<1>8. ASSUME NEW m \in Lanes, FollowUp(m) PROVE FALSE
  <2> HIDE DEF Over
  <2> QED  BY <1>5, <1>6, <1>8 DEF FollowUp
<1>9. ASSUME NEW m \in Lanes, Answer(m) PROVE FALSE
  <2> HIDE DEF Over
  <2> QED  BY <1>5, <1>6, <1>7, <1>9 DEF Answer
<1>10. ASSUME NEW m \in Lanes, End(m) PROVE FALSE
  <2> HIDE DEF Over
  <2> QED  BY <1>5, <1>10 DEF End
<1>11. ASSUME NEW m \in Lanes, Recover(m) PROVE FALSE
  <2> HIDE DEF Over
  <2> QED  BY <1>5, <1>7, <1>11 DEF Recover
<1>12. ASSUME NEW m \in Lanes, NEW content \in Contents(loop[m].model), NEW stop \in Stops,
              Respond(m, content, stop)
       PROVE  FALSE
  <2> DEFINE action == Decide(stop, loop[m].resumes)
             next == CASE action = "dispatch" -> "tools" [] action = "settle" -> "answered"
                     [] OTHER -> "turn"
  <2>1. CASE action = "fail"
    <3>1. Over(m)  BY <1>12, <2>1 DEF Respond
    <3> QED  BY <1>5, <3>1
  <2>2. CASE action # "fail"
    <3>1. next # "asking"  OBVIOUS
    <3>2. /\ loop' = [loop EXCEPT ![m] = loop'[m]]
          /\ \E resumes, owed : loop'[m] = [loop[m] EXCEPT !.at = next, !.asked = NoBoundary,
                                              !.resumes = resumes, !.owed = owed]
      <4> DEFINE resumes == IF action = "resume" THEN loop[m].resumes + 1 ELSE 0
                 owed == IF action = "dispatch" THEN Calls(Blocks(loop[m].model, content)) ELSE <<>>
                 c == [loop[m] EXCEPT !.at = next, !.asked = NoBoundary, !.resumes = resumes,
                                      !.owed = owed]
      <4>1. loop' = [loop EXCEPT ![m] = c]  BY <1>1, <1>12, <2>2 DEF Respond
      <4> HIDE DEF resumes, owed, action, next
      <4>2. loop'[m] = c  BY <1>1, <4>1
      <4>3. loop' = [loop EXCEPT ![m] = loop'[m]]
        <5> HIDE DEF c
        <5> QED  BY <4>1, <4>2
      <4> QED  BY <4>2, <4>3, Zenon
    <3> HIDE DEF next
    <3>3. PICK d \in Loop : d = loop[m]  BY <1>1
    <3>4. \A resumes, owed, b : [d EXCEPT !.at = next, !.asked = b, !.resumes = resumes, !.owed = owed].at = next
      BY DEF Loop
    <3>5. loop'[m].at = next  BY <3>2, <3>3, <3>4
    <3> QED  BY <1>1, <3>1, <3>2, <3>5
  <2> QED  BY <2>1, <2>2
<1>13. ASSUME Crash PROVE FALSE
  <2>1. loop'[l] = NoLoop \/ loop'[l] = [loop[l] EXCEPT !.at = "recovering", !.sent = NoRequest]
    BY <1>13, Zenon DEF Crash
  <2>2. PICK d \in Loop : d = loop[l]  BY <1>1
  <2>3. \A n : [d EXCEPT !.at = "recovering", !.sent = n].at = "recovering"  BY DEF Loop
  <2> QED  BY <1>1, <2>1, <2>2, <2>3, NothingIs
<1> QED
  BY <1>2, <1>3, <1>4, <1>8, <1>9, <1>10, <1>11, <1>12, <1>13 DEF ConversationNext

\* What is in the new request and what was in the one before.
LEMMA ExtendingIs ==
  ASSUME ConversationInv, [ConversationNext]_conversationVars, NEW l \in Lanes, Extends(l)
  PROVE  /\ surface \in Seq(Entry) /\ loop[l].base \in 1 .. Len(surface) /\ Recorded(surface)
         /\ loop'[l].sent.messages = FoldSurface(SubSeq(surface, loop[l].base, Len(surface)))
         /\ \/ loop[l].sent = NoRequest
            \/ \E n \in loop[l].base .. Len(surface) :
                 /\ loop[l].sent.messages = FoldSurface(SubSeq(surface, loop[l].base, n))
                 /\ Apart(surface, loop, n)
<1>1. Build(l)  BY ExtendedByBuild
<1>2. /\ surface \in Seq(Entry) /\ loop \in [Lanes -> Loop] /\ Recorded(surface)
      /\ Asked(surface, loop, loop[l]) /\ Busy(surface, header, runs, l, loop[l])
      /\ loop[l].at = "turn" /\ loop[l].sent.alone
  BY <1>1 DEF ConversationInv, Sane, Typed, Build, Extends
<1>3. loop[l].base \in Nat \ {0} /\ Len(surface) \in Nat  BY <1>2, LoopIs
<1>4. loop[l].base \in 1 .. Len(surface)  BY <1>2, <1>3 DEF Busy
<1>5. loop'[l].sent.messages = FoldSurface(SurfaceFrom(loop[l].base))
  <2> DEFINE M == FoldSurface(SurfaceFrom(loop[l].base))
             alone == \A m \in Lanes \ {l} : loop[m].at # "tools"
  <2> PICK d \in Loop : d = loop[l]  BY <1>2
  <2>1. loop'[l] = [d EXCEPT !.at = "asking", !.headed = TRUE,
                             !.asked = [at |-> Len(surface), snapshot |-> header'],
                             !.sent = [messages |-> M, alone |-> alone]]
    BY <1>1, <1>2 DEF Build
  <2> HIDE DEF M, alone
  <2>2. \A a, x : [d EXCEPT !.at = "asking", !.headed = TRUE, !.asked = a, !.sent = x].sent = x
    BY DEF Loop
  <2>3. loop'[l].sent = [messages |-> M, alone |-> alone]  BY <2>1, <2>2
  <2> QED  BY <2>3 DEF M
<1> QED  BY <1>2, <1>4, <1>5 DEF Asked, SurfaceFrom

\* A run's requests extend one another (request_builder.ts:16): a request folds the record from
\* where the one before did and further, and as nothing that was under way is written after it and
\* no id is called twice, what of its entries was kept is kept again.
THEOREM PrefixesAreStable == ConversationSpec => PrefixIsStable
<1>1. ASSUME ConversationInv, [ConversationNext]_conversationVars, NEW l \in Lanes, Extends(l),
             ~NarratedTwice
      PROVE  IsPrefix(Flat(loop[l].sent.messages), Flat(loop'[l].sent.messages))
  <2> PICK b \in 1 .. Len(surface) : b = loop[l].base  BY <1>1, ExtendingIs
  <2> PICK t : t = SubSeq(surface, b, Len(surface))  OBVIOUS
  <2>1. /\ surface \in Seq(Entry) /\ Recorded(surface) /\ Len(surface) \in Nat
        /\ loop'[l].sent.messages = FoldSurface(t)
    BY <1>1, ExtendingIs
  <2>2. Once(surface)  BY <1>1, <2>1, OnceIs
  <2>3. /\ t \in Seq(Entry) /\ Len(t) = Len(surface) - b + 1
        /\ \A m \in 1 .. Len(t) : b + m - 1 \in 1 .. Len(surface) /\ t[m] = surface[b + m - 1]
    <3>1. Len(surface) \in b .. Len(surface)  BY <2>1
    <3> QED  BY <2>1, <3>1, WindowIs, SMTT(30)
  <2>4. CASE loop[l].sent = NoRequest
    <3>1. loop[l].sent.messages = <<>>  BY <2>4 DEF NoRequest
    <3>2. Flat(<<>>) = <<>> /\ Flat(FoldSurface(t)) \in Seq(Block)  BY <2>3, FlatEmpty, FoldIs
    <3>3. \A x \in Seq(Block) : IsPrefix(<<>>, x)  BY DEF IsPrefix
    <3> QED  BY <2>1, <3>1, <3>2, <3>3
  <2>5. CASE loop[l].sent # NoRequest
    <3>1. PICK n \in b .. Len(surface) :
            /\ loop[l].sent.messages = FoldSurface(SubSeq(surface, b, n)) /\ Apart(surface, loop, n)
      BY <1>1, <2>5, ExtendingIs
    <3>0. PICK s : s = SubSeq(surface, b, n)  OBVIOUS
    <3>2. /\ s \in Seq(Entry) /\ Len(s) = n - b + 1
          /\ \A m \in 1 .. Len(s) : b + m - 1 \in 1 .. Len(surface) /\ s[m] = surface[b + m - 1]
      BY ONLY <2>1, <3>0, WindowIs, SMTT(30)
    <3>3. Len(s) <= Len(t) /\ \A m \in 1 .. Len(s) : m \in 1 .. Len(t) /\ s[m] = t[m]
      BY ONLY <2>1, <2>3, <3>2
    <3>4. Paired(s) \subseteq Paired(t)  BY <2>3, <3>2, <3>3, PairedGrows
    <3>5. \A x : x \in Paired(s) <=> /\ \E i \in 1 .. Len(s) : x \in Called(s[i])
                                     /\ \E k \in 1 .. Len(s) : x \in Answered(s[k])
      BY <3>2, PairedIs
    <3>6. \A x : x \in Paired(t) <=> /\ \E i \in 1 .. Len(t) : x \in Called(t[i])
                                     /\ \E k \in 1 .. Len(t) : x \in Answered(t[k])
      BY <2>3, PairedIs
    <3>7. \A k \in 1 .. Len(t) : \E q \in 1 .. Len(surface) :
            q = b + k - 1 /\ t[k] = surface[q] /\ (q <= n => k \in 1 .. Len(s))
      <4> SUFFICES ASSUME NEW k \in 1 .. Len(t)
                   PROVE  \E q \in 1 .. Len(surface) :
                            q = b + k - 1 /\ t[k] = surface[q] /\ (q <= n => k \in 1 .. Len(s))
        OBVIOUS
      <4>1. b + k - 1 \in 1 .. Len(surface) /\ t[k] = surface[b + k - 1]  BY <2>3
      <4>2. b + k - 1 <= n => k \in 1 .. Len(s)
        <5>1. Len(t) \in Nat  BY <2>3, SMTT(30)
        <5> QED  BY ONLY <2>1, <3>2, <5>1
      <4> QED  BY <4>1, <4>2
    <3>8. ASSUME NEW m \in 1 .. Len(s), NEW x \in Called(s[m]), x \in Paired(t) PROVE x \in Paired(s)
      <4>1. PICK k \in 1 .. Len(t) : x \in Answered(t[k])  BY <3>6, <3>8
      <4>2. PICK q \in 1 .. Len(surface) :
              q = b + k - 1 /\ t[k] = surface[q] /\ (q <= n => k \in 1 .. Len(s))
        BY <3>7
      <4>3. CASE q <= n  BY <3>3, <3>5, <3>8, <4>1, <4>2, <4>3
      <4>4. CASE q > n
        <5>1. q \in n + 1 .. Len(surface) /\ x \in Answered(surface[q])  BY <2>1, <4>1, <4>2, <4>4
        <5>2. PICK i \in n + 1 .. q - 1 : x \in Called(surface[i])  BY <3>1, <5>1 DEF Apart
        <5>3. PICK p \in 1 .. n : p = b + m - 1 /\ x \in Called(surface[p])
          <6>1. b + m - 1 \in 1 .. n  BY ONLY <2>1, <3>2, SMTT(30)
          <6> QED  BY <3>2, <3>8, <6>1
        <5>4. p \in 1 .. Len(surface) /\ i \in 1 .. Len(surface) /\ p # i  BY <2>1
        <5> QED  BY <2>2, <5>2, <5>3, <5>4 DEF Once
      <4> QED  BY <4>3, <4>4
    <3>9. ASSUME NEW m \in 1 .. Len(s), NEW x \in Answered(s[m]), x \in Paired(t) PROVE x \in Paired(s)
      <4>1. PICK k \in 1 .. Len(t) : x \in Called(t[k])  BY <3>6, <3>9
      <4>2. PICK q \in 1 .. Len(surface) :
              q = b + k - 1 /\ t[k] = surface[q] /\ (q <= n => k \in 1 .. Len(s))
        BY <3>7
      <4>3. PICK p \in 1 .. Len(surface) : p <= n /\ p = b + m - 1 /\ x \in Answered(surface[p])
        <5>1. b + m - 1 <= n  BY ONLY <2>1, <3>2, SMTT(30)
        <5> QED  BY <3>2, <3>9, <5>1
      <4>4. PICK i \in 1 .. p - 1 : Answered(surface[p]) \subseteq Called(surface[i])
        BY <2>1, <4>3 DEF Recorded, Made
      <4>5. i \in 1 .. Len(surface) /\ x \in Called(surface[i]) /\ x \in Called(surface[q])
        BY <4>1, <4>2, <4>3, <4>4, SMTT(30)
      <4>6. i = q  BY <2>2, <4>5 DEF Once
      <4>7. k \in 1 .. Len(s)  BY <4>2, <4>3, <4>6
      <4> QED  BY <3>3, <3>5, <3>9, <4>1, <4>7
    <3>10. ASSUME NEW m \in 1 .. Len(s)
           PROVE  s[m].role = t[m].role /\ Kept(s[m], Paired(s)) = Kept(t[m], Paired(t))
      <4>1. s[m] = t[m]  BY <3>3
      <4>2. Sound(s[m])
        <5>1. b + m - 1 \in 1 .. Len(surface)  BY <2>1, <3>2
        <5> QED  BY <2>1, <3>2, <5>1 DEF Recorded
      <4>3. ASSUME NEW c \in Range(s[m].blocks), c.id # NoId PROVE c.id \in Paired(s) <=> c.id \in Paired(t)
        <5>1. c.kind \in {"use", "result"}  BY <4>2, <4>3 DEF Sound
        <5>2. c.id \in Called(s[m]) \/ c.id \in Answered(s[m])  BY <5>1 DEF Called, Answered
        <5> QED  BY <3>4, <3>8, <3>9, <5>2
      <4>4. {c \in Range(s[m].blocks) : c.id = NoId \/ c.id \in Paired(s)}
              = {c \in Range(s[m].blocks) : c.id = NoId \/ c.id \in Paired(t)}
        BY <4>3
      <4> QED  BY <4>1, <4>4 DEF Kept
    <3>11. IsPrefix(Flat(FoldSurface(s)), Flat(FoldSurface(t)))
      BY <2>3, <3>2, <3>3, <3>10, FoldPrefix
    <3> QED  BY <2>1, <3>0, <3>1, <3>11
  <2> QED  BY <2>4, <2>5
<1>2. ConversationInv /\ [ConversationNext]_conversationVars =>
        [\A l \in Lanes : Extends(l) /\ ~NarratedTwice =>
           IsPrefix(Flat(loop[l].sent.messages), Flat(loop'[l].sent.messages))]_conversationVars
  BY <1>1
<1> QED  BY <1>2, ConversationStaysSane, PTL DEF ConversationSpec, PrefixIsStable

\* No request is refused for how it is put together or sized (request_builder.ts:95), as long as
\* no other lane wrote between a call and its answer and calls were not narrated in two turns:
\* the window of the surface it is folded from is orderly, and its models declare no more than
\* they have.
THEOREM RequestsAreAccepted ==
  ASSUME \A m \in RunModels : DeclaresNoMore(m)
  PROVE  ConversationSpec => []RequestIsAccepted
<1>1. ConversationInv => RequestIsAccepted
  <2> SUFFICES ASSUME ConversationInv, NEW l \in Lanes, loop[l].at = "asking", ~Interleaved,
                      ~NarratedTwice
               PROVE  /\ Accepted(Translate(loop[l].sent.messages, loop[l].model))
                      /\ Fits(loop[l].model)
    BY DEF RequestIsAccepted
  <2>1. /\ Accepted(Translate(loop[l].sent.messages, loop[l].model))
        /\ loop[l].model \in RunModels
    BY AskedIsAccepted
  <2>2. loop[l].model \in ModelInfo /\ DeclaresNoMore(loop[l].model)
    BY <2>1, ConversationAssumption
  <2>3. Fits(loop[l].model)
    BY <2>2, RequestFits
  <2> QED  BY <2>1, <2>3
<1> QED  BY <1>1, ConversationStaysSane, PTL

-----------------------------------------------------------------------------
(* Sequences that are chosen from and flattened.                           *)

\* A sequence is the function of its elements.
IsItsElements(s) == s = [i \in 1 .. Len(s) |-> s[i]] /\ DOMAIN s = 1 .. Len(s) /\ Len(s) \in Nat

\* A sequence is the function of its elements.
LEMMA SeqIsItsElements == ASSUME NEW T, NEW s \in Seq(T)  PROVE IsItsElements(s)
<1>1. s \in [1 .. Len(s) -> T] /\ Len(s) \in Nat  OBVIOUS
<1> QED  BY <1>1 DEF IsItsElements

\* An element is added at the end of the second of two sequences.
AddsToSecond(a, b, x) == Append(a \o b, x) = a \o Append(b, x)

\* What is appended to two sequences in a row is appended to the second.
LEMMA AppendToConcat ==
  ASSUME NEW T, NEW a \in Seq(T), NEW b \in Seq(T), NEW x \in T
  PROVE  AddsToSecond(a, b, x)
<1>1. <<x>> \in Seq(T) /\ a \o b \in Seq(T) /\ Append(b, x) \in Seq(T)  OBVIOUS
<1>2. (a \o b) \o <<x>> = a \o (b \o <<x>>)  BY <1>1, ConcatAssociative
<1>3. Append(a \o b, x) = (a \o b) \o <<x>>  BY <1>1, AppendIsConcat
<1>4. Append(b, x) = b \o <<x>>  BY <1>1, AppendIsConcat
<1> QED  BY <1>1, <1>2, <1>3, <1>4 DEF AddsToSecond

\* What is chosen of a sequence in two parts is chosen of each.
ChoosesBoth(s, t, S, R, U) == Chosen(s \o t, U) = Chosen(s, S) \o Chosen(t, R)

\* What is chosen of two sequences in a row.
LEMMA ChosenConcat ==
  ASSUME NEW T, NEW s \in Seq(T), NEW t \in Seq(T), NEW S, NEW R, NEW U,
         \A i \in 1 .. Len(s) : s[i] \in U <=> s[i] \in S,
         \A i \in 1 .. Len(t) : t[i] \in U <=> t[i] \in R
  PROVE  ChoosesBoth(s, t, S, R, U)
<1> DEFINE w == s \o t
<1>0. /\ Len(s) \in Nat /\ Len(t) \in Nat /\ w \in Seq(T) /\ Len(w) = Len(s) + Len(t)
      /\ \A i \in 1 .. Len(s) : w[i] = s[i]
      /\ \A i \in 1 .. Len(t) : w[Len(s) + i] = t[i]
  OBVIOUS
<1> HIDE DEF w
<1>1. PICK f : ChosenUpTo(f, s, S)  BY ChosenSteps
<1>2. PICK g : ChosenUpTo(g, t, R)  BY ChosenSteps
<1>3. PICK h : ChosenUpTo(h, w, U)  BY <1>0, ChosenSteps
<1>4. /\ f[0] = <<>> /\ Chosen(s, S) = f[Len(s)]
      /\ \A n \in 1 .. Len(s) : f[n] = IF s[n] \in S THEN Append(f[n - 1], s[n]) ELSE f[n - 1]
  BY <1>1 DEF ChosenUpTo
<1>5. /\ g[0] = <<>> /\ Chosen(t, R) = g[Len(t)]
      /\ \A n \in 1 .. Len(t) : g[n] = IF t[n] \in R THEN Append(g[n - 1], t[n]) ELSE g[n - 1]
  BY <1>2 DEF ChosenUpTo
<1>6. /\ h[0] = <<>> /\ Chosen(w, U) = h[Len(w)]
      /\ \A n \in 1 .. Len(w) : h[n] = IF w[n] \in U THEN Append(h[n - 1], w[n]) ELSE h[n - 1]
  BY <1>3 DEF ChosenUpTo
<1> DEFINE Y == {n \in 0 .. Len(s) : h[n] = f[n] /\ f[n] \in Seq(T)}
<1>7. h[Len(s)] = f[Len(s)] /\ f[Len(s)] \in Seq(T)
  <2>1. 0 \in Y
    <3>1. <<>> \in Seq(T) /\ 0 \in 0 .. Len(s)  BY <1>0
    <3> QED  BY <1>4, <1>6, <3>1
  <2>2. ASSUME NEW n \in 0 .. Len(s), n \in Y, n # Len(s) PROVE n + 1 \in Y
    <3> PICK m : m = n + 1  OBVIOUS
    <3>1. m \in 1 .. Len(s) /\ m \in 1 .. Len(w) /\ m - 1 = n /\ m \in 0 .. Len(s)
      BY <1>0, <2>2
    <3>2. w[m] = s[m] /\ s[m] \in T /\ (s[m] \in U <=> s[m] \in S)  BY <1>0, <3>1
    <3>3. /\ f[m] = IF s[m] \in S THEN Append(f[n], s[m]) ELSE f[n]
          /\ h[m] = IF w[m] \in U THEN Append(h[n], w[m]) ELSE h[n]
      BY <1>4, <1>6, <3>1
    <3>4. h[n] = f[n] /\ f[n] \in Seq(T)  BY <2>2
    <3>5. Append(f[n], s[m]) \in Seq(T)  BY <3>2, <3>4
    <3> QED  BY <3>1, <3>2, <3>3, <3>4, <3>5
  <2> HIDE DEF Y
  <2>3. 0 .. Len(s) \subseteq Y  BY <1>0, <2>1, <2>2, Counting
  <2>4. Len(s) \in Y  BY <1>0, <2>3
  <2> QED  BY <2>4 DEF Y
<1> DEFINE Z == {n \in 0 .. Len(t) : h[Len(s) + n] = f[Len(s)] \o g[n] /\ g[n] \in Seq(T)}
<1>8. h[Len(s) + Len(t)] = f[Len(s)] \o g[Len(t)]
  <2>1. 0 \in Z
    <3>1. f[Len(s)] \o <<>> = f[Len(s)] /\ <<>> \in Seq(T)  BY <1>7
    <3>2. 0 \in 0 .. Len(t) /\ Len(s) + 0 = Len(s)  BY <1>0
    <3> QED  BY <1>5, <1>7, <3>1, <3>2
  <2>2. ASSUME NEW n \in 0 .. Len(t), n \in Z, n # Len(t) PROVE n + 1 \in Z
    <3> PICK m : m = n + 1  OBVIOUS
    <3> PICK k : k = Len(s) + m  OBVIOUS
    <3>1. m \in 1 .. Len(t) /\ k \in 1 .. Len(w) /\ m - 1 = n /\ k - 1 = Len(s) + n /\ m \in 0 .. Len(t)
      BY <1>0, <2>2, SMTT(30)
    <3>2. w[k] = t[m] /\ t[m] \in T /\ (t[m] \in U <=> t[m] \in R)
      <4>1. w[Len(s) + m] = t[m]  BY <1>0, <3>1
      <4>2. t[m] \in T  BY <3>1
      <4>3. t[m] \in U <=> t[m] \in R  BY <3>1
      <4> QED  BY <4>1, <4>2, <4>3
    <3>3. /\ g[m] = IF t[m] \in R THEN Append(g[n], t[m]) ELSE g[n]
          /\ h[k] = IF w[k] \in U THEN Append(h[k - 1], w[k]) ELSE h[k - 1]
      BY <1>5, <1>6, <3>1
    <3>4. h[k - 1] = f[Len(s)] \o g[n] /\ g[n] \in Seq(T)  BY <2>2, <3>1
    <3>5. /\ Append(g[n], t[m]) \in Seq(T)
          /\ Append(f[Len(s)] \o g[n], t[m]) = f[Len(s)] \o Append(g[n], t[m])
      <4> PICK a \in Seq(T) : a = f[Len(s)]  BY <1>7
      <4> PICK b \in Seq(T) : b = g[n]  BY <3>4
      <4> PICK x \in T : x = t[m]  BY <3>2
      <4>1. AddsToSecond(a, b, x)  BY AppendToConcat
      <4>2. Append(b, x) \in Seq(T)  OBVIOUS
      <4> QED  BY <4>1, <4>2 DEF AddsToSecond
    <3> QED  BY <3>1, <3>2, <3>3, <3>4, <3>5
  <2> HIDE DEF Z
  <2>3. 0 .. Len(t) \subseteq Z  BY <1>0, <2>1, <2>2, Counting
  <2>4. Len(t) \in Z  BY <1>0, <2>3
  <2> QED  BY <2>4 DEF Z
<1> QED  BY <1>0, <1>4, <1>5, <1>6, <1>8 DEF w, ChoosesBoth

\* All, or none, of a sequence is chosen.
LEMMA ChosenAll ==
  ASSUME NEW T, NEW s \in Seq(T), NEW S, \A i \in 1 .. Len(s) : s[i] \in S
  PROVE  Chosen(s, S) = s
<1>1. PICK f : ChosenUpTo(f, s, S)  BY ChosenSteps
<1>2. /\ f[0] = <<>> /\ Chosen(s, S) = f[Len(s)] /\ Len(s) \in Nat
      /\ \A n \in 1 .. Len(s) : f[n] = IF s[n] \in S THEN Append(f[n - 1], s[n]) ELSE f[n - 1]
  BY <1>1 DEF ChosenUpTo
<1> DEFINE Is(a, n) == a \in Seq(T) /\ Len(a) = n /\ \A i \in 1 .. n : a[i] = s[i]
           Z == {n \in 0 .. Len(s) : Is(f[n], n)}
<1>3. 0 \in Z
  <2>1. <<>> \in Seq(T) /\ Len(<<>>) = 0 /\ 1 .. 0 = {} /\ 0 \in 0 .. Len(s)  BY <1>2
  <2>2. Is(<<>>, 0)  BY <2>1
  <2> HIDE DEF Is
  <2> QED  BY <1>2, <2>1, <2>2
<1>4. ASSUME NEW n \in 0 .. Len(s), n \in Z, n # Len(s) PROVE n + 1 \in Z
  <2> PICK m : m = n + 1  OBVIOUS
  <2>1. m \in 1 .. Len(s) /\ m - 1 = n /\ m \in 0 .. Len(s)  BY <1>2, <1>4
  <2> PICK a \in Seq(T) : a = f[n]  BY <1>4
  <2> PICK x \in T : x = s[m]  BY <2>1
  <2>2. f[m] = Append(a, x)  BY <1>2, <2>1
  <2>3. Len(a) = n /\ \A i \in 1 .. n : a[i] = s[i]  BY <1>4
  <2>4. Is(Append(a, x), m)  BY <2>1, <2>3
  <2> HIDE DEF Is
  <2> QED  BY <2>1, <2>2, <2>4
<1>5. Len(s) \in Z
  <2> HIDE DEF Z
  <2>1. 0 .. Len(s) \subseteq Z  BY <1>2, <1>3, <1>4, Counting
  <2> QED  BY <1>2, <2>1
<1> PICK a : a = Chosen(s, S)  OBVIOUS
<1>6. Is(a, Len(s))  BY <1>2, <1>5
<1> QED  BY <1>6

LEMMA ChosenNone ==
  ASSUME NEW T, NEW s \in Seq(T), NEW S, \A i \in 1 .. Len(s) : s[i] \notin S
  PROVE  Chosen(s, S) = <<>>
<1>1. Chosen(s, S) \in Seq(T)  BY ChosenIs
<1>2. PICK g : Places(g, s, S)  BY ChosenIs
<1>3. ASSUME NEW k \in 1 .. Len(Chosen(s, S)) PROVE FALSE
  <2>1. g[k] \in 1 .. Len(s) /\ s[g[k]] \in S  BY <1>2 DEF Places
  <2> QED  BY <2>1
<1> PICK c \in Seq(T) : c = Chosen(s, S)  BY <1>1
<1>4. 1 \notin 1 .. Len(c)  BY <1>3
<1>5. Len(c) \in Nat  OBVIOUS
<1>6. Len(c) = 0  BY <1>4, <1>5
<1>7. c = <<>>  BY <1>6, EmptySeq
<1> QED  BY <1>7

\* One that is added is chosen if it is in the set.
ChoosesLast(s, x, S, U) ==
  Chosen(Append(s, x), U) = IF x \in U THEN Append(Chosen(s, S), x) ELSE Chosen(s, S)

\* What is chosen of a sequence with one more element.
LEMMA ChosenAppend ==
  ASSUME NEW T, NEW s \in Seq(T), NEW x \in T, NEW S, NEW U,
         \A i \in 1 .. Len(s) : s[i] \in U <=> s[i] \in S
  PROVE  ChoosesLast(s, x, S, U)
<1>0. <<x>> \in Seq(T)  OBVIOUS
<1> PICK t \in Seq(T) : t = <<x>>  BY <1>0
<1>1. Len(t) = 1 /\ \A i \in 1 .. Len(t) : t[i] = x  OBVIOUS
<1>2. Append(s, x) = s \o t  BY AppendIsConcat
<1>3. Chosen(s \o t, U) = Chosen(s, S) \o Chosen(t, U)
  <2> PICK R : R = U  OBVIOUS
  <2>1. \A i \in 1 .. Len(t) : t[i] \in U <=> t[i] \in R  OBVIOUS
  <2>2. ChoosesBoth(s, t, S, R, U)  BY <2>1, ChosenConcat
  <2> QED  BY <2>2 DEF ChoosesBoth
<1> PICK c \in Seq(T) : c = Chosen(s, S)  BY ChosenIs
<1>4. CASE x \in U
  <2>1. Chosen(t, U) = t  BY <1>1, <1>4, ChosenAll
  <2>2. c \o t = Append(c, x)  OBVIOUS
  <2> QED  BY <1>2, <1>3, <1>4, <2>1, <2>2 DEF ChoosesLast
<1>5. CASE x \notin U
  <2>1. Chosen(t, U) = <<>>  BY <1>1, <1>5, ChosenNone
  <2>2. c \o <<>> = c  OBVIOUS
  <2> QED  BY <1>2, <1>3, <1>5, <2>1, <2>2 DEF ChoosesLast
<1> QED  BY <1>4, <1>5 DEF ChoosesLast

\* From two sequences that agree on which places are chosen, the same places are.
LEMMA ChosenAlike ==
  ASSUME NEW T, NEW V, NEW s \in Seq(T), NEW t \in Seq(V), Len(s) = Len(t), NEW S, NEW R,
         \A i \in 1 .. Len(s) : s[i] \in S <=> t[i] \in R
  PROVE  /\ Len(Chosen(s, S)) = Len(Chosen(t, R))
         /\ \A k \in 1 .. Len(Chosen(s, S)) :
              \E i \in 1 .. Len(s) : Chosen(s, S)[k] = s[i] /\ Chosen(t, R)[k] = t[i]
<1>1. PICK f : ChosenUpTo(f, s, S)  BY ChosenSteps
<1>2. PICK g : ChosenUpTo(g, t, R)  BY ChosenSteps
<1>3. /\ f[0] = <<>> /\ Chosen(s, S) = f[Len(s)] /\ Len(s) \in Nat
      /\ \A n \in 1 .. Len(s) : f[n] = IF s[n] \in S THEN Append(f[n - 1], s[n]) ELSE f[n - 1]
  BY <1>1 DEF ChosenUpTo
<1>4. /\ g[0] = <<>> /\ Chosen(t, R) = g[Len(s)]
      /\ \A n \in 1 .. Len(s) : g[n] = IF t[n] \in R THEN Append(g[n - 1], t[n]) ELSE g[n - 1]
  BY <1>2 DEF ChosenUpTo
<1> DEFINE Alike(a, b) ==
             /\ a \in Seq(T) /\ b \in Seq(V) /\ Len(a) = Len(b)
             /\ \A k \in 1 .. Len(a) : \E i \in 1 .. Len(s) : a[k] = s[i] /\ b[k] = t[i]
           Z == {n \in 0 .. Len(s) : Alike(f[n], g[n])}
<1>5. 0 \in Z
  <2>1. <<>> \in Seq(T) /\ <<>> \in Seq(V) /\ Len(<<>>) = 0 /\ 1 .. 0 = {}  OBVIOUS
  <2>2. Alike(<<>>, <<>>)  BY <2>1
  <2> HIDE DEF Alike
  <2> QED  BY <1>3, <1>4, <2>2
<1>6. ASSUME NEW n \in 0 .. Len(s), n \in Z, n # Len(s) PROVE n + 1 \in Z
  <2> PICK m : m = n + 1  OBVIOUS
  <2>1. m \in 1 .. Len(s) /\ m - 1 = n /\ m \in 0 .. Len(s)  BY <1>3, <1>6
  <2> PICK a \in Seq(T) : a = f[n]  BY <1>6
  <2> PICK b \in Seq(V) : b = g[n]  BY <1>6
  <2> PICK x \in T : x = s[m]  BY <2>1
  <2> PICK y \in V : y = t[m]  BY <2>1
  <2>2. Len(a) = Len(b) /\ \A k \in 1 .. Len(a) : \E i \in 1 .. Len(s) : a[k] = s[i] /\ b[k] = t[i]
    BY <1>6
  <2>3. /\ f[m] = (IF x \in S THEN Append(a, x) ELSE a)
        /\ g[m] = (IF y \in R THEN Append(b, y) ELSE b) /\ (x \in S <=> y \in R)
    BY <1>3, <1>4, <2>1
  <2>4. CASE x \in S
    <3>0. Append(a, x) \in Seq(T) /\ Append(b, y) \in Seq(V)  OBVIOUS
    <3> PICK c \in Seq(T) : c = Append(a, x)  BY <3>0
    <3> PICK d \in Seq(V) : d = Append(b, y)  BY <3>0
    <3>1. /\ Len(c) = Len(a) + 1 /\ Len(d) = Len(b) + 1 /\ Len(a) \in Nat
          /\ c[Len(a) + 1] = x /\ d[Len(a) + 1] = y
          /\ \A k \in 1 .. Len(a) : c[k] = a[k] /\ d[k] = b[k]
      BY <2>2, SMTT(30)
    <3>2. ASSUME NEW k \in 1 .. Len(c) PROVE \E i \in 1 .. Len(s) : c[k] = s[i] /\ d[k] = t[i]
      <4>1. CASE k = Len(a) + 1  BY <2>1, <3>1, <4>1
      <4>2. CASE k # Len(a) + 1
        <5>1. k \in 1 .. Len(a)  BY <3>1, <4>2
        <5> QED  BY <2>2, <3>1, <5>1
      <4> QED  BY <4>1, <4>2
    <3>3. Alike(c, d)  BY <2>2, <3>1, <3>2
    <3> HIDE DEF Alike
    <3> QED  BY <2>1, <2>3, <2>4, <3>3
  <2>5. CASE x \notin S
    <3>1. Alike(a, b)  BY <2>2
    <3> HIDE DEF Alike
    <3> QED  BY <2>1, <2>3, <2>5, <3>1
  <2> QED  BY <2>4, <2>5
<1>7. Len(s) \in Z
  <2> HIDE DEF Z
  <2>1. 0 .. Len(s) \subseteq Z  BY <1>3, <1>5, <1>6, Counting
  <2> QED  BY <1>3, <2>1
<1>8. Alike(Chosen(s, S), Chosen(t, R))  BY <1>3, <1>4, <1>7
<1> QED  BY <1>8

LEMMA FlattenEmpty == FlattenSeq(<<>>) = <<>>
BY DEF FlattenSeq

\* Of sequences of which at most one is not empty that one is left.
LEMMA FlattenOne ==
  ASSUME NEW T, NEW s \in Seq(Seq(T)), NEW c \in 1 .. Len(s),
         \A i \in 1 .. Len(s) : i # c => s[i] = <<>>
  PROVE  FlattenSeq(s) = s[c]
<1>0. s # <<>> /\ Len(s) \in Nat /\ s[c] \in Seq(T) /\ c \in Nat  OBVIOUS
<1>1. PICK f : /\ DOMAIN f = 1 .. Len(s) /\ f[1] = s[1] /\ FlattenSeq(s) = f[Len(s)]
               /\ \A n \in 2 .. Len(s) : f[n] = f[n - 1] \o s[n]
  BY <1>0, FlattenSteps
<1> PICK e \in Seq(T) : e = s[c]  BY <1>0
<1> DEFINE Z == {n \in 0 .. Len(s) : n # 0 => f[n] = IF n < c THEN <<>> ELSE e}
<1>2. 0 \in Z
  <2>1. 0 \in 0 .. Len(s)  BY <1>0
  <2> QED  BY <2>1
<1>3. ASSUME NEW n \in 0 .. Len(s), n \in Z, n # Len(s) PROVE n + 1 \in Z
  <2> PICK m : m = n + 1  OBVIOUS
  <2>1. m \in 1 .. Len(s) /\ m - 1 = n /\ m \in 0 .. Len(s) /\ m # 0 /\ n \in Nat
    <3>1. n \in 0 .. Len(s) /\ n # Len(s)  BY <1>3
    <3> QED  BY <1>0, <3>1
  <2>2. CASE n = 0
    <3>1. f[m] = s[m]  BY <1>1, <2>1, <2>2
    <3>2. m < c => s[m] = <<>>  BY <2>1
    <3>3. ~(m < c) => m = c  BY <2>1, <2>2
    <3> QED  BY <2>1, <3>1, <3>2, <3>3
  <2>3. CASE n # 0
    <3>1. m \in 2 .. Len(s)  BY <2>1, <2>3
    <3>2. f[m] = f[n] \o s[m]  BY <1>1, <2>1, <3>1
    <3>3. f[n] = IF n < c THEN <<>> ELSE e  BY <1>3, <2>3
    <3>4. <<>> \o e = e /\ e \o <<>> = e /\ <<>> \o <<>> = <<>>  OBVIOUS
    <3>5. CASE m < c
      <4>1. n < c /\ s[m] = <<>>  BY <2>1, <3>5
      <4> QED  BY <2>1, <3>2, <3>3, <3>4, <3>5, <4>1
    <3>6. CASE m = c
      <4>1. n < c /\ s[m] = e /\ ~(m < c)  BY <2>1, <3>6
      <4> QED  BY <2>1, <3>2, <3>3, <3>4, <4>1
    <3>7. CASE c < m
      <4>1. ~(n < c) /\ s[m] = <<>> /\ ~(m < c)  BY <2>1, <3>7
      <4> QED  BY <2>1, <3>2, <3>3, <3>4, <4>1
    <3> QED  BY <1>0, <2>1, <3>5, <3>6, <3>7
  <2> QED  BY <2>2, <2>3
<1>4. Len(s) \in Z
  <2> HIDE DEF Z
  <2>1. 0 .. Len(s) \subseteq Z  BY <1>0, <1>2, <1>3, Counting
  <2>2. Len(s) \in 0 .. Len(s)  BY <1>0
  <2> QED  BY <2>1, <2>2
<1>5. Len(s) # 0 /\ ~(Len(s) < c)  BY <1>0
<1> QED  BY <1>1, <1>4, <1>5

LEMMA FlattenNone ==
  ASSUME NEW T, NEW s \in Seq(Seq(T)), \A i \in 1 .. Len(s) : s[i] = <<>>
  PROVE  FlattenSeq(s) = <<>>
<1>1. CASE s = <<>>  BY <1>1, FlattenEmpty
<1>2. CASE s # <<>>
  <2>1. 1 \in 1 .. Len(s)  BY <1>2
  <2>2. FlattenSeq(s) = s[1]  BY <2>1, FlattenOne
  <2> QED  BY <2>1, <2>2
<1> QED  BY <1>1, <1>2

-----------------------------------------------------------------------------
(* Events that are taken, and raw events that are read, one by one.        *)

\* What the loop has after each of some provider events.
TakenUpTo(f, s, events) ==
  /\ f[0] = s /\ TakeAll(s, events) = f[Len(events)]
  /\ \A n \in 1 .. Len(events) : f[n] = Take(f[n - 1], events[n])

\* The events of one raw event are taken one after the other.
LEMMA TakeAllSteps ==
  ASSUME NEW s, NEW events, Len(events) \in Nat
  PROVE  \E f : TakenUpTo(f, s, events)
<1> DEFINE Is(f, m) == f = [i \in 0 .. m |-> IF i = 0 THEN s ELSE Take(f[i - 1], events[i])]
           Z == {m \in 0 .. Len(events) : \E f : Is(f, m)}
<1>1. 0 \in Z
  <2> DEFINE f == [i \in 0 .. 0 |-> s]
  <2>1. Is(f, 0)  OBVIOUS
  <2>2. 0 \in 0 .. Len(events)  OBVIOUS
  <2> HIDE DEF f, Is
  <2> QED  BY <2>1, <2>2
<1>2. ASSUME NEW m \in 0 .. Len(events), m \in Z, m # Len(events) PROVE m + 1 \in Z
  <2>1. PICK g : Is(g, m)  BY <1>2
  <2>2. DOMAIN g = 0 .. m /\ \A i \in 0 .. m : g[i] = IF i = 0 THEN s ELSE Take(g[i - 1], events[i])
    BY <2>1
  <2> DEFINE f == [i \in 0 .. m + 1 |-> IF i = m + 1 THEN Take(g[m], events[m + 1]) ELSE g[i]]
  <2>3. ASSUME NEW i \in 0 .. m + 1 PROVE f[i] = IF i = 0 THEN s ELSE Take(f[i - 1], events[i])
    <3>1. CASE i = m + 1
      <4>1. i # 0 /\ i - 1 = m /\ f[i - 1] = g[m]  BY <3>1
      <4> QED  BY <3>1, <4>1
    <3>2. CASE i # m + 1
      <4>1. i \in 0 .. m /\ f[i] = g[i]  BY <3>2
      <4>2. i # 0 => i - 1 \in 0 .. m + 1 /\ i - 1 # m + 1 /\ f[i - 1] = g[i - 1]  BY <4>1
      <4> QED  BY <2>2, <4>1, <4>2
    <3> QED  BY <3>1, <3>2
  <2>4. DOMAIN f = 0 .. m + 1 /\ f = [i \in 0 .. m + 1 |-> f[i]]  OBVIOUS
  <2> HIDE DEF f
  <2>5. Is(f, m + 1)  BY <2>3, <2>4
  <2>6. m + 1 \in 0 .. Len(events)  BY <1>2
  <2> QED  BY <2>5, <2>6
<1>3. Len(events) \in Z
  <2> HIDE DEF Z
  <2>1. 0 .. Len(events) \subseteq Z  BY <1>1, <1>2, Counting
  <2> QED  BY <2>1
<1>4. \E f : Is(f, Len(events))  BY <1>3
<1> DEFINE f == CHOOSE f : Is(f, Len(events))
<1>5. Is(f, Len(events))  BY <1>4
<1>6. TakeAll(s, events) = f[Len(events)]  BY DEF TakeAll
<1> HIDE DEF f
<1>7. f[0] = s /\ \A n \in 1 .. Len(events) : f[n] = Take(f[n - 1], events[n])  BY <1>5
<1>8. TakenUpTo(f, s, events)  BY <1>6, <1>7 DEF TakenUpTo
<1> HIDE DEF Is
<1> QED  BY <1>8

LEMMA TakeNone ==
  ASSUME NEW s
  PROVE  TakeAll(s, <<>>) = s
<1> DEFINE all == <<>>
<1>1. Len(all) = 0 /\ Len(all) \in Nat  OBVIOUS
<1> HIDE DEF all
<1>2. PICK f : TakenUpTo(f, s, all)  BY <1>1, TakeAllSteps
<1>3. f[0] = s /\ TakeAll(s, all) = f[0]  BY <1>1, <1>2 DEF TakenUpTo
<1> QED  BY <1>3 DEF all

LEMMA TakeOne ==
  ASSUME NEW s, NEW a
  PROVE  TakeAll(s, <<a>>) = Take(s, a)
<1> DEFINE all == <<a>>
<1>1. Len(all) = 1 /\ Len(all) \in Nat /\ all[1] = a  OBVIOUS
<1> HIDE DEF all
<1>2. PICK f : TakenUpTo(f, s, all)  BY <1>1, TakeAllSteps
<1>3. f[0] = s /\ TakeAll(s, all) = f[1]  BY <1>1, <1>2 DEF TakenUpTo
<1>4. f[1] = Take(f[0], a)
  <2>1. 1 \in 1 .. Len(all) /\ 1 - 1 = 0  BY <1>1
  <2>2. f[1] = Take(f[1 - 1], all[1])  BY <1>2, <2>1 DEF TakenUpTo
  <2> QED  BY <1>1, <2>1, <2>2
<1> QED  BY <1>3, <1>4 DEF all

LEMMA TakeTwo ==
  ASSUME NEW s, NEW a, NEW b
  PROVE  TakeAll(s, <<a, b>>) = Take(Take(s, a), b)
<1> DEFINE all == <<a, b>>
<1>1. Len(all) = 2 /\ Len(all) \in Nat /\ all[1] = a /\ all[2] = b  OBVIOUS
<1> HIDE DEF all
<1>2. PICK f : TakenUpTo(f, s, all)  BY <1>1, TakeAllSteps
<1>3. f[0] = s /\ TakeAll(s, all) = f[2]  BY <1>1, <1>2 DEF TakenUpTo
<1>4. f[1] = Take(f[0], a)
  <2>1. 1 \in 1 .. Len(all) /\ 1 - 1 = 0  BY <1>1
  <2>2. f[1] = Take(f[1 - 1], all[1])  BY <1>2, <2>1 DEF TakenUpTo
  <2> QED  BY <1>1, <2>1, <2>2
<1>5. f[2] = Take(f[1], b)
  <2>1. 2 \in 1 .. Len(all) /\ 2 - 1 = 1  BY <1>1
  <2>2. f[2] = Take(f[2 - 1], all[2])  BY <1>2, <2>1 DEF TakenUpTo
  <2> QED  BY <1>1, <2>1, <2>2
<1> QED  BY <1>3, <1>4, <1>5 DEF all

\* What the loop has after each of some raw events.
ReadUpTo(f, s, raws) ==
  /\ f[0] = s /\ ReadAll(s, raws) = f[Len(raws)]
  /\ \A n \in 1 .. Len(raws) : f[n] = Read(f[n - 1], raws[n])

\* The raw events of a replay are read one after the other.
LEMMA ReadAllSteps ==
  ASSUME NEW s, NEW raws, Len(raws) \in Nat
  PROVE  \E f : ReadUpTo(f, s, raws)
<1> DEFINE Is(f, m) == f = [i \in 0 .. m |-> IF i = 0 THEN s ELSE Read(f[i - 1], raws[i])]
           Z == {m \in 0 .. Len(raws) : \E f : Is(f, m)}
<1>1. 0 \in Z
  <2> DEFINE f == [i \in 0 .. 0 |-> s]
  <2>1. Is(f, 0)  OBVIOUS
  <2>2. 0 \in 0 .. Len(raws)  OBVIOUS
  <2> HIDE DEF f, Is
  <2> QED  BY <2>1, <2>2
<1>2. ASSUME NEW m \in 0 .. Len(raws), m \in Z, m # Len(raws) PROVE m + 1 \in Z
  <2>1. PICK g : Is(g, m)  BY <1>2
  <2>2. DOMAIN g = 0 .. m /\ \A i \in 0 .. m : g[i] = IF i = 0 THEN s ELSE Read(g[i - 1], raws[i])
    BY <2>1
  <2> DEFINE f == [i \in 0 .. m + 1 |-> IF i = m + 1 THEN Read(g[m], raws[m + 1]) ELSE g[i]]
  <2>3. ASSUME NEW i \in 0 .. m + 1 PROVE f[i] = IF i = 0 THEN s ELSE Read(f[i - 1], raws[i])
    <3>1. CASE i = m + 1
      <4>1. i # 0 /\ i - 1 = m /\ f[i - 1] = g[m]  BY <3>1
      <4> QED  BY <3>1, <4>1
    <3>2. CASE i # m + 1
      <4>1. i \in 0 .. m /\ f[i] = g[i]  BY <3>2
      <4>2. i # 0 => i - 1 \in 0 .. m + 1 /\ i - 1 # m + 1 /\ f[i - 1] = g[i - 1]  BY <4>1
      <4> QED  BY <2>2, <4>1, <4>2
    <3> QED  BY <3>1, <3>2
  <2>4. DOMAIN f = 0 .. m + 1 /\ f = [i \in 0 .. m + 1 |-> f[i]]  OBVIOUS
  <2> HIDE DEF f
  <2>5. Is(f, m + 1)  BY <2>3, <2>4
  <2>6. m + 1 \in 0 .. Len(raws)  BY <1>2
  <2> QED  BY <2>5, <2>6
<1>3. Len(raws) \in Z
  <2> HIDE DEF Z
  <2>1. 0 .. Len(raws) \subseteq Z  BY <1>1, <1>2, Counting
  <2> QED  BY <2>1
<1>4. \E f : Is(f, Len(raws))  BY <1>3
<1> DEFINE f == CHOOSE f : Is(f, Len(raws))
<1>5. Is(f, Len(raws))  BY <1>4
<1>6. ReadAll(s, raws) = f[Len(raws)]  BY DEF ReadAll
<1> HIDE DEF f
<1>7. f[0] = s /\ \A n \in 1 .. Len(raws) : f[n] = Read(f[n - 1], raws[n])  BY <1>5
<1>8. ReadUpTo(f, s, raws)  BY <1>6, <1>7 DEF ReadUpTo
<1> HIDE DEF Is
<1> QED  BY <1>8

LEMMA ReadNone ==
  ASSUME NEW s
  PROVE  ReadAll(s, <<>>) = s
<1> DEFINE all == <<>>
<1>1. Len(all) = 0 /\ Len(all) \in Nat  OBVIOUS
<1> HIDE DEF all
<1>2. PICK f : ReadUpTo(f, s, all)  BY <1>1, ReadAllSteps
<1>3. f[0] = s /\ ReadAll(s, all) = f[0]  BY <1>1, <1>2 DEF ReadUpTo
<1> QED  BY <1>3 DEF all

LEMMA ReadOne ==
  ASSUME NEW s, NEW a
  PROVE  ReadAll(s, <<a>>) = Read(s, a)
<1> DEFINE all == <<a>>
<1>1. Len(all) = 1 /\ Len(all) \in Nat /\ all[1] = a  OBVIOUS
<1> HIDE DEF all
<1>2. PICK f : ReadUpTo(f, s, all)  BY <1>1, ReadAllSteps
<1>3. f[0] = s /\ ReadAll(s, all) = f[1]  BY <1>1, <1>2 DEF ReadUpTo
<1>4. f[1] = Read(f[0], a)
  <2>1. 1 \in 1 .. Len(all) /\ 1 - 1 = 0  BY <1>1
  <2>2. f[1] = Read(f[1 - 1], all[1])  BY <1>2, <2>1 DEF ReadUpTo
  <2> QED  BY <1>1, <2>1, <2>2
<1> QED  BY <1>3, <1>4 DEF all

LEMMA ReadTwo ==
  ASSUME NEW s, NEW a, NEW b
  PROVE  ReadAll(s, <<a, b>>) = Read(Read(s, a), b)
<1> DEFINE all == <<a, b>>
<1>1. Len(all) = 2 /\ Len(all) \in Nat /\ all[1] = a /\ all[2] = b  OBVIOUS
<1> HIDE DEF all
<1>2. PICK f : ReadUpTo(f, s, all)  BY <1>1, ReadAllSteps
<1>3. f[0] = s /\ ReadAll(s, all) = f[2]  BY <1>1, <1>2 DEF ReadUpTo
<1>4. f[1] = Read(f[0], a)
  <2>1. 1 \in 1 .. Len(all) /\ 1 - 1 = 0  BY <1>1
  <2>2. f[1] = Read(f[1 - 1], all[1])  BY <1>2, <2>1 DEF ReadUpTo
  <2> QED  BY <1>1, <2>1, <2>2
<1>5. f[2] = Read(f[1], b)
  <2>1. 2 \in 1 .. Len(all) /\ 2 - 1 = 1  BY <1>1
  <2>2. f[2] = Read(f[2 - 1], all[2])  BY <1>2, <2>1 DEF ReadUpTo
  <2> QED  BY <1>1, <2>1, <2>2
<1> QED  BY <1>3, <1>4, <1>5 DEF all

LEMMA ReadThree ==
  ASSUME NEW s, NEW a, NEW b, NEW c
  PROVE  ReadAll(s, <<a, b, c>>) = Read(Read(Read(s, a), b), c)
<1> DEFINE all == <<a, b, c>>
<1>1. Len(all) = 3 /\ Len(all) \in Nat /\ all[1] = a /\ all[2] = b /\ all[3] = c  OBVIOUS
<1> HIDE DEF all
<1>2. PICK f : ReadUpTo(f, s, all)  BY <1>1, ReadAllSteps
<1>3. f[0] = s /\ ReadAll(s, all) = f[3]  BY <1>1, <1>2 DEF ReadUpTo
<1>4. f[1] = Read(f[0], a)
  <2>1. 1 \in 1 .. Len(all) /\ 1 - 1 = 0  BY <1>1
  <2>2. f[1] = Read(f[1 - 1], all[1])  BY <1>2, <2>1 DEF ReadUpTo
  <2> QED  BY <1>1, <2>1, <2>2
<1>5. f[2] = Read(f[1], b)
  <2>1. 2 \in 1 .. Len(all) /\ 2 - 1 = 1  BY <1>1
  <2>2. f[2] = Read(f[2 - 1], all[2])  BY <1>2, <2>1 DEF ReadUpTo
  <2> QED  BY <1>1, <2>1, <2>2
<1>6. f[3] = Read(f[2], c)
  <2>1. 3 \in 1 .. Len(all) /\ 3 - 1 = 2  BY <1>1
  <2>2. f[3] = Read(f[3 - 1], all[3])  BY <1>2, <2>1 DEF ReadUpTo
  <2> QED  BY <1>1, <2>1, <2>2
<1> QED  BY <1>3, <1>4, <1>5, <1>6 DEF all

LEMMA ReadFive ==
  ASSUME NEW s, NEW a, NEW b, NEW c, NEW d, NEW e
  PROVE  ReadAll(s, <<a, b, c, d, e>>) = Read(Read(Read(Read(Read(s, a), b), c), d), e)
<1> DEFINE all == <<a, b, c, d, e>>
<1>1. Len(all) = 5 /\ Len(all) \in Nat /\ all[1] = a /\ all[2] = b /\ all[3] = c /\ all[4] = d /\ all[5] = e  OBVIOUS
<1> HIDE DEF all
<1>2. PICK f : ReadUpTo(f, s, all)  BY <1>1, ReadAllSteps
<1>3. f[0] = s /\ ReadAll(s, all) = f[5]  BY <1>1, <1>2 DEF ReadUpTo
<1>4. f[1] = Read(f[0], a)
  <2>1. 1 \in 1 .. Len(all) /\ 1 - 1 = 0  BY <1>1
  <2>2. f[1] = Read(f[1 - 1], all[1])  BY <1>2, <2>1 DEF ReadUpTo
  <2> QED  BY <1>1, <2>1, <2>2
<1>5. f[2] = Read(f[1], b)
  <2>1. 2 \in 1 .. Len(all) /\ 2 - 1 = 1  BY <1>1
  <2>2. f[2] = Read(f[2 - 1], all[2])  BY <1>2, <2>1 DEF ReadUpTo
  <2> QED  BY <1>1, <2>1, <2>2
<1>6. f[3] = Read(f[2], c)
  <2>1. 3 \in 1 .. Len(all) /\ 3 - 1 = 2  BY <1>1
  <2>2. f[3] = Read(f[3 - 1], all[3])  BY <1>2, <2>1 DEF ReadUpTo
  <2> QED  BY <1>1, <2>1, <2>2
<1>7. f[4] = Read(f[3], d)
  <2>1. 4 \in 1 .. Len(all) /\ 4 - 1 = 3  BY <1>1
  <2>2. f[4] = Read(f[4 - 1], all[4])  BY <1>2, <2>1 DEF ReadUpTo
  <2> QED  BY <1>1, <2>1, <2>2
<1>8. f[5] = Read(f[4], e)
  <2>1. 5 \in 1 .. Len(all) /\ 5 - 1 = 4  BY <1>1
  <2>2. f[5] = Read(f[5 - 1], all[5])  BY <1>2, <2>1 DEF ReadUpTo
  <2> QED  BY <1>1, <2>1, <2>2
<1> QED  BY <1>3, <1>4, <1>5, <1>6, <1>7, <1>8 DEF all

\* What is of a type in a sequence with one more element, and its types and sizes.
LEMMA OfTypeAppend ==
  ASSUME NEW T, NEW s \in Seq(T), NEW x \in T, NEW types
  PROVE  OfType(Append(s, x), types)
           = IF x.type \in types THEN Append(OfType(s, types), x) ELSE OfType(s, types)
<1> DEFINE S == {e \in Range(s) : e.type \in types}
           U == {e \in Range(Append(s, x)) : e.type \in types}
<1>1. /\ Append(s, x) \in Seq(T) /\ Len(Append(s, x)) = Len(s) + 1 /\ Append(s, x)[Len(s) + 1] = x
      /\ \A i \in 1 .. Len(s) : Append(s, x)[i] = s[i]
  OBVIOUS
<1> PICK t \in Seq(T) : t = Append(s, x)  BY <1>1
<1>2. \A i \in 1 .. Len(s) : s[i] \in Range(t) /\ s[i] \in Range(s)
  <2>1. DOMAIN t = 1 .. Len(s) + 1 /\ DOMAIN s = 1 .. Len(s) /\ Len(s) \in Nat  BY <1>1
  <2>2. ASSUME NEW i \in 1 .. Len(s) PROVE s[i] \in Range(t) /\ s[i] \in Range(s)
    <3>1. i \in DOMAIN t /\ i \in DOMAIN s /\ t[i] = s[i]  BY <1>1, <2>1
    <3> QED  BY <3>1 DEF Range
  <2> QED  BY <2>2
<1>3. x \in Range(t)
  <2>1. Len(s) + 1 \in DOMAIN t /\ t[Len(s) + 1] = x  BY <1>1
  <2> QED  BY <2>1 DEF Range
<1>4. \A i \in 1 .. Len(s) : s[i] \in U <=> s[i] \in S  BY <1>2
<1>5. x \in U <=> x.type \in types  BY <1>3
<1>6. OfType(s, types) = Chosen(s, S) /\ OfType(t, types) = Chosen(t, U)  BY DEF OfType
<1> HIDE DEF S, U
<1>7. ChoosesLast(s, x, S, U)  BY <1>4, ChosenAppend
<1> QED  BY <1>5, <1>6, <1>7 DEF ChoosesLast

LEMMA PairsAppend ==
  ASSUME NEW T, NEW s \in Seq(T), NEW x \in T
  PROVE  Pairs(Append(s, x)) = Append(Pairs(s), <<x.type, x.size>>)
<1> DEFINE p == <<x.type, x.size>>
<1>1. /\ Append(s, x) \in Seq(T) /\ Len(Append(s, x)) = Len(s) + 1 /\ Append(s, x)[Len(s) + 1] = x
      /\ \A i \in 1 .. Len(s) : Append(s, x)[i] = s[i]
  OBVIOUS
<1> PICK t \in Seq(T) : t = Append(s, x)  BY <1>1
<1>2. /\ DOMAIN t = 1 .. Len(s) + 1 /\ DOMAIN s = 1 .. Len(s) /\ Len(s) \in Nat
      /\ t[Len(s) + 1] = x /\ \A i \in 1 .. Len(s) : t[i] = s[i]
  BY <1>1
<1>3. Pairs(s) = [i \in 1 .. Len(s) |-> <<s[i].type, s[i].size>>]  BY <1>2 DEF Pairs
<1>4. Pairs(t) = [i \in 1 .. Len(s) + 1 |-> <<t[i].type, t[i].size>>]  BY <1>2 DEF Pairs
<1> DEFINE P == {Pairs(s)[i] : i \in 1 .. Len(s)} \cup {p}
<1>5. Pairs(s) \in Seq(P) /\ Len(Pairs(s)) = Len(s)
  <2>1. \A i \in 1 .. Len(s) : Pairs(s)[i] \in P  OBVIOUS
  <2>2. Pairs(s) \in [1 .. Len(s) -> P]  BY <1>3, <2>1
  <2> HIDE DEF P
  <2> QED  BY <1>2, <2>2
<1>6. p \in P  OBVIOUS
<1> PICK u \in Seq(P) : u = Pairs(s)  BY <1>5
<1> HIDE DEF P, p
<1>7. /\ Append(u, p) \in Seq(P) /\ Len(Append(u, p)) = Len(s) + 1 /\ Append(u, p)[Len(s) + 1] = p
      /\ \A i \in 1 .. Len(s) : Append(u, p)[i] = u[i]
  BY <1>5, <1>6
<1>8. DOMAIN Append(u, p) = 1 .. Len(s) + 1  BY <1>2, <1>7
<1>9. ASSUME NEW i \in 1 .. Len(s) + 1 PROVE Pairs(t)[i] = Append(u, p)[i]
  <2>1. Pairs(t)[i] = <<t[i].type, t[i].size>>  BY <1>4
  <2>2. CASE i = Len(s) + 1  BY <1>2, <1>7, <2>1, <2>2 DEF p
  <2>3. CASE i # Len(s) + 1
    <3>1. i \in 1 .. Len(s)  BY <1>2, <2>3
    <3> QED  BY <1>2, <1>3, <1>7, <2>1, <3>1
  <2> QED  BY <2>2, <2>3
<1>10. Append(u, p) = [i \in 1 .. Len(s) + 1 |-> Append(u, p)[i]]
  <2> PICK v \in Seq(P) : v = Append(u, p)  BY <1>7
  <2>1. Len(v) = Len(s) + 1  BY <1>7
  <2>2. v = [i \in 1 .. Len(v) |-> v[i]]  BY SeqIsItsElements DEF IsItsElements
  <2> QED  BY <2>1, <2>2
<1>11. Pairs(t) = [i \in 1 .. Len(s) + 1 |-> Pairs(t)[i]]  BY <1>4
<1>12. Pairs(t) = Append(u, p)  BY <1>9, <1>10, <1>11
<1> QED  BY <1>12 DEF p

Meanings == Seq(EventNames \X Nat)

TwoOf(x, y) == <<x>> \o <<y>> = <<x, y>>

LEMMA TwoIs ==
  ASSUME NEW T, NEW x \in T, NEW y \in T  PROVE TwoOf(x, y)
<1>1. /\ <<x>> \in Seq(T) /\ <<y>> \in Seq(T) /\ <<x, y>> \in Seq(T)
      /\ Len(<<x>>) = 1 /\ Len(<<y>>) = 1 /\ Len(<<x, y>>) = 2
  OBVIOUS
<1> PICK c \in Seq(T) : c = <<x>>  BY <1>1
<1> PICK d \in Seq(T) : d = <<y>>  BY <1>1
<1>2. c \o d \in Seq(T) /\ Len(c \o d) = 2 /\ (c \o d)[1] = x /\ (c \o d)[2] = y  BY <1>1
<1> PICK e \in Seq(T) : e = c \o d  BY <1>2
<1> PICK f \in Seq(T) : f = <<x, y>>  BY <1>1
<1>3. Len(f) = 2 /\ f[1] = x /\ f[2] = y  OBVIOUS
<1>4. e = [i \in 1 .. 2 |-> e[i]]  BY <1>2, SeqIsItsElements DEF IsItsElements
<1>5. f = [i \in 1 .. 2 |-> f[i]]  BY <1>3, SeqIsItsElements DEF IsItsElements
<1>6. \A i \in 1 .. 2 : i = 1 \/ i = 2  OBVIOUS
<1>7. e[1] = x /\ e[2] = y  BY <1>2
<1>8. \A i \in 1 .. 2 : e[i] = f[i]  BY <1>3, <1>6, <1>7
<1>9. e = f  BY <1>4, <1>5, <1>8
<1> QED  BY <1>9 DEF TwoOf

\* What a block means to the record, by its kind.
LEMMA MeaningIs ==
  ASSUME NEW p, NEW b \in ContentBlock, b.kind \in {"text", "thinking", "hidden", "call", "compaction", "told", "other"}
  PROVE  /\ Meaning(p, b) \in Meanings
         /\ b.kind \in Wordy => Meaning(p, b) = <<<<TypeOf(b.kind), b.size>>>>
         /\ b.kind = "compaction" => Meaning(p, b) = <<<<"context_compacted", 0>>>>
         /\ b.kind = "call" => Meaning(p, b) = <<<<"tool_started", 0>>>>
         /\ b.kind = "hidden" => Meaning(p, b) = IF p = "replay" THEN <<>> ELSE <<<<"ai_thinking", 0>>>>
         /\ b.kind = "told" => Meaning(p, b) = IF b.size = 0 THEN <<<<"tool_started", 0>>>>
                                               ELSE <<<<"ai_text", 1>>, <<"tool_started", 0>>>>
         /\ b.kind = "other" => Meaning(p, b) = <<<<"ai_raw", 0>>>>
<1>0. b.size \in Nat  BY DEF ContentBlock
<1>1. CASE b.kind \in Wordy
  <2>1. Meaning(p, b) = <<<<TypeOf(b.kind), b.size>>>>  BY <1>1 DEF Meaning, Wordy
  <2>2. TypeOf(b.kind) \in EventNames  BY <1>1 DEF TypeOf, Wordy, EventNames
  <2>3. Meaning(p, b) \in Meanings  BY <1>0, <2>1, <2>2 DEF Meanings
  <2> QED  BY <1>1, <2>1, <2>3 DEF Wordy
<1>2. CASE b.kind = "compaction"
  <2>1. Meaning(p, b) = <<<<"context_compacted", 0>>>>  BY <1>2 DEF Meaning, Wordy
  <2>2. <<"context_compacted", 0>> \in EventNames \X Nat  BY DEF EventNames
  <2>3. Meaning(p, b) \in Meanings  BY <2>1, <2>2 DEF Meanings
  <2> QED  BY <1>2, <2>1, <2>3 DEF Wordy
<1>3. CASE b.kind = "call"
  <2>1. Meaning(p, b) = <<<<"tool_started", 0>>>>  BY <1>3 DEF Meaning, Wordy
  <2>2. <<"tool_started", 0>> \in EventNames \X Nat  BY DEF EventNames
  <2>3. Meaning(p, b) \in Meanings  BY <2>1, <2>2 DEF Meanings
  <2> QED  BY <1>3, <2>1, <2>3 DEF Wordy
<1>4. CASE b.kind = "hidden"
  <2>1. Meaning(p, b) = IF p = "replay" THEN <<>> ELSE <<<<"ai_thinking", 0>>>>  BY <1>4 DEF Meaning, Wordy
  <2>2. <<"ai_thinking", 0>> \in EventNames \X Nat  BY DEF EventNames
  <2>3. <<>> \in Meanings /\ <<<<"ai_thinking", 0>>>> \in Meanings  BY <2>2 DEF Meanings
  <2>4. Meaning(p, b) \in Meanings  BY <2>1, <2>3
  <2> QED  BY <1>4, <2>1, <2>4 DEF Wordy
<1>5. CASE b.kind = "told"
  <2>1. Meaning(p, b) = (IF b.size = 0 THEN <<>> ELSE <<<<"ai_text", 1>>>>) \o <<<<"tool_started", 0>>>>
    BY <1>5 DEF Meaning, Wordy
  <2>2. <<>> \o <<<<"tool_started", 0>>>> = <<<<"tool_started", 0>>>>  OBVIOUS
  <2>3. <<<<"ai_text", 1>>>> \o <<<<"tool_started", 0>>>> = <<<<"ai_text", 1>>, <<"tool_started", 0>>>>
    <3> PICK x \in EventNames \X Nat : x = <<"ai_text", 1>>  BY DEF EventNames
    <3> PICK y \in EventNames \X Nat : y = <<"tool_started", 0>>  BY DEF EventNames
    <3>1. TwoOf(x, y)  BY TwoIs
    <3> QED  BY <3>1 DEF TwoOf
  <2>4. Meaning(p, b) = IF b.size = 0 THEN <<<<"tool_started", 0>>>>
                                               ELSE <<<<"ai_text", 1>>, <<"tool_started", 0>>>>
    BY <2>1, <2>2, <2>3
  <2>5. <<"ai_text", 1>> \in EventNames \X Nat /\ <<"tool_started", 0>> \in EventNames \X Nat
    BY DEF EventNames
  <2>6. <<<<"ai_text", 1>>, <<"tool_started", 0>>>> \in Meanings /\ <<<<"tool_started", 0>>>> \in Meanings
    <3> PICK x \in EventNames \X Nat : x = <<"ai_text", 1>>  BY <2>5
    <3> PICK y \in EventNames \X Nat : y = <<"tool_started", 0>>  BY <2>5
    <3>1. <<x, y>> \in Seq(EventNames \X Nat) /\ <<y>> \in Seq(EventNames \X Nat)  OBVIOUS
    <3> QED  BY <3>1 DEF Meanings
  <2>7. Meaning(p, b) \in Meanings  BY <2>4, <2>6
  <2> QED  BY <1>5, <2>4, <2>7 DEF Wordy
<1>6. CASE b.kind = "other"
  <2>1. Meaning(p, b) = <<<<"ai_raw", 0>>>>  BY <1>6 DEF Meaning, Wordy
  <2>2. <<"ai_raw", 0>> \in EventNames \X Nat  BY DEF EventNames
  <2>3. Meaning(p, b) \in Meanings  BY <2>1, <2>2 DEF Meanings
  <2> QED  BY <1>6, <2>1, <2>3 DEF Wordy
<1> QED  BY <1>1, <1>2, <1>3, <1>4, <1>5, <1>6 DEF Wordy

\* What an answer means is what its blocks mean, one after the other.
LEMMA MeantByAppend ==
  ASSUME NEW answer \in Seq(ContentBlock), NEW b \in ContentBlock,
         \A i \in DOMAIN answer : Meaning(path, answer[i]) \in Meanings,
         Meaning(path, b) \in Meanings
  PROVE  MeantBy(answer) \in Meanings /\ MeantBy(Append(answer, b)) = MeantBy(answer) \o Meaning(path, b)
<1> DEFINE f == [i \in DOMAIN answer |-> Meaning(path, answer[i])]
           g == [i \in DOMAIN Append(answer, b) |-> Meaning(path, Append(answer, b)[i])]
           m == Meaning(path, b)
<1>1. /\ DOMAIN answer = 1 .. Len(answer) /\ Len(answer) \in Nat
      /\ DOMAIN Append(answer, b) = 1 .. Len(answer) + 1
      /\ Append(answer, b)[Len(answer) + 1] = b
      /\ \A i \in 1 .. Len(answer) : Append(answer, b)[i] = answer[i]
  OBVIOUS
<1>2. f \in [1 .. Len(answer) -> Meanings]  BY <1>1
<1>3. f \in Seq(Meanings) /\ Len(f) = Len(answer)  BY <1>1, <1>2
<1>4. DOMAIN g = 1 .. Len(answer) + 1 /\ g[Len(answer) + 1] = m
      /\ \A i \in 1 .. Len(answer) : g[i] = f[i]
  BY <1>1
<1>5. g = [i \in 1 .. Len(answer) + 1 |-> g[i]]  BY <1>4
<1>6. MeantBy(answer) = FlattenSeq(f) /\ MeantBy(Append(answer, b)) = FlattenSeq(g)  BY DEF MeantBy
<1>7. m \in Meanings  OBVIOUS
<1> HIDE DEF f, g, m
<1>8. /\ Append(f, m) \in Seq(Meanings) /\ DOMAIN Append(f, m) = 1 .. Len(answer) + 1
      /\ Append(f, m)[Len(answer) + 1] = m /\ \A i \in 1 .. Len(answer) : Append(f, m)[i] = f[i]
  BY <1>3, <1>7
<1>9. Append(f, m) = [i \in 1 .. Len(answer) + 1 |-> Append(f, m)[i]]
  <2> PICK v \in Seq(Meanings) : v = Append(f, m)  BY <1>8
  <2>1. DOMAIN v = 1 .. Len(answer) + 1  BY <1>8
  <2>2. v = [i \in DOMAIN v |-> v[i]]  BY SeqIsItsElements DEF IsItsElements
  <2> QED  BY <2>1, <2>2
<1>10. \A i \in 1 .. Len(answer) + 1 : g[i] = Append(f, m)[i]
  <2>1. \A i \in 1 .. Len(answer) + 1 : i \in 1 .. Len(answer) \/ i = Len(answer) + 1  BY <1>1
  <2> QED  BY <1>4, <1>8, <2>1
<1>11. g = Append(f, m)  BY <1>5, <1>9, <1>10
<1>12. FlattenSeq(f) \in Meanings /\ FlattenSeq(Append(f, m)) = FlattenSeq(f) \o m
  BY <1>3, <1>7, FlattenAppend DEF Meanings
<1> QED  BY <1>6, <1>11, <1>12 DEF m

LEMMA MapsIs ==
  ASSUME NEW X, NEW f
  PROVE  f \in Maps(X) <=> /\ DOMAIN f \subseteq Nat /\ f = [n \in DOMAIN f |-> f[n]]
                           /\ \A n \in DOMAIN f : f[n] \in X
<1>1. ASSUME f \in Maps(X) PROVE /\ DOMAIN f \subseteq Nat /\ f = [n \in DOMAIN f |-> f[n]]
                           /\ \A n \in DOMAIN f : f[n] \in X
  <2>1. PICK D \in SUBSET Nat : f \in [D -> X]  BY <1>1 DEF Maps
  <2> QED  BY <2>1
<1>2. ASSUME DOMAIN f \subseteq Nat, f = [n \in DOMAIN f |-> f[n]], \A n \in DOMAIN f : f[n] \in X
      PROVE  f \in Maps(X)
  <2>1. f \in [DOMAIN f -> X]  BY <1>2
  <2>2. DOMAIN f \in SUBSET Nat  BY <1>2
  <2> QED  BY <2>1, <2>2 DEF Maps
<1> QED  BY <1>1, <1>2

HasPut(g, f, n, x) ==
  /\ DOMAIN g = DOMAIN f \cup {n} /\ g[n] = x /\ \A i \in DOMAIN f : i # n => g[i] = f[i]

\* A map with one more entry.
LEMMA PutIs ==
  ASSUME NEW X, NEW f \in Maps(X), NEW n \in Nat, NEW x \in X
  PROVE  Put(f, n, x) \in Maps(X) /\ HasPut(Put(f, n, x), f, n, x)
<1> DEFINE g == Put(f, n, x)
<1>1. DOMAIN f \subseteq Nat /\ \A i \in DOMAIN f : f[i] \in X  BY MapsIs
<1>2. g = [i \in DOMAIN f \cup {n} |-> IF i = n THEN x ELSE f[i]]  BY DEF Put
<1> HIDE DEF g
<1>3. /\ DOMAIN g = DOMAIN f \cup {n} /\ g = [i \in DOMAIN g |-> g[i]]
      /\ \A i \in DOMAIN g : g[i] = IF i = n THEN x ELSE f[i]
  BY <1>2
<1>4. DOMAIN g \subseteq Nat /\ \A i \in DOMAIN g : g[i] \in X  BY <1>1, <1>3
<1>5. g \in Maps(X)  BY <1>3, <1>4, MapsIs
<1> QED  BY <1>3, <1>5 DEF g, HasPut

LEMMA NothingIsMapped ==
  ASSUME NEW X  PROVE <<>> \in Maps(X) /\ DOMAIN <<>> = {}
<1>1. DOMAIN <<>> = {} /\ <<>> = [n \in {} |-> <<>>[n]]  OBVIOUS
<1> QED  BY <1>1, MapsIs

-----------------------------------------------------------------------------
(* What is kept by each event.                                             *)

\* What was shown of earlier turns is left alone.
ShownOnlyOf(turn, old, new) ==
  \A key \in Nat \X Nat :
    key[1] # turn => /\ key \in Range(new) <=> key \in Range(old)
                     /\ Chosen(new, {key}) = Chosen(old, {key})

ShowsOneMore(s, turn, n, new) ==
  /\ ShownOnlyOf(turn, s, new)
  /\ Seen(turn, new, n) = Seen(turn, s, n) + 1
  /\ \A m \in Nat : m # n => Seen(turn, new, m) = Seen(turn, s, m)

\* A piece that is shown is shown once, under its own key and of its own turn.
LEMMA ShownIsShown ==
  ASSUME NEW s \in Seq(Nat \X Nat), NEW turn \in Nat, NEW n \in Nat
  PROVE  ShowsOneMore(s, turn, n, Append(s, <<turn, n>>))
<1> PICK x \in Nat \X Nat : x = <<turn, n>>  OBVIOUS
<1>1. x[1] = turn /\ x[2] = n  OBVIOUS
<1>2. ASSUME NEW key \in Nat \X Nat PROVE ChoosesLast(s, x, {key}, {key})  BY ChosenAppend
<1>3. ASSUME NEW key \in Nat \X Nat, key # x PROVE Chosen(Append(s, x), {key}) = Chosen(s, {key})
  BY <1>2, <1>3 DEF ChoosesLast
<1>4. Len(Chosen(Append(s, x), {x})) = Len(Chosen(s, {x})) + 1
  <2>1. Chosen(Append(s, x), {x}) = Append(Chosen(s, {x}), x)  BY <1>2 DEF ChoosesLast
  <2> PICK c \in Seq(Nat \X Nat) : c = Chosen(s, {x})  BY ChosenIs
  <2>2. Len(Append(c, x)) = Len(c) + 1  OBVIOUS
  <2> QED  BY <2>1, <2>2
<1>5. ASSUME NEW key \in Nat \X Nat, key[1] # turn
      PROVE  /\ key \in Range(Append(s, x)) <=> key \in Range(s)
             /\ Chosen(Append(s, x), {key}) = Chosen(s, {key})
  <2>1. key # x  BY <1>1, <1>5
  <2>2. key \in Range(Append(s, x)) <=> key \in Range(s)
    <3>0. Append(s, x) \in Seq(Nat \X Nat)  OBVIOUS
    <3> PICK t \in Seq(Nat \X Nat) : t = Append(s, x)  BY <3>0
    <3>1. /\ DOMAIN t = 1 .. Len(s) + 1 /\ DOMAIN s = 1 .. Len(s) /\ t[Len(s) + 1] = x
          /\ \A i \in 1 .. Len(s) : t[i] = s[i] /\ i \in 1 .. Len(s) + 1
      OBVIOUS
    <3>2. \A i \in 1 .. Len(s) + 1 : i = Len(s) + 1 \/ i \in 1 .. Len(s)  OBVIOUS
    <3>3. ASSUME key \in Range(t) PROVE key \in Range(s)
      <4>1. PICK i \in 1 .. Len(s) + 1 : key = t[i]  BY <3>1, <3>3 DEF Range
      <4>2. i \in 1 .. Len(s) /\ key = s[i]  BY <2>1, <3>1, <3>2, <4>1
      <4> QED  BY <3>1, <4>2 DEF Range
    <3>4. ASSUME key \in Range(s) PROVE key \in Range(t)
      <4>1. PICK i \in 1 .. Len(s) : key = s[i]  BY <3>1, <3>4 DEF Range
      <4>2. i \in DOMAIN t /\ key = t[i]  BY <3>1, <4>1
      <4> QED  BY <4>2 DEF Range
    <3> QED  BY <3>3, <3>4
  <2> QED  BY <1>3, <2>1, <2>2
<1>6. ASSUME NEW m \in Nat, m # n
      PROVE  Chosen(Append(s, x), {<<turn, m>>}) = Chosen(s, {<<turn, m>>})
  <2> PICK y \in Nat \X Nat : y = <<turn, m>>  OBVIOUS
  <2>1. y # x  BY <1>1, <1>6
  <2>2. Chosen(Append(s, x), {y}) = Chosen(s, {y})  BY <1>3, <2>1
  <2> QED  BY <2>2
<1>8. ShownOnlyOf(turn, s, Append(s, x))  BY <1>5 DEF ShownOnlyOf
<1> QED  BY <1>4, <1>6, <1>8 DEF ShowsOneMore, Seen

\* What is gathered does not depend on the mapper, nor on the stop reason.
LEMMA KeptAlike ==
  ASSUME NEW s, NEW meant, NEW open, NEW top, Heard(s, meant, open, top),
         NEW t \in Gatherings, t.turn = s.turn, t.acc = s.acc, t.shown = s.shown,
         t.durable = s.durable, t.blocks = s.blocks, t.calls = s.calls
  PROVE  Heard(t, meant, open, top)
BY DEF Heard

\* Only the open block may change.
LEMMA KeyedAlike ==
  ASSUME NEW turn, NEW old, NEW new, NEW durable, NEW n, EventsAreKeyed(turn, old, durable, n),
         \A i \in DOMAIN new : i # n => i \in DOMAIN old,
         \A i \in DOMAIN old : i # n => i \in DOMAIN new /\ new[i] = old[i]
  PROVE  EventsAreKeyed(turn, new, durable, n)
<1>1. ASSUME NEW i \in DOMAIN durable
      PROVE  /\ durable[i].turn = turn
             /\ \/ durable[i].key = <<>>
                \/ \E m \in DOMAIN new : /\ m # n /\ durable[i].key = <<turn, m>>
                                         /\ durable[i].size = new[m].size
  BY DEF EventsAreKeyed
<1>2. \A m \in DOMAIN new : m # n => \E i \in DOMAIN durable : durable[i].key = <<turn, m>>
  BY DEF EventsAreKeyed
<1>3. \A i, j \in DOMAIN durable :
        durable[i].key = durable[j].key /\ durable[i].key # <<>> => i = j
  BY DEF EventsAreKeyed
<1> QED  BY <1>1, <1>2, <1>3 DEF EventsAreKeyed

\* The normalizer opens a block that it does not know.
LEMMA StartIsKept ==
  ASSUME NEW s, NEW meant, NEW top \in Nat, NEW n \in 1 .. top, Heard(s, meant, n, top),
         n \notin DOMAIN s.acc, NEW b \in ContentBlock, b.size = 0,
         NEW t \in Gatherings, t = [s EXCEPT !.acc = Put(@, n, b)]
  PROVE  Heard(t, meant, n, top)
<1>0. s \in Gatherings /\ EventsAreKeyed(s.turn, s.acc, s.durable, n)  BY DEF Heard
<1>1. /\ t.turn = s.turn /\ t.acc = Put(s.acc, n, b) /\ t.shown = s.shown
      /\ t.durable = s.durable /\ t.blocks = s.blocks /\ t.calls = s.calls
  BY <1>0 DEF Gatherings
<1>2. s.acc \in Maps(ContentBlock) /\ s.shown \in Seq(Nat \X Nat) /\ s.turn \in Nat  BY <1>0 DEF Gatherings
<1>3. /\ DOMAIN t.acc = DOMAIN s.acc \cup {n} /\ t.acc[n] = b
      /\ \A i \in DOMAIN s.acc : t.acc[i] = s.acc[i]
  BY <1>1 DEF Put
<1>4. AccIsShown(s.turn, s.acc, s.shown, top)  BY DEF Heard
<1>5. Seen(t.turn, t.shown, n) = 0
  <2> PICK x : x = <<s.turn, n>>  OBVIOUS
  <2>1. \A i \in 1 .. Len(s.shown) : s.shown[i] \notin {x}
    <3>1. ASSUME NEW i \in 1 .. Len(s.shown), s.shown[i] = x PROVE FALSE
      <4>1. i \in DOMAIN s.shown /\ s.shown[i][1] = s.turn /\ s.shown[i][2] = n  BY <1>2, <3>1
      <4> QED  BY <1>4, <4>1 DEF AccIsShown
    <3> QED  BY <3>1
  <2>2. Chosen(s.shown, {x}) = <<>>  BY <1>2, <2>1, ChosenNone
  <2> QED  BY <1>1, <2>2 DEF Seen
<1>6. \A i : Seen(t.turn, t.shown, i) = Seen(s.turn, s.shown, i)  BY <1>1 DEF Seen
<1>7. AccIsShown(t.turn, t.acc, t.shown, top)
  <2>1. ASSUME NEW i \in DOMAIN t.acc PROVE i \in 1 .. top /\ Seen(t.turn, t.shown, i) = t.acc[i].size
    BY <1>3, <1>4, <1>5, <1>6 DEF AccIsShown
  <2> QED  BY <1>1, <1>3, <1>4, <2>1 DEF AccIsShown
<1>8. EventsAreKeyed(t.turn, t.acc, t.durable, n)
  <2>1. /\ \A i \in DOMAIN t.acc : i # n => i \in DOMAIN s.acc
        /\ \A i \in DOMAIN s.acc : i # n => i \in DOMAIN t.acc /\ t.acc[i] = s.acc[i]
    BY <1>3
  <2> QED  BY <1>0, <1>1, <2>1, KeyedAlike
<1>9. BlocksAreTold(t.durable, t.blocks, t.calls)  BY <1>1 DEF Heard, BlocksAreTold
<1> QED  BY <1>1, <1>7, <1>8, <1>9 DEF Heard

\* Nothing is shown of any turn but the current one.
SameTurn(s, t) ==
  /\ t.turn = s.turn /\ t.next = s.next /\ t.held = s.held
  /\ ShownOnlyOf(s.turn, s.shown, t.shown)

\* A piece of the open block is shown.
ShowsPiece(s, t, n) ==
  /\ DOMAIN t.acc = DOMAIN s.acc /\ t.acc[n].kind = s.acc[n].kind
  /\ t.acc[n].size = s.acc[n].size + 1
  /\ SameTurn(s, t) /\ t.opened = s.opened /\ t.durable = s.durable

\* A piece of the open block is shown as it is gathered.
LEMMA DeltaIsKept ==
  ASSUME NEW s, NEW meant, NEW top \in Nat, NEW n \in DOMAIN s.acc, Heard(s, meant, n, top),
         NEW e, e.index = n
  PROVE  Heard(Shown(s, e), meant, n, top) /\ ShowsPiece(s, Shown(s, e), n)
<1> DEFINE t == Shown(s, e)
<1>0. s \in Gatherings /\ EventsAreKeyed(s.turn, s.acc, s.durable, n)  BY DEF Heard
<1>2. s.acc \in Maps(ContentBlock) /\ s.shown \in Seq(Nat \X Nat) /\ s.turn \in Nat  BY <1>0 DEF Gatherings
<1>3. /\ DOMAIN s.acc \subseteq Nat /\ s.acc = [i \in DOMAIN s.acc |-> s.acc[i]]
      /\ \A i \in DOMAIN s.acc : s.acc[i] \in ContentBlock
  BY <1>2, MapsIs
<1>1. /\ t = [s EXCEPT !.acc = [s.acc EXCEPT ![n] = [s.acc[n] EXCEPT !.size = s.acc[n].size + 1]],
                       !.shown = Append(s.shown, <<s.turn, n>>)]
  BY <1>0 DEF Shown, BlockKey, Gatherings
<1> DEFINE c == [s.acc[n] EXCEPT !.size = s.acc[n].size + 1]
           acc == [s.acc EXCEPT ![n] = c]
<1>4. c \in ContentBlock /\ c.kind = s.acc[n].kind /\ c.size = s.acc[n].size + 1  BY <1>3 DEF ContentBlock
<1> HIDE DEF c
<1>5. /\ DOMAIN acc = DOMAIN s.acc /\ acc[n] = c /\ acc = [i \in DOMAIN acc |-> acc[i]]
      /\ \A i \in DOMAIN s.acc : i # n => acc[i] = s.acc[i]
  BY <1>3
<1> HIDE DEF acc
<1>6. acc \in Maps(ContentBlock)
  <2>1. \A i \in DOMAIN acc : acc[i] \in ContentBlock  BY <1>3, <1>4, <1>5
  <2> QED  BY <1>3, <1>5, <2>1, MapsIs
<1>7. n \in Nat /\ <<s.turn, n>> \in Nat \X Nat  BY <1>2, <1>3
<1> PICK x \in Nat \X Nat : x = <<s.turn, n>>  BY <1>7
<1>8. Append(s.shown, x) \in Seq(Nat \X Nat)  BY <1>2
<1>9. t = [s EXCEPT !.acc = acc, !.shown = Append(s.shown, x)]  BY <1>1 DEF acc, c
<1> HIDE DEF t
<1>10. /\ t \in Gatherings /\ t.turn = s.turn /\ t.acc = acc /\ t.shown = Append(s.shown, x)
       /\ t.durable = s.durable /\ t.blocks = s.blocks /\ t.calls = s.calls /\ t.opened = s.opened
       /\ t.next = s.next /\ t.held = s.held
  BY <1>0, <1>6, <1>8, <1>9 DEF Gatherings
<1>11. AccIsShown(s.turn, s.acc, s.shown, top)  BY DEF Heard
<1>12. /\ Seen(t.turn, t.shown, n) = Seen(s.turn, s.shown, n) + 1 /\ \A i \in Nat : i # n => Seen(t.turn, t.shown, i) = Seen(s.turn, s.shown, i)
  <2>1. ShowsOneMore(s.shown, s.turn, n, t.shown)  BY <1>2, <1>7, <1>10, ShownIsShown
  <2> QED  BY <1>10, <2>1 DEF ShowsOneMore
<1>13. AccIsShown(t.turn, t.acc, t.shown, top)
  <2>1. ASSUME NEW i \in DOMAIN t.acc PROVE i \in 1 .. top /\ Seen(t.turn, t.shown, i) = t.acc[i].size
    <3>1. i \in 1 .. top /\ Seen(s.turn, s.shown, i) = s.acc[i].size /\ i \in Nat
      BY <1>3, <1>5, <1>10, <1>11 DEF AccIsShown
    <3>2. CASE i = n  BY <1>4, <1>5, <1>10, <1>12, <3>1, <3>2
    <3>3. CASE i # n  BY <1>5, <1>10, <1>12, <3>1, <3>3
    <3> QED  BY <3>2, <3>3
  <2>2. ASSUME NEW i \in DOMAIN t.shown
        PROVE  t.shown[i][1] <= t.turn /\ (t.shown[i][1] = t.turn => t.shown[i][2] \in DOMAIN t.acc)
    <3> PICK old \in Seq(Nat \X Nat) : old = s.shown  BY <1>2
    <3> PICK new \in Seq(Nat \X Nat) : new = Append(old, x)  BY <1>8
    <3>1. /\ DOMAIN new = 1 .. Len(old) + 1 /\ DOMAIN old = 1 .. Len(old) /\ new[Len(old) + 1] = x
          /\ \A j \in 1 .. Len(old) : new[j] = old[j]
      OBVIOUS
    <3>2. CASE i = Len(old) + 1
      <4>1. t.shown[i] = x /\ x[1] = s.turn /\ x[2] = n  BY <1>10, <3>1, <3>2
      <4>2. n \in DOMAIN t.acc  BY ONLY <1>5, <1>10, n \in DOMAIN s.acc
      <4>3. t.turn = s.turn /\ s.turn <= s.turn  BY ONLY <1>2, <1>10
      <4> QED  BY ONLY <4>1, <4>2, <4>3
    <3>3. CASE i # Len(old) + 1
      <4>1. i \in DOMAIN old /\ t.shown[i] = s.shown[i]  BY <1>10, <3>1, <3>3
      <4> QED  BY <1>5, <1>10, <1>11, <4>1 DEF AccIsShown
    <3> QED  BY <3>2, <3>3
  <2> QED  BY <2>1, <2>2 DEF AccIsShown
<1>14. EventsAreKeyed(t.turn, t.acc, t.durable, n)
  <2>1. /\ \A i \in DOMAIN t.acc : i # n => i \in DOMAIN s.acc
        /\ \A i \in DOMAIN s.acc : i # n => i \in DOMAIN t.acc /\ t.acc[i] = s.acc[i]
    BY <1>5, <1>10
  <2> QED  BY <1>0, <1>10, <2>1, KeyedAlike
<1>15. BlocksAreTold(t.durable, t.blocks, t.calls)  BY <1>10 DEF Heard, BlocksAreTold
<1>16. ShownOnlyOf(s.turn, s.shown, t.shown)
  <2>1. ShowsOneMore(s.shown, s.turn, n, t.shown)  BY <1>2, <1>7, <1>10, ShownIsShown
  <2> QED  BY <2>1 DEF ShowsOneMore
<1>17. Heard(t, meant, n, top)  BY <1>10, <1>13, <1>14, <1>15 DEF Heard
<1>18. ShowsPiece(s, t, n)  BY <1>4, <1>5, <1>10, <1>16 DEF ShowsPiece, SameTurn
<1> QED  BY <1>17, <1>18 DEF t

LEMMA AppendedIs ==
  ASSUME NEW T, NEW s \in Seq(T), NEW x \in T
  PROVE  /\ Append(s, x) \in Seq(T) /\ DOMAIN s = 1 .. Len(s) /\ Len(s) \in Nat
         /\ DOMAIN Append(s, x) = 1 .. Len(s) + 1 /\ Len(Append(s, x)) = Len(s) + 1
         /\ Append(s, x)[Len(s) + 1] = x /\ \A i \in 1 .. Len(s) : Append(s, x)[i] = s[i]
         /\ \A i \in DOMAIN Append(s, x) : i \in DOMAIN s \/ i = Len(s) + 1
OBVIOUS

\* The event of the open block closes it.
LEMMA KeyedAppend ==
  ASSUME NEW turn \in Nat, NEW acc, NEW durable \in Seq(Durables), NEW d \in Durables, NEW n,
         EventsAreKeyed(turn, acc, durable, n), n \in DOMAIN acc, 0 \notin DOMAIN acc,
         d.turn = turn, d.key = <<turn, n>>, d.size = acc[n].size
  PROVE  EventsAreKeyed(turn, acc, Append(durable, d), 0)
<1> PICK new : new = Append(durable, d)  OBVIOUS
<1>1. /\ DOMAIN durable = 1 .. Len(durable) /\ Len(durable) \in Nat
      /\ Len(durable) + 1 \in DOMAIN new /\ new[Len(durable) + 1] = d
      /\ \A i \in DOMAIN durable : i \in DOMAIN new /\ new[i] = durable[i] /\ i # Len(durable) + 1
      /\ \A i \in DOMAIN new : i \in DOMAIN durable \/ i = Len(durable) + 1
  BY AppendedIs
<1>2. ASSUME NEW i \in DOMAIN new
      PROVE  /\ new[i].turn = turn
             /\ \/ new[i].key = <<>>
                \/ \E m \in DOMAIN acc : /\ m # 0 /\ new[i].key = <<turn, m>>
                                         /\ new[i].size = acc[m].size
  <2>1. CASE i \in DOMAIN durable  BY <1>1, <2>1 DEF EventsAreKeyed
  <2>2. CASE i = Len(durable) + 1  BY <1>1, <2>2
  <2> QED  BY <1>1, <2>1, <2>2
<1>3. ASSUME NEW m \in DOMAIN acc PROVE \E i \in DOMAIN new : new[i].key = <<turn, m>>
  <2>1. CASE m = n  BY <1>1, <2>1
  <2>2. CASE m # n
    <3>1. PICK i \in DOMAIN durable : durable[i].key = <<turn, m>>  BY <2>2 DEF EventsAreKeyed
    <3> QED  BY <1>1, <3>1
  <2> QED  BY <2>1, <2>2
<1>4. ASSUME NEW i \in DOMAIN durable, durable[i].key = <<turn, n>> PROVE FALSE
  <2>1. <<turn, n>> # <<>>  OBVIOUS
  <2>2. PICK m \in DOMAIN acc : m # n /\ durable[i].key = <<turn, m>>  BY <1>4, <2>1 DEF EventsAreKeyed
  <2> QED  BY <1>4, <2>2
<1>5. ASSUME NEW i \in DOMAIN new, NEW j \in DOMAIN new, new[i].key = new[j].key, new[i].key # <<>>
      PROVE  i = j
  <2>1. CASE i \in DOMAIN durable /\ j \in DOMAIN durable  BY <1>1, <1>5, <2>1 DEF EventsAreKeyed
  <2>2. CASE i = Len(durable) + 1 /\ j \in DOMAIN durable  BY <1>1, <1>4, <1>5, <2>2
  <2>3. CASE j = Len(durable) + 1 /\ i \in DOMAIN durable  BY <1>1, <1>4, <1>5, <2>3
  <2> QED  BY <1>1, <2>1, <2>2, <2>3
<1>6. EventsAreKeyed(turn, acc, new, 0)  BY <1>2, <1>3, <1>5 DEF EventsAreKeyed
<1> QED  BY <1>6

\* An event of no block is of none.
LEMMA RawIsKeyed ==
  ASSUME NEW turn \in Nat, NEW acc, NEW durable \in Seq(Durables), NEW d \in Durables, NEW n,
         EventsAreKeyed(turn, acc, durable, n), d.turn = turn, d.key = <<>>
  PROVE  EventsAreKeyed(turn, acc, Append(durable, d), n)
<1> PICK new : new = Append(durable, d)  OBVIOUS
<1>1. /\ Len(durable) + 1 \in DOMAIN new /\ new[Len(durable) + 1] = d
      /\ \A i \in DOMAIN durable : i \in DOMAIN new /\ new[i] = durable[i] /\ i # Len(durable) + 1
      /\ \A i \in DOMAIN new : i \in DOMAIN durable \/ i = Len(durable) + 1
  BY AppendedIs
<1>2. ASSUME NEW i \in DOMAIN new
      PROVE  /\ new[i].turn = turn
             /\ \/ new[i].key = <<>>
                \/ \E m \in DOMAIN acc : /\ m # n /\ new[i].key = <<turn, m>>
                                         /\ new[i].size = acc[m].size
  BY <1>1 DEF EventsAreKeyed
<1>3. ASSUME NEW m \in DOMAIN acc, m # n PROVE \E i \in DOMAIN new : new[i].key = <<turn, m>>
  <2>1. PICK i \in DOMAIN durable : durable[i].key = <<turn, m>>  BY <1>3 DEF EventsAreKeyed
  <2> QED  BY <1>1, <2>1
<1>4. ASSUME NEW i \in DOMAIN new, NEW j \in DOMAIN new, new[i].key = new[j].key, new[i].key # <<>>
      PROVE  i = j
  <2>1. i \in DOMAIN durable /\ j \in DOMAIN durable  BY <1>1, <1>4
  <2> QED  BY <1>1, <1>4, <2>1 DEF EventsAreKeyed
<1>5. EventsAreKeyed(turn, acc, new, n)  BY <1>2, <1>3, <1>4 DEF EventsAreKeyed
<1> QED  BY <1>5

\* A block is kept with its event, a call with its announcement.
LEMMA ToldAppend ==
  ASSUME NEW durable \in Seq(Durables), NEW d \in Durables, NEW blocks \in Seq(ContentBlock),
         NEW calls \in Seq(Nat), BlocksAreTold(durable, blocks, calls), NEW b \in ContentBlock,
         d.type \in Spoken, b.kind \in KindsOf(d.type), NEW n \in Nat, NEW after,
         after = IF d.type = "tool_started" THEN Append(calls, n) ELSE calls
  PROVE  BlocksAreTold(Append(durable, d), Append(blocks, b), after)
<1> DEFINE told == OfType(durable, Spoken)
           told2 == OfType(Append(durable, d), Spoken)
           calls1 == OfType(durable, {"tool_started"})
           calls2 == OfType(Append(durable, d), {"tool_started"})
<1>0. told \in Seq(Durables) /\ calls1 \in Seq(Durables)  BY ChosenIs DEF OfType
<1>1. told2 = Append(told, d)  BY OfTypeAppend
<1>2. calls2 = IF d.type = "tool_started" THEN Append(calls1, d) ELSE calls1
  BY OfTypeAppend
<1>3. Len(blocks) = Len(told) /\ Len(calls) = Len(calls1)
      /\ \A i \in DOMAIN blocks : blocks[i].kind \in KindsOf(told[i].type)
  BY DEF BlocksAreTold
<1> HIDE DEF told, told2, calls1, calls2
<1>4. Len(after) = Len(calls2)
  <2>1. CASE d.type = "tool_started"
    <3>1. Len(Append(calls, n)) = Len(calls) + 1 /\ Len(Append(calls1, d)) = Len(calls1) + 1
      BY <1>0, AppendedIs
    <3> QED  BY <1>2, <1>3, <2>1, <3>1
  <2>2. CASE d.type # "tool_started"  BY <1>2, <1>3, <2>2
  <2> QED  BY <2>1, <2>2
<1>5. Len(Append(blocks, b)) = Len(told2)  BY <1>0, <1>1, <1>3
<1>6. ASSUME NEW i \in DOMAIN Append(blocks, b) PROVE Append(blocks, b)[i].kind \in KindsOf(told2[i].type)
  <2>1. /\ \A j \in 1 .. Len(blocks) : Append(blocks, b)[j] = blocks[j] /\ Append(told, d)[j] = told[j]
        /\ Append(blocks, b)[Len(blocks) + 1] = b /\ Append(told, d)[Len(blocks) + 1] = d
        /\ DOMAIN blocks = 1 .. Len(blocks) /\ (i \in DOMAIN blocks \/ i = Len(blocks) + 1)
    BY <1>0, <1>3
  <2>2. CASE i \in DOMAIN blocks
    <3>1. Append(blocks, b)[i] = blocks[i] /\ told2[i] = told[i]  BY <1>1, <2>1, <2>2
    <3> QED  BY <1>3, <2>2, <3>1
  <2>3. CASE i = Len(blocks) + 1
    <3>1. Append(blocks, b)[i] = b /\ told2[i] = d  BY <1>1, <2>1, <2>3
    <3> QED  BY <3>1
  <2> QED  BY <2>1, <2>2, <2>3
<1> QED  BY <1>4, <1>5, <1>6 DEF BlocksAreTold, told2, calls2

LEMMA RawIsTold ==
  ASSUME NEW durable \in Seq(Durables), NEW d \in Durables, NEW blocks, NEW calls,
         BlocksAreTold(durable, blocks, calls), d.type = "ai_raw"
  PROVE  BlocksAreTold(Append(durable, d), blocks, calls)
<1>1. "ai_raw" \notin Spoken /\ "ai_raw" \notin {"tool_started"}  BY DEF Spoken, Claude
<1>2. /\ OfType(Append(durable, d), Spoken) = OfType(durable, Spoken)
      /\ OfType(Append(durable, d), {"tool_started"}) = OfType(durable, {"tool_started"})
  BY <1>1, OfTypeAppend
<1> QED  BY <1>2 DEF BlocksAreTold

OnlyTells(s, t) ==
  /\ t.turn = s.turn /\ t.acc = s.acc /\ t.shown = s.shown /\ t.opened = s.opened
  /\ t.next = s.next /\ t.held = s.held

\* The end of a block makes its event, with the text that was shown.
LEMMA StopIsKept ==
  ASSUME NEW s, NEW meant, NEW top \in Nat, NEW n \in DOMAIN s.acc, Heard(s, meant, n, top),
         NEW e, e.index = n, e.block \in ContentBlock,
         s.acc[n].kind \in {"text", "thinking", "tool_use", "compaction"},
         e.block.kind \in KindsOf(TypeOf(s.acc[n].kind)),
         IF s.acc[n].kind \in Wordy THEN TextOf(e.block) \in {0, s.acc[n].size} ELSE s.acc[n].size = 0,
         NEW t, t = MapBlockStop(Collect(s, e), e)
  PROVE  /\ Heard(t, Append(meant, <<TypeOf(s.acc[n].kind), s.acc[n].size>>), 0, top)
         /\ OnlyTells(s, t)
<1> DEFINE type == TypeOf(s.acc[n].kind)
           size == s.acc[n].size
           calls == IF e.block.kind = "call" THEN Append(s.calls, n) ELSE s.calls
           d == [seq |-> s.seq + 1, type |-> type, turn |-> s.turn, key |-> <<s.turn, n>>, size |-> size]
<1>0. s \in Gatherings /\ EventsAreKeyed(s.turn, s.acc, s.durable, n)
      /\ AccIsShown(s.turn, s.acc, s.shown, top) /\ BlocksAreTold(s.durable, s.blocks, s.calls)
      /\ Pairs(s.durable) = meant
  BY DEF Heard
<1>1. /\ s.acc \in Maps(ContentBlock) /\ s.turn \in Nat /\ s.durable \in Seq(Durables) /\ s.seq \in Nat
      /\ s.blocks \in Seq(ContentBlock) /\ s.calls \in Seq(Nat)
  BY <1>0 DEF Gatherings
<1>2. DOMAIN s.acc \subseteq Nat /\ s.acc[n] \in ContentBlock  BY <1>1, MapsIs
<1>3. n \in Nat /\ size \in Nat  BY <1>2 DEF ContentBlock
<1>4. /\ type \in Spoken /\ type \in EventNames
      /\ type = "tool_started" <=> e.block.kind = "call"
  BY DEF TypeOf, Spoken, Claude, EventNames, KindsOf
<1>5. d \in Durables /\ d.type = type /\ d.turn = s.turn /\ d.key = <<s.turn, n>> /\ d.size = size
  BY <1>1, <1>3, <1>4 DEF Durables, Keys
<1>6. /\ Append(s.blocks, e.block) \in Seq(ContentBlock) /\ calls \in Seq(Nat)
      /\ Append(s.durable, d) \in Seq(Durables)
  BY <1>1, <1>3, <1>5
<1>7. Collect(s, e) = [s EXCEPT !.blocks = Append(s.blocks, e.block), !.calls = calls]
  BY <1>0 DEF Collect, Gatherings
<1>8. t = [s EXCEPT !.blocks = Append(s.blocks, e.block), !.calls = calls, !.seq = s.seq + 1,
                    !.durable = Append(s.durable, d)]
  <2> PICK c : c = Collect(s, e)  OBVIOUS
  <2>1. c.acc = s.acc /\ c.turn = s.turn /\ c.seq = s.seq /\ c.durable = s.durable
    BY <1>0, <1>7 DEF Gatherings
  <2>2. MapBlockStop(c, e) = Durable(c, type, <<s.turn, n>>, size)
    <3> PICK z : z = CASE c.acc[n].kind \notin Wordy -> 0
                      [] TextOf(e.block) > 0 -> TextOf(e.block)
                      [] OTHER -> c.acc[n].size
      OBVIOUS
    <3>1. z = size
      <4>1. CASE s.acc[n].kind \notin Wordy
        <5>1. TextOf(e.block) = 0  BY <4>1 DEF TextOf, KindsOf, TypeOf, Wordy
        <5>2. c.acc[n].kind \notin Wordy /\ size = 0  BY <2>1, <4>1
        <5> QED  BY <5>1, <5>2
      <4>2. CASE s.acc[n].kind \in Wordy /\ TextOf(e.block) > 0  BY <2>1, <4>2
      <4>3. CASE s.acc[n].kind \in Wordy /\ ~(TextOf(e.block) > 0)  BY <2>1, <4>3
      <4> QED  BY <4>1, <4>2, <4>3
    <3>2. MapBlockStop(c, e) = Durable(c, TypeOf(c.acc[n].kind), BlockKey(c, n), z)
      BY Zenon DEF MapBlockStop
    <3> QED  BY <2>1, <3>1, <3>2 DEF BlockKey
  <2>3. Durable(c, type, <<s.turn, n>>, size) = [c EXCEPT !.seq = s.seq + 1, !.durable = Append(s.durable, d)]
    BY <2>1 DEF Durable
  <2> QED  BY <1>0, <1>7, <2>2, <2>3 DEF Gatherings
<1> HIDE DEF calls
<1>9. /\ t \in Gatherings /\ t.turn = s.turn /\ t.acc = s.acc /\ t.shown = s.shown
      /\ t.durable = Append(s.durable, d) /\ t.blocks = Append(s.blocks, e.block) /\ t.calls = calls
      /\ t.opened = s.opened /\ t.next = s.next /\ t.held = s.held
  <2> PICK D \in Seq(Durables) : D = Append(s.durable, d)  BY <1>6
  <2> PICK B \in Seq(ContentBlock) : B = Append(s.blocks, e.block)  BY <1>6
  <2> PICK C \in Seq(Nat) : C = calls  BY <1>6
  <2> PICK q \in Nat : q = s.seq + 1  BY <1>1
  <2>1. t = [s EXCEPT !.blocks = B, !.calls = C, !.seq = q, !.durable = D]  BY <1>8
  <2>2. /\ t \in Gatherings /\ t.turn = s.turn /\ t.acc = s.acc /\ t.shown = s.shown
        /\ t.durable = D /\ t.blocks = B /\ t.calls = C /\ t.opened = s.opened /\ t.next = s.next /\ t.held = s.held
    BY ONLY <1>0, <2>1, D \in Seq(Durables), B \in Seq(ContentBlock), C \in Seq(Nat), q \in Nat DEF Gatherings
  <2> QED  BY <2>2
<1>10. 0 \notin DOMAIN s.acc  BY <1>0 DEF AccIsShown
<1> HIDE DEF d, type, size
<1>11. EventsAreKeyed(t.turn, t.acc, t.durable, 0)
  BY <1>0, <1>1, <1>5, <1>9, <1>10, KeyedAppend DEF size
<1>12. BlocksAreTold(t.durable, t.blocks, t.calls)
  <2>1. d.type \in Spoken /\ e.block.kind \in KindsOf(d.type)  BY <1>4, <1>5 DEF type
  <2>2. calls = IF d.type = "tool_started" THEN Append(s.calls, n) ELSE s.calls
    BY <1>4, <1>5 DEF calls
  <2> QED  BY <1>0, <1>1, <1>3, <1>5, <1>9, <2>1, <2>2, ToldAppend, ZenonT(60)
<1>13. Pairs(t.durable) = Append(meant, <<type, size>>)  BY <1>0, <1>1, <1>5, <1>9, PairsAppend
<1>14. AccIsShown(t.turn, t.acc, t.shown, top)  BY <1>0, <1>9
<1>15. Heard(t, Append(meant, <<type, size>>), 0, top)  BY <1>9, <1>11, <1>12, <1>13, <1>14 DEF Heard
<1> QED  BY <1>9, <1>15 DEF type, size, OnlyTells

\* A raw event that no one knows is recorded as such.
LEMMA RawIsKept ==
  ASSUME NEW s, NEW meant, NEW top, NEW n, Heard(s, meant, n, top),
         NEW t, t = Durable(s, "ai_raw", <<>>, 0)
  PROVE  /\ Heard(t, Append(meant, <<"ai_raw", 0>>), n, top)
         /\ OnlyTells(s, t)
<1> DEFINE d == [seq |-> s.seq + 1, type |-> "ai_raw", turn |-> s.turn, key |-> <<>>, size |-> 0]
<1>0. s \in Gatherings /\ EventsAreKeyed(s.turn, s.acc, s.durable, n)
      /\ AccIsShown(s.turn, s.acc, s.shown, top) /\ BlocksAreTold(s.durable, s.blocks, s.calls)
      /\ Pairs(s.durable) = meant
  BY DEF Heard
<1>1. s.turn \in Nat /\ s.durable \in Seq(Durables) /\ s.seq \in Nat  BY <1>0 DEF Gatherings
<1>2. d \in Durables /\ d.type = "ai_raw" /\ d.turn = s.turn /\ d.key = <<>> /\ d.size = 0
  BY <1>1 DEF Durables, Keys, EventNames
<1>3. t = [s EXCEPT !.seq = s.seq + 1, !.durable = Append(s.durable, d)]  BY <1>0 DEF Durable, Gatherings
<1> HIDE DEF d
<1>4. Append(s.durable, d) \in Seq(Durables)  BY <1>1, <1>2
<1>5. /\ t \in Gatherings /\ t.turn = s.turn /\ t.acc = s.acc /\ t.shown = s.shown
      /\ t.durable = Append(s.durable, d) /\ t.blocks = s.blocks /\ t.calls = s.calls
      /\ t.opened = s.opened /\ t.next = s.next /\ t.held = s.held
  <2> PICK D \in Seq(Durables) : D = Append(s.durable, d)  BY <1>4
  <2> PICK q \in Nat : q = s.seq + 1  BY <1>1
  <2>1. t = [s EXCEPT !.seq = q, !.durable = D]  BY <1>3
  <2>2. /\ t \in Gatherings /\ t.turn = s.turn /\ t.acc = s.acc /\ t.shown = s.shown
        /\ t.durable = D /\ t.blocks = s.blocks /\ t.calls = s.calls
        /\ t.opened = s.opened /\ t.next = s.next /\ t.held = s.held
    BY ONLY <1>0, <2>1, D \in Seq(Durables), q \in Nat DEF Gatherings
  <2> QED  BY <2>2
<1>6. EventsAreKeyed(t.turn, t.acc, t.durable, n)  BY <1>0, <1>1, <1>2, <1>5, RawIsKeyed
<1>7. BlocksAreTold(t.durable, t.blocks, t.calls)  BY <1>0, <1>1, <1>2, <1>5, RawIsTold
<1>8. Pairs(t.durable) = Append(meant, <<"ai_raw", 0>>)  BY <1>0, <1>1, <1>2, <1>5, PairsAppend
<1>9. AccIsShown(t.turn, t.acc, t.shown, top)  BY <1>0, <1>5
<1>10. Heard(t, Append(meant, <<"ai_raw", 0>>), n, top)  BY <1>5, <1>6, <1>7, <1>8, <1>9 DEF Heard
<1> QED  BY <1>5, <1>10 DEF OnlyTells

-----------------------------------------------------------------------------
(* What is gathered by each raw event.                                     *)

\* Between two blocks none is open, and the next one may be opened.
LEMMA NextIsUnknown ==
  ASSUME NEW s, NEW meant, NEW n \in Nat \ {0}, Gathered(s, meant, 0, n - 1)
  PROVE  Gathered(s, meant, n, n) /\ n \notin DOMAIN s.acc /\ s \in Gatherings
<1>1. Heard(s, meant, 0, n - 1) /\ MapperIsOpen(s, 0)  BY DEF Gathered
<1>2. /\ s \in Gatherings /\ Pairs(s.durable) = meant /\ AccIsShown(s.turn, s.acc, s.shown, n - 1)
      /\ EventsAreKeyed(s.turn, s.acc, s.durable, 0) /\ BlocksAreTold(s.durable, s.blocks, s.calls)
  BY <1>1 DEF Heard
<1>3. \A i \in DOMAIN s.acc : i \in 1 .. n - 1 /\ i \in 1 .. n /\ i # n /\ i # 0
  BY <1>2 DEF AccIsShown
<1>4. AccIsShown(s.turn, s.acc, s.shown, n)  BY <1>2, <1>3 DEF AccIsShown
<1> PICK turn : turn = s.turn  OBVIOUS
<1> PICK acc : acc = s.acc  OBVIOUS
<1> PICK durable : durable = s.durable  OBVIOUS
<1>5. EventsAreKeyed(turn, acc, durable, n)
  <2>1. EventsAreKeyed(turn, acc, durable, 0)  BY <1>2
  <2>2. \A i \in DOMAIN acc : i # n /\ i # 0  BY <1>3
  <2> QED  BY <2>1, <2>2 DEF EventsAreKeyed
<1>6. MapperIsOpen(s, n)
  <2>1. DOMAIN s.acc \cap {0} = {} /\ DOMAIN s.acc \cap {n} = {}  BY <1>3
  <2> QED  BY <1>1, <2>1 DEF MapperIsOpen
<1> QED  BY <1>2, <1>3, <1>4, <1>5, <1>6 DEF Gathered, Heard

\* What the mapper keeps for itself is no matter to what is gathered.
LEMMA OpenedIsKept ==
  ASSUME NEW s, NEW meant, NEW open, NEW top, Heard(s, meant, open, top),
         NEW opened \in Maps(ContentBlock), NEW t, t = [s EXCEPT !.opened = opened]
  PROVE  /\ Heard(t, meant, open, top) /\ t.opened = opened /\ t.acc = s.acc
         /\ t.turn = s.turn /\ t.shown = s.shown /\ t.durable = s.durable /\ t.next = s.next /\ t.held = s.held
<1>1. s \in Gatherings  BY DEF Heard
<1>2. /\ t \in Gatherings /\ t.turn = s.turn /\ t.acc = s.acc /\ t.shown = s.shown
      /\ t.durable = s.durable /\ t.blocks = s.blocks /\ t.calls = s.calls /\ t.opened = opened
      /\ t.next = s.next /\ t.held = s.held
  BY <1>1 DEF Gatherings
<1>3. Heard(t, meant, open, top)  BY <1>2, KeptAlike
<1> QED  BY <1>2, <1>3

LEMMA EventIs ==
  ASSUME NEW type, NEW index, NEW kind, NEW size, NEW t
  PROVE  /\ RawEvent(type, index, kind, size).raw = type
         /\ RawEvent(type, index, kind, size).index = index
         /\ RawEvent(type, index, kind, size).kind = kind
         /\ RawEvent(type, index, kind, size).size = size
         /\ Event(t, RawEvent(type, index, kind, size)) = [t |-> t, index |-> index, kind |-> kind]
         /\ BlockStart(RawEvent(type, index, kind, size))
              = <<[t |-> "block_start", index |-> index, kind |-> BlockKind(kind)]>>
BY DEF RawEvent, Event, BlockStart

\* Reading an answer changes no earlier turn, and not where the next block is.
LEMMA SameTurnIs ==
  ASSUME NEW s, NEW t, t.turn = s.turn, t.next = s.next /\ t.held = s.held, t.shown = s.shown
  PROVE  SameTurn(s, t)
BY DEF SameTurn, ShownOnlyOf

OpensInNormalizer(s, t, n, kind) ==
  /\ DOMAIN t.acc = DOMAIN s.acc \cup {n} /\ t.acc[n] = [kind |-> kind, size |-> 0]
  /\ t.turn = s.turn /\ t.shown = s.shown /\ t.durable = s.durable /\ t.next = s.next /\ t.held = s.held
  /\ t.opened = s.opened

LEMMA StartIsTaken ==
  ASSUME NEW s, NEW meant, NEW top \in Nat, NEW n \in 1 .. top, Heard(s, meant, n, top),
         n \notin DOMAIN s.acc, NEW kind \in BlockNames,
         NEW t, t = Take(s, [t |-> "block_start", index |-> n, kind |-> kind])
  PROVE  Heard(t, meant, n, top) /\ OpensInNormalizer(s, t, n, kind)
<1> PICK b \in ContentBlock : b = [kind |-> kind, size |-> 0]  BY DEF ContentBlock
<1>0. b.size = 0  OBVIOUS
<1>1. t = [s EXCEPT !.acc = Put(@, n, b)]  BY DEF Take
<1>2. s \in Gatherings  BY DEF Heard
<1>3. s.acc \in Maps(ContentBlock) /\ n \in Nat  BY <1>2 DEF Gatherings
<1>4. /\ Put(s.acc, n, b) \in Maps(ContentBlock) /\ DOMAIN Put(s.acc, n, b) = DOMAIN s.acc \cup {n}
      /\ Put(s.acc, n, b)[n] = b
  <2>1. Put(s.acc, n, b) \in Maps(ContentBlock) /\ HasPut(Put(s.acc, n, b), s.acc, n, b)  BY <1>3, PutIs
  <2> QED  BY <2>1 DEF HasPut
<1>5. /\ t \in Gatherings /\ t.turn = s.turn /\ t.acc = Put(s.acc, n, b) /\ t.shown = s.shown
      /\ t.durable = s.durable /\ t.opened = s.opened /\ t.next = s.next /\ t.held = s.held
  <2> PICK acc \in Maps(ContentBlock) : acc = Put(s.acc, n, b)  BY <1>4
  <2>1. t = [s EXCEPT !.acc = acc]  BY <1>1, <1>2 DEF Gatherings
  <2> QED  BY <1>2, <2>1 DEF Gatherings
<1>6. Heard(t, meant, n, top)  BY <1>0, <1>1, <1>5, StartIsKept
<1> QED  BY <1>4, <1>5, <1>6 DEF OpensInNormalizer

\* A block that announces itself is opened by the normalizer and by the mapper.
LEMMA ReadStart ==
  ASSUME NEW s, NEW meant, NEW n \in Nat \ {0}, Gathered(s, meant, 0, n - 1),
         NEW kind \in BlockKinds \ {"other"}, path = "family" \/ kind = "call", path \in Paths,
         NEW t, t = Read(s, RawEvent("start", n, kind, 0))
  PROVE  /\ Gathered(t, meant, n, n) /\ OpenBlock(t, [kind |-> kind, size |-> 0], n)
         /\ n \in DOMAIN t.acc /\ SameTurn(s, t) /\ t.durable = s.durable
<1> DEFINE raw == RawEvent("start", n, kind, 0)
           e == [t |-> "block_start", index |-> n, kind |-> BlockKind(kind)]
           u == Take(s, e)
           opened == Opened(s, raw)
<1>0. kind \in BlockNames /\ BlockKind(kind) \in BlockNames /\ kind # "other"
  BY DEF BlockKinds, BlockNames, BlockKind, Paths
<1>1. Gathered(s, meant, n, n) /\ n \notin DOMAIN s.acc /\ s \in Gatherings  BY NextIsUnknown
<1>2. Heard(s, meant, n, n) /\ MapperIsOpen(s, n)  BY <1>1 DEF Gathered
<1>3. Mapped(s, raw) = <<e>>
  <2>1. raw.raw = "start" /\ BlockStart(raw) = <<e>>  BY EventIs
  <2> HIDE DEF raw, e
  <2> QED  BY <2>1 DEF Mapped, Family, Converse
<1>4. TakeAll(s, Mapped(s, raw)) = u  BY <1>3, TakeOne
<1>5. n \in 1 .. n /\ n \in Nat  OBVIOUS
<1> PICK v : v = u  OBVIOUS
<1>6. /\ Heard(v, meant, n, n) /\ DOMAIN v.acc = DOMAIN s.acc \cup {n}
      /\ v.acc[n] = [kind |-> BlockKind(kind), size |-> 0]
      /\ v.turn = s.turn /\ v.shown = s.shown /\ v.durable = s.durable /\ v.next = s.next /\ v.held = s.held
  <2>1. v = Take(s, [t |-> "block_start", index |-> n, kind |-> BlockKind(kind)])  OBVIOUS
  <2>2. Heard(v, meant, n, n) /\ OpensInNormalizer(s, v, n, BlockKind(kind))
    BY <1>0, <1>1, <1>2, <1>5, <2>1, StartIsTaken
  <2> QED  BY <2>2 DEF OpensInNormalizer
<1>7. s.opened \in Maps(ContentBlock)  BY <1>1 DEF Gatherings
<1> PICK b \in ContentBlock : b = [kind |-> kind, size |-> 0]  BY <1>0 DEF ContentBlock
<1>8. opened = IF path = "family" THEN s.opened ELSE Put(s.opened, n, b)
  <2>1. raw.raw = "start" /\ raw.index = n /\ raw.kind = kind  BY EventIs
  <2> HIDE DEF raw
  <2> QED  BY <1>0, <2>1 DEF Opened
<1>9. /\ opened \in Maps(ContentBlock)
      /\ path # "family" => DOMAIN opened = DOMAIN s.opened \cup {n} /\ opened[n] = b
  <2>1. CASE path = "family"  BY <1>7, <1>8, <2>1
  <2>2. CASE path # "family"
    <3>1. /\ Put(s.opened, n, b) \in Maps(ContentBlock) /\ DOMAIN Put(s.opened, n, b) = DOMAIN s.opened \cup {n}
          /\ Put(s.opened, n, b)[n] = b
      <4>1. Put(s.opened, n, b) \in Maps(ContentBlock) /\ HasPut(Put(s.opened, n, b), s.opened, n, b)
        BY <1>5, <1>7, PutIs
      <4> QED  BY <4>1 DEF HasPut
    <3> QED  BY <1>8, <2>2, <3>1
  <2> QED  BY <2>1, <2>2
<1>10. t = [v EXCEPT !.opened = opened]  BY <1>4 DEF Read
<1> HIDE DEF raw, e, u, opened
<1>11. /\ Heard(t, meant, n, n) /\ t.opened = opened /\ t.acc = v.acc
       /\ t.turn = v.turn /\ t.shown = v.shown /\ t.durable = v.durable /\ t.next = v.next /\ t.held = v.held
  BY <1>6, <1>9, <1>10, OpenedIsKept
<1>12. MapperIsOpen(t, n)
  <2>1. CASE path = "family"  BY <1>2, <1>8, <1>11, <2>1 DEF MapperIsOpen
  <2>2. CASE path # "family"
    <3>1. DOMAIN s.opened = {}  BY <1>1, <1>2, <2>2 DEF MapperIsOpen
    <3>2. DOMAIN t.opened = {n} /\ DOMAIN t.acc \cap {n} = {n} /\ t.opened[n] = b /\ t.acc[n].size = 0
          /\ t.acc[n].kind = BlockKind(b.kind) /\ b.size = 0
      BY <1>6, <1>9, <1>11, <2>2, <3>1
    <3> QED  BY <2>2, <3>2 DEF MapperIsOpen
  <2> QED  BY <2>1, <2>2
<1>13. OpenBlock(t, b, n)
  <2>1. n \in DOMAIN t.acc /\ t.acc[n].kind = BlockKind(b.kind) /\ t.acc[n].size = 0 /\ b.size = 0
    BY <1>6, <1>11
  <2>2. path # "family" => t.opened[n].kind = b.kind  BY <1>9, <1>11
  <2> QED  BY <2>1, <2>2 DEF OpenBlock
<1>14. SameTurn(s, t)  BY <1>6, <1>11, SameTurnIs
<1> QED  BY <1>6, <1>11, <1>12, <1>13, <1>14 DEF Gathered

\* A piece of a block, which opens the block if nothing has before.
LEMMA ReadDelta ==
  ASSUME NEW s, NEW meant, NEW n \in Nat \ {0}, Gathered(s, meant, n, n), path \in Paths,
         NEW block \in ContentBlock, block.kind \in {"text", "thinking", "hidden", "call", "compaction"},
         block.kind = "compaction" => path = "family", OpenBlock(s, block, n),
         NEW t, t = Read(s, Delta(n, block.kind))
  PROVE  /\ Gathered(t, meant, n, n) /\ OpenBlock(t, [block EXCEPT !.size = @ + 1], n)
         /\ n \in DOMAIN t.acc /\ SameTurn(s, t) /\ t.durable = s.durable
<1> DEFINE kind == block.kind
           raw == Delta(n, kind)
           start == [t |-> "block_start", index |-> n, kind |-> BlockKind(kind)]
           delta == [t |-> "delta", index |-> n, kind |-> kind]
           u == TakeAll(s, Mapped(s, raw))
           opened == Opened(s, raw)
           Took(x) == /\ Heard(x, meant, n, n) /\ n \in DOMAIN x.acc /\ x.acc[n].kind = BlockKind(kind)
                      /\ x.acc[n].size = IF kind \in Wordy THEN block.size + 1 ELSE 0
                      /\ SameTurn(s, x) /\ x.durable = s.durable
<1>0. /\ kind \in BlockNames /\ BlockKind(kind) \in BlockNames /\ kind # "other" /\ block.size \in Nat
      /\ block = [kind |-> kind, size |-> block.size]
  BY DEF BlockNames, BlockKind, ContentBlock
<1>1. Heard(s, meant, n, n) /\ MapperIsOpen(s, n) /\ s \in Gatherings  BY DEF Gathered, Heard
<1>2. s.opened \in Maps(ContentBlock) /\ s.acc \in Maps(ContentBlock)  BY <1>1 DEF Gatherings
<1>3. /\ raw.raw = "delta" /\ raw.index = n /\ raw.kind = kind /\ Event("delta", raw) = delta
      /\ BlockStart(raw) = <<start>>
  BY EventIs DEF Delta
<1> HIDE DEF raw, start, delta
<1>4. path # "family" => (Unopened(s, raw) <=> n \notin DOMAIN s.acc)
  BY <1>1, <1>3 DEF Unopened, MapperIsOpen
<1>5. ASSUME n \in DOMAIN s.acc PROVE Took(u)
  <2>1. Mapped(s, raw) = IF kind \in Wordy THEN <<delta>> ELSE <<>>
    <3>1. CASE path = "family"  BY <1>3, <3>1 DEF Mapped, Family
    <3>2. CASE path # "family"
      <4>1. Synthesized(s, raw) = <<>>  BY <1>4, <1>5, <3>2 DEF Synthesized
      <4>2. <<>> \o <<delta>> = <<delta>>  OBVIOUS
      <4>3. Converse(s, raw) = IF kind \in Wordy THEN <<>> \o <<delta>> ELSE <<>>
        BY <1>3, <1>4, <1>5, <3>2, <4>1 DEF Converse, Wordy
      <4> QED  BY <3>2, <4>2, <4>3 DEF Mapped
    <3> QED  BY <3>1, <3>2
  <2>2. CASE kind \in Wordy
    <3>1. u = Take(s, delta)  BY <2>1, <2>2, TakeOne
    <3>2. u = Shown(s, delta) /\ delta.index = n  BY <3>1 DEF Take, delta
    <3>3. Heard(u, meant, n, n) /\ ShowsPiece(s, u, n)  BY <1>1, <1>5, <3>2, DeltaIsKept
    <3> HIDE DEF u
    <3> QED  BY <1>5, <2>2, <3>3 DEF ShowsPiece, OpenBlock
  <2>3. CASE kind \notin Wordy
    <3>1. u = s  BY <2>1, <2>3, TakeNone
    <3>2. SameTurn(s, s)  BY SameTurnIs
    <3> QED  BY <1>1, <1>5, <2>3, <3>1, <3>2 DEF OpenBlock
  <2> QED  BY <2>2, <2>3
<1>6. ASSUME n \notin DOMAIN s.acc PROVE Took(u)
  <2>0. path # "family" /\ kind # "call" /\ kind # "compaction" /\ block.size = 0  BY <1>6 DEF OpenBlock
  <2>1. Mapped(s, raw) = IF kind \in Wordy THEN <<start, delta>> ELSE <<start>>
    <3>1. Synthesized(s, raw) = <<start>>  BY <1>3, <1>4, <1>6, <2>0 DEF Synthesized
    <3>2. <<start>> \o <<delta>> = <<start, delta>>
      <4>1. TwoOf(start, delta)
        <5> PICK T : T = {start, delta}  OBVIOUS
        <5>1. start \in T /\ delta \in T  OBVIOUS
        <5> QED  BY <5>1, TwoIs
      <4> QED  BY <4>1 DEF TwoOf
    <3>3. Converse(s, raw) = IF kind \in Wordy THEN <<start>> \o <<delta>> ELSE <<start>>
      BY <1>3, <2>0, <3>1 DEF Converse, Wordy
    <3> QED  BY <2>0, <3>2, <3>3 DEF Mapped
  <2> PICK v : v = Take(s, start)  OBVIOUS
  <2>2. Heard(v, meant, n, n) /\ OpensInNormalizer(s, v, n, BlockKind(kind))
    <3>1. v = Take(s, [t |-> "block_start", index |-> n, kind |-> BlockKind(kind)])  BY DEF start
    <3>2. n \in 1 .. n /\ n \in Nat  OBVIOUS
    <3> QED  BY <1>0, <1>1, <1>6, <3>1, <3>2, StartIsTaken
  <2>3. /\ n \in DOMAIN v.acc /\ v.acc[n].kind = BlockKind(kind) /\ v.acc[n].size = 0
        /\ SameTurn(s, v) /\ v.durable = s.durable
    BY <2>2, SameTurnIs DEF OpensInNormalizer
  <2>4. CASE kind \in Wordy
    <3>1. u = Take(v, delta)  BY <2>1, <2>4, TakeTwo
    <3>2. u = Shown(v, delta) /\ delta.index = n  BY <3>1 DEF Take, delta
    <3>3. Heard(u, meant, n, n) /\ ShowsPiece(v, u, n)  BY <2>2, <2>3, <3>2, DeltaIsKept
    <3> HIDE DEF u
    <3>4. v.turn = s.turn /\ v.shown = s.shown /\ v.next = s.next /\ v.held = s.held  BY <2>2 DEF OpensInNormalizer
    <3>5. SameTurn(s, u)  BY <3>3, <3>4 DEF ShowsPiece, SameTurn
    <3> QED  BY <2>0, <2>3, <2>4, <3>3, <3>5 DEF ShowsPiece
  <2>5. CASE kind \notin Wordy
    <3>1. u = v  BY <2>1, <2>5, TakeOne
    <3> QED  BY <2>2, <2>3, <2>5, <3>1
  <2> QED  BY <2>4, <2>5
<1> HIDE DEF u
<1>7. Took(u)  BY <1>5, <1>6
<1> PICK b \in ContentBlock : b = [kind |-> kind, size |-> 1 + IF Unopened(s, raw) THEN 0 ELSE s.opened[n].size]
  <2>1. ~Unopened(s, raw) => s.opened[n] \in ContentBlock  BY <1>2, <1>3, MapsIs DEF Unopened
  <2>2. ~Unopened(s, raw) => s.opened[n].size \in Nat  BY <2>1 DEF ContentBlock
  <2> PICK size \in Nat : size = 1 + IF Unopened(s, raw) THEN 0 ELSE s.opened[n].size  BY <2>2
  <2>3. [kind |-> kind, size |-> size] \in ContentBlock  BY <1>0 DEF ContentBlock
  <2> QED  BY <2>3
<1>8. opened = IF path = "family" THEN s.opened ELSE Put(s.opened, n, b)  BY <1>0, <1>3 DEF Opened
<1>9. opened \in Maps(ContentBlock) /\ (path # "family" => HasPut(opened, s.opened, n, b))
  BY <1>2, <1>8, PutIs
<1>10. t = [u EXCEPT !.opened = opened]  BY DEF Read, u, raw
<1> HIDE DEF opened
<1>11. /\ Heard(t, meant, n, n) /\ t.opened = opened /\ t.acc = u.acc
       /\ t.turn = u.turn /\ t.shown = u.shown /\ t.durable = u.durable /\ t.next = u.next /\ t.held = u.held
  BY <1>7, <1>9, <1>10, OpenedIsKept
<1>12. path # "family" => /\ DOMAIN t.opened = {n} /\ t.opened[n].kind = kind
                          /\ t.opened[n].size = 1 + IF n \in DOMAIN s.acc THEN s.opened[n].size ELSE 0
  BY <1>1, <1>4, <1>9, <1>11 DEF HasPut, MapperIsOpen
<1>13. MapperIsOpen(t, n)
  <2>1. CASE path = "family"  BY <1>1, <1>8, <1>11, <2>1 DEF MapperIsOpen
  <2>2. CASE path # "family"
    <3>1. kind \in Wordy => t.opened[n].size = t.acc[n].size
      <4>1. CASE n \in DOMAIN s.acc
        <5>1. n \in DOMAIN s.opened /\ s.opened[n].kind = kind  BY <1>1, <2>2, <4>1 DEF MapperIsOpen, OpenBlock
        <5>2. kind \in Wordy => s.opened[n].size = s.acc[n].size /\ s.acc[n].size = block.size
          BY <1>1, <2>2, <4>1, <5>1 DEF MapperIsOpen, OpenBlock
        <5> QED  BY <1>0, <1>7, <1>11, <1>12, <2>2, <4>1, <5>2
      <4>2. CASE n \notin DOMAIN s.acc
        <5>1. block.size = 0  BY <4>2 DEF OpenBlock
        <5> QED  BY <1>7, <1>11, <1>12, <2>2, <4>2, <5>1
      <4> QED  BY <4>1, <4>2
    <3>2. DOMAIN t.opened = DOMAIN t.acc \cap {n} /\ t.acc[n].kind = BlockKind(t.opened[n].kind)
      BY <1>7, <1>11, <1>12, <2>2
    <3> QED  BY <1>12, <2>2, <3>1, <3>2 DEF MapperIsOpen
  <2> QED  BY <2>1, <2>2
<1>14. OpenBlock(t, [block EXCEPT !.size = @ + 1], n)
  <2> PICK c : c = [block EXCEPT !.size = @ + 1]  OBVIOUS
  <2>1. c.kind = kind /\ c.size = block.size + 1  BY <1>0
  <2> QED  BY <1>7, <1>11, <1>12, <2>1 DEF OpenBlock
<1>15. SameTurn(s, t)  BY <1>7, <1>11 DEF SameTurn
<1> QED  BY <1>7, <1>11, <1>13, <1>14, <1>15 DEF Gathered

\* The end of a block records what the block means.
LEMMA ReadStop ==
  ASSUME NEW s, NEW meant \in Meanings, NEW n \in Nat \ {0}, Gathered(s, meant, n, n), path \in Paths,
         NEW block \in ContentBlock, block.kind \in {"text", "thinking", "hidden", "call", "compaction"},
         block.kind = "hidden" => path # "replay",
         OpenBlock(s, block, n), n \in DOMAIN s.acc, NEW size \in Nat,
         path = "family" => size = block.size \/ (block.kind = "thinking" /\ size = 0),
         NEW t, t = Read(s, RawEvent("stop", n, block.kind, size))
  PROVE  Gathered(t, meant \o Meaning(path, block), 0, n) /\ SameTurn(s, t)
<1> DEFINE kind == block.kind
           raw == RawEvent("stop", n, kind, size)
           kept == IF path = "family" THEN [kind |-> kind, size |-> size] ELSE s.opened[n]
           e == [t |-> "block_stop", index |-> n, kind |-> kind, block |-> kept]
           type == TypeOf(BlockKind(kind))
           u == Take(s, e)
           opened == Opened(s, raw)
<1>0. kind \in BlockNames /\ kind # "other" /\ block.size \in Nat  BY DEF BlockNames, ContentBlock
<1>1. Heard(s, meant, n, n) /\ MapperIsOpen(s, n) /\ s \in Gatherings  BY DEF Gathered, Heard
<1>2. s.opened \in Maps(ContentBlock) /\ s.acc \in Maps(ContentBlock) /\ n \in Nat  BY <1>1 DEF Gatherings
<1>3. /\ s.acc[n].kind = BlockKind(kind)
      /\ s.acc[n].size = IF kind \in Wordy THEN block.size ELSE 0
  BY DEF OpenBlock
<1>4. path # "family" => /\ n \in DOMAIN s.opened /\ s.opened[n].kind = kind /\ DOMAIN s.opened = {n}
                         /\ kind \in Wordy => s.opened[n].size = s.acc[n].size
  BY <1>1 DEF OpenBlock, MapperIsOpen
<1>5. raw.raw = "stop" /\ raw.index = n /\ raw.kind = kind /\ raw.size = size  BY EventIs
<1> HIDE DEF raw
<1>6. Mapped(s, raw) = <<e>>
  <2>1. CASE path = "family"
    <3>1. Family(raw) = BlockStop(raw, [kind |-> kind, size |-> size])  BY <1>5 DEF Family
    <3> QED  BY <1>5, <2>1, <3>1 DEF Mapped, BlockStop
  <2>2. CASE path # "family"
    <3>1. ~Unopened(s, raw)  BY <1>4, <1>5, <2>2 DEF Unopened
    <3>2. Converse(s, raw) = BlockStop(raw, s.opened[n])  BY <1>5, <3>1 DEF Converse
    <3> QED  BY <1>5, <2>2, <3>2 DEF Mapped, BlockStop
  <2> QED  BY <2>1, <2>2
<1>7. TakeAll(s, Mapped(s, raw)) = u  BY <1>6, TakeOne
<1>8. u = MapBlockStop(Collect(s, e), e) /\ e.index = n /\ e.block = kept  BY DEF Take
<1>9. kept \in ContentBlock /\ kept.kind = kind
  <2>1. CASE path = "family"  BY <1>0, <2>1 DEF ContentBlock
  <2>2. CASE path # "family"
    <3>1. s.opened[n] \in ContentBlock  BY <1>2, <1>4, <2>2, MapsIs
    <3> QED  BY <1>4, <2>2, <3>1
  <2> QED  BY <2>1, <2>2
<1>10. IF s.acc[n].kind \in Wordy THEN TextOf(kept) \in {0, s.acc[n].size} ELSE s.acc[n].size = 0
  <2>1. CASE kind = "text"
    <3>1. s.acc[n].size = block.size  BY <1>3, <2>1 DEF Wordy
    <3>2. kept.size = block.size  BY <1>3, <1>4, <2>1, <3>1 DEF Wordy
    <3>3. TextOf(kept) = kept.size /\ s.acc[n].kind = "text"  BY <1>3, <1>9, <2>1 DEF TextOf, BlockKind
    <3> QED  BY <3>1, <3>2, <3>3 DEF Wordy
  <2>2. CASE kind = "thinking"
    <3>1. s.acc[n].size = block.size /\ s.acc[n].kind = "thinking"  BY <1>3, <2>2 DEF Wordy, BlockKind
    <3>2. path = "family" => kept.size \in {0, block.size}  BY <2>2
    <3> QED  BY <1>9, <2>2, <3>1, <3>2 DEF TextOf, Wordy
  <2>3. CASE kind \in {"hidden", "call", "compaction"}
    <3>1. s.acc[n].size = 0 /\ TextOf(kept) = 0  BY <1>3, <1>9, <2>3 DEF TextOf, Wordy
    <3> QED  BY <3>1
  <2> QED  BY <2>1, <2>2, <2>3
<1>11. /\ s.acc[n].kind \in {"text", "thinking", "tool_use", "compaction"}
       /\ kept.kind \in KindsOf(TypeOf(s.acc[n].kind))
  BY <1>3, <1>9 DEF BlockKind, TypeOf, KindsOf
<1>12. Meaning(path, block) = <<<<type, s.acc[n].size>>>>
  <2>1. CASE kind \in Wordy
    <3>1. Meaning(path, block) = <<<<TypeOf(kind), block.size>>>> /\ BlockKind(kind) = kind
      BY <2>1 DEF Meaning, Wordy, BlockKind
    <3> QED  BY <1>3, <2>1, <3>1
  <2>2. CASE kind = "hidden"  BY <1>3, <2>2 DEF Meaning, Wordy, BlockKind, TypeOf
  <2>3. CASE kind = "call"  BY <1>3, <2>3 DEF Meaning, Wordy, BlockKind, TypeOf
  <2>4. CASE kind = "compaction"  BY <1>3, <2>4 DEF Meaning, Wordy, BlockKind, TypeOf
  <2> QED  BY <2>1, <2>2, <2>3, <2>4 DEF Wordy
<1>13. type \in EventNames /\ s.acc[n].size \in Nat
  <2>1. s.acc[n] \in ContentBlock  BY <1>2, MapsIs
  <2> QED  BY <2>1 DEF type, TypeOf, BlockKind, EventNames, ContentBlock
<1>14. meant \o Meaning(path, block) = Append(meant, <<type, s.acc[n].size>>)
  <2> PICK x \in EventNames \X Nat : x = <<type, s.acc[n].size>>  BY <1>13
  <2>1. meant \o <<x>> = Append(meant, x)  BY AppendIsConcat DEF Meanings
  <2> QED  BY <1>12, <2>1
<1> PICK v : v = u  OBVIOUS
<1>15. Heard(v, Append(meant, <<type, s.acc[n].size>>), 0, n) /\ OnlyTells(s, v)
  <2>1. v = MapBlockStop(Collect(s, e), e) /\ e.block \in ContentBlock  BY <1>8, <1>9
  <2>2. TypeOf(s.acc[n].kind) = type  BY <1>3
  <2> HIDE DEF e, u, kept, type
  <2>3. Heard(v, Append(meant, <<TypeOf(s.acc[n].kind), s.acc[n].size>>), 0, n) /\ OnlyTells(s, v)
    BY <1>1, <1>2, <1>8, <1>10, <1>11, <2>1, StopIsKept
  <2> QED  BY <2>2, <2>3
<1>16. opened \in Maps(ContentBlock) /\ (path = "family" => opened = s.opened) /\ (path # "family" => DOMAIN opened = {})
  <2>1. CASE path = "family"  BY <1>2, <2>1 DEF Opened
  <2>2. CASE path # "family"
    <3>1. opened = [i \in DOMAIN s.opened \ {n} |-> s.opened[i]]  BY <1>0, <1>5, <2>2 DEF Opened
    <3>2. DOMAIN s.opened \ {n} = {}  BY <1>4, <2>2
    <3>3. DOMAIN opened = {} /\ opened = [i \in DOMAIN opened |-> opened[i]]  BY <3>1, <3>2
    <3> HIDE DEF opened
    <3> QED  BY <2>2, <3>3, MapsIs
  <2> QED  BY <2>1, <2>2
<1>17. t = [v EXCEPT !.opened = opened]  BY <1>7 DEF Read, raw
<1> HIDE DEF opened, u, e, kept, type
<1>18. /\ Heard(t, Append(meant, <<type, s.acc[n].size>>), 0, n) /\ t.opened = opened /\ t.acc = v.acc
       /\ t.turn = v.turn /\ t.shown = v.shown /\ t.durable = v.durable /\ t.next = v.next /\ t.held = v.held
  BY <1>15, <1>16, <1>17, OpenedIsKept
<1>19. MapperIsOpen(t, 0)
  <2>1. 0 \notin DOMAIN t.acc  BY <1>18 DEF Heard, AccIsShown
  <2>2. DOMAIN t.acc \cap {0} = {}  BY <2>1
  <2>3. path = "family" => t.opened = <<>>  BY <1>1, <1>16, <1>18 DEF MapperIsOpen
  <2>4. path # "family" => DOMAIN t.opened = {}  BY <1>16, <1>18
  <2> QED  BY <2>2, <2>3, <2>4 DEF MapperIsOpen
<1>20. SameTurn(s, t)
  <2>1. t.turn = s.turn /\ t.next = s.next /\ t.held = s.held /\ t.shown = s.shown  BY <1>15, <1>18 DEF OnlyTells
  <2> QED  BY <2>1, SameTurnIs
<1> QED  BY <1>14, <1>18, <1>19, <1>20 DEF Gathered

\* A block that no one knows is recorded as a raw event.
LEMMA ReadRaw ==
  ASSUME NEW s, NEW meant, NEW n \in Nat \ {0}, Gathered(s, meant, 0, n - 1), path # "family",
         NEW t, t = Read(s, Delta(n, "other"))
  PROVE  Gathered(t, Append(meant, <<"ai_raw", 0>>), 0, n) /\ SameTurn(s, t)
<1> DEFINE raw == Delta(n, "other")
           e == [t |-> "raw", index |-> n, kind |-> "other"]
           u == Take(s, e)
<1>1. Heard(s, meant, 0, n - 1) /\ MapperIsOpen(s, 0) /\ s \in Gatherings  BY DEF Gathered, Heard
<1>2. raw.raw = "delta" /\ raw.index = n /\ raw.kind = "other" /\ Event("raw", raw) = e
  BY EventIs DEF Delta
<1> HIDE DEF raw
<1>3. Mapped(s, raw) = <<e>>
  <2>1. Converse(s, raw) = <<Event("raw", raw)>>  BY <1>2 DEF Converse, Wordy
  <2> QED  BY <1>2, <2>1 DEF Mapped
<1>4. TakeAll(s, Mapped(s, raw)) = u  BY <1>3, TakeOne
<1>5. u = Durable(s, "ai_raw", <<>>, 0)  BY DEF Take
<1> PICK v : v = u  OBVIOUS
<1>6. Heard(v, Append(meant, <<"ai_raw", 0>>), 0, n - 1) /\ OnlyTells(s, v)  BY <1>1, <1>5, RawIsKept
<1>7. t = [v EXCEPT !.opened = s.opened]
  <2>1. Opened(s, raw) = s.opened  BY <1>2 DEF Opened
  <2> QED  BY <1>4, <2>1 DEF Read, raw
<1>8. s.opened \in Maps(ContentBlock)  BY <1>1 DEF Gatherings
<1> HIDE DEF u
<1>9. /\ Heard(t, Append(meant, <<"ai_raw", 0>>), 0, n - 1) /\ t.opened = s.opened /\ t.acc = v.acc
      /\ t.turn = v.turn /\ t.shown = v.shown /\ t.durable = v.durable /\ t.next = v.next /\ t.held = v.held
  BY <1>6, <1>7, <1>8, OpenedIsKept
<1>10. t.acc = s.acc /\ t.turn = s.turn /\ t.shown = s.shown /\ t.next = s.next /\ t.held = s.held
  BY <1>6, <1>9 DEF OnlyTells
<1>11. MapperIsOpen(t, 0)  BY <1>1, <1>9, <1>10 DEF MapperIsOpen
<1>12. AccIsShown(t.turn, t.acc, t.shown, n)
  <2>1. AccIsShown(t.turn, t.acc, t.shown, n - 1)  BY <1>9 DEF Heard
  <2>2. \A i \in 1 .. n - 1 : i \in 1 .. n  OBVIOUS
  <2> QED  BY <2>1, <2>2 DEF AccIsShown
<1>13. Heard(t, Append(meant, <<"ai_raw", 0>>), 0, n)  BY <1>9, <1>12 DEF Heard
<1>14. SameTurn(s, t)  BY <1>10, SameTurnIs
<1> QED  BY <1>11, <1>13, <1>14 DEF Gathered

LEMMA SameTurnAgain ==
  ASSUME NEW s, NEW t, NEW u, SameTurn(s, t), SameTurn(t, u)
  PROVE  SameTurn(s, u)
<1>1. t.turn = s.turn /\ u.turn = s.turn /\ u.next = s.next /\ u.held = s.held  BY DEF SameTurn
<1>2. ShownOnlyOf(s.turn, s.shown, t.shown) /\ ShownOnlyOf(s.turn, t.shown, u.shown)
  BY <1>1 DEF SameTurn
<1>3. ShownOnlyOf(s.turn, s.shown, u.shown)  BY <1>2 DEF ShownOnlyOf
<1> QED  BY <1>1, <1>3 DEF SameTurn

TwoMore(m, x, y) == (m \o <<x>>) \o <<y>> = m \o <<x, y>>

FiveIn(a, b, c, d, e) == <<a, b>> \o <<c, d, e>> = <<a, b, c, d, e>>

LEMMA FiveOf ==
  ASSUME NEW a, NEW b, NEW c, NEW d, NEW e  PROVE FiveIn(a, b, c, d, e)
<1> DEFINE T == {a, b, c, d, e}
<1>1. <<a, b>> \in Seq(T) /\ <<c, d, e>> \in Seq(T) /\ <<a, b, c, d, e>> \in Seq(T)  OBVIOUS
<1> PICK f \in Seq(T) : f = <<a, b>>  BY <1>1
<1> PICK g \in Seq(T) : g = <<c, d, e>>  BY <1>1
<1>2. Len(f) = 2 /\ f[1] = a /\ f[2] = b /\ Len(g) = 3 /\ g[1] = c /\ g[2] = d /\ g[3] = e  OBVIOUS
<1> HIDE DEF T
<1>3. f \o g \in Seq(T) /\ Len(f \o g) = 5  BY <1>2
<1>4. (f \o g)[1] = a /\ (f \o g)[2] = b /\ (f \o g)[3] = c /\ (f \o g)[4] = d /\ (f \o g)[5] = e
  BY <1>2
<1> PICK h \in Seq(T) : h = f \o g  BY <1>3
<1> PICK k \in Seq(T) : k = <<a, b, c, d, e>>  BY <1>1
<1>5. Len(k) = 5 /\ k[1] = a /\ k[2] = b /\ k[3] = c /\ k[4] = d /\ k[5] = e  OBVIOUS
<1>6. h = [i \in 1 .. 5 |-> h[i]] /\ k = [i \in 1 .. 5 |-> k[i]]
  BY <1>3, <1>5, SeqIsItsElements DEF IsItsElements
<1>7. \A i \in 1 .. 5 : i = 1 \/ i = 2 \/ i = 3 \/ i = 4 \/ i = 5  OBVIOUS
<1>8. \A i \in 1 .. 5 : h[i] = k[i]  BY <1>4, <1>5, <1>7
<1>9. h = k  BY <1>6, <1>8
<1> QED  BY <1>9 DEF FiveIn

LEMMA TwoMoreIs ==
  ASSUME NEW T, NEW m \in Seq(T), NEW x \in T, NEW y \in T  PROVE TwoMore(m, x, y)
<1>1. <<x>> \in Seq(T) /\ <<y>> \in Seq(T)  OBVIOUS
<1>2. (m \o <<x>>) \o <<y>> = m \o (<<x>> \o <<y>>)  BY <1>1, ConcatAssociative
<1>3. TwoOf(x, y)  BY TwoIs
<1> QED  BY <1>2, <1>3 DEF TwoMore, TwoOf

\* A text is replayed as one piece, and its end.
LEMMA ReplayTextIs ==
  ASSUME NEW s, NEW meant \in Meanings, NEW n \in Nat \ {0}, Gathered(s, meant, 0, n - 1),
         path = "replay", NEW kind \in Wordy,
         NEW t, t = Read(Read(s, Delta(n, kind)), Stop(n, kind))
  PROVE  Gathered(t, meant \o <<<<TypeOf(kind), 1>>>>, 0, n) /\ SameTurn(s, t)
<1> PICK b \in ContentBlock : b = [kind |-> kind, size |-> 0]  BY DEF ContentBlock, Wordy, BlockNames
<1> PICK c \in ContentBlock : c = [kind |-> kind, size |-> 1]  BY DEF ContentBlock, Wordy, BlockNames
<1> PICK u : u = Read(s, Delta(n, kind))  OBVIOUS
<1>0. /\ path \in Paths /\ kind \in {"text", "thinking", "hidden", "call", "compaction"}
      /\ kind # "compaction" /\ kind # "call" /\ kind # "hidden" /\ path # "family"
  BY DEF Paths, Wordy
<1>1. Gathered(s, meant, n, n) /\ n \notin DOMAIN s.acc  BY NextIsUnknown
<1>2. OpenBlock(s, b, n)  BY <1>0, <1>1 DEF OpenBlock
<1>3. c = [b EXCEPT !.size = @ + 1]  OBVIOUS
<1>4. /\ Gathered(u, meant, n, n) /\ OpenBlock(u, c, n) /\ n \in DOMAIN u.acc /\ SameTurn(s, u)
  <2>1. u = Read(s, Delta(n, b.kind))  OBVIOUS
  <2> HIDE DEF Delta
  <2>2. /\ Gathered(u, meant, n, n) /\ OpenBlock(u, [b EXCEPT !.size = @ + 1], n)
        /\ n \in DOMAIN u.acc /\ SameTurn(s, u)
    BY <1>0, <1>1, <1>2, <2>1, ReadDelta
  <2> QED  BY <1>3, <2>2
<1>5. Gathered(t, meant \o Meaning(path, c), 0, n) /\ SameTurn(u, t)
  <2>1. t = Read(u, RawEvent("stop", n, c.kind, 1))  BY DEF Stop
  <2>2. 1 \in Nat /\ c.kind = kind  OBVIOUS
  <2> QED  BY <1>0, <1>4, <2>1, <2>2, ReadStop
<1>6. Meaning(path, c) = <<<<TypeOf(kind), 1>>>>  BY DEF Meaning, Wordy
<1>7. SameTurn(s, t)  BY <1>4, <1>5, SameTurnAgain
<1> QED  BY <1>5, <1>6, <1>7

\* A call is replayed with its start.
LEMMA ReplayCallIs ==
  ASSUME NEW s, NEW meant \in Meanings, NEW n \in Nat \ {0}, Gathered(s, meant, 0, n - 1),
         path = "replay",
         NEW t, t = Read(Read(Read(s, RawEvent("start", n, "call", 0)), Delta(n, "call")), Stop(n, "call"))
  PROVE  Gathered(t, meant \o <<<<"tool_started", 0>>>>, 0, n) /\ SameTurn(s, t)
<1> PICK b \in ContentBlock : b = [kind |-> "call", size |-> 0]  BY DEF ContentBlock, BlockNames
<1> PICK c \in ContentBlock : c = [kind |-> "call", size |-> 1]  BY DEF ContentBlock, BlockNames
<1> PICK u : u = Read(s, RawEvent("start", n, "call", 0))  OBVIOUS
<1> PICK v : v = Read(u, Delta(n, "call"))  OBVIOUS
<1>0. /\ path \in Paths /\ "call" \in {"text", "thinking", "hidden", "call", "compaction"}
      /\ path # "family" /\ "call" \in BlockKinds
  BY DEF Paths, BlockKinds
<1>1. Gathered(u, meant, n, n) /\ OpenBlock(u, b, n) /\ n \in DOMAIN u.acc /\ SameTurn(s, u)
  BY <1>0, ReadStart
<1>2. c = [b EXCEPT !.size = @ + 1]  OBVIOUS
<1>3. Gathered(v, meant, n, n) /\ OpenBlock(v, c, n) /\ n \in DOMAIN v.acc /\ SameTurn(u, v)
  <2>1. v = Read(u, Delta(n, b.kind)) /\ b.kind = "call"  OBVIOUS
  <2>2. /\ Gathered(v, meant, n, n) /\ OpenBlock(v, [b EXCEPT !.size = @ + 1], n)
        /\ n \in DOMAIN v.acc /\ SameTurn(u, v)
    BY <1>0, <1>1, <2>1, ReadDelta
  <2> QED  BY <1>2, <2>2
<1>4. Gathered(t, meant \o Meaning(path, c), 0, n) /\ SameTurn(v, t)
  <2>1. t = Read(v, RawEvent("stop", n, c.kind, 1))  BY DEF Stop
  <2>2. 1 \in Nat /\ c.kind = "call"  OBVIOUS
  <2> QED  BY <1>0, <1>3, <2>1, <2>2, ReadStop
<1>5. Meaning(path, c) = <<<<"tool_started", 0>>>>  BY DEF Meaning, Wordy
<1>6. SameTurn(s, t)  BY <1>1, <1>3, <1>4, SameTurnAgain
<1> QED  BY <1>4, <1>5, <1>6

\* A block of an answer that came in one piece, replayed as the number n of its blocks.
LEMMA ReplayIs ==
  ASSUME NEW s, NEW meant \in Meanings, NEW n \in Nat \ {0}, Gathered(s, meant, 0, n - 1),
         path = "replay", NEW block \in ContentBlock,
         block.kind \in {"text", "thinking", "hidden", "call", "told", "other"},
         block.size = 1 \/ (block.size = 0 /\ block.kind = "told"),
         NEW t, t = ReadAll(s, Replayed(block, n))
  PROVE  Gathered(t, meant \o Meaning(path, block), 0, n + Slots(block) - 1) /\ SameTurn(s, t)
<1>1. CASE block.kind \in Wordy
  <2>1. t = Read(Read(s, Delta(n, block.kind)), Stop(n, block.kind))
    BY <1>1, ReadTwo DEF Replayed, ReplayText, Wordy
  <2>2. Meaning(path, block) = <<<<TypeOf(block.kind), 1>>>>  BY <1>1 DEF Meaning, Wordy
  <2>3. Slots(block) = 1 /\ n + 1 - 1 = n  BY <1>1 DEF Slots, Wordy
  <2> QED  BY <1>1, <2>1, <2>2, <2>3, ReplayTextIs
<1>2. CASE block.kind = "call" \/ (block.kind = "told" /\ block.size = 0)
  <2>1. Replayed(block, n) = ReplayCall(n)  BY <1>2 DEF Replayed, Wordy
  <2>2. t = Read(Read(Read(s, RawEvent("start", n, "call", 0)), Delta(n, "call")), Stop(n, "call"))
    BY <2>1, ReadThree DEF ReplayCall
  <2>3. Meaning(path, block) = <<<<"tool_started", 0>>>>
    <3>1. CASE block.kind = "call"  BY <3>1 DEF Meaning, Wordy
    <3>2. CASE block.kind = "told" /\ block.size = 0
      <4>1. Meaning(path, block) = <<>> \o <<<<"tool_started", 0>>>>  BY <3>2 DEF Meaning, Wordy
      <4>2. <<>> \o <<<<"tool_started", 0>>>> = <<<<"tool_started", 0>>>>  OBVIOUS
      <4> QED  BY <4>1, <4>2
    <3> QED  BY <1>2, <3>1, <3>2
  <2>4. Slots(block) = 1 /\ n + 1 - 1 = n  BY <1>2 DEF Slots
  <2> QED  BY <2>2, <2>3, <2>4, ReplayCallIs
<1>3. CASE block.kind = "told" /\ block.size = 1
  <2> DEFINE x == <<"ai_text", 1>>
             y == <<"tool_started", 0>>
  <2> PICK u : u = Read(Read(s, Delta(n, "text")), Stop(n, "text"))  OBVIOUS
  <2> PICK m : m = n + 1  OBVIOUS
  <2>0. m \in Nat \ {0} /\ m - 1 = n /\ "text" \in Wordy  BY DEF Wordy
  <2>1. Replayed(block, n) = <<Delta(n, "text"), Stop(n, "text"), RawEvent("start", m, "call", 0),
                               Delta(m, "call"), Stop(m, "call")>>
    <3>1. Replayed(block, n) = ReplayText(n, "text") \o ReplayCall(m)  BY <1>3 DEF Replayed, Wordy
    <3>2. FiveIn(Delta(n, "text"), Stop(n, "text"), RawEvent("start", m, "call", 0),
                 Delta(m, "call"), Stop(m, "call"))
      BY FiveOf
    <3> QED  BY <3>1, <3>2 DEF ReplayText, ReplayCall, FiveIn
  <2>2. t = Read(Read(Read(u, RawEvent("start", m, "call", 0)), Delta(m, "call")), Stop(m, "call"))
    BY <2>1, ReadFive
  <2>3. Gathered(u, meant \o <<x>>, 0, n) /\ SameTurn(s, u)
    <3>1. TypeOf("text") = "ai_text"  BY DEF TypeOf
    <3>2. Gathered(u, meant \o <<<<TypeOf("text"), 1>>>>, 0, n) /\ SameTurn(s, u)  BY <2>0, ReplayTextIs
    <3> QED  BY <3>1, <3>2
  <2>4. x \in EventNames \X Nat /\ y \in EventNames \X Nat  BY DEF EventNames
  <2>5. meant \o <<x>> \in Meanings
    <3> HIDE DEF x
    <3> QED  BY <2>4 DEF Meanings
  <2>6. Gathered(t, (meant \o <<x>>) \o <<y>>, 0, m) /\ SameTurn(u, t)
    BY <2>0, <2>2, <2>3, <2>5, ReplayCallIs
  <2>7. TwoMore(meant, x, y)
    <3> HIDE DEF x, y
    <3> QED  BY <2>4, TwoMoreIs DEF Meanings
  <2>8. Meaning(path, block) = <<x, y>>
    <3>1. Meaning(path, block) = <<x>> \o <<y>>  BY <1>3 DEF Meaning, Wordy
    <3>2. TwoOf(x, y)
      <4> HIDE DEF x, y
      <4> QED  BY <2>4, TwoIs
    <3> QED  BY <3>1, <3>2 DEF TwoOf
  <2>9. Slots(block) = 2 /\ n + 2 - 1 = m  BY <1>3 DEF Slots
  <2>10. SameTurn(s, t)  BY <2>3, <2>6, SameTurnAgain
  <2> HIDE DEF x, y
  <2> QED  BY <2>6, <2>7, <2>8, <2>9, <2>10 DEF TwoMore
<1>4. CASE block.kind = "hidden"
  <2>1. t = s  BY <1>4, ReadNone DEF Replayed, Wordy
  <2>2. Meaning(path, block) = <<>> /\ meant \o <<>> = meant  BY <1>4 DEF Meaning, Wordy, Meanings
  <2>3. Slots(block) = 0 /\ n + 0 - 1 = n - 1  BY <1>4 DEF Slots
  <2> QED  BY <2>1, <2>2, <2>3, SameTurnIs
<1>5. CASE block.kind = "other"
  <2>1. t = Read(s, Delta(n, "other"))  BY <1>5, ReadOne DEF Replayed, Wordy
  <2>2. Meaning(path, block) = <<<<"ai_raw", 0>>>>  BY <1>5 DEF Meaning, Wordy
  <2>3. meant \o <<<<"ai_raw", 0>>>> = Append(meant, <<"ai_raw", 0>>)
    <3> PICK x \in EventNames \X Nat : x = <<"ai_raw", 0>>  BY DEF EventNames
    <3>1. meant \o <<x>> = Append(meant, x)  BY AppendIsConcat DEF Meanings
    <3> QED  BY <3>1
  <2>4. Slots(block) = 1 /\ n + 1 - 1 = n  BY <1>5 DEF Slots
  <2> QED  BY <2>1, <2>2, <2>3, <2>4, ReadRaw
<1> QED  BY <1>1, <1>2, <1>3, <1>4, <1>5 DEF Wordy

-----------------------------------------------------------------------------
(* What is recorded of an answer.                                          *)

EntriesOf(entries, turn) == Chosen(entries, {e \in Range(entries) : e.turn = turn})

LEMMA OfIs == ASSUME NEW a  PROVE Of(a) = EntriesOf(log, a.turn)
BY DEF Of, EntriesOf

\* What is recorded later of other turns is no matter.
LEMMA OfLater ==
  ASSUME NEW entries \in Seq(Recordings), NEW more \in Seq(Recordings), NEW turn,
         \A i \in 1 .. Len(more) : more[i].turn # turn
  PROVE  EntriesOf(entries \o more, turn) = EntriesOf(entries, turn)
<1> DEFINE S == {e \in Range(entries) : e.turn = turn}
           U == {e \in Range(entries \o more) : e.turn = turn}
           R == {}
<1>0. entries \o more \in Seq(Recordings)  OBVIOUS
<1> PICK all \in Seq(Recordings) : all = entries \o more  BY <1>0
<1>1. \A i \in 1 .. Len(entries) : entries[i] \in U <=> entries[i] \in S
  <2>1. ASSUME NEW i \in 1 .. Len(entries) PROVE entries[i] \in Range(all) /\ entries[i] \in Range(entries)
    <3>1. i \in DOMAIN entries /\ i \in DOMAIN all /\ all[i] = entries[i]  OBVIOUS
    <3> QED  BY <3>1 DEF Range
  <2> QED  BY <2>1
<1>2. \A i \in 1 .. Len(more) : more[i] \in U <=> more[i] \in R  OBVIOUS
<1>3. \A i \in 1 .. Len(more) : more[i] \notin R  OBVIOUS
<1>4. EntriesOf(entries, turn) = Chosen(entries, S) /\ EntriesOf(entries \o more, turn) = Chosen(entries \o more, U)
  BY DEF EntriesOf
<1> HIDE DEF S, U, R
<1>5. ChoosesBoth(entries, more, S, R, U)  BY <1>1, <1>2, ChosenConcat
<1>6. Chosen(more, R) = <<>>  BY <1>3, ChosenNone
<1> PICK c \in Seq(Recordings) : c = Chosen(entries, S)  BY ChosenIs
<1>7. c \o <<>> = c  OBVIOUS
<1> QED  BY <1>4, <1>5, <1>6, <1>7 DEF ChoosesBoth

\* What is recorded at the end of a turn is what the record holds of it.
LEMMA OfNow ==
  ASSUME NEW entries \in Seq(Recordings), NEW more \in Seq(Recordings), NEW turn,
         \A i \in 1 .. Len(entries) : entries[i].turn # turn,
         \A i \in 1 .. Len(more) : more[i].turn = turn
  PROVE  EntriesOf(entries \o more, turn) = more
<1> DEFINE U == {e \in Range(entries \o more) : e.turn = turn}
           R == {}
<1>0. entries \o more \in Seq(Recordings)  OBVIOUS
<1> PICK all \in Seq(Recordings) : all = entries \o more  BY <1>0
<1>1. \A i \in 1 .. Len(entries) : entries[i] \in U <=> entries[i] \in R  OBVIOUS
<1>2. \A i \in 1 .. Len(more) : more[i] \in U
  <2>1. ASSUME NEW i \in 1 .. Len(more) PROVE more[i] \in Range(all)
    <3>1. Len(entries) + i \in DOMAIN all /\ all[Len(entries) + i] = more[i]  OBVIOUS
    <3> QED  BY <3>1 DEF Range
  <2> QED  BY <2>1
<1>3. \A i \in 1 .. Len(entries) : entries[i] \notin R  OBVIOUS
<1>4. EntriesOf(entries \o more, turn) = Chosen(entries \o more, U)  BY DEF EntriesOf
<1> HIDE DEF U, R
<1> PICK V : V = U  OBVIOUS
<1>5. ChoosesBoth(entries, more, R, V, U)
  <2>1. \A i \in 1 .. Len(more) : more[i] \in U <=> more[i] \in V  OBVIOUS
  <2> QED  BY ONLY <1>1, <2>1, entries \in Seq(Recordings), more \in Seq(Recordings), ChosenConcat
<1>6. Chosen(entries, R) = <<>> /\ Chosen(more, U) = more  BY <1>2, <1>3, ChosenNone, ChosenAll
<1>7. <<>> \o more = more  OBVIOUS
<1> QED  BY <1>4, <1>5, <1>6, <1>7 DEF ChoosesBoth

\* What is shown of later turns is no matter to an answer.
LEMMA RecordedLater ==
  ASSUME NEW a, NEW entries, NEW old, NEW new \in Seq(Nat \X Nat), NEW turn, a.turn # turn,
         IsRecorded(a, entries, old), ShownOnlyOf(turn, old, new)
  PROVE  IsRecorded(a, entries, new)
<1>1. ASSUME NEW key \in Range(new), key[1] = a.turn
      PROVE  key \in Range(old) /\ Chosen(new, {key}) = Chosen(old, {key})
  <2>1. key \in Nat \X Nat
    <3>1. PICK i \in 1 .. Len(new) : key = new[i]  BY DEF Range
    <3> QED  BY <3>1
  <2> QED  BY <1>1, <2>1 DEF ShownOnlyOf
<1>2. ASSUME NEW key \in Range(new), key[1] = a.turn
      PROVE  \E i \in DOMAIN entries :
               /\ entries[i].size = Len(Chosen(new, {key}))
               /\ \A j \in DOMAIN entries : entries[j].key = key <=> j = i
  <2>1. \A k \in Range(old) : k[1] = a.turn =>
          \E i \in DOMAIN entries :
            /\ entries[i].size = Len(Chosen(old, {k}))
            /\ \A j \in DOMAIN entries : entries[j].key = k <=> j = i
    BY Zenon DEF IsRecorded
  <2>2. key \in Range(old) /\ key[1] = a.turn /\ Chosen(new, {key}) = Chosen(old, {key})  BY <1>1, <1>2
  <2> QED  BY ONLY <2>1, <2>2, Zenon
<1>3. Len(a.calls) = IF Dispatches(a) THEN Len(OfType(entries, {"tool_started"})) ELSE 0
  BY DEF IsRecorded
<1> QED  BY ONLY IsRecorded(a, entries, old), <1>2, <1>3, Zenon DEF IsRecorded

\* Of some numbers one is the first.
LEMMA OneIsFirst ==
  ASSUME NEW S, S \subseteq Nat, S # {}
  PROVE  \E c \in S : {i \in S : \A j \in S : i <= j} = {c}
<1>1. PICK x \in S : \A y \in S : ~ (<<y, x>> \in OpToRel(<, Nat))
  BY NatLessThanWellFounded, WFMin, Zenon
<1>2. ASSUME NEW y \in S PROVE x <= y
  <2>0. x \in Nat /\ y \in Nat  OBVIOUS
  <2>1. ASSUME y < x PROVE FALSE
    <3>1. <<y, x>> \in Nat \X Nat /\ <<y, x>>[1] < <<y, x>>[2]  BY <2>0, <2>1
    <3>2. <<y, x>> \in OpToRel(<, Nat)  BY <3>1 DEF OpToRel
    <3> QED  BY <1>1, <3>2, Zenon
  <2> QED  BY <2>0, <2>1
<1>3. ASSUME NEW i \in S, \A j \in S : i <= j PROVE i = x
  <2>1. i <= x /\ x <= i /\ i \in Nat /\ x \in Nat  BY <1>2, <1>3
  <2> QED  BY <2>1
<1> QED  BY <1>2, <1>3

\* One event of a turn carries its blocks, if any can.
LEMMA OneCarries ==
  ASSUME NEW durable \in Seq(Durables)
  PROVE  \/ \E c \in 1 .. Len(durable) : Carriers(durable) = {c} /\ durable[c].type \in Spoken
         \/ Carriers(durable) = {} /\ \A i \in 1 .. Len(durable) : durable[i].type \notin Spoken
<1> DEFINE A == {i \in DOMAIN durable : durable[i].type \in Claude}
           B == {i \in DOMAIN durable : durable[i].type \in {"context_compacted"}}
<1>0. DOMAIN durable = 1 .. Len(durable) /\ A \subseteq Nat /\ B \subseteq Nat  OBVIOUS
<1>1. CASE A # {}
  <2>1. Carriers(durable) = {i \in A : \A j \in A : i <= j}  BY <1>1 DEF Carriers
  <2> HIDE DEF A
  <2>2. PICK c \in A : Carriers(durable) = {c}  BY <1>0, <1>1, <2>1, OneIsFirst
  <2> USE DEF A
  <2> QED  BY <1>0, <2>2 DEF Spoken
<1>2. CASE A = {} /\ B # {}
  <2>1. Carriers(durable) = {i \in B : \A j \in B : i <= j}  BY <1>2 DEF Carriers
  <2> HIDE DEF A, B
  <2>2. PICK c \in B : Carriers(durable) = {c}  BY <1>0, <1>2, <2>1, OneIsFirst
  <2> USE DEF B
  <2> QED  BY <1>0, <2>2 DEF Spoken
<1>3. CASE A = {} /\ B = {}
  <2>1. Carriers(durable) = {i \in B : \A j \in B : i <= j}  BY <1>3 DEF Carriers
  <2>2. Carriers(durable) = {}  BY <1>3, <2>1
  <2>3. \A i \in 1 .. Len(durable) : durable[i].type \notin Spoken  BY <1>0, <1>3 DEF Spoken
  <2> QED  BY <2>2, <2>3
<1> QED  BY <1>1, <1>2, <1>3

\* The entries of a turn are its events, each with the blocks it carries.
AreEntries(e, s) ==
  /\ e \in Seq(Recordings) /\ Len(e) = Len(s.durable) /\ DOMAIN e = 1 .. Len(s.durable)
  /\ \A i \in 1 .. Len(s.durable) :
       /\ e[i].type = s.durable[i].type /\ e[i].turn = s.durable[i].turn
       /\ e[i].key = s.durable[i].key /\ e[i].size = s.durable[i].size
       /\ e[i].blocks = IF i \in Carriers(s.durable) THEN s.blocks ELSE <<>>

\* Every event of the turn becomes an entry.
LEMMA EntriesAre ==
  ASSUME NEW s \in Gatherings
  PROVE  AreEntries(Entries(s), s)
<1> PICK d \in Seq(Durables) : d = s.durable  BY DEF Gatherings
<1> PICK b \in Seq(ContentBlock) : b = s.blocks  BY DEF Gatherings
<1> DEFINE r(i) == [type |-> d[i].type, seq |-> d[i].seq, turn |-> d[i].turn, key |-> d[i].key,
                    size |-> d[i].size, blocks |-> IF i \in Carriers(d) THEN b ELSE <<>>]
<1>1. ASSUME NEW i \in 1 .. Len(d) PROVE r(i) \in Recordings
  <2>1. d[i] \in Durables /\ (IF i \in Carriers(d) THEN b ELSE <<>>) \in Seq(ContentBlock)  OBVIOUS
  <2> QED  BY <2>1 DEF Durables, Recordings, RecordNames
<1>2. DOMAIN d = 1 .. Len(d) /\ Len(d) \in Nat  OBVIOUS
<1>3. Entries(s) = [i \in 1 .. Len(d) |-> r(i)]  BY <1>2 DEF Entries
<1> PICK e : e = Entries(s)  OBVIOUS
<1>4. \A i \in 1 .. Len(d) :
        /\ e[i].type = d[i].type /\ e[i].turn = d[i].turn
        /\ e[i].key = d[i].key /\ e[i].size = d[i].size
        /\ e[i].blocks = IF i \in Carriers(d) THEN b ELSE <<>>
  BY <1>3
<1> HIDE DEF r
<1>5. e \in Seq(Recordings) /\ Len(e) = Len(d) /\ DOMAIN e = 1 .. Len(d)  BY <1>1, <1>2, <1>3
<1> QED  BY <1>4, <1>5 DEF AreEntries

\* What is chosen by its type.
LEMMA ChosenByType ==
  ASSUME NEW d \in Seq(Durables), NEW e \in Seq(Recordings), Len(e) = Len(d),
         \A i \in 1 .. Len(d) : e[i].type = d[i].type, NEW types
  PROVE  /\ Len(OfType(d, types)) = Len(OfType(e, types)) /\ Len(OfType(d, types)) \in Nat
         /\ \A k \in 1 .. Len(OfType(d, types)) : OfType(e, types)[k].type = OfType(d, types)[k].type
<1> PICK S : S = {x \in Range(d) : x.type \in types}  OBVIOUS
<1> PICK R : R = {x \in Range(e) : x.type \in types}  OBVIOUS
<1>1. \A i \in 1 .. Len(d) : d[i] \in S <=> e[i] \in R
  <2>1. \A i \in 1 .. Len(d) : i \in DOMAIN d /\ i \in DOMAIN e  OBVIOUS
  <2>2. \A i \in 1 .. Len(d) : d[i] \in Range(d) /\ e[i] \in Range(e)  BY <2>1 DEF Range
  <2> QED  BY <2>2
<1>2. /\ Len(Chosen(d, S)) = Len(Chosen(e, R))
      /\ \A k \in 1 .. Len(Chosen(d, S)) :
           \E i \in 1 .. Len(d) : Chosen(d, S)[k] = d[i] /\ Chosen(e, R)[k] = e[i]
  <2>1. Len(d) = Len(e)  OBVIOUS
  <2> QED  BY ONLY <1>1, <2>1, d \in Seq(Durables), e \in Seq(Recordings), ChosenAlike, SMTT(30)
<1>3. Chosen(d, S) \in Seq(Durables)  BY ChosenIs
<1>4. Len(Chosen(d, S)) \in Nat  BY <1>3
<1>5. OfType(d, types) = Chosen(d, S) /\ OfType(e, types) = Chosen(e, R)  BY DEF OfType
<1> QED  BY <1>2, <1>4, <1>5, SMTT(30)

LEMMA NothingOfType ==
  ASSUME NEW d \in Seq(Durables), NEW types, \A i \in 1 .. Len(d) : d[i].type \notin types
  PROVE  OfType(d, types) = <<>>
BY ChosenNone DEF OfType

\* The conversation carries the blocks of the turn, each once.
LEMMA SurfaceIs ==
  ASSUME NEW s \in Gatherings, BlocksAreTold(s.durable, s.blocks, s.calls), NEW e, AreEntries(e, s)
  PROVE  FlattenSeq([i \in DOMAIN e |-> e[i].blocks]) = s.blocks
<1> PICK d \in Seq(Durables) : d = s.durable  BY DEF Gatherings
<1> PICK b \in Seq(ContentBlock) : b = s.blocks  BY DEF Gatherings
<1> PICK f : f = [i \in DOMAIN e |-> e[i].blocks]  OBVIOUS
<1>1. \A i \in 1 .. Len(d) : f[i] = IF i \in Carriers(d) THEN b ELSE <<>>  BY DEF AreEntries
<1>2. f = [i \in 1 .. Len(d) |-> f[i]] /\ Len(d) \in Nat  BY DEF AreEntries
<1>3. ASSUME NEW i \in 1 .. Len(d) PROVE f[i] \in Seq(ContentBlock)
  <2>1. f[i] = b \/ f[i] = <<>>  BY ONLY <1>1, i \in 1 .. Len(d)
  <2>2. <<>> \in Seq(ContentBlock)  OBVIOUS
  <2> QED  BY <2>1, <2>2
<1>4. f \in Seq(Seq(ContentBlock)) /\ Len(f) = Len(d)  BY ONLY <1>2, <1>3
<1>5. CASE \E c \in 1 .. Len(d) : Carriers(d) = {c}
  <2>1. PICK c \in 1 .. Len(d) : Carriers(d) = {c}  BY <1>5
  <2>2. f[c] = b /\ \A i \in 1 .. Len(f) : i # c => f[i] = <<>>  BY <1>1, <1>4, <2>1
  <2>3. FlattenSeq(f) = f[c]  BY <1>4, <2>1, <2>2, FlattenOne
  <2> QED  BY <2>2, <2>3
<1>6. CASE Carriers(d) = {} /\ \A i \in 1 .. Len(d) : d[i].type \notin Spoken
  <2>1. OfType(d, Spoken) = <<>>  BY <1>6, NothingOfType
  <2>2. Len(b) = 0  BY <2>1 DEF BlocksAreTold
  <2>3. b = <<>>  BY <2>2
  <2>4. \A i \in 1 .. Len(f) : f[i] = <<>>  BY <1>1, <1>4, <1>6
  <2>5. FlattenSeq(f) = <<>>  BY <1>4, <2>4, FlattenNone
  <2> QED  BY <2>3, <2>5
<1> QED  BY <1>5, <1>6, OneCarries

TextIsSettled(e, key, shown) ==
  \E i \in DOMAIN e :
    /\ e[i].size = Len(Chosen(shown, {key}))
    /\ \A j \in DOMAIN e : e[j].key = key <=> j = i

\* What was shown of a turn is settled by its entries.
LEMMA TextSettles ==
  ASSUME NEW s \in Gatherings, NEW top, AccIsShown(s.turn, s.acc, s.shown, top), top \in Nat,
         EventsAreKeyed(s.turn, s.acc, s.durable, 0), NEW e, AreEntries(e, s),
         NEW key \in Range(s.shown), key[1] = s.turn
  PROVE  TextIsSettled(e, key, s.shown)
<1> PICK d \in Seq(Durables) : d = s.durable  BY DEF Gatherings
<1> PICK h \in Seq(Nat \X Nat) : h = s.shown  BY DEF Gatherings
<1>1. PICK k \in 1 .. Len(h) : key = h[k]  BY DEF Range
<1>2. PICK n : n = key[2]  OBVIOUS
<1>3. key = <<s.turn, n>> /\ n \in Nat  BY <1>1, <1>2
<1>4. n \in DOMAIN s.acc /\ n \in 1 .. top /\ Seen(s.turn, s.shown, n) = s.acc[n].size
  BY <1>1, <1>2 DEF AccIsShown
<1>5. n # 0  BY <1>4
<1>6. PICK i \in DOMAIN d : d[i].key = <<s.turn, n>>  BY <1>4, <1>5 DEF EventsAreKeyed
<1>7. d[i].size = s.acc[n].size
  <2>1. <<s.turn, n>> # <<>>  OBVIOUS
  <2>2. PICK m \in DOMAIN s.acc : d[i].key = <<s.turn, m>> /\ d[i].size = s.acc[m].size
    BY <1>6, <2>1 DEF EventsAreKeyed
  <2> QED  BY <1>6, <2>2
<1>8. ASSUME NEW j \in DOMAIN d, d[j].key = key PROVE j = i
  <2>1. key # <<>>  BY <1>3
  <2> QED  BY <1>3, <1>6, <1>8, <2>1 DEF EventsAreKeyed
<1>9. DOMAIN e = DOMAIN d /\ \A j \in DOMAIN d : e[j].key = d[j].key /\ e[j].size = d[j].size
  BY SMTT(30) DEF AreEntries
<1>10. Seen(s.turn, s.shown, n) = Len(Chosen(s.shown, {key}))  BY <1>3 DEF Seen
<1>11. e[i].size = Len(Chosen(s.shown, {key}))  BY <1>4, <1>6, <1>7, <1>9, <1>10
<1>12. \A j \in DOMAIN e : e[j].key = key <=> j = i  BY <1>3, <1>6, <1>8, <1>9
<1> QED  BY <1>6, <1>9, <1>11, <1>12 DEF TextIsSettled

\* The entries of an answer that came to its end record it.
LEMMA EntriesAreRecorded ==
  ASSUME NEW s, NEW top \in Nat, NEW a \in PastAnswers, Gathered(s, MeantBy(a.said), 0, top),
         a.path = path, a.turn = s.turn,
         a.calls = IF Dispatches(a) THEN s.calls ELSE <<>>
  PROVE  IsRecorded(a, Entries(s), s.shown)
<1>0. /\ s \in Gatherings /\ Pairs(s.durable) = MeantBy(a.said)
      /\ AccIsShown(s.turn, s.acc, s.shown, top) /\ EventsAreKeyed(s.turn, s.acc, s.durable, 0)
      /\ BlocksAreTold(s.durable, s.blocks, s.calls)
  BY DEF Gathered, Heard
<1> PICK d \in Seq(Durables) : d = s.durable  BY <1>0 DEF Gatherings
<1> PICK e : e = Entries(s)  OBVIOUS
<1>1. AreEntries(e, s)  BY <1>0, EntriesAre
<1>2. e \in Seq(Recordings) /\ Len(e) = Len(d) /\ DOMAIN e = DOMAIN d /\ DOMAIN d = 1 .. Len(d)
  BY <1>1 DEF AreEntries
<1>3. \A i \in 1 .. Len(d) : e[i].type = d[i].type /\ e[i].size = d[i].size  BY <1>1 DEF AreEntries
<1>4. Pairs(e) = FlattenSeq([i \in DOMAIN a.said |-> Meaning(a.path, a.said[i])])
  <2>1. Pairs(e) = Pairs(d)  BY <1>2, <1>3 DEF Pairs
  <2> QED  BY <1>0, <2>1 DEF MeantBy
<1>5. FlattenSeq([i \in DOMAIN e |-> e[i].blocks]) = s.blocks  BY <1>0, <1>1, SurfaceIs
<1>6. /\ Len(OfType(d, Spoken)) = Len(OfType(e, Spoken)) /\ Len(OfType(d, Spoken)) \in Nat
      /\ \A k \in 1 .. Len(OfType(d, Spoken)) : OfType(e, Spoken)[k].type = OfType(d, Spoken)[k].type
  <2>1. Len(e) = Len(d) /\ \A i \in 1 .. Len(d) : e[i].type = d[i].type  BY <1>2, <1>3
  <2> QED  BY ONLY <1>2, <2>1, d \in Seq(Durables), ChosenByType
<1>7. /\ Len(s.blocks) = Len(OfType(e, Spoken))
      /\ \A i \in DOMAIN s.blocks : s.blocks[i].kind \in KindsOf(OfType(e, Spoken)[i].type)
  <2> PICK b \in Seq(ContentBlock) : b = s.blocks  BY <1>0 DEF Gatherings
  <2>1. Len(b) = Len(OfType(d, Spoken)) /\ \A i \in DOMAIN b : b[i].kind \in KindsOf(OfType(d, Spoken)[i].type)
    BY <1>0 DEF BlocksAreTold
  <2>2. DOMAIN b = 1 .. Len(b)  OBVIOUS
  <2> QED  BY <1>6, <2>1, <2>2
<1>8. Len(a.calls) = IF Dispatches(a) THEN Len(OfType(e, {"tool_started"})) ELSE 0
  <2>1. Len(OfType(d, {"tool_started"})) = Len(OfType(e, {"tool_started"}))
    BY <1>2, <1>3, ChosenByType, SMTT(30)
  <2>2. Len(s.calls) = Len(OfType(d, {"tool_started"}))  BY <1>0 DEF BlocksAreTold
  <2>3. CASE Dispatches(a)  BY <2>1, <2>2, <2>3
  <2>4. CASE ~Dispatches(a)
    <3>1. a.calls = <<>> /\ Len(<<>>) = 0  BY <2>4
    <3> QED  BY <2>4, <3>1
  <2> QED  BY <2>3, <2>4
<1>9. ASSUME NEW key \in Range(s.shown), key[1] = a.turn
      PROVE  \E i \in DOMAIN e :
               /\ e[i].size = Len(Chosen(s.shown, {key}))
               /\ \A j \in DOMAIN e : e[j].key = key <=> j = i
  <2>1. key[1] = s.turn  BY <1>9
  <2>2. TextIsSettled(e, key, s.shown)
    BY ONLY <1>0, <1>1, <2>1, top \in Nat, key \in Range(s.shown), TextSettles
  <2> QED  BY <2>2 DEF TextIsSettled
<1> QED  BY <1>4, <1>5, <1>7, <1>8, <1>9, SMTT(30) DEF IsRecorded

-----------------------------------------------------------------------------
(* The steps of the stream.                                                *)

\* The invariant is about these.
LEMMA SameStream ==
  ASSUME Streaming, UNCHANGED <<path, said, wire, st, log, past>>
  PROVE  Streaming'
<1>0. path' = path /\ said' = said /\ wire' = wire /\ st' = st /\ log' = log /\ past' = past  OBVIOUS
<1>1. StreamTypes'  BY <1>0 DEF Streaming, StreamTypes, BlockKinds
<1>2. Gathering'
  BY <1>0 DEF Streaming, Gathering, Gathered, Heard, MapperIsOpen, MeantBy, OpenBlock
<1>3. History'
  BY <1>0 DEF Streaming, History, StoppedBy, MappedStop, MapStopReason, ReplayStop, Reasons
<1>4. AnswersHold'
  BY <1>0 DEF Streaming, AnswersHold, SettledAnswers, Of
<1> QED  BY <1>1, <1>2, <1>3, <1>4 DEF Streaming

\* What is told of the end of an answer changes nothing of what was gathered.
LEMMA GatheredAlike ==
  ASSUME NEW s, NEW meant, NEW open, NEW top, Gathered(s, meant, open, top),
         NEW t \in Gatherings, t.turn = s.turn, t.acc = s.acc, t.shown = s.shown, t.opened = s.opened,
         t.durable = s.durable, t.blocks = s.blocks, t.calls = s.calls
  PROVE  Gathered(t, meant, open, top)
<1>1. Heard(t, meant, open, top)  BY KeptAlike DEF Gathered
<1> QED  BY <1>1 DEF Gathered, MapperIsOpen

\* And so after what changes neither.
LEMMA SameTurnNext ==
  ASSUME NEW s, NEW t, SameTurn(s, t), NEW u, u.turn = t.turn, u.shown = t.shown
  PROVE  u.turn = s.turn /\ ShownOnlyOf(s.turn, s.shown, u.shown)
BY DEF SameTurn

\* A turn starts with nothing.
IsNewTurn(s, t) ==
  /\ t.turn = s.turn + 1 /\ t.shown = s.shown /\ t.next = 1 /\ t.durable = <<>> /\ t.held = "none"

LEMMA NewTurnIs ==
  ASSUME NEW s \in Gatherings, \A i \in DOMAIN s.shown : s.shown[i][1] <= s.turn
  PROVE  IsNewTurn(s, NewTurn(s)) /\ Gathered(NewTurn(s), <<>>, 0, 0)
<1> PICK h \in Seq(Nat \X Nat) : h = s.shown  BY DEF Gatherings
<1> PICK turn \in Nat : turn = s.turn + 1  BY DEF Gatherings
<1> PICK none \in Maps(ContentBlock) : none = <<>> /\ DOMAIN none = {}  BY NothingIsMapped
<1> PICK stop \in StopNames : stop = "none"  BY DEF StopNames
<1> PICK one \in Nat : one = 1  OBVIOUS
<1> PICK t : t = NewTurn(s)  OBVIOUS
<1>0. /\ t.turn = turn /\ t.shown = h /\ t.next = 1 /\ t.durable = <<>> /\ t.opened = none /\ t.acc = none
      /\ t.blocks = <<>> /\ t.calls = <<>> /\ t.stop = stop /\ t.held = stop /\ t.seq = s.seq
  BY DEF NewTurn, Gatherings
<1>1. t \in Gatherings
  <2>1. <<>> \in Seq(Durables) /\ <<>> \in Seq(ContentBlock) /\ <<>> \in Seq(Nat)  OBVIOUS
  <2>2. t = [turn |-> turn, seq |-> s.seq, opened |-> none, held |-> stop, next |-> one, acc |-> none,
             durable |-> <<>>, blocks |-> <<>>, calls |-> <<>>, stop |-> stop, shown |-> h]
    BY DEF NewTurn, Gatherings
  <2>3. s.seq \in Nat  BY DEF Gatherings
  <2> QED  BY ONLY <2>1, <2>2, <2>3, turn \in Nat, none \in Maps(ContentBlock), stop \in StopNames, one \in Nat,
                   h \in Seq(Nat \X Nat) DEF Gatherings
<1>2. AccIsShown(t.turn, t.acc, t.shown, 0)
  <2>1. \A i \in DOMAIN h : h[i][1] \in Nat /\ h[i][1] <= s.turn  OBVIOUS
  <2>2. \A i \in DOMAIN h : h[i][1] <= turn /\ h[i][1] # turn  BY <2>1, SMTT(30) DEF Gatherings
  <2> QED  BY <1>0, <2>2 DEF AccIsShown
<1>3. EventsAreKeyed(t.turn, t.acc, t.durable, 0)  BY <1>0 DEF EventsAreKeyed
<1>4. BlocksAreTold(t.durable, t.blocks, t.calls)
  <2>1. \A types : OfType(<<>>, types) = <<>>
    <3>1. ASSUME NEW types PROVE OfType(<<>>, types) = <<>>
      <4>1. <<>> \in Seq(Durables) /\ \A i \in 1 .. Len(<<>>) : <<>>[i].type \notin types  OBVIOUS
      <4> QED  BY <4>1, NothingOfType
    <3> QED  BY <3>1
  <2> QED  BY <1>0, <2>1 DEF BlocksAreTold
<1>5. Pairs(t.durable) = <<>>  BY <1>0 DEF Pairs
<1>6. MapperIsOpen(t, 0)  BY <1>0 DEF MapperIsOpen
<1> QED  BY <1>0, <1>1, <1>2, <1>3, <1>4, <1>5, <1>6 DEF Gathered, Heard, IsNewTurn

LEMMA MeantByEmpty == MeantBy(<<>>) = <<>>
<1>1. [i \in DOMAIN <<>> |-> Meaning(path, <<>>[i])] = <<>>  OBVIOUS
<1> QED  BY <1>1, FlattenEmpty DEF MeantBy

\* What an answer means, with one more block.
MeansMore(answer, block) == MeantBy(Append(answer, block)) = MeantBy(answer) \o Meaning(path, block)

\* An answer of known blocks means something.
LEMMA AnswerMeans ==
  ASSUME path \in Paths, NEW answer \in Seq(ContentBlock), \A i \in DOMAIN answer : answer[i].kind \in BlockKinds,
         NEW b \in ContentBlock, b.kind \in BlockKinds
  PROVE  MeantBy(answer) \in Meanings /\ MeansMore(answer, b)
<1>0. BlockKinds \subseteq {"text", "thinking", "hidden", "call", "compaction", "told", "other"}
  BY DEF BlockKinds, Paths
<1>1. \A i \in DOMAIN answer : Meaning(path, answer[i]) \in Meanings
  <2>1. ASSUME NEW i \in DOMAIN answer PROVE Meaning(path, answer[i]) \in Meanings
    <3> PICK c \in ContentBlock : c = answer[i]  OBVIOUS
    <3>1. c.kind \in {"text", "thinking", "hidden", "call", "compaction", "told", "other"}  BY <1>0
    <3> QED  BY <3>1, MeaningIs
  <2> QED  BY <2>1
<1>2. Meaning(path, b) \in Meanings  BY <1>0, MeaningIs
<1> QED  BY <1>1, <1>2, MeantByAppend DEF MeansMore

\* The last block of an answer.
SplitsLast(answer) ==
  /\ Front(answer) \in Seq(ContentBlock) /\ answer[Len(answer)] \in ContentBlock
  /\ Append(Front(answer), answer[Len(answer)]) = answer
  /\ Len(Front(answer)) = Len(answer) - 1
  /\ \A i \in 1 .. Len(answer) - 1 : Front(answer)[i] = answer[i]
  /\ Last(answer) = answer[Len(answer)] /\ Len(answer) \in Nat \ {0}

\* An answer is what comes before its last block, and that block.
LEMMA LastIs ==
  ASSUME NEW answer \in Seq(ContentBlock), answer # <<>>
  PROVE  SplitsLast(answer)
<1> PICK n \in Nat : n = Len(answer)  OBVIOUS
<1>0. n # 0 /\ DOMAIN answer = 1 .. n  OBVIOUS
<1>1. Front(answer) = [i \in 1 .. n - 1 |-> answer[i]]  BY DEF Front
<1>2. ASSUME NEW i \in 1 .. n - 1 PROVE answer[i] \in ContentBlock  BY <1>0
<1>3. Front(answer) \in Seq(ContentBlock) /\ Len(Front(answer)) = n - 1  BY <1>0, <1>1, <1>2
<1> PICK f \in Seq(ContentBlock) : f = Front(answer)  BY <1>3
<1>4. \A i \in 1 .. n - 1 : f[i] = answer[i]  BY <1>1
<1>5. answer[n] \in ContentBlock  BY <1>0
<1> PICK b \in ContentBlock : b = answer[n]  BY <1>5
<1>10. Append(f, b) \in Seq(ContentBlock)  BY AppendedIs
<1> PICK g \in Seq(ContentBlock) : g = Append(f, b)  BY <1>10
<1>6. Len(g) = n /\ \A i \in 1 .. n : g[i] = answer[i]
  <2>1. Len(g) = n  BY <1>0, <1>3
  <2>2. ASSUME NEW i \in 1 .. n PROVE g[i] = answer[i]
    <3>1. CASE i = n  BY <1>3, <3>1
    <3>2. CASE i \in 1 .. n - 1  BY <1>3, <1>4, <3>2
    <3>3. i = n \/ i \in 1 .. n - 1  OBVIOUS
    <3> QED  BY <3>1, <3>2, <3>3
  <2> QED  BY <2>1, <2>2
<1>7. g = answer
  <2>1. IsItsElements(g) /\ IsItsElements(answer)  BY SeqIsItsElements
  <2> QED  BY <1>6, <2>1 DEF IsItsElements
<1>8. Last(answer) = b  BY DEF Last
<1> QED  BY <1>0, <1>3, <1>4, <1>7, <1>8 DEF SplitsLast

\* What is recorded of other turns, and shown of a later one, is no matter to them.
LEMMA AnswersStay ==
  ASSUME AnswersHold, SettledAnswers' \subseteq SettledAnswers, log \in Seq(Recordings),
         NEW more \in Seq(Recordings), log' = log \o more, st'.shown \in Seq(Nat \X Nat),
         \A a \in SettledAnswers : \A i \in 1 .. Len(more) : more[i].turn # a.turn,
         \/ st'.shown = st.shown
         \/ /\ ShownOnlyOf(st.turn, st.shown, st'.shown)
            /\ \A a \in SettledAnswers : a.turn # st.turn
  PROVE  AnswersHold'
<1>1. SUFFICES ASSUME NEW a \in SettledAnswers PROVE IsRecorded(a, Of(a)', st'.shown)
  BY DEF AnswersHold
<1>2. Of(a)' = EntriesOf(log', a.turn)  BY DEF Of, EntriesOf
<1>3. EntriesOf(log \o more, a.turn) = EntriesOf(log, a.turn)  BY OfLater
<1>4. Of(a) = EntriesOf(log, a.turn)  BY OfIs
<1>5. IsRecorded(a, Of(a)', st.shown)  BY <1>2, <1>3, <1>4 DEF AnswersHold
<1>6. CASE st'.shown = st.shown  BY <1>5, <1>6
<1>7. CASE ShownOnlyOf(st.turn, st.shown, st'.shown) /\ a.turn # st.turn
  BY <1>5, <1>7, RecordedLater
<1> QED  BY <1>6, <1>7

LEMMA AnswersStayAlone ==
  ASSUME AnswersHold, past' = past, log' = log, log \in Seq(Recordings), st'.shown \in Seq(Nat \X Nat),
         \/ st'.shown = st.shown
         \/ /\ ShownOnlyOf(st.turn, st.shown, st'.shown)
            /\ \A a \in SettledAnswers : a.turn # st.turn
  PROVE  AnswersHold'
<1>1. SettledAnswers' = SettledAnswers  BY DEF SettledAnswers
<1>2. <<>> \in Seq(Recordings) /\ log' = log \o <<>> /\ Len(<<>>) = 0  OBVIOUS
<1>3. \A a \in SettledAnswers : \A i \in 1 .. Len(<<>>) : <<>>[i].turn # a.turn  BY <1>2
<1> QED  BY <1>1, <1>2, <1>3, AnswersStay

\* An answer that settled is of an earlier turn, while another comes in.
LEMMA AnswersAre ==
  ASSUME NEW a \in SettledAnswers, StreamTypes, History
  PROVE  /\ a \in PastAnswers /\ a.turn \in 1 .. st.turn
         /\ wire \in {"open", "block", "cut"} => a.turn # st.turn
<1>1. PICK i \in DOMAIN past : a = past[i]  BY DEF SettledAnswers
<1>2. a \in PastAnswers  BY <1>1 DEF StreamTypes
<1>3. a.turn \in 1 .. st.turn  BY <1>1 DEF History
<1>4. wire \in {"open", "block", "cut"} => a.turn < st.turn  BY <1>1 DEF History
<1>5. st.turn \in Nat  BY DEF StreamTypes, Gatherings
<1> QED  BY <1>2, <1>3, <1>4, <1>5

\* While an answer comes in, everything else stays as it is.
LEMMA ComesIn ==
  ASSUME Streaming, wire \in {"open", "block"}, wire' \in {"open", "block"},
         UNCHANGED <<path, log, past>>, st'.turn = st.turn, st'.held = st.held, ShownOnlyOf(st.turn, st.shown, st'.shown),
         NEW meant, NEW open, NEW top, Gathered(st', meant, open, top)
  PROVE  History' /\ AnswersHold'
<1>0. /\ StreamTypes /\ History /\ AnswersHold /\ path' = path /\ log' = log /\ past' = past
      /\ st' \in Gatherings
  BY DEF Streaming, AnswersHold, Gathered, Heard
<1>1. \A i \in DOMAIN st'.shown : st'.shown[i][1] <= st'.turn  BY DEF Gathered, Heard, AccIsShown
<1>2. \A i \in DOMAIN st'.durable : st'.durable[i].turn = st'.turn  BY DEF Gathered, Heard, EventsAreKeyed
<1>3. History'
  BY <1>0, <1>1, <1>2 DEF History
<1>4. AnswersHold'
  <2>1. st'.shown \in Seq(Nat \X Nat)  BY <1>0 DEF Gatherings
  <2>2. \A a \in SettledAnswers : a.turn # st.turn  BY <1>0, AnswersAre
  <2> QED  BY <1>0, <2>1, <2>2, AnswersStayAlone DEF StreamTypes
<1> QED  BY <1>3, <1>4

LEMMA StreamingIs ==
  ASSUME StreamTypes, Gathering, History, AnswersHold
  PROVE  Streaming
BY DEF Streaming

\* The types, when neither the record nor the adapter changes.
LEMMA TypesAre ==
  ASSUME StreamTypes, UNCHANGED <<path, log>>, said' \in Seq(ContentBlock), st' \in Gatherings, st'.next > 0,
         \A i \in DOMAIN said' : said'[i].kind \in BlockKinds, past' \in Seq(PastAnswers),
         wire' \in {"idle", "open", "block", "stopped", "billed", "closed", "cut"}
  PROVE  StreamTypes'
<1>1. BlockKinds' = BlockKinds  BY DEF BlockKinds
<1> QED  BY <1>1 DEF StreamTypes

\* A turn begins.
LEMMA TurnStarts ==
  ASSUME Streaming, BeginTurn
  PROVE  Streaming'
<1>0. /\ StreamTypes /\ History /\ AnswersHold /\ path' = path /\ log' = log /\ past' = past
      /\ said' = <<>> /\ wire' = "open" /\ st' = NewTurn(st)
  BY DEF Streaming, AnswersHold, BeginTurn
<1>1. IsNewTurn(st, st') /\ Gathered(st', <<>>, 0, 0)
  <2>1. st \in Gatherings /\ \A i \in DOMAIN st.shown : st.shown[i][1] <= st.turn
    BY <1>0 DEF StreamTypes, History
  <2> QED  BY <1>0, <2>1, NewTurnIs
<1>2. st' \in Gatherings /\ st.turn \in Nat  BY <1>0, <1>1 DEF Gathered, Heard, StreamTypes, Gatherings
<1>3. StreamTypes'
  <2>1. st'.next > 0  BY <1>1 DEF IsNewTurn
  <2>2. said' \in Seq(ContentBlock) /\ \A i \in DOMAIN said' : said'[i].kind \in BlockKinds  BY <1>0
  <2>3. past' \in Seq(PastAnswers)  BY <1>0 DEF StreamTypes
  <2> QED  BY <1>0, <1>2, <2>1, <2>2, <2>3, TypesAre
<1>4. Gathering'
  <2>1. MeantBy(said') = <<>>  BY <1>0, MeantByEmpty
  <2>2. (IF path = "replay" THEN st'.next - 1 ELSE Len(said')) = 0  BY <1>0, <1>1 DEF IsNewTurn
  <2>3. Gathered(st', MeantBy(said'), 0, IF path = "replay" THEN st'.next - 1 ELSE Len(said'))
    BY <1>1, <2>1, <2>2
  <2> QED  BY <1>0, <2>3 DEF Gathering, Gathered, Heard, MapperIsOpen, MeantBy
<1>5. History'
  <2>1. st'.turn = st.turn + 1 /\ st'.shown = st.shown /\ st'.durable = <<>> /\ st'.held = "none"
    BY <1>1 DEF IsNewTurn
  <2>2. \A i \in DOMAIN past : past[i].turn \in 1 .. st'.turn /\ past[i].turn < st'.turn
    BY <1>0, <1>2, <2>1 DEF History
  <2>3. \A i \in DOMAIN log : log[i].turn <= st'.turn /\ log[i].turn < st'.turn
    <3>1. ASSUME NEW i \in DOMAIN log PROVE log[i].turn \in Nat
      <4>1. log[i] \in Recordings  BY <1>0 DEF StreamTypes
      <4> QED  BY <4>1 DEF Recordings
    <3>2. \A i \in DOMAIN log : log[i].turn <= st.turn  BY <1>0 DEF History
    <3> QED  BY <1>2, <2>1, <3>1, <3>2
  <2>4. \A i \in DOMAIN st'.shown : st'.shown[i][1] <= st'.turn
    BY <1>1 DEF Gathered, Heard, AccIsShown
  <2>5. st'.turn > 0  BY <1>2, <2>1
  <2> QED  BY <1>0, <2>1, <2>2, <2>3, <2>4, <2>5 DEF History
<1>6. AnswersHold'
  <2>1. st'.shown = st.shown /\ st'.shown \in Seq(Nat \X Nat)  BY <1>1, <1>2 DEF IsNewTurn, Gatherings
  <2> QED  BY <1>0, <2>1, AnswersStayAlone DEF StreamTypes
<1> QED  BY <1>3, <1>4, <1>5, <1>6, StreamingIs, PTL

\* What a state with an open stream is.
LEMMA OpenIs ==
  ASSUME Streaming, wire = "open"
  PROVE  /\ StreamTypes /\ History /\ AnswersHold
         /\ Gathered(st, MeantBy(said), 0, IF path = "replay" THEN st.next - 1 ELSE Len(said))
BY DEF Streaming, AnswersHold, Gathering

\* What a state with an open block is.
LEMMA BlockIs ==
  ASSUME Streaming, wire = "block"
  PROVE  /\ StreamTypes /\ History /\ AnswersHold
         /\ path # "replay" /\ said # <<>>
         /\ Gathered(st, MeantBy(Front(said)), Len(said), Len(said))
         /\ OpenBlock(st, said[Len(said)], Len(said)) /\ said[Len(said)].kind # "other"
BY DEF Streaming, AnswersHold, Gathering

\* Which blocks an adapter knows.
LEMMA KindsAre ==
  ASSUME path \in Paths, NEW kind \in BlockKinds
  PROVE  /\ kind \in {"text", "thinking", "hidden", "call", "compaction", "told", "other"}
         /\ kind \in BlockNames
         /\ path # "replay" /\ kind # "other" => kind \in {"text", "thinking", "hidden", "call", "compaction"}
         /\ kind = "compaction" => path = "family"
         /\ path = "replay" => kind \in {"text", "thinking", "hidden", "call", "told", "other"}
BY DEF Paths, BlockKinds, BlockNames

\* The rest of the invariant, when the stream is open.
LEMMA OpenStays ==
  ASSUME Streaming, wire \in {"open", "block"}, wire' = "open", UNCHANGED <<path, log, past>>,
         NEW top, top = (IF path = "replay" THEN st'.next - 1 ELSE Len(said')),
         Gathered(st', MeantBy(said'), 0, top),
         said' \in Seq(ContentBlock), \A i \in DOMAIN said' : said'[i].kind \in BlockKinds, st'.next > 0,
         st'.turn = st.turn, st'.held = st.held, ShownOnlyOf(st.turn, st.shown, st'.shown)
  PROVE  Streaming'
<1>1. History' /\ AnswersHold'  BY ComesIn
<1>2. StreamTypes'
  <2>1. StreamTypes /\ st' \in Gatherings /\ past' \in Seq(PastAnswers)
    BY DEF Streaming, StreamTypes, Gathered, Heard
  <2> QED  BY <2>1, TypesAre
<1>3. Gathering'
  BY DEF Gathering, Gathered, Heard, MapperIsOpen, MeantBy
<1> QED  BY <1>1, <1>2, <1>3, StreamingIs, PTL

\* The same, while a block is open.
LEMMA BlockStays ==
  ASSUME Streaming, wire \in {"open", "block"}, wire' = "block", UNCHANGED <<path, log, past>>,
         path # "replay", said' # <<>>,
         Gathered(st', MeantBy(Front(said')), Len(said'), Len(said')),
         OpenBlock(st', said'[Len(said')], Len(said')), said'[Len(said')].kind # "other",
         said' \in Seq(ContentBlock), \A i \in DOMAIN said' : said'[i].kind \in BlockKinds, st'.next > 0,
         st'.turn = st.turn, st'.held = st.held, ShownOnlyOf(st.turn, st.shown, st'.shown)
  PROVE  Streaming'
<1>1. History' /\ AnswersHold'  BY ComesIn
<1>2. StreamTypes'
  <2>1. StreamTypes /\ st' \in Gatherings /\ past' \in Seq(PastAnswers)
    BY DEF Streaming, StreamTypes, Gathered, Heard
  <2> QED  BY <2>1, TypesAre
<1>3. Gathering'
  BY DEF Gathering, Gathered, Heard, MapperIsOpen, MeantBy, OpenBlock
<1> QED  BY <1>1, <1>2, <1>3, StreamingIs, PTL

\* A block starts.
LEMMA BlockStarts ==
  ASSUME Streaming, NEW kind \in BlockKinds, StartBlock(kind)
  PROVE  Streaming'
<1> PICK n : n = Len(said) + 1  OBVIOUS
<1> PICK b : b = [kind |-> kind, size |-> 0]  OBVIOUS
<1>0. /\ wire = "open" /\ path # "replay" /\ wire' = "block" /\ said' = Append(said, b) /\ kind # "other"
      /\ st' = IF path = "family" \/ kind = "call" THEN Read(st, RawEvent("start", n, kind, 0)) ELSE st
      /\ path' = path /\ log' = log /\ past' = past
  BY DEF StartBlock
<1>1. /\ StreamTypes /\ path \in Paths /\ said \in Seq(ContentBlock)
      /\ \A i \in DOMAIN said : said[i].kind \in BlockKinds
      /\ st.next > 0 /\ Gathered(st, MeantBy(said), 0, Len(said))
  BY <1>0, OpenIs DEF StreamTypes
<1>2. n \in Nat \ {0} /\ n - 1 = Len(said) /\ kind \in BlockNames  BY <1>1, KindsAre
<1>3. b \in ContentBlock /\ b.kind = kind /\ b.size = 0  BY <1>2 DEF ContentBlock
<1>4. said' \in Seq(ContentBlock) /\ Len(said') = n /\ said'[n] = b /\ said' # <<>> /\ Front(said') = said
      /\ \A i \in DOMAIN said' : said'[i].kind \in BlockKinds
  <2>1. /\ said' \in Seq(ContentBlock) /\ Len(said') = n /\ said'[n] = b /\ \A i \in 1 .. Len(said) : said'[i] = said[i]
        /\ DOMAIN said' = 1 .. n
    BY <1>0, <1>1, <1>3, AppendedIs
  <2>2. Front(said') = [i \in 1 .. Len(said) |-> said'[i]]  BY <1>2, <2>1 DEF Front
  <2>3. IsItsElements(said)  BY <1>1, SeqIsItsElements
  <2>4. Front(said') = said  BY <2>1, <2>2, <2>3 DEF IsItsElements
  <2>5. \A i \in DOMAIN said' : i = n \/ i \in 1 .. Len(said)  BY <1>1, <2>1
  <2>6. \A i \in DOMAIN said' : said'[i].kind \in BlockKinds
    BY <1>1, <1>3, <2>1, <2>3, <2>5 DEF IsItsElements
  <2>7. said' # <<>>  BY <1>2, <2>1
  <2> QED  BY <2>1, <2>4, <2>6, <2>7
<1>5. /\ Gathered(st', MeantBy(said), n, n) /\ OpenBlock(st', b, n) /\ st'.durable = st.durable
      /\ st'.turn = st.turn /\ ShownOnlyOf(st.turn, st.shown, st'.shown) /\ st'.next = st.next /\ st'.held = st.held
  <2>1. CASE path = "family" \/ kind = "call"
    <3>1. st' = Read(st, RawEvent("start", n, kind, 0))  BY <1>0, <2>1
    <3>2. Gathered(st, MeantBy(said), 0, n - 1)  BY <1>1, <1>2
    <3>3. /\ Gathered(st', MeantBy(said), n, n) /\ OpenBlock(st', [kind |-> kind, size |-> 0], n)
          /\ SameTurn(st, st') /\ st'.durable = st.durable
      <4>1. path \in Paths  BY <1>1
      <4>2. n \in Nat \ {0}  BY <1>2
      <4> QED  BY ONLY <1>0, <2>1, <3>1, <3>2, <4>1, <4>2, kind \in BlockKinds, ReadStart
    <3> QED  BY <3>3 DEF SameTurn
  <2>2. CASE ~ (path = "family" \/ kind = "call")
    <3>1. st' = st  BY <1>0, <2>2
    <3>2. Gathered(st, MeantBy(said), 0, n - 1)  BY <1>1, <1>2
    <3>3. Gathered(st, MeantBy(said), n, n) /\ n \notin DOMAIN st.acc  BY <1>2, <3>2, NextIsUnknown
    <3>4. OpenBlock(st', b, n)  BY <1>3, <2>2, <3>1, <3>3 DEF OpenBlock
    <3>5. SameTurn(st, st')  BY <3>1, SameTurnIs
    <3> QED  BY <3>1, <3>3, <3>4, <3>5 DEF SameTurn
  <2> QED  BY <2>1, <2>2
<1> QED  BY <1>0, <1>1, <1>4, <1>5, BlockStays

\* A piece of it comes.
LEMMA PieceComes ==
  ASSUME Streaming, Piece
  PROVE  Streaming'
<1> PICK n : n = Len(said)  OBVIOUS
<1> PICK b : b = said[n]  OBVIOUS
<1>0. /\ wire = "block" /\ wire' = wire /\ path' = path /\ log' = log /\ past' = past
      /\ said' = [said EXCEPT ![n].size = @ + 1] /\ st' = Read(st, Delta(n, Last(said).kind))
  BY DEF Piece
<1>1. /\ StreamTypes /\ path \in Paths /\ said \in Seq(ContentBlock)
      /\ path # "replay" /\ said # <<>> /\ \A i \in DOMAIN said : said[i].kind \in BlockKinds
      /\ st.next > 0 /\ Gathered(st, MeantBy(Front(said)), n, n) /\ OpenBlock(st, b, n) /\ b.kind # "other"
  BY <1>0, BlockIs DEF StreamTypes
<1>2. SplitsLast(said)  BY <1>1, LastIs
<1>3. n \in Nat \ {0} /\ b \in ContentBlock /\ Last(said) = b /\ b.kind \in BlockKinds /\ DOMAIN said = 1 .. n
  <2>1. n \in Nat \ {0} /\ b \in ContentBlock /\ Last(said) = b /\ DOMAIN said = 1 .. n  BY <1>1, <1>2 DEF SplitsLast
  <2> QED  BY <1>1, <2>1
<1> PICK c : c = [b EXCEPT !.size = @ + 1]  OBVIOUS
<1>4. c \in ContentBlock /\ c.kind = b.kind  BY <1>3 DEF ContentBlock
<1>5. /\ said' \in Seq(ContentBlock) /\ Len(said') = n /\ said'[n] = c /\ DOMAIN said' = 1 .. n
      /\ \A i \in 1 .. n - 1 : said'[i] = said[i]
  <2>1. said' = [i \in 1 .. n |-> IF i = n THEN c ELSE said[i]]  BY <1>0, <1>3
  <2>2. ASSUME NEW i \in 1 .. n PROVE (IF i = n THEN c ELSE said[i]) \in ContentBlock  BY <1>1, <1>3, <1>4
  <2>3. said' \in Seq(ContentBlock) /\ Len(said') = n  BY ONLY <1>3, <2>1, <2>2
  <2> QED  BY <1>3, <2>1, <2>3
<1>6. Front(said') = Front(said) /\ said' # <<>> /\ \A i \in DOMAIN said' : said'[i].kind \in BlockKinds
  <2>1. Front(said') = Front(said)  BY <1>1, <1>3, <1>5, SMTT(30) DEF Front
  <2>2. \A i \in 1 .. n : i = n \/ i \in 1 .. n - 1  BY <1>3
  <2>3. \A i \in 1 .. n - 1 : i \in DOMAIN said  BY <1>3
  <2>4. \A i \in DOMAIN said' : said'[i].kind \in BlockKinds  BY <1>1, <1>3, <1>4, <1>5, <2>2, <2>3
  <2>5. said' # <<>>  BY <1>3, <1>5
  <2> QED  BY <2>1, <2>4, <2>5
<1>7. /\ Gathered(st', MeantBy(Front(said)), n, n) /\ OpenBlock(st', c, n)
      /\ SameTurn(st, st') /\ st'.durable = st.durable
  <2>1. /\ b.kind \in {"text", "thinking", "hidden", "call", "compaction"}
        /\ b.kind = "compaction" => path = "family"
    BY <1>1, <1>3, KindsAre
  <2>2. st' = Read(st, Delta(n, b.kind))  BY <1>0, <1>3
  <2> QED  BY <1>1, <1>3, <2>1, <2>2, ReadDelta
<1>9. st'.turn = st.turn /\ ShownOnlyOf(st.turn, st.shown, st'.shown) /\ st'.next = st.next /\ st'.held = st.held
  BY <1>7 DEF SameTurn
<1> QED  BY <1>0, <1>1, <1>5, <1>6, <1>7, <1>9, BlockStays

\* It ends.
LEMMA BlockEnds ==
  ASSUME Streaming, EndBlock
  PROVE  Streaming'
<1> PICK n : n = Len(said)  OBVIOUS
<1> PICK b : b = said[n]  OBVIOUS
<1> PICK f : f = Front(said)  OBVIOUS
<1> PICK size : /\ size \in {Last(said).size}
                             \cup (IF path = "family" /\ Last(said).kind = "thinking" THEN {0} ELSE {})
                /\ st' = Read(st, RawEvent("stop", n, Last(said).kind, size))
  BY DEF EndBlock
<1>0. /\ wire = "block" /\ wire' = "open" /\ path' = path /\ log' = log /\ past' = past /\ said' = said
      /\ path = "converse" /\ Last(said).kind # "call" => Last(said).size > 0
  BY DEF EndBlock
<1>1. /\ StreamTypes /\ path \in Paths /\ said \in Seq(ContentBlock)
      /\ path # "replay" /\ said # <<>> /\ \A i \in DOMAIN said : said[i].kind \in BlockKinds
      /\ st.next > 0 /\ Gathered(st, MeantBy(f), n, n) /\ OpenBlock(st, b, n) /\ b.kind # "other"
  BY <1>0, BlockIs DEF StreamTypes
<1>2. SplitsLast(said)  BY <1>1, LastIs
<1>3. /\ n \in Nat \ {0} /\ b \in ContentBlock /\ Last(said) = b /\ b.kind \in BlockKinds /\ b.size \in Nat
      /\ DOMAIN said = 1 .. n /\ f \in Seq(ContentBlock) /\ said = Append(f, b)
  <2>1. /\ n \in Nat \ {0} /\ b \in ContentBlock /\ Last(said) = b /\ DOMAIN said = 1 .. n
        /\ f \in Seq(ContentBlock) /\ said = Append(f, b)
    BY <1>1, <1>2 DEF SplitsLast
  <2> QED  BY <1>1, <2>1, SMTT(30) DEF ContentBlock
<1>4. MeantBy(f) \in Meanings /\ MeantBy(said) = MeantBy(f) \o Meaning(path, b)
  <2>1. \A i \in DOMAIN f : f[i].kind \in BlockKinds
    <3>1. Len(f) = n - 1 /\ \A i \in 1 .. n - 1 : f[i] = said[i]  BY <1>2 DEF SplitsLast
    <3>2. DOMAIN f = 1 .. n - 1 /\ 1 .. n - 1 \subseteq 1 .. n  BY <1>3, <3>1
    <3> QED  BY <1>1, <1>3, <3>1, <3>2
  <2>2. MeantBy(f) \in Meanings /\ MeansMore(f, b)  BY <1>1, <1>3, <2>1, AnswerMeans
  <2> QED  BY <1>3, <2>2 DEF MeansMore
<1>5. /\ b.kind \in {"text", "thinking", "hidden", "call", "compaction"}
      /\ b.kind \in {"text", "thinking", "hidden", "call", "compaction", "told", "other"}
  BY <1>1, <1>3, KindsAre
<1>6. n \in DOMAIN st.acc
  <2>1. SUFFICES ASSUME n \notin DOMAIN st.acc PROVE FALSE  OBVIOUS
  <2>2. path # "family" /\ b.kind # "call" /\ b.size = 0  BY <1>1, <2>1 DEF OpenBlock
  <2>3. path = "converse"  BY <1>1, <2>2 DEF Paths
  <2> QED  BY <1>0, <1>3, <2>2, <2>3
<1>7. Gathered(st', MeantBy(said), 0, n) /\ SameTurn(st, st')
  <2>1. size \in Nat /\ (path = "family" => size = b.size \/ (b.kind = "thinking" /\ size = 0))
    BY <1>3
  <2>2. st' = Read(st, RawEvent("stop", n, b.kind, size))  BY <1>3
  <2>3. Gathered(st', MeantBy(f) \o Meaning(path, b), 0, n) /\ SameTurn(st, st')
    BY <1>1, <1>3, <1>4, <1>5, <1>6, <2>1, <2>2, ReadStop
  <2> QED  BY <1>4, <2>3
<1>9. /\ st'.turn = st.turn /\ ShownOnlyOf(st.turn, st.shown, st'.shown) /\ st'.next = st.next
      /\ st'.held = st.held
  BY <1>7 DEF SameTurn
<1>10. n = (IF path = "replay" THEN st'.next - 1 ELSE Len(said'))  BY <1>0, <1>1
<1> QED  BY <1>0, <1>1, <1>7, <1>9, <1>10, OpenStays

\* A block of an answer that came in one piece is replayed.
LEMMA BlockIsReplayed ==
  ASSUME Streaming, NEW kind \in BlockKinds, Replay(kind)
  PROVE  Streaming'
<1> PICK size : /\ size \in (IF kind = "told" THEN {0, 1} ELSE {1})
                /\ said' = Append(said, [kind |-> kind, size |-> size])
                /\ st' = [ReadAll(st, Replayed([kind |-> kind, size |-> size], st.next))
                            EXCEPT !.next = @ + Slots([kind |-> kind, size |-> size])]
  BY DEF Replay
<1> PICK b : b = [kind |-> kind, size |-> size]  OBVIOUS
<1> PICK n : n = st.next  OBVIOUS
<1> PICK t : t = ReadAll(st, Replayed(b, n))  OBVIOUS
<1>0. /\ wire = "open" /\ wire' = "open" /\ path = "replay" /\ path' = path /\ log' = log /\ past' = past
      /\ said' = Append(said, b) /\ st' = [t EXCEPT !.next = @ + Slots(b)]
  BY DEF Replay
<1>1. /\ StreamTypes /\ path \in Paths /\ said \in Seq(ContentBlock)
      /\ st.next > 0 /\ st \in Gatherings /\ \A i \in DOMAIN said : said[i].kind \in BlockKinds
  BY <1>0, OpenIs DEF StreamTypes
<1>2. Gathered(st, MeantBy(said), 0, n - 1)
  <2>1. Gathered(st, MeantBy(said), 0, IF path = "replay" THEN st.next - 1 ELSE Len(said))  BY <1>0, OpenIs
  <2> QED  BY <1>0, <2>1
<1>3. /\ n \in Nat \ {0} /\ b \in ContentBlock /\ b.kind = kind /\ b.size = size /\ kind \in BlockNames
      /\ size = 1 \/ (size = 0 /\ kind = "told")
      /\ kind \in {"text", "thinking", "hidden", "call", "told", "other"}
      /\ kind \in {"text", "thinking", "hidden", "call", "compaction", "told", "other"}
  <2>1. n \in Nat \ {0}
    <3>1. st.next \in Nat  BY <1>1 DEF Gatherings
    <3> QED  BY <1>1, <3>1
  <2>2. /\ kind \in BlockNames /\ kind \in {"text", "thinking", "hidden", "call", "told", "other"}
        /\ kind \in {"text", "thinking", "hidden", "call", "compaction", "told", "other"}
    BY <1>0, <1>1, KindsAre
  <2>3. size \in Nat /\ (size = 1 \/ (size = 0 /\ kind = "told"))  OBVIOUS
  <2> QED  BY <2>1, <2>2, <2>3 DEF ContentBlock
<1>4. MeantBy(said) \in Meanings /\ MeantBy(said') = MeantBy(said) \o Meaning(path, b)
  <2>1. MeantBy(said) \in Meanings /\ MeansMore(said, b)  BY <1>1, <1>3, AnswerMeans
  <2> QED  BY <1>0, <2>1 DEF MeansMore
<1>5. Gathered(t, MeantBy(said'), 0, n + Slots(b) - 1) /\ SameTurn(st, t)
  <2>1. Gathered(t, MeantBy(said) \o Meaning(path, b), 0, n + Slots(b) - 1) /\ SameTurn(st, t)
    BY <1>0, <1>2, <1>3, <1>4, ReplayIs
  <2> QED  BY <1>4, <2>1
<1>6. t \in Gatherings /\ t.next = n /\ t.held = st.held  BY <1>5 DEF Gathered, Heard, SameTurn
<1>7. Slots(b) \in Nat  BY <1>3 DEF Slots
<1>8. /\ st' \in Gatherings /\ st'.next = n + Slots(b) /\ st'.held = st.held
      /\ st'.turn = t.turn /\ st'.acc = t.acc /\ st'.shown = t.shown /\ st'.opened = t.opened
      /\ st'.durable = t.durable /\ st'.blocks = t.blocks /\ st'.calls = t.calls
  <2> PICK m \in Nat : m = t.next + Slots(b)  BY <1>3, <1>6, <1>7
  <2>1. st' = [t EXCEPT !.next = m]  BY <1>0
  <2>2. [t EXCEPT !.next = m] \in Gatherings  BY ONLY <1>6, m \in Nat DEF Gatherings
  <2>3. /\ [t EXCEPT !.next = m].next = m /\ [t EXCEPT !.next = m].held = t.held
        /\ [t EXCEPT !.next = m].turn = t.turn /\ [t EXCEPT !.next = m].acc = t.acc
        /\ [t EXCEPT !.next = m].shown = t.shown /\ [t EXCEPT !.next = m].opened = t.opened
        /\ [t EXCEPT !.next = m].durable = t.durable /\ [t EXCEPT !.next = m].blocks = t.blocks
        /\ [t EXCEPT !.next = m].calls = t.calls
    BY <1>6 DEF Gatherings
  <2> QED  BY <1>6, <2>1, <2>2, <2>3
<1>9. Gathered(st', MeantBy(said'), 0, n + Slots(b) - 1)  BY ONLY <1>5, <1>8, GatheredAlike
<1>10. st'.turn = st.turn /\ ShownOnlyOf(st.turn, st.shown, st'.shown)
  BY <1>5, <1>8, SameTurnNext
<1>11. /\ said' \in Seq(ContentBlock) /\ \A i \in DOMAIN said' : said'[i].kind \in BlockKinds
  <2>1. /\ said' \in Seq(ContentBlock) /\ said'[Len(said) + 1] = b /\ \A i \in 1 .. Len(said) : said'[i] = said[i]
        /\ DOMAIN said = 1 .. Len(said)
        /\ \A i \in DOMAIN said' : i \in DOMAIN said \/ i = Len(said) + 1
    BY <1>0, <1>1, <1>3, AppendedIs
  <2>2. \A i \in DOMAIN said' : said'[i].kind \in BlockKinds  BY <1>1, <1>3, <2>1
  <2> QED  BY <2>1, <2>2
<1>13. n + Slots(b) - 1 = (IF path = "replay" THEN st'.next - 1 ELSE Len(said')) /\ st'.next > 0
  BY <1>0, <1>3, <1>7, <1>8
<1> QED  BY <1>0, <1>8, <1>9, <1>10, <1>11, <1>13, OpenStays

\* The mapper meets an event that it does not know.
LEMMA UnknownIsKept ==
  ASSUME Streaming, Unknown
  PROVE  Streaming'
<1> PICK n : n = Len(said) + 1  OBVIOUS
<1> PICK b : b = [kind |-> "other", size |-> 1]  OBVIOUS
<1>0. /\ wire = "open" /\ wire' = "open" /\ path = "converse" /\ path' = path /\ log' = log /\ past' = past
      /\ said' = Append(said, b) /\ st' = Read(st, Delta(n, "other"))
  BY DEF Unknown
<1>1. /\ StreamTypes /\ path \in Paths /\ said \in Seq(ContentBlock) /\ st.next > 0
      /\ \A i \in DOMAIN said : said[i].kind \in BlockKinds
      /\ Gathered(st, MeantBy(said), 0, Len(said))
  BY <1>0, OpenIs DEF StreamTypes
<1>2. n \in Nat \ {0} /\ n - 1 = Len(said) /\ "other" \in BlockKinds  BY <1>0, <1>1 DEF BlockKinds
<1>3. b \in ContentBlock /\ b.kind = "other"  BY DEF ContentBlock, BlockNames
<1>4. MeantBy(said) \in Meanings /\ MeantBy(said') = MeantBy(said) \o Meaning(path, b)
  <2>1. MeantBy(said) \in Meanings /\ MeansMore(said, b)  BY <1>1, <1>2, <1>3, AnswerMeans
  <2> QED  BY <1>0, <2>1 DEF MeansMore
<1>5. Gathered(st', MeantBy(said'), 0, n) /\ SameTurn(st, st')
  <2>1. Gathered(st', Append(MeantBy(said), <<"ai_raw", 0>>), 0, n) /\ SameTurn(st, st')
    BY <1>0, <1>1, <1>2, ReadRaw
  <2>2. Meaning(path, b) = <<<<"ai_raw", 0>>>>  BY <1>3 DEF Meaning, Wordy
  <2>3. Append(MeantBy(said), <<"ai_raw", 0>>) = MeantBy(said) \o <<<<"ai_raw", 0>>>>
    <3> DEFINE x == <<"ai_raw", 0>>
    <3>1. MeantBy(said) \in Seq(EventNames \X Nat) /\ x \in EventNames \X Nat
      BY <1>4 DEF Meanings, EventNames
    <3> HIDE DEF x
    <3>2. \A T : \A m \in Seq(T), y \in T : Append(m, y) = m \o <<y>>  OBVIOUS
    <3> QED  BY ONLY <3>1, <3>2 DEF x
  <2> QED  BY <1>4, <2>1, <2>2, <2>3
<1>6. /\ said' \in Seq(ContentBlock) /\ Len(said') = n /\ \A i \in DOMAIN said' : said'[i].kind \in BlockKinds
  <2>1. /\ said' \in Seq(ContentBlock) /\ said'[n] = b /\ \A i \in 1 .. Len(said) : said'[i] = said[i]
        /\ DOMAIN said = 1 .. Len(said) /\ Len(said') = n
        /\ \A i \in DOMAIN said' : i \in DOMAIN said \/ i = n
    BY <1>0, <1>1, <1>3, AppendedIs
  <2> QED  BY <1>1, <1>2, <1>3, <2>1
<1>7. /\ st'.turn = st.turn /\ ShownOnlyOf(st.turn, st.shown, st'.shown) /\ st'.next = st.next
      /\ st'.held = st.held
  BY <1>5 DEF SameTurn
<1>8. n = (IF path = "replay" THEN st'.next - 1 ELSE Len(said'))  BY <1>0, <1>6
<1> QED  BY <1>0, <1>1, <1>5, <1>6, <1>7, <1>8, OpenStays

\* Only what is told of the end of the answer changes.
OnlyStops(s, t, stop, held) ==
  /\ t \in Gatherings /\ t.stop = stop /\ t.held = held
  /\ t.turn = s.turn /\ t.acc = s.acc /\ t.shown = s.shown /\ t.opened = s.opened
  /\ t.durable = s.durable /\ t.blocks = s.blocks /\ t.calls = s.calls /\ t.next = s.next

LEMMA StopsIs ==
  ASSUME NEW s \in Gatherings, NEW stop \in StopNames, NEW held \in StopNames
  PROVE  /\ OnlyStops(s, s, s.stop, s.held)
         /\ OnlyStops(s, [s EXCEPT !.stop = stop], stop, s.held)
         /\ OnlyStops(s, [s EXCEPT !.held = held], s.stop, held)
         /\ OnlyStops(s, [s EXCEPT !.stop = stop, !.held = held], stop, held)
<1>1. OnlyStops(s, s, s.stop, s.held)  BY DEF OnlyStops
<1>2. OnlyStops(s, [s EXCEPT !.stop = stop], stop, s.held)  BY DEF OnlyStops, Gatherings
<1>3. OnlyStops(s, [s EXCEPT !.held = held], s.stop, held)  BY DEF OnlyStops, Gatherings
<1>4. OnlyStops(s, [s EXCEPT !.stop = stop, !.held = held], stop, held)  BY DEF OnlyStops, Gatherings
<1> QED  BY <1>1, <1>2, <1>3, <1>4

\* Every stop reason is mapped to one that the loop knows.
LEMMA StopIsMapped ==
  ASSUME NEW reason \in Reasons
  PROVE  reason \in StopNames /\ MappedStop(reason) \in StopNames \ {"none"}
<1>1. reason \in {"max_tokens", "model_context_window_exceeded", "tool_use", "end_turn", "stop_sequence",
                  "refusal", "pause_turn"}
  BY DEF Reasons
<1>2. ReplayStop(reason) \in {reason, "tool_use"}  BY DEF ReplayStop
<1>3. \A r : MapStopReason(r) = r \/ MapStopReason(r) = "end_turn"  BY DEF MapStopReason
<1> QED  BY <1>1, <1>2, <1>3 DEF MappedStop, StopNames

\* What a state is in which the answer has stopped.
LEMMA StoppedIs ==
  ASSUME Streaming, wire \in {"stopped", "billed", "closed"}
  PROVE  /\ StreamTypes /\ History /\ AnswersHold
         /\ Gathered(st, MeantBy(said), 0, IF path = "replay" THEN st.next - 1 ELSE Len(said))
         /\ past # <<>> /\ StoppedBy(past[Len(past)])
         /\ \A i \in 1 .. Len(past) - 1 : past[i].turn < st.turn
BY DEF Streaming, AnswersHold, Gathering, History

\* The rest of the invariant, when the answer has ended.
LEMMA StoppedStays ==
  ASSUME Streaming, wire \in {"open", "stopped", "billed"}, wire' \in {"stopped", "billed", "closed"},
         UNCHANGED <<path, said, log>>, NEW stop, NEW held, OnlyStops(st, st', stop, held),
         past' \in Seq(PastAnswers), past' # <<>>, StoppedBy(past[Len(past)])', AnswersHold',
         \A i \in DOMAIN past' : past'[i].turn \in 1 .. st.turn,
         \A i \in 1 .. Len(past') - 1 : past'[i].turn < st.turn
  PROVE  Streaming'
<1>0. /\ StreamTypes /\ History
      /\ Gathered(st, MeantBy(said), 0, IF path = "replay" THEN st.next - 1 ELSE Len(said))
  BY OpenIs, StoppedIs
<1>1. /\ st' \in Gatherings /\ st'.next = st.next /\ st'.turn = st.turn /\ st'.shown = st.shown
      /\ st'.durable = st.durable
  BY DEF OnlyStops
<1>2. Gathered(st', MeantBy(said), 0, IF path = "replay" THEN st.next - 1 ELSE Len(said))
  BY <1>0, GatheredAlike DEF OnlyStops
<1>3. StreamTypes'
  <2>1. said' \in Seq(ContentBlock) /\ st'.next > 0 /\ \A i \in DOMAIN said' : said'[i].kind \in BlockKinds
    BY <1>0, <1>1 DEF StreamTypes
  <2> QED  BY <1>0, <1>1, <2>1, TypesAre
<1>4. Gathering'
  BY <1>0, <1>1, <1>2 DEF Gathering, Gathered, Heard, MapperIsOpen, MeantBy
<1>5. History'
  BY <1>0, <1>1 DEF History
<1> QED  BY <1>3, <1>4, <1>5, StreamingIs, PTL

\* The provider stops.
LEMMA MessageStops ==
  ASSUME Streaming, NEW reason \in Reasons, StopMessage(reason)
  PROVE  Streaming'
<1> PICK a : a = [turn |-> st.turn, path |-> path, reason |-> reason,
                  said |-> said, done |-> "no", calls |-> <<>>]
  OBVIOUS
<1> PICK m : m = MappedStop(reason)  OBVIOUS
<1> PICK k : k = Len(past)  OBVIOUS
<1>0. /\ wire = "open" /\ wire' = "stopped" /\ path' = path /\ said' = said /\ log' = log
      /\ past' = Append(past, a)
      /\ st' = IF path = "family" THEN [st EXCEPT !.stop = m] ELSE [st EXCEPT !.held = m]
  BY DEF StopMessage, MappedStop
<1>1. /\ StreamTypes /\ History /\ AnswersHold /\ st \in Gatherings /\ past \in Seq(PastAnswers) /\ path \in Paths
      /\ said \in Seq(ContentBlock) /\ log \in Seq(Recordings)
  BY <1>0, OpenIs DEF StreamTypes
<1>2. m \in StopNames \ {"none"} /\ reason \in StopNames  BY StopIsMapped
<1>3. a \in PastAnswers
  <2>1. st.turn \in Nat /\ <<>> \in Seq(Nat)  BY <1>1 DEF Gatherings
  <2> QED  BY <1>1, <1>2, <2>1 DEF PastAnswers
<1>4. st.held = "none" /\ st.turn \in Nat /\ st.turn > 0  BY <1>0, <1>1 DEF History, Gatherings
<1>5. /\ past' \in Seq(PastAnswers) /\ Len(past') = k + 1 /\ k \in Nat /\ past'[k + 1] = a
      /\ \A i \in 1 .. k : past'[i] = past[i] /\ i \in DOMAIN past
      /\ \A i \in DOMAIN past' : i \in 1 .. k \/ i = k + 1
  <2>1. /\ Append(past, a) \in Seq(PastAnswers) /\ DOMAIN past = 1 .. k /\ k \in Nat
        /\ Len(Append(past, a)) = k + 1 /\ Append(past, a)[k + 1] = a
        /\ \A i \in 1 .. k : Append(past, a)[i] = past[i]
        /\ \A i \in DOMAIN Append(past, a) : i \in DOMAIN past \/ i = k + 1
    BY <1>1, <1>3, AppendedIs
  <2> QED  BY <1>0, <2>1
<1>6. a.turn = st.turn /\ a.done = "no" /\ a.path = path /\ a.said = said /\ a.reason = reason  OBVIOUS
<1>7. /\ \A i \in DOMAIN past' : past'[i].turn \in 1 .. st.turn
      /\ \A i \in 1 .. Len(past') - 1 : past'[i].turn < st.turn
  <2>1. \A i \in 1 .. k : past'[i].turn \in 1 .. st.turn /\ past'[i].turn < st.turn
    BY <1>0, <1>1, <1>5 DEF History
  <2> QED  BY <1>4, <1>5, <1>6, <2>1
<1>8. \/ path = "family" /\ OnlyStops(st, st', m, st.held)
      \/ path # "family" /\ OnlyStops(st, st', st.stop, m)
  BY <1>0, <1>1, <1>2, StopsIs, Zenon
<1>9. st'.shown = st.shown /\ st'.turn = st.turn /\ st' \in Gatherings  BY <1>8 DEF OnlyStops
<1>10. StoppedBy(past[Len(past)])'
  <2>1. past'[Len(past')] = a  BY <1>5
  <2>2. Reasons' = Reasons /\ MappedStop(reason)' = m
    BY <1>0 DEF Reasons, MappedStop, MapStopReason, ReplayStop
  <2>3. \/ st'.held = m /\ wire' # "closed"
        \/ st'.held = "none" /\ st'.stop = m /\ (path' = "family" \/ wire' # "stopped")
    BY <1>0, <1>4, <1>8 DEF OnlyStops
  <2> QED  BY <1>0, <1>6, <1>9, <2>1, <2>2, <2>3 DEF StoppedBy, MappedStop
<1>11. AnswersHold'
  <2>1. SettledAnswers' \subseteq SettledAnswers
    <3>1. ASSUME NEW i \in DOMAIN past', past'[i].done = "yes" PROVE past'[i] \in SettledAnswers
      <4>1. i \in 1 .. k  BY <1>5, <1>6, <3>1
      <4>2. past'[i] = past[i] /\ i \in DOMAIN past  BY <1>5, <4>1
      <4> QED  BY <3>1, <4>2 DEF SettledAnswers
    <3> QED  BY <3>1 DEF SettledAnswers
  <2>2. <<>> \in Seq(Recordings) /\ log' = log \o <<>> /\ Len(<<>>) = 0  BY <1>0, <1>1
  <2>3. \A x \in SettledAnswers : \A i \in 1 .. Len(<<>>) : <<>>[i].turn # x.turn  BY <2>2
  <2>4. st'.shown \in Seq(Nat \X Nat)  BY <1>9 DEF Gatherings
  <2> QED  BY <1>1, <1>9, <2>1, <2>2, <2>3, <2>4, AnswersStay
<1>12. past' # <<>>  BY <1>5
<1> QED  BY <1>0, <1>5, <1>7, <1>8, <1>10, <1>11, <1>12, StoppedStays

\* What a turn cost is told after its stop reason, and the stream closes.
LEMMA StoppedAgain ==
  ASSUME Streaming, wire \in {"stopped", "billed"}, wire' \in {"billed", "closed"},
         UNCHANGED <<path, said, log, past>>, NEW stop, NEW held, OnlyStops(st, st', stop, held),
         StoppedBy(past[Len(past)])'
  PROVE  Streaming'
<1>1. /\ StreamTypes /\ History /\ AnswersHold /\ past # <<>> /\ past \in Seq(PastAnswers)
      /\ log \in Seq(Recordings) /\ \A i \in 1 .. Len(past) - 1 : past[i].turn < st.turn
  BY StoppedIs DEF StreamTypes
<1>2. \A i \in DOMAIN past : past[i].turn \in 1 .. st.turn  BY <1>1 DEF History
<1>3. AnswersHold'
  <2>1. st'.shown = st.shown /\ st'.shown \in Seq(Nat \X Nat)  BY DEF OnlyStops, Gatherings
  <2> QED  BY <1>1, <2>1, AnswersStayAlone
<1> QED  BY <1>1, <1>2, <1>3, StoppedStays

\* The usage is told, and then the stream closes.
LEMMA MetadataComes ==
  ASSUME Streaming, Metadata
  PROVE  Streaming'
<1> PICK a : a = past[Len(past)]  OBVIOUS
<1> PICK m : m = MappedStop(a.reason)  OBVIOUS
<1>0. /\ wire = "stopped" /\ wire' = "billed" /\ path # "family" /\ UNCHANGED <<path, said, log, past>>
      /\ st' = [st EXCEPT !.stop = st.held, !.held = "none"]
  BY DEF Metadata
<1>1. st \in Gatherings /\ StoppedBy(a)  BY <1>0, StoppedIs DEF StreamTypes
<1>2. st.held \in StopNames /\ "none" \in StopNames  BY <1>1 DEF Gatherings, StopNames
<1>3. OnlyStops(st, st', st.held, "none")  BY <1>0, <1>1, <1>2, StopsIs, Zenon
<1>4. st.held = m  BY <1>0, <1>1 DEF StoppedBy, MappedStop
<1>5. StoppedBy(past[Len(past)])'
  <2>1. Reasons' = Reasons /\ MappedStop(a.reason)' = m
    BY <1>0 DEF Reasons, MappedStop, MapStopReason, ReplayStop
  <2>2. st'.held = "none" /\ st'.stop = m /\ st'.turn = st.turn  BY <1>3, <1>4 DEF OnlyStops
  <2> QED  BY <1>0, <1>1, <2>1, <2>2 DEF StoppedBy, MappedStop
<1> QED  BY <1>0, <1>3, <1>5, StoppedAgain

LEMMA StreamCloses ==
  ASSUME Streaming, Close
  PROVE  Streaming'
<1> PICK a : a = past[Len(past)]  OBVIOUS
<1> PICK m : m = MappedStop(a.reason)  OBVIOUS
<1>0. /\ wire \in {"stopped", "billed"} /\ wire' = "closed" /\ UNCHANGED <<path, said, log, past>>
      /\ st' = IF st.held = "none" THEN st ELSE [st EXCEPT !.stop = st.held, !.held = "none"]
  BY DEF Close
<1>1. st \in Gatherings /\ StoppedBy(a)  BY <1>0, StoppedIs DEF StreamTypes
<1>2. st.held \in StopNames /\ "none" \in StopNames /\ st.stop \in StopNames
  BY <1>1 DEF Gatherings, StopNames
<1>3. m # "none"  BY <1>1, StopIsMapped DEF StoppedBy
<1>4. OnlyStops(st, st', m, "none")
  <2>1. st.held = m \/ (st.held = "none" /\ st.stop = m)  BY <1>1 DEF StoppedBy, MappedStop
  <2>2. CASE st.held = "none"
    <3>1. st' = st /\ st.stop = m  BY <1>0, <1>3, <2>1, <2>2
    <3>2. OnlyStops(st, st, st.stop, st.held)  BY <1>1, <1>2, StopsIs, Zenon
    <3> QED  BY <2>2, <3>1, <3>2
  <2>3. CASE st.held # "none"
    <3>1. st' = [st EXCEPT !.stop = st.held, !.held = "none"] /\ st.held = m  BY <1>0, <2>1, <2>3
    <3>2. OnlyStops(st, [st EXCEPT !.stop = st.held, !.held = "none"], st.held, "none")
      BY <1>1, <1>2, StopsIs, Zenon
    <3> QED  BY <3>1, <3>2
  <2> QED  BY <2>2, <2>3
<1>5. StoppedBy(past[Len(past)])'
  <2>1. Reasons' = Reasons /\ MappedStop(a.reason)' = m
    BY <1>0 DEF Reasons, MappedStop, MapStopReason, ReplayStop
  <2>2. st'.held = "none" /\ st'.stop = m /\ st'.turn = st.turn  BY <1>4 DEF OnlyStops
  <2> QED  BY <1>0, <1>1, <2>1, <2>2 DEF StoppedBy, MappedStop
<1> QED  BY <1>0, <1>4, <1>5, StoppedAgain

\* The stream breaks off.
LEMMA StreamIsCut ==
  ASSUME Streaming, Cut
  PROVE  Streaming'
<1>0. /\ wire \in {"open", "block"} /\ wire' = "cut" /\ path' = path /\ said' = said /\ st' = st
      /\ log' = log /\ past' = past
  BY DEF Cut
<1>1. StreamTypes /\ History /\ AnswersHold  BY DEF Streaming, AnswersHold
<1>2. StreamTypes'
  <2>1. /\ said' \in Seq(ContentBlock) /\ st'.next > 0 /\ \A i \in DOMAIN said' : said'[i].kind \in BlockKinds
        /\ st' \in Gatherings /\ past' \in Seq(PastAnswers)
    BY <1>0, <1>1 DEF StreamTypes
  <2> QED  BY <1>0, <1>1, <2>1, TypesAre
<1>3. Gathering'  BY <1>0 DEF Gathering
<1>4. History'  BY <1>0, <1>1 DEF History
<1>5. AnswersHold'
  <2>1. st'.shown \in Seq(Nat \X Nat)  BY <1>0, <1>1 DEF StreamTypes, Gatherings
  <2> QED  BY <1>0, <1>1, <2>1, AnswersStayAlone DEF StreamTypes
<1> QED  BY <1>2, <1>3, <1>4, <1>5, StreamingIs, PTL

-----------------------------------------------------------------------------
(* The end of a turn.                                                      *)

LEMMA SeqIs ==
  ASSUME NEW s \in Gatherings, NEW n \in Nat
  PROVE  /\ [s EXCEPT !.seq = n] \in Gatherings /\ [s EXCEPT !.seq = n].turn = s.turn
         /\ [s EXCEPT !.seq = n].shown = s.shown /\ [s EXCEPT !.seq = n].next = s.next
BY DEF Gatherings

\* The entries of the run itself belong to no turn.
LEMMA PlainIs ==
  ASSUME NEW type \in RecordNames, NEW seq \in Nat
  PROVE  Plain(type, seq) \in Recordings /\ Plain(type, seq).turn = 0
<1>1. <<>> \in Seq(ContentBlock) /\ <<>> \in Keys /\ 0 \in Nat  BY DEF Keys
<1> QED  BY <1>1 DEF Plain, Recordings

LEMMA ResultsAre ==
  "run_" \o "failed" \in RecordNames /\ "run_" \o "finished" \in RecordNames
    /\ "run_" \o "interrupted" \in RecordNames /\ "tool_finished" \in RecordNames
BY DEF RecordNames

\* A record that grows by entries of this turn, and of none.
LEMMA LogGrows ==
  ASSUME NEW entries \in Seq(Recordings), NEW more \in Seq(Recordings), NEW turn \in Nat,
         \A i \in DOMAIN entries : entries[i].turn <= turn, \A i \in DOMAIN more : more[i].turn <= turn
  PROVE  entries \o more \in Seq(Recordings) /\ \A i \in DOMAIN (entries \o more) : (entries \o more)[i].turn <= turn
<1>1. entries \o more \in Seq(Recordings)  OBVIOUS
<1> PICK all \in Seq(Recordings) : all = entries \o more  BY <1>1
<1>2. ASSUME NEW i \in DOMAIN all PROVE all[i].turn <= turn
  <2>1. \/ i \in DOMAIN entries /\ all[i] = entries[i]
        \/ i - Len(entries) \in DOMAIN more /\ all[i] = more[i - Len(entries)]
    OBVIOUS
  <2> QED  BY <2>1
<1> QED  BY <1>1, <1>2

\* The invariant between two turns.
LEMMA IdleStays ==
  ASSUME Streaming, wire' = "idle", UNCHANGED <<path, said>>, NEW seq \in Nat, st' = [st EXCEPT !.seq = seq],
         log' \in Seq(Recordings), \A i \in DOMAIN log' : log'[i].turn <= st.turn,
         past' \in Seq(PastAnswers), \A i \in DOMAIN past' : past'[i].turn \in 1 .. st.turn, AnswersHold'
  PROVE  Streaming'
<1>0. StreamTypes /\ History  BY DEF Streaming
<1>1. st \in Gatherings /\ st.next > 0  BY <1>0 DEF StreamTypes
<1>2. st' \in Gatherings /\ st'.turn = st.turn /\ st'.shown = st.shown /\ st'.next = st.next  BY <1>1, SeqIs, SMTT(30)
<1>3. StreamTypes'  BY <1>0, <1>1, <1>2 DEF StreamTypes, BlockKinds
<1>4. Gathering'  BY DEF Gathering
<1>5. History'  BY <1>0, <1>2 DEF History
<1> QED  BY <1>3, <1>4, <1>5, StreamingIs, PTL

\* A run that ends without recording anything of the answer.
LEMMA EndsWithout ==
  ASSUME Streaming, wire' = "idle", UNCHANGED <<path, said, past>>,
         NEW seq \in Nat, st' = [st EXCEPT !.seq = seq],
         NEW x \in Recordings, x.turn = 0, log' = log \o <<x>>
  PROVE  Streaming'
<1>0. /\ StreamTypes /\ History /\ AnswersHold /\ log \in Seq(Recordings) /\ past \in Seq(PastAnswers)
      /\ st \in Gatherings /\ st.turn \in Nat
  BY DEF Streaming, AnswersHold, StreamTypes, Gatherings
<1>1. <<x>> \in Seq(Recordings) /\ Len(<<x>>) = 1 /\ DOMAIN <<x>> = 1 .. 1 /\ <<x>>[1] = x  OBVIOUS
<1> PICK more \in Seq(Recordings) : more = <<x>>  BY <1>1
<1>2. \A i \in DOMAIN more : more[i].turn = 0  BY <1>1
<1>3. log' \in Seq(Recordings) /\ \A i \in DOMAIN log' : log'[i].turn <= st.turn
  <2>1. \A i \in DOMAIN log : log[i].turn <= st.turn  BY <1>0 DEF History
  <2>2. \A i \in DOMAIN more : more[i].turn <= st.turn  BY <1>0, <1>2
  <2>3. /\ log \o more \in Seq(Recordings)
        /\ \A i \in DOMAIN (log \o more) : (log \o more)[i].turn <= st.turn
    BY <1>0, <2>1, <2>2, LogGrows
  <2> QED  BY <2>3
<1>4. \A i \in DOMAIN past' : past'[i].turn \in 1 .. st.turn  BY <1>0 DEF History
<1>5. AnswersHold'
  <2>1. SettledAnswers' \subseteq SettledAnswers  BY DEF SettledAnswers
  <2>2. st'.shown = st.shown /\ st'.shown \in Seq(Nat \X Nat)  BY <1>0, SeqIs DEF Gatherings
  <2>3. ASSUME NEW a \in SettledAnswers, NEW i \in 1 .. Len(more) PROVE more[i].turn # a.turn
    <3>1. a.turn \in 1 .. st.turn  BY <1>0, AnswersAre
    <3>2. more[i].turn = 0  BY <1>2
    <3> QED  BY <1>0, <3>1, <3>2
  <2>4. log' = log \o more  OBVIOUS
  <2> QED  BY <1>0, <2>1, <2>2, <2>3, <2>4, AnswersStay
<1> QED  BY <1>0, <1>3, <1>4, <1>5, IdleStays

\* A run ends at the boundary of a turn.
LEMMA EndsThere ==
  ASSUME Streaming, EndAtBoundary
  PROVE  Streaming'
<1> PICK result : result = IF run.aborted THEN "interrupted" ELSE "failed"  OBVIOUS
<1> PICK x : x = Plain("run_" \o result, st.seq + 1)  OBVIOUS
<1>0. /\ wire' = "idle" /\ UNCHANGED <<path, said, past>> /\ st' = [st EXCEPT !.seq = @ + 1]
      /\ log' = log \o <<>> \o <<x>>
  BY DEF EndAtBoundary, Ends
<1>1. st.seq \in Nat /\ log \in Seq(Recordings)  BY DEF Streaming, StreamTypes, Gatherings
<1>2. "run_" \o result \in RecordNames  BY ResultsAre
<1>3. x \in Recordings /\ x.turn = 0  BY <1>1, <1>2, PlainIs
<1>4. log \o <<>> = log  BY <1>1
<1>5. log' = log \o <<x>>  BY <1>0, <1>4
<1>6. st' = [st EXCEPT !.seq = st.seq + 1] /\ st.seq + 1 \in Nat  BY <1>0, <1>1
<1> QED  BY <1>0, <1>3, <1>5, <1>6, EndsWithout

\* A stream that throws ends the run, and drops what it gathered.
LEMMA StreamThrows ==
  ASSUME Streaming, Throw
  PROVE  Streaming'
<1> PICK result : result = IF run.aborted THEN "interrupted" ELSE "failed"  OBVIOUS
<1> PICK x : x = Plain("run_" \o result, st.seq + 2)  OBVIOUS
<1>0. /\ wire' = "idle" /\ UNCHANGED <<path, said, past>> /\ st' = [st EXCEPT !.seq = @ + 2]
      /\ log' = Append(log, x)
  BY DEF Throw
<1>1. st.seq \in Nat /\ log \in Seq(Recordings)  BY DEF Streaming, StreamTypes, Gatherings
<1>2. "run_" \o result \in RecordNames /\ st.seq + 2 \in Nat  BY <1>1, ResultsAre
<1>3. x \in Recordings /\ x.turn = 0  BY <1>2, PlainIs
<1>4. log' = log \o <<x>>  BY <1>0, <1>1, <1>3, AppendIsConcat
<1>5. st' = [st EXCEPT !.seq = st.seq + 2]  BY <1>0
<1> QED  BY <1>0, <1>2, <1>3, <1>4, <1>5, EndsWithout

\* Of an answer that ended the calls are run just when it stopped for them, or the replay says so.
LEMMA StopsForCalls ==
  ASSUME Streaming, wire = "closed", NEW a, StoppedBy(a)
  PROVE  Reason = "tool_use" <=> Dispatches(a)
<1>0. StreamTypes /\ path \in Paths  BY StoppedIs DEF StreamTypes
<1>1. a.reason \in Reasons /\ a.said = said  BY DEF StoppedBy
<1>2. /\ MapStopReason("tool_use") = "tool_use"
      /\ \A r : MapStopReason(r) = "tool_use" => r = "tool_use"
  BY DEF MapStopReason, ConverseReasons
<1>3. HasKind(said, "told") => path = "replay"
  <2> SUFFICES ASSUME HasKind(said, "told") PROVE path = "replay"  OBVIOUS
  <2>1. PICK j \in DOMAIN said : said[j].kind = "told"  BY DEF HasKind
  <2>2. "told" \in BlockKinds  BY <1>0, <2>1 DEF StreamTypes
  <2> QED  BY <1>0, <2>2 DEF BlockKinds, Paths
<1>4. MappedStop(a.reason) = "tool_use" <=> Dispatches(a)
  <2>1. CASE HasKind(said, "told")
    <3>1. path = "replay" /\ ReplayStop(a.reason) = "tool_use" /\ Dispatches(a)
      BY <1>1, <1>3, <2>1 DEF ReplayStop, Dispatches
    <3> QED  BY <1>2, <3>1 DEF MappedStop
  <2>2. CASE ~HasKind(said, "told")
    <3>1. ReplayStop(a.reason) = a.reason /\ (Dispatches(a) <=> a.reason = "tool_use")
      BY <1>1, <2>2 DEF ReplayStop, Dispatches
    <3>2. MappedStop(a.reason) = MapStopReason(a.reason)  BY <3>1 DEF MappedStop
    <3> QED  BY <1>2, <3>1, <3>2
  <2> QED  BY <2>1, <2>2
<1>5. MappedStop(a.reason) # "none"  BY <1>1, StopIsMapped
<1>6. st.stop = MappedStop(a.reason)  BY DEF StoppedBy, MappedStop
<1> QED  BY <1>4, <1>5, <1>6 DEF Reason

\* What the turn that ends records.
LEMMA TurnRecords ==
  ASSUME Streaming, wire \in {"closed", "cut"}, NEW e, e = Entries(st),
         NEW more \in Seq(Recordings), \A i \in 1 .. Len(more) : more[i].turn = 0
  PROVE  /\ AreEntries(e, st) /\ \A i \in 1 .. Len(e) : e[i].turn = st.turn
         /\ (log \o e) \o more \in Seq(Recordings)
         /\ \A i \in DOMAIN ((log \o e) \o more) : ((log \o e) \o more)[i].turn <= st.turn
         /\ EntriesOf((log \o e) \o more, st.turn) = e
         /\ \A turn \in 1 .. st.turn : turn # st.turn =>
              EntriesOf((log \o e) \o more, turn) = EntriesOf(log, turn)
<1>0. /\ StreamTypes /\ History /\ log \in Seq(Recordings) /\ st \in Gatherings /\ st.turn \in Nat /\ st.turn > 0
  BY DEF Streaming, StreamTypes, Gatherings, History
<1>1. AreEntries(e, st)  BY <1>0, EntriesAre
<1>2. e \in Seq(Recordings) /\ \A i \in 1 .. Len(e) : e[i].turn = st.turn
  <2>1. \A i \in DOMAIN st.durable : st.durable[i].turn = st.turn  BY <1>0 DEF History
  <2>2. DOMAIN st.durable = 1 .. Len(st.durable)  BY <1>0 DEF Gatherings
  <2> QED  BY <1>1, <2>1, <2>2 DEF AreEntries
<1>3. \A i \in DOMAIN log : log[i].turn < st.turn  BY <1>0 DEF History
<1>4. DOMAIN log = 1 .. Len(log) /\ DOMAIN e = 1 .. Len(e) /\ DOMAIN more = 1 .. Len(more)  BY <1>0, <1>2
<1>5. log \o e \in Seq(Recordings) /\ \A i \in DOMAIN (log \o e) : (log \o e)[i].turn <= st.turn
  <2>1. \A i \in DOMAIN log : log[i].turn <= st.turn  BY <1>0 DEF History
  <2>2. \A i \in DOMAIN e : e[i].turn <= st.turn  BY <1>0, <1>2, <1>4
  <2> QED  BY <1>0, <1>2, <2>1, <2>2, LogGrows
<1> PICK both \in Seq(Recordings) : both = log \o e  BY <1>5
<1>6. both \o more \in Seq(Recordings) /\ \A i \in DOMAIN (both \o more) : (both \o more)[i].turn <= st.turn
  <2>1. \A i \in DOMAIN more : more[i].turn <= st.turn  BY <1>0, <1>4
  <2>2. \A i \in DOMAIN both : both[i].turn <= st.turn  BY <1>5
  <2> QED  BY <1>0, <2>1, <2>2, LogGrows
<1>7. ASSUME NEW turn \in 1 .. st.turn PROVE EntriesOf(both \o more, turn) = EntriesOf(both, turn)
  <2>1. \A i \in 1 .. Len(more) : more[i].turn # turn  BY <1>0
  <2> QED  BY <2>1, OfLater
<1>8. EntriesOf(both, st.turn) = e
  <2>1. \A i \in 1 .. Len(log) : log[i].turn # st.turn
    <3>1. ASSUME NEW i \in 1 .. Len(log) PROVE log[i].turn # st.turn
      <4>1. log[i] \in Recordings  BY <1>0
      <4>2. log[i].turn \in Nat /\ log[i].turn < st.turn  BY <1>3, <1>4, <4>1 DEF Recordings
      <4> QED  BY <1>0, <4>2
    <3> QED  BY <3>1
  <2>2. EntriesOf(log \o e, st.turn) = e
    <3>1. log \in Seq(Recordings) /\ e \in Seq(Recordings)  BY <1>0, <1>2
    <3>2. \A i \in 1 .. Len(e) : e[i].turn = st.turn  BY <1>2
    <3> QED  BY ONLY <2>1, <3>1, <3>2, OfNow, ZenonT(60)
  <2> QED  BY <2>2
<1>9. ASSUME NEW turn \in 1 .. st.turn, turn # st.turn PROVE EntriesOf(both, turn) = EntriesOf(log, turn)
  <2>1. \A i \in 1 .. Len(e) : e[i].turn # turn  BY <1>2, <1>9
  <2>2. EntriesOf(log \o e, turn) = EntriesOf(log, turn)  BY <1>0, <1>2, <2>1, OfLater
  <2> QED  BY <2>2
<1>10. st.turn \in 1 .. st.turn  BY <1>0
<1>11. EntriesOf(both \o more, st.turn) = e  BY <1>7, <1>8, <1>10
<1>12. \A turn \in 1 .. st.turn : turn # st.turn => EntriesOf(both \o more, turn) = EntriesOf(log, turn)
  BY <1>7, <1>9
<1> QED  BY <1>1, <1>2, <1>6, <1>11, <1>12

\* A turn that settles is recorded.
LEMMA TurnSettles ==
  ASSUME Streaming, NEW calls \in Seq(Nat), Settles(calls),
         calls = IF Reason = "tool_use" THEN st.calls ELSE <<>>,
         NEW more \in Seq(Recordings), \A i \in 1 .. Len(more) : more[i].turn = 0,
         log' = (log \o Entries(st)) \o more, NEW seq \in Nat, st' = [st EXCEPT !.seq = seq]
  PROVE  Streaming'
<1> PICK e : e = Entries(st)  OBVIOUS
<1>0. /\ StreamTypes /\ History /\ AnswersHold /\ path' = path /\ said' = said /\ wire \in {"closed", "cut"}
      /\ wire' = "idle" /\ st \in Gatherings /\ past \in Seq(PastAnswers) /\ st.turn \in Nat /\ st.turn > 0
  BY DEF Streaming, AnswersHold, StreamTypes, Settles, Gatherings, History
<1>1. /\ AreEntries(e, st) /\ log' \in Seq(Recordings) /\ \A i \in DOMAIN log' : log'[i].turn <= st.turn
      /\ EntriesOf(log', st.turn) = e
      /\ \A turn \in 1 .. st.turn : turn # st.turn => EntriesOf(log', turn) = EntriesOf(log, turn)
  BY <1>0, TurnRecords
<1>2. st'.shown = st.shown  BY <1>0, SeqIs
<1>3. ASSUME NEW a \in SettledAnswers, a.turn # st.turn PROVE IsRecorded(a, Of(a)', st'.shown)
  <2>1. a.turn \in 1 .. st.turn  BY <1>0, AnswersAre
  <2>2. Of(a)' = EntriesOf(log', a.turn)  BY DEF Of, EntriesOf
  <2>3. Of(a) = EntriesOf(log, a.turn)  BY OfIs
  <2>4. Of(a)' = Of(a)  BY <1>1, <1>3, <2>1, <2>2, <2>3
  <2>5. IsRecorded(a, Of(a), st.shown)  BY <1>0 DEF AnswersHold
  <2> QED  BY <1>2, <2>4, <2>5
<1>4. CASE wire = "cut"
  <2>1. past' = past  BY <1>4 DEF Settles
  <2>2. AnswersHold'
    <3>1. SettledAnswers' = SettledAnswers  BY <2>1 DEF SettledAnswers
    <3>2. \A a \in SettledAnswers : a.turn # st.turn  BY <1>0, <1>4, AnswersAre
    <3> QED  BY <1>3, <3>1, <3>2 DEF AnswersHold
  <2>3. past' \in Seq(PastAnswers) /\ \A i \in DOMAIN past' : past'[i].turn \in 1 .. st.turn
    BY <1>0, <2>1 DEF History
  <2> QED  BY <1>0, <1>1, <2>2, <2>3, IdleStays
<1>5. CASE wire = "closed"
  <2> PICK k : k = Len(past)  OBVIOUS
  <2> PICK a : a = past[k]  OBVIOUS
  <2> PICK b : b = [a EXCEPT !.done = "yes", !.calls = calls]  OBVIOUS
  <2>1. /\ past # <<>> /\ StoppedBy(a) /\ \A i \in 1 .. k - 1 : past[i].turn < st.turn
        /\ Gathered(st, MeantBy(said), 0, IF path = "replay" THEN st.next - 1 ELSE Len(said))
    BY <1>5, StoppedIs
  <2>2. k \in Nat \ {0} /\ DOMAIN past = 1 .. k /\ a \in PastAnswers  BY <1>0, <2>1
  <2>3. /\ b \in PastAnswers /\ b.turn = st.turn /\ b.path = path /\ b.said = said /\ b.reason = a.reason
        /\ b.done = "yes" /\ b.calls = calls
    <3>1. a.turn = st.turn /\ a.path = path /\ a.said = said  BY <2>1 DEF StoppedBy
    <3>2. /\ b \in PastAnswers /\ b.turn = a.turn /\ b.path = a.path /\ b.said = a.said /\ b.reason = a.reason
          /\ b.done = "yes" /\ b.calls = calls
      BY <2>2 DEF PastAnswers
    <3> QED  BY <3>1, <3>2
  <2>4. past' = [i \in 1 .. k |-> IF i = k THEN b ELSE past[i]]
    <3>1. past' = [past EXCEPT ![k].done = "yes", ![k].calls = calls]  BY <1>5 DEF Settles
    <3> QED  BY <2>2, <3>1
  <2>5. past' \in Seq(PastAnswers) /\ Len(past') = k /\ DOMAIN past' = 1 .. k /\ past'[k] = b
        /\ \A i \in 1 .. k : i # k => past'[i] = past[i] /\ i \in 1 .. k - 1 /\ i \in DOMAIN past
    <3>1. \A i \in 1 .. k : (IF i = k THEN b ELSE past[i]) \in PastAnswers  BY <1>0, <2>2, <2>3
    <3>2. past' \in Seq(PastAnswers) /\ Len(past') = k  BY ONLY <2>2, <2>4, <3>1
    <3>3. DOMAIN past' = 1 .. k /\ past'[k] = b
      <4>1. k \in 1 .. k  BY <2>2
      <4> QED  BY ONLY <2>4, <4>1
    <3>4. ASSUME NEW i \in 1 .. k, i # k PROVE past'[i] = past[i] /\ i \in 1 .. k - 1 /\ i \in DOMAIN past
      <4>1. i \in 1 .. k - 1 /\ i \in DOMAIN past  BY <2>2, <3>4
      <4>2. past'[i] = past[i]  BY <2>4, <3>4
      <4> QED  BY <4>1, <4>2
    <3> QED  BY <3>2, <3>3, <3>4
  <2>6. \A i \in DOMAIN past' : past'[i].turn \in 1 .. st.turn
    <3>1. \A i \in DOMAIN past : past[i].turn \in 1 .. st.turn  BY <1>0 DEF History
    <3>2. b.turn \in 1 .. st.turn  BY <1>0, <2>3
    <3> QED  BY <2>5, <3>1, <3>2
  <2>7. IsRecorded(b, Of(b)', st'.shown)
    <3> PICK top : top = IF path = "replay" THEN st.next - 1 ELSE Len(said)  OBVIOUS
    <3>1. top \in Nat
      <4>1. st.next \in Nat /\ st.next > 0 /\ Len(said) \in Nat  BY <1>0 DEF StreamTypes, Gatherings
      <4> QED  BY <4>1
    <3>2. Gathered(st, MeantBy(b.said), 0, top)  BY <2>1, <2>3
    <3>3. b.calls = IF Dispatches(b) THEN st.calls ELSE <<>>
      <4>1. Reason = "tool_use" <=> Dispatches(a)  BY <1>5, <2>1, StopsForCalls
      <4>2. Dispatches(b) <=> Dispatches(a)  BY <2>1, <2>3 DEF Dispatches, StoppedBy
      <4> QED  BY <2>3, <4>1, <4>2
    <3>4. IsRecorded(b, Entries(st), st.shown)
      BY ONLY <2>3, <3>1, <3>2, <3>3, EntriesAreRecorded
    <3>5. Of(b)' = EntriesOf(log', b.turn)  BY DEF Of, EntriesOf
    <3> QED  BY <1>1, <1>2, <2>3, <3>4, <3>5
  <2>8. AnswersHold'
    <3>1. \A x : Of(x)' = EntriesOf(log', x.turn)  BY DEF Of, EntriesOf
    <3>2. ASSUME NEW x \in SettledAnswers' PROVE IsRecorded(x, EntriesOf(log', x.turn), st'.shown)
      <4>1. PICK i \in DOMAIN past' : x = past'[i] /\ past'[i].done = "yes"  BY DEF SettledAnswers
      <4>2. CASE i = k
        <5>1. x = b  BY <2>5, <4>1, <4>2
        <5>2. IsRecorded(b, EntriesOf(log', b.turn), st'.shown)  BY <2>7, <3>1
        <5> QED  BY <5>1, <5>2
      <4>3. CASE i # k
        <5>1. x = past[i] /\ i \in 1 .. k - 1 /\ i \in DOMAIN past  BY <2>5, <4>1, <4>3
        <5>2. x \in SettledAnswers  BY <4>1, <5>1 DEF SettledAnswers
        <5>3. x.turn # st.turn
          <6>1. x.turn < st.turn /\ x.turn \in 1 .. st.turn  BY <1>0, <2>1, <5>1 DEF History
          <6> QED  BY <1>0, <6>1
        <5> QED  BY <1>3, <3>1, <5>2, <5>3
      <4> QED  BY <4>2, <4>3
    <3> QED  BY <3>1, <3>2 DEF AnswersHold
  <2> QED  BY <1>0, <1>1, <2>5, <2>6, <2>8, IdleStays
<1> QED  BY <1>0, <1>4, <1>5

\* A run that ends with the answer.
LEMMA EndsWith ==
  ASSUME Streaming, Settles(<<>>), Reason # "tool_use", NEW result,
         "run_" \o result \in RecordNames, Ends(result, Entries(st))
  PROVE  Streaming'
<1> PICK x : x = Plain("run_" \o result, st.seq + 1)  OBVIOUS
<1>0. /\ st' = [st EXCEPT !.seq = st.seq + 1] /\ log' = (log \o Entries(st)) \o <<x>>
      /\ st.seq \in Nat
  BY DEF Ends, Streaming, StreamTypes, Gatherings
<1>1. x \in Recordings /\ x.turn = 0  BY <1>0, PlainIs
<1>2. <<x>> \in Seq(Recordings) /\ Len(<<x>>) = 1 /\ <<x>>[1] = x  BY <1>1
<1> PICK more \in Seq(Recordings) : more = <<x>>  BY <1>2
<1>3. \A i \in 1 .. Len(more) : more[i].turn = 0  BY <1>1, <1>2
<1>4. st.seq + 1 \in Nat /\ <<>> \in Seq(Nat)  BY <1>0
<1> QED  BY <1>0, <1>3, <1>4, TurnSettles

\* The calls of the turn are run.
LEMMA ToolsAreDispatched ==
  ASSUME Streaming, DispatchTools
  PROVE  Streaming'
<1> PICK c \in Seq(Nat) : c = st.calls  BY DEF Streaming, StreamTypes, Gatherings
<1> PICK more : more = [i \in DOMAIN c |-> Plain("tool_finished", st.seq + i)]  OBVIOUS
<1>0. /\ Reason = "tool_use" /\ Settles(c) /\ st' = [st EXCEPT !.seq = st.seq + Len(c)] /\ st.seq \in Nat
      /\ log' = (log \o Entries(st)) \o more
  BY DEF DispatchTools, Streaming, StreamTypes, Gatherings
<1>1. DOMAIN c = 1 .. Len(c) /\ Len(c) \in Nat  OBVIOUS
<1>2. ASSUME NEW i \in 1 .. Len(c)
      PROVE  Plain("tool_finished", st.seq + i) \in Recordings /\ Plain("tool_finished", st.seq + i).turn = 0
  <2>1. st.seq + i \in Nat  BY <1>0
  <2> QED  BY <2>1, ResultsAre, PlainIs
<1>3. more = [i \in 1 .. Len(c) |-> Plain("tool_finished", st.seq + i)]  BY <1>1
<1>4. more \in Seq(Recordings) /\ Len(more) = Len(c)
  <2> DEFINE plain(i) == Plain("tool_finished", st.seq + i)
  <2>1. \A i \in 1 .. Len(c) : plain(i) \in Recordings  BY <1>2
  <2>2. more = [i \in 1 .. Len(c) |-> plain(i)]  BY <1>3
  <2> HIDE DEF plain
  <2> QED  BY ONLY <1>1, <2>1, <2>2
<1>5. \A i \in 1 .. Len(more) : more[i].turn = 0  BY <1>2, <1>3, <1>4
<1>6. st.seq + Len(c) \in Nat  BY <1>0, <1>1
<1> QED  BY <1>0, <1>4, <1>5, <1>6, TurnSettles

\* The run goes on after a pause, or a full window.
LEMMA TurnGoesOn ==
  ASSUME Streaming, GoOn
  PROVE  Streaming'
<1>0. Settles(<<>>) /\ log' = log \o Entries(st) /\ st' = st /\ Reason # "tool_use"  BY DEF GoOn
<1>1. st \in Gatherings /\ log \in Seq(Recordings) /\ st.seq \in Nat
  BY DEF Streaming, StreamTypes, Gatherings
<1>2. Entries(st) \in Seq(Recordings)  BY <1>1, EntriesAre DEF AreEntries
<1>3. log \o Entries(st) \in Seq(Recordings)  BY <1>1, <1>2
<1>4. log' = (log \o Entries(st)) \o <<>>  BY <1>0, <1>3
<1>5. st' = [st EXCEPT !.seq = st.seq]  BY <1>0, <1>1 DEF Gatherings
<1>6. <<>> \in Seq(Recordings) /\ <<>> \in Seq(Nat) /\ \A i \in 1 .. Len(<<>>) : <<>>[i].turn = 0  OBVIOUS
<1> QED  BY <1>0, <1>1, <1>4, <1>5, <1>6, TurnSettles, Zenon

\* A turn that fails the run, and one that finishes it.
LEMMA TurnFails ==
  ASSUME Streaming, FailTurn
  PROVE  Streaming'
<1>0. Settles(<<>>) /\ Ends("failed", Entries(st)) /\ Reason # "tool_use"  BY DEF FailTurn
<1> QED  BY <1>0, ResultsAre, EndsWith

LEMMA RunFinishes ==
  ASSUME Streaming, Finish
  PROVE  Streaming'
<1>0. Settles(<<>>) /\ Ends("finished", Entries(st)) /\ Reason # "tool_use"  BY DEF Finish
<1> QED  BY <1>0, ResultsAre, EndsWith

-----------------------------------------------------------------------------
(* What is proved of the stream.                                           *)

\* The invariant holds at the start, and is kept by every step.
LEMMA StreamStarts == StreamInit => Streaming
<1> SUFFICES ASSUME StreamInit PROVE Streaming  OBVIOUS
<1>0. /\ path \in Paths /\ said = <<>> /\ wire = "idle" /\ log = <<>> /\ past = <<>>
      /\ st = [turn |-> 0, seq |-> 0, opened |-> <<>>, held |-> "none", next |-> 1, acc |-> <<>>,
               durable |-> <<>>, blocks |-> <<>>, calls |-> <<>>, stop |-> "none", shown |-> <<>>]
  BY DEF StreamInit
<1>1. <<>> \in Maps(ContentBlock) /\ "none" \in StopNames  BY NothingIsMapped DEF StopNames
<1>2. st \in Gatherings
  <2> PICK none \in Maps(ContentBlock) : none = <<>>  BY <1>1
  <2>1. /\ <<>> \in Seq(Durables) /\ <<>> \in Seq(ContentBlock) /\ <<>> \in Seq(Nat) /\ <<>> \in Seq(Nat \X Nat)
        /\ 0 \in Nat /\ 1 \in Nat
    OBVIOUS
  <2>2. st = [turn |-> 0, seq |-> 0, opened |-> none, held |-> "none", next |-> 1, acc |-> none,
              durable |-> <<>>, blocks |-> <<>>, calls |-> <<>>, stop |-> "none", shown |-> <<>>]
    BY <1>0
  <2> QED  BY ONLY <1>1, <2>1, <2>2, none \in Maps(ContentBlock) DEF Gatherings
<1>3. StreamTypes
  <2>1. st.next > 0  BY <1>0
  <2>2. said \in Seq(ContentBlock) /\ log \in Seq(Recordings) /\ past \in Seq(PastAnswers) /\ DOMAIN said = {}  BY <1>0
  <2> QED  BY <1>0, <1>2, <2>1, <2>2 DEF StreamTypes
<1>4. Gathering  BY <1>0 DEF Gathering
<1>5. History  BY <1>0 DEF History
<1>6. AnswersHold  BY <1>0 DEF AnswersHold, SettledAnswers
<1> QED  BY <1>3, <1>4, <1>5, <1>6, StreamingIs

LEMMA StreamSteps == Streaming /\ [StreamNext]_streamVars => Streaming'
<1> SUFFICES ASSUME Streaming, [StreamNext]_streamVars PROVE Streaming'  OBVIOUS
<1>1. CASE \E kind \in BlockKinds : StartBlock(kind) \/ Replay(kind)
  BY <1>1, BlockStarts, BlockIsReplayed
<1>2. CASE \E reason \in Reasons : StopMessage(reason)  BY <1>2, MessageStops
<1>3. CASE Piece  BY <1>3, PieceComes
<1>4. CASE EndBlock  BY <1>4, BlockEnds
<1>5. CASE Metadata  BY <1>5, MetadataComes
<1>6. CASE Close  BY <1>6, StreamCloses
<1>7. CASE Cut  BY <1>7, StreamIsCut
<1>8. CASE Throw  BY <1>8, StreamThrows
<1>9. CASE BeginTurn  BY <1>9, TurnStarts
<1>10. CASE EndAtBoundary  BY <1>10, EndsThere
<1>11. CASE Abort  BY <1>11, SameStream DEF Abort
<1>12. CASE DispatchTools  BY <1>12, ToolsAreDispatched
<1>13. CASE GoOn  BY <1>13, TurnGoesOn
<1>14. CASE FailTurn  BY <1>14, TurnFails
<1>15. CASE Finish  BY <1>15, RunFinishes
<1>16. CASE Unknown  BY <1>16, UnknownIsKept
<1>17. CASE UNCHANGED streamVars  BY <1>17, SameStream DEF streamVars
<1> QED
  BY <1>1, <1>2, <1>3, <1>4, <1>5, <1>6, <1>7, <1>8, <1>9, <1>10, <1>11, <1>12, <1>13, <1>14, <1>15, <1>16, <1>17
  DEF StreamNext, Wire

\* What is gathered of an answer is, at every step of the stream and of the loop, what the provider
\* has said so far, and what is recorded of the answers that settled is what they meant.
THEOREM AnswersAreGathered == StreamSpec => []Streaming
BY StreamStarts, StreamSteps, PTL DEF StreamSpec

\* It implies what is promised of the record.
LEMMA MeaningsAreRecorded == Streaming => AnswerIsRecorded /\ LiveTextSettles /\ CallsAreDispatched
<1> SUFFICES ASSUME Streaming PROVE AnswerIsRecorded /\ LiveTextSettles /\ CallsAreDispatched  OBVIOUS
<1>1. \A a \in SettledAnswers : IsRecorded(a, Of(a), st.shown)  BY DEF Streaming, AnswersHold
<1>2. AnswerIsRecorded  BY <1>1 DEF AnswerIsRecorded, IsRecorded, Pairs, Meant, Spoken
<1>3. LiveTextSettles  BY <1>1, Zenon DEF LiveTextSettles, IsRecorded
<1>4. CallsAreDispatched  BY <1>1 DEF CallsAreDispatched, IsRecorded
<1> QED  BY <1>2, <1>3, <1>4

\* However long an answer is, however it was cut into pieces and by whichever adapter it came, the
\* record holds each of its blocks once, in order and with the whole text (run_loop.ts, blockCarrier).
THEOREM AnswersAreRecorded == StreamSpec => []AnswerIsRecorded
BY AnswersAreGathered, MeaningsAreRecorded, PTL

\* What participants saw arrive is what the record then says, block by block (normalize.ts, BLOCK KEY).
THEOREM LiveTextsSettle == StreamSpec => []LiveTextSettles
BY AnswersAreGathered, MeaningsAreRecorded, PTL

\* Every call that was announced is run if the answer stopped for its tools or any was written out
\* (converse_response.ts:115), and otherwise none is (stop_reasons.ts:77).
THEOREM AllCallsAreDispatched == StreamSpec => []CallsAreDispatched
BY AnswersAreGathered, MeaningsAreRecorded, PTL
=============================================================================
