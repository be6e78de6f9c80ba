--------------------------- MODULE RequestShape ---------------------------
(***************************************************************************)
(* What a request claims of its model: which thinking it asks for and how  *)
(* many tokens it may answer with.  The builder knows the model by what    *)
(* its adapter declares, and the provider refuses a request that the model *)
(* does not take.                                                          *)
(***************************************************************************)
EXTENDS Integers

CONSTANTS
  AnswerTokens,    \* DEFAULT_ANSWER_TOKENS
  Headroom,        \* THINKING_HEADROOM_TOKENS, and Converse's REASONING_HEADROOM_TOKENS
  MinBudget,       \* MIN_THINKING_BUDGET_TOKENS
  Budget,          \* DEFAULT_THINKING_BUDGET_TOKENS
  FallbackCeiling, \* maxOutputTokens of a model that was not listed
  BedrockCeiling   \* maxOutputTokens of every Anthropic model on Bedrock

ASSUME ShapeAssumption ==
  /\ AnswerTokens \in Nat \ {0} /\ Headroom \in Nat /\ MinBudget \in Nat \ {0} /\ Budget \in Nat
  /\ FallbackCeiling \in Nat \ {0} /\ BedrockCeiling \in Nat \ {0}

\* A model: the adapter that serves it, whether that adapter was asked for its models, and what
\* the model itself takes.
ModelInfo ==
  [adapter : {"direct", "bedrock", "converse"}, listed : BOOLEAN, adaptive : BOOLEAN,
   budgeted : BOOLEAN, ceiling : Nat \ {0}, narrates : BOOLEAN]

BudgetOf(m) == IF m.budgeted THEN Budget ELSE 0   \* 0: it takes none

\* fromModelsApi: what the provider says of a listed model.
Reported(m) == [adaptive |-> m.adaptive, budget |-> BudgetOf(m), ceiling |-> m.ceiling,
                compaction |-> TRUE]
Fallback    == [adaptive |-> FALSE, budget |-> 0, ceiling |-> FallbackCeiling,
                compaction |-> FALSE]
Measured(m) == [adaptive |-> m.adaptive, budget |-> BudgetOf(m), ceiling |-> BedrockCeiling,
                compaction |-> FALSE]
Conversed(m) == [adaptive |-> FALSE, budget |-> 0, ceiling |-> m.ceiling,
                 compaction |-> FALSE]

\* An adapter that reads its capabilities off the list knows none before it has listed; the one
\* the supervisor builds for a run never has.
Capabilities(m) ==
  CASE m.adapter = "direct" /\ m.listed  -> Reported(m)
    [] m.adapter = "direct" /\ ~m.listed -> Fallback
    [] m.adapter = "bedrock"             -> Measured(m)
    [] m.adapter = "converse"            -> Conversed(m)

Least(a, b) == IF a <= b THEN a ELSE b

\* What is left under the ceiling when the answer has its room; 0 when that is not enough.
BudgetFor(caps) ==
  LET budget == Least(caps.budget, caps.ceiling - AnswerTokens - 1)
  IN  IF caps.budget # 0 /\ budget >= MinBudget THEN budget ELSE 0

\* Adaptive wherever a model offers both.
Thinking(caps) ==
  IF caps.adaptive THEN "adaptive" ELSE IF BudgetFor(caps) # 0 THEN "enabled" ELSE "none"

SizeMaxTokens(caps) ==
  LET budget == BudgetFor(caps)
      room   == IF caps.adaptive THEN Headroom ELSE IF budget = 0 THEN 0 ELSE budget + 1
  IN  Least(AnswerTokens + room, caps.ceiling)

\* Converse bills reasoning against the answer, so its adapter adds the headroom again.
MaxTokens(m) ==
  IF m.adapter = "converse" THEN Least(SizeMaxTokens(Capabilities(m)) + Headroom, m.ceiling)
                            ELSE SizeMaxTokens(Capabilities(m))

-----------------------------------------------------------------------------
\* The provider takes the request: no more tokens than the model has, and a thinking the model
\* knows, with a budget between its least and the tokens of the answer.
Fits(m) ==
  /\ MaxTokens(m) \in 1 .. m.ceiling
  /\ CASE Thinking(Capabilities(m)) = "adaptive" -> m.adaptive
       [] Thinking(Capabilities(m)) = "enabled"  ->
            m.budgeted /\ BudgetFor(Capabilities(m)) \in MinBudget .. MaxTokens(m) - 1
       [] OTHER -> TRUE

\* The answer has its room beside the budget.
AnswerHasRoom(m) ==
  Thinking(Capabilities(m)) = "enabled" => MaxTokens(m) - BudgetFor(Capabilities(m)) > AnswerTokens
=============================================================================
