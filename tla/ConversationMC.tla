--------------------------- MODULE ConversationMC ---------------------------
EXTENDS Conversation, TLC
CONSTANTS l1, l2
AnyLane == Permutations(Lanes)

Model(adapter, listed, adaptive, budgeted, ceiling, narrates) ==
  [adapter |-> adapter, listed |-> listed, adaptive |-> adaptive, budgeted |-> budgeted,
   ceiling |-> ceiling, narrates |-> narrates]
\* The budget of the first just fits, and there is no headroom for the second's answer.
SomeModels ==
  {Model("direct", TRUE, FALSE, TRUE, 7, FALSE), Model("converse", FALSE, FALSE, FALSE, 5, TRUE)}
=============================================================================
