-------------------------- MODULE BedrockCatalogue --------------------------
(***************************************************************************)
(* The models of Bedrock that each of its two adapters offers.  AWS lists  *)
(* one profile per model and routing scope; a profile is offered by the    *)
(* adapter whose protocol the model speaks, once, and only if this host    *)
(* can be answered by it.                                                  *)
(***************************************************************************)
EXTENDS Integers, Sequences

CONSTANTS
  Models,        \* what AWS may list
  Anthropic,     \* the models whose id names the vendor
  EndOfLife,     \* of these, the ones no request of this host is answered by
  NotInvocable,  \* of the others, the ones Converse does not serve
  TextStreaming, \* the models with text out and streaming, as the catalogue has them
  Rank           \* how much a routing scope is preferred, 0 first

\* A fragment of an id that is refused names its vendor, so neither list holds one of the other's.
ASSUME CatalogueAssumption ==
  /\ Anthropic \cup TextStreaming \subseteq Models
  /\ EndOfLife \subseteq Anthropic /\ NotInvocable \cap Anthropic = {}
  /\ \A scope \in DOMAIN Rank : Rank[scope] \in Nat

Scope == DOMAIN Rank
Profile == Scope \X Models

ModelOf(p) == p[2]
ScopeOf(p) == p[1]

\* Of the profiles of these models one is kept of each: the one that ranks first, and among equals
\* the one that is listed first.
Keeps(listed, models, rank) ==
  LET Before(i, j) == LET p == rank[ScopeOf(listed[i])]
                          q == rank[ScopeOf(listed[j])]
                      IN  p < q \/ (p = q /\ i < j)
      wanted == {i \in DOMAIN listed : ModelOf(listed[i]) \in models}
      best   == {k \in wanted : \A j \in wanted \ {k} :
                   ModelOf(listed[j]) = ModelOf(listed[k]) => Before(k, j)}
  IN  {listed[k] : k \in best}

\* Faulty variant: a model of Anthropic is a text model like any other.
TextModels == TextStreaming

Servable == Anthropic \ EndOfLife
ConverseModels == TextStreaming \ Anthropic

AnthropicProfiles(listed) == Keeps(listed, Servable, Rank)

\* No scope is preferred here: the one that AWS lists first is kept.
AnyScope == [scope \in Scope |-> 0]

IsInvocable(p) == ModelOf(p) \notin NotInvocable

ConverseProfiles(listed) == {p \in Keeps(listed, ConverseModels, AnyScope) : IsInvocable(p)}

Offers(adapter, listed) ==
  IF adapter = "bedrock" THEN AnthropicProfiles(listed) ELSE ConverseProfiles(listed)
=============================================================================
