------------------------------- MODULE Routing --------------------------------
(***************************************************************************)
(* Which agent answers a message: intent classification and routing        *)
(* (agents/router.py), discovery by capability in the order of             *)
(* registration (agents/registry.py), and the specialist the supervisor    *)
(* delegates to (agents/specialized/supervisor.py; the route node of       *)
(* agents/graph/graph.py is the same).  A message is how often each        *)
(* intent's pattern matches in it.                                         *)
(***************************************************************************)
EXTENDS Naturals, Sequences

CONSTANTS
    NoHint,   \* agent_hint = None or ""
    NoIntent  \* classify_intent's None

(* The intents of _INTENT_PATTERNS in alphabetical order.                  *)
Intents == <<"compliance", "document", "fraud", "insurance", "investment", "kyc", "loan",
             "support">>

IntentSet == {Intents[i] : i \in DOMAIN Intents}

ASSUME RoutingAssumption == NoIntent \notin IntentSet

(* The agents in the order in which _register_all registers them.          *)
AgentKeys ==
    <<"supervisor", "customer_support", "banking_assistant", "loan_eligibility", "credit_risk",
      "fraud_detection", "kyc_aml", "transaction_monitoring", "financial_document", "insurance",
      "wealth", "collections", "compliance", "regulatory_intelligence", "financial_research",
      "data_analysis", "devops">>

(* Their `capabilities`, one class in agents/specialized each.             *)
Capabilities ==
    [supervisor |-> {"orchestrate"}, customer_support |-> {"support", "general"},
     banking_assistant |-> {"banking", "product", "general"},
     loan_eligibility |-> {"loan", "eligibility", "credit"}, credit_risk |-> {"credit", "risk"},
     fraud_detection |-> {"fraud"}, kyc_aml |-> {"kyc", "aml", "onboarding"},
     transaction_monitoring |-> {"aml", "transaction", "monitoring"},
     financial_document |-> {"document", "extraction", "rag"}, insurance |-> {"insurance"},
     wealth |-> {"investment", "wealth", "portfolio"}, collections |-> {"collections", "loan"},
     compliance |-> {"compliance", "regulatory"},
     regulatory_intelligence |-> {"regulatory", "compliance"},
     financial_research |-> {"research", "analysis"}, data_analysis |-> {"analysis", "data"},
     devops |-> {"operations", "devops"}]

AgentSet == {AgentKeys[i] : i \in DOMAIN AgentKeys}

(* find_by_capability, as places in the registry, and its first element.   *)
FindByCapability(c) == {i \in DOMAIN AgentKeys : c \in Capabilities[AgentKeys[i]]}

First(S) == CHOOSE i \in S : \A j \in S : i <= j
FirstCapable(c) == AgentKeys[First(FindByCapability(c))]

(* classify_intent: the pairs (matches, intent) sorted in reverse, so that *)
(* among the intents that match most the last in the alphabet wins.        *)
Matched(message) == {i \in DOMAIN Intents : message[Intents[i]] > 0}

Stronger(message, i, j) ==
    \/ message[Intents[j]] < message[Intents[i]]
    \/ message[Intents[j]] = message[Intents[i]] /\ j <= i

FirstMatched(message) ==
    IF Matched(message) = {} THEN NoIntent ELSE Intents[First(Matched(message))]

Classified(message) ==
    IF Matched(message) = {} THEN NoIntent
    ELSE Intents[CHOOSE i \in Matched(message) : \A j \in Matched(message) : Stronger(message, i, j)]

(* A hint is looked up as a capability, whatever the message says.         *)
Known(intent) == intent # NoIntent /\ FindByCapability(intent) # {}

(* route *)
Chosen(hint, message) ==
    LET intent == IF hint # NoHint THEN hint ELSE Classified(message)
    IN  IF Known(intent) THEN FirstCapable(intent) ELSE "supervisor"

(* The supervisor classifies the message again and knows no hint.          *)
Delegate(message) ==
    IF Known(Classified(message)) THEN FirstCapable(Classified(message)) ELSE "customer_support"

Answers(agent, message) == IF agent = "supervisor" THEN Delegate(message) ELSE agent
=============================================================================
