----------------------------- MODULE LLMGateway -----------------------------
(***************************************************************************)
(* One LLM call through the gateway (gateway/factory.py, gateway/          *)
(* routing.py): the route, the retries of _complete_once, the degradation  *)
(* to the mock provider, the fallback loop, and the tracking of the        *)
(* response.  A provider's answer is external: an attempt on a member of   *)
(* Unreliable may raise, an attempt on any other provider answers.  The    *)
(* request is mutated in place, as in the code; time between the attempts  *)
(* is not modelled.                                                        *)
(***************************************************************************)
EXTENDS Naturals, Sequences

CONSTANTS
    Unreliable,  \* the providers whose complete may raise
    MaxAttempts  \* stop_after_attempt, 3 in the code

Providers == {"openai", "anthropic", "ollama", "mock"}
PROVIDER_ORDER == <<"openai", "anthropic", "ollama", "mock">>

ASSUME GatewayAssumption == Unreliable \subseteq Providers /\ MaxAttempts \in Nat \ {0}

VARIABLES
    registered,  \* gateway._providers
    entry,       \* the method called: complete or complete_with_fallback
    primary,     \* the provider the request was routed to
    request,     \* request.provider and request.model, a model by its provider
    phase,       \* where the call is
    candidates,  \* what is left of the fallback loop
    attempt,     \* the failed attempts of this _complete_once
    response,    \* the provider and model of the response
    failed,      \* failed[p]: the attempts on p that raised, in the whole call
    tracked      \* the calls of track

vars == <<registered, entry, primary, request, phase, candidates, attempt, response,
          failed, tracked>>

NoResponse == [provider |-> "none", model |-> "none"]

-----------------------------------------------------------------------------
(* Building the gateway and routing a request                              *)

(* ollama and mock need no key. *)
Deployments == {{"ollama", "mock"} \cup keys : keys \in SUBSET {"openai", "anthropic"}}

(* The preferred provider of each tier, or the mock when it has no key; a  *)
(* model is named by the provider that serves it, the default by the mock. *)
RouteProvider == [fast |-> "ollama", balanced |-> "openai", strong |-> "openai"]

Available(p, deployed) == p \in deployed \/ p \notin {"openai", "anthropic"}

RouteFor(tier, deployed) ==
    IF Available(RouteProvider[tier], deployed) THEN RouteProvider[tier] ELSE "mock"

-----------------------------------------------------------------------------
Fixed == UNCHANGED <<registered, entry, primary>>

FirstPhase == IF entry = "complete" THEN "routed" ELSE "choose"

Start ==
    /\ phase = "called"
    /\ phase' = FirstPhase
    /\ candidates' = IF entry = "complete" THEN <<>> ELSE <<primary>> \o PROVIDER_ORDER
    /\ Fixed /\ UNCHANGED <<request, attempt, response, failed, tracked>>

(* One turn of the loop of complete_with_fallback. *)
Skipped(p) == p \notin registered \/ p = "mock"

NextCandidate ==
    /\ phase = "choose" /\ candidates # <<>>
    /\ candidates' = Tail(candidates)
    /\ \/ Skipped(Head(candidates)) /\ UNCHANGED <<request, phase>>
       \/ /\ ~Skipped(Head(candidates))
          /\ request' = [request EXCEPT !.provider = Head(candidates)]
          /\ phase' = "routed"
    /\ Fixed /\ UNCHANGED <<attempt, response, failed, tracked>>

LastResort ==
    /\ phase = "choose" /\ candidates = <<>>
    /\ request' = [request EXCEPT !.provider = primary]
    /\ phase' = "last"
    /\ Fixed /\ UNCHANGED <<candidates, attempt, response, failed, tracked>>

Trying == phase \in {"routed", "degraded", "last", "lastDegraded"}

(* track, on the response that complete returns. *)
Track == tracked' = tracked + 1

Answer ==
    /\ Trying /\ request.provider \in registered
    /\ response' = request
    /\ Track
    /\ phase' = "answered"
    /\ Fixed /\ UNCHANGED <<request, candidates, attempt, failed>>

Raises == request.provider \in Unreliable

CountFailure == failed' = [failed EXCEPT ![request.provider] = @ + 1]

NoRetryLeftByOne == attempt + 2 >= MaxAttempts
NoRetryLeftOneMore == attempt = MaxAttempts
NoRetryLeft == attempt + 1 = MaxAttempts

Retry ==
    /\ Trying /\ Raises /\ ~NoRetryLeft
    /\ attempt' = attempt + 1
    /\ CountFailure
    /\ Fixed /\ UNCHANGED <<request, phase, candidates, response, tracked>>

(* complete's except branch: the mock is tried next, as often. *)
MockWithRoutedModel == [request EXCEPT !.provider = "mock"]
MockRequest == [provider |-> "mock", model |-> "mock"]

NoDegradation == "raised"
DegradedPhase == IF phase = "last" THEN "lastDegraded" ELSE "degraded"

Degrade ==
    /\ phase \in {"routed", "last"} /\ Raises /\ NoRetryLeft
    /\ request' = MockRequest
    /\ attempt' = 0
    /\ phase' = DegradedPhase
    /\ CountFailure
    /\ Fixed /\ UNCHANGED <<candidates, response, tracked>>

(* The mock raised too: the loop catches it and continues, complete called *)
(* directly or as the last resort raises.                                  *)
RaisedPhase == IF phase = "degraded" /\ entry = "fallback" THEN "choose" ELSE "raised"

GiveUp ==
    /\ phase \in {"degraded", "lastDegraded"} /\ Raises /\ NoRetryLeft
    /\ attempt' = 0
    /\ phase' = RaisedPhase
    /\ CountFailure
    /\ Fixed /\ UNCHANGED <<request, candidates, response, tracked>>

Init ==
    /\ registered \in Deployments
    /\ entry \in {"complete", "fallback"}
    /\ \E tier \in DOMAIN RouteProvider : primary = RouteFor(tier, registered)
    /\ request = [provider |-> primary, model |-> primary]
    /\ phase = "called"
    /\ candidates = <<>>
    /\ attempt = 0
    /\ response = NoResponse
    /\ failed = [p \in Providers |-> 0]
    /\ tracked = 0

Next == Start \/ NextCandidate \/ LastResort \/ Answer \/ Retry \/ Degrade \/ GiveUp

Spec == Init /\ [][Next]_vars

(* Every attempt ends: the clients have a timeout of llm_timeout_seconds.  *)
FairSpec == Spec /\ WF_vars(Next)

-----------------------------------------------------------------------------
(* Properties                                                              *)

(* The request, the loop and the counters stay within what the code holds. *)
TypeOK ==
    /\ registered \in Deployments
    /\ entry \in {"complete", "fallback"}
    /\ primary \in registered
    /\ request \in [provider : registered, model : Providers]
    /\ phase \in {"called", "choose", "routed", "degraded", "last", "lastDegraded",
                  "answered", "raised"}
    /\ candidates \in Seq(Providers)
    /\ attempt \in 0..(MaxAttempts - 1)
    /\ response = NoResponse \/ response \in [provider : registered, model : Providers]
    /\ failed \in [Providers -> Nat]
    /\ tracked \in Nat

(* The mock stands in for the routed provider only when every attempt the  *)
(* gateway grants has failed: a single error never costs the real answer.  *)
DegradesAfterAllAttempts ==
    phase = "answered" /\ response.provider = "mock" /\ primary # "mock" =>
        failed[primary] >= MaxAttempts

(* The usage counters see each answered call once, whatever retries and    *)
(* providers it took, and no call that raised; and an agent's call counts  *)
(* for the provider that serves its model: a mock that stands in never     *)
(* reports a routed model as its own.                                      *)
UsageIsOfTheAnswer ==
    /\ tracked = IF phase = "answered" THEN 1 ELSE 0
    /\ phase = "answered" /\ entry = "complete" => response.model = response.provider

(* No retry storm: the retries within the degradation within the fallback  *)
(* loop grant a provider at most as many turns of MaxAttempts as the code  *)
(* names it: in the loop's two mentions of the primary and as the last     *)
(* resort, once in PROVIDER_ORDER, and the mock after each of these turns. *)
MostTurns(p) == IF p = "mock" THEN 5 ELSE IF p = primary THEN 3 ELSE 1

AttemptsAreBounded == \A p \in Providers : failed[p] <= MostTurns(p) * MaxAttempts

(* Degrading instead of failing the request: whatever the other providers  *)
(* do, a call is answered unless the mock used up its attempts as well.    *)
EveryCallIsAnswered == <>(phase = "answered" \/ failed["mock"] >= MaxAttempts)

=============================================================================
