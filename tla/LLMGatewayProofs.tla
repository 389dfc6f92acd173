--------------------------- MODULE LLMGatewayProofs ---------------------------
(***************************************************************************)
(* One call through the gateway, for any set of providers that fail and    *)
(* any number of attempts.  ShapeInv ties the phase to the method called   *)
(* and to the request as it has been mutated, LoopInv to what is left of   *)
(* the fallback loop, PrimaryInv says when the primary has had its         *)
(* attempts, and BudgetInv what every provider has been asked.             *)
(***************************************************************************)
EXTENDS LLMGateway, Integers, SequenceTheorems, TLAPS

(* The request, its response and the counters by phase. *)
ShapeInv ==
    /\ phase \in {"choose", "last", "lastDegraded"} => entry = "fallback"
    /\ phase \in {"called", "choose"} => attempt = 0
    /\ phase \in {"degraded", "lastDegraded"} => request = MockRequest
    /\ phase = "last" => request.provider = primary
    /\ phase = "called" => failed = [p \in Providers |-> 0]
    /\ entry = "complete" /\ phase \in {"called", "routed"} =>
          request = [provider |-> primary, model |-> primary]
    /\ entry = "complete" /\ phase = "answered" => response.model = response.provider
    /\ tracked = IF phase = "answered" THEN 1 ELSE 0

(* The fallback loop: what is left is the end of the list it goes through. *)
Loop == <<primary, "openai", "anthropic", "ollama", "mock">>
Taken == 5 - Len(candidates)

LoopInv ==
    /\ entry = "complete" \/ phase = "called" => candidates = <<>>
    /\ Len(candidates) \in 0..5
    /\ \A i \in 1..Len(candidates) : candidates[i] = Loop[Taken + i]
    /\ entry = "fallback" /\ phase = "routed" =>
          Len(candidates) < 5 /\ request.provider = Loop[Taken] /\ request.provider # "mock"
    /\ phase \in {"last", "lastDegraded"} => candidates = <<>>

Exhausted == primary = "mock" \/ failed[primary] >= MaxAttempts

PrimaryInv ==
    /\ phase = "choose" => Exhausted \/ Len(candidates) = 5
    /\ phase = "routed" /\ request.provider = primary =>
          Exhausted \/ failed[primary] >= attempt
    /\ phase = "routed" /\ request.provider # primary => Exhausted
    /\ phase \in {"degraded", "last", "lastDegraded"} => Exhausted
    /\ phase = "answered" /\ response.provider = "mock" => Exhausted

(* The attempts a provider is granted by the candidates taken so far, by   *)
(* the last resort, and those of them that this turn may still make.       *)
Grant(b) == IF b THEN MaxAttempts ELSE 0

Granted(p, k) ==
    IF p = "mock"
    THEN Grant(k >= 1 /\ primary # "mock") + Grant(k >= 2) + Grant(k >= 3) + Grant(k >= 4)
    ELSE Grant(k >= 1 /\ p = primary) + Grant(k >= 2 /\ p = "openai")
         + Grant(k >= 3 /\ p = "anthropic") + Grant(k >= 4 /\ p = "ollama")

GrantedLast(p) == Grant(p = primary) + Grant(p = "mock")

Allowance(p) ==
    IF entry = "complete" THEN GrantedLast(p)
    ELSE Granted(p, Taken)
         + (IF phase \in {"choose", "routed", "degraded"} THEN 0 ELSE GrantedLast(p))

Left(p) ==
    (IF Trying /\ p = request.provider THEN MaxAttempts - attempt ELSE 0)
    + Grant(phase \in {"routed", "last"} /\ p = "mock")

BudgetInv == phase # "called" => \A p \in Providers : failed[p] + Left(p) <= Allowance(p)

IInv == TypeOK /\ ShapeInv /\ LoopInv /\ PrimaryInv /\ BudgetInv

(* What is left of a call: turns of its loop, and steps of this turn.      *)
TurnLength == 2 * MaxAttempts + 1

TurnsLeft ==
    CASE phase = "called" -> 6
      [] phase \in {"choose", "routed", "degraded"} -> Len(candidates) + 1
      [] OTHER -> 0

StepsLeft ==
    CASE phase = "called" -> 2
      [] phase = "choose" -> 1
      [] phase \in {"routed", "last"} -> 1 + 2 * MaxAttempts - attempt
      [] phase \in {"degraded", "lastDegraded"} -> 1 + MaxAttempts - attempt
      [] OTHER -> 0

Remaining == TurnsLeft * TurnLength + StepsLeft

-----------------------------------------------------------------------------
LEMMA MaxAttemptsType == MaxAttempts \in Nat /\ MaxAttempts >= 1
BY GatewayAssumption

LEMMA InitEstablishes == Init => IInv
<1> SUFFICES ASSUME Init PROVE IInv
  OBVIOUS
<1>1. primary \in registered /\ registered \in Deployments
  <2>1. PICK tier \in DOMAIN RouteProvider : primary = RouteFor(tier, registered)
    BY DEF Init
  <2>2. RouteProvider[tier] \in {"ollama", "openai"}
    BY DEF RouteProvider
  <2>3. registered \in Deployments /\ {"ollama", "mock"} \subseteq registered
    BY DEF Init, Deployments
  <2> QED BY <2>1, <2>2, <2>3 DEF RouteFor, Available
<1>2. registered \subseteq Providers
  BY <1>1 DEF Deployments, Providers
<1>3. TypeOK
  BY <1>1, <1>2, MaxAttemptsType DEF Init, TypeOK
<1>4. ShapeInv /\ LoopInv /\ PrimaryInv /\ BudgetInv
  BY DEF Init, ShapeInv, LoopInv, PrimaryInv, BudgetInv
<1> QED BY <1>3, <1>4 DEF IInv

(* The registered providers are among the four, with the mock.             *)
LEMMA RegisteredTypes ==
    ASSUME TypeOK
    PROVE  registered \subseteq Providers /\ "mock" \in registered /\ primary \in Providers
BY DEF TypeOK, Deployments, Providers

LEMMA GrantTypes ==
    ASSUME TypeOK, NEW p
    PROVE  /\ Left(p) \in Nat /\ GrantedLast(p) \in Nat /\ Allowance(p) \in Nat
           /\ \A k \in Int : Granted(p, k) \in Nat
<1>1. attempt \in Nat /\ MaxAttempts - attempt \in Nat /\ Taken \in Int
  <2>1. Len(candidates) \in Nat
    BY DEF TypeOK
  <2> QED BY <2>1, MaxAttemptsType DEF TypeOK, Taken
<1>2. Left(p) \in Nat
  BY <1>1, MaxAttemptsType DEF Left, Grant
<1>3. GrantedLast(p) \in Nat
  BY MaxAttemptsType DEF GrantedLast, Grant
<1>4. \A k \in Int : Granted(p, k) \in Nat
  BY MaxAttemptsType DEF Granted, Grant
<1> QED BY <1>1, <1>2, <1>3, <1>4 DEF Allowance

LEMMA StartPreserves == ASSUME IInv, Start PROVE IInv'
<1> USE DEF IInv
<1>1. CASE entry = "complete"
  <2>1. /\ phase = "called" /\ phase' = "routed" /\ candidates' = <<>>
        /\ UNCHANGED <<registered, entry, primary, request, attempt, response, failed, tracked>>
    BY <1>1 DEF Start, FirstPhase, Fixed
  <2>2. TypeOK'
    BY <2>1 DEF TypeOK
  <2>3. ShapeInv' /\ LoopInv'
    BY <1>1, <2>1 DEF ShapeInv, LoopInv
  <2>4. PrimaryInv'
    BY <1>1, <2>1, MaxAttemptsType, RegisteredTypes DEF ShapeInv, PrimaryInv, TypeOK
  <2>5. BudgetInv'
    BY <1>1, <2>1, MaxAttemptsType
       DEF ShapeInv, BudgetInv, Left, Allowance, GrantedLast, Grant, Trying, TypeOK
  <2> QED BY <2>2, <2>3, <2>4, <2>5
<1>2. CASE entry = "fallback"
  <2>1. /\ phase = "called" /\ phase' = "choose" /\ candidates' = <<primary>> \o PROVIDER_ORDER
        /\ UNCHANGED <<registered, entry, primary, request, attempt, response, failed, tracked>>
    BY <1>2 DEF Start, FirstPhase, Fixed
  <2>2. PROVIDER_ORDER \in Seq(Providers) /\ Len(PROVIDER_ORDER) = 4
    BY DEF PROVIDER_ORDER, Providers
  <2>3. <<primary>> \in Seq(Providers) /\ Len(<<primary>>) = 1
    BY RegisteredTypes
  <2>4. candidates' \in Seq(Providers) /\ Len(candidates') = 5
    BY <2>1, <2>2, <2>3, ConcatProperties
  <2>5. \A i \in 1..5 : candidates'[i] = Loop[i]
    <3>1. candidates'[1] = primary
      BY <2>1, <2>2, <2>3
    <3>2. \A i \in 2..5 : candidates'[i] = PROVIDER_ORDER[i - 1]
      BY <2>1, <2>2, <2>3
    <3>3. \A i \in 2..5 : Loop[i] = PROVIDER_ORDER[i - 1]
      BY DEF Loop, PROVIDER_ORDER
    <3>4. Loop[1] = primary
      BY DEF Loop
    <3>5. \A i \in 1..5 : i = 1 \/ i \in 2..5
      OBVIOUS
    <3> QED BY <3>1, <3>2, <3>3, <3>4, <3>5
  <2>6. TypeOK'
    BY <2>1, <2>4 DEF TypeOK
  <2>7. ShapeInv'
    BY <1>2, <2>1 DEF ShapeInv
  <2>8. LoopInv'
    <3>1. Taken' = 0 /\ Loop' = Loop
      BY <2>1, <2>4 DEF Taken, Loop
    <3>2. \A i \in 1..Len(candidates') : candidates'[i] = Loop'[Taken' + i]
      BY <2>5, <2>4, <3>1
    <3> QED BY <1>2, <2>1, <2>4, <3>2 DEF LoopInv
  <2>9. PrimaryInv'
    BY <1>2, <2>1, <2>4 DEF PrimaryInv
  <2>10. BudgetInv'
    <3>1. Taken' = 0 /\ \A p \in Providers : failed'[p] = 0
      BY <2>1, <2>4 DEF Taken, ShapeInv
    <3> QED BY <1>2, <2>1, <3>1, MaxAttemptsType
            DEF BudgetInv, Left, Allowance, Granted, Grant, Trying
  <2> QED BY <2>6, <2>7, <2>8, <2>9, <2>10
<1> QED BY <1>1, <1>2 DEF TypeOK

(* What is at the head of the loop, and what taking it leaves.             *)
LEMMA TakeCandidate ==
    ASSUME IInv, candidates # <<>>, phase = "choose"
    PROVE  /\ Len(candidates) \in 1..5
           /\ Tail(candidates) \in Seq(Providers)
           /\ Len(Tail(candidates)) = Len(candidates) - 1
           /\ \A i \in 1..Len(Tail(candidates)) :
                 Tail(candidates)[i] = Loop[5 - Len(Tail(candidates)) + i]
           /\ Head(candidates) = Loop[Taken + 1]
           /\ Head(candidates) \in Providers
<1>1. candidates \in Seq(Providers) /\ Len(candidates) \in 0..5
  BY DEF IInv, TypeOK, LoopInv
<1>2. Len(candidates) \in 1..5
  BY <1>1
<1>3. /\ Tail(candidates) \in Seq(Providers)
      /\ Len(Tail(candidates)) = Len(candidates) - 1
      /\ \A i \in 1..Len(Tail(candidates)) : Tail(candidates)[i] = candidates[i + 1]
  BY <1>1, <1>2
<1>4. Head(candidates) = candidates[1] /\ Head(candidates) \in Providers
  BY <1>1, <1>2
<1>5. \A i \in 1..Len(candidates) : candidates[i] = Loop[Taken + i]
  BY DEF IInv, LoopInv
<1>6. \A i \in 1..Len(Tail(candidates)) :
          Tail(candidates)[i] = Loop[5 - Len(Tail(candidates)) + i]
  <2> SUFFICES ASSUME NEW i \in 1..Len(Tail(candidates))
               PROVE  Tail(candidates)[i] = Loop[5 - Len(Tail(candidates)) + i]
    OBVIOUS
  <2>1. i + 1 \in 1..Len(candidates) /\ Tail(candidates)[i] = candidates[i + 1]
    BY <1>2, <1>3
  <2>2. Taken + (i + 1) = 5 - Len(Tail(candidates)) + i
    BY <1>2, <1>3 DEF Taken
  <2>3. candidates[i + 1] = Loop[Taken + (i + 1)]
    BY <1>5, <2>1
  <2> QED BY <2>1, <2>2, <2>3
<1>7. Head(candidates) = Loop[Taken + 1]
  <2>1. 1 \in 1..Len(candidates)
    BY <1>2
  <2> QED BY <1>4, <1>5, <2>1
<1> QED BY <1>2, <1>3, <1>4, <1>6, <1>7

(* A turn of the loop grants its candidate and the mock their attempts.    *)
LEMMA CandidatePreserves == ASSUME IInv, NextCandidate PROVE IInv'
<1> USE DEF IInv
<1> DEFINE c == Head(candidates)
<1>0. /\ phase = "choose" /\ candidates # <<>> /\ entry = "fallback" /\ attempt = 0
      /\ candidates' = Tail(candidates)
      /\ UNCHANGED <<registered, entry, primary, attempt, response, failed, tracked>>
  BY DEF NextCandidate, ShapeInv, Fixed
<1>1. /\ Len(candidates) \in 1..5 /\ Len(candidates') = Len(candidates) - 1
      /\ candidates' \in Seq(Providers)
      /\ \A i \in 1..Len(candidates') : candidates'[i] = Loop[5 - Len(candidates') + i]
      /\ c = Loop[Taken + 1] /\ c \in Providers
  BY <1>0, TakeCandidate
<1>2. Loop' = Loop /\ Taken' = Taken + 1 /\ Taken \in 0..4
  BY <1>0, <1>1 DEF Loop, Taken
<1>3. /\ Taken = 0 => c = primary
      /\ Taken = 1 => c = "openai"
      /\ Taken = 2 => c = "anthropic"
      /\ Taken = 3 => c = "ollama"
      /\ Taken = 4 => c = "mock"
  BY <1>1, <1>2 DEF Loop
<1>6. \A i \in 1..Len(candidates') : candidates'[i] = Loop'[Taken' + i]
  <2>1. Taken' = 5 - Len(candidates')
    BY DEF Taken
  <2> QED BY <1>1, <1>2, <2>1
<1>4. CASE Skipped(c) /\ UNCHANGED <<request, phase>>
  <2>1. TypeOK' /\ ShapeInv'
    BY <1>0, <1>1, <1>4 DEF TypeOK, ShapeInv
  <2>2. LoopInv'
    BY <1>0, <1>1, <1>4, <1>6 DEF LoopInv
  <2>3. Taken = 0 => primary = "mock"
    BY <1>3, <1>4 DEF Skipped, TypeOK
  <2>4. PrimaryInv'
    BY <1>0, <1>1, <1>2, <1>4, <2>3 DEF PrimaryInv, Exhausted, Taken
  <2>5. BudgetInv'
    <3> SUFFICES ASSUME NEW p \in Providers PROVE failed[p] <= Granted(p, Taken + 1)
      BY <1>0, <1>2, <1>4, MaxAttemptsType
         DEF BudgetInv, Left, Allowance, Trying, Grant, Granted, TypeOK
    <3>1. failed[p] <= Granted(p, Taken) /\ failed[p] \in Nat
      BY <1>0, <1>2, MaxAttemptsType
         DEF BudgetInv, Left, Allowance, Trying, Grant, Granted, TypeOK
    <3> QED BY <1>2, <3>1, MaxAttemptsType DEF Granted, Grant
  <2> QED BY <2>1, <2>2, <2>4, <2>5
<1>5. CASE /\ ~Skipped(c)
           /\ request' = [request EXCEPT !.provider = c] /\ phase' = "routed"
  <2>0. c \in registered /\ c # "mock" /\ request'.provider = c
    BY <1>5 DEF Skipped, TypeOK
  <2>1. TypeOK'
    BY <1>0, <1>1, <1>5, <2>0 DEF TypeOK
  <2>2. ShapeInv'
    BY <1>0, <1>5 DEF ShapeInv
  <2>3. LoopInv'
    BY <1>0, <1>1, <1>2, <1>5, <1>6, <2>0 DEF LoopInv
  <2>4. PrimaryInv'
    <3>1. c # primary => Exhausted
      BY <1>0, <1>1, <1>2, <1>3 DEF PrimaryInv, Taken
    <3> QED BY <1>0, <1>5, <2>0, <3>1, RegisteredTypes DEF PrimaryInv, Exhausted, TypeOK
  <2>5. BudgetInv'
    <3> SUFFICES ASSUME NEW p \in Providers
                 PROVE  failed[p] + (IF p = c THEN MaxAttempts ELSE 0) + Grant(p = "mock")
                            <= Granted(p, Taken + 1)
      BY <1>0, <1>2, <1>5, <2>0, MaxAttemptsType
         DEF BudgetInv, Left, Allowance, Trying, Grant, Granted, TypeOK
    <3>1. failed[p] <= Granted(p, Taken) /\ failed[p] \in Nat
      BY <1>0, <1>2, MaxAttemptsType
         DEF BudgetInv, Left, Allowance, Trying, Grant, Granted, TypeOK
    <3> QED BY <1>2, <1>3, <2>0, <3>1, MaxAttemptsType DEF Granted, Grant
  <2> QED BY <2>1, <2>2, <2>3, <2>4, <2>5
<1> QED BY <1>4, <1>5 DEF NextCandidate

LEMMA LastResortPreserves == ASSUME IInv, LastResort PROVE IInv'
<1> USE DEF IInv
<1>1. /\ phase = "choose" /\ phase' = "last" /\ candidates = <<>> /\ entry = "fallback"
      /\ request' = [request EXCEPT !.provider = primary] /\ attempt = 0
      /\ UNCHANGED <<registered, entry, primary, candidates, attempt, response, failed, tracked>>
  BY DEF LastResort, ShapeInv, Fixed
<1>2. TypeOK' /\ request'.provider = primary
  BY <1>1 DEF TypeOK
<1>3. ShapeInv' /\ LoopInv'
  BY <1>1, <1>2 DEF ShapeInv, LoopInv, Taken, Loop
<1>4. PrimaryInv'
  BY <1>1, <1>2 DEF PrimaryInv, Exhausted
<1>5. BudgetInv'
  <2> SUFFICES ASSUME NEW p \in Providers
               PROVE  failed[p] + (IF p = primary THEN MaxAttempts ELSE 0) + Grant(p = "mock")
                          <= Granted(p, 5) + GrantedLast(p)
    BY <1>1, <1>2, MaxAttemptsType
       DEF BudgetInv, Left, Allowance, Taken, Trying, Grant, Granted, GrantedLast, TypeOK
  <2>1. failed[p] <= Granted(p, 5) /\ failed[p] \in Nat
    BY <1>1, MaxAttemptsType
       DEF BudgetInv, Left, Allowance, Taken, Trying, Grant, Granted, TypeOK
  <2> QED BY <2>1, MaxAttemptsType DEF Granted, GrantedLast, Grant
<1> QED BY <1>2, <1>3, <1>4, <1>5

LEMMA AnswerPreserves == ASSUME IInv, Answer PROVE IInv'
<1> USE DEF IInv
<1>1. /\ Trying /\ phase' = "answered" /\ response' = request /\ tracked' = tracked + 1
      /\ UNCHANGED <<registered, entry, primary, request, candidates, attempt, failed>>
  BY DEF Answer, Track, Fixed
<1>2. TypeOK'
  BY <1>1 DEF TypeOK
<1>3. ShapeInv'
  BY <1>1 DEF ShapeInv, Trying, MockRequest
<1>4. LoopInv'
  BY <1>1 DEF LoopInv, Taken, Loop, Trying
<1>5. PrimaryInv'
  BY <1>1, <1>2 DEF PrimaryInv, Exhausted, LoopInv, ShapeInv, Trying, TypeOK
<1>6. BudgetInv'
  <2> SUFFICES ASSUME NEW p \in Providers PROVE failed[p] <= Allowance(p)'
    BY <1>1 DEF BudgetInv, Left, Trying, Grant, TypeOK
  <2>1. failed[p] <= Allowance(p) /\ failed[p] \in Nat
    <3>1. failed[p] + Left(p) <= Allowance(p) /\ failed[p] \in Nat
      BY <1>1 DEF BudgetInv, Trying, TypeOK
    <3> QED BY <3>1, GrantTypes
  <2>2. GrantedLast(p) \in Nat
    BY GrantTypes
  <2> QED BY <1>1, <2>1, <2>2, MaxAttemptsType DEF Allowance, Granted, Grant, GrantedLast, Taken
<1> QED BY <1>2, <1>3, <1>4, <1>5, <1>6

(* The request's provider and its counter, when an attempt fails.          *)
LEMMA FailedAttempt ==
    ASSUME IInv, Trying, CountFailure
    PROVE  /\ request.provider \in Providers
           /\ failed' \in [Providers -> Nat]
           /\ failed'[request.provider] = failed[request.provider] + 1
           /\ \A p \in Providers \ {request.provider} : failed'[p] = failed[p]
           /\ \A p \in Providers : failed[p] \in Nat /\ failed[p] <= failed'[p]
<1>1. request.provider \in Providers /\ failed \in [Providers -> Nat]
  BY RegisteredTypes DEF IInv, TypeOK
<1> QED BY <1>1 DEF CountFailure

LEMMA RetryPreserves == ASSUME IInv, Retry PROVE IInv'
<1> USE DEF IInv
<1>1. /\ Trying /\ CountFailure /\ attempt' = attempt + 1
      /\ UNCHANGED <<registered, entry, primary, request, phase, candidates, response, tracked>>
  BY DEF Retry, Fixed
<1>2. attempt \in Nat /\ attempt + 1 \in 0..(MaxAttempts - 1)
  BY MaxAttemptsType DEF Retry, NoRetryLeft, TypeOK
<1>3. /\ request.provider \in Providers /\ failed' \in [Providers -> Nat]
      /\ failed'[request.provider] = failed[request.provider] + 1
      /\ \A p \in Providers \ {request.provider} : failed'[p] = failed[p]
      /\ \A p \in Providers : failed[p] \in Nat /\ failed[p] <= failed'[p]
  BY <1>1, FailedAttempt
<1>4. TypeOK'
  BY <1>1, <1>2, <1>3 DEF TypeOK
<1>5. ShapeInv'
  BY <1>1 DEF ShapeInv, Trying
<1>6. LoopInv'
  BY <1>1 DEF LoopInv, Taken, Loop
<1>7. PrimaryInv'
  <2>1. Exhausted => Exhausted'
    BY <1>1, <1>3, MaxAttemptsType, RegisteredTypes DEF Exhausted
  <2>2. request.provider = primary /\ failed[primary] >= attempt => failed'[primary] >= attempt'
    BY <1>1, <1>2, <1>3
  <2> QED BY <1>1, <2>1, <2>2 DEF PrimaryInv, Trying
<1>8. BudgetInv'
  <2> SUFFICES ASSUME NEW p \in Providers PROVE failed'[p] + Left(p)' <= Allowance(p)'
    BY DEF BudgetInv
  <2>1. failed[p] + Left(p) <= Allowance(p)
    BY <1>1 DEF BudgetInv, Trying
  <2>2. Allowance(p)' = Allowance(p)
    BY <1>1 DEF Allowance, Granted, GrantedLast, Taken
  <2>3. failed'[p] + Left(p)' = failed[p] + Left(p)
    BY <1>1, <1>2, <1>3, MaxAttemptsType DEF Left, Trying, Grant
  <2> QED BY <2>1, <2>2, <2>3
<1> QED BY <1>4, <1>5, <1>6, <1>7, <1>8

(* The last attempt of the routed provider: what is left of the turn is    *)
(* the mock's.                                                             *)
LEMMA DegradePreserves == ASSUME IInv, Degrade PROVE IInv'
<1> USE DEF IInv
<1>1. /\ phase \in {"routed", "last"} /\ phase' = DegradedPhase
      /\ Trying /\ CountFailure /\ request' = MockRequest /\ attempt' = 0
      /\ UNCHANGED <<registered, entry, primary, candidates, response, tracked>>
  BY DEF Degrade, Trying, Fixed
<1>2. attempt \in Nat /\ attempt + 1 = MaxAttempts
  BY DEF Degrade, NoRetryLeft, TypeOK
<1>3. /\ request.provider \in Providers /\ failed' \in [Providers -> Nat]
      /\ failed'[request.provider] = failed[request.provider] + 1
      /\ \A p \in Providers \ {request.provider} : failed'[p] = failed[p]
      /\ \A p \in Providers : failed[p] \in Nat /\ failed[p] <= failed'[p]
  BY <1>1, FailedAttempt
<1>4. phase' \in {"degraded", "lastDegraded"} /\ (phase' = "lastDegraded" <=> phase = "last")
  BY <1>1 DEF DegradedPhase
<1>5. TypeOK'
  BY <1>1, <1>3, <1>4, MaxAttemptsType, RegisteredTypes DEF TypeOK, MockRequest, Providers
<1>6. ShapeInv'
  BY <1>1, <1>4 DEF ShapeInv
<1>7. LoopInv'
  BY <1>1, <1>4 DEF LoopInv, Taken, Loop
<1>8. PrimaryInv'
  <2>1. Exhausted => Exhausted'
    BY <1>1, <1>3, MaxAttemptsType, RegisteredTypes DEF Exhausted
  <2>2. request.provider = primary /\ failed[primary] >= attempt => Exhausted'
    BY <1>1, <1>2, <1>3 DEF Exhausted
  <2>3. Exhausted'
    BY <1>1, <2>1, <2>2 DEF PrimaryInv
  <2> QED BY <1>4, <2>3 DEF PrimaryInv
<1>9. BudgetInv'
  <2> SUFFICES ASSUME NEW p \in Providers PROVE failed'[p] + Left(p)' <= Allowance(p)'
    BY DEF BudgetInv
  <2>1. failed[p] + Left(p) <= Allowance(p)
    BY <1>1 DEF BudgetInv
  <2>2. Allowance(p)' = Allowance(p)
    BY <1>1, <1>4 DEF Allowance, Granted, GrantedLast, Taken
  <2>3. Left(p) = (IF p = request.provider THEN 1 ELSE 0) + Grant(p = "mock")
    BY <1>1, <1>2 DEF Left, Grant
  <2>4. Left(p)' = Grant(p = "mock")
    BY <1>1, <1>4, MaxAttemptsType DEF Left, Grant, Trying, MockRequest
  <2>5. failed'[p] = failed[p] + (IF p = request.provider THEN 1 ELSE 0)
    BY <1>3
  <2>6. Grant(p = "mock") \in Nat /\ failed[p] \in Nat
    BY <1>3, MaxAttemptsType DEF Grant
  <2> QED BY <2>1, <2>2, <2>3, <2>4, <2>5, <2>6
<1> QED BY <1>5, <1>6, <1>7, <1>8, <1>9

(* The mock's last attempt ends the turn, and the call with the last one.  *)
LEMMA GiveUpPreserves == ASSUME IInv, GiveUp PROVE IInv'
<1> USE DEF IInv
<1>1. /\ phase \in {"degraded", "lastDegraded"} /\ phase' = RaisedPhase
      /\ Trying /\ CountFailure /\ attempt' = 0
      /\ UNCHANGED <<registered, entry, primary, request, candidates, response, tracked>>
  BY DEF GiveUp, Trying, Fixed
<1>2. attempt \in Nat /\ attempt + 1 = MaxAttempts
  BY DEF GiveUp, NoRetryLeft, TypeOK
<1>3. /\ request.provider \in Providers /\ failed' \in [Providers -> Nat]
      /\ failed'[request.provider] = failed[request.provider] + 1
      /\ \A p \in Providers \ {request.provider} : failed'[p] = failed[p]
      /\ \A p \in Providers : failed[p] \in Nat /\ failed[p] <= failed'[p]
  BY <1>1, FailedAttempt
<1>4. \/ phase' = "choose" /\ phase = "degraded" /\ entry = "fallback"
      \/ phase' = "raised" /\ (phase = "lastDegraded" \/ entry = "complete")
  BY <1>1 DEF RaisedPhase, TypeOK
<1>5. TypeOK'
  BY <1>1, <1>3, <1>4, MaxAttemptsType DEF TypeOK
<1>6. ShapeInv'
  BY <1>1, <1>4 DEF ShapeInv
<1>7. LoopInv'
  BY <1>1, <1>4 DEF LoopInv, Taken, Loop
<1>8. PrimaryInv'
  <2>1. Exhausted => Exhausted'
    BY <1>1, <1>3, MaxAttemptsType, RegisteredTypes DEF Exhausted
  <2> QED BY <1>1, <1>4, <2>1 DEF PrimaryInv
<1>9. BudgetInv'
  <2> SUFFICES ASSUME NEW p \in Providers PROVE failed'[p] + Left(p)' <= Allowance(p)'
    BY DEF BudgetInv
  <2>1. failed[p] + Left(p) <= Allowance(p)
    BY <1>1 DEF BudgetInv
  <2>2. Allowance(p)' = Allowance(p)
    BY <1>1, <1>4 DEF Allowance, Granted, GrantedLast, Taken
  <2>3. Left(p) = (IF p = request.provider THEN 1 ELSE 0) /\ Left(p)' = 0
    BY <1>1, <1>2, <1>4 DEF Left, Grant, Trying
  <2>4. failed'[p] = failed[p] + (IF p = request.provider THEN 1 ELSE 0)
    BY <1>3
  <2>5. failed[p] \in Nat
    BY <1>3
  <2> QED BY <2>1, <2>2, <2>3, <2>4, <2>5
<1> QED BY <1>5, <1>6, <1>7, <1>8, <1>9

LEMMA Inductive == Spec => []IInv
<1>1. ASSUME IInv, UNCHANGED vars PROVE IInv'
  <2>1. TypeOK' /\ ShapeInv' /\ PrimaryInv'
    BY <1>1 DEF vars, IInv, TypeOK, ShapeInv, PrimaryInv, Exhausted
  <2>2. LoopInv'
    BY <1>1 DEF vars, IInv, LoopInv, Loop, Taken
  <2>3. \A p \in Providers : Left(p)' = Left(p) /\ Allowance(p)' = Allowance(p)
    BY <1>1 DEF vars, Left, Trying, Allowance, Granted, GrantedLast, Grant, Taken
  <2>4. BudgetInv'
    BY <1>1, <2>3 DEF vars, IInv, BudgetInv
  <2> QED BY <2>1, <2>2, <2>4 DEF IInv
<1>2. IInv /\ [Next]_vars => IInv'
  BY <1>1, StartPreserves, CandidatePreserves, LastResortPreserves, AnswerPreserves,
     RetryPreserves, DegradePreserves, GiveUpPreserves DEF Next
<1> QED BY <1>2, InitEstablishes, PTL DEF Spec

-----------------------------------------------------------------------------
(* The request, the loop and the counters keep their types.                *)
THEOREM TypeCorrect == Spec => []TypeOK
BY Inductive, PTL DEF IInv

(* The mock answers for the routed provider only after that has failed as  *)
(* often as the gateway tries, whichever providers the loop went through.  *)
THEOREM DegradationIsEarned == Spec => []DegradesAfterAllAttempts
<1>1. IInv => DegradesAfterAllAttempts
  BY DEF IInv, PrimaryInv, Exhausted, DegradesAfterAllAttempts
<1> QED BY <1>1, Inductive, PTL

(* A call is counted once, when it is answered.  A call of complete is     *)
(* counted under the provider whose model it names; one of                 *)
(* complete_with_fallback, which keeps the model, need not be.             *)
THEOREM UsageIsCountedOnce == Spec => []UsageIsOfTheAnswer
<1>1. IInv => UsageIsOfTheAnswer
  BY DEF IInv, ShapeInv, UsageIsOfTheAnswer
<1> QED BY <1>1, Inductive, PTL

(* However the three loops of retries nest, no provider is asked more      *)
(* often than in the turns the code names it for.                          *)
THEOREM NoRetryStorm == Spec => []AttemptsAreBounded
<1>1. IInv => AttemptsAreBounded
  <2> SUFFICES ASSUME IInv, NEW p \in Providers
               PROVE  failed[p] <= MostTurns(p) * MaxAttempts
    BY DEF AttemptsAreBounded
  <2>1. failed[p] \in Nat /\ TypeOK /\ (phase = "called" => failed[p] = 0)
    BY DEF IInv, TypeOK, ShapeInv
  <2>2. MaxAttempts \in Nat /\ 5 * MaxAttempts \in Nat /\ 3 * MaxAttempts \in Nat
    BY MaxAttemptsType
  <2>3. phase # "called" => failed[p] <= Allowance(p)
    BY <2>1, GrantTypes DEF IInv, BudgetInv
  <2>4. Allowance(p) <= MostTurns(p) * MaxAttempts
    BY <2>2, RegisteredTypes, <2>1
       DEF Allowance, Granted, GrantedLast, Grant, MostTurns, Providers
  <2>5. MostTurns(p) * MaxAttempts \in Nat
    BY <2>2 DEF MostTurns
  <2> QED BY <2>1, <2>3, <2>4, <2>5, GrantTypes
<1> QED BY <1>1, Inductive, PTL

-----------------------------------------------------------------------------
LEMMA RemainingTypes ==
    ASSUME IInv
    PROVE  /\ TurnsLeft \in Nat /\ StepsLeft \in Nat /\ TurnLength \in Nat
           /\ Remaining \in Nat
<1>1. attempt \in 0..(MaxAttempts - 1) /\ Len(candidates) \in 0..5
  BY DEF IInv, TypeOK, LoopInv
<1>2. TurnsLeft \in Nat /\ StepsLeft \in Nat
  BY <1>1, MaxAttemptsType DEF TurnsLeft, StepsLeft
<1>3. TurnLength \in Nat
  BY MaxAttemptsType DEF TurnLength
<1>4. TurnsLeft * TurnLength \in Nat
  BY <1>2, <1>3
<1> QED BY <1>2, <1>3, <1>4 DEF Remaining

(* A turn less outweighs fewer steps than a turn has.                      *)
LEMMA TurnsOutweighSteps ==
    ASSUME NEW x \in Nat, NEW y \in Nat, NEW turn \in Nat, NEW s \in Nat, NEW t \in Nat,
           x < y, s < t + turn
    PROVE  x * turn + s < y * turn + t
<1>1. PICK d \in Nat : y = x + 1 + d
  <2>1. y - x - 1 \in Nat /\ y = x + 1 + (y - x - 1)
    OBVIOUS
  <2> QED BY <2>1
<1>2. y * turn = x * turn + turn + d * turn
  BY <1>1
<1>3. x * turn \in Nat /\ d * turn \in Nat /\ y * turn \in Nat
  BY <1>1
<1> QED BY <1>2, <1>3

(* Every step of a call uses up some of what is left of it.                *)
LEMMA StepUsesUp == ASSUME IInv, Next PROVE Remaining' < Remaining
<1>1. IInv'
  BY StartPreserves, CandidatePreserves, LastResortPreserves, AnswerPreserves,
     RetryPreserves, DegradePreserves, GiveUpPreserves DEF Next
<1>2. /\ MaxAttempts \in Nat /\ MaxAttempts >= 1
      /\ attempt \in Nat /\ attempt <= MaxAttempts - 1
      /\ attempt' \in Nat /\ attempt' <= MaxAttempts - 1
      /\ Len(candidates) \in Nat /\ Len(candidates') \in Nat
  BY <1>1, MaxAttemptsType DEF IInv, TypeOK, LoopInv
<1>3. /\ TurnsLeft \in Nat /\ StepsLeft \in Nat /\ TurnLength \in Nat
      /\ TurnsLeft' \in Nat /\ StepsLeft' \in Nat
      /\ TurnLength' = TurnLength /\ TurnLength = 2 * MaxAttempts + 1
  <2>1. TurnsLeft \in Nat /\ StepsLeft \in Nat
    BY RemainingTypes
  <2>2. TurnsLeft' \in Nat /\ StepsLeft' \in Nat
    BY <1>2 DEF TurnsLeft, StepsLeft
  <2>3. TurnLength \in Nat /\ TurnLength' = TurnLength /\ TurnLength = 2 * MaxAttempts + 1
    BY <1>2 DEF TurnLength
  <2> QED BY <2>1, <2>2, <2>3
<1>4. \/ TurnsLeft' < TurnsLeft /\ StepsLeft' < StepsLeft + TurnLength
      \/ TurnsLeft' = TurnsLeft /\ StepsLeft' < StepsLeft
  <2>1. CASE Start
    <3>1. phase = "called" /\ TurnsLeft = 6 /\ StepsLeft = 2
      BY <2>1 DEF Start, TurnsLeft, StepsLeft
    <3>2. CASE entry = "complete"
      <4>1. phase' = "routed" /\ candidates' = <<>> /\ attempt' = attempt
        BY <2>1, <3>2 DEF Start, FirstPhase
      <4>2. TurnsLeft' = 1 /\ StepsLeft' = 1 + 2 * MaxAttempts - attempt
        BY <4>1 DEF TurnsLeft, StepsLeft
      <4> QED BY <1>2, <1>3, <3>1, <4>2
    <3>3. CASE entry # "complete"
      <4>1. phase' = "choose" /\ Len(candidates') <= 5
        BY <1>1, <2>1, <3>3 DEF Start, FirstPhase, IInv, LoopInv
      <4>2. TurnsLeft' <= 6 /\ StepsLeft' = 1
        BY <1>2, <4>1 DEF TurnsLeft, StepsLeft
      <4> QED BY <1>3, <3>1, <4>2
    <3> QED BY <3>2, <3>3
  <2>2. CASE NextCandidate
    <3>1. /\ phase = "choose" /\ phase' \in {"choose", "routed"}
          /\ Len(candidates') = Len(candidates) - 1 /\ attempt' = 0
      BY <2>2, TakeCandidate DEF NextCandidate, IInv, ShapeInv
    <3>2. TurnsLeft' < TurnsLeft
      BY <1>2, <3>1 DEF TurnsLeft
    <3>3. StepsLeft = 1 /\ StepsLeft' <= 1 + 2 * MaxAttempts
      BY <1>2, <3>1 DEF StepsLeft
    <3> QED BY <1>2, <1>3, <3>2, <3>3
  <2>3. CASE LastResort
    <3>1. phase = "choose" /\ phase' = "last" /\ attempt' = 0
      BY <2>3 DEF LastResort, IInv, ShapeInv
    <3>2. TurnsLeft' < TurnsLeft
      BY <1>2, <3>1 DEF TurnsLeft
    <3>3. StepsLeft = 1 /\ StepsLeft' = 1 + 2 * MaxAttempts
      BY <1>2, <3>1 DEF StepsLeft
    <3> QED BY <1>2, <1>3, <3>2, <3>3
  <2>4. CASE Answer
    <3>1. Trying /\ phase' = "answered"
      BY <2>4 DEF Answer
    <3>2. TurnsLeft' = 0 /\ StepsLeft' = 0 /\ StepsLeft > 0
      BY <1>2, <3>1 DEF TurnsLeft, StepsLeft, Trying
    <3> QED BY <1>3, <3>2
  <2>5. CASE Retry
    <3>1. Trying /\ phase' = phase /\ candidates' = candidates /\ attempt' = attempt + 1
      BY <2>5 DEF Retry
    <3>2. TurnsLeft' = TurnsLeft
      BY <3>1 DEF TurnsLeft
    <3>3. StepsLeft' < StepsLeft
      BY <1>2, <3>1 DEF StepsLeft, Trying
    <3> QED BY <3>2, <3>3
  <2>6. CASE Degrade
    <3>1. /\ phase \in {"routed", "last"} /\ phase' = DegradedPhase /\ candidates' = candidates
          /\ attempt + 1 = MaxAttempts /\ attempt' = 0
      BY <2>6 DEF Degrade, NoRetryLeft
    <3>2. TurnsLeft' = TurnsLeft
      BY <3>1 DEF TurnsLeft, DegradedPhase
    <3>3. StepsLeft' < StepsLeft
      BY <1>2, <3>1 DEF StepsLeft, DegradedPhase
    <3> QED BY <3>2, <3>3
  <2>7. CASE GiveUp
    <3>1. /\ phase \in {"degraded", "lastDegraded"} /\ candidates' = candidates
          /\ phase' = RaisedPhase /\ attempt + 1 = MaxAttempts
      BY <2>7 DEF GiveUp, NoRetryLeft
    <3>2. phase' = "raised" \/ (phase = "degraded" /\ phase' = "choose")
      BY <3>1 DEF RaisedPhase
    <3>3. StepsLeft = 2 /\ StepsLeft' < StepsLeft
      BY <1>2, <3>1, <3>2 DEF StepsLeft
    <3>4. TurnsLeft' = TurnsLeft \/ TurnsLeft' = 0
      BY <3>1, <3>2 DEF TurnsLeft
    <3> QED BY <1>3, <3>3, <3>4
  <2> QED BY <2>1, <2>2, <2>3, <2>4, <2>5, <2>6, <2>7 DEF Next
<1>5. CASE TurnsLeft' < TurnsLeft /\ StepsLeft' < StepsLeft + TurnLength
  BY <1>3, <1>5, TurnsOutweighSteps DEF Remaining
<1>6. CASE TurnsLeft' = TurnsLeft /\ StepsLeft' < StepsLeft
  <2>1. TurnsLeft * TurnLength \in Nat
    BY <1>3
  <2>2. TurnsLeft' * TurnLength' = TurnsLeft * TurnLength
    BY <1>3, <1>6
  <2> QED BY <1>3, <1>6, <2>1, <2>2 DEF Remaining
<1> QED BY <1>4, <1>5, <1>6

(* Every call ends: a step always takes it nearer to the end, by a measure *)
(* that the candidates and the attempts bound, whoever fails.              *)
THEOREM CallsRunOut == Spec => [](Remaining \in Nat) /\ [][Remaining' < Remaining]_vars
<1>1. IInv /\ [Next]_vars => [Remaining' < Remaining]_vars
  BY StepUsesUp
<1> QED BY <1>1, Inductive, RemainingTypes, PTL DEF Spec
=============================================================================
