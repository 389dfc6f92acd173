--------------------------- MODULE ChatEntryProofs ---------------------------
(***************************************************************************)
(* Proofs about ChatEntry, for any accounts, lifetimes and number of       *)
(* logins and requests.                                                    *)
(***************************************************************************)
EXTENDS ChatEntry, WellFoundedInduction, TLAPS

-----------------------------------------------------------------------------
(* The inductive invariants                                                *)

(* What a token is worth: a refresh token carries no roles, and only the   *)
(* token of a login carries any.                                           *)
TokenIsSound(t) ==
    /\ t.login \in auditRows
    /\ t.exp <= t.since + REFRESH_TTL + ACCESS_TTL
    /\ t.refresh => t.exp <= t.since + REFRESH_TTL /\ t.roles = {}
    /\ t.roles # {} => /\ t.exp <= t.since + ACCESS_TTL
                       /\ t.roles \subseteq RolesOf[AccountOf[t.sub]]

SessionInv ==
    /\ \A t \in tokens : TokenIsSound(t)
    /\ \A l \in Logins : phase[l] = "recorded" => l \in auditRows

(* A request bears an issued token and is let in as the token says.        *)
LetIn(c, p) ==
    /\ token[c] \in tokens
    /\ p.sub = token[c].sub /\ p.tenant = token[c].tenant /\ p.roles = token[c].roles
    /\ p.scoped = ~IsStaff(p.roles)
    /\ p.time <= token[c].exp
    /\ Permitted(endpoint[c], p.roles)

CallInv ==
    \A c \in Calls :
        /\ at[c] \in {"new", "limiter"} => admitted[c] = {}
        /\ token[c] \in tokens \cup {NoToken}
        /\ \A p \in admitted[c] : LetIn(c, p)

(* Every answer is from the agent the two choices come to.                 *)
RoutingInv ==
    \A c \in Calls : \A a \in answered[c] :
        a.agent = Chosen(a.hint, a.message) /\ a.by = Answers(a.agent, a.message)

IInv == TypeOK /\ SessionInv /\ CallInv /\ RoutingInv

-----------------------------------------------------------------------------
(* Tokens                                                                  *)

LEMMA IssuedTokensAreSound ==
    ASSUME TypeOK, NEW l \in Logins, l \in auditRows
    PROVE  /\ AccessTokenOf(l) \in Tokens /\ TokenIsSound(AccessTokenOf(l))
           /\ RefreshTokenOf(l) \in Tokens /\ TokenIsSound(RefreshTokenOf(l))
<1>1. now \in Nat /\ ACCESS_TTL \in Nat /\ REFRESH_TTL \in Nat
  BY SessionsAssumption DEF TypeOK
<1>2. /\ email[l] \in Emails /\ AccountOf[email[l]] \in Accounts
      /\ TenantOf[AccountOf[email[l]]] \in Tenants
      /\ RolesOf[AccountOf[email[l]]] \in SUBSET Roles
  BY SessionsAssumption DEF TypeOK
<1> DEFINE a == AccessTokenOf(l)
           r == RefreshTokenOf(l)
<1>3. /\ a \in Tokens /\ a.login = l /\ a.since = now /\ a.exp = now + ACCESS_TTL
      /\ a.refresh = FALSE /\ a.roles = RolesOf[AccountOf[email[l]]] /\ a.sub = email[l]
  BY <1>1, <1>2 DEF AccessTokenOf, TokenOf, Tokens
<1>4. /\ r \in Tokens /\ r.login = l /\ r.since = now /\ r.exp = now + REFRESH_TTL
      /\ r.roles = {}
  BY <1>1, <1>2 DEF RefreshTokenOf, TokenOf, Tokens
<1> HIDE DEF a, r
<1>5. TokenIsSound(a)
  BY <1>1, <1>3 DEF TokenIsSound
<1>6. TokenIsSound(r)
  BY <1>1, <1>4 DEF TokenIsSound
<1> QED
  BY <1>3, <1>4, <1>5, <1>6 DEF a, r

LEMMA ExchangedTokenIsSound ==
    ASSUME TypeOK, NEW t \in tokens, TokenIsSound(t), Exchangeable(t)
    PROVE  Exchanged(t) \in Tokens /\ TokenIsSound(Exchanged(t))
<1>1. now \in Nat /\ ACCESS_TTL \in Nat /\ REFRESH_TTL \in Nat /\ t \in Tokens
  BY SessionsAssumption DEF TypeOK
<1>2. t.exp \in Nat /\ t.since \in Nat /\ t.exp >= now /\ t.exp <= t.since + REFRESH_TTL
  BY <1>1 DEF Exchangeable, Decodes, TokenIsSound, Tokens
<1>3. t.roles = {} /\ t.login \in auditRows
  BY DEF Exchangeable, TokenIsSound
<1> DEFINE u == Exchanged(t)
<1>4. /\ u \in Tokens /\ u.login = t.login /\ u.since = t.since /\ u.exp = now + ACCESS_TTL
      /\ u.roles = t.roles /\ u.refresh = FALSE
  BY <1>1 DEF Exchanged, Tokens
<1> HIDE DEF u
<1>5. TokenIsSound(u)
  BY <1>1, <1>2, <1>3, <1>4 DEF TokenIsSound
<1> QED
  BY <1>4, <1>5 DEF u

-----------------------------------------------------------------------------
(* Routing                                                                 *)

LEMMA LeastExists ==
    ASSUME NEW S \in SUBSET Nat, S # {}
    PROVE  \E i \in S : \A j \in S : i <= j
<1>1. PICK i \in S : \A j \in S : ~(<<j, i>> \in OpToRel(<, Nat))
  BY NatLessThanWellFounded, WFMin
<1>2. \A j \in S : ~(j < i)
  BY <1>1 DEF OpToRel
<1>3. \A j \in S : i \in Nat /\ j \in Nat /\ (~(j < i) => i <= j)
  OBVIOUS
<1> QED
  BY <1>2, <1>3

LEMMA KeysAreAgents ==
    /\ DOMAIN AgentKeys \subseteq Nat
    /\ \A i \in DOMAIN AgentKeys : AgentKeys[i] \in AgentSet
    /\ "supervisor" \in AgentSet /\ "customer_support" \in AgentSet
<1>1. DOMAIN AgentKeys = 1..17 /\ AgentKeys[1] = "supervisor" /\ AgentKeys[2] = "customer_support"
  BY DEF AgentKeys
<1>2. DOMAIN AgentKeys \subseteq Nat /\ 1 \in DOMAIN AgentKeys /\ 2 \in DOMAIN AgentKeys
  BY <1>1
<1> QED
  BY <1>1, <1>2 DEF AgentSet

(* Discovery returns a registered agent that has the capability.           *)
LEMMA FirstCapableIsCapable ==
    ASSUME NEW k, Known(k)
    PROVE  FirstCapable(k) \in AgentSet /\ k \in Capabilities[FirstCapable(k)]
<1> DEFINE S == FindByCapability(k)
<1>1. S # {} /\ S \in SUBSET Nat
  BY KeysAreAgents DEF Known, FindByCapability
<1>2. \E i \in S : \A j \in S : i <= j
  BY <1>1, LeastExists
<1>3. First(S) \in S
  BY <1>2 DEF First
<1>4. FirstCapable(k) = AgentKeys[First(S)]
  BY DEF FirstCapable
<1>5. First(S) \in DOMAIN AgentKeys /\ k \in Capabilities[AgentKeys[First(S)]]
  BY <1>3 DEF FindByCapability
<1> QED
  BY <1>4, <1>5, KeysAreAgents

LEMMA AnswerersAreAgents ==
    ASSUME NEW hint, NEW m
    PROVE  Chosen(hint, m) \in AgentSet /\ Answers(Chosen(hint, m), m) \in AgentSet
<1>1. Chosen(hint, m) \in AgentSet
  BY FirstCapableIsCapable, KeysAreAgents DEF Chosen
<1>2. Delegate(m) \in AgentSet
  BY FirstCapableIsCapable, KeysAreAgents DEF Delegate
<1> QED
  BY <1>1, <1>2 DEF Answers

LEMMA EveryIntentIsServed == \A k \in IntentSet : Known(k)
<1>1. IntentSet = {"compliance", "document", "fraud", "insurance", "investment", "kyc", "loan",
                   "support"}
  BY DEF IntentSet, Intents
<1>2. DOMAIN AgentKeys = 1..17
  BY DEF AgentKeys
<1>3. /\ "compliance" \in Capabilities[AgentKeys[13]] /\ "document" \in Capabilities[AgentKeys[9]]
      /\ "fraud" \in Capabilities[AgentKeys[6]] /\ "insurance" \in Capabilities[AgentKeys[10]]
      /\ "investment" \in Capabilities[AgentKeys[11]] /\ "kyc" \in Capabilities[AgentKeys[7]]
      /\ "loan" \in Capabilities[AgentKeys[4]] /\ "support" \in Capabilities[AgentKeys[2]]
  BY DEF AgentKeys, Capabilities
<1>4. \A k \in IntentSet : FindByCapability(k) # {}
  <2>1. {2, 4, 6, 7, 9, 10, 11, 13} \subseteq DOMAIN AgentKeys
    BY <1>2
  <2> QED
    BY <1>1, <1>3, <2>1 DEF FindByCapability
<1> QED
  BY <1>4, RoutingAssumption DEF Known

(* The sort of classify_intent has a last element: first the most matches, *)
(* then among those the last in the alphabet.                              *)
LEMMA StrongestExists ==
    ASSUME NEW m \in Messages, Matched(m) # {}
    PROVE  \E i \in Matched(m) : \A j \in Matched(m) : Stronger(m, i, j)
<1> DEFINE n(i) == m[Intents[i]]
<1>1. DOMAIN Intents = 1..8 /\ \A i \in DOMAIN Intents : Intents[i] \in IntentSet
  BY DEF Intents, IntentSet
<1>2. \A i \in Matched(m) : i \in 1..8 /\ n(i) \in 0..MaxMatches
  BY <1>1 DEF Matched, Messages
<1> DEFINE S == {MaxMatches - n(i) : i \in Matched(m)}
<1>3. S \in SUBSET Nat /\ S # {}
  BY <1>2, EntryAssumption
<1>4. PICK d \in S : \A e \in S : d <= e
  <2> HIDE DEF S
  <2> QED
    BY <1>3, LeastExists
<1>5. PICK most \in Matched(m) : \A j \in Matched(m) : n(j) <= n(most)
  <2>1. PICK i \in Matched(m) : d = MaxMatches - n(i)
    BY <1>4
  <2>2. \A j \in Matched(m) : MaxMatches - n(i) <= MaxMatches - n(j)
    BY <1>4, <2>1
  <2> QED
    BY <1>2, <2>2, EntryAssumption
<1> DEFINE T == {8 - i : i \in {j \in Matched(m) : n(j) = n(most)}}
<1>6. T \in SUBSET Nat /\ T # {}
  BY <1>2
<1>7. PICK f \in T : \A e \in T : f <= e
  <2> HIDE DEF T
  <2> QED
    BY <1>6, LeastExists
<1>8. PICK i \in Matched(m) : n(i) = n(most) /\ f = 8 - i
  BY <1>7
<1>9. \A j \in Matched(m) : n(j) = n(most) => 8 - i <= 8 - j
  BY <1>7, <1>8
<1>10. \A j \in Matched(m) : Stronger(m, i, j)
  <2>1. SUFFICES ASSUME NEW j \in Matched(m)
                 PROVE  n(j) < n(i) \/ (n(j) = n(i) /\ j <= i)
    BY DEF Stronger
  <2>2. i \in 1..8 /\ j \in 1..8 /\ n(i) \in Nat /\ n(j) \in Nat
    BY <1>2, EntryAssumption
  <2>3. n(j) <= n(i) /\ (n(j) = n(i) => 8 - i <= 8 - j)
    BY <1>5, <1>8, <1>9
  <2> HIDE DEF n
  <2> QED
    BY <2>2, <2>3
<1> QED
  BY <1>10

(* classify_intent finds an intent that matches most, if any matches.      *)
LEMMA ClassifiedMatchesMost ==
    ASSUME NEW m \in Messages, Matched(m) # {}
    PROVE  /\ Classified(m) \in IntentSet
           /\ \A k \in IntentSet : m[k] <= m[Classified(m)]
<1> DEFINE x == CHOOSE i \in Matched(m) : \A j \in Matched(m) : Stronger(m, i, j)
<1>1. x \in Matched(m) /\ \A j \in Matched(m) : Stronger(m, x, j)
  BY StrongestExists
<1>2. Classified(m) = Intents[x]
  BY DEF Classified
<1> HIDE DEF x
<1>3. \A k \in IntentSet : m[k] \in Nat
  BY EntryAssumption DEF Messages
<1>4. x \in DOMAIN Intents /\ m[Intents[x]] > 0 /\ Intents[x] \in IntentSet
  BY <1>1 DEF Matched, IntentSet
<1>5. ASSUME NEW k \in IntentSet
      PROVE  m[k] <= m[Intents[x]]
  <2>1. PICK j \in DOMAIN Intents : k = Intents[j]
    BY DEF IntentSet
  <2>2. CASE j \in Matched(m)
    BY <1>1, <1>3, <1>4, <2>1, <2>2 DEF Stronger
  <2>3. CASE j \notin Matched(m)
    BY <1>3, <1>4, <2>1, <2>3 DEF Matched
  <2> QED
    BY <2>2, <2>3
<1> QED
  BY <1>2, <1>4, <1>5

(* Router and supervisor agree on a message that no hint decides.          *)
LEMMA UnhintedAnswerIsTheDelegates ==
    ASSUME NEW hint, NEW m, hint = NoHint \/ FindByCapability(hint) = {}
    PROVE  Answers(Chosen(hint, m), m) = Delegate(m)
  BY DEF Answers, Chosen, Delegate, Known

LEMMA DelegateServesTheMostMatched ==
    ASSUME NEW m \in Messages, NEW i \in IntentSet
    PROVE  \E k \in Capabilities[Delegate(m)] \cap IntentSet : m[i] <= m[k]
<1>1. CASE Matched(m) # {}
  <2>1. /\ Classified(m) \in IntentSet /\ Known(Classified(m))
        /\ m[i] <= m[Classified(m)]
    BY <1>1, ClassifiedMatchesMost, EveryIntentIsServed
  <2>2. Delegate(m) = FirstCapable(Classified(m))
    BY <2>1 DEF Delegate
  <2> QED
    BY <2>1, <2>2, FirstCapableIsCapable
<1>2. CASE Matched(m) = {}
  <2>1. Delegate(m) = "customer_support"
    BY <1>2 DEF Delegate, Known, Classified
  <2>2. "support" \in IntentSet /\ "support" \in Capabilities["customer_support"]
    BY DEF IntentSet, Intents, Capabilities
  <2>3. m[i] \in Nat /\ m["support"] \in Nat /\ ~(m[i] > 0)
    BY <1>2, <2>2, EntryAssumption DEF Messages, Matched, IntentSet
  <2> QED
    BY <2>1, <2>2, <2>3
<1> QED
  BY <1>1, <1>2

-----------------------------------------------------------------------------
(* The invariants are inductive                                            *)

LEMMA InitEstablishes == Init => IInv
  BY SessionsAssumption, EntryAssumption
  DEF Init, SessionInit, IInv, TypeOK, SessionInv, CallInv, RoutingInv, Phases, Contexts, Schemes

LEMMA SessionStepKeeps ==
    ASSUME IInv, SessionNext, UNCHANGED callVars
    PROVE  IInv'
<1> USE SessionsAssumption, EntryAssumption DEF sessionVars, callVars
<1>r. RoutingInv'
  BY DEF IInv, RoutingInv
<1>1. CASE Tick
  <2>1. TypeOK'
    BY <1>1 DEF IInv, TypeOK, Tick
  <2>2. SessionInv'
    BY <1>1 DEF IInv, SessionInv, TokenIsSound, Tick
  <2>3. ASSUME NEW c \in Calls, Bears(token[c])'
        PROVE  Bears(token[c])
    BY <1>1, <2>3 DEF IInv, TypeOK, Tick, Bears, Decodes, Tokens
  <2>4. CallInv'
    BY <1>1, <2>3 DEF IInv, CallInv, LetIn, Tick
  <2> QED
    BY <1>r, <2>1, <2>2, <2>4 DEF IInv
<1>2. CASE Refresh
  <2>1. PICK t \in tokens : Exchangeable(t) /\ tokens' = tokens \cup {Exchanged(t)}
    BY <1>2 DEF Refresh
  <2>2. TypeOK /\ TokenIsSound(t) /\ UNCHANGED <<now, email, phase, auditRows>>
    BY <1>2 DEF IInv, SessionInv, Refresh
  <2>3. Exchanged(t) \in Tokens /\ TokenIsSound(Exchanged(t))
    BY <2>1, <2>2, ExchangedTokenIsSound
  <2>4. TypeOK'
    BY <2>1, <2>2, <2>3 DEF TypeOK
  <2>5. SessionInv'
    BY <2>1, <2>2, <2>3 DEF IInv, SessionInv, TokenIsSound
  <2>6. CallInv'
    BY <2>1, <2>2 DEF IInv, CallInv, LetIn, Bears, Decodes
  <2> QED
    BY <1>r, <2>4, <2>5, <2>6 DEF IInv
<1>3. ASSUME NEW l \in Logins, CheckPassword(l) \/ RecordLands(l) \/ RecordRaises(l)
      PROVE  IInv'
  <2>1. /\ UNCHANGED <<now, email, tokens>> /\ auditRows \subseteq auditRows'
        /\ auditRows' \subseteq Logins
    BY <1>3 DEF IInv, TypeOK, CheckPassword, RecordLands, RecordRaises
  <2>2. phase' \in [Logins -> Phases]
    BY <1>3 DEF IInv, TypeOK, CheckPassword, RecordLands, RecordRaises, Proceed, Phases
  <2>3. \A k \in Logins : phase'[k] = "recorded" => k \in auditRows'
    BY <1>3 DEF IInv, TypeOK, SessionInv, CheckPassword, RecordLands, RecordRaises, Proceed
  <2>4. TypeOK'
    BY <2>1, <2>2 DEF IInv, TypeOK
  <2>5. SessionInv'
    BY <2>1, <2>3 DEF IInv, SessionInv, TokenIsSound
  <2>6. CallInv'
    BY <2>1 DEF IInv, CallInv, LetIn, Bears, Decodes
  <2> QED
    BY <1>r, <2>4, <2>5, <2>6 DEF IInv
<1>4. ASSUME NEW l \in Logins, IssueTokens(l)
      PROVE  IInv'
  <2>1. /\ UNCHANGED <<now, email, auditRows>> /\ TypeOK /\ l \in auditRows
        /\ phase' = [phase EXCEPT ![l] = "issued"]
        /\ tokens' = tokens \cup {AccessTokenOf(l), RefreshTokenOf(l)}
    BY <1>4 DEF IInv, SessionInv, IssueTokens, Ready, Proceed
  <2>2. /\ AccessTokenOf(l) \in Tokens /\ TokenIsSound(AccessTokenOf(l))
        /\ RefreshTokenOf(l) \in Tokens /\ TokenIsSound(RefreshTokenOf(l))
    BY <2>1, IssuedTokensAreSound
  <2>3. TypeOK'
    BY <2>1, <2>2 DEF TypeOK, Phases
  <2>4. \A t \in tokens' : TokenIsSound(t)
    BY <2>1, <2>2 DEF IInv, SessionInv
  <2>5. SessionInv'
    BY <2>1, <2>4 DEF IInv, TypeOK, SessionInv, TokenIsSound
  <2>6. CallInv'
    BY <2>1 DEF IInv, CallInv, LetIn, Bears, Decodes
  <2> QED
    BY <1>r, <2>3, <2>5, <2>6 DEF IInv
<1> QED
  BY <1>1, <1>2, <1>3, <1>4 DEF SessionNext

LEMMA CallStepKeeps ==
    ASSUME IInv, NEW c \in Calls, Arrive(c) \/ Refuse(c) \/ Chat(c) \/ Administer(c)
    PROVE  IInv'
<1>1. /\ UNCHANGED <<now, email, phase, auditRows, tokens, endpoint, scheme>>
      /\ TypeOK /\ SessionInv /\ CallInv /\ RoutingInv
  BY DEF IInv, Arrive, Refuse, Chat, Administer, sessionVars
<1>2. SessionInv'
  BY <1>1 DEF SessionInv, TokenIsSound
<1>3. CASE Arrive(c)
  <2>1. PICK t \in tokens \cup {NoToken} :
           /\ token' = [token EXCEPT ![c] = t]
           /\ context' = [context EXCEPT ![c] = ContextOf(scheme[c], t)]
    BY <1>3 DEF Arrive
  <2>2. /\ at[c] = "new" /\ at' = [at EXCEPT ![c] = "limiter"]
        /\ UNCHANGED <<admitted, answered>> /\ admitted[c] = {}
    BY <1>1, <1>3 DEF Arrive, CallInv
  <2>3. ContextOf(scheme[c], t) \in Contexts
    BY <1>1 DEF TypeOK, ContextOf, Contexts, Bears, Tokens
  <2>4. TypeOK'
    BY <1>1, <2>1, <2>2, <2>3 DEF TypeOK
  <2>5. \A d \in Calls \ {c} : /\ at'[d] = at[d] /\ token'[d] = token[d]
                               /\ context'[d] = context[d] /\ admitted'[d] = admitted[d]
    BY <1>1, <2>1, <2>2 DEF TypeOK
  <2>6. /\ at'[c] = "limiter" /\ token'[c] = t /\ context'[c] = ContextOf(scheme[c], t)
        /\ admitted'[c] = {}
    BY <1>1, <2>1, <2>2 DEF TypeOK
  <2>7. CallInv'
    BY <1>1, <2>3, <2>5, <2>6 DEF CallInv, LetIn, Bears, Decodes
  <2>8. RoutingInv'
    BY <1>1, <2>2 DEF RoutingInv
  <2> QED
    BY <1>2, <2>4, <2>7, <2>8 DEF IInv
<1>4. CASE Refuse(c)
  <2>1. /\ UNCHANGED <<token, context, admitted, answered>> /\ at[c] = "limiter"
        /\ \E answer \in {"401", "403", "429"} : at' = [at EXCEPT ![c] = answer]
    BY <1>4 DEF Refuse
  <2>2. TypeOK'
    BY <1>1, <2>1 DEF TypeOK
  <2>3. \A d \in Calls : at'[d] \in {"new", "limiter"} => at'[d] = at[d]
    BY <1>1, <2>1 DEF TypeOK
  <2>4. CallInv'
    BY <1>1, <2>1, <2>3 DEF CallInv, LetIn, Bears, Decodes
  <2>5. RoutingInv'
    BY <1>1, <2>1 DEF RoutingInv
  <2> QED
    BY <1>2, <2>2, <2>4, <2>5 DEF IInv
<1>5. CASE Chat(c) \/ Administer(c)
  <2>1. /\ UNCHANGED <<token, context>> /\ Admit(c)
    BY <1>5 DEF Chat, Administer
  <2> DEFINE p == Principal(token[c])
  <2>2. /\ token[c] \in tokens /\ token[c] \in Tokens /\ token[c].exp >= now /\ now \in Nat
        /\ token[c].exp \in Nat
        /\ admitted[c] = {}
    BY <1>1, <2>1, EntryAssumption, SessionsAssumption DEF Admit, Bears, Decodes, CallInv, TypeOK, Tokens
  <2>3. /\ at'[c] = "admitted" /\ admitted'[c] = {p}
        /\ \A d \in Calls \ {c} : at'[d] = at[d] /\ admitted'[d] = admitted[d]
    BY <1>1, <2>1 DEF Admit, TypeOK
  <2>4. /\ p.sub = token[c].sub /\ p.tenant = token[c].tenant /\ p.roles = token[c].roles
        /\ p.scoped = ~IsStaff(p.roles) /\ p.time = now
        /\ p \in [sub : Emails, tenant : Tenants, roles : SUBSET Roles, scoped : BOOLEAN,
                  time : 0..now]
    BY <2>2 DEF Principal, Tokens, IsStaff
  <2> HIDE DEF p
  <2>5. LetIn(c, p)
    BY <2>1, <2>2, <2>4 DEF LetIn, Admit
  <2>6. /\ at' \in [Calls -> {"new", "limiter", "admitted", "401", "403", "429"}]
        /\ admitted' \in [Calls -> SUBSET [sub : Emails, tenant : Tenants, roles : SUBSET Roles,
                                            scoped : BOOLEAN, time : 0..now]]
    BY <1>1, <2>1, <2>4 DEF Admit, TypeOK, p
  <2>7. /\ answered' \in [Calls -> SUBSET [message : Messages, hint : Hints, agent : AgentSet,
                                           by : AgentSet]]
        /\ RoutingInv'
    <3>1. CASE Administer(c)
      BY <1>1, <3>1 DEF Administer, TypeOK, RoutingInv
    <3>2. CASE Chat(c)
      <4>1. PICK m \in Messages, hint \in Hints :
               answered' = [answered EXCEPT ![c] =
                   {[message |-> m, hint |-> hint, agent |-> Chosen(hint, m),
                     by |-> Answers(Chosen(hint, m), m)]}]
        BY <3>2 DEF Chat
      <4>2. Chosen(hint, m) \in AgentSet /\ Answers(Chosen(hint, m), m) \in AgentSet
        BY AnswerersAreAgents
      <4> DEFINE a == [message |-> m, hint |-> hint, agent |-> Chosen(hint, m),
                       by |-> Answers(Chosen(hint, m), m)]
      <4>3. /\ a \in [message : Messages, hint : Hints, agent : AgentSet, by : AgentSet]
            /\ a.agent = Chosen(a.hint, a.message) /\ a.by = Answers(a.agent, a.message)
        BY <4>2
      <4>4. answered' = [answered EXCEPT ![c] = {a}]
        BY <4>1
      <4> HIDE DEF a
      <4> QED
        BY <1>1, <4>3, <4>4 DEF TypeOK, RoutingInv
    <3> QED
      BY <1>5, <3>1, <3>2
  <2>8. TypeOK'
    BY <1>1, <2>1, <2>6, <2>7 DEF TypeOK
  <2>9. CallInv'
    BY <1>1, <2>1, <2>3, <2>5 DEF CallInv, LetIn, Bears, Decodes
  <2> QED
    BY <1>2, <2>7, <2>8, <2>9 DEF IInv
<1> QED
  BY <1>3, <1>4, <1>5

LEMMA StutterKeeps ==
    ASSUME IInv, UNCHANGED vars
    PROVE  IInv'
  BY DEF IInv, TypeOK, SessionInv, TokenIsSound, CallInv, LetIn, Bears, Decodes,
         RoutingInv, vars, sessionVars, callVars

LEMMA Invariance == Spec => []IInv
<1>1. IInv /\ [Next]_vars => IInv'
  BY SessionStepKeeps, CallStepKeeps, StutterKeeps DEF Next
<1> QED
  BY InitEstablishes, <1>1, PTL DEF Spec

-----------------------------------------------------------------------------
(* The theorems                                                            *)

(* The types of Sessions' and ChatEntry's variables hold for any accounts. *)
THEOREM TypeCorrect == Spec => []TypeOK
<1>1. IInv => TypeOK
  BY DEF IInv
<1> QED
  BY Invariance, <1>1, PTL

(* Nobody is let in later than the lifetimes of a refresh and an access    *)
(* token after their login, for any lifetimes (endpoints/auth.py, refresh).*)
THEOREM SessionsAreFinite == Spec => []SessionsEnd
<1>1. IInv => SessionsEnd
  <2>1. SUFFICES ASSUME IInv, NEW c \in Calls, NEW p \in admitted[c]
                 PROVE  p.time <= token[c].since + REFRESH_TTL + ACCESS_TTL
    BY DEF SessionsEnd
  <2>2. LetIn(c, p) /\ token[c] \in tokens /\ TokenIsSound(token[c])
    BY <2>1 DEF IInv, CallInv, SessionInv, LetIn
  <2>3. /\ p.time \in Nat /\ token[c].exp \in Nat /\ token[c].since \in Nat
        /\ REFRESH_TTL \in Nat /\ ACCESS_TTL \in Nat
    BY <2>1, <2>2, SessionsAssumption DEF IInv, TypeOK, Tokens
  <2> QED
    BY <2>2, <2>3 DEF LetIn, TokenIsSound
<1> QED
  BY Invariance, <1>1, PTL

(* Whoever acts with a role logged in within the lifetime of an access     *)
(* token, whatever tokens were exchanged in between.                       *)
THEOREM RolesStayRecent == Spec => []RolesAreRecent
<1>1. IInv => RolesAreRecent
  <2>1. SUFFICES ASSUME IInv, NEW c \in Calls, NEW p \in admitted[c],
                        endpoint[c] # "chat" \/ ~p.scoped \/ p.roles # {}
                 PROVE  /\ p.time <= token[c].since + ACCESS_TTL
                        /\ p.roles \subseteq RolesOf[AccountOf[p.sub]]
    BY DEF RolesAreRecent
  <2>2. LetIn(c, p) /\ token[c] \in tokens /\ TokenIsSound(token[c])
    BY <2>1 DEF IInv, CallInv, SessionInv, LetIn
  <2>3. p.roles # {}
    BY <2>1, <2>2 DEF LetIn, Permitted, IsStaff
  <2>4. /\ p.time \in Nat /\ token[c].exp \in Nat /\ token[c].since \in Nat
        /\ ACCESS_TTL \in Nat
    BY <2>1, <2>2, SessionsAssumption DEF IInv, TypeOK, Tokens
  <2> QED
    BY <2>2, <2>3, <2>4 DEF LetIn, TokenIsSound
<1> QED
  BY Invariance, <1>1, PTL

(* No token without a durable record of the login it goes back to.         *)
THEOREM TokensHaveAuditRows == Spec => []TokensAreAudited
<1>1. IInv => TokensAreAudited
  BY DEF IInv, SessionInv, TokenIsSound, TokensAreAudited
<1> QED
  BY Invariance, <1>1, PTL

(* No intent matches a message more often than one that the answering      *)
(* agent is capable of, for every message: classify_intent finds an intent *)
(* that matches most, every intent has a capable agent, and discovery      *)
(* returns one.                                                            *)
THEOREM TheMostMatchedIsServed == Spec => []MostMatchedIsServed
<1>1. IInv => MostMatchedIsServed
  <2>1. SUFFICES ASSUME IInv, NEW c \in Calls, NEW a \in answered[c],
                        FindByCapability(a.hint) = {}, NEW i \in IntentSet
                 PROVE  \E k \in Capabilities[a.by] \cap IntentSet : a.message[i] <= a.message[k]
    BY DEF MostMatchedIsServed
  <2>2. a.message \in Messages
    BY <2>1 DEF IInv, TypeOK
  <2>3. a.by = Answers(Chosen(a.hint, a.message), a.message)
    BY <2>1 DEF IInv, RoutingInv
  <2>4. a.by = Delegate(a.message)
    BY <2>1, <2>3, UnhintedAnswerIsTheDelegates
  <2> QED
    BY <2>2, <2>4, DelegateServesTheMostMatched
<1> QED
  BY Invariance, <1>1, PTL

=============================================================================
