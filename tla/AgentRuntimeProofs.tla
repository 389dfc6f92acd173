------------------------- MODULE AgentRuntimeProofs -------------------------
(***************************************************************************)
(* Theorems about AgentRuntime, for every set of requests, users, agents   *)
(* and conversations and every value of the bounds.                        *)
(***************************************************************************)
EXTENDS AgentRuntime, SequenceTheorems, TLAPS

-----------------------------------------------------------------------------
(* Lemmas on Newest, Python's s[-n:]                                       *)

(* The newest n elements: how many there are and which.                    *)
LEMMA NewestProperties ==
    ASSUME NEW S, NEW s \in Seq(S), NEW n \in Nat \ {0}
    PROVE  /\ Newest(s, n) \in Seq(S)
           /\ Len(Newest(s, n)) = IF Len(s) > n THEN n ELSE Len(s)
           /\ \A i \in 1..Len(Newest(s, n)) :
                 Newest(s, n)[i] = s[(Len(s) - Len(Newest(s, n))) + i]
<1> DEFINE first == IF Len(s) > n THEN Len(s) - n + 1 ELSE 1
<1>1. Len(s) \in Nat /\ first \in 1..(Len(s) + 1)
  BY LenProperties
<1>2. \A i \in first..Len(s) : s[i] \in S
  BY <1>1, ElementOfSeq
<1>3. /\ first <= Len(s) \/ (first = 1 /\ Len(s) = 0)
      /\ Len(s) - first + 1 = IF Len(s) > n THEN n ELSE Len(s)
  BY <1>1
<1>5. Newest(s, n) = SubSeq(s, first, Len(s))
  BY DEF Newest
<1> HIDE DEF first
<1>4. /\ SubSeq(s, first, Len(s)) \in Seq(S)
      /\ Len(SubSeq(s, first, Len(s))) = IF first <= Len(s) THEN Len(s) - first + 1 ELSE 0
      /\ \A i \in 1..(Len(s) - first + 1) : SubSeq(s, first, Len(s))[i] = s[first + i - 1]
  <2>1. first \in Int /\ Len(s) \in Int
    BY <1>1
  <2> QED
    BY <1>2, <2>1, SubSeqProperties
<1>6. Len(Newest(s, n)) = Len(s) - first + 1
  BY <1>1, <1>3, <1>4, <1>5
<1>7. \A i \in 1..Len(Newest(s, n)) :
         /\ Newest(s, n)[i] = s[first + i - 1]
         /\ first + i - 1 = (Len(s) - Len(Newest(s, n))) + i
  <2> TAKE i \in 1..Len(Newest(s, n))
  <2>1. i \in 1..(Len(s) - first + 1)
    BY <1>6
  <2>2. Newest(s, n)[i] = s[first + i - 1]
    BY <1>4, <1>5, <2>1
  <2>3. first + i - 1 = (Len(s) - (Len(s) - first + 1)) + i
    BY <1>1, <2>1
  <2> QED
    BY <1>6, <2>2, <2>3
<1> QED
  BY <1>3, <1>4, <1>5, <1>6, <1>7

(* Dropping old turns before an append, and again after it, keeps the same *)
(* turns as never dropping any until the end.                              *)
LEMMA NewestOfAppend ==
    ASSUME NEW S, NEW s \in Seq(S), NEW x \in S, NEW n \in Nat \ {0}
    PROVE  Newest(Append(Newest(s, n), x), n) = Newest(Append(s, x), n)
<1> DEFINE k == Newest(s, n)
           a == Append(k, x)
           b == Append(s, x)
<1>1. /\ k \in Seq(S)
      /\ Len(k) = IF Len(s) > n THEN n ELSE Len(s)
      /\ \A i \in 1..Len(k) : k[i] = s[(Len(s) - Len(k)) + i]
  BY NewestProperties
<1> HIDE DEF k
<1>2. /\ Len(s) \in Nat /\ Len(k) \in Nat
      /\ a \in Seq(S) /\ b \in Seq(S)
      /\ Len(a) = Len(k) + 1
      /\ Len(b) = Len(s) + 1
  BY <1>1, LenProperties
<1>3. /\ \A i \in 1..Len(a) : a[i] = IF i = Len(a) THEN x ELSE k[i]
      /\ \A i \in 1..Len(b) : b[i] = IF i = Len(b) THEN x ELSE s[i]
  BY <1>1, <1>2
<1> HIDE DEF a, b
<1>4. \A i \in 1..Len(a) : a[i] = b[(Len(s) - Len(k)) + i]
  <2> TAKE i \in 1..Len(a)
  <2>1. CASE i = Len(a)
    BY <1>2, <1>3, <2>1
  <2>2. CASE i \in 1..Len(k)
    <3>1. (Len(s) - Len(k)) + i \in 1..Len(s)
      BY <1>1, <1>2, <2>2
    <3>2. i \in 1..Len(a) /\ i # Len(a)
      BY <1>2, <2>2
    <3>4. a[i] = k[i] /\ k[i] = s[(Len(s) - Len(k)) + i]
      BY <1>1, <1>3, <2>2, <3>2
    <3>3. b[(Len(s) - Len(k)) + i] = s[(Len(s) - Len(k)) + i]
      BY <1>2, <1>3, <3>1
    <3> QED
      BY <3>3, <3>4
  <2> QED
    BY <1>2, <2>1, <2>2
<1> DEFINE p == Newest(a, n)
           q == Newest(b, n)
<1>5. /\ p \in Seq(S)
      /\ Len(p) = IF Len(a) > n THEN n ELSE Len(a)
      /\ \A i \in 1..Len(p) : p[i] = a[(Len(a) - Len(p)) + i]
  BY <1>2, NewestProperties
<1>6. /\ q \in Seq(S)
      /\ Len(q) = IF Len(b) > n THEN n ELSE Len(b)
      /\ \A i \in 1..Len(q) : q[i] = b[(Len(b) - Len(q)) + i]
  BY <1>2, NewestProperties
<1> HIDE DEF p, q
<1>7. Len(p) = Len(q) /\ Len(p) \in Nat /\ Len(p) <= Len(a)
  BY <1>1, <1>2, <1>5, <1>6
<1>8. \A i \in 1..Len(p) : p[i] = q[i]
  <2> TAKE i \in 1..Len(p)
  <2>1. (Len(a) - Len(p)) + i \in 1..Len(a)
    BY <1>2, <1>7
  <2>2. (Len(s) - Len(k)) + ((Len(a) - Len(p)) + i) = (Len(b) - Len(q)) + i
    BY <1>2, <1>7
  <2> QED
    BY <1>4, <1>5, <1>6, <1>7, <2>1, <2>2
<1>9. p = q
  BY <1>5, <1>6, <1>7, <1>8, SeqEqual
<1> QED
  BY <1>9 DEF p, q, a, b, k

-----------------------------------------------------------------------------
(* Type correctness                                                        *)

USE BoundsAssumption

(* TypeOK alone is not inductive: a request that is about to get another   *)
(* LLM response must have a round left to count it.                        *)
RoundLeft == \A r \in Requests : pc[r] \in {"waiting", "llm"} => RoundsLeft(r)

TypeInv == TypeOK /\ RoundLeft

LEMMA SlotType ==
    ASSUME TypeOK, NEW r \in Requests, Remembers(r)
    PROVE  Slot(r) \in Slots
BY DEF TypeOK, Remembers, Slot, Slots, Inputs

LEMMA RowType ==
    ASSUME TypeOK, NEW r \in Requests, NEW final \in BOOLEAN,
           NEW lastTokens \in [Agents -> Usages]
    PROVE  RunRow(r, final, lastTokens) \in Rows
BY DEF TypeOK, RunRow, Rows, Inputs

(* _record_tokens replaces the usage of the run's own agent.               *)
LEMMA TokensRecorded ==
    ASSUME TypeOK, NEW r \in Requests
    PROVE  /\ RecordedTokens(r) \in [Agents -> Usages]
           /\ RecordedTokens(r)[req[r].agent] = r
BY DEF TypeOK, RecordedTokens, Inputs, Usages

LEMMA MemoryType ==
    ASSUME TypeOK, NEW r \in Requests, Remember(r, Appended(r))
    PROVE  /\ memory' \in [Slots -> Seq(Requests)]
           /\ turns' \in [Slots -> Seq(Requests)]
<1>1. CASE Remembers(r)
  <2>1. Slot(r) \in Slots
    BY <1>1, SlotType
  <2>2. memory[Slot(r)] \in Seq(Requests) /\ turns[Slot(r)] \in Seq(Requests)
    BY <2>1 DEF TypeOK
  <2>3. /\ Append(memory[Slot(r)], r) \in Seq(Requests)
        /\ Append(turns[Slot(r)], r) \in Seq(Requests)
    BY <2>2
  <2>4. Appended(r) \in Seq(Requests)
    BY <2>3, NewestProperties DEF Appended
  <2> QED
    BY <1>1, <2>1, <2>3, <2>4 DEF Remember, TypeOK
<1>2. CASE ~Remembers(r)
  BY <1>2 DEF Remember, TypeOK
<1> QED
  BY <1>1, <1>2

LEMMA TypeInit == Init => TypeInv
BY DEF Init, TypeInv, RoundLeft, RoundsLeft, TypeOK, InFlight, InLoop, Outcomes, Usages, Slots

LEMMA TypeStep == TypeInv /\ [Next]_vars => TypeInv'
<1> SUFFICES ASSUME TypeOK, RoundLeft, [Next]_vars
             PROVE  TypeOK' /\ RoundLeft'
  BY DEF TypeInv
<1> USE DEF RoundLeft, RoundsLeft, Goto, loopVars, agentVars, storeVars, InFlight, InLoop
<1>1. CASE UNCHANGED vars
  BY <1>1 DEF TypeOK, vars
<1>2. CASE Restart
  BY <1>2 DEF TypeOK, Restart, Outcomes, Usages, Slots
<1>3. ASSUME NEW r \in Requests, Begin(r)
      PROVE  TypeOK' /\ RoundLeft'
  <2>1. ShortTerm(r) \in Seq(Requests)
    <3>1. CASE Remembers(r)
      BY <3>1, SlotType, NewestProperties DEF ShortTerm, TypeOK
    <3>2. CASE ~Remembers(r)
      BY <3>2, EmptySeq DEF ShortTerm
    <3> QED
      BY <3>1, <3>2
  <2> QED
    BY <1>3, <2>1 DEF TypeOK, Begin
<1>4. ASSUME NEW r \in Requests, RejectInput(r) \/ RejectOutput(r) \/ RejectComposed(r)
      PROVE  TypeOK' /\ RoundLeft'
  BY <1>4 DEF TypeOK, RejectInput, RejectOutput, RejectComposed, Reject
<1>5. ASSUME NEW r \in Requests, OrderTools(r)
      PROVE  TypeOK' /\ RoundLeft'
  <2>1. rounds[r] + 1 \in 0..MAX_TOOL_ROUNDS
    BY <1>5 DEF TypeOK, OrderTools
  <2>2. PICK n \in 1..MaxCalls : calls' = [calls EXCEPT ![r] = n]
    BY <1>5 DEF OrderTools
  <2>3. calls' \in [Requests -> 0..MaxCalls]
    BY <2>2 DEF TypeOK
  <2>4. rounds' \in [Requests -> 0..MAX_TOOL_ROUNDS]
    BY <1>5, <2>1 DEF TypeOK, OrderTools, CountedRound
  <2>5. RoundLeft'
    BY <1>5 DEF TypeOK, OrderTools, CountedRound
  <2> QED
    BY <1>5, <2>3, <2>4, <2>5 DEF TypeOK, OrderTools
<1>6. ASSUME NEW r \in Requests, RunTool(r) \/ RunLastTool(r)
      PROVE  TypeOK' /\ RoundLeft'
  <2>1. calls' \in [Requests -> 0..MaxCalls]
    <3>1. calls[r] \in 0..MaxCalls
      BY DEF TypeOK
    <3>2. CASE RunTool(r)
      <4>1. calls[r] - 1 \in 0..MaxCalls
        BY <3>1, <3>2 DEF RunTool
      <4> QED
        BY <3>2, <4>1 DEF TypeOK, RunTool
    <3>3. CASE RunLastTool(r)
      BY <3>3 DEF TypeOK, RunLastTool
    <3> QED
      BY <1>6, <3>2, <3>3
  <2>2. RoundLeft'
    BY <1>6 DEF TypeOK, RunTool, RunLastTool
  <2> QED
    BY <1>6, <2>1, <2>2 DEF TypeOK, RunTool, RunLastTool
<1>7. ASSUME NEW r \in Requests, RunToolAtLimit(r)
      PROVE  TypeOK' /\ RoundLeft'
  <2>1. RunRow(r, FALSE, lastUsage) \in Rows
    BY RowType DEF TypeOK
  <2>2. /\ memory' \in [Slots -> Seq(Requests)]
        /\ turns' \in [Slots -> Seq(Requests)]
    BY <1>7, MemoryType DEF RunToolAtLimit, LeaveLoop
  <2> QED
    <3>1. pending' \in [Requests -> SUBSET Rows]
      BY <1>7, <2>1 DEF TypeOK, RunToolAtLimit, LeaveLoop
    <3>2. RoundLeft'
      BY <1>7 DEF TypeOK, RunToolAtLimit, LeaveLoop
    <3>3. /\ rounds' \in [Requests -> 0..MAX_TOOL_ROUNDS]
          /\ calls' \in [Requests -> 0..MaxCalls]
          /\ lastUsage' \in [Agents -> Usages]
      BY <1>7 DEF TypeOK, RunToolAtLimit, LeaveLoop, CountedRound, Usages
    <3> QED
      BY <1>7, <2>2, <3>1, <3>2, <3>3 DEF TypeOK, RunToolAtLimit, LeaveLoop
<1>8. ASSUME NEW r \in Requests, FinalResponse(r)
      PROVE  TypeOK' /\ RoundLeft'
  <2>1. /\ RecordedTokens(r) \in [Agents -> Usages]
        /\ RunRow(r, TRUE, RecordedTokens(r)) \in Rows
    BY RowType, TokensRecorded
  <2>2. /\ memory' \in [Slots -> Seq(Requests)]
        /\ turns' \in [Slots -> Seq(Requests)]
    BY <1>8, MemoryType DEF FinalResponse, LeaveLoop
  <2> QED
    <3>1. pending' \in [Requests -> SUBSET Rows]
      BY <1>8, <2>1 DEF TypeOK, FinalResponse, LeaveLoop
    <3>2. RoundLeft'
      BY <1>8 DEF TypeOK, FinalResponse, LeaveLoop, CountedRound
    <3>3. /\ calls' \in [Requests -> 0..MaxCalls]
          /\ lastUsage' \in [Agents -> Usages]
      BY <1>8, <2>1 DEF TypeOK, FinalResponse, LeaveLoop
    <3>4. rounds' \in [Requests -> 0..MAX_TOOL_ROUNDS]
      <4>1. rounds[r] + 1 \in 0..MAX_TOOL_ROUNDS
        BY <1>8 DEF TypeOK, FinalResponse, LeaveLoop
      <4> QED
        BY <1>8, <4>1 DEF TypeOK, FinalResponse, CountedRound
    <3> QED
      BY <1>8, <2>2, <3>1, <3>2, <3>3, <3>4 DEF TypeOK, FinalResponse, LeaveLoop
<1>9. ASSUME NEW r \in Requests, RunLands(r) \/ RunAcknowledged(r) \/ ComposeResponse(r)
      PROVE  TypeOK' /\ RoundLeft'
  BY <1>9 DEF TypeOK, RunLands, RunAcknowledged, ComposeResponse, Committed, AfterRun
<1>10. ASSUME NEW r \in Requests, AuditLands(r)
       PROVE  TypeOK' /\ RoundLeft'
  <2>1. AuditRecord(r) \in Requests \X {"success", "denied"}
    BY <1>10 DEF AuditLands, AuditRecord
  <2>2. pc' \in [Requests -> {"waiting", "done"} \cup InFlight] /\ RoundLeft'
    BY <1>10 DEF TypeOK, AuditLands
  <2> QED
    BY <1>10, <2>1, <2>2 DEF TypeOK, AuditLands
<1>11. ASSUME NEW r \in Requests, Reply(r) \/ Refuse(r) \/ Fail(r)
       PROVE  TypeOK' /\ RoundLeft'
  BY <1>11 DEF TypeOK, Reply, Refuse, Fail, Finish, MayRaise, Outcomes
<1> QED
  BY <1>1, <1>2, <1>3, <1>4, <1>5, <1>6, <1>7, <1>8, <1>9, <1>10, <1>11
  DEF Next, Serve

(* Every variable keeps its shape, whatever the constants. *)
THEOREM TypeCorrect == Spec => []TypeOK
<1>1. TypeInv => TypeOK
  BY DEF TypeInv
<1> QED
  BY <1>1, TypeInit, TypeStep, PTL DEF Spec

-----------------------------------------------------------------------------
(* Memory                                                                  *)

(* The store changes only where a run leaves the loop, and restarts empty. *)
LEMMA MemoryStep ==
    ASSUME TypeOK, NoTurnLost, [Next]_vars
    PROVE  NoTurnLost'
<1> USE DEF NoTurnLost
<1>1. CASE UNCHANGED <<memory, turns>>
  BY <1>1
<1>2. CASE Restart
  BY <1>2 DEF Restart, Newest
<1>3. ASSUME NEW r \in Requests, Remember(r, Appended(r))
      PROVE  NoTurnLost'
  <2>1. CASE Remembers(r)
    <3>1. Slot(r) \in Slots
      BY <2>1, SlotType
    <3>2. turns[Slot(r)] \in Seq(Requests)
      BY <3>1 DEF TypeOK
    <3>3. Appended(r) = Newest(Append(turns[Slot(r)], r), KeepTurns)
      BY <3>1, <3>2, NewestOfAppend DEF Appended
    <3>4. /\ memory' = [memory EXCEPT ![Slot(r)] = Appended(r)]
          /\ turns' = [turns EXCEPT ![Slot(r)] = Append(turns[Slot(r)], r)]
      BY <1>3, <2>1 DEF Remember
    <3> QED
      BY <3>3, <3>4 DEF TypeOK
  <2>2. CASE ~Remembers(r)
    BY <1>1, <1>3, <2>2 DEF Remember
  <2> QED
    BY <2>1, <2>2
<1>4. ASSUME NEW r \in Requests, Begin(r) \/ RejectInput(r) \/ Serve(r)
      PROVE  NoTurnLost'
  <2>1. CASE RunToolAtLimit(r) \/ FinalResponse(r)
    BY <1>3, <2>1 DEF RunToolAtLimit, FinalResponse, LeaveLoop
  <2>2. CASE ~(RunToolAtLimit(r) \/ FinalResponse(r))
    BY <1>1, <1>4, <2>2 DEF Serve, Begin, RejectInput, RejectOutput, RejectComposed,
       Reject, OrderTools, RunTool, RunLastTool, RunLands, RunAcknowledged,
       ComposeResponse, AuditLands, Reply, Refuse, Fail, agentVars
  <2> QED
    BY <2>1, <2>2
<1> QED
  BY <1>1, <1>2, <1>4 DEF Next, vars

(* However the requests of a conversation interleave, its memory is the    *)
(* most recent turns in the order the runs ended: no turn is lost to a     *)
(* concurrent append (memory.py:38-45).                                    *)
THEOREM NoTurnIsLost == Spec => []NoTurnLost
<1>1. Init => NoTurnLost
  BY DEF Init, NoTurnLost, Newest
<1> QED
  BY <1>1, MemoryStep, TypeCorrect, PTL DEF Spec

-----------------------------------------------------------------------------
(* What a memory holds of whom                                             *)

LEMMA NewestElements ==
    ASSUME NEW S, NEW s \in Seq(S), NEW n \in Nat \ {0}
    PROVE  \A i \in DOMAIN Newest(s, n) : \E j \in DOMAIN s : Newest(s, n)[i] = s[j]
<1>1. /\ Newest(s, n) \in Seq(S)
      /\ Len(Newest(s, n)) = IF Len(s) > n THEN n ELSE Len(s)
      /\ \A i \in 1..Len(Newest(s, n)) : Newest(s, n)[i] = s[(Len(s) - Len(Newest(s, n))) + i]
  BY NewestProperties
<1>2. /\ DOMAIN Newest(s, n) = 1..Len(Newest(s, n)) /\ DOMAIN s = 1..Len(s)
      /\ Len(Newest(s, n)) \in Nat /\ Len(s) \in Nat
  BY <1>1, LenProperties
<1>3. ASSUME NEW i \in 1..Len(Newest(s, n))
      PROVE  (Len(s) - Len(Newest(s, n))) + i \in 1..Len(s)
  BY <1>1, <1>2
<1> QED
  BY <1>1, <1>2, <1>3

(* A run that leaves the loop adds itself to its own slot, if to any.      *)
LEMMA OnlyOwnTurnIsAdded ==
    ASSUME TypeOK, NEW r \in Requests, Remember(r, Appended(r))
    PROVE  \A s \in Slots : \A i \in DOMAIN memory'[s] :
              \/ memory'[s][i] = r /\ s = Slot(r) /\ Remembers(r)
              \/ \E j \in DOMAIN memory[s] : memory'[s][i] = memory[s][j]
<1>1. CASE ~Remembers(r)
  BY <1>1 DEF Remember
<1>2. CASE Remembers(r)
  <2>1. Slot(r) \in Slots /\ memory[Slot(r)] \in Seq(Requests)
    BY <1>2, SlotType DEF TypeOK
  <2>2. memory' = [memory EXCEPT ![Slot(r)] = Appended(r)] /\ memory \in [Slots -> Seq(Requests)]
    BY <1>2 DEF Remember, TypeOK
  <2> DEFINE old == memory[Slot(r)]
  <2>3. Append(old, r) \in Seq(Requests) /\ KeepTurns \in Nat \ {0}
    BY <2>1, BoundsAssumption
  <2>4. \A i \in DOMAIN Appended(r) :
           \E j \in DOMAIN Append(old, r) : Appended(r)[i] = Append(old, r)[j]
    <3> DEFINE b == Append(old, r)
    <3>1. Appended(r) = Newest(b, KeepTurns) /\ b \in Seq(Requests) /\ KeepTurns \in Nat \ {0}
      BY <2>3 DEF Appended
    <3> HIDE DEF b
    <3>2. \A i \in DOMAIN Newest(b, KeepTurns) :
             \E j \in DOMAIN b : Newest(b, KeepTurns)[i] = b[j]
      BY <3>1, NewestElements
    <3> QED
      BY <3>1, <3>2 DEF b
  <2>5. \A j \in DOMAIN Append(old, r) :
           Append(old, r)[j] = r \/ (j \in DOMAIN old /\ Append(old, r)[j] = old[j])
    <3>1. old \in Seq(Requests)
      BY <2>1
    <3> HIDE DEF old
    <3>2. /\ DOMAIN Append(old, r) = 1..(Len(old) + 1) /\ Append(old, r)[Len(old) + 1] = r
          /\ \A j \in 1..Len(old) : Append(old, r)[j] = old[j]
      BY <3>1, AppendProperties
    <3>3. DOMAIN old = 1..Len(old) /\ Len(old) \in Nat
      BY <3>1, LenProperties
    <3> QED
      BY <3>2, <3>3
  <2>6. \A s \in Slots \ {Slot(r)} : memory'[s] = memory[s]
    BY <2>2
  <2>7. memory'[Slot(r)] = Appended(r)
    BY <2>1, <2>2
  <2> QED
    BY <1>2, <2>4, <2>5, <2>6, <2>7
<1> QED
  BY <1>1, <1>2

(* Every turn lies in the slot of its own request.                         *)
TurnsInTheirSlot ==
    \A s \in Slots : \A i \in DOMAIN memory[s] : Slot(memory[s][i]) = s

HistoryInv == TypeOK /\ TurnsInTheirSlot /\ HistoryOfOwnConversation

(* The steps other than Begin, leaving the loop and Restart.               *)
LEMMA OtherSteps ==
    ASSUME NEW r \in Requests, Begin(r) \/ RejectInput(r) \/ Serve(r)
    PROVE  /\ req' = req
           /\ \/ Begin(r) /\ UNCHANGED memory
              \/ Remember(r, Appended(r)) /\ UNCHANGED history
              \/ UNCHANGED <<memory, history>>
<1> USE DEF loopVars, agentVars
<1>1. CASE Begin(r)
  BY <1>1 DEF Begin
<1>2. CASE RunToolAtLimit(r) \/ FinalResponse(r)
  BY <1>2 DEF RunToolAtLimit, FinalResponse, LeaveLoop
<1>3. CASE ~Begin(r) /\ ~(RunToolAtLimit(r) \/ FinalResponse(r))
  BY <1>3 DEF Serve, RejectInput, RejectOutput, RejectComposed, Reject, OrderTools, RunTool,
     RunLastTool, RunLands, RunAcknowledged, ComposeResponse, AuditLands, Reply, Refuse, Fail
<1> QED
  BY <1>1, <1>2, <1>3

LEMMA HistoryStep ==
    ASSUME HistoryInv, [Next]_vars
    PROVE  TurnsInTheirSlot' /\ HistoryOfOwnConversation'
<1>0. TypeOK /\ TurnsInTheirSlot /\ HistoryOfOwnConversation
  BY DEF HistoryInv
<1>1. ASSUME UNCHANGED <<req, memory, history>>
      PROVE  TurnsInTheirSlot' /\ HistoryOfOwnConversation'
  BY <1>0, <1>1 DEF TurnsInTheirSlot, HistoryOfOwnConversation, Slot
<1>2. CASE Restart
  <2>1. req' = req /\ history' = history /\ \A s \in Slots : memory'[s] = <<>>
    BY <1>2 DEF Restart, loopVars
  <2> QED
    BY <1>0, <2>1 DEF TurnsInTheirSlot, HistoryOfOwnConversation
<1>3. ASSUME NEW r \in Requests, Remember(r, Appended(r)), UNCHANGED <<req, history>>
      PROVE  TurnsInTheirSlot' /\ HistoryOfOwnConversation'
  <2>1. \A s \in Slots : \A i \in DOMAIN memory'[s] : Slot(memory'[s][i]) = s
    BY <1>0, <1>3, OnlyOwnTurnIsAdded DEF TurnsInTheirSlot
  <2> QED
    BY <1>0, <1>3, <2>1 DEF TurnsInTheirSlot, HistoryOfOwnConversation, Slot
<1>4. ASSUME NEW r \in Requests, Begin(r), UNCHANGED <<req, memory>>
      PROVE  TurnsInTheirSlot' /\ HistoryOfOwnConversation'
  <2>1. history' = [history EXCEPT ![r] = ShortTerm(r)] /\ history \in [Requests -> Seq(Requests)]
    BY <1>0, <1>4 DEF Begin, TypeOK
  <2>2. \A i \in DOMAIN ShortTerm(r) : Slot(ShortTerm(r)[i]) = Slot(r)
    <3>1. CASE Remembers(r)
      <4>1. Slot(r) \in Slots /\ memory[Slot(r)] \in Seq(Requests) /\ ReadTurns \in Nat \ {0}
        BY <1>0, <3>1, SlotType, BoundsAssumption DEF TypeOK
      <4>2. \A i \in DOMAIN ShortTerm(r) :
               \E j \in DOMAIN memory[Slot(r)] : ShortTerm(r)[i] = memory[Slot(r)][j]
        BY <3>1, <4>1, NewestElements DEF ShortTerm
      <4> QED
        BY <1>0, <4>1, <4>2 DEF TurnsInTheirSlot
    <3>2. CASE ~Remembers(r)
      BY <3>2 DEF ShortTerm
    <3> QED
      BY <3>1, <3>2
  <2>3. \A i \in DOMAIN history'[r] : Slot(history'[r][i]) = Slot(r)
    BY <2>1, <2>2
  <2>4. \A q \in Requests \ {r} : history'[q] = history[q]
    BY <2>1
  <2>5. \A i \in DOMAIN history'[r] :
           /\ req[history'[r][i]].agent = req[r].agent
           /\ req[history'[r][i]].user = req[r].user
           /\ req[history'[r][i]].conv = req[r].conv
    BY <2>3 DEF Slot
  <2>6. HistoryOfOwnConversation'
    BY <1>0, <1>4, <2>4, <2>5 DEF HistoryOfOwnConversation
  <2> QED
    BY <1>0, <1>4, <2>6 DEF TurnsInTheirSlot, Slot
<1> QED
  BY <1>1, <1>2, <1>3, <1>4, OtherSteps DEF Next, vars

(* No prompt holds a turn of another user, conversation or agent, for any  *)
(* choice of conversation ids by the callers (memory.py:30-36).            *)
THEOREM HistoryIsOwn == Spec => []HistoryOfOwnConversation
<1>1. Init /\ TypeOK => HistoryInv
  BY DEF Init, HistoryInv, TurnsInTheirSlot, HistoryOfOwnConversation
<1>2. HistoryInv /\ TypeOK' /\ [Next]_vars => HistoryInv'
  BY HistoryStep DEF HistoryInv
<1>3. HistoryInv => HistoryOfOwnConversation
  BY DEF HistoryInv
<1> QED
  BY <1>1, <1>2, <1>3, TypeCorrect, PTL DEF Spec

-----------------------------------------------------------------------------
(* Evidence and the contract                                               *)

Recorded(r) == \E row \in runRows : row.req = r

(* What pending holds: rows of r itself, with r's own usage when final.    *)
PendingIsOwn ==
    \A r \in Requests : \A row \in pending[r] :
        row.req = r /\ (row.final => row.usage = r)

(* Where a request stands tells what is recorded about it.                 *)
Standing(r) ==
    /\ pc[r] = "run" => pending[r] # {}
    /\ pc[r] \in {"waiting", "llm", "tools", "run"} => ~Recorded(r)
    /\ pc[r] \in {"run_ack", "compose", "success", "success_ack"} => Recorded(r)
    /\ <<r, "success">> \in audits => pc[r] \in {"success_ack", "done"}
    /\ <<r, "denied">> \in audits => pc[r] \in {"denied_ack", "done"}
    /\ pc[r] = "success_ack" => <<r, "success">> \in audits
    /\ pc[r] = "denied_ack" => <<r, "denied">> \in audits

EvidenceMatchesPc == \A r \in Requests : Standing(r)

EvidenceInv == TypeOK /\ PendingIsOwn /\ FinalRowHasOwnUsage /\ EvidenceMatchesPc

LEMMA EvidenceInit == Init => PendingIsOwn /\ FinalRowHasOwnUsage /\ EvidenceMatchesPc
BY DEF Init, PendingIsOwn, FinalRowHasOwnUsage, EvidenceMatchesPc, Standing, Recorded

(* A step of r that writes no row and hands none over. *)
LEMMA RowsUnchanged ==
    ASSUME EvidenceInv, UNCHANGED <<pending, runRows>>
    PROVE  /\ PendingIsOwn' /\ FinalRowHasOwnUsage'
           /\ \A q \in Requests : Recorded(q)' <=> Recorded(q)
BY DEF EvidenceInv, PendingIsOwn, FinalRowHasOwnUsage, Recorded

(* The moves between awaits that write nothing. *)
MayMove(from, to) ==
    \/ from = "waiting" /\ to \in {"llm", "denied"}
    \/ from = "llm"     /\ to \in {"tools", "denied"}
    \/ from = "tools"   /\ to = "llm"
    \/ from = "run_ack" /\ to \in {"compose", "success"}
    \/ from = "compose" /\ to \in {"success", "denied"}
    \/ from \in InFlight /\ to = "done"

LEMMA EvidenceOfMove ==
    ASSUME EvidenceInv, NEW r \in Requests, NEW from, NEW to,
           Goto(r, from, to), MayMove(from, to),
           UNCHANGED <<pending, runRows, audits>>
    PROVE  PendingIsOwn' /\ FinalRowHasOwnUsage' /\ EvidenceMatchesPc'
<1>1. /\ PendingIsOwn' /\ FinalRowHasOwnUsage'
      /\ \A q \in Requests : Recorded(q)' <=> Recorded(q)
  BY RowsUnchanged
<1>2. pc[r] = from /\ pc'[r] = to /\ \A q \in Requests \ {r} : pc'[q] = pc[q]
  BY DEF EvidenceInv, TypeOK, Goto
<1>3. ASSUME NEW q \in Requests \ {r}
      PROVE  Standing(q)'
  BY <1>1, <1>2 DEF EvidenceInv, EvidenceMatchesPc, Standing
<1>4. Standing(r)
  BY DEF EvidenceInv, EvidenceMatchesPc
<1>5. Standing(r)'
  BY <1>1, <1>2, <1>4 DEF Standing, MayMove
<1> QED
  BY <1>1, <1>3, <1>5 DEF EvidenceMatchesPc

LEMMA EvidenceStep ==
    ASSUME EvidenceInv, [Next]_vars
    PROVE  PendingIsOwn' /\ FinalRowHasOwnUsage' /\ EvidenceMatchesPc'
<1> USE DEF Finish, loopVars, agentVars, storeVars
<1>0. /\ TypeOK
      /\ pc \in [Requests -> {"waiting", "done"} \cup InFlight]
  BY DEF EvidenceInv, TypeOK
<1>1. CASE UNCHANGED vars
  BY <1>1, RowsUnchanged DEF vars, EvidenceInv, EvidenceMatchesPc, Standing
<1>2. CASE Restart
  <2>1. UNCHANGED <<pending, runRows, audits>>
    BY <1>2 DEF Restart
  <2>2. \A q \in Requests : pc'[q] = IF pc[q] \in InFlight THEN "done" ELSE pc[q]
    BY <1>2 DEF Restart
  <2> QED
    BY <1>0, <2>1, <2>2, RowsUnchanged DEF EvidenceInv, EvidenceMatchesPc, Standing, InFlight, InLoop
<1>4. ASSUME NEW r \in Requests, RunToolAtLimit(r) \/ FinalResponse(r)
      PROVE  PendingIsOwn' /\ FinalRowHasOwnUsage' /\ EvidenceMatchesPc'
  <2>1. \/ LeaveLoop(r, "tools", FALSE, lastUsage)
        \/ LeaveLoop(r, "llm", TRUE, RecordedTokens(r))
    BY <1>4 DEF RunToolAtLimit, FinalResponse
  <2>2. PICK row : /\ row.req = r /\ (row.final => row.usage = r)
                   /\ pending' = [pending EXCEPT ![r] = {row}]
    BY <1>0, <2>1, TokensRecorded DEF LeaveLoop, RunRow
  <2>3. /\ pending' = [pending EXCEPT ![r] = {row}]
        /\ UNCHANGED <<runRows, audits>>
        /\ pc[r] \in {"tools", "llm"}
        /\ pc' = [pc EXCEPT ![r] = "run"]
    BY <2>1, <2>2 DEF LeaveLoop, Goto
  <2>4. pending \in [Requests -> SUBSET Rows]
    BY <1>0 DEF TypeOK
  <2>5. PendingIsOwn'
    BY <2>2, <2>3, <2>4 DEF EvidenceInv, PendingIsOwn
  <2>6. FinalRowHasOwnUsage'
    BY <2>3 DEF EvidenceInv, FinalRowHasOwnUsage
  <2>7. EvidenceMatchesPc'
    BY <1>0, <2>3, <2>4 DEF EvidenceInv, EvidenceMatchesPc, Standing, Recorded
  <2> QED
    BY <2>5, <2>6, <2>7
<1>5. ASSUME NEW r \in Requests, RunLands(r)
      PROVE  PendingIsOwn' /\ FinalRowHasOwnUsage' /\ EvidenceMatchesPc'
  <2>1. /\ UNCHANGED <<pending, audits>>
        /\ runRows' = runRows \cup pending[r]
        /\ pc[r] = "run"
        /\ pc' = [pc EXCEPT ![r] = "run_ack"]
    BY <1>5 DEF RunLands, Committed, Goto
  <2>2. pending[r] # {} /\ \A row \in pending[r] : row.req = r /\ (row.final => row.usage = r)
    BY <2>1 DEF EvidenceInv, PendingIsOwn, EvidenceMatchesPc, Standing
  <2>3. PendingIsOwn' /\ FinalRowHasOwnUsage'
    BY <2>1, <2>2 DEF EvidenceInv, PendingIsOwn, FinalRowHasOwnUsage
  <2>4. Recorded(r)' /\ \A q \in Requests \ {r} : Recorded(q)' <=> Recorded(q)
    BY <2>1, <2>2 DEF Recorded
  <2>5. EvidenceMatchesPc'
    BY <1>0, <2>1, <2>4 DEF EvidenceInv, EvidenceMatchesPc, Standing
  <2> QED
    BY <2>3, <2>5
<1>6. ASSUME NEW r \in Requests, AuditLands(r)
      PROVE  PendingIsOwn' /\ FinalRowHasOwnUsage' /\ EvidenceMatchesPc'
  <2>1. UNCHANGED <<pending, runRows>>
    BY <1>6 DEF AuditLands
  <2>2. PICK verdict \in {"success", "denied"} :
           /\ pc[r] = verdict
           /\ pc' = [pc EXCEPT ![r] = IF verdict = "success" THEN "success_ack" ELSE "denied_ack"]
           /\ audits' = audits \cup {<<r, verdict>>}
    BY <1>6 DEF AuditLands, AuditRecord, Goto
  <2> QED
    BY <1>0, <2>1, <2>2, RowsUnchanged DEF EvidenceInv, EvidenceMatchesPc, Standing
<1>7. ASSUME NEW r \in Requests, RunTool(r)
      PROVE  PendingIsOwn' /\ FinalRowHasOwnUsage' /\ EvidenceMatchesPc'
  BY <1>7, RowsUnchanged DEF RunTool, EvidenceInv, EvidenceMatchesPc, Standing
<1>8. ASSUME NEW r \in Requests,
             \/ Begin(r) \/ RejectInput(r) \/ RejectOutput(r) \/ RejectComposed(r)
             \/ OrderTools(r) \/ RunLastTool(r) \/ RunAcknowledged(r)
             \/ ComposeResponse(r) \/ Reply(r) \/ Refuse(r) \/ Fail(r)
      PROVE  PendingIsOwn' /\ FinalRowHasOwnUsage' /\ EvidenceMatchesPc'
  <2>1. CASE Begin(r)
    BY <2>1, EvidenceOfMove DEF Begin, MayMove
  <2>2. CASE RejectInput(r) \/ RejectOutput(r) \/ RejectComposed(r)
    BY <2>2, EvidenceOfMove DEF RejectInput, RejectOutput, RejectComposed, Reject, MayMove
  <2>3. CASE OrderTools(r)
    BY <2>3, EvidenceOfMove DEF OrderTools, MayMove
  <2>4. CASE RunLastTool(r)
    BY <2>4, EvidenceOfMove DEF RunLastTool, MayMove
  <2>5. CASE RunAcknowledged(r)
    BY <2>5, EvidenceOfMove DEF RunAcknowledged, AfterRun, MayMove
  <2>6. CASE ComposeResponse(r)
    BY <2>6, EvidenceOfMove DEF ComposeResponse, MayMove
  <2>7. CASE Reply(r) \/ Refuse(r) \/ Fail(r)
    <3>1. PICK from \in InFlight : Goto(r, from, "done") /\ UNCHANGED <<pending, runRows, audits>>
      BY <2>7 DEF Reply, Refuse, Fail, MayRaise, InFlight, InLoop
    <3> QED
      BY <3>1, EvidenceOfMove DEF MayMove
  <2> QED
    BY <1>8, <2>1, <2>2, <2>3, <2>4, <2>5, <2>6, <2>7
<1> QED
  BY <1>1, <1>2, <1>4, <1>5, <1>6, <1>7, <1>8 DEF Next, Serve

LEMMA EvidenceInvariant == Spec => []EvidenceInv
<1>1. Init /\ TypeOK => EvidenceInv
  BY EvidenceInit DEF EvidenceInv
<1>2. EvidenceInv /\ TypeOK' /\ [Next]_vars => EvidenceInv'
  BY EvidenceStep DEF EvidenceInv
<1> QED
  BY <1>1, <1>2, TypeCorrect, PTL DEF Spec

(* The AgentRun row of a run that ended on a final response carries its    *)
(* own token usage, however many requests share the agent's _last_usage    *)
(* (base.py:141-145, 202).                                                 *)
THEOREM FinalRowsHaveOwnUsage == Spec => []FinalRowHasOwnUsage
<1>1. EvidenceInv => FinalRowHasOwnUsage
  BY DEF EvidenceInv
<1> QED
  BY <1>1, EvidenceInvariant, PTL

-----------------------------------------------------------------------------
(* Refusals                                                                *)

Untouched(r) ==
    /\ \A row \in runRows : row.req # r
    /\ \A s \in Slots : \A i \in DOMAIN memory[s] : memory[s][i] # r

(* Only a delegated run reaches the supervisor's composing call, so a      *)
(* request that is not delegated is refused with nothing kept of it.       *)
Unkept(r) ==
    /\ req[r].via = "direct" => pc[r] # "compose"
    /\ outcome[r] = "denied" => pc[r] = "done"
    /\ pc[r] \in {"waiting", "llm", "tools"} => Untouched(r)
    /\ req[r].via = "direct" /\ (pc[r] \in {"denied", "denied_ack"} \/ outcome[r] = "denied")
       => Untouched(r)

RefusalInv == EvidenceInv /\ \A r \in Requests : Unkept(r)

(* A step of r that neither remembers nor writes a row.                    *)
LEMMA UnkeptOfMove ==
    ASSUME RefusalInv, NEW r \in Requests, UNCHANGED <<req, runRows, memory>>,
           NEW to, pc' = [pc EXCEPT ![r] = to],
           \/ to = pc[r] /\ outcome' = outcome
           \/ MayMove(pc[r], to) /\ (to = "compose" => req[r].via = "supervisor")
              /\ \E result \in Outcomes :
                    /\ outcome' = [outcome EXCEPT ![r] = result]
                    /\ result # outcome[r] => to = "done"
                    /\ result = "denied" => result = outcome[r] \/ pc[r] = "denied_ack"
           \/ pc[r] = "success" /\ to = "success_ack" /\ outcome' = outcome
           \/ pc[r] = "denied" /\ to = "denied_ack" /\ outcome' = outcome
    PROVE  \A q \in Requests : Unkept(q)'
<1>1. \A q \in Requests : Untouched(q)' <=> Untouched(q)
  BY DEF Untouched
<1>2. \A q \in Requests : Unkept(q)
  BY DEF RefusalInv
<1>3. /\ pc \in [Requests -> {"waiting", "done"} \cup InFlight]
      /\ outcome \in [Requests -> Outcomes]
  BY DEF RefusalInv, EvidenceInv, TypeOK
<1>4. ASSUME NEW q \in Requests \ {r}
      PROVE  Unkept(q)'
  <2>1. pc'[q] = pc[q] /\ outcome'[q] = outcome[q]
    BY <1>3
  <2> QED
    BY <1>1, <1>2, <2>1 DEF Unkept
<1>5. pc'[r] = to
  BY <1>3
<1>6. Unkept(r)'
  <2>1. CASE \/ to = pc[r] /\ outcome' = outcome
             \/ pc[r] = "success" /\ to = "success_ack" /\ outcome' = outcome
             \/ pc[r] = "denied" /\ to = "denied_ack" /\ outcome' = outcome
    BY <1>1, <1>2, <1>5, <2>1 DEF Unkept
  <2>2. ASSUME MayMove(pc[r], to), to = "compose" => req[r].via = "supervisor",
               NEW result \in Outcomes, outcome' = [outcome EXCEPT ![r] = result],
               result # outcome[r] => to = "done",
               result = "denied" => result = outcome[r] \/ pc[r] = "denied_ack"
        PROVE  Unkept(r)'
    <3>1. outcome'[r] = result
      BY <1>3, <2>2
    <3> QED
      BY <1>1, <1>2, <1>5, <2>2, <3>1 DEF Unkept, MayMove, InFlight, InLoop
  <2> QED
    BY <2>1, <2>2
<1> QED
  BY <1>4, <1>6

LEMMA RefusalStep ==
    ASSUME RefusalInv, [Next]_vars
    PROVE  \A q \in Requests : Unkept(q)'
<1> USE DEF Finish, Goto, loopVars, agentVars, storeVars
<1>0. /\ TypeOK /\ EvidenceInv /\ \A q \in Requests : Unkept(q)
      /\ pc \in [Requests -> {"waiting", "done"} \cup InFlight]
      /\ outcome \in [Requests -> Outcomes]
  BY DEF RefusalInv, EvidenceInv, TypeOK
<1>1. CASE UNCHANGED vars
  BY <1>0, <1>1 DEF vars, Unkept, Untouched
<1>2. CASE Restart
  <2>1. /\ UNCHANGED <<req, runRows>> /\ \A s \in Slots : memory'[s] = <<>>
        /\ \A q \in Requests :
              IF pc[q] \in InFlight THEN pc'[q] = "done" /\ outcome'[q] = "lost"
              ELSE pc'[q] = pc[q] /\ outcome'[q] = outcome[q]
    BY <1>2 DEF Restart
  <2>2. \A q \in Requests : Untouched(q) => Untouched(q)'
    BY <2>1 DEF Untouched
  <2> QED
    BY <1>0, <2>1, <2>2 DEF Unkept, InFlight, InLoop
<1>3. ASSUME NEW r \in Requests, RunToolAtLimit(r) \/ FinalResponse(r)
      PROVE  \A q \in Requests : Unkept(q)'
  <2>1. /\ UNCHANGED <<req, outcome, runRows>> /\ Remember(r, Appended(r))
        /\ pc[r] \in {"llm", "tools"} /\ pc' = [pc EXCEPT ![r] = "run"]
    BY <1>3 DEF RunToolAtLimit, FinalResponse, LeaveLoop
  <2>2. \A q \in Requests \ {r} : Untouched(q) => Untouched(q)'
    BY <1>0, <2>1, OnlyOwnTurnIsAdded DEF Untouched
  <2>3. ASSUME NEW q \in Requests \ {r}
        PROVE  Unkept(q)'
    BY <1>0, <2>1, <2>2 DEF Unkept
  <2>4. Unkept(r)'
    BY <1>0, <2>1 DEF Unkept
  <2> QED
    BY <2>3, <2>4
<1>4. ASSUME NEW r \in Requests, RunLands(r)
      PROVE  \A q \in Requests : Unkept(q)'
  <2>1. /\ UNCHANGED <<req, outcome, memory>> /\ runRows' = runRows \cup pending[r]
        /\ pc[r] = "run" /\ pc' = [pc EXCEPT ![r] = "run_ack"]
        /\ \A row \in pending[r] : row.req = r
    BY <1>0, <1>4 DEF RunLands, Committed, EvidenceInv, PendingIsOwn
  <2>2. \A q \in Requests \ {r} : Untouched(q) => Untouched(q)'
    BY <2>1 DEF Untouched
  <2>3. ASSUME NEW q \in Requests \ {r}
        PROVE  Unkept(q)'
    BY <1>0, <2>1, <2>2 DEF Unkept
  <2>4. Unkept(r)'
    BY <1>0, <2>1 DEF Unkept
  <2> QED
    BY <2>3, <2>4
<1>5. ASSUME NEW r \in Requests,
             \/ Begin(r) \/ RejectInput(r) \/ RejectOutput(r) \/ RejectComposed(r)
             \/ OrderTools(r) \/ RunLastTool(r) \/ RunAcknowledged(r) \/ ComposeResponse(r)
      PROVE  \A q \in Requests : Unkept(q)'
  <2>1. /\ UNCHANGED <<req, runRows, memory, outcome>>
        /\ \E to \in InFlight : /\ pc' = [pc EXCEPT ![r] = to] /\ MayMove(pc[r], to)
                                /\ to = "compose" => req[r].via = "supervisor"
    BY <1>5 DEF Begin, RejectInput, RejectOutput, RejectComposed, Reject, OrderTools, RunLastTool,
       RunAcknowledged, AfterRun, ComposeResponse, MayMove, InFlight, InLoop
  <2>2. outcome[r] \in Outcomes /\ outcome' = [outcome EXCEPT ![r] = outcome[r]]
    BY <1>0, <2>1
  <2> QED
    BY <2>1, <2>2, UnkeptOfMove
<1>6. ASSUME NEW r \in Requests, RunTool(r)
      PROVE  \A q \in Requests : Unkept(q)'
  <2>1. UNCHANGED <<req, runRows, memory, outcome, pc>>
    BY <1>6 DEF RunTool
  <2> QED
    BY <1>0, <2>1 DEF Unkept, Untouched
<1>7. ASSUME NEW r \in Requests, AuditLands(r)
      PROVE  \A q \in Requests : Unkept(q)'
  <2>1. /\ UNCHANGED <<req, runRows, memory, outcome>>
        /\ \E to \in {"success_ack", "denied_ack"} :
              /\ pc' = [pc EXCEPT ![r] = to]
              /\ pc[r] = IF to = "success_ack" THEN "success" ELSE "denied"
    BY <1>7 DEF AuditLands
  <2> QED
    BY <2>1, UnkeptOfMove
<1>8. ASSUME NEW r \in Requests, Reply(r) \/ Refuse(r) \/ Fail(r)
      PROVE  \A q \in Requests : Unkept(q)'
  <2>1. /\ UNCHANGED <<req, runRows, memory>>
        /\ pc' = [pc EXCEPT ![r] = "done"] /\ MayMove(pc[r], "done")
    BY <1>8 DEF Reply, Refuse, Fail, MayRaise, MayMove, InFlight, InLoop
  <2>2. \E result \in Outcomes : /\ outcome' = [outcome EXCEPT ![r] = result]
                                 /\ result = "denied" => pc[r] = "denied_ack"
    BY <1>8 DEF Reply, Refuse, Fail, Outcomes
  <2> QED
    BY <2>1, <2>2, UnkeptOfMove
<1> QED
  BY <1>1, <1>2, <1>3, <1>4, <1>5, <1>6, <1>7, <1>8 DEF Next, Serve

(* A refusal without delegation leaves no row and no turn, however many    *)
(* requests share the agent and its memory (agent_service.py:55).          *)
THEOREM RefusalsLeaveNothing == Spec => []RefusedLeavesNoTurn
<1>1. Init /\ EvidenceInv => RefusalInv
  BY DEF Init, RefusalInv, Unkept, Untouched
<1>2. RefusalInv /\ EvidenceInv' /\ [Next]_vars => RefusalInv'
  BY RefusalStep DEF RefusalInv
<1>3. RefusalInv => RefusedLeavesNoTurn
  BY DEF RefusalInv, Unkept, Untouched, RefusedLeavesNoTurn
<1> QED
  BY <1>1, <1>2, <1>3, EvidenceInvariant, PTL DEF Spec

-----------------------------------------------------------------------------
(* Every step of the runtime is a step of the contract or a stutter.       *)
StageFn    == [r \in Requests |-> StageOf(r)]
EvidenceFn == [r \in Requests |-> EvidenceOf(r)]

LEMMA ContractVars == Lifecycle!contractVars = <<StageFn, EvidenceFn>>
BY DEF Lifecycle!contractVars, StageFn, EvidenceFn

(* A step that writes nothing leaves the evidence alone. *)
LEMMA EvidenceUnchanged ==
    ASSUME UNCHANGED <<runRows, audits>>
    PROVE  EvidenceFn' = EvidenceFn
BY DEF EvidenceFn, EvidenceOf

(* A move between two awaits is invisible to the caller. *)
LEMMA StageUnchanged ==
    ASSUME TypeOK, NEW r \in Requests, NEW from \in InFlight, NEW to \in InFlight,
           Goto(r, from, to), UNCHANGED outcome
    PROVE  StageFn' = StageFn
<1>1. /\ pc[r] = from /\ pc'[r] = to
      /\ \A q \in Requests \ {r} : pc'[q] = pc[q]
  BY DEF TypeOK, Goto
<1>2. \A q \in Requests : StageOf(q)' = StageOf(q)
  BY <1>1 DEF StageOf, InFlight, InLoop
<1> QED
  BY <1>2 DEF StageFn

(* The service takes the request up, with or without a rejection. *)
LEMMA BeginRefines ==
    ASSUME TypeOK, NEW r \in Requests, NEW to \in {"llm", "denied"},
           Goto(r, "waiting", to), UNCHANGED <<outcome, runRows, audits>>
    PROVE  Lifecycle!Begin(r)
<1>1. StageFn[r] = "waiting"
  BY DEF StageFn, StageOf, Goto
<1>2. StageFn' = [StageFn EXCEPT ![r] = "running"]
  BY DEF StageFn, StageOf, Goto, TypeOK
<1> QED
  BY <1>1, <1>2, EvidenceUnchanged DEF Lifecycle!Begin, Lifecycle!Enter, StageFn, EvidenceFn

(* A request ends the way its outcome says. *)
LEMMA FinishRefines ==
    ASSUME TypeOK, NEW r \in Requests, NEW from \in InFlight, NEW result,
           Finish(r, from, result), UNCHANGED <<runRows, audits>>
    PROVE  Lifecycle!Enter(r, "running", result)
<1>1. StageFn[r] = "running"
  BY DEF StageFn, StageOf, Finish, Goto, InFlight, InLoop
<1>2. StageFn' = [StageFn EXCEPT ![r] = result]
  BY DEF StageFn, StageOf, Finish, Goto, TypeOK
<1> QED
  BY <1>1, <1>2, EvidenceUnchanged DEF Lifecycle!Enter, StageFn, EvidenceFn

LEMMA RunLandsRefines ==
    ASSUME EvidenceInv, NEW r \in Requests, RunLands(r)
    PROVE  Lifecycle!Record(r, "run")
<1>1. /\ pc[r] = "run" /\ pc' = [pc EXCEPT ![r] = "run_ack"]
      /\ runRows' = runRows \cup pending[r]
      /\ UNCHANGED <<outcome, audits>>
  BY DEF RunLands, Committed, Goto
<1>2. StageFn' = StageFn /\ StageFn[r] = "running"
  BY <1>1, StageUnchanged DEF RunLands, EvidenceInv, InFlight, InLoop, StageFn, StageOf
<1>3. /\ pending[r] # {} /\ \A row \in pending[r] : row.req = r
      /\ EvidenceOf(r) = {}
  BY <1>1 DEF EvidenceInv, PendingIsOwn, EvidenceMatchesPc, Standing, EvidenceOf, Recorded
<1>4. EvidenceOf(r)' = {"run"}
  BY <1>1, <1>3 DEF EvidenceOf
<1>5. \A q \in Requests \ {r} : EvidenceOf(q)' = EvidenceOf(q)
  BY <1>1, <1>3 DEF EvidenceOf
<1>6. EvidenceFn' = [EvidenceFn EXCEPT ![r] = EvidenceFn[r] \cup {"run"}]
  BY <1>3, <1>4, <1>5 DEF EvidenceFn
<1> QED
  BY <1>2, <1>3, <1>6 DEF Lifecycle!Record, StageFn, EvidenceFn

LEMMA AuditLandsRefines ==
    ASSUME EvidenceInv, NEW r \in Requests, AuditLands(r)
    PROVE  \E e \in {"success", "denied"} : Lifecycle!Record(r, e)
<1>1. PICK verdict \in {"success", "denied"} :
         /\ pc[r] = verdict
         /\ pc' = [pc EXCEPT ![r] = IF verdict = "success" THEN "success_ack" ELSE "denied_ack"]
         /\ audits' = audits \cup {<<r, verdict>>}
         /\ UNCHANGED <<outcome, runRows>>
  BY DEF AuditLands, AuditRecord, Goto
<1>2. StageFn' = StageFn /\ StageFn[r] = "running"
  <2>1. \A q \in Requests : StageOf(q)' = StageOf(q)
    BY <1>1 DEF EvidenceInv, TypeOK, StageOf
  <2> QED
    BY <1>1, <2>1 DEF StageFn, StageOf
<1>3. /\ verdict \notin EvidenceOf(r)
      /\ verdict = "success" => EvidenceOf(r) = {"run"}
      /\ verdict = "denied" => "success" \notin EvidenceOf(r)
  BY <1>1 DEF EvidenceInv, EvidenceMatchesPc, Standing, EvidenceOf, Recorded
<1>4. \A q \in Requests : EvidenceOf(q)' = IF q = r THEN EvidenceOf(r) \cup {verdict}
                                                   ELSE EvidenceOf(q)
  BY <1>1 DEF EvidenceOf
<1>5. EvidenceFn' = [EvidenceFn EXCEPT ![r] = EvidenceFn[r] \cup {verdict}]
  BY <1>4 DEF EvidenceFn
<1>6. Lifecycle!Record(r, verdict)
  BY <1>2, <1>3, <1>5 DEF Lifecycle!Record, StageFn, EvidenceFn
<1> QED
  BY <1>6

LEMMA ContractStep ==
    ASSUME EvidenceInv, [Next]_vars
    PROVE  [Lifecycle!ContractNext]_(Lifecycle!contractVars)
<1> SUFFICES Lifecycle!ContractNext \/ (StageFn' = StageFn /\ EvidenceFn' = EvidenceFn)
  BY ContractVars DEF Lifecycle!contractVars, StageFn, EvidenceFn
<1> USE DEF loopVars, agentVars, storeVars
<1>0. TypeOK
  BY DEF EvidenceInv
<1>1. CASE UNCHANGED vars
  BY <1>1, EvidenceUnchanged DEF vars, StageFn, StageOf
<1>2. CASE Restart
  <2>1. StageFn' = [r \in Requests |-> IF StageFn[r] = "running" THEN "lost" ELSE StageFn[r]]
    <3>1. ASSUME NEW r \in Requests
          PROVE  StageOf(r)' = IF StageOf(r) = "running" THEN "lost" ELSE StageOf(r)
      <4>1. /\ pc'[r] = IF pc[r] \in InFlight THEN "done" ELSE pc[r]
            /\ outcome'[r] = IF pc[r] \in InFlight THEN "lost" ELSE outcome[r]
        BY <1>2 DEF Restart
      <4>2. pc[r] \in {"waiting", "done"} \cup InFlight /\ outcome[r] # "running"
        BY <1>0 DEF TypeOK, Outcomes
      <4> QED
        BY <4>1, <4>2 DEF StageOf, InFlight, InLoop
    <3> QED
      BY <3>1 DEF StageFn
  <2>2. EvidenceFn' = EvidenceFn
    BY <1>2, EvidenceUnchanged DEF Restart
  <2> QED
    BY <2>1, <2>2 DEF Lifecycle!ContractNext, Lifecycle!LoseAll, StageFn, EvidenceFn
<1>3. ASSUME NEW r \in Requests, Begin(r) \/ RejectInput(r)
      PROVE  Lifecycle!ContractNext
  <2>1. Lifecycle!Begin(r)
    BY <1>0, <1>3, BeginRefines DEF Begin, RejectInput, Reject
  <2> QED
    BY <2>1 DEF Lifecycle!ContractNext
<1>4. ASSUME NEW r \in Requests,
             \/ RejectOutput(r) \/ RejectComposed(r) \/ OrderTools(r) \/ RunTool(r)
             \/ RunLastTool(r) \/ RunToolAtLimit(r) \/ FinalResponse(r)
             \/ RunAcknowledged(r) \/ ComposeResponse(r)
      PROVE  StageFn' = StageFn /\ EvidenceFn' = EvidenceFn
  <2>1. UNCHANGED <<outcome, runRows, audits>>
    BY <1>4 DEF RejectOutput, RejectComposed, Reject, OrderTools, RunTool, RunLastTool,
       RunToolAtLimit, FinalResponse, LeaveLoop, RunAcknowledged, ComposeResponse
  <2>2. UNCHANGED pc \/ \E from \in InFlight, to \in InFlight : Goto(r, from, to)
    BY <1>4 DEF RejectOutput, RejectComposed, Reject, OrderTools, RunTool, RunLastTool,
       RunToolAtLimit, FinalResponse, LeaveLoop, RunAcknowledged, AfterRun,
       ComposeResponse, InFlight, InLoop
  <2>3. CASE UNCHANGED pc
    BY <2>1, <2>3 DEF StageFn, StageOf, EvidenceFn, EvidenceOf
  <2>4. CASE \E from \in InFlight, to \in InFlight : Goto(r, from, to)
    BY <1>0, <2>1, <2>4, StageUnchanged, EvidenceUnchanged
  <2> QED
    BY <2>2, <2>3, <2>4
<1>5. ASSUME NEW r \in Requests, RunLands(r) \/ AuditLands(r)
      PROVE  Lifecycle!ContractNext
  BY <1>5, RunLandsRefines, AuditLandsRefines DEF Lifecycle!ContractNext
<1>6. ASSUME NEW r \in Requests, Reply(r)
      PROVE  Lifecycle!ContractNext
  <2>1. Lifecycle!Enter(r, "running", "replied") /\ pc[r] = "success_ack"
    BY <1>0, <1>6, FinishRefines DEF Reply, Finish, Goto, InFlight
  <2>2. EvidenceFn[r] = {"run", "success"}
    BY <2>1 DEF EvidenceInv, EvidenceMatchesPc, Standing, Recorded, EvidenceFn, EvidenceOf
  <2> QED
    BY <2>1, <2>2 DEF Lifecycle!ContractNext, Lifecycle!Answer, EvidenceFn
<1>7. ASSUME NEW r \in Requests, Refuse(r)
      PROVE  Lifecycle!ContractNext
  <2>1. Lifecycle!Enter(r, "running", "denied") /\ pc[r] = "denied_ack"
    BY <1>0, <1>7, FinishRefines DEF Refuse, Finish, Goto, InFlight
  <2>2. "denied" \in EvidenceFn[r]
    BY <2>1 DEF EvidenceInv, EvidenceMatchesPc, Standing, EvidenceFn, EvidenceOf
  <2> QED
    BY <2>1, <2>2 DEF Lifecycle!ContractNext, Lifecycle!Deny, EvidenceFn
<1>8. ASSUME NEW r \in Requests, Fail(r)
      PROVE  Lifecycle!ContractNext
  <2>1. PICK from \in InFlight : Finish(r, from, "failed") /\ UNCHANGED <<runRows, audits>>
    BY <1>8 DEF Fail, MayRaise, InFlight, InLoop
  <2>2. Lifecycle!Enter(r, "running", "failed")
    BY <1>0, <2>1, FinishRefines
  <2> QED
    BY <2>2 DEF Lifecycle!ContractNext, Lifecycle!Fail
<1> QED
  BY <1>1, <1>2, <1>3, <1>4, <1>5, <1>6, <1>7, <1>8 DEF Next, Serve

(* The runtime implements RunLifecycle: no caller sees a reply or a        *)
(* refusal whose evidence is not durable, nor both verdicts on one request,*)
(* whatever fails or restarts in between (agent_service.py:53-95).         *)
THEOREM RuntimeKeepsContract == Spec => KeepsContract
<1>1. Init => Lifecycle!ContractInit
  BY DEF Init, Lifecycle!ContractInit, StageOf, EvidenceOf
<1>2. EvidenceInv /\ [Next]_vars => [Lifecycle!ContractNext]_(Lifecycle!contractVars)
  BY ContractStep
<1> QED
  BY <1>1, <1>2, EvidenceInvariant, PTL DEF Spec, KeepsContract, Lifecycle!Contract
-----------------------------------------------------------------------------
(* Every request comes to its end                                          *)

(* The most steps that are ahead of a request in the rounds that the limit *)
(* leaves it: a response and its tool calls in each.                       *)
RoundsAhead(r) == (MAX_TOOL_ROUNDS - rounds[r]) * (MaxCalls + 1)

Ahead(r) ==
    CASE pc[r] = "waiting"                     -> 7 + RoundsAhead(r)
      [] pc[r] = "llm"                         -> 6 + RoundsAhead(r)
      [] pc[r] = "tools"                       -> 6 + RoundsAhead(r) + calls[r]
      [] pc[r] = "run"                         -> 5
      [] pc[r] = "run_ack"                     -> 4
      [] pc[r] = "compose"                     -> 3
      [] pc[r] \in {"success", "denied"}       -> 2
      [] pc[r] \in {"success_ack", "denied_ack"} -> 1
      [] OTHER                                 -> 0

LEMMA AheadTypes ==
    ASSUME TypeOK, NEW r \in Requests
    PROVE  RoundsAhead(r) \in Nat /\ calls[r] \in 0..MaxCalls /\ Ahead(r) \in Nat
<1>1. rounds[r] \in 0..MAX_TOOL_ROUNDS /\ calls[r] \in 0..MaxCalls
  BY DEF TypeOK
<1>2. MAX_TOOL_ROUNDS - rounds[r] \in Nat /\ MaxCalls + 1 \in Nat
  BY <1>1
<1>3. RoundsAhead(r) \in Nat
  BY <1>2 DEF RoundsAhead
<1> QED
  BY <1>1, <1>3 DEF Ahead

(* A response opens a round, and there is one less ahead.                  *)
LEMMA RoundUsesUp ==
    ASSUME TypeOK, NEW r \in Requests, rounds[r] < MAX_TOOL_ROUNDS,
           rounds'[r] = rounds[r] + 1
    PROVE  RoundsAhead(r)' = RoundsAhead(r) - (MaxCalls + 1)
<1>0. rounds[r] \in Nat /\ MAX_TOOL_ROUNDS - rounds[r] - 1 \in Nat
  BY DEF TypeOK
<1>1. PICK n \in Nat : n = MAX_TOOL_ROUNDS - rounds[r] - 1
  BY <1>0
<1>2. MAX_TOOL_ROUNDS - rounds[r] = n + 1 /\ MAX_TOOL_ROUNDS - rounds'[r] = n
  BY <1>0, <1>1
<1>3. (n + 1) * (MaxCalls + 1) = n * (MaxCalls + 1) + (MaxCalls + 1)
  BY <1>1
<1>4. n * (MaxCalls + 1) \in Nat
  BY <1>1
<1> QED
  BY <1>2, <1>3, <1>4 DEF RoundsAhead

LEMMA StepUsesUp ==
    ASSUME TypeInv, NEW r \in Requests, Begin(r) \/ RejectInput(r) \/ Serve(r)
    PROVE  Ahead(r)' < Ahead(r) /\ \A q \in Requests \ {r} : Ahead(q)' = Ahead(q)
<1> USE DEF Goto, Finish
<1>1. /\ TypeOK /\ RoundLeft
      /\ RoundsAhead(r) \in Nat /\ calls[r] \in 0..MaxCalls
  BY AheadTypes DEF TypeInv
<1>2. \A q \in Requests \ {r} : Ahead(q)' = Ahead(q)
  <2> SUFFICES ASSUME NEW q \in Requests \ {r}
               PROVE  Ahead(q)' = Ahead(q)
    OBVIOUS
  <2>1. pc'[q] = pc[q] /\ rounds'[q] = rounds[q] /\ calls'[q] = calls[q]
    BY <1>1 DEF TypeOK, Begin, RejectInput, Serve, RejectOutput, RejectComposed, Reject, OrderTools,
       FinalResponse, LeaveLoop, RunTool, RunLastTool, RunToolAtLimit, RunLands, RunAcknowledged,
       ComposeResponse, AuditLands, Reply, Refuse, Fail, loopVars
  <2> QED
    BY <2>1 DEF Ahead, RoundsAhead
<1>3. CASE Begin(r)
  <2>1. pc[r] = "waiting" /\ pc'[r] = "llm" /\ UNCHANGED rounds
    BY <1>1, <1>3 DEF Begin, TypeOK
  <2> QED
    BY <1>1, <1>2, <2>1 DEF Ahead, RoundsAhead
<1>4. CASE OrderTools(r)
  <2>1. /\ pc[r] = "llm" /\ pc'[r] = "tools" /\ calls'[r] \in 1..MaxCalls
        /\ rounds'[r] = rounds[r] + 1 /\ rounds[r] < MAX_TOOL_ROUNDS
    BY <1>1, <1>4 DEF OrderTools, CountedRound, RoundLeft, RoundsLeft, TypeOK
  <2>2. RoundsAhead(r)' = RoundsAhead(r) - (MaxCalls + 1)
    BY <1>1, <2>1, RoundUsesUp
  <2>3. Ahead(r) = 6 + RoundsAhead(r) /\ Ahead(r)' = 6 + RoundsAhead(r)' + calls'[r]
    BY <2>1 DEF Ahead
  <2> QED
    BY <1>1, <1>2, <2>1, <2>2, <2>3
<1>5. CASE RunTool(r) \/ RunLastTool(r)
  <2>1. /\ pc[r] = "tools" /\ UNCHANGED rounds
        /\ \/ pc'[r] = "tools" /\ calls'[r] = calls[r] - 1
           \/ pc'[r] = "llm" /\ calls[r] = 1
    BY <1>1, <1>5 DEF RunTool, RunLastTool, TypeOK
  <2>2. RoundsAhead(r)' = RoundsAhead(r)
    BY <2>1 DEF RoundsAhead
  <2> QED
    BY <1>1, <1>2, <2>1, <2>2 DEF Ahead
<1>6. CASE RunToolAtLimit(r) \/ FinalResponse(r)
  <2>1. pc[r] \in {"llm", "tools"} /\ pc'[r] = "run"
    BY <1>1, <1>6 DEF RunToolAtLimit, FinalResponse, LeaveLoop, TypeOK
  <2> QED
    BY <1>1, <1>2, <2>1 DEF Ahead
<1>7. CASE RunLands(r) \/ RunAcknowledged(r) \/ ComposeResponse(r) \/ AuditLands(r)
  <2>1. \/ pc[r] = "run" /\ pc'[r] = "run_ack"
        \/ pc[r] = "run_ack" /\ pc'[r] \in {"compose", "success"}
        \/ pc[r] = "compose" /\ pc'[r] = "success"
        \/ pc[r] = "success" /\ pc'[r] = "success_ack"
        \/ pc[r] = "denied" /\ pc'[r] = "denied_ack"
    BY <1>1, <1>7 DEF RunLands, RunAcknowledged, AfterRun, ComposeResponse, AuditLands, TypeOK
  <2> QED
    BY <1>2, <2>1 DEF Ahead
<1>8. CASE RejectInput(r) \/ RejectOutput(r) \/ RejectComposed(r)
  <2>1. pc[r] \in {"waiting", "llm", "compose"} /\ pc'[r] = "denied"
    BY <1>1, <1>8 DEF RejectInput, RejectOutput, RejectComposed, Reject, TypeOK
  <2> QED
    BY <1>1, <1>2, <2>1 DEF Ahead
<1>9. CASE Reply(r) \/ Refuse(r) \/ Fail(r)
  <2>1. pc[r] \in MayRaise /\ pc'[r] = "done"
    BY <1>1, <1>9 DEF Reply, Refuse, Fail, MayRaise, TypeOK
  <2> QED
    BY <1>1, <1>2, <2>1 DEF Ahead, MayRaise
<1> QED
  BY <1>3, <1>4, <1>5, <1>6, <1>7, <1>8, <1>9 DEF Serve

(* Every step but a restart is one request's and uses up some of what is   *)
(* ahead of it, and a restart adds nothing to anyone's: whatever the model *)
(* orders and however requests interleave, their steps run out.            *)
THEOREM RequestsRunOut ==
    Spec =>
        /\ [](\A r \in Requests : Ahead(r) \in Nat)
        /\ [][\/ /\ crashes' > crashes
                 /\ \A r \in Requests : Ahead(r)' <= Ahead(r)
              \/ \E r \in Requests :
                    /\ Ahead(r)' < Ahead(r)
                    /\ \A q \in Requests \ {r} : Ahead(q)' = Ahead(q)]_vars
<1> DEFINE UsesUp == \/ /\ crashes' > crashes
                        /\ \A r \in Requests : Ahead(r)' <= Ahead(r)
                     \/ \E r \in Requests :
                           /\ Ahead(r)' < Ahead(r)
                           /\ \A q \in Requests \ {r} : Ahead(q)' = Ahead(q)
<1>1. TypeInv => \A r \in Requests : Ahead(r) \in Nat
  BY AheadTypes DEF TypeInv
<1>2. ASSUME TypeInv, Restart
      PROVE  crashes' > crashes /\ \A r \in Requests : Ahead(r)' <= Ahead(r)
  <2>1. crashes' > crashes
    BY <1>2 DEF Restart, TypeInv, TypeOK
  <2>2. ASSUME NEW r \in Requests
        PROVE  Ahead(r)' <= Ahead(r)
    <3>1. /\ TypeOK /\ RoundsAhead(r) \in Nat /\ calls[r] \in 0..MaxCalls
          /\ UNCHANGED <<rounds, calls>>
      BY <1>2, AheadTypes DEF Restart, TypeInv, loopVars
    <3>2. pc'[r] = "done" \/ pc'[r] = pc[r]
      BY <1>2 DEF Restart
    <3>3. RoundsAhead(r)' = RoundsAhead(r)
      BY <3>1 DEF RoundsAhead
    <3> QED
      BY <3>1, <3>2, <3>3 DEF Ahead
  <2> QED
    BY <2>1, <2>2
<1>3. TypeInv /\ [Next]_vars => [UsesUp]_vars
  BY <1>2, StepUsesUp DEF Next
<1> QED
  BY <1>1, <1>3, TypeInit, TypeStep, PTL DEF Spec
=============================================================================
