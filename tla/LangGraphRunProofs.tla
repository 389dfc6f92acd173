-------------------------- MODULE LangGraphRunProofs --------------------------
(***************************************************************************)
(* Proofs about LangGraphRun, and about GraphService around it, for any    *)
(* runs, threads, conversations and step limit.                            *)
(***************************************************************************)
EXTENDS GraphService, SequenceTheorems, TLAPS

USE DEF inputVars

-----------------------------------------------------------------------------
(* The inductive invariants                                                *)

(* The step limit is checked on the way into execute_tools.                *)
StepsInv == \A r \in Runs : pc[r] = "execute_tools" => state[r].steps < MAX_TOOL_ROUNDS

(* What is remembered of a conversation are turns of its own, of runs that *)
(* were through.                                                           *)
MemoryInv ==
    \A c \in Conversations : \A i \in DOMAIN memory[c] :
        conversation[memory[c][i]] = c /\ pending[memory[c][i]] # {}

(* A run alone on its thread has left nothing but its own and what it may  *)
(* remember in the channels and in the checkpoint that it would be resumed *)
(* from.                                                                   *)
Alone(r) == \A q \in Runs \ {r} : thread[q] # thread[r]

Recalls(r, q) == Remembers(r) /\ conversation[q] = conversation[r] /\ pending[q] # {}

Own(r, channels) ==
    /\ \A q \in channels.messages \ {r} : Recalls(r, q)
    /\ \A order \in channels.pendingToolCalls \cup channels.usedTools : order[1] = r

IsolatedInv == \A r \in Runs : Alone(r) => Own(r, state[r]) /\ Own(r, saved[thread[r]])

(* Up to finalize nothing is remembered; from there on the turn is, with   *)
(* the row to be written, and past its commit the run is the supervisor's. *)
Early == {"waiting", "route", "call_llm", "execute_tools", "finalize"}
Late  == {"persist", "compose", "persist_composed"}

KeptOf(r) ==
    /\ outcome[r] # "none" => pc[r] = "done"
    /\ pc[r] \in Early => r \notin Remembered
    /\ pc[r] \in Late =>
          /\ r \in Remembered <=> Remembers(r)
          /\ pending[r] # {}
          /\ \A row \in pending[r] : row.run = r /\ row.tools = state[r].usedTools
    /\ pc[r] \in {"compose", "persist_composed"} => delegated[r] /\ pending[r] \subseteq runRows
    /\ r \in supervisorMemory => delegated[r] /\ Remembers(r)

KeptInv == OnlyFinishedRunsAreKept /\ \A r \in Runs : KeptOf(r)

IInv == TypeOK /\ StepsInv /\ MemoryInv /\ IsolatedInv /\ KeptInv

-----------------------------------------------------------------------------
(* The memory                                                              *)

(* The newest elements are elements.                                       *)
LEMMA NewestElements ==
    ASSUME NEW S, NEW s \in Seq(S), NEW n \in Nat \ {0}
    PROVE  \A i \in DOMAIN Newest(s, n) : \E j \in DOMAIN s : Newest(s, n)[i] = s[j]
<1> DEFINE first == IF Len(s) > n THEN Len(s) - n + 1 ELSE 1
<1>1. Len(s) \in Nat /\ DOMAIN s = 1..Len(s) /\ first \in 1..(Len(s) + 1)
  BY LenProperties
<1>2. Newest(s, n) = SubSeq(s, first, Len(s))
  BY DEF Newest
<1> HIDE DEF first
<1>3. \A i \in first..Len(s) : s[i] \in S
  BY <1>1, ElementOfSeq
<1>4. first \in Int /\ Len(s) \in Int
  BY <1>1
<1>5. /\ SubSeq(s, first, Len(s)) \in Seq(S)
      /\ Len(SubSeq(s, first, Len(s))) = IF first <= Len(s) THEN Len(s) - first + 1 ELSE 0
      /\ \A i \in 1..(Len(s) - first + 1) : SubSeq(s, first, Len(s))[i] = s[first + i - 1]
  BY <1>3, <1>4, SubSeqProperties
<1>6. DOMAIN Newest(s, n) = 1..Len(Newest(s, n))
  BY <1>2, <1>5, LenProperties
<1> SUFFICES ASSUME NEW i \in DOMAIN Newest(s, n)
             PROVE  \E j \in DOMAIN s : Newest(s, n)[i] = s[j]
  OBVIOUS
<1>7. i \in 1..(Len(s) - first + 1) /\ first + i - 1 \in DOMAIN s
  BY <1>1, <1>2, <1>5, <1>6
<1> QED
  BY <1>2, <1>5, <1>7

(* What a run is handed of the memory is of its conversation, and through. *)
LEMMA ShortTermIsOwn ==
    ASSUME TypeOK, MemoryInv, NEW r \in Runs
    PROVE  ShortTerm(r) \subseteq Runs /\ \A q \in ShortTerm(r) : Recalls(r, q)
<1>1. CASE ~Remembers(r)
  BY <1>1 DEF ShortTerm
<1>2. CASE Remembers(r)
  <2> DEFINE c == conversation[r]
             turns == Newest(memory[c], ReadTurns)
  <2>1. c \in Conversations /\ memory[c] \in Seq(Runs) /\ ReadTurns \in Nat \ {0}
    BY <1>2, GraphAssumption DEF TypeOK, Remembers
  <2>2. \A i \in DOMAIN turns : \E j \in DOMAIN memory[c] : turns[i] = memory[c][j]
    BY <2>1, NewestElements
  <2>3. \A j \in DOMAIN memory[c] : memory[c][j] \in Runs
    BY <2>1, ElementOfSeq, LenProperties
  <2>4. \A j \in DOMAIN memory[c] : Recalls(r, memory[c][j])
    BY <1>2, <2>1 DEF MemoryInv, Recalls
  <2>5. ShortTerm(r) = {turns[i] : i \in DOMAIN turns}
    BY <1>2 DEF ShortTerm
  <2> HIDE DEF c, turns
  <2> QED
    BY <2>2, <2>3, <2>4, <2>5
<1> QED
  BY <1>1, <1>2

(* append adds a turn to the conversation of its run, if to any.           *)
LEMMA RememberingAdds ==
    ASSUME TypeOK, MemoryInv, NEW r \in Runs, Remembering(r), UNCHANGED inputVars,
           pending'[r] # {}, \A q \in Runs : pending[q] # {} => pending'[q] # {}
    PROVE  /\ memory' \in [Conversations -> Seq(Runs)]
           /\ MemoryInv'
           /\ \A q \in Runs : q \in Remembered' <=> q \in Remembered \/ (q = r /\ Remembers(r))
<1>0. \A c \in Conversations : \A i \in DOMAIN memory[c] : memory[c][i] \in Runs
  BY ElementOfSeq, LenProperties DEF TypeOK
<1>1. CASE ~Remembers(r)
  <2>1. memory' = memory
    BY <1>1 DEF Remembering
  <2>2. MemoryInv'
    BY <1>0, <2>1 DEF MemoryInv
  <2> QED
    BY <1>1, <2>1, <2>2 DEF TypeOK, Remembered
<1>2. CASE Remembers(r)
  <2> DEFINE d == conversation[r]
             old == memory[d]
             new == Append(old, r)
  <2>1. /\ d \in Conversations /\ old \in Seq(Runs)
        /\ memory \in [Conversations -> Seq(Runs)]
        /\ memory' = [memory EXCEPT ![d] = new]
    BY <1>2 DEF TypeOK, Remembers, Remembering
  <2>2. /\ new \in Seq(Runs)
        /\ DOMAIN new = 1..(Len(old) + 1) /\ DOMAIN old = 1..Len(old) /\ Len(old) \in Nat
        /\ new[Len(old) + 1] = r /\ \A i \in 1..Len(old) : new[i] = old[i]
    <3>1. old \in Seq(Runs)
      BY <2>1
    <3> HIDE DEF old
    <3> QED
      BY <3>1, AppendProperties, LenProperties
  <2>3. /\ memory' \in [Conversations -> Seq(Runs)]
        /\ memory'[d] = new /\ \A c \in Conversations \ {d} : memory'[c] = memory[c]
    BY <2>1, <2>2
  <2>4. \A i \in DOMAIN new : new[i] = r \/ \E j \in DOMAIN old : new[i] = old[j]
    BY <2>2
  <2>5. MemoryInv'
    <3> SUFFICES ASSUME NEW c \in Conversations, NEW i \in DOMAIN memory'[c]
                 PROVE  conversation[memory'[c][i]] = c /\ pending'[memory'[c][i]] # {}
      BY DEF MemoryInv
    <3>1. \/ c = d /\ memory'[c][i] = r
          \/ \E j \in DOMAIN memory[c] : memory'[c][i] = memory[c][j]
      <4>1. old = memory[d]
        OBVIOUS
      <4> HIDE DEF new, old, d
      <4> QED
        BY <2>3, <2>4, <4>1
    <3>2. conversation[r] = d /\ UNCHANGED conversation
      OBVIOUS
    <3> HIDE DEF new, old, d
    <3> QED
      BY <1>0, <3>1, <3>2 DEF MemoryInv
  <2>6. ASSUME NEW q \in Runs
        PROVE  q \in Remembered' <=> q \in Remembered \/ q = r
    <3>1. \E i \in DOMAIN new : new[i] = r
      BY <2>2
    <3>2. \A j \in DOMAIN old : \E i \in DOMAIN new : new[i] = old[j]
      BY <2>2
    <3> HIDE DEF new, old, d
    <3>3. old = memory[d]
      BY DEF old
    <3> QED
      BY <2>1, <2>3, <2>4, <3>1, <3>2, <3>3 DEF Remembered
  <2> QED
    BY <1>2, <2>3, <2>5, <2>6
<1> QED
  BY <1>1, <1>2

-----------------------------------------------------------------------------
(* Steps of one kind                                                       *)

(* A node that ends: its channels become the run's and its thread's.       *)
LEMMA CheckpointIsolates ==
    ASSUME TypeOK, IsolatedInv, NEW r \in Runs, NEW channels \in Channels,
           Alone(r) => Own(r, channels), Checkpoint(r, channels), UNCHANGED <<inputVars, pending>>
    PROVE  state' \in [Runs -> Channels] /\ saved' \in [Threads -> Channels] /\ IsolatedInv'
<1>1. /\ state' = [state EXCEPT ![r] = channels] /\ saved' = [saved EXCEPT ![thread[r]] = channels]
      /\ state \in [Runs -> Channels] /\ saved \in [Threads -> Channels]
      /\ thread \in [Runs -> Threads]
  BY DEF Checkpoint, ThreadId, TypeOK
<1>2. state' \in [Runs -> Channels] /\ saved' \in [Threads -> Channels]
  BY <1>1
<1>3. ASSUME NEW q \in Runs, Alone(q)
      PROVE  Own(q, state'[q]) /\ Own(q, saved'[thread[q]])
  <2>1. CASE q = r
    BY <1>1, <1>3, <2>1 DEF Own
  <2>2. CASE q # r
    <3>1. thread[q] # thread[r]
      BY <1>3, <2>2 DEF Alone
    <3>2. state'[q] = state[q] /\ saved'[thread[q]] = saved[thread[q]]
      BY <1>1, <2>2, <3>1
    <3> QED
      BY <1>3, <3>2 DEF IsolatedInv
  <2> QED
    BY <2>1, <2>2
<1>4. IsolatedInv'
  <2>1. \A q, p \in Runs : Recalls(q, p)' <=> Recalls(q, p)
    BY DEF Recalls, Remembers
  <2> SUFFICES ASSUME NEW q \in Runs, Alone(q)
               PROVE  Own(q, state[q])' /\ Own(q, saved[thread[q]])'
    BY DEF IsolatedInv, Alone
  <2>2. /\ Own(q, state'[q]) /\ Own(q, saved'[thread[q]])
        /\ state'[q] \in Channels /\ saved'[thread[q]] \in Channels
    BY <1>1, <1>2, <1>3
  <2> QED
    BY <2>1, <2>2 DEF Own, Channels
<1> QED
  BY <1>2, <1>4

(* A step of one run short of its finalize, whatever its node changes.     *)
LEMMA EarlyStepKeeps ==
    ASSUME TypeOK, KeptInv, NEW r \in Runs, NEW node \in Early, pc[r] \in Early,
           pc' = [pc EXCEPT ![r] = node], \A q \in Runs \ {r} : state'[q] = state[q],
           UNCHANGED <<inputVars, outcome, memory, pending, runRows, supervisorVars>>
    PROVE  KeptInv'
<1>0. Remembered' = Remembered /\ \A q \in Runs : Remembers(q)' <=> Remembers(q)
  BY DEF Remembered, Remembers
<1>1. OnlyFinishedRunsAreKept'
  BY <1>0 DEF KeptInv, OnlyFinishedRunsAreKept, supervisorVars
<1>2. KeptOf(r)'
  BY <1>0 DEF KeptInv, KeptOf, TypeOK, Early, Late, supervisorVars
<1>3. ASSUME NEW q \in Runs \ {r}
      PROVE  KeptOf(q)'
  <2>1. pc'[q] = pc[q] /\ state'[q] = state[q] /\ KeptOf(q)
    BY DEF KeptInv, TypeOK
  <2> QED
    BY <1>0, <2>1 DEF KeptOf, supervisorVars
<1> QED
  BY <1>1, <1>2, <1>3 DEF KeptInv

(* A step that leaves the memory, the input and what is pending alone.     *)
LEMMA StillMemory ==
    ASSUME MemoryInv, UNCHANGED <<inputVars, memory, pending>>
    PROVE  /\ MemoryInv' /\ Remembered' = Remembered
           /\ \A q \in Runs : Remembers(q)' <=> Remembers(q)
BY DEF MemoryInv, Remembered, Remembers

(* A step that leaves the channels and the checkpoints alone, and enters   *)
(* no execute_tools.                                                       *)
LEMMA StillChannels ==
    ASSUME TypeOK, StepsInv, IsolatedInv, UNCHANGED <<inputVars, state, saved>>,
           \A q \in Runs : pending[q] # {} => pending'[q] # {},
           NEW r \in Runs, NEW node, node # "execute_tools", pc' = [pc EXCEPT ![r] = node]
    PROVE  StepsInv' /\ IsolatedInv'
<1>1. IsolatedInv'
  <2> SUFFICES ASSUME NEW q \in Runs, Alone(q)
               PROVE  Own(q, state[q])' /\ Own(q, saved[thread[q]])'
    BY DEF IsolatedInv, Alone
  <2>1. /\ state[q] \in Channels /\ saved[thread[q]] \in Channels
        /\ Own(q, state[q]) /\ Own(q, saved[thread[q]])
    BY DEF TypeOK, IsolatedInv
  <2>2. ASSUME NEW p \in Runs, Recalls(q, p)
        PROVE  Recalls(q, p)'
    BY <2>2 DEF Recalls, Remembers
  <2> QED
    BY <2>1, <2>2 DEF Own, Channels
<1>2. \A q \in Runs : pc'[q] = "execute_tools" => pc[q] = "execute_tools"
  BY DEF TypeOK
<1> QED
  BY <1>1, <1>2 DEF StepsInv

-----------------------------------------------------------------------------
(* The steps                                                               *)

LEMMA InitEstablishes == Init => IInv
<1> SUFFICES ASSUME Init PROVE IInv
  OBVIOUS
<1>1. Blank \in Channels
  BY GraphAssumption DEF Blank, Channels
<1>2. TypeOK
  BY <1>1 DEF Init, TypeOK
<1>3. StepsInv /\ IsolatedInv
  BY DEF Init, StepsInv, IsolatedInv, Own, Blank
<1>5. MemoryInv /\ Remembered = {}
  BY DEF Init, MemoryInv, Remembered
<1>4. KeptInv
  BY <1>5 DEF Init, KeptInv, KeptOf, OnlyFinishedRunsAreKept, Early, Late
<1> QED
  BY <1>2, <1>3, <1>4, <1>5 DEF IInv

LEMMA StartKeeps ==
    ASSUME IInv, NEW r \in Runs, NEW from \in {"waiting", "route"}, StartSpecialist(r, from)
    PROVE  IInv'
<1>1. /\ TypeOK /\ StepsInv /\ MemoryInv /\ IsolatedInv /\ KeptInv
      /\ pc[r] \in Early /\ pc' = [pc EXCEPT ![r] = "call_llm"] /\ Checkpoint(r, Merged(r))
      /\ UNCHANGED <<inputVars, outcome, lastUsage, memory, pending, runRows,
                     supervisorVars>>
  BY DEF IInv, StartSpecialist, Early
<1>2. saved[thread[r]] \in Channels
  BY <1>1 DEF TypeOK
<1>3. /\ Merged(r) \in Channels
      /\ Alone(r) => Own(r, Merged(r))
  <2> DEFINE channels == saved[thread[r]]
  <2>1. Merged(r) = [channels EXCEPT !.messages = channels.messages \cup ShortTerm(r) \cup {r},
                                        !.steps = 0]
    BY DEF Merged, ThreadId
  <2>2. channels \in Channels /\ (Alone(r) => Own(r, channels))
    BY <1>1, <1>2 DEF IsolatedInv
  <2> HIDE DEF channels
  <2>3. Merged(r) \in Channels
    <3>1. 0 \in 0..MAX_TOOL_ROUNDS
      BY GraphAssumption
    <3>2. channels.messages \cup ShortTerm(r) \cup {r} \in SUBSET Runs
      BY <1>1, <2>2, ShortTermIsOwn DEF Channels
    <3> QED
      BY <2>1, <2>2, <3>1, <3>2 DEF Channels
  <2>4. /\ Merged(r).messages = channels.messages \cup ShortTerm(r) \cup {r}
        /\ Merged(r).pendingToolCalls = channels.pendingToolCalls
        /\ Merged(r).usedTools = channels.usedTools
    BY <2>1, <2>2 DEF Channels
  <2> QED
    BY <1>1, <2>2, <2>3, <2>4, ShortTermIsOwn DEF Own
<1>4. state' \in [Runs -> Channels] /\ saved' \in [Threads -> Channels] /\ IsolatedInv'
  BY <1>1, <1>3, CheckpointIsolates
<1>5. TypeOK'
  BY <1>1, <1>4 DEF TypeOK, supervisorVars
<1>6. \A q \in Runs \ {r} : state'[q] = state[q]
  BY <1>1 DEF Checkpoint, TypeOK
<1>7. StepsInv'
  BY <1>1, <1>6 DEF StepsInv, TypeOK
<1>8. KeptInv'
  BY <1>1, <1>6, EarlyStepKeeps DEF Early
<1>20. MemoryInv' /\ Remembered' = Remembered /\ \A q \in Runs : Remembers(q)' <=> Remembers(q)
  BY <1>1, StillMemory
<1> QED
  BY <1>20, <1>4, <1>5, <1>7, <1>8 DEF IInv

LEMMA InvokeSupervisorKeeps ==
    ASSUME IInv, NEW r \in Runs, InvokeSupervisor(r)
    PROVE  IInv'
<1>1. /\ TypeOK /\ StepsInv /\ MemoryInv /\ IsolatedInv /\ KeptInv
      /\ pc[r] \in Early /\ pc' = [pc EXCEPT ![r] = "route"]
      /\ UNCHANGED <<inputVars, outcome, state, saved, lastUsage, memory, pending,
                     runRows, supervisorVars>>
  BY DEF IInv, InvokeSupervisor, Early
<1>20. MemoryInv' /\ Remembered' = Remembered /\ \A q \in Runs : Remembers(q)' <=> Remembers(q)
  BY <1>1, StillMemory
<1>2. TypeOK'
  BY <1>1 DEF TypeOK, supervisorVars
<1>3. StepsInv' /\ IsolatedInv'
  BY <1>1, StillChannels
<1>4. KeptInv'
  BY <1>1, EarlyStepKeeps DEF Early
<1> QED
  BY <1>20, <1>2, <1>3, <1>4 DEF IInv

LEMMA RespondKeeps ==
    ASSUME IInv, NEW r \in Runs, Respond(r)
    PROVE  IInv'
<1>1. /\ TypeOK /\ StepsInv /\ MemoryInv /\ IsolatedInv /\ KeptInv /\ pc[r] \in Early /\ lastUsage' = r
      /\ UNCHANGED <<inputVars, outcome, memory, pending, runRows, supervisorVars>>
  BY DEF IInv, Respond, Early
<1>20. MemoryInv' /\ Remembered' = Remembered /\ \A q \in Runs : Remembers(q)' <=> Remembers(q)
  BY <1>1, StillMemory
<1>2. PICK ordersTools \in BOOLEAN :
         /\ Checkpoint(r, AfterResponse(r, ordersTools))
         /\ pc' = [pc EXCEPT ![r] = Route(AfterResponse(r, ordersTools))]
  BY DEF Respond
<1> DEFINE channels == AfterResponse(r, ordersTools)
<1>3. state[r] \in Channels
  BY <1>1 DEF TypeOK
<1>4. <<r, state[r].steps>> \in Orders
  BY <1>3 DEF Channels, Orders
<1>5. channels \in Channels
  BY <1>3, <1>4 DEF AfterResponse, Channels
<1>6. Alone(r) => Own(r, channels)
  BY <1>1, <1>3 DEF AfterResponse, IsolatedInv, Own, Channels
<1>7. /\ Route(channels) \in Early \cap {"execute_tools", "finalize"}
      /\ Route(channels) = "execute_tools" => channels.steps < MAX_TOOL_ROUNDS
  BY DEF Route, Early
<1> HIDE DEF channels
<1>8. Checkpoint(r, channels) /\ pc' = [pc EXCEPT ![r] = Route(channels)]
  BY <1>2 DEF channels
<1>9. state' \in [Runs -> Channels] /\ saved' \in [Threads -> Channels] /\ IsolatedInv'
  BY <1>1, <1>5, <1>6, <1>8, CheckpointIsolates
<1>10. TypeOK'
  BY <1>1, <1>7, <1>8, <1>9 DEF TypeOK, supervisorVars
<1>11. state'[r] = channels /\ \A q \in Runs \ {r} : state'[q] = state[q]
  BY <1>1, <1>8 DEF Checkpoint, TypeOK
<1>12. StepsInv'
  BY <1>1, <1>7, <1>8, <1>11 DEF StepsInv, TypeOK
<1>13. KeptInv'
  BY <1>1, <1>7, <1>8, <1>11, EarlyStepKeeps
<1> QED
  BY <1>20, <1>9, <1>10, <1>12, <1>13 DEF IInv

LEMMA ExecuteToolsKeeps ==
    ASSUME IInv, NEW r \in Runs, ExecuteTools(r)
    PROVE  IInv'
<1>1. /\ TypeOK /\ StepsInv /\ MemoryInv /\ IsolatedInv /\ KeptInv
      /\ pc[r] = "execute_tools" /\ pc' = [pc EXCEPT ![r] = "call_llm"]
      /\ UNCHANGED <<inputVars, outcome, lastUsage, memory, pending, runRows,
                     supervisorVars>>
  BY DEF IInv, ExecuteTools
<1> DEFINE channels(order) ==
        [state[r] EXCEPT !.usedTools = @ \cup {order},
                         !.repeated = @ \cup (state[r].usedTools \cap {order}),
                         !.steps = CountedStep(@)]
<1>20. MemoryInv' /\ Remembered' = Remembered /\ \A q \in Runs : Remembers(q)' <=> Remembers(q)
  BY <1>1, StillMemory
<1>2. PICK order \in state[r].pendingToolCalls : Checkpoint(r, channels(order))
  BY DEF ExecuteTools
<1>3. state[r] \in Channels /\ state[r].steps < MAX_TOOL_ROUNDS
  BY <1>1 DEF TypeOK, StepsInv
<1>4. order \in Orders /\ state[r].steps + 1 \in 0..MAX_TOOL_ROUNDS
  BY <1>3, GraphAssumption DEF Channels
<1>5. channels(order) \in Channels
  BY <1>3, <1>4 DEF CountedStep, Channels
<1>6. Alone(r) => Own(r, channels(order))
  BY <1>1, <1>3 DEF IsolatedInv, Own, Channels
<1> HIDE DEF channels
<1>7. state' \in [Runs -> Channels] /\ saved' \in [Threads -> Channels] /\ IsolatedInv'
  BY <1>1, <1>2, <1>5, <1>6, CheckpointIsolates
<1>8. TypeOK'
  BY <1>1, <1>7 DEF TypeOK, supervisorVars
<1>9. \A q \in Runs \ {r} : state'[q] = state[q]
  BY <1>1, <1>2 DEF Checkpoint, TypeOK
<1>10. StepsInv'
  BY <1>1, <1>9 DEF StepsInv, TypeOK
<1>11. KeptInv'
  BY <1>1, <1>9, EarlyStepKeeps DEF Early
<1> QED
  BY <1>20, <1>7, <1>8, <1>10, <1>11 DEF IInv

(* A graph that a node breaks off: what the run ends as fits the node.     *)
LEMMA BreakKeeps ==
    ASSUME IInv, NEW r \in Runs, Reject(r) \/ LLMFails(r) \/ ToolRaises(r)
    PROVE  IInv'
<1>1. /\ TypeOK /\ StepsInv /\ MemoryInv /\ IsolatedInv /\ KeptInv
      /\ UNCHANGED <<inputVars, state, saved, lastUsage, memory, pending, runRows,
                     supervisorVars>>
  BY DEF IInv, Reject, NotRemembering, LLMFails, ToolRaises
<1>20. MemoryInv' /\ Remembered' = Remembered /\ \A q \in Runs : Remembers(q)' <=> Remembers(q)
  BY <1>1, StillMemory
<1>2. /\ pc' = [pc EXCEPT ![r] = "done"]
      /\ \E result \in {"rejected", "failed", "tool_error"} :
            /\ outcome' = [outcome EXCEPT ![r] = result]
            /\ result = "tool_error" => pc[r] \in Early
            /\ result = "rejected" => pc[r] \in Early \cup {"compose"}
  BY DEF Reject, LLMFails, ToolRaises, End, Early
<1>3. TypeOK'
  BY <1>1, <1>2 DEF TypeOK, supervisorVars
<1>4. StepsInv' /\ IsolatedInv'
  BY <1>1, <1>2, StillChannels
<1>5. \A q \in Runs : KeptOf(q)'
  BY <1>1, <1>2, <1>20 DEF KeptInv, KeptOf, TypeOK, Early, Late, supervisorVars
<1>6. OnlyFinishedRunsAreKept'
  BY <1>1, <1>2, <1>20 DEF KeptInv, KeptOf, OnlyFinishedRunsAreKept, TypeOK, Early, supervisorVars
<1> QED
  BY <1>20, <1>3, <1>4, <1>5, <1>6 DEF IInv, KeptInv

LEMMA FinalizeKeeps ==
    ASSUME IInv, NEW r \in Runs, Finalize(r)
    PROVE  IInv'
<1> DEFINE row == [run |-> r, usage |-> lastUsage, tools |-> state[r].usedTools]
<1>1. /\ TypeOK /\ StepsInv /\ MemoryInv /\ IsolatedInv /\ KeptInv
      /\ pc[r] = "finalize" /\ pc' = [pc EXCEPT ![r] = "persist"]
      /\ Remembering(r) /\ pending' = [pending EXCEPT ![r] = {row}]
      /\ UNCHANGED <<inputVars, outcome, state, saved, lastUsage, runRows,
                     supervisorVars>>
  BY DEF IInv, Finalize
<1>2. row \in Rows /\ row.run = r /\ row.tools = state[r].usedTools
  BY <1>1 DEF TypeOK, Rows, Channels
<1> HIDE DEF row
<1>8. pending'[r] = {row} /\ \A q \in Runs \ {r} : pending'[q] = pending[q]
  BY <1>1 DEF TypeOK
<1>9. /\ memory' \in [Conversations -> Seq(Runs)] /\ MemoryInv'
      /\ \A q \in Runs : q \in Remembered' <=> q \in Remembered \/ (q = r /\ Remembers(r))
      /\ \A q \in Runs : Remembers(q)' <=> Remembers(q)
  <2>1. pending'[r] # {} /\ \A q \in Runs : pending[q] # {} => pending'[q] # {}
    BY <1>8
  <2> QED
    BY <1>1, <2>1, RememberingAdds DEF Remembers
<1>3. TypeOK'
  BY <1>1, <1>2, <1>9 DEF TypeOK, supervisorVars
<1>4. StepsInv' /\ IsolatedInv'
  BY <1>1, <1>8, StillChannels
<1>5. \A q \in Runs : KeptOf(q)'
  BY <1>1, <1>2, <1>8, <1>9 DEF KeptInv, KeptOf, TypeOK, Early, Late, supervisorVars
<1>6. outcome[r] = "none"
  BY <1>1 DEF KeptInv, KeptOf
<1>7. OnlyFinishedRunsAreKept'
  BY <1>1, <1>6, <1>8, <1>9 DEF KeptInv, OnlyFinishedRunsAreKept, TypeOK, supervisorVars
<1> QED
  BY <1>3, <1>4, <1>5, <1>7, <1>9 DEF IInv, KeptInv

LEMMA PersistKeeps ==
    ASSUME IInv, NEW r \in Runs, Persist(r) \/ PersistFails(r)
    PROVE  IInv'
<1>1. /\ TypeOK /\ StepsInv /\ MemoryInv /\ IsolatedInv /\ KeptInv
      /\ pc[r] = "persist"
      /\ runRows' \in {runRows, runRows \cup pending[r]}
      /\ UNCHANGED <<inputVars, state, saved, lastUsage, memory, pending, supervisorVars>>
  BY DEF IInv, Persist, PersistFails, End, RunRow
<1>20. MemoryInv' /\ Remembered' = Remembered /\ \A q \in Runs : Remembers(q)' <=> Remembers(q)
  BY <1>1, StillMemory
<1>2. \/ /\ pc' = [pc EXCEPT ![r] = "done"] /\ outcome' = [outcome EXCEPT ![r] = "returned"]
         /\ ~delegated[r] /\ pending[r] \subseteq runRows'
      \/ /\ pc' = [pc EXCEPT ![r] = "compose"] /\ outcome' = outcome
         /\ delegated[r] /\ pending[r] \subseteq runRows'
      \/ pc' = [pc EXCEPT ![r] = "done"] /\ outcome' = [outcome EXCEPT ![r] = "failed"]
  BY DEF Persist, PersistFails, End, RunRow
<1>3. \E node \in {"done", "compose"} : pc' = [pc EXCEPT ![r] = node]
  BY <1>2
<1>4. TypeOK'
  BY <1>1, <1>2 DEF TypeOK, supervisorVars
<1>5. StepsInv' /\ IsolatedInv'
  BY <1>1, <1>3, StillChannels
<1>6. \A q \in Runs : KeptOf(q)'
  BY <1>1, <1>2, <1>20 DEF KeptInv, KeptOf, TypeOK, Early, Late, supervisorVars
<1>7. /\ r \in Remembered <=> Remembers(r)
      /\ r \in supervisorMemory => delegated[r] /\ Remembers(r)
      /\ pending[r] # {} /\ \A row \in pending[r] : row.run = r
  BY <1>1 DEF KeptInv, KeptOf, OnlyFinishedRunsAreKept, Late
<1>8. OnlyFinishedRunsAreKept'
  <2>1. \A q \in Runs \ {r} : outcome'[q] = outcome[q]
    BY <1>1, <1>2 DEF TypeOK
  <2>2. outcome'[r] \in {"none", "failed", "returned"}
    BY <1>1, <1>2 DEF TypeOK, KeptInv, KeptOf
  <2>3. outcome'[r] = "returned" => ~delegated[r] /\ pending[r] \subseteq runRows'
    BY <1>1, <1>2 DEF TypeOK, KeptInv, KeptOf
  <2> QED
    BY <1>1, <1>7, <1>20, <2>1, <2>2, <2>3 DEF KeptInv, OnlyFinishedRunsAreKept, supervisorVars
<1> QED
  BY <1>20, <1>4, <1>5, <1>6, <1>8 DEF IInv, KeptInv

LEMMA ComposeKeeps ==
    ASSUME IInv, NEW r \in Runs, Compose(r)
    PROVE  IInv'
<1>1. /\ TypeOK /\ StepsInv /\ MemoryInv /\ IsolatedInv /\ KeptInv
      /\ pc[r] = "compose" /\ pc' = [pc EXCEPT ![r] = "persist_composed"]
      /\ UNCHANGED <<inputVars, outcome, state, saved, lastUsage, memory, pending, runRows,
                     supervisorVars>>
  BY DEF IInv, Compose
<1>20. MemoryInv' /\ Remembered' = Remembered /\ \A q \in Runs : Remembers(q)' <=> Remembers(q)
  BY <1>1, StillMemory
<1>2. TypeOK'
  BY <1>1 DEF TypeOK, supervisorVars
<1>3. StepsInv' /\ IsolatedInv'
  BY <1>1, StillChannels
<1>4. KeptInv'
  BY <1>1, <1>20 DEF KeptInv, KeptOf, OnlyFinishedRunsAreKept, TypeOK, Early, Late, supervisorVars
<1> QED
  BY <1>20, <1>2, <1>3, <1>4 DEF IInv

LEMMA PersistComposedKeeps ==
    ASSUME IInv, NEW r \in Runs, PersistComposed(r) \/ PersistComposedFails(r)
    PROVE  IInv'
<1>1. /\ TypeOK /\ StepsInv /\ MemoryInv /\ IsolatedInv /\ KeptInv
      /\ pc[r] = "persist_composed" /\ pc' = [pc EXCEPT ![r] = "done"]
      /\ UNCHANGED <<inputVars, state, saved, lastUsage, memory, pending, runRows>>
  BY DEF IInv, PersistComposed, PersistComposedFails, End
<1>20. MemoryInv' /\ Remembered' = Remembered /\ \A q \in Runs : Remembers(q)' <=> Remembers(q)
  BY <1>1, StillMemory
<1>2. \/ /\ outcome' = [outcome EXCEPT ![r] = "returned"]
         /\ supervisorRows' = supervisorRows \cup {ComposedRow(r)}
         /\ supervisorMemory' = supervisorMemory \cup {q \in {r} : Remembers(q)}
      \/ /\ outcome' = [outcome EXCEPT ![r] = "failed"]
         /\ supervisorRows' \in {supervisorRows, supervisorRows \cup {ComposedRow(r)}}
         /\ supervisorMemory' = supervisorMemory
  BY DEF PersistComposed, PersistComposedFails, End
<1>3. ComposedRow(r) \in SupervisorRows /\ ComposedRow(r).run = r
      /\ ComposedRow(r).tools = state[r].usedTools
  BY <1>1 DEF ComposedRow, SupervisorRows, TypeOK, Channels
<1>4. TypeOK'
  BY <1>1, <1>2, <1>3 DEF TypeOK
<1>5. StepsInv' /\ IsolatedInv'
  BY <1>1, StillChannels
<1>6. /\ r \in Remembered <=> Remembers(r)
      /\ delegated[r] /\ pending[r] # {} /\ pending[r] \subseteq runRows
      /\ \A row \in pending[r] : row.run = r /\ row.tools = state[r].usedTools
  BY <1>1 DEF KeptInv, KeptOf, OnlyFinishedRunsAreKept, Late
<1>7. \A q \in Runs : KeptOf(q)'
  BY <1>1, <1>2, <1>6, <1>20 DEF KeptInv, KeptOf, TypeOK, Early, Late
<1>8. PICK own \in runRows : own.run = r /\ own.tools = state[r].usedTools
  BY <1>6
<1>9. OnlyFinishedRunsAreKept'
  <2>1. /\ \A q \in Runs \ {r} : outcome'[q] = outcome[q]
        /\ \A q \in Runs \ {r} : q \in supervisorMemory' <=> q \in supervisorMemory
        /\ outcome'[r] \in {"returned", "failed"}
        /\ outcome'[r] = "returned" => (r \in supervisorMemory' <=> Remembers(r))
    BY <1>1, <1>2, <1>6 DEF TypeOK, KeptInv, KeptOf
  <2>2. \A q \in Runs :
           /\ q \in Remembered => /\ pending[q] # {} /\ outcome'[q] # "tool_error"
                                  /\ outcome'[q] = "rejected" => delegated[q]
           /\ outcome'[q] = "returned" =>
                 /\ \E row \in runRows : row.run = q
                 /\ q \in Remembered <=> Remembers(q)
                 /\ q \in supervisorMemory' <=> delegated[q] /\ Remembers(q)
    BY <1>1, <1>6, <1>8, <2>1 DEF KeptInv, OnlyFinishedRunsAreKept
  <2>3. \A row \in supervisorRows' : \E o \in runRows : o.run = row.run /\ o.tools = row.tools
    BY <1>1, <1>2, <1>3, <1>8 DEF KeptInv, OnlyFinishedRunsAreKept
  <2>4. \A q \in supervisorMemory' : \E row \in supervisorRows' : row.run = q
    BY <1>1, <1>2, <1>3 DEF KeptInv, OnlyFinishedRunsAreKept
  <2> QED
    BY <1>1, <1>20, <2>2, <2>3, <2>4 DEF OnlyFinishedRunsAreKept
<1> QED
  BY <1>20, <1>4, <1>5, <1>7, <1>9 DEF IInv, KeptInv

LEMMA StutterKeeps ==
    ASSUME IInv, UNCHANGED vars
    PROVE  IInv'
<1>1. TypeOK' /\ StepsInv' /\ IsolatedInv'
  BY DEF IInv, TypeOK, StepsInv, IsolatedInv, Alone, Own, Recalls, Remembers, vars, supervisorVars
<1>3. MemoryInv' /\ Remembered' = Remembered /\ \A q \in Runs : Remembers(q)' <=> Remembers(q)
  BY StillMemory DEF IInv, vars
<1>2. KeptInv'
  BY <1>3 DEF IInv, KeptInv, KeptOf, OnlyFinishedRunsAreKept, vars, supervisorVars
<1> QED
  BY <1>1, <1>2, <1>3 DEF IInv

LEMMA Invariance == Spec => []IInv
<1>1. ASSUME IInv, NEW r \in Runs, Invoke(r) \/ InvokeSupervisor(r) \/ Drive(r)
      PROVE  IInv'
  BY <1>1, StartKeeps, InvokeSupervisorKeeps, RespondKeeps, ExecuteToolsKeeps, BreakKeeps,
     FinalizeKeeps, PersistKeeps, ComposeKeeps, PersistComposedKeeps
  DEF Invoke, InvokeSpecialist, Drive
<1>2. IInv /\ [Next]_vars => IInv'
  BY <1>1, StutterKeeps DEF Next
<1> QED
  BY InitEstablishes, <1>2, PTL DEF Spec

-----------------------------------------------------------------------------
(* The theorems                                                            *)

(* The types, and with them the bound on the tool rounds of a run          *)
(* (graph.py:126), hold for any step limit and whatever the model orders.  *)
THEOREM TypeCorrect == Spec => []TypeOK
<1>1. IInv => TypeOK
  BY DEF IInv
<1> QED
  BY Invariance, <1>1, PTL

(* Runs on different threads of one cached graph never share an order or a *)
(* tool, and of each other's text a prompt holds only what the memory of   *)
(* their conversation hands on, of runs that were through, for any number  *)
(* of runs, threads and conversations (agent.py:108-110 and 133).          *)
THEOREM CheckpointsAreIsolated == Spec => []ThreadsAreIsolated
<1>1. IInv => ThreadsAreIsolated
  BY DEF IInv, IsolatedInv, Alone, Own, Recalls, ThreadsAreIsolated
<1> QED
  BY Invariance, <1>1, PTL

(* No run that its own graph refused or that broke on a tool is            *)
(* remembered, and one that returned is remembered in its conversation and *)
(* has its row, for any number of runs (graph.py:102-119, 188-233).  A run *)
(* whose record failed may be remembered without a row.                    *)
THEOREM KeptRunsFinished == Spec => []OnlyFinishedRunsAreKept
<1>1. IInv => OnlyFinishedRunsAreKept
  BY DEF IInv, KeptInv
<1> QED
  BY Invariance, <1>1, PTL

-----------------------------------------------------------------------------
(* The service keeps the contract                                          *)

(* Only a run that has ended is answered, and its audit row says how it    *)
(* ended.                                                                  *)
AnswersInv ==
    /\ reply \in [Runs -> {"none", "replied", "denied", "failed"}]
    /\ \A r \in Runs : reply[r] # "none" => outcome[r] # "none"
    /\ \A r \in Runs : <<r, "success">> \in audits => outcome[r] = "returned"
    /\ \A r \in Runs : <<r, "denied">> \in audits => outcome[r] = "rejected"

(* A run that has an outcome is over: no step of the graphs is left to it. *)
LEMMA OutcomesLast ==
    ASSUME IInv, [Next]_vars
    PROVE  \A r \in Runs : outcome[r] # "none" => pc[r] = "done" /\ outcome'[r] = outcome[r]
<1>1. TypeOK /\ \A r \in Runs : outcome[r] # "none" => pc[r] = "done"
  BY DEF IInv, KeptInv, KeptOf
<1>2. CASE UNCHANGED vars
  BY <1>1, <1>2 DEF vars
<1>3. ASSUME NEW q \in Runs, Invoke(q) \/ InvokeSupervisor(q) \/ Drive(q)
      PROVE  pc[q] # "done" /\ \A r \in Runs \ {q} : outcome'[r] = outcome[r]
  BY <1>1, <1>3 DEF TypeOK, Invoke, InvokeSupervisor, InvokeSpecialist, StartSpecialist, Drive,
     Reject, LLMFails, ToolRaises, Respond, ExecuteTools, Finalize, Persist, PersistFails, Compose,
     PersistComposed, PersistComposedFails, End
<1> QED
  BY <1>1, <1>2, <1>3 DEF Next

LEMMA AnswersStep ==
    ASSUME IInv, AnswersInv, [ServiceNext]_allVars
    PROVE  AnswersInv'
<1>1. CASE [Next]_vars /\ UNCHANGED serviceVars
  <2>1. \A r \in Runs : outcome[r] # "none" => outcome'[r] = outcome[r]
    BY <1>1, OutcomesLast
  <2> QED
    BY <1>1, <2>1 DEF AnswersInv, serviceVars
<1>2. ASSUME NEW r \in Runs, Conclude(r), UNCHANGED vars
      PROVE  AnswersInv'
  <2>1. UNCHANGED outcome
    BY <1>2 DEF vars
  <2>2. CASE AuditLands(r)
    BY <2>1, <2>2 DEF AnswersInv, AuditLands, AuditRecord, Pending
  <2>3. CASE Answer(r)
    BY <2>1, <2>3 DEF AnswersInv, Answer, Pending
  <2>4. CASE Raise(r)
    BY <2>1, <2>4 DEF AnswersInv, Raise
  <2> QED
    BY <1>2, <2>2, <2>3, <2>4 DEF Conclude
<1> QED
  BY <1>1, <1>2 DEF ServiceNext, allVars

LEMMA ServiceInvariance == ServiceSpec => [](IInv /\ AnswersInv)
<1>1. ServiceInit => IInv /\ AnswersInv
  BY InitEstablishes DEF ServiceInit, Init, AnswersInv
<1>2. [ServiceNext]_allVars => [Next]_vars
  BY DEF ServiceNext, allVars
<1>3. ServiceInit => Init
  BY DEF ServiceInit
<1>4. ServiceSpec => Spec
  BY <1>2, <1>3, PTL DEF ServiceSpec, Spec
<1> QED
  BY <1>1, <1>4, Invariance, AnswersStep, PTL DEF ServiceSpec

StageFn == [r \in Runs |-> StageOf(r)]
EvidenceFn == [r \in Runs |-> EvidenceOf(r)]

LEMMA ContractVars == Lifecycle!contractVars = <<StageFn, EvidenceFn>>
BY DEF Lifecycle!contractVars, StageFn, EvidenceFn

(* A step of the graphs begins a run, writes its row, or shows nothing.    *)
LEMMA GraphStepRefines ==
    ASSUME IInv, AnswersInv, NEW r \in Runs, Invoke(r) \/ InvokeSupervisor(r) \/ Drive(r),
           UNCHANGED serviceVars
    PROVE  \/ Lifecycle!Begin(r)
           \/ Lifecycle!Record(r, "run")
           \/ StageFn' = StageFn /\ EvidenceFn' = EvidenceFn
<1>1. /\ TypeOK /\ KeptOf(r) /\ AnswersInv /\ UNCHANGED <<reply, audits>>
  BY DEF IInv, KeptInv, serviceVars
<1>2. ASSUME Invoke(r) \/ InvokeSupervisor(r)
      PROVE  Lifecycle!Begin(r)
  <2>1. /\ pc[r] = "waiting" /\ UNCHANGED runRows
        /\ \E node \in {"route", "call_llm"} : pc' = [pc EXCEPT ![r] = node]
    BY <1>2 DEF Invoke, StartSpecialist, InvokeSupervisor
  <2>2. reply[r] = "none"
    BY <1>1, <2>1 DEF KeptOf, AnswersInv
  <2>3. StageFn[r] = "waiting" /\ StageFn' = [StageFn EXCEPT ![r] = "running"]
    BY <1>1, <2>1, <2>2 DEF StageFn, StageOf, TypeOK
  <2>4. EvidenceFn' = EvidenceFn
    BY <1>1, <2>1 DEF EvidenceFn, EvidenceOf
  <2> QED
    BY <2>3, <2>4 DEF Lifecycle!Begin, Lifecycle!Enter, StageFn, EvidenceFn
<1>3. ASSUME Drive(r)
      PROVE  StageFn' = StageFn
  <2>1. pc[r] # "waiting" /\ \E node : node # "waiting" /\ pc' = [pc EXCEPT ![r] = node]
    BY <1>3 DEF Drive, Reject, LLMFails, Respond, Route, ExecuteTools, ToolRaises, Finalize,
       Persist, PersistFails, InvokeSpecialist, StartSpecialist, Compose, PersistComposed,
       PersistComposedFails, End
  <2> QED
    BY <1>1, <2>1 DEF StageFn, StageOf, TypeOK
<1>4. ASSUME Drive(r), ~(Persist(r) \/ PersistFails(r))
      PROVE  EvidenceFn' = EvidenceFn
  <2>1. UNCHANGED runRows
    BY <1>4 DEF Drive, Reject, LLMFails, Respond, ExecuteTools, ToolRaises, Finalize,
       InvokeSpecialist, StartSpecialist, Compose, PersistComposed, PersistComposedFails
  <2> QED
    BY <1>1, <2>1 DEF EvidenceFn, EvidenceOf
<1>5. ASSUME Persist(r) \/ PersistFails(r)
      PROVE  EvidenceFn' = EvidenceFn \/ Lifecycle!Record(r, "run")
  <2>1. pc[r] = "persist" /\ runRows' \in {runRows, runRows \cup pending[r]}
    BY <1>5 DEF Persist, PersistFails, End, RunRow
  <2>2. \A row \in pending[r] : row.run = r
    BY <1>1, <2>1 DEF KeptOf, Late
  <2>3. outcome[r] = "none" /\ reply[r] = "none"
    BY <1>1, <2>1 DEF KeptOf, AnswersInv
  <2>4. <<r, "success">> \notin audits /\ <<r, "denied">> \notin audits
    BY <2>3 DEF AnswersInv
  <2>5. \A q \in Runs \ {r} : EvidenceOf(q)' = EvidenceOf(q)
    BY <1>1, <2>1, <2>2 DEF EvidenceOf
  <2>6. CASE EvidenceOf(r)' = EvidenceOf(r)
    BY <2>5, <2>6 DEF EvidenceFn
  <2>7. CASE EvidenceOf(r)' # EvidenceOf(r)
    <3>1. EvidenceOf(r) = {} /\ EvidenceOf(r)' = {"run"}
      BY <1>1, <2>1, <2>4, <2>7 DEF EvidenceOf
    <3>2. EvidenceFn' = [EvidenceFn EXCEPT ![r] = EvidenceFn[r] \cup {"run"}]
      BY <2>5, <3>1 DEF EvidenceFn
    <3>3. StageFn[r] = "running" /\ EvidenceFn[r] = {}
      BY <2>1, <2>3, <3>1 DEF StageFn, StageOf, EvidenceFn
    <3>4. StageFn' = StageFn
      BY <1>3, <1>5 DEF Drive
    <3> QED
      BY <3>2, <3>3, <3>4 DEF Lifecycle!Record, StageFn, EvidenceFn
  <2> QED
    BY <2>6, <2>7
<1> QED
  BY <1>2, <1>3, <1>4, <1>5 DEF Drive

(* What the service does once a run is over is an action of the contract.  *)
LEMMA ConcludeRefines ==
    ASSUME IInv, AnswersInv, NEW r \in Runs, Conclude(r), UNCHANGED vars
    PROVE  \/ Lifecycle!Record(r, "success") \/ Lifecycle!Record(r, "denied")
           \/ Lifecycle!Answer(r) \/ Lifecycle!Deny(r) \/ Lifecycle!Fail(r)
<1>1. /\ TypeOK /\ KeptOf(r) /\ AnswersInv /\ OnlyFinishedRunsAreKept
      /\ UNCHANGED <<pc, outcome, runRows>>
  BY DEF IInv, KeptInv, vars
<1>2. pc[r] = "done" /\ reply[r] = "none" /\ StageFn[r] = "running"
  BY <1>1 DEF Conclude, AuditLands, Answer, Raise, Pending, KeptOf, StageFn, StageOf
<1>3. outcome[r] = "returned" => \E row \in runRows : row.run = r
  BY <1>1 DEF OnlyFinishedRunsAreKept
<1>4. CASE AuditLands(r)
  <2> DEFINE e == IF outcome[r] = "returned" THEN "success" ELSE "denied"
  <2>1. /\ audits' = audits \cup {<<r, e>>} /\ <<r, e>> \notin audits /\ UNCHANGED reply
        /\ outcome[r] \in {"returned", "rejected"}
    BY <1>4 DEF AuditLands, AuditRecord, Pending
  <2>2. StageFn' = StageFn
    BY <1>1, <2>1 DEF StageFn, StageOf
  <2>3. e \in {"success", "denied"}
    OBVIOUS
  <2>4. EvidenceFn' = [EvidenceFn EXCEPT ![r] = EvidenceFn[r] \cup {e}]
    <3> HIDE DEF e
    <3>1. \A q \in Runs \ {r} : EvidenceOf(q)' = EvidenceOf(q)
      BY <1>1, <2>1 DEF EvidenceOf
    <3>2. EvidenceOf(r)' = EvidenceOf(r) \cup {e}
      BY <1>1, <2>1, <2>3 DEF EvidenceOf
    <3> QED
      BY <3>1, <3>2 DEF EvidenceFn
  <2>5. e \notin EvidenceFn[r]
    BY <2>1, <2>3 DEF EvidenceFn, EvidenceOf
  <2>6. CASE e = "success"
    <3>1. outcome[r] = "returned" /\ <<r, "denied">> \notin audits
      BY <2>1, <2>6 DEF AnswersInv
    <3>2. EvidenceFn[r] = {"run"}
      BY <1>3, <2>1, <2>6, <3>1 DEF EvidenceFn, EvidenceOf
    <3> QED
      BY <1>2, <2>2, <2>4, <2>6, <3>2 DEF Lifecycle!Record, StageFn, EvidenceFn
  <2>7. CASE e = "denied"
    <3>1. <<r, "success">> \notin audits
      BY <2>7 DEF AnswersInv
    <3>2. "success" \notin EvidenceFn[r]
      BY <3>1 DEF EvidenceFn, EvidenceOf
    <3> QED
      BY <1>2, <2>2, <2>4, <2>5, <2>7, <3>2 DEF Lifecycle!Record, StageFn, EvidenceFn
  <2> QED
    BY <2>3, <2>6, <2>7
<1>5. ASSUME NEW end \in {"replied", "denied", "failed"}, UNCHANGED audits,
             reply' = [reply EXCEPT ![r] = end]
      PROVE  StageFn' = [StageFn EXCEPT ![r] = end] /\ EvidenceFn' = EvidenceFn
  <2>1. EvidenceFn' = EvidenceFn
    BY <1>1, <1>5 DEF EvidenceFn, EvidenceOf
  <2>2. StageOf(r)' = end /\ \A q \in Runs \ {r} : StageOf(q)' = StageOf(q)
    BY <1>1, <1>2, <1>5 DEF StageOf, AnswersInv
  <2> QED
    BY <2>1, <2>2 DEF StageFn
<1>6. CASE Answer(r)
  <2>1. CASE outcome[r] = "returned"
    <3>1. <<r, "success">> \in audits /\ <<r, "denied">> \notin audits
      BY <1>6, <2>1 DEF Answer, AuditRecord, AnswersInv
    <3>2. EvidenceFn[r] = {"run", "success"}
      BY <1>3, <2>1, <3>1 DEF EvidenceFn, EvidenceOf
    <3>3. UNCHANGED audits /\ reply' = [reply EXCEPT ![r] = "replied"]
      BY <1>6, <2>1 DEF Answer
    <3> QED
      BY <1>2, <1>5, <3>2, <3>3 DEF Lifecycle!Answer, Lifecycle!Enter, StageFn, EvidenceFn
  <2>2. CASE outcome[r] # "returned"
    <3>1. <<r, "denied">> \in audits
      BY <1>6, <2>2 DEF Answer, AuditRecord
    <3>2. "denied" \in EvidenceFn[r]
      BY <3>1 DEF EvidenceFn, EvidenceOf
    <3>3. UNCHANGED audits /\ reply' = [reply EXCEPT ![r] = "denied"]
      BY <1>6, <2>2 DEF Answer
    <3> QED
      BY <1>2, <1>5, <3>2, <3>3 DEF Lifecycle!Deny, Lifecycle!Enter, StageFn, EvidenceFn
  <2> QED
    BY <2>1, <2>2
<1>7. CASE Raise(r)
  <2>1. UNCHANGED audits /\ reply' = [reply EXCEPT ![r] = "failed"]
    BY <1>7 DEF Raise
  <2> QED
    BY <1>2, <1>5, <2>1 DEF Lifecycle!Fail, Lifecycle!Enter, StageFn, EvidenceFn
<1> QED
  BY <1>4, <1>6, <1>7 DEF Conclude

LEMMA ContractStep ==
    ASSUME IInv, AnswersInv, [ServiceNext]_allVars
    PROVE  [Lifecycle!ContractNext]_(Lifecycle!contractVars)
<1> SUFFICES Lifecycle!ContractNext \/ (StageFn' = StageFn /\ EvidenceFn' = EvidenceFn)
  BY ContractVars DEF Lifecycle!contractVars, StageFn, EvidenceFn
<1>1. CASE UNCHANGED allVars
  BY <1>1 DEF allVars, vars, serviceVars, StageFn, StageOf, EvidenceFn, EvidenceOf
<1>2. CASE Next /\ UNCHANGED serviceVars
  BY <1>2, GraphStepRefines DEF Next, Lifecycle!ContractNext
<1>3. ASSUME NEW r \in Runs, Conclude(r), UNCHANGED vars
      PROVE  Lifecycle!ContractNext
  BY <1>3, ConcludeRefines DEF Lifecycle!ContractNext
<1> QED
  BY <1>1, <1>2, <1>3 DEF ServiceNext

(* The service implements RunLifecycle with the graphs in place of the     *)
(* classic loop (factory.py:3, agent_service.py:53-95), for any runs.      *)
THEOREM GraphsKeepContract == ServiceSpec => KeepsContract
<1>1. ServiceInit => Lifecycle!ContractInit
  BY DEF ServiceInit, Init, Lifecycle!ContractInit, StageOf, EvidenceOf
<1>2. IInv /\ AnswersInv /\ [ServiceNext]_allVars
      => [Lifecycle!ContractNext]_(Lifecycle!contractVars)
  BY ContractStep
<1> QED
  BY <1>1, <1>2, ServiceInvariance, PTL DEF ServiceSpec, KeepsContract, Lifecycle!Contract
-----------------------------------------------------------------------------
(* Every request comes to its end                                          *)

(* The most steps that are ahead of a run: two for each tool round that    *)
(* the limit leaves, then those from finalize to the answer.               *)
RoundsAhead(r) == 2 * (MAX_TOOL_ROUNDS - state[r].steps)

Answering(r) == IF reply[r] # "none" THEN 0 ELSE IF AuditRecord(r) \in audits THEN 1 ELSE 2

Ahead(r) ==
    CASE pc[r] = "waiting"          -> 9 + 2 * MAX_TOOL_ROUNDS
      [] pc[r] = "route"            -> 8 + 2 * MAX_TOOL_ROUNDS
      [] pc[r] = "call_llm"         -> 7 + RoundsAhead(r)
      [] pc[r] = "execute_tools"    -> 6 + RoundsAhead(r)
      [] pc[r] = "finalize"         -> 6
      [] pc[r] = "persist"          -> 5
      [] pc[r] = "compose"          -> 4
      [] pc[r] = "persist_composed" -> 3
      [] OTHER                      -> Answering(r)

LEMMA AheadTypes ==
    ASSUME TypeOK, NEW r \in Runs
    PROVE  Ahead(r) \in Nat /\ RoundsAhead(r) \in Nat /\ Answering(r) \in 0..2
<1>1. MAX_TOOL_ROUNDS \in Nat /\ state[r].steps \in 0..MAX_TOOL_ROUNDS
  BY GraphAssumption DEF TypeOK, Channels
<1>2. RoundsAhead(r) \in Nat /\ 2 * MAX_TOOL_ROUNDS \in Nat
  BY <1>1 DEF RoundsAhead
<1>3. Answering(r) \in 0..2
  BY DEF Answering
<1> QED
  BY <1>2, <1>3 DEF Ahead

(* What one run does is not ahead of any other any more or less.           *)
LEMMA OthersKeepTheirs ==
    ASSUME TypeOK, NEW r \in Runs, Invoke(r) \/ InvokeSupervisor(r) \/ Drive(r),
           UNCHANGED serviceVars
    PROVE  \A q \in Runs \ {r} : Ahead(q)' = Ahead(q)
<1> SUFFICES ASSUME NEW q \in Runs \ {r}
             PROVE  Ahead(q)' = Ahead(q)
  OBVIOUS
<1>1. /\ pc'[q] = pc[q] /\ outcome'[q] = outcome[q] /\ state'[q] = state[q]
      /\ UNCHANGED <<reply, audits>>
  BY DEF TypeOK, Invoke, InvokeSupervisor, InvokeSpecialist, StartSpecialist, Drive, Checkpoint,
     Reject, LLMFails, ToolRaises, Respond, ExecuteTools, Finalize, Persist, PersistFails, Compose,
     PersistComposed, PersistComposedFails, End, serviceVars
<1> QED
  BY <1>1 DEF Ahead, RoundsAhead, Answering, AuditRecord

LEMMA GraphStepUsesUp ==
    ASSUME IInv, NEW r \in Runs, Invoke(r) \/ InvokeSupervisor(r) \/ Drive(r)
    PROVE  Ahead(r)' < Ahead(r)
<1>1. /\ TypeOK /\ StepsInv
      /\ MAX_TOOL_ROUNDS \in Nat /\ state[r].steps \in 0..MAX_TOOL_ROUNDS
      /\ RoundsAhead(r) \in Nat
  BY GraphAssumption, AheadTypes DEF IInv, TypeOK, Channels
<1>2. Answering(r)' \in 0..2
  BY DEF Answering
<1>3. ASSUME NEW from \in {"waiting", "route"}, StartSpecialist(r, from)
      PROVE  Ahead(r)' < Ahead(r)
  <2>1. pc[r] = from /\ pc'[r] = "call_llm" /\ state'[r].steps = 0
    BY <1>1, <1>3 DEF StartSpecialist, Checkpoint, Merged, ThreadId, TypeOK, Channels
  <2> QED
    BY <1>1, <2>1 DEF Ahead, RoundsAhead
<1>4. CASE InvokeSupervisor(r)
  <2>1. pc[r] = "waiting" /\ pc'[r] = "route"
    BY <1>1, <1>4 DEF InvokeSupervisor, TypeOK
  <2> QED
    BY <1>1, <2>1 DEF Ahead
<1>5. CASE Respond(r)
  <2>1. /\ pc[r] = "call_llm" /\ state'[r].steps = state[r].steps
        /\ pc'[r] \in {"execute_tools", "finalize"}
    BY <1>1, <1>5 DEF Respond, Checkpoint, AfterResponse, Route, TypeOK, Channels
  <2> QED
    BY <1>1, <2>1 DEF Ahead, RoundsAhead
<1>6. CASE ExecuteTools(r)
  <2>1. /\ pc[r] = "execute_tools" /\ pc'[r] = "call_llm"
        /\ state'[r].steps = state[r].steps + 1 /\ state[r].steps < MAX_TOOL_ROUNDS
    BY <1>1, <1>6 DEF ExecuteTools, CountedStep, Checkpoint, StepsInv, TypeOK, Channels
  <2> QED
    BY <1>1, <2>1 DEF Ahead, RoundsAhead
<1>7. CASE Reject(r) \/ LLMFails(r) \/ ToolRaises(r) \/ PersistFails(r) \/ PersistComposed(r)
           \/ PersistComposedFails(r)
  <2>1. /\ pc[r] \in {"route", "call_llm", "execute_tools", "persist", "compose",
                      "persist_composed"}
        /\ pc'[r] = "done"
    BY <1>1, <1>7 DEF Reject, LLMFails, ToolRaises, PersistFails, PersistComposed,
       PersistComposedFails, End, TypeOK
  <2> QED
    BY <1>1, <1>2, <2>1 DEF Ahead
<1>8. CASE Finalize(r) \/ Persist(r) \/ Compose(r)
  <2>1. \/ pc[r] = "finalize" /\ pc'[r] = "persist"
        \/ pc[r] = "persist" /\ pc'[r] \in {"compose", "done"}
        \/ pc[r] = "compose" /\ pc'[r] = "persist_composed"
    BY <1>1, <1>8 DEF Finalize, Persist, Compose, End, TypeOK
  <2> QED
    BY <1>2, <2>1 DEF Ahead
<1> QED
  BY <1>3, <1>4, <1>5, <1>6, <1>7, <1>8 DEF Invoke, InvokeSpecialist, Drive

LEMMA ConcludeUsesUp ==
    ASSUME IInv, AnswersInv, NEW r \in Runs, Conclude(r), UNCHANGED vars
    PROVE  Ahead(r)' < Ahead(r) /\ \A q \in Runs \ {r} : Ahead(q)' = Ahead(q)
<1>1. outcome[r] # "none" /\ pc[r] = "done" /\ reply[r] = "none" /\ AnswersInv
  BY DEF Conclude, AuditLands, Answer, Raise, Pending, IInv, KeptInv, KeptOf
<1>2. UNCHANGED <<pc, outcome, state>>
  BY DEF vars
<1>3. Answering(r)' < Answering(r)
  <2>1. CASE AuditLands(r)
    BY <1>1, <1>2, <2>1 DEF AuditLands, AuditRecord, Answering
  <2>2. CASE Answer(r)
    <3>1. reply'[r] # "none"
      BY <1>1, <2>2 DEF Answer, AnswersInv
    <3> QED
      BY <1>1, <3>1 DEF Answering
  <2>3. CASE Raise(r)
    <3>1. reply'[r] # "none"
      BY <1>1, <2>3 DEF Raise, AnswersInv
    <3> QED
      BY <1>1, <3>1 DEF Answering
  <2> QED
    BY <2>1, <2>2, <2>3 DEF Conclude
<1>4. \A q \in Runs \ {r} : Answering(q)' = Answering(q)
  BY <1>1, <1>2 DEF Conclude, AuditLands, Answer, Raise, AuditRecord, Answering, AnswersInv
<1> QED
  BY <1>1, <1>2, <1>3, <1>4 DEF Ahead, RoundsAhead

(* Every step of the service is a step of one request that uses up some of *)
(* what is ahead of it, and takes nothing from the others and gives them   *)
(* nothing: no order of steps goes on for ever, stale calls included.      *)
THEOREM RunsRunOut ==
    ServiceSpec =>
        /\ [](\A r \in Runs : Ahead(r) \in Nat)
        /\ [][\E r \in Runs :
                  /\ Ahead(r)' < Ahead(r)
                  /\ \A q \in Runs \ {r} : Ahead(q)' = Ahead(q)]_allVars
<1> DEFINE UsesUp == \E r \in Runs :
                        /\ Ahead(r)' < Ahead(r)
                        /\ \A q \in Runs \ {r} : Ahead(q)' = Ahead(q)
<1>1. IInv => \A r \in Runs : Ahead(r) \in Nat
  BY AheadTypes DEF IInv
<1>2. IInv /\ AnswersInv /\ [ServiceNext]_allVars => [UsesUp]_allVars
  BY GraphStepUsesUp, OthersKeepTheirs, ConcludeUsesUp DEF ServiceNext, Next, IInv
<1> QED
  BY <1>1, <1>2, ServiceInvariance, PTL DEF ServiceSpec
=============================================================================
