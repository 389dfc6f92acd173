---------------------------- MODULE AgentRuntime ----------------------------
(***************************************************************************)
(* The classic agent runtime: services/agent_service.run_agent_for_user,   *)
(* agents/base.Agent.invoke with its tool loop, the supervisor that        *)
(* delegates to a specialist, the short-term memory and the two audit      *)
(* writers, for several requests that share agent singletons on one event  *)
(* loop.  An action runs from one await that can suspend to the next: the  *)
(* LLM call, a tool call, the commit of the AgentRun row, the supervisor's *)
(* composing LLM call and the commit of the audit record.  A commit is two *)
(* steps, landing in the database and being acknowledged, since a failure  *)
(* or a restart can come between them.                                     *)
(***************************************************************************)
EXTENDS AgentMemory

CONSTANTS
    Requests,        \* the calls of run_agent_for_user
    Users,           \* tenant and user: the principal of a request
    Conversations,   \* conversation ids the callers choose
    NoConversation,  \* conversation_id = None
    Agents,          \* specialists in the registry, one instance each
    Vias,            \* a subset of {"direct", "supervisor"}
    RunIds,          \* correlation ids; a retry reuses one
    NoUsage,         \* the {} of Agent.__init__
    MAX_TOOL_ROUNDS, \* base.py:25, 6 in the code
    MaxCalls,        \* bound: tool calls in one LLM response
    KeepTurns,       \* turns append keeps (20 messages in the code)
    ReadTurns,       \* turns get_short_term reads (10 messages in the code)
    MaxCrashes       \* bound: process restarts

ASSUME BoundsAssumption ==
    /\ MAX_TOOL_ROUNDS \in Nat \ {0}
    /\ MaxCalls \in Nat \ {0}
    /\ KeepTurns \in Nat \ {0}
    /\ ReadTurns \in Nat \ {0}
    /\ MaxCrashes \in Nat

ASSUME NamesAssumption ==
    /\ NoUsage \notin Requests
    /\ NoConversation \notin Conversations
    /\ Vias \subseteq {"direct", "supervisor"}

VARIABLES
    req,        \* req[r]: the AgentInput of r and the agent it resolves to
    pc,         \* pc[r]: the await r is suspended in
    outcome,    \* outcome[r]: what the caller got
    rounds,     \* rounds[r]: LLM responses of the loop so far
    calls,      \* calls[r]: tool calls of the last response still to run
    history,    \* history[r]: the turns read at the start of invoke
    lastUsage,  \* lastUsage[a]: Agent._last_usage, shared by a's requests
    memory,     \* memory[s]: AgentMemory._short, a sequence of turns
    turns,      \* turns[s]: every turn since the restart (history variable)
    pending,    \* pending[r]: the AgentRun row handed to record_agent_run
    runRows,    \* the agent_runs table
    audits,     \* the audit_log table, as <<request, outcome>> pairs
    crashes     \* number of restarts so far

vars == <<req, pc, outcome, rounds, calls, history, lastUsage, memory, turns,
          pending, runRows, audits, crashes>>

Inputs == [user : Users, conv : Conversations \cup {NoConversation},
           agent : Agents, via : Vias, runId : RunIds]

Slots  == Agents \X Users \X Conversations
Usages == Requests \cup {NoUsage}

(* `final` tells a run that ended on a final response from one cut off at  *)
(* the round limit.                                                        *)
Rows == [req : Requests, runId : RunIds, agent : Agents, final : BOOLEAN,
         usage : Usages]

InLoop   == {"llm", "tools"}
InFlight == InLoop \cup {"run", "run_ack", "compose", "success", "success_ack",
                         "denied", "denied_ack"}
Outcomes == {"none", "replied", "denied", "failed", "lost"}

-----------------------------------------------------------------------------
(* Short-term memory                                                       *)

(* The store's key, "conv:tenant:user:conversation", in the agent's own    *)
(* AgentMemory.                                                            *)
SlotOfConversation(r) == <<req[r].agent, CHOOSE u \in Users : TRUE, req[r].conv>>
Slot(r) == <<req[r].agent, req[r].user, req[r].conv>>

Remembers(r) == req[r].conv # NoConversation

(* get_short_term *)
ShortTerm(r) == IF Remembers(r) THEN Newest(memory[Slot(r)], ReadTurns) ELSE <<>>

(* append: the user and the assistant message of r, one turn. *)
AppendedToSnapshot(r) == Newest(Append(history[r], r), KeepTurns)
Appended(r) == Newest(Append(memory[Slot(r)], r), KeepTurns)

(* `kept` is the sequence that replaces the stored one. *)
Remember(r, kept) ==
    IF Remembers(r)
    THEN /\ memory' = [memory EXCEPT ![Slot(r)] = kept]
         /\ turns'  = [turns EXCEPT ![Slot(r)] = Append(@, r)]
    ELSE UNCHANGED <<memory, turns>>

-----------------------------------------------------------------------------
(* Steps of a request                                                      *)

Goto(r, from, to) == pc[r] = from /\ pc' = [pc EXCEPT ![r] = to]

Finish(r, from, result) ==
    /\ Goto(r, from, "done")
    /\ outcome' = [outcome EXCEPT ![r] = result]

loopVars  == <<rounds, calls, history>>
agentVars == <<lastUsage, memory, turns>>
storeVars == <<runRows, audits>>

(* route, resolve_agent, the input guard, and the read of the history.     *)
Begin(r) ==
    /\ Goto(r, "waiting", "llm")
    /\ history' = [history EXCEPT ![r] = ShortTerm(r)]
    /\ UNCHANGED <<req, outcome, rounds, calls, agentVars, pending, storeVars, crashes>>

(* GuardrailError: the service's except clause awaits the denied record.   *)
Reject(r, from) ==
    /\ Goto(r, from, "denied")
    /\ UNCHANGED <<req, outcome, loopVars, agentVars, pending, storeVars, crashes>>

RejectInput(r) == Reject(r, "waiting")
RejectAfterRemembering(r) ==
    /\ Goto(r, "llm", "denied")
    /\ Remember(r, Appended(r))
    /\ UNCHANGED <<req, outcome, loopVars, lastUsage, pending, storeVars, crashes>>
RejectOutput(r)   == Reject(r, "llm")
RejectComposed(r) == Reject(r, "compose")

(* for _ in range(MAX_TOOL_ROUNDS) *)
SameRound(r)    == rounds[r]
CountedRound(r) == rounds[r] + 1

RoundsLeft(r) == rounds[r] < MAX_TOOL_ROUNDS

(* A response that orders tool calls and passed the output guard.          *)

OrderTools(r) ==
    /\ Goto(r, "llm", "tools")
    /\ rounds' = [rounds EXCEPT ![r] = CountedRound(r)]
    /\ \E n \in 1..MaxCalls : calls' = [calls EXCEPT ![r] = n]
    /\ UNCHANGED <<req, outcome, history, agentVars, pending, storeVars, crashes>>

(* execute_tool; an exception becomes ToolResult.failure, so success and   *)
(* failure go on alike.                                                    *)
RunTool(r) ==
    /\ pc[r] = "tools"
    /\ calls[r] > 1
    /\ calls' = [calls EXCEPT ![r] = @ - 1]
    /\ UNCHANGED <<req, pc, outcome, rounds, history, agentVars, pending, storeVars, crashes>>

RunLastTool(r) ==
    /\ Goto(r, "tools", "llm")
    /\ calls[r] = 1
    /\ RoundsLeft(r)
    /\ calls' = [calls EXCEPT ![r] = 0]
    /\ UNCHANGED <<req, outcome, rounds, history, agentVars, pending, storeVars, crashes>>

(* _record_tokens *)
TokensNotRecorded(r) == lastUsage
RecordedTokens(r) == [lastUsage EXCEPT ![req[r].agent] = r]

(* After the loop, up to the commit: memory first, then the row, whose     *)
(* token usage is whatever the agent's attribute, `lastTokens`, then holds.*)
RunRow(r, final, lastTokens) ==
    [req |-> r, runId |-> req[r].runId, agent |-> req[r].agent, final |-> final,
     usage |-> lastTokens[req[r].agent]]

LeaveLoop(r, from, final, lastTokens) ==
    /\ Goto(r, from, "run")
    /\ lastUsage' = lastTokens
    /\ Remember(r, Appended(r))
    /\ pending' = [pending EXCEPT ![r] = {RunRow(r, final, lastTokens)}]
    /\ UNCHANGED <<req, outcome, history, storeVars, crashes>>

RunToolAtLimit(r) ==
    /\ calls[r] = 1
    /\ ~RoundsLeft(r)
    /\ LeaveLoop(r, "tools", FALSE, lastUsage)
    /\ calls' = [calls EXCEPT ![r] = 0]
    /\ UNCHANGED rounds

FinalResponse(r) ==
    /\ LeaveLoop(r, "llm", TRUE, RecordedTokens(r))
    /\ rounds' = [rounds EXCEPT ![r] = CountedRound(r)]
    /\ UNCHANGED calls

(* record_agent_run *)
Committed(r) == pending[r]

RunLands(r) ==
    /\ Goto(r, "run", "run_ack")
    /\ runRows' = runRows \cup Committed(r)
    /\ UNCHANGED <<req, outcome, loopVars, agentVars, pending, audits, crashes>>

(* invoke returns: to the service, or to the supervisor, which composes.   *)
AfterRun(r) == IF req[r].via = "supervisor" THEN "compose" ELSE "success"

RunAcknowledged(r) ==
    /\ Goto(r, "run_ack", AfterRun(r))
    /\ UNCHANGED <<req, outcome, loopVars, agentVars, pending, storeVars, crashes>>

ComposeResponse(r) ==
    /\ Goto(r, "compose", "success")
    /\ UNCHANGED <<req, outcome, loopVars, agentVars, pending, storeVars, crashes>>

(* record(outcome = "success") and record(outcome = "denied")              *)
AlwaysSuccess(r) == <<r, "success">>
AuditRecord(r) == <<r, pc[r]>>

AuditLands(r) ==
    /\ \/ Goto(r, "success", "success_ack")
       \/ Goto(r, "denied", "denied_ack")
    /\ audits' = audits \cup {AuditRecord(r)}
    /\ UNCHANGED <<req, outcome, loopVars, agentVars, pending, runRows, crashes>>

Reply(r) ==
    /\ Finish(r, "success_ack", "replied")
    /\ UNCHANGED <<req, loopVars, agentVars, pending, storeVars, crashes>>

(* AgentExecutionError, which the endpoint turns into 422.                 *)
Refuse(r) ==
    /\ Finish(r, "denied_ack", "denied")
    /\ UNCHANGED <<req, loopVars, agentVars, pending, storeVars, crashes>>

(* Any other exception leaves the service unaudited (500): the gateway's,  *)
(* or a commit's, whether or not it had landed.                            *)
MayRaise == {"llm", "compose", "run", "run_ack", "success", "success_ack",
             "denied", "denied_ack"}

Fail(r) ==
    /\ \E p \in MayRaise : Finish(r, p, "failed")
    /\ UNCHANGED <<req, loopVars, agentVars, pending, storeVars, crashes>>

(* The process restarts: the singletons start over, the tables stay.       *)
Restart ==
    /\ crashes < MaxCrashes
    /\ crashes' = crashes + 1
    /\ outcome' = [r \in Requests |-> IF pc[r] \in InFlight THEN "lost" ELSE outcome[r]]
    /\ pc' = [r \in Requests |-> IF pc[r] \in InFlight THEN "done" ELSE pc[r]]
    /\ lastUsage' = [a \in Agents |-> NoUsage]
    /\ memory' = [s \in Slots |-> <<>>]
    /\ turns' = [s \in Slots |-> <<>>]
    /\ UNCHANGED <<req, loopVars, pending, storeVars>>

-----------------------------------------------------------------------------
Init ==
    /\ req \in [Requests -> Inputs]
    /\ pc = [r \in Requests |-> "waiting"]
    /\ outcome = [r \in Requests |-> "none"]
    /\ rounds = [r \in Requests |-> 0]
    /\ calls = [r \in Requests |-> 0]
    /\ history = [r \in Requests |-> <<>>]
    /\ lastUsage = [a \in Agents |-> NoUsage]
    /\ memory = [s \in Slots |-> <<>>]
    /\ turns = [s \in Slots |-> <<>>]
    /\ pending = [r \in Requests |-> {}]
    /\ runRows = {}
    /\ audits = {}
    /\ crashes = 0

(* What the event loop does for r once r has been taken up. *)
Serve(r) ==
    \/ RejectOutput(r) \/ OrderTools(r) \/ FinalResponse(r)
    \/ RunTool(r) \/ RunLastTool(r) \/ RunToolAtLimit(r)
    \/ RunLands(r) \/ RunAcknowledged(r)
    \/ ComposeResponse(r) \/ RejectComposed(r)
    \/ AuditLands(r) \/ Reply(r) \/ Refuse(r)
    \/ Fail(r)

Next == Restart \/ \E r \in Requests : Begin(r) \/ RejectInput(r) \/ Serve(r)

Spec == Init /\ [][Next]_vars

(* Each handler is a task of its own, and each of its awaits ends: the LLM *)
(* clients and the database driver carry timeouts.                         *)
FairSpec == Spec /\ \A r \in Requests : WF_vars(Serve(r))

-----------------------------------------------------------------------------
(* Properties                                                              *)

(* The shape of every variable. *)
TypeOK ==
    /\ req \in [Requests -> Inputs]
    /\ pc \in [Requests -> {"waiting", "done"} \cup InFlight]
    /\ outcome \in [Requests -> Outcomes]
    /\ rounds \in [Requests -> 0..MAX_TOOL_ROUNDS]
    /\ calls \in [Requests -> 0..MaxCalls]
    /\ history \in [Requests -> Seq(Requests)]
    /\ lastUsage \in [Agents -> Usages]
    /\ memory \in [Slots -> Seq(Requests)]
    /\ turns \in [Slots -> Seq(Requests)]
    /\ pending \in [Requests -> SUBSET Rows]
    /\ runRows \subseteq Rows
    /\ audits \subseteq Requests \X {"success", "denied"}
    /\ crashes \in 0..MaxCrashes

(* No turn is lost: however the requests of a conversation interleave, its *)
(* memory holds the most recent KeepTurns turns in the order the runs left *)
(* the loop (memory.py append, one read-modify-write with no await in it). *)
NoTurnLost == \A s \in Slots : memory[s] = Newest(turns[s], KeepTurns)

(* A prompt is only ever built from turns of its own user, conversation    *)
(* and agent, although callers choose conversation ids themselves and two  *)
(* users may choose the same one (memory.py:35).                           *)
HistoryOfOwnConversation ==
    \A r \in Requests : \A i \in DOMAIN history[r] :
        LET turn == req[history[r][i]]
        IN  /\ turn.agent = req[r].agent
            /\ turn.user = req[r].user
            /\ turn.conv = req[r].conv

(* A row of a run that ended on a final response carries that run's own    *)
(* token usage, although it is read from _last_usage, one attribute shared *)
(* by every request of the agent: it is recorded first (base.py:141), and  *)
(* read (202) before an await that suspends lets another run record.       *)
FinalRowHasOwnUsage == \A row \in runRows : row.final => row.usage = row.req

(* A request refused without delegation leaves neither an AgentRun row nor *)
(* a turn in anybody's memory: rejected text is never replayed to the LLM. *)
RefusedLeavesNoTurn ==
    \A r \in Requests :
        req[r].via = "direct" /\ (pc[r] \in {"denied", "denied_ack"} \/ outcome[r] = "denied")
        => /\ \A row \in runRows : row.req # r
           /\ \A s \in Slots : \A i \in DOMAIN memory[s] : memory[s][i] # r

(* The runtime keeps the contract of RunLifecycle: replies and refusals    *)
(* come only after their evidence is durable, through failed commits, lost *)
(* acknowledgements and restarts.                                          *)
StageOf(r) ==
    CASE pc[r] = "waiting" -> "waiting"
      [] pc[r] = "done"    -> outcome[r]
      [] OTHER             -> "running"

EvidenceOf(r) ==
    {e \in {"run", "success", "denied"} :
        IF e = "run" THEN \E row \in runRows : row.req = r ELSE <<r, e>> \in audits}

Lifecycle == INSTANCE RunLifecycle WITH
    stage    <- [r \in Requests |-> StageOf(r)],
    evidence <- [r \in Requests |-> EvidenceOf(r)]

KeepsContract == Lifecycle!Contract

(* Whatever the LLM answers, the tool loop ends and every request that was *)
(* taken up ends (MAX_TOOL_ROUNDS, base.py:105).                           *)
EveryRequestEnds == \A r \in Requests : pc[r] \in InFlight ~> pc[r] = "done"
=============================================================================
