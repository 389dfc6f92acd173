---------------------------- MODULE LangGraphRun ----------------------------
(***************************************************************************)
(* Agents run as compiled LangGraphs (agents/graph): the wrapper's invoke, *)
(* a specialist's nodes call_llm, execute_tools and finalize with their    *)
(* edges and the checkpoints the graph keeps, and the supervisor's nodes   *)
(* route, invoke_specialist and compose around such a run.  One graph      *)
(* is cached per agent and shared by every run; a run finds its checkpoint *)
(* by thread_id, which is the caller's correlation id.  A node is one      *)
(* action, and its result is checkpointed when it ends; a node that raises *)
(* leaves the checkpoint of the node before.  LangGraph itself is external *)
(* code: input to a thread with a checkpoint is merged into the saved      *)
(* channels by their reducers, and the graph starts over.                  *)
(***************************************************************************)
EXTENDS AgentMemory

CONSTANTS
    Runs,            \* calls of LangGraphAgent.invoke on one specialist
    Threads,         \* where its graph finds their checkpoints: correlation
                     \* ids, which a retried request reuses
    Conversations,   \* what a memory is keyed by: tenant, user and conversation id
    NoConversation,  \* conversation_id = None
    ReadTurns,       \* turns get_short_term reads (10 messages in the code)
    NoUsage,         \* the {} of Agent.__init__
    MAX_TOOL_ROUNDS  \* base.py:25, 6 in the code

ASSUME GraphAssumption ==
    /\ MAX_TOOL_ROUNDS \in Nat \ {0}
    /\ ReadTurns \in Nat \ {0}
    /\ NoUsage \notin Runs
    /\ NoConversation \notin Conversations

VARIABLES
    thread,     \* thread[r]: the thread of r
    conversation,  \* conversation[r]: the conversation of r
    delegated,  \* delegated[r]: r is run by the supervisor's graph
    pc,         \* pc[r]: the node r is in
    outcome,    \* outcome[r]: how invoke ended
    state,      \* state[r]: r's channel values
    saved,      \* saved[t]: MemorySaver's checkpoint of thread t
    lastUsage,  \* the agent's _last_usage
    memory,     \* memory[c]: the turns appended to the agent's memory of c;
                \* append drops none (20 messages) that would be read (10)
    pending,    \* pending[r]: the AgentRun row being written
    runRows,    \* the agent's rows in agent_runs
    supervisorMemory,  \* the turns appended to the supervisor's memory
    supervisorRows     \* the supervisor's rows in agent_runs

inputVars == <<thread, conversation, delegated>>
supervisorVars == <<supervisorMemory, supervisorRows>>
vars == <<inputVars, pc, outcome, state, saved, lastUsage, memory, pending,
          runRows, supervisorVars>>

(* The tool calls of one response: the run and its tool round.             *)
Orders == Runs \X (0..MAX_TOOL_ROUNDS)

(* The channels: whose messages the prompt holds, the pending tool calls,  *)
(* the tool rounds of this input, the orders carried out, and those of     *)
(* them carried out again.                                                 *)
Channels == [messages : SUBSET Runs, pendingToolCalls : SUBSET Orders,
             steps : 0..MAX_TOOL_ROUNDS, usedTools : SUBSET Orders,
             repeated : SUBSET Orders]

Blank == [messages |-> {}, pendingToolCalls |-> {}, steps |-> 0, usedTools |-> {},
          repeated |-> {}]

SupervisorRows == [run : Runs, tools : SUBSET Orders]
Rows == [run : Runs, usage : Runs \cup {NoUsage}, tools : SUBSET Orders]

-----------------------------------------------------------------------------
(* Nodes and edges                                                         *)

End(r, from, result) ==
    /\ pc[r] = from
    /\ pc' = [pc EXCEPT ![r] = "done"]
    /\ outcome' = [outcome EXCEPT ![r] = result]

(* A node returned: its updates are in the channels and the checkpoint.    *)
ThreadOfAgent(r) == CHOOSE t \in Threads : TRUE
ThreadId(r) == thread[r]

Checkpoint(r, channels) ==
    /\ state' = [state EXCEPT ![r] = channels]
    /\ saved' = [saved EXCEPT ![ThreadId(r)] = channels]

Remembers(r) == conversation[r] # NoConversation

(* get_short_term: whose turns the wrapper puts before the run's message.  *)
ShortTerm(r) ==
    IF Remembers(r)
    THEN LET turns == Newest(memory[conversation[r]], ReadTurns)
         IN  {turns[i] : i \in DOMAIN turns}
    ELSE {}

(* The initial state names every channel except pending_tool_calls, and    *)
(* messages, used_tools and tool_outputs are merged by addition.           *)
Merged(r) == [saved[ThreadId(r)] EXCEPT !.messages = @ \cup ShortTerm(r) \cup {r},
                                        !.steps = 0]

StartSpecialist(r, from) ==
    /\ pc[r] = from
    /\ pc' = [pc EXCEPT ![r] = "call_llm"]
    /\ Checkpoint(r, Merged(r))
    /\ UNCHANGED <<inputVars, outcome, lastUsage, memory, pending, runRows, supervisorVars>>

Invoke(r) == ~delegated[r] /\ StartSpecialist(r, "waiting")

(* The supervisor's channels are all set by its own run, and by no other,  *)
(* but for messages, which none of its nodes reads.                        *)
InvokeSupervisor(r) ==
    /\ delegated[r]
    /\ pc[r] = "waiting"
    /\ pc' = [pc EXCEPT ![r] = "route"]
    /\ UNCHANGED <<inputVars, outcome, state, saved, lastUsage, memory, pending, runRows,
                   supervisorVars>>

(* route accepts the message and invoke_specialist runs the specialist's   *)
(* graph within its node.                                                  *)
InvokeSpecialist(r) == StartSpecialist(r, "route")

(* append *)
Remembering(r) ==
    memory' = IF Remembers(r) THEN [memory EXCEPT ![conversation[r]] = Append(@, r)] ELSE memory

(* A GuardrailError of a node, on the input or on the response. *)
NotRemembering(r) == memory' = memory

Reject(r) ==
    /\ \E node \in {"route", "call_llm", "compose"} : End(r, node, "rejected")
    /\ NotRemembering(r)
    /\ UNCHANGED <<inputVars, state, saved, lastUsage, pending, runRows, supervisorVars>>

(* The gateway raises. *)
LLMFails(r) ==
    /\ \E node \in {"call_llm", "compose"} : End(r, node, "failed")
    /\ UNCHANGED <<inputVars, state, saved, lastUsage, memory, pending, runRows, supervisorVars>>

(* _should_execute_tools *)
Route(channels) ==
    IF channels.pendingToolCalls # {} /\ channels.steps < MAX_TOOL_ROUNDS
    THEN "execute_tools" ELSE "finalize"

(* call_llm: a response without tool calls leaves pending_tool_calls be.   *)
AfterResponse(r, ordersTools) ==
    IF ordersTools
    THEN [state[r] EXCEPT !.pendingToolCalls = {<<r, state[r].steps>>}]
    ELSE state[r]

Respond(r) ==
    /\ pc[r] = "call_llm"
    /\ lastUsage' = r
    /\ \E ordersTools \in BOOLEAN :
          /\ Checkpoint(r, AfterResponse(r, ordersTools))
          /\ pc' = [pc EXCEPT ![r] = Route(AfterResponse(r, ordersTools))]
    /\ UNCHANGED <<inputVars, outcome, memory, pending, runRows, supervisorVars>>

(* execute_tools, when every call of the order succeeds. *)
SameSteps(n) == n
CountedStep(n) == n + 1

ExecuteTools(r) ==
    /\ pc[r] = "execute_tools"
    /\ pc' = [pc EXCEPT ![r] = "call_llm"]
    /\ \E order \in state[r].pendingToolCalls :
          Checkpoint(r, [state[r] EXCEPT !.usedTools = @ \cup {order},
                                         !.repeated = @ \cup (state[r].usedTools \cap {order}),
                                         !.steps = CountedStep(@)])
    /\ UNCHANGED <<inputVars, outcome, lastUsage, memory, pending, runRows, supervisorVars>>

(* A call that raises becomes a str, whose .data raises in the node.       *)
ToolRaises(r) ==
    /\ End(r, "execute_tools", "tool_error")
    /\ UNCHANGED <<inputVars, state, saved, lastUsage, memory, pending, runRows, supervisorVars>>

(* finalize, up to the commit and from it on. *)
Finalize(r) ==
    /\ pc[r] = "finalize"
    /\ pc' = [pc EXCEPT ![r] = "persist"]
    /\ Remembering(r)
    /\ pending' = [pending EXCEPT ![r] =
                      {[run |-> r, usage |-> lastUsage, tools |-> state[r].usedTools]}]
    /\ UNCHANGED <<inputVars, outcome, state, saved, lastUsage, runRows, supervisorVars>>

RunRow(r) == pending[r]

Persist(r) ==
    /\ \/ ~delegated[r] /\ End(r, "persist", "returned")
       \/ /\ delegated[r]
          /\ pc[r] = "persist"
          /\ pc' = [pc EXCEPT ![r] = "compose"]
          /\ UNCHANGED outcome
    /\ runRows' = runRows \cup RunRow(r)
    /\ UNCHANGED <<inputVars, state, saved, lastUsage, memory, pending, supervisorVars>>

(* The commit raises, and may have been applied. *)
PersistFails(r) ==
    /\ End(r, "persist", "failed")
    /\ runRows' \in {runRows, runRows \cup RunRow(r)}
    /\ UNCHANGED <<inputVars, state, saved, lastUsage, memory, pending, supervisorVars>>

(* compose, up to the commit and from it on: the supervisor's own row      *)
(* names the specialist's tools, and its turn comes after the row.         *)
ComposedRow(r) == [run |-> r, tools |-> state[r].usedTools]

Compose(r) ==
    /\ pc[r] = "compose"
    /\ pc' = [pc EXCEPT ![r] = "persist_composed"]
    /\ UNCHANGED <<inputVars, outcome, state, saved, lastUsage, memory, pending, runRows,
                   supervisorVars>>

PersistComposed(r) ==
    /\ End(r, "persist_composed", "returned")
    /\ supervisorRows' = supervisorRows \cup {ComposedRow(r)}
    /\ supervisorMemory' = supervisorMemory \cup {q \in {r} : Remembers(q)}
    /\ UNCHANGED <<inputVars, state, saved, lastUsage, memory, pending, runRows>>

PersistComposedFails(r) ==
    /\ End(r, "persist_composed", "failed")
    /\ supervisorRows' \in {supervisorRows, supervisorRows \cup {ComposedRow(r)}}
    /\ UNCHANGED <<inputVars, state, saved, lastUsage, memory, pending, runRows,
                   supervisorMemory>>

-----------------------------------------------------------------------------
Init ==
    /\ thread \in [Runs -> Threads]
    /\ conversation \in [Runs -> Conversations \cup {NoConversation}]
    /\ delegated \in [Runs -> BOOLEAN]
    /\ pc = [r \in Runs |-> "waiting"]
    /\ outcome = [r \in Runs |-> "none"]
    /\ state = [r \in Runs |-> Blank]
    /\ saved = [t \in Threads |-> Blank]
    /\ lastUsage = NoUsage
    /\ memory = [c \in Conversations |-> <<>>]
    /\ pending = [r \in Runs |-> {}]
    /\ runRows = {}
    /\ supervisorMemory = {} /\ supervisorRows = {}

Drive(r) ==
    \/ Reject(r) \/ LLMFails(r) \/ Respond(r)
    \/ ExecuteTools(r) \/ ToolRaises(r)
    \/ Finalize(r) \/ Persist(r) \/ PersistFails(r)
    \/ InvokeSpecialist(r) \/ Compose(r) \/ PersistComposed(r) \/ PersistComposedFails(r)

Next == \E r \in Runs : Invoke(r) \/ InvokeSupervisor(r) \/ Drive(r)

Spec == Init /\ [][Next]_vars

-----------------------------------------------------------------------------
(* Properties                                                              *)

(* The shape of every variable; steps bounds the tool rounds of a run.     *)
TypeOK ==
    /\ thread \in [Runs -> Threads] /\ delegated \in [Runs -> BOOLEAN]
    /\ conversation \in [Runs -> Conversations \cup {NoConversation}]
    /\ pc \in [Runs -> {"waiting", "route", "call_llm", "execute_tools", "finalize", "persist",
                        "compose", "persist_composed", "done"}]
    /\ outcome \in [Runs -> {"none", "rejected", "failed", "tool_error", "returned"}]
    /\ state \in [Runs -> Channels]
    /\ saved \in [Threads -> Channels]
    /\ lastUsage \in Runs \cup {NoUsage}
    /\ memory \in [Conversations -> Seq(Runs)]
    /\ pending \in [Runs -> SUBSET Rows]
    /\ runRows \subseteq Rows
    /\ supervisorMemory \subseteq Runs
    /\ supervisorRows \subseteq SupervisorRows

(* Runs that share the cached graph but not a thread do not meet in its    *)
(* checkpoints (agent.py:24-33 and 133): of another run's text the prompt  *)
(* holds only what that run left in the memory of the same conversation    *)
(* (108-110), once it was through, and no order or tool of it.             *)
ThreadsAreIsolated ==
    \A r \in Runs :
        (\A q \in Runs \ {r} : thread[q] # thread[r])
        => /\ \A q \in state[r].messages \ {r} :
                 Remembers(r) /\ conversation[q] = conversation[r] /\ pending[q] # {}
           /\ \A order \in state[r].pendingToolCalls \cup state[r].usedTools : order[1] = r

(* The runs with a turn in the specialist's memory. *)
Remembered == {r \in Runs : \E c \in Conversations : \E i \in DOMAIN memory[c] : memory[c][i] = r}

(* A specialist remembers a turn only once its own graph neither rejected  *)
(* the run nor broke on a tool, and a run that returned is remembered, if  *)
(* it has a conversation, and has its row (graph.py:11-13).  What the      *)
(* supervisor keeps of a run the specialist has recorded with the same     *)
(* tools, and a turn it remembers has its row.  The specialist's memory    *)
(* comes first: a run whose record fails may be remembered without a row.  *)
OnlyFinishedRunsAreKept ==
    /\ \A r \in Runs :
        /\ r \in Remembered => /\ pending[r] # {} /\ outcome[r] # "tool_error"
                               /\ outcome[r] = "rejected" => delegated[r]
        /\ outcome[r] = "returned" =>
              /\ \E row \in runRows : row.run = r
              /\ r \in Remembered <=> Remembers(r)
              /\ r \in supervisorMemory <=> delegated[r] /\ Remembers(r)
    /\ \A row \in supervisorRows :
          \E own \in runRows : own.run = row.run /\ own.tools = row.tools
    /\ \A r \in supervisorMemory : \E row \in supervisorRows : row.run = r

(* graph.py:6-7: the graph is "replicating Agent.invoke semantics", where  *)
(* the calls of a response are carried out once.                           *)
OrdersRunOnce == \A r \in Runs : state[r].repeated = {}
=============================================================================
