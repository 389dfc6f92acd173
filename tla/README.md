# A TLA+ model of the BFSI agent platform

This directory holds TLA+ modules for the backend of the platform
(`src/backend/app`), the TLC configurations that check them on small instances,
and TLAPS proofs of what they promise for every value of their constants. Paths
below are relative to `src/backend/app` unless they begin with `docs/`, which
stands for `src/docs/`.

    tlc -config Runtime.cfg MCAgentRuntime        # a run
    tlapm AgentRuntimeProofs.tla                  # the proofs of a module

`PROJECT.json` lists the components, the runs, the source lines of every
definition, the hazards with the properties that watch them, the places where
the code and its documents disagree, and the theorems.

## 1. The system

The backend is one asyncio process. HTTP handlers, the agents, the tools and the
writers of the database interleave at their awaits and share singletons: the
registry of agents, each agent's memory and its `_last_usage`, the compiled
graphs, the LLM gateway, the rate limiter's buckets, the vector store and the
pool of database connections. PostgreSQL, Redis, OpenSearch and the LLM
providers are outside the process and may refuse, time out, or apply a call
whose answer is lost.

| Component | State | Operations | What is hard | What makes it correct |
|---|---|---|---|---|
| Agent runtime (`agents/base.py`, `agents/memory.py`, `services/agent_service.py`, `agents/specialized/supervisor.py`) | short-term memory per agent, user and conversation; `_last_usage`; the tables `agent_runs` and `audit_log` | `run_agent_for_user`, `Agent.invoke`, `SupervisorAgent.invoke`, `append`, `get_short_term`, `record`, `record_agent_run` | requests that share one agent; values read before an await and used after it; two transactions for one run; restarts | an answer rests on a recorded run and a recorded success; no turn is lost; a prompt holds one user's turns only; refused text is not remembered; the loop ends |
| LangGraph orchestrator (`agents/graph/`) | the channels of a run, the checkpoint of a thread, the memory of a conversation, `_last_usage`, the tables | `call_llm`, `execute_tools`, `finalize`, `route`, `invoke_specialist`, `compose` and their edges | a graph shared by all runs; runs on one thread; state that outlives the step it belongs to; a node that raises | threads meet only in the memory of a conversation; only finished runs are kept; the graph ends |
| Tool authorization (`tools/authz.py`, `core/security/rbac.py`, the tools) | none across calls | six layers, then the tool | four places decide about one record, each from other arguments | records are own or permitted; the policy in force is no laxer than the one written down (it is: section 6); what was permitted is returned |
| LLM gateway (`gateway/factory.py`, `gateway/routing.py`) | the request it mutates, the attempts, the usage counters | `complete`, `complete_with_fallback`, `track` | retries within degradation within fallback | degradation only after all attempts; usage counted once, and for `complete` under the model that answered; every call ends |
| Rate limiter (`middleware/ratelimit.py`) | a Redis counter with an expiry; a token bucket in the worker | `_consume_distributed`, `_consume` | two Redis commands that are not atomic; failover; restarts | each limiter's bound holds whatever the interleaving |
| Ingestion and vector store (`rag/`, `api/v1/endpoints/documents.py`) | the records of the store, the audit rows | upload, scan, chunk, index, search | uploads of one document id that interleave PUT by PUT; partial failure; a store that is lost on restart | a search stays in its tenant; refused text is not found; an audited chunk is stored unless the store refused it; chunks cover the text |
| Tenant administration (`api/v1/endpoints/tenants.py`, `db/session.py`) | the connection pool, uncommitted and committed rows | `create_tenant`, `create_user`, `create_institution` | a request that needs two connections at once; inserts that wait for each other's index entries in a chain; two transactions | a tenant exists only with its audit row; waits end and everyone is answered; nothing is held afterwards |
| Sessions and principals (`api/v1/endpoints/auth.py`, `core/security/auth.py`, `middleware/tenant.py`, `api/dependencies.py`) | no session is stored: the tokens in circulation, the tenant context of a request, the audit rows of logins | `login`, `refresh`, `dispatch`, `get_principal`, `require_permission` | a token is exchanged for a token without a look at the account; the header is read in two places with an await between; the audit record may fail | sessions end; roles are as recent as an access token; who is let in has a tenant context (not always: section 6); every token goes back to an audited login |
| Registry and routing (`agents/registry.py`, `agents/router.py`, `agents/specialized/supervisor.py`) | the registry, filled at import | `classify_intent`, `find_by_capability`, `route`, the supervisor's choice | a message that several intents match, ties between them, hints | the most matched intent is served |
| Decisioning (`decisioning/`) | none | `assess_eligibility`, `score_transaction` | thresholds, clamps, truncation, and floats that fall on a bound | decisions agree with their own amounts to within one unit, and are monotone |

Left aside: the provider adapters, the agents' prompts, the guardrails' regular
expressions, PII masking and encryption (functions of text and bytes with no
state); the event broker (nothing publishes: `emit_domain_event` has no caller);
the container, settings and telemetry; schemas and migrations; the frontend and
the infrastructure. The approval tickets the documents describe as a service are
in the code only an argument, which `ToolAuthz` has.

## 2. The modules

| Module | Models | Checked through | Proved in |
|---|---|---|---|
| `RunLifecycle` | what the caller of `run_agent_for_user` may rely on; no agent, loop or memory in it | `AgentRuntime` and `GraphService`, which instantiate it | `AgentRuntimeProofs`, `LangGraphRunProofs` |
| `AgentMemory` | what both orchestrators do with a conversation's turns | `AgentRuntime` and `LangGraphRun`, which extend it | |
| `AgentRuntime` | the classic runtime with memory, supervisor and audit writers | `MCAgentRuntime` | `AgentRuntimeProofs` |
| `LangGraphRun` | the specialist's and the supervisor's graphs | `GraphService`, which extends it, and `MCLangGraphRun` | `LangGraphRunProofs` |
| `GraphService` | `run_agent_for_user` around `LangGraphRun`; implements `RunLifecycle` too | `MCGraphService` | `LangGraphRunProofs` |
| `ToolAuthz` | one tool call through every layer | `MCTools`, and `MCToolAuthz` | `ToolProofs` |
| `LLMGateway` | one LLM call through retries, degradation and fallback | `MCLLMGateway` | `LLMGatewayProofs` |
| `RateLimit` | one key of the rate limiter | `MCRateLimit` | `RateLimitProofs` |
| `Chunker` | the loop that cuts a text | `MCIngestion` | `IngestionProofs` |
| `DocumentIndex` | concurrent uploads and both vector stores | `MCIngestion`, and `MCDocumentIndex` | `IngestionProofs` |
| `CreationContract` | what the callers of the three creations may rely on; no pool, session or transaction in it | `TenantAdmin`, which instantiates it | `TenantAdminProofs` |
| `TenantAdmin` | concurrent creations, the pool and the audit connection | `MCTenantAdmin` | `TenantAdminProofs` |
| `Sessions` | login, refresh and the tokens in circulation | `ChatEntry`, which extends it | `ChatEntryProofs` |
| `Routing` | which agent answers a message | `ChatEntry`, which extends it | `ChatEntryProofs` |
| `ChatEntry` | a request from the socket to the agent: Sessions and Routing composed | `MCChatEntry` | `ChatEntryProofs` |
| `Decisioning` | both engines | `MCTools` | `ToolProofs` |

How state and actions correspond to the code:

* **An action is what the event loop does between two awaits that can suspend.**
  `memory.append` and `_record_tokens` contain no such await, so they are part of
  the action that calls them; a commit is a step of its own, and in
  `AgentRuntime` it is two, landing in the database and being acknowledged,
  because a failure or a restart can come between them. Elsewhere an action
  `...Raises` or `...Fails` leaves it open whether the call had been applied.
* **External systems are what they may answer.** A provider answers or raises,
  Redis applies a command or not before it raises, OpenSearch stores a PUT or
  refuses it or the connection breaks. A guardrail's verdict and the tool calls
  in an LLM response are free choices.
* **`AgentRuntime`**: `req[r]` is the `AgentInput` together with the agent that
  `route` and `resolve_agent` give it, `pc[r]` names the await the request is in,
  `memory` is `AgentMemory._short`, `turns` is a history variable with every turn
  since the restart. `Begin` is everything up to the first LLM call,
  `LeaveLoop` everything from the end of the loop to the commit of the run row.
  The row takes its usage from `lastUsage`, the attribute the requests share, in
  both ways of leaving; only the final response has recorded its own before.
  A supervisor's request runs the specialist first (`via = "supervisor"`) and
  goes on to `ComposeResponse`.
* **`LangGraphRun`**: `state[r]` are the channels and `saved[t]` is the
  checkpoint that LangGraph merges the input of a second run into. The input is
  the run's message after the turns that `get_short_term` finds in the
  specialist's memory of its conversation; a `conversation` stands for tenant,
  user and conversation id, and a run may have none. The channels
  keep what the properties tell apart: whose messages, which tool calls are
  pending, how many rounds, which orders were carried out, and which of them
  again. Where a specialist that the supervisor's graph invokes finds its
  checkpoint depends on the LangGraph version (its own thread or a namespace of
  the supervisor's); `thread` is any function, which covers both. The
  supervisor's own row always has its own usage, because `compose` reads it in
  the step that sets it, and is left out.
* **`GraphService`** adds what `run_agent_for_user` does once `invoke` has ended
  with an `outcome`: `AuditLands` is `record`, `Answer` the result or the
  `AgentExecutionError`, `Raise` every other exception, that of a `record` whose
  commit may have landed included.
* **`ToolAuthz`**: a call is a record of the arguments that decide, `layer` is
  the check it has reached, `subject` the customer whose record was returned.
  The policy tables are those of `default_rbac`, the endpoint's choice of
  `resource_owner_id` is in `ResourceOwner`. A ticket and an approval are only
  whether the argument is truthy, as in the code.
* **`LLMGateway`**: a model is named by the provider that serves it, so that
  "the wrong model for this provider" can be said. `failed` is a history
  variable, the attempts on each provider that raised.
* **`RateLimit`**: time is counted in ticks; `since` and `byBucket` are history
  variables that count the requests let in over every interval, `restarts` the
  workers that were restarted.
* **`Chunker`**: a chunk is the interval of positions of its slice.
* **`DocumentIndex`**: a record remembers its upload, which the code does not,
  so that the properties can say whose text was found. The store's key is only
  `<document id>:<index>`, as in the code (`Replaced`). `refused` is history: the
  chunks whose PUT was answered with a refusal, which `upsert` does not look at.
* **`TenantAdmin`**: `held` is the set of sessions that have a connection of the
  pool checked out. A request has at most two, the one its endpoint depends on
  and the one `record` opens inside the transaction. `unique[r]` are the entries
  its row makes in the unique indexes of its table, two for a tenant (name, then
  slug, the order of `db/migrations/versions/0001_initial.py:34`), and
  `written[r]` those it has made and not committed. Between the two entries of a
  tenant another creation may come. For `CreationContract` a creation takes
  effect at its commit.
* **`Sessions`**: a token is the record of its claims; `login` and `since` are
  history, the login it goes back to and when that was. `tokens` holds every
  token ever issued, since nothing in the code withdraws one. `phase[l]` follows
  `login` through its audit record, which may land and still raise. A login with
  a wrong password changes nothing and is left out.
* **`Routing`** has operators only. A message is the number of times each
  intent's pattern matches in it, which is all that `classify_intent` looks at.
  The intents are numbered in alphabetical order, so that the comparison of
  numbers is the comparison of names that `sort` makes among equal counts.
* **`ChatEntry`**: `Arrive` is the tenant middleware, up to the await of the rate
  limiter. `Refuse`, `Chat` and `Administer` are what comes after it: the
  limiter's verdict (any, here; `RateLimit` has it), `get_principal`,
  `require_permission`, and for a chat `route` with the scope the endpoint
  passes on. `Next` lets the clock, logins and exchanges go on in between.
  `scheme[c]` is the spelling of "Bearer" in the header: the middleware wants it
  as it is, `HTTPBearer` in any case.
* **`Decisioning`**: incomes and instalments are whole, the amount requested is
  in tenths. The engine's doubles decide as exact arithmetic does while the
  exact result is off the boundaries, while income times tenure stays below
  10^14: the steps of whole numbers and tenths are then larger than what floats
  lose. On a boundary either may happen, and the code does both: `RatioRoundsUp`
  are the applications whose ratio is exactly 0.45 and is computed as more,
  `AmountRoundsDown` the incomes and tenures whose amount is whole and is
  computed as a little less, which `int` cuts to one less. The proofs take any
  such sets; `RoundingAssumption` says only that the operations are monotone and
  that there is a whole amount to fall short of. `MCTools` has the sets that
  CPython gives on its applications. A ratio of debts to income on its bound is
  never computed as more: it is one quotient of whole numbers, rounded as the
  literal 0.55 is.

Definitions that nothing in a specification uses, such as `SameRound`
beside `CountedRound`, state a plausible mistake at that place. The property named
with them in `PROJECT.json` fails once the mistake replaces the definition.

## 3. The runs

| Run | Question | Instance | Distinct states |
|---|---|---|---|
| `Runtime` | Do memory, records and answers stay true, is the contract kept, does every request end? | 2 requests, 2 users with one conversation id, 1 agent direct or through the supervisor, 1 run id, 2 rounds of up to 2 tool calls, 1 restart | 738,752 |
| `GraphRuns` | Do requests to one cached graph keep apart, is only what finished kept, is the contract kept, is everyone answered? | 2 requests, 2 threads, 2 conversations of which the first request has either or none, one may be delegated, 2 rounds, 1 turn read | 925,954 |
| `GraphStaleCalls` | Is an order carried out once? (no: section 6) | 1 run | |
| `Tools` | Who reaches whose record, and what do the tools then refuse? Are the engines' decisions consistent and monotone? | every set of roles, every tool, 2 users, 2 tenants, every argument present or absent; values on and beside every threshold of the engines, a ratio and an amount that are rounded on it among them, compared pairwise | 753,892 |
| `PolicyFallback` | Is the policy in force as strict as the one for OPA? (no: section 6) | as `Tools`, without the engines | |
| `GatewayCalls` | When does a call degrade, how often is a provider asked, what is counted, does it end? | every deployment, every tier, both methods, 3 attempts, every provider unreliable | 536 |
| `RateLimits` | What do the counter and the bucket let in? | 5 requests, capacity 2, a window of 2 ticks, 3 ticks, 5 faults, in production and outside it | 158,991 |
| `Ingestion` | Who finds what, and what does the audit say of it? Do the chunks cover the text and overlap as they should? | 2 uploads, 2 tenants, 1 chosen document id beside generated ones, up to 2 chunks, 1 restart, both stores; every overlap below every size up to 5, texts of 0 to 17 characters | 176,896 |
| `DocumentTenants` | Can another tenant take a record away? (yes: section 6) | as `Ingestion`, without the chunker | |
| `TenantPool` | Does everyone get an answer, who waits for whose entry, and does each creation take effect at one moment? | 3 creations, 2 names, 2 slugs, 1 address, 1 code, a pool of 3, 1 restart | 298,236 |
| `Entries` | How long do sessions and roles last, and which agent answers a request? | 1 login, 3 addresses of 2 accounts, 1 request, 3 topics matched up to twice, 4 hints, lifetimes of 1 and 3 ticks, 5 ticks | 909,568 |
| `TenantContexts` | Has everyone who is let in a tenant context? (no: section 6) | as `Entries` | |

Why the instances are enough. What goes wrong in this code goes wrong between
two actors: a shared attribute overwritten, a list replaced, a key taken, a
checkpoint continued. Two requests, runs or uploads reach each such overlap, and
a third only repeats it, with two exceptions. A chain of waits needs three
creations with a connection each, and a pool of three still leaves none for
their audit rows. The counter needs more requests than a window and a bucket
admit together (five for a capacity of two). Bounds on restarts and faults cut
off only repetitions of a step whose effect does not depend on how often it
happened. The runtime's memory does not overflow in `Runtime`, since two turns
fit into its limit of two; that turns are dropped from the old end only is
proved for every limit (`NoTurnIsLost`). In `GraphRuns` the first request is on
the first thread, the second is not delegated and has the conversation `c1`, and
two requests on one thread, being one request and its retry, have the same
conversation: other initial states differ in names only, or add a second run of
the supervisor's graph, which shares nothing with the first. Texts of up to 17
characters contain, for every size and overlap, each way in which the last two
chunks can meet the end of the text; the proof covers the rest. In `Entries` one
login and one request suffice because logins share nothing but the clock and
requests only the tokens, of which the request may take any; five ticks are one
more than the two lifetimes together, so that a session can be seen to end. In
`Tools` the layers and the two engines are asked one at a time, and in
`Ingestion` the loop that cuts a text runs while no upload has begun, since they
share nothing.

The type invariants are not among the runs' properties: each is proved
(`TypeCorrect`, and `ChunkTypeCorrect` and `EngineTypeCorrect` for `Chunker` and
`Decisioning`).

Deadlock is not checked: each instance has finitely many requests and stops
when all are answered. That nobody stops earlier is what the liveness
properties say.

## 4. Fairness

* `AgentRuntime`: weak fairness of `Serve` for each request. The handler is a
  task of the event loop, the LLM clients time out after
  `llm_timeout_seconds` (60, `core/config.py`) and the database driver answers
  or raises. `Begin` is not fair: a request need not be taken up.
* `GraphService`: weak fairness of `Serve` for each request, for the same reasons.
* `LLMGateway`: weak fairness of `Next`; every attempt has the client's timeout.
* `TenantAdmin`: weak fairness of `Serve` for each request. The pool gives up
  after its timeout (SQLAlchemy's default), the database answers whatever it
  is not blocked on. `DatabaseRaises` is left out of it: liveness never relies
  on an error.

## 5. The proofs

Each theorem holds for every value of the constants, under the assumptions named
with `ASSUME`: bounds are natural numbers, the values that stand for None are
not among the others, and for `Chunker` the overlap is smaller than the size
(`build_pipeline` uses 512 and 64; without it the loop does not advance).

* **`AgentRuntimeProofs`.** `TypeCorrect` needs `RoundLeft`: a request waits for
  the LLM or runs its tools only while rounds are left, which bounds the
  counter. `NoTurnIsLost` rests on `NewestOfAppend`: dropping old turns before
  an append and again after it is the same as dropping them at the end, so the
  memory is always the newest part of all turns. `FinalRowsHaveOwnUsage` needs
  `PendingIsOwn`, since the row is written later than it is built, and
  `TokensRecorded`: the attribute the row is built from has been set in the same
  step. `RuntimeKeepsContract` maps `pc`, `outcome` and the tables to the stage
  and the evidence of `RunLifecycle`; `EvidenceMatchesPc` says which evidence a
  request has at each await, and with it every action is a step of the contract
  or leaves its variables alone. `HistoryIsOwn` rests on `TurnsInTheirSlot`: a
  turn is only ever in the slot of its own agent, user and conversation.
  `RefusalsLeaveNothing` rests on `Unkept`: a request that has not left the loop
  has no turn and no row, and a guard refuses only such a request, or one that
  was delegated.
* **`LangGraphRunProofs`.** `IsolatedInv` says of a run alone on its thread that
  the orders in its channels and in the thread's checkpoint are its own, and the
  messages its own or those of a run that has left its turn in the conversation
  they share; `MemoryInv` says of a memory that its turns are those of its
  conversation, from runs that were through (`ShortTermIsOwn`); `KeptInv` says
  at which node and with which outcome a run may be remembered, pending or
  recorded. `StepsInv` bounds the rounds. `GraphsKeepContract` maps a request to
  its stage and evidence: `KeptInv` gives that a returned run has its row and
  that an outcome is final (`OutcomesLast`), `AnswersInv` that an audit row says
  how the run ended.
* **`LLMGatewayProofs`.** `ShapeInv` ties the phase to the method called and to
  the request as it has been mutated so far; `LoopInv` says that what is left of
  the fallback loop is an end of its list, so that the number of candidates
  taken says who has been asked. `DegradationIsEarned` adds `PrimaryInv`: from
  the second candidate on, the primary has used up its attempts. `NoRetryStorm`
  is not inductive alone: `BudgetInv` adds to the attempts of a provider
  those that the turn under way may still make, and bounds the sum by what the
  candidates taken so far grant it.
* **`TenantAdminProofs`.** `ConnectionsByPhase` and `EntriesByPhase` say what a
  creation holds at each await: one connection or two, and the entry of its name,
  all of its entries, or none.
  `AuditComesFirst` says that a tenant's creation that is committing has its
  audit row already. `LockWaitsEnd` and `NotEveryoneIsBlocked` follow from
  `EntriesByPhase`: an insert waits for a name only on one that has entered it,
  such a one can wait for a slug only, and whoever has entered a slug has made its
  insert (`WaitsAreShort`). `CreationsKeepContract`
  maps the phase to the answer and the commit to the moment at which the creation
  takes effect. The insert looks at the values long before, with the audit record in
  between; that they are still free at the commit is `ValuesAreClaimed`, an
  uncommitted entry keeps its value from all others. `NothingIsHeldAfterwards`
  (`ConnectionsByPhase`, `EntriesByPhase`) is no property of a run.
* **`ChatEntryProofs`.** `TokenIsSound` is what an exchange preserves: a refresh
  token carries no roles and never outlives its own lifetime, so what it is
  exchanged for has none and ends one access lifetime later; a token with roles
  is that of a login. `LetIn` carries this to the request that bears the token.
  On the routing side, `StrongestExists` shows that the sort has a first element
  for every message (the CHOOSE in `Classified` is never of the empty set), and
  `EveryIntentIsServed` that each intent is somebody's capability; the rest
  follows by cases.
* **`RateLimitProofs`.** `WindowInv` counts a handler between INCR and EXPIRE as
  a place of the counter that is not yet used; such a handler is the only one,
  and the counter cannot expire under it. `BucketInv` is the bucket's bound with
  the remaining tokens added, at the tick they were counted; `RefillSplits`
  carries it to the present. `RateIsBounded` counts windows backwards from a tick
  at which the present counter may have opened: an interval that begins at most
  `m` windows before that tick has let in what this counter has and at most
  `Capacity` for each of the `m` (`WindowsBefore`). A counter that expires has
  lasted a window (`MayHaveOpened`), so the present tick is such a tick for the
  next counter, with one window more. Outside production what the buckets let
  in is counted apart (`Buckets`): the share of each worker that was restarted,
  and what the running one has let in. `WindowsCover` is the rounding in the
  statement.
* **`IngestionProofs`.** For `Chunker` the invariant keeps how far the chunks
  reach: everything before that point is covered, and the next chunk starts one
  overlap short of it. For `DocumentIndex`, `UploadsAreFixed`,
  `RecordsHaveOwners`, `SuccessIsIndexed` and `MemoryKeeps` say in which phases
  an upload owns records, how far it has got, and what the memory store still
  has. `AuditedStoredOrRefused` rests on `PutsAreAccounted`: each chunk before
  the next one is refused or has a record in its place, and OpenSearch loses
  none, as another upload that takes the place leaves one there.
  `OwnIdsKeepTenantsApart` proves the property that `DocumentTenants` violates
  under the condition the code does not establish, that no two tenants choose
  one document id (`IdsDivideTenants`).
* **`ToolProofs`.** For `ToolAuthz`, `LayersInv` says what a call at a layer has
  shown to the layers before it. `RecordsStayOwnOrPermitted` joins the ownership
  layer, which reads two arguments, with the tool, which reads one.
  `PermittedIsInScope` uses the policy tables: every role that holds a read
  permission is staff, and staff have no resource owner to be compared with. For
  `Decisioning`, both engines are monotone for every application and
  transaction: lemmas on cross-multiplied ratios, integer division and the
  clamps are put together term by term. `OffersCoverRequests` needs the capacity
  rule and `max_amount` to use the same bound (`AmountOfLimit` gives what
  truncation and rounding take off it), and so does `AmountIsWithinOne`,
  whichever side of the bound the two sets of roundings put its edge. That a
  better application is not refused by a rounding is `RoomWidens`, and that it
  gets no smaller amount when its own limit alone is rounded down is
  `TruncationImproves`.

**What is proved of liveness.** Each liveness property has a theorem about a
measure, the most steps that may still be taken: every step uses some of it up,
and a restart adds none (`RequestsRunOut`, `RunsRunOut`, `CallsRunOut`,
`CreationsRunOut`). The measure of a request belongs to it alone, so that no other
can keep it from its end. So no behaviour goes on for ever, for any number of
requests, rounds and attempts. That a request which has steps left can take one,
and that weak fairness makes it do so, is about ENABLED and stays with TLC; of the
creations, which do wait for each other's rows, `NotEveryoneIsBlocked` gives the
part of it that is about the state.

Only model-checked: the liveness properties themselves (`EveryRequestEnds`,
`EveryRunIsAnswered`, `EveryCallIsAnswered`, `EveryCreationEnds`). Every other
property of a passing run is a theorem.

## 6. Where code and documents disagree

Four runs show a disagreement as a counterexample.

* `GraphStaleCalls`: `agents/graph/graph.py:6` says the graph replicates
  `Agent.invoke`. `call_llm` sets `pending_tool_calls` only for a response that
  has some and nothing clears it, so after a final response the old calls are
  carried out again, round after round, up to the limit.
* `DocumentTenants`: `docs/architecture/15-multitenancy.md:8` calls the tenant
  the hard boundary at every layer. A record's id is the client's document id
  and the index (`rag/pipeline.py:154`), so in OpenSearch an upload replaces
  another tenant's record of the same id. A search still returns nobody else's
  text (`HitsAreOfOwnTenant`), and where tenants choose different ids nothing is
  taken away (`OwnIdsKeepTenantsApart`).

* `PolicyFallback`: `security/opa/tool_authz.rego:1` calls itself the policy that
  `tools/authz.py` consults, and wants one of three staff roles, the own tenant and
  an approval. `check_opa_policy` consults nothing. Its fallback passes any role
  with a truthy `_approved` argument, and a compliance officer without one.
* `TenantContexts`: `middleware/tenant.py:2` "sets the tenant context for the
  duration of the request", but only for a header that spells "Bearer" so;
  `api/dependencies.py:34` takes the scheme in any case and lets the request in,
  whose context is then empty.

Further disagreements were met while modelling. The models follow the code, and
no run states them.

| Code | says or does | Document or comment |
|---|---|---|
| `agents/base.py:120` | a run whose response the output guard rejects has no AgentRun row | `agents/base.py:4`, "Every execution is audited as an AgentRun" |
| `agents/base.py:202` | a run cut off at the round limit never reaches line 141, and its row gets the usage of another request, or `{}` | `docs/architecture/03-compliance.md:78`, every run records its `token_usage` |
| `agents/base.py:194` | `run_id` is the correlation id, neither unique nor looked up | `docs/architecture/07-reliability.md:33`, retried invocations "never double-record" |
| `agents/graph/graph.py:90` | a tool's exception becomes a `str`, whose `.data` raises two lines on | `agents/graph/graph.py:89`, "surfaced to the model as a tool error" |
| `agents/graph/agent.py:133` | the thread is the correlation id, on a graph cached per agent | `agents/graph/agent.py:6`, "per-run checkpoints" |
| `tools/authz.py:40` | any truthy `approval_ticket_id` among the arguments of the call passes | `tools/authz.py:37`, "an approved approval ticket id"; `docs/architecture/01-agent-architecture.md:86` |
| `core/security/rbac.py:50` | no role holds `document:read`, which `tools/document.py:22` requires | `tools/document.py:46`, staff may see "any document in the tenant" |
| `gateway/factory.py:55` | `complete` degrades to the mock inside the fallback loop, which then ends | `gateway/factory.py:74`, "Try preferred providers in order until one succeeds" |
| `gateway/factory.py:81` | the loop changes the provider and keeps the model | `gateway/factory.py:3`, "per-provider model defaults" |
| `middleware/ratelimit.py:51` | an error between INCR and EXPIRE leaves a key without expiry | `docs/architecture/04-data.md:62`, Redis keys with "TTL" |
| `middleware/ratelimit.py:54` | with Redis the limiter is a fixed window | `docs/architecture/11-api.md:25`, "token bucket" |
| `rag/vectorstore.py:92` | the response of a PUT is not looked at: what a success means is `AuditedIsStoredOrRefused`, with every chunk refused it means nothing | `api/v1/endpoints/documents.py:70`, "document indexed" |
| `rag/pipeline.py:191` | a shorter new version leaves the last chunks of the old one | `docs/architecture/09-rag.md:50`, "re-index on version change" |
| `rag/vectorstore.py:65`, `:115` | an empty list of permitted documents filters nothing | `docs/architecture/09-rag.md:41`, "Fail closed" |
| `api/v1/endpoints/tenants.py:66` | users and institutions are created without an audit row | `docs/architecture/00-overview.md:29`, "Every mutation ... is audited" |
| `api/v1/endpoints/auth.py:98` | an access token from a refresh has no roles: its bearer acts as a customer | `docs/architecture/11-api.md:8`, "rotate access token" |
| `api/v1/endpoints/auth.py:69` | a refresh token is stored nowhere and stays valid until it expires | `docs/architecture/02-security.md:36`, "revocable, hash-stored" |
| `api/v1/endpoints/auth.py:56` | the user id hashes the address as typed: one account has several ids | `api/v1/endpoints/auth.py:53`, which looks the account up in lower case |
| `db/session.py:25` | nothing reads the context variables | `db/session.py:4`, "model query helpers that are tenant-aware read this" |
| `agents/router.py:40` | a hint is looked up as a capability: an agent's key goes to the supervisor, which ignores it | `api/v1/schemas.py:54`, the example `"agent_hint": "customer_support"` |
| `agents/router.py:44` | the first capable agent is taken, and no permission is looked at | `agents/router.py:43`, "caller must be able to execute at least one candidate" |
| `db/session.py:39` | one pool serves all tenants | `docs/architecture/07-reliability.md:19`, "one noisy tenant can't starve others" |

## 7. What is left

Every module of the plan is there, and of the properties that the runs check
only the liveness properties are not theorems. Next would be an abstract
specification for the store (what is found is what was last indexed), shown to
be implemented as `RunLifecycle` and `CreationContract` are.

Not modelled, and why:

* the provider adapters and signing: external services, modelled as what they
  may answer;
* guardrails, PII masking and encryption: functions of text and bytes with no
  state; a guard's verdict is a free choice where it is asked;
* the event broker: nothing publishes and no consumer is registered;
* the agents' prompts and tool lists, schemas, settings, telemetry, migrations:
  data and declarations;
* the frontend, a thin client, and the infrastructure: outside the program.
