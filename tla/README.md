# Glass Box Chat: TLA+ models, checks and proofs

TLA+ modules for the backend under `src/glass_box_chat` (paths below are relative to the
repository), TLC configurations that check them on small instances, and TLAPS proofs for every
value of the constants. A module `X` is checked through `MCX`, and proved about in `X_proofs`.

## 1. Inventory

| Part | State | Operations | Talks to |
|---|---|---|---|
| Task distributor (`distribution/task_distributor.py`) | FIFO queue, worker loops, running flag, five counters | `enqueue_task`, `start`, `stop`, the worker loop, `get_metrics` | calls the handler registered for a task's prefix; puts error frames and sentinels into the task's event queue |
| Run and resume API, lifespan (`controllers/runtime_controller.py`, `main.py`) | one event queue per run | `POST /run`, `POST /resume`, read endpoints, worker start and stop | enqueues into the distributor; its SSE generator reads the event queue up to the first sentinel |
| Run service (`services/agent_run_service.py`) | none of its own | set up, stream events, complete or fail a run | the store, the trace engine, the handler that forwards its frames |
| HITL service (`services/hitl_service.py`) | none of its own | `resume_agent` | the store only |
| Runtime store (`sqlite_db.py`, `repositories/`) | sessions, tasks, events, HITL rows in SQLite | one committed statement per call | - |
| Trace engines | `MockTraceEngine`: none. `OrchestratorSkillAgent`: answer caches, memory, metrics, executor | `stream`, `build_final_payload` | executor, skills, search |
| DAG executor and resilience (`services/executor.py`, `runtime_resilience.py`) | results, completed, pending and in-flight nodes per run; breakers and node cache shared by all runs | start ready nodes, retry, time out, record outcomes | skills |
| Input analysis, gates, strategy (`input_analyzer.py`, `execution_gate.py`, `search_decision_gate.py`, `meta_reasoning_agent.py`) | none | what a prompt asks for, whether it needs the pipeline, a search, several paths | LLM, with rules as the fallback |
| Planner, router (`planner.py`, `semantic_router.py`, `tool_analyzer.py`) | none | choose a plan builder, ask for dependencies, check them for cycles, fall back to a sequence | LLM |
| Search providers (`search_providers.py`) | one breaker per provider, shared by all searches of the service | two providers at once, then all in turn, then the mock provider; rank documents | HTTP |
| Tools (`services/tools/`) | the finance tool's cache of quotes | a call with retries and timeouts; a chain of price feeds | HTTP, search |
| Skills (`skills.py`) | the breaker of the place extraction, of the class | one result per node, from tool, search and model | tools, search, LLM |
| Final response (`final_response_builder.py`, `result_formatting.py`, `answer_critic_agent.py`) | none | choose the answer, weigh it against the evidence, put a notice before it, review and augment it | search, LLM |
| Web client (`apps/web`) | trace, chat messages, hydration flags, one IndexedDB entry for all tabs | load the trace, send a prompt, read the stream, save | backend through the proxy |
| Web run proxy (`apps/web/src/app/api/chat/run/route.ts`) | none | validate the request and each frame | backend |
| `packages/` | none | interfaces, HTTP clients | - |

What makes these parts correct: a run is served once, by one loop, in order; its stream ends, and
what it said is what the store says; a store call that raises or a process that dies half way
leaves nothing that contradicts this; the counters add up; a stop drains; a node runs once its
dependencies are there and the executor ends; a breaker lets one probe through and recovers; a
search prefers what is real and says when it is not; a plan can be carried out whatever the model
says; what nothing supports reaches the user under a notice; the user of a page hears how each
turn ended.

Hard to test here: slices of several worker loops and request handlers interleave at each await;
each store call commits alone, so a failure leaves a prefix of a sequence of writes; the error
paths of service, handler and worker loop nest, and each puts frames of its own; state shared by
all runs (answer caches, breakers, node cache, quotes) is read after an await; nothing recovers
the tasks of a crashed process; every LLM call may fail or say anything; a page loads its past
while its user already makes the present. `PROJECT.json` lists the hazards with their lines.

## 2. Plan

1. `TaskDistributor`, `TaskStates`, `AgentRuntime` with the abstract `RunLifecycle`: the life of a
   run from request to closed stream. Present.
2. `CircuitBreaker` and `DAGExecutor` with the abstract `DagRun`: the executor with its breakers,
   cache, retries and timeouts. Present.
3. `PolicySearch` on `SearchProviders`: speculative and sequential tries, fallback, breakers under
   cancellation. Present.
4. `InputAnalysis`, `Planner`, `Tools`, `Skills`, `Answer` as functions of a prompt and of what
   models and services reply, composed by `Pipeline`: a prompt from analysis to reviewed answer.
   Present.
5. `ChatClient`: proxy, stream, hydration racing live events, two tabs. Present.
6. Proofs: the safety properties of `TaskDistributor`, `AgentRuntime` (with its refinement of
   `RunLifecycle`), `DAGExecutor` (with that of `DagRun`), `PolicySearch`, `ChatClient` and
   `Pipeline`, the last on what `SearchProviders_proofs` says of documents. Present.
7. Left: models of the paginated session queries and of the short-term memory.

## 3. Modules

### TaskDistributor
The event loop runs a coroutine up to an await that suspends, and a put into an unbounded queue
does not. So an action is one slice: `Enqueue`; `Start`; `StopRequest` (lower the flag, put one
pill per loop) and `StopReturn` (after the gather); for a loop `TakePill`, `TakeUnhandled` (the
whole early path: counter, error frame, sentinel), `Take` (up to the first await of the
handler), `Put` (a handler's slice that ends in an await) and `Return` (its last slice with the
loop's except and finally). `out[t]` is everything put into the event queue of task `t`; `late`
is a history variable for tasks enqueued while the distributor is stopped. The frames a handler
puts are a parameter, which a composing module chooses. Payloads and texts are left out.

### TaskStates
The states and the transition table of `sqlite_db.py`.

### AgentRuntime
One process and its store. It instantiates `TaskDistributor` as `D` with the runs as tasks.
`pc[r]` is where the handler of run `r` is: `new`, `queued`, `taken` (got by a loop), `started`
(agent_start streamed), `asked` (mock engine: waiting event streamed) or `answered`
(orchestrator: answer stored), `ended`, `lost` (its process died). `task`, `session`, `hitl`,
`asked` (order of requested_at) and `events` (number of rows) are the store; `answers` is
`_answer_payload_cache`; `client` is the generator behind the client's POST.

A slice of a handler writes a record of rows: `Row(r)` reads them, `SetUp`, `Asked`, `Succeeded`,
`FailedRow` and `Resumed` say what a complete sequence of store calls leaves, and the `...Cuts`
what is left when one of its calls raises. So each failing store call of the code is a
disjunct: `SetUpFails` (outside the service's try: the handler's sentinel comes before the
loop's error frame), `Abort` and `AnswerFails` (inside it), `FinishFails` (after the done frame),
and each leads into `FailureBranch`, which can fail in turn. `Crash` leaves any prefix of what
one run's next slice writes (`Torn`) and forgets memory. A resume is a whole action, because
`resume_agent` never awaits. `faults[r]` counts the calls of a run that did not happen. `latest` is a
history variable: the run of each session that a worker took last, which `SessionFollowsRun`
compares the session's row with.

Deviations: `Take` and the run's first slice are two actions although the code does not suspend
in between; nothing else touches a taken run, so no outcome is added. The trace events other
than the waiting event and the answer are `MaxEvents` anonymous ones. Identifiers are unique, as
`uuid4` makes them. One agent name asks (`AgentSummarizer`), so the resume path looks for the
newest waiting row of all.

### RunLifecycle
The promise without queues of frames, store calls and workers: requests are picked in order, at
most `Capacity` are worked on at once, each settles once, only the death of the process drops
any. `AgentRuntime!Lifecycle` maps `line` to `Line`, the entries of the queue that are runs (pills
come behind all of them), and `phase` to `PhaseOf`, where a run is and, once it is over, what its
task row says (`Outcome`).

### CircuitBreaker
A breaker as a record and the methods as functions on it, so that each user keeps its breakers
in a variable of its own. `cooling` stands for `opened_until > now`; `Cooled` is the clock.

### DAGExecutor
`execute_stream` is a generator: it stands at a `yield` (`"yielded"`, its consumer works) or in
`asyncio.wait` (`"waiting"`). `pending`, `inFlight`, `completed` are its collections, `done` what
the wait returned and is not yielded yet. `Schedule` is the outer loop's head with the inner loop;
`Wake` and `Report` are one turn of the loop over `done`, up to the yield; `End` and `Raise` leave;
`Abandon` is a consumer that raises between two updates, after which the tasks in flight run on.

A node's task (`task`, `attempt`, `result`) runs `_run_node_with_guard`: its first slice is
`Refuse` (no skill, input off its schema), `Hit`, `CircuitOpen` or `Call`; an attempt ends in
`Succeed`, `Fail` or `Retry`, and `Sleep` is the backoff. `Fail` allows every attempt, since an
error may be permanent. `breakers` and `cache` are shared by all executions.

A result is named by the execution that computed it, so `CachedFitsInputs` can say what a cached
one was computed from. Prompt and memory are the same for all executions: they are in the cache
key, so executions that differ in them share no entry. Two nodes with equal skill and input, which would share
an entry within one plan, are taken as different. Left out because the program cannot reach
them: a tool factory that raises (`executor.py:244`; none does) and an output `json.dumps`
refuses.

### DagRun
The promise of the executor without tasks: nodes run at most `Limit` at a time, once each, after
their dependencies. `DAGExecutor!Plan` maps `running` to `inFlight` and `done` to `completed`.

### Texts, Prompts
Search, planner, gates and tools look at a text through the hint words that occur in it. So a
text is the set of these words, `Mentions` is the test for one of a list, `FirstMention` a chain
of such tests. `Prompts` has the hint lists; of words that always occur together in the code's
branches one is kept.

### SearchProviders
The pure part: intent of a query, candidates of the policy, what each provider makes of its
services' replies (a reply is `Down` or a sequence of entries), tier, relevance and penalty of a
document, `Ranked`, and the worth of a page. Scores keep the code's weights, in ten thousandths.

The code's loops that sort, pick and add up are stated by their outcome. `Ranked` is the sequence
whose every document `Precedes` those not picked yet (`Picks`), by a `Standing` worked out from what
was picked before it, ties going to the earlier one. `Selected` is what a loop that skips
entries keeps, in its order; `TotalReliability` counts the hundredths of all documents.

### PolicySearch
`search[s]` is one call of `search_with_intent`: `idle`, `speculating` (both calls of
`asyncio.gather` are out), `asking` (the sequential round) or `done`. `Begin` makes both
speculative tasks at once, since nothing runs between them; `Answer` and `Timeout` are what
`_run_single_provider` does after its `wait_for`; `Settle` compares the two; `Ask` is one turn of
the sequential round, with the mock provider as its last. `Abandon` is the caller's timeout: a
`CancelledError`, which passes every `except Exception`, so no breaker hears of it. `breaker` is
shared by all searches. `Cool` waits for the calls of its provider: the recovery time is twenty
seconds, a call lasts four at most.

### InputAnalysis, Planner
`Analyze` merges the model's reply with the rules, `Decide` is the execution gate, `NeedSearch`
the search gate, `Strategy` and `ParallelPaths` the meta reasoning. `Plans(a, registered, replies)`
is the set of plans the planner can return for an analysis: one builder per kind of prompt,
routing of each task to a skill, `links` over the model's replies, the cycle check, the
sequential fallback, the tool of each node.

### Tools, Skills, Answer
`UseTool(tool, q, attempts)` is a tool's output for what its attempts come to; `Finance` and
`Cached` are the price chain and its cache, keyed by `asset` as the code keys it. Each of the
fifteen skills is an operator from its inputs to a result (`ok`, sources, text, claims, whether it
warns); the model's answer is one of `Sayings`: empty, down, unsure, grounded in the evidence,
invented. In the place of an empty one a skill puts a sentence of its own (`Inconclusive`), the fusion
first the text it was to work with. A data point carries the description of the task it was made for
(`Point`), cut off at 120 characters: in the model the planner's words, as one, and the prompt's hint
words. `PointClaim` is how ledger and answer write it down.
`Answer` has the choice of the final answer, evidence coverage, conflicts, niches, the notice, the
critic and the augmentation. The ledger of the evidence and the results of a kind are sets: how
well a claim is covered does not depend on their order. A niche is told by the site or by words: the
one metric a data point can have, `observed_value`, is of neither.

### Pipeline
`OrchestratorSkillAgent.stream` for one prompt after the other. `chat` is the prompt in hand:
`Receive` analyses and plans it, one action per skill carries out the next ready node,
`NodeFails` is the executor giving up on it, `Compose`, `Review` and `Deliver` end it. Between prompts only the
quotes and the extraction breaker are kept; `Age` and `Unblock` are the clock. Nodes run in the
order of the plan: their interleavings are in `DAGExecutor`, and no node sees another.

### ChatClient
`page[t]` is the page of a tab. `load` is where the hydration effect stands: the three requests
of `LoadHistory`, `LoadMetrics` and `Hydrate`, each an await during which the user may send. `conn` is
the POST of a turn; `wire[t]` are the frames on their way, `Proxied` what the route makes of one.
`logged[t]` is what the backend has stored, `stored` the one IndexedDB entry that the tabs share.
The backend is reduced to what `AgentRuntime` shows of it: it stores before it streams, and a run
ends with one of `Ends`, the silent one included. `known`, `past`, `early` and `heard` are history
variables of the page.

## 4. Runs

| Run | Shows |
|---|---|
| `distributor` | `OnePlace`, `MetricsAddUp`, `StopDrains`, `PillPerLoop`, and under fairness `QueuedIsServed` |
| `runtime_mock` | mock engine, two workers: `OneServer`, `OutcomeAgrees`, `WaitingIsResumable`, `StreamedIsPersisted`, `SettledIsFinal`, `ImplementsLifecycle` |
| `runtime_one_worker` | orchestrator, one worker (the default), under fairness: `OwnAnswer`, `SessionFollowsRun`, `StreamCloses`, `RunsEnd` |
| `answer_mix` | violation: with two workers a run streams the answer another run gave to the same prompt |
| `lost_error` | violation: a failing set-up closes the stream with neither done nor error |
| `no_resume` | violation: a run that asked its user completes without an answer |
| `executor_plan` | one execution of four nodes, two at a time, with retries: `NoSlotWasted`, `ImplementsDag`, and under fairness `ExecutionsEnd` and `HalfOpenIsLeft` |
| `executor_shared` | two executions share breaker and cache, a node of one waits for itself: `Accounted`, `BreakersSound`, `CachedFitsInputs`, `CircularVerdict` |
| `search` | two searches share their breakers, every service may fail: `RealAnswerWins`, `AskedAtMostTwice`, `MockIsDeclared`, `ProbesReport` (a half-open slot is lost only with a cancelled search), and under fairness `SearchesEnd` |
| `pipeline` | each kind of plan, models and services that fail anywhere: `PlanIsExecutable`, `NoErrorShown`, `WarningReachesUser`, `MockStaysOut` |
| `wrong_asset` | violation: a prompt about crypto that names no coin is answered with the cached price of gold, or the other way round: both have the key of gold |
| `client` | a page that loads its past while it chats, a reload, another tab: `EachTurnIsTold`, `OnlyTheGapIsLost` |

Each property of a passing run has a mutant: a `Bug...` operator beside the definition it
replaces, a mistake that code could contain, under which TLC finds the property violated.

Bounds. Two runs of one session with one prompt are the case in which runs can disturb each
other, and the session's row with them; two loops let them overlap, one loop is the default deployment. `MaxFaults = 2` lets the
failure branch of a failing slice fail too, which is as deep as the error paths nest.
`MaxBoots = 2` is a crash or a stop and what a later process finds. Three tasks and two loops in
the distributor give a queue longer than the pool, with one task that has no handler. The runs
are symmetric in the mock configuration (its properties are safety), and so are the loops.
`CHECK_DEADLOCK FALSE` is set for the backend: with all boots used and all runs over it stops.

Executor: the plan of `executor_plan` has more ready nodes than slots, a rejected node, a join,
two skills, a retry, and a breaker that one failure opens: small enough for liveness. In
`executor_shared` two executions of one skill with a threshold of two are the least in which a
probe is out while an answer from before the breaker opened is still to come; one node feeds
another, one bypasses the cache, and one waits for itself, so that every execution ends in a
verdict. The planner sends no circular plan (`PlanIsExecutable`), but the executor accepts any. The executions are
symmetric there. These models need no `CHECK_DEADLOCK`: `AllOver` is their end.

Search: two searches of which one may be asked for two things; `Limit = 2` makes the ranking drop
a document; thresholds of two let a breaker open while a call admitted before is still out; a
service is down, has nothing, or has three documents. Two modes suffice: `live` differs from
`hybrid` only in its name.

Pipeline: nine prompts, one for each plan builder with its special cases; searches that find two
contradicting sources, a place with one figure, invented documents or nothing; models that fail, say
nothing or answer; feeds that are silent, wrong or right. The figures give analyses data points with a
conflict between them and without. 552 thousand states. A prompt at a time is enough for what the
quotes and the breaker carry over, since both are compared with the prompt in hand.

Client: two tabs because they share one place of storage; two prompts and one reload let a run go
on that no page listens to while the next one starts; two events are the least that can be out of
step. Its pages may stop for good, so deadlock is not checked.

Fairness. Each loop and each open SSE generator is weakly fair: the event loop runs whatever is
ready, and each await inside a handler is a sleep, a bounded wait or a call that returns.
Generators and tasks of the executor are fair likewise: `wait_for` bounds an attempt, and the
consumer asks for the next update or gives up. For a search, `wait_for` ends every call and the
event loop goes on with every coroutine that can. Requests, answers, disconnects, stops, crashes and
faults are not fair: they just may happen.

## 5. Proofs

Thirty-five theorems in eight modules. Each safety property of a passing run is one of them.

`TaskDistributor_proofs`, `AgentRuntime_proofs` and `RunLifecycle_proofs`, which extends the latter, assume
`DistributorAssumption` and `RuntimeAssumption`: identifiers differ
from the queue's markers, the set of loops is finite and not empty, bounds are natural numbers.
Nothing bounds the number of runs, loops, events, faults or restarts.

`TaskDistributor_proofs`

| Theorem | Argument |
|---|---|
| `TypeCorrect` | `TypeInv` adds two facts to `TypeOK`. `inflight` equals the number of busy loops: else a return could take it below zero. An empty pool has exited loops only: else nothing forbids a get after `stop()` |
| `OnePlaceHolds` | inductive with `TypeOK`; the only hypothesis on the caller is that a task is enqueued once |
| `StopDrainsHolds`, `PillPerLoopHolds` | from `DrainInv`: while the pool runs nothing is late; a task queued behind all pills is late; the pills match the loops still alive. That the last loop exits with an empty backlog needs the order of tasks and pills in the queue, not only their numbers |
| `MetricsAddUpHolds` | `MetricsInv` needs `OnePlace`: a get removes one element of the set of queued tasks only if the task is queued once |

The lemmas speak of one action at a time and leave open what a handler puts, so that the backend
can use them as they are.

`AgentRuntime_proofs` instantiates the module above as `DP` (lemmas `Bridge...` identify its
actions with those of `D`). `NextDist`, `NextStore` and `NextMemory` reduce the steps to what
they do to the distributor, the store and the rest. `HandlerStep` reduces the nine actions of a
handler to two: `Progress` persists and streams one message, `Ends` writes a last row, puts one
of four tails of frames and, by `Agrees`, relates the two. The invariants are proved against
those.

| Theorem | Argument |
|---|---|
| `TypeCorrect` | `TypeInv`: that of the distributor, the store's and the rest |
| `OneServerHolds` | `PlaceInv` is inductive: `pc` follows queue and loops, and `OnePlace` is needed to know that a taken run is not queued any more |
| `WaitingIsResumableHolds` | a slice that leaves a waiting task without its row, and a torn resume, are charged to the run |
| `SettledIsFinalHolds` | `LiveInv`: a run before its first slice has no row, and one inside the engine is RUNNING or WAITING. Handlers write only for such runs, resumes only where the transition table allows RUNNING |
| `OutcomeAgreesHolds` | `OutInv`: the stream of a run that has not ended holds messages only. Needs `LiveInv`, so that COMPLETED is not older than the last slice, and `SettledIsFinal` for later resumes |
| `StreamedIsPersistedHolds` | each message adds a row, no other frame counts, no row is ever taken away |

`RunLifecycle_proofs`

| Theorem | Argument |
|---|---|
| `ImplementsLifecycleHolds` | `RefInv` adds `LineInv` to the invariants above: runs are the first entries of the queue, since a stop puts its pills behind all of them and a process starts with none, so that `Line` is a sequence which a request extends and a worker shortens at its head. Each action is then one of the lifecycle or leaves `Line` and every `PhaseOf` alone; a loop that picks a run was free, so fewer than `Capacity` were worked on. A crash needs `LiveInv`: whatever prefix of its rows a run has written, it settles |

The other theorems of `RunLifecycle_proofs` are about the runs of one process with one worker loop,
as `TASK_WORKER_COUNT` is by default: they assume `OneWorker` besides. With two loops TLC finds `OwnAnswer` violated (`answer_mix`).

| Theorem | Argument |
|---|---|
| `OwnAnswerHolds` | `AnswerInv`: the answer kept under the prompt of an answered run is that run's. With one loop the run that stores an answer is the only one being served (`ServedAlone`), so none comes between a store and its read |
| `SessionFollowsRunHolds` | `SessionInv`, for runs none of whose store calls raised: each slice of a handler writes the session's row along with the run's (`SessionMoved`), no other run of the session is served meanwhile, and one that is taken later becomes `latest`. What earlier runs left, or lost, does not matter |

`DAGExecutor_proofs` first shows that each method keeps a breaker `Sound`, that `record_failure`
leaves none half-open and that `allow_request` makes one half-open only with a request let
through. It assumes `ExecutorAssumption` and
`BreakerAssumption`, nothing about the number of executions or the shape of the plan, which may
be circular.

| Theorem | Argument |
|---|---|
| `TypeCorrect` | `TypeInv`: only an attempt that is not the last sleeps; breakers stay `Sound` |
| `AccountedHolds` | inductive with `TypeOK`; a step of a task moves no collection (`TaskStep`), one of a generator is a start, a stop or a `Yield` (`GeneratorStep`) |
| `NoSlotWastedHolds` | `Schedule` establishes it, and nothing else moves a waiting generator |
| `CircularVerdictHolds` | nothing ready and nothing in flight means that each node left waits for another one left (`StuckIsCircular`); conversely the nodes of a circle never leave `pending` (`CirclesWait`), so none is left when an execution ends; a verdict is never taken back (`VerdictStands`) |
| `BreakersSoundHolds` | `ProbeOut`: who asks leaves the set of asking tasks only with an answer, which takes the breaker out of half-open |
| `CachedFitsInputsHolds` | `EntriesTrue`: an entry holds what its execution computed from the outputs in its key. Needs `DependenciesFirst` and that results are never overwritten |
| `ImplementsDagHolds` | every step is a `Start`, a `Finish` or a stutter of `DagRun`, by `Accounted` |

`ChatClient_proofs` assumes only `ClientAssumption`: bounds are natural numbers. `IInv` is the
conjunction of three parts that are inductive together.

| Theorem | Argument |
|---|---|
| `TypeCorrect` | `TypeInv`: nothing follows the end of a stream, so a page that closes its connection leaves no frame behind; the stream of a run that goes on holds messages only |
| `EachTurnIsToldHolds` | `TurnInv`: what is still on its way and what was told agree with how the run ended, so a close that says nothing comes only from a run that said nothing |
| `OnlyTheGapIsLostHolds` | `GapInv`: each message on its way is stored by the backend, new to the page, and comes once. Until the trace is loaded the page shows what it heard; afterwards what it shows of its own session was loaded or heard |

`SearchProviders_proofs` is about documents of any number, for any query. Nothing is assumed but that
titles and snippets are finite and reliabilities are numbers.

| Theorem | Argument |
|---|---|
| `RankedAre` | A ranking exists, so that `Ranked` is one: of the documents left one always precedes all others (`OneIsForemost`, by the one preceded by fewest; a `Standing` ends with the place in the list, so no two are level), and the least length without a ranking would be that of a ranking prolonged by this document (`RankingExists`) |

From it follow, for use below, that a ranking only shows what it was given (`RankedDrawn`), that each
provider but the mock one answers with documents that have a score and that it did not sign as
`mock` (`DuckDuckGoGenuine` to `ReferencesGenuine`), that the worth of a page is a number
(`QualityScored`), and that a page of the mock provider is worth no more than a whole confidence
(`MockScored`: two documents at the most, no more than 35 hundredths reliable, none of them live).

`PolicySearch_proofs` assumes `SearchAssumption` (thresholds and the limit are positive, queries are
finite) and `ReplyAssumption`: services reply with documents of finite texts, and none of them signs
as `mock`: a news article is signed by its source (`search_providers.py:999`), and no newspaper is
called that.

| Theorem | Argument |
|---|---|
| `TypeCorrect` | `SearchInv`: searches meet only in the breakers, so it is one `RowInv` per search, kept by a lemma per operation (`TakenRow`, `SettleRow`, `AskRow`). `Typed` bounds the turn by the line-up, which names each provider once |
| `RealAnswerWinsHolds` | `Kept`: the sequential round goes on only while no real provider gave anything, and of at most two speculative pages `Settle` takes one that is worth no less (`BestOfTwo`) |
| `MockIsDeclaredHolds` | `Kept` for what is answered; `Awaits`: the mock provider is asked only where it is allowed. That the half confidence of a fallback is no more than 50 is `MockScored` |
| `AskedAtMostTwiceHolds` | `Went`: the providers tried are the speculative two, and then a beginning of the line-up, in its order |
| `ProbesReportHolds` | a step that takes the last call to a provider off every search is its answer or its timeout, and both leave the breaker with no probe out, or it is `Abandon` |

`Pipeline_proofs` assumes `PipelineAssumption`: prompts are sequences of texts, what the model says to
a skill is one of `Sayings`, searches and tools return documents of finite texts, and no word of a
text (`Wording`) is an address (`Addresses`). A line with an address in it cites a source and is no
claim, so the assumption says how texts are read and not what they say. Replies to analyzer,
gates, planner and critic, what searches return and the feeds may be any.

`ChatInv` is the invariant. Of a plan it says that it is shaped and fits its kind, of each result
that it is `Fine`: its sources are documents, its text makes finitely many claims, each of words of
`Wording` only, nothing but an analysis has data points, and these are about a text of the plan (`Charted`). A lemma per skill shows that it returns
such a result from such results (`ResearchFine` to `ItineraryFine`), whatever the model says. Results
of research are `Clean` besides: no source is an invented one.

| Theorem | Argument |
|---|---|
| `PlanIsExecutableHolds` | `Shaped` (names of their own, needs within the plan, no group in which each waits for another) and `Concluded` (one node hears of all). `Extended`: a node behind all it needs keeps a plan shaped, which builds up the six fixed plans (`DirectShaped` to `TravelShaped`). A plan of tasks has no cycle because `HasCycle` said so or because it is sequential (`SequentialFits`, by the least node of a group), and its names suffice because an analysis has four tasks at most (`AnalyzedWell`, `FewTasks`) |
| `TypeCorrect` | results are of nodes of the plan and `Apart`. Every handler of a node ends one that had not ended (`OneNodeEnds`, `NodeEnds`) whatever its skill returns; quotes stay what the price chain makes of them (`Keeps`), the breaker is typed |
| `NoErrorShownHolds` | when no node can run all have run, since no group waits for itself (`AllHaveRun`). Then the node that ends the plan is among the results, or the plan has one node and at most one task has a result: so a failure is never shown beside another task's claims (`SelectionSound`) |
| `MockStaysOutHolds` | `Filter` keeps no invented document and adds none, and when the tool fails the documents of the search are filtered as well (`ResearchFine`, `ResearchReturns`) |
| `WarningReachesUserHolds` | an answer is composed of the results (`payload = Payload`). Evidence is the documents the research cites and what the ledger says of data points. Claims that share no two words with any are covered by no entry of the ledger, which holds nothing else (`LedgerIsEvidence`, `NotSupported`), so less than half of them is and the notice is put before them (`UnsupportedNoticed`). A notice of the last skill stays in its text (`NoticeStays`); a plan ends with synthesis or fusion and never has both (`Concluded`), so that text is the one chosen (`Noticed`) |

Only model-checked: the liveness properties (`QueuedIsServed`, `StreamCloses`, `RunsEnd`,
`ExecutionsEnd`, `HalfOpenIsLeft`, `SearchesEnd`). The finding `QuoteIsOfAsset` and the other
violations are runs.

## 6. Not proved, and not modelled

Liveness and everything that involves ENABLED is checked by TLC only. About the functions of `Planner`
the proofs say that every plan is shaped, and not which plan a prompt gets; about those of `Answer`
when a notice is put before an answer, and not the figures of its coverage and niches.

Not modelled: the session query service (it reads, page by page), the Gemini engine and the LLM
backends (one call each: what a model may say is a constant), the runtime insights view (it shows
fixtures), the clients in `packages/`, `ConflictAnalyzer` (nothing uses it), the search chain of the
legacy mode, the short-term memory, a tool factory that raises (`executor.py:244`; none does).
Left out on purpose: the wording and layout of events and prompts, SQLite's own locking (each call
opens a connection, commits and closes), the requests behind a tool or provider and the parsing of
what they return, and the read-only endpoints.

### Deviations without a run
Places where the code does something else than its comments, names or docs suggest; the models
follow the code.

- `answer_critic_agent.py:246` lets the model report `hallucination`, while the augmentation
  listens for `potential_hallucination` (`orchestrator_skill_agent.py:687`): it is never heard. A
  reply of the critic that cannot be parsed counts as no issue.
- `orchestrator_skill_agent.py:669` reads `coverageRatio` with `or 1.0`: a coverage of zero counts
  as full, so an answer without any evidence is not augmented for its coverage.
- Augmentation and `LocalDiscoverySkill` do not filter mock documents, unlike `ResearchSkill`
  (`skills.py:142`), so that `MockStaysOut` is about research nodes only.
- The line that cites `tool://calculator` (`skills.py:229`) is counted as a claim, and as one the
  evidence bears out: `WarningReachesUser` promises no notice over unsupported claims when the
  calculator is in the ledger.
- What the ledger says of a data point (`result_formatting.py:268`) begins with the description of
  its task (`skills.py:818`), so that a claim the model invented counts as covered when it repeats two
  words of the task. `WarningReachesUser` counts what the ledger says as evidence and promises no
  notice over such a claim.
- `result_formatting.py:549` keeps ten contradictions, said to be the most significant, in the order
  found. `niche_balance` (`:718`, 0 to 1) is between one half and one (`:744`).
- `skills.py:1963` promises that no hard failure is returned; a model that fails is one.
  `skills.py:2146` says signals are blended; the second one's text is not in the prompt.
- `tools/weather_tool.py:30` sets `tool_fully_orchestrated` "in all cases"; a timeout in the gateway
  does not.
- `tools/finance_tool.py:412` takes any number between 800 and 6000 on a page for the price of gold. A
  prompt that mentions gold and bitcoin stores gold's price under the key of bitcoin. A timeout skips
  the stale cache.
- `input_analyzer.py:353` says rules never override the model's intent; a word of the market, of
  places or of trips does (`:387`), whatever the model's confidence.
- The answer of the search gate and the parallel paths are told to the user and change nothing.
- A search that is cancelled while it probes keeps the half-open slot of its breaker for good: the
  provider is refused from then on (`search_providers.py:1522`; `ProbesReport` says that nothing else
  loses a slot).
- `docs/agent-execution.md:250` ends a run when a node fails for good; the executor counts the node
  as completed (`executor.py:131`) and the run goes on.
- The backend may send more than twelve sources; the proxy's schema refuses the frame
  (`packages/types/src/chat-schemas.ts:122`) and the user sees an error in place of the answer.
- `use-chat-runtime.ts`: the hydrated trace replaces live events (`:179`), its metrics may overwrite
  newer ones, traces are sorted by time of day, and of two tabs the last writer's trace is kept.
