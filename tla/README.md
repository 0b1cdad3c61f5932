# Verification of prd2tsd in TLA+

prd2tsd turns product requirement documents into technical specification
documents. A FastAPI service accepts requests and hands them to a task manager;
the task manager drives a LangGraph state machine (intent, retrieval, analysis,
planning, generation, evaluation, human review); every LLM call on the way goes
through a gateway with rate limits, budgets, circuit breakers and failover. Around
them are services with state of their own: documents, sessions, a knowledge base,
web indexing, webhooks, batch jobs, a semantic cache and a model configuration.

These modules model the control of that program: who may do what when, in which
order shared state is read and written, what a crash, a rollback or a cancellation
leaves behind. Texts, prompts and scores are inputs. TLC checks every module on a
small instance; TLAPS proves every safety property the runs check for all values of
the constants.

Paths below are relative to the repository root.

## 1. Inventory

| Component | State it keeps | Operations | Interacts with | What makes it correct |
|---|---|---|---|---|
| Circuit breaker `app/core/circuit_breaker.py` | state, failure count, half-open count, time of the last failure | `call`, `_on_success`, `_on_failure`, `is_available`, `reset` | one per provider, shared by all gateway calls | the state matches the count, the number of trials is bounded, a healed provider is used again |
| Task manager `app/task_manager.py`, `task_manager_store.py` | in-memory records, `task_runs` table | `create_task`, `_execute_task`, `resolve_review`, `_resume_task`, `_update_result`, `_mark_failed` | drives the graph by `astream()`, publishes events, is called by routes | one driver per task, one resume per pause, an end is final and true |
| Event bus and SSE `app/streaming/`, `app/api/routes/stream_generate.py` | channels with bounded queues | `publish`, `subscribe`, `unsubscribe`, the SSE generator | task manager to HTTP clients | the end of a task reaches its subscribers |
| Orchestrator graph `app/orchestrator/` | `OrchestratorState` in checkpoints, runtime registry | nodes, conditional edges, `interrupt()` | task manager, layers, recorder | the loop ends, only evaluated results are assembled |
| Decision recorder `app/observability/replay/` | open and stored traces | `start_trace`, `record_decision`, `end_trace` | nodes of the graph | no open trace is left behind, a stored one is complete |
| LLM gateway `app/llm_gateway/__init__.py`, `failover.py` | breakers, failover chains | `complete`, `stream_complete`, `embed`, `rerank` | all layers; limiter, budget, cache, guardrails | reservations are settled, answers are paid once, breakers are respected |
| Rate limiter `rate_limiter.py` | request log per workspace, custom limits | `check`, `reserve`, `reconcile`, `set_limit`, `reset` | gateway | the log is the account of the window, admissions stay within both limits |
| Budget and cost `budget_controller.py`, `cost_tracker.py` | ledger, configuration, records | `check`, `record_usage`, `set_budget_config` | gateway | ledger and tracker agree, the overshoot is bounded, updates add up |
| Semantic cache `cache.py` | memory, table with embeddings | `get`, `set`, `lookup`, `store` | gateway | what is served was made for a similar prompt, by the model asked unless there are images, and is not too old |
| Model configuration `config_manager.py`, `app/core/config.py` | rules of four layers | `resolve_rule`, `update_routing_rule`, `update_config` | gateway, routes | a request changes what it names, layers override each other in the documented order |
| Providers and capabilities `providers/`, `capabilities/` | - | embedding, reranking with local fallbacks | gateway, builds | vectors that are compared come from one model while the remote model stays and answers |
| Guardrails `guardrails/` | patterns | `check_input`, `check_output` | gateway | a request with no usable provider is turned away |
| Session history `app/session_history/` | `sessions`, `session_messages` | create, append, compress, delete, clean up | last node of the graph, routes, batch | turns have no gaps, an exchange is stored as a whole, the context fits |
| Document management `app/document_management/` | `uploaded_documents`, object storage | upload, deduplicate, delete, reindex | routes, batch | a row has its object, equal contents have one row |
| Knowledge layer `app/knowledge_layer/` | graph store, vector store | `build_from_text`, `retrieve`, aging | batch, routes, graph | the stores agree after any failure, entities are not duplicated, results fit the query |
| Web indexing `app/web_indexing/` | frontier and results of a crawl | crawl, fetch, sync | routes, knowledge layer | nearest pages first, no URL twice, none forbidden |
| Batch `app/batch/` | `batch_tasks`, Celery messages | scheduled jobs, records of the routes | documents, sessions, knowledge layer | what is sent is run |
| Webhooks `app/integrations/` | memory and table of subscriptions | register, unregister, list, notify | routes, last node of the graph | exactly the URL last asked for is called |
| HTTP API `app/api/` | - | the unified entry `/interact` in two modes, forwarding routes | everything | both modes agree, a stream ends once |

Security, authentication, the four layers of LLM prompts, the evaluation formulas,
table definitions and connections are listed in `PROJECT.json` with the reason for
leaving them out.

### What is hard about this code

* **Interleaving.** Everything runs on one event loop; each `await` is a point
  where other requests go on. The rate limiter is also used from threads. Task
  records change under a lock, but the table is written after it is released.
* **Transactions.** `get_db_session()` closes its session without a commit and the
  services only `flush()`: what a route writes lives until its request ends, locks
  included. The graph's last node and one script commit.
* **Two stores.** Object store and table, graph and vectors, memory and table,
  ledger and tracker are written one after the other with nothing around them.
* **Restarts.** Tasks, subscriptions and cached answers live in memory with a table
  behind them; checkpoints may or may not survive.
* **Cancellation.** Neither the breaker nor the gateway has a `finally`, and
  `CancelledError` is no `Exception`.
* **Inference across a boundary.** The task manager takes from the last chunk's
  `status` whether the graph ended or stopped, though what a chunk is depends on a
  stream mode that nobody names; an embedding that was refused looks
  like an embedding; a job is a name the worker may not know.
* **Late results.** A call reports to a breaker that has moved on, a usage is
  reconciled after its reservation has left the window, a build writes what it
  resolved against an older graph.

`PROJECT.json` lists each hazard at its line, with the properties that cover it.

## 2. Modules

| Module | Role |
|---|---|
| `BreakerOps` | the critical sections of a breaker as operators on a record; used by the next and by `LLMGateway` |
| `CircuitBreaker`, `CircuitBreakerProofs` | one breaker with concurrent callers |
| `TaskLifecycle` | abstract: what the status of a task means to a client |
| `TaskManager` | task manager, table and restarts; implements `TaskLifecycle` |
| `TaskStreams`, `TaskStreamsProofs` | `TaskManager` composed with the event bus and the SSE generators; the proofs about both |
| `GraphStatus` | the statuses and decisions shared by task manager and graph |
| `GraphRun` | abstract: a graph run as the task manager sees it |
| `OrchestratorGraph`, `OrchestratorGraphProofs` | the main graph; implements `GraphRun` |
| `LLMGateway`, `MCLLMGateway`, `LLMGatewayProofs` | `complete()` and `stream_complete()` with failover, breakers, reservation and billing; each provider's breaker implements `CircuitBreaker` |
| `Knowledge`, `MCKnowledge`, `KnowledgeProofs` | builds over graph and vector store, entity resolution, aging |
| `Retrieval` | one call of the retrieval pipeline with its reflection rounds |
| `Embeddings` | `embed()` and `rerank()`, the embedder of a build, the vector table |
| `Documents` | upload, pages, deletion, reindexing, the indexing job |
| `Sessions` | the transactions on a conversation, and the memory a run loads |
| `Compressor` | the node `compress_memory` and the context compressor |
| `Interact` | the unified entry: intent, synchronous reply, event stream |
| `SemanticCache` | exact and semantic lookup, expiry, storing |
| `ModelRouting` | four layers of rules and the requests that change them |
| `RateLimiter` | the sliding-window limiter of one workspace |
| `Budget` | checks, records and configuration updates of one workspace |
| `WebIndexing` | crawl, fetch and sync of a site |
| `Webhooks` | subscriptions over memory and table |
| `BatchTasks` | records of the batch routes, the schedule and the worker's registry |
| `Services` | thirteen of these services as one system, their assumptions and their properties |
| `MCServices` | the constants of `Services` for TLC |
| `ServicesProofs` | sessions, documents, webhooks, retrieval, the unified entry, web indexing |
| `MeteringProofs` | limiter, budget, cache, embeddings, compressor, model routing |
| `SumTheorems` | sums over finite sets, counting and induction on subsets |

### How the models correspond to the code

**CircuitBreaker.** `call()` takes the breaker's lock twice, for admission and for
the result; each critical section is one action (`Call`; `Succeed`, `Fail`), and the
protected function runs in between without it. `Cancel` is `CancelledError`, which
skips both callbacks. `failures` saturates at the threshold and `since`, the age of
the last failure, one past the recovery window: the code compares them with these
bounds and nothing else. `trial` is a history variable. A stale success closes an
open breaker, as in the code.

**TaskManager.** Each worker is one coroutine, with `step` the await it has
reached. `mem` is the status in the in-memory record, `store` the one in the
table; both change in separate steps as in the code (`MemPause`, `StorePause`,
`EmitPause` and so on). `graph` is the checkpointed thread, which is external:
`FirstInterrupt`, `NextInterrupt`, `NoChunk`, `StreamEnds` and `StreamRaises` are
what `astream()` may do. It is called without a stream mode, and a compiled graph
then yields `updates`: `{node: update}` and, at a review, `{"__interrupt__": ...}`.
None of these has a status, so `Recorded` makes of each last chunk the default of
`get("status", "complete")`. With `values` a chunk would be the state, and its status
one that `OrchestratorGraph` justifies. `StreamModes` says which chunks there may be;
the run `tasks` and the theorems cover both, so that what they show does not rest on
that default, and the run `first_review` is about the default alone. In `values` mode
the status does not tell a second review from an end either (`NextInterrupt`). `Resolve` covers the record in memory and the one found in the table after a
restart. `Crash` empties memory, ends all coroutines and may lose checkpoints. The
list of pending reviews only reads and is left out (it asks the table only when no
task in memory is paused, so one fresh pause hides the older ones).

**TaskStreams.** A publish is atomic: the bus copies its queues under a lock that
is never held across an await, and `put_nowait` does not wait. A generator sends
its initial events (`snapshot`), subscribes (`live`), and delivers until the first
`done` or `error`. A full queue drops what does not fit.

**OrchestratorGraph.** An action is one node with the edge taken from it, as
LangGraph checkpoints them together. A thread at a review has been interrupted.
The reports range over all combinations of the scores, dimension scores and
critical flags. `skip` stands for the tenant setting and the admin role that
`needs_review()` reads. A review answered with `needs_changes` goes on, as the edges
of `main_graph.py` have it.

**LLMGateway.** The steps are cut at the awaits that touch shared state. Both
entry points are one model with `kind`: `complete()` passes an exception after the
answer to its caller, while the `except` of `stream_complete()` spans everything
up to the release of the answer and goes on with the next target
(`RaiseAfterwards`). Whether the limiter admits and whether the cache hits is left
open; their own modules say when. `Refused` is the breaker refusing, or in a stream
the provider factory raising before the breaker is asked.

**RateLimiter.** `reserve()` is `Check` and `Reserve`, its two critical sections.
Timestamps are kept as ages. `record()` is called by no application code; it is
the append that `Reconcile` makes for a purged entry. `set_limit()` and `reset()`
may come at any time.

**Budget.** `Check`, the call and `Record` are separate steps; the period may end
between them. A downgraded call keeps the expensive model as its fallback
(`llm_gateway/__init__.py:270`), so every call may cost any of the `Prices`; `kept`
counts what the calls cost that were not downgraded. `ReadForUpdate`, `Find` and `Commit` are the read, the second read and
the write of `set_budget_config()`. Any access to the store may fail: then the
configuration is the default, the cost zero and the record lost. The controller
only ever downgrades, it refuses nobody.

**Knowledge.** A build reads the graph once (`Extract`), then writes nodes, edges,
chunks and vectors row by row; any write may end it (`Fail`), and what is written
stays. Entities get a fresh id per build, relations one that is made of their ends.
Every row is stamped with the time of its own write (`at`), and the clock may go on
between any two steps; `since` is history, the time at which the build that wrote a
relation began to write. There is one clock: the times of the application and of
Neo4j are taken to be the same. The aging policy takes its cutoffs from the time it
starts at and marks entities, then relations, in two steps with builds and time
between them; the three statements of one half change disjoint sets of rows and are
one step. `Same` is any reflexive and symmetric relation of names: aliases are not
transitive in the code either. The limit of 10000 entities that the resolver reads,
and neighbours (`get_neighbors` puts a parameter into a path bound,
`graph_store.py:284`), are left out. How a build ended makes no difference to the
stores, so `over` is all that is left of it. With two instants rows are of two ages: a
cutoff can fall between the writes of one build, and the policy can run before and
after; entities and relations are archived, but neither downgraded nor deleted with
these thresholds. The theorems hold for every clock and all thresholds.

**Retrieval.** A document is the engine that found it and the query it was found
for. The results of a round replace those of the one before; a refined query loses
its rewritings and linked entities. The route passes any string as the mode and any
number as `top_k`: `other` is a mode no engine knows, and `Kept` is the slice
`[:top_k]`, also of a number that is not positive.

**Embeddings.** A vector is known by the model it is from. A refused call answers
`[[0.0]]` or an empty order; a capability that raises leaves its reservation in the
window, because neither method has a `finally`. All embedding calls share the
workspace `""`. Which remote model is asked can be changed by a request at any time
(`Configure`). The column has 1024 dimensions by default, like the local model and
Cohere's default and unlike OpenAI's (1536): TLC checks one remote model of each kind.
`swayed` remembers that a remote model that fits the column has failed or been
replaced.

**Documents.** Each client has one database session; rows it has written are its
own (`tx`) until it commits, which only scripts do. Updates lock rows. `RunJob` always
fails before it reads the row: no Celery worker opens the connections that
`connection_manager.get()` wants (`batch/tasks.py:75`). Readers are part of the
model as operators (`Listed`, `Preview`, `Readable`).

**Sessions.** One transaction per run (`SaveSessionNode`) and per request. Isolation
is READ COMMITTED with autoflush; a duplicate key waits for the transaction that
holds it, an UPDATE for the lock. `ReadTurn`, `Insert` and `Touch` are the statements
of `add_message()`. Only runs commit.

**Compressor.** A message is its position and its integer estimate of tokens.
Protected messages are those the compressor never drops. In the application no
compressor has a gateway, so `summarizes` is decided once; both cases are checked.
`Rolling` is the set the loop ends with: estimates are not negative, so a message is
kept exactly if it and all newer ones fit.

**Interact.** `Sync` is the reply as a function of the request and of how services
answer (`world`); the stream is a state machine of events. The intent classifier is
part of it, with its patterns as sets: upper-case patterns never match the
lower-cased input, and `hi` matches inside other words.

**SemanticCache.** Embeddings are the relation `Similar`; time advances between
requests. `Store` may be under another model than the one asked, after a failover.
`Pictures` are the prompts with images, whose key holds a digest of these: they are
looked up and set in the memory only (`StorePicture`), by `complete()` under the model
asked for and by `stream_complete()` under the one that answered.

**ModelRouting.** Rules come from requests, environment, file and code. `Overlay` is the
update of a dictionary. Names are not empty: `""` is what an unset field holds. A rule found
under the layer's name in a higher source wins over the task's own in a lower one. A
rule stored under a name that is not in normal form is never looked up.

**WebIndexing.** Links, outcomes and texts of a page are chosen when it is fetched.
Links lose their fragment, the URL given to start with does not: `Start` is a URL of
its own unless it is spelled as links are, and `Home` the page it shows. The
configuration has a start in another spelling; the theorem covers both.
`Build` takes the fetched pages one by one in
their order; one that raises ends the request with the rest not indexed. `POST /sync` makes a
scheduler of its own, so it never reports a change.

**Webhooks.** The hub's memory changes at once, the table in a later step that may
fail; a restart empties the memory and loses requests under way.

**BatchTasks.** Every request has a service and memory of its own. `update_progress`
has no caller, so records stay as they were created.

## 3. What is checked

| Run | Shows | Bounds |
|---|---|---|
| `breaker` | `TrialBound`, `Recovers` | 3 callers, threshold 2, 2 trials, recovery of 1 tick |
| `graph` | `AssembledIsEvaluated`, `LoopIsBounded`, `RuntimeAndTrace`, `ComesToRest`, implements `GraphRun` | 0, 1 or 3 iterations; scores 69, 70, 85 and the default 100; one restart |
| `tasks` | `OneDriver`, `StoredEndIsReal`, `EndNotLost`, `RunsComeToRest`, implements `TaskLifecycle` | both stream modes, 1 task, 3 coroutines, 2 accepted reviews, failing table accesses, one restart, 1 client with a queue of 3 |
| `gateway` | `ReturnedIsSettled`, `PaidOnce`, `LedgerBalances`, breakers implement `CircuitBreaker` | 2 requests, the default route and its downgrade (which names a provider twice) |
| `services` | the 24 properties below | see below |

`services` checks thirteen services that share no state in one run: the initial
state says which of them runs, the others keep an initial state, and an invariant is
about the behaviours in which its service runs. The two builds, two callers of the
cache, two of the budget, two saves and two requests of the sessions, and two scripts
that add documents are interchangeable in the program and in every property, none of
which is about liveness, so TLC takes states that differ by exchanging them for one
(`MCAlike`). The properties:

| Service | Properties | Bounds |
|---|---|---|
| Knowledge | `SerialBuildsKeepNamesUnique`, `VectorsBehindGraph`, `LiveRelationsHaveLiveEnds`, `RefreshedOnlyByMention` | 2 builds, 3 names whose matching is not transitive, 2 mentions and 1 relation per text, 2 instants, thresholds 0, 0 and 1 |
| Documents | `OneRowPerContent`, `ObjectsOutliveRows` | 1 request, 2 scripts, 2 contents of which 1 is indexable, 1 retry |
| Sessions | `TurnsAreConsecutive`, `ExchangesStayTogether`, `OnlySavesCollide`, `NoCircularWait` | 2 runs, 2 requests, 1 session besides those they create |
| Webhooks | `LastWordCounts` | 2 URLs, 2 overlapping requests |
| Semantic cache | `NoDrift`, `StaleAtMostTwice` | 3 prompts in a chain of similarity and one with images, 2 models, 2 callers, TTL 1, 3 instants, memory of 2, 2 answered calls |
| Interact | `EndsOnce`, `ModesAgree` | every request and every way the services answer, 2 chunks |
| Retrieval | `RankedByTheirQuery` | every mode and one that is none, 2 reflection rounds, `top_k` up to 2, 0 and negative ones included |
| Model routing | `PutChangesWhatItNames` | a layer, a task and another spelling of it, 2 providers, 2 requests |
| Web indexing | `CrawlsNearestFirst` | every site of 3 pages and a start in another spelling of one, limit 3 |
| Compressor | `ContextFits` | up to 4 messages of 0 to 4 tokens, limit 6, reserve 3 |
| Embeddings | `ComparesLikeWithLike` | 2 calls, 1 request per window, a remote model that fits the column and one that does not |
| Rate limiter | `LogIsTheWindow`, `AdmittedWithinLimits` | 3 requests, window of 2 ticks, limits 0 and 2 or 4, a negative estimate |
| Budget | `OvershootIsInFlight`, `UpdatesAccumulate` | 2 callers, 2 updates of 3 kinds, prices 1 and 2 for any call |

The bounds are chosen so that the interesting cases happen: three callers let a
stale result meet a half-open window that is in use; scores lie on both sides of
and on each threshold; three coroutines are a run that still writes its pause, the
review that overtook it and a second reviewer; a queue of 3 overflows with one chunk
before the two final events; three names are the least for a matching that is not
transitive; a third session actor meets two that already wait; a chain of three
similar prompts is the least along which an answer could drift; three requests of 2
tokens reach the limit of 4 exactly and pass it. Tasks share nothing but the event
loop, sessions nothing but their actors, workspaces nothing at all, so one of each
shows what a run is about. Deadlock checking is off where a system may come to
rest: all requests answered, the thread at its end.

Every property has a mutant in `PROJECT.json`: an operator defined beside the
original that changes it as a plausible bug would, and that the property catches.

### Disagreements between code and documentation

Each is the subject of a run whose one property states what the documentation
says and that TLC refutes; the counterexample is the scenario.

| Run | What happens |
|---|---|
| `first_review` | The graph stops at its first review; the last chunk is `{"__interrupt__": ...}`, whose status is not `running`, so `_execute_task()` records the task as `complete` with a `done` event. The review can never be answered: `resolve_review()` refuses what is not `paused`. |
| `stream_after_end` | A client whose generator subscribes after the last event receives keepalives for ever. |
| `remembers` | A run loads page 1 of its session in ascending order as its memory: the oldest 50 messages, not the latest. |
| `uploaded` | An upload answered as created is rolled back when the request's database session is closed. |
| `triggered_jobs` | The schedule names jobs `prd2tsd.batch.tasks.*`; the worker knows them as `app.batch.tasks.*` and discards the messages. |
| `environment` | `MODEL_ROUTING__<task>__<field>` has three parts and the reader wants four: the variable is ignored. |
| `refused_embedding` | A rate-limited embedding is `[[0.0]]` instead of an exception; the embedder does not fall back and the build fails at the vector table. |

### Observations

Facts the models show that contradict no sentence of the documentation, but that a
reader of the code should know: the late table write of a pause can overwrite what
the review wrote, and the row then says `paused` for good; `retry_after` of the
limiter is the time until the oldest entry leaves, which does not suffice when
several have to; a deleted document's object is gone while its soft delete is rolled
back; building a document again duplicates its chunks; every workspace's webhook
subscribers receive every task's event (`main_graph.py:160-181`); `search_claims`
ignores the query; a PUT that gives only a provider keeps the old provider's model;
an outage of the store while a budget is updated writes the defaults back, and of two
updates that overlap the later one drops the fields of the earlier.

With the default stream mode every run whose stream yields a chunk is recorded as
`complete` with progress 1 and no result, also one that asks for a clarification or
waits at a review: what the run `tasks` shows about pauses, reviews and resumed runs
is about the code that is there for them, which is reached when `astream()` is called
in the mode `values` or yields nothing. A layer that raises leaves its runtime registered.

A relation may stay live while its ends are archived: each row has the time of its own
write, and a cutoff of aging can fall between the entities of a build and their
relation. A later run of the policy takes the relation as well. An answer to a prompt
with images that a failover model gave is served as the first model's. A downgraded
call may still be answered, and charged for, by the expensive model. A site that is
crawled from a URL with a fragment has that page fetched and indexed twice. A search
in a mode that does not exist goes through all rounds of reflection and returns
nothing. Vectors of Cohere's default dimension fit the column as the local model's do:
once a call has fallen back, or the model is changed, searches compare the two.

### Fairness

* `CircuitBreaker`: time passes, calls keep arriving and end (each attempt is
  inside `asyncio.timeout`). Nothing obliges a provider to heal: `Recovers` is
  about what follows if it does.
* `TaskManager`, `TaskStreams`: weak fairness of each coroutine's steps (the event
  loop runs what is ready; every LLM call inside the graph has a timeout), of
  subscribing and of delivery. None on requests, reviews and crashes.
* `OrchestratorGraph`: weak fairness of nodes; none on reviews.
* The gateway and the services have only safety properties and no fairness.

## 4. What is proved

Every invariant and every action property of the passing runs is stated by a theorem
of the specification; `PROJECT.json` pairs them. The constants are constrained by
named assumptions only: `BreakerAssumption`, `CallersAssumption`, `TaskAssumption`,
`StreamAssumption`, `GraphAssumption`, `GatewayAssumption`, `KnowledgeAssumption`, and
for the services those that `Services` makes of its instances (`SessionBounds`,
`BudgetBounds` and so on). They say that sets of callers and pages are finite, that
limits, thresholds and prices are natural numbers, that kinds of clients are
different; TLC evaluates each of them on the instance it checks. What is more than a
type is what the code makes sure of or its defaults are: a zero vector has the dimension
of the column and a refused one the single component of `[[0.0]]`
(`EmbeddingsAssumption`; the dimensions of the remote models and of the local one are
free), a start that is spelled as a page is shows that page (`WebAssumption`), every
prompt is similar to itself (`CacheAssumption`), the thresholds of aging are in
ascending order and names match symmetrically (`KnowledgeAssumption`), the normal form
of a name and its layer are fixed points (`RoutingAssumption`), and `reserve_for_latest` is within `max_tokens`
(`CompressorAssumption`).

All proofs have one shape: an inductive invariant, one lemma per action, and for the
services that a behaviour of `Services` is one of each service by itself.

* **CircuitBreakerProofs.** That the breaker is CLOSED exactly below the threshold is
  inductive with the type invariant. It carries `HalfOpenFailureReopens`:
  `_on_failure()` has no case for HALF_OPEN, so reopening rests on `call()` not
  clearing the count when it enters that state. `TrialBound` counts a set, so its
  proof uses the cardinality facts about adding and removing one caller.
* **TaskStreamsProofs.** `OneDriver` is not inductive by itself: that a record in
  `paused` has no owner, and that a coroutine which has handed its task back
  carries only what it still has to write, is needed for a review to be safe.
  `ReviewsConsumePauses` (a pause is resumed once) needs in addition that each
  `paused` in memory or in the table is backed by an unused pause, or by the restart
  that re-exposed it. From the same invariant follow `StoredEndIsReal`,
  `TerminalStays` and, step by step, the refinement of `TaskLifecycle`. Steps of the
  composition with the streams are steps of the manager or stutter, so all of that
  holds there. `EndNotLost` needs that a client which is still reading its first
  events when the end is published has missed it, and that a full queue drops what is
  new, never what is in it (`PutFacts`).
* **OrchestratorGraphProofs.** `LoopIsBounded` rests on a budget that relates the
  node to the reviews already asked for (`ReviewBudget`). `StatusOfPosition` ties the
  status field to the node, which is exactly what lets the task manager infer
  from a chunk's status whether the run has ended; with it every step maps to a
  step of `GraphRun` or to a stutter.
* **LLMGatewayProofs.** `Reserved` says what each position of a request implies for
  its reservation, `Charged` what it has paid and that only an exception after a bill
  brings a stream back to the failover loop with something paid. Both are about one
  request, so a step of another one keeps them; `ReturnedIsSettled` and `PaidOnce`
  follow. `BreakersGuardProviders`, the refinement of `CircuitBreaker` by each
  provider's breaker, goes step by step: a step of a request is an admission, a
  success, a failure or a cancellation at the provider it calls and a stutter at
  every other. `LedgerBalances` is one equation over all requests (`MoneyInv`): a step
  moves one request into or out of the set of those billed and not yet recorded, and
  `SumTheorems` says what that does to their sum.
* **KnowledgeProofs.** `WrittenFirst`: what a build has still to write needs only
  what it has written or will write before. `EndsStamped`: the ends of a relation
  were stamped when its build began to write, or later. `DeadIsOld`: an entity that is
  not live was stamped before the cutoff of the last run of aging. So a live relation
  with a dead end was begun before that cutoff; and as the second half of the run has
  taken every relation stamped before it, this one was stamped after, unless that half
  is still to come. Builds may
  write between the halves, which is why the plain property is not inductive.
  `Serial`: while no two builds have overlapped there is one at the most, and its
  entities yet to be written are kept apart from what the graph shows; this is
  inductive because the second mention of a text is resolved against the first and
  because names match symmetrically. `MentionedFirst` ties what a build writes to its
  text, from which `RefreshedOnlyByMention` follows step by step.
* **ServicesProofs, sessions.** `Shape` says what each transaction has written at each
  statement: nothing, its question, or question and answer, with the two turns that
  follow the committed count. `Apart` is what the locks and the unique key do: of two
  transactions on a session only one has added rows. For
  `NoCircularWait`, a holder of a lock waits for nobody, one that has added rows only
  for holders of locks, and all others only for those two. The property speaks of
  sets of transactions, so it covers circles of any length.
* **ServicesProofs, documents.** An upload knows (`known`) which rows it could see
  when it asked for duplicates; two equal rows are from uploads of which neither knew
  the other. The contents that are stored or that a DELETE has named only grow, and
  every row's content is among them.
* **ServicesProofs, webhooks.** A request that is alone has its URL in memory, and what
  a quiet system has stored is the last word unless a write failed.
* **ServicesProofs, retrieval and the entry.** Every document of a round carries the
  version of the query, and the set of queries always holds the query itself, so an
  engine of a known mode always returns something; an unknown mode goes on to the last
  round with nothing. For the stream, `About` says which requests and
  which answers of the services reach each of its steps; `ModesAgree` compares that
  with the reply at each of its ends.
* **ServicesProofs, web indexing.** The invariant says that there is a distance for
  each known page (`Distances`: the start has 0, a link leads at most one further,
  and to every other page one does lead), and that along it the queue is sorted with
  a spread of one; this is the usual argument for breadth-first search. That it is
  the `Depth` of the property is an induction on the number of links, at the end.
* **MeteringProofs, limiter.** The entries younger than the window are one to one with
  the requests that entered it: a request is in the window only after it was
  admitted, so neither `check()` nor `reserve()` counts it twice, and a late
  `reconcile()` either finds the entry or the request has left the window. The bound on
  requests is the bijection's; for the bound on tokens a sum is counted under the
  other names.
* **MeteringProofs, budget.** `Accounted`: what calls that kept their model cost in a
  period plus the dearest price of each call that is still committed to its model passes
  the threshold by less than one such price of each coroutine. A call is committed when its check is behind it, and also
  when it still decides by a configuration that was replaced. A budget of 0 limits
  nothing in the code (`check()` tests `> 0`), and the property says so. `SerialInv`:
  the only update under way has read what is stored.
* **MeteringProofs, cache.** A remembered answer is for a prompt similar to that of
  its key, and a row only for its own prompt, so an answer found by similarity is
  never the start of another chain. A prompt with images is never copied to or from
  a row. An entry is younger than one TTL when it is copied
  to memory and lives there for at most another.
* **MeteringProofs, embeddings.** As long as nothing has swayed there is one model
  whose vectors fit the column: the remote one if it fits, for it has not failed, else
  the local one (`Standard`). Every row is of that model or zero (`Pure`), and so is
  every call whose vector fits (`PureCall`).
* **MeteringProofs, compressor.** The tokens of a context are a sum over its positions,
  whatever the order it is counted in (`TotalOfItems`, `TotalOfJoined`). What the loop
  reserves is the sum of the protected (`ProtectedSum`, from the newest message
  backwards), what is kept of the rest fits what is left (`RollingFits`), and so each
  strategy's result fits.
* **MeteringProofs, routing.** An action property, from the facts that no stored field
  is empty and that a rule of a request is found before all others.
* **SumTheorems.** A sum over a set is a recursive function on its subsets that
  chooses an element; that the function exists, that any element may be chosen, and
  what disjoint unions, subsets and renamings do to a sum. The induction principles of
  the library have an operator as a parameter, which cannot be instantiated here, so
  induction is on a set of numbers, or of subsets, that is shown to have them all
  (`CountingInduction`, `SubsetInduction`).

Some properties could not be reasoned about as they first stood, and the modules were
changed without changing what they describe: filters of a sequence are sets of
positions or functions (`Available` in `LLMGateway`, `Build` in `WebIndexing`), the
compressor's operators take the history as a parameter, dictionaries are updated by
`Overlay`, and `Similar` need not be symmetric.

`ClosedIffBelowThreshold`, `HalfOpenFailureReopens`, `ReviewsConsumePauses`,
`TerminalStays` and `SkippedUnlessCritical` are proved and need no run; so are the
type invariants.

Only model-checked is what the proof system cannot express: the liveness properties
`Recovers`, `RunsComeToRest` and `ComesToRest` rest on fairness and `ENABLED`. The
properties of the runs that expect a violation are false and have no theorem.

## 5. Plan

Done: breaker, task manager, streams, graph, limiter, gateway; then sessions,
documents, knowledge and retrieval, embeddings, cache, budget, routing, webhooks, web
indexing, batch, the unified entry and the compressor; theorems for every safety
property that holds.

Next, in order:

1. Composition of `TaskManager` with `OrchestratorGraph` in one run, with the
   reviewed stage: `resolve_review()` never compares it with the interrupt the task
   waits at.
2. The masking engine and the evaluation formulas as pure operators.

## 6. Not modelled

Prompt texts and parsing, the layers' chains of LLM calls (a layer returns or
raises), remote providers beyond answering, failing and timing out, metrics and
tracing spans, JWT verification, table definitions, full-text and message search,
session export and titles, communities and scores of the knowledge base, HTML
extraction, masking, evaluation formulas. `PROJECT.json` names each component with
its reason.
