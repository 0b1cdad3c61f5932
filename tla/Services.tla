------------------------------ MODULE Services ------------------------------
(***************************************************************************)
(* The services that share no state with each other as one system: the     *)
(* initial state says which of them runs, and the others stay where they   *)
(* are.                                                                    *)
(***************************************************************************)
EXTENDS Knowledge, FiniteSets, Sequences

CONSTANTS
    Uploaders, Scripts, Contents, Indexable, MaxRetries,             \* Documents
    Runs, Visitors, Existing, PageSize, NoSession,                   \* Sessions
    Urls, Calls, NoUrl,                                              \* Webhooks
    Prompts, Pictures, Similar, Models, TTL, MaxSize, Callers, MaxTime, MaxCalls,   \* SemanticCache
    MaxChunks,                                                       \* Interact
    MaxRounds, TopK,                                                 \* Retrieval
    TaskNames, Normal, Layer, Providers, ModelNames, Chains, NoChain,
    Environment, FileModels, FileRules, DefaultRules, MaxRequests,   \* ModelRouting
    Pages, Start, Home, MaxPages,                                    \* WebIndexing
    MaxTokens, Spare, Longest, Largest,                              \* Compressor
    Embeds, Remotes, Column, Limit, Dimension,                       \* Embeddings
    Reservations, Window, Usages, Estimates, RpmLimits, TpmLimits,   \* RateLimiter
    Spenders, Updates, Given, DefaultBudget, Threshold, Prices, Dearest, MaxSpent   \* Budget

VARIABLES
    service,
    table, tx, object, call, job, known, named,
    sessions, messages, count, author, saving, save, history, expected,
    hub, stored, request, last, doubt,
    memory, rows, asked, now, calls, served,
    body, world, step, sent, created,
    mode, top, linked, query, subs, round, results, phase,
    runtime, models, put, puts,
    stage, robots, queue, visited, fetched, links, indexed,
    tokens, summarizes, context, compression,
    embedding, window, vectors, remote, swayed,
    log, rpm, tpm, pc, charge, counted,
    row, spent, kept, spender, update, calm, wanted, serial

-------------------------------------------------------------------------------
D == INSTANCE Documents WITH Requests <- Uploaders
S == INSTANCE Sessions WITH Tasks <- Runs, Requests <- Visitors, Page <- PageSize,
        rows <- sessions, last <- author, step <- saving, tx <- save
W == INSTANCE Webhooks
C == INSTANCE SemanticCache
I == INSTANCE Interact WITH request <- body
R == INSTANCE Retrieval WITH step <- phase
M == INSTANCE ModelRouting WITH Tasks <- TaskNames, Names <- ModelNames, request <- put, requests <- puts
B == INSTANCE WebIndexing WITH results <- fetched
Z == INSTANCE Compressor WITH Reserve <- Spare, phase <- compression
E == INSTANCE Embeddings WITH Calls <- Embeds, call <- embedding, table <- vectors
L == INSTANCE RateLimiter WITH Requests <- Reservations
U == INSTANCE Budget WITH Calls <- Spenders, call <- spender

ASSUME DocumentBounds == D!DocumentsAssumption
ASSUME SessionBounds == S!SessionAssumption
ASSUME CacheBounds == C!CacheAssumption
ASSUME RetrievalBounds == R!RetrievalAssumption
ASSUME RoutingBounds == M!RoutingAssumption
ASSUME WebBounds == B!WebAssumption
ASSUME CompressorBounds == Z!CompressorAssumption
ASSUME EmbeddingBounds == E!EmbeddingsAssumption
ASSUME LimiterBounds == L!LimiterAssumption
ASSUME BudgetBounds == U!BudgetAssumption

documentVars == <<table, tx, object, call, job, known, named>>
sessionVars == <<sessions, messages, count, author, saving, save, history, expected>>
webhookVars == <<hub, stored, request, last, doubt>>
cacheVars == <<memory, rows, asked, now, calls, served>>
interactVars == <<body, world, step, sent, created>>
retrievalVars == <<mode, top, linked, query, subs, round, results, phase>>
routingVars == <<runtime, models, put, puts>>
webVars == <<stage, robots, queue, visited, fetched, links, indexed>>
compressorVars == <<tokens, summarizes, context, compression>>
embeddingVars == <<embedding, window, vectors, remote, swayed>>
limiterVars == <<log, rpm, tpm, pc, charge, counted>>
budgetVars == <<row, spent, kept, spender, update, calm, wanted, serial>>

allVars == <<service, vars, documentVars, sessionVars, webhookVars, cacheVars, interactVars,
             retrievalVars, routingVars, webVars, compressorVars, embeddingVars, limiterVars,
             budgetVars>>

Services == {"knowledge", "documents", "sessions", "webhooks", "cache", "interact", "retrieval",
             "routing", "web", "compressor", "embeddings", "limiter", "budget"}

\* A service that does not run has one of its initial states.
ServicesInit ==
    /\ service \in Services
    /\ Init /\ D!Init /\ S!Init /\ W!Init /\ C!Init /\ I!Init /\ R!Init
    /\ M!Init /\ B!Init /\ Z!Init /\ E!Init /\ L!Init /\ U!Init
    /\ service # "compressor" => tokens = <<>> /\ ~summarizes
    /\ service # "limiter" => rpm = 0 /\ tpm = 0
    /\ service # "embeddings" => remote = CHOOSE model \in Remotes : TRUE

\* The services other than s stay as they are.
OnlyOf(s) ==
    /\ service = s /\ UNCHANGED service
    /\ IF s = "knowledge" THEN TRUE ELSE UNCHANGED vars
    /\ IF s = "documents" THEN TRUE ELSE UNCHANGED documentVars
    /\ IF s = "sessions" THEN TRUE ELSE UNCHANGED sessionVars
    /\ IF s = "webhooks" THEN TRUE ELSE UNCHANGED webhookVars
    /\ IF s = "cache" THEN TRUE ELSE UNCHANGED cacheVars
    /\ IF s = "interact" THEN TRUE ELSE UNCHANGED interactVars
    /\ IF s = "retrieval" THEN TRUE ELSE UNCHANGED retrievalVars
    /\ IF s = "routing" THEN TRUE ELSE UNCHANGED routingVars
    /\ IF s = "web" THEN TRUE ELSE UNCHANGED webVars
    /\ IF s = "compressor" THEN TRUE ELSE UNCHANGED compressorVars
    /\ IF s = "embeddings" THEN TRUE ELSE UNCHANGED embeddingVars
    /\ IF s = "limiter" THEN TRUE ELSE UNCHANGED limiterVars
    /\ IF s = "budget" THEN TRUE ELSE UNCHANGED budgetVars

ServicesNext ==
    \/ OnlyOf("knowledge") /\ Next
    \/ OnlyOf("documents") /\ D!Next
    \/ OnlyOf("sessions") /\ S!Next
    \/ OnlyOf("webhooks") /\ W!Next
    \/ OnlyOf("cache") /\ C!Next
    \/ OnlyOf("interact") /\ I!Next
    \/ OnlyOf("retrieval") /\ R!Next
    \/ OnlyOf("routing") /\ M!Next
    \/ OnlyOf("web") /\ B!Next
    \/ OnlyOf("compressor") /\ Z!Next
    \/ OnlyOf("embeddings") /\ E!Next
    \/ OnlyOf("limiter") /\ L!Next
    \/ OnlyOf("budget") /\ U!Next

ServicesSpec == ServicesInit /\ [][ServicesNext]_allVars

-------------------------------------------------------------------------------
(* An invariant of a service is about the behaviours in which it runs: in all   *)
(* others the service never leaves its initial state.                           *)

\* Documents: equal documents come only from uploads that overlapped
\* (document_management/service.py).
OneRowPerContent == service = "documents" => D!OneRowPerContent

\* Documents: a listed document can be read unless a DELETE has named its
\* content (document_management/service.py).
ObjectsOutliveRows == service = "documents" => D!ObjectsOutliveRows

\* Sessions: turns have no gaps and message_count is their number
\* (session_history/repository.py).
TurnsAreConsecutive == service = "sessions" => S!TurnsAreConsecutive

\* Sessions: an answer follows its question (orchestrator/nodes/save_session.py).
ExchangesStayTogether == service = "sessions" => S!ExchangesStayTogether

\* Sessions: only another save costs a run its save
\* (session_history/repository.py).
OnlySavesCollide == service = "sessions" => S!OnlySavesCollide

\* Sessions: transactions do not wait in a circle, nor for one that is over
\* (session_history/repository.py).
NoCircularWait == service = "sessions" => S!NoCircularWait

\* Webhooks: after an undisturbed request exactly the URL it left is called
\* (integrations/webhook.py).
LastWordCounts == service = "webhooks" => W!LastWordCounts

\* Cache: an answer served was made for a similar prompt by the model asked
\* for, or for the same prompt with images (llm_gateway/cache.py).
NoDrift == service = "cache" => C!NoDrift

\* Cache: an answer served is not two TTLs old (llm_gateway/cache.py).
StaleAtMostTwice == service = "cache" => C!StaleAtMostTwice

\* Interact: a stream that is not abandoned has one end event, its last
\* (api/routes/interact.py).
EndsOnce == service = "interact" => I!EndsOnce

\* Interact: the stream and the reply agree on documents and generation
\* (api/routes/interact.py).
ModesAgree == service = "interact" => I!ModesAgree

\* Retrieval: what is returned was found for the query it is ranked by, and
\* something is, unless the mode is none or no document is asked for
\* (knowledge_layer/pipeline.py).
RankedByTheirQuery == service = "retrieval" => R!RankedByTheirQuery

\* Routing: a request changes what it names (api/routes/model_config.py).
PutChangesWhatItNames == M!PutChangesWhatItNames

\* Routing: environment variables override the file
\* (config/model-routing.yaml:1).
EnvironmentOverrides == M!EnvironmentOverrides

\* Web: the nearest pages first, none that is forbidden, none twice but the first
\* (web_indexing/web_crawler.py).
CrawlsNearestFirst == service = "web" => B!CrawlsNearestFirst

\* Compressor: the context fits and keeps the newest message
\* (session_history/compressor.py).
ContextFits == service = "compressor" => Z!ContextFits

\* Embeddings: a search compares vectors of one model, until one that fits the
\* column has failed or been replaced
\* (knowledge_layer/vector_store.py).
ComparesLikeWithLike == service = "embeddings" => E!ComparesLikeWithLike

\* Embeddings: an embedding that is refused falls back on the local model
\* (ingestion/entity_embedder.py:64).
RefusedFallsBack == service = "embeddings" => E!RefusedFallsBack

\* Limiter: the log is the account of the window
\* (llm_gateway/rate_limiter.py).
LogIsTheWindow == service = "limiter" => L!LogIsTheWindow

\* Limiter: nothing is admitted beyond the limits (llm_gateway/rate_limiter.py).
AdmittedWithinLimits == L!AdmittedWithinLimits

\* Budget: calls keep their model past the threshold only while they are underway
\* (llm_gateway/budget_controller.py).
OvershootIsInFlight == service = "budget" => U!OvershootIsInFlight

\* Budget: updates that do not overlap add up
\* (llm_gateway/budget_controller.py).
UpdatesAccumulate == service = "budget" => U!UpdatesAccumulate
=============================================================================
