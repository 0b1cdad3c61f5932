----------------------------- MODULE Retrieval -----------------------------
(***************************************************************************)
(* One call of RetrievalPipeline.retrieve (app/knowledge_layer/pipeline.py *)
(* and retrieval/): rounds of search, each judged and the query refined,   *)
(* then reranking and compression.  A document is known by the engine that *)
(* found it and the query it was found for; a query by how often it has    *)
(* been refined, and whether it is a rewriting.  Scores are left out: the  *)
(* reranker may keep any documents.                                        *)
(***************************************************************************)
EXTENDS Integers, FiniteSets

CONSTANTS
    MaxRounds,    \* max_reflection_rounds
    TopK          \* bound: the most documents a caller asks for

\* What the constants have to satisfy; Services assumes it.
RetrievalAssumption == MaxRounds \in Nat /\ TopK \in Nat

\* A caller may pass any text as the mode, "other" than those there are, and any
\* number of documents: zero, or one that Python counts from the end.
Modes == {"local", "global", "hybrid", "other"}
Numbers == -1 .. TopK
Queries == [version : 0 .. MaxRounds + 1, rewritten : BOOLEAN]
\* "context" and "nothing" are what the engines return when they know nothing.
Docs == [source : {"entity", "context", "text unit", "summary", "nothing"}, query : Queries]

VARIABLES
    mode,
    top,        \* top_k
    linked,     \* entities the enricher has linked to the query
    query,      \* current_query
    subs,       \* sub_queries
    round,      \* round_idx
    results,    \* all_results
    step

vars == <<mode, top, linked, query, subs, round, results, step>>

Original == [version |-> 0, rewritten |-> FALSE]

TypeOK ==
    /\ mode \in Modes /\ top \in Numbers /\ linked \in BOOLEAN
    /\ query \in Queries /\ subs \subseteq Queries
    /\ round \in 0 .. MaxRounds + 1
    /\ results \subseteq Docs
    /\ step \in {"route", "rewrite", "enrich", "search", "judge", "rerank", "compress", "done", "raised"}

Init == /\ mode = "hybrid" /\ top = TopK /\ linked = FALSE
        /\ query = Original /\ subs = {Original}
        /\ round = 0 /\ results = {} /\ step = "route"

-------------------------------------------------------------------------------
\* The call, and IntentRouter.route: by keywords and length; a mode that is given is
\* kept, whatever it is.
Route ==
    /\ step = "route" /\ step' = "rewrite"
    /\ mode' \in Modes /\ top' \in Numbers
    /\ UNCHANGED <<linked, query, subs, round, results>>

\* QueryRewriter.rewrite: the query and other forms of it; without an answer,
\* the query alone.
Rewrite ==
    /\ step = "rewrite" /\ step' = "enrich"
    /\ subs' \in {{query}, {query, [query EXCEPT !.rewritten = TRUE]}}
    /\ UNCHANGED <<mode, top, linked, query, round, results>>

\* QueryEnricher.enrich: entities of the graph named in the query.  The graph
\* may fail, here and in every search; nothing in retrieve catches that.
Enrich ==
    /\ step = "enrich"
    /\ linked' \in BOOLEAN
    /\ step' \in {"search", "raised"}
    /\ UNCHANGED <<mode, top, query, subs, round, results>>

\* LocalSearch: entities named in the query and their neighbours, or the head
\* of an empty context.  Linked entities lead in the first round.
Local(q) ==
    IF linked /\ round = 0 /\ q = query
    THEN {{[source |-> "entity", query |-> q]}}
    ELSE {{[source |-> s, query |-> q]} : s \in {"entity", "context"}}

\* _search_vectors: text units near the query; an embedding or a search that
\* fails finds none, nor does a search for no more than zero.
Vectors(q) == IF top > 0 THEN {{}, {[source |-> "text unit", query |-> q]}} ELSE {{}}

\* GlobalSearch: one document, the summary of all entities or the sentence
\* that there are none.
Global(q) == {{[source |-> s, query |-> q]} : s \in {"summary", "nothing"}}

\* All documents of an engine for the sub-queries, without duplicates.
Searches(answers) ==
    LET Q == DOMAIN answers
    IN  {UNION {found[q] : q \in Q} : found \in {f \in [Q -> UNION {answers[q] : q \in Q}] :
                                                 \A q \in Q : f[q] \in answers[q]}}

\* _fuse_available: every document of the lists that are not empty.
Fused(a, b, c) == a \union b \union c

\* One round of search; for another mode there is no engine.
Search ==
    /\ step = "search"
    /\ \E l \in Searches([q \in subs |-> Local(q)]), v \in Searches([q \in subs |-> Vectors(q)]),
          g \in Global(query) :
        results' = CASE mode = "local" -> Fused(l, v, {})
                     [] mode = "global" -> g
                     [] mode = "hybrid" -> Fused(l, v, g)
                     [] mode = "other" -> {}
    /\ step' = "judge" \/ (mode # "other" /\ step' = "raised")
    /\ UNCHANGED <<mode, top, linked, query, subs, round>>

\* ReflectionJudge.judge: what has not been understood is accepted, but not that there
\* is nothing.
Accept ==
    /\ results # {}
    /\ step' = "rerank"
    /\ UNCHANGED <<query, subs, round>>

\* Nothing is searched for again as it is.
Refined == IF results = {} THEN {query} ELSE {query, [query EXCEPT !.version = @ + 1]}

\* A refined query, or the same one when the judge proposes none, is searched
\* for alone.
Refine ==
    /\ query' \in Refined
    /\ subs' = {query'}
    /\ round' = round + 1
    /\ step' = "search"

\* Mutant: the last round is judged as well.
JudgeAlways ==
    /\ step = "judge"
    /\ \/ Accept
       \/ round < MaxRounds /\ Refine
       \/ /\ round = MaxRounds
          /\ query' \in Refined /\ subs' = {query'}
          /\ step' = "rerank" /\ UNCHANGED round
    /\ UNCHANGED <<mode, top, linked, results>>

\* The last round is not judged.
Judge ==
    /\ step = "judge"
    /\ \/ Accept
       \/ round < MaxRounds /\ Refine
       \/ round = MaxRounds /\ step' = "rerank" /\ UNCHANGED <<query, subs, round>>
    /\ UNCHANGED <<mode, top, linked, results>>

\* How many of n documents the slice [:top_k] has.
Kept(n) ==
    LET upTo == IF top >= 0 THEN top ELSE n + top
    IN  IF upTo > n THEN n ELSE IF upTo > 0 THEN upTo ELSE 0

\* ReRanker.rerank: the best top_k documents for the current query.
Rerank ==
    /\ step = "rerank" /\ step' = "compress"
    /\ results' \in {s \in SUBSET results : Cardinality(s) = Kept(Cardinality(results))}
    /\ UNCHANGED <<mode, top, linked, query, subs, round>>

\* Compressor.compress: the first documents, the last of them cut; the first
\* one is always kept.
Compress ==
    /\ step = "compress" /\ step' = "done"
    /\ results' \in SUBSET results /\ (results' = {} => results = {})
    /\ UNCHANGED <<mode, top, linked, query, subs, round>>

Next == Route \/ Rewrite \/ Enrich \/ Search \/ Judge \/ Rerank \/ Compress

Spec == Init /\ [][Next]_vars

-------------------------------------------------------------------------------
(* What is ranked and returned was found, by an engine of the mode, for    *)
(* the query it is ranked by or a rewriting of it, however the rounds end. *)
(* A mode there is returns something when documents are asked for:         *)
(* placeholders count as documents; another mode returns nothing, after    *)
(* all the rounds there may be (pipeline.py:342, 355, 396).                *)
RankedByTheirQuery ==
    step \in {"rerank", "compress", "done"} =>
        /\ round <= MaxRounds
        /\ mode # "other" /\ top > 0 => results # {}
        /\ mode = "other" => results = {} /\ round = MaxRounds
        /\ \A d \in results :
            /\ d.query.version = query.version
            /\ mode = "global" => d.source \in {"summary", "nothing"}
            /\ mode = "local" => d.source \notin {"summary", "nothing"}
=============================================================================
