----------------------------- MODULE Embeddings -----------------------------
(***************************************************************************)
(* How a text becomes a vector and where the vector goes: the embed and    *)
(* rerank methods of the gateway (app/llm_gateway/__init__.py), which      *)
(* prefer a remote model and fall back on a local one                      *)
(* (app/llm_gateway/capabilities/), the embedder of a build                *)
(* (app/knowledge_layer/ingestion/entity_embedder.py), which falls back    *)
(* once more, and the vector tables (app/knowledge_layer/vector_store.py)  *)
(* that builds write and searches read.                                    *)
(*                                                                         *)
(* Vectors of different models have nothing to do with each other.  Which  *)
(* remote model is asked is configured, and may be changed at any time;    *)
(* the local model is the same for the gateway and the embedder, as it is  *)
(* by default.  All calls share the limits of the workspace "": no caller  *)
(* names its own.  The three tables differ in nothing that matters here,   *)
(* so there is one.                                                        *)
(***************************************************************************)
EXTENDS Integers, FiniteSets

CONSTANTS
    Calls,        \* calls of the gateway
    Remotes,      \* the remote models that can be configured
    Dimension,    \* of the vectors of each source
    Column,       \* embedding_dimension: of the column of the tables
    Limit         \* requests in a window

Sources == Remotes \union {"local", "zero", "limited"}

\* What the constants have to satisfy; Services assumes it.  By default the
\* column has 1024 dimensions, and so have the vectors of the local model; a
\* remote model may have as many (Cohere's) or others (1536, OpenAI's).
EmbeddingsAssumption ==
    /\ Remotes \intersect {"local", "zero", "limited", "none"} = {}
    /\ Dimension \in [Sources -> Nat] /\ Column \in Nat /\ Limit \in Nat
    /\ Dimension["zero"] = Column /\ Dimension["limited"] = 1 /\ Column > 1

VARIABLES
    call,      \* call -> what it is for, how far it is, where its vector is from
    window,    \* the calls the rate limiter counts
    table,     \* rows of the vector table: whose they are, where they are from
    remote,    \* the remote model that is configured
    swayed     \* history: a remote model that fits the column was left for another

vars == <<call, window, table, remote, swayed>>

\* For: a row of a build, a search, or the order of some documents.
\* by: "none" before there is an answer; found: rows a search has read.
NoAnswer == [for |-> "row", step |-> "new", by |-> "none", found |-> {}]

Init == /\ call = [c \in Calls |-> NoAnswer]
        /\ window = {} /\ table = {}
        /\ remote \in Remotes /\ swayed = FALSE

At(c, step) == call[c].step = step
Goes(c, step) == call' = [call EXCEPT ![c].step = step]
Answered(c, source, step) == call' = [call EXCEPT ![c].step = step, ![c].by = source]
Fitting(source) == Dimension[source] = Column
modelVars == <<remote, swayed>>

-------------------------------------------------------------------------------
(* LLMGateway.embed and rerank.                                            *)

\* reserve: a call that is refused is answered all the same, with one vector of
\* one component for each text, or without any order.
Reserve(c) ==
    /\ At(c, "new")
    /\ \E for \in {"row", "search", "order"} :
         IF Cardinality(window) < Limit
         THEN /\ window' = window \union {c}
              /\ call' = [call EXCEPT ![c].for = for, ![c].step = "api"]
         ELSE /\ call' = [call EXCEPT ![c].for = for, ![c].by = "limited",
                                      ![c].step = IF for = "order" THEN "done" ELSE "vector"]
              /\ UNCHANGED window
    /\ UNCHANGED <<table, modelVars>>

\* _api_embed, of the model configured by now.  In the mode "auto" any failure
\* is followed by the local model.
ApiEmbed(c) ==
    /\ At(c, "api") /\ call[c].for # "order"
    /\ \/ Answered(c, remote, "settle") /\ UNCHANGED swayed
       \/ Goes(c, "local") /\ swayed' = (swayed \/ Fitting(remote))
    /\ UNCHANGED <<window, table, remote>>

\* _api_rerank: likewise; who orders documents makes no difference here.
ApiRerank(c) ==
    /\ At(c, "api") /\ call[c].for = "order"
    /\ Answered(c, remote, "settle") \/ Goes(c, "local")
    /\ UNCHANGED <<window, table, modelVars>>

\* _local_embed raises when the model cannot be loaded, past the reconcile.
LocalEmbed(c) ==
    /\ At(c, "local") /\ call[c].for # "order"
    /\ Answered(c, "local", "settle") \/ Goes(c, "raised")
    /\ UNCHANGED <<window, table, modelVars>>

\* _local_rerank: by the scores of the model, or in the order given.
LocalRerank(c) ==
    /\ At(c, "local") /\ call[c].for = "order"
    /\ Answered(c, "local", "settle")
    /\ UNCHANGED <<window, table, modelVars>>

\* reconcile: a reservation that has left the window is counted anew.
Settle(c) ==
    /\ At(c, "settle")
    /\ window' = window \union {c}
    /\ Goes(c, IF call[c].for = "order" THEN "done" ELSE "vector")
    /\ UNCHANGED <<table, modelVars>>

\* A reservation is a window old.
Expire(c) ==
    /\ window' = window \ {c} /\ c \in window
    /\ UNCHANGED <<call, table, modelVars>>

\* The rule of the task "embedding" is changed: what is stored stays.
Configure ==
    /\ \E model \in Remotes \ {remote} :
         /\ remote' = model
         /\ swayed' = (swayed \/ Fitting(remote) \/ Fitting(model))
    /\ UNCHANGED <<call, window, table>>

-------------------------------------------------------------------------------
(* The embedder of a build and the tables.                                 *)

\* EntityEmbedder: when the gateway raises, the local model of its own, else
\* the zero vector.
FallBack(c) ==
    /\ At(c, "raised") /\ call[c].for = "row"
    /\ \E source \in {"local", "zero"} : Answered(c, source, "vector")
    /\ UNCHANGED <<window, table, modelVars>>

\* DocumentSearchService.search catches what is raised: only the full text is
\* searched.
FullText(c) ==
    /\ At(c, "raised") /\ call[c].for = "search"
    /\ Goes(c, "done")
    /\ UNCHANGED <<window, table, modelVars>>

\* Mutant: the column is made without a dimension.
FitsAny(c) == TRUE

\* The database refuses a vector of another dimension than the column's.
Fits(c) == Fitting(call[c].by)

\* upsert_chunk, upsert_entity_embedding, upsert_claim: the build ends when the
\* database raises.
Insert(c) ==
    /\ At(c, "vector") /\ call[c].for = "row"
    /\ IF Fits(c) THEN /\ table' = table \union {[of |-> c, by |-> call[c].by]}
                       /\ Goes(c, "done")
                  ELSE /\ Goes(c, "failed")
                       /\ UNCHANGED table
    /\ UNCHANGED <<window, modelVars>>

\* similarity_search: every row is compared; DocumentSearchService catches
\* what is raised and finds nothing this way.
Search(c) ==
    /\ At(c, "vector") /\ call[c].for = "search"
    /\ call' = [call EXCEPT ![c].step = "done", ![c].found = IF Fits(c) THEN table ELSE {}]
    /\ UNCHANGED <<window, table, modelVars>>

Next == \/ \E c \in Calls :
             \/ Reserve(c) \/ ApiEmbed(c) \/ ApiRerank(c) \/ LocalEmbed(c) \/ LocalRerank(c)
             \/ Settle(c) \/ Expire(c)
             \/ FallBack(c) \/ FullText(c) \/ Insert(c) \/ Search(c)
        \/ Configure

Spec == Init /\ [][Next]_vars

-------------------------------------------------------------------------------
\* A search ranks rows whose vectors are of its own model, or zero vectors,
\* which have no similarity to anything, until a remote model whose vectors fit
\* the column has failed or been replaced: models that do not fit may do both as
\* they like (vector_store.py:187-262).  None of the calls checks which model has
\* answered: beyond that it is only the dimension of the column that keeps the
\* models apart, and Cohere's default passes (providers/cohere.py:85).
ComparesLikeWithLike ==
    swayed \/ \A c \in Calls : \A row \in call[c].found : row.by \in {call[c].by, "zero"}

\* entity_embedder.py:64: the remote model first, the local one as a fallback:
\* an embedding that is refused does not end the build.
RefusedFallsBack == \A c \in Calls : call[c].by = "limited" => ~ At(c, "failed")
=============================================================================
