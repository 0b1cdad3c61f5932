----------------------------- MODULE Knowledge -----------------------------
(***************************************************************************)
(* Building the knowledge base (app/knowledge_layer/pipeline.py): a build  *)
(* reads the graph, resolves the entities it extracted against it and      *)
(* writes first the graph, then the vector store, row by row and without a *)
(* transaction around them.  Other builds and the aging policy run between *)
(* any two of these writes.                                                *)
(*                                                                         *)
(* Building a text again is one more build: its entities and chunks get    *)
(* fresh ids.  Time may pass between any two steps, and every row is       *)
(* stamped with the time of its own write; there is one clock.             *)
(***************************************************************************)
EXTENDS Integers, Sequences, Functions

CONSTANTS
    Builds,      \* calls of build_from_text
    Names,       \* entity names
    Same,        \* pairs of names _exact_match or _alias_match accepts
    Downgrade, Archive, Delete,   \* thresholds of KnowledgeLayerConfig
    Horizon      \* bound: of the clock

ASSUME KnowledgeAssumption ==
    /\ Same \subseteq Names \X Names
    /\ \A m, n \in Names : <<m, n>> \in Same <=> <<n, m>> \in Same
    /\ \A n \in Names : <<n, n>> \in Same
    /\ {Downgrade, Archive, Delete} \subseteq Nat
    /\ Downgrade <= Archive /\ Archive <= Delete
    /\ Horizon \in Nat

\* An entity extracted anew gets a fresh UUID: here, who extracted it.
Ids == [by : Builds, name : Names]
Live == {"active", "downgraded"}
Status == Live \union {"archived", "deleted"}

\* at: updated_at; since: history, when the build that wrote the relation last
\* began to write.
Row == [status : Status, at : Nat]
Edge == [status : Status, at : Nat, since : Nat]

VARIABLES
    node,      \* KGEntity nodes: id -> Row
    rel,       \* RELATED edges: <<source id, target id>> -> Edge
    vector,    \* ids with a row in entity_embeddings
    build,     \* build -> its progress
    aging,     \* the last run of the aging policy: the time it started from, and
               \* whether it still has the relations to do
    clock,
    overlap    \* history: have two builds been under way at the same time?

vars == <<node, rel, vector, build, aging, clock, overlap>>

\* mentioned: names in the text; nodes, edges, embeds: rows still to write;
\* since: when the writing began.
Progress == [step : {"new", "graph", "vector", "over"},
             mentioned : SUBSET Names, nodes : SUBSET Ids,
             edges : SUBSET (Ids \X Ids), embeds : SUBSET Ids, since : Nat]
NotStarted == [step |-> "new", mentioned |-> {}, nodes |-> {}, edges |-> {}, embeds |-> {}, since |-> 0]
Underway(b) == build[b].step \in {"graph", "vector"}

TypeOK ==
    /\ DOMAIN node \subseteq Ids /\ \A i \in DOMAIN node : node[i] \in Row
    /\ DOMAIN rel \subseteq Ids \X Ids /\ \A e \in DOMAIN rel : rel[e] \in Edge
    /\ vector \subseteq Ids
    /\ build \in [Builds -> Progress]
    /\ aging \in [half : {"done", "relations"}, reference : Nat]
    /\ clock \in Nat
    /\ overlap \in BOOLEAN

Init == /\ node = <<>> /\ rel = <<>> /\ vector = {}
        /\ build = [b \in Builds |-> NotStarted]
        /\ aging = [half |-> "done", reference |-> 0]
        /\ clock = 0
        /\ overlap = FALSE

\* MERGE: the row of this key is made, or made anew.
Merged(rows, key, row) == [k \in DOMAIN rows \union {key} |-> IF k = key THEN row ELSE rows[k]]

-------------------------------------------------------------------------------
(* Extraction and resolution: no write, and one read of the graph.         *)

\* get_all_entities: archived and deleted ones are not seen.  Its limit of
\* 10000 entities is not modelled.
Visible == {i \in DOMAIN node : node[i].status \in Live}

Named(name, ids) == {i \in ids : i.name = name}
Matching(name, ids) == {i \in ids : <<name, i.name>> \in Same}

\* find_by_name: an exact match, else an alias; any of them, in this order.
Found(name, ids) ==
    IF Named(name, ids) # {} THEN Named(name, ids) ELSE Matching(name, ids)

\* Mutant: names are compared exactly.
ResolveExactly(new, ids) == IF Named(new.name, ids) # {} THEN Named(new.name, ids) ELSE {new}

\* EntityResolver.resolve: the entity found, or the new one.
Resolve(new, ids) == IF Found(new.name, ids) # {} THEN Found(new.name, ids) ELSE {new}

\* Mutant: resolve_batch, all entities and not only those of the text.
TouchedAll(entities) == entities \union Visible

\* resolve_touched_batch: the entities of the text, merged into those seen.
Touched(entities) == entities

\* EntityExtractor.extract: the entities of a text, two at the most; none of
\* a chunk for which the model fails or answers something else than a list.
Mentions == {<<>>} \union {<<m>> : m \in Names} \union {<<m, n>> : m \in Names, n \in Names}

\* What resolving the mentions one after the other leads to, each against what
\* the graph shows and what the text has named before.
Resolved(b, mentions) ==
    LET New(k) == [by |-> b, name |-> mentions[k]]
    IN  CASE mentions = <<>> -> {{}}
          [] Len(mentions) = 1 -> {{x} : x \in Resolve(New(1), Visible)}
          [] OTHER -> UNION {{{x, y} : y \in Resolve(New(2), Visible \union {x})}
                             : x \in Resolve(New(1), Visible)}

\* _extract_from_chunk: an answer counts when it names two different entities.
Related(entities) == {e \in entities \X entities : e[1] # e[2]}

\* RelationExtractor.extract: at most one relation here; the model may find
\* none, or fail.
Edges(entities) == {{}} \union {{e} : e \in Related(entities)}

\* build_from_bytes: the file has no text, or an image of it cannot be read;
\* nothing is built.
Unreadable(b) ==
    /\ build[b].step = "new"
    /\ build' = [build EXCEPT ![b].step = "over"]
    /\ UNCHANGED <<node, rel, vector, aging, clock, overlap>>

\* build_from_text, up to the first write.
Extract(b) ==
    /\ build[b].step = "new"
    /\ \E mentions \in Mentions :
       \E entities \in Resolved(b, mentions) :
       \E edges \in Edges(entities) :
          build' = [build EXCEPT ![b] =
                [step |-> "graph", mentioned |-> Range(mentions),
                 nodes |-> Touched(entities), edges |-> edges,
                 embeds |-> Touched(entities), since |-> clock]]
    /\ overlap' = (overlap \/ \E c \in Builds \ {b} : Underway(c))
    /\ UNCHANGED <<node, rel, vector, aging, clock>>

-------------------------------------------------------------------------------
(* Writing.                                                                *)

\* upsert_entities: MERGE by id, one statement each, back to active.
WriteNode(b) ==
    /\ build[b].step = "graph"
    /\ \E i \in build[b].nodes :
         /\ node' = Merged(node, i, [status |-> "active", at |-> clock])
         /\ build' = [build EXCEPT ![b].nodes = @ \ {i}]
    /\ UNCHANGED <<rel, vector, aging, clock, overlap>>

\* upsert_relations: raises when an end is missing, whatever its status.
WriteEdge(b) ==
    /\ build[b].step = "graph" /\ build[b].nodes = {}
    /\ \E e \in build[b].edges :
         /\ {e[1], e[2]} \subseteq DOMAIN node
         /\ rel' = Merged(rel, e, [status |-> "active", at |-> clock, since |-> build[b].since])
         /\ build' = [build EXCEPT ![b].edges = @ \ {e}]
    /\ UNCHANGED <<node, vector, aging, clock, overlap>>

\* Mutant: the chunks and vectors do not wait for the graph.
WriteChunksEarly(b) ==
    /\ build[b].step = "graph"
    /\ build' = [build EXCEPT ![b].step = "vector"]
    /\ UNCHANGED <<node, rel, vector, aging, clock, overlap>>

\* ensure_extensions, then the chunks, under ids no other build uses.
WriteChunks(b) ==
    /\ build[b].step = "graph" /\ build[b].nodes = {} /\ build[b].edges = {}
    /\ build' = [build EXCEPT ![b].step = "vector"]
    /\ UNCHANGED <<node, rel, vector, aging, clock, overlap>>

\* upsert_entity_embedding; skipped for an entity the embedder failed on.
WriteVector(b) ==
    /\ build[b].step = "vector"
    /\ \E i \in build[b].embeds :
         /\ vector' \in {vector, vector \union {i}}
         /\ build' = [build EXCEPT ![b].embeds = @ \ {i}]
    /\ UNCHANGED <<node, rel, aging, clock, overlap>>

\* The claims, and the end.
Complete(b) ==
    /\ build[b].step = "vector" /\ build[b].embeds = {}
    /\ build' = [build EXCEPT ![b] = [NotStarted EXCEPT !.step = "over"]]
    /\ UNCHANGED <<node, rel, vector, aging, clock, overlap>>

\* A statement or a remote call raises: what was written stays written.
Fail(b) ==
    /\ Underway(b)
    /\ build' = [build EXCEPT ![b] = [NotStarted EXCEPT !.step = "over"]]
    /\ UNCHANGED <<node, rel, vector, aging, clock, overlap>>

-------------------------------------------------------------------------------
(* KnowledgeAgingPolicy.                                                   *)

\* The three statements for one kind of row, in their order.
Aged(row, reference) ==
    LET Before(threshold) == row.at < reference - threshold
    IN  [row EXCEPT !.status =
            CASE row.status # "deleted" /\ Before(Delete) -> "deleted"
              [] row.status \in Live /\ Before(Archive) /\ ~ Before(Delete) -> "archived"
              [] row.status = "active" /\ Before(Downgrade) /\ ~ Before(Archive) -> "downgraded"
              [] OTHER -> row.status]

\* apply_aging: first the entities, later the relations, by the time the run has
\* started from.  The statements of one half change disjoint sets of rows.
AgeNodes ==
    /\ aging.half = "done"
    /\ aging' = [half |-> "relations", reference |-> clock]
    /\ node' = [i \in DOMAIN node |-> Aged(node[i], clock)]
    /\ UNCHANGED <<rel, vector, build, clock, overlap>>

\* Mutant: the job ends after the entities.
AgeNoRelations ==
    /\ aging.half = "relations"
    /\ aging' = [aging EXCEPT !.half = "done"]
    /\ UNCHANGED <<node, rel, vector, build, clock, overlap>>

AgeRelations ==
    /\ aging.half = "relations"
    /\ aging' = [aging EXCEPT !.half = "done"]
    /\ rel' = [e \in DOMAIN rel |-> Aged(rel[e], aging.reference)]
    /\ UNCHANGED <<node, vector, build, clock, overlap>>

Tick ==
    /\ clock < Horizon /\ clock' = clock + 1
    /\ UNCHANGED <<node, rel, vector, build, aging, overlap>>

-------------------------------------------------------------------------------
Next == \/ \E b \in Builds : \/ Unreadable(b) \/ Extract(b) \/ WriteNode(b) \/ WriteEdge(b) \/ WriteChunks(b)
                             \/ WriteVector(b) \/ Complete(b) \/ Fail(b)
        \/ AgeNodes \/ AgeRelations \/ Tick

Spec == Init /\ [][Next]_vars
-------------------------------------------------------------------------------
(* Properties.                                                             *)

\* Without overlapping builds no two live entities have names that the
\* resolver takes for the same: neither failed builds nor archiving and
\* creating an entity again duplicates one.
SerialBuildsKeepNamesUnique ==
    ~ overlap => \A i, j \in Visible : i # j => <<i.name, j.name>> \notin Same

\* The vector store never names an entity the graph does not have, whatever
\* write of a build fails.
VectorsBehindGraph == vector \subseteq DOMAIN node

\* Between two runs of the aging policy the ends of a live relation are live,
\* unless the cutoff of the last run fell between the first and the last write of
\* the build that refreshed the relation: a build refreshes the ends with the
\* relation, but one row after the other, each with a time of its own
\* (graph_store.py:66,130, pipeline.py:199-200).  A later cutoff takes the relation.
LiveRelationsHaveLiveEnds ==
    LET cutoff == aging.reference - Archive
    IN  aging.half = "done" => \A e \in DOMAIN rel :
            rel[e].status \in Live =>
                \/ {e[1], e[2]} \subseteq Visible
                \/ rel[e].since < cutoff /\ cutoff <= rel[e].at

\* An entity is stamped anew, or comes back, only by a build whose text mentions
\* it; a build does not keep the rest of the workspace from aging
\* (entity_resolver.py:94-95).
RefreshedOnlyByMention ==
    [][\A i \in DOMAIN node :
          node'[i].at # node[i].at \/ (i \in Visible' /\ i \notin Visible) =>
              \E b \in Builds : /\ i \in build[b].nodes \ build'[b].nodes
                                /\ \E n \in build[b].mentioned : <<n, i.name>> \in Same]_vars
=============================================================================
