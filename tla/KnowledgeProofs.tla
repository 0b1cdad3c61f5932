--------------------------- MODULE KnowledgeProofs ---------------------------
(***************************************************************************)
(* For any number of builds, any names, any way of matching them and any   *)
(* thresholds: the vector store stays behind the graph, and between two    *)
(* runs of the aging policy the ends of live relations are live, but for   *)
(* those whose build the cutoff of the last run fell into; builds that do  *)
(* not overlap keep the live names apart, and an entity is refreshed only  *)
(* by a text that mentions it.                                             *)
(***************************************************************************)
EXTENDS Knowledge, TLAPS

Cutoff == aging.reference - Archive

\* An entity that is not shown was too old for a run, and has not been written since.
DeadIsOld == \A i \in DOMAIN node : node[i].at <= clock /\ (i \in Visible \/ node[i].at < Cutoff)

\* A build writes its entities before anything that needs them, and stamps them
\* later than it began.
WrittenFirst ==
    \A b \in Builds :
        /\ build[b].since <= clock
        /\ build[b].step = "graph" =>
             \A e \in build[b].edges : \A i \in {e[1], e[2]} :
                i \in build[b].nodes \/ (i \in DOMAIN node /\ build[b].since <= node[i].at)
        /\ build[b].step = "graph" => build[b].embeds \subseteq build[b].nodes \union DOMAIN node
        /\ build[b].step = "vector" => build[b].embeds \subseteq DOMAIN node

\* The ends of a relation were written after its build began, and a live relation
\* is not too old for the last run, once that run is over.
EndsStamped ==
    \A e \in DOMAIN rel :
        /\ rel[e].status \in Live => aging.half = "relations" \/ Cutoff <= rel[e].at
        /\ \A i \in {e[1], e[2]} : i \in DOMAIN node /\ rel[e].since <= node[i].at

IInv == /\ TypeOK /\ aging.reference <= clock
        /\ VectorsBehindGraph /\ DeadIsOld /\ WrittenFirst /\ EndsStamped

-------------------------------------------------------------------------------
(* What the aging policy makes of a row: it keeps the stamp, revives nothing, and
   takes the live rows that are older than the cutoff and no others. *)
LEMMA AgedFacts ==
    ASSUME NEW row \in Row \union Edge, NEW reference \in Nat
    PROVE  /\ row \in Row => Aged(row, reference) \in Row
           /\ row \in Edge => Aged(row, reference) \in Edge /\ Aged(row, reference).since = row.since
           /\ Aged(row, reference).at = row.at
           /\ Aged(row, reference).status \in Live => row.status \in Live
           /\ row.status \in Live => (Aged(row, reference).status \in Live <=> reference - Archive <= row.at)
<1>1. {Downgrade, Archive, Delete} \subseteq Nat /\ Downgrade <= Archive /\ Archive <= Delete
  BY KnowledgeAssumption DEF KnowledgeAssumption
<1>2. row.at \in Nat /\ row.status \in Status
  BY DEF Row, Edge
<1>3. PICK s \in Status :
         /\ Aged(row, reference) = [row EXCEPT !.status = s]
         /\ s \in Live => row.status \in Live
         /\ row.status \in Live => (s \in Live <=> reference - Archive <= row.at)
  <2> DEFINE Early(threshold) == row.at < reference - threshold
             s == CASE row.status # "deleted" /\ Early(Delete) -> "deleted"
                    [] row.status \in Live /\ Early(Archive) /\ ~ Early(Delete) -> "archived"
                    [] row.status = "active" /\ Early(Downgrade) /\ ~ Early(Archive) -> "downgraded"
                    [] OTHER -> row.status
  <2>1. Aged(row, reference) = [row EXCEPT !.status = s]
    BY DEF Aged
  <2>2. Early(Delete) => Early(Archive)
    BY <1>1, <1>2
  <2>3. Early(Archive) <=> ~(reference - Archive <= row.at)
    BY <1>1, <1>2
  <2> HIDE DEF Early
  <2>4. /\ s \in Status /\ (s \in Live => row.status \in Live)
        /\ row.status \in Live => (s \in Live <=> ~ Early(Archive))
    BY <1>2, <2>2 DEF Status, Live
  <2> QED
    BY <2>1, <2>3, <2>4
<1> QED
  BY <1>3 DEF Row, Edge

LEMMA MergedFacts ==
    ASSUME NEW rows, NEW key, NEW row
    PROVE  /\ DOMAIN Merged(rows, key, row) = DOMAIN rows \union {key}
           /\ \A k \in DOMAIN rows \union {key} :
                Merged(rows, key, row)[k] = IF k = key THEN row ELSE rows[k]
  BY DEF Merged

(* What a text is resolved to are ids, and each is an entity of the text. *)
LEMMA ResolvedType ==
    ASSUME TypeOK, NEW b \in Builds, NEW mentions \in Mentions, NEW entities \in Resolved(b, mentions)
    PROVE  entities \subseteq Ids /\ Range(mentions) \subseteq Names
<1> DEFINE New(k) == [by |-> b, name |-> mentions[k]]
<1>1. Visible \subseteq Ids
  BY DEF TypeOK, Visible
<1>2. ASSUME NEW new \in Ids, NEW ids \in SUBSET Ids
      PROVE  Resolve(new, ids) \subseteq Ids
  BY DEF Resolve, Found, Named, Matching
<1>3. CASE mentions = <<>>
  <2>1. entities = {}
    BY <1>3 DEF Resolved
  <2> QED
    BY <1>3, <2>1 DEF Range
<1>4. CASE \E m \in Names : mentions = <<m>>
  <2>1. PICK m \in Names : mentions = <<m>>
    BY <1>4
  <2>2. Len(mentions) = 1 /\ mentions # <<>> /\ mentions[1] = m
    BY <2>1
  <2>3. New(1) \in Ids
    BY <2>2 DEF Ids
  <2>4. PICK x \in Resolve(New(1), Visible) : entities = {x}
    BY <2>2 DEF Resolved
  <2>5. x \in Ids
    BY <1>1, <1>2, <2>3, <2>4
  <2> QED
    BY <2>1, <2>4, <2>5 DEF Range
<1>5. CASE \E m \in Names, n \in Names : mentions = <<m, n>>
  <2>1. PICK m \in Names, n \in Names : mentions = <<m, n>>
    BY <1>5
  <2>2. Len(mentions) = 2 /\ mentions # <<>> /\ mentions[1] = m /\ mentions[2] = n
    BY <2>1
  <2>3. New(1) \in Ids /\ New(2) \in Ids
    BY <2>2 DEF Ids
  <2>4. PICK x \in Resolve(New(1), Visible) :
           entities \in {{x, y} : y \in Resolve(New(2), Visible \union {x})}
    <3> DEFINE Pairs(x) == {{x, y} : y \in Resolve(New(2), Visible \union {x})}
    <3>1. Resolved(b, mentions) = UNION {Pairs(x) : x \in Resolve(New(1), Visible)}
      BY <2>2 DEF Resolved
    <3>2. entities \in UNION {Pairs(x) : x \in Resolve(New(1), Visible)}
      BY <3>1
    <3> HIDE DEF Pairs, New
    <3>3. \E x \in Resolve(New(1), Visible) : entities \in Pairs(x)
      BY <3>2
    <3> QED
      BY <3>3 DEF Pairs
  <2>5. PICK y \in Resolve(New(2), Visible \union {x}) : entities = {x, y}
    BY <2>4
  <2>6. x \in Ids
    BY <1>1, <1>2, <2>3, <2>4
  <2>7. y \in Ids
    <3>1. Visible \union {x} \in SUBSET Ids
      BY <1>1, <2>6
    <3> QED
      BY <1>2, <2>3, <2>5, <3>1
  <2> QED
    BY <2>1, <2>5, <2>6, <2>7 DEF Range
<1> QED
  BY <1>3, <1>4, <1>5 DEF Mentions

-------------------------------------------------------------------------------
LEMMA InitIInv == Init => IInv
<1> SUFFICES ASSUME Init PROVE IInv
  OBVIOUS
<1>1. DOMAIN node = {} /\ DOMAIN rel = {} /\ aging.reference <= clock
  BY DEF Init
<1>2. NotStarted \in Progress
  BY DEF NotStarted, Progress
<1>3. TypeOK
  BY <1>1, <1>2 DEF Init, TypeOK
<1>4. VectorsBehindGraph
  BY DEF Init, VectorsBehindGraph
<1>5. WrittenFirst
  BY DEF Init, WrittenFirst, NotStarted
<1>6. EndsStamped /\ DeadIsOld
  BY <1>1 DEF EndsStamped, DeadIsOld
<1> QED
  BY <1>1, <1>3, <1>4, <1>5, <1>6 DEF IInv

(* A step that only takes one build on, to a progress that keeps its part. *)
LEMMA BuildStep ==
    ASSUME IInv, NEW b \in Builds, NEW p \in Progress,
           build' = [build EXCEPT ![b] = p],
           UNCHANGED <<node, rel, aging, clock>>, overlap' \in BOOLEAN,
           vector' \subseteq DOMAIN node, p.since <= clock,
           p.step = "graph" =>
              /\ \A e \in p.edges : \A i \in {e[1], e[2]} :
                    i \in p.nodes \/ (i \in DOMAIN node /\ p.since <= node[i].at)
              /\ p.embeds \subseteq p.nodes \union DOMAIN node,
           p.step = "vector" => p.embeds \subseteq DOMAIN node
    PROVE  IInv'
<1>1. TypeOK'
  BY DEF IInv, TypeOK
<1>2. VectorsBehindGraph'
  BY DEF VectorsBehindGraph
<1>3. WrittenFirst'
  <2>1. \A c \in Builds : build'[c] = IF c = b THEN p ELSE build[c]
    BY DEF IInv, TypeOK
  <2> QED
    BY <2>1 DEF IInv, WrittenFirst
<1>4. EndsStamped' /\ DeadIsOld'
  BY DEF IInv, EndsStamped, DeadIsOld, Cutoff, Visible
<1> QED
  BY <1>1, <1>2, <1>3, <1>4 DEF IInv

LEMMA ExtractIInv == \A b \in Builds : IInv /\ Extract(b) => IInv'
<1> SUFFICES ASSUME NEW b \in Builds, IInv, Extract(b) PROVE IInv'
  OBVIOUS
<1>a. PICK mentions \in Mentions : \E entities \in Resolved(b, mentions) : \E edges \in Edges(entities) :
         build' = [build EXCEPT ![b] =
                [step |-> "graph", mentioned |-> Range(mentions),
                 nodes |-> Touched(entities), edges |-> edges,
                 embeds |-> Touched(entities), since |-> clock]]
  BY DEF Extract
<1>b. PICK entities \in Resolved(b, mentions) : \E edges \in Edges(entities) :
         build' = [build EXCEPT ![b] =
                [step |-> "graph", mentioned |-> Range(mentions),
                 nodes |-> Touched(entities), edges |-> edges,
                 embeds |-> Touched(entities), since |-> clock]]
  BY <1>a
<1>1. PICK edges \in Edges(entities) :
         build' = [build EXCEPT ![b] =
                [step |-> "graph", mentioned |-> Range(mentions),
                 nodes |-> Touched(entities), edges |-> edges,
                 embeds |-> Touched(entities), since |-> clock]]
  BY <1>b
<1> DEFINE p == [step |-> "graph", mentioned |-> Range(mentions),
                 nodes |-> Touched(entities), edges |-> edges,
                 embeds |-> Touched(entities), since |-> clock]
<1>2. entities \subseteq Ids /\ Range(mentions) \subseteq Names
  BY ResolvedType DEF IInv
<1>3. edges \subseteq entities \X entities
  BY DEF Edges, Related
<1>4. p \in Progress
  BY <1>2, <1>3 DEF Progress, Touched, IInv, TypeOK
<1>5. \A e \in p.edges : \A i \in {e[1], e[2]} : i \in p.nodes
  BY <1>3 DEF Touched
<1>6. overlap' \in BOOLEAN
  BY DEF Extract
<1>7. vector' \subseteq DOMAIN node
  BY DEF Extract, IInv, VectorsBehindGraph
<1>8. UNCHANGED <<node, rel, aging, clock>>
  BY DEF Extract
<1>9. build' = [build EXCEPT ![b] = p] /\ p.step = "graph" /\ p.embeds = p.nodes /\ p.since <= clock
  BY <1>1 DEF IInv, TypeOK
<1> HIDE DEF p
<1> QED
  BY <1>4, <1>5, <1>6, <1>7, <1>8, <1>9, BuildStep

LEMMA FailIInv == \A b \in Builds : IInv /\ (Unreadable(b) \/ Fail(b)) => IInv'
<1> SUFFICES ASSUME NEW b \in Builds, IInv, Unreadable(b) \/ Fail(b) PROVE IInv'
  OBVIOUS
<1>1. build[b] \in Progress
  BY DEF IInv, TypeOK
<1>2. PICK p \in Progress : /\ p.step = "over" /\ p.since <= clock
                           /\ build' = [build EXCEPT ![b] = p]
  <2>1. CASE Unreadable(b)
    <3> DEFINE p == [build[b] EXCEPT !.step = "over"]
    <3>1. p \in Progress /\ p.step = "over" /\ p.since <= clock
      BY <1>1 DEF Progress, IInv, WrittenFirst
    <3>2. build' = [build EXCEPT ![b] = p]
      BY <2>1 DEF Unreadable
    <3> QED
      BY <3>1, <3>2
  <2>2. CASE Fail(b)
    <3> DEFINE p == [NotStarted EXCEPT !.step = "over"]
    <3>1. p \in Progress /\ p.step = "over" /\ p.since <= clock
      BY DEF Progress, NotStarted, IInv, TypeOK
    <3>2. build' = [build EXCEPT ![b] = p]
      BY <2>2 DEF Fail
    <3> QED
      BY <3>1, <3>2
  <2> QED
    BY <2>1, <2>2
<1>3. UNCHANGED <<node, rel, vector, aging, clock, overlap>>
  BY DEF Unreadable, Fail
<1>4. overlap' \in BOOLEAN /\ vector' \subseteq DOMAIN node
  BY <1>3 DEF IInv, TypeOK, VectorsBehindGraph
<1> QED
  BY <1>2, <1>3, <1>4, BuildStep

(* The writes of a build that keep the graph. *)
LEMMA VectorIInv == \A b \in Builds : IInv /\ (WriteChunks(b) \/ WriteVector(b) \/ Complete(b)) => IInv'
<1> SUFFICES ASSUME NEW b \in Builds, IInv, WriteChunks(b) \/ WriteVector(b) \/ Complete(b)
             PROVE IInv'
  OBVIOUS
<1>1. build[b] \in Progress /\ build[b].since <= clock
  BY DEF IInv, TypeOK, WrittenFirst
<1>2. UNCHANGED <<node, rel, aging, clock>> /\ overlap' \in BOOLEAN
  BY DEF WriteChunks, WriteVector, Complete, IInv, TypeOK
<1>3. CASE WriteChunks(b)
  <2> DEFINE p == [build[b] EXCEPT !.step = "vector"]
  <2>1. p \in Progress /\ p.step = "vector" /\ p.since <= clock
    BY <1>1 DEF Progress
  <2>2. build' = [build EXCEPT ![b] = p]
    BY <1>3 DEF WriteChunks
  <2>3. p.embeds \subseteq DOMAIN node
    <3>1. p.embeds = build[b].embeds
      BY <1>1 DEF Progress
    <3> QED
      BY <1>3, <3>1 DEF WriteChunks, IInv, WrittenFirst
  <2>4. vector' \subseteq DOMAIN node
    BY <1>3 DEF WriteChunks, IInv, VectorsBehindGraph
  <2> HIDE DEF p
  <2> QED
    BY <1>2, <2>1, <2>2, <2>3, <2>4, BuildStep
<1>4. CASE WriteVector(b)
  <2>1. PICK i \in build[b].embeds :
           /\ vector' \in {vector, vector \union {i}}
           /\ build' = [build EXCEPT ![b].embeds = @ \ {i}]
    BY <1>4 DEF WriteVector
  <2> DEFINE p == [build[b] EXCEPT !.embeds = @ \ {i}]
  <2>2. /\ p \in Progress /\ p.step = build[b].step /\ p.embeds = build[b].embeds \ {i}
        /\ p.since <= clock
    BY <1>1 DEF Progress
  <2>3. p.step = "vector"
    BY <1>4, <2>2 DEF WriteVector
  <2>4. build' = [build EXCEPT ![b] = p]
    BY <2>1
  <2>5. build[b].embeds \subseteq DOMAIN node
    BY <1>4 DEF WriteVector, IInv, WrittenFirst
  <2>6. vector' \subseteq DOMAIN node
    BY <2>1, <2>5 DEF IInv, VectorsBehindGraph
  <2> HIDE DEF p
  <2> QED
    BY <1>2, <2>2, <2>3, <2>4, <2>5, <2>6, BuildStep
<1>5. CASE Complete(b)
  <2> DEFINE p == [NotStarted EXCEPT !.step = "over"]
  <2>1. p \in Progress /\ p.step = "over" /\ p.since <= clock
    BY DEF Progress, NotStarted, IInv, TypeOK
  <2>2. build' = [build EXCEPT ![b] = p]
    BY <1>5 DEF Complete
  <2>3. vector' \subseteq DOMAIN node
    BY <1>5 DEF Complete, IInv, VectorsBehindGraph
  <2> HIDE DEF p
  <2> QED
    BY <1>2, <2>1, <2>2, <2>3, BuildStep
<1> QED
  BY <1>3, <1>4, <1>5

LEMMA NodeIInv == \A b \in Builds : IInv /\ WriteNode(b) => IInv'
<1> SUFFICES ASSUME NEW b \in Builds, IInv, WriteNode(b) PROVE IInv'
  OBVIOUS
<1> DEFINE row == [status |-> "active", at |-> clock]
<1>1. PICK i \in build[b].nodes :
         /\ node' = Merged(node, i, row)
         /\ build' = [build EXCEPT ![b].nodes = @ \ {i}]
  BY DEF WriteNode
<1>2. UNCHANGED <<rel, vector, aging, clock, overlap>>
  BY DEF WriteNode
<1>3. build[b] \in Progress /\ i \in Ids /\ clock \in Nat /\ row \in Row
  BY <1>1 DEF IInv, TypeOK, Progress, Row, Status, Live
<1>4. DOMAIN node' = DOMAIN node \union {i}
  BY <1>1, MergedFacts
<1>5. \A k \in DOMAIN node' : node'[k] = IF k = i THEN row ELSE node[k]
  BY <1>1, <1>4 DEF Merged
<1>6. i \in Visible' /\ \A k \in Visible : k \in Visible'
  BY <1>4, <1>5 DEF Visible, Live
<1>7. \A c \in Builds :
         /\ build'[c].step = build[c].step /\ build'[c].since = build[c].since
         /\ build'[c].edges = build[c].edges /\ build'[c].embeds = build[c].embeds
         /\ build'[c].nodes = IF c = b THEN build[c].nodes \ {i} ELSE build[c].nodes
         /\ build'[c] \in Progress
  BY <1>1, <1>3 DEF IInv, TypeOK, Progress
<1>8. TypeOK'
  <2>1. build' \in [Builds -> Progress]
    BY <1>1, <1>7 DEF IInv, TypeOK
  <2>2. DOMAIN node' \subseteq Ids /\ \A k \in DOMAIN node' : node'[k] \in Row
    BY <1>3, <1>4, <1>5 DEF IInv, TypeOK
  <2> QED
    BY <1>2, <2>1, <2>2 DEF IInv, TypeOK
<1>9. VectorsBehindGraph'
  BY <1>2, <1>4 DEF IInv, VectorsBehindGraph
<1>10. \A k \in DOMAIN node : /\ k \in DOMAIN node' /\ node[k].at \in Nat
                              /\ node[k].at <= node'[k].at /\ node'[k].at <= clock
  BY <1>3, <1>4, <1>5 DEF IInv, TypeOK, Row, DeadIsOld
<1>11. DeadIsOld'
  <2> SUFFICES ASSUME NEW k \in DOMAIN node'
               PROVE  node'[k].at <= clock /\ (k \in Visible' \/ node'[k].at < Cutoff)
    BY <1>2 DEF DeadIsOld, Cutoff
  <2>1. CASE k = i
    BY <1>3, <1>5, <1>6, <2>1
  <2>2. CASE k # i
    BY <1>4, <1>5, <1>6, <2>2 DEF IInv, DeadIsOld
  <2> QED
    BY <2>1, <2>2
<1>12. WrittenFirst'
  <2> SUFFICES ASSUME NEW c \in Builds
               PROVE  /\ build'[c].since <= clock
                      /\ build'[c].step = "graph" =>
                           \A e \in build'[c].edges : \A k \in {e[1], e[2]} :
                              k \in build'[c].nodes \/ (k \in DOMAIN node' /\ build'[c].since <= node'[k].at)
                      /\ build'[c].step = "graph" =>
                           build'[c].embeds \subseteq build'[c].nodes \union DOMAIN node'
                      /\ build'[c].step = "vector" => build'[c].embeds \subseteq DOMAIN node'
    BY <1>2 DEF WrittenFirst
  <2>1. build[c].since \in Nat /\ build[c].since <= clock /\ node'[i].at = clock /\ i \in DOMAIN node'
    BY <1>4, <1>5 DEF IInv, TypeOK, Progress, WrittenFirst
  <2>2. ASSUME build[c].step = "graph", NEW e \in build[c].edges, NEW k \in {e[1], e[2]}
        PROVE  k \in build'[c].nodes \/ (k \in DOMAIN node' /\ build[c].since <= node'[k].at)
    <3>1. CASE k = i
      BY <2>1, <3>1
    <3>2. CASE k # i /\ k \in build[c].nodes
      BY <1>7, <3>2
    <3>3. CASE k \in DOMAIN node /\ build[c].since <= node[k].at
      <4>1. node'[k].at \in Nat
        BY <1>3, <1>4, <1>5, <3>3 DEF IInv, TypeOK, Row
      <4> QED
        BY <1>10, <2>1, <3>3, <4>1
    <3> QED
      BY <2>2, <3>1, <3>2, <3>3 DEF IInv, WrittenFirst
  <2>3. build[c].step = "graph" => build[c].embeds \subseteq build'[c].nodes \union DOMAIN node'
    BY <1>4, <1>7 DEF IInv, WrittenFirst
  <2>4. build[c].step = "vector" => build[c].embeds \subseteq DOMAIN node'
    BY <1>4 DEF IInv, WrittenFirst
  <2> QED
    BY <1>7, <2>1, <2>2, <2>3, <2>4
<1>13. EndsStamped'
  <2>1. ASSUME NEW e \in DOMAIN rel, NEW k \in {e[1], e[2]}
        PROVE  k \in DOMAIN node' /\ rel[e].since <= node'[k].at
    <3>1. k \in DOMAIN node /\ rel[e].since <= node[k].at /\ rel[e].since \in Nat
      BY DEF IInv, EndsStamped, TypeOK, Edge
    <3>2. node'[k].at \in Nat
      BY <1>3, <1>4, <1>5, <3>1 DEF IInv, TypeOK, Row
    <3> QED
      BY <1>10, <3>1, <3>2
  <2> QED
    BY <1>2, <2>1 DEF IInv, EndsStamped, Cutoff
<1> QED
  BY <1>2, <1>8, <1>9, <1>11, <1>12, <1>13 DEF IInv

LEMMA EdgeIInv == \A b \in Builds : IInv /\ WriteEdge(b) => IInv'
<1> SUFFICES ASSUME NEW b \in Builds, IInv, WriteEdge(b) PROVE IInv'
  OBVIOUS
<1> DEFINE row == [status |-> "active", at |-> clock, since |-> build[b].since]
<1>1. PICK e \in build[b].edges :
         /\ {e[1], e[2]} \subseteq DOMAIN node
         /\ rel' = Merged(rel, e, row)
         /\ build' = [build EXCEPT ![b].edges = @ \ {e}]
  BY DEF WriteEdge
<1>2. UNCHANGED <<node, vector, aging, clock, overlap>> /\ Visible' = Visible
  BY DEF WriteEdge, Visible
<1>3. build[b] \in Progress /\ e \in Ids \X Ids /\ row \in Edge
  BY <1>1 DEF IInv, TypeOK, Progress, Edge, Status, Live
<1>4. DOMAIN rel' = DOMAIN rel \union {e}
  BY <1>1, MergedFacts
<1>5. \A r \in DOMAIN rel' : rel'[r] = IF r = e THEN row ELSE rel[r]
  BY <1>1, <1>4 DEF Merged
<1>6. \A c \in Builds :
         /\ build'[c].step = build[c].step /\ build'[c].since = build[c].since
         /\ build'[c].nodes = build[c].nodes /\ build'[c].embeds = build[c].embeds
         /\ build'[c].edges \subseteq build[c].edges
         /\ build'[c] \in Progress
  BY <1>1, <1>3 DEF IInv, TypeOK, Progress
<1>7. TypeOK'
  <2>1. build' \in [Builds -> Progress]
    BY <1>1, <1>6 DEF IInv, TypeOK
  <2>2. DOMAIN rel' \subseteq Ids \X Ids /\ \A r \in DOMAIN rel' : rel'[r] \in Edge
    BY <1>3, <1>4, <1>5 DEF IInv, TypeOK
  <2> QED
    BY <1>2, <2>1, <2>2 DEF IInv, TypeOK
<1>8. VectorsBehindGraph' /\ DeadIsOld'
  BY <1>2 DEF IInv, VectorsBehindGraph, DeadIsOld, Cutoff
<1>9. WrittenFirst'
  BY <1>2, <1>6 DEF IInv, WrittenFirst
<1>10. EndsStamped'
  <2>1. \A i \in {e[1], e[2]} : i \in DOMAIN node /\ build[b].since <= node[i].at
    BY <1>1 DEF IInv, WrittenFirst, WriteEdge
  <2>2. Cutoff <= clock
    BY KnowledgeAssumption DEF KnowledgeAssumption, IInv, TypeOK, Cutoff
  <2> SUFFICES ASSUME NEW r \in DOMAIN rel'
               PROVE  /\ rel'[r].status \in Live => aging.half = "relations" \/ Cutoff <= rel'[r].at
                      /\ \A i \in {r[1], r[2]} : i \in DOMAIN node /\ rel'[r].since <= node[i].at
    BY <1>2 DEF EndsStamped, Cutoff
  <2>3. CASE r = e
    BY <1>5, <2>1, <2>2, <2>3
  <2>4. CASE r # e
    BY <1>4, <1>5, <2>4 DEF IInv, EndsStamped
  <2> QED
    BY <2>3, <2>4
<1> QED
  BY <1>2, <1>7, <1>8, <1>9, <1>10 DEF IInv

-------------------------------------------------------------------------------
(* The aging policy and time. *)
LEMMA AgeNodesIInv == IInv /\ AgeNodes => IInv'
<1> SUFFICES ASSUME IInv, AgeNodes PROVE IInv'
  OBVIOUS
<1>1. /\ DOMAIN node' = DOMAIN node
      /\ \A i \in DOMAIN node : node'[i] = Aged(node[i], clock) /\ node[i] \in Row
      /\ UNCHANGED <<rel, vector, build, clock, overlap>>
      /\ aging' = [half |-> "relations", reference |-> clock] /\ clock \in Nat
  BY DEF AgeNodes, IInv, TypeOK
<1>2. \A i \in DOMAIN node : node'[i] \in Row /\ node'[i].at = node[i].at
  BY <1>1, AgedFacts
<1>3. TypeOK' /\ VectorsBehindGraph'
  BY <1>1, <1>2 DEF IInv, TypeOK, VectorsBehindGraph
<1>4. WrittenFirst' /\ EndsStamped'
  BY <1>1, <1>2 DEF IInv, WrittenFirst, EndsStamped
<1>5. DeadIsOld'
  <2> SUFFICES ASSUME NEW i \in DOMAIN node, i \notin Visible'
               PROVE  node[i].at < clock - Archive
    BY <1>1, <1>2 DEF IInv, DeadIsOld, Cutoff
  <2>1. node[i].at \in Nat /\ Archive \in Nat /\ aging.reference \in Nat /\ aging.reference <= clock
    BY <1>1, KnowledgeAssumption DEF KnowledgeAssumption, IInv, TypeOK, Row
  <2>2. CASE i \in Visible
    <3>1. node[i].status \in Live /\ Aged(node[i], clock).status \notin Live
      BY <1>1, <2>2 DEF Visible
    <3> QED
      BY <1>1, <2>1, <3>1, AgedFacts
  <2>3. CASE i \notin Visible
    BY <1>1, <2>1, <2>3 DEF IInv, DeadIsOld, Cutoff
  <2> QED
    BY <2>2, <2>3
<1>6. aging'.reference <= clock'
  BY <1>1
<1> QED
  BY <1>3, <1>4, <1>5, <1>6 DEF IInv

LEMMA AgeRelationsIInv == IInv /\ AgeRelations => IInv'
<1> SUFFICES ASSUME IInv, AgeRelations PROVE IInv'
  OBVIOUS
<1>1. /\ DOMAIN rel' = DOMAIN rel
      /\ \A e \in DOMAIN rel : rel'[e] = Aged(rel[e], aging.reference) /\ rel[e] \in Edge
      /\ UNCHANGED <<node, vector, build, clock, overlap>> /\ Visible' = Visible
      /\ aging' = [aging EXCEPT !.half = "done"] /\ aging.reference \in Nat
  BY DEF AgeRelations, Visible, IInv, TypeOK
<1>2. /\ aging' \in [half : {"done", "relations"}, reference : Nat]
      /\ aging'.reference = aging.reference
  BY <1>1 DEF IInv, TypeOK
<1>3. \A e \in DOMAIN rel : /\ rel'[e] \in Edge /\ rel'[e].at = rel[e].at /\ rel'[e].since = rel[e].since
                            /\ rel'[e].status \in Live => Cutoff <= rel[e].at
  BY <1>1, AgedFacts DEF Cutoff
<1>4. TypeOK'
  BY <1>1, <1>2, <1>3 DEF IInv, TypeOK
<1>5. VectorsBehindGraph' /\ WrittenFirst' /\ DeadIsOld'
  BY <1>1, <1>2 DEF IInv, VectorsBehindGraph, WrittenFirst, DeadIsOld, Cutoff
<1>6. EndsStamped'
  BY <1>1, <1>2, <1>3 DEF IInv, EndsStamped, Cutoff
<1> QED
  BY <1>1, <1>2, <1>4, <1>5, <1>6 DEF IInv

LEMMA TickIInv == IInv /\ Tick => IInv'
<1> SUFFICES ASSUME IInv, Tick PROVE IInv'
  OBVIOUS
<1>1. /\ UNCHANGED <<node, rel, vector, build, aging, overlap>> /\ Visible' = Visible
      /\ clock' = clock + 1 /\ clock \in Nat /\ clock' \in Nat
  BY DEF Tick, Visible, IInv, TypeOK
<1>2. \A n \in Nat : n <= clock => n <= clock'
  BY <1>1
<1>3. TypeOK' /\ VectorsBehindGraph' /\ EndsStamped'
  BY <1>1 DEF IInv, TypeOK, VectorsBehindGraph, EndsStamped, Cutoff
<1>4. WrittenFirst'
  BY <1>1, <1>2 DEF IInv, TypeOK, Progress, WrittenFirst
<1>5. DeadIsOld' /\ aging'.reference <= clock'
  BY <1>1, <1>2 DEF IInv, TypeOK, Row, DeadIsOld, Cutoff
<1> QED
  BY <1>3, <1>4, <1>5 DEF IInv

-------------------------------------------------------------------------------
LEMMA NextIInv == IInv /\ [Next]_vars => IInv'
<1> SUFFICES ASSUME IInv, [Next]_vars PROVE IInv'
  OBVIOUS
<1>1. CASE UNCHANGED vars
  BY <1>1 DEF vars, IInv, TypeOK, VectorsBehindGraph, WrittenFirst, EndsStamped, DeadIsOld, Cutoff, Visible
<1>2. ASSUME NEW b \in Builds,
             \/ Unreadable(b) \/ Extract(b) \/ WriteNode(b) \/ WriteEdge(b)
             \/ WriteChunks(b) \/ WriteVector(b) \/ Complete(b) \/ Fail(b)
      PROVE  IInv'
  BY <1>2, FailIInv, ExtractIInv, NodeIInv, EdgeIInv, VectorIInv
<1>3. CASE AgeNodes \/ AgeRelations \/ Tick
  BY <1>3, AgeNodesIInv, AgeRelationsIInv, TickIInv
<1> QED
  BY <1>1, <1>2, <1>3 DEF Next

LEMMA Invariance == Spec => []IInv
  BY InitIInv, NextIInv, PTL DEF Spec

(* The state of the graph, the vector store and the builds has the types of    *)
(* TypeOK, whatever the builds, names and thresholds (pipeline.py).            *)
THEOREM KnowledgeTypeCorrect == Spec => []TypeOK
<1>1. IInv => TypeOK
  BY DEF IInv
<1> QED
  BY <1>1, Invariance, PTL

(* The vector store never names an entity the graph does not have, whatever    *)
(* write of a build fails (pipeline.py:140-211).                               *)
THEOREM VectorsStayBehind == Spec => []VectorsBehindGraph
<1>1. IInv => VectorsBehindGraph
  BY DEF IInv
<1> QED
  BY <1>1, Invariance, PTL

(* Between two runs of the aging policy the ends of a live relation are live,  *)
(* unless the cutoff of the last run fell between the first and the last write *)
(* of the build that refreshed the relation; whatever passes between any two   *)
(* writes, and whatever the thresholds (aging.py, graph_store.py:66,130).      *)
THEOREM RelationsEndAlive == Spec => []LiveRelationsHaveLiveEnds
<1>1. ASSUME IInv, aging.half = "done", NEW e \in DOMAIN rel, rel[e].status \in Live
      PROVE  {e[1], e[2]} \subseteq Visible \/ (rel[e].since < Cutoff /\ Cutoff <= rel[e].at)
  <2>1. Cutoff <= rel[e].at
    BY <1>1 DEF IInv, EndsStamped
  <2>2. ASSUME NEW i \in {e[1], e[2]}, i \notin Visible
        PROVE  rel[e].since < Cutoff
    <3>1. i \in DOMAIN node /\ rel[e].since <= node[i].at /\ node[i].at < Cutoff
      BY <1>1, <2>2 DEF IInv, EndsStamped, DeadIsOld
    <3>2. rel[e].since \in Nat /\ node[i].at \in Nat /\ Cutoff \in Int
      BY <1>1, <3>1, KnowledgeAssumption DEF KnowledgeAssumption, IInv, TypeOK, Row, Edge, Cutoff
    <3> QED
      BY <3>1, <3>2
  <2> QED
    BY <2>1, <2>2
<1>2. IInv => LiveRelationsHaveLiveEnds
  BY <1>1 DEF LiveRelationsHaveLiveEnds, Cutoff
<1> QED
  BY <1>2, Invariance, PTL

-------------------------------------------------------------------------------
(* Resolution. *)
Apart(ids) == \A i, j \in ids : i # j => <<i.name, j.name>> \notin Same

\* What a build still has to write is what its text was resolved to.
MentionedFirst ==
    \A b \in Builds : \A i \in build[b].nodes :
        \E n \in build[b].mentioned : <<n, i.name>> \in Same

\* Builds one at a time, each with entities that fit the names it saw.
Serial ==
    ~ overlap =>
        /\ \A b, c \in Builds : Underway(b) /\ Underway(c) => b = c
        /\ Apart(Visible)
        /\ \A b \in Builds : build[b].step = "graph" => Apart(Visible \union build[b].nodes)

NInv == MentionedFirst /\ Serial

-------------------------------------------------------------------------------
(* A new entity is resolved to one that has its name, or to itself when
   nothing has. *)
LEMMA ResolveFacts ==
    ASSUME NEW ids \in SUBSET Ids, NEW new \in Ids, NEW x \in Resolve(new, ids)
    PROVE  /\ x \in Ids
           /\ <<new.name, x.name>> \in Same
           /\ Apart(ids) => Apart(ids \union {x})
<1>1. \A n \in Names : <<n, n>> \in Same
  BY KnowledgeAssumption DEF KnowledgeAssumption
<1>2. new.name \in Names /\ \A i \in ids : i.name \in Names
  BY DEF Ids
<1>3. CASE Found(new.name, ids) # {}
  <2>1. x \in Found(new.name, ids)
    BY <1>3 DEF Resolve
  <2>2. x \in ids /\ (x.name = new.name \/ <<new.name, x.name>> \in Same)
    BY <2>1 DEF Found, Named, Matching
  <2>3. ids \union {x} = ids
    BY <2>2
  <2> QED
    BY <1>1, <1>2, <2>2, <2>3
<1>4. CASE Found(new.name, ids) = {}
  <2>1. x = new
    BY <1>4 DEF Resolve
  <2>2. Matching(new.name, ids) = {}
    BY <1>4 DEF Found
  <2>3. \A i \in ids : <<x.name, i.name>> \notin Same
    BY <2>1, <2>2 DEF Matching
  <2>4. \A i \in ids : <<i.name, x.name>> \notin Same
    BY <1>2, <2>1, <2>3, KnowledgeAssumption DEF KnowledgeAssumption
  <2> QED
    BY <1>1, <1>2, <2>1, <2>3, <2>4 DEF Apart
<1> QED
  BY <1>3, <1>4

(* What a text is resolved to was mentioned by it, and is kept apart from what
   the graph shows. *)
LEMMA ResolvedFacts ==
    ASSUME TypeOK, NEW b \in Builds, NEW mentions \in Mentions, NEW entities \in Resolved(b, mentions)
    PROVE  /\ \A i \in entities : \E n \in Range(mentions) : <<n, i.name>> \in Same
           /\ Apart(Visible) => Apart(Visible \union entities)
<1> DEFINE New(k) == [by |-> b, name |-> mentions[k]]
<1>1. Visible \in SUBSET Ids
  BY DEF TypeOK, Visible
<1>2. CASE mentions = <<>>
  <2>1. entities = {} /\ Visible \union entities = Visible
    BY <1>2 DEF Resolved
  <2> QED
    BY <2>1
<1>3. CASE \E m \in Names : mentions = <<m>>
  <2>1. PICK m \in Names : mentions = <<m>>
    BY <1>3
  <2>2. Len(mentions) = 1 /\ mentions # <<>> /\ mentions[1] = m
    BY <2>1
  <2>3. New(1) \in Ids /\ New(1).name = m
    BY <2>2 DEF Ids
  <2>4. PICK x \in Resolve(New(1), Visible) : entities = {x}
    BY <2>2 DEF Resolved
  <2>5. <<m, x.name>> \in Same /\ (Apart(Visible) => Apart(Visible \union {x}))
    BY <1>1, <2>3, <2>4, ResolveFacts
  <2>6. m \in Range(mentions)
    BY <2>1, <2>2 DEF Range
  <2> QED
    BY <2>4, <2>5, <2>6
<1>4. CASE \E m \in Names, n \in Names : mentions = <<m, n>>
  <2>1. PICK m \in Names, n \in Names : mentions = <<m, n>>
    BY <1>4
  <2>2. Len(mentions) = 2 /\ mentions # <<>> /\ mentions[1] = m /\ mentions[2] = n
    BY <2>1
  <2>3. New(1) \in Ids /\ New(2) \in Ids /\ New(1).name = m /\ New(2).name = n
    BY <2>2 DEF Ids
  <2>4. PICK x \in Resolve(New(1), Visible) :
           entities \in {{x, y} : y \in Resolve(New(2), Visible \union {x})}
    <3> DEFINE Pairs(x) == {{x, y} : y \in Resolve(New(2), Visible \union {x})}
    <3>1. Resolved(b, mentions) = UNION {Pairs(x) : x \in Resolve(New(1), Visible)}
      BY <2>2 DEF Resolved
    <3>2. entities \in UNION {Pairs(x) : x \in Resolve(New(1), Visible)}
      BY <3>1
    <3> HIDE DEF Pairs, New
    <3>3. \E x \in Resolve(New(1), Visible) : entities \in Pairs(x)
      BY <3>2
    <3> QED
      BY <3>3 DEF Pairs
  <2>5. PICK y \in Resolve(New(2), Visible \union {x}) : entities = {x, y}
    BY <2>4
  <2>6. x \in Ids /\ <<m, x.name>> \in Same /\ (Apart(Visible) => Apart(Visible \union {x}))
    BY <1>1, <2>3, <2>4, ResolveFacts
  <2>7. /\ <<n, y.name>> \in Same
        /\ Apart(Visible \union {x}) => Apart((Visible \union {x}) \union {y})
    <3>1. Visible \union {x} \in SUBSET Ids
      BY <1>1, <2>6
    <3> QED
      BY <2>3, <2>5, <3>1, ResolveFacts
  <2>8. m \in Range(mentions) /\ n \in Range(mentions)
    BY <2>1, <2>2 DEF Range
  <2>9. (Visible \union {x}) \union {y} = Visible \union entities
    BY <2>5
  <2> QED
    BY <2>5, <2>6, <2>7, <2>8, <2>9
<1> HIDE DEF New
<1>5. \/ mentions = <<>>
      \/ \E m \in Names : mentions = <<m>>
      \/ \E m \in Names, n \in Names : mentions = <<m, n>>
  BY DEF Mentions
<1> QED
  BY <1>2, <1>3, <1>4, <1>5

-------------------------------------------------------------------------------
LEMMA InitNInv == Init => NInv
<1> SUFFICES ASSUME Init PROVE NInv
  OBVIOUS
<1>1. \A b \in Builds : build[b].nodes = {} /\ build[b].step = "new"
  BY DEF Init, NotStarted
<1>2. Visible = {}
  BY DEF Init, Visible
<1> QED
  BY <1>1, <1>2 DEF NInv, MentionedFirst, Serial, Apart, Underway

LEMMA ExtractNInv == \A b \in Builds : IInv /\ NInv /\ Extract(b) => NInv'
<1> SUFFICES ASSUME NEW b \in Builds, IInv, NInv, Extract(b) PROVE NInv'
  OBVIOUS
<1>a. PICK mentions \in Mentions : \E entities \in Resolved(b, mentions) : \E edges \in Edges(entities) :
         build' = [build EXCEPT ![b] =
                [step |-> "graph", mentioned |-> Range(mentions),
                 nodes |-> Touched(entities), edges |-> edges,
                 embeds |-> Touched(entities), since |-> clock]]
  BY DEF Extract
<1>b. PICK entities \in Resolved(b, mentions) : \E edges \in Edges(entities) :
         build' = [build EXCEPT ![b] =
                [step |-> "graph", mentioned |-> Range(mentions),
                 nodes |-> Touched(entities), edges |-> edges,
                 embeds |-> Touched(entities), since |-> clock]]
  BY <1>a
<1>1. PICK edges \in Edges(entities) :
         build' = [build EXCEPT ![b] =
                [step |-> "graph", mentioned |-> Range(mentions),
                 nodes |-> Touched(entities), edges |-> edges,
                 embeds |-> Touched(entities), since |-> clock]]
  BY <1>b
<1>2. /\ build'[b].step = "graph"
      /\ build'[b].nodes = entities /\ build'[b].mentioned = Range(mentions)
      /\ \A c \in Builds \ {b} : build'[c] = build[c]
  BY <1>1 DEF IInv, TypeOK, Touched
<1>3. Visible' = Visible
  BY DEF Extract, Visible
<1>4. /\ \A i \in entities : \E n \in Range(mentions) : <<n, i.name>> \in Same
      /\ Apart(Visible) => Apart(Visible \union entities)
  BY ResolvedFacts DEF IInv
<1>5. MentionedFirst'
  BY <1>2, <1>4 DEF NInv, MentionedFirst
<1>6. Serial'
  <2> SUFFICES ASSUME ~ overlap'
               PROVE  /\ \A c, d \in Builds : Underway(c)' /\ Underway(d)' => c = d
                      /\ Apart(Visible)
                      /\ \A c \in Builds : build'[c].step = "graph" =>
                            Apart(Visible \union build'[c].nodes)
    BY <1>3 DEF Serial, Apart
  <2>1. ~ overlap /\ \A c \in Builds \ {b} : ~ Underway(c)
    BY DEF Extract
  <2>2. Apart(Visible)
    BY <2>1 DEF NInv, Serial
  <2>3. \A c \in Builds \ {b} : ~ Underway(c)' /\ build'[c].step # "graph"
    BY <1>2, <2>1 DEF Underway
  <2> QED
    BY <1>2, <1>4, <2>2, <2>3
<1> QED
  BY <1>5, <1>6 DEF NInv

(* A step that starts no build, adds nothing to what one has to write, and shows
   at the most what a build in progress had to write. *)
LEMMA OtherNInv ==
    ASSUME NInv, overlap' = overlap,
           \A c \in Builds :
              /\ build'[c].nodes = {} \/ ( /\ build'[c].nodes \subseteq build[c].nodes
                                          /\ build'[c].mentioned = build[c].mentioned)
              /\ build'[c].step = "graph" => build[c].step = "graph"
              /\ Underway(c)' => Underway(c),
           \/ Visible' \subseteq Visible
           \/ \E b \in Builds : /\ build[b].step = "graph"
                                /\ Visible' \subseteq Visible \union build[b].nodes
    PROVE  NInv'
<1>1. MentionedFirst'
  BY DEF NInv, MentionedFirst
<1>2. Serial'
  <2> SUFFICES ASSUME ~ overlap
               PROVE  /\ \A c, d \in Builds : Underway(c)' /\ Underway(d)' => c = d
                      /\ Apart(Visible')
                      /\ \A c \in Builds : build'[c].step = "graph" =>
                            Apart(Visible' \union build'[c].nodes)
    BY DEF Serial, Apart
  <2>1. \A c, d \in Builds : Underway(c)' /\ Underway(d)' => c = d
    BY DEF NInv, Serial
  <2>2. Apart(Visible')
    BY DEF NInv, Serial, Apart
  <2>3. ASSUME NEW c \in Builds, build'[c].step = "graph"
        PROVE  Apart(Visible' \union build'[c].nodes)
    <3>1. build[c].step = "graph" /\ build'[c].nodes \subseteq build[c].nodes
      BY <2>3
    <3>2. Visible' \subseteq Visible \union build[c].nodes
      BY <3>1 DEF NInv, Serial, Underway
    <3>3. Apart(Visible \union build[c].nodes)
      BY <3>1 DEF NInv, Serial
    <3> QED
      BY <3>1, <3>2, <3>3 DEF Apart
  <2> QED
    BY <2>1, <2>2, <2>3
<1> QED
  BY <1>1, <1>2 DEF NInv

LEMMA WriteNodeNInv == \A b \in Builds : IInv /\ NInv /\ WriteNode(b) => NInv'
<1> SUFFICES ASSUME NEW b \in Builds, IInv, NInv, WriteNode(b) PROVE NInv'
  OBVIOUS
<1>1. PICK i \in build[b].nodes :
         /\ node' = Merged(node, i, [status |-> "active", at |-> clock])
         /\ build' = [build EXCEPT ![b].nodes = @ \ {i}]
  BY DEF WriteNode
<1>2. build[b] \in Progress
  BY DEF IInv, TypeOK
<1>3. \A c \in Builds :
         /\ build'[c].step = build[c].step /\ build'[c].mentioned = build[c].mentioned
         /\ build'[c].nodes \subseteq build[c].nodes
  BY <1>1, <1>2 DEF IInv, TypeOK, Progress
<1>4. DOMAIN node' = DOMAIN node \union {i}
  BY <1>1, MergedFacts
<1>5. \A k \in DOMAIN node' : node'[k] = IF k = i THEN [status |-> "active", at |-> clock] ELSE node[k]
  BY <1>1, <1>4 DEF Merged
<1>6. Visible' \subseteq Visible \union build[b].nodes
  BY <1>1, <1>4, <1>5 DEF Visible
<1>7. overlap' = overlap /\ build[b].step = "graph"
  BY DEF WriteNode
<1> QED
  BY <1>3, <1>6, <1>7, OtherNInv DEF Underway

(* The other steps of a build show nothing new. *)
LEMMA BuildNInv ==
    \A b \in Builds :
        /\ IInv /\ NInv
        /\ \/ Unreadable(b) \/ WriteEdge(b) \/ WriteChunks(b)
           \/ WriteVector(b) \/ Complete(b) \/ Fail(b)
        => NInv'
<1> SUFFICES ASSUME NEW b \in Builds, IInv, NInv,
                    \/ Unreadable(b) \/ WriteEdge(b) \/ WriteChunks(b)
                    \/ WriteVector(b) \/ Complete(b) \/ Fail(b)
             PROVE NInv'
  OBVIOUS
<1>1. build[b] \in Progress
  BY DEF IInv, TypeOK
<1>2. overlap' = overlap /\ Visible' = Visible
  BY DEF Unreadable, WriteEdge, WriteChunks, WriteVector, Complete, Fail, Visible
<1>3. \A c \in Builds \ {b} : build'[c] = build[c]
  BY DEF IInv, TypeOK, Unreadable, WriteEdge, WriteChunks, WriteVector, Complete, Fail
<1>4. /\ build'[b].nodes = {} \/ ( /\ build'[b].nodes = build[b].nodes
                                  /\ build'[b].mentioned = build[b].mentioned)
      /\ build'[b].step = "graph" => build[b].step = "graph"
      /\ Underway(b)' => Underway(b)
  <2>1. CASE Unreadable(b)
    BY <1>1, <2>1 DEF IInv, TypeOK, Progress, Unreadable, Underway
  <2>2. CASE WriteEdge(b)
    BY <1>1, <2>2 DEF IInv, TypeOK, Progress, WriteEdge, Underway
  <2>3. CASE WriteChunks(b)
    BY <1>1, <2>3 DEF IInv, TypeOK, Progress, WriteChunks, Underway
  <2>4. CASE WriteVector(b)
    BY <1>1, <2>4 DEF IInv, TypeOK, Progress, WriteVector, Underway
  <2>5. CASE Complete(b) \/ Fail(b)
    BY <1>1, <2>5 DEF IInv, TypeOK, Progress, Complete, Fail, NotStarted, Underway
  <2> QED
    BY <2>1, <2>2, <2>3, <2>4, <2>5
<1>5. \A c \in Builds :
         /\ build'[c].nodes = {} \/ ( /\ build'[c].nodes \subseteq build[c].nodes
                                     /\ build'[c].mentioned = build[c].mentioned)
         /\ build'[c].step = "graph" => build[c].step = "graph"
         /\ Underway(c)' => Underway(c)
  BY <1>3, <1>4 DEF Underway
<1> QED
  BY <1>2, <1>5, OtherNInv

(* Aging hides entities and time changes nothing that is shown. *)
LEMMA AgingNInv == IInv /\ NInv /\ (AgeNodes \/ AgeRelations \/ Tick) => NInv'
<1> SUFFICES ASSUME IInv, NInv, AgeNodes \/ AgeRelations \/ Tick PROVE NInv'
  OBVIOUS
<1>1. overlap' = overlap /\ build' = build
  BY DEF AgeNodes, AgeRelations, Tick
<1>2. Visible' \subseteq Visible
  <2>1. CASE AgeNodes
    BY <2>1, AgedFacts DEF AgeNodes, IInv, TypeOK, Visible
  <2>2. CASE AgeRelations
    BY <2>2 DEF AgeRelations, Visible
  <2>3. CASE Tick
    BY <2>3 DEF Tick, Visible
  <2> QED
    BY <2>1, <2>2, <2>3
<1> QED
  BY <1>1, <1>2, OtherNInv DEF Underway

LEMMA NextNInv == IInv /\ NInv /\ [Next]_vars => NInv'
<1> SUFFICES ASSUME IInv, NInv, [Next]_vars PROVE NInv'
  OBVIOUS
<1>1. CASE UNCHANGED vars
  BY <1>1, OtherNInv DEF vars, Visible, Underway
<1>2. ASSUME NEW b \in Builds,
             \/ Unreadable(b) \/ Extract(b) \/ WriteNode(b) \/ WriteEdge(b)
             \/ WriteChunks(b) \/ WriteVector(b) \/ Complete(b) \/ Fail(b)
      PROVE  NInv'
  BY <1>2, ExtractNInv, WriteNodeNInv, BuildNInv
<1>3. CASE AgeNodes \/ AgeRelations \/ Tick
  BY <1>3, AgingNInv
<1> QED
  BY <1>1, <1>2, <1>3 DEF Next

LEMMA NamesInvariance == Spec => [](IInv /\ NInv)
<1>1. Init => IInv /\ NInv
  BY InitIInv, InitNInv
<1>2. (IInv /\ NInv) /\ [Next]_vars => (IInv /\ NInv)'
  BY NextIInv, NextNInv
<1> QED
  BY <1>1, <1>2, PTL DEF Spec

-------------------------------------------------------------------------------
(* Without overlapping builds no two live entities have names the resolver     *)
(* takes for the same (entity_resolver.py, graph_store.get_all_entities).      *)
THEOREM SerialBuildsResolve == Spec => []SerialBuildsKeepNamesUnique
<1>1. NInv => SerialBuildsKeepNamesUnique
  BY DEF NInv, Serial, Apart, SerialBuildsKeepNamesUnique
<1> QED
  BY <1>1, NamesInvariance, PTL

(* Only a build whose text mentions an entity stamps it anew or brings it      *)
(* back: neither aging, nor time, nor the build of another text                *)
(* (entity_resolver.py:94-95).                                                 *)
LEMMA RefreshedByMention ==
    ASSUME IInv, NInv, [Next]_vars, NEW i \in DOMAIN node,
           node'[i].at # node[i].at \/ (i \in Visible' /\ i \notin Visible)
    PROVE  \E b \in Builds : /\ i \in build[b].nodes \ build'[b].nodes
                             /\ \E n \in build[b].mentioned : <<n, i.name>> \in Same
<1>1. node' # node
  BY DEF Visible
<1>2. ~ AgeNodes
  <2>1. node[i] \in Row /\ clock \in Nat
    BY DEF IInv, TypeOK
  <2> QED
    BY <2>1, AgedFacts DEF AgeNodes, Visible
<1>3. PICK b \in Builds : WriteNode(b)
  BY <1>1, <1>2 DEF Next, vars, Unreadable, Extract, WriteEdge, WriteChunks, WriteVector,
                    Complete, Fail, AgeRelations, Tick
<1>4. PICK k \in build[b].nodes :
         /\ node' = Merged(node, k, [status |-> "active", at |-> clock])
         /\ build' = [build EXCEPT ![b].nodes = @ \ {k}]
  BY <1>3 DEF WriteNode
<1>5. k = i
  <2>1. DOMAIN node' = DOMAIN node \union {k} /\ (k # i => node'[i] = node[i])
    BY <1>4 DEF Merged
  <2> QED
    BY <2>1 DEF Visible
<1>6. build'[b].nodes = build[b].nodes \ {k}
  BY <1>4 DEF IInv, TypeOK, Progress
<1> QED
  BY <1>4, <1>5, <1>6 DEF NInv, MentionedFirst

(* An entity is stamped anew, or comes back, only by a build whose text        *)
(* mentions it (entity_resolver.py:94-95, graph_store.upsert_entity).          *)
THEOREM OnlyMentionsRefresh == Spec => RefreshedOnlyByMention
<1>1. IInv /\ NInv /\ [Next]_vars =>
        [\A i \in DOMAIN node :
            node'[i].at # node[i].at \/ (i \in Visible' /\ i \notin Visible) =>
                \E b \in Builds : /\ i \in build[b].nodes \ build'[b].nodes
                                  /\ \E n \in build[b].mentioned : <<n, i.name>> \in Same]_vars
  BY RefreshedByMention
<1> QED
  BY <1>1, NamesInvariance, PTL DEF Spec, RefreshedOnlyByMention
===============================================================================
