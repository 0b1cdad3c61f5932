----------------------------- MODULE Documents -----------------------------
(***************************************************************************)
(* Document management (app/document_management, app/web_indexing/         *)
(* url_document.py, the document routes and the indexing job): a file goes *)
(* to the object store and its row to uploaded_documents, with nothing     *)
(* around the two.  Files are known by their content, their hash; the      *)
(* object path is made of the workspace, the month and the hash, so equal  *)
(* contents share their object (one workspace, one month).                 *)
(*                                                                         *)
(* The routes never commit: get_db_session closes its session, which       *)
(* rolls back.  scripts/real_env_doc_flow.py calls the same service and    *)
(* commits.                                                                *)
(***************************************************************************)
EXTENDS Integers, FiniteSets

CONSTANTS
    Requests,    \* calls through the API
    Scripts,     \* calls of a script that commits
    Contents,    \* contents of files
    Indexable,   \* those multi_format_loader.is_indexable accepts by their name
    MaxRetries   \* of index_document_to_kg

Clients == Requests \union Scripts

\* What the constants have to satisfy; Services assumes it.
DocumentsAssumption ==
    /\ Requests \intersect Scripts = {}
    /\ Indexable \subseteq Contents
    /\ MaxRetries \in Nat

\* A row is known by the client that inserted it.
Row == [content : Contents, live : BOOLEAN, status : {"pending"}, type : {"file", "url"}]

VARIABLES
    table,      \* committed rows of uploaded_documents: client -> Row
    tx,         \* client -> the rows its open transaction has written
    object,     \* contents in the bucket
    call,       \* client -> its progress
    job,        \* client whose row is to be indexed -> attempts made
    known,      \* history: client -> clients with a committed row when it looked up its hash
    named       \* history: contents of the documents a DELETE has named

vars == <<table, tx, object, call, job, known, named>>

Steps == {"idle", "store", "insert", "tag", "mark", "close", "done"}
Replies == {"none", "created", "deduplicated", "deleted", "reindexed", "missing", "error"}
Progress == [step : Steps, op : {"none", "upload", "page", "delete", "reindex"},
             content : Contents, target : Clients, reply : Replies]

TypeOK ==
    /\ DOMAIN table \subseteq Clients /\ \A i \in DOMAIN table : table[i] \in Row
    /\ \A c \in Clients : DOMAIN tx[c] \subseteq Clients
                          /\ \A i \in DOMAIN tx[c] : tx[c][i] \in Row
    /\ object \subseteq Contents
    /\ \A c \in Clients : call[c] \in Progress
    /\ DOMAIN job \subseteq Clients /\ \A c \in DOMAIN job : job[c] \in 0 .. MaxRetries + 1
    /\ known \in [Clients -> SUBSET Clients]
    /\ named \subseteq Contents

NoRows == [i \in {} |-> 0]

Init ==
    /\ table = NoRows /\ object = {} /\ job = NoRows /\ named = {}
    /\ tx = [c \in Clients |-> NoRows]
    /\ known = [c \in Clients |-> {}]
    /\ call = [c \in Clients |-> [step |-> "idle", op |-> "none",
                                  content |-> CHOOSE k \in Contents : TRUE,
                                  target |-> c, reply |-> "none"]]

Put(f, i, v) == [j \in DOMAIN f \union {i} |-> IF j = i THEN v ELSE f[j]]
To(c, s) == [call EXCEPT ![c].step = s]
Answer(c, r) == [call EXCEPT ![c].step = "close", ![c].reply = r]

-------------------------------------------------------------------------------
(* Reads: of the committed rows, as every session starts a transaction of  *)
(* its own.                                                                *)

\* list_documents, get_stats and _list_recent: the rows not marked deleted.
Listed == {i \in DOMAIN table : table[i].live}

\* repository.get of a row another session wrote.
Get(i) == i \in Listed

\* Mutant: only documents already indexed count as duplicates.
DuplicatesIndexed(k) == {i \in Listed : table[i].content = k /\ table[i].status # "pending"}

\* get_by_hash.
Duplicates(k) == {i \in Listed : table[i].content = k}

\* storage.download.
Downloads(i) == table[i].content \in object

\* get_preview: the text, the error of the download, or the document is not there.
Preview(i) == IF ~Get(i) THEN "missing" ELSE IF Downloads(i) THEN "text" ELSE "error"

\* get_document_content: what an analysis of the document reads.
Readable(i) == Get(i) /\ Downloads(i)

-------------------------------------------------------------------------------
(* Upload.                                                                 *)

\* compute_hash and get_by_hash.  One match is the answer; scalar_one_or_none
\* raises when it finds two.
Lookup(c, op, k) ==
    LET same == Duplicates(k) IN
    /\ call[c].step = "idle"
    /\ known' = [known EXCEPT ![c] = DOMAIN table]
    /\ \/ same = {}
          /\ call' = [call EXCEPT ![c].step = "store", ![c].op = op, ![c].content = k]
       \/ \E i \in same :
            /\ same = {i}
            /\ call' = [call EXCEPT ![c] = [step |-> IF op = "page" THEN "tag" ELSE "close",
                                            op |-> op, content |-> k, target |-> i,
                                            reply |-> "deduplicated"]]
       \/ Cardinality(same) > 1
          /\ call' = [call EXCEPT ![c].step = "close", ![c].op = op, ![c].content = k,
                                  ![c].reply = "error"]
    /\ UNCHANGED <<table, tx, object, job, named>>

\* The checks of the upload: type and size, answered with 400.
Rejected(c, op) ==
    /\ call[c].step = "idle"
    /\ call' = [call EXCEPT ![c].step = "close", ![c].op = op, ![c].reply = "error"]
    /\ UNCHANGED <<table, tx, object, job, known, named>>

\* DocumentManagementService.upload up to the object store.
Upload(c, k) == Lookup(c, "upload", k) \/ Rejected(c, "upload")

\* UrlDocumentService.fetch_content and ingest: the page is fetched and checked,
\* then uploaded as a Markdown file.
Ingest(c, k) == Lookup(c, "page", k) \/ Rejected(c, "page")

\* Mutant: a failed upload to the bucket is logged, as a failed delete is.
StoreBlindly(c) ==
    /\ call[c].step = "store"
    /\ \/ object' = object \union {call[c].content}
       \/ UNCHANGED object
    /\ call' = To(c, "insert")
    /\ UNCHANGED <<table, tx, job, known, named>>

\* storage.upload: put_object, or an exception.
Store(c) ==
    /\ call[c].step = "store"
    /\ \/ object' = object \union {call[c].content} /\ call' = To(c, "insert")
       \/ UNCHANGED object /\ call' = Answer(c, "error")
    /\ UNCHANGED <<table, tx, job, known, named>>

\* repository.create, which flushes.
NewRow(c) == [content |-> call[c].content, live |-> TRUE, status |-> "pending", type |-> "file"]

\* _trigger_kg_index: the broker has the job, or the failure is logged.
Trigger(c) ==
    \/ call[c].content \in Indexable /\ job' = Put(job, c, 0)
    \/ UNCHANGED job

\* The end of upload: the row is flushed and its job sent, before any commit.
Insert(c) ==
    /\ call[c].step = "insert"
    /\ tx' = [tx EXCEPT ![c] = Put(@, c, NewRow(c))]
    /\ Trigger(c)
    /\ call' = [call EXCEPT ![c].step = IF call[c].op = "page" THEN "tag" ELSE "close",
                            ![c].target = c, ![c].reply = "created"]
    /\ UNCHANGED <<table, object, known, named>>

-------------------------------------------------------------------------------
(* Updates of a row: repository.update and soft_delete lock the row until  *)
(* their transaction ends, and flush.                                      *)

Seen(c, i) == IF i \in DOMAIN tx[c] THEN tx[c][i] ELSE table[i]
Lockable(c, i) == \A d \in Clients \ {c} : i \notin DOMAIN tx[d]
Write(c, i, row) == tx' = [tx EXCEPT ![c] = Put(@, i, row)]

\* The end of ingest: file_type and source_url, on the document of an earlier
\* upload as well.
Tag(c) ==
    LET i == call[c].target IN
    /\ call[c].step = "tag"
    /\ Lockable(c, i)
    /\ Write(c, i, [Seen(c, i) EXCEPT !.type = "url"])
    /\ call' = To(c, "close")
    /\ UNCHANGED <<table, object, job, known, named>>

\* delete_document: the object first, whose failure is only logged.
Discard(c, i) ==
    /\ call[c].step = "idle"
    /\ \/ /\ ~Get(i)
          /\ call' = [call EXCEPT ![c].step = "close", ![c].op = "delete",
                                  ![c].target = i, ![c].reply = "missing"]
          /\ UNCHANGED <<object, named>>
       \/ /\ Get(i)
          /\ object' \in {object, object \ {table[i].content}}
          /\ named' = named \union {table[i].content}
          /\ call' = [call EXCEPT ![c].step = "mark", ![c].op = "delete", ![c].target = i]
    /\ UNCHANGED <<table, tx, job, known>>

\* soft_delete: the row is still live, as no request commits its own.
Mark(c) ==
    LET i == call[c].target IN
    /\ call[c].step = "mark"
    /\ Lockable(c, i)
    /\ Write(c, i, [table[i] EXCEPT !.live = FALSE])
    /\ call' = Answer(c, "deleted")
    /\ UNCHANGED <<table, object, job, known, named>>

\* reindex: marks the row; it triggers no job.
Reindex(c, i) ==
    /\ call[c].step = "idle"
    /\ \/ /\ ~Get(i)
          /\ call' = [call EXCEPT ![c].step = "close", ![c].op = "reindex", ![c].reply = "missing"]
          /\ UNCHANGED tx
       \/ /\ Get(i) /\ Lockable(c, i)
          /\ Write(c, i, [table[i] EXCEPT !.status = "pending"])
          /\ call' = [call EXCEPT ![c].step = "close", ![c].op = "reindex",
                                  ![c].target = i, ![c].reply = "reindexed"]
    /\ UNCHANGED <<table, object, job, known, named>>

-------------------------------------------------------------------------------
(* The end of a session.                                                   *)

Over(c) ==
    /\ tx' = [tx EXCEPT ![c] = NoRows]
    /\ call' = To(c, "done")
    /\ UNCHANGED <<object, job, known, named>>

\* get_db_session, and _ingest_url_document: closed, and so rolled back.
Close(c) ==
    /\ c \in Requests /\ call[c].step = "close"
    /\ UNCHANGED table
    /\ Over(c)

\* real_env_doc_flow.py commits; an exception ends it without.
Commit(c) ==
    /\ c \in Scripts /\ call[c].step = "close"
    /\ table' = IF call[c].reply = "error" THEN table
                ELSE [i \in DOMAIN table \union DOMAIN tx[c] |-> Seen(c, i)]
    /\ Over(c)

\* index_document_to_kg: no Celery worker opens the connections, so that
\* connection_manager.get raises before the row is read, and the job is retried.
RunJob(c) ==
    /\ c \in DOMAIN job /\ job[c] <= MaxRetries
    /\ job' = [job EXCEPT ![c] = @ + 1]
    /\ UNCHANGED <<table, tx, object, call, known, named>>

-------------------------------------------------------------------------------
PostUpload(c) == \E k \in Contents : Upload(c, k)
PostPage(c) == \E k \in Contents : Ingest(c, k)
DeleteDocument(c) == c \in Requests /\ \E i \in Clients : Discard(c, i)
PostReindex(c) == c \in Requests /\ \E i \in Clients : Reindex(c, i)

Step(c) == PostUpload(c) \/ PostPage(c) \/ DeleteDocument(c) \/ PostReindex(c)
           \/ Store(c) \/ Insert(c) \/ Tag(c) \/ Mark(c) \/ Close(c) \/ Commit(c) \/ RunJob(c)

Next == \E c \in Clients : Step(c)

Spec == Init /\ [][Next]_vars

-------------------------------------------------------------------------------
(* Two documents of equal content come only from uploads that overlapped:  *)
(* each was looked up before the other one was committed                   *)
(* (document_management/service.py:119).                                   *)
OneRowPerContent ==
    \A i, j \in Listed : i # j /\ table[i].content = table[j].content
                         => i \notin known[j] /\ j \notin known[i]

(* A listed document can be read, unless a DELETE has named a document of  *)
(* its content: only its soft delete is rolled back, the object is gone    *)
(* (document_management/service.py:243).                                   *)
ObjectsOutliveRows ==
    \A i \in Listed : (Preview(i) = "text" /\ Readable(i)) \/ table[i].content \in named

(* service.py:91: an upload "校验 → 去重 → 存 MinIO → 写 DB", so a document   *)
(* reported as created is in the table once its request is over.           *)
UploadedIsFound ==
    \A c \in Clients : call[c].step = "done" /\ call[c].reply = "created" => Get(c)
=============================================================================
