----------------------------- MODULE BatchTasks -----------------------------
(***************************************************************************)
(* Batch tasks (app/batch/tasks.py, app/api/routes/batch.py) and the job   *)
(* queue (app/batch/scheduler.py).                                         *)
(*                                                                         *)
(* Every request of /batch builds a BatchTaskService of its own, whose     *)
(* memory ends with the request; batch_tasks is the table they share.  A   *)
(* task is known by the request that created it.                           *)
(*                                                                         *)
(* Jobs are messages that name a function.  The worker looks the name up   *)
(* among the tasks registered when it imported app.batch.tasks, and        *)
(* discards a message whose name it does not find.                         *)
(***************************************************************************)
EXTENDS FiniteSets

CONSTANTS
    Calls,       \* requests of /batch
    NoCall

Periodic == {"refresh_knowledge_graph", "cleanup_expired_sessions", "sync_web_resources"}

\* celery_app.task registers a function under the module that defines it.
Registered == [module : {"app.batch.tasks"}, job : Periodic \union {"index_document_to_kg"}]

\* BEAT_SCHEDULE.
Scheduled(job) == [module |-> "prd2tsd.batch.tasks", job |-> job]

VARIABLES
    memory,      \* request -> _tasks of its service
    table,       \* rows of batch_tasks
    call,        \* request -> [step, op, target, reply]
    queue,       \* messages the broker has
    ran,         \* functions the worker has run
    discarded    \* messages it has discarded

vars == <<memory, table, call, queue, ran, discarded>>

NotCalled == [step |-> "idle", op |-> "none", target |-> NoCall, reply |-> "none"]

Init == /\ memory = [c \in Calls |-> {}]
        /\ table = {}
        /\ call = [c \in Calls |-> NotCalled]
        /\ queue = {} /\ ran = {} /\ discarded = {}

jobs == <<queue, ran, discarded>>

Done(c, reply) == [call EXCEPT ![c].step = "done", ![c].reply = reply]

-------------------------------------------------------------------------------
(* The service.                                                            *)

\* The new task is kept in the memory of the request's own service.
Creates(c, op) ==
    /\ call[c] = NotCalled
    /\ memory' = [memory EXCEPT ![c] = @ \union {c}]
    /\ call' = [call EXCEPT ![c] = [step |-> "persist", op |-> op, target |-> c, reply |-> "none"]]
    /\ UNCHANGED <<table, jobs>>

\* reindex_documents and regenerate_plans: they create a record and run nothing.
ReindexDocuments(c) == Creates(c, "reindex")
RegeneratePlans(c) == Creates(c, "regenerate")

\* _persist: the row is committed, or the failure is logged.
Persist(c) ==
    /\ call[c].step = "persist"
    /\ table' \in {table, table \union memory[c]}
    /\ memory' = [memory EXCEPT ![c] = {}]
    /\ call' = Done(c, "created")
    /\ UNCHANGED jobs

\* _load_from_db: the row, or nothing when there is none or the database fails.
LoadFromDb(i) == {i \in table, FALSE}

\* get_task_status: the memory of its own service, then the table.
GetTaskStatus(c, i) ==
    /\ call[c] = NotCalled
    /\ \E loaded \in LoadFromDb(i) :
        call' = [call EXCEPT ![c] =
            [step |-> "done", op |-> "get", target |-> i,
             reply |-> IF i \in memory[c] \/ loaded THEN "found" ELSE "missing"]]
    /\ UNCHANGED <<memory, table, jobs>>

\* list_tasks: its memory and the rows, or its memory alone; target: a task looked for.
ListTasks(c, i) ==
    /\ call[c] = NotCalled
    /\ \E listed \in {memory[c], memory[c] \union table} :
        call' = [call EXCEPT ![c] =
            [step |-> "done", op |-> "list", target |-> i,
             reply |-> IF i \in listed THEN "found" ELSE "missing"]]
    /\ UNCHANGED <<memory, table, jobs>>

-------------------------------------------------------------------------------
(* The queue.                                                              *)

Sends(message) == queue' = queue \union {message} /\ UNCHANGED <<memory, table, call, ran, discarded>>

\* trigger_now, which reports success, and Celery beat.
TriggerNow == \E job \in Periodic : Sends(Scheduled(job))

\* index_document_to_kg.delay() of an upload uses the registered name.
Delay == Sends([module |-> "app.batch.tasks", job |-> "index_document_to_kg"])

\* The worker.
Work(message) ==
    /\ message \in queue
    /\ queue' = queue \ {message}
    /\ \/ message \in Registered /\ ran' = ran \union {message.job} /\ UNCHANGED discarded
       \/ message \notin Registered /\ discarded' = discarded \union {message} /\ UNCHANGED ran
    /\ UNCHANGED <<memory, table, call>>

-------------------------------------------------------------------------------
Next == \/ \E c \in Calls :
            \/ ReindexDocuments(c) \/ RegeneratePlans(c) \/ Persist(c)
            \/ \E i \in Calls : GetTaskStatus(c, i) \/ ListTasks(c, i)
        \/ TriggerNow \/ Delay
        \/ \E message \in queue : Work(message)

Spec == Init /\ [][Next]_vars

-------------------------------------------------------------------------------
\* scheduler.py:42-46: trigger_now "立即触发一个定时任务" and does trigger it: what
\* it sends, and what beat sends by the same table, is run (scheduler.py:17).
TriggeredJobsRun == discarded = {}
=============================================================================
