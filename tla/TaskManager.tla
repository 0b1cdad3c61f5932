----------------------------- MODULE TaskManager -----------------------------
(***************************************************************************)
(* app/task_manager.py with its task_runs table (task_manager_store.py).   *)
(*                                                                         *)
(* Every coroutine of the manager (create_task followed by _execute_task,  *)
(* resolve_review followed by _resume_task) is a job on a worker.  A step  *)
(* is the code between two awaits; the in-memory record changes under      *)
(* TaskManager._lock, the table is written afterwards without it.  The     *)
(* compiled LangGraph is external: a run of astream() raises, stops at a   *)
(* human review or reaches END, and the manager judges by the last chunk   *)
(* which it was.  A crash loses memory and coroutines, keeps the table,    *)
(* and keeps or loses the graph's checkpoints (PostgresSaver or            *)
(* MemorySaver).                                                           *)
(*                                                                         *)
(* astream() is called without a stream mode: the compiled graph then      *)
(* yields updates, {node: what it wrote}, and {"__interrupt__": ...} when  *)
(* it stops, in none of which the manager finds a status.  It was written  *)
(* for chunks that are the state itself, "values", and its tests feed it   *)
(* those (tests/unit/test_task_manager_metrics.py).                        *)
(***************************************************************************)
EXTENDS Integers, GraphStatus

CONSTANTS
    Tasks,        \* task ids
    Workers,      \* coroutines alive at once
    NoTask,       \* task of an idle worker
    StreamModes,  \* what the chunks of astream() may be
    StoreFails,   \* TRUE: a table access may fail (it is only logged)
    MaxAccepted,  \* bound: reviews accepted per task
    MaxCrashes    \* bound: process restarts

ASSUME TaskAssumption == /\ NoTask \notin Tasks
                         /\ StreamModes \subseteq {"updates", "values"}
                         /\ StoreFails \in BOOLEAN
                         /\ MaxAccepted \in Nat
                         /\ MaxCrashes \in Nat

VARIABLES
    mem,       \* _tasks[t]["status"], "absent" when there is no record
    orch,      \* tasks whose in-memory record has an orchestrator
    store,     \* status column of the task_runs row, "absent" when there is none
    graph,     \* external: the graph's thread
    job,       \* the coroutine of each worker
    pauses,    \* history: times t became paused in memory by its graph
    accepted,  \* history: reviews of t that resolve_review accepted
    crashes    \* history: restarts

vars == <<mem, orch, store, graph, job, pauses, accepted, crashes>>

Terminal == Finals \union {"failed"}
Open     == {"running", "resuming"}
Status   == Open \union Terminal \union {"paused"}

\* While a coroutine is at one of these it has the task to itself.
OwnerSteps == {"insert", "begin", "stream", "claimed", "resume", "restream",
               "pause", "finish", "fail"}
\* It has updated the record and still has the table and the events to do.
TailSteps == {"pause_store", "pause_emit", "finish_store", "finish_emit",
              "fail_store", "fail_emit"}

Job(step, t, out) == [step |-> step, task |-> t, out |-> out]
Idle == Job("idle", NoTask, "none")

\* out: the status that _update_result will record, or the reviewer's decision.
Out == {"none", "running", "paused"} \union Finals \union Decisions
Jobs == [step : OwnerSteps \union TailSteps, task : Tasks, out : Out] \union {Idle}

TypeOK == /\ mem \in [Tasks -> Status \union {"absent"}]
          /\ orch \subseteq Tasks
          /\ store \in [Tasks -> Status \union {"absent"}]
          /\ graph \in [Tasks -> {"none", "running", "interrupted", "ended"}]
          /\ job \in [Workers -> Jobs]
          /\ pauses \in [Tasks -> Nat]
          /\ accepted \in [Tasks -> Nat]
          /\ crashes \in Nat

Init == /\ mem = [t \in Tasks |-> "absent"]
        /\ orch = {}
        /\ store = [t \in Tasks |-> "absent"]
        /\ graph = [t \in Tasks |-> "none"]
        /\ job = [w \in Workers |-> Idle]
        /\ pauses = [t \in Tasks |-> 0]
        /\ accepted = [t \in Tasks |-> 0]
        /\ crashes = 0

-------------------------------------------------------------------------------
(* The coroutine on w moves from one step to another ... *)
Goto(w, from, to, out) == /\ job[w].step = from
                          /\ job' = [job EXCEPT ![w] = Job(to, job[w].task, out)]

(* ... or returns. *)
Return(w, from) == /\ job[w].step = from
                   /\ job' = [job EXCEPT ![w] = Idle]

(* update_task_run(): one UPDATE, no row no effect, a failure is swallowed. *)
StoreUpdate(t, status) ==
    \/ store' = [store EXCEPT ![t] = IF @ = "absent" THEN @ ELSE status]
    \/ StoreFails /\ UNCHANGED store

(* load_task_run(): the status a reader gets. *)
Loadable(t) == {store[t]} \union (IF StoreFails THEN {"absent"} ELSE {})

-------------------------------------------------------------------------------
(* create_task() and _execute_task(). *)

(* create_task: the record enters _tasks.  The id is a fresh uuid4. *)
Create(w, t, hasOrchestrator) ==
    /\ job[w] = Idle
    /\ graph[t] = "none"
    /\ job' = [job EXCEPT ![w] = Job("insert", t, "none")]
    /\ mem' = [mem EXCEPT ![t] = "running"]
    /\ orch' = IF hasOrchestrator THEN orch \union {t} ELSE orch
    /\ graph' = [graph EXCEPT ![t] = "running"]
    /\ UNCHANGED <<store, pauses, accepted, crashes>>

(* create_task: the row is inserted (or not); _execute_task is spawned. *)
StoreCreate(w) ==
    LET t == job[w].task IN
    /\ Goto(w, "insert", "begin", "none")
    /\ \/ store' = [store EXCEPT ![t] = "running"]
       \/ StoreFails /\ UNCHANGED store
    /\ UNCHANGED <<mem, orch, graph, pauses, accepted, crashes>>

(* _execute_task: reads the orchestrator, gives up without one. *)
Begin(w) ==
    /\ Goto(w, "begin", IF job[w].task \in orch THEN "stream" ELSE "fail", "none")
    /\ UNCHANGED <<mem, orch, store, graph, pauses, accepted, crashes>>

-------------------------------------------------------------------------------
(* astream() and what the two callers make of its last chunk. *)

\* Mutant of StreamRaises: a failed run is tried again, without limit.
StreamRaisesRetry(w) ==
    /\ job[w].step \in {"stream", "restream"}
    /\ Goto(w, job[w].step, IF job[w].step = "stream" THEN "begin" ELSE "resume", job[w].out)
    /\ UNCHANGED <<mem, orch, store, graph, pauses, accepted, crashes>>

(* The graph raises: both callers end in _mark_failed. *)
StreamRaises(w) ==
    /\ job[w].step \in {"stream", "restream"}
    /\ Goto(w, job[w].step, "fail", "none")
    /\ UNCHANGED <<mem, orch, store, graph, pauses, accepted, crashes>>

(* What final_state.get("status", "complete") makes of a last chunk that is an
   update, or of one that is a state with this status. *)
Recorded(streamMode, status) == IF streamMode = "values" THEN status ELSE "complete"

(* The graph reaches END with a final status; the clarify branch is taken, if at
   all, before the first review. *)
StreamEnds(w) ==
    LET t == job[w].task IN
    /\ \E m \in StreamModes :
         \/ \E status \in Finals : Goto(w, "stream", "finish", Recorded(m, status))
         \/ Goto(w, "restream", "finish", Recorded(m, "complete"))
    /\ graph[t] # "ended"
    /\ graph' = [graph EXCEPT ![t] = "ended"]
    /\ UNCHANGED <<mem, orch, store, pauses, accepted, crashes>>

(* The graph stops at a review, with the status "running".  _execute_task: a last
   chunk with that status means paused, and any other one the end. *)
FirstInterrupt(w) ==
    LET t == job[w].task IN
    /\ \E m \in StreamModes :
         IF Recorded(m, "running") = "running" THEN Goto(w, "stream", "pause", "none")
         ELSE Goto(w, "stream", "finish", Recorded(m, "running"))
    /\ graph[t] = "running"
    /\ graph' = [graph EXCEPT ![t] = "interrupted"]
    /\ UNCHANGED <<mem, orch, store, pauses, accepted, crashes>>

(* The resumed graph stops at its next review.  _resume_task asks only whether
   there was a chunk, and hands it to _update_result if so. *)
NextInterrupt(w) ==
    /\ \E m \in StreamModes : Goto(w, "restream", "finish", Recorded(m, ReviewedStatus(job[w].out)))
    /\ graph[job[w].task] = "interrupted"
    /\ UNCHANGED <<mem, orch, store, graph, pauses, accepted, crashes>>

(* _resume_task got no chunk: an interrupt before any output, or nothing to
   resume because the thread has ended or its checkpoint is lost. *)
NoChunk(w) ==
    /\ Goto(w, "restream", "pause", "none")
    /\ graph[job[w].task] # "running"
    /\ UNCHANGED <<mem, orch, store, graph, pauses, accepted, crashes>>

-------------------------------------------------------------------------------
(* The three ways a run is recorded: memory under the lock, then the table,
   then the events. *)

(* The paused branch of _execute_task and _resume_task. *)
MemPause(w) ==
    LET t == job[w].task IN
    /\ Goto(w, "pause", "pause_store", "none")
    /\ mem' = [mem EXCEPT ![t] = "paused"]
    /\ pauses' = [pauses EXCEPT ![t] = @ + 1]
    /\ UNCHANGED <<orch, store, graph, accepted, crashes>>

StorePause(w) ==
    /\ Goto(w, "pause_store", "pause_emit", "none")
    /\ StoreUpdate(job[w].task, "paused")
    /\ UNCHANGED <<mem, orch, graph, pauses, accepted, crashes>>

EmitPause(w) ==
    /\ Return(w, "pause_emit")
    /\ UNCHANGED <<mem, orch, store, graph, pauses, accepted, crashes>>

(* _update_result *)
MemFinish(w) ==
    LET t == job[w].task
        status == job[w].out
    IN
    /\ Goto(w, "finish", "finish_store", status)
    /\ mem' = [mem EXCEPT ![t] = status]
    /\ pauses' = IF status = "paused" THEN [pauses EXCEPT ![t] = @ + 1] ELSE pauses
    /\ UNCHANGED <<orch, store, graph, accepted, crashes>>

StoreFinish(w) ==
    /\ Goto(w, "finish_store", "finish_emit", "none")
    /\ StoreUpdate(job[w].task, job[w].out)
    /\ UNCHANGED <<mem, orch, graph, pauses, accepted, crashes>>

EmitFinish(w) ==
    /\ Return(w, "finish_emit")
    /\ UNCHANGED <<mem, orch, store, graph, pauses, accepted, crashes>>

\* Mutant of MemFail: only the table and the events are told.
MemFailForgets(w) ==
    /\ Goto(w, "fail", "fail_store", "none")
    /\ UNCHANGED <<mem, orch, store, graph, pauses, accepted, crashes>>

(* _mark_failed *)
MemFail(w) ==
    /\ Goto(w, "fail", "fail_store", "none")
    /\ mem' = [mem EXCEPT ![job[w].task] = "failed"]
    /\ UNCHANGED <<orch, store, graph, pauses, accepted, crashes>>

StoreFail(w) ==
    /\ Goto(w, "fail_store", "fail_emit", "none")
    /\ StoreUpdate(job[w].task, "failed")
    /\ UNCHANGED <<mem, orch, graph, pauses, accepted, crashes>>

EmitFail(w) ==
    /\ Return(w, "fail_emit")
    /\ UNCHANGED <<mem, orch, store, graph, pauses, accepted, crashes>>

-------------------------------------------------------------------------------
(* resolve_review() and _resume_task(). *)

\* Mutant of Claim: the status is not moved on while the lock is held.
ClaimLater(t) == mem' = [mem EXCEPT ![t] = "paused"]

\* The review is taken: the record leaves "paused" under the lock.
Claim(t) == mem' = [mem EXCEPT ![t] = "resuming"]

(* resolve_review, accepted: the record (or, when memory has none, the row
   with the global orchestrator mounted) is paused. *)
Resolve(w, t, decision) ==
    /\ job[w] = Idle
    /\ accepted[t] < MaxAccepted
    /\ \/ mem[t] = "paused" /\ UNCHANGED orch
       \/ mem[t] = "absent" /\ "paused" \in Loadable(t) /\ orch' = orch \union {t}
    /\ Claim(t)
    /\ accepted' = [accepted EXCEPT ![t] = @ + 1]
    /\ job' = [job EXCEPT ![w] = Job("claimed", t, decision)]
    /\ UNCHANGED <<store, graph, pauses, crashes>>

(* resolve_review, refused: a row that is not paused has still been mounted. *)
ResolveRefused(t) ==
    /\ mem[t] = "absent"
    /\ store[t] \notin {"absent", "paused"}
    /\ mem' = [mem EXCEPT ![t] = store[t]]
    /\ orch' = orch \union {t}
    /\ UNCHANGED <<store, graph, job, pauses, accepted, crashes>>

(* resolve_review: the table follows; without an orchestrator it stops here. *)
StoreResuming(w) ==
    /\ IF job[w].task \in orch
         THEN Goto(w, "claimed", "resume", job[w].out)
         ELSE Return(w, "claimed")
    /\ StoreUpdate(job[w].task, "resuming")
    /\ UNCHANGED <<mem, orch, graph, pauses, accepted, crashes>>

(* _resume_task: two events, then astream(Command(resume=...)). *)
Resume(w) ==
    /\ Goto(w, "resume", "restream", job[w].out)
    /\ UNCHANGED <<mem, orch, store, graph, pauses, accepted, crashes>>

-------------------------------------------------------------------------------
(* The process dies and comes back: __init__ starts from empty memory, and
   nothing re-reads the table before somebody asks for a task. *)
Crash ==
    /\ crashes < MaxCrashes
    /\ crashes' = crashes + 1
    /\ mem' = [t \in Tasks |-> "absent"]
    /\ orch' = {}
    /\ job' = [w \in Workers |-> Idle]
    /\ \/ UNCHANGED graph
       \/ graph' = [t \in Tasks |-> IF graph[t] = "none" THEN "none" ELSE "ended"]
    /\ UNCHANGED <<store, pauses, accepted>>

-------------------------------------------------------------------------------
\* One step of the coroutine on w.
Step(w) == \/ StoreCreate(w) \/ Begin(w)
           \/ StreamRaises(w) \/ StreamEnds(w)
           \/ FirstInterrupt(w) \/ NextInterrupt(w) \/ NoChunk(w)
           \/ MemPause(w) \/ StorePause(w) \/ EmitPause(w)
           \/ MemFinish(w) \/ StoreFinish(w) \/ EmitFinish(w)
           \/ MemFail(w) \/ StoreFail(w) \/ EmitFail(w)
           \/ StoreResuming(w) \/ Resume(w)

\* A request reaches the manager.
Request == \/ \E w \in Workers, t \in Tasks :
                \/ \E o \in BOOLEAN : Create(w, t, o)
                \/ \E d \in Decisions : Resolve(w, t, d)
           \/ \E t \in Tasks : ResolveRefused(t)

Next == Request \/ (\E w \in Workers : Step(w)) \/ Crash

\* The event loop runs every ready coroutine, the pool answers, and a graph run
\* ends: every LLM call in it has a timeout.  Nobody is obliged to review.
Fairness == \A w \in Workers : WF_vars(Step(w))

Spec == Init /\ [][Next]_vars /\ Fairness
-------------------------------------------------------------------------------
Owner(w, t) == job[w].task = t /\ job[w].step \in OwnerSteps

(* A task is driven by one coroutine at a time, and only while its record says
   running or resuming: two astream() calls never share a thread_id, however
   reviewers race with a run that is still writing its pause to the table. *)
OneDriver == \A t \in Tasks, w \in Workers : Owner(w, t) =>
                /\ mem[t] \in Open
                /\ \A v \in Workers : Owner(v, t) => v = w

(* Within one process lifetime each pause is resumed at most once; a restart can
   re-expose at most one pause that was already resumed (a stale table row). *)
ReviewsConsumePauses == \A t \in Tasks : accepted[t] <= pauses[t] + crashes

(* A task that is complete or failed stays so until the process restarts. *)
TerminalStays ==
    [][\A t \in Tasks : mem[t] \in Terminal => mem'[t] \in {mem[t], "absent"}]_vars

(* The table never announces an end that memory does not know: a final row is
   the final record, whatever late writes are still on their way. *)
StoredEndIsReal ==
    \A t \in Tasks : store[t] \in Terminal => mem[t] \in {store[t], "absent"}

(* Every run comes to rest: a coroutine that drives a task hands it back. *)
RunsComeToRest ==
    \A t \in Tasks : (\E w \in Workers : Owner(w, t)) ~> (\A w \in Workers : ~Owner(w, t))

(* The manager implements TaskLifecycle: in particular a review is accepted only
   against a pause nobody used yet, and an end is never taken back. *)
Credit == [t \in Tasks |-> (pauses[t] + crashes) - accepted[t]]
Lifecycle == INSTANCE TaskLifecycle WITH status <- mem, credit <- Credit
ImplementsLifecycle == Lifecycle!Spec

-------------------------------------------------------------------------------
(* What a comment says and the code does not do. *)

(* "paused by an interrupt", "maybe interrupted again": a task whose graph waits at
   a review, with no coroutine left, is recorded as paused, so that it can be
   reviewed. *)
InterruptedIsPaused ==
    \A t \in Tasks :
        graph[t] = "interrupted" /\ mem[t] \notin {"absent", "failed"} /\ (\A w \in Workers : job[w].task # t)
            => mem[t] = "paused"
===============================================================================
