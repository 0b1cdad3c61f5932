-------------------------- MODULE TaskStreamsProofs ---------------------------
(***************************************************************************)
(* For every number of tasks, coroutines, clients and restarts and any     *)
(* size of the queues: the safety properties of TaskManager, that it       *)
(* implements TaskLifecycle, that its composition with the streams keeps   *)
(* all that, and that a subscriber with room in its queue is told the end  *)
(* of its task.                                                            *)
(***************************************************************************)
EXTENDS TaskStreams, SequenceTheorems, TLAPS

(* The task manager by itself. *)
\* A task nobody created has left no trace.
Fresh == \A t \in Tasks : graph[t] = "none" =>
            /\ mem[t] = "absent"
            /\ store[t] = "absent"
            /\ \A w \in Workers : job[w].task # t

\* Memory only loses a task in a restart.
Known == \A t \in Tasks : mem[t] = "absent" /\ crashes = 0 => graph[t] = "none"

\* What _update_result is about to record is a status.
ResultIsStatus == \A w \in Workers :
    job[w].step \in {"finish", "finish_store"} => job[w].out \in Finals \union {"running", "paused"}

\* A final status on its way to the table is what memory says already.
LateEndIsTrue == \A w \in Workers :
    /\ job[w].step = "fail_store" => mem[job[w].task] = "failed"
    /\ job[w].step = "finish_store" /\ job[w].out \in Finals => mem[job[w].task] = job[w].out

\* A pause that can still be resumed has not been paid for.
Budget == \A t \in Tasks :
    /\ accepted[t] <= pauses[t] + crashes
    /\ mem[t] = "paused" => accepted[t] < pauses[t] + crashes
    /\ mem[t] = "absent" /\ crashes > 0 => accepted[t] < pauses[t] + crashes

IInv == /\ TypeOK /\ Fresh /\ Known /\ ResultIsStatus
        /\ OneDriver /\ LateEndIsTrue /\ StoredEndIsReal /\ Budget

-------------------------------------------------------------------------------
LEMMA InitIInv == Init => IInv
  BY TaskAssumption
  DEF TaskAssumption, Init, IInv, TypeOK, Fresh, Known, ResultIsStatus, OneDriver, Owner,
      LateEndIsTrue, StoredEndIsReal, Budget, Jobs, Idle, Job, OwnerSteps, Terminal, Finals

(* A busy worker works on a task that exists. *)
LEMMA BusyWorker ==
    ASSUME IInv, NEW w \in Workers, job[w].step # "idle"
    PROVE  /\ job[w] \in [step : OwnerSteps \union TailSteps, task : Tasks, out : Out]
           /\ graph[job[w].task] # "none"
  BY DEF IInv, TypeOK, Fresh, Jobs, Idle, Job

(* A step of a coroutine that leaves memory alone: it may move on, return, and
   write a status to the table, a final one only if memory has it already. *)
LEMMA MemoryUntouched ==
    ASSUME IInv, NEW w \in Workers, NEW t \in Tasks, t = job[w].task,
           NEW j \in Jobs, job' = [job EXCEPT ![w] = j],
           j = Idle \/ j.task = t,
           j.step \in OwnerSteps => job[w].step \in OwnerSteps,
           j.step = "finish" => j.out \in Finals \union {"running", "paused"},
           j.step \notin {"finish_store", "fail_store"},
           NEW s \in Status, s \in Terminal => mem[t] = s,
           \/ store' = store
           \/ store' = [store EXCEPT ![t] = s],
           graph' \in [Tasks -> {"none", "running", "interrupted", "ended"}],
           \A u \in Tasks : graph'[u] = "none" <=> graph[u] = "none",
           UNCHANGED <<mem, orch, pauses, accepted, crashes>>
    PROVE  IInv'
<1> USE TaskAssumption DEF TaskAssumption
<1>1. \A v \in Workers : job'[v] = IF v = w THEN j ELSE job[v]
  BY DEF IInv, TypeOK
<1>2. graph[t] # "none"
  BY DEF IInv, Fresh
<1>3. \A u \in Tasks : store'[u] = store[u] \/ (u = t /\ store'[u] = s)
  BY DEF IInv, TypeOK
<1>4. TypeOK'
  BY DEF IInv, TypeOK
<1>5. Fresh'
  BY <1>1, <1>2, <1>3 DEF IInv, Fresh, Idle, Job
<1>6. Known'
  BY DEF IInv, Known
<1>7. ResultIsStatus'
  BY <1>1 DEF IInv, ResultIsStatus
<1>8. OneDriver'
  BY <1>1 DEF IInv, OneDriver, Owner, OwnerSteps, Idle, Job
<1>9. LateEndIsTrue'
  BY <1>1 DEF IInv, LateEndIsTrue
<1>10. StoredEndIsReal'
  BY <1>3 DEF IInv, StoredEndIsReal
<1>11. Budget'
  BY DEF IInv, Budget
<1> QED
  BY <1>4, <1>5, <1>6, <1>7, <1>8, <1>9, <1>10, <1>11 DEF IInv

(* The step that records how a run ended: memory changes under the lock. *)
LEMMA MemoryWritten ==
    ASSUME IInv, NEW w \in Workers, NEW t \in Tasks, t = job[w].task,
           job[w].step \in {"pause", "finish", "fail"},
           NEW s \in Status \ {"resuming"}, mem' = [mem EXCEPT ![t] = s],
           NEW step \in {"pause_store", "finish_store", "fail_store"}, NEW out \in Out,
           job' = [job EXCEPT ![w] = Job(step, t, out)],
           step = "fail_store" => s = "failed",
           step = "finish_store" => s = out /\ s \in Finals \union {"running", "paused"},
           pauses' = IF s = "paused" THEN [pauses EXCEPT ![t] = @ + 1] ELSE pauses,
           UNCHANGED <<orch, store, graph, accepted, crashes>>
    PROVE  IInv'
<1> USE TaskAssumption DEF TaskAssumption
<1>1. \A v \in Workers : job'[v] = IF v = w THEN Job(step, t, out) ELSE job[v]
  BY DEF IInv, TypeOK
<1>2. \A u \in Tasks : mem'[u] = IF u = t THEN s ELSE mem[u]
  BY DEF IInv, TypeOK
<1>3. mem[t] \in Open /\ \A v \in Workers : Owner(v, t) => v = w
  BY DEF IInv, OneDriver, Owner, OwnerSteps
<1>4. graph[t] # "none"
  BY DEF IInv, Fresh
<1>5. TypeOK'
  BY DEF IInv, TypeOK, Jobs, Job, TailSteps, Status
<1>6. Fresh'
  BY <1>1, <1>2, <1>4 DEF IInv, Fresh, Job
<1>7. Known'
  BY <1>2, <1>4 DEF IInv, Known, Status, Open, Terminal, Finals
<1>8. ResultIsStatus'
  BY <1>1 DEF IInv, ResultIsStatus, Job
<1>9. OneDriver'
  BY <1>1, <1>2, <1>3 DEF IInv, OneDriver, Owner, OwnerSteps, Job
<1>10. LateEndIsTrue'
  BY <1>1, <1>2, <1>3 DEF IInv, LateEndIsTrue, Open, Finals, Job
<1>11. StoredEndIsReal'
  BY <1>2, <1>3 DEF IInv, StoredEndIsReal, Open, Terminal, Finals
<1>12. Budget'
  <2>1. \A u \in Tasks : pauses'[u] = IF s = "paused" /\ u = t THEN pauses[u] + 1 ELSE pauses[u]
    BY DEF IInv, TypeOK
  <2>2. \A u \in Tasks : pauses[u] \in Nat /\ accepted[u] \in Nat /\ crashes \in Nat
    BY DEF IInv, TypeOK
  <2> QED
    BY <1>2, <2>1, <2>2 DEF IInv, Budget, Status, Open, Terminal, Finals
<1> QED
  BY <1>5, <1>6, <1>7, <1>8, <1>9, <1>10, <1>11, <1>12 DEF IInv

(* One step of a coroutine. *)
LEMMA StepIInv ==
    ASSUME IInv, NEW w \in Workers, Step(w)
    PROVE  IInv'
<1> DEFINE t == job[w].task
<1>1. job[w].step # "idle"
  BY DEF Step, StoreCreate, Begin, StreamRaises, StreamEnds, FirstInterrupt, NextInterrupt,
         NoChunk, MemPause, StorePause, EmitPause, MemFinish, StoreFinish, EmitFinish,
         MemFail, StoreFail, EmitFail, StoreResuming, Resume, Goto, Return
<1>2. t \in Tasks /\ job[w].out \in Out /\ graph[t] # "none"
  BY <1>1, BusyWorker
<1>3. /\ Idle \in Jobs
      /\ \A step \in OwnerSteps \union TailSteps, out \in Out : Job(step, t, out) \in Jobs
      /\ \A step, out : Job(step, t, out).step = step /\ Job(step, t, out).task = t
                        /\ Job(step, t, out).out = out
      /\ Idle.step = "idle"
  BY <1>2 DEF Jobs, Idle, Job
<1>4. graph \in [Tasks -> {"none", "running", "interrupted", "ended"}]
  BY DEF IInv, TypeOK
<1>5. "running" \in Status /\ "running" \notin Terminal
  BY DEF Status, Open, Terminal, Finals
<1> USE DEF Goto, Return, OwnerSteps, TailSteps, Out
<1>6. ASSUME NEW to \in OwnerSteps, NEW out \in Out,
             job[w].step \in OwnerSteps, job' = [job EXCEPT ![w] = Job(to, t, out)],
             to = "finish" => out \in Finals \union {"running", "paused"},
             store' = store \/ store' = [store EXCEPT ![t] = "running"],
             graph' = graph \/ \E g \in {"interrupted", "ended"} : graph' = [graph EXCEPT ![t] = g],
             UNCHANGED <<mem, orch, pauses, accepted, crashes>>
      PROVE  IInv'
  <2> DEFINE j == Job(to, t, out)
  <2>1. j \in Jobs /\ j.task = t /\ j.step = to /\ j.out = out
    BY <1>3
  <2>2. j.step \notin {"finish_store", "fail_store"}
    BY <2>1
  <2>3. graph' \in [Tasks -> {"none", "running", "interrupted", "ended"}]
    BY <1>6, <1>4, <1>2
  <2>4. \A u \in Tasks : graph'[u] = "none" <=> graph[u] = "none"
    BY <1>6, <1>4, <1>2
  <2>5. job' = [job EXCEPT ![w] = j]
    BY <1>6
  <2>6. j.step = "finish" => j.out \in Finals \union {"running", "paused"}
    BY <1>6, <2>1
  <2>7. store' = store \/ store' = [store EXCEPT ![t] = "running"]
    BY <1>6
  <2>8. UNCHANGED <<mem, orch, pauses, accepted, crashes>> /\ job[w].step \in OwnerSteps
    BY <1>6
  <2> HIDE DEF j, t
  <2> QED
    BY <1>2, <1>5, <2>1, <2>2, <2>3, <2>4, <2>5, <2>6, <2>7, <2>8, MemoryUntouched DEF t
<1>7. ASSUME NEW j \in Jobs, j.step \notin OwnerSteps \union {"finish_store", "fail_store"},
             j = Idle \/ j.task = t, job' = [job EXCEPT ![w] = j],
             NEW s \in Status, s \in Terminal => mem[t] = s,
             store' = store \/ store' = [store EXCEPT ![t] = s],
             UNCHANGED <<mem, orch, graph, pauses, accepted, crashes>>
      PROVE  IInv'
  <2>1. j.step # "finish"
    BY <1>7
  <2> HIDE DEF t
  <2> QED
    BY <1>7, <1>2, <1>4, <2>1, MemoryUntouched DEF t
<1>8. ASSUME NEW to \in {"pause_emit", "finish_emit", "fail_emit"},
             job' = [job EXCEPT ![w] = Job(to, t, "none")],
             NEW s \in Status, s \in Terminal => mem[t] = s,
             store' = store \/ store' = [store EXCEPT ![t] = s],
             UNCHANGED <<mem, orch, graph, pauses, accepted, crashes>>
      PROVE  IInv'
  <2> DEFINE j == Job(to, t, "none")
  <2>1. j \in Jobs /\ j.task = t /\ j.step \notin OwnerSteps \union {"finish_store", "fail_store"}
    BY <1>3
  <2>2. job' = [job EXCEPT ![w] = j]
    BY <1>8
  <2> HIDE DEF j, t
  <2> QED
    BY <1>7, <1>8, <2>1, <2>2
<1>10. CASE StoreCreate(w)
  BY <1>10, <1>6 DEF StoreCreate
<1>11. CASE Begin(w)
  BY <1>11, <1>6 DEF Begin
<1>12. CASE StreamRaises(w)
  BY <1>12, <1>6 DEF StreamRaises
<1>13. CASE StreamEnds(w)
  <2>1. \E out \in Finals : job' = [job EXCEPT ![w] = Job("finish", t, out)]
    BY <1>13 DEF StreamEnds, Recorded, Finals
  <2>2. PICK out \in Finals : job' = [job EXCEPT ![w] = Job("finish", t, out)]
    BY <2>1
  <2> QED
    BY <1>13, <1>6, <2>2 DEF StreamEnds
<1>14. CASE FirstInterrupt(w)
  BY <1>14, <1>6 DEF FirstInterrupt, Recorded, Finals
<1>15. CASE NextInterrupt(w)
  <2>1. \E out \in Finals \union {"running", "paused"} : job' = [job EXCEPT ![w] = Job("finish", t, out)]
    BY <1>15 DEF NextInterrupt, Recorded, ReviewedStatus, Finals
  <2>2. PICK out \in Finals \union {"running", "paused"} : job' = [job EXCEPT ![w] = Job("finish", t, out)]
    BY <2>1
  <2> QED
    BY <1>15, <1>6, <2>2 DEF NextInterrupt
<1>16. CASE NoChunk(w)
  BY <1>16, <1>6 DEF NoChunk
<1>17. CASE Resume(w)
  BY <1>17, <1>6, <1>2 DEF Resume
<1>18. CASE EmitPause(w) \/ EmitFinish(w) \/ EmitFail(w)
  BY <1>18, <1>3, <1>5, <1>7 DEF EmitPause, EmitFinish, EmitFail
<1>20. ASSUME NEW s, StoreUpdate(t, s)
       PROVE  store' = store \/ store' = [store EXCEPT ![t] = s]
  <2>1. CASE store[t] = "absent" /\ store' = [store EXCEPT ![t] = "absent"]
    BY <1>2, <2>1 DEF IInv, TypeOK
  <2> QED
    BY <1>20, <2>1 DEF StoreUpdate
<1>21. CASE StorePause(w)
  <2>1. "paused" \in Status /\ "paused" \notin Terminal
    BY DEF Status, Terminal, Finals
  <2>2. store' = store \/ store' = [store EXCEPT ![t] = "paused"]
    BY <1>20, <1>21 DEF StorePause
  <2> QED
    BY <1>21, <1>8, <2>1, <2>2 DEF StorePause
<1>22. CASE StoreFinish(w)
  <2> DEFINE s == job[w].out
  <2>1. s \in Status
    BY <1>22 DEF StoreFinish, IInv, ResultIsStatus, Status, Open, Terminal, Finals
  <2>2. s \in Terminal => mem[t] = s
    BY <1>22 DEF StoreFinish, IInv, ResultIsStatus, LateEndIsTrue, Terminal, Finals
  <2>3. store' = store \/ store' = [store EXCEPT ![t] = s]
    BY <1>20, <1>22 DEF StoreFinish
  <2> QED
    BY <1>22, <1>8, <2>1, <2>2, <2>3 DEF StoreFinish
<1>23. CASE StoreFail(w)
  <2>1. "failed" \in Status /\ mem[t] = "failed"
    BY <1>23 DEF StoreFail, IInv, LateEndIsTrue, Status, Terminal, Finals
  <2>2. store' = store \/ store' = [store EXCEPT ![t] = "failed"]
    BY <1>20, <1>23 DEF StoreFail
  <2> QED
    BY <1>23, <1>8, <2>1, <2>2 DEF StoreFail
<1>24. CASE StoreResuming(w)
  <2>1. "resuming" \in Status /\ "resuming" \notin Terminal
    BY DEF Status, Open, Terminal, Finals
  <2>2. store' = store \/ store' = [store EXCEPT ![t] = "resuming"]
    BY <1>20, <1>24 DEF StoreResuming
  <2>3. CASE t \in orch
    <3> DEFINE j == Job("resume", t, job[w].out)
    <3>1. j \in Jobs /\ j.task = t /\ j.step = "resume"
      BY <1>2, <1>3
    <3>2. job' = [job EXCEPT ![w] = j] /\ job[w].step = "claimed"
      BY <1>24, <2>3 DEF StoreResuming
    <3>3. UNCHANGED <<mem, orch, graph, pauses, accepted, crashes>>
      BY <1>24 DEF StoreResuming
    <3> HIDE DEF j, t
    <3> QED
      BY <1>2, <1>4, <2>1, <2>2, <3>1, <3>2, <3>3, MemoryUntouched DEF t
  <2>4. CASE t \notin orch
    BY <1>24, <1>3, <1>7, <2>1, <2>2, <2>4 DEF StoreResuming
  <2> QED
    BY <2>3, <2>4
<1>31. CASE MemPause(w)
  BY <1>31, <1>2, MemoryWritten DEF MemPause, Status
<1>32. CASE MemFinish(w)
  <2>1. job[w].out \in Finals \union {"running", "paused"}
    BY <1>32 DEF MemFinish, IInv, ResultIsStatus
  <2> QED
    BY <1>32, <1>2, <2>1, MemoryWritten DEF MemFinish, Status, Open, Terminal, Finals
<1>33. CASE MemFail(w)
  BY <1>33, <1>2, MemoryWritten DEF MemFail, Status, Terminal, Finals
<1> QED
  BY <1>10, <1>11, <1>12, <1>13, <1>14, <1>15, <1>16, <1>17, <1>18, <1>21, <1>22, <1>23,
     <1>24, <1>31, <1>32, <1>33 DEF Step

(* A new task finds no coroutine, no record and no row of its own. *)
LEMMA CreateIInv ==
    ASSUME IInv, NEW w \in Workers, NEW t \in Tasks, NEW o \in BOOLEAN, Create(w, t, o)
    PROVE  IInv'
<1> USE TaskAssumption DEF TaskAssumption
<1>1. /\ \A v \in Workers : job'[v] = IF v = w THEN Job("insert", t, "none") ELSE job[v]
      /\ \A u \in Tasks : mem'[u] = IF u = t THEN "running" ELSE mem[u]
      /\ \A u \in Tasks : graph'[u] = IF u = t THEN "running" ELSE graph[u]
  BY DEF Create, IInv, TypeOK
<1>2. \A v \in Workers : job[v].task # t
  BY DEF Create, IInv, Fresh
<1>3. mem[t] = "absent" /\ store[t] = "absent"
  BY DEF Create, IInv, Fresh
<1>4. TypeOK'
  BY DEF Create, IInv, TypeOK, Jobs, Job, OwnerSteps, Out, Status, Open
<1>5. Fresh' /\ Known' /\ ResultIsStatus'
  BY <1>1 DEF Create, IInv, Fresh, Known, ResultIsStatus, Job
<1>6. OneDriver'
  BY <1>1, <1>2 DEF Create, IInv, OneDriver, Owner, OwnerSteps, Open, Job
<1>7. LateEndIsTrue' /\ StoredEndIsReal'
  BY <1>1, <1>2, <1>3 DEF Create, IInv, TypeOK, LateEndIsTrue, StoredEndIsReal, Terminal, Finals, Job
<1>8. Budget'
  BY <1>1 DEF Create, IInv, Budget
<1> QED
  BY <1>4, <1>5, <1>6, <1>7, <1>8 DEF IInv

(* Nobody drives a task that can be reviewed, so the resume takes over alone. *)
LEMMA ResolveIInv ==
    ASSUME IInv, NEW w \in Workers, NEW t \in Tasks, NEW d \in Decisions,
           Resolve(w, t, d)
    PROVE  IInv'
<1> USE TaskAssumption DEF TaskAssumption
<1>1. /\ \A v \in Workers : job'[v] = IF v = w THEN Job("claimed", t, d) ELSE job[v]
      /\ \A u \in Tasks : mem'[u] = IF u = t THEN "resuming" ELSE mem[u]
      /\ \A u \in Tasks : accepted'[u] = IF u = t THEN accepted[u] + 1 ELSE accepted[u]
  BY DEF Resolve, Claim, IInv, TypeOK
<1>2. mem[t] = "paused" \/ (mem[t] = "absent" /\ store[t] = "paused")
  BY DEF Resolve, Loadable
<1>3. graph[t] # "none"
  BY <1>2 DEF IInv, Fresh
<1>4. mem[t] \notin Open \union Terminal
  BY <1>2 DEF Open, Terminal, Finals
<1>5. \A v \in Workers : ~Owner(v, t)
  BY <1>4 DEF IInv, OneDriver
<1>6. TypeOK'
  BY DEF Resolve, Claim, IInv, TypeOK, Jobs, Job, OwnerSteps, Out, Status, Open
<1>7. Fresh' /\ Known' /\ ResultIsStatus'
  BY <1>1, <1>3 DEF Resolve, IInv, Fresh, Known, ResultIsStatus, Job
<1>8. OneDriver'
  BY <1>1, <1>5 DEF Resolve, IInv, OneDriver, Owner, OwnerSteps, Open, Job
<1>9. LateEndIsTrue'
  <2>1. \A v \in Workers : job[v].step # "idle" => job[v].task \in Tasks
    BY BusyWorker
  <2> QED
    BY <1>1, <1>4, <2>1 DEF IInv, LateEndIsTrue, Terminal, Finals, Job
<1>10. StoredEndIsReal'
  BY <1>1, <1>2 DEF Resolve, IInv, StoredEndIsReal, Terminal, Finals
<1>11. Budget'
  <2>1. accepted[t] < pauses[t] + crashes
    <3>1. CASE mem[t] = "paused"
      BY <3>1 DEF IInv, Budget
    <3>2. CASE mem[t] = "absent"
      BY <1>3, <3>2 DEF IInv, TypeOK, Known, Budget
    <3> QED
      BY <1>2, <3>1, <3>2
  <2>2. \A u \in Tasks : pauses[u] \in Nat /\ accepted[u] \in Nat /\ crashes \in Nat
    BY DEF IInv, TypeOK
  <2> QED
    BY <1>1, <2>1, <2>2 DEF Resolve, IInv, Budget
<1> QED
  BY <1>6, <1>7, <1>8, <1>9, <1>10, <1>11 DEF IInv

LEMMA ResolveRefusedIInv ==
    ASSUME IInv, NEW t \in Tasks, ResolveRefused(t)
    PROVE  IInv'
<1>1. \A u \in Tasks : mem'[u] = IF u = t THEN store[t] ELSE mem[u]
  BY DEF ResolveRefused, IInv, TypeOK
<1>2. /\ mem[t] = "absent" /\ store[t] \in Status \ {"paused"}
      /\ graph[t] # "none"
  BY DEF ResolveRefused, IInv, TypeOK, Fresh
<1>3. \A v \in Workers : ~Owner(v, t)
  BY <1>2 DEF IInv, OneDriver, Open
<1>4. TypeOK'
  BY DEF ResolveRefused, IInv, TypeOK
<1>5. Fresh' /\ Known' /\ ResultIsStatus'
  BY <1>1, <1>2 DEF ResolveRefused, IInv, Fresh, Known, ResultIsStatus, Status, Open, Terminal, Finals
<1>6. OneDriver'
  BY <1>1, <1>3 DEF ResolveRefused, IInv, OneDriver, Owner
<1>7. LateEndIsTrue'
  BY <1>1, <1>2 DEF ResolveRefused, IInv, LateEndIsTrue, Finals
<1>8. StoredEndIsReal'
  BY <1>1 DEF ResolveRefused, IInv, StoredEndIsReal
<1>9. Budget'
  BY <1>1, <1>2 DEF ResolveRefused, IInv, Budget, Status, Open, Terminal, Finals
<1> QED
  BY <1>4, <1>5, <1>6, <1>7, <1>8, <1>9 DEF IInv

LEMMA CrashIInv == IInv /\ Crash => IInv'
<1> SUFFICES ASSUME IInv, Crash PROVE IInv'
  OBVIOUS
<1> USE TaskAssumption DEF TaskAssumption
<1>1. /\ \A w \in Workers : job'[w] = Idle
      /\ \A t \in Tasks : mem'[t] = "absent"
      /\ crashes' = crashes + 1 /\ crashes \in Nat
      /\ \A t \in Tasks : graph'[t] = "none" => graph[t] = "none"
  BY DEF Crash, IInv, TypeOK
<1>2. TypeOK'
  BY DEF Crash, IInv, TypeOK, Jobs, Idle
<1>3. Fresh' /\ Known' /\ ResultIsStatus'
  BY <1>1 DEF Crash, IInv, Fresh, Known, ResultIsStatus, Idle, Job
<1>4. OneDriver' /\ LateEndIsTrue' /\ StoredEndIsReal'
  BY <1>1 DEF Crash, OneDriver, Owner, OwnerSteps, LateEndIsTrue, StoredEndIsReal, Idle, Job
<1>5. Budget'
  <2>1. \A t \in Tasks : pauses[t] \in Nat /\ accepted[t] \in Nat
    BY DEF IInv, TypeOK
  <2> QED
    BY <1>1, <2>1 DEF Crash, IInv, Budget
<1> QED
  BY <1>2, <1>3, <1>4, <1>5 DEF IInv

LEMMA NextIInv == IInv /\ [Next]_vars => IInv'
<1> SUFFICES ASSUME IInv, [Next]_vars PROVE IInv'
  OBVIOUS
<1>1. CASE Request
  BY <1>1, CreateIInv, ResolveIInv, ResolveRefusedIInv DEF Request
<1>2. ASSUME NEW w \in Workers, Step(w) PROVE IInv'
  BY <1>2, StepIInv
<1>3. CASE Crash
  BY <1>3, CrashIInv
<1>4. CASE UNCHANGED vars
  BY <1>4 DEF vars, IInv, TypeOK, Fresh, Known, ResultIsStatus, OneDriver, Owner,
              LateEndIsTrue, StoredEndIsReal, Budget
<1> QED
  BY <1>1, <1>2, <1>3, <1>4 DEF Next

LEMMA Invariance == Spec => []IInv
<1>1. Init => IInv
  BY InitIInv
<1>2. IInv /\ [Next]_vars => IInv'
  BY NextIInv
<1> QED
  BY <1>1, <1>2, PTL DEF Spec

-------------------------------------------------------------------------------
(* Every reachable record, row and coroutine is well formed. *)
THEOREM TypeCorrect == Spec => []TypeOK
<1>1. IInv => TypeOK
  BY DEF IInv
<1> QED
  BY <1>1, Invariance, PTL

(* However many reviewers and runs race, a task has one driver at a time. *)
THEOREM SingleDriver == Spec => []OneDriver
<1>1. IInv => OneDriver
  BY DEF IInv
<1> QED
  BY <1>1, Invariance, PTL

(* A pause is resumed once; only a restart can bring an old one back. *)
THEOREM PausesPayForReviews == Spec => []ReviewsConsumePauses
<1>1. IInv => ReviewsConsumePauses
  BY DEF IInv, Budget, ReviewsConsumePauses
<1> QED
  BY <1>1, Invariance, PTL

(* A final row in the table is never contradicted by memory. *)
THEOREM FinalRowsAreTrue == Spec => []StoredEndIsReal
<1>1. IInv => StoredEndIsReal
  BY DEF IInv
<1> QED
  BY <1>1, Invariance, PTL

-------------------------------------------------------------------------------
(* The coroutines that change a record drive its task, so the record is open. *)
LEMMA DriverSeesOpen ==
    ASSUME IInv, NEW w \in Workers, job[w].step \in {"pause", "finish", "fail"}
    PROVE  job[w].task \in Tasks /\ mem[job[w].task] \in Open
  BY BusyWorker DEF IInv, OneDriver, Owner, OwnerSteps

(* What a step of the manager does to the two things a client can see. *)
LEMMA StepOnStatus ==
    ASSUME IInv, NEW w \in Workers, Step(w)
    PROVE  \/ UNCHANGED <<mem, pauses, accepted, crashes>>
           \/ \E t \in Tasks, s \in Terminal \union {"running", "paused"} :
                 /\ mem[t] \in Open
                 /\ mem' = [mem EXCEPT ![t] = s]
                 /\ pauses' = IF s = "paused" THEN [pauses EXCEPT ![t] = @ + 1] ELSE pauses
                 /\ UNCHANGED <<accepted, crashes>>
<1>1. CASE MemPause(w)
  BY <1>1, DriverSeesOpen DEF MemPause, Goto
<1>2. CASE MemFinish(w)
  BY <1>2, DriverSeesOpen DEF MemFinish, Goto, IInv, ResultIsStatus, Terminal
<1>3. CASE MemFail(w)
  BY <1>3, DriverSeesOpen DEF MemFail, Goto, Terminal
<1>4. CASE ~MemPause(w) /\ ~MemFinish(w) /\ ~MemFail(w)
  BY <1>4 DEF Step, StoreCreate, Begin, StreamRaises, StreamEnds, FirstInterrupt, NextInterrupt,
              NoChunk, StorePause, EmitPause, StoreFinish, EmitFinish, StoreFail, EmitFail,
              StoreResuming, Resume
<1> QED
  BY <1>1, <1>2, <1>3, <1>4

(* complete and failed are final within a process lifetime. *)
THEOREM EndsAreFinal == Spec => TerminalStays
<1> DEFINE Stays == \A t \in Tasks : mem[t] \in Terminal => mem'[t] \in {mem[t], "absent"}
<1>1. IInv /\ [Next]_vars => [Stays]_vars
  <2> SUFFICES ASSUME IInv, Next PROVE Stays
    OBVIOUS
  <2>1. mem \in [Tasks -> Status \union {"absent"}]
    BY DEF IInv, TypeOK
  <2>2. ASSUME NEW w \in Workers, Step(w) PROVE Stays
    BY <2>1, <2>2, StepOnStatus DEF Open, Terminal, Finals
  <2>3. CASE Request
    <3>1. ASSUME NEW w \in Workers, NEW t \in Tasks, NEW o \in BOOLEAN, Create(w, t, o) PROVE Stays
      BY <2>1, <3>1 DEF Create, IInv, Fresh, Terminal, Finals
    <3>2. ASSUME NEW w \in Workers, NEW t \in Tasks, NEW d \in Decisions,
                 Resolve(w, t, d)
          PROVE  Stays
      BY <2>1, <3>2 DEF Resolve, Claim, Terminal, Finals
    <3>3. ASSUME NEW t \in Tasks, ResolveRefused(t) PROVE Stays
      BY <2>1, <3>3 DEF ResolveRefused, Terminal, Finals
    <3> QED
      BY <2>3, <3>1, <3>2, <3>3 DEF Request
  <2>4. CASE Crash
    BY <2>4 DEF Crash
  <2> QED
    BY <2>2, <2>3, <2>4 DEF Next
<1> QED
  BY <1>1, Invariance, PTL DEF Spec, TerminalStays

-------------------------------------------------------------------------------
(* The refinement: status is the in-memory status, credit what is left of the
   pauses and restarts after the accepted reviews. *)

LEMMA InitRefines == Init => Lifecycle!Init
  BY DEF Init, Lifecycle!Init, Credit

LEMMA StepRefines == IInv /\ [Next]_vars => [Lifecycle!Next]_<<mem, Credit>>
<1> SUFFICES ASSUME IInv, Next
             PROVE  Lifecycle!Next \/ UNCHANGED <<mem, Credit>>
  BY DEF vars, Credit
<1>1. /\ mem \in [Tasks -> Status \union {"absent"}]
      /\ pauses \in [Tasks -> Nat] /\ accepted \in [Tasks -> Nat] /\ crashes \in Nat
  BY DEF IInv, TypeOK
<1>2. Credit \in [Tasks -> Int] /\ \A t \in Tasks : Credit[t] = (pauses[t] + crashes) - accepted[t]
  BY <1>1 DEF Credit
<1>3. ASSUME UNCHANGED <<pauses, accepted, crashes>> PROVE UNCHANGED Credit
  BY <1>3 DEF Credit
<1>4. ASSUME NEW w \in Workers, Step(w)
      PROVE  Lifecycle!Next \/ UNCHANGED <<mem, Credit>>
  <2>1. CASE UNCHANGED <<mem, pauses, accepted, crashes>>
    BY <2>1, <1>3
  <2>2. ASSUME NEW t \in Tasks, NEW s \in Terminal \union {"running", "paused"},
               mem[t] \in Open, mem' = [mem EXCEPT ![t] = s],
               pauses' = IF s = "paused" THEN [pauses EXCEPT ![t] = @ + 1] ELSE pauses,
               UNCHANGED <<accepted, crashes>>
        PROVE  Lifecycle!Next
    <3>1. CASE s = "paused"
      <4>1. Credit' = [Credit EXCEPT ![t] = @ + 1]
        <5>1. \A u \in Tasks : pauses'[u] = IF u = t THEN pauses[u] + 1 ELSE pauses[u]
          BY <1>1, <2>2, <3>1
        <5>2. \A u \in Tasks : (pauses'[u] + crashes') - accepted'[u]
                                = IF u = t THEN Credit[u] + 1 ELSE Credit[u]
          BY <1>1, <1>2, <2>2, <5>1
        <5> QED
          BY <1>2, <5>2 DEF Credit
      <4>2. Lifecycle!Pause(t)
        BY <2>2, <3>1, <4>1 DEF Lifecycle!Pause, Lifecycle!Become, Lifecycle!Working, Open
      <4> QED
        BY <4>2 DEF Lifecycle!Next
    <3>2. CASE s = "running"
      BY <1>3, <2>2, <3>2
      DEF Lifecycle!Next, Lifecycle!GoesOn, Lifecycle!Become, Lifecycle!Working, Open
    <3>3. CASE s \in Terminal
      <4>1. s \in Lifecycle!Ends /\ s # "paused"
        BY <3>3 DEF Terminal, Finals, Lifecycle!Ends
      <4> QED
        BY <1>3, <2>2, <4>1
        DEF Lifecycle!Next, Lifecycle!End, Lifecycle!Become, Lifecycle!Working, Open
    <3> QED
      BY <3>1, <3>2, <3>3
  <2> QED
    BY <1>4, <2>1, <2>2, StepOnStatus
<1>5. ASSUME NEW w \in Workers, NEW t \in Tasks, NEW o \in BOOLEAN, Create(w, t, o)
      PROVE  Lifecycle!Next
  <2>1. mem[t] = "absent" /\ UNCHANGED Credit
    BY <1>3, <1>5 DEF Create, IInv, Fresh
  <2> QED
    BY <1>5, <2>1 DEF Create, Lifecycle!Next, Lifecycle!Start, Lifecycle!Become
<1>6. ASSUME NEW w \in Workers, NEW t \in Tasks, NEW d \in Decisions,
             Resolve(w, t, d)
      PROVE  Lifecycle!Next
  <2>1. mem[t] = "paused" \/ (mem[t] = "absent" /\ store[t] = "paused")
    BY <1>6 DEF Resolve, Loadable
  <2>2. accepted[t] < pauses[t] + crashes
    BY <1>1, <2>1 DEF IInv, Fresh, Known, Budget
  <2>3. Credit[t] > 0
    BY <1>1, <1>2, <2>2
  <2>4. Credit' = [Credit EXCEPT ![t] = @ - 1]
    <3>1. UNCHANGED <<pauses, crashes>> /\ accepted' = [accepted EXCEPT ![t] = @ + 1]
      BY <1>6 DEF Resolve
    <3>2. \A u \in Tasks : accepted'[u] = IF u = t THEN accepted[u] + 1 ELSE accepted[u]
      BY <1>1, <3>1
    <3>3. \A u \in Tasks : (pauses'[u] + crashes') - accepted'[u]
                            = IF u = t THEN Credit[u] - 1 ELSE Credit[u]
      BY <1>1, <1>2, <3>1, <3>2
    <3> QED
      BY <1>2, <3>3 DEF Credit
  <2>5. Lifecycle!Review(t)
    BY <1>6, <2>1, <2>3, <2>4 DEF Resolve, Claim, Lifecycle!Review, Lifecycle!Become
  <2> QED
    BY <2>5 DEF Lifecycle!Next
<1>7. ASSUME NEW t \in Tasks, ResolveRefused(t) PROVE Lifecycle!Next
  <2>1. store[t] \in Open \union Terminal
    BY <1>7 DEF ResolveRefused, IInv, TypeOK, Status
  <2> QED
    BY <1>3, <1>7, <2>1
    DEF ResolveRefused, Lifecycle!Next, Lifecycle!Mount, Lifecycle!Become, Lifecycle!Ends,
        Lifecycle!Working, Open, Terminal, Finals
<1>8. CASE Crash
  <2>1. Credit' = [t \in Tasks |-> Credit[t] + 1]
    BY <1>1, <1>2, <1>8 DEF Crash, Credit
  <2> QED
    BY <1>8, <2>1 DEF Crash, Lifecycle!Next, Lifecycle!Restart
<1> QED
  BY <1>4, <1>5, <1>6, <1>7, <1>8 DEF Next, Request

(* The task manager keeps the promises of TaskLifecycle. *)
THEOREM Refinement == Spec => ImplementsLifecycle
<1>1. Init => Lifecycle!Init
  BY InitRefines
<1>2. IInv /\ [Next]_vars => [Lifecycle!Next]_<<mem, Credit>>
  BY StepRefines
<1> QED
  BY <1>1, <1>2, Invariance, PTL DEF Spec, Lifecycle!Spec, ImplementsLifecycle

-------------------------------------------------------------------------------
(* With the streams. *)
\* Who is still reading the first events when the end is published misses it.
EndBeforeSubscribing ==
    \A c \in Clients : sub[c].at = "snapshot" /\ sub[c].task \in ended => c \in missed

SInv == IInv /\ StreamTypeOK /\ EndNotLost /\ EndBeforeSubscribing

-------------------------------------------------------------------------------
(* Queues. *)
LEMMA BoundedSeqFacts ==
    ASSUME NEW q
    PROVE  q \in BoundedSeq(Events, QueueSize) <=> q \in Seq(Events) /\ Len(q) <= QueueSize
<1>1. ASSUME q \in BoundedSeq(Events, QueueSize)
      PROVE  q \in Seq(Events) /\ Len(q) <= QueueSize
  <2>1. PICK m \in 0 .. QueueSize : q \in [1 .. m -> Events]
    BY <1>1 DEF BoundedSeq, SeqOf
  <2>2. m \in Nat /\ m <= QueueSize
    BY StreamAssumption DEF StreamAssumption
  <2>3. q \in Seq(Events) /\ Len(q) = m
    BY <2>1, <2>2
  <2> QED
    BY <2>2, <2>3
<1>2. ASSUME q \in Seq(Events), Len(q) <= QueueSize
      PROVE  q \in BoundedSeq(Events, QueueSize)
  <2>1. Len(q) \in 0 .. QueueSize /\ q \in [1 .. Len(q) -> Events]
    BY <1>2, StreamAssumption DEF StreamAssumption
  <2> QED
    BY <2>1 DEF BoundedSeq, SeqOf
<1> QED
  BY <1>1, <1>2

(* put_nowait keeps the queue within its size, loses nothing that was in it, and
   takes the events when there is room for all of them. *)
LEMMA PutFacts ==
    ASSUME NEW q \in Seq(Events), Len(q) <= QueueSize, NEW events \in Seq(Events)
    PROVE  /\ Put(q, events) \in Seq(Events) /\ Len(Put(q, events)) <= QueueSize
           /\ Contains(q, "end") => Contains(Put(q, events), "end")
           /\ Len(q \o events) <= QueueSize /\ Contains(events, "end")
                => Contains(Put(q, events), "end")
<1> DEFINE all == q \o events
           n == IF Len(all) < QueueSize THEN Len(all) ELSE QueueSize
<1>1. /\ all \in Seq(Events) /\ Len(all) = Len(q) + Len(events)
      /\ \A i \in 1 .. Len(q) + Len(events) :
            all[i] = IF i <= Len(q) THEN q[i] ELSE events[i - Len(q)]
  BY ConcatProperties
<1>2. Len(q) \in Nat /\ Len(events) \in Nat /\ QueueSize \in Nat
  BY StreamAssumption DEF StreamAssumption
<1>3. /\ n \in Nat /\ Len(q) <= n /\ n <= Len(all) /\ n <= QueueSize
      /\ Len(all) <= QueueSize => n = Len(all)
  BY <1>1, <1>2
<1>4. \A i \in 1 .. n : all[i] \in Events
  BY <1>1, <1>3
<1>5. Put(q, events) = SubSeq(all, 1, n)
  BY DEF Put
<1> HIDE DEF n, all
<1>6. /\ SubSeq(all, 1, n) \in Seq(Events)
      /\ Len(SubSeq(all, 1, n)) = IF 1 <= n THEN n - 1 + 1 ELSE 0
      /\ \A i \in 1 .. n - 1 + 1 : SubSeq(all, 1, n)[i] = all[1 + i - 1]
  BY <1>3, <1>4, SubSeqProperties
<1>7. /\ Put(q, events) \in Seq(Events) /\ Len(Put(q, events)) = n
      /\ \A i \in 1 .. n : Put(q, events)[i] = all[i]
  BY <1>3, <1>5, <1>6
<1>8. ASSUME Contains(q, "end") PROVE Contains(Put(q, events), "end")
  <2>1. PICK i \in 1 .. Len(q) : q[i] = "end"
    BY <1>8 DEF Contains
  <2>2. i \in 1 .. n /\ all[i] = "end"
    BY <1>1, <1>2, <1>3, <2>1
  <2> QED
    BY <1>7, <2>2 DEF Contains
<1>9. ASSUME Len(all) <= QueueSize, Contains(events, "end") PROVE Contains(Put(q, events), "end")
  <2>1. PICK i \in 1 .. Len(events) : events[i] = "end"
    BY <1>9 DEF Contains
  <2>2. n = Len(all)
    BY <1>3, <1>9
  <2>3. Len(q) + i \in 1 .. n /\ ~ (Len(q) + i <= Len(q)) /\ (Len(q) + i) - Len(q) = i
    BY <1>1, <1>2, <2>2
  <2>4. all[Len(q) + i] = "end"
    BY <1>1, <2>1, <2>2, <2>3
  <2> QED
    BY <1>7, <2>3, <2>4 DEF Contains
<1> QED
  BY <1>3, <1>7, <1>8, <1>9 DEF all

LEMMA EmittedFacts ==
    ASSUME NEW w \in Workers
    PROVE  Emitted(w) \in Seq(Events)
<1>1. <<"info">> \in Seq(Events) /\ <<"info", "end">> \in Seq(Events) /\ <<>> \in Seq(Events)
  BY DEF Events
<1> QED
  BY <1>1 DEF Emitted

-------------------------------------------------------------------------------
LEMMA InitSInv == StreamInit => SInv
<1> SUFFICES ASSUME StreamInit PROVE SInv
  OBVIOUS
<1>1. IInv
  BY InitIInv DEF StreamInit
<1>2. \A c \in Clients : sub[c] = Away /\ sub[c].at = "away"
  BY DEF StreamInit, Away, Stream
<1>3. StreamTypeOK
  <2>1. <<>> \in BoundedSeq(Events, QueueSize)
    <3>1. <<>> \in Seq(Events) /\ Len(<<>>) <= QueueSize
      BY StreamAssumption DEF StreamAssumption
    <3> QED
      BY <3>1, BoundedSeqFacts
  <2> QED
    BY <2>1 DEF StreamInit, StreamTypeOK, Away, Stream
<1> QED
  BY <1>1, <1>2, <1>3 DEF SInv, EndNotLost, EndBeforeSubscribing

(* A step of the manager in the composition is a step of the manager. *)
LEMMA ManagerStep == [StreamNext]_allvars => [Next]_vars
  BY DEF StreamNext, allvars, RequestServed, StepAndPublish, PublishChunk, CrashAll,
         Connect, Subscribe, Deliver, Leave, Next

LEMMA ManagerIInv == SInv /\ [StreamNext]_allvars => IInv'
  BY ManagerStep, NextIInv DEF SInv

\* What the queue of a stream is.
LEMMA QueueFacts ==
    ASSUME StreamTypeOK, NEW c \in Clients
    PROVE  /\ sub[c].queue \in Seq(Events) /\ Len(sub[c].queue) <= QueueSize
           /\ sub[c].at \in {"away", "snapshot", "live", "closed"}
           /\ sub[c].task \in Tasks \union {NoTask}
  BY BoundedSeqFacts DEF StreamTypeOK

\* Streams that can be.
LEMMA StreamTypes ==
    ASSUME NEW at \in {"away", "snapshot", "live", "closed"}, NEW t \in Tasks \union {NoTask},
           NEW q \in Seq(Events), Len(q) <= QueueSize
    PROVE  Stream(at, t, q) \in [at : {"away", "snapshot", "live", "closed"},
                                 task : Tasks \union {NoTask},
                                 queue : BoundedSeq(Events, QueueSize)]
  BY BoundedSeqFacts DEF Stream

LEMMA ClosedTypes ==
    /\ Closed \in [at : {"away", "snapshot", "live", "closed"},
                   task : Tasks \union {NoTask}, queue : BoundedSeq(Events, QueueSize)]
    /\ Closed.at = "closed"
<1>1. <<>> \in Seq(Events) /\ Len(<<>>) <= QueueSize
  BY StreamAssumption DEF StreamAssumption
<1> QED
  BY <1>1, BoundedSeqFacts DEF Closed, Stream

(* What a publish makes of one stream. *)
LEMMA PublishFacts ==
    ASSUME StreamTypeOK, NEW t \in Tasks, NEW events \in Seq(Events), Publish(t, events)
    PROVE  /\ sub' \in [Clients -> [at : {"away", "snapshot", "live", "closed"},
                                    task : Tasks \union {NoTask},
                                    queue : BoundedSeq(Events, QueueSize)]]
           /\ \A c \in Clients :
                /\ sub'[c].at = sub[c].at /\ sub'[c].task = sub[c].task
                /\ sub'[c].queue = IF Listens(c, t) THEN Put(sub[c].queue, events)
                                                     ELSE sub[c].queue
<1>1. ASSUME NEW c \in Clients, Listens(c, t)
      PROVE  Stream("live", t, Put(sub[c].queue, events))
                \in [at : {"away", "snapshot", "live", "closed"},
                     task : Tasks \union {NoTask}, queue : BoundedSeq(Events, QueueSize)]
  <2>1. Put(sub[c].queue, events) \in Seq(Events) /\ Len(Put(sub[c].queue, events)) <= QueueSize
    BY QueueFacts, PutFacts
  <2> QED
    BY <2>1, StreamTypes
<1>2. \A c \in Clients : sub'[c] = IF Listens(c, t)
                                      THEN Stream("live", t, Put(sub[c].queue, events))
                                      ELSE sub[c]
  BY DEF Publish
<1>3. sub' \in [Clients -> [at : {"away", "snapshot", "live", "closed"},
                            task : Tasks \union {NoTask},
                            queue : BoundedSeq(Events, QueueSize)]]
  BY <1>1 DEF Publish, StreamTypeOK
<1> QED
  BY <1>2, <1>3 DEF Stream, Listens

LEMMA PublishSInv ==
    \A w \in Workers : SInv /\ (StepAndPublish(w) \/ PublishChunk(w)) => SInv'
<1> SUFFICES ASSUME NEW w \in Workers, SInv, StepAndPublish(w) \/ PublishChunk(w) PROVE SInv'
  OBVIOUS
<1>1. IInv'
  BY ManagerIInv DEF StreamNext
<1> DEFINE t == job[w].task
<1>2. t \in Tasks
  <2>1. job[w].step # "idle"
    BY DEF StepAndPublish, PublishChunk, Step, Goto, Return, StoreCreate, Begin, StreamRaises,
           StreamEnds, FirstInterrupt, NextInterrupt, NoChunk, MemPause, StorePause, EmitPause,
           MemFinish, StoreFinish, EmitFinish, MemFail, StoreFail, EmitFail, StoreResuming, Resume
  <2> QED
    BY <2>1, BusyWorker DEF SInv
<1>3. CASE PublishChunk(w)
  <2>1. <<"info">> \in Seq(Events)
    BY DEF Events
  <2>2. Publish(t, <<"info">>) /\ UNCHANGED <<ended, missed>>
    BY <1>3 DEF PublishChunk
  <2> HIDE DEF t
  <2>3. StreamTypeOK'
    BY <1>2, <2>1, <2>2, PublishFacts DEF SInv, StreamTypeOK
  <2>4. EndNotLost'
    <3> SUFFICES ASSUME NEW c \in Clients, sub'[c].at = "live", sub'[c].task \in ended,
                        c \notin missed
                 PROVE  Contains(sub'[c].queue, "end")
      BY <2>2 DEF EndNotLost
    <3>1. /\ sub[c].at = "live" /\ sub[c].task \in ended
          /\ sub'[c].queue = IF Listens(c, t) THEN Put(sub[c].queue, <<"info">>)
                                              ELSE sub[c].queue
      BY <1>2, <2>1, <2>2, PublishFacts DEF SInv
    <3>2. Contains(sub[c].queue, "end")
      BY <3>1 DEF SInv, EndNotLost
    <3> QED
      BY <2>1, <3>1, <3>2, PutFacts, QueueFacts DEF SInv
  <2>5. EndBeforeSubscribing'
    BY <1>2, <2>1, <2>2, PublishFacts DEF SInv, EndBeforeSubscribing
  <2> QED
    BY <1>1, <2>3, <2>4, <2>5 DEF SInv
<1>4. CASE StepAndPublish(w)
  <2> DEFINE events == Emitted(w)
             ending == Contains(events, "end")
  <2>1. events \in Seq(Events)
    BY EmittedFacts
  <2>2. /\ Publish(t, events)
        /\ ended' = IF ending THEN ended \union {t} ELSE ended
        /\ missed' = IF ~ending THEN missed ELSE
             missed \union {c \in Clients : sub[c].task = t /\ ~( /\ sub[c].at = "live"
                                                                 /\ Len(sub[c].queue \o events) <= QueueSize)}
    BY <1>4 DEF StepAndPublish
  <2> HIDE DEF t, events
  <2>3. StreamTypeOK'
    BY <1>2, <2>1, <2>2, PublishFacts DEF SInv, StreamTypeOK
  <2>4. EndNotLost'
    <3> SUFFICES ASSUME NEW c \in Clients, sub'[c].at = "live", sub'[c].task \in ended',
                        c \notin missed'
                 PROVE  Contains(sub'[c].queue, "end")
      BY DEF EndNotLost
    <3>1. sub[c].at = "live" /\ sub[c].task \in ended' /\ c \notin missed
      BY <1>2, <2>1, <2>2, PublishFacts DEF SInv
    <3>2. sub'[c].queue = IF Listens(c, t) THEN Put(sub[c].queue, events) ELSE sub[c].queue
      BY <1>2, <2>1, <2>2, PublishFacts DEF SInv
    <3>3. CASE sub[c].task \in ended
      <4>1. Contains(sub[c].queue, "end")
        BY <3>1, <3>3 DEF SInv, EndNotLost
      <4> QED
        BY <2>1, <3>2, <4>1, PutFacts, QueueFacts DEF SInv
    <3>4. CASE sub[c].task \notin ended
      <4>1. ending /\ sub[c].task = t
        BY <2>2, <3>1, <3>4
      <4>2. Len(sub[c].queue \o events) <= QueueSize
        BY <2>2, <4>1
      <4>3. Listens(c, t)
        BY <3>1, <4>1 DEF Listens
      <4> QED
        BY <2>1, <3>2, <4>1, <4>2, <4>3, PutFacts, QueueFacts DEF SInv
    <3> QED
      BY <3>3, <3>4
  <2>5. EndBeforeSubscribing'
    <3> SUFFICES ASSUME NEW c \in Clients, sub'[c].at = "snapshot", sub'[c].task \in ended'
                 PROVE  c \in missed'
      BY DEF EndBeforeSubscribing
    <3>1. sub[c].at = "snapshot" /\ sub[c].task \in ended'
      BY <1>2, <2>1, <2>2, PublishFacts DEF SInv
    <3> QED
      BY <2>2, <3>1 DEF SInv, EndBeforeSubscribing
  <2> QED
    BY <1>1, <2>3, <2>4, <2>5 DEF SInv
<1> QED
  BY <1>3, <1>4

(* A step of one client, or a crash: every stream is left alone, is closed, asks
   for its first events, subscribes after them, or has read an event. *)
LEMMA ClientSInv ==
    ASSUME SInv, [StreamNext]_allvars, ended' = ended, missed' \subseteq Clients,
           missed \subseteq missed',
           sub' \in [Clients -> [at : {"away", "snapshot", "live", "closed"},
                                 task : Tasks \union {NoTask},
                                 queue : BoundedSeq(Events, QueueSize)]],
           \A c \in Clients :
              \/ sub'[c] = sub[c]
              \/ sub'[c].at \in {"away", "closed"}
              \/ sub'[c].at = "snapshot" /\ (sub'[c].task \in ended => c \in missed')
              \/ sub'[c].at = "live" /\ sub[c].at = "snapshot" /\ sub'[c].task = sub[c].task
              \/ /\ sub'[c].at = "live" /\ sub[c].at = "live" /\ sub'[c].task = sub[c].task
                 /\ Contains(sub[c].queue, "end") => Contains(sub'[c].queue, "end")
    PROVE  SInv'
<1>1. IInv'
  BY ManagerIInv
<1>2. StreamTypeOK'
  BY DEF SInv, StreamTypeOK
<1>3. EndNotLost'
  BY DEF SInv, EndNotLost, EndBeforeSubscribing
<1>4. EndBeforeSubscribing'
  BY DEF SInv, EndBeforeSubscribing
<1> QED
  BY <1>1, <1>2, <1>3, <1>4 DEF SInv

LEMMA ConnectSInv == \A c \in Clients, t \in Tasks : SInv /\ Connect(c, t) => SInv'
<1> SUFFICES ASSUME NEW c \in Clients, NEW t \in Tasks, SInv, Connect(c, t) PROVE SInv'
  OBVIOUS
<1>1. PICK s : /\ sub' = [sub EXCEPT ![c] = s]
               /\ \/ s = Stream("snapshot", t, <<>>) /\ (t \in ended => c \in missed')
                  \/ s = Closed
  BY DEF Connect
<1>2. /\ s \in [at : {"away", "snapshot", "live", "closed"},
                task : Tasks \union {NoTask}, queue : BoundedSeq(Events, QueueSize)]
      /\ s.at = "closed" \/ (s.at = "snapshot" /\ s.task = t)
  <2>1. <<>> \in Seq(Events) /\ Len(<<>>) <= QueueSize
    BY StreamAssumption DEF StreamAssumption
  <2>2. Stream("snapshot", t, <<>>) \in [at : {"away", "snapshot", "live", "closed"},
                task : Tasks \union {NoTask}, queue : BoundedSeq(Events, QueueSize)]
    BY <2>1, StreamTypes
  <2> QED
    BY <1>1, <2>2, ClosedTypes DEF Stream
<1>3. ended' = ended /\ missed \subseteq missed' /\ missed' \subseteq Clients
  BY DEF Connect, SInv, StreamTypeOK
<1>4. sub' \in [Clients -> [at : {"away", "snapshot", "live", "closed"},
                            task : Tasks \union {NoTask},
                            queue : BoundedSeq(Events, QueueSize)]]
  BY <1>1, <1>2 DEF SInv, StreamTypeOK
<1>5. \A d \in Clients : \/ sub'[d] = sub[d]
                         \/ sub'[d].at \in {"away", "closed"}
                         \/ sub'[d].at = "snapshot" /\ (sub'[d].task \in ended => d \in missed')
  <2> SUFFICES ASSUME NEW d \in Clients, d = c
               PROVE  \/ sub'[d].at \in {"away", "closed"}
                      \/ sub'[d].at = "snapshot" /\ (sub'[d].task \in ended => d \in missed')
    BY <1>1 DEF SInv, StreamTypeOK
  <2>1. sub'[d] = s
    BY <1>1 DEF SInv, StreamTypeOK
  <2>2. CASE s = Closed
    BY <2>1, <2>2, ClosedTypes
  <2>3. CASE s # Closed
    <3>1. s.at = "snapshot" /\ s.task = t /\ (t \in ended => c \in missed')
      BY <1>1, <2>3 DEF Stream
    <3> QED
      BY <2>1, <3>1
  <2> QED
    BY <2>2, <2>3
<1>6. [StreamNext]_allvars
  BY DEF StreamNext
<1> QED
  BY <1>3, <1>4, <1>5, <1>6, ClientSInv

LEMMA SubscribeSInv == \A c \in Clients : SInv /\ (Subscribe(c) \/ Leave(c)) => SInv'
<1> SUFFICES ASSUME NEW c \in Clients, SInv, Subscribe(c) \/ Leave(c) PROVE SInv'
  OBVIOUS
<1>1. PICK s : /\ sub' = [sub EXCEPT ![c] = s]
               /\ \/ s = Stream("live", sub[c].task, <<>>) /\ sub[c].at = "snapshot"
                  \/ s = Closed
  BY DEF Subscribe, Leave
<1>2. Stream("live", sub[c].task, <<>>) \in [at : {"away", "snapshot", "live", "closed"},
              task : Tasks \union {NoTask}, queue : BoundedSeq(Events, QueueSize)]
  <2>1. <<>> \in Seq(Events) /\ Len(<<>>) <= QueueSize
    BY StreamAssumption DEF StreamAssumption
  <2> QED
    BY <2>1, QueueFacts, StreamTypes DEF SInv
<1>3. UNCHANGED <<ended, missed>> /\ missed \subseteq Clients
  BY DEF Subscribe, Leave, SInv, StreamTypeOK
<1>4. sub' \in [Clients -> [at : {"away", "snapshot", "live", "closed"},
                            task : Tasks \union {NoTask},
                            queue : BoundedSeq(Events, QueueSize)]]
  BY <1>1, <1>2, ClosedTypes DEF SInv, StreamTypeOK
<1>5. /\ sub'[c] = s
      /\ \A d \in Clients \ {c} : sub'[d] = sub[d]
  BY <1>1 DEF SInv, StreamTypeOK
<1>6. \/ sub'[c].at = "closed"
      \/ sub'[c].at = "live" /\ sub[c].at = "snapshot" /\ sub'[c].task = sub[c].task
  BY <1>1, <1>5, ClosedTypes DEF Stream
<1>7. [StreamNext]_allvars
  BY DEF StreamNext
<1> QED
  BY <1>3, <1>4, <1>5, <1>6, <1>7, ClientSInv

LEMMA DeliverSInv == \A c \in Clients : SInv /\ Deliver(c) => SInv'
<1> SUFFICES ASSUME NEW c \in Clients, SInv, Deliver(c) PROVE SInv'
  OBVIOUS
<1> DEFINE q == sub[c].queue
<1>1. q \in Seq(Events) /\ q # <<>> /\ Len(q) <= QueueSize
  BY QueueFacts DEF SInv, Deliver
<1>2. /\ Tail(q) \in Seq(Events) /\ Len(Tail(q)) = Len(q) - 1
      /\ \A i \in 1 .. Len(Tail(q)) : Tail(q)[i] = q[i + 1]
  BY <1>1, HeadTailProperties
<1>3. Len(q) \in Nat /\ Head(q) = q[1]
  BY <1>1
<1> HIDE DEF q
<1>4. Head(q) # "end" /\ Contains(q, "end") => Contains(Tail(q), "end")
  <2> SUFFICES ASSUME Head(q) # "end", Contains(q, "end") PROVE Contains(Tail(q), "end")
    OBVIOUS
  <2>1. PICK i \in 1 .. Len(q) : q[i] = "end"
    BY DEF Contains
  <2>2. i # 1
    BY <1>3, <2>1
  <2>3. i - 1 \in 1 .. Len(Tail(q)) /\ (i - 1) + 1 = i
    BY <1>2, <1>3, <2>1, <2>2
  <2>4. Tail(q)[i - 1] = "end"
    BY <1>2, <2>1, <2>3
  <2> QED
    BY <2>3, <2>4 DEF Contains
<1>5. PICK s : /\ sub' = [sub EXCEPT ![c] = s]
               /\ \/ s = Closed
                  \/ s = Stream("live", sub[c].task, Tail(q)) /\ Head(q) # "end"
  BY DEF Deliver, q
<1>6. Stream("live", sub[c].task, Tail(q)) \in [at : {"away", "snapshot", "live", "closed"},
              task : Tasks \union {NoTask}, queue : BoundedSeq(Events, QueueSize)]
  <2>1. Len(Tail(q)) <= QueueSize
    BY <1>1, <1>2, <1>3, StreamAssumption DEF StreamAssumption
  <2> QED
    BY <1>2, <2>1, QueueFacts, StreamTypes DEF SInv
<1>7. UNCHANGED <<ended, missed>> /\ missed \subseteq Clients
  BY DEF Deliver, SInv, StreamTypeOK
<1>8. sub' \in [Clients -> [at : {"away", "snapshot", "live", "closed"},
                            task : Tasks \union {NoTask},
                            queue : BoundedSeq(Events, QueueSize)]]
  BY <1>5, <1>6, ClosedTypes DEF SInv, StreamTypeOK
<1>9. /\ sub'[c] = s
      /\ \A d \in Clients \ {c} : sub'[d] = sub[d]
  BY <1>5 DEF SInv, StreamTypeOK
<1>10. \/ sub'[c].at = "closed"
       \/ /\ sub'[c].at = "live" /\ sub[c].at = "live" /\ sub'[c].task = sub[c].task
          /\ Contains(sub[c].queue, "end") => Contains(sub'[c].queue, "end")
  BY <1>4, <1>5, <1>9, ClosedTypes DEF Stream, Deliver, q
<1>11. [StreamNext]_allvars
  BY DEF StreamNext
<1> QED
  BY <1>7, <1>8, <1>9, <1>10, <1>11, ClientSInv

LEMMA CrashSInv == SInv /\ CrashAll => SInv'
<1> SUFFICES ASSUME SInv, CrashAll PROVE SInv'
  OBVIOUS
<1>1. /\ sub' = [c \in Clients |-> IF sub[c] = Away THEN Away ELSE Closed]
      /\ UNCHANGED <<ended, missed>> /\ missed \subseteq Clients
  BY DEF CrashAll, SInv, StreamTypeOK
<1>2. sub' \in [Clients -> [at : {"away", "snapshot", "live", "closed"},
                            task : Tasks \union {NoTask},
                            queue : BoundedSeq(Events, QueueSize)]]
  <2>1. \A c \in Clients : sub[c] = Away =>
           Away \in [at : {"away", "snapshot", "live", "closed"},
                     task : Tasks \union {NoTask}, queue : BoundedSeq(Events, QueueSize)]
    BY DEF SInv, StreamTypeOK
  <2> QED
    BY <1>1, <2>1, ClosedTypes
<1>3. \A c \in Clients : sub'[c] = sub[c] \/ sub'[c].at = "closed"
  BY <1>1, ClosedTypes
<1>4. [StreamNext]_allvars
  BY DEF StreamNext
<1> QED
  BY <1>1, <1>2, <1>3, <1>4, ClientSInv

LEMMA NextSInv == SInv /\ [StreamNext]_allvars => SInv'
<1> SUFFICES ASSUME SInv, [StreamNext]_allvars PROVE SInv'
  OBVIOUS
<1>1. CASE UNCHANGED svars
  <2>1. UNCHANGED <<sub, ended, missed>>
    BY <1>1 DEF svars
  <2> QED
    BY <2>1, ClientSInv DEF SInv, StreamTypeOK
<1>2. CASE RequestServed
  BY <1>1, <1>2 DEF RequestServed
<1>3. ASSUME NEW w \in Workers, StepAndPublish(w) \/ PublishChunk(w) PROVE SInv'
  BY <1>3, PublishSInv
<1>4. CASE CrashAll
  BY <1>4, CrashSInv
<1>5. ASSUME NEW c \in Clients,
             (\E t \in Tasks : Connect(c, t)) \/ Subscribe(c) \/ Deliver(c) \/ Leave(c)
      PROVE  SInv'
  BY <1>5, ConnectSInv, SubscribeSInv, DeliverSInv
<1>6. CASE UNCHANGED allvars
  BY <1>1, <1>6 DEF allvars
<1> QED
  BY <1>2, <1>3, <1>4, <1>5, <1>6 DEF StreamNext

LEMMA StreamInvariance == StreamSpec => []SInv
  BY InitSInv, NextSInv, PTL DEF StreamSpec

-------------------------------------------------------------------------------
(* The streams, what ended and who missed it have the types of StreamTypeOK: in *)
(* particular no queue grows past QueueSize (event_bus.py).                     *)
THEOREM StreamTypeCorrect == StreamSpec => []StreamTypeOK
<1>1. SInv => StreamTypeOK
  BY DEF SInv
<1> QED
  BY <1>1, StreamInvariance, PTL

(* A client that had subscribed, with room in its queue, when the end of its    *)
(* task was published finds that end in its queue or has read it, whatever      *)
(* chunks were published before and after (event_bus.py, sse.py).               *)
THEOREM EndIsDelivered == StreamSpec => []EndNotLost
<1>1. SInv => EndNotLost
  BY DEF SInv
<1> QED
  BY <1>1, StreamInvariance, PTL

(* The bus and its readers never disturb the manager: its single driver, its    *)
(* reviews and its table stay right in the composition (task_manager.py).       *)
THEOREM ManagerUndisturbed ==
    StreamSpec => [](OneDriver /\ ReviewsConsumePauses /\ StoredEndIsReal)
<1>1. SInv => OneDriver /\ ReviewsConsumePauses /\ StoredEndIsReal
  BY DEF SInv, IInv, Budget, ReviewsConsumePauses
<1> QED
  BY <1>1, StreamInvariance, PTL
===============================================================================
