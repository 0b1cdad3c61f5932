----------------------------- MODULE TaskStreams -----------------------------
(***************************************************************************)
(* TaskManager composed with the event bus (app/streaming/event_bus.py)    *)
(* and the SSE generators that read it (app/streaming/sse.py, used by      *)
(* routes/stream_generate.py and routes/interact.py).                      *)
(*                                                                         *)
(* publish() copies the channel's queues under the bus lock and then calls *)
(* put_nowait on each, with no await in between, so one publish is atomic; *)
(* the lock is never held across an await, so the publishes of one handler *)
(* follow each other without the event loop running anything else.         *)
(***************************************************************************)
EXTENDS TaskManager, SequencesExt

CONSTANTS
    Clients,     \* SSE connections
    QueueSize    \* _queue_maxsize (128 in the code)

ASSUME StreamAssumption == QueueSize \in Nat \ {0}

VARIABLES
    sub,      \* the generator serving each client
    ended,    \* history: tasks for which a done or error event was published
    missed    \* history: clients for which that was before they subscribed, or
              \* while their queue had no room for it

svars == <<sub, ended, missed>>
allvars == <<vars, svars>>

\* "end" stands for done and error, "info" for every other event.
Events == {"info", "end"}

Stream(at, task, queue) == [at |-> at, task |-> task, queue |-> queue]
Away == Stream("away", NoTask, <<>>)
Closed == Stream("closed", NoTask, <<>>)

StreamTypeOK ==
    /\ sub \in [Clients -> [at : {"away", "snapshot", "live", "closed"},
                            task : Tasks \union {NoTask},
                            queue : BoundedSeq(Events, QueueSize)]]
    /\ ended \subseteq Tasks
    /\ missed \subseteq Clients

StreamInit == /\ Init
              /\ sub = [c \in Clients |-> Away]
              /\ ended = {}
              /\ missed = {}

-------------------------------------------------------------------------------
\* Mutant of Put: one slot short.
PutEarlyFull(queue, events) ==
    SubSeq(queue \o events, 1, IF Len(queue \o events) < QueueSize
                                 THEN Len(queue \o events) ELSE QueueSize - 1)

(* put_nowait, event by event: what does not fit is dropped. *)
Put(queue, events) ==
    SubSeq(queue \o events, 1, IF Len(queue \o events) < QueueSize
                                 THEN Len(queue \o events) ELSE QueueSize)

Listens(c, t) == sub[c].at = "live" /\ sub[c].task = t

(* EventBus.publish() of these events on the channel of t. *)
Publish(t, events) ==
    sub' = [c \in Clients |-> IF Listens(c, t)
                                THEN Stream("live", t, Put(sub[c].queue, events))
                                ELSE sub[c]]

\* What the manager publishes in the next step of w (task.created is left out:
\* nobody knows the id yet).
Emitted(w) ==
    CASE job[w].step = "begin" /\ job[w].task \in orch -> <<"info">>
      [] job[w].step = "resume" -> <<"info">>
      [] job[w].step = "pause_emit" -> <<"info">>
      [] job[w].step \in {"finish_emit", "fail_emit"} -> <<"info", "end">>
      [] OTHER -> <<>>

(* A step of the manager with the events it publishes. *)
StepAndPublish(w) ==
    LET t == job[w].task
        events == Emitted(w)
        ending == Contains(events, "end")
    IN
    /\ Step(w)
    /\ Publish(t, events)
    /\ ended' = IF ending THEN ended \union {t} ELSE ended
    /\ missed' = IF ~ending THEN missed ELSE
         missed \union {c \in Clients : sub[c].task = t /\ ~( /\ sub[c].at = "live"
                                                             /\ Len(sub[c].queue \o events) <= QueueSize)}

(* A chunk of the running graph: task.progress, chat.chunk, generation.chunk... *)
PublishChunk(w) ==
    LET t == job[w].task IN
    /\ job[w].step \in {"stream", "restream"}
    /\ \E c \in Clients : Listens(c, t) /\ Len(sub[c].queue) < QueueSize
    /\ Publish(t, <<"info">>)
    /\ UNCHANGED <<vars, ended, missed>>

RequestServed == Request /\ UNCHANGED svars

CrashAll == /\ Crash
            /\ sub' = [c \in Clients |-> IF sub[c] = Away THEN Away ELSE Closed]
            /\ UNCHANGED <<ended, missed>>

-------------------------------------------------------------------------------
(* The handler looked the task up (memory, then table) and the generator is
   about to yield its initial events. *)
Connect(c, t) ==
    /\ sub[c] = Away
    /\ IF mem[t] # "absent" \/ store[t] # "absent"
         THEN /\ sub' = [sub EXCEPT ![c] = Stream("snapshot", t, <<>>)]
              /\ missed' = IF t \in ended THEN missed \union {c} ELSE missed
         ELSE /\ sub' = [sub EXCEPT ![c] = Closed]
              /\ UNCHANGED missed
    /\ UNCHANGED <<vars, ended>>

(* The client has read the initial events: the generator subscribes. *)
Subscribe(c) ==
    /\ sub[c].at = "snapshot"
    /\ sub' = [sub EXCEPT ![c] = Stream("live", sub[c].task, <<>>)]
    /\ UNCHANGED <<vars, ended, missed>>

(* queue.get(), yield, and leave the loop after done or error. *)
Deliver(c) ==
    /\ sub[c].at = "live"
    /\ sub[c].queue # <<>>
    /\ sub' = [sub EXCEPT ![c] = IF Head(@.queue) = "end" THEN Closed
                                 ELSE Stream("live", @.task, Tail(@.queue))]
    /\ UNCHANGED <<vars, ended, missed>>

(* The client goes away: the generator is cancelled and unsubscribes. *)
Leave(c) ==
    /\ sub[c].at \in {"snapshot", "live"}
    /\ sub' = [sub EXCEPT ![c] = Closed]
    /\ UNCHANGED <<vars, ended, missed>>

StreamNext == \/ RequestServed
              \/ \E w \in Workers : StepAndPublish(w) \/ PublishChunk(w)
              \/ CrashAll
              \/ \E c \in Clients : \/ \E t \in Tasks : Connect(c, t)
                                    \/ Subscribe(c) \/ Deliver(c) \/ Leave(c)

\* As in TaskManager; and clients read what is sent to them.
StreamSpec == /\ StreamInit /\ [][StreamNext]_allvars
              /\ \A w \in Workers : WF_allvars(StepAndPublish(w))
              /\ \A c \in Clients : WF_allvars(Subscribe(c)) /\ WF_allvars(Deliver(c))

-------------------------------------------------------------------------------
Finished(t) == mem[t] \in Terminal /\ (\A w \in Workers : job[w].task # t)

(* A client that had subscribed, with room in its queue, when the end of its
   task was published finds that end in its queue or has already read it. *)
EndNotLost ==
    \A c \in Clients :
        sub[c].at = "live" /\ sub[c].task \in ended /\ c \notin missed
            => Contains(sub[c].queue, "end")

(* "pushes progress, logs, review requests and completion events": the stream of
   a finished task ends. *)
StreamOfFinishedTaskEnds ==
    \A c \in Clients, t \in Tasks :
        (Listens(c, t) /\ Finished(t)) ~> (sub[c].at = "closed" \/ ~Finished(t))
===============================================================================
