---------------------------- MODULE TaskLifecycle ----------------------------
(***************************************************************************)
(* What the task manager promises to a client that only sees a task's      *)
(* status: a paused task is handed on by a review, each pause pays for one *)
(* review, an end is final, and only a restart takes a status back.        *)
(***************************************************************************)
EXTENDS Integers

CONSTANT Tasks

VARIABLES
    status,   \* the status a client is told
    credit    \* reviews that may still be accepted

Ends    == {"complete", "failed", "clarification_needed"}
Working == {"running", "resuming"}

Init == /\ status = [t \in Tasks |-> "absent"]
        /\ credit = [t \in Tasks |-> 0]

Become(t, s) == status' = [status EXCEPT ![t] = s]

Start(t) == status[t] = "absent" /\ Become(t, "running") /\ UNCHANGED credit

\* The run stops for a review ...
Pause(t) == /\ status[t] \in Working
            /\ Become(t, "paused")
            /\ credit' = [credit EXCEPT ![t] = @ + 1]

\* ... or ends, or is said to go on.
End(t)    == status[t] \in Working /\ (\E e \in Ends : Become(t, e)) /\ UNCHANGED credit
GoesOn(t) == status[t] \in Working /\ Become(t, "running") /\ UNCHANGED credit

\* A review is accepted: of a paused task, or of one found in the table.
Review(t) == /\ status[t] \in {"paused", "absent"}
             /\ credit[t] > 0
             /\ Become(t, "resuming")
             /\ credit' = [credit EXCEPT ![t] = @ - 1]

\* A task found in the table after a restart.
Mount(t) == /\ status[t] = "absent"
            /\ \E s \in Ends \union Working : Become(t, s)
            /\ UNCHANGED credit

\* A restart forgets the statuses; one old pause of each task may come back.
Restart == /\ status' = [t \in Tasks |-> "absent"]
           /\ credit' = [t \in Tasks |-> credit[t] + 1]

Next == \/ \E t \in Tasks : Start(t) \/ Pause(t) \/ End(t) \/ GoesOn(t) \/ Review(t) \/ Mount(t)
        \/ Restart

Spec == Init /\ [][Next]_<<status, credit>>
===============================================================================
