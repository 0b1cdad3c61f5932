------------------------------- MODULE GraphRun -------------------------------
(***************************************************************************)
(* What the task manager relies on when it drives a graph through          *)
(* astream(): a run ends, raises or stops at a review; stopped, it waits   *)
(* for a decision; and the status in its state says which of these it was, *)
(* except that it does not tell a second review from a first one.  What    *)
(* the manager gets to see of that state is its own affair: see            *)
(* StreamModes in TaskManager.                                             *)
(***************************************************************************)
EXTENDS GraphStatus

VARIABLES
    phase,   \* new, running, interrupted, ended, raised, lost
    shown    \* the status in the state

Init == phase = "new" /\ shown = "running"

Start == phase = "new" /\ phase' = "running" /\ UNCHANGED shown

\* A node runs that neither ends nor stops the run; it may announce the final
\* status that the run then ends with.
Work == /\ phase = "running"
        /\ UNCHANGED phase
        /\ shown' \in {shown, "complete"}

Interrupt == phase = "running" /\ shown \notin Finals /\ phase' = "interrupted" /\ UNCHANGED shown

Answer(d) == /\ phase = "interrupted"
             /\ phase' = "running"
             /\ shown' = ReviewedStatus(d)

End == /\ phase = "running"
       /\ phase' = "ended"
       /\ shown' \in Finals

Raise == /\ phase = "running"
         /\ shown \notin Finals
         /\ phase' = "raised"
         /\ UNCHANGED shown

\* The process dies: a run in flight is gone, a stopped one if its checkpoint is.
Lose == /\ phase \in {"new", "running", "interrupted"}
        /\ phase' = "lost"
        /\ UNCHANGED shown

Next == Start \/ Work \/ Interrupt \/ (\E d \in Decisions : Answer(d)) \/ End \/ Raise \/ Lose

Spec == Init /\ [][Next]_<<phase, shown>>
===============================================================================
