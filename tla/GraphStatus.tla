----------------------------- MODULE GraphStatus -----------------------------
(***************************************************************************)
(* The vocabulary the task manager and the orchestrator graph share: the   *)
(* "status" field of OrchestratorState, and the decisions a reviewer may   *)
(* send back.                                                              *)
(***************************************************************************)

Decisions == {"approved", "needs_changes"}

\* Statuses with which the graph reaches END.
Finals == {"complete", "clarification_needed"}

(* HumanReviewNode writes this status when it processes a decision; no later
   node touches it before final_assembly, so the state has it at the next
   interrupt. *)
ReviewedStatus(decision) == IF decision = "needs_changes" THEN "paused" ELSE "running"
===============================================================================
