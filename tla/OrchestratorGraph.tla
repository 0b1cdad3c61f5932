-------------------------- MODULE OrchestratorGraph --------------------------
(***************************************************************************)
(* app/orchestrator: the main StateGraph on one thread.  An action is one  *)
(* node together with the edge taken out of it (LangGraph checkpoints the  *)
(* two as one superstep).  A thread whose next node is a review has been   *)
(* interrupted: HumanReviewNode calls interrupt() before it does anything  *)
(* else, and runs again from its start with the decision.                  *)
(*                                                                         *)
(* Besides the state the run has two pieces of process memory: the runtime *)
(* registry (runtime.py) and the trace of the DecisionRecorder             *)
(* (observability/replay/recorder.py).  A restart loses both.              *)
(***************************************************************************)
EXTENDS GraphStatus, Naturals

CONSTANTS
    Limits,          \* values of state["max_iterations"]
    PassThreshold,   \* evaluation_pass_threshold
    ReplanThreshold, \* evaluation_replan_threshold
    Scores,          \* scores the evaluation layer may give
    NoReport,        \* the report of an evaluation that returned none
    MaxCrashes       \* bound: process restarts

ASSUME GraphAssumption == /\ Limits \subseteq Nat
                          /\ PassThreshold \in Nat /\ ReplanThreshold \in Nat
                          /\ Scores \subseteq Nat
                          /\ MaxCrashes \in Nat

VARIABLES
    skip,      \* auto_approve is set in the tenant's settings, or the user is an admin
    limit,     \* state["max_iterations"]
    at,        \* the node to run next; "end", "raised" or "lost" when there is none
    status,    \* state["status"]
    count,     \* state["iteration_count"]
    report,    \* state["evaluation_report"]
    decision,  \* history: the last review decision, "none" before the first
    reviews,   \* history: decisions received
    runtime,   \* thread is in _runtime_registry
    trace,     \* the recorder's trace: how far, and the evaluations recorded in it
    crashes    \* history: restarts

inputs == <<skip, limit>>
vars == <<inputs, at, status, count, report, decision, reviews, runtime, trace, crashes>>

Reviews  == {"analysis_human_review", "planning_human_review"}
Layers   == {"analysis", "planning", "generation", "evaluation"}
Readers  == {"chat_node", "retrieve_node", "clarify_node"}
Stopped  == {"end", "raised", "lost"}
Nodes    == {"inject_runtime", "classify", "retrieve_memory", "knowledge_retrieval",
             "final_assembly", "compress_memory", "save_session"}
            \union Readers \union Layers \union Reviews

\* consistency and feasibility default to 100 when the report has no such dimension.
Report == [overall : Scores, consistency : Scores \union {100},
           feasibility : Scores \union {100}, critical : BOOLEAN]

\* The default EvaluationReportDetail() of make_initial_state().
BlankReport == [overall |-> 0, consistency |-> 100, feasibility |-> 100, critical |-> FALSE]

Trace(state, evaluations) == [state |-> state, evaluations |-> evaluations]
NoTrace == Trace("none", 0)

TypeOK == /\ skip \in BOOLEAN
          /\ limit \in Limits
          /\ at \in Nodes \union Stopped
          /\ status \in {"running", "paused"} \union Finals
          /\ count \in Nat
          /\ report \in Report \union {NoReport, BlankReport}
          /\ decision \in Decisions \union {"none"}
          /\ reviews \in Nat
          /\ runtime \in BOOLEAN
          /\ trace \in [state : {"none", "open", "stored"}, evaluations : Nat]
          /\ crashes \in Nat

Init == /\ skip \in BOOLEAN
        /\ limit \in Limits
        /\ at = "inject_runtime"
        /\ status = "running"
        /\ count = 0
        /\ report = BlankReport
        /\ decision = "none"
        /\ reviews = 0
        /\ runtime = FALSE
        /\ trace = NoTrace
        /\ crashes = 0

-------------------------------------------------------------------------------
(* Routing. *)

(* INTENT_ROUTE_MAP, with its default. *)
IntentRoute(intent) ==
    CASE intent = "knowledge_qa"       -> "retrieve_node"
      [] intent = "complex_generation" -> "retrieve_memory"
      [] intent = "clarification"      -> "clarify_node"
      [] OTHER                         -> "chat_node"

Intents == {"chat", "knowledge_qa", "complex_generation", "clarification", "document_analysis"}

(* needs_review() *)
ReviewUnlessSkipped(review, next) == IF skip THEN next ELSE review

\* Mutant of Exhausted: off by one.
ExhaustedLater(n) == n > limit

\* The iteration budget is used up.
Exhausted(n) == n >= limit

\* Mutant of Decide: the dimensions of a middling report are not looked at.
DecideOverallOnly(r, n) ==
    CASE Exhausted(n) -> "final_assembly"
      [] r = NoReport -> "generation"
      [] r.overall >= ReplanThreshold -> "final_assembly"
      [] r.critical -> "analysis_human_review"
      [] OTHER -> "planning"

(* IterationDecider.run() *)
Decide(r, n) ==
    IF Exhausted(n) THEN "final_assembly"
    ELSE IF r = NoReport THEN "generation"
    ELSE IF r.overall >= PassThreshold THEN "final_assembly"
    ELSE IF r.overall < ReplanThreshold
      THEN IF r.critical THEN "analysis_human_review" ELSE "planning"
    ELSE IF r.consistency < ReplanThreshold THEN "generation"
    ELSE IF r.feasibility < ReplanThreshold THEN "planning"
    ELSE "final_assembly"

-------------------------------------------------------------------------------
(* Nodes. *)

Go(from, to) == at = from /\ at' = to /\ UNCHANGED inputs

InjectRuntime == /\ Go("inject_runtime", "classify")
                 /\ runtime' = TRUE
                 /\ UNCHANGED <<status, count, report, decision, reviews, trace, crashes>>

\* make_initial_state() sets no intent, so the node classifies (again).
Classify == /\ \E i \in Intents : Go("classify", IntentRoute(i))
            /\ UNCHANGED <<status, count, report, decision, reviews, runtime, trace, crashes>>

\* ChatNode and KnowledgeQANode answer, or apologise when the LLM fails.
Answer(n) == /\ n \in {"chat_node", "retrieve_node"}
             /\ Go(n, "save_session")
             /\ status' = "complete"
             /\ UNCHANGED <<count, report, decision, reviews, runtime, trace, crashes>>

Clarify == /\ Go("clarify_node", "end")
           /\ status' = "clarification_needed"
           /\ runtime' = FALSE
           /\ UNCHANGED <<count, report, decision, reviews, trace, crashes>>

\* The memory nodes swallow every failure and leave the control fields alone.
Memory == /\ \/ Go("retrieve_memory", "knowledge_retrieval")
             \/ Go("compress_memory", "save_session")
          /\ UNCHANGED <<status, count, report, decision, reviews, runtime, trace, crashes>>

\* start_trace() comes first, whether or not anything is retrieved.
KnowledgeRetrieval == /\ Go("knowledge_retrieval", "analysis")
                      /\ trace' = Trace("open", 0)
                      /\ UNCHANGED <<status, count, report, decision, reviews, runtime, crashes>>

Analysis == /\ Go("analysis", ReviewUnlessSkipped("analysis_human_review", "planning"))
            /\ UNCHANGED <<status, count, report, decision, reviews, runtime, trace, crashes>>

Planning == /\ Go("planning", ReviewUnlessSkipped("planning_human_review", "generation"))
            /\ UNCHANGED <<status, count, report, decision, reviews, runtime, trace, crashes>>

Generation == /\ Go("generation", "evaluation")
              /\ UNCHANGED <<status, count, report, decision, reviews, runtime, trace, crashes>>

\* Mutant of Evaluation: the iteration is not counted.
EvaluationUncounted(r) == /\ Go("evaluation", Decide(r, count))
                          /\ report' = r
                          /\ UNCHANGED <<status, count, decision, reviews, runtime, trace, crashes>>

\* EvaluationAdapter increments iteration_count, then the decider routes.
Evaluation(r) == /\ Go("evaluation", Decide(r, count + 1))
                 /\ report' = r
                 /\ count' = count + 1
                 /\ trace' = IF trace.state = "open"
                               THEN Trace("open", trace.evaluations + 1) ELSE trace
                 /\ UNCHANGED <<status, decision, reviews, runtime, crashes>>

\* A layer's graph raises: nothing on the way to the task manager catches it.
LayerRaises == /\ at \in Layers
               /\ at' = "raised"
               /\ UNCHANGED <<inputs, status, count, report, decision, reviews, runtime, trace, crashes>>

(* HumanReviewNode, resumed.  Both decisions lead to the next stage. *)
Review(d) == /\ \/ Go("analysis_human_review", "planning")
                \/ Go("planning_human_review", "generation")
             /\ status' = ReviewedStatus(d)
             /\ decision' = d
             /\ reviews' = reviews + 1
             /\ UNCHANGED <<count, report, runtime, trace, crashes>>

\* Mutant of FinalAssembly: the trace is not ended.
FinalAssemblyKeepsTrace ==
    /\ Go("final_assembly", "compress_memory")
    /\ status' = "complete"
    /\ UNCHANGED <<count, report, decision, reviews, runtime, trace, crashes>>

\* Mutant of FinalAssembly: the document is assembled, the status is not set.
FinalAssemblyKeepsStatus ==
    /\ Go("final_assembly", "compress_memory")
    /\ trace' = IF trace.state = "open" THEN Trace("stored", trace.evaluations) ELSE trace
    /\ UNCHANGED <<status, count, report, decision, reviews, runtime, crashes>>

\* end_trace() before record_decision(): the last record is in no trace.
FinalAssembly ==
    /\ Go("final_assembly", "compress_memory")
    /\ status' = "complete"
    /\ trace' = IF trace.state = "open" THEN Trace("stored", trace.evaluations) ELSE trace
    /\ UNCHANGED <<count, report, decision, reviews, runtime, crashes>>

\* Whether or not the session could be saved.
SaveSession == /\ Go("save_session", "end")
               /\ runtime' = FALSE
               /\ UNCHANGED <<status, count, report, decision, reviews, trace, crashes>>

(* The process restarts.  Nobody resumes a thread that was between reviews; one
   that waits at a review is resumed if its checkpoint was in Postgres. *)
Crash == /\ at \notin Stopped
         /\ crashes < MaxCrashes
         /\ crashes' = crashes + 1
         /\ \/ at' = "lost"
            \/ at \in Reviews /\ UNCHANGED at
         /\ runtime' = FALSE
         /\ trace' = NoTrace
         /\ UNCHANGED <<inputs, status, count, report, decision, reviews>>

Node == \/ InjectRuntime \/ Classify \/ Answer("chat_node") \/ Answer("retrieve_node") \/ Clarify
        \/ Memory \/ KnowledgeRetrieval \/ Analysis \/ Planning \/ Generation
        \/ (\E r \in Report \union {NoReport} : Evaluation(r))
        \/ LayerRaises \/ FinalAssembly \/ SaveSession

Next == Node \/ (\E d \in Decisions : Review(d)) \/ Crash

\* astream() runs node after node.  Nobody is obliged to review.
Spec == Init /\ [][Next]_vars /\ WF_vars(Node)

-------------------------------------------------------------------------------
(* The report that ends the loop early: passed, or nearly with no dimension
   below the replan threshold. *)
Acceptable(r) == /\ r # NoReport
                 /\ \/ r.overall >= PassThreshold
                    \/ /\ r.overall >= ReplanThreshold
                       /\ r.consistency >= ReplanThreshold
                       /\ r.feasibility >= ReplanThreshold

(* A document is assembled only from an evaluated generation, and from one the
   evaluation does not accept only when the iterations are used up. *)
AssembledIsEvaluated ==
    at \in {"final_assembly", "compress_memory"} =>
        count > 0 /\ (Acceptable(report) \/ count >= limit)

\* Rounds of generation and evaluation: max_iterations, but at least one.
Rounds == IF limit = 0 THEN 1 ELSE limit

(* The loop is bounded, and so is what it asks of reviewers: two decisions per
   round (one of the plan, one of the analysis) whatever the scores. *)
LoopIsBounded == /\ count <= Rounds
                 /\ at \in Layers \union Reviews => count < Rounds
                 /\ reviews <= 2 * Rounds

(* With reviews skipped a run stops for a human only when the last evaluation
   found critical issues below the replan threshold. *)
SkippedUnlessCritical ==
    skip /\ at \in Reviews =>
        /\ at = "analysis_human_review"
        /\ count > 0 /\ report # NoReport
        /\ report.critical /\ report.overall < ReplanThreshold

(* The nodes that read the runtime registry find the runtime of this process,
   and a run that reaches END leaves neither a runtime nor an open trace behind;
   a stored trace holds every evaluation of the run. *)
RuntimeAndTrace == /\ at \in Readers => runtime
                   /\ at = "end" => ~runtime /\ trace.state # "open"
                   /\ trace.state # "none" => trace.evaluations = count

(* The run never gets stuck between reviews: it ends, raises, is lost in a
   restart or waits for a reviewer. *)
ComesToRest == at \notin Stopped \union Reviews ~> at \in Stopped \union Reviews

(* The graph is what the task manager takes it for: GraphRun. *)
Phase == CASE at = "inject_runtime" -> "new"
           [] at = "end" -> "ended"
           [] at \in {"raised", "lost"} -> at
           [] at \in Reviews -> "interrupted"
           [] OTHER -> "running"
Run == INSTANCE GraphRun WITH phase <- Phase, shown <- status
ImplementsGraphRun == Run!Spec
===============================================================================
