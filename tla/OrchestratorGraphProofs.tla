------------------------ MODULE OrchestratorGraphProofs ------------------------
(***************************************************************************)
(* Proofs about OrchestratorGraph for every iteration limit, all threshold *)
(* and score values and any number of restarts.                            *)
(***************************************************************************)
EXTENDS OrchestratorGraph, TLAPS

USE GraphAssumption

\* The nodes before the first layer, and those after the last.
Prelude == {"inject_runtime", "classify", "retrieve_memory", "knowledge_retrieval"} \union Readers
Epilogue == {"final_assembly", "compress_memory"}

(* How many decisions the reviewers have made by the time a node runs: the
   planning review of a round comes after its analysis review. *)
ReviewBudget ==
    /\ at \in Prelude => count = 0 /\ reviews = 0
    /\ at \in {"analysis", "analysis_human_review"} => reviews <= 2 * count
    /\ at \in {"planning", "planning_human_review"} => reviews <= 2 * count + 1
    /\ at \in {"generation", "evaluation"} => reviews <= 2 * count + 2
    /\ at \in Epilogue => reviews <= 2 * count

(* A final status is written by the last nodes only, and stays. *)
StatusOfPosition ==
    /\ at \in Nodes \ {"compress_memory", "save_session"} => status \notin Finals
    /\ at \in {"compress_memory", "save_session"} => status = "complete"

(* The runtime registry is filled by the first node and emptied by the last;
   the trace is open from the retrieval to the final assembly, unless a restart
   lost it. *)
RuntimeOfPosition ==
    /\ at \in {"classify"} \union Readers => runtime
    /\ at = "end" => ~runtime
    /\ at \in Prelude => trace.state = "none"
    /\ at \in Layers \union Reviews \union {"final_assembly"} => trace.state # "stored"
    /\ at \in {"compress_memory", "save_session", "end"} => trace.state # "open"
    /\ trace.state # "none" => trace.evaluations = count

IInv == /\ TypeOK
        /\ LoopIsBounded
        /\ ReviewBudget
        /\ AssembledIsEvaluated
        /\ StatusOfPosition

-------------------------------------------------------------------------------
(* Where the iteration decider may go, and why. *)
LEMMA DecideRoutes ==
    ASSUME NEW r \in Report \union {NoReport}, NEW n \in Nat, limit \in Nat
    PROVE  /\ Decide(r, n) \in {"final_assembly", "generation", "planning", "analysis_human_review"}
           /\ Decide(r, n) # "final_assembly" => n < limit
           /\ Decide(r, n) = "final_assembly" => Acceptable(r) \/ n >= limit
<1>1. CASE r = NoReport
  BY <1>1 DEF Decide, Exhausted
<1>2. CASE r \in Report /\ r # NoReport
  <2>1. PassThreshold \in Nat /\ ReplanThreshold \in Nat /\ Scores \subseteq Nat
    BY DEF GraphAssumption
  <2>2. /\ r.overall \in Scores
        /\ r.consistency \in Scores \/ r.consistency = 100
        /\ r.feasibility \in Scores \/ r.feasibility = 100
    BY <1>2 DEF Report
  <2>3. r.overall \in Nat
    BY <2>1, <2>2
  <2>4. r.consistency \in Nat
    <3>1. CASE r.consistency \in Scores
      BY <2>1, <3>1
    <3>2. CASE r.consistency = 100
      BY <3>2
    <3> QED
      BY <2>2, <3>1, <3>2
  <2>5. r.feasibility \in Nat
    <3>1. CASE r.feasibility \in Scores
      BY <2>1, <3>1
    <3>2. CASE r.feasibility = 100
      BY <3>2
    <3> QED
      BY <2>2, <3>1, <3>2
  <2> QED
    BY <1>2, <2>1, <2>3, <2>4, <2>5 DEF Decide, Exhausted, Acceptable
<1> QED
  BY <1>1, <1>2

LEMMA InitIInv == Init => IInv
<1> SUFFICES ASSUME Init PROVE IInv
  OBVIOUS
<1> USE DEF Init
<1>1. TypeOK
  BY DEF TypeOK, Nodes, Finals, NoTrace, Trace
<1>2. LoopIsBounded /\ ReviewBudget
  BY DEF LoopIsBounded, ReviewBudget, Rounds, Layers, Reviews, Prelude, Epilogue, Readers,
         GraphAssumption
<1>3. AssembledIsEvaluated /\ StatusOfPosition
  BY DEF AssembledIsEvaluated, StatusOfPosition, Finals
<1> QED
  BY <1>1, <1>2, <1>3 DEF IInv

(* A step that only goes on: from and to are both inside a part of the graph
   with the same bounds. *)
LEMMA NextIInv == IInv /\ [Next]_vars => IInv'
<1> SUFFICES ASSUME IInv, [Next]_vars PROVE IInv'
  OBVIOUS
<1> USE DEF IInv
<1>0. /\ limit \in Nat /\ count \in Nat /\ reviews \in Nat /\ crashes \in Nat
      /\ Rounds \in Nat
  BY DEF TypeOK, GraphAssumption, Rounds
\* Where a node is in the graph.
<1> USE DEF Go, inputs, Nodes, Layers, Reviews, Readers, Stopped, Prelude, Epilogue, Rounds, Finals
<1>1. CASE InjectRuntime
  <2>1. TypeOK'
    BY <1>0, <1>1 DEF TypeOK, StatusOfPosition, InjectRuntime
  <2>2. LoopIsBounded' /\ ReviewBudget'
    BY <1>0, <1>1 DEF LoopIsBounded, ReviewBudget, TypeOK, InjectRuntime
  <2>3. AssembledIsEvaluated' /\ StatusOfPosition'
    BY <1>0, <1>1 DEF AssembledIsEvaluated, Acceptable, StatusOfPosition, TypeOK, InjectRuntime
  <2> QED
    BY <2>1, <2>2, <2>3
<1>2. CASE Classify
  <2>1. TypeOK'
    BY <1>0, <1>2 DEF TypeOK, StatusOfPosition, Classify, IntentRoute, Intents
  <2>2. LoopIsBounded' /\ ReviewBudget'
    BY <1>0, <1>2 DEF LoopIsBounded, ReviewBudget, TypeOK, Classify, IntentRoute, Intents
  <2>3. AssembledIsEvaluated' /\ StatusOfPosition'
    BY <1>0, <1>2 DEF AssembledIsEvaluated, Acceptable, StatusOfPosition, TypeOK, Classify, IntentRoute, Intents
  <2> QED
    BY <2>1, <2>2, <2>3
<1>3. CASE Answer("chat_node") \/ Answer("retrieve_node")
  <2>1. TypeOK'
    BY <1>0, <1>3 DEF TypeOK, StatusOfPosition, Answer
  <2>2. LoopIsBounded' /\ ReviewBudget'
    BY <1>0, <1>3 DEF LoopIsBounded, ReviewBudget, TypeOK, Answer
  <2>3. AssembledIsEvaluated' /\ StatusOfPosition'
    BY <1>0, <1>3 DEF AssembledIsEvaluated, Acceptable, StatusOfPosition, TypeOK, Answer
  <2> QED
    BY <2>1, <2>2, <2>3
<1>4. CASE Clarify
  <2>1. TypeOK'
    BY <1>0, <1>4 DEF TypeOK, StatusOfPosition, Clarify
  <2>2. LoopIsBounded' /\ ReviewBudget'
    BY <1>0, <1>4 DEF LoopIsBounded, ReviewBudget, TypeOK, Clarify
  <2>3. AssembledIsEvaluated' /\ StatusOfPosition'
    BY <1>0, <1>4 DEF AssembledIsEvaluated, Acceptable, StatusOfPosition, TypeOK, Clarify
  <2> QED
    BY <2>1, <2>2, <2>3
<1>5. CASE Memory
  <2>1. TypeOK'
    BY <1>0, <1>5 DEF TypeOK, StatusOfPosition, Memory
  <2>2. LoopIsBounded' /\ ReviewBudget'
    BY <1>0, <1>5 DEF LoopIsBounded, ReviewBudget, TypeOK, Memory
  <2>3. AssembledIsEvaluated' /\ StatusOfPosition'
    BY <1>0, <1>5 DEF AssembledIsEvaluated, Acceptable, StatusOfPosition, TypeOK, Memory
  <2> QED
    BY <2>1, <2>2, <2>3
<1>6. CASE KnowledgeRetrieval
  <2>1. TypeOK'
    BY <1>0, <1>6 DEF TypeOK, StatusOfPosition, KnowledgeRetrieval, Trace
  <2>2. LoopIsBounded' /\ ReviewBudget'
    BY <1>0, <1>6 DEF LoopIsBounded, ReviewBudget, TypeOK, KnowledgeRetrieval, Trace
  <2>3. AssembledIsEvaluated' /\ StatusOfPosition'
    BY <1>0, <1>6 DEF AssembledIsEvaluated, Acceptable, StatusOfPosition, TypeOK, KnowledgeRetrieval, Trace
  <2> QED
    BY <2>1, <2>2, <2>3
<1>7. CASE Analysis
  <2>1. TypeOK'
    BY <1>0, <1>7 DEF TypeOK, StatusOfPosition, Analysis, ReviewUnlessSkipped
  <2>2. LoopIsBounded' /\ ReviewBudget'
    BY <1>0, <1>7 DEF LoopIsBounded, ReviewBudget, TypeOK, Analysis, ReviewUnlessSkipped
  <2>3. AssembledIsEvaluated' /\ StatusOfPosition'
    BY <1>0, <1>7 DEF AssembledIsEvaluated, Acceptable, StatusOfPosition, TypeOK, Analysis, ReviewUnlessSkipped
  <2> QED
    BY <2>1, <2>2, <2>3
<1>8. CASE Planning
  <2>1. TypeOK'
    BY <1>0, <1>8 DEF TypeOK, StatusOfPosition, Planning, ReviewUnlessSkipped
  <2>2. LoopIsBounded' /\ ReviewBudget'
    BY <1>0, <1>8 DEF LoopIsBounded, ReviewBudget, TypeOK, Planning, ReviewUnlessSkipped
  <2>3. AssembledIsEvaluated' /\ StatusOfPosition'
    BY <1>0, <1>8 DEF AssembledIsEvaluated, Acceptable, StatusOfPosition, TypeOK, Planning, ReviewUnlessSkipped
  <2> QED
    BY <2>1, <2>2, <2>3
<1>9. CASE Generation
  <2>1. TypeOK'
    BY <1>0, <1>9 DEF TypeOK, StatusOfPosition, Generation
  <2>2. LoopIsBounded' /\ ReviewBudget'
    BY <1>0, <1>9 DEF LoopIsBounded, ReviewBudget, TypeOK, Generation
  <2>3. AssembledIsEvaluated' /\ StatusOfPosition'
    BY <1>0, <1>9 DEF AssembledIsEvaluated, Acceptable, StatusOfPosition, TypeOK, Generation
  <2> QED
    BY <2>1, <2>2, <2>3
<1>10. ASSUME NEW r \in Report \union {NoReport}, Evaluation(r) PROVE IInv'
  <2>1. /\ at = "evaluation" /\ UNCHANGED inputs
        /\ at' = Decide(r, count + 1)
        /\ report' = r /\ count' = count + 1
        /\ trace' = IF trace.state = "open" THEN Trace("open", trace.evaluations + 1) ELSE trace
        /\ UNCHANGED <<status, decision, reviews, runtime, crashes>>
    BY <1>10 DEF Evaluation, Go
  <2>2. /\ at' \in {"final_assembly", "generation", "planning", "analysis_human_review"}
        /\ at' # "final_assembly" => count' < limit
        /\ at' = "final_assembly" => Acceptable(r) \/ count' >= limit
    BY <1>0, <2>1, DecideRoutes
  <2>3. trace.evaluations \in Nat /\ trace.state \in {"none", "open", "stored"}
    BY DEF TypeOK
  <2>4. TypeOK'
    BY <1>0, <2>1, <2>2, <2>3 DEF TypeOK, Trace
  <2>5. LoopIsBounded' /\ ReviewBudget'
    BY <1>0, <2>1, <2>2 DEF LoopIsBounded, ReviewBudget, TypeOK
  <2>6. AssembledIsEvaluated' /\ StatusOfPosition'
    BY <1>0, <2>1, <2>2 DEF AssembledIsEvaluated, Acceptable, StatusOfPosition, TypeOK
  <2> QED
    BY <2>4, <2>5, <2>6
<1>11. CASE LayerRaises
  <2>1. TypeOK'
    BY <1>0, <1>11 DEF TypeOK, StatusOfPosition, LayerRaises
  <2>2. LoopIsBounded' /\ ReviewBudget'
    BY <1>0, <1>11 DEF LoopIsBounded, ReviewBudget, TypeOK, LayerRaises
  <2>3. AssembledIsEvaluated' /\ StatusOfPosition'
    BY <1>0, <1>11 DEF AssembledIsEvaluated, Acceptable, StatusOfPosition, TypeOK, LayerRaises
  <2> QED
    BY <2>1, <2>2, <2>3
<1>12. CASE FinalAssembly
  <2>1. TypeOK'
    BY <1>0, <1>12 DEF TypeOK, StatusOfPosition, FinalAssembly, Trace
  <2>2. LoopIsBounded' /\ ReviewBudget'
    BY <1>0, <1>12 DEF LoopIsBounded, ReviewBudget, TypeOK, FinalAssembly, Trace
  <2>3. AssembledIsEvaluated' /\ StatusOfPosition'
    BY <1>0, <1>12 DEF AssembledIsEvaluated, Acceptable, StatusOfPosition, TypeOK, FinalAssembly, Trace
  <2> QED
    BY <2>1, <2>2, <2>3
<1>13. CASE SaveSession
  <2>1. TypeOK'
    BY <1>0, <1>13 DEF TypeOK, StatusOfPosition, SaveSession
  <2>2. LoopIsBounded' /\ ReviewBudget'
    BY <1>0, <1>13 DEF LoopIsBounded, ReviewBudget, TypeOK, SaveSession
  <2>3. AssembledIsEvaluated' /\ StatusOfPosition'
    BY <1>0, <1>13 DEF AssembledIsEvaluated, Acceptable, StatusOfPosition, TypeOK, SaveSession
  <2> QED
    BY <2>1, <2>2, <2>3
<1>14. ASSUME NEW d \in Decisions, Review(d) PROVE IInv'
  <2>1. TypeOK'
    BY <1>0, <1>14 DEF TypeOK, Review, ReviewedStatus, Decisions
  <2>2. LoopIsBounded' /\ ReviewBudget'
    BY <1>0, <1>14 DEF LoopIsBounded, ReviewBudget, Review
  <2>3. AssembledIsEvaluated' /\ StatusOfPosition'
    BY <1>0, <1>14 DEF AssembledIsEvaluated, Acceptable, StatusOfPosition, Review, ReviewedStatus, Decisions
  <2> QED
    BY <2>1, <2>2, <2>3
<1>15. CASE Crash
  <2>1. TypeOK'
    <3>1. at' \in Nodes \union Stopped
      BY <1>15 DEF TypeOK, Crash, Stopped
    <3>2. crashes' \in Nat
      BY <1>0, <1>15 DEF Crash
    <3>4. runtime' \in BOOLEAN
      BY <1>15 DEF Crash
    <3>3. trace' \in [state : {"none", "open", "stored"}, evaluations : Nat]
      BY <1>15 DEF Crash, NoTrace, Trace
    <3> QED
      BY <1>0, <1>15, <3>1, <3>2, <3>3, <3>4 DEF TypeOK, Crash, inputs
  <2>2. LoopIsBounded' /\ ReviewBudget'
    BY <1>0, <1>15 DEF LoopIsBounded, ReviewBudget, TypeOK, Crash, NoTrace, Trace
  <2>3. AssembledIsEvaluated' /\ StatusOfPosition'
    BY <1>0, <1>15 DEF AssembledIsEvaluated, Acceptable, StatusOfPosition, TypeOK, Crash, NoTrace, Trace
  <2> QED
    BY <2>1, <2>2, <2>3
<1>16. CASE UNCHANGED vars
  <2>1. TypeOK' /\ LoopIsBounded' /\ ReviewBudget'
    BY <1>16 DEF TypeOK, LoopIsBounded, ReviewBudget, Rounds, vars, inputs
  <2>2. AssembledIsEvaluated' /\ StatusOfPosition'
    BY <1>16 DEF AssembledIsEvaluated, Acceptable, StatusOfPosition, vars, inputs
  <2> QED
    BY <2>1, <2>2
<1> QED
  BY <1>1, <1>2, <1>3, <1>4, <1>5, <1>6, <1>7, <1>8, <1>9, <1>10, <1>11, <1>12, <1>13,
     <1>14, <1>15, <1>16 DEF Next, Node

-------------------------------------------------------------------------------
THEOREM Invariance == Spec => []IInv
<1>1. Init => IInv
  BY InitIInv
<1>2. IInv /\ [Next]_vars => IInv'
  BY NextIInv
<1> QED
  BY <1>1, <1>2, PTL DEF Spec

\* The fields of the state and of the process memory keep their types.
THEOREM TypeCorrect == Spec => []TypeOK
<1>1. IInv => TypeOK
  BY DEF IInv
<1> QED
  BY <1>1, Invariance, PTL

(* For every max_iterations, including 0: the loop makes at most that many
   rounds (but one), and asks for at most two reviews per round. *)
THEOREM LoopTerminates == Spec => []LoopIsBounded
<1>1. IInv => LoopIsBounded
  BY DEF IInv
<1> QED
  BY <1>1, Invariance, PTL

(* Whatever the thresholds: no document is assembled that was not evaluated,
   and one below the thresholds only when the iterations are used up. *)
THEOREM NothingUnevaluated == Spec => []AssembledIsEvaluated
<1>1. IInv => AssembledIsEvaluated
  BY DEF IInv
<1> QED
  BY <1>1, Invariance, PTL

-------------------------------------------------------------------------------
LEMMA SkippedStep ==
    ASSUME IInv, SkippedUnlessCritical, [Next]_vars
    PROVE  SkippedUnlessCritical'
<1> USE DEF SkippedUnlessCritical, Reviews
<1>0. /\ limit \in Nat /\ count \in Nat
  BY DEF IInv, TypeOK, GraphAssumption
<1>1. CASE InjectRuntime \/ Memory \/ KnowledgeRetrieval \/ Generation \/ FinalAssembly
           \/ SaveSession \/ Clarify \/ Answer("chat_node") \/ Answer("retrieve_node")
  BY <1>1 DEF InjectRuntime, Memory, KnowledgeRetrieval, Generation, FinalAssembly,
              SaveSession, Clarify, Answer, Go
<1>2. CASE Classify
  BY <1>2 DEF Classify, Go, IntentRoute
<1>3. CASE Analysis \/ Planning
  BY <1>3 DEF Analysis, Planning, Go, ReviewUnlessSkipped, inputs
<1>4. ASSUME NEW r \in Report \union {NoReport}, Evaluation(r) PROVE SkippedUnlessCritical'
  <2>1. at' = Decide(r, count + 1) /\ report' = r /\ count' = count + 1
    BY <1>4 DEF Evaluation, Go
  <2>2. at' \in Reviews => /\ at' = "analysis_human_review"
                           /\ report' # NoReport
                           /\ report'.critical /\ report'.overall < ReplanThreshold
    BY <2>1 DEF Decide
  <2>3. count' > 0
    BY <1>0, <2>1
  <2> QED
    BY <2>2, <2>3
<1>5. CASE LayerRaises
  BY <1>5 DEF LayerRaises
<1>6. ASSUME NEW d \in Decisions, Review(d) PROVE SkippedUnlessCritical'
  BY <1>6 DEF Review, Go
<1>7. CASE Crash
  BY <1>7 DEF Crash, inputs
<1>8. CASE UNCHANGED vars
  BY <1>8 DEF vars, inputs
<1> QED
  BY <1>1, <1>2, <1>3, <1>4, <1>5, <1>6, <1>7, <1>8 DEF Next, Node

(* auto_approve and admin rights skip every review but the one after an
   evaluation with critical issues. *)
THEOREM SkippingReviews == Spec => []SkippedUnlessCritical
<1>1. Init => SkippedUnlessCritical
  BY DEF Init, SkippedUnlessCritical, Reviews
<1>2. IInv /\ SkippedUnlessCritical /\ [Next]_vars => SkippedUnlessCritical'
  BY SkippedStep
<1> QED
  BY <1>1, <1>2, Invariance, PTL DEF Spec

-------------------------------------------------------------------------------
LEMMA RuntimeStep ==
    ASSUME IInv, RuntimeOfPosition, [Next]_vars
    PROVE  RuntimeOfPosition'
<1> USE DEF RuntimeOfPosition, Prelude, Readers, Layers, Reviews
<1>0. /\ limit \in Nat /\ count \in Nat
      /\ trace.evaluations \in Nat /\ trace.state \in {"none", "open", "stored"}
  BY DEF IInv, TypeOK, GraphAssumption
<1>1. CASE InjectRuntime
  BY <1>1 DEF InjectRuntime, Go
<1>2. CASE Classify
  BY <1>2 DEF Classify, Go, IntentRoute
<1>3. CASE Answer("chat_node") \/ Answer("retrieve_node") \/ Clarify
  BY <1>3 DEF Answer, Clarify, Go
<1>4. CASE Memory \/ SaveSession
  BY <1>4 DEF Memory, SaveSession, Go
<1>5. CASE KnowledgeRetrieval
  BY <1>5 DEF KnowledgeRetrieval, Go, Trace, IInv, ReviewBudget
<1>6. CASE Analysis \/ Planning \/ Generation
  BY <1>6 DEF Analysis, Planning, Generation, Go, ReviewUnlessSkipped
<1>7. ASSUME NEW r \in Report \union {NoReport}, Evaluation(r) PROVE RuntimeOfPosition'
  <2>1. /\ at = "evaluation" /\ at' = Decide(r, count + 1) /\ count' = count + 1
        /\ trace' = IF trace.state = "open" THEN Trace("open", trace.evaluations + 1) ELSE trace
        /\ UNCHANGED runtime
    BY <1>7 DEF Evaluation, Go
  <2>2. at' \in {"final_assembly", "generation", "planning", "analysis_human_review"}
    BY <1>0, <2>1, DecideRoutes
  <2> QED
    BY <1>0, <2>1, <2>2 DEF Trace
<1>8. CASE LayerRaises
  BY <1>8 DEF LayerRaises
<1>9. ASSUME NEW d \in Decisions, Review(d) PROVE RuntimeOfPosition'
  BY <1>9 DEF Review, Go
<1>10. CASE FinalAssembly
  BY <1>0, <1>10 DEF FinalAssembly, Go, Trace
<1>11. CASE Crash
  BY <1>11 DEF Crash, NoTrace, Trace
<1>12. CASE UNCHANGED vars
  BY <1>12 DEF vars
<1> QED
  BY <1>1, <1>2, <1>3, <1>4, <1>5, <1>6, <1>7, <1>8, <1>9, <1>10, <1>11, <1>12 DEF Next, Node

(* The readers find their runtime, END leaves nothing in process memory, and no
   evaluation is missing in a stored trace. *)
THEOREM RuntimeIsCleanedUp == Spec => []RuntimeAndTrace
<1>1. Init => RuntimeOfPosition
  BY DEF Init, RuntimeOfPosition, Prelude, Readers, Layers, Reviews, NoTrace, Trace
<1>2. IInv /\ RuntimeOfPosition /\ [Next]_vars => RuntimeOfPosition'
  BY RuntimeStep
<1>3. RuntimeOfPosition => RuntimeAndTrace
  BY DEF RuntimeOfPosition, RuntimeAndTrace
<1> QED
  BY <1>1, <1>2, <1>3, Invariance, PTL DEF Spec

-------------------------------------------------------------------------------
\* What the phase is at each node.
LEMMA PhaseOf ==
    /\ at = "inject_runtime" => Phase = "new"
    /\ at = "end" => Phase = "ended"
    /\ at = "raised" => Phase = "raised"
    /\ at = "lost" => Phase = "lost"
    /\ at \in Reviews => Phase = "interrupted"
    /\ at \in Nodes \ (Reviews \union {"inject_runtime"}) => Phase = "running"
BY Zenon DEF Phase, Reviews, Nodes, Readers, Layers

LEMMA PhaseOfNext ==
    /\ at' = "end" => Phase' = "ended"
    /\ at' = "raised" => Phase' = "raised"
    /\ at' = "lost" => Phase' = "lost"
    /\ at' \in Reviews => Phase' = "interrupted"
    /\ at' \in Nodes \ (Reviews \union {"inject_runtime"}) => Phase' = "running"
BY Zenon DEF Phase, Reviews, Nodes, Readers, Layers

LEMMA GraphStep ==
    ASSUME IInv, [Next]_vars
    PROVE  [Run!Next]_<<Phase, status>>
<1> USE PhaseOf, PhaseOfNext DEF Nodes, Reviews, Readers, Layers, Finals, Run!Finals
<1>0. /\ at \in Nodes \ {"compress_memory", "save_session"} => status \notin Finals
      /\ at = "save_session" => status \in Finals
  BY DEF IInv, StatusOfPosition
<1>1. CASE InjectRuntime
  <2>1. Run!Start
    BY <1>1 DEF InjectRuntime, Go, Run!Start
  <2> QED
    BY <2>1 DEF Run!Next
<1>2. CASE \/ Memory \/ KnowledgeRetrieval \/ Generation \/ FinalAssembly
           \/ Answer("chat_node") \/ Answer("retrieve_node")
  <2>1. Run!Work
    BY <1>2 DEF Memory, KnowledgeRetrieval, Generation, FinalAssembly, Answer, Go, Run!Work
  <2> QED
    BY <2>1 DEF Run!Next
<1>3. CASE Classify
  <2>1. Run!Work
    BY <1>3 DEF Classify, Go, IntentRoute, Run!Work
  <2> QED
    BY <2>1 DEF Run!Next
<1>4. CASE Analysis \/ Planning
  <2>1. Run!Work \/ Run!Interrupt
    BY <1>0, <1>4 DEF Analysis, Planning, Go, ReviewUnlessSkipped, Run!Work, Run!Interrupt
  <2> QED
    BY <2>1 DEF Run!Next
<1>5. ASSUME NEW r \in Report \union {NoReport}, Evaluation(r)
      PROVE  Run!Work \/ Run!Interrupt
  <2>1. at = "evaluation" /\ at' = Decide(r, count + 1) /\ UNCHANGED status
    BY <1>5 DEF Evaluation, Go
  <2>2. limit \in Nat /\ count + 1 \in Nat
    BY DEF IInv, TypeOK, GraphAssumption
  <2>3. at' \in {"final_assembly", "generation", "planning", "analysis_human_review"}
    BY <2>1, <2>2, DecideRoutes
  <2> QED
    BY <1>0, <2>1, <2>3 DEF Run!Work, Run!Interrupt
<1>6. CASE LayerRaises
  <2>1. Run!Raise
    BY <1>0, <1>6 DEF LayerRaises, Run!Raise
  <2> QED
    BY <2>1 DEF Run!Next
<1>7. ASSUME NEW d \in Decisions, Review(d)
      PROVE  Run!Answer(d)
  BY <1>7 DEF Review, Go, ReviewedStatus, Run!Answer, Run!ReviewedStatus
<1>8. CASE Clarify \/ SaveSession
  <2>1. Run!End
    BY <1>0, <1>8 DEF Clarify, SaveSession, Go, Run!End
  <2> QED
    BY <2>1 DEF Run!Next
<1>9. CASE Crash
  <2>1. at \in Nodes
    BY <1>9 DEF Crash, Stopped, IInv, TypeOK
  <2>2. CASE at' = "lost"
    <3>1. Run!Lose
      BY <1>9, <2>1, <2>2 DEF Crash, Run!Lose
    <3> QED
      BY <3>1 DEF Run!Next
  <2>3. CASE at \in Reviews /\ UNCHANGED at
    BY <1>9, <2>3 DEF Crash
  <2> QED
    BY <1>9, <2>2, <2>3 DEF Crash
<1>10. CASE UNCHANGED vars
  BY <1>10 DEF vars, Phase
<1> QED
  BY <1>1, <1>2, <1>3, <1>4, <1>5, <1>6, <1>7, <1>8, <1>9, <1>10
     DEF Next, Node, Run!Next, Decisions, Run!Decisions

(* The main graph is a GraphRun: what the task manager concludes from the last
   chunk of astream() is what the graph did. *)
THEOREM Refinement == Spec => ImplementsGraphRun
<1>1. Init => Run!Init
  BY PhaseOf DEF Init, Run!Init
<1>2. IInv /\ [Next]_vars => [Run!Next]_<<Phase, status>>
  BY GraphStep
<1> QED
  BY <1>1, <1>2, Invariance, PTL DEF Spec, ImplementsGraphRun, Run!Spec
===============================================================================
