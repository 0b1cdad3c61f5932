------------------------- MODULE CircuitBreakerProofs -------------------------
(***************************************************************************)
(* The safety properties of CircuitBreaker.tla for every number of callers,*)
(* threshold, recovery time and half-open limit.                           *)
(***************************************************************************)
EXTENDS CircuitBreaker, FiniteSetTheorems, TLAPS

\* The trial set belongs to a HALF_OPEN window and each of its members holds a slot.
TrialsHoldSlots == /\ br.state # "half_open" => trial = {}
                   /\ br.state = "half_open" => Cardinality(trial) <= br.trials

IInv == TypeOK /\ ClosedIffBelowThreshold /\ TrialsHoldSlots

-------------------------------------------------------------------------------
(* Each critical section of the code maps breakers to breakers. *)
LEMMA OpsType ==
    ASSUME NEW b \in Breaker
    PROVE  /\ NewBreaker \in Breaker
           /\ Probed(b) \in Breaker
           /\ Admits(b) => Admitted(b) \in Breaker
           /\ OnSuccess(b) \in Breaker
           /\ OnFailure(b) \in Breaker
           /\ Cleared(b) \in Breaker
           /\ Aged(b) \in Breaker
<1> USE BreakerAssumption DEF BreakerAssumption, Breaker, CircuitState
<1>1. NewBreaker \in Breaker
  BY DEF NewBreaker
<1>2. Probed(b) \in Breaker
  BY DEF Probed, Expired
<1>3. ASSUME Admits(b) PROVE Admitted(b) \in Breaker
  <2>1. CASE Probed(b).state = "half_open"
    <3>1. Probed(b).trials < HalfOpenMax
      BY <1>3, <2>1 DEF Admits
    <3> QED
      BY <1>2, <2>1, <3>1 DEF Admitted
  <2>2. CASE Probed(b).state # "half_open"
    BY <2>2 DEF Admitted
  <2> QED
    BY <2>1, <2>2
<1>4. OnSuccess(b) \in Breaker /\ Cleared(b) \in Breaker
  BY DEF OnSuccess, Cleared
<1>5. OnFailure(b) \in Breaker
  BY DEF OnFailure, Tripped, OneMore
<1>6. Aged(b) \in Breaker
  BY DEF Aged
<1> QED
  BY <1>1, <1>2, <1>3, <1>4, <1>5, <1>6

(* A failure opens the breaker exactly when it brings the count to Threshold,
   and it always does when the count was there already. *)
LEMMA OnFailureThreshold ==
    ASSUME NEW b \in Breaker, b.state = "closed" <=> b.failures < Threshold
    PROVE  /\ OnFailure(b).state = "closed" <=> OnFailure(b).failures < Threshold
           /\ b.state # "closed" => OnFailure(b).state = "open"
           /\ OnFailure(b).since = 0
  BY BreakerAssumption DEF BreakerAssumption, Breaker, CircuitState, OnFailure, Tripped, OneMore

-------------------------------------------------------------------------------
LEMMA InitIInv == Init => IInv
<1> SUFFICES ASSUME Init PROVE IInv
  OBVIOUS
<1> USE BreakerAssumption DEF BreakerAssumption
<1>1. NewBreaker \in Breaker
  BY DEF NewBreaker, Breaker, CircuitState
<1>2. NewBreaker.state = "closed" /\ NewBreaker.failures = 0
  BY DEF NewBreaker
<1>3. TypeOK
  BY <1>1 DEF Init, TypeOK
<1>4. ClosedIffBelowThreshold /\ TrialsHoldSlots
  BY <1>2 DEF Init, ClosedIffBelowThreshold, TrialsHoldSlots
<1> QED
  BY <1>3, <1>4 DEF IInv

LEMMA CallIInv ==
    ASSUME IInv, NEW c \in Callers, Call(c)
    PROVE  IInv'
<1> USE BreakerAssumption DEF BreakerAssumption, IInv, TypeOK
<1>1. br' = Admitted(br) /\ Admits(br) /\ Probed(br) \in Breaker /\ br' \in Breaker
  BY OpsType DEF Call
<1>2. trial \subseteq Callers /\ IsFiniteSet(trial)
  BY CallersAssumption, FS_Subset DEF CallersAssumption
<1>3. CASE Expired(br)
  <2>1. br'.state = "half_open" /\ br'.trials = 1 /\ br'.failures = br.failures
    BY <1>1, <1>3 DEF Admitted, Probed, Expired, Breaker
  <2>2. trial' = {c}
    BY <1>3, <2>1 DEF Call
  <2>3. Cardinality({c}) = 1
    BY FS_Singleton
  <2> QED
    BY <1>1, <1>3, <2>1, <2>2, <2>3
    DEF Call, ClosedIffBelowThreshold, TrialsHoldSlots, Expired
<1>4. CASE ~Expired(br) /\ br.state = "half_open"
  <2>1. br'.state = "half_open" /\ br'.trials = br.trials + 1 /\ br'.failures = br.failures
    BY <1>1, <1>4 DEF Admitted, Probed, Breaker
  <2>2. trial' = trial \union {c}
    BY <1>4, <2>1 DEF Call
  <2>3. Cardinality(trial') <= Cardinality(trial) + 1
    <3>1. Cardinality(trial) \in Nat
      BY <1>2, FS_CardinalityType
    <3>2. Cardinality(trial') = IF c \in trial THEN Cardinality(trial) ELSE Cardinality(trial) + 1
      BY <1>2, <2>2, FS_AddElement
    <3> QED
      BY <3>1, <3>2
  <2>4. Cardinality(trial') <= br'.trials
    <3>1. Cardinality(trial) \in Nat /\ br.trials \in Nat
      BY <1>2, FS_CardinalityType DEF Breaker
    <3>2. IsFiniteSet(trial')
      BY <1>2, <2>2, FS_AddElement
    <3>3. Cardinality(trial') \in Nat
      BY <3>2, FS_CardinalityType
    <3> QED
      BY <1>4, <2>1, <2>3, <3>1, <3>3 DEF TrialsHoldSlots
  <2> QED
    BY <1>1, <1>4, <2>1, <2>2, <2>4 DEF Call, ClosedIffBelowThreshold, TrialsHoldSlots
<1>5. CASE ~Expired(br) /\ br.state # "half_open"
  <2>1. br' = br
    BY <1>1, <1>5 DEF Admitted, Probed
  <2> QED
    BY <1>5, <2>1 DEF Call, ClosedIffBelowThreshold, TrialsHoldSlots
<1> QED
  BY <1>3, <1>4, <1>5

LEMMA FailIInv ==
    ASSUME IInv, NEW c \in Callers, Fail(c)
    PROVE  IInv'
<1> USE DEF IInv
<1>1. br \in Breaker /\ br' = OnFailure(br) /\ br' \in Breaker
  BY OpsType DEF Fail, TypeOK
<1>2. ClosedIffBelowThreshold'
  BY <1>1, OnFailureThreshold DEF ClosedIffBelowThreshold
<1>3. br'.state # "half_open"
  BY <1>1, BreakerAssumption
  DEF BreakerAssumption, OnFailure, Tripped, OneMore, ClosedIffBelowThreshold, Breaker, CircuitState
<1> QED
  BY <1>1, <1>2, <1>3 DEF Fail, Leave, TypeOK, TrialsHoldSlots

LEMMA StepIInv == IInv /\ [Next]_vars => IInv'
<1> SUFFICES ASSUME IInv, [Next]_vars PROVE IInv'
  OBVIOUS
<1>1. ASSUME NEW c \in Callers, Call(c) PROVE IInv'
  BY <1>1, CallIInv
<1>2. ASSUME NEW c \in Callers, Succeed(c) PROVE IInv'
  BY <1>2, OpsType, BreakerAssumption
  DEF BreakerAssumption, Succeed, Leave, OnSuccess, Cleared, IInv, TypeOK, ClosedIffBelowThreshold, TrialsHoldSlots, Breaker
<1>3. ASSUME NEW c \in Callers, Fail(c) PROVE IInv'
  BY <1>3, FailIInv
<1>4. ASSUME NEW c \in Callers, Cancel(c) PROVE IInv'
  <2>1. IsFiniteSet(trial)
    BY CallersAssumption, FS_Subset DEF CallersAssumption, IInv, TypeOK
  <2>2. trial' \subseteq trial /\ br' = br
    BY <1>4 DEF Cancel
  <2>3. Cardinality(trial') <= Cardinality(trial) /\ IsFiniteSet(trial')
    BY <2>1, <2>2, FS_Subset
  <2>4. Cardinality(trial') \in Nat /\ Cardinality(trial) \in Nat
    BY <2>1, <2>3, FS_CardinalityType
  <2>5. br.trials \in Nat
    BY BreakerAssumption DEF BreakerAssumption, IInv, TypeOK, Breaker
  <2>6. TypeOK'
    BY <1>4 DEF Cancel, Leave, IInv, TypeOK
  <2>7. TrialsHoldSlots'
    BY <2>2, <2>3, <2>4, <2>5 DEF IInv, TrialsHoldSlots
  <2> QED
    BY <2>2, <2>6, <2>7 DEF IInv, ClosedIffBelowThreshold
<1>5. CASE Reset
  BY <1>5, OpsType, BreakerAssumption
  DEF BreakerAssumption, Reset, Cleared, IInv, TypeOK, ClosedIffBelowThreshold, TrialsHoldSlots, Breaker
<1>6. CASE Tick
  <2>1. br \in Breaker /\ br' \in Breaker
    BY <1>6, OpsType DEF Tick, IInv, TypeOK
  <2>2. br'.state = br.state /\ br'.failures = br.failures /\ br'.trials = br.trials
    BY <1>6, <2>1 DEF Tick, Aged, Breaker
  <2> QED
    BY <1>6, <2>1, <2>2 DEF Tick, IInv, TypeOK, ClosedIffBelowThreshold, TrialsHoldSlots
<1>7. CASE Heal
  BY <1>7 DEF Heal, IInv, TypeOK, ClosedIffBelowThreshold, TrialsHoldSlots
<1>8. CASE UNCHANGED vars
  BY <1>8 DEF vars, IInv, TypeOK, ClosedIffBelowThreshold, TrialsHoldSlots
<1> QED
  BY <1>1, <1>2, <1>3, <1>4, <1>5, <1>6, <1>7, <1>8 DEF Next

LEMMA Invariance == Spec => []IInv
<1>1. Init => IInv
  BY InitIInv
<1>2. IInv /\ [Next]_vars => IInv'
  BY StepIInv
<1> QED
  BY <1>1, <1>2, PTL DEF Spec

-------------------------------------------------------------------------------
(* Every reachable breaker is well formed. *)
THEOREM TypeCorrect == Spec => []TypeOK
<1>1. IInv => TypeOK
  BY DEF IInv
<1> QED
  BY <1>1, Invariance, PTL

(* failure_count and the state never disagree about the threshold. *)
THEOREM StateMatchesCount == Spec => []ClosedIffBelowThreshold
<1>1. IInv => ClosedIffBelowThreshold
  BY DEF IInv
<1> QED
  BY <1>1, Invariance, PTL

(* A HALF_OPEN window never lets more than half_open_max_requests callers try. *)
THEOREM HalfOpenLimit == Spec => []TrialBound
<1>1. IInv => TrialBound
  BY BreakerAssumption DEF BreakerAssumption, IInv, TypeOK, TrialsHoldSlots, TrialBound, Breaker
<1> QED
  BY <1>1, Invariance, PTL

(* A failure reported in HALF_OPEN reopens the breaker, although _on_failure
   never looks at the state: the count never fell below the threshold. *)
THEOREM FailedTrialReopens == Spec => HalfOpenFailureReopens
<1> DEFINE Reopens == \A c \in Callers :
                        br.state = "half_open" /\ Fail(c) => br'.state = "open" /\ br'.since = 0
<1>1. IInv /\ [Next]_vars => [Reopens]_vars
  <2> SUFFICES ASSUME IInv, NEW c \in Callers, br.state = "half_open", Fail(c)
               PROVE  br'.state = "open" /\ br'.since = 0
    OBVIOUS
  <2> QED
    BY OnFailureThreshold DEF IInv, TypeOK, ClosedIffBelowThreshold, Fail
<1> QED
  BY <1>1, Invariance, PTL DEF Spec, HalfOpenFailureReopens
===============================================================================
