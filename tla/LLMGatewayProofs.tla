--------------------------- MODULE LLMGatewayProofs ---------------------------
(***************************************************************************)
(* What a request of the gateway reserves and pays, for any number of      *)
(* requests, any routes, limits and breakers.                              *)
(***************************************************************************)
EXTENDS LLMGateway, SumTheorems

\* The part of the state a request has for itself.
RequestTypes ==
    /\ pc \in [Requests -> Underway \union Returned \union Aborted]
    /\ kind \in [Requests -> {"complete", "stream"}]
    /\ usage \in [Requests -> {"none", "held", "zero", "used"}]
    /\ paid \in [Requests -> Nat]
    /\ upset \subseteq Requests

\* What is reserved for r: nothing before reserve(), what it used when an
\* answer is accounted for.
Reserved(r) ==
    /\ pc[r] \in {"new", "guarded", "blocked", "limited"} => usage[r] = "none"
    /\ pc[r] \in {"hit", "failed"} => usage[r] = "zero"
    /\ pc[r] \in {"counted", "done"} => usage[r] = "used"

\* What r has paid: only an exception after a bill brings a stream back to the
\* failover loop with something paid.
Charged(r) ==
    /\ pc[r] \in {"billed", "counted", "done"} => paid[r] >= 1
    /\ pc[r] = "counted" => kind[r] = "stream"
    /\ r \notin upset =>
          paid[r] <= 1 /\ (paid[r] = 1 => pc[r] \in {"billed", "counted", "done", "cancelled"})
    /\ kind[r] = "complete" =>
          paid[r] <= 1 /\ (paid[r] = 1 => pc[r] \in {"billed", "done", "raised", "cancelled"})

GInv == RequestTypes /\ \A r \in Requests : Reserved(r) /\ Charged(r)

-------------------------------------------------------------------------------
LEMMA InitGInv == Init => GInv
  BY DEF Init, GInv, RequestTypes, Underway, Reserved, Charged

(* A request's step that keeps the others' part of the state. *)
LEMMA OneRequest ==
    ASSUME GInv, NEW r \in Requests,
           NEW p \in Underway \union Returned \union Aborted,
           NEW u \in {"none", "held", "zero", "used"}, NEW n \in Nat,
           pc' = [pc EXCEPT ![r] = p],
           usage' = [usage EXCEPT ![r] = u],
           paid' = [paid EXCEPT ![r] = n],
           kind' = kind,
           upset' \in {upset, upset \union {r}},
           Reserved(r)', Charged(r)'
    PROVE  GInv'
<1>1. RequestTypes'
  BY DEF GInv, RequestTypes
<1>2. ASSUME NEW q \in Requests, q # r
      PROVE  Reserved(q)' /\ Charged(q)'
  <2>1. /\ pc'[q] = pc[q] /\ usage'[q] = usage[q] /\ paid'[q] = paid[q]
        /\ q \in upset' <=> q \in upset
    BY <1>2 DEF GInv, RequestTypes
  <2> QED
    BY <2>1 DEF GInv, Reserved, Charged
<1> QED
  BY <1>1, <1>2 DEF GInv

\* The rest of a request's step is the same for all actions.
LEMMA NextTargetGInv ==
    ASSUME GInv, NEW r \in Requests, NextTarget(r),
           UNCHANGED <<kind, paid>>, upset' \in {upset, upset \union {r}},
           paid[r] = 0 \/ (r \in upset' /\ kind[r] = "stream")
    PROVE  GInv'
<1>1. PICK p \in {"attempt", "failed"}, u \in {"none", "held", "zero", "used"} :
         /\ pc' = [pc EXCEPT ![r] = p]
         /\ usage' = [usage EXCEPT ![r] = u]
         /\ p = "failed" => u = "zero"
  <2>1. usage = [usage EXCEPT ![r] = usage[r]] /\ usage[r] \in {"none", "held", "zero", "used"}
    BY DEF GInv, RequestTypes
  <2>2. CASE at[r] < Len(chain[r])
    BY <2>1, <2>2 DEF NextTarget
  <2>3. CASE ~ (at[r] < Len(chain[r]))
    BY <2>1, <2>3 DEF NextTarget
  <2> QED
    BY <2>2, <2>3
<1>2. paid' = [paid EXCEPT ![r] = paid[r]] /\ paid[r] \in Nat
  BY DEF GInv, RequestTypes
<1>3. pc'[r] = p /\ usage'[r] = u /\ paid'[r] = paid[r]
  BY <1>1, <1>2 DEF GInv, RequestTypes
<1>4. Reserved(r)' /\ Charged(r)'
  BY <1>1, <1>2, <1>3 DEF Reserved, Charged
<1>5. p \in Underway \union Returned \union Aborted
  BY DEF Underway, Returned
<1> QED
  BY <1>1, <1>2, <1>4, <1>5, OneRequest

LEMMA StepGInv == \A r \in Requests : GInv /\ (Step(r) \/ Cancel(r)) => GInv'
<1> SUFFICES ASSUME NEW r \in Requests, GInv, Step(r) \/ Cancel(r) PROVE GInv'
  OBVIOUS
<1>0. /\ RequestTypes /\ Reserved(r) /\ Charged(r)
      /\ pc[r] \in Underway \union Returned \union Aborted
      /\ usage[r] \in {"none", "held", "zero", "used"} /\ paid[r] \in Nat
      /\ usage = [usage EXCEPT ![r] = usage[r]] /\ paid = [paid EXCEPT ![r] = paid[r]]
      /\ kind[r] \in {"complete", "stream"}
  BY DEF GInv, RequestTypes
<1>1. ASSUME NEW p \in Underway \union Returned \union Aborted,
             NEW u \in {"none", "held", "zero", "used"}, NEW n \in Nat,
             pc' = [pc EXCEPT ![r] = p], usage' = [usage EXCEPT ![r] = u],
             paid' = [paid EXCEPT ![r] = n]
      PROVE  pc'[r] = p /\ usage'[r] = u /\ paid'[r] = n
  BY <1>0, <1>1 DEF RequestTypes
<1>2. CASE GuardInput(r)
  <2>1. PICK p \in {"blocked", "guarded"} : pc' = [pc EXCEPT ![r] = p]
    BY <1>2 DEF GuardInput, Guard
  <2>2. pc[r] = "new" /\ UNCHANGED <<kind, usage, paid, upset>>
    BY <1>2 DEF GuardInput, Guard
  <2>3. p \in Underway \union Returned \union Aborted
    BY DEF Underway, Returned
  <2>4. pc'[r] = p /\ usage'[r] = usage[r] /\ paid'[r] = paid[r]
    BY <1>0, <2>1, <2>2 DEF RequestTypes
  <2>5. Reserved(r)' /\ Charged(r)'
    BY <1>0, <2>2, <2>4 DEF Reserved, Charged
  <2> QED
    BY <1>0, <2>1, <2>2, <2>3, <2>5, OneRequest
<1>3. CASE Reserve(r)
  <2>1. PICK p \in {"limited", "reserved"}, u \in {"none", "held"} :
           /\ pc' = [pc EXCEPT ![r] = p] /\ usage' = [usage EXCEPT ![r] = u]
           /\ p = "limited" => u = "none"
    <3>1. usage[r] = "none"
      BY <1>0, <1>3 DEF Reserve, Reserved
    <3> QED
      BY <1>0, <1>3, <3>1 DEF Reserve
  <2>2. pc[r] = "guarded" /\ UNCHANGED <<kind, paid, upset>>
    BY <1>3 DEF Reserve
  <2>3. p \in Underway \union Returned \union Aborted
    BY DEF Underway, Returned
  <2>4. pc'[r] = p /\ usage'[r] = u /\ paid'[r] = paid[r]
    BY <1>0, <2>1, <2>2 DEF RequestTypes
  <2>5. Reserved(r)' /\ Charged(r)'
    BY <1>0, <2>1, <2>2, <2>4 DEF Reserved, Charged
  <2> QED
    BY <1>0, <2>1, <2>2, <2>3, <2>5, OneRequest
<1>4. CASE BudgetCheck(r) \/ Call(r) \/ Answer(r)
  <2>1. PICK p \in {"budgeted", "calling", "answered"} :
           /\ pc' = [pc EXCEPT ![r] = p]
           /\ pc[r] \in {"reserved", "attempt", "calling"}
    BY <1>4 DEF BudgetCheck, Call, Answer
  <2>2. UNCHANGED <<kind, usage, paid, upset>>
    BY <1>4 DEF BudgetCheck, Call, Answer
  <2>3. p \in Underway \union Returned \union Aborted
    BY DEF Underway
  <2>4. pc'[r] = p /\ usage'[r] = usage[r] /\ paid'[r] = paid[r]
    BY <1>0, <2>1, <2>2 DEF RequestTypes
  <2>5. Reserved(r)' /\ Charged(r)'
    BY <1>0, <2>1, <2>2, <2>4 DEF Reserved, Charged
  <2> QED
    BY <1>0, <2>1, <2>2, <2>3, <2>5, OneRequest
<1>5. CASE CacheHit(r) \/ Configure(r)
  <2>1. PICK p \in {"hit", "attempt", "failed"}, u \in {"none", "held", "zero", "used"} :
           /\ pc' = [pc EXCEPT ![r] = p] /\ usage' = [usage EXCEPT ![r] = u]
           /\ p # "attempt" => u = "zero"
    <3>1. CASE CacheHit(r)
      BY <3>1 DEF CacheHit
    <3>2. CASE Configure(r)
      <4> DEFINE available == Available(chain[r])
      <4>1. CASE available # <<>>
        BY <1>0, <3>2, <4>1 DEF Configure
      <4>2. CASE available = <<>>
        BY <1>0, <3>2, <4>2 DEF Configure
      <4> QED
        BY <4>1, <4>2
    <3> QED
      BY <1>5, <3>1, <3>2
  <2>2. pc[r] = "budgeted" /\ UNCHANGED <<kind, paid, upset>>
    BY <1>5 DEF CacheHit, Configure
  <2>3. p \in Underway \union Returned \union Aborted
    BY DEF Underway, Returned
  <2>4. pc'[r] = p /\ usage'[r] = u /\ paid'[r] = paid[r]
    BY <1>0, <2>1, <2>2 DEF RequestTypes
  <2>5. Reserved(r)' /\ Charged(r)'
    BY <1>0, <2>1, <2>2, <2>4 DEF Reserved, Charged
  <2> QED
    BY <1>0, <2>1, <2>2, <2>3, <2>5, OneRequest
<1>6. CASE Refused(r) \/ Fail(r)
  <2>1. pc[r] \in {"attempt", "calling"} /\ NextTarget(r) /\ UNCHANGED <<kind, paid, upset>>
    BY <1>6 DEF Refused, Fail
  <2>2. paid[r] = 0 \/ (r \in upset' /\ kind[r] = "stream")
    BY <1>0, <2>1 DEF Charged
  <2> QED
    BY <2>1, <2>2, NextTargetGInv
<1>7. CASE Bill(r)
  <2>1. /\ pc[r] = "answered" /\ pc' = [pc EXCEPT ![r] = "billed"]
        /\ paid' = [paid EXCEPT ![r] = paid[r] + 1] /\ UNCHANGED <<kind, usage, upset>>
    BY <1>7 DEF Bill
  <2>2. "billed" \in Underway \union Returned \union Aborted /\ paid[r] + 1 \in Nat
    BY <1>0 DEF Underway
  <2>3. pc'[r] = "billed" /\ usage'[r] = usage[r] /\ paid'[r] = paid[r] + 1
    BY <1>0, <2>1 DEF RequestTypes
  <2>4. Reserved(r)' /\ Charged(r)'
    BY <1>0, <2>1, <2>3 DEF Reserved, Charged
  <2> QED
    BY <1>0, <2>1, <2>2, <2>4, OneRequest
<1>8. CASE Account(r)
  <2>1. PICK p \in {"done", "counted"} :
           /\ pc' = [pc EXCEPT ![r] = p]
           /\ p = "counted" => kind[r] = "stream"
           /\ p = "done" => kind[r] = "complete"
    BY <1>0, <1>8 DEF Account
  <2>2. /\ pc[r] = "billed" /\ usage' = [usage EXCEPT ![r] = "used"]
        /\ UNCHANGED <<kind, paid, upset>>
    BY <1>8 DEF Account
  <2>3. p \in Underway \union Returned \union Aborted
    BY DEF Underway, Returned
  <2>4. pc'[r] = p /\ usage'[r] = "used" /\ paid'[r] = paid[r]
    BY <1>0, <2>1, <2>2 DEF RequestTypes
  <2>5. Reserved(r)' /\ Charged(r)'
    BY <1>0, <2>1, <2>2, <2>4 DEF Reserved, Charged
  <2> QED
    BY <1>0, <2>1, <2>2, <2>3, <2>5, OneRequest
<1>9. CASE Release(r)
  <2>1. /\ pc[r] = "counted" /\ pc' = [pc EXCEPT ![r] = "done"]
        /\ UNCHANGED <<kind, usage, paid, upset>>
    BY <1>9 DEF Release
  <2>2. "done" \in Underway \union Returned \union Aborted
    BY DEF Returned
  <2>3. pc'[r] = "done" /\ usage'[r] = usage[r] /\ paid'[r] = paid[r]
    BY <1>0, <2>1 DEF RequestTypes
  <2>4. Reserved(r)' /\ Charged(r)'
    BY <1>0, <2>1, <2>3 DEF Reserved, Charged
  <2> QED
    BY <1>0, <2>1, <2>2, <2>4, OneRequest
<1>10. CASE RaiseAfterwards(r)
  <2>1. /\ pc[r] \in {"answered", "billed", "counted"} /\ UNCHANGED <<kind, paid>>
        /\ upset' = IF pc[r] # "answered" THEN upset \union {r} ELSE upset
    BY <1>10 DEF RaiseAfterwards
  <2>2. CASE kind[r] = "stream"
    <3>1. NextTarget(r)
      BY <1>10, <2>2 DEF RaiseAfterwards
    <3>2. paid[r] = 0 \/ r \in upset'
      BY <1>0, <2>1 DEF Charged
    <3> QED
      BY <2>1, <2>2, <3>1, <3>2, NextTargetGInv
  <2>3. CASE kind[r] = "complete"
    <3>1. pc' = [pc EXCEPT ![r] = "raised"] /\ UNCHANGED usage
      BY <1>10, <2>3 DEF RaiseAfterwards
    <3>2. "raised" \in Underway \union Returned \union Aborted
      BY DEF Aborted
    <3>3. pc'[r] = "raised" /\ usage'[r] = usage[r] /\ paid'[r] = paid[r]
      BY <1>0, <2>1, <3>1 DEF RequestTypes
    <3>4. Reserved(r)' /\ Charged(r)'
      BY <1>0, <2>1, <3>3 DEF Reserved, Charged
    <3> QED
      BY <1>0, <2>1, <3>1, <3>2, <3>4, OneRequest
  <2> QED
    BY <1>0, <2>2, <2>3
<1>11. CASE Cancel(r)
  <2>1. /\ pc[r] \in Underway \ {"new"} /\ pc' = [pc EXCEPT ![r] = "cancelled"]
        /\ UNCHANGED <<kind, usage, paid, upset>>
    BY <1>11 DEF Cancel
  <2>2. "cancelled" \in Underway \union Returned \union Aborted
    BY DEF Aborted
  <2>3. pc'[r] = "cancelled" /\ usage'[r] = usage[r] /\ paid'[r] = paid[r]
    BY <1>0, <2>1 DEF RequestTypes
  <2>4. Reserved(r)' /\ Charged(r)'
    BY <1>0, <2>1, <2>3 DEF Reserved, Charged
  <2> QED
    BY <1>0, <2>1, <2>2, <2>4, OneRequest
<1> QED
  BY <1>2, <1>3, <1>4, <1>5, <1>6, <1>7, <1>8, <1>9, <1>10, <1>11 DEF Step

LEMMA NextGInv == GInv /\ [Next]_vars => GInv'
<1> SUFFICES ASSUME GInv, [Next]_vars PROVE GInv'
  OBVIOUS
<1>1. CASE UNCHANGED reqvars
  BY <1>1 DEF reqvars, GInv, RequestTypes, Reserved, Charged
<1>2. CASE \E r \in Requests : Step(r) \/ Cancel(r)
  BY <1>2, StepGInv
<1>3. Tick \/ UNCHANGED vars => UNCHANGED reqvars
  BY DEF Tick, vars
<1> QED
  BY <1>1, <1>2, <1>3 DEF Next

LEMMA GInvariance == Spec => []GInv
  BY InitGInv, NextGInv, PTL DEF Spec

(* No outcome a caller is given leaves estimated tokens reserved           *)
(* (llm_gateway/__init__.py, the return paths of complete() and            *)
(* stream_complete()).                                                     *)
THEOREM ReturnsSettle == Spec => []ReturnedIsSettled
<1>1. GInv => ReturnedIsSettled
  BY DEF GInv, Reserved, ReturnedIsSettled
<1> QED
  BY <1>1, GInvariance, PTL

(* An answer is paid once and charged, unless an exception after the bill  *)
(* brings a stream to another target; complete() never pays twice          *)
(* (llm_gateway/__init__.py).                                              *)
THEOREM AnswersArePaidOnce == Spec => []PaidOnce
<1>1. GInv => PaidOnce
  <2> SUFFICES ASSUME GInv, NEW r \in Requests
               PROVE  /\ pc[r] = "done" => paid[r] >= 1
                      /\ paid[r] >= 1 /\ pc[r] \in Returned /\ r \notin upset =>
                            paid[r] = 1 /\ usage[r] = "used"
                      /\ kind[r] = "complete" => paid[r] <= 1
    BY DEF PaidOnce
  <2>1. Reserved(r) /\ Charged(r) /\ paid[r] \in Nat
    BY DEF GInv, RequestTypes
  <2> QED
    BY <2>1 DEF Reserved, Charged, Returned
<1> QED
  BY <1>1, GInvariance, PTL

-------------------------------------------------------------------------------
(* The breakers of the providers. *)

CallTypes == /\ breaker \in [Providers -> Breaker]
             /\ trial \in [Providers -> SUBSET Requests]
             /\ pc \in [Requests -> Underway \union Returned \union Aborted]

\* Every request has its own chain and its own place in it.
Indexed == DOMAIN chain = Requests /\ DOMAIN at = Requests

(* The critical sections keep a breaker a breaker. *)
LEMMA BreakerTypes ==
    ASSUME NEW b \in Breaker
    PROVE  /\ Admits(b) => Admitted(b) \in Breaker
           /\ OnFailure(b) \in Breaker /\ OnSuccess(b) \in Breaker /\ Aged(b) \in Breaker
  BY BreakerAssumption DEF BreakerAssumption, Breaker, CircuitState, Admits, Admitted, Probed,
       Expired, OnFailure, OnSuccess, Cleared, OneMore, Tripped, Aged

LEMMA InitCalls == Init => CallTypes /\ Indexed
  BY BreakerAssumption DEF BreakerAssumption, Init, CallTypes, Indexed, NewBreaker, Breaker,
       CircuitState, Underway

\* Who is being answered by p.
Calling(p) == { r \in Requests : pc[r] = "calling" /\ Provider(r) = p }

(* A request that is not calling, and does not start to, stutters at every
   breaker. *)
LEMMA NotCalling ==
    ASSUME CallTypes, NEW r \in Requests, pc[r] # "calling",
           NEW s \in Underway \union Returned \union Aborted, s # "calling",
           pc' = [pc EXCEPT ![r] = s],
           \A q \in Requests \ {r} : chain'[q] = chain[q] /\ at'[q] = at[q],
           UNCHANGED <<breaker, trial>>
    PROVE  CallTypes' /\ \A p \in Providers : Calling(p)' = Calling(p)
  BY DEF CallTypes, Calling, Provider, Target

(* What a step of r means to the breaker of p: r is admitted, succeeds, fails or
   is cancelled, or nothing happens to it. *)
LEMMA BreakerStutters ==
    ASSUME NEW p \in Providers, breaker'[p] = breaker[p], trial'[p] = trial[p],
           Calling(p)' = Calling(p)
    PROVE  UNCHANGED CB(p)!vars
  BY DEF CB!vars, Calling

LEMMA CallGuards ==
    ASSUME CallTypes, NEW r \in Requests, Call(r)
    PROVE  CallTypes' /\ \A p \in Providers : CB(p)!Next \/ UNCHANGED CB(p)!vars
<1> DEFINE b == breaker[Provider(r)]
<1>1. /\ pc[r] = "attempt" /\ Admits(b)
      /\ pc' = [pc EXCEPT ![r] = "calling"]
      /\ breaker' = [breaker EXCEPT ![Provider(r)] = Admitted(b)]
      /\ trial' = [trial EXCEPT ![Provider(r)] =
                      IF Admitted(b).state # "half_open" THEN {}
                      ELSE (IF Expired(b) THEN {} ELSE @) \union {r}]
      /\ UNCHANGED <<chain, at>>
  BY DEF Call
<1>2. \A p \in Providers \ {Provider(r)} : breaker'[p] = breaker[p] /\ trial'[p] = trial[p]
  BY <1>1 DEF CallTypes
<1>3. \A q \in Requests : Provider(q)' = Provider(q)
  BY <1>1 DEF Provider, Target
<1>4. \A q \in Requests : pc'[q] = IF q = r THEN "calling" ELSE pc[q]
  BY <1>1 DEF CallTypes
<1>5. \A p \in Providers : Calling(p)' = IF p = Provider(r) THEN Calling(p) \union {r} ELSE Calling(p)
  BY <1>1, <1>3, <1>4 DEF Calling
<1>6. CallTypes'
  <2>1. Provider(r) \in Providers => Admitted(b) \in Breaker
    BY <1>1, BreakerTypes DEF CallTypes
  <2>2. breaker' \in [Providers -> Breaker]
    BY <1>1, <2>1 DEF CallTypes
  <2>3. trial' \in [Providers -> SUBSET Requests]
    BY <1>1 DEF CallTypes
  <2>4. pc' \in [Requests -> Underway \union Returned \union Aborted]
    BY <1>1 DEF CallTypes, Underway
  <2> QED
    BY <2>2, <2>3, <2>4 DEF CallTypes
<1>7. ASSUME NEW p \in Providers, p = Provider(r) PROVE CB(p)!Call(r)
  <2>1. breaker'[p] = Admitted(breaker[p]) /\ Admits(breaker[p])
    BY <1>1, <1>7 DEF CallTypes
  <2>2. trial'[p] = IF breaker'[p].state # "half_open" THEN {}
                    ELSE (IF Expired(breaker[p]) THEN {} ELSE trial[p]) \union {r}
    BY <1>1, <1>7, <2>1 DEF CallTypes
  <2>3. Calling(p)' = Calling(p) \union {r} /\ r \notin Calling(p)
    BY <1>1, <1>5, <1>7 DEF Calling
  <2> QED
    BY <2>1, <2>2, <2>3 DEF CB!Call, CB!Admits, CB!Admitted, CB!Expired, CB!Probed,
                            Admits, Admitted, Expired, Probed, Calling
<1>8. ASSUME NEW p \in Providers, p # Provider(r) PROVE UNCHANGED CB(p)!vars
  BY <1>2, <1>5, <1>8, BreakerStutters
<1> QED
  BY <1>6, <1>7, <1>8 DEF CB!Next

\* After an attempt that ended, r is not calling.
Moves(r) == \E s \in (Underway \union Returned \union Aborted) \ {"calling"} :
                /\ pc' = [pc EXCEPT ![r] = s]
                /\ \A q \in Requests \ {r} : chain'[q] = chain[q] /\ at'[q] = at[q]

(* Whatever happens to the breakers, p loses r and no other breaker does. *)
LEMMA LeavesProvider ==
    ASSUME CallTypes, NEW r \in Requests, pc[r] = "calling", Moves(r)
    PROVE  /\ pc' \in [Requests -> Underway \union Returned \union Aborted]
           /\ \A p \in Providers :
                Calling(p)' = IF p = Provider(r) THEN Calling(p) \ {r} ELSE Calling(p)
           /\ \A p \in Providers : p = Provider(r) => r \in Calling(p)
<1>1. PICK s \in (Underway \union Returned \union Aborted) \ {"calling"} :
         /\ pc' = [pc EXCEPT ![r] = s]
         /\ \A q \in Requests \ {r} : chain'[q] = chain[q] /\ at'[q] = at[q]
  BY DEF Moves
<1>2. \A q \in Requests \ {r} : Provider(q)' = Provider(q) /\ pc'[q] = pc[q]
  BY <1>1 DEF Provider, Target, CallTypes
<1>3. pc'[r] # "calling"
  BY <1>1 DEF CallTypes
<1>4. ASSUME NEW p \in Providers
      PROVE  Calling(p)' = IF p = Provider(r) THEN Calling(p) \ {r} ELSE Calling(p)
  BY <1>2, <1>3 DEF Calling
<1> QED
  BY <1>1, <1>4 DEF CallTypes, Calling

\* NextTarget leaves a request waiting for its next attempt, or failed.
LEMMA NextTargetMoves ==
    ASSUME NEW r \in Requests, CallTypes, NextTarget(r), chain' = chain,
           Indexed
    PROVE  Moves(r)
  BY DEF NextTarget, Moves, Indexed, Underway, Returned

LEMMA ResultGuards ==
    ASSUME CallTypes, Indexed, NEW r \in Requests, Answer(r) \/ Fail(r)
    PROVE  CallTypes' /\ \A p \in Providers : CB(p)!Next \/ UNCHANGED CB(p)!vars
<1> DEFINE b == breaker[Provider(r)]
<1>1. pc[r] = "calling" /\ Moves(r)
  <2>1. CASE Answer(r)
    BY <2>1 DEF Answer, Moves, Underway
  <2>2. CASE Fail(r)
    BY <2>2, NextTargetMoves DEF Fail
  <2> QED
    BY <2>1, <2>2
<1>2. PICK c \in {OnSuccess(b), OnFailure(b)} : breaker' = [breaker EXCEPT ![Provider(r)] = c]
  BY DEF Answer, Fail
<1>3. PICK set \in {{}, trial[Provider(r)] \ {r}} : trial' = [trial EXCEPT ![Provider(r)] = set]
  BY DEF Answer, Fail
<1>4. CallTypes'
  <2>1. Provider(r) \in Providers => c \in Breaker /\ set \in SUBSET Requests
    BY <1>2, <1>3, BreakerTypes DEF CallTypes
  <2>2. breaker' \in [Providers -> Breaker] /\ trial' \in [Providers -> SUBSET Requests]
    BY <1>2, <1>3, <2>1 DEF CallTypes
  <2> QED
    BY <1>1, <2>2, LeavesProvider DEF CallTypes
<1>5. ASSUME NEW p \in Providers, p = Provider(r) PROVE CB(p)!Next
  <2>1. Calling(p)' = Calling(p) \ {r} /\ r \in Calling(p)
    BY <1>1, <1>5, LeavesProvider
  <2>2. CASE Answer(r)
    <3>1. breaker'[p] = OnSuccess(breaker[p]) /\ trial'[p] = {}
      BY <1>5, <2>2 DEF Answer, CallTypes
    <3>2. CB(p)!Succeed(r)
      BY <2>1, <3>1 DEF CB!Succeed, CB!Leave, CB!OnSuccess, CB!Cleared, OnSuccess, Cleared, Calling
    <3> QED
      BY <3>2 DEF CB!Next
  <2>3. CASE Fail(r)
    <3>1. /\ breaker'[p] = OnFailure(breaker[p])
          /\ trial'[p] = IF breaker'[p].state = "half_open" THEN trial[p] \ {r} ELSE {}
      BY <1>5, <2>3 DEF Fail, CallTypes
    <3>2. CB(p)!Fail(r)
      BY <2>1, <3>1 DEF CB!Fail, CB!Leave, CB!OnFailure, CB!Tripped, CB!OneMore,
                        OnFailure, Tripped, OneMore, Calling
    <3> QED
      BY <3>2 DEF CB!Next
  <2> QED
    BY <2>2, <2>3
<1>6. ASSUME NEW p \in Providers, p # Provider(r) PROVE UNCHANGED CB(p)!vars
  <2>1. Calling(p)' = Calling(p)
    BY <1>1, <1>6, LeavesProvider
  <2>2. breaker'[p] = breaker[p] /\ trial'[p] = trial[p]
    BY <1>2, <1>3, <1>6 DEF CallTypes
  <2> QED
    BY <2>1, <2>2, BreakerStutters
<1> QED
  BY <1>4, <1>5, <1>6

LEMMA CancelGuards ==
    ASSUME CallTypes, NEW r \in Requests, Cancel(r)
    PROVE  CallTypes' /\ \A p \in Providers : CB(p)!Next \/ UNCHANGED CB(p)!vars
<1>1. /\ pc' = [pc EXCEPT ![r] = "cancelled"]
      /\ UNCHANGED <<breaker, chain, at>>
  BY DEF Cancel
<1>2. Moves(r)
  BY <1>1 DEF Moves, Aborted
<1>3. CASE pc[r] # "calling"
  <2>1. trial' = trial
    BY <1>3 DEF Cancel
  <2>2. CallTypes' /\ \A p \in Providers : Calling(p)' = Calling(p)
    BY <1>1, <1>3, <2>1, NotCalling DEF Aborted
  <2> QED
    BY <1>1, <2>1, <2>2, BreakerStutters
<1>4. CASE pc[r] = "calling"
  <2>1. trial' = [trial EXCEPT ![Provider(r)] = @ \ {r}]
    BY <1>4 DEF Cancel
  <2>2. CallTypes'
    BY <1>1, <1>2, <1>4, <2>1, LeavesProvider DEF CallTypes
  <2>3. ASSUME NEW p \in Providers, p = Provider(r) PROVE CB(p)!Next
    <3>1. Calling(p)' = Calling(p) \ {r} /\ r \in Calling(p)
      BY <1>2, <1>4, <2>3, LeavesProvider
    <3>2. breaker'[p] = breaker[p] /\ trial'[p] = trial[p] \ {r}
      BY <1>1, <2>1, <2>3 DEF CallTypes
    <3>3. CB(p)!Cancel(r)
      BY <3>1, <3>2 DEF CB!Cancel, CB!Leave, Calling
    <3> QED
      BY <3>3 DEF CB!Next
  <2>4. ASSUME NEW p \in Providers, p # Provider(r) PROVE UNCHANGED CB(p)!vars
    <3>1. Calling(p)' = Calling(p)
      BY <1>2, <1>4, <2>4, LeavesProvider
    <3>2. breaker'[p] = breaker[p] /\ trial'[p] = trial[p]
      BY <1>1, <2>1, <2>4 DEF CallTypes
    <3> QED
      BY <3>1, <3>2, BreakerStutters
  <2> QED
    BY <2>2, <2>3, <2>4
<1> QED
  BY <1>3, <1>4

(* The other steps of a request leave the breakers alone. *)
LEMMA QuietGuards ==
    ASSUME CallTypes, Indexed, NEW r \in Requests,
           \/ GuardInput(r) \/ Reserve(r) \/ BudgetCheck(r) \/ CacheHit(r) \/ Configure(r)
           \/ Refused(r) \/ Bill(r) \/ Account(r) \/ Release(r) \/ RaiseAfterwards(r)
    PROVE  CallTypes' /\ \A p \in Providers : CB(p)!Next \/ UNCHANGED CB(p)!vars
<1>1. pc[r] # "calling" /\ UNCHANGED <<breaker, trial>>
  BY DEF GuardInput, Guard, Reserve, BudgetCheck, CacheHit, Configure, Refused, Bill, Account,
         Release, RaiseAfterwards
<1>2. Moves(r)
  <2>1. CASE GuardInput(r) \/ Reserve(r) \/ CacheHit(r) \/ Bill(r) \/ Account(r) \/ Release(r)
    BY <2>1 DEF GuardInput, Guard, Reserve, CacheHit, Bill, Account, Release, Moves,
                Underway, Returned
  <2>2. CASE BudgetCheck(r)
    BY <2>2 DEF BudgetCheck, Moves, Indexed, Underway
  <2>3. CASE Configure(r)
    <3>1. \E s \in {"attempt", "failed"} : pc' = [pc EXCEPT ![r] = s]
      BY <2>3 DEF Configure
    <3>2. \A q \in Requests \ {r} : chain'[q] = chain[q] /\ at'[q] = at[q]
      BY <2>3 DEF Configure, Indexed
    <3> QED
      BY <3>1, <3>2 DEF Moves, Underway, Returned
  <2>4. CASE Refused(r)
    BY <2>4, NextTargetMoves DEF Refused
  <2>5. CASE RaiseAfterwards(r)
    <3>1. CASE kind[r] = "stream"
      BY <2>5, <3>1, NextTargetMoves DEF RaiseAfterwards
    <3>2. CASE kind[r] # "stream"
      BY <2>5, <3>2 DEF RaiseAfterwards, Moves, Aborted
    <3> QED
      BY <3>1, <3>2
  <2> QED
    BY <2>1, <2>2, <2>3, <2>4, <2>5
<1>3. CallTypes' /\ \A p \in Providers : Calling(p)' = Calling(p)
  BY <1>1, <1>2, NotCalling DEF Moves
<1> QED
  BY <1>1, <1>3, BreakerStutters

(* Time passes for every breaker; one that is old enough gets no older. *)
LEMMA TickGuards ==
    ASSUME CallTypes, Tick
    PROVE  CallTypes' /\ \A p \in Providers : CB(p)!Next \/ UNCHANGED CB(p)!vars
<1>1. /\ \A p \in Providers : breaker'[p] = Aged(breaker[p])
      /\ UNCHANGED <<trial, pc, chain, at>>
  BY DEF Tick, reqvars
<1>2. CallTypes'
  BY <1>1, BreakerTypes DEF CallTypes, Tick
<1>3. \A p \in Providers : Calling(p)' = Calling(p) /\ trial'[p] = trial[p]
  BY <1>1 DEF Calling, Provider, Target
<1>4. ASSUME NEW p \in Providers, breaker[p].since <= Recovery PROVE CB(p)!Tick
  BY <1>1, <1>3, <1>4 DEF CB!Tick, CB!Aged, Aged, Calling
<1>5. ASSUME NEW p \in Providers, ~ (breaker[p].since <= Recovery) PROVE UNCHANGED CB(p)!vars
  <2>1. breaker[p].since > Recovery
    BY <1>5, BreakerAssumption DEF BreakerAssumption, CallTypes, Breaker
  <2>2. breaker'[p] = breaker[p]
    BY <1>1, <2>1 DEF Aged, CallTypes, Breaker
  <2> QED
    BY <1>3, <2>2, BreakerStutters
<1> QED
  BY <1>2, <1>4, <1>5 DEF CB!Next

LEMMA NextGuards ==
    ASSUME CallTypes, Indexed, [Next]_vars
    PROVE  /\ CallTypes' /\ Indexed'
           /\ \A p \in Providers : CB(p)!Next \/ UNCHANGED CB(p)!vars
<1>1. Indexed'
  BY DEF Indexed, Next, vars, reqvars, Step, Cancel, Tick, GuardInput, Guard, Reserve, BudgetCheck,
         CacheHit, Configure, Call, Refused, Fail, Answer, Bill, Account, Release, RaiseAfterwards,
         NextTarget
<1>2. CASE UNCHANGED vars
  <2>1. CallTypes' /\ UNCHANGED <<breaker, trial>>
    BY <1>2 DEF vars, reqvars, CallTypes
  <2>2. \A p \in Providers : Calling(p)' = Calling(p)
    BY <1>2 DEF vars, reqvars, Calling, Provider, Target
  <2> QED
    BY <1>1, <2>1, <2>2, BreakerStutters
<1>3. CASE Tick
  BY <1>1, <1>3, TickGuards
<1>4. ASSUME NEW r \in Requests, Step(r) \/ Cancel(r)
      PROVE  CallTypes' /\ \A p \in Providers : CB(p)!Next \/ UNCHANGED CB(p)!vars
  BY <1>4, CallGuards, ResultGuards, CancelGuards, QuietGuards DEF Step
<1> QED
  BY <1>1, <1>2, <1>3, <1>4 DEF Next

(* Every provider's breaker is used by the gateway's concurrent requests as        *)
(* CircuitBreaker prescribes, through all failover loops (llm_gateway/__init__.py  *)
(* over core/circuit_breaker.py).                                                  *)
THEOREM GatewayImplementsBreakers == Spec => BreakersGuardProviders
<1>1. Init => CallTypes /\ Indexed
  BY InitCalls
<1>2. (CallTypes /\ Indexed) /\ [Next]_vars => (CallTypes /\ Indexed)'
  BY NextGuards
<1>3. Init => \A p \in Providers : CB(p)!Init
  BY DEF Init, CB!Init, CB!NewBreaker, NewBreaker
<1>4. (CallTypes /\ Indexed) /\ [Next]_vars
        => [\A p \in Providers : CB(p)!Next \/ UNCHANGED CB(p)!vars]_vars
  BY NextGuards
<1> QED
  BY <1>1, <1>2, <1>3, <1>4, PTL DEF Spec, BreakersGuardProviders

-------------------------------------------------------------------------------
(* The account. *)
\* Before its failover loop a request is at its first target; in the loop it is at
\* one of those it has.
InLoop == {"attempt", "calling", "answered", "billed", "counted"}
Placed(p, ch, i) ==
    /\ ch \in Seq(Targets) /\ i \in Nat \ {0}
    /\ p \in {"new", "guarded", "reserved", "budgeted"} => i = 1
    /\ p \in InLoop => i <= Len(ch)

BilledIn(p) == {r \in Requests : p[r] = "billed"}
CostIn(ch, i) == [r \in Requests |-> ch[r][i[r]].cost]

MoneyInv ==
    /\ DOMAIN pc = Requests /\ chain \in [Requests -> Seq(Targets)] /\ at \in [Requests -> Nat \ {0}]
    /\ \A r \in Requests : Placed(pc[r], chain[r], at[r])
    /\ ledger \in Nat /\ tracked \in Nat /\ lost \in Nat
    /\ tracked = ledger + lost + Sum(CostIn(chain, at), BilledIn(pc))

LEMMA CostsAreSum ==
    ASSUME NEW billed, IsFiniteSet(billed), billed \subseteq Requests,
           \A r \in billed : Target(r).cost \in Nat
    PROVE  MapThenSumSet(LAMBDA r : Target(r).cost, billed) = Sum(CostIn(chain, at), billed)
<1> DEFINE w == CostIn(chain, at)
           IsIt(G) == G = [s \in SUBSET billed |-> IF s = {} THEN 0
                             ELSE Target(CHOOSE x \in s : TRUE).cost + G[s \ {CHOOSE x \in s : TRUE}]]
           H == CHOOSE G : IsIt(G)
<1>1. \A r \in billed : w[r] = Target(r).cost
  BY DEF CostIn, Target
<1>2. \A T \in SUBSET billed : T # {} => w[Pick(T)] = Target(CHOOSE x \in T : TRUE).cost
  <2>1. \A T \in SUBSET billed : T # {} => Pick(T) \in billed
    BY Picked
  <2> QED
    BY <1>1, <2>1 DEF Pick
<1> HIDE DEF w
<1>3. \A G : IsIt(G) <=> IsSum(G, w, billed)
  BY <1>2 DEF IsSum, Pick
<1>4. Terms(w, billed)
  BY <1>1 DEF Terms
<1>5. MapThenSumSet(LAMBDA r : Target(r).cost, billed) = H[billed]
  BY DEF MapThenSumSet, MapThenFoldSet
<1> HIDE DEF IsIt
<1>6. IsIt(H)
  <2>1. \E G : IsIt(G)
    BY <1>3, SumExists
  <2> QED
    BY <2>1
<1> HIDE DEF H
<1>7. Additive(H, w, billed)
  BY <1>3, <1>4, <1>6, SumIsAdditive
<1> QED
  BY <1>4, <1>5, <1>7, SumIs DEF w

LEMMA BilledFacts ==
    ASSUME NEW p
    PROVE  IsFiniteSet(BilledIn(p)) /\ BilledIn(p) \subseteq Requests
  BY GatewayAssumption, FS_Subset DEF BilledIn

LEMMA TargetCost ==
    ASSUME NEW p, NEW ch, NEW i, Placed(p, ch, i), p \in InLoop
    PROVE  ch[i] \in Targets /\ ch[i].cost \in Nat
<1>1. ch \in Seq(Targets) /\ i \in 1 .. Len(ch)
  BY DEF Placed, InLoop
<1>2. ch[i] \in Targets
  BY <1>1
<1> QED
  BY <1>2 DEF Targets

\* What the step of one request does to the account.
Due(p, ch, i) == IF p = "billed" THEN ch[i].cost ELSE 0

LEMMA AccountStep ==
    ASSUME MoneyInv, NEW r \in Requests, NEW p, NEW ch, NEW i, Placed(p, ch, i),
           pc' = [pc EXCEPT ![r] = p], chain' = [chain EXCEPT ![r] = ch], at' = [at EXCEPT ![r] = i],
           ledger' \in Nat, tracked' \in Nat, lost' \in Nat,
           tracked' - ledger' - lost' - Due(p, ch, i)
             = tracked - ledger - lost - Due(pc[r], chain[r], at[r])
    PROVE  MoneyInv'
<1>1. /\ DOMAIN pc' = Requests /\ chain' \in [Requests -> Seq(Targets)] /\ at' \in [Requests -> Nat \ {0}]
      /\ pc'[r] = p /\ chain'[r] = ch /\ at'[r] = i
      /\ \A q \in Requests \ {r} : pc'[q] = pc[q] /\ chain'[q] = chain[q] /\ at'[q] = at[q]
  BY DEF MoneyInv, Placed
<1>2. \A q \in Requests : Placed(pc'[q], chain'[q], at'[q])
  BY <1>1 DEF MoneyInv
<1> DEFINE others == BilledIn(pc) \ {r}
           w == CostIn(chain, at)
           v == CostIn(chain', at')
<1>3. IsFiniteSet(others) /\ others \subseteq Requests \ {r}
  BY BilledFacts, FS_RemoveElement
<1>4. Terms(w, BilledIn(pc)) /\ Terms(v, BilledIn(pc'))
  <2>1. ASSUME NEW q \in BilledIn(pc) PROVE w[q] \in Int
    <3>1. q \in Requests /\ pc[q] = "billed" /\ Placed(pc[q], chain[q], at[q])
      BY DEF MoneyInv, BilledIn
    <3>2. chain[q][at[q]].cost \in Nat
      BY <3>1, TargetCost DEF InLoop
    <3> QED
      BY <3>1, <3>2 DEF CostIn
  <2>2. ASSUME NEW q \in BilledIn(pc') PROVE v[q] \in Int
    BY <1>2, TargetCost DEF BilledIn, InLoop, CostIn
  <2> QED
    BY <2>1, <2>2 DEF Terms
<1>5. \A q \in others : w[q] = v[q]
  BY <1>1 DEF BilledIn, CostIn
<1>6. w[r] = chain[r][at[r]].cost /\ v[r] = ch[i].cost
  BY <1>1 DEF CostIn
<1>7. /\ BilledIn(pc) = IF pc[r] = "billed" THEN others \union {r} ELSE others
      /\ BilledIn(pc') = IF p = "billed" THEN others \union {r} ELSE others
  BY <1>1 DEF BilledIn
<1> HIDE DEF others, w, v
<1>8. Sum(w, others) = Sum(v, others) /\ Sum(w, others) \in Int
  <2>1. Terms(w, others)
    BY <1>4, <1>7 DEF Terms
  <2> QED
    BY <1>3, <1>5, <2>1, SumOfSameTerms, SumFacts
<1>9. Sum(w, BilledIn(pc)) = Sum(w, others) + Due(pc[r], chain[r], at[r])
  <2>1. CASE pc[r] = "billed"
    <3>1. Sum(w, others \union {r}) = w[r] + Sum(w, others) /\ w[r] \in Int
      BY <1>3, <1>4, <1>7, <2>1, SumWithOneMore DEF Terms
    <3> QED
      BY <1>6, <1>7, <1>8, <2>1, <3>1 DEF Due
  <2>2. CASE pc[r] # "billed"
    BY <1>7, <1>8, <2>2 DEF Due
  <2> QED
    BY <2>1, <2>2
<1>10. Sum(v, BilledIn(pc')) = Sum(w, others) + Due(p, ch, i)
  <2>1. CASE p = "billed"
    <3>1. Sum(v, others \union {r}) = v[r] + Sum(v, others) /\ v[r] \in Int
      BY <1>3, <1>4, <1>7, <2>1, SumWithOneMore DEF Terms
    <3>2. BilledIn(pc') = others \union {r} /\ Due(p, ch, i) = v[r]
      BY <1>6, <1>7, <2>1 DEF Due
    <3>3. Sum(v, BilledIn(pc')) = v[r] + Sum(w, others)
      BY <1>8, <3>1, <3>2
    <3> QED
      BY <1>8, <3>1, <3>2, <3>3
  <2>2. CASE p # "billed"
    BY <1>7, <1>8, <2>2 DEF Due
  <2> QED
    BY <2>1, <2>2
<1>11. Due(p, ch, i) \in Int /\ Due(pc[r], chain[r], at[r]) \in Int
  BY TargetCost DEF Due, MoneyInv, InLoop
<1>12. tracked = ledger + lost + Sum(w, BilledIn(pc)) /\ ledger \in Nat /\ lost \in Nat /\ tracked \in Nat
  BY DEF MoneyInv, w
<1>13. tracked' = ledger' + lost' + Sum(v, BilledIn(pc'))
  BY <1>8, <1>9, <1>10, <1>11, <1>12
<1> QED
  BY <1>1, <1>2, <1>13 DEF MoneyInv, v

(* What is available is part of the chain. *)
LEMMA AvailableType ==
    ASSUME NEW targets \in Seq(Targets)
    PROVE  Available(targets) \in Seq(Targets)
<1> DEFINE keep == [i \in 1 .. Len(targets) |-> IsAvailable(breaker[targets[i].provider])]
           Kept(f, n) == f = [i \in 0 .. n |->
                                IF i = 0 THEN <<>>
                                ELSE IF IsAvailable(breaker[targets[i].provider]) THEN Append(f[i - 1], targets[i])
                                ELSE f[i - 1]]
           Levels == {n \in Nat : \E f : Kept(f, n)}
<1>1. 0 \in Levels
  <2>1. Kept([i \in 0 .. 0 |-> <<>>], 0)
    OBVIOUS
  <2> QED
    BY <2>1
<1>2. ASSUME NEW n \in Levels PROVE n + 1 \in Levels
  <2>1. PICK f : Kept(f, n)
    OBVIOUS
  <2> DEFINE g == [i \in 0 .. n + 1 |->
                     IF i = 0 THEN <<>>
                     ELSE IF IsAvailable(breaker[targets[i].provider]) THEN Append(f[i - 1], targets[i])
                     ELSE f[i - 1]]
  <2>2. \A i \in 0 .. n : i \in 0 .. n + 1
    OBVIOUS
  <2>3. \A i \in 0 .. n : g[i] = f[i]
    BY <2>1, <2>2
  <2>4. \A i \in 0 .. n + 1 : i # 0 => i - 1 \in 0 .. n
    OBVIOUS
  <2>5. \A i \in 0 .. n + 1 : i # 0 => g[i - 1] = f[i - 1]
    BY <2>3, <2>4
  <2>6. Kept(g, n + 1)
    BY <2>5
  <2> HIDE DEF Kept, g
  <2> QED
    BY <2>6
<1>3. Len(targets) \in Levels
  <2> HIDE DEF Levels
  <2>1. Nat \subseteq Levels
    BY <1>1, <1>2, CountingInduction
  <2> QED
    BY <2>1
<1> DEFINE h == CHOOSE f : Kept(f, Len(targets))
<1>4. Available(targets) = h[Len(targets)]
  BY DEF Available
<1>5. Kept(h, Len(targets))
  BY <1>3
<1> HIDE DEF h
<1> DEFINE Typed == {n \in Nat : n <= Len(targets) => h[n] \in Seq(Targets)}
<1>6. 0 \in Typed
  BY <1>5
<1>7. ASSUME NEW n \in Typed PROVE n + 1 \in Typed
  <2> SUFFICES ASSUME n + 1 <= Len(targets) PROVE h[n + 1] \in Seq(Targets)
    OBVIOUS
  <2>1. h[n] \in Seq(Targets) /\ targets[n + 1] \in Targets
    OBVIOUS
  <2>2. n + 1 \in 0 .. Len(targets) /\ n + 1 # 0 /\ (n + 1) - 1 = n
    OBVIOUS
  <2>3. h[n + 1] = h[n] \/ h[n + 1] = Append(h[n], targets[n + 1])
    BY <1>5, <2>2
  <2>4. Append(h[n], targets[n + 1]) \in Seq(Targets)
    BY <2>1
  <2> QED
    BY <2>1, <2>3, <2>4
<1>8. Len(targets) \in Typed
  <2> HIDE DEF Typed
  <2>1. Nat \subseteq Typed
    BY <1>6, <1>7, CountingInduction
  <2> QED
    BY <2>1
<1> QED
  BY <1>4, <1>8

LEMMA InitMoney == ASSUME Init PROVE MoneyInv
<1>1. BilledIn(pc) = {}
  BY DEF Init, BilledIn
<1>2. Sum(CostIn(chain, at), {}) = 0
  BY FS_EmptySet, SumFacts DEF Terms
<1>3. chain \in [Requests -> Seq(Targets)] /\ at \in [Requests -> Nat \ {0}]
  BY GatewayAssumption DEF Init
<1>4. \A r \in Requests : Placed(pc[r], chain[r], at[r])
  BY GatewayAssumption DEF Init, Placed, InLoop
<1>5. ledger \in Nat
  BY GatewayAssumption DEF Init
<1>6. DOMAIN pc = Requests /\ tracked = ledger /\ lost = 0
  BY DEF Init
<1>7. tracked = ledger + lost + Sum(CostIn(chain, at), BilledIn(pc))
  BY <1>1, <1>2, <1>5, <1>6
<1> QED
  BY <1>3, <1>4, <1>5, <1>6, <1>7 DEF MoneyInv

LEMMA MoneyFacts ==
    ASSUME MoneyInv, NEW r \in Requests
    PROVE  /\ chain = [chain EXCEPT ![r] = chain[r]] /\ at = [at EXCEPT ![r] = at[r]]
           /\ Placed(pc[r], chain[r], at[r]) /\ chain[r] \in Seq(Targets) /\ at[r] \in Nat \ {0}
           /\ ledger \in Nat /\ tracked \in Nat /\ lost \in Nat
           /\ pc[r] \in InLoop => Target(r).cost \in Nat
  BY TargetCost DEF MoneyInv, Target

\* The account is the same before and after.
LEMMA FreeStep ==
    ASSUME MoneyInv, NEW r \in Requests, pc[r] # "billed", NEW p, p # "billed", NEW ch, NEW i,
           Placed(p, ch, i),
           pc' = [pc EXCEPT ![r] = p], chain' = [chain EXCEPT ![r] = ch], at' = [at EXCEPT ![r] = i],
           UNCHANGED moneyvars
    PROVE  MoneyInv'
<1>1. /\ Due(p, ch, i) = 0 /\ Due(pc[r], chain[r], at[r]) = 0
      /\ ledger' = ledger /\ tracked' = tracked /\ lost' = lost
  BY DEF Due, moneyvars
<1>2. ledger \in Nat /\ tracked \in Nat /\ lost \in Nat
  BY DEF MoneyInv
<1>3. tracked' - ledger' - lost' - Due(p, ch, i) = tracked - ledger - lost - Due(pc[r], chain[r], at[r])
  BY <1>1
<1> QED
  BY <1>1, <1>2, <1>3, AccountStep

\* Where the next target is.
LEMMA NextTargetPlace ==
    ASSUME MoneyInv, NEW r \in Requests, pc[r] \in InLoop, NextTarget(r)
    PROVE  \E p \in {"attempt", "failed"}, i \in Nat \ {0} :
              /\ pc' = [pc EXCEPT ![r] = p] /\ at' = [at EXCEPT ![r] = i]
              /\ Placed(p, chain[r], i)
<1>1. CASE at[r] < Len(chain[r])
  <2>1. pc' = [pc EXCEPT ![r] = "attempt"] /\ at' = [at EXCEPT ![r] = at[r] + 1]
    BY <1>1 DEF NextTarget
  <2>2. at[r] + 1 \in Nat \ {0} /\ Placed("attempt", chain[r], at[r] + 1)
    BY <1>1, MoneyFacts DEF Placed, InLoop
  <2> QED
    BY <2>1, <2>2
<1>2. CASE ~(at[r] < Len(chain[r]))
  <2>1. pc' = [pc EXCEPT ![r] = "failed"] /\ at' = [at EXCEPT ![r] = at[r]]
    BY <1>2, MoneyFacts DEF NextTarget
  <2>2. at[r] \in Nat \ {0} /\ Placed("failed", chain[r], at[r])
    BY MoneyFacts DEF Placed, InLoop
  <2> QED
    BY <2>1, <2>2
<1> QED
  BY <1>1, <1>2

LEMMA QuietMoney ==
    ASSUME MoneyInv, NEW r \in Requests,
           \/ GuardInput(r) \/ Reserve(r) \/ BudgetCheck(r) \/ CacheHit(r) \/ Configure(r)
           \/ Call(r) \/ Refused(r) \/ Fail(r) \/ Answer(r) \/ Release(r)
    PROVE  MoneyInv'
<1>1. CASE GuardInput(r) \/ Reserve(r) \/ CacheHit(r) \/ Call(r) \/ Answer(r) \/ Release(r)
  <2>1. PICK p \in {"blocked", "guarded", "limited", "reserved", "hit", "calling", "answered", "done"} :
           /\ pc' = [pc EXCEPT ![r] = p] /\ pc[r] # "billed"
           /\ p \in InLoop => pc[r] \in InLoop
           /\ p \in {"guarded", "reserved"} => pc[r] \in {"new", "guarded"}
    BY <1>1 DEF GuardInput, Guard, Reserve, CacheHit, Call, Answer, Release, InLoop
  <2>2. UNCHANGED <<chain, at, moneyvars>>
    BY <1>1 DEF GuardInput, Guard, Reserve, CacheHit, Call, Answer, Release
  <2>3. Placed(p, chain[r], at[r])
    BY <2>1, MoneyFacts DEF Placed
  <2> QED
    BY <2>1, <2>2, <2>3, MoneyFacts, FreeStep
<1>2. CASE BudgetCheck(r)
  <2>1. PICK ch \in {Route, DowngradedRoute} : chain' = [chain EXCEPT ![r] = ch]
    BY <1>2 DEF BudgetCheck
  <2>2. pc[r] = "reserved" /\ pc' = [pc EXCEPT ![r] = "budgeted"] /\ UNCHANGED <<at, moneyvars>>
    BY <1>2 DEF BudgetCheck
  <2>3. Placed("budgeted", ch, at[r])
    BY <2>2, MoneyFacts, GatewayAssumption DEF Placed, InLoop
  <2> QED
    BY <2>1, <2>2, <2>3, MoneyFacts, FreeStep
<1>3. CASE Configure(r)
  <2> DEFINE ch == Available(chain[r])
             p == IF ch # <<>> THEN "attempt" ELSE "failed"
  <2>1. /\ pc[r] = "budgeted" /\ chain' = [chain EXCEPT ![r] = ch]
        /\ pc' = [pc EXCEPT ![r] = p] /\ UNCHANGED <<at, moneyvars>>
    BY <1>3 DEF Configure
  <2>2. ch \in Seq(Targets) /\ at[r] = 1
    BY <2>1, MoneyFacts, AvailableType DEF Placed
  <2> HIDE DEF ch
  <2>3. p # "billed" /\ Placed(p, ch, at[r])
    BY <2>2 DEF Placed, InLoop
  <2> HIDE DEF p
  <2> QED
    BY <2>1, <2>3, MoneyFacts, FreeStep
<1>4. CASE Refused(r) \/ Fail(r)
  <2>1. pc[r] \in {"attempt", "calling"} /\ NextTarget(r) /\ UNCHANGED <<chain, moneyvars>>
    BY <1>4 DEF Refused, Fail
  <2>2. PICK p \in {"attempt", "failed"}, i \in Nat \ {0} :
           /\ pc' = [pc EXCEPT ![r] = p] /\ at' = [at EXCEPT ![r] = i]
           /\ Placed(p, chain[r], i)
    BY <2>1, NextTargetPlace DEF InLoop
  <2> QED
    BY <2>1, <2>2, MoneyFacts, FreeStep
<1> QED
  BY <1>1, <1>2, <1>3, <1>4

\* What a billed request leaves behind is due no more.
LEMMA WrittenOff ==
    ASSUME MoneyInv, NEW r \in Requests, NEW p, NEW i,
           p # "billed", Placed(p, chain[r], i),
           pc' = [pc EXCEPT ![r] = p], chain' = [chain EXCEPT ![r] = chain[r]],
           at' = [at EXCEPT ![r] = i],
           WriteOff(r), ledger' = ledger, tracked' = tracked
    PROVE  MoneyInv'
<1>1. Due(p, chain[r], i) = 0
  BY DEF Due
<1>2. lost' = lost + Due(pc[r], chain[r], at[r]) /\ Due(pc[r], chain[r], at[r]) \in Nat
  BY MoneyFacts DEF WriteOff, Due, Target, InLoop
<1>3. tracked' - ledger' - lost' - Due(p, chain[r], i) = tracked - ledger - lost - Due(pc[r], chain[r], at[r])
  BY <1>1, <1>2, MoneyFacts
<1>4. lost' \in Nat
  BY <1>2, MoneyFacts
<1> QED
  BY <1>3, <1>4, MoneyFacts, AccountStep

LEMMA BillMoney == ASSUME MoneyInv, NEW r \in Requests, Bill(r) PROVE MoneyInv'
<1>1. /\ pc[r] = "answered" /\ pc' = [pc EXCEPT ![r] = "billed"]
      /\ tracked' = tracked + Target(r).cost /\ UNCHANGED <<chain, at, ledger, lost>>
  BY DEF Bill
<1>2. Placed("billed", chain[r], at[r]) /\ Target(r).cost \in Nat
  BY <1>1, MoneyFacts DEF Placed, InLoop
<1>3. Due("billed", chain[r], at[r]) = Target(r).cost /\ Due(pc[r], chain[r], at[r]) = 0
  BY <1>1 DEF Due, Target
<1>4. tracked' - ledger' - lost' - Due("billed", chain[r], at[r])
        = tracked - ledger - lost - Due(pc[r], chain[r], at[r])
  BY <1>1, <1>2, <1>3, MoneyFacts
<1>5. tracked' \in Nat
  BY <1>1, <1>2, MoneyFacts
<1> QED
  BY <1>1, <1>2, <1>4, <1>5, MoneyFacts, AccountStep

LEMMA AccountMoney == ASSUME MoneyInv, NEW r \in Requests, Account(r) PROVE MoneyInv'
<1>1. PICK p \in {"done", "counted"} : pc' = [pc EXCEPT ![r] = p]
  BY DEF Account
<1>2. /\ pc[r] = "billed" /\ UNCHANGED <<chain, at, tracked>>
      /\ \/ ledger' = ledger + Target(r).cost /\ lost' = lost
         \/ lost' = lost + Target(r).cost /\ ledger' = ledger
  BY DEF Account
<1>3. Placed(p, chain[r], at[r]) /\ Target(r).cost \in Nat
  BY <1>2, MoneyFacts DEF Placed, InLoop
<1>4. Due(pc[r], chain[r], at[r]) = Target(r).cost /\ Due(p, chain[r], at[r]) = 0
  BY <1>2 DEF Due, Target
<1>5. tracked' - ledger' - lost' - Due(p, chain[r], at[r])
        = tracked - ledger - lost - Due(pc[r], chain[r], at[r])
  BY <1>2, <1>3, <1>4, MoneyFacts
<1>6. ledger' \in Nat /\ lost' \in Nat
  BY <1>2, <1>3, MoneyFacts
<1> QED
  BY <1>1, <1>2, <1>3, <1>5, <1>6, MoneyFacts, AccountStep

LEMMA AbortMoney ==
    ASSUME MoneyInv, NEW r \in Requests, RaiseAfterwards(r) \/ Cancel(r)
    PROVE  MoneyInv'
<1>1. WriteOff(r) /\ UNCHANGED <<chain, ledger, tracked>>
  BY DEF RaiseAfterwards, Cancel
<1>2. CASE (pc' = [pc EXCEPT ![r] = "raised"] /\ at' = at) \/ Cancel(r)
  <2>1. PICK p \in {"raised", "cancelled"} : pc' = [pc EXCEPT ![r] = p] /\ at' = at
    BY <1>2 DEF Cancel
  <2>2. Placed(p, chain[r], at[r])
    BY MoneyFacts DEF Placed, InLoop
  <2> QED
    <3>1. at' = [at EXCEPT ![r] = at[r]] /\ chain' = [chain EXCEPT ![r] = chain[r]] /\ ledger' = ledger /\ tracked' = tracked
      BY <1>1, <2>1, MoneyFacts
    <3>2. p # "billed" /\ pc' = [pc EXCEPT ![r] = p] /\ WriteOff(r)
      BY <1>1, <2>1
    <3> QED
      BY <2>2, <3>1, <3>2, WrittenOff
<1>3. CASE RaiseAfterwards(r) /\ NextTarget(r)
  <2>1. pc[r] \in InLoop
    BY <1>3 DEF RaiseAfterwards, InLoop
  <2>2. PICK p \in {"attempt", "failed"}, i \in Nat \ {0} :
           /\ pc' = [pc EXCEPT ![r] = p] /\ at' = [at EXCEPT ![r] = i]
           /\ Placed(p, chain[r], i)
    BY <1>3, <2>1, NextTargetPlace
  <2> QED
    <3>1. p # "billed" /\ WriteOff(r)
      BY <1>1
    <3>2. chain' = [chain EXCEPT ![r] = chain[r]] /\ ledger' = ledger /\ tracked' = tracked
      BY <1>1, MoneyFacts
    <3> QED
      BY <2>2, <3>1, <3>2, WrittenOff
<1> QED
  BY <1>2, <1>3 DEF RaiseAfterwards

LEMMA MoneyInvariance == Spec => []MoneyInv
<1>1. Init => MoneyInv
  BY InitMoney
<1>2. MoneyInv /\ [Next]_vars => MoneyInv'
  <2> SUFFICES ASSUME MoneyInv, [Next]_vars PROVE MoneyInv'
    OBVIOUS
  <2>1. CASE Tick \/ UNCHANGED vars
    <3>1. UNCHANGED <<pc, chain, at, ledger, tracked, lost>>
      BY <2>1 DEF Tick, vars, reqvars, moneyvars
    <3> QED
      BY <3>1 DEF MoneyInv
  <2>2. ASSUME NEW r \in Requests, Step(r) \/ Cancel(r) PROVE MoneyInv'
    BY <2>2, QuietMoney, BillMoney, AccountMoney, AbortMoney DEF Step
  <2> QED
    BY <2>1, <2>2 DEF Next
<1> QED
  BY <1>1, <1>2, PTL DEF Spec

(* The cost tracker is ahead of the ledger by exactly the answers billed   *)
(* but not yet recorded and by what a failing store, an exception or a     *)
(* cancelled caller lost, through all failovers                            *)
(* (llm_gateway/__init__.py: complete, stream_complete).                   *)
THEOREM NothingIsLostTwice == Spec => []LedgerBalances
<1>1. MoneyInv => LedgerBalances
  <2> SUFFICES ASSUME MoneyInv PROVE LedgerBalances
    OBVIOUS
  <2> DEFINE pending == {r \in Requests : pc[r] = "billed"}
  <2>1. pending = BilledIn(pc)
    BY DEF BilledIn
  <2>2. \A r \in pending : Target(r).cost \in Nat
    BY MoneyFacts DEF InLoop
  <2>3. MapThenSumSet(LAMBDA r : Target(r).cost, pending) = Sum(CostIn(chain, at), pending)
    <3>1. IsFiniteSet(pending) /\ pending \subseteq Requests
      BY <2>1, BilledFacts
    <3> HIDE DEF pending
    <3> QED
      BY <2>2, <3>1, CostsAreSum
  <2> QED
    BY <2>1, <2>3 DEF LedgerBalances, MoneyInv
<1> QED
  BY <1>1, MoneyInvariance, PTL
===============================================================================
