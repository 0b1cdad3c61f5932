---------------------------- MODULE CircuitBreaker ----------------------------
(***************************************************************************)
(* One breaker shared by concurrent callers of CircuitBreaker.call().      *)
(* A call is two critical sections (admission, then _on_success or         *)
(* _on_failure) with the protected function running in between without the *)
(* lock, so the breaker a call reports to need not be in the state that    *)
(* admitted it.                                                            *)
(***************************************************************************)
EXTENDS BreakerOps, FiniteSets

CONSTANT Callers   \* coroutines that may be inside call() at once

ASSUME CallersAssumption == IsFiniteSet(Callers)

VARIABLES
    br,        \* the breaker record
    running,   \* callers whose fn is being awaited
    trial,     \* history: running callers admitted in the current HALF_OPEN window
    healthy    \* the protected service no longer fails (it stays that way)

vars == <<br, running, trial, healthy>>

TypeOK == /\ br \in Breaker
          /\ running \subseteq Callers
          /\ trial \subseteq running
          /\ healthy \in BOOLEAN

Init == /\ br = NewBreaker
        /\ running = {}
        /\ trial = {}
        /\ healthy = FALSE

\* call(): the admission critical section, when it lets fn run.
Call(c) == /\ c \notin running
           /\ Admits(br)
           /\ br' = Admitted(br)
           /\ running' = running \union {c}
           /\ trial' = IF br'.state # "half_open" THEN {}
                       ELSE (IF Expired(br) THEN {} ELSE trial) \union {c}
           /\ UNCHANGED healthy

Leave(c) == /\ c \in running
            /\ running' = running \ {c}
            /\ UNCHANGED healthy

\* Mutant of Succeed: a success leaves HALF_OPEN only when it is the last trial.
SucceedLastTrial(c) == /\ Leave(c)
                       /\ br' = IF br.trials > 1 THEN [br EXCEPT !.trials = @ - 1]
                                 ELSE IF br.state = "half_open" THEN br ELSE OnSuccess(br)
                       /\ trial' = IF br.trials > 1 THEN trial \ {c} ELSE {}

\* fn returned: _on_success().
Succeed(c) == /\ Leave(c)
              /\ br' = OnSuccess(br)
              /\ trial' = {}

\* fn raised an Exception: _on_failure().
Fail(c) == /\ ~healthy
           /\ Leave(c)
           /\ br' = OnFailure(br)
           /\ trial' = IF br'.state = "half_open" THEN trial \ {c} ELSE {}

\* fn raised CancelledError, which is no Exception: neither callback runs.
Cancel(c) == /\ Leave(c)
             /\ trial' = trial \ {c}
             /\ UNCHANGED br

\* reset(), also by CircuitBreakerManager.reset_all().
Reset == /\ br # Cleared(br)
         /\ br' = Cleared(br)
         /\ trial' = {}
         /\ UNCHANGED <<running, healthy>>

Tick == /\ br.since <= Recovery
        /\ br' = Aged(br)
        /\ UNCHANGED <<running, trial, healthy>>

Heal == /\ ~healthy
        /\ healthy' = TRUE
        /\ UNCHANGED <<br, running, trial>>

Next == \/ \E c \in Callers : Call(c) \/ Succeed(c) \/ Fail(c) \/ Cancel(c)
        \/ Reset
        \/ Tick
        \/ Heal

\* Calls keep arriving, time passes, and every fn ends: the gateway wraps each
\* attempt in asyncio.timeout.  Nothing obliges the service to heal.
Fairness == /\ WF_vars(Tick)
            /\ \A c \in Callers : WF_vars(Call(c)) /\ WF_vars(Succeed(c))

Spec == Init /\ [][Next]_vars /\ Fairness

-------------------------------------------------------------------------------
(* CLOSED means exactly "fewer than Threshold failures counted".  The code has
   no HALF_OPEN branch in _on_failure: that a failed trial reopens the breaker
   rests on this invariant, which call() keeps by not clearing failure_count
   when it enters HALF_OPEN. *)
ClosedIffBelowThreshold == br.state = "closed" <=> br.failures < Threshold

(* No more callers are trying the service in one HALF_OPEN window than
   half_open_max_requests, whatever stale calls from before finish meanwhile. *)
TrialBound == br.state = "half_open" => /\ Cardinality(trial) <= br.trials
                                        /\ br.trials <= HalfOpenMax

(* Any failure reported while HALF_OPEN puts the breaker back to OPEN with a
   fresh recovery window ("trial failure -> OPEN" of the class docstring). *)
HalfOpenFailureReopens ==
    [][\A c \in Callers :
          br.state = "half_open" /\ Fail(c) => br'.state = "open" /\ br'.since = 0]_vars

(* The trial slots of this HALF_OPEN window all belong to cancelled callers. *)
SlotsLeaked == br.state = "half_open" /\ br.trials = HalfOpenMax /\ trial = {}

(* Once the service has healed the breaker ends up CLOSED.  The one way to miss
   it is that cancellations ate every trial slot of a HALF_OPEN window. *)
Recovers == healthy ~> (br.state = "closed" \/ SlotsLeaked)

===============================================================================
