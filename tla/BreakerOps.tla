------------------------------ MODULE BreakerOps ------------------------------
(***************************************************************************)
(* The critical sections of app/core/circuit_breaker.py as operators on a  *)
(* breaker record.  Each of them runs under the breaker's asyncio.Lock     *)
(* without awaiting anything else, so each is one atomic transformation of *)
(*   state    CLOSED, OPEN or HALF_OPEN                                    *)
(*   failures failure_count, saturated at Threshold (the code only ever    *)
(*            compares it with the threshold)                              *)
(*   trials   half_open_requests                                           *)
(*   since    time.monotonic() - last_failure_time, saturated at           *)
(*            Recovery + 1 (the code only asks whether it exceeds          *)
(*            recovery_timeout)                                            *)
(***************************************************************************)
EXTENDS Naturals

CONSTANTS
    Threshold,    \* failure_threshold
    Recovery,     \* recovery_timeout, in clock ticks
    HalfOpenMax   \* half_open_max_requests

ASSUME BreakerAssumption ==
    /\ Threshold \in Nat \ {0}
    /\ Recovery \in Nat
    /\ HalfOpenMax \in Nat \ {0}

CircuitState == {"closed", "open", "half_open"}

Breaker == [state    : CircuitState,
            failures : 0 .. Threshold,
            trials   : 0 .. HalfOpenMax,
            since    : 0 .. Recovery + 1]

NewBreaker == [state |-> "closed", failures |-> 0, trials |-> 0, since |-> Recovery + 1]

\* OPEN and the recovery window is over: the next caller moves to HALF_OPEN.
Expired(b) == b.state = "open" /\ b.since > Recovery

\* The breaker after the first half of the critical section of call().
Probed(b) ==
    IF Expired(b) THEN [state |-> "half_open", failures |-> b.failures, trials |-> 0, since |-> b.since]
                  ELSE b

\* Mutant of Admits: off by one at the HALF_OPEN limit.
AdmitsOneMore(b) == \/ Probed(b).state = "closed"
                    \/ Probed(b).state = "half_open" /\ Probed(b).trials <= HalfOpenMax

\* call() lets the function run (otherwise it raises CircuitBreakerError).
Admits(b) == \/ Probed(b).state = "closed"
             \/ Probed(b).state = "half_open" /\ Probed(b).trials < HalfOpenMax

\* The breaker after an admitted call left the critical section.
Admitted(b) == IF Probed(b).state = "half_open"
                 THEN [Probed(b) EXCEPT !.trials = @ + 1]
                 ELSE b

\* reset() clears the state but keeps last_failure_time ...
Cleared(b) == [state |-> "closed", failures |-> 0, trials |-> 0, since |-> b.since]

\* ... and so does _on_success(), whatever state the breaker is in by now.
OnSuccess(b) == Cleared(b)

\* failure_count after one more failure.
OneMore(n) == IF n < Threshold THEN n + 1 ELSE n

\* The state _on_failure() leaves: it looks at the count only.
Tripped(b) == IF OneMore(b.failures) = Threshold THEN "open" ELSE b.state

OnFailure(b) ==
    [state |-> Tripped(b), failures |-> OneMore(b.failures), trials |-> b.trials, since |-> 0]

IsAvailable(b) == b.state = "open" => b.since > Recovery

Aged(b) == [b EXCEPT !.since = IF @ > Recovery THEN @ ELSE @ + 1]
===============================================================================
