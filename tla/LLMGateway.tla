------------------------------ MODULE LLMGateway ------------------------------
(***************************************************************************)
(* LLMGateway.complete() and LLMGateway.stream_complete(): concurrent      *)
(* requests of one workspace share the providers' circuit breakers, the    *)
(* rate limiter and the budget ledger.  Every await is a point where the   *)
(* other requests go on, so the steps below are cut at the awaits that     *)
(* read or write shared state.                                             *)
(*                                                                         *)
(* A target is a (provider, model) pair of a failover chain; of the model  *)
(* only what a call costs matters here.  The limiter's verdict, the limit  *)
(* of the budget and cache hits are left open: RateLimiter, Budget and     *)
(* SemanticCache are about them.                                           *)
(***************************************************************************)
EXTENDS BreakerOps, FiniteSetsExt, Sequences

CONSTANTS
    Requests,         \* calls of complete() and stream_complete()
    Providers,
    Route,            \* the resolved rule: the primary target, then its fallbacks
    DowngradedRoute,  \* the chain _apply_budget_downgrade makes of it
    Limit,            \* ledger total at which should_downgrade is set
    Spent             \* ledger totals the period may start from

Targets == [provider : Providers, cost : Nat]

ASSUME GatewayAssumption ==
    /\ IsFiniteSet(Requests)
    /\ Route \in Seq(Targets) /\ Route # <<>>
    /\ DowngradedRoute \in Seq(Targets) /\ DowngradedRoute # <<>>
    /\ Limit \in Nat
    /\ Spent \subseteq Nat /\ Spent # {}

VARIABLES
    breaker,   \* provider -> its CircuitBreaker
    trial,     \* history: provider -> requests calling it as HALF_OPEN trials
    pc,        \* request -> how far its coroutine is
    kind,      \* request -> which of the two entry points
    chain,     \* request -> the targets its failover loop iterates over
    at,        \* request -> index in chain of this attempt
    usage,     \* request -> its reservation at the rate limiter
    paid,      \* request -> history: costs recorded by the cost tracker
    upset,     \* history: requests with an exception after a cost was recorded
    ledger,    \* total of the budget ledger (LLMCallLog)
    tracked,   \* total of the cost tracker
    lost       \* history: tracked costs that will never reach the ledger

reqvars == <<pc, kind, chain, at, usage, paid, upset>>
moneyvars == <<ledger, tracked, lost>>
vars == <<breaker, trial, reqvars, moneyvars>>

\* Returned to the caller ("done": with a provider's answer), or not at all.
Returned == {"blocked", "limited", "hit", "failed", "done"}
Aborted == {"raised", "cancelled"}
Underway == {"new", "guarded", "reserved", "budgeted", "attempt", "calling", "answered",
             "billed", "counted"}

TypeOK ==
    /\ breaker \in [Providers -> Breaker]
    /\ trial \in [Providers -> SUBSET Requests]
    /\ pc \in [Requests -> Underway \union Returned \union Aborted]
    /\ kind \in [Requests -> {"complete", "stream"}]
    /\ chain \in [Requests -> Seq(Targets)]
    /\ at \in [Requests -> Nat \ {0}]
    /\ \A r \in Requests : pc[r] \in {"attempt", "calling", "answered", "billed", "counted"}
                              => at[r] \in DOMAIN chain[r]
    /\ usage \in [Requests -> {"none", "held", "zero", "used"}]
    /\ paid \in [Requests -> Nat]
    /\ upset \subseteq Requests
    /\ ledger \in Nat /\ tracked \in Nat /\ lost \in Nat

Init == /\ breaker = [p \in Providers |-> NewBreaker]
        /\ trial = [p \in Providers |-> {}]
        /\ pc = [r \in Requests |-> "new"]
        /\ kind \in [Requests -> {"complete", "stream"}]
        /\ chain = [r \in Requests |-> Route]
        /\ at = [r \in Requests |-> 1]
        /\ usage = [r \in Requests |-> "none"]
        /\ paid = [r \in Requests |-> 0]
        /\ upset = {}
        /\ ledger \in Spent
        /\ tracked = ledger
        /\ lost = 0

Target(r) == chain[r][at[r]]
Provider(r) == Target(r).provider

-------------------------------------------------------------------------------
(* Before the failover loop.                                               *)

Guard(r, next) == /\ pc[r] = "new"
                  /\ pc' = [pc EXCEPT ![r] = next]
                  /\ UNCHANGED <<breaker, trial, kind, chain, at, usage, paid, upset, moneyvars>>

(* _guard_input: the timeout guardrail blocks when no breaker of the       *)
(* resolved route is available; the others look at the text.               *)
GuardInput(r) == \/ Guard(r, "blocked")
                 \/ /\ \E i \in DOMAIN Route : IsAvailable(breaker[Route[i].provider])
                    /\ Guard(r, "guarded")

\* rate_limiter.reserve().
Reserve(r) ==
    /\ pc[r] = "guarded"
    /\ \/ /\ pc' = [pc EXCEPT ![r] = "limited"]
          /\ UNCHANGED usage
       \/ /\ pc' = [pc EXCEPT ![r] = "reserved"]
          /\ usage' = [usage EXCEPT ![r] = "held"]
    /\ UNCHANGED <<breaker, trial, kind, chain, at, paid, upset, moneyvars>>

\* budget_controller.check(): a ledger that cannot be read counts as empty.
BudgetCheck(r) ==
    /\ pc[r] = "reserved"
    /\ \E total \in {ledger, 0} :
          chain' = [chain EXCEPT ![r] = IF total >= Limit THEN DowngradedRoute ELSE Route]
    /\ pc' = [pc EXCEPT ![r] = "budgeted"]
    /\ UNCHANGED <<breaker, trial, kind, at, usage, paid, upset, moneyvars>>

CacheHit(r) == /\ pc[r] = "budgeted"
               /\ pc' = [pc EXCEPT ![r] = "hit"]
               /\ usage' = [usage EXCEPT ![r] = "zero"]
               /\ UNCHANGED <<breaker, trial, kind, chain, at, paid, upset, moneyvars>>

\* _configure_route_failover keeps the targets available right now.
Available(targets) ==
    LET kept[i \in 0 .. Len(targets)] ==
            IF i = 0 THEN <<>>
            ELSE IF IsAvailable(breaker[targets[i].provider]) THEN Append(kept[i - 1], targets[i])
            ELSE kept[i - 1]
    IN  kept[Len(targets)]

\* A miss of the cache.
Configure(r) ==
    LET available == Available(chain[r])
    IN  /\ pc[r] = "budgeted"
        /\ chain' = [chain EXCEPT ![r] = available]
        /\ IF available # <<>>
             THEN /\ pc' = [pc EXCEPT ![r] = "attempt"]
                  /\ UNCHANGED usage
             ELSE /\ pc' = [pc EXCEPT ![r] = "failed"]
                  /\ usage' = [usage EXCEPT ![r] = "zero"]
        /\ UNCHANGED <<breaker, trial, kind, at, paid, upset, moneyvars>>

-------------------------------------------------------------------------------
(* The failover loop.                                                      *)

\* Mutant of NextTarget: the reservation is not given back.
NextTargetKeepsHold(r) ==
    /\ IF at[r] < Len(chain[r])
         THEN /\ pc' = [pc EXCEPT ![r] = "attempt"]
              /\ at' = [at EXCEPT ![r] = @ + 1]
         ELSE /\ pc' = [pc EXCEPT ![r] = "failed"]
              /\ UNCHANGED at
    /\ UNCHANGED usage

(* The attempt is over without an answer for the caller.  After the last   *)
(* target the reservation is reconciled with 0 (in stream_complete also    *)
(* when this attempt was already reconciled with its usage).               *)
NextTarget(r) ==
    IF at[r] < Len(chain[r])
      THEN /\ pc' = [pc EXCEPT ![r] = "attempt"]
           /\ at' = [at EXCEPT ![r] = @ + 1]
           /\ UNCHANGED usage
      ELSE /\ pc' = [pc EXCEPT ![r] = "failed"]
           /\ usage' = [usage EXCEPT ![r] = "zero"]
           /\ UNCHANGED at

\* Mutant of Call: is_available is asked instead of the breaker's own admission.
CallIfAvailable(r) ==
    LET b == breaker[Provider(r)]
    IN  /\ pc[r] = "attempt"
        /\ IsAvailable(b)
        /\ pc' = [pc EXCEPT ![r] = "calling"]
        /\ breaker' = [breaker EXCEPT ![Provider(r)] = Admitted(b)]
        /\ trial' = [trial EXCEPT ![Provider(r)] =
                        IF Admitted(b).state # "half_open" THEN {}
                        ELSE (IF Expired(b) THEN {} ELSE @) \union {r}]
        /\ UNCHANGED <<kind, chain, at, usage, paid, upset, moneyvars>>

\* The breaker admits the call and the provider is being awaited.
Call(r) ==
    LET b == breaker[Provider(r)]
    IN  /\ pc[r] = "attempt"
        /\ Admits(b)
        /\ pc' = [pc EXCEPT ![r] = "calling"]
        /\ breaker' = [breaker EXCEPT ![Provider(r)] = Admitted(b)]
        /\ trial' = [trial EXCEPT ![Provider(r)] =
                        IF Admitted(b).state # "half_open" THEN {}
                        ELSE (IF Expired(b) THEN {} ELSE @) \union {r}]
        /\ UNCHANGED <<kind, chain, at, usage, paid, upset, moneyvars>>

\* CircuitBreakerError, or in a stream provider_factory.create() raises first.
Refused(r) ==
    /\ pc[r] = "attempt"
    /\ ~ Admits(breaker[Provider(r)]) \/ kind[r] = "stream"
    /\ NextTarget(r)
    /\ UNCHANGED <<breaker, trial, kind, chain, paid, upset, moneyvars>>

\* The provider raises or runs into asyncio.timeout.
Fail(r) ==
    /\ pc[r] = "calling"
    /\ breaker' = [breaker EXCEPT ![Provider(r)] = OnFailure(@)]
    /\ trial' = [trial EXCEPT ![Provider(r)] =
                    IF breaker'[Provider(r)].state = "half_open" THEN @ \ {r} ELSE {}]
    /\ NextTarget(r)
    /\ UNCHANGED <<kind, chain, paid, upset, moneyvars>>

Answer(r) ==
    /\ pc[r] = "calling"
    /\ breaker' = [breaker EXCEPT ![Provider(r)] = OnSuccess(@)]
    /\ trial' = [trial EXCEPT ![Provider(r)] = {}]
    /\ pc' = [pc EXCEPT ![r] = "answered"]
    /\ UNCHANGED <<kind, chain, at, usage, paid, upset, moneyvars>>

-------------------------------------------------------------------------------
(* After the answer: output guardrail (and cache store, in complete), cost *)
(* tracker, ledger, rate limiter (and cache store, in a stream), result.   *)

Bill(r) == /\ pc[r] = "answered"
           /\ pc' = [pc EXCEPT ![r] = "billed"]
           /\ tracked' = tracked + Target(r).cost
           /\ paid' = [paid EXCEPT ![r] = @ + 1]
           /\ UNCHANGED <<breaker, trial, kind, chain, at, usage, upset, ledger, lost>>

\* Mutants of Account: the usage is not reconciled; both the ledger and the
\* legacy check_and_record() are called.
AccountUnsettled(r) ==
    /\ pc[r] = "billed"
    /\ ledger' = ledger + Target(r).cost
    /\ pc' = [pc EXCEPT ![r] = IF kind[r] = "complete" THEN "done" ELSE "counted"]
    /\ UNCHANGED <<breaker, trial, kind, chain, at, usage, paid, upset, tracked, lost>>

AccountTwice(r) ==
    /\ pc[r] = "billed"
    /\ ledger' = ledger + 2 * Target(r).cost
    /\ usage' = [usage EXCEPT ![r] = "used"]
    /\ pc' = [pc EXCEPT ![r] = IF kind[r] = "complete" THEN "done" ELSE "counted"]
    /\ UNCHANGED <<breaker, trial, kind, chain, at, paid, upset, tracked, lost>>

(* budget_controller.record_usage(), which swallows the errors of its      *)
(* store, and rate_limiter.reconcile() with the tokens used.               *)
Account(r) ==
    /\ pc[r] = "billed"
    /\ \/ ledger' = ledger + Target(r).cost /\ UNCHANGED lost
       \/ lost' = lost + Target(r).cost /\ UNCHANGED ledger
    /\ usage' = [usage EXCEPT ![r] = "used"]
    /\ pc' = [pc EXCEPT ![r] = IF kind[r] = "complete" THEN "done" ELSE "counted"]
    /\ UNCHANGED <<breaker, trial, kind, chain, at, paid, upset, tracked>>

\* stream_complete only: the answer is cached, then given to the caller.
Release(r) == /\ pc[r] = "counted"
              /\ pc' = [pc EXCEPT ![r] = "done"]
              /\ UNCHANGED <<breaker, trial, kind, chain, at, usage, paid, upset, moneyvars>>

\* What a billed request leaves behind when it does not get to Account.
WriteOff(r) == lost' = IF pc[r] = "billed" THEN lost + Target(r).cost ELSE lost

(* One of these steps raises something it does not swallow: complete()     *)
(* passes it on; the "except Exception" of stream_complete() spans them    *)
(* all and goes on to the next target.                                     *)
RaiseAfterwards(r) ==
    /\ pc[r] \in {"answered", "billed", "counted"}
    /\ WriteOff(r)
    /\ upset' = IF pc[r] # "answered" THEN upset \union {r} ELSE upset
    /\ IF kind[r] = "stream"
         THEN NextTarget(r)
         ELSE /\ pc' = [pc EXCEPT ![r] = "raised"]
              /\ UNCHANGED <<at, usage>>
    /\ UNCHANGED <<breaker, trial, kind, chain, paid, ledger, tracked>>

(* The caller's task is cancelled or its generator is closed.  There is no *)
(* finally: the reservation, the HALF_OPEN slot and the cost stay as they  *)
(* are.                                                                    *)
Cancel(r) ==
    /\ pc[r] \in Underway \ {"new"}
    /\ WriteOff(r)
    /\ pc' = [pc EXCEPT ![r] = "cancelled"]
    /\ trial' = IF pc[r] = "calling" THEN [trial EXCEPT ![Provider(r)] = @ \ {r}] ELSE trial
    /\ UNCHANGED <<breaker, kind, chain, at, usage, paid, upset, ledger, tracked>>

-------------------------------------------------------------------------------
Tick == /\ \E p \in Providers : breaker[p].since <= Recovery
        /\ breaker' = [p \in Providers |-> Aged(breaker[p])]
        /\ UNCHANGED <<trial, reqvars, moneyvars>>

Step(r) == \/ GuardInput(r) \/ Reserve(r) \/ BudgetCheck(r) \/ CacheHit(r) \/ Configure(r)
           \/ Call(r) \/ Refused(r) \/ Fail(r) \/ Answer(r)
           \/ Bill(r) \/ Account(r) \/ Release(r) \/ RaiseAfterwards(r)

Next == Tick \/ \E r \in Requests : Step(r) \/ Cancel(r)

Spec == Init /\ [][Next]_vars

-------------------------------------------------------------------------------
(* Properties.                                                             *)

(* Whatever the outcome a caller is given, its reservation was reconciled  *)
(* before (or never made): no return path of the two entry points keeps    *)
(* estimated tokens in the workspace's window.                             *)
ReturnedIsSettled ==
    \A r \in Requests :
        /\ pc[r] \in {"hit", "failed"} => usage[r] = "zero"
        /\ pc[r] = "done" => usage[r] = "used"
        /\ pc[r] \in {"blocked", "limited"} => usage[r] = "none"

(* A request pays for one answer at most, is charged its tokens for it,    *)
(* and an answer it hands out was paid, unless something after the bill    *)
(* raised.  complete() never pays twice even then.                         *)
PaidOnce ==
    \A r \in Requests :
        /\ pc[r] = "done" => paid[r] >= 1
        /\ paid[r] >= 1 /\ pc[r] \in Returned /\ r \notin upset => paid[r] = 1 /\ usage[r] = "used"
        /\ kind[r] = "complete" => paid[r] <= 1

(* The ledger that decides on the downgrade and the cost tracker differ by *)
(* the answers billed but not yet recorded and by what a failing store or  *)
(* an aborted request lost: nothing is recorded twice or without a bill.   *)
LedgerBalances ==
    LET pending == { r \in Requests : pc[r] = "billed" }
    IN  tracked = ledger + lost + MapThenSumSet(LAMBDA r : Target(r).cost, pending)

(* Through all failover loops, each provider's breaker is used by the      *)
(* requests as app/core/circuit_breaker.py prescribes: its limits and its  *)
(* recovery hold for the gateway's concurrent calls.                       *)
CB(p) == INSTANCE CircuitBreaker WITH
            Callers <- Requests,
            br <- breaker[p],
            running <- { r \in Requests : pc[r] = "calling" /\ Provider(r) = p },
            trial <- trial[p],
            healthy <- FALSE

BreakersGuardProviders ==
    /\ \A p \in Providers : CB(p)!Init
    /\ [][\A p \in Providers : CB(p)!Next \/ UNCHANGED CB(p)!vars]_vars
===============================================================================
