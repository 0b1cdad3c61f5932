----------------------------- MODULE RateLimiter -----------------------------
(***************************************************************************)
(* app/llm_gateway/rate_limiter.py: the sliding-window limiter in front of *)
(* every LLM call, for one workspace (_request_log and _custom_limits are  *)
(* keyed by the workspace and never mixed).                                *)
(*                                                                         *)
(* reserve() is two critical sections under a threading.Lock: check() and, *)
(* "because there may be concurrent writes in between", a second check     *)
(* with the append.  The requests are the threads and coroutines of the    *)
(* gateway.                                                                *)
(*                                                                         *)
(* _request_log is a list in the order of its timestamps (every append     *)
(* reads the monotonic clock under the lock), so it is kept as a set of    *)
(* entries whose oldest one is log[0].  An entry has its age instead of    *)
(* its timestamp: ts > now - window is age < Window, and an age of Window  *)
(* or more is kept as Window.                                              *)
(***************************************************************************)
EXTENDS Integers, FiniteSetsExt

CONSTANTS
    Requests,     \* each one reserves at most once; it is its reservation_id
    Window,       \* _window_seconds, in clock ticks
    Estimates,    \* estimated_tokens the callers pass (the caller's own number
                  \* when it gives one, which may be negative)
    Usages,       \* actual tokens of a finished call
    RpmLimits,    \* requests per window, 0: not limited
    TpmLimits     \* tokens per window, 0: not limited

\* What the constants have to satisfy; Services assumes it.
LimiterAssumption ==
    /\ IsFiniteSet(Requests)
    /\ Window \in Nat \ {0}
    /\ Estimates \subseteq Int
    /\ Usages \subseteq Int
    /\ RpmLimits \subseteq Nat /\ RpmLimits # {}
    /\ TpmLimits \subseteq Nat /\ TpmLimits # {}

VARIABLES
    log,       \* _request_log
    rpm, tpm,  \* the limits in force
    pc,        \* where each request is
    charge,    \* its estimate, then the usage it was reconciled with
    counted    \* history: its age since it was last appended to the log

vars == <<log, rpm, tpm, pc, charge, counted>>

Entry(r, age, tokens) == [id |-> r, age |-> age, tokens |-> tokens]

Entries == [id : Requests, age : 0 .. Window, tokens : Nat]

TypeOK ==
    /\ log \subseteq Entries
    /\ rpm \in RpmLimits
    /\ tpm \in TpmLimits
    /\ pc \in [Requests -> {"new", "checked", "refused", "held", "settled", "abandoned"}]
    /\ charge \in [Requests -> Nat]
    /\ counted \in [Requests -> 0 .. Window]

Init == /\ log = {}
        /\ rpm \in RpmLimits
        /\ tpm \in TpmLimits
        /\ pc = [r \in Requests |-> "new"]
        /\ charge = [r \in Requests |-> 0]
        /\ counted = [r \in Requests |-> Window]

-------------------------------------------------------------------------------
(* Pure parts.                                                             *)

\* max(0, tokens)
Amount(tokens) == IF tokens < 0 THEN 0 ELSE tokens

\* The entries with ts > cutoff.
Recent(entries) == { e \in entries : e.age < Window }

Tokens(entries) == MapThenSumSet(LAMBDA e : e.tokens, entries)

\* Neither of the two limits refuses the request.
Fits(entries, tokens) ==
    /\ rpm = 0 \/ Cardinality(entries) < rpm
    /\ tpm = 0 \/ Tokens(entries) + tokens <= tpm

\* The same entries some ticks later.
Later(entries, ticks) ==
    { [e EXCEPT !.age = Min({e.age + ticks, Window})] : e \in entries }

-------------------------------------------------------------------------------
(* reserve()                                                               *)

\* The first critical section: check() purges the log and compares.
Check(r) ==
    /\ pc[r] = "new"
    /\ \E estimate \in Estimates :
         /\ charge' = [charge EXCEPT ![r] = Amount(estimate)]
         /\ log' = Recent(log)
         /\ pc' = [pc EXCEPT ![r] = IF Fits(Recent(log), Amount(estimate))
                                      THEN "checked" ELSE "refused"]
    /\ UNCHANGED <<rpm, tpm, counted>>

\* Mutant of Reserve: the log is appended to without comparing again.
ReserveBlindly(r) ==
    /\ pc[r] = "checked"
    /\ log' = Recent(log) \union {Entry(r, 0, charge[r])}
    /\ pc' = [pc EXCEPT ![r] = "held"]
    /\ counted' = [counted EXCEPT ![r] = 0]
    /\ UNCHANGED <<rpm, tpm, charge>>

\* The second one: purge and compare again, then append.
Reserve(r) ==
    /\ pc[r] = "checked"
    /\ IF Fits(Recent(log), charge[r])
         THEN /\ log' = Recent(log) \union {Entry(r, 0, charge[r])}
              /\ pc' = [pc EXCEPT ![r] = "held"]
              /\ counted' = [counted EXCEPT ![r] = 0]
         ELSE /\ log' = Recent(log)
              /\ pc' = [pc EXCEPT ![r] = "refused"]
              /\ UNCHANGED counted
    /\ UNCHANGED <<rpm, tpm, charge>>

\* Mutant of Reconcile: the usage is always appended, as for a lost entry.
ReconcileAppends(r) ==
    /\ pc[r] = "held"
    /\ \E usage \in Usages :
         /\ charge' = [charge EXCEPT ![r] = Amount(usage)]
         /\ log' = log \union {Entry(r, 0, Amount(usage))}
         /\ counted' = [counted EXCEPT ![r] = 0]
    /\ pc' = [pc EXCEPT ![r] = "settled"]
    /\ UNCHANGED <<rpm, tpm>>

(* reconcile(): the reserved tokens become the used ones; when the entry   *)
(* was purged meanwhile (the call outlived the window) the usage is        *)
(* appended as a new entry.  Nothing is purged or compared.                *)
Reconcile(r) ==
    /\ pc[r] = "held"
    /\ \E usage \in Usages :
         /\ charge' = [charge EXCEPT ![r] = Amount(usage)]
         /\ IF \E e \in log : e.id = r
              THEN /\ log' = { [e EXCEPT !.tokens = IF e.id = r THEN Amount(usage) ELSE @]
                                 : e \in log }
                   /\ UNCHANGED counted
              ELSE /\ log' = log \union {Entry(r, 0, Amount(usage))}
                   /\ counted' = [counted EXCEPT ![r] = 0]
    /\ pc' = [pc EXCEPT ![r] = "settled"]
    /\ UNCHANGED <<rpm, tpm>>

(* The caller is cancelled, or an embedding or reranking capability raises *)
(* (LLMGateway.embed and rerank have no finally): nobody reconciles.       *)
Abandon(r) ==
    /\ pc[r] = "held"
    /\ pc' = [pc EXCEPT ![r] = "abandoned"]
    /\ UNCHANGED <<log, rpm, tpm, charge, counted>>

-------------------------------------------------------------------------------
SetLimit == /\ rpm' \in RpmLimits
            /\ tpm' \in TpmLimits
            /\ UNCHANGED <<log, pc, charge, counted>>

\* reset() of the workspace: the window starts anew.
Reset == /\ log' = {}
         /\ counted' = [r \in Requests |-> Window]
         /\ UNCHANGED <<rpm, tpm, pc, charge>>

Tick == /\ log' = Later(log, 1)
        /\ counted' = [r \in Requests |-> Min({counted[r] + 1, Window})]
        /\ UNCHANGED <<rpm, tpm, pc, charge>>

Next == \/ \E r \in Requests : Check(r) \/ Reserve(r) \/ Reconcile(r) \/ Abandon(r)
        \/ SetLimit
        \/ Reset
        \/ Tick

Spec == Init /\ [][Next]_vars

-------------------------------------------------------------------------------
(* Properties.                                                             *)

\* The requests that entered the window less than Window ago.
InWindow == { r \in Requests : counted[r] < Window }

(* The log is the true account of the window: every request that entered   *)
(* it is there, exactly once and with the tokens it is charged by now, and *)
(* nothing else is, apart from entries that are out of date and will be    *)
(* purged.  check() and reserve() count nothing but the log.               *)
LogIsTheWindow ==
    Recent(log) = { Entry(r, counted[r], charge[r]) : r \in InWindow }

(* A request is admitted only while the requests of the window, itself     *)
(* included, are within both limits, whatever other callers did between    *)
(* the two critical sections of reserve().                                 *)
AdmittedWithinLimits ==
    [][\A r \in Requests : pc[r] # "held" /\ pc'[r] = "held" =>
          /\ rpm # 0 => Cardinality(InWindow') <= rpm
          /\ tpm # 0 => MapThenSumSet(LAMBDA q : charge'[q], InWindow') <= tpm]_vars
===============================================================================
