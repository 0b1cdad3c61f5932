------------------------------- MODULE Budget -------------------------------
(***************************************************************************)
(* The budget of one workspace (app/llm_gateway/budget_controller.py):     *)
(* calls of the gateway check it before they choose a model and record     *)
(* their cost long after, and updates of its configuration read, merge and *)
(* write it without a transaction around the three.                        *)
(*                                                                         *)
(* The store may fail in any access; the controller goes on with defaults  *)
(* and with a cost of zero.  The alert threshold is not updated here: what *)
(* happens to it happens to the other fields too.  LLMGateway models the   *)
(* rest of a call; here it has the price of its model.                     *)
(***************************************************************************)
EXTENDS Integers, FiniteSets

CONSTANTS
    Calls, Updates,
    Given,          \* the fields an update may name, with their values
    DefaultBudget,  \* BUDGET_DEFAULT_MONTHLY_USD
    Threshold,      \* alert_threshold, in tenths
    Prices,         \* what a call may cost
    Dearest,        \* the most of them
    MaxSpent        \* bound: no call starts when this much is spent

Periods == {"weekly", "monthly"}
Config == [monthly : Nat, weekly : Nat, period : Periods, downgrade : BOOLEAN]

\* _default_config.
Default == [monthly |-> DefaultBudget, weekly |-> 0, period |-> "monthly", downgrade |-> TRUE]

\* What the constants have to satisfy; Services assumes it.
BudgetAssumption ==
    /\ IsFiniteSet(Calls)
    /\ DefaultBudget \in Nat
    /\ \A g \in Given : /\ DOMAIN g \subseteq DOMAIN Default
                        /\ \A f \in DOMAIN g : /\ f \in {"monthly", "weekly"} => g[f] \in Nat
                                               /\ f = "downgrade" => g[f] \in BOOLEAN
    /\ Prices \subseteq Nat /\ \A price \in Prices : price <= Dearest
    /\ MaxSpent \in Nat /\ {Dearest, Threshold} \subseteq Nat \ {0}

VARIABLES
    row,       \* the row of budget_configs: <<>> before there is one
    spent,     \* period -> cost in the ledger since it began
    kept,      \* history: period -> cost of the calls that kept their model, while
               \* calm, since the configuration was last written
    call,      \* call -> how far it is and the configuration it has read
    update,    \* update -> how far it is, what it names, writes and has found
    calm,      \* history: no access of a call has failed
    wanted,    \* history: what the updates have asked for in turn, while serial
    serial     \* history: no read for an update has failed, no two overlapped

callVars == <<spent, kept, call>>
updateVars == <<row, update, wanted, serial>>
vars == <<callVars, updateVars, calm>>

Idle == [step |-> "idle", config |-> Default]
Over(step) == [step |-> step, given |-> <<>>, config |-> Default, found |-> <<>>]
Nothing == [p \in Periods |-> 0]

Init == /\ row = <<>>
        /\ spent = Nothing /\ kept = Nothing
        /\ call = [c \in Calls |-> Idle]
        /\ update = [u \in Updates |-> Over("new")]
        /\ calm = TRUE /\ wanted = Default /\ serial = TRUE

\* {**lower, **upper}: the fields of both, where the upper one has its way.
Overlay(upper, lower) ==
    [f \in DOMAIN upper \union DOMAIN lower |-> IF f \in DOMAIN upper THEN upper[f] ELSE lower[f]]

\* get_budget_config: what is stored, over the defaults.
Stored == Overlay(row, Default)

-------------------------------------------------------------------------------
(* Calls.                                                                  *)

\* The account of the calls that kept their model, which ends when the calm does.
Disturbed(now, account) == /\ calm' = (calm /\ ~now)
                           /\ kept' = IF calm' THEN account ELSE Nothing

\* check(), up to the configuration.
ReadConfig(c) ==
    /\ call[c].step = "idle" /\ \A p \in Periods : spent[p] < MaxSpent
    /\ \E config \in {Stored, Default}, fails \in BOOLEAN :
         /\ config = IF fails THEN Default ELSE Stored
         /\ call' = [call EXCEPT ![c] = [step |-> "check", config |-> config]]
         /\ Disturbed(fails, kept)
    /\ UNCHANGED <<spent, updateVars>>

\* A budget of zero is no budget: the default one of a month takes its place,
\* for a week too.
Amount(config) == LET amount == config[config.period]
                  IN  IF amount = 0 THEN DefaultBudget ELSE amount

Downgrades(config, cost) ==
    config.downgrade /\ Amount(config) > 0 /\ 10 * cost >= Threshold * Amount(config)

\* Mutant: the cost of the week, whatever the period.
PeriodCostOfWeek(period) == spent["weekly"]

\* get_period_cost, get_cost: since the start of this week or month.
PeriodCost(period) == spent[period]

\* check(), from the ledger on; _apply_budget_downgrade.
Check(c) ==
    /\ call[c].step = "check"
    /\ \E fails \in BOOLEAN :
         LET config == call[c].config
             cost == IF fails THEN 0 ELSE PeriodCost(config.period)
         IN  /\ call' = [call EXCEPT ![c].step = IF Downgrades(config, cost) THEN "downgraded" ELSE "kept"]
             /\ Disturbed(fails, kept)
    /\ UNCHANGED <<spent, updateVars>>

Add(account, amount) == [p \in Periods |-> account[p] + amount]

\* record_cost: one more row of the ledger.
RecordCost(cost) == spent' = Add(spent, cost)

\* record_usage: what the store raises is swallowed.  A downgrade leaves the model
\* asked for among the fallbacks, and a fallback may cost more than the model it
\* replaces: whatever was decided, the call costs what the model that answers costs.
Record(c) ==
    /\ call[c].step \in {"kept", "downgraded"}
    /\ \E price \in Prices, fails \in BOOLEAN :
         /\ IF fails THEN UNCHANGED spent ELSE RecordCost(price)
         /\ Disturbed(fails, IF call[c].step = "kept" THEN Add(kept, price) ELSE kept)
    /\ call' = [call EXCEPT ![c] = Idle]
    /\ UNCHANGED updateVars

\* _period_start moves on.
NewPeriod(p) ==
    /\ spent[p] > 0
    /\ spent' = [spent EXCEPT ![p] = 0] /\ kept' = [kept EXCEPT ![p] = 0]
    /\ UNCHANGED <<call, updateVars, calm>>

-------------------------------------------------------------------------------
(* Updates: set_budget_config.                                             *)

At(u, step) == update[u].step = step

\* Mutant: what is stored is replaced, not merged.
MergeDefaults(given, stored) == Overlay(given, Default)

\* The fields named take the place of those read.
Merge(given, stored) == Overlay(given, stored)

\* get_budget_config, and the merge; another period than the two is refused.
ReadForUpdate(u) ==
    /\ At(u, "new")
    /\ \E given \in Given, fails \in BOOLEAN :
         LET config == Merge(given, IF fails THEN Default ELSE Stored)
         IN  /\ update' = [update EXCEPT ![u] =
                   IF config.period \in Periods
                   THEN [Over("read") EXCEPT !.given = given, !.config = config]
                   ELSE Over("refused")]
             /\ serial' = (serial /\ ~fails /\ \A v \in Updates : update[v].step \notin {"read", "found"})
             /\ wanted' = IF serial' THEN wanted ELSE Default
    /\ UNCHANGED <<callVars, row, calm>>

\* PostgresBudgetStore.set_config: the row, or a new one.
Find(u) ==
    /\ At(u, "read")
    /\ update' = [update EXCEPT ![u].step = "found", ![u].found = row]
    /\ UNCHANGED <<callVars, row, calm, wanted, serial>>

\* The commit writes the columns that have changed since; a second row for the
\* workspace is refused.
Commit(u) ==
    LET found == update[u].found
        config == update[u].config
        changed == {f \in DOMAIN config : found = <<>> \/ found[f] # config[f]}
    IN  /\ At(u, "found")
        /\ IF found = <<>> /\ row # <<>>
             THEN /\ update' = [update EXCEPT ![u] = Over("refused")]
                  /\ UNCHANGED <<row, wanted, calm, kept>>
             ELSE /\ update' = [update EXCEPT ![u] = Over("written")]
                  /\ row' = [f \in DOMAIN config |-> IF f \in changed THEN config[f] ELSE row[f]]
                  /\ wanted' = IF serial THEN Overlay(update[u].given, wanted) ELSE wanted
                  /\ Disturbed(FALSE, Nothing)
        /\ UNCHANGED <<spent, call, serial>>

\* set_config raises: nothing is written.
Raise(u) ==
    /\ update[u].step \in {"read", "found"}
    /\ update' = [update EXCEPT ![u] = Over("raised")]
    /\ UNCHANGED <<callVars, row, calm, wanted, serial>>

Next == \/ \E c \in Calls : ReadConfig(c) \/ Check(c) \/ Record(c)
        \/ \E p \in Periods : NewPeriod(p)
        \/ \E u \in Updates : ReadForUpdate(u) \/ Find(u) \/ Commit(u) \/ Raise(u)

Spec == Init /\ [][Next]_vars

-------------------------------------------------------------------------------
\* The check and the record of a call are far apart, so calls keep their model past
\* the threshold, but no more of them than run at once: what the calls that kept their
\* model cost in the period, under one configuration, is less than the threshold and
\* the dearest call of each caller (budget_controller.py:207, :226).  A downgraded
\* call may cost as much, through its fallbacks (llm_gateway/__init__.py:270), and is
\* not limited; nor is anything by a budget of zero, which the default one may be.
OvershootIsInFlight ==
    calm /\ Stored.downgrade /\ Amount(Stored) > 0 =>
        10 * kept[Stored.period] < Threshold * Amount(Stored) + 10 * Dearest * Cardinality(Calls)

\* What an update has asked for is only lost to a later update of the same field,
\* to an overlapping one, or to an outage of the store when the update before the
\* loss was read, which writes the defaults back (budget_controller.py:257).
UpdatesAccumulate == serial => Stored = wanted
=============================================================================
