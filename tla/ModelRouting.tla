---------------------------- MODULE ModelRouting ----------------------------
(***************************************************************************)
(* Which provider, model and fallbacks a task is routed to: the model      *)
(* configuration manager (app/llm_gateway/config_manager.py) and the       *)
(* requests that change it at run time (app/api/routes/model_config.py).   *)
(* Rules come from four places, in this order: requests, environment       *)
(* variables, the YAML file, the code.  A rule is found under the name of  *)
(* its task or of the layer of the task.                                   *)
(*                                                                         *)
(* Temperature, timeout and the other plain fields of a rule behave like   *)
(* its model and are left out, and so is the type of the model.  A list of *)
(* fallbacks is one value; requests name tasks, providers and models that  *)
(* are not empty.                                                          *)
(***************************************************************************)
EXTENDS Integers, Sequences

CONSTANTS
    Tasks,          \* names of tasks and layers, as requests spell them
    Normal,         \* task -> the name without capitals and hyphens
    Layer,          \* task -> the layer it belongs to (a layer: itself)
    Providers, Names,    \* names of models
    Chains, NoChain,     \* lists of fallbacks, and the empty one
    Environment,    \* environment variables: name split at "__" -> value
    FileModels,     \* providers of the YAML file: some of Providers -> default_model
    FileRules,      \* routing rules of the YAML file: some of Tasks -> rule
    DefaultRules,   \* layer -> rule in the code
    MaxRequests

Rule == [provider : Providers \union {""}, model : Names \union {""}, fallbacks : Chains]

\* What the constants have to satisfy; Services assumes it.
RoutingAssumption ==
    /\ "" \notin Tasks \union Providers \union Names
    /\ Normal \in [Tasks -> Tasks] /\ Layer \in [Tasks -> Tasks]
    /\ \A t \in Tasks : /\ Normal[Normal[t]] = Normal[t] /\ Layer[Normal[t]] = Layer[t]
                        /\ Layer[Layer[t]] = Layer[t] /\ Normal[Layer[t]] = Layer[t]
    /\ NoChain \in Chains
    /\ DOMAIN FileModels \subseteq Providers
    /\ \A p \in DOMAIN FileModels : FileModels[p] \in STRING
    /\ DOMAIN FileRules \subseteq Tasks /\ \A t \in DOMAIN FileRules : FileRules[t] \in Rule
    /\ DefaultRules \in [{Layer[t] : t \in Tasks} -> [provider : Providers, model : Names, fallbacks : Chains]]
    /\ MaxRequests \in Nat

VARIABLES
    runtime,     \* _runtime_routing: some of Tasks -> rule
    models,      \* _runtime_config: some of Providers -> default_model
    request,     \* the last request: its task and the fields it gives
    requests     \* number of requests so far

vars == <<runtime, models, request, requests>>

NoRequest == [task |-> "", fields |-> <<>>]

Init == /\ runtime = <<>> /\ models = <<>>
        /\ request = NoRequest /\ requests = 0

-------------------------------------------------------------------------------
(* Reading.                                                                *)

\* Settings.get_routing_env: names with at least four parts, whose third is
\* the task and whose fourth the field.
Read == {n \in DOMAIN Environment : n[1] = "MODEL_ROUTING" /\ Len(n) >= 4}
EnvironmentField(task, field) ==
    LET given == {n \in Read : n[3] = task /\ n[4] = field}
    IN  IF given = {} THEN "" ELSE Environment[CHOOSE n \in given : TRUE]
EnvironmentRules ==
    [t \in {n[3] : n \in Read} |->
        [provider |-> EnvironmentField(t, "provider"), model |-> EnvironmentField(t, "model"),
         fallbacks |-> NoChain]]

\* _routing_candidates: a rule for the task itself comes before one for its
\* layer.
Candidate(task, rules) ==
    IF Normal[task] \in DOMAIN rules THEN {Normal[task]} ELSE {Layer[task]} \intersect DOMAIN rules

\* _default_rule: by the layer.
DefaultRule(task) == DefaultRules[Layer[task]]

\* get_routing_rule.
RuleFor(task) ==
    LET From(rules) == rules[CHOOSE t \in Candidate(task, rules) : TRUE]
    IN  CASE Candidate(task, runtime) # {} -> From(runtime)
          [] Candidate(task, runtime) = {} /\ Candidate(task, EnvironmentRules) # {} -> From(EnvironmentRules)
          [] Candidate(task, runtime) = {} /\ Candidate(task, EnvironmentRules) = {}
               /\ Candidate(task, FileRules) # {} -> From(FileRules)
          [] OTHER -> DefaultRule(task)

Or(given, otherwise) == IF given = "" THEN otherwise ELSE given

\* _get_default_config, for language models; others have no default.
CodeModel(provider) ==
    CASE provider = "deepseek" -> "deepseek-chat"
      [] provider = "openai" -> "gpt-4o-mini"
      [] provider = "anthropic" -> "claude-sonnet-4-6"
      [] OTHER -> ""

\* get_model_config_env: the one variable with this name.
EnvironmentModel(provider) ==
    LET name == <<"MODEL_CONFIG", "llm", provider, "default_model">>
    IN  IF name \in DOMAIN Environment THEN Environment[name] ELSE ""

FileModel(provider) == IF provider \in DOMAIN FileModels THEN FileModels[provider] ELSE ""

\* get_config: what a request has set, be it empty, comes first; the others
\* give way when they are empty.
DefaultModel(provider) ==
    IF provider \in DOMAIN models THEN models[provider]
    ELSE Or(EnvironmentModel(provider), Or(FileModel(provider), CodeModel(provider)))

\* resolve_rule, with the provider and the model a call asks for.  Only a rule
\* of a request can be without fallbacks.
Resolve(task, provider, model) ==
    LET rule == RuleFor(task)
        code == DefaultRule(task)
        asked == IF provider # "" /\ model = "" THEN DefaultModel(provider) ELSE model
    IN  [provider |-> Or(Or(provider, rule.provider), code.provider),
         model |-> Or(Or(asked, rule.model), code.model),
         fallbacks |-> IF rule.fallbacks = NoChain /\ Candidate(task, runtime) = {}
                       THEN code.fallbacks ELSE rule.fallbacks]

Routed(task) == Resolve(task, "", "")

-------------------------------------------------------------------------------
(* Requests.  Each is one step: there is no await in them.                 *)

\* A dictionary with what is given in the place of what there was.
Overlay(given, before) ==
    [x \in DOMAIN given \union DOMAIN before |-> IF x \in DOMAIN given THEN given[x] ELSE before[x]]

Counted == /\ requests < MaxRequests
           /\ requests' = requests + 1

\* Mutant: fields that are not given come from the rule in the code.
PutRoutingOverDefaults(task, fields) ==
    /\ Counted
    /\ runtime' = Overlay([t \in {task} |-> Overlay(fields, DefaultRule(task))], runtime)
    /\ request' = [task |-> task, fields |-> fields]
    /\ UNCHANGED models

\* PUT /model-config/routing: the whole rule as it resolves now, with the
\* fields given, is stored under the name as the request spells it.
PutRouting(task, fields) ==
    /\ Counted
    /\ runtime' = Overlay([t \in {task} |-> Overlay(fields, Routed(task))], runtime)
    /\ request' = [task |-> task, fields |-> fields]
    /\ UNCHANGED models

\* update_config: what is given takes the place of what there was.
Updated(given) == Overlay(given, models)

\* PUT /model-config: the default model of a provider.
PutConfig(provider, model) ==
    /\ Counted
    /\ models' = Updated([p \in {provider} |-> model])
    /\ request' = NoRequest
    /\ UNCHANGED runtime

\* DELETE /model-config/runtime.
Reset ==
    /\ Counted
    /\ runtime' = <<>> /\ models' = <<>>
    /\ request' = NoRequest

\* Any of the fields of a PUT may be missing.
Next == \/ \E task \in Tasks, given \in SUBSET {"provider", "model", "fallbacks"} :
           \E rule \in [provider : Providers, model : Names, fallbacks : Chains] :
              PutRouting(task, [f \in given |-> rule[f]])
        \/ \E provider \in Providers, model \in Names \union {""} : PutConfig(provider, model)
        \/ Reset

Spec == Init /\ [][Next]_vars

-------------------------------------------------------------------------------
\* A request on a task changes for that task the fields it gives and no other
\* one, whatever rule the task had before, from wherever; and tasks without a
\* rule of their own follow their layer.  An emptied list of fallbacks thus
\* stays empty through later requests.  The name has to be in normal form.
PutChangesWhatItNames ==
    [][\A task \in Tasks : requests' # requests /\ request'.task = task /\ Normal[task] = task =>
          /\ \A f \in {"provider", "model", "fallbacks"} :
                Routed(task)'[f] = IF f \in DOMAIN request'.fields THEN request'.fields[f]
                                                                 ELSE Routed(task)[f]
          /\ \A t \in Tasks : Layer[t] = task /\ Normal[t] \notin DOMAIN runtime' =>
                Routed(t)' = Routed(task)']_vars

\* config/model-routing.yaml:1, .env.example:70: environment variables
\* override the file.
EnvironmentOverrides ==
    \A n \in DOMAIN Environment : \A t \in Tasks :
        n = <<"MODEL_ROUTING", t, "provider">> /\ Candidate(t, runtime) = {} =>
            Routed(t).provider = Environment[n]
=============================================================================
