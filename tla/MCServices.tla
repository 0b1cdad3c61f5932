----------------------------- MODULE MCServices -----------------------------
\* The constants of Services that are functions, relations or made of others.
EXTENDS Services, MCKnowledge, TLC

CONSTANTS p1, p2, p3, p4, c1, c2

\* p2 is similar to both of the others, which are not similar to each other; p4 is the
\* text of p2 with an image.
MCPrompts == {p1, p2, p3, p4}
MCSimilar == (MCPrompts \X MCPrompts) \ {<<p1, p3>>, <<p3, p1>>}

\* A layer, one of its tasks, and the same task as a request may spell it.
MCTaskNames == {"analysis", "analysis_x", "Analysis-X"}
MCNormal == [t \in MCTaskNames |-> IF t = "Analysis-X" THEN "analysis_x" ELSE t]
MCLayer == [t \in MCTaskNames |-> "analysis"]
MCProviders == {"deepseek", "openai"}
MCModelNames == {"deepseek-chat", "gpt-4o"}
MCChains == {c1, c2, NoChain}
MCRule(chain) == [provider |-> "deepseek", model |-> "deepseek-chat", fallbacks |-> chain]
MCEnvironment == <<"MODEL_ROUTING", "analysis", "provider">> :> "openai"
                   @@ <<"MODEL_CONFIG", "llm", "openai", "default_model">> :> "gpt-4o"
MCFileModels == "openai" :> "gpt-4o-mini"
MCFileRules == "analysis" :> MCRule(c1)
MCDefaultRules == "analysis" :> MCRule(c2)

\* The vectors of one remote model fit the column, those of the other do not; a
\* refused call has one number.
MCDimension == "cohere" :> Column @@ "openai" :> Column + 1
               @@ "local" :> Column @@ "zero" :> Column @@ "limited" :> 1

\* The two actors of one kind are alike; only one service runs, so the actors of all
\* kinds are exchanged together.
Kinds == {Builds, Callers, Spenders, Runs, Visitors, Scripts}
Exchanged(m) == CHOOSE n \in UNION {alike \in Kinds : m \in alike} : n # m
MCAlike == {[m \in UNION Kinds |-> IF exchange THEN Exchanged(m) ELSE m] : exchange \in BOOLEAN}

\* A budget for the week, then one week as the period, and a period there is not.
MCGiven == {[weekly |-> 3], [period |-> "weekly"], [period |-> "daily"]}

\* One caller passes a negative number.
MCEstimates == {-1, 2}
=============================================================================
