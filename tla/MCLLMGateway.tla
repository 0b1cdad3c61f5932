---------------------------- MODULE MCLLMGateway ----------------------------
\* The default route of app/llm_gateway/config_manager.py (deepseek, then
\* openai) and the chain _apply_budget_downgrade makes of it, which names
\* openai twice.  Costs are in units of the cheap model's.
EXTENDS LLMGateway

MCProviders == {"deepseek", "openai"}

MCRoute == << [provider |-> "deepseek", cost |-> 1],
              [provider |-> "openai", cost |-> 2] >>

MCDowngradedRoute == << [provider |-> "openai", cost |-> 1] >> \o MCRoute
=============================================================================
