--------------------------- MODULE MCAgentGetters ---------------------------
EXTENDS AgentGetters
=============================================================================
