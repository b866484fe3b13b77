--------------------------- MODULE MCAgentSession ---------------------------
EXTENDS AgentSession

CONSTANTS x, y, z

EitherMode == {"sync", "async"}
=============================================================================
