--------------------------- MODULE MCMcpSessions ---------------------------
EXTENDS McpSessions
MCSpec == SessionsInit /\ [][SessionsNext]_mvars /\ SessionsFairness
=============================================================================
