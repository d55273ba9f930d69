-------------------------- MODULE MCLogAgentRoutes --------------------------
(* Small instances of the log agent with the history of its router.        *)
EXTENDS MCLogAgent, LogAgentRoutes
=============================================================================
