--------------------------- MODULE MCDeployment ---------------------------
EXTENDS Deployment

\* Bound of the exploration: what follows a stale write, of which
\* ClientCurrent and SettingsKept say nothing, is not explored.
BeforeStaleWrite == ~staleWrite
===========================================================================
