----------------------------- MODULE MCPthread -----------------------------
(* Pthread with a few threads, mutexes and condition variables.            *)
EXTENDS Pthread

CONSTANT MaxMutexesWaited \* bound on the mutexes once a thread has waited

MCNext ==
  /\ ThreadNext
  /\ waited' => Cardinality(DOMAIN mutexes') <= MaxMutexesWaited
MCFairSpec == ThreadInit /\ [][MCNext]_threadVars /\ WF_threadVars(MCNext)
=============================================================================
