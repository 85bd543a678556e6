CONSTANTS
  MaxThreads = 3
  Mutex = {m1, m2}
  Cond = {c1}
  NoMutex = NoMutex
  MaxWaiters = 2
  MaxMutexesWaited = 1
SPECIFICATION MCFairSpec
INVARIANTS
  MutexesExclude
  BlockedIsQueued
PROPERTIES
  RunnableRuns
