------------------------------ MODULE Pthread ------------------------------
(***************************************************************************)
(* The threads of one execution state (SpecialFunctionHandler.cpp,         *)
(* Executor::runNextInstruction): pthread functions are emulated, and the  *)
(* threads take turns, one instruction each, round robin.  A thread that   *)
(* cannot have a mutex joins the mutex's queue and the blocked threads;    *)
(* unlock hands the mutex to the head of the queue.                        *)
(*                                                                         *)
(* What the program does next is arbitrary.  The result a call binds is    *)
(* modelled by what the program learns from it: the mutexes it was told it *)
(* has (holds).                                                            *)
(***************************************************************************)
EXTENDS Integers, Sequences, FiniteSets, Functions

CONSTANTS
  MaxThreads,  \* bound on the threads a program creates
  Mutex, Cond, \* the addresses of mutexes and condition variables
  NoMutex,     \* the address 0
  MaxWaiters   \* bound on the queues of a wait, with its mutex's

ASSUME ThreadsAssumption == MaxThreads \in Nat \ {0}
ASSUME MutexAssumption == NoMutex \notin Mutex

VARIABLES
  maxThreadNumber, \* the threads are 0..maxThreadNumber
  blockedThreads,
  lastTid,         \* the thread that ran last
  mutexes,         \* MutexInfo of the initialised mutexes
  conds,           \* CondInfo of the initialised condition variables
  holds,           \* <<thread, mutex>>: the program was told 0, locked
  status,          \* "run", "exit", or "crash"
  waited           \* history: some thread has called pthread_cond_wait

threadVars == <<maxThreadNumber, blockedThreads, lastTid, mutexes, conds, holds,
          status, waited>>

MutexInfo == [acquired |-> FALSE, owner |-> 0, waiters |-> <<>>]

CondInfo == [binded |-> NoMutex, waiters |-> <<>>]

With(f, x, v) == [y \in DOMAIN f \cup {x} |-> IF y = x THEN v ELSE f[y]]
Without(f, x) == [y \in DOMAIN f \ {x} |-> f[y]]

ThreadInit ==
  /\ maxThreadNumber = 0 /\ blockedThreads = {} /\ lastTid = 0
  /\ mutexes = <<>> /\ conds = <<>> /\ holds = {} /\ status = "run"
  /\ waited = FALSE

-----------------------------------------------------------------------------
(* runNextInstruction.                                                     *)

Runnable == (0..maxThreadNumber) \ blockedThreads

\* Mutant: the smallest thread goes first whenever it can.
IsNextSmallest(t) ==
  /\ status = "run" /\ t \in Runnable
  /\ \A u \in Runnable : t <= u

\* t runs now: the next thread after the last that can, else the first.
IsNext(t) ==
  LET later == {u \in Runnable : u > lastTid}
  IN /\ status = "run" /\ t \in Runnable
     /\ \A u \in IF later = {} THEN Runnable ELSE later : t <= u
     /\ later # {} => t \in later

Step(t) == IsNext(t) /\ lastTid' = t

\* No thread can run: getThread(-1) is NULL.
AllBlocked ==
  /\ status = "run" /\ Runnable = {}
  /\ status' = "crash"
  /\ UNCHANGED <<maxThreadNumber, blockedThreads, lastTid, mutexes, conds,
                 holds, waited>>

\* Any instruction but those below; also the calls that only bind an error.
Local(t) ==
  /\ Step(t)
  /\ UNCHANGED <<maxThreadNumber, blockedThreads, mutexes, conds, holds,
                 status, waited>>

\* pthread_create.
Create(t) ==
  /\ Step(t) /\ maxThreadNumber + 1 < MaxThreads
  /\ maxThreadNumber' = maxThreadNumber + 1
  /\ UNCHANGED <<blockedThreads, mutexes, conds, holds, status, waited>>

\* The first function of any thread returns: the whole state exits.
Return(t) ==
  /\ Step(t) /\ status' = "exit"
  /\ UNCHANGED <<maxThreadNumber, blockedThreads, mutexes, conds, holds,
                 waited>>

-----------------------------------------------------------------------------
(* Mutexes.                                                                *)

\* doMutexLock for the threads q, one after the other.
DoMutexLock(m, info, q) ==
  LET queued == IF info.acquired THEN q ELSE Tail(q)
  IN /\ mutexes' = With(mutexes, m,
          [acquired |-> TRUE,
           owner |-> IF info.acquired THEN info.owner ELSE Head(q),
           waiters |-> info.waiters \o queued])
     /\ blockedThreads' = blockedThreads \cup Range(queued)

\* Mutant: all waiters wake up, the first gets the mutex.
DoMutexUnlockAll(m) ==
  LET info == mutexes[m]
  IN IF info.waiters # <<>>
       THEN /\ mutexes' = [mutexes EXCEPT ![m].owner = Head(info.waiters),
                                          ![m].waiters = <<>>]
            /\ blockedThreads' = blockedThreads \ Range(info.waiters)
       ELSE /\ mutexes' = [mutexes EXCEPT ![m].acquired = FALSE]
            /\ UNCHANGED blockedThreads

\* Mutant: the mutex is released and the head of the queue forgotten.
DoMutexUnlockForgets(m) ==
  /\ mutexes' = [mutexes EXCEPT ![m].acquired = FALSE, ![m].waiters = <<>>]
  /\ UNCHANGED blockedThreads

\* doMutexUnlock: the head of the queue becomes the owner.
DoMutexUnlock(m) ==
  LET info == mutexes[m]
  IN IF info.waiters # <<>>
       THEN /\ mutexes' = [mutexes EXCEPT ![m].owner = Head(info.waiters),
                                          ![m].waiters = Tail(@)]
            /\ blockedThreads' = blockedThreads \ {Head(info.waiters)}
       ELSE /\ mutexes' = [mutexes EXCEPT ![m].acquired = FALSE]
            /\ UNCHANGED blockedThreads

\* pthread_mutex_init; EBUSY if it has been.
MutexInit(t, m) ==
  /\ Step(t) /\ m \notin DOMAIN mutexes
  /\ mutexes' = With(mutexes, m, MutexInfo)
  /\ UNCHANGED <<maxThreadNumber, blockedThreads, conds, holds, status, waited>>

\* pthread_mutex_destroy; EBUSY if it is acquired.
MutexDestroy(t, m) ==
  /\ Step(t) /\ m \in DOMAIN mutexes /\ ~mutexes[m].acquired
  /\ mutexes' = Without(mutexes, m)
  /\ UNCHANGED <<maxThreadNumber, blockedThreads, conds, holds, status, waited>>

\* pthread_mutex_lock; EDEADLK for the owner.  0 is bound before the thread
\* blocks, and seen once it runs again.
MutexLock(t, m) ==
  /\ Step(t) /\ m \in DOMAIN mutexes
  /\ ~(mutexes[m].acquired /\ mutexes[m].owner = t)
  /\ DoMutexLock(m, mutexes[m], <<t>>)
  /\ holds' = holds \cup {<<t, m>>}
  /\ UNCHANGED <<maxThreadNumber, conds, status, waited>>

\* pthread_mutex_trylock; EBUSY if it is acquired.
MutexTrylock(t, m) ==
  /\ Step(t) /\ m \in DOMAIN mutexes /\ ~mutexes[m].acquired
  /\ DoMutexLock(m, mutexes[m], <<t>>)
  /\ holds' = holds \cup {<<t, m>>}
  /\ UNCHANGED <<maxThreadNumber, conds, status, waited>>

\* pthread_mutex_unlock; EPERM unless t is the owner.
MutexUnlock(t, m) ==
  /\ Step(t) /\ m \in DOMAIN mutexes
  /\ mutexes[m].acquired /\ mutexes[m].owner = t
  /\ DoMutexUnlock(m)
  /\ holds' = holds \ {<<t, m>>}
  /\ UNCHANGED <<maxThreadNumber, conds, status, waited>>
-----------------------------------------------------------------------------
(* Condition variables.                                                    *)

\* pthread_cond_init; EBUSY if it has been.
CondInit(t, c) ==
  /\ Step(t) /\ c \notin DOMAIN conds
  /\ conds' = With(conds, c, CondInfo)
  /\ UNCHANGED <<maxThreadNumber, blockedThreads, mutexes, holds, status, waited>>

\* pthread_cond_destroy; EBUSY if there are waiters.
CondDestroy(t, c) ==
  /\ Step(t) /\ c \in DOMAIN conds /\ conds[c].waiters = <<>>
  /\ conds' = Without(conds, c)
  /\ UNCHANGED <<maxThreadNumber, blockedThreads, mutexes, holds, status, waited>>

\* The guard against waiting without the mutex, as C reads it: the code
\* compares the thread with !owner, which is 1 for thread 0 and else 0.
NotOwner(info, t) ==
  ~info.acquired \/ t = (IF info.owner = 0 THEN 1 ELSE 0)

\* pthread_cond_wait; EPERM by the guard, EINVAL with another mutex than the
\* first.  The mutex is given up, and the thread joins the queue; it is not
\* blocked.
CondWait(t, c, m) ==
  /\ Step(t) /\ c \in DOMAIN conds /\ m \in DOMAIN mutexes
  /\ ~NotOwner(mutexes[m], t)
  /\ conds[c].binded \in {NoMutex, m}
  /\ Len(conds[c].waiters) + Len(mutexes[m].waiters) < MaxWaiters
  /\ DoMutexUnlock(m)
  /\ conds' = [conds EXCEPT ![c] =
                 [binded |-> m, waiters |-> Append(@.waiters, t)]]
  /\ holds' = holds \cup {<<t, m>>} /\ waited' = TRUE
  /\ UNCHANGED <<maxThreadNumber, status>>

\* mutexes[ci.binded]: a mutex destroyed meanwhile is made anew.
BindedInfo(m) == IF m \in DOMAIN mutexes THEN mutexes[m] ELSE MutexInfo

\* The first n waiters take the mutex or queue for it.
Wake(c, n) ==
  LET m == conds[c].binded
      q == conds[c].waiters
  IN /\ DoMutexLock(m, BindedInfo(m), SubSeq(q, 1, n))
     /\ conds' = [conds EXCEPT ![c].waiters = SubSeq(q, n + 1, Len(q))]

\* pthread_cond_signal; without a waiter it does nothing.
CondSignal(t, c) ==
  /\ Step(t) /\ c \in DOMAIN conds /\ conds[c].waiters # <<>>
  /\ Wake(c, 1)
  /\ UNCHANGED <<maxThreadNumber, holds, status, waited>>

\* pthread_cond_broadcast.
CondBroadcast(t, c) ==
  /\ Step(t) /\ c \in DOMAIN conds /\ conds[c].waiters # <<>>
  /\ Wake(c, Len(conds[c].waiters))
  /\ UNCHANGED <<maxThreadNumber, holds, status, waited>>

-----------------------------------------------------------------------------
Tid == 0..(MaxThreads - 1)

Stopped == status # "run" /\ UNCHANGED threadVars

ThreadNext ==
  \/ \E t \in Tid : Local(t)
  \/ \E t \in Tid : Create(t)
  \/ \E t \in Tid : Return(t)
  \/ \E t \in Tid, m \in Mutex : MutexInit(t, m)
  \/ \E t \in Tid, m \in Mutex : MutexDestroy(t, m)
  \/ \E t \in Tid, m \in Mutex : MutexLock(t, m)
  \/ \E t \in Tid, m \in Mutex : MutexTrylock(t, m)
  \/ \E t \in Tid, m \in Mutex : MutexUnlock(t, m)
  \/ \E t \in Tid, c \in Cond : CondInit(t, c)
  \/ \E t \in Tid, c \in Cond : CondDestroy(t, c)
  \/ \E t \in Tid, c \in Cond, m \in Mutex : CondWait(t, c, m)
  \/ \E t \in Tid, c \in Cond : CondSignal(t, c)
  \/ \E t \in Tid, c \in Cond : CondBroadcast(t, c)
  \/ AllBlocked
  \/ Stopped

ThreadSpec == ThreadInit /\ [][ThreadNext]_threadVars

\* run() goes on executing instructions of the state.
ThreadFairSpec == ThreadSpec /\ WF_threadVars(ThreadNext)

-----------------------------------------------------------------------------
\* The types of the thread tables of an ExecutionState.
ThreadTypeOK ==
  /\ maxThreadNumber \in Tid /\ blockedThreads \subseteq Tid
  /\ lastTid \in Tid /\ holds \subseteq Tid \X Mutex
  /\ DOMAIN mutexes \subseteq Mutex /\ DOMAIN conds \subseteq Cond
  /\ \A m \in DOMAIN mutexes :
       mutexes[m] \in [acquired : BOOLEAN, owner : Tid, waiters : Seq(Tid)]
  /\ \A c \in DOMAIN conds :
       conds[c] \in [binded : Mutex \cup {NoMutex}, waiters : Seq(Tid)]
  /\ status \in {"run", "exit", "crash"} /\ waited \in BOOLEAN

\* No wake-up is lost: a blocked thread is in the queue of a mutex that is
\* acquired, so that an unlock will come to it, whatever locks, waits, signals
\* and destructions went before.
BlockedIsQueued ==
  \A t \in blockedThreads : \E m \in DOMAIN mutexes :
    mutexes[m].acquired /\ t \in Range(mutexes[m].waiters)

\* A thread that runs and was told it has a mutex is its owner.
HolderIsOwner ==
  \A h \in holds : h[1] \notin blockedThreads =>
    /\ h[2] \in DOMAIN mutexes /\ mutexes[h[2]].acquired
    /\ mutexes[h[2]].owner = h[1]

\* The owner of a mutex is not in its queue, and nobody is there twice.
OwnerNotQueued ==
  \A m \in DOMAIN mutexes :
    /\ mutexes[m].acquired => mutexes[m].owner \notin Range(mutexes[m].waiters)
    /\ IsInjective(mutexes[m].waiters)

\* No two threads are in a critical section: as long as no thread has called
\* pthread_cond_wait, whose threads give up the mutex and run on, a running
\* thread that was told it has a mutex is its owner (doMutexUnlock hands it
\* over); and no thread waits for itself (EDEADLK of handlePthreadMutexLock) or
\* is queued twice.
MutexesExclude == ~waited => HolderIsOwner /\ OwnerNotQueued

\* Round robin starves nobody: a thread that can run does, or blocks before,
\* unless the state stops (runNextInstruction).
RunnableRuns ==
  \A t \in Tid :
    t \in Runnable ~> (lastTid = t \/ t \notin Runnable \/ status # "run")
=============================================================================
