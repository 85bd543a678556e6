--------------------------- MODULE PthreadProofs ---------------------------
(***************************************************************************)
(* For any number of threads, mutexes and condition variables, no wake-up  *)
(* is lost, and mutexes exclude until a thread waits on a condition        *)
(* variable.                                                               *)
(***************************************************************************)
EXTENDS Pthread, TLAPS

InfoType == [acquired : BOOLEAN, owner : Tid, waiters : Seq(Tid)]

\* The threads in the queue of mutex m.
Queued(m) == Range(mutexes[m].waiters)

\* A condition variable with waiters is bound to the mutex of their waits, and
\* before the first wait there are none.
CondsBound ==
  \A c \in DOMAIN conds : conds[c].waiters # <<>> =>
    conds[c].binded \in Mutex /\ waited

\* Why mutexes exclude before the first wait: a thread that was told it has a
\* mutex is its owner or in its queue, a queue holds each thread once, and only
\* blocked threads, each in one queue.
QueueInv ==
  /\ \A m \in DOMAIN mutexes :
       /\ ~mutexes[m].acquired => mutexes[m].waiters = <<>>
       /\ mutexes[m].acquired => mutexes[m].owner \notin Queued(m)
       /\ IsInjective(mutexes[m].waiters)
       /\ Queued(m) \subseteq blockedThreads
  /\ \A m, n \in DOMAIN mutexes : m # n => Queued(m) \cap Queued(n) = {}
  /\ \A h \in holds :
       /\ h[2] \in DOMAIN mutexes /\ mutexes[h[2]].acquired
       /\ mutexes[h[2]].owner = h[1] \/ h[1] \in Queued(h[2])

PInv == ThreadTypeOK /\ CondsBound /\ BlockedIsQueued /\ (~waited => QueueInv)

-----------------------------------------------------------------------------
\* The threads are numbered by natural numbers.
LEMMA TidNat == Tid \subseteq Nat /\ 0 \in Tid
  BY ThreadsAssumption DEF Tid

\* What entering and replacing a key of a map does.
LEMMA WithFacts ==
  ASSUME NEW f, NEW x, NEW v
  PROVE  /\ DOMAIN With(f, x, v) = DOMAIN f \cup {x}
         /\ With(f, x, v)[x] = v
         /\ \A y \in DOMAIN f : y # x => With(f, x, v)[y] = f[y]
  BY DEF With

\* What erasing a key of a map does.
LEMMA WithoutFacts ==
  ASSUME NEW f, NEW x
  PROVE  /\ DOMAIN Without(f, x) = DOMAIN f \ {x}
         /\ \A y \in DOMAIN f \ {x} : Without(f, x)[y] = f[y]
  BY DEF Without

\* The members of a queue without its head, and of two queues in a row.
LEMMA QueueMembers ==
  ASSUME NEW q \in Seq(Tid)
  PROVE  /\ Range(q) \subseteq Tid
         /\ q # <<>> => /\ Head(q) \in Range(q) /\ Tail(q) \in Seq(Tid)
                        /\ Range(q) = {Head(q)} \cup Range(Tail(q))
         /\ q = <<>> => Range(q) = {}
         /\ \A r \in Seq(Tid) : /\ q \o r \in Seq(Tid)
                                /\ Range(q \o r) = Range(q) \cup Range(r)
<1>1. Range(q) \subseteq Tid /\ (q = <<>> => Range(q) = {})
  BY DEF Range
<1>2. ASSUME q # <<>>
      PROVE  /\ Head(q) \in Range(q) /\ Tail(q) \in Seq(Tid)
             /\ Range(q) = {Head(q)} \cup Range(Tail(q))
  <2>1. /\ Len(q) \in Nat \ {0} /\ DOMAIN q = 1..Len(q) /\ Head(q) = q[1]
        /\ Tail(q) \in Seq(Tid) /\ DOMAIN Tail(q) = 1..(Len(q) - 1)
        /\ \A i \in 1..(Len(q) - 1) : Tail(q)[i] = q[i + 1]
    BY <1>2
  <2>2. Head(q) \in Range(q)
    BY <2>1 DEF Range
  <2>3. Range(Tail(q)) \subseteq Range(q)
    BY <2>1 DEF Range
  <2>4. ASSUME NEW i \in 1..Len(q) PROVE q[i] \in {Head(q)} \cup Range(Tail(q))
    <3>1. CASE i = 1
      BY <2>1, <3>1
    <3>2. CASE i # 1
      <4>1. i - 1 \in 1..(Len(q) - 1) /\ Tail(q)[i - 1] = q[i]
        BY <2>1, <3>2
      <4> QED
        BY <2>1, <4>1, Zenon DEF Range
    <3> QED
      BY <3>1, <3>2
  <2> QED
    BY <2>1, <2>2, <2>3, <2>4 DEF Range
<1>3. ASSUME NEW r \in Seq(Tid)
      PROVE  q \o r \in Seq(Tid) /\ Range(q \o r) = Range(q) \cup Range(r)
  <2>1. /\ q \o r \in Seq(Tid) /\ Len(q) \in Nat /\ Len(r) \in Nat
        /\ DOMAIN q = 1..Len(q) /\ DOMAIN r = 1..Len(r)
        /\ DOMAIN (q \o r) = 1..(Len(q) + Len(r))
        /\ \A i \in 1..(Len(q) + Len(r)) :
             (q \o r)[i] = IF i <= Len(q) THEN q[i] ELSE r[i - Len(q)]
    OBVIOUS
  <2>2. ASSUME NEW i \in 1..(Len(q) + Len(r))
        PROVE  (q \o r)[i] \in Range(q) \cup Range(r)
    <3>1. CASE i <= Len(q)
      <4>1. i \in DOMAIN q /\ (q \o r)[i] = q[i]
        BY <2>1, <3>1
      <4> QED
        BY <4>1, Zenon DEF Range
    <3>2. CASE ~(i <= Len(q))
      <4>1. i - Len(q) \in DOMAIN r /\ (q \o r)[i] = r[i - Len(q)]
        BY <2>1, <3>2
      <4> QED
        BY <4>1, Zenon DEF Range
    <3> QED
      BY <3>1, <3>2
  <2>3. \A i \in 1..Len(q) : q[i] \in Range(q \o r)
    BY <2>1 DEF Range
  <2>4. ASSUME NEW i \in 1..Len(r) PROVE r[i] \in Range(q \o r)
    <3>1. i + Len(q) \in DOMAIN (q \o r) /\ (q \o r)[i + Len(q)] = r[i]
      BY <2>1
    <3> QED
      BY <3>1, Zenon DEF Range
  <2> QED
    BY <2>1, <2>2, <2>3, <2>4, Zenon DEF Range
<1> QED
  BY <1>1, <1>2, <1>3

\* A queue in which nobody is twice: its tail is one, without its head, and so
\* is the queue with a newcomer at the end.
LEMMA QueueOnce ==
  ASSUME NEW q \in Seq(Tid), IsInjective(q)
  PROVE  /\ q # <<>> => IsInjective(Tail(q)) /\ Head(q) \notin Range(Tail(q))
         /\ \A t \in Tid : t \notin Range(q) => IsInjective(q \o <<t>>)
<1>1. ASSUME q # <<>>
      PROVE  IsInjective(Tail(q)) /\ Head(q) \notin Range(Tail(q))
  <2>1. /\ Len(q) \in Nat \ {0} /\ DOMAIN q = 1..Len(q) /\ Head(q) = q[1]
        /\ DOMAIN Tail(q) = 1..(Len(q) - 1)
        /\ \A i \in 1..(Len(q) - 1) : Tail(q)[i] = q[i + 1]
    BY <1>1
  <2>2. \A i, j \in 1..Len(q) : q[i] = q[j] => i = j
    BY <2>1 DEF IsInjective
  <2>3. ASSUME NEW i \in 1..(Len(q) - 1), NEW j \in 1..(Len(q) - 1),
               Tail(q)[i] = Tail(q)[j]
        PROVE  i = j
    <3>1. i + 1 \in 1..Len(q) /\ j + 1 \in 1..Len(q) /\ q[i + 1] = q[j + 1]
      BY <2>1, <2>3
    <3>2. i + 1 = j + 1
      BY <2>2, <3>1
    <3> QED
      BY <3>2
  <2>4. ASSUME NEW i \in 1..(Len(q) - 1) PROVE Tail(q)[i] # Head(q)
    <3>1. i + 1 \in 1..Len(q) /\ 1 \in 1..Len(q) /\ i + 1 # 1
      BY <2>1
    <3> QED
      BY <2>1, <2>2, <3>1
  <2> QED
    BY <2>1, <2>3, <2>4 DEF IsInjective, Range
<1>2. ASSUME NEW t \in Tid, t \notin Range(q) PROVE IsInjective(q \o <<t>>)
  <2>1. /\ Len(q) \in Nat /\ DOMAIN q = 1..Len(q)
        /\ DOMAIN (q \o <<t>>) = 1..(Len(q) + 1)
        /\ \A i \in 1..Len(q) : (q \o <<t>>)[i] = q[i]
        /\ (q \o <<t>>)[Len(q) + 1] = t
    OBVIOUS
  <2>2. \A i \in 1..Len(q) : q[i] # t
    BY <1>2, <2>1 DEF Range
  <2>3. \A i, j \in 1..Len(q) : q[i] = q[j] => i = j
    BY <2>1 DEF IsInjective
  <2>4. \A i \in 1..(Len(q) + 1) : i \in 1..Len(q) \/ i = Len(q) + 1
    BY <2>1
  <2> QED
    BY <2>1, <2>2, <2>3, <2>4 DEF IsInjective
<1> QED
  BY <1>1, <1>2

-----------------------------------------------------------------------------
\* doMutexLock (SpecialFunctionHandler.cpp:921): the mutex is acquired after
\* it, other mutexes are left alone, and who is blocked by it is in its queue.
LEMMA LockEffect ==
  ASSUME ThreadTypeOK, NEW m \in Mutex, NEW info \in InfoType,
         NEW q \in Seq(Tid), q # <<>>, DoMutexLock(m, info, q),
         m \in DOMAIN mutexes => info = mutexes[m]
  PROVE  /\ DOMAIN mutexes' = DOMAIN mutexes \cup {m}
         /\ \A n \in DOMAIN mutexes \ {m} : mutexes'[n] = mutexes[n]
         /\ \A n \in DOMAIN mutexes' : mutexes'[n] \in InfoType
         /\ mutexes'[m].acquired
         /\ blockedThreads' \subseteq Tid
         /\ BlockedIsQueued => BlockedIsQueued'
<1> DEFINE queued == IF info.acquired THEN q ELSE Tail(q)
           new == [acquired |-> TRUE,
                   owner |-> IF info.acquired THEN info.owner ELSE Head(q),
                   waiters |-> info.waiters \o queued]
<1>1. /\ info.acquired \in BOOLEAN /\ info.owner \in Tid
      /\ info.waiters \in Seq(Tid) /\ Head(q) \in Tid /\ Tail(q) \in Seq(Tid)
  BY DEF InfoType
<1>2. queued \in Seq(Tid)
  BY <1>1
<1>3. /\ info.waiters \o queued \in Seq(Tid) /\ Range(queued) \subseteq Tid
      /\ Range(info.waiters \o queued) = Range(info.waiters) \cup Range(queued)
  BY <1>1, <1>2, QueueMembers, ZenonT(40)
<1>4. new \in InfoType
  BY <1>1, <1>3 DEF InfoType
<1>5. mutexes' = With(mutexes, m, new) /\ blockedThreads' = blockedThreads \cup Range(queued)
  BY DEF DoMutexLock
<1>a. /\ new.acquired
      /\ Range(new.waiters) = Range(info.waiters) \cup Range(queued)
  BY <1>3
<1> HIDE DEF queued, new
<1>6. /\ DOMAIN mutexes' = DOMAIN mutexes \cup {m} /\ mutexes'[m] = new
      /\ \A n \in DOMAIN mutexes \ {m} : mutexes'[n] = mutexes[n]
  BY <1>5 DEF With
<1>7. \A n \in DOMAIN mutexes' : mutexes'[n] \in InfoType
  BY <1>4, <1>6 DEF ThreadTypeOK, InfoType
<1>8. ASSUME BlockedIsQueued, NEW t \in blockedThreads'
      PROVE  \E n \in DOMAIN mutexes' :
               mutexes'[n].acquired /\ t \in Range(mutexes'[n].waiters)
  <2>1. CASE t \in Range(queued)
    BY <1>a, <1>6, <2>1
  <2>2. CASE t \in blockedThreads
    <3>1. PICK n \in DOMAIN mutexes :
            mutexes[n].acquired /\ t \in Range(mutexes[n].waiters)
      BY <1>8, <2>2 DEF BlockedIsQueued
    <3>2. CASE n = m
      BY <1>a, <1>6, <3>1, <3>2
    <3>3. CASE n # m
      BY <1>6, <3>1, <3>3
    <3> QED
      BY <3>2, <3>3
  <2> QED
    BY <1>5, <1>8, <2>1, <2>2
<1> QED
  BY <1>3, <1>5, <1>6, <1>7, <1>8, <1>a DEF ThreadTypeOK, BlockedIsQueued

\* doMutexUnlock (SpecialFunctionHandler.cpp:935): the head of the queue is
\* the owner, or the mutex is free; no other thread is unblocked.
LEMMA UnlockEffect ==
  ASSUME ThreadTypeOK, NEW m \in DOMAIN mutexes, DoMutexUnlock(m)
  PROVE  /\ DOMAIN mutexes' = DOMAIN mutexes
         /\ \A n \in DOMAIN mutexes \ {m} : mutexes'[n] = mutexes[n]
         /\ \A n \in DOMAIN mutexes' : mutexes'[n] \in InfoType
         /\ IF mutexes[m].waiters # <<>>
              THEN /\ mutexes'[m].acquired = mutexes[m].acquired
                   /\ mutexes'[m].owner = Head(mutexes[m].waiters)
                   /\ mutexes'[m].waiters = Tail(mutexes[m].waiters)
                   /\ blockedThreads' = blockedThreads \ {Head(mutexes[m].waiters)}
              ELSE /\ ~mutexes'[m].acquired /\ mutexes'[m].waiters = <<>>
                   /\ blockedThreads' = blockedThreads
         /\ BlockedIsQueued => BlockedIsQueued'
<1> DEFINE q == mutexes[m].waiters
<1>1. /\ mutexes[m] \in InfoType /\ q \in Seq(Tid)
      /\ \A n \in DOMAIN mutexes : mutexes[n] \in InfoType
  BY DEF ThreadTypeOK, InfoType
<1>2. /\ DOMAIN mutexes' = DOMAIN mutexes
      /\ \A n \in DOMAIN mutexes \ {m} : mutexes'[n] = mutexes[n]
  BY DEF DoMutexUnlock
<1>3. CASE q # <<>>
  <2>1. /\ mutexes'[m] = [mutexes[m] EXCEPT !.owner = Head(q), !.waiters = Tail(q)]
        /\ blockedThreads' = blockedThreads \ {Head(q)}
    BY <1>3 DEF DoMutexUnlock
  <2>2. /\ Head(q) \in Tid /\ Tail(q) \in Seq(Tid)
        /\ Range(q) = {Head(q)} \cup Range(Tail(q))
    BY <1>1, <1>3, QueueMembers
  <2>3. /\ mutexes'[m].acquired = mutexes[m].acquired
        /\ mutexes'[m].owner = Head(q) /\ mutexes'[m].waiters = Tail(q)
        /\ mutexes'[m] \in InfoType
    BY <1>1, <2>1, <2>2, Zenon DEF InfoType
  <2>4. ASSUME BlockedIsQueued, NEW t \in blockedThreads'
        PROVE  \E n \in DOMAIN mutexes' :
                 mutexes'[n].acquired /\ t \in Range(mutexes'[n].waiters)
    <3>1. PICK n \in DOMAIN mutexes :
            mutexes[n].acquired /\ t \in Range(mutexes[n].waiters)
      BY <2>1, <2>4 DEF BlockedIsQueued
    <3>2. CASE n = m
      BY <1>2, <2>1, <2>2, <2>3, <2>4, <3>1, <3>2, Zenon
    <3>3. CASE n # m
      BY <1>2, <3>1, <3>3
    <3> QED
      BY <3>2, <3>3
  <2> QED
    BY <1>1, <1>2, <1>3, <2>1, <2>3, <2>4 DEF BlockedIsQueued
<1>4. CASE q = <<>>
  <2>1. /\ mutexes'[m] = [mutexes[m] EXCEPT !.acquired = FALSE]
        /\ blockedThreads' = blockedThreads
    BY <1>4 DEF DoMutexUnlock
  <2>2. /\ ~mutexes'[m].acquired /\ mutexes'[m].waiters = <<>>
        /\ mutexes'[m] \in InfoType /\ Range(q) = {}
    BY <1>1, <1>4, <2>1, QueueMembers, Zenon DEF InfoType
  <2>3. ASSUME BlockedIsQueued, NEW t \in blockedThreads'
        PROVE  \E n \in DOMAIN mutexes' :
                 mutexes'[n].acquired /\ t \in Range(mutexes'[n].waiters)
    <3>1. PICK n \in DOMAIN mutexes :
            mutexes[n].acquired /\ t \in Range(mutexes[n].waiters)
      BY <2>1, <2>3 DEF BlockedIsQueued
    <3>2. n # m
      BY <2>2, <3>1
    <3> QED
      BY <1>2, <3>1, <3>2
  <2> QED
    BY <1>1, <1>2, <1>4, <2>1, <2>2, <2>3, Zenon DEF BlockedIsQueued
<1> QED
  BY <1>3, <1>4

-----------------------------------------------------------------------------
\* A thread that runs is in no queue, so it may join one; a free mutex has no
\* queue (handlePthreadMutexLock, handlePthreadMutexTrylock).
LEMMA LockExcludes ==
  ASSUME ThreadTypeOK, QueueInv, NEW t \in Tid \ blockedThreads,
         NEW m \in DOMAIN mutexes, ~(mutexes[m].acquired /\ mutexes[m].owner = t),
         DoMutexLock(m, mutexes[m], <<t>>), holds' = holds \cup {<<t, m>>}
  PROVE  QueueInv'
<1> DEFINE info == mutexes[m]
<1>1. /\ info \in InfoType /\ info.waiters \in Seq(Tid) /\ m \in Mutex
      /\ \A n \in DOMAIN mutexes : mutexes[n] \in InfoType
      /\ \A h \in holds : h = <<h[1], h[2]>>
  BY DEF ThreadTypeOK, InfoType
<1>2. /\ t \notin Queued(m) /\ \A n \in DOMAIN mutexes : t \notin Queued(n)
      /\ IsInjective(info.waiters)
  BY DEF QueueInv
<1>3. /\ mutexes' = With(mutexes, m,
           [acquired |-> TRUE,
            owner |-> IF info.acquired THEN info.owner ELSE t,
            waiters |-> info.waiters \o (IF info.acquired THEN <<t>> ELSE <<>>)])
      /\ blockedThreads' = blockedThreads
                             \cup Range(IF info.acquired THEN <<t>> ELSE <<>>)
  BY DEF DoMutexLock
<1>4. /\ DOMAIN mutexes' = DOMAIN mutexes
      /\ \A n \in DOMAIN mutexes \ {m} :
           mutexes'[n] = mutexes[n] /\ Queued(n)' = Queued(n)
  BY <1>3, Zenon DEF With, Queued
<1>5. CASE info.acquired
  <2>1. /\ mutexes'[m].acquired /\ mutexes'[m].owner = info.owner
        /\ mutexes'[m].waiters = info.waiters \o <<t>>
        /\ blockedThreads' = blockedThreads \cup Range(<<t>>)
    BY <1>3, <1>5 DEF With
  <2>2. Range(<<t>>) = {t} /\ <<t>> \in Seq(Tid)
    BY DEF Range
  <2>3. Range(info.waiters \o <<t>>) = Range(info.waiters) \cup Range(<<t>>)
    BY <1>1, <2>2, QueueMembers, Zenon
  <2>4. IsInjective(info.waiters \o <<t>>)
    BY <1>1, <1>2, QueueOnce DEF Queued
  <2>5. Queued(m)' = Queued(m) \cup {t} /\ IsInjective(mutexes'[m].waiters)
    BY <2>1, <2>2, <2>3, <2>4 DEF Queued
  <2>6. \A n \in DOMAIN mutexes' :
          /\ ~mutexes'[n].acquired => mutexes'[n].waiters = <<>>
          /\ mutexes'[n].acquired => mutexes'[n].owner \notin Queued(n)'
          /\ IsInjective(mutexes'[n].waiters)
          /\ Queued(n)' \subseteq blockedThreads'
    <3> TAKE n \in DOMAIN mutexes'
    <3>1. CASE n = m
      BY <1>2, <1>5, <2>1, <2>2, <2>5, <3>1, Zenon DEF QueueInv
    <3>2. CASE n # m
      BY <1>4, <2>1, <3>2 DEF QueueInv
    <3> QED
      BY <3>1, <3>2
  <2>7. \A n, k \in DOMAIN mutexes' : n # k => Queued(n)' \cap Queued(k)' = {}
    BY <1>2, <1>4, <2>5 DEF QueueInv
  <2>8. \A h \in holds' :
          /\ h[2] \in DOMAIN mutexes' /\ mutexes'[h[2]].acquired
          /\ mutexes'[h[2]].owner = h[1] \/ h[1] \in Queued(h[2])'
    BY <1>1, <1>4, <2>1, <2>5 DEF QueueInv
  <2> QED
    BY <2>6, <2>7, <2>8 DEF QueueInv
<1>6. CASE ~info.acquired
  <2>1. info.waiters = <<>> /\ Range(<<>>) = {}
    BY <1>6 DEF QueueInv, Range
  <2>2. /\ mutexes'[m].acquired /\ mutexes'[m].owner = t
        /\ mutexes'[m].waiters = info.waiters
        /\ blockedThreads' = blockedThreads
    BY <1>3, <1>6, <2>1 DEF With
  <2>3. Queued(m)' = Queued(m)
    BY <2>2 DEF Queued
  <2> QED
    BY <1>1, <1>2, <1>4, <1>6, <2>1, <2>2, <2>3 DEF QueueInv
<1> QED
  BY <1>5, <1>6

\* Handing the mutex over unblocks one thread, which is then in no queue
\* (handlePthreadMutexUnlock).
LEMMA UnlockExcludes ==
  ASSUME ThreadTypeOK, QueueInv, NEW t \in Tid, NEW m \in DOMAIN mutexes,
         mutexes[m].acquired, mutexes[m].owner = t,
         DoMutexUnlock(m), holds' = holds \ {<<t, m>>}
  PROVE  QueueInv'
<1> DEFINE q == mutexes[m].waiters
<1>1. /\ q \in Seq(Tid) /\ IsInjective(q)
      /\ \A h \in holds : h = <<h[1], h[2]>>
  BY DEF ThreadTypeOK, QueueInv
<1>2. /\ DOMAIN mutexes' = DOMAIN mutexes
      /\ \A n \in DOMAIN mutexes \ {m} :
           mutexes'[n] = mutexes[n] /\ Queued(n)' = Queued(n)
  BY UnlockEffect DEF Queued
<1>3. CASE q # <<>>
  <2>1. /\ mutexes'[m].acquired = mutexes[m].acquired
        /\ mutexes'[m].owner = Head(q) /\ mutexes'[m].waiters = Tail(q)
        /\ blockedThreads' = blockedThreads \ {Head(q)}
    BY <1>3, UnlockEffect, Zenon
  <2>2. /\ IsInjective(Tail(q)) /\ Head(q) \notin Range(Tail(q))
        /\ Range(q) = {Head(q)} \cup Range(Tail(q))
    BY <1>1, <1>3, QueueMembers, QueueOnce
  <2>3. /\ Queued(m) = Range(q) /\ Queued(m)' = Range(Tail(q))
        /\ \A n \in DOMAIN mutexes \ {m} : Head(q) \notin Queued(n)
    BY <2>1, <2>2, Zenon DEF Queued, QueueInv
  <2>4. \A n \in DOMAIN mutexes' :
          /\ ~mutexes'[n].acquired => mutexes'[n].waiters = <<>>
          /\ mutexes'[n].acquired => mutexes'[n].owner \notin Queued(n)'
          /\ IsInjective(mutexes'[n].waiters)
          /\ Queued(n)' \subseteq blockedThreads'
    <3> TAKE n \in DOMAIN mutexes'
    <3>1. CASE n = m
      <4>1. mutexes'[n].acquired
        BY <2>1, <3>1, Zenon
      <4>2. Queued(m) \subseteq blockedThreads
        BY DEF QueueInv
      <4> QED
        BY <2>1, <2>2, <2>3, <3>1, <4>1, <4>2
    <3>2. CASE n # m
      BY <1>2, <2>1, <2>3, <3>2 DEF QueueInv
    <3> QED
      BY <3>1, <3>2
  <2>5. \A n, k \in DOMAIN mutexes' : n # k => Queued(n)' \cap Queued(k)' = {}
    BY <1>2, <2>2, <2>3 DEF QueueInv
  <2>6. \A h \in holds' :
          /\ h[2] \in DOMAIN mutexes' /\ mutexes'[h[2]].acquired
          /\ mutexes'[h[2]].owner = h[1] \/ h[1] \in Queued(h[2])'
    <3> TAKE h \in holds'
    <3>1. /\ h \in holds /\ h[2] \in DOMAIN mutexes /\ mutexes[h[2]].acquired
          /\ mutexes[h[2]].owner = h[1] \/ h[1] \in Queued(h[2])
      BY DEF QueueInv
    <3>2. CASE h[2] = m
      <4>1. h[1] # t
        BY <1>1, <3>1, <3>2
      <4>2. h[1] \in Queued(m)
        BY <3>1, <3>2, <4>1
      <4>3. h[1] = Head(q) \/ h[1] \in Range(Tail(q))
        BY <2>2, <2>3, <4>2
      <4>4. m \in DOMAIN mutexes' /\ mutexes'[m].acquired
        BY <1>2, <2>1
      <4>5. mutexes'[m].owner = h[1] \/ h[1] \in Queued(m)'
        BY <2>1, <2>3, <4>3
      <4> QED
        BY <3>2, <4>4, <4>5
    <3>3. CASE h[2] # m
      BY <1>2, <3>1, <3>3
    <3> QED
      BY <3>2, <3>3
  <2> QED
    BY <2>4, <2>5, <2>6 DEF QueueInv
<1>4. CASE q = <<>>
  <2>1. /\ ~mutexes'[m].acquired /\ mutexes'[m].waiters = <<>>
        /\ blockedThreads' = blockedThreads
    BY <1>4, UnlockEffect
  <2>2. Queued(m)' = {} /\ Queued(m) = {} /\ IsInjective(mutexes'[m].waiters)
    BY <1>1, <1>4, <2>1 DEF Queued, Range, IsInjective
  <2>3. \A h \in holds' : h[2] # m
    BY <1>1, <2>2 DEF QueueInv
  <2> QED
    BY <1>1, <1>2, <2>1, <2>2, <2>3 DEF QueueInv
<1> QED
  BY <1>3, <1>4

\* What QueueInv is for: a thread that is not blocked is in no queue, so a
\* mutex it was told it has is its own.
LEMMA QueueInvExcludes ==
  ASSUME ThreadTypeOK, QueueInv
  PROVE  HolderIsOwner /\ OwnerNotQueued
<1>1. ASSUME NEW h \in holds, h[1] \notin blockedThreads
      PROVE  /\ h[2] \in DOMAIN mutexes /\ mutexes[h[2]].acquired
             /\ mutexes[h[2]].owner = h[1]
  BY <1>1 DEF QueueInv
<1> QED
  BY <1>1 DEF QueueInv, Queued, HolderIsOwner, OwnerNotQueued

-----------------------------------------------------------------------------
\* A fresh state has one thread, and no mutex or condition variable.
LEMMA PInvInit == ThreadInit => PInv
<1> SUFFICES ASSUME ThreadInit PROVE PInv
  OBVIOUS
<1>1. /\ DOMAIN mutexes = {} /\ DOMAIN conds = {} /\ holds = {}
      /\ blockedThreads = {} /\ maxThreadNumber = 0 /\ lastTid = 0
      /\ status = "run" /\ waited = FALSE
  BY DEF ThreadInit
<1> QED
  BY <1>1, TidNat, Zenon
     DEF PInv, ThreadTypeOK, CondsBound, BlockedIsQueued, QueueInv, Tid

\* A step that leaves the mutexes, the queues and what is held alone.
LEMMA OthersKeep ==
  ASSUME PInv, ThreadTypeOK',
         UNCHANGED <<blockedThreads, mutexes, conds, holds, waited>>
  PROVE  PInv'
  BY SMTT(30) DEF PInv, CondsBound, BlockedIsQueued, QueueInv, Queued

\* The thread that runs exists and is not blocked (runNextInstruction).
LEMMA StepRuns ==
  ASSUME NEW t \in Tid, Step(t)
  PROVE  t \in Tid \ blockedThreads /\ lastTid' = t
  BY DEF Step, IsNext, Runnable

\* A mutex that is made or destroyed while free is in nobody's way
\* (handlePthreadMutexInit, handlePthreadMutexDestroy).
LEMMA InitDestroyKeep ==
  ASSUME PInv, NEW t \in Tid, NEW m \in Mutex,
         MutexInit(t, m) \/ MutexDestroy(t, m)
  PROVE  PInv'
<1>1. /\ \A n \in DOMAIN mutexes : mutexes[n] \in InfoType
      /\ DOMAIN mutexes \subseteq Mutex
  BY DEF PInv, ThreadTypeOK, InfoType
<1>2. /\ UNCHANGED <<maxThreadNumber, blockedThreads, conds, holds, status, waited>>
      /\ lastTid' = t
  BY StepRuns DEF MutexInit, MutexDestroy
<1>3. CASE MutexInit(t, m)
  <2>1. /\ m \notin DOMAIN mutexes /\ DOMAIN mutexes' = DOMAIN mutexes \cup {m}
        /\ mutexes'[m] = MutexInfo
        /\ \A n \in DOMAIN mutexes : mutexes'[n] = mutexes[n]
    BY <1>3 DEF MutexInit, With
  <2>2. MutexInfo \in InfoType /\ MutexInfo.waiters = <<>> /\ ~MutexInfo.acquired
    BY TidNat DEF MutexInfo, InfoType
  <2>3. ThreadTypeOK'
    BY <1>1, <1>2, <2>1, <2>2 DEF PInv, ThreadTypeOK, InfoType
  <2>4. CondsBound' /\ BlockedIsQueued'
    BY <1>2, <2>1 DEF PInv, CondsBound, BlockedIsQueued
  <2>5. ASSUME QueueInv PROVE QueueInv'
    <3>1. Queued(m)' = {} /\ IsInjective(MutexInfo.waiters)
      BY <2>1, <2>2 DEF Queued, Range, IsInjective
    <3>2. \A n \in DOMAIN mutexes : Queued(n)' = Queued(n)
      BY <2>1 DEF Queued
    <3> QED
      BY <1>2, <2>1, <2>2, <2>5, <3>1, <3>2 DEF QueueInv
  <2> QED
    BY <1>2, <2>3, <2>4, <2>5 DEF PInv
<1>4. CASE MutexDestroy(t, m)
  <2>1. /\ m \in DOMAIN mutexes /\ ~mutexes[m].acquired
        /\ DOMAIN mutexes' = DOMAIN mutexes \ {m}
        /\ \A n \in DOMAIN mutexes' : mutexes'[n] = mutexes[n]
    BY <1>4 DEF MutexDestroy, Without
  <2>2. ThreadTypeOK'
    BY <1>1, <1>2, <2>1, Zenon DEF PInv, ThreadTypeOK, InfoType
  <2>3. CondsBound' /\ BlockedIsQueued'
    BY <1>2, <2>1, Zenon DEF PInv, CondsBound, BlockedIsQueued
  <2>4. ASSUME QueueInv PROVE QueueInv'
    <3>1. \A n \in DOMAIN mutexes' : Queued(n)' = Queued(n)
      BY <2>1 DEF Queued
    <3> QED
      BY <1>2, <2>1, <2>4, <3>1 DEF QueueInv
  <2> QED
    BY <1>2, <2>2, <2>3, <2>4 DEF PInv
<1> QED
  BY <1>3, <1>4

\* handlePthreadMutexLock, handlePthreadMutexTrylock.
LEMMA LocksKeep ==
  ASSUME PInv, NEW t \in Tid, NEW m \in Mutex,
         MutexLock(t, m) \/ MutexTrylock(t, m)
  PROVE  PInv'
<1>1. /\ UNCHANGED <<maxThreadNumber, conds, status, waited>>
      /\ lastTid' = t /\ t \in Tid \ blockedThreads
      /\ m \in DOMAIN mutexes /\ ~(mutexes[m].acquired /\ mutexes[m].owner = t)
      /\ DoMutexLock(m, mutexes[m], <<t>>) /\ holds' = holds \cup {<<t, m>>}
  BY StepRuns DEF MutexLock, MutexTrylock
<1>2. ThreadTypeOK /\ mutexes[m] \in InfoType /\ <<t>> \in Seq(Tid) /\ <<t>> # <<>>
  BY <1>1 DEF PInv, ThreadTypeOK, InfoType
<1>3. /\ DOMAIN mutexes' = DOMAIN mutexes \cup {m}
      /\ \A n \in DOMAIN mutexes' : mutexes'[n] \in InfoType
      /\ blockedThreads' \subseteq Tid
      /\ BlockedIsQueued => BlockedIsQueued'
  BY <1>1, <1>2, LockEffect, Zenon
<1>4. ThreadTypeOK'
  BY <1>1, <1>2, <1>3 DEF ThreadTypeOK, InfoType
<1>5. QueueInv => QueueInv'
  BY <1>1, <1>2, LockExcludes
<1> QED
  BY <1>1, <1>3, <1>4, <1>5, Zenon DEF PInv, CondsBound

\* handlePthreadMutexUnlock.
LEMMA UnlockKeeps ==
  ASSUME PInv, NEW t \in Tid, NEW m \in Mutex, MutexUnlock(t, m)
  PROVE  PInv'
<1>1. /\ UNCHANGED <<maxThreadNumber, conds, status, waited>>
      /\ lastTid' = t /\ m \in DOMAIN mutexes
      /\ mutexes[m].acquired /\ mutexes[m].owner = t
      /\ DoMutexUnlock(m) /\ holds' = holds \ {<<t, m>>}
  BY StepRuns DEF MutexUnlock
<1>2. ThreadTypeOK
  BY DEF PInv
<1>3. /\ DOMAIN mutexes' = DOMAIN mutexes
      /\ \A n \in DOMAIN mutexes' : mutexes'[n] \in InfoType
      /\ blockedThreads' \subseteq blockedThreads
      /\ BlockedIsQueued => BlockedIsQueued'
  BY <1>1, <1>2, UnlockEffect
<1>4. ThreadTypeOK'
  BY <1>1, <1>2, <1>3 DEF ThreadTypeOK, InfoType
<1>5. QueueInv => QueueInv'
  BY <1>1, <1>2, UnlockExcludes
<1> QED
  BY <1>1, <1>3, <1>4, <1>5 DEF PInv, CondsBound

\* handlePthreadCondInit, handlePthreadCondDestroy.
LEMMA CondsKeep ==
  ASSUME PInv, NEW t \in Tid, NEW c \in Cond, CondInit(t, c) \/ CondDestroy(t, c)
  PROVE  PInv'
<1>1. /\ UNCHANGED <<maxThreadNumber, blockedThreads, mutexes, holds, status, waited>>
      /\ lastTid' = t
  BY StepRuns DEF CondInit, CondDestroy
<1>2. /\ DOMAIN conds' \subseteq DOMAIN conds \cup {c}
      /\ \A d \in DOMAIN conds' : conds'[d] = CondInfo \/
                                  (d \in DOMAIN conds /\ conds'[d] = conds[d])
  BY DEF CondInit, CondDestroy, With, Without
<1>3. /\ CondInfo \in [binded : Mutex \cup {NoMutex}, waiters : Seq(Tid)]
      /\ CondInfo.waiters = <<>>
  BY DEF CondInfo
<1>4. ThreadTypeOK'
  BY <1>1, <1>2, <1>3 DEF PInv, ThreadTypeOK
<1>5. CondsBound'
  BY <1>1, <1>2, <1>3 DEF PInv, CondsBound
<1>6. BlockedIsQueued' /\ (~waited' => QueueInv')
  BY <1>1, SMTT(30) DEF PInv, BlockedIsQueued, QueueInv, Queued
<1> QED
  BY <1>4, <1>5, <1>6 DEF PInv

\* handlePthreadCondWait: the mutex is handed over and the thread waits.
LEMMA CondWaitKeeps ==
  ASSUME PInv, NEW t \in Tid, NEW c \in Cond, NEW m \in Mutex, CondWait(t, c, m)
  PROVE  PInv'
<1>1. /\ UNCHANGED <<maxThreadNumber, status>> /\ waited' = TRUE
      /\ lastTid' = t /\ m \in DOMAIN mutexes /\ c \in DOMAIN conds
      /\ DoMutexUnlock(m) /\ holds' = holds \cup {<<t, m>>}
      /\ conds' = [conds EXCEPT ![c] =
                     [binded |-> m, waiters |-> Append(conds[c].waiters, t)]]
  BY StepRuns DEF CondWait
<1>2. ThreadTypeOK /\ conds[c].waiters \in Seq(Tid)
  BY <1>1 DEF PInv, ThreadTypeOK
<1>3. /\ DOMAIN mutexes' = DOMAIN mutexes
      /\ \A n \in DOMAIN mutexes' : mutexes'[n] \in InfoType
      /\ blockedThreads' \subseteq blockedThreads
      /\ BlockedIsQueued => BlockedIsQueued'
  BY <1>1, <1>2, UnlockEffect
<1>4. /\ Append(conds[c].waiters, t) \in Seq(Tid) /\ DOMAIN conds' = DOMAIN conds
      /\ conds'[c] = [binded |-> m, waiters |-> Append(conds[c].waiters, t)]
      /\ \A d \in DOMAIN conds \ {c} : conds'[d] = conds[d]
  BY <1>1, <1>2
<1>5. ThreadTypeOK'
  BY <1>1, <1>2, <1>3, <1>4 DEF ThreadTypeOK, InfoType
<1>6. CondsBound'
  BY <1>1, <1>4 DEF PInv, CondsBound
<1> QED
  BY <1>1, <1>3, <1>5, <1>6 DEF PInv

\* handlePthreadCondSignal, handlePthreadCondBroadcast: whom the mutex does not
\* go to joins its queue, even if the mutex is made anew.
LEMMA WakeKeeps ==
  ASSUME PInv, NEW t \in Tid, NEW c \in Cond,
         CondSignal(t, c) \/ CondBroadcast(t, c)
  PROVE  PInv'
<1> DEFINE m == conds[c].binded
           q == conds[c].waiters
<1>1. /\ UNCHANGED <<maxThreadNumber, holds, status, waited>> /\ lastTid' = t
      /\ c \in DOMAIN conds /\ q # <<>> /\ (Wake(c, 1) \/ Wake(c, Len(q)))
  BY StepRuns DEF CondSignal, CondBroadcast
<1>2. ThreadTypeOK /\ q \in Seq(Tid) /\ m \in Mutex /\ waited
  BY <1>1 DEF PInv, ThreadTypeOK, CondsBound
<1>3. 1 \in 1..Len(q) /\ Len(q) \in 1..Len(q)
  BY <1>1, <1>2
<1>4. PICK n \in 1..Len(q) : Wake(c, n)
  BY <1>1, <1>3
<1> DEFINE front == SubSeq(q, 1, n)
           rest == SubSeq(q, n + 1, Len(q))
<1>5. front \in Seq(Tid) /\ rest \in Seq(Tid) /\ front # <<>>
  <2>1. n \in Nat /\ n >= 1 /\ n <= Len(q) /\ Len(q) \in Nat
    BY <1>2
  <2>2. Len(front) = n
    BY <1>2, <2>1
  <2>3. front \in Seq(Tid) /\ rest \in Seq(Tid)
    BY <1>2, <2>1
  <2> QED
    BY <2>1, <2>2, <2>3
<1>6. /\ DoMutexLock(m, BindedInfo(m), front)
      /\ conds' = [conds EXCEPT ![c].waiters = rest]
  BY <1>4 DEF Wake
<1> HIDE DEF front, rest
<1>7. /\ BindedInfo(m) \in InfoType
      /\ m \in DOMAIN mutexes => BindedInfo(m) = mutexes[m]
  BY <1>2, TidNat DEF BindedInfo, MutexInfo, ThreadTypeOK, InfoType
<1>8. /\ DOMAIN mutexes' = DOMAIN mutexes \cup {m}
      /\ \A k \in DOMAIN mutexes' : mutexes'[k] \in InfoType
      /\ blockedThreads' \subseteq Tid
      /\ BlockedIsQueued => BlockedIsQueued'
  BY <1>2, <1>5, <1>6, <1>7, LockEffect, Zenon
<1>9. /\ DOMAIN conds' = DOMAIN conds
      /\ conds'[c] = [conds[c] EXCEPT !.waiters = rest]
      /\ \A d \in DOMAIN conds \ {c} : conds'[d] = conds[d]
  BY <1>1, <1>6
<1>10. /\ conds[c] \in [binded : Mutex \cup {NoMutex}, waiters : Seq(Tid)]
       /\ conds'[c] \in [binded : Mutex \cup {NoMutex}, waiters : Seq(Tid)]
       /\ conds'[c].binded = m
  <2>1. conds[c] \in [binded : Mutex \cup {NoMutex}, waiters : Seq(Tid)]
    BY <1>1, <1>2 DEF ThreadTypeOK
  <2> QED
    BY <1>5, <1>9, <2>1, Zenon
<1>11. ThreadTypeOK'
  BY <1>1, <1>2, <1>8, <1>9, <1>10, Zenon DEF ThreadTypeOK, InfoType
<1>12. CondsBound'
  BY <1>1, <1>2, <1>9, <1>10 DEF PInv, CondsBound
<1> QED
  BY <1>1, <1>2, <1>8, <1>11, <1>12 DEF PInv

-----------------------------------------------------------------------------
\* Every instruction of every thread keeps the invariant.
LEMMA PInvNext == PInv /\ [ThreadNext]_threadVars => PInv'
<1> SUFFICES ASSUME PInv, [ThreadNext]_threadVars PROVE PInv'
  OBVIOUS
<1>1. CASE UNCHANGED threadVars
  <2>1. ThreadTypeOK'
    BY <1>1 DEF threadVars, PInv, ThreadTypeOK
  <2> QED
    BY <1>1, <2>1, OthersKeep DEF threadVars
<1>2. ASSUME NEW t \in Tid, Local(t) \/ Return(t) PROVE PInv'
  <2>1. ThreadTypeOK'
    BY <1>2, StepRuns DEF PInv, ThreadTypeOK, Local, Return
  <2> QED
    BY <1>2, <2>1, OthersKeep DEF Local, Return
<1>3. ASSUME NEW t \in Tid, Create(t) PROVE PInv'
  <2>1. maxThreadNumber' \in Tid
    BY <1>3, ThreadsAssumption DEF PInv, ThreadTypeOK, Create, Tid
  <2>2. ThreadTypeOK'
    BY <1>3, <2>1, StepRuns DEF PInv, ThreadTypeOK, Create
  <2> QED
    BY <1>3, <2>2, OthersKeep DEF Create
<1>4. CASE AllBlocked
  <2>1. ThreadTypeOK'
    BY <1>4 DEF PInv, ThreadTypeOK, AllBlocked
  <2> QED
    BY <1>4, <2>1, OthersKeep DEF AllBlocked
<1>5. ASSUME NEW t \in Tid, NEW m \in Mutex,
             MutexInit(t, m) \/ MutexDestroy(t, m)
      PROVE  PInv'
  BY <1>5, InitDestroyKeep
<1>6. ASSUME NEW t \in Tid, NEW m \in Mutex, MutexLock(t, m) \/ MutexTrylock(t, m)
      PROVE  PInv'
  BY <1>6, LocksKeep
<1>7. ASSUME NEW t \in Tid, NEW m \in Mutex, MutexUnlock(t, m) PROVE PInv'
  BY <1>7, UnlockKeeps
<1>8. ASSUME NEW t \in Tid, NEW c \in Cond, CondInit(t, c) \/ CondDestroy(t, c)
      PROVE  PInv'
  BY <1>8, CondsKeep
<1>9. ASSUME NEW t \in Tid, NEW c \in Cond, NEW m \in Mutex, CondWait(t, c, m)
      PROVE  PInv'
  BY <1>9, CondWaitKeeps
<1>10. ASSUME NEW t \in Tid, NEW c \in Cond,
              CondSignal(t, c) \/ CondBroadcast(t, c)
       PROVE  PInv'
  BY <1>10, WakeKeeps
<1> QED
  BY <1>1, <1>2, <1>3, <1>4, <1>5, <1>6, <1>7, <1>8, <1>9, <1>10
     DEF ThreadNext, Stopped

\* The thread tables of a state keep their types, and a condition variable with
\* waiters is bound to a mutex (ExecutionState.h:92-112).
THEOREM ThreadsTyped == ThreadSpec => [](ThreadTypeOK /\ CondsBound)
  BY PInvInit, PInvNext, PTL DEF ThreadSpec, PInv

\* No wake-up is lost, whatever locks, waits, signals and destructions went
\* before: every blocked thread is in the queue of an acquired mutex.
THEOREM NoWakeupLost == ThreadSpec => []BlockedIsQueued
  BY PInvInit, PInvNext, PTL DEF ThreadSpec, PInv

\* Until a thread has called pthread_cond_wait, a running thread that was told
\* it has a mutex is its owner, and the queues are in order.
THEOREM MutexesStayExclusive == ThreadSpec => []MutexesExclude
<1>1. PInv => MutexesExclude
  BY QueueInvExcludes DEF PInv, MutexesExclude
<1> QED
  BY <1>1, PInvInit, PInvNext, PTL DEF ThreadSpec
=============================================================================
