----------------------------- MODULE PathFiles -----------------------------
(***************************************************************************)
(* The paths of the execution states (--write-paths): fork() writes which  *)
(* side each state takes to the state's stream, and processTestCase reads  *)
(* the stream back.  A state that fork() copies without opening a stream,  *)
(* in an internal fork or in branch(), shares the stream of its parent.    *)
(***************************************************************************)
EXTENDS TreeStream

CONSTANTS State, InitState, MaxRecords \* bound on the records of the file
ASSUME StatesAssumption == InitState \in State /\ MaxRecords \in Nat

VARIABLES
  w,       \* the writer
  live,    \* the states
  pathOS,  \* their streams
  taken,   \* the sides each state has taken
  mixed,   \* the states whose stream another one has written to
  given    \* what each stream was given, by it and before it was opened

vars == <<w, live, pathOS, taken, mixed, given>>

\* runFunctionAsMain opens the first stream.
Init ==
  /\ w = Opened(NewWriter, 0) /\ live = {InitState}
  /\ pathOS = [s \in State |-> 1]
  /\ taken = [s \in State |-> <<>>] /\ mixed = {} /\ given = <<<<>>>>

Room == Len(w.file) < MaxRecords

\* The other states that write to the stream of s.
Sharers(s) == {t \in live \ {s} : pathOS[t] = pathOS[s]}

\* Only one side of the branch is feasible.
TakeSide(s, b) ==
  /\ s \in live /\ Room
  /\ w' = Written(w, pathOS[s], b)
  /\ taken' = [taken EXCEPT ![s] = Append(taken[s], b)]
  /\ mixed' = mixed \cup Sharers(s)
  /\ given' = [given EXCEPT ![pathOS[s]] = Append(given[pathOS[s]], b)]
  /\ UNCHANGED <<live, pathOS>>

\* Mutant: the true side is written before the stream of the false side is opened.
ForkWritesLate(v, p) == Written(Opened(Written(v, p, 1), p), v.ids, 0)

\* What fork() writes for a state with stream p.
ForkWrites(v, p) == Written(Written(Opened(v, p), p, 1), v.ids, 0)

\* Mutant: the stream of the false side is counted one too high.
NewStreamNext(v) == v.ids + 1

\* The stream that open() returns.
NewStream(v) == v.ids

\* fork() with both sides feasible.  c is the new state; the side that is false
\* gets the new stream, and is s if swapped (-randomize-fork).
Fork(s, c, swapped) ==
  LET f == IF swapped THEN s ELSE c
      t == IF swapped THEN c ELSE s
  IN /\ s \in live /\ c \notin live /\ Room
     /\ w' = ForkWrites(w, pathOS[s])
     /\ live' = live \cup {c}
     /\ pathOS' = [pathOS EXCEPT ![f] = NewStream(w), ![t] = pathOS[s]]
     /\ taken' = [taken EXCEPT ![t] = Append(taken[s], 1), ![f] = Append(taken[s], 0)]
     /\ mixed' = (IF s \in mixed THEN mixed \cup {c} ELSE mixed \ {c}) \cup Sharers(s)
     /\ given' = Append([given EXCEPT ![pathOS[s]] = Append(given[pathOS[s]], 1)],
                       Append(given[pathOS[s]], 0))

\* An internal fork, or branch(): the copy has the stream of its parent.
ForkInternal(s, c) ==
  /\ s \in live /\ c \notin live
  /\ live' = live \cup {c}
  /\ pathOS' = [pathOS EXCEPT ![c] = pathOS[s]]
  /\ taken' = [taken EXCEPT ![c] = taken[s]]
  /\ mixed' = IF s \in mixed THEN mixed \cup {c} ELSE mixed \ {c}
  /\ UNCHANGED <<w, given>>

\* processTestCase for a state that ends: readStream() flushes the buffer.
ReadStreamOf(s) ==
  /\ s \in live /\ Room
  /\ w' = FlushBuffer(w)
  /\ UNCHANGED <<live, pathOS, taken, mixed, given>>

Delete(s) ==
  /\ s \in live
  /\ live' = live \ {s}
  /\ UNCHANGED <<w, pathOS, taken, mixed, given>>

Next ==
  \E s \in State :
    \/ \E b \in {0, 1} : TakeSide(s, b)
    \/ \E c \in State, swapped \in BOOLEAN : Fork(s, c, swapped)
    \/ \E c \in State : ForkInternal(s, c)
    \/ ReadStreamOf(s)
    \/ Delete(s)

Spec == Init /\ [][Next]_vars

-----------------------------------------------------------------------------
\* The types of the writer and of the states' streams; the buffer is not overrun.
TypeOK ==
  /\ w.file \in Seq([id : Nat, child : Nat, data : Seq({0, 1})])
  /\ w.ids \in Nat \ {0} /\ w.last \in Nat
  /\ w.buffer \in Seq({0, 1}) /\ Len(w.buffer) <= BufferSize
  /\ live \subseteq State /\ pathOS \in [State -> Nat] /\ mixed \subseteq State
  /\ taken \in [State -> Seq({0, 1})]
  /\ given \in Seq(Seq({0, 1})) /\ Len(given) = w.ids - 1

\* File f opens each of the streams 1..n - 1 once, before any record of it.
FileOrdered(f, n) ==
  /\ \A c \in 1..(n - 1) : \E i \in 1..Len(f) : f[i].child = c
  /\ \A i \in 1..Len(f) : f[i].child < n
  /\ \A i, j \in 1..Len(f) : f[i].child # 0 /\ f[i].child = f[j].child => i = j
  /\ \A i \in 1..Len(f) : f[i].id # 0 => \E j \in 1..Len(f) : j < i /\ f[j].child = f[i].id

\* readStream() looks the parents of a stream up among the records before the
\* one that opens it, and asserts that it finds them (TreeStream.cpp:128).  They
\* are there: the file is ordered, and the streams of the states and of the
\* buffer are opened in it, whatever has been written, forked and flushed.
OpensFirst ==
  /\ FileOrdered(w.file, w.ids)
  /\ \A s \in live : pathOS[s] \in 1..(w.ids - 1)
  /\ w.buffer # <<>> => w.last \in 1..(w.ids - 1)

\* The stream of a state was given the sides the state has taken, and no other,
\* however streams were opened and shared, until a sharer writes to it.
GivenIsTaken == \A s \in live \ mixed : given[pathOS[s]] = taken[s]
=============================================================================
