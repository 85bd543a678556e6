---------------------------- MODULE PathReading ----------------------------
(***************************************************************************)
(* readStream(): what is read back from the file for a stream, and for a   *)
(* state.                                                                  *)
(***************************************************************************)
EXTENDS PathFiles

\* The parents map, filled from the fork records.
ParentOf(f, c) == f[CHOOSE i \in DOMAIN f : f[i].child = c].id

\* roots, from the first stream to stream id.  A stream has a smaller id than
\* those that are opened from it.
Roots(f, id) ==
  LET chain[c \in 0..id] == IF c = 0 THEN <<>> ELSE Append(chain[ParentOf(f, c)], c)
  IN chain[id]

\* One record of the second pass.
ScanRecord(acc, r) ==
  IF r.child # 0
  THEN [acc EXCEPT !.roots =
          IF Len(@) > 1 /\ r.id = Head(@) /\ r.child = @[2] THEN Tail(@) ELSE @]
  ELSE [acc EXCEPT !.out = IF r.id = Head(acc.roots) THEN @ \o r.data ELSE @]

\* The second pass over file f, from the roots given.
Scan(f, roots) ==
  LET scan[i \in 0..Len(f)] ==
        IF i = 0 THEN [roots |-> roots, out |-> <<>>] ELSE ScanRecord(scan[i - 1], f[i])
  IN scan[Len(f)]

ReadStream(v, id) == LET f == FlushBuffer(v).file IN Scan(f, Roots(f, id)).out

-----------------------------------------------------------------------------
\* Whatever the order of forks and writes, reading a stream back gives what was
\* written to it and, before it was opened, to its ancestors: nothing of theirs
\* from later, and nothing that is still in the buffer is missing.
ReadsBack == \A i \in 1..(w.ids - 1) : ReadStream(w, i) = given[i]

\* processTestCase writes the sides the state has taken at its branches, unless
\* a state that shares its stream after an internal fork has written there too.
ReadsItsPath ==
  \A s \in live \ mixed : ReadStream(w, pathOS[s]) = taken[s]
=============================================================================
