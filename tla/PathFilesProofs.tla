-------------------------- MODULE PathFilesProofs --------------------------
(***************************************************************************)
(* The file of paths can always be read, each stream is given the path of  *)
(* its state, and that path is what is read back, for every number of      *)
(* states, size of the buffer and length of the file.                      *)
(***************************************************************************)
EXTENDS PathReading, WellFoundedInduction, TLAPS

Record == [id : Nat, child : Nat, data : Seq({0, 1})]

File == Seq(Record)
Bytes == Seq({0, 1})

\* A writer whose file is ordered.
Good(v) ==
  /\ v \in [file : File, ids : Nat \ {0}, last : Nat, buffer : Bytes]
  /\ FileOrdered(v.file, v.ids)
  /\ v.buffer # <<>> => v.last \in 1..(v.ids - 1)
  /\ Len(v.buffer) <= BufferSize

\* Data of an opened stream keeps the file ordered.
LEMMA DataKeepsOrder ==
  ASSUME NEW f \in Seq(Record), NEW n \in Nat \ {0}, FileOrdered(f, n),
         NEW id \in 1..(n - 1), NEW d \in Seq({0, 1})
  PROVE  /\ Append(f, DataRecord(id, d)) \in Seq(Record)
         /\ FileOrdered(Append(f, DataRecord(id, d)), n)
<1> DEFINE r == DataRecord(id, d)
           g == Append(f, r)
<1>1. r \in Record /\ r.id = id /\ r.child = 0
  BY DEF Record, DataRecord
<1> HIDE DEF r
<1>2. /\ g \in Seq(Record) /\ Len(g) = Len(f) + 1 /\ g[Len(f) + 1] = r
      /\ \A i \in 1..Len(f) : g[i] = f[i]
  BY <1>1
<1>3. Len(f) \in Nat /\ \A i \in 1..Len(f) : f[i] \in Record
  OBVIOUS
<1> HIDE DEF g
<1>4. ASSUME NEW c \in 1..(n - 1) PROVE \E i \in 1..Len(g) : g[i].child = c
  <2>1. PICK i \in 1..Len(f) : f[i].child = c
    BY DEF FileOrdered
  <2> QED BY <2>1, <1>2, <1>3
<1>5. \A i \in 1..Len(g) : g[i].child < n
  BY <1>1, <1>2, <1>3 DEF FileOrdered
<1>6. \A i, j \in 1..Len(g) : g[i].child # 0 /\ g[i].child = g[j].child => i = j
  <2> SUFFICES ASSUME NEW i \in 1..Len(g), NEW j \in 1..Len(g),
                      g[i].child # 0, g[i].child = g[j].child
               PROVE  i = j
    OBVIOUS
  <2>1. i \in 1..Len(f) /\ j \in 1..Len(f)
    BY <1>1, <1>2, <1>3
  <2>2. g[i] = f[i] /\ g[j] = f[j]
    BY <2>1, <1>2
  <2> QED BY <2>1, <2>2 DEF FileOrdered
<1>7. \A i \in 1..Len(g) : g[i].id # 0 => \E j \in 1..Len(g) : j < i /\ g[j].child = g[i].id
  <2> SUFFICES ASSUME NEW i \in 1..Len(g), g[i].id # 0
               PROVE  \E j \in 1..Len(g) : j < i /\ g[j].child = g[i].id
    OBVIOUS
  <2>1. CASE i = Len(f) + 1
    <3>1. PICK j \in 1..Len(f) : f[j].child = id
      BY DEF FileOrdered
    <3> QED BY <2>1, <3>1, <1>1, <1>2, <1>3
  <2>2. CASE i \in 1..Len(f)
    <3>1. PICK j \in 1..Len(f) : j < i /\ f[j].child = f[i].id
      BY <2>2, <1>2 DEF FileOrdered
    <3> QED BY <2>2, <3>1, <1>2, <1>3
  <2> QED BY <2>1, <2>2, <1>2, <1>3
<1>8. FileOrdered(g, n)
  BY <1>4, <1>5, <1>6, <1>7 DEF FileOrdered
<1> QED BY <1>2, <1>8 DEF g, r

\* The record that opens the next stream keeps the file ordered.
LEMMA ForkKeepsOrder ==
  ASSUME NEW f \in Seq(Record), NEW n \in Nat \ {0}, FileOrdered(f, n), NEW p \in 0..(n - 1)
  PROVE  /\ Append(f, ForkRecord(p, n)) \in Seq(Record)
         /\ FileOrdered(Append(f, ForkRecord(p, n)), n + 1)
<1> DEFINE r == ForkRecord(p, n)
           g == Append(f, r)
<1>1. r \in Record /\ r.id = p /\ r.child = n
  BY DEF Record, ForkRecord
<1> HIDE DEF r
<1>2. /\ g \in Seq(Record) /\ Len(g) = Len(f) + 1 /\ g[Len(f) + 1] = r
      /\ \A i \in 1..Len(f) : g[i] = f[i]
  BY <1>1
<1>3. Len(f) \in Nat /\ \A i \in 1..Len(f) : f[i] \in Record
  OBVIOUS
<1> HIDE DEF g
<1>4. ASSUME NEW c \in 1..n PROVE \E i \in 1..Len(g) : g[i].child = c
  <2>1. CASE c = n
    BY <2>1, <1>1, <1>2, <1>3
  <2>2. CASE c \in 1..(n - 1)
    <3>1. PICK i \in 1..Len(f) : f[i].child = c
      BY <2>2, Zenon DEF FileOrdered
    <3> QED BY <3>1, <1>2, <1>3
  <2> QED BY <2>1, <2>2
<1>5. \A i \in 1..Len(f) : g[i].child \in Nat /\ g[i].child < n
  BY <1>2, <1>3, Zenon DEF FileOrdered, Record
<1>5a. \A i \in 1..Len(g) : g[i].child < n + 1
  BY <1>1, <1>2, <1>3, <1>5
<1>6. \A i, j \in 1..Len(g) : g[i].child # 0 /\ g[i].child = g[j].child => i = j
  <2>1. \A i, j \in 1..Len(f) : g[i].child # 0 /\ g[i].child = g[j].child => i = j
    BY <1>2 DEF FileOrdered
  <2> QED BY <2>1, <1>1, <1>2, <1>3, <1>5
<1>7. \A i \in 1..Len(g) : g[i].id # 0 => \E j \in 1..Len(g) : j < i /\ g[j].child = g[i].id
  <2> SUFFICES ASSUME NEW i \in 1..Len(g), g[i].id # 0
               PROVE  \E j \in 1..Len(g) : j < i /\ g[j].child = g[i].id
    OBVIOUS
  <2>1. CASE i = Len(f) + 1
    <3>1. PICK j \in 1..Len(f) : f[j].child = p
      BY <2>1, <1>1, <1>2 DEF FileOrdered
    <3> QED BY <2>1, <3>1, <1>1, <1>2, <1>3
  <2>2. CASE i \in 1..Len(f)
    <3>1. PICK j \in 1..Len(f) : j < i /\ f[j].child = f[i].id
      BY <2>2, <1>2 DEF FileOrdered
    <3> QED BY <2>2, <3>1, <1>2, <1>3
  <2> QED BY <2>1, <2>2, <1>2, <1>3
<1>8. FileOrdered(g, n + 1)
  BY <1>4, <1>5a, <1>6, <1>7 DEF FileOrdered
<1> QED BY <1>2, <1>8 DEF g, r

\* What makes a writer good, field by field.
LEMMA GoodFields ==
  ASSUME NEW g \in File, NEW n \in Nat \ {0}, NEW l \in Nat, NEW d \in Bytes,
         FileOrdered(g, n), d # <<>> => l \in 1..(n - 1), Len(d) <= BufferSize
  PROVE  Good([file |-> g, ids |-> n, last |-> l, buffer |-> d])
BY DEF Good

\* Flushing the buffer keeps the writer good.
LEMMA FlushGood ==
  ASSUME NEW v, Good(v)
  PROVE  Good(FlushBuffer(v)) /\ FlushBuffer(v).ids = v.ids /\ FlushBuffer(v).buffer = <<>>
<1>1. CASE v.buffer = <<>>
  BY <1>1 DEF FlushBuffer
<1>2. CASE v.buffer # <<>>
  <2> DEFINE g == Append(v.file, DataRecord(v.last, v.buffer))
  <2>1. g \in File /\ FileOrdered(g, v.ids)
    BY <1>2, DataKeepsOrder DEF Good, File, Bytes
  <2> HIDE DEF g
  <2>2. FlushBuffer(v) = [file |-> g, ids |-> v.ids, last |-> v.last, buffer |-> <<>>]
    BY <1>2, Zenon DEF FlushBuffer, g, Good
  <2>3. <<>> \in Bytes /\ Len(<<>>) <= BufferSize
    BY BufferAssumption DEF Bytes
  <2>4. Good(FlushBuffer(v))
    BY <2>1, <2>2, <2>3, GoodFields DEF Good
  <2> QED BY <2>2, <2>4
<1> QED BY <1>1, <1>2

\* So does opening a stream from one that is open, or the first one.
LEMMA OpenedGood ==
  ASSUME NEW v, Good(v), NEW p \in 0..(v.ids - 1)
  PROVE  Good(Opened(v, p)) /\ Opened(v, p).ids = v.ids + 1
<1> DEFINE u == FlushBuffer(v)
           g == Append(u.file, ForkRecord(p, v.ids))
<1>1. Good(u) /\ u.ids = v.ids /\ u.buffer = <<>> /\ v.ids \in Nat \ {0}
  BY FlushGood DEF Good
<1>2. Opened(v, p) = [u EXCEPT !.file = g, !.ids = v.ids + 1]
  BY DEF Opened
<1> HIDE DEF u
<1>3. g \in File /\ FileOrdered(g, v.ids + 1)
  BY <1>1, ForkKeepsOrder DEF Good, File
<1> HIDE DEF g
<1>4. Opened(v, p) = [file |-> g, ids |-> v.ids + 1, last |-> u.last, buffer |-> <<>>]
  BY <1>1, <1>2, Zenon DEF Good
<1>5. u.last \in Nat /\ v.ids + 1 \in Nat \ {0} /\ <<>> \in Bytes /\ Len(<<>>) <= BufferSize
  BY <1>1, BufferAssumption DEF Good, Bytes
<1>6. Good(Opened(v, p))
  BY <1>3, <1>4, <1>5, GoodFields
<1> QED BY <1>4, <1>6

\* So does writing to an open stream.
LEMMA WrittenGood ==
  ASSUME NEW v, Good(v), NEW id \in 1..(v.ids - 1), NEW b \in {0, 1}
  PROVE  Good(Written(v, id, b)) /\ Written(v, id, b).ids = v.ids
<1> DEFINE u == FlushBuffer(v)
<1>1. Good(u) /\ u.ids = v.ids
  BY FlushGood
<1> HIDE DEF u
<1>2. CASE /\ Written(v, id, b) = [v EXCEPT !.buffer = Append(v.buffer, b)] /\ id = v.last
           /\ Len(v.buffer) + 1 <= BufferSize
  <2>1. v.buffer \in Bytes /\ v.file \in File /\ v.ids \in Nat \ {0} /\ v.last \in Nat
    BY DEF Good
  <2>2. Append(v.buffer, b) \in Bytes /\ Len(Append(v.buffer, b)) <= BufferSize
    BY <1>2, <2>1 DEF Bytes
  <2> DEFINE d == Append(v.buffer, b)
  <2> HIDE DEF d
  <2>3. Written(v, id, b) = [file |-> v.file, ids |-> v.ids, last |-> v.last, buffer |-> d]
    BY <1>2, Zenon DEF Good, d
  <2>4. Good(Written(v, id, b))
    BY <1>2, <2>1, <2>2, <2>3, GoodFields, Zenon DEF Good, d
  <2> QED BY <2>3, <2>4
<1>3. CASE Written(v, id, b) = [u EXCEPT !.last = id, !.buffer = <<b>>]
  <2>1. <<b>> \in Bytes /\ Len(<<b>>) <= BufferSize
    BY BufferAssumption DEF Bytes
  <2>2. u.file \in File /\ u.ids \in Nat \ {0} /\ id \in Nat /\ id \in 1..(u.ids - 1)
    BY <1>1 DEF Good
  <2>3. Written(v, id, b) = [file |-> u.file, ids |-> u.ids, last |-> id, buffer |-> <<b>>]
    BY <1>1, <1>3, Zenon DEF Good
  <2>4. Good(Written(v, id, b))
    BY <1>1, <2>1, <2>2, <2>3, GoodFields DEF Good
  <2> QED BY <1>1, <2>3, <2>4
<1> QED BY <1>2, <1>3 DEF Written, u

-----------------------------------------------------------------------------
\* The part of the invariant that is about the writer and who writes where.
PathInv ==
  /\ Good(w) /\ live \subseteq State /\ pathOS \in [State -> Nat]
  /\ \A s \in live : pathOS[s] \in 1..(w.ids - 1)

\* The part that is about what the streams were given.
HistoryOK ==
  /\ taken \in [State -> Bytes] /\ mixed \subseteq State
  /\ given \in Seq(Bytes) /\ Len(given) = w.ids - 1
  /\ GivenIsTaken

\* The first stream is opened and empty.
LEMMA InitPathInv == Init => PathInv /\ HistoryOK
<1> SUFFICES ASSUME Init PROVE PathInv /\ HistoryOK
  OBVIOUS
<1>1. Good(NewWriter) /\ NewWriter.ids = 1
  <2>1. <<>> \in File /\ <<>> \in Bytes /\ Len(<<>>) <= BufferSize
    BY BufferAssumption DEF File, Bytes
  <2>2. FileOrdered(<<>>, 1)
    BY DEF FileOrdered
  <2> QED BY <2>1, <2>2, GoodFields DEF NewWriter
<1>2. Good(w) /\ w.ids = 2
  BY <1>1, OpenedGood DEF Init
<1>3. PathInv
  BY <1>2, StatesAssumption DEF Init, PathInv
<1>4. <<>> \in Bytes
  BY DEF Bytes
<1>5. given \in Seq(Bytes) /\ Len(given) = 1 /\ given[1] = <<>>
  <2>1. PICK e \in Bytes : e = <<>> /\ given = <<e>>
    BY <1>4 DEF Init
  <2> QED BY <2>1
<1>6. /\ taken \in [State -> Bytes] /\ mixed = {} /\ live = {InitState}
      /\ pathOS[InitState] = 1 /\ taken[InitState] = <<>>
  BY <1>4, StatesAssumption DEF Init
<1>7. HistoryOK
  BY <1>2, <1>5, <1>6 DEF HistoryOK, GivenIsTaken
<1> QED BY <1>3, <1>7

\* fork() with both sides feasible, on the writer.
LEMMA ForkPathInv ==
  ASSUME PathInv, NEW s \in State, NEW c \in State, NEW swapped \in BOOLEAN, Fork(s, c, swapped)
  PROVE  PathInv' /\ w'.ids = w.ids + 1
<1>0. w.ids \in Nat \ {0} /\ Good(w)
  BY DEF PathInv, Good
<1> DEFINE x == Opened(w, pathOS[s])
           y == Written(x, pathOS[s], 1)
<1>1. pathOS[s] \in 1..(w.ids - 1) /\ s \in live
  BY DEF Fork, PathInv
<1>2. Good(x) /\ x.ids = w.ids + 1
  BY <1>0, <1>1, OpenedGood
<1> HIDE DEF x
<1>3. Good(y) /\ y.ids = w.ids + 1
  BY <1>0, <1>1, <1>2, WrittenGood
<1> HIDE DEF y
<1>4. w' = Written(y, w.ids, 0)
  BY DEF Fork, ForkWrites, x, y
<1>5. Good(w') /\ w'.ids = w.ids + 1
  BY <1>0, <1>3, <1>4, WrittenGood
<1>6. pathOS' \in [State -> Nat]
  BY <1>0, <1>1 DEF Fork, NewStream, PathInv
<1>7. ASSUME NEW q \in live' PROVE pathOS'[q] \in 1..(w'.ids - 1)
  BY <1>0, <1>1, <1>5, <1>7 DEF Fork, NewStream, PathInv
<1>8. live' \subseteq State
  BY DEF Fork, PathInv
<1> QED BY <1>5, <1>6, <1>7, <1>8 DEF PathInv

\* Every step keeps the file readable, and no step but fork() opens a stream.
LEMMA NextPathInv ==
  ASSUME PathInv, [Next]_vars
  PROVE  PathInv'
<1>0. w.ids \in Nat \ {0} /\ Good(w)
  BY DEF PathInv, Good
<1>1. ASSUME NEW s \in State, NEW b \in {0, 1}, TakeSide(s, b) PROVE PathInv'
  <2>1. Good(w') /\ w'.ids = w.ids
    BY <1>0, <1>1, WrittenGood DEF TakeSide, PathInv
  <2> QED BY <2>1, <1>1 DEF TakeSide, PathInv
<1>2. ASSUME NEW s \in State, NEW c \in State, NEW swapped \in BOOLEAN, Fork(s, c, swapped)
      PROVE  PathInv'
  BY <1>2, ForkPathInv
<1>3. ASSUME NEW s \in State, NEW c \in State, ForkInternal(s, c) PROVE PathInv'
  BY <1>3 DEF ForkInternal, PathInv
<1>4. ASSUME NEW s \in State, ReadStreamOf(s) PROVE PathInv'
  <2>1. Good(w') /\ w'.ids = w.ids
    BY <1>0, <1>4, FlushGood DEF ReadStreamOf
  <2> QED BY <2>1, <1>4 DEF ReadStreamOf, PathInv
<1>5. ASSUME NEW s \in State, Delete(s) PROVE PathInv'
  BY <1>5 DEF Delete, PathInv
<1>6. CASE UNCHANGED vars
  BY <1>6 DEF vars, PathInv
<1> QED BY <1>1, <1>2, <1>3, <1>4, <1>5, <1>6 DEF Next

\* What a byte adds to a path.
LEMMA AppendByte ==
  ASSUME NEW d \in Bytes, NEW b \in {0, 1}
  PROVE  Append(d, b) \in Bytes
BY DEF Bytes

\* One side of a branch: the state and its stream get the same byte, and the
\* states that share the stream are not to be trusted from then on.
LEMMA TakeSideHistory ==
  ASSUME PathInv, HistoryOK, NEW s \in State, NEW b \in {0, 1}, TakeSide(s, b)
  PROVE  HistoryOK'
<1>1. /\ s \in live /\ pathOS[s] \in 1..Len(given) /\ w.ids \in Nat \ {0}
      /\ taken[s] \in Bytes /\ given[pathOS[s]] \in Bytes
  BY DEF TakeSide, PathInv, HistoryOK, Good
<1>2. w'.ids = w.ids
  BY <1>1, WrittenGood DEF TakeSide, PathInv
<1>3. Append(taken[s], b) \in Bytes /\ Append(given[pathOS[s]], b) \in Bytes
  BY <1>1, AppendByte
<1>4. taken' \in [State -> Bytes] /\ mixed' \subseteq State
  BY <1>3 DEF TakeSide, HistoryOK, Sharers, PathInv
<1>5. given' \in Seq(Bytes) /\ Len(given') = Len(given)
  BY <1>1, <1>3 DEF TakeSide, HistoryOK
<1>6. GivenIsTaken'
  <2> SUFFICES ASSUME NEW t \in live, t \notin mixed'
               PROVE  given'[pathOS[t]] = taken'[t]
    BY DEF GivenIsTaken, TakeSide
  <2>1. t \notin mixed /\ t \in State /\ (t = s \/ pathOS[t] # pathOS[s])
    BY DEF TakeSide, Sharers, PathInv
  <2>2. pathOS[t] \in DOMAIN given /\ pathOS[s] \in DOMAIN given
    BY <1>1 DEF PathInv, HistoryOK
  <2>3. given[pathOS[t]] = taken[t]
    BY <2>1 DEF HistoryOK, GivenIsTaken
  <2> QED BY <2>1, <2>2, <2>3 DEF TakeSide, HistoryOK
<1> QED BY <1>2, <1>4, <1>5, <1>6 DEF HistoryOK

\* Both sides of a branch: the side that is false goes on with a stream that
\* starts where the other one was.
LEMMA ForkHistory ==
  ASSUME PathInv, HistoryOK, NEW s \in State, NEW c \in State, NEW swapped \in BOOLEAN,
         Fork(s, c, swapped)
  PROVE  HistoryOK'
<1>1. /\ s \in live /\ c \notin live /\ pathOS[s] \in 1..Len(given) /\ w.ids \in Nat \ {0}
      /\ taken[s] \in Bytes /\ given[pathOS[s]] \in Bytes /\ Len(given) = w.ids - 1
      /\ DOMAIN given = 1..Len(given)
  BY DEF Fork, PathInv, HistoryOK, Good
<1>2. w'.ids = w.ids + 1
  BY ForkPathInv
<1>3. PICK f, t \in State : /\ {f, t} = {s, c} /\ f # t
                            /\ f = IF swapped THEN s ELSE c
                            /\ t = IF swapped THEN c ELSE s
  BY <1>1
<1>4. /\ pathOS' = [pathOS EXCEPT ![f] = w.ids, ![t] = pathOS[s]]
      /\ taken' = [taken EXCEPT ![t] = Append(taken[s], 1), ![f] = Append(taken[s], 0)]
      /\ live' = live \cup {c}
      /\ mixed' = (IF s \in mixed THEN mixed \cup {c} ELSE mixed \ {c}) \cup Sharers(s)
  BY <1>3 DEF Fork, NewStream
<1>5. PICK g : /\ g = [given EXCEPT ![pathOS[s]] = Append(given[pathOS[s]], 1)]
               /\ given' = Append(g, Append(given[pathOS[s]], 0))
  BY Zenon DEF Fork
<1>6. /\ Append(taken[s], 1) \in Bytes /\ Append(given[pathOS[s]], 1) \in Bytes
      /\ Append(taken[s], 0) \in Bytes /\ Append(given[pathOS[s]], 0) \in Bytes
  BY <1>1, AppendByte
<1>7. /\ g \in Seq(Bytes) /\ Len(g) = Len(given)
      /\ \A i \in 1..Len(given) : i # pathOS[s] => g[i] = given[i]
      /\ g[pathOS[s]] = Append(given[pathOS[s]], 1)
  BY <1>1, <1>5, <1>6 DEF HistoryOK
<1>8. /\ given' \in Seq(Bytes) /\ Len(given') = w.ids
      /\ given'[w.ids] = Append(given[pathOS[s]], 0)
      /\ \A i \in 1..Len(given) : given'[i] = g[i]
  BY <1>1, <1>5, <1>6, <1>7, SMTT(30)
<1>9. taken' \in [State -> Bytes] /\ mixed' \subseteq State
  BY <1>4, <1>6, Zenon DEF HistoryOK, Sharers, PathInv
<1>10. GivenIsTaken'
  <2> SUFFICES ASSUME NEW q \in live', q \notin mixed'
               PROVE  given'[pathOS'[q]] = taken'[q]
    BY DEF GivenIsTaken
  <2>1. CASE q \in {s, c}
    <3>1. s \notin mixed
      BY <1>4, <2>1
    <3>2. given[pathOS[s]] = taken[s]
      BY <1>1, <3>1 DEF HistoryOK, GivenIsTaken
    <3>3. CASE q = f
      <4>1. pathOS'[q] = w.ids /\ taken'[q] = Append(taken[s], 0)
        BY <1>3, <1>4, <3>3 DEF PathInv, HistoryOK
      <4> QED BY <1>8, <3>2, <4>1
    <3>4. CASE q = t
      <4>1. pathOS'[q] = pathOS[s] /\ taken'[q] = Append(taken[s], 1)
        BY <1>3, <1>4, <3>4 DEF PathInv, HistoryOK
      <4> QED BY <1>1, <1>7, <1>8, <3>2, <4>1
    <3> QED BY <1>3, <2>1, <3>3, <3>4
  <2>2. CASE q \notin {s, c}
    <3>1. q \in live /\ q \in State /\ q \notin mixed /\ pathOS[q] # pathOS[s]
      BY <1>4, <2>2 DEF Sharers, PathInv
    <3>2. pathOS'[q] = pathOS[q] /\ taken'[q] = taken[q]
      BY <1>3, <1>4, <2>2, <3>1 DEF PathInv, HistoryOK
    <3>3. pathOS[q] \in 1..Len(given) /\ given[pathOS[q]] = taken[q]
      BY <1>1, <3>1 DEF PathInv, HistoryOK, GivenIsTaken
    <3> QED BY <1>7, <1>8, <3>1, <3>2, <3>3
  <2> QED BY <2>1, <2>2
<1> QED BY <1>1, <1>2, <1>8, <1>9, <1>10 DEF HistoryOK

\* Every step keeps the streams of the states true to their paths.
LEMMA NextHistory ==
  ASSUME PathInv, HistoryOK, [Next]_vars
  PROVE  HistoryOK'
<1>1. ASSUME NEW s \in State, NEW c \in State, ForkInternal(s, c) PROVE HistoryOK'
  BY <1>1 DEF ForkInternal, PathInv, HistoryOK, GivenIsTaken
<1>2. ASSUME NEW s \in State, ReadStreamOf(s) PROVE HistoryOK'
  BY <1>2, FlushGood DEF ReadStreamOf, PathInv, HistoryOK, GivenIsTaken
<1>3. ASSUME NEW s \in State, Delete(s) PROVE HistoryOK'
  BY <1>3 DEF Delete, HistoryOK, GivenIsTaken
<1>4. CASE UNCHANGED vars
  BY <1>4 DEF vars, HistoryOK, GivenIsTaken
<1> QED BY <1>1, <1>2, <1>3, <1>4, TakeSideHistory, ForkHistory DEF Next

\* The two parts of the invariant hold together.
LEMMA FilesInvariant == Spec => [](PathInv /\ HistoryOK)
<1>1. PathInv /\ HistoryOK /\ [Next]_vars => PathInv' /\ HistoryOK'
  BY NextPathInv, NextHistory
<1> QED BY <1>1, InitPathInv, PTL DEF Spec

\* The writer and the streams keep their types; the buffer is never overrun.
THEOREM WriterTyped == Spec => []TypeOK
<1>1. PathInv /\ HistoryOK => TypeOK
  BY DEF PathInv, HistoryOK, Good, TypeOK, File, Bytes, Record
<1> QED BY <1>1, FilesInvariant, PTL

\* Whatever the states write, fork and read back, each stream is opened once and
\* before any of its records, so readStream() finds the chain of every state.
THEOREM PathsCanBeRead == Spec => []OpensFirst
<1>1. PathInv => OpensFirst
  BY DEF PathInv, OpensFirst, Good
<1> QED BY <1>1, FilesInvariant, PTL

\* fork() gives the stream of each state the sides that the state takes, unless
\* a state that shares the stream since an internal fork writes there too.
THEOREM StreamsArePaths == Spec => []GivenIsTaken
<1>1. HistoryOK => GivenIsTaken
  BY DEF HistoryOK
<1> QED BY <1>1, FilesInvariant, PTL

-----------------------------------------------------------------------------
(* readStream().  Its two loops are recursive functions; that there is one *)
(* such function, and only one, is proved first.                           *)

\* A set of numbers has a least one.
LEMMA LeastNumber ==
  ASSUME NEW T, T \subseteq Nat, T # {}
  PROVE  \E x \in T : \A y \in T : x <= y
<1>1. \E x \in T : \A y \in T : ~(<<y, x>> \in OpToRel(<, Nat))
  BY NatLessThanWellFounded, WFMin, Zenon
<1>2. PICK R : R = OpToRel(<, Nat)
  BY Zenon
<1>3. R = {p \in Nat \X Nat : p[1] < p[2]}
  BY <1>2, Zenon DEF OpToRel
<1>4. PICK x \in T : \A y \in T : ~(<<y, x>> \in R)
  BY <1>1, <1>2, Zenon
<1>5. ASSUME NEW y \in T PROVE x <= y
  <2>1. x \in Nat /\ y \in Nat /\ (y < x => <<y, x>> \in R)
    BY <1>3
  <2>2. ~(y < x)
    BY <1>4, <2>1, Zenon
  <2> QED BY <2>1, <2>2
<1> QED BY <1>5, Zenon

\* So a set of numbers that has 0 and, with a number, the next one, has them all.
LEMMA Induction ==
  ASSUME NEW n \in Nat, NEW T, 0 \in T, \A i \in 0..(n - 1) : i \in T => i + 1 \in T
  PROVE  \A i \in 0..n : i \in T
<1> DEFINE U == {i \in 0..n : i \notin T}
<1> SUFFICES ASSUME U # {} PROVE FALSE
  OBVIOUS
<1>1. U \subseteq Nat
  OBVIOUS
<1>2. PICK x \in U : \A y \in U : x <= y
  <2> HIDE DEF U
  <2> QED BY <1>1, LeastNumber, Zenon
<1>3. x \in 0..n /\ x \notin T
  BY <1>2
<1>4. x - 1 \in 0..(n - 1) /\ (x - 1) + 1 = x /\ x - 1 \in 0..n /\ ~(x <= x - 1)
  BY <1>3
<1>5. x - 1 \in T
  BY <1>2, <1>4
<1> QED BY <1>3, <1>4, <1>5

-----------------------------------------------------------------------------
\* g is the second pass over the first n records of f, from a.
IsScan(g, n, f, a) == g = [i \in 0..n |-> IF i = 0 THEN a ELSE ScanRecord(g[i - 1], f[i])]

\* What that means, record by record.
LEMMA ScanSteps ==
  ASSUME NEW g, NEW n \in Nat, NEW f, NEW a, IsScan(g, n, f, a)
  PROVE  /\ DOMAIN g = 0..n /\ g[0] = a
         /\ \A i \in 1..n : g[i] = ScanRecord(g[i - 1], f[i])
<1> DEFINE h == [i \in 0..n |-> IF i = 0 THEN a ELSE ScanRecord(g[i - 1], f[i])]
<1>1. g = h
  BY DEF IsScan
<1>2. DOMAIN h = 0..n /\ h[0] = a /\ \A i \in 1..n : h[i] = ScanRecord(g[i - 1], f[i])
  OBVIOUS
<1> HIDE DEF h
<1> QED BY <1>1, <1>2, Zenon

\* There is a second pass.
LEMMA ScanExists ==
  ASSUME NEW f, NEW a, NEW n \in Nat
  PROVE  \E g : IsScan(g, n, f, a)
<1> DEFINE T == {i \in Nat : \E g : IsScan(g, i, f, a)}
<1>1. 0 \in T
  <2> DEFINE g == [i \in 0..0 |-> a]
  <2>1. g = [i \in 0..0 |-> IF i = 0 THEN a ELSE ScanRecord(g[i - 1], f[i])]
    OBVIOUS
  <2> HIDE DEF g
  <2> QED BY <2>1 DEF IsScan
<1>2. ASSUME NEW i \in 0..(n - 1), i \in T PROVE i + 1 \in T
  <2>1. PICK g : IsScan(g, i, f, a)
    BY <1>2
  <2>2. /\ DOMAIN g = 0..i /\ g[0] = a
        /\ \A j \in 1..i : g[j] = ScanRecord(g[j - 1], f[j])
    BY <2>1, ScanSteps
  <2> DEFINE x == ScanRecord(g[i], f[i + 1])
             h == [j \in 0..(i + 1) |-> IF j = i + 1 THEN x ELSE g[j]]
             k == [j \in 0..(i + 1) |-> IF j = 0 THEN a ELSE ScanRecord(h[j - 1], f[j])]
  <2> HIDE DEF x
  <2>3. ASSUME NEW j \in 0..(i + 1) PROVE h[j] = k[j]
    <3>1. CASE j = 0
      BY <2>2, <3>1
    <3>2. CASE j \in 1..i
      <4>1. h[j] = g[j] /\ h[j - 1] = g[j - 1]
        BY <3>2
      <4>2. k[j] = ScanRecord(h[j - 1], f[j])
        BY <3>2
      <4> HIDE DEF h, k
      <4> QED BY <2>2, <3>2, <4>1, <4>2
    <3>3. CASE j = i + 1
      <4>1. h[j] = x /\ h[j - 1] = g[i] /\ k[j] = ScanRecord(h[j - 1], f[j])
        BY <3>3
      <4> HIDE DEF h, k
      <4> QED BY <3>3, <4>1 DEF x
    <3> QED BY <3>1, <3>2, <3>3
  <2>4. h = k
    BY <2>3
  <2>5. IsScan(h, i + 1, f, a)
    <3> HIDE DEF h
    <3> QED BY <2>4 DEF IsScan, k
  <2> QED BY <2>5
<1> HIDE DEF T
<1>3. n \in T
  BY <1>1, <1>2, Induction
<1> QED BY <1>3 DEF T

\* Two passes over records that are the same agree.
LEMMA ScansAgree ==
  ASSUME NEW f, NEW h, NEW a, NEW n \in Nat, NEW m \in Nat, n <= m,
         \A i \in 1..n : f[i] = h[i],
         NEW g, IsScan(g, n, f, a), NEW k, IsScan(k, m, h, a)
  PROVE  \A i \in 0..n : g[i] = k[i]
<1> DEFINE T == {i \in 0..n : g[i] = k[i]}
<1>1. g[0] = a /\ \A i \in 1..n : g[i] = ScanRecord(g[i - 1], f[i])
  BY ScanSteps
<1>2. k[0] = a /\ \A i \in 1..m : k[i] = ScanRecord(k[i - 1], h[i])
  BY ScanSteps
<1>3. 0 \in T
  BY <1>1, <1>2
<1>4. ASSUME NEW i \in 0..(n - 1), i \in T PROVE i + 1 \in T
  <2>1. i + 1 \in 1..n /\ i + 1 \in 1..m /\ (i + 1) - 1 = i /\ g[i] = k[i]
    BY <1>4
  <2>2. g[i + 1] = ScanRecord(g[i], f[i + 1]) /\ k[i + 1] = ScanRecord(k[i], h[i + 1])
    BY <1>1, <1>2, <2>1
  <2> QED BY <2>1, <2>2
<1> HIDE DEF T
<1>5. \A i \in 0..n : i \in T
  BY <1>3, <1>4, Induction
<1> QED BY <1>5 DEF T

\* Scan is the last value of the second pass.
LEMMA ScanIs ==
  ASSUME NEW f \in File, NEW R
  PROVE  \E g : IsScan(g, Len(f), f, [roots |-> R, out |-> <<>>]) /\ Scan(f, R) = g[Len(f)]
<1> DEFINE s == CHOOSE g : g = [i \in 0..Len(f) |->
                                  IF i = 0 THEN [roots |-> R, out |-> <<>>]
                                  ELSE ScanRecord(g[i - 1], f[i])]
<1>1. Scan(f, R) = s[Len(f)]
  BY DEF Scan
<1>2. \E g : IsScan(g, Len(f), f, [roots |-> R, out |-> <<>>])
  <2>1. PICK a : a = [roots |-> R, out |-> <<>>]
    BY Zenon
  <2>2. Len(f) \in Nat
    BY DEF File
  <2>3. \E g : IsScan(g, Len(f), f, a)
    BY <2>2, ScanExists, Zenon
  <2> QED BY <2>1, <2>3, Zenon
<1>3. IsScan(s, Len(f), f, [roots |-> R, out |-> <<>>])
  BY <1>2, Zenon DEF IsScan
<1> HIDE DEF s
<1> QED BY <1>1, <1>3, Zenon

\* A record more is one step more.
LEMMA ScanAppend ==
  ASSUME NEW f \in File, NEW r \in Record, NEW R
  PROVE  Scan(Append(f, r), R) = ScanRecord(Scan(f, R), r)
<1> DEFINE a == [roots |-> R, out |-> <<>>]
<1> HIDE DEF a
<1>1. PICK h \in File : h = Append(f, r)
  <2>1. Append(f, r) \in File
    BY DEF File
  <2> QED BY <2>1, Zenon
<1>2. /\ Len(h) = Len(f) + 1 /\ h[Len(f) + 1] = r /\ \A i \in 1..Len(f) : f[i] = h[i]
      /\ Len(f) \in Nat /\ Len(h) \in Nat /\ Len(f) <= Len(h)
  BY <1>1 DEF File
<1>3. PICK g : IsScan(g, Len(f), f, a) /\ Scan(f, R) = g[Len(f)]
  BY ScanIs, Zenon DEF a
<1>4. PICK k : IsScan(k, Len(h), h, a) /\ Scan(h, R) = k[Len(h)]
  BY ScanIs, Zenon DEF a
<1>5. \A i \in 0..Len(f) : g[i] = k[i]
  BY <1>2, <1>3, <1>4, ScansAgree
<1>6. \A i \in 1..Len(h) : k[i] = ScanRecord(k[i - 1], h[i])
  BY <1>2, <1>4, ScanSteps, ZenonT(40)
<1>7. Len(h) \in 1..Len(h) /\ Len(h) - 1 = Len(f) /\ Len(f) \in 0..Len(f)
  BY <1>2
<1> QED BY <1>1, <1>2, <1>3, <1>4, <1>5, <1>6, <1>7

\* The types of the second pass.
Roots1 == Seq(Nat) \ {<<>>}
Acc == [roots : Roots1, out : Bytes]

\* A record of the second pass of readStream leaves at least one root.
LEMMA ScanRecordType ==
  ASSUME NEW x \in Acc, NEW r \in Record
  PROVE  ScanRecord(x, r) \in Acc
<1>1. x.out \o r.data \in Bytes
  BY DEF Acc, Record, Bytes
<1>2. ASSUME Len(x.roots) > 1 PROVE Tail(x.roots) \in Roots1
  <2>1. PICK q \in Seq(Nat) : q = x.roots
    BY DEF Acc, Roots1
  <2>2. Tail(q) \in Seq(Nat) /\ Len(Tail(q)) = Len(q) - 1
    BY <1>2, <2>1
  <2>3. Len(<<>>) = 0
    OBVIOUS
  <2> QED BY <1>2, <2>1, <2>2, <2>3 DEF Roots1
<1> QED BY <1>1, <1>2, Zenon DEF ScanRecord, Acc

\* The second pass ends with at least one root, and with bytes read.
LEMMA ScanType ==
  ASSUME NEW f \in File, NEW R \in Roots1
  PROVE  Scan(f, R) \in Acc
<1> DEFINE a == [roots |-> R, out |-> <<>>]
<1>1. a \in Acc
  BY DEF Acc, Bytes
<1> HIDE DEF a
<1>2. PICK g : IsScan(g, Len(f), f, a) /\ Scan(f, R) = g[Len(f)]
  BY ScanIs, Zenon DEF a
<1>3. Len(f) \in Nat /\ \A i \in 1..Len(f) : f[i] \in Record
  BY DEF File
<1>4. g[0] = a /\ \A i \in 1..Len(f) : g[i] = ScanRecord(g[i - 1], f[i])
  BY <1>2, <1>3, ScanSteps
<1> DEFINE T == {i \in 0..Len(f) : g[i] \in Acc}
<1>5. 0 \in T
  BY <1>1, <1>3, <1>4
<1>6. ASSUME NEW i \in 0..(Len(f) - 1), i \in T PROVE i + 1 \in T
  <2>1. i + 1 \in 1..Len(f) /\ (i + 1) - 1 = i /\ g[i] \in Acc
    BY <1>3, <1>6
  <2>2. g[i + 1] = ScanRecord(g[i], f[i + 1]) /\ f[i + 1] \in Record
    BY <1>3, <1>4, <2>1
  <2> QED BY <2>1, <2>2, ScanRecordType
<1> HIDE DEF T
<1>7. \A i \in 0..Len(f) : i \in T
  BY <1>3, <1>5, <1>6, Induction, Zenon
<1> QED BY <1>2, <1>3, <1>7 DEF T

\* Roots with one more at the end.
Longer(x, n) == [roots |-> Append(x.roots, n), out |-> x.out]

\* One record, on a record of the two fields.
LEMMA RecordSteps ==
  ASSUME NEW q, NEW o, NEW r
  PROVE  /\ r.child = 0 =>
              ScanRecord([roots |-> q, out |-> o], r) =
                [roots |-> q, out |-> IF r.id = Head(q) THEN o \o r.data ELSE o]
         /\ r.child # 0 =>
              ScanRecord([roots |-> q, out |-> o], r) =
                [roots |-> IF Len(q) > 1 /\ r.id = Head(q) /\ r.child = q[2] THEN Tail(q) ELSE q,
                 out |-> o]
<1> DEFINE x == [roots |-> q, out |-> o]
<1>1. x.roots = q /\ x.out = o
  OBVIOUS
<1>2. ASSUME NEW y PROVE [x EXCEPT !.roots = y] = [roots |-> y, out |-> o]
  OBVIOUS
<1>3. ASSUME NEW y PROVE [x EXCEPT !.out = y] = [roots |-> q, out |-> y]
  OBVIOUS
<1> HIDE DEF x
<1>4. ScanRecord(x, r) =
        IF r.child # 0
        THEN [x EXCEPT !.roots = IF Len(q) > 1 /\ r.id = Head(q) /\ r.child = q[2] THEN Tail(q) ELSE q]
        ELSE [x EXCEPT !.out = IF r.id = Head(q) THEN o \o r.data ELSE o]
  BY <1>1, Zenon DEF ScanRecord
<1> QED BY <1>2, <1>3, <1>4, Zenon DEF x

\* A root that no record opens is not reached: it makes no difference before.
LEMMA RecordLonger ==
  ASSUME NEW x \in Acc, NEW r \in Record, NEW n \in Nat, r.child # n
  PROVE  ScanRecord(Longer(x, n), r) = Longer(ScanRecord(x, r), n)
<1>1. PICK q \in Seq(Nat) : q = x.roots /\ q # <<>>
  BY DEF Acc, Roots1
<1>2. PICK l \in Seq(Nat) : l = Append(q, n)
  <2>1. Append(q, n) \in Seq(Nat)
    OBVIOUS
  <2> QED BY <2>1, Zenon
<1>3. /\ Len(l) = Len(q) + 1 /\ Len(q) \in Nat \ {0} /\ Head(l) = Head(q)
      /\ Tail(l) = Append(Tail(q), n) /\ (Len(q) > 1 => l[2] = q[2])
      /\ (Len(q) = 1 => l[2] = n)
  BY <1>1, <1>2, SMTT(30)
<1> DEFINE o == x.out
<1>4. Longer(x, n) = [roots |-> l, out |-> o]
  BY <1>1, <1>2 DEF Longer
<1>5. x = [roots |-> q, out |-> o]
  BY <1>1 DEF Acc
<1>0. ASSUME NEW s, NEW d, ScanRecord(x, r) = [roots |-> s, out |-> d]
      PROVE  Longer(ScanRecord(x, r), n) = [roots |-> Append(s, n), out |-> d]
  BY <1>0 DEF Longer
<1> HIDE DEF o
<1>6. CASE r.child = 0
  <2> DEFINE d == IF r.id = Head(q) THEN o \o r.data ELSE o
  <2>1. ScanRecord(x, r) = [roots |-> q, out |-> d]
    BY <1>5, <1>6, RecordSteps, Zenon
  <2>2. ScanRecord(Longer(x, n), r) = [roots |-> l, out |-> d]
    BY <1>3, <1>4, <1>6, RecordSteps, ZenonT(40)
  <2> HIDE DEF d
  <2> QED BY <1>0, <1>2, <2>1, <2>2, Zenon
<1>7. CASE r.child # 0 /\ Len(q) > 1 /\ r.id = Head(q) /\ r.child = q[2]
  <2>1. ScanRecord(x, r) = [roots |-> Tail(q), out |-> o]
    BY <1>5, <1>7, RecordSteps, Zenon
  <2>2. Len(l) > 1 /\ r.id = Head(l) /\ r.child = l[2]
    BY <1>3, <1>7
  <2>3. ScanRecord(Longer(x, n), r) = [roots |-> Tail(l), out |-> o]
    BY <1>4, <1>7, <2>2, RecordSteps, Zenon
  <2> QED BY <1>0, <1>3, <2>1, <2>3, Zenon
<1>8. CASE r.child # 0 /\ ~(Len(q) > 1 /\ r.id = Head(q) /\ r.child = q[2])
  <2>1. ScanRecord(x, r) = [roots |-> q, out |-> o]
    BY <1>5, <1>8, RecordSteps, Zenon
  <2>2. ~(Len(l) > 1 /\ r.id = Head(l) /\ r.child = l[2])
    BY <1>3, <1>8
  <2>3. ScanRecord(Longer(x, n), r) = [roots |-> l, out |-> o]
    BY <1>4, <1>8, <2>2, RecordSteps, Zenon
  <2> QED BY <1>0, <1>2, <2>1, <2>3, Zenon
<1> QED BY <1>6, <1>7, <1>8, Zenon

\* While the file has no fork record for stream n, the second pass does not see
\* that n is the last of the roots.
LEMMA ScanLonger ==
  ASSUME NEW f \in File, NEW R \in Roots1, NEW n \in Nat, \A i \in 1..Len(f) : f[i].child # n
  PROVE  Scan(f, Append(R, n)) = Longer(Scan(f, R), n)
<1> DEFINE a == [roots |-> R, out |-> <<>>]
           b == [roots |-> Append(R, n), out |-> <<>>]
<1>1. a \in Acc /\ b = Longer(a, n)
  BY DEF Acc, Bytes, Longer
<1> HIDE DEF a, b
<1>2. PICK g : IsScan(g, Len(f), f, a) /\ Scan(f, R) = g[Len(f)]
  BY ScanIs, Zenon DEF a
<1>3. PICK k : IsScan(k, Len(f), f, b) /\ Scan(f, Append(R, n)) = k[Len(f)]
  BY ScanIs, Zenon DEF b
<1>4. Len(f) \in Nat /\ \A i \in 1..Len(f) : f[i] \in Record
  BY DEF File
<1>5. g[0] = a /\ \A i \in 1..Len(f) : g[i] = ScanRecord(g[i - 1], f[i])
  BY <1>2, <1>4, ScanSteps
<1>6. k[0] = b /\ \A i \in 1..Len(f) : k[i] = ScanRecord(k[i - 1], f[i])
  BY <1>3, <1>4, ScanSteps
<1> DEFINE T == {i \in 0..Len(f) : g[i] \in Acc /\ k[i] = Longer(g[i], n)}
<1>7. 0 \in T
  BY <1>1, <1>4, <1>5, <1>6
<1>8. ASSUME NEW i \in 0..(Len(f) - 1), i \in T PROVE i + 1 \in T
  <2>1. i + 1 \in 1..Len(f) /\ (i + 1) - 1 = i /\ g[i] \in Acc /\ k[i] = Longer(g[i], n)
    BY <1>4, <1>8
  <2>2. /\ g[i + 1] = ScanRecord(g[i], f[i + 1]) /\ k[i + 1] = ScanRecord(k[i], f[i + 1])
        /\ f[i + 1] \in Record /\ f[i + 1].child # n
    BY <1>4, <1>5, <1>6, <2>1
  <2>3. g[i + 1] \in Acc /\ k[i + 1] = Longer(g[i + 1], n)
    BY <2>1, <2>2, ScanRecordType, RecordLonger
  <2> QED BY <1>8, <2>1, <2>3
<1> HIDE DEF T
<1>9. \A i \in 0..Len(f) : i \in T
  BY <1>4, <1>7, <1>8, Induction, Zenon
<1> QED BY <1>2, <1>3, <1>4, <1>9 DEF T

-----------------------------------------------------------------------------
\* g is the chain of roots of each stream up to m.
IsChain(g, m, f) ==
  g = [c \in 0..m |-> IF c = 0 THEN <<>> ELSE Append(g[ParentOf(f, c)], c)]

\* The streams up to m were opened from streams with smaller ids.
ParentsFirst(f, m) == \A c \in 1..m : ParentOf(f, c) \in 0..(c - 1)

\* What the recursion behind Roots says at each stream.
LEMMA ChainSteps ==
  ASSUME NEW g, NEW m \in Nat, NEW f, IsChain(g, m, f)
  PROVE  /\ DOMAIN g = 0..m /\ g[0] = <<>>
         /\ \A c \in 1..m : g[c] = Append(g[ParentOf(f, c)], c)
<1> DEFINE h == [c \in 0..m |-> IF c = 0 THEN <<>> ELSE Append(g[ParentOf(f, c)], c)]
<1>1. g = h
  BY Zenon DEF IsChain
<1>2. DOMAIN h = 0..m /\ h[0] = <<>> /\ \A c \in 1..m : h[c] = Append(g[ParentOf(f, c)], c)
  OBVIOUS
<1> HIDE DEF h
<1> QED BY <1>1, <1>2, Zenon

\* The loop over the parents map ends: if parents have smaller numbers, there is a
\* chain of roots for every stream.
LEMMA ChainExists ==
  ASSUME NEW f, NEW m \in Nat, ParentsFirst(f, m)
  PROVE  \E g : IsChain(g, m, f)
<1> DEFINE T == {i \in 0..m : \E g : IsChain(g, i, f)}
<1>1. 0 \in T
  <2> DEFINE g == [c \in 0..0 |-> <<>>]
  <2>1. g = [c \in 0..0 |-> IF c = 0 THEN <<>> ELSE Append(g[ParentOf(f, c)], c)]
    OBVIOUS
  <2> HIDE DEF g
  <2> QED BY <2>1 DEF IsChain
<1>2. ASSUME NEW i \in 0..(m - 1), i \in T PROVE i + 1 \in T
  <2>1. PICK g : IsChain(g, i, f)
    BY <1>2
  <2>2. DOMAIN g = 0..i /\ g[0] = <<>> /\ \A c \in 1..i : g[c] = Append(g[ParentOf(f, c)], c)
    BY <2>1, ChainSteps
  <2> DEFINE x == Append(g[ParentOf(f, i + 1)], i + 1)
             h == [c \in 0..(i + 1) |-> IF c = i + 1 THEN x ELSE g[c]]
             k == [c \in 0..(i + 1) |-> IF c = 0 THEN <<>> ELSE Append(h[ParentOf(f, c)], c)]
  <2> HIDE DEF x
  <2>3. ASSUME NEW c \in 0..(i + 1) PROVE h[c] = k[c]
    <3>1. CASE c = 0
      BY <2>2, <3>1
    <3>2. CASE c # 0
      <4>1. ParentOf(f, c) \in 0..(c - 1)
        BY <3>2 DEF ParentsFirst
      <4>2. ParentOf(f, c) \in 0..(i + 1) /\ ParentOf(f, c) # i + 1
        BY <4>1
      <4>3. h[ParentOf(f, c)] = g[ParentOf(f, c)]
        BY <4>2
      <4>4. k[c] = Append(h[ParentOf(f, c)], c)
        BY <3>2
      <4>5. h[c] = IF c = i + 1 THEN x ELSE g[c]
        OBVIOUS
      <4> HIDE DEF h, k
      <4>6. c # i + 1 => c \in 1..i
        BY <3>2
      <4> QED BY <2>2, <4>3, <4>4, <4>5, <4>6 DEF x
    <3> QED BY <3>1, <3>2
  <2>4. h = k
    BY <2>3
  <2>5. IsChain(h, i + 1, f)
    <3> HIDE DEF h
    <3> QED BY <2>4, Zenon DEF IsChain, k
  <2> QED BY <1>2, <2>5
<1> HIDE DEF T
<1>3. \A i \in 0..m : i \in T
  BY <1>1, <1>2, Induction
<1> QED BY <1>3 DEF T

\* Two files with the same fork records for streams up to m have the same chains
\* for them.
LEMMA ChainsAgree ==
  ASSUME NEW f, NEW h, NEW m \in Nat, NEW n \in Nat, m <= n, ParentsFirst(f, m),
         \A c \in 1..m : ParentOf(f, c) = ParentOf(h, c),
         NEW g, IsChain(g, m, f), NEW k, IsChain(k, n, h)
  PROVE  \A c \in 0..m : g[c] = k[c]
<1>1. g[0] = <<>> /\ \A c \in 1..m : g[c] = Append(g[ParentOf(f, c)], c)
  BY ChainSteps
<1>2. k[0] = <<>> /\ \A c \in 1..n : k[c] = Append(k[ParentOf(h, c)], c)
  BY ChainSteps
<1> DEFINE T == {i \in 0..m : \A c \in 0..i : g[c] = k[c]}
<1>3. 0 \in T
  BY <1>1, <1>2
<1>4. ASSUME NEW i \in 0..(m - 1), i \in T PROVE i + 1 \in T
  <2>1. i + 1 \in 1..m /\ i + 1 \in 1..n /\ \A c \in 0..i : g[c] = k[c]
    BY <1>4
  <2>2. ParentOf(f, i + 1) \in 0..i /\ ParentOf(f, i + 1) = ParentOf(h, i + 1)
    BY <2>1 DEF ParentsFirst
  <2>3. g[i + 1] = k[i + 1]
    BY <1>1, <1>2, <2>1, <2>2, Zenon
  <2>4. ASSUME NEW c \in 0..(i + 1) PROVE g[c] = k[c]
    BY <2>1, <2>3
  <2> QED BY <2>1, <2>4
<1> HIDE DEF T
<1>5. \A i \in 0..m : i \in T
  BY <1>3, <1>4, Induction
<1> QED BY <1>5 DEF T

\* Roots is that chain.
LEMMA RootsIs ==
  ASSUME NEW f, NEW id \in Nat, ParentsFirst(f, id)
  PROVE  \E g : IsChain(g, id, f) /\ Roots(f, id) = g[id]
<1> DEFINE s == CHOOSE g : g = [c \in 0..id |->
                                  IF c = 0 THEN <<>> ELSE Append(g[ParentOf(f, c)], c)]
<1>1. Roots(f, id) = s[id]
  BY DEF Roots
<1>2. \E g : IsChain(g, id, f)
  BY ChainExists
<1>3. IsChain(s, id, f)
  BY <1>2, Zenon DEF IsChain
<1> HIDE DEF s
<1> QED BY <1>1, <1>3, Zenon

\* The roots of a stream depend on how it and its ancestors were opened only.
LEMMA RootsAgree ==
  ASSUME NEW f, NEW h, NEW id \in Nat, ParentsFirst(f, id),
         \A c \in 1..id : ParentOf(f, c) = ParentOf(h, c)
  PROVE  Roots(f, id) = Roots(h, id)
<1>1. ParentsFirst(h, id)
  BY DEF ParentsFirst
<1>2. PICK g : IsChain(g, id, f) /\ Roots(f, id) = g[id]
  BY RootsIs
<1>3. PICK k : IsChain(k, id, h) /\ Roots(h, id) = k[id]
  BY <1>1, RootsIs
<1>4. \A c \in 0..id : g[c] = k[c]
  BY <1>2, <1>3, ChainsAgree
<1> QED BY <1>2, <1>3, <1>4

\* They are those of its parent, and the stream itself.
LEMMA RootsStep ==
  ASSUME NEW f, NEW id \in Nat \ {0}, ParentsFirst(f, id)
  PROVE  Roots(f, id) = Append(Roots(f, ParentOf(f, id)), id)
<1>1. PICK p \in 0..(id - 1) : p = ParentOf(f, id)
  BY DEF ParentsFirst
<1>2. ParentsFirst(f, p) /\ p \in Nat /\ p <= id
  BY <1>1 DEF ParentsFirst
<1>3. PICK g : IsChain(g, id, f) /\ Roots(f, id) = g[id]
  BY RootsIs
<1>4. PICK k : IsChain(k, p, f) /\ Roots(f, p) = k[p]
  BY <1>2, RootsIs
<1>5. k[p] = g[p]
  <2>1. \A c \in 0..p : k[c] = g[c]
    BY <1>2, <1>3, <1>4, ChainsAgree
  <2> QED BY <1>2, <2>1
<1>6. g[id] = Append(g[p], id)
  <2>1. \A c \in 1..id : g[c] = Append(g[ParentOf(f, c)], c)
    BY <1>3, ChainSteps
  <2> QED BY <1>1, <2>1
<1> QED BY <1>1, <1>3, <1>4, <1>5, <1>6

\* The roots of a stream are never empty, and are streams.
LEMMA RootsType ==
  ASSUME NEW f, NEW id \in Nat \ {0}, ParentsFirst(f, id)
  PROVE  Roots(f, id) \in Roots1
<1>1. PICK g : IsChain(g, id, f) /\ Roots(f, id) = g[id]
  BY RootsIs
<1>2. g[0] = <<>> /\ \A c \in 1..id : g[c] = Append(g[ParentOf(f, c)], c)
  BY <1>1, ChainSteps
<1> DEFINE T == {i \in 0..id : \A c \in 0..i : g[c] \in Seq(Nat)}
<1>3. 0 \in T
  <2>1. <<>> \in Seq(Nat)
    OBVIOUS
  <2>2. ASSUME NEW c \in 0..0 PROVE g[c] \in Seq(Nat)
    <3>1. c = 0
      OBVIOUS
    <3> QED BY <1>2, <2>1, <3>1, Zenon
  <2> QED BY <2>2
<1>4. ASSUME NEW i \in 0..(id - 1), i \in T PROVE i + 1 \in T
  <2>1. i + 1 \in 1..id /\ \A c \in 0..i : g[c] \in Seq(Nat)
    BY <1>4
  <2>2. ParentOf(f, i + 1) \in 0..i
    BY <2>1 DEF ParentsFirst
  <2>3. g[i + 1] \in Seq(Nat)
    <3>1. g[i + 1] = Append(g[ParentOf(f, i + 1)], i + 1)
      BY <1>2, <2>1
    <3>2. PICK q \in Seq(Nat) : q = g[ParentOf(f, i + 1)]
      BY <2>1, <2>2
    <3>3. Append(q, i + 1) \in Seq(Nat)
      BY <2>1
    <3> QED BY <3>1, <3>2, <3>3
  <2>4. ASSUME NEW c \in 0..(i + 1) PROVE g[c] \in Seq(Nat)
    BY <2>1, <2>3
  <2> QED BY <2>1, <2>4
<1> HIDE DEF T
<1>5. \A i \in 0..id : i \in T
  BY <1>3, <1>4, Induction
<1>6. \A c \in 0..id : g[c] \in Seq(Nat)
  BY <1>5 DEF T
<1>7. g[ParentOf(f, id)] \in Seq(Nat) /\ g[id] = Append(g[ParentOf(f, id)], id)
  BY <1>2, <1>6 DEF ParentsFirst
<1>8. g[id] # <<>>
  BY <1>7
<1> QED BY <1>1, <1>6, <1>8 DEF Roots1

-----------------------------------------------------------------------------
\* The streams of f that are opened were opened from streams with smaller ids.
SmallerParents(f) == \A i \in 1..Len(f) : f[i].child # 0 => f[i].id < f[i].child

\* The parent of a stream is found in the one record that opens it.
LEMMA ParentIs ==
  ASSUME NEW f \in File, NEW n \in Nat \ {0}, FileOrdered(f, n),
         NEW i \in 1..Len(f), f[i].child # 0
  PROVE  ParentOf(f, f[i].child) = f[i].id
<1> DEFINE c == f[i].child
           j == CHOOSE x \in DOMAIN f : f[x].child = c
<1>1. DOMAIN f = 1..Len(f)
  BY DEF File
<1>2. j \in DOMAIN f /\ f[j].child = c
  BY <1>1
<1> HIDE DEF j
<1>3. j = i
  BY <1>1, <1>2 DEF FileOrdered
<1>4. ParentOf(f, c) = f[j].id
  BY DEF ParentOf, j
<1> QED BY <1>3, <1>4

\* In a file that opens each stream once, before it is used, every parent that is
\* read from the fork records has a smaller number.
LEMMA ParentsAreFirst ==
  ASSUME NEW f \in File, NEW n \in Nat \ {0}, FileOrdered(f, n), SmallerParents(f),
         NEW m \in Nat, m < n
  PROVE  ParentsFirst(f, m)
<1> SUFFICES ASSUME NEW c \in 1..m PROVE ParentOf(f, c) \in 0..(c - 1)
  BY DEF ParentsFirst
<1>1. PICK i \in 1..Len(f) : f[i].child = c
  BY DEF FileOrdered
<1>2. ParentOf(f, c) = f[i].id
  BY <1>1, ParentIs
<1>3. f[i].id \in Nat /\ f[i].id < c
  <2>1. f[i] \in Record
    BY DEF File
  <2> QED BY <1>1, <2>1 DEF SmallerParents, Record
<1> QED BY <1>2, <1>3

\* What was opened is opened in the same way in a longer file.
LEMMA SameParents ==
  ASSUME NEW f \in File, NEW n \in Nat \ {0}, FileOrdered(f, n), NEW r \in Record,
         NEW k \in Nat \ {0}, FileOrdered(Append(f, r), k)
  PROVE  \A c \in 1..(n - 1) : ParentOf(f, c) = ParentOf(Append(f, r), c)
<1> SUFFICES ASSUME NEW c \in 1..(n - 1) PROVE ParentOf(f, c) = ParentOf(Append(f, r), c)
  OBVIOUS
<1>1. PICK h \in File : h = Append(f, r)
  <2>1. Append(f, r) \in File
    BY DEF File
  <2> QED BY <2>1, Zenon
<1>2. PICK i \in 1..Len(f) : f[i].child = c
  BY Zenon DEF FileOrdered
<1>3. i \in 1..Len(h) /\ h[i] = f[i]
  BY <1>1 DEF File
<1>4. ParentOf(f, c) = f[i].id
  BY <1>2, ParentIs
<1>5. ParentOf(h, c) = h[i].id
  <2>1. FileOrdered(h, k) /\ h[i].child = c /\ c # 0
    BY <1>1, <1>2, <1>3
  <2> QED BY <1>3, <2>1, ParentIs
<1> QED BY <1>1, <1>3, <1>4, <1>5

\* Reading stream id of file f.
Held(f, id) == Scan(f, Roots(f, id))

\* Everything of a file f is read: the last root is reached at the end.
AllRead(f, n) ==
  /\ FileOrdered(f, n) /\ SmallerParents(f)
  /\ \A id \in 1..(n - 1) : Held(f, id) \in Acc /\ Held(f, id).roots = <<id>>

\* Data is read by its stream, and by no other.
LEMMA DataRead ==
  ASSUME NEW f \in File, NEW n \in Nat \ {0}, AllRead(f, n),
         NEW j \in 1..(n - 1), NEW d \in Bytes
  PROVE  /\ Append(f, DataRecord(j, d)) \in File
         /\ AllRead(Append(f, DataRecord(j, d)), n)
         /\ \A id \in 1..(n - 1) :
              Held(Append(f, DataRecord(j, d)), id).out =
                IF id = j THEN Held(f, id).out \o d ELSE Held(f, id).out
<1>0. PICK g : g = Append(f, DataRecord(j, d))
  BY Zenon
<1>1. PICK r \in Record : r = DataRecord(j, d) /\ r.child = 0 /\ r.id = j /\ r.data = d
  <2>1. DataRecord(j, d) = [id |-> j, child |-> 0, data |-> d]
    BY DEF DataRecord
  <2>2. [id |-> j, child |-> 0, data |-> d] \in Record
    BY DEF Record, Bytes
  <2> QED BY <2>1, <2>2
<1>2. g \in File /\ FileOrdered(g, n)
  BY <1>0, DataKeepsOrder DEF AllRead, File, Bytes
<1>3. SmallerParents(g)
  <2>1. Len(g) = Len(f) + 1 /\ g[Len(f) + 1] = r /\ \A i \in 1..Len(f) : g[i] = f[i]
    BY <1>0, <1>1 DEF File
  <2>2. Len(f) \in Nat
    BY DEF File
  <2> QED BY <1>1, <2>1, <2>2 DEF SmallerParents, AllRead
<1>4. ASSUME NEW id \in 1..(n - 1)
      PROVE  /\ Held(g, id) \in Acc /\ Held(g, id).roots = <<id>>
             /\ Held(g, id).out = IF id = j THEN Held(f, id).out \o d ELSE Held(f, id).out
  <2>1. ParentsFirst(f, id)
    BY ParentsAreFirst DEF AllRead
  <2>2. Roots(g, id) = Roots(f, id)
    <3>1. \A c \in 1..(n - 1) : ParentOf(f, c) = ParentOf(g, c)
      BY <1>0, <1>1, <1>2, SameParents DEF AllRead
    <3>2. \A c \in 1..id : ParentOf(f, c) = ParentOf(g, c)
      BY <3>1
    <3>3. id \in Nat
      OBVIOUS
    <3> QED BY <2>1, <3>2, <3>3, RootsAgree
  <2>3. Held(g, id) = ScanRecord(Held(f, id), r)
    BY <1>0, <1>1, <2>2, ScanAppend DEF Held
  <2>4. PICK x \in Acc : x = Held(f, id) /\ x.roots = <<id>>
    BY DEF AllRead
  <2>5. PICK q, o : x = [roots |-> q, out |-> o] /\ q = <<id>> /\ o = x.out
    BY <2>4 DEF Acc
  <2>6. Held(g, id) = [roots |-> q, out |-> IF j = id THEN o \o d ELSE o]
    <3>1. Head(q) = id
      BY <2>5
    <3>2. Held(g, id) = [roots |-> q, out |-> IF r.id = Head(q) THEN o \o r.data ELSE o]
      <4>1. r.child = 0 =>
              ScanRecord([roots |-> q, out |-> o], r) =
                [roots |-> q, out |-> IF r.id = Head(q) THEN o \o r.data ELSE o]
        BY RecordSteps, Zenon
      <4>2. Held(g, id) = ScanRecord([roots |-> q, out |-> o], r)
        BY <2>3, <2>4, <2>5, Zenon
      <4> QED BY <1>1, <4>1, <4>2, Zenon
    <3> QED BY <1>1, <3>1, <3>2, Zenon
  <2>7. Held(g, id) \in Acc
    BY <1>1, <2>3, <2>4, ScanRecordType
  <2> QED BY <2>4, <2>5, <2>6, <2>7
<1>5. AllRead(g, n)
  BY <1>2, <1>3, <1>4 DEF AllRead
<1> QED BY <1>0, <1>2, <1>4, <1>5, Zenon

\* A chain of two roots.
LEMMA TwoRoots ==
  ASSUME NEW p \in Nat, NEW n \in Nat, NEW q, q = Append(<<p>>, n)
  PROVE  Len(q) > 1 /\ Head(q) = p /\ q[2] = n /\ Tail(q) = <<n>>
<1>1. <<p>> \in Seq(Nat) /\ Len(<<p>>) = 1 /\ <<p>>[1] = p
  OBVIOUS
<1>2. PICK s \in Seq(Nat) : s = <<p>> /\ Len(s) = 1 /\ s[1] = p
  BY <1>1, Zenon
<1>3. q = Append(s, n)
  BY <1>2, Zenon
<1>4. q \in Seq(Nat) /\ Len(q) = 2 /\ q[1] = p /\ q[2] = n
  BY <1>2, <1>3
<1>5. PICK t : t = Tail(q)
  BY Zenon
<1>6. t \in Seq(Nat) /\ Len(t) = 1 /\ t[1] = n
  BY <1>4, <1>5
<1>7. t = <<n>>
  BY <1>6
<1>8. Len(q) > 1 /\ Head(q) = p
  BY <1>4
<1> QED BY <1>4, <1>5, <1>7, <1>8, Zenon

\* A stream that is opened begins with what the stream it is opened from holds.
LEMMA OpenRead ==
  ASSUME NEW f \in File, NEW n \in Nat \ {0}, AllRead(f, n),
         NEW p \in 1..(n - 1)
  PROVE  /\ Append(f, ForkRecord(p, n)) \in File
         /\ AllRead(Append(f, ForkRecord(p, n)), n + 1)
         /\ \A id \in 1..(n - 1) : Held(Append(f, ForkRecord(p, n)), id).out = Held(f, id).out
         /\ Held(Append(f, ForkRecord(p, n)), n).out = Held(f, p).out
<1>0. PICK g : g = Append(f, ForkRecord(p, n))
  BY Zenon
<1>1. PICK r \in Record : r = ForkRecord(p, n) /\ r.child = n /\ r.id = p
  <2>0. <<>> \in Bytes
    BY DEF Bytes
  <2>1. PICK e \in Bytes : e = <<>>
    BY <2>0, Zenon
  <2>2. ForkRecord(p, n) = [id |-> p, child |-> n, data |-> e]
    BY <2>1 DEF ForkRecord
  <2>3. [id |-> p, child |-> n, data |-> e] \in Record
    BY DEF Record, Bytes
  <2> QED BY <2>2, <2>3
<1>2. g \in File /\ FileOrdered(g, n + 1)
  BY <1>0, ForkKeepsOrder DEF AllRead, File
<1>3. /\ Len(g) = Len(f) + 1 /\ g[Len(f) + 1] = r /\ \A i \in 1..Len(f) : g[i] = f[i]
      /\ Len(f) \in Nat /\ n + 1 \in Nat \ {0}
  BY <1>0, <1>1 DEF File
<1>4. SmallerParents(g)
  BY <1>1, <1>3 DEF SmallerParents, AllRead
<1>5. \A c \in 1..(n - 1) : ParentOf(f, c) = ParentOf(g, c)
  BY <1>0, <1>1, <1>2, <1>3, SameParents DEF AllRead
<1>6. ASSUME NEW id \in 1..(n - 1)
      PROVE  ParentsFirst(f, id) /\ Roots(g, id) = Roots(f, id)
  <2>1. id \in Nat /\ \A c \in 1..id : ParentOf(f, c) = ParentOf(g, c)
    BY <1>5
  <2>2. ParentsFirst(f, id)
    BY ParentsAreFirst DEF AllRead
  <2> QED BY <2>1, <2>2, RootsAgree
<1>7. ASSUME NEW id \in 1..(n - 1) PROVE Held(g, id) = Held(f, id)
  <2>1. Held(g, id) = ScanRecord(Held(f, id), r)
    BY <1>0, <1>1, <1>6, ScanAppend DEF Held
  <2>2. PICK q, o : Held(f, id) = [roots |-> q, out |-> o] /\ q = <<id>>
    BY DEF AllRead, Acc
  <2>3. r.child # 0 /\ ~(Len(q) > 1 /\ r.id = Head(q) /\ r.child = q[2])
    BY <1>1, <2>2
  <2>4. r.child # 0 =>
          ScanRecord([roots |-> q, out |-> o], r) =
            [roots |-> IF Len(q) > 1 /\ r.id = Head(q) /\ r.child = q[2] THEN Tail(q) ELSE q,
             out |-> o]
    BY RecordSteps, Zenon
  <2> QED BY <2>1, <2>2, <2>3, <2>4, Zenon
<1>8. Held(g, n) = [roots |-> <<n>>, out |-> Held(f, p).out]
  <2>1. ParentOf(g, n) = p
    <3>1. Len(f) + 1 \in 1..Len(g) /\ g[Len(f) + 1].child = n /\ g[Len(f) + 1].id = p /\ n # 0
      BY <1>1, <1>3
    <3> QED BY <1>2, <1>3, <3>1, ParentIs
  <2>2. ParentsFirst(g, n)
    BY <1>2, <1>3, <1>4, ParentsAreFirst
  <2>3. Roots(g, n) = Append(Roots(f, p), n)
    BY <1>6, <2>1, <2>2, RootsStep
  <2>4. Roots(f, p) \in Roots1
    BY <1>6, RootsType
  <2>5. \A i \in 1..Len(f) : f[i].child # n
    BY DEF AllRead, FileOrdered
  <2>6. Scan(f, Roots(g, n)) = Longer(Held(f, p), n)
    BY <2>3, <2>4, <2>5, ScanLonger DEF Held
  <2>7. Held(g, n) = ScanRecord(Longer(Held(f, p), n), r)
    BY <1>0, <1>1, <2>6, ScanAppend DEF Held
  <2>8. PICK q, o : q = Append(<<p>>, n) /\ o = Held(f, p).out /\ Held(f, p).roots = <<p>>
    BY Zenon DEF AllRead
  <2>9. Longer(Held(f, p), n) = [roots |-> q, out |-> o]
    BY <2>8 DEF Longer
  <2>10. /\ r.child # 0 /\ Len(q) > 1 /\ r.id = Head(q) /\ r.child = q[2]
         /\ Tail(q) = <<n>>
    <3>1. p \in Nat /\ n \in Nat /\ n # 0
      OBVIOUS
    <3>2. Len(q) > 1 /\ Head(q) = p /\ q[2] = n /\ Tail(q) = <<n>>
      BY <2>8, <3>1, TwoRoots, Zenon
    <3> QED BY <1>1, <3>1, <3>2, Zenon
  <2>11. r.child # 0 =>
           ScanRecord([roots |-> q, out |-> o], r) =
             [roots |-> IF Len(q) > 1 /\ r.id = Head(q) /\ r.child = q[2] THEN Tail(q) ELSE q,
              out |-> o]
    BY RecordSteps, Zenon
  <2> QED BY <2>7, <2>8, <2>9, <2>10, <2>11, Zenon
<1>9. ASSUME NEW id \in 1..n PROVE Held(g, id) \in Acc /\ Held(g, id).roots = <<id>>
  <2>1. CASE id \in 1..(n - 1)
    BY <1>7, <2>1 DEF AllRead
  <2>2. CASE id = n
    <3>1. Held(f, p).out \in Bytes /\ <<n>> \in Roots1
      BY DEF AllRead, Acc, Roots1
    <3> QED BY <1>8, <2>2, <3>1 DEF Acc
  <2> QED BY <2>1, <2>2
<1>10. AllRead(g, n + 1)
  <2>1. (n + 1) - 1 = n
    OBVIOUS
  <2> QED BY <1>2, <1>4, <1>9, <2>1 DEF AllRead
<1>11. Held(g, n).out = Held(f, p).out
  BY <1>8
<1> QED BY <1>0, <1>2, <1>7, <1>10, <1>11, Zenon

-----------------------------------------------------------------------------
\* What the buffer holds for stream id.
Pending(v, id) == IF v.last = id THEN v.buffer ELSE <<>>

\* h is what readStream() gives for the streams of writer v.
Keeps(v, h) ==
  /\ Good(v) /\ AllRead(v.file, v.ids)
  /\ h \in Seq(Bytes) /\ Len(h) = v.ids - 1
  /\ \A id \in 1..(v.ids - 1) : h[id] = Held(v.file, id).out \o Pending(v, id)

\* The empty sequence changes nothing.
LEMMA NothingAdded ==
  ASSUME NEW d \in Bytes
  PROVE  d \o <<>> = d
BY DEF Bytes

\* Flushing changes where the bytes are, and not what is read.
LEMMA FlushKeeps ==
  ASSUME NEW v, NEW h, Keeps(v, h)
  PROVE  Keeps(FlushBuffer(v), h)
<1>0. Good(v) /\ Good(FlushBuffer(v)) /\ FlushBuffer(v).ids = v.ids /\ FlushBuffer(v).buffer = <<>>
  BY FlushGood DEF Keeps
<1>1. CASE v.buffer = <<>>
  <2>1. FlushBuffer(v) = v
    BY <1>1 DEF FlushBuffer
  <2> QED BY <2>1
<1>2. CASE v.buffer # <<>>
  <2>1. /\ v.file \in File /\ v.ids \in Nat \ {0} /\ v.last \in 1..(v.ids - 1) /\ v.buffer \in Bytes
        /\ AllRead(v.file, v.ids)
    BY <1>0, <1>2 DEF Good, Keeps
  <2>2. PICK g : g = Append(v.file, DataRecord(v.last, v.buffer))
    BY Zenon
  <2>3. FlushBuffer(v).file = g
    BY <1>0, <1>2, <2>2 DEF FlushBuffer, Good
  <2>4. /\ AllRead(g, v.ids)
        /\ \A id \in 1..(v.ids - 1) :
             Held(g, id).out = IF id = v.last THEN Held(v.file, id).out \o v.buffer
                               ELSE Held(v.file, id).out
    <3>1. PICK f \in File, n \in Nat \ {0}, d \in Bytes : f = v.file /\ n = v.ids /\ d = v.buffer
      BY <2>1, Zenon
    <3>2. PICK j \in 1..(n - 1) : j = v.last
      BY <2>1, <3>1, Zenon
    <3>3. AllRead(f, n) /\ g = Append(f, DataRecord(j, d))
      BY <2>1, <2>2, <3>1, <3>2, Zenon
    <3>4. /\ AllRead(Append(f, DataRecord(j, d)), n)
          /\ \A id \in 1..(n - 1) :
               Held(Append(f, DataRecord(j, d)), id).out =
                 IF id = j THEN Held(f, id).out \o d ELSE Held(f, id).out
      BY <3>3, DataRead, ZenonT(40)
    <3> QED BY <3>1, <3>2, <3>3, <3>4, Zenon
  <2>5. ASSUME NEW id \in 1..(v.ids - 1)
        PROVE  h[id] = Held(g, id).out \o Pending(FlushBuffer(v), id)
    <3>1. Held(g, id).out \in Bytes /\ Held(v.file, id).out \in Bytes
      BY <2>1, <2>4 DEF AllRead, Acc
    <3>2. Pending(FlushBuffer(v), id) = <<>>
      BY <1>0 DEF Pending
    <3>3. h[id] = Held(v.file, id).out \o Pending(v, id)
      BY DEF Keeps
    <3>4. h[id] = Held(g, id).out
      <4>1. CASE id = v.last
        BY <2>4, <3>3, <4>1, Zenon DEF Pending
      <4>2. CASE id # v.last
        <5>1. Pending(v, id) = <<>>
          BY <4>2 DEF Pending
        <5> QED BY <2>4, <3>1, <3>3, <4>2, <5>1, NothingAdded
      <4> QED BY <4>1, <4>2
    <3> QED BY <3>1, <3>2, <3>4, NothingAdded
  <2> QED BY <1>0, <2>3, <2>4, <2>5, Zenon DEF Keeps
<1> QED BY <1>1, <1>2

\* A writer that keeps h is read as h.
LEMMA KeptIsRead ==
  ASSUME NEW v, NEW h, Keeps(v, h), NEW id \in 1..(v.ids - 1)
  PROVE  ReadStream(v, id) = h[id]
<1>1. PICK u : u = FlushBuffer(v)
  OBVIOUS
<1>2. Keeps(u, h) /\ u.ids = v.ids /\ u.buffer = <<>>
  BY <1>1, FlushKeeps, FlushGood, Zenon DEF Keeps
<1>3. h[id] = Held(u.file, id).out \o Pending(u, id)
  BY <1>2, Zenon DEF Keeps
<1>4. Pending(u, id) = <<>>
  BY <1>2 DEF Pending
<1>5. Held(u.file, id).out \in Bytes
  BY <1>2 DEF Keeps, AllRead, Acc
<1>6. ReadStream(v, id) = Held(u.file, id).out
  BY <1>1 DEF ReadStream, Held
<1> QED BY <1>3, <1>4, <1>5, <1>6, NothingAdded

\* open() of a stream from another one: the new stream reads back as its parent
\* does at that moment, and the others as before.
LEMMA OpenedKeeps ==
  ASSUME NEW v, NEW h, Keeps(v, h), NEW p \in 1..(v.ids - 1)
  PROVE  Keeps(Opened(v, p), Append(h, h[p])) /\ Opened(v, p).ids = v.ids + 1
<1>1. PICK u : u = FlushBuffer(v)
  OBVIOUS
<1>2. Keeps(u, h) /\ Good(u) /\ u.ids = v.ids /\ u.buffer = <<>> /\ Good(v)
  BY <1>1, FlushKeeps, FlushGood, Zenon DEF Keeps
<1>3. u.file \in File /\ u.ids \in Nat \ {0} /\ AllRead(u.file, u.ids)
  BY <1>2 DEF Keeps, Good
<1>4. PICK g : g = Append(u.file, ForkRecord(p, u.ids))
  BY Zenon
<1>5. PICK o : o = Opened(v, p)
  OBVIOUS
<1>6. o = [u EXCEPT !.file = g, !.ids = u.ids + 1]
  BY <1>1, <1>2, <1>4, <1>5 DEF Opened
<1>7. o.file = g /\ o.ids = u.ids + 1 /\ o.buffer = <<>>
  BY <1>2, <1>6 DEF Good
<1>8. Good(o)
  <2>1. p \in 0..(v.ids - 1)
    OBVIOUS
  <2> QED BY <1>2, <1>5, <2>1, OpenedGood
<1>9. /\ AllRead(g, u.ids + 1) /\ Held(g, u.ids).out = Held(u.file, p).out
      /\ \A id \in 1..(u.ids - 1) : Held(g, id).out = Held(u.file, id).out
  <2>1. PICK f \in File, n \in Nat \ {0} : f = u.file /\ n = u.ids
    BY <1>3, Zenon
  <2>2. p \in 1..(n - 1) /\ AllRead(f, n) /\ g = Append(f, ForkRecord(p, n))
    BY <1>2, <1>3, <1>4, <2>1, Zenon
  <2>3. /\ AllRead(g, n + 1) /\ Held(g, n).out = Held(f, p).out
        /\ \A id \in 1..(n - 1) : Held(g, id).out = Held(f, id).out
    BY <2>2, OpenRead, Zenon
  <2> QED BY <2>1, <2>3, Zenon
<1>10. /\ h \in Seq(Bytes) /\ Len(h) = u.ids - 1 /\ p \in 1..Len(h)
       /\ \A id \in 1..(u.ids - 1) : h[id] = Held(u.file, id).out \o Pending(u, id)
  BY <1>2 DEF Keeps
<1>11. PICK k : k = Append(h, h[p])
  BY Zenon
<1>12. /\ k \in Seq(Bytes) /\ Len(k) = u.ids /\ k[u.ids] = h[p]
       /\ \A id \in 1..(u.ids - 1) : k[id] = h[id]
  BY <1>3, <1>10, <1>11
<1>13. \A id : Pending(u, id) = <<>> /\ Pending(o, id) = <<>>
  BY <1>2, <1>7 DEF Pending
<1>14. ASSUME NEW id \in 1..u.ids PROVE k[id] = Held(g, id).out \o Pending(o, id)
  <2>1. CASE id \in 1..(u.ids - 1)
    BY <1>9, <1>10, <1>12, <1>13, <2>1, Zenon
  <2>2. CASE id = u.ids
    <3>1. h[p] = Held(u.file, p).out \o <<>>
      BY <1>2, <1>10, <1>13, Zenon
    <3> QED BY <1>9, <1>12, <1>13, <2>2, <3>1, Zenon
  <2>3. id \in 1..(u.ids - 1) \/ id = u.ids
    BY <1>3
  <2> QED BY <2>1, <2>2, <2>3
<1>15. Keeps(o, k)
  <2>1. o.ids - 1 = u.ids
    BY <1>3, <1>7
  <2> QED BY <1>7, <1>8, <1>9, <1>12, <1>14, <2>1 DEF Keeps
<1> QED BY <1>2, <1>5, <1>7, <1>11, <1>15

\* A byte more at the end.
LEMMA ByteAdded ==
  ASSUME NEW c \in Bytes, NEW d \in Bytes, NEW b \in {0, 1}
  PROVE  c \o Append(d, b) = Append(c \o d, b) /\ c \o <<b>> = Append(c, b)
<1>1. /\ Append(d, b) \in Seq({0, 1}) /\ Len(Append(d, b)) = Len(d) + 1
      /\ Append(d, b)[Len(d) + 1] = b /\ \A i \in 1..Len(d) : Append(d, b)[i] = d[i]
  BY DEF Bytes
<1>2. c \o Append(d, b) = Append(c \o d, b)
  BY <1>1 DEF Bytes
<1>3. c \o <<b>> = Append(c, b)
  BY DEF Bytes
<1> QED BY <1>2, <1>3

\* A byte written to a stream is read from it, and from no other.
LEMMA WrittenKeeps ==
  ASSUME NEW v, NEW h, Keeps(v, h), NEW id \in 1..(v.ids - 1), NEW b \in {0, 1}
  PROVE  Keeps(Written(v, id, b), [h EXCEPT ![id] = Append(h[id], b)])
<1>1. /\ Good(v) /\ v.ids \in Nat \ {0} /\ h \in Seq(Bytes) /\ Len(h) = v.ids - 1
      /\ v.file \in File /\ v.buffer \in Bytes
  BY DEF Keeps, Good
<1>2. PICK x : x = Written(v, id, b)
  OBVIOUS
<1>3. Good(x) /\ x.ids = v.ids
  BY <1>1, <1>2, WrittenGood
<1>4. PICK k : k = [h EXCEPT ![id] = Append(h[id], b)]
  BY Zenon
<1>5. h[id] \in Bytes /\ Append(h[id], b) \in Bytes
  BY <1>1, AppendByte
<1>6. /\ k \in Seq(Bytes) /\ Len(k) = v.ids - 1 /\ k[id] = Append(h[id], b)
      /\ \A j \in 1..(v.ids - 1) : j # id => k[j] = h[j]
  BY <1>1, <1>4, <1>5
<1>7. CASE v.buffer # <<>> /\ id = v.last /\ Len(v.buffer) + 1 <= BufferSize
  <2>1. x = [v EXCEPT !.buffer = Append(v.buffer, b)]
    BY <1>2, <1>7 DEF Written
  <2>2. x.file = v.file /\ x.last = id /\ x.buffer = Append(v.buffer, b)
    BY <1>1, <1>7, <2>1 DEF Good
  <2>3. AllRead(x.file, x.ids)
    BY <1>3, <2>2 DEF Keeps
  <2>4. ASSUME NEW j \in 1..(v.ids - 1) PROVE k[j] = Held(x.file, j).out \o Pending(x, j)
    <3>1. h[j] = Held(v.file, j).out \o Pending(v, j) /\ Held(v.file, j).out \in Bytes
      BY DEF Keeps, AllRead, Acc
    <3>2. CASE j = id
      <4>1. Pending(v, j) = v.buffer /\ Pending(x, j) = Append(v.buffer, b)
        BY <1>7, <2>2, <3>2 DEF Pending
      <4>2. PICK c \in Bytes, d \in Bytes : c = Held(v.file, j).out /\ d = v.buffer
        BY <1>1, <3>1, Zenon
      <4>3. c \o Append(d, b) = Append(c \o d, b)
        BY ByteAdded
      <4>4. k[j] = Append(c \o d, b)
        BY <1>6, <3>1, <3>2, <4>1, <4>2, Zenon
      <4> QED BY <2>2, <4>1, <4>2, <4>3, <4>4, Zenon
    <3>3. CASE j # id
      <4>1. Pending(v, j) = <<>> /\ Pending(x, j) = <<>>
        BY <1>7, <2>2, <3>3 DEF Pending
      <4> QED BY <1>6, <2>2, <3>1, <3>3, <4>1
    <3> QED BY <3>2, <3>3
  <2> QED BY <1>2, <1>3, <1>4, <1>6, <2>3, <2>4, Zenon DEF Keeps
<1>8. CASE ~(v.buffer # <<>> /\ id = v.last /\ Len(v.buffer) + 1 <= BufferSize)
  <2>1. PICK u : u = FlushBuffer(v)
    OBVIOUS
  <2>2. Keeps(u, h) /\ Good(u) /\ u.ids = v.ids /\ u.buffer = <<>>
    BY <1>1, <2>1, FlushKeeps, FlushGood
  <2>3. x = [u EXCEPT !.last = id, !.buffer = <<b>>]
    BY <1>2, <1>8, <2>1 DEF Written
  <2>4. x.file = u.file /\ x.last = id /\ x.buffer = <<b>>
    BY <2>2, <2>3 DEF Good
  <2>5. AllRead(x.file, x.ids)
    BY <1>3, <2>2, <2>4 DEF Keeps
  <2>6. ASSUME NEW j \in 1..(v.ids - 1) PROVE k[j] = Held(x.file, j).out \o Pending(x, j)
    <3>1. /\ h[j] = Held(u.file, j).out \o Pending(u, j) /\ Held(u.file, j).out \in Bytes
          /\ Pending(u, j) = <<>>
      BY <2>2 DEF Keeps, AllRead, Acc, Pending
    <3>2. h[j] = Held(u.file, j).out
      BY <3>1, NothingAdded
    <3>3. CASE j = id
      <4>1. Pending(x, j) = <<b>>
        BY <2>4, <3>3 DEF Pending
      <4>2. PICK c \in Bytes : c = Held(u.file, j).out
        BY <3>1, Zenon
      <4>3. c \o <<b>> = Append(c, b)
        BY ByteAdded
      <4>4. k[j] = Append(c, b)
        BY <1>6, <3>2, <3>3, <4>2, Zenon
      <4> QED BY <2>4, <4>1, <4>2, <4>3, <4>4, Zenon
    <3>4. CASE j # id
      <4>1. Pending(x, j) = <<>>
        BY <2>4, <3>4 DEF Pending
      <4> QED BY <1>6, <2>4, <3>1, <3>4, <4>1
    <3> QED BY <3>3, <3>4
  <2> QED BY <1>2, <1>3, <1>4, <1>6, <2>5, <2>6, Zenon DEF Keeps
<1> QED BY <1>7, <1>8

\* The first stream is opened and holds nothing.
LEMMA FirstKeeps == Keeps(Opened(NewWriter, 0), <<<<>>>>)
<1>1. PICK e : e = <<>>
  OBVIOUS
<1>2. e \in File /\ e \in Bytes /\ Len(e) = 0 /\ e \in Seq(Nat)
  BY <1>1 DEF File, Bytes
<1>3. PICK r : r = ForkRecord(0, 1)
  OBVIOUS
<1>4. r \in Record /\ r.child = 1 /\ r.id = 0
  BY <1>1, <1>2, <1>3 DEF ForkRecord, Record, Bytes
<1>5. PICK f : f = Append(e, r)
  BY Zenon
<1>6. f \in File /\ Len(f) = 1 /\ f[1] = r
  BY <1>2, <1>4, <1>5 DEF File
<1>7. PICK x : x = Opened(NewWriter, 0)
  OBVIOUS
<1>8. x.file = f /\ x.ids = 2 /\ x.last = 0 /\ x.buffer = e
  BY <1>1, <1>3, <1>5, <1>7 DEF Opened, NewWriter, FlushBuffer
<1>9. Good(x)
  <2>1. Good(NewWriter) /\ NewWriter.ids = 1
    <3>1. Len(e) <= BufferSize
      BY <1>2, BufferAssumption
    <3>2. FileOrdered(e, 1)
      BY <1>2 DEF FileOrdered
    <3>3. NewWriter = [file |-> e, ids |-> 1, last |-> 0, buffer |-> e]
      BY <1>1 DEF NewWriter
    <3> QED BY <1>1, <1>2, <3>1, <3>2, <3>3, GoodFields
  <2> QED BY <1>7, <2>1, OpenedGood
<1>10. FileOrdered(f, 2) /\ SmallerParents(f)
  BY <1>4, <1>6, <1>8, <1>9 DEF Good, SmallerParents
<1>11. ParentOf(f, 1) = 0
  <2>1. 1 \in 1..Len(f) /\ f[1].child = 1 /\ f[1].id = 0 /\ 2 \in Nat \ {0}
    BY <1>4, <1>6
  <2> QED BY <1>6, <1>10, <2>1, ParentIs
<1>12. ParentsFirst(f, 1) /\ ParentsFirst(f, 0)
  BY <1>11 DEF ParentsFirst
<1>13. Roots(f, 0) = e
  <2>1. PICK g : IsChain(g, 0, f) /\ Roots(f, 0) = g[0]
    BY <1>12, RootsIs
  <2>2. g[0] = <<>>
    BY <2>1, ChainSteps
  <2> QED BY <1>1, <2>1, <2>2
<1>14. PICK q : q = Append(e, 1) /\ q = Roots(f, 1)
  BY <1>11, <1>12, <1>13, RootsStep
<1>15. q = <<1>> /\ Len(q) = 1
  BY <1>1, <1>2, <1>14
<1>16. Scan(e, q) = [roots |-> q, out |-> e]
  <2>1. PICK g : IsScan(g, Len(e), e, [roots |-> q, out |-> <<>>]) /\ Scan(e, q) = g[Len(e)]
    BY <1>2, ScanIs, Zenon
  <2>2. PICK a : a = [roots |-> q, out |-> <<>>]
    BY Zenon
  <2>3. IsScan(g, 0, e, a)
    BY <1>2, <2>1, <2>2, Zenon
  <2>4. g[0] = a
    BY <2>3, ScanSteps
  <2> QED BY <1>1, <1>2, <2>1, <2>2, <2>4, Zenon
<1>17. Held(f, 1) = [roots |-> q, out |-> e]
  <2>1. Held(f, 1) = ScanRecord(Scan(e, q), r)
    BY <1>2, <1>4, <1>5, <1>14, ScanAppend, Zenon DEF Held
  <2>2. r.child # 0 =>
          ScanRecord([roots |-> q, out |-> e], r) =
            [roots |-> IF Len(q) > 1 /\ r.id = Head(q) /\ r.child = q[2] THEN Tail(q) ELSE q,
             out |-> e]
    BY RecordSteps, Zenon
  <2>3. r.child # 0 /\ ~(Len(q) > 1 /\ r.id = Head(q) /\ r.child = q[2])
    BY <1>4, <1>15
  <2> QED BY <1>16, <2>1, <2>2, <2>3, Zenon
<1>18. Held(f, 1) \in Acc /\ Held(f, 1).roots = <<1>> /\ Held(f, 1).out = e
  <2>1. q \in Roots1
    BY <1>15 DEF Roots1
  <2> QED BY <1>2, <1>15, <1>17, <2>1 DEF Acc
<1>19. AllRead(x.file, x.ids)
  <2>1. \A id \in 1..(2 - 1) : id = 1
    OBVIOUS
  <2>2. \A id \in 1..(2 - 1) : Held(f, id) \in Acc /\ Held(f, id).roots = <<id>>
    BY <1>18, <2>1, Zenon
  <2> QED BY <1>8, <1>10, <2>2, Zenon DEF AllRead
<1>20. PICK h : h = <<e>>
  BY Zenon
<1>21. h \in Seq(Bytes) /\ Len(h) = 1 /\ h[1] = e
  BY <1>2, <1>20
<1>22. ASSUME NEW id \in 1..(2 - 1) PROVE h[id] = Held(x.file, id).out \o Pending(x, id)
  <2>1. id = 1
    OBVIOUS
  <2>2. Pending(x, 1) = <<>>
    BY <1>8 DEF Pending
  <2>3. e \o <<>> = e
    BY <1>2, NothingAdded
  <2> QED BY <1>8, <1>18, <1>21, <2>1, <2>2, <2>3, Zenon
<1>23. Keeps(x, h)
  <2>1. Len(h) = x.ids - 1
    BY <1>8, <1>21
  <2> QED BY <1>8, <1>9, <1>19, <1>21, <1>22, <2>1, Zenon DEF Keeps
<1> QED BY <1>1, <1>7, <1>20, <1>23, Zenon

\* What fork() writes for both sides is read in both streams.
LEMMA ForkKeeps ==
  ASSUME Keeps(w, given), NEW s \in State, NEW c \in State, NEW swapped \in BOOLEAN,
         pathOS[s] \in 1..(w.ids - 1), Fork(s, c, swapped)
  PROVE  Keeps(w', given')
<1>1. PICK p \in 1..(w.ids - 1) : p = pathOS[s]
  OBVIOUS
<1>2. PICK n : n = w.ids
  OBVIOUS
<1>3. n \in Nat \ {0} /\ given \in Seq(Bytes) /\ Len(given) = n - 1 /\ p \in 1..(n - 1)
  BY <1>1, <1>2 DEF Keeps, Good
<1>4. PICK x, h : x = Opened(w, p) /\ h = Append(given, given[p])
  BY Zenon
<1>5. Keeps(x, h) /\ x.ids = n + 1
  BY <1>1, <1>2, <1>4, OpenedKeeps
<1>6. PICK y, k : y = Written(x, p, 1) /\ k = [h EXCEPT ![p] = Append(h[p], 1)]
  BY Zenon
<1>7. p \in 1..(x.ids - 1) /\ n \in 1..(x.ids - 1)
  BY <1>3, <1>5
<1>8. Keeps(y, k)
  BY <1>5, <1>6, <1>7, WrittenKeeps, Zenon
<1>9. y.ids = x.ids
  BY <1>5, <1>6, <1>7, WrittenGood, SMTT(30) DEF Keeps
<1>10. PICK z, l : z = Written(y, n, 0) /\ l = [k EXCEPT ![n] = Append(k[n], 0)]
  BY Zenon
<1>11. Keeps(z, l)
  BY <1>7, <1>8, <1>9, <1>10, WrittenKeeps, Zenon
<1>12. w' = z
  BY <1>1, <1>2, <1>4, <1>6, <1>10 DEF Fork, ForkWrites
<1>13. given[p] \in Bytes /\ Append(given[p], 1) \in Bytes /\ Append(given[p], 0) \in Bytes
  BY <1>3, AppendByte
<1>14. /\ h \in Seq(Bytes) /\ Len(h) = n /\ h[n] = given[p]
       /\ \A i \in 1..(n - 1) : h[i] = given[i]
  BY <1>3, <1>4, <1>13
<1>15. /\ k \in Seq(Bytes) /\ Len(k) = n /\ k[n] = given[p] /\ k[p] = Append(given[p], 1)
       /\ \A i \in 1..(n - 1) : i # p => k[i] = given[i]
  BY <1>3, <1>6, <1>13, <1>14
<1>16. /\ l \in Seq(Bytes) /\ Len(l) = n /\ l[n] = Append(given[p], 0)
       /\ l[p] = Append(given[p], 1) /\ \A i \in 1..(n - 1) : i # p => l[i] = given[i]
  BY <1>3, <1>10, <1>13, <1>15
<1>17. PICK g : g = [given EXCEPT ![p] = Append(given[p], 1)]
  BY Zenon
<1>18. given' = Append(g, Append(given[p], 0))
  BY <1>1, <1>17 DEF Fork
<1>19. /\ g \in Seq(Bytes) /\ Len(g) = n - 1 /\ g[p] = Append(given[p], 1)
       /\ \A i \in 1..(n - 1) : i # p => g[i] = given[i]
  BY <1>3, <1>13, <1>17
<1>20. /\ given' \in Seq(Bytes) /\ Len(given') = n /\ given'[n] = Append(given[p], 0)
       /\ given'[p] = Append(given[p], 1)
       /\ \A i \in 1..(n - 1) : i # p => given'[i] = given[i]
  BY <1>3, <1>13, <1>18, <1>19
<1>21. ASSUME NEW i \in 1..n PROVE given'[i] = l[i]
  <2>1. i = n \/ i = p \/ (i \in 1..(n - 1) /\ i # p)
    BY <1>3
  <2> QED BY <1>16, <1>20, <2>1, Zenon
<1>22. given' = l
  BY <1>16, <1>20, <1>21
<1> QED BY <1>11, <1>12, <1>22

\* Every step keeps the streams readable as what they were given.
LEMMA NextKeeps ==
  ASSUME PathInv, Keeps(w, given), [Next]_vars
  PROVE  Keeps(w', given')
<1>1. ASSUME NEW s \in State, NEW b \in {0, 1}, TakeSide(s, b) PROVE Keeps(w', given')
  <2>1. pathOS[s] \in 1..(w.ids - 1)
    BY <1>1 DEF TakeSide, PathInv
  <2> QED BY <1>1, <2>1, WrittenKeeps, Zenon DEF TakeSide
<1>2. ASSUME NEW s \in State, NEW c \in State, NEW swapped \in BOOLEAN, Fork(s, c, swapped)
      PROVE  Keeps(w', given')
  <2>1. pathOS[s] \in 1..(w.ids - 1)
    BY <1>2 DEF Fork, PathInv
  <2> QED BY <1>2, <2>1, ForkKeeps
<1>3. ASSUME NEW s \in State, ReadStreamOf(s) PROVE Keeps(w', given')
  BY <1>3, FlushKeeps DEF ReadStreamOf
<1>4. CASE UNCHANGED <<w, given>>
  BY <1>4
<1> QED BY <1>1, <1>2, <1>3, <1>4 DEF Next, ForkInternal, Delete, vars

\* The file holds what the streams were given.
LEMMA FileKeeps == Spec => [](PathInv /\ HistoryOK /\ Keeps(w, given))
<1>1. Init => Keeps(w, given)
  BY FirstKeeps DEF Init
<1>2. PathInv /\ Keeps(w, given) /\ [Next]_vars => Keeps(w, given)'
  BY NextKeeps
<1> QED BY <1>1, <1>2, FilesInvariant, PTL DEF Spec

\* Whatever streams are opened from which, and however their bytes are buffered,
\* flushed and interleaved in the file, readStream() gives for each stream what
\* was written to it and, before it was opened, to its ancestors.
THEOREM StreamsReadBack == Spec => []ReadsBack
<1>1. Keeps(w, given) => ReadsBack
  BY KeptIsRead DEF ReadsBack
<1> QED BY <1>1, FileKeeps, PTL

\* processTestCase reads the path that the state has taken, for any number of
\* states, unless a state that shares the stream has written there too.
THEOREM PathsReadBack == Spec => []ReadsItsPath
<1>1. PathInv /\ HistoryOK /\ Keeps(w, given) => ReadsItsPath
  <2> SUFFICES ASSUME PathInv, HistoryOK, Keeps(w, given), NEW s \in live \ mixed
               PROVE  ReadStream(w, pathOS[s]) = taken[s]
    BY DEF ReadsItsPath
  <2>1. pathOS[s] \in 1..(w.ids - 1)
    BY DEF PathInv
  <2>2. given[pathOS[s]] = taken[s]
    BY DEF HistoryOK, GivenIsTaken
  <2> QED BY <2>1, <2>2, KeptIsRead
<1> QED BY <1>1, FileKeeps, PTL
=============================================================================
