---------------------------- MODULE MemoryProofs ----------------------------
(***************************************************************************)
(* The memory of the states, in its two layers.  Copy on write keeps the   *)
(* memories of the states apart, for any number of states, objects and     *)
(* copies.  The caches of one ObjectState are invisible, for objects of    *)
(* any size, as long as external functions leave the bytes alone that are  *)
(* flushed.                                                                *)
(***************************************************************************)
EXTENDS AddressSpace, ObjectState, TLAPS

\* The inductive invariant.  A write in place is invisible to the other
\* spaces because the writer owns the ObjectState, hence shares it with none.
IInv == TypeOK /\ OwnersBelowKey /\ BoundToItsObject

\* The read-only objects are bound by the initial space, which owns them.
LEMMA InitIInv == Init => IInv
<1> SUFFICES ASSUME Init PROVE IInv
  OBVIOUS
<1>1. PICK f \in [ReadOnly -> Handle] :
        /\ objects = [s \in Space |-> [m \in Object |->
                       IF s = InitSpace /\ m \in ReadOnly THEN f[m] ELSE Null]]
        /\ \A m \in ReadOnly : object[f[m]] = m
  BY DEF Init
<1>2. TypeOK
  BY <1>1, SpaceAssumption, KeyAssumption DEF Init, TypeOK
<1>3. OwnersBelowKey
  <2> SUFFICES ASSUME NEW s \in spaces, NEW m \in Bound(s)
               PROVE  owner[objects[s][m]] = 1 /\ cowKey[s] = 1
                      /\ spaces \ {s} = {}
    BY DEF OwnersBelowKey
  <2>1. s = InitSpace /\ m \in ReadOnly /\ objects[s][m] = f[m]
    BY <1>1, SpaceAssumption DEF Init, Bound
  <2> QED BY <2>1, SpaceAssumption DEF Init
<1>4. BoundToItsObject
  BY <1>1, SpaceAssumption, HandleAssumption
     DEF Init, BoundToItsObject, Bound
<1> QED BY <1>2, <1>3, <1>4 DEF IInv

\* The copy constructor leaves both sides with a key above every owner.
LEMMA CopyIInv ==
  ASSUME IInv, NEW s \in Space, NEW c \in Space, Copy(s, c)
  PROVE  IInv'
<1> USE DEF IInv, Copy
<1>1. TypeOK'
  BY KeyAssumption DEF TypeOK
<1>2. OwnersBelowKey'
  BY DEF TypeOK, OwnersBelowKey, Bound
<1>3. BoundToItsObject'
  BY DEF TypeOK, BoundToItsObject, Bound
<1> QED BY <1>1, <1>2, <1>3

\* Deleting a state only takes bindings away.
LEMMA DeleteIInv ==
  ASSUME IInv, NEW s \in Space, Delete(s)
  PROVE  IInv'
BY DEF IInv, Delete, TypeOK, OwnersBelowKey, BoundToItsObject, Bound

\* A new ObjectState is at an address that no space binds.
LEMMA BindIInv ==
  ASSUME IInv, NEW s \in Space, NEW m \in Object, NEW h \in Handle,
         NEW v \in Value, BindObject(s, m, h, v)
  PROVE  IInv'
<1> USE DEF IInv, BindObject
<1>1. TypeOK'
  BY DEF TypeOK
<1>2. OwnersBelowKey'
  BY DEF TypeOK, OwnersBelowKey, Bound, Free
<1>3. BoundToItsObject'
  BY DEF TypeOK, BoundToItsObject, Bound, Free
<1> QED BY <1>1, <1>2, <1>3

\* unbindObject only takes a binding away.
LEMMA UnbindIInv ==
  ASSUME IInv, NEW s \in Space, NEW m \in Object, UnbindObject(s, m)
  PROVE  IInv'
<1> USE DEF IInv, UnbindObject
<1>1. TypeOK'
  BY DEF TypeOK
<1>2. OwnersBelowKey'
  BY HandleAssumption DEF TypeOK, OwnersBelowKey, Bound
<1>3. BoundToItsObject'
  BY HandleAssumption DEF TypeOK, BoundToItsObject, Bound
<1> QED BY <1>1, <1>2, <1>3

\* What WriteObjects does, by the space that looks: the writer sees W, and
\* every other space binds what it bound before, with the same contents.
LEMMA WriteSeen ==
  ASSUME IInv, NEW s \in Space, NEW W \in Writes,
         NEW f \in Copies(NotOwned(s, DOMAIN W)), WriteObjects(s, W, f)
  PROVE  /\ \A m \in DOMAIN f : f[m] \in Handle /\ object'[f[m]] = m
                               /\ owner'[f[m]] = cowKey[s]
         /\ \A t \in spaces, m \in Object : objects[t][m] # Null =>
              /\ object'[objects[t][m]] = object[objects[t][m]]
              /\ owner'[objects[t][m]] = owner[objects[t][m]]
         /\ \A t \in spaces \ {s}, m \in Object : objects[t][m] # Null =>
              contents'[objects[t][m]] = contents[objects[t][m]]
         /\ \A m \in Bound(s) : contents'[objects'[s][m]] =
              IF m \in DOMAIN W THEN W[m] ELSE contents[objects[s][m]]
<1> USE DEF IInv
<1>1. /\ DOMAIN W \subseteq Bound(s) \ ReadOnly
      /\ DOMAIN f = NotOwned(s, DOMAIN W) /\ Injective(f)
      /\ \A m \in DOMAIN f : f[m] \in Free
      /\ s \in spaces
  BY DEF WriteObjects
<1>2. /\ DOMAIN f \subseteq DOMAIN W /\ DOMAIN W \subseteq Object
      /\ \A m \in DOMAIN f : f[m] \in Handle
  BY <1>1 DEF NotOwned, Bound, Free
<1>3. \A t \in spaces, m \in Object : objects[t][m] # Null =>
        objects[t][m] \in Handle /\ \A x \in DOMAIN f : f[x] # objects[t][m]
  BY <1>1 DEF Free, TypeOK
<1>4. \A m \in DOMAIN f : object'[f[m]] = m
  <2> SUFFICES ASSUME NEW m \in DOMAIN f PROVE object'[f[m]] = m
    OBVIOUS
  <2>1. object'[f[m]] = CHOOSE x \in DOMAIN f : f[x] = f[m]
    BY <1>2 DEF WriteObjects
  <2>2. \A x \in DOMAIN f : f[x] = f[m] => x = m
    BY <1>1 DEF Injective
  <2> QED BY <2>1, <2>2
<1>5. \A m \in DOMAIN f : owner'[f[m]] = cowKey[s]
  BY <1>2 DEF WriteObjects
<1>6. \A t \in spaces, m \in Object : objects[t][m] # Null =>
        /\ object'[objects[t][m]] = object[objects[t][m]]
        /\ owner'[objects[t][m]] = owner[objects[t][m]]
  BY <1>3 DEF WriteObjects
<1>7. \A m \in Object :
        objects'[s][m] = IF m \in DOMAIN f THEN f[m] ELSE objects[s][m]
  BY DEF WriteObjects, TypeOK
<1>8. \A h \in Handle : contents'[h] =
         IF \E x \in DOMAIN W : objects'[s][x] = h
           THEN W[object'[h]] ELSE contents[h]
  BY DEF WriteObjects
<1>9. ASSUME NEW t \in spaces \ {s}, NEW m \in Object, objects[t][m] # Null
      PROVE  contents'[objects[t][m]] = contents[objects[t][m]]
  <2> DEFINE h == objects[t][m]
  <2>1. h \in Handle /\ \A x \in DOMAIN f : f[x] # h
    BY <1>3, <1>9
  <2>2. ASSUME NEW x \in DOMAIN W, objects'[s][x] = h PROVE FALSE
    <3>1. x \in Bound(s) /\ x \in Object /\ x \notin DOMAIN f
      BY <1>1, <1>2, <1>7, <2>1, <2>2
    <3>2. objects[s][x] = h /\ owner[h] = cowKey[s]
      BY <1>1, <1>7, <2>2, <3>1 DEF NotOwned
    <3>3. x = m
      BY <1>1, <1>9, <3>1, <3>2 DEF BoundToItsObject, Bound
    <3>4. owner[h] < cowKey[s]
      BY <1>1, <3>1, <3>2, <3>3 DEF OwnersBelowKey
    <3> QED BY <2>1, <3>2, <3>4 DEF TypeOK
  <2> QED BY <2>1, <2>2, Zenon DEF WriteObjects
<1>10. ASSUME NEW m \in Bound(s)
      PROVE  contents'[objects'[s][m]] =
               IF m \in DOMAIN W THEN W[m] ELSE contents[objects[s][m]]
  <2> DEFINE h == objects'[s][m]
  <2>1. m \in Object /\ h \in Handle /\ object'[h] = m
    BY <1>1, <1>2, <1>3, <1>4, <1>6, <1>7 DEF Bound, BoundToItsObject
  <2>2. CASE m \in DOMAIN W
    BY <2>1, <2>2 DEF WriteObjects
  <2>3. CASE m \notin DOMAIN W
    <3>1. m \notin DOMAIN f /\ h = objects[s][m]
      BY <1>2, <1>7, <2>1, <2>3
    <3>2. ASSUME NEW x \in DOMAIN W, objects'[s][x] = h PROVE FALSE
      <4>1. x \in Bound(s) /\ x \in Object
        BY <1>1, <1>2
      <4>2. object'[h] = x
        BY <1>4, <1>6, <1>7, <1>1, <3>2, <4>1 DEF Bound, BoundToItsObject
      <4> QED BY <2>1, <2>3, <4>2
    <3>3. ~\E x \in DOMAIN W : objects'[s][x] = h
      BY <3>2
    <3> HIDE DEF h
    <3>4. contents'[h] = contents[h]
      BY <1>8, <2>1, <3>3
    <3> QED BY <2>3, <3>1, <3>4 DEF h
  <2> QED BY <2>2, <2>3
<1> QED BY <1>2, <1>4, <1>5, <1>6, <1>9, <1>10

\* Writing keeps the invariant: the copies belong to the writer alone.
LEMMA WriteIInv ==
  ASSUME IInv, NEW s \in Space, NEW W \in Writes,
         NEW f \in Copies(NotOwned(s, DOMAIN W)), WriteObjects(s, W, f)
  PROVE  IInv'
<1> USE DEF IInv
<1>1. /\ s \in spaces /\ spaces' = spaces /\ cowKey' = cowKey
      /\ \A m \in DOMAIN f : f[m] \in Free
      /\ Injective(f) /\ DOMAIN f \subseteq DOMAIN W
      /\ DOMAIN W \subseteq Object /\ DOMAIN W \subseteq Bound(s)
      /\ DOMAIN W \subseteq Object
  BY DEF WriteObjects, NotOwned, Bound
<1>2. \A t \in Space, m \in Object : objects'[t][m] =
        IF t = s /\ m \in DOMAIN f THEN f[m] ELSE objects[t][m]
  BY DEF WriteObjects, TypeOK
<1>3. /\ \A m \in DOMAIN f : f[m] \in Handle /\ object'[f[m]] = m
                              /\ owner'[f[m]] = cowKey[s]
      /\ \A t \in spaces, m \in Object : objects[t][m] # Null =>
           /\ object'[objects[t][m]] = object[objects[t][m]]
           /\ owner'[objects[t][m]] = owner[objects[t][m]]
  BY WriteSeen
<1>4. \A t \in spaces, m \in Object :
        \A x \in DOMAIN f : f[x] # objects[t][m]
  BY <1>1 DEF Free
<1>5. TypeOK'
  <2>1. objects' \in [Space -> [Object -> Handle \cup {Null}]]
    <3>1. [m \in Object |-> IF m \in DOMAIN f THEN f[m] ELSE objects[s][m]]
            \in [Object -> Handle \cup {Null}]
      BY <1>3 DEF TypeOK
    <3> QED BY <3>1 DEF WriteObjects, TypeOK
  <2>2. owner' \in [Handle -> Nat]
    BY <1>1 DEF WriteObjects, TypeOK
  <2>3. object' \in [Handle -> Object]
    <3>1. \A h \in Handle : object'[h] \in Object
      <4> SUFFICES ASSUME NEW h \in Handle PROVE object'[h] \in Object
        OBVIOUS
      <4>1. CASE \E m \in DOMAIN f : f[m] = h
        BY <1>1, <1>3, <4>1
      <4>2. CASE ~\E m \in DOMAIN f : f[m] = h
        BY <4>2 DEF WriteObjects, TypeOK
      <4> QED BY <4>1, <4>2
    <3> QED BY <3>1 DEF WriteObjects
  <2>4. contents' \in [Handle -> Value]
    <3>1. ASSUME NEW h \in Handle PROVE contents'[h] \in Value
      <4>1. CASE \E m \in DOMAIN W : objects'[s][m] = h
        <5>1. PICK m \in DOMAIN W : objects'[s][m] = h
          BY <4>1
        <5>2. contents'[h] = W[m]
          BY WriteSeen, <1>1, <5>1
        <5> QED BY <5>1, <5>2 DEF Writes
      <4>2. CASE ~\E m \in DOMAIN W : objects'[s][m] = h
        BY <4>2 DEF WriteObjects, TypeOK
      <4> QED BY <4>1, <4>2
    <3> QED BY <3>1, Zenon DEF WriteObjects
  <2> QED BY <1>1, <2>1, <2>2, <2>3, <2>4 DEF TypeOK
<1>6. OwnersBelowKey'
  BY <1>1, <1>2, <1>3, <1>4, HandleAssumption DEF OwnersBelowKey, Bound, TypeOK
<1>7. BoundToItsObject'
  BY <1>1, <1>2, <1>3, HandleAssumption DEF BoundToItsObject, Bound, TypeOK
<1> QED BY <1>5, <1>6, <1>7

\* The writers: a memory operation, an external call and a merge.
LEMMA WritersIInv ==
  ASSUME IInv,
         \/ \E s \in Space, m \in Object, v \in Value : Write(s, m, v)
         \/ \E s \in Space, W \in Writes : CallExternal(s, W)
         \/ \E a, b \in Space, inA \in BOOLEAN : Merge(a, b, inA)
  PROVE  \E s \in Space, W \in Writes :
           \E f \in Copies(NotOwned(s, DOMAIN W)) : WriteObjects(s, W, f)
<1>1. ASSUME NEW s \in Space, NEW m \in Object, NEW v \in Value, Write(s, m, v)
      PROVE  \E W \in Writes : \E f \in Copies(NotOwned(s, DOMAIN W)) :
               WriteObjects(s, W, f)
  <2> DEFINE W == [x \in {m} |-> v]
  <2>1. W \in Writes /\ DOMAIN W = {m}
    <3>1. {m} \in SUBSET Object /\ W \in [{m} -> Value]
      OBVIOUS
    <3> QED BY <3>1, Zenon DEF Writes
  <2> QED BY <1>1, <2>1 DEF Write
<1>2. ASSUME NEW s \in Space, NEW W \in Writes, CallExternal(s, W)
      PROVE  \E f \in Copies(NotOwned(s, DOMAIN W)) : WriteObjects(s, W, f)
  BY <1>2 DEF CallExternal
<1>3. ASSUME NEW a \in Space, NEW b \in Space, NEW inA \in BOOLEAN,
             Merge(a, b, inA)
      PROVE  \E W \in Writes : \E f \in Copies(NotOwned(a, DOMAIN W)) :
               WriteObjects(a, W, f)
  <2> DEFINE B == {m \in Bound(a) : objects[a][m] # objects[b][m]}
             W == [m \in B |-> IF inA THEN contents[objects[a][m]]
                                      ELSE contents[objects[b][m]]]
  <2>1. B \in SUBSET Object /\ Bound(a) = Bound(b)
    BY <1>3 DEF Merge, Bound
  <2>2. \A m \in B : objects[a][m] \in Handle /\ objects[b][m] \in Handle
    BY <2>1 DEF Bound, IInv, TypeOK
  <2>3. W \in [B -> Value]
    BY <2>2 DEF IInv, TypeOK
  <2>4. W \in Writes /\ DOMAIN W = B
    BY <2>1, <2>3, Zenon DEF Writes
  <2> HIDE DEF B
  <2>5. \E f \in Copies(NotOwned(a, B)) : WriteObjects(a, W, f)
    BY <1>3, SMTT(30) DEF Merge, B
  <2> QED BY <2>4, <2>5
<1> QED BY <1>1, <1>2, <1>3

\* One step per action of the address space.
LEMMA NextIInv == IInv /\ [Next]_vars => IInv'
<1> SUFFICES ASSUME IInv, [Next]_vars PROVE IInv'
  OBVIOUS
<1>1. ASSUME NEW s \in Space, NEW c \in Space, Copy(s, c) PROVE IInv'
  BY <1>1, CopyIInv
<1>2. ASSUME NEW s \in Space, Delete(s) PROVE IInv'
  BY <1>2, DeleteIInv
<1>3. ASSUME NEW s \in Space, NEW m \in Object, NEW h \in Handle,
             NEW v \in Value, BindObject(s, m, h, v)
      PROVE  IInv'
  BY <1>3, BindIInv
<1>4. ASSUME NEW s \in Space, NEW m \in Object, UnbindObject(s, m) PROVE IInv'
  BY <1>4, UnbindIInv
<1>5. ASSUME \/ \E s \in Space, m \in Object, v \in Value : Write(s, m, v)
             \/ \E s \in Space, W \in Writes : CallExternal(s, W)
             \/ \E a, b \in Space, inA \in BOOLEAN : Merge(a, b, inA)
      PROVE  IInv'
  BY <1>5, WritersIInv, WriteIInv
<1>6. CASE UNCHANGED vars
  BY <1>6 DEF IInv, vars, TypeOK, OwnersBelowKey, BoundToItsObject, Bound
<1> QED BY <1>1, <1>2, <1>3, <1>4, <1>5, <1>6 DEF Next

\* The invariants of copy on write hold in every reachable state: no space
\* owns what another binds (AddressSpace.h:51, getWriteable).
THEOREM CopyOnWriteCorrect ==
  Spec => [](TypeOK /\ HandlesOwned)
<1>1. IInv => TypeOK /\ HandlesOwned
  BY DEF IInv, HandlesOwned
<1> QED BY <1>1, InitIInv, NextIInv, PTL DEF Spec

-----------------------------------------------------------------------------
(* The refinement of StateMemory.                                          *)

\* The initial space is the only memory there is.
LEMMA InitMem == Init => Mem!MemInit
<1> SUFFICES ASSUME Init PROVE Mem!MemInit
  OBVIOUS
<1>1. spaces = {InitSpace} /\ TypeOK
  BY InitIInv DEF Init, IInv
<1>2. MemOf(InitSpace) \in [Bound(InitSpace) -> Value]
  BY <1>1, SpaceAssumption DEF MemOf, Bound, TypeOK
<1>3. MemOf(InitSpace) \in Mem!Memory
  BY <1>2 DEF Mem!Memory, Bound
<1> QED BY <1>1, <1>3 DEF Mem!MemInit

\* A copy has the memory of the space it is copied from.
LEMMA CopyMem ==
  ASSUME IInv, NEW s \in Space, NEW c \in Space, Copy(s, c)
  PROVE  Mem!MemCopy(s, c)
<1>1. /\ s \in spaces /\ c \in Space \ spaces /\ spaces' = spaces \cup {c}
      /\ contents' = contents
      /\ \A t \in spaces : objects'[t] = objects[t]
      /\ objects'[c] = objects[s]
  BY DEF Copy, IInv, TypeOK
<1>2. \A t \in spaces : MemOf(t)' = MemOf(t)
  BY <1>1 DEF MemOf, Bound
<1>3. MemOf(c)' = MemOf(s)
  BY <1>1 DEF MemOf, Bound
<1> QED BY <1>1, <1>2, <1>3 DEF Mem!MemCopy

\* Deleting a space leaves the memories of the others.
LEMMA DeleteMem ==
  ASSUME IInv, NEW s \in Space, Delete(s)
  PROVE  Mem!MemDelete(s)
<1>1. /\ s \in spaces /\ spaces' = spaces \ {s}
      /\ objects' = objects /\ contents' = contents
  BY DEF Delete
<1>2. \A t \in spaces : MemOf(t)' = MemOf(t)
  BY <1>1 DEF MemOf, Bound
<1> QED BY <1>1, <1>2 DEF Mem!MemDelete

\* bindObject changes the memory of one space.
LEMMA BindMem ==
  ASSUME IInv, NEW s \in Space, NEW m \in Object, NEW h \in Handle,
         NEW v \in Value, BindObject(s, m, h, v)
  PROVE  Mem!MemBind(s, m, v)
<1> DEFINE M == [x \in Bound(s) \cup {m} |-> IF x = m THEN v ELSE MemOf(s)[x]]
<1>1. /\ s \in spaces /\ spaces' = spaces /\ h \in Free /\ h # Null
      /\ \A t \in spaces, x \in Object : objects'[t][x] =
           IF t = s /\ x = m THEN h ELSE objects[t][x]
      /\ \A g \in Handle : contents'[g] = IF g = h THEN v ELSE contents[g]
  BY HandleAssumption DEF BindObject, IInv, TypeOK
<1>2. \A t \in spaces, x \in Object : objects[t][x] # Null =>
        objects[t][x] \in Handle /\ objects[t][x] # h
  BY <1>1 DEF Free, IInv, TypeOK
<1>3. \A t \in spaces \ {s} : MemOf(t)' = MemOf(t)
  <2> SUFFICES ASSUME NEW t \in spaces \ {s} PROVE MemOf(t)' = MemOf(t)
    OBVIOUS
  <2>1. Bound(t)' = Bound(t)
    BY <1>1 DEF Bound
  <2>2. \A x \in Bound(t) :
          contents'[objects'[t][x]] = contents[objects[t][x]]
    BY <1>1, <1>2 DEF Bound
  <2> QED BY <2>1, <2>2 DEF MemOf
<1>4. MemOf(s)' = M
  <2>1. Bound(s)' = Bound(s) \cup {m}
    BY <1>1 DEF Bound
  <2>2. \A x \in Bound(s)' : contents'[objects'[s][x]] =
          IF x = m THEN v ELSE contents[objects[s][x]]
    BY <1>1, <1>2, <2>1 DEF Bound
  <2> QED BY <2>1, <2>2 DEF MemOf
<1>5. DOMAIN MemOf(s) = Bound(s)
  BY DEF MemOf
<1> HIDE DEF MemOf
<1> QED BY <1>1, <1>3, <1>4, <1>5 DEF Mem!MemBind, Mem!Becomes

\* unbindObject changes the memory of one space.
LEMMA UnbindMem ==
  ASSUME IInv, NEW s \in Space, NEW m \in Object, UnbindObject(s, m)
  PROVE  Mem!MemUnbind(s, m)
<1> DEFINE M == [x \in Bound(s) \ {m} |-> MemOf(s)[x]]
<1>1. /\ s \in spaces /\ spaces' = spaces /\ contents' = contents
      /\ \A t \in spaces, x \in Object : objects'[t][x] =
           IF t = s /\ x = m THEN Null ELSE objects[t][x]
  BY DEF UnbindObject, IInv, TypeOK
<1>2. \A t \in spaces \ {s} : MemOf(t)' = MemOf(t)
  <2> SUFFICES ASSUME NEW t \in spaces \ {s} PROVE MemOf(t)' = MemOf(t)
    OBVIOUS
  <2>1. Bound(t)' = Bound(t)
    BY <1>1 DEF Bound
  <2>2. \A x \in Bound(t) :
          contents'[objects'[t][x]] = contents[objects[t][x]]
    BY <1>1 DEF Bound
  <2> QED BY <2>1, <2>2 DEF MemOf
<1>3. MemOf(s)' = M
  <2>1. Bound(s)' = Bound(s) \ {m}
    BY <1>1 DEF Bound
  <2>2. \A x \in Bound(s)' :
          contents'[objects'[s][x]] = contents[objects[s][x]]
    BY <1>1, <2>1 DEF Bound
  <2> QED BY <2>1, <2>2 DEF MemOf
<1>4. DOMAIN MemOf(s) = Bound(s)
  BY DEF MemOf
<1> QED BY <1>1, <1>2, <1>3, <1>4 DEF Mem!MemUnbind, Mem!Becomes

\* The writes change the memory of the writer, and no other.
LEMMA WriteMem ==
  ASSUME IInv, NEW s \in Space, NEW W \in Writes,
         NEW f \in Copies(NotOwned(s, DOMAIN W)), WriteObjects(s, W, f)
  PROVE  Mem!MemStore(s, W)
<1> DEFINE M == [x \in Bound(s) |->
                   IF x \in DOMAIN W THEN W[x] ELSE MemOf(s)[x]]
<1>1. /\ s \in spaces /\ spaces' = spaces /\ DOMAIN W \subseteq Bound(s)
      /\ DOMAIN f \subseteq Bound(s)
      /\ \A t \in spaces, x \in Object : objects'[t][x] =
           IF t = s /\ x \in DOMAIN f THEN f[x] ELSE objects[t][x]
  BY DEF WriteObjects, NotOwned, IInv, TypeOK
<1>2. \A x \in DOMAIN f : f[x] # Null
  BY WriteSeen, HandleAssumption
<1>3. \A t \in spaces : Bound(t)' = Bound(t)
  BY <1>1, <1>2 DEF Bound
<1>4. \A t \in spaces \ {s} : MemOf(t)' = MemOf(t)
  <2> SUFFICES ASSUME NEW t \in spaces \ {s} PROVE MemOf(t)' = MemOf(t)
    OBVIOUS
  <2>1. \A x \in Bound(t) :
          contents'[objects'[t][x]] = contents[objects[t][x]]
    BY <1>1, WriteSeen DEF Bound
  <2> QED BY <1>3, <2>1 DEF MemOf
<1>5. MemOf(s)' = M
  <2>1. \A x \in Bound(s) : contents'[objects'[s][x]] =
          IF x \in DOMAIN W THEN W[x] ELSE contents[objects[s][x]]
    BY WriteSeen
  <2> QED BY <1>1, <1>3, <2>1 DEF MemOf
<1>6. DOMAIN MemOf(s) = Bound(s)
  BY DEF MemOf
<1> QED BY <1>1, <1>4, <1>5, <1>6 DEF Mem!MemStore, Mem!Becomes

\* Every step of the address spaces is a step of separate memories.
LEMMA NextMem ==
  IInv /\ [Next]_vars => [Mem!MemNext]_([s \in spaces |-> MemOf(s)])
<1> SUFFICES ASSUME IInv, [Next]_vars
             PROVE  Mem!MemNext \/ UNCHANGED [s \in spaces |-> MemOf(s)]
  OBVIOUS
<1>1. ASSUME NEW s \in Space, NEW c \in Space, Copy(s, c) PROVE Mem!MemNext
  BY <1>1, CopyMem DEF Mem!MemNext
<1>2. ASSUME NEW s \in Space, Delete(s) PROVE Mem!MemNext
  BY <1>2, DeleteMem DEF Mem!MemNext
<1>3. ASSUME NEW s \in Space, NEW m \in Object, NEW h \in Handle,
             NEW v \in Value, BindObject(s, m, h, v)
      PROVE  Mem!MemNext
  BY <1>3, BindMem DEF Mem!MemNext
<1>4. ASSUME NEW s \in Space, NEW m \in Object, UnbindObject(s, m)
      PROVE  Mem!MemNext
  BY <1>4, UnbindMem DEF Mem!MemNext
<1>5. ASSUME \/ \E s \in Space, m \in Object, v \in Value : Write(s, m, v)
             \/ \E s \in Space, W \in Writes : CallExternal(s, W)
             \/ \E a, b \in Space, inA \in BOOLEAN : Merge(a, b, inA)
      PROVE  Mem!MemNext
  <2>1. PICK s \in Space, W \in Writes :
          \E f \in Copies(NotOwned(s, DOMAIN W)) : WriteObjects(s, W, f)
    BY <1>5, WritersIInv
  <2>2. Mem!MemStore(s, W)
    BY <2>1, WriteMem
  <2>3. W \in Mem!Memory
    BY DEF Writes, Mem!Memory
  <2> QED BY <2>2, <2>3 DEF Mem!MemNext
<1>6. CASE UNCHANGED vars
  BY <1>6 DEF vars, MemOf, Bound
<1> QED BY <1>1, <1>2, <1>3, <1>4, <1>5, <1>6 DEF Next

\* Sharing ObjectStates under copy on write implements separate memories:
\* no state ever sees a write of another (AddressSpace.cpp, getWriteable).
THEOREM MemoriesSeparate == Spec => SeparateMemories
<1> QED BY InitIInv, NextIInv, InitMem, NextMem, PTL
        DEF Spec, SeparateMemories, Mem!MemSpec

-----------------------------------------------------------------------------
\* The inductive invariant of one ObjectState: what Memory.cpp:314 says alone does
\* not say that a flushed byte is up to date, which reads depend on.
OInv == ObjTypeOK /\ CacheInvariants /\ FlushedAgree

\* The constructors establish the invariant.
LEMMA InitOInv == ObjInit => OInv
BY NoneAssumption
   DEF ObjInit, OInv, ObjTypeOK, CacheInvariants, FlushedAgree, Read8

\* A flush does not change what the object holds.
LEMMA FlushKeeps == OInv => \A o \in Offset : Flushed[o] = Read8(o)
BY NoneAssumption
   DEF OInv, ObjTypeOK, CacheInvariants, FlushedAgree, Read8, Flushed

\* A write at constant offsets keeps the invariant.
LEMMA WriteConstantOInv ==
  ASSUME OInv, NEW W \in Stores, NEW C \in SUBSET DOMAIN W, WriteConstant(W, C)
  PROVE  /\ OInv'
         /\ \A o \in Offset :
              Read8(o)' = IF o \in DOMAIN W THEN W[o] ELSE Read8(o)
<1>1. DOMAIN W \subseteq Offset /\ \A o \in DOMAIN W : W[o] \in Byte
  BY DEF Stores
<1>2. ObjTypeOK'
  BY <1>1 DEF WriteConstant, OInv, ObjTypeOK
<1>3. CacheInvariants'
  BY <1>1, NoneAssumption DEF WriteConstant, OInv, ObjTypeOK, CacheInvariants
<1>4. FlushedAgree'
  BY <1>1 DEF WriteConstant, OInv, ObjTypeOK, FlushedAgree, Read8
<1>5. \A o \in Offset : Read8(o)' = IF o \in DOMAIN W THEN W[o] ELSE Read8(o)
  BY <1>1, NoneAssumption DEF WriteConstant, OInv, ObjTypeOK, Read8
<1> QED BY <1>2, <1>3, <1>4, <1>5 DEF OInv

\* A write at a symbolic offset leaves every byte in the updates.
LEMMA WriteAtOInv ==
  ASSUME OInv, NEW W \in Stores, WriteAt(W)
  PROVE  /\ OInv'
         /\ \A o \in Offset :
              Read8(o)' = IF o \in DOMAIN W THEN W[o] ELSE Read8(o)
<1>1. DOMAIN W \subseteq Offset /\ \A o \in DOMAIN W : W[o] \in Byte
  BY DEF Stores
<1>2. \A o \in Offset : Read8(o) \in Byte
  BY DEF OInv, ObjTypeOK, Read8
<1>3. /\ updates' \in [Offset -> Byte]
      /\ \A o \in Offset :
           updates'[o] = IF o \in DOMAIN W THEN W[o] ELSE Read8(o)
  <2>1. DOMAIN Flushed = Offset
    BY DEF Flushed
  <2> HIDE DEF Flushed
  <2> QED BY <1>1, <1>2, <2>1, FlushKeeps DEF WriteAt, Over
<1>4. \A o \in Offset : Read8(o)' = updates'[o]
  BY DEF WriteAt, Read8
<1> QED BY <1>3, <1>4
        DEF WriteAt, OInv, ObjTypeOK, CacheInvariants, FlushedAgree

\* A read at a symbolic offset flushes, and changes no byte.
LEMMA ReadAtOInv ==
  ASSUME OInv, NEW x \in Offset, ReadAt(x)
  PROVE  /\ OInv'
         /\ \A o \in Offset : Read8(o)' = Read8(o)
         /\ seen' = <<x, Read8(x)>>
<1>1. \A o \in Offset : Read8(o) \in Byte
  BY DEF OInv, ObjTypeOK, Read8
<1>2. updates' = [o \in Offset |-> Read8(o)]
  <2>1. DOMAIN Flushed = Offset /\ Flushed = [o \in Offset |-> Flushed[o]]
    BY DEF Flushed
  <2> HIDE DEF Flushed
  <2> QED BY <2>1, FlushKeeps DEF ReadAt
<1>3. \A o \in Offset : Read8(o)' = Read8(o)
  BY <1>2 DEF ReadAt, Read8
<1>4. ObjTypeOK'
  BY <1>1, <1>2 DEF ReadAt, OInv, ObjTypeOK
<1>5. CacheInvariants'
  BY DEF ReadAt, OInv, CacheInvariants
<1>6. FlushedAgree'
  BY <1>2, <1>3 DEF ReadAt, FlushedAgree
<1>7. seen' = <<x, Read8(x)>>
  BY <1>2 DEF ReadAt
<1> QED BY <1>3, <1>4, <1>5, <1>6, <1>7 DEF OInv

\* copyInConcretes is a write of the concrete bytes among those it copies: the
\* store of the others is not in use.
LEMMA CopyInOInv ==
  ASSUME OInv, ~ExternalFlushed, NEW W \in Stores, CopyIn(W)
  PROVE  /\ OInv'
         /\ \E V \in Stores : \A o \in Offset :
              Read8(o)' = IF o \in DOMAIN V THEN V[o] ELSE Read8(o)
<1> DEFINE V == [o \in DOMAIN W \cap concreteMask |-> W[o]]
<1>1. DOMAIN W \subseteq Offset /\ \A o \in DOMAIN W : W[o] \in Byte
  BY DEF Stores
<1>2. \A o \in Offset :
        concreteStore'[o] = IF o \in DOMAIN W THEN W[o] ELSE concreteStore[o]
  BY DEF CopyIn, Over, OInv, ObjTypeOK
<1>3. ObjTypeOK'
  BY <1>1 DEF CopyIn, Over, OInv, ObjTypeOK
<1>4. CacheInvariants'
  BY DEF CopyIn, OInv, CacheInvariants
<1>5. FlushedAgree'
  BY <1>2 DEF CopyIn, OInv, ObjTypeOK, FlushedAgree, Read8
<1>6. \A o \in Offset : Read8(o)' = IF o \in DOMAIN V THEN V[o] ELSE Read8(o)
  BY <1>2 DEF CopyIn, Read8
<1>7. V \in Stores
  <2>1. /\ V \in [DOMAIN W \cap concreteMask -> Byte]
        /\ DOMAIN W \cap concreteMask \in SUBSET Offset
    BY <1>1
  <2> QED BY <2>1, Zenon DEF Stores
<1> QED BY <1>3, <1>4, <1>5, <1>6, <1>7 DEF OInv

\* The steps by what they do to the bytes: a store, or a read of one byte.
LEMMA StepOInv ==
  ASSUME OInv, ~ExternalFlushed, ObjNext
  PROVE  /\ OInv'
         /\ \/ /\ seen' = None
               /\ \E W \in Stores : \A o \in Offset :
                    Read8(o)' = IF o \in DOMAIN W THEN W[o] ELSE Read8(o)
            \/ /\ \A o \in Offset : Read8(o)' = Read8(o)
               /\ \E x \in Offset : seen' = <<x, Read8(x)>>
<1>1. ASSUME NEW W \in Stores, NEW C \in SUBSET DOMAIN W, WriteConstant(W, C)
      PROVE  /\ OInv' /\ seen' = None
             /\ \A o \in Offset :
                  Read8(o)' = IF o \in DOMAIN W THEN W[o] ELSE Read8(o)
  <2>1. seen' = None
    BY <1>1 DEF WriteConstant
  <2> QED BY <1>1, <2>1, WriteConstantOInv
<1>2. ASSUME NEW W \in Stores, WriteAt(W)
      PROVE  /\ OInv' /\ seen' = None
             /\ \A o \in Offset :
                  Read8(o)' = IF o \in DOMAIN W THEN W[o] ELSE Read8(o)
  <2>1. seen' = None
    BY <1>2 DEF WriteAt
  <2> QED BY <1>2, <2>1, WriteAtOInv
<1>3. ASSUME NEW W \in Stores, CopyIn(W)
      PROVE  /\ OInv' /\ seen' = None
             /\ \E V \in Stores : \A o \in Offset :
                  Read8(o)' = IF o \in DOMAIN V THEN V[o] ELSE Read8(o)
  <2>1. seen' = None
    BY <1>3 DEF CopyIn
  <2> QED BY <1>3, <2>1, CopyInOInv
<1>4. ASSUME NEW x \in Offset, ReadConstant(x)
      PROVE  /\ OInv' /\ seen' = <<x, Read8(x)>>
             /\ \A o \in Offset : Read8(o)' = Read8(o)
  BY <1>4 DEF ReadConstant, caches, OInv, ObjTypeOK, CacheInvariants,
              FlushedAgree, Read8
<1>5. ASSUME NEW x \in Offset, ReadAt(x)
      PROVE  /\ OInv' /\ seen' = <<x, Read8(x)>>
             /\ \A o \in Offset : Read8(o)' = Read8(o)
  BY <1>5, ReadAtOInv
<1> QED BY <1>1, <1>2, <1>3, <1>4, <1>5 DEF ObjNext

\* A read stays current until the next write clears it.
LEMMA NextReads ==
  ASSUME ~ExternalFlushed, OInv, ReadsCurrent,
         seen # None => seen[1] \in Offset, [ObjNext]_objVars
  PROVE  OInv' /\ ReadsCurrent' /\ (seen' # None => seen'[1] \in Offset)
<1>1. CASE ObjNext
  <2>1. CASE seen' = None
    BY <1>1, <2>1, StepOInv DEF ReadsCurrent
  <2>2. CASE seen' # None
    <3>1. PICK x \in Offset : seen' = <<x, Read8(x)>>
      BY <1>1, <2>2, StepOInv
    <3>2. \A o \in Offset : Read8(o)' = Read8(o)
      BY <1>1, <2>2, StepOInv
    <3>3. seen'[1] = x /\ seen'[2] = Read8(x)
      BY <3>1
    <3>4. ReadsCurrent'
      BY <3>2, <3>3 DEF ReadsCurrent
    <3> QED BY <1>1, <3>3, <3>4, StepOInv
  <2> QED BY <2>1, <2>2
<1>2. CASE UNCHANGED objVars
  BY <1>2 DEF objVars, caches, OInv, ObjTypeOK, CacheInvariants, FlushedAgree,
              ReadsCurrent, Read8
<1> QED BY <1>1, <1>2

\* The cache invariants of Memory.cpp:314 hold, and every read yields the byte
\* the object holds, unless external functions change flushed bytes.
THEOREM CachesCorrect == ~ExternalFlushed => (ObjSpec => [](ObjTypeOK /\ CachesAgree))
<1> DEFINE J == OInv /\ ReadsCurrent /\ (seen # None => seen[1] \in Offset)
<1> SUFFICES ASSUME ~ExternalFlushed PROVE ObjSpec => [](ObjTypeOK /\ CachesAgree)
  OBVIOUS
<1>1. ObjInit => J
  BY InitOInv DEF ObjInit, ReadsCurrent
<1>2. J /\ [ObjNext]_objVars => J'
  BY NextReads
<1>3. J => ObjTypeOK /\ CachesAgree
  BY DEF OInv, CachesAgree
<1> QED BY <1>1, <1>2, <1>3, PTL DEF ObjSpec

\* An ObjectState implements an array of bytes (ByteArray) for objects of any
\* size: reads and writes at constant and symbolic offsets mix freely.
THEOREM ObjectIsArray == ~ExternalFlushed => (ObjSpec => ImplementsArray)
<1> DEFINE B == [o \in Offset |-> Read8(o)]
<1> SUFFICES ASSUME ~ExternalFlushed PROVE ObjSpec => ImplementsArray
  OBVIOUS
<1>1. ObjInit => Array!ArrayInit
  BY InitOInv DEF ObjInit, Array!ArrayInit, OInv, ObjTypeOK, Read8
<1>2. OInv /\ [ObjNext]_objVars => OInv' /\ [Array!ArrayNext]_<<B, seen>>
  <2> SUFFICES ASSUME OInv, [ObjNext]_objVars
               PROVE  OInv' /\ (Array!ArrayNext \/ UNCHANGED <<B, seen>>)
    OBVIOUS
  <2>1. ASSUME NEW W \in Stores, seen' = None,
               \A o \in Offset :
                 Read8(o)' = IF o \in DOMAIN W THEN W[o] ELSE Read8(o)
        PROVE  Array!ArrayNext
    <3>1. Array!Store(W)
      BY <2>1 DEF Array!Store
    <3>2. W \in Array!Stores
      BY DEF Stores, Array!Stores
    <3> QED BY <3>1, <3>2 DEF Array!ArrayNext
  <2>2. ASSUME NEW x \in Offset, seen' = <<x, Read8(x)>>,
               \A o \in Offset : Read8(o)' = Read8(o)
        PROVE  Array!ArrayNext
    <3>1. Array!Load(x)
      BY <2>2 DEF Array!Load
    <3> QED BY <3>1 DEF Array!ArrayNext
  <2>3. CASE ObjNext
    BY <2>1, <2>2, <2>3, StepOInv
  <2>4. CASE UNCHANGED objVars
    BY <2>4 DEF objVars, caches, OInv, ObjTypeOK, CacheInvariants, FlushedAgree,
                Read8
  <2> QED BY <2>3, <2>4
<1> QED BY <1>1, <1>2, InitOInv, PTL
        DEF ObjSpec, ImplementsArray, Array!ArraySpec
=============================================================================
