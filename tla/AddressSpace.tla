---------------------------- MODULE AddressSpace ----------------------------
(***************************************************************************)
(* AddressSpace (lib/Core/AddressSpace.cpp): the memories of the execution *)
(* states share their ObjectStates, and an ObjectState is copied before it *)
(* is written unless the address space owns it, that is, unless the        *)
(* object's copyOnWriteOwner is the space's cowKey.  Copying a space gives *)
(* both sides the same new key, so that neither owns what they share, and  *)
(* later the two hold distinct objects with equal owners.                  *)
(*                                                                         *)
(* An ObjectState lives while a space binds it (the reference counts of    *)
(* ObjectHolder); its bytes are one value here, see ObjectState for them.  *)
(***************************************************************************)
EXTENDS Naturals

CONSTANTS
  Space, InitSpace, Object, Value,
  Handle,    \* addresses of ObjectStates
  Null,      \* no ObjectState
  ReadOnly,  \* the objects of addExternalObject that nothing may write
  MaxKey     \* the largest cowKey; below 2^32, where it would wrap

ASSUME SpaceAssumption == InitSpace \in Space
ASSUME HandleAssumption == Null \notin Handle
ASSUME KeyAssumption == MaxKey \in Nat
ASSUME ReadOnlyAssumption == ReadOnly \subseteq Object

VARIABLES
  spaces,    \* the address spaces of the states that exist
  cowKey,    \* by space
  objects,   \* by space: the ObjectState bound to each object, or Null
  object,    \* by ObjectState: the object it is the state of
  owner,     \* by ObjectState: copyOnWriteOwner
  contents   \* by ObjectState

vars == <<spaces, cowKey, objects, object, owner, contents>>

Bound(s) == {m \in Object : objects[s][m] # Null}

\* Handles that new ObjectState can return.
Free == {h \in Handle : \A s \in spaces, m \in Object : objects[s][m] # h}

Injective(f) == \A x, y \in DOMAIN f : f[x] = f[y] => x = y

Writes == UNION {[B -> Value] : B \in SUBSET Object}

\* Executor::addExternalObject has bound the read-only objects.
Init ==
  /\ spaces = {InitSpace}
  /\ cowKey = [s \in Space |-> 1]
  /\ \E f \in [ReadOnly -> Handle] :
       /\ Injective(f)
       /\ objects = [s \in Space |-> [m \in Object |->
                      IF s = InitSpace /\ m \in ReadOnly THEN f[m] ELSE Null]]
       /\ object \in [Handle -> Object] /\ \A m \in ReadOnly : object[f[m]] = m
       /\ contents \in [Handle -> Value]
  /\ owner = [h \in Handle |-> 1]

\* Mutant: the key of the space copied from is not incremented.
CopyKeepsKey(s, c) ==
  /\ s \in spaces /\ c \in Space \ spaces /\ cowKey[s] < MaxKey
  /\ spaces' = spaces \cup {c}
  /\ cowKey' = [cowKey EXCEPT ![c] = cowKey[s] + 1]
  /\ objects' = [objects EXCEPT ![c] = objects[s]]
  /\ UNCHANGED <<object, owner, contents>>

\* The copy constructor: cowKey(++b.cowKey), objects(b.objects).
Copy(s, c) ==
  /\ s \in spaces /\ c \in Space \ spaces /\ cowKey[s] < MaxKey
  /\ spaces' = spaces \cup {c}
  /\ cowKey' = [cowKey EXCEPT ![s] = cowKey[s] + 1, ![c] = cowKey[s] + 1]
  /\ objects' = [objects EXCEPT ![c] = objects[s]]
  /\ UNCHANGED <<object, owner, contents>>

\* A state is deleted: a removed one, or the copy getSymbolicSolution made.
Delete(s) ==
  /\ s \in spaces
  /\ spaces' = spaces \ {s}
  /\ UNCHANGED <<cowKey, objects, object, owner, contents>>

\* bindObject of a new ObjectState, in place of the one bound before if any.
BindObject(s, m, h, v) ==
  /\ s \in spaces /\ m \in Object \ ReadOnly /\ h \in Free
  /\ objects' = [objects EXCEPT ![s][m] = h]
  /\ object' = [object EXCEPT ![h] = m]
  /\ owner' = [owner EXCEPT ![h] = cowKey[s]]
  /\ contents' = [contents EXCEPT ![h] = v]
  /\ UNCHANGED <<spaces, cowKey>>

UnbindObject(s, m) ==
  /\ s \in spaces /\ m \in Bound(s) \ ReadOnly
  /\ objects' = [objects EXCEPT ![s][m] = Null]
  /\ UNCHANGED <<spaces, cowKey, object, owner, contents>>

\* Mutant: an object of an older epoch is written in place.
NotOwnedIfNewer(s, B) == {m \in B : owner[objects[s][m]] > cowKey[s]}

NotOwned(s, B) == {m \in B : owner[objects[s][m]] # cowKey[s]}

\* getWriteable for each object of the domain of W, then the writes W.  The
\* new ObjectStates are at the addresses f.
WriteObjects(s, W, f) ==
  /\ s \in spaces /\ DOMAIN W \subseteq Bound(s) \ ReadOnly
  /\ DOMAIN f = NotOwned(s, DOMAIN W) /\ Injective(f)
  /\ \A m \in DOMAIN f : f[m] \in Free
  /\ objects' = [objects EXCEPT ![s] =
       [m \in Object |-> IF m \in DOMAIN f THEN f[m] ELSE objects[s][m]]]
  /\ object' = [h \in Handle |->
       IF \E m \in DOMAIN f : f[m] = h
         THEN CHOOSE m \in DOMAIN f : f[m] = h ELSE object[h]]
  /\ owner' = [h \in Handle |->
       IF \E m \in DOMAIN f : f[m] = h THEN cowKey[s] ELSE owner[h]]
  /\ contents' = [h \in Handle |->
       IF \E m \in DOMAIN W : objects'[s][m] = h
         THEN W[object'[h]] ELSE contents[h]]
  /\ UNCHANGED <<spaces, cowKey>>

Copies(B) == [B -> Free]

\* executeMemoryOperation, executeMakeSymbolic's seeds and doImpliedValue-
\* Concretization write one object.
Write(s, m, v) ==
  /\ s \in spaces /\ m \in Bound(s) \ ReadOnly
  /\ \E f \in Copies(NotOwned(s, {m})) : WriteObjects(s, [x \in {m} |-> v], f)

\* callExternalFunction: the objects' contents go out, the function changes
\* some, and copyInConcretes writes those that differ.
CallExternal(s, W) ==
  /\ s \in spaces /\ DOMAIN W \subseteq Bound(s) \ ReadOnly
  /\ \A m \in DOMAIN W : W[m] # contents[objects[s][m]]
  /\ \E f \in Copies(NotOwned(s, DOMAIN W)) : WriteObjects(s, W, f)

\* ExecutionState::merge(b): the objects bound to different ObjectStates get
\* Select(inA, a's, b's); inA is what the condition of a's path evaluates to.
Merge(a, b, inA) ==
  LET mutated == {m \in Bound(a) : objects[a][m] # objects[b][m]}
  IN /\ a \in spaces /\ b \in spaces \ {a} /\ Bound(a) = Bound(b)
     /\ \E f \in Copies(NotOwned(a, mutated)) :
          WriteObjects(a, [m \in mutated |-> IF inA
                                             THEN contents[objects[a][m]]
                                             ELSE contents[objects[b][m]]], f)

Next ==
  \/ \E s, c \in Space : Copy(s, c)
  \/ \E s \in Space : Delete(s)
  \/ \E s \in Space, m \in Object, h \in Handle, v \in Value :
       BindObject(s, m, h, v)
  \/ \E s \in Space, m \in Object : UnbindObject(s, m)
  \/ \E s \in Space, m \in Object, v \in Value : Write(s, m, v)
  \/ \E s \in Space, W \in Writes : CallExternal(s, W)
  \/ \E a, b \in Space, inA \in BOOLEAN : Merge(a, b, inA)

Spec == Init /\ [][Next]_vars

-----------------------------------------------------------------------------
\* The types of the address spaces and the ObjectStates.
TypeOK ==
  /\ spaces \subseteq Space
  /\ cowKey \in [Space -> 1..(MaxKey + 1)]
  /\ objects \in [Space -> [Object -> Handle \cup {Null}]]
  /\ object \in [Handle -> Object]
  /\ owner \in [Handle -> Nat]
  /\ contents \in [Handle -> Value]

\* AddressSpace.h:51: "forall o in objects, o->copyOnWriteOwner <= cowKey", and
\* a space owns no ObjectState that another space binds too, however the two
\* have been copied, merged and written since.
OwnersBelowKey ==
  \A s \in spaces : \A m \in Bound(s) :
    /\ owner[objects[s][m]] <= cowKey[s]
    /\ \A t \in spaces \ {s} :
         objects[t][m] = objects[s][m] => owner[objects[s][m]] < cowKey[s]

\* An ObjectState is bound to the one object it was made for (os->object),
\* in every space: getWriteable and bindObject never mix two objects up.
BoundToItsObject ==
  \A s \in spaces : \A m \in Bound(s) : object[objects[s][m]] = m

\* Both hold in every space, however spaces are copied, merged and deleted, so
\* getWriteable() writes in place only where nobody else looks.
HandlesOwned == OwnersBelowKey /\ BoundToItsObject

\* The memory of s.
MemOf(s) == [m \in Bound(s) |-> contents[objects[s][m]]]

Mem == INSTANCE StateMemory WITH mem <- [s \in spaces |-> MemOf(s)]

\* The address spaces behave as separate memories (StateMemory): copy on
\* write never shows one state a write of another.
SeparateMemories == Mem!MemSpec
=============================================================================
