---------------------------- MODULE ObjectState ----------------------------
(***************************************************************************)
(* ObjectState (lib/Core/Memory.cpp): the bytes of an object are kept in   *)
(* three places, a store of concrete bytes, a cache of symbolic ones, and  *)
(* the list of updates that the solver sees.  An access at a symbolic      *)
(* offset goes to the updates, and flushes the other two into them first.  *)
(*                                                                         *)
(* Symbolic values and offsets are taken under one assignment of the       *)
(* symbolic inputs, any one: an expression is the byte or the offset it    *)
(* evaluates to, and the updates are the array they evaluate to.  Whether  *)
(* an expression is constant still matters, to the code.                   *)
(***************************************************************************)
CONSTANTS
  Offset,          \* the offsets of the object
  Byte,
  None,            \* no expression
  ExternalFlushed  \* external functions change bytes that are flushed

ASSUME NoneAssumption == None \notin Byte /\ None \notin Offset \X Byte
ASSUME ExternalAssumption == ExternalFlushed \in BOOLEAN

VARIABLES
  concreteStore,
  concreteMask,    \* the bytes whose value is in the store
  knownSymbolics,  \* the cached expression of each byte, or None
  flushed,         \* the bytes the updates hold (flushMask, inverted)
  updates,
  seen             \* the last read, <<offset, byte>>, or None after a write

caches == <<concreteStore, concreteMask, knownSymbolics, flushed>>
objVars == <<caches, updates, seen>>

Stores == UNION {[B -> Byte] : B \in SUBSET Offset}

\* Overriding f where W is defined.
Over(W, f) == [o \in DOMAIN f |-> IF o \in DOMAIN W THEN W[o] ELSE f[o]]

\* The constructors: concrete bytes, or the bytes of a symbolic array.
ObjInit ==
  /\ concreteStore \in [Offset -> Byte]
  /\ updates \in [Offset -> Byte]
  /\ knownSymbolics = [o \in Offset |-> None]
  /\ \/ concreteMask = Offset /\ flushed = {}
     \/ concreteMask = {} /\ flushed = Offset
  /\ seen = None

\* read8(unsigned): the store, else the cache, else the updates.
Read8(o) ==
  IF o \in concreteMask THEN concreteStore[o]
  ELSE IF knownSymbolics[o] # None THEN knownSymbolics[o] ELSE updates[o]

\* What the updates are once every byte is flushed.
Flushed ==
  [o \in Offset |->
     IF o \in flushed THEN updates[o]
     ELSE IF o \in concreteMask THEN concreteStore[o] ELSE knownSymbolics[o]]

\* Mutant: the bytes still count as flushed.
WriteConstantStaysFlushed(W, C) ==
  /\ concreteStore' = [o \in Offset |-> IF o \in C THEN W[o] ELSE concreteStore[o]]
  /\ knownSymbolics' = [o \in Offset |->
       IF o \in C THEN None
       ELSE IF o \in DOMAIN W THEN W[o] ELSE knownSymbolics[o]]
  /\ concreteMask' = (concreteMask \ DOMAIN W) \cup C
  /\ seen' = None
  /\ UNCHANGED <<flushed, updates>>

\* write(unsigned): write8 for each byte of the value; the bytes in C are
\* constants and go to the store, the others to the cache.
WriteConstant(W, C) ==
  /\ concreteStore' = [o \in Offset |-> IF o \in C THEN W[o] ELSE concreteStore[o]]
  /\ knownSymbolics' = [o \in Offset |->
       IF o \in C THEN None
       ELSE IF o \in DOMAIN W THEN W[o] ELSE knownSymbolics[o]]
  /\ concreteMask' = (concreteMask \ DOMAIN W) \cup C
  /\ flushed' = flushed \ DOMAIN W
  /\ seen' = None
  /\ UNCHANGED updates

\* Mutant: the flush keeps the concrete bytes cached.
WriteAtKeepsConcrete(W) ==
  /\ updates' = Over(W, Flushed)
  /\ knownSymbolics' = [o \in Offset |-> None]
  /\ flushed' = Offset
  /\ seen' = None
  /\ UNCHANGED <<concreteStore, concreteMask>>

\* write(symbolic offset): flushRangeForWrite empties the caches, since any
\* byte may be the one written; the updates get the write.
WriteAt(W) ==
  /\ updates' = Over(W, Flushed)
  /\ concreteMask' = {} /\ knownSymbolics' = [o \in Offset |-> None]
  /\ flushed' = Offset
  /\ seen' = None
  /\ UNCHANGED concreteStore

\* read(unsigned).
ReadConstant(o) == seen' = <<o, Read8(o)>> /\ UNCHANGED <<caches, updates>>

\* read(symbolic offset): flushRangeForRead keeps the caches.
ReadAt(o) ==
  /\ updates' = Flushed
  /\ flushed' = Offset
  /\ seen' = <<o, updates'[o]>>
  /\ UNCHANGED <<concreteStore, concreteMask, knownSymbolics>>

\* AddressSpace::copyInConcretes: the store gets what an external function
\* has left in memory, all else stays.
CopyIn(W) ==
  /\ ExternalFlushed \/ DOMAIN W \cap concreteMask \cap flushed = {}
  /\ concreteStore' = Over(W, concreteStore)
  /\ seen' = None
  /\ UNCHANGED <<concreteMask, knownSymbolics, flushed, updates>>

ObjNext ==
  \/ \E W \in Stores : \E C \in SUBSET DOMAIN W : WriteConstant(W, C)
  \/ \E W \in Stores : WriteAt(W)
  \/ \E W \in Stores : CopyIn(W)
  \/ \E o \in Offset : ReadConstant(o)
  \/ \E o \in Offset : ReadAt(o)

ObjSpec == ObjInit /\ [][ObjNext]_objVars

-----------------------------------------------------------------------------
\* The types of the caches.
ObjTypeOK ==
  /\ concreteStore \in [Offset -> Byte]
  /\ updates \in [Offset -> Byte]
  /\ knownSymbolics \in [Offset -> Byte \cup {None}]
  /\ concreteMask \subseteq Offset /\ flushed \subseteq Offset

\* Memory.cpp:314: a byte is not both concrete and a known symbolic, and one
\* that is not flushed is in a cache; flushRangeForRead, flushRangeForWrite
\* and read8 assert parts of this.
CacheInvariants ==
  \A o \in Offset :
    /\ o \in concreteMask => knownSymbolics[o] = None
    /\ o \notin flushed => o \in concreteMask \/ knownSymbolics[o] # None

\* A byte that counts as flushed is the same in the updates as in the caches,
\* so that a read at a constant offset and one at a symbolic offset agree.
FlushedAgree == \A o \in flushed : updates[o] = Read8(o)

\* A read, at a constant or a symbolic offset, yields the byte the object
\* holds.  After an external call this is what AddressSpace.h:119 promises:
\* "Copy the concrete values of all managed ObjectStates back from the actual
\* system memory location they were allocated at."
ReadsCurrent == seen # None => seen[2] = Read8(seen[1])

\* The two caches and the updates never disagree on a byte that is in use.
CachesAgree == CacheInvariants /\ FlushedAgree /\ ReadsCurrent

Array == INSTANCE ByteArray WITH bytes <- [o \in Offset |-> Read8(o)]

\* With its caches an ObjectState is an array of bytes: what is read is what
\* was last written there, at a constant or a symbolic offset.
ImplementsArray == Array!ArraySpec
=============================================================================
