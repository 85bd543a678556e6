---------------------------- MODULE StateMemory ----------------------------
(***************************************************************************)
(* What AddressSpace promises: every execution state has a memory of its   *)
(* own.  A new state starts with a copy of its parent's memory, and from   *)
(* then on a step of one state changes no memory but that state's.         *)
(***************************************************************************)
CONSTANTS
  Space,      \* address spaces, one for each execution state
  InitSpace,  \* that of the initial state
  Object,     \* memory objects
  Value       \* the contents of an object

VARIABLE mem  \* the memory of each live state: contents by bound object

Memory == UNION {[B -> Value] : B \in SUBSET Object}

MemInit == DOMAIN mem = {InitSpace} /\ mem[InitSpace] \in Memory

MemCopy(s, c) ==
  /\ s \in DOMAIN mem /\ c \in Space \ DOMAIN mem
  /\ mem' = [t \in DOMAIN mem \cup {c} |-> IF t = c THEN mem[s] ELSE mem[t]]

MemDelete(s) ==
  /\ s \in DOMAIN mem
  /\ mem' = [t \in DOMAIN mem \ {s} |-> mem[t]]

\* The memory of s becomes M, all others stay.
Becomes(s, M) ==
  mem' = [t \in DOMAIN mem |-> IF t = s THEN M ELSE mem[t]]

MemBind(s, m, v) ==
  /\ s \in DOMAIN mem
  /\ Becomes(s, [x \in DOMAIN mem[s] \cup {m} |->
                   IF x = m THEN v ELSE mem[s][x]])

MemUnbind(s, m) ==
  /\ s \in DOMAIN mem
  /\ Becomes(s, [x \in DOMAIN mem[s] \ {m} |-> mem[s][x]])

\* The objects in the domain of W, all bound, get the contents W.
MemStore(s, W) ==
  /\ s \in DOMAIN mem /\ DOMAIN W \subseteq DOMAIN mem[s]
  /\ Becomes(s, [x \in DOMAIN mem[s] |->
                   IF x \in DOMAIN W THEN W[x] ELSE mem[s][x]])

MemNext ==
  \/ \E s, c \in Space : MemCopy(s, c)
  \/ \E s \in Space : MemDelete(s)
  \/ \E s \in Space, m \in Object :
       MemUnbind(s, m) \/ \E v \in Value : MemBind(s, m, v)
  \/ \E s \in Space, W \in Memory : MemStore(s, W)

MemSpec == MemInit /\ [][MemNext]_mem
=============================================================================
