----------------------------- MODULE ByteArray -----------------------------
(***************************************************************************)
(* What ObjectState promises: it is an array of bytes.                     *)
(***************************************************************************)
CONSTANTS Offset, Byte, None

VARIABLES
  bytes,  \* what the array holds
  seen    \* the last read, <<offset, byte>>, or None after a write

Stores == UNION {[B -> Byte] : B \in SUBSET Offset}

ArrayInit == bytes \in [Offset -> Byte] /\ seen = None

Store(W) ==
  /\ bytes' = [o \in Offset |-> IF o \in DOMAIN W THEN W[o] ELSE bytes[o]]
  /\ seen' = None

Load(o) == seen' = <<o, bytes[o]>> /\ UNCHANGED bytes

ArrayNext == (\E W \in Stores : Store(W)) \/ \E o \in Offset : Load(o)

ArraySpec == ArrayInit /\ [][ArrayNext]_<<bytes, seen>>
=============================================================================
