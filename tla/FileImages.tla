----------------------------- MODULE FileImages -----------------------------
(***************************************************************************)
(* What the concrete files of the POSIX runtime promise: each execution    *)
(* state has files of its own.  A write changes the bytes it writes and no *)
(* other byte the file had; nothing but a write or a truncation changes a  *)
(* file at all, wherever its bytes are kept.                               *)
(***************************************************************************)
EXTENDS Integers, Sequences

CONSTANTS
  States,    \* execution states
  Slots,     \* the places for files in a state
  Byte,
  MaxSize    \* bound on the size of a file

VARIABLE image  \* for each live state, the file in each slot: [kind, bytes]

FIInit ==
  \E s \in States :
    image = [t \in {s} |-> [c \in Slots |-> [kind |-> "none", bytes |-> <<>>]]]

\* No file but the one in slot c of s is another one after the step.
OnlyChanges(s, c) ==
  LET old == image
      new == image'
  IN /\ DOMAIN new = DOMAIN old
     /\ \A t \in DOMAIN old, d \in Slots : t # s \/ d # c => new[t][d] = old[t][d]

\* Byte b is stored at offset off; what lies between the old end and off is not said.
Written(old, new, off, b) ==
  /\ Len(new) = IF off < Len(old) THEN Len(old) ELSE off + 1
  /\ \A i \in 1..Len(old) : i # off + 1 => new[i] = old[i]
  /\ new[off + 1] = b

Truncated(old, new) == \A i \in 1..Len(new) : i <= Len(old) => new[i] = old[i]

FIWrite(s, c) ==
  LET old == image[s][c]
      new == image'[s][c]
  IN /\ old.kind = "bytes" /\ new.kind = "bytes"
     /\ \/ Truncated(old.bytes, new.bytes)
        \/ \E off \in 0..MaxSize, b \in Byte : Written(old.bytes, new.bytes, off, b)

FIChange(s, c) ==
  /\ OnlyChanges(s, c)
  /\ \/ image[s][c].kind = "none"    \* a new file
     \/ image'[s][c].kind = "none"   \* the file is removed
     \/ FIWrite(s, c)

FIFork(s, t) ==
  /\ s \in DOMAIN image /\ t \notin DOMAIN image
  /\ image' = [u \in DOMAIN image \cup {t} |-> IF u = t THEN image[s] ELSE image[u]]

FIEnd(s) ==
  /\ s \in DOMAIN image
  /\ image' = [u \in DOMAIN image \ {s} |-> image[u]]

FINext ==
  \/ \E s \in DOMAIN image, c \in Slots : FIChange(s, c)
  \/ \E s \in States : FIEnd(s) \/ \E t \in States : FIFork(s, t)

FISpec == FIInit /\ [][FINext]_image
=============================================================================
