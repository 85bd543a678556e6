----------------------------- MODULE MCConFiles -----------------------------
(***************************************************************************)
(* ConFiles on small sets: two names, of a file of one byte and of one     *)
(* that does not exist yet or that cannot be read as a whole.              *)
(***************************************************************************)
EXTENDS ConFiles, TLC

CONSTANTS
  a, b,                 \* the names
  MaxMoves, MaxChanges  \* bounds on the numbers of calls

VARIABLES moves, changes

File == [kind |-> "file", bytes |-> <<2>>]
Pipe == [kind |-> "pipe", bytes |-> <<>>]
None == [kind |-> "absent", bytes |-> <<>>]
MCDisks == {(a :> File @@ b :> None), (a :> File @@ b :> Pipe), (a :> None @@ b :> File)}
MCHostFds == 3..5

\* All sequences of MaxMoves calls that move bytes, with MaxChanges others among them.
MCInit == Init /\ moves = 0 /\ changes = 0
MCNext ==
  \/ /\ moves < MaxMoves
     /\ \E s \in live : Moves(s)
     /\ moves' = moves + 1 /\ UNCHANGED changes
  \/ /\ changes < MaxChanges
     /\ \E s \in live : Changes(s)
     /\ changes' = changes + 1 /\ UNCHANGED moves
MCSpec == MCInit /\ [][MCNext]_<<vars, moves, changes>>

Symmetry == Permutations(States)

\* What a freed FileInfo still holds tells no states apart.
View == <<live, files, [i \in Infos \ FreeInfos |-> info[i]], host, disk, con, ncon, fds,
          moves, changes>>
=============================================================================
