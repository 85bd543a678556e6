----------------------------- MODULE MCCheckers -----------------------------
(***************************************************************************)
(* Checkers on small sets, one rule at a time with the calls it is about,  *)
(* and the default set of rules together on calls they share.              *)
(***************************************************************************)
EXTENDS Checkers, TLC

CONSTANTS
  MaxCalls, \* bound on the calls of a program that is one path
  MaxForked \* bound on the calls of a program that forks, on its two paths in all

VARIABLES calls, paths

MCFds == {3, 4}
Uses(rules, modes, sites, fs) ==
  {[rules |-> rules, mode |-> m, calls |-> fs, sites |-> sites] : m \in modes}
AllModes == {"external", "interpreted", "sliced"}
FdCalls == {"open", "fopen", "fdopen", "fclose", "write", "close"}
MCSetups ==
  Uses({"OpenClose"}, AllModes, {1, 2}, {"fopen", "fdopen", "open", "fclose", "close_stdout"})
  \cup Uses({"File"}, AllModes, {1}, {"fopen", "fclose", "fread", "fwrite", "fgetc", "ferror", "clearerr"})
  \cup Uses({"Lock"}, {"external"}, {1}, {"init", "lock", "unlock", "destroy"})
  \cup Uses({"DataLoss"}, AllModes, {1},
            {"open", "fopen", "fdopen", "fileno", "fwrite", "write", "fflush", "fclose", "close",
             "fsync", "rename", "unlink"})
  \cup Uses({"SOC"}, AllModes, {1, 2}, FdCalls)
  \cup Uses({"SOCR"}, {"interpreted"}, {1, 2}, FdCalls)
  \cup Uses({"Leak"}, AllModes, {1}, {"malloc", "realloc", "strdup", "getline", "ignored"})
  \cup Uses({"OpenClose", "Lock", "File", "DataLoss", "SOC"}, AllModes, {1},
            {"fopen", "fwrite", "fclose", "init"})

\* Rules that record what they report are checked on two paths.
Forks == setup.rules \cap {"OpenClose", "SOC", "SOCR"} # {}

MCInit == Init /\ calls = 0 /\ paths = 1
MCNext ==
  \/ \E p \in live :
       /\ calls < IF Forks THEN MaxForked ELSE MaxCalls
       /\ \/ FileCalls(p)
          \/ \E t \in Threads, m \in Mutexes, f \in {"init", "lock", "unlock", "destroy"} :
               MutexCall(p, t, f, m)
          \/ HeapCalls(p)
       /\ calls' = calls + 1 /\ UNCHANGED paths
  \/ \E p \in live, q \in Paths :
       /\ Forks /\ paths = 1
       /\ Fork(p, q)
       /\ paths' = 2 /\ UNCHANGED calls
  \/ \E p \in live, place \in Places :
       Exit(p, place) /\ UNCHANGED <<calls, paths>>
MCSpec == MCInit /\ [][MCNext]_<<vars, calls, paths>>

Symmetry == Permutations(Paths) \cup Permutations(Threads) \cup Permutations(Places)
=============================================================================
