--------------------------- MODULE ExecutorStates ---------------------------
(***************************************************************************)
(* The life of execution states in lib/Core/Executor.cpp: the main loop    *)
(* run(), the sets states, addedStates and removedStates, the searcher,    *)
(* the seed map, the process tree and the branch tree, as states fork,     *)
(* terminate, are pruned by the path slicer, and are deleted.              *)
(*                                                                         *)
(* One instruction is several steps: the handler holds pointers to states  *)
(* and forks, terminates or abandons them.  A state is its address; the    *)
(* address of a deleted state may be used again.                           *)
(***************************************************************************)
EXTENDS PathTree

CONSTANTS NoState,           \* the null pointer
          Seeding,           \* run() is given seeds
          OnlySeed,          \* -only-seed: stop when the seeds are used up
          MarkPrunedOnly,    \* -mark-pruned-only: flag pruned states, go on
          DumpStatesOnHalt,  \* -dump-states-on-halt
          SymbolicCalls,     \* calls through a symbolic function pointer occur
          ExternalTargets    \* ... and may resolve to an external function

ASSUME NoStateAssumption == NoState \notin State
ASSUME OptionAssumption ==
  {Seeding, OnlySeed, MarkPrunedOnly, DumpStatesOnHalt, SymbolicCalls,
   ExternalTargets} \subseteq BOOLEAN

VARIABLES
  states, addedStates, removedStates,  \* the sets of class Executor
  seedMap,        \* the states that still have seeds
  searcher,       \* the states the searcher can select
  alloc,          \* the ExecutionState objects that exist
  ptree,          \* the states that own a leaf of the process tree
  isPruned,       \* the states whose flag isPruned is set
  phase,          \* "seed": no searcher yet; "search"; "dump"; "done"
  pc,             \* where run() is in an iteration of its loop
  current,        \* the state whose instruction is executed
  hand,           \* the states the instruction handler still works on
  free,           \* symbolic call: the state left to resolve, or NoState
  symcall,        \* the instruction is a call through a symbolic pointer
  handler,        \* what the code being executed may do, see below
  callee,         \* the state callExternalFunction was entered with
  haltExecution,
  fault           \* "none", a failed assert, or a use of a deleted state

heap == <<addedStates, removedStates, seedMap, alloc, ptree, isPruned, path>>
instr == <<current, hand, free, symcall, handler, callee>>
vars == <<states, searcher, heap, phase, pc, instr, haltExecution, fault>>

Handler == {"none", "plain", "exit", "call"}

\* The step run() is at; nothing happens after a fault.
At(step) == pc = step /\ fault = "none"

Live == states \cup addedStates

-----------------------------------------------------------------------------
(* What using states may run into.                                         *)

\* The fault, if any, of reading the objects S.
Touch(S) == IF S \subseteq alloc THEN fault ELSE "use of deleted state"

\* The fault of taking S out of the process tree and the branch tree, or of
\* adding a branch below S: PTree and BranchTree assert that S is there.
TreesHold(S, f) ==
  IF S \subseteq ptree \cap DOMAIN path THEN f ELSE "assert"

Init ==
  /\ PathInit
  /\ states = {InitState} /\ addedStates = {} /\ removedStates = {}
  /\ seedMap = IF Seeding THEN {InitState} ELSE {}
  /\ searcher = IF Seeding THEN {} ELSE {InitState}
  /\ alloc = {InitState} /\ ptree = {InitState} /\ isPruned = {}
  /\ phase = IF Seeding THEN "seed" ELSE "search"
  /\ pc = "select"
  /\ current = NoState /\ hand = {} /\ free = NoState /\ symcall = FALSE
  /\ handler = "none" /\ callee = NoState
  /\ haltExecution = FALSE /\ fault = "none"

-----------------------------------------------------------------------------
(* run(): choosing a state, and leaving the loop.                          *)

\* haltExecution is set by signals and timers at any moment.
SetHaltExecution ==
  /\ ~haltExecution /\ phase # "done" /\ fault = "none"
  /\ haltExecution' = TRUE
  /\ UNCHANGED <<states, searcher, heap, phase, pc, instr, fault>>

\* The seed phase picks from the seed map, the main loop asks the searcher.
\* The instruction forks and terminates states ("plain"), ends the program
\* ("exit": the last return), or calls an external function ("call").
SelectState(s, h, sym) ==
  /\ At("select") /\ ~haltExecution
  /\ \/ phase = "seed" /\ s \in seedMap
     \/ phase = "search" /\ states # {} /\ s \in searcher
  /\ sym => SymbolicCalls /\ h = (IF ExternalTargets THEN "call" ELSE "none")
  /\ ~sym => h # "none"
  /\ handler' = h
  /\ pc' = "exec" /\ current' = s /\ symcall' = sym /\ callee' = NoState
  /\ hand' = IF sym THEN {} ELSE {s}
  /\ free' = IF sym THEN s ELSE NoState
  /\ fault' = Touch({s})
  /\ UNCHANGED <<states, searcher, heap, phase, haltExecution>>

\* All seeds are used up, or the time for seeding is over.
SeedingDone ==
  /\ At("select") /\ phase = "seed" /\ ~haltExecution
  /\ IF OnlySeed
       THEN phase' = "dump" /\ UNCHANGED searcher
       ELSE phase' = "search" /\ searcher' = states
  /\ UNCHANGED <<states, heap, pc, instr, haltExecution, fault>>

\* Mutant: the loop does not look at haltExecution.
LeaveLoopWhenEmpty ==
  /\ At("select") /\ phase = "search" /\ states = {}
  /\ phase' = "dump" /\ searcher' = {}
  /\ UNCHANGED <<states, heap, pc, instr, haltExecution, fault>>

LeaveLoop ==
  /\ At("select") /\ phase \in {"seed", "search"}
  /\ haltExecution \/ (phase = "search" /\ states = {})
  /\ phase' = "dump" /\ searcher' = {}
  /\ UNCHANGED <<states, heap, pc, instr, haltExecution, fault>>

-----------------------------------------------------------------------------
(* What an instruction does to states.                                     *)

\* Mutant: the test for addedStates is dropped, every state waits.
TerminateStateLate(S) ==
  /\ removedStates' = removedStates \cup S
  /\ fault' = Touch(S)
  /\ UNCHANGED <<addedStates, seedMap, alloc, ptree, isPruned, path>>

\* Mutant: the process tree and the branch tree keep the deleted state.
TerminateStateKeepsLeaf(S) ==
  LET now == S \cap addedStates
  IN /\ addedStates' = addedStates \ now
     /\ removedStates' = removedStates \cup (S \ now)
     /\ seedMap' = seedMap \ now /\ alloc' = alloc \ now
     /\ isPruned' = isPruned \ now
     /\ fault' = Touch(S)
     /\ UNCHANGED <<ptree, path>>

\* terminateState for each state of S: one that never reached the searcher is
\* deleted on the spot, the others wait in removedStates.
TerminateState(S) ==
  LET now == S \cap addedStates
  IN /\ addedStates' = addedStates \ now
     /\ removedStates' = removedStates \cup (S \ now)
     /\ seedMap' = seedMap \ now
     /\ alloc' = alloc \ now
     /\ ptree' = ptree \ now
     /\ isPruned' = isPruned \ now
     /\ path' = Detach(path, now)
     /\ fault' = TreesHold(now, Touch(S))

\* ExecutionState::branch and the bookkeeping of fork() and branch(): the copy
\* c of s is only in addedStates; each of s and c gets some of the seeds of s.
BranchState(s, c, i) ==
  /\ c \in State \ alloc
  /\ MayBranchAt(Decisions(path, s), i)
  /\ addedStates' = addedStates \cup {c}
  /\ alloc' = alloc \cup {c}
  /\ ptree' = ptree \cup {c}
  /\ path' = Branch(path, s, i, c)
  /\ isPruned' = IF s \in isPruned THEN isPruned \cup {c} ELSE isPruned
  /\ IF s \in seedMap
       THEN \E K \in {{s}, {c}, {s, c}} : seedMap' = (seedMap \ {s}) \cup K
       ELSE UNCHANGED seedMap
  /\ fault' = TreesHold({s}, Touch({s}))
  /\ UNCHANGED removedStates

\* fork() beyond -max-depth: the copy is made, and both are terminated.
BranchTooDeep(s, c, i) ==
  LET now == {s} \cap addedStates
  IN /\ c \in State \ alloc
     /\ MayBranchAt(Decisions(path, s), i)
     /\ addedStates' = addedStates \ now
     /\ removedStates' = removedStates \cup ({s} \ now)
     /\ alloc' = alloc \ now
     /\ ptree' = ptree \ now
     /\ isPruned' = isPruned \ now
     /\ path' = Detach(Branch(path, s, i, c), now \cup {c})
     /\ seedMap' \in {seedMap \ now, seedMap \ {s}}
     /\ fault' = TreesHold({s}, Touch({s}))

\* fork() with both sides feasible; branch() is a series of these.
Fork(s, c, i) ==
  /\ At("exec") /\ handler = "plain" /\ s \in hand
  /\ BranchState(s, c, i)
  /\ hand' = hand \cup {c}
  /\ UNCHANGED <<states, searcher, phase, pc, current, free, symcall, handler,
                 callee, haltExecution>>

ForkTooDeep(s, c, i) ==
  /\ At("exec") /\ handler = "plain" /\ s \in hand
  /\ BranchTooDeep(s, c, i)
  /\ hand' = hand \ {s}
  /\ UNCHANGED <<states, searcher, phase, pc, current, free, symcall, handler,
                 callee, haltExecution>>

\* terminateStateOnError, terminateStateEarly (a query timed out, ...),
\* terminateState in branch() for a state that got no seeds.
Terminate(s) ==
  /\ At("exec") /\ s \in hand
  /\ TerminateState({s})
  /\ hand' = hand \ {s}
  /\ UNCHANGED <<states, searcher, phase, pc, current, free, symcall, handler,
                 callee, haltExecution>>

\* Mutant: the victims are flagged, but never terminated.
AtOnceFlagOnly(victims) == {}

\* The victims slicingAndPruneStates hands to terminateStateAtOnce.
AtOnce(victims) == IF MarkPrunedOnly THEN {} ELSE victims

\* terminateStateOnExit: slicingAndPruneStates with the indices I the slicer
\* removed from the path of s, terminateStateAtOnce for each victim, and then
\* terminateState.  Victims are unlinked everywhere but not deleted.
TerminateOnExit(s, I) ==
  LET victims == IF s \in isPruned THEN {} ELSE Pruned(path, s, I)
      gone    == AtOnce(victims)
      now     == {s} \cap addedStates
      unknown == phase = "search" /\ ~(gone \subseteq searcher)
  IN /\ At("exec") /\ handler = "exit" /\ s \in hand
     /\ I \subseteq {Decisions(path, s)[k].idx : k \in DOMAIN Decisions(path, s)}
     /\ searcher' = searcher \ gone
     /\ states' = states \ gone
     /\ addedStates' = addedStates \ (gone \cup now)
     /\ removedStates' = (removedStates \ gone) \cup ({s} \ now)
     /\ seedMap' = seedMap \ (gone \cup now)
     /\ ptree' = ptree \ (gone \cup now)
     /\ path' = Detach(path, gone \cup now)
     /\ isPruned' = (isPruned \cup victims) \ now
     /\ alloc' = alloc \ now
     /\ fault' = IF unknown THEN "assert"
                 ELSE TreesHold({s} \cup gone, Touch({s} \cup gone))
     /\ hand' = hand \ {s}
     /\ UNCHANGED <<phase, pc, current, free, symcall, handler, callee,
                    haltExecution>>

-----------------------------------------------------------------------------
(* Calls.                                                                  *)

\* callExternalFunction enters the handler of a special function with state s;
\* the one of exit() is handleExit.
CallExternal(s, h) ==
  /\ At("exec") /\ handler = "call" /\ hand = {s}
  /\ h \in {"plain", "exit"}
  /\ handler' = h /\ callee' = s
  /\ UNCHANGED <<states, searcher, heap, phase, pc, current, hand, free,
                 symcall, haltExecution, fault>>

\* The handler returns and callExternalFunction asks the checkers about the
\* same state; an error terminates it, a second time if the handler did so.
ReturnExternal(error) ==
  /\ At("exec") /\ callee # NoState
  /\ IF error THEN TerminateState({callee})
              ELSE fault' = Touch({callee}) /\ UNCHANGED heap
  /\ callee' = NoState /\ hand' = {}
  /\ handler' = IF symcall THEN "call" ELSE "none"
  /\ UNCHANGED <<states, searcher, phase, pc, current, free, symcall,
                 haltExecution>>

\* One round of the loop over the targets of a symbolic pointer: fork() sends
\* one state to the call and leaves the other, in either order, for the next.
ResolveTarget(c, i) ==
  /\ At("exec") /\ free # NoState /\ callee = NoState
  /\ BranchState(free, c, i)
  /\ \E t \in {free, c} : hand' = {t} /\ free' \in {free, c} \ {t}
  /\ UNCHANGED <<states, searcher, phase, pc, current, symcall, handler,
                 callee, haltExecution>>

\* The last round: one target is left, or fork() fails.
ResolveLast(timeout) ==
  /\ At("exec") /\ free # NoState /\ callee = NoState
  /\ IF timeout
       THEN TerminateState({free}) /\ hand' = {}
       ELSE hand' = {free} /\ fault' = Touch({free}) /\ UNCHANGED heap
  /\ free' = NoState
  /\ UNCHANGED <<states, searcher, phase, pc, current, symcall, handler,
                 callee, haltExecution>>

ResolveTooDeep(c, i) ==
  /\ At("exec") /\ free # NoState /\ callee = NoState
  /\ BranchTooDeep(free, c, i)
  /\ hand' = {} /\ free' = NoState
  /\ UNCHANGED <<states, searcher, phase, pc, current, symcall, handler,
                 callee, haltExecution>>

\* The target of the state in hand is no function: the code terminates the
\* state the instruction started with, whichever state it resolved.
InvalidTarget ==
  /\ At("exec") /\ symcall /\ callee = NoState /\ hand # {}
  /\ TerminateState({current})
  /\ hand' = {}
  /\ UNCHANGED <<states, searcher, phase, pc, current, free, symcall, handler,
                 callee, haltExecution>>

-----------------------------------------------------------------------------
(* The rest of an iteration of the loop.                                   *)

EndInstruction ==
  /\ At("exec") /\ callee = NoState /\ free = NoState
  /\ pc' = "timers" /\ hand' = {} /\ symcall' = FALSE /\ handler' = "none"
  /\ UNCHANGED <<states, searcher, heap, phase, current, free, callee,
                 haltExecution, fault>>

\* processTimers: an instruction beyond -max-instruction-time is terminated
\* unless it already has been; the seed loop has no check of the memory.
ProcessTimers(late) ==
  /\ At("timers")
  /\ IF late /\ current \notin removedStates
       THEN TerminateState({current})
       ELSE UNCHANGED <<heap, fault>>
  /\ pc' = IF phase = "seed" THEN "update" ELSE "memory"
  /\ UNCHANGED <<states, searcher, phase, instr, haltExecution>>

\* Over -max-memory, some of the states are killed, whether or not this
\* instruction has terminated them.
CheckMemory(K) ==
  /\ At("memory") /\ K \subseteq states
  /\ TerminateState(K)
  /\ pc' = "update"
  /\ UNCHANGED <<states, searcher, phase, instr, haltExecution>>

\* Mutant: the removed states are not deleted.
UpdateStatesLeaks(cur) ==
  /\ searcher' = IF phase = "search"
                   THEN (searcher \cup addedStates) \ removedStates
                   ELSE searcher
  /\ states' = (states \cup addedStates) \ removedStates
  /\ addedStates' = {} /\ removedStates' = {}
  /\ seedMap' = seedMap \ removedStates
  /\ ptree' = ptree \ removedStates
  /\ path' = Detach(path, removedStates)
  /\ UNCHANGED <<alloc, isPruned, fault>>

\* Mutant: the searcher is not told of the added states.
UpdateStatesHidesAdded(cur) ==
  /\ searcher' = searcher \ removedStates
  /\ states' = (states \cup addedStates) \ removedStates
  /\ addedStates' = {} /\ removedStates' = {}
  /\ seedMap' = seedMap \ removedStates
  /\ ptree' = ptree \ removedStates
  /\ path' = Detach(path, removedStates)
  /\ alloc' = alloc \ removedStates
  /\ isPruned' = isPruned \ removedStates
  /\ UNCHANGED fault

\* updateStates(cur): a pruned current state is discarded, and what has been
\* added and removed waits for the next call.  The searcher asserts that it
\* knows the removed states, and so does the set of states.
UpdateStates(cur) ==
  IF cur \in isPruned /\ ~MarkPrunedOnly
    THEN UNCHANGED <<states, searcher, heap, fault>>
    ELSE /\ searcher' = IF phase = "search"
                          THEN (searcher \cup addedStates) \ removedStates
                          ELSE searcher
         /\ states' = (states \cup addedStates) \ removedStates
         /\ addedStates' = {} /\ removedStates' = {}
         /\ seedMap' = seedMap \ removedStates
         /\ ptree' = ptree \ removedStates
         /\ path' = Detach(path, removedStates)
         /\ isPruned' = isPruned \ removedStates
         /\ alloc' = alloc \ removedStates
         /\ fault' =
              IF /\ phase = "search" => removedStates \subseteq searcher
                 /\ removedStates \subseteq Live
                THEN TreesHold(removedStates, Touch(removedStates))
                ELSE "assert"

EndIteration ==
  /\ At("update") /\ phase \in {"seed", "search"}
  /\ UpdateStates(current)
  /\ pc' = "select" /\ current' = NoState
  /\ UNCHANGED <<phase, hand, free, symcall, handler, callee, haltExecution>>

\* The label dump: the remaining states are terminated and deleted.
DumpStates ==
  /\ At("select") /\ phase = "dump"
  /\ IF DumpStatesOnHalt /\ states # {}
       THEN TerminateState(states) /\ pc' = "update"
       ELSE UNCHANGED <<heap, fault>> /\ pc' = "done"
  /\ phase' = IF pc' = "done" THEN "done" ELSE phase
  /\ UNCHANGED <<states, searcher, instr, haltExecution>>

FinishDump ==
  /\ At("update") /\ phase = "dump"
  /\ UpdateStates(NoState)
  /\ pc' = "done" /\ phase' = "done"
  /\ UNCHANGED <<instr, haltExecution>>

\* run() has returned, or the process has aborted.
Stopped == (phase = "done" \/ fault # "none") /\ UNCHANGED vars

Instruction ==
  \/ \E s, c \in State, i \in Idx : Fork(s, c, i) \/ ForkTooDeep(s, c, i)
  \/ \E s \in State : Terminate(s)
  \/ \E s \in State, h \in Handler : CallExternal(s, h)
  \/ \E s \in State, I \in SUBSET Idx : TerminateOnExit(s, I)
  \/ \E error \in BOOLEAN : ReturnExternal(error)
  \/ \E c \in State, i \in Idx : ResolveTarget(c, i) \/ ResolveTooDeep(c, i)
  \/ \E timeout \in BOOLEAN : ResolveLast(timeout)
  \/ InvalidTarget
  \/ EndInstruction

MainLoop ==
  \/ \E s \in State, h \in Handler, sym \in BOOLEAN : SelectState(s, h, sym)
  \/ SeedingDone
  \/ LeaveLoop
  \/ \E late \in BOOLEAN : ProcessTimers(late)
  \/ \E K \in SUBSET State : CheckMemory(K)
  \/ EndIteration
  \/ DumpStates
  \/ FinishDump

Next == Instruction \/ MainLoop \/ SetHaltExecution \/ Stopped

Spec == Init /\ [][Next]_vars

\* Every handler returns and run() goes on: the loops in a handler run over
\* finite lists, so an instruction ends; nothing makes haltExecution true.
FairSpec ==
  /\ Spec
  /\ WF_vars(MainLoop)
  /\ WF_vars(EndInstruction)
  /\ WF_vars(ReturnExternal(FALSE))
  /\ WF_vars(ResolveLast(FALSE))

-----------------------------------------------------------------------------
\* The types of the sets and maps of the executor and of the step it is at.
TypeOK ==
  /\ PathTypeOK
  /\ states \subseteq State /\ addedStates \subseteq State
  /\ removedStates \subseteq State /\ seedMap \subseteq State
  /\ searcher \subseteq State /\ alloc \subseteq State
  /\ ptree \subseteq State /\ isPruned \subseteq State
  /\ hand \subseteq State
  /\ phase \in {"seed", "search", "dump", "done"}
  /\ pc \in {"select", "exec", "timers", "memory", "update", "done"}
  /\ current \in State \cup {NoState} /\ free \in State \cup {NoState}
  /\ callee \in State \cup {NoState}
  /\ symcall \in BOOLEAN /\ handler \in Handler /\ haltExecution \in BOOLEAN
  /\ fault \in {"none", "assert", "use of deleted state"}

\* No assert of Searcher::update, updateStates, PTree or BranchTree fails, and
\* no deleted state is used (Executor.cpp:2587, 2598, PTree.cpp, BranchTree.cpp).
NoFault == fault = "none"

\* Executor.cpp:1165: "state may be destroyed by this call, cannot touch".
DestroyedNotTouched == fault # "use of deleted state"

\* Executor.h:117,121,122: a state is not both added and removed, and only
\* known states are removed; a state is added once (so addedStates is no subset
\* of states, whatever Executor.h:116 says).
AddedRemovedDisjoint ==
  /\ addedStates \cap removedStates = {}
  /\ removedStates \subseteq states
  /\ addedStates \cap states = {}

\* A state object exists as long as run() can still reach it, and no longer:
\* the only objects that outlive their membership are pruned ones, which
\* terminateStateAtOnce does not delete (Executor.cpp:4067).
NoLostState == /\ Live \subseteq alloc
               /\ alloc \ Live \subseteq isPruned

\* When run() returns, with -dump-states-on-halt, every state that was not
\* pruned has been terminated and deleted: no path is lost on the way.
NothingLeftBehind ==
  phase = "done" /\ DumpStatesOnHalt => alloc \subseteq isPruned

\* No state is lost, deleted too early or left undeleted, however forks,
\* prunings and terminations follow each other before the next updateStates().
StatesAccounted == AddedRemovedDisjoint /\ NoLostState /\ NothingLeftBehind

\* The process tree and the branch tree have a leaf for each live state, and no
\* state at an inner node; the indices along the branch tree never decrease.
TreesMatchStates ==
  /\ ptree = Live /\ DOMAIN path = Live
  /\ LeavesOnly /\ IndicesOrdered

\* Between two instructions the searcher knows exactly the states there are,
\* so selectState finds one while states is not empty; when seeding, the seeds
\* are those of live states only (the key of seedMap is a raw pointer).
SelectsLive ==
  /\ phase = "search" /\ pc = "select" => searcher = states
  /\ seedMap \subseteq Live

\* A pruned state is not executed again, unless they are only marked.
PrunedStatesStop ==
  ~MarkPrunedOnly => isPruned \cap (Live \cup hand \cup {current}) = {}

\* After haltExecution, run() returns.
HaltStops == haltExecution ~> phase = "done"
=============================================================================
