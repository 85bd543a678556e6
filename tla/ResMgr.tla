------------------------------- MODULE ResMgr -------------------------------
(***************************************************************************)
(* The resource manager of execution states (lib/Core/ExecutionState.cpp). *)
(* A state's ResMgr maps the host descriptors it has opened to FileInfos.  *)
(* Forking a state copies the map and counts one more reference for each   *)
(* FileInfo; the host descriptor is closed when the last state that has it *)
(* closes it or ends.  Numbers of closed descriptors are given out again   *)
(* by the host, the lowest first.                                          *)
(***************************************************************************)
EXTENDS Integers, FiniteSets

CONSTANTS
  States, Root,  \* execution states, and the first one
  Infos,         \* addresses of FileInfos
  Names,         \* files of the host
  HostFds,       \* descriptor numbers the host gives out
  Null

ASSUME ResMgrAssumption ==
  /\ IsFiniteSet(States) /\ Root \in States
  /\ HostFds \subseteq Nat
  /\ Null \notin Infos \cup Names

VARIABLES
  live,   \* states that exist
  files,  \* ResMgr::files of each state: a FileInfo, or Null, by descriptor
  info,   \* the FileInfos; a freed one has no references
  host    \* the descriptor table of the host: a file, or Null

resVars == <<live, files, info, host>>

NoFiles == [f \in HostFds |-> Null]

\* The FileInfos in a state's map.
Held(s) == {i \in Infos : \E f \in HostFds : files[s][f] = i}

ResInit ==
  /\ live = {Root}
  /\ files = [s \in States |-> NoFiles]
  /\ info = [i \in Infos |-> [fd |-> 0, refcnt |-> 0]]
  /\ host = [f \in HostFds |-> Null]

\* The number open() returns: the lowest one that is not in use.
LowestFree(f) ==
  /\ f \in HostFds /\ host[f] = Null
  /\ \A g \in HostFds : host[g] = Null => f <= g

\* Count d more references to each FileInfo in I.
Counted(I, d) ==
  [i \in Infos |-> IF i \in I THEN [fd |-> info[i].fd, refcnt |-> info[i].refcnt + d]
                              ELSE info[i]]

\* Mutant: the first unref closes the descriptor.
UnrefCloses(I) ==
  /\ info' = Counted(I, -1)
  /\ host' = [f \in HostFds |-> IF \E i \in I : info[i].fd = f THEN Null ELSE host[f]]

\* unrefFile for each FileInfo in I: the last reference closes the host's descriptor.
UnrefFiles(I) ==
  /\ info' = Counted(I, -1)
  /\ host' = [f \in HostFds |-> IF \E i \in I : info[i].fd = f /\ info[i].refcnt = 1
                                THEN Null ELSE host[f]]

\* The memory a new FileInfo gets: any that is free, it does not matter which.
FreeInfos == {i \in Infos : info[i].refcnt = 0}
NewInfo == CHOOSE i \in FreeInfos : TRUE

OpenFile(s, n, f) ==
  /\ s \in live /\ LowestFree(f) /\ FreeInfos # {}
  /\ info' = [info EXCEPT ![NewInfo] = [fd |-> f, refcnt |-> 1]]
  /\ files' = [files EXCEPT ![s][f] = NewInfo]
  /\ host' = [host EXCEPT ![f] = n]
  /\ UNCHANGED live

\* A number that is not in the map is left alone ("opened elsewhere?").
CloseFile(s, f) ==
  /\ s \in live
  /\ IF f \in HostFds /\ files[s][f] # Null
     THEN /\ UnrefFiles({files[s][f]})
          /\ files' = [files EXCEPT ![s][f] = Null]
     ELSE UNCHANGED <<files, info, host>>
  /\ UNCHANGED live

\* Mutant: the copy shares the map without counting it.
CopyUncounted(s, t) ==
  /\ s \in live /\ t \in States \ live
  /\ live' = live \cup {t}
  /\ files' = [files EXCEPT ![t] = files[s]]
  /\ UNCHANGED <<info, host>>

\* The copy constructor, when state s is forked.
Copy(s, t) ==
  /\ s \in live /\ t \in States \ live
  /\ live' = live \cup {t}
  /\ files' = [files EXCEPT ![t] = files[s]]
  /\ info' = Counted(Held(s), 1)
  /\ UNCHANGED host

\* The destructor, when state s is deleted.
Destroy(s) ==
  /\ s \in live
  /\ live' = live \ {s}
  /\ UnrefFiles(Held(s))
  /\ files' = [files EXCEPT ![s] = NoFiles]

\* Descriptors the process opens without a ResMgr.
OpenElsewhere(n, f) ==
  /\ LowestFree(f)
  /\ host' = [host EXCEPT ![f] = n]
  /\ UNCHANGED <<live, files, info>>

ResNext ==
  \/ \E s \in States, f \in HostFds : CloseFile(s, f) \/ \E n \in Names : OpenFile(s, n, f)
  \/ \E s \in States : Destroy(s) \/ \E t \in States : Copy(s, t)
  \/ \E n \in Names, f \in HostFds : OpenElsewhere(n, f)

ResSpec == ResInit /\ [][ResNext]_resVars

-----------------------------------------------------------------------------
ResTypeOK ==
  /\ live \subseteq States
  /\ files \in [States -> [HostFds -> Infos \cup {Null}]]
  /\ info \in [Infos -> [fd : Nat, refcnt : Nat]]
  /\ host \in [HostFds -> Names \cup {Null}]

(* A FileInfo counts the live states whose map has it: the host's          *)
(* descriptor is closed neither while a fork still uses it nor too late    *)
(* (ResMgr::ResMgr, ~ResMgr, unrefFile).                                   *)
Users(i) == {s \in live : i \in Held(s)}
CountsExact == \A i \in Infos : info[i].refcnt = Cardinality(Users(i))

\* The files behind a state's descriptors.
FilesOf(s) == [f \in {g \in HostFds : files[s][g] # Null} |-> host[f]]
Opened == [s \in live |-> FilesOf(s)]

Private == INSTANCE PrivateFiles WITH opened <- Opened

(* The ResMgrs implement private files: no step of one state changes which *)
(* file stands behind a descriptor of another.                             *)
FilesPrivate == Private!PFSpec
=============================================================================
