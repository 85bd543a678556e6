--------------------------- MODULE ConFilesProofs ---------------------------
(***************************************************************************)
(* The reference counts of ResMgr are exact, and the descriptors of a      *)
(* state are its own.  The files of the POSIX runtime use the ResMgrs      *)
(* properly: what is proved of ResMgr holds of the whole, and every        *)
(* descriptor of the program reads the file it was opened on as long as no *)
(* open file is removed.  All this for any number of states, files, slots  *)
(* and descriptors.                                                        *)
(***************************************************************************)
EXTENDS ConFiles, FiniteSetTheorems, TLAPS

\* A FileInfo in use stands for one descriptor, which is open, and no other does.
InUse(i) == info[i].refcnt > 0
Distinct ==
  \A i, j \in Infos : InUse(i) /\ InUse(j) /\ info[i].fd = info[j].fd => i = j
UsedIsOpen == \A i \in Infos : InUse(i) => info[i].fd \in HostFds /\ host[info[i].fd] # Null
HeldByNumber == \A s \in live, f \in HostFds : files[s][f] # Null => info[files[s][f]].fd = f

RInv == ResTypeOK /\ CountsExact /\ Distinct /\ UsedIsOpen /\ HeldByNumber

\* The users of a FileInfo are finitely many.
LEMMA UsersFinite ==
  ASSUME ResTypeOK, NEW i \in Infos
  PROVE  IsFiniteSet(Users(i)) /\ Cardinality(Users(i)) \in Nat
  <1>1. Users(i) \subseteq States
    BY DEF ResTypeOK, Users
  <1> QED BY <1>1, ResMgrAssumption, FS_Subset, FS_CardinalityType

\* A FileInfo that a live state holds is in use, and is an address.
LEMMA HeldInUse ==
  ASSUME RInv, NEW s \in live, NEW f \in HostFds, files[s][f] # Null
  PROVE  files[s][f] \in Infos /\ files[s][f] \in Held(s) /\ InUse(files[s][f])
  <1>1. files[s][f] \in Infos /\ files[s][f] \in Held(s)
    BY DEF RInv, ResTypeOK, Held
  <1>2. s \in Users(files[s][f])
    BY <1>1 DEF Users
  <1>3. Cardinality(Users(files[s][f])) # 0
    BY <1>1, <1>2, UsersFinite, FS_EmptySet DEF RInv
  <1> QED BY <1>1, <1>3, UsersFinite DEF RInv, CountsExact, InUse

\* The two ways a set of users changes.
LEMMA OneUserMore ==
  ASSUME NEW U, IsFiniteSet(U), NEW t, t \notin U
  PROVE  Cardinality(U \cup {t}) = Cardinality(U) + 1
  BY FS_AddElement

\* One user less, one reference less.
LEMMA OneUserLess ==
  ASSUME NEW U, IsFiniteSet(U), NEW t \in U
  PROVE  Cardinality(U \ {t}) = Cardinality(U) - 1
  BY FS_RemoveElement

\* At first no FileInfo is in use.
LEMMA RInvInit == ResInit => RInv
  <1> SUFFICES ASSUME ResInit PROVE RInv
    OBVIOUS
  <1>1. ResTypeOK
    BY ResMgrAssumption DEF ResInit, ResTypeOK, NoFiles
  <1>2. \A i \in Infos : Users(i) = {}
    BY ResMgrAssumption DEF ResInit, Users, Held, NoFiles
  <1>3. CountsExact
    BY <1>2, FS_EmptySet, Zenon DEF CountsExact, ResInit
  <1> QED BY <1>1, <1>3, ResMgrAssumption
        DEF RInv, ResInit, Distinct, UsedIsOpen, HeldByNumber, InUse, NoFiles

-----------------------------------------------------------------------------
\* ResMgr::openFile gives a new FileInfo one user.
LEMMA OpenFileKeeps ==
  ASSUME RInv, NEW s \in States, NEW n \in Names, NEW f \in HostFds, OpenFile(s, n, f)
  PROVE  RInv'
  <1>0. PICK i \in Infos : i = NewInfo /\ info[i].refcnt = 0
    BY DEF OpenFile, FreeInfos, NewInfo
  <1>1. /\ s \in live /\ host[f] = Null /\ live' = live
        /\ info' = [info EXCEPT ![i] = [fd |-> f, refcnt |-> 1]]
        /\ files' = [files EXCEPT ![s][f] = i]
        /\ host' = [host EXCEPT ![f] = n]
    BY <1>0 DEF OpenFile, LowestFree
  <1>2. ResTypeOK'
    BY <1>0, <1>1, ResMgrAssumption DEF RInv, ResTypeOK
  <1>3. files[s][f] = Null
    BY <1>1, HeldInUse DEF RInv, UsedIsOpen, HeldByNumber
  <1>4. Users(i) = {}
    BY <1>0, UsersFinite, FS_EmptySet DEF RInv, CountsExact
  <1>5. Users(i)' = {s}
    BY <1>0, <1>1, <1>4 DEF RInv, ResTypeOK, Users, Held
  <1>6. \A j \in Infos : j # i => Users(j)' = Users(j)
    <2> SUFFICES ASSUME NEW j \in Infos, j # i PROVE Users(j)' = Users(j)
      OBVIOUS
    <2>1. \A t \in live, g \in HostFds : files'[t][g] = j <=> files[t][g] = j
      BY <1>0, <1>1, <1>3, ResMgrAssumption DEF RInv, ResTypeOK
    <2> QED BY <1>1, <2>1 DEF Users, Held
  <1>7. CountsExact'
    <2>1. info'[i].refcnt = 1 /\ \A j \in Infos : j # i => info'[j] = info[j]
      BY <1>0, <1>1 DEF RInv, ResTypeOK
    <2>2. Cardinality({s}) = 1
      BY FS_Singleton
    <2> QED BY <1>5, <1>6, <2>1, <2>2 DEF RInv, CountsExact
  <1>8. Distinct' /\ UsedIsOpen'
    BY <1>0, <1>1, ResMgrAssumption DEF RInv, ResTypeOK, Distinct, UsedIsOpen, InUse
  <1>9. HeldByNumber'
    <2> SUFFICES ASSUME NEW t \in live, NEW g \in HostFds, files'[t][g] # Null
                 PROVE  info'[files'[t][g]].fd = g
      BY <1>1 DEF HeldByNumber
    <2>1. CASE t = s /\ g = f
      BY <1>0, <1>1, <2>1 DEF RInv, ResTypeOK
    <2>2. CASE ~(t = s /\ g = f)
      <3>1. files'[t][g] = files[t][g]
        BY <1>1, <2>2 DEF RInv, ResTypeOK
      <3>2. files[t][g] \in Infos /\ files[t][g] # i
        BY <1>0, <3>1, HeldInUse DEF InUse
      <3> QED BY <1>0, <1>1, <3>1, <3>2 DEF RInv, ResTypeOK, HeldByNumber
    <2> QED BY <2>1, <2>2
  <1> QED BY <1>2, <1>7, <1>8, <1>9 DEF RInv

\* A descriptor that the process itself opens is no state's.
LEMMA OpenElsewhereKeeps ==
  ASSUME RInv, NEW n \in Names, NEW f \in HostFds, OpenElsewhere(n, f)
  PROVE  RInv'
  <1>1. ResTypeOK' /\ Distinct' /\ UsedIsOpen' /\ HeldByNumber'
    BY ResMgrAssumption DEF RInv, ResTypeOK, OpenElsewhere, LowestFree, Distinct, UsedIsOpen,
       HeldByNumber, InUse
  <1>2. CountsExact'
    BY DEF RInv, CountsExact, OpenElsewhere, Users, Held
  <1> QED BY <1>1, <1>2 DEF RInv

\* What giving the references of I back does, if s loses exactly these.
LEMMA UnrefKeeps ==
  ASSUME RInv, NEW s \in live, NEW I \in SUBSET Infos, I \subseteq Held(s), UnrefFiles(I),
         \A i \in I : Users(i)' = Users(i) \ {s},
         \A i \in Infos \ I : Users(i)' = Users(i)
  PROVE  /\ info' \in [Infos -> [fd : Nat, refcnt : Nat]]
         /\ host' \in [HostFds -> Names \cup {Null}]
         /\ \A i \in Infos : info'[i].fd = info[i].fd
         /\ CountsExact' /\ Distinct' /\ UsedIsOpen'
  <1>0. \A i \in I : InUse(i) /\ s \in Users(i)
    <2> SUFFICES ASSUME NEW i \in I PROVE InUse(i) /\ s \in Users(i)
      OBVIOUS
    <2>1. PICK f \in HostFds : files[s][f] = i
      BY DEF Held
    <2>2. i \in Infos /\ i # Null
      BY ResMgrAssumption
    <2> QED BY <2>1, <2>2, HeldInUse DEF Users
  <1>a. \A i \in Infos : info[i].fd \in Nat /\ info[i].refcnt \in Nat
    BY DEF RInv, ResTypeOK
  <1>b. \A i \in I : info[i].refcnt - 1 \in Nat
    BY <1>0, <1>a DEF InUse
  <1>1. \A i \in I : /\ info'[i].fd = info[i].fd /\ info'[i].refcnt = info[i].refcnt - 1
                     /\ info'[i] \in [fd : Nat, refcnt : Nat]
    <2> SUFFICES ASSUME NEW i \in I
                 PROVE  /\ info'[i].fd = info[i].fd /\ info'[i].refcnt = info[i].refcnt - 1
                        /\ info'[i] \in [fd : Nat, refcnt : Nat]
      OBVIOUS
    <2>1. info'[i] = [fd |-> info[i].fd, refcnt |-> info[i].refcnt + (-1)]
      BY DEF UnrefFiles, Counted
    <2>2. info[i].refcnt + (-1) = info[i].refcnt - 1
      BY <1>a
    <2> QED BY <1>a, <1>b, <2>1, <2>2
  <1>2. \A i \in Infos \ I : info'[i] = info[i]
    BY DEF UnrefFiles, Counted, RInv, ResTypeOK
  <1>3. info' \in [Infos -> [fd : Nat, refcnt : Nat]] /\ \A i \in Infos : info'[i].fd = info[i].fd
    <2>1. info' = [i \in Infos |-> info'[i]]
      BY DEF UnrefFiles, Counted
    <2>2. \A i \in I : info'[i] \in [fd : Nat, refcnt : Nat] /\ info'[i].fd = info[i].fd
      BY <1>a, <1>b, <1>1
    <2>3. \A i \in Infos \ I : info'[i] \in [fd : Nat, refcnt : Nat] /\ info'[i].fd = info[i].fd
      BY <1>2 DEF RInv, ResTypeOK
    <2> QED BY <2>1, <2>2, <2>3
  <1>4. host' \in [HostFds -> Names \cup {Null}]
    BY DEF UnrefFiles, RInv, ResTypeOK
  <1>5. CountsExact'
    <2> SUFFICES ASSUME NEW i \in Infos PROVE info'[i].refcnt = Cardinality(Users(i)')
      BY DEF CountsExact
    <2>1. CASE i \in I
      <3>1. Cardinality(Users(i) \ {s}) = Cardinality(Users(i)) - 1
        BY <1>0, <2>1, UsersFinite, OneUserLess DEF RInv
      <3>2. info'[i].refcnt = info[i].refcnt - 1
        BY <1>1, <2>1
      <3> QED BY <2>1, <3>1, <3>2 DEF RInv, CountsExact
    <2>2. CASE i \notin I
      BY <1>2, <2>2 DEF RInv, CountsExact
    <2> QED BY <2>1, <2>2
  <1>6. \A i \in Infos : InUse(i)' => InUse(i) /\ (i \in I => info[i].refcnt # 1)
    <2>1. \A i \in I : info'[i].refcnt = info[i].refcnt - 1
      BY <1>1
    <2> QED BY <1>0, <1>a, <1>2, <2>1 DEF InUse
  <1>7. Distinct'
    BY <1>3, <1>6 DEF RInv, Distinct
  <1>8. UsedIsOpen'
    <2> SUFFICES ASSUME NEW i \in Infos, InUse(i)'
                 PROVE  info'[i].fd \in HostFds /\ host'[info'[i].fd] # Null
      BY DEF UsedIsOpen
    <2>1. info[i].fd \in HostFds /\ host[info[i].fd] # Null /\ info'[i].fd = info[i].fd
      BY <1>3, <1>6 DEF RInv, UsedIsOpen
    <2>2. \A j \in I : ~(info[j].fd = info[i].fd /\ info[j].refcnt = 1)
      BY <1>0, <1>6 DEF RInv, Distinct
    <2> QED BY <2>1, <2>2 DEF UnrefFiles
  <1> QED BY <1>3, <1>4, <1>5, <1>7, <1>8

\* ResMgr::closeFile takes one user away, and the host's descriptor with the last.
LEMMA CloseFileKeeps ==
  ASSUME RInv, NEW s \in States, NEW f \in HostFds, CloseFile(s, f)
  PROVE  RInv'
  <1>1. CASE files[s][f] = Null
    <2>1. UNCHANGED resVars
      BY <1>1 DEF CloseFile, resVars
    <2> QED BY <2>1 DEF resVars, RInv, ResTypeOK, CountsExact, Users, Held, Distinct,
               UsedIsOpen, HeldByNumber, InUse
  <1>2. CASE files[s][f] # Null
    <2>0. PICK i \in Infos : i = files[s][f] /\ i \in Held(s)
      BY <1>2, HeldInUse DEF CloseFile
    <2>1. s \in live /\ live' = live /\ UnrefFiles({i}) /\ files' = [files EXCEPT ![s][f] = Null]
      BY <1>2, <2>0 DEF CloseFile
    <2>2. \A t \in live, g \in HostFds, j \in Infos :
             files'[t][g] = j <=> files[t][g] = j /\ ~(t = s /\ g = f)
      BY <2>0, <2>1, ResMgrAssumption DEF RInv, ResTypeOK
    <2>3. \A g \in HostFds : files[s][g] = i => g = f
      BY <2>0, <2>1, <1>2, ResMgrAssumption DEF RInv, HeldByNumber
    <2>4. \A t \in live, j \in Infos :
             (\E g \in HostFds : files'[t][g] = j) <=>
             (\E g \in HostFds : files[t][g] = j) /\ ~(t = s /\ j = i)
      BY <2>0, <2>2, <2>3
    <2>5. Users(i)' = Users(i) \ {s}
      BY <2>0, <2>1, <2>4 DEF Users, Held
    <2>6. \A j \in Infos \ {i} : Users(j)' = Users(j)
      BY <2>1, <2>4 DEF Users, Held
    <2>7. /\ info' \in [Infos -> [fd : Nat, refcnt : Nat]]
          /\ host' \in [HostFds -> Names \cup {Null}]
          /\ \A j \in Infos : info'[j].fd = info[j].fd
          /\ CountsExact' /\ Distinct' /\ UsedIsOpen'
      BY <2>0, <2>1, <2>5, <2>6, UnrefKeeps
    <2>8. ResTypeOK'
      BY <2>1, <2>7 DEF RInv, ResTypeOK
    <2>9. HeldByNumber'
      <3> SUFFICES ASSUME NEW t \in live, NEW g \in HostFds, files'[t][g] # Null
                   PROVE  info'[files'[t][g]].fd = g
        BY <2>1 DEF HeldByNumber
      <3>1. files'[t][g] \in Infos
        BY <2>1, <2>8 DEF ResTypeOK
      <3>2. files[t][g] = files'[t][g]
        BY <2>2, <3>1
      <3> QED BY <2>7, <3>1, <3>2 DEF RInv, HeldByNumber
    <2> QED BY <2>7, <2>8, <2>9 DEF RInv
  <1> QED BY <1>1, <1>2

\* The copy of a ResMgr is one user more of each FileInfo it has.
LEMMA CopyKeeps ==
  ASSUME RInv, NEW s \in States, NEW t \in States, Copy(s, t)
  PROVE  RInv'
  <1>1. /\ s \in live /\ t \notin live /\ live' = live \cup {t} /\ host' = host
        /\ files' = [files EXCEPT ![t] = files[s]]
        /\ info' = Counted(Held(s), 1)
    BY DEF Copy
  <1>2. \A u \in live : u # t /\ files'[u] = files[u]
    BY <1>1 DEF RInv, ResTypeOK
  <1>3. files'[t] = files[s]
    BY <1>1 DEF RInv, ResTypeOK
  <1>4. \A i \in Infos : /\ info'[i].fd = info[i].fd
                         /\ info'[i].refcnt = IF i \in Held(s) THEN info[i].refcnt + 1
                                                               ELSE info[i].refcnt
                         /\ info'[i] \in [fd : Nat, refcnt : Nat]
    <2> SUFFICES ASSUME NEW i \in Infos
                 PROVE  /\ info'[i].fd = info[i].fd
                        /\ info'[i].refcnt = IF i \in Held(s) THEN info[i].refcnt + 1
                                                              ELSE info[i].refcnt
                        /\ info'[i] \in [fd : Nat, refcnt : Nat]
      OBVIOUS
    <2>1. info[i] \in [fd : Nat, refcnt : Nat]
      BY DEF RInv, ResTypeOK
    <2>2. CASE i \in Held(s)
      <3>1. info'[i] = [fd |-> info[i].fd, refcnt |-> info[i].refcnt + 1]
        BY <1>1, <2>2 DEF Counted
      <3> QED BY <2>1, <2>2, <3>1
    <2>3. CASE i \notin Held(s)
      <3>1. info'[i] = info[i]
        BY <1>1, <2>3 DEF Counted
      <3> QED BY <2>1, <2>3, <3>1
    <2> QED BY <2>2, <2>3
  <1>5. ResTypeOK'
    <2>1. info' = [i \in Infos |-> info'[i]]
      BY <1>1 DEF Counted
    <2>2. info' \in [Infos -> [fd : Nat, refcnt : Nat]]
      BY <1>4, <2>1
    <2> QED BY <1>1, <2>2 DEF RInv, ResTypeOK
  <1>6. \A i \in Held(s) : Users(i)' = Users(i) \cup {t}
    BY <1>1, <1>2, <1>3 DEF Users, Held
  <1>7. \A i \in Infos : i \notin Held(s) => Users(i)' = Users(i)
    BY <1>1, <1>2, <1>3 DEF Users, Held
  <1>8. CountsExact'
    <2> SUFFICES ASSUME NEW i \in Infos PROVE info'[i].refcnt = Cardinality(Users(i)')
      BY DEF CountsExact
    <2>1. CASE i \in Held(s)
      <3>1. t \notin Users(i)
        BY <1>1 DEF Users
      <3>2. Cardinality(Users(i) \cup {t}) = Cardinality(Users(i)) + 1
        BY <3>1, UsersFinite, OneUserMore DEF RInv
      <3> QED BY <1>4, <1>6, <2>1, <3>2, SMTT(30) DEF RInv, CountsExact
    <2>2. CASE i \notin Held(s)
      BY <1>4, <1>7, <2>2 DEF RInv, CountsExact
    <2> QED BY <2>1, <2>2
  <1>9. \A i \in Infos : InUse(i)' => InUse(i)
    <2>1. \A i \in Held(s) : InUse(i)
      <3> SUFFICES ASSUME NEW i \in Held(s) PROVE InUse(i)
        OBVIOUS
      <3>1. PICK f \in HostFds : files[s][f] = i
        BY DEF Held
      <3>2. i # Null
        BY ResMgrAssumption DEF Held
      <3> QED BY <1>1, <3>1, <3>2, HeldInUse
    <2> QED BY <1>4, <2>1 DEF InUse
  <1>10. Distinct' /\ UsedIsOpen'
    BY <1>1, <1>4, <1>9 DEF RInv, Distinct, UsedIsOpen
  <1>11. HeldByNumber'
    <2> SUFFICES ASSUME NEW u \in live', NEW g \in HostFds, files'[u][g] # Null
                 PROVE  info'[files'[u][g]].fd = g
      BY DEF HeldByNumber
    <2>1. PICK v \in live : files'[u] = files[v]
      BY <1>1, <1>2, <1>3
    <2>2. files[v][g] \in Infos /\ info[files[v][g]].fd = g
      BY <2>1, HeldInUse DEF RInv, HeldByNumber
    <2> QED BY <1>4, <2>1, <2>2
  <1> QED BY <1>5, <1>8, <1>10, <1>11 DEF RInv

\* ~ResMgr is one user less of each FileInfo it had.
LEMMA DestroyKeeps ==
  ASSUME RInv, NEW s \in States, Destroy(s)
  PROVE  RInv'
  <1>1. /\ s \in live /\ live' = live \ {s} /\ UnrefFiles(Held(s))
        /\ files' = [files EXCEPT ![s] = NoFiles]
    BY DEF Destroy
  <1>2. \A u \in live' : u \in live /\ u # s /\ files'[u] = files[u]
    BY <1>1 DEF RInv, ResTypeOK
  <1>3. \A i \in Infos : Users(i)' = Users(i) \ {s}
    BY <1>1, <1>2 DEF Users, Held
  <1>4. \A i \in Infos \ Held(s) : Users(i)' = Users(i)
    BY <1>3 DEF Users
  <1>5. Held(s) \in SUBSET Infos /\ Held(s) \subseteq Held(s)
    BY DEF Held
  <1>6. \A i \in Held(s) : Users(i)' = Users(i) \ {s}
    BY <1>3, <1>5
  <1>7. /\ info' \in [Infos -> [fd : Nat, refcnt : Nat]]
        /\ host' \in [HostFds -> Names \cup {Null}]
        /\ \A j \in Infos : info'[j].fd = info[j].fd
        /\ CountsExact' /\ Distinct' /\ UsedIsOpen'
    <2>1. PICK J \in SUBSET Infos : J = Held(s)
      BY <1>5
    <2> QED BY <1>1, <1>4, <1>5, <1>6, <2>1, UnrefKeeps
  <1>8. ResTypeOK'
    BY <1>1, <1>7 DEF RInv, ResTypeOK, NoFiles
  <1>9. HeldByNumber'
    <2> SUFFICES ASSUME NEW t \in live', NEW g \in HostFds, files'[t][g] # Null
                 PROVE  info'[files'[t][g]].fd = g
      BY DEF HeldByNumber
    <2>1. files[t][g] \in Infos /\ info[files[t][g]].fd = g
      BY <1>2, HeldInUse DEF RInv, HeldByNumber
    <2> QED BY <1>2, <1>7, <2>1
  <1> QED BY <1>7, <1>8, <1>9 DEF RInv

\* Every step of the resource managers keeps the invariant.
LEMMA ResStep == RInv /\ [ResNext]_resVars => RInv'
  <1>1. ASSUME RInv, UNCHANGED resVars PROVE RInv'
    BY <1>1 DEF resVars, RInv, ResTypeOK, CountsExact, Users, Held, Distinct,
                UsedIsOpen, HeldByNumber, InUse
  <1> QED BY <1>1, OpenFileKeeps, CloseFileKeeps, CopyKeeps, DestroyKeeps, OpenElsewhereKeeps
          DEF ResNext

(* The reference counts are exact in every reachable state, whatever the   *)
(* states open, close, copy and give back (ResMgr).                        *)
THEOREM CountsStayExact == ResSpec => []CountsExact
  <1>1. RInv => CountsExact
    BY DEF RInv
  <1> QED BY <1>1, RInvInit, ResStep, PTL DEF ResSpec

-----------------------------------------------------------------------------
\* What a live state holds is open on the host.
HeldIsOpen == \A u \in live, g \in HostFds : files[u][g] # Null => host[g] # Null
\* What a state holds is open on the host.
LEMMA HeldOpen == RInv => HeldIsOpen
  BY HeldInUse DEF RInv, UsedIsOpen, HeldByNumber, HeldIsOpen

\* A descriptor that a state has before and after a step stands for the same file, if
\* the step only closes descriptors or opens free ones.
LEMMA SameFile ==
  ASSUME RInv, RInv', NEW u \in live, u \in live', NEW g \in HostFds,
         files[u][g] # Null, files'[u][g] # Null,
         host'[g] = Null \/ host'[g] = host[g] \/ host[g] = Null
  PROVE  host'[g] = host[g]
  <1>1. host[g] # Null
    BY HeldOpen DEF HeldIsOpen
  <1>2. RInv' => HeldIsOpen'
    BY HeldOpen, PTL
  <1> QED BY <1>1, <1>2 DEF HeldIsOpen

\* A state whose map stays sees the same files, if held numbers are not given out again.
LEMMA FilesKept ==
  ASSUME RInv, RInv', NEW u \in live, u \in live', files'[u] = files[u],
         \A g \in HostFds : host'[g] = Null \/ host'[g] = host[g] \/ host[g] = Null
  PROVE  FilesOf(u)' = FilesOf(u)
  <1>1. \A g \in HostFds : files[u][g] # Null => host'[g] = host[g]
    BY SameFile
  <1> QED BY <1>1 DEF FilesOf

\* Every step closes descriptors or opens free ones.
LEMMA HostSteps ==
  ASSUME RInv, [ResNext]_resVars, NEW g \in HostFds
  PROVE  host'[g] = Null \/ host'[g] = host[g] \/ host[g] = Null
  <1>1. ASSUME NEW s \in States, NEW n \in Names, NEW f \in HostFds, OpenFile(s, n, f)
        PROVE  host'[g] = host[g] \/ host[g] = Null
    BY <1>1 DEF OpenFile, LowestFree, RInv, ResTypeOK
  <1>2. ASSUME NEW n \in Names, NEW f \in HostFds, OpenElsewhere(n, f)
        PROVE  host'[g] = host[g] \/ host[g] = Null
    BY <1>2 DEF OpenElsewhere, LowestFree, RInv, ResTypeOK
  <1>3. ASSUME NEW s \in States, NEW f \in HostFds, CloseFile(s, f)
        PROVE  host'[g] = host[g] \/ host'[g] = Null
    BY <1>3 DEF CloseFile, UnrefFiles
  <1>4. ASSUME NEW s \in States, Destroy(s)
        PROVE  host'[g] = host[g] \/ host'[g] = Null
    BY <1>4 DEF Destroy, UnrefFiles
  <1>5. ASSUME NEW s \in States, NEW t \in States, Copy(s, t) PROVE host'[g] = host[g]
    BY <1>5 DEF Copy
  <1>6. ASSUME UNCHANGED resVars PROVE host'[g] = host[g]
    BY <1>6 DEF resVars
  <1> QED BY <1>1, <1>2, <1>3, <1>4, <1>5, <1>6 DEF ResNext

\* An open is one of PrivateFiles.
LEMMA OpenRefines ==
  ASSUME RInv, RInv', [ResNext]_resVars,
         NEW s \in States, NEW n \in Names, NEW f \in HostFds, OpenFile(s, n, f)
  PROVE  Private!PFOpen(s, f, n)
  <1>1. /\ s \in live /\ live' = live /\ host[f] = Null /\ host'[f] = n
        /\ files'[s][f] # Null
        /\ \A g \in HostFds : g # f => files'[s][g] = files[s][g] /\ host'[g] = host[g]
    <2>1. NewInfo \in Infos /\ NewInfo # Null
      BY ResMgrAssumption DEF OpenFile, FreeInfos, NewInfo
    <2> QED BY <2>1 DEF OpenFile, LowestFree, RInv, ResTypeOK
  <1>2. files[s][f] = Null
    BY <1>1, HeldOpen DEF HeldIsOpen
  <1>3. \A u \in live : u # s => FilesOf(u)' = FilesOf(u)
    <2> SUFFICES ASSUME NEW u \in live, u # s PROVE FilesOf(u)' = FilesOf(u)
      OBVIOUS
    <2>1. files'[u] = files[u]
      BY DEF OpenFile, RInv, ResTypeOK
    <2> QED BY <1>1, <2>1, FilesKept, HostSteps
  <1>4. DOMAIN FilesOf(s) = {g \in HostFds : files[s][g] # Null}
    BY DEF FilesOf
  <1>5. FilesOf(s)' = [g \in DOMAIN FilesOf(s) \cup {f} |-> IF g = f THEN n ELSE FilesOf(s)[g]]
    <2>1. {g \in HostFds : files'[s][g] # Null} = DOMAIN FilesOf(s) \cup {f}
      BY <1>1, <1>4
    <2>2. \A g \in DOMAIN FilesOf(s) : g # f /\ FilesOf(s)[g] = host[g]
      BY <1>2, <1>4 DEF FilesOf
    <2>3. \A g \in DOMAIN FilesOf(s) \cup {f} :
             host'[g] = IF g = f THEN n ELSE FilesOf(s)[g]
      BY <1>1, <1>4, <2>2
    <2> QED BY <2>1, <2>3 DEF FilesOf
  <1>6. DOMAIN Opened = live /\ \A u \in live : Opened[u] = FilesOf(u)
    BY DEF Opened
  <1>7. Opened' = [u \in live |-> FilesOf(u)']
    BY <1>1 DEF Opened
  <1>8. Private!Becomes(s, [g \in DOMAIN Opened[s] \cup {f} |->
                              IF g = f THEN n ELSE Opened[s][g]])
    BY <1>1, <1>3, <1>5, <1>6, <1>7 DEF Private!Becomes
  <1> QED BY <1>1, <1>2, <1>4, <1>6, <1>8 DEF Private!PFOpen

\* A close is one of PrivateFiles, also if other states keep the file.
LEMMA CloseRefines ==
  ASSUME RInv, RInv', [ResNext]_resVars, NEW s \in States, NEW f \in HostFds, CloseFile(s, f)
  PROVE  Private!PFClose(s, f)
  <1>1. /\ s \in live /\ live' = live /\ files'[s][f] = Null
        /\ \A g \in HostFds : g # f => files'[s][g] = files[s][g]
    BY DEF CloseFile, RInv, ResTypeOK
  <1>2. \A u \in live : u # s => FilesOf(u)' = FilesOf(u)
    <2> SUFFICES ASSUME NEW u \in live, u # s PROVE FilesOf(u)' = FilesOf(u)
      OBVIOUS
    <2>1. files'[u] = files[u]
      BY DEF CloseFile, RInv, ResTypeOK
    <2> QED BY <1>1, <2>1, FilesKept, HostSteps
  <1>3. DOMAIN FilesOf(s) = {g \in HostFds : files[s][g] # Null}
    BY DEF FilesOf
  <1>4. FilesOf(s)' = [g \in DOMAIN FilesOf(s) \ {f} |-> FilesOf(s)[g]]
    <2>1. {g \in HostFds : files'[s][g] # Null} = DOMAIN FilesOf(s) \ {f}
      BY <1>1, <1>3
    <2>2. \A g \in DOMAIN FilesOf(s) \ {f} : host'[g] = host[g]
      BY <1>1, <1>3, SameFile, HostSteps
    <2>3. \A g \in DOMAIN FilesOf(s) : FilesOf(s)[g] = host[g]
      BY <1>3 DEF FilesOf
    <2> QED BY <2>1, <2>2, <2>3 DEF FilesOf
  <1>5. DOMAIN Opened = live /\ \A u \in live : Opened[u] = FilesOf(u)
    BY DEF Opened
  <1>6. Opened' = [u \in live |-> FilesOf(u)']
    BY <1>1 DEF Opened
  <1>7. Private!Becomes(s, [g \in DOMAIN Opened[s] \ {f} |-> Opened[s][g]])
    BY <1>1, <1>2, <1>4, <1>5, <1>6 DEF Private!Becomes
  <1> QED BY <1>1, <1>5, <1>7 DEF Private!PFClose

\* A fork is one of PrivateFiles.
LEMMA ForkRefines ==
  ASSUME RInv, RInv', [ResNext]_resVars, NEW s \in States, NEW t \in States, Copy(s, t)
  PROVE  Private!PFFork(s, t)
  <1>1. /\ s \in live /\ t \notin live /\ live' = live \cup {t} /\ host' = host
        /\ files'[t] = files[s] /\ \A u \in live : files'[u] = files[u]
    BY DEF Copy, RInv, ResTypeOK
  <1>2. FilesOf(t)' = FilesOf(s) /\ \A u \in live : FilesOf(u)' = FilesOf(u)
    BY <1>1 DEF FilesOf
  <1>3. DOMAIN Opened = live /\ \A u \in live : Opened[u] = FilesOf(u)
    BY DEF Opened
  <1>4. Opened' = [u \in live \cup {t} |-> FilesOf(u)']
    BY <1>1 DEF Opened
  <1>5. Opened' = [u \in DOMAIN Opened \cup {t} |-> IF u = t THEN Opened[s] ELSE Opened[u]]
    BY <1>1, <1>2, <1>3, <1>4
  <1> QED BY <1>1, <1>3, <1>5 DEF Private!PFFork

\* The end of a state is one of PrivateFiles.
LEMMA EndRefines ==
  ASSUME RInv, RInv', [ResNext]_resVars, NEW s \in States, Destroy(s)
  PROVE  Private!PFEnd(s)
  <1>1. /\ s \in live /\ live' = live \ {s}
        /\ \A u \in live' : u \in live /\ files'[u] = files[u]
    BY DEF Destroy, RInv, ResTypeOK
  <1>2. \A u \in live' : FilesOf(u)' = FilesOf(u)
    BY <1>1, FilesKept, HostSteps
  <1>3. DOMAIN Opened = live /\ \A u \in live : Opened[u] = FilesOf(u)
    BY DEF Opened
  <1>4. Opened' = [u \in live' |-> FilesOf(u)']
    BY DEF Opened
  <1>5. Opened' = [u \in DOMAIN Opened \ {s} |-> Opened[u]]
    BY <1>1, <1>2, <1>3, <1>4
  <1> QED BY <1>1, <1>3, <1>5 DEF Private!PFEnd

\* Steps that leave every state's map alone are not seen.
LEMMA OthersStutter ==
  ASSUME RInv, RInv', [ResNext]_resVars, live' = live, files' = files
  PROVE  Opened' = Opened
  <1>1. \A u \in live : FilesOf(u)' = FilesOf(u)
    BY FilesKept, HostSteps
  <1>2. Opened' = [u \in live |-> FilesOf(u)']
    BY DEF Opened
  <1> QED BY <1>1, <1>2 DEF Opened

(* ResMgr implements private files: a descriptor of a state stands for the *)
(* same host file until that state closes it, although the states share    *)
(* the host's descriptor table and its numbers are used again (ResMgr).    *)
THEOREM FilesArePrivate == ResSpec => FilesPrivate
  <1>1. ResInit => Private!PFInit
    <2> SUFFICES ASSUME ResInit PROVE Private!PFInit
      OBVIOUS
    <2>1. FilesOf(Root) = [f \in {} |-> Root]
      BY ResMgrAssumption DEF ResInit, NoFiles, FilesOf
    <2>2. Opened = [t \in {Root} |-> FilesOf(Root)]
      BY DEF ResInit, Opened
    <2> QED BY <2>1, <2>2, ResMgrAssumption DEF Private!PFInit
  <1>2. RInv /\ RInv' /\ [ResNext]_resVars => [Private!PFNext]_Opened
    <2> SUFFICES ASSUME RInv, RInv', [ResNext]_resVars PROVE [Private!PFNext]_Opened
      OBVIOUS
    <2>1. ASSUME NEW n \in Names, NEW f \in HostFds, OpenElsewhere(n, f) PROVE Opened' = Opened
      BY <2>1, OthersStutter DEF OpenElsewhere
    <2>2. ASSUME UNCHANGED resVars PROVE Opened' = Opened
      BY <2>2, OthersStutter DEF resVars
    <2> QED BY <2>1, <2>2, OpenRefines, CloseRefines, ForkRefines, EndRefines
            DEF ResNext, Private!PFNext
  <1> QED BY <1>1, <1>2, RInvInit, ResStep, PTL DEF ResSpec, FilesPrivate, Private!PFSpec

-----------------------------------------------------------------------------
(* The files of the POSIX runtime.                                         *)

StateNames == {"Free", "Direct", "InMem", "ForceDirect"}
InPlace(r) == r.state \in {"Direct", "ForceDirect"}

Shape ==
  /\ DOMAIN con = States /\ \A s \in States : DOMAIN con[s] = Slots
  /\ DOMAIN fds = States /\ \A s \in States : DOMAIN fds[s] = Fds
  /\ DOMAIN ncon = States

\* Slots past the end of the table are free, and so are their descriptors.
RecordOK(r) ==
  /\ r.state \in StateNames /\ r.fd \in HostFds \cup {-1}
  /\ r.state = "Free" => r.fd = -1
SlotsOK ==
  \A s \in live :
    /\ ncon[s] \in Nat \ {0}
    /\ \A c \in Slots : /\ RecordOK(con[s][c])
                        /\ c > ncon[s] => con[s][c].state = "Free"

\* An open descriptor has a record, and the record's host descriptor.
Bound ==
  \A s \in live, f \in Fds :
    fds[s][f].slot # 0 =>
      /\ fds[s][f].slot \in Slots
      /\ con[s][fds[s][f].slot].state # "Free"
      /\ fds[s][f].fd = con[s][fds[s][f].slot].fd

\* No two files of a state that are read in place share a host descriptor.
Apart ==
  \A s \in live, c, d \in Slots :
    InPlace(con[s][c]) /\ InPlace(con[s][d]) /\ con[s][c].fd = con[s][d].fd
      => c = d \/ con[s][c].fd = -1

DiskOK == disk \in [Names -> [kind : Kinds, bytes : Seq(Byte)]]

CInv == RInv /\ Shape /\ SlotsOK /\ Bound /\ Apart /\ DirectIsHeld /\ DiskOK

-----------------------------------------------------------------------------
\* One record of one state changes.
LEMMA SetConEffect ==
  ASSUME Shape, NEW s \in States, NEW c \in Slots, NEW r, SetCon(s, c, r)
  PROVE  /\ DOMAIN con' = States /\ \A t \in States : DOMAIN con'[t] = Slots
         /\ con'[s][c] = r
         /\ \A t \in States, e \in Slots : t # s \/ e # c => con'[t][e] = con[t][e]
  BY DEF Shape, SetCon

\* One descriptor of one state changes.
LEMMA SetFdEffect ==
  ASSUME Shape, NEW s \in States, NEW f \in Fds, NEW d, SetFd(s, f, d)
  PROVE  /\ DOMAIN fds' = States /\ \A t \in States : DOMAIN fds'[t] = Fds
         /\ fds'[s][f] = d
         /\ \A t \in States, g \in Fds : t # s \/ g # f => fds'[t][g] = fds[t][g]
  BY DEF Shape, SetFd

\* The slot that create_con_file finds is free, and within the table it leaves.
LEMMA NewSlotFree ==
  ASSUME CInv, NEW s \in live, NEW c \in Slots, NEW k \in Slots, NewSlot(s, c, k)
  PROVE  /\ con[s][c].state = "Free"
         /\ k \in Nat \ {0} /\ k >= ncon[s] /\ c <= k
  <1>1. ncon[s] \in Nat \ {0} /\ MaxSlots \in Nat /\ c \in 1..MaxSlots /\ k \in 1..MaxSlots
    BY ConAssumption DEF CInv, SlotsOK, Slots
  <1>2. c > ncon[s] => con[s][c].state = "Free"
    BY DEF CInv, SlotsOK
  <1> QED BY <1>1, <1>2, SMTT(30) DEF NewSlot

\* A step that gives slot c of s the record r, and takes no host descriptor from s.
LEMMA RecordKeeps ==
  ASSUME CInv, NEW s \in live, NEW c \in Slots, NEW r, SetCon(s, c, r),
         live' = live, files' = files,
         RecordOK(r), r.state # "Free" => c <= ncon'[s],
         InPlace(r) => r.fd = -1 \/ (InPlace(con[s][c]) /\ r.fd = con[s][c].fd),
         \A t \in live : ncon'[t] \in Nat \ {0} /\ ncon'[t] >= ncon[t]
  PROVE  SlotsOK' /\ Apart' /\ DirectIsHeld'
  <1>1. live \subseteq States
    BY DEF CInv, RInv, ResTypeOK
  <1>2. con'[s][c] = r /\ \A t \in live, e \in Slots : t # s \/ e # c => con'[t][e] = con[t][e]
    BY <1>1, SetConEffect, SMTT(30) DEF CInv
  <1>3. SlotsOK'
    <2> SUFFICES ASSUME NEW t \in live, NEW e \in Slots
                 PROVE  /\ RecordOK(con'[t][e])
                        /\ e > ncon'[t] => con'[t][e].state = "Free"
      BY DEF SlotsOK, RecordOK
    <2>1. e \in Nat /\ ncon[t] \in Nat /\ ncon'[t] \in Nat /\ ncon'[t] >= ncon[t]
      BY ConAssumption, SMTT(30) DEF Slots, CInv, SlotsOK
    <2>2. CASE t = s /\ e = c
      BY <1>2, <2>1, <2>2, SMTT(30)
    <2>3. CASE t # s \/ e # c
      BY <1>2, <2>1, <2>3, SMTT(30) DEF CInv, SlotsOK
    <2> QED BY <2>2, <2>3
  <1>4. \A t \in live, e \in Slots :
           InPlace(con'[t][e]) =>
             con'[t][e].fd = -1 \/ (InPlace(con[t][e]) /\ con'[t][e].fd = con[t][e].fd)
    BY <1>2
  <1>5. Apart'
    BY <1>4, SMTT(30) DEF CInv, Apart, InPlace
  <1>6. DirectIsHeld'
    BY <1>4, SMTT(30) DEF CInv, DirectIsHeld, InPlace
  <1> QED BY <1>3, <1>5, <1>6

\* Descriptors follow their records.
LEMMA BoundKeeps ==
  ASSUME CInv, NEW s \in live, live' = live, NEW c \in Slots,
         \A t \in live, e \in Slots : t # s \/ e # c => con'[t][e] = con[t][e],
         \A g \in Fds : fds[s][g].slot = c =>
           con'[s][c].state # "Free" /\ con'[s][c].fd = con[s][c].fd,
         NEW f \in Fds,
         \A t \in live, g \in Fds : t # s \/ g # f => fds'[t][g] = fds[t][g],
         \/ fds'[s][f] = fds[s][f]
         \/ fds'[s][f].slot = 0
         \/ /\ fds'[s][f].slot \in Slots
            /\ con'[s][fds'[s][f].slot].state # "Free"
            /\ fds'[s][f].fd = con'[s][fds'[s][f].slot].fd
  PROVE  Bound'
  <1> SUFFICES ASSUME NEW t \in live, NEW g \in Fds, fds'[t][g].slot # 0
               PROVE  /\ fds'[t][g].slot \in Slots
                      /\ con'[t][fds'[t][g].slot].state # "Free"
                      /\ fds'[t][g].fd = con'[t][fds'[t][g].slot].fd
    BY Zenon DEF Bound
  <1>1. CASE fds'[t][g] = fds[t][g]
    <2>1. /\ fds[t][g].slot \in Slots /\ con[t][fds[t][g].slot].state # "Free"
          /\ fds[t][g].fd = con[t][fds[t][g].slot].fd
      <3>1. Bound
        BY Zenon DEF CInv
      <3>2. fds[t][g].slot # 0
        BY <1>1, Zenon
      <3> QED BY <3>1, <3>2, Zenon DEF Bound
    <2>2. CASE t = s /\ fds[t][g].slot = c
      BY <1>1, <2>1, <2>2, Zenon
    <2>3. CASE ~(t = s /\ fds[t][g].slot = c)
      BY <1>1, <2>1, <2>3, ZenonT(40)
    <2> QED BY <2>2, <2>3, Zenon
  <1>2. CASE fds'[t][g] # fds[t][g]
    BY <1>2
  <1> QED BY <1>1, <1>2, Zenon

-----------------------------------------------------------------------------
CRest == Shape /\ SlotsOK /\ Bound /\ Apart /\ DirectIsHeld /\ DiskOK

\* Live states are states.
LEMMA LiveAreStates == CInv => live \subseteq States
  BY DEF CInv, RInv, ResTypeOK

\* Steps that change one descriptor of the program only.
LEMMA FdKeeps ==
  ASSUME CInv, NEW s \in live, NEW f \in Fds, NEW d, SetFd(s, f, d),
         UNCHANGED <<live, files, con, ncon, disk>>,
         d.slot # 0 =>
           /\ d.slot \in Slots /\ con[s][d.slot].state # "Free"
           /\ d.fd = con[s][d.slot].fd
  PROVE  CRest'
  <1>1. /\ DOMAIN fds' = States /\ \A t \in States : DOMAIN fds'[t] = Fds
        /\ fds'[s][f] = d
        /\ \A t \in States, g \in Fds : t # s \/ g # f => fds'[t][g] = fds[t][g]
    BY SetFdEffect, LiveAreStates, SMTT(30) DEF CInv
  <1>2. Shape'
    BY <1>1, Zenon DEF CInv, Shape
  <1>3. Bound'
    <2> SUFFICES ASSUME NEW t \in live, NEW g \in Fds, fds'[t][g].slot # 0
                 PROVE  /\ fds'[t][g].slot \in Slots
                        /\ con[t][fds'[t][g].slot].state # "Free"
                        /\ fds'[t][g].fd = con[t][fds'[t][g].slot].fd
      BY DEF Bound
    <2>1. CASE t = s /\ g = f
      BY <1>1, <2>1, ZenonT(40)
    <2>2. CASE t # s \/ g # f
      <3>1. fds'[t][g] = fds[t][g]
        BY <1>1, <2>2, LiveAreStates, SMTT(30)
      <3> QED BY <3>1 DEF CInv, Bound
    <2> QED BY <2>1, <2>2, ZenonT(40)
  <1>4. SlotsOK' /\ Apart' /\ DirectIsHeld' /\ DiskOK'
    BY DEF CInv, SlotsOK, Apart, DirectIsHeld, DiskOK
  <1> QED BY <1>2, <1>3, <1>4 DEF CRest

\* A descriptor of s becomes one for slot c with record r.
SetsFd(s, c, r) ==
  \E f \in Fds : \E o : SetFd(s, f, [slot |-> c, fd |-> r.fd, off |-> o])

\* Steps that change the record in slot c, and open a descriptor for it or none.
LEMMA RecKeeps ==
  ASSUME CInv, NEW s \in live, NEW c \in Slots, NEW r, SetCon(s, c, r),
         live' = live, files' = files, DiskOK',
         RecordOK(r), r.state # "Free" => c <= ncon'[s],
         InPlace(r) => r.fd = -1 \/ (InPlace(con[s][c]) /\ r.fd = con[s][c].fd),
         DOMAIN ncon' = States,
         \A t \in live : ncon'[t] \in Nat \ {0} /\ ncon'[t] >= ncon[t],
         \A g \in Fds : fds[s][g].slot = c => r.state # "Free" /\ r.fd = con[s][c].fd,
         fds' = fds \/ (SetsFd(s, c, r) /\ r.state # "Free")
  PROVE  CRest'
  <1>1. SlotsOK' /\ Apart' /\ DirectIsHeld'
    BY RecordKeeps, SMTT(30)
  <1>2. /\ DOMAIN con' = States /\ \A t \in States : DOMAIN con'[t] = Slots
        /\ con'[s][c] = r
        /\ \A t \in States, e \in Slots : t # s \/ e # c => con'[t][e] = con[t][e]
    BY SetConEffect, LiveAreStates, SMTT(30) DEF CInv
  <1>3. CASE fds' = fds
    <2>1. Shape'
      BY <1>2, <1>3 DEF CInv, Shape
    <2>2. Bound'
      <3> SUFFICES ASSUME NEW t \in live, NEW g \in Fds, fds[t][g].slot # 0
                   PROVE  /\ fds[t][g].slot \in Slots
                          /\ con'[t][fds[t][g].slot].state # "Free"
                          /\ fds[t][g].fd = con'[t][fds[t][g].slot].fd
        BY <1>3, Zenon DEF Bound
      <3>1. /\ fds[t][g].slot \in Slots /\ con[t][fds[t][g].slot].state # "Free"
            /\ fds[t][g].fd = con[t][fds[t][g].slot].fd
        BY Zenon DEF CInv, Bound
      <3>2. CASE t = s /\ fds[t][g].slot = c
        BY <1>2, <3>1, <3>2, Zenon
      <3>3. CASE ~(t = s /\ fds[t][g].slot = c)
        BY <1>2, <3>1, <3>3, LiveAreStates, Zenon
      <3> QED BY <3>2, <3>3, Zenon
    <2> QED BY <1>1, <2>1, <2>2, SMTT(30) DEF CRest
  <1>4. ASSUME NEW f \in Fds, NEW o, r.state # "Free",
               SetFd(s, f, [slot |-> c, fd |-> r.fd, off |-> o])
        PROVE  CRest'
    <2> DEFINE d == [slot |-> c, fd |-> r.fd, off |-> o]
    <2>0. d.slot = c /\ d.fd = r.fd
      BY SMTT(30)
    <2> HIDE DEF d
    <2>1. /\ DOMAIN fds' = States /\ \A t \in States : DOMAIN fds'[t] = Fds
          /\ fds'[s][f] = d
          /\ \A t \in States, g \in Fds : t # s \/ g # f => fds'[t][g] = fds[t][g]
      BY <1>4, SetFdEffect, LiveAreStates, SMTT(30) DEF CInv, d
    <2>2. Shape'
      BY <1>2, <2>1, Zenon DEF CInv, Shape
    <2>3. /\ \A t \in live, e \in Slots : t # s \/ e # c => con'[t][e] = con[t][e]
          /\ \A t \in live, g \in Fds : t # s \/ g # f => fds'[t][g] = fds[t][g]
      BY <1>2, <2>1, LiveAreStates, Zenon
    <2>4. Bound'
      BY <1>2, <1>4, <2>0, <2>1, <2>3, BoundKeeps, ZenonT(40)
    <2> QED BY <1>1, <2>2, <2>4, SMTT(30) DEF CRest
  <1> QED BY <1>3, <1>4, ZenonT(40) DEF SetsFd

\* A new record.
LEMMA NewRecKeeps ==
  ASSUME CInv, NEW s \in live, NEW c \in Slots, NEW k \in Slots, NewSlot(s, c, k),
         NEW r, SetCon(s, c, r), ncon' = [ncon EXCEPT ![s] = k],
         live' = live, files' = files, DiskOK', RecordOK(r), InPlace(r) => r.fd = -1,
         fds' = fds \/ (SetsFd(s, c, r) /\ r.state # "Free")
  PROVE  CRest'
  <1>1. con[s][c].state = "Free" /\ k \in Nat \ {0} /\ k >= ncon[s] /\ c <= k
    BY NewSlotFree, SMTT(30)
  <1>2. DOMAIN ncon' = States /\ ncon'[s] = k
    BY LiveAreStates, SMTT(30) DEF CInv, Shape
  <1>3. \A t \in live : ncon'[t] \in Nat \ {0} /\ ncon'[t] >= ncon[t]
    BY <1>1, <1>2, LiveAreStates, SMTT(30) DEF CInv, Shape, SlotsOK
  <1>4. \A g \in Fds : fds[s][g].slot # c
    BY <1>1, ConAssumption, SMTT(30) DEF CInv, Bound, Slots
  <1>5. r.state # "Free" => c <= ncon'[s]
    BY <1>1, <1>2, Zenon
  <1>6. \A g \in Fds : fds[s][g].slot = c => r.state # "Free" /\ r.fd = con[s][c].fd
    BY <1>4, Zenon
  <1>7. InPlace(r) => r.fd = -1 \/ (InPlace(con[s][c]) /\ r.fd = con[s][c].fd)
    BY ZenonT(40)
  <1> QED BY <1>2, <1>3, <1>5, <1>6, <1>7, RecKeeps, ZenonT(40)

\* A record that changes, but not its host descriptor.
LEMMA UpdateKeeps ==
  ASSUME CInv, NEW s \in live, NEW c \in Slots, con[s][c].state # "Free",
         NEW r, SetCon(s, c, r), ncon' = ncon, live' = live, files' = files, DiskOK',
         r.state \in StateNames \ {"Free"}, r.fd = con[s][c].fd,
         InPlace(r) => InPlace(con[s][c]),
         fds' = fds \/ SetsFd(s, c, r)
  PROVE  CRest'
  <1>1. c \in Nat /\ ncon[s] \in Nat /\ c <= ncon[s] /\ RecordOK(con[s][c])
    BY ConAssumption, SMTT(30) DEF CInv, SlotsOK, Slots
  <1>2. RecordOK(r)
    BY <1>1, SMTT(30) DEF RecordOK
  <1>3. DOMAIN ncon' = States /\ \A t \in live : ncon'[t] \in Nat \ {0} /\ ncon'[t] >= ncon[t]
    BY SMTT(30) DEF CInv, Shape, SlotsOK
  <1> QED BY <1>1, <1>2, <1>3, RecKeeps, SMTT(30)

\* What is known of an open descriptor.
LEMMA OpenFd ==
  ASSUME CInv, NEW s \in live, NEW f \in Fds, fds[s][f].slot # 0
  PROVE  /\ fds[s][f].slot \in Slots /\ con[s][fds[s][f].slot].state # "Free"
         /\ fds[s][f].fd = con[s][fds[s][f].slot].fd
         /\ RecordOK(con[s][fds[s][f].slot])
  BY DEF CInv, Bound, SlotsOK

\* What does not touch the disk keeps its type.
LEMMA DiskKept == CInv /\ disk' = disk => DiskOK'
  BY DEF CInv, DiskOK

-----------------------------------------------------------------------------
\* Only a descriptor that is open has a file behind it.
LEMMA BehindOpen ==
  ASSUME NEW h, Behind(h).kind = "file"
  PROVE  h \in HostFds /\ host[h] # Null
  BY DEF Behind

\* Every call is at most one step of the ResMgrs.
LEMMA StepIsResMgr ==
  ASSUME live \subseteq States, [Next]_vars
  PROVE  [ResNext]_resVars
  <1>1. ASSUME UNCHANGED vars PROVE UNCHANGED resVars
    BY <1>1 DEF vars, resVars
  <1>2. ASSUME NEW s \in live, NEW n \in Names, Open(s, n) PROVE [ResNext]_resVars
    BY <1>2, ZenonT(40) DEF Open, OpenAgain, OpenFails, OpenCreate, OpenHost, ResNext
  <1>3. ASSUME NEW s \in live, NEW f \in Fds, Transfer(s, f) PROVE [ResNext]_resVars
    <2>1. ASSUME NEW b, WriteDirect(s, f, b) PROVE ResNext
      BY <2>1, BehindOpen, Zenon DEF WriteDirect, ResNext
    <2> QED BY <1>3, <2>1, Zenon DEF Transfer, Close, Read, WriteInMem, WriteGivesUp, WriteDropped
  <1>4. ASSUME NEW s \in live, NEW f \in Fds, Adjust(s, f) PROVE [ResNext]_resVars
    BY <1>4, Zenon DEF Adjust, Dup2, Ftruncate, Lseek
  <1>5. ASSUME NEW s \in live, NEW n \in Names, Rearrange(s, n) PROVE [ResNext]_resVars
    <2>1. ASSUME NEW m \in Names, RenameHost(s, n, m) PROVE ResNext
      BY <2>1, Zenon DEF RenameHost, ResNext
    <2>2. ASSUME RenameGivesUp(s, n) PROVE ResNext
      BY <2>2, Zenon DEF RenameGivesUp, ResNext
    <2> QED BY <1>5, <2>1, <2>2, Zenon
            DEF Rearrange, Mkdir, Unlink, LinkRecord, LinkHost, RenameRecord
  <1>6. ASSUME NEW s \in live, Terminate(s) \/ \E t \in States : Fork(s, t) PROVE ResNext
    BY <1>6 DEF Fork, Terminate, ResNext
  <1> QED BY <1>1, <1>2, <1>3, <1>4, <1>5, <1>6, SMTT(30) DEF Next, Moves, Changes

(* Seen from the host, the runtime only makes calls of the ResMgrs: every  *)
(* behaviour of fd.c is one of ResMgr, forks and ends of states included.  *)
THEOREM HostSeesResMgr == Spec => ImplementsResMgr
  <1>1. Init => ResInit
    BY DEF Init
  <1>2. RInv => live \subseteq States
    BY DEF RInv, ResTypeOK
  <1>3. RInv /\ [Next]_vars => [ResNext]_resVars
    BY <1>2, StepIsResMgr
  <1> QED BY <1>1, <1>3, RInvInit, ResStep, PTL DEF Spec, ImplementsResMgr, ResSpec

(* The reference counts are exact in the composition as well.              *)
THEOREM CountsExactWithFiles == Spec => []CountsExact
  BY HostSeesResMgr, CountsStayExact, PTL DEF ImplementsResMgr

(* And the host files of a state are its own (fd.c above ResMgr).          *)
THEOREM PrivateWithFiles == Spec => FilesPrivate
  BY HostSeesResMgr, FilesArePrivate, PTL DEF ImplementsResMgr
=============================================================================
