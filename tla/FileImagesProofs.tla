-------------------------- MODULE FileImagesProofs --------------------------
(***************************************************************************)
(* The files of the POSIX runtime, for any number of states, files, slots  *)
(* and descriptors, as long as no open file is removed: every descriptor   *)
(* of the program reads the file it was opened on.                         *)
(***************************************************************************)
EXTENDS ConFilesProofs, WellFoundedInduction

-----------------------------------------------------------------------------
\* open() of a file that has a record.
LEMMA OpenAgainKeeps ==
  ASSUME CInv, NEW s \in live, NEW n \in Names, OpenAgain(s, n)
  PROVE  CRest'
  <1>1. PICK f \in Fds, c \in Slots :
          /\ Found(s, n, c) /\ SetFd(s, f, [slot |-> c, fd |-> con[s][c].fd, off |-> 0])
          /\ UNCHANGED <<live, files, con, ncon, disk>>
    BY DEF OpenAgain, resVars
  <1>2. con[s][c].state # "Free"
    BY <1>1 DEF Found
  <1> DEFINE d == [slot |-> c, fd |-> con[s][c].fd, off |-> 0]
  <1>3. d.slot = c /\ d.fd = con[s][c].fd /\ SetFd(s, f, d)
    BY <1>1
  <1> HIDE DEF d
  <1> QED BY <1>1, <1>2, <1>3, FdKeeps

\* open() with O_CREAT of a file that has none.
LEMMA OpenCreateKeeps ==
  ASSUME CInv, NEW s \in live, NEW n \in Names, NEW excl, OpenCreate(s, n, excl)
  PROVE  CRest'
  <1> DEFINE r == [state |-> "InMem", fd |-> -1, name |-> Named(n), isdir |-> FALSE,
                   size |-> 0, data |-> <<>>, wild |-> FALSE]
  <1>1. PICK f \in Fds, c \in Slots, k \in Slots :
          /\ NewSlot(s, c, k) /\ SetCon(s, c, r)
          /\ SetFd(s, f, [slot |-> c, fd |-> -1, off |-> 0])
          /\ ncon' = [ncon EXCEPT ![s] = k]
          /\ UNCHANGED <<live, files, disk>>
    BY Zenon DEF OpenCreate, resVars
  <1>2. r.state = "InMem" /\ r.fd = -1
    OBVIOUS
  <1> HIDE DEF r
  <1>3. RecordOK(r) /\ ~InPlace(r)
    BY <1>2 DEF RecordOK, InPlace, StateNames
  <1>4. SetsFd(s, c, r) /\ r.state # "Free"
    BY <1>1, <1>2 DEF SetsFd
  <1> QED BY <1>1, <1>3, <1>4, DiskKept, NewRecKeeps, Zenon

\* Steps that only give a free slot a record.
LEMMA NewOnlyKeeps ==
  ASSUME CInv, NEW s \in live, NEW c \in Slots, NEW k \in Slots, NewSlot(s, c, k),
         NEW r, SetCon(s, c, r), ncon' = [ncon EXCEPT ![s] = k],
         UNCHANGED <<live, files, disk, fds>>, RecordOK(r), InPlace(r) => r.fd = -1
  PROVE  CRest'
  BY NewRecKeeps, DiskKept, Zenon

\* mkdir() makes a record in memory.
LEMMA MkdirKeeps ==
  ASSUME CInv, NEW s \in live, NEW n \in Names, Mkdir(s, n)
  PROVE  CRest'
  <1> DEFINE r == [state |-> "InMem", fd |-> -1, name |-> Named(n), isdir |-> TRUE,
                   size |-> 512, data |-> <<>>, wild |-> FALSE]
  <1>1. PICK c \in Slots, k \in Slots :
          NewSlot(s, c, k) /\ SetCon(s, c, r) /\ ncon' = [ncon EXCEPT ![s] = k]
    BY Zenon DEF Mkdir
  <1>2. UNCHANGED <<live, files, disk, fds>>
    BY DEF Mkdir, resVars
  <1>3. RecordOK(r) /\ ~InPlace(r)
    BY DEF RecordOK, InPlace, StateNames
  <1> HIDE DEF r
  <1> QED BY <1>1, <1>2, <1>3, NewOnlyKeeps, Zenon

\* link() of a file of the host.
LEMMA LinkHostKeeps ==
  ASSUME CInv, NEW s \in live, NEW old \in Names, NEW new \in Names, LinkHost(s, old, new)
  PROVE  CRest'
  <1>1. PICK c \in Slots, k \in Slots :
          /\ NewSlot(s, c, k)
          /\ SetCon(s, c, [state |-> "Direct", fd |-> -1,
                           name |-> [Named(old) EXCEPT ![2] = new], isdir |-> FALSE,
                           size |-> 0, data |-> <<>>, wild |-> con[s][c].wild])
          /\ ncon' = [ncon EXCEPT ![s] = k]
    BY Zenon DEF LinkHost
  <1> DEFINE r == [state |-> "Direct", fd |-> -1, name |-> [Named(old) EXCEPT ![2] = new],
                   isdir |-> FALSE, size |-> 0, data |-> <<>>, wild |-> con[s][c].wild]
  <1>2. UNCHANGED <<live, files, disk, fds>>
    BY DEF LinkHost, resVars
  <1>3. RecordOK(r) /\ r.fd = -1 /\ SetCon(s, c, r)
    BY <1>1 DEF RecordOK, StateNames
  <1> HIDE DEF r
  <1> QED BY <1>1, <1>2, <1>3, NewOnlyKeeps, Zenon

\* rename() of a file of the host.
LEMMA RenameHostKeeps ==
  ASSUME CInv, NEW s \in live, NEW old \in Names, NEW new \in Names, RenameHost(s, old, new)
  PROVE  CRest'
  <1>1. PICK c \in Slots, k \in Slots :
          /\ NewSlot(s, c, k)
          /\ \E h \in HostFds : LowestFree(h) /\ CloseFile(s, h)
          /\ SetCon(s, c, [state |-> "InMem", fd |-> -1, name |-> Named(new), isdir |-> FALSE,
                           size |-> Len(disk[old].bytes), data |-> disk[old].bytes,
                           wild |-> con[s][c].wild])
          /\ ncon' = [ncon EXCEPT ![s] = k]
    BY Zenon DEF RenameHost
  <1> DEFINE r == [state |-> "InMem", fd |-> -1, name |-> Named(new), isdir |-> FALSE,
                   size |-> Len(disk[old].bytes), data |-> disk[old].bytes,
                   wild |-> con[s][c].wild]
  <1>2. UNCHANGED <<live, files>>
    <2>1. PICK h \in HostFds : LowestFree(h) /\ CloseFile(s, h)
      BY <1>1
    <2>2. files[s][h] = Null
      BY <2>1, HeldOpen DEF LowestFree, HeldIsOpen, CInv
    <2> QED BY <2>1, <2>2 DEF CloseFile
  <1>3. UNCHANGED <<disk, fds>>
    BY DEF RenameHost
  <1>4. RecordOK(r) /\ r.fd = -1 /\ SetCon(s, c, r)
    BY <1>1 DEF RecordOK, StateNames
  <1> HIDE DEF r
  <1> QED BY <1>1, <1>2, <1>3, <1>4, NewOnlyKeeps, Zenon

\* rename() of a file of the host that cannot be read.
LEMMA RenameGivesUpKeeps ==
  ASSUME CInv, NEW s \in live, NEW old \in Names, RenameGivesUp(s, old)
  PROVE  CRest'
  <1>1. PICK c \in Slots, k \in Slots :
          /\ NewSlot(s, c, k) /\ \E h \in HostFds : OpenElsewhere(old, h)
          /\ SetCon(s, c, Contents(con[s][c], "ForceDirect", 0, <<>>))
          /\ ncon' = [ncon EXCEPT ![s] = k]
    BY Zenon DEF RenameGivesUp
  <1> DEFINE r == Contents(con[s][c], "ForceDirect", 0, <<>>)
  <1>2. UNCHANGED <<live, files, disk, fds>>
    BY <1>1 DEF RenameGivesUp, OpenElsewhere
  <1>3. con[s][c].fd = -1
    BY <1>1, NewSlotFree DEF CInv, SlotsOK, RecordOK
  <1>4. RecordOK(r) /\ r.fd = -1 /\ SetCon(s, c, r)
    BY <1>1, <1>3, Zenon DEF RecordOK, StateNames, Contents
  <1> HIDE DEF r
  <1> QED BY <1>1, <1>2, <1>4, NewOnlyKeeps, Zenon

-----------------------------------------------------------------------------
\* The calls that only move or copy a descriptor of the program.
LEMMA FdStepsKeep ==
  ASSUME CInv, NEW s \in live, NEW f \in Fds,
         \/ Close(s, f) \/ WriteDropped(s, f)
         \/ \E g \in Fds : Dup2(s, f, g)
         \/ \E m \in Counts : Read(s, f, m) \/ \E w : Lseek(s, f, m, w)
  PROVE  CRest'
  <1>1. ASSUME NEW g \in Fds, SetFd(s, g, Closed), UNCHANGED <<resVars, disk, con, ncon>>
        PROVE  CRest'
    <2>1. Closed.slot = 0
      BY Zenon DEF Closed
    <2> QED BY <1>1, <2>1, FdKeeps, Zenon DEF resVars
  <1>2. ASSUME NEW off, fds[s][f].slot # 0, SetFd(s, f, At(fds[s][f], off)),
               UNCHANGED <<resVars, disk, con, ncon>>
        PROVE  CRest'
    <2>1. At(fds[s][f], off).slot = fds[s][f].slot /\ At(fds[s][f], off).fd = fds[s][f].fd
      BY Zenon DEF At
    <2> QED BY <1>2, <2>1, OpenFd, FdKeeps, Zenon DEF resVars
  <1>3. ASSUME NEW g \in Fds, fds[s][f].slot # 0, SetFd(s, g, fds[s][f]),
               UNCHANGED <<resVars, disk, con, ncon>>
        PROVE  CRest'
    BY <1>3, OpenFd, FdKeeps, Zenon DEF resVars
  <1>4. ASSUME Close(s, f) PROVE CRest'
    BY <1>1, <1>4, Zenon DEF Close
  <1>5. ASSUME WriteDropped(s, f) PROVE CRest'
    BY <1>2, <1>5, Zenon DEF WriteDropped
  <1>6. ASSUME NEW g \in Fds, Dup2(s, f, g) PROVE CRest'
    BY <1>1, <1>3, <1>6, Zenon DEF Dup2
  <1>7. ASSUME NEW m \in Counts, Read(s, f, m) PROVE CRest'
    BY <1>2, <1>7, Zenon DEF Read
  <1>8. ASSUME NEW m \in Counts, NEW w, Lseek(s, f, m, w) PROVE CRest'
    BY <1>2, <1>8, Zenon DEF Lseek
  <1> QED BY <1>4, <1>5, <1>6, <1>7, <1>8, Zenon

\* The calls that change a record, but not where its bytes are.
LEMMA ContentsKeep ==
  ASSUME CInv, NEW s \in live, NEW c \in Slots, con[s][c].state # "Free",
         NEW state \in StateNames \ {"Free"},
         state \in {"Direct", "ForceDirect"} => InPlace(con[s][c]),
         NEW size, NEW data, SetCon(s, c, Contents(con[s][c], state, size, data)),
         UNCHANGED <<live, files, disk, ncon>>,
         \/ fds' = fds
         \/ \E f \in Fds : \E o : /\ fds[s][f].slot = c
                                  /\ SetFd(s, f, At(fds[s][f], o))
  PROVE  CRest'
  <1> DEFINE r == Contents(con[s][c], state, size, data)
  <1>1. r.state = state /\ r.fd = con[s][c].fd
    BY Zenon DEF Contents
  <1> HIDE DEF r
  <1>2. InPlace(r) => InPlace(con[s][c])
    BY <1>1, Zenon DEF InPlace
  <1>3. ASSUME NEW f \in Fds, NEW o, fds[s][f].slot = c, SetFd(s, f, At(fds[s][f], o))
        PROVE  SetsFd(s, c, r)
    <2>1. fds[s][f].fd = con[s][c].fd
      BY <1>3, OpenFd, ConAssumption, SMTT(30) DEF Slots
    <2>2. At(fds[s][f], o) = [slot |-> c, fd |-> r.fd, off |-> o]
      BY <1>1, <1>3, <2>1 DEF At
    <2> QED BY <1>3, <2>2, ZenonT(40) DEF SetsFd
  <1>4. fds' = fds \/ SetsFd(s, c, r)
    BY <1>3
  <1>5. SetCon(s, c, r)
    BY DEF r
  <1> QED BY <1>1, <1>2, <1>4, <1>5, DiskKept, UpdateKeeps, Zenon

\* The calls that change a file in memory, and a write that cannot move one there.
LEMMA WriteKeeps ==
  ASSUME CInv, NEW s \in live, NEW f \in Fds,
         \/ \E b \in Data : WriteInMem(s, f, b)
         \/ WriteGivesUp(s, f)
         \/ \E n \in Counts : Ftruncate(s, f, n)
  PROVE  CRest'
  <1> DEFINE c == fds[s][f].slot
             r == con[s][c]
  <1>0. c \in Slots /\ r.state \in StateNames \ {"Free"}
    BY OpenFd, Zenon DEF WriteInMem, WriteGivesUp, Ftruncate, RecordOK
  <1>1. ASSUME NEW b \in Data, WriteInMem(s, f, b) PROVE CRest'
    <2>1. PICK size, data : Stored(r, fds[s][f].off, b) = Contents(r, r.state, size, data)
      BY Zenon DEF Stored
    <2>2. /\ r.state = "InMem" /\ SetCon(s, c, Contents(r, r.state, size, data))
          /\ SetFd(s, f, At(fds[s][f], fds[s][f].off + 1))
          /\ UNCHANGED <<live, files, disk, ncon>>
      BY <1>1, <2>1, Zenon DEF WriteInMem, resVars
    <2> QED BY <1>0, <2>2, ContentsKeep, Zenon
  <1>2. ASSUME WriteGivesUp(s, f) PROVE CRest'
    <2>1. /\ r.state = "Direct" /\ SetCon(s, c, Contents(r, "ForceDirect", r.size, r.data))
          /\ UNCHANGED <<live, files, disk, ncon, fds>>
      BY <1>2, Zenon DEF WriteGivesUp, resVars
    <2>2. "ForceDirect" \in StateNames \ {"Free"} /\ InPlace(r)
      BY <2>1, Zenon DEF StateNames, InPlace
    <2> QED BY <1>0, <2>1, <2>2, ContentsKeep, Zenon
  <1>3. ASSUME NEW n \in Counts, Ftruncate(s, f, n) PROVE CRest'
    <2>1. PICK data : SetCon(s, c, Contents(r, r.state, n, data))
      BY <1>3, Zenon DEF Ftruncate
    <2>2. UNCHANGED <<live, files, disk, ncon, fds>>
      BY <1>3, Zenon DEF Ftruncate, resVars
    <2>3. r.state \in {"Direct", "ForceDirect"} => InPlace(r)
      BY Zenon DEF InPlace
    <2> QED BY <1>0, <2>1, <2>2, <2>3, ContentsKeep, Zenon
  <1> QED BY <1>1, <1>2, <1>3, Zenon

\* link() and rename() of a file that has a record.
LEMMA NameStepsKeep ==
  ASSUME CInv, NEW s \in live, NEW old \in Names, NEW new \in Names,
         LinkRecord(s, old, new) \/ RenameRecord(s, old, new)
  PROVE  CRest'
  <1>1. PICK c \in Slots, i \in 1..MaxLinks :
          Found(s, old, c) /\ SetCon(s, c, WithName(con[s][c], i, new))
    BY Zenon DEF LinkRecord, RenameRecord
  <1>2. UNCHANGED <<live, files, disk, ncon, fds>>
    BY Zenon DEF LinkRecord, RenameRecord, resVars
  <1> DEFINE r == WithName(con[s][c], i, new)
  <1>3. r.state = con[s][c].state /\ r.fd = con[s][c].fd /\ SetCon(s, c, r)
    BY <1>1, Zenon DEF WithName
  <1> HIDE DEF r
  <1>4. con[s][c].state # "Free" /\ con[s][c].state \in StateNames
    BY <1>1, Zenon DEF Found, CInv, SlotsOK, RecordOK
  <1>5. InPlace(r) => InPlace(con[s][c])
    BY <1>3, Zenon DEF InPlace
  <1> QED BY <1>2, <1>3, <1>4, <1>5, DiskKept, UpdateKeeps, Zenon

\* unlink() frees a record that no descriptor leads to.
LEMMA UnlinkKeeps ==
  ASSUME CInv, ~UnlinkOpen, NEW s \in live, NEW n \in Names, Unlink(s, n)
  PROVE  CRest'
  <1> DEFINE r == [state |-> "Free", fd |-> -1, name |-> Null, isdir |-> FALSE,
                   size |-> 0, data |-> <<>>, wild |-> FALSE]
  <1>1. PICK c \in Slots : SetCon(s, c, r) /\ \A f \in Fds : fds[s][f].slot # c
    BY Zenon DEF Unlink
  <1>2. UNCHANGED <<live, files, disk, ncon, fds>>
    BY DEF Unlink, resVars
  <1>3. RecordOK(r) /\ ~InPlace(r) /\ r.state = "Free"
    BY Zenon DEF RecordOK, StateNames, InPlace
  <1> HIDE DEF r
  <1>4. DOMAIN ncon' = States /\ \A t \in live : ncon'[t] \in Nat \ {0} /\ ncon'[t] >= ncon[t]
    BY <1>2, SMTT(30) DEF CInv, Shape, SlotsOK
  <1> QED BY <1>1, <1>2, <1>3, <1>4, DiskKept, RecKeeps, SMTT(30)

\* open() that fails: the table may have grown.
LEMMA OpenFailsKeeps ==
  ASSUME CInv, NEW s \in live, NEW n \in Names, OpenFails(s, n)
  PROVE  CRest'
  <1>1. PICK c \in Slots, k \in Slots : NewSlot(s, c, k) /\ ncon' = [ncon EXCEPT ![s] = k]
    BY Zenon DEF OpenFails
  <1>2. UNCHANGED <<live, files, disk, con, fds>>
    BY DEF OpenFails, resVars
  <1>3. k \in Nat \ {0} /\ k >= ncon[s]
    BY <1>1, NewSlotFree
  <1>4. DOMAIN ncon' = States /\ \A t \in live : ncon'[t] \in Nat \ {0} /\ ncon'[t] >= ncon[t]
    BY <1>1, <1>3, LiveAreStates, SMTT(30) DEF CInv, Shape, SlotsOK
  <1>5. SlotsOK'
    <2>1. Slots \subseteq Nat
      BY ConAssumption, SMTT(30) DEF Slots
    <2>2. \A t \in live : ncon[t] \in Nat
      BY Zenon DEF CInv, SlotsOK
    <2> QED BY <1>2, <1>4, <2>1, <2>2, SMTT(30) DEF CInv, SlotsOK, RecordOK
  <1>6. Shape' /\ Bound' /\ Apart' /\ DirectIsHeld' /\ DiskOK'
    BY <1>2, <1>4, ZenonT(40) DEF CInv, Shape, Bound, Apart, DirectIsHeld, DiskOK, InPlace
  <1> QED BY <1>5, <1>6 DEF CRest

\* A host descriptor that is free is not one of a file read in place.
LEMMA FreshFd ==
  ASSUME CInv, NEW s \in live, NEW h \in HostFds, host[h] = Null, NEW c \in Slots,
         InPlace(con[s][c])
  PROVE  con[s][c].fd # h
  <1>1. h # -1
    BY ResMgrAssumption, SMTT(30)
  <1> QED BY <1>1, HeldOpen DEF HeldIsOpen, CInv, DirectIsHeld, InPlace

\* open() of a file of the host: the number it gets is no other record's.
LEMMA OpenHostKeeps ==
  ASSUME CInv, NEW s \in live, NEW n \in Names, NEW trunc, OpenHost(s, n, trunc)
  PROVE  CRest'
  <1>0. DiskOK'
    <2>1. disk' = disk \/ disk' = [disk EXCEPT ![n] = [kind |-> "file", bytes |-> <<>>]]
      BY Zenon DEF OpenHost
    <2>2. [kind |-> "file", bytes |-> <<>>] \in [kind : Kinds, bytes : Seq(Byte)]
      BY SMTT(30) DEF Kinds
    <2> QED BY <2>1, <2>2, Zenon DEF CInv, DiskOK
  <1> DEFINE Direct(h) == [state |-> "Direct", fd |-> h, name |-> Named(n), isdir |-> FALSE,
                           size |-> 0, data |-> <<>>, wild |-> FALSE]
             InMem(h, d) == [state |-> "InMem", fd |-> h, name |-> Named(n), isdir |-> FALSE,
                             size |-> Len(disk'[n].bytes), wild |-> FALSE, data |-> d]
             Fd(c, h) == [slot |-> c, fd |-> h, off |-> 0]
  <1>1. PICK f \in Fds, c \in Slots, k \in Slots, h \in HostFds :
          /\ NewSlot(s, c, k) /\ LowestFree(h)
          /\ \/ OpenFile(s, n, h) /\ SetCon(s, c, Direct(h))
             \/ (\E d : SetCon(s, c, InMem(h, d))) /\ UNCHANGED resVars
          /\ SetFd(s, f, Fd(c, h))
          /\ ncon' = [ncon EXCEPT ![s] = k]
    BY ZenonT(40) DEF OpenHost
  <1>2. ASSUME NEW d, SetCon(s, c, InMem(h, d)), UNCHANGED resVars PROVE CRest'
    <2> DEFINE r == InMem(h, d)
    <2>1. r.state = "InMem" /\ r.fd = h /\ SetCon(s, c, r)
      BY <1>2
    <2> HIDE DEF r
    <2>2. RecordOK(r) /\ ~InPlace(r)
      BY <2>1, Zenon DEF RecordOK, StateNames, InPlace
    <2>3. SetsFd(s, c, r) /\ r.state # "Free"
      BY <1>1, <2>1, Zenon DEF SetsFd
    <2>4. live' = live /\ files' = files
      BY <1>2 DEF resVars
    <2> QED BY <1>0, <1>1, <2>1, <2>2, <2>3, <2>4, NewRecKeeps, Zenon
  <1>3. ASSUME OpenFile(s, n, h), SetCon(s, c, Direct(h)) PROVE CRest'
    <2> DEFINE r == Direct(h)
               d == Fd(c, h)
    <2>1. /\ r.state = "Direct" /\ r.fd = h /\ SetCon(s, c, r)
          /\ d.slot = c /\ d.fd = h /\ SetFd(s, f, d)
      BY <1>1, <1>3, Zenon
    <2> HIDE DEF r, d, Direct, InMem, Fd
    <2>2. /\ DOMAIN con' = States /\ \A t \in States : DOMAIN con'[t] = Slots
          /\ con'[s][c] = r
          /\ \A t \in States, e \in Slots : t # s \/ e # c => con'[t][e] = con[t][e]
      BY <2>1, SetConEffect, LiveAreStates, ZenonT(40) DEF CInv
    <2>3. /\ DOMAIN fds' = States /\ \A t \in States : DOMAIN fds'[t] = Fds
          /\ fds'[s][f] = d
          /\ \A t \in States, g \in Fds : t # s \/ g # f => fds'[t][g] = fds[t][g]
      BY <2>1, SetFdEffect, LiveAreStates, ZenonT(40) DEF CInv
    <2>4. con[s][c].state = "Free" /\ k \in Nat \ {0} /\ k >= ncon[s] /\ c <= k
      BY <1>1, NewSlotFree
    <2>5. /\ DOMAIN ncon' = States /\ ncon'[s] = k
          /\ \A t \in live : ncon'[t] \in Nat \ {0} /\ ncon'[t] >= ncon[t]
      BY <1>1, <2>4, LiveAreStates, SMTT(30) DEF CInv, Shape, SlotsOK
    <2>6. /\ live' = live /\ files'[s][h] # Null
          /\ \A t \in live, g \in HostFds : files[t][g] # Null => files'[t][g] # Null
      <3>1. NewInfo \in Infos /\ NewInfo # Null
        BY <1>3, ResMgrAssumption, Zenon DEF OpenFile, FreeInfos, NewInfo
      <3> QED BY <1>3, <3>1, LiveAreStates, Zenon DEF OpenFile, CInv, RInv, ResTypeOK
    <2>7. Shape'
      BY <2>2, <2>3, <2>5, Zenon DEF Shape
    <2>8. SlotsOK'
      <3> SUFFICES ASSUME NEW t \in live, NEW e \in Slots
                   PROVE  /\ RecordOK(con'[t][e])
                          /\ e > ncon'[t] => con'[t][e].state = "Free"
        BY <2>5, <2>6, Zenon DEF SlotsOK, RecordOK
      <3>1. e \in Nat /\ ncon[t] \in Nat /\ ncon'[t] \in Nat /\ ncon'[t] >= ncon[t]
        BY <2>5, ConAssumption, SMTT(30) DEF Slots, CInv, SlotsOK
      <3>2. CASE t = s /\ e = c
        BY <2>1, <2>2, <2>4, <2>5, <3>1, <3>2, SMTT(30) DEF RecordOK, StateNames
      <3>3. CASE t # s \/ e # c
        BY <2>2, <3>1, <3>3, LiveAreStates, SMTT(30) DEF CInv, SlotsOK
      <3> QED BY <3>2, <3>3, Zenon
    <2>9. Bound'
      <3>1. \A g \in Fds : fds[s][g].slot # c
        BY <2>4, ConAssumption, SMTT(30) DEF CInv, Bound, Slots
      <3>2. /\ \A t \in live, e \in Slots : t # s \/ e # c => con'[t][e] = con[t][e]
            /\ \A t \in live, g \in Fds : t # s \/ g # f => fds'[t][g] = fds[t][g]
        BY <2>2, <2>3, LiveAreStates, SMTT(30)
      <3> QED BY <2>1, <2>2, <2>3, <2>6, <3>1, <3>2, BoundKeeps, SMTT(30)
    <2>10. Apart'
      <3>1. \A e \in Slots : InPlace(con[s][e]) => con[s][e].fd # h
        BY <1>1, FreshFd, Zenon DEF LowestFree
      <3> QED BY <2>1, <2>2, <2>6, <3>1, LiveAreStates, SMTT(30) DEF CInv, Apart, InPlace
    <2>11. DirectIsHeld'
      <3> SUFFICES ASSUME NEW t \in live, NEW e \in Slots, InPlace(con'[t][e]), con'[t][e].fd # -1
                   PROVE  files'[t][con'[t][e].fd] # Null
        BY <2>6, Zenon DEF DirectIsHeld, InPlace
      <3>1. CASE t = s /\ e = c
        BY <2>1, <2>2, <2>6, <3>1, Zenon
      <3>2. CASE t # s \/ e # c
        <4>1. con'[t][e] = con[t][e]
          BY <2>2, <3>2, LiveAreStates, Zenon
        <4>2. con[t][e].fd \in HostFds /\ files[t][con[t][e].fd] # Null
          BY <4>1, Zenon DEF CInv, DirectIsHeld, InPlace, SlotsOK, RecordOK
        <4> QED BY <2>6, <4>1, <4>2, Zenon
      <3> QED BY <3>1, <3>2, Zenon
    <2> QED BY <1>0, <2>7, <2>8, <2>9, <2>10, <2>11, Zenon DEF CRest
  <1> QED BY <1>1, <1>2, <1>3, Zenon

\* The first write() to a file read in place moves it into memory, and closes its
\* host descriptor, under every descriptor of the program that leads to it.
LEMMA WriteDirectKeeps ==
  ASSUME CInv, NEW s \in live, NEW f \in Fds, NEW b \in Data, WriteDirect(s, f, b)
  PROVE  CRest'
  <1> DEFINE c == fds[s][f].slot
             h == fds[s][f].fd
             r == Stored(InMemory(con[s][c], h), fds[s][f].off, b)
             d == At(fds[s][f], fds[s][f].off + 1)
  <1>0. /\ c \in Slots /\ con[s][c].state = "Direct" /\ h = con[s][c].fd /\ h \in HostFds
        /\ RecordOK(con[s][c])
    BY OpenFd, BehindOpen, Zenon DEF WriteDirect
  <1>1. /\ SetCon(s, c, r) /\ SetFd(s, f, d) /\ CloseFile(s, h) /\ disk' = disk /\ ncon' = ncon
    BY Zenon DEF WriteDirect
  <1>2. r.state = "InMem" /\ r.fd = h /\ d.slot = c /\ d.fd = h
    BY <1>0, Zenon DEF Stored, InMemory, Contents, At
  <1>4. /\ DOMAIN con' = States /\ \A t \in States : DOMAIN con'[t] = Slots
        /\ con'[s][c] = r
        /\ \A t \in States, e \in Slots : t # s \/ e # c => con'[t][e] = con[t][e]
    BY <1>0, <1>1, SetConEffect, LiveAreStates, ZenonT(40) DEF CInv
  <1>5. /\ DOMAIN fds' = States /\ \A t \in States : DOMAIN fds'[t] = Fds
        /\ fds'[s][f] = d
        /\ \A t \in States, g \in Fds : t # s \/ g # f => fds'[t][g] = fds[t][g]
    BY <1>1, SetFdEffect, LiveAreStates, SMTT(30) DEF CInv
  <1>6. fds[s][f].slot = c /\ fds[s][f].fd = h
    OBVIOUS
  <1> HIDE DEF c, h, r, d
  <1>3. /\ live' = live /\ files'[s][h] = Null
        /\ \A t \in live, g \in HostFds : t # s \/ g # h => files'[t][g] = files[t][g]
    <2>0. files[s][h] # Null
      BY <1>0, ResMgrAssumption, SMTT(30) DEF CInv, DirectIsHeld
    <2>1. live' = live /\ files' = [files EXCEPT ![s][h] = Null]
      BY <1>0, <1>1, <2>0 DEF CloseFile
    <2>2. files \in [States -> [HostFds -> Infos \cup {Null}]] /\ s \in States
      BY LiveAreStates, Zenon DEF CInv, RInv, ResTypeOK
    <2> QED BY <1>0, <2>1, <2>2, LiveAreStates
  <1>7. Shape' /\ DiskOK'
    BY <1>1, <1>4, <1>5, Zenon DEF CInv, Shape, DiskOK
  <1>8. SlotsOK'
    <2> SUFFICES ASSUME NEW t \in live, NEW e \in Slots
                 PROVE  RecordOK(con'[t][e]) /\ (e > ncon[t] => con'[t][e].state = "Free")
      BY <1>1, <1>3, Zenon DEF CInv, SlotsOK, RecordOK
    <2>1. CASE t = s /\ e = c
      BY <1>0, <1>2, <1>4, <2>1, Zenon DEF RecordOK, StateNames, CInv, SlotsOK
    <2>2. CASE t # s \/ e # c
      BY <1>4, <2>2, LiveAreStates, ZenonT(40) DEF CInv, SlotsOK
    <2> QED BY <2>1, <2>2, Zenon
  <1>9. Bound'
    <2>1. /\ \A t \in live, e \in Slots : t # s \/ e # c => con'[t][e] = con[t][e]
          /\ \A t \in live, g \in Fds : t # s \/ g # f => fds'[t][g] = fds[t][g]
      BY <1>4, <1>5, LiveAreStates, Zenon
    <2> QED BY <1>0, <1>2, <1>3, <1>4, <1>5, <2>1, BoundKeeps, SMTT(30)
  <1>10. \A t \in live, e \in Slots :
           InPlace(con'[t][e]) => con'[t][e] = con[t][e] /\ (t # s \/ e # c)
    BY <1>2, <1>4, LiveAreStates, Zenon DEF InPlace
  <1>11. Apart'
    BY <1>3, <1>10, SMTT(30) DEF CInv, Apart
  <1>12. DirectIsHeld'
    <2> SUFFICES ASSUME NEW t \in live, NEW e \in Slots, InPlace(con'[t][e]), con'[t][e].fd # -1
                 PROVE  files'[t][con'[t][e].fd] # Null
      BY <1>3 DEF DirectIsHeld, InPlace
    <2>1. con'[t][e] = con[t][e] /\ (t # s \/ e # c)
      BY <1>10
    <2>2. con[t][e].fd \in HostFds /\ files[t][con[t][e].fd] # Null
      BY <2>1, Zenon DEF CInv, DirectIsHeld, InPlace, SlotsOK, RecordOK
    <2>3. InPlace(con[s][c]) /\ h # -1
      BY <1>0, ResMgrAssumption, SMTT(30) DEF InPlace
    <2>4. t # s \/ con[t][e].fd # h
      BY <1>0, <2>1, <2>3, Zenon DEF CInv, Apart
    <2> QED BY <1>3, <2>1, <2>2, <2>4, SMTT(30)
  <1> QED BY <1>7, <1>8, <1>9, <1>11, <1>12, Zenon DEF CRest

\* A fork copies the tables together with the ResMgr.
LEMMA ForkKeeps ==
  ASSUME CInv, NEW s \in live, NEW t \in States, Fork(s, t)
  PROVE  CRest'
  <1>1. /\ s \in States /\ t \notin live /\ live' = live \cup {t} /\ disk' = disk
        /\ con' = [con EXCEPT ![t] = con[s]] /\ fds' = [fds EXCEPT ![t] = fds[s]]
        /\ ncon' = [ncon EXCEPT ![t] = ncon[s]] /\ files' = [files EXCEPT ![t] = files[s]]
    BY LiveAreStates, Zenon DEF Fork, Copy
  <1>2. \A u \in live' : \E v \in live :
          con'[u] = con[v] /\ fds'[u] = fds[v] /\ ncon'[u] = ncon[v] /\ files'[u] = files[v]
    BY <1>1, LiveAreStates, Zenon DEF CInv, Shape, RInv, ResTypeOK
  <1>3. Shape' /\ DiskOK'
    BY <1>1 DEF CInv, Shape, DiskOK
  <1>4. SlotsOK'
    BY <1>2, SMTT(30) DEF CInv, SlotsOK, RecordOK
  <1>5. Bound'
    BY <1>2, SMTT(30) DEF CInv, Bound
  <1>6. Apart'
    BY <1>2, SMTT(30) DEF CInv, Apart, InPlace
  <1>7. DirectIsHeld'
    BY <1>2 DEF CInv, DirectIsHeld
  <1> QED BY <1>3, <1>4, <1>5, <1>6, <1>7, Zenon DEF CRest

\* The end of a state leaves the tables of the others.
LEMMA TerminateKeeps ==
  ASSUME CInv, NEW s \in live, Terminate(s)
  PROVE  CRest'
  <1>1. /\ s \in States /\ live' = live \ {s} /\ disk' = disk
        /\ con' = [con EXCEPT ![s] = NoCon] /\ fds' = [fds EXCEPT ![s] = NoFds]
        /\ ncon' = [ncon EXCEPT ![s] = InitialSlots] /\ files' = [files EXCEPT ![s] = NoFiles]
    BY LiveAreStates, Zenon DEF Terminate, Destroy
  <1>2. \A u \in live' : /\ u \in live /\ con'[u] = con[u] /\ fds'[u] = fds[u]
                         /\ ncon'[u] = ncon[u] /\ files'[u] = files[u]
    BY <1>1, LiveAreStates, Zenon DEF CInv, Shape, RInv, ResTypeOK
  <1>3. Shape' /\ DiskOK'
    BY <1>1, ZenonT(40) DEF CInv, Shape, DiskOK, NoCon, NoFds
  <1>4. SlotsOK' /\ Bound' /\ Apart' /\ DirectIsHeld'
    BY <1>2, SMTT(30) DEF CInv, SlotsOK, Bound, Apart, DirectIsHeld, RecordOK, InPlace
  <1> QED BY <1>3, <1>4 DEF CRest

-----------------------------------------------------------------------------
\* At first no file is open.
LEMMA CInvInit == Init => CInv
  <1> SUFFICES ASSUME Init PROVE CInv
    OBVIOUS
  <1>1. RInv
    BY RInvInit DEF Init
  <1>2. Shape
    BY DEF Init, Shape, NoCon, NoFds
  <1>3. \A s \in States, c \in Slots : con[s][c] = FreshSlot
    BY DEF Init, NoCon
  <1>4. FreshSlot.state = "Free" /\ FreshSlot.fd = -1
    BY DEF FreshSlot
  <1>5. \A s \in States, f \in Fds : fds[s][f] = Closed
    BY DEF Init, NoFds
  <1>6. Closed.slot = 0
    BY DEF Closed
  <1>7. \A s \in live : s \in States /\ ncon[s] \in Nat \ {0}
    BY ResMgrAssumption, ConAssumption, Zenon DEF Init, ResInit
  <1>8. SlotsOK
    BY <1>3, <1>4, <1>7, Zenon DEF SlotsOK, RecordOK, StateNames
  <1>9. Bound /\ Apart /\ DirectIsHeld
    BY <1>3, <1>4, <1>5, <1>6, <1>7, Zenon DEF Bound, Apart, DirectIsHeld, InPlace
  <1>10. DiskOK
    BY ConAssumption DEF Init, DiskOK
  <1> QED BY <1>1, <1>2, <1>8, <1>9, <1>10, Zenon DEF CInv

\* Every call keeps the invariant, if no open file is removed.
LEMMA CInvStep ==
  ASSUME ~UnlinkOpen, CInv, [Next]_vars
  PROVE  CInv'
  <1>1. RInv'
    BY StepIsResMgr, ResStep DEF CInv, RInv, ResTypeOK
  <1>2. ASSUME UNCHANGED vars PROVE CRest'
    <2>1. Shape' /\ DiskOK'
      BY <1>2, Zenon DEF vars, CInv, Shape, DiskOK
    <2>2. SlotsOK'
      BY <1>2, Zenon DEF vars, CInv, SlotsOK, RecordOK
    <2>3. Bound'
      BY <1>2, Zenon DEF vars, CInv, Bound
    <2>4. Apart'
      BY <1>2, ZenonT(40) DEF vars, CInv, Apart, InPlace
    <2>5. DirectIsHeld'
      BY <1>2, Zenon DEF vars, CInv, DirectIsHeld
    <2> QED BY <2>1, <2>2, <2>3, <2>4, <2>5, Zenon DEF CRest
  <1>3. ASSUME NEW s \in live, NEW n \in Names, Open(s, n) PROVE CRest'
    BY <1>3, OpenAgainKeeps, OpenFailsKeeps, OpenCreateKeeps, OpenHostKeeps, Zenon DEF Open
  <1>4. ASSUME NEW s \in live, NEW f \in Fds, Transfer(s, f) PROVE CRest'
    BY <1>4, FdStepsKeep, WriteKeeps, WriteDirectKeeps, Zenon DEF Transfer
  <1>5. ASSUME NEW s \in live, NEW f \in Fds, Adjust(s, f) PROVE CRest'
    BY <1>5, FdStepsKeep, WriteKeeps, Zenon DEF Adjust
  <1>6. ASSUME NEW s \in live, NEW n \in Names, Rearrange(s, n) PROVE CRest'
    BY <1>6, MkdirKeeps, UnlinkKeeps, RenameGivesUpKeeps, NameStepsKeep, LinkHostKeeps,
       RenameHostKeeps, Zenon DEF Rearrange
  <1>7. CRest'
    BY <1>2, <1>3, <1>4, <1>5, <1>6, ForkKeeps, TerminateKeeps, ZenonT(40) DEF Next, Moves, Changes
  <1> QED BY <1>1, <1>7, Zenon DEF CInv, CRest

\* The invariant holds if no open file is removed.
LEMMA FilesCorrect == ASSUME ~UnlinkOpen PROVE Spec => []CInv
  <1>1. CInv /\ [Next]_vars => CInv'
    BY CInvStep
  <1> QED BY <1>1, CInvInit, PTL DEF Spec

(* As long as the program removes no file it has open, a file read in      *)
(* place is one its state's ResMgr holds (__fd_open, make_con_inmem).      *)
THEOREM DirectStaysHeld == ASSUME ~UnlinkOpen PROVE Spec => []DirectIsHeld
  <1>1. CInv => DirectIsHeld
    BY Zenon DEF CInv
  <1> QED BY <1>1, FilesCorrect, PTL

(* And the assertions of read() and write() on the state of a file never   *)
(* fail; the run con_files_unlink shows that they do otherwise.            *)
THEOREM AssertsStay == ASSUME ~UnlinkOpen PROVE Spec => []AssertsHold
  <1>1. CInv => AssertsHold
    BY Zenon DEF CInv, Bound, AssertsHold
  <1> QED BY <1>1, FilesCorrect, PTL

(* And every descriptor reads the bytes of the file it was opened on,      *)
(* wherever these are by then (read()).                                    *)
THEOREM ReadsStayTrue == ASSUME ~UnlinkOpen PROVE Spec => []ReadsItsFile
  <1>1. ASSUME CInv, NEW s \in live, NEW f \in Fds, fds[s][f].slot # 0,
               Image(s, fds[s][f].slot).kind = "bytes"
        PROVE  Readable(s, fds[s][f]) =
                 [kind |-> "file", bytes |-> Image(s, fds[s][f].slot).bytes]
    <2> DEFINE c == fds[s][f].slot
               r == con[s][c]
    <2>1. c \in Slots /\ r.state \in StateNames /\ r.state # "Free" /\ fds[s][f].fd = r.fd
      BY <1>1, OpenFd, Zenon DEF RecordOK
    <2>2. CASE r.state = "InMem" /\ r.isdir
      BY <1>1, <2>2, Zenon DEF Image
    <2>3. CASE r.state = "InMem" /\ ~r.isdir
      BY <2>3, Zenon DEF Image, Readable
    <2>4. CASE r.state # "InMem"
      <3>1. Behind(r.fd).kind = "file" /\ Image(s, c).bytes = Behind(r.fd).bytes
        BY <1>1, <2>1, <2>4, Zenon DEF Image, StateNames
      <3>2. Behind(r.fd) \in [kind : Kinds, bytes : Seq(Byte)]
        BY <1>1, <3>1, BehindOpen, Zenon DEF Behind, CInv, DiskOK, RInv, ResTypeOK
      <3>3. Readable(s, fds[s][f]) = Behind(r.fd)
        BY <2>1, <2>4, Zenon DEF Readable
      <3> QED BY <3>1, <3>2, <3>3, Zenon
    <2> QED BY <2>2, <2>3, <2>4, Zenon
  <1>2. CInv => ReadsItsFile
    BY <1>1 DEF ReadsItsFile
  <1> QED BY <1>2, FilesCorrect, PTL

-----------------------------------------------------------------------------
\* A set of numbers has a least one.
LEMMA LeastNumber ==
  ASSUME NEW T, T \subseteq Nat, T # {}
  PROVE  \E x \in T : \A y \in T : x <= y
  <1>1. \E x \in T : \A y \in T : ~(<<y, x>> \in OpToRel(<, Nat))
    BY NatLessThanWellFounded, WFMin, Zenon
  <1>2. PICK R : R = OpToRel(<, Nat)
    BY Zenon
  <1>3. R = {p \in Nat \X Nat : p[1] < p[2]}
    BY <1>2, Zenon DEF OpToRel
  <1>4. PICK x \in T : \A y \in T : ~(<<y, x>> \in R)
    BY <1>1, <1>2, Zenon
  <1>5. ASSUME NEW y \in T PROVE x <= y
    <2>1. x \in Nat /\ y \in Nat /\ (y < x => <<y, x>> \in R)
      BY <1>3
    <2>2. ~(y < x)
      BY <1>4, <2>1, Zenon
    <2> QED BY <2>1, <2>2
  <1> QED BY <1>5, Zenon

\* Powers of two are numbers, and grow.
LEMMA PowersGrow == \A i \in 0..(MaxSize + 1) : 2^i \in Nat /\ i < 2^i
  <1> DEFINE Grows(i) == 2^i \in Nat /\ i < 2^i
             T == {i \in 0..(MaxSize + 1) : ~Grows(i)}
  <1>0. MaxSize \in Nat
    BY ConAssumption
  <1> SUFFICES ASSUME T # {} PROVE FALSE
    BY Zenon
  <1>1. T \subseteq Nat
    BY <1>0
  <1>2. PICK x \in T : \A y \in T : x <= y
    BY <1>1, LeastNumber, Zenon
  <1>3. x \in 0..(MaxSize + 1) /\ ~Grows(x)
    BY Zenon
  <1>4. x # 0
    <2>1. Grows(0)
      BY PowerAssumption
    <2> QED BY <1>3, <2>1, Zenon
  <1>5. PICK y \in 0..MaxSize : x = y + 1
    <2>1. x - 1 \in 0..MaxSize /\ x = (x - 1) + 1
      BY <1>0, <1>3, <1>4
    <2> QED BY <2>1, Zenon
  <1>6. y \in 0..(MaxSize + 1) /\ ~(x <= y)
    BY <1>0, <1>5
  <1>7. Grows(y)
    BY <1>2, <1>6, Zenon
  <1>8. 2^x = 2 * 2^y
    BY <1>5, PowerAssumption, Zenon
  <1>9. Grows(x)
    BY <1>5, <1>7, <1>8
  <1> QED BY <1>3, <1>9, Zenon

\* A multiple is no less.
LEMMA TimesGrows ==
  ASSUME NEW a \in Nat \ {0}, NEW b \in Nat
  PROVE  a * b \in Nat /\ a * b >= b
  OBVIOUS

\* The loops that double a buffer's size end, with a size that is large enough.
LEMMA CapacityHolds ==
  ASSUME NEW first \in Nat \ {0}, NEW size \in 0..MaxSize
  PROVE  Capacity(first, size) \in Nat /\ Capacity(first, size) >= size
  <1> DEFINE D == {first * 2^i : i \in 0..size}
             T == {m \in D : m >= size}
             Least(c) == c >= size /\ \A i \in 0..size : first * 2^i >= size => c <= first * 2^i
  <1>1. \A i \in 0..size : 2^i \in Nat /\ i < 2^i
    BY PowersGrow, ConAssumption
  <1>2. \A i \in 0..size : first * 2^i \in Nat /\ first * 2^i >= 2^i
    BY <1>1, TimesGrows, Zenon
  <1>3. D \subseteq Nat
    BY <1>2, Zenon
  <1>4. first * 2^size \in T
    <2>1. size \in 0..size /\ size \in Nat
      BY ConAssumption
    <2>2. 2^size \in Nat /\ size < 2^size /\ first * 2^size \in Nat /\ first * 2^size >= 2^size
      BY <1>1, <1>2, <2>1, Zenon
    <2>3. first * 2^size >= size
      BY <2>1, <2>2
    <2>4. first * 2^size \in D
      BY <2>1, Zenon
    <2> QED BY <2>3, <2>4, Zenon
  <1>5. PICK c \in T : \A m \in T : c <= m
    <2>1. T \subseteq Nat /\ T # {}
      BY <1>3, <1>4, Zenon
    <2> QED BY <2>1, LeastNumber, Zenon
  <1>6. c \in D /\ Least(c)
    BY <1>5, Zenon
  <1>7. Capacity(first, size) = CHOOSE m \in D : Least(m)
    BY DEF Capacity
  <1>8. Capacity(first, size) \in D /\ Least(Capacity(first, size))
    BY <1>6, <1>7, Zenon
  <1> QED BY <1>3, <1>8, Zenon

-----------------------------------------------------------------------------
\* A file in memory, its bytes, and what the calls keep true of its buffer.
IsFile(r) == r.state = "InMem" /\ ~r.isdir
Bytes(r) == SubSeq(r.data, 1, r.size)
BufferOK(r) ==
  /\ r.size \in Nat /\ r.data \in Seq(Byte)
  /\ r.state # "InMem" => ~r.isdir
  /\ IsFile(r) => r.size <= Len(r.data)

\* The bytes of a file in memory.
LEMMA BytesAre ==
  ASSUME NEW r, r.size \in Nat, r.data \in Seq(Byte), r.size <= Len(r.data)
  PROVE  /\ Len(Bytes(r)) = r.size
         /\ \A i \in 1..r.size : Bytes(r)[i] = r.data[i]
  <1>1. PICK d, n : d = r.data /\ n = r.size
    BY Zenon
  <1>2. d \in Seq(Byte) /\ n \in Nat /\ n <= Len(d)
    BY <1>1, Zenon
  <1>3. Len(SubSeq(d, 1, n)) = n /\ \A i \in 1..n : SubSeq(d, 1, n)[i] = d[i]
    BY <1>2
  <1> QED BY <1>1, <1>3, Zenon DEF Bytes

\* What a buffer holds when it has grown.
LEMMA GrownIs ==
  ASSUME NEW data \in Seq(Byte), NEW keep \in Nat, keep <= Len(data), NEW cap \in Nat
  PROVE  /\ Grown(data, keep, cap) \in Seq(Byte) /\ Len(Grown(data, keep, cap)) = cap
         /\ \A i \in 1..cap : i <= keep => Grown(data, keep, cap)[i] = data[i]
  BY ConAssumption DEF Grown

\* A byte stored in memory: the buffer holds it, and no other byte of the file changes.
LEMMA StoredIs ==
  ASSUME NEW r, r.size \in Nat, r.data \in Seq(Byte), r.size <= Len(r.data),
         NEW off \in Nat, off < MaxSize, NEW b \in Byte, NEW q, q = Stored(r, off, b)
  PROVE  /\ q.state = r.state /\ q.fd = r.fd /\ q.isdir = r.isdir
         /\ q.size \in Nat /\ q.data \in Seq(Byte) /\ q.size <= Len(q.data)
         /\ Images!Written(Bytes(r), Bytes(q), off, b)
  <1> DEFINE len == Len(r.data)
             first == IF len = 0 THEN BufMin ELSE 2 * len
             cap == Capacity(first, off + 1)
             buf == IF off + 1 <= len THEN r.data ELSE Grown(r.data, r.size, cap)
  <1>1. len \in Nat /\ first \in Nat \ {0} /\ off + 1 \in 0..MaxSize
    BY ConAssumption, SMTT(30)
  <1>2. /\ q.state = r.state /\ q.fd = r.fd /\ q.isdir = r.isdir
        /\ q.size = Max2(r.size, off + 1) /\ q.data = [buf EXCEPT ![off + 1] = b]
    BY DEF Stored, Contents
  <1> HIDE DEF first
  <1>3. cap \in Nat /\ cap >= off + 1
    BY <1>1, CapacityHolds, Zenon
  <1> HIDE DEF cap
  <1>4. buf \in Seq(Byte) /\ off + 1 <= Len(buf) /\ r.size <= Len(buf)
        /\ \A i \in 1..r.size : buf[i] = r.data[i]
    <2>1. CASE off + 1 <= len
      BY <1>1, <2>1
    <2>2. CASE ~(off + 1 <= len)
      <3>1. buf = Grown(r.data, r.size, cap)
        BY <2>2, Zenon
      <3> HIDE DEF buf
      <3>2. /\ buf \in Seq(Byte) /\ Len(buf) = cap
            /\ \A i \in 1..cap : i <= r.size => buf[i] = r.data[i]
        BY <1>3, <3>1, GrownIs, Zenon
      <3>3. r.size <= cap
        BY <1>1, <1>3, <2>2, SMTT(30)
      <3> QED BY <1>1, <1>3, <3>2, <3>3
    <2> QED BY <2>1, <2>2, Zenon
  <1> HIDE DEF buf
  <1>5. /\ q.data \in Seq(Byte) /\ Len(q.data) = Len(buf) /\ q.data[off + 1] = b
        /\ \A i \in 1..r.size : i # off + 1 => q.data[i] = r.data[i]
    BY <1>2, <1>4, SMTT(30)
  <1>6. /\ q.size \in Nat /\ q.size = IF off < r.size THEN r.size ELSE off + 1
        /\ q.size <= Len(q.data) /\ off + 1 \in 1..q.size /\ r.size <= q.size
    BY <1>2, <1>4, <1>5, SMTT(30) DEF Max2
  <1>7. Images!Written(Bytes(r), Bytes(q), off, b)
    <2>1. Len(Bytes(r)) = r.size /\ \A i \in 1..r.size : Bytes(r)[i] = r.data[i]
      BY BytesAre, Zenon
    <2>2. Len(Bytes(q)) = q.size /\ \A i \in 1..q.size : Bytes(q)[i] = q.data[i]
      BY <1>5, <1>6, BytesAre, Zenon
    <2>3. \A i \in 1..r.size : i \in 1..q.size
      BY <1>6
    <2> QED BY <1>5, <1>6, <2>1, <2>2, <2>3, ZenonT(40) DEF Images!Written
  <1> QED BY <1>2, <1>5, <1>6, <1>7, Zenon

-----------------------------------------------------------------------------
\* What every call but a fork or an end does: it moves one descriptor's offset or none, and
\* changes one record or none, in one of these ways.
BInv ==
  \A s \in live : /\ \A c \in Slots : BufferOK(con[s][c])
                  /\ \A f \in Fds : fds[s][f].off \in Nat

WrittenTo(old, new) == \E off \in 0..MaxSize, b \in Byte : Images!Written(old, new, off, b)
Becomes(q, r) ==
  \/ q.state = "Free" \/ r.state = "Free"
  \/ InPlace(q) /\ InPlace(r) /\ r.fd = q.fd
  \/ q.state = "InMem" /\ r.state = "InMem" /\ q.isdir /\ r.isdir
  \/ IsFile(q) /\ IsFile(r) /\ (Images!Truncated(Bytes(q), Bytes(r)) \/ WrittenTo(Bytes(q), Bytes(r)))
  \/ InPlace(q) /\ Behind(q.fd).kind = "file" /\ IsFile(r) /\ WrittenTo(Behind(q.fd).bytes, Bytes(r))

OffsetsMove(s) == fds' = fds \/ \E f \in Fds : \E d : SetFd(s, f, d) /\ d.off \in Nat
RecordMoves(s) ==
  \/ con' = con
  \/ \E c \in Slots : \E r : SetCon(s, c, r) /\ BufferOK(r) /\ Becomes(con[s][c], r)
Effect(s) == live' = live /\ OffsetsMove(s) /\ RecordMoves(s)

\* The bytes behind a host descriptor, and those a descriptor reads.
LEMMA BehindBytes ==
  ASSUME CInv, NEW h
  PROVE  Behind(h).bytes \in Seq(Byte)
  <1>1. CASE h \in HostFds /\ host[h] # Null
    <2>1. host[h] \in Names
      BY <1>1 DEF CInv, RInv, ResTypeOK
    <2>2. disk[host[h]].bytes \in Seq(Byte)
      BY <2>1 DEF CInv, DiskOK
    <2> QED BY <1>1, <2>2, Zenon DEF Behind
  <1>2. CASE ~(h \in HostFds /\ host[h] # Null)
    <2>1. Behind(h).bytes = <<>>
      BY <1>2 DEF Behind
    <2> QED BY <2>1
  <1> QED BY <1>1, <1>2, Zenon

\* What a descriptor reads has a length.
LEMMA ReadableLen ==
  ASSUME CInv, BInv, NEW s \in live, NEW f \in Fds, fds[s][f].slot # 0,
         Readable(s, fds[s][f]).kind = "file"
  PROVE  Len(Readable(s, fds[s][f]).bytes) \in Nat
  <1>1. PICK d : d = fds[s][f]
    BY Zenon
  <1>2. PICK r : r = con[s][d.slot]
    BY Zenon
  <1>3. BufferOK(r)
    BY <1>1, <1>2, OpenFd, Zenon DEF BInv
  <1>4. CASE r.state # "InMem"
    <2>1. Readable(s, d) = Behind(d.fd)
      BY <1>2, <1>4, Zenon DEF Readable
    <2>2. PICK b : b = Behind(d.fd).bytes /\ b \in Seq(Byte)
      BY BehindBytes, Zenon
    <2>3. Len(b) \in Nat
      BY <2>2
    <2> QED BY <1>1, <2>1, <2>2, <2>3, Zenon
  <1>5. CASE r.state = "InMem"
    <2>1. IsFile(r) /\ Readable(s, d).bytes = Bytes(r)
      <3>1. CASE r.isdir
        <4>1. Readable(s, d).kind = "pipe"
          BY <1>2, <1>5, <3>1, Zenon DEF Readable
        <4> QED BY <1>1, <4>1
      <3>2. CASE ~r.isdir
        <4>1. Readable(s, d) = [kind |-> "file", bytes |-> Bytes(r)]
          BY <1>2, <1>5, <3>2, Zenon DEF Readable, Bytes
        <4>2. Readable(s, d).bytes = Bytes(r)
          BY <4>1
        <4> QED BY <1>5, <3>2, <4>2, Zenon DEF IsFile
      <3> QED BY <3>1, <3>2, Zenon
    <2>2. Len(Bytes(r)) = r.size /\ r.size \in Nat
      BY <1>3, <2>1, BytesAre, Zenon DEF BufferOK
    <2> QED BY <1>1, <2>1, <2>2, Zenon
  <1> QED BY <1>4, <1>5, Zenon

\* A step that moves one descriptor.
LEMMA Moved ==
  ASSUME NEW s, NEW f \in Fds, NEW d, d.off \in Nat, SetFd(s, f, d),
         live' = live, con' = con
  PROVE  Effect(s)
  BY Zenon DEF Effect, OffsetsMove, RecordMoves

\* The calls that change no record: they move one descriptor or none.
LEMMA DescriptorSteps ==
  ASSUME CInv, BInv, NEW s \in live
  PROVE  /\ \A n \in Names : OpenAgain(s, n) \/ OpenFails(s, n) => Effect(s)
         /\ \A f \in Fds : Close(s, f) \/ WriteDropped(s, f) => Effect(s)
         /\ \A f \in Fds, g \in Fds : Dup2(s, f, g) => Effect(s)
         /\ \A f \in Fds, m \in Counts : Read(s, f, m) => Effect(s)
         /\ \A f \in Fds, m \in Counts :
              \A whence \in {"SEEK_SET", "SEEK_CUR", "SEEK_END"} :
                Lseek(s, f, m, whence) => Effect(s)
  <1>1. ASSUME NEW n \in Names, OpenAgain(s, n) PROVE Effect(s)
    <2>1. PICK f \in Fds : \E d : SetFd(s, f, d) /\ d.off = 0
      BY <1>1 DEF OpenAgain
    <2>2. PICK d : SetFd(s, f, d) /\ d.off = 0
      BY <2>1, Zenon
    <2>3. live' = live /\ con' = con
      BY <1>1 DEF OpenAgain, resVars
    <2> QED BY <2>2, <2>3, Moved, SMTT(30)
  <1>2. ASSUME NEW n \in Names, OpenFails(s, n) PROVE Effect(s)
    BY <1>2, Zenon DEF OpenFails, resVars, Effect, OffsetsMove, RecordMoves
  <1>3. ASSUME NEW f \in Fds, Close(s, f) PROVE Effect(s)
    <2>1. SetFd(s, f, Closed) /\ live' = live /\ con' = con
      BY <1>3 DEF Close, resVars
    <2>2. Closed.off \in Nat
      BY DEF Closed
    <2> QED BY <2>1, <2>2, Moved, SMTT(30)
  <1>4. ASSUME NEW f \in Fds, WriteDropped(s, f) PROVE Effect(s)
    <2>1. SetFd(s, f, At(fds[s][f], fds[s][f].off + 1)) /\ live' = live /\ con' = con
      BY <1>4 DEF WriteDropped, resVars
    <2>2. fds[s][f].off \in Nat
      BY DEF BInv
    <2>3. At(fds[s][f], fds[s][f].off + 1).off \in Nat
      BY <2>2 DEF At
    <2> QED BY <2>1, <2>3, Moved, ZenonT(40)
  <1>5. ASSUME NEW f \in Fds, NEW g \in Fds, Dup2(s, f, g) PROVE Effect(s)
    <2>1. PICK d : SetFd(s, g, d) /\ (d = Closed \/ d = fds[s][f])
      BY <1>5 DEF Dup2
    <2>2. live' = live /\ con' = con
      BY <1>5 DEF Dup2, resVars
    <2>3. Closed.off \in Nat /\ fds[s][f].off \in Nat
      BY DEF Closed, BInv
    <2>4. d.off \in Nat
      BY <2>1, <2>3, Zenon
    <2> QED BY <2>1, <2>2, <2>4, Moved, ZenonT(40)
  <1>6. ASSUME NEW f \in Fds, NEW m \in Counts, Read(s, f, m) PROVE Effect(s)
    <2>1. PICK left : left = Len(Readable(s, fds[s][f]).bytes) - fds[s][f].off
      BY Zenon
    <2>2. /\ left > 0 /\ fds[s][f].slot # 0 /\ Readable(s, fds[s][f]).kind = "file"
          /\ SetFd(s, f, At(fds[s][f], fds[s][f].off + (IF m < left THEN m ELSE left)))
          /\ live' = live /\ con' = con
      BY <1>6, <2>1, ZenonT(40) DEF Read, resVars
    <2>3. fds[s][f].off \in Nat /\ m \in Nat /\ Len(Readable(s, fds[s][f]).bytes) \in Nat
      BY <2>2, ReadableLen, ConAssumption, SMTT(30) DEF BInv
    <2>4. fds[s][f].off + (IF m < left THEN m ELSE left) \in Nat
      BY <2>1, <2>2, <2>3, SMTT(30)
    <2>5. PICK o \in Nat : SetFd(s, f, At(fds[s][f], o))
      BY <2>2, <2>4, Zenon
    <2>6. At(fds[s][f], o).off \in Nat
      BY DEF At
    <2> QED BY <2>2, <2>5, <2>6, Moved, Zenon
  <1>7. ASSUME NEW f \in Fds, NEW m \in Counts, NEW whence \in {"SEEK_SET", "SEEK_CUR", "SEEK_END"},
               Lseek(s, f, m, whence)
        PROVE  Effect(s)
    <2>1. PICK d, r : d = fds[s][f] /\ r = con[s][d.slot]
      BY Zenon
    <2>2. PICK end, from :
            /\ end = Len(Behind(d.fd).bytes) \/ end = r.size
            /\ from \in SeekFrom(s, d)
            /\ SetFd(s, f, At(d, m + CASE whence = "SEEK_SET" -> 0
                                       [] whence = "SEEK_CUR" -> from
                                       [] whence = "SEEK_END" -> end))
            /\ d.slot # 0 /\ live' = live /\ con' = con
      BY <1>7, <2>1, ZenonT(40) DEF Lseek, resVars
    <2>3. d.off \in Nat /\ m \in Nat /\ MaxSize \in Nat
      BY <2>1, ConAssumption DEF BInv
    <2>4. from \in Nat
      BY <2>2, <2>3 DEF SeekFrom
    <2>5. end \in Nat
      <3>1. r.size \in Nat
        BY <2>1, <2>2, OpenFd, Zenon DEF BInv, BufferOK
      <3>2. PICK b : b = Behind(d.fd).bytes /\ b \in Seq(Byte)
        BY BehindBytes, Zenon
      <3>3. Len(b) \in Nat
        BY <3>2
      <3> QED BY <2>2, <3>1, <3>2, <3>3, Zenon
    <2>6. PICK o \in Nat : SetFd(s, f, At(d, o))
      <3>1. PICK o : /\ SetFd(s, f, At(d, o))
                     /\ o = m + CASE whence = "SEEK_SET" -> 0
                                  [] whence = "SEEK_CUR" -> from
                                  [] whence = "SEEK_END" -> end
        BY <2>2, Zenon
      <3>2. o \in Nat
        BY <2>3, <2>4, <2>5, <3>1, SMTT(30)
      <3> QED BY <3>1, <3>2, Zenon
    <2>7. At(d, o).off \in Nat
      BY DEF At
    <2> QED BY <2>2, <2>6, <2>7, Moved, Zenon
  <1> QED BY <1>1, <1>2, <1>3, <1>4, <1>5, <1>6, <1>7, ZenonT(40)

\* A step that gives slot c a record, and opens a descriptor at offset 0 or none.
LEMMA Recorded ==
  ASSUME NEW s, NEW c \in Slots, NEW r, SetCon(s, c, r), live' = live,
         BufferOK(r), Becomes(con[s][c], r),
         fds' = fds \/ \E f \in Fds : \E d : SetFd(s, f, d) /\ d.off \in Nat
  PROVE  Effect(s)
  BY Zenon DEF Effect, OffsetsMove, RecordMoves

\* The calls that make a record.
LEMMA NewRecords ==
  ASSUME CInv, BInv, NEW s \in live
  PROVE  /\ \A n \in Names : \A flag : OpenCreate(s, n, flag) => Effect(s)
         /\ \A n \in Names : Mkdir(s, n) \/ RenameGivesUp(s, n) => Effect(s)
         /\ \A n \in Names, m \in Names : LinkHost(s, n, m) \/ RenameHost(s, n, m) => Effect(s)
  <1>1. ASSUME NEW n \in Names, NEW flag, OpenCreate(s, n, flag) PROVE Effect(s)
    <2> DEFINE r == [state |-> "InMem", fd |-> -1, name |-> Named(n), isdir |-> FALSE,
                     size |-> 0, data |-> <<>>, wild |-> FALSE]
    <2>1. PICK f \in Fds, c \in Slots, k \in Slots :
            /\ NewSlot(s, c, k) /\ SetCon(s, c, r) /\ live' = live
            /\ SetFd(s, f, [slot |-> c, fd |-> -1, off |-> 0])
      BY <1>1, Zenon DEF OpenCreate, resVars
    <2>2. BufferOK(r)
      BY DEF BufferOK, IsFile
    <2> HIDE DEF r
    <2>3. Becomes(con[s][c], r)
      BY <2>1, NewSlotFree, Zenon DEF Becomes
    <2>4. \E d : SetFd(s, f, d) /\ d.off \in Nat
      BY <2>1
    <2> QED BY <2>1, <2>2, <2>3, <2>4, Recorded, Zenon
  <1>2. ASSUME NEW n \in Names, Mkdir(s, n) PROVE Effect(s)
    <2> DEFINE r == [state |-> "InMem", fd |-> -1, name |-> Named(n), isdir |-> TRUE,
                     size |-> 512, data |-> <<>>, wild |-> FALSE]
    <2>1. PICK c \in Slots, k \in Slots :
            NewSlot(s, c, k) /\ SetCon(s, c, r) /\ live' = live /\ fds' = fds
      BY <1>2, Zenon DEF Mkdir, resVars
    <2>2. BufferOK(r)
      BY DEF BufferOK, IsFile
    <2> HIDE DEF r
    <2>3. Becomes(con[s][c], r)
      BY <2>1, NewSlotFree, Zenon DEF Becomes
    <2> QED BY <2>1, <2>2, <2>3, Recorded, Zenon
  <1>3. ASSUME NEW n \in Names, RenameGivesUp(s, n) PROVE Effect(s)
    <2>1. PICK c \in Slots, k \in Slots :
            /\ NewSlot(s, c, k) /\ SetCon(s, c, Contents(con[s][c], "ForceDirect", 0, <<>>))
            /\ live' = live /\ fds' = fds
      BY <1>3, Zenon DEF RenameGivesUp, OpenElsewhere
    <2>2. con[s][c].state = "Free" /\ BufferOK(con[s][c])
      BY <2>1, NewSlotFree, Zenon DEF BInv
    <2>3. ~con[s][c].isdir
      BY <2>2 DEF BufferOK
    <2>4. PICK r : r = Contents(con[s][c], "ForceDirect", 0, <<>>)
      BY Zenon
    <2>5. BufferOK(r)
      BY <2>3, <2>4 DEF Contents, BufferOK, IsFile
    <2>6. Becomes(con[s][c], r)
      BY <2>2, Zenon DEF Becomes
    <2> QED BY <2>1, <2>4, <2>5, <2>6, Recorded, Zenon
  <1>4. ASSUME NEW n \in Names, NEW m \in Names, LinkHost(s, n, m) PROVE Effect(s)
    <2>1. PICK c \in Slots, k \in Slots :
            /\ NewSlot(s, c, k) /\ live' = live /\ fds' = fds
            /\ SetCon(s, c, [state |-> "Direct", fd |-> -1, name |-> [Named(n) EXCEPT ![2] = m],
                             isdir |-> FALSE, size |-> 0, data |-> <<>>, wild |-> con[s][c].wild])
      BY <1>4, Zenon DEF LinkHost, resVars
    <2>2. PICK r : /\ SetCon(s, c, r) /\ r.state = "Direct" /\ r.isdir = FALSE
                   /\ r.size = 0 /\ r.data = <<>>
      BY <2>1
    <2>3. BufferOK(r)
      BY <2>2 DEF BufferOK, IsFile
    <2>4. Becomes(con[s][c], r)
      BY <2>1, NewSlotFree, Zenon DEF Becomes
    <2> QED BY <2>1, <2>2, <2>3, <2>4, Recorded, Zenon
  <1>5. ASSUME NEW n \in Names, NEW m \in Names, RenameHost(s, n, m) PROVE Effect(s)
    <2>1. PICK c \in Slots, k \in Slots :
            /\ NewSlot(s, c, k) /\ live' = live /\ fds' = fds
            /\ SetCon(s, c, [state |-> "InMem", fd |-> -1, name |-> Named(m), isdir |-> FALSE,
                             size |-> Len(disk[n].bytes), data |-> disk[n].bytes,
                             wild |-> con[s][c].wild])
      BY <1>5, Zenon DEF RenameHost, CloseFile
    <2>2. PICK b : b = disk[n].bytes /\ b \in Seq(Byte)
      BY DEF CInv, DiskOK
    <2>3. PICK r : SetCon(s, c, r) /\ r.state = "InMem" /\ r.size = Len(b) /\ r.data = b
      BY <2>1, <2>2
    <2>4. BufferOK(r)
      BY <2>2, <2>3 DEF BufferOK
    <2>5. Becomes(con[s][c], r)
      BY <2>1, NewSlotFree, Zenon DEF Becomes
    <2> QED BY <2>1, <2>3, <2>4, <2>5, Recorded, Zenon
  <1> QED BY <1>1, <1>2, <1>3, <1>4, <1>5, Zenon

\* open() of a file of the host makes a record that is read in place or symbolic.
LEMMA OpenHostMoves ==
  ASSUME CInv, BInv, NEW s \in live, NEW n \in Names, NEW trunc, OpenHost(s, n, trunc)
  PROVE  Effect(s)
  <1>1. PICK f \in Fds, c \in Slots, k \in Slots, h \in HostFds :
          /\ NewSlot(s, c, k) /\ SetFd(s, f, [slot |-> c, fd |-> h, off |-> 0])
          /\ \/ /\ OpenFile(s, n, h)
                /\ SetCon(s, c, [state |-> "Direct", fd |-> h, name |-> Named(n), isdir |-> FALSE,
                                 size |-> 0, data |-> <<>>, wild |-> FALSE])
             \/ /\ SetCon(s, c, [state |-> "InMem", fd |-> h, name |-> Named(n), isdir |-> FALSE,
                                 size |-> Len(disk'[n].bytes), wild |-> FALSE,
                                 data |-> [i \in 1..Len(disk'[n].bytes) |-> Symbolic]])
                /\ UNCHANGED resVars
    BY ZenonT(40) DEF OpenHost
  <1>2. live' = live
    BY <1>1, Zenon DEF OpenFile, resVars
  <1>3. PICK r : SetCon(s, c, r) /\ BufferOK(r)
    <2>1. PICK len : len = Len(disk'[n].bytes) /\ len \in Nat
      <3>1. PICK b : b = disk'[n].bytes /\ b \in Seq(Byte)
        BY OpenHostKeeps DEF CRest, DiskOK
      <3>2. Len(b) \in Nat
        BY <3>1
      <3> QED BY <3>1, <3>2, Zenon
    <2>2. CASE SetCon(s, c, [state |-> "Direct", fd |-> h, name |-> Named(n), isdir |-> FALSE,
                             size |-> 0, data |-> <<>>, wild |-> FALSE])
      <3>1. PICK r : /\ SetCon(s, c, r) /\ r.state = "Direct" /\ r.isdir = FALSE
                     /\ r.size = 0 /\ r.data = <<>>
        BY <2>2
      <3>2. BufferOK(r)
        BY <3>1 DEF BufferOK, IsFile
      <3> QED BY <3>1, <3>2, Zenon
    <2>3. CASE SetCon(s, c, [state |-> "InMem", fd |-> h, name |-> Named(n), isdir |-> FALSE,
                             size |-> Len(disk'[n].bytes), wild |-> FALSE,
                             data |-> [i \in 1..Len(disk'[n].bytes) |-> Symbolic]])
      <3>1. PICK r : /\ SetCon(s, c, r) /\ r.state = "InMem"
                     /\ r.size = len /\ r.data = [i \in 1..len |-> Symbolic]
        BY <2>1, <2>3
      <3>2. PICK b : b = [i \in 1..len |-> Symbolic] /\ b \in Seq(Byte) /\ Len(b) = len
        <4>1. len \in Nat /\ Symbolic \in Byte
          BY <2>1, ConAssumption
        <4>2. /\ [i \in 1..len |-> Symbolic] \in Seq(Byte)
              /\ Len([i \in 1..len |-> Symbolic]) = len
          BY <4>1
        <4> QED BY <4>2, Zenon
      <3>3. r.data = b
        BY <3>1, <3>2, Zenon
      <3>4. BufferOK(r)
        BY <2>1, <3>1, <3>2, <3>3 DEF BufferOK
      <3> QED BY <3>1, <3>4, Zenon
    <2> QED BY <1>1, <2>2, <2>3, Zenon
  <1>4. Becomes(con[s][c], r)
    BY <1>1, NewSlotFree, ZenonT(40) DEF Becomes
  <1>5. \E d : SetFd(s, f, d) /\ d.off \in Nat
    BY <1>1
  <1> QED BY <1>2, <1>3, <1>4, <1>5, Recorded, Zenon

\* ftruncate() as far as the buffer goes.
LEMMA Lengthened ==
  ASSUME NEW r, r.size \in Nat, r.data \in Seq(Byte), NEW n \in 0..MaxSize, NEW data,
         data = IF r.state = "InMem" /\ n > r.size /\ Len(r.data) < n
                THEN Grown(r.data, Len(r.data),
                           Capacity(IF Len(r.data) = 0 THEN BufMin ELSE Len(r.data), n))
                ELSE r.data
  PROVE  /\ data \in Seq(Byte) /\ Len(data) >= Len(r.data)
         /\ \A i \in 1..Len(r.data) : data[i] = r.data[i]
         /\ r.state = "InMem" /\ r.size <= Len(r.data) => n <= Len(data)
  <1>1. PICK d, size, len : d = r.data /\ size = r.size /\ len = Len(d)
    BY Zenon
  <1>2. d \in Seq(Byte) /\ size \in Nat /\ len \in Nat /\ n \in Nat
    BY <1>1, ConAssumption
  <1>3. PICK first : first = IF len = 0 THEN BufMin ELSE len
    BY Zenon
  <1>4. first \in Nat \ {0}
    BY <1>2, <1>3, ConAssumption
  <1>5. PICK cap : cap = Capacity(first, n) /\ cap \in Nat /\ cap >= n
    BY <1>4, CapacityHolds, Zenon
  <1>6. CASE r.state = "InMem" /\ n > size /\ len < n
    <2>1. data = Grown(d, len, cap)
      BY <1>1, <1>3, <1>5, <1>6, Zenon
    <2>2. len <= Len(d)
      BY <1>1, <1>2
    <2>3. data \in Seq(Byte) /\ Len(data) = cap /\ \A i \in 1..cap : i <= len => data[i] = d[i]
      <3>1. d \in Seq(Byte) /\ len \in Nat /\ cap \in Nat
        BY <1>2, <1>5, Zenon
      <3>2. /\ Grown(d, len, cap) \in Seq(Byte) /\ Len(Grown(d, len, cap)) = cap
            /\ \A i \in 1..cap : i <= len => Grown(d, len, cap)[i] = d[i]
        BY <2>2, <3>1, GrownIs, Zenon
      <3> QED BY <2>1, <3>2, Zenon
    <2>4. len <= cap
      BY <1>2, <1>5, <1>6
    <2>5. \A i \in 1..len : i \in 1..cap /\ i <= len
      BY <1>2, <1>5, <2>4
    <2> QED BY <1>1, <1>5, <2>3, <2>4, <2>5, Zenon
  <1>7. CASE ~(r.state = "InMem" /\ n > size /\ len < n)
    <2>1. data = d
      BY <1>1, <1>7, Zenon
    <2>2. len >= len
      BY <1>2
    <2>3. r.state = "InMem" /\ size <= len => n <= len
      BY <1>2, <1>7
    <2> QED BY <1>1, <1>2, <2>1, <2>2, <2>3, ZenonT(40)
  <1> QED BY <1>6, <1>7, Zenon

\* A record that keeps its bytes, and only changes otherwise.
LEMMA SameBytes ==
  ASSUME NEW q, NEW r, BufferOK(q), RecordOK(q),
         r.state = q.state, r.fd = q.fd, r.isdir = q.isdir, r.size = q.size, r.data = q.data
  PROVE  BufferOK(r) /\ Becomes(q, r)
  <1>1. BufferOK(r)
    BY Zenon DEF BufferOK, IsFile
  <1>2. Bytes(r) = Bytes(q)
    BY Zenon DEF Bytes
  <1>3. Images!Truncated(Bytes(q), Bytes(r))
    BY <1>2, Zenon DEF Images!Truncated
  <1> QED BY <1>1, <1>3, Zenon DEF Becomes, IsFile, InPlace, RecordOK, StateNames

\* The calls that change or free a record, but not its bytes.
LEMMA NameSteps ==
  ASSUME CInv, BInv, NEW s \in live
  PROVE  /\ \A n \in Names : Unlink(s, n) => Effect(s)
         /\ \A n \in Names, m \in Names : LinkRecord(s, n, m) \/ RenameRecord(s, n, m) => Effect(s)
  <1>1. ASSUME NEW n \in Names, Unlink(s, n) PROVE Effect(s)
    <2>1. PICK c \in Slots :
            /\ SetCon(s, c, [state |-> "Free", fd |-> -1, name |-> Null, isdir |-> FALSE,
                             size |-> 0, data |-> <<>>, wild |-> FALSE])
            /\ live' = live /\ fds' = fds
      BY <1>1, Zenon DEF Unlink, resVars
    <2>2. PICK r : /\ SetCon(s, c, r) /\ r.state = "Free" /\ r.isdir = FALSE
                   /\ r.size = 0 /\ r.data = <<>>
      BY <2>1
    <2>3. BufferOK(r)
      BY <2>2 DEF BufferOK, IsFile
    <2>4. Becomes(con[s][c], r)
      BY <2>2, Zenon DEF Becomes
    <2> QED BY <2>1, <2>2, <2>3, <2>4, Recorded, Zenon
  <1>2. ASSUME NEW n \in Names, NEW m \in Names, LinkRecord(s, n, m) \/ RenameRecord(s, n, m)
        PROVE  Effect(s)
    <2>1. PICK c \in Slots, i \in 1..MaxLinks :
            SetCon(s, c, WithName(con[s][c], i, m)) /\ live' = live /\ fds' = fds
      BY <1>2, Zenon DEF LinkRecord, RenameRecord, resVars
    <2>2. PICK r : r = WithName(con[s][c], i, m)
      BY Zenon
    <2>3. /\ r.state = con[s][c].state /\ r.fd = con[s][c].fd /\ r.isdir = con[s][c].isdir
          /\ r.size = con[s][c].size /\ r.data = con[s][c].data
      BY <2>2 DEF WithName
    <2>4. BufferOK(con[s][c]) /\ RecordOK(con[s][c])
      BY Zenon DEF BInv, CInv, SlotsOK
    <2>5. BufferOK(r) /\ Becomes(con[s][c], r)
      BY <2>3, <2>4, SameBytes, Zenon
    <2> QED BY <2>1, <2>2, <2>5, Recorded, Zenon
  <1> QED BY <1>1, <1>2, Zenon

\* A write() stores one byte, in memory or while it moves the file there.
LEMMA WriteSteps ==
  ASSUME CInv, BInv, NEW s \in live, NEW f \in Fds
  PROVE  /\ \A b \in Data : WriteInMem(s, f, b) \/ WriteDirect(s, f, b) => Effect(s)
         /\ WriteGivesUp(s, f) => Effect(s)
  <1>1. PICK d, q : d = fds[s][f] /\ q = con[s][d.slot]
    BY Zenon
  <1>2. d.off \in Nat
    BY <1>1, Zenon DEF BInv
  <1>3. ASSUME d.slot # 0
        PROVE  /\ d.slot \in Slots /\ q.state # "Free" /\ d.fd = q.fd /\ RecordOK(q) /\ BufferOK(q)
    BY <1>1, <1>3, OpenFd, Zenon DEF BInv
  <1>4. At(d, d.off + 1).off \in Nat
    BY <1>2 DEF At
  <1>5. ASSUME NEW b \in Data, WriteInMem(s, f, b) PROVE Effect(s)
    <2>1. /\ d.slot # 0 /\ IsFile(q) /\ d.off < MaxSize /\ SetCon(s, d.slot, Stored(q, d.off, b))
          /\ SetFd(s, f, At(d, d.off + 1)) /\ live' = live
      BY <1>1, <1>5, Zenon DEF WriteInMem, IsFile, resVars
    <2>2. PICK r : r = Stored(q, d.off, b)
      BY Zenon
    <2>3. b \in Byte
      BY ConAssumption, Zenon
    <2>4. q.size \in Nat /\ q.data \in Seq(Byte) /\ q.size <= Len(q.data)
      BY <1>3, <2>1, Zenon DEF BufferOK
    <2>5. /\ r.state = q.state /\ r.fd = q.fd /\ r.isdir = q.isdir
          /\ r.size \in Nat /\ r.data \in Seq(Byte) /\ r.size <= Len(r.data)
          /\ Images!Written(Bytes(q), Bytes(r), d.off, b)
      <3>1. d.off < MaxSize
        BY <2>1, Zenon
      <3>2. PICK off \in Nat : off = d.off
        BY <1>2, Zenon
      <3>3. off < MaxSize /\ r = Stored(q, off, b)
        BY <2>2, <3>1, <3>2, ZenonT(40)
      <3>4. /\ r.state = q.state /\ r.fd = q.fd /\ r.isdir = q.isdir
            /\ r.size \in Nat /\ r.data \in Seq(Byte) /\ r.size <= Len(r.data)
            /\ Images!Written(Bytes(q), Bytes(r), off, b)
        BY <2>3, <2>4, <3>3, StoredIs
      <3> QED BY <3>2, <3>4, Zenon
    <2>6. BufferOK(r) /\ IsFile(r)
      BY <2>1, <2>5, Zenon DEF BufferOK, IsFile
    <2>7. d.off \in 0..MaxSize
      BY <1>2, <2>1, ConAssumption
    <2>8. Becomes(q, r)
      BY <2>1, <2>3, <2>5, <2>6, <2>7, Zenon DEF Becomes, WrittenTo
    <2> QED BY <1>1, <1>3, <1>4, <2>1, <2>2, <2>6, <2>8, Recorded, ZenonT(40)
  <1>6. ASSUME NEW b \in Data, WriteDirect(s, f, b) PROVE Effect(s)
    <2>1. /\ d.slot # 0 /\ q.state = "Direct" /\ d.off < MaxSize /\ Behind(d.fd).kind = "file"
          /\ SetCon(s, d.slot, Stored(InMemory(q, d.fd), d.off, b))
          /\ SetFd(s, f, At(d, d.off + 1)) /\ live' = live
      BY <1>1, <1>6, Zenon DEF WriteDirect, CloseFile
    <2>2. PICK p, bytes : p = InMemory(q, d.fd) /\ bytes = Behind(d.fd).bytes
      BY Zenon
    <2>3. p.state = "InMem" /\ p.isdir = q.isdir /\ p.size = Len(bytes) /\ p.data = bytes
      BY <2>2 DEF InMemory, Contents
    <2>4. bytes \in Seq(Byte)
      BY <2>2, BehindBytes, Zenon
    <2>5. Len(bytes) \in Nat /\ Len(bytes) <= Len(bytes) /\ SubSeq(bytes, 1, Len(bytes)) = bytes
      BY <2>4
    <2>6. p.size \in Nat /\ p.data \in Seq(Byte) /\ p.size <= Len(p.data) /\ Bytes(p) = bytes
      BY <2>3, <2>4, <2>5, ZenonT(40) DEF Bytes
    <2>7. PICK r : r = Stored(p, d.off, b)
      BY Zenon
    <2>8. b \in Byte
      BY ConAssumption, Zenon
    <2>9. /\ r.state = p.state /\ r.fd = p.fd /\ r.isdir = p.isdir
          /\ r.size \in Nat /\ r.data \in Seq(Byte) /\ r.size <= Len(r.data)
          /\ Images!Written(Bytes(p), Bytes(r), d.off, b)
      <3>1. d.off < MaxSize
        BY <2>1, Zenon
      <3>2. p.size \in Nat /\ p.data \in Seq(Byte) /\ p.size <= Len(p.data)
        BY <2>6, ZenonT(40)
      <3>3. PICK off \in Nat : off = d.off
        BY <1>2, Zenon
      <3>4. off < MaxSize /\ r = Stored(p, off, b)
        BY <2>7, <3>1, <3>3, Zenon
      <3>5. /\ r.state = p.state /\ r.fd = p.fd /\ r.isdir = p.isdir
            /\ r.size \in Nat /\ r.data \in Seq(Byte) /\ r.size <= Len(r.data)
            /\ Images!Written(Bytes(p), Bytes(r), off, b)
        BY <2>8, <3>2, <3>4, StoredIs
      <3> QED BY <3>3, <3>5, Zenon
    <2>10. ~q.isdir
      <3>1. q.state # "InMem"
        BY <2>1
      <3> QED BY <1>3, <2>1, <3>1, Zenon DEF BufferOK
    <2>11. BufferOK(r) /\ IsFile(r)
      BY <2>3, <2>9, <2>10, ZenonT(40) DEF BufferOK, IsFile
    <2>12. d.off \in 0..MaxSize
      BY <1>2, <2>1, ConAssumption
    <2>13. WrittenTo(Behind(q.fd).bytes, Bytes(r))
      BY <1>3, <2>1, <2>2, <2>6, <2>8, <2>9, <2>12, ZenonT(40) DEF WrittenTo
    <2>14. Becomes(q, r)
      BY <1>3, <2>1, <2>11, <2>13, ZenonT(40) DEF Becomes, InPlace
    <2> QED BY <1>1, <1>3, <1>4, <2>1, <2>2, <2>7, <2>11, <2>14, Recorded, ZenonT(40)
  <1>7. ASSUME WriteGivesUp(s, f) PROVE Effect(s)
    <2>1. /\ d.slot # 0 /\ q.state = "Direct" /\ live' = live /\ fds' = fds
          /\ SetCon(s, d.slot, Contents(q, "ForceDirect", q.size, q.data))
      BY <1>1, <1>7, Zenon DEF WriteGivesUp, resVars
    <2>2. PICK r : r = Contents(q, "ForceDirect", q.size, q.data)
      BY Zenon
    <2>3. /\ r.state = "ForceDirect" /\ r.fd = q.fd /\ r.isdir = q.isdir
          /\ r.size = q.size /\ r.data = q.data
      BY <2>2 DEF Contents
    <2>4. q.state # "InMem" /\ r.state # "InMem"
      BY <2>1, <2>3
    <2>5. BufferOK(r)
      BY <1>3, <2>1, <2>3, <2>4, Zenon DEF BufferOK, IsFile
    <2>6. Becomes(q, r)
      BY <2>1, <2>3, Zenon DEF Becomes, InPlace
    <2> QED BY <1>1, <1>3, <2>1, <2>2, <2>5, <2>6, Recorded, ZenonT(40)
  <1> QED BY <1>5, <1>6, <1>7, Zenon

\* An ftruncate() shortens a file, or fills it up.
LEMMA FtruncateStep ==
  ASSUME CInv, BInv, NEW s \in live, NEW f \in Fds, NEW n \in Counts, Ftruncate(s, f, n)
  PROVE  Effect(s)
  <1>1. PICK d, q : d = fds[s][f] /\ q = con[s][d.slot]
    BY Zenon
  <1>2. PICK data : data = IF q.state = "InMem" /\ n > q.size /\ Len(q.data) < n
                           THEN Grown(q.data, Len(q.data),
                                  Capacity(IF Len(q.data) = 0 THEN BufMin ELSE Len(q.data), n))
                           ELSE q.data
    BY Zenon
  <1>3. /\ d.slot # 0 /\ live' = live /\ fds' = fds
        /\ SetCon(s, d.slot, Contents(q, q.state, n, data))
    BY <1>1, <1>2, Zenon DEF Ftruncate, resVars
  <1>4. d.slot \in Slots /\ q.state # "Free" /\ RecordOK(q) /\ BufferOK(q)
    BY <1>1, <1>3, OpenFd, Zenon DEF BInv
  <1>5. n \in 0..MaxSize /\ q.size \in Nat /\ q.data \in Seq(Byte)
    BY <1>4, ConAssumption, Zenon DEF BufferOK
  <1>6. /\ data \in Seq(Byte) /\ Len(data) >= Len(q.data)
        /\ \A i \in 1..Len(q.data) : data[i] = q.data[i]
        /\ q.state = "InMem" /\ q.size <= Len(q.data) => n <= Len(data)
    BY <1>2, <1>5, Lengthened, Zenon
  <1>7. PICK r : r = Contents(q, q.state, n, data)
    BY Zenon
  <1>8. r.state = q.state /\ r.fd = q.fd /\ r.isdir = q.isdir /\ r.size = n /\ r.data = data
    BY <1>7 DEF Contents
  <1>9. n \in Nat
    BY <1>5
  <1>10. BufferOK(r)
    BY <1>4, <1>6, <1>8, <1>9, Zenon DEF BufferOK, IsFile
  <1>11. ASSUME IsFile(q) PROVE IsFile(r) /\ Images!Truncated(Bytes(q), Bytes(r))
    <2>1. IsFile(r)
      BY <1>8, <1>11, Zenon DEF IsFile
    <2>2. q.size <= Len(q.data) /\ r.size \in Nat /\ r.data \in Seq(Byte) /\ r.size <= Len(r.data)
      BY <1>4, <1>10, <1>11, <2>1, Zenon DEF BufferOK
    <2>3. Len(Bytes(q)) = q.size /\ \A i \in 1..q.size : Bytes(q)[i] = q.data[i]
      BY <1>5, <2>2, BytesAre, Zenon
    <2>4. Len(Bytes(r)) = r.size /\ \A i \in 1..r.size : Bytes(r)[i] = r.data[i]
      BY <2>2, BytesAre, Zenon
    <2>5. ASSUME NEW i \in 1..r.size, i <= q.size PROVE i \in 1..q.size /\ i \in 1..Len(q.data)
      <3>1. PICK l : l = Len(q.data) /\ l \in Nat /\ q.size <= l
        BY <1>5, <2>2
      <3> QED BY <1>5, <2>2, <2>5, <3>1, SMTT(30)
    <2> QED BY <1>6, <1>8, <2>1, <2>3, <2>4, <2>5, ZenonT(40) DEF Images!Truncated
  <1>12. Becomes(q, r)
    BY <1>4, <1>8, <1>11, Zenon DEF Becomes, IsFile, InPlace, RecordOK, StateNames
  <1> QED BY <1>1, <1>3, <1>4, <1>7, <1>10, <1>12, Recorded, ZenonT(40)

\* Every call but a fork or an end of a state has such an effect.
LEMMA StepEffect ==
  ASSUME CInv, BInv, Next
  PROVE  \E s \in live : Effect(s) \/ Terminate(s) \/ \E t \in States : Fork(s, t)
  <1>1. ASSUME NEW s \in live, NEW n \in Names, Open(s, n) PROVE Effect(s)
    BY <1>1, DescriptorSteps, NewRecords, OpenHostMoves, Zenon DEF Open
  <1>2. ASSUME NEW s \in live, NEW f \in Fds, Transfer(s, f) PROVE Effect(s)
    BY <1>2, DescriptorSteps, WriteSteps, Zenon DEF Transfer
  <1>3. ASSUME NEW s \in live, NEW f \in Fds, Adjust(s, f) PROVE Effect(s)
    BY <1>3, DescriptorSteps, FtruncateStep, Zenon DEF Adjust
  <1>4. ASSUME NEW s \in live, NEW n \in Names, Rearrange(s, n) PROVE Effect(s)
    BY <1>4, NewRecords, NameSteps, Zenon DEF Rearrange
  <1> QED BY <1>1, <1>2, <1>3, <1>4, Zenon DEF Next, Moves, Changes

\* At first there are no buffers.
LEMMA BInvInit == Init => BInv
  <1>1. BufferOK(FreshSlot) /\ Closed.off \in Nat
    BY DEF FreshSlot, Closed, BufferOK, IsFile
  <1> SUFFICES ASSUME Init PROVE BInv
    OBVIOUS
  <1>2. \A s \in live : s \in States
    BY ResMgrAssumption, Zenon DEF Init, ResInit
  <1>3. \A s \in States : (\A c \in Slots : con[s][c] = FreshSlot) /\ \A f \in Fds : fds[s][f] = Closed
    BY Zenon DEF Init, NoCon, NoFds
  <1> QED BY <1>1, <1>2, <1>3, ZenonT(40) DEF BInv

\* Every call keeps the files in their buffers.
LEMMA BInvStep == CInv /\ BInv /\ [Next]_vars => BInv'
  <1> SUFFICES ASSUME CInv, BInv, [Next]_vars PROVE BInv'
    OBVIOUS
  <1>0. live \subseteq States /\ Shape
    BY LiveAreStates, Zenon DEF CInv
  <1>1. ASSUME UNCHANGED vars PROVE BInv'
    BY <1>1, Zenon DEF vars, BInv, BufferOK, IsFile
  <1>2. ASSUME NEW s \in live, Effect(s) PROVE BInv'
    <2> SUFFICES ASSUME NEW t \in live
                 PROVE  /\ \A c \in Slots : BufferOK(con'[t][c])
                        /\ \A f \in Fds : fds'[t][f].off \in Nat
      BY <1>2, Zenon DEF BInv, Effect, BufferOK, IsFile
    <2>0. s \in States /\ t \in States
      BY <1>0, <1>2, Zenon
    <2>1. \A c \in Slots : BufferOK(con'[t][c])
      <3>1. CASE con' = con
        BY <3>1, Zenon DEF BInv
      <3>2. ASSUME NEW e \in Slots, NEW r, SetCon(s, e, r), BufferOK(r)
            PROVE  \A c \in Slots : BufferOK(con'[t][c])
        <4>1. /\ con'[s][e] = r
              /\ \A u \in States, c \in Slots : u # s \/ c # e => con'[u][c] = con[u][c]
          BY <1>0, <2>0, <3>2, SetConEffect, Zenon
        <4>2. ASSUME NEW c \in Slots PROVE BufferOK(con'[t][c])
          <5>1. CASE t = s /\ c = e
            BY <3>2, <4>1, <5>1, Zenon
          <5>2. CASE t # s \/ c # e
            BY <2>0, <4>1, <5>2, Zenon DEF BInv
          <5> QED BY <5>1, <5>2, Zenon
        <4> QED BY <4>2, Zenon
      <3> QED BY <1>2, <3>1, <3>2, Zenon DEF Effect, RecordMoves
    <2>2. \A f \in Fds : fds'[t][f].off \in Nat
      <3>1. CASE fds' = fds
        BY <3>1, Zenon DEF BInv
      <3>2. ASSUME NEW g \in Fds, NEW d, SetFd(s, g, d), d.off \in Nat
            PROVE  \A f \in Fds : fds'[t][f].off \in Nat
        <4>1. /\ fds'[s][g] = d
              /\ \A u \in States, f \in Fds : u # s \/ f # g => fds'[u][f] = fds[u][f]
          BY <1>0, <2>0, <3>2, SetFdEffect, ZenonT(40)
        <4>2. ASSUME NEW f \in Fds PROVE fds'[t][f].off \in Nat
          <5>1. CASE t = s /\ f = g
            BY <3>2, <4>1, <5>1, Zenon
          <5>2. CASE t # s \/ f # g
            BY <2>0, <4>1, <5>2, Zenon DEF BInv
          <5> QED BY <5>1, <5>2, Zenon
        <4> QED BY <4>2, Zenon
      <3> QED BY <1>2, <3>1, <3>2, Zenon DEF Effect, OffsetsMove
    <2> QED BY <2>1, <2>2, Zenon
  <1>3. ASSUME \A u \in live' : \E v \in live : con'[u] = con[v] /\ fds'[u] = fds[v]
        PROVE  BInv'
    <2>1. ASSUME NEW u \in live'
          PROVE  /\ \A c \in Slots : BufferOK(con'[u][c])
                 /\ \A f \in Fds : fds'[u][f].off \in Nat
      <3>1. PICK v \in live : con'[u] = con[v] /\ fds'[u] = fds[v]
        BY <1>3, Zenon
      <3> QED BY <3>1, Zenon DEF BInv
    <2> QED BY <2>1, Zenon DEF BInv, BufferOK, IsFile
  <1>4. ASSUME NEW s \in live, NEW t \in States, Fork(s, t) PROVE BInv'
    <2>1. /\ live' = live \cup {t}
          /\ con' = [con EXCEPT ![t] = con[s]] /\ fds' = [fds EXCEPT ![t] = fds[s]]
      BY <1>4, Zenon DEF Fork, Copy
    <2>2. \A u \in live' : \E v \in live : con'[u] = con[v] /\ fds'[u] = fds[v]
      BY <1>0, <1>4, <2>1, Zenon DEF Shape
    <2> QED BY <1>3, <2>2, Zenon
  <1>5. ASSUME NEW s \in live, Terminate(s) PROVE BInv'
    <2>1. /\ live' = live \ {s}
          /\ con' = [con EXCEPT ![s] = NoCon] /\ fds' = [fds EXCEPT ![s] = NoFds]
      BY <1>5, Zenon DEF Terminate, Destroy
    <2>2. \A u \in live' : \E v \in live : con'[u] = con[v] /\ fds'[u] = fds[v]
      BY <1>0, <2>1, Zenon DEF Shape
    <2> QED BY <1>3, <2>2, Zenon
  <1> QED BY <1>1, <1>2, <1>4, <1>5, StepEffect, ZenonT(40)

(* As long as the program removes no file it has open, a file in memory    *)
(* has no more bytes than its buffer, after any writes, seeks past the end *)
(* and truncations (write(), ftruncate(): the loops that grow dfile->buf). *)
THEOREM BuffersHold == ASSUME ~UnlinkOpen PROVE Spec => []InBuffer
  <1>1. ASSUME BInv, NEW s \in live, NEW c \in Slots, IsFile(con[s][c])
        PROVE  con[s][c].size <= Len(con[s][c].data)
    <2>1. BufferOK(con[s][c])
      BY <1>1, Zenon DEF BInv
    <2> QED BY <1>1, <2>1, Zenon DEF BufferOK
  <1>2. BInv => InBuffer
    BY <1>1, Zenon DEF InBuffer, IsFile
  <1> QED BY <1>2, BInvInit, BInvStep, FilesCorrect, PTL DEF Spec

-----------------------------------------------------------------------------
(* The files implement FileImages.                                         *)

\* Without O_TRUNC the runtime changes nothing on the host's disk.
LEMMA DiskStays ==
  ASSUME ~Truncate, [Next]_vars
  PROVE  disk' = disk
  <1>1. ASSUME NEW s \in live, NEW n \in Names, Open(s, n) PROVE disk' = disk
    <2>1. ASSUME NEW trunc, OpenHost(s, n, trunc) PROVE disk' = disk
      BY <2>1, Zenon DEF OpenHost
    <2> QED BY <1>1, <2>1, Zenon DEF Open, OpenAgain, OpenFails, OpenCreate
  <1>2. ASSUME NEW s \in live, NEW f \in Fds, Transfer(s, f) PROVE disk' = disk
    BY <1>2, Zenon
       DEF Transfer, Close, Read, WriteInMem, WriteDirect, WriteGivesUp, WriteDropped
  <1>3. ASSUME NEW s \in live, NEW f \in Fds, Adjust(s, f) PROVE disk' = disk
    BY <1>3, Zenon DEF Adjust, Dup2, Ftruncate, Lseek
  <1>4. ASSUME NEW s \in live, NEW n \in Names, Rearrange(s, n) PROVE disk' = disk
    BY <1>4, Zenon DEF Rearrange, Mkdir, Unlink, RenameGivesUp, LinkRecord, LinkHost,
                       RenameRecord, RenameHost
  <1>5. ASSUME NEW s \in live, Terminate(s) \/ \E t \in States : Fork(s, t) PROVE disk' = disk
    BY <1>5, Zenon DEF Terminate, Fork
  <1>6. ASSUME UNCHANGED vars PROVE disk' = disk
    BY <1>6, Zenon DEF vars
  <1> QED BY <1>1, <1>2, <1>3, <1>4, <1>5, <1>6, ZenonT(40) DEF Next, Moves, Changes

\* The host file that a state holds before and after a step is the same.
LEMMA BehindKept ==
  ASSUME CInv, CInv', [Next]_vars, disk' = disk, NEW t \in live, t \in live', NEW h,
         h = -1 \/ (h \in HostFds /\ files[t][h] # Null /\ files'[t][h] # Null)
  PROVE  Behind(h)' = Behind(h)
  <1>1. CASE h = -1
    <2>1. h \notin HostFds
      BY <1>1, ResMgrAssumption
    <2> QED BY <2>1, Zenon DEF Behind
  <1>2. CASE h \in HostFds /\ files[t][h] # Null /\ files'[t][h] # Null
    <2>1. RInv /\ RInv' /\ [ResNext]_resVars
      BY StepIsResMgr, LiveAreStates, Zenon DEF CInv
    <2>2. host'[h] = Null \/ host'[h] = host[h] \/ host[h] = Null
      BY <1>2, <2>1, HostSteps, Zenon
    <2>3. host'[h] = host[h]
      BY <1>2, <2>1, <2>2, SameFile, Zenon
    <2> QED BY <2>3, Zenon DEF Behind
  <1> QED BY <1>1, <1>2, Zenon

\* The image of a record, before and after a step.
LEMMA ImageIs ==
  ASSUME NEW s, NEW c, NEW r, r = con[s][c]
  PROVE  /\ r.state = "Free" => Image(s, c) = [kind |-> "none", bytes |-> <<>>]
         /\ r.state = "InMem" /\ r.isdir => Image(s, c) = [kind |-> "dir", bytes |-> <<>>]
         /\ IsFile(r) => Image(s, c) = [kind |-> "bytes", bytes |-> Bytes(r)]
         /\ InPlace(r) =>
              Image(s, c) = IF Behind(r.fd).kind = "file"
                            THEN [kind |-> "bytes", bytes |-> Behind(r.fd).bytes]
                            ELSE [kind |-> "dead", bytes |-> <<>>]
  <1>1. CASE r.state = "Free"
    BY <1>1, Zenon DEF Image, IsFile, InPlace
  <1>2. CASE r.state = "InMem"
    BY <1>2, Zenon DEF Image, IsFile, InPlace, Bytes
  <1>3. CASE InPlace(r)
    BY <1>3, Zenon DEF Image, IsFile, InPlace
  <1> QED BY <1>1, <1>2, <1>3, Zenon DEF IsFile

\* The same after the step.
LEMMA ImageWillBe ==
  ASSUME NEW s, NEW c, NEW r, r = con'[s][c], NEW h, h = r.fd
  PROVE  /\ r.state = "Free" => Image(s, c)' = [kind |-> "none", bytes |-> <<>>]
         /\ r.state = "InMem" /\ r.isdir => Image(s, c)' = [kind |-> "dir", bytes |-> <<>>]
         /\ IsFile(r) => Image(s, c)' = [kind |-> "bytes", bytes |-> Bytes(r)]
         /\ InPlace(r) =>
              Image(s, c)' = IF Behind(h)'.kind = "file"
                             THEN [kind |-> "bytes", bytes |-> Behind(h)'.bytes]
                             ELSE [kind |-> "dead", bytes |-> <<>>]
  <1>1. CASE r.state = "Free"
    BY <1>1, Zenon DEF Image, IsFile, InPlace
  <1>2. CASE r.state = "InMem"
    BY <1>2, Zenon DEF Image, IsFile, InPlace, Bytes
  <1>3. CASE InPlace(r)
    BY <1>3, Zenon DEF Image, IsFile, InPlace, Behind
  <1> QED BY <1>1, <1>2, <1>3, Zenon DEF IsFile

\* Two records whose files are the same, if what is behind the descriptor is.
LEMMA SameImage ==
  ASSUME NEW s, NEW t, NEW e, NEW q, q = con[s][e], NEW r, r = con'[t][e], NEW h, h = q.fd,
         q.state \in StateNames, InPlace(q) => Behind(h)' = Behind(h),
         \/ r = q
         \/ InPlace(q) /\ InPlace(r) /\ r.fd = q.fd
         \/ q.state = "InMem" /\ r.state = "InMem" /\ q.isdir /\ r.isdir
  PROVE  Image(t, e)' = Image(s, e)
  <1>1. CASE q.state = "Free"
    <2>1. r.state = "Free"
      BY <1>1, Zenon DEF InPlace
    <2>2. Image(s, e) = [kind |-> "none", bytes |-> <<>>]
      BY <1>1, ImageIs, Zenon
    <2>3. Image(t, e)' = [kind |-> "none", bytes |-> <<>>]
      BY <1>1, <2>1, ImageWillBe, Zenon
    <2> QED BY <2>2, <2>3, Zenon
  <1>2. CASE q.state = "InMem" /\ q.isdir
    <2>1. r.state = "InMem" /\ r.isdir
      BY <1>2, Zenon DEF InPlace
    <2>2. Image(s, e) = [kind |-> "dir", bytes |-> <<>>]
      BY <1>2, ImageIs, Zenon
    <2>3. Image(t, e)' = [kind |-> "dir", bytes |-> <<>>]
      BY <1>2, <2>1, ImageWillBe, Zenon
    <2> QED BY <2>2, <2>3, Zenon
  <1>3. CASE IsFile(q)
    <2>1. r = q
      BY <1>3, Zenon DEF InPlace, IsFile
    <2>2. Image(s, e) = [kind |-> "bytes", bytes |-> Bytes(q)]
      BY <1>3, ImageIs, Zenon
    <2>3. Image(t, e)' = [kind |-> "bytes", bytes |-> Bytes(q)]
      BY <1>3, <2>1, ImageWillBe, Zenon
    <2> QED BY <2>2, <2>3, Zenon
  <1>4. CASE InPlace(q)
    <2>1. InPlace(r) /\ r.fd = h
      BY <1>4, Zenon DEF InPlace
    <2>2. Image(s, e) = IF Behind(h).kind = "file"
                        THEN [kind |-> "bytes", bytes |-> Behind(h).bytes]
                        ELSE [kind |-> "dead", bytes |-> <<>>]
      BY <1>4, ImageIs, ZenonT(40)
    <2>3. Image(t, e)' = IF Behind(h)'.kind = "file"
                         THEN [kind |-> "bytes", bytes |-> Behind(h)'.bytes]
                         ELSE [kind |-> "dead", bytes |-> <<>>]
      BY <2>1, ImageWillBe, ZenonT(40)
    <2> QED BY <1>4, <2>2, <2>3, Zenon
  <1> QED BY <1>1, <1>2, <1>3, <1>4, Zenon DEF StateNames, InPlace, IsFile

\* A record that stays as it is, or in place, has the same image after a step of any state.
LEMMA ImageKept ==
  ASSUME CInv, CInv', [Next]_vars, disk' = disk, NEW t \in live, t \in live', NEW e \in Slots,
         NEW q, q = con[t][e], NEW r, r = con'[t][e],
         \/ r = q
         \/ InPlace(q) /\ InPlace(r) /\ r.fd = q.fd
         \/ q.state = "InMem" /\ r.state = "InMem" /\ q.isdir /\ r.isdir
  PROVE  Image(t, e)' = Image(t, e)
  <1>1. PICK h : h = q.fd
    BY Zenon
  <1>2. q.state \in StateNames /\ h \in HostFds \cup {-1}
    BY <1>1, Zenon DEF CInv, SlotsOK, RecordOK
  <1>3. ASSUME InPlace(q) PROVE Behind(h)' = Behind(h)
    <2>1. InPlace(r) /\ r.fd = h
      BY <1>1, <1>3, Zenon DEF InPlace
    <2>2. h = -1 \/ files[t][h] # Null
      BY <1>1, <1>3, Zenon DEF CInv, DirectIsHeld, InPlace
    <2>3. h = -1 \/ files'[t][h] # Null
      BY <2>1, Zenon DEF CInv, DirectIsHeld, InPlace
    <2> QED BY <1>2, <2>2, <2>3, BehindKept, ZenonT(40)
  <1> QED BY <1>1, <1>2, <1>3, SameImage, ZenonT(40)

\* What a call may do to the image of the file in slot c of s.
ImageMoves(s, c) ==
  \/ Image(s, c)' = Image(s, c)
  \/ Image(s, c).kind = "none" \/ Image(s, c)'.kind = "none"
  \/ /\ Image(s, c).kind = "bytes" /\ Image(s, c)'.kind = "bytes"
     /\ \/ Images!Truncated(Image(s, c).bytes, Image(s, c)'.bytes)
        \/ WrittenTo(Image(s, c).bytes, Image(s, c)'.bytes)

\* A record that changes in one of the listed ways changes its file as FileImages allows.
LEMMA RecordMovesImage ==
  ASSUME CInv, CInv', [Next]_vars, disk' = disk, NEW s \in live, s \in live', NEW c \in Slots,
         NEW q, q = con[s][c], NEW r, r = con'[s][c], Becomes(q, r)
  PROVE  ImageMoves(s, c)
  <1>1. CASE q.state = "Free"
    <2>1. Image(s, c) = [kind |-> "none", bytes |-> <<>>]
      BY <1>1, ImageIs, ZenonT(40)
    <2>2. Image(s, c).kind = "none"
      BY <2>1
    <2> QED BY <2>2, Zenon DEF ImageMoves
  <1>2. CASE r.state = "Free"
    <2>1. Image(s, c)' = [kind |-> "none", bytes |-> <<>>]
      BY <1>2, ImageWillBe, ZenonT(40)
    <2>2. Image(s, c)'.kind = "none"
      BY <2>1
    <2> QED BY <2>2, Zenon DEF ImageMoves
  <1>3. CASE \/ InPlace(q) /\ InPlace(r) /\ r.fd = q.fd
             \/ q.state = "InMem" /\ r.state = "InMem" /\ q.isdir /\ r.isdir
    BY <1>3, ImageKept, Zenon DEF ImageMoves
  <1>4. ASSUME NEW old, Image(s, c) = [kind |-> "bytes", bytes |-> old], IsFile(r),
               Images!Truncated(old, Bytes(r)) \/ WrittenTo(old, Bytes(r))
        PROVE  ImageMoves(s, c)
    <2>1. PICK new : new = Bytes(r)
      BY Zenon
    <2>2. Image(s, c)' = [kind |-> "bytes", bytes |-> new]
      BY <1>4, <2>1, ImageWillBe, ZenonT(40)
    <2>3. /\ Image(s, c).kind = "bytes" /\ Image(s, c).bytes = old
          /\ Image(s, c)'.kind = "bytes" /\ Image(s, c)'.bytes = new
      BY <1>4, <2>2
    <2> QED BY <1>4, <2>1, <2>3, Zenon DEF ImageMoves
  <1>5. CASE /\ IsFile(q) /\ IsFile(r)
             /\ Images!Truncated(Bytes(q), Bytes(r)) \/ WrittenTo(Bytes(q), Bytes(r))
    BY <1>4, <1>5, ImageIs, ZenonT(40)
  <1>6. CASE /\ InPlace(q) /\ Behind(q.fd).kind = "file" /\ IsFile(r)
             /\ WrittenTo(Behind(q.fd).bytes, Bytes(r))
    BY <1>4, <1>6, ImageIs, ZenonT(40)
  <1> QED BY <1>1, <1>2, <1>3, <1>5, <1>6, ZenonT(40) DEF Becomes

\* The variable of FileImages.
Img == [s \in live |-> [c \in Slots |-> Image(s, c)]]

\* No image changes.
LEMMA ImgStays ==
  ASSUME live' = live, \A t \in live, e \in Slots : Image(t, e)' = Image(t, e)
  PROVE  Img' = Img
  <1>1. Img' = [t \in live |-> [e \in Slots |-> Image(t, e)']]
    BY Zenon DEF Img
  <1>2. \A t \in live : [e \in Slots |-> Image(t, e)'] = [e \in Slots |-> Image(t, e)]
    BY Zenon
  <1> QED BY <1>1, <1>2, Zenon DEF Img

\* One image changes.
LEMMA ImgChanges ==
  ASSUME live' = live, NEW s \in live, NEW c \in Slots,
         \A t \in live, e \in Slots : t # s \/ e # c => Image(t, e)' = Image(t, e),
         ImageMoves(s, c), Image(s, c)' # Image(s, c)
  PROVE  Images!FIChange(s, c)
  <1>1. DOMAIN Img = live /\ DOMAIN Img' = live
    BY Zenon DEF Img
  <1>2. \A t \in live, e \in Slots : Img[t][e] = Image(t, e) /\ Img'[t][e] = Image(t, e)'
    BY Zenon DEF Img
  <1>3. Images!OnlyChanges(s, c)
    <2>1. \A t \in live, e \in Slots : t # s \/ e # c => Img'[t][e] = Img[t][e]
      BY <1>2, ZenonT(40)
    <2> QED BY <1>1, <2>1, Zenon DEF Images!OnlyChanges, Img
  <1>4. \/ Img[s][c].kind = "none" \/ Img'[s][c].kind = "none"
        \/ /\ Img[s][c].kind = "bytes" /\ Img'[s][c].kind = "bytes"
           /\ \/ Images!Truncated(Img[s][c].bytes, Img'[s][c].bytes)
              \/ WrittenTo(Img[s][c].bytes, Img'[s][c].bytes)
    BY <1>2, Zenon DEF ImageMoves
  <1> QED BY <1>3, <1>4, Zenon DEF Images!FIChange, Images!FIWrite, Img, WrittenTo

\* A call changes one file of its own state as FileImages allows, or none.
LEMMA EffectRefines ==
  ASSUME CInv, CInv', [Next]_vars, disk' = disk, NEW s \in live, Effect(s)
  PROVE  Img' = Img \/ \E c \in Slots : Images!FIChange(s, c)
  <1>1. live' = live
    BY Zenon DEF Effect
  <1>2. CASE con' = con
    <2>1. \A t \in live, e \in Slots : Image(t, e)' = Image(t, e)
      BY <1>1, <1>2, ImageKept, Zenon
    <2> QED BY <1>1, <2>1, ImgStays, Zenon
  <1>3. ASSUME NEW c \in Slots, NEW r, SetCon(s, c, r), Becomes(con[s][c], r)
        PROVE  Img' = Img \/ \E d \in Slots : Images!FIChange(s, d)
    <2>0. live \subseteq States /\ Shape
      BY LiveAreStates, Zenon DEF CInv
    <2>1. /\ con'[s][c] = r
          /\ \A t \in States, e \in Slots : t # s \/ e # c => con'[t][e] = con[t][e]
      <3>1. s \in States
        BY <2>0, Zenon
      <3> QED BY <1>3, <2>0, <3>1, SetConEffect, ZenonT(40)
    <2>2. ASSUME NEW t \in live, NEW e \in Slots, t # s \/ e # c
          PROVE  Image(t, e)' = Image(t, e)
      <3>1. con'[t][e] = con[t][e]
        BY <2>0, <2>1, <2>2, Zenon
      <3> QED BY <1>1, <3>1, ImageKept, Zenon
    <2>3. ImageMoves(s, c)
      BY <1>1, <1>3, <2>1, RecordMovesImage, ZenonT(40)
    <2>4. CASE Image(s, c)' = Image(s, c)
      <3>1. \A t \in live, e \in Slots : Image(t, e)' = Image(t, e)
        BY <2>2, <2>4, Zenon
      <3> QED BY <1>1, <3>1, ImgStays, Zenon
    <2>5. CASE Image(s, c)' # Image(s, c)
      <3>1. \A t \in live, e \in Slots : t # s \/ e # c => Image(t, e)' = Image(t, e)
        BY <2>2, Zenon
      <3>2. Images!FIChange(s, c)
        BY <1>1, <2>3, <2>5, <3>1, ImgChanges, ZenonT(40)
      <3> QED BY <3>2, Zenon
    <2> QED BY <2>4, <2>5, Zenon
  <1> QED BY <1>2, <1>3, Zenon DEF Effect, RecordMoves

\* A fork gives the new state the files of the old one.
LEMMA FilesFork ==
  ASSUME CInv, CInv', [Next]_vars, disk' = disk, NEW s \in live, NEW t \in States, Fork(s, t)
  PROVE  Images!FIFork(s, t)
  <1>1. /\ t \notin live /\ live' = live \cup {t} /\ con' = [con EXCEPT ![t] = con[s]]
        /\ host' = host /\ live \subseteq States
    BY LiveAreStates, Zenon DEF Fork, Copy
  <1>2. con'[t] = con[s] /\ \A u \in live : con'[u] = con[u]
    BY <1>1, Zenon DEF CInv, Shape
  <1>3. ASSUME NEW e \in Slots PROVE Image(t, e)' = Image(s, e)
    <2>1. PICK q, h : q = con[s][e] /\ h = q.fd
      BY Zenon
    <2>2. Behind(h)' = Behind(h)
      BY <1>1, Zenon DEF Behind
    <2>3. q.state \in StateNames /\ q = con'[t][e]
      BY <1>2, <2>1, Zenon DEF CInv, SlotsOK, RecordOK
    <2> QED BY <2>1, <2>2, <2>3, SameImage, ZenonT(40)
  <1>4. ASSUME NEW u \in live, NEW e \in Slots PROVE Image(u, e)' = Image(u, e)
    BY <1>1, <1>2, ImageKept, ZenonT(40)
  <1>5. Img' = [u \in live \cup {t} |-> [e \in Slots |-> Image(u, e)']]
    BY <1>1, Zenon DEF Img
  <1>6. [e \in Slots |-> Image(t, e)'] = Img[s]
    BY <1>3, Zenon DEF Img
  <1>7. \A u \in live : [e \in Slots |-> Image(u, e)'] = Img[u]
    BY <1>4, Zenon DEF Img
  <1>8. Img' = [u \in live \cup {t} |-> IF u = t THEN Img[s] ELSE Img[u]]
    BY <1>1, <1>5, <1>6, <1>7, ZenonT(40)
  <1>9. DOMAIN Img = live
    BY Zenon DEF Img
  <1> QED BY <1>1, <1>8, <1>9, ZenonT(40) DEF Images!FIFork, Img

\* The end of a state takes its files away, and changes no other's.
LEMMA FilesEnd ==
  ASSUME CInv, CInv', [Next]_vars, disk' = disk, NEW s \in live, Terminate(s)
  PROVE  Images!FIEnd(s)
  <1>1. live' = live \ {s} /\ con' = [con EXCEPT ![s] = NoCon] /\ live \subseteq States
    BY LiveAreStates, Zenon DEF Terminate, Destroy
  <1>2. \A u \in live' : u \in live /\ con'[u] = con[u]
    BY <1>1, Zenon DEF CInv, Shape
  <1>3. ASSUME NEW u \in live', NEW e \in Slots PROVE Image(u, e)' = Image(u, e)
    BY <1>2, ImageKept, Zenon
  <1>4. Img' = [u \in live \ {s} |-> [e \in Slots |-> Image(u, e)']]
    BY <1>1, Zenon DEF Img
  <1>5. \A u \in live \ {s} : [e \in Slots |-> Image(u, e)'] = Img[u]
    BY <1>1, <1>3, Zenon DEF Img
  <1>6. Img' = [u \in live \ {s} |-> Img[u]]
    BY <1>4, <1>5, Zenon
  <1>7. DOMAIN Img = live
    BY Zenon DEF Img
  <1> QED BY <1>6, <1>7, Zenon DEF Images!FIEnd, Img

(* As long as the program removes no file it has open and truncates none   *)
(* of the host, the runtime gives each state files of its own: a write     *)
(* changes its byte of its own state's file and no other, and moving a     *)
(* file into memory, forking, and the calls and ends of other states,      *)
(* which share the host's descriptors, change none (fd.c, make_con_inmem). *)
THEOREM FilesAreImages == ASSUME ~UnlinkOpen, ~Truncate PROVE Spec => ImplementsImages
  <1>1. Init => Images!FIInit
    <2> SUFFICES ASSUME Init PROVE Images!FIInit
      OBVIOUS
    <2>1. live = {Root} /\ Root \in States
      BY ResMgrAssumption, Zenon DEF Init, ResInit
    <2>2. ASSUME NEW c \in Slots PROVE Image(Root, c) = [kind |-> "none", bytes |-> <<>>]
      <3>1. con[Root][c] = FreshSlot
        BY <2>1, Zenon DEF Init, NoCon
      <3>2. FreshSlot.state = "Free"
        BY DEF FreshSlot
      <3> QED BY <3>1, <3>2, ImageIs, Zenon
    <2>3. [c \in Slots |-> Image(Root, c)] = [c \in Slots |-> [kind |-> "none", bytes |-> <<>>]]
      BY <2>2, Zenon
    <2>4. Img = [t \in {Root} |-> [c \in Slots |-> [kind |-> "none", bytes |-> <<>>]]]
      BY <2>1, <2>3, Zenon DEF Img
    <2> QED BY <2>1, <2>4, Zenon DEF Images!FIInit, Img
  <1>2. ASSUME CInv, CInv', BInv, [Next]_vars PROVE Images!FINext \/ Img' = Img
    <2>1. disk' = disk
      BY <1>2, DiskStays, Zenon
    <2>2. DOMAIN Img = live /\ live \subseteq States
      BY <1>2, LiveAreStates, Zenon DEF Img
    <2>3. CASE UNCHANGED vars
      <3>1. \A t \in live, e \in Slots : Image(t, e)' = Image(t, e)
        BY <1>2, <2>1, <2>3, ImageKept, ZenonT(40) DEF vars
      <3> QED BY <2>3, <3>1, ImgStays, Zenon DEF vars
    <2>4. ASSUME NEW s \in live, Effect(s) PROVE Images!FINext \/ Img' = Img
      <3>1. Img' = Img \/ \E c \in Slots : Images!FIChange(s, c)
        BY <1>2, <2>1, <2>4, EffectRefines, Zenon
      <3>2. s \in DOMAIN Img
        BY <2>2, Zenon
      <3> QED BY <3>1, <3>2, Zenon DEF Images!FINext, Img
    <2>5. ASSUME NEW s \in live, Terminate(s) PROVE Images!FINext
      <3>1. Images!FIEnd(s) /\ s \in States
        BY <1>2, <2>1, <2>2, <2>5, FilesEnd, ZenonT(40)
      <3> QED BY <3>1, Zenon DEF Images!FINext
    <2>6. ASSUME NEW s \in live, NEW t \in States, Fork(s, t) PROVE Images!FINext
      <3>1. Images!FIFork(s, t) /\ s \in States
        BY <1>2, <2>1, <2>2, <2>6, FilesFork, Zenon
      <3> QED BY <3>1, Zenon DEF Images!FINext
    <2> QED BY <1>2, <2>3, <2>4, <2>5, <2>6, StepEffect, ZenonT(40)
  <1>3. CInv /\ CInv' /\ BInv /\ [Next]_vars => [Images!FINext]_Img
    BY <1>2, Zenon
  <1>4. Spec => [][Images!FINext]_Img
    BY <1>3, FilesCorrect, BInvInit, BInvStep, PTL DEF Spec
  <1>5. Spec => Images!FIInit
    BY <1>1, PTL DEF Spec
  <1> QED BY <1>4, <1>5, PTL DEF ImplementsImages, Images!FISpec, Img
=============================================================================
