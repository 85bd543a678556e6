------------------------------ MODULE ConFiles ------------------------------
(***************************************************************************)
(* The concrete files of the POSIX runtime (runtime/POSIX/fd.c), linked    *)
(* into the explored program: a table of con_files and a table of          *)
(* descriptors in each execution state, above that state's ResMgr.  A file *)
(* of the host is read in place (DIRECT) until the program writes to it;   *)
(* its bytes are then copied into the state (INMEM) and the host's         *)
(* descriptor is closed.  Files the program makes are in memory at once.   *)
(*                                                                         *)
(* A call is one step: between its instructions other states may run, but  *)
(* they share nothing with it but descriptors that this state still holds, *)
(* and the offset that the host keeps for one (SeekFrom).                  *)
(* Injected failures return before they change anything.  A call that      *)
(* crashes (a NULL name, a wild pointer freed, a failed assert) ends the   *)
(* path, as Terminate does.  Standard streams, permissions, the modes of   *)
(* files and refcnt, which no code reads, are left out.                    *)
(***************************************************************************)
EXTENDS ResMgr, Sequences

CONSTANTS
  Fds,           \* descriptors of the program (MAX_FDS)
  MaxLinks,      \* MAX_LINKS
  InitialSlots,  \* INITIAL_CON_FILES
  MaxSlots,      \* bound on n_con_files
  Byte, Zero,    \* bytes, and the one a new buffer is filled with
  Symbolic,      \* a byte that klee_make_symbolic made
  BufMin,        \* size of the first buffer of a file
  MaxSize,       \* bound on offsets
  Counts,        \* numbers of bytes the program reads, seeks or truncates to
  Data,          \* bytes the program writes
  Disks,         \* what the host may have at the start: [kind, bytes] by name
  Special,       \* files whose contents are made symbolic (-sym-specific)
  UnlinkOpen,    \* may the program remove a file it has open?
  Truncate       \* may the program open a file with O_TRUNC?

Slots == 1..MaxSlots
Kinds == {"file", "pipe", "absent"}   \* a pipe cannot be read as a whole

ASSUME ConAssumption ==
  /\ Fds \subseteq Nat /\ MaxSize \in Nat
  /\ MaxLinks \in Nat \ {0} /\ BufMin \in Nat \ {0}
  /\ InitialSlots \in Nat \ {0} /\ MaxSlots \in Nat /\ InitialSlots <= MaxSlots
  /\ {Zero, Symbolic} \subseteq Byte /\ Data \subseteq Byte /\ Counts \subseteq 0..MaxSize
  /\ Disks \subseteq [Names -> [kind : Kinds, bytes : Seq(Byte)]]
  /\ Special \subseteq Names
  /\ UnlinkOpen \in BOOLEAN /\ Truncate \in BOOLEAN
\* What the powers of two are, up to the largest offset.
ASSUME PowerAssumption == 2^0 = 1 /\ \A i \in 0..MaxSize : 2^(i + 1) = 2 * 2^i

VARIABLES
  disk,   \* the files of the host
  con,    \* con_files of each state: where the bytes are (state), the host's
          \* descriptor or -1 (fd), MaxLinks names (name), isdir, size, the
          \* buffer (data), and whether the pointer stat is wild
  ncon,   \* n_con_files of each state
  fds     \* __exe_env.fds of each state: the slot of dcfile, 0 if not eOpen,
          \* the host's descriptor, and the offset

conVars == <<disk, con, ncon, fds>>
vars == <<live, files, info, host, disk, con, ncon, fds>>

\* A slot of malloc'ed memory: its pointer stat is wild until it is set.  Nothing reads
\* the other fields of a free slot.
FreshSlot == [state |-> "Free", fd |-> -1, name |-> Null, isdir |-> FALSE,
              size |-> 0, data |-> <<>>, wild |-> TRUE]
Closed == [slot |-> 0, fd |-> -1, off |-> 0]
NoCon == [c \in Slots |-> FreshSlot]
NoFds == [f \in Fds |-> Closed]

Init ==
  /\ ResInit
  /\ disk \in Disks
  /\ con = [s \in States |-> NoCon]
  /\ ncon = [s \in States |-> InitialSlots]
  /\ fds = [s \in States |-> NoFds]

-----------------------------------------------------------------------------
\* What the host has behind descriptor h, if it is open.
Behind(h) ==
  IF h \in HostFds /\ host[h] # Null THEN disk[host[h]]
  ELSE [kind |-> "absent", bytes |-> <<>>]

Named(n) == [i \in 1..MaxLinks |-> IF i = 1 THEN n ELSE Null]
HasName(r, n) == \E i \in 1..MaxLinks : r.name[i] = n

\* find_con_file: the first record with the name; a NULL table of names on the way crashes.
Passed(s, n, c) ==
  \A d \in 1..(c - 1) :
    con[s][d].state # "Free" => con[s][d].name # Null /\ ~HasName(con[s][d], n)
Found(s, n, c) ==
  /\ c \in 1..ncon[s] /\ con[s][c].state # "Free"
  /\ con[s][c].name # Null /\ HasName(con[s][c], n)
  /\ Passed(s, n, c)
NotFound(s, n) == Passed(s, n, ncon[s] + 1)

\* Mutant: a full table gives its last slot again.
NewSlotInUse(s, c, k) ==
  LET free == {d \in 1..ncon[s] : con[s][d].state = "Free"}
  IN IF free # {}
     THEN c \in free /\ k = ncon[s] /\ \A d \in free : d <= c
     ELSE c = ncon[s] /\ k = 2 * ncon[s] /\ k <= MaxSlots

\* The last free slot, or the first one of a table of twice the size; k is the new n_con_files.
NewSlot(s, c, k) ==
  LET free == {d \in 1..ncon[s] : con[s][d].state = "Free"}
  IN IF free # {}
     THEN c \in free /\ k = ncon[s] /\ \A d \in free : d <= c
     ELSE c = ncon[s] + 1 /\ k = 2 * ncon[s] /\ k <= MaxSlots

\* A record that keeps its descriptor and names, and one that gets a name.
Contents(r, state, size, data) ==
  [state |-> state, fd |-> r.fd, name |-> r.name, isdir |-> r.isdir, size |-> size,
   data |-> data, wild |-> r.wild]
WithName(r, i, n) ==
  [state |-> r.state, fd |-> r.fd, name |-> [r.name EXCEPT ![i] = n], isdir |-> r.isdir,
   size |-> r.size, data |-> r.data, wild |-> r.wild]
At(d, off) == [slot |-> d.slot, fd |-> d.fd, off |-> off]

SetCon(s, c, r) == con' = [con EXCEPT ![s][c] = r]
SetFd(s, f, d) == fds' = [fds EXCEPT ![s][f] = d]
LowestFd(s, f) ==
  /\ f \in Fds /\ fds[s][f].slot = 0
  /\ \A g \in Fds : fds[s][g].slot = 0 => f <= g

-----------------------------------------------------------------------------
\* open() of a file that has a record; with O_CREAT it is an error and changes nothing.
OpenAgain(s, n) ==
  \E f \in Fds, c \in Slots :
    /\ LowestFd(s, f) /\ Found(s, n, c)
    /\ SetFd(s, f, [slot |-> c, fd |-> con[s][c].fd, off |-> 0])
    /\ UNCHANGED <<resVars, disk, con, ncon>>

\* open() with O_CREAT of a file without a record, and O_EXCL if excl.
OpenCreate(s, n, excl) ==
  \E f \in Fds, c, k \in Slots :
    /\ LowestFd(s, f) /\ NotFound(s, n) /\ NewSlot(s, c, k)
    /\ excl => disk[n].kind = "absent"
    /\ SetCon(s, c, [state |-> "InMem", fd |-> -1, name |-> Named(n), isdir |-> FALSE,
                     size |-> 0, data |-> <<>>, wild |-> FALSE])
    /\ SetFd(s, f, [slot |-> c, fd |-> -1, off |-> 0])
    /\ ncon' = [ncon EXCEPT ![s] = k]
    /\ UNCHANGED <<resVars, disk>>

\* open() without O_CREAT of a file without a record: the host opens it, and truncates it if trunc.
OpenHost(s, n, trunc) ==
  \E f \in Fds, c, k \in Slots, h \in HostFds :
    /\ LowestFd(s, f) /\ NotFound(s, n) /\ NewSlot(s, c, k) /\ LowestFree(h)
    /\ disk[n].kind # "absent" /\ (trunc => Truncate)
    /\ disk' = IF trunc /\ disk[n].kind = "file"
               THEN [disk EXCEPT ![n] = [kind |-> "file", bytes |-> <<>>]] ELSE disk
    /\ \/ /\ ~(n \in Special /\ disk[n].kind = "file")
          /\ OpenFile(s, n, h)
          /\ SetCon(s, c, [state |-> "Direct", fd |-> h, name |-> Named(n), isdir |-> FALSE,
                           size |-> 0, data |-> <<>>, wild |-> FALSE])
       \/ /\ n \in Special /\ disk[n].kind = "file"
          /\ SetCon(s, c, [state |-> "InMem", fd |-> h, name |-> Named(n), isdir |-> FALSE,
                           size |-> Len(disk'[n].bytes), wild |-> FALSE,
                           data |-> [i \in 1..Len(disk'[n].bytes) |-> Symbolic]])
          /\ UNCHANGED resVars   \* klee_sys_open, then klee_sys_close
    /\ SetFd(s, f, [slot |-> c, fd |-> h, off |-> 0])
    /\ ncon' = [ncon EXCEPT ![s] = k]

\* open() that fails on the host, or on O_EXCL: the table may have grown.
OpenFails(s, n) ==
  \E c, k \in Slots :
    /\ NotFound(s, n) /\ NewSlot(s, c, k)
    /\ ncon' = [ncon EXCEPT ![s] = k]
    /\ UNCHANGED <<resVars, disk, con, fds>>

Close(s, f) ==
  /\ fds[s][f].slot # 0
  /\ SetFd(s, f, Closed)
  /\ UNCHANGED <<resVars, disk, con, ncon>>

\* dup2(f, g), and dup(f) for the lowest free g: g is closed first, even if it is f.
Dup2(s, f, g) ==
  /\ fds[s][f].slot # 0
  /\ SetFd(s, g, IF f = g THEN Closed ELSE fds[s][f])
  /\ UNCHANGED <<resVars, disk, con, ncon>>

\* The bytes read() sees through descriptor d of s.
Readable(s, d) ==
  LET r == con[s][d.slot]
  IN IF r.state # "InMem" THEN Behind(d.fd)
     ELSE IF r.isdir THEN [kind |-> "pipe", bytes |-> <<>>]
     ELSE [kind |-> "file", bytes |-> SubSeq(r.data, 1, r.size)]

Read(s, f, count) ==
  LET d == fds[s][f]
      left == Len(Readable(s, d).bytes) - d.off
  IN /\ d.slot # 0 /\ con[s][d.slot].state # "Free"
     /\ Readable(s, d).kind = "file" /\ left > 0
     /\ SetFd(s, f, At(d, d.off + (IF count < left THEN count ELSE left)))
     /\ UNCHANGED <<resVars, disk, con, ncon>>

\* Where a relative seek of s starts.  In place it is the offset the host keeps, set by a call
\* before; a state that shares the descriptor may have run, and moved it, in between.
SeekFrom(s, d) ==
  IF con[s][d.slot].state # "InMem" /\ \E t \in live \ {s} : files[t][d.fd] # Null
  THEN 0..MaxSize ELSE {d.off}

Lseek(s, f, offset, whence) ==
  LET d == fds[s][f]
      r == con[s][d.slot]
      inPlace == r.state \in {"Direct", "ForceDirect"}
      end == IF inPlace THEN Len(Behind(d.fd).bytes) ELSE r.size
  IN /\ d.slot # 0
     /\ inPlace => Behind(d.fd).kind = "file"
     /\ \E from \in SeekFrom(s, d) :
          LET new == offset + CASE whence = "SEEK_SET" -> 0
                                [] whence = "SEEK_CUR" -> from
                                [] whence = "SEEK_END" -> end
          IN /\ new <= MaxSize
             /\ SetFd(s, f, At(d, new))
     /\ UNCHANGED <<resVars, disk, con, ncon>>

-----------------------------------------------------------------------------
Max2(m, n) == IF m < n THEN n ELSE m
\* Mutant: the buffer grows once, whatever is needed.
CapacityOnce(first, size) == first

\* Buffers grow by doubling, from a first size, until they hold size bytes.
Capacity(first, size) ==
  CHOOSE c \in {first * 2^i : i \in 0..size} :
    c >= size /\ \A i \in 0..size : first * 2^i >= size => c <= first * 2^i

\* Mutant: the old bytes are not copied.
GrownEmpty(data, keep, cap) == [i \in 1..cap |-> Zero]

\* The first keep bytes of a buffer, in a new one of cap bytes.
Grown(data, keep, cap) == [i \in 1..cap |-> IF i <= keep THEN data[i] ELSE Zero]

\* The record after byte b is written at off in memory.
Stored(r, off, b) ==
  LET len == Len(r.data)
      buf == IF off + 1 <= len THEN r.data
             ELSE Grown(r.data, r.size,
                        Capacity(IF len = 0 THEN BufMin ELSE 2 * len, off + 1))
  IN Contents(r, r.state, Max2(r.size, off + 1), [buf EXCEPT ![off + 1] = b])

\* make_con_inmem(h, r) when the host can read the file as a whole.
InMemory(r, h) ==
  Contents(r, "InMem", Len(Behind(h).bytes), Behind(h).bytes)

\* write() to a file in memory.
WriteInMem(s, f, b) ==
  LET d == fds[s][f]
      r == con[s][d.slot]
  IN /\ d.slot # 0 /\ r.state = "InMem" /\ ~r.isdir /\ d.off < MaxSize
     /\ SetCon(s, d.slot, Stored(r, d.off, b))
     /\ SetFd(s, f, At(d, d.off + 1))
     /\ UNCHANGED <<resVars, disk, ncon>>

\* write() to a file that is read in place: its bytes move into memory first.
WriteDirect(s, f, b) ==
  LET d == fds[s][f]
      r == con[s][d.slot]
  IN /\ d.slot # 0 /\ r.state = "Direct" /\ d.off < MaxSize
     /\ Behind(d.fd).kind = "file"
     /\ SetCon(s, d.slot, Stored(InMemory(r, d.fd), d.off, b))
     /\ SetFd(s, f, At(d, d.off + 1))
     /\ CloseFile(s, d.fd)
     /\ UNCHANGED <<disk, ncon>>

\* make_con_inmem fails: from now on the file stays on the host, and writes are dropped.
WriteGivesUp(s, f) ==
  LET d == fds[s][f]
      r == con[s][d.slot]
  IN /\ d.slot # 0 /\ r.state = "Direct" /\ Behind(d.fd).kind # "file"
     /\ SetCon(s, d.slot, Contents(r, "ForceDirect", r.size, r.data))
     /\ UNCHANGED <<resVars, disk, ncon, fds>>

WriteDropped(s, f) ==
  LET d == fds[s][f]
  IN /\ d.slot # 0 /\ con[s][d.slot].state = "ForceDirect" /\ d.off < MaxSize
     /\ SetFd(s, f, At(d, d.off + 1))
     /\ UNCHANGED <<resVars, disk, con, ncon>>

\* ftruncate() sets the size, wherever the bytes are; a buffer in memory may have to grow.
Ftruncate(s, f, n) ==
  LET d == fds[s][f]
      r == con[s][d.slot]
      len == Len(r.data)
      grow == r.state = "InMem" /\ n > r.size /\ len < n
  IN /\ d.slot # 0
     /\ SetCon(s, d.slot,
          Contents(r, r.state, n,
                   IF grow THEN Grown(r.data, len, Capacity(IF len = 0 THEN BufMin ELSE len, n))
                   ELSE r.data))
     /\ UNCHANGED <<resVars, disk, ncon, fds>>

-----------------------------------------------------------------------------
\* lstat() finds neither a record nor a file of the host.
Mkdir(s, n) ==
  \E c, k \in Slots :
    /\ NotFound(s, n) /\ disk[n].kind = "absent" /\ NewSlot(s, c, k)
    /\ SetCon(s, c, [state |-> "InMem", fd |-> -1, name |-> Named(n), isdir |-> TRUE,
                     size |-> 512, data |-> <<>>, wild |-> FALSE])
    /\ ncon' = [ncon EXCEPT ![s] = k]
    /\ UNCHANGED <<resVars, disk, fds>>

\* unlink() and rmdir(): free_con_file, with all names of the record.
Unlink(s, n) ==
  \E c \in Slots :
    /\ Found(s, n, c) /\ ~con[s][c].wild
    /\ UnlinkOpen \/ \A f \in Fds : fds[s][f].slot # c
    /\ SetCon(s, c, [state |-> "Free", fd |-> -1, name |-> Null, isdir |-> FALSE,
                     size |-> 0, data |-> <<>>, wild |-> FALSE])
    /\ UNCHANGED <<resVars, disk, ncon, fds>>

Exists(s, n) == ~NotFound(s, n) \/ disk[n].kind # "absent"

\* link() of a file that has a record.
LinkRecord(s, old, new) ==
  \E c \in Slots, i \in 1..MaxLinks :
    /\ ~Exists(s, new) /\ Found(s, old, c)
    /\ con[s][c].name[i] = Null /\ \A j \in 1..(i - 1) : con[s][c].name[j] # Null
    /\ SetCon(s, c, WithName(con[s][c], i, new))
    /\ UNCHANGED <<resVars, disk, ncon, fds>>

\* link() of a file of the host: the record has no descriptor, and its stat is not set.
LinkHost(s, old, new) ==
  \E c, k \in Slots :
    /\ ~Exists(s, new) /\ NotFound(s, old) /\ disk[old].kind # "absent"
    /\ MaxLinks > 1 /\ NewSlot(s, c, k)
    /\ SetCon(s, c, [state |-> "Direct", fd |-> -1, name |-> [Named(old) EXCEPT ![2] = new],
                     isdir |-> FALSE, size |-> 0, data |-> <<>>, wild |-> con[s][c].wild])
    /\ ncon' = [ncon EXCEPT ![s] = k]
    /\ UNCHANGED <<resVars, disk, fds>>

\* rename() of a file that has a record: a record of the new name stays as well.
RenameRecord(s, old, new) ==
  \E c \in Slots, i \in 1..MaxLinks :
    /\ Found(s, old, c)
    /\ con[s][c].name[i] = old /\ \A j \in 1..(i - 1) : con[s][c].name[j] # old
    /\ SetCon(s, c, WithName(con[s][c], i, new))
    /\ UNCHANGED <<resVars, disk, ncon, fds>>

\* rename() of a file of the host: its bytes move into memory, under the new name.
RenameHost(s, old, new) ==
  \E c, k \in Slots :
    /\ NotFound(s, old) /\ disk[old].kind = "file" /\ NewSlot(s, c, k)
    /\ \E h \in HostFds : LowestFree(h) /\ CloseFile(s, h)   \* h is not in the map
    /\ SetCon(s, c, [state |-> "InMem", fd |-> -1, name |-> Named(new), isdir |-> FALSE,
                     size |-> Len(disk[old].bytes), data |-> disk[old].bytes,
                     wild |-> con[s][c].wild])
    /\ ncon' = [ncon EXCEPT ![s] = k]
    /\ UNCHANGED <<disk, fds>>

\* rename() of one that cannot be read: the descriptor stays open, the slot is taken, without a name.
RenameGivesUp(s, old) ==
  \E c, k \in Slots, h \in HostFds :
    /\ NotFound(s, old) /\ disk[old].kind = "pipe" /\ NewSlot(s, c, k)
    /\ OpenElsewhere(old, h)
    /\ SetCon(s, c, Contents(con[s][c], "ForceDirect", 0, <<>>))
    /\ ncon' = [ncon EXCEPT ![s] = k]
    /\ UNCHANGED <<disk, fds>>

-----------------------------------------------------------------------------
Fork(s, t) ==
  /\ Copy(s, t)
  /\ con' = [con EXCEPT ![t] = con[s]]
  /\ ncon' = [ncon EXCEPT ![t] = ncon[s]]
  /\ fds' = [fds EXCEPT ![t] = fds[s]]
  /\ UNCHANGED disk

Terminate(s) ==
  /\ Destroy(s)
  /\ con' = [con EXCEPT ![s] = NoCon]
  /\ ncon' = [ncon EXCEPT ![s] = InitialSlots]
  /\ fds' = [fds EXCEPT ![s] = NoFds]
  /\ UNCHANGED disk

Open(s, n) ==
  \/ OpenAgain(s, n) \/ OpenFails(s, n)
  \/ \E flag \in BOOLEAN : OpenCreate(s, n, flag) \/ OpenHost(s, n, flag)

Transfer(s, f) ==
  \/ Close(s, f)
  \/ \E m \in Counts \ {0} : Read(s, f, m)
  \/ \E b \in Data : WriteInMem(s, f, b) \/ WriteDirect(s, f, b)
  \/ WriteGivesUp(s, f) \/ WriteDropped(s, f)

Adjust(s, f) ==
  \/ \E g \in Fds : Dup2(s, f, g)
  \/ \E n \in Counts :
    \/ Ftruncate(s, f, n)
    \/ \E whence \in {"SEEK_SET", "SEEK_CUR", "SEEK_END"} : Lseek(s, f, n, whence)

Rearrange(s, n) ==
  \/ Mkdir(s, n) \/ Unlink(s, n) \/ RenameGivesUp(s, n)
  \/ \E m \in Names : LinkRecord(s, n, m) \/ LinkHost(s, n, m)
                      \/ RenameRecord(s, n, m) \/ RenameHost(s, n, m)

\* The calls that move bytes, and those that only change sizes, descriptors and names.
Moves(s) ==
  \/ \E t \in States : Fork(s, t)
  \/ Terminate(s)
  \/ \E n \in Names : Open(s, n)
  \/ \E f \in Fds : Transfer(s, f)
Changes(s) ==
  \/ \E n \in Names : Rearrange(s, n)
  \/ \E f \in Fds : Adjust(s, f)

Next == \E s \in live : Moves(s) \/ Changes(s)

Spec == Init /\ [][Next]_vars

-----------------------------------------------------------------------------
(* The assertions of read() and write() hold on every open descriptor: its *)
(* record is a file that is read in place or one in memory (fd.c, read,    *)
(* write: assert(f->dcfile->state == CON_STATE_INMEM)).                    *)
AssertsHold ==
  \A s \in live, f \in Fds :
    fds[s][f].slot # 0 => con[s][fds[s][f].slot].state # "Free"

(* A file that a state reads in place is one its ResMgr holds, whatever    *)
(* conversions, forks and ends of other states happen in between; so the   *)
(* descriptor number that con_files keeps is not one the host has closed   *)
(* or given to another file (__fd_open, make_con_inmem).                   *)
DirectIsHeld ==
  \A s \in live, c \in Slots :
    LET r == con[s][c]
    IN r.state \in {"Direct", "ForceDirect"} /\ r.fd # -1 => files[s][r.fd] # Null

(* A file in memory has no more bytes than its buffer, after any sequence  *)
(* of writes, seeks past the end and truncations: neither read() nor       *)
(* write() leaves the buffer (fd.h: buf_size must be >= size).             *)
InBuffer ==
  \A s \in live, c \in Slots :
    LET r == con[s][c]
    IN r.state = "InMem" /\ ~r.isdir => r.size <= Len(r.data)

Image(s, c) ==
  LET r == con[s][c]
  IN CASE r.state = "Free" -> [kind |-> "none", bytes |-> <<>>]
       [] r.state = "InMem" /\ r.isdir -> [kind |-> "dir", bytes |-> <<>>]
       [] r.state = "InMem" /\ ~r.isdir -> [kind |-> "bytes", bytes |-> SubSeq(r.data, 1, r.size)]
       [] r.state \in {"Direct", "ForceDirect"} ->
            IF Behind(r.fd).kind = "file" THEN [kind |-> "bytes", bytes |-> Behind(r.fd).bytes]
            ELSE [kind |-> "dead", bytes |-> <<>>]

(* Every descriptor of a file reads the same bytes, those of the file it   *)
(* was opened on, also when the file has moved into memory through another *)
(* descriptor and the number in f->fd is stale (read(), write()).          *)
ReadsItsFile ==
  \A s \in live, f \in Fds :
    LET d == fds[s][f]
    IN d.slot # 0 /\ Image(s, d.slot).kind = "bytes" =>
         Readable(s, d) = [kind |-> "file", bytes |-> Image(s, d.slot).bytes]

Images == INSTANCE FileImages
            WITH image <- [s \in live |-> [c \in Slots |-> Image(s, c)]]

(* The con_files implement files that belong to one state each: a write    *)
(* changes its own byte of its own state's file, and moving a file into    *)
(* memory, forking, and closing shared descriptors change none.            *)
ImplementsImages == Images!FISpec

(* Seen from the host, each call is at most one call of the ResMgrs.       *)
ImplementsResMgr == ResSpec
=============================================================================
