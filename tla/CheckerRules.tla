---------------------------- MODULE CheckerRules ----------------------------
(***************************************************************************)
(* The rules of BasicCheckers.cpp, as functions from the state a checker   *)
(* has on a path, and an event, to the next state and whether the event is *)
(* an ERROR.  An event is a call of a library function f:                  *)
(*   ext   an external call that is over: arguments and result are known;  *)
(*   call  an interpreted function is entered (onCall with no args);       *)
(*   ret   an interpreted function returns (onRet).                        *)
(* IMPORTANT and the NEED_* bits are for the slicer and left out.  On an   *)
(* ERROR the path ends, so what a handler changed before is left out too.  *)
(***************************************************************************)
EXTENDS Integers, Sequences, FiniteSetsExt

CONSTANTS
  None, \* the fd or fp -1
  Null, \* the fp or address 0
  Std   \* a stream of _stdio_streams

Ok(c) == [st |-> c, err |-> FALSE]
Err(c) == [st |-> c, err |-> TRUE]

\* std::map: insert keeps the entry of a key that has one.
Put(m, k, v) == [x \in DOMAIN m \cup {k} |-> IF x \in DOMAIN m THEN m[x] ELSE v]
Drop(m, K) == [k \in DOMAIN m \ K |-> m[k]]

\* What a function needs is known: its arguments, or its result.
Entered(e) == e.kind \in {"ext", "call"}
Done(e) == e.kind \in {"ext", "ret"}

-----------------------------------------------------------------------------
(* OpenCloseChecker: streams are closed, and only once.                    *)

\* fds are the streams of external calls, exp those of interpreted ones,
\* with where they were opened.
OpenCloseNew == [fds |-> <<>>, exp |-> <<>>, dismiss |-> FALSE]

OpenCloseOpens(c, e) ==
  CASE e.fp = Null -> Ok(c)
    [] e.fp # Null /\ e.kind = "ext" -> Ok([c EXCEPT !.fds = Put(@, e.fp, e.site)])
    [] e.fp # Null /\ e.kind = "ret" -> Ok([c EXCEPT !.exp = Put(@, e.fp, e.site)])

\* close_stdout may close what is not open, and any code stdout.
OpenCloseCloses(c, e) ==
  CASE e.kind = "ext" /\ e.fp \in DOMAIN c.fds -> Ok([c EXCEPT !.fds = Drop(@, {e.fp})])
    [] e.kind = "call" /\ e.fp \in DOMAIN c.exp -> Ok([c EXCEPT !.exp = Drop(@, {e.fp})])
    [] e.kind = "call" /\ e.fp \notin DOMAIN c.exp /\ (c.dismiss \/ e.fp = Std) -> Ok(c)
    [] OTHER -> Err(c)

OpenCloseOn(c, e) ==
  CASE e.f \in {"fopen", "fdopen"} /\ Done(e) -> OpenCloseOpens(c, e)
    [] e.f = "fclose" /\ Entered(e) -> OpenCloseCloses(c, e)
    [] e.f = "close_stdout" /\ e.kind = "call" -> Ok([c EXCEPT !.dismiss = TRUE])
    [] e.f = "close_stdout" /\ e.kind = "ret" -> Ok([c EXCEPT !.dismiss = FALSE])
    [] OTHER -> Ok(c)

OpenCloseLeft(c) == {c.fds[x] : x \in DOMAIN c.fds} \cup {c.exp[x] : x \in DOMAIN c.exp}

-----------------------------------------------------------------------------
(* LockChecker: mutexes are used between init and destroy, and alternate.  *)

LockNew == [init |-> {}, locked |-> {}]

\* Mutant: a locked mutex may be destroyed.
LockMisusedLax(c, e) ==
  CASE e.f = "init" -> e.m \in c.init
    [] e.f = "lock" -> e.m \notin c.init \/ e.m \in c.locked
    [] e.f = "unlock" -> e.m \notin c.init \/ e.m \notin c.locked
    [] e.f = "destroy" -> e.m \notin c.init

LockMisused(c, e) ==
  CASE e.f = "init" -> e.m \in c.init
    [] e.f = "lock" -> e.m \notin c.init \/ e.m \in c.locked
    [] e.f = "unlock" -> e.m \notin c.init \/ e.m \notin c.locked
    [] e.f = "destroy" -> e.m \in c.locked \/ e.m \notin c.init

LockOn(c, e) ==
  IF ~(e.f \in {"init", "lock", "unlock", "destroy"} /\ e.kind = "ext") THEN Ok(c)
  ELSE IF LockMisused(c, e) THEN Err(c)
  ELSE Ok(CASE e.f = "init" -> [c EXCEPT !.init = @ \cup {e.m}]
            [] e.f = "lock" -> [c EXCEPT !.locked = @ \cup {e.m}]
            [] e.f = "unlock" -> [c EXCEPT !.locked = @ \ {e.m}]
            [] e.f = "destroy" -> [c EXCEPT !.init = @ \ {e.m}])

LockReport(c) == c.init # {} \/ c.locked # {}

-----------------------------------------------------------------------------
(* FileChecker: no I/O on a closed stream or one whose error was seen.     *)

FileNew == [open |-> {}, err |-> {}, dirty |-> {}, errDirty |-> {}]

FileClears(c, x) ==
  [open |-> c.open \cup ({x} \cap c.err), err |-> c.err \ {x},
   dirty |-> c.dirty \cup ({x} \cap c.errDirty), errDirty |-> c.errDirty \ {x}]

FileCloses(c, x) ==
  LET left == [s \in DOMAIN c |-> c[s] \ {x}]
  IN IF left = c THEN Err(c) ELSE Ok(left)

\* ferror returned non-zero.
FileSeesError(c, x) ==
  CASE x \in c.open -> [c EXCEPT !.open = @ \ {x}, !.err = @ \cup {x}]
    [] x \notin c.open \cup c.err \cup c.errDirty /\ x \in c.dirty ->
         [c EXCEPT !.dirty = @ \ {x}, !.errDirty = @ \cup {x}]
    [] OTHER -> c

\* fread, fwrite, fputs, fgets, fprintf.
FileTransfers(c, x) ==
  CASE x \in c.open -> Ok([c EXCEPT !.open = @ \ {x}, !.dirty = @ \cup {x}])
    [] x \notin c.open /\ x \in c.dirty \ (c.err \cup c.errDirty) -> Ok(c)
    [] OTHER -> Err(c)

FileOn(c, e) ==
  CASE e.f = "clearerr" /\ Entered(e) -> Ok(FileClears(c, e.fp))
    [] e.f \in {"fopen", "fdopen"} /\ Done(e) /\ e.fp # Null ->
         Ok([c EXCEPT !.open = @ \cup {e.fp}])
    [] e.f = "fclose" /\ Entered(e) ->
         IF e.kind = "call" /\ e.fp = Std THEN Ok(c) ELSE FileCloses(c, e.fp)
    [] e.f = "ferror" /\ Done(e) -> Ok(IF e.ret THEN FileSeesError(c, e.fp) ELSE c)
    [] e.f \in {"fwrite", "fread"} /\ Entered(e) ->
         IF e.fp = Std THEN Ok(c) ELSE FileTransfers(c, e.fp)
    [] OTHER -> Ok(c)

FileReport(c) == c.dirty # {} \/ c.errDirty # {}

-----------------------------------------------------------------------------
(* DataLossChecker: what is renamed has reached the disk.  The fp of a     *)
(* file opened by open is None, and so is the fd of one opened by fopen.   *)

DataLossNew == [files |-> <<>>, unlinked |-> {}]

File(name, fp, fd) == [name |-> name, fp |-> fp, fd |-> fd, state |-> "clean"]
First(I) == IF I = {} THEN 0 ELSE Min(I)
FirstFp(s, x) == First({i \in DOMAIN s : s[i].fp = x})
FirstFd(s, x) == First({i \in DOMAIN s : s[i].fd = x})

ParseFOpen(c, e) ==
  IF e.fp = Null THEN c
  ELSE [files |-> Append(c.files, File(e.name, e.fp, None)),
        unlinked |-> IF e.creat THEN c.unlinked \ {e.name} ELSE c.unlinked]

ParseOpen(c, e) ==
  IF e.fd = None THEN c
  ELSE [files |-> Append(c.files, File(e.name, None, e.fd)),
        unlinked |-> IF e.creat THEN c.unlinked \ {e.name} ELSE c.unlinked]

\* The stream of an fd: of its first entry with none, else an entry more.
ParseFdOpen(c, e) ==
  LET all == {i \in DOMAIN c.files : c.files[i].fd = e.fd}
      free == First({i \in all : c.files[i].fp = None})
  IN CASE e.fp = Null -> c
       [] e.fp # Null /\ free # 0 -> [c EXCEPT !.files[free].fp = e.fp]
       [] e.fp # Null /\ free = 0 ->
            [c EXCEPT !.files = Append(@, File(IF all = {} THEN "" ELSE c.files[Max(all)].name,
                                               e.fp, e.fd))]

\* fwrite, fputs, fprintf.
LibWrite(c, e) ==
  LET i == FirstFp(c.files, e.fp) IN IF i = 0 THEN c ELSE [c EXCEPT !.files[i].state = "lib"]

SysWrite(c, e) ==
  LET i == FirstFd(c.files, e.fd)
  IN IF i # 0 /\ c.files[i].state = "clean" THEN [c EXCEPT !.files[i].state = "os"] ELSE c

\* fflush, and fclose, after which no descriptor leads to the entry.
Flush(c, e) ==
  LET i == FirstFp(c.files, e.fp)
      o == c.files[i]
      state == IF o.state = "lib" THEN "os" ELSE o.state
  IN IF i = 0 THEN c
     ELSE [c EXCEPT !.files[i] = IF e.f = "fclose"
                                 THEN [o EXCEPT !.state = state, !.fp = None, !.fd = None]
                                 ELSE [o EXCEPT !.state = state]]

CloseFd(c, e) ==
  IF \E i \in DOMAIN c.files : c.files[i].fd = e.fd /\ c.files[i].fp # None THEN Err(c)
  ELSE Ok([c EXCEPT !.files =
             [i \in DOMAIN @ |-> IF @[i].fd = e.fd THEN [@[i] EXCEPT !.fd = None] ELSE @[i]]])

\* The entry of the stream takes over the fd; the other entries of the fd go.
\* Erasing one in front moves the entry of the stream, but not the index: the
\* fd is written to the entry that is there now, or behind the last one.
Fileno(c, e) ==
  LET i == FirstFp(c.files, e.fp)
      others == SelectSeq([c.files EXCEPT ![i].fd = None], LAMBDA o : o.fd # e.fd)
  IN CASE i = 0 -> c
       [] i # 0 /\ i <= Len(others) -> [c EXCEPT !.files = [others EXCEPT ![i].fd = e.fd]]
       [] i # 0 /\ i > Len(others) -> [c EXCEPT !.files = others]

\* Mutant: a buffer of the library counts as synced.
FsyncAll(c, e) ==
  LET i == FirstFd(c.files, e.fd) IN IF i = 0 THEN c ELSE [c EXCEPT !.files[i].state = "clean"]

Fsync(c, e) ==
  LET i == FirstFd(c.files, e.fd)
  IN IF i # 0 /\ c.files[i].state = "os" THEN [c EXCEPT !.files[i].state = "clean"] ELSE c

Rename(c, e) ==
  IF \/ e.to \in c.unlinked
     \/ \E i \in DOMAIN c.files : c.files[i].name = e.name /\ c.files[i].state # "clean"
  THEN Err(c)
  ELSE Ok([files |-> [i \in DOMAIN c.files |->
                        IF c.files[i].name = e.name THEN [c.files[i] EXCEPT !.name = e.to]
                        ELSE c.files[i]],
           unlinked |-> IF e.name = e.to THEN c.unlinked ELSE c.unlinked \cup {e.name}])

DataLossOn(c, e) ==
  CASE e.f = "fopen" /\ Done(e) -> Ok(ParseFOpen(c, e))
    [] e.f = "open" /\ Done(e) -> Ok(ParseOpen(c, e))
    [] e.f = "fdopen" /\ Done(e) -> Ok(ParseFdOpen(c, e))
    [] e.f = "fileno" /\ Done(e) -> Ok(Fileno(c, e))
    [] e.f = "fwrite" /\ Entered(e) -> Ok(LibWrite(c, e))
    [] e.f = "write" /\ Entered(e) -> Ok(SysWrite(c, e))
    [] e.f \in {"fflush", "fclose"} /\ Entered(e) -> Ok(Flush(c, e))
    [] e.f = "close" /\ Entered(e) -> CloseFd(c, e)
    [] e.f = "fsync" /\ Entered(e) -> Ok(Fsync(c, e))
    [] e.f = "unlink" /\ Entered(e) -> Ok([c EXCEPT !.unlinked = @ \cup {e.name}])
    [] e.f = "rename" /\ Entered(e) -> Rename(c, e)
    [] OTHER -> Ok(c)

-----------------------------------------------------------------------------
(* SysOpenCloseChecker: descriptors are closed.  Under written_only (SOC,  *)
(* not SOCR) one that was never written may stay open.                     *)

SysNew == <<>>

SysOpens(c, e) == IF e.fd = None THEN c ELSE Put(c, e.fd, [site |-> e.site, wrote |-> FALSE])

\* Mutant: writes are not noted.
SysWritesNever(c, e) == c

SysWrites(c, e) == IF e.fd \in DOMAIN c THEN [c EXCEPT ![e.fd].wrote = TRUE] ELSE c

SysOn(c, e) ==
  CASE e.f = "open" /\ Done(e) -> Ok(SysOpens(c, e))
    [] e.f = "write" /\ Entered(e) -> Ok(SysWrites(c, e))
    [] e.f = "close" /\ Entered(e) -> Ok(Drop(c, {e.fd}))
    [] OTHER -> Ok(c)

\* In the order of the descriptors, only the first of a site is looked at:
\* isReported has recorded the place and the site before its state matters.
SysShown(c, writtenOnly) ==
  {c[x].site : x \in {y \in DOMAIN c :
     /\ \A z \in DOMAIN c : c[z].site = c[y].site => y <= z
     /\ ~writtenOnly \/ c[y].wrote}}

SysLeft(c) == {c[x].site : x \in DOMAIN c}

-----------------------------------------------------------------------------
(* PairwiseChecker and LeakChecker: blocks are freed, and only once.  No   *)
(* event counts while ignore is not 0, inside of functions of the library  *)
(* that keep blocks of their own ("ignored" stands for each of the six).   *)

LeakNew == [started |-> <<>>, ignore |-> 0, args |-> <<>>]

ParseStart(c, a, site) == IF a = Null THEN c ELSE [c EXCEPT !.started = Put(@, a, site)]

ParseEnd(c, a) ==
  CASE a = Null -> Ok(c)
    [] a # Null /\ a \in DOMAIN c.started -> Ok([c EXCEPT !.started = Drop(@, {a})])
    [] a # Null /\ a \notin DOMAIN c.started -> Err(c)

\* A block moves from old to a; what ParseEnd says of old is dropped.
Moves(c, old, a, site) == ParseStart(ParseEnd(c, old).st, a, site)

\* Mutant: a failed realloc frees the block.
ParseReallocFreeing(c, e) ==
  CASE e.old = Null -> Ok(ParseStart(c, e.a, e.site))
    [] e.old # Null /\ e.zero -> ParseEnd(c, e.old)
    [] e.old # Null /\ ~e.zero -> Ok(Moves(c, e.old, e.a, e.site))

ParseRealloc(c, e) ==
  CASE e.old = Null -> Ok(ParseStart(c, e.a, e.site))
    [] e.old # Null /\ e.zero -> ParseEnd(c, e.old)
    [] e.old # Null /\ ~e.zero /\ e.a = Null -> Ok(c)
    [] e.old # Null /\ ~e.zero /\ e.a # Null -> Ok(Moves(c, e.old, e.a, e.site))

LeakOnCall(c, e) ==
  LET i == IF e.f = "ignored" THEN c.ignore + 1 ELSE c.ignore
  IN CASE i # 0 -> Ok([c EXCEPT !.ignore = i])
       [] i = 0 /\ e.f = "getline" ->
            Ok([c EXCEPT !.ignore = 1, !.args = IF e.kind = "ext" THEN @ ELSE Put(@, e.t, e.old)])
       [] i = 0 /\ e.f = "free" -> ParseEnd(c, e.a)
       [] i = 0 /\ e.f = "realloc" /\ e.kind = "ext" -> ParseRealloc(c, e)
       [] i = 0 /\ e.f \in {"malloc", "strdup"} /\ e.kind = "ext" -> Ok(ParseStart(c, e.a, e.site))
       [] OTHER -> Ok(c)

LeakOnRet(c, e) ==
  LET i == IF e.f \in {"ignored", "getline"} THEN c.ignore - 1 ELSE c.ignore
      d == [c EXCEPT !.ignore = i]
  IN CASE i # 0 -> Ok(d)
       [] i = 0 /\ e.f = "getline" ->
            LET g == [d EXCEPT !.args = Drop(@, {e.t})]
            IN IF e.t \in DOMAIN d.args /\ d.args[e.t] # e.a
               THEN Ok(Moves(g, d.args[e.t], e.a, e.site)) ELSE Ok(g)
       [] i = 0 /\ e.f = "realloc" -> ParseRealloc(d, e)
       [] i = 0 /\ e.f \in {"malloc", "strdup"} -> Ok(ParseStart(d, e.a, e.site))
       [] OTHER -> Ok(d)

LeakOn(c, e) == IF Entered(e) THEN LeakOnCall(c, e) ELSE LeakOnRet(c, e)

LeakLeft(c) == {c.started[x] : x \in DOMAIN c.started}

-----------------------------------------------------------------------------
(* CheckerMgr.                                                             *)

New(r) ==
  CASE r = "OpenClose" -> OpenCloseNew
    [] r = "Lock" -> LockNew
    [] r = "File" -> FileNew
    [] r = "DataLoss" -> DataLossNew
    [] r \in {"SOC", "SOCR"} -> SysNew
    [] r = "Leak" -> LeakNew

On(r, c, e) ==
  CASE r = "OpenClose" -> OpenCloseOn(c, e)
    [] r = "Lock" -> LockOn(c, e)
    [] r = "File" -> FileOn(c, e)
    [] r = "DataLoss" -> DataLossOn(c, e)
    [] r \in {"SOC", "SOCR"} -> SysOn(c, e)
    [] r = "Leak" -> LeakOn(c, e)

\* The sites of what is left at the end of a path, by the rules that record
\* what they report, and those of them that would be shown.
Left(r, c) ==
  CASE r = "OpenClose" -> OpenCloseLeft(c)
    [] r \in {"SOC", "SOCR"} -> SysLeft(c)
    [] r = "Leak" -> LeakLeft(c)
    [] OTHER -> {}

Shown(r, c) == IF r \in {"SOC", "SOCR"} THEN SysShown(c, r = "SOC") ELSE Left(r, c)

\* What the other rules report, on every path.
Complains(r, c) ==
  CASE r = "Lock" -> LockReport(c)
    [] r = "File" -> FileReport(c)
    [] OTHER -> FALSE

\* CALL_CHECKERS: every checker sees the event; the results are or-ed.
Joined(res) ==
  [chk |-> [r \in DOMAIN res |-> res[r].st], errs |-> {r \in DOMAIN res : res[r].err}]
OnEvent(m, e) == Joined([r \in DOMAIN m |-> On(r, m[r], e)])

\* The events of one call, up to the first that is an ERROR.
OnEvents(m, es) ==
  LET run[i \in 0..Len(es)] ==
        IF i = 0 THEN [chk |-> m, errs |-> {}]
        ELSE LET x == run[i - 1] IN IF x.errs # {} THEN x ELSE OnEvent(x.chk, es[i])
  IN run[Len(es)]
=============================================================================
