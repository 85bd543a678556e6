------------------------------ MODULE Checkers ------------------------------
(***************************************************************************)
(* The checkers on the paths of a program.  A path has a clone of every    *)
(* local checker; a fork clones them again (CheckerMgr), and what has been *)
(* reported is shared by all paths.  An ERROR ends the path, and so does   *)
(* the program's exit, when the checkers report what is left.              *)
(*                                                                         *)
(* Beside the checkers runs the program they watch: its descriptors and    *)
(* streams, the files' data, its mutexes and blocks.  That is the truth    *)
(* the properties compare the checkers with.                               *)
(*                                                                         *)
(* mode says which calls the checkers see:                                 *)
(*   external     the library is not interpreted: calls of the program;    *)
(*   interpreted  the calls inside of the library too;                     *)
(*   sliced       the library is interpreted, but under the path slicer    *)
(*                only calls by the program's own instructions count.      *)
(***************************************************************************)
EXTENDS CheckerRules

CONSTANTS
  Paths, Threads,
  Names, Inos,    \* file names, and the files themselves
  Fds, Fps,       \* the descriptors open returns, the streams fopen returns
  Mutexes, Addrs,
  Sites, Places,  \* where resources are made, where a program exits
  MaxDepth,       \* bound on the nesting of library functions
  Setups          \* [rules, mode, calls, sites]: the checkers, the calls they see, those
                  \* the program makes, and from where

Rules == {"OpenClose", "Lock", "File", "DataLoss", "SOC", "SOCR", "Leak"}
Modes == {"external", "interpreted", "sliced"}

\* Descriptors, streams, files and addresses are numbers, of which a call takes
\* the least that is free; Null, None and Std are none of them.
ASSUME ConstantsAssumption ==
  /\ Fds \subseteq Nat /\ Fps \subseteq Nat /\ Addrs \subseteq Nat /\ Inos \subseteq Nat
  /\ None \notin Fds \cup Inos \cup Fps \cup Threads /\ Null \notin Fps \cup Addrs
  /\ Std \notin Fps \cup {Null} /\ IsFiniteSet(Threads)
  /\ \A x \in Setups : x.rules \subseteq Rules /\ x.mode \in Modes /\ x.sites \subseteq Sites

VARIABLES
  setup,
  live,       \* the paths not ended yet
  chk,        \* localCheckers of a path: the state of each rule
  reported,   \* <<rule, place, site>> isReported has recorded
  os,         \* the program's files on a path
  prog,       \* its mutexes, blocks and threads
  alarms,     \* calls that were no misuse and an ERROR
  leaked,     \* <<rule, place, site>> left at the end of some path
  idle,       \* those of descriptors that were never written
  shown       \* <<rule, place, site>> that made an ERROR at the end of a path

vars == <<setup, live, chk, reported, os, prog, alarms, leaked, idle, shown>>
truth == <<leaked, idle, shown>>

OsNew == [fds |-> <<>>, streams |-> <<>>, names |-> [n \in Names |-> None], known |-> {},
          unsynced |-> {}, lost |-> FALSE, shared |-> FALSE, dropped |-> FALSE]
ProgNew == [locks |-> <<>>, heap |-> <<>>, lib |-> {}, line |-> Null,
            stack |-> [t \in Threads |-> <<>>], mixed |-> FALSE, deaf |-> FALSE]

\* UseOneChecker, or the default set of checkers.
Init ==
  /\ setup \in Setups
  /\ \E p \in Paths : live = {p}
  /\ chk = [p \in Paths |-> [r \in setup.rules |-> New(r)]]
  /\ os = [p \in Paths |-> OsNew] /\ prog = [p \in Paths |-> ProgNew]
  /\ reported = {} /\ alarms = {} /\ leaked = {} /\ idle = {} /\ shown = {}

-----------------------------------------------------------------------------
(* How a call reaches the checkers.                                        *)

Kind(e, k) == [x \in DOMAIN e \cup {"kind"} |-> IF x = "kind" THEN k ELSE e[x]]

\* The calls inside of a function of the library: each is entered and returns.
Inner(inside) ==
  [i \in 1..2 * Len(inside) |->
     IF i % 2 = 1 THEN Kind(inside[(i + 1) \div 2], "call") ELSE Kind(inside[i \div 2], "ret")]

\* callExternalFunction; or executeCall, the calls inside, and Ret.
Delivered(e, inside) ==
  IF setup.mode = "external" THEN <<Kind(e, "ext")>>
  ELSE <<Kind(e, "call")>>
       \o (IF setup.mode = "interpreted" THEN Inner(inside) ELSE <<>>)
       \o <<Kind(e, "ret")>>

\* The path goes on with files o and program g, or ends with terminateStateOnError.
\* fine: by the rules' own words, the call is no misuse.
Calls(p, es, o, g, fine) ==
  \E x \in {OnEvents(chk[p], es)} :
    LET ends == x.errs # {}
    IN /\ chk' = [chk EXCEPT ![p] = IF ends THEN [r \in setup.rules |-> New(r)] ELSE x.chk]
       /\ os' = [os EXCEPT ![p] = IF ends THEN OsNew ELSE o]
       /\ prog' = [prog EXCEPT ![p] = IF ends THEN ProgNew ELSE g]
       /\ live' = IF ends THEN live \ {p} ELSE live
       /\ alarms' = IF fine THEN alarms \cup {<<r, es[1].f>> : r \in x.errs \ {"DataLoss"}} ELSE alarms
       /\ UNCHANGED <<setup, reported, truth>>

FileCall(p, e, inside, o, fine) ==
  /\ e.f \in setup.calls
  /\ Calls(p, Delivered(e, inside), o, prog[p], fine)

-----------------------------------------------------------------------------
(* The program's files.                                                    *)

FreeInos(o) == Inos \ ({o.names[n] : n \in Names} \cup {o.fds[x].ino : x \in DOMAIN o.fds})
LibData(o, i) == \E x \in DOMAIN o.streams : /\ o.streams[x].lib
                                             /\ o.streams[x].fd \in DOMAIN o.fds
                                             /\ o.fds[o.streams[x].fd].ino = i

\* The descriptor of name n, or none: it is not there and not created.  by and
\* wrote say whether the program itself or the library opened and wrote it.
OpenFile(o, n, creat, s, by) ==
  LET new == o.names[n] = None
      i == IF new THEN Min(FreeInos(o)) ELSE o.names[n]
      fd == Min(Fds \ DOMAIN o.fds)
  IN IF new /\ ~creat THEN [fd |-> None, os |-> o]
     ELSE [fd |-> fd,
           os |-> [o EXCEPT !.names[n] = i, !.unsynced = IF new THEN @ \ {i} ELSE @,
                            !.fds = Put(@, fd, [ino |-> i, site |-> s, by |-> by, wrote |-> {}])]]

\* Data reaches the file of fd.
Written(o, fd, by) ==
  IF fd \in DOMAIN o.fds
  THEN [o EXCEPT !.fds[fd].wrote = @ \cup {by}, !.unsynced = @ \cup {o.fds[fd].ino}] ELSE o

Closed(o, fd) == [o EXCEPT !.fds = Drop(@, {fd}), !.known = @ \ {fd}]

Stream(fd, s) == [fd |-> fd, lib |-> FALSE, bad |-> FALSE, seen |-> FALSE, used |-> FALSE,
                  site |-> s]

Open(p, n, creat, s) ==
  /\ Fds \ DOMAIN os[p].fds # {} /\ FreeInos(os[p]) # {}
  /\ LET x == OpenFile(os[p], n, creat, s, "program")
     IN FileCall(p, [f |-> "open", name |-> n, creat |-> creat, fd |-> x.fd, site |-> s], <<>>,
                 IF x.fd = None THEN x.os ELSE [x.os EXCEPT !.known = @ \cup {x.fd}], TRUE)

FOpen(p, n, creat, s) ==
  /\ Fds \ DOMAIN os[p].fds # {} /\ FreeInos(os[p]) # {} /\ Fps \ DOMAIN os[p].streams # {}
  /\ LET x == OpenFile(os[p], n, creat, s, "library")
         fp == IF x.fd = None THEN Null ELSE Min(Fps \ DOMAIN os[p].streams)
         e == [f |-> "fopen", name |-> n, creat |-> creat, fd |-> x.fd, fp |-> fp, site |-> s]
     IN FileCall(p, e, <<[e EXCEPT !.f = "open"]>>,
                 IF fp = Null THEN x.os
                 ELSE [x.os EXCEPT !.streams = Put(@, fp, Stream(x.fd, s))], TRUE)

FdOpen(p, fd, s) ==
  /\ fd \in os[p].known /\ Fps \ DOMAIN os[p].streams # {}
  /\ LET fp == Min(Fps \ DOMAIN os[p].streams)
         two == \E x \in DOMAIN os[p].streams : os[p].streams[x].fd = fd
     IN FileCall(p, [f |-> "fdopen", fd |-> fd, fp |-> fp, site |-> s], <<>>,
                 [os[p] EXCEPT !.streams = Put(@, fp, Stream(fd, s)), !.shared = @ \/ two], TRUE)

\* dropped: the rule forgot entries of the descriptor.
FileNo(p, fp) ==
  /\ fp \in DOMAIN os[p].streams
  /\ LET fd == os[p].streams[fp].fd
         forgets == /\ "DataLoss" \in setup.rules
                    /\ LET c == chk[p]["DataLoss"].files
                       IN \E i \in DOMAIN c : c[i].fd = fd /\ c[i].fp # fp
     IN FileCall(p, [f |-> "fileno", fp |-> fp, fd |-> fd], <<>>,
                 [os[p] EXCEPT !.known = IF fd \in DOMAIN os[p].fds THEN @ \cup {fd} ELSE @,
                               !.dropped = @ \/ forgets], TRUE)

\* The buffer may fill up, and the stream may fail.
FWrite(p, fp, full) ==
  /\ fp \in DOMAIN os[p].streams
  /\ LET s == os[p].streams[fp]
         o == [os[p] EXCEPT !.streams[fp].lib = ~full, !.streams[fp].used = TRUE]
     IN FileCall(p, [f |-> "fwrite", fp |-> fp], IF full THEN <<[f |-> "write", fd |-> s.fd]>> ELSE <<>>,
                 IF full THEN Written(o, s.fd, "library") ELSE o, ~s.seen)

FRead(p, fp, bad) ==
  /\ fp \in DOMAIN os[p].streams
  /\ FileCall(p, [f |-> "fread", fp |-> fp], <<>>,
              [os[p] EXCEPT !.streams[fp].bad = @ \/ bad, !.streams[fp].used = TRUE],
              ~os[p].streams[fp].seen)

\* I/O that FileChecker does not watch may fail too.
FGetC(p, fp) ==
  /\ fp \in DOMAIN os[p].streams
  /\ FileCall(p, [f |-> "fgetc", fp |-> fp], <<>>, [os[p] EXCEPT !.streams[fp].bad = TRUE], TRUE)

FError(p, fp) ==
  /\ fp \in DOMAIN os[p].streams
  /\ LET bad == os[p].streams[fp].bad
     IN FileCall(p, [f |-> "ferror", fp |-> fp, ret |-> bad], <<>>,
                 [os[p] EXCEPT !.streams[fp].seen = bad], TRUE)

ClearErr(p, fp) ==
  /\ fp \in DOMAIN os[p].streams
  /\ FileCall(p, [f |-> "clearerr", fp |-> fp], <<>>,
              [os[p] EXCEPT !.streams[fp].bad = FALSE, !.streams[fp].seen = FALSE], TRUE)

Write(p, fd) ==
  /\ fd \in os[p].known
  /\ FileCall(p, [f |-> "write", fd |-> fd], <<>>, Written(os[p], fd, "program"), TRUE)

FFlush(p, fp) ==
  /\ fp \in DOMAIN os[p].streams
  /\ LET s == os[p].streams[fp]
         o == [os[p] EXCEPT !.streams[fp].lib = FALSE]
     IN FileCall(p, [f |-> "fflush", fp |-> fp],
                 IF s.lib THEN <<[f |-> "write", fd |-> s.fd]>> ELSE <<>>,
                 IF s.lib THEN Written(o, s.fd, "library") ELSE o, TRUE)

\* Of a stream, of one closed before, or of stdout.
FClose(p, fp) ==
  IF fp \in DOMAIN os[p].streams
  THEN LET s == os[p].streams[fp]
           o == IF s.lib THEN Written(os[p], s.fd, "library") ELSE os[p]
           close == <<[f |-> "close", fd |-> s.fd]>>
       IN FileCall(p, [f |-> "fclose", fp |-> fp],
                   IF s.lib THEN <<[f |-> "write", fd |-> s.fd]>> \o close ELSE close,
                   [Closed(o, s.fd) EXCEPT !.streams = Drop(@, {fp})], TRUE)
  ELSE FileCall(p, [f |-> "fclose", fp |-> fp], <<>>, os[p], fp = Std)

\* close_stdout of gnulib is part of the program: it is always interpreted.
CloseStdout(p) ==
  /\ "close_stdout" \in setup.calls
  /\ Calls(p, <<[f |-> "close_stdout", kind |-> "call"]>>
              \o Delivered([f |-> "fclose", fp |-> Std], <<>>)
              \o <<[f |-> "close_stdout", kind |-> "ret"]>>, os[p], prog[p], TRUE)

Close(p, fd) ==
  /\ fd \in os[p].known
  /\ FileCall(p, [f |-> "close", fd |-> fd], <<>>, Closed(os[p], fd), TRUE)

FSync(p, fd) ==
  /\ fd \in os[p].known
  /\ FileCall(p, [f |-> "fsync", fd |-> fd], <<>>, [os[p] EXCEPT !.unsynced = @ \ {os[p].fds[fd].ino}], TRUE)

Unlink(p, n) ==
  /\ os[p].names[n] # None
  /\ FileCall(p, [f |-> "unlink", name |-> n], <<>>, [os[p] EXCEPT !.names[n] = None], TRUE)

\* lost: a name now leads to a file whose data is not on the disk.
RenameFile(p, n, m) ==
  /\ os[p].names[n] # None
  /\ LET i == os[p].names[n]
     IN FileCall(p, [f |-> "rename", name |-> n, to |-> m], <<>>,
                 [os[p] EXCEPT !.names = IF n = m THEN @ ELSE [@ EXCEPT ![m] = i, ![n] = None],
                               !.lost = @ \/ i \in os[p].unsynced \/ LibData(os[p], i)], TRUE)

-----------------------------------------------------------------------------
(* The program's mutexes: the pthread functions are emulated, and always   *)
(* reach the checkers with their arguments.  mixed: a thread unlocked a    *)
(* mutex of another one, which is no misuse to LockChecker.                *)

MutexCall(p, t, f, m) ==
  LET l == prog[p].locks
      has == m \in DOMAIN l
      fine == CASE f = "init" -> ~has
                [] f = "lock" -> has /\ l[m] # t
                [] f = "unlock" -> has /\ l[m] = t
                [] f = "destroy" -> has /\ l[m] = None
      new == CASE f = "init" -> Put(l, m, None)
               [] f = "lock" -> [l EXCEPT ![m] = t]
               [] f = "unlock" -> [l EXCEPT ![m] = None]
               [] f = "destroy" -> Drop(l, {m})
  IN /\ f \in setup.calls
     /\ Calls(p, <<[f |-> f, m |-> m, kind |-> "ext"]>>, os[p],
              [prog[p] EXCEPT !.locks = IF fine THEN new ELSE l,
                              !.mixed = @ \/ (f = "unlock" /\ ~fine)], fine /\ ~prog[p].mixed)

-----------------------------------------------------------------------------
(* The program's blocks.  A block made inside of a function of the library *)
(* is the library's (lib).  mixed: a thread dealt with a block of its own, *)
(* or returned from getline, while another one was inside (the return of   *)
(* getline is then ignored, and what it passed stays recorded); deaf: an   *)
(* ignored function was external, and its return is no event.              *)

Used(g) == DOMAIN g.heap \cup g.lib
Inside(g, t) == g.stack[t] # <<>>
Meets(g, t) == \E u \in Threads \ {t} : Inside(g, u)

\* malloc, free and realloc are special functions, concrete to the checkers;
\* of a symbolic size, the states that are forked see a call and a return.
Special(e) == {<<Kind(e, "ext")>>, <<Kind(e, "call"), Kind(e, "ret")>>}

HeapCall(p, t, es, g, fine) ==
  LET mixed == g.mixed \/ Meets(prog[p], t)
  IN Calls(p, es, os[p], [g EXCEPT !.mixed = mixed], fine /\ ~mixed /\ ~g.deaf)

Malloc(p, t, s) ==
  /\ "malloc" \in setup.calls /\ Addrs \ Used(prog[p]) # {}
  /\ LET a == Min(Addrs \ Used(prog[p]))
     IN \E es \in Special([f |-> "malloc", a |-> a, site |-> s]) :
          HeapCall(p, t, es,
                   IF Inside(prog[p], t) THEN [prog[p] EXCEPT !.lib = @ \cup {a}]
                   ELSE [prog[p] EXCEPT !.heap = Put(@, a, s)], TRUE)

\* The program frees its blocks, or none, or one that is not its own; the library its own.
Free(p, t, a) ==
  /\ "malloc" \in setup.calls
  /\ Inside(prog[p], t) => a \in prog[p].lib
  /\ ~Inside(prog[p], t) => a \notin prog[p].lib
  /\ LET fine == a = Null \/ a \in Used(prog[p])
     IN HeapCall(p, t, <<[f |-> "free", a |-> a, kind |-> "ext"]>>,
                 [prog[p] EXCEPT !.heap = Drop(@, {a}), !.lib = @ \ {a},
                                 !.line = IF @ = a THEN Null ELSE @], fine)

\* The new block is made before the old one is freed; a is Null if that fails.
Realloc(p, t, old, zero, fails, s) ==
  /\ "realloc" \in setup.calls /\ ~Inside(prog[p], t)
  /\ old \in DOMAIN prog[p].heap \cup {Null}
  /\ Addrs \ Used(prog[p]) # {}
  /\ zero => old # Null /\ ~fails
  /\ LET a == IF zero \/ fails THEN Null ELSE Min(Addrs \ Used(prog[p]))
         g == prog[p]
     IN HeapCall(p, t, <<[f |-> "realloc", old |-> old, zero |-> zero, a |-> a, site |-> s,
                          kind |-> "ext"]>>,
                 [g EXCEPT !.heap = IF fails THEN @
                                    ELSE IF zero THEN Drop(@, {old})
                                    ELSE Put(Drop(@, {old}), a, s),
                           !.line = IF ~fails /\ @ = old THEN Null ELSE @], TRUE)

StrDup(p, t, s) ==
  /\ "strdup" \in setup.calls /\ ~Inside(prog[p], t) /\ Addrs \ Used(prog[p]) # {}
  /\ LET a == Min(Addrs \ Used(prog[p]))
         e == [f |-> "strdup", a |-> a, site |-> s]
     IN HeapCall(p, t, Delivered(e, <<[e EXCEPT !.f = "malloc"]>>),
                 [prog[p] EXCEPT !.heap = Put(@, a, s)], TRUE)

\* One of the functions LeakChecker ignores is entered; under the slicer only
\* those that the program calls itself are events.
Enter(p, t) ==
  LET g == [prog[p] EXCEPT !.stack[t] = Append(@, "ignored")]
      seen == setup.mode = "interpreted" \/ ~Inside(prog[p], t)
  IN /\ "ignored" \in setup.calls /\ Len(prog[p].stack[t]) < MaxDepth
     /\ IF setup.mode = "external"
        THEN /\ ~Inside(prog[p], t)
             /\ Calls(p, <<[f |-> "ignored", kind |-> "ext"]>>, os[p],
                      [prog[p] EXCEPT !.deaf = TRUE], TRUE)
        ELSE Calls(p, IF seen THEN <<[f |-> "ignored", kind |-> "call"]>> ELSE <<>>, os[p], g, TRUE)

\* getline(&line): the buffer is the program's, as if it had made it.
EnterGetline(p, t) ==
  /\ "getline" \in setup.calls /\ setup.mode # "external" /\ ~Inside(prog[p], t)
  /\ \A u \in Threads : "getline" \notin Range(prog[p].stack[u])
  /\ HeapCall(p, t, <<[f |-> "getline", t |-> t, old |-> prog[p].line, kind |-> "call"]>>,
              [prog[p] EXCEPT !.stack[t] = <<"getline">>], TRUE)

\* The innermost function returns; a getline that grew the buffer has moved it.
Leave(p, t, grows, s) ==
  LET g == prog[p]
      f == g.stack[t][Len(g.stack[t])]
      seen == setup.mode = "interpreted" \/ Len(g.stack[t]) = 1
      a == IF grows THEN Min(Addrs \ Used(g)) ELSE g.line
      out == [g EXCEPT !.stack[t] = SubSeq(@, 1, Len(@) - 1), !.mixed = @ \/ (f = "getline" /\ Meets(g, t))]
      e == [f |-> f, t |-> t, a |-> a, site |-> s, kind |-> "ret"]
  IN /\ Inside(g, t)
     /\ grows => f = "getline" /\ Addrs \ Used(g) # {}
     /\ Calls(p, IF seen THEN <<e>> ELSE <<>>, os[p],
              IF grows THEN [out EXCEPT !.heap = Put(Drop(@, {g.line}), a, s), !.line = a]
              ELSE out, TRUE)

-----------------------------------------------------------------------------
(* Forks and ends of paths.                                                *)

\* The copy constructor of ExecutionState, and CheckerMgr's.
Fork(p, q) ==
  /\ q \in Paths \ live
  /\ live' = live \cup {q}
  /\ chk' = [chk EXCEPT ![q] = chk[p]]
  /\ os' = [os EXCEPT ![q] = os[p]] /\ prog' = [prog EXCEPT ![q] = prog[p]]
  /\ UNCHANGED <<setup, reported, alarms, truth>>

Keys(S, place) == {<<x[1], place, x[2]>> : x \in S}
LeftOn(p) == {x \in setup.rules \X Sites : x[2] \in Left(x[1], chk[p][x[1]])}
ShownOn(p) == {x \in setup.rules \X Sites : x[2] \in Shown(x[1], chk[p][x[1]])}
Complaints(p) == {<<r, None>> : r \in {x \in setup.rules : Complains(x, chk[p][x])}}

\* What the program itself left, as a rule would have it (Leak and Lock,
\* as long as threads did not confuse them).
TrulyLeft(p, r) ==
  CASE r = "OpenClose" -> {os[p].streams[x].site : x \in DOMAIN os[p].streams}
    [] r = "SOC" -> {os[p].fds[x].site : x \in {y \in DOMAIN os[p].fds : os[p].fds[y].wrote # {}}}
    [] r = "SOCR" -> {os[p].fds[x].site : x \in DOMAIN os[p].fds}
    [] r = "Leak" /\ ~prog[p].mixed /\ ~prog[p].deaf ->
         {prog[p].heap[x] : x \in DOMAIN prog[p].heap}
    [] r = "Lock" /\ ~prog[p].mixed -> {None : m \in DOMAIN prog[p].locks}
    [] r = "File" -> {None : x \in {y \in DOMAIN os[p].streams : os[p].streams[y].used}}
    [] OTHER -> {}
TrulyIdle(p) == {os[p].fds[x].site : x \in {y \in DOMAIN os[p].fds : os[p].fds[y].wrote = {}}}

\* Mutant: the first path end at a place decides for every site.
ExitReportsPlace(p, place) ==
  LET old == {k \in Keys(LeftOn(p), place) : \E q \in reported : q[2] = place}
  IN /\ reported' = reported \cup Keys(LeftOn(p), place)
     /\ shown' = shown \cup (Keys(ShownOn(p), place) \ old)

\* report() of every checker; isReported records what it has not seen.
ExitReports(p, place) ==
  /\ reported' = reported \cup Keys(LeftOn(p), place)
  /\ shown' = shown \cup (Keys(ShownOn(p), place) \ reported) \cup Keys(Complaints(p), place)

\* terminateStateOnExit.
Exit(p, place) ==
  /\ ExitReports(p, place)
  /\ leaked' = leaked \cup Keys(UNION {{r} \X TrulyLeft(p, r) : r \in setup.rules}, place)
  /\ idle' = idle \cup Keys({"SOC"} \X TrulyIdle(p), place)
  /\ live' = live \ {p}
  /\ chk' = [chk EXCEPT ![p] = [r \in setup.rules |-> New(r)]]
  /\ os' = [os EXCEPT ![p] = OsNew] /\ prog' = [prog EXCEPT ![p] = ProgNew]
  /\ UNCHANGED <<setup, alarms>>

FileCalls(p) ==
  \/ \E n \in Names, s \in setup.sites, creat \in BOOLEAN : Open(p, n, creat, s) \/ FOpen(p, n, creat, s)
  \/ \E fd \in Fds : \/ Write(p, fd) \/ Close(p, fd) \/ FSync(p, fd)
                     \/ \E s \in setup.sites : FdOpen(p, fd, s)
  \/ \E fp \in Fps : \/ FileNo(p, fp) \/ FFlush(p, fp) \/ FError(p, fp) \/ ClearErr(p, fp)
                     \/ FGetC(p, fp)
                     \/ \E x \in BOOLEAN : FWrite(p, fp, x) \/ FRead(p, fp, x)
  \/ \E fp \in Fps \cup {Std} : FClose(p, fp)
  \/ CloseStdout(p)
  \/ \E n \in Names : Unlink(p, n) \/ \E m \in Names : RenameFile(p, n, m)

HeapCalls(p) ==
  \E t \in Threads :
    \/ \E a \in Addrs \cup {Null} : Free(p, t, a)
    \/ \E s \in setup.sites : \/ Malloc(p, t, s) \/ StrDup(p, t, s)
                        \/ \E grows \in BOOLEAN : Leave(p, t, grows, s)
                        \/ \E old \in Addrs \cup {Null}, zero, fails \in BOOLEAN :
                             Realloc(p, t, old, zero, fails, s)
    \/ Enter(p, t) \/ EnterGetline(p, t)

Next ==
  \E p \in live :
    \/ FileCalls(p)
    \/ \E t \in Threads, m \in Mutexes, f \in {"init", "lock", "unlock", "destroy"} :
         MutexCall(p, t, f, m)
    \/ HeapCalls(p)
    \/ \E q \in Paths : Fork(p, q)
    \/ \E place \in Places : Exit(p, place)

Spec == Init /\ [][Next]_vars

-----------------------------------------------------------------------------
(* Properties.                                                             *)

\* OpenCloseChecker and FileChecker know, on every live path and in every
\* mode, exactly the streams the program has open, however they were opened,
\* with the place that opened them; FileChecker also which of them were used
\* and on which of them ferror was seen, each stream in one set only.
StreamsTracked ==
  \A p \in live :
    LET st == os[p].streams
        sites == [x \in DOMAIN st |-> st[x].site]
        external == setup.mode = "external"
    IN /\ "OpenClose" \in setup.rules =>
            chk[p]["OpenClose"] = [fds |-> IF external THEN sites ELSE <<>>,
                                   exp |-> IF external THEN <<>> ELSE sites, dismiss |-> FALSE]
       /\ "File" \in setup.rules =>
            LET c == chk[p]["File"]
                In(used, seen) == {x \in DOMAIN st : st[x].used = used /\ st[x].seen = seen}
            IN c = [open |-> In(FALSE, FALSE), err |-> In(FALSE, TRUE),
                    dirty |-> In(TRUE, FALSE), errDirty |-> In(TRUE, TRUE)]

\* SysOpenCloseChecker misses no descriptor that is open by a call of open of the
\* program itself, and no write of the program to one, in any mode; when it sees
\* the calls inside of the library it knows the open descriptors exactly.
\* (Otherwise it does not know what fopen opened, and fclose of an fdopen-ed
\* descriptor leaves an entry behind, with its site, for the next open of that
\* number.)
DescriptorsTracked ==
  \A p \in live, r \in setup.rules \cap {"SOC", "SOCR"} :
    LET c == chk[p][r]
        fds == os[p].fds
    IN /\ \A x \in DOMAIN fds : fds[x].by = "program" =>
            x \in DOMAIN c /\ ("program" \in fds[x].wrote => c[x].wrote)
       /\ setup.mode = "interpreted" =>
            c = [x \in DOMAIN fds |-> [site |-> fds[x].site, wrote |-> fds[x].wrote # {}]]

\* No stream, descriptor or use of one escapes the rules that follow them.
FilesTracked == StreamsTracked /\ DescriptorsTracked

\* DataLossChecker lets no rename pass that makes a name lead to a file whose
\* data is still in a buffer, unless fileno made it forget an entry or two
\* streams of the program share a descriptor.
LossesSeen == \A p \in live : os[p].lost => "DataLoss" \notin setup.rules \/ os[p].dropped \/ os[p].shared

\* LeakChecker knows exactly the blocks of the program, with the places that
\* made them, however they move, and ignores events exactly while the program is
\* inside of a function to ignore; unless a thread met another one inside of a
\* library function (the count of ignored functions is the path's, not the
\* thread's) or such a function was external (its return is never seen).
HeapTracked ==
  \A p \in live :
    "Leak" \in setup.rules /\ ~prog[p].mixed /\ ~prog[p].deaf =>
      /\ chk[p]["Leak"].started = prog[p].heap
      /\ chk[p]["Leak"].ignore # 0 <=> \E t \in Threads : Inside(prog[p], t)

\* A call is an ERROR of a rule only if it is a misuse by that rule: closing
\* what is not open, I/O after an error was seen, locking what is not free.
\* The exceptions: to lock a mutex that another thread has is no misuse, but
\* an ERROR; and so is an external fclose(stdout).
ErrorsJustified ==
  \A x \in alarms :
    \/ x = <<"Lock", "lock">> /\ Cardinality(Threads) > 1
    \/ x[2] \in {"fclose", "close_stdout"} /\ setup.mode = "external"

\* Whatever a program leaves open (or not freed, or locked) at the end of some
\* path is shown at the end of a path that ends there and left it there.  SOC is
\* the exception: a path that left an unwritten descriptor of that place behind
\* has used up the report.
LeaksShown ==
  \A k \in leaked :
    \/ k \in shown
    \/ k \in idle
    \/ k[1] \in {"SOC", "SOCR"} /\ setup.mode # "interpreted"
=============================================================================
