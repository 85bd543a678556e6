----------------------------- MODULE TreeStream -----------------------------
(***************************************************************************)
(* TreeStreamWriter: many streams in one file.  A stream is opened as a    *)
(* child of another and begins with what that one holds.  A record of the  *)
(* file is [id, child, data]: stream child was opened from id, if child is *)
(* not 0, and else data was written to id.  fork() writes one byte at a    *)
(* time, so a write always fits in the buffer.                             *)
(***************************************************************************)
EXTENDS Naturals, Sequences

CONSTANT BufferSize
ASSUME BufferAssumption == BufferSize \in Nat \ {0, 1}

\* ids: the next id; last, buffer: lastID and the bytes of the buffer.
NewWriter == [file |-> <<>>, ids |-> 1, last |-> 0, buffer |-> <<>>]

ForkRecord(p, c) == [id |-> p, child |-> c, data |-> <<>>]
DataRecord(id, data) == [id |-> id, child |-> 0, data |-> data]

FlushBuffer(w) ==
  IF w.buffer = <<>> THEN w
  ELSE [w EXCEPT !.file = Append(w.file, DataRecord(w.last, w.buffer)), !.buffer = <<>>]

\* Mutant: open() does not flush the buffer.
OpenedUnflushed(w, p) ==
  [w EXCEPT !.file = Append(w.file, ForkRecord(p, w.ids)), !.ids = w.ids + 1]

\* open(os); the new stream is w.ids.
Opened(w, p) ==
  [FlushBuffer(w) EXCEPT !.file = Append(FlushBuffer(w).file, ForkRecord(p, w.ids)),
                         !.ids = w.ids + 1]

\* write() of one byte.
Written(w, id, b) ==
  IF w.buffer # <<>> /\ id = w.last /\ Len(w.buffer) + 1 <= BufferSize
  THEN [w EXCEPT !.buffer = Append(w.buffer, b)]
  ELSE [FlushBuffer(w) EXCEPT !.last = id, !.buffer = <<b>>]
=============================================================================
