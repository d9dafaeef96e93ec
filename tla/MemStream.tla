----------------------------- MODULE MemStream -----------------------------
(***************************************************************************)
(* fmemopen on top of funopen (exercises/fmemopen.c): a buffer of rsize    *)
(* bytes read, written and sought like a file.  It is run beside the file  *)
(* that it stands for: the bytes written so far and a position.            *)
(***************************************************************************)
EXTENDS Integers, Sequences, SequencesExt

CONSTANTS
  Types,       \* type strings, as sequences of characters
  rsize,       \* size of the buffer
  Data         \* what is written in one call: sequences of bytes, none of them 0

VARIABLES
  type, flags, \* of the open stream
  state,       \* "closed", "open", "done", "failed" or "nomem"
  own,         \* the buffer was allocated by fmemopen
  buf, vsize, curpos,
  wild,        \* a byte outside the buffer was written
  file, pos    \* the file of the reference

vars == <<type, flags, state, own, buf, vsize, curpos, wild, file, pos>>
-----------------------------------------------------------------------------
\* type_to_flags: one mode character first, then + and b.
Mode == [r |-> {"READ"}, w |-> {"WRITE", "TRUNCATE"}, a |-> {"APPEND"}]
TakeCharAny(f, c) ==
  IF c \in DOMAIN Mode THEN f \union Mode[c]
  ELSE IF c = "+" THEN f \union {"READ", "WRITE"}
  ELSE IF c = "b" THEN f ELSE {"error"}
TakeChar(f, c) ==
  IF "error" \in f THEN f
  ELSE IF c \in DOMAIN Mode /\ f = {} THEN Mode[c]
  ELSE IF c = "+" /\ f # {} THEN f \union {"READ", "WRITE"}
  ELSE IF c = "b" /\ f # {} THEN f ELSE {"error"}
type_to_flags(t) == LET f == FoldLeft(TakeChar, {}, t) IN IF "error" \in f THEN {} ELSE f

Min2(a, b) == IF a < b THEN a ELSE b
\* The first 0 of a buffer, or its length.
find_end(b) == IF \E k \in 0..rsize - 1 : b[k] = 0
               THEN CHOOSE k \in 0..rsize - 1 : b[k] = 0 /\ \A l \in 0..k - 1 : b[l] # 0
               ELSE rsize
Bytes(b, n) == [k \in 1..n |-> b[k - 1]]

Init ==
  /\ type \in Types /\ flags = {} /\ state = "closed" /\ own \in BOOLEAN
  /\ buf \in {[k \in 0..rsize - 1 |-> IF k < n THEN 1 ELSE 0] : n \in {0, 1, rsize}}
  /\ vsize = 0 /\ curpos = 0 /\ wild = FALSE /\ file = <<>> /\ pos = 0

fmemopen ==
  LET f == type_to_flags(type)
      at == IF "APPEND" \in f /\ ~own THEN find_end(buf) ELSE 0
      size == IF "APPEND" \in f THEN at ELSE IF "TRUNCATE" \in f THEN 0 ELSE rsize
  IN /\ state = "closed"
     /\ \/ /\ f # {} /\ (own => {"READ", "WRITE"} \subseteq f)
           /\ state' = "open" /\ flags' = f /\ curpos' = at /\ vsize' = size
           /\ file' = Bytes(buf, size) /\ pos' = at
        \/ /\ f = {} \/ (own /\ ~({"READ", "WRITE"} \subseteq f))
           /\ state' = "failed" /\ UNCHANGED <<flags, curpos, vsize, file, pos>>
        \/ state' = "nomem" /\ UNCHANGED <<flags, curpos, vsize, file, pos>>
     /\ UNCHANGED <<type, own, buf, wild>>
-----------------------------------------------------------------------------
mstream_read(len) ==
  /\ state = "open" /\ "READ" \in flags /\ curpos < vsize
  /\ curpos' = curpos + Min2(len, vsize - curpos)
  /\ pos' = pos + Min2(len, Len(file) - pos)
  /\ UNCHANGED <<type, flags, state, own, buf, vsize, wild, file>>

\* The buffer with bytes d at off, and with a 0 at end.
Put(b, off, d) == [k \in DOMAIN b |-> IF k \in off..off + Len(d) - 1 THEN d[k - off + 1] ELSE b[k]]
\* Where a 0 is written after a write that grew the stream, and after one to a stream not read.
ZeroGrownAny(f, end) == IF {"READ", "WRITE"} \subseteq f THEN {end} ELSE {}
ZeroGrown(f, end) == IF {"READ", "WRITE"} \subseteq f /\ end < rsize THEN {end} ELSE {}
ZeroWriteOnlyShort(f, end) == IF "READ" \notin f /\ end < rsize THEN {end} ELSE {}
ZeroWriteOnly(f, end) == IF "READ" \in f THEN {} ELSE IF end < rsize THEN {end} ELSE {rsize - 1}
\* The number of bytes that are written, at off.
Room(len, off) == Min2(len, rsize - off)

\* An append goes to the end wherever the position is.
WhereCur == curpos
Where == IF "APPEND" \in flags THEN vsize ELSE curpos
mstream_write(d) ==
  LET off == Where
      nw == Room(Len(d), off)
      end == off + nw
      zeros == (IF end > vsize THEN ZeroGrown(flags, end) ELSE {}) \union ZeroWriteOnly(flags, end)
      at == IF "APPEND" \in flags THEN Len(file) ELSE pos
      done == SubSeq(d, 1, Min2(Len(d), rsize - at))
  IN /\ state = "open" /\ flags \intersect {"APPEND", "WRITE"} # {}
     /\ buf' = LET now == Put(buf, off, SubSeq(d, 1, nw)) IN [k \in DOMAIN now |-> IF k \in zeros THEN 0 ELSE now[k]]
     /\ curpos' = end /\ vsize' = IF end > vsize THEN end ELSE vsize
     /\ wild' = (wild \/ ~(zeros \subseteq DOMAIN buf))
     /\ file' = SubSeq(file, 1, at) \o done \o SubSeq(file, at + Len(done) + 1, Len(file))
     /\ pos' = at + Len(done)
     /\ UNCHANGED <<type, flags, state, own>>

\* whence is where the offset counts from; a target outside 0..vsize is refused.
mstream_seek(off, whence) ==
  LET to == off + (CASE whence = "SET" -> 0 [] whence = "END" -> vsize [] whence = "CUR" -> curpos)
  IN /\ state = "open" /\ to \in 0..vsize
     /\ curpos' = to
     /\ pos' = off + (CASE whence = "SET" -> 0 [] whence = "END" -> Len(file) [] whence = "CUR" -> pos)
     /\ UNCHANGED <<type, flags, state, own, buf, vsize, wild, file>>
mstream_close ==
  /\ state = "open" /\ state' = "done"
  /\ UNCHANGED <<type, flags, own, buf, vsize, curpos, wild, file, pos>>
Ended == state \in {"done", "failed", "nomem"} /\ UNCHANGED vars

Next ==
  \/ fmemopen \/ mstream_close \/ Ended
  \/ \E len \in 1..2 : mstream_read(len)
  \/ \E d \in Data : mstream_write(d)
  \/ \E off \in -1..1, whence \in {"SET", "END", "CUR"} : mstream_seek(off, whence)
-----------------------------------------------------------------------------
(***************************************************************************)
(* A stream opened for reading and writing behaves as the file: the same   *)
(* bytes up to its virtual size and the same position, after any sequence  *)
(* of reads, writes and seeks, with a full buffer too.  (The null byte of  *)
(* a stream that is only written may fall on data after a seek back.)      *)
(***************************************************************************)
StreamIsFile ==
  state = "open" /\ {"READ", "WRITE"} \subseteq flags => Bytes(buf, vsize) = file /\ curpos = pos

\* No byte outside the buffer is written, and the position is in the stream.
InBuffer == ~wild /\ curpos <= vsize /\ vsize <= rsize

\* A stream that is only written leaves a string: there is a null byte at or after its position, or at the end.
TerminatedStep ==
  state = "open" /\ buf' # buf /\ "READ" \notin flags =>
    \E k \in DOMAIN buf' : buf'[k] = 0 /\ k >= curpos' - 1
Terminated == [][TerminatedStep]_vars

\* A type is taken exactly when it is a mode character with any + and b after it.
TypeParsed ==
  LET ok == /\ type # <<>> /\ type[1] \in {"r", "w", "a"}
            /\ \A k \in 2..Len(type) : type[k] \in {"+", "b"}
  IN /\ state = "open" => ok
     /\ state = "failed" => ~ok \/ own
=============================================================================
