------------------------------ MODULE FileCopy ------------------------------
(***************************************************************************)
(* Three ways to copy a file: through one buffer (advio/rot13a.c), with    *)
(* NBUF asynchronous reads and writes under way (advio/rot13c2.c.in), and  *)
(* through memory maps of COPYINCR bytes (advio/mcopy2.c).  The first two  *)
(* translate each character by rot13.  Another process may shorten the     *)
(* input meanwhile.                                                        *)
(***************************************************************************)
EXTENDS Integers, FiniteSets

CONSTANTS
  BSZ, NBUF,   \* the buffers of the asynchronous copy
  COPYINCR,    \* bytes mapped at a time
  MaxSize,     \* bound: bytes of the input
  Text         \* input characters: a function from 0..MaxSize - 1 to codes

Buf == 1..NBUF
Min2(a, b) == IF a < b THEN a ELSE b
Upper == 65..90
Lower == 97..122

\* The codes of N and n are 78 and 110.
translate(c) ==
  IF c \notin Upper \union Lower THEN c
  ELSE IF c >= 110 THEN c - 13 ELSE IF c >= 97 THEN c + 13 ELSE IF c >= 78 THEN c - 13 ELSE c + 13

VARIABLES
  kind,        \* "aio", "read" or "mmap"
  size, st_size, \* the input's size now, and what fstat said
  out,         \* the output: a function from positions to characters
  off,         \* the position of the next read (fsz of the memory maps)
  op, last, busy, \* each buffer: UNUSED, READ or WRITE; holds the last block; request under way
  pos, n,      \* aio_offset, and the bytes read
  i, numop,    \* the buffer that the loop looks at; requests counted
  st           \* "run", "suspend", "failed", or ended with status 0: "done", or "cut" by a
               \* read that failed

avars == <<op, last, busy, pos, n, i, numop>>
vars == <<kind, size, st_size, out, off, op, last, busy, pos, n, i, numop, st>>

Init ==
  /\ kind \in {"aio", "read", "mmap"} /\ size \in 0..MaxSize /\ st_size = size /\ out = [k \in {} |-> 0] /\ off = 0
  /\ op = [b \in Buf |-> "UNUSED"] /\ last = [b \in Buf |-> FALSE] /\ busy = [b \in Buf |-> FALSE]
  /\ pos = [b \in Buf |-> 0] /\ n = [b \in Buf |-> 0] /\ i = 1 /\ numop = 0 /\ st = "run"

\* Positions from..from + len - 1 of the output become those of the text t.
Store(from, len, t) ==
  out' = [k \in DOMAIN out \union from..from + len - 1 |-> IF k \in from..from + len - 1 THEN t[k] ELSE out[k]]
Rot13 == [k \in DOMAIN Text |-> translate(Text[k])]
-----------------------------------------------------------------------------
\* rot13a: read, translate, write, until nothing is read; a short write ends the program.
\* A read that fails ends the loop as the end of the file does.
ReadWrite ==
  /\ kind = "read" /\ st = "run"
  /\ \/ LET nr == Min2(BSZ, size - off)
        IN IF nr > 0
           THEN \/ Store(off, nr, Rot13) /\ off' = off + nr /\ UNCHANGED st
                \/ st' = "failed" /\ UNCHANGED <<out, off>>
           ELSE st' = "done" /\ UNCHANGED <<out, off>>
     \/ st' = "cut" /\ UNCHANGED <<out, off>>
  /\ UNCHANGED <<kind, size, st_size, avars>>

\* mcopy2, in pages: ftruncate, then map and copy; a page that is gone ends the program (SIGBUS).
copysz == IF st_size - off > COPYINCR THEN COPYINCR ELSE st_size - off
MapCopy ==
  /\ kind = "mmap" /\ st = "run"
  /\ IF off < st_size
     THEN IF off + copysz <= size
          THEN Store(off, copysz, Text) /\ off' = off + copysz /\ UNCHANGED st
          ELSE st' = "failed" /\ UNCHANGED <<out, off>>
     ELSE st' = "done" /\ UNCHANGED <<out, off>>
  /\ UNCHANGED <<kind, size, st_size, avars>>
-----------------------------------------------------------------------------
\* rot13c2: one case for each state of the buffer that the loop is at.
NextBuf == i' = i + 1
Unused ==
  /\ kind = "aio" /\ st = "run" /\ i \in Buf /\ op[i] = "UNUSED" /\ NextBuf
  /\ IF off < st_size
     THEN /\ op' = [op EXCEPT ![i] = "READ"] /\ pos' = [pos EXCEPT ![i] = off] /\ off' = off + BSZ
          /\ last' = [last EXCEPT ![i] = @ \/ off + BSZ >= st_size]
          /\ busy' = [busy EXCEPT ![i] = TRUE] /\ numop' = numop + 1
     ELSE UNCHANGED <<op, pos, off, last, busy, numop>>
  /\ UNCHANGED <<kind, size, st_size, out, n, st>>
InProgress ==
  /\ kind = "aio" /\ st = "run" /\ i \in Buf /\ busy[i] /\ NextBuf
  /\ UNCHANGED <<kind, size, st_size, out, off, op, last, busy, pos, n, numop, st>>
\* A read is complete: a short one is an error unless it is the last block; then the write.
ReadDoneAny ==
  /\ kind = "aio" /\ st = "run" /\ i \in Buf /\ op[i] = "READ" /\ ~busy[i]
  /\ op' = [op EXCEPT ![i] = "WRITE"] /\ busy' = [busy EXCEPT ![i] = TRUE] /\ NextBuf
  /\ UNCHANGED <<kind, size, st_size, out, off, last, pos, n, numop, st>>
ReadDone ==
  /\ kind = "aio" /\ st = "run" /\ i \in Buf /\ op[i] = "READ" /\ ~busy[i]
  /\ IF n[i] # BSZ /\ ~last[i]
     THEN st' = "failed" /\ UNCHANGED <<op, busy, i>>
     ELSE op' = [op EXCEPT ![i] = "WRITE"] /\ busy' = [busy EXCEPT ![i] = TRUE] /\ NextBuf /\ UNCHANGED st
  /\ UNCHANGED <<kind, size, st_size, out, off, last, pos, n, numop>>
WriteDone ==
  /\ kind = "aio" /\ st = "run" /\ i \in Buf /\ op[i] = "WRITE" /\ ~busy[i]
  /\ op' = [op EXCEPT ![i] = "UNUSED"] /\ numop' = numop - 1 /\ NextBuf
  /\ UNCHANGED <<kind, size, st_size, out, off, last, busy, pos, n, st>>
\* After the last buffer: the end, another round, or aio_suspend until a request is complete.
RoundEndEarly ==
  /\ kind = "aio" /\ st = "run" /\ i = NBUF + 1 /\ i' = 1
  /\ st' = IF off >= st_size THEN "done" ELSE "suspend"
  /\ UNCHANGED <<kind, size, st_size, out, off, op, last, busy, pos, n, numop>>
RoundEnd ==
  /\ kind = "aio" /\ st = "run" /\ i = NBUF + 1 /\ i' = 1
  /\ st' = IF numop # 0 THEN "suspend" ELSE IF off >= st_size THEN "done" ELSE "run"
  /\ UNCHANGED <<kind, size, st_size, out, off, op, last, busy, pos, n, numop>>
aio_suspend ==
  /\ st = "suspend" /\ \E b \in Buf : op[b] # "UNUSED" /\ ~busy[b]
  /\ st' = "run" /\ UNCHANGED <<kind, size, st_size, out, off, avars>>
\* The system completes a request, in any order, or fails it.
Complete(b) ==
  /\ busy[b] /\ st \in {"run", "suspend"}
  /\ \/ /\ busy' = [busy EXCEPT ![b] = FALSE]
        /\ \/ op[b] = "READ" /\ n' = [n EXCEPT ![b] = IF size > pos[b] THEN Min2(BSZ, size - pos[b]) ELSE 0]
              /\ UNCHANGED out
           \/ op[b] = "WRITE" /\ Store(pos[b], n[b], Rot13) /\ UNCHANGED n
        /\ UNCHANGED st
     \/ st' = "failed" /\ UNCHANGED <<busy, n, out>>
  /\ UNCHANGED <<kind, size, st_size, off, op, last, pos, i, numop>>
-----------------------------------------------------------------------------
Shorten ==
  /\ st \in {"run", "suspend"} /\ size = st_size /\ size > 0 /\ size' \in {0, size - 1}
  /\ UNCHANGED <<kind, st_size, out, off, avars, st>>
Ended == st \in {"done", "cut", "failed"} /\ UNCHANGED vars

Next ==
  \/ ReadWrite \/ MapCopy
  \/ Unused \/ InProgress \/ ReadDone \/ WriteDone \/ RoundEnd \/ aio_suspend
  \/ \E b \in Buf : Complete(b)
  \/ Shorten \/ Ended
-----------------------------------------------------------------------------
(***************************************************************************)
(* A copy that ends with status 0 has every byte of an input that kept its *)
(* size, at its place, and rot13 applied twice is the input again.         *)
(* rot13a.c takes a read that fails for the end of the file (line 37) and  *)
(* ends with status 0 too: its copy then has the bytes that were read, all *)
(* of them, and no more.                                                   *)
(***************************************************************************)
CopyWhole ==
  st \in {"done", "cut"} /\ size = st_size =>
    /\ DOMAIN out = 0..(IF st = "cut" THEN off ELSE size) - 1
    /\ st = "cut" => kind = "read"
    /\ \A k \in DOMAIN out : (IF kind = "mmap" THEN out[k] ELSE translate(out[k])) = Text[k]

(***************************************************************************)
(* No position is missing from a finished asynchronous or mapped copy of   *)
(* an input that became shorter, up to its new size.                       *)
(***************************************************************************)
NoHole == st = "done" /\ kind # "read" => DOMAIN out = 0..Cardinality(DOMAIN out) - 1
=============================================================================
