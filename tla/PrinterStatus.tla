--------------------------- MODULE PrinterStatus ---------------------------
(***************************************************************************)
(* printer_status of printer/printd.c: how the printer thread reads and    *)
(* parses the answer to a job, a HTTP header followed by an IPP header.    *)
(*                                                                         *)
(* A read returns one piece of the answer (see PrinterAnswers) or, when    *)
(* the answer is split, any number of tokens.                              *)
(***************************************************************************)
EXTENDS Integers, PrinterAnswers

CONSTANTS
  Answers,    \* possible answers of the printer
  Splits      \* what split may be

VARIABLES
  answer,     \* pieces, as the printer sent them
  split,      \* reads return any part of what is there
  rest,       \* what has not been read
  bp,         \* the buffer: what was read since the last tread
  i, datsz,   \* position of the scan, and what the code takes for the end
  pc, success

vars == <<answer, split, rest, bp, i, datsz, pc, success>>

Init ==
  /\ answer \in Answers /\ split \in Splits
  /\ rest = answer
  /\ bp = <<>> /\ i = 0 /\ datsz = 0
  /\ pc = "tread" /\ success = 0

\* The byte at offset o of the buffer; beyond what was read it is whatever
\* malloc left there.
At(o) == IF o + 1 \in DOMAIN bp THEN bp[o + 1] ELSE Garbage
-----------------------------------------------------------------------------
(***************************************************************************)
(* What one read can return, and what remains.                             *)
(***************************************************************************)
Flatten(a) ==
  LET F[n \in 0..Len(a)] == IF n = 0 THEN <<>> ELSE F[n - 1] \o a[n]
  IN F[Len(a)]
Reads ==
  IF rest = <<>> THEN {}
  ELSE IF ~split THEN {[got |-> Head(rest), left |-> Tail(rest)]}
  ELSE LET all == Flatten(rest) IN
       {[got |-> SubSeq(all, 1, n),
         left |-> IF n = Len(all) THEN <<>> ELSE <<SubSeq(all, n + 1, Len(all))>>] :
          n \in 1..Len(all)}

Out == pc' = "done" /\ UNCHANGED <<rest, bp, i, datsz, success>>

\* tread: what is read replaces the buffer.  The printer has said all it has
\* to say: the read times out.
Tread ==
  /\ pc = "tread"
  /\ \/ \E r \in Reads :
          /\ rest' = r.left /\ bp' = r.got
          /\ datsz' = Len(r.got) /\ i' = 1
          /\ pc' = "status"
          /\ UNCHANGED success
     \/ rest = <<>> /\ Out
  /\ UNCHANGED <<answer, split>>

\* readmore: read on from offset i of the buffer.  It returns the new end of
\* data, which its callers add to datsz.
ReadMore(label) ==
  \/ \E r \in Reads :
       /\ rest' = r.left
       /\ bp' = [o \in 1..(i + Len(r.got)) |->
                   IF o <= i THEN At(o - 1) ELSE r.got[o - i]]
       /\ datsz' = datsz + i + Len(r.got)
       /\ pc' = label
       /\ UNCHANGED <<i, success>>
  \/ rest = <<>> /\ Out

Scan(label, o) == pc' = label /\ i' = o /\ UNCHANGED <<rest, bp, datsz, success>>
-----------------------------------------------------------------------------
\* The status line: read on, give up, or look for the length.
StatusLine ==
  /\ pc = "status"
  /\ \/ /\ At(0).t # "status" \/ At(0).v \in {"bad", "info"}
        /\ Scan("tread", i)
     \/ /\ At(0) = Status("error")
        /\ Out
     \/ /\ At(0) = Status("ok")
        /\ Scan("length", i)
  /\ UNCHANGED <<answer, split>>

\* Mutant: the scan for the length does not advance.
FindLengthStuck ==
  /\ pc = "length" /\ i < datsz
  /\ Scan(IF At(i) = ContentLength THEN "after_length" ELSE "length",
          IF At(i) = ContentLength THEN i + 1 ELSE i)
  /\ UNCHANGED <<answer, split>>

\* The search for Content-Length, one token at a time.
FindLength ==
  /\ pc = "length" /\ i < datsz
  /\ Scan(IF At(i) = ContentLength THEN "after_length" ELSE "length", i + 1)
  /\ UNCHANGED <<answer, split>>

\* No Content-Length in what was read: read more, and compare at once.
MoreLength ==
  /\ pc = "length" /\ i >= datsz
  /\ ReadMore("compare")
  /\ UNCHANGED <<answer, split>>

CompareLength ==
  /\ pc = "compare"
  /\ Scan(IF At(i) = ContentLength THEN "after_length" ELSE "length", i + 1)
  /\ UNCHANGED <<answer, split>>

AfterLength ==
  /\ pc = "after_length"
  /\ IF i >= datsz THEN ReadMore("end") ELSE Scan("end", i)
  /\ UNCHANGED <<answer, split>>

\* The search for the empty line that ends the HTTP header.
EndOfHeader == At(i) = LF /\ At(i + 1) = CR /\ At(i + 2) = LF

\* Mutant: the position is left before the last line feed.
FindEndShort ==
  /\ pc = "end" /\ i < datsz - 2
  /\ IF EndOfHeader THEN Scan("found", i + 2) ELSE Scan("end", i + 1)
  /\ UNCHANGED <<answer, split>>

FindEnd ==
  /\ pc = "end" /\ i < datsz - 2
  /\ IF EndOfHeader THEN Scan("found", i + 3) ELSE Scan("end", i + 1)
  /\ UNCHANGED <<answer, split>>

\* Near the end of what was read neither test of the loop holds: it goes
\* round without doing anything.  (i is below datsz after AfterLength.)
Spin == pc = "end" /\ i >= datsz - 2 /\ UNCHANGED vars

\* After the end of the header: more is read if the position is past the end,
\* and again if the IPP header is not all there.
Found ==
  /\ pc = "found"
  /\ IF i >= datsz THEN ReadMore("ipp") ELSE Scan("ipp", i)
  /\ UNCHANGED <<answer, split>>

MoreIpp ==
  /\ pc = "ipp"
  /\ IF datsz - i < IppLength THEN ReadMore("parse") ELSE Scan("parse", i)
  /\ UNCHANGED <<answer, split>>

\* Mutant: the request ID is not compared.
ParseIppAny ==
  /\ pc = "parse"
  /\ success' = IF At(i + 1) = IppStatus("ok") THEN 1 ELSE 0
  /\ pc' = "done"
  /\ UNCHANGED <<answer, split, rest, bp, i, datsz>>

\* The IPP header.  Bytes that are no IPP header match no pending job.
ParseIpp ==
  /\ pc = "parse"
  /\ success' = IF At(i) = IppId("same") /\ At(i + 1) = IppStatus("ok") THEN 1 ELSE 0
  /\ pc' = "done"
  /\ UNCHANGED <<answer, split, rest, bp, i, datsz>>

Step ==
  \/ Tread \/ StatusLine \/ FindLength \/ MoreLength \/ CompareLength
  \/ AfterLength \/ FindEnd \/ Found \/ MoreIpp \/ ParseIpp

Done == pc = "done" /\ UNCHANGED vars

Next == Step \/ Spin \/ Done

Spec == Init /\ [][Next]_vars
FairSpec == Spec /\ WF_vars(Step)
-----------------------------------------------------------------------------
\* The printer has accepted the job: informational messages have no IPP header.
Accepts(a) ==
  LET all == Flatten(a)
      Says(token) == \E n \in DOMAIN all : all[n] = token
  IN Says(Status("ok")) /\ Says(IppId("same")) /\ Says(IppStatus("ok"))

(***************************************************************************)
(* A job is taken for printed exactly when the printer says so: HTTP and   *)
(* IPP report success, for this job.  printer_status gets this right for   *)
(* an answer whose pieces are those of Answers.                            *)
(***************************************************************************)
StatusRight == pc = "done" /\ ~split => (success = 1 <=> Accepts(answer))

(***************************************************************************)
(* However the answer is cut, a job is taken for printed (and its files    *)
(* removed) only if the printer has accepted this very job.                *)
(***************************************************************************)
NoFalseSuccess == success = 1 => Accepts(answer)

(***************************************************************************)
(* printer_status returns however the answer is cut: the printer thread is *)
(* not stuck on one answer.                                                *)
(***************************************************************************)
Returns == <>(pc = "done")
=============================================================================
