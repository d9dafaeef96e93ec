------------------------------ MODULE Filters ------------------------------
(***************************************************************************)
(* Programs that talk to a child over pipes: the coprocess of ipc1/pipe4.c *)
(* with add2.c (unbuffered) or add2stdio.c (standard I/O, which buffers a  *)
(* pipe fully), the pager of pipe2.c, and popen1.c with the filter         *)
(* myuclc.c between the user's terminal and the program.                   *)
(***************************************************************************)
EXTENDS Integers, Sequences

CONSTANTS
  PIPEBUF,     \* lines that a pipe holds
  STDIOBUF,    \* lines that a standard I/O buffer holds
  MaxLine      \* bound: lines of input

VARIABLES
  prog,        \* "add2", "add2stdio", "pager" or "prompt"
  left,        \* lines not read or typed yet
  pp, cp,      \* where the parent and the child are
  down, up,    \* lines on their way to the child and back
  downw, upw, downr, \* who has the pipes' ends open: for writing, and the first one's for reading
  cur, obuf,   \* the child's line, and its output not flushed yet
  printed      \* answers that the parent has read

vars == <<prog, left, pp, cp, down, up, downw, upw, downr, cur, obuf, printed>>
Coprocess == prog \in {"add2", "add2stdio"}

\* After pipe and fork both have every end open.  The child of popen1 reads what the user types.
Init ==
  /\ prog \in {"add2", "add2stdio", "pager", "prompt"} /\ left = MaxLine
  /\ pp = "setup" /\ cp = "setup" /\ down = <<>> /\ up = <<>> /\ cur = 0 /\ obuf = <<>> /\ printed = <<>>
  /\ downw = IF prog = "prompt" THEN {"user"} ELSE {"parent", "child"}
  /\ upw = IF prog = "pager" THEN {} ELSE {"parent", "child"}
  /\ downr = IF prog = "prompt" THEN {"child"} ELSE {"parent", "child"}
-----------------------------------------------------------------------------
\* The parent closes the ends that it does not use.
ParentClosesOne ==
  /\ pp = "setup" /\ pp' = (IF prog = "prompt" THEN "read" ELSE "fgets")
  /\ downr' = downr \ {"parent"}
  /\ UNCHANGED <<prog, left, cp, down, up, downw, upw, cur, obuf, printed>>
ParentCloses ==
  /\ pp = "setup" /\ pp' = (IF prog = "prompt" THEN "read" ELSE "fgets")
  /\ downr' = downr \ {"parent"} /\ upw' = upw \ {"parent"}
  /\ UNCHANGED <<prog, left, cp, down, up, downw, cur, obuf, printed>>
ParentExits == pp' = "gone" /\ downw' = downw \ {"parent"}

\* The pager's parent closes the pipe after the last line and waits; the coprocess's exits.
fgets ==
  /\ pp = "fgets"
  /\ \/ left > 0 /\ left' = left - 1 /\ pp' = "write" /\ UNCHANGED downw
     \/ left = 0 /\ Coprocess /\ ParentExits /\ UNCHANGED left
     \/ left = 0 /\ prog = "pager" /\ pp' = "wait" /\ downw' = downw \ {"parent"} /\ UNCHANGED left
  /\ UNCHANGED <<prog, cp, down, up, upw, downr, cur, obuf, printed>>
\* A write to a pipe without a reader raises SIGPIPE: caught by pipe4, and fatal for pipe2.
WriteLine ==
  /\ pp = "write"
  /\ \/ /\ downr # {} /\ Len(down) < PIPEBUF /\ down' = Append(down, MaxLine - left)
        /\ pp' = (IF Coprocess THEN "read" ELSE "fgets") /\ UNCHANGED downw
     \/ downr = {} /\ ParentExits /\ UNCHANGED down
  /\ UNCHANGED <<prog, left, cp, up, upw, downr, cur, obuf, printed>>
\* One read: an answer, or the end when the child has closed its end.
ReadAnswer ==
  /\ pp = "read"
  /\ \/ /\ up # <<>> /\ printed' = Append(printed, Head(up)) /\ up' = Tail(up)
        /\ pp' = (IF Coprocess THEN "fgets" ELSE "read") /\ UNCHANGED downw
     \/ up = <<>> /\ upw = {} /\ Coprocess /\ ParentExits /\ UNCHANGED <<up, printed>>
     \/ up = <<>> /\ upw = {} /\ prog = "prompt" /\ pp' = "wait" /\ UNCHANGED <<up, printed, downw>>
  /\ UNCHANGED <<prog, left, cp, down, upw, downr, cur, obuf>>
WaitPid ==
  /\ pp = "wait" /\ cp = "gone" /\ ParentExits
  /\ UNCHANGED <<prog, left, cp, down, up, upw, downr, cur, obuf, printed>>
\* The user types a line for myuclc, or ends the input.
Type ==
  /\ prog = "prompt" /\ "user" \in downw
  /\ \/ left > 0 /\ left' = left - 1 /\ down' = Append(down, MaxLine - left') /\ UNCHANGED downw
     \/ left = 0 /\ downw' = {} /\ UNCHANGED <<left, down>>
  /\ UNCHANGED <<prog, pp, cp, up, upw, downr, cur, obuf, printed>>
-----------------------------------------------------------------------------
\* The child's exit, which flushes its buffer unless it was killed.
Exits(flushed) ==
  /\ cp' = "gone" /\ downw' = downw \ {"child"} /\ downr' = downr \ {"child"} /\ upw' = upw \ {"child"}
  /\ up' = up \o flushed /\ obuf' = <<>>
\* The child closes its spare ends and moves the others to standard input and output; exec may fail.
ChildCloses ==
  /\ cp = "setup"
  /\ \/ cp' = "read" /\ downw' = downw \ {"child"} /\ UNCHANGED <<upw, downr, up, obuf>>
     \/ Exits(<<>>)
  /\ UNCHANGED <<prog, left, pp, down, cur, printed>>
ReadLine ==
  /\ cp = "read"
  /\ \/ /\ down # <<>> /\ down' = Tail(down)
        /\ cur' = Head(down) /\ cp' = (IF prog = "pager" THEN "read" ELSE "answer")
        /\ UNCHANGED <<up, obuf, downw, downr, upw>>
     \/ down = <<>> /\ downw = {} /\ Exits(obuf) /\ UNCHANGED <<down, cur>>
  /\ UNCHANGED <<prog, left, pp, printed>>

\* What is left in the buffer once the answers out are in it: add2 has none, myuclc flushes each line.
KeptAll(out) == IF prog # "prompt" /\ Len(out) < STDIOBUF THEN out ELSE <<>>
NoFlush(out) == IF prog # "add2" /\ Len(out) < STDIOBUF THEN out ELSE <<>>
Kept(out) == IF prog = "add2stdio" /\ Len(out) < STDIOBUF THEN out ELSE <<>>
AnswerLine ==
  /\ cp = "answer"
  /\ LET out == Append(obuf, cur)
     IN IF pp = "gone" /\ Kept(out) = <<>>
        THEN Exits(<<>>)
        ELSE /\ obuf' = Kept(out) /\ up' = (IF Kept(out) = <<>> THEN up \o out ELSE up) /\ cp' = "read"
             /\ UNCHANGED <<downw, downr, upw>>
  /\ UNCHANGED <<prog, left, pp, down, cur, printed>>
\* The child is killed, or the user quits the pager.
Killed ==
  /\ cp \in {"read", "answer"} /\ Exits(<<>>)
  /\ UNCHANGED <<prog, left, pp, down, cur, printed>>
Ended == pp = "gone" /\ cp = "gone" /\ UNCHANGED vars

Next ==
  \/ ParentCloses \/ fgets \/ WriteLine \/ ReadAnswer \/ WaitPid \/ Type
  \/ ChildCloses \/ ReadLine \/ AnswerLine \/ Killed
  \/ Ended
-----------------------------------------------------------------------------
ParentWaits == pp = "read" /\ up = <<>>
ChildWaits == cp = "read" /\ down = <<>>

(***************************************************************************)
(* Parent and coprocess never wait for each other, and each line is        *)
(* answered in its turn.  add2stdio is the exception: its answer is in its *)
(* buffer while it waits for the next line.                                *)
(***************************************************************************)
NoMutualWait ==
  /\ ParentWaits /\ ChildWaits => prog # "add2"
  /\ printed = [k \in 1..Len(printed) |-> k]

(***************************************************************************)
(* Everyone sees the end: a parent that reads from a child that is gone, a *)
(* child that reads what a parent that has ended, or waits for it, wrote.  *)
(***************************************************************************)
EndSeen ==
  /\ ParentWaits /\ cp = "gone" => upw = {}
  /\ ChildWaits /\ pp \in {"wait", "gone"} => downw \subseteq {"user"}

\* What was typed is shown before the filter waits for the next line.
PromptAnswered == prog = "prompt" /\ ChildWaits => obuf = <<>>
=============================================================================
