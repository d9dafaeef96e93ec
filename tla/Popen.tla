-------------------------------- MODULE Popen --------------------------------
(***************************************************************************)
(* lib/popen.c: popen and pclose, with the descriptors that each process   *)
(* has.  A descriptor refers to the read or the write end of a pipe, or to *)
(* a file of no interest.  Children are numbered like their pipes.         *)
(***************************************************************************)
EXTENDS Integers, FiniteSets, FiniteSetsExt

CONSTANTS
  maxfd,       \* open_max()
  MaxPopen     \* bound: pipes made

VARIABLES
  fds,         \* the parent's descriptors and what they refer to
  childpid,    \* the array childpid[]
  pipes,       \* pipes made
  kids,        \* the descriptors of each child
  type, state, \* of each child: "r" or "w"; "runs", "zombie", "reaped" or "none"
  pc, wants,   \* the parent: "runs", or "wait" in pclose for a child
  shut,        \* descriptors 0 and 1 that were closed to begin with
  lost         \* pipes of a fork or an fdopen that failed

vars == <<fds, childpid, pipes, kids, type, state, pc, wants, shut, lost>>

Fd == 0..maxfd - 1
Pipe == 1..MaxPopen
File == <<"file", 0>>
ReadEnd(p) == <<"r", p>>
WriteEnd(p) == <<"w", p>>
Without(table, closed) == [f \in DOMAIN table \ closed |-> table[f]]
With(table, f, end) == [g \in DOMAIN table \union {f} |-> IF g = f THEN end ELSE table[g]]
FreeFd(table) == Min((0..maxfd + 2) \ DOMAIN table)

Init ==
  /\ shut \in {{}, {1}} /\ fds = [f \in {0, 1, 2} \ shut |-> File]
  /\ childpid = [f \in Fd |-> 0] /\ pipes = 0 /\ lost = {}
  /\ kids = [p \in Pipe |-> <<>>] /\ type = [p \in Pipe |-> "r"] /\ state = [p \in Pipe |-> "none"]
  /\ pc = "runs" /\ wants = 0
-----------------------------------------------------------------------------
\* pipe(pfd), with the lowest free descriptors.
Pfd0 == FreeFd(fds)
Pfd1 == FreeFd(With(fds, Pfd0, File))
Piped == With(With(fds, Pfd0, ReadEnd(pipes + 1)), Pfd1, WriteEnd(pipes + 1))

\* The child: its end of the pipe becomes descriptor 1 or 0.
Dup(table, from, to) == IF from = to THEN table ELSE Without(With(table, to, table[from]), {from})
RedirectedWrong(t) ==
  IF t = "r" THEN Dup(Without(Piped, {Pfd1}), Pfd0, 1) ELSE Dup(Without(Piped, {Pfd0}), Pfd1, 0)
Redirected(t) ==
  IF t = "r" THEN Dup(Without(Piped, {Pfd0}), Pfd1, 1) ELSE Dup(Without(Piped, {Pfd1}), Pfd0, 0)
\* It closes all descriptors in childpid[].
ChildTableAll(t) == Redirected(t)
ChildTable(t) == Without(Redirected(t), {f \in Fd : childpid[f] > 0})

TooMany == Pfd0 >= maxfd \/ Pfd1 >= maxfd
popenKeep(t) ==
  /\ pc = "runs" /\ pipes < MaxPopen /\ ~TooMany
  /\ pipes' = pipes + 1
  /\ kids' = [kids EXCEPT ![pipes + 1] = ChildTable(t)]
  /\ type' = [type EXCEPT ![pipes + 1] = t] /\ state' = [state EXCEPT ![pipes + 1] = "runs"]
  /\ fds' = Piped
  /\ childpid' = [childpid EXCEPT ![IF t = "r" THEN Pfd0 ELSE Pfd1] = pipes + 1]
  /\ UNCHANGED <<pc, wants, shut, lost>>
popen(t) ==
  /\ pc = "runs" /\ pipes < MaxPopen /\ ~TooMany
  /\ pipes' = pipes + 1
  /\ kids' = [kids EXCEPT ![pipes + 1] = ChildTable(t)]
  /\ type' = [type EXCEPT ![pipes + 1] = t] /\ state' = [state EXCEPT ![pipes + 1] = "runs"]
  /\ fds' = Without(Piped, {IF t = "r" THEN Pfd1 ELSE Pfd0})
  /\ \/ childpid' = [childpid EXCEPT ![IF t = "r" THEN Pfd0 ELSE Pfd1] = pipes + 1] /\ UNCHANGED lost
     \/ lost' = lost \union {pipes + 1} /\ UNCHANGED childpid \* fdopen fails
  /\ UNCHANGED <<pc, wants, shut>>

\* Too many descriptors: both are closed.  fork fails: both stay open.
PopenFails ==
  /\ pc = "runs" /\ pipes < MaxPopen
  /\ \/ TooMany /\ UNCHANGED vars
     \/ /\ ~TooMany /\ fds' = Piped /\ pipes' = pipes + 1 /\ lost' = lost \union {pipes + 1}
        /\ UNCHANGED <<childpid, kids, type, state, pc, wants, shut>>

\* pclose: the stream of f is closed; then waitpid for its child.
pcloseKeep(f) ==
  /\ pc = "runs" /\ childpid[f] # 0 /\ f \in DOMAIN fds
  /\ wants' = childpid[f] /\ pc' = "wait"
  /\ fds' = Without(fds, {f})
  /\ UNCHANGED <<childpid, pipes, kids, type, state, shut, lost>>
pclose(f) ==
  /\ pc = "runs" /\ childpid[f] # 0
  /\ \/ wants' = childpid[f] /\ pc' = "wait"
     \/ UNCHANGED <<wants, pc>> \* fclose fails
  /\ childpid' = [childpid EXCEPT ![f] = 0] /\ fds' = Without(fds, {f})
  /\ UNCHANGED <<pipes, kids, type, state, shut, lost>>

WaitPid ==
  /\ pc = "wait" /\ state[wants] = "zombie"
  /\ state' = [state EXCEPT ![wants] = "reaped"] /\ pc' = "runs" /\ wants' = 0
  /\ UNCHANGED <<fds, childpid, pipes, kids, type, shut, lost>>

Holds(table, end) == \E f \in DOMAIN table : table[f] = end
Writers(p) == {k \in Pipe : Holds(kids[k], WriteEnd(p))}
\* A command that reads goes on to the end of its input; one that writes ends when it likes.
ChildEnds(p) ==
  /\ state[p] = "runs"
  /\ type[p] = "w" => Writers(p) = {} /\ ~Holds(fds, WriteEnd(p))
  /\ state' = [state EXCEPT ![p] = "zombie"] /\ kids' = [kids EXCEPT ![p] = <<>>]
  /\ UNCHANGED <<fds, childpid, pipes, type, pc, wants, shut, lost>>

Ended == pc = "runs" /\ pipes = MaxPopen /\ (\A f \in Fd : childpid[f] = 0) /\ UNCHANGED vars

Next ==
  \/ \E t \in {"r", "w"} : popen(t)
  \/ PopenFails \/ WaitPid \/ Ended
  \/ \E f \in Fd : pclose(f)
  \/ \E p \in Pipe : ChildEnds(p)
-----------------------------------------------------------------------------
(***************************************************************************)
(* pclose returns: once the stream to a command is closed no other child   *)
(* keeps the command from the end of its input.                            *)
(***************************************************************************)
PcloseReturns ==
  pc = "wait" /\ type[wants] = "w" => Writers(wants) = {} /\ ~Holds(fds, WriteEnd(wants))

\* The array names the child at the other end of each stream, also when descriptors are used again.
PidOfStream ==
  \A f \in Fd : childpid[f] # 0 =>
    /\ f \in DOMAIN fds
    /\ fds[f] = IF type[childpid[f]] = "r" THEN ReadEnd(childpid[f]) ELSE WriteEnd(childpid[f])
    /\ state[childpid[f]] \in {"runs", "zombie"}

(***************************************************************************)
(* A command's standard input or output is its pipe, provided descriptors  *)
(* 0 and 1 were open: a stream on descriptor 1 is closed in a later child  *)
(* after the pipe has been moved there.                                    *)
(***************************************************************************)
Connected ==
  \A p \in Pipe : state[p] = "runs" /\ shut = {} =>
    IF type[p] = "r" THEN 1 \in DOMAIN kids[p] /\ kids[p][1] = WriteEnd(p)
                     ELSE 0 \in DOMAIN kids[p] /\ kids[p][0] = ReadEnd(p)

\* Between calls the parent has one descriptor for each open stream, except after a failed fork or fdopen.
NoLeak ==
  lost = {} => {f \in DOMAIN fds : fds[f] # File} = {f \in Fd : childpid[f] # 0}
=============================================================================
