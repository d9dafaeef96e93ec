------------------------------ MODULE TellWait ------------------------------
(***************************************************************************)
(* A parent and a child that take turns: TELL_WAIT, TELL_x and WAIT_x of   *)
(* lib/tellwait.c (signals) and of ipc1/tellwait.c (pipes), and the        *)
(* programs that use them: proc/tellwait2.c, ipc1/devzero.c and            *)
(* advio/deadlock.c.  A program is a sequence of steps for each process.   *)
(***************************************************************************)
EXTENDS Integers, Sequences

CONSTANT NLOOPS     \* ipc1/devzero.c, even

VARIABLES
  prog, how,        \* the program; "signals" or "pipes"
  at, sub,          \* each process: its step, where in the step
  sigflag, blocked, pending,   \* lib/tellwait.c, and the system's part of it
  pipe,             \* ipc1/tellwait.c: bytes that a process can read
  area, counter,    \* ipc1/devzero.c: the shared number, each process's copy
  held,             \* advio/deadlock.c: who has the lock on each byte
  bad, waits        \* an err_quit; calls of WAIT_x that have returned

vars == <<prog, how, at, sub, sigflag, blocked, pending, pipe, area, counter, held, bad, waits>>
sigvars == <<sigflag, blocked, pending>>

Role == {"parent", "child"}
Other(r) == IF r = "parent" THEN "child" ELSE "parent"

Repeat(code, n) == [k \in 1..n * Len(code) |-> code[((k - 1) % Len(code)) + 1]]

tellwait2 == [parent |-> <<"output", "tell">>, child |-> <<"wait", "output">>]
devzero == [parent |-> Repeat(<<"update", "tell", "wait">>, NLOOPS \div 2),
            child |-> Repeat(<<"wait", "update", "tell">>, NLOOPS \div 2)]
deadlock == [parent |-> <<"lock1", "tell", "wait", "lock0">>,
             child |-> <<"lock0", "tell", "wait", "lock1">>]

Code(r) == CASE prog = "tellwait2" -> tellwait2[r]
             [] prog = "devzero" -> devzero[r]
             [] prog = "deadlock" -> deadlock[r]

Done(r) == at[r] > Len(Code(r))
Is(r, step, where) == ~Done(r) /\ Code(r)[at[r]] = step /\ sub[r] = where
Step(r, where) == sub' = [sub EXCEPT ![r] = where] /\ UNCHANGED at
NextStep(r) == at' = [at EXCEPT ![r] = @ + 1] /\ sub' = [sub EXCEPT ![r] = "start"]

\* TELL_WAIT, before the fork: both processes have the signals blocked.
TELL_WAITOpen == blocked = [r \in Role |-> FALSE]
TELL_WAIT == blocked = [r \in Role |-> how = "signals"]

Init ==
  /\ prog \in {"tellwait2", "devzero", "deadlock"} /\ how \in {"signals", "pipes"}
  /\ at = [r \in Role |-> 1] /\ sub = [r \in Role |-> "start"]
  /\ TELL_WAIT
  /\ sigflag = [r \in Role |-> 0] /\ pending = [r \in Role |-> FALSE]
  /\ pipe = [r \in Role |-> 0]
  /\ area = 0 /\ counter = [r \in Role |-> 0]
  /\ held = [b \in {0, 1} |-> "none"] /\ bad = FALSE /\ waits = [r \in Role |-> 0]
-----------------------------------------------------------------------------
\* TELL_PARENT or TELL_CHILD with a signal; a second one that is pending is lost.
TellSignal(r) ==
  /\ how = "signals" /\ Is(r, "tell", "start")
  /\ pending' = [pending EXCEPT ![Other(r)] = TRUE] /\ NextStep(r)
  /\ UNCHANGED <<prog, how, sigflag, blocked, pipe, area, counter, held, bad, waits>>

\* The system runs sig_usr once the signal is not blocked or sigsuspend unblocks it.
Deliver(r) ==
  /\ pending[r] /\ (~blocked[r] \/ sub[r] = "suspended")
  /\ pending' = [pending EXCEPT ![r] = FALSE] /\ sigflag' = [sigflag EXCEPT ![r] = 1]
  /\ sub' = [sub EXCEPT ![r] = IF @ = "suspended" THEN "start" ELSE @]
  /\ UNCHANGED <<prog, how, at, blocked, pipe, area, counter, held, bad, waits>>

\* WAIT_PARENT or WAIT_CHILD: the test, ...
WaitTest(r) ==
  /\ how = "signals" /\ Is(r, "wait", "start")
  /\ Step(r, IF sigflag[r] = 0 THEN "suspend" ELSE "reset")
  /\ UNCHANGED <<prog, how, sigvars, pipe, area, counter, held, bad, waits>>
\* ... sigsuspend, ...
WaitSuspend(r) ==
  /\ Is(r, "wait", "suspend") /\ Step(r, "suspended")
  /\ UNCHANGED <<prog, how, sigvars, pipe, area, counter, held, bad, waits>>
\* ... and the old mask, which does not block the signals.
WaitReset(r) ==
  /\ Is(r, "wait", "reset") /\ NextStep(r) /\ waits' = [waits EXCEPT ![r] = @ + 1]
  /\ sigflag' = [sigflag EXCEPT ![r] = 0] /\ blocked' = [blocked EXCEPT ![r] = FALSE]
  /\ UNCHANGED <<prog, how, pending, pipe, area, counter, held, bad>>

\* The same with pipes, one for each direction.
TellPipeOwn(r) ==
  /\ how = "pipes" /\ Is(r, "tell", "start") /\ NextStep(r)
  /\ pipe' = [pipe EXCEPT ![r] = @ + 1]
  /\ UNCHANGED <<prog, how, sigvars, area, counter, held, bad, waits>>
TellPipe(r) ==
  /\ how = "pipes" /\ Is(r, "tell", "start") /\ NextStep(r)
  /\ pipe' = [pipe EXCEPT ![Other(r)] = @ + 1]
  /\ UNCHANGED <<prog, how, sigvars, area, counter, held, bad, waits>>
WaitPipeShared(r) ==
  /\ how = "pipes" /\ Is(r, "wait", "start")
  /\ \E q \in Role : pipe[q] > 0 /\ pipe' = [pipe EXCEPT ![q] = @ - 1]
  /\ NextStep(r) /\ waits' = [waits EXCEPT ![r] = @ + 1]
  /\ UNCHANGED <<prog, how, sigvars, area, counter, held, bad>>
WaitPipe(r) ==
  /\ how = "pipes" /\ Is(r, "wait", "start") /\ pipe[r] > 0
  /\ pipe' = [pipe EXCEPT ![r] = @ - 1]
  /\ NextStep(r) /\ waits' = [waits EXCEPT ![r] = @ + 1]
  /\ UNCHANGED <<prog, how, sigvars, area, counter, held, bad>>
-----------------------------------------------------------------------------
\* charatatime: the process writes its line in pieces.
Output(r) ==
  /\ \/ Is(r, "output", "start") /\ Step(r, "middle")
     \/ Is(r, "output", "middle") /\ NextStep(r)
  /\ UNCHANGED <<prog, how, sigvars, pipe, area, counter, held, bad, waits>>

\* What the counter must be: the parent expects 0, 2, ..., the child 1, 3, ...
Expected(r) == IF r = "parent" THEN 2 * ((at[r] - 1) \div 3) ELSE 2 * ((at[r] - 1) \div 3) + 1
\* update: the shared number is read and then written.
Update(r) ==
  /\ \/ Is(r, "update", "start") /\ Step(r, "middle") /\ counter' = [counter EXCEPT ![r] = area]
        /\ UNCHANGED <<area, bad>>
     \/ Is(r, "update", "middle") /\ NextStep(r) /\ area' = counter[r] + 1
        /\ bad' = (bad \/ counter[r] # Expected(r)) /\ UNCHANGED counter
  /\ UNCHANGED <<prog, how, sigvars, pipe, held, waits>>

\* lockabyte: the system refuses a wait that would close a circle, and the process exits.
lockabyte(r, b) ==
  /\ Is(r, IF b = 0 THEN "lock0" ELSE "lock1", "start")
  /\ \/ held[b] = "none" /\ held' = [held EXCEPT ![b] = r] /\ NextStep(r)
     \/ held[b] = Other(r) /\ sub[Other(r)] # "blocked" /\ Step(r, "blocked") /\ UNCHANGED held
     \/ /\ held[b] = Other(r) /\ sub[Other(r)] = "blocked"
        /\ at' = [at EXCEPT ![r] = Len(Code(r)) + 1] /\ UNCHANGED sub
        /\ held' = [k \in {0, 1} |-> IF held[k] = r THEN "none" ELSE held[k]]
  /\ UNCHANGED <<prog, how, sigvars, pipe, area, counter, bad, waits>>

LockGranted(r, b) ==
  /\ Is(r, IF b = 0 THEN "lock0" ELSE "lock1", "blocked") /\ held[b] = "none"
  /\ held' = [held EXCEPT ![b] = r] /\ NextStep(r)
  /\ UNCHANGED <<prog, how, sigvars, pipe, area, counter, bad, waits>>

\* Both are done, or wait for a signal that came too early.
Halted == (\A r \in Role : Done(r) \/ sub[r] = "suspended") /\ UNCHANGED vars

Next ==
  \/ \E r \in Role :
       \/ TellSignal(r) \/ Deliver(r) \/ WaitTest(r) \/ WaitSuspend(r) \/ WaitReset(r)
       \/ TellPipe(r) \/ WaitPipe(r) \/ Output(r) \/ Update(r)
       \/ \E b \in {0, 1} : lockabyte(r, b) \/ LockGranted(r, b)
  \/ Halted
-----------------------------------------------------------------------------
(***************************************************************************)
(* The processes take turns: their lines are not mixed, each finds the     *)
(* number that it expects, and neither asks for its second byte before     *)
(* the other has its first.                                                *)
(***************************************************************************)
TakeTurns ==
  /\ ~bad
  /\ ~ \A r \in Role : sub[r] = "middle"
  /\ prog = "tellwait2" /\ at["child"] > 1 => Done("parent")
  /\ prog = "deadlock" => \A r \in Role : at[r] = 4 => at[Other(r)] > 1

(***************************************************************************)
(* No tell is lost: a process that sleeps in WAIT_x has not been told.     *)
(* With signals this holds for the first WAIT_x of a process only: it      *)
(* leaves the signals unblocked, and in ipc1/devzero.c one may be caught   *)
(* between the test and sigsuspend of the next.                            *)
(***************************************************************************)
ToldWakes ==
  \A r \in Role :
    sub[r] = "suspended" /\ sigflag[r] = 1 => how = "signals" /\ waits[r] > 0

(***************************************************************************)
(* With pipes nobody waits in vain: when one process waits with nothing to *)
(* read, the other has steps left and does not wait itself.                *)
(***************************************************************************)
Waits(r) == how = "pipes" /\ Is(r, "wait", "start") /\ pipe[r] = 0
PipesFinish == \A r \in Role : Waits(r) => ~Done(Other(r)) /\ ~Waits(Other(r))
=============================================================================
