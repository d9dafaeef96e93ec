----------------------------- MODULE ThreadCtl -----------------------------
(***************************************************************************)
(* The thread control programs: timeout (threadctl/timeout.c, detach.c),   *)
(* the fork handlers (atfork.c), the signal thread (suspend.c) and the     *)
(* three versions of getenv (getenv1.c, getenv2.c, getenv3.c).  Each is    *)
(* run by the two threads "main" and "thr".                                *)
(***************************************************************************)
EXTENDS Integers

CONSTANTS
  SECTONSEC,   \* ticks of a second
  MaxClock,    \* bound: ticks of the clock
  buflen       \* the caller's buffer of getenv_r

Thread == {"main", "thr"}
Lock == {1, 2}
None == "none"
Other(t) == IF t = "main" THEN "thr" ELSE "main"
\* The environment: each name's value by its length; the third is not defined.
environ == [x |-> buflen - 1, y |-> buflen]

VARIABLES
  prog, pc,
  owner, depth, \* of each mutex
  clock, when, since, wait, ran, tip, \* timeout: time wanted, time of the call, sleep, when the function ran, tip allocated
  quitflag, asleep, pend, quits, masked, \* suspend: main waits; SIGQUITs pending, sent; blocked in main
  copy,        \* atfork: who has the locks in the new process
  once, ask, buf, ret \* getenv: thread_init is done; name wanted, buffers, what was returned

tvars == <<clock, when, since, wait, ran, tip>>
svars == <<quitflag, asleep, pend, quits, masked>>
evars == <<once, ask, buf, ret>>
vars == <<prog, pc, owner, depth, clock, when, since, wait, ran, tip, quitflag, asleep, pend, quits, masked, copy, once, ask, buf, ret>>

Init ==
  /\ prog \in {"timeout", "atfork", "suspend", "getenv1", "getenv2", "getenv3"}
  /\ pc = [t \in Thread |-> IF t = "main" \/ prog \notin {"timeout", "suspend"} THEN "start" ELSE "none"]
  /\ owner = [l \in Lock |-> None] /\ depth = 0
  /\ clock \in IF prog = "timeout" THEN 0..SECTONSEC - 1 ELSE {0}
  /\ when = 0 /\ since = 0 /\ wait = [sec |-> 0, nsec |-> 0] /\ ran = {} /\ tip = FALSE
  /\ quitflag = FALSE /\ asleep = FALSE /\ pend = FALSE /\ quits = 0 /\ masked = FALSE
  /\ copy = [l \in Lock |-> None] /\ once = FALSE
  /\ ask \in IF prog \in {"getenv1", "getenv2", "getenv3"} THEN [Thread -> {"x", "y", "z"}] ELSE {[t \in Thread |-> "x"]}
  /\ buf = [t \in Thread |-> None] /\ ret = [t \in Thread |-> None]

Goto(t, from, to) == pc[t] = from /\ pc' = [pc EXCEPT ![t] = to]
Take(t, l) == owner[l] = None /\ owner' = [owner EXCEPT ![l] = t]
Give(l) == owner' = [owner EXCEPT ![l] = None]
-----------------------------------------------------------------------------
\* timeout.c.  The mutex is recursive: its owner may lock it again.
MayLockOnce(t) == owner[1] = None
MayLock(t) == owner[1] \in {None, t}
LockAgain(t) ==
  /\ MayLock(t) /\ owner' = [owner EXCEPT ![1] = t]
  /\ depth' = IF owner[1] = t THEN depth + 1 ELSE 1
Release == depth' = depth - 1 /\ IF depth = 1 THEN Give(1) ELSE UNCHANGED owner

Tick ==
  /\ prog = "timeout" /\ clock < MaxClock /\ clock' = clock + 1
  /\ UNCHANGED <<prog, pc, owner, depth, when, since, wait, ran, tip, svars, copy, evars>>
\* main: with the mutex, the time at which to retry, one tick to more than a second from now.
MainLock ==
  /\ prog = "timeout" /\ Goto("main", "start", "locked") /\ LockAgain("main")
  /\ when' \in clock..clock + SECTONSEC + 1
  /\ UNCHANGED <<prog, clock, since, wait, ran, tip, svars, copy, evars>>

Sec(time) == time \div SECTONSEC
Nsec(time) == time % SECTONSEC
to_waitLong == [sec |-> Sec(when) - Sec(clock),
  nsec |-> IF Nsec(when) >= Nsec(clock) THEN Nsec(when) - Nsec(clock) ELSE SECTONSEC - Nsec(clock) + Nsec(when)]
to_wait ==
  IF Nsec(when) >= Nsec(clock)
  THEN [sec |-> Sec(when) - Sec(clock), nsec |-> Nsec(when) - Nsec(clock)]
  ELSE [sec |-> Sec(when) - Sec(clock) - 1, nsec |-> SECTONSEC - Nsec(clock) + Nsec(when)]
Later == Sec(when) > Sec(clock) \/ (Sec(when) = Sec(clock) /\ Nsec(when) > Nsec(clock))

\* timeout: a thread if the time is to come and there are a tip and a thread for it, else the call now.
timeout ==
  /\ prog = "timeout" /\ pc["main"] = "locked"
  /\ \/ /\ Later /\ wait' = to_wait /\ since' = clock /\ tip' = TRUE
        /\ pc' = [main |-> "made", thr |-> "sleeps"]
     \/ pc' = [pc EXCEPT !["main"] = "now"] /\ UNCHANGED <<wait, since, tip>>
  /\ UNCHANGED <<prog, owner, depth, clock, when, ran, svars, copy, evars>>
\* The thread of timeout_helper wakes when its sleep is over.
Wake ==
  /\ prog = "timeout" /\ Goto("thr", "sleeps", "now") /\ clock >= since + wait.sec * SECTONSEC + wait.nsec
  /\ UNCHANGED <<prog, owner, depth, clock, when, since, wait, ran, tip, svars, copy, evars>>
retry(t) ==
  /\ prog = "timeout"
  /\ \/ Goto(t, "now", "retries") /\ LockAgain(t) /\ ran' = ran \union {<<t, clock>>} /\ UNCHANGED tip
     \/ Goto(t, "retries", IF t = "main" THEN "made" ELSE "gone") /\ Release /\ tip' = FALSE /\ UNCHANGED ran
  /\ UNCHANGED <<prog, clock, when, since, wait, svars, copy, evars>>
MainUnlock ==
  /\ prog = "timeout" /\ Goto("main", "made", "gone") /\ Release
  /\ UNCHANGED <<prog, tvars, svars, copy, evars>>
-----------------------------------------------------------------------------
\* atfork.c: a thread uses the second lock, alone or after the first; main forks between prepare and parent or child.
UseLocks ==
  /\ prog = "atfork"
  /\ \/ Goto("thr", "start", "one") /\ Take("thr", 1)
     \/ Goto("thr", "one", "both") /\ Take("thr", 2)
     \/ Goto("thr", "start", "both") /\ Take("thr", 2)
     \/ Goto("thr", "both", "start") /\ owner' = [l \in Lock |-> IF owner[l] = "thr" THEN None ELSE owner[l]]
  /\ UNCHANGED <<prog, depth, tvars, svars, copy, evars>>
prepareOne ==
  \/ Goto("main", "start", "one") /\ Take("main", 1)
  \/ Goto("main", "one", "both") /\ UNCHANGED owner
prepare ==
  \/ Goto("main", "start", "one") /\ Take("main", 1)
  \/ Goto("main", "one", "both") /\ Take("main", 2)
\* fork copies the memory: the new process has the locks as they are.
Fork == Goto("main", "both", "forked") /\ copy' = owner /\ UNCHANGED owner
\* parent and child each unlock both, in their own memory.
parent == Goto("main", "forked", "gone") /\ owner' = [l \in Lock |-> IF owner[l] = "main" THEN None ELSE owner[l]]
child == copy' = [l \in Lock |-> IF copy[l] = "main" THEN None ELSE copy[l]]
Atfork ==
  /\ prog = "atfork"
  /\ \/ prepare /\ UNCHANGED copy
     \/ Fork
     \/ parent /\ child
  /\ UNCHANGED <<prog, depth, tvars, svars, evars>>
-----------------------------------------------------------------------------
\* suspend.c: SIGQUIT is blocked before the thread is made.
Block ==
  /\ prog = "suspend" /\ pc["main"] = "start" /\ pc' = [main |-> "test", thr |-> "sigwait"] /\ masked' = TRUE
  /\ UNCHANGED <<prog, owner, depth, tvars, quitflag, asleep, pend, quits, copy, evars>>
SendQuit ==
  /\ prog = "suspend" /\ quits < 2 /\ masked /\ quits' = quits + 1 /\ pend' = TRUE
  /\ UNCHANGED <<prog, pc, owner, depth, tvars, quitflag, asleep, masked, copy, evars>>
\* The thread: sigwait, then the flag under the lock, then the signal of the condition.
thr_fnBare ==
  /\ prog = "suspend"
  /\ \/ pend /\ Goto("thr", "sigwait", "lock") /\ pend' = FALSE /\ UNCHANGED <<owner, quitflag, asleep>>
     \/ Goto("thr", "lock", "flag") /\ UNCHANGED <<owner, quitflag, asleep, pend>>
     \/ Goto("thr", "flag", "signal") /\ quitflag' = TRUE /\ UNCHANGED <<owner, asleep, pend>>
     \/ Goto("thr", "signal", "gone") /\ asleep' = FALSE /\ UNCHANGED <<owner, quitflag, pend>>
  /\ UNCHANGED <<prog, depth, tvars, quits, masked, copy, evars>>
thr_fn ==
  /\ prog = "suspend"
  /\ \/ pend /\ Goto("thr", "sigwait", "lock") /\ pend' = FALSE /\ UNCHANGED <<owner, quitflag, asleep>>
     \/ Goto("thr", "lock", "flag") /\ Take("thr", 1) /\ UNCHANGED <<quitflag, asleep, pend>>
     \/ Goto("thr", "flag", "signal") /\ quitflag' = TRUE /\ Give(1) /\ UNCHANGED <<asleep, pend>>
     \/ Goto("thr", "signal", "gone") /\ asleep' = FALSE /\ UNCHANGED <<owner, quitflag, pend>>
  /\ UNCHANGED <<prog, depth, tvars, quits, masked, copy, evars>>
\* main: tests the flag and waits under the lock, then clears the flag and unblocks SIGQUIT.
MainWait ==
  /\ prog = "suspend"
  /\ \/ Goto("main", "test", "locked") /\ Take("main", 1) /\ UNCHANGED <<quitflag, asleep, masked>>
     \/ ~quitflag /\ Goto("main", "locked", "sleeps") /\ UNCHANGED <<owner, quitflag, asleep, masked>>
     \/ Goto("main", "sleeps", "waits") /\ asleep' = TRUE /\ Give(1) /\ UNCHANGED <<quitflag, masked>>
     \/ ~asleep /\ Goto("main", "waits", "locked") /\ Take("main", 1) /\ UNCHANGED <<quitflag, asleep, masked>>
     \/ quitflag /\ Goto("main", "locked", "quit") /\ Give(1) /\ UNCHANGED <<quitflag, asleep, masked>>
     \/ Goto("main", "quit", "gone") /\ quitflag' = FALSE /\ masked' = FALSE /\ UNCHANGED <<owner, asleep>>
  /\ UNCHANGED <<prog, depth, tvars, pend, quits, copy, evars>>
-----------------------------------------------------------------------------
\* getenv: one buffer for all (1), the caller's (2), one for each thread (3).
Buffer(t) == IF prog = "getenv1" THEN "main" ELSE t
Getenv == {"getenv1", "getenv2", "getenv3"}
EnvLock(t) ==
  /\ prog \in Getenv /\ Goto(t, "start", "search") /\ once' = TRUE
  /\ IF prog = "getenv1" THEN UNCHANGED owner ELSE Take(t, 1)
  /\ UNCHANGED <<prog, depth, tvars, svars, copy, ask, buf, ret>>
\* The value and its null byte have to fit in the buffer of getenv_r.
FitsShort(name) == environ[name] <= buflen
Fits(name) == environ[name] < buflen
EnvFind(t) ==
  /\ prog \in Getenv /\ Goto(t, "search", "found")
  /\ LET found == ask[t] \in DOMAIN environ /\ (prog = "getenv2" => Fits(ask[t]))
     IN /\ buf' = IF found THEN [buf EXCEPT ![Buffer(t)] = ask[t]] ELSE buf
        /\ ret' = [ret EXCEPT ![t] = IF found THEN ask[t] ELSE "failed"]
  /\ IF prog = "getenv1" THEN UNCHANGED owner ELSE Give(1)
  /\ UNCHANGED <<prog, depth, tvars, svars, copy, once, ask>>
\* The thread has used what it got and asks for the next name.
EnvUse(t) ==
  /\ prog \in Getenv /\ Goto(t, "found", "start") /\ ask' \in {[ask EXCEPT ![t] = n] : n \in {"x", "y", "z"}}
  /\ ret' = [ret EXCEPT ![t] = None]
  /\ UNCHANGED <<prog, owner, depth, tvars, svars, copy, once, buf>>
-----------------------------------------------------------------------------
Quiet ==
  /\ \/ prog = "timeout" /\ pc["main"] = "gone" /\ (pc["thr"] \in {"none", "gone"} \/ clock = MaxClock)
     \/ prog \in {"suspend", "atfork"} /\ pc["main"] = "gone"
     \/ prog = "suspend" /\ quits < 2
  /\ UNCHANGED vars

Next ==
  \/ Tick \/ MainLock \/ timeout \/ Wake \/ MainUnlock
  \/ UseLocks \/ Atfork
  \/ Block \/ SendQuit \/ thr_fn \/ MainWait
  \/ \E t \in Thread : retry(t) \/ EnvLock(t) \/ EnvFind(t) \/ EnvUse(t)
  \/ Quiet
-----------------------------------------------------------------------------
(***************************************************************************)
(* The thread sleeps for exactly the time that is left, in a well formed   *)
(* timespec, the function runs at most once, never early in the thread,    *)
(* and its argument block is freed once it has.                            *)
(***************************************************************************)
RunsOnTime ==
  /\ pc["thr"] = "sleeps" => since + wait.sec * SECTONSEC + wait.nsec = when /\ wait.nsec \in 0..SECTONSEC - 1
  /\ \A r \in ran, q \in ran : r = q
  /\ \A r \in ran : r[1] = "thr" => r[2] >= when
  /\ prog = "timeout" /\ pc["thr"] \in {"none", "gone"} => ~tip

\* main calls the function with the mutex held when there is no thread for it: it does not wait for itself.
NoSelfWait == prog = "timeout" /\ pc["main"] = "now" => MayLock("main")

\* The new process, with main as its only thread, finds every lock free.
ChildLocksFree == prog = "atfork" /\ pc["main"] = "gone" => \A l \in Lock : copy[l] = None

\* A SIGQUIT that the thread has taken wakes main, wherever main is between its test and its wait.
QuitWakes == prog = "suspend" /\ pc["thr"] = "gone" => ~(asleep /\ pc["main"] = "waits")

\* What a thread was given stays the value it asked for until it has used it, and fits its buffer.
OwnBuffer ==
  \A t \in Thread : prog \in {"getenv2", "getenv3"} /\ ret[t] \notin {None, "failed"} =>
    buf[Buffer(t)] = ask[t] /\ (prog = "getenv2" => environ[ask[t]] + 1 <= buflen)
=============================================================================
