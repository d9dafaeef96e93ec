------------------------------- MODULE Daemon -------------------------------
(***************************************************************************)
(* The start of a daemon: daemonize (lib/daemonize.c), already_running     *)
(* (daemons/single.c, advio/lockfile.c) and the two ways to read the       *)
(* configuration again on SIGHUP, a thread (daemons/reread.c) or handlers  *)
(* (daemons/reread2.c).  Copies of the daemon are started side by side.    *)
(***************************************************************************)
EXTENDS Integers, FiniteSets

CONSTANTS
  Copy,        \* copies of the daemon
  NOFILE,      \* the limit on descriptors, where there is one
  OPENMAX,     \* descriptors that daemonize closes when there is none, 1024
  MaxHup       \* bound: SIGHUPs sent, changes of the configuration

VARIABLES
  kind,        \* "thread" or "handlers"
  rlim_max,    \* the limit, or RLIM_INFINITY
  st,          \* how far each copy is
  leader, tty, \* it leads a session; the session has a terminal
  fds,         \* its descriptors
  hup, pend,   \* what it does with SIGHUP: default, ignore, catch or block; pending
  lock, pidfile, \* who has the lock on the file; what is in it
  killedby,    \* why a copy has ended
  conf, known, \* the configuration; the one each copy has read
  hups

vars == <<kind, rlim_max, st, leader, tty, fds, hup, pend, lock, pidfile, killedby, conf, known, hups>>
None == "none"
RLIM_INFINITY == -1
\* How many descriptors daemonize closes.
Closed == IF rlim_max = RLIM_INFINITY THEN OPENMAX ELSE rlim_max

\* A caller without a limit, or one that has lowered it, may have a descriptor beyond those.
Init ==
  /\ kind \in {"thread", "handlers"} /\ rlim_max \in {NOFILE, RLIM_INFINITY}
  /\ st = [d \in Copy |-> "start"] /\ leader = [d \in Copy |-> FALSE] /\ tty = [d \in Copy |-> TRUE]
  /\ fds \in [Copy -> {0..2, 0..Closed}] /\ hup = [d \in Copy |-> "default"] /\ pend = [d \in Copy |-> FALSE]
  /\ lock = None /\ pidfile = None /\ killedby = [d \in Copy |-> None]
  /\ conf = 0 /\ known = [d \in Copy |-> 0] /\ hups = 0

Moves(d, from, to) == st[d] = from /\ st' = [st EXCEPT ![d] = to]
-----------------------------------------------------------------------------
\* fork, exit of the parent, setsid.
Setsid(d) ==
  /\ Moves(d, "start", "leader")
  /\ leader' = [leader EXCEPT ![d] = TRUE] /\ tty' = [tty EXCEPT ![d] = FALSE]
  /\ UNCHANGED <<kind, rlim_max, fds, hup, pend, lock, pidfile, killedby, conf, known, hups>>
IgnoreHupNot(d) ==
  /\ Moves(d, "leader", "ignores")
  /\ UNCHANGED <<kind, rlim_max, leader, tty, fds, hup, pend, lock, pidfile, killedby, conf, known, hups>>
IgnoreHup(d) ==
  /\ Moves(d, "leader", "ignores") /\ hup' = [hup EXCEPT ![d] = "ignore"]
  /\ UNCHANGED <<kind, rlim_max, leader, tty, fds, pend, lock, pidfile, killedby, conf, known, hups>>
\* The second fork: the process that goes on does not lead the session.
SecondForkNot(d) ==
  /\ Moves(d, "ignores", "second")
  /\ UNCHANGED <<kind, rlim_max, leader, tty, fds, hup, pend, lock, pidfile, killedby, conf, known, hups>>
SecondFork(d) ==
  /\ Moves(d, "ignores", "second") /\ leader' = [leader EXCEPT ![d] = FALSE]
  /\ UNCHANGED <<kind, rlim_max, tty, fds, hup, pend, lock, pidfile, killedby, conf, known, hups>>
\* chdir, close of all descriptors below the limit, or the first ones if there is none, and
\* /dev/null three times.
CloseAll(d) ==
  /\ Moves(d, "second", "detached")
  /\ fds' = [fds EXCEPT ![d] = (@ \ 0..Closed - 1) \union {0, 1, 2}]
  /\ UNCHANGED <<kind, rlim_max, leader, tty, hup, pend, lock, pidfile, killedby, conf, known, hups>>
-----------------------------------------------------------------------------
lockfileAny(d) == lock' = d
lockfile(d) == lock = None /\ lock' = d

\* already_running: a copy that does not get the lock exits and leaves the file alone.
already_runningTrunc(d) ==
  /\ \/ Moves(d, "detached", "locked") /\ lockfile(d) /\ pidfile' = None /\ UNCHANGED killedby
     \/ /\ lock # None /\ Moves(d, "detached", "gone") /\ killedby' = [killedby EXCEPT ![d] = "running"]
        /\ pidfile' = None /\ UNCHANGED lock
  /\ UNCHANGED <<kind, rlim_max, leader, tty, fds, hup, pend, conf, known, hups>>
already_running(d) ==
  /\ \/ Moves(d, "detached", "locked") /\ lockfile(d) /\ UNCHANGED killedby
     \/ /\ lock # None /\ Moves(d, "detached", "gone") /\ killedby' = [killedby EXCEPT ![d] = "running"]
        /\ UNCHANGED lock
  /\ UNCHANGED <<kind, rlim_max, leader, tty, fds, hup, pend, pidfile, conf, known, hups>>
WritePid(d) ==
  /\ \/ Moves(d, "locked", "truncated") /\ pidfile' = None
     \/ Moves(d, "truncated", "single") /\ pidfile' = d
  /\ UNCHANGED <<kind, rlim_max, leader, tty, fds, hup, pend, lock, killedby, conf, known, hups>>
-----------------------------------------------------------------------------
\* reread.c: SIGHUP gets its default back, then all signals are blocked.
RestoreHup(d) ==
  /\ kind = "thread" /\ Moves(d, "single", "restored") /\ hup' = [hup EXCEPT ![d] = "default"]
  /\ UNCHANGED <<kind, rlim_max, leader, tty, fds, pend, lock, pidfile, killedby, conf, known, hups>>
BlockAll(d) ==
  /\ Moves(d, "restored", "ready") /\ hup' = [hup EXCEPT ![d] = "block"] /\ known' = [known EXCEPT ![d] = conf]
  /\ UNCHANGED <<kind, rlim_max, leader, tty, fds, pend, lock, pidfile, killedby, conf, hups>>
\* reread2.c: SIGHUP is ignored until its handler is there.
CatchHup(d) ==
  /\ kind = "handlers" /\ Moves(d, "single", "ready")
  /\ hup' = [hup EXCEPT ![d] = "catch"] /\ known' = [known EXCEPT ![d] = conf]
  /\ UNCHANGED <<kind, rlim_max, leader, tty, fds, pend, lock, pidfile, killedby, conf, hups>>

\* The thread's sigwait, or the handler, takes the signal; one that comes meanwhile stays pending.
TakeHup(d) ==
  /\ pend[d] /\ Moves(d, "ready", "rereads") /\ pend' = [pend EXCEPT ![d] = FALSE]
  /\ UNCHANGED <<kind, rlim_max, leader, tty, fds, hup, lock, pidfile, killedby, conf, known, hups>>
rereadClear(d) ==
  /\ \/ Moves(d, "rereads", "reading") /\ known' = [known EXCEPT ![d] = conf] /\ UNCHANGED pend
     \/ Moves(d, "reading", "ready") /\ pend' = [pend EXCEPT ![d] = FALSE] /\ UNCHANGED known
  /\ UNCHANGED <<kind, rlim_max, leader, tty, fds, hup, lock, pidfile, killedby, conf, hups>>
reread(d) ==
  /\ \/ Moves(d, "rereads", "reading") /\ known' = [known EXCEPT ![d] = conf]
     \/ Moves(d, "reading", "ready") /\ UNCHANGED known
  /\ UNCHANGED <<kind, rlim_max, leader, tty, fds, hup, pend, lock, pidfile, killedby, conf, hups>>
-----------------------------------------------------------------------------
Ready == {"ready", "rereads", "reading"}
Gone(d, why) ==
  /\ st[d] # "gone" /\ st' = [st EXCEPT ![d] = "gone"] /\ killedby' = [killedby EXCEPT ![d] = why]
  /\ lock' = IF lock = d THEN None ELSE lock
  /\ UNCHANGED <<kind, rlim_max, leader, tty, fds, hup, pend, pidfile, conf, known>>

\* SIGHUP from outside, after a change of the configuration or not.
Hup(d) ==
  /\ hups < MaxHup /\ hups' = hups + 1
  /\ \/ hup[d] = "default" /\ Gone(d, "hup")
     \/ /\ hup[d] # "default" /\ st[d] # "gone"
        /\ pend' = [pend EXCEPT ![d] = hup[d] # "ignore"]
        /\ conf' = IF st[d] \in Ready THEN conf + 1 ELSE conf
        /\ UNCHANGED <<kind, rlim_max, st, leader, tty, fds, hup, lock, pidfile, killedby, known>>
\* SIGTERM, caught or not, or any other end.
Term(d) == Gone(d, "term") /\ UNCHANGED hups
\* The daemon opens a terminal device.
OpenTerminal(d) ==
  /\ st[d] \in Ready /\ tty' = [tty EXCEPT ![d] = leader[d]]
  /\ UNCHANGED <<kind, rlim_max, st, leader, fds, hup, pend, lock, pidfile, killedby, conf, known, hups>>

Ended == (\A d \in Copy : st[d] = "gone") /\ UNCHANGED vars

Next ==
  \/ \E d \in Copy :
       \/ Setsid(d) \/ IgnoreHup(d) \/ SecondFork(d) \/ CloseAll(d) \/ already_running(d) \/ WritePid(d)
       \/ RestoreHup(d) \/ BlockAll(d) \/ CatchHup(d) \/ TakeHup(d) \/ reread(d)
       \/ Hup(d) \/ Term(d) \/ OpenTerminal(d)
  \/ Ended
-----------------------------------------------------------------------------
Single == {"single", "restored"} \union Ready

\* Of the copies at most one runs, and the file has its process ID, whoever is started or killed.
OneDaemon ==
  /\ Cardinality({d \in Copy : st[d] \in Single}) <= 1
  /\ \A d \in Copy : st[d] \in Single => lock = d
PidInFile == \A d \in Copy : st[d] \in Single => pidfile = d

(***************************************************************************)
(* A running daemon has no terminal, even after it has opened one, and of  *)
(* its caller's descriptors only those that daemonize does not reach: from *)
(* 1024 on when there is no limit (daemonize.c:57), and those beyond a     *)
(* limit that was lowered after they were opened.                          *)
(***************************************************************************)
NoTerminal ==
  \A d \in Copy : st[d] \in Ready =>
    ~tty[d] /\ {0, 1, 2} \subseteq fds[d] /\ fds[d] \intersect 0..Closed - 1 \subseteq {0, 1, 2}

(***************************************************************************)
(* SIGHUP ends no copy once daemonize ignores it, with one exception:      *)
(* reread.c gives it its default back before it blocks it.                 *)
(***************************************************************************)
HupStep ==
  \A d \in Copy : killedby[d] = None /\ killedby'[d] = "hup" =>
    st[d] \in {"start", "leader"} \/ (kind = "thread" /\ st[d] = "restored")
HupKeepsRunning == [][HupStep]_vars

\* A daemon that has not read the last configuration has a SIGHUP to come or reads it now.
ConfigSeen ==
  \A d \in Copy : st[d] \in {"ready", "reading"} /\ known[d] # conf /\ lock = d => pend[d]
=============================================================================
