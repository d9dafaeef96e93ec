---------------------------- MODULE ThemeProofs ----------------------------
(***************************************************************************)
(* Promises of MCPrograms that are proved as a whole, from the inductive   *)
(* invariants of ProgramProofs at the sizes that MCPrograms gives the      *)
(* programs.  P is ProgramProofs with the variables of MCPrograms: its     *)
(* instances and those of MCPrograms are the same formulas by two names,   *)
(* which the lemmas ...Same say.                                           *)
(***************************************************************************)
EXTENDS MCPrograms, FiniteSetTheorems, TLAPS

P == INSTANCE ProgramProofs WITH
  Proc <- {p1, p2, p3}, BIGCOUNT <- 4, initval <- 1, MaxOpen <- 4, gen <- v1,
  gens <- v2, val <- v3, adj <- v4, pc <- v5, id <- v6, via <- v7,
  opens <- v8, Thread <- {1, 2}, MaxSem <- 3, MaxLives <- 2, names <- v1,
  value <- v2, cnt <- v3, n <- v4, st <- v5, sp <- v6, inside <- v7,
  lives <- v8, Copy <- {"d1", "d2"}, NOFILE <- 5, OPENMAX <- 4, MaxHup <- 2,
  kind <- v1, dst <- v2, leader <- v3, tty <- v4, fds <- v5, hup <- v6,
  pend <- v7, lock <- v8, pidfile <- v9, killedby <- v10, conf <- v11,
  known <- v12, hups <- v13, rlim_max <- v14, creates <- v1, ost <- v2,
  ofds <- v3, there <- v4, table <- v5, recs <- v6, chain <- v7, dat <- v8,
  old <- v9, olock <- v10, harm <- v11, HDR <- 2, RESP <- 2, IOBUFSZ <- 2,
  SOCKBUF <- 3, JOBNM_MAX <- 8, MaxFile <- 3, size <- v1, namelen <- v2,
  cmd <- v3, nleft <- v4, fileleft <- v5, at <- v6, hleft <- v7, up <- v8,
  down <- v9, taken <- v10, got <- v11, stored <- v12, ok <- v13,
  quiet <- v14, stall <- v15, Both <- {"ECHO", "ICANON"},
  RawOnly <- {"ISIG"}, Tty <- {"t1", "t2"}, MAX_PASS_LEN <- 2, MaxCall <- 2,
  term <- v1, orig <- v2, save_termios <- v3, ttysavefd <- v4,
  ttystate <- v5, tpc <- v6, tfd <- v7, tbuf <- v8, typed <- v9,
  calls <- v10, ots <- v11, tmask <- v12, tpend <- v13, ended <- v14,
  tharm <- v15, BSZ <- 2, NBUF <- 2, COPYINCR <- 3, MaxSize <- 5,
  Text <- CopyText, way <- v1, insize <- v2, st_size <- v3, out <- v4,
  off <- v5, op <- v6, last <- v7, busy <- v8, pos <- v9, nread <- v10,
  slot <- v11, numop <- v12, cst <- v13, PTYBUF <- 1, MaxData <- 2,
  opt <- v1, psp <- v2, sc <- v3, sg <- v4, sd <- v5, handler <- v6,
  sigcaught <- v7, raw <- v8, master <- v9, duplex <- v10, ptyped <- v11,
  eof <- v12, inq <- v13, made <- v14, outq <- v15, pgot <- v16,
  shown <- v17, how <- v18, stray <- v19, untold <- v20, NQ <- 2,
  MAXMSZ <- 3, MaxMsg <- 2, version <- v1, queue <- v2, sent <- v3,
  printed <- v4, hat <- v5, mess <- v6, mutex <- v7, mwaits <- v8,
  sock <- v9, mpc <- v10, look <- v11, pfd <- v12, text <- v13, wild <- v14,
  spur <- v15, SECTONSEC <- 3, MaxClock <- 7, buflen <- 3, prog <- v1,
  hpc <- v2, owner <- v3, depth <- v4, clock <- v5, when <- v6, since <- v7,
  twait <- v8, ran <- v9, tip <- v10, quitflag <- v11, asleep <- v12,
  hpend <- v13, quits <- v14, masked <- v15, copy <- v16, once <- v17,
  ask <- v18, hbuf <- v19, ret <- v20, PIPEBUF <- 1, STDIOBUF <- 2,
  MaxLine <- 3, fprog <- v1, left <- v2, pp <- v3, cp <- v4, fdown <- v5,
  fup <- v6, downw <- v7, upw <- v8, downr <- v9, cur <- v10, obuf <- v11,
  answers <- v12, NLOOPS <- 6, wprog <- v1, whow <- v2, wat <- v3, sub <- v4,
  sigflag <- v5, blocked <- v6, pending <- v7, pipe <- v8, area <- v9,
  counter <- v10, held <- v11, bad <- v12, waits <- v13, Client <- 1..2,
  MAXSLEEP <- 4, QLEN <- 1, Addrs <- 2, ukind <- v1, reuse <- v2, srv <- v3,
  aip <- v4, open <- v5, backlog <- v6, served <- v7, holders <- v8,
  hung <- v9, ust <- v10, numsec <- v11, slept <- v12, socks <- v13,
  alarm <- v14, early <- v15, reply <- v16, Types <- StreamTypes,
  Data <- {<<1>>, <<2, 1>>}, rsize <- 3, type <- v1, flags <- v2,
  state <- v3, own <- v4, buf <- v5, vsize <- v6, curpos <- v7, spill <- v8,
  file <- v9, fpos <- v10, MaxNode <- 4, NAME_MAX <- 2, PATH_MAX <- 5,
  xprog <- v1, par <- v2, dirs <- v3, shut <- v4, gone <- v5, xst <- v6,
  stack <- v7, path <- v8, slash <- v9, pathlen <- v10, start <- v11,
  visits <- v12, nfiles <- v13, ndir <- v14, list <- v15, tail <- v16,
  todo <- v17, ddp <- v18, dev <- v19, xcalls <- v20, found <- v21,
  lost <- v22
S == INSTANCE SignalProofs WITH
  MaxSent <- 3, sprog <- v1, frames <- v2, sst <- v3, smask <- v4, spend <- v5,
  disp <- v6, oldmask <- v7, oldact <- v8, timer <- v9, flag <- v10,
  env <- v11, child <- v12, status <- v13, halted <- v14, misjump <- v15,
  ssent <- v16, before <- v17

\* The modules count elements in the same way.
LEMMA SameCount ==
  ASSUME NEW X
  PROVE  /\ P!IsFiniteSet(X) = IsFiniteSet(X) /\ P!Cardinality(X) = Cardinality(X)
         /\ Sems!Cardinality(X) = Cardinality(X)
         /\ Daemons!Cardinality(X) = Cardinality(X) /\ P!Dm!Cardinality(X) = Cardinality(X)
         /\ Walk!Cardinality(X) = Cardinality(X) /\ P!Wk!Cardinality(X) = Cardinality(X)
BY DEF P!IsFiniteSet, IsFiniteSet, Cardinality, P!Cardinality, Sems!Cardinality,
       Daemons!Cardinality, P!Dm!Cardinality, Walk!Cardinality, P!Wk!Cardinality

\* The queue of threads/condvar.c: the same program by both names.
LEMMA MsgSame ==
  /\ Msgs!MsgInit <=> P!MsgInit
  /\ Msgs!MsgNext <=> P!MsgNext
  /\ (UNCHANGED Msgs!msgvars) <=> (UNCHANGED P!msgvars)
BY DEF Msgs!MsgInit, P!MsgInit, Msgs!MsgNext, P!MsgNext, Msgs!msgvars, P!msgvars, Msgs!EnqueueMsg,
      P!EnqueueMsg, Msgs!Signal, P!Signal, Msgs!ProcessMsg, P!ProcessMsg, Msgs!CondWait,
      P!CondWait, Msgs!Spurious, P!Spurious, Msgs!Fresh, P!Fresh, Msgs!OnQueue, P!OnQueue

\* Its promises by both names.
LEMMA MsgSamePromises ==
  /\ Msgs!MsgWakeup <=> P!MsgWakeup
BY DEF Msgs!MsgWakeup, P!MsgWakeup

\* Parent and child that take turns: the same program by both names.
LEMMA TurnSame ==
  /\ Turns!Init <=> P!Tw!Init
  /\ Turns!Next <=> P!Tw!Next
  /\ (UNCHANGED Turns!vars) <=> (UNCHANGED P!Tw!vars)
BY DEF Turns!Init, P!Tw!Init, Turns!Next, P!Tw!Next, Turns!vars, P!Tw!vars, Turns!Role, P!Tw!Role,
      Turns!TELL_WAIT, P!Tw!TELL_WAIT, Turns!TellSignal, P!Tw!TellSignal, Turns!Deliver,
      P!Tw!Deliver, Turns!WaitTest, P!Tw!WaitTest, Turns!WaitSuspend, P!Tw!WaitSuspend,
      Turns!WaitReset, P!Tw!WaitReset, Turns!TellPipe, P!Tw!TellPipe, Turns!WaitPipe,
      P!Tw!WaitPipe, Turns!Output, P!Tw!Output, Turns!Update, P!Tw!Update, Turns!lockabyte,
      P!Tw!lockabyte, Turns!LockGranted, P!Tw!LockGranted, Turns!Halted, P!Tw!Halted, Turns!Is,
      P!Tw!Is, Turns!Other, P!Tw!Other, Turns!NextStep, P!Tw!NextStep, Turns!Step, P!Tw!Step,
      Turns!sigvars, P!Tw!sigvars, Turns!Expected, P!Tw!Expected, Turns!Code, P!Tw!Code,
      Turns!Done, P!Tw!Done, Turns!tellwait2, P!Tw!tellwait2, Turns!devzero, P!Tw!devzero,
      Turns!deadlock, P!Tw!deadlock, Turns!Repeat, P!Tw!Repeat

\* Its promises by both names.
LEMMA TurnSamePromises ==
  /\ Turns!TakeTurns <=> P!Tw!TakeTurns
  /\ Turns!ToldWakes <=> P!Tw!ToldWakes
BY DEF Turns!TakeTurns, P!Tw!TakeTurns, Turns!ToldWakes, P!Tw!ToldWakes, Turns!Role, P!Tw!Role,
      Turns!Done, P!Tw!Done, Turns!Other, P!Tw!Other, Turns!Code, P!Tw!Code, Turns!tellwait2,
      P!Tw!tellwait2, Turns!devzero, P!Tw!devzero, Turns!deadlock, P!Tw!deadlock, Turns!Repeat,
      P!Tw!Repeat

\* The lock of ipc1/slock.c: the same program by both names.
LEMMA LockSame ==
  /\ NamedLock!Init <=> P!Lock!Init
  /\ NamedLock!Next <=> P!Lock!Next
  /\ (UNCHANGED NamedLock!vars) <=> (UNCHANGED P!Lock!vars)
BY DEF NamedLock!Init, P!Lock!Init, NamedLock!Next, P!Lock!Next, NamedLock!vars, P!Lock!vars,
      NamedLock!Fresh, P!Lock!Fresh, NamedLock!Count, P!Lock!Count, NamedLock!Counted,
      P!Lock!Counted, NamedLock!Open, P!Lock!Open, NamedLock!Unlink, P!Lock!Unlink,
      NamedLock!s_free, P!Lock!s_free, NamedLock!s_trylock, P!Lock!s_trylock, NamedLock!s_unlock,
      P!Lock!s_unlock, NamedLock!NewProcess, P!Lock!NewProcess, NamedLock!Ended, P!Lock!Ended,
      NamedLock!Made, P!Lock!Made, NamedLock!Usable, P!Lock!Usable, NamedLock!s_lock,
      P!Lock!s_lock

\* Its promises by both names.
LEMMA LockSamePromises ==
  /\ NamedLock!OwnSemaphore <=> P!Lock!OwnSemaphore
  /\ NamedLock!LockExact <=> P!Lock!LockExact
BY DEF NamedLock!OwnSemaphore, P!Lock!OwnSemaphore, NamedLock!LockExact, P!Lock!LockExact,
      NamedLock!Usable, P!Lock!Usable

\* The semaphores of lib/semaph.c: the same program by both names.
LEMMA SemSame ==
  /\ Sems!SemInit <=> P!SemInit
  /\ Sems!SemNext <=> P!SemNext
  /\ (UNCHANGED Sems!vars) <=> (UNCHANGED P!vars)
BY DEF Sems!SemInit, P!SemInit, Sems!SemNext, P!SemNext, Sems!vars, P!vars, Sems!Zero, P!Zero,
      Sems!CreateGet, P!CreateGet, Sems!CreateLock, P!CreateLock, Sems!CreateSet0, P!CreateSet0,
      Sems!CreateSet1, P!CreateSet1, Sems!EndCreate, P!EndCreate, Sems!OpenGet, P!OpenGet,
      Sems!OpenCount, P!OpenCount, Sems!CloseLock, P!CloseLock, Sems!CloseVal, P!CloseVal,
      Sems!sem_rm, P!sem_rm, Sems!CloseUnlock, P!CloseUnlock, Sems!sem_wait, P!sem_wait,
      Sems!sem_signal, P!sem_signal, Sems!Exit, P!Exit, Sems!SemEnded, P!SemEnded, Sems!Goto,
      P!Goto, Sems!Exists, P!Exists, Sems!semop, P!semop, Sems!op_lock, P!op_lock, Sems!Fails,
      P!Fails, Sems!SetVal, P!SetVal, Sems!op_endcreate, P!op_endcreate, Sems!op_open, P!op_open,
      Sems!op_close, P!op_close, Sems!op_unlock, P!op_unlock, Sems!sem_op, P!sem_op, Sems!Larger,
      P!Larger, Sems!By, P!By

\* Its promises by both names.
LEMMA SemSamePromises ==
  /\ Sems!OneInside <=> P!OneInside
  /\ Sems!LockHasHolder <=> P!LockHasHolder
<1>1. (\A p \in {p1, p2, p3} : Sems!Exists(p) <=> P!Exists(p)) /\ Sems!Locked = P!Locked
  BY DEF Sems!Exists, P!Exists, Sems!Locked, P!Locked
<1>2. {p \in {p1, p2, p3} : Sems!Exists(p) /\ v5[p] = "in"} =
        {p \in {p1, p2, p3} : P!Exists(p) /\ v5[p] = "in"}
  BY <1>1
<1> QED BY <1>1, <1>2, SameCount DEF Sems!OneInside, P!OneInside, Sems!LockHasHolder, P!LockHasHolder

\* The daemon: the same program by both names.
LEMMA DaemonSame ==
  /\ Daemons!Init <=> P!Dm!Init
  /\ Daemons!Next <=> P!Dm!Next
  /\ (UNCHANGED Daemons!vars) <=> (UNCHANGED P!Dm!vars)
BY DEF Daemons!Init, P!Dm!Init, Daemons!Next, P!Dm!Next, Daemons!vars, P!Dm!vars,
      Daemons!RLIM_INFINITY, P!Dm!RLIM_INFINITY, Daemons!Closed, P!Dm!Closed, Daemons!None,
      P!Dm!None, Daemons!Setsid, P!Dm!Setsid, Daemons!IgnoreHup, P!Dm!IgnoreHup,
      Daemons!SecondFork, P!Dm!SecondFork, Daemons!CloseAll, P!Dm!CloseAll,
      Daemons!already_running, P!Dm!already_running, Daemons!WritePid, P!Dm!WritePid,
      Daemons!RestoreHup, P!Dm!RestoreHup, Daemons!BlockAll, P!Dm!BlockAll, Daemons!CatchHup,
      P!Dm!CatchHup, Daemons!TakeHup, P!Dm!TakeHup, Daemons!reread, P!Dm!reread, Daemons!Hup,
      P!Dm!Hup, Daemons!Term, P!Dm!Term, Daemons!OpenTerminal, P!Dm!OpenTerminal, Daemons!Ended,
      P!Dm!Ended, Daemons!Moves, P!Dm!Moves, Daemons!lockfile, P!Dm!lockfile, Daemons!Gone,
      P!Dm!Gone, Daemons!Ready, P!Dm!Ready

\* Its promises by both names.
LEMMA DaemonSamePromises ==
  /\ Daemons!OneDaemon <=> P!Dm!OneDaemon
  /\ Daemons!PidInFile <=> P!Dm!PidInFile
  /\ Daemons!NoTerminal <=> P!Dm!NoTerminal
  /\ Daemons!ConfigSeen <=> P!Dm!ConfigSeen
<1>1. Daemons!Single = P!Dm!Single /\ Daemons!Ready = P!Dm!Ready
  BY DEF Daemons!Single, P!Dm!Single, Daemons!Ready, P!Dm!Ready
<1>2. {d \in {"d1", "d2"} : v2[d] \in Daemons!Single} =
        {d \in {"d1", "d2"} : v2[d] \in P!Dm!Single}
  BY <1>1
<1> QED BY <1>1, <1>2, SameCount DEF Daemons!OneDaemon, P!Dm!OneDaemon, Daemons!PidInFile, P!Dm!PidInFile,
            Daemons!NoTerminal, P!Dm!NoTerminal, Daemons!ConfigSeen, P!Dm!ConfigSeen,
            Daemons!Closed, P!Dm!Closed, Daemons!RLIM_INFINITY, P!Dm!RLIM_INFINITY

\* The pty program: the same program by both names.
LEMMA PtySame ==
  /\ PtyRun!Init <=> P!Py!Init
  /\ PtyRun!Next <=> P!Py!Next
  /\ (UNCHANGED PtyRun!vars) <=> (UNCHANGED P!Py!vars)
BY DEF PtyRun!Init, P!Py!Init, PtyRun!Next, P!Py!Next, PtyRun!vars, P!Py!vars, PtyRun!Parent,
      P!Py!Parent, PtyRun!Child, P!Py!Child, PtyRun!SlaveStart, P!Py!SlaveStart, PtyRun!Program,
      P!Py!Program, PtyRun!Hangup, P!Py!Hangup, PtyRun!DriverEnds, P!Py!DriverEnds, PtyRun!Quiet,
      P!Py!Quiet, PtyRun!pty_fork, P!Py!pty_fork, PtyRun!tty_raw, P!Py!tty_raw, PtyRun!do_driver,
      P!Py!do_driver, PtyRun!StartFails, P!Py!StartFails, PtyRun!LoopFork, P!Py!LoopFork,
      PtyRun!signal_intr, P!Py!signal_intr, PtyRun!ParentRead, P!Py!ParentRead,
      PtyRun!ParentWrite, P!Py!ParentWrite, PtyRun!ParentAfter, P!Py!ParentAfter,
      PtyRun!ChildCopy, P!Py!ChildCopy, PtyRun!ChildError, P!Py!ChildError, PtyRun!ChildNotify,
      P!Py!ChildNotify, PtyRun!ChildExit, P!Py!ChildExit, PtyRun!Closes, P!Py!Closes,
      PtyRun!ParentWaits, P!Py!ParentWaits, PtyRun!ChildWaits, P!Py!ChildWaits, PtyRun!ErrSys,
      P!Py!ErrSys, PtyRun!tty_atexit, P!Py!tty_atexit, PtyRun!StdinEnds, P!Py!StdinEnds,
      PtyRun!Notify, P!Py!Notify, PtyRun!sig_term, P!Py!sig_term

\* Its promises by both names.
LEMMA PtySamePromises ==
  /\ PtyRun!TtyRestored <=> P!Py!TtyRestored
BY DEF PtyRun!TtyRestored, P!Py!TtyRestored

\* The terminal modes: the same program by both names.
LEMMA TerminalSame ==
  /\ Modes!Init <=> P!Tm!Init
  /\ Modes!Next <=> P!Tm!Next
  /\ (UNCHANGED Modes!vars) <=> (UNCHANGED P!Tm!vars)
BY DEF Modes!Init, P!Tm!Init, Modes!Next, P!Tm!Next, Modes!vars, P!Tm!vars, Modes!Flag, P!Tm!Flag,
      Modes!None, P!Tm!None, Modes!tty_cbreak, P!Tm!tty_cbreak, Modes!tty_raw, P!Tm!tty_raw,
      Modes!tty_reset, P!Tm!tty_reset, Modes!PassBlock, P!Tm!PassBlock, Modes!Verify,
      P!Tm!Verify, Modes!tty_atexit, P!Tm!tty_atexit, Modes!sig_catch, P!Tm!sig_catch,
      Modes!PassNoEcho, P!Tm!PassNoEcho, Modes!PassChar, P!Tm!PassChar, Modes!PassEnd,
      P!Tm!PassEnd, Modes!PassUnblock, P!Tm!PassUnblock, Modes!Key, P!Tm!Key, Modes!Ended,
      P!Tm!Ended, Modes!SetMode, P!Tm!SetMode, Modes!Reset, P!Tm!Reset, Modes!CallOk,
      P!Tm!CallOk, Modes!Stuck, P!Tm!Stuck, Modes!Unchecked, P!Tm!Unchecked, Modes!ResetAndExit,
      P!Tm!ResetAndExit, Modes!Change, P!Tm!Change, Modes!PutBack, P!Tm!PutBack, Modes!tcsetattr,
      P!Tm!tcsetattr, Modes!Cleared, P!Tm!Cleared, Modes!IsSet, P!Tm!IsSet, Modes!Wanted,
      P!Tm!Wanted

\* Its promises by both names.
LEMMA TerminalSamePromises ==
  /\ Modes!ModeKnown <=> P!Tm!ModeKnown
  /\ Modes!NoHalfMode <=> P!Tm!NoHalfMode
  /\ Modes!EchoBack <=> P!Tm!EchoBack
BY DEF Modes!ModeKnown, P!Tm!ModeKnown, Modes!NoHalfMode, P!Tm!NoHalfMode, Modes!EchoBack,
      P!Tm!EchoBack, Modes!Stuck, P!Tm!Stuck, Modes!Wanted, P!Tm!Wanted, Modes!Cleared,
      P!Tm!Cleared, Modes!IsSet, P!Tm!IsSet

\* Thread control: the same program by both names.
LEMMA ControlSame ==
  /\ Control!Init <=> P!Ct!Init
  /\ Control!Next <=> P!Ct!Next
  /\ (UNCHANGED Control!vars) <=> (UNCHANGED P!Ct!vars)
BY SMTT(60) DEF Control!Init, P!Ct!Init, Control!Next, P!Ct!Next, Control!vars, P!Ct!vars, Control!Thread,
      P!Ct!Thread, Control!Lock, P!Ct!Lock, Control!None, P!Ct!None, Control!Tick, P!Ct!Tick,
      Control!MainLock, P!Ct!MainLock, Control!timeout, P!Ct!timeout, Control!Wake, P!Ct!Wake,
      Control!MainUnlock, P!Ct!MainUnlock, Control!UseLocks, P!Ct!UseLocks, Control!Atfork,
      P!Ct!Atfork, Control!Block, P!Ct!Block, Control!SendQuit, P!Ct!SendQuit, Control!thr_fn,
      P!Ct!thr_fn, Control!MainWait, P!Ct!MainWait, Control!retry, P!Ct!retry, Control!EnvLock,
      P!Ct!EnvLock, Control!EnvFind, P!Ct!EnvFind, Control!EnvUse, P!Ct!EnvUse, Control!Quiet,
      P!Ct!Quiet, Control!svars, P!Ct!svars, Control!evars, P!Ct!evars, Control!Goto, P!Ct!Goto,
      Control!LockAgain, P!Ct!LockAgain, Control!Later, P!Ct!Later, Control!to_wait,
      P!Ct!to_wait, Control!Release, P!Ct!Release, Control!tvars, P!Ct!tvars, Control!Take,
      P!Ct!Take, Control!prepare, P!Ct!prepare, Control!Fork, P!Ct!Fork, Control!parent,
      P!Ct!parent, Control!child, P!Ct!child, Control!Give, P!Ct!Give, Control!Getenv,
      P!Ct!Getenv, Control!environ, P!Ct!environ, Control!Fits, P!Ct!Fits, Control!Buffer,
      P!Ct!Buffer, Control!MayLock, P!Ct!MayLock, Control!Sec, P!Ct!Sec, Control!Nsec, P!Ct!Nsec

\* Its promises by both names.
LEMMA ControlSamePromises ==
  /\ Control!ChildLocksFree <=> P!Ct!ChildLocksFree
  /\ Control!NoSelfWait <=> P!Ct!NoSelfWait
  /\ Control!QuitWakes <=> P!Ct!QuitWakes
BY DEF Control!ChildLocksFree, P!Ct!ChildLocksFree, Control!NoSelfWait, P!Ct!NoSelfWait,
      Control!QuitWakes, P!Ct!QuitWakes, Control!Lock, P!Ct!Lock, Control!None, P!Ct!None,
      Control!MayLock, P!Ct!MayLock

\* The flags of a type by both names.
LEMMA SameFlags == ASSUME NEW t PROVE Stream!type_to_flags(t) = P!Ms!type_to_flags(t)
BY DEF Stream!type_to_flags, P!Ms!type_to_flags, Stream!TakeChar, P!Ms!TakeChar, Stream!Mode,
       P!Ms!Mode, Stream!FoldLeft, P!Ms!FoldLeft, Stream!MapThenFoldSet, P!Ms!MapThenFoldSet,
       Stream!Max, P!Ms!Max

\* The memory stream: the same program by both names.
LEMMA StreamSame ==
  /\ Stream!Init <=> P!Ms!Init
  /\ Stream!Next <=> P!Ms!Next
  /\ (UNCHANGED Stream!vars) <=> (UNCHANGED P!Ms!vars)
BY SameFlags DEF Stream!Init, P!Ms!Init, Stream!Next, P!Ms!Next, Stream!vars, P!Ms!vars, Stream!fmemopen,
      P!Ms!fmemopen, Stream!mstream_close, P!Ms!mstream_close, Stream!Ended, P!Ms!Ended,
      Stream!mstream_read, P!Ms!mstream_read, Stream!mstream_write, P!Ms!mstream_write,
      Stream!mstream_seek, P!Ms!mstream_seek, Stream!find_end, P!Ms!find_end, Stream!Bytes,
      P!Ms!Bytes, Stream!Min2, P!Ms!Min2, Stream!Where, P!Ms!Where, Stream!Room, P!Ms!Room,
      Stream!ZeroGrown, P!Ms!ZeroGrown, Stream!ZeroWriteOnly, P!Ms!ZeroWriteOnly, Stream!Put,
      P!Ms!Put

\* Its promises by both names.
LEMMA StreamSamePromises ==
  /\ Stream!InBuffer <=> P!Ms!InBuffer
  /\ Stream!StreamIsFile <=> P!Ms!StreamIsFile
BY DEF Stream!InBuffer, P!Ms!InBuffer, Stream!StreamIsFile, P!Ms!StreamIsFile, Stream!Bytes,
      P!Ms!Bytes

\* The walk of a tree: the same program by both names.
LEMMA WalkSame ==
  /\ Walk!Init <=> P!Wk!Init
  /\ Walk!Next <=> P!Wk!Next
  /\ (UNCHANGED Walk!vars) <=> (UNCHANGED P!Wk!vars)
<1>1. Walk!Init <=> P!Wk!Init
  BY DEF Walk!Init, P!Wk!Init, Walk!Node, P!Wk!Node, Walk!None, P!Wk!None
<1>2. Walk!myftw <=> P!Wk!myftw
  BY DEF Walk!myftw, P!Wk!myftw, Walk!path_alloc, P!Wk!path_alloc, Walk!treevars, P!Wk!treevars,
      Walk!ttyvars, P!Wk!ttyvars
<1>3. Walk!dopath <=> P!Wk!dopath
  BY SameCount DEF Walk!dopath, P!Wk!dopath, Walk!myfunc, P!Wk!myfunc, Walk!Top, P!Wk!Top, Walk!Grow,
      P!Wk!Grow, Walk!strlen, P!Wk!strlen, Walk!Return, P!Wk!Return, Walk!treevars,
      P!Wk!treevars, Walk!ttyvars, P!Wk!ttyvars, Walk!Longs, P!Wk!Longs
<1>4. Walk!opendir <=> P!Wk!opendir
  BY DEF Walk!opendir, P!Wk!opendir, Walk!Top, P!Wk!Top, Walk!CannotRead, P!Wk!CannotRead,
      Walk!Children, P!Wk!Children, Walk!treevars, P!Wk!treevars, Walk!ttyvars, P!Wk!ttyvars,
      Walk!myfunc, P!Wk!myfunc, Walk!Return, P!Wk!Return
<1>5. Walk!readdir <=> P!Wk!readdir
  BY DEF Walk!readdir, P!Wk!readdir, Walk!Frame, P!Wk!Frame, Walk!NamePath, P!Wk!NamePath,
      Walk!treevars, P!Wk!treevars, Walk!ttyvars, P!Wk!ttyvars
<1>6. Walk!closedir <=> P!Wk!closedir
  BY DEF Walk!closedir, P!Wk!closedir, Walk!Frame, P!Wk!Frame, Walk!treevars, P!Wk!treevars,
      Walk!ttyvars, P!Wk!ttyvars
<1>7. Walk!ttyname <=> P!Wk!ttyname
  BY DEF Walk!ttyname, P!Wk!ttyname, Walk!Entries, P!Wk!Entries, Walk!None, P!Wk!None,
      Walk!treevars, P!Wk!treevars, Walk!ftwvars, P!Wk!ftwvars, Walk!Children, P!Wk!Children
<1>8. Walk!searchdir <=> P!Wk!searchdir
  BY DEF Walk!searchdir, P!Wk!searchdir, Walk!add, P!Wk!add, Walk!treevars, P!Wk!treevars,
      Walk!ftwvars, P!Wk!ftwvars, Walk!Skip, P!Wk!Skip
<1>9. Walk!NextDir <=> P!Wk!NextDir
  BY DEF Walk!NextDir, P!Wk!NextDir, Walk!Entries, P!Wk!Entries, Walk!treevars, P!Wk!treevars,
      Walk!ftwvars, P!Wk!ftwvars, Walk!Children, P!Wk!Children
<1>10. Walk!cleanup <=> P!Wk!cleanup
  BY DEF Walk!cleanup, P!Wk!cleanup, Walk!treevars, P!Wk!treevars, Walk!ftwvars, P!Wk!ftwvars
<1>11. ASSUME NEW x PROVE Walk!Remove(x) <=> P!Wk!Remove(x)
  BY DEF Walk!Remove, P!Wk!Remove, Walk!Children, P!Wk!Children, Walk!treevars, P!Wk!treevars,
      Walk!ftwvars, P!Wk!ftwvars, Walk!ttyvars, P!Wk!ttyvars
<1>12. Walk!Ended <=> P!Wk!Ended
  BY DEF Walk!Ended, P!Wk!Ended, Walk!vars, P!Wk!vars, Walk!treevars, P!Wk!treevars, Walk!ftwvars,
      P!Wk!ftwvars, Walk!ttyvars, P!Wk!ttyvars
<1>13. (UNCHANGED Walk!vars) <=> (UNCHANGED P!Wk!vars)
  BY DEF Walk!vars, P!Wk!vars, Walk!treevars, P!Wk!treevars, Walk!ftwvars, P!Wk!ftwvars,
      Walk!ttyvars, P!Wk!ttyvars
<1>14. Walk!Next <=> P!Wk!Next
  BY <1>2, <1>3, <1>4, <1>5, <1>6, <1>7, <1>8, <1>9, <1>10, <1>11, <1>12
     DEF Walk!Next, P!Wk!Next, Walk!Node, P!Wk!Node
<1> QED BY <1>1, <1>13, <1>14

\* Its promises by both names.
LEMMA WalkSamePromises ==
  /\ Walk!PathFits <=> P!Wk!PathFits
  /\ Walk!PathRight <=> P!Wk!PathRight
BY SameCount DEF Walk!PathFits, P!Wk!PathFits, Walk!PathRight, P!Wk!PathRight, Walk!strlen, P!Wk!strlen,
      Walk!Longs, P!Wk!Longs

\* The programs of signals/: the same program by both names.
LEMMA SignalSame ==
  /\ Sigs!Init <=> S!Sg!Init
  /\ Sigs!Next <=> S!Sg!Next
  /\ (UNCHANGED Sigs!vars) <=> (UNCHANGED S!Sg!vars)
<1>1. ASSUME NEW x PROVE Sigs!Code(x) = S!Sg!Code(x)
  BY DEF Sigs!Code, S!Sg!Code, Sigs!sleep, S!Sg!sleep, Sigs!sleep1, S!Sg!sleep1, Sigs!sleep2,
      S!Sg!sleep2, Sigs!read1, S!Sg!read1, Sigs!read2, S!Sg!read2, Sigs!suspend1, S!Sg!suspend1,
      Sigs!suspend2, S!Sg!suspend2, Sigs!critical, S!Sg!critical, Sigs!maskprog, S!Sg!maskprog,
      Sigs!sigtstp, S!Sg!sigtstp, Sigs!childprog, S!Sg!childprog, Sigs!abort, S!Sg!abort,
      Sigs!system, S!Sg!system, Sigs!sig_alrm, S!Sg!sig_alrm, Sigs!sig_alrm2, S!Sg!sig_alrm2,
      Sigs!sig_int, S!Sg!sig_int, Sigs!sig_quit, S!Sg!sig_quit, Sigs!sig_usr1, S!Sg!sig_usr1,
      Sigs!sig_tstp, S!Sg!sig_tstp, Sigs!sig_cld, S!Sg!sig_cld, Sigs!Sig, S!Sg!Sig
<1>2. Sigs!Keep <=> S!Sg!Keep
  BY DEF Sigs!Keep, S!Sg!Keep
<1>3. Sigs!Same <=> S!Sg!Same
  BY DEF Sigs!Same, S!Sg!Same
<1>4. Sigs!Top = S!Sg!Top
  BY DEF Sigs!Top, S!Sg!Top
<1>5. Sigs!Deliverable = S!Sg!Deliverable
  BY DEF Sigs!Deliverable, S!Sg!Deliverable
<1>6. ASSUME NEW x PROVE Sigs!Jump(x) <=> S!Sg!Jump(x)
  BY DEF Sigs!Jump, S!Sg!Jump
<1>7. ASSUME NEW x PROVE Sigs!SigCall(x) <=> S!Sg!SigCall(x)
  BY <1>6, <1>4 DEF Sigs!SigCall, S!Sg!SigCall, Sigs!Go, S!Sg!Go
<1>8. ASSUME NEW x PROVE Sigs!Branch(x) <=> S!Sg!Branch(x)
  BY <1>6, <1>3, <1>4 DEF Sigs!Branch, S!Sg!Branch, Sigs!Go, S!Sg!Go
<1>9. ASSUME NEW x PROVE Sigs!SetJmp(x) <=> S!Sg!SetJmp(x)
  BY <1>6, <1>4 DEF Sigs!SetJmp, S!Sg!SetJmp, Sigs!Go, S!Sg!Go
<1>10. ASSUME NEW x PROVE Sigs!LongJmp(x) <=> S!Sg!LongJmp(x)
  BY DEF Sigs!LongJmp, S!Sg!LongJmp
<1>11. ASSUME NEW x PROVE Sigs!WaitChild(x) <=> S!Sg!WaitChild(x)
  BY <1>6, <1>4 DEF Sigs!WaitChild, S!Sg!WaitChild, Sigs!Go, S!Sg!Go
<1>12. ASSUME NEW x PROVE Sigs!Return(x) <=> S!Sg!Return(x)
  BY <1>4 DEF Sigs!Return, S!Sg!Return
<1>13. Sigs!Step <=> S!Sg!Step
  BY <1>4, <1>2, <1>1, <1>7, <1>8, <1>9, <1>10, <1>11, <1>12, <1>5, <1>6 DEF Sigs!Step, S!Sg!Step, Sigs!Running, S!Sg!Running, Sigs!ForkFails, S!Sg!ForkFails,
      Sigs!Wait, S!Sg!Wait, Sigs!Sleeps, S!Sg!Sleeps
<1>14. ASSUME NEW s PROVE Sigs!Deliver(s) <=> S!Sg!Deliver(s)
  BY <1>5, <1>2, <1>4, <1>1 DEF Sigs!Deliver, S!Sg!Deliver, Sigs!Frame, S!Sg!Frame
<1>15. Sigs!AlarmRings <=> S!Sg!AlarmRings
  BY <1>2 DEF Sigs!AlarmRings, S!Sg!AlarmRings, Sigs!Post, S!Sg!Post
<1>16. Sigs!ChildEnds <=> S!Sg!ChildEnds
  BY <1>2 DEF Sigs!ChildEnds, S!Sg!ChildEnds, Sigs!Post, S!Sg!Post
<1>17. ASSUME NEW x PROVE Sigs!SentTo(x) = S!Sg!SentTo(x)
  BY DEF Sigs!SentTo, S!Sg!SentTo
<1>18. Sigs!SendSignal <=> S!Sg!SendSignal
  BY <1>17 DEF Sigs!SendSignal, S!Sg!SendSignal, Sigs!Post, S!Sg!Post
<1>19. Sigs!Input <=> S!Sg!Input
  BY <1>4, <1>1, <1>3, <1>2, <1>6 DEF Sigs!Input, S!Sg!Input, Sigs!Go, S!Sg!Go
<1>20. Sigs!Continue <=> S!Sg!Continue
  BY <1>2 DEF Sigs!Continue, S!Sg!Continue
<1>21. Sigs!Quiet <=> S!Sg!Quiet
  BY <1>4, <1>5, <1>17 DEF Sigs!Quiet, S!Sg!Quiet, Sigs!vars, S!Sg!vars
<1>22. Sigs!Init <=> S!Sg!Init
  BY DEF Sigs!Init, S!Sg!Init, Sigs!Programs, S!Sg!Programs, Sigs!Sig, S!Sg!Sig, Sigs!Before,
      S!Sg!Before, Sigs!Frame, S!Sg!Frame
<1>23. (UNCHANGED Sigs!vars) <=> (UNCHANGED S!Sg!vars)
  BY DEF Sigs!vars, S!Sg!vars
<1>24. Sigs!Next <=> S!Sg!Next
  BY <1>13, <1>15, <1>16, <1>18, <1>19, <1>20, <1>21, <1>14 DEF Sigs!Next, S!Sg!Next, Sigs!Sig, S!Sg!Sig
<1> QED BY <1>22, <1>23, <1>24

\* Its promises by both names.
LEMMA SignalSamePromises ==
  /\ Sigs!WakesUp <=> S!Sg!WakesUp
  /\ Sigs!Restored <=> S!Sg!Restored
  /\ Sigs!AbortEnds <=> S!Sg!AbortEnds
  /\ Sigs!StatusOurs <=> S!Sg!StatusOurs
  /\ Sigs!JumpReady <=> S!Sg!JumpReady
  /\ Sigs!StopsFirst <=> S!Sg!StopsFirst
BY DEF Sigs!WakesUp, S!Sg!WakesUp, Sigs!Restored, S!Sg!Restored, Sigs!AbortEnds, S!Sg!AbortEnds,
      Sigs!StatusOurs, S!Sg!StatusOurs, Sigs!JumpReady, S!Sg!JumpReady, Sigs!StopsFirst,
      S!Sg!StopsFirst, Sigs!Top, S!Sg!Top, Sigs!Code, S!Sg!Code, Sigs!sleep, S!Sg!sleep,
      Sigs!sleep1, S!Sg!sleep1, Sigs!sleep2, S!Sg!sleep2, Sigs!read1, S!Sg!read1, Sigs!read2,
      S!Sg!read2, Sigs!suspend1, S!Sg!suspend1, Sigs!suspend2, S!Sg!suspend2, Sigs!critical,
      S!Sg!critical, Sigs!maskprog, S!Sg!maskprog, Sigs!sigtstp, S!Sg!sigtstp, Sigs!childprog,
      S!Sg!childprog, Sigs!abort, S!Sg!abort, Sigs!system, S!Sg!system, Sigs!sig_alrm,
      S!Sg!sig_alrm, Sigs!sig_alrm2, S!Sg!sig_alrm2, Sigs!sig_int, S!Sg!sig_int, Sigs!sig_quit,
      S!Sg!sig_quit, Sigs!sig_usr1, S!Sg!sig_usr1, Sigs!sig_tstp, S!Sg!sig_tstp, Sigs!sig_cld,
      S!Sg!sig_cld, Sigs!Sig, S!Sg!Sig

\* The remote uptime service: the same program by both names.
LEMMA RuptimeSame ==
  /\ Uptime!Init <=> P!Rt!Init
  /\ Uptime!Next <=> P!Rt!Next
  /\ (UNCHANGED Uptime!vars) <=> (UNCHANGED P!Rt!vars)
<1>1. Uptime!Exits <=> P!Rt!Exits
  BY DEF Uptime!Exits, P!Rt!Exits, Uptime!Front, P!Rt!Front, Uptime!Last, P!Rt!Last
<1>2. Uptime!PopenMain <=> P!Rt!PopenMain
  BY DEF Uptime!PopenMain, P!Rt!PopenMain, Uptime!Startup, P!Rt!Startup, Uptime!initserver,
      P!Rt!initserver, Uptime!cvars, P!Rt!cvars
<1>3. Uptime!ForkMain <=> P!Rt!ForkMain
  BY DEF Uptime!ForkMain, P!Rt!ForkMain, Uptime!Startup, P!Rt!Startup, Uptime!initserver,
      P!Rt!initserver, Uptime!cvars, P!Rt!cvars
<1>4. Uptime!DgramMain <=> P!Rt!DgramMain
  BY DEF Uptime!DgramMain, P!Rt!DgramMain, Uptime!Startup, P!Rt!Startup, Uptime!initserver,
      P!Rt!initserver, Uptime!cvars, P!Rt!cvars
<1>5. Uptime!Accept <=> P!Rt!Accept
  BY <1>1 DEF Uptime!Accept, P!Rt!Accept, Uptime!cvars, P!Rt!cvars
<1>6. Uptime!ServePopen <=> P!Rt!ServePopen
  BY DEF Uptime!ServePopen, P!Rt!ServePopen, Uptime!cvars, P!Rt!cvars
<1>7. Uptime!ServeFork <=> P!Rt!ServeFork
  BY <1>1 DEF Uptime!ServeFork, P!Rt!ServeFork, Uptime!cvars, P!Rt!cvars
<1>8. Uptime!ChildRuns <=> P!Rt!ChildRuns
  BY DEF Uptime!ChildRuns, P!Rt!ChildRuns, Uptime!cvars, P!Rt!cvars
<1>9. Uptime!ServeDgram <=> P!Rt!ServeDgram
  BY DEF Uptime!ServeDgram, P!Rt!ServeDgram, Uptime!cvars, P!Rt!cvars
<1>10. Uptime!Server <=> P!Rt!Server
  BY <1>2, <1>3, <1>4, <1>5, <1>6, <1>7, <1>8, <1>9 DEF Uptime!Server, P!Rt!Server
<1>11. ASSUME NEW c PROVE Uptime!Connect(c) <=> P!Rt!Connect(c)
  BY DEF Uptime!Connect, P!Rt!Connect, Uptime!TryAgain, P!Rt!TryAgain
<1>12. ASSUME NEW c PROVE Uptime!Backoff(c) <=> P!Rt!Backoff(c)
  BY DEF Uptime!Backoff, P!Rt!Backoff, Uptime!CloseTry, P!Rt!CloseTry, Uptime!svars, P!Rt!svars
<1>13. ASSUME NEW c PROVE Uptime!GiveUp(c) <=> P!Rt!GiveUp(c)
  BY DEF Uptime!GiveUp, P!Rt!GiveUp, Uptime!TryAgain, P!Rt!TryAgain, Uptime!svars, P!Rt!svars
<1>14. ASSUME NEW c PROVE Uptime!print_uptime(c) <=> P!Rt!print_uptime(c)
  BY DEF Uptime!print_uptime, P!Rt!print_uptime, Uptime!Waiting, P!Rt!Waiting, Uptime!svars,
      P!Rt!svars
<1>15. ASSUME NEW c PROVE Uptime!SendTo(c) <=> P!Rt!SendTo(c)
  BY DEF Uptime!SendTo, P!Rt!SendTo
<1>16. ASSUME NEW c PROVE Uptime!SetAlarm(c) <=> P!Rt!SetAlarm(c)
  BY DEF Uptime!SetAlarm, P!Rt!SetAlarm, Uptime!svars, P!Rt!svars
<1>17. ASSUME NEW c PROVE Uptime!RecvFrom(c) <=> P!Rt!RecvFrom(c)
  BY DEF Uptime!RecvFrom, P!Rt!RecvFrom, Uptime!svars, P!Rt!svars
<1>18. ASSUME NEW c PROVE Uptime!sigalrm(c) <=> P!Rt!sigalrm(c)
  BY DEF Uptime!sigalrm, P!Rt!sigalrm, Uptime!svars, P!Rt!svars
<1>19. Uptime!Lose <=> P!Rt!Lose
  BY DEF Uptime!Lose, P!Rt!Lose, Uptime!svars, P!Rt!svars, Uptime!cvars, P!Rt!cvars
<1>20. Uptime!Ended <=> P!Rt!Ended
  BY DEF Uptime!Ended, P!Rt!Ended, Uptime!Stuck, P!Rt!Stuck, Uptime!vars, P!Rt!vars
<1>21. Uptime!Init <=> P!Rt!Init
  BY DEF Uptime!Init, P!Rt!Init, Uptime!None, P!Rt!None
<1>22. (UNCHANGED Uptime!vars) <=> (UNCHANGED P!Rt!vars)
  BY DEF Uptime!vars, P!Rt!vars
<1>23. Uptime!Next <=> P!Rt!Next
  BY <1>10, <1>11, <1>12, <1>13, <1>14, <1>15, <1>16, <1>17, <1>18, <1>19, <1>20 DEF Uptime!Next, P!Rt!Next
<1> QED BY <1>21, <1>22, <1>23

\* Its promises by both names.
LEMMA RuptimeSamePromises ==
  /\ Uptime!AlarmCovers <=> P!Rt!AlarmCovers
BY DEF Uptime!AlarmCovers, P!Rt!AlarmCovers

\* The print command: the same program by both names.
LEMMA SubmitSame ==
  /\ PrintCmd!Init <=> P!Pr!Init
  /\ PrintCmd!Next <=> P!Pr!Next
  /\ (UNCHANGED PrintCmd!vars) <=> (UNCHANGED P!Pr!vars)
BY DEF PrintCmd!Init, P!Pr!Init, PrintCmd!Next, P!Pr!Next, PrintCmd!vars, P!Pr!vars,
      PrintCmd!Contact, P!Pr!Contact, PrintCmd!writen, P!Pr!writen, PrintCmd!submit_file,
      P!Pr!submit_file, PrintCmd!readn, P!Pr!readn, PrintCmd!treadn, P!Pr!treadn,
      PrintCmd!Upload, P!Pr!Upload, PrintCmd!Accepted, P!Pr!Accepted, PrintCmd!Network,
      P!Pr!Network, PrintCmd!Dies, P!Pr!Dies, PrintCmd!Ended, P!Pr!Ended, PrintCmd!Min2,
      P!Pr!Min2, PrintCmd!tread, P!Pr!tread, PrintCmd!NoMore, P!Pr!NoMore, PrintCmd!Answer,
      P!Pr!Answer, PrintCmd!Readable, P!Pr!Readable, PrintCmd!AtEnd, P!Pr!AtEnd,
      PrintCmd!TimesOut, P!Pr!TimesOut

\* Its promises by both names.
LEMMA SubmitSamePromises ==
  /\ PrintCmd!NameFits <=> P!Pr!NameFits
  /\ PrintCmd!HeaderApart <=> P!Pr!HeaderApart
  /\ PrintCmd!AckedWhole <=> P!Pr!AckedWhole
BY DEF PrintCmd!NameFits, P!Pr!NameFits, PrintCmd!HeaderApart, P!Pr!HeaderApart,
      PrintCmd!AckedWhole, P!Pr!AckedWhole, PrintCmd!jobnm, P!Pr!jobnm

\* Queues of messages and poll: the same program by both names.
LEMMA PollSame ==
  /\ Polls!Init <=> P!Pm!Init
  /\ Polls!Next <=> P!Pm!Next
  /\ (UNCHANGED Polls!vars) <=> (UNCHANGED P!Pm!vars)
BY DEF Polls!Init, P!Pm!Init, Polls!Next, P!Pm!Next, Polls!vars, P!Pm!vars, Polls!Queue,
      P!Pm!Queue, Polls!None, P!Pm!None, Polls!sendmsg, P!Pm!sendmsg, Polls!helper1,
      P!Pm!helper1, Polls!Receive, P!Pm!Receive, Polls!Lock, P!Pm!Lock, Polls!WriteByte,
      P!Pm!WriteByte, Polls!WaitReady, P!Pm!WaitReady, Polls!Spurious, P!Pm!Spurious, Polls!poll,
      P!Pm!poll, Polls!Skip, P!Pm!Skip, Polls!ReadText, P!Pm!ReadText, Polls!Print1, P!Pm!Print1,
      Polls!Print2, P!Pm!Print2, Polls!SignalReady, P!Pm!SignalReady, Polls!Quiet, P!Pm!Quiet,
      Polls!Longest, P!Pm!Longest, Polls!NextQueue, P!Pm!NextQueue

\* Its promises by both names.
LEMMA PollSamePromises ==
  /\ Polls!TextInArray <=> P!Pm!TextInArray
  /\ Polls!HelperWoken <=> P!Pm!HelperWoken
BY DEF Polls!TextInArray, P!Pm!TextInArray, Polls!HelperWoken, P!Pm!HelperWoken, Polls!Queue,
      P!Pm!Queue

-----------------------------------------------------------------------------
\* The numbers of MCPrograms are such as the invariants ask for.
LEMMA SizesFit ==
  /\ P!SemSizes /\ P!ControlSizes /\ P!StreamSizes /\ P!WalkSizes
  /\ P!SubmitSizes /\ P!PollSizes /\ P!RuptimeSizes /\ P!TerminalSizes
<1>1. IsFiniteSet({p1, p2, p3}) /\ Cardinality({p1, p2, p3}) < 4
  <2>1. IsFiniteSet({p3}) /\ Cardinality({p3}) = 1
    BY FS_Singleton
  <2>2. IsFiniteSet({p2, p3}) /\ Cardinality({p2, p3}) <= 2
    <3>1. {p2, p3} = {p3} \union {p2}
      OBVIOUS
    <3> QED BY <2>1, <3>1, FS_AddElement
  <2>3. {p1, p2, p3} = {p2, p3} \union {p1}
    OBVIOUS
  <2>4. Cardinality({p2, p3}) \in Nat
    BY <2>2, FS_CardinalityType
  <2> QED BY <2>2, <2>3, <2>4, FS_AddElement
<1>2. P!SemSizes
  BY <1>1, SameCount DEF P!SemSizes
<1>3. P!StreamSizes
  BY DEF P!StreamSizes
<1>4. P!RuptimeSizes
  <2>1. {1, 2, 4} \in SUBSET Nat /\ P!Doubling({1, 2, 4})
    BY DEF P!Doubling
  <2> QED BY <2>1 DEF P!RuptimeSizes
<1> QED BY <1>2, <1>3, <1>4 DEF P!ControlSizes, P!WalkSizes, P!SubmitSizes, P!PollSizes, P!TerminalSizes

(***************************************************************************)
(* The invariant of the program that runs.                                 *)
(***************************************************************************)
ThemeInv ==
  /\ program = "msgs" => (Processor # {} => P!MsgInv)
  /\ program = "turns" => P!TurnInv
  /\ program = "slock" => P!SLockInv
  /\ program = "semaph" => P!SemInv
  /\ program = "daemon" => P!DaemonInv /\ P!FdsInv
  /\ program = "pty" => P!PtyInv
  /\ program = "terminal" => P!TerminalInv
  /\ program = "threadctl" => P!ControlInv
  /\ program = "stream" => P!StreamInv
  /\ program = "tree" => P!WalkInv
  /\ program = "signals" => S!SignalInv
  /\ program = "uptime" => P!RuptimeInv
  /\ program = "print" => P!SubmitInv
  /\ program = "pollmsg" => P!PollOrderInv

\* Only the program that runs takes steps.
LEMMA OnlyItsSteps ==
  ASSUME [ProgramNext]_allvars
  PROVE  /\ program' = program
         /\ program = "msgs" => [Msgs!MsgNext]_(Msgs!msgvars)
         /\ program = "turns" => [Turns!Next]_(Turns!vars)
         /\ program = "slock" => [NamedLock!Next]_(NamedLock!vars)
         /\ program = "semaph" => [Sems!SemNext]_(Sems!vars)
         /\ program = "daemon" => [Daemons!Next]_(Daemons!vars)
         /\ program = "pty" => [PtyRun!Next]_(PtyRun!vars)
         /\ program = "terminal" => [Modes!Next]_(Modes!vars)
         /\ program = "threadctl" => [Control!Next]_(Control!vars)
         /\ program = "stream" => [Stream!Next]_(Stream!vars)
         /\ program = "tree" => [Walk!Next]_(Walk!vars)
         /\ program = "signals" => [Sigs!Next]_(Sigs!vars)
         /\ program = "uptime" => [Uptime!Next]_(Uptime!vars)
         /\ program = "print" => [PrintCmd!Next]_(PrintCmd!vars)
         /\ program = "pollmsg" => [Polls!Next]_(Polls!vars)
<1>1. CASE UNCHANGED allvars
  BY <1>1 DEF allvars, pool, others, msgvars, rest1, rest9, rest11, rest12, rest13, rest14, rest15, rest16, rest17, rest18, rest21,
       Msgs!msgvars, Turns!vars, NamedLock!vars, Sems!vars, Daemons!vars, PtyRun!vars, Modes!vars, Control!vars, Stream!vars, Walk!vars, Walk!treevars, Walk!ftwvars, Walk!ttyvars, Sigs!vars, Uptime!vars, PrintCmd!vars, Polls!vars
<1>2. CASE ProgramNext
  BY <1>2 DEF ProgramNext, Runs, FooRuns, StatusRuns, JobsRun, MsgsRun, SortRuns, OpenRuns, PassfdRuns, SemaphRuns,
           TurnsRun, SlockRuns, SignalsRun, PopenRuns, DaemonRuns, PtyRuns, TerminalRuns,
           ThreadctlRuns, UptimeRuns, StreamRuns, PollmsgRuns, PrintRuns, CopyRuns, CountRuns,
           TreeRuns, FiltersRuns, DbopenRuns
<1> QED BY <1>1, <1>2

\* A program starts in its invariant.
LEMMA ThemeInit == ProgramInit => ThemeInv
<1>1. P!MsgInit => P!MsgInv
  BY DEF P!MsgInit, P!MsgInv, P!MsgWakeup
<1> QED BY <1>1, MsgSame, TurnSame, LockSame, SemSame, DaemonSame, PtySame, TerminalSame,
     ControlSame, StreamSame, WalkSame, SignalSame, RuptimeSame, SubmitSame, PollSame,
     P!TurnInit, P!SLockInit, P!SemInitial, P!DaemonInit, P!PtyInit, P!TerminalInit,
     P!ControlInit, P!StreamInit, P!WalkInit, S!SignalInit, P!RuptimeInit, P!SubmitInit,
     P!PollStarts, SizesFit
     DEF ProgramInit, ThemeInv

\* Every step keeps it.
LEMMA ThemeStep == ThemeInv /\ [ProgramNext]_allvars => ThemeInv'
<1> SUFFICES ASSUME ThemeInv, [ProgramNext]_allvars PROVE ThemeInv'
  OBVIOUS
<1>1. (program = "msgs" => (Processor # {} => P!MsgInv))'
  BY OnlyItsSteps, MsgSame, P!MsgStep DEF ThemeInv
<1>2. (program = "turns" => P!TurnInv)'
  BY OnlyItsSteps, TurnSame, P!TurnStep DEF ThemeInv
<1>3. (program = "slock" => P!SLockInv)'
  BY OnlyItsSteps, LockSame, P!SLockStep DEF ThemeInv
<1>4. (program = "semaph" => P!SemInv)'
  BY OnlyItsSteps, SemSame, P!SemStep, SizesFit DEF ThemeInv
<1>5. (program = "daemon" => P!DaemonInv /\ P!FdsInv)'
  BY OnlyItsSteps, DaemonSame, P!DaemonStep, P!FdsStep DEF ThemeInv
<1>6. (program = "pty" => P!PtyInv)'
  BY OnlyItsSteps, PtySame, P!PtyStep DEF ThemeInv
<1>7. (program = "terminal" => P!TerminalInv)'
  BY OnlyItsSteps, TerminalSame, P!TerminalStep, SizesFit DEF ThemeInv
<1>8. (program = "threadctl" => P!ControlInv)'
  BY OnlyItsSteps, ControlSame, P!ControlStep, SizesFit DEF ThemeInv
<1>9. (program = "stream" => P!StreamInv)'
  BY OnlyItsSteps, StreamSame, P!StreamStep, SizesFit DEF ThemeInv
<1>10. (program = "tree" => P!WalkInv)'
  BY OnlyItsSteps, WalkSame, P!WalkStep, SizesFit DEF ThemeInv
<1>11. (program = "signals" => S!SignalInv)'
  BY OnlyItsSteps, SignalSame, S!SignalStep DEF ThemeInv
<1>12. (program = "uptime" => P!RuptimeInv)'
  BY OnlyItsSteps, RuptimeSame, P!RuptimeStep, SizesFit DEF ThemeInv
<1>13. (program = "print" => P!SubmitInv)'
  BY OnlyItsSteps, SubmitSame, P!SubmitStep, SizesFit DEF ThemeInv
<1>14. (program = "pollmsg" => P!PollOrderInv)'
  BY OnlyItsSteps, PollSame, P!PollStep, SizesFit DEF ThemeInv
<1> QED BY <1>1, <1>2, <1>3, <1>4, <1>5, <1>6, <1>7, <1>8, <1>9, <1>10, <1>11, <1>12, <1>13,
     <1>14 DEF ThemeInv

(***************************************************************************)
(* What is to be used by one at a time is, in every program that           *)
(* MCPrograms names: see OneAtATime.                                       *)
(***************************************************************************)
THEOREM OneAtATimeTheorem == ProgramSpec => []OneAtATime
<1>1. ThemeInv => OneAtATime
  BY TurnSamePromises, P!TurnPromises, LockSamePromises, P!SLockPromises, SemSamePromises,
     P!SemaphPromises, DaemonSamePromises, P!DaemonPromises, ControlSamePromises,
     P!ControlPromises, SizesFit
     DEF ThemeInv, OneAtATime
<1> QED BY <1>1, ThemeInit, ThemeStep, PTL DEF ProgramSpec

(***************************************************************************)
(* A terminal is in the mode that the program thinks and as it was when    *)
(* the program ends, and a daemon has none, with the exceptions that the   *)
(* properties of the modules name: see TerminalRestored.                   *)
(***************************************************************************)
THEOREM TerminalRestoredTheorem == ProgramSpec => []TerminalRestored
<1>1. ThemeInv => TerminalRestored
  BY DaemonSamePromises, P!DaemonPromises, PtySamePromises, P!PtyPromises,
     TerminalSamePromises, P!TerminalPromises, SizesFit
     DEF ThemeInv, TerminalRestored
<1> QED BY <1>1, ThemeInit, ThemeStep, PTL DEF ProgramSpec

(***************************************************************************)
(* No array is overrun: see InBounds.                                      *)
(***************************************************************************)
THEOREM InBoundsTheorem == ProgramSpec => []InBounds
<1>1. ThemeInv => InBounds
  BY StreamSamePromises, P!StreamPromises, WalkSamePromises, P!WalkPromises,
     SubmitSamePromises, P!SubmitPromises, PollSamePromises, P!PollPromises, SizesFit
     DEF ThemeInv, InBounds
<1> QED BY <1>1, ThemeInit, ThemeStep, PTL DEF ProgramSpec

(***************************************************************************)
(* The functions of signals/ put back what they change, abort does not     *)
(* return, and handlers jump and stop only when they may: see              *)
(* SignalsHandled.                                                         *)
(***************************************************************************)
THEOREM SignalsHandledTheorem == ProgramSpec => []SignalsHandled
<1>1. ThemeInv => SignalsHandled
  BY SignalSamePromises, S!SignalPromises
     DEF ThemeInv, SignalsHandled
<1> QED BY <1>1, ThemeInit, ThemeStep, PTL DEF ProgramSpec

(***************************************************************************)
(* Who waits has something to come that wakes him, in every program that   *)
(* MCPrograms names: see SleepersWoken.                                    *)
(***************************************************************************)
THEOREM SleepersWokenTheorem == Processor # {} => (ProgramSpec => []SleepersWoken)
<1> SUFFICES ASSUME Processor # {} PROVE ProgramSpec => []SleepersWoken
  OBVIOUS
<1>1. ThemeInv => SleepersWoken
  BY MsgSamePromises, TurnSamePromises, P!TurnPromises, DaemonSamePromises, P!DaemonPromises,
     ControlSamePromises, P!ControlPromises, SignalSamePromises, S!SignalPromises,
     RuptimeSamePromises, P!RuptimePromises, PollSamePromises, P!PollPromises, SizesFit
     DEF ThemeInv, SleepersWoken, P!MsgInv
<1> QED BY <1>1, ThemeInit, ThemeStep, PTL DEF ProgramSpec

(***************************************************************************)
(* No step ends a daemon by SIGHUP when it may not, and no write leaves a  *)
(* memory stream that is only written without a null byte: see             *)
(* StepsAllowed.                                                           *)
(***************************************************************************)
THEOREM StepsAllowedTheorem == ProgramSpec => StepsAllowed
<1>1. ThemeInv /\ [ProgramNext]_allvars =>
        [/\ program = "daemon" => Daemons!HupStep
         /\ program = "stream" => Stream!TerminatedStep]_allvars
  <2> SUFFICES ASSUME ThemeInv, [ProgramNext]_allvars
               PROVE  /\ program = "daemon" => Daemons!HupStep
                      /\ program = "stream" => Stream!TerminatedStep
    OBVIOUS
  <2>1. program = "daemon" => Daemons!HupStep
    <3>1. program = "daemon" => P!Dm!HupStep
      BY OnlyItsSteps, DaemonSame, P!HupAllowed DEF ThemeInv
    <3> QED BY <3>1 DEF Daemons!HupStep, P!Dm!HupStep, Daemons!None, P!Dm!None
  <2>2. program = "stream" => Stream!TerminatedStep
    <3>1. program = "stream" => P!Ms!TerminatedStep
      BY OnlyItsSteps, StreamSame, SizesFit, P!TerminatedWrite DEF ThemeInv
    <3> QED BY <3>1 DEF Stream!TerminatedStep, P!Ms!TerminatedStep
  <2> QED BY <2>1, <2>2
<1> QED BY <1>1, ThemeInit, ThemeStep, PTL DEF ProgramSpec, StepsAllowed
=============================================================================
