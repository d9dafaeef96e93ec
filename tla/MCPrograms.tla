----------------------------- MODULE MCPrograms -----------------------------
(***************************************************************************)
(* Small instances of the programs that stand alone, side by side: the     *)
(* initial state says which of them runs, and the variables of the others  *)
(* never change.  The states are the sum of those of the programs.         *)
(*                                                                         *)
(* From the open server on, the programs take their variables from v1, v2, *)
(* ..., which are those of whichever of them runs; the ones that it has no *)
(* use for stay 0.  INSTANCE ... WITH says which variable is which.        *)
(***************************************************************************)
EXTENDS FooHash, JobQueue, PrinterStatus

CONSTANTS
  Msg, Processor,                    \* threads/condvar.c
  NTHR, TNUM, RAND_MAX, LONG_MAX,    \* threads/barrier.c
  t1, t2, t3, o1, o2, r1, r2, r3, a, b, j1, j2, j3, w1, w2, m1, m2, m3, p1, p2, p3

VARIABLES
  program,
  workq, tosignal, waiting, processed,
  nums, snums, input, at, idx, sidx,
  v1, v2, v3, v4, v5, v6, v7, v8, v9, v10, v11,
  v12, v13, v14, v15, v16, v17, v18, v19, v20, v21, v22

Msgs == INSTANCE MsgQueue
Sort == INSTANCE BarrierSort

\* Types for fmemopen: every one of at most two characters, and two of three.
StreamTypes ==
  {<<>>, <<"r", "b", "+">>, <<"a", "+", "r">>} \union
  UNION {[1..k -> {"r", "w", "a", "+", "b", "x"}] : k \in 1..2}
\* No name; names whose request fits a read, just fits, and is one or two bytes too long.
PassNames ==
  {[len |-> n, there |-> FALSE] : n \in {0, 5, 6}} \union {[len |-> n, there |-> TRUE] : n \in {1, 7}}
\* Both halves of the alphabet, both cases, and a character that is not a letter.
CopyText == [k \in 0..4 |-> <<110, 77, 10, 122, 97>>[k + 1]]

OpenServ == INSTANCE OpenServer WITH
  Client <- 1..3, NALLOC <- 1, MaxAsk <- 2, loop <- v1, pc <- v2, i <- v3,
  client <- v4, pollfd <- v5, numfd <- v6, allset <- v7, rset <- v8,
  maxfd <- v9, maxi <- v10, errmsg <- v11, fdof <- v12, backlog <- v13,
  inbox <- v14, outbox <- v15, st <- v16, asked <- v17, asks <- v18,
  odd <- v19, misled <- v20, packed <- v21, wronguid <- v22
Passing == INSTANCE PassFd WITH
  MAXLINE <- 8, Name <- PassNames, CL_OPEN <- 3, CantOpen <- 2, Usage <- 3,
  MaxAsk <- 2, pair <- v1, cpc <- v2, asked <- v3, pipe <- v4, spc <- v5,
  todo <- v6, errmsg <- v7, keeps <- v8, up <- v9, down <- v10, uid <- v11,
  odd <- v12, early <- v13, misled <- v14
Sems == INSTANCE Semaph WITH
  Proc <- {p1, p2, p3}, BIGCOUNT <- 4, initval <- 1, MaxOpen <- 4, gen <- v1,
  gens <- v2, val <- v3, adj <- v4, pc <- v5, id <- v6, via <- v7, opens <- v8
Turns == INSTANCE TellWait WITH
  NLOOPS <- 6, prog <- v1, how <- v2, at <- v3, sub <- v4, sigflag <- v5,
  blocked <- v6, pending <- v7, pipe <- v8, area <- v9, counter <- v10,
  held <- v11, bad <- v12, waits <- v13
NamedLock == INSTANCE SLock WITH
  Thread <- {1, 2}, MaxSem <- 3, MaxLives <- 2, names <- v1, value <- v2,
  cnt <- v3, n <- v4, st <- v5, sp <- v6, inside <- v7, lives <- v8
Sigs == INSTANCE Signals WITH
  MaxSent <- 3, prog <- v1, stack <- v2, st <- v3, mask <- v4, pend <- v5,
  disp <- v6, oldmask <- v7, oldact <- v8, timer <- v9, flag <- v10,
  env <- v11, child <- v12, status <- v13, stopped <- v14, misjump <- v15,
  sent <- v16, start <- v17
Pop == INSTANCE Popen WITH
  maxfd <- 6, MaxPopen <- 3, fds <- v1, childpid <- v2, pipes <- v3,
  kids <- v4, type <- v5, state <- v6, pc <- v7, wants <- v8, shut <- v9,
  lost <- v10
Daemons == INSTANCE Daemon WITH
  Copy <- {"d1", "d2"}, NOFILE <- 5, OPENMAX <- 4, MaxHup <- 2, kind <- v1,
  st <- v2, leader <- v3, tty <- v4, fds <- v5, hup <- v6, pend <- v7,
  lock <- v8, pidfile <- v9, killedby <- v10, conf <- v11, known <- v12,
  hups <- v13, rlim_max <- v14
PtyRun == INSTANCE Pty WITH
  PTYBUF <- 1, MaxData <- 2, opt <- v1, sp <- v2, sc <- v3, sg <- v4,
  sd <- v5, handler <- v6, sigcaught <- v7, raw <- v8, master <- v9,
  duplex <- v10, typed <- v11, eof <- v12, inq <- v13, made <- v14,
  outq <- v15, got <- v16, shown <- v17, how <- v18, stray <- v19,
  untold <- v20
Modes == INSTANCE Terminal WITH
  Both <- {"ECHO", "ICANON"}, RawOnly <- {"ISIG"}, Tty <- {"t1", "t2"},
  MAX_PASS_LEN <- 2, MaxCall <- 2, term <- v1, orig <- v2,
  save_termios <- v3, ttysavefd <- v4, ttystate <- v5, pc <- v6, fd <- v7,
  buf <- v8, typed <- v9, calls <- v10, ots <- v11, mask <- v12, pend <- v13,
  ended <- v14, harm <- v15
Control == INSTANCE ThreadCtl WITH
  SECTONSEC <- 3, MaxClock <- 7, buflen <- 3, prog <- v1, pc <- v2,
  owner <- v3, depth <- v4, clock <- v5, when <- v6, since <- v7, wait <- v8,
  ran <- v9, tip <- v10, quitflag <- v11, asleep <- v12, pend <- v13,
  quits <- v14, masked <- v15, copy <- v16, once <- v17, ask <- v18,
  buf <- v19, ret <- v20
Uptime == INSTANCE Ruptime WITH
  Client <- 1..2, MAXSLEEP <- 4, QLEN <- 1, Addrs <- 2, kind <- v1,
  reuse <- v2, srv <- v3, aip <- v4, open <- v5, backlog <- v6, cur <- v7,
  holders <- v8, hung <- v9, cst <- v10, numsec <- v11, slept <- v12,
  socks <- v13, alarm <- v14, early <- v15, reply <- v16
Stream == INSTANCE MemStream WITH
  Types <- StreamTypes, Data <- {<<1>>, <<2, 1>>}, rsize <- 3, type <- v1,
  flags <- v2, state <- v3, own <- v4, buf <- v5, vsize <- v6, curpos <- v7,
  wild <- v8, file <- v9, pos <- v10
Polls == INSTANCE PollMsg WITH
  NQ <- 2, MAXMSZ <- 3, MaxMsg <- 2, version <- v1, queue <- v2, sent <- v3,
  got <- v4, at <- v5, m <- v6, mutex <- v7, waits <- v8, sock <- v9,
  mpc <- v10, i <- v11, pfd <- v12, text <- v13, wild <- v14, spur <- v15
PrintCmd == INSTANCE Submit WITH
  HDR <- 2, RESP <- 2, IOBUFSZ <- 2, SOCKBUF <- 3, JOBNM_MAX <- 8,
  MaxFile <- 3, size <- v1, namelen <- v2, pc <- v3, nleft <- v4,
  fileleft <- v5, at <- v6, hleft <- v7, up <- v8, down <- v9, taken <- v10,
  got <- v11, stored <- v12, ok <- v13, quiet <- v14, stall <- v15
Copies == INSTANCE FileCopy WITH
  BSZ <- 2, NBUF <- 2, COPYINCR <- 3, MaxSize <- 5, Text <- CopyText,
  kind <- v1, size <- v2, st_size <- v3, out <- v4, off <- v5, op <- v6,
  last <- v7, busy <- v8, pos <- v9, n <- v10, i <- v11, numop <- v12,
  st <- v13
Counts == INSTANCE FooCount WITH
  Thread <- {t1, t2, t3}, Obj <- {o1, o2}, MaxRef <- 2, version <- v1,
  mem <- v2, count <- v3, fh <- v4, flock <- v5, refs <- v6, pc <- v7,
  fp <- v8
Walk == INSTANCE TreeWalk WITH
  MaxNode <- 4, NAME_MAX <- 2, PATH_MAX <- 5, prog <- v1, par <- v2,
  dirs <- v3, shut <- v4, gone <- v5, st <- v6, stack <- v7, path <- v8,
  slash <- v9, pathlen <- v10, start <- v11, visits <- v12, nfiles <- v13,
  ndir <- v14, list <- v15, tail <- v16, todo <- v17, ddp <- v18, dev <- v19,
  calls <- v20, found <- v21, lost <- v22
Filt == INSTANCE Filters WITH
  PIPEBUF <- 1, STDIOBUF <- 2, MaxLine <- 3, prog <- v1, left <- v2, pp <- v3,
  cp <- v4, down <- v5, up <- v6, downw <- v7, upw <- v8, downr <- v9,
  cur <- v10, obuf <- v11, printed <- v12
DbOpens == INSTANCE DbOpen WITH
  Proc <- 1..3, creates <- v1, st <- v2, fds <- v3, there <- v4, table <- v5,
  recs <- v6, chain <- v7, dat <- v8, old <- v9, lock <- v10, harm <- v11
-----------------------------------------------------------------------------
statusvars == vars
msgvars == <<workq, tosignal, waiting, processed>>
sortvars == <<nums, snums, input, at, idx, sidx>>
others == <<foovars, statusvars, jobvars, msgvars, sortvars>>

\* The variables from v9 on, from v11 on, ...: those that a program has no use for.
rest21 == <<v21, v22>>
Zero21 == v21 = 0 /\ v22 = 0
rest18 == <<v18, v19, v20, rest21>>
Zero18 == v18 = 0 /\ v19 = 0 /\ v20 = 0 /\ Zero21
rest17 == <<v17, rest18>>
Zero17 == v17 = 0 /\ Zero18
rest16 == <<v16, rest17>>
Zero16 == v16 = 0 /\ Zero17
rest15 == <<v15, rest16>>
Zero15 == v15 = 0 /\ Zero16
rest14 == <<v14, rest15>>
Zero14 == v14 = 0 /\ Zero15
rest13 == <<v13, rest14>>
Zero13 == v13 = 0 /\ Zero14
rest12 == <<v12, rest13>>
Zero12 == v12 = 0 /\ Zero13
rest11 == <<v11, rest12>>
Zero11 == v11 = 0 /\ Zero12
rest9 == <<v9, v10, rest11>>
Zero9 == v9 = 0 /\ v10 = 0 /\ Zero11
rest1 == <<v1, v2, v3, v4, v5, v6, v7, v8, rest9>>
Zero1 == v1 = 0 /\ v2 = 0 /\ v3 = 0 /\ v4 = 0 /\ v5 = 0 /\ v6 = 0 /\ v7 = 0 /\ v8 = 0 /\ Zero9
pool == rest1
allvars == <<program, others, pool>>

\* The inputs of a program that does not run are of no interest.
ProgramInit ==
  /\ \/ program \in {"foo", "jobs", "msgs", "sort", "status"} /\ Zero1
     \/ /\ program = "open" /\ OpenServ!Init
        /\ \/ v16 = <<"new", "new", "new">> /\ v18 = 2
           \/ v16 = <<"new", "new", "gone">> /\ v18 = 0
     \/ program = "passfd" /\ Passing!Init /\ Zero15
     \/ program = "semaph" /\ Sems!SemInit /\ Zero9
     \/ program = "turns" /\ Turns!Init /\ Zero14
     \/ program = "slock" /\ NamedLock!Init /\ Zero9
     \/ program = "signals" /\ Sigs!Init /\ Zero18
     \/ program = "popen" /\ Pop!Init /\ Zero11
     \/ program = "daemon" /\ Daemons!Init /\ Zero15
     \/ program = "pty" /\ PtyRun!Init /\ Zero21
     \/ program = "terminal" /\ Modes!Init /\ Zero16
     \/ program = "threadctl" /\ Control!Init /\ Zero21
     \/ program = "uptime" /\ Uptime!Init /\ Zero17
     \/ program = "stream" /\ Stream!Init /\ Zero11
     \/ program = "pollmsg" /\ Polls!Init /\ Zero16
     \/ program = "print" /\ PrintCmd!Init /\ Zero16
     \/ program = "copy" /\ Copies!Init /\ Zero14
     \/ program = "count" /\ Counts!Init /\ Zero9
     \/ program = "tree" /\ Walk!Init
     \/ program = "filters" /\ Filt!Init /\ Zero13
     \/ program = "dbopen" /\ DbOpens!Init /\ Zero12
  /\ FooInit /\ JobInit /\ Msgs!MsgInit
  /\ Sort!SortInit
  /\ program # "sort" => \A k \in DOMAIN nums : nums[k] = 0
  /\ Init
  /\ program # "status" => answer = (CHOOSE x \in Answers : TRUE) /\ ~split

Runs(name) == program = name /\ UNCHANGED program

FooRuns ==
  Runs("foo") /\ FooNext /\ UNCHANGED <<statusvars, jobvars, msgvars, sortvars, pool>>
StatusRuns ==
  Runs("status") /\ Next /\ UNCHANGED <<foovars, jobvars, msgvars, sortvars, pool>>
JobsRun ==
  Runs("jobs") /\ JobNext /\ UNCHANGED <<foovars, statusvars, msgvars, sortvars, pool>>
MsgsRun ==
  Runs("msgs") /\ Msgs!MsgNext /\ UNCHANGED <<foovars, statusvars, jobvars, sortvars, pool>>
SortRuns ==
  Runs("sort") /\ Sort!SortNext /\ UNCHANGED <<foovars, statusvars, jobvars, msgvars, pool>>

OpenRuns ==
  Runs("open") /\ OpenServ!Next /\ UNCHANGED <<others>>
PassfdRuns ==
  Runs("passfd") /\ Passing!Next /\ UNCHANGED <<others, rest15>>
SemaphRuns ==
  Runs("semaph") /\ Sems!SemNext /\ UNCHANGED <<others, rest9>>
TurnsRun ==
  Runs("turns") /\ Turns!Next /\ UNCHANGED <<others, rest14>>
SlockRuns ==
  Runs("slock") /\ NamedLock!Next /\ UNCHANGED <<others, rest9>>
SignalsRun ==
  Runs("signals") /\ Sigs!Next /\ UNCHANGED <<others, rest18>>
PopenRuns ==
  Runs("popen") /\ Pop!Next /\ UNCHANGED <<others, rest11>>
DaemonRuns ==
  Runs("daemon") /\ Daemons!Next /\ UNCHANGED <<others, rest15>>
PtyRuns ==
  Runs("pty") /\ PtyRun!Next /\ UNCHANGED <<others, rest21>>
TerminalRuns ==
  Runs("terminal") /\ Modes!Next /\ UNCHANGED <<others, rest16>>
ThreadctlRuns ==
  Runs("threadctl") /\ Control!Next /\ UNCHANGED <<others, rest21>>
UptimeRuns ==
  Runs("uptime") /\ Uptime!Next /\ UNCHANGED <<others, rest17>>
StreamRuns ==
  Runs("stream") /\ Stream!Next /\ UNCHANGED <<others, rest11>>
PollmsgRuns ==
  Runs("pollmsg") /\ Polls!Next /\ UNCHANGED <<others, rest16>>
PrintRuns ==
  Runs("print") /\ PrintCmd!Next /\ UNCHANGED <<others, rest16>>
CopyRuns ==
  Runs("copy") /\ Copies!Next /\ UNCHANGED <<others, rest14>>
CountRuns ==
  Runs("count") /\ Counts!Next /\ UNCHANGED <<others, rest9>>
TreeRuns ==
  Runs("tree") /\ Walk!Next /\ UNCHANGED <<others>>
FiltersRuns ==
  Runs("filters") /\ Filt!Next /\ UNCHANGED <<others, rest13>>
DbopenRuns ==
  Runs("dbopen") /\ DbOpens!Next /\ UNCHANGED <<others, rest12>>

ProgramNext ==
  \/ FooRuns \/ StatusRuns \/ JobsRun \/ MsgsRun \/ SortRuns
  \/ OpenRuns \/ PassfdRuns \/ SemaphRuns \/ TurnsRun \/ SlockRuns
  \/ SignalsRun \/ PopenRuns \/ DaemonRuns \/ PtyRuns \/ TerminalRuns
  \/ ThreadctlRuns \/ UptimeRuns \/ StreamRuns \/ PollmsgRuns \/ PrintRuns
  \/ CopyRuns \/ CountRuns \/ TreeRuns \/ FiltersRuns \/ DbopenRuns

(***************************************************************************)
(* The thread of printer_status is scheduled; so is each thread of         *)
(* threads/condvar.c that does not sleep, and a sender between unlock and  *)
(* signal.                                                                 *)
(***************************************************************************)
ProgramSpec ==
  /\ ProgramInit /\ [][ProgramNext]_allvars
  /\ WF_statusvars(program = "status" /\ Step)
  /\ \A m \in Msg : WF_msgvars(program = "msgs" /\ Msgs!Signal(m))
  /\ \A p \in Processor :
       WF_msgvars(program = "msgs" /\ (Msgs!ProcessMsg(p) \/ Msgs!CondWait(p)))
-----------------------------------------------------------------------------
(***************************************************************************)
(* printer_status returns for an answer whose pieces are those of Answers: *)
(* every search moves on, and a read without an answer times out.          *)
(***************************************************************************)
ReturnsWhole == program = "status" /\ ~split ~> pc = "done"

\* threads/condvar.c: see MsgQueue.
MsgProcessed == Msgs!MsgProcessed

(***************************************************************************)
(* No thread or process sleeps for something that has passed, whenever a   *)
(* signal, a message or a configuration comes between its test and its     *)
(* wait (condvar.c, TELL_WAIT, sleep, sigsuspend, suspend.c, pollmsg2.c,   *)
(* ruptime-dg.c, reread.c).  The properties of the modules except the      *)
(* waits that the code leaves open: the second WAIT_x with signals, an     *)
(* alarm that rings before the call that it is for.                        *)
(***************************************************************************)
SleepersWoken ==
  /\ program = "msgs" => Msgs!MsgWakeup
  /\ program = "turns" => Turns!ToldWakes
  /\ program = "signals" => Sigs!WakesUp
  /\ program = "threadctl" => Control!QuitWakes
  /\ program = "pollmsg" => Polls!HelperWoken
  /\ program = "uptime" => Uptime!AlarmCovers
  /\ program = "daemon" => Daemons!ConfigSeen

(***************************************************************************)
(* What is to be used by one at a time is: turns, semaphores and locks     *)
(* made of them, the daemon's lock file, and the mutexes around fork and   *)
(* around a function that takes its caller's; and a lock has a holder that *)
(* can release it.                                                         *)
(***************************************************************************)
OneAtATime ==
  /\ program = "turns" => Turns!TakeTurns
  /\ program = "slock" => NamedLock!OwnSemaphore
  /\ program = "slock" => NamedLock!LockExact
  /\ program = "semaph" => Sems!OneInside
  /\ program = "semaph" => Sems!LockHasHolder
  /\ program = "daemon" => Daemons!OneDaemon
  /\ program = "daemon" => Daemons!PidInFile
  /\ program = "threadctl" => Control!ChildLocksFree
  /\ program = "threadctl" => Control!NoSelfWait

(***************************************************************************)
(* Nobody waits for an answer or an end of file that cannot come: over     *)
(* pipes between parent and child, in pclose, at a pseudo terminal, at a   *)
(* socket of the uptime service, and in both open servers.  Where the code *)
(* lets it happen the property of the module says so: the two processes of *)
(* pty wait for good when SIGTERM comes between two reads, and when the    *)
(* child ends by an error it does not tell of; a coprocess with a full     *)
(* buffer of its own waits for the program that waits for it.              *)
(***************************************************************************)
NobodyStuck ==
  /\ program = "turns" => Turns!PipesFinish
  /\ program = "open" => OpenServ!NeverBlocks
  /\ program = "popen" => Pop!PcloseReturns
  /\ program = "pty" => PtyRun!EndsBoth
  /\ program = "pty" => PtyRun!HangsUp
  /\ program = "pty" => PtyRun!ParentTold
  /\ program = "pty" => PtyRun!DriverEndSeen
  /\ program = "uptime" => Uptime!ConnectionEnds
  /\ program = "filters" => Filt!NoMutualWait
  /\ program = "filters" => Filt!EndSeen
  /\ program = "filters" => Filt!PromptAnswered
  /\ program = "passfd" => Passing!AnswerComes
  /\ program = "passfd" => Passing!ServerLeaves

(***************************************************************************)
(* Answers, descriptors, process IDs, statuses and buffers are those of    *)
(* the one who asked, though others come and go and their numbers are used *)
(* again.  The properties of the modules except requests that a read cuts  *)
(* in two, answers left half read, the uids of loop.poll.c after an entry  *)
(* has moved, and what popen does with descriptors 0 and 1 closed.         *)
(***************************************************************************)
RightPeer ==
  /\ program = "open" => OpenServ!OwnAnswer
  /\ program = "open" => OpenServ!TablesMatch
  /\ program = "open" => OpenServ!UidOfClient
  /\ program = "popen" => Pop!PidOfStream
  /\ program = "popen" => Pop!Connected
  /\ program = "popen" => Pop!NoLeak
  /\ program = "threadctl" => Control!OwnBuffer
  /\ program = "passfd" => Passing!FdAnswer

(***************************************************************************)
(* Data arrives whole and in order, however it is cut, buffered, completed *)
(* or retried on its way: sorted parts, output of a program on a pseudo    *)
(* terminal, a memory stream, messages, answers with a descriptor,         *)
(* documents, copies, and the records of a database that several processes *)
(* create at once.  Where it may be lost the property says so: a copy      *)
(* that ends with a failed read, an answer that a silence cut off, and a   *)
(* database that a process truncates again.                                *)
(***************************************************************************)
DataWhole ==
  /\ program = "sort" => Sort!SortedInput
  /\ program = "pty" => PtyRun!OutputWhole
  /\ program = "stream" => Stream!StreamIsFile
  /\ program = "stream" => Stream!TypeParsed
  /\ program = "pollmsg" => Polls!PrintedInOrder
  /\ program = "print" => PrintCmd!HeaderApart
  /\ program = "print" => PrintCmd!AckedWhole
  /\ program = "copy" => Copies!CopyWhole
  /\ program = "copy" => Copies!NoHole
  /\ program = "dbopen" => DbOpens!OpenedReady
  /\ program = "dbopen" => DbOpens!RecordsKept
  /\ program = "passfd" => Passing!WholeAnswer

(***************************************************************************)
(* Nothing is written outside an array at the greatest length, with its    *)
(* null byte: a full memory stream, a path that grows, a job name, a       *)
(* message.                                                                *)
(***************************************************************************)
InBounds ==
  /\ program = "stream" => Stream!InBuffer
  /\ program = "tree" => Walk!PathFits
  /\ program = "print" => PrintCmd!NameFits
  /\ program = "pollmsg" => Polls!TextInArray

(***************************************************************************)
(* Functions that change handlers and masks put them back and get their    *)
(* own child's status; abort ends the process; no handler jumps too early  *)
(* or goes on before it has stopped the process.                           *)
(***************************************************************************)
SignalsHandled ==
  /\ program = "signals" => Sigs!Restored
  /\ program = "signals" => Sigs!AbortEnds
  /\ program = "signals" => Sigs!StatusOurs
  /\ program = "signals" => Sigs!JumpReady
  /\ program = "signals" => Sigs!StopsFirst

(***************************************************************************)
(* A terminal is in the mode that the program thinks, never half in it,    *)
(* and as it was when the program ends; a daemon has none.  The properties *)
(* except what the code does not look after: a restoring call that changed *)
(* a part only, a signal between tcsetattr and ttystate, and descriptors   *)
(* of a daemon's caller beyond those that daemonize closes.                *)
(***************************************************************************)
TerminalRestored ==
  /\ program = "terminal" => Modes!ModeKnown
  /\ program = "terminal" => Modes!NoHalfMode
  /\ program = "terminal" => Modes!EchoBack
  /\ program = "pty" => PtyRun!TtyRestored
  /\ program = "daemon" => Daemons!NoTerminal

(***************************************************************************)
(* What is counted, visited, tried or run is so exactly as often as it     *)
(* should: users of a semaphore, references, files of a tree, searched     *)
(* directories, tries of a connection, a function run later.               *)
(***************************************************************************)
CountsRight ==
  /\ program = "semaph" => Sems!CreatorKeeps
  /\ program = "semaph" => Sems!CountsUsers
  /\ program = "count" => Counts!CountsRefs
  /\ program = "count" => Counts!UsedReady
  /\ program = "tree" => Walk!PathRight
  /\ program = "tree" => Walk!CountedOnce
  /\ program = "tree" => Walk!SearchedOnce
  /\ program = "tree" => Walk!TtyFound
  /\ program = "threadctl" => Control!RunsOnTime
  /\ program = "uptime" => Uptime!OneListener
  /\ program = "uptime" => Uptime!RetryClean
  /\ program = "uptime" => Uptime!RetryWaits

(***************************************************************************)
(* No step ends a daemon by SIGHUP once it is ignored or handled, and no   *)
(* write to a memory stream that is only written leaves it without a null  *)
(* byte.                                                                   *)
(***************************************************************************)
StepsAllowed ==
  [][/\ program = "daemon" => Daemons!HupStep
     /\ program = "stream" => Stream!TerminatedStep]_allvars
=============================================================================
