# TLA+ models of the APUE programs

The repository holds the programs of *Advanced Programming in the UNIX
Environment*, third edition (`src/original-src/apue.3e`) and one reader's own
versions of them (`src/my-src`). Two of them are systems in their own right: the
database library of chapter 20 and the print spooler of chapter 21. The others are
small programs, each about one coordination problem between processes, threads or
signals. The models below follow the C sources statement by statement where state
shared by two actors is read or written, and abstract the data.

`PROJECT.json` maps every definition that models code to its lines.

## 1. Inventory

### Database library (`apue.3e/db`)

* **State.** An index file (a free list pointer, a hash table of chain pointers,
  index records linked into chains), a data file, `fcntl` record locks on byte
  ranges of both, and one `DB` handle per process.
* **Operations.** `db_open`, `db_close`, `db_fetch`, `db_store` (insert, replace,
  store), `db_delete`, `db_rewind`, `db_nextrec`.
* **Interaction.** Processes share nothing but the files and the kernel's locks.
* **What is hard.** Locks are taken per chain, and the free list and both ends of
  file are shared by all chains, so a call of one process runs between any two file
  accesses of another. Lists are relinked by several writes. `db_nextrec` takes no
  chain lock. A process may die anywhere.
* **Correct means.** Calls are atomic operations on one map; the lists are disjoint,
  complete and acyclic at each instant; a reused record has the size of the request;
  appends do not overwrite each other; every call returns; a death damages as little
  as it can.

### Print spooler (`apue.3e/printer`)

* **State.** In memory: the job list, the next job number, the configuration, the
  `reread` flag, the list of worker threads. On disk: a data and a control file per
  job, the job number file, the configuration file.
* **Operations.** `main` accepts connections, `client_thread` stores a job,
  `printer_thread` sends jobs, `signal_thread` handles SIGHUP and SIGTERM,
  `build_qonstart` recovers the jobs of an earlier run.
* **Interaction.** `joblock`/`jobwait`, `configlock`, `workerlock`, the spool
  directory, sockets to clients and to the printer.
* **What is hard.** Deaths between two file operations; job numbers handed out by
  client threads and saved by the printer thread; wake-ups; configuration changed
  during a lookup; answers of the printer cut into reads at any byte.
* **Correct means.** An accepted job is printed, its own document, once unless the
  printer's answer was lost; no wake-up and no change of configuration is missed;
  SIGTERM cancels every worker; `printer_status` returns the printer's verdict.

### The small programs

| part | state | hard behaviour | correct means |
|---|---|---|---|
| reference-counted objects (`threads/mutex1-3.c`) | count, hash chain, two locks | last release against a find | no use after free, count exact, no deadlock |
| rwlock job queue (`threads/rwlock.c`) | doubly linked list | removal while others search | list well linked, a job is run by its thread once |
| condition variable queue (`threads/condvar.c`) | list | lost wake-up | every message processed |
| barrier sort (`threads/barrier.c`) | array | merge before the workers end | merged array is the sorted input |
| `timeout`, `getenv_r`, `suspend`, `atfork` (`threadctl`) | timer, buffers, locks | fork with locks held, a function retried under its caller's lock | runs once and not early; child finds locks free |
| System V semaphore (`lib/semaph.c`), `slock` (`ipc1/slock.c`) | semaphore set with a user count; named semaphore | exit at any point, removal against a create, name reuse | one process inside, count of users exact |
| TELL_WAIT (`lib/tellwait.c`, `ipc1/tellwait.c`) and its callers | two pipes or a signal flag | signal before the wait | strict alternation |
| signal examples, `sleep`, `system`, `abort` (`signals`, `lib`) | mask, handlers, alarm | a signal between two calls, `longjmp` from a handler | no wait for what has passed, mask restored |
| `popen`/`pclose` (`lib/popen.c`) | table of pids, descriptors | inherited descriptors | end of file reaches the right child |
| daemons (`lib/daemonize.c`, `daemons`) | lock file, mask | two starts at once, SIGHUP while starting | one instance, last configuration read |
| open server (`ipc2/open*`, `lib/recvfd.c`, `sendfd.c`) | client table, poll or select sets | client lost between requests | the right client gets the right descriptor |
| pseudo terminal (`pty`, `lib/ptyfork.c`) | two copying processes | either ends first | both end, output whole, terminal restored |
| terminal modes, `getpass` (`lib/ttymodes.c`, `termios`) | saved settings, mode | settings changed in part, a signal | terminal as it was |
| uptime service (`sockets`) | connections, alarm, retries | lost datagram, failed exec | connections end, retries end |
| print command and timed reads (`printer/print.c`, `util.c`, `lib/readn.c`) | a stream in pieces | short transfers, stall, death | the header apart from the file, the file whole |
| message queues and poll (`ipc2/pollmsg.c`, `exercises/pollmsg2.c`) | queue, socket, condition | helper and main share memory | every message printed once |
| memory stream (`exercises/fmemopen.c`) | buffer, position, sizes | append, seek and a full buffer | it is a file |
| copies (`advio`) | buffers in flight | completion in any order, input shortened | copy whole, no hole |
| tree walks (`filedir/ftw8.c`, `termios/ttyname.c`) | path buffer, list of directories | a directory that cannot be read, a file that goes | each file once, path fits |
| filters (`ipc1/pipe2.c`, `pipe4.c`, `popen1.c`) | pipes, buffers | full buffering, ends left open | nobody waits for ever |

Output-only parts (error routines, standards tables, single-call demonstrations)
keep no state and are not modelled.

## 2. Plan

1. Database (`ApueDb`, `KVStore`, proofs). *Done, see below.*
2. Print spooler (`Printd`, `Workers`, `PrinterStatus`, proofs). *Done, see below.*
3. Threads: reference-counted objects with proofs, rwlock job queue, condition
   variable queue, barrier sort, thread control. *Done.*
4. Processes and signals: TELL_WAIT, `popen`/`pclose`, `system`, `sleep`, `abort`,
   daemons, semaphores, terminals, pipes. *Done.*
5. Sockets and descriptor passing: open server, `readn`/`writen`, print command, uptime
   service, pseudo terminal, message queues; `db_open`'s initialisation race. *Done.*
6. Proofs: the database with its refinement of `KVStore`, the spooler and its answers, the
   threads, and all of the small programs that have an inductive invariant within the
   prover's reach (section 6 says which). *Done.*
7. Left: invariants of `Popen`, `OpenServer`, `PassFd`, `BarrierSort` and `Workers`, and
   what `CountsRight`, `DataWhole`, `NobodyStuck` and `RightPeer` say beyond the theorems of
   their programs; torn writes of the database.

Small programs join `MCPrograms`, one module each.

## 3. Modules

### Database

| module | content |
|---|---|
| `KVStore` | what the library promises: a map from keys to data on which calls take effect at one instant between invocation and return; a scan reports only what was stored while it ran |
| `ApueDb` | the library, one action per lock request or file access |
| `ApueDbInv` | invariants, and the inductive invariant of the proofs |
| `ApueDbRefine` | list properties that walk the lists, and the refinement mapping to `KVStore` |
| `ApueDbProofs` | control half of the inductive invariant, mutual exclusion; file half: types, appends, pointers, the sizes of records |
| `ApueDbListProofs` | list half: shape of the chains and of the free list, walks along them |
| `ApueDbRefineProofs` | what a search knows of its chain, one record per key; every step is a step of `KVStore` or a stutter |
| `DbOpen` | `db_open` by several processes, with and without `O_CREAT` and `O_TRUNC`, and one store by each |
| `MCApueDb` | instances |

Offsets are abstracted to the order of things in the index file: 0 is the free list
pointer, `1..NHash` the hash table, later offsets one record each. `ptr[o]` is the
pointer field at `o`, `rec[o]` the rest of the record. The control points of a
process (`pc`) are named after the phase of the call: `d_` delete, `f_` search of
the free list (`_db_findfree`), `a_` append, `r_` reuse, `o_` overwrite, `n_` scan.
`db` is the handle with the locals. Lengths are kept (`KeyLen`, `DatLen`), since
`_db_findfree` compares them and a pointer field has a maximum (`PTR_MAX`).

The handle's `fpos` is the kernel's offset of the index file. `db_nextrec` relies on
it, so it is part of the model; after an access that leaves it inside the hash table
or inside a record it is 0, and a scan from there reads no record and aborts.

Abstractions: one `writev` of a record is atomic with respect to one `readv`; the
counters and buffers of the handle are left out; opening is the initial state.

`DbOpen` has that opening: both files are emptied before the lock is taken under which
the size is tested and the table written. A file here is what it starts with (nothing,
the table, or something else), the records in it and those on the one chain. The store
that follows is there to show what a second table, or an emptied file, does to it.

### Print spooler

| module | content |
|---|---|
| `Printd` | the threads of the daemon, its disk, its deaths and restarts |
| `PrintdInv` | properties, and the inductive invariants |
| `SpoolInv` | the inductive invariant of jobs, numbers and files, across deaths |
| `SpoolProofs` | its proof, the six properties that follow, and those of `NoLostWakeup` and `HupNotLost` |
| `Workers` | the doubly linked list of client threads, pointer by pointer |
| `PrinterStatus` | the parser of the printer's answer over tokens, with short reads; proved about in `ThreadProofs` |
| `PrinterAnswers` | the tokens of an answer, and the answers the runs use |
| `MCPrintd`, `MCWorkers` | instances |

A client submits one job and stands for its document. A critical section on
`joblock` or `configlock` is one step, and so is one call on one file, so the daemon
can die between any two of them. `build_qonstart` may fail in each of its calls: a control file
whose read fails is unlinked with its data file (`unread`), one that cannot be opened, and
all that are left when the directory cannot be, are passed over until the next start
(`cancelled`). `Kill` also stands for the paths that end the
process (`exit(1)`, `log_sys`). Once job numbers wrap, the number file is garbled;
a comment in the source says that this is not handled, and no run restarts after it.

`Workers` follows the pointers of `add_worker`, `client_cleanup` and `kill_workers`
until the head of the list dangles (a freed structure at the head), where the
behaviour is undefined. In `PrinterStatus` the status line and the word
`Content-Length` arrive whole, every other boundary can be cut; bytes beyond the
data match nothing.

### Threads

| module | content |
|---|---|
| `FooHash` | `threads/mutex2.c`: objects, their counts, `hashlock` and one `f_lock` each |
| `FooCount` | `threads/mutex1.c` and `mutex3.c`, the versions with one lock for the count |
| `JobQueue` | `threads/rwlock.c`: the doubly linked list, pointer by pointer |
| `MsgQueue` | `threads/condvar.c`: the queue, the sleepers, signals not sent yet |
| `BarrierSort` | `threads/barrier.c`: parts, barrier, merge |
| `ThreadProofs` | the invariants of `FooHash`, `JobQueue` and `PrinterStatus`, and their seven consequences |
| `ThreadCtl` | `threadctl`: `timeout`, the fork handlers, the signal thread, three versions of `getenv` |

These files define functions and no `main` (but for the barrier sort); the models let
the threads call them in every order that keeps the rules the functions imply: a
pointer is used until it is released, a job is removed by the worker that found it.
In `FooHash` such a pointer is a token of `Ref` with an owner and a target, so that
the number of references is something other than the count; a critical section in
which no other lock is asked for is one step. One hash chain is modelled.

### Processes, signals, terminals

| module | content |
|---|---|
| `Signals` | the functions and programs of `signals/`, each a sequence of the system calls it makes; handlers run on a stack of frames over what they interrupt |
| `TellWait` | TELL_WAIT with signals and with pipes, under the programs that use it |
| `Semaph` | `lib/semaph.c`: a set of three System V semaphores, with `SEM_UNDO` on exit |
| `SLock` | `ipc1/slock.c`: names, exclusive creation, unlinking, process IDs used again |
| `Popen` | `lib/popen.c`: descriptors of the parent and of every child |
| `Filters` | `pipe4.c` with `add2.c` and `add2stdio.c`, `pipe2.c`, `popen1.c` with `myuclc.c`: who has which end open, what is in which buffer |
| `Daemon` | `daemonize`, `already_running`, both ways of reading the configuration again |
| `Terminal` | `ttymodes.c` and `getpass.c`: settings that `tcsetattr` may make in part |
| `Pty` | `pty/main.c`, `loop.c`, `driver.c`, `pty_fork`: two copying processes, a program, a driver |
| `TreeWalk` | `ftw8.c` with `path_alloc`, and `ttyname.c`, while files are removed |

### Servers, streams and copies

| module | content |
|---|---|
| `OpenServer` | `ipc2/opend` with both loops, its clients, descriptor passing |
| `PassFd` | `ipc2/open.fe` and `opend.fe`, the server that its client starts; `recvfd2.c` and `sendfd2.c`: the descriptor protocol, byte by byte |
| `Ruptime` | the three uptime servers, `initserver`, `connect_retry`, both clients |
| `Submit` | the print command and the thread that receives: `writen`, `treadn`, `tread`, `readn` |
| `PollMsg` | `pollmsg.c`, `pollmsg2.c`, `sendmsg.c` |
| `MemStream` | `fmemopen.c`, run beside the file it stands for |
| `FileCopy` | `rot13a.c`, `rot13c2.c.in`, `mcopy2.c` |

Each module begins with what it models. A module holds the variants of one problem (two
loops of the server, two kinds of TELL_WAIT, three copies): a variable that never
changes says which one runs. System calls act as the kernel's description says where
the code relies on it (which descriptor is the lowest, what `SEM_UNDO` takes back, what
`O_EXCL` refuses, when a write raises SIGPIPE); such definitions are marked external in
the map. Data is cut down to what the code tells apart: a chunk, a line, a length, a
setting.

In `Terminal` a `tcsetattr` that puts settings back may do so in part, and where the code
does not look at its result, not at all; changing a terminal and noting it in `ttystate`
are separate steps, and `sig_catch` of `t_raw.c` may come between them. The two assignments
that follow each other (`ttystate` and `ttysavefd`), and `tty_reset`'s call with its
assignment, are one step. `Daemon` has the caller's descriptors in two kinds, those that
the loop of `daemonize` reaches and those beyond it.

Several of the programs are in the book *because* they are wrong (`sleep1.c`,
`read1.c`, `getenv1.c`, `add2stdio.c`), and others have windows that they leave open.
The modules have that behaviour, and a property that it would break names it as its
exception, so that the property is exactly as wide as the code makes it. Section 5 lists
the windows.

### `MCPrograms`

The initial state of `MCPrograms` picks the program that runs, and the variables of the
others never change, so its states are the sum, not the product, of those of the
programs. The modules of the first sections declare their own variables; the others are
instantiated over one pool `v1, v2, ...`: `INSTANCE ... WITH` says which variable
of the pool is which of the module's, the initial condition sets the ones that a program
has no use for to 0, and its step leaves them so (`rest9`, `Zero9`, ...: from `v9` on).
Each property is that of the instance, under the condition that its program runs; section
4 says how they are grouped.

## 4. Runs

| run | instance | shows |
|---|---|---|
| `db_chain` | 2 processes, 1 chain, 2 keys, 2 data, 4 calls of every kind | `AtomicMap` (refinement of `KVStore`, scans included), `ListShape`, `TypeOK` |
| `db_reuse` | 2 chains, two key lengths, 5 calls | `AllReachable`, `SlotsKeepSize`, `AppendAtEnd`: the free list and the ends of file are shared safely |
| `db_limit` | `PTR_MAX` = 2, invalid flags and lengths, weak fairness per process | `PointersFit`, `AtomicMap` at the end of the address space; `EveryCallReturns` |
| `db_crash` | one process may die | `CrashSafe`: only a death inside `_db_dodelete`'s three writes damages a list; `MutualExclusion` |
| `db_rewind` | *violation* | `NextrecNeverAborts` fails after a keyed call |
| `printd_crash` | 2 clients, 2 deaths, 2 failures (of the printer, a transfer, or a call of `build_qonstart`) | `Durable`, `Tracked`, `QueuedOnce`, `PrintedOnce` |
| `printd_queue` | 2 clients, job number wraps, 2 changes of configuration | `NoLostWakeup`, `OwnData`, `HupNotLost`, `TypeOK` |
| `printd_live` | 2 clients, 1 death, 1 failure, weak fairness per thread | `AcceptedPrinted` |
| `printd_forget` | *violation* | `NoJobLost`: a number handed out again |
| `workers_kill` | *violation*, two client threads at a time | `KillsEveryWorker` |
| `programs` | reference-counted objects: 3 threads, 2 objects, 3 references | `NoUseAfterFree`, `CountExact`, `FoundIsReady`, `NoLockCycle` |
| | `FooCount`: 3 threads, 2 objects, 2 references each | `CountsRefs`, `UsedReady` |
| | job queue: 3 jobs, 2 workers | `WellLinked`, `FoundStillQueued` |
| | message queue: 3 messages, 2 threads | `MsgWakeup`, `MsgProcessed` |
| | barrier sort: 3 threads, 2 of the numbers 0..2 each | `SortedInput` |
| | `printer_status`: all answers, cut where the parser expects and cut anywhere | `NoFalseSuccess` for both; `StatusRight` and `ReturnsWhole` for the first |
| | `ThreadCtl`: 2 threads, clock up to 7 ticks, seconds of 3 | `RunsOnTime`, `NoSelfWait`, `ChildLocksFree`, `QuitWakes`, `OwnBuffer` |
| | `DbOpen`: 3 processes, of which 1 to 3 create; files there or not | `OpenedReady`, `RecordsKept` |
| | `OpenServer`: 3 clients, arrays that grow by 1, 2 requests (2 clients) or none (3) | `OwnAnswer`, `TablesMatch`, `NeverBlocks`, `UidOfClient` |
| | `PassFd`: buffers of 8, 2 requests, names that fit a read, just fit, and do not | `FdAnswer`, `WholeAnswer`, `AnswerComes`, `ServerLeaves` |
| | `Semaph`: 3 processes, 4 opens | `CreatorKeeps`, `OneInside`, `LockHasHolder`, `CountsUsers` |
| | `TellWait`: all programs, 6 loops | `TakeTurns`, `ToldWakes`, `PipesFinish` |
| | `SLock`: 2 threads, 3 semaphores, 2 processes with one ID | `OwnSemaphore`, `LockExact` |
| | `Signals`: all functions, 3 signals from outside | `WakesUp`, `Restored`, `AbortEnds`, `StatusOurs`, `JumpReady`, `StopsFirst` |
| | `Popen`: 6 descriptors, 3 calls | `PcloseReturns`, `PidOfStream`, `Connected`, `NoLeak` |
| | `Daemon`: 2 copies, 5 descriptors of which 4 are closed without a limit, 2 SIGHUPs | `OneDaemon`, `PidInFile`, `NoTerminal`, `ConfigSeen`, `HupKeepsRunning` |
| | `Pty`: 2 chunks each way, a buffer of 1, all options | `EndsBoth`, `ParentTold`, `OutputWhole`, `HangsUp`, `DriverEndSeen`, `TtyRestored` |
| | `Terminal`: 2 terminals, 2 calls, 2 settings for both modes and one for raw mode, passwords of 2 | `ModeKnown`, `NoHalfMode`, `EchoBack` |
| | `Ruptime`: 2 clients, waits up to 4, 2 addresses, backlog 1 | `ConnectionEnds`, `OneListener`, `RetryClean`, `RetryWaits`, `AlarmCovers` |
| | `MemStream`: all types of up to 2 characters, buffer of 3 | `StreamIsFile`, `InBuffer`, `TypeParsed`, `Terminated` |
| | `PollMsg`: 2 queues, 2 messages each, of the two greatest lengths | `PrintedInOrder`, `HelperWoken`, `TextInArray` |
| | `Submit`: header of 2, buffers of 2, files of up to 3 | `HeaderApart`, `AckedWhole`, `NameFits` |
| | `FileCopy`: 2 buffers of 2, files of up to 5 | `CopyWhole`, `NoHole` |
| | `TreeWalk`: all trees of 4 files | `PathRight`, `PathFits`, `CountedOnce`, `SearchedOnce`, `TtyFound` |
| | `Filters`: 3 lines, pipes of 1, buffers of 2 | `NoMutualWait`, `EndSeen`, `PromptAnswered` |
| `status_spin` | *violation*, one answer cut anywhere | `Returns` |

**Themes.** The `programs` run checks the properties of the modules from `FooCount` on, and
those of the message queue and the barrier sort, as conjunctions with one subject each.
A conjunct speaks only of states in which its program runs, so the states in which a
conjunction can fail say at once which conjunct did. Each conjunct has a mutant of its own.

| in the cfg | conjuncts |
|---|---|
| `SleepersWoken` | `MsgWakeup`, `ToldWakes`, `WakesUp`, `QuitWakes`, `HelperWoken`, `AlarmCovers`, `ConfigSeen` |
| `OneAtATime` | `TakeTurns`, `OwnSemaphore`, `LockExact`, `OneInside`, `LockHasHolder`, `OneDaemon`, `PidInFile`, `ChildLocksFree`, `NoSelfWait` |
| `NobodyStuck` | `PipesFinish`, `NeverBlocks`, `PcloseReturns`, `EndsBoth`, `HangsUp`, `ParentTold`, `DriverEndSeen`, `ConnectionEnds`, `NoMutualWait`, `EndSeen`, `PromptAnswered`, `AnswerComes`, `ServerLeaves` |
| `RightPeer` | `OwnAnswer`, `TablesMatch`, `UidOfClient`, `PidOfStream`, `Connected`, `NoLeak`, `OwnBuffer`, `FdAnswer` |
| `DataWhole` | `SortedInput`, `OutputWhole`, `StreamIsFile`, `TypeParsed`, `PrintedInOrder`, `HeaderApart`, `AckedWhole`, `CopyWhole`, `NoHole`, `OpenedReady`, `RecordsKept`, `WholeAnswer` |
| `InBounds` | `InBuffer`, `PathFits`, `NameFits`, `TextInArray` |
| `SignalsHandled` | `Restored`, `AbortEnds`, `StatusOurs`, `JumpReady`, `StopsFirst` |
| `TerminalRestored` | `ModeKnown`, `NoHalfMode`, `EchoBack`, `TtyRestored`, `NoTerminal` |
| `CountsRight` | `CreatorKeeps`, `CountsUsers`, `CountsRefs`, `UsedReady`, `PathRight`, `CountedOnce`, `SearchedOnce`, `TtyFound`, `RunsOnTime`, `OneListener`, `RetryClean`, `RetryWaits` |
| `StepsAllowed` | `HupKeepsRunning`, `Terminated` (step formulas) |

The others of the table above are in the cfg under their own names.

**Bounds.** Two keys on one chain with two lengths give every shape that matters to
the list code (empty, head, behind another record, reuse that fits and that does
not); two processes meet in every pair of control points. Four or five calls are enough to build a list of
two, free both, and reuse one while the other is being searched. The job number
bounds (`JOB_MAX`) are chosen so that runs with deaths do not wrap and `printd_queue`
does; two clients give the three parties (two adding, one taking) of every race on
the job list. `MaxFail` counts the failures of the printer and those of `build_qonstart`
together: two, with two deaths, let a job be passed over at one start and be lost to a
failed read at the next. Three references to two objects let one thread release the last
reference while a second finds the object and a third holds another. A list of three
jobs has a head, a tail and a job in between. Three messages and two processing
threads give a signal that finds nobody asleep, and a thread that is woken for a
message another one has taken. In the other programs the bounds are the least at which
each branch is taken: arrays, buffers and backlogs that are full with one or two
elements, one more element than that, and one more actor than the two that race where
the code treats the third differently (a client that connects while another leaves, a
process that opens while one creates and one removes). A tree of four files has a
directory in a directory and a file after it, which is where the path buffer is cut back.
Three processes at `db_open` are two creators and one that only opens.

**Symmetry.** Processes and clients run the same code, and no `CHOOSE` picks one;
runs without liveness use permutations of them. `db_crash` does not, since one
process is distinguished.

**Fairness.** `ApueDb!FairSpec`: weak fairness of each process' next step, which the
scheduler gives; the calls are bounded (`MaxCalls`), so a waiter cannot be overtaken
for ever, which `fcntl` does not promise. `Printd!FairSpec`: weak fairness of each
thread and of starting the daemon again; failures and deaths are bounded, since the
code retries for ever. `PrinterStatus!FairSpec` and `MCPrograms!ProgramSpec`: weak fairness of the thread of
`printer_status`, of each thread in `process_msg` that is awake, and of a sender
between its unlock and its signal. Nothing obliges `pthread_cond_wait` to return
without a signal.

**Deadlock** is checked everywhere but for `Workers`, which ends when the daemon does.
A program that may stop has a step that stutters (`Ended`, `Quiet`, `Halted`), with
the states in which it may in its guard, so that stopping anywhere else is reported.
`Filters` is an exception in effect: a child can be killed at any time, so that waiting
for each other is stated as a property (`NoMutualWait`).

## 5. Findings

* `db_rewind`: `db_nextrec` uses the kernel's offset, which every keyed call moves;
  the comments of `db_rewind` and `db_nextrec` ask only for the rewind that `db_open`
  makes.
* `printd_forget`: the job number is saved by the printer thread when it picks a job
  up, not when it is handed out.
* `workers_kill`: `add_worker` does not move the head of the list, so SIGTERM does
  not cancel the second of two client threads, and nobody closes its socket.
* `status_spin`: `printer_status` loops for ever on an answer cut inside the HTTP
  header, although its comment allows for that.

The models show more, which no run of its own states. Where one would break a property
of the `programs` run, the property names it as an exception.

* `printer_status`: `StatusRight` also fails for an answer cut inside the IPP header (the
  callers of `readmore` add an absolute offset to `datsz`; the job is then printed again).
* `build_qonstart`: a job that was accepted is unlinked when its control file cannot be read
  (`printd.c:365-378`), and passed over until the next start when the file or the directory
  cannot be opened (349-350, 363-364); the descriptor of each control file that is read stays open,
  so that with enough jobs it comes to that (`Durable`, `Tracked`, `AcceptedPrinted`,
  ghosts `unread` and `cancelled`).
* `client_thread`: a silence is taken for the end of a file, and the announced size is
  never compared (`AckedWhole`, ghost `quiet`).
* `db_open`: `O_TRUNC` empties the files of a process that uses them, which may then put a
  record where the table belongs (`OpenedReady`, `RecordsKept`, ghost `harm`).
* `loop.poll.c`: once `pollfd[]` is packed its entries are no longer those of
  `client[]`, and a request may be handled with another client's uid (`UidOfClient`). A
  request longer than a read, or of too many words, gets somebody's answer
  (`OwnAnswer`, ghost `odd`).
* `open.fe/open.c`: after a `fork` that failed the next `csopen` writes to its own socket
  and waits for ever (`AnswerComes`); `recv_fd` returns with a part of the answer still to
  come when the text cannot be written, and the next call takes it for its own (`FdAnswer`,
  ghost `early`).
* `semaph.c`: `sem_open` counts without the lock, and the set may be removed under it
  (`CreatorKeeps` speaks of `sem_create` only).
* `tellwait.c` with signals: the second WAIT_x of a process may miss the signal
  (`ToldWakes`).
* `popen.c`: with descriptor 0 or 1 closed in the parent a later child closes its own
  pipe (`Connected`); a failed `fork` or `fdopen` leaks descriptors (`NoLeak`).
* `rot13a.c`: a read that fails ends the loop as the end of the file does, so that the copy is
  short and the exit status 0 (`CopyWhole`, state `cut`).
* `ttymodes.c`: a signal between `tcsetattr` and the assignment of `ttystate` finds nothing to
  reset (`EchoBack`); settings put back in part count as put back, here and in `getpass.c`, and
  where a mode did not stick nobody looks whether they were (`ModeKnown`, `EchoBack`,
  ghost `harm`).
* `daemonize.c`: without a limit only the first 1024 descriptors are closed, and with a
  lowered one those above it stay (`NoTerminal`).
* `ftw8.c`: `func` is called a second time, with `FTW_DNR`, for a directory that cannot be
  read (`CountedOnce` says so).
* `add2stdio.c`: its answer stays in its own buffer while it waits for the next line
  (`NoMutualWait`).
* `opend`: a read error of one client ends the server for all (`loop.select.c:45-46`).
* `reread.c`: SIGHUP has its default action for an instant (`HupKeepsRunning`).
* `pty`: an error of the parent tells the child nothing (`EndsBoth`), nor one of the child the
  parent, although the comment of `sig_term` says that SIGTERM is sent "when read() fails"
  (`loop.c:62-64`); and SIGTERM between two reads of the parent only sets a flag, so that it reads once more
  (`ParentTold`). The parent then waits for a program that may wait for input that nobody
  can give.
* `ruptimed-fd.c`: a child whose `exec` failed goes on as a server (`ConnectionEnds`);
  `ruptime-dg.c`: an alarm that rings before `recvfrom` is lost (`AlarmCovers`).
* `pollmsg2.c`: the wait is not in a loop (`PrintedInOrder`, ghost `spur`).
* `11-12.c` (`my-src`): `foo_hold` and `foo_release` change the count under different
  locks.

## 6. Proofs

TLAPS checks the following for every number of processes, keys, clients, calls,
deaths and failures allowed by the named assumptions of the modules.

* **Database, control** (`ApueDbProofs`). `MutualExclusion` is not inductive: it
  speaks of control points, the code of locks. `ControlInv` says at which control
  points a process holds which lock, that it executes the call that leads there with
  the arguments of that call, and that a write lock excludes all others. One step per
  action; mutual exclusion is a consequence.
* **Database, files** (`ApueDbProofs`). `FilesInv` says that each offset in a file
  or a handle lies inside the file it is about. An append preserves it only if the
  end of file has not moved since `lseek`, so the proof carries `AppendAtEnd`, and
  that rests on the exclusive lock of `ControlInv`. `TypeOK`, `AppendAtEnd` and
  `PointersFit` follow.
* **Database, sizes** (`ApueDbProofs`). `SlotsKeepSize` is a property of steps. A write
  at `SEEK_SET` keeps the size of a record only if what the process knows of it is still
  true, so `SizeInv` says that every index record has the length of its key and of its
  data record, and for each control point before such a write that the handle has these
  lengths, and that they are those of the request. No hypothesis: deaths change no sizes.
* **Database, lists** (`ApueDbListProofs`). `ListShape` speaks of all the lists at once,
  a write of one cell. `Shape` says the same of any successor function, with one addition:
  some function of the offsets grows along every list. Every change the library makes is
  one of three, `TakeOut`, `PutFirst` and `Rewrite` of a loose record, and each keeps
  `Shape`, whatever the lists are. What has to be shown of a write is then that it is one
  of the three, which depends on what its process has read before. `Known` says that:
  where the record at hand is linked and what follows it, at each control point. It
  survives the steps of the others because a change touches only what its process owns
  (`Owns`: the chain, the free list or the loose record, as its locks and its control
  point say), and no offset has two owners (`OwnedOnce`, from `MutualExclusion`).
  A process that was killed in `_db_dodelete` after its record was written as a free one
  and before the chain was closed leaves a record on two lists; `ListInv` claims nothing
  from then on (`Clean`), which is the exception `CrashSafe` makes. `CrashTheorem` has no
  other hypothesis. `ListShape` and `AllReachable` make no exception and are proved under
  `Crashable = {}`, the constant that says who may be killed; processes that abort by
  themselves are included. For `AllReachable` the walk of `Members` has to be shown to
  exist and to reach the end: while it is not closed each step adds an offset, so as many
  steps as there are records close it, and a record with the least height among those it
  missed would have a predecessor that it missed.
* **Database, refinement** (`ApueDbRefineProofs`). `AtomicMap` maps the library to `KVStore`:
  the abstract map has what the complete records on the chains say. Most steps stutter;
  `d_write_dat`, `o_write_dat` and `s_write_chain` change the map, and an answer is given
  at the step that finds it. What these need is in two invariants. `TalkInv` says which
  call leads to which control point and what its answer so far is. `MapInv` says that a
  key has one record, that the data slot of a record belongs to no other, and what a
  search knows: the cells it has passed lead to each other and none has the key, so that
  the end of the chain means that the key is absent (`Passed`); a `NEXTREC` that finds a
  blanked record goes on. TLC checked both invariants on `db_chain`, `db_limit` and
  `db_reuse` (222 940, 92 050 and 702 530 states) before they were proved. The theorem is
  proved under `Crashable = {}`: a process killed inside `_db_dodelete` leaves a record on
  its chain whose key is blank, which is no state of a map; processes that abort by
  themselves are included (`AtRest` says where they can be).
* **Spooler** (`SpoolProofs`). `WakeupInv` relates the length of the list, the
  printer thread's wait and the clients that have linked a job but not signalled
  yet. `ConfigInv` orders the version in use, the version being read and the version
  in the file, and says who still owes a reread.
* **Spooler, jobs and files** (`SpoolProofs`). `SpoolerInv` has three layers. `TypeInv` has
  the types, and counts: `nextjob` and the number file stay below the first number plus
  the clients that were given one. `KnownInv` holds whatever is forgotten: a client has
  at most one control file, the daemon knows of a job in one place only, and a job that
  may yet be printed was printed at most once per failure or death (`PrintedOnce`). `Promise`
  holds until a death forgets a job number (`stale`): files, list entries and threads
  with the same number have the same client (`OwnerInv`), and numbers still to be handed
  out have no complete control file, which is what makes the files of a new job its own.
  The promises about accepted jobs except `unread` and, while the daemon that passed them over
  runs, `cancelled`: what the calls of `build_qonstart` lose when they fail.
  `QueuedOnce`, `OwnData`, `Durable`, `Tracked` and `TypeOK` follow. The hypothesis
  `FewJobs` says that there are fewer jobs than job numbers: `JOB_MAX` is 2^31 - 1 in the
  code, and the comment on `update_jobno` says that it does not handle wrap-around;
  what the model does then `printd_queue` checks. TLC checked `SpoolerInv` on the instance
  of `printd_crash` before it was proved, `SizeInv` on that of `db_crash`, `ListInv` on
  those of `db_crash` and `db_reuse` (with the walk of `AllReachable` in place of the
  height in `Shape`), and `JobInv` with four jobs.
* **Job queue** (`ThreadProofs`). `WellLinked` follows the pointers from `q_head`. `JobInv`
  says instead that there is a row of jobs, the queued ones, each once, such that `j_next`
  and `j_prev` lead along it both ways; an insertion, an append or a removal gives another
  row. That the walk of `WellLinked` is that row is an induction over its length.
* **Reference-counted objects** (`ThreadProofs`). `CountExact` and `NoUseAfterFree` depend
  on each other: an object is freed when its count is 1, so the count must be right,
  and the count is right only if nobody decrements a freed object. `FooInv` joins them
  with what the locals say at each control point: who holds `hashlock` and each
  `f_lock`, that a thread about to release still has its reference, that a thread in
  `foo_find` has an object still on the chain, and that an object about to be freed is
  off the chain, has no reference and belongs to one thread. `NoUseAfterFree`,
  `CountExact` and `FoundIsReady` follow. `NoLockCycle` needs the converse of one part of
  it: whoever has an `f_lock` is at a control point where it asks for no lock
  (`LockInv`), which is inductive given `FooInv`.
* **The printer's answer** (`ThreadProofs`). `NoFalseSuccess` for any set of answers, cut
  anywhere. The scan of `readmore`'s callers runs past the end of what was read and over
  bytes that `malloc` left, so nothing can be said of positions; `ParseInv` says that every
  byte of the buffer was sent by the printer or is such garbage, and that behind the
  status line an accepting status was sent.

A recursive function is used through the equation that defines it, once it is shown that
a function with that equation exists. Both are inductions over the natural numbers, stated
for sets: a set that has 0 and with each number the next has them all (`SetInduction`,
from the well-foundedness of `<`).

### The small programs

`ProgramProofs` has one part for each program, over variables of its own, with the numbers
of the program as parameters; the hypothesis of each theorem says which numbers (in the
table; none means any, but that the constants for nobody, 0 and `"none"`, are no actor's names). `SignalProofs` is the same for `Signals`. The invariants:

| theorem | invariant, and what carries the proof | hypothesis |
|---|---|---|
| `SemaphTheorem` | `SemInv`: what `SEM_UNDO` would take back is what the process did; the counter is the number of users; who is about to remove the set has the lock and has seen no creator. TLC: 103 207 states with value 1, 35 284 with 2 | `SemSizes`: fewer processes than `BIGCOUNT` (10000) |
| `MsgTheorem` | `MsgInv`: only processing threads sleep, and a message on the queue finds one awake or a signal to come | some thread processes |
| `SLockTheorem` | `SLockInv`: each open semaphore has one owner, and its value and holders add up to one unit. TLC: 7 669 states | |
| `DaemonTheorem`, `DaemonHupTheorem` | `DaemonInv`: from which control point on the lock, the missing terminal and the handling of SIGHUP hold; which descriptors can still be open (`FdsInv`); a new configuration not yet known has its signal pending | |
| `DbOpenTheorem` | `OpenInv`: while no file was emptied in somebody's hands, who has a handle finds the whole table and the chain as it read it | |
| `SubmitTheorem` | `SubmitInv`: bytes written and to write add up to header and file, bytes read are a prefix of them, and a job is accepted only at the end of the stream or at a silence | sizes are numbers |
| `TerminalTheorem` | `TerminalInv`: what is saved is what was there first, and a terminal outside `harm` differs from that only while a call is at work on it or `ttystate` says so (`ChangeInv`, `OwnInv`) | `TerminalSizes`: `ECHO` is a setting of both modes, `ISIG` of raw mode, and the one raw mode sets is neither |
| `CopyTheorem` | `CopyInv`: buffers in flight have blocks of their own, every byte before `off` is in the output, in a buffer, or was not there. TLC: 26 660 states | `CopySizes`: blocks are not empty |
| `PtyTheorem` | `PtyInv`: which process has which descriptor; what the program made is shown, read or in the terminal; why a parent that copies on was not told (`ToldParent`) | |
| `PollTheorem` | `PollInv` (who has the mutex, and that who waits was written for) and `OrderInv` (printed, held and queued messages follow each other) | |
| `ControlTheorem` | `ControlInv`, one part per program; for `timeout.c` the mutex and its depth (`MutexInv`), and the clock (`TimeoutInv`) | `ControlSizes`: a second has ticks |
| `FilterTheorem` | `FilterInv`: answered lines, those on their way in both pipes and in the child's buffer are consecutive numbers. TLC: 457 states | |
| `TurnTheorem` | `TurnInv`: calls of TELL_x are those WAIT_x has returned for and at most one more; a signal blocked from the first. TLC: 292 states with `NLOOPS` = 6 | |
| `RuptimeTheorem` | `RuptimeInv`: who holds a connection; what a client has slept is one less than its next wait | `RuptimeSizes`: `MAXSLEEP` is a power of two (128) |
| `StreamTheorem`, `StreamEndTheorem` | `StreamInv`: the bytes of the buffer up to the size are those of the file | `StreamSizes`: a buffer that is not empty |
| `WalkTheorem` | `WalkInv`: the names in the buffer are a chain of parents, so that the one long name can only be the last, and each directory on the stack left room for another name | `WalkSizes`: `NAME_MAX < PATH_MAX` |
| `SignalTheorem` | `SignalInv`: the program below, its own handlers above, only the innermost asleep; the mask the program goes on with however many handlers run above it (`BaseMask`); for each program the step it is at when an alarm is set, a signal blocked, a handler installed or the buffer filled. TLC: 4 609 states with 4 signals | |

Two definitions have the form they have because of these proofs: `NoSelfWait` says who has the
mutex instead of using `ENABLED`, and `strlen` of `TreeWalk` is an expression instead of a fold.

### The themes

`ThemeProofs` proves the properties of the `programs` run themselves, for `ProgramSpec`:
`OneAtATime`, `TerminalRestored`, `InBounds`, `SignalsHandled`, `SleepersWoken` (if there is a
thread that processes messages) and `StepsAllowed`. `P` and `S` are
`ProgramProofs` and `SignalProofs` with the pool's variables and the sizes of `MCPrograms`. The instances in
them and those in `MCPrograms` are different names of the same formulas, which the lemmas
`...Same` and `...SamePromises` show; `SizesFit` shows that the sizes meet the hypotheses. `ThemeInv`
is the invariant of the program that runs, and `OnlyItsSteps` says that a step of
`ProgramNext` is a step of that program alone.

### Only model-checked

* All liveness, which is beyond the prover: `EveryCallReturns`, `AcceptedPrinted`,
  `MsgProcessed`, `ReturnsWhole`.
* `StatusRight`, which is about the answers of `PrinterAnswers` one by one.
* `CountsRight`, `DataWhole`, `NobodyStuck` and `RightPeer` as wholes. Most of their conjuncts
  are proved for their programs: `CountsUsers`, `CreatorKeeps`, `PathRight`, `RunsOnTime`,
  `OneListener`, `RetryClean`, `RetryWaits`; `OutputWhole`, `StreamIsFile`, `PrintedInOrder`,
  `HeaderApart`, `AckedWhole`, `CopyWhole`, `NoHole`, `OpenedReady`, `RecordsKept`;
  `PipesFinish`, `EndsBoth`, `HangsUp`, `ParentTold`, `DriverEndSeen`, `ConnectionEnds`, `NoMutualWait`,
  `EndSeen`, `PromptAnswered`; `OwnBuffer`. The others are sums over sets or walks up a
  tree (`CountsRefs`, `CountedOnce`, `SearchedOnce`, `TtyFound`), folds (`TypeParsed`,
  `SortedInput`), or of `OpenServer`, `PassFd` and `Popen`, for whose states of several
  processes, descriptors and texts no invariant is written yet.
* `Workers`, and what `db_crash` shows of `ListShape` after a kill.

## 7. Not modelled

* In modelled parts: torn writes and `db_close` of the database; the set-up of the
  listening sockets of the spooler and the encoding of IPP attributes; option parsing and
  configuration files; `merge` of the barrier sort for a number equal to `LONG_MAX`,
  which `random` reaches only where `long` has 32 bits; links to directories in
  `ttyname`'s search, and its fixed buffer; a read error in the print command, which
  makes the length written negative.
* Programs without state of their own: the error and logging routines (output, and an exit
  that the models of their callers have), the tables of the standards (generated), the
  demonstrations of a single call in `fileio`, `filedir`, `stdio`, `proc`, `environ`,
  `datafiles`, `intro`.
* The reader's versions in `my-src`: about 8600 of the repository's 20000 lines. Most
  repeat a program of `original-src` in another layout; some do not compile (`11-14.c`).

The definitions in the map stand for about a third of the lines. `PROJECT.json` lists the
hazards, each with the properties that would catch it going wrong; what the code leaves
open all the same is in section 5.
