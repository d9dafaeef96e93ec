------------------------------- MODULE Printd -------------------------------
(***************************************************************************)
(* The print spooler of printer/printd.c: the main thread, one thread per  *)
(* client, the printer thread and the signal thread of one daemon, the     *)
(* spool directory and job number file it leaves on disk, and its deaths   *)
(* and restarts.                                                           *)
(*                                                                         *)
(* A client submits one job and is used as its name.  A file of the spool  *)
(* is named by a job number; a data file says whose document it holds and  *)
(* whether it is all there, a control file whose request it holds and      *)
(* whether it is written.  A critical section on joblock or configlock is  *)
(* one step, and so is a call on one file.                                 *)
(***************************************************************************)
EXTENDS Integers, Sequences

CONSTANTS
  Client,     \* clients, each with one document to print
  Nobody,     \* not a client
  JOB_MAX,    \* largest job number, 2^31 - 1 in the code
  StartFile,  \* content of the job number file at first, 0 when it is empty
  MaxKill,    \* bound: times the daemon dies
  MaxFail,    \* bound: failures of the printer, of opening a data file, and
              \* of the calls of build_qonstart
  MaxHup      \* bound: changes of the configuration

ASSUME BoundAssumption ==
  /\ JOB_MAX \in Nat \ {0} /\ StartFile \in 0..JOB_MAX
  /\ MaxKill \in Nat /\ MaxFail \in Nat /\ MaxHup \in Nat
ASSUME NobodyAssumption == Nobody \notin Client

VARIABLES
  daemon,     \* "down", "starting" (main is in build_qonstart) or "up"
  nextjob,    \* next job number
  jobfile,    \* number in the job number file
  data, ctl,  \* data and control files of the spool directory
  queue,      \* jobhead .. jobtail
  cl,         \* control point and job number of each client thread
  main,       \* job numbers build_qonstart has still to look at, and whether
              \* it has a signal to send
  prn,        \* control point and locals of the printer thread
  reread, hup,   \* the flag, and a SIGHUP that is pending
  cfgfile, cfg,  \* version of the configuration file, and of the one in use
  acked,      \* clients that were told their job is accepted
  cancelled,  \* clients whose job the running daemon has given up
  printed,    \* times the job of a client was sent to the printer
  out,        \* what was sent: for which job, whose document, all of it?
  stale,      \* the daemon died with a job that the job number file forgets
  unread,     \* clients whose job build_qonstart unlinked: it could not read it
  nkill, nfail, nscan

spool == <<data, ctl>>
config == <<reread, hup, cfgfile, cfg>>
ghosts == <<acked, cancelled, printed, out>>
bounds == <<stale, unread, nkill, nfail, nscan>>
vars == <<daemon, nextjob, jobfile, data, ctl, queue, cl, main, prn, reread,
          hup, cfgfile, cfg, acked, cancelled, printed, out, stale, unread,
          nkill, nfail, nscan>>
-----------------------------------------------------------------------------
Id == 1..JOB_MAX
NoFile == [by |-> Nobody, whole |-> FALSE]
File(c, w) == [by |-> c, whole |-> w]
Job(i, c) == [id |-> i, by |-> c]
NoJob == Job(0, Nobody)
Thread(label, i) == [pc |-> label, id |-> i]
Printer(label, j, n) == [pc |-> label, job |-> j, no |-> n]

Init ==
  /\ daemon = "down" /\ nextjob = 0 /\ jobfile = StartFile
  /\ data = [i \in Id |-> NoFile] /\ ctl = [i \in Id |-> NoFile]
  /\ queue = <<>>
  /\ cl = [c \in Client |-> Thread("new", 0)]
  /\ main = [todo |-> {}, signal |-> FALSE]
  /\ prn = Printer("get", NoJob, 0)
  /\ reread = FALSE /\ hup = FALSE /\ cfgfile = 0 /\ cfg = 0
  /\ acked = {} /\ cancelled = {} /\ out = {}
  /\ printed = [c \in Client |-> 0]
  /\ stale = FALSE /\ unread = {} /\ nkill = 0 /\ nfail = 0 /\ nscan = 0

Goto(c, label) == cl' = [cl EXCEPT ![c].pc = label]
At(c, label) == daemon # "down" /\ cl[c].pc = label
PrinterAt(label) == daemon # "down" /\ prn.pc = label
PrinterGoto(label) == prn' = [prn EXCEPT !.pc = label]
PrinterOnly == UNCHANGED <<daemon, nextjob, cl, main>>
Fail == nfail + nscan < MaxFail /\ nfail' = nfail + 1
ScanFail == nfail + nscan < MaxFail /\ nscan' = nscan + 1
-----------------------------------------------------------------------------
(***************************************************************************)
(* Start.  The job number is read back, the printer and signal threads     *)
(* start, then build_qonstart looks at the control files, in any order.    *)
(* (Once job numbers have wrapped around, the number file is garbled; the  *)
(* code says that it does not handle this, and no run restarts after it.)  *)
(***************************************************************************)
Start ==
  /\ daemon = "down"
  /\ daemon' = "starting"
  /\ nextjob' = IF jobfile = 0 THEN 1 ELSE jobfile
  /\ main' = [todo |-> {i \in Id : ctl[i] # NoFile}, signal |-> FALSE]
  /\ prn' = Printer("get", NoJob, 0)
  /\ reread' = FALSE /\ hup' = FALSE /\ cfg' = cfgfile
  /\ UNCHANGED <<jobfile, spool, queue, cl, cfgfile, ghosts, bounds>>

Scanning == daemon = "starting" /\ ~main.signal

\* A control file is read and its job is listed; or the read fails, or ends
\* before the whole request (the file was never completed), and the control
\* and the data file are unlinked.
Scan(i) ==
  /\ Scanning /\ i \in main.todo
  /\ \/ /\ IF ctl[i].whole
             THEN ScanFail /\ unread' = unread \cup {ctl[i].by}
             ELSE UNCHANGED <<nscan, unread>>
        /\ ctl' = [ctl EXCEPT ![i] = NoFile]
        /\ data' = [data EXCEPT ![i] = NoFile]
        /\ main' = [main EXCEPT !.todo = @ \ {i}]
        /\ UNCHANGED queue
     \/ /\ ctl[i].whole
        /\ queue' = Append(queue, Job(i, ctl[i].by))
        /\ main' = [todo |-> main.todo \ {i}, signal |-> TRUE]
        /\ UNCHANGED <<spool, unread, nscan>>
  /\ UNCHANGED <<daemon, nextjob, jobfile, cl, prn, config, ghosts, stale,
                 nkill, nfail>>

\* Job numbers that build_qonstart passes over, whose files stay: the one
\* whose control file it cannot open, or all that are left when it cannot
\* open the directory or read on in it.
Pass(S) ==
  /\ Scanning /\ S # {}
  /\ ScanFail
  /\ main' = [main EXCEPT !.todo = @ \ S]
  /\ cancelled' = cancelled \cup {ctl[i].by : i \in {j \in S : ctl[j].whole}}
  /\ UNCHANGED <<daemon, nextjob, jobfile, spool, queue, cl, prn, config, acked,
                 printed, out, stale, unread, nkill, nfail>>
Unreached == {{i} : i \in main.todo} \cup {main.todo}

\* pthread_cond_signal wakes the printer thread if it waits.
Wake == prn' = IF prn.pc = "wait" THEN [prn EXCEPT !.pc = "get"] ELSE prn

\* Mutant: a job found at start-up is linked and nobody is signalled.
ScanSilent ==
  /\ daemon = "starting" /\ main.signal
  /\ main' = [main EXCEPT !.signal = FALSE]
  /\ UNCHANGED <<daemon, nextjob, jobfile, spool, queue, cl, prn, config, ghosts, bounds>>

ScanSignal ==
  /\ daemon = "starting" /\ main.signal
  /\ main' = [main EXCEPT !.signal = FALSE]
  /\ Wake
  /\ UNCHANGED <<daemon, nextjob, jobfile, spool, queue, cl, config, ghosts, bounds>>

Initialized ==
  /\ Scanning /\ main.todo = {}
  /\ daemon' = "up"
  /\ UNCHANGED <<nextjob, jobfile, spool, queue, cl, main, prn, config, ghosts, bounds>>
-----------------------------------------------------------------------------
(***************************************************************************)
(* A client thread.  Every failure is reported to the client and ends the  *)
(* thread; the files it made are removed.                                  *)
(***************************************************************************)
ClientOnly ==
  UNCHANGED <<daemon, jobfile, main, config, cancelled, printed, out, bounds>>

\* Mutant: connections are accepted while build_qonstart runs.
AcceptEarly(c) ==
  /\ At(c, "new")
  /\ Goto(c, "number") \/ Goto(c, "failed")
  /\ ClientOnly /\ UNCHANGED <<nextjob, spool, queue, prn, acked>>

\* Accept a connection and read the request header.
Accept(c) ==
  /\ daemon = "up" /\ At(c, "new")
  /\ Goto(c, "number") \/ Goto(c, "failed")
  /\ ClientOnly /\ UNCHANGED <<nextjob, spool, queue, prn, acked>>

\* Mutants: nextjob is read but not advanced; it is not brought back to 1.
GetNewJobNoSame(c) ==
  /\ At(c, "number")
  /\ cl' = [cl EXCEPT ![c] = Thread("creat", nextjob)]
  /\ ClientOnly /\ UNCHANGED <<nextjob, spool, queue, prn, acked>>

GetNewJobNoUnbounded(c) ==
  /\ At(c, "number")
  /\ cl' = [cl EXCEPT ![c] = Thread("creat", nextjob)]
  /\ nextjob' = nextjob + 1
  /\ ClientOnly /\ UNCHANGED <<spool, queue, prn, acked>>

\* nextjob++, and back to 1 when that overflows.
GetNewJobNo(c) ==
  /\ At(c, "number")
  /\ cl' = [cl EXCEPT ![c] = Thread("creat", nextjob)]
  /\ nextjob' = IF nextjob = JOB_MAX THEN 1 ELSE nextjob + 1
  /\ ClientOnly /\ UNCHANGED <<spool, queue, prn, acked>>

CreatData(c) ==
  /\ At(c, "creat")
  /\ \/ Goto(c, "upload") /\ data' = [data EXCEPT ![cl[c].id] = File(c, FALSE)]
     \/ Goto(c, "failed") /\ UNCHANGED data
  /\ ClientOnly /\ UNCHANGED <<nextjob, ctl, queue, prn, acked>>

Unlink(files, c) == [files EXCEPT ![cl[c].id] = NoFile]

\* The upload ends when nothing arrives for 20 seconds or the connection
\* breaks: what has arrived by then is the document.  Or a write fails.
Upload(c) ==
  /\ At(c, "upload")
  /\ \/ /\ Goto(c, "creat_ctl")
        /\ \E w \in BOOLEAN :
             data' = IF data[cl[c].id].by = c
                       THEN [data EXCEPT ![cl[c].id].whole = w] ELSE data
     \/ Goto(c, "failed") /\ data' = Unlink(data, c)
  /\ ClientOnly /\ UNCHANGED <<nextjob, ctl, queue, prn, acked>>

CreatCtl(c) ==
  /\ At(c, "creat_ctl")
  /\ \/ /\ Goto(c, "write_ctl")
        /\ ctl' = [ctl EXCEPT ![cl[c].id] = File(c, FALSE)]
        /\ UNCHANGED data
     \/ /\ Goto(c, "failed")
        /\ data' = Unlink(data, c) /\ UNCHANGED ctl
  /\ ClientOnly /\ UNCHANGED <<nextjob, queue, prn, acked>>

WriteCtl(c) ==
  /\ At(c, "write_ctl")
  /\ \/ /\ Goto(c, "reply")
        /\ ctl' = [ctl EXCEPT ![cl[c].id] = File(c, TRUE)]
        /\ UNCHANGED data
     \/ /\ Goto(c, "failed")
        /\ ctl' = Unlink(ctl, c) /\ data' = Unlink(data, c)
  /\ ClientOnly /\ UNCHANGED <<nextjob, queue, prn, acked>>

\* Whether the answer reaches the client or not, the job is queued.
SendResponse(c) ==
  /\ At(c, "reply")
  /\ Goto(c, "add")
  /\ acked' = acked \cup {c} \/ UNCHANGED acked
  /\ ClientOnly /\ UNCHANGED <<nextjob, spool, queue, prn>>

\* Mutant: the job is linked and nobody is signalled.
AddJobSilent(c) ==
  /\ At(c, "add")
  /\ Goto(c, "done")
  /\ queue' = Append(queue, Job(cl[c].id, c))
  /\ ClientOnly /\ UNCHANGED <<nextjob, spool, prn, acked>>

AddJob(c) ==
  /\ At(c, "add")
  /\ Goto(c, "signal")
  /\ queue' = Append(queue, Job(cl[c].id, c))
  /\ ClientOnly /\ UNCHANGED <<nextjob, spool, prn, acked>>

Signal(c) ==
  /\ At(c, "signal")
  /\ Goto(c, "done")
  /\ Wake
  /\ ClientOnly /\ UNCHANGED <<nextjob, spool, queue, acked>>
-----------------------------------------------------------------------------
(***************************************************************************)
(* The printer thread.                                                     *)
(***************************************************************************)
\* Mutant: the job is not removed from the list.
GetJobKeeping ==
  /\ PrinterAt("get")
  /\ prn' = IF queue = <<>> THEN [prn EXCEPT !.pc = "wait"]
                            ELSE Printer("format", Head(queue), 0)
  /\ PrinterOnly /\ UNCHANGED <<jobfile, spool, queue, config, ghosts, bounds>>

GetJob ==
  /\ PrinterAt("get")
  /\ \/ /\ queue = <<>>
        /\ PrinterGoto("wait") /\ UNCHANGED queue
     \/ /\ queue # <<>>
        /\ prn' = Printer("format", Head(queue), 0)
        /\ queue' = Tail(queue)
  /\ PrinterOnly /\ UNCHANGED <<jobfile, spool, config, ghosts, bounds>>

\* A condition wait may return without a signal.
SpuriousWakeup ==
  /\ PrinterAt("wait")
  /\ PrinterGoto("get")
  /\ PrinterOnly /\ UNCHANGED <<jobfile, spool, queue, config, ghosts, bounds>>

\* update_jobno: the number is read without joblock, written a moment later
\* over the digits that are in the file, which is not truncated.  (A number
\* that is not smaller has no fewer digits.)
Width[n \in Nat] == IF n < 10 THEN 1 ELSE 1 + Width[n \div 10]
Overlay(old, new) ==
  IF new >= old \/ Width[new] >= Width[old] THEN new
  ELSE LET scale == 10 ^ (Width[old] - Width[new])
       IN (new * scale) + (old % scale)

UpdateFormat ==
  /\ PrinterAt("format")
  /\ prn' = Printer("update", prn.job, nextjob)
  /\ PrinterOnly /\ UNCHANGED <<jobfile, spool, queue, config, ghosts, bounds>>

UpdateWrite ==
  /\ PrinterAt("update")
  /\ prn' = Printer("config", prn.job, 0)
  /\ jobfile' = Overlay(jobfile, prn.no)
  /\ PrinterOnly /\ UNCHANGED <<spool, queue, config, ghosts, bounds>>

CheckConfig ==
  /\ PrinterAt("config")
  /\ PrinterGoto(IF reread THEN "init" ELSE "open")
  /\ reread' = FALSE
  /\ PrinterOnly
  /\ UNCHANGED <<jobfile, spool, queue, hup, cfgfile, cfg, ghosts, bounds>>

\* init_printer reads the file, looks up the address, and then sets printer.
InitPrinter ==
  /\ PrinterAt("init")
  /\ prn' = Printer("resolve", prn.job, cfgfile)
  /\ PrinterOnly /\ UNCHANGED <<jobfile, spool, queue, config, ghosts, bounds>>

\* Mutant: the flag is cleared only when the new address is known.
SetPrinterClearing ==
  /\ PrinterAt("resolve")
  /\ prn' = Printer("open", prn.job, 0)
  /\ cfg' = prn.no /\ reread' = FALSE
  /\ PrinterOnly
  /\ UNCHANGED <<jobfile, spool, queue, hup, cfgfile, ghosts, bounds>>

SetPrinter ==
  /\ PrinterAt("resolve")
  /\ prn' = Printer("open", prn.job, 0)
  /\ cfg' = prn.no
  /\ PrinterOnly
  /\ UNCHANGED <<jobfile, spool, queue, reread, hup, cfgfile, ghosts, bounds>>

\* The data file is opened; without it the job is cancelled, and its control
\* file stays.
OpenData ==
  /\ PrinterAt("open")
  /\ \/ /\ data[prn.job.id] # NoFile
        /\ PrinterGoto("send")
        /\ UNCHANGED <<cancelled, nfail>>
     \/ /\ IF data[prn.job.id] = NoFile THEN UNCHANGED nfail ELSE Fail
        /\ prn' = Printer("get", NoJob, 0)
        /\ cancelled' = cancelled \cup {prn.job.by}
  /\ PrinterOnly
  /\ UNCHANGED <<jobfile, spool, queue, config, acked, printed, out, stale,
                 unread, nkill, nscan>>

\* Connect, write the headers and the file.
Send ==
  /\ PrinterAt("send")
  /\ \/ /\ PrinterGoto("status")
        /\ LET j == prn.job IN
           /\ printed' = [printed EXCEPT ![j.by] = @ + 1]
           /\ out' = out \cup {[job |-> j.by, by |-> data[j.id].by,
                                whole |-> data[j.id].whole]}
        /\ UNCHANGED nfail
     \/ PrinterGoto("defer") /\ Fail /\ UNCHANGED <<printed, out>>
  /\ PrinterOnly
  /\ UNCHANGED <<jobfile, spool, queue, config, acked, cancelled, stale,
                 unread, nkill, nscan>>

\* Mutant: a job that was printed is put back on the list.
PrinterStatusDeferring ==
  /\ PrinterAt("status")
  /\ PrinterGoto("defer") /\ UNCHANGED nfail
  /\ PrinterOnly
  /\ UNCHANGED <<jobfile, spool, queue, config, ghosts, stale, unread, nkill,
                 nscan>>

\* printer_status: success, or an error, a late answer or none.
PrinterStatus ==
  /\ PrinterAt("status")
  /\ \/ PrinterGoto("unlink_data") /\ UNCHANGED nfail
     \/ PrinterGoto("defer") /\ Fail
  /\ PrinterOnly
  /\ UNCHANGED <<jobfile, spool, queue, config, ghosts, stale, unread, nkill,
                 nscan>>

UnlinkData ==
  /\ PrinterAt("unlink_data")
  /\ PrinterGoto("unlink_ctl")
  /\ data' = [data EXCEPT ![prn.job.id] = NoFile]
  /\ PrinterOnly /\ UNCHANGED <<jobfile, ctl, queue, config, ghosts, bounds>>

UnlinkCtl ==
  /\ PrinterAt("unlink_ctl")
  /\ ctl' = [ctl EXCEPT ![prn.job.id] = NoFile]
  /\ prn' = Printer("get", NoJob, 0)
  /\ PrinterOnly /\ UNCHANGED <<jobfile, data, queue, config, ghosts, bounds>>

\* Mutant: a job that could not be printed is dropped.
ReplaceJobNot ==
  /\ PrinterAt("defer")
  /\ prn' = Printer("sleep", NoJob, 0)
  /\ PrinterOnly /\ UNCHANGED <<jobfile, spool, queue, config, ghosts, bounds>>

ReplaceJob ==
  /\ PrinterAt("defer")
  /\ queue' = <<prn.job>> \o queue
  /\ prn' = Printer("sleep", NoJob, 0)
  /\ PrinterOnly /\ UNCHANGED <<jobfile, spool, config, ghosts, bounds>>

WakeUp ==
  /\ PrinterAt("sleep")
  /\ PrinterGoto("get")
  /\ PrinterOnly /\ UNCHANGED <<jobfile, spool, queue, config, ghosts, bounds>>
-----------------------------------------------------------------------------
(***************************************************************************)
(* The environment and the signal thread.                                  *)
(***************************************************************************)
\* The configuration file is edited, then the daemon is sent SIGHUP.
Reconfigure ==
  /\ daemon # "down" /\ cfgfile < MaxHup
  /\ cfgfile' = cfgfile + 1 /\ hup' = TRUE
  /\ PrinterOnly
  /\ UNCHANGED <<jobfile, spool, queue, prn, reread, cfg, ghosts, bounds>>

HandleHup ==
  /\ daemon # "down" /\ hup
  /\ hup' = FALSE /\ reread' = TRUE
  /\ PrinterOnly
  /\ UNCHANGED <<jobfile, spool, queue, prn, cfgfile, cfg, ghosts, bounds>>

\* A job whose number will be handed out again after a restart.
Forgotten == \E i \in Id : ctl[i].whole /\ i >= jobfile

\* SIGTERM, or a fatal error in any thread: every thread is gone at once.
Kill ==
  /\ daemon # "down" /\ nkill < MaxKill
  /\ daemon' = "down" /\ nextjob' = 0 /\ queue' = <<>>
  /\ nkill' = nkill + 1 /\ stale' = (stale \/ Forgotten)
  /\ cl' = [c \in Client |-> IF cl[c].pc \in {"new", "done"} THEN cl[c]
                             ELSE Thread("failed", 0)]
  /\ main' = [todo |-> {}, signal |-> FALSE]
  /\ prn' = Printer("get", NoJob, 0)
  /\ reread' = FALSE /\ hup' = FALSE /\ cancelled' = {}
  /\ UNCHANGED <<jobfile, spool, cfgfile, cfg, acked, printed, out, unread, nfail,
                 nscan>>
-----------------------------------------------------------------------------
MainStep ==
  \/ \E i \in Id : Scan(i)
  \/ \E S \in Unreached : Pass(S)
  \/ ScanSignal \/ Initialized
ClientStep(c) ==
  \/ Accept(c) \/ GetNewJobNo(c) \/ CreatData(c) \/ Upload(c) \/ CreatCtl(c)
  \/ WriteCtl(c) \/ SendResponse(c) \/ AddJob(c) \/ Signal(c)
PrinterStep ==
  \/ GetJob \/ UpdateFormat \/ UpdateWrite \/ CheckConfig \/ InitPrinter
  \/ SetPrinter \/ OpenData \/ Send \/ PrinterStatus \/ UnlinkData \/ UnlinkCtl
  \/ ReplaceJob \/ WakeUp

Next ==
  \/ Start \/ MainStep \/ (\E c \in Client : ClientStep(c))
  \/ PrinterStep \/ SpuriousWakeup \/ Reconfigure \/ HandleHup \/ Kill

Spec == Init /\ [][Next]_vars

\* Every thread is scheduled, and the daemon is started again when it died.
FairSpec ==
  /\ Spec
  /\ WF_vars(Start) /\ WF_vars(MainStep) /\ WF_vars(PrinterStep)
  /\ WF_vars(HandleHup)
  /\ \A c \in Client : WF_vars(ClientStep(c))
=============================================================================
