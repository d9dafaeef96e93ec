----------------------------- MODULE PrintdInv -----------------------------
(***************************************************************************)
(* What the print spooler promises.                                        *)
(***************************************************************************)
EXTENDS Printd

FileType == [by: Client \cup {Nobody}, whole: BOOLEAN]
JobType == [id: Id, by: Client \cup {Nobody}]
ClientLabel == {"new", "number", "creat", "upload", "creat_ctl", "write_ctl",
                "reply", "add", "signal", "done", "failed"}
IdlePC == {"get", "wait", "sleep"}
BusyPC == {"format", "update", "config", "init", "resolve", "open", "send",
           "status", "unlink_data", "unlink_ctl", "defer"}

\* The variables that are not flags.
TypeMain ==
  /\ daemon \in {"down", "starting", "up"}
  /\ nextjob \in 0..JOB_MAX /\ (daemon # "down" => nextjob # 0)
  /\ jobfile \in Nat
  /\ data \in [Id -> FileType] /\ ctl \in [Id -> FileType]
  /\ queue \in Seq(JobType)
  /\ cl \in [Client -> [pc: ClientLabel, id: 0..JOB_MAX]]
  /\ main \in [todo: SUBSET Id, signal: BOOLEAN]
  /\ prn \in [pc: IdlePC \cup BusyPC, job: JobType \cup {NoJob}, no: Nat]
  /\ prn.pc \in BusyPC <=> prn.job # NoJob
  /\ cfgfile \in 0..MaxHup /\ cfg \in 0..MaxHup
  /\ acked \subseteq Client /\ cancelled \subseteq Client
  /\ printed \in [Client -> Nat]
  /\ out \subseteq [job: Client, by: Client \cup {Nobody}, whole: BOOLEAN]
  /\ unread \subseteq Client
  /\ nkill \in 0..MaxKill /\ nfail \in 0..MaxFail /\ nscan \in 0..MaxFail
TypeFlags == reread \in BOOLEAN /\ hup \in BOOLEAN /\ stale \in BOOLEAN

(***************************************************************************)
(* Types.  Job numbers stay positive when nextjob overflows (get_newjobno) *)
(* and a printer thread that works has a job.                              *)
(***************************************************************************)
TypeOK == TypeMain /\ TypeFlags
-----------------------------------------------------------------------------
OnDisk(c) == \E i \in Id : ctl[i] = File(c, TRUE) /\ data[i].by = c

(***************************************************************************)
(* A job that was accepted (client_thread sends the response) has been     *)
(* sent to the printer or is complete on disk, where the next daemon finds *)
(* it: killing the daemon loses no job.  There are two exceptions: it is   *)
(* killed while a job has a number that the job number file does not yet   *)
(* account for (update_jobno is called by the printer thread only), and a  *)
(* daemon that starts fails to read the control file, and unlinks it       *)
(* together with the document (build_qonstart).                            *)
(***************************************************************************)
Durable ==
  \A c \in acked : printed[c] > 0 \/ OnDisk(c) \/ c \in unread \/ stale

(***************************************************************************)
(* The same without the exceptions.                                        *)
(***************************************************************************)
NoJobLost == \A c \in acked : printed[c] > 0 \/ OnDisk(c)

InMemory(c) ==
  \/ prn.job.by = c \/ cl[c].pc = "add"
  \/ \E k \in DOMAIN queue : queue[k].by = c
  \/ \E i \in main.todo : ctl[i].by = c

(***************************************************************************)
(* A running daemon never loses sight of a job on its spool: it is on the  *)
(* list, with the printer thread, about to be added or still to be found   *)
(* by build_qonstart, until it is printed or given up.  It is given up by  *)
(* this daemon when its data file cannot be opened, or at start-up when    *)
(* the directory or its control file cannot be opened (the next daemon may *)
(* find it), and for good when its control file was unlinked unread.       *)
(***************************************************************************)
Tracked ==
  daemon # "down" =>
    \A c \in acked :
      printed[c] > 0 \/ c \in cancelled \/ c \in unread \/ stale \/ InMemory(c)

Pending == (IF prn.job = NoJob THEN <<>> ELSE <<prn.job>>) \o queue

(***************************************************************************)
(* No job is on the list twice although three threads put jobs there: main *)
(* (build_qonstart), the client threads (add_job) and the printer thread   *)
(* (replace_job).                                                          *)
(***************************************************************************)
QueuedOnce ==
  stale \/ \A m, n \in DOMAIN Pending : Pending[m].id = Pending[n].id => m = n

(***************************************************************************)
(* What is printed for a client is that client's document: no two jobs     *)
(* ever share a number and so a data file (get_newjobno, init_request).    *)
(***************************************************************************)
OwnData == \A o \in out : o.by = o.job \/ stale

(***************************************************************************)
(* A document is printed more than once only as often as the printer       *)
(* failed to answer or the daemon died before the files were removed.      *)
(***************************************************************************)
PrintedOnce == \A c \in Client : printed[c] <= 1 + nfail + nkill

(***************************************************************************)
(* The printer thread never sleeps on a list that has a job, unless the    *)
(* signal is on its way: add_job signals after it has unlocked joblock.    *)
(***************************************************************************)
NoLostWakeup ==
  prn.pc = "wait" /\ queue # <<>> =>
    main.signal \/ \E c \in Client : cl[c].pc = "signal"

(***************************************************************************)
(* No change of the configuration is missed: a daemon that uses an old one *)
(* has the signal pending, the flag set, or is about to read the file      *)
(* (signal_thread against printer_thread).                                 *)
(***************************************************************************)
HupNotLost ==
  daemon # "down" /\ cfg < cfgfile =>
    \/ hup \/ reread \/ prn.pc = "init"
    \/ prn.pc = "resolve" /\ prn.no = cfgfile

(***************************************************************************)
(* A job that was accepted is printed in the end, through failures of the  *)
(* printer and deaths of the daemon, unless its number was forgotten, or   *)
(* build_qonstart unlinked it unread, or a running daemon gave it up: then *)
(* it has to wait for the next daemon, which may print it.                 *)
(***************************************************************************)
AcceptedPrinted ==
  \A c \in Client :
    (c \in acked) ~>
      (printed[c] > 0 \/ c \in cancelled \/ c \in unread \/ stale)
=============================================================================
