------------------------------ MODULE SpoolInv ------------------------------
(***************************************************************************)
(* The inductive invariant of the print spooler: who owns which job        *)
(* number, file and place on the list, at every control point of every     *)
(* thread, and what a daemon that died leaves behind.                      *)
(***************************************************************************)
EXTENDS PrintdInv, FiniteSets

(***************************************************************************)
(* There are fewer jobs than job numbers, so that nextjob never wraps; the *)
(* number file is wrong once it has, which the source says is not handled  *)
(* (update_jobno).                                                         *)
(***************************************************************************)
FewJobs == IsFiniteSet(Client) /\ StartFile + 1 + Cardinality(Client) <= JOB_MAX

\* Control points of a client thread: before it makes a control file, while
\* it has one that is not listed, before its job is listed, while it has a
\* job number, and at rest.
NoCtlPC == {"new", "number", "creat", "upload", "creat_ctl"}
CtlPC == {"write_ctl", "reply", "add"}
OpenPC == NoCtlPC \cup CtlPC
NumberedPC == {"creat", "upload", "creat_ctl"} \cup CtlPC
RestPC == {"new", "done", "failed"}

\* The printer thread has sent its job.
SentPC == {"status", "unlink_data", "unlink_ctl"}
-----------------------------------------------------------------------------
\* Clients that were given a job number.
Used == {c \in Client : cl[c].pc \notin {"new", "number"}}

\* Job numbers are counted up once per client, and the file never runs ahead.
NumberInv ==
  /\ nextjob <= StartFile + 1 + Cardinality(Used)
  /\ jobfile <= StartFile + 1 + Cardinality(Used)
  /\ daemon # "down" => jobfile <= nextjob
  /\ prn.pc = "update" => jobfile <= prn.no /\ prn.no <= nextjob
  /\ prn.pc = "resolve" => prn.no <= MaxHup

\* What is there to do when the daemon is down, and before it accepts.
PhaseInv ==
  /\ daemon = "down" =>
       main.todo = {} /\ queue = <<>> /\ prn.job = NoJob /\ prn.pc = "get"
  /\ daemon # "up" => \A c \in Client : cl[c].pc \in RestPC
  /\ daemon = "up" => main.todo = {}
  /\ \A c \in Client : cl[c].pc \in NumberedPC => cl[c].id \in Id

\* Every job and every complete control file is some client's.
OwnerType ==
  /\ \A k \in DOMAIN queue : queue[k].by \in Client
  /\ prn.job # NoJob => prn.job.by \in Client
  /\ \A i \in Id : ctl[i].whole => ctl[i].by \in Client

TypeInv == TypeMain /\ NumberInv /\ PhaseInv /\ OwnerType
-----------------------------------------------------------------------------
\* A client has at most one control file, and while its thread has not listed
\* the job that file has the thread's number.
CtlInv ==
  /\ \A i, j \in Id : ctl[i].by = ctl[j].by /\ ctl[i].by # Nobody => i = j
  /\ \A c \in Client, i \in Id : ctl[i].by = c =>
       /\ cl[c].pc \notin NoCtlPC
       /\ cl[c].pc \in CtlPC => i = cl[c].id

\* The daemon knows of a job in one place: its client thread, a control file
\* build_qonstart has still to read, the list, or the printer thread.
TokenInv ==
  /\ \A k, l \in DOMAIN queue : queue[k].by = queue[l].by => k = l
  /\ \A k \in DOMAIN queue :
       queue[k].by # prn.job.by /\ cl[queue[k].by].pc \notin OpenPC
  /\ prn.job # NoJob => cl[prn.job.by].pc \notin OpenPC
  /\ \A i \in main.todo : ctl[i].whole =>
       /\ ctl[i].by # prn.job.by
       /\ \A k \in DOMAIN queue : queue[k].by # ctl[i].by

\* The running daemon, or the next one, may yet print the job of c.
Again(c) ==
  \/ prn.job.by = c /\ prn.pc \notin SentPC
  \/ \E k \in DOMAIN queue : queue[k].by = c
  \/ cl[c].pc \in OpenPC
  \/ \E i \in main.todo : ctl[i].whole /\ ctl[i].by = c
  \/ daemon = "down"

\* A job that may yet be printed was printed at most once per failure or death.
CountInv ==
  /\ \A c \in Client : printed[c] <= nfail + nkill + (IF Again(c) THEN 0 ELSE 1)
  /\ prn.pc \in SentPC => printed[prn.job.by] > 0

KnownInv == CtlInv /\ TokenInv /\ CountInv
-----------------------------------------------------------------------------
\* The files behind a job on the list and behind the one being printed.
QueueOwns == \A k \in DOMAIN queue : ctl[queue[k].id] = File(queue[k].by, TRUE)
PrinterOwns ==
  /\ prn.job # NoJob => ctl[prn.job.id] = File(prn.job.by, TRUE)
  /\ prn.pc = "send" => data[prn.job.id].by = prn.job.by

\* The files of a client thread at each of its control points.
ClientOwns(c) ==
  /\ cl[c].pc \in NumberedPC => cl[c].id < nextjob
  /\ cl[c].pc \in {"creat", "upload", "creat_ctl"} => ~ctl[cl[c].id].whole
  /\ cl[c].pc = "write_ctl" => ctl[cl[c].id] = File(c, FALSE)
  /\ cl[c].pc \in {"reply", "add"} => ctl[cl[c].id] = File(c, TRUE)
  /\ cl[c].pc \in {"upload", "creat_ctl"} \cup CtlPC => data[cl[c].id].by = c
OwnNumbers ==
  \A c, d \in Client : cl[c].pc \in NumberedPC /\ cl[d].pc \in NumberedPC
                       /\ cl[c].id = cl[d].id => c = d

\* A complete control file has its data file, until the job was printed.
DataOwned ==
  \A i \in Id : ctl[i].whole =>
    data[i].by = ctl[i].by \/ (data[i] = NoFile /\ printed[ctl[i].by] > 0)

\* No number that is still to be handed out has a complete control file.  (It
\* may have one that was never completed, and that build_qonstart passed over.)
NumbersFree ==
  \A i \in Id :
    /\ daemon # "down" /\ i >= nextjob => ~ctl[i].whole
    /\ daemon = "down" /\ i >= jobfile => ~ctl[i].whole

OwnerInv ==
  /\ QueueOwns /\ PrinterOwns /\ (\A c \in Client : ClientOwns(c)) /\ OwnNumbers
  /\ DataOwned /\ NumbersFree

\* OwnData, Durable and Tracked as they are until a job number was forgotten.
OutOwned == \A o \in out : o.by = o.job
Kept == \A c \in acked : printed[c] > 0 \/ OnDisk(c) \/ c \in unread
Seen ==
  daemon # "down" =>
    \A c \in acked :
      printed[c] > 0 \/ c \in cancelled \/ c \in unread \/ InMemory(c)

Promise == OwnerInv /\ OutOwned /\ Kept /\ Seen

\* The inductive invariant.
SpoolerInv == TypeInv /\ TypeFlags /\ KnownInv /\ (stale \/ Promise)
=============================================================================
