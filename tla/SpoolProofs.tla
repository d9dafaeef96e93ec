---------------------------- MODULE SpoolProofs ----------------------------
(***************************************************************************)
(* Proofs for the print spooler, for any number of clients, deaths,        *)
(* failures and signals: the printer thread misses no job and no change of *)
(* the configuration; no accepted job is lost, listed twice or printed too *)
(* often, and a client's own document is printed, as long as job numbers   *)
(* do not wrap around (FewJobs).                                           *)
(*                                                                         *)
(* The invariant of the jobs is proved in layers, each from the ones       *)
(* before: types, job numbers and phases (TypeInv); the one place where    *)
(* the daemon knows of a job (KnownInv); owners of numbers and files       *)
(* (OwnerInv); what was accepted and sent.  Every layer has one lemma for  *)
(* the main thread, the client threads, the printer thread, and signals    *)
(* and deaths.                                                             *)
(***************************************************************************)
EXTENDS SpoolInv, FiniteSetTheorems, TLAPS

(***************************************************************************)
(* The printer thread misses no job and no change of the configuration.    *)
(***************************************************************************)
\* The part of the types these proofs rest on.
LightType ==
  /\ prn = [pc |-> prn.pc, job |-> prn.job, no |-> prn.no]
  /\ main = [todo |-> main.todo, signal |-> main.signal]
  /\ cl = [c \in Client |-> cl[c]]
  /\ \A c \in Client : cl[c] = [pc |-> cl[c].pc, id |-> cl[c].id]

WakeupInv == LightType /\ NoLostWakeup

(***************************************************************************)
(* The version in use is never newer than the file, and while the printer  *)
(* thread looks up an address the version it has read lies between them.   *)
(***************************************************************************)
ConfigInv ==
  /\ prn = [pc |-> prn.pc, job |-> prn.job, no |-> prn.no]
  /\ cfg \in Nat /\ cfgfile \in Nat /\ cfg <= cfgfile
  /\ prn.pc = "resolve" => prn.no \in Nat /\ cfg <= prn.no /\ prn.no <= cfgfile
  /\ HupNotLost

USE DEF At, Goto, PrinterAt, PrinterGoto, PrinterOnly, ClientOnly, Printer,
        Thread, Scanning, spool, config, ghosts, bounds
-----------------------------------------------------------------------------
\* The initial state satisfies the invariant of the condition variable.
LEMMA WakeupInit == Init => WakeupInv
BY DEF Init, WakeupInv, LightType, NoLostWakeup

\* Starting, scanning the spool and signalling (main thread).
LEMMA MainKeepsWakeup ==
  ASSUME WakeupInv, Start \/ MainStep PROVE WakeupInv'
<1> USE DEF WakeupInv, LightType, NoLostWakeup
<1>1. CASE Start
  BY <1>1 DEF Start
<1>2. ASSUME NEW i \in Id, Scan(i) PROVE WakeupInv'
  BY <1>2 DEF Scan
<1>3. CASE ScanSignal
  BY <1>3 DEF ScanSignal, Wake
<1>4. CASE Initialized
  BY <1>4 DEF Initialized
<1>5. ASSUME NEW S \in Unreached, Pass(S) PROVE WakeupInv'
  BY <1>5 DEF Pass
<1> QED BY <1>1, <1>2, <1>3, <1>4, <1>5 DEF MainStep

\* A client thread links its job and signals after that.
LEMMA ClientKeepsWakeup ==
  ASSUME NEW c \in Client, WakeupInv, ClientStep(c) PROVE WakeupInv'
<1> USE DEF WakeupInv, LightType, NoLostWakeup
<1>1. CASE Accept(c)
  BY <1>1 DEF Accept
<1>2. CASE GetNewJobNo(c)
  BY <1>2 DEF GetNewJobNo
<1>3. CASE CreatData(c)
  BY <1>3 DEF CreatData
<1>4. CASE Upload(c)
  BY <1>4 DEF Upload
<1>5. CASE CreatCtl(c)
  BY <1>5 DEF CreatCtl
<1>6. CASE WriteCtl(c)
  BY <1>6 DEF WriteCtl
<1>7. CASE SendResponse(c)
  BY <1>7 DEF SendResponse
<1>8. CASE AddJob(c)
  BY <1>8, SMTT(30) DEF AddJob
<1>9. CASE Signal(c)
  BY <1>9 DEF Signal, Wake
<1> QED BY <1>1, <1>2, <1>3, <1>4, <1>5, <1>6, <1>7, <1>8, <1>9 DEF ClientStep

\* The printer thread waits only when it finds the list empty.
LEMMA PrinterKeepsWakeup ==
  ASSUME WakeupInv, PrinterStep \/ SpuriousWakeup PROVE WakeupInv'
<1> USE DEF WakeupInv, LightType, NoLostWakeup
<1>1. CASE GetJob
  BY <1>1 DEF GetJob
<1>2. CASE UpdateFormat \/ UpdateWrite
  BY <1>2 DEF UpdateFormat, UpdateWrite
<1>3. CASE CheckConfig \/ InitPrinter \/ SetPrinter
  BY <1>3 DEF CheckConfig, InitPrinter, SetPrinter
<1>4. CASE OpenData \/ Send \/ PrinterStatus
  BY <1>4 DEF OpenData, Send, PrinterStatus
<1>5. CASE UnlinkData \/ UnlinkCtl
  BY <1>5 DEF UnlinkData, UnlinkCtl
<1>6. CASE ReplaceJob \/ WakeUp \/ SpuriousWakeup
  BY <1>6 DEF ReplaceJob, WakeUp, SpuriousWakeup
<1> QED BY <1>1, <1>2, <1>3, <1>4, <1>5, <1>6 DEF PrinterStep

\* Signals and deaths.
LEMMA SignalKeepsWakeup ==
  ASSUME WakeupInv, Reconfigure \/ HandleHup \/ Kill PROVE WakeupInv'
BY DEF Reconfigure, HandleHup, Kill, WakeupInv, LightType, NoLostWakeup

(***************************************************************************)
(* The printer thread never waits on a list that has a job unless a signal *)
(* is on its way (add_job, build_qonstart, printer_thread).                *)
(***************************************************************************)
THEOREM WakeupTheorem == Spec => []NoLostWakeup
<1>1. Init => WakeupInv
  BY WakeupInit
<1>2. WakeupInv /\ [Next]_vars => WakeupInv'
  <2> SUFFICES ASSUME WakeupInv, [Next]_vars PROVE WakeupInv'
    OBVIOUS
  <2>1. CASE Next
    BY <2>1, MainKeepsWakeup, ClientKeepsWakeup, PrinterKeepsWakeup,
       SignalKeepsWakeup DEF Next
  <2>2. CASE UNCHANGED vars
    BY <2>2 DEF vars, WakeupInv, LightType, NoLostWakeup
  <2> QED BY <2>1, <2>2
<1>3. WakeupInv => NoLostWakeup
  BY DEF WakeupInv
<1> QED BY <1>1, <1>2, <1>3, PTL DEF Spec
-----------------------------------------------------------------------------
\* The configuration is set up by the initial state.
LEMMA ConfigInit == Init => ConfigInv
BY DEF Init, ConfigInv, HupNotLost

\* Only Start, the configuration steps of the printer thread and the signals
\* touch the configuration.
LEMMA ConfigSteps ==
  ASSUME ConfigInv,
         Start \/ CheckConfig \/ InitPrinter \/ SetPrinter \/ Reconfigure
           \/ HandleHup \/ Kill
  PROVE  ConfigInv'
<1> USE DEF ConfigInv, HupNotLost
<1>1. CASE Start \/ Kill
  BY <1>1 DEF Start, Kill
<1>2. CASE CheckConfig
  BY <1>2 DEF CheckConfig
<1>3. CASE InitPrinter
  BY <1>3 DEF InitPrinter
<1>4. CASE SetPrinter
  BY <1>4 DEF SetPrinter
<1>5. CASE Reconfigure \/ HandleHup
  BY <1>5 DEF Reconfigure, HandleHup
<1> QED BY <1>1, <1>2, <1>3, <1>4, <1>5

\* A step of another thread, or one of the printer thread that neither starts
\* nor ends with the configuration, leaves the invariant alone.
LEMMA ConfigUntouched ==
  ASSUME ConfigInv, UNCHANGED config,
         daemon' = "down" <=> daemon = "down",
         \/ UNCHANGED prn
         \/ /\ prn' = [pc |-> prn'.pc, job |-> prn'.job, no |-> prn'.no]
            /\ prn.pc \notin {"init", "resolve"}
            /\ prn'.pc \notin {"init", "resolve"}
  PROVE  ConfigInv'
BY DEF ConfigInv, HupNotLost

\* All other steps.
LEMMA OthersKeepConfig ==
  ASSUME ConfigInv,
         \/ MainStep \/ SpuriousWakeup \/ (\E c \in Client : ClientStep(c))
         \/ GetJob \/ UpdateFormat \/ UpdateWrite \/ OpenData \/ Send
         \/ PrinterStatus \/ UnlinkData \/ UnlinkCtl \/ ReplaceJob \/ WakeUp
  PROVE  ConfigInv'
<1>0. prn = [pc |-> prn.pc, job |-> prn.job, no |-> prn.no]
  BY DEF ConfigInv
<1>1. CASE MainStep
  BY <1>0, <1>1, ConfigUntouched
     DEF MainStep, Scan, Pass, ScanSignal, Initialized, Wake
<1>2. ASSUME NEW c \in Client, ClientStep(c) PROVE ConfigInv'
  <2>1. CASE Signal(c)
    BY <1>0, <2>1, ConfigUntouched DEF Signal, Wake
  <2>2. CASE ~Signal(c)
    BY <1>2, <2>2, ConfigUntouched
       DEF ClientStep, Accept, GetNewJobNo, CreatData, Upload, CreatCtl,
           WriteCtl, SendResponse, AddJob
  <2> QED BY <2>1, <2>2
<1>3. CASE GetJob \/ UpdateFormat \/ UpdateWrite \/ SpuriousWakeup
  BY <1>0, <1>3, ConfigUntouched
     DEF GetJob, UpdateFormat, UpdateWrite, SpuriousWakeup
<1>4. CASE OpenData \/ Send \/ PrinterStatus
  BY <1>0, <1>4, ConfigUntouched DEF OpenData, Send, PrinterStatus
<1>5. CASE UnlinkData \/ UnlinkCtl \/ ReplaceJob \/ WakeUp
  BY <1>0, <1>5, ConfigUntouched DEF UnlinkData, UnlinkCtl, ReplaceJob, WakeUp
<1> QED BY <1>1, <1>2, <1>3, <1>4, <1>5

(***************************************************************************)
(* A daemon that works with an old configuration knows it: a SIGHUP that   *)
(* arrives while the file is being read, or its address looked up, is not  *)
(* lost (signal_thread, printer_thread).                                   *)
(***************************************************************************)
THEOREM HupTheorem == Spec => []HupNotLost
<1>1. Init => ConfigInv
  BY ConfigInit
<1>2. ConfigInv /\ [Next]_vars => ConfigInv'
  <2> SUFFICES ASSUME ConfigInv, [Next]_vars PROVE ConfigInv'
    OBVIOUS
  <2>1. CASE Next
    BY <2>1, ConfigSteps, OthersKeepConfig DEF Next, PrinterStep
  <2>2. CASE UNCHANGED vars
    BY <2>2, ConfigUntouched DEF vars
  <2> QED BY <2>1, <2>2
<1>3. ConfigInv => HupNotLost
  BY DEF ConfigInv
<1> QED BY <1>1, <1>2, <1>3, PTL DEF Spec
-----------------------------------------------------------------------------
USE DEF At, Goto, PrinterAt, PrinterGoto, PrinterOnly, ClientOnly, Printer,
        Thread, File, Job, Fail, ScanFail, Scanning, Wake, Unlink, spool, config,
        ghosts, bounds
-----------------------------------------------------------------------------
(***************************************************************************)
(* Types, job numbers and phases.                                          *)
(***************************************************************************)

\* The constants, and the values that stand for no job and no file.
LEMMA ConstFacts ==
  /\ JOB_MAX \in Nat \ {0} /\ StartFile \in Nat /\ 0 \notin Id /\ Id \subseteq Nat
  /\ NoJob \notin JobType /\ NoFile \in FileType
  /\ \A i \in Id : i \in Nat /\ 1 <= i /\ i <= JOB_MAX
  /\ NoJob = [id |-> 0, by |-> Nobody]
BY BoundAssumption DEF Id, NoJob, JobType, NoFile, FileType

\* Adding a job at the end of the list (add_job).
LEMMA AppendFacts ==
  ASSUME NEW S, NEW s \in Seq(S), NEW x \in S
  PROVE  /\ Append(s, x) \in Seq(S) /\ Len(s) \in Nat
         /\ DOMAIN s = 1..Len(s) /\ DOMAIN Append(s, x) = 1..(Len(s) + 1)
         /\ Append(s, x)[Len(s) + 1] = x
         /\ \A k \in DOMAIN s : Append(s, x)[k] = s[k]
  OBVIOUS

\* Taking the first job off the list (printer_thread).
LEMMA TailFacts ==
  ASSUME NEW S, NEW s \in Seq(S), s # <<>>
  PROVE  /\ Head(s) \in S /\ Tail(s) \in Seq(S) /\ Len(s) \in Nat
         /\ DOMAIN s = 1..Len(s) /\ DOMAIN Tail(s) = 1..(Len(s) - 1)
         /\ 1 \in DOMAIN s /\ Head(s) = s[1]
         /\ \A k \in DOMAIN Tail(s) : k + 1 \in DOMAIN s /\ Tail(s)[k] = s[k + 1]
  OBVIOUS

\* Putting a job back at the head of the list (replace_job).
LEMMA ConsFacts ==
  ASSUME NEW S, NEW s \in Seq(S), NEW x \in S
  PROVE  /\ <<x>> \o s \in Seq(S) /\ Len(s) \in Nat
         /\ DOMAIN s = 1..Len(s) /\ DOMAIN (<<x>> \o s) = 1..(Len(s) + 1)
         /\ (<<x>> \o s)[1] = x
         /\ \A k \in DOMAIN (<<x>> \o s) :
              k # 1 => k - 1 \in DOMAIN s /\ (<<x>> \o s)[k] = s[k - 1]
  OBVIOUS

\* Creating, completing and removing a file keeps the spool a spool.
LEMMA FileFacts ==
  ASSUME NEW f \in [Id -> FileType], NEW i
  PROVE  /\ \A c \in Client, w \in BOOLEAN :
              [f EXCEPT ![i] = File(c, w)] \in [Id -> FileType]
         /\ [f EXCEPT ![i] = NoFile] \in [Id -> FileType]
         /\ \A w \in BOOLEAN : [f EXCEPT ![i].whole = w] \in [Id -> FileType]
<1>1. \A c \in Client, w \in BOOLEAN : File(c, w) \in FileType
  BY DEF FileType
<1>2. NoFile \in FileType
  BY DEF FileType, NoFile
<1>3. \A w \in BOOLEAN : [f EXCEPT ![i].whole = w] \in [Id -> FileType]
  BY DEF FileType
<1> QED BY <1>1, <1>2, <1>3

\* The clients that have a number are no more than there are clients.
LEMMA UsedFacts ==
  ASSUME FewJobs
  PROVE  /\ Cardinality(Used) \in Nat /\ Cardinality(Client) \in Nat
         /\ Cardinality(Used) <= Cardinality(Client)
         /\ \A c \in Client \ Used : Cardinality(Used) < Cardinality(Client)
<1>1. IsFiniteSet(Client) /\ Used \subseteq Client
  BY DEF FewJobs, Used
<1>2. IsFiniteSet(Used) /\ Cardinality(Used) <= Cardinality(Client)
  BY <1>1, FS_Subset
<1>3. Cardinality(Used) \in Nat /\ Cardinality(Client) \in Nat
  BY <1>1, <1>2, FS_CardinalityType
<1>4. ASSUME NEW c \in Client \ Used PROVE Cardinality(Used) < Cardinality(Client)
  <2>1. Used # Client
    OBVIOUS
  <2>2. Cardinality(Used) = Cardinality(Client) => Used = Client
    BY <1>1, FS_Subset
  <2> QED BY <2>1, <2>2, <1>2, <1>3
<1> QED BY <1>2, <1>3, <1>4

\* A client that was given a number stays one that was.
LEMMA UsedGrows ==
  ASSUME FewJobs, \A c \in Client : cl[c].pc \notin {"new", "number"} =>
                                      cl'[c].pc \notin {"new", "number"}
  PROVE  /\ Cardinality(Used) \in Nat /\ Cardinality(Used') \in Nat
         /\ Cardinality(Used) <= Cardinality(Used')
<1>1. IsFiniteSet(Client) /\ Used \subseteq Used' /\ Used' \subseteq Client
  BY DEF FewJobs, Used
<1>2. IsFiniteSet(Used')
  BY <1>1, FS_Subset
<1> QED BY <1>1, <1>2, FS_Subset, FS_CardinalityType

\* A client is given a number once.
LEMMA UsedAdded ==
  ASSUME FewJobs, NEW c \in Client, c \notin Used, Used' = Used \cup {c}
  PROVE  Cardinality(Used') = Cardinality(Used) + 1
<1>1. IsFiniteSet(Used)
  BY FS_Subset DEF FewJobs, Used
<1> QED BY <1>1, FS_AddElement

\* The first daemon has not started.
LEMMA TypeInit == FewJobs /\ Init => TypeInv
<1> SUFFICES ASSUME FewJobs, Init PROVE TypeInv
  OBVIOUS
<1> USE ConstFacts, UsedFacts, BoundAssumption DEF Init
<1>1. TypeMain
  BY DEF TypeMain, FileType, ClientLabel, IdlePC, BusyPC
<1>2. NumberInv
  BY DEF NumberInv
<1>3. PhaseInv /\ OwnerType
  BY DEF PhaseInv, OwnerType, NoFile, NumberedPC, RestPC, CtlPC
<1> QED BY <1>1, <1>2, <1>3 DEF TypeInv

\* Start-up, build_qonstart and its signals keep the types.
LEMMA MainKeepsType ==
  ASSUME FewJobs, TypeInv, Start \/ MainStep PROVE TypeInv'
<1> USE ConstFacts DEF TypeInv
<1>0. UNCHANGED cl
  BY DEF Start, MainStep, Scan, Pass, ScanSignal, Initialized
<1>u. Cardinality(Used) \in Nat /\ Cardinality(Used') \in Nat
      /\ Cardinality(Used) <= Cardinality(Used')
  BY <1>0, UsedGrows
<1>1. CASE Start
  <2>1. TypeMain'
    <3>1. nextjob' \in 1..JOB_MAX
      <4>1. nextjob' = (IF jobfile = 0 THEN 1 ELSE jobfile) /\ jobfile \in Nat
        BY <1>1 DEF Start, TypeMain
      <4>2. jobfile <= StartFile + 1 + Cardinality(Used)
        BY DEF NumberInv
      <4> QED BY <4>1, <4>2, UsedFacts DEF FewJobs
    <3>2. main' \in [todo: SUBSET Id, signal: BOOLEAN]
      BY <1>1 DEF Start
    <3>3. /\ prn' \in [pc: IdlePC \cup BusyPC, job: JobType \cup {NoJob}, no: Nat]
          /\ prn'.pc \in BusyPC <=> prn'.job # NoJob
      BY <1>1 DEF Start, IdlePC, BusyPC
    <3> QED BY <1>1, <3>1, <3>2, <3>3, SMTT(30) DEF Start, TypeMain
  <2>2. NumberInv'
    BY <1>1, <1>u, SMTT(30) DEF Start, TypeMain, NumberInv
  <2>3. PhaseInv' /\ OwnerType'
    BY <1>1 DEF Start, TypeMain, PhaseInv, OwnerType
  <2> QED BY <2>1, <2>2, <2>3
<1>2. ASSUME NEW i \in Id, Scan(i) PROVE TypeInv'
  <2>1. NumberInv'
    BY <1>2, <1>u, SMTT(30) DEF Scan, TypeMain, NumberInv
  <2>2. PhaseInv'
    BY <1>2 DEF Scan, TypeMain, PhaseInv
  <2>0. /\ unread' = unread \/ (ctl[i].whole /\ unread' = unread \cup {ctl[i].by})
        /\ nscan' = nscan \/ (nfail + nscan < MaxFail /\ nscan' = nscan + 1)
    BY <1>2 DEF Scan
  <2>00. unread' \subseteq Client /\ nscan' \in 0..MaxFail
    <3>1. unread \subseteq Client /\ nscan \in 0..MaxFail /\ nfail \in 0..MaxFail
      BY DEF TypeMain
    <3>2. ctl[i].whole => ctl[i].by \in Client
      BY DEF OwnerType
    <3>3. unread' \subseteq Client
      BY ONLY <2>0, <3>1, <3>2
    <3>4. nscan' \in 0..MaxFail
      BY ONLY <2>0, <3>1, BoundAssumption
    <3> QED BY ONLY <3>3, <3>4
  <2>3. CASE /\ ctl' = [ctl EXCEPT ![i] = NoFile] /\ data' = [data EXCEPT ![i] = NoFile]
             /\ main' = [main EXCEPT !.todo = @ \ {i}] /\ UNCHANGED queue
    <3>1. /\ ctl' = [ctl EXCEPT ![i] = NoFile] /\ data' = [data EXCEPT ![i] = NoFile]
          /\ main' = [main EXCEPT !.todo = @ \ {i}]
          /\ UNCHANGED <<daemon, nextjob, jobfile, queue, cl, prn, config, ghosts,
                         stale, nkill, nfail>>
      BY <1>2, <2>3 DEF Scan
    <3>2. data' \in [Id -> FileType] /\ ctl' \in [Id -> FileType]
      BY <3>1 DEF TypeMain
    <3>3. main' \in [todo: SUBSET Id, signal: BOOLEAN]
      BY <3>1 DEF TypeMain
    <3>4. TypeMain'
      BY ONLY TypeMain, <2>00, <3>1, <3>2, <3>3 DEF TypeMain, config, ghosts
    <3>5. OwnerType'
      BY <3>1 DEF TypeMain, OwnerType, NoFile
    <3> QED BY <2>1, <2>2, <3>4, <3>5
  <2>4. CASE ctl[i].whole /\ queue' = Append(queue, Job(i, ctl[i].by)) /\ UNCHANGED spool
    <3>1. /\ queue' = Append(queue, Job(i, ctl[i].by)) /\ queue \in Seq(JobType)
          /\ main' = [todo |-> main.todo \ {i}, signal |-> TRUE]
          /\ UNCHANGED <<daemon, nextjob, jobfile, spool, cl, prn, config, ghosts,
                         bounds>>
      BY <1>2, <2>4 DEF Scan, TypeMain
    <3>2. Job(i, ctl[i].by) \in JobType /\ ctl[i].by \in Client
      BY <2>4 DEF OwnerType, JobType
    <3>3. main' \in [todo: SUBSET Id, signal: BOOLEAN]
      BY <3>1 DEF TypeMain
    <3>4. /\ queue' \in Seq(JobType)
          /\ \A k \in DOMAIN queue' : \/ queue'[k] = Job(i, ctl[i].by)
                                      \/ k \in DOMAIN queue /\ queue'[k] = queue[k]
      BY <3>1, <3>2, AppendFacts
    <3>5. TypeMain'
      BY ONLY TypeMain, <3>1, <3>3, <3>4 DEF TypeMain, config, ghosts, bounds, spool
    <3>6. OwnerType'
      BY <3>1, <3>2, <3>4 DEF OwnerType
    <3> QED BY <2>1, <2>2, <3>5, <3>6
  <2> QED BY <1>2, <2>3, <2>4 DEF Scan
<1>3. CASE ScanSignal
  <2>1. TypeMain'
    BY <1>3 DEF ScanSignal, TypeMain, IdlePC, BusyPC
  <2>2. NumberInv'
    BY <1>3, <1>u, SMTT(30) DEF ScanSignal, TypeMain, NumberInv
  <2>3. PhaseInv' /\ OwnerType'
    BY <1>3 DEF ScanSignal, TypeMain, PhaseInv, OwnerType
  <2> QED BY <2>1, <2>2, <2>3
<1>4. CASE Initialized
  <2>1. TypeMain'
    BY <1>4 DEF Initialized, TypeMain
  <2>2. NumberInv'
    BY <1>4, <1>u DEF Initialized, TypeMain, NumberInv
  <2>3. PhaseInv' /\ OwnerType'
    BY <1>4 DEF Initialized, TypeMain, PhaseInv, OwnerType
  <2> QED BY <2>1, <2>2, <2>3
<1>5. ASSUME NEW S \in Unreached, Pass(S) PROVE TypeInv'
  <2>1. /\ UNCHANGED <<daemon, nextjob, jobfile, spool, queue, cl, prn, config, acked,
                       printed, out, stale, unread, nkill, nfail>>
        /\ daemon = "starting" /\ nfail + nscan < MaxFail /\ nscan' = nscan + 1
        /\ main' = [main EXCEPT !.todo = @ \ S]
        /\ cancelled' = cancelled \cup {ctl[i].by : i \in {j \in S : ctl[j].whole}}
    BY <1>5 DEF Pass
  <2>2. main' \in [todo: SUBSET Id, signal: BOOLEAN] /\ main'.todo \subseteq main.todo
    BY <2>1 DEF TypeMain
  <2>3. \A i \in S : i \in Id
    BY <1>5 DEF Unreached, TypeMain
  <2>4. cancelled' \subseteq Client
    BY <2>1, <2>3 DEF TypeMain, OwnerType
  <2>5. nscan' \in 0..MaxFail
    BY <2>1, BoundAssumption, SMTT(30) DEF TypeMain
  <2>6. TypeMain'
    BY ONLY TypeMain, <2>1, <2>2, <2>4, <2>5 DEF TypeMain, config, spool
  <2>7. NumberInv'
    BY <2>1, <1>u, SMTT(30) DEF TypeMain, NumberInv
  <2>8. PhaseInv' /\ OwnerType'
    BY <2>1, <2>2 DEF PhaseInv, OwnerType
  <2> QED BY <2>6, <2>7, <2>8
<1> QED BY <1>1, <1>2, <1>3, <1>4, <1>5 DEF MainStep

\* A client thread that moves on keeps its number, and job numbers are not
\* handed out.
LEMMA ClientMoves ==
  ASSUME FewJobs, TypeInv, NEW c \in Client, NEW label \in ClientLabel,
         Goto(c, label), daemon = "up" \/ cl[c].pc \notin RestPC,
         label \in {"new", "number"} => cl[c].pc \in {"new", "number"},
         label \in NumberedPC => cl[c].pc \in NumberedPC,
         UNCHANGED <<daemon, nextjob, jobfile, main>>,
         prn'.pc \in {"update", "resolve"} => prn' = prn
  PROVE  /\ NumberInv' /\ PhaseInv'
         /\ cl' \in [Client -> [pc: ClientLabel, id: 0..JOB_MAX]]
<1> USE DEF TypeInv
<1>1. cl' \in [Client -> [pc: ClientLabel, id: 0..JOB_MAX]]
  BY DEF TypeMain
<1>2. \A d \in Client : cl[d].pc \notin {"new", "number"} =>
          cl'[d].pc \notin {"new", "number"}
  BY DEF TypeMain
<1>3. daemon' = "up" /\ daemon = "up"
  BY DEF PhaseInv, TypeMain
<1>4. PhaseInv'
  BY <1>3 DEF TypeMain, PhaseInv
<1>5. /\ Cardinality(Used) \in Nat /\ Cardinality(Used') \in Nat
      /\ Cardinality(Used) <= Cardinality(Used')
  BY <1>2, UsedGrows
<1>6. NumberInv'
  BY <1>5, ConstFacts, SMTT(30) DEF TypeMain, NumberInv
<1> QED BY <1>1, <1>4, <1>6

\* The client threads keep the types; the number get_newjobno hands out is
\* below the largest one.
LEMMA ClientKeepsType ==
  ASSUME FewJobs, TypeInv, NEW c \in Client, ClientStep(c) PROVE TypeInv'
<1> USE ConstFacts DEF TypeInv
<1> USE DEF ClientLabel, NumberedPC, CtlPC, RestPC
<1>1. CASE Accept(c)
  <2>1. /\ NumberInv' /\ PhaseInv'
        /\ cl' \in [Client -> [pc: ClientLabel, id: 0..JOB_MAX]]
    BY <1>1, ClientMoves DEF Accept
  <2>2. TypeMain' /\ OwnerType'
    BY <1>1, <2>1 DEF Accept, TypeMain, OwnerType
  <2> QED BY <2>1, <2>2
<1>2. CASE GetNewJobNo(c)
  <2>0. daemon = "up" /\ cl[c].pc = "number" /\ nextjob \in 1..JOB_MAX
    <3>1. daemon # "down" /\ cl[c].pc = "number"
      BY <1>2 DEF GetNewJobNo
    <3>2. daemon = "up"
      BY <3>1 DEF PhaseInv
    <3>3. nextjob \in 0..JOB_MAX /\ nextjob # 0
      BY <3>1 DEF TypeMain
    <3> QED BY <3>1, <3>2, <3>3
  <2>1. Used' = Used \cup {c} /\ c \notin Used
    BY <1>2 DEF GetNewJobNo, Used, TypeMain
  <2>2. /\ Cardinality(Used') = Cardinality(Used) + 1 /\ Cardinality(Used) \in Nat
        /\ Cardinality(Client) \in Nat /\ Cardinality(Used) < Cardinality(Client)
    BY <2>1, UsedAdded, UsedFacts
  <2>3. nextjob < JOB_MAX /\ nextjob' = nextjob + 1
    BY <1>2, <2>0, <2>2 DEF GetNewJobNo, NumberInv, FewJobs
  <2>4. cl' \in [Client -> [pc: ClientLabel, id: 0..JOB_MAX]]
    BY <1>2, <2>0 DEF GetNewJobNo, TypeMain
  <2>5. TypeMain' /\ OwnerType'
    <3>1. UNCHANGED <<daemon, jobfile, main, config, ghosts, bounds, spool, queue, prn>>
      BY <1>2 DEF GetNewJobNo
    <3>2. nextjob' \in 0..JOB_MAX /\ nextjob' # 0
      BY <2>0, <2>3
    <3> QED BY ONLY <3>1, <3>2, <2>4, TypeMain, OwnerType
            DEF TypeMain, OwnerType, config, ghosts, bounds, spool
  <2>6. PhaseInv'
    BY <1>2, <2>0, <2>3 DEF GetNewJobNo, TypeMain, PhaseInv, Id
  <2>7. NumberInv'
    BY <1>2, <2>0, <2>2, <2>3, SMTT(30) DEF GetNewJobNo, TypeMain, NumberInv
  <2> QED BY <2>5, <2>6, <2>7
<1>3. CASE CreatData(c)
  <2>1. /\ NumberInv' /\ PhaseInv'
        /\ cl' \in [Client -> [pc: ClientLabel, id: 0..JOB_MAX]]
    BY <1>3, ClientMoves DEF CreatData
  <2>2. data' \in [Id -> FileType]
    <3>1. /\ data \in [Id -> FileType]
          /\ data' = [data EXCEPT ![cl[c].id] = File(c, FALSE)] \/ data' = data
      BY <1>3 DEF CreatData, TypeMain
    <3> QED BY <3>1, FileFacts
  <2>3. TypeMain' /\ OwnerType'
    BY <1>3, <2>1, <2>2 DEF CreatData, TypeMain, OwnerType
  <2> QED BY <2>1, <2>3
<1>4. CASE Upload(c)
  <2>1. /\ NumberInv' /\ PhaseInv'
        /\ cl' \in [Client -> [pc: ClientLabel, id: 0..JOB_MAX]]
    BY <1>4, ClientMoves DEF Upload
  <2>2. data' \in [Id -> FileType]
    <3>1. /\ data \in [Id -> FileType]
          /\ \/ \E w \in BOOLEAN : data' = [data EXCEPT ![cl[c].id].whole = w]
             \/ data' = [data EXCEPT ![cl[c].id] = NoFile] \/ data' = data
      BY <1>4 DEF Upload, TypeMain
    <3> QED BY <3>1, FileFacts
  <2>3. TypeMain' /\ OwnerType'
    BY <1>4, <2>1, <2>2 DEF Upload, TypeMain, OwnerType
  <2> QED BY <2>1, <2>3
<1>5. CASE CreatCtl(c)
  <2>1. /\ NumberInv' /\ PhaseInv'
        /\ cl' \in [Client -> [pc: ClientLabel, id: 0..JOB_MAX]]
    BY <1>5, ClientMoves DEF CreatCtl
  <2>2. data' \in [Id -> FileType] /\ ctl' \in [Id -> FileType]
    <3>1. /\ data \in [Id -> FileType] /\ ctl \in [Id -> FileType]
          /\ data' = data \/ data' = [data EXCEPT ![cl[c].id] = NoFile]
          /\ \/ ctl' = [ctl EXCEPT ![cl[c].id] = File(c, FALSE)]
             \/ ctl' = [ctl EXCEPT ![cl[c].id] = NoFile] \/ ctl' = ctl
      BY <1>5 DEF CreatCtl, TypeMain
    <3> QED BY <3>1, FileFacts
  <2>3. TypeMain'
    BY <1>5, <2>1, <2>2 DEF CreatCtl, TypeMain
  <2>4. OwnerType'
    <3>1. /\ ctl \in [Id -> FileType] /\ UNCHANGED <<queue, prn>>
          /\ \/ ctl' = [ctl EXCEPT ![cl[c].id] = File(c, FALSE)]
             \/ ctl' = [ctl EXCEPT ![cl[c].id] = NoFile] \/ ctl' = ctl
      BY <1>5 DEF CreatCtl, TypeMain
    <3> QED BY ONLY <3>1, OwnerType DEF OwnerType, NoFile, File
  <2> QED BY <2>1, <2>3, <2>4
<1>6. CASE WriteCtl(c)
  <2>1. /\ NumberInv' /\ PhaseInv'
        /\ cl' \in [Client -> [pc: ClientLabel, id: 0..JOB_MAX]]
    BY <1>6, ClientMoves DEF WriteCtl
  <2>2. data' \in [Id -> FileType] /\ ctl' \in [Id -> FileType]
    <3>1. /\ data \in [Id -> FileType] /\ ctl \in [Id -> FileType]
          /\ data' = data \/ data' = [data EXCEPT ![cl[c].id] = NoFile]
          /\ \/ ctl' = [ctl EXCEPT ![cl[c].id] = File(c, TRUE)]
             \/ ctl' = [ctl EXCEPT ![cl[c].id] = NoFile] \/ ctl' = ctl
      BY <1>6 DEF WriteCtl, TypeMain
    <3> QED BY <3>1, FileFacts
  <2>3. TypeMain'
    BY <1>6, <2>1, <2>2 DEF WriteCtl, TypeMain
  <2>4. OwnerType'
    <3>1. /\ ctl \in [Id -> FileType] /\ UNCHANGED <<queue, prn>>
          /\ \/ ctl' = [ctl EXCEPT ![cl[c].id] = File(c, TRUE)]
             \/ ctl' = [ctl EXCEPT ![cl[c].id] = NoFile] \/ ctl' = ctl
      BY <1>6 DEF WriteCtl, TypeMain
    <3> QED BY ONLY <3>1, OwnerType DEF OwnerType, NoFile, File
  <2> QED BY <2>1, <2>3, <2>4
<1>7. CASE SendResponse(c)
  <2>1. /\ NumberInv' /\ PhaseInv'
        /\ cl' \in [Client -> [pc: ClientLabel, id: 0..JOB_MAX]]
    BY <1>7, ClientMoves DEF SendResponse
  <2>2. TypeMain' /\ OwnerType'
    BY <1>7, <2>1 DEF SendResponse, TypeMain, OwnerType
  <2> QED BY <2>1, <2>2
<1>8. CASE AddJob(c)
  <2>1. /\ NumberInv' /\ PhaseInv'
        /\ cl' \in [Client -> [pc: ClientLabel, id: 0..JOB_MAX]]
    BY <1>8, ClientMoves DEF AddJob
  <2>2. Job(cl[c].id, c) \in JobType
    BY <1>8 DEF AddJob, PhaseInv, JobType
  <2>3. /\ queue' \in Seq(JobType)
        /\ \A k \in DOMAIN queue' : \/ queue'[k] = Job(cl[c].id, c)
                                    \/ k \in DOMAIN queue /\ queue'[k] = queue[k]
    BY <1>8, <2>2, AppendFacts DEF AddJob, TypeMain
  <2>4. UNCHANGED <<daemon, nextjob, jobfile, main, config, ghosts, bounds, spool, prn>>
    BY <1>8 DEF AddJob
  <2>5. TypeMain'
    BY ONLY <2>1, <2>3, <2>4, TypeMain DEF TypeMain, config, ghosts, bounds, spool
  <2>6. OwnerType'
    BY <2>3, <2>4 DEF OwnerType
  <2> QED BY <2>1, <2>5, <2>6
<1>9. CASE Signal(c)
  <2>1. /\ NumberInv' /\ PhaseInv'
        /\ cl' \in [Client -> [pc: ClientLabel, id: 0..JOB_MAX]]
    <3>1. prn'.pc \in {"update", "resolve"} => prn' = prn
      BY <1>9 DEF Signal, TypeMain
    <3> QED BY <1>9, <3>1, ClientMoves DEF Signal
  <2>2. TypeMain' /\ OwnerType'
    BY <1>9, <2>1 DEF Signal, TypeMain, OwnerType, IdlePC, BusyPC
  <2> QED BY <2>1, <2>2
<1> QED BY <1>1, <1>2, <1>3, <1>4, <1>5, <1>6, <1>7, <1>8, <1>9 DEF ClientStep

\* The printer thread runs in a daemon that is not down, and moves nobody else.
LEMMA PrinterMoves ==
  ASSUME TypeInv, PrinterOnly, daemon # "down", FewJobs,
         \/ /\ UNCHANGED jobfile
            /\ prn'.pc = "update" => prn'.no = nextjob \/ prn' = prn
         \/ prn.pc = "update" /\ prn'.pc # "update" /\ jobfile' = prn.no,
         prn'.pc = "resolve" => prn'.no <= MaxHup
  PROVE  NumberInv' /\ PhaseInv'
<1> USE ConstFacts DEF TypeInv
<1>1. Cardinality(Used) \in Nat /\ Used' = Used
  BY UsedFacts DEF Used
<1>2. NumberInv'
  BY <1>1 DEF NumberInv, TypeMain
<1>3. PhaseInv'
  BY DEF PhaseInv
<1> QED BY <1>2, <1>3

\* The printer thread keeps the types; update_jobno writes a number that is
\* not smaller than the one in the file, so that no digit of that one stays.
LEMMA PrinterKeepsType ==
  ASSUME FewJobs, TypeInv, PrinterStep \/ SpuriousWakeup PROVE TypeInv'
<1> USE ConstFacts DEF TypeInv
<1> DEFINE PrnType == [pc: IdlePC \cup BusyPC, job: JobType \cup {NoJob}, no: Nat]
<1>0. /\ prn \in PrnType /\ (prn.pc \in BusyPC <=> prn.job # NoJob)
      /\ NoJob \notin JobType /\ queue \in Seq(JobType) /\ jobfile \in Nat
      /\ nextjob \in Nat
  BY DEF TypeMain
<1>1. CASE GetJob
  <2>1. CASE queue = <<>>
    <3>1. UNCHANGED <<queue, jobfile, spool, config, ghosts, bounds>> /\ PrinterOnly
          /\ PrinterAt("get") /\ PrinterGoto("wait")
      BY <1>1, <2>1 DEF GetJob
    <3>2. prn' \in PrnType /\ (prn'.pc \in BusyPC <=> prn'.job # NoJob)
          /\ prn'.pc = "wait" /\ prn'.job = prn.job
      BY <1>0, <3>1 DEF IdlePC, BusyPC
    <3>3. NumberInv' /\ PhaseInv'
      BY <3>1, <3>2, PrinterMoves
    <3>4. TypeMain'
      BY ONLY TypeMain, <3>1, <3>2 DEF TypeMain, config, ghosts, bounds, spool,
         PrinterOnly
    <3>5. OwnerType'
      BY <3>1, <3>2 DEF OwnerType
    <3> QED BY <3>3, <3>4, <3>5
  <2>2. CASE queue # <<>>
    <3>1. UNCHANGED <<jobfile, spool, config, ghosts, bounds>> /\ PrinterOnly
          /\ PrinterAt("get") /\ prn' = Printer("format", Head(queue), 0)
          /\ queue' = Tail(queue)
      BY <1>1, <2>2 DEF GetJob
    <3>2. /\ queue' \in Seq(JobType) /\ Head(queue) \in JobType
          /\ Head(queue) = queue[1] /\ 1 \in DOMAIN queue
          /\ \A k \in DOMAIN queue' : k + 1 \in DOMAIN queue /\ queue'[k] = queue[k + 1]
      BY <1>0, <2>2, <3>1, TailFacts
    <3>3. prn' \in PrnType /\ (prn'.pc \in BusyPC <=> prn'.job # NoJob)
          /\ prn'.pc = "format" /\ prn'.job = Head(queue)
      BY <1>0, <3>1, <3>2 DEF IdlePC, BusyPC
    <3>4. NumberInv' /\ PhaseInv'
      BY <3>1, <3>3, PrinterMoves
    <3>5. TypeMain'
      BY ONLY TypeMain, <3>1, <3>2, <3>3 DEF TypeMain, config, ghosts, bounds, spool,
         PrinterOnly
    <3>6. OwnerType'
      BY <3>1, <3>2, <3>3 DEF OwnerType
    <3> QED BY <3>4, <3>5, <3>6
  <2> QED BY <2>1, <2>2
<1>2. CASE UpdateFormat \/ WakeUp \/ SpuriousWakeup
  <2>1. UNCHANGED <<queue, jobfile, spool, config, ghosts, bounds>> /\ PrinterOnly
        /\ daemon # "down"
    BY <1>2 DEF UpdateFormat, WakeUp, SpuriousWakeup
  <2>2. prn' \in PrnType /\ (prn'.pc \in BusyPC <=> prn'.job # NoJob)
        /\ prn'.job = prn.job
        /\ (prn'.pc = "update" => prn'.no = nextjob) /\ prn'.pc # "resolve"
    BY <1>0, <1>2 DEF UpdateFormat, WakeUp, SpuriousWakeup, IdlePC, BusyPC
  <2>3. NumberInv' /\ PhaseInv'
    BY <2>1, <2>2, PrinterMoves
  <2>4. TypeMain' /\ OwnerType'
    BY ONLY TypeMain, OwnerType, <2>1, <2>2
       DEF TypeMain, OwnerType, config, ghosts, bounds, spool, PrinterOnly
  <2> QED BY <2>3, <2>4
<1>3. CASE UpdateWrite
  <2>1. UNCHANGED <<queue, spool, config, ghosts, bounds>> /\ PrinterOnly
        /\ daemon # "down"
        /\ prn.pc = "update" /\ prn' = Printer("config", prn.job, 0)
        /\ jobfile' = Overlay(jobfile, prn.no)
    BY <1>3 DEF UpdateWrite
  <2>2. jobfile' = prn.no
    BY <2>1 DEF NumberInv, Overlay
  <2>3. prn' \in PrnType /\ (prn'.pc \in BusyPC <=> prn'.job # NoJob)
        /\ prn'.job = prn.job
        /\ prn'.pc = "config"
    BY <1>0, <2>1 DEF IdlePC, BusyPC
  <2>4. NumberInv' /\ PhaseInv'
    BY <2>1, <2>2, <2>3, PrinterMoves
  <2>5. TypeMain' /\ OwnerType'
    BY ONLY TypeMain, OwnerType, <2>1, <2>2, <2>3, <1>0
       DEF TypeMain, OwnerType, config, ghosts, bounds, spool, PrinterOnly
  <2> QED BY <2>4, <2>5
<1>4. CASE CheckConfig \/ InitPrinter \/ SetPrinter
  <2>1. UNCHANGED <<queue, jobfile, spool, cfgfile, ghosts, bounds>> /\ PrinterOnly
        /\ daemon # "down"
    BY <1>4 DEF CheckConfig, InitPrinter, SetPrinter
  <2>2. prn' \in PrnType /\ (prn'.pc \in BusyPC <=> prn'.job # NoJob)
        /\ prn'.job = prn.job
        /\ prn'.pc # "update" /\ (prn'.pc = "resolve" => prn'.no <= MaxHup)
    <3>1. CASE CheckConfig
      BY <1>0, <3>1 DEF CheckConfig, IdlePC, BusyPC
    <3>2. CASE InitPrinter
      <4>1. cfgfile \in Nat /\ cfgfile <= MaxHup
        BY BoundAssumption DEF TypeMain
      <4> QED BY <1>0, <3>2, <4>1 DEF InitPrinter, IdlePC, BusyPC
    <3>3. CASE SetPrinter
      BY <1>0, <3>3 DEF SetPrinter, IdlePC, BusyPC
    <3> QED BY <1>4, <3>1, <3>2, <3>3
  <2>3. NumberInv' /\ PhaseInv'
    BY <2>1, <2>2, PrinterMoves
  <2>4. cfg' \in 0..MaxHup
    BY <1>4, <1>0, BoundAssumption DEF CheckConfig, InitPrinter, SetPrinter, TypeMain,
       NumberInv
  <2>5. TypeMain' /\ OwnerType'
    BY ONLY TypeMain, OwnerType, <2>1, <2>2, <2>4
       DEF TypeMain, OwnerType, ghosts, bounds, spool, PrinterOnly
  <2> QED BY <2>3, <2>5
<1>5. CASE OpenData
  <2>1. /\ UNCHANGED <<queue, jobfile, spool, config, acked, printed, out, stale,
                       unread, nkill, nscan>>
        /\ PrinterOnly /\ daemon # "down" /\ prn.pc = "open"
        /\ prn' = [prn EXCEPT !.pc = "send"] \/ prn' = Printer("get", NoJob, 0)
        /\ cancelled' \in {cancelled, cancelled \cup {prn.job.by}}
        /\ nfail' = nfail \/ (nfail + nscan < MaxFail /\ nfail' = nfail + 1)
    BY <1>5 DEF OpenData
  <2>2. /\ prn' \in PrnType /\ (prn'.pc \in BusyPC <=> prn'.job # NoJob)
        /\ prn'.job \in {prn.job, NoJob} /\ prn'.pc \notin {"update", "resolve"}
    BY <1>0, <2>1 DEF IdlePC, BusyPC
  <2>3. NumberInv' /\ PhaseInv'
    BY <2>1, <2>2, PrinterMoves
  <2>4. prn.job.by \in Client
    BY <1>0, <2>1 DEF OwnerType, BusyPC
  <2>5. nfail' \in 0..MaxFail /\ cancelled' \subseteq Client
    BY <2>1, <2>4, BoundAssumption, SMTT(30) DEF TypeMain
  <2>6. TypeMain' /\ OwnerType'
    BY ONLY TypeMain, OwnerType, <2>1, <2>2, <2>5
       DEF TypeMain, OwnerType, config, spool, PrinterOnly
  <2> QED BY <2>3, <2>6
<1>6. CASE Send
  <2> DEFINE j == prn.job
             sent == [job |-> j.by, by |-> data[j.id].by, whole |-> data[j.id].whole]
  <2>1. /\ UNCHANGED <<queue, jobfile, spool, config, acked, cancelled, stale, unread,
                       nkill, nscan>>
        /\ PrinterOnly /\ daemon # "down" /\ prn.pc = "send"
        /\ \E l \in {"status", "defer"} : prn' = [prn EXCEPT !.pc = l]
        /\ printed' = printed \/ printed' = [printed EXCEPT ![j.by] = @ + 1]
        /\ out' = out \/ out' = out \cup {sent}
        /\ nfail' = nfail \/ (nfail + nscan < MaxFail /\ nfail' = nfail + 1)
    BY <1>6 DEF Send
  <2>2. /\ prn' \in PrnType /\ (prn'.pc \in BusyPC <=> prn'.job # NoJob)
        /\ prn'.job = prn.job /\ prn'.pc \notin {"update", "resolve"}
    BY <1>0, <2>1 DEF IdlePC, BusyPC
  <2>3. NumberInv' /\ PhaseInv'
    BY <2>1, <2>2, PrinterMoves
  <2>4. j.by \in Client /\ j.id \in Id
    BY <1>0, <2>1 DEF OwnerType, BusyPC, JobType
  <2>5. nfail' \in 0..MaxFail
    BY <2>1, BoundAssumption, SMTT(30) DEF TypeMain
  <2>6. printed' \in [Client -> Nat]
    <3>1. printed \in [Client -> Nat]
      BY DEF TypeMain
    <3>2. printed' = printed \/ printed' = [printed EXCEPT ![j.by] = printed[j.by] + 1]
      BY <2>1
    <3> QED BY ONLY <3>1, <3>2
  <2>7. data[j.id] \in FileType
    BY <2>4 DEF TypeMain
  <2>8. sent \in [job: Client, by: Client \cup {Nobody}, whole: BOOLEAN]
    BY <2>4, <2>7 DEF FileType
  <2>9. out' \subseteq [job: Client, by: Client \cup {Nobody}, whole: BOOLEAN]
    <3>1. PICK s : s = sent
      OBVIOUS
    <3>2. out \subseteq [job: Client, by: Client \cup {Nobody}, whole: BOOLEAN]
      BY DEF TypeMain
    <3>3. out' = out \/ out' = out \cup {s}
      BY <2>1, <3>1
    <3> QED BY ONLY <2>8, <3>1, <3>2, <3>3
  <2>10. TypeMain' /\ OwnerType'
    BY ONLY TypeMain, OwnerType, <2>1, <2>2, <2>5, <2>6, <2>9
       DEF TypeMain, OwnerType, config, spool, PrinterOnly
  <2> QED BY <2>3, <2>10
<1>7. CASE PrinterStatus
  <2>1. /\ UNCHANGED <<queue, jobfile, spool, config, ghosts, stale, unread, nkill,
                       nscan>>
        /\ PrinterOnly /\ daemon # "down" /\ prn.pc = "status"
        /\ \E l \in {"unlink_data", "defer"} : prn' = [prn EXCEPT !.pc = l]
        /\ nfail' = nfail \/ (nfail + nscan < MaxFail /\ nfail' = nfail + 1)
    BY <1>7 DEF PrinterStatus
  <2>2. /\ prn' \in PrnType /\ (prn'.pc \in BusyPC <=> prn'.job # NoJob)
        /\ prn'.job = prn.job /\ prn'.pc \notin {"update", "resolve"}
    BY <1>0, <2>1 DEF IdlePC, BusyPC
  <2>3. NumberInv' /\ PhaseInv'
    BY <2>1, <2>2, PrinterMoves
  <2>4. nfail' \in 0..MaxFail
    BY <2>1, BoundAssumption, SMTT(30) DEF TypeMain
  <2>5. TypeMain' /\ OwnerType'
    BY ONLY TypeMain, OwnerType, <2>1, <2>2, <2>4
       DEF TypeMain, OwnerType, config, ghosts, spool, PrinterOnly
  <2> QED BY <2>3, <2>5
<1>8. CASE UnlinkData \/ UnlinkCtl
  <2>1. /\ UNCHANGED <<queue, jobfile, config, ghosts, bounds>>
        /\ PrinterOnly /\ daemon # "down"
        /\ prn' = [prn EXCEPT !.pc = "unlink_ctl"] \/ prn' = Printer("get", NoJob, 0)
        /\ data' = data \/ data' = [data EXCEPT ![prn.job.id] = NoFile]
        /\ ctl' = ctl \/ ctl' = [ctl EXCEPT ![prn.job.id] = NoFile]
        /\ prn.pc \in {"unlink_data", "unlink_ctl"}
    BY <1>8 DEF UnlinkData, UnlinkCtl
  <2>2. /\ prn' \in PrnType /\ (prn'.pc \in BusyPC <=> prn'.job # NoJob)
        /\ prn'.job \in {prn.job, NoJob} /\ prn'.pc \notin {"update", "resolve"}
    BY <1>0, <2>1 DEF IdlePC, BusyPC
  <2>3. NumberInv' /\ PhaseInv'
    BY <2>1, <2>2, PrinterMoves
  <2>4. data' \in [Id -> FileType] /\ ctl' \in [Id -> FileType]
    <3>1. data \in [Id -> FileType] /\ ctl \in [Id -> FileType]
      BY DEF TypeMain
    <3>2. data' \in [Id -> FileType]
      BY <2>1, <3>1, FileFacts
    <3>3. ctl' \in [Id -> FileType]
      BY <2>1, <3>1, FileFacts
    <3> QED BY <3>2, <3>3
  <2>5. TypeMain'
    BY ONLY TypeMain, <2>1, <2>2, <2>4
       DEF TypeMain, config, ghosts, bounds, PrinterOnly
  <2>6. OwnerType'
    <3>1. \A i \in Id : ctl'[i] = ctl[i] \/ ctl'[i] = NoFile
      BY <2>1 DEF TypeMain
    <3> QED BY <2>1, <2>2, <3>1 DEF OwnerType, NoFile
  <2> QED BY <2>3, <2>5, <2>6
<1>9. CASE ReplaceJob
  <2>1. /\ UNCHANGED <<jobfile, spool, config, ghosts, bounds>>
        /\ PrinterOnly /\ daemon # "down" /\ prn.pc = "defer"
        /\ prn' = Printer("sleep", NoJob, 0) /\ queue' = <<prn.job>> \o queue
    BY <1>9 DEF ReplaceJob
  <2>2. /\ prn' \in PrnType /\ (prn'.pc \in BusyPC <=> prn'.job # NoJob)
        /\ prn'.job = NoJob /\ prn'.pc \notin {"update", "resolve"}
    BY <1>0, <2>1 DEF IdlePC, BusyPC
  <2>3. NumberInv' /\ PhaseInv'
    BY <2>1, <2>2, PrinterMoves
  <2>4. prn.job \in JobType /\ prn.job.by \in Client
    BY <1>0, <2>1 DEF OwnerType, BusyPC
  <2>5. /\ queue' \in Seq(JobType)
        /\ \A k \in DOMAIN queue' :
             queue'[k] = prn.job \/ \E m \in DOMAIN queue : queue'[k] = queue[m]
    BY <1>0, <2>1, <2>4, ConsFacts
  <2>6. TypeMain'
    BY ONLY TypeMain, <2>1, <2>2, <2>5
       DEF TypeMain, config, ghosts, bounds, spool, PrinterOnly
  <2>7. OwnerType'
    BY <2>1, <2>2, <2>4, <2>5 DEF OwnerType
  <2> QED BY <2>3, <2>6, <2>7
<1> QED BY <1>1, <1>2, <1>3, <1>4, <1>5, <1>6, <1>7, <1>8, <1>9 DEF PrinterStep

\* So do a change of the configuration, SIGHUP and a death.
LEMMA SignalKeepsType ==
  ASSUME FewJobs, TypeInv, Reconfigure \/ HandleHup \/ Kill PROVE TypeInv'
<1> USE ConstFacts, BoundAssumption DEF TypeInv
<1>1. CASE Reconfigure \/ HandleHup
  <2>1. /\ UNCHANGED <<daemon, nextjob, cl, main, jobfile, spool, queue, prn, cfg,
                       ghosts, bounds>>
        /\ daemon # "down"
        /\ cfgfile' = cfgfile \/ (cfgfile < MaxHup /\ cfgfile' = cfgfile + 1)
    BY <1>1 DEF Reconfigure, HandleHup
  <2>2. cfgfile' \in 0..MaxHup
    BY <2>1 DEF TypeMain
  <2>3. TypeMain' /\ OwnerType' /\ PhaseInv'
    BY ONLY TypeMain, OwnerType, PhaseInv, <2>1, <2>2
       DEF TypeMain, OwnerType, PhaseInv, ghosts, bounds, spool
  <2>4. NumberInv'
    BY <2>1 DEF NumberInv, Used
  <2> QED BY <2>3, <2>4
<1>2. CASE Kill
  <2>1. \A c \in Client : /\ cl'[c] \in [pc: ClientLabel, id: 0..JOB_MAX]
                          /\ cl'[c].pc \in RestPC
                          /\ cl[c].pc \notin {"new", "number"} =>
                              cl'[c].pc \notin {"new", "number"}
    BY <1>2 DEF Kill, TypeMain, ClientLabel, RestPC
  <2>2. cl' \in [Client -> [pc: ClientLabel, id: 0..JOB_MAX]]
    BY <1>2, <2>1 DEF Kill
  <2>3. /\ prn' \in [pc: IdlePC \cup BusyPC, job: JobType \cup {NoJob}, no: Nat]
        /\ prn'.pc \in BusyPC <=> prn'.job # NoJob
        /\ main' \in [todo: SUBSET Id, signal: BOOLEAN]
        /\ queue' \in Seq(JobType) /\ nkill' \in 0..MaxKill
    BY <1>2 DEF Kill, TypeMain, IdlePC, BusyPC
  <2>4. TypeMain'
    BY <1>2, <2>2, <2>3 DEF Kill, TypeMain
  <2>5. /\ Cardinality(Used) \in Nat /\ Cardinality(Used') \in Nat
        /\ Cardinality(Used) <= Cardinality(Used')
    BY <2>1, UsedGrows
  <2>6. NumberInv'
    BY <1>2, <2>5 DEF Kill, TypeMain, NumberInv
  <2>7. OwnerType'
    BY <1>2 DEF Kill, OwnerType
  <2>8. PhaseInv'
    BY <1>2, <2>1 DEF Kill, PhaseInv, RestPC, NumberedPC, CtlPC
  <2> QED BY <2>4, <2>6, <2>7, <2>8
<1> QED BY <1>1, <1>2

-----------------------------------------------------------------------------
(***************************************************************************)
(* Where the daemon knows of a job, and how often it prints it.            *)
(***************************************************************************)

\* A control file that goes away, and a client thread that moves on without
\* making one.
LEMMA CtlKept ==
  ASSUME CtlInv,
         \A i \in Id : ctl'[i] = ctl[i] \/ ctl'[i] = NoFile,
         \A c \in Client :
           /\ cl'[c].pc \in NoCtlPC => cl[c].pc \in NoCtlPC
           /\ cl'[c].pc \in CtlPC => cl[c].pc \in CtlPC /\ cl'[c].id = cl[c].id
  PROVE  CtlInv'
BY NobodyAssumption DEF CtlInv, NoFile

\* No job is added to those the daemon knows of.
LEMMA TokenKept ==
  ASSUME TypeInv, TokenInv, UNCHANGED queue, prn'.job \in {prn.job, NoJob},
         \A i \in main'.todo : i \in main.todo /\ (ctl'[i].whole => ctl'[i] = ctl[i]),
         \A c \in Client : cl'[c].pc \in OpenPC => cl[c].pc \in OpenPC
  PROVE  TokenInv'
<1> USE DEF TypeInv
<1>0. NoJob.by = Nobody /\ (prn'.job = NoJob \/ prn'.job = prn.job)
  BY DEF NoJob
<1>1. \A k, l \in DOMAIN queue' : queue'[k].by = queue'[l].by => k = l
  BY DEF TokenInv
<1>2. \A k \in DOMAIN queue' : queue'[k].by # prn'.job.by
         /\ cl'[queue'[k].by].pc \notin OpenPC
  BY <1>0, NobodyAssumption DEF TokenInv, OwnerType
<1>3. prn'.job # NoJob => cl'[prn'.job.by].pc \notin OpenPC
  BY <1>0 DEF TokenInv, OwnerType
<1>4. \A i \in main'.todo : ctl'[i].whole =>
        ctl'[i].by # prn'.job.by /\ \A k \in DOMAIN queue' : queue'[k].by # ctl'[i].by
  <2> SUFFICES ASSUME NEW i \in main'.todo, ctl'[i].whole
               PROVE  ctl'[i].by # prn'.job.by
                      /\ \A k \in DOMAIN queue' : queue'[k].by # ctl'[i].by
    OBVIOUS
  <2>1. ctl'[i] = ctl[i] /\ i \in main.todo /\ i \in Id
    BY DEF TypeMain
  <2>2. ctl[i].by \in Client
    BY <2>1 DEF OwnerType
  <2> QED BY <1>0, <2>1, <2>2, NobodyAssumption DEF TokenInv
<1> QED BY <1>1, <1>2, <1>3, <1>4 DEF TokenInv

\* Nothing is printed, and no job comes back that was done with.
LEMMA CountKept ==
  ASSUME TypeInv, CountInv, UNCHANGED <<printed, nkill>>,
         nfail' = nfail \/ nfail' = nfail + 1,
         \A c \in Client : Again(c)' => Again(c),
         prn'.pc \in SentPC => prn.pc \in SentPC /\ prn'.job = prn.job
  PROVE  CountInv'
<1>1. /\ nfail \in Nat /\ nkill \in Nat /\ nfail' \in Nat /\ nfail <= nfail'
      /\ nkill' = nkill
      /\ printed' = printed /\ \A c \in Client : printed[c] \in Nat
  BY BoundAssumption DEF TypeInv, TypeMain
<1>2. \A c \in Client : printed'[c] <= nfail' + nkill' + (IF Again(c)' THEN 0 ELSE 1)
  BY <1>1 DEF CountInv
<1> QED BY <1>1, <1>2 DEF CountInv

\* At first there is no job.
LEMMA KnownInit == Init => KnownInv
BY BoundAssumption, NobodyAssumption
   DEF Init, KnownInv, CtlInv, TokenInv, CountInv, NoFile, NoJob, SentPC

\* build_qonstart takes each control file once.
LEMMA MainKeepsKnown ==
  ASSUME TypeInv, TypeInv', KnownInv, Start \/ MainStep PROVE KnownInv'
<1> USE DEF KnownInv
<1>1. CASE Start
  <2>1. /\ UNCHANGED <<ctl, cl, queue, printed, nkill, nfail>> /\ daemon = "down"
        /\ prn' = Printer("get", NoJob, 0)
    BY <1>1 DEF Start
  <2>2. queue = <<>> /\ prn.job = NoJob
    BY <2>1 DEF TypeInv, PhaseInv
  <2>3. CtlInv'
    BY <2>1, CtlKept
  <2>4. TokenInv'
    <3>1. DOMAIN queue' = {} /\ prn'.job = NoJob /\ prn'.job.by = Nobody
      BY <2>1, <2>2 DEF NoJob
    <3>2. \A i \in main'.todo : ctl'[i].whole => ctl'[i].by # Nobody
      BY NobodyAssumption DEF TypeInv, TypeMain, OwnerType
    <3> QED BY <3>1, <3>2 DEF TokenInv
  <2>5. CountInv'
    <3>1. \A c \in Client : Again(c)
      BY <2>1 DEF Again
    <3>2. prn'.pc \notin SentPC
      BY <2>1 DEF SentPC
    <3> QED BY <2>1, <3>1, <3>2, CountKept
  <2> QED BY <2>3, <2>4, <2>5
<1>2. ASSUME NEW i \in Id, Scan(i) PROVE KnownInv'
  <2>0. UNCHANGED <<cl, prn, daemon, printed, nkill, nfail>> /\ daemon = "starting"
        /\ i \in main.todo
    BY <1>2 DEF Scan
  <2>1. CASE UNCHANGED queue /\ ctl' = [ctl EXCEPT ![i] = NoFile]
            /\ main' = [main EXCEPT !.todo = @ \ {i}]
    <3>1. /\ UNCHANGED queue /\ ctl' = [ctl EXCEPT ![i] = NoFile]
          /\ ctl \in [Id -> FileType]
          /\ main'.todo = main.todo \ {i} /\ main.todo \subseteq Id
      BY <1>2, <2>1 DEF Scan, TypeInv, TypeMain
    <3>2. \A j \in Id : ctl'[j] = ctl[j] \/ ctl'[j] = NoFile
      BY <3>1
    <3>3. \A j \in main'.todo : j \in main.todo /\ ctl'[j] = ctl[j]
      BY <3>1
    <3>4. CtlInv'
      BY <2>0, <3>2, CtlKept
    <3>5. TokenInv'
      BY <2>0, <3>1, <3>3, TokenKept
    <3>6. \A c \in Client : Again(c)' => Again(c)
      BY <2>0, <3>1, <3>3 DEF Again
    <3>7. CountInv'
      BY <2>0, <3>6, CountKept
    <3> QED BY <3>4, <3>5, <3>7
  <2>2. CASE ctl[i].whole /\ UNCHANGED ctl /\ queue' = Append(queue, Job(i, ctl[i].by))
            /\ main' = [todo |-> main.todo \ {i}, signal |-> TRUE]
    <3>1. /\ UNCHANGED ctl /\ queue' = Append(queue, Job(i, ctl[i].by))
          /\ main'.todo = main.todo \ {i} /\ main.todo \subseteq Id
          /\ queue \in Seq(JobType) /\ Job(i, ctl[i].by) \in JobType
          /\ ctl[i].by \in Client
      BY <1>2, <2>2 DEF Scan, TypeInv, TypeMain, OwnerType, JobType
    <3>2. /\ Len(queue) \in Nat /\ DOMAIN queue = 1..Len(queue)
          /\ DOMAIN queue' = 1..(Len(queue) + 1)
          /\ queue'[Len(queue) + 1] = Job(i, ctl[i].by)
          /\ \A k \in DOMAIN queue : queue'[k] = queue[k]
      BY <3>1, AppendFacts
    <3>3. CtlInv'
      BY <2>0, <3>1, CtlKept
    <3>4. TokenInv'
      <4>0. /\ \A k \in DOMAIN queue' : k \in DOMAIN queue \/ k = Len(queue) + 1
            /\ Job(i, ctl[i].by).by = ctl[i].by /\ prn' = prn /\ cl' = cl
        BY <2>0, <3>2
      <4>1. /\ \A k \in DOMAIN queue : queue[k].by # ctl[i].by
            /\ ctl[i].by # prn.job.by
        BY <2>0, <2>2 DEF TokenInv
      <4>2. \A k, l \in DOMAIN queue' : queue'[k].by = queue'[l].by => k = l
        BY <3>2, <4>0, <4>1 DEF TokenInv
      <4>3. cl[ctl[i].by].pc \notin OpenPC
        BY <2>0, <3>1 DEF TypeInv, PhaseInv, RestPC, OpenPC, NoCtlPC, CtlPC, CtlInv
      <4>4. \A k \in DOMAIN queue' : queue'[k].by # prn'.job.by
               /\ cl'[queue'[k].by].pc \notin OpenPC
        BY <3>2, <4>0, <4>1, <4>3 DEF TokenInv
      <4>5. \A j \in main'.todo : j \in main.todo /\ j # i /\ j \in Id
        BY <3>1
      <4>6. \A j \in main'.todo : ctl[j].whole => ctl[j].by # ctl[i].by
        BY <2>0, <3>1, <4>5, NobodyAssumption DEF CtlInv
      <4>7. \A j \in main'.todo : ctl'[j].whole =>
              ctl'[j].by # prn'.job.by
              /\ \A k \in DOMAIN queue' : queue'[k].by # ctl'[j].by
        BY <3>1, <3>2, <4>0, <4>5, <4>6 DEF TokenInv
      <4> QED BY <4>0, <4>2, <4>4, <4>7 DEF TokenInv
    <3>5. \A c \in Client : Again(c)' => Again(c)
      <4>1. \A k \in DOMAIN queue' : k \in DOMAIN queue \/ queue'[k].by = ctl[i].by
        BY <3>2
      <4> QED BY <2>0, <2>2, <3>1, <3>2, <4>1 DEF Again
    <3>6. CountInv'
      BY <2>0, <3>5, CountKept
    <3> QED BY <3>3, <3>4, <3>6
  <2> QED BY <1>2, <2>1, <2>2 DEF Scan
<1>3. CASE ScanSignal \/ Initialized
  <2>1. /\ UNCHANGED <<ctl, cl, queue, printed, nkill, nfail>>
        /\ main'.todo = main.todo /\ prn'.job = prn.job /\ daemon # "down"
        /\ daemon' # "down"
        /\ (prn'.pc \in SentPC => prn' = prn) /\ (prn.pc \in SentPC => prn' = prn)
    BY <1>3 DEF ScanSignal, Initialized, TypeInv, TypeMain, SentPC
  <2>2. CtlInv' /\ TokenInv'
    BY <2>1, CtlKept, TokenKept
  <2>3. \A c \in Client : Again(c)' => Again(c)
    BY <2>1 DEF Again
  <2>4. CountInv'
    BY <2>1, <2>3, CountKept
  <2> QED BY <2>2, <2>4
<1>4. ASSUME NEW S \in Unreached, Pass(S) PROVE KnownInv'
  <2>1. /\ UNCHANGED <<ctl, cl, queue, prn, daemon, printed, nkill, nfail>>
        /\ main'.todo \subseteq main.todo
    BY <1>4 DEF Pass, TypeInv, TypeMain
  <2>2. CtlInv' /\ TokenInv'
    BY <2>1, CtlKept, TokenKept
  <2>3. \A c \in Client : Again(c)' => Again(c)
    BY <2>1 DEF Again
  <2>4. CountInv'
    BY <2>1, <2>3, CountKept
  <2> QED BY <2>2, <2>4
<1> QED BY <1>1, <1>2, <1>3, <1>4 DEF MainStep

\* A client thread moves on; the jobs the daemon knows of stay.
LEMMA ClientMovesKnown ==
  ASSUME TypeInv, KnownInv, NEW c \in Client, daemon = "up",
         UNCHANGED <<daemon, main, queue>>,
         UNCHANGED <<printed, nkill, nfail>>,
         \/ prn' = prn
         \/ prn'.job = prn.job /\ prn.pc \notin SentPC /\ prn'.pc \notin SentPC,
         \A d \in Client : d # c => cl'[d] = cl[d],
         cl'[c].pc \in OpenPC => cl[c].pc \in OpenPC
  PROVE  TokenInv' /\ CountInv'
<1> USE DEF KnownInv
<1>1. main.todo = {} /\ main'.todo = {}
  BY DEF TypeInv, PhaseInv
<1>2. \A d \in Client : cl'[d].pc \in OpenPC => cl[d].pc \in OpenPC
  OBVIOUS
<1>3. TokenInv'
  BY <1>1, <1>2, TokenKept
<1>4. \A d \in Client : Again(d)' => Again(d)
  BY <1>1, <1>2 DEF Again
<1>5. CountInv'
  BY <1>4, CountKept
<1> QED BY <1>3, <1>5

\* A client thread makes one control file and lists one job.
LEMMA ClientKeepsKnown ==
  ASSUME TypeInv, TypeInv', KnownInv, NEW c \in Client, ClientStep(c) PROVE KnownInv'
<1> USE DEF KnownInv, NoCtlPC, CtlPC, OpenPC, SentPC
<1>0. /\ cl \in [Client -> [pc: ClientLabel, id: 0..JOB_MAX]]
      /\ ctl \in [Id -> FileType]
      /\ queue \in Seq(JobType)
      /\ prn \in [pc: IdlePC \cup BusyPC, job: JobType \cup {NoJob}, no: Nat]
  BY DEF TypeInv, TypeMain
<1>u. daemon = "up" /\ UNCHANGED <<daemon, main, printed, nkill, nfail>>
  <2>1. daemon # "down" /\ (daemon = "up" \/ cl[c].pc \notin RestPC)
        /\ UNCHANGED <<daemon, main, printed, nkill, nfail>>
    BY DEF ClientStep, Accept, GetNewJobNo, CreatData, Upload, CreatCtl, WriteCtl,
           SendResponse, AddJob, Signal, RestPC
  <2> QED BY <2>1 DEF TypeInv, PhaseInv
<1>1. CASE \/ Accept(c) \/ GetNewJobNo(c) \/ CreatData(c) \/ Upload(c)
           \/ SendResponse(c) \/ Signal(c)
  <2>1. /\ UNCHANGED <<ctl, queue>>
        /\ \A d \in Client : d # c => cl'[d] = cl[d]
        /\ cl'[c].pc \in NoCtlPC => cl[c].pc \in NoCtlPC
        /\ cl'[c].pc \in CtlPC => cl[c].pc \in CtlPC /\ cl'[c].id = cl[c].id
    BY <1>0, <1>1 DEF Accept, GetNewJobNo, CreatData, Upload, SendResponse, Signal
  <2>2. \/ prn' = prn
        \/ prn'.job = prn.job /\ prn.pc \notin SentPC /\ prn'.pc \notin SentPC
    BY <1>0, <1>1 DEF Accept, GetNewJobNo, CreatData, Upload, SendResponse, Signal
  <2>3. TokenInv' /\ CountInv'
    BY <1>u, <2>1, <2>2, ClientMovesKnown
  <2>4. CtlInv'
    BY <2>1, CtlKept
  <2> QED BY <2>3, <2>4
<1>2. CASE CreatCtl(c)
  <2>1. /\ UNCHANGED <<queue, prn>>
        /\ \A d \in Client : d # c => cl'[d] = cl[d]
        /\ cl[c].pc = "creat_ctl" /\ cl'[c].id = cl[c].id /\ cl[c].id \in Id
    BY <1>0, <1>2 DEF CreatCtl, TypeInv, PhaseInv, NumberedPC
  <2>2. TokenInv' /\ CountInv'
    BY <1>u, <2>1, ClientMovesKnown
  <2>3. CASE UNCHANGED ctl /\ cl'[c].pc = "failed"
    BY <2>1, <2>2, <2>3, CtlKept
  <2>4. CASE ctl' = [ctl EXCEPT ![cl[c].id] = File(c, FALSE)] /\ cl'[c].pc = "write_ctl"
    <3>1. \A i \in Id : ctl[i].by # c
      BY <2>1 DEF CtlInv
    <3>2. \A i \in Id : IF i = cl[c].id THEN ctl'[i].by = c ELSE ctl'[i] = ctl[i]
      BY <1>0, <2>4
    <3>3. CtlInv'
      BY <2>1, <2>4, <3>1, <3>2, NobodyAssumption DEF CtlInv
    <3> QED BY <2>2, <3>3
  <2> QED BY <1>0, <1>2, <2>3, <2>4 DEF CreatCtl
<1>3. CASE WriteCtl(c)
  <2>1. /\ UNCHANGED <<queue, prn>>
        /\ \A d \in Client : d # c => cl'[d] = cl[d]
        /\ cl[c].pc = "write_ctl" /\ cl'[c].id = cl[c].id /\ cl[c].id \in Id
    BY <1>0, <1>3 DEF WriteCtl, TypeInv, PhaseInv, NumberedPC
  <2>2. TokenInv' /\ CountInv'
    BY <1>u, <2>1, ClientMovesKnown
  <2>3. CASE ctl' = [ctl EXCEPT ![cl[c].id] = NoFile] /\ cl'[c].pc = "failed"
    <3>1. \A i \in Id : ctl'[i] = ctl[i] \/ ctl'[i] = NoFile
      BY <1>0, <2>3
    <3> QED BY <2>1, <2>2, <2>3, <3>1, CtlKept
  <2>4. CASE ctl' = [ctl EXCEPT ![cl[c].id] = File(c, TRUE)] /\ cl'[c].pc = "reply"
    <3>1. \A i \in Id : ctl[i].by = c => i = cl[c].id
      BY <2>1 DEF CtlInv
    <3>2. \A i \in Id : IF i = cl[c].id THEN ctl'[i].by = c ELSE ctl'[i] = ctl[i]
      BY <1>0, <2>4
    <3>3. CtlInv'
      BY <2>1, <2>4, <3>1, <3>2, NobodyAssumption DEF CtlInv
    <3> QED BY <2>2, <3>3
  <2> QED BY <1>0, <1>3, <2>3, <2>4 DEF WriteCtl
<1>4. CASE AddJob(c)
  <2>1. /\ UNCHANGED <<ctl, prn>> /\ queue' = Append(queue, Job(cl[c].id, c))
        /\ \A d \in Client : d # c => cl'[d] = cl[d]
        /\ cl[c].pc = "add" /\ cl'[c].pc = "signal"
        /\ Job(cl[c].id, c) \in JobType
    BY <1>0, <1>4 DEF AddJob, TypeInv, PhaseInv, NumberedPC, JobType
  <2>2. /\ Len(queue) \in Nat /\ DOMAIN queue = 1..Len(queue)
        /\ DOMAIN queue' = 1..(Len(queue) + 1)
        /\ queue'[Len(queue) + 1] = Job(cl[c].id, c)
        /\ \A k \in DOMAIN queue : queue'[k] = queue[k]
    BY <1>0, <2>1, AppendFacts
  <2>3. /\ \A k \in DOMAIN queue' : k \in DOMAIN queue \/ k = Len(queue) + 1
        /\ Job(cl[c].id, c).by = c
    BY <2>2
  <2>4. main.todo = {} /\ main'.todo = {}
    BY <1>u DEF TypeInv, PhaseInv
  <2>5. CtlInv'
    BY <2>1, CtlKept
  <2>6. TokenInv'
    <3>1. \A k \in DOMAIN queue : queue[k].by # c
      BY <2>1 DEF TokenInv
    <3>2. prn.job.by # c
      BY <2>1, NobodyAssumption DEF TokenInv, NoJob
    <3>3. \A k, l \in DOMAIN queue' : queue'[k].by = queue'[l].by => k = l
      BY <2>2, <2>3, <3>1 DEF TokenInv
    <3>4. \A k \in DOMAIN queue' : queue'[k].by # prn'.job.by
             /\ cl'[queue'[k].by].pc \notin OpenPC
      BY <2>1, <2>2, <2>3, <3>1, <3>2 DEF TokenInv, TypeInv, OwnerType
    <3>5. prn'.job # NoJob => cl'[prn'.job.by].pc \notin OpenPC
      BY <2>1, <3>2 DEF TokenInv, TypeInv, OwnerType
    <3> QED BY <2>4, <3>3, <3>4, <3>5 DEF TokenInv
  <2>7. \A d \in Client : Again(d)' => Again(d)
    BY <1>u, <2>1, <2>2, <2>3, <2>4 DEF Again
  <2>8. CountInv'
    BY <1>u, <2>1, <2>7, CountKept
  <2> QED BY <2>5, <2>6, <2>8
<1> QED BY <1>1, <1>2, <1>3, <1>4 DEF ClientStep

\* The printer thread has a job or lists it, never both; it prints a job again
\* only after a failure.
LEMMA PrinterKeepsKnown ==
  ASSUME TypeInv, TypeInv', KnownInv, PrinterStep \/ SpuriousWakeup PROVE KnownInv'
<1> USE DEF KnownInv, SentPC
<1>0. /\ ctl \in [Id -> FileType] /\ queue \in Seq(JobType)
      /\ prn \in [pc: IdlePC \cup BusyPC, job: JobType \cup {NoJob}, no: Nat]
      /\ main.todo \subseteq Id
      /\ NoJob \notin JobType /\ NoJob.by = Nobody /\ NoFile.whole = FALSE
  BY ConstFacts DEF TypeInv, TypeMain, NoJob, NoFile
<1>u. daemon # "down" /\ PrinterOnly /\ UNCHANGED nkill
  BY DEF PrinterStep, SpuriousWakeup, GetJob, UpdateFormat, UpdateWrite, CheckConfig,
         InitPrinter, SetPrinter, OpenData, Send, PrinterStatus, UnlinkData, UnlinkCtl,
         ReplaceJob, WakeUp
<1>1. CASE GetJob /\ queue # <<>>
  <2>1. /\ UNCHANGED <<ctl, printed, nfail>> /\ prn.pc = "get" /\ queue' = Tail(queue)
        /\ prn' = Printer("format", Head(queue), 0)
    BY <1>1 DEF GetJob
  <2>2. /\ Head(queue) = queue[1] /\ 1 \in DOMAIN queue /\ Head(queue) \in JobType
        /\ DOMAIN queue \subseteq Nat /\ DOMAIN queue' \subseteq Nat
        /\ 0 \notin DOMAIN queue'
        /\ \A k \in DOMAIN queue' : k + 1 \in DOMAIN queue /\ queue'[k] = queue[k + 1]
    BY <1>0, <1>1, <2>1, TailFacts
  <2>3. CtlInv'
    BY <1>u, <2>1, CtlKept
  <2>4. TokenInv'
    <3>1. \A k, l \in DOMAIN queue' : queue'[k].by = queue'[l].by => k = l
      BY <2>2 DEF TokenInv
    <3>2. \A k \in DOMAIN queue' : queue'[k].by # queue[1].by
      BY <2>2 DEF TokenInv
    <3>3. \A k \in DOMAIN queue' : cl[queue'[k].by].pc \notin OpenPC
      BY <2>2 DEF TokenInv
    <3>4. prn'.job = queue[1] /\ cl[queue[1].by].pc \notin OpenPC
      BY <2>1, <2>2 DEF TokenInv
    <3>5. \A i \in main.todo : ctl[i].whole =>
            /\ ctl[i].by # queue[1].by
            /\ \A k \in DOMAIN queue' : queue'[k].by # ctl[i].by
      BY <2>2 DEF TokenInv
    <3> QED BY <1>u, <2>1, <3>1, <3>2, <3>3, <3>4, <3>5 DEF TokenInv
  <2>5. \A c \in Client : Again(c)' => Again(c)
    BY <1>u, <2>1, <2>2 DEF Again
  <2>6. CountInv'
    BY <1>u, <2>1, <2>5, CountKept
  <2> QED BY <2>3, <2>4, <2>6
<1>2. CASE \/ (GetJob /\ queue = <<>>) \/ SpuriousWakeup \/ UpdateFormat
           \/ UpdateWrite \/ WakeUp
           \/ CheckConfig \/ InitPrinter \/ SetPrinter \/ OpenData \/ UnlinkData
  <2>1. /\ UNCHANGED <<ctl, printed, queue>> /\ prn'.job \in {prn.job, NoJob}
        /\ nfail' = nfail \/ nfail' = nfail + 1
        /\ \/ prn.pc \in SentPC /\ prn'.pc \in SentPC /\ prn'.job = prn.job
           \/ prn.pc \notin SentPC /\ prn'.pc \notin SentPC
    <3>1. CASE \/ (GetJob /\ queue = <<>>) \/ SpuriousWakeup \/ UpdateFormat
               \/ UpdateWrite
               \/ WakeUp
      BY <1>0, <3>1 DEF GetJob, SpuriousWakeup, UpdateFormat, UpdateWrite, WakeUp
    <3>2. CASE CheckConfig \/ InitPrinter \/ SetPrinter
      BY <1>0, <3>2 DEF CheckConfig, InitPrinter, SetPrinter
    <3>3. CASE OpenData
      BY <1>0, <3>3 DEF OpenData
    <3>4. CASE UnlinkData
      <4>1. UNCHANGED <<ctl, printed, queue, nfail>> /\ prn.pc = "unlink_data"
            /\ prn' = [prn EXCEPT !.pc = "unlink_ctl"]
        BY <3>4 DEF UnlinkData
      <4>2. prn'.pc = "unlink_ctl" /\ prn'.job = prn.job
        BY <1>0, <4>1
      <4> QED BY <4>1, <4>2
    <3> QED BY <1>2, <3>1, <3>2, <3>3, <3>4
  <2>2. CtlInv' /\ TokenInv'
    BY <1>u, <2>1, CtlKept, TokenKept
  <2>3. \A c \in Client : Again(c)' => Again(c)
    BY <1>0, <1>u, <2>1, NobodyAssumption DEF Again
  <2>4. CountInv'
    BY <1>u, <2>1, <2>3, CountKept
  <2> QED BY <2>2, <2>4
<1>3. CASE UnlinkCtl
  <2>1. /\ UNCHANGED <<printed, queue, nfail>> /\ prn' = Printer("get", NoJob, 0)
        /\ ctl' = [ctl EXCEPT ![prn.job.id] = NoFile]
    BY <1>3 DEF UnlinkCtl
  <2>2. \A i \in Id : ctl'[i] = ctl[i] \/ ctl'[i] = NoFile
    BY <1>0, <2>1
  <2>3. \A i \in main.todo : ctl'[i].whole => ctl'[i] = ctl[i]
    BY <1>0, <2>2
  <2>4. CtlInv' /\ TokenInv'
    BY <1>u, <2>1, <2>2, <2>3, CtlKept, TokenKept
  <2>5. \A c \in Client : Again(c)' => Again(c)
    BY <1>0, <1>u, <2>1, <2>3, NobodyAssumption DEF Again
  <2>6. CountInv'
    BY <1>u, <2>1, <2>5, CountKept
  <2> QED BY <2>4, <2>6
<1>4. CASE Send
  <2>1. /\ UNCHANGED <<ctl, queue>> /\ prn.pc = "send" /\ prn'.job = prn.job
    BY <1>0, <1>4 DEF Send
  <2>2. CtlInv' /\ TokenInv'
    BY <1>u, <2>1, CtlKept, TokenKept
  <2>3. CASE UNCHANGED printed /\ nfail' = nfail + 1 /\ prn'.pc = "defer"
    <3>1. \A c \in Client : Again(c)' => Again(c)
      BY <1>u, <2>1, <2>3 DEF Again
    <3> QED BY <1>u, <2>1, <2>2, <2>3, <3>1, CountKept
  <2>4. CASE /\ printed' = [printed EXCEPT ![prn.job.by] = @ + 1] /\ nfail' = nfail
             /\ prn'.pc = "status"
    <3>1. prn.job.by \in Client /\ prn.job # NoJob
      BY <2>1 DEF TypeInv, TypeMain, OwnerType, BusyPC
    <3>2. Again(prn.job.by)
      BY <2>1 DEF Again
    <3>3. ~Again(prn.job.by)'
      BY <1>0, <1>u, <2>1, <2>2, <2>4, <3>1 DEF Again, TokenInv
    <3>4. \A c \in Client : Again(c)' => Again(c)
      BY <1>u, <2>1, <2>4 DEF Again
    <3>5. printed \in [Client -> Nat] /\ nfail \in Nat /\ nkill \in Nat
      BY BoundAssumption DEF TypeInv, TypeMain
    <3>6. /\ printed'[prn.job.by] = printed[prn.job.by] + 1
          /\ \A c \in Client : c # prn.job.by => printed'[c] = printed[c]
      BY <2>4, <3>1, <3>5
    <3>7. ASSUME NEW c \in Client
          PROVE  printed'[c] <= nfail' + nkill' + (IF Again(c)' THEN 0 ELSE 1)
      <4>1. CASE c = prn.job.by
        <5>1. printed[c] <= nfail + nkill
          BY <3>2, <3>5, <4>1 DEF CountInv
        <5>2. printed'[c] <= nfail + nkill + 1
          BY <3>5, <3>6, <4>1, <5>1
        <5>3. ~Again(c)' /\ nfail' = nfail /\ nkill' = nkill
          BY <1>u, <2>1, <2>4, <3>3, <4>1 DEF Again
        <5> HIDE DEF Again
        <5> QED BY <5>2, <5>3
      <4>2. CASE c # prn.job.by
        BY <1>u, <2>4, <3>4, <3>5, <3>6, <4>2 DEF CountInv
      <4> QED BY <4>1, <4>2
    <3>8. CountInv'
      BY <2>1, <2>4, <3>1, <3>5, <3>6, <3>7 DEF CountInv
    <3> QED BY <2>2, <3>8
  <2> QED BY <1>0, <1>4, <2>3, <2>4 DEF Send
<1>5. CASE PrinterStatus
  <2>1. /\ UNCHANGED <<ctl, queue, printed>> /\ prn.pc = "status" /\ prn'.job = prn.job
    BY <1>0, <1>5 DEF PrinterStatus
  <2>2. CtlInv' /\ TokenInv'
    BY <1>u, <2>1, CtlKept, TokenKept
  <2>3. CASE nfail' = nfail /\ prn'.pc = "unlink_data"
    <3>1. \A c \in Client : Again(c)' => Again(c)
      BY <1>u, <2>1, <2>3 DEF Again
    <3> QED BY <1>u, <2>1, <2>2, <2>3, <3>1, CountKept
  <2>4. CASE nfail' = nfail + 1 /\ prn'.pc = "defer"
    <3>1. /\ nfail \in Nat /\ nkill \in Nat /\ printed \in [Client -> Nat]
      BY BoundAssumption DEF TypeInv, TypeMain
    <3>2. \A c \in Client : printed[c] <= nfail + nkill + 1
      BY <3>1 DEF CountInv
    <3>3. CountInv'
      BY <1>u, <2>1, <2>4, <3>1, <3>2 DEF CountInv
    <3> QED BY <2>2, <3>3
  <2> QED BY <1>0, <1>5, <2>3, <2>4 DEF PrinterStatus
<1>6. CASE ReplaceJob
  <2>1. /\ UNCHANGED <<ctl, printed, nfail>> /\ prn.pc = "defer"
        /\ prn' = Printer("sleep", NoJob, 0) /\ queue' = <<prn.job>> \o queue
    BY <1>6 DEF ReplaceJob
  <2>2. prn.job # NoJob /\ prn.job \in JobType /\ prn.job.by \in Client
    BY <1>0, <2>1 DEF TypeInv, TypeMain, OwnerType, BusyPC
  <2>3. /\ DOMAIN queue \subseteq Nat /\ DOMAIN queue' \subseteq Nat
        /\ 0 \notin DOMAIN queue
        /\ queue'[1] = prn.job
        /\ \A k \in DOMAIN queue' : k # 1 => k - 1 \in DOMAIN queue
             /\ queue'[k] = queue[k - 1]
    BY <1>0, <2>1, <2>2, ConsFacts
  <2>4. CtlInv'
    BY <1>u, <2>1, CtlKept
  <2>5. TokenInv'
    <3>1. \A k, l \in DOMAIN queue' : queue'[k].by = queue'[l].by => k = l
      BY <2>3 DEF TokenInv
    <3>2. \A k \in DOMAIN queue' : queue'[k].by \in Client
             /\ cl[queue'[k].by].pc \notin OpenPC
      BY <2>2, <2>3 DEF TokenInv, TypeInv, OwnerType
    <3>3. \A i \in main.todo : ctl[i].whole =>
            \A k \in DOMAIN queue' : queue'[k].by # ctl[i].by
      BY <2>3 DEF TokenInv
    <3>4. \A i \in main.todo : ctl[i].whole => ctl[i].by # Nobody
      BY <1>0, NobodyAssumption DEF TypeInv, OwnerType
    <3> QED BY <1>0, <1>u, <2>1, <3>1, <3>2, <3>3, <3>4, NobodyAssumption DEF TokenInv
  <2>6. \A c \in Client : Again(c)' => Again(c)
    BY <1>0, <1>u, <2>1, <2>3, NobodyAssumption DEF Again
  <2>7. CountInv'
    BY <1>u, <2>1, <2>6, CountKept
  <2> QED BY <2>4, <2>5, <2>7
<1> QED BY <1>1, <1>2, <1>3, <1>4, <1>5, <1>6 DEF PrinterStep

\* A death takes every job from memory and counts as one more chance to print.
LEMMA SignalKeepsKnown ==
  ASSUME TypeInv, TypeInv', KnownInv, Reconfigure \/ HandleHup \/ Kill PROVE KnownInv'
<1> USE DEF KnownInv, SentPC
<1>1. CASE Reconfigure \/ HandleHup
  <2>1. UNCHANGED <<daemon, ctl, queue, prn, cl, main, printed, nkill, nfail>>
    BY <1>1 DEF Reconfigure, HandleHup
  <2>2. CtlInv' /\ TokenInv'
    BY <2>1, CtlKept, TokenKept
  <2>3. \A c \in Client : Again(c)' => Again(c)
    BY <2>1 DEF Again
  <2> QED BY <2>1, <2>2, <2>3, CountKept
<1>2. CASE Kill
  <2>1. /\ UNCHANGED <<ctl, printed, nfail>> /\ queue' = <<>> /\ nkill' = nkill + 1
        /\ prn' = Printer("get", NoJob, 0) /\ main'.todo = {}
    BY <1>2 DEF Kill
  <2>2. \A c \in Client : cl'[c].pc \in RestPC
           /\ (cl'[c].pc = "new" => cl[c].pc = "new")
    BY <1>2 DEF Kill, RestPC
  <2>3. CtlInv'
    BY <2>1, <2>2, CtlKept DEF RestPC, NoCtlPC, CtlPC
  <2>4. TokenInv'
    <3>1. DOMAIN queue' = {} /\ prn'.job = NoJob
      BY <2>1
    <3> QED BY <2>1, <3>1 DEF TokenInv
  <2>5. CountInv'
    <3>1. nfail \in Nat /\ nkill \in Nat /\ printed \in [Client -> Nat]
      BY BoundAssumption DEF TypeInv, TypeMain
    <3>2. \A c \in Client : printed[c] <= nfail + nkill + 1
      BY <3>1 DEF CountInv
    <3> QED BY <2>1, <3>1, <3>2 DEF CountInv
  <2> QED BY <2>3, <2>4, <2>5
<1> QED BY <1>1, <1>2

-----------------------------------------------------------------------------
(***************************************************************************)
(* Who owns which number and file: the client threads.                     *)
(***************************************************************************)

\* While a client thread writes the files of its number, nobody else uses
\* that number.
LEMMA ClientAlone ==
  ASSUME TypeInv, OwnerInv, NEW c \in Client,
         cl[c].pc \in {"creat", "upload", "creat_ctl", "write_ctl"}
  PROVE  /\ cl[c].id \in Id /\ cl[c].id < nextjob /\ ~ctl[cl[c].id].whole
         /\ \A k \in DOMAIN queue : queue[k].id # cl[c].id
         /\ prn.job # NoJob => prn.job.id # cl[c].id
         /\ \A d \in Client \ {c} : cl[d].pc \in NumberedPC => cl[d].id # cl[c].id
<1> USE DEF NumberedPC, CtlPC
<1>1. cl[c].id \in Id /\ cl[c].id < nextjob
  BY DEF TypeInv, PhaseInv, OwnerInv, ClientOwns
<1>2. ~ctl[cl[c].id].whole
  <2>1. ClientOwns(c)
    BY DEF OwnerInv
  <2> QED BY <2>1 DEF ClientOwns
<1>3. ASSUME NEW k \in DOMAIN queue, queue[k].id = cl[c].id PROVE FALSE
  <2>1. ctl[queue[k].id] = File(queue[k].by, TRUE)
    BY DEF OwnerInv, QueueOwns
  <2> QED BY <1>2, <1>3, <2>1
<1>4. prn.job # NoJob => prn.job.id # cl[c].id
  BY <1>2 DEF OwnerInv, PrinterOwns
<1>5. \A d \in Client \ {c} : cl[d].pc \in NumberedPC => cl[d].id # cl[c].id
  BY DEF OwnerInv, OwnNumbers
<1> QED BY <1>1, <1>2, <1>3, <1>4, <1>5

\* Nobody else uses the number of the job that the printer thread has.
LEMMA PrinterAlone ==
  ASSUME TypeInv, KnownInv, OwnerInv, prn.job # NoJob
  PROVE  /\ prn.job.id \in Id /\ prn.job.by \in Client
         /\ ctl[prn.job.id] = File(prn.job.by, TRUE)
         /\ \A k \in DOMAIN queue : queue[k].id # prn.job.id
         /\ \A d \in Client : cl[d].pc \in NumberedPC => cl[d].id # prn.job.id
<1>1. prn.job \in JobType /\ prn.job.by \in Client
  BY DEF TypeInv, TypeMain, OwnerType
<1>2. prn.job.id \in Id
  BY <1>1 DEF JobType
<1>3. ctl[prn.job.id] = File(prn.job.by, TRUE)
  BY DEF OwnerInv, PrinterOwns
<1>4. ASSUME NEW k \in DOMAIN queue, queue[k].id = prn.job.id PROVE FALSE
  <2>1. ctl[queue[k].id] = File(queue[k].by, TRUE)
    BY DEF OwnerInv, QueueOwns
  <2>2. queue[k].by = prn.job.by
    BY <1>3, <1>4, <2>1
  <2> QED BY <2>2 DEF KnownInv, TokenInv
<1>5. ASSUME NEW d \in Client, cl[d].pc \in NumberedPC, cl[d].id = prn.job.id
      PROVE  FALSE
  <2>1. d # prn.job.by
    BY <1>5 DEF KnownInv, TokenInv, NumberedPC, CtlPC, OpenPC, NoCtlPC
  <2>2. ClientOwns(d)
    BY DEF OwnerInv
  <2>3. ~ctl[cl[d].id].whole \/ ctl[cl[d].id] = File(d, TRUE)
    BY <1>5, <2>2 DEF ClientOwns, NumberedPC, CtlPC
  <2> QED BY <1>1, <1>3, <1>5, <2>1, <2>3
<1> QED BY <1>1, <1>2, <1>3, <1>4, <1>5

\* A client thread that writes only files of its own number.
LEMMA ClientWrites ==
  ASSUME TypeInv, OwnerInv, NEW c \in Client, daemon = "up",
         cl[c].pc \in {"creat", "upload", "creat_ctl", "write_ctl"},
         UNCHANGED <<daemon, nextjob, jobfile, queue, prn, main, printed>>,
         \A d \in Client \ {c} : cl'[d] = cl[d],
         \A i \in Id \ {cl[c].id} : data'[i] = data[i] /\ ctl'[i] = ctl[i],
         cl'[c].id = cl[c].id, ClientOwns(c)',
         ctl'[cl[c].id].whole => data'[cl[c].id].by = ctl'[cl[c].id].by
  PROVE  OwnerInv'
<1> DEFINE n == cl[c].id
<1>0. /\ n \in Id /\ n < nextjob /\ nextjob \in Nat
      /\ \A k \in DOMAIN queue : queue[k].id # n /\ queue[k].id \in Id
      /\ prn.job # NoJob => prn.job.id # n /\ prn.job.id \in Id
      /\ \A d \in Client \ {c} : cl[d].pc \in NumberedPC => cl[d].id # n
           /\ cl[d].id \in Id
  <2>1. /\ n \in Id /\ n < nextjob
        /\ \A k \in DOMAIN queue : queue[k].id # n
        /\ prn.job # NoJob => prn.job.id # n
        /\ \A d \in Client \ {c} : cl[d].pc \in NumberedPC => cl[d].id # n
    BY ClientAlone
  <2>2. nextjob \in Nat /\ queue \in Seq(JobType) /\ prn.job \in JobType \cup {NoJob}
    BY ConstFacts DEF TypeInv, TypeMain
  <2>3. \A k \in DOMAIN queue : queue[k].id \in Id
    <3>1. \A k \in DOMAIN queue : queue[k] \in JobType
      BY <2>2
    <3> QED BY <3>1 DEF JobType
  <2>4. prn.job # NoJob => prn.job.id \in Id
    BY <2>2 DEF JobType
  <2>5. \A d \in Client \ {c} : cl[d].pc \in NumberedPC => cl[d].id \in Id
    BY DEF TypeInv, PhaseInv
  <2> QED BY <2>1, <2>2, <2>3, <2>4, <2>5
<1>1. QueueOwns'
  BY <1>0 DEF OwnerInv, QueueOwns
<1>2. PrinterOwns'
  <2>1. prn.pc = "send" => prn.job # NoJob
    BY DEF TypeInv, TypeMain, BusyPC
  <2> QED BY <1>0, <2>1 DEF OwnerInv, PrinterOwns
<1>3. ASSUME NEW d \in Client PROVE ClientOwns(d)'
  <2>1. CASE d # c
    BY <1>0, <2>1 DEF OwnerInv, ClientOwns, NumberedPC, CtlPC
  <2> QED BY <2>1
<1>4. OwnNumbers'
  BY <1>0 DEF OwnerInv, OwnNumbers, NumberedPC, CtlPC
<1>5. DataOwned'
  BY <1>0 DEF OwnerInv, DataOwned
<1>6. NumbersFree'
  BY <1>0, ConstFacts DEF OwnerInv, NumbersFree
<1> QED BY <1>1, <1>2, <1>3, <1>4, <1>5, <1>6 DEF OwnerInv

\* The files stay, and so do the jobs in memory; a client thread moves on.
LEMMA ClientRests ==
  ASSUME TypeInv, TypeInv', OwnerInv, NEW c \in Client, daemon = "up",
         UNCHANGED <<daemon, nextjob, jobfile, queue, spool, main, printed>>,
         prn'.job = prn.job, prn'.pc = "send" => prn.pc = "send",
         \A d \in Client \ {c} : cl'[d] = cl[d],
         ClientOwns(c)', cl'[c].pc \in NumberedPC => cl[c].pc \in NumberedPC
         /\ cl'[c].id = cl[c].id
  PROVE  OwnerInv'
<1>1. QueueOwns' /\ PrinterOwns' /\ DataOwned'
  BY DEF OwnerInv, QueueOwns, PrinterOwns, DataOwned
<1>2. ASSUME NEW d \in Client PROVE ClientOwns(d)'
  <2>1. CASE d # c
    BY <2>1 DEF OwnerInv, ClientOwns
  <2> QED BY <2>1
<1>3. OwnNumbers'
  BY DEF OwnerInv, OwnNumbers
<1>4. NumbersFree'
  BY DEF OwnerInv, NumbersFree
<1> QED BY <1>1, <1>2, <1>3, <1>4 DEF OwnerInv

\* The job number that get_newjobno hands out is below the largest one.
LEMMA NextNumber ==
  ASSUME FewJobs, TypeInv, NEW c \in Client, GetNewJobNo(c)
  PROVE  nextjob \in Id /\ nextjob' = nextjob + 1
<1> USE ConstFacts DEF TypeInv
<1>1. daemon # "down" /\ cl[c].pc = "number" /\ c \notin Used
  BY DEF GetNewJobNo, Used
<1>2. nextjob \in 1..JOB_MAX
  BY <1>1 DEF TypeMain
<1>3. /\ Cardinality(Used) \in Nat /\ Cardinality(Client) \in Nat
      /\ Cardinality(Used) < Cardinality(Client)
  BY <1>1, UsedFacts
<1>4. nextjob < JOB_MAX
  BY <1>2, <1>3 DEF NumberInv, FewJobs
<1> QED BY <1>2, <1>4 DEF GetNewJobNo, Id

\* The client threads keep to their own files and numbers.
LEMMA ClientKeepsOwner ==
  ASSUME FewJobs, TypeInv, TypeInv', KnownInv, OwnerInv, NEW c \in Client, ClientStep(c)
  PROVE  OwnerInv'
<1> USE DEF NumberedPC, CtlPC
<1>0. /\ cl \in [Client -> [pc: ClientLabel, id: 0..JOB_MAX]]
      /\ ctl \in [Id -> FileType] /\ data \in [Id -> FileType]
      /\ prn \in [pc: IdlePC \cup BusyPC, job: JobType \cup {NoJob}, no: Nat]
      /\ nextjob \in Nat /\ Id \subseteq Nat
      /\ cl[c].pc \in NumberedPC => cl[c].id \in Id
  <2>1. nextjob \in Nat /\ Id \subseteq Nat
    BY ConstFacts DEF TypeInv, TypeMain
  <2>2. cl[c].pc \in NumberedPC => cl[c].id \in Id
    BY DEF TypeInv, PhaseInv
  <2> QED BY <2>1, <2>2 DEF TypeInv, TypeMain
<1>u. daemon = "up" /\ UNCHANGED <<daemon, jobfile, main, printed>>
  <2>1. daemon # "down" /\ (daemon = "up" \/ cl[c].pc \notin RestPC)
        /\ UNCHANGED <<daemon, jobfile, main, printed>>
    BY DEF ClientStep, Accept, GetNewJobNo, CreatData, Upload, CreatCtl, WriteCtl,
           SendResponse, AddJob, Signal, RestPC
  <2> QED BY <2>1 DEF TypeInv, PhaseInv
<1>c. ClientOwns(c)
  BY DEF OwnerInv
<1>1. CASE Accept(c) \/ SendResponse(c) \/ Signal(c)
  <2>1. /\ UNCHANGED <<queue, spool, nextjob>>
        /\ \A d \in Client \ {c} : cl'[d] = cl[d]
        /\ cl'[c].pc \in NumberedPC => cl[c].pc \in NumberedPC /\ cl'[c].id = cl[c].id
        /\ cl'[c].pc \in NumberedPC => cl[c].pc = "reply" /\ cl'[c].pc = "add"
    BY <1>0, <1>1 DEF Accept, SendResponse, Signal
  <2>2. prn'.job = prn.job /\ (prn'.pc = "send" => prn.pc = "send")
    BY <1>0, <1>1 DEF Accept, SendResponse, Signal
  <2>3. ClientOwns(c)'
    BY <1>c, <2>1 DEF ClientOwns
  <2> QED BY <1>u, <2>1, <2>2, <2>3, ClientRests
<1>2. CASE GetNewJobNo(c)
  <2>1. /\ UNCHANGED <<queue, spool, prn>>
        /\ \A d \in Client \ {c} : cl'[d] = cl[d]
        /\ cl'[c].pc = "creat" /\ cl'[c].id = nextjob /\ nextjob < nextjob'
        /\ nextjob \in Id /\ nextjob' \in Nat
    <3>1. nextjob \in Id /\ nextjob' = nextjob + 1
      BY <1>2, NextNumber
    <3> QED BY <1>0, <1>2, <3>1 DEF GetNewJobNo
  <2>2. ~ctl[nextjob].whole
    BY <1>u, <2>1, ConstFacts DEF OwnerInv, NumbersFree
  <2>3. QueueOwns' /\ PrinterOwns' /\ DataOwned'
    BY <1>u, <2>1 DEF OwnerInv, QueueOwns, PrinterOwns, DataOwned
  <2>4. ASSUME NEW d \in Client PROVE ClientOwns(d)'
    <3>1. CASE d # c
      <4>1. ClientOwns(d) /\ cl'[d] = cl[d]
        BY <2>1, <3>1 DEF OwnerInv
      <4>2. cl[d].pc \in NumberedPC => cl[d].id \in Nat
        BY ConstFacts DEF TypeInv, PhaseInv
      <4> QED BY <1>0, <2>1, <4>1, <4>2 DEF ClientOwns
    <3>2. CASE d = c
      BY <2>1, <2>2, <3>2 DEF ClientOwns
    <3> QED BY <3>1, <3>2
  <2>5. OwnNumbers'
    <3>1. \A d \in Client \ {c} : cl'[d].pc \in NumberedPC => cl'[d].id < nextjob
      BY <2>1 DEF OwnerInv, ClientOwns
    <3> QED BY <1>0, <2>1, <3>1 DEF OwnerInv, OwnNumbers
  <2>6. NumbersFree'
    BY <1>0, <1>u, <2>1, ConstFacts DEF OwnerInv, NumbersFree
  <2> QED BY <2>3, <2>4, <2>5, <2>6 DEF OwnerInv
<1>3. CASE CreatData(c)
  <2>1. /\ UNCHANGED <<queue, ctl, prn, nextjob>> /\ cl[c].pc = "creat"
        /\ \A d \in Client \ {c} : cl'[d] = cl[d]
        /\ cl'[c].id = cl[c].id /\ cl'[c].pc \in {"upload", "failed"}
        /\ cl'[c].pc = "upload" => data'[cl[c].id].by = c
        /\ \A i \in Id \ {cl[c].id} : data'[i] = data[i]
    BY <1>0, <1>3 DEF CreatData
  <2>2. ~ctl[cl[c].id].whole
    BY <2>1, ClientAlone
  <2>3. ClientOwns(c)'
    BY <1>c, <2>1 DEF ClientOwns
  <2> QED BY <1>u, <2>1, <2>2, <2>3, ClientWrites
<1>4. CASE Upload(c)
  <2>1. /\ UNCHANGED <<queue, ctl, prn, nextjob>> /\ cl[c].pc = "upload"
        /\ \A d \in Client \ {c} : cl'[d] = cl[d]
        /\ cl'[c].id = cl[c].id /\ cl'[c].pc \in {"creat_ctl", "failed"}
        /\ cl'[c].pc = "creat_ctl" => data'[cl[c].id].by = data[cl[c].id].by
        /\ \A i \in Id \ {cl[c].id} : data'[i] = data[i]
    <3>1. CASE Goto(c, "failed") /\ data' = Unlink(data, c)
      BY <1>0, <1>4, <3>1 DEF Upload
    <3>2. CASE /\ Goto(c, "creat_ctl")
               /\ \E w \in BOOLEAN : data' = IF data[cl[c].id].by = c
                    THEN [data EXCEPT ![cl[c].id].whole = w] ELSE data
      <4>1. PICK w \in BOOLEAN : data' \in {data, [data EXCEPT ![cl[c].id].whole = w]}
        BY <3>2
      <4>2. data'[cl[c].id].by = data[cl[c].id].by
            /\ \A i \in Id \ {cl[c].id} : data'[i] = data[i]
        BY <1>0, <4>1 DEF FileType
      <4> QED BY <1>0, <1>4, <3>2, <4>2 DEF Upload
    <3> QED BY <1>4, <3>1, <3>2 DEF Upload
  <2>2. ~ctl[cl[c].id].whole
    BY <2>1, ClientAlone
  <2>3. ClientOwns(c)'
    BY <1>c, <2>1 DEF ClientOwns
  <2> QED BY <1>u, <2>1, <2>2, <2>3, ClientWrites
<1>5. CASE CreatCtl(c)
  <2>1. /\ UNCHANGED <<queue, prn, nextjob>> /\ cl[c].pc = "creat_ctl"
        /\ \A d \in Client \ {c} : cl'[d] = cl[d]
        /\ cl'[c].id = cl[c].id /\ cl'[c].pc \in {"write_ctl", "failed"}
        /\ cl'[c].pc = "write_ctl" => ctl'[cl[c].id] = File(c, FALSE) /\ data' = data
        /\ cl'[c].pc = "failed" => ctl' = ctl
        /\ \A i \in Id \ {cl[c].id} : data'[i] = data[i] /\ ctl'[i] = ctl[i]
    BY <1>0, <1>5 DEF CreatCtl
  <2>2. ~ctl[cl[c].id].whole
    BY <2>1, ClientAlone
  <2>3. ~ctl'[cl[c].id].whole
    BY <2>1, <2>2
  <2>4. ClientOwns(c)'
    BY <1>c, <2>1 DEF ClientOwns
  <2> QED BY <1>u, <2>1, <2>3, <2>4, ClientWrites
<1>6. CASE WriteCtl(c)
  <2>1. /\ UNCHANGED <<queue, prn, nextjob>> /\ cl[c].pc = "write_ctl"
        /\ \A d \in Client \ {c} : cl'[d] = cl[d]
        /\ cl'[c].id = cl[c].id /\ cl'[c].pc \in {"reply", "failed"}
        /\ cl'[c].pc = "reply" => ctl'[cl[c].id] = File(c, TRUE) /\ data' = data
        /\ cl'[c].pc = "failed" => ctl'[cl[c].id] = NoFile
        /\ \A i \in Id \ {cl[c].id} : data'[i] = data[i] /\ ctl'[i] = ctl[i]
    BY <1>0, <1>6 DEF WriteCtl
  <2>2. data[cl[c].id].by = c
    BY <1>c, <2>1 DEF ClientOwns
  <2>3. ctl'[cl[c].id].whole => data'[cl[c].id].by = ctl'[cl[c].id].by
    BY <2>1, <2>2 DEF NoFile
  <2>4. ClientOwns(c)'
    BY <1>c, <2>1 DEF ClientOwns
  <2> QED BY <1>u, <2>1, <2>3, <2>4, ClientWrites
<1>7. CASE AddJob(c)
  <2>1. /\ UNCHANGED <<spool, prn, nextjob>> /\ cl[c].pc = "add"
        /\ \A d \in Client \ {c} : cl'[d] = cl[d]
        /\ cl'[c].pc = "signal" /\ queue' = Append(queue, Job(cl[c].id, c))
        /\ queue \in Seq(JobType) /\ Job(cl[c].id, c) \in JobType
    BY <1>0, <1>7 DEF AddJob, TypeInv, TypeMain, JobType
  <2>2. \A k \in DOMAIN queue' : \/ queue'[k] = Job(cl[c].id, c)
                                 \/ k \in DOMAIN queue /\ queue'[k] = queue[k]
    BY <2>1, AppendFacts
  <2>3. ctl[cl[c].id] = File(c, TRUE)
    BY <1>c, <2>1 DEF ClientOwns
  <2>4. QueueOwns'
    <3> SUFFICES ASSUME NEW k \in DOMAIN queue'
                 PROVE  ctl[queue'[k].id] = File(queue'[k].by, TRUE)
      BY <2>1 DEF QueueOwns
    <3>1. CASE queue'[k] = Job(cl[c].id, c)
      BY <2>3, <3>1
    <3>2. CASE k \in DOMAIN queue /\ queue'[k] = queue[k]
      BY <3>2 DEF OwnerInv, QueueOwns
    <3> QED BY <2>2, <3>1, <3>2
  <2>5. PrinterOwns' /\ DataOwned' /\ NumbersFree'
    BY <1>u, <2>1 DEF OwnerInv, PrinterOwns, DataOwned, NumbersFree
  <2>6. (\A d \in Client : ClientOwns(d)') /\ OwnNumbers'
    BY <2>1 DEF OwnerInv, ClientOwns, OwnNumbers
  <2> QED BY <2>4, <2>5, <2>6 DEF OwnerInv
<1> QED BY <1>1, <1>2, <1>3, <1>4, <1>5, <1>6, <1>7 DEF ClientStep

-----------------------------------------------------------------------------
(***************************************************************************)
(* The same for the other threads.                                         *)
(***************************************************************************)

\* At first the spool directory is empty.
LEMMA OwnerInit == Init => OwnerInv
BY DEF Init, OwnerInv, QueueOwns, PrinterOwns, ClientOwns, OwnNumbers, DataOwned,
       NumbersFree, NoFile, NoJob, NumberedPC, CtlPC

\* The files and the threads of clients stay; jobs are moved between the list
\* and the printer thread.
LEMMA OwnerKept ==
  ASSUME TypeInv, OwnerInv, UNCHANGED <<spool, cl, daemon, nextjob>>,
         main'.todo = main.todo,
         daemon = "down" => UNCHANGED jobfile,
         \A c \in Client : printed[c] > 0 => printed'[c] > 0,
         QueueOwns', PrinterOwns'
  PROVE  OwnerInv'
<1>1. \A c \in Client : ClientOwns(c)'
  BY DEF OwnerInv, ClientOwns
<1>2. OwnNumbers' /\ NumbersFree'
  BY DEF OwnerInv, OwnNumbers, NumbersFree
<1>3. DataOwned'
  BY DEF OwnerInv, DataOwned, TypeInv, OwnerType
<1> QED BY <1>1, <1>2, <1>3 DEF OwnerInv

\* In a daemon that is not up no client thread runs.
LEMMA NoClient ==
  ASSUME TypeInv', daemon' # "up"
  PROVE  (\A c \in Client : ClientOwns(c)') /\ OwnNumbers'
<1>1. \A c \in Client : cl'[c].pc \in RestPC
  BY DEF TypeInv, PhaseInv
<1> QED BY <1>1 DEF ClientOwns, OwnNumbers, RestPC, NumberedPC, CtlPC

\* At start-up the number file is beyond every complete control file; what
\* build_qonstart removes, nobody has listed.
LEMMA MainKeepsOwner ==
  ASSUME TypeInv, TypeInv', KnownInv, OwnerInv, Start \/ MainStep PROVE OwnerInv'
<1>0. /\ ctl \in [Id -> FileType] /\ data \in [Id -> FileType] /\ queue \in Seq(JobType)
      /\ main.todo \subseteq Id /\ Id \subseteq Nat
      /\ prn \in [pc: IdlePC \cup BusyPC, job: JobType \cup {NoJob}, no: Nat]
      /\ prn.pc = "send" => prn.job # NoJob
      /\ \A k \in DOMAIN queue : queue[k].id \in Id
      /\ prn.job # NoJob => prn.job.id \in Id
  <2>1. queue \in Seq(JobType) /\ prn.job \in JobType \cup {NoJob}
    BY DEF TypeInv, TypeMain
  <2>2. \A k \in DOMAIN queue : queue[k] \in JobType
    BY <2>1
  <2> QED BY <2>1, <2>2, ConstFacts DEF TypeInv, TypeMain, BusyPC, JobType
<1>1. CASE Start
  <2>1. /\ UNCHANGED <<spool, printed, queue>> /\ daemon = "down"
        /\ daemon' = "starting"
        /\ nextjob' = (IF jobfile = 0 THEN 1 ELSE jobfile) /\ jobfile \in Nat
        /\ main'.todo = {i \in Id : ctl[i] # NoFile} /\ prn'.job = NoJob
        /\ prn'.pc = "get"
    BY <1>1 DEF Start, TypeInv, TypeMain
  <2>2. queue = <<>>
    BY <2>1 DEF TypeInv, PhaseInv
  <2>3. QueueOwns' /\ PrinterOwns' /\ DataOwned'
    BY <2>1, <2>2 DEF OwnerInv, QueueOwns, PrinterOwns, DataOwned
  <2>4. NumbersFree'
    <3>1. \A i \in Id : i >= nextjob' => i >= jobfile
      <4>1. jobfile \in Nat /\ (jobfile # 0 => nextjob' = jobfile)
        BY <2>1
      <4> QED BY <1>0, <4>1, ConstFacts
    <3>2. \A i \in Id : i >= jobfile => ~ctl[i].whole
      BY <2>1 DEF OwnerInv, NumbersFree
    <3> QED BY <2>1, <3>1, <3>2 DEF NumbersFree
  <2> QED BY <2>1, <2>3, <2>4, NoClient DEF OwnerInv
<1>2. ASSUME NEW i \in Id, Scan(i) PROVE OwnerInv'
  <2>0. /\ UNCHANGED <<cl, prn, daemon, nextjob, printed>> /\ daemon = "starting"
        /\ i \in main.todo
    BY <1>2 DEF Scan
  <2>1. CASE UNCHANGED queue /\ ctl' = [ctl EXCEPT ![i] = NoFile]
            /\ data' = [data EXCEPT ![i] = NoFile]
    <3>1. \A k \in DOMAIN queue : ctl[i].whole => queue[k].by # ctl[i].by
      BY <2>0 DEF KnownInv, TokenInv
    <3>9. ctl[i].whole => ctl[i].by # prn.job.by
      BY <2>0 DEF KnownInv, TokenInv
    <3>2. /\ ctl'[i] = NoFile /\ ~ctl'[i].whole
          /\ \A j \in Id \ {i} : ctl'[j] = ctl[j] /\ data'[j] = data[j]
      BY <1>0, <2>1 DEF NoFile
    <3>3. \A k \in DOMAIN queue : queue[k].id # i
      <4> SUFFICES ASSUME NEW k \in DOMAIN queue PROVE queue[k].id # i
        OBVIOUS
      <4>1. ctl[queue[k].id] = File(queue[k].by, TRUE)
        BY DEF OwnerInv, QueueOwns
      <4> QED BY <3>1, <4>1
    <3>4. prn.job # NoJob => prn.job.id # i
      BY <3>9 DEF OwnerInv, PrinterOwns
    <3>5. QueueOwns' /\ PrinterOwns'
      BY <1>0, <2>0, <2>1, <3>2, <3>3, <3>4 DEF OwnerInv, QueueOwns, PrinterOwns
    <3>6. DataOwned'
      BY <2>0, <3>2 DEF OwnerInv, DataOwned
    <3>7. NumbersFree'
      BY <2>0, <3>2 DEF OwnerInv, NumbersFree
    <3> QED BY <2>0, <3>5, <3>6, <3>7, NoClient DEF OwnerInv
  <2>2. CASE ctl[i].whole /\ UNCHANGED spool /\ queue' = Append(queue, Job(i, ctl[i].by))
    <3>1. Job(i, ctl[i].by) \in JobType
      BY <2>2 DEF TypeInv, OwnerType, JobType
    <3>2. \A k \in DOMAIN queue' : \/ queue'[k] = Job(i, ctl[i].by)
                                   \/ k \in DOMAIN queue /\ queue'[k] = queue[k]
      BY <1>0, <2>2, <3>1, AppendFacts
    <3>3. ctl[i] = File(ctl[i].by, TRUE)
      BY <1>0, <2>2 DEF FileType
    <3>4. QueueOwns'
      <4> SUFFICES ASSUME NEW k \in DOMAIN queue'
                   PROVE  ctl[queue'[k].id] = File(queue'[k].by, TRUE)
        BY <2>2 DEF QueueOwns
      <4>1. CASE queue'[k] = Job(i, ctl[i].by)
        BY <3>3, <4>1
      <4>2. CASE k \in DOMAIN queue /\ queue'[k] = queue[k]
        BY <4>2 DEF OwnerInv, QueueOwns
      <4> QED BY <3>2, <4>1, <4>2
    <3>5. PrinterOwns' /\ DataOwned'
      BY <2>0, <2>2 DEF OwnerInv, PrinterOwns, DataOwned
    <3>6. NumbersFree'
      BY <2>0, <2>2 DEF OwnerInv, NumbersFree
    <3> QED BY <2>0, <3>4, <3>5, <3>6, NoClient DEF OwnerInv
  <2> QED BY <1>2, <2>1, <2>2 DEF Scan
<1>3. CASE ScanSignal
  <2>1. /\ UNCHANGED <<spool, cl, daemon, nextjob, jobfile, queue, printed>>
        /\ main'.todo = main.todo /\ prn'.job = prn.job
        /\ prn'.pc = "send" => prn.pc = "send"
    BY <1>0, <1>3 DEF ScanSignal, TypeInv, TypeMain
  <2>2. QueueOwns' /\ PrinterOwns'
    BY <2>1 DEF OwnerInv, QueueOwns, PrinterOwns
  <2> QED BY <2>1, <2>2, OwnerKept
<1>4. CASE Initialized
  <2>1. /\ UNCHANGED <<spool, cl, nextjob, jobfile, queue, printed, prn>>
        /\ main.todo = {} /\ daemon = "starting" /\ daemon' = "up"
    BY <1>4 DEF Initialized
  <2>2. QueueOwns' /\ PrinterOwns' /\ DataOwned' /\ OwnNumbers'
    BY <2>1 DEF OwnerInv, QueueOwns, PrinterOwns, DataOwned, OwnNumbers
  <2>3. \A c \in Client : ClientOwns(c)'
    BY <2>1 DEF OwnerInv, ClientOwns
  <2>4. NumbersFree'
    BY <2>1 DEF OwnerInv, NumbersFree
  <2> QED BY <2>2, <2>3, <2>4 DEF OwnerInv
<1>5. ASSUME NEW S \in Unreached, Pass(S) PROVE OwnerInv'
  <2>1. UNCHANGED <<spool, cl, daemon, nextjob, jobfile, queue, prn, printed>>
    BY <1>5 DEF Pass
  <2> QED BY <2>1 DEF OwnerInv, QueueOwns, PrinterOwns, DataOwned, OwnNumbers,
                      ClientOwns, NumbersFree
<1> QED BY <1>1, <1>2, <1>3, <1>4, <1>5 DEF MainStep

\* The printer thread opens and removes the files of its own job.
LEMMA PrinterKeepsOwner ==
  ASSUME TypeInv, TypeInv', KnownInv, OwnerInv, PrinterStep \/ SpuriousWakeup
  PROVE  OwnerInv'
<1>0. /\ ctl \in [Id -> FileType] /\ data \in [Id -> FileType] /\ queue \in Seq(JobType)
      /\ prn \in [pc: IdlePC \cup BusyPC, job: JobType \cup {NoJob}, no: Nat]
      /\ prn.pc \in BusyPC => prn.job # NoJob
      /\ \A k \in DOMAIN queue : queue[k].id \in Id
  <2>1. queue \in Seq(JobType)
    BY DEF TypeInv, TypeMain
  <2>2. \A k \in DOMAIN queue : queue[k] \in JobType
    BY <2>1
  <2> QED BY <2>1, <2>2 DEF TypeInv, TypeMain, JobType
<1>u. daemon # "down" /\ PrinterOnly
  BY DEF PrinterStep, SpuriousWakeup, GetJob, UpdateFormat, UpdateWrite, CheckConfig,
         InitPrinter, SetPrinter, OpenData, Send, PrinterStatus, UnlinkData, UnlinkCtl,
         ReplaceJob, WakeUp
<1>1. CASE GetJob /\ queue # <<>>
  <2>1. /\ UNCHANGED <<spool, printed>> /\ queue' = Tail(queue)
        /\ prn'.pc = "format" /\ prn'.job = Head(queue)
    BY <1>1 DEF GetJob
  <2>2. /\ Head(queue) = queue[1] /\ 1 \in DOMAIN queue
        /\ \A k \in DOMAIN queue' : k + 1 \in DOMAIN queue /\ queue'[k] = queue[k + 1]
    BY <1>0, <1>1, <2>1, TailFacts
  <2>3. \A k \in DOMAIN queue : ctl[queue[k].id] = File(queue[k].by, TRUE)
    BY DEF OwnerInv, QueueOwns
  <2>4. QueueOwns'
    BY <2>1, <2>2, <2>3 DEF QueueOwns
  <2>5. PrinterOwns'
    BY <2>1, <2>2, <2>3 DEF PrinterOwns
  <2> QED BY <1>u, <2>1, <2>4, <2>5, OwnerKept
<1>2. CASE \/ (GetJob /\ queue = <<>>) \/ SpuriousWakeup \/ UpdateFormat \/ UpdateWrite
           \/ WakeUp \/ CheckConfig \/ InitPrinter \/ SetPrinter \/ PrinterStatus
  <2>1. UNCHANGED <<spool, printed, queue>> /\ prn'.job = prn.job /\ prn'.pc # "send"
    <3>1. CASE \/ (GetJob /\ queue = <<>>) \/ SpuriousWakeup \/ UpdateFormat
               \/ UpdateWrite
               \/ WakeUp
      BY <1>0, <3>1 DEF GetJob, SpuriousWakeup, UpdateFormat, UpdateWrite, WakeUp
    <3>2. CASE CheckConfig \/ InitPrinter \/ SetPrinter
      BY <1>0, <3>2 DEF CheckConfig, InitPrinter, SetPrinter
    <3>3. CASE PrinterStatus
      BY <1>0, <3>3 DEF PrinterStatus
    <3> QED BY <1>2, <3>1, <3>2, <3>3
  <2>2. QueueOwns' /\ PrinterOwns'
    BY <2>1 DEF OwnerInv, QueueOwns, PrinterOwns
  <2> QED BY <1>u, <2>1, <2>2, OwnerKept
<1>3. CASE OpenData
  <2>1. UNCHANGED <<spool, printed, queue>> /\ prn.pc = "open" /\ prn.job # NoJob
        /\ \/ prn'.job = prn.job /\ prn'.pc = "send" /\ data[prn.job.id] # NoFile
           \/ prn'.job = NoJob /\ prn'.pc = "get"
    BY <1>0, <1>3 DEF OpenData, BusyPC
  <2>2. prn.job.id \in Id /\ ctl[prn.job.id] = File(prn.job.by, TRUE)
    BY <2>1, PrinterAlone
  <2>3. data[prn.job.id] # NoFile => data[prn.job.id].by = prn.job.by
    BY <2>2 DEF OwnerInv, DataOwned
  <2>4. QueueOwns' /\ PrinterOwns'
    BY <2>1, <2>2, <2>3 DEF OwnerInv, QueueOwns, PrinterOwns
  <2> QED BY <1>u, <2>1, <2>4, OwnerKept
<1>4. CASE Send
  <2>1. /\ UNCHANGED <<spool, queue>> /\ prn'.job = prn.job /\ prn'.pc # "send"
        /\ \/ UNCHANGED printed
           \/ printed' = [printed EXCEPT ![prn.job.by] = printed[prn.job.by] + 1]
    BY <1>0, <1>4 DEF Send
  <2>2. \A c \in Client : printed[c] > 0 => printed'[c] > 0
    <3>1. printed \in [Client -> Nat]
      BY DEF TypeInv, TypeMain
    <3> QED BY ONLY <2>1, <3>1
  <2>3. QueueOwns' /\ PrinterOwns'
    BY <2>1 DEF OwnerInv, QueueOwns, PrinterOwns
  <2> QED BY <1>u, <2>1, <2>2, <2>3, OwnerKept
<1>5. CASE UnlinkData
  <2>1. /\ UNCHANGED <<ctl, printed, queue, jobfile>> /\ prn.pc = "unlink_data"
        /\ prn.job # NoJob
        /\ prn'.job = prn.job /\ prn'.pc = "unlink_ctl"
        /\ data' = [data EXCEPT ![prn.job.id] = NoFile]
    BY <1>0, <1>5 DEF UnlinkData, BusyPC
  <2>2. /\ prn.job.id \in Id /\ ctl[prn.job.id] = File(prn.job.by, TRUE)
        /\ \A d \in Client : cl[d].pc \in NumberedPC => cl[d].id # prn.job.id
    BY <2>1, PrinterAlone
  <2>3. data'[prn.job.id] = NoFile /\ \A i \in Id \ {prn.job.id} : data'[i] = data[i]
    BY <1>0, <2>1, <2>2
  <2>4. QueueOwns' /\ PrinterOwns' /\ OwnNumbers' /\ NumbersFree'
    BY <1>u, <2>1 DEF OwnerInv, QueueOwns, PrinterOwns, OwnNumbers, NumbersFree
  <2>5. ASSUME NEW c \in Client PROVE ClientOwns(c)'
    <3>1. cl[c].pc \in NumberedPC => cl[c].id \in Id
      BY DEF TypeInv, PhaseInv
    <3> QED BY <1>u, <2>1, <2>2, <2>3, <3>1 DEF OwnerInv, ClientOwns, NumberedPC, CtlPC
  <2>6. DataOwned'
    <3>1. printed[prn.job.by] > 0
      BY <2>1 DEF KnownInv, CountInv, SentPC
    <3> QED BY <2>1, <2>2, <2>3, <3>1 DEF OwnerInv, DataOwned
  <2> QED BY <2>4, <2>5, <2>6 DEF OwnerInv
<1>6. CASE UnlinkCtl
  <2>1. /\ UNCHANGED <<data, printed, queue, jobfile>> /\ prn.job # NoJob
        /\ prn'.job = NoJob /\ prn'.pc = "get"
        /\ ctl' = [ctl EXCEPT ![prn.job.id] = NoFile]
    BY <1>0, <1>6 DEF UnlinkCtl, BusyPC
  <2>2. /\ prn.job.id \in Id
        /\ \A k \in DOMAIN queue : queue[k].id # prn.job.id
        /\ \A d \in Client : cl[d].pc \in NumberedPC => cl[d].id # prn.job.id
    BY <2>1, PrinterAlone
  <2>3. /\ ctl'[prn.job.id] = NoFile /\ ~ctl'[prn.job.id].whole
        /\ \A i \in Id \ {prn.job.id} : ctl'[i] = ctl[i]
    BY <1>0, <2>1, <2>2 DEF NoFile
  <2>4. QueueOwns' /\ PrinterOwns' /\ OwnNumbers'
    BY <1>0, <1>u, <2>1, <2>2, <2>3 DEF OwnerInv, QueueOwns, PrinterOwns, OwnNumbers
  <2>5. ASSUME NEW c \in Client PROVE ClientOwns(c)'
    <3>1. cl[c].pc \in NumberedPC => cl[c].id \in Id
      BY DEF TypeInv, PhaseInv
    <3> QED BY <1>u, <2>1, <2>2, <2>3, <3>1 DEF OwnerInv, ClientOwns, NumberedPC, CtlPC
  <2>6. DataOwned' /\ NumbersFree'
    BY <1>u, <2>1, <2>3 DEF OwnerInv, DataOwned, NumbersFree
  <2> QED BY <2>4, <2>5, <2>6 DEF OwnerInv
<1>7. CASE ReplaceJob
  <2>1. /\ UNCHANGED <<spool, printed>> /\ prn.job # NoJob
        /\ queue' = <<prn.job>> \o queue /\ prn'.job = NoJob /\ prn'.pc = "sleep"
    BY <1>0, <1>7 DEF ReplaceJob, BusyPC
  <2>2. prn.job \in JobType /\ ctl[prn.job.id] = File(prn.job.by, TRUE)
    BY <1>0, <2>1, PrinterAlone
  <2>3. \A k \in DOMAIN queue' :
          queue'[k] = prn.job \/ \E m \in DOMAIN queue : queue'[k] = queue[m]
    BY <1>0, <2>1, <2>2, ConsFacts
  <2>4. QueueOwns'
    BY <2>1, <2>2, <2>3 DEF OwnerInv, QueueOwns
  <2>5. PrinterOwns'
    BY <2>1 DEF PrinterOwns
  <2> QED BY <1>u, <2>1, <2>4, <2>5, OwnerKept
<1> QED BY <1>1, <1>2, <1>3, <1>4, <1>5, <1>6, <1>7 DEF PrinterStep

\* A death that forgets no number leaves the files to their owners.
LEMMA SignalKeepsOwner ==
  ASSUME TypeInv, TypeInv', OwnerInv, Reconfigure \/ HandleHup \/ Kill
  PROVE  stale' \/ OwnerInv'
<1>1. CASE Reconfigure \/ HandleHup
  <2>1. UNCHANGED <<daemon, nextjob, jobfile, spool, queue, prn, cl, main, printed>>
    BY <1>1 DEF Reconfigure, HandleHup
  <2>2. QueueOwns' /\ PrinterOwns'
    BY <2>1 DEF OwnerInv, QueueOwns, PrinterOwns
  <2> QED BY <2>1, <2>2, OwnerKept
<1>2. CASE Kill
  <2> SUFFICES ASSUME ~stale' PROVE OwnerInv'
    OBVIOUS
  <2>1. /\ UNCHANGED <<spool, jobfile, printed>> /\ queue' = <<>> /\ daemon' = "down"
        /\ prn'.job = NoJob /\ prn'.pc = "get"
    BY <1>2 DEF Kill
  <2>2. ~Forgotten
    BY <1>2 DEF Kill
  <2>3. QueueOwns' /\ PrinterOwns' /\ DataOwned'
    BY <2>1 DEF OwnerInv, QueueOwns, PrinterOwns, DataOwned
  <2>4. NumbersFree'
    BY <2>1, <2>2 DEF NumbersFree, Forgotten
  <2> QED BY <2>1, <2>3, <2>4, NoClient DEF OwnerInv
<1> QED BY <1>1, <1>2

-----------------------------------------------------------------------------
(***************************************************************************)
(* What was accepted and what was sent.                                    *)
(***************************************************************************)

\* Nothing was accepted yet.
LEMMA PromiseInit == Init => OutOwned /\ Kept /\ Seen
BY DEF Init, OutOwned, Kept, Seen

\* A file that belongs to a complete request is left alone until the job was
\* sent to the printer or build_qonstart could not read it.
LEMMA StoredKept ==
  ASSUME TypeInv, Kept,
         \A c \in acked' : c \in acked \/ OnDisk(c)',
         \A c \in Client : printed[c] > 0 => printed'[c] > 0,
         \A i \in Id : ctl[i].whole =>
           \/ ctl'[i] = ctl[i] /\ data'[i].by = data[i].by
           \/ printed[ctl[i].by] > 0
           \/ ctl[i].by \in unread',
         unread \subseteq unread'
  PROVE  Kept'
<1> SUFFICES ASSUME NEW c \in acked', c \notin unread'
             PROVE  printed'[c] > 0 \/ OnDisk(c)'
  BY DEF Kept
<1>1. CASE c \in acked
  <2>1. c \in Client
    BY <1>1 DEF TypeInv, TypeMain
  <2>2. CASE printed[c] > 0
    BY <2>1, <2>2
  <2>3. CASE OnDisk(c)
    <3>1. PICK i \in Id : ctl[i] = File(c, TRUE) /\ data[i].by = c
      BY <2>3 DEF OnDisk
    <3>2. ctl[i].whole /\ ctl[i].by = c
      BY <3>1
    <3> QED BY <2>1, <3>1, <3>2 DEF OnDisk
  <2> QED BY <1>1, <2>2, <2>3 DEF Kept
<1> QED BY <1>1

\* build_qonstart finds every accepted job that was not printed, or gives it up.
LEMMA MainKeepsPromise ==
  ASSUME TypeInv, TypeInv', KnownInv, OutOwned, Kept, Seen, Start \/ MainStep
  PROVE  OutOwned' /\ Kept' /\ Seen'
<1>0. /\ ctl \in [Id -> FileType] /\ data \in [Id -> FileType] /\ queue \in Seq(JobType)
      /\ main.todo \subseteq Id /\ acked \subseteq Client
      /\ prn \in [pc: IdlePC \cup BusyPC, job: JobType \cup {NoJob}, no: Nat]
  BY DEF TypeInv, TypeMain
<1>u. /\ UNCHANGED <<out, acked, printed, cl>>
      /\ unread \subseteq unread' /\ cancelled \subseteq cancelled'
  BY DEF Start, MainStep, Scan, Pass, ScanSignal, Initialized
<1>o. OutOwned'
  BY <1>u DEF OutOwned
<1>1. CASE Start
  <2>1. UNCHANGED spool /\ main'.todo = {i \in Id : ctl[i] # NoFile}
    BY <1>1 DEF Start
  <2>2. Kept'
    BY <1>u, <2>1 DEF Kept, OnDisk
  <2>3. Seen'
    <3> SUFFICES ASSUME NEW c \in acked, OnDisk(c) PROVE InMemory(c)'
      BY <1>u DEF Seen, Kept
    <3>1. PICK i \in Id : ctl[i] = File(c, TRUE)
      BY DEF OnDisk
    <3>2. i \in main'.todo /\ ctl'[i].by = c
      BY <2>1, <3>1 DEF NoFile
    <3> QED BY <3>2 DEF InMemory
  <2> QED BY <1>o, <2>2, <2>3
<1>2. ASSUME NEW i \in Id, Scan(i) PROVE Kept' /\ Seen'
  <2>0. UNCHANGED <<prn, daemon>> /\ daemon = "starting" /\ i \in main.todo
        /\ main'.todo = main.todo \ {i}
    BY <1>2 DEF Scan, TypeInv, TypeMain
  <2>1. CASE /\ UNCHANGED queue /\ ctl' = [ctl EXCEPT ![i] = NoFile]
             /\ data' = [data EXCEPT ![i] = NoFile]
             /\ ctl[i].whole => unread' = unread \cup {ctl[i].by}
    <3>1. UNCHANGED queue
          /\ \A j \in Id \ {i} : ctl'[j] = ctl[j] /\ data'[j] = data[j]
      BY <1>0, <2>1
    <3>2. Kept'
      BY <1>u, <2>1, <3>1, StoredKept
    <3>3. Seen'
      <4> SUFFICES ASSUME NEW c \in acked, InMemory(c), ~(printed[c] > 0),
                          c \notin unread'
                   PROVE  InMemory(c)'
        BY <1>u, <2>0 DEF Seen
      <4>1. PICK j \in Id : ctl[j] = File(c, TRUE)
        BY <1>u DEF Kept, OnDisk
      <4>2. c \in Client /\ c # Nobody
        BY <1>0, NobodyAssumption
      <4>3. ctl[i].by # c
        BY <2>1, <4>1, <4>2 DEF KnownInv, CtlInv
      <4>4. \A k \in main.todo : ctl[k].by = c => k \in main'.todo /\ ctl'[k].by = c
        BY <1>0, <2>0, <3>1, <4>3
      <4> QED BY <1>u, <2>0, <3>1, <4>4 DEF InMemory
    <3> QED BY <3>2, <3>3
  <2>2. CASE ctl[i].whole /\ UNCHANGED spool /\ queue' = Append(queue, Job(i, ctl[i].by))
    <3>1. UNCHANGED spool /\ queue' = Append(queue, Job(i, ctl[i].by))
          /\ Job(i, ctl[i].by) \in JobType
      BY <2>2 DEF TypeInv, OwnerType, JobType
    <3>2. /\ Len(queue) + 1 \in DOMAIN queue'
          /\ queue'[Len(queue) + 1] = Job(i, ctl[i].by)
          /\ \A k \in DOMAIN queue : k \in DOMAIN queue' /\ queue'[k] = queue[k]
      BY <1>0, <3>1, AppendFacts
    <3>3. Kept'
      BY <1>u, <3>1 DEF Kept, OnDisk
    <3>4. Seen'
      <4> SUFFICES ASSUME NEW c \in acked, InMemory(c) PROVE InMemory(c)'
        BY <1>u, <2>0 DEF Seen
      <4>1. CASE ctl[i].by = c
        <5>1. queue'[Len(queue) + 1].by = c
          BY <3>2, <4>1
        <5> QED BY <3>2, <5>1 DEF InMemory
      <4>2. CASE ctl[i].by # c
        BY <1>u, <2>0, <3>1, <3>2, <4>2 DEF InMemory
      <4> QED BY <4>1, <4>2
    <3> QED BY <3>3, <3>4
  <2> QED BY <1>2, <2>1, <2>2 DEF Scan
<1>3. CASE ScanSignal \/ Initialized
  <2>1. UNCHANGED <<spool, queue>> /\ main'.todo = main.todo /\ prn'.job = prn.job
        /\ daemon # "down"
    BY <1>0, <1>3 DEF ScanSignal, Initialized, TypeInv, TypeMain
  <2>2. Kept'
    BY <1>u, <2>1 DEF Kept, OnDisk
  <2>3. Seen'
    BY <1>u, <2>1 DEF Seen, InMemory
  <2> QED BY <1>o, <2>2, <2>3
<1>4. ASSUME NEW S \in Unreached, Pass(S) PROVE Kept' /\ Seen'
  <2>1. /\ UNCHANGED <<spool, queue, prn, daemon>> /\ daemon = "starting"
        /\ main'.todo = main.todo \ S
        /\ cancelled' = cancelled \cup {ctl[i].by : i \in {j \in S : ctl[j].whole}}
    BY <1>4 DEF Pass, TypeInv, TypeMain
  <2>2. Kept'
    BY <1>u, <2>1 DEF Kept, OnDisk
  <2>3. Seen'
    <3> SUFFICES ASSUME NEW c \in acked, InMemory(c), OnDisk(c)
                 PROVE  InMemory(c)' \/ c \in cancelled'
      BY <1>u, <2>1 DEF Seen, Kept
    <3>1. CASE \E i \in main.todo : ctl[i].by = c
      <4>1. PICK i \in main.todo : ctl[i].by = c
        BY <3>1
      <4>2. PICK j \in Id : ctl[j] = File(c, TRUE)
        BY DEF OnDisk
      <4>3. i = j
        BY <1>0, <4>1, <4>2, NobodyAssumption DEF KnownInv, CtlInv
      <4>4. CASE i \in S
        BY <2>1, <4>1, <4>2, <4>3, <4>4
      <4>5. CASE i \notin S
        BY <2>1, <4>1, <4>5 DEF InMemory
      <4> QED BY <4>4, <4>5
    <3>2. CASE ~\E i \in main.todo : ctl[i].by = c
      BY <1>u, <2>1, <3>2 DEF InMemory
    <3> QED BY <3>1, <3>2
  <2> QED BY <2>2, <2>3
<1> QED BY <1>o, <1>1, <1>2, <1>3, <1>4 DEF MainStep

\* A job is accepted when its files are complete.
LEMMA ClientKeepsPromise ==
  ASSUME TypeInv, TypeInv', KnownInv, OwnerInv, OutOwned, Kept, Seen,
         NEW c \in Client, ClientStep(c)
  PROVE  OutOwned' /\ Kept' /\ Seen'
<1> USE DEF NumberedPC, CtlPC
<1>0. /\ cl \in [Client -> [pc: ClientLabel, id: 0..JOB_MAX]]
      /\ ctl \in [Id -> FileType] /\ data \in [Id -> FileType] /\ queue \in Seq(JobType)
      /\ prn \in [pc: IdlePC \cup BusyPC, job: JobType \cup {NoJob}, no: Nat]
      /\ acked \subseteq Client
  BY DEF TypeInv, TypeMain
<1>i. cl[c].pc \in NumberedPC => cl[c].id \in Id
  BY DEF TypeInv, PhaseInv
<1>u. daemon = "up" /\ UNCHANGED <<daemon, main, printed, out, cancelled, unread>>
  <2>1. daemon # "down" /\ (daemon = "up" \/ cl[c].pc \notin RestPC)
        /\ UNCHANGED <<daemon, main, printed, out, cancelled, unread>>
    BY DEF ClientStep, Accept, GetNewJobNo, CreatData, Upload, CreatCtl, WriteCtl,
           SendResponse, AddJob, Signal, RestPC
  <2> QED BY <2>1 DEF TypeInv, PhaseInv
<1>t. main.todo = {} /\ main'.todo = {}
  BY <1>u DEF TypeInv, PhaseInv
<1>o. OutOwned'
  BY <1>u DEF OutOwned
<1>1. CASE Accept(c) \/ GetNewJobNo(c) \/ Signal(c)
  <2>1. /\ UNCHANGED <<spool, queue, acked>> /\ prn'.job = prn.job
        /\ \A d \in Client : cl[d].pc = "add" => cl'[d].pc = "add"
    BY <1>0, <1>1 DEF Accept, GetNewJobNo, Signal
  <2>2. Kept'
    BY <1>u, <2>1 DEF Kept, OnDisk
  <2>3. Seen'
    BY <1>0, <1>u, <1>t, <2>1 DEF Seen, InMemory
  <2> QED BY <1>o, <2>2, <2>3
<1>2. CASE CreatData(c) \/ Upload(c) \/ CreatCtl(c) \/ WriteCtl(c)
  <2>1. /\ UNCHANGED <<queue, prn, acked>>
        /\ cl[c].pc \in {"creat", "upload", "creat_ctl", "write_ctl"}
        /\ \A d \in Client : cl[d].pc = "add" => cl'[d].pc = "add"
        /\ \A i \in Id \ {cl[c].id} : ctl'[i] = ctl[i] /\ data'[i] = data[i]
    <3>1. CASE CreatData(c)
      BY <1>0, <3>1 DEF CreatData
    <3>2. CASE Upload(c)
      BY <1>0, <3>2 DEF Upload
    <3>3. CASE CreatCtl(c)
      BY <1>0, <3>3 DEF CreatCtl
    <3>4. CASE WriteCtl(c)
      BY <1>0, <3>4 DEF WriteCtl
    <3> QED BY <1>2, <3>1, <3>2, <3>3, <3>4
  <2>2. ~ctl[cl[c].id].whole
    BY <2>1, ClientAlone
  <2>3. Kept'
    BY <1>u, <2>1, <2>2, StoredKept
  <2>4. Seen'
    BY <1>0, <1>u, <1>t, <2>1 DEF Seen, InMemory
  <2> QED BY <1>o, <2>3, <2>4
<1>3. CASE SendResponse(c)
  <2>1. /\ UNCHANGED <<spool, queue, prn>> /\ cl[c].pc = "reply" /\ cl'[c].pc = "add"
        /\ \A d \in Client : cl[d].pc = "add" => cl'[d].pc = "add"
        /\ acked' \subseteq acked \cup {c}
    BY <1>0, <1>3 DEF SendResponse
  <2>2. OnDisk(c)'
    <3>1. ctl[cl[c].id] = File(c, TRUE) /\ data[cl[c].id].by = c /\ cl[c].id \in Id
      BY <1>i, <2>1 DEF OwnerInv, ClientOwns
    <3> QED BY <2>1, <3>1 DEF OnDisk
  <2>3. Kept'
    BY <1>u, <2>1, <2>2, StoredKept
  <2>4. Seen'
    BY <1>0, <1>u, <1>t, <2>1 DEF Seen, InMemory
  <2> QED BY <1>o, <2>3, <2>4
<1>4. CASE AddJob(c)
  <2>1. /\ UNCHANGED <<spool, prn, acked>> /\ queue' = Append(queue, Job(cl[c].id, c))
        /\ Job(cl[c].id, c) \in JobType
        /\ \A d \in Client \ {c} : cl'[d] = cl[d]
    BY <1>0, <1>i, <1>4 DEF AddJob, JobType
  <2>2. /\ Len(queue) + 1 \in DOMAIN queue' /\ queue'[Len(queue) + 1] = Job(cl[c].id, c)
        /\ \A k \in DOMAIN queue : k \in DOMAIN queue' /\ queue'[k] = queue[k]
    BY <1>0, <2>1, AppendFacts
  <2>3. Kept'
    BY <1>u, <2>1 DEF Kept, OnDisk
  <2>4. InMemory(c)'
    <3>1. queue'[Len(queue) + 1].by = c
      BY <2>2
    <3> QED BY <2>2, <3>1 DEF InMemory
  <2>5. \A d \in Client \ {c} : InMemory(d) => InMemory(d)'
    BY <1>t, <2>1, <2>2 DEF InMemory
  <2>6. Seen'
    BY <1>0, <1>u, <2>1, <2>4, <2>5 DEF Seen
  <2> QED BY <1>o, <2>3, <2>6
<1> QED BY <1>1, <1>2, <1>3, <1>4 DEF ClientStep

\* The printer thread sends its own document, and removes files after that.
LEMMA PrinterKeepsPromise ==
  ASSUME TypeInv, TypeInv', KnownInv, OwnerInv, OutOwned, Kept, Seen,
         PrinterStep \/ SpuriousWakeup
  PROVE  OutOwned' /\ Kept' /\ Seen'
<1>0. /\ ctl \in [Id -> FileType] /\ data \in [Id -> FileType] /\ queue \in Seq(JobType)
      /\ prn \in [pc: IdlePC \cup BusyPC, job: JobType \cup {NoJob}, no: Nat]
      /\ prn.pc \in BusyPC => prn.job # NoJob
      /\ acked \subseteq Client /\ main.todo \subseteq Id
      /\ NoJob.by = Nobody
  BY DEF TypeInv, TypeMain, NoJob
<1>u. daemon # "down" /\ PrinterOnly /\ UNCHANGED <<acked, unread>>
  BY DEF PrinterStep, SpuriousWakeup, GetJob, UpdateFormat, UpdateWrite, CheckConfig,
         InitPrinter, SetPrinter, OpenData, Send, PrinterStatus, UnlinkData, UnlinkCtl,
         ReplaceJob, WakeUp
<1>1. CASE GetJob /\ queue # <<>>
  <2>1. /\ UNCHANGED <<spool, printed, out, cancelled>> /\ queue' = Tail(queue)
        /\ prn'.job = Head(queue) /\ prn.job = NoJob
    BY <1>1 DEF GetJob, TypeInv, TypeMain, BusyPC
  <2>2. OutOwned' /\ Kept'
    BY <1>u, <2>1 DEF OutOwned, Kept, OnDisk
  <2>3. \A k \in DOMAIN queue : queue[k] = Head(queue) \/
          \E l \in DOMAIN queue' : queue'[l] = queue[k]
    <3> SUFFICES ASSUME NEW k \in DOMAIN queue, k # 1
                 PROVE  k - 1 \in DOMAIN queue' /\ queue'[k - 1] = queue[k]
      BY <1>0, <1>1, TailFacts
    <3>1. /\ Len(queue) \in Nat /\ DOMAIN queue = 1..Len(queue)
          /\ DOMAIN queue' = 1..(Len(queue) - 1)
          /\ \A l \in DOMAIN queue' : queue'[l] = queue[l + 1]
      BY <1>0, <1>1, <2>1, TailFacts
    <3>2. k - 1 \in DOMAIN queue' /\ (k - 1) + 1 = k
      BY <3>1
    <3> QED BY <3>1, <3>2
  <2>4. \A c \in Client : InMemory(c) => InMemory(c)'
    BY <1>0, <1>u, <2>1, <2>3, NobodyAssumption DEF InMemory
  <2>5. Seen'
    BY <1>0, <1>u, <2>1, <2>4 DEF Seen
  <2> QED BY <2>2, <2>5
<1>2. CASE \/ (GetJob /\ queue = <<>>) \/ SpuriousWakeup \/ UpdateFormat \/ UpdateWrite
           \/ WakeUp \/ CheckConfig \/ InitPrinter \/ SetPrinter \/ PrinterStatus
  <2>1. UNCHANGED <<spool, printed, out, cancelled, queue>> /\ prn'.job = prn.job
    <3>1. CASE \/ (GetJob /\ queue = <<>>) \/ SpuriousWakeup \/ UpdateFormat
               \/ UpdateWrite
               \/ WakeUp
      BY <1>0, <3>1 DEF GetJob, SpuriousWakeup, UpdateFormat, UpdateWrite, WakeUp
    <3>2. CASE CheckConfig \/ InitPrinter \/ SetPrinter
      BY <1>0, <3>2 DEF CheckConfig, InitPrinter, SetPrinter
    <3>3. CASE PrinterStatus
      BY <1>0, <3>3 DEF PrinterStatus
    <3> QED BY <1>2, <3>1, <3>2, <3>3
  <2>2. OutOwned' /\ Kept'
    BY <1>u, <2>1 DEF OutOwned, Kept, OnDisk
  <2>3. Seen'
    BY <1>u, <2>1 DEF Seen, InMemory
  <2> QED BY <2>2, <2>3
<1>3. CASE OpenData
  <2>1. UNCHANGED <<spool, printed, out, queue>>
        /\ \/ prn'.job = prn.job /\ cancelled' = cancelled
           \/ cancelled' = cancelled \cup {prn.job.by}
    BY <1>0, <1>3 DEF OpenData
  <2>2. OutOwned' /\ Kept'
    BY <1>u, <2>1 DEF OutOwned, Kept, OnDisk
  <2>3. Seen'
    BY <1>u, <2>1 DEF Seen, InMemory
  <2> QED BY <2>2, <2>3
<1>4. CASE Send
  <2> DEFINE sent == [job |-> prn.job.by, by |-> data[prn.job.id].by,
                      whole |-> data[prn.job.id].whole]
  <2>1. /\ UNCHANGED <<spool, queue, cancelled>> /\ prn'.job = prn.job
        /\ prn.pc = "send"
        /\ \/ UNCHANGED printed
           \/ printed' = [printed EXCEPT ![prn.job.by] = printed[prn.job.by] + 1]
        /\ out' \subseteq out \cup {sent}
    BY <1>0, <1>4 DEF Send
  <2>2. \A c \in Client : printed[c] > 0 => printed'[c] > 0
    <3>1. printed \in [Client -> Nat]
      BY DEF TypeInv, TypeMain
    <3> QED BY ONLY <2>1, <3>1
  <2>3. data[prn.job.id].by = prn.job.by
    BY <2>1 DEF OwnerInv, PrinterOwns
  <2>4. OutOwned'
    BY <2>1, <2>3 DEF OutOwned
  <2>5. Kept'
    BY <1>u, <2>1, <2>2, StoredKept
  <2>6. Seen'
    BY <1>0, <1>u, <2>1, <2>2 DEF Seen, InMemory
  <2> QED BY <2>4, <2>5, <2>6
<1>5. CASE UnlinkData \/ UnlinkCtl
  <2>1. /\ UNCHANGED <<printed, queue, out, cancelled>>
        /\ prn.pc \in {"unlink_data", "unlink_ctl"} /\ prn.job # NoJob
        /\ prn'.job \in {prn.job, NoJob}
        /\ data' \in {data, [data EXCEPT ![prn.job.id] = NoFile]}
        /\ ctl' \in {ctl, [ctl EXCEPT ![prn.job.id] = NoFile]}
    BY <1>0, <1>5 DEF UnlinkData, UnlinkCtl, BusyPC
  <2>2. prn.job.id \in Id /\ ctl[prn.job.id] = File(prn.job.by, TRUE)
    BY <2>1, PrinterAlone
  <2>3. \A i \in Id \ {prn.job.id} : ctl'[i] = ctl[i] /\ data'[i] = data[i]
    BY <1>0, <2>1
  <2>4. printed[prn.job.by] > 0 /\ ctl[prn.job.id].by = prn.job.by
    BY <2>1, <2>2 DEF KnownInv, CountInv, SentPC
  <2>5. Kept'
    BY <1>u, <2>1, <2>3, <2>4, StoredKept
  <2>6. \A c \in Client : InMemory(c) => InMemory(c)' \/ c = prn.job.by
    BY <1>0, <1>u, <2>1, <2>2, <2>3, <2>4 DEF InMemory
  <2>7. Seen'
    BY <1>0, <1>u, <2>1, <2>4, <2>6 DEF Seen
  <2>8. OutOwned'
    BY <2>1 DEF OutOwned
  <2> QED BY <2>5, <2>7, <2>8
<1>6. CASE ReplaceJob
  <2>1. /\ UNCHANGED <<spool, printed, out, cancelled>> /\ prn.job # NoJob
        /\ queue' = <<prn.job>> \o queue /\ prn'.job = NoJob
    BY <1>0, <1>6 DEF ReplaceJob, BusyPC
  <2>2. /\ 1 \in DOMAIN queue' /\ queue'[1] = prn.job
        /\ \A k \in DOMAIN queue : \E l \in DOMAIN queue' : queue'[l] = queue[k]
    <3>1. /\ Len(queue) \in Nat /\ DOMAIN queue = 1..Len(queue)
          /\ DOMAIN queue' = 1..(Len(queue) + 1) /\ queue'[1] = prn.job
          /\ \A l \in DOMAIN queue' : l # 1 => queue'[l] = queue[l - 1]
      BY <1>0, <2>1, ConsFacts
    <3>2. ASSUME NEW k \in DOMAIN queue
          PROVE  \E l \in DOMAIN queue' : queue'[l] = queue[k]
      <4>1. k + 1 \in DOMAIN queue' /\ k + 1 # 1 /\ (k + 1) - 1 = k
        BY <3>1
      <4> QED BY <3>1, <4>1
    <3> QED BY <3>1, <3>2
  <2>3. OutOwned' /\ Kept'
    BY <1>u, <2>1 DEF OutOwned, Kept, OnDisk
  <2>4. \A c \in Client : InMemory(c) => InMemory(c)'
    BY <1>0, <1>u, <2>1, <2>2 DEF InMemory
  <2>5. Seen'
    BY <1>0, <1>u, <2>1, <2>4 DEF Seen
  <2> QED BY <2>3, <2>5
<1> QED BY <1>1, <1>2, <1>3, <1>4, <1>5, <1>6 DEF PrinterStep

\* A death changes no file.
LEMMA SignalKeepsPromise ==
  ASSUME OutOwned, Kept, Seen, Reconfigure \/ HandleHup \/ Kill
  PROVE  OutOwned' /\ Kept' /\ Seen'
<1>1. UNCHANGED <<out, spool, acked, printed, unread>>
  BY DEF Reconfigure, HandleHup, Kill
<1>2. OutOwned' /\ Kept'
  BY <1>1 DEF OutOwned, Kept, OnDisk
<1>3. CASE Reconfigure \/ HandleHup
  <2>1. UNCHANGED <<daemon, cancelled, prn, cl, queue, main, ctl>>
    BY <1>3 DEF Reconfigure, HandleHup
  <2> QED BY <1>1, <1>2, <2>1 DEF Seen, InMemory
<1>4. CASE Kill
  BY <1>2, <1>4 DEF Kill, Seen
<1> QED BY <1>3, <1>4

-----------------------------------------------------------------------------
(***************************************************************************)
(* The invariant and what follows from it.                                 *)
(***************************************************************************)

\* Flags stay flags, and a forgotten number is not remembered again.
LEMMA FlagsKept == ASSUME TypeFlags, Next PROVE TypeFlags' /\ (stale => stale')
<1> USE DEF TypeFlags
<1>1. CASE Start \/ MainStep
  BY <1>1 DEF Start, MainStep, Scan, Pass, ScanSignal, Initialized
<1>2. CASE \E c \in Client : ClientStep(c)
  BY <1>2 DEF ClientStep, Accept, GetNewJobNo, CreatData, Upload, CreatCtl, WriteCtl,
              SendResponse, AddJob, Signal
<1>3. CASE PrinterStep \/ SpuriousWakeup
  BY <1>3 DEF PrinterStep, SpuriousWakeup, GetJob, UpdateFormat, UpdateWrite,
     CheckConfig,
              InitPrinter, SetPrinter, OpenData, Send, PrinterStatus, UnlinkData,
              UnlinkCtl, ReplaceJob, WakeUp
<1>4. CASE Reconfigure \/ HandleHup
  BY <1>4 DEF Reconfigure, HandleHup
<1>5. CASE Kill
  BY <1>5 DEF Kill
<1> QED BY <1>1, <1>2, <1>3, <1>4, <1>5 DEF Next

\* The invariant holds at first.
LEMMA SpoolerInit == ASSUME FewJobs, Init PROVE SpoolerInv
<1>1. TypeFlags
  BY DEF Init, TypeFlags
<1> QED BY <1>1, TypeInit, KnownInit, OwnerInit, PromiseInit DEF SpoolerInv, Promise

\* Every step of every thread keeps it.
LEMMA SpoolerStep == ASSUME FewJobs, SpoolerInv, [Next]_vars PROVE SpoolerInv'
<1>i. TypeInv /\ TypeFlags /\ KnownInv /\ (stale \/ Promise)
  BY DEF SpoolerInv
<1>1. CASE Next
  <2>1. TypeInv'
    BY <1>i, <1>1, MainKeepsType, ClientKeepsType, PrinterKeepsType, SignalKeepsType
       DEF Next
  <2>2. KnownInv'
    BY <1>i, <1>1, <2>1, MainKeepsKnown, ClientKeepsKnown, PrinterKeepsKnown,
       SignalKeepsKnown DEF Next
  <2>3. TypeFlags' /\ (stale => stale')
    BY <1>i, <1>1, FlagsKept
  <2>4. ASSUME Promise PROVE stale' \/ OwnerInv'
    BY <1>i, <1>1, <2>1, <2>4, MainKeepsOwner, ClientKeepsOwner, PrinterKeepsOwner,
       SignalKeepsOwner DEF Next, Promise
  <2>5. ASSUME Promise PROVE OutOwned' /\ Kept' /\ Seen'
    BY <1>i, <1>1, <2>1, <2>5, MainKeepsPromise, ClientKeepsPromise,
       PrinterKeepsPromise,
       SignalKeepsPromise DEF Next, Promise
  <2> QED BY <1>i, <2>1, <2>2, <2>3, <2>4, <2>5 DEF SpoolerInv, Promise
<1>2. CASE UNCHANGED vars
  <2>1. TypeInv'
    BY <1>i, <1>2 DEF vars, TypeInv, TypeMain, NumberInv, Used, PhaseInv, OwnerType
  <2>2. KnownInv'
    BY <1>i, <1>2 DEF vars, KnownInv, CtlInv, TokenInv, CountInv, Again
  <2>3. TypeFlags' /\ stale' = stale
    BY <1>i, <1>2 DEF vars, TypeFlags
  <2>4. OwnerInv => OwnerInv'
    BY <1>2 DEF vars, OwnerInv, QueueOwns, PrinterOwns, ClientOwns, OwnNumbers,
       DataOwned,
                NumbersFree
  <2>5. OutOwned /\ Kept /\ Seen => OutOwned' /\ Kept' /\ Seen'
    BY <1>2 DEF vars, OutOwned, Kept, OnDisk, Seen, InMemory
  <2> QED BY <1>i, <2>1, <2>2, <2>3, <2>4, <2>5 DEF SpoolerInv, Promise
<1> QED BY <1>1, <1>2

(***************************************************************************)
(* The spooler keeps its invariant: job numbers, files, list and threads   *)
(* agree on whose job is whose (client_thread, printer_thread and          *)
(* build_qonstart), for any number of clients, deaths, failures of the     *)
(* printer and of build_qonstart, and configuration changes, until a death *)
(* forgets a number.                                                       *)
(***************************************************************************)
THEOREM SpoolerInvariant == FewJobs => (Spec => []SpoolerInv)
<1> SUFFICES ASSUME FewJobs PROVE Spec => []SpoolerInv
  OBVIOUS
<1>1. Init => SpoolerInv
  BY SpoolerInit
<1>2. SpoolerInv /\ [Next]_vars => SpoolerInv'
  BY SpoolerStep
<1> QED BY <1>1, <1>2, PTL DEF Spec

\* A job number says whose job it is, so one client's job is listed once.
LEMMA OnceListed ==
  ASSUME TypeInv, KnownInv, OwnerInv
  PROVE  \A m, n \in DOMAIN Pending : Pending[m].id = Pending[n].id => m = n
<1>0. queue \in Seq(JobType) /\ prn.job \in JobType \cup {NoJob}
  BY DEF TypeInv, TypeMain
<1>1. \A k, l \in DOMAIN queue : queue[k].id = queue[l].id => k = l
  <2> SUFFICES ASSUME NEW k \in DOMAIN queue, NEW l \in DOMAIN queue,
                      queue[k].id = queue[l].id
               PROVE  k = l
    OBVIOUS
  <2>1. /\ ctl[queue[k].id] = File(queue[k].by, TRUE)
        /\ ctl[queue[l].id] = File(queue[l].by, TRUE)
    BY DEF OwnerInv, QueueOwns
  <2>2. queue[k].by = queue[l].by
    BY <2>1
  <2> QED BY <2>2 DEF KnownInv, TokenInv
<1>2. CASE prn.job = NoJob
  <2>1. Pending = queue
    BY <1>0, <1>2 DEF Pending
  <2> QED BY <1>1, <2>1
<1>3. CASE prn.job # NoJob
  <2>1. Pending = <<prn.job>> \o queue /\ prn.job \in JobType
    BY <1>0, <1>3 DEF Pending
  <2>2. /\ Pending[1] = prn.job
        /\ DOMAIN Pending \subseteq Nat /\ DOMAIN queue \subseteq Nat
        /\ \A m \in DOMAIN Pending :
             m # 1 => m - 1 \in DOMAIN queue /\ Pending[m] = queue[m - 1]
    BY <1>0, <2>1, ConsFacts
  <2>3. \A k \in DOMAIN queue : queue[k].id # prn.job.id
    BY <1>3, PrinterAlone
  <2> QED BY <1>1, <2>2, <2>3
<1> QED BY <1>2, <1>3

(***************************************************************************)
(* Every variable keeps its type: nextjob (get_newjobno) stays a job       *)
(* number, and the printer thread works on a job or has none.              *)
(***************************************************************************)
THEOREM TypesHold == FewJobs => (Spec => []TypeOK)
<1>1. SpoolerInv => TypeOK
  BY DEF SpoolerInv, TypeInv, TypeMain, TypeFlags, TypeOK
<1> QED BY <1>1, SpoolerInvariant, PTL

(***************************************************************************)
(* No job is at two places of the list that build_qonstart, add_job and    *)
(* replace_job share, nor on it while printer_thread prints it.            *)
(***************************************************************************)
THEOREM JobsListedOnce == FewJobs => (Spec => []QueuedOnce)
<1>1. SpoolerInv => QueuedOnce
  BY OnceListed DEF SpoolerInv, Promise, QueuedOnce
<1> QED BY <1>1, SpoolerInvariant, PTL

(***************************************************************************)
(* printer_thread prints a job once, and once more at most for each        *)
(* failure of the printer and each death of the daemon.                    *)
(***************************************************************************)
THEOREM JobsPrintedOnce == FewJobs => (Spec => []PrintedOnce)
<1>1. SpoolerInv => PrintedOnce
  <2> SUFFICES ASSUME SpoolerInv, NEW c \in Client PROVE printed[c] <= 1 + nfail + nkill
    BY DEF PrintedOnce
  <2>1. printed[c] \in Nat /\ nfail \in Nat /\ nkill \in Nat
    BY BoundAssumption DEF SpoolerInv, TypeInv, TypeMain
  <2>2. printed[c] <= nfail + nkill + (IF Again(c) THEN 0 ELSE 1)
    BY DEF SpoolerInv, KnownInv, CountInv
  <2> QED BY <2>1, <2>2
<1> QED BY <1>1, SpoolerInvariant, PTL

(***************************************************************************)
(* What printer_thread sends for a client is the document that             *)
(* client_thread stored for it: get_newjobno gives no two jobs the same    *)
(* number, across deaths of the daemon too.                                *)
(***************************************************************************)
THEOREM OwnDocumentPrinted == FewJobs => (Spec => []OwnData)
<1>1. SpoolerInv => OwnData
  BY DEF SpoolerInv, Promise, OutOwned, OwnData
<1> QED BY <1>1, SpoolerInvariant, PTL

(***************************************************************************)
(* A job whose client was told that it is accepted (client_thread) was     *)
(* printed or is complete on disk, wherever the daemon dies, unless a      *)
(* daemon that started could not read its control file and unlinked it     *)
(* (build_qonstart), or died with a number that was forgotten.             *)
(***************************************************************************)
THEOREM AcceptedJobsDurable == FewJobs => (Spec => []Durable)
<1>1. SpoolerInv => Durable
  BY DEF SpoolerInv, Promise, Kept, Durable
<1> QED BY <1>1, SpoolerInvariant, PTL

(***************************************************************************)
(* A running daemon has every accepted job in sight, on the list, at the   *)
(* printer thread, at its client thread or among the files build_qonstart  *)
(* has still to read, until it is printed or given up: a job whose files   *)
(* this daemon could not open (build_qonstart, printer_thread) and one     *)
(* that was unlinked unread are the exceptions.                            *)
(***************************************************************************)
THEOREM AcceptedJobsTracked == FewJobs => (Spec => []Tracked)
<1>1. SpoolerInv => Tracked
  BY DEF SpoolerInv, Promise, Seen, Tracked
<1> QED BY <1>1, SpoolerInvariant, PTL
=============================================================================
