---------------------------- MODULE SignalProofs ----------------------------
(***************************************************************************)
(* Proofs about the functions and programs of signals/ and lib/sleep.c.    *)
(* The invariant says what the calls on the stack can be (SigShape: the    *)
(* program below, handlers that it installed above it, only the innermost  *)
(* call asleep), which mask the program itself goes on with however many   *)
(* handlers run above it (BaseMask), and for each program which step it is *)
(* at when the alarm is set, a signal is blocked, a handler is installed   *)
(* or the jump buffer is filled.                                           *)
(*                                                                         *)
(* The proof goes by the system call (the lemmas Do...), then by the stack *)
(* (Frame..., Shape...), then by the program: its own steps (...Base), its *)
(* handlers' steps (...Handler), and every step of Next (...Next).         *)
(***************************************************************************)
EXTENDS Integers, Sequences, FiniteSets, SequenceTheorems, TLAPS

CONSTANT MaxSent
VARIABLES sprog, frames, sst, smask, spend, disp, oldmask, oldact, timer, flag, env, child, status,
          halted, misjump, ssent, before
Sg == INSTANCE Signals WITH prog <- sprog, stack <- frames, st <- sst, mask <- smask, pend <- spend,
  stopped <- halted, sent <- ssent, start <- before
SignalSpec == Sg!Init /\ [][Sg!Next]_(Sg!vars)

\* Handlers, and what can be done with a signal.
Handlers == {"return", "longjmp", "quitflag", "sig_quit", "sig_usr1", "sig_tstp", "sig_cld"}
Acts == {"dfl", "ign"} \union Handlers
Calls == [fn : Sg!Programs \union Handlers, at : Nat, asleep : BOOLEAN, mask : SUBSET Sg!Sig]
SigTypes ==
  /\ frames \in Seq(Calls) /\ Len(frames) \in Nat \ {0}
  /\ smask \in SUBSET Sg!Sig /\ oldmask \in SUBSET Sg!Sig /\ spend \in SUBSET Sg!Sig
  /\ disp \in [Sg!Sig -> Acts] /\ oldact \in [Sg!Sig -> Acts]
  /\ timer \in BOOLEAN /\ flag \in {0, 1} /\ halted \in BOOLEAN

\* The innermost call goes on with step to; a call is put above it, or ends.
Call(c, fn, to, asl, m) == c.fn = fn /\ c.at = to /\ c.asleep = asl /\ c.mask = m
Moves(to) ==
  /\ Len(frames') = Len(frames) /\ \A k \in 1..Len(frames) - 1 : frames'[k] = frames[k]
  /\ Call(frames'[Len(frames)], Sg!Top.fn, to, FALSE, Sg!Top.mask)
Pushes(fn, to, back) ==
  /\ Len(frames') = Len(frames) + 1 /\ \A k \in 1..Len(frames) - 1 : frames'[k] = frames[k]
  /\ Call(frames'[Len(frames)], Sg!Top.fn, to, FALSE, Sg!Top.mask)
  /\ Call(frames'[Len(frames) + 1], fn, 1, FALSE, back)
Pops ==
  Len(frames') = Len(frames) - 1 /\ \A k \in 1..Len(frames) - 1 : frames'[k] = frames[k]
Dozes ==
  /\ Len(frames') = Len(frames) /\ \A k \in 1..Len(frames) - 1 : frames'[k] = frames[k]
  /\ Call(frames'[Len(frames)], Sg!Top.fn, Sg!Top.at, TRUE, smask)

\* What a program can have as handlers; what a call can be.
HandlersOf(p) ==
  CASE p \in {"sleep", "sleep1", "read1", "suspend1", "abort"} -> {"return"}
    [] p \in {"sleep2", "read2"} -> {"longjmp"} [] p = "suspend2" -> {"return", "quitflag"}
    [] p = "critical" -> {"sig_quit"} [] p = "mask" -> {"return", "sig_usr1"}
    [] p = "sigtstp" -> {"sig_tstp"} [] p = "child" -> {"sig_cld"} [] p = "system" -> {"return", "sig_cld"}
Waiting == {"suspend", "suspendold", "pause", "read"}
Base == frames[1]
Ins == Sg!Code(Sg!Top.fn)[Sg!Top.at]

\* Handlers run above the program, and only the innermost call can wait.
FrameShape ==
  /\ sprog \in Sg!Programs /\ Base.fn = sprog
  /\ \A k \in 2..Len(frames) : frames[k].fn \in HandlersOf(sprog) /\ ~frames[k].asleep
  /\ \A k \in 1..Len(frames) : frames[k].at \in 1..Len(Sg!Code(frames[k].fn))
  /\ Len(frames) > 1 => ~Base.asleep
  /\ Sg!Top.asleep => Ins[1] \in Waiting
DispShape ==
  /\ \A s \in Sg!Sig : /\ disp[s] \in {"dfl", "ign"} \union HandlersOf(sprog)
                       /\ oldact[s] \in {"dfl", "ign"} \union HandlersOf(sprog)
  /\ oldact = before.disp
EnvShape ==
  env # <<>> => env[1].depth = 1 /\ env[1].at \in 1..Len(Sg!Code(sprog)) /\ env[1].mask \in SUBSET Sg!Sig
SigShape == FrameShape /\ DispShape /\ EnvShape

\* The mask that the program itself goes on with, and a signal that stays blocked until then.
BaseMask ==
  IF Len(frames) = 1 THEN IF Base.asleep THEN Base.mask ELSE smask ELSE frames[2].mask
Blocks(s) == s \in smask /\ \A k \in 2..Len(frames) : s \in frames[k].mask

\* lib/sleep.c: SIGALRM is blocked and caught from when the alarm is set until the wait.
SleepInv ==
  sprog = "sleep" =>
  /\ Base.at \in 3..8 => oldmask = before.mask
  /\ Base.at \in {1, 2, 8} => BaseMask = before.mask
  /\ Base.at \in 3..7 => "ALRM" \in BaseMask
  /\ Base.at \in {1, 7, 8} => disp = before.disp
  /\ Base.at \in 2..6 => disp = [before.disp EXCEPT !["ALRM"] = "return"]
  /\ Base.at = 4 => (timer \/ "ALRM" \in spend) /\ (~Base.asleep => Blocks("ALRM"))
  /\ sst = "exited" => Base.at = 8 /\ Len(frames) = 1

\* signals/sleep2.c and read2.c: the buffer is filled before the alarm is set.
JumpInv ==
  sprog \in {"sleep2", "read2"} =>
  /\ spend \subseteq {"ALRM"} /\ child = "none"
  /\ Base.at <= 3 => ~timer /\ spend = {} /\ Len(frames) = 1
  /\ Base.at >= 3 => env # <<>>
  /\ env # <<>> => env[1].at >= 5
  /\ Base.at = 4 /\ Len(frames) = 1 => timer \/ "ALRM" \in spend
  /\ Base.at >= 2 => disp["ALRM"] = "longjmp"

\* signals/suspend1.c.
Suspend1Inv ==
  sprog = "suspend1" =>
  /\ Base.at \in 3..5 => oldmask = before.mask
  /\ Base.at \in {1, 2, 5} => BaseMask = before.mask
  /\ sst = "exited" => Base.at = 5 /\ Len(frames) = 1

\* signals/suspend2.c: SIGQUIT is blocked while quitflag is tested.
Suspend2Inv ==
  sprog = "suspend2" =>
  /\ Base.at \in 4..9 => oldmask = before.mask
  /\ Base.at \in {1, 2, 3, 9} => BaseMask = before.mask
  /\ Base.at \in 4..8 => "QUIT" \in BaseMask
  /\ \A s \in Sg!Sig \ {"QUIT"} : disp[s] # "quitflag"
  /\ Base.at \in {4, 5} /\ ~Base.asleep =>
       Blocks("QUIT") /\ \A k \in 2..Len(frames) : frames[k].fn = "return"
  /\ Base.at = 5 => flag = 0
  /\ sst = "exited" => Base.at = 9 /\ Len(frames) = 1

\* signals/mask.c: canjump is not set before the buffer.
MaskInv ==
  sprog = "mask" =>
  /\ env = <<>> => /\ flag = 0 /\ Base.at <= 3
                   /\ \A k \in 2..Len(frames) : frames[k].fn = "sig_usr1" => frames[k].at \in {1, 2}
  /\ env # <<>> => Base.at >= 4 /\ env[1].at >= 4

\* signals/sigtstp.c: SIGTSTP is blocked when sig_tstp starts and never below it.
StopInv ==
  sprog = "sigtstp" =>
  /\ spend \subseteq {"TSTP"} /\ ~timer /\ child = "none"
  /\ "TSTP" \notin BaseMask /\ (Len(frames) = 1 => "TSTP" \notin smask)
  /\ \A k \in 2..Len(frames) :
       /\ "TSTP" \notin frames[k].mask
       /\ k < Len(frames) => frames[k].at \in {2, 5}
       /\ k = Len(frames) =>
            /\ frames[k].at = 1 => "TSTP" \in smask
            /\ frames[k].at # 1 => "TSTP" \notin smask
            /\ frames[k].at \in {3, 4} => disp["TSTP"] = "dfl"
            /\ frames[k].at = 4 => halted \/ "TSTP" \in spend
            /\ frames[k].at = 5 => halted

\* signals/abort.c.
AbortInv ==
  sprog = "abort" =>
  /\ spend \subseteq {"ABRT"} /\ ~timer /\ child = "none" /\ sst # "exited"
  /\ Base.at \in 5..7 => Len(frames) = 1 /\ disp["ABRT"] = "dfl"
  /\ Base.at \in {6, 7} => "ABRT" \notin smask
  /\ Base.at = 7 /\ sst # "killed" => "ABRT" \in spend

\* signals/system.c: SIGCHLD is blocked while the child is not waited for.
SystemInv ==
  sprog = "system" =>
  /\ spend \subseteq {"INT", "QUIT", "CHLD"} /\ ~timer /\ status # "error"
  /\ Base.at \in 4..9 => oldmask = before.mask
  /\ Base.at \in {1, 2, 3, 9} => BaseMask = before.mask
  /\ Base.at \in 4..6 => Len(frames) = 1 /\ "CHLD" \in smask /\ ~Base.asleep
  /\ Base.at \in 1..4 =>
       child = "none" /\ "CHLD" \notin spend /\ \A k \in 2..Len(frames) : frames[k].fn = "return"
  /\ Base.at = 5 => child \in {"runs", "zombie"}
  /\ \A s \in Sg!Sig \ {"INT", "QUIT"} : disp[s] = before.disp[s]
  /\ disp["INT"] = IF Base.at \in 2..6 THEN "ign" ELSE before.disp["INT"]
  /\ disp["QUIT"] = IF Base.at \in 3..7 THEN "ign" ELSE before.disp["QUIT"]
  /\ before.disp["INT"] # "sig_cld" /\ before.disp["QUIT"] = "dfl"
  /\ \A k \in 2..Len(frames) : frames[k].fn = "sig_cld" => before.disp["CHLD"] = "sig_cld"
  /\ sst = "exited" => Base.at = 9 /\ Len(frames) = 1

SignalInv ==
  /\ SigTypes /\ SigShape /\ ~misjump
  /\ SleepInv /\ JumpInv /\ Suspend1Inv /\ Suspend2Inv /\ MaskInv /\ StopInv /\ AbortInv /\ SystemInv

\* The innermost call.
LEMMA TopCall ==
  ASSUME SigTypes
  PROVE  /\ Sg!Top = frames[Len(frames)] /\ Sg!Top \in Calls
         /\ Sg!Top.fn \in Sg!Programs \union Handlers /\ Sg!Top.at \in Nat /\ Sg!Top.asleep \in BOOLEAN
         /\ Sg!Top.mask \in SUBSET Sg!Sig
<1>1. Len(frames) \in 1..Len(frames) /\ frames \in Seq(Calls)
  BY DEF SigTypes
<1>2. frames[Len(frames)] \in Calls
  BY <1>1, ElementOfSeq
<1> QED BY <1>2 DEF Sg!Top, Calls

\* A jump within the innermost call.
LEMMA JumpMoves ==
  ASSUME SigTypes, NEW to \in Nat, Sg!Jump(to)
  PROVE  Moves(to) /\ frames' \in Seq(Calls) /\ Len(frames') \in Nat \ {0}
<1>1. PICK d \in Nat \ {0} : d = Len(frames) /\ frames \in Seq(Calls) /\ d \in 1..Len(frames)
  BY DEF SigTypes
<1>2. PICK c \in Calls : c = frames[d] /\ c = Sg!Top
  BY <1>1, TopCall
<1>3. PICK e : e = [[c EXCEPT !.at = to] EXCEPT !.asleep = FALSE]
  OBVIOUS
<1>4. e \in Calls /\ Call(e, c.fn, to, FALSE, c.mask)
  BY <1>3 DEF Calls, Call
<1>5. frames' = [frames EXCEPT ![d] = e]
  BY <1>1, <1>2, <1>3 DEF Sg!Jump
<1>6. /\ frames' \in Seq(Calls) /\ Len(frames') = d /\ frames'[d] = e
      /\ \A k \in 1..d - 1 : frames'[k] = frames[k]
  BY <1>1, <1>4, <1>5
<1> QED BY <1>1, <1>2, <1>4, <1>5, <1>6 DEF Moves

\* The innermost call waits.
LEMMA SleepDozes ==
  ASSUME SigTypes, NEW m, Sg!Sleeps(m)
  PROVE  Dozes /\ smask' = m /\ frames' \in Seq(Calls) /\ Len(frames') \in Nat \ {0}
<1>1. PICK d \in Nat \ {0} : d = Len(frames) /\ frames \in Seq(Calls) /\ d \in 1..Len(frames)
  BY DEF SigTypes
<1>2. PICK c \in Calls : c = frames[d] /\ c = Sg!Top
  BY <1>1, TopCall
<1>3. PICK e : e = [[c EXCEPT !.asleep = TRUE] EXCEPT !.mask = smask]
  OBVIOUS
<1>4. e \in Calls /\ Call(e, c.fn, c.at, TRUE, smask)
  BY <1>3 DEF Calls, Call, SigTypes
<1>5. frames' = [frames EXCEPT ![d] = e] /\ smask' = m
  BY <1>1, <1>2, <1>3 DEF Sg!Sleeps
<1>6. /\ frames' \in Seq(Calls) /\ Len(frames') = d /\ frames'[d] = e
      /\ \A k \in 1..d - 1 : frames'[k] = frames[k]
  BY <1>1, <1>4, <1>5
<1> QED BY <1>1, <1>2, <1>4, <1>5, <1>6 DEF Dozes

\* What every step of a function is: where it can go on, and what it can install.
CallKinds == {"signal", "catch", "restore", "unignore", "block", "unblock", "mask", "setmask",
              "alarm", "alarm0", "flag", "kill", "work", "fork"}
Fits(fn, j, i, n) ==
  /\ i[1] \in CallKinds \union Waiting \union {"ifset", "goto", "setjmp", "longjmp", "siglongjmp", "waitpid", "wait", "ret", "exit"}
  /\ i[1] \notin {"goto", "ret", "exit", "longjmp", "siglongjmp"} => j + 1 <= n
  /\ i[1] = "fork" /\ fn = "system" => j + 2 <= n
  /\ i[1] \in {"ifset", "goto", "setjmp"} => i[2] \in 1..n
  /\ i[1] \in {"signal", "catch"} =>
       i[2] \in Sg!Sig /\ i[3] \in {"dfl", "ign"} \union (IF fn \in Sg!Programs THEN HandlersOf(fn) ELSE {fn})
  /\ i[1] \in {"restore", "unignore", "unblock", "kill"} => i[2] \in Sg!Sig
  /\ i[1] \in {"block", "mask", "suspend"} => i[2] \in SUBSET Sg!Sig
  /\ i[1] = "flag" => i[2] \in {0, 1}
  /\ i[1] \in Waiting \union {"exit", "setjmp"} => fn \in Sg!Programs
  /\ i[1] \in {"ret", "longjmp", "siglongjmp"} => fn \notin Sg!Programs
  /\ i[1] \in {"longjmp", "siglongjmp"} => fn \in {"longjmp", "sig_usr1"}
  /\ i[1] \in {"waitpid", "wait"} => fn \in {"system", "sig_cld"}

\* The functions, step by step.
LEMMA SleepCode ==
  /\ Len(Sg!Code("sleep")) = 8
  /\ Sg!Code("sleep")[1] = <<"signal", "ALRM", "return">>
  /\ Sg!Code("sleep")[2] = <<"block", {"ALRM"}>>
  /\ Sg!Code("sleep")[3] = <<"alarm">>
  /\ Sg!Code("sleep")[4] = <<"suspendold">>
  /\ Sg!Code("sleep")[5] = <<"alarm0">>
  /\ Sg!Code("sleep")[6] = <<"restore", "ALRM">>
  /\ Sg!Code("sleep")[7] = <<"setmask">>
  /\ Sg!Code("sleep")[8] = <<"exit">>
<1>1. Sg!Code("sleep") = Sg!sleep
  BY DEF Sg!Code
<1> QED BY <1>1 DEF Sg!sleep

\* sleep1.
LEMMA Sleep1Code ==
  /\ Len(Sg!Code("sleep1")) = 5
  /\ Sg!Code("sleep1")[1] = <<"signal", "ALRM", "return">>
  /\ Sg!Code("sleep1")[2] = <<"alarm">>
  /\ Sg!Code("sleep1")[3] = <<"pause">>
  /\ Sg!Code("sleep1")[4] = <<"alarm0">>
  /\ Sg!Code("sleep1")[5] = <<"exit">>
<1>1. Sg!Code("sleep1") = Sg!sleep1
  BY DEF Sg!Code
<1> QED BY <1>1 DEF Sg!sleep1

\* sleep2.
LEMMA Sleep2Code ==
  /\ Len(Sg!Code("sleep2")) = 6
  /\ Sg!Code("sleep2")[1] = <<"signal", "ALRM", "longjmp">>
  /\ Sg!Code("sleep2")[2] = <<"setjmp", 5>>
  /\ Sg!Code("sleep2")[3] = <<"alarm">>
  /\ Sg!Code("sleep2")[4] = <<"pause">>
  /\ Sg!Code("sleep2")[5] = <<"alarm0">>
  /\ Sg!Code("sleep2")[6] = <<"exit">>
<1>1. Sg!Code("sleep2") = Sg!sleep2
  BY DEF Sg!Code
<1> QED BY <1>1 DEF Sg!sleep2

\* read1.
LEMMA Read1Code ==
  /\ Len(Sg!Code("read1")) = 5
  /\ Sg!Code("read1")[1] = <<"signal", "ALRM", "return">>
  /\ Sg!Code("read1")[2] = <<"alarm">>
  /\ Sg!Code("read1")[3] = <<"read">>
  /\ Sg!Code("read1")[4] = <<"alarm0">>
  /\ Sg!Code("read1")[5] = <<"exit">>
<1>1. Sg!Code("read1") = Sg!read1
  BY DEF Sg!Code
<1> QED BY <1>1 DEF Sg!read1

\* read2.
LEMMA Read2Code ==
  /\ Len(Sg!Code("read2")) = 6
  /\ Sg!Code("read2")[1] = <<"signal", "ALRM", "longjmp">>
  /\ Sg!Code("read2")[2] = <<"setjmp", 6>>
  /\ Sg!Code("read2")[3] = <<"alarm">>
  /\ Sg!Code("read2")[4] = <<"read">>
  /\ Sg!Code("read2")[5] = <<"alarm0">>
  /\ Sg!Code("read2")[6] = <<"exit">>
<1>1. Sg!Code("read2") = Sg!read2
  BY DEF Sg!Code
<1> QED BY <1>1 DEF Sg!read2

\* suspend1.
LEMMA Suspend1Code ==
  /\ Len(Sg!Code("suspend1")) = 5
  /\ Sg!Code("suspend1")[1] = <<"signal", "INT", "return">>
  /\ Sg!Code("suspend1")[2] = <<"block", {"INT"}>>
  /\ Sg!Code("suspend1")[3] = <<"suspend", {"USR1"}>>
  /\ Sg!Code("suspend1")[4] = <<"setmask">>
  /\ Sg!Code("suspend1")[5] = <<"exit">>
<1>1. Sg!Code("suspend1") = Sg!suspend1
  BY DEF Sg!Code
<1> QED BY <1>1 DEF Sg!suspend1

\* suspend2.
LEMMA Suspend2Code ==
  /\ Len(Sg!Code("suspend2")) = 9
  /\ Sg!Code("suspend2")[1] = <<"signal", "INT", "return">>
  /\ Sg!Code("suspend2")[2] = <<"signal", "QUIT", "quitflag">>
  /\ Sg!Code("suspend2")[3] = <<"block", {"QUIT"}>>
  /\ Sg!Code("suspend2")[4] = <<"ifset", 7>>
  /\ Sg!Code("suspend2")[5] = <<"suspend", {}>>
  /\ Sg!Code("suspend2")[6] = <<"goto", 4>>
  /\ Sg!Code("suspend2")[7] = <<"flag", 0>>
  /\ Sg!Code("suspend2")[8] = <<"setmask">>
  /\ Sg!Code("suspend2")[9] = <<"exit">>
<1>1. Sg!Code("suspend2") = Sg!suspend2
  BY DEF Sg!Code
<1> QED BY <1>1 DEF Sg!suspend2

\* critical.
LEMMA CriticalCode ==
  /\ Len(Sg!Code("critical")) = 6
  /\ Sg!Code("critical")[1] = <<"signal", "QUIT", "sig_quit">>
  /\ Sg!Code("critical")[2] = <<"block", {"QUIT"}>>
  /\ Sg!Code("critical")[3] = <<"work">>
  /\ Sg!Code("critical")[4] = <<"setmask">>
  /\ Sg!Code("critical")[5] = <<"work">>
  /\ Sg!Code("critical")[6] = <<"exit">>
<1>1. Sg!Code("critical") = Sg!critical
  BY DEF Sg!Code
<1> QED BY <1>1 DEF Sg!critical

\* maskprog.
LEMMA MaskCode ==
  /\ Len(Sg!Code("mask")) = 7
  /\ Sg!Code("mask")[1] = <<"signal", "USR1", "sig_usr1">>
  /\ Sg!Code("mask")[2] = <<"signal", "ALRM", "return">>
  /\ Sg!Code("mask")[3] = <<"setjmp", 7>>
  /\ Sg!Code("mask")[4] = <<"flag", 1>>
  /\ Sg!Code("mask")[5] = <<"pause">>
  /\ Sg!Code("mask")[6] = <<"goto", 5>>
  /\ Sg!Code("mask")[7] = <<"exit">>
<1>1. Sg!Code("mask") = Sg!maskprog
  BY DEF Sg!Code
<1> QED BY <1>1 DEF Sg!maskprog

\* sigtstp.
LEMMA StopCode ==
  /\ Len(Sg!Code("sigtstp")) = 4
  /\ Sg!Code("sigtstp")[1] = <<"signal", "TSTP", "ign">>
  /\ Sg!Code("sigtstp")[2] = <<"catch", "TSTP", "sig_tstp">>
  /\ Sg!Code("sigtstp")[3] = <<"read">>
  /\ Sg!Code("sigtstp")[4] = <<"exit">>
<1>1. Sg!Code("sigtstp") = Sg!sigtstp
  BY DEF Sg!Code
<1> QED BY <1>1 DEF Sg!sigtstp

\* childprog.
LEMMA ChildCode ==
  /\ Len(Sg!Code("child")) = 4
  /\ Sg!Code("child")[1] = <<"signal", "CHLD", "sig_cld">>
  /\ Sg!Code("child")[2] = <<"fork">>
  /\ Sg!Code("child")[3] = <<"pause">>
  /\ Sg!Code("child")[4] = <<"exit">>
<1>1. Sg!Code("child") = Sg!childprog
  BY DEF Sg!Code
<1> QED BY <1>1 DEF Sg!childprog

\* abort.
LEMMA AbortCode ==
  /\ Len(Sg!Code("abort")) = 7
  /\ Sg!Code("abort")[1] = <<"unignore", "ABRT">>
  /\ Sg!Code("abort")[2] = <<"mask", Sg!Sig \ {"ABRT"}>>
  /\ Sg!Code("abort")[3] = <<"kill", "ABRT">>
  /\ Sg!Code("abort")[4] = <<"signal", "ABRT", "dfl">>
  /\ Sg!Code("abort")[5] = <<"mask", Sg!Sig \ {"ABRT"}>>
  /\ Sg!Code("abort")[6] = <<"kill", "ABRT">>
  /\ Sg!Code("abort")[7] = <<"exit">>
<1>1. Sg!Code("abort") = Sg!abort
  BY DEF Sg!Code
<1> QED BY <1>1 DEF Sg!abort

\* system.
LEMMA SystemCode ==
  /\ Len(Sg!Code("system")) = 9
  /\ Sg!Code("system")[1] = <<"signal", "INT", "ign">>
  /\ Sg!Code("system")[2] = <<"signal", "QUIT", "ign">>
  /\ Sg!Code("system")[3] = <<"block", {"CHLD"}>>
  /\ Sg!Code("system")[4] = <<"fork">>
  /\ Sg!Code("system")[5] = <<"waitpid">>
  /\ Sg!Code("system")[6] = <<"restore", "INT">>
  /\ Sg!Code("system")[7] = <<"restore", "QUIT">>
  /\ Sg!Code("system")[8] = <<"setmask">>
  /\ Sg!Code("system")[9] = <<"exit">>
<1>1. Sg!Code("system") = Sg!system
  BY DEF Sg!Code
<1> QED BY <1>1 DEF Sg!system

\* sig_alrm.
LEMMA ReturnCode ==
  /\ Len(Sg!Code("return")) = 1
  /\ Sg!Code("return")[1] = <<"ret">>
<1>1. Sg!Code("return") = Sg!sig_alrm
  BY DEF Sg!Code
<1> QED BY <1>1 DEF Sg!sig_alrm

\* sig_alrm2.
LEMMA LongJmpCode ==
  /\ Len(Sg!Code("longjmp")) = 1
  /\ Sg!Code("longjmp")[1] = <<"longjmp">>
<1>1. Sg!Code("longjmp") = Sg!sig_alrm2
  BY DEF Sg!Code
<1> QED BY <1>1 DEF Sg!sig_alrm2

\* sig_int.
LEMMA QuitCode ==
  /\ Len(Sg!Code("quitflag")) = 2
  /\ Sg!Code("quitflag")[1] = <<"flag", 1>>
  /\ Sg!Code("quitflag")[2] = <<"ret">>
<1>1. Sg!Code("quitflag") = Sg!sig_int
  BY DEF Sg!Code
<1> QED BY <1>1 DEF Sg!sig_int

\* sig_quit.
LEMMA SigQuitCode ==
  /\ Len(Sg!Code("sig_quit")) = 2
  /\ Sg!Code("sig_quit")[1] = <<"signal", "QUIT", "dfl">>
  /\ Sg!Code("sig_quit")[2] = <<"ret">>
<1>1. Sg!Code("sig_quit") = Sg!sig_quit
  BY DEF Sg!Code
<1> QED BY <1>1 DEF Sg!sig_quit

\* sig_usr1.
LEMMA Usr1Code ==
  /\ Len(Sg!Code("sig_usr1")) = 6
  /\ Sg!Code("sig_usr1")[1] = <<"ifset", 3>>
  /\ Sg!Code("sig_usr1")[2] = <<"ret">>
  /\ Sg!Code("sig_usr1")[3] = <<"alarm">>
  /\ Sg!Code("sig_usr1")[4] = <<"work">>
  /\ Sg!Code("sig_usr1")[5] = <<"flag", 0>>
  /\ Sg!Code("sig_usr1")[6] = <<"siglongjmp">>
<1>1. Sg!Code("sig_usr1") = Sg!sig_usr1
  BY DEF Sg!Code
<1> QED BY <1>1 DEF Sg!sig_usr1

\* sig_tstp.
LEMMA SigStopCode ==
  /\ Len(Sg!Code("sig_tstp")) = 5
  /\ Sg!Code("sig_tstp")[1] = <<"unblock", "TSTP">>
  /\ Sg!Code("sig_tstp")[2] = <<"signal", "TSTP", "dfl">>
  /\ Sg!Code("sig_tstp")[3] = <<"kill", "TSTP">>
  /\ Sg!Code("sig_tstp")[4] = <<"signal", "TSTP", "sig_tstp">>
  /\ Sg!Code("sig_tstp")[5] = <<"ret">>
<1>1. Sg!Code("sig_tstp") = Sg!sig_tstp
  BY DEF Sg!Code
<1> QED BY <1>1 DEF Sg!sig_tstp

\* sig_cld.
LEMMA CldCode ==
  /\ Len(Sg!Code("sig_cld")) = 3
  /\ Sg!Code("sig_cld")[1] = <<"signal", "CHLD", "sig_cld">>
  /\ Sg!Code("sig_cld")[2] = <<"wait">>
  /\ Sg!Code("sig_cld")[3] = <<"ret">>
<1>1. Sg!Code("sig_cld") = Sg!sig_cld
  BY DEF Sg!Code
<1> QED BY <1>1 DEF Sg!sig_cld

\* Every step of every function is one of those that the model knows.
LEMMA StepFits ==
  ASSUME NEW fn \in Sg!Programs \union Handlers, NEW j \in 1..Len(Sg!Code(fn))
  PROVE  Fits(fn, j, Sg!Code(fn)[j], Len(Sg!Code(fn)))
<1>1. CASE fn = "sleep"
  <2>1. j \in 1..8 /\ Len(Sg!Code(fn)) = 8
    BY <1>1, SleepCode
  <2>2. CASE j = 1
    BY <1>1, <2>1, <2>2, SleepCode DEF Fits, CallKinds, Waiting, Sg!Programs, Sg!Sig, HandlersOf
  <2>3. CASE j = 2
    BY <1>1, <2>1, <2>3, SleepCode DEF Fits, CallKinds, Waiting, Sg!Programs, Sg!Sig
  <2>4. CASE j = 3
    BY <1>1, <2>1, <2>4, SleepCode DEF Fits, CallKinds, Waiting, Sg!Programs, Sg!Sig
  <2>5. CASE j = 4
    BY <1>1, <2>1, <2>5, SleepCode DEF Fits, CallKinds, Waiting, Sg!Programs, Sg!Sig
  <2>6. CASE j = 5
    BY <1>1, <2>1, <2>6, SleepCode DEF Fits, CallKinds, Waiting, Sg!Programs, Sg!Sig
  <2>7. CASE j = 6
    BY <1>1, <2>1, <2>7, SleepCode DEF Fits, CallKinds, Waiting, Sg!Programs, Sg!Sig
  <2>8. CASE j = 7
    BY <1>1, <2>1, <2>8, SleepCode DEF Fits, CallKinds, Waiting, Sg!Programs, Sg!Sig
  <2>9. CASE j = 8
    BY <1>1, <2>1, <2>9, SleepCode DEF Fits, CallKinds, Waiting, Sg!Programs, Sg!Sig
  <2> QED BY <2>1, <2>2, <2>3, <2>4, <2>5, <2>6, <2>7, <2>8, <2>9
<1>2. CASE fn = "sleep1"
  <2>1. j \in 1..5 /\ Len(Sg!Code(fn)) = 5
    BY <1>2, Sleep1Code
  <2>2. CASE j = 1
    BY <1>2, <2>1, <2>2, Sleep1Code DEF Fits, CallKinds, Waiting, Sg!Programs, Sg!Sig, HandlersOf
  <2>3. CASE j = 2
    BY <1>2, <2>1, <2>3, Sleep1Code DEF Fits, CallKinds, Waiting, Sg!Programs, Sg!Sig
  <2>4. CASE j = 3
    BY <1>2, <2>1, <2>4, Sleep1Code DEF Fits, CallKinds, Waiting, Sg!Programs, Sg!Sig
  <2>5. CASE j = 4
    BY <1>2, <2>1, <2>5, Sleep1Code DEF Fits, CallKinds, Waiting, Sg!Programs, Sg!Sig
  <2>6. CASE j = 5
    BY <1>2, <2>1, <2>6, Sleep1Code DEF Fits, CallKinds, Waiting, Sg!Programs, Sg!Sig
  <2> QED BY <2>1, <2>2, <2>3, <2>4, <2>5, <2>6
<1>3. CASE fn = "sleep2"
  <2>1. j \in 1..6 /\ Len(Sg!Code(fn)) = 6
    BY <1>3, Sleep2Code
  <2>2. CASE j = 1
    BY <1>3, <2>1, <2>2, Sleep2Code DEF Fits, CallKinds, Waiting, Sg!Programs, Sg!Sig, HandlersOf
  <2>3. CASE j = 2
    BY <1>3, <2>1, <2>3, Sleep2Code DEF Fits, CallKinds, Waiting, Sg!Programs, Sg!Sig
  <2>4. CASE j = 3
    BY <1>3, <2>1, <2>4, Sleep2Code DEF Fits, CallKinds, Waiting, Sg!Programs, Sg!Sig
  <2>5. CASE j = 4
    BY <1>3, <2>1, <2>5, Sleep2Code DEF Fits, CallKinds, Waiting, Sg!Programs, Sg!Sig
  <2>6. CASE j = 5
    BY <1>3, <2>1, <2>6, Sleep2Code DEF Fits, CallKinds, Waiting, Sg!Programs, Sg!Sig
  <2>7. CASE j = 6
    BY <1>3, <2>1, <2>7, Sleep2Code DEF Fits, CallKinds, Waiting, Sg!Programs, Sg!Sig
  <2> QED BY <2>1, <2>2, <2>3, <2>4, <2>5, <2>6, <2>7
<1>4. CASE fn = "read1"
  <2>1. j \in 1..5 /\ Len(Sg!Code(fn)) = 5
    BY <1>4, Read1Code
  <2>2. CASE j = 1
    BY <1>4, <2>1, <2>2, Read1Code DEF Fits, CallKinds, Waiting, Sg!Programs, Sg!Sig, HandlersOf
  <2>3. CASE j = 2
    BY <1>4, <2>1, <2>3, Read1Code DEF Fits, CallKinds, Waiting, Sg!Programs, Sg!Sig
  <2>4. CASE j = 3
    BY <1>4, <2>1, <2>4, Read1Code DEF Fits, CallKinds, Waiting, Sg!Programs, Sg!Sig
  <2>5. CASE j = 4
    BY <1>4, <2>1, <2>5, Read1Code DEF Fits, CallKinds, Waiting, Sg!Programs, Sg!Sig
  <2>6. CASE j = 5
    BY <1>4, <2>1, <2>6, Read1Code DEF Fits, CallKinds, Waiting, Sg!Programs, Sg!Sig
  <2> QED BY <2>1, <2>2, <2>3, <2>4, <2>5, <2>6
<1>5. CASE fn = "read2"
  <2>1. j \in 1..6 /\ Len(Sg!Code(fn)) = 6
    BY <1>5, Read2Code
  <2>2. CASE j = 1
    BY <1>5, <2>1, <2>2, Read2Code DEF Fits, CallKinds, Waiting, Sg!Programs, Sg!Sig, HandlersOf
  <2>3. CASE j = 2
    BY <1>5, <2>1, <2>3, Read2Code DEF Fits, CallKinds, Waiting, Sg!Programs, Sg!Sig
  <2>4. CASE j = 3
    BY <1>5, <2>1, <2>4, Read2Code DEF Fits, CallKinds, Waiting, Sg!Programs, Sg!Sig
  <2>5. CASE j = 4
    BY <1>5, <2>1, <2>5, Read2Code DEF Fits, CallKinds, Waiting, Sg!Programs, Sg!Sig
  <2>6. CASE j = 5
    BY <1>5, <2>1, <2>6, Read2Code DEF Fits, CallKinds, Waiting, Sg!Programs, Sg!Sig
  <2>7. CASE j = 6
    BY <1>5, <2>1, <2>7, Read2Code DEF Fits, CallKinds, Waiting, Sg!Programs, Sg!Sig
  <2> QED BY <2>1, <2>2, <2>3, <2>4, <2>5, <2>6, <2>7
<1>6. CASE fn = "suspend1"
  <2>1. j \in 1..5 /\ Len(Sg!Code(fn)) = 5
    BY <1>6, Suspend1Code
  <2>2. CASE j = 1
    BY <1>6, <2>1, <2>2, Suspend1Code DEF Fits, CallKinds, Waiting, Sg!Programs, Sg!Sig, HandlersOf
  <2>3. CASE j = 2
    BY <1>6, <2>1, <2>3, Suspend1Code DEF Fits, CallKinds, Waiting, Sg!Programs, Sg!Sig
  <2>4. CASE j = 3
    BY <1>6, <2>1, <2>4, Suspend1Code DEF Fits, CallKinds, Waiting, Sg!Programs, Sg!Sig
  <2>5. CASE j = 4
    BY <1>6, <2>1, <2>5, Suspend1Code DEF Fits, CallKinds, Waiting, Sg!Programs, Sg!Sig
  <2>6. CASE j = 5
    BY <1>6, <2>1, <2>6, Suspend1Code DEF Fits, CallKinds, Waiting, Sg!Programs, Sg!Sig
  <2> QED BY <2>1, <2>2, <2>3, <2>4, <2>5, <2>6
<1>7. CASE fn = "suspend2"
  <2>1. j \in 1..9 /\ Len(Sg!Code(fn)) = 9
    BY <1>7, Suspend2Code
  <2>2. CASE j = 1
    <3>1. PICK i : i = Sg!Code(fn)[j]
      OBVIOUS
    <3>2. i = <<"signal", "INT", "return">>
      BY <1>7, <2>2, <3>1, Suspend2Code
    <3>3. i[1] = "signal" /\ i[2] = "INT" /\ i[3] = "return"
      BY <3>2
    <3>4. Fits(fn, 1, i, 9)
      BY <1>7, <3>3 DEF Fits, CallKinds, Waiting, Sg!Programs, Sg!Sig, HandlersOf
    <3> QED BY <2>1, <2>2, <3>1, <3>4
  <2>3. CASE j = 2
    <3>1. PICK i : i = Sg!Code(fn)[j]
      OBVIOUS
    <3>2. i = <<"signal", "QUIT", "quitflag">>
      BY <1>7, <2>3, <3>1, Suspend2Code
    <3>3. i[1] = "signal" /\ i[2] = "QUIT" /\ i[3] = "quitflag"
      BY <3>2
    <3>4. Fits(fn, 2, i, 9)
      BY <1>7, <3>3 DEF Fits, CallKinds, Waiting, Sg!Programs, Sg!Sig, HandlersOf
    <3> QED BY <2>1, <2>3, <3>1, <3>4
  <2>4. CASE j = 3
    <3>1. PICK i : i = Sg!Code(fn)[j]
      OBVIOUS
    <3>2. i = <<"block", {"QUIT"}>>
      BY <1>7, <2>4, <3>1, Suspend2Code
    <3>3. i[1] = "block" /\ i[2] = {"QUIT"}
      BY <3>2
    <3>4. Fits(fn, 3, i, 9)
      BY <1>7, <3>3 DEF Fits, CallKinds, Waiting, Sg!Programs, Sg!Sig
    <3> QED BY <2>1, <2>4, <3>1, <3>4
  <2>5. CASE j = 4
    <3>1. PICK i : i = Sg!Code(fn)[j]
      OBVIOUS
    <3>2. i = <<"ifset", 7>>
      BY <1>7, <2>5, <3>1, Suspend2Code
    <3>3. i[1] = "ifset" /\ i[2] = 7
      BY <3>2
    <3>4. Fits(fn, 4, i, 9)
      BY <1>7, <3>3 DEF Fits, CallKinds, Waiting, Sg!Programs, Sg!Sig
    <3> QED BY <2>1, <2>5, <3>1, <3>4
  <2>6. CASE j = 5
    <3>1. PICK i : i = Sg!Code(fn)[j]
      OBVIOUS
    <3>2. i = <<"suspend", {}>>
      BY <1>7, <2>6, <3>1, Suspend2Code
    <3>3. i[1] = "suspend" /\ i[2] = {}
      BY <3>2
    <3>4. Fits(fn, 5, i, 9)
      BY <1>7, <3>3 DEF Fits, CallKinds, Waiting, Sg!Programs, Sg!Sig
    <3> QED BY <2>1, <2>6, <3>1, <3>4
  <2>7. CASE j = 6
    <3>1. PICK i : i = Sg!Code(fn)[j]
      OBVIOUS
    <3>2. i = <<"goto", 4>>
      BY <1>7, <2>7, <3>1, Suspend2Code
    <3>3. i[1] = "goto" /\ i[2] = 4
      BY <3>2
    <3>4. Fits(fn, 6, i, 9)
      BY <1>7, <3>3 DEF Fits, CallKinds, Waiting, Sg!Programs, Sg!Sig
    <3> QED BY <2>1, <2>7, <3>1, <3>4
  <2>8. CASE j = 7
    <3>1. PICK i : i = Sg!Code(fn)[j]
      OBVIOUS
    <3>2. i = <<"flag", 0>>
      BY <1>7, <2>8, <3>1, Suspend2Code
    <3>3. i[1] = "flag" /\ i[2] = 0
      BY <3>2
    <3>4. Fits(fn, 7, i, 9)
      BY <1>7, <3>3 DEF Fits, CallKinds, Waiting, Sg!Programs, Sg!Sig
    <3> QED BY <2>1, <2>8, <3>1, <3>4
  <2>9. CASE j = 8
    <3>1. PICK i : i = Sg!Code(fn)[j]
      OBVIOUS
    <3>2. i = <<"setmask">>
      BY <1>7, <2>9, <3>1, Suspend2Code
    <3>3. i[1] = "setmask"
      BY <3>2
    <3>4. Fits(fn, 8, i, 9)
      BY <1>7, <3>3 DEF Fits, CallKinds, Waiting, Sg!Programs, Sg!Sig
    <3> QED BY <2>1, <2>9, <3>1, <3>4
  <2>10. CASE j = 9
    <3>1. PICK i : i = Sg!Code(fn)[j]
      OBVIOUS
    <3>2. i = <<"exit">>
      BY <1>7, <2>10, <3>1, Suspend2Code
    <3>3. i[1] = "exit"
      BY <3>2
    <3>4. Fits(fn, 9, i, 9)
      BY <1>7, <3>3 DEF Fits, CallKinds, Waiting, Sg!Programs, Sg!Sig
    <3> QED BY <2>1, <2>10, <3>1, <3>4
  <2> QED BY <2>1, <2>2, <2>3, <2>4, <2>5, <2>6, <2>7, <2>8, <2>9, <2>10
<1>8. CASE fn = "critical"
  <2>1. j \in 1..6 /\ Len(Sg!Code(fn)) = 6
    BY <1>8, CriticalCode
  <2>2. CASE j = 1
    BY <1>8, <2>1, <2>2, CriticalCode DEF Fits, CallKinds, Waiting, Sg!Programs, Sg!Sig, HandlersOf
  <2>3. CASE j = 2
    BY <1>8, <2>1, <2>3, CriticalCode DEF Fits, CallKinds, Waiting, Sg!Programs, Sg!Sig
  <2>4. CASE j = 3
    BY <1>8, <2>1, <2>4, CriticalCode DEF Fits, CallKinds, Waiting, Sg!Programs, Sg!Sig
  <2>5. CASE j = 4
    BY <1>8, <2>1, <2>5, CriticalCode DEF Fits, CallKinds, Waiting, Sg!Programs, Sg!Sig
  <2>6. CASE j = 5
    BY <1>8, <2>1, <2>6, CriticalCode DEF Fits, CallKinds, Waiting, Sg!Programs, Sg!Sig
  <2>7. CASE j = 6
    BY <1>8, <2>1, <2>7, CriticalCode DEF Fits, CallKinds, Waiting, Sg!Programs, Sg!Sig
  <2> QED BY <2>1, <2>2, <2>3, <2>4, <2>5, <2>6, <2>7
<1>9. CASE fn = "mask"
  <2>1. j \in 1..7 /\ Len(Sg!Code(fn)) = 7
    BY <1>9, MaskCode
  <2>2. CASE j = 1
    BY <1>9, <2>1, <2>2, MaskCode DEF Fits, CallKinds, Waiting, Sg!Programs, Sg!Sig, HandlersOf
  <2>3. CASE j = 2
    BY <1>9, <2>1, <2>3, MaskCode DEF Fits, CallKinds, Waiting, Sg!Programs, Sg!Sig, HandlersOf
  <2>4. CASE j = 3
    BY <1>9, <2>1, <2>4, MaskCode DEF Fits, CallKinds, Waiting, Sg!Programs, Sg!Sig
  <2>5. CASE j = 4
    BY <1>9, <2>1, <2>5, MaskCode DEF Fits, CallKinds, Waiting, Sg!Programs, Sg!Sig
  <2>6. CASE j = 5
    BY <1>9, <2>1, <2>6, MaskCode DEF Fits, CallKinds, Waiting, Sg!Programs, Sg!Sig
  <2>7. CASE j = 6
    BY <1>9, <2>1, <2>7, MaskCode DEF Fits, CallKinds, Waiting, Sg!Programs, Sg!Sig
  <2>8. CASE j = 7
    BY <1>9, <2>1, <2>8, MaskCode DEF Fits, CallKinds, Waiting, Sg!Programs, Sg!Sig
  <2> QED BY <2>1, <2>2, <2>3, <2>4, <2>5, <2>6, <2>7, <2>8
<1>10. CASE fn = "sigtstp"
  <2>1. j \in 1..4 /\ Len(Sg!Code(fn)) = 4
    BY <1>10, StopCode
  <2>2. CASE j = 1
    BY <1>10, <2>1, <2>2, StopCode DEF Fits, CallKinds, Waiting, Sg!Programs, Sg!Sig, HandlersOf
  <2>3. CASE j = 2
    BY <1>10, <2>1, <2>3, StopCode DEF Fits, CallKinds, Waiting, Sg!Programs, Sg!Sig, HandlersOf
  <2>4. CASE j = 3
    BY <1>10, <2>1, <2>4, StopCode DEF Fits, CallKinds, Waiting, Sg!Programs, Sg!Sig
  <2>5. CASE j = 4
    BY <1>10, <2>1, <2>5, StopCode DEF Fits, CallKinds, Waiting, Sg!Programs, Sg!Sig
  <2> QED BY <2>1, <2>2, <2>3, <2>4, <2>5
<1>11. CASE fn = "child"
  <2>1. j \in 1..4 /\ Len(Sg!Code(fn)) = 4
    BY <1>11, ChildCode
  <2>2. CASE j = 1
    BY <1>11, <2>1, <2>2, ChildCode DEF Fits, CallKinds, Waiting, Sg!Programs, Sg!Sig, HandlersOf
  <2>3. CASE j = 2
    BY <1>11, <2>1, <2>3, ChildCode DEF Fits, CallKinds, Waiting, Sg!Programs, Sg!Sig
  <2>4. CASE j = 3
    BY <1>11, <2>1, <2>4, ChildCode DEF Fits, CallKinds, Waiting, Sg!Programs, Sg!Sig
  <2>5. CASE j = 4
    BY <1>11, <2>1, <2>5, ChildCode DEF Fits, CallKinds, Waiting, Sg!Programs, Sg!Sig
  <2> QED BY <2>1, <2>2, <2>3, <2>4, <2>5
<1>12. CASE fn = "abort"
  <2>1. j \in 1..7 /\ Len(Sg!Code(fn)) = 7
    BY <1>12, AbortCode
  <2>2. CASE j = 1
    BY <1>12, <2>1, <2>2, AbortCode DEF Fits, CallKinds, Waiting, Sg!Programs, Sg!Sig
  <2>3. CASE j = 2
    BY <1>12, <2>1, <2>3, AbortCode DEF Fits, CallKinds, Waiting, Sg!Programs, Sg!Sig
  <2>4. CASE j = 3
    BY <1>12, <2>1, <2>4, AbortCode DEF Fits, CallKinds, Waiting, Sg!Programs, Sg!Sig
  <2>5. CASE j = 4
    BY <1>12, <2>1, <2>5, AbortCode DEF Fits, CallKinds, Waiting, Sg!Programs, Sg!Sig, HandlersOf
  <2>6. CASE j = 5
    BY <1>12, <2>1, <2>6, AbortCode DEF Fits, CallKinds, Waiting, Sg!Programs, Sg!Sig
  <2>7. CASE j = 6
    BY <1>12, <2>1, <2>7, AbortCode DEF Fits, CallKinds, Waiting, Sg!Programs, Sg!Sig
  <2>8. CASE j = 7
    BY <1>12, <2>1, <2>8, AbortCode DEF Fits, CallKinds, Waiting, Sg!Programs, Sg!Sig
  <2> QED BY <2>1, <2>2, <2>3, <2>4, <2>5, <2>6, <2>7, <2>8
<1>13. CASE fn = "system"
  <2>1. j \in 1..9 /\ Len(Sg!Code(fn)) = 9
    BY <1>13, SystemCode
  <2>2. CASE j = 1
    BY <1>13, <2>1, <2>2, SystemCode DEF Fits, CallKinds, Waiting, Sg!Programs, Sg!Sig, HandlersOf
  <2>3. CASE j = 2
    BY <1>13, <2>1, <2>3, SystemCode DEF Fits, CallKinds, Waiting, Sg!Programs, Sg!Sig, HandlersOf
  <2>4. CASE j = 3
    BY <1>13, <2>1, <2>4, SystemCode DEF Fits, CallKinds, Waiting, Sg!Programs, Sg!Sig
  <2>5. CASE j = 4
    BY <1>13, <2>1, <2>5, SystemCode DEF Fits, CallKinds, Waiting, Sg!Programs, Sg!Sig
  <2>6. CASE j = 5
    BY <1>13, <2>1, <2>6, SystemCode DEF Fits, CallKinds, Waiting, Sg!Programs, Sg!Sig
  <2>7. CASE j = 6
    BY <1>13, <2>1, <2>7, SystemCode DEF Fits, CallKinds, Waiting, Sg!Programs, Sg!Sig
  <2>8. CASE j = 7
    BY <1>13, <2>1, <2>8, SystemCode DEF Fits, CallKinds, Waiting, Sg!Programs, Sg!Sig
  <2>9. CASE j = 8
    BY <1>13, <2>1, <2>9, SystemCode DEF Fits, CallKinds, Waiting, Sg!Programs, Sg!Sig
  <2>10. CASE j = 9
    BY <1>13, <2>1, <2>10, SystemCode DEF Fits, CallKinds, Waiting, Sg!Programs, Sg!Sig
  <2> QED BY <2>1, <2>2, <2>3, <2>4, <2>5, <2>6, <2>7, <2>8, <2>9, <2>10
<1>14. CASE fn = "return"
  <2>1. j \in 1..1 /\ Len(Sg!Code(fn)) = 1
    BY <1>14, ReturnCode
  <2>2. CASE j = 1
    BY <1>14, <2>1, <2>2, ReturnCode DEF Fits, CallKinds, Waiting, Sg!Programs, Sg!Sig
  <2> QED BY <2>1, <2>2
<1>15. CASE fn = "longjmp"
  <2>1. j \in 1..1 /\ Len(Sg!Code(fn)) = 1
    BY <1>15, LongJmpCode
  <2>2. CASE j = 1
    BY <1>15, <2>1, <2>2, LongJmpCode DEF Fits, CallKinds, Waiting, Sg!Programs, Sg!Sig
  <2> QED BY <2>1, <2>2
<1>16. CASE fn = "quitflag"
  <2>1. j \in 1..2 /\ Len(Sg!Code(fn)) = 2
    BY <1>16, QuitCode
  <2>2. CASE j = 1
    BY <1>16, <2>1, <2>2, QuitCode DEF Fits, CallKinds, Waiting, Sg!Programs, Sg!Sig
  <2>3. CASE j = 2
    BY <1>16, <2>1, <2>3, QuitCode DEF Fits, CallKinds, Waiting, Sg!Programs, Sg!Sig
  <2> QED BY <2>1, <2>2, <2>3
<1>17. CASE fn = "sig_quit"
  <2>1. j \in 1..2 /\ Len(Sg!Code(fn)) = 2
    BY <1>17, SigQuitCode
  <2>2. CASE j = 1
    BY <1>17, <2>1, <2>2, SigQuitCode DEF Fits, CallKinds, Waiting, Sg!Programs, Sg!Sig
  <2>3. CASE j = 2
    BY <1>17, <2>1, <2>3, SigQuitCode DEF Fits, CallKinds, Waiting, Sg!Programs, Sg!Sig
  <2> QED BY <2>1, <2>2, <2>3
<1>18. CASE fn = "sig_usr1"
  <2>1. j \in 1..6 /\ Len(Sg!Code(fn)) = 6
    BY <1>18, Usr1Code
  <2>2. CASE j = 1
    BY <1>18, <2>1, <2>2, Usr1Code DEF Fits, CallKinds, Waiting, Sg!Programs, Sg!Sig
  <2>3. CASE j = 2
    BY <1>18, <2>1, <2>3, Usr1Code DEF Fits, CallKinds, Waiting, Sg!Programs, Sg!Sig
  <2>4. CASE j = 3
    BY <1>18, <2>1, <2>4, Usr1Code DEF Fits, CallKinds, Waiting, Sg!Programs, Sg!Sig
  <2>5. CASE j = 4
    BY <1>18, <2>1, <2>5, Usr1Code DEF Fits, CallKinds, Waiting, Sg!Programs, Sg!Sig
  <2>6. CASE j = 5
    BY <1>18, <2>1, <2>6, Usr1Code DEF Fits, CallKinds, Waiting, Sg!Programs, Sg!Sig
  <2>7. CASE j = 6
    BY <1>18, <2>1, <2>7, Usr1Code DEF Fits, CallKinds, Waiting, Sg!Programs, Sg!Sig
  <2> QED BY <2>1, <2>2, <2>3, <2>4, <2>5, <2>6, <2>7
<1>19. CASE fn = "sig_tstp"
  <2>1. j \in 1..5 /\ Len(Sg!Code(fn)) = 5
    BY <1>19, SigStopCode
  <2>2. CASE j = 1
    BY <1>19, <2>1, <2>2, SigStopCode DEF Fits, CallKinds, Waiting, Sg!Programs, Sg!Sig
  <2>3. CASE j = 2
    BY <1>19, <2>1, <2>3, SigStopCode DEF Fits, CallKinds, Waiting, Sg!Programs, Sg!Sig
  <2>4. CASE j = 3
    BY <1>19, <2>1, <2>4, SigStopCode DEF Fits, CallKinds, Waiting, Sg!Programs, Sg!Sig
  <2>5. CASE j = 4
    BY <1>19, <2>1, <2>5, SigStopCode DEF Fits, CallKinds, Waiting, Sg!Programs, Sg!Sig
  <2>6. CASE j = 5
    BY <1>19, <2>1, <2>6, SigStopCode DEF Fits, CallKinds, Waiting, Sg!Programs, Sg!Sig
  <2> QED BY <2>1, <2>2, <2>3, <2>4, <2>5, <2>6
<1>20. CASE fn = "sig_cld"
  <2>1. j \in 1..3 /\ Len(Sg!Code(fn)) = 3
    BY <1>20, CldCode
  <2>2. CASE j = 1
    BY <1>20, <2>1, <2>2, CldCode DEF Fits, CallKinds, Waiting, Sg!Programs, Sg!Sig
  <2>3. CASE j = 2
    BY <1>20, <2>1, <2>3, CldCode DEF Fits, CallKinds, Waiting, Sg!Programs, Sg!Sig
  <2>4. CASE j = 3
    BY <1>20, <2>1, <2>4, CldCode DEF Fits, CallKinds, Waiting, Sg!Programs, Sg!Sig
  <2> QED BY <2>1, <2>2, <2>3, <2>4
<1> QED BY <1>1, <1>2, <1>3, <1>4, <1>5, <1>6, <1>7, <1>8, <1>9, <1>10, <1>11, <1>12, <1>13, <1>14, <1>15,
   <1>16, <1>17, <1>18, <1>19, <1>20 DEF Sg!Programs, Handlers

\* A step is taken by a process that runs and has nothing to deliver.
Live == sst = "runs" /\ Sg!Deliverable = {} /\ ~Sg!Top.asleep

\* Which part of the model a step belongs to.
LEMMA StepKinds ==
  ASSUME Sg!Step
  PROVE  /\ Live /\ UNCHANGED <<sprog, ssent, before>>
         /\ \/ Ins[1] \in CallKinds /\ Sg!SigCall(Ins)
            \/ Ins[1] = "fork" /\ Sg!ForkFails(Ins)
            \/ Ins[1] \in Waiting /\ Sg!Wait(Ins)
            \/ Ins[1] \in {"ifset", "goto"} /\ Sg!Branch(Ins)
            \/ Ins[1] = "setjmp" /\ Sg!SetJmp(Ins)
            \/ Ins[1] \in {"longjmp", "siglongjmp"} /\ Sg!LongJmp(Ins)
            \/ Ins[1] \in {"waitpid", "wait"} /\ Sg!WaitChild(Ins)
            \/ Ins[1] \in {"ret", "exit"} /\ Sg!Return(Ins)
<1>1. ASSUME NEW i
      PROVE  /\ Sg!SigCall(i) => i[1] \in CallKinds
             /\ Sg!ForkFails(i) => i[1] = "fork"
             /\ Sg!Wait(i) => i[1] \in Waiting
             /\ Sg!Branch(i) => i[1] \in {"ifset", "goto"}
             /\ Sg!SetJmp(i) => i[1] = "setjmp"
             /\ Sg!LongJmp(i) => i[1] \in {"longjmp", "siglongjmp"}
             /\ Sg!WaitChild(i) => i[1] \in {"waitpid", "wait"}
             /\ Sg!Return(i) => i[1] \in {"ret", "exit"}
  <2>1. Sg!SigCall(i) => i[1] \in CallKinds
    BY DEF Sg!SigCall, CallKinds
  <2>2. Sg!ForkFails(i) => i[1] = "fork"
    BY DEF Sg!ForkFails
  <2>3. Sg!Wait(i) => i[1] \in Waiting
    BY DEF Sg!Wait, Waiting
  <2>4. Sg!Branch(i) => i[1] \in {"ifset", "goto"}
    BY DEF Sg!Branch
  <2>5. Sg!SetJmp(i) => i[1] = "setjmp"
    BY DEF Sg!SetJmp
  <2>6. Sg!LongJmp(i) => i[1] \in {"longjmp", "siglongjmp"}
    BY DEF Sg!LongJmp
  <2>7. Sg!WaitChild(i) => i[1] \in {"waitpid", "wait"}
    BY DEF Sg!WaitChild
  <2>8. Sg!Return(i) => i[1] \in {"ret", "exit"}
    BY DEF Sg!Return
  <2> QED BY <2>1, <2>2, <2>3, <2>4, <2>5, <2>6, <2>7, <2>8
<1>2. Live /\ UNCHANGED <<sprog, ssent, before>>
  BY DEF Sg!Step, Sg!Running, Sg!Keep, Live
<1>3. \/ Sg!SigCall(Ins) \/ Sg!ForkFails(Ins) \/ Sg!Wait(Ins) \/ Sg!Branch(Ins) \/ Sg!SetJmp(Ins)
      \/ Sg!LongJmp(Ins) \/ Sg!WaitChild(Ins) \/ Sg!Return(Ins)
  BY DEF Sg!Step, Ins
<1> QED BY <1>1, <1>2, <1>3

\* A call that changes signals, the timer or the flag, and goes on.
LEMMA CallStep ==
  ASSUME SigTypes, Sg!Step, Ins[1] \in CallKinds \ {"fork"}
  PROVE  /\ Live /\ UNCHANGED <<sprog, ssent, before>> /\ Sg!SigCall(Ins)
         /\ Moves(Sg!Top.at + 1) /\ frames' \in Seq(Calls) /\ Len(frames') \in Nat \ {0}
<1>1. Live /\ UNCHANGED <<sprog, ssent, before>> /\ Sg!SigCall(Ins)
  BY StepKinds DEF CallKinds, Waiting
<1>2. Sg!Jump(Sg!Top.at + 1) /\ Sg!Top.at + 1 \in Nat
  BY <1>1, TopCall DEF Sg!SigCall, Sg!Go
<1> QED BY <1>1, <1>2, JumpMoves

\* signal.
LEMMA DoSignal ==
  ASSUME SigTypes, Sg!Step, NEW s \in Sg!Sig, NEW h \in Acts, Ins[1] = "signal", Ins[2] = s, Ins[3] = h
  PROVE  /\ Live /\ Moves(Sg!Top.at + 1) /\ SigTypes'
         /\ disp' = [disp EXCEPT ![s] = h]
         /\ UNCHANGED <<sprog, ssent, before, sst, smask, spend, oldmask, oldact, timer, flag, env,
                        child, status, halted, misjump>>
<1>1. /\ Live /\ UNCHANGED <<sprog, ssent, before>> /\ Sg!SigCall(Ins)
      /\ Moves(Sg!Top.at + 1) /\ frames' \in Seq(Calls) /\ Len(frames') \in Nat \ {0}
  BY CallStep DEF CallKinds
<1>2. PICK i : i = Ins /\ Sg!SigCall(i) /\ i[1] = "signal" /\ i[2] = s /\ i[3] = h
  BY <1>1
<1>3. /\ disp' = [disp EXCEPT ![s] = h]
      /\ UNCHANGED <<sst, smask, spend, oldmask, oldact, timer, flag, env, child, status, halted,
                     misjump>>
  BY <1>2 DEF Sg!SigCall
<1> QED BY <1>1, <1>3 DEF SigTypes

\* signal, if the signal had its default action.
LEMMA DoCatch ==
  ASSUME SigTypes, Sg!Step, NEW s \in Sg!Sig, NEW h \in Acts, Ins[1] = "catch", Ins[2] = s, Ins[3] = h
  PROVE  /\ Live /\ Moves(Sg!Top.at + 1) /\ SigTypes'
         /\ disp' = [disp EXCEPT ![s] = IF oldact[s] = "dfl" THEN h ELSE disp[s]]
         /\ UNCHANGED <<sprog, ssent, before, sst, smask, spend, oldmask, oldact, timer, flag, env,
                        child, status, halted, misjump>>
<1>1. /\ Live /\ UNCHANGED <<sprog, ssent, before>> /\ Sg!SigCall(Ins)
      /\ Moves(Sg!Top.at + 1) /\ frames' \in Seq(Calls) /\ Len(frames') \in Nat \ {0}
  BY CallStep DEF CallKinds
<1>2. PICK i : i = Ins /\ Sg!SigCall(i) /\ i[1] = "catch" /\ i[2] = s /\ i[3] = h
  BY <1>1
<1>3. /\ disp' = [disp EXCEPT ![s] = IF oldact[s] = "dfl" THEN h ELSE disp[s]]
      /\ UNCHANGED <<sst, smask, spend, oldmask, oldact, timer, flag, env, child, status, halted,
                     misjump>>
  BY <1>2 DEF Sg!SigCall
<1> QED BY <1>1, <1>3 DEF SigTypes

\* sigaction with what was saved.
LEMMA DoRestore ==
  ASSUME SigTypes, Sg!Step, NEW s \in Sg!Sig, Ins[1] = "restore", Ins[2] = s
  PROVE  /\ Live /\ Moves(Sg!Top.at + 1) /\ SigTypes'
         /\ disp' = [disp EXCEPT ![s] = oldact[s]]
         /\ UNCHANGED <<sprog, ssent, before, sst, smask, spend, oldmask, oldact, timer, flag, env,
                        child, status, halted, misjump>>
<1>1. /\ Live /\ UNCHANGED <<sprog, ssent, before>> /\ Sg!SigCall(Ins)
      /\ Moves(Sg!Top.at + 1) /\ frames' \in Seq(Calls) /\ Len(frames') \in Nat \ {0}
  BY CallStep DEF CallKinds
<1>2. PICK i : i = Ins /\ Sg!SigCall(i) /\ i[1] = "restore" /\ i[2] = s
  BY <1>1
<1>3. /\ disp' = [disp EXCEPT ![s] = oldact[s]]
      /\ UNCHANGED <<sst, smask, spend, oldmask, oldact, timer, flag, env, child, status, halted,
                     misjump>>
  BY <1>2 DEF Sg!SigCall
<1> QED BY <1>1, <1>3 DEF SigTypes

\* sigaction with the default, if the signal is ignored.
LEMMA DoUnignore ==
  ASSUME SigTypes, Sg!Step, NEW s \in Sg!Sig, Ins[1] = "unignore", Ins[2] = s
  PROVE  /\ Live /\ Moves(Sg!Top.at + 1) /\ SigTypes'
         /\ disp' = [disp EXCEPT ![s] = IF disp[s] = "ign" THEN "dfl" ELSE disp[s]]
         /\ UNCHANGED <<sprog, ssent, before, sst, smask, spend, oldmask, oldact, timer, flag, env,
                        child, status, halted, misjump>>
<1>1. /\ Live /\ UNCHANGED <<sprog, ssent, before>> /\ Sg!SigCall(Ins)
      /\ Moves(Sg!Top.at + 1) /\ frames' \in Seq(Calls) /\ Len(frames') \in Nat \ {0}
  BY CallStep DEF CallKinds
<1>2. PICK i : i = Ins /\ Sg!SigCall(i) /\ i[1] = "unignore" /\ i[2] = s
  BY <1>1
<1>3. /\ disp' = [disp EXCEPT ![s] = IF disp[s] = "ign" THEN "dfl" ELSE disp[s]]
      /\ UNCHANGED <<sst, smask, spend, oldmask, oldact, timer, flag, env, child, status, halted,
                     misjump>>
  BY <1>2 DEF Sg!SigCall
<1>4. disp' \in [Sg!Sig -> Acts]
  <2>1. PICK v \in Acts : v = IF disp[s] = "ign" THEN "dfl" ELSE disp[s]
    BY DEF SigTypes, Acts
  <2>2. disp' = [disp EXCEPT ![s] = v]
    BY <1>3, <2>1
  <2> QED BY <2>1, <2>2 DEF SigTypes
<1> QED BY <1>1, <1>3, <1>4 DEF SigTypes

\* sigprocmask with SIG_BLOCK.
LEMMA DoBlock ==
  ASSUME SigTypes, Sg!Step, NEW m \in SUBSET Sg!Sig, Ins[1] = "block", Ins[2] = m
  PROVE  /\ Live /\ Moves(Sg!Top.at + 1) /\ SigTypes'
         /\ smask' = smask \union m /\ oldmask' = smask
         /\ UNCHANGED <<sprog, ssent, before, sst, spend, disp, oldact, timer, flag, env, child,
                        status, halted, misjump>>
<1>1. /\ Live /\ UNCHANGED <<sprog, ssent, before>> /\ Sg!SigCall(Ins)
      /\ Moves(Sg!Top.at + 1) /\ frames' \in Seq(Calls) /\ Len(frames') \in Nat \ {0}
  BY CallStep DEF CallKinds
<1>2. PICK i : i = Ins /\ Sg!SigCall(i) /\ i[1] = "block" /\ i[2] = m
  BY <1>1
<1>3. /\ smask' = smask \union m /\ oldmask' = smask
      /\ UNCHANGED <<sst, spend, disp, oldact, timer, flag, env, child, status, halted, misjump>>
  BY <1>2 DEF Sg!SigCall
<1> QED BY <1>1, <1>3 DEF SigTypes

\* sigprocmask with SIG_UNBLOCK.
LEMMA DoUnblock ==
  ASSUME SigTypes, Sg!Step, NEW s \in Sg!Sig, Ins[1] = "unblock", Ins[2] = s
  PROVE  /\ Live /\ Moves(Sg!Top.at + 1) /\ SigTypes'
         /\ smask' = smask \ {s}
         /\ UNCHANGED <<sprog, ssent, before, sst, spend, disp, oldmask, oldact, timer, flag, env,
                        child, status, halted, misjump>>
<1>1. /\ Live /\ UNCHANGED <<sprog, ssent, before>> /\ Sg!SigCall(Ins)
      /\ Moves(Sg!Top.at + 1) /\ frames' \in Seq(Calls) /\ Len(frames') \in Nat \ {0}
  BY CallStep DEF CallKinds
<1>2. PICK i : i = Ins /\ Sg!SigCall(i) /\ i[1] = "unblock" /\ i[2] = s
  BY <1>1
<1>3. /\ smask' = smask \ {s}
      /\ UNCHANGED <<sst, spend, disp, oldmask, oldact, timer, flag, env, child, status, halted,
                     misjump>>
  BY <1>2 DEF Sg!SigCall
<1> QED BY <1>1, <1>3 DEF SigTypes

\* sigprocmask with a new mask.
LEMMA DoMask ==
  ASSUME SigTypes, Sg!Step, NEW m \in SUBSET Sg!Sig, Ins[1] = "mask", Ins[2] = m
  PROVE  /\ Live /\ Moves(Sg!Top.at + 1) /\ SigTypes'
         /\ smask' = m
         /\ UNCHANGED <<sprog, ssent, before, sst, spend, disp, oldmask, oldact, timer, flag, env,
                        child, status, halted, misjump>>
<1>1. /\ Live /\ UNCHANGED <<sprog, ssent, before>> /\ Sg!SigCall(Ins)
      /\ Moves(Sg!Top.at + 1) /\ frames' \in Seq(Calls) /\ Len(frames') \in Nat \ {0}
  BY CallStep DEF CallKinds
<1>2. PICK i : i = Ins /\ Sg!SigCall(i) /\ i[1] = "mask" /\ i[2] = m
  BY <1>1
<1>3. /\ smask' = m
      /\ UNCHANGED <<sst, spend, disp, oldmask, oldact, timer, flag, env, child, status, halted,
                     misjump>>
  BY <1>2 DEF Sg!SigCall
<1> QED BY <1>1, <1>3 DEF SigTypes

\* sigprocmask with the saved mask.
LEMMA DoSetMask ==
  ASSUME SigTypes, Sg!Step, Ins[1] = "setmask"
  PROVE  /\ Live /\ Moves(Sg!Top.at + 1) /\ SigTypes'
         /\ smask' = oldmask
         /\ UNCHANGED <<sprog, ssent, before, sst, spend, disp, oldmask, oldact, timer, flag, env,
                        child, status, halted, misjump>>
<1>1. /\ Live /\ UNCHANGED <<sprog, ssent, before>> /\ Sg!SigCall(Ins)
      /\ Moves(Sg!Top.at + 1) /\ frames' \in Seq(Calls) /\ Len(frames') \in Nat \ {0}
  BY CallStep DEF CallKinds
<1>2. PICK i : i = Ins /\ Sg!SigCall(i) /\ i[1] = "setmask"
  BY <1>1
<1>3. /\ smask' = oldmask
      /\ UNCHANGED <<sst, spend, disp, oldmask, oldact, timer, flag, env, child, status, halted,
                     misjump>>
  BY <1>2 DEF Sg!SigCall
<1> QED BY <1>1, <1>3 DEF SigTypes

\* alarm.
LEMMA DoAlarm ==
  ASSUME SigTypes, Sg!Step, Ins[1] = "alarm"
  PROVE  /\ Live /\ Moves(Sg!Top.at + 1) /\ SigTypes'
         /\ timer' = TRUE
         /\ UNCHANGED <<sprog, ssent, before, sst, smask, spend, disp, oldmask, oldact, flag, env,
                        child, status, halted, misjump>>
<1>1. /\ Live /\ UNCHANGED <<sprog, ssent, before>> /\ Sg!SigCall(Ins)
      /\ Moves(Sg!Top.at + 1) /\ frames' \in Seq(Calls) /\ Len(frames') \in Nat \ {0}
  BY CallStep DEF CallKinds
<1>2. PICK i : i = Ins /\ Sg!SigCall(i) /\ i[1] = "alarm"
  BY <1>1
<1>3. /\ timer' = TRUE
      /\ UNCHANGED <<sst, smask, spend, disp, oldmask, oldact, flag, env, child, status, halted,
                     misjump>>
  BY <1>2 DEF Sg!SigCall
<1> QED BY <1>1, <1>3 DEF SigTypes

\* alarm(0).
LEMMA DoAlarm0 ==
  ASSUME SigTypes, Sg!Step, Ins[1] = "alarm0"
  PROVE  /\ Live /\ Moves(Sg!Top.at + 1) /\ SigTypes'
         /\ timer' = FALSE
         /\ UNCHANGED <<sprog, ssent, before, sst, smask, spend, disp, oldmask, oldact, flag, env,
                        child, status, halted, misjump>>
<1>1. /\ Live /\ UNCHANGED <<sprog, ssent, before>> /\ Sg!SigCall(Ins)
      /\ Moves(Sg!Top.at + 1) /\ frames' \in Seq(Calls) /\ Len(frames') \in Nat \ {0}
  BY CallStep DEF CallKinds
<1>2. PICK i : i = Ins /\ Sg!SigCall(i) /\ i[1] = "alarm0"
  BY <1>1
<1>3. /\ timer' = FALSE
      /\ UNCHANGED <<sst, smask, spend, disp, oldmask, oldact, flag, env, child, status, halted,
                     misjump>>
  BY <1>2 DEF Sg!SigCall
<1> QED BY <1>1, <1>3 DEF SigTypes

\* An assignment to the flag.
LEMMA DoFlag ==
  ASSUME SigTypes, Sg!Step, NEW b \in {0, 1}, Ins[1] = "flag", Ins[2] = b
  PROVE  /\ Live /\ Moves(Sg!Top.at + 1) /\ SigTypes'
         /\ flag' = b
         /\ UNCHANGED <<sprog, ssent, before, sst, smask, spend, disp, oldmask, oldact, timer, env,
                        child, status, halted, misjump>>
<1>1. /\ Live /\ UNCHANGED <<sprog, ssent, before>> /\ Sg!SigCall(Ins)
      /\ Moves(Sg!Top.at + 1) /\ frames' \in Seq(Calls) /\ Len(frames') \in Nat \ {0}
  BY CallStep DEF CallKinds
<1>2. PICK i : i = Ins /\ Sg!SigCall(i) /\ i[1] = "flag" /\ i[2] = b
  BY <1>1
<1>3. /\ flag' = b
      /\ UNCHANGED <<sst, smask, spend, disp, oldmask, oldact, timer, env, child, status, halted,
                     misjump>>
  BY <1>2 DEF Sg!SigCall
<1> QED BY <1>1, <1>3 DEF SigTypes

\* kill of the process itself.
LEMMA DoKill ==
  ASSUME SigTypes, Sg!Step, NEW s \in Sg!Sig, Ins[1] = "kill", Ins[2] = s
  PROVE  /\ Live /\ Moves(Sg!Top.at + 1) /\ SigTypes'
         /\ halted' = FALSE /\ spend' = IF disp[s] # "ign" THEN spend \union {s} ELSE spend
         /\ UNCHANGED <<sprog, ssent, before, sst, smask, disp, oldmask, oldact, timer, flag, env,
                        child, status, misjump>>
<1>1. /\ Live /\ UNCHANGED <<sprog, ssent, before>> /\ Sg!SigCall(Ins)
      /\ Moves(Sg!Top.at + 1) /\ frames' \in Seq(Calls) /\ Len(frames') \in Nat \ {0}
  BY CallStep DEF CallKinds
<1>2. PICK i : i = Ins /\ Sg!SigCall(i) /\ i[1] = "kill" /\ i[2] = s
  BY <1>1
<1>3. /\ halted' = FALSE /\ spend' = IF disp[s] # "ign" THEN spend \union {s} ELSE spend
      /\ UNCHANGED <<sst, smask, disp, oldmask, oldact, timer, flag, env, child, status, misjump>>
  BY <1>2 DEF Sg!SigCall
<1> QED BY <1>1, <1>3 DEF SigTypes

\* Work that no signal is about.
LEMMA DoWork ==
  ASSUME SigTypes, Sg!Step, Ins[1] = "work"
  PROVE  /\ Live /\ Moves(Sg!Top.at + 1) /\ SigTypes'
         /\ UNCHANGED <<sprog, ssent, before, sst, smask, spend, disp, oldmask, oldact, timer,
                        flag, env, child, status, halted, misjump>>
<1>1. /\ Live /\ UNCHANGED <<sprog, ssent, before>> /\ Sg!SigCall(Ins)
      /\ Moves(Sg!Top.at + 1) /\ frames' \in Seq(Calls) /\ Len(frames') \in Nat \ {0}
  BY CallStep DEF CallKinds
<1>2. PICK i : i = Ins /\ Sg!SigCall(i) /\ i[1] = "work"
  BY <1>1
<1>3. UNCHANGED <<sst, smask, spend, disp, oldmask, oldact, timer, flag, env, child, status,
                  halted, misjump>>
  BY <1>2 DEF Sg!SigCall
<1> QED BY <1>1, <1>3 DEF SigTypes

LEMMA FirstOf ==
  ASSUME NEW S, NEW d \in Seq(S), NEW nw \in 0..Len(d)
  PROVE  /\ SubSeq(d, 1, nw) \in Seq(S) /\ Len(SubSeq(d, 1, nw)) = nw
         /\ \A k \in 1..nw : SubSeq(d, 1, nw)[k] = d[k]
<1>1. \A k \in 1..nw : d[k] \in S
  BY ElementOfSeq
<1>2. nw \in Int /\ nw >= 0 /\ 1 \in Int
  OBVIOUS
<1>3. /\ SubSeq(d, 1, nw) \in Seq(S) /\ Len(SubSeq(d, 1, nw)) = (IF 1 <= nw THEN nw - 1 + 1 ELSE 0)
      /\ \A k \in 1..nw - 1 + 1 : SubSeq(d, 1, nw)[k] = d[1 + k - 1]
  BY <1>1, <1>2, SubSeqProperties
<1>4. Len(SubSeq(d, 1, nw)) = nw
  BY <1>2, <1>3
<1>5. ASSUME NEW k \in 1..nw PROVE SubSeq(d, 1, nw)[k] = d[k]
  <2>1. k \in 1..nw - 1 + 1 /\ 1 + k - 1 = k
    BY <1>2
  <2> QED BY <1>3, <2>1
<1> QED BY <1>3, <1>4, <1>5

\* fork, which may fail.
LEMMA DoFork ==
  ASSUME SigTypes, Sg!Step, Ins[1] = "fork"
  PROVE  /\ Live /\ SigTypes'
         /\ \/ Moves(Sg!Top.at + 1) /\ child' = "runs" /\ status' = status
            \/ /\ Moves(Sg!Top.at + IF sprog = "system" THEN 2 ELSE 1)
               /\ child' = child /\ status' = "nofork"
         /\ UNCHANGED <<sprog, ssent, before, sst, smask, spend, disp, oldmask, oldact, timer,
                        flag, env, halted, misjump>>
<1>1. Live /\ UNCHANGED <<sprog, ssent, before>> /\ (Sg!SigCall(Ins) \/ Sg!ForkFails(Ins))
  BY StepKinds DEF CallKinds, Waiting
<1>2. Sg!Top.at \in Nat
  BY TopCall
<1>3. CASE Sg!SigCall(Ins)
  <2>1. PICK i : i = Ins /\ Sg!SigCall(i) /\ i[1] = "fork"
    BY <1>3
  <2>2. /\ Sg!Jump(Sg!Top.at + 1) /\ child' = "runs"
        /\ UNCHANGED <<status, sst, smask, spend, disp, oldmask, oldact, timer, flag, env, halted,
                       misjump>>
    BY <2>1 DEF Sg!SigCall, Sg!Go
  <2>3. Moves(Sg!Top.at + 1) /\ frames' \in Seq(Calls) /\ Len(frames') \in Nat \ {0}
    BY <1>2, <2>2, JumpMoves
  <2> QED BY <1>1, <2>2, <2>3 DEF SigTypes
<1>4. CASE Sg!ForkFails(Ins)
  <2>1. PICK to \in Nat : to = Sg!Top.at + IF sprog = "system" THEN 2 ELSE 1
    BY <1>2
  <2>2. /\ Sg!Jump(to) /\ status' = "nofork"
        /\ UNCHANGED <<child, sst, smask, spend, disp, oldmask, oldact, timer, flag, env, halted,
                       misjump>>
    BY <1>4, <2>1 DEF Sg!ForkFails
  <2>3. Moves(to) /\ frames' \in Seq(Calls) /\ Len(frames') \in Nat \ {0}
    BY <2>2, JumpMoves
  <2> QED BY <1>1, <2>1, <2>2, <2>3 DEF SigTypes
<1> QED BY <1>1, <1>3, <1>4

\* sigsuspend, pause and read.
LEMMA DoWait ==
  ASSUME SigTypes, Sg!Step, Ins[1] \in Waiting, Ins[1] = "suspend" => Ins[2] \in SUBSET Sg!Sig
  PROVE  /\ Live /\ SigTypes' /\ Dozes
         /\ Ins[1] = "suspend" => smask' = Ins[2]
         /\ Ins[1] = "suspendold" => smask' = oldmask \ {"ALRM"}
         /\ Ins[1] \in {"pause", "read"} => smask' = smask
         /\ UNCHANGED <<sprog, ssent, before, sst, spend, disp, oldmask, oldact, timer, flag, env,
                        child, status, halted, misjump>>
<1>1. Live /\ UNCHANGED <<sprog, ssent, before>> /\ Sg!Wait(Ins)
  BY StepKinds DEF CallKinds, Waiting
<1>2. PICK i : i = Ins /\ Sg!Wait(i) /\ i[1] \in Waiting
  BY <1>1
<1>3. PICK m : m = CASE i[1] = "suspend" -> i[2] [] i[1] = "suspendold" -> oldmask \ {"ALRM"} [] OTHER -> smask
  OBVIOUS
<1>4. /\ Sg!Sleeps(m)
      /\ UNCHANGED <<sst, spend, disp, oldmask, oldact, timer, flag, env, child, status, halted,
                     misjump>>
  BY <1>2, <1>3 DEF Sg!Wait
<1>5. Dozes /\ smask' = m /\ frames' \in Seq(Calls) /\ Len(frames') \in Nat \ {0}
  BY <1>4, SleepDozes
<1>6. /\ i[1] = "suspend" => m = i[2]
      /\ i[1] = "suspendold" => m = oldmask \ {"ALRM"}
      /\ i[1] \in {"pause", "read"} => m = smask
  BY <1>3
<1>7. m \in SUBSET Sg!Sig
  BY <1>2, <1>6 DEF Waiting, SigTypes
<1> QED BY <1>1, <1>2, <1>4, <1>5, <1>6, <1>7 DEF SigTypes

\* A jump within the function.
LEMMA DoBranch ==
  ASSUME SigTypes, Sg!Step, Ins[1] \in {"ifset", "goto"}, NEW to \in Nat, Ins[2] = to
  PROVE  /\ Live /\ SigTypes'
         /\ IF Ins[1] = "goto" \/ flag = 1 THEN Moves(to) ELSE Moves(Sg!Top.at + 1)
         /\ UNCHANGED <<sprog, ssent, before, sst, smask, spend, disp, oldmask, oldact, timer,
                        flag, env, child, status, halted, misjump>>
<1>1. Live /\ UNCHANGED <<sprog, ssent, before>> /\ Sg!Branch(Ins)
  BY StepKinds DEF CallKinds, Waiting
<1>2. PICK n \in Nat : n = IF Ins[1] = "goto" \/ flag = 1 THEN to ELSE Sg!Top.at + 1
  BY TopCall
<1>3. /\ Sg!Jump(n)
      /\ UNCHANGED <<sst, smask, spend, disp, oldmask, oldact, timer, flag, env, child, status,
                     halted, misjump>>
  BY <1>1, <1>2 DEF Sg!Branch, Sg!Go, Sg!Same
<1>4. Moves(n) /\ frames' \in Seq(Calls) /\ Len(frames') \in Nat \ {0}
  BY <1>3, JumpMoves
<1> QED BY <1>1, <1>2, <1>3, <1>4 DEF SigTypes

\* setjmp.
LEMMA DoSetJmp ==
  ASSUME SigTypes, Sg!Step, Ins[1] = "setjmp"
  PROVE  /\ Live /\ SigTypes' /\ Moves(Sg!Top.at + 1)
         /\ env' # <<>> /\ env'[1].depth = Len(frames) /\ env'[1].at = Ins[2] /\ env'[1].mask = smask
         /\ UNCHANGED <<sprog, ssent, before, sst, smask, spend, disp, oldmask, oldact, timer,
                        flag, child, status, halted, misjump>>
<1>1. Live /\ UNCHANGED <<sprog, ssent, before>> /\ Sg!SetJmp(Ins)
  BY StepKinds DEF CallKinds, Waiting
<1>2. Sg!Jump(Sg!Top.at + 1) /\ Sg!Top.at + 1 \in Nat
  BY <1>1, TopCall DEF Sg!SetJmp, Sg!Go
<1>3. Moves(Sg!Top.at + 1) /\ frames' \in Seq(Calls) /\ Len(frames') \in Nat \ {0}
  BY <1>2, JumpMoves
<1>4. PICK e : e = [depth |-> Len(frames), at |-> Ins[2], mask |-> smask]
  OBVIOUS
<1>5. e.depth = Len(frames) /\ e.at = Ins[2] /\ e.mask = smask
  BY <1>4
<1>6. /\ env' = <<e>>
      /\ UNCHANGED <<sst, smask, spend, disp, oldmask, oldact, timer, flag, child, status, halted,
                     misjump>>
  BY <1>1, <1>4 DEF Sg!SetJmp
<1>7. env' # <<>> /\ env'[1] = e
  BY <1>6
<1> QED BY <1>1, <1>3, <1>5, <1>6, <1>7 DEF SigTypes

\* longjmp and siglongjmp, to a buffer that belongs to the program itself.
LEMMA DoLongJmp ==
  ASSUME SigTypes, Sg!Step, Ins[1] \in {"longjmp", "siglongjmp"},
         env # <<>> => env[1].depth = 1 /\ env[1].at \in Nat /\ env[1].mask \in SUBSET Sg!Sig
  PROVE  /\ Live /\ SigTypes'
         /\ \/ env = <<>> /\ misjump' = TRUE /\ sst' = "killed" /\ frames' = frames /\ smask' = smask
            \/ /\ env # <<>> /\ Len(frames') = 1 /\ Call(frames'[1], Base.fn, env[1].at, FALSE, Base.mask)
               /\ smask' = IF Ins[1] = "siglongjmp" THEN env[1].mask ELSE smask
               /\ misjump' = misjump /\ sst' = sst
         /\ UNCHANGED <<sprog, ssent, before, spend, disp, oldmask, oldact, timer, flag, env,
                        child, status, halted>>
<1>1. Live /\ UNCHANGED <<sprog, ssent, before>> /\ Sg!LongJmp(Ins)
  BY StepKinds DEF CallKinds, Waiting
<1>2. UNCHANGED <<spend, disp, oldmask, oldact, timer, flag, env, child, status, halted>>
  BY <1>1 DEF Sg!LongJmp
<1>3. CASE env = <<>>
  <2>1. misjump' = TRUE /\ sst' = "killed" /\ frames' = frames /\ smask' = smask
    BY <1>1, <1>3 DEF Sg!LongJmp
  <2> QED BY <1>1, <1>2, <1>3, <2>1 DEF SigTypes
<1>4. CASE env # <<>>
  <2>1. PICK e : e = env[1] /\ e.depth = 1 /\ e.at \in Nat /\ e.mask \in SUBSET Sg!Sig
    BY <1>4
  <2>2. /\ frames' = [SubSeq(frames, 1, 1) EXCEPT ![1].at = e.at, ![1].asleep = FALSE]
        /\ smask' = IF Ins[1] = "siglongjmp" THEN e.mask ELSE smask
        /\ misjump' = misjump /\ sst' = sst
    BY <1>1, <1>4, <2>1 DEF Sg!LongJmp
  <2>3. 1 \in 0..Len(frames) /\ 1 \in 1..Len(frames) /\ frames \in Seq(Calls)
    BY DEF SigTypes
  <2>4. PICK q \in Seq(Calls) : q = SubSeq(frames, 1, 1) /\ Len(q) = 1 /\ q[1] = Base
    <3>1. PICK q : q = SubSeq(frames, 1, 1)
      OBVIOUS
    <3>2. q \in Seq(Calls) /\ Len(q) = 1 /\ \A k \in 1..1 : q[k] = frames[k]
      BY <2>3, <3>1, FirstOf
    <3>3. q[1] = frames[1]
      BY <3>2
    <3> QED BY <3>1, <3>2, <3>3 DEF Base
  <2>5. PICK c \in Calls : c = Base
    BY <2>3, ElementOfSeq DEF Base
  <2>6. PICK f : f = [[c EXCEPT !.at = e.at] EXCEPT !.asleep = FALSE]
    OBVIOUS
  <2>7. f \in Calls /\ Call(f, c.fn, e.at, FALSE, c.mask)
    BY <2>1, <2>6 DEF Calls, Call
  <2>8. frames' = [q EXCEPT ![1] = f]
    BY <2>2, <2>4, <2>5, <2>6
  <2>9. frames' \in Seq(Calls) /\ Len(frames') = 1 /\ frames'[1] = f
    BY <2>4, <2>7, <2>8
  <2>10. smask' \in SUBSET Sg!Sig
    BY <2>1, <2>2 DEF SigTypes
  <2>11. SigTypes'
    BY <1>2, <2>9, <2>10 DEF SigTypes
  <2> QED BY <1>1, <1>2, <1>4, <2>1, <2>2, <2>5, <2>7, <2>9, <2>11
<1> QED BY <1>3, <1>4

\* waitpid, and wait in a handler.
LEMMA DoWaitChild ==
  ASSUME SigTypes, Sg!Step, Ins[1] \in {"waitpid", "wait"}
  PROVE  /\ Live /\ SigTypes' /\ Moves(Sg!Top.at + 1) /\ child # "runs" /\ child' = "reaped"
         /\ Ins[1] = "waitpid" /\ child = "zombie" => status' = "ok"
         /\ Ins[1] = "wait" => status' = status
         /\ UNCHANGED <<sprog, ssent, before, sst, smask, spend, disp, oldmask, oldact, timer,
                        flag, env, halted, misjump>>
<1>1. Live /\ UNCHANGED <<sprog, ssent, before>> /\ Sg!WaitChild(Ins)
  BY StepKinds DEF CallKinds, Waiting
<1>2. Sg!Jump(Sg!Top.at + 1) /\ Sg!Top.at + 1 \in Nat
  BY <1>1, TopCall DEF Sg!WaitChild, Sg!Go
<1>3. Moves(Sg!Top.at + 1) /\ frames' \in Seq(Calls) /\ Len(frames') \in Nat \ {0}
  BY <1>2, JumpMoves
<1>4. PICK i : i = Ins /\ Sg!WaitChild(i)
  BY <1>1
<1>5. /\ child # "runs" /\ child' = "reaped"
      /\ i[1] = "waitpid" /\ child = "zombie" => status' = "ok"
      /\ i[1] = "wait" => status' = status
      /\ UNCHANGED <<sst, smask, spend, disp, oldmask, oldact, timer, flag, env, halted, misjump>>
  BY <1>4 DEF Sg!WaitChild
<1> QED BY <1>1, <1>3, <1>4, <1>5 DEF SigTypes

\* A handler returns.
LEMMA DoRet ==
  ASSUME SigTypes, Sg!Step, Ins[1] = "ret", Len(frames) > 1
  PROVE  /\ Live /\ SigTypes' /\ Pops /\ smask' = Sg!Top.mask
         /\ UNCHANGED <<sprog, ssent, before, sst, spend, disp, oldmask, oldact, timer, flag, env,
                        child, status, halted, misjump>>
<1>1. Live /\ UNCHANGED <<sprog, ssent, before>> /\ Sg!Return(Ins)
  BY StepKinds DEF CallKinds, Waiting
<1>2. /\ frames' = SubSeq(frames, 1, Len(frames) - 1) /\ smask' = Sg!Top.mask /\ sst' = sst
      /\ UNCHANGED <<spend, disp, oldmask, oldact, timer, flag, env, child, status, halted,
                     misjump>>
  BY <1>1 DEF Sg!Return
<1>3. PICK d \in Nat : d = Len(frames) - 1 /\ d \in 0..Len(frames) /\ d # 0 /\ frames \in Seq(Calls)
  <2>1. frames \in Seq(Calls)
    BY DEF SigTypes
  <2>2. PICK l \in Nat : l = Len(frames) /\ l > 1
    BY DEF SigTypes
  <2>3. l - 1 \in Nat /\ l - 1 \in 0..l /\ l - 1 # 0
    BY <2>2
  <2> QED BY <2>1, <2>2, <2>3
<1>4. /\ frames' \in Seq(Calls) /\ Len(frames') = d /\ \A k \in 1..d : frames'[k] = frames[k]
  BY <1>2, <1>3, FirstOf
<1>5. Sg!Top.mask \in SUBSET Sg!Sig
  BY TopCall
<1> QED BY <1>1, <1>2, <1>3, <1>4, <1>5 DEF SigTypes, Pops

\* The program ends.
LEMMA DoExit ==
  ASSUME SigTypes, Sg!Step, Ins[1] = "exit"
  PROVE  /\ Live /\ SigTypes' /\ frames' = frames /\ sst' = "exited"
         /\ UNCHANGED <<sprog, ssent, before, smask, spend, disp, oldmask, oldact, timer, flag,
                        env, child, status, halted, misjump>>
<1>1. Live /\ UNCHANGED <<sprog, ssent, before>> /\ Sg!Return(Ins)
  BY StepKinds DEF CallKinds, Waiting
<1>2. /\ frames' = frames /\ smask' = smask /\ sst' = "exited"
      /\ UNCHANGED <<spend, disp, oldmask, oldact, timer, flag, env, child, status, halted,
                     misjump>>
  BY <1>1 DEF Sg!Return
<1> QED BY <1>1, <1>2 DEF SigTypes

\* A signal is delivered, to its default action or to a handler.
LEMMA Delivered ==
  ASSUME SigTypes, NEW s \in Sg!Sig, Sg!Deliver(s)
  PROVE  /\ SigTypes' /\ sst = "runs" /\ s \in spend /\ s \notin smask /\ disp[s] # "ign"
         /\ spend' = spend \ {s}
         /\ \/ /\ disp[s] = "dfl" /\ frames' = frames /\ smask' = smask
               /\ \/ s \notin {"TSTP", "CHLD"} /\ sst' = "killed" /\ halted' = halted
                  \/ s = "TSTP" /\ sst' = "stopped" /\ halted' = TRUE
                  \/ s = "CHLD" /\ sst' = sst /\ halted' = halted
            \/ /\ disp[s] # "dfl" /\ sst' = sst /\ halted' = halted /\ smask' = smask \union {s}
               /\ \/ /\ Sg!Top.asleep /\ (Ins[1] # "read" \/ s = "ALRM")
                     /\ Pushes(disp[s], Sg!Top.at + 1, Sg!Top.mask)
                  \/ /\ Sg!Top.asleep /\ Ins[1] = "read" /\ s # "ALRM"
                     /\ Pushes(disp[s], Sg!Top.at, Sg!Top.mask)
                  \/ ~Sg!Top.asleep /\ Pushes(disp[s], Sg!Top.at, smask)
         /\ UNCHANGED <<sprog, ssent, before, disp, oldmask, oldact, timer, flag, env, child,
                        status, misjump>>
<1>1. /\ sst = "runs" /\ s \in spend /\ s \notin smask /\ disp[s] # "ign" /\ spend' = spend \ {s}
      /\ UNCHANGED <<sprog, ssent, before, disp, oldmask, oldact, timer, flag, env, child, status,
                     misjump>>
  BY DEF Sg!Deliver, Sg!Deliverable, Sg!Keep
<1>2. CASE disp[s] = "dfl"
  <2>1. /\ frames' = frames /\ smask' = smask
        /\ \/ s \notin {"TSTP", "CHLD"} /\ sst' = "killed" /\ halted' = halted
           \/ s = "TSTP" /\ sst' = "stopped" /\ halted' = TRUE
           \/ s = "CHLD" /\ sst' = sst /\ halted' = halted
    BY <1>2 DEF Sg!Deliver
  <2> QED BY <1>1, <1>2, <2>1 DEF SigTypes
<1>3. CASE disp[s] # "dfl"
  <2>1. PICK back : back = IF Sg!Top.asleep THEN Sg!Top.mask ELSE smask
    OBVIOUS
  <2>2. PICK to : to = IF Sg!Top.asleep /\ (Ins[1] # "read" \/ s = "ALRM") THEN Sg!Top.at + 1 ELSE Sg!Top.at
    OBVIOUS
  <2>3. PICK d \in Nat \ {0} : d = Len(frames) /\ frames \in Seq(Calls) /\ d \in 1..Len(frames)
    BY DEF SigTypes
  <2>4. PICK c \in Calls : c = frames[d] /\ c = Sg!Top
    BY <2>3, TopCall
  <2>5. back \in SUBSET Sg!Sig /\ to \in Nat
    BY <2>1, <2>2, TopCall DEF SigTypes
  <2>6. PICK e : e = [[c EXCEPT !.asleep = FALSE] EXCEPT !.at = to]
    OBVIOUS
  <2>7. e \in Calls /\ Call(e, c.fn, to, FALSE, c.mask)
    BY <2>5, <2>6 DEF Calls, Call
  <2>8. PICK f : f = Sg!Frame(disp[s], back)
    OBVIOUS
  <2>9. f \in Calls /\ Call(f, disp[s], 1, FALSE, back)
    <3>1. disp[s] \in Handlers
      BY <1>1, <1>3 DEF SigTypes, Acts
    <3> QED BY <2>5, <2>8, <3>1 DEF Calls, Call, Sg!Frame
  <2>10. PICK q : q = [frames EXCEPT ![d] = e]
    OBVIOUS
  <2>101. q \in Seq(Calls) /\ Len(q) = d /\ q[d] = e /\ \A k \in 1..d - 1 : q[k] = frames[k]
    BY <2>3, <2>7, <2>10
  <2>11. /\ sst' = sst /\ halted' = halted /\ smask' = smask \union {s}
         /\ frames' = Append([frames EXCEPT ![Len(frames)].asleep = FALSE,
              ![Len(frames)].at = IF Sg!Top.asleep /\ (Ins[1] # "read" \/ s = "ALRM") THEN @ + 1 ELSE @], f)
    BY <1>3, <2>1, <2>8 DEF Sg!Deliver, Ins
  <2>12. frames' = Append(q, f)
    <3>1. CASE Sg!Top.asleep /\ (Ins[1] # "read" \/ s = "ALRM")
      <4>1. e = [[c EXCEPT !.asleep = FALSE] EXCEPT !.at = @ + 1]
        BY <2>2, <2>4, <2>6, <3>1 DEF Calls
      <4>2. q = [frames EXCEPT ![d].asleep = FALSE, ![d].at = @ + 1]
        BY <2>3, <2>4, <2>10, <4>1
      <4> QED BY <2>3, <2>11, <3>1, <4>2
    <3>2. CASE ~(Sg!Top.asleep /\ (Ins[1] # "read" \/ s = "ALRM"))
      <4>1. e = [[c EXCEPT !.asleep = FALSE] EXCEPT !.at = @]
        BY <2>2, <2>4, <2>6, <3>2 DEF Calls
      <4>2. q = [frames EXCEPT ![d].asleep = FALSE, ![d].at = @]
        BY <2>3, <2>4, <2>10, <4>1
      <4> QED BY <2>3, <2>11, <3>2, <4>2
    <3> QED BY <3>1, <3>2
  <2>13. /\ frames' \in Seq(Calls) /\ Len(frames') = d + 1 /\ frames'[d + 1] = f /\ frames'[d] = e
         /\ \A k \in 1..d - 1 : frames'[k] = frames[k]
    BY <2>3, <2>9, <2>101, <2>12, AppendProperties
  <2>14. Pushes(disp[s], to, back)
    BY <2>3, <2>4, <2>7, <2>9, <2>13 DEF Pushes
  <2>15. \/ Sg!Top.asleep /\ (Ins[1] # "read" \/ s = "ALRM") /\ Pushes(disp[s], Sg!Top.at + 1, Sg!Top.mask)
         \/ Sg!Top.asleep /\ Ins[1] = "read" /\ s # "ALRM" /\ Pushes(disp[s], Sg!Top.at, Sg!Top.mask)
         \/ ~Sg!Top.asleep /\ Pushes(disp[s], Sg!Top.at, smask)
    BY <2>1, <2>2, <2>14, TopCall
  <2>16. SigTypes'
    BY <1>1, <2>3, <2>11, <2>13 DEF SigTypes
  <2> QED BY <1>1, <1>3, <2>11, <2>15, <2>16
<1> QED BY <1>2, <1>3

\* A handler of a program is a handler.
LEMMA HandlersKnown ==
  ASSUME NEW p \in Sg!Programs
  PROVE  HandlersOf(p) \subseteq Handlers /\ HandlersOf(p) \cap Sg!Programs = {}
BY DEF HandlersOf, Handlers, Sg!Programs

\* The innermost call is the program itself, or a handler.
LEMMA TopShape ==
  ASSUME SigTypes, FrameShape
  PROVE  /\ Sg!Top.at \in 1..Len(Sg!Code(Sg!Top.fn))
         /\ \/ Len(frames) = 1 /\ Sg!Top = Base /\ Sg!Top.fn = sprog /\ Sg!Top.fn \in Sg!Programs
            \/ /\ Len(frames) > 1 /\ Sg!Top.fn \in HandlersOf(sprog) /\ Sg!Top.fn \in Handlers
               /\ Sg!Top.fn \notin Sg!Programs /\ ~Sg!Top.asleep
         /\ Fits(Sg!Top.fn, Sg!Top.at, Ins, Len(Sg!Code(Sg!Top.fn)))
<1>1. PICK d \in Nat \ {0} : d = Len(frames) /\ Sg!Top = frames[d]
  BY TopCall DEF SigTypes
<1>2. frames[d].at \in 1..Len(Sg!Code(frames[d].fn))
  BY <1>1 DEF FrameShape
<1>3. \/ d = 1 /\ frames[d] = Base /\ frames[d].fn = sprog /\ frames[d].fn \in Sg!Programs
      \/ /\ d > 1 /\ frames[d].fn \in HandlersOf(sprog) /\ frames[d].fn \in Handlers
         /\ frames[d].fn \notin Sg!Programs /\ ~frames[d].asleep
  <2>1. CASE d = 1
    BY <1>1, <2>1 DEF FrameShape, Base
  <2>2. CASE d # 1
    <3>1. d \in 2..Len(frames)
      BY <1>1, <2>2
    <3>2. frames[d].fn \in HandlersOf(sprog) /\ ~frames[d].asleep /\ sprog \in Sg!Programs
      BY <3>1 DEF FrameShape
    <3> QED BY <3>1, <3>2, HandlersKnown
  <2> QED BY <2>1, <2>2
<1>4. Fits(Sg!Top.fn, Sg!Top.at, Ins, Len(Sg!Code(Sg!Top.fn)))
  BY <1>1, <1>2, <1>3, StepFits DEF Ins
<1> QED BY <1>1, <1>2, <1>3, <1>4

\* The innermost call goes on.
LEMMA FrameMoves ==
  ASSUME SigTypes, FrameShape, NEW to \in 1..Len(Sg!Code(Sg!Top.fn)), Moves(to), sprog' = sprog
  PROVE  /\ FrameShape'
         /\ Len(frames) = 1 => Base'.at = to /\ ~Base'.asleep /\ BaseMask' = smask'
         /\ Len(frames) > 1 => Base' = Base /\ BaseMask' = BaseMask
<1>1. PICK d \in Nat \ {0} : d = Len(frames) /\ Sg!Top = frames[d]
  BY TopCall DEF SigTypes
<1>2. /\ Len(frames') = d /\ (\A k \in 1..d - 1 : frames'[k] = frames[k])
      /\ frames'[d].fn = frames[d].fn /\ frames'[d].at = to /\ frames'[d].asleep = FALSE
      /\ frames'[d].mask = frames[d].mask
  BY <1>1 DEF Moves, Call
<1>3. Sg!Top'.asleep = FALSE
  BY <1>2 DEF Sg!Top
<1>4. CASE d = 1
  <2>1. Base'.at = to /\ Base'.asleep = FALSE /\ Base'.fn = Base.fn /\ BaseMask' = smask'
    BY <1>2, <1>4 DEF Base, BaseMask
  <2>2. \A k \in 1..Len(frames') : frames'[k].at \in 1..Len(Sg!Code(frames'[k].fn))
    BY <1>1, <1>2, <1>4
  <2>3. FrameShape'
    BY <1>1, <1>2, <1>3, <1>4, <2>1, <2>2 DEF FrameShape
  <2> QED BY <1>1, <1>4, <2>1, <2>3
<1>5. CASE d # 1
  <2>1. Base' = Base /\ BaseMask' = BaseMask
    <3>1. 1 \in 1..d - 1
      BY <1>5
    <3>2. frames'[2].mask = frames[2].mask
      BY <1>2, <1>5
    <3> QED BY <1>1, <1>2, <1>5, <3>1, <3>2 DEF Base, BaseMask
  <2>2. ASSUME NEW k \in 2..d PROVE frames'[k].fn \in HandlersOf(sprog) /\ ~frames'[k].asleep
    <3>1. frames[k].fn \in HandlersOf(sprog) /\ ~frames[k].asleep
      BY <1>1 DEF FrameShape
    <3>2. CASE k = d
      BY <1>2, <3>1, <3>2
    <3>3. CASE k # d
      <4>1. k \in 1..d - 1
        BY <3>3
      <4> QED BY <1>2, <3>1, <4>1
    <3> QED BY <3>2, <3>3
  <2>3. ASSUME NEW k \in 1..d PROVE frames'[k].at \in 1..Len(Sg!Code(frames'[k].fn))
    <3>1. frames[k].at \in 1..Len(Sg!Code(frames[k].fn))
      BY <1>1 DEF FrameShape
    <3>2. CASE k = d
      BY <1>1, <1>2, <3>2
    <3>3. CASE k # d
      <4>1. k \in 1..d - 1
        BY <3>3
      <4> QED BY <1>2, <3>1, <4>1
    <3> QED BY <3>2, <3>3
  <2>4. FrameShape'
    BY <1>1, <1>2, <1>3, <1>5, <2>1, <2>2, <2>3 DEF FrameShape
  <2> QED BY <1>1, <1>5, <2>1, <2>4
<1> QED BY <1>4, <1>5

\* The program waits.
LEMMA FrameDozes ==
  ASSUME SigTypes, FrameShape, Ins[1] \in Waiting, Dozes, sprog' = sprog
  PROVE  /\ FrameShape' /\ Len(frames) = 1 /\ Len(frames') = 1
         /\ Base'.at = Base.at /\ Base'.asleep /\ BaseMask' = smask
<1>1. Len(frames) = 1 /\ Sg!Top = Base /\ Sg!Top.fn = sprog /\ Sg!Top = frames[1]
  BY TopShape, TopCall DEF Fits, Waiting
<1>2. /\ Len(frames') = 1 /\ frames'[1].fn = frames[1].fn /\ frames'[1].at = frames[1].at
      /\ frames'[1].asleep = TRUE /\ frames'[1].mask = smask
  BY <1>1 DEF Dozes, Call
<1>3. Sg!Top' = frames'[1] /\ Ins' = Ins
  BY <1>1, <1>2 DEF Sg!Top, Ins
<1>4. \A k \in 1..1 : frames'[k].at \in 1..Len(Sg!Code(frames'[k].fn))
  BY <1>1, <1>2 DEF FrameShape
<1>5. FrameShape'
  BY <1>1, <1>2, <1>3, <1>4 DEF FrameShape, Base
<1> QED BY <1>1, <1>2, <1>5 DEF Base, BaseMask

\* A handler is called.
LEMMA FramePushes ==
  ASSUME SigTypes, FrameShape, NEW fn \in HandlersOf(sprog), NEW to \in 1..Len(Sg!Code(Sg!Top.fn)), NEW back,
         Pushes(fn, to, back), sprog' = sprog, back = IF Sg!Top.asleep THEN Sg!Top.mask ELSE smask
  PROVE  /\ FrameShape' /\ Len(frames') = Len(frames) + 1
         /\ Len(frames) = 1 => Base'.at = to
         /\ Len(frames) > 1 => Base'.at = Base.at
         /\ ~Base'.asleep /\ BaseMask' = BaseMask
<1>1. PICK d \in Nat \ {0} : d = Len(frames) /\ Sg!Top = frames[d]
  BY TopCall DEF SigTypes
<1>2. /\ Len(frames') = d + 1 /\ (\A k \in 1..d - 1 : frames'[k] = frames[k])
      /\ frames'[d].fn = frames[d].fn /\ frames'[d].at = to /\ frames'[d].asleep = FALSE
      /\ frames'[d].mask = frames[d].mask
      /\ frames'[d + 1].fn = fn /\ frames'[d + 1].at = 1 /\ frames'[d + 1].asleep = FALSE
      /\ frames'[d + 1].mask = back
  BY <1>1 DEF Pushes, Call
<1>3. Sg!Top'.asleep = FALSE
  BY <1>2 DEF Sg!Top
<1>4. 1 \in 1..Len(Sg!Code(fn))
  <2>1. fn \in Handlers
    BY HandlersKnown DEF FrameShape
  <2> QED BY <2>1, ReturnCode, LongJmpCode, QuitCode, SigQuitCode, Usr1Code, SigStopCode, CldCode DEF Handlers
<1>5. Base'.fn = Base.fn /\ Base'.asleep = FALSE /\ (d = 1 => Base'.at = to) /\ (d > 1 => Base'.at = Base.at)
  <2>1. CASE d = 1
    BY <1>2, <2>1 DEF Base
  <2>2. CASE d # 1
    <3>1. 1 \in 1..d - 1 /\ d > 1
      BY <2>2
    <3>2. Base' = Base /\ ~Base.asleep
      BY <1>1, <1>2, <3>1 DEF Base, FrameShape
    <3>3. Base'.asleep = FALSE
      <4>1. Base \in Calls
        BY <1>1, <3>1, ElementOfSeq DEF SigTypes, Base
      <4> QED BY <3>2, <4>1 DEF Calls
    <3> QED BY <2>2, <3>2, <3>3
  <2> QED BY <2>1, <2>2
<1>6. BaseMask' = BaseMask
  <2>1. CASE d = 1
    <3>1. BaseMask' = back
      BY <1>2, <2>1 DEF BaseMask
    <3>2. BaseMask = IF frames[1].asleep THEN frames[1].mask ELSE smask
      BY <1>1, <2>1 DEF BaseMask, Base
    <3> QED BY <1>1, <2>1, <3>1, <3>2
  <2>2. CASE d # 1
    <3>1. frames'[2].mask = frames[2].mask
      BY <1>2, <2>2
    <3>2. d + 1 # 1
      OBVIOUS
    <3> QED BY <1>1, <1>2, <2>2, <3>1, <3>2 DEF BaseMask
  <2> QED BY <2>1, <2>2
<1>7. \A k \in 2..d + 1 : frames'[k].fn \in HandlersOf(sprog) /\ ~frames'[k].asleep
  BY <1>1, <1>2 DEF FrameShape
<1>8. \A k \in 1..d + 1 : frames'[k].at \in 1..Len(Sg!Code(frames'[k].fn))
  BY <1>1, <1>2, <1>4, SMTT(30) DEF FrameShape
<1>9. FrameShape'
  BY <1>2, <1>3, <1>5, <1>7, <1>8 DEF FrameShape
<1> QED BY <1>1, <1>2, <1>5, <1>6, <1>9

\* A handler returns.
LEMMA FramePops ==
  ASSUME SigTypes, FrameShape, Len(frames) > 1, Pops, smask' = Sg!Top.mask, sprog' = sprog
  PROVE  /\ FrameShape' /\ Len(frames') = Len(frames) - 1 /\ Base' = Base /\ ~Base'.asleep
         /\ BaseMask' = BaseMask
<1>1. PICK d \in Nat \ {0} : d = Len(frames) /\ Sg!Top = frames[d] /\ d > 1
  BY TopCall DEF SigTypes
<1>2. Len(frames') = d - 1 /\ (\A k \in 1..d - 1 : frames'[k] = frames[k])
  BY <1>1 DEF Pops
<1>3. 1 \in 1..d - 1 /\ d - 1 \in 1..d - 1
  BY <1>1
<1>4. Base' = Base /\ ~Base.asleep
  BY <1>1, <1>2, <1>3 DEF Base, FrameShape
<1>5. Sg!Top' = frames[d - 1] /\ ~frames[d - 1].asleep
  <2>1. Sg!Top' = frames[d - 1]
    BY <1>2, <1>3 DEF Sg!Top
  <2>2. CASE d = 2
    BY <1>4, <2>1, <2>2 DEF Base
  <2>3. CASE d # 2
    <3>1. d - 1 \in 2..Len(frames)
      BY <1>1, <2>3
    <3> QED BY <2>1, <3>1 DEF FrameShape
  <2> QED BY <2>2, <2>3
<1>6. BaseMask' = BaseMask
  <2>1. CASE d = 2
    BY <1>1, <1>2, <1>4, <2>1 DEF BaseMask
  <2>2. CASE d # 2
    <3>1. 2 \in 1..d - 1 /\ d - 1 # 1
      BY <1>1, <2>2
    <3> QED BY <1>1, <1>2, <3>1 DEF BaseMask
  <2> QED BY <2>1, <2>2
<1>7. \A k \in 2..d - 1 : frames'[k].fn \in HandlersOf(sprog) /\ ~frames'[k].asleep
  BY <1>1, <1>2 DEF FrameShape
<1>8. \A k \in 1..d - 1 : frames'[k].at \in 1..Len(Sg!Code(frames'[k].fn))
  BY <1>1, <1>2 DEF FrameShape
<1>9. FrameShape'
  BY <1>2, <1>4, <1>5, <1>7, <1>8 DEF FrameShape
<1> QED BY <1>1, <1>2, <1>4, <1>6, <1>9

\* Every function has a length.
LEMMA CodeLen ==
  ASSUME NEW fn \in Sg!Programs \union Handlers
  PROVE  Len(Sg!Code(fn)) \in Nat
BY SleepCode, Sleep1Code, Sleep2Code, Read1Code, Read2Code, Suspend1Code, Suspend2Code, CriticalCode, MaskCode,
   StopCode, ChildCode, AbortCode, SystemCode, ReturnCode, LongJmpCode, QuitCode, SigQuitCode, Usr1Code, SigStopCode, CldCode
   DEF Sg!Programs, Handlers

\* What is done with one signal changes.
LEMMA DispSet ==
  ASSUME SigTypes, DispShape, NEW s \in Sg!Sig, NEW h \in {"dfl", "ign"} \union HandlersOf(sprog),
         disp' = [disp EXCEPT ![s] = h], UNCHANGED <<sprog, oldact, before>>
  PROVE  DispShape'
<1> SUFFICES ASSUME NEW r \in Sg!Sig PROVE disp'[r] \in {"dfl", "ign"} \union HandlersOf(sprog)
  BY DEF DispShape
<1>1. disp[r] \in {"dfl", "ign"} \union HandlersOf(sprog)
  BY DEF DispShape
<1>2. disp'[r] = IF r = s THEN h ELSE disp[r]
  BY DEF SigTypes
<1> QED BY <1>1, <1>2

\* Types and shape of the calls, in a step.
LEMMA ShapeStep ==
  ASSUME SigTypes, SigShape, Sg!Step
  PROVE  SigTypes' /\ SigShape'
<1>1. /\ FrameShape /\ DispShape /\ EnvShape /\ Sg!Top.at \in 1..Len(Sg!Code(Sg!Top.fn)) /\ Sg!Top.at \in Nat
      /\ Fits(Sg!Top.fn, Sg!Top.at, Ins, Len(Sg!Code(Sg!Top.fn)))
      /\ \/ Len(frames) = 1 /\ Sg!Top = Base /\ Sg!Top.fn = sprog /\ Sg!Top.fn \in Sg!Programs
         \/ Len(frames) > 1 /\ Sg!Top.fn \in HandlersOf(sprog) /\ Sg!Top.fn \notin Sg!Programs
  BY TopShape, TopCall DEF SigShape
<1>2. PICK i : i = Ins
  OBVIOUS
<1>3. PICK n \in Nat : n = Len(Sg!Code(Sg!Top.fn))
  <2>1. Sg!Top.fn \in Sg!Programs \union Handlers
    BY TopCall
  <2> QED BY <2>1, CodeLen
<1>4. i[1] \notin {"goto", "ret", "exit", "longjmp", "siglongjmp"} => Sg!Top.at + 1 \in 1..n
  BY <1>1, <1>2, <1>3 DEF Fits
<1>5. i[1] \in {"signal", "catch"} =>
        i[2] \in Sg!Sig /\ i[3] \in {"dfl", "ign"} \union HandlersOf(sprog) /\ i[3] \in Acts
  <2>1. HandlersOf(sprog) \subseteq Handlers
    BY <1>1, HandlersKnown DEF FrameShape
  <2> QED BY <1>1, <1>2, <2>1 DEF Fits, Acts
<1>6. ASSUME Moves(Sg!Top.at + 1), i[1] \notin {"goto", "ret", "exit", "longjmp", "siglongjmp"}, sprog' = sprog
      PROVE  FrameShape'
  BY <1>1, <1>3, <1>4, <1>6, FrameMoves
<1>7. ASSUME UNCHANGED <<sprog, env>> PROVE EnvShape'
  BY <1>1, <1>7 DEF EnvShape
<1>8. ASSUME UNCHANGED <<sprog, disp, oldact, before>> PROVE DispShape'
  BY <1>1, <1>8 DEF DispShape

<1>9. CASE i[1] = "signal"
  <2>1. PICK s \in Sg!Sig : s = i[2]
    BY <1>5, <1>9
  <2>2. PICK h \in Acts : h \in {"dfl", "ign"} \union HandlersOf(sprog) /\ h = i[3]
    BY <1>5, <1>9
  <2>3. /\ Moves(Sg!Top.at + 1) /\ SigTypes' /\ disp' = [disp EXCEPT ![s] = h]
        /\ UNCHANGED <<sprog, oldact, before, env>>
    BY <1>2, <1>9, <2>1, <2>2, DoSignal
  <2>4. FrameShape' /\ EnvShape'
    BY <1>6, <1>7, <1>9, <2>3
  <2>5. DispShape'
    BY <1>1, <2>2, <2>3, DispSet
  <2> QED BY <2>3, <2>4, <2>5 DEF SigShape
<1>10. CASE i[1] = "catch"
  <2>1. PICK s \in Sg!Sig : s = i[2]
    BY <1>5, <1>10
  <2>2. PICK g \in Acts : g \in {"dfl", "ign"} \union HandlersOf(sprog) /\ g = i[3]
    BY <1>5, <1>10
  <2>3. PICK h : h = IF oldact[s] = "dfl" THEN g ELSE disp[s]
    OBVIOUS
  <2>4. h \in {"dfl", "ign"} \union HandlersOf(sprog)
    BY <1>1, <2>2, <2>3 DEF DispShape
  <2>5. /\ Moves(Sg!Top.at + 1) /\ SigTypes' /\ disp' = [disp EXCEPT ![s] = h]
        /\ UNCHANGED <<sprog, oldact, before, env>>
    BY <1>2, <1>10, <2>1, <2>2, <2>3, DoCatch
  <2>6. FrameShape' /\ EnvShape'
    BY <1>6, <1>7, <1>10, <2>5
  <2>7. DispShape'
    BY <1>1, <2>4, <2>5, DispSet
  <2> QED BY <2>5, <2>6, <2>7 DEF SigShape
<1>11. CASE i[1] = "restore"
  <2>1. PICK s \in Sg!Sig : s = i[2]
    BY <1>1, <1>2, <1>11 DEF Fits
  <2>2. PICK h : h = oldact[s]
    OBVIOUS
  <2>3. h \in {"dfl", "ign"} \union HandlersOf(sprog)
    BY <1>1, <2>2 DEF DispShape
  <2>4. /\ Moves(Sg!Top.at + 1) /\ SigTypes' /\ disp' = [disp EXCEPT ![s] = h]
        /\ UNCHANGED <<sprog, oldact, before, env>>
    BY <1>2, <1>11, <2>1, <2>2, DoRestore
  <2>5. FrameShape' /\ EnvShape'
    BY <1>6, <1>7, <1>11, <2>4
  <2>6. DispShape'
    BY <1>1, <2>3, <2>4, DispSet
  <2> QED BY <2>4, <2>5, <2>6 DEF SigShape
<1>12. CASE i[1] = "unignore"
  <2>1. PICK s \in Sg!Sig : s = i[2]
    BY <1>1, <1>2, <1>12 DEF Fits
  <2>2. PICK h : h = IF disp[s] = "ign" THEN "dfl" ELSE disp[s]
    OBVIOUS
  <2>3. h \in {"dfl", "ign"} \union HandlersOf(sprog)
    BY <1>1, <2>2 DEF DispShape
  <2>4. /\ Moves(Sg!Top.at + 1) /\ SigTypes' /\ disp' = [disp EXCEPT ![s] = h]
        /\ UNCHANGED <<sprog, oldact, before, env>>
    BY <1>2, <1>12, <2>1, <2>2, DoUnignore
  <2>5. FrameShape' /\ EnvShape'
    BY <1>6, <1>7, <1>12, <2>4
  <2>6. DispShape'
    BY <1>1, <2>3, <2>4, DispSet
  <2> QED BY <2>4, <2>5, <2>6 DEF SigShape
<1>13. CASE i[1] = "block"
  <2>1. Moves(Sg!Top.at + 1) /\ SigTypes' /\ UNCHANGED <<sprog, disp, oldact, before, env>>
    <3>1. PICK m \in SUBSET Sg!Sig : m = i[2]
      BY <1>1, <1>2, <1>13 DEF Fits
    <3> QED BY <1>2, <1>13, <3>1, DoBlock
  <2> QED BY <1>6, <1>7, <1>8, <1>13, <2>1 DEF SigShape
<1>14. CASE i[1] = "unblock"
  <2>1. Moves(Sg!Top.at + 1) /\ SigTypes' /\ UNCHANGED <<sprog, disp, oldact, before, env>>
    <3>1. PICK m \in Sg!Sig : m = i[2]
      BY <1>1, <1>2, <1>14 DEF Fits
    <3> QED BY <1>2, <1>14, <3>1, DoUnblock
  <2> QED BY <1>6, <1>7, <1>8, <1>14, <2>1 DEF SigShape
<1>15. CASE i[1] = "mask"
  <2>1. Moves(Sg!Top.at + 1) /\ SigTypes' /\ UNCHANGED <<sprog, disp, oldact, before, env>>
    <3>1. PICK m \in SUBSET Sg!Sig : m = i[2]
      BY <1>1, <1>2, <1>15 DEF Fits
    <3> QED BY <1>2, <1>15, <3>1, DoMask
  <2> QED BY <1>6, <1>7, <1>8, <1>15, <2>1 DEF SigShape
<1>16. CASE i[1] = "flag"
  <2>1. Moves(Sg!Top.at + 1) /\ SigTypes' /\ UNCHANGED <<sprog, disp, oldact, before, env>>
    <3>1. PICK m \in {0, 1} : m = i[2]
      BY <1>1, <1>2, <1>16 DEF Fits
    <3> QED BY <1>2, <1>16, <3>1, DoFlag
  <2> QED BY <1>6, <1>7, <1>8, <1>16, <2>1 DEF SigShape
<1>17. CASE i[1] = "kill"
  <2>1. Moves(Sg!Top.at + 1) /\ SigTypes' /\ UNCHANGED <<sprog, disp, oldact, before, env>>
    <3>1. PICK m \in Sg!Sig : m = i[2]
      BY <1>1, <1>2, <1>17 DEF Fits
    <3> QED BY <1>2, <1>17, <3>1, DoKill
  <2> QED BY <1>6, <1>7, <1>8, <1>17, <2>1 DEF SigShape
<1>18. CASE i[1] = "setmask"
  <2>1. Moves(Sg!Top.at + 1) /\ SigTypes' /\ UNCHANGED <<sprog, disp, oldact, before, env>>
    BY <1>2, <1>18, DoSetMask
  <2> QED BY <1>6, <1>7, <1>8, <1>18, <2>1 DEF SigShape
<1>19. CASE i[1] = "alarm"
  <2>1. Moves(Sg!Top.at + 1) /\ SigTypes' /\ UNCHANGED <<sprog, disp, oldact, before, env>>
    BY <1>2, <1>19, DoAlarm
  <2> QED BY <1>6, <1>7, <1>8, <1>19, <2>1 DEF SigShape
<1>20. CASE i[1] = "alarm0"
  <2>1. Moves(Sg!Top.at + 1) /\ SigTypes' /\ UNCHANGED <<sprog, disp, oldact, before, env>>
    BY <1>2, <1>20, DoAlarm0
  <2> QED BY <1>6, <1>7, <1>8, <1>20, <2>1 DEF SigShape
<1>21. CASE i[1] = "work"
  <2>1. Moves(Sg!Top.at + 1) /\ SigTypes' /\ UNCHANGED <<sprog, disp, oldact, before, env>>
    BY <1>2, <1>21, DoWork
  <2> QED BY <1>6, <1>7, <1>8, <1>21, <2>1 DEF SigShape
<1>22. CASE i[1] = "fork"
  <2>1. PICK to \in {Sg!Top.at + 1, Sg!Top.at + 2} :
          /\ Moves(to) /\ (to = Sg!Top.at + 2 => sprog = "system")
          /\ SigTypes' /\ UNCHANGED <<sprog, disp, oldact, before, env>>
    <3>1. SigTypes' /\ UNCHANGED <<sprog, disp, oldact, before, env>>
      BY <1>2, <1>22, DoFork
    <3>2. Moves(Sg!Top.at + 1) \/ Moves(Sg!Top.at + IF sprog = "system" THEN 2 ELSE 1)
      BY <1>2, <1>22, DoFork
    <3>3. Sg!Top.at + 1 # Sg!Top.at + 2
      BY <1>1
    <3>4. CASE Moves(Sg!Top.at + 1)
      BY <3>1, <3>3, <3>4
    <3>5. CASE sprog = "system" /\ Moves(Sg!Top.at + 2)
      BY <3>1, <3>5
    <3> QED BY <3>2, <3>4, <3>5
  <2>2. to \in 1..n
    <3>1. CASE to = Sg!Top.at + 1
      BY <1>4, <1>22, <3>1
    <3>2. CASE to = Sg!Top.at + 2
      <4>1. Sg!Top.fn = "system"
        <5>1. sprog = "system" /\ "fork" = i[1]
          BY <1>22, <2>1, <3>2, <1>1
        <5>2. CASE Len(frames) = 1
          BY <1>1, <5>1, <5>2
        <5>3. CASE Sg!Top.fn \in HandlersOf(sprog)
          <6>1. Sg!Top.fn \in {"return", "sig_cld"}
            <7>1. HandlersOf("system") = {"return", "sig_cld"}
              BY DEF HandlersOf
            <7> QED BY <5>1, <5>3, <7>1
          <6>2. Sg!Top.at \in 1..3 /\ i = Sg!Code(Sg!Top.fn)[Sg!Top.at]
            BY <1>1, <1>2, <6>1, ReturnCode, CldCode DEF Ins
          <6> QED BY <1>1, <5>1, <6>1, <6>2, ReturnCode, CldCode
        <5> QED BY <1>1, <5>2, <5>3
      <4> QED BY <1>1, <1>2, <1>3, <1>22, <3>2, <4>1 DEF Fits
    <3> QED BY <3>1, <3>2
  <2>3. FrameShape'
    BY <1>1, <1>3, <2>1, <2>2, FrameMoves
  <2> QED BY <1>7, <1>8, <2>1, <2>3 DEF SigShape
<1>23. CASE i[1] \in Waiting
  <2>1. i[1] = "suspend" => i[2] \in SUBSET Sg!Sig
    BY <1>1, <1>2 DEF Fits
  <2>2. SigTypes' /\ Dozes /\ UNCHANGED <<sprog, disp, oldact, before, env>>
    BY <1>2, <1>23, <2>1, DoWait
  <2>3. FrameShape'
    BY <1>1, <1>2, <1>23, <2>2, FrameDozes
  <2> QED BY <1>7, <1>8, <2>2, <2>3 DEF SigShape
<1>24. CASE i[1] \in {"ifset", "goto"}
  <2>1. PICK to \in Nat : to = i[2] /\ to \in 1..n
    BY <1>1, <1>2, <1>3, <1>24 DEF Fits
  <2>2. SigTypes' /\ UNCHANGED <<sprog, disp, oldact, before, env>>
    BY <1>2, <1>24, <2>1, DoBranch
  <2>3. (i[1] = "ifset" /\ Moves(Sg!Top.at + 1)) \/ Moves(to)
    BY <1>2, <1>24, <2>1, DoBranch
  <2>4. FrameShape'
    BY <1>1, <1>3, <1>6, <2>1, <2>2, <2>3, FrameMoves
  <2> QED BY <1>7, <1>8, <2>2, <2>4 DEF SigShape
<1>25. CASE i[1] = "setjmp"
  <2>1. /\ Moves(Sg!Top.at + 1) /\ SigTypes' /\ UNCHANGED <<sprog, disp, oldact, before>>
        /\ env' # <<>> /\ env'[1].depth = Len(frames) /\ env'[1].at = i[2] /\ env'[1].mask = smask
    BY <1>2, <1>25, DoSetJmp
  <2>2. Len(frames) = 1 /\ Sg!Top.fn = sprog /\ i[2] \in 1..n
    BY <1>1, <1>2, <1>3, <1>25 DEF Fits
  <2>3. EnvShape'
    BY <1>3, <2>1, <2>2 DEF EnvShape, SigTypes
  <2> QED BY <1>6, <1>8, <1>25, <2>1, <2>3 DEF SigShape
<1>26. CASE i[1] \in {"longjmp", "siglongjmp"}
  <2>1. env # <<>> => env[1].depth = 1 /\ env[1].at \in 1..Len(Sg!Code(sprog)) /\ env[1].at \in Nat
        /\ env[1].mask \in SUBSET Sg!Sig
    <3>1. Len(Sg!Code(sprog)) \in Nat
      BY <1>1, CodeLen DEF FrameShape
    <3> QED BY <1>1, <3>1 DEF EnvShape
  <2>2. /\ SigTypes' /\ UNCHANGED <<sprog, disp, oldact, before, env>>
        /\ \/ frames' = frames
           \/ env # <<>> /\ Len(frames') = 1 /\ Call(frames'[1], Base.fn, env[1].at, FALSE, Base.mask)
    BY <1>2, <1>26, <2>1, DoLongJmp
  <2>3. CASE frames' = frames
    <3>1. FrameShape'
      BY <1>1, <2>2, <2>3 DEF FrameShape, Base, Sg!Top, Ins
    <3> QED BY <1>7, <1>8, <2>2, <3>1 DEF SigShape
  <2>4. CASE env # <<>> /\ Len(frames') = 1 /\ Call(frames'[1], Base.fn, env[1].at, FALSE, Base.mask)
    <3>1. Sg!Top' = frames'[1] /\ frames'[1].asleep = FALSE /\ frames'[1].fn = Base.fn
          /\ frames'[1].at = env[1].at /\ Base.fn = sprog
      BY <1>1, <2>4 DEF Sg!Top, Call, FrameShape
    <3>2. FrameShape'
      BY <1>1, <2>1, <2>2, <2>4, <3>1 DEF FrameShape, Base
    <3> QED BY <1>7, <1>8, <2>2, <3>2 DEF SigShape
  <2> QED BY <2>2, <2>3, <2>4
<1>27. CASE i[1] \in {"waitpid", "wait"}
  <2>1. Moves(Sg!Top.at + 1) /\ SigTypes' /\ UNCHANGED <<sprog, disp, oldact, before, env>>
    BY <1>2, <1>27, DoWaitChild
  <2> QED BY <1>6, <1>7, <1>8, <1>27, <2>1 DEF SigShape
<1>28. CASE i[1] = "ret"
  <2>1. Len(frames) > 1
    BY <1>1, <1>2, <1>28 DEF Fits
  <2>2. SigTypes' /\ Pops /\ smask' = Sg!Top.mask /\ UNCHANGED <<sprog, disp, oldact, before, env>>
    BY <1>2, <1>28, <2>1, DoRet
  <2>3. FrameShape'
    BY <1>1, <2>1, <2>2, FramePops
  <2> QED BY <1>7, <1>8, <2>2, <2>3 DEF SigShape
<1>29. CASE i[1] = "exit"
  <2>1. frames' = frames /\ SigTypes' /\ UNCHANGED <<sprog, disp, oldact, before, env>>
    BY <1>2, <1>29, DoExit
  <2>2. FrameShape'
    BY <1>1, <2>1 DEF FrameShape, Base, Sg!Top, Ins
  <2> QED BY <1>7, <1>8, <2>1, <2>2 DEF SigShape
<1> QED BY <1>1, <1>2, <1>9, <1>10, <1>11, <1>12, <1>13, <1>14, <1>15, <1>16, <1>17, <1>18, <1>19, <1>20,
   <1>21, <1>22, <1>23, <1>24, <1>25, <1>26, <1>27, <1>28, <1>29 DEF Fits, CallKinds

\* What happens outside the process: the alarm, the child, signals from others, input.
LEMMA Rings ==
  ASSUME SigTypes, Sg!AlarmRings
  PROVE  /\ SigTypes' /\ timer /\ sst \in {"runs", "stopped"} /\ timer' = FALSE
         /\ spend' = IF disp["ALRM"] = "ign" THEN spend ELSE spend \union {"ALRM"}
         /\ UNCHANGED <<sprog, ssent, before, frames, sst, smask, disp, oldmask, oldact, flag, env,
                        child, status, halted, misjump>>
<1>1. /\ timer /\ sst \in {"runs", "stopped"} /\ timer' = FALSE
      /\ spend' = IF disp["ALRM"] = "ign" THEN spend ELSE spend \union {"ALRM"}
      /\ UNCHANGED <<sprog, ssent, before, frames, sst, smask, disp, oldmask, oldact, flag, env,
                     child, status, halted, misjump>>
  BY DEF Sg!AlarmRings, Sg!Post, Sg!Keep
<1> QED BY <1>1 DEF SigTypes, Sg!Sig

\* The child ends.
LEMMA ChildDies ==
  ASSUME SigTypes, Sg!ChildEnds
  PROVE  /\ SigTypes' /\ child = "runs" /\ sst = "runs" /\ child' = "zombie"
         /\ spend' = IF disp["CHLD"] = "ign" THEN spend ELSE spend \union {"CHLD"}
         /\ UNCHANGED <<sprog, ssent, before, frames, sst, smask, disp, oldmask, oldact, timer,
                        flag, env, status, halted, misjump>>
<1>1. /\ child = "runs" /\ sst = "runs" /\ child' = "zombie"
      /\ spend' = IF disp["CHLD"] = "ign" THEN spend ELSE spend \union {"CHLD"}
      /\ UNCHANGED <<sprog, ssent, before, frames, sst, smask, disp, oldmask, oldact, timer, flag,
                     env, status, halted, misjump>>
  BY DEF Sg!ChildEnds, Sg!Post, Sg!Keep
<1> QED BY <1>1 DEF SigTypes, Sg!Sig

\* What others send to a program.
LEMMA SentKnown ==
  /\ Sg!SentTo("sleep2") = {} /\ Sg!SentTo("read2") = {} /\ Sg!SentTo("abort") = {}
  /\ Sg!SentTo("sigtstp") = {"TSTP"} /\ Sg!SentTo("system") = {"INT", "QUIT"}
  /\ \A p \in Sg!Programs : Sg!SentTo(p) \subseteq Sg!Sig
<1>1. Sg!SentTo("sleep2") = {} /\ Sg!SentTo("read2") = {} /\ Sg!SentTo("abort") = {}
  BY DEF Sg!SentTo
<1>2. Sg!SentTo("sigtstp") = {"TSTP"} /\ Sg!SentTo("system") = {"INT", "QUIT"}
  BY DEF Sg!SentTo
<1>3. ASSUME NEW p \in Sg!Programs PROVE Sg!SentTo(p) \subseteq Sg!Sig
  <2>1. CASE p \in {"suspend1", "suspend2", "system"}
    BY <2>1 DEF Sg!SentTo, Sg!Sig
  <2>2. CASE p \in {"sleep", "critical"}
    BY <2>2 DEF Sg!SentTo, Sg!Sig
  <2>3. CASE p \in {"mask", "sigtstp"}
    BY <2>3 DEF Sg!SentTo, Sg!Sig
  <2>4. CASE p \in {"sleep1", "sleep2", "read1", "read2", "child", "abort"}
    BY <2>4 DEF Sg!SentTo, Sg!Sig
  <2> QED BY <2>1, <2>2, <2>3, <2>4 DEF Sg!Programs
<1> QED BY <1>1, <1>2, <1>3

\* Others send a signal.
LEMMA Posted ==
  ASSUME SigTypes, sprog \in Sg!Programs, Sg!SendSignal
  PROVE  /\ SigTypes' /\ sst = "runs"
         /\ \E s \in Sg!SentTo(sprog) \cap Sg!Sig : spend' = IF disp[s] = "ign" THEN spend ELSE spend \union {s}
         /\ UNCHANGED <<sprog, before, frames, sst, smask, disp, oldmask, oldact, timer, flag, env,
                        child, status, halted, misjump>>
<1>1. /\ sst = "runs" /\ \E s \in Sg!SentTo(sprog) : Sg!Post(s)
      /\ UNCHANGED <<sprog, before, frames, sst, smask, disp, oldmask, oldact, timer, flag, env,
                     child, status, halted, misjump>>
  BY DEF Sg!SendSignal
<1>2. PICK s \in Sg!SentTo(sprog) : spend' = IF disp[s] = "ign" THEN spend ELSE spend \union {s}
  BY <1>1 DEF Sg!Post
<1>3. s \in Sg!Sig
  BY SentKnown
<1>4. SigTypes'
  BY <1>1, <1>2, <1>3 DEF SigTypes
<1> QED BY <1>1, <1>2, <1>3, <1>4

\* Input comes for a read.
LEMMA Typed ==
  ASSUME SigTypes, Sg!Input
  PROVE  /\ SigTypes' /\ sst = "runs" /\ Sg!Top.asleep /\ Ins[1] = "read" /\ Moves(Sg!Top.at + 1)
         /\ UNCHANGED <<sprog, ssent, before, sst, smask, spend, disp, oldmask, oldact, timer,
                        flag, env, child, status, halted, misjump>>
<1>1. /\ sst = "runs" /\ Sg!Top.asleep /\ Ins[1] = "read" /\ Sg!Jump(Sg!Top.at + 1)
      /\ UNCHANGED <<sprog, ssent, before, sst, smask, spend, disp, oldmask, oldact, timer, flag,
                     env, child, status, halted, misjump>>
  BY DEF Sg!Input, Sg!Go, Sg!Same, Sg!Keep, Ins
<1>2. Moves(Sg!Top.at + 1) /\ frames' \in Seq(Calls) /\ Len(frames') \in Nat \ {0}
  BY <1>1, TopCall, JumpMoves
<1> QED BY <1>1, <1>2 DEF SigTypes

\* A stopped process goes on.
LEMMA Resumes ==
  ASSUME SigTypes, Sg!Continue
  PROVE  /\ SigTypes' /\ sst = "stopped" /\ sst' = "runs"
         /\ UNCHANGED <<sprog, ssent, before, frames, smask, spend, disp, oldmask, oldact, timer,
                        flag, env, child, status, halted, misjump>>
<1>1. /\ sst = "stopped" /\ sst' = "runs"
      /\ UNCHANGED <<sprog, ssent, before, frames, smask, spend, disp, oldmask, oldact, timer,
                     flag, env, child, status, halted, misjump>>
  BY DEF Sg!Continue, Sg!Keep
<1> QED BY <1>1 DEF SigTypes

\* Nothing changes for the calls.
LEMMA CallsSame ==
  ASSUME UNCHANGED <<frames, smask, sprog>>
  PROVE  /\ Base' = Base /\ BaseMask' = BaseMask /\ Sg!Top' = Sg!Top /\ Ins' = Ins /\ Len(frames') = Len(frames)
         /\ FrameShape' = FrameShape /\ \A s \in Sg!Sig : Blocks(s)' = Blocks(s)
BY DEF Base, BaseMask, Sg!Top, Ins, FrameShape, Blocks

\* The calls after a signal is delivered.
LEMMA ShapeDelivered ==
  ASSUME SigTypes, SigShape, NEW s \in Sg!Sig, Sg!Deliver(s)
  PROVE  /\ SigTypes' /\ SigShape'
         /\ disp[s] = "dfl" => frames' = frames /\ smask' = smask
         /\ disp[s] # "dfl" =>
              /\ disp[s] \in HandlersOf(sprog) /\ smask' = smask \union {s} /\ Len(frames') = Len(frames) + 1
              /\ ~Base'.asleep /\ BaseMask' = BaseMask
              /\ Base'.at = IF Base.asleep /\ (Ins[1] # "read" \/ s = "ALRM") THEN Base.at + 1 ELSE Base.at
              /\ \A k \in 2..Len(frames) : frames'[k].fn = frames[k].fn /\ frames'[k].at = frames[k].at
                   /\ frames'[k].mask = frames[k].mask
              /\ frames'[Len(frames) + 1].fn = disp[s] /\ frames'[Len(frames) + 1].at = 1
              /\ frames'[Len(frames) + 1].mask = IF Sg!Top.asleep THEN Sg!Top.mask ELSE smask
<1>1. /\ FrameShape /\ DispShape /\ EnvShape /\ SigTypes' /\ disp[s] # "ign"
      /\ UNCHANGED <<sprog, before, disp, oldact, env>>
  BY Delivered DEF SigShape
<1>2. DispShape' /\ EnvShape'
  BY <1>1 DEF DispShape, EnvShape
<1>3. CASE disp[s] = "dfl"
  <2>1. frames' = frames /\ smask' = smask
    BY <1>3, Delivered
  <2>2. FrameShape'
    BY <1>1, <2>1, CallsSame
  <2> QED BY <1>1, <1>2, <1>3, <2>1, <2>2 DEF SigShape
<1>4. CASE disp[s] # "dfl"
  <2>1. disp[s] \in HandlersOf(sprog)
    BY <1>1, <1>4 DEF DispShape
  <2>2. /\ Sg!Top.at \in Nat /\ Sg!Top.at \in 1..Len(Sg!Code(Sg!Top.fn)) /\ Sg!Top = frames[Len(frames)]
        /\ Len(frames) \in Nat \ {0}
    BY <1>1, TopShape, TopCall DEF SigTypes
  <2>3. Sg!Top.asleep => Sg!Top = Base /\ Sg!Top.at + 1 \in 1..Len(Sg!Code(Sg!Top.fn)) /\ Len(frames) = 1
    <3>1. Sg!Top.asleep => Ins[1] \in Waiting /\ Sg!Top = Base /\ Len(frames) = 1
      BY <1>1, TopShape DEF FrameShape
    <3>2. Sg!Top.asleep => Sg!Top.at + 1 <= Len(Sg!Code(Sg!Top.fn))
      BY <1>1, <3>1, TopShape DEF Fits, Waiting
    <3>3. Len(Sg!Code(Sg!Top.fn)) \in Nat
      BY TopCall, CodeLen
    <3> QED BY <2>2, <3>1, <3>2, <3>3
  <2>4. PICK to, back :
          /\ Pushes(disp[s], to, back) /\ to \in 1..Len(Sg!Code(Sg!Top.fn))
          /\ back = IF Sg!Top.asleep THEN Sg!Top.mask ELSE smask
          /\ to = IF Sg!Top.asleep /\ (Ins[1] # "read" \/ s = "ALRM") THEN Sg!Top.at + 1 ELSE Sg!Top.at
          /\ smask' = smask \union {s}
    <3>1. /\ smask' = smask \union {s}
          /\ \/ /\ Sg!Top.asleep /\ (Ins[1] # "read" \/ s = "ALRM")
                /\ Pushes(disp[s], Sg!Top.at + 1, Sg!Top.mask)
             \/ /\ Sg!Top.asleep /\ Ins[1] = "read" /\ s # "ALRM"
                /\ Pushes(disp[s], Sg!Top.at, Sg!Top.mask)
             \/ ~Sg!Top.asleep /\ Pushes(disp[s], Sg!Top.at, smask)
      BY <1>4, Delivered
    <3>2. CASE Sg!Top.asleep /\ (Ins[1] # "read" \/ s = "ALRM") /\ Pushes(disp[s], Sg!Top.at + 1, Sg!Top.mask)
      BY <2>3, <3>1, <3>2
    <3>3. CASE Sg!Top.asleep /\ Ins[1] = "read" /\ s # "ALRM" /\ Pushes(disp[s], Sg!Top.at, Sg!Top.mask)
      BY <2>2, <3>1, <3>3
    <3>4. CASE ~Sg!Top.asleep /\ Pushes(disp[s], Sg!Top.at, smask)
      BY <2>2, <3>1, <3>4
    <3> QED BY <3>1, <3>2, <3>3, <3>4
  <2>5. /\ FrameShape' /\ Len(frames') = Len(frames) + 1
        /\ Len(frames) = 1 => Base'.at = to
        /\ Len(frames) > 1 => Base'.at = Base.at
        /\ ~Base'.asleep /\ BaseMask' = BaseMask
    BY <1>1, <2>1, <2>4, FramePushes
  <2>6. Base'.at = IF Base.asleep /\ (Ins[1] # "read" \/ s = "ALRM") THEN Base.at + 1 ELSE Base.at
    <3>1. CASE Len(frames) = 1
      BY <2>2, <2>4, <2>5, <3>1 DEF Base
    <3>2. CASE Len(frames) # 1
      <4>1. Len(frames) > 1
        <5>1. PICK l \in Nat \ {0} : l = Len(frames) /\ l # 1
          BY <2>2, <3>2
        <5>2. l > 1
          BY <5>1
        <5> QED BY <5>1, <5>2
      <4> QED BY <1>1, <2>5, <4>1 DEF FrameShape
    <3> QED BY <3>1, <3>2
  <2>7. PICK d \in Nat \ {0} : d = Len(frames)
    BY <2>2
  <2>8. /\ frames'[d + 1].fn = disp[s] /\ frames'[d + 1].at = 1 /\ frames'[d + 1].mask = back
        /\ frames'[d].fn = frames[d].fn /\ frames'[d].at = to /\ frames'[d].mask = frames[d].mask
        /\ \A k \in 1..d - 1 : frames'[k] = frames[k]
    BY <2>2, <2>4, <2>7 DEF Pushes, Call
  <2>9. ASSUME NEW k \in 2..d
        PROVE  frames'[k].fn = frames[k].fn /\ frames'[k].at = frames[k].at /\ frames'[k].mask = frames[k].mask
    <3>1. CASE k = d
      <4>1. ~Sg!Top.asleep
        BY <2>3, <2>7, <3>1
      <4> QED BY <2>2, <2>4, <2>7, <2>8, <3>1, <4>1
    <3>2. CASE k # d
      <4>1. k \in 1..d - 1
        BY <3>2
      <4> QED BY <2>8, <4>1
    <3> QED BY <3>1, <3>2
  <2>10. SigShape'
    BY <1>2, <2>5 DEF SigShape
  <2> QED BY <1>1, <1>4, <2>1, <2>4, <2>5, <2>6, <2>7, <2>8, <2>9, <2>10
<1> QED BY <1>3, <1>4

\* The calls after input.
LEMMA ShapeTyped ==
  ASSUME SigTypes, SigShape, Sg!Input
  PROVE  /\ SigTypes' /\ SigShape' /\ Len(frames) = 1 /\ Len(frames') = 1 /\ Base.asleep /\ Ins[1] = "read"
         /\ Sg!Top = Base
         /\ Base'.at = Base.at + 1 /\ ~Base'.asleep /\ BaseMask' = smask
<1>1. /\ SigTypes' /\ Sg!Top.asleep /\ Ins[1] = "read" /\ Moves(Sg!Top.at + 1)
      /\ UNCHANGED <<sprog, before, smask, disp, oldact, env>> /\ FrameShape /\ DispShape /\ EnvShape
  BY Typed DEF SigShape
<1>2. /\ Len(frames) = 1 /\ Sg!Top = Base /\ Sg!Top.at + 1 \in 1..Len(Sg!Code(Sg!Top.fn))
  <2>1. Sg!Top.at + 1 <= Len(Sg!Code(Sg!Top.fn)) /\ Sg!Top.at \in Nat /\ Len(Sg!Code(Sg!Top.fn)) \in Nat
    BY <1>1, TopShape, TopCall, CodeLen DEF Fits
  <2> QED BY <1>1, <2>1, TopShape
<1>3. FrameShape' /\ Base'.at = Sg!Top.at + 1 /\ ~Base'.asleep /\ BaseMask' = smask'
  BY <1>1, <1>2, FrameMoves
<1>4. DispShape' /\ EnvShape'
  BY <1>1 DEF DispShape, EnvShape
<1>5. Len(frames') = 1
  BY <1>1, <1>2 DEF Moves
<1> QED BY <1>1, <1>2, <1>3, <1>4, <1>5 DEF SigShape

\* Types and shape are kept, and so are the program and what it was called with.
LEMMA ShapeNext ==
  ASSUME SigTypes, SigShape, Sg!Next
  PROVE  SigTypes' /\ SigShape' /\ sprog' = sprog /\ before' = before
<1>1. sprog \in Sg!Programs /\ FrameShape /\ DispShape /\ EnvShape
  BY DEF SigShape, FrameShape
<1>2. ASSUME SigTypes', UNCHANGED <<frames, smask, sprog, before, disp, oldact, env>>
      PROVE  SigTypes' /\ SigShape' /\ sprog' = sprog /\ before' = before
  <2>1. FrameShape'
    BY <1>1, <1>2, CallsSame
  <2>2. DispShape' /\ EnvShape'
    BY <1>1, <1>2 DEF DispShape, EnvShape
  <2> QED BY <1>2, <2>1, <2>2 DEF SigShape
<1>3. CASE Sg!Step
  BY <1>3, ShapeStep, StepKinds
<1>4. CASE Sg!AlarmRings
  BY <1>2, <1>4, Rings
<1>5. CASE Sg!ChildEnds
  BY <1>2, <1>5, ChildDies
<1>6. CASE Sg!SendSignal
  BY <1>1, <1>2, <1>6, Posted
<1>7. CASE Sg!Input
  BY <1>7, ShapeTyped, Typed
<1>8. CASE Sg!Continue
  BY <1>2, <1>8, Resumes
<1>9. CASE Sg!Quiet
  <2>1. UNCHANGED Sg!vars
    BY <1>9 DEF Sg!Quiet
  <2>2. UNCHANGED <<frames, smask, sprog, before, disp, oldact, env>>
    BY <2>1 DEF Sg!vars
  <2>3. SigTypes'
    BY <2>1 DEF SigTypes, Sg!vars
  <2> QED BY <1>2, <2>2, <2>3
<1>10. ASSUME NEW s \in Sg!Sig, Sg!Deliver(s)
       PROVE  SigTypes' /\ SigShape' /\ sprog' = sprog /\ before' = before
  BY <1>10, ShapeDelivered, Delivered
<1> QED BY <1>3, <1>4, <1>5, <1>6, <1>7, <1>8, <1>9, <1>10 DEF Sg!Next

\* The program itself goes on, with no handler above it.
LEMMA BaseMoves ==
  ASSUME SigTypes, FrameShape, Len(frames) = 1, NEW to \in 1..Len(Sg!Code(sprog)), Moves(to), sprog' = sprog
  PROVE  Len(frames') = 1 /\ Base'.at = to /\ ~Base'.asleep /\ BaseMask' = smask'
<1>1. to \in 1..Len(Sg!Code(Sg!Top.fn))
  BY TopShape
<1> QED BY <1>1, FrameMoves DEF Moves

\* A step of the program itself.
LEMMA OwnStep ==
  ASSUME SigTypes, SigShape, Len(frames) = 1, Sg!Step
  PROVE  /\ FrameShape /\ Sg!Top = Base /\ Base.fn = sprog /\ Base.at \in 1..Len(Sg!Code(sprog))
         /\ ~Base.asleep /\ BaseMask = smask
<1>1. FrameShape /\ Live
  BY StepKinds DEF SigShape
<1>2. Sg!Top = Base /\ Base.fn = sprog /\ Base.at \in 1..Len(Sg!Code(sprog))
  BY <1>1, TopShape
<1> QED BY <1>1, <1>2 DEF Live, BaseMask

\* lib/sleep.c: the steps of sleep.
LEMMA SleepBase ==
  ASSUME SigTypes, SigShape, SleepInv, sprog = "sleep", Len(frames) = 1, Sg!Step
  PROVE  SleepInv'
<1>1. /\ SigTypes /\ SigShape /\ FrameShape /\ Sg!Step /\ sprog = "sleep" /\ Len(frames) = 1
      /\ Sg!Top = Base /\ Base.fn = "sleep" /\ Base.at \in 1..8 /\ ~Base.asleep /\ BaseMask = smask
      /\ oldact = before.disp
  BY OwnStep, SleepCode DEF SigShape, DispShape
<1>2. CASE Base.at = 1
  <2>1. Ins[1] = "signal" /\ Ins[2] = "ALRM" /\ Ins[3] = "return"
    BY <1>1, <1>2, SleepCode DEF Ins
  <2>2. "ALRM" \in Sg!Sig /\ "return" \in Acts
    BY DEF Sg!Sig, Acts, Handlers
  <2>3. Moves(2) /\ Live /\ disp' = [disp EXCEPT !["ALRM"] = "return"]
    BY <1>1, <1>2, <2>1, <2>2, DoSignal
  <2>4. UNCHANGED <<sprog, before, sst, smask, spend, oldmask, oldact, timer, flag, env, child,
                    status, halted, misjump>>
    BY <1>1, <1>2, <2>1, <2>2, DoSignal
  <2>5. Len(frames') = 1 /\ Base'.at = 2 /\ ~Base'.asleep /\ BaseMask' = smask'
    BY <1>1, <2>3, <2>4, BaseMoves, SleepCode
  <2>7. disp' = [before.disp EXCEPT !["ALRM"] = "return"]
    <3>1. disp = before.disp
      BY <1>1, <1>2 DEF SleepInv
    <3> QED BY <2>3, <3>1
  <2> QED BY <1>1, <1>2, <2>4, <2>5, <2>7 DEF SleepInv, Blocks
<1>3. CASE Base.at = 2
  <2>1. Ins[1] = "block" /\ Ins[2] = {"ALRM"}
    BY <1>1, <1>3, SleepCode DEF Ins
  <2>2. {"ALRM"} \in SUBSET Sg!Sig
    BY DEF Sg!Sig, Acts, Handlers
  <2>3. Moves(3) /\ Live /\ smask' = smask \union {"ALRM"} /\ oldmask' = smask
    BY <1>1, <1>3, <2>1, <2>2, DoBlock
  <2>4. UNCHANGED <<sprog, before, sst, spend, disp, oldact, timer, flag, env, child, status,
                    halted, misjump>>
    BY <1>1, <1>3, <2>1, <2>2, DoBlock
  <2>5. Len(frames') = 1 /\ Base'.at = 3 /\ ~Base'.asleep /\ BaseMask' = smask'
    BY <1>1, <2>3, <2>4, BaseMoves, SleepCode
  <2> QED BY <1>1, <1>3, <2>3, <2>4, <2>5 DEF SleepInv, Blocks
<1>4. CASE Base.at = 3
  <2>1. Ins[1] = "alarm"
    BY <1>1, <1>4, SleepCode DEF Ins
  <2>3. Moves(4) /\ Live /\ timer' = TRUE
    BY <1>1, <1>4, <2>1, DoAlarm
  <2>4. UNCHANGED <<sprog, before, sst, smask, spend, disp, oldmask, oldact, flag, env, child,
                    status, halted, misjump>>
    BY <1>1, <1>4, <2>1, DoAlarm
  <2>5. Len(frames') = 1 /\ Base'.at = 4 /\ ~Base'.asleep /\ BaseMask' = smask'
    BY <1>1, <2>3, <2>4, BaseMoves, SleepCode
  <2> QED BY <1>1, <1>4, <2>3, <2>4, <2>5 DEF SleepInv, Blocks
<1>5. CASE Base.at = 4
  <2>1. Ins[1] = "suspendold"
    BY <1>1, <1>5, SleepCode DEF Ins
  <2>3. Ins[1] \in Waiting /\ Dozes /\ smask' = oldmask \ {"ALRM"}
    BY <1>1, <2>1, DoWait DEF Waiting
  <2>4. UNCHANGED <<sprog, before, sst, spend, disp, oldmask, oldact, timer, flag, env, child,
                    status, halted, misjump>>
    BY <1>1, <2>1, DoWait DEF Waiting
  <2>5. Len(frames') = 1 /\ Base'.at = 4 /\ Base'.asleep /\ BaseMask' = smask
    BY <1>1, <1>5, <2>3, <2>4, FrameDozes
  <2> QED BY <1>1, <1>5, <2>3, <2>4, <2>5 DEF SleepInv, Blocks
<1>6. CASE Base.at = 5
  <2>1. Ins[1] = "alarm0"
    BY <1>1, <1>6, SleepCode DEF Ins
  <2>3. Moves(6) /\ Live /\ timer' = FALSE
    BY <1>1, <1>6, <2>1, DoAlarm0
  <2>4. UNCHANGED <<sprog, before, sst, smask, spend, disp, oldmask, oldact, flag, env, child,
                    status, halted, misjump>>
    BY <1>1, <1>6, <2>1, DoAlarm0
  <2>5. Len(frames') = 1 /\ Base'.at = 6 /\ ~Base'.asleep /\ BaseMask' = smask'
    BY <1>1, <2>3, <2>4, BaseMoves, SleepCode
  <2> QED BY <1>1, <1>6, <2>3, <2>4, <2>5 DEF SleepInv, Blocks
<1>7. CASE Base.at = 6
  <2>1. Ins[1] = "restore" /\ Ins[2] = "ALRM"
    BY <1>1, <1>7, SleepCode DEF Ins
  <2>2. "ALRM" \in Sg!Sig
    BY DEF Sg!Sig, Acts, Handlers
  <2>3. Moves(7) /\ Live /\ disp' = [disp EXCEPT !["ALRM"] = oldact["ALRM"]]
    BY <1>1, <1>7, <2>1, <2>2, DoRestore
  <2>4. UNCHANGED <<sprog, before, sst, smask, spend, oldmask, oldact, timer, flag, env, child,
                    status, halted, misjump>>
    BY <1>1, <1>7, <2>1, <2>2, DoRestore
  <2>5. Len(frames') = 1 /\ Base'.at = 7 /\ ~Base'.asleep /\ BaseMask' = smask'
    BY <1>1, <2>3, <2>4, BaseMoves, SleepCode
  <2>7. disp' = before.disp
    <3>1. disp = [before.disp EXCEPT !["ALRM"] = "return"] /\ before.disp \in [Sg!Sig -> Acts]
      BY <1>1, <1>7 DEF SleepInv, SigTypes
    <3> QED BY <1>1, <2>2, <2>3, <3>1
  <2> QED BY <1>1, <1>7, <2>4, <2>5, <2>7 DEF SleepInv, Blocks
<1>8. CASE Base.at = 7
  <2>1. Ins[1] = "setmask"
    BY <1>1, <1>8, SleepCode DEF Ins
  <2>3. Moves(8) /\ Live /\ smask' = oldmask
    BY <1>1, <1>8, <2>1, DoSetMask
  <2>4. UNCHANGED <<sprog, before, sst, spend, disp, oldmask, oldact, timer, flag, env, child,
                    status, halted, misjump>>
    BY <1>1, <1>8, <2>1, DoSetMask
  <2>5. Len(frames') = 1 /\ Base'.at = 8 /\ ~Base'.asleep /\ BaseMask' = smask'
    BY <1>1, <2>3, <2>4, BaseMoves, SleepCode
  <2> QED BY <1>1, <1>8, <2>3, <2>4, <2>5 DEF SleepInv, Blocks
<1>9. CASE Base.at = 8
  <2>1. Ins[1] = "exit"
    BY <1>1, <1>9, SleepCode DEF Ins
  <2>3. Live /\ frames' = frames /\ sst' = "exited" /\ smask' = smask
    BY <1>1, <2>1, DoExit
  <2>4. UNCHANGED <<sprog, before, smask, spend, disp, oldmask, oldact, timer, flag, env, child,
                    status, halted, misjump>>
    BY <1>1, <2>1, DoExit
  <2>5. Len(frames') = 1 /\ Base' = Base /\ BaseMask' = BaseMask
    BY <1>1, <2>3, <2>4, CallsSame
  <2> QED BY <1>1, <1>9, <2>3, <2>4, <2>5 DEF SleepInv, Blocks
<1> QED BY <1>1, <1>2, <1>3, <1>4, <1>5, <1>6, <1>7, <1>8, <1>9

\* signals/suspend1.c: its own steps.
LEMMA Suspend1Base ==
  ASSUME SigTypes, SigShape, Suspend1Inv, sprog = "suspend1", Len(frames) = 1, Sg!Step
  PROVE  Suspend1Inv'
<1>1. /\ SigTypes /\ SigShape /\ FrameShape /\ Sg!Step /\ sprog = "suspend1" /\ Len(frames) = 1
      /\ Sg!Top = Base /\ Base.fn = "suspend1" /\ Base.at \in 1..5 /\ ~Base.asleep /\ BaseMask = smask
      /\ oldact = before.disp
  BY OwnStep, Suspend1Code DEF SigShape, DispShape
<1>2. CASE Base.at = 1
  <2>1. Ins[1] = "signal" /\ Ins[2] = "INT" /\ Ins[3] = "return"
    BY <1>1, <1>2, Suspend1Code DEF Ins
  <2>2. "INT" \in Sg!Sig /\ "return" \in Acts
    BY DEF Sg!Sig, Acts, Handlers
  <2>3. Moves(2) /\ Live /\ disp' = [disp EXCEPT !["INT"] = "return"]
    BY <1>1, <1>2, <2>1, <2>2, DoSignal
  <2>4. UNCHANGED <<sprog, before, sst, smask, spend, oldmask, oldact, timer, flag, env, child,
                    status, halted, misjump>>
    BY <1>1, <1>2, <2>1, <2>2, DoSignal
  <2>5. Len(frames') = 1 /\ Base'.at = 2 /\ ~Base'.asleep /\ BaseMask' = smask'
    BY <1>1, <2>3, <2>4, BaseMoves, Suspend1Code
  <2>6. disp'["INT"] = "return" /\ (\A r \in Sg!Sig \ {"INT"} : disp'[r] = disp[r])
    BY <1>1, <2>2, <2>3 DEF SigTypes
  <2> QED BY <1>1, <1>2, <2>3, <2>4, <2>5, <2>6 DEF Suspend1Inv, Blocks
<1>3. CASE Base.at = 2
  <2>1. Ins[1] = "block" /\ Ins[2] = {"INT"}
    BY <1>1, <1>3, Suspend1Code DEF Ins
  <2>2. {"INT"} \in SUBSET Sg!Sig
    BY DEF Sg!Sig, Acts, Handlers
  <2>3. Moves(3) /\ Live /\ smask' = smask \union {"INT"} /\ oldmask' = smask
    BY <1>1, <1>3, <2>1, <2>2, DoBlock
  <2>4. UNCHANGED <<sprog, before, sst, spend, disp, oldact, timer, flag, env, child, status,
                    halted, misjump>>
    BY <1>1, <1>3, <2>1, <2>2, DoBlock
  <2>5. Len(frames') = 1 /\ Base'.at = 3 /\ ~Base'.asleep /\ BaseMask' = smask'
    BY <1>1, <2>3, <2>4, BaseMoves, Suspend1Code
  <2> QED BY <1>1, <1>3, <2>3, <2>4, <2>5 DEF Suspend1Inv, Blocks
<1>4. CASE Base.at = 3
  <2>1. Ins[1] = "suspend" /\ Ins[2] = {"USR1"}
    BY <1>1, <1>4, Suspend1Code DEF Ins
  <2>2. Ins[2] \in SUBSET Sg!Sig
    BY <2>1 DEF Sg!Sig
  <2>3. Ins[1] \in Waiting /\ Dozes /\ smask' = {"USR1"}
    BY <1>1, <2>1, <2>2, DoWait DEF Waiting
  <2>4. UNCHANGED <<sprog, before, sst, spend, disp, oldmask, oldact, timer, flag, env, child,
                    status, halted, misjump>>
    BY <1>1, <2>1, <2>2, DoWait DEF Waiting
  <2>5. Len(frames') = 1 /\ Base'.at = 3 /\ Base'.asleep /\ BaseMask' = smask
    BY <1>1, <1>4, <2>3, <2>4, FrameDozes
  <2> QED BY <1>1, <1>4, <2>3, <2>4, <2>5 DEF Suspend1Inv, Blocks
<1>5. CASE Base.at = 4
  <2>1. Ins[1] = "setmask"
    BY <1>1, <1>5, Suspend1Code DEF Ins
  <2>3. Moves(5) /\ Live /\ smask' = oldmask
    BY <1>1, <1>5, <2>1, DoSetMask
  <2>4. UNCHANGED <<sprog, before, sst, spend, disp, oldmask, oldact, timer, flag, env, child,
                    status, halted, misjump>>
    BY <1>1, <1>5, <2>1, DoSetMask
  <2>5. Len(frames') = 1 /\ Base'.at = 5 /\ ~Base'.asleep /\ BaseMask' = smask'
    BY <1>1, <2>3, <2>4, BaseMoves, Suspend1Code
  <2> QED BY <1>1, <1>5, <2>3, <2>4, <2>5 DEF Suspend1Inv, Blocks
<1>6. CASE Base.at = 5
  <2>1. Ins[1] = "exit"
    BY <1>1, <1>6, Suspend1Code DEF Ins
  <2>3. Live /\ frames' = frames /\ sst' = "exited" /\ smask' = smask
    BY <1>1, <2>1, DoExit
  <2>4. UNCHANGED <<sprog, before, smask, spend, disp, oldmask, oldact, timer, flag, env, child,
                    status, halted, misjump>>
    BY <1>1, <2>1, DoExit
  <2>5. Len(frames') = 1 /\ Base' = Base /\ BaseMask' = BaseMask
    BY <1>1, <2>3, <2>4, CallsSame
  <2> QED BY <1>1, <1>6, <2>3, <2>4, <2>5 DEF Suspend1Inv, Blocks
<1> QED BY <1>1, <1>2, <1>3, <1>4, <1>5, <1>6

\* signals/suspend2.c: its own steps.
LEMMA Suspend2Base ==
  ASSUME SigTypes, SigShape, Suspend2Inv, sprog = "suspend2", Len(frames) = 1, Sg!Step
  PROVE  Suspend2Inv'
<1>1. /\ SigTypes /\ SigShape /\ FrameShape /\ Sg!Step /\ sprog = "suspend2" /\ Len(frames) = 1
      /\ Sg!Top = Base /\ Base.fn = "suspend2" /\ Base.at \in 1..9 /\ ~Base.asleep /\ BaseMask = smask
      /\ oldact = before.disp
  BY OwnStep, Suspend2Code DEF SigShape, DispShape
<1>2. CASE Base.at = 1
  <2>1. Ins[1] = "signal" /\ Ins[2] = "INT" /\ Ins[3] = "return"
    BY <1>1, <1>2, Suspend2Code DEF Ins
  <2>2. "INT" \in Sg!Sig /\ "return" \in Acts
    BY DEF Sg!Sig, Acts, Handlers
  <2>3. Moves(2) /\ Live /\ disp' = [disp EXCEPT !["INT"] = "return"]
    BY <1>1, <1>2, <2>1, <2>2, DoSignal
  <2>4. UNCHANGED <<sprog, before, sst, smask, spend, oldmask, oldact, timer, flag, env, child,
                    status, halted, misjump>>
    BY <1>1, <1>2, <2>1, <2>2, DoSignal
  <2>5. Len(frames') = 1 /\ Base'.at = 2 /\ ~Base'.asleep /\ BaseMask' = smask'
    BY <1>1, <2>3, <2>4, BaseMoves, Suspend2Code
  <2>6. disp'["INT"] = "return" /\ (\A r \in Sg!Sig \ {"INT"} : disp'[r] = disp[r])
    BY <1>1, <2>2, <2>3 DEF SigTypes
  <2> QED BY <1>1, <1>2, <2>3, <2>4, <2>5, <2>6 DEF Suspend2Inv, Blocks
<1>3. CASE Base.at = 2
  <2>1. Ins[1] = "signal" /\ Ins[2] = "QUIT" /\ Ins[3] = "quitflag"
    BY <1>1, <1>3, Suspend2Code DEF Ins
  <2>2. "QUIT" \in Sg!Sig /\ "quitflag" \in Acts
    BY DEF Sg!Sig, Acts, Handlers
  <2>3. Moves(3) /\ Live /\ disp' = [disp EXCEPT !["QUIT"] = "quitflag"]
    BY <1>1, <1>3, <2>1, <2>2, DoSignal
  <2>4. UNCHANGED <<sprog, before, sst, smask, spend, oldmask, oldact, timer, flag, env, child,
                    status, halted, misjump>>
    BY <1>1, <1>3, <2>1, <2>2, DoSignal
  <2>5. Len(frames') = 1 /\ Base'.at = 3 /\ ~Base'.asleep /\ BaseMask' = smask'
    BY <1>1, <2>3, <2>4, BaseMoves, Suspend2Code
  <2>6. disp'["QUIT"] = "quitflag" /\ (\A r \in Sg!Sig \ {"QUIT"} : disp'[r] = disp[r])
    BY <1>1, <2>2, <2>3 DEF SigTypes
  <2> QED BY <1>1, <1>3, <2>3, <2>4, <2>5, <2>6 DEF Suspend2Inv, Blocks
<1>4. CASE Base.at = 3
  <2>1. Ins[1] = "block" /\ Ins[2] = {"QUIT"}
    BY <1>1, <1>4, Suspend2Code DEF Ins
  <2>2. {"QUIT"} \in SUBSET Sg!Sig
    BY DEF Sg!Sig, Acts, Handlers
  <2>3. Moves(4) /\ Live /\ smask' = smask \union {"QUIT"} /\ oldmask' = smask
    BY <1>1, <1>4, <2>1, <2>2, DoBlock
  <2>4. UNCHANGED <<sprog, before, sst, spend, disp, oldact, timer, flag, env, child, status,
                    halted, misjump>>
    BY <1>1, <1>4, <2>1, <2>2, DoBlock
  <2>5. Len(frames') = 1 /\ Base'.at = 4 /\ ~Base'.asleep /\ BaseMask' = smask'
    BY <1>1, <2>3, <2>4, BaseMoves, Suspend2Code
  <2> QED BY <1>1, <1>4, <2>3, <2>4, <2>5 DEF Suspend2Inv, Blocks
<1>5. CASE Base.at = 4
  <2>1. Ins[1] = "ifset" /\ Ins[2] = 7
    BY <1>1, <1>5, Suspend2Code DEF Ins
  <2>2. 7 \in Nat /\ flag \in {0, 1}
    BY DEF SigTypes
  <2>3. ((flag = 1 /\ Moves(7)) \/ (flag = 0 /\ Moves(5)))
    BY <1>1, <1>5, <2>1, <2>2, DoBranch
  <2>4. UNCHANGED <<sprog, before, sst, smask, spend, disp, oldmask, oldact, timer, flag, env,
                    child, status, halted, misjump>>
    BY <1>1, <2>1, DoBranch
  <2>5. /\ Len(frames') = 1 /\ ~Base'.asleep /\ BaseMask' = smask'
        /\ ((flag = 1 /\ Base'.at = 7) \/ (flag = 0 /\ Base'.at = 5))
    BY <1>1, <2>3, <2>4, BaseMoves, Suspend2Code
  <2> QED BY <1>1, <1>5, <2>4, <2>5 DEF Suspend2Inv, Blocks
<1>6. CASE Base.at = 5
  <2>1. Ins[1] = "suspend" /\ Ins[2] = {}
    BY <1>1, <1>6, Suspend2Code DEF Ins
  <2>2. Ins[2] \in SUBSET Sg!Sig
    BY <2>1 DEF Sg!Sig
  <2>3. Ins[1] \in Waiting /\ Dozes /\ smask' = {}
    BY <1>1, <2>1, <2>2, DoWait DEF Waiting
  <2>4. UNCHANGED <<sprog, before, sst, spend, disp, oldmask, oldact, timer, flag, env, child,
                    status, halted, misjump>>
    BY <1>1, <2>1, <2>2, DoWait DEF Waiting
  <2>5. Len(frames') = 1 /\ Base'.at = 5 /\ Base'.asleep /\ BaseMask' = smask
    BY <1>1, <1>6, <2>3, <2>4, FrameDozes
  <2> QED BY <1>1, <1>6, <2>3, <2>4, <2>5 DEF Suspend2Inv, Blocks
<1>7. CASE Base.at = 6
  <2>1. Ins[1] = "goto" /\ Ins[2] = 4
    BY <1>1, <1>7, Suspend2Code DEF Ins
  <2>2. 4 \in Nat /\ flag \in {0, 1}
    BY DEF SigTypes
  <2>3. Moves(4)
    BY <1>1, <1>7, <2>1, <2>2, DoBranch
  <2>4. UNCHANGED <<sprog, before, sst, smask, spend, disp, oldmask, oldact, timer, flag, env,
                    child, status, halted, misjump>>
    BY <1>1, <2>1, DoBranch
  <2>5. /\ Len(frames') = 1 /\ ~Base'.asleep /\ BaseMask' = smask'
        /\ Base'.at = 4
    BY <1>1, <2>3, <2>4, BaseMoves, Suspend2Code
  <2> QED BY <1>1, <1>7, <2>4, <2>5 DEF Suspend2Inv, Blocks
<1>8. CASE Base.at = 7
  <2>1. Ins[1] = "flag" /\ Ins[2] = 0
    BY <1>1, <1>8, Suspend2Code DEF Ins
  <2>2. 0 \in {0, 1}
    BY DEF Sg!Sig, Acts, Handlers
  <2>3. Moves(8) /\ Live /\ flag' = 0
    BY <1>1, <1>8, <2>1, <2>2, DoFlag
  <2>4. UNCHANGED <<sprog, before, sst, smask, spend, disp, oldmask, oldact, timer, env, child,
                    status, halted, misjump>>
    BY <1>1, <1>8, <2>1, <2>2, DoFlag
  <2>5. Len(frames') = 1 /\ Base'.at = 8 /\ ~Base'.asleep /\ BaseMask' = smask'
    BY <1>1, <2>3, <2>4, BaseMoves, Suspend2Code
  <2> QED BY <1>1, <1>8, <2>3, <2>4, <2>5 DEF Suspend2Inv, Blocks
<1>9. CASE Base.at = 8
  <2>1. Ins[1] = "setmask"
    BY <1>1, <1>9, Suspend2Code DEF Ins
  <2>3. Moves(9) /\ Live /\ smask' = oldmask
    BY <1>1, <1>9, <2>1, DoSetMask
  <2>4. UNCHANGED <<sprog, before, sst, spend, disp, oldmask, oldact, timer, flag, env, child,
                    status, halted, misjump>>
    BY <1>1, <1>9, <2>1, DoSetMask
  <2>5. Len(frames') = 1 /\ Base'.at = 9 /\ ~Base'.asleep /\ BaseMask' = smask'
    BY <1>1, <2>3, <2>4, BaseMoves, Suspend2Code
  <2> QED BY <1>1, <1>9, <2>3, <2>4, <2>5 DEF Suspend2Inv, Blocks
<1>10. CASE Base.at = 9
  <2>1. Ins[1] = "exit"
    BY <1>1, <1>10, Suspend2Code DEF Ins
  <2>3. Live /\ frames' = frames /\ sst' = "exited" /\ smask' = smask
    BY <1>1, <2>1, DoExit
  <2>4. UNCHANGED <<sprog, before, smask, spend, disp, oldmask, oldact, timer, flag, env, child,
                    status, halted, misjump>>
    BY <1>1, <2>1, DoExit
  <2>5. Len(frames') = 1 /\ Base' = Base /\ BaseMask' = BaseMask
    BY <1>1, <2>3, <2>4, CallsSame
  <2> QED BY <1>1, <1>10, <2>3, <2>4, <2>5 DEF Suspend2Inv, Blocks
<1> QED BY <1>1, <1>2, <1>3, <1>4, <1>5, <1>6, <1>7, <1>8, <1>9, <1>10

\* signals/mask.c: its own steps.
LEMMA MaskBase ==
  ASSUME SigTypes, SigShape, MaskInv, sprog = "mask", Len(frames) = 1, Sg!Step
  PROVE  MaskInv'
<1>1. /\ SigTypes /\ SigShape /\ FrameShape /\ Sg!Step /\ sprog = "mask" /\ Len(frames) = 1
      /\ Sg!Top = Base /\ Base.fn = "mask" /\ Base.at \in 1..7 /\ ~Base.asleep /\ BaseMask = smask
      /\ oldact = before.disp
  BY OwnStep, MaskCode DEF SigShape, DispShape
<1>2. CASE Base.at = 1
  <2>1. Ins[1] = "signal" /\ Ins[2] = "USR1" /\ Ins[3] = "sig_usr1"
    BY <1>1, <1>2, MaskCode DEF Ins
  <2>2. "USR1" \in Sg!Sig /\ "sig_usr1" \in Acts
    BY DEF Sg!Sig, Acts, Handlers
  <2>3. Moves(2) /\ Live /\ disp' = [disp EXCEPT !["USR1"] = "sig_usr1"]
    BY <1>1, <1>2, <2>1, <2>2, DoSignal
  <2>4. UNCHANGED <<sprog, before, sst, smask, spend, oldmask, oldact, timer, flag, env, child,
                    status, halted, misjump>>
    BY <1>1, <1>2, <2>1, <2>2, DoSignal
  <2>5. Len(frames') = 1 /\ Base'.at = 2 /\ ~Base'.asleep /\ BaseMask' = smask'
    BY <1>1, <2>3, <2>4, BaseMoves, MaskCode
  <2>6. disp'["USR1"] = "sig_usr1" /\ (\A r \in Sg!Sig \ {"USR1"} : disp'[r] = disp[r])
    BY <1>1, <2>2, <2>3 DEF SigTypes
  <2> QED BY <1>1, <1>2, <2>3, <2>4, <2>5, <2>6 DEF MaskInv, Blocks
<1>3. CASE Base.at = 2
  <2>1. Ins[1] = "signal" /\ Ins[2] = "ALRM" /\ Ins[3] = "return"
    BY <1>1, <1>3, MaskCode DEF Ins
  <2>2. "ALRM" \in Sg!Sig /\ "return" \in Acts
    BY DEF Sg!Sig, Acts, Handlers
  <2>3. Moves(3) /\ Live /\ disp' = [disp EXCEPT !["ALRM"] = "return"]
    BY <1>1, <1>3, <2>1, <2>2, DoSignal
  <2>4. UNCHANGED <<sprog, before, sst, smask, spend, oldmask, oldact, timer, flag, env, child,
                    status, halted, misjump>>
    BY <1>1, <1>3, <2>1, <2>2, DoSignal
  <2>5. Len(frames') = 1 /\ Base'.at = 3 /\ ~Base'.asleep /\ BaseMask' = smask'
    BY <1>1, <2>3, <2>4, BaseMoves, MaskCode
  <2>6. disp'["ALRM"] = "return" /\ (\A r \in Sg!Sig \ {"ALRM"} : disp'[r] = disp[r])
    BY <1>1, <2>2, <2>3 DEF SigTypes
  <2> QED BY <1>1, <1>3, <2>3, <2>4, <2>5, <2>6 DEF MaskInv, Blocks
<1>4. CASE Base.at = 3
  <2>1. Ins[1] = "setjmp" /\ Ins[2] = 7
    BY <1>1, <1>4, MaskCode DEF Ins
  <2>3. Moves(4) /\ env' # <<>> /\ env'[1].at = 7
    BY <1>1, <1>4, <2>1, DoSetJmp
  <2>4. UNCHANGED <<sprog, before, sst, smask, spend, disp, oldmask, oldact, timer, flag, child,
                    status, halted, misjump>>
    BY <1>1, <2>1, DoSetJmp
  <2>5. Len(frames') = 1 /\ Base'.at = 4 /\ ~Base'.asleep /\ BaseMask' = smask'
    BY <1>1, <2>3, <2>4, BaseMoves, MaskCode
  <2> QED BY <1>1, <1>4, <2>3, <2>4, <2>5 DEF MaskInv, Blocks
<1>5. CASE Base.at = 4
  <2>1. Ins[1] = "flag" /\ Ins[2] = 1
    BY <1>1, <1>5, MaskCode DEF Ins
  <2>2. 1 \in {0, 1}
    BY DEF Sg!Sig, Acts, Handlers
  <2>3. Moves(5) /\ Live /\ flag' = 1
    BY <1>1, <1>5, <2>1, <2>2, DoFlag
  <2>4. UNCHANGED <<sprog, before, sst, smask, spend, disp, oldmask, oldact, timer, env, child,
                    status, halted, misjump>>
    BY <1>1, <1>5, <2>1, <2>2, DoFlag
  <2>5. Len(frames') = 1 /\ Base'.at = 5 /\ ~Base'.asleep /\ BaseMask' = smask'
    BY <1>1, <2>3, <2>4, BaseMoves, MaskCode
  <2> QED BY <1>1, <1>5, <2>3, <2>4, <2>5 DEF MaskInv, Blocks
<1>6. CASE Base.at = 5
  <2>1. Ins[1] = "pause"
    BY <1>1, <1>6, MaskCode DEF Ins
  <2>3. Ins[1] \in Waiting /\ Dozes /\ smask' = smask
    BY <1>1, <2>1, DoWait DEF Waiting
  <2>4. UNCHANGED <<sprog, before, sst, spend, disp, oldmask, oldact, timer, flag, env, child,
                    status, halted, misjump>>
    BY <1>1, <2>1, DoWait DEF Waiting
  <2>5. Len(frames') = 1 /\ Base'.at = 5 /\ Base'.asleep /\ BaseMask' = smask
    BY <1>1, <1>6, <2>3, <2>4, FrameDozes
  <2> QED BY <1>1, <1>6, <2>3, <2>4, <2>5 DEF MaskInv, Blocks
<1>7. CASE Base.at = 6
  <2>1. Ins[1] = "goto" /\ Ins[2] = 5
    BY <1>1, <1>7, MaskCode DEF Ins
  <2>2. 5 \in Nat /\ flag \in {0, 1}
    BY DEF SigTypes
  <2>3. Moves(5)
    BY <1>1, <1>7, <2>1, <2>2, DoBranch
  <2>4. UNCHANGED <<sprog, before, sst, smask, spend, disp, oldmask, oldact, timer, flag, env,
                    child, status, halted, misjump>>
    BY <1>1, <2>1, DoBranch
  <2>5. /\ Len(frames') = 1 /\ ~Base'.asleep /\ BaseMask' = smask'
        /\ Base'.at = 5
    BY <1>1, <2>3, <2>4, BaseMoves, MaskCode
  <2> QED BY <1>1, <1>7, <2>4, <2>5 DEF MaskInv, Blocks
<1>8. CASE Base.at = 7
  <2>1. Ins[1] = "exit"
    BY <1>1, <1>8, MaskCode DEF Ins
  <2>3. Live /\ frames' = frames /\ sst' = "exited" /\ smask' = smask
    BY <1>1, <2>1, DoExit
  <2>4. UNCHANGED <<sprog, before, smask, spend, disp, oldmask, oldact, timer, flag, env, child,
                    status, halted, misjump>>
    BY <1>1, <2>1, DoExit
  <2>5. Len(frames') = 1 /\ Base' = Base /\ BaseMask' = BaseMask
    BY <1>1, <2>3, <2>4, CallsSame
  <2> QED BY <1>1, <1>8, <2>3, <2>4, <2>5 DEF MaskInv, Blocks
<1> QED BY <1>1, <1>2, <1>3, <1>4, <1>5, <1>6, <1>7, <1>8

\* signals/sigtstp.c: its own steps.
LEMMA StopBase ==
  ASSUME SigTypes, SigShape, StopInv, sprog = "sigtstp", Len(frames) = 1, Sg!Step
  PROVE  StopInv'
<1>1. /\ SigTypes /\ SigShape /\ FrameShape /\ Sg!Step /\ sprog = "sigtstp" /\ Len(frames) = 1
      /\ Sg!Top = Base /\ Base.fn = "sigtstp" /\ Base.at \in 1..4 /\ ~Base.asleep /\ BaseMask = smask
      /\ oldact = before.disp
  BY OwnStep, StopCode DEF SigShape, DispShape
<1>2. CASE Base.at = 1
  <2>1. Ins[1] = "signal" /\ Ins[2] = "TSTP" /\ Ins[3] = "ign"
    BY <1>1, <1>2, StopCode DEF Ins
  <2>2. "TSTP" \in Sg!Sig /\ "ign" \in Acts
    BY DEF Sg!Sig, Acts, Handlers
  <2>3. Moves(2) /\ Live /\ disp' = [disp EXCEPT !["TSTP"] = "ign"]
    BY <1>1, <1>2, <2>1, <2>2, DoSignal
  <2>4. UNCHANGED <<sprog, before, sst, smask, spend, oldmask, oldact, timer, flag, env, child,
                    status, halted, misjump>>
    BY <1>1, <1>2, <2>1, <2>2, DoSignal
  <2>5. Len(frames') = 1 /\ Base'.at = 2 /\ ~Base'.asleep /\ BaseMask' = smask'
    BY <1>1, <2>3, <2>4, BaseMoves, StopCode
  <2>6. disp'["TSTP"] = "ign" /\ (\A r \in Sg!Sig \ {"TSTP"} : disp'[r] = disp[r])
    BY <1>1, <2>2, <2>3 DEF SigTypes
  <2> QED BY <1>1, <1>2, <2>3, <2>4, <2>5, <2>6 DEF StopInv, Blocks
<1>3. CASE Base.at = 2
  <2>1. Ins[1] = "catch" /\ Ins[2] = "TSTP" /\ Ins[3] = "sig_tstp"
    BY <1>1, <1>3, StopCode DEF Ins
  <2>2. "TSTP" \in Sg!Sig /\ "sig_tstp" \in Acts
    BY DEF Sg!Sig, Acts, Handlers
  <2>3. Moves(3) /\ Live
        /\ disp' = [disp EXCEPT !["TSTP"] = IF oldact["TSTP"] = "dfl" THEN "sig_tstp" ELSE disp["TSTP"]]
    BY <1>1, <1>3, <2>1, <2>2, DoCatch
  <2>4. UNCHANGED <<sprog, before, sst, smask, spend, oldmask, oldact, timer, flag, env, child,
                    status, halted, misjump>>
    BY <1>1, <1>3, <2>1, <2>2, DoCatch
  <2>5. Len(frames') = 1 /\ Base'.at = 3 /\ ~Base'.asleep /\ BaseMask' = smask'
    BY <1>1, <2>3, <2>4, BaseMoves, StopCode
  <2>6. disp'["TSTP"] = (IF oldact["TSTP"] = "dfl" THEN "sig_tstp" ELSE disp["TSTP"])
        /\ (\A r \in Sg!Sig \ {"TSTP"} : disp'[r] = disp[r])
    BY <1>1, <2>2, <2>3 DEF SigTypes
  <2> QED BY <1>1, <1>3, <2>3, <2>4, <2>5, <2>6 DEF StopInv, Blocks
<1>4. CASE Base.at = 3
  <2>1. Ins[1] = "read"
    BY <1>1, <1>4, StopCode DEF Ins
  <2>3. Ins[1] \in Waiting /\ Dozes /\ smask' = smask
    BY <1>1, <2>1, DoWait DEF Waiting
  <2>4. UNCHANGED <<sprog, before, sst, spend, disp, oldmask, oldact, timer, flag, env, child,
                    status, halted, misjump>>
    BY <1>1, <2>1, DoWait DEF Waiting
  <2>5. Len(frames') = 1 /\ Base'.at = 3 /\ Base'.asleep /\ BaseMask' = smask
    BY <1>1, <1>4, <2>3, <2>4, FrameDozes
  <2> QED BY <1>1, <1>4, <2>3, <2>4, <2>5 DEF StopInv, Blocks
<1>5. CASE Base.at = 4
  <2>1. Ins[1] = "exit"
    BY <1>1, <1>5, StopCode DEF Ins
  <2>3. Live /\ frames' = frames /\ sst' = "exited" /\ smask' = smask
    BY <1>1, <2>1, DoExit
  <2>4. UNCHANGED <<sprog, before, smask, spend, disp, oldmask, oldact, timer, flag, env, child,
                    status, halted, misjump>>
    BY <1>1, <2>1, DoExit
  <2>5. Len(frames') = 1 /\ Base' = Base /\ BaseMask' = BaseMask
    BY <1>1, <2>3, <2>4, CallsSame
  <2> QED BY <1>1, <1>5, <2>3, <2>4, <2>5 DEF StopInv, Blocks
<1> QED BY <1>1, <1>2, <1>3, <1>4, <1>5

\* signals/abort.c: its steps.
LEMMA AbortBase ==
  ASSUME SigTypes, SigShape, AbortInv, sprog = "abort", Len(frames) = 1, Sg!Step
  PROVE  AbortInv'
<1>1. /\ SigTypes /\ SigShape /\ FrameShape /\ Sg!Step /\ sprog = "abort" /\ Len(frames) = 1
      /\ Sg!Top = Base /\ Base.fn = "abort" /\ Base.at \in 1..7 /\ ~Base.asleep /\ BaseMask = smask
      /\ oldact = before.disp
  BY OwnStep, AbortCode DEF SigShape, DispShape
<1>2. CASE Base.at = 1
  <2>1. Ins[1] = "unignore" /\ Ins[2] = "ABRT"
    BY <1>1, <1>2, AbortCode DEF Ins
  <2>2. "ABRT" \in Sg!Sig
    BY DEF Sg!Sig, Acts, Handlers
  <2>3. Moves(2) /\ Live
        /\ disp' = [disp EXCEPT !["ABRT"] = IF disp["ABRT"] = "ign" THEN "dfl" ELSE disp["ABRT"]]
    BY <1>1, <1>2, <2>1, <2>2, DoUnignore
  <2>4. UNCHANGED <<sprog, before, sst, smask, spend, oldmask, oldact, timer, flag, env, child,
                    status, halted, misjump>>
    BY <1>1, <1>2, <2>1, <2>2, DoUnignore
  <2>5. Len(frames') = 1 /\ Base'.at = 2 /\ ~Base'.asleep /\ BaseMask' = smask'
    BY <1>1, <2>3, <2>4, BaseMoves, AbortCode
  <2>6. disp'["ABRT"] = (IF disp["ABRT"] = "ign" THEN "dfl" ELSE disp["ABRT"])
        /\ (\A r \in Sg!Sig \ {"ABRT"} : disp'[r] = disp[r])
    BY <1>1, <2>2, <2>3 DEF SigTypes
  <2> QED BY <1>1, <1>2, <2>3, <2>4, <2>5, <2>6 DEF AbortInv, Live, Sg!Deliverable
<1>3. CASE Base.at = 2
  <2>1. Ins[1] = "mask" /\ Ins[2] = Sg!Sig \ {"ABRT"}
    BY <1>1, <1>3, AbortCode DEF Ins
  <2>2. PICK x \in SUBSET Sg!Sig : x = Sg!Sig \ {"ABRT"}
    BY DEF Sg!Sig, Acts, Handlers
  <2>21. Moves(Sg!Top.at + 1) /\ Live /\ smask' = x
    BY <1>1, <2>1, <2>2, DoMask
  <2>3. Moves(3) /\ Live /\ smask' = Sg!Sig \ {"ABRT"}
    BY <1>1, <1>3, <2>1, <2>2, <2>21, DoMask
  <2>4. UNCHANGED <<sprog, before, sst, spend, disp, oldmask, oldact, timer, flag, env, child,
                    status, halted, misjump>>
    BY <1>1, <1>3, <2>1, <2>2, <2>21, DoMask
  <2>5. Len(frames') = 1 /\ Base'.at = 3 /\ ~Base'.asleep /\ BaseMask' = smask'
    BY <1>1, <2>3, <2>4, BaseMoves, AbortCode
  <2> QED BY <1>1, <1>3, <2>3, <2>4, <2>5 DEF AbortInv, Live, Sg!Deliverable
<1>4. CASE Base.at = 3
  <2>1. Ins[1] = "kill" /\ Ins[2] = "ABRT"
    BY <1>1, <1>4, AbortCode DEF Ins
  <2>2. PICK x \in Sg!Sig : x = "ABRT"
    BY DEF Sg!Sig, Acts, Handlers
  <2>21. Moves(Sg!Top.at + 1) /\ Live /\ halted' = FALSE
         /\ spend' = IF disp[x] # "ign" THEN spend \union {x} ELSE spend
    BY <1>1, <2>1, <2>2, DoKill
  <2>3. Moves(4) /\ Live /\ halted' = FALSE
        /\ spend' = IF disp["ABRT"] # "ign" THEN spend \union {"ABRT"} ELSE spend
    BY <1>1, <1>4, <2>1, <2>2, <2>21, DoKill
  <2>4. UNCHANGED <<sprog, before, sst, smask, disp, oldmask, oldact, timer, flag, env, child,
                    status, misjump>>
    BY <1>1, <1>4, <2>1, <2>2, <2>21, DoKill
  <2>5. Len(frames') = 1 /\ Base'.at = 4 /\ ~Base'.asleep /\ BaseMask' = smask'
    BY <1>1, <2>3, <2>4, BaseMoves, AbortCode
  <2> QED BY <1>1, <1>4, <2>3, <2>4, <2>5 DEF AbortInv, Live, Sg!Deliverable
<1>5. CASE Base.at = 4
  <2>1. Ins[1] = "signal" /\ Ins[2] = "ABRT" /\ Ins[3] = "dfl"
    BY <1>1, <1>5, AbortCode DEF Ins
  <2>2. "ABRT" \in Sg!Sig /\ "dfl" \in Acts
    BY DEF Sg!Sig, Acts, Handlers
  <2>3. Moves(5) /\ Live /\ disp' = [disp EXCEPT !["ABRT"] = "dfl"]
    BY <1>1, <1>5, <2>1, <2>2, DoSignal
  <2>4. UNCHANGED <<sprog, before, sst, smask, spend, oldmask, oldact, timer, flag, env, child,
                    status, halted, misjump>>
    BY <1>1, <1>5, <2>1, <2>2, DoSignal
  <2>5. Len(frames') = 1 /\ Base'.at = 5 /\ ~Base'.asleep /\ BaseMask' = smask'
    BY <1>1, <2>3, <2>4, BaseMoves, AbortCode
  <2>6. disp'["ABRT"] = "dfl" /\ (\A r \in Sg!Sig \ {"ABRT"} : disp'[r] = disp[r])
    BY <1>1, <2>2, <2>3 DEF SigTypes
  <2> QED BY <1>1, <1>5, <2>3, <2>4, <2>5, <2>6 DEF AbortInv, Live, Sg!Deliverable
<1>6. CASE Base.at = 5
  <2>1. Ins[1] = "mask" /\ Ins[2] = Sg!Sig \ {"ABRT"}
    BY <1>1, <1>6, AbortCode DEF Ins
  <2>2. PICK x \in SUBSET Sg!Sig : x = Sg!Sig \ {"ABRT"}
    BY DEF Sg!Sig, Acts, Handlers
  <2>21. Moves(Sg!Top.at + 1) /\ Live /\ smask' = x
    BY <1>1, <2>1, <2>2, DoMask
  <2>3. Moves(6) /\ Live /\ smask' = Sg!Sig \ {"ABRT"}
    BY <1>1, <1>6, <2>1, <2>2, <2>21, DoMask
  <2>4. UNCHANGED <<sprog, before, sst, spend, disp, oldmask, oldact, timer, flag, env, child,
                    status, halted, misjump>>
    BY <1>1, <1>6, <2>1, <2>2, <2>21, DoMask
  <2>5. Len(frames') = 1 /\ Base'.at = 6 /\ ~Base'.asleep /\ BaseMask' = smask'
    BY <1>1, <2>3, <2>4, BaseMoves, AbortCode
  <2> QED BY <1>1, <1>6, <2>3, <2>4, <2>5 DEF AbortInv, Live, Sg!Deliverable
<1>7. CASE Base.at = 6
  <2>1. Ins[1] = "kill" /\ Ins[2] = "ABRT"
    BY <1>1, <1>7, AbortCode DEF Ins
  <2>2. PICK x \in Sg!Sig : x = "ABRT"
    BY DEF Sg!Sig, Acts, Handlers
  <2>21. Moves(Sg!Top.at + 1) /\ Live /\ halted' = FALSE
         /\ spend' = IF disp[x] # "ign" THEN spend \union {x} ELSE spend
    BY <1>1, <2>1, <2>2, DoKill
  <2>3. Moves(7) /\ Live /\ halted' = FALSE
        /\ spend' = IF disp["ABRT"] # "ign" THEN spend \union {"ABRT"} ELSE spend
    BY <1>1, <1>7, <2>1, <2>2, <2>21, DoKill
  <2>4. UNCHANGED <<sprog, before, sst, smask, disp, oldmask, oldact, timer, flag, env, child,
                    status, misjump>>
    BY <1>1, <1>7, <2>1, <2>2, <2>21, DoKill
  <2>5. Len(frames') = 1 /\ Base'.at = 7 /\ ~Base'.asleep /\ BaseMask' = smask'
    BY <1>1, <2>3, <2>4, BaseMoves, AbortCode
  <2> QED BY <1>1, <1>7, <2>3, <2>4, <2>5 DEF AbortInv, Live, Sg!Deliverable
<1>8. CASE Base.at = 7
  <2>1. Ins[1] = "exit"
    BY <1>1, <1>8, AbortCode DEF Ins
  <2>3. Live /\ frames' = frames /\ sst' = "exited" /\ smask' = smask
    BY <1>1, <2>1, DoExit
  <2>4. UNCHANGED <<sprog, before, smask, spend, disp, oldmask, oldact, timer, flag, env, child,
                    status, halted, misjump>>
    BY <1>1, <2>1, DoExit
  <2>5. Len(frames') = 1 /\ Base' = Base /\ BaseMask' = BaseMask
    BY <1>1, <2>3, <2>4, CallsSame
  <2> QED BY <1>1, <1>8, <2>3, <2>4, <2>5 DEF AbortInv, Live, Sg!Deliverable
<1> QED BY <1>1, <1>2, <1>3, <1>4, <1>5, <1>6, <1>7, <1>8

\* signals/system.c: its own steps.
LEMMA SystemBase ==
  ASSUME SigTypes, SigShape, SystemInv, sprog = "system", Len(frames) = 1, Sg!Step
  PROVE  SystemInv'
<1>1. /\ SigTypes /\ SigShape /\ FrameShape /\ Sg!Step /\ sprog = "system" /\ Len(frames) = 1
      /\ Sg!Top = Base /\ Base.fn = "system" /\ Base.at \in 1..9 /\ ~Base.asleep /\ BaseMask = smask
      /\ oldact = before.disp
  BY OwnStep, SystemCode DEF SigShape, DispShape
<1>2. CASE Base.at = 1
  <2>1. Ins[1] = "signal" /\ Ins[2] = "INT" /\ Ins[3] = "ign"
    BY <1>1, <1>2, SystemCode DEF Ins
  <2>2. "INT" \in Sg!Sig /\ "ign" \in Acts
    BY DEF Sg!Sig, Acts, Handlers
  <2>3. Moves(2) /\ Live /\ disp' = [disp EXCEPT !["INT"] = "ign"]
    BY <1>1, <1>2, <2>1, <2>2, DoSignal
  <2>4. UNCHANGED <<sprog, before, sst, smask, spend, oldmask, oldact, timer, flag, env, child,
                    status, halted, misjump>>
    BY <1>1, <1>2, <2>1, <2>2, DoSignal
  <2>5. Len(frames') = 1 /\ Base'.at = 2 /\ ~Base'.asleep /\ BaseMask' = smask'
    BY <1>1, <2>3, <2>4, BaseMoves, SystemCode
  <2>6. disp'["INT"] = "ign" /\ (\A r \in Sg!Sig \ {"INT"} : disp'[r] = disp[r])
    BY <1>1, <2>2, <2>3 DEF SigTypes
  <2> QED BY <1>1, <1>2, <2>3, <2>4, <2>5, <2>6 DEF SystemInv, Blocks
<1>3. CASE Base.at = 2
  <2>1. Ins[1] = "signal" /\ Ins[2] = "QUIT" /\ Ins[3] = "ign"
    BY <1>1, <1>3, SystemCode DEF Ins
  <2>2. "QUIT" \in Sg!Sig /\ "ign" \in Acts
    BY DEF Sg!Sig, Acts, Handlers
  <2>3. Moves(3) /\ Live /\ disp' = [disp EXCEPT !["QUIT"] = "ign"]
    BY <1>1, <1>3, <2>1, <2>2, DoSignal
  <2>4. UNCHANGED <<sprog, before, sst, smask, spend, oldmask, oldact, timer, flag, env, child,
                    status, halted, misjump>>
    BY <1>1, <1>3, <2>1, <2>2, DoSignal
  <2>5. Len(frames') = 1 /\ Base'.at = 3 /\ ~Base'.asleep /\ BaseMask' = smask'
    BY <1>1, <2>3, <2>4, BaseMoves, SystemCode
  <2>6. disp'["QUIT"] = "ign" /\ (\A r \in Sg!Sig \ {"QUIT"} : disp'[r] = disp[r])
    BY <1>1, <2>2, <2>3 DEF SigTypes
  <2> QED BY <1>1, <1>3, <2>3, <2>4, <2>5, <2>6 DEF SystemInv, Blocks
<1>4. CASE Base.at = 3
  <2>1. Ins[1] = "block" /\ Ins[2] = {"CHLD"}
    BY <1>1, <1>4, SystemCode DEF Ins
  <2>2. {"CHLD"} \in SUBSET Sg!Sig
    BY DEF Sg!Sig, Acts, Handlers
  <2>3. Moves(4) /\ Live /\ smask' = smask \union {"CHLD"} /\ oldmask' = smask
    BY <1>1, <1>4, <2>1, <2>2, DoBlock
  <2>4. UNCHANGED <<sprog, before, sst, spend, disp, oldact, timer, flag, env, child, status,
                    halted, misjump>>
    BY <1>1, <1>4, <2>1, <2>2, DoBlock
  <2>5. Len(frames') = 1 /\ Base'.at = 4 /\ ~Base'.asleep /\ BaseMask' = smask'
    BY <1>1, <2>3, <2>4, BaseMoves, SystemCode
  <2> QED BY <1>1, <1>4, <2>3, <2>4, <2>5 DEF SystemInv, Blocks
<1>5. CASE Base.at = 4
  <2>1. Ins[1] = "fork"
    BY <1>1, <1>5, SystemCode DEF Ins
  <2>3. (Moves(5) /\ child' = "runs" /\ status' = status) \/ (Moves(6) /\ child' = child /\ status' = "nofork")
    <3>1. 5 = Base.at + 1 /\ 6 = Base.at + 2
      BY <1>5
    <3>2. (Moves(Sg!Top.at + 1) /\ child' = "runs" /\ status' = status) \/ (Moves(Sg!Top.at + 2) /\ child' = child /\ status' = "nofork")
      BY <1>1, <2>1, DoFork
    <3> QED BY <1>1, <3>1, <3>2
  <2>4. UNCHANGED <<sprog, before, sst, smask, spend, disp, oldmask, oldact, timer, flag, env,
                    halted, misjump>>
    BY <1>1, <2>1, DoFork
  <2>5. /\ Len(frames') = 1 /\ ~Base'.asleep /\ BaseMask' = smask'
        /\ ((Base'.at = 5 /\ child' = "runs" /\ status' = status) \/ (Base'.at = 6 /\ child' = child /\ status' = "nofork"))
    BY <1>1, <2>3, <2>4, BaseMoves, SystemCode
  <2> QED BY <1>1, <1>5, <2>4, <2>5 DEF SystemInv, Blocks
<1>6. CASE Base.at = 5
  <2>1. Ins[1] = "waitpid"
    BY <1>1, <1>6, SystemCode DEF Ins
  <2>3. Moves(6) /\ child # "runs" /\ child' = "reaped" /\ (child = "zombie" => status' = "ok")
    BY <1>1, <1>6, <2>1, DoWaitChild
  <2>4. UNCHANGED <<sprog, before, sst, smask, spend, disp, oldmask, oldact, timer, flag, env,
                    halted, misjump>>
    BY <1>1, <2>1, DoWaitChild
  <2>5. Len(frames') = 1 /\ Base'.at = 6 /\ ~Base'.asleep /\ BaseMask' = smask'
    BY <1>1, <2>3, <2>4, BaseMoves, SystemCode
  <2> QED BY <1>1, <1>6, <2>3, <2>4, <2>5 DEF SystemInv, Blocks
<1>7. CASE Base.at = 6
  <2>1. Ins[1] = "restore" /\ Ins[2] = "INT"
    BY <1>1, <1>7, SystemCode DEF Ins
  <2>2. "INT" \in Sg!Sig
    BY DEF Sg!Sig, Acts, Handlers
  <2>3. Moves(7) /\ Live /\ disp' = [disp EXCEPT !["INT"] = oldact["INT"]]
    BY <1>1, <1>7, <2>1, <2>2, DoRestore
  <2>4. UNCHANGED <<sprog, before, sst, smask, spend, oldmask, oldact, timer, flag, env, child,
                    status, halted, misjump>>
    BY <1>1, <1>7, <2>1, <2>2, DoRestore
  <2>5. Len(frames') = 1 /\ Base'.at = 7 /\ ~Base'.asleep /\ BaseMask' = smask'
    BY <1>1, <2>3, <2>4, BaseMoves, SystemCode
  <2>6. disp'["INT"] = oldact["INT"] /\ (\A r \in Sg!Sig \ {"INT"} : disp'[r] = disp[r])
    BY <1>1, <2>2, <2>3 DEF SigTypes
  <2> QED BY <1>1, <1>7, <2>3, <2>4, <2>5, <2>6 DEF SystemInv, Blocks
<1>8. CASE Base.at = 7
  <2>1. Ins[1] = "restore" /\ Ins[2] = "QUIT"
    BY <1>1, <1>8, SystemCode DEF Ins
  <2>2. "QUIT" \in Sg!Sig
    BY DEF Sg!Sig, Acts, Handlers
  <2>3. Moves(8) /\ Live /\ disp' = [disp EXCEPT !["QUIT"] = oldact["QUIT"]]
    BY <1>1, <1>8, <2>1, <2>2, DoRestore
  <2>4. UNCHANGED <<sprog, before, sst, smask, spend, oldmask, oldact, timer, flag, env, child,
                    status, halted, misjump>>
    BY <1>1, <1>8, <2>1, <2>2, DoRestore
  <2>5. Len(frames') = 1 /\ Base'.at = 8 /\ ~Base'.asleep /\ BaseMask' = smask'
    BY <1>1, <2>3, <2>4, BaseMoves, SystemCode
  <2>6. disp'["QUIT"] = oldact["QUIT"] /\ (\A r \in Sg!Sig \ {"QUIT"} : disp'[r] = disp[r])
    BY <1>1, <2>2, <2>3 DEF SigTypes
  <2> QED BY <1>1, <1>8, <2>3, <2>4, <2>5, <2>6 DEF SystemInv, Blocks
<1>9. CASE Base.at = 8
  <2>1. Ins[1] = "setmask"
    BY <1>1, <1>9, SystemCode DEF Ins
  <2>3. Moves(9) /\ Live /\ smask' = oldmask
    BY <1>1, <1>9, <2>1, DoSetMask
  <2>4. UNCHANGED <<sprog, before, sst, spend, disp, oldmask, oldact, timer, flag, env, child,
                    status, halted, misjump>>
    BY <1>1, <1>9, <2>1, DoSetMask
  <2>5. Len(frames') = 1 /\ Base'.at = 9 /\ ~Base'.asleep /\ BaseMask' = smask'
    BY <1>1, <2>3, <2>4, BaseMoves, SystemCode
  <2> QED BY <1>1, <1>9, <2>3, <2>4, <2>5 DEF SystemInv, Blocks
<1>10. CASE Base.at = 9
  <2>1. Ins[1] = "exit"
    BY <1>1, <1>10, SystemCode DEF Ins
  <2>3. Live /\ frames' = frames /\ sst' = "exited" /\ smask' = smask
    BY <1>1, <2>1, DoExit
  <2>4. UNCHANGED <<sprog, before, smask, spend, disp, oldmask, oldact, timer, flag, env, child,
                    status, halted, misjump>>
    BY <1>1, <2>1, DoExit
  <2>5. Len(frames') = 1 /\ Base' = Base /\ BaseMask' = BaseMask
    BY <1>1, <2>3, <2>4, CallsSame
  <2> QED BY <1>1, <1>10, <2>3, <2>4, <2>5 DEF SystemInv, Blocks
<1> QED BY <1>1, <1>2, <1>3, <1>4, <1>5, <1>6, <1>7, <1>8, <1>9, <1>10

\* signals/sleep2.c: its own steps.
LEMMA Sleep2Base ==
  ASSUME SigTypes, SigShape, JumpInv, sprog = "sleep2", Len(frames) = 1, Sg!Step
  PROVE  JumpInv'
<1>1. /\ SigTypes /\ SigShape /\ FrameShape /\ Sg!Step /\ sprog = "sleep2" /\ Len(frames) = 1
      /\ Sg!Top = Base /\ Base.fn = "sleep2" /\ Base.at \in 1..6 /\ ~Base.asleep /\ BaseMask = smask
      /\ oldact = before.disp
  BY OwnStep, Sleep2Code DEF SigShape, DispShape
<1>2. CASE Base.at = 1
  <2>1. Ins[1] = "signal" /\ Ins[2] = "ALRM" /\ Ins[3] = "longjmp"
    BY <1>1, <1>2, Sleep2Code DEF Ins
  <2>2. "ALRM" \in Sg!Sig /\ "longjmp" \in Acts
    BY DEF Sg!Sig, Acts, Handlers
  <2>3. Moves(2) /\ Live /\ disp' = [disp EXCEPT !["ALRM"] = "longjmp"]
    BY <1>1, <1>2, <2>1, <2>2, DoSignal
  <2>4. UNCHANGED <<sprog, before, sst, smask, spend, oldmask, oldact, timer, flag, env, child,
                    status, halted, misjump>>
    BY <1>1, <1>2, <2>1, <2>2, DoSignal
  <2>5. Len(frames') = 1 /\ Base'.at = 2 /\ ~Base'.asleep /\ BaseMask' = smask'
    BY <1>1, <2>3, <2>4, BaseMoves, Sleep2Code
  <2>6. disp'["ALRM"] = "longjmp" /\ (\A r \in Sg!Sig \ {"ALRM"} : disp'[r] = disp[r])
    BY <1>1, <2>2, <2>3 DEF SigTypes
  <2> QED BY <1>1, <1>2, <2>3, <2>4, <2>5, <2>6 DEF JumpInv, Blocks
<1>3. CASE Base.at = 2
  <2>1. Ins[1] = "setjmp" /\ Ins[2] = 5
    BY <1>1, <1>3, Sleep2Code DEF Ins
  <2>3. Moves(3) /\ env' # <<>> /\ env'[1].at = 5
    BY <1>1, <1>3, <2>1, DoSetJmp
  <2>4. UNCHANGED <<sprog, before, sst, smask, spend, disp, oldmask, oldact, timer, flag, child,
                    status, halted, misjump>>
    BY <1>1, <2>1, DoSetJmp
  <2>5. Len(frames') = 1 /\ Base'.at = 3 /\ ~Base'.asleep /\ BaseMask' = smask'
    BY <1>1, <2>3, <2>4, BaseMoves, Sleep2Code
  <2> QED BY <1>1, <1>3, <2>3, <2>4, <2>5 DEF JumpInv, Blocks
<1>4. CASE Base.at = 3
  <2>1. Ins[1] = "alarm"
    BY <1>1, <1>4, Sleep2Code DEF Ins
  <2>3. Moves(4) /\ Live /\ timer' = TRUE
    BY <1>1, <1>4, <2>1, DoAlarm
  <2>4. UNCHANGED <<sprog, before, sst, smask, spend, disp, oldmask, oldact, flag, env, child,
                    status, halted, misjump>>
    BY <1>1, <1>4, <2>1, DoAlarm
  <2>5. Len(frames') = 1 /\ Base'.at = 4 /\ ~Base'.asleep /\ BaseMask' = smask'
    BY <1>1, <2>3, <2>4, BaseMoves, Sleep2Code
  <2> QED BY <1>1, <1>4, <2>3, <2>4, <2>5 DEF JumpInv, Blocks
<1>5. CASE Base.at = 4
  <2>1. Ins[1] = "pause"
    BY <1>1, <1>5, Sleep2Code DEF Ins
  <2>3. Ins[1] \in Waiting /\ Dozes /\ smask' = smask
    BY <1>1, <2>1, DoWait DEF Waiting
  <2>4. UNCHANGED <<sprog, before, sst, spend, disp, oldmask, oldact, timer, flag, env, child,
                    status, halted, misjump>>
    BY <1>1, <2>1, DoWait DEF Waiting
  <2>5. Len(frames') = 1 /\ Base'.at = 4 /\ Base'.asleep /\ BaseMask' = smask
    BY <1>1, <1>5, <2>3, <2>4, FrameDozes
  <2> QED BY <1>1, <1>5, <2>3, <2>4, <2>5 DEF JumpInv, Blocks
<1>6. CASE Base.at = 5
  <2>1. Ins[1] = "alarm0"
    BY <1>1, <1>6, Sleep2Code DEF Ins
  <2>3. Moves(6) /\ Live /\ timer' = FALSE
    BY <1>1, <1>6, <2>1, DoAlarm0
  <2>4. UNCHANGED <<sprog, before, sst, smask, spend, disp, oldmask, oldact, flag, env, child,
                    status, halted, misjump>>
    BY <1>1, <1>6, <2>1, DoAlarm0
  <2>5. Len(frames') = 1 /\ Base'.at = 6 /\ ~Base'.asleep /\ BaseMask' = smask'
    BY <1>1, <2>3, <2>4, BaseMoves, Sleep2Code
  <2> QED BY <1>1, <1>6, <2>3, <2>4, <2>5 DEF JumpInv, Blocks
<1>7. CASE Base.at = 6
  <2>1. Ins[1] = "exit"
    BY <1>1, <1>7, Sleep2Code DEF Ins
  <2>3. Live /\ frames' = frames /\ sst' = "exited" /\ smask' = smask
    BY <1>1, <2>1, DoExit
  <2>4. UNCHANGED <<sprog, before, smask, spend, disp, oldmask, oldact, timer, flag, env, child,
                    status, halted, misjump>>
    BY <1>1, <2>1, DoExit
  <2>5. Len(frames') = 1 /\ Base' = Base /\ BaseMask' = BaseMask
    BY <1>1, <2>3, <2>4, CallsSame
  <2> QED BY <1>1, <1>7, <2>3, <2>4, <2>5 DEF JumpInv, Blocks
<1> QED BY <1>1, <1>2, <1>3, <1>4, <1>5, <1>6, <1>7

\* signals/read2.c: its own steps.
LEMMA Read2Base ==
  ASSUME SigTypes, SigShape, JumpInv, sprog = "read2", Len(frames) = 1, Sg!Step
  PROVE  JumpInv'
<1>1. /\ SigTypes /\ SigShape /\ FrameShape /\ Sg!Step /\ sprog = "read2" /\ Len(frames) = 1
      /\ Sg!Top = Base /\ Base.fn = "read2" /\ Base.at \in 1..6 /\ ~Base.asleep /\ BaseMask = smask
      /\ oldact = before.disp
  BY OwnStep, Read2Code DEF SigShape, DispShape
<1>2. CASE Base.at = 1
  <2>1. Ins[1] = "signal" /\ Ins[2] = "ALRM" /\ Ins[3] = "longjmp"
    BY <1>1, <1>2, Read2Code DEF Ins
  <2>2. "ALRM" \in Sg!Sig /\ "longjmp" \in Acts
    BY DEF Sg!Sig, Acts, Handlers
  <2>3. Moves(2) /\ Live /\ disp' = [disp EXCEPT !["ALRM"] = "longjmp"]
    BY <1>1, <1>2, <2>1, <2>2, DoSignal
  <2>4. UNCHANGED <<sprog, before, sst, smask, spend, oldmask, oldact, timer, flag, env, child,
                    status, halted, misjump>>
    BY <1>1, <1>2, <2>1, <2>2, DoSignal
  <2>5. Len(frames') = 1 /\ Base'.at = 2 /\ ~Base'.asleep /\ BaseMask' = smask'
    BY <1>1, <2>3, <2>4, BaseMoves, Read2Code
  <2>6. disp'["ALRM"] = "longjmp" /\ (\A r \in Sg!Sig \ {"ALRM"} : disp'[r] = disp[r])
    BY <1>1, <2>2, <2>3 DEF SigTypes
  <2> QED BY <1>1, <1>2, <2>3, <2>4, <2>5, <2>6 DEF JumpInv, Blocks
<1>3. CASE Base.at = 2
  <2>1. Ins[1] = "setjmp" /\ Ins[2] = 6
    BY <1>1, <1>3, Read2Code DEF Ins
  <2>3. Moves(3) /\ env' # <<>> /\ env'[1].at = 6
    BY <1>1, <1>3, <2>1, DoSetJmp
  <2>4. UNCHANGED <<sprog, before, sst, smask, spend, disp, oldmask, oldact, timer, flag, child,
                    status, halted, misjump>>
    BY <1>1, <2>1, DoSetJmp
  <2>5. Len(frames') = 1 /\ Base'.at = 3 /\ ~Base'.asleep /\ BaseMask' = smask'
    BY <1>1, <2>3, <2>4, BaseMoves, Read2Code
  <2> QED BY <1>1, <1>3, <2>3, <2>4, <2>5 DEF JumpInv, Blocks
<1>4. CASE Base.at = 3
  <2>1. Ins[1] = "alarm"
    BY <1>1, <1>4, Read2Code DEF Ins
  <2>3. Moves(4) /\ Live /\ timer' = TRUE
    BY <1>1, <1>4, <2>1, DoAlarm
  <2>4. UNCHANGED <<sprog, before, sst, smask, spend, disp, oldmask, oldact, flag, env, child,
                    status, halted, misjump>>
    BY <1>1, <1>4, <2>1, DoAlarm
  <2>5. Len(frames') = 1 /\ Base'.at = 4 /\ ~Base'.asleep /\ BaseMask' = smask'
    BY <1>1, <2>3, <2>4, BaseMoves, Read2Code
  <2> QED BY <1>1, <1>4, <2>3, <2>4, <2>5 DEF JumpInv, Blocks
<1>5. CASE Base.at = 4
  <2>1. Ins[1] = "read"
    BY <1>1, <1>5, Read2Code DEF Ins
  <2>3. Ins[1] \in Waiting /\ Dozes /\ smask' = smask
    BY <1>1, <2>1, DoWait DEF Waiting
  <2>4. UNCHANGED <<sprog, before, sst, spend, disp, oldmask, oldact, timer, flag, env, child,
                    status, halted, misjump>>
    BY <1>1, <2>1, DoWait DEF Waiting
  <2>5. Len(frames') = 1 /\ Base'.at = 4 /\ Base'.asleep /\ BaseMask' = smask
    BY <1>1, <1>5, <2>3, <2>4, FrameDozes
  <2> QED BY <1>1, <1>5, <2>3, <2>4, <2>5 DEF JumpInv, Blocks
<1>6. CASE Base.at = 5
  <2>1. Ins[1] = "alarm0"
    BY <1>1, <1>6, Read2Code DEF Ins
  <2>3. Moves(6) /\ Live /\ timer' = FALSE
    BY <1>1, <1>6, <2>1, DoAlarm0
  <2>4. UNCHANGED <<sprog, before, sst, smask, spend, disp, oldmask, oldact, flag, env, child,
                    status, halted, misjump>>
    BY <1>1, <1>6, <2>1, DoAlarm0
  <2>5. Len(frames') = 1 /\ Base'.at = 6 /\ ~Base'.asleep /\ BaseMask' = smask'
    BY <1>1, <2>3, <2>4, BaseMoves, Read2Code
  <2> QED BY <1>1, <1>6, <2>3, <2>4, <2>5 DEF JumpInv, Blocks
<1>7. CASE Base.at = 6
  <2>1. Ins[1] = "exit"
    BY <1>1, <1>7, Read2Code DEF Ins
  <2>3. Live /\ frames' = frames /\ sst' = "exited" /\ smask' = smask
    BY <1>1, <2>1, DoExit
  <2>4. UNCHANGED <<sprog, before, smask, spend, disp, oldmask, oldact, timer, flag, env, child,
                    status, halted, misjump>>
    BY <1>1, <2>1, DoExit
  <2>5. Len(frames') = 1 /\ Base' = Base /\ BaseMask' = BaseMask
    BY <1>1, <2>3, <2>4, CallsSame
  <2> QED BY <1>1, <1>7, <2>3, <2>4, <2>5 DEF JumpInv, Blocks
<1> QED BY <1>1, <1>2, <1>3, <1>4, <1>5, <1>6, <1>7

\* A step of a handler.
LEMMA HandlerStep ==
  ASSUME SigTypes, SigShape, Len(frames) > 1, Sg!Step
  PROVE  /\ FrameShape /\ Live /\ Sg!Top = frames[Len(frames)] /\ Sg!Top.fn \in HandlersOf(sprog)
         /\ Sg!Top.at \in 1..Len(Sg!Code(Sg!Top.fn)) /\ ~Base.asleep /\ Len(frames) \in Nat /\ Len(frames) # 1
<1>1. FrameShape /\ Live
  BY StepKinds DEF SigShape
<1>2. PICK d \in Nat : d = Len(frames) /\ d > 1 /\ d # 1
  BY DEF SigTypes
<1>3. Sg!Top = frames[Len(frames)] /\ Sg!Top.fn \in HandlersOf(sprog)
      /\ Sg!Top.at \in 1..Len(Sg!Code(Sg!Top.fn))
  BY <1>1, <1>2, TopShape, TopCall
<1> QED BY <1>1, <1>2, <1>3 DEF FrameShape

\* A handler returns: what was blocked below stays blocked.
LEMMA RetStep ==
  ASSUME SigTypes, SigShape, Len(frames) > 1, Sg!Step, Ins[1] = "ret"
  PROVE  /\ Live /\ Len(frames') = Len(frames) - 1 /\ Base' = Base /\ ~Base'.asleep /\ BaseMask' = BaseMask
         /\ smask' = frames[Len(frames)].mask /\ (\A k \in 1..Len(frames) - 1 : frames'[k] = frames[k])
         /\ \A s \in Sg!Sig : Blocks(s) => Blocks(s)'
         /\ UNCHANGED <<sprog, before, sst, spend, disp, oldmask, oldact, timer, flag, env, child,
                        status, halted, misjump>>
<1>1. /\ Live /\ Pops /\ smask' = Sg!Top.mask
      /\ UNCHANGED <<sprog, before, sst, spend, disp, oldmask, oldact, timer, flag, env, child,
                     status, halted, misjump>>
  BY DoRet
<1>2. FrameShape /\ Sg!Top = frames[Len(frames)]
  BY HandlerStep
<1>3. Len(frames') = Len(frames) - 1 /\ Base' = Base /\ ~Base'.asleep /\ BaseMask' = BaseMask
  BY <1>1, <1>2, FramePops
<1>4. \A k \in 1..Len(frames) - 1 : frames'[k] = frames[k]
  BY <1>1 DEF Pops
<1>5. ASSUME NEW s \in Sg!Sig, Blocks(s) PROVE Blocks(s)'
  <2>1. PICK d \in Nat : d = Len(frames) /\ d > 1
    BY DEF SigTypes
  <2>2. s \in frames[d].mask
    BY <1>5, <2>1 DEF Blocks
  <2>3. \A k \in 2..d - 1 : s \in frames'[k].mask
    BY <1>4, <1>5, <2>1 DEF Blocks
  <2> QED BY <1>1, <1>2, <1>3, <2>1, <2>2, <2>3 DEF Blocks
<1> QED BY <1>1, <1>2, <1>3, <1>4, <1>5

\* A handler goes on.
LEMMA UpMoves ==
  ASSUME SigTypes, SigShape, Len(frames) > 1, Sg!Step, NEW to \in 1..Len(Sg!Code(Sg!Top.fn)), Moves(to)
  PROVE  /\ Len(frames') = Len(frames) /\ Base' = Base /\ BaseMask' = BaseMask
         /\ \A k \in 1..Len(frames) : frames'[k].fn = frames[k].fn /\ frames'[k].mask = frames[k].mask
         /\ \A k \in 1..Len(frames) - 1 : frames'[k].at = frames[k].at
         /\ frames'[Len(frames)].at = to
         /\ \A s \in Sg!Sig : Blocks(s) /\ s \in smask' => Blocks(s)'
<1>1. PICK d \in Nat \ {0} : d = Len(frames) /\ Sg!Top = frames[d] /\ d > 1
  BY TopCall DEF SigTypes
<1>2. /\ Len(frames') = d /\ (\A k \in 1..d - 1 : frames'[k] = frames[k])
      /\ frames'[d].fn = frames[d].fn /\ frames'[d].at = to /\ frames'[d].mask = frames[d].mask
  BY <1>1 DEF Moves, Call
<1>3. Base' = Base /\ BaseMask' = BaseMask
  <2>1. FrameShape /\ sprog' = sprog
    BY HandlerStep, StepKinds
  <2> QED BY <1>1, <2>1, FrameMoves
<1>4. ASSUME NEW k \in 1..d PROVE frames'[k].fn = frames[k].fn /\ frames'[k].mask = frames[k].mask
  <2>1. CASE k = d
    BY <1>2, <2>1
  <2>2. CASE k # d
    <3>1. k \in 1..d - 1
      BY <2>2
    <3> QED BY <1>2, <3>1
  <2> QED BY <2>1, <2>2
<1>5. \A s \in Sg!Sig : Blocks(s) /\ s \in smask' => Blocks(s)'
  <2> SUFFICES ASSUME NEW s \in Sg!Sig, Blocks(s), s \in smask' PROVE Blocks(s)'
    OBVIOUS
  <2>1. ASSUME NEW k \in 2..d PROVE s \in frames'[k].mask
    <3>1. k \in 1..d /\ s \in frames[k].mask
      BY <1>1 DEF Blocks
    <3> QED BY <1>4, <3>1
  <2> QED BY <1>2, <2>1 DEF Blocks
<1> QED BY <1>1, <1>2, <1>3, <1>4, <1>5

\* What is blocked stays blocked when a handler is called.
LEMMA BlocksKept ==
  ASSUME SigTypes, SigShape, NEW s \in Sg!Sig, Sg!Deliver(s), ~Base.asleep, NEW r \in Sg!Sig, Blocks(r)
  PROVE  Blocks(r)' /\ r # s /\ (r \in spend => r \in spend')
<1>1. /\ s \notin smask /\ spend' = spend \ {s} /\ r \in smask
  BY Delivered DEF Blocks
<1>2. CASE disp[s] = "dfl"
  <2>1. frames' = frames /\ smask' = smask
    BY <1>2, ShapeDelivered
  <2> QED BY <1>1, <2>1 DEF Blocks
<1>3. CASE disp[s] # "dfl"
  <2>1. PICK d \in Nat \ {0} : d = Len(frames)
    BY DEF SigTypes
  <2>2. ~Sg!Top.asleep
    BY TopShape DEF SigShape
  <2>3. /\ smask' = smask \union {s} /\ Len(frames') = d + 1 /\ frames'[d + 1].mask = smask
        /\ \A k \in 2..d : frames'[k].mask = frames[k].mask
    BY <1>3, <2>1, <2>2, ShapeDelivered
  <2>4. ASSUME NEW k \in 2..d + 1 PROVE r \in frames'[k].mask
    <3>1. CASE k = d + 1
      BY <1>1, <2>3, <3>1
    <3>2. CASE k # d + 1
      <4>1. k \in 2..d
        BY <3>2
      <4> QED BY <2>1, <2>3, <4>1 DEF Blocks
    <3> QED BY <3>1, <3>2
  <2> QED BY <1>1, <2>3, <2>4 DEF Blocks
<1> QED BY <1>2, <1>3

\* Where sleep waits.
LEMMA SleepWaits ==
  ASSUME SigTypes, SigShape, sprog = "sleep", Base.asleep
  PROVE  Base.at = 4 /\ Ins[1] = "suspendold" /\ Len(frames) = 1
<1>1. /\ Len(frames) = 1 /\ Sg!Top = Base /\ Base.fn = "sleep" /\ Base.at \in 1..8 /\ Ins[1] \in Waiting
  <2>1. FrameShape /\ Len(frames) \in Nat \ {0} /\ ~(Len(frames) > 1)
    BY DEF SigShape, FrameShape, SigTypes
  <2>2. Len(frames) = 1 /\ Sg!Top = Base /\ Base.fn = "sleep"
    BY <2>1, TopShape
  <2>3. Base.at \in 1..8 /\ Ins[1] \in Waiting
    BY <2>1, <2>2, TopShape, SleepCode DEF FrameShape
  <2> QED BY <2>2, <2>3
<1>2. Ins = Sg!Code("sleep")[Base.at]
  BY <1>1 DEF Ins
<1> QED BY <1>1, <1>2, SleepCode DEF Waiting

\* Where sleep2 waits.
LEMMA Sleep2Waits ==
  ASSUME SigTypes, SigShape, sprog = "sleep2", Base.asleep
  PROVE  Base.at = 4 /\ Ins[1] = "pause" /\ Len(frames) = 1
<1>1. /\ Len(frames) = 1 /\ Sg!Top = Base /\ Base.fn = "sleep2" /\ Base.at \in 1..6 /\ Ins[1] \in Waiting
  <2>1. FrameShape /\ Len(frames) \in Nat \ {0} /\ ~(Len(frames) > 1)
    BY DEF SigShape, FrameShape, SigTypes
  <2>2. Len(frames) = 1 /\ Sg!Top = Base /\ Base.fn = "sleep2"
    BY <2>1, TopShape
  <2>3. Base.at \in 1..6 /\ Ins[1] \in Waiting
    BY <2>1, <2>2, TopShape, Sleep2Code DEF FrameShape
  <2> QED BY <2>2, <2>3
<1>2. Ins = Sg!Code("sleep2")[Base.at]
  BY <1>1 DEF Ins
<1> QED BY <1>1, <1>2, Sleep2Code DEF Waiting

\* Where read2 waits.
LEMMA Read2Waits ==
  ASSUME SigTypes, SigShape, sprog = "read2", Base.asleep
  PROVE  Base.at = 4 /\ Ins[1] = "read" /\ Len(frames) = 1
<1>1. /\ Len(frames) = 1 /\ Sg!Top = Base /\ Base.fn = "read2" /\ Base.at \in 1..6 /\ Ins[1] \in Waiting
  <2>1. FrameShape /\ Len(frames) \in Nat \ {0} /\ ~(Len(frames) > 1)
    BY DEF SigShape, FrameShape, SigTypes
  <2>2. Len(frames) = 1 /\ Sg!Top = Base /\ Base.fn = "read2"
    BY <2>1, TopShape
  <2>3. Base.at \in 1..6 /\ Ins[1] \in Waiting
    BY <2>1, <2>2, TopShape, Read2Code DEF FrameShape
  <2> QED BY <2>2, <2>3
<1>2. Ins = Sg!Code("read2")[Base.at]
  BY <1>1 DEF Ins
<1> QED BY <1>1, <1>2, Read2Code DEF Waiting

\* Where suspend1 waits.
LEMMA Suspend1Waits ==
  ASSUME SigTypes, SigShape, sprog = "suspend1", Base.asleep
  PROVE  Base.at = 3 /\ Ins[1] = "suspend" /\ Len(frames) = 1
<1>1. /\ Len(frames) = 1 /\ Sg!Top = Base /\ Base.fn = "suspend1" /\ Base.at \in 1..5 /\ Ins[1] \in Waiting
  <2>1. FrameShape /\ Len(frames) \in Nat \ {0} /\ ~(Len(frames) > 1)
    BY DEF SigShape, FrameShape, SigTypes
  <2>2. Len(frames) = 1 /\ Sg!Top = Base /\ Base.fn = "suspend1"
    BY <2>1, TopShape
  <2>3. Base.at \in 1..5 /\ Ins[1] \in Waiting
    BY <2>1, <2>2, TopShape, Suspend1Code DEF FrameShape
  <2> QED BY <2>2, <2>3
<1>2. Ins = Sg!Code("suspend1")[Base.at]
  BY <1>1 DEF Ins
<1> QED BY <1>1, <1>2, Suspend1Code DEF Waiting

\* Where suspend2 waits.
LEMMA Suspend2Waits ==
  ASSUME SigTypes, SigShape, sprog = "suspend2", Base.asleep
  PROVE  Base.at = 5 /\ Ins[1] = "suspend" /\ Len(frames) = 1
<1>1. /\ Len(frames) = 1 /\ Sg!Top = Base /\ Base.fn = "suspend2" /\ Base.at \in 1..9 /\ Ins[1] \in Waiting
  <2>1. FrameShape /\ Len(frames) \in Nat \ {0} /\ ~(Len(frames) > 1)
    BY DEF SigShape, FrameShape, SigTypes
  <2>2. Len(frames) = 1 /\ Sg!Top = Base /\ Base.fn = "suspend2"
    BY <2>1, TopShape
  <2>3. Base.at \in 1..9 /\ Ins[1] \in Waiting
    BY <2>1, <2>2, TopShape, Suspend2Code DEF FrameShape
  <2> QED BY <2>2, <2>3
<1>2. Ins = Sg!Code("suspend2")[Base.at]
  BY <1>1 DEF Ins
<1> QED BY <1>1, <1>2, Suspend2Code DEF Waiting

\* Where mask waits.
LEMMA MaskWaits ==
  ASSUME SigTypes, SigShape, sprog = "mask", Base.asleep
  PROVE  Base.at = 5 /\ Ins[1] = "pause" /\ Len(frames) = 1
<1>1. /\ Len(frames) = 1 /\ Sg!Top = Base /\ Base.fn = "mask" /\ Base.at \in 1..7 /\ Ins[1] \in Waiting
  <2>1. FrameShape /\ Len(frames) \in Nat \ {0} /\ ~(Len(frames) > 1)
    BY DEF SigShape, FrameShape, SigTypes
  <2>2. Len(frames) = 1 /\ Sg!Top = Base /\ Base.fn = "mask"
    BY <2>1, TopShape
  <2>3. Base.at \in 1..7 /\ Ins[1] \in Waiting
    BY <2>1, <2>2, TopShape, MaskCode DEF FrameShape
  <2> QED BY <2>2, <2>3
<1>2. Ins = Sg!Code("mask")[Base.at]
  BY <1>1 DEF Ins
<1> QED BY <1>1, <1>2, MaskCode DEF Waiting

\* Where sigtstp waits.
LEMMA StopWaits ==
  ASSUME SigTypes, SigShape, sprog = "sigtstp", Base.asleep
  PROVE  Base.at = 3 /\ Ins[1] = "read" /\ Len(frames) = 1
<1>1. /\ Len(frames) = 1 /\ Sg!Top = Base /\ Base.fn = "sigtstp" /\ Base.at \in 1..4 /\ Ins[1] \in Waiting
  <2>1. FrameShape /\ Len(frames) \in Nat \ {0} /\ ~(Len(frames) > 1)
    BY DEF SigShape, FrameShape, SigTypes
  <2>2. Len(frames) = 1 /\ Sg!Top = Base /\ Base.fn = "sigtstp"
    BY <2>1, TopShape
  <2>3. Base.at \in 1..4 /\ Ins[1] \in Waiting
    BY <2>1, <2>2, TopShape, StopCode DEF FrameShape
  <2> QED BY <2>2, <2>3
<1>2. Ins = Sg!Code("sigtstp")[Base.at]
  BY <1>1 DEF Ins
<1> QED BY <1>1, <1>2, StopCode DEF Waiting

\* Where abort waits.
LEMMA AbortWaits ==
  ASSUME SigTypes, SigShape, sprog = "abort", Base.asleep
  PROVE  FALSE
<1>1. /\ Len(frames) = 1 /\ Sg!Top = Base /\ Base.fn = "abort" /\ Base.at \in 1..7 /\ Ins[1] \in Waiting
  <2>1. FrameShape /\ Len(frames) \in Nat \ {0} /\ ~(Len(frames) > 1)
    BY DEF SigShape, FrameShape, SigTypes
  <2>2. Len(frames) = 1 /\ Sg!Top = Base /\ Base.fn = "abort"
    BY <2>1, TopShape
  <2>3. Base.at \in 1..7 /\ Ins[1] \in Waiting
    BY <2>1, <2>2, TopShape, AbortCode DEF FrameShape
  <2> QED BY <2>2, <2>3
<1>2. Ins = Sg!Code("abort")[Base.at]
  BY <1>1 DEF Ins
<1> QED BY <1>1, <1>2, AbortCode DEF Waiting

\* Where system waits.
LEMMA SystemWaits ==
  ASSUME SigTypes, SigShape, sprog = "system", Base.asleep
  PROVE  FALSE
<1>1. /\ Len(frames) = 1 /\ Sg!Top = Base /\ Base.fn = "system" /\ Base.at \in 1..9 /\ Ins[1] \in Waiting
  <2>1. FrameShape /\ Len(frames) \in Nat \ {0} /\ ~(Len(frames) > 1)
    BY DEF SigShape, FrameShape, SigTypes
  <2>2. Len(frames) = 1 /\ Sg!Top = Base /\ Base.fn = "system"
    BY <2>1, TopShape
  <2>3. Base.at \in 1..9 /\ Ins[1] \in Waiting
    BY <2>1, <2>2, TopShape, SystemCode DEF FrameShape
  <2> QED BY <2>2, <2>3
<1>2. Ins = Sg!Code("system")[Base.at]
  BY <1>1 DEF Ins
<1> QED BY <1>1, <1>2, SystemCode DEF Waiting

\* lib/sleep.c: a handler returns.
LEMMA SleepHandler ==
  ASSUME SigTypes, SigShape, SleepInv, sprog = "sleep", Len(frames) > 1, Sg!Step
  PROVE  SleepInv'
<1>1. /\ SigTypes /\ SigShape /\ FrameShape /\ Live /\ Sg!Step /\ sprog = "sleep" /\ Len(frames) > 1
      /\ Sg!Top = frames[Len(frames)] /\ Sg!Top.fn \in {"return"} /\ ~Base.asleep
      /\ Sg!Top.at \in 1..Len(Sg!Code(Sg!Top.fn)) /\ Len(frames) \in Nat /\ Len(frames) # 1
  <2>1. HandlersOf(sprog) = {"return"}
    BY DEF HandlersOf
  <2> QED BY <2>1, HandlerStep
<1>2. Ins[1] = "ret"
  BY <1>1, ReturnCode DEF Ins
<1>3. /\ Base' = Base /\ ~Base'.asleep /\ BaseMask' = BaseMask /\ (Blocks("ALRM") => Blocks("ALRM")')
  BY <1>1, <1>2, RetStep DEF Sg!Sig
<1>4. UNCHANGED <<sprog, before, sst, spend, disp, oldmask, timer>> /\ Live
  BY <1>1, <1>2, RetStep
<1> QED BY <1>1, <1>3, <1>4 DEF SleepInv, Live

\* While sleep waits, SIGALRM is caught.
LEMMA SleepCatches ==
  ASSUME SigTypes, SigShape, SleepInv, sprog = "sleep", Base.at = 4
  PROVE  disp["ALRM"] = "return"
<1>1. disp = [before.disp EXCEPT !["ALRM"] = "return"] /\ before.disp \in [Sg!Sig -> Acts] /\ "ALRM" \in Sg!Sig
  BY DEF SleepInv, SigShape, DispShape, SigTypes, Sg!Sig
<1> QED BY <1>1

\* lib/sleep.c.
LEMMA SleepNext ==
  ASSUME SigTypes, SigShape, SleepInv, Sg!Next
  PROVE  SleepInv'
<1>1. SigTypes /\ SigShape /\ sprog \in Sg!Programs /\ sprog' = sprog /\ before' = before
      /\ Len(frames) \in Nat \ {0}
  BY ShapeNext DEF SigShape, FrameShape, SigTypes
<1>2. CASE ~(sprog = "sleep")
  BY <1>1, <1>2 DEF SleepInv
<1>3. CASE sprog = "sleep"
  <2>1. CASE Sg!Step
    <3>1. CASE Len(frames) = 1
      BY <1>3, <2>1, <3>1, SleepBase
    <3>2. CASE Len(frames) > 1
      BY <1>3, <2>1, <3>2, SleepHandler
    <3>3. Len(frames) = 1 \/ Len(frames) > 1
      <4>1. PICK l \in Nat \ {0} : l = Len(frames)
        BY <1>1
      <4>2. l = 1 \/ l > 1
        OBVIOUS
      <4> QED BY <4>1, <4>2
    <3> QED BY <3>1, <3>2, <3>3
  <2>2. CASE Sg!AlarmRings
    <3>1. UNCHANGED <<frames, sprog, before, sst, smask, disp, oldmask, oldact, flag, env, child,
                      status, halted, misjump>>
          /\ timer /\ sst \in {"runs", "stopped"} /\ timer' = FALSE
          /\ spend' = IF disp["ALRM"] = "ign" THEN spend ELSE spend \union {"ALRM"}
      BY <1>1, <2>2, Rings
    <3> QED BY <1>1, <1>3, <3>1, SleepCatches DEF SleepInv, Base, BaseMask, Blocks
  <2>3. CASE Sg!ChildEnds
    <3>1. UNCHANGED <<frames, sprog, before, sst, smask, disp, oldmask, oldact, timer, flag, env,
                      status, halted, misjump>>
          /\ child = "runs" /\ sst = "runs" /\ child' = "zombie"
          /\ spend' = IF disp["CHLD"] = "ign" THEN spend ELSE spend \union {"CHLD"}
      BY <1>1, <2>3, ChildDies
    <3> QED BY <1>1, <1>3, <3>1 DEF SleepInv, Base, BaseMask, Blocks
  <2>4. CASE Sg!SendSignal
    <3>1. /\ UNCHANGED <<frames, sprog, before, sst, smask, disp, oldmask, oldact, timer, flag,
                         env, child, status, halted, misjump>>
          /\ \E s \in Sg!SentTo(sprog) \cap Sg!Sig : spend' = IF disp[s] = "ign" THEN spend ELSE spend \union {s}
      BY <1>1, <2>4, Posted
    <3>2. PICK s \in Sg!SentTo(sprog) \cap Sg!Sig : spend' = IF disp[s] = "ign" THEN spend ELSE spend \union {s}
      BY <3>1
    <3> QED BY <1>1, <1>3, <3>1, <3>2, SentKnown DEF SleepInv, Base, BaseMask, Blocks
  <2>5. CASE Sg!Continue
    <3>1. UNCHANGED <<frames, sprog, before, smask, spend, disp, oldmask, oldact, timer, flag, env,
                      child, status, halted, misjump>> /\ sst = "stopped" /\ sst' = "runs"
      BY <1>1, <2>5, Resumes
    <3> QED BY <1>1, <1>3, <3>1 DEF SleepInv, Base, BaseMask, Blocks
  <2>6. CASE Sg!Quiet
    <3>1. UNCHANGED <<frames, sprog, before, sst, smask, spend, disp, oldmask, oldact, timer, flag,
                      env, child, status, halted, misjump>>
      BY <2>6 DEF Sg!Quiet, Sg!vars
    <3> QED BY <1>1, <1>3, <3>1 DEF SleepInv, Base, BaseMask, Blocks
  <2>7. CASE Sg!Input
    <3>1. Base.asleep /\ Ins[1] = "read"
      BY <2>7, ShapeTyped
    <3> QED BY <1>1, <1>3, <3>1, SleepWaits
  <2>8. ASSUME NEW s \in Sg!Sig, Sg!Deliver(s) PROVE SleepInv'
    <3>1. /\ sst = "runs" /\ s \in spend /\ spend' = spend \ {s} /\ sst' # "exited"
          /\ UNCHANGED <<before, disp, oldmask, timer>> /\ "ALRM" \in Sg!Sig
      BY <2>8, Delivered DEF Sg!Sig
    <3>2. CASE disp[s] = "dfl"
      <4>1. frames' = frames /\ smask' = smask
        BY <2>8, <3>2, ShapeDelivered
      <4>2. Base.at = 4 => s # "ALRM"
        BY <1>1, <1>3, <3>2, SleepCatches
      <4> QED BY <1>1, <1>3, <3>1, <4>1, <4>2 DEF SleepInv, Base, BaseMask, Blocks
    <3>3. CASE disp[s] # "dfl"
      <4>1. /\ ~Base'.asleep /\ BaseMask' = BaseMask
            /\ Base'.at = IF Base.asleep /\ (Ins[1] # "read" \/ s = "ALRM") THEN Base.at + 1 ELSE Base.at
        BY <2>8, <3>3, ShapeDelivered
      <4>2. CASE Base.asleep
        <5>1. Base.at = 4 /\ Base'.at = 5
          BY <1>1, <1>3, <4>1, <4>2, SleepWaits
        <5> QED BY <1>1, <1>3, <3>1, <4>1, <5>1 DEF SleepInv
      <4>3. CASE ~Base.asleep
        <5>1. Base'.at = Base.at
          BY <4>1, <4>3
        <5>2. Blocks("ALRM") => Blocks("ALRM")' /\ ("ALRM" \in spend => "ALRM" \in spend')
          BY <1>1, <2>8, <3>1, <4>3, BlocksKept
        <5> QED BY <1>1, <1>3, <3>1, <4>1, <4>3, <5>1, <5>2 DEF SleepInv
      <4> QED BY <4>2, <4>3
    <3> QED BY <3>2, <3>3
  <2> QED BY <2>1, <2>2, <2>3, <2>4, <2>5, <2>6, <2>7, <2>8 DEF Sg!Next
<1> QED BY <1>2, <1>3

\* signals/suspend1.c: a handler returns.
LEMMA Suspend1Handler ==
  ASSUME SigTypes, SigShape, Suspend1Inv, sprog = "suspend1", Len(frames) > 1, Sg!Step
  PROVE  Suspend1Inv'
<1>1. /\ SigTypes /\ SigShape /\ FrameShape /\ Live /\ Sg!Step /\ sprog = "suspend1" /\ Len(frames) > 1
      /\ Sg!Top = frames[Len(frames)] /\ Sg!Top.fn \in {"return"} /\ ~Base.asleep
      /\ Sg!Top.at \in 1..Len(Sg!Code(Sg!Top.fn)) /\ Len(frames) \in Nat /\ Len(frames) # 1
  <2>1. HandlersOf(sprog) = {"return"}
    BY DEF HandlersOf
  <2> QED BY <2>1, HandlerStep
<1>2. Ins[1] = "ret"
  BY <1>1, ReturnCode DEF Ins
<1>3. Base' = Base /\ BaseMask' = BaseMask /\ UNCHANGED <<sprog, before, sst, oldmask>> /\ Live
  BY <1>1, <1>2, RetStep
<1> QED BY <1>1, <1>3 DEF Suspend1Inv, Live

\* signals/suspend1.c.
LEMMA Suspend1Next ==
  ASSUME SigTypes, SigShape, Suspend1Inv, Sg!Next
  PROVE  Suspend1Inv'
<1>1. SigTypes /\ SigShape /\ sprog \in Sg!Programs /\ sprog' = sprog /\ before' = before
      /\ Len(frames) \in Nat \ {0}
  BY ShapeNext DEF SigShape, FrameShape, SigTypes
<1>2. CASE ~(sprog = "suspend1")
  BY <1>1, <1>2 DEF Suspend1Inv
<1>3. CASE sprog = "suspend1"
  <2>1. CASE Sg!Step
    <3>1. CASE Len(frames) = 1
      BY <1>3, <2>1, <3>1, Suspend1Base
    <3>2. CASE Len(frames) > 1
      BY <1>3, <2>1, <3>2, Suspend1Handler
    <3>3. Len(frames) = 1 \/ Len(frames) > 1
      <4>1. PICK l \in Nat \ {0} : l = Len(frames)
        BY <1>1
      <4>2. l = 1 \/ l > 1
        OBVIOUS
      <4> QED BY <4>1, <4>2
    <3> QED BY <3>1, <3>2, <3>3
  <2>2. CASE Sg!AlarmRings
    <3>1. UNCHANGED <<frames, sprog, before, sst, smask, disp, oldmask, oldact, flag, env, child,
                      status, halted, misjump>>
          /\ timer /\ sst \in {"runs", "stopped"} /\ timer' = FALSE
          /\ spend' = IF disp["ALRM"] = "ign" THEN spend ELSE spend \union {"ALRM"}
      BY <1>1, <2>2, Rings
    <3> QED BY <1>1, <1>3, <3>1 DEF Suspend1Inv, Base, BaseMask, Blocks
  <2>3. CASE Sg!ChildEnds
    <3>1. UNCHANGED <<frames, sprog, before, sst, smask, disp, oldmask, oldact, timer, flag, env,
                      status, halted, misjump>>
          /\ child = "runs" /\ sst = "runs" /\ child' = "zombie"
          /\ spend' = IF disp["CHLD"] = "ign" THEN spend ELSE spend \union {"CHLD"}
      BY <1>1, <2>3, ChildDies
    <3> QED BY <1>1, <1>3, <3>1 DEF Suspend1Inv, Base, BaseMask, Blocks
  <2>4. CASE Sg!SendSignal
    <3>1. /\ UNCHANGED <<frames, sprog, before, sst, smask, disp, oldmask, oldact, timer, flag,
                         env, child, status, halted, misjump>>
          /\ \E s \in Sg!SentTo(sprog) \cap Sg!Sig : spend' = IF disp[s] = "ign" THEN spend ELSE spend \union {s}
      BY <1>1, <2>4, Posted
    <3>2. PICK s \in Sg!SentTo(sprog) \cap Sg!Sig : spend' = IF disp[s] = "ign" THEN spend ELSE spend \union {s}
      BY <3>1
    <3> QED BY <1>1, <1>3, <3>1, <3>2, SentKnown DEF Suspend1Inv, Base, BaseMask, Blocks
  <2>5. CASE Sg!Continue
    <3>1. UNCHANGED <<frames, sprog, before, smask, spend, disp, oldmask, oldact, timer, flag, env,
                      child, status, halted, misjump>> /\ sst = "stopped" /\ sst' = "runs"
      BY <1>1, <2>5, Resumes
    <3> QED BY <1>1, <1>3, <3>1 DEF Suspend1Inv, Base, BaseMask, Blocks
  <2>6. CASE Sg!Quiet
    <3>1. UNCHANGED <<frames, sprog, before, sst, smask, spend, disp, oldmask, oldact, timer, flag,
                      env, child, status, halted, misjump>>
      BY <2>6 DEF Sg!Quiet, Sg!vars
    <3> QED BY <1>1, <1>3, <3>1 DEF Suspend1Inv, Base, BaseMask, Blocks
  <2>7. CASE Sg!Input
    <3>1. Base.asleep /\ Ins[1] = "read"
      BY <2>7, ShapeTyped
    <3> QED BY <1>1, <1>3, <3>1, Suspend1Waits
  <2>8. ASSUME NEW s \in Sg!Sig, Sg!Deliver(s) PROVE Suspend1Inv'
    <3>1. sst = "runs" /\ sst' # "exited" /\ UNCHANGED <<before, disp, oldmask>>
      BY <2>8, Delivered
    <3>2. CASE disp[s] = "dfl"
      <4>1. frames' = frames /\ smask' = smask
        BY <2>8, <3>2, ShapeDelivered
      <4> QED BY <1>1, <1>3, <3>1, <4>1 DEF Suspend1Inv, Base, BaseMask
    <3>3. CASE disp[s] # "dfl"
      <4>1. /\ BaseMask' = BaseMask
            /\ Base'.at = IF Base.asleep /\ (Ins[1] # "read" \/ s = "ALRM") THEN Base.at + 1 ELSE Base.at
        BY <2>8, <3>3, ShapeDelivered
      <4>2. Base.asleep => Base.at = 3 /\ Ins[1] = "suspend"
        BY <1>1, <1>3, Suspend1Waits
      <4> QED BY <1>1, <1>3, <3>1, <4>1, <4>2 DEF Suspend1Inv
    <3> QED BY <3>2, <3>3
  <2> QED BY <2>1, <2>2, <2>3, <2>4, <2>5, <2>6, <2>7, <2>8 DEF Sg!Next
<1> QED BY <1>2, <1>3

\* signals/suspend2.c: a step of a handler.
LEMMA Suspend2Handler ==
  ASSUME SigTypes, SigShape, Suspend2Inv, sprog = "suspend2", Len(frames) > 1, Sg!Step
  PROVE  Suspend2Inv'
<1>1. /\ SigTypes /\ SigShape /\ FrameShape /\ Live /\ Sg!Step /\ sprog = "suspend2" /\ Len(frames) > 1
      /\ Sg!Top = frames[Len(frames)] /\ Sg!Top.fn \in {"return", "quitflag"} /\ ~Base.asleep
      /\ Sg!Top.at \in 1..Len(Sg!Code(Sg!Top.fn)) /\ Len(frames) \in Nat /\ Len(frames) # 1
  <2>1. HandlersOf(sprog) = {"return", "quitflag"}
    BY DEF HandlersOf
  <2> QED BY <2>1, HandlerStep
<1>2. CASE Ins[1] = "ret"
  <2>1. /\ Base' = Base /\ BaseMask' = BaseMask /\ (Blocks("QUIT") => Blocks("QUIT")')
        /\ Len(frames') = Len(frames) - 1
        /\ \A k \in 1..Len(frames) - 1 : frames'[k] = frames[k]
    BY <1>1, <1>2, RetStep DEF Sg!Sig
  <2>2. UNCHANGED <<sprog, before, sst, oldmask, disp, flag>>
    BY <1>1, <1>2, RetStep
  <2>3. (\A k \in 2..Len(frames) : frames[k].fn = "return") =>
            \A k \in 2..Len(frames') : frames'[k].fn = "return"
    BY <1>1, <2>1
  <2> QED BY <1>1, <2>1, <2>2, <2>3 DEF Suspend2Inv, Live
<1>3. CASE Sg!Top.fn = "quitflag" /\ Sg!Top.at = 1
  <2>1. Ins[1] = "flag" /\ Ins[2] = 1 /\ Sg!Top.at + 1 \in 1..Len(Sg!Code(Sg!Top.fn))
    BY <1>3, QuitCode DEF Ins
  <2>2. Moves(Sg!Top.at + 1) /\ flag' = 1 /\ UNCHANGED <<sprog, before, sst, oldmask, disp, smask>>
    BY <1>1, <2>1, DoFlag
  <2>3. Base' = Base /\ BaseMask' = BaseMask
    BY <1>1, <2>1, <2>2, UpMoves
  <2>4. Base.at \notin {4, 5}
    <3>1. Len(frames) \in 2..Len(frames)
      BY <1>1
    <3> QED BY <1>1, <1>3, <3>1 DEF Suspend2Inv
  <2> QED BY <1>1, <2>2, <2>3, <2>4 DEF Suspend2Inv, Live
<1> QED
  <2>1. CASE Sg!Top.fn = "return"
    BY <1>1, <1>2, <2>1, ReturnCode DEF Ins
  <2>2. CASE Sg!Top.fn = "quitflag"
    <3>1. Sg!Top.at \in {1, 2}
      <4>1. Sg!Top.at \in 1..2
        BY <1>1, <2>2, QuitCode
      <4> QED BY <4>1
    <3> QED BY <1>2, <1>3, <2>2, <3>1, QuitCode DEF Ins
  <2> QED BY <1>1, <2>1, <2>2

\* signals/suspend2.c.
LEMMA Suspend2Next ==
  ASSUME SigTypes, SigShape, Suspend2Inv, Sg!Next
  PROVE  Suspend2Inv'
<1>1. SigTypes /\ SigShape /\ sprog \in Sg!Programs /\ sprog' = sprog /\ before' = before
      /\ Len(frames) \in Nat \ {0}
  BY ShapeNext DEF SigShape, FrameShape, SigTypes
<1>2. CASE ~(sprog = "suspend2")
  BY <1>1, <1>2 DEF Suspend2Inv
<1>3. CASE sprog = "suspend2"
  <2>1. CASE Sg!Step
    <3>1. CASE Len(frames) = 1
      BY <1>3, <2>1, <3>1, Suspend2Base
    <3>2. CASE Len(frames) > 1
      BY <1>3, <2>1, <3>2, Suspend2Handler
    <3>3. Len(frames) = 1 \/ Len(frames) > 1
      <4>1. PICK l \in Nat \ {0} : l = Len(frames)
        BY <1>1
      <4>2. l = 1 \/ l > 1
        OBVIOUS
      <4> QED BY <4>1, <4>2
    <3> QED BY <3>1, <3>2, <3>3
  <2>2. CASE Sg!AlarmRings
    <3>1. UNCHANGED <<frames, sprog, before, sst, smask, disp, oldmask, oldact, flag, env, child,
                      status, halted, misjump>>
          /\ timer /\ sst \in {"runs", "stopped"} /\ timer' = FALSE
          /\ spend' = IF disp["ALRM"] = "ign" THEN spend ELSE spend \union {"ALRM"}
      BY <1>1, <2>2, Rings
    <3> QED BY <1>1, <1>3, <3>1 DEF Suspend2Inv, Base, BaseMask, Blocks
  <2>3. CASE Sg!ChildEnds
    <3>1. UNCHANGED <<frames, sprog, before, sst, smask, disp, oldmask, oldact, timer, flag, env,
                      status, halted, misjump>>
          /\ child = "runs" /\ sst = "runs" /\ child' = "zombie"
          /\ spend' = IF disp["CHLD"] = "ign" THEN spend ELSE spend \union {"CHLD"}
      BY <1>1, <2>3, ChildDies
    <3> QED BY <1>1, <1>3, <3>1 DEF Suspend2Inv, Base, BaseMask, Blocks
  <2>4. CASE Sg!SendSignal
    <3>1. /\ UNCHANGED <<frames, sprog, before, sst, smask, disp, oldmask, oldact, timer, flag,
                         env, child, status, halted, misjump>>
          /\ \E s \in Sg!SentTo(sprog) \cap Sg!Sig : spend' = IF disp[s] = "ign" THEN spend ELSE spend \union {s}
      BY <1>1, <2>4, Posted
    <3>2. PICK s \in Sg!SentTo(sprog) \cap Sg!Sig : spend' = IF disp[s] = "ign" THEN spend ELSE spend \union {s}
      BY <3>1
    <3> QED BY <1>1, <1>3, <3>1, <3>2, SentKnown DEF Suspend2Inv, Base, BaseMask, Blocks
  <2>5. CASE Sg!Continue
    <3>1. UNCHANGED <<frames, sprog, before, smask, spend, disp, oldmask, oldact, timer, flag, env,
                      child, status, halted, misjump>> /\ sst = "stopped" /\ sst' = "runs"
      BY <1>1, <2>5, Resumes
    <3> QED BY <1>1, <1>3, <3>1 DEF Suspend2Inv, Base, BaseMask, Blocks
  <2>6. CASE Sg!Quiet
    <3>1. UNCHANGED <<frames, sprog, before, sst, smask, spend, disp, oldmask, oldact, timer, flag,
                      env, child, status, halted, misjump>>
      BY <2>6 DEF Sg!Quiet, Sg!vars
    <3> QED BY <1>1, <1>3, <3>1 DEF Suspend2Inv, Base, BaseMask, Blocks
  <2>7. CASE Sg!Input
    <3>1. Base.asleep /\ Ins[1] = "read"
      BY <2>7, ShapeTyped
    <3> QED BY <1>1, <1>3, <3>1, Suspend2Waits
  <2>8. ASSUME NEW s \in Sg!Sig, Sg!Deliver(s) PROVE Suspend2Inv'
    <3>1. sst = "runs" /\ sst' # "exited" /\ UNCHANGED <<before, disp, oldmask, flag>> /\ "QUIT" \in Sg!Sig
      BY <2>8, Delivered DEF Sg!Sig
    <3>2. CASE disp[s] = "dfl"
      <4>1. frames' = frames /\ smask' = smask
        BY <2>8, <3>2, ShapeDelivered
      <4> QED BY <1>1, <1>3, <3>1, <4>1 DEF Suspend2Inv, Base, BaseMask, Blocks
    <3>3. CASE disp[s] # "dfl"
      <4>1. /\ ~Base'.asleep /\ BaseMask' = BaseMask
            /\ Base'.at = IF Base.asleep /\ (Ins[1] # "read" \/ s = "ALRM") THEN Base.at + 1 ELSE Base.at
        BY <2>8, <3>3, ShapeDelivered
      <4>2. CASE Base.asleep
        <5>1. Base.at = 5 /\ Base'.at = 6
          BY <1>1, <1>3, <4>1, <4>2, Suspend2Waits
        <5> QED BY <1>1, <1>3, <3>1, <4>1, <5>1 DEF Suspend2Inv
      <4>3. CASE ~Base.asleep
        <5>1. Base'.at = Base.at
          BY <4>1, <4>3
        <5>2. Blocks("QUIT") => Blocks("QUIT")' /\ s # "QUIT"
          BY <1>1, <2>8, <3>1, <4>3, BlocksKept
        <5>3. ASSUME Base.at \in {4, 5}
              PROVE  \A k \in 2..Len(frames') : frames'[k].fn = "return"
          <6>1. PICK d \in Nat \ {0} : d = Len(frames)
            BY <1>1
          <6>2. /\ Len(frames') = d + 1 /\ frames'[d + 1].fn = disp[s] /\ disp[s] \in HandlersOf("suspend2")
                /\ \A k \in 2..d : frames'[k].fn = frames[k].fn
            BY <1>3, <2>8, <3>3, <6>1, ShapeDelivered
          <6>3. disp[s] = "return"
            <7>1. s # "QUIT" /\ disp[s] # "quitflag"
              BY <1>3, <4>3, <5>2, <5>3 DEF Suspend2Inv
            <7> QED BY <6>2, <7>1 DEF HandlersOf
          <6>4. \A k \in 2..d : frames[k].fn = "return"
            BY <1>3, <4>3, <5>3, <6>1 DEF Suspend2Inv
          <6> QED BY <6>1, <6>2, <6>3, <6>4
        <5> QED BY <1>1, <1>3, <3>1, <4>1, <4>3, <5>1, <5>2, <5>3 DEF Suspend2Inv
      <4> QED BY <4>2, <4>3
    <3> QED BY <3>2, <3>3
  <2> QED BY <2>1, <2>2, <2>3, <2>4, <2>5, <2>6, <2>7, <2>8 DEF Sg!Next
<1> QED BY <1>2, <1>3

\* signals/mask.c: a step of a handler.
LEMMA MaskHandler ==
  ASSUME SigTypes, SigShape, MaskInv, sprog = "mask", Len(frames) > 1, Sg!Step
  PROVE  MaskInv'
<1>1. /\ SigTypes /\ SigShape /\ FrameShape /\ Live /\ Sg!Step /\ sprog = "mask" /\ Len(frames) > 1
      /\ Sg!Top = frames[Len(frames)] /\ Sg!Top.fn \in {"return", "sig_usr1"} /\ ~Base.asleep
      /\ Sg!Top.at \in 1..Len(Sg!Code(Sg!Top.fn)) /\ Len(frames) \in Nat /\ Len(frames) # 1
  <2>1. HandlersOf(sprog) = {"return", "sig_usr1"}
    BY DEF HandlersOf
  <2> QED BY <2>1, HandlerStep
<1>2. CASE Ins[1] = "ret"
  <2>1. /\ Base' = Base /\ Len(frames') = Len(frames) - 1
        /\ (\A k \in 1..Len(frames) - 1 : frames'[k] = frames[k])
        /\ UNCHANGED <<sprog, env, flag>>
    BY <1>1, <1>2, RetStep
  <2> QED BY <1>1, <2>1 DEF MaskInv
<1>3. PICK d \in Nat : d = Len(frames) /\ d > 1 /\ d \in 2..Len(frames) /\ Sg!Top = frames[d]
  BY <1>1
<1>4. Sg!Top.fn = "sig_usr1" /\ Sg!Top.at \notin {1, 2} => env # <<>>
  BY <1>1, <1>3 DEF MaskInv
<1>5. ASSUME Sg!Top.fn = "sig_usr1", Moves(Sg!Top.at + 1), Sg!Top.at \in 3..5, UNCHANGED <<sprog,
                                                                                           env>>
      PROVE  MaskInv'
  <2>1. Sg!Top.at + 1 \in 1..Len(Sg!Code(Sg!Top.fn)) /\ Sg!Top.at \notin {1, 2}
    BY <1>5, Usr1Code, SMTT(30)
  <2>2. Base' = Base
    BY <1>1, <1>5, <2>1, UpMoves
  <2> QED BY <1>1, <1>4, <1>5, <2>1, <2>2 DEF MaskInv
<1>6. CASE Sg!Top.fn = "sig_usr1" /\ Sg!Top.at = 1
  <2>1. Ins[1] = "ifset" /\ Ins[2] = 3 /\ 3 \in Nat /\ 2 \in 1..Len(Sg!Code(Sg!Top.fn))
        /\ 3 \in 1..Len(Sg!Code(Sg!Top.fn))
    BY <1>6, Usr1Code DEF Ins
  <2>2. UNCHANGED <<sprog, env, flag>> /\ (flag = 1 => Moves(3)) /\ (flag # 1 => Moves(2))
    BY <1>1, <1>6, <2>1, DoBranch
  <2>3. PICK to \in {2, 3} : Moves(to) /\ (flag = 0 => to = 2)
    BY <2>2
  <2>4. /\ Base' = Base /\ Len(frames') = d
        /\ (\A k \in 1..d : frames'[k].fn = frames[k].fn) /\ (\A k \in 1..d - 1 : frames'[k].at = frames[k].at)
        /\ frames'[d].at = to
    BY <1>1, <1>3, <2>1, <2>3, UpMoves
  <2>5. CASE env = <<>>
    <3>1. flag = 0 /\ to = 2 /\ Base.at <= 3
          /\ \A k \in 2..d : frames[k].fn = "sig_usr1" => frames[k].at \in {1, 2}
      BY <1>1, <1>3, <2>3, <2>5 DEF MaskInv
    <3>2. ASSUME NEW k \in 2..d, frames'[k].fn = "sig_usr1" PROVE frames'[k].at \in {1, 2}
      <4>1. CASE k = d
        BY <2>4, <3>1, <4>1
      <4>2. CASE k # d
        <5>1. k \in 1..d - 1 /\ k \in 1..d
          BY <4>2
        <5> QED BY <2>4, <3>1, <3>2, <5>1
      <4> QED BY <4>1, <4>2
    <3> QED BY <1>1, <2>2, <2>4, <2>5, <3>1, <3>2 DEF MaskInv
  <2>6. CASE env # <<>>
    BY <1>1, <2>2, <2>4, <2>6 DEF MaskInv
  <2> QED BY <2>5, <2>6
<1>7. CASE Sg!Top.fn = "sig_usr1" /\ Sg!Top.at = 3
  <2>1. Ins[1] = "alarm"
    BY <1>7, Usr1Code DEF Ins
  <2>2. Moves(Sg!Top.at + 1) /\ UNCHANGED <<sprog, env>>
    BY <1>1, <2>1, DoAlarm
  <2> QED BY <1>5, <1>7, <2>2
<1>8. CASE Sg!Top.fn = "sig_usr1" /\ Sg!Top.at = 4
  <2>1. Ins[1] = "work"
    BY <1>8, Usr1Code DEF Ins
  <2>2. Moves(Sg!Top.at + 1) /\ UNCHANGED <<sprog, env>>
    BY <1>1, <2>1, DoWork
  <2> QED BY <1>5, <1>8, <2>2
<1>9. CASE Sg!Top.fn = "sig_usr1" /\ Sg!Top.at = 5
  <2>1. Ins[1] = "flag" /\ Ins[2] = 0
    BY <1>9, Usr1Code DEF Ins
  <2>2. Moves(Sg!Top.at + 1) /\ UNCHANGED <<sprog, env>>
    BY <1>1, <2>1, DoFlag
  <2> QED BY <1>5, <1>9, <2>2
<1>10. CASE Sg!Top.fn = "sig_usr1" /\ Sg!Top.at = 6
  <2>1. Ins[1] = "siglongjmp" /\ env # <<>>
    BY <1>4, <1>10, Usr1Code DEF Ins
  <2>2. env[1].depth = 1 /\ env[1].at \in Nat /\ env[1].mask \in SUBSET Sg!Sig
    BY <1>1, <2>1, MaskCode, SMTT(30) DEF SigShape, EnvShape
  <2>3. Call(frames'[1], Base.fn, env[1].at, FALSE, Base.mask) /\ UNCHANGED <<sprog, env>>
    BY <1>1, <2>1, <2>2, DoLongJmp
  <2>4. Base'.at = env[1].at
    BY <2>3 DEF Call, Base
  <2> QED BY <1>1, <2>1, <2>3, <2>4 DEF MaskInv
<1> QED
  <2>1. CASE Sg!Top.fn = "return"
    BY <1>1, <1>2, <2>1, ReturnCode DEF Ins
  <2>2. CASE Sg!Top.fn = "sig_usr1"
    <3>1. Sg!Top.at \in 1..6
      BY <1>1, <2>2, Usr1Code
    <3>2. Sg!Top.at = 2 => Ins[1] = "ret"
      BY <2>2, Usr1Code DEF Ins
    <3> QED BY <1>2, <1>6, <1>7, <1>8, <1>9, <1>10, <2>2, <3>1, <3>2
  <2> QED BY <1>1, <2>1, <2>2

\* signals/mask.c.
LEMMA MaskNext ==
  ASSUME SigTypes, SigShape, MaskInv, Sg!Next
  PROVE  MaskInv'
<1>1. SigTypes /\ SigShape /\ sprog \in Sg!Programs /\ sprog' = sprog /\ before' = before
      /\ Len(frames) \in Nat \ {0}
  BY ShapeNext DEF SigShape, FrameShape, SigTypes
<1>2. CASE ~(sprog = "mask")
  BY <1>1, <1>2 DEF MaskInv
<1>3. CASE sprog = "mask"
  <2>1. CASE Sg!Step
    <3>1. CASE Len(frames) = 1
      BY <1>3, <2>1, <3>1, MaskBase
    <3>2. CASE Len(frames) > 1
      BY <1>3, <2>1, <3>2, MaskHandler
    <3>3. Len(frames) = 1 \/ Len(frames) > 1
      <4>1. PICK l \in Nat \ {0} : l = Len(frames)
        BY <1>1
      <4>2. l = 1 \/ l > 1
        OBVIOUS
      <4> QED BY <4>1, <4>2
    <3> QED BY <3>1, <3>2, <3>3
  <2>2. CASE Sg!AlarmRings
    <3>1. UNCHANGED <<frames, sprog, before, sst, smask, disp, oldmask, oldact, flag, env, child,
                      status, halted, misjump>>
          /\ timer /\ sst \in {"runs", "stopped"} /\ timer' = FALSE
          /\ spend' = IF disp["ALRM"] = "ign" THEN spend ELSE spend \union {"ALRM"}
      BY <1>1, <2>2, Rings
    <3> QED BY <1>1, <1>3, <3>1 DEF MaskInv, Base, BaseMask, Blocks
  <2>3. CASE Sg!ChildEnds
    <3>1. UNCHANGED <<frames, sprog, before, sst, smask, disp, oldmask, oldact, timer, flag, env,
                      status, halted, misjump>>
          /\ child = "runs" /\ sst = "runs" /\ child' = "zombie"
          /\ spend' = IF disp["CHLD"] = "ign" THEN spend ELSE spend \union {"CHLD"}
      BY <1>1, <2>3, ChildDies
    <3> QED BY <1>1, <1>3, <3>1 DEF MaskInv, Base, BaseMask, Blocks
  <2>4. CASE Sg!SendSignal
    <3>1. /\ UNCHANGED <<frames, sprog, before, sst, smask, disp, oldmask, oldact, timer, flag,
                         env, child, status, halted, misjump>>
          /\ \E s \in Sg!SentTo(sprog) \cap Sg!Sig : spend' = IF disp[s] = "ign" THEN spend ELSE spend \union {s}
      BY <1>1, <2>4, Posted
    <3>2. PICK s \in Sg!SentTo(sprog) \cap Sg!Sig : spend' = IF disp[s] = "ign" THEN spend ELSE spend \union {s}
      BY <3>1
    <3> QED BY <1>1, <1>3, <3>1, <3>2, SentKnown DEF MaskInv, Base, BaseMask, Blocks
  <2>5. CASE Sg!Continue
    <3>1. UNCHANGED <<frames, sprog, before, smask, spend, disp, oldmask, oldact, timer, flag, env,
                      child, status, halted, misjump>> /\ sst = "stopped" /\ sst' = "runs"
      BY <1>1, <2>5, Resumes
    <3> QED BY <1>1, <1>3, <3>1 DEF MaskInv, Base, BaseMask, Blocks
  <2>6. CASE Sg!Quiet
    <3>1. UNCHANGED <<frames, sprog, before, sst, smask, spend, disp, oldmask, oldact, timer, flag,
                      env, child, status, halted, misjump>>
      BY <2>6 DEF Sg!Quiet, Sg!vars
    <3> QED BY <1>1, <1>3, <3>1 DEF MaskInv, Base, BaseMask, Blocks
  <2>7. CASE Sg!Input
    <3>1. Base.asleep /\ Ins[1] = "read"
      BY <2>7, ShapeTyped
    <3> QED BY <1>1, <1>3, <3>1, MaskWaits
  <2>8. ASSUME NEW s \in Sg!Sig, Sg!Deliver(s) PROVE MaskInv'
    <3>1. UNCHANGED <<env, flag>>
      BY <2>8, Delivered
    <3>2. CASE disp[s] = "dfl"
      <4>1. frames' = frames
        BY <2>8, <3>2, ShapeDelivered
      <4> QED BY <1>1, <1>3, <3>1, <4>1 DEF MaskInv, Base
    <3>3. CASE disp[s] # "dfl"
      <4>1. Base'.at = IF Base.asleep /\ (Ins[1] # "read" \/ s = "ALRM") THEN Base.at + 1 ELSE Base.at
        BY <2>8, <3>3, ShapeDelivered
      <4>2. Base.asleep => Base.at = 5
        BY <1>1, <1>3, MaskWaits
      <4>3. PICK d \in Nat \ {0} : d = Len(frames)
        BY <1>1
      <4>4. /\ Len(frames') = d + 1 /\ frames'[d + 1].at = 1
            /\ \A k \in 2..d : frames'[k].fn = frames[k].fn /\ frames'[k].at = frames[k].at
        BY <2>8, <3>3, <4>3, ShapeDelivered
      <4>5. CASE env = <<>>
        <5>1. flag = 0 /\ Base.at <= 3 /\ \A k \in 2..d : frames[k].fn = "sig_usr1" => frames[k].at \in {1, 2}
          BY <1>3, <4>3, <4>5 DEF MaskInv
        <5>2. \A k \in 2..d + 1 : frames'[k].fn = "sig_usr1" => frames'[k].at \in {1, 2}
          BY <4>4, <5>1
        <5>3. Base'.at = Base.at
          BY <4>1, <4>2, <5>1
        <5> QED BY <3>1, <4>4, <4>5, <5>1, <5>2, <5>3 DEF MaskInv
      <4>6. CASE env # <<>>
        BY <1>1, <1>3, <3>1, <4>1, <4>2, <4>6 DEF MaskInv
      <4> QED BY <4>5, <4>6
    <3> QED BY <3>2, <3>3
  <2> QED BY <2>1, <2>2, <2>3, <2>4, <2>5, <2>6, <2>7, <2>8 DEF Sg!Next
<1> QED BY <1>2, <1>3

\* signals/abort.c: the caller's handler returns.
LEMMA AbortHandler ==
  ASSUME SigTypes, SigShape, AbortInv, sprog = "abort", Len(frames) > 1, Sg!Step
  PROVE  AbortInv'
<1>1. /\ SigTypes /\ SigShape /\ FrameShape /\ Live /\ Sg!Step /\ sprog = "abort" /\ Len(frames) > 1
      /\ Sg!Top = frames[Len(frames)] /\ Sg!Top.fn \in {"return"} /\ ~Base.asleep
      /\ Sg!Top.at \in 1..Len(Sg!Code(Sg!Top.fn)) /\ Len(frames) \in Nat /\ Len(frames) # 1
  <2>1. HandlersOf(sprog) = {"return"}
    BY DEF HandlersOf
  <2> QED BY <2>1, HandlerStep
<1>2. Ins[1] = "ret"
  BY <1>1, ReturnCode DEF Ins
<1>3. Base' = Base /\ UNCHANGED <<sprog, sst, spend, timer, child>>
  BY <1>1, <1>2, RetStep
<1> QED BY <1>1, <1>3 DEF AbortInv

\* signals/abort.c.
LEMMA AbortNext ==
  ASSUME SigTypes, SigShape, AbortInv, Sg!Next
  PROVE  AbortInv'
<1>1. SigTypes /\ SigShape /\ sprog \in Sg!Programs /\ sprog' = sprog /\ before' = before
      /\ Len(frames) \in Nat \ {0}
  BY ShapeNext DEF SigShape, FrameShape, SigTypes
<1>2. CASE ~(sprog = "abort")
  BY <1>1, <1>2 DEF AbortInv
<1>3. CASE sprog = "abort"
  <2>1. CASE Sg!Step
    <3>1. CASE Len(frames) = 1
      BY <1>3, <2>1, <3>1, AbortBase
    <3>2. CASE Len(frames) > 1
      BY <1>3, <2>1, <3>2, AbortHandler
    <3>3. Len(frames) = 1 \/ Len(frames) > 1
      <4>1. PICK l \in Nat \ {0} : l = Len(frames)
        BY <1>1
      <4>2. l = 1 \/ l > 1
        OBVIOUS
      <4> QED BY <4>1, <4>2
    <3> QED BY <3>1, <3>2, <3>3
  <2>2. CASE Sg!AlarmRings
    <3>1. UNCHANGED <<frames, sprog, before, sst, smask, disp, oldmask, oldact, flag, env, child,
                      status, halted, misjump>>
          /\ timer /\ sst \in {"runs", "stopped"} /\ timer' = FALSE
          /\ spend' = IF disp["ALRM"] = "ign" THEN spend ELSE spend \union {"ALRM"}
      BY <1>1, <2>2, Rings
    <3> QED BY <1>1, <1>3, <3>1 DEF AbortInv, Base, BaseMask, Blocks
  <2>3. CASE Sg!ChildEnds
    <3>1. UNCHANGED <<frames, sprog, before, sst, smask, disp, oldmask, oldact, timer, flag, env,
                      status, halted, misjump>>
          /\ child = "runs" /\ sst = "runs" /\ child' = "zombie"
          /\ spend' = IF disp["CHLD"] = "ign" THEN spend ELSE spend \union {"CHLD"}
      BY <1>1, <2>3, ChildDies
    <3> QED BY <1>1, <1>3, <3>1 DEF AbortInv, Base, BaseMask, Blocks
  <2>4. CASE Sg!SendSignal
    <3>1. /\ UNCHANGED <<frames, sprog, before, sst, smask, disp, oldmask, oldact, timer, flag,
                         env, child, status, halted, misjump>>
          /\ \E s \in Sg!SentTo(sprog) \cap Sg!Sig : spend' = IF disp[s] = "ign" THEN spend ELSE spend \union {s}
      BY <1>1, <2>4, Posted
    <3>2. PICK s \in Sg!SentTo(sprog) \cap Sg!Sig : spend' = IF disp[s] = "ign" THEN spend ELSE spend \union {s}
      BY <3>1
    <3> QED BY <1>1, <1>3, <3>1, <3>2, SentKnown DEF AbortInv, Base, BaseMask, Blocks
  <2>5. CASE Sg!Continue
    <3>1. UNCHANGED <<frames, sprog, before, smask, spend, disp, oldmask, oldact, timer, flag, env,
                      child, status, halted, misjump>> /\ sst = "stopped" /\ sst' = "runs"
      BY <1>1, <2>5, Resumes
    <3> QED BY <1>1, <1>3, <3>1 DEF AbortInv, Base, BaseMask, Blocks
  <2>6. CASE Sg!Quiet
    <3>1. UNCHANGED <<frames, sprog, before, sst, smask, spend, disp, oldmask, oldact, timer, flag,
                      env, child, status, halted, misjump>>
      BY <2>6 DEF Sg!Quiet, Sg!vars
    <3> QED BY <1>1, <1>3, <3>1 DEF AbortInv, Base, BaseMask, Blocks
  <2>7. CASE Sg!Input
    <3>1. Base.asleep /\ Ins[1] = "read"
      BY <2>7, ShapeTyped
    <3> QED BY <1>1, <1>3, <3>1, AbortWaits
  <2>8. ASSUME NEW s \in Sg!Sig, Sg!Deliver(s) PROVE AbortInv'
    <3>1. /\ spend' = spend \ {s} /\ s \in spend /\ sst = "runs" /\ sst' # "exited"
          /\ UNCHANGED <<disp, timer, child>> /\ s = "ABRT"
      BY <1>3, <2>8, Delivered DEF AbortInv
    <3>2. CASE disp[s] = "dfl"
      <4>1. frames' = frames /\ smask' = smask /\ sst' = "killed"
        BY <2>8, <3>1, <3>2, Delivered
      <4> QED BY <1>1, <1>3, <3>1, <4>1 DEF AbortInv, Base
    <3>3. CASE disp[s] # "dfl"
      <4>1. Base'.at = IF Base.asleep /\ (Ins[1] # "read" \/ s = "ALRM") THEN Base.at + 1 ELSE Base.at
        BY <2>8, <3>3, ShapeDelivered
      <4>2. ~Base.asleep
        BY <1>1, <1>3, AbortWaits
      <4> QED BY <1>1, <1>3, <3>1, <3>3, <4>1, <4>2 DEF AbortInv
    <3> QED BY <3>2, <3>3
  <2> QED BY <2>1, <2>2, <2>3, <2>4, <2>5, <2>6, <2>7, <2>8 DEF Sg!Next
<1> QED BY <1>2, <1>3

\* signals/sleep2.c and read2.c: the handler jumps.
LEMMA JumpHandler ==
  ASSUME SigTypes, SigShape, JumpInv, sprog \in {"sleep2", "read2"}, Len(frames) > 1, Sg!Step
  PROVE  JumpInv'
<1>1. /\ SigTypes /\ SigShape /\ FrameShape /\ Live /\ Sg!Step /\ sprog \in {"sleep2", "read2"}
      /\ Len(frames) > 1
      /\ Sg!Top = frames[Len(frames)] /\ Sg!Top.fn \in {"longjmp"} /\ ~Base.asleep
      /\ Sg!Top.at \in 1..Len(Sg!Code(Sg!Top.fn)) /\ Len(frames) \in Nat /\ Len(frames) # 1
  <2>1. HandlersOf(sprog) = {"longjmp"}
    BY DEF HandlersOf
  <2> QED BY <2>1, HandlerStep
<1>2. Sg!Top.fn = "longjmp" /\ Sg!Top.at = 1
  <2>1. Sg!Top.at \in 1..1
    BY <1>1, LongJmpCode
  <2> QED BY <1>1, <2>1
<1>3. Ins[1] = "longjmp"
  BY <1>2, LongJmpCode DEF Ins
<1>4. Base.at \in Nat /\ Base.at >= 4 /\ env # <<>> /\ env[1].at >= 5 /\ disp["ALRM"] = "longjmp"
  <2>1. Base.at \in Nat
    <3>1. 1 \in 1..Len(frames) /\ frames \in Seq(Calls)
      BY <1>1 DEF SigTypes
    <3>2. Base \in Calls
      BY <3>1, ElementOfSeq DEF Base
    <3> QED BY <3>2 DEF Calls
  <2> QED BY <1>1, <2>1 DEF JumpInv
<1>5. env[1].depth = 1 /\ env[1].at \in Nat /\ env[1].mask \in SUBSET Sg!Sig
  BY <1>1, <1>4, Sleep2Code, Read2Code, SMTT(30) DEF SigShape, EnvShape
<1>6. /\ Call(frames'[1], Base.fn, env[1].at, FALSE, Base.mask) /\ Len(frames') = 1
      /\ UNCHANGED <<sprog, env, spend, child, timer, disp>>
  BY <1>1, <1>3, <1>4, <1>5, DoLongJmp
<1>7. Base'.at = env[1].at
  BY <1>6 DEF Call, Base
<1> QED BY <1>1, <1>4, <1>5, <1>6, <1>7 DEF JumpInv

\* signals/sleep2.c and read2.c.
LEMMA JumpNext ==
  ASSUME SigTypes, SigShape, JumpInv, Sg!Next
  PROVE  JumpInv'
<1>1. SigTypes /\ SigShape /\ sprog \in Sg!Programs /\ sprog' = sprog /\ before' = before
      /\ Len(frames) \in Nat \ {0}
  BY ShapeNext DEF SigShape, FrameShape, SigTypes
<1>2. CASE ~(sprog \in {"sleep2", "read2"})
  BY <1>1, <1>2 DEF JumpInv
<1>3. CASE sprog \in {"sleep2", "read2"}
  <2>1. CASE Sg!Step
    <3>1. CASE Len(frames) = 1
      BY <1>3, <2>1, <3>1, Sleep2Base, Read2Base
    <3>2. CASE Len(frames) > 1
      BY <1>3, <2>1, <3>2, JumpHandler
    <3>3. Len(frames) = 1 \/ Len(frames) > 1
      <4>1. PICK l \in Nat \ {0} : l = Len(frames)
        BY <1>1
      <4>2. l = 1 \/ l > 1
        OBVIOUS
      <4> QED BY <4>1, <4>2
    <3> QED BY <3>1, <3>2, <3>3
  <2>2. CASE Sg!AlarmRings
    <3>1. UNCHANGED <<frames, sprog, before, sst, smask, disp, oldmask, oldact, flag, env, child,
                      status, halted, misjump>>
          /\ timer /\ sst \in {"runs", "stopped"} /\ timer' = FALSE
          /\ spend' = IF disp["ALRM"] = "ign" THEN spend ELSE spend \union {"ALRM"}
      BY <1>1, <2>2, Rings
    <3> QED BY <1>1, <1>3, <3>1 DEF JumpInv, Base, BaseMask, Blocks
  <2>3. CASE Sg!ChildEnds
    <3>1. UNCHANGED <<frames, sprog, before, sst, smask, disp, oldmask, oldact, timer, flag, env,
                      status, halted, misjump>>
          /\ child = "runs" /\ sst = "runs" /\ child' = "zombie"
          /\ spend' = IF disp["CHLD"] = "ign" THEN spend ELSE spend \union {"CHLD"}
      BY <1>1, <2>3, ChildDies
    <3> QED BY <1>1, <1>3, <3>1 DEF JumpInv, Base, BaseMask, Blocks
  <2>4. CASE Sg!SendSignal
    <3>1. /\ UNCHANGED <<frames, sprog, before, sst, smask, disp, oldmask, oldact, timer, flag,
                         env, child, status, halted, misjump>>
          /\ \E s \in Sg!SentTo(sprog) \cap Sg!Sig : spend' = IF disp[s] = "ign" THEN spend ELSE spend \union {s}
      BY <1>1, <2>4, Posted
    <3>2. PICK s \in Sg!SentTo(sprog) \cap Sg!Sig : spend' = IF disp[s] = "ign" THEN spend ELSE spend \union {s}
      BY <3>1
    <3> QED BY <1>1, <1>3, <3>1, <3>2, SentKnown DEF JumpInv, Base, BaseMask, Blocks
  <2>5. CASE Sg!Continue
    <3>1. UNCHANGED <<frames, sprog, before, smask, spend, disp, oldmask, oldact, timer, flag, env,
                      child, status, halted, misjump>> /\ sst = "stopped" /\ sst' = "runs"
      BY <1>1, <2>5, Resumes
    <3> QED BY <1>1, <1>3, <3>1 DEF JumpInv, Base, BaseMask, Blocks
  <2>6. CASE Sg!Quiet
    <3>1. UNCHANGED <<frames, sprog, before, sst, smask, spend, disp, oldmask, oldact, timer, flag,
                      env, child, status, halted, misjump>>
      BY <2>6 DEF Sg!Quiet, Sg!vars
    <3> QED BY <1>1, <1>3, <3>1 DEF JumpInv, Base, BaseMask, Blocks
  <2>7. CASE Sg!Input
    <3>1. /\ Base.asleep /\ Len(frames') = 1 /\ Base'.at = Base.at + 1
          /\ UNCHANGED <<disp, timer, child, env, spend>>
      BY <2>7, ShapeTyped, Typed
    <3>2. Base.at = 4
      BY <1>1, <1>3, <3>1, Sleep2Waits, Read2Waits
    <3> QED BY <1>1, <1>3, <3>1, <3>2 DEF JumpInv
  <2>8. ASSUME NEW s \in Sg!Sig, Sg!Deliver(s) PROVE JumpInv'
    <3>1. /\ spend' = spend \ {s} /\ s \in spend /\ s = "ALRM" /\ UNCHANGED <<disp, timer, child,
                                                                              env>>
      BY <1>3, <2>8, Delivered DEF JumpInv
    <3>2. Base.at \in Nat /\ Base.at >= 4 /\ disp[s] = "longjmp" /\ env # <<>> /\ env[1].at >= 5
      <4>1. Base.at \in Nat
        <5>1. 1 \in 1..Len(frames) /\ frames \in Seq(Calls)
          BY <1>1 DEF SigTypes
        <5>2. Base \in Calls
          BY <5>1, ElementOfSeq DEF Base
        <5> QED BY <5>2 DEF Calls
      <4>2. ~(Base.at <= 3)
        BY <1>3, <3>1 DEF JumpInv
      <4> QED BY <1>3, <3>1, <4>1, <4>2 DEF JumpInv
    <3>3. /\ Len(frames') = Len(frames) + 1
          /\ Base'.at = IF Base.asleep /\ (Ins[1] # "read" \/ s = "ALRM") THEN Base.at + 1 ELSE Base.at
      BY <2>8, <3>2, ShapeDelivered
    <3>4. Base'.at >= 4 /\ Base'.at \in Nat /\ Len(frames') # 1
      <4>1. PICK l \in Nat \ {0} : l = Len(frames)
        BY <1>1
      <4>2. l + 1 # 1
        BY <4>1
      <4> QED BY <3>2, <3>3, <4>1, <4>2
    <3> QED BY <1>1, <1>3, <3>1, <3>2, <3>4 DEF JumpInv
  <2> QED BY <2>1, <2>2, <2>3, <2>4, <2>5, <2>6, <2>7, <2>8 DEF Sg!Next
<1> QED BY <1>2, <1>3

\* signals/sigtstp.c: a step of sig_tstp.
LEMMA StopHandler ==
  ASSUME SigTypes, SigShape, StopInv, sprog = "sigtstp", Len(frames) > 1, Sg!Step
  PROVE  StopInv'
<1>1. /\ SigTypes /\ SigShape /\ FrameShape /\ Live /\ Sg!Step /\ sprog = "sigtstp" /\ Len(frames) > 1
      /\ Sg!Top = frames[Len(frames)] /\ Sg!Top.fn \in {"sig_tstp"} /\ ~Base.asleep
      /\ Sg!Top.at \in 1..Len(Sg!Code(Sg!Top.fn)) /\ Len(frames) \in Nat /\ Len(frames) # 1
  <2>1. HandlersOf(sprog) = {"sig_tstp"}
    BY DEF HandlersOf
  <2> QED BY <2>1, HandlerStep
<1>2. PICK d \in Nat : d = Len(frames) /\ d > 1 /\ d \in 2..Len(frames) /\ Sg!Top = frames[d]
  BY <1>1
<1>3. /\ Sg!Top.fn = "sig_tstp" /\ Sg!Top.at \in 1..5 /\ Len(Sg!Code(Sg!Top.fn)) = 5
      /\ "TSTP" \in Sg!Sig /\ "dfl" \in Acts /\ "sig_tstp" \in Acts
  BY <1>1, SigStopCode DEF Sg!Sig, Acts, Handlers
<1>4. /\ spend \subseteq {"TSTP"} /\ ~timer /\ child = "none" /\ "TSTP" \notin BaseMask
      /\ (\A k \in 2..d : "TSTP" \notin frames[k].mask) /\ (\A k \in 2..d - 1 : frames[k].at \in {2, 5})
  BY <1>1, <1>2 DEF StopInv
<1>5. /\ Sg!Top.at # 1 => "TSTP" \notin smask
      /\ Sg!Top.at \in {3, 4} => disp["TSTP"] = "dfl"
      /\ Sg!Top.at = 4 => halted \/ "TSTP" \in spend
      /\ Sg!Top.at = 5 => halted
  BY <1>1, <1>2 DEF StopInv
<1>6. ASSUME NEW to \in 2..5, Moves(to), UNCHANGED <<sprog, timer, child>>, spend' \subseteq {"TSTP"},
             "TSTP" \notin smask', to \in {3, 4} => disp'["TSTP"] = "dfl",
             to = 4 => "TSTP" \in spend', to = 5 => halted'
      PROVE  StopInv'
  <2>1. to \in 1..Len(Sg!Code(Sg!Top.fn))
    BY <1>3, <1>6
  <2>2. /\ Len(frames') = d /\ BaseMask' = BaseMask /\ (\A k \in 1..d : frames'[k].mask = frames[k].mask)
        /\ (\A k \in 1..d - 1 : frames'[k].at = frames[k].at) /\ frames'[d].at = to
    BY <1>1, <1>2, <1>6, <2>1, UpMoves
  <2>3. \A k \in 2..d : "TSTP" \notin frames'[k].mask
    BY <1>4, <2>2
  <2>4. \A k \in 2..d : k < d => frames'[k].at \in {2, 5}
    BY <1>4, <2>2
  <2> QED BY <1>1, <1>2, <1>4, <1>6, <2>2, <2>3, <2>4 DEF StopInv
<1>7. CASE Sg!Top.at = 1
  <2>1. Ins[1] = "unblock" /\ Ins[2] = "TSTP"
    BY <1>3, <1>7, SigStopCode DEF Ins
  <2>2. Moves(2) /\ UNCHANGED <<sprog, timer, child, spend>> /\ smask' = smask \ {"TSTP"}
    BY <1>1, <1>3, <1>7, <2>1, DoUnblock
  <2>8. PICK to \in 2..5 : to = 2 /\ Moves(to)
    BY <2>2
  <2>9. /\ UNCHANGED <<sprog, timer, child>> /\ spend' \subseteq {"TSTP"} /\ "TSTP" \notin smask'
        /\ (to \in {3, 4} => disp'["TSTP"] = "dfl") /\ (to = 4 => "TSTP" \in spend') /\ (to = 5 => halted')
    BY <1>4, <2>2, <2>8
  <2> QED BY <1>6, <2>8, <2>9
<1>8. CASE Sg!Top.at = 2
  <2>1. Ins[1] = "signal" /\ Ins[2] = "TSTP" /\ Ins[3] = "dfl"
    BY <1>3, <1>8, SigStopCode DEF Ins
  <2>2. Moves(3) /\ UNCHANGED <<sprog, timer, child, spend, smask>> /\ disp' = [disp EXCEPT !["TSTP"] = "dfl"]
    BY <1>1, <1>3, <1>8, <2>1, DoSignal
  <2>3. disp'["TSTP"] = "dfl"
    BY <1>1, <1>3, <2>2 DEF SigTypes
  <2>8. PICK to \in 2..5 : to = 3 /\ Moves(to)
    BY <2>2
  <2>9. /\ UNCHANGED <<sprog, timer, child>> /\ spend' \subseteq {"TSTP"} /\ "TSTP" \notin smask'
        /\ (to \in {3, 4} => disp'["TSTP"] = "dfl") /\ (to = 4 => "TSTP" \in spend') /\ (to = 5 => halted')
    BY <1>4, <1>5, <1>8, <2>2, <2>3, <2>8
  <2> QED BY <1>6, <2>8, <2>9
<1>9. CASE Sg!Top.at = 3
  <2>1. Ins[1] = "kill" /\ Ins[2] = "TSTP"
    BY <1>3, <1>9, SigStopCode DEF Ins
  <2>2. /\ Moves(4) /\ UNCHANGED <<sprog, timer, child, disp, smask>> /\ spend' = spend \union {"TSTP"}
    <3>2. PICK s \in Sg!Sig : s = "TSTP" /\ Ins[2] = s
      BY <1>3, <2>1
    <3>1. Moves(4) /\ UNCHANGED <<sprog, timer, child, disp, smask>>
      <4>1. Moves(Sg!Top.at + 1) /\ UNCHANGED <<sprog, timer, child, disp, smask>>
        BY <1>1, <2>1, <3>2, DoKill
      <4>2. Sg!Top.at + 1 = 4
        BY <1>9
      <4> QED BY <4>1, <4>2
    <3>3. spend' = IF disp[s] # "ign" THEN spend \union {s} ELSE spend
      BY <1>1, <2>1, <3>2, DoKill
    <3>4. disp[s] = "dfl"
      BY <1>5, <1>9, <3>2
    <3> QED BY <3>1, <3>2, <3>3, <3>4
  <2>8. PICK to \in 2..5 : to = 4 /\ Moves(to)
    BY <2>2
  <2>9. /\ UNCHANGED <<sprog, timer, child>> /\ spend' \subseteq {"TSTP"} /\ "TSTP" \notin smask'
        /\ (to \in {3, 4} => disp'["TSTP"] = "dfl") /\ (to = 4 => "TSTP" \in spend') /\ (to = 5 => halted')
    BY <1>4, <1>5, <1>9, <2>2, <2>8
  <2> QED BY <1>6, <2>8, <2>9
<1>10. CASE Sg!Top.at = 4
  <2>1. Ins[1] = "signal" /\ Ins[2] = "TSTP" /\ Ins[3] = "sig_tstp"
    BY <1>3, <1>10, SigStopCode DEF Ins
  <2>2. Moves(5) /\ UNCHANGED <<sprog, timer, child, spend, smask, halted>>
    BY <1>1, <1>3, <1>10, <2>1, DoSignal
  <2>3. halted
    <3>1. Sg!Deliverable = {}
      BY <1>1 DEF Live
    <3>2. "TSTP" \notin spend
      BY <1>5, <1>10, <3>1 DEF Sg!Deliverable
    <3> QED BY <1>5, <1>10, <3>2
  <2>8. PICK to \in 2..5 : to = 5 /\ Moves(to)
    BY <2>2
  <2>9. /\ UNCHANGED <<sprog, timer, child>> /\ spend' \subseteq {"TSTP"} /\ "TSTP" \notin smask'
        /\ (to \in {3, 4} => disp'["TSTP"] = "dfl") /\ (to = 4 => "TSTP" \in spend') /\ (to = 5 => halted')
    BY <1>4, <1>5, <1>10, <2>2, <2>3, <2>8
  <2> QED BY <1>6, <2>8, <2>9
<1>11. CASE Sg!Top.at = 5
  <2>1. Ins[1] = "ret"
    BY <1>3, <1>11, SigStopCode DEF Ins
  <2>2. /\ Len(frames') = d - 1 /\ BaseMask' = BaseMask /\ smask' = frames[d].mask
        /\ (\A k \in 1..d - 1 : frames'[k] = frames[k])
        /\ UNCHANGED <<sprog, spend, timer, child, halted>>
    BY <1>1, <1>2, <2>1, RetStep
  <2>3. halted /\ "TSTP" \notin smask'
    BY <1>2, <1>4, <1>5, <1>11, <2>2
  <2>4. ASSUME NEW k \in 2..d - 1 PROVE "TSTP" \notin frames'[k].mask /\ frames'[k].at \in {2, 5}
    BY <1>2, <1>4, <2>2
  <2> QED BY <1>1, <1>2, <1>4, <2>2, <2>3, <2>4 DEF StopInv
<1> QED BY <1>3, <1>7, <1>8, <1>9, <1>10, <1>11

\* signals/sigtstp.c.
LEMMA StopNext ==
  ASSUME SigTypes, SigShape, StopInv, Sg!Next
  PROVE  StopInv'
<1>1. SigTypes /\ SigShape /\ sprog \in Sg!Programs /\ sprog' = sprog /\ before' = before
      /\ Len(frames) \in Nat \ {0}
  BY ShapeNext DEF SigShape, FrameShape, SigTypes
<1>2. CASE ~(sprog = "sigtstp")
  BY <1>1, <1>2 DEF StopInv
<1>3. CASE sprog = "sigtstp"
  <2>1. CASE Sg!Step
    <3>1. CASE Len(frames) = 1
      BY <1>3, <2>1, <3>1, StopBase
    <3>2. CASE Len(frames) > 1
      BY <1>3, <2>1, <3>2, StopHandler
    <3>3. Len(frames) = 1 \/ Len(frames) > 1
      <4>1. PICK l \in Nat \ {0} : l = Len(frames)
        BY <1>1
      <4>2. l = 1 \/ l > 1
        OBVIOUS
      <4> QED BY <4>1, <4>2
    <3> QED BY <3>1, <3>2, <3>3
  <2>2. CASE Sg!AlarmRings
    <3>1. UNCHANGED <<frames, sprog, before, sst, smask, disp, oldmask, oldact, flag, env, child,
                      status, halted, misjump>>
          /\ timer /\ sst \in {"runs", "stopped"} /\ timer' = FALSE
          /\ spend' = IF disp["ALRM"] = "ign" THEN spend ELSE spend \union {"ALRM"}
      BY <1>1, <2>2, Rings
    <3> QED BY <1>1, <1>3, <3>1 DEF StopInv, Base, BaseMask, Blocks
  <2>3. CASE Sg!ChildEnds
    <3>1. UNCHANGED <<frames, sprog, before, sst, smask, disp, oldmask, oldact, timer, flag, env,
                      status, halted, misjump>>
          /\ child = "runs" /\ sst = "runs" /\ child' = "zombie"
          /\ spend' = IF disp["CHLD"] = "ign" THEN spend ELSE spend \union {"CHLD"}
      BY <1>1, <2>3, ChildDies
    <3> QED BY <1>1, <1>3, <3>1 DEF StopInv, Base, BaseMask, Blocks
  <2>4. CASE Sg!SendSignal
    <3>1. /\ UNCHANGED <<frames, sprog, before, sst, smask, disp, oldmask, oldact, timer, flag,
                         env, child, status, halted, misjump>>
          /\ \E s \in Sg!SentTo(sprog) \cap Sg!Sig : spend' = IF disp[s] = "ign" THEN spend ELSE spend \union {s}
      BY <1>1, <2>4, Posted
    <3>2. PICK s \in Sg!SentTo(sprog) \cap Sg!Sig : spend' = IF disp[s] = "ign" THEN spend ELSE spend \union {s}
      BY <3>1
    <3> QED BY <1>1, <1>3, <3>1, <3>2, SentKnown DEF StopInv, Base, BaseMask, Blocks
  <2>5. CASE Sg!Continue
    <3>1. UNCHANGED <<frames, sprog, before, smask, spend, disp, oldmask, oldact, timer, flag, env,
                      child, status, halted, misjump>> /\ sst = "stopped" /\ sst' = "runs"
      BY <1>1, <2>5, Resumes
    <3> QED BY <1>1, <1>3, <3>1 DEF StopInv, Base, BaseMask, Blocks
  <2>6. CASE Sg!Quiet
    <3>1. UNCHANGED <<frames, sprog, before, sst, smask, spend, disp, oldmask, oldact, timer, flag,
                      env, child, status, halted, misjump>>
      BY <2>6 DEF Sg!Quiet, Sg!vars
    <3> QED BY <1>1, <1>3, <3>1 DEF StopInv, Base, BaseMask, Blocks
  <2>7. CASE Sg!Input
    <3>1. /\ Len(frames) = 1 /\ Len(frames') = 1 /\ BaseMask' = smask
          /\ UNCHANGED <<timer, child, spend, smask>>
      BY <2>7, ShapeTyped, Typed
    <3> QED BY <1>1, <1>3, <3>1 DEF StopInv
  <2>8. ASSUME NEW s \in Sg!Sig, Sg!Deliver(s) PROVE StopInv'
    <3>1. /\ spend' = spend \ {s} /\ s = "TSTP" /\ s \notin smask /\ spend \subseteq {"TSTP"}
          /\ UNCHANGED <<disp, timer, child, env>> /\ ~timer /\ child = "none" /\ "TSTP" \notin BaseMask
      BY <1>3, <2>8, Delivered DEF StopInv
    <3>2. CASE disp[s] = "dfl"
      <4>1. frames' = frames /\ smask' = smask /\ halted' = TRUE
        BY <2>8, <3>1, <3>2, Delivered
      <4> QED BY <1>1, <1>3, <3>1, <4>1 DEF StopInv, Base, BaseMask
    <3>3. CASE disp[s] # "dfl"
      <4>1. PICK d \in Nat \ {0} : d = Len(frames) /\ d \in 1..Len(frames) /\ Sg!Top = frames[d]
        BY <1>1, TopCall
      <4>2. /\ smask' = smask \union {s} /\ BaseMask' = BaseMask /\ Len(frames') = d + 1
            /\ \A k \in 2..d : frames'[k].at = frames[k].at /\ frames'[k].mask = frames[k].mask
        BY <2>8, <3>3, <4>1, ShapeDelivered
      <4>3. frames'[d + 1].at = 1 /\ frames'[d + 1].mask = IF Sg!Top.asleep THEN Sg!Top.mask ELSE smask
        BY <2>8, <3>3, <4>1, ShapeDelivered
      <4>4. Sg!Top.asleep => d = 1 /\ BaseMask = Sg!Top.mask
        <5>1. ASSUME Sg!Top.asleep PROVE d = 1
          <6>1. d > 1 => d \in 2..Len(frames)
            BY <4>1
          <6> QED BY <1>1, <4>1, <5>1, <6>1 DEF SigShape, FrameShape
        <5> QED BY <4>1, <5>1 DEF BaseMask, Base
      <4>5. "TSTP" \notin frames'[d + 1].mask
        BY <3>1, <4>3, <4>4
      <4>6. ASSUME NEW k \in 2..d PROVE "TSTP" \notin frames'[k].mask /\ frames'[k].at \in {2, 5}
        <5>1. "TSTP" \notin frames[k].mask /\ frames[k].at \in 1..5
          <6>1. k \in 2..Len(frames) /\ k \in 1..Len(frames)
            BY <4>1, <4>6
          <6>2. frames[k].fn = "sig_tstp" /\ frames[k].at \in 1..Len(Sg!Code(frames[k].fn))
            BY <1>1, <1>3, <6>1 DEF SigShape, FrameShape, HandlersOf
          <6> QED BY <1>3, <6>1, <6>2, SigStopCode DEF StopInv
        <5>2. CASE k = d
          <6>1. frames[k].at # 1 /\ frames[k].at \notin {3, 4}
            BY <1>3, <3>1, <3>3, <4>1, <4>6, <5>2 DEF StopInv
          <6> QED BY <4>2, <5>1, <6>1
        <5>3. CASE k # d
          <6>1. frames[k].at \in {2, 5}
            BY <1>3, <4>1, <4>6, <5>3 DEF StopInv
          <6> QED BY <4>2, <5>1, <6>1
        <5> QED BY <5>2, <5>3
      <4>7. \A k \in 2..d + 1 : k < d + 1 => k \in 2..d
        OBVIOUS
      <4>8. ASSUME NEW k \in 2..d + 1
            PROVE  /\ "TSTP" \notin frames'[k].mask
                   /\ k < d + 1 => frames'[k].at \in {2, 5}
                   /\ k = d + 1 => frames'[k].at = 1 /\ "TSTP" \in smask'
        <5>1. CASE k = d + 1
          BY <3>1, <4>1, <4>2, <4>3, <4>5, <5>1
        <5>2. CASE k # d + 1
          <6>1. k \in 2..d
            BY <5>2
          <6> QED BY <4>6, <5>2, <6>1
        <5> QED BY <5>1, <5>2
      <4>9. Len(frames') # 1
        BY <4>1, <4>2
      <4> QED BY <1>1, <1>3, <3>1, <4>2, <4>8, <4>9 DEF StopInv
    <3> QED BY <3>2, <3>3
  <2> QED BY <2>1, <2>2, <2>3, <2>4, <2>5, <2>6, <2>7, <2>8 DEF Sg!Next
<1> QED BY <1>2, <1>3

\* signals/system.c: a step of a handler.
LEMMA SystemHandler ==
  ASSUME SigTypes, SigShape, SystemInv, sprog = "system", Len(frames) > 1, Sg!Step
  PROVE  SystemInv'
<1>1. /\ SigTypes /\ SigShape /\ FrameShape /\ Live /\ Sg!Step /\ sprog = "system" /\ Len(frames) > 1
      /\ Sg!Top = frames[Len(frames)] /\ Sg!Top.fn \in {"return", "sig_cld"} /\ ~Base.asleep
      /\ Sg!Top.at \in 1..Len(Sg!Code(Sg!Top.fn)) /\ Len(frames) \in Nat /\ Len(frames) # 1
  <2>1. HandlersOf(sprog) = {"return", "sig_cld"}
    BY DEF HandlersOf
  <2> QED BY <2>1, HandlerStep
<1>2. PICK d \in Nat : d = Len(frames) /\ d > 1 /\ d \in 2..Len(frames) /\ Sg!Top = frames[d]
  BY <1>1
<1>3. /\ Base.at \notin 4..6 /\ sst = "runs" /\ Base.at \in 1..9
      /\ Sg!Top.fn = "sig_cld" =>
           /\ Base.at \notin 1..4 /\ before.disp["CHLD"] = "sig_cld" /\ disp["CHLD"] = "sig_cld"
  <2>1. Base.at \in 1..9
    <3>1. 1 \in 1..Len(frames) /\ Base.fn = "system"
      BY <1>1, <1>2 DEF FrameShape
    <3> QED BY <1>1, <3>1, SystemCode DEF FrameShape, Base
  <2>2. sst = "runs" /\ "CHLD" \in Sg!Sig \ {"INT", "QUIT"}
    BY <1>1 DEF Live, Sg!Sig
  <2>3. Base.at \notin 4..6
    BY <1>1 DEF SystemInv
  <2>4. Sg!Top.fn = "sig_cld" => Base.at \notin 1..4 /\ before.disp["CHLD"] = "sig_cld"
    BY <1>1, <1>2 DEF SystemInv
  <2>5. disp["CHLD"] = before.disp["CHLD"]
    BY <1>1, <2>2 DEF SystemInv
  <2> QED BY <2>1, <2>2, <2>3, <2>4, <2>5
<1>4. CASE Ins[1] = "ret"
  <2>1. /\ Base' = Base /\ BaseMask' = BaseMask /\ Len(frames') = d - 1
        /\ (\A k \in 1..d - 1 : frames'[k] = frames[k])
        /\ UNCHANGED <<sprog, before, sst, spend, disp, oldmask, timer, child, status>>
    BY <1>1, <1>2, <1>4, RetStep
  <2>2. \A k \in 2..d - 1 : frames'[k].fn = frames[k].fn
    BY <2>1
  <2> QED BY <1>1, <1>2, <1>3, <2>1, <2>2 DEF SystemInv
<1>5. ASSUME Sg!Top.fn = "sig_cld", NEW to \in 2..3, Moves(to), child' = child \/ Base.at \in 7..9,
             UNCHANGED <<sprog, before, sst, spend, disp, oldmask, timer, status>>
      PROVE  SystemInv'
  <2>1. to \in 1..Len(Sg!Code(Sg!Top.fn))
    BY <1>5, CldCode
  <2>2. /\ Base' = Base /\ BaseMask' = BaseMask /\ Len(frames') = d
        /\ \A k \in 1..d : frames'[k].fn = frames[k].fn
    BY <1>1, <1>2, <1>5, <2>1, UpMoves
  <2>3. \A k \in 2..d : frames'[k].fn = frames[k].fn
    BY <2>2
  <2> QED BY <1>1, <1>2, <1>3, <1>5, <2>2, <2>3 DEF SystemInv
<1>6. CASE Sg!Top.fn = "sig_cld" /\ Sg!Top.at = 1
  <2>1. Ins[1] = "signal" /\ Ins[2] = "CHLD" /\ Ins[3] = "sig_cld" /\ "CHLD" \in Sg!Sig /\ "sig_cld" \in Acts
    BY <1>6, CldCode DEF Ins, Sg!Sig, Acts, Handlers
  <2>2. /\ Moves(2) /\ disp' = [disp EXCEPT !["CHLD"] = "sig_cld"]
        /\ UNCHANGED <<sprog, before, sst, spend, oldmask, timer, child, status>>
    BY <1>1, <1>6, <2>1, DoSignal
  <2>3. disp' = disp
    BY <1>1, <1>3, <1>6, <2>1, <2>2 DEF SigTypes
  <2> QED BY <1>5, <1>6, <2>2, <2>3
<1>7. CASE Sg!Top.fn = "sig_cld" /\ Sg!Top.at = 2
  <2>1. Ins[1] = "wait"
    BY <1>7, CldCode DEF Ins
  <2>2. Moves(3) /\ UNCHANGED <<sprog, before, sst, spend, disp, oldmask, timer, status>>
    BY <1>1, <1>7, <2>1, DoWaitChild
  <2>3. Base.at \in 7..9
    BY <1>3, <1>7
  <2> QED BY <1>5, <1>7, <2>2, <2>3
<1> QED
  <2>1. CASE Sg!Top.fn = "return"
    BY <1>1, <1>4, <2>1, ReturnCode DEF Ins
  <2>2. CASE Sg!Top.fn = "sig_cld"
    <3>1. Sg!Top.at \in 1..3
      BY <1>1, <2>2, CldCode
    <3>2. Sg!Top.at = 3 => Ins[1] = "ret"
      BY <2>2, CldCode DEF Ins
    <3> QED BY <1>4, <1>6, <1>7, <2>2, <3>1, <3>2
  <2> QED BY <1>1, <2>1, <2>2

\* signals/system.c.
LEMMA SystemNext ==
  ASSUME SigTypes, SigShape, SystemInv, Sg!Next
  PROVE  SystemInv'
<1>1. SigTypes /\ SigShape /\ sprog \in Sg!Programs /\ sprog' = sprog /\ before' = before
      /\ Len(frames) \in Nat \ {0}
  BY ShapeNext DEF SigShape, FrameShape, SigTypes
<1>2. CASE ~(sprog = "system")
  BY <1>1, <1>2 DEF SystemInv
<1>3. CASE sprog = "system"
  <2>1. CASE Sg!Step
    <3>1. CASE Len(frames) = 1
      BY <1>3, <2>1, <3>1, SystemBase
    <3>2. CASE Len(frames) > 1
      BY <1>3, <2>1, <3>2, SystemHandler
    <3>3. Len(frames) = 1 \/ Len(frames) > 1
      <4>1. PICK l \in Nat \ {0} : l = Len(frames)
        BY <1>1
      <4>2. l = 1 \/ l > 1
        OBVIOUS
      <4> QED BY <4>1, <4>2
    <3> QED BY <3>1, <3>2, <3>3
  <2>2. CASE Sg!AlarmRings
    <3>1. UNCHANGED <<frames, sprog, before, sst, smask, disp, oldmask, oldact, flag, env, child,
                      status, halted, misjump>>
          /\ timer /\ sst \in {"runs", "stopped"} /\ timer' = FALSE
          /\ spend' = IF disp["ALRM"] = "ign" THEN spend ELSE spend \union {"ALRM"}
      BY <1>1, <2>2, Rings
    <3> QED BY <1>1, <1>3, <3>1 DEF SystemInv, Base, BaseMask, Blocks
  <2>3. CASE Sg!ChildEnds
    <3>1. UNCHANGED <<frames, sprog, before, sst, smask, disp, oldmask, oldact, timer, flag, env,
                      status, halted, misjump>>
          /\ child = "runs" /\ sst = "runs" /\ child' = "zombie"
          /\ spend' = IF disp["CHLD"] = "ign" THEN spend ELSE spend \union {"CHLD"}
      BY <1>1, <2>3, ChildDies
    <3> QED BY <1>1, <1>3, <3>1 DEF SystemInv, Base, BaseMask, Blocks
  <2>4. CASE Sg!SendSignal
    <3>1. /\ UNCHANGED <<frames, sprog, before, sst, smask, disp, oldmask, oldact, timer, flag,
                         env, child, status, halted, misjump>>
          /\ \E s \in Sg!SentTo(sprog) \cap Sg!Sig : spend' = IF disp[s] = "ign" THEN spend ELSE spend \union {s}
      BY <1>1, <2>4, Posted
    <3>2. PICK s \in Sg!SentTo(sprog) \cap Sg!Sig : spend' = IF disp[s] = "ign" THEN spend ELSE spend \union {s}
      BY <3>1
    <3> QED BY <1>1, <1>3, <3>1, <3>2, SentKnown DEF SystemInv, Base, BaseMask, Blocks
  <2>5. CASE Sg!Continue
    <3>1. UNCHANGED <<frames, sprog, before, smask, spend, disp, oldmask, oldact, timer, flag, env,
                      child, status, halted, misjump>> /\ sst = "stopped" /\ sst' = "runs"
      BY <1>1, <2>5, Resumes
    <3> QED BY <1>1, <1>3, <3>1 DEF SystemInv, Base, BaseMask, Blocks
  <2>6. CASE Sg!Quiet
    <3>1. UNCHANGED <<frames, sprog, before, sst, smask, spend, disp, oldmask, oldact, timer, flag,
                      env, child, status, halted, misjump>>
      BY <2>6 DEF Sg!Quiet, Sg!vars
    <3> QED BY <1>1, <1>3, <3>1 DEF SystemInv, Base, BaseMask, Blocks
  <2>7. CASE Sg!Input
    <3>1. Base.asleep /\ Ins[1] = "read"
      BY <2>7, ShapeTyped
    <3> QED BY <1>1, <1>3, <3>1, SystemWaits
  <2>8. ASSUME NEW s \in Sg!Sig, Sg!Deliver(s) PROVE SystemInv'
    <3>1. /\ spend' = spend \ {s} /\ s \in spend /\ s \notin smask /\ s \in {"INT", "QUIT", "CHLD"}
          /\ sst = "runs"
          /\ UNCHANGED <<before, disp, oldmask, timer, child, status>> /\ disp[s] # "ign" /\ sst' # "exited"
      BY <1>3, <2>8, Delivered DEF SystemInv
    <3>2. CASE disp[s] = "dfl"
      <4>1. frames' = frames /\ smask' = smask
        BY <2>8, <3>2, ShapeDelivered
      <4> QED BY <1>1, <1>3, <3>1, <4>1 DEF SystemInv, Base, BaseMask
    <3>3. CASE disp[s] # "dfl"
      <4>1. PICK d \in Nat \ {0} : d = Len(frames) /\ d \in 1..Len(frames)
        BY <1>1
      <4>2. /\ disp[s] \in HandlersOf(sprog) /\ BaseMask' = BaseMask /\ Len(frames') = d + 1
            /\ (\A k \in 2..d : frames'[k].fn = frames[k].fn) /\ frames'[d + 1].fn = disp[s]
        BY <2>8, <3>3, <4>1, ShapeDelivered
      <4>3. ~Base.asleep
        BY <1>1, <1>3, SystemWaits
      <4>4. Base'.at = Base.at
        BY <2>8, <3>3, <4>3, ShapeDelivered
      <4>5. disp[s] \in {"return", "sig_cld"} /\ "CHLD" \in Sg!Sig \ {"INT", "QUIT"}
        BY <1>3, <4>2 DEF HandlersOf, Sg!Sig
      <4>6. /\ disp["INT"] = (IF Base.at \in 2..6 THEN "ign" ELSE before.disp["INT"])
            /\ disp["QUIT"] = (IF Base.at \in 3..7 THEN "ign" ELSE before.disp["QUIT"])
            /\ before.disp["INT"] # "sig_cld" /\ before.disp["QUIT"] = "dfl"
            /\ disp["CHLD"] = before.disp["CHLD"]
        BY <1>3, <4>5 DEF SystemInv
      <4>7. Base.at \notin 4..6 /\ (Base.at \in 1..4 => disp[s] = "return")
        <5>1. Base.at \in 4..6 => "CHLD" \in smask
          BY <1>3 DEF SystemInv
        <5>2. Base.at \in 1..4 => "CHLD" \notin spend
          BY <1>3 DEF SystemInv
        <5>3. s # "QUIT"
          BY <3>1, <3>3, <4>6
        <5>4. s = "INT" => Base.at \notin 2..6 /\ disp[s] = "return"
          BY <3>1, <4>5, <4>6
        <5> QED BY <3>1, <5>1, <5>2, <5>3, <5>4
      <4>8. disp[s] = "sig_cld" => before.disp["CHLD"] = "sig_cld"
        BY <3>1, <3>3, <4>6
      <4>9. ASSUME NEW k \in 2..d + 1
            PROVE  /\ Base.at \in 1..4 => frames'[k].fn = "return"
                   /\ frames'[k].fn = "sig_cld" => before.disp["CHLD"] = "sig_cld"
        <5>1. CASE k = d + 1
          BY <4>2, <4>7, <4>8, <5>1
        <5>2. CASE k # d + 1
          <6>1. k \in 2..d
            BY <5>2
          <6> QED BY <1>3, <4>1, <4>2, <6>1 DEF SystemInv
        <5> QED BY <5>1, <5>2
      <4>10. "CHLD" \notin spend => "CHLD" \notin spend'
        BY <3>1
      <4> QED BY <1>1, <1>3, <3>1, <4>2, <4>4, <4>7, <4>9, <4>10 DEF SystemInv
    <3> QED BY <3>2, <3>3
  <2> QED BY <2>1, <2>2, <2>3, <2>4, <2>5, <2>6, <2>7, <2>8 DEF Sg!Next
<1> QED BY <1>2, <1>3

\* No handler jumps to a buffer that is not set yet.
LEMMA JumpsSet ==
  ASSUME SigTypes, SigShape, JumpInv, MaskInv, ~misjump, Sg!Next
  PROVE  ~misjump'
<1>1. FrameShape /\ EnvShape /\ sprog \in Sg!Programs
  BY DEF SigShape, FrameShape
<1>2. CASE Sg!Step
  <2>1. CASE Ins[1] \in {"longjmp", "siglongjmp"}
    <3>1. Sg!Top.fn \in {"longjmp", "sig_usr1"} /\ Sg!Top.at \in 1..Len(Sg!Code(Sg!Top.fn))
      BY <1>1, <2>1, TopShape DEF Fits
    <3>2. Sg!Top.fn \notin Sg!Programs
      BY <3>1 DEF Sg!Programs
    <3>3. Len(frames) > 1 /\ Sg!Top.fn \in HandlersOf(sprog)
      BY <1>1, <3>2, TopShape
    <3>4. PICK d \in Nat \ {0} : d = Len(frames) /\ d > 1 /\ d \in 2..Len(frames) /\ Sg!Top = frames[d]
      BY <3>3, TopCall DEF SigTypes
    <3>5. env # <<>>
      <4>1. CASE Sg!Top.fn = "longjmp"
        <5>1. sprog \in {"sleep2", "read2"}
          BY <1>1, <3>3, <4>1 DEF HandlersOf, Sg!Programs
        <5>2. Base.at \in Nat
          <6>1. 1 \in 1..Len(frames) /\ frames \in Seq(Calls)
            BY <3>4 DEF SigTypes
          <6>2. Base \in Calls
            BY <6>1, ElementOfSeq DEF Base
          <6> QED BY <6>2 DEF Calls
        <5>3. ~(Base.at <= 3)
          BY <3>3, <3>4, <5>1 DEF JumpInv
        <5> QED BY <5>1, <5>2, <5>3 DEF JumpInv
      <4>2. CASE Sg!Top.fn = "sig_usr1"
        <5>1. sprog = "mask"
          BY <1>1, <3>3, <4>2 DEF HandlersOf, Sg!Programs
        <5>2. Sg!Top.at = 6
          <6>1. Sg!Top.at \in 1..6
            BY <3>1, <4>2, Usr1Code
          <6> QED BY <2>1, <4>2, <6>1, Usr1Code DEF Ins
        <5> QED BY <3>4, <4>2, <5>1, <5>2 DEF MaskInv
      <4> QED BY <3>1, <4>1, <4>2
    <3>6. Sg!LongJmp(Ins)
      BY <1>2, <2>1, StepKinds DEF CallKinds, Waiting
    <3> QED BY <3>5, <3>6 DEF Sg!LongJmp
  <2>2. CASE Ins[1] \notin {"longjmp", "siglongjmp"}
    <3>1. \/ Sg!SigCall(Ins) \/ Sg!ForkFails(Ins) \/ Sg!Wait(Ins) \/ Sg!Branch(Ins) \/ Sg!SetJmp(Ins)
          \/ Sg!WaitChild(Ins) \/ Sg!Return(Ins)
      BY <1>2, <2>2, StepKinds
    <3>2. misjump' = misjump
      <4>1. CASE Sg!SigCall(Ins)
        BY <4>1 DEF Sg!SigCall
      <4>2. CASE Sg!ForkFails(Ins)
        BY <4>2 DEF Sg!ForkFails
      <4>3. CASE Sg!Wait(Ins)
        BY <4>3 DEF Sg!Wait
      <4>4. CASE Sg!Branch(Ins)
        BY <4>4 DEF Sg!Branch, Sg!Same
      <4>5. CASE Sg!SetJmp(Ins)
        BY <4>5 DEF Sg!SetJmp
      <4>6. CASE Sg!WaitChild(Ins)
        BY <4>6 DEF Sg!WaitChild
      <4>7. CASE Sg!Return(Ins)
        BY <4>7 DEF Sg!Return
      <4> QED BY <3>1, <4>1, <4>2, <4>3, <4>4, <4>5, <4>6, <4>7
    <3> QED BY <3>2
  <2> QED BY <2>1, <2>2
<1>3. CASE Sg!AlarmRings \/ Sg!ChildEnds \/ Sg!SendSignal \/ Sg!Continue
  <2>1. misjump' = misjump
    BY <1>3 DEF Sg!AlarmRings, Sg!ChildEnds, Sg!SendSignal, Sg!Continue
  <2> QED BY <2>1
<1>4. CASE Sg!Input \/ Sg!Quiet
  <2>1. misjump' = misjump
    BY <1>4 DEF Sg!Input, Sg!Same, Sg!Quiet, Sg!vars
  <2> QED BY <2>1
<1>5. ASSUME NEW s \in Sg!Sig, Sg!Deliver(s) PROVE ~misjump'
  <2>1. misjump' = misjump
    BY <1>5, Delivered
  <2> QED BY <2>1
<1> QED BY <1>2, <1>3, <1>4, <1>5 DEF Sg!Next

\* What the caller has done with signals before.
LEMMA BeforeKnown ==
  ASSUME NEW p \in Sg!Programs, NEW s \in Sg!Sig, NEW h \in Sg!Before(p, s)
  PROVE  /\ h \in {"dfl", "ign"} \union HandlersOf(p) /\ h \in Acts
         /\ p = "system" /\ s = "INT" => h # "sig_cld"
         /\ p = "system" /\ s = "QUIT" => h = "dfl"
<1>1. CASE p = "sleep"
  BY <1>1 DEF Sg!Before, HandlersOf, Acts, Handlers
<1>2. CASE p = "system"
  BY <1>2 DEF Sg!Before, HandlersOf, Acts, Handlers
<1>3. CASE p = "sigtstp"
  BY <1>3 DEF Sg!Before, HandlersOf, Acts, Handlers
<1>4. CASE p = "abort"
  BY <1>4 DEF Sg!Before, HandlersOf, Acts, Handlers
<1>5. CASE p \notin {"sleep", "system", "sigtstp", "abort"}
  <2>1. h = "dfl"
    BY <1>5 DEF Sg!Before
  <2> QED BY <1>5, <2>1 DEF Acts
<1> QED BY <1>1, <1>2, <1>3, <1>4, <1>5

\* A program at its first step.
LEMMA SignalInit ==
  ASSUME Sg!Init
  PROVE  SignalInv
<1>1. /\ sprog \in Sg!Programs /\ sst = "runs" /\ spend = {} /\ oldmask = {} /\ oldact = disp /\ timer = FALSE
      /\ flag = 0 /\ env = <<>> /\ child = "none" /\ status = "none" /\ halted = FALSE /\ misjump = FALSE
  BY DEF Sg!Init
<1>2. before.mask = smask /\ before.disp = disp
  BY DEF Sg!Init
<1>3. smask \in SUBSET Sg!Sig
  <2>1. smask = {} \/ smask = {"ABRT", "ALRM"}
    BY DEF Sg!Init
  <2> QED BY <2>1 DEF Sg!Sig
<1>4. \A s \in Sg!Sig : disp[s] \in Sg!Before(sprog, s)
  BY DEF Sg!Init
<1>5. /\ \A s \in Sg!Sig : disp[s] \in {"dfl", "ign"} \union HandlersOf(sprog) /\ disp[s] \in Acts
      /\ sprog = "system" => disp["INT"] # "sig_cld" /\ disp["QUIT"] = "dfl"
  <2>1. "INT" \in Sg!Sig /\ "QUIT" \in Sg!Sig
    BY DEF Sg!Sig
  <2> QED BY <1>1, <1>4, <2>1, BeforeKnown
<1>6. disp \in [Sg!Sig -> Acts]
  <2>1. disp \in [Sg!Sig -> {"dfl", "ign", "return", "sig_cld"}]
    BY DEF Sg!Init
  <2> QED BY <2>1 DEF Acts, Handlers
<1>7. PICK c : c = [fn |-> sprog, at |-> 1, asleep |-> FALSE, mask |-> {}]
  OBVIOUS
<1>8. c \in Calls /\ c.fn = sprog /\ c.at = 1 /\ c.asleep = FALSE /\ c.mask = {}
  BY <1>1, <1>7 DEF Calls
<1>9. frames = <<c>>
  BY <1>7 DEF Sg!Init, Sg!Frame
<1>10. frames \in Seq(Calls) /\ Len(frames) = 1 /\ frames[1] = c
  BY <1>8, <1>9
<1>11. SigTypes
  <2>1. frames \in Seq(Calls) /\ Len(frames) \in Nat \ {0}
    BY <1>10
  <2>2. oldact \in [Sg!Sig -> Acts]
    BY <1>1, <1>6
  <2>3. oldmask \in SUBSET Sg!Sig /\ spend \in SUBSET Sg!Sig /\ timer \in BOOLEAN /\ flag \in {0, 1}
        /\ halted \in BOOLEAN
    BY <1>1
  <2> QED BY <1>3, <1>6, <2>1, <2>2, <2>3 DEF SigTypes
<1>12. SigShape
  <2>1. Len(Sg!Code(sprog)) \in Nat /\ 1 \in 1..Len(Sg!Code(sprog))
    BY <1>1, SleepCode, Sleep1Code, Sleep2Code, Read1Code, Read2Code, Suspend1Code, Suspend2Code, CriticalCode,
       MaskCode,
       StopCode, ChildCode, AbortCode, SystemCode DEF Sg!Programs
  <2>2. Sg!Top = c
    BY <1>10 DEF Sg!Top
  <2>3. FrameShape
    BY <1>1, <1>8, <1>10, <2>1, <2>2 DEF FrameShape, Base
  <2>4. DispShape /\ EnvShape
    BY <1>1, <1>2, <1>5 DEF DispShape, EnvShape
  <2> QED BY <2>3, <2>4 DEF SigShape
<1>13. Base = c /\ BaseMask = smask
  BY <1>8, <1>10 DEF Base, BaseMask
<1>14. SleepInv /\ JumpInv /\ Suspend1Inv
  BY <1>1, <1>2, <1>8, <1>10, <1>13 DEF SleepInv, JumpInv, Suspend1Inv
<1>15. Suspend2Inv
  <2>1. sprog = "suspend2" => \A s \in Sg!Sig : disp[s] = "dfl"
    BY <1>4 DEF Sg!Before
  <2> QED BY <1>1, <1>2, <1>8, <1>10, <1>13, <2>1 DEF Suspend2Inv
<1>16. MaskInv
  BY <1>1, <1>8, <1>10, <1>13 DEF MaskInv
<1>17. StopInv
  <2>1. sprog = "sigtstp" => smask = {}
    BY DEF Sg!Init
  <2> QED BY <1>1, <1>10, <1>13, <2>1 DEF StopInv
<1>18. AbortInv
  BY <1>1, <1>8, <1>10, <1>13 DEF AbortInv
<1>19. SystemInv
  BY <1>1, <1>2, <1>5, <1>8, <1>10, <1>13 DEF SystemInv
<1> QED BY <1>1, <1>11, <1>12, <1>14, <1>15, <1>16, <1>17, <1>18, <1>19 DEF SignalInv

\* A program that waits is waked; one that has ended has put back what it changed.
LEMMA SignalPromises ==
  ASSUME SignalInv
  PROVE  Sg!WakesUp /\ Sg!Restored /\ Sg!AbortEnds /\ Sg!StatusOurs /\ Sg!JumpReady /\ Sg!StopsFirst
<1>1. SigTypes /\ SigShape /\ FrameShape /\ DispShape /\ ~misjump
  BY DEF SignalInv, SigShape
<1>2. Sg!WakesUp
  <2> SUFFICES ASSUME sst = "runs", Len(frames) = 1, Sg!Top.asleep
               PROVE  /\ sprog \in {"sleep", "sleep2", "read2"} => timer \/ "ALRM" \in spend
                      /\ sprog = "suspend2" => flag = 0
    BY DEF Sg!WakesUp
  <2>1. Base.asleep
    BY <1>1, TopCall DEF Base
  <2>2. CASE sprog = "sleep"
    BY <1>1, <2>1, <2>2, SleepWaits DEF SignalInv, SleepInv
  <2>3. CASE sprog \in {"sleep2", "read2"}
    <3>1. Base.at = 4
      BY <1>1, <2>1, <2>3, Sleep2Waits, Read2Waits
    <3> QED BY <2>3, <3>1 DEF SignalInv, JumpInv
  <2>4. CASE sprog = "suspend2"
    BY <1>1, <2>1, <2>4, Suspend2Waits DEF SignalInv, Suspend2Inv
  <2> QED BY <2>2, <2>3, <2>4
<1>3. Sg!Restored
  <2> SUFFICES ASSUME sst = "exited"
               PROVE  /\ sprog \in {"sleep", "system", "suspend1", "suspend2"} => smask = before.mask
                      /\ sprog \in {"sleep", "system"} => disp = before.disp
    BY DEF Sg!Restored
  <2>1. CASE sprog = "sleep"
    <3>1. Base.at = 8 /\ Len(frames) = 1 /\ BaseMask = before.mask /\ disp = before.disp
      BY <2>1 DEF SignalInv, SleepInv
    <3>2. ~Base.asleep
      BY <1>1, <2>1, <3>1, SleepWaits
    <3> QED BY <2>1, <3>1, <3>2 DEF BaseMask
  <2>2. CASE sprog = "system"
    <3>1. Base.at = 9 /\ Len(frames) = 1 /\ BaseMask = before.mask
      BY <2>2 DEF SignalInv, SystemInv
    <3>2. ~Base.asleep
      BY <1>1, <2>2, SystemWaits
    <3>3. disp \in [Sg!Sig -> Acts] /\ before.disp \in [Sg!Sig -> Acts]
      BY <1>1 DEF SigTypes, DispShape
    <3>4. \A s \in Sg!Sig : disp[s] = before.disp[s]
      BY <2>2, <3>1 DEF SignalInv, SystemInv
    <3>5. disp = before.disp
      BY <3>3, <3>4
    <3> QED BY <2>2, <3>1, <3>2, <3>5 DEF BaseMask
  <2>3. CASE sprog = "suspend1"
    <3>1. Base.at = 5 /\ Len(frames) = 1 /\ BaseMask = before.mask
      BY <2>3 DEF SignalInv, Suspend1Inv
    <3>2. ~Base.asleep
      BY <1>1, <2>3, <3>1, Suspend1Waits
    <3> QED BY <2>3, <3>1, <3>2 DEF BaseMask
  <2>4. CASE sprog = "suspend2"
    <3>1. Base.at = 9 /\ Len(frames) = 1 /\ BaseMask = before.mask
      BY <2>4 DEF SignalInv, Suspend2Inv
    <3>2. ~Base.asleep
      BY <1>1, <2>4, <3>1, Suspend2Waits
    <3> QED BY <2>4, <3>1, <3>2 DEF BaseMask
  <2> QED BY <2>1, <2>2, <2>3, <2>4
<1>4. Sg!AbortEnds /\ Sg!StatusOurs /\ Sg!JumpReady
  BY <1>1 DEF SignalInv, AbortInv, SystemInv, Sg!AbortEnds, Sg!StatusOurs, Sg!JumpReady
<1>5. Sg!StopsFirst
  <2> SUFFICES ASSUME NEW k \in DOMAIN frames, frames[k].fn = "sig_tstp", k = Len(frames),
                      Sg!Code("sig_tstp")[frames[k].at][1] = "ret"
               PROVE  halted
    BY DEF Sg!StopsFirst
  <2>1. Sg!Top = frames[k] /\ k \in Nat
    BY <1>1, TopCall DEF SigTypes
  <2>2. "sig_tstp" \notin Sg!Programs
    BY DEF Sg!Programs
  <2>3. Len(frames) > 1 /\ "sig_tstp" \in HandlersOf(sprog) /\ frames[k].at \in 1..Len(Sg!Code("sig_tstp"))
    BY <1>1, <2>1, <2>2, TopShape
  <2>4. sprog = "sigtstp"
    BY <1>1, <2>3 DEF HandlersOf, FrameShape, Sg!Programs
  <2>5. frames[k].at = 5
    <3>1. frames[k].at \in 1..5
      BY <2>3, SigStopCode
    <3> QED BY <3>1, SigStopCode
  <2>6. k \in 2..Len(frames)
    BY <2>1, <2>3
  <2> QED BY <2>4, <2>5, <2>6 DEF SignalInv, StopInv
<1> QED BY <1>2, <1>3, <1>4, <1>5

\* A step of a program, of a handler, or of what they wait for.
LEMMA SignalStep ==
  ASSUME SignalInv, [Sg!Next]_(Sg!vars)
  PROVE  SignalInv'
<1>1. CASE Sg!Next
  <2>1. /\ SigTypes /\ SigShape /\ ~misjump /\ SleepInv /\ JumpInv /\ Suspend1Inv /\ Suspend2Inv
        /\ MaskInv /\ StopInv /\ AbortInv /\ SystemInv
    BY DEF SignalInv
  <2>2. SigTypes' /\ SigShape' /\ ~misjump'
    BY <1>1, <2>1, ShapeNext, JumpsSet
  <2>3. SleepInv' /\ JumpInv' /\ Suspend1Inv' /\ Suspend2Inv'
    BY <1>1, <2>1, SleepNext, JumpNext, Suspend1Next, Suspend2Next
  <2>4. MaskInv' /\ StopInv' /\ AbortInv' /\ SystemInv'
    BY <1>1, <2>1, MaskNext, StopNext, AbortNext, SystemNext
  <2> QED BY <2>2, <2>3, <2>4 DEF SignalInv
<1>2. CASE UNCHANGED Sg!vars
  <2>1. UNCHANGED <<sprog, frames, sst, smask, spend, disp, oldmask, oldact, timer, flag, env,
                    child, status, halted, misjump, before>>
    BY <1>2 DEF Sg!vars
  <2>2. SigTypes'
    BY <2>1 DEF SignalInv, SigTypes
  <2>3. SigShape'
    BY <2>1 DEF SignalInv, SigShape, FrameShape, DispShape, EnvShape, Base, Sg!Top, Ins
  <2>4. BaseMask' = BaseMask /\ Base' = Base /\ \A s \in Sg!Sig : Blocks(s)' = Blocks(s)
    BY <2>1 DEF BaseMask, Base, Blocks
  <2>5. "ALRM" \in Sg!Sig /\ "QUIT" \in Sg!Sig
    BY DEF Sg!Sig
  <2>6. SleepInv' /\ JumpInv' /\ Suspend1Inv'
    BY <2>1, <2>4, <2>5 DEF SignalInv, SleepInv, JumpInv, Suspend1Inv
  <2>7. Suspend2Inv' /\ MaskInv' /\ StopInv'
    BY <2>1, <2>4, <2>5 DEF SignalInv, Suspend2Inv, MaskInv, StopInv
  <2>8. AbortInv' /\ SystemInv'
    BY <2>1, <2>4, <2>5 DEF SignalInv, AbortInv, SystemInv
  <2> QED BY <2>1, <2>2, <2>3, <2>6, <2>7, <2>8 DEF SignalInv
<1> QED BY <1>1, <1>2

\* However the signals and the steps interleave: sleep, sleep2, read2 and suspend2 never wait for
\* what has passed, sleep, system and the suspend programs put back mask and handlers, abort does not
\* return, system keeps its child's status, no handler jumps without a buffer, sig_tstp stops first.
THEOREM SignalTheorem ==
  SignalSpec => [](Sg!WakesUp /\ Sg!Restored /\ Sg!AbortEnds /\ Sg!StatusOurs /\ Sg!JumpReady /\ Sg!StopsFirst)
<1>1. Sg!Init => SignalInv
  BY SignalInit
<1>2. SignalInv /\ [Sg!Next]_(Sg!vars) => SignalInv'
  BY SignalStep
<1>3. SignalInv => Sg!WakesUp /\ Sg!Restored /\ Sg!AbortEnds /\ Sg!StatusOurs /\ Sg!JumpReady /\ Sg!StopsFirst
  BY SignalPromises
<1> QED BY <1>1, <1>2, <1>3, PTL DEF SignalSpec
=============================================================================
