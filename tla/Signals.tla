------------------------------- MODULE Signals -------------------------------
(***************************************************************************)
(* The functions and programs of signals/ and lib/sleep.c, as sequences of *)
(* the system calls that they make.  A process runs one of them; handlers  *)
(* run on top of what they interrupt.  A signal that is pending and not    *)
(* blocked is delivered before the next call.                              *)
(***************************************************************************)
EXTENDS Integers, Sequences

CONSTANT MaxSent      \* bound: signals sent by others

VARIABLES
  prog,               \* the function or program
  stack,              \* what runs, innermost last: fn, at, asleep, and the mask to go back to
  st,                 \* "runs", "stopped", "exited" or "killed"
  mask, pend, disp,   \* blocked and pending signals, what is done with each
  oldmask, oldact,    \* what the program has saved
  timer, flag, env,   \* alarm; quitflag or canjump; the jump buffer
  child, status,      \* the child process; what waitpid says of it
  stopped, misjump,   \* a stop since the last kill; a jump without a buffer
  sent, start         \* signals sent by others; mask and disp when called

vars == <<prog, stack, st, mask, pend, disp, oldmask, oldact, timer, flag, env,
          child, status, stopped, misjump, sent, start>>

Sig == {"ALRM", "INT", "QUIT", "USR1", "CHLD", "TSTP", "ABRT"}

sleepOpen == <<<<"signal", "ALRM", "return">>, <<"alarm">>, <<"suspend", {}>>, <<"alarm0">>,
               <<"restore", "ALRM">>, <<"exit">>>>
sleepKeep == <<<<"signal", "ALRM", "return">>, <<"block", {"ALRM"}>>, <<"alarm">>,
           <<"suspendold">>, <<"alarm0">>, <<"setmask">>, <<"exit">>>>
sleep == <<<<"signal", "ALRM", "return">>, <<"block", {"ALRM"}>>, <<"alarm">>,
           <<"suspendold">>, <<"alarm0">>, <<"restore", "ALRM">>, <<"setmask">>, <<"exit">>>>
sleep1 == <<<<"signal", "ALRM", "return">>, <<"alarm">>, <<"pause">>, <<"alarm0">>, <<"exit">>>>
sleep2 == <<<<"signal", "ALRM", "longjmp">>, <<"setjmp", 5>>, <<"alarm">>, <<"pause">>,
            <<"alarm0">>, <<"exit">>>>
read1 == <<<<"signal", "ALRM", "return">>, <<"alarm">>, <<"read">>, <<"alarm0">>, <<"exit">>>>
read2 == <<<<"signal", "ALRM", "longjmp">>, <<"setjmp", 6>>, <<"alarm">>, <<"read">>,
           <<"alarm0">>, <<"exit">>>>
suspend1 == <<<<"signal", "INT", "return">>, <<"block", {"INT"}>>, <<"suspend", {"USR1"}>>,
              <<"setmask">>, <<"exit">>>>
suspend2 == <<<<"signal", "INT", "return">>, <<"signal", "QUIT", "quitflag">>, <<"block", {"QUIT"}>>,
              <<"ifset", 7>>, <<"suspend", {}>>, <<"goto", 4>>, <<"flag", 0>>, <<"setmask">>, <<"exit">>>>
critical == <<<<"signal", "QUIT", "sig_quit">>, <<"block", {"QUIT"}>>, <<"work">>,
              <<"setmask">>, <<"work">>, <<"exit">>>>
maskprog == <<<<"signal", "USR1", "sig_usr1">>, <<"signal", "ALRM", "return">>, <<"setjmp", 7>>,
              <<"flag", 1>>, <<"pause">>, <<"goto", 5>>, <<"exit">>>>
sigtstp == <<<<"signal", "TSTP", "ign">>, <<"catch", "TSTP", "sig_tstp">>, <<"read">>, <<"exit">>>>
childprog == <<<<"signal", "CHLD", "sig_cld">>, <<"fork">>, <<"pause">>, <<"exit">>>>
abortBlocked == <<<<"unignore", "ABRT">>, <<"kill", "ABRT">>, <<"signal", "ABRT", "dfl">>,
           <<"kill", "ABRT">>, <<"exit">>>>
abort == <<<<"unignore", "ABRT">>, <<"mask", Sig \ {"ABRT"}>>, <<"kill", "ABRT">>,
           <<"signal", "ABRT", "dfl">>, <<"mask", Sig \ {"ABRT"}>>, <<"kill", "ABRT">>, <<"exit">>>>
systemOpen == <<<<"signal", "INT", "ign">>, <<"signal", "QUIT", "ign">>, <<"fork">>,
            <<"waitpid">>, <<"restore", "INT">>, <<"restore", "QUIT">>, <<"exit">>>>
system == <<<<"signal", "INT", "ign">>, <<"signal", "QUIT", "ign">>, <<"block", {"CHLD"}>>, <<"fork">>,
            <<"waitpid">>, <<"restore", "INT">>, <<"restore", "QUIT">>, <<"setmask">>, <<"exit">>>>

\* Handlers.
sig_alrm == <<<<"ret">>>>
sig_alrm2 == <<<<"longjmp">>>>
sig_int == <<<<"flag", 1>>, <<"ret">>>>
sig_quit == <<<<"signal", "QUIT", "dfl">>, <<"ret">>>>
sig_usr1Any == <<<<"alarm">>, <<"work">>, <<"flag", 0>>, <<"siglongjmp">>>>
sig_usr1 == <<<<"ifset", 3>>, <<"ret">>, <<"alarm">>, <<"work">>, <<"flag", 0>>, <<"siglongjmp">>>>
sig_tstpBlocked == <<<<"signal", "TSTP", "dfl">>, <<"kill", "TSTP">>,
              <<"signal", "TSTP", "sig_tstp">>, <<"ret">>>>
sig_tstp == <<<<"unblock", "TSTP">>, <<"signal", "TSTP", "dfl">>, <<"kill", "TSTP">>,
              <<"signal", "TSTP", "sig_tstp">>, <<"ret">>>>
sig_cld == <<<<"signal", "CHLD", "sig_cld">>, <<"wait">>, <<"ret">>>>

Code(fn) ==
  CASE fn = "sleep" -> sleep [] fn = "sleep1" -> sleep1 [] fn = "sleep2" -> sleep2
    [] fn = "read1" -> read1 [] fn = "read2" -> read2
    [] fn = "suspend1" -> suspend1 [] fn = "suspend2" -> suspend2 [] fn = "critical" -> critical
    [] fn = "mask" -> maskprog [] fn = "sigtstp" -> sigtstp [] fn = "child" -> childprog
    [] fn = "abort" -> abort [] fn = "system" -> system
    [] fn = "return" -> sig_alrm [] fn = "longjmp" -> sig_alrm2 [] fn = "quitflag" -> sig_int
    [] fn = "sig_quit" -> sig_quit [] fn = "sig_usr1" -> sig_usr1
    [] fn = "sig_tstp" -> sig_tstp [] fn = "sig_cld" -> sig_cld

\* What others send, and what the caller has done with signals before.
SentTo(p) ==
  CASE p \in {"suspend1", "suspend2", "system"} -> {"INT", "QUIT"} [] p = "sleep" -> {"INT"} [] p = "critical" -> {"QUIT"}
    [] p = "mask" -> {"USR1"} [] p = "sigtstp" -> {"TSTP"} [] OTHER -> {}
Before(p, s) ==
  CASE p = "sleep" /\ s = "ALRM" -> {"dfl", "ign"}
    [] p = "sleep" /\ s = "INT" -> {"return"}
    [] p = "system" /\ s = "CHLD" -> {"dfl", "sig_cld"}
    [] p = "system" /\ s = "INT" -> {"dfl", "return"}
    [] p = "sigtstp" /\ s = "TSTP" -> {"dfl", "ign"}
    [] p = "abort" /\ s = "ABRT" -> {"dfl", "ign", "return"}
    [] OTHER -> {"dfl"}

Programs == {"sleep", "sleep1", "sleep2", "read1", "read2", "suspend1", "suspend2", "critical",
             "mask", "sigtstp", "child", "abort", "system"}

Frame(fn, m) == [fn |-> fn, at |-> 1, asleep |-> FALSE, mask |-> m]

Init ==
  /\ prog \in Programs /\ st = "runs" /\ pend = {}
  /\ mask \in IF prog \in {"abort", "sleep"} THEN {{}, {"ABRT", "ALRM"}} ELSE {{}}
  /\ disp \in {d \in [Sig -> {"dfl", "ign", "return", "sig_cld"}] : \A s \in Sig : d[s] \in Before(prog, s)}
  /\ stack = <<Frame(prog, {})>>
  /\ oldmask = {} /\ oldact = disp /\ timer = FALSE /\ flag = 0 /\ env = <<>>
  /\ child = "none" /\ status = "none" /\ stopped = FALSE /\ misjump = FALSE
  /\ sent = 0 /\ start = [mask |-> mask, disp |-> disp]
-----------------------------------------------------------------------------
Top == stack[Len(stack)]
Deliverable == {s \in pend : s \notin mask /\ disp[s] # "ign"}
Running == st = "runs" /\ Deliverable = {}

\* The process goes on with its next step, or with another.
Jump(to) == stack' = [stack EXCEPT ![Len(stack)].at = to, ![Len(stack)].asleep = FALSE]
Go == Jump(Top.at + 1)
Sleeps(m) == stack' = [stack EXCEPT ![Len(stack)].asleep = TRUE, ![Len(stack)].mask = mask] /\ mask' = m

Keep == UNCHANGED <<prog, sent, start>>
Same == UNCHANGED <<st, mask, pend, disp, oldmask, oldact, timer, flag, env, child, status, stopped, misjump>>

\* Calls that change the mask, the handlers, the timer, the flag.
SigCall(ins) ==
  /\ ins[1] \in {"signal", "catch", "restore", "unignore", "block", "unblock", "mask", "setmask",
                 "alarm", "alarm0", "flag", "kill", "work", "fork"}
  /\ Go
  /\ disp' = CASE ins[1] = "signal" -> [disp EXCEPT ![ins[2]] = ins[3]]
               [] ins[1] = "catch" -> [disp EXCEPT ![ins[2]] = IF oldact[ins[2]] = "dfl" THEN ins[3] ELSE @]
               [] ins[1] = "restore" -> [disp EXCEPT ![ins[2]] = oldact[ins[2]]]
               [] ins[1] = "unignore" -> [disp EXCEPT ![ins[2]] = IF @ = "ign" THEN "dfl" ELSE @]
               [] OTHER -> disp
  /\ oldmask' = IF ins[1] = "block" THEN mask ELSE oldmask
  /\ mask' = CASE ins[1] = "block" -> mask \union ins[2] [] ins[1] = "unblock" -> mask \ {ins[2]}
               [] ins[1] = "mask" -> ins[2] [] ins[1] = "setmask" -> oldmask [] OTHER -> mask
  /\ timer' = CASE ins[1] = "alarm" -> TRUE [] ins[1] = "alarm0" -> FALSE [] OTHER -> timer
  /\ flag' = IF ins[1] = "flag" THEN ins[2] ELSE flag
  /\ pend' = IF ins[1] = "kill" /\ disp[ins[2]] # "ign" THEN pend \union {ins[2]} ELSE pend
  /\ stopped' = IF ins[1] = "kill" THEN FALSE ELSE stopped
  /\ child' = IF ins[1] = "fork" THEN "runs" ELSE child
  /\ UNCHANGED <<st, oldact, env, status, misjump>>

\* fork fails: system goes on behind its waitpid, child.c pauses for a child that it has not.
ForkFails(ins) ==
  /\ ins[1] = "fork" /\ Jump(Top.at + IF prog = "system" THEN 2 ELSE 1) /\ status' = "nofork"
  /\ UNCHANGED <<st, mask, pend, disp, oldmask, oldact, timer, flag, env, child, stopped, misjump>>

\* sigsuspend, pause and read wait; a caught signal ends the wait (see Deliver).
Wait(ins) ==
  /\ ins[1] \in {"suspend", "suspendold", "pause", "read"}
  /\ Sleeps(CASE ins[1] = "suspend" -> ins[2] [] ins[1] = "suspendold" -> oldmask \ {"ALRM"}
              [] OTHER -> mask)
  /\ UNCHANGED <<st, pend, disp, oldmask, oldact, timer, flag, env, child, status, stopped, misjump>>

Branch(ins) ==
  /\ ins[1] \in {"ifset", "goto"}
  /\ IF ins[1] = "goto" \/ flag = 1 THEN Jump(ins[2]) ELSE Go
  /\ Same

\* setjmp remembers where to go on; siglongjmp takes the mask back as well.
SetJmp(ins) ==
  /\ ins[1] = "setjmp" /\ Go
  /\ env' = <<[depth |-> Len(stack), at |-> ins[2], mask |-> mask]>>
  /\ UNCHANGED <<st, mask, pend, disp, oldmask, oldact, timer, flag, child, status, stopped, misjump>>
LongJmp(ins) ==
  /\ ins[1] \in {"longjmp", "siglongjmp"}
  /\ IF env = <<>> THEN misjump' = TRUE /\ st' = "killed" /\ UNCHANGED <<stack, mask>>
     ELSE /\ stack' = [SubSeq(stack, 1, env[1].depth) EXCEPT ![env[1].depth].at = env[1].at,
                                                             ![env[1].depth].asleep = FALSE]
          /\ mask' = IF ins[1] = "siglongjmp" THEN env[1].mask ELSE mask
          /\ UNCHANGED <<misjump, st>>
  /\ UNCHANGED <<pend, disp, oldmask, oldact, timer, flag, env, child, status, stopped>>

\* waitpid of system and wait of a handler, for the one child; waits while it runs.
WaitChild(ins) ==
  /\ ins[1] \in {"waitpid", "wait"} /\ child # "runs" /\ Go
  /\ child' = "reaped"
  /\ status' = IF ins[1] = "waitpid" THEN IF child = "zombie" THEN "ok" ELSE "error" ELSE status
  /\ UNCHANGED <<st, mask, pend, disp, oldmask, oldact, timer, flag, env, stopped, misjump>>

\* A handler returns; a program or function ends.
Return(ins) ==
  /\ \/ /\ ins[1] = "ret" /\ stack' = SubSeq(stack, 1, Len(stack) - 1)
        /\ mask' = Top.mask /\ UNCHANGED st
     \/ ins[1] = "exit" /\ st' = "exited" /\ UNCHANGED <<stack, mask>>
  /\ UNCHANGED <<pend, disp, oldmask, oldact, timer, flag, env, child, status, stopped, misjump>>

Step ==
  /\ Running /\ ~Top.asleep /\ Keep
  /\ LET ins == Code(Top.fn)[Top.at] IN
     \/ SigCall(ins) \/ ForkFails(ins) \/ Wait(ins) \/ Branch(ins) \/ SetJmp(ins) \/ LongJmp(ins)
     \/ WaitChild(ins) \/ Return(ins)
-----------------------------------------------------------------------------
(***************************************************************************)
(* A signal is delivered: the default action, or the handler with the      *)
(* signal blocked.  A wait that it interrupts is over, except that read    *)
(* is restarted after a handler that is not for SIGALRM.                   *)
(***************************************************************************)
Deliver(s) ==
  /\ st = "runs" /\ s \in Deliverable /\ pend' = pend \ {s} /\ Keep
  /\ \/ /\ disp[s] = "dfl" /\ s \notin {"TSTP", "CHLD"} /\ st' = "killed"
        /\ UNCHANGED <<stack, mask, stopped>>
     \/ disp[s] = "dfl" /\ s = "TSTP" /\ st' = "stopped" /\ stopped' = TRUE /\ UNCHANGED <<stack, mask>>
     \/ disp[s] = "dfl" /\ s = "CHLD" /\ UNCHANGED <<st, stack, mask, stopped>>
     \/ /\ disp[s] # "dfl" /\ UNCHANGED <<st, stopped>>
        /\ LET back == IF Top.asleep THEN Top.mask ELSE mask
               over == Top.asleep /\ (Code(Top.fn)[Top.at][1] # "read" \/ s = "ALRM")
           IN /\ stack' = Append([stack EXCEPT ![Len(stack)].asleep = FALSE,
                                   ![Len(stack)].at = IF over THEN @ + 1 ELSE @], Frame(disp[s], back))
              /\ mask' = mask \union {s}
  /\ UNCHANGED <<disp, oldmask, oldact, timer, flag, env, child, status, misjump>>

Post(s) == pend' = IF disp[s] = "ign" THEN pend ELSE pend \union {s}
AlarmRings ==
  /\ timer /\ st \in {"runs", "stopped"} /\ timer' = FALSE /\ Post("ALRM") /\ Keep
  /\ UNCHANGED <<stack, st, mask, disp, oldmask, oldact, flag, env, child, status, stopped, misjump>>
ChildEnds ==
  /\ child = "runs" /\ st = "runs" /\ child' = "zombie" /\ Post("CHLD") /\ Keep
  /\ UNCHANGED <<stack, st, mask, disp, oldmask, oldact, timer, flag, env, status, stopped, misjump>>
SendSignal ==
  /\ sent < MaxSent /\ st = "runs" /\ sent' = sent + 1 /\ \E s \in SentTo(prog) : Post(s)
  /\ UNCHANGED <<prog, start, stack, st, mask, disp, oldmask, oldact, timer, flag, env, child, status, stopped, misjump>>
Input ==
  /\ st = "runs" /\ Top.asleep /\ Code(Top.fn)[Top.at][1] = "read" /\ Go /\ Same /\ Keep
Continue ==
  /\ st = "stopped" /\ st' = "runs" /\ Keep
  /\ UNCHANGED <<stack, mask, pend, disp, oldmask, oldact, timer, flag, env, child, status, stopped, misjump>>

\* Ended, or asleep with nothing more to come.
Quiet ==
  /\ \/ st \in {"exited", "killed"}
     \/ st = "runs" /\ Top.asleep /\ ~timer /\ child # "runs" /\ Deliverable = {}
        /\ (sent = MaxSent \/ SentTo(prog) = {})
  /\ UNCHANGED vars

Next ==
  \/ Step \/ AlarmRings \/ ChildEnds \/ SendSignal \/ Input \/ Continue \/ Quiet
  \/ \E s \in Sig : Deliver(s)
-----------------------------------------------------------------------------
(***************************************************************************)
(* What a process waits for cannot have passed: sleep, sleep2 and read2    *)
(* wait only while the alarm is still to come, suspend2 only while         *)
(* SIGQUIT has not been caught.  (signals/sleep1.c and read1.c set the     *)
(* alarm before they wait and can miss it.)                                *)
(***************************************************************************)
WakesUp ==
  st = "runs" /\ Len(stack) = 1 /\ Top.asleep =>
    /\ prog \in {"sleep", "sleep2", "read2"} => timer \/ "ALRM" \in pend
    /\ prog = "suspend2" => flag = 0

\* sleep, system and suspend1 and 2 leave the mask as they found it; sleep and system the handlers too.
Restored ==
  st = "exited" =>
    /\ prog \in {"sleep", "system", "suspend1", "suspend2"} => mask = start.mask
    /\ prog \in {"sleep", "system"} => disp = start.disp

\* abort never returns, whether SIGABRT is blocked, ignored or caught.
AbortEnds == prog = "abort" => st # "exited"

\* A handler for SIGCHLD that calls wait does not take the status that system waits for.
StatusOurs == prog = "system" => status # "error"

\* No handler jumps to a buffer that is not set yet.
JumpReady == ~misjump

\* sig_tstp goes on only after it has stopped the process.
StopsFirst ==
  \A k \in DOMAIN stack :
    stack[k].fn = "sig_tstp" /\ Code("sig_tstp")[stack[k].at][1] = "ret" /\ k = Len(stack) => stopped
=============================================================================
