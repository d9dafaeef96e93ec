------------------------------ MODULE MsgQueue ------------------------------
(***************************************************************************)
(* The message queue of threads/condvar.c: enqueue_msg links a message     *)
(* under qlock and signals qready after it has released the lock;          *)
(* process_msg waits on qready while the queue is empty.  A critical       *)
(* section on qlock is one step; pthread_cond_wait releases the lock and   *)
(* sleeps in one step, may return without a signal, and takes the lock     *)
(* again before the queue is tested again.                                 *)
(***************************************************************************)
EXTENDS Naturals, Sequences

CONSTANTS Msg, Processor

VARIABLES
  workq,      \* newest message first
  tosignal,   \* messages whose sender has not signalled yet
  waiting,    \* threads asleep in pthread_cond_wait
  processed   \* how often each message was processed

msgvars == <<workq, tosignal, waiting, processed>>

MsgInit ==
  /\ workq = <<>> /\ tosignal = {} /\ waiting = {}
  /\ processed = [m \in Msg |-> 0]

OnQueue(m) == \E k \in DOMAIN workq : workq[k] = m
Fresh(m) == processed[m] = 0 /\ ~OnQueue(m) /\ m \notin tosignal

EnqueueMsg(m) ==
  /\ Fresh(m)
  /\ workq' = <<m>> \o workq /\ tosignal' = tosignal \cup {m}
  /\ UNCHANGED <<waiting, processed>>

\* pthread_cond_signal wakes one thread, if one waits.
Signal(m) ==
  /\ m \in tosignal /\ tosignal' = tosignal \ {m}
  /\ \/ \E p \in waiting : waiting' = waiting \ {p}
     \/ waiting = {} /\ UNCHANGED waiting
  /\ UNCHANGED <<workq, processed>>

\* Mutant: the whole list is taken with its first message.
ProcessMsgAll(p) ==
  /\ p \notin waiting /\ workq # <<>>
  /\ processed' = [processed EXCEPT ![Head(workq)] = @ + 1]
  /\ workq' = <<>>
  /\ UNCHANGED <<tosignal, waiting>>

\* process_msg with a message on the queue, and without.
ProcessMsg(p) ==
  /\ p \notin waiting /\ workq # <<>>
  /\ processed' = [processed EXCEPT ![Head(workq)] = @ + 1]
  /\ workq' = Tail(workq)
  /\ UNCHANGED <<tosignal, waiting>>

\* Mutant: the queue was tested before qlock was taken.
CondWaitLate(p) ==
  /\ p \notin waiting
  /\ waiting' = waiting \cup {p}
  /\ UNCHANGED <<workq, tosignal, processed>>

CondWait(p) ==
  /\ p \notin waiting /\ workq = <<>>
  /\ waiting' = waiting \cup {p}
  /\ UNCHANGED <<workq, tosignal, processed>>

Spurious(p) ==
  /\ p \in waiting /\ waiting' = waiting \ {p}
  /\ UNCHANGED <<workq, tosignal, processed>>

MsgNext ==
  \/ \E m \in Msg : EnqueueMsg(m) \/ Signal(m)
  \/ \E p \in Processor : ProcessMsg(p) \/ CondWait(p) \/ Spurious(p)

MsgSpec == MsgInit /\ [][MsgNext]_msgvars
-----------------------------------------------------------------------------
(***************************************************************************)
(* While a message is on the queue, not every thread sleeps, or a signal   *)
(* is still to come: signalling after the unlock (enqueue_msg) loses none. *)
(***************************************************************************)
MsgWakeup ==
  workq # <<>> => waiting # Processor \/ tosignal # {}

(***************************************************************************)
(* Every message is processed in the end, once (process_msg), although     *)
(* several threads are woken for it, or none because one was awake.        *)
(***************************************************************************)
MsgProcessed == \A m \in Msg : OnQueue(m) ~> processed[m] = 1
=============================================================================
