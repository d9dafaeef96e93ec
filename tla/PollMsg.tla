------------------------------ MODULE PollMsg ------------------------------
(***************************************************************************)
(* Message queues that poll cannot wait for, turned into sockets by a      *)
(* thread for each: ipc2/pollmsg.c sends the message over the socket,      *)
(* exercises/pollmsg2.c leaves it in memory, sends one byte, and waits on  *)
(* a condition until main has used it.  ipc2/sendmsg.c is the sender.      *)
(***************************************************************************)
EXTENDS Integers, Sequences

CONSTANTS
  NQ,          \* message queues
  MAXMSZ,      \* longest message
  MaxMsg       \* bound: messages sent to each queue

Queue == 1..NQ

VARIABLES
  version,     \* 1: pollmsg.c; 2: pollmsg2.c
  queue,       \* messages in each queue, <<number, length>>
  sent, got,   \* messages sent to each, printed from each
  at, m,       \* helper: where it is; the message it has
  mutex, waits, \* who has each mutex; the helper waits on its condition
  sock,        \* what is in each socket
  mpc, i, pfd, text, \* main: where it is, the queue it looks at, those poll returned, what it has read
  wild,        \* a null byte was written outside the message's array
  spur         \* queues whose helper's wait has returned without a signal

vars == <<version, queue, sent, got, at, m, mutex, waits, sock, mpc, i, pfd, text, wild, spur>>
None == <<0, 0>>

Init ==
  /\ version \in {1, 2} /\ queue = [q \in Queue |-> <<>>] /\ sent = [q \in Queue |-> 0] /\ got = [q \in Queue |-> <<>>]
  /\ at = [q \in Queue |-> "msgrcv"] /\ m = [q \in Queue |-> None] /\ mutex = [q \in Queue |-> "free"]
  /\ waits = [q \in Queue |-> FALSE] /\ sock = [q \in Queue |-> <<>>]
  /\ mpc = "poll" /\ i = 1 /\ pfd = {} /\ text = None /\ wild = FALSE /\ spur = {}

\* sendmsg: at most MAXMSZ - 1 bytes of its argument.
LongestAll == MAXMSZ
Longest == MAXMSZ - 1
sendmsg(q, len) ==
  /\ sent[q] < MaxMsg /\ len <= Longest
  /\ sent' = [sent EXCEPT ![q] = @ + 1] /\ queue' = [queue EXCEPT ![q] = Append(@, <<sent[q] + 1, len>>)]
  /\ UNCHANGED <<version, got, at, m, mutex, waits, sock, mpc, i, pfd, text, wild, spur>>
-----------------------------------------------------------------------------
\* helper of pollmsg.c: msgrcv, write.
helper1(q) ==
  /\ version = 1
  /\ \/ /\ at[q] = "msgrcv" /\ queue[q] # <<>> /\ at' = [at EXCEPT ![q] = "write"]
        /\ m' = [m EXCEPT ![q] = Head(queue[q])] /\ queue' = [queue EXCEPT ![q] = Tail(@)] /\ UNCHANGED sock
     \/ /\ at[q] = "write" /\ at' = [at EXCEPT ![q] = "msgrcv"]
        /\ sock' = [sock EXCEPT ![q] = Append(@, m[q])] /\ UNCHANGED <<m, queue>>
  /\ UNCHANGED <<version, sent, got, mutex, waits, mpc, i, pfd, text, wild, spur>>

(***************************************************************************)
(* helper of pollmsg2.c: the mutex is taken before the byte is written and *)
(* released by the wait, so that main cannot signal too early.             *)
(***************************************************************************)
Receive(q) ==
  /\ version = 2 /\ at[q] = "msgrcv" /\ queue[q] # <<>> /\ at' = [at EXCEPT ![q] = "lock"]
  /\ m' = [m EXCEPT ![q] = Head(queue[q])] /\ queue' = [queue EXCEPT ![q] = Tail(@)]
  /\ UNCHANGED <<version, sent, got, mutex, waits, sock, mpc, i, pfd, text, wild, spur>>
LockLate(q) ==
  /\ at[q] = "lock" /\ at' = [at EXCEPT ![q] = "write"]
  /\ UNCHANGED <<version, queue, sent, got, m, mutex, waits, sock, mpc, i, pfd, text, wild, spur>>
Lock(q) ==
  /\ at[q] = "lock" /\ mutex[q] = "free" /\ mutex' = [mutex EXCEPT ![q] = "helper"] /\ at' = [at EXCEPT ![q] = "write"]
  /\ UNCHANGED <<version, queue, sent, got, m, waits, sock, mpc, i, pfd, text, wild, spur>>
WriteByte(q) ==
  /\ version = 2 /\ at[q] = "write" /\ at' = [at EXCEPT ![q] = "wait"] /\ sock' = [sock EXCEPT ![q] = Append(@, None)]
  /\ UNCHANGED <<version, queue, sent, got, m, mutex, waits, mpc, i, pfd, text, wild, spur>>
WaitReadyNot(q) ==
  /\ at[q] = "wait" /\ at' = [at EXCEPT ![q] = "msgrcv"] /\ mutex' = [mutex EXCEPT ![q] = "free"]
  /\ UNCHANGED <<version, queue, sent, got, m, waits, sock, mpc, i, pfd, text, wild, spur>>
WaitReady(q) ==
  /\ \/ /\ at[q] = "wait" /\ at' = [at EXCEPT ![q] = "ready"] /\ waits' = [waits EXCEPT ![q] = TRUE]
        /\ mutex' = [mutex EXCEPT ![q] = IF @ = "helper" THEN "free" ELSE @]
     \/ at[q] = "ready" /\ ~waits[q] /\ mutex[q] = "free" /\ at' = [at EXCEPT ![q] = "msgrcv"] /\ UNCHANGED <<waits, mutex>>
  /\ UNCHANGED <<version, queue, sent, got, m, sock, mpc, i, pfd, text, wild, spur>>
\* pthread_cond_wait may return without a signal, and no condition is tested again.
Spurious(q) ==
  /\ waits[q] /\ waits' = [waits EXCEPT ![q] = FALSE] /\ spur' = spur \union {q}
  /\ UNCHANGED <<version, queue, sent, got, at, m, mutex, sock, mpc, i, pfd, text, wild>>
-----------------------------------------------------------------------------
\* main: poll, then each queue that is readable in turn.
poll ==
  /\ mpc = "poll" /\ pfd' = {q \in Queue : sock[q] # <<>>} /\ pfd' # {}
  /\ mpc' = "look" /\ i' = 1
  /\ UNCHANGED <<version, queue, sent, got, at, m, mutex, waits, sock, text, wild, spur>>
NextQueue == mpc' = (IF i = NQ THEN "poll" ELSE "look") /\ i' = IF i = NQ THEN 1 ELSE i + 1
Skip ==
  /\ mpc = "look" /\ i \notin pfd /\ NextQueue
  /\ UNCHANGED <<version, queue, sent, got, at, m, mutex, waits, sock, pfd, text, wild, spur>>
\* read; the null byte after the text: at buf[n], or at mtext[len], of MAXMSZ and MAXMSZ + 1 bytes.
ReadText ==
  /\ mpc = "look" /\ i \in pfd /\ mpc' = "print"
  /\ LET msg == IF version = 1 THEN Head(sock[i]) ELSE m[i]
     IN text' = msg /\ wild' = (wild \/ msg[2] > IF version = 1 THEN MAXMSZ - 1 ELSE MAXMSZ)
  /\ sock' = [sock EXCEPT ![i] = Tail(@)]
  /\ UNCHANGED <<version, queue, sent, got, at, m, mutex, waits, i, pfd, spur>>
\* pollmsg.c prints what it has read, pollmsg2.c what is in the helper's memory by now.
Print1 ==
  /\ version = 1 /\ mpc = "print" /\ got' = [got EXCEPT ![i] = Append(@, text[1])] /\ NextQueue
  /\ UNCHANGED <<version, queue, sent, at, m, mutex, waits, sock, pfd, text, wild, spur>>
Print2 ==
  /\ version = 2 /\ mpc = "print" /\ got' = [got EXCEPT ![i] = Append(@, m[i][1])] /\ mpc' = "signal"
  /\ UNCHANGED <<version, queue, sent, at, m, mutex, waits, sock, i, pfd, text, wild, spur>>
SignalReady ==
  /\ mpc = "signal" /\ mutex[i] = "free" /\ waits' = [waits EXCEPT ![i] = FALSE] /\ NextQueue
  /\ UNCHANGED <<version, queue, sent, got, at, m, mutex, sock, pfd, text, wild, spur>>

Quiet == (\A q \in Queue : sent[q] = MaxMsg /\ Len(got[q]) = MaxMsg) /\ mpc = "poll" /\ UNCHANGED vars
Next ==
  \/ \E q \in Queue : \/ \E len \in {MAXMSZ - 1, MAXMSZ} : sendmsg(q, len)
                      \/ helper1(q) \/ Receive(q) \/ Lock(q) \/ WriteByte(q) \/ WaitReady(q) \/ Spurious(q)
  \/ poll \/ Skip \/ ReadText \/ Print1 \/ Print2 \/ SignalReady
  \/ Quiet
-----------------------------------------------------------------------------
(***************************************************************************)
(* Every message is printed once and in order, whatever the helper does    *)
(* meanwhile, except where its wait returned without a signal: it then has *)
(* the memory of a message that main has not printed.                      *)
(***************************************************************************)
PrintedInOrder == \A q \in Queue \ spur : got[q] = [k \in 1..Len(got[q]) |-> k]

\* A helper that waits has its byte in the socket, or main has not signalled yet: no signal is lost.
HelperWoken ==
  \A q \in Queue : at[q] = "ready" /\ waits[q] => sock[q] # <<>> \/ (i = q /\ mpc \in {"print", "signal"})

\* With sendmsg as the sender no null byte is written behind the text's array.
TextInArray == ~wild
=============================================================================
