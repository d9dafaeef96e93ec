------------------------------ MODULE Ruptime ------------------------------
(***************************************************************************)
(* The remote uptime service: its three servers (sockets/ruptimed.c with   *)
(* popen, ruptimed-fd.c with fork and exec, ruptimed-dg.c for datagrams),  *)
(* initserver (initsrv1.c, initsrv2.c), connect_retry (clconn.c,           *)
(* clconn2.c) and the clients ruptime.c and ruptime-dg.c.                  *)
(***************************************************************************)
EXTENDS Integers, Sequences, SequencesExt

CONSTANTS
  Client,      \* clients of the service
  MAXSLEEP,    \* of connect_retry, a power of 2
  QLEN,        \* connections that wait
  Addrs        \* addresses that getaddrinfo returns

VARIABLES
  kind,        \* "popen", "fork" or "dgram"
  reuse,       \* connect_retry keeps its caller's socket for every try (clconn.c) or takes a new one (clconn2.c)
  srv, aip, open, \* the server: where it is, the address it tries, sockets it has open
  backlog, cur, \* connections or requests that wait; the one served
  holders,     \* processes that hold each connection open
  hung,        \* children whose exec failed, by connection, each the child of the one before
  cst, numsec, slept, socks, \* each client: where it is; of connect_retry; sockets open
  alarm, early, \* ruptime-dg: the alarm clock; it rang before recvfrom
  reply        \* datagrams on their way back

svars == <<srv, aip, open, backlog, cur, holders, hung>>
cvars == <<cst, numsec, slept, socks, alarm, early>>
vars == <<kind, reuse, srv, aip, open, backlog, cur, holders, hung, cst, numsec, slept, socks, alarm, early, reply>>
None == 0

Init ==
  /\ kind \in {"popen", "fork", "dgram"} /\ reuse \in BOOLEAN
  /\ srv = "init" /\ aip = 1 /\ open = 0 /\ backlog = <<>> /\ cur = None
  /\ holders = [c \in Client |-> {}] /\ hung = <<>>
  /\ cst = [c \in Client |-> "start"] /\ numsec = [c \in Client |-> 1] /\ slept = [c \in Client |-> 0]
  /\ socks = [c \in Client |-> 0] /\ alarm = [c \in Client |-> "off"] /\ early = [c \in Client |-> FALSE]
  /\ reply = {}
-----------------------------------------------------------------------------
\* initserver: a socket, bound and listening; on an error it is closed.
initserverLeak == \/ open' = open + 1 /\ srv' = "accept" /\ UNCHANGED aip
                  \/ open' = open + 1 /\ aip' = aip + 1 /\ UNCHANGED srv
initserver == \/ open' = open + 1 /\ srv' = "accept" /\ UNCHANGED aip
              \/ UNCHANGED open /\ aip' = aip + 1 /\ UNCHANGED srv
\* main tries the addresses in turn, and exits after the last.
Startup ==
  /\ srv = "init"
  /\ \/ aip <= Addrs /\ initserver
     \/ aip > Addrs /\ srv' = "gone" /\ UNCHANGED <<open, aip>>
  /\ UNCHANGED <<kind, reuse, backlog, cur, holders, hung, cvars, reply>>
PopenMain == kind = "popen" /\ Startup
ForkMain == kind = "fork" /\ Startup
DgramMain == kind = "dgram" /\ Startup

(***************************************************************************)
(* An error ends the process that accepts: the server, or the last child   *)
(* whose exec failed, and then its parent returns from waitpid.            *)
(***************************************************************************)
Exits ==
  LET closed == [c \in Client |-> holders[c] \ {"server"}]
  IN IF hung = <<>>
     THEN srv' = "gone" /\ holders' = closed /\ UNCHANGED hung
     ELSE srv' = "accept" /\ hung' = Front(hung) /\ holders' = [closed EXCEPT ![Last(hung)] = @ \ {"child"}]
\* accept, or recvfrom.
Accept ==
  /\ srv = "accept"
  /\ \/ /\ backlog # <<>> /\ srv' = "serve" /\ cur' = Head(backlog) /\ backlog' = Tail(backlog)
        /\ holders' = IF kind = "dgram" THEN holders ELSE [holders EXCEPT ![Head(backlog)] = {"server"}]
        /\ UNCHANGED hung
     \/ Exits /\ UNCHANGED <<cur, backlog>>
  /\ UNCHANGED <<kind, reuse, aip, open, cvars, reply>>

\* serve with popen: the lines of uptime or the error, then close.
ServePopen ==
  /\ kind = "popen" /\ srv = "serve" /\ srv' = "accept"
  /\ holders' = [holders EXCEPT ![cur] = {}]
  /\ UNCHANGED <<kind, reuse, aip, open, backlog, cur, hung, cvars, reply>>
\* serve with fork: the child's standard output is the connection; the parent closes its own and waits.
ServeForkOpen ==
  /\ kind = "fork" /\ srv = "serve" /\ srv' = "waitpid"
  /\ holders' = [holders EXCEPT ![cur] = {"server", "child"}]
  /\ UNCHANGED <<kind, reuse, aip, open, backlog, cur, hung, cvars, reply>>
ServeFork ==
  /\ kind = "fork" /\ srv = "serve"
  /\ \/ srv' = "waitpid" /\ holders' = [holders EXCEPT ![cur] = {"child"}] /\ UNCHANGED hung
     \/ Exits
  /\ UNCHANGED <<kind, reuse, aip, open, backlog, cur, cvars, reply>>
(***************************************************************************)
(* uptime runs and ends (or dup2 fails); or exec fails, and the child,     *)
(* which does not exit, is the next to accept while its parent waits.      *)
(***************************************************************************)
ChildRuns ==
  /\ kind = "fork" /\ srv = "waitpid" /\ srv' = "accept"
  /\ \/ holders' = [holders EXCEPT ![cur] = @ \ {"child"}] /\ UNCHANGED hung
     \/ hung' = Append(hung, cur) /\ UNCHANGED holders
  /\ UNCHANGED <<kind, reuse, aip, open, backlog, cur, cvars, reply>>
\* serve for datagrams: one line to the address of the request, or the error.
ServeDgram ==
  /\ kind = "dgram" /\ srv = "serve" /\ srv' = "accept" /\ reply' \in {reply, reply \union {cur}}
  /\ UNCHANGED <<kind, reuse, aip, open, backlog, cur, holders, hung, cvars>>
-----------------------------------------------------------------------------
\* connect_retry: a socket, a try; on failure it is closed, and the next try waits twice as long.
CloseTryKeep(c) == UNCHANGED socks
CloseTry(c) == socks' = IF reuse THEN socks ELSE [socks EXCEPT ![c] = 0]
TryAgainOff(c) == numsec[c] < MAXSLEEP
TryAgain(c) == numsec[c] <= MAXSLEEP
Connect(c) ==
  /\ kind # "dgram" /\ cst[c] = "start" /\ TryAgain(c)
  /\ \/ /\ socks' = [socks EXCEPT ![c] = IF reuse /\ @ = 1 THEN 1 ELSE @ + 1]
        /\ \/ /\ srv \notin {"init", "gone"} /\ Len(backlog) < QLEN
              /\ backlog' = Append(backlog, c) /\ cst' = [cst EXCEPT ![c] = "recv"]
           \/ cst' = [cst EXCEPT ![c] = "refused"] /\ UNCHANGED backlog
     \/ ~reuse /\ cst' = [cst EXCEPT ![c] = "nosocket"] /\ UNCHANGED <<socks, backlog>>
  /\ UNCHANGED <<kind, reuse, srv, aip, open, cur, holders, hung, numsec, slept, alarm, early, reply>>
Backoff(c) ==
  /\ cst[c] = "refused" /\ cst' = [cst EXCEPT ![c] = "start"] /\ CloseTry(c)
  /\ slept' = IF numsec[c] <= MAXSLEEP \div 2 THEN [slept EXCEPT ![c] = @ + numsec[c]] ELSE slept
  /\ numsec' = [numsec EXCEPT ![c] = 2 * @]
  /\ UNCHANGED <<kind, reuse, svars, alarm, early, reply>>
GiveUp(c) ==
  /\ kind # "dgram" /\ cst[c] = "start" /\ ~TryAgain(c) /\ cst' = [cst EXCEPT ![c] = "failed"]
  /\ UNCHANGED <<kind, reuse, svars, numsec, slept, socks, alarm, early, reply>>
\* ruptime: read until the connection ends.
Waiting(c) == c \in {backlog[k] : k \in 1..Len(backlog)}
print_uptime(c) ==
  /\ kind # "dgram" /\ cst[c] = "recv" /\ holders[c] = {}
  /\ (~Waiting(c) \/ srv = "gone")
  /\ cst' = [cst EXCEPT ![c] = "done"] /\ socks' = [socks EXCEPT ![c] = 0]
  /\ UNCHANGED <<kind, reuse, svars, numsec, slept, alarm, early, reply>>

\* ruptime-dg: the request, which may be lost; the alarm; the answer or the alarm's signal.
SendTo(c) ==
  /\ kind = "dgram" /\ cst[c] = "start" /\ cst' = [cst EXCEPT ![c] = "sent"]
  /\ backlog' \in {backlog, IF srv \in {"init", "gone"} THEN backlog ELSE Append(backlog, c)}
  /\ UNCHANGED <<kind, reuse, srv, aip, open, cur, holders, hung, numsec, slept, socks, alarm, early, reply>>
SetAlarmNot(c) ==
  /\ cst[c] = "sent" /\ cst' = [cst EXCEPT ![c] = "armed"]
  /\ UNCHANGED <<kind, reuse, svars, numsec, slept, socks, alarm, early, reply>>
SetAlarm(c) ==
  /\ cst[c] = "sent" /\ cst' = [cst EXCEPT ![c] = "armed"] /\ alarm' = [alarm EXCEPT ![c] = "set"]
  /\ UNCHANGED <<kind, reuse, svars, numsec, slept, socks, early, reply>>
RecvFrom(c) ==
  /\ \/ cst[c] = "armed" /\ cst' = [cst EXCEPT ![c] = "recv"] /\ UNCHANGED <<alarm, reply>>
     \/ /\ kind = "dgram" /\ cst[c] = "recv" /\ c \in reply /\ reply' = reply \ {c}
        /\ cst' = [cst EXCEPT ![c] = "done"] /\ alarm' = [alarm EXCEPT ![c] = "off"]
  /\ UNCHANGED <<kind, reuse, svars, numsec, slept, socks, early>>
sigalrm(c) ==
  /\ alarm[c] = "set" /\ alarm' = [alarm EXCEPT ![c] = "off"]
  /\ \/ cst[c] = "armed" /\ early' = [early EXCEPT ![c] = TRUE] /\ UNCHANGED cst
     \/ cst[c] = "recv" /\ cst' = [cst EXCEPT ![c] = "failed"] /\ UNCHANGED early
  /\ UNCHANGED <<kind, reuse, svars, numsec, slept, socks, reply>>
Lose == \E c \in reply : reply' = reply \ {c} /\ UNCHANGED <<kind, reuse, svars, cvars>>

Stuck(c) == \E k \in DOMAIN hung : hung[k] = c
Ended ==
  /\ \A c \in Client : cst[c] \in {"done", "failed", "nosocket"} \/ Stuck(c) \/ early[c]
  /\ UNCHANGED vars

Server == PopenMain \/ ForkMain \/ DgramMain \/ Accept \/ ServePopen \/ ServeFork \/ ChildRuns \/ ServeDgram
Next ==
  \/ Server
  \/ \E c \in Client : \/ Connect(c) \/ Backoff(c) \/ GiveUp(c) \/ print_uptime(c)
                       \/ SendTo(c) \/ SetAlarm(c) \/ RecvFrom(c) \/ sigalrm(c)
  \/ Lose \/ Ended
-----------------------------------------------------------------------------
(***************************************************************************)
(* A server that is back at accept holds no connection open, in itself or  *)
(* in a child, so that every client reads an end of file; the clients of a *)
(* child whose exec failed are the exception: that child goes on as a      *)
(* server with the connection as its standard output.                      *)
(***************************************************************************)
ConnectionEnds == srv \in {"accept", "gone"} => \A c \in Client : Stuck(c) \/ holders[c] = {}

\* However many addresses fail, the server has one socket, the one it listens on.
OneListener == srv \in {"accept", "serve", "waitpid"} => open = 1

(***************************************************************************)
(* connect_retry has one socket open at a time and none once it gives up   *)
(* (with clconn.c, its caller's), after all its tries and waits: MAXSLEEP  *)
(* is tried too, without a wait after it.                                  *)
(***************************************************************************)
RetryClean ==
  \A c \in Client :
    /\ socks[c] <= 1
    /\ cst[c] \in {"failed", "nosocket"} /\ kind # "dgram" => (reuse \/ socks[c] = 0)
RetryWaits == \A c \in Client : cst[c] = "failed" /\ kind # "dgram" => slept[c] = MAXSLEEP - 1 /\ numsec[c] = 2 * MAXSLEEP

\* A datagram client that waits has an alarm to come, unless it rang before recvfrom was called.
AlarmCovers == \A c \in Client : kind = "dgram" /\ cst[c] = "recv" => alarm[c] = "set" \/ early[c]
=============================================================================
