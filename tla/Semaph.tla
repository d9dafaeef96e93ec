------------------------------- MODULE Semaph -------------------------------
(***************************************************************************)
(* lib/semaph.c: a semaphore made of a System V set of three.  Member 0 is *)
(* the value, member 1 counts down the processes that use the semaphore    *)
(* from BIGCOUNT, member 2 is a lock.  Processes may exit at any moment;   *)
(* the system then takes back what they did with SEM_UNDO.                 *)
(***************************************************************************)
EXTENDS Integers, FiniteSets

CONSTANTS
  Proc,
  BIGCOUNT,    \* larger than the number of processes
  initval,
  MaxOpen      \* bound: calls of sem_create and sem_open

VARIABLES
  gen, gens,   \* the set that the key names (0: none), sets ever made
  val,         \* its three members
  adj,         \* what exit adds to each member, for each process
  pc, id, via, \* each process: where it is, its set, the call that opened it
  opens        \* calls so far

vars == <<gen, gens, val, adj, pc, id, via, opens>>

Zero == [k \in 0..2 |-> 0]

SemInit ==
  /\ gen = 0 /\ gens = 0 /\ val = Zero /\ adj = [p \in Proc |-> Zero]
  /\ pc = [p \in Proc |-> "out"] /\ id = [p \in Proc |-> 0]
  /\ via = [p \in Proc |-> "none"] /\ opens = 0
-----------------------------------------------------------------------------
Goto(p, l) == pc' = [pc EXCEPT ![p] = l]
Exists(p) == id[p] = gen

\* semop with SEM_UNDO: d is added to the members, and taken back at exit.
semop(p, d) ==
  /\ \A k \in 0..2 : val[k] + d[k] >= 0
  /\ val' = [k \in 0..2 |-> val[k] + d[k]]
  /\ adj' = [adj EXCEPT ![p] = [k \in 0..2 |-> @[k] - d[k]]]

\* semctl SETVAL forgets what exit would add to the member.
SetVal(k, v) ==
  /\ val' = [val EXCEPT ![k] = v] /\ adj' = [p \in Proc |-> [adj[p] EXCEPT ![k] = 0]]

By(a, b, c) == [k \in 0..2 |-> <<a, b, c>>[k + 1]]
op_lock == By(0, 0, 1)
op_endcreate == By(0, -1, -1)
op_open == By(0, -1, 0)
op_close == By(0, 1, 1)
op_unlock == By(0, 0, -1)

\* semop on a set that is not there any more: err_sys ends the process.
Fails(p) == Goto(p, "dead") /\ UNCHANGED <<gen, gens, val, adj, id, via, opens>>
-----------------------------------------------------------------------------
\* semget with IPC_CREAT: the members of a new set are 0.
CreateGet(p) ==
  /\ pc[p] = "again" \/ (pc[p] = "out" /\ opens < MaxOpen)
  /\ opens' = IF pc[p] = "out" THEN opens + 1 ELSE opens
  /\ IF gen = 0 THEN gens' = gens + 1 /\ gen' = gens + 1 /\ val' = Zero
                ELSE UNCHANGED <<gens, gen, val>>
  /\ id' = [id EXCEPT ![p] = gen'] /\ via' = [via EXCEPT ![p] = "create"]
  /\ Goto(p, "c_lock") /\ UNCHANGED adj

(***************************************************************************)
(* The lock.  A set that is gone before the call is made again (EINVAL);   *)
(* one that goes while the process sleeps is an error (EIDRM).             *)
(***************************************************************************)
CreateLockKept(p) ==
  /\ pc[p] = "c_lock" /\ Exists(p) /\ val[2] = 0 /\ val' = [val EXCEPT ![2] = 1]
  /\ Goto(p, "c_val") /\ UNCHANGED <<gen, gens, adj, id, via, opens>>
CreateLock(p) ==
  /\ pc[p] \in {"c_lock", "c_sleep"}
  /\ \/ Exists(p) /\ val[2] = 0 /\ semop(p, op_lock) /\ Goto(p, "c_val") /\ UNCHANGED <<gen, gens, id, via, opens>>
     \/ /\ Exists(p) /\ val[2] # 0 /\ pc[p] = "c_lock" /\ Goto(p, "c_sleep")
        /\ UNCHANGED <<gen, gens, val, adj, id, via, opens>>
     \/ /\ ~Exists(p) /\ pc[p] = "c_lock" /\ Goto(p, "again")
        /\ UNCHANGED <<gen, gens, val, adj, id, via, opens>>
     \/ ~Exists(p) /\ pc[p] = "c_sleep" /\ Fails(p)

\* Whoever finds the counter at 0 sets the value, then the counter.
CreateSet0Any(p) ==
  /\ pc[p] = "c_val" /\ SetVal(0, initval)
  /\ IF val[1] = 0 THEN Goto(p, "c_set1") ELSE Goto(p, "c_end")
  /\ UNCHANGED <<gen, gens, id, via, opens>>
CreateSet0(p) ==
  /\ pc[p] = "c_val"
  /\ IF val[1] = 0 THEN SetVal(0, initval) /\ Goto(p, "c_set1")
                   ELSE Goto(p, "c_end") /\ UNCHANGED <<val, adj>>
  /\ UNCHANGED <<gen, gens, id, via, opens>>

CreateSet1(p) ==
  /\ pc[p] = "c_set1" /\ SetVal(1, BIGCOUNT) /\ Goto(p, "c_end")
  /\ UNCHANGED <<gen, gens, id, via, opens>>

EndCreateKept(p) ==
  /\ pc[p] = "c_end" /\ val' = [val EXCEPT ![1] = @ - 1, ![2] = @ - 1]
  /\ adj' = [adj EXCEPT ![p][2] = @ + 1] /\ Goto(p, "open")
  /\ UNCHANGED <<gen, gens, id, via, opens>>
EndCreate(p) ==
  /\ pc[p] = "c_end" /\ semop(p, op_endcreate) /\ Goto(p, "open")
  /\ UNCHANGED <<gen, gens, id, via, opens>>
-----------------------------------------------------------------------------
OpenGet(p) ==
  /\ pc[p] = "out" /\ opens < MaxOpen /\ gen # 0
  /\ opens' = opens + 1 /\ id' = [id EXCEPT ![p] = gen] /\ via' = [via EXCEPT ![p] = "open"]
  /\ Goto(p, "o_count") /\ UNCHANGED <<gen, gens, val, adj>>

\* Waits for a counter that is not set yet; takes no lock.
OpenCount(p) ==
  /\ pc[p] = "o_count"
  /\ \/ Exists(p) /\ semop(p, op_open) /\ Goto(p, "open") /\ UNCHANGED <<gen, gens, id, via, opens>>
     \/ ~Exists(p) /\ Fails(p)
-----------------------------------------------------------------------------
CloseLockNone(p) ==
  /\ pc[p] = "open"
  /\ \/ Exists(p) /\ semop(p, op_close) /\ Goto(p, "x_val") /\ UNCHANGED <<gen, gens, id, via, opens>>
     \/ ~Exists(p) /\ Fails(p)
CloseLock(p) ==
  /\ pc[p] = "open"
  /\ \/ Exists(p) /\ val[2] = 0 /\ semop(p, op_close) /\ Goto(p, "x_val") /\ UNCHANGED <<gen, gens, id, via, opens>>
     \/ ~Exists(p) /\ Fails(p)

CloseVal(p) ==
  /\ pc[p] = "x_val" /\ Goto(p, IF val[1] > BIGCOUNT THEN "dead"
                                ELSE IF val[1] = BIGCOUNT THEN "x_rm" ELSE "x_unlock")
  /\ UNCHANGED <<gen, gens, val, adj, id, via, opens>>

sem_rm(p) ==
  /\ pc[p] = "x_rm" /\ gen' = 0 /\ adj' = [q \in Proc |-> Zero] /\ val' = Zero
  /\ Goto(p, "out") /\ UNCHANGED <<gens, id, via, opens>>

CloseUnlock(p) ==
  /\ pc[p] = "x_unlock" /\ semop(p, op_unlock) /\ Goto(p, "out")
  /\ UNCHANGED <<gen, gens, id, via, opens>>
-----------------------------------------------------------------------------
sem_op(p, value) ==
  \/ Exists(p) /\ semop(p, By(value, 0, 0)) /\ Goto(p, IF value < 0 THEN "in" ELSE "open")
     /\ UNCHANGED <<gen, gens, id, via, opens>>
  \/ ~Exists(p) /\ Fails(p)
sem_wait(p) == pc[p] = "open" /\ sem_op(p, -1)
sem_signal(p) == pc[p] = "in" /\ sem_op(p, 1)

Larger(x, y) == IF x > y THEN x ELSE y
\* A process exits, at any moment after it has found the set.
Exit(p) ==
  /\ pc[p] \notin {"out", "dead"} /\ Goto(p, "dead")
  /\ val' = IF Exists(p) THEN [k \in 0..2 |-> Larger(0, val[k] + adj[p][k])] ELSE val
  /\ adj' = [adj EXCEPT ![p] = Zero]
  /\ UNCHANGED <<gen, gens, id, via, opens>>

\* All are out, or wait in sem_open for a set that its creator never initialised.
SemEnded ==
  /\ \A p \in Proc : \/ pc[p] \in {"out", "dead"} /\ opens = MaxOpen
                     \/ pc[p] = "dead"
                     \/ pc[p] = "o_count" /\ val[1] = 0
  /\ UNCHANGED vars

SemNext ==
  \/ \E p \in Proc :
       \/ CreateGet(p) \/ CreateLock(p) \/ CreateSet0(p) \/ CreateSet1(p) \/ EndCreate(p)
       \/ OpenGet(p) \/ OpenCount(p)
       \/ CloseLock(p) \/ CloseVal(p) \/ sem_rm(p) \/ CloseUnlock(p)
       \/ sem_wait(p) \/ sem_signal(p) \/ Exit(p)
  \/ SemEnded
-----------------------------------------------------------------------------
Locked == {"c_val", "c_set1", "c_end", "x_val", "x_rm", "x_unlock"}

\* The counter tells how many processes use the semaphore, those that exited not included.
CountsUsers ==
  gen # 0 /\ val[1] # 0 =>
    val[1] = BIGCOUNT - Cardinality({p \in Proc : Exists(p) /\ pc[p] \in {"open", "in"}})

\* Used as a lock, the semaphore lets one process in, whoever creates or exits meanwhile.
OneInside == Cardinality({p \in Proc : Exists(p) /\ pc[p] = "in"}) <= initval

\* The lock is held by a process that is still there to release it.
LockHasHolder ==
  gen # 0 /\ val[2] = 1 => \E p \in Proc : Exists(p) /\ pc[p] \in Locked

(***************************************************************************)
(* The last sem_close does not remove a semaphore that a process has       *)
(* opened with sem_create.  (With sem_open it can: the counter is          *)
(* decremented without the lock.)                                          *)
(***************************************************************************)
CreatorKeeps ==
  \A p \in Proc : via[p] = "create" /\ pc[p] \in {"open", "in"} => Exists(p)
=============================================================================
