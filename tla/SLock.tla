-------------------------------- MODULE SLock --------------------------------
(***************************************************************************)
(* ipc1/slock.c: a lock made of a POSIX semaphore whose name is used only  *)
(* to create it.  The threads of a process each make a lock; a process may *)
(* end at any moment, and its ID is then used again.                       *)
(***************************************************************************)
EXTENDS Integers, Sequences

CONSTANTS
  Thread,      \* threads of the process
  MaxSem,      \* bound: semaphores made
  MaxLives     \* bound: processes that have the same ID one after the other

VARIABLES
  names,       \* the names (numbers after the process ID) that exist, and their semaphores
  value,       \* the value of each semaphore made so far
  cnt, n,      \* the static cnt, each thread's copy of it
  st, sp,      \* each thread: where it is, the semaphore of its struct slock
  inside,      \* <<t, s>>: thread t holds the lock made of semaphore s
  lives

vars == <<names, value, cnt, n, st, sp, inside, lives>>

Fresh ==
  [cnt |-> 0, n |-> [t \in Thread |-> 0], st |-> [t \in Thread |-> "alloc"], sp |-> [t \in Thread |-> 0]]

Init ==
  /\ names = <<>> /\ value = <<>> /\ inside = {} /\ lives = 1
  /\ cnt = Fresh.cnt /\ n = Fresh.n /\ st = Fresh.st /\ sp = Fresh.sp

\* cnt++ in the name: not atomic.
Count(t) ==
  /\ st[t] = "alloc" /\ n' = [n EXCEPT ![t] = cnt] /\ st' = [st EXCEPT ![t] = "count"]
  /\ UNCHANGED <<names, value, cnt, sp, inside, lives>>
Counted(t) ==
  /\ st[t] = "count" /\ cnt' = n[t] + 1 /\ st' = [st EXCEPT ![t] = "open"]
  /\ UNCHANGED <<names, value, n, sp, inside, lives>>

Made == Len(value)
\* sem_open with O_CREAT and O_EXCL; the loop goes on while the name exists.
OpenShared(t) ==
  /\ st[t] = "open" /\ Made < MaxSem
  /\ IF n[t] \in DOMAIN names
     THEN sp' = [sp EXCEPT ![t] = names[n[t]]] /\ UNCHANGED <<names, value>>
     ELSE /\ value' = Append(value, 1) /\ sp' = [sp EXCEPT ![t] = Made + 1]
          /\ names' = [m \in DOMAIN names \union {n[t]} |-> IF m = n[t] THEN Made + 1 ELSE names[m]]
  /\ st' = [st EXCEPT ![t] = "unlink"]
  /\ UNCHANGED <<cnt, n, inside, lives>>
Open(t) ==
  /\ st[t] = "open" /\ Made < MaxSem
  /\ IF n[t] \in DOMAIN names
     THEN st' = [st EXCEPT ![t] = "alloc"] /\ UNCHANGED <<names, value, sp>>
     ELSE /\ value' = Append(value, 1) /\ sp' = [sp EXCEPT ![t] = Made + 1]
          /\ names' = [m \in DOMAIN names \union {n[t]} |-> IF m = n[t] THEN Made + 1 ELSE names[m]]
          /\ st' = [st EXCEPT ![t] = "unlink"]
  /\ UNCHANGED <<cnt, n, inside, lives>>

\* sem_unlink: the semaphore stays, its name goes.
Unlink(t) ==
  /\ st[t] = "unlink" /\ st' = [st EXCEPT ![t] = "ready"]
  /\ names' = [m \in DOMAIN names \ {n[t]} |-> names[m]]
  /\ UNCHANGED <<value, cnt, n, sp, inside, lives>>
-----------------------------------------------------------------------------
\* Thread u uses the lock that thread t made.
Usable(t) == st[t] = "ready"

s_lockAny(u, t) ==
  /\ Usable(t) /\ <<u, sp[t]>> \notin inside
  /\ value' = [value EXCEPT ![sp[t]] = 0] /\ inside' = inside \union {<<u, sp[t]>>}
  /\ UNCHANGED <<names, cnt, n, st, sp, lives>>
s_lock(u, t) ==
  /\ Usable(t) /\ <<u, sp[t]>> \notin inside /\ value[sp[t]] > 0
  /\ value' = [value EXCEPT ![sp[t]] = @ - 1] /\ inside' = inside \union {<<u, sp[t]>>}
  /\ UNCHANGED <<names, cnt, n, st, sp, lives>>
\* Does not wait.
s_trylock(u, t) == s_lock(u, t) \/ (Usable(t) /\ value[sp[t]] = 0 /\ UNCHANGED vars)

s_unlock(u, t) ==
  /\ Usable(t) /\ <<u, sp[t]>> \in inside
  /\ value' = [value EXCEPT ![sp[t]] = @ + 1] /\ inside' = inside \ {<<u, sp[t]>>}
  /\ UNCHANGED <<names, cnt, n, st, sp, lives>>

\* Nobody holds the lock any more; the thread may make another.
s_free(t) ==
  /\ Usable(t) /\ \A u \in Thread : <<u, sp[t]>> \notin inside
  /\ sp' = [sp EXCEPT ![t] = 0] /\ st' = [st EXCEPT ![t] = "alloc"]
  /\ UNCHANGED <<names, value, cnt, n, inside, lives>>

\* The process ends, maybe between sem_open and sem_unlink, and its ID is used again.
NewProcess ==
  /\ lives < MaxLives /\ lives' = lives + 1 /\ inside' = {}
  /\ cnt' = Fresh.cnt /\ n' = Fresh.n /\ st' = Fresh.st /\ sp' = Fresh.sp
  /\ UNCHANGED <<names, value>>

Ended == Made = MaxSem /\ lives = MaxLives /\ UNCHANGED vars

Next ==
  \/ \E t \in Thread :
       \/ Count(t) \/ Counted(t) \/ Open(t) \/ Unlink(t) \/ s_free(t)
       \/ \E u \in Thread : s_trylock(u, t) \/ s_unlock(u, t)
  \/ NewProcess \/ Ended
-----------------------------------------------------------------------------
(***************************************************************************)
(* Two locks are never made of the same semaphore: not by threads that     *)
(* read the same cnt, nor with a name that an earlier process left behind. *)
(***************************************************************************)
OwnSemaphore == \A t, u \in Thread : sp[t] # 0 /\ sp[t] = sp[u] => t = u

\* One thread at a time holds a lock, and one that nobody holds can be taken.
LockExact ==
  \A t \in Thread : Usable(t) =>
    \/ value[sp[t]] = 1 /\ \A u \in Thread : <<u, sp[t]>> \notin inside
    \/ value[sp[t]] = 0 /\ \E u \in Thread : \A w \in Thread : <<w, sp[t]>> \in inside <=> w = u
=============================================================================
