------------------------------ MODULE FooCount ------------------------------
(***************************************************************************)
(* The other two versions of the reference-counted objects of FooHash:     *)
(* threads/mutex1.c counts under the object's f_lock and has no table,     *)
(* threads/mutex3.c counts under hashlock, which protects the table too.   *)
(* A thread uses an object with its f_lock held.  An order of the chain is *)
(* not modelled, nor the walk along it.                                    *)
(***************************************************************************)
EXTENDS Integers, FiniteSetsExt

CONSTANTS
  Thread, Obj, \* threads; addresses malloc returns
  MaxRef       \* bound: references to an object that a thread has

VARIABLES
  version,     \* 1: mutex1.c; 3: mutex3.c
  mem,         \* each object: "free", "init" or "ready"
  count,       \* f_count
  fh,          \* objects in the table
  flock,       \* who has each f_lock
  refs,        \* references of each thread to each object
  pc, fp       \* each thread: where it is, and with which object

vars == <<version, mem, count, fh, flock, refs, pc, fp>>
None == "none"

Init ==
  /\ version \in {1, 3} /\ mem = [o \in Obj |-> "free"] /\ count = [o \in Obj |-> 0] /\ fh = {}
  /\ flock = [o \in Obj |-> None] /\ refs = [t \in Thread |-> [o \in Obj |-> 0]]
  /\ pc = [t \in Thread |-> "idle"] /\ fp = [t \in Thread |-> None]

Goto(t, from, to, o) == pc[t] = from /\ pc' = [pc EXCEPT ![t] = to] /\ fp' = [fp EXCEPT ![t] = o]
\* The count is under the object's f_lock, or under hashlock, of which every critical section is one step.
LockFree(o) == version = 1 => flock[o] = None
GetRef(t, o) == refs[t][o] < MaxRef /\ refs' = [refs EXCEPT ![t][o] = @ + 1]
LoseRef(t, o) == refs' = [refs EXCEPT ![t][o] = @ - 1]
-----------------------------------------------------------------------------
\* foo_alloc.  mutex3.c links the object, and takes its f_lock before it lets go of hashlock.
Alloc1(t, o) ==
  /\ version = 1 /\ mem[o] = "free" /\ Goto(t, "idle", "idle", None) /\ GetRef(t, o)
  /\ mem' = [mem EXCEPT ![o] = "ready"] /\ count' = [count EXCEPT ![o] = 1]
  /\ UNCHANGED <<version, fh, flock>>
Malloc(t, o) ==
  /\ version = 3 /\ mem[o] = "free" /\ Goto(t, "idle", "link", o)
  /\ mem' = [mem EXCEPT ![o] = "init"] /\ count' = [count EXCEPT ![o] = 1]
  /\ UNCHANGED <<version, fh, flock, refs>>
LinkOpen(t) ==
  /\ Goto(t, "link", "finish", fp[t]) /\ fh' = fh \union {fp[t]}
  /\ GetRef(t, fp[t]) /\ UNCHANGED <<version, mem, count, flock>>
Link(t) ==
  /\ Goto(t, "link", "finish", fp[t]) /\ fh' = fh \union {fp[t]}
  /\ flock' = [flock EXCEPT ![fp[t]] = t] /\ GetRef(t, fp[t])
  /\ UNCHANGED <<version, mem, count>>
Finish(t) ==
  /\ Goto(t, "finish", "idle", None)
  /\ mem' = [mem EXCEPT ![fp[t]] = "ready"] /\ flock' = [flock EXCEPT ![fp[t]] = IF @ = t THEN None ELSE @]
  /\ UNCHANGED <<version, count, fh, refs>>

\* foo_hold, by a thread that has a reference.  mutex1.c lets a thread pass one on.
foo_hold(t, u, o) ==
  /\ pc[t] = "idle" /\ refs[t][o] > 0 /\ LockFree(o) /\ GetRef(u, o)
  /\ count' = [count EXCEPT ![o] = @ + 1]
  /\ UNCHANGED <<version, mem, fh, flock, pc, fp>>
\* foo_find: the object is found and counted in one critical section.
foo_findLate(t, o) ==
  /\ version = 3
  /\ \/ Goto(t, "idle", "found", o) /\ o \in fh /\ UNCHANGED <<count, refs>>
     \/ Goto(t, "found", "idle", None) /\ fp[t] = o /\ GetRef(t, o) /\ count' = [count EXCEPT ![o] = @ + 1]
  /\ UNCHANGED <<version, mem, fh, flock>>
foo_find(t, o) ==
  /\ version = 3 /\ Goto(t, "idle", "idle", None) /\ o \in fh
  /\ GetRef(t, o) /\ count' = [count EXCEPT ![o] = @ + 1]
  /\ UNCHANGED <<version, mem, fh, flock>>

Gone(t, o) == IF count[o] = 1 THEN Goto(t, "idle", "free", o) ELSE Goto(t, "idle", "idle", None)
\* foo_rele: the count is decremented and tested, and the object unlinked, under the lock; freed after it.
foo_rele1(t, o) ==
  /\ version = 1 /\ refs[t][o] > 0 /\ flock[o] = None /\ LoseRef(t, o)
  /\ count' = [count EXCEPT ![o] = @ - 1] /\ Gone(t, o)
  /\ UNCHANGED <<version, mem, fh, flock>>
foo_rele3(t, o) ==
  /\ version = 3 /\ refs[t][o] > 0 /\ LoseRef(t, o)
  /\ count' = [count EXCEPT ![o] = @ - 1] /\ Gone(t, o)
  /\ fh' = IF count[o] = 1 THEN fh \ {o} ELSE fh
  /\ UNCHANGED <<version, mem, flock>>
Free(t) ==
  /\ Goto(t, "free", "idle", None) /\ mem' = [mem EXCEPT ![fp[t]] = "free"]
  /\ UNCHANGED <<version, count, fh, flock, refs>>

\* A thread uses an object that it has a reference to.
Use(t, o) ==
  /\ pc[t] = "idle" /\ refs[t][o] > 0 /\ flock[o] = None
  /\ pc' = [pc EXCEPT ![t] = "uses"] /\ fp' = [fp EXCEPT ![t] = o] /\ flock' = [flock EXCEPT ![o] = t]
  /\ UNCHANGED <<version, mem, count, fh, refs>>
Used(t) ==
  /\ Goto(t, "uses", "idle", None) /\ flock' = [flock EXCEPT ![fp[t]] = None]
  /\ UNCHANGED <<version, mem, count, fh, refs>>

Next ==
  \E t \in Thread :
    \/ Link(t) \/ Finish(t) \/ Free(t) \/ Used(t)
    \/ \E o \in Obj : \/ Alloc1(t, o) \/ Malloc(t, o) \/ foo_find(t, o) \/ foo_rele1(t, o) \/ foo_rele3(t, o) \/ Use(t, o)
                      \/ \E u \in Thread : (u = t \/ version = 1) /\ foo_hold(t, u, o)
-----------------------------------------------------------------------------
Total(o) == MapThenSumSet(LAMBDA t : refs[t][o], Thread)

\* An object is freed by the last of its references and unlinked before: none in the table or referred to is free.
CountsRefs ==
  \A o \in Obj : /\ Total(o) > 0 => mem[o] # "free" /\ count[o] = Total(o)
                 /\ o \in fh => Total(o) > 0

\* Whoever uses an object finds it initialised, though it was in the table before.
UsedReady == \A t \in Thread : pc[t] = "uses" => mem[fp[t]] = "ready"
=============================================================================
