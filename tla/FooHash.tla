------------------------------ MODULE FooHash ------------------------------
(***************************************************************************)
(* The reference-counted objects of threads/mutex2.c: a structure foo is   *)
(* linked into a hash table protected by hashlock, its count is protected  *)
(* by its own f_lock, and hashlock is taken before f_lock.  foo_rele must  *)
(* let go of f_lock to take hashlock, and looks at the count again.        *)
(*                                                                         *)
(* One hash chain is modelled, as the set of the objects on it: its order  *)
(* only decides which of two objects with one f_id foo_find returns.  A    *)
(* reference that a thread has (a pointer it may use until it calls        *)
(* foo_rele) is a token.  A critical section that asks for no other lock   *)
(* is one step.                                                            *)
(***************************************************************************)
EXTENDS Naturals, FiniteSets

CONSTANTS
  FooThread,  \* threads
  Foo,        \* addresses malloc returns
  FooId,      \* object identifiers
  Ref,        \* bound: references held at the same time
  Null        \* no thread, no object, no reference

ASSUME RefAssumption == IsFiniteSet(Ref) /\ Null \notin Ref
ASSUME FooAssumption == Null \notin Foo /\ Null \notin FooThread

VARIABLES
  fh,         \* objects on the chain
  mem,        \* "free", "init" (foo_alloc has not finished) or "ready"
  f_count, f_id, f_lock,
  hashlock,   \* thread that holds it
  owner, target,  \* who has a reference, and to what
  fpc, fp, fref   \* control point and locals of each thread

refvars == <<owner, target>>
thrvars == <<fpc, fp, fref>>
foovars == <<fh, mem, f_count, f_id, f_lock, hashlock, owner, target, fpc, fp, fref>>

FooInit ==
  /\ fh = {} /\ mem = [o \in Foo |-> "free"]
  /\ f_count = [o \in Foo |-> 0] /\ f_id = [o \in Foo |-> Null]
  /\ f_lock = [o \in Foo |-> Null] /\ hashlock = Null
  /\ owner = [r \in Ref |-> Null] /\ target = [r \in Ref |-> Null]
  /\ fpc = [t \in FooThread |-> "idle"]
  /\ fp = [t \in FooThread |-> Null] /\ fref = [t \in FooThread |-> Null]

Has(t, r) == owner[r] = t /\ target[r] # Null
Give(r, t, o) ==
  owner' = [owner EXCEPT ![r] = t] /\ target' = [target EXCEPT ![r] = o]
Drop(r) == Give(r, Null, Null)
Enter(t, label, o, r) ==
  /\ fpc' = [fpc EXCEPT ![t] = label]
  /\ fp' = [fp EXCEPT ![t] = o] /\ fref' = [fref EXCEPT ![t] = r]
Leave(t) == Enter(t, "idle", Null, Null)
Count(o, n) == f_count' = [f_count EXCEPT ![o] = n]
-----------------------------------------------------------------------------
\* foo_alloc: the object is linked with its f_lock held, which nobody else
\* can want before hashlock is released.
FooAlloc(t, o, id, r) ==
  /\ fpc[t] = "idle" /\ mem[o] = "free" /\ owner[r] = Null /\ hashlock = Null
  /\ mem' = [mem EXCEPT ![o] = "init"]
  /\ f_id' = [f_id EXCEPT ![o] = id]
  /\ fh' = fh \cup {o}
  /\ f_lock' = [f_lock EXCEPT ![o] = t]
  /\ Count(o, 1) /\ Give(r, t, o) /\ Enter(t, "init", o, r)
  /\ UNCHANGED hashlock

FooAllocDone(t) ==
  /\ fpc[t] = "init"
  /\ mem' = [mem EXCEPT ![fp[t]] = "ready"]
  /\ f_lock' = [f_lock EXCEPT ![fp[t]] = Null]
  /\ Leave(t)
  /\ UNCHANGED <<fh, f_count, f_id, hashlock, refvars>>

\* foo_hold: a thread that has a reference takes another, for itself or to
\* pass it to thread u.
FooHold(t, r, u, s) ==
  /\ fpc[t] = "idle" /\ Has(t, r) /\ owner[s] = Null
  /\ f_lock[target[r]] = Null
  /\ Count(target[r], f_count[target[r]] + 1)
  /\ Give(s, u, target[r])
  /\ UNCHANGED <<fh, mem, f_id, f_lock, hashlock, thrvars>>

\* foo_find: hashlock, the search, then foo_hold with hashlock held.  The
\* token of the coming reference is set aside.
FooFind(t, o, id, r) ==
  /\ fpc[t] = "idle" /\ hashlock = Null /\ owner[r] = Null
  /\ o \in fh /\ f_id[o] = id
  /\ hashlock' = t /\ Give(r, t, Null) /\ Enter(t, "find", o, r)
  /\ UNCHANGED <<fh, mem, f_count, f_id, f_lock>>

\* Mutant: foo_find counts without f_lock.
FindHoldUnlocked(t) ==
  LET o == fp[t] IN
  /\ fpc[t] = "find"
  /\ Count(o, f_count[o] + 1) /\ Give(fref[t], t, o)
  /\ hashlock' = Null /\ Leave(t)
  /\ UNCHANGED <<fh, mem, f_id, f_lock>>

FindHold(t) ==
  LET o == fp[t] IN
  /\ fpc[t] = "find" /\ f_lock[o] = Null
  /\ Count(o, f_count[o] + 1) /\ Give(fref[t], t, o)
  /\ hashlock' = Null /\ Leave(t)
  /\ UNCHANGED <<fh, mem, f_id, f_lock>>
-----------------------------------------------------------------------------
\* Mutant: a reference that is not the last leaves the count alone.
FooReleKeeping(t, r) ==
  LET o == target[r] IN
  /\ fpc[t] = "idle" /\ Has(t, r) /\ f_lock[o] = Null
  /\ \/ f_count[o] = 1 /\ Enter(t, "last", o, r) /\ UNCHANGED <<f_count, refvars>>
     \/ f_count[o] # 1 /\ Drop(r) /\ UNCHANGED <<thrvars, f_count>>
  /\ UNCHANGED <<fh, mem, f_id, f_lock, hashlock>>

\* Mutant: foo_rele keeps f_lock while it asks for hashlock.
FooReleHolding(t, r) ==
  LET o == target[r] IN
  /\ fpc[t] = "idle" /\ Has(t, r) /\ f_lock[o] = Null
  /\ \/ f_count[o] = 1 /\ Enter(t, "last", o, r) /\ f_lock' = [f_lock EXCEPT ![o] = t] /\ UNCHANGED <<f_count, refvars>>
     \/ f_count[o] # 1 /\ Count(o, f_count[o] - 1) /\ Drop(r) /\ UNCHANGED <<thrvars, f_lock>>
  /\ UNCHANGED <<fh, mem, f_id, hashlock>>

\* foo_rele, the first look at the count.
FooRele(t, r) ==
  LET o == target[r] IN
  /\ fpc[t] = "idle" /\ Has(t, r) /\ f_lock[o] = Null
  /\ \/ f_count[o] = 1 /\ Enter(t, "last", o, r) /\ UNCHANGED <<f_count, refvars>>
     \/ f_count[o] # 1 /\ Count(o, f_count[o] - 1) /\ Drop(r) /\ UNCHANGED thrvars
  /\ UNCHANGED <<fh, mem, f_id, f_lock, hashlock>>

ReleHash(t) ==
  /\ fpc[t] = "last" /\ hashlock = Null
  /\ hashlock' = t
  /\ Enter(t, "recheck", fp[t], fref[t])
  /\ UNCHANGED <<fh, mem, f_count, f_id, f_lock, refvars>>

\* Mutant: the count is not looked at again.
ReleUnchecked(t) ==
  LET o == fp[t] IN
  /\ fpc[t] = "recheck" /\ f_lock[o] = Null
  /\ Drop(fref[t]) /\ hashlock' = Null
  /\ fh' = fh \ {o} /\ Enter(t, "free", o, Null)
  /\ UNCHANGED <<mem, f_count, f_id, f_lock>>

\* foo_rele, the second look, with both locks: another thread may have found
\* the object in between.
ReleRecheck(t) ==
  LET o == fp[t] IN
  /\ fpc[t] = "recheck" /\ f_lock[o] = Null
  /\ Drop(fref[t]) /\ hashlock' = Null
  /\ \/ /\ f_count[o] # 1
        /\ Count(o, f_count[o] - 1) /\ Leave(t) /\ UNCHANGED fh
     \/ /\ f_count[o] = 1
        /\ fh' = fh \ {o} /\ Enter(t, "free", o, Null) /\ UNCHANGED f_count
  /\ UNCHANGED <<mem, f_id, f_lock>>

FooFree(t) ==
  /\ fpc[t] = "free"
  /\ mem' = [mem EXCEPT ![fp[t]] = "free"]
  /\ Leave(t)
  /\ UNCHANGED <<fh, f_count, f_id, f_lock, hashlock, refvars>>

\* The callers use f_lock for the rest of the object.
FooUse(t, r) ==
  /\ fpc[t] = "idle" /\ Has(t, r) /\ f_lock[target[r]] = Null
  /\ f_lock' = [f_lock EXCEPT ![target[r]] = t]
  /\ Enter(t, "use", target[r], r)
  /\ UNCHANGED <<fh, mem, f_count, f_id, hashlock, refvars>>

FooUsed(t) ==
  /\ fpc[t] = "use"
  /\ f_lock' = [f_lock EXCEPT ![fp[t]] = Null]
  /\ Leave(t)
  /\ UNCHANGED <<fh, mem, f_count, f_id, hashlock, refvars>>

FooStep(t) ==
  \/ \E r \in Ref :
       \/ \E o \in Foo, id \in FooId : FooAlloc(t, o, id, r) \/ FooFind(t, o, id, r)
       \/ \E u \in FooThread, s \in Ref : FooHold(t, r, u, s)
       \/ FooRele(t, r) \/ FooUse(t, r)
  \/ FooAllocDone(t) \/ FindHold(t) \/ FooUsed(t)
  \/ ReleHash(t) \/ ReleRecheck(t) \/ FooFree(t)

FooNext == \E t \in FooThread : FooStep(t)
FooSpec == FooInit /\ [][FooNext]_foovars
-----------------------------------------------------------------------------
Refs(o) == {r \in Ref : target[r] = o}

(***************************************************************************)
(* No object is freed, or unlinked, while a thread has a reference to it   *)
(* or is on its way from the chain to f_lock (foo_rele against foo_find):  *)
(* the count was 1 when foo_rele looked first, and may be more by now.     *)
(***************************************************************************)
NoUseAfterFree ==
  /\ \A r \in Ref : target[r] # Null => target[r] \in fh /\ mem[target[r]] # "free"
  /\ \A t \in FooThread : fpc[t] = "find" => fp[t] \in fh

(***************************************************************************)
(* f_count of a linked object is the number of references to it            *)
(* (foo_alloc, foo_hold, foo_find, foo_rele).                              *)
(***************************************************************************)
CountExact == \A o \in fh : f_count[o] = Cardinality(Refs(o))

(***************************************************************************)
(* foo_find returns no object that foo_alloc has not finished: f_lock is   *)
(* held from before the object can be found until it is initialised.       *)
(***************************************************************************)
FoundIsReady ==
  \A r \in Ref : target[r] # Null =>
    mem[target[r]] = "ready" \/ (fpc[owner[r]] = "init" /\ fref[owner[r]] = r)

(***************************************************************************)
(* The two locks are always taken in one order: a thread that has hashlock *)
(* waits for an f_lock (foo_find, foo_rele) only while its holder asks for *)
(* no lock itself, so that no threads wait for each other.                 *)
(***************************************************************************)
NoLockCycle ==
  \A t \in FooThread : fpc[t] \in {"find", "recheck"} =>
    f_lock[fp[t]] = Null \/ fpc[f_lock[fp[t]]] \in {"init", "use"}
=============================================================================
