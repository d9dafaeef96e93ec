---------------------------- MODULE ThreadProofs ----------------------------
(***************************************************************************)
(* Proofs about the threads of threads/mutex2.c and threads/rwlock.c: the  *)
(* reference counts of the first, for any number of threads, objects and   *)
(* references, and the list of the second, for any number of jobs and      *)
(* workers; and about the thread of printer/printd.c that reads what the   *)
(* printer answers, for any set of answers.                                *)
(***************************************************************************)
EXTENDS FooHash, JobQueue, PrinterStatus, FiniteSetTheorems, NaturalsInduction,
        WellFoundedInduction, SequenceTheorems, TLAPS

(***************************************************************************)
(* threads/mutex2.c: reference counts.                                     *)
(***************************************************************************)
Control == {"idle", "init", "find", "last", "recheck", "free", "use"}

FooTypeOK ==
  /\ fh \subseteq Foo
  /\ mem \in [Foo -> {"free", "init", "ready"}]
  /\ f_count \in [Foo -> Nat]
  /\ f_lock \in [Foo -> FooThread \cup {Null}]
  /\ hashlock \in FooThread \cup {Null}
  /\ owner \in [Ref -> FooThread \cup {Null}]
  /\ target \in [Ref -> Foo \cup {Null}]
  /\ fpc \in [FooThread -> Control]
  /\ fp \in [FooThread -> Foo \cup {Null}]
  /\ fref \in [FooThread -> Ref \cup {Null}]

\* References lead to linked objects, and linked objects are allocated.
RefInv ==
  /\ \A r \in Ref : target[r] # Null => target[r] \in fh /\ owner[r] # Null
  /\ \A o \in fh : mem[o] # "free"

\* A thread inside a function has the object, the token and the locks it is
\* about to use; the token is its own, so no two threads release it.
ThrOK(t) ==
  /\ fpc[t] = "find" => /\ hashlock = t /\ fp[t] \in fh
                           /\ fref[t] \in Ref
                           /\ owner[fref[t]] = t /\ target[fref[t]] = Null
  /\ fpc[t] = "recheck" => hashlock = t
  /\ fpc[t] \in {"last", "recheck", "init", "use"} =>
       /\ fp[t] \in fh /\ fref[t] \in Ref
       /\ owner[fref[t]] = t /\ target[fref[t]] = fp[t]
  /\ fpc[t] \in {"init", "use"} => f_lock[fp[t]] = t
  /\ fpc[t] = "init" => mem[fp[t]] = "init"
  /\ fpc[t] = "free" => fp[t] \in Foo \ fh /\ mem[fp[t]] = "ready"
ThrInv == \A t \in FooThread : ThrOK(t)

\* An unlinked object is freed by one thread.
FreeInv ==
  \A t, u \in FooThread :
    fpc[t] = "free" /\ fpc[u] = "free" /\ fp[t] = fp[u] => t = u

\* Somebody has f_lock of an object that foo_alloc has not finished.
InitInv == \A o \in Foo : mem[o] = "init" => f_lock[o] # Null

(***************************************************************************)
(* The inductive invariant.  CountExact alone is not inductive: that the   *)
(* count is 1 allows foo_rele to unlink the object because the one         *)
(* reference is the caller's own, which ThrInv says.                       *)
(***************************************************************************)
FooInv ==
  FooTypeOK /\ RefInv /\ ThrInv /\ FreeInv /\ InitInv /\ CountExact /\ FoundIsReady
-----------------------------------------------------------------------------
\* The references to one object are finitely many.
LEMMA RefsFinite ==
  \A o : IsFiniteSet(Refs(o)) /\ Cardinality(Refs(o)) \in Nat
  BY RefAssumption, FS_Subset, FS_CardinalityType DEF Refs

\* foo_hold and foo_find: a new reference to o0 adds one to it, and none to
\* any other object.
LEMMA GiveRefs ==
  ASSUME FooTypeOK, NEW o0 \in Foo, NEW r \in Ref, NEW t \in FooThread,
         target[r] = Null, Give(r, t, o0)
  PROVE  /\ Cardinality(Refs(o0)') = Cardinality(Refs(o0)) + 1
         /\ \A o \in Foo \ {o0} : Refs(o)' = Refs(o)
<1>1. Refs(o0)' = Refs(o0) \cup {r} /\ r \notin Refs(o0)
  BY FooAssumption DEF Refs, Give, FooTypeOK
<1>2. \A o \in Foo \ {o0} : Refs(o)' = Refs(o)
  BY FooAssumption DEF Refs, Give, FooTypeOK
<1>3. Cardinality(Refs(o0) \cup {r}) = Cardinality(Refs(o0)) + 1
  BY <1>1, RefsFinite, FS_AddElement
<1> QED BY <1>1, <1>2, <1>3

\* A reference counts: when the count is 1 it is the only one.
LEMMA OneRef ==
  ASSUME NEW o0, NEW r \in Ref, target[r] = o0
  PROVE  /\ Cardinality(Refs(o0) \ {r}) = Cardinality(Refs(o0)) - 1
         /\ Cardinality(Refs(o0)) >= 1
         /\ Cardinality(Refs(o0)) = 1 => Refs(o0) = {r}
<1>1. r \in Refs(o0)
  BY DEF Refs
<1>2. Cardinality(Refs(o0) \ {r}) = Cardinality(Refs(o0)) - 1
  BY <1>1, RefsFinite, FS_RemoveElement
<1>3. IsFiniteSet(Refs(o0) \ {r}) /\ Cardinality(Refs(o0) \ {r}) \in Nat
  BY RefsFinite, FS_RemoveElement, FS_CardinalityType
<1>4. Cardinality(Refs(o0)) >= 1
  BY <1>2, <1>3, RefsFinite
<1>5. Cardinality(Refs(o0)) = 1 => Refs(o0) = {r}
  <2>1. Cardinality(Refs(o0)) = 1 => Cardinality(Refs(o0) \ {r}) = 0
    BY <1>2
  <2>2. Cardinality(Refs(o0) \ {r}) = 0 => Refs(o0) \ {r} = {}
    BY <1>3, FS_EmptySet
  <2> QED BY <2>1, <2>2, <1>1
<1> QED BY <1>2, <1>4, <1>5

\* foo_rele: a reference that is dropped was one of those to its object.
LEMMA DropRefs ==
  ASSUME FooTypeOK, NEW o0 \in Foo, NEW r \in Ref, target[r] = o0, Drop(r)
  PROVE  /\ Refs(o0)' = Refs(o0) \ {r}
         /\ Cardinality(Refs(o0)') = Cardinality(Refs(o0)) - 1
         /\ \A o \in Foo \ {o0} : Refs(o)' = Refs(o)
<1>1. Refs(o0)' = Refs(o0) \ {r}
  BY FooAssumption DEF Refs, Drop, Give, FooTypeOK
<1>2. \A o \in Foo \ {o0} : Refs(o)' = Refs(o)
  BY FooAssumption DEF Refs, Drop, Give, FooTypeOK
<1> QED BY <1>1, <1>2, OneRef
-----------------------------------------------------------------------------
LEMMA FooInitInv == FooInit => FooInv
  BY FooAssumption DEF FooInit, FooInv, FooTypeOK, RefInv, ThrInv, ThrOK, FreeInv,
     InitInv, CountExact, FoundIsReady, Control

\* foo_alloc: the new object has one reference.
LEMMA FooAllocInv ==
  ASSUME FooInv, NEW t \in FooThread, NEW o \in Foo, NEW id \in FooId, NEW r \in Ref, FooAlloc(t, o, id, r)
  PROVE  FooInv'
<1> USE FooAssumption DEF FooInv
<1> USE DEF FooAlloc, Has, Give, Drop, Enter, Leave, Count, refvars, thrvars
<1>1. FooTypeOK'
  BY DEF FooTypeOK, Control, ThrInv, ThrOK
<1>2. RefInv'
  BY DEF FooTypeOK, RefInv, ThrInv, ThrOK, FoundIsReady
<1>3. ThrInv'
  <2>1. ASSUME NEW u \in FooThread, u # t PROVE ThrOK(u)'
    BY <2>1 DEF FooTypeOK, RefInv, ThrInv, ThrOK
  <2>2. ThrOK(t)'
    BY DEF FooTypeOK, RefInv, ThrInv, ThrOK, InitInv
  <2> QED BY <2>1, <2>2 DEF ThrInv
<1>4. FreeInv'
  BY DEF FooTypeOK, ThrInv, ThrOK, FreeInv
<1>5. InitInv'
  BY DEF FooTypeOK, RefInv, ThrInv, ThrOK, InitInv, FoundIsReady
<1>6. FoundIsReady'
  <2>1. ASSUME NEW q \in Ref, q # r, target'[q] # Null
        PROVE  mem'[target'[q]] = "ready" \/ (fpc'[owner'[q]] = "init" /\ fref'[owner'[q]] = q)
    BY <2>1 DEF FooTypeOK, RefInv, ThrInv, ThrOK, FoundIsReady
  <2>2. target'[r] # Null =>
          mem'[target'[r]] = "ready" \/ (fpc'[owner'[r]] = "init" /\ fref'[owner'[r]] = r)
    BY DEF FooTypeOK, RefInv, ThrInv, ThrOK, InitInv, FoundIsReady
  <2> QED BY <2>1, <2>2 DEF FoundIsReady
<1>7. CountExact'
  <2>1. o \notin fh /\ target[r] = Null
    BY DEF RefInv
  <2>2. Refs(o) = {}
    BY <2>1 DEF Refs, RefInv
  <2>3. /\ Cardinality(Refs(o)') = Cardinality(Refs(o)) + 1
        /\ \A p \in Foo \ {o} : Refs(p)' = Refs(p)
    BY <2>1, GiveRefs
  <2>4. Cardinality(Refs(o)') = 1
    BY <2>2, <2>3, FS_EmptySet
  <2>5. fh' = fh \cup {o} /\ f_count' = [f_count EXCEPT ![o] = 1]
    OBVIOUS
  <2> QED BY ONLY FooTypeOK, CountExact, <2>3, <2>4, <2>5 DEF CountExact, FooTypeOK
<1> QED BY <1>1, <1>2, <1>3, <1>4, <1>5, <1>6, <1>7

\* foo_alloc finishes.
LEMMA FooAllocDoneInv ==
  ASSUME FooInv, NEW t \in FooThread, FooAllocDone(t)
  PROVE  FooInv'
<1> USE FooAssumption DEF FooInv
<1> USE DEF FooAllocDone, Has, Give, Drop, Enter, Leave, Count, refvars, thrvars
<1>1. FooTypeOK'
  BY DEF FooTypeOK, Control, ThrInv, ThrOK
<1>2. RefInv'
  BY DEF FooTypeOK, RefInv, ThrInv, ThrOK, FoundIsReady
<1>3. ThrInv'
  <2>1. ASSUME NEW u \in FooThread, u # t PROVE ThrOK(u)'
    BY <2>1 DEF FooTypeOK, RefInv, ThrInv, ThrOK
  <2>2. ThrOK(t)'
    BY DEF FooTypeOK, RefInv, ThrInv, ThrOK, InitInv
  <2> QED BY <2>1, <2>2 DEF ThrInv
<1>4. FreeInv'
  BY DEF FooTypeOK, ThrInv, ThrOK, FreeInv
<1>5. InitInv'
  BY DEF FooTypeOK, RefInv, ThrInv, ThrOK, InitInv, FoundIsReady
<1>6. FoundIsReady'
  BY DEF FooTypeOK, RefInv, ThrInv, ThrOK, InitInv, FoundIsReady
<1>7. CountExact'
  BY DEF CountExact, Refs, FooTypeOK
<1> QED BY <1>1, <1>2, <1>3, <1>4, <1>5, <1>6, <1>7

\* foo_hold.
LEMMA FooHoldInv ==
  ASSUME FooInv, NEW t \in FooThread, NEW u \in FooThread, NEW r \in Ref, NEW s \in Ref, FooHold(t, r, u, s)
  PROVE  FooInv'
<1> USE FooAssumption DEF FooInv
<1> USE DEF FooHold, Has, Give, Drop, Enter, Leave, Count, refvars, thrvars
<1>1. FooTypeOK'
  BY DEF FooTypeOK, Control, ThrInv, ThrOK
<1>2. RefInv'
  BY DEF FooTypeOK, RefInv, ThrInv, ThrOK, FoundIsReady
<1>3. ThrInv'
  <2>1. ASSUME NEW v \in FooThread, v # t PROVE ThrOK(v)'
    BY <2>1 DEF FooTypeOK, RefInv, ThrInv, ThrOK
  <2>2. ThrOK(t)'
    BY DEF FooTypeOK, RefInv, ThrInv, ThrOK, InitInv
  <2> QED BY <2>1, <2>2 DEF ThrInv
<1>4. FreeInv'
  BY DEF FooTypeOK, ThrInv, ThrOK, FreeInv
<1>5. InitInv'
  BY DEF FooTypeOK, RefInv, ThrInv, ThrOK, InitInv, FoundIsReady
<1>6. FoundIsReady'
  <2>1. ASSUME NEW q \in Ref, q # s, target'[q] # Null
        PROVE  mem'[target'[q]] = "ready" \/ (fpc'[owner'[q]] = "init" /\ fref'[owner'[q]] = q)
    BY <2>1 DEF FooTypeOK, RefInv, ThrInv, ThrOK, FoundIsReady
  <2>2. target'[s] # Null =>
          mem'[target'[s]] = "ready" \/ (fpc'[owner'[s]] = "init" /\ fref'[owner'[s]] = s)
    BY DEF FooTypeOK, RefInv, ThrInv, ThrOK, InitInv, FoundIsReady
  <2> QED BY <2>1, <2>2 DEF FoundIsReady
<1>7. CountExact'
  <2>1. PICK o \in fh : o = target[r]
    BY DEF FooTypeOK, RefInv, ThrInv, ThrOK
  <2>2. PICK q \in Ref : q = s
    BY DEF ThrInv, ThrOK
  <2>3. o \in Foo /\ target[q] = Null /\ Give(q, u, o) /\ fh' = fh
    BY <2>1, <2>2 DEF FooTypeOK, RefInv, ThrInv, ThrOK
  <2>4. f_count' = [f_count EXCEPT ![o] = f_count[o] + 1]
    BY <2>1
  <2>5. /\ Cardinality(Refs(o)') = Cardinality(Refs(o)) + 1
        /\ \A p \in Foo \ {o} : Refs(p)' = Refs(p)
    BY <2>3, GiveRefs
  <2> QED BY ONLY FooTypeOK, CountExact, <2>3, <2>4, <2>5 DEF CountExact, FooTypeOK
<1> QED BY <1>1, <1>2, <1>3, <1>4, <1>5, <1>6, <1>7

\* foo_find reserves a token.
LEMMA FooFindInv ==
  ASSUME FooInv, NEW t \in FooThread, NEW o \in Foo, NEW id \in FooId, NEW r \in Ref, FooFind(t, o, id, r)
  PROVE  FooInv'
<1> USE FooAssumption DEF FooInv
<1> USE DEF FooFind, Has, Give, Drop, Enter, Leave, Count, refvars, thrvars
<1>1. FooTypeOK'
  BY DEF FooTypeOK, Control, ThrInv, ThrOK
<1>2. RefInv'
  BY DEF FooTypeOK, RefInv, ThrInv, ThrOK, FoundIsReady
<1>3. ThrInv'
  <2>1. ASSUME NEW u \in FooThread, u # t PROVE ThrOK(u)'
    BY <2>1 DEF FooTypeOK, RefInv, ThrInv, ThrOK
  <2>2. ThrOK(t)'
    BY DEF FooTypeOK, RefInv, ThrInv, ThrOK, InitInv
  <2> QED BY <2>1, <2>2 DEF ThrInv
<1>4. FreeInv'
  BY DEF FooTypeOK, ThrInv, ThrOK, FreeInv
<1>5. InitInv'
  BY DEF FooTypeOK, RefInv, ThrInv, ThrOK, InitInv, FoundIsReady
<1>6. FoundIsReady'
  BY DEF FooTypeOK, RefInv, ThrInv, ThrOK, InitInv, FoundIsReady
<1>7. CountExact'
  <2>1. \A p \in Foo : Refs(p)' = Refs(p)
    BY DEF Refs, RefInv, FooTypeOK
  <2> QED BY <2>1 DEF CountExact, FooTypeOK
<1> QED BY <1>1, <1>2, <1>3, <1>4, <1>5, <1>6, <1>7

\* foo_find counts its reference.
LEMMA FindHoldInv ==
  ASSUME FooInv, NEW t \in FooThread, FindHold(t)
  PROVE  FooInv'
<1> USE FooAssumption DEF FooInv
<1> USE DEF FindHold, Has, Give, Drop, Enter, Leave, Count, refvars, thrvars
<1>1. FooTypeOK'
  BY DEF FooTypeOK, Control, ThrInv, ThrOK
<1>2. RefInv'
  BY DEF FooTypeOK, RefInv, ThrInv, ThrOK, FoundIsReady
<1>3. ThrInv'
  <2>1. ASSUME NEW u \in FooThread, u # t PROVE ThrOK(u)'
    BY <2>1 DEF FooTypeOK, RefInv, ThrInv, ThrOK
  <2>2. ThrOK(t)'
    BY DEF FooTypeOK, RefInv, ThrInv, ThrOK, InitInv
  <2> QED BY <2>1, <2>2 DEF ThrInv
<1>4. FreeInv'
  BY DEF FooTypeOK, ThrInv, ThrOK, FreeInv
<1>5. InitInv'
  BY DEF FooTypeOK, RefInv, ThrInv, ThrOK, InitInv, FoundIsReady
<1>6. FoundIsReady'
  <2>1. ASSUME NEW q \in Ref, q # fref[t], target'[q] # Null
        PROVE  mem'[target'[q]] = "ready" \/ (fpc'[owner'[q]] = "init" /\ fref'[owner'[q]] = q)
    BY <2>1 DEF FooTypeOK, RefInv, ThrInv, ThrOK, FoundIsReady
  <2>2. target'[fref[t]] # Null =>
          mem'[target'[fref[t]]] = "ready" \/ (fpc'[owner'[fref[t]]] = "init" /\ fref'[owner'[fref[t]]] = fref[t])
    BY DEF FooTypeOK, RefInv, ThrInv, ThrOK, InitInv, FoundIsReady
  <2> QED BY <2>1, <2>2 DEF FoundIsReady
<1>7. CountExact'
  <2>1. PICK o \in fh : o = fp[t]
    BY DEF FooTypeOK, RefInv, ThrInv, ThrOK
  <2>2. PICK q \in Ref : q = fref[t]
    BY DEF ThrInv, ThrOK
  <2>3. o \in Foo /\ target[q] = Null /\ Give(q, t, o) /\ fh' = fh
    BY <2>1, <2>2 DEF FooTypeOK, RefInv, ThrInv, ThrOK
  <2>4. f_count' = [f_count EXCEPT ![o] = f_count[o] + 1]
    BY <2>1
  <2>5. /\ Cardinality(Refs(o)') = Cardinality(Refs(o)) + 1
        /\ \A p \in Foo \ {o} : Refs(p)' = Refs(p)
    BY <2>3, GiveRefs
  <2> QED BY ONLY FooTypeOK, CountExact, <2>3, <2>4, <2>5 DEF CountExact, FooTypeOK
<1> QED BY <1>1, <1>2, <1>3, <1>4, <1>5, <1>6, <1>7

\* foo_rele, the first look at the count.
LEMMA FooReleInv ==
  ASSUME FooInv, NEW t \in FooThread, NEW r \in Ref, FooRele(t, r)
  PROVE  FooInv'
<1> USE FooAssumption DEF FooInv
<1> USE DEF FooRele, Has, Give, Drop, Enter, Leave, Count, refvars, thrvars
<1>1. FooTypeOK'
  <2>1. target[r] \in fh /\ r \in Ref
    BY DEF RefInv, ThrInv, ThrOK
  <2>2. f_count[target[r]] = Cardinality(Refs(target[r]))
    BY <2>1 DEF CountExact
  <2>3. f_count[target[r]] >= 1
    <3>1. Cardinality(Refs(target[r])) >= 1
      BY ONLY <2>1, OneRef
    <3> QED BY ONLY <2>2, <3>1
  <2> QED BY <2>1, <2>3 DEF FooTypeOK, Control, ThrInv, ThrOK, RefInv
<1>2. RefInv'
  BY DEF FooTypeOK, RefInv, ThrInv, ThrOK, FoundIsReady
<1>3. ThrInv'
  <2>1. ASSUME NEW u \in FooThread, u # t PROVE ThrOK(u)'
    BY <2>1 DEF FooTypeOK, RefInv, ThrInv, ThrOK
  <2>2. ThrOK(t)'
    BY DEF FooTypeOK, RefInv, ThrInv, ThrOK, InitInv
  <2> QED BY <2>1, <2>2 DEF ThrInv
<1>4. FreeInv'
  BY DEF FooTypeOK, ThrInv, ThrOK, FreeInv
<1>5. InitInv'
  BY DEF FooTypeOK, RefInv, ThrInv, ThrOK, InitInv, FoundIsReady
<1>6. FoundIsReady'
  BY DEF FooTypeOK, RefInv, ThrInv, ThrOK, InitInv, FoundIsReady
<1>7. CountExact'
  <2>1. CASE f_count[target[r]] = 1 /\ UNCHANGED <<f_count, refvars>>
    BY <2>1 DEF CountExact, Refs, FooTypeOK
  <2>2. CASE f_count[target[r]] # 1 /\ Count(target[r], f_count[target[r]] - 1) /\ Drop(r)
    <3>1. PICK o \in fh : o = target[r]
      BY DEF FooTypeOK, RefInv, ThrInv, ThrOK
    <3>2. PICK q \in Ref : q = r
      BY DEF ThrInv, ThrOK
    <3>3. o \in Foo /\ target[q] = o /\ Drop(q) /\ fh' = fh
      BY <3>1, <3>2, <2>2 DEF FooTypeOK, ThrInv, ThrOK
    <3>4. f_count' = [f_count EXCEPT ![o] = f_count[o] - 1]
      BY <3>1, <2>2
    <3>5. /\ Cardinality(Refs(o)') = Cardinality(Refs(o)) - 1
          /\ \A p \in Foo \ {o} : Refs(p)' = Refs(p)
      BY <3>3, DropRefs
    <3> QED BY ONLY FooTypeOK, CountExact, <3>3, <3>4, <3>5 DEF CountExact, FooTypeOK
  <2> QED BY <2>1, <2>2
<1> QED BY <1>1, <1>2, <1>3, <1>4, <1>5, <1>6, <1>7

\* foo_rele takes hashlock.
LEMMA ReleHashInv ==
  ASSUME FooInv, NEW t \in FooThread, ReleHash(t)
  PROVE  FooInv'
<1> USE FooAssumption DEF FooInv
<1> USE DEF ReleHash, Has, Give, Drop, Enter, Leave, Count, refvars, thrvars
<1>1. FooTypeOK'
  BY DEF FooTypeOK, Control, ThrInv, ThrOK
<1>2. RefInv'
  BY DEF FooTypeOK, RefInv, ThrInv, ThrOK, FoundIsReady
<1>3. ThrInv'
  <2>1. ASSUME NEW u \in FooThread, u # t PROVE ThrOK(u)'
    BY <2>1 DEF FooTypeOK, RefInv, ThrInv, ThrOK
  <2>2. ThrOK(t)'
    BY DEF FooTypeOK, RefInv, ThrInv, ThrOK, InitInv
  <2> QED BY <2>1, <2>2 DEF ThrInv
<1>4. FreeInv'
  BY DEF FooTypeOK, ThrInv, ThrOK, FreeInv
<1>5. InitInv'
  BY DEF FooTypeOK, RefInv, ThrInv, ThrOK, InitInv, FoundIsReady
<1>6. FoundIsReady'
  BY DEF FooTypeOK, RefInv, ThrInv, ThrOK, InitInv, FoundIsReady
<1>7. CountExact'
  BY DEF CountExact, Refs, FooTypeOK
<1> QED BY <1>1, <1>2, <1>3, <1>4, <1>5, <1>6, <1>7

\* foo_rele, the second look: the object was found in between.
LEMMA ReleStayInv ==
  ASSUME FooInv, NEW t \in FooThread, ReleRecheck(t), f_count[fp[t]] # 1
  PROVE  FooInv'
<1> USE FooAssumption DEF FooInv
<1> USE DEF ReleRecheck, Has, Give, Drop, Enter, Leave, Count, refvars, thrvars
<1>1. FooTypeOK'
  <2>1. fp[t] \in fh /\ fref[t] \in Ref /\ target[fref[t]] = fp[t]
    BY DEF RefInv, ThrInv, ThrOK
  <2>2. f_count[fp[t]] = Cardinality(Refs(fp[t]))
    BY <2>1 DEF CountExact
  <2>3. f_count[fp[t]] >= 1
    <3>1. Cardinality(Refs(fp[t])) >= 1
      BY ONLY <2>1, OneRef
    <3> QED BY ONLY <2>2, <3>1
  <2> QED BY <2>1, <2>3 DEF FooTypeOK, Control, ThrInv, ThrOK, RefInv
<1>2. RefInv'
  BY DEF FooTypeOK, RefInv, ThrInv, ThrOK, FoundIsReady
<1>3. ThrInv'
  <2>1. ASSUME NEW u \in FooThread, u # t PROVE ThrOK(u)'
    BY <2>1 DEF FooTypeOK, RefInv, ThrInv, ThrOK
  <2>2. ThrOK(t)'
    BY DEF FooTypeOK, RefInv, ThrInv, ThrOK, InitInv
  <2> QED BY <2>1, <2>2 DEF ThrInv
<1>4. FreeInv'
  BY DEF FooTypeOK, ThrInv, ThrOK, FreeInv
<1>5. InitInv'
  BY DEF FooTypeOK, RefInv, ThrInv, ThrOK, InitInv, FoundIsReady
<1>6. FoundIsReady'
  BY DEF FooTypeOK, RefInv, ThrInv, ThrOK, InitInv, FoundIsReady
<1>7. CountExact'
  <2>1. PICK o \in fh : o = fp[t]
    BY DEF FooTypeOK, RefInv, ThrInv, ThrOK
  <2>2. PICK q \in Ref : q = fref[t]
    BY DEF ThrInv, ThrOK
  <2>3. o \in Foo /\ target[q] = o /\ Drop(q) /\ fh' = fh
    BY <2>1, <2>2 DEF FooTypeOK, ThrInv, ThrOK
  <2>4. f_count' = [f_count EXCEPT ![o] = f_count[o] - 1]
    BY <2>1
  <2>5. /\ Cardinality(Refs(o)') = Cardinality(Refs(o)) - 1
        /\ \A p \in Foo \ {o} : Refs(p)' = Refs(p)
    BY <2>3, DropRefs
  <2> QED BY ONLY FooTypeOK, CountExact, <2>3, <2>4, <2>5 DEF CountExact, FooTypeOK
<1> QED BY <1>1, <1>2, <1>3, <1>4, <1>5, <1>6, <1>7

\* foo_rele, the second look: the reference is the last, so none is left to
\* the object it unlinks.
LEMMA ReleLastInv ==
  ASSUME FooInv, NEW t \in FooThread, ReleRecheck(t), f_count[fp[t]] = 1
  PROVE  FooInv'
<1> USE FooAssumption DEF FooInv
<1> USE DEF ReleRecheck, Has, Give, Drop, Enter, Leave, Count, refvars, thrvars
<1>a. fp[t] \in fh /\ fref[t] \in Ref /\ target[fref[t]] = fp[t]
  BY DEF ThrInv, ThrOK
<1>b. Cardinality(Refs(fp[t])) = 1
  BY <1>a DEF CountExact
<1>c. Refs(fp[t]) = {fref[t]}
  BY <1>a, <1>b, OneRef
<1>d. \A q \in Ref : q # fref[t] => target[q] # fp[t]
  BY <1>c DEF Refs
<1>1. FooTypeOK'
  BY DEF FooTypeOK, Control, ThrInv, ThrOK
<1>2. RefInv'
  BY <1>d DEF FooTypeOK, RefInv, ThrInv, ThrOK
<1>3. ThrInv'
  <2>1. ASSUME NEW u \in FooThread, u # t PROVE ThrOK(u)'
    BY <2>1, <1>d DEF FooTypeOK, RefInv, ThrInv, ThrOK
  <2>2. ThrOK(t)'
    BY DEF FooTypeOK, RefInv, ThrInv, ThrOK, InitInv
  <2> QED BY <2>1, <2>2 DEF ThrInv
<1>4. FreeInv'
  BY DEF FooTypeOK, ThrInv, ThrOK, FreeInv
<1>5. InitInv'
  BY DEF FooTypeOK, RefInv, ThrInv, ThrOK, InitInv, FoundIsReady
<1>6. FoundIsReady'
  BY DEF FooTypeOK, RefInv, ThrInv, ThrOK, InitInv, FoundIsReady
<1>7. CountExact'
  <2>1. PICK o \in fh : o = fp[t]
    BY DEF FooTypeOK, RefInv, ThrInv, ThrOK
  <2>2. PICK q \in Ref : q = fref[t]
    BY DEF ThrInv, ThrOK
  <2>3. o \in Foo /\ target[q] = o /\ Drop(q) /\ fh' = fh \ {o} /\ f_count' = f_count
    BY <2>1, <2>2 DEF FooTypeOK, ThrInv, ThrOK
  <2>4. \A p \in Foo \ {o} : Refs(p)' = Refs(p)
    BY <2>3, DropRefs
  <2> QED BY ONLY FooTypeOK, CountExact, <2>3, <2>4 DEF CountExact, FooTypeOK
<1> QED BY <1>1, <1>2, <1>3, <1>4, <1>5, <1>6, <1>7

\* The unlinked object is freed.
LEMMA FooFreeInv ==
  ASSUME FooInv, NEW t \in FooThread, FooFree(t)
  PROVE  FooInv'
<1> USE FooAssumption DEF FooInv
<1> USE DEF FooFree, Has, Give, Drop, Enter, Leave, Count, refvars, thrvars
<1>1. FooTypeOK'
  BY DEF FooTypeOK, Control, ThrInv, ThrOK
<1>2. RefInv'
  BY DEF FooTypeOK, RefInv, ThrInv, ThrOK, FoundIsReady
<1>3. ThrInv'
  <2>1. ASSUME NEW u \in FooThread, u # t PROVE ThrOK(u)'
    BY <2>1 DEF FooTypeOK, RefInv, ThrInv, ThrOK, FreeInv
  <2>2. ThrOK(t)'
    BY DEF FooTypeOK, RefInv, ThrInv, ThrOK, InitInv
  <2> QED BY <2>1, <2>2 DEF ThrInv
<1>4. FreeInv'
  BY DEF FooTypeOK, ThrInv, ThrOK, FreeInv
<1>5. InitInv'
  BY DEF FooTypeOK, RefInv, ThrInv, ThrOK, InitInv, FoundIsReady
<1>6. FoundIsReady'
  BY DEF FooTypeOK, RefInv, ThrInv, ThrOK, InitInv, FoundIsReady
<1>7. CountExact'
  BY DEF CountExact, Refs, FooTypeOK
<1> QED BY <1>1, <1>2, <1>3, <1>4, <1>5, <1>6, <1>7

\* A caller locks the object it has a reference to.
LEMMA FooUseInv ==
  ASSUME FooInv, NEW t \in FooThread, NEW r \in Ref, FooUse(t, r)
  PROVE  FooInv'
<1> USE FooAssumption DEF FooInv
<1> USE DEF FooUse, Has, Give, Drop, Enter, Leave, Count, refvars, thrvars
<1>1. FooTypeOK'
  BY DEF FooTypeOK, Control, ThrInv, ThrOK
<1>2. RefInv'
  BY DEF FooTypeOK, RefInv, ThrInv, ThrOK, FoundIsReady
<1>3. ThrInv'
  <2>1. ASSUME NEW u \in FooThread, u # t PROVE ThrOK(u)'
    BY <2>1 DEF FooTypeOK, RefInv, ThrInv, ThrOK
  <2>2. ThrOK(t)'
    BY DEF FooTypeOK, RefInv, ThrInv, ThrOK, InitInv
  <2> QED BY <2>1, <2>2 DEF ThrInv
<1>4. FreeInv'
  BY DEF FooTypeOK, ThrInv, ThrOK, FreeInv
<1>5. InitInv'
  BY DEF FooTypeOK, RefInv, ThrInv, ThrOK, InitInv, FoundIsReady
<1>6. FoundIsReady'
  BY DEF FooTypeOK, RefInv, ThrInv, ThrOK, InitInv, FoundIsReady
<1>7. CountExact'
  BY DEF CountExact, Refs, FooTypeOK
<1> QED BY <1>1, <1>2, <1>3, <1>4, <1>5, <1>6, <1>7

\* And unlocks it.
LEMMA FooUsedInv ==
  ASSUME FooInv, NEW t \in FooThread, FooUsed(t)
  PROVE  FooInv'
<1> USE FooAssumption DEF FooInv
<1> USE DEF FooUsed, Has, Give, Drop, Enter, Leave, Count, refvars, thrvars
<1>1. FooTypeOK'
  BY DEF FooTypeOK, Control, ThrInv, ThrOK
<1>2. RefInv'
  BY DEF FooTypeOK, RefInv, ThrInv, ThrOK, FoundIsReady
<1>3. ThrInv'
  <2>1. ASSUME NEW u \in FooThread, u # t PROVE ThrOK(u)'
    BY <2>1 DEF FooTypeOK, RefInv, ThrInv, ThrOK
  <2>2. ThrOK(t)'
    BY DEF FooTypeOK, RefInv, ThrInv, ThrOK, InitInv
  <2> QED BY <2>1, <2>2 DEF ThrInv
<1>4. FreeInv'
  BY DEF FooTypeOK, ThrInv, ThrOK, FreeInv
<1>5. InitInv'
  BY DEF FooTypeOK, RefInv, ThrInv, ThrOK, InitInv, FoundIsReady
<1>6. FoundIsReady'
  BY DEF FooTypeOK, RefInv, ThrInv, ThrOK, InitInv, FoundIsReady
<1>7. CountExact'
  BY DEF CountExact, Refs, FooTypeOK
<1> QED BY <1>1, <1>2, <1>3, <1>4, <1>5, <1>6, <1>7

-----------------------------------------------------------------------------
(***************************************************************************)
(* The invariant holds for every number of threads, objects and references *)
(* (foo_alloc, foo_hold, foo_find, foo_rele in any interleaving).          *)
(***************************************************************************)
THEOREM FooInvariant == FooSpec => []FooInv
<1>1. FooInv /\ [FooNext]_foovars => FooInv'
  <2> SUFFICES ASSUME FooInv, [FooNext]_foovars PROVE FooInv'
    OBVIOUS
  <2>1. CASE UNCHANGED foovars
    BY <2>1 DEF foovars, FooInv, FooTypeOK, RefInv, ThrInv, ThrOK, FreeInv, InitInv,
       CountExact, Refs, FoundIsReady
  <2>2. ASSUME NEW t \in FooThread, ReleRecheck(t) PROVE FooInv'
    BY <2>2, ReleStayInv, ReleLastInv
  <2>3. CASE FooNext
    BY <2>2, <2>3, FooAllocInv, FooAllocDoneInv, FooHoldInv, FooFindInv, FindHoldInv,
       FooReleInv, ReleHashInv, FooFreeInv, FooUseInv, FooUsedInv DEF FooNext, FooStep
  <2> QED BY <2>1, <2>3
<1> QED BY FooInitInv, <1>1, PTL DEF FooSpec

(***************************************************************************)
(* No object is freed or unlinked while a thread has a reference to it or  *)
(* has found it and waits for its f_lock (foo_rele against foo_find).      *)
(***************************************************************************)
THEOREM FooSafe == FooSpec => []NoUseAfterFree
<1>1. FooInv => NoUseAfterFree
  BY DEF FooInv, RefInv, ThrInv, ThrOK, NoUseAfterFree
<1> QED BY FooInvariant, <1>1, PTL

(***************************************************************************)
(* The count of a linked object is the number of references to it, and     *)
(* foo_find returns no object that foo_alloc has not finished.             *)
(***************************************************************************)
THEOREM FooCounts == FooSpec => [](CountExact /\ FoundIsReady)
<1>1. FooInv => CountExact /\ FoundIsReady
  BY DEF FooInv
<1> QED BY FooInvariant, <1>1, PTL

(***************************************************************************)
(* No thread gets an object from foo_find before foo_alloc has finished    *)
(* it, although foo_alloc links the object and lets go of hashlock first:  *)
(* it has taken f_lock by then, and foo_find waits for that in foo_hold.   *)
(***************************************************************************)
THEOREM FooFoundReady == FooSpec => []FoundIsReady
<1>1. FooInv => FoundIsReady
  BY DEF FooInv
<1> QED BY FooInvariant, <1>1, PTL
-----------------------------------------------------------------------------
\* Who has an f_lock is in foo_alloc or uses the object: it asks for no lock.
LockInv ==
  \A o \in Foo : f_lock[o] # Null => fpc[f_lock[o]] \in {"init", "use"} /\ fp[f_lock[o]] = o

\* Taking f_lock of an object nobody has locked (foo_alloc, or a caller).
LEMMA LockTaken ==
  ASSUME FooTypeOK, LockInv, NEW t \in FooThread, NEW o \in Foo, NEW r, NEW l \in {"init", "use"},
         fpc[t] = "idle", f_lock' = [f_lock EXCEPT ![o] = t], Enter(t, l, o, r)
  PROVE  LockInv'
  BY FooAssumption DEF FooTypeOK, LockInv, Enter

\* Letting go of it.
LEMMA LockDropped ==
  ASSUME FooTypeOK, LockInv, NEW t \in FooThread, fp[t] \in Foo, f_lock[fp[t]] = t,
         f_lock' = [f_lock EXCEPT ![fp[t]] = Null], Leave(t)
  PROVE  LockInv'
  BY FooAssumption DEF FooTypeOK, LockInv, Enter, Leave

\* A step of a thread that has no f_lock and takes none.
LEMMA LockKept ==
  ASSUME FooTypeOK, LockInv, NEW t \in FooThread, fpc[t] \notin {"init", "use"}, f_lock' = f_lock,
         NEW l, NEW o, NEW r, Enter(t, l, o, r) \/ UNCHANGED thrvars
  PROVE  LockInv'
  BY FooAssumption DEF FooTypeOK, LockInv, Enter, thrvars

LEMMA LockStep ==
  ASSUME FooInv, LockInv, [FooNext]_foovars
  PROVE  LockInv'
<1> USE FooAssumption DEF FooInv
<1>1. CASE UNCHANGED foovars
  BY <1>1 DEF foovars, LockInv
<1>2. ASSUME NEW t \in FooThread, FooStep(t) PROVE LockInv'
  <2>1. ASSUME NEW r \in Ref, NEW o \in Foo, NEW id \in FooId, FooAlloc(t, o, id, r) PROVE LockInv'
    BY <2>1, LockTaken DEF FooAlloc
  <2>2. ASSUME NEW r \in Ref, NEW o \in Foo, NEW id \in FooId, FooFind(t, o, id, r) PROVE LockInv'
    BY <2>2, LockKept DEF FooFind
  <2>3. ASSUME NEW r \in Ref, NEW u \in FooThread, NEW v \in Ref, FooHold(t, r, u, v) PROVE LockInv'
    BY <2>3, LockKept DEF FooHold
  <2>4. ASSUME NEW r \in Ref, FooRele(t, r) PROVE LockInv'
    BY <2>4, LockKept DEF FooRele
  <2>5. ASSUME NEW r \in Ref, FooUse(t, r) PROVE LockInv'
    <3>1. target[r] \in Foo
      BY <2>5 DEF FooUse, Has, FooTypeOK
    <3> QED BY <2>5, <3>1, LockTaken DEF FooUse
  <2>6. CASE FooAllocDone(t)
    <3>1. fp[t] \in Foo /\ f_lock[fp[t]] = t
      BY <2>6 DEF FooAllocDone, ThrInv, ThrOK, FooTypeOK
    <3> QED BY <2>6, <3>1, LockDropped DEF FooAllocDone
  <2>7. CASE FooUsed(t)
    <3>1. fp[t] \in Foo /\ f_lock[fp[t]] = t
      BY <2>7 DEF FooUsed, ThrInv, ThrOK, FooTypeOK
    <3> QED BY <2>7, <3>1, LockDropped DEF FooUsed
  <2>8. CASE FindHold(t)
    BY <2>8, LockKept DEF FindHold, Leave
  <2>9. CASE ReleHash(t)
    BY <2>9, LockKept DEF ReleHash
  <2>10. CASE ReleRecheck(t)
    BY <2>10, LockKept DEF ReleRecheck, Leave
  <2>11. CASE FooFree(t)
    BY <2>11, LockKept DEF FooFree, Leave
  <2> QED BY <1>2, <2>1, <2>2, <2>3, <2>4, <2>5, <2>6, <2>7, <2>8, <2>9, <2>10, <2>11 DEF FooStep
<1> QED BY <1>1, <1>2 DEF FooNext

(***************************************************************************)
(* hashlock and the f_locks are taken in one order by foo_alloc, foo_find  *)
(* and foo_rele: no threads wait for each other.                           *)
(***************************************************************************)
THEOREM FooNoDeadlock == FooSpec => []NoLockCycle
<1>1. FooInit => LockInv
  BY DEF FooInit, LockInv
<1>2. FooInv /\ LockInv => NoLockCycle
  BY DEF FooInv, FooTypeOK, RefInv, ThrInv, ThrOK, LockInv, NoLockCycle
<1>3. FooInv /\ LockInv /\ [FooNext]_foovars => LockInv'
  BY LockStep
<1> QED BY FooInvariant, <1>1, <1>2, <1>3, PTL DEF FooSpec

(***************************************************************************)
(* threads/rwlock.c: the list is well formed, and a job that was found     *)
(* stays on it.                                                            *)
(***************************************************************************)
\* Every pointer is null or that of a job.
JobTypeOK ==
  /\ q_head \in Job \cup {NoJob} /\ q_tail \in Job \cup {NoJob}
  /\ j_next \in [Job -> Job \cup {NoJob}]
  /\ j_prev \in [Job -> Job \cup {NoJob}]
  /\ j_id \in [Job -> Worker \cup {NoJob}]
  /\ found \in [Worker -> Job \cup {NoJob}]
  /\ queued \subseteq Job

\* The queued jobs in the order s[1], ..., s[n], each once.
Listed(s, n) ==
  /\ \A a, b \in 1..n : s[a] = s[b] => a = b
  /\ \A j \in Job : j \in queued <=> \E a \in 1..n : s[a] = j

\* The pointers link them in this order, both ways.
Linked(s, n) ==
  /\ q_head = IF n = 0 THEN NoJob ELSE s[1]
  /\ q_tail = IF n = 0 THEN NoJob ELSE s[n]
  /\ \A a \in 1..n : j_next[s[a]] = IF a = n THEN NoJob ELSE s[a + 1]
  /\ \A a \in 1..n : j_prev[s[a]] = IF a = 1 THEN NoJob ELSE s[a - 1]

QueueShape ==
  \E n \in 0..Cardinality(Job) : \E s \in [1..n -> Job] : Listed(s, n) /\ Linked(s, n)

\* Only worker w looks for the jobs of worker w.
FoundInv ==
  \A w \in Worker :
    found[w] # NoJob => found[w] \in queued /\ j_id[found[w]] = w

JobInv == JobTypeOK /\ QueueShape /\ FoundInv
-----------------------------------------------------------------------------
\* A set of natural numbers has a least one.
LEMMA LeastNatural ==
  ASSUME NEW T, T \subseteq Nat, T # {}
  PROVE  \E x \in T : \A y \in T : x <= y
<1> DEFINE R == {ss \in Nat \X Nat : ss[1] < ss[2]}
<1>1. IsWellFoundedOn(R, Nat)
  BY NatLessThanWellFounded DEF OpToRel
<1>2. ASSUME NEW x \in Nat, NEW y \in Nat, <<y, x>> \notin R PROVE x <= y
  BY <1>2, SMT
<1> HIDE DEF R
<1>3. PICK x \in T : \A y \in T : ~ (<<y, x>> \in R)
  BY <1>1, WFMin
<1> QED BY <1>2, <1>3

\* Induction over the natural numbers, for a set in place of a predicate.
LEMMA SetInduction ==
  ASSUME NEW S, 0 \in S, \A n \in Nat : n \in S => n + 1 \in S
  PROVE  Nat \subseteq S
<1> DEFINE T == Nat \ S
<1>1. CASE T # {}
  <2>1. PICK x \in T : \A y \in T : x <= y
    BY <1>1, LeastNatural
  <2>2. x - 1 \in Nat /\ x - 1 \in S
    BY <2>1
  <2> QED BY <2>1, <2>2
<1> QED BY <1>1

\* Jobs in a row, each once, are as many as the set of them, and not more than there are.
LEMMA RowSize ==
  ASSUME NEW n \in Nat, NEW s \in [1..n -> Job], queued \subseteq Job, Listed(s, n)
  PROVE  Cardinality(queued) = n /\ n <= Cardinality(Job)
<1>1. s \in Bijection(1..n, queued)
  <2>1. s \in [1..n -> queued]
    BY DEF Listed
  <2>2. s \in Injection(1..n, queued)
    BY <2>1 DEF Injection, IsInjective, Listed
  <2>3. s \in Surjection(1..n, queued)
    BY <2>1 DEF Surjection, Listed
  <2> QED BY <2>2, <2>3 DEF Bijection
<1>2. Cardinality(queued) = n
  BY <1>1, FS_CountingElements DEF ExistsBijection
<1>3. Cardinality(queued) <= Cardinality(Job)
  BY FS_Subset, JobAssumption
<1> QED BY <1>2, <1>3

LEMMA JobCount == Cardinality(Job) \in Nat
  BY FS_CardinalityType, JobAssumption

\* The walk of job_find along j_next meets the jobs in that order, then stays at NoJob.
LEMMA FromHead ==
  ASSUME NEW n \in 0..Cardinality(Job), NEW s \in [1..n -> Job], Linked(s, n)
  PROVE  From(q_head) = [k \in 0..Cardinality(Job) |-> IF k < n THEN s[k + 1] ELSE NoJob]
<1> DEFINE N == Cardinality(Job)
           P(q) == /\ q[0] = q_head
                   /\ \A k \in 1..N : q[k] = IF q[k - 1] = NoJob THEN NoJob ELSE j_next[q[k - 1]]
<1>0. N \in Nat /\ n \in Nat
  BY JobCount
<1>q. PICK Q : Q = [k \in 0..N |-> IF k < n THEN s[k + 1] ELSE NoJob]
  OBVIOUS
<1>1. Q \in [0..N -> Job \cup {NoJob}]
  BY <1>0, <1>q
<1>2. P(Q)
  <2>1. Q[0] = q_head
    BY <1>0, <1>q DEF Linked
  <2>2. ASSUME NEW k \in 1..N
        PROVE  Q[k] = IF Q[k - 1] = NoJob THEN NoJob ELSE j_next[Q[k - 1]]
    <3>1. CASE k < n
      <4>1. k \in 1..n /\ Q[k - 1] = s[k] /\ Q[k] = s[k + 1] /\ s[k] \in Job
        BY <1>0, <1>q, <3>1
      <4>2. j_next[s[k]] = s[k + 1]
        BY <1>0, <3>1, <4>1 DEF Linked
      <4> QED BY <4>1, <4>2, JobAssumption
    <3>2. CASE k = n
      <4>1. k \in 1..n /\ Q[k - 1] = s[k] /\ Q[k] = NoJob /\ s[k] \in Job
        BY <1>0, <1>q, <3>2
      <4>2. j_next[s[k]] = NoJob
        BY <1>0, <3>2, <4>1 DEF Linked
      <4> QED BY <4>1, <4>2, JobAssumption
    <3>3. CASE k > n
      BY <1>0, <1>q, <3>3
    <3> QED BY <1>0, <3>1, <3>2, <3>3
  <2> QED BY <2>1, <2>2
<1>3. ASSUME NEW q \in [0..N -> Job \cup {NoJob}], P(q)
      PROVE  q = Q
  <2> DEFINE S == {k \in Nat : k <= N => q[k] = Q[k]}
  <2>1. 0 \in S
    BY <1>0, <1>2, <1>3
  <2>2. ASSUME NEW k \in Nat, k \in S PROVE k + 1 \in S
    <3>1. CASE k + 1 <= N
      <4>1. k + 1 \in 1..N /\ (k + 1) - 1 = k /\ q[k] = Q[k]
        BY <1>0, <2>2, <3>1
      <4>2. q[k + 1] = IF q[k] = NoJob THEN NoJob ELSE j_next[q[k]]
        BY <1>3, <4>1
      <4>3. Q[k + 1] = IF Q[k] = NoJob THEN NoJob ELSE j_next[Q[k]]
        BY <1>2, <4>1
      <4> QED BY <4>1, <4>2, <4>3
    <3> QED BY <3>1
  <2> HIDE DEF S
  <2>3. Nat \subseteq S
    BY <2>1, <2>2, SetInduction
  <2>4. ASSUME NEW k \in 0..N PROVE q[k] = Q[k]
    <3>1. k \in Nat /\ k <= N
      BY <1>0
    <3>2. k \in S
      BY <2>3, <3>1
    <3> QED BY <3>1, <3>2 DEF S
  <2>5. \A k \in 0..N : q[k] = Q[k]
    BY <2>4
  <2>6. q = [k \in 0..N |-> q[k]] /\ Q = [k \in 0..N |-> Q[k]]
    BY <1>1
  <2> QED BY <2>5, <2>6, Zenon
<1>4. From(q_head) = CHOOSE q \in [0..N -> Job \cup {NoJob}] : P(q)
  BY DEF From
<1> HIDE DEF P
<1>5. From(q_head) = Q
  BY <1>1, <1>2, <1>3, <1>4
<1> QED BY <1>5, <1>q
-----------------------------------------------------------------------------
LEMMA JobInitial == JobInit => JobInv
<1> SUFFICES ASSUME JobInit PROVE JobInv
  OBVIOUS
<1>1. JobTypeOK /\ FoundInv
  BY DEF JobInit, JobTypeOK, FoundInv
<1>2. 0 \in 0..Cardinality(Job)
  BY JobCount
<1>3. \E s : s \in [1..0 -> Job]
  <2>1. [a \in 1..0 |-> NoJob] \in [1..0 -> Job]
    OBVIOUS
  <2> QED BY <2>1
<1>4. PICK s : s \in [1..0 -> Job]
  BY <1>3
<1>5. Listed(s, 0) /\ Linked(s, 0)
  BY DEF JobInit, Listed, Linked
<1> QED BY <1>1, <1>2, <1>4, <1>5 DEF JobInv, QueueShape

\* A longer or shorter row that the new pointers link is the shape of the next state.
LEMMA ShapeNext ==
  ASSUME NEW n \in Nat, NEW s \in [1..n -> Job], queued' \subseteq Job,
         Listed(s, n)', Linked(s, n)'
  PROVE  QueueShape'
<1>1. n <= Cardinality(Job)
  <2>1. s \in Injection(1..n, Job)
    BY DEF Injection, IsInjective, Listed
  <2>2. Cardinality(1..n) <= Cardinality(Job)
    BY <2>1, FS_Injection, JobAssumption
  <2>3. Cardinality(1..n) = n
    BY FS_Interval
  <2> QED BY <2>2, <2>3
<1>2. n \in 0..Cardinality(Job)
  BY <1>1, JobCount
<1> QED BY <1>2 DEF QueueShape

LEMMA InsertStep ==
  ASSUME JobInv, NEW j \in Job, NEW w \in Worker, JobInsert(j, w)
  PROVE  JobInv'
<1> USE JobAssumption
<1>1. JobTypeOK'
  BY DEF JobInv, JobTypeOK, JobInsert, Insert, Set
<1>2. FoundInv'
  BY DEF JobInv, JobTypeOK, JobInsert, Insert, FoundInv
<1>n. PICK n \in 0..Cardinality(Job) : \E s \in [1..n -> Job] : Listed(s, n) /\ Linked(s, n)
  BY DEF JobInv, QueueShape
<1>3. PICK s \in [1..n -> Job] : Listed(s, n) /\ Linked(s, n)
  BY <1>n
<1>4. n \in Nat /\ n + 1 \in Nat
  BY JobCount
<1>5. PICK t : t = [a \in 1..(n + 1) |-> IF a = 1 THEN j ELSE s[a - 1]]
  OBVIOUS
<1>6. /\ t \in [1..(n + 1) -> Job] /\ t[1] = j
      /\ \A a \in 2..(n + 1) : a - 1 \in 1..n /\ t[a] = s[a - 1]
      /\ \A a \in 1..n : a + 1 \in 2..(n + 1) /\ t[a + 1] = s[a]
  BY <1>4, <1>5
<1>7. \A a \in 1..n : s[a] \in Job /\ s[a] # j
  BY <1>3 DEF Listed, JobInsert, Insert
<1>8. Listed(t, n + 1)'
  <2>1. \A a, b \in 1..(n + 1) : t[a] = t[b] => a = b
    BY <1>3, <1>4, <1>6, <1>7 DEF Listed
  <2>2. \A k \in Job : k \in queued' <=> k = j \/ \E a \in 1..n : s[a] = k
    BY <1>3 DEF Listed, JobInsert, Insert
  <2>3. \A k \in Job : (k = j \/ \E a \in 1..n : s[a] = k) <=> \E a \in 1..(n + 1) : t[a] = k
    BY <1>4, <1>6
  <2> QED BY <2>1, <2>2, <2>3 DEF Listed
<1>9. Linked(t, n + 1)'
  <2>1. q_head = IF n = 0 THEN NoJob ELSE s[1]
    BY <1>3 DEF Linked
  <2>2. q_head' = t[1]
    BY <1>6 DEF JobInsert
  <2>3. q_tail' = t[n + 1]
    <3>1. CASE n = 0
      BY <1>6, <2>1, <3>1 DEF JobInsert
    <3>2. CASE n # 0
      <4>1. q_head \in Job /\ q_tail' = q_tail
        BY <1>4, <1>7, <2>1, <3>2 DEF JobInsert
      <4>2. q_tail = s[n] /\ n \in 1..n
        BY <1>3, <1>4, <3>2 DEF Linked
      <4> QED BY <1>6, <4>1, <4>2
    <3> QED BY <3>1, <3>2
  <2>4. ASSUME NEW a \in 1..(n + 1)
        PROVE  j_next'[t[a]] = IF a = n + 1 THEN NoJob ELSE t[a + 1]
    <3>1. CASE a = 1
      <4>1. j_next'[j] = q_head
        BY DEF JobInsert, Set
      <4> QED BY <1>4, <1>6, <2>1, <3>1, <4>1
    <3>2. CASE a # 1
      <4>1. a - 1 \in 1..n /\ t[a] = s[a - 1]
        BY <1>4, <1>6, <3>2
      <4>2. j_next'[t[a]] = j_next[s[a - 1]]
        BY <1>7, <4>1 DEF JobInsert, Set
      <4>3. j_next[s[a - 1]] = IF a - 1 = n THEN NoJob ELSE s[(a - 1) + 1]
        BY <1>3, <4>1 DEF Linked
      <4> QED BY <1>4, <1>6, <4>1, <4>2, <4>3
    <3> QED BY <3>1, <3>2
  <2>5. ASSUME NEW a \in 1..(n + 1)
        PROVE  j_prev'[t[a]] = IF a = 1 THEN NoJob ELSE t[a - 1]
    <3>1. CASE a = 1
      <4>1. q_head # j
        BY <1>4, <1>7, <2>1
      <4> QED BY <1>6, <3>1, <4>1 DEF JobInsert, Set
    <3>2. CASE a = 2
      <4>1. 1 \in 1..n /\ n # 0 /\ t[2] = s[1] /\ s[1] \in Job
        BY <1>4, <1>6, <3>2
      <4>2. j_prev'[s[1]] = j
        BY <2>1, <4>1 DEF JobInsert, Set
      <4> QED BY <1>6, <3>2, <4>1, <4>2
    <3>3. CASE a > 2
      <4>1. /\ a - 1 \in 1..n /\ a - 1 # 1 /\ n # 0 /\ 1 \in 1..n
            /\ t[a] = s[a - 1] /\ t[a - 1] = s[(a - 1) - 1]
        BY <1>4, <1>6, <3>3
      <4>2. s[a - 1] # q_head
        BY <1>3, <2>1, <4>1 DEF Listed
      <4>3. j_prev'[s[a - 1]] = j_prev[s[a - 1]]
        BY <1>7, <4>1, <4>2 DEF JobInsert, Set
      <4>4. j_prev[s[a - 1]] = s[(a - 1) - 1]
        BY <1>3, <4>1 DEF Linked
      <4> QED BY <3>3, <4>1, <4>3, <4>4
    <3> QED BY <1>4, <3>1, <3>2, <3>3
  <2> QED BY <1>4, <2>2, <2>3, <2>4, <2>5 DEF Linked
<1>10. QueueShape'
  BY <1>1, <1>4, <1>6, <1>8, <1>9, ShapeNext DEF JobTypeOK
<1> QED BY <1>1, <1>2, <1>10 DEF JobInv

LEMMA AppendStep ==
  ASSUME JobInv, NEW j \in Job, NEW w \in Worker, JobAppend(j, w)
  PROVE  JobInv'
<1> USE JobAssumption
<1>1. JobTypeOK'
  BY DEF JobInv, JobTypeOK, JobAppend, Insert, Set
<1>2. FoundInv'
  BY DEF JobInv, JobTypeOK, JobAppend, Insert, FoundInv
<1>n. PICK n \in 0..Cardinality(Job) : \E s \in [1..n -> Job] : Listed(s, n) /\ Linked(s, n)
  BY DEF JobInv, QueueShape
<1>3. PICK s \in [1..n -> Job] : Listed(s, n) /\ Linked(s, n)
  BY <1>n
<1>4. n \in Nat /\ n + 1 \in Nat
  BY JobCount
<1>5. PICK t : t = [a \in 1..(n + 1) |-> IF a = n + 1 THEN j ELSE s[a]]
  OBVIOUS
<1>6. /\ t \in [1..(n + 1) -> Job] /\ t[n + 1] = j
      /\ \A a \in 1..n : a \in 1..(n + 1) /\ t[a] = s[a]
  BY <1>4, <1>5
<1>7. \A a \in 1..n : s[a] \in Job /\ s[a] # j
  BY <1>3 DEF Listed, JobAppend, Insert
<1>8. Listed(t, n + 1)'
  <2>1. \A a, b \in 1..(n + 1) : t[a] = t[b] => a = b
    BY <1>3, <1>4, <1>6, <1>7 DEF Listed
  <2>2. \A k \in Job : k \in queued' <=> k = j \/ \E a \in 1..n : s[a] = k
    BY <1>3 DEF Listed, JobAppend, Insert
  <2>3. \A k \in Job : (k = j \/ \E a \in 1..n : s[a] = k) <=> \E a \in 1..(n + 1) : t[a] = k
    BY <1>4, <1>6
  <2> QED BY <2>1, <2>2, <2>3 DEF Listed
<1>9. Linked(t, n + 1)'
  <2>1. q_tail = IF n = 0 THEN NoJob ELSE s[n]
    BY <1>3 DEF Linked
  <2>2. q_tail' = t[n + 1]
    BY <1>6 DEF JobAppend
  <2>3. q_head' = t[1]
    <3>1. CASE n = 0
      BY <1>6, <2>1, <3>1 DEF JobAppend
    <3>2. CASE n # 0
      <4>1. q_tail \in Job /\ q_head' = q_head
        BY <1>4, <1>7, <2>1, <3>2 DEF JobAppend
      <4>2. q_head = s[1] /\ 1 \in 1..n
        BY <1>3, <1>4, <3>2 DEF Linked
      <4> QED BY <1>6, <4>1, <4>2
    <3> QED BY <3>1, <3>2
  <2>4. ASSUME NEW a \in 1..(n + 1)
        PROVE  j_next'[t[a]] = IF a = n + 1 THEN NoJob ELSE t[a + 1]
    <3>1. CASE a = n + 1
      <4>1. q_tail # j
        BY <1>4, <1>7, <2>1
      <4> QED BY <1>6, <3>1, <4>1 DEF JobAppend, Set
    <3>2. CASE a = n
      <4>1. a \in 1..n /\ n # 0 /\ t[a] = s[a] /\ s[a] \in Job /\ q_tail = s[a] /\ a # n + 1
        BY <1>4, <1>6, <2>1, <3>2
      <4>2. j_next'[s[a]] = j
        BY <4>1 DEF JobAppend, Set
      <4> QED BY <1>6, <3>2, <4>1, <4>2
    <3>3. CASE a < n
      <4>1. /\ a \in 1..n /\ n \in 1..n /\ a # n /\ n # 0 /\ a # n + 1
            /\ t[a] = s[a] /\ t[a + 1] = s[a + 1]
        BY <1>4, <1>6, <3>3
      <4>2. s[a] # q_tail
        BY <1>3, <2>1, <4>1 DEF Listed
      <4>3. j_next'[s[a]] = j_next[s[a]]
        BY <1>7, <4>1, <4>2 DEF JobAppend, Set
      <4>4. j_next[s[a]] = s[a + 1]
        BY <1>3, <4>1 DEF Linked
      <4> QED BY <4>1, <4>3, <4>4
    <3> QED BY <1>4, <3>1, <3>2, <3>3
  <2>5. ASSUME NEW a \in 1..(n + 1)
        PROVE  j_prev'[t[a]] = IF a = 1 THEN NoJob ELSE t[a - 1]
    <3>1. CASE a = n + 1
      <4>1. j_prev'[j] = q_tail
        BY DEF JobAppend, Set
      <4> QED BY <1>4, <1>6, <2>1, <3>1, <4>1
    <3>2. CASE a # n + 1
      <4>1. a \in 1..n /\ t[a] = s[a]
        BY <1>4, <1>6, <3>2
      <4>2. j_prev'[t[a]] = j_prev[s[a]]
        BY <1>7, <4>1 DEF JobAppend, Set
      <4>3. j_prev[s[a]] = IF a = 1 THEN NoJob ELSE s[a - 1]
        BY <1>3, <4>1 DEF Linked
      <4> QED BY <1>4, <1>6, <4>1, <4>2, <4>3
    <3> QED BY <3>1, <3>2
  <2> QED BY <1>4, <2>2, <2>3, <2>4, <2>5 DEF Linked
<1>10. QueueShape'
  BY <1>1, <1>4, <1>6, <1>8, <1>9, ShapeNext DEF JobTypeOK
<1> QED BY <1>1, <1>2, <1>10 DEF JobInv

\* The job that is found is on the list, and it is its worker's.
LEMMA FindStep ==
  ASSUME JobInv, NEW w \in Worker, JobFind(w)
  PROVE  JobInv'
<1> USE JobAssumption
<1>n. PICK n \in 0..Cardinality(Job) : \E s \in [1..n -> Job] : Listed(s, n) /\ Linked(s, n)
  BY DEF JobInv, QueueShape
<1>3. PICK s \in [1..n -> Job] : Listed(s, n) /\ Linked(s, n)
  BY <1>n
<1>4. n \in Nat /\ Cardinality(Job) \in Nat
  BY JobCount
<1>5. PICK q : q = From(q_head)
  OBVIOUS
<1>6. q = [k \in 0..Cardinality(Job) |-> IF k < n THEN s[k + 1] ELSE NoJob]
  BY <1>3, <1>5, FromHead
<1>7. PICK k \in DOMAIN q : /\ q[k] # NoJob /\ j_id[q[k]] = w
                            /\ found' = [found EXCEPT ![w] = q[k]]
  BY <1>5 DEF JobFind
<1>8. k \in Nat /\ k < n /\ q[k] = s[k + 1] /\ k + 1 \in 1..n
  BY <1>4, <1>6, <1>7
<1>9. q[k] \in queued /\ q[k] \in Job
  BY <1>3, <1>8 DEF Listed
<1>10. UNCHANGED <<q_head, q_tail, j_next, j_prev, j_id, queued>>
  BY DEF JobFind
<1>11. JobTypeOK'
  BY <1>7, <1>9, <1>10 DEF JobInv, JobTypeOK
<1>12. FoundInv'
  BY <1>7, <1>9, <1>10 DEF JobInv, JobTypeOK, FoundInv
<1>13. QueueShape'
  <2>1. Listed(s, n)' /\ Linked(s, n)'
    BY <1>3, <1>10 DEF Listed, Linked
  <2> QED BY <1>4, <1>11, <2>1, ShapeNext DEF JobTypeOK
<1> QED BY <1>11, <1>12, <1>13 DEF JobInv

\* job_remove takes the k-th job of the row out, at the head, at the tail and in between.
LEMMA RemoveStep ==
  ASSUME JobInv, NEW w \in Worker, JobRemove(w)
  PROVE  JobInv'
<1> USE JobAssumption
<1> DEFINE j == found[w]
<1>1. /\ j \in Job /\ j \in queued /\ j_id[j] = w
      /\ found' = [found EXCEPT ![w] = NoJob] /\ queued' = queued \ {j} /\ j_id' = j_id
  BY DEF JobInv, JobTypeOK, FoundInv, JobRemove
<1>2. JobTypeOK'
  BY <1>1 DEF JobInv, JobTypeOK, JobRemove, Set
<1>n. PICK n \in 0..Cardinality(Job) : \E s \in [1..n -> Job] : Listed(s, n) /\ Linked(s, n)
  BY DEF JobInv, QueueShape
<1>3. PICK s \in [1..n -> Job] : Listed(s, n) /\ Linked(s, n)
  BY <1>n
<1>4. n \in Nat
  BY JobCount
<1>5. PICK k \in 1..n : s[k] = j
  BY <1>1, <1>3 DEF Listed
<1>6. n # 0 /\ n - 1 \in Nat /\ k \in Nat /\ 1 \in 1..n /\ n \in 1..n
  BY <1>4, <1>5
<1>7. /\ q_head = s[1] /\ q_tail = s[n]
      /\ j_next[j] = (IF k = n THEN NoJob ELSE s[k + 1])
      /\ j_prev[j] = (IF k = 1 THEN NoJob ELSE s[k - 1])
  BY <1>3, <1>5, <1>6 DEF Linked
<1>8. \A a, b \in 1..n : s[a] \in Job /\ (s[a] = s[b] => a = b)
  BY <1>3 DEF Listed
<1>9. (j = q_head <=> k = 1) /\ (j = q_tail <=> k = n)
  BY <1>5, <1>6, <1>7, <1>8
<1>10. q_head' = (IF k = 1 THEN j_next[j] ELSE s[1])
  BY <1>7, <1>9 DEF JobRemove
<1>11. q_tail' = (IF k = n THEN j_prev[j] ELSE s[n])
  BY <1>7, <1>9 DEF JobRemove
<1>12. ASSUME NEW a \in 1..n, a # k
       PROVE  j_next'[s[a]] = IF k # 1 /\ a = k - 1 THEN j_next[j] ELSE j_next[s[a]]
  <2>1. CASE k = 1
    BY <1>9, <2>1 DEF JobRemove
  <2>2. CASE k # 1
    <3>1. j_next' = Set(j_next, j_prev[j], j_next[j])
      BY <1>9, <2>2 DEF JobRemove
    <3>2. j_prev[j] = s[k - 1] /\ k - 1 \in 1..n
      BY <1>4, <1>7, <2>2
    <3> QED BY <1>8, <2>2, <3>1, <3>2 DEF Set
  <2> QED BY <2>1, <2>2
<1>13. ASSUME NEW a \in 1..n, a # k
       PROVE  j_prev'[s[a]] = IF k # n /\ a = k + 1 THEN j_prev[j] ELSE j_prev[s[a]]
  <2>1. CASE k = n
    BY <1>9, <2>1 DEF JobRemove
  <2>2. CASE k # n
    <3>1. j_prev' = Set(j_prev, j_next[j], j_prev[j])
      BY <1>9, <2>2 DEF JobRemove
    <3>2. j_next[j] = s[k + 1] /\ k + 1 \in 1..n
      BY <1>4, <1>7, <2>2
    <3> QED BY <1>8, <2>2, <3>1, <3>2 DEF Set
  <2> QED BY <2>1, <2>2
<1>14. PICK t : t = [a \in 1..(n - 1) |-> IF a < k THEN s[a] ELSE s[a + 1]]
  OBVIOUS
<1>15. /\ t \in [1..(n - 1) -> Job]
       /\ \A a \in 1..(n - 1) : /\ a \in 1..n /\ a + 1 \in 1..n
                               /\ t[a] = IF a < k THEN s[a] ELSE s[a + 1]
  BY <1>4, <1>6, <1>14
<1>16. Listed(t, n - 1)'
  <2>1. \A a, b \in 1..(n - 1) : t[a] = t[b] => a = b
    BY <1>4, <1>6, <1>8, <1>15
  <2>2. ASSUME NEW job \in Job
        PROVE  job \in queued' <=> \E a \in 1..(n - 1) : t[a] = job
    <3>1. job \in queued' <=> \E a \in 1..n : a # k /\ s[a] = job
      BY <1>1, <1>3, <1>5, <1>8 DEF Listed
    <3>2. ASSUME NEW a \in 1..n, a # k, s[a] = job PROVE \E b \in 1..(n - 1) : t[b] = job
      <4>1. CASE a < k
        BY <1>4, <1>6, <1>15, <3>2, <4>1
      <4>2. CASE a > k
        <5>1. a - 1 \in 1..(n - 1) /\ ~(a - 1 < k) /\ (a - 1) + 1 = a
          BY <1>4, <1>6, <4>2
        <5> QED BY <1>15, <3>2, <5>1
      <4> QED BY <1>6, <3>2, <4>1, <4>2
    <3>3. ASSUME NEW b \in 1..(n - 1), t[b] = job PROVE \E a \in 1..n : a # k /\ s[a] = job
      BY <1>4, <1>6, <1>15, <3>3
    <3> QED BY <3>1, <3>2, <3>3
  <2> QED BY <2>1, <2>2 DEF Listed
<1>17. Linked(t, n - 1)'
  <2>0. \A a \in 1..n : /\ j_next[s[a]] = (IF a = n THEN NoJob ELSE s[a + 1])
                        /\ j_prev[s[a]] = (IF a = 1 THEN NoJob ELSE s[a - 1])
    BY <1>3 DEF Linked
  <2>1. q_head' = IF n - 1 = 0 THEN NoJob ELSE t[1]
    BY <1>4, <1>6, <1>7, <1>10, <1>15
  <2>2. q_tail' = IF n - 1 = 0 THEN NoJob ELSE t[n - 1]
    BY <1>4, <1>6, <1>7, <1>11, <1>15
  <2>3. ASSUME NEW a \in 1..(n - 1)
        PROVE  j_next'[t[a]] = IF a = n - 1 THEN NoJob ELSE t[a + 1]
    <3>1. CASE a < k - 1
      <4>1. /\ a \in 1..n /\ a # k /\ a # k - 1 /\ a # n /\ a # n - 1 /\ t[a] = s[a]
            /\ a + 1 \in 1..(n - 1) /\ a + 1 < k
        BY <1>4, <1>6, <1>15, <3>1
      <4>2. t[a + 1] = s[a + 1]
        BY <1>15, <4>1
      <4> QED BY <1>12, <2>0, <4>1, <4>2
    <3>2. CASE a = k - 1
      <4>1. a \in 1..n /\ a # k /\ a < k /\ k # 1 /\ a + 1 = k /\ t[a] = s[a]
        BY <1>4, <1>6, <1>15, <3>2
      <4>2. j_next'[s[a]] = j_next[j] /\ j_next[j] = IF k = n THEN NoJob ELSE s[k + 1]
        BY <1>7, <1>12, <3>2, <4>1
      <4>3. a # n - 1 => k # n /\ t[a + 1] = s[k + 1]
        <5>1. a # n - 1 => a + 1 \in 1..(n - 1) /\ ~(a + 1 < k)
          BY <1>4, <1>6, <3>2
        <5> QED BY <1>4, <1>6, <1>15, <3>2, <4>1, <5>1
      <4> QED BY <1>4, <1>6, <3>2, <4>1, <4>2, <4>3
    <3>3. CASE a > k - 1
      <4>1. /\ a \in Nat /\ t[a] = s[a + 1] /\ a + 1 \in 1..n /\ a + 1 # k /\ a + 1 # k - 1
            /\ a # n - 1 => a + 1 \in 1..(n - 1) /\ t[a + 1] = s[(a + 1) + 1]
        BY <1>4, <1>6, <1>15, <3>3
      <4>2. j_next'[s[a + 1]] = j_next[s[a + 1]]
        BY <1>12, <4>1
      <4>3. j_next[s[a + 1]] = IF a + 1 = n THEN NoJob ELSE s[(a + 1) + 1]
        BY <2>0, <4>1
      <4> QED BY <1>4, <4>1, <4>2, <4>3
    <3> QED BY <1>6, <3>1, <3>2, <3>3
  <2>4. ASSUME NEW a \in 1..(n - 1)
        PROVE  j_prev'[t[a]] = IF a = 1 THEN NoJob ELSE t[a - 1]
    <3>1. CASE a < k
      <4>1. a \in 1..n /\ a # k /\ a # k + 1 /\ t[a] = s[a]
        BY <1>4, <1>6, <1>15, <3>1
      <4>2. a # 1 => a - 1 \in 1..(n - 1) /\ a - 1 < k
        BY <1>4, <1>6, <3>1
      <4>3. a # 1 => t[a - 1] = s[a - 1]
        BY <1>15, <4>2
      <4> QED BY <1>13, <2>0, <4>1, <4>3
    <3>2. CASE a = k
      <4>1. a + 1 \in 1..n /\ a + 1 # k /\ ~(a < k) /\ k # n /\ t[a] = s[k + 1]
        BY <1>4, <1>6, <1>15, <3>2
      <4>2. j_prev'[s[k + 1]] = j_prev[j] /\ j_prev[j] = IF k = 1 THEN NoJob ELSE s[k - 1]
        BY <1>7, <1>13, <3>2, <4>1
      <4>3. a # 1 => t[a - 1] = s[k - 1]
        <5>1. a # 1 => a - 1 \in 1..(n - 1) /\ a - 1 < k
          BY <1>4, <1>6, <3>2
        <5> QED BY <1>15, <3>2, <5>1
      <4> QED BY <3>2, <4>1, <4>2, <4>3
    <3>3. CASE a > k
      <4>1. /\ a \in Nat /\ t[a] = s[a + 1] /\ a + 1 \in 1..n /\ a + 1 # k /\ a + 1 # k + 1
            /\ a # 1 /\ a + 1 # 1 /\ a - 1 \in 1..(n - 1) /\ t[a - 1] = s[(a - 1) + 1]
            /\ (a - 1) + 1 = (a + 1) - 1
        BY <1>4, <1>6, <1>15, <3>3
      <4>2. j_prev'[s[a + 1]] = j_prev[s[a + 1]]
        BY <1>13, <4>1
      <4>3. j_prev[s[a + 1]] = s[(a + 1) - 1]
        BY <2>0, <4>1
      <4> QED BY <4>1, <4>2, <4>3
    <3> QED BY <1>6, <3>1, <3>2, <3>3
  <2> QED BY <2>1, <2>2, <2>3, <2>4 DEF Linked
<1>18. QueueShape'
  BY <1>2, <1>6, <1>15, <1>16, <1>17, ShapeNext DEF JobTypeOK
<1>19. FoundInv'
  <2> SUFFICES ASSUME NEW v \in Worker, found'[v] # NoJob
               PROVE  found'[v] \in queued' /\ j_id'[found'[v]] = v
    BY DEF FoundInv
  <2>1. v # w /\ found'[v] = found[v]
    BY <1>1 DEF JobInv, JobTypeOK
  <2>2. found[v] \in queued /\ j_id[found[v]] = v
    BY <2>1 DEF JobInv, FoundInv
  <2> QED BY <1>1, <2>1, <2>2
<1> QED BY <1>2, <1>18, <1>19 DEF JobInv

(***************************************************************************)
(* job_insert, job_append, job_find and job_remove keep the queued jobs in *)
(* one row that the pointers follow both ways, and a job that was found in *)
(* it for its own worker.                                                  *)
(***************************************************************************)
THEOREM JobInvariant == JobSpec => []JobInv
<1>1. ASSUME JobInv, JobNext PROVE JobInv'
  BY <1>1, InsertStep, AppendStep, FindStep, RemoveStep DEF JobNext
<1>2. ASSUME JobInv, UNCHANGED jobvars PROVE JobInv'
  <2>1. JobTypeOK' /\ FoundInv'
    BY <1>2 DEF JobInv, JobTypeOK, FoundInv, jobvars
  <2>2. PICK n \in 0..Cardinality(Job) : \E s \in [1..n -> Job] : Listed(s, n) /\ Linked(s, n)
    BY <1>2 DEF JobInv, QueueShape
  <2>3. PICK s \in [1..n -> Job] : Listed(s, n) /\ Linked(s, n)
    BY <2>2
  <2>4. Listed(s, n)' /\ Linked(s, n)'
    BY <1>2, <2>3 DEF Listed, Linked, jobvars
  <2> QED BY <2>1, <2>4 DEF JobInv, QueueShape
<1> QED BY <1>1, <1>2, JobInitial, PTL DEF JobSpec

(***************************************************************************)
(* The list that job_insert, job_append and job_remove leave, in any order *)
(* and by any number of threads, holds the queued jobs, each once, and can *)
(* be followed in both directions.                                         *)
(***************************************************************************)
THEOREM QueueWellLinked == JobSpec => []WellLinked
<1>1. ASSUME JobInv PROVE WellLinked
  <2> USE JobAssumption
  <2>1. PICK n \in 0..Cardinality(Job) : \E s \in [1..n -> Job] : Listed(s, n) /\ Linked(s, n)
    BY <1>1 DEF JobInv, QueueShape
  <2>2. PICK s \in [1..n -> Job] : Listed(s, n) /\ Linked(s, n)
    BY <2>1
  <2>3. n \in Nat /\ Cardinality(Job) \in Nat /\ n <= Cardinality(Job)
    BY JobCount
  <2>4. Cardinality(queued) = n
    BY <1>1, <2>2, <2>3, RowSize DEF JobInv, JobTypeOK
  <2>5. PICK q : q = From(q_head)
    OBVIOUS
  <2>6. q = [k \in 0..Cardinality(Job) |-> IF k < n THEN s[k + 1] ELSE NoJob]
    BY <2>2, <2>5, FromHead
  <2>7. PICK In : In = {k \in DOMAIN q : q[k] # NoJob}
    OBVIOUS
  <2>8. In = 0..(n - 1) /\ \A k \in 0..(n - 1) : q[k] = s[k + 1] /\ k + 1 \in 1..n
    BY <2>3, <2>6, <2>7
  <2>9. Cardinality(In) = n
    BY <2>3, <2>8, FS_Interval
  <2>10. {q[k] : k \in In} = queued
    <3>1. ASSUME NEW k \in In PROVE q[k] \in queued
      BY <2>2, <2>8 DEF Listed
    <3>2. ASSUME NEW job \in queued PROVE \E k \in In : q[k] = job
      <4>1. PICK a \in 1..n : s[a] = job
        BY <1>1, <2>2 DEF Listed, JobInv, JobTypeOK
      <4>2. a - 1 \in 0..(n - 1) /\ (a - 1) + 1 = a
        BY <2>3
      <4> QED BY <2>8, <4>1, <4>2
    <3> QED BY <3>1, <3>2
  <2>11. q_tail = IF queued = {} THEN NoJob ELSE q[Cardinality(queued) - 1]
    <3>1. CASE n = 0
      BY <2>2, <2>8, <2>10, <3>1 DEF Linked
    <3>2. CASE n # 0
      <4>1. n - 1 \in 0..(n - 1) /\ q[n - 1] = s[(n - 1) + 1] /\ (n - 1) + 1 = n
        BY <2>3, <2>8, <3>2
      <4>2. queued # {}
        BY <2>8, <2>10, <4>1
      <4> QED BY <2>2, <2>4, <3>2, <4>1, <4>2 DEF Linked
    <3> QED BY <3>1, <3>2
  <2>12. ASSUME NEW k \in In PROVE j_prev[q[k]] = IF k = 0 THEN NoJob ELSE q[k - 1]
    <3>1. k \in 0..(n - 1) /\ q[k] = s[k + 1] /\ k + 1 \in 1..n /\ (k + 1) - 1 = k
      BY <2>3, <2>8
    <3>2. j_prev[s[k + 1]] = IF k + 1 = 1 THEN NoJob ELSE s[(k + 1) - 1]
      BY <2>2, <3>1 DEF Linked
    <3>3. k # 0 => k - 1 \in 0..(n - 1) /\ q[k - 1] = s[(k - 1) + 1] /\ (k - 1) + 1 = k
      BY <2>3, <2>8, <3>1
    <3> QED BY <3>1, <3>2, <3>3
  <2> QED BY <2>4, <2>5, <2>7, <2>9, <2>10, <2>11, <2>12 DEF WellLinked
<1> QED BY <1>1, JobInvariant, PTL

(***************************************************************************)
(* The job that job_find returned is still on the list when its worker     *)
(* calls job_remove, although job_find has let go of the lock.             *)
(***************************************************************************)
THEOREM FoundJobsQueued == JobSpec => []FoundStillQueued
<1>1. JobInv => FoundStillQueued
  BY DEF JobInv, FoundInv, FoundStillQueued
<1> QED BY <1>1, JobInvariant, PTL

-----------------------------------------------------------------------------
(***************************************************************************)
(* The printer's answers (PrinterStatus).  printer_status never takes a    *)
(* job for printed that the printer has not accepted, whatever the printer *)
(* answers and however the network cuts it: for every set of answers, not  *)
(* only those of PrinterAnswers.                                           *)
(*                                                                         *)
(* The scan runs past the end of what was read and adds the old end of     *)
(* data to the new one (readmore's callers), so it also looks at bytes     *)
(* that malloc left in the buffer.  The invariant is that every byte of    *)
(* the buffer was sent by the printer or is such garbage.                  *)
(***************************************************************************)

\* x is one of the tokens of s.
HasToken(s, x) == \E n \in DOMAIN s : s[n] = x
\* x is one of the tokens of the pieces a.
HasPiece(ps, x) == \E k \in DOMAIN ps : HasToken(ps[k], x)

\* F[n] is the first n of the pieces in one, for n up to M.
Joins(F, ps, M) == F = [n \in 0..M |-> IF n = 0 THEN <<>> ELSE F[n - 1] \o ps[n]]

\* There is a function that joins the first M pieces.
LEMMA JoinExists ==
  ASSUME NEW ps, NEW M \in Nat
  PROVE  \E F : Joins(F, ps, M)
<1> DEFINE Good == {m \in Nat : \E F : Joins(F, ps, m)}
<1>1. 0 \in Good
  <2>1. PICK F : F = [n \in 0..0 |-> <<>>]
    OBVIOUS
  <2>2. F = [n \in 0..0 |-> IF n = 0 THEN <<>> ELSE F[n - 1] \o ps[n]]
    BY <2>1
  <2> QED BY <2>2 DEF Joins
<1>2. ASSUME NEW m \in Nat, m \in Good PROVE m + 1 \in Good
  <2>1. PICK F : Joins(F, ps, m)
    BY <1>2
  <2>2. PICK G : G = [n \in 0..(m + 1) |-> IF n <= m THEN F[n] ELSE F[m] \o ps[m + 1]]
    OBVIOUS
  <2>3. ASSUME NEW n \in 0..(m + 1)
        PROVE  G[n] = IF n = 0 THEN <<>> ELSE G[n - 1] \o ps[n]
    <3>1. CASE n = 0
      <4>1. F[0] = <<>>
        BY <2>1 DEF Joins
      <4> QED BY <2>2, <3>1, <4>1
    <3>2. CASE n # 0 /\ n <= m
      <4>1. n \in 0..m /\ n - 1 \in 0..(m + 1) /\ n - 1 <= m
        BY <3>2
      <4>2. F[n] = F[n - 1] \o ps[n]
        BY <2>1, <3>2, <4>1 DEF Joins
      <4>3. G[n] = F[n] /\ G[n - 1] = F[n - 1]
        BY <2>2, <3>2, <4>1
      <4> QED BY <3>2, <4>2, <4>3
    <3>3. CASE n = m + 1
      <4>1. n - 1 = m /\ n # 0 /\ m \in 0..(m + 1) /\ ~(n <= m)
        BY <3>3
      <4>2. G[n] = F[m] \o ps[m + 1] /\ G[n - 1] = F[m]
        BY <2>2, <4>1
      <4> QED BY <3>3, <4>1, <4>2
    <3> QED BY <3>1, <3>2, <3>3
  <2>4. G = [n \in 0..(m + 1) |-> G[n]]
    BY <2>2
  <2>5. G = [n \in 0..(m + 1) |-> IF n = 0 THEN <<>> ELSE G[n - 1] \o ps[n]]
    BY <2>3, <2>4, Zenon
  <2> QED BY <2>5 DEF Joins
<1> HIDE DEF Good
<1>3. Nat \subseteq Good
  BY <1>1, <1>2, SetInduction
<1> QED BY <1>3 DEF Good

\* Joining one more piece adds its tokens.
LEMMA JoinOne ==
  ASSUME NEW T, NEW s \in Seq(T), NEW r \in Seq(T), NEW x
  PROVE  s \o r \in Seq(T) /\ (HasToken(s \o r, x) <=> HasToken(s, x) \/ HasToken(r, x))
<1>1. /\ s \o r \in Seq(T) /\ Len(s \o r) = Len(s) + Len(r)
      /\ Len(s) \in Nat /\ Len(r) \in Nat
      /\ DOMAIN s = 1..Len(s) /\ DOMAIN r = 1..Len(r)
      /\ DOMAIN (s \o r) = 1..(Len(s) + Len(r))
  OBVIOUS
<1>2. /\ \A n \in 1..Len(s) : (s \o r)[n] = s[n]
      /\ \A n \in 1..Len(r) : (s \o r)[Len(s) + n] = r[n]
  OBVIOUS
<1>3. ASSUME NEW n \in 1..(Len(s) + Len(r)), (s \o r)[n] = x PROVE HasToken(s, x) \/ HasToken(r, x)
  <2>1. CASE n <= Len(s)
    BY <1>1, <1>2, <1>3, <2>1 DEF HasToken
  <2>2. CASE n > Len(s)
    <3>1. n - Len(s) \in 1..Len(r) /\ n = Len(s) + (n - Len(s))
      BY <1>1, <2>2
    <3>2. r[n - Len(s)] = x
      BY <1>2, <1>3, <3>1
    <3> QED BY <1>1, <3>1, <3>2 DEF HasToken
  <2> QED BY <1>1, <2>1, <2>2
<1>4. ASSUME NEW n \in 1..Len(s), s[n] = x PROVE HasToken(s \o r, x)
  <2>1. n \in 1..(Len(s) + Len(r))
    BY <1>1
  <2> QED BY <1>1, <1>2, <1>4, <2>1 DEF HasToken
<1>5. ASSUME NEW n \in 1..Len(r), r[n] = x PROVE HasToken(s \o r, x)
  <2>1. Len(s) + n \in 1..(Len(s) + Len(r))
    BY <1>1
  <2> QED BY <1>1, <1>2, <1>5, <2>1 DEF HasToken
<1> QED BY <1>1, <1>3, <1>4, <1>5 DEF HasToken

\* What the first n joined pieces have.
JoinAt(F, ps, T, n) ==
  /\ F[n] \in Seq(T)
  /\ \A x : HasToken(F[n], x) <=> \E k \in 1..n : HasToken(ps[k], x)

\* The pieces joined have the tokens of the pieces.
LEMMA JoinHas ==
  ASSUME NEW T, NEW ps \in Seq(Seq(T)), NEW F, Joins(F, ps, Len(ps))
  PROVE  JoinAt(F, ps, T, Len(ps))
<1> DEFINE Good == {n \in Nat : n <= Len(ps) => JoinAt(F, ps, T, n)}
<1>0. Len(ps) \in Nat /\ \A n \in 1..Len(ps) : ps[n] \in Seq(T)
  OBVIOUS
<1>1. 0 \in Good
  <2>1. F[0] = <<>>
    BY <1>0 DEF Joins
  <2>2. \A x : ~HasToken(<<>>, x) /\ ~ \E k \in 1..0 : HasToken(ps[k], x)
    BY DEF HasToken
  <2>3. <<>> \in Seq(T)
    OBVIOUS
  <2>4. JoinAt(F, ps, T, 0)
    BY <2>1, <2>2, <2>3 DEF JoinAt
  <2> QED BY <2>4
<1>2. ASSUME NEW n \in Nat, n \in Good PROVE n + 1 \in Good
  <2>1. SUFFICES ASSUME n + 1 <= Len(ps) PROVE JoinAt(F, ps, T, n + 1)
    OBVIOUS
  <2>2. n <= Len(ps) /\ n + 1 \in 0..Len(ps) /\ n + 1 \in 1..Len(ps) /\ n + 1 # 0
        /\ (n + 1) - 1 = n
    BY <1>0, <2>1
  <2>3. F[n + 1] = F[n] \o ps[n + 1]
    BY <2>2 DEF Joins
  <2>4. JoinAt(F, ps, T, n) /\ ps[n + 1] \in Seq(T)
    BY <1>0, <1>2, <2>2
  <2>5. F[n + 1] \in Seq(T) /\ \A x : HasToken(F[n + 1], x) <=> HasToken(F[n], x) \/ HasToken(ps[n + 1], x)
    BY <2>3, <2>4, JoinOne DEF JoinAt
  <2>6. \A k : k \in 1..(n + 1) <=> k \in 1..n \/ k = n + 1
    OBVIOUS
  <2> QED BY <2>4, <2>5, <2>6 DEF JoinAt
<1> HIDE DEF Good
<1>3. Nat \subseteq Good
  BY <1>1, <1>2, SetInduction
<1>4. Len(ps) \in Good
  BY <1>0, <1>3
<1> QED BY <1>0, <1>4 DEF Good

\* Flatten(a) has the tokens of the pieces of a.
LEMMA FlattenHas ==
  ASSUME NEW T, NEW ps \in Seq(Seq(T))
  PROVE  Flatten(ps) \in Seq(T) /\ \A x : HasToken(Flatten(ps), x) <=> HasPiece(ps, x)
<1> DEFINE Layers(F) == F = [n \in 0..Len(ps) |-> IF n = 0 THEN <<>> ELSE F[n - 1] \o ps[n]]
<1>1. Len(ps) \in Nat /\ DOMAIN ps = 1..Len(ps)
  OBVIOUS
<1>2. PICK f : Joins(f, ps, Len(ps))
  BY <1>1, JoinExists
<1>3. Layers(f)
  BY <1>2 DEF Joins
<1>4. Layers(CHOOSE F : Layers(F))
  <2> HIDE DEF Layers
  <2> QED BY <1>3
<1>5. Flatten(ps) = (CHOOSE F : Layers(F))[Len(ps)]
  BY DEF Flatten
<1>6. PICK F : Joins(F, ps, Len(ps)) /\ Flatten(ps) = F[Len(ps)]
  BY <1>4, <1>5 DEF Joins
<1>7. JoinAt(F, ps, T, Len(ps))
  BY <1>6, JoinHas
<1> QED BY <1>1, <1>6, <1>7 DEF JoinAt, HasPiece
-----------------------------------------------------------------------------
(***************************************************************************)
(* What the scan relies on.  T are the tokens of the answers.              *)
(***************************************************************************)
Sent(x) == HasToken(Flatten(answer), x)

ParseInv(T) ==
  /\ answer \in Seq(Seq(T)) /\ rest \in Seq(Seq(T)) /\ i \in Nat
  /\ \A x : HasPiece(rest, x) => Sent(x)
  /\ \A x : HasToken(bp, x) => x = Garbage \/ Sent(x)
  /\ pc \notin {"tread", "status", "done"} => Sent(Status("ok"))
  /\ NoFalseSuccess

\* A read returns what the printer has sent, and leaves the rest of it.
LEMMA ReadsSent ==
  ASSUME NEW T, ParseInv(T), NEW r \in Reads
  PROVE  /\ r.got \in Seq(T) /\ r.left \in Seq(Seq(T))
         /\ \A x : HasToken(r.got, x) \/ HasPiece(r.left, x) => Sent(x)
<1>1. rest \in Seq(Seq(T)) /\ rest # <<>>
  BY DEF ParseInv, Reads
<1>2. CASE r = [got |-> Head(rest), left |-> Tail(rest)]
  <2>1. Len(rest) \in Nat /\ DOMAIN rest = 1..Len(rest) /\ Len(rest) > 0
    BY <1>1
  <2>2. /\ Head(rest) = rest[1] /\ Head(rest) \in Seq(T) /\ Tail(rest) \in Seq(Seq(T))
        /\ DOMAIN Tail(rest) = 1..(Len(rest) - 1)
        /\ \A k \in 1..(Len(rest) - 1) : Tail(rest)[k] = rest[k + 1]
    BY <1>1, <2>1
  <2>3. \A k \in 1..(Len(rest) - 1) : k + 1 \in DOMAIN rest
    BY <2>1
  <2>4. 1 \in DOMAIN rest
    BY <2>1
  <2>5. \A x : HasToken(Head(rest), x) \/ HasPiece(Tail(rest), x) => HasPiece(rest, x)
    BY <2>2, <2>3, <2>4 DEF HasPiece
  <2> QED BY <1>2, <2>2, <2>5 DEF ParseInv
<1>3. CASE \E n \in 1..Len(Flatten(rest)) :
             r = [got |-> SubSeq(Flatten(rest), 1, n),
                  left |-> IF n = Len(Flatten(rest)) THEN <<>>
                           ELSE <<SubSeq(Flatten(rest), n + 1, Len(Flatten(rest)))>>]
  <2>1. PICK all : all = Flatten(rest)
    OBVIOUS
  <2>2. all \in Seq(T) /\ \A x : HasToken(all, x) => Sent(x)
    BY <1>1, <2>1, FlattenHas DEF ParseInv
  <2>3. PICK n \in 1..Len(all) :
          r = [got |-> SubSeq(all, 1, n),
               left |-> IF n = Len(all) THEN <<>> ELSE <<SubSeq(all, n + 1, Len(all))>>]
    BY <1>3, <2>1
  <2>4. Len(all) \in Nat /\ DOMAIN all = 1..Len(all)
    BY <2>2
  <2>5. ASSUME NEW ps \in Nat, NEW bs \in Nat, 1 <= ps, bs <= Len(all)
        PROVE  SubSeq(all, ps, bs) \in Seq(T) /\ \A x : HasToken(SubSeq(all, ps, bs), x) => HasToken(all, x)
    <3>1. \A k \in ps..bs : all[k] \in T
      BY <2>2, <2>4, <2>5
    <3>2. PICK s : s = SubSeq(all, ps, bs)
      OBVIOUS
    <3>3. /\ s \in Seq(T) /\ Len(s) = IF ps <= bs THEN (bs - ps) + 1 ELSE 0
          /\ \A k \in 1..((bs - ps) + 1) : s[k] = all[(ps + k) - 1]
      <4>1. ps \in Int /\ bs \in Int
        BY <2>5
      <4> QED BY <3>1, <3>2, <4>1, SubSeqProperties
    <3>4. DOMAIN s = 1..Len(s)
      BY <3>3
    <3>5. ASSUME NEW k \in DOMAIN s PROVE (ps + k) - 1 \in DOMAIN all /\ s[k] = all[(ps + k) - 1]
      BY <2>4, <2>5, <3>3, <3>4
    <3> QED BY <3>2, <3>3, <3>5 DEF HasToken
  <2>6. /\ SubSeq(all, 1, n) \in Seq(T)
        /\ \A x : HasToken(SubSeq(all, 1, n), x) => HasToken(all, x)
    BY <2>4, <2>5
  <2>7. /\ SubSeq(all, n + 1, Len(all)) \in Seq(T)
        /\ \A x : HasToken(SubSeq(all, n + 1, Len(all)), x) => HasToken(all, x)
    BY <2>4, <2>5
  <2>8. CASE n = Len(all)
    <3>1. r.left = <<>> /\ <<>> \in Seq(Seq(T)) /\ \A x : ~HasPiece(<<>>, x)
      BY <2>3, <2>8 DEF HasPiece
    <3> QED BY <2>2, <2>3, <2>6, <3>1
  <2>9. CASE n # Len(all)
    <3>1. PICK s : s = SubSeq(all, n + 1, Len(all))
      OBVIOUS
    <3>2. r.left = <<s>> /\ s \in Seq(T)
      BY <2>3, <2>7, <2>9, <3>1
    <3>3. <<s>> \in Seq(Seq(T)) /\ \A x : HasPiece(<<s>>, x) => HasToken(s, x)
      BY <3>2 DEF HasPiece
    <3> QED BY <2>2, <2>3, <2>6, <2>7, <3>1, <3>2, <3>3
  <2> QED BY <2>8, <2>9
<1> QED BY <1>2, <1>3 DEF Reads

\* What the scan looks at was sent, or is garbage.
LEMMA LooksAtSent ==
  ASSUME NEW T, ParseInv(T), NEW o
  PROVE  At(o) = Garbage \/ Sent(At(o))
BY DEF ParseInv, At, HasToken

\* Giving up, and moving the scan.
LEMMA ScanKeeps ==
  ASSUME NEW T, ParseInv(T), UNCHANGED <<answer, rest, bp, success>>, i' \in Nat,
         pc' \in {"tread", "status", "done"} \/ Sent(Status("ok"))
  PROVE  ParseInv(T)'
<1>1. /\ answer' = answer /\ rest' = rest /\ bp' = bp /\ success' = success
  OBVIOUS
<1>2. \A x : Sent(x)' <=> Sent(x)
  BY <1>1 DEF Sent
<1>3. NoFalseSuccess'
  BY <1>1 DEF NoFalseSuccess, Accepts, ParseInv
<1> QED BY <1>1, <1>2, <1>3 DEF ParseInv

\* A read replaces the buffer or adds to it.
LEMMA ReadKeeps ==
  ASSUME NEW T, ParseInv(T), NEW r \in Reads, rest' = r.left, i' \in Nat,
         UNCHANGED <<answer, success>>,
         \A x : HasToken(bp', x) => x = Garbage \/ Sent(x),
         pc' \in {"tread", "status", "done"} \/ Sent(Status("ok"))
  PROVE  ParseInv(T)'
<1>1. answer' = answer /\ success' = success
  OBVIOUS
<1>2. \A x : Sent(x)' <=> Sent(x)
  BY <1>1 DEF Sent
<1>3. NoFalseSuccess'
  BY <1>1 DEF NoFalseSuccess, Accepts, ParseInv
<1>4. r.left \in Seq(Seq(T)) /\ \A x : HasPiece(r.left, x) => Sent(x)
  BY ReadsSent
<1> QED BY <1>1, <1>2, <1>3, <1>4 DEF ParseInv

\* readmore.
LEMMA ReadMoreKeeps ==
  ASSUME NEW T, ParseInv(T), NEW label, ReadMore(label), answer' = answer,
         Sent(Status("ok"))
  PROVE  ParseInv(T)'
<1>0. i \in Nat
  BY DEF ParseInv
<1>1. CASE Out
  BY <1>0, <1>1, ScanKeeps DEF Out
<1>2. ASSUME NEW r \in Reads, rest' = r.left, i' = i, success' = success,
             bp' = [o \in 1..(i + Len(r.got)) |-> IF o <= i THEN At(o - 1) ELSE r.got[o - i]]
      PROVE  ParseInv(T)'
  <2>1. r.got \in Seq(T) /\ \A x : HasToken(r.got, x) => Sent(x)
    BY ReadsSent
  <2>2. PICK g, N, c : g = r.got /\ N = Len(g) /\ c = i
    OBVIOUS
  <2>3. N \in Nat /\ DOMAIN g = 1..N /\ c \in Nat
    BY <1>0, <2>1, <2>2
  <2>4. ASSUME NEW o \in 1..(c + N) PROVE bp'[o] = Garbage \/ Sent(bp'[o])
    <3>1. bp'[o] = IF o <= c THEN At(o - 1) ELSE g[o - c]
      BY <1>2, <2>2
    <3>2. CASE o <= c
      BY <3>1, <3>2, LooksAtSent
    <3>3. CASE ~(o <= c)
      <4>1. o - c \in DOMAIN g
        BY <2>3, <3>3
      <4> QED BY <2>1, <2>2, <3>1, <3>3, <4>1 DEF HasToken
    <3> QED BY <3>2, <3>3
  <2>5. DOMAIN bp' = 1..(c + N)
    BY <1>2, <2>2
  <2>6. \A x : HasToken(bp', x) => x = Garbage \/ Sent(x)
    BY <2>4, <2>5 DEF HasToken
  <2> QED BY <1>0, <1>2, <2>6, ReadKeeps
<1> QED BY <1>1, <1>2 DEF ReadMore
-----------------------------------------------------------------------------
(***************************************************************************)
(* One lemma per step of the parser.                                       *)
(***************************************************************************)
\* The answers, and an empty buffer.
LEMMA ParseInit ==
  ASSUME NEW T, Answers \subseteq Seq(Seq(T)), Init
  PROVE  ParseInv(T)
<1>1. answer \in Seq(Seq(T)) /\ rest = answer /\ i = 0 /\ bp = <<>> /\ pc = "tread"
      /\ success = 0
  BY DEF Init
<1>2. \A x : HasPiece(rest, x) => Sent(x)
  BY <1>1, FlattenHas DEF Sent
<1>3. \A x : ~HasToken(bp, x)
  BY <1>1 DEF HasToken
<1>4. NoFalseSuccess
  BY <1>1 DEF NoFalseSuccess
<1> QED BY <1>1, <1>2, <1>3, <1>4 DEF ParseInv

\* tread.
LEMMA TreadKeeps ==
  ASSUME NEW T, ParseInv(T), Tread
  PROVE  ParseInv(T)'
<1>0. i \in Nat /\ answer' = answer
  BY DEF ParseInv, Tread
<1>1. CASE Out
  BY <1>0, <1>1, ScanKeeps DEF Out
<1>2. ASSUME NEW r \in Reads, rest' = r.left, bp' = r.got, i' = 1, pc' = "status",
             success' = success
      PROVE  ParseInv(T)'
  <2>1. \A x : HasToken(bp', x) => Sent(x)
    BY <1>2, ReadsSent
  <2> QED BY <1>0, <1>2, <2>1, ReadKeeps
<1> QED BY <1>1, <1>2 DEF Tread

\* The status line: the search for the length begins only after a printer
\* has sent that HTTP has succeeded.
LEMMA StatusLineKeeps ==
  ASSUME NEW T, ParseInv(T), StatusLine
  PROVE  ParseInv(T)'
<1>0. i \in Nat /\ UNCHANGED <<answer, rest, bp, success, i>>
  BY DEF ParseInv, StatusLine, Scan, Out
<1>1. CASE pc' \in {"tread", "done"}
  BY <1>0, <1>1, ScanKeeps
<1>2. CASE At(0) = Status("ok")
  <2>1. Status("ok") # Garbage
    BY DEF Status, Garbage
  <2>2. Sent(Status("ok"))
    BY <1>2, <2>1, LooksAtSent
  <2> QED BY <1>0, <2>2, ScanKeeps
<1> QED BY <1>1, <1>2 DEF StatusLine, Scan, Out

\* The searches for the length, for the end of the header and for the IPP
\* header: each moves the scan, reads more or gives up.
LEMMA SearchKeeps ==
  ASSUME NEW T, ParseInv(T),
         \/ FindLength \/ MoreLength \/ CompareLength \/ AfterLength
         \/ FindEnd \/ Found \/ MoreIpp
  PROVE  ParseInv(T)'
<1>0. i \in Nat /\ i + 1 \in Nat /\ i + 3 \in Nat
  BY DEF ParseInv
<1>1. answer' = answer
  BY DEF FindLength, MoreLength, CompareLength, AfterLength, FindEnd, Found, MoreIpp
<1>2. Sent(Status("ok"))
  BY DEF ParseInv, FindLength, MoreLength, CompareLength, AfterLength, FindEnd, Found,
     MoreIpp
<1>3. ASSUME NEW label, NEW o \in Nat, Scan(label, o) PROVE ParseInv(T)'
  BY <1>1, <1>2, <1>3, ScanKeeps DEF Scan
<1>4. ASSUME NEW label, ReadMore(label) PROVE ParseInv(T)'
  BY <1>1, <1>2, <1>4, ReadMoreKeeps
<1>5. CASE FindLength
  BY <1>0, <1>3, <1>5 DEF FindLength
<1>6. CASE MoreLength
  BY <1>4, <1>6 DEF MoreLength
<1>7. CASE CompareLength
  BY <1>0, <1>3, <1>7 DEF CompareLength
<1>8. CASE AfterLength
  BY <1>0, <1>3, <1>4, <1>8 DEF AfterLength
<1>9. CASE FindEnd
  BY <1>0, <1>3, <1>9 DEF FindEnd
<1>10. CASE Found
  BY <1>0, <1>3, <1>4, <1>10 DEF Found
<1>11. CASE MoreIpp
  BY <1>0, <1>3, <1>4, <1>11 DEF MoreIpp
<1> QED BY <1>5, <1>6, <1>7, <1>8, <1>9, <1>10, <1>11

\* The IPP header: a job is taken for printed only if the buffer holds its
\* number and a status of success, and garbage is neither.
LEMMA ParseIppKeeps ==
  ASSUME NEW T, ParseInv(T), ParseIpp
  PROVE  ParseInv(T)'
<1>1. UNCHANGED <<answer, rest, bp, i>> /\ pc' = "done" /\ pc = "parse"
  BY DEF ParseIpp
<1>2. \A x : Sent(x)' <=> Sent(x)
  BY <1>1 DEF Sent
<1>3. ASSUME success' = 1 PROVE Accepts(answer)'
  <2>1. At(i) = IppId("same") /\ At(i + 1) = IppStatus("ok")
    BY <1>3 DEF ParseIpp
  <2>2. IppId("same") # Garbage /\ IppStatus("ok") # Garbage
    BY DEF IppId, IppStatus, Garbage
  <2>3. Sent(IppId("same")) /\ Sent(IppStatus("ok"))
    BY <2>1, <2>2, LooksAtSent
  <2>4. Sent(Status("ok"))
    BY <1>1 DEF ParseInv
  <2>5. Accepts(answer)
    BY <2>3, <2>4 DEF Accepts, Sent, HasToken
  <2> QED BY <1>1, <2>5
<1>4. NoFalseSuccess'
  BY <1>3 DEF NoFalseSuccess
<1> QED BY <1>1, <1>2, <1>4 DEF ParseInv

\* Every step of printer_status keeps the invariant.
LEMMA ParseNext ==
  ASSUME NEW T, ParseInv(T), [Next]_vars
  PROVE  ParseInv(T)'
<1>1. CASE UNCHANGED vars
  <2>1. UNCHANGED <<answer, rest, bp, success, i, pc>> /\ i \in Nat
    BY <1>1 DEF vars, ParseInv
  <2>2. pc' \in {"tread", "status", "done"} \/ Sent(Status("ok"))
    BY <2>1 DEF ParseInv
  <2> QED BY <2>1, <2>2, ScanKeeps
<1> QED BY <1>1, TreadKeeps, StatusLineKeeps, SearchKeeps, ParseIppKeeps
        DEF Next, Step, Spin, Done

\* printer_status takes a job for printed, so that its files are removed, only
\* if the printer has accepted this very job: for all answers that are pieces
\* of some tokens T, however the network cuts them, and although the scan
\* runs past the end of what was read.
THEOREM NoFalseSuccessTheorem ==
  ASSUME NEW T, Answers \subseteq Seq(Seq(T))
  PROVE  Spec => []NoFalseSuccess
<1>1. Init => ParseInv(T)
  BY ParseInit
<1>2. ParseInv(T) /\ [Next]_vars => ParseInv(T)'
  BY ParseNext
<1>3. ParseInv(T) => NoFalseSuccess
  BY DEF ParseInv
<1> QED BY <1>1, <1>2, <1>3, PTL DEF Spec
=============================================================================
