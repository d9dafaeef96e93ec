--------------------------- MODULE ProgramProofs ---------------------------
(***************************************************************************)
(* Proofs about the programs that stand alone, one part for each: the      *)
(* semaphore of lib/semaph.c, the message queue of threads/condvar.c, the  *)
(* lock of ipc1/slock.c, the start of a daemon, db_open, the print         *)
(* command, terminal modes, the copies, the pseudo terminal, the poll of   *)
(* message queues, the thread examples, the filters over pipes, tellwait,  *)
(* the uptime service, the memory stream and the tree walk.                *)
(***************************************************************************)
EXTENDS Semaph, MsgQueue, FiniteSetTheorems, SequenceTheorems, WellFoundedInduction, TLAPS

(***************************************************************************)
(* lib/semaph.c.  There are fewer processes than the counter can tell (it  *)
(* starts at 10000 in the code).                                           *)
(***************************************************************************)
SemSizes ==
  /\ IsFiniteSet(Proc) /\ BIGCOUNT \in Nat /\ Cardinality(Proc) < BIGCOUNT
  /\ initval \in Nat

SemSpec == SemInit /\ [][SemNext]_vars

Users == {p \in Proc : Exists(p) /\ pc[p] \in {"open", "in"}}
Inside == {p \in Proc : Exists(p) /\ pc[p] = "in"}
Holds(p) == Exists(p) /\ pc[p] \in Locked

SemPC == {"out", "dead", "again", "c_lock", "c_sleep", "o_count", "open", "in"} \union Locked

\* A set that the key names is the last one made, and a process has a set while it uses one.
SemTypes ==
  /\ gens \in Nat /\ gen \in {0, gens} /\ val \in [0..2 -> Nat]
  /\ adj \in [Proc -> [0..2 -> Int]] /\ pc \in [Proc -> SemPC]
  /\ id \in [Proc -> Nat] /\ via \in [Proc -> {"none", "create", "open"}]
  /\ \A p \in Proc : id[p] <= gens /\ (pc[p] \notin {"out", "dead"} => id[p] # 0)

\* What exit takes back is what the process has done.
UndoInv ==
  \A p \in Proc : /\ adj[p][0] = IF p \in Inside THEN 1 ELSE 0
                  /\ adj[p][1] = IF p \in Users THEN 1 ELSE 0
                  /\ adj[p][2] = IF Holds(p) THEN -1 ELSE 0

\* Member 2 is a lock, and the set stays while it is held.
LockInv ==
  /\ \A p \in Proc : pc[p] \in Locked => Exists(p)
  /\ \A p, q \in Proc : pc[p] \in Locked /\ pc[q] \in Locked => p = q
  /\ val[2] = IF \E p \in Proc : pc[p] \in Locked THEN 1 ELSE 0

\* The counter and the value, once they are set: the value before the counter.
CountInv ==
  /\ (val[1] = 0 /\ Users = {}) \/ val[1] = BIGCOUNT - Cardinality(Users)
  /\ val[1] # 0 \/ (\E p \in Proc : pc[p] = "c_set1") =>
       val[0] = initval - Cardinality(Inside)
  /\ \A p \in Proc : pc[p] = "c_set1" => val[1] = 0

\* A process that is about to remove the set has seen that no creator uses it.
KeepInv ==
  /\ CreatorKeeps
  /\ \A p \in Proc : pc[p] = "o_count" => via[p] = "open"
  /\ \A p, q \in Proc : pc[p] = "x_rm" /\ q \in Users => via[q] # "create"

SemInv == SemTypes /\ UndoInv /\ LockInv /\ CountInv /\ KeepInv
-----------------------------------------------------------------------------
\* How many processes there are in a set with one more, or one less.
LEMMA ProcCount ==
  ASSUME SemSizes, NEW S \in SUBSET Proc, NEW p \in Proc
  PROVE  /\ Cardinality(S) \in Nat /\ Cardinality(S) < BIGCOUNT
         /\ p \notin S => Cardinality(S \union {p}) = Cardinality(S) + 1
         /\ p \in S => Cardinality(S \ {p}) = Cardinality(S) - 1
         /\ p \in S => S \union {p} = S
         /\ p \notin S => S \ {p} = S
<1>1. IsFiniteSet(S) /\ Cardinality(S) <= Cardinality(Proc)
  BY FS_Subset DEF SemSizes
<1>2. Cardinality(S) \in Nat /\ Cardinality(Proc) \in Nat
  BY <1>1, FS_CardinalityType DEF SemSizes
<1>3. p \notin S => Cardinality(S \union {p}) = Cardinality(S) + 1
  BY <1>1, FS_AddElement
<1>4. p \in S => Cardinality(S \ {p}) = Cardinality(S) - 1
  BY <1>1, FS_RemoveElement
<1>5. (p \in S => S \union {p} = S) /\ (p \notin S => S \ {p} = S)
  OBVIOUS
<1> QED BY <1>1, <1>2, <1>3, <1>4, <1>5 DEF SemSizes

\* Nothing is counted and nobody is inside before the counter is set.
LEMMA NoUsers ==
  ASSUME SemSizes, SemInv
  PROVE  /\ val[1] = 0 <=> (Users = {} /\ val[1] # BIGCOUNT)
         /\ val[1] = 0 => Users = {} /\ Inside = {} /\ Cardinality(Inside) = 0
         /\ Inside \subseteq Users /\ Users \subseteq Proc /\ Inside \subseteq Proc
<1>1. Inside \subseteq Users /\ Users \subseteq Proc /\ Inside \subseteq Proc
  BY DEF Inside, Users
<1>2. Cardinality(Users) \in Nat /\ Cardinality(Users) < BIGCOUNT
  <2>1. CASE Proc = {}
    <3>1. Users = {}
      BY <2>1, <1>1
    <3> QED BY <3>1, <2>1, FS_EmptySet DEF SemSizes
  <2>2. CASE Proc # {}
    BY <2>2, <1>1, ProcCount
  <2> QED BY <2>1, <2>2
<1>3. Cardinality({}) = 0
  BY FS_EmptySet
<1>4. val[1] \in Nat /\ BIGCOUNT \in Nat
  BY DEF SemInv, SemTypes, SemSizes
<1> QED BY <1>1, <1>2, <1>3, <1>4 DEF SemInv, CountInv

\* What a step that only moves process p does to the sets of processes.
LEMMA Moves ==
  ASSUME SemInv, NEW p \in Proc, NEW l \in SemPC, Goto(p, l), UNCHANGED <<gen, gens, id, via>>,
         pc[p] # "out"
  PROVE  /\ pc' \in [Proc -> SemPC] /\ pc'[p] = l
         /\ \A q \in Proc : q # p => pc'[q] = pc[q]
         /\ \A q \in Proc : Exists(q)' <=> Exists(q)
         /\ Users' = IF Exists(p) /\ l \in {"open", "in"} THEN Users \union {p} ELSE Users \ {p}
         /\ Inside' = IF Exists(p) /\ l = "in" THEN Inside \union {p} ELSE Inside \ {p}
         /\ val' \in [0..2 -> Nat] /\ adj' \in [Proc -> [0..2 -> Int]] /\ pc[p] # "dead"
              => SemTypes'
<1>1. /\ pc \in [Proc -> SemPC] /\ pc' = [pc EXCEPT ![p] = l]
      /\ gen' = gen /\ gens' = gens /\ id' = id /\ via' = via
  BY DEF SemInv, SemTypes, Goto
<1>2. pc' \in [Proc -> SemPC] /\ pc'[p] = l /\ \A q \in Proc : q # p => pc'[q] = pc[q]
  BY <1>1
<1>3. \A q \in Proc : Exists(q)' <=> Exists(q)
  BY <1>1 DEF Exists
<1>4. Users' = IF Exists(p) /\ l \in {"open", "in"} THEN Users \union {p} ELSE Users \ {p}
  BY <1>2, <1>3 DEF Users
<1>5. Inside' = IF Exists(p) /\ l = "in" THEN Inside \union {p} ELSE Inside \ {p}
  BY <1>2, <1>3 DEF Inside
<1>6. val' \in [0..2 -> Nat] /\ adj' \in [Proc -> [0..2 -> Int]] /\ pc[p] # "dead" => SemTypes'
  BY <1>1, <1>2 DEF SemInv, SemTypes
<1> QED BY <1>2, <1>3, <1>4, <1>5, <1>6

\* What such a step has to show.
LEMMA MoveKeeps ==
  ASSUME SemSizes, SemInv, NEW p \in Proc, NEW l \in SemPC, Goto(p, l),
         UNCHANGED <<gen, gens, id, via>>, pc[p] \notin {"out", "dead"},
         val' \in [0..2 -> Nat], adj' \in [Proc -> [0..2 -> Int]],
         \A q \in Proc : q # p => adj'[q] = adj[q],
         adj'[p][0] = IF Exists(p) /\ l = "in" THEN 1 ELSE 0,
         adj'[p][1] = IF Exists(p) /\ l \in {"open", "in"} THEN 1 ELSE 0,
         adj'[p][2] = IF Exists(p) /\ l \in Locked THEN -1 ELSE 0,
         l \in Locked => Exists(p) /\ (pc[p] \in Locked \/ val[2] = 0),
         val'[2] = IF l \in Locked THEN 1 ELSE IF pc[p] \in Locked THEN 0 ELSE val[2],
         CountInv',
         l = "x_rm" => Users = {}, l # "o_count",
         l \in {"open", "in"} => pc[p] \in {"open", "in"} \union Locked \/ via[p] # "create"
  PROVE  SemInv'
<1>1. /\ pc' \in [Proc -> SemPC] /\ pc'[p] = l
      /\ \A q \in Proc : q # p => pc'[q] = pc[q]
      /\ \A q \in Proc : Exists(q)' <=> Exists(q)
      /\ Users' = IF Exists(p) /\ l \in {"open", "in"} THEN Users \union {p} ELSE Users \ {p}
      /\ Inside' = IF Exists(p) /\ l = "in" THEN Inside \union {p} ELSE Inside \ {p}
      /\ SemTypes'
  BY Moves
<1>2. UndoInv'
  <2>1. ASSUME NEW q \in Proc, q # p
        PROVE  /\ q \in Inside' <=> q \in Inside
               /\ q \in Users' <=> q \in Users
               /\ Holds(q)' <=> Holds(q)
               /\ adj'[q] = adj[q]
    BY <1>1, <2>1 DEF Holds
  <2>2. /\ p \in Inside' <=> Exists(p) /\ l = "in"
        /\ p \in Users' <=> Exists(p) /\ l \in {"open", "in"}
        /\ Holds(p)' <=> Exists(p) /\ l \in Locked
    BY <1>1 DEF Holds
  <2> QED BY <2>1, <2>2 DEF UndoInv, SemInv
<1>3. LockInv'
  <2>1. \A q \in Proc : pc'[q] \in Locked => Exists(q)'
    BY <1>1 DEF SemInv, LockInv
  <2>2. \A q, r \in Proc : pc'[q] \in Locked /\ pc'[r] \in Locked => q = r
    BY <1>1 DEF SemInv, LockInv
  <2>3. val'[2] = IF \E q \in Proc : pc'[q] \in Locked THEN 1 ELSE 0
    BY <1>1 DEF SemInv, LockInv
  <2> QED BY <2>1, <2>2, <2>3 DEF LockInv
<1>4. KeepInv'
  <2>1. via' = via
    OBVIOUS
  <2>2. CreatorKeeps'
    BY <1>1, <2>1 DEF SemInv, KeepInv, CreatorKeeps, LockInv
  <2>3. ASSUME NEW r \in Proc, NEW q \in Proc, pc'[r] = "x_rm", q \in Users'
        PROVE  via'[q] # "create"
    <3>1. CASE r = p
      BY <1>1, <2>1, <2>3, <3>1 DEF Locked
    <3>2. CASE r # p
      <4>1. pc[r] = "x_rm" /\ "x_rm" \in Locked /\ pc[p] \notin Locked
        BY <1>1, <2>3, <3>2 DEF SemInv, LockInv, Locked
      <4>2. q \in Users \/ (q = p /\ l \in {"open", "in"})
        BY <1>1, <2>3
      <4>3. CASE q \in Users
        BY <2>1, <4>1, <4>3 DEF SemInv, KeepInv
      <4>4. CASE q = p /\ l \in {"open", "in"} /\ q \notin Users
        <5>1. Exists(p)
          BY <1>1, <2>3, <4>4
        <5>2. pc[p] \notin {"open", "in"}
          BY <4>4, <5>1 DEF Users
        <5> QED BY <2>1, <4>1, <4>4, <5>2
      <4> QED BY <4>2, <4>3, <4>4
    <3> QED BY <3>1, <3>2
  <2>4. \A q \in Proc : pc'[q] = "o_count" => via'[q] = "open"
    BY <1>1, <2>1 DEF SemInv, KeepInv
  <2> QED BY <2>2, <2>3, <2>4 DEF KeepInv
<1> QED BY <1>1, <1>2, <1>3, <1>4 DEF SemInv
\* What semop leaves in the members and promises to take back.
LEMMA SemopAdds ==
  ASSUME SemInv, NEW p \in Proc, NEW a \in Int, NEW b \in Int, NEW c \in Int,
         semop(p, By(a, b, c))
  PROVE  /\ val' \in [0..2 -> Nat] /\ adj' \in [Proc -> [0..2 -> Int]]
         /\ val'[0] = val[0] + a /\ val'[1] = val[1] + b /\ val'[2] = val[2] + c
         /\ val[0] + a >= 0 /\ val[1] + b >= 0 /\ val[2] + c >= 0
         /\ adj'[p][0] = adj[p][0] - a /\ adj'[p][1] = adj[p][1] - b
         /\ adj'[p][2] = adj[p][2] - c
         /\ \A q \in Proc : q # p => adj'[q] = adj[q]
<1>1. /\ val \in [0..2 -> Nat] /\ adj \in [Proc -> [0..2 -> Int]] /\ adj[p] \in [0..2 -> Int]
  BY DEF SemInv, SemTypes
<1>2. PICK d : d = By(a, b, c)
  OBVIOUS
<1>3. d \in [0..2 -> Int] /\ d[0] = a /\ d[1] = b /\ d[2] = c
  <2>1. \A k \in 0..2 : <<a, b, c>>[k + 1] \in Int
    OBVIOUS
  <2> QED BY <1>2, <2>1 DEF By
<1>4. /\ \A k \in 0..2 : val[k] + d[k] >= 0
      /\ val' = [k \in 0..2 |-> val[k] + d[k]]
      /\ adj' = [adj EXCEPT ![p] = [k \in 0..2 |-> adj[p][k] - d[k]]]
  BY <1>2 DEF semop
<1>5. val' \in [0..2 -> Nat]
  BY <1>1, <1>3, <1>4
<1>6. PICK f : f = [k \in 0..2 |-> adj[p][k] - d[k]]
  OBVIOUS
<1>7. f \in [0..2 -> Int]
  BY <1>1, <1>3, <1>6
<1>8. /\ adj' \in [Proc -> [0..2 -> Int]] /\ adj'[p] = f
      /\ \A q \in Proc : q # p => adj'[q] = adj[q]
  BY <1>1, <1>4, <1>6, <1>7
<1> QED BY <1>1, <1>3, <1>4, <1>5, <1>6, <1>8

\* SETVAL before anybody uses the set takes nothing from what exit takes back.
LEMMA SetValSets ==
  ASSUME SemSizes, SemInv, val[1] = 0, NEW k \in {0, 1}, NEW v \in Nat, SetVal(k, v)
  PROVE  /\ val' \in [0..2 -> Nat] /\ adj' = adj /\ val'[k] = v
         /\ \A j \in 0..2 : j # k => val'[j] = val[j]
<1>1. /\ val \in [0..2 -> Nat] /\ adj \in [Proc -> [0..2 -> Int]]
      /\ val' = [val EXCEPT ![k] = v] /\ adj' = [q \in Proc |-> [adj[q] EXCEPT ![k] = 0]]
  BY DEF SemInv, SemTypes, SetVal
<1>2. \A q \in Proc : adj[q][k] = 0
  BY NoUsers DEF SemInv, UndoInv
<1>3. ASSUME NEW q \in Proc PROVE [adj[q] EXCEPT ![k] = 0] = adj[q]
  <2>1. adj[q] \in [0..2 -> Int] /\ adj[q][k] = 0
    BY <1>1, <1>2
  <2> QED BY <2>1
<1>4. adj' = adj
  BY <1>1, <1>3
<1> QED BY <1>1, <1>4

\* A process that does not use the semaphore goes on, or ends with an error:
\* nothing else changes.
LEMMA IdleKeeps ==
  ASSUME SemSizes, SemInv, NEW p \in Proc, NEW l \in SemPC, Goto(p, l),
         UNCHANGED <<gen, gens, val, adj, id, via>>, pc[p] \notin {"out", "dead"},
         Exists(p) => pc[p] \notin {"open", "in"} /\ l \notin {"open", "in"},
         pc[p] \in Locked <=> l \in Locked, l # "c_set1", pc[p] # "c_set1",
         l = "x_rm" => Users = {}, l \notin {"open", "in", "o_count"}
  PROVE  SemInv'
<1>1. val' = val /\ adj' = adj /\ SemTypes
  BY DEF SemInv
<1>2. /\ Users' = Users /\ Inside' = Inside
      /\ \A q \in Proc : pc'[q] = "c_set1" <=> pc[q] = "c_set1"
  <2>1. /\ \A q \in Proc : q # p => pc'[q] = pc[q]
        /\ pc'[p] = l
        /\ Users' = IF Exists(p) /\ l \in {"open", "in"} THEN Users \union {p} ELSE Users \ {p}
        /\ Inside' = IF Exists(p) /\ l = "in" THEN Inside \union {p} ELSE Inside \ {p}
    BY Moves
  <2>2. p \notin Users /\ p \notin Inside
    BY DEF Users, Inside
  <2> QED BY <2>1, <2>2
<1>3. CountInv'
  BY <1>1, <1>2 DEF SemInv, CountInv
<1>4. /\ adj[p][0] = 0 /\ adj[p][1] = 0
      /\ adj[p][2] = IF Exists(p) /\ l \in Locked THEN -1 ELSE 0
  BY DEF SemInv, UndoInv, Users, Inside, Holds
<1>5. l \in Locked => Exists(p) /\ val[2] = 1
  BY DEF SemInv, LockInv
<1>6. pc[p] \notin Locked => l \notin Locked
  OBVIOUS
<1>7. val'[2] = IF l \in Locked THEN 1 ELSE IF pc[p] \in Locked THEN 0 ELSE val[2]
  BY <1>1, <1>5
<1> QED BY <1>1, <1>3, <1>4, <1>5, <1>7, MoveKeeps DEF SemTypes
-----------------------------------------------------------------------------
(***************************************************************************)
(* One lemma per operation of lib/semaph.c.                                *)
(***************************************************************************)
\* Nothing is made and nobody has called.
LEMMA SemInitial == SemSizes /\ SemInit => SemInv
<1> SUFFICES ASSUME SemSizes, SemInit PROVE SemInv
  OBVIOUS
<1>1. /\ gen = 0 /\ gens = 0 /\ val = Zero /\ adj = [p \in Proc |-> Zero]
      /\ pc = [p \in Proc |-> "out"] /\ id = [p \in Proc |-> 0]
      /\ via = [p \in Proc |-> "none"]
  BY DEF SemInit
<1>2. Zero \in [0..2 -> Nat] /\ Zero \in [0..2 -> Int] /\ \A k \in 0..2 : Zero[k] = 0
  BY DEF Zero
<1>3. Users = {} /\ Inside = {}
  BY <1>1 DEF Users, Inside
<1>4. "out" \in SemPC /\ "out" \notin Locked
  BY DEF SemPC, Locked
<1>5. SemTypes
  BY <1>1, <1>2, <1>4 DEF SemTypes
<1>6. UndoInv /\ LockInv
  BY <1>1, <1>2, <1>3, <1>4 DEF UndoInv, LockInv, Holds
<1>7. CountInv /\ KeepInv
  BY <1>1, <1>2, <1>3 DEF CountInv, KeepInv, CreatorKeeps
<1> QED BY <1>5, <1>6, <1>7 DEF SemInv

\* The lock of sem_create.
LEMMA CreateLockKeeps ==
  ASSUME SemSizes, SemInv, NEW p \in Proc, CreateLock(p) PROVE SemInv'
<1>1. /\ pc[p] \in {"c_lock", "c_sleep"} /\ pc[p] \notin Locked
      /\ "c_val" \in Locked /\ "c_val" \in SemPC /\ "c_sleep" \in SemPC /\ "again" \in SemPC
      /\ "dead" \in SemPC /\ {"c_sleep", "again", "dead"} \cap Locked = {}
  BY DEF CreateLock, Locked, SemPC
<1>2. CASE /\ Exists(p) /\ val[2] = 0 /\ semop(p, op_lock) /\ Goto(p, "c_val")
           /\ UNCHANGED <<gen, gens, id, via, opens>>
  <2>1. /\ val' \in [0..2 -> Nat] /\ adj' \in [Proc -> [0..2 -> Int]]
        /\ val'[0] = val[0] + 0 /\ val'[1] = val[1] + 0 /\ val'[2] = val[2] + 1
        /\ adj'[p][0] = adj[p][0] - 0 /\ adj'[p][1] = adj[p][1] - 0
        /\ adj'[p][2] = adj[p][2] - 1
        /\ \A q \in Proc : q # p => adj'[q] = adj[q]
    BY <1>2, SemopAdds DEF op_lock
  <2>2. val[0] \in Nat /\ val[1] \in Nat
    BY DEF SemInv, SemTypes
  <2>3. adj[p][0] = 0 /\ adj[p][1] = 0 /\ adj[p][2] = 0
    BY <1>1 DEF SemInv, UndoInv, Users, Inside, Holds
  <2>4. /\ \A q \in Proc : q # p => pc'[q] = pc[q]
        /\ pc'[p] = "c_val" /\ Users' = Users \ {p} /\ Inside' = Inside \ {p}
    BY <1>1, <1>2, Moves
  <2>5. Users' = Users /\ Inside' = Inside
    BY <1>1, <2>4 DEF Users, Inside
  <2>6. \A q \in Proc : pc'[q] = "c_set1" <=> pc[q] = "c_set1"
    BY <1>1, <2>4
  <2>7. val'[0] = val[0] /\ val'[1] = val[1]
    BY <2>1, <2>2
  <2>8. CountInv'
    BY <2>5, <2>6, <2>7 DEF SemInv, CountInv
  <2> QED BY <1>1, <1>2, <2>1, <2>3, <2>8, MoveKeeps
<1>3. ASSUME NEW l \in {"c_sleep", "again", "dead"}, Goto(p, l),
             UNCHANGED <<gen, gens, val, adj, id, via, opens>>
      PROVE  SemInv'
  BY <1>1, <1>3, IdleKeeps
<1> QED BY <1>1, <1>2, <1>3 DEF CreateLock, Fails

\* Whoever holds the lock of a set with an empty counter sets the value,
LEMMA CreateSet0Keeps ==
  ASSUME SemSizes, SemInv, NEW p \in Proc, CreateSet0(p) PROVE SemInv'
<1>1. /\ pc[p] = "c_val" /\ {"c_val", "c_set1", "c_end"} \subseteq Locked
      /\ {"c_val", "c_set1", "c_end"} \subseteq SemPC /\ Exists(p)
      /\ UNCHANGED <<gen, gens, id, via>>
  BY DEF CreateSet0, Locked, SemPC, SemInv, LockInv
<1>2. CASE val[1] = 0
  <2>1. SetVal(0, initval) /\ Goto(p, "c_set1")
    BY <1>2 DEF CreateSet0
  <2>2. /\ val' \in [0..2 -> Nat] /\ adj' = adj /\ val'[0] = initval
        /\ val'[1] = val[1] /\ val'[2] = val[2]
    BY <1>2, <2>1, SetValSets DEF SemSizes
  <2>3. /\ pc'[p] = "c_set1" /\ Users' = Users \ {p} /\ Inside' = Inside \ {p}
    BY <1>1, <2>1, Moves
  <2>4. Users = {} /\ Inside = {} /\ Cardinality(Inside) = 0
    BY <1>2, NoUsers
  <2>5. Users' = {} /\ Inside' = {} /\ Cardinality(Inside') = 0
    BY <2>3, <2>4
  <2>6. CountInv'
    BY <1>2, <2>2, <2>5 DEF CountInv, SemSizes
  <2>7. adj[p][0] = 0 /\ adj[p][1] = 0 /\ adj[p][2] = -1 /\ val[2] = 1
    BY <1>1, <2>4 DEF SemInv, UndoInv, Holds, LockInv
  <2>8. adj \in [Proc -> [0..2 -> Int]]
    BY DEF SemInv, SemTypes
  <2> QED BY <1>1, <2>1, <2>2, <2>6, <2>7, <2>8, MoveKeeps
<1>3. CASE val[1] # 0
  BY <1>1, <1>3, IdleKeeps DEF CreateSet0
<1> QED BY <1>2, <1>3

\* then the counter.
LEMMA CreateSet1Keeps ==
  ASSUME SemSizes, SemInv, NEW p \in Proc, CreateSet1(p) PROVE SemInv'
<1>1. /\ pc[p] = "c_set1" /\ {"c_set1", "c_end"} \subseteq Locked
      /\ {"c_set1", "c_end"} \subseteq SemPC /\ Exists(p)
      /\ SetVal(1, BIGCOUNT) /\ Goto(p, "c_end") /\ UNCHANGED <<gen, gens, id, via>>
  BY DEF CreateSet1, Locked, SemPC, SemInv, LockInv
<1>2. val[1] = 0 /\ val[0] = initval - Cardinality(Inside)
  BY <1>1 DEF SemInv, CountInv
<1>3. /\ val' \in [0..2 -> Nat] /\ adj' = adj /\ val'[1] = BIGCOUNT
      /\ val'[0] = val[0] /\ val'[2] = val[2]
  BY <1>1, <1>2, SetValSets DEF SemSizes
<1>4. Users = {} /\ Inside = {} /\ Cardinality(Inside) = 0 /\ Cardinality(Users) = 0
  BY <1>2, NoUsers
<1>5. /\ \A q \in Proc : q # p => pc'[q] = pc[q]
      /\ pc'[p] = "c_end" /\ Users' = Users \ {p} /\ Inside' = Inside \ {p}
  BY <1>1, Moves
<1>6. Users' = Users /\ Inside' = Inside
  BY <1>4, <1>5
<1>7. \A q \in Proc : pc'[q] # "c_set1"
  BY <1>1, <1>5 DEF SemInv, LockInv
<1>8. CountInv'
  BY <1>2, <1>3, <1>4, <1>6, <1>7 DEF CountInv, SemSizes
<1>9. adj[p][0] = 0 /\ adj[p][1] = 0 /\ adj[p][2] = -1 /\ val[2] = 1
  BY <1>1, <1>4 DEF SemInv, UndoInv, Holds, LockInv
<1>10. adj \in [Proc -> [0..2 -> Int]]
  BY DEF SemInv, SemTypes
<1> QED BY <1>1, <1>3, <1>8, <1>9, <1>10, MoveKeeps
\* Every use of the semaphore changes the counter by one.
LEMMA UseCount ==
  ASSUME SemSizes, SemInv, NEW p \in Proc, NEW l \in SemPC, Goto(p, l), Exists(p),
         UNCHANGED <<gen, gens, id, via>>, pc[p] \notin {"out", "dead", "c_set1"},
         l # "c_set1", val' \in [0..2 -> Nat],
         val'[0] = val[0] + (IF pc[p] = "in" THEN 1 ELSE 0) - (IF l = "in" THEN 1 ELSE 0),
         val'[1] = val[1] + (IF pc[p] \in {"open", "in"} THEN 1 ELSE 0)
                          - (IF l \in {"open", "in"} THEN 1 ELSE 0)
  PROVE  CountInv'
<1>1. /\ \A q \in Proc : q # p => pc'[q] = pc[q]
      /\ pc'[p] = l
      /\ Users' = IF l \in {"open", "in"} THEN Users \union {p} ELSE Users \ {p}
      /\ Inside' = IF l = "in" THEN Inside \union {p} ELSE Inside \ {p}
  BY Moves
<1>2. /\ p \in Users <=> pc[p] \in {"open", "in"}
      /\ p \in Inside <=> pc[p] = "in"
      /\ Users \in SUBSET Proc /\ Inside \in SUBSET Proc
  BY DEF Users, Inside
<1>3. PICK u, v, m, n : /\ u = Cardinality(Users) /\ v = Cardinality(Users')
                        /\ m = Cardinality(Inside) /\ n = Cardinality(Inside')
  OBVIOUS
<1>4. /\ u \in Nat /\ u < BIGCOUNT /\ m \in Nat
      /\ p \notin Users => Cardinality(Users \union {p}) = u + 1 /\ Users \ {p} = Users
      /\ p \in Users => Cardinality(Users \ {p}) = u - 1 /\ Users \union {p} = Users
      /\ p \notin Inside => Cardinality(Inside \union {p}) = m + 1 /\ Inside \ {p} = Inside
      /\ p \in Inside => Cardinality(Inside \ {p}) = m - 1 /\ Inside \union {p} = Inside
  BY <1>2, <1>3, ProcCount
<1>5. /\ v = u - (IF pc[p] \in {"open", "in"} THEN 1 ELSE 0)
               + (IF l \in {"open", "in"} THEN 1 ELSE 0)
      /\ n = m - (IF pc[p] = "in" THEN 1 ELSE 0) + (IF l = "in" THEN 1 ELSE 0)
  <2>1. v = u - (IF pc[p] \in {"open", "in"} THEN 1 ELSE 0)
              + (IF l \in {"open", "in"} THEN 1 ELSE 0)
    <3>1. CASE pc[p] \in {"open", "in"} /\ l \in {"open", "in"}
      <4>1. Users' = Users
        BY <1>1, <1>2, <1>4, <3>1
      <4> QED BY <1>3, <1>4, <3>1, <4>1
    <3>2. CASE pc[p] \in {"open", "in"} /\ l \notin {"open", "in"}
      BY <1>1, <1>2, <1>3, <1>4, <3>2
    <3>3. CASE pc[p] \notin {"open", "in"} /\ l \in {"open", "in"}
      BY <1>1, <1>2, <1>3, <1>4, <3>3
    <3>4. CASE pc[p] \notin {"open", "in"} /\ l \notin {"open", "in"}
      <4>1. Users' = Users
        BY <1>1, <1>2, <1>4, <3>4
      <4> QED BY <1>3, <1>4, <3>4, <4>1
    <3> QED BY <3>1, <3>2, <3>3, <3>4
  <2>2. n = m - (IF pc[p] = "in" THEN 1 ELSE 0) + (IF l = "in" THEN 1 ELSE 0)
    <3>1. CASE pc[p] = "in" /\ l = "in"
      <4>1. Inside' = Inside
        BY <1>1, <1>2, <1>4, <3>1
      <4> QED BY <1>3, <1>4, <3>1, <4>1
    <3>2. CASE pc[p] = "in" /\ l # "in"
      <4>1. Inside' = Inside \ {p}
        BY <1>1, <3>2
      <4>2. n = m - 1
        BY <1>2, <1>3, <1>4, <3>2, <4>1
      <4> QED BY <1>4, <3>2, <4>2
    <3>3. CASE pc[p] # "in" /\ l = "in"
      <4>1. Inside' = Inside \union {p}
        BY <1>1, <3>3
      <4>2. n = m + 1
        BY <1>2, <1>3, <1>4, <3>3, <4>1
      <4> QED BY <1>4, <3>3, <4>2
    <3>4. CASE pc[p] # "in" /\ l # "in"
      <4>1. Inside' = Inside
        BY <1>1, <1>2, <1>4, <3>4
      <4> QED BY <1>3, <1>4, <3>4, <4>1
    <3> QED BY <3>1, <3>2, <3>3, <3>4
  <2> QED BY <2>1, <2>2
<1>6. \A q \in Proc : pc'[q] = "c_set1" <=> pc[q] = "c_set1"
  BY <1>1
<1>7. val[0] \in Nat /\ val[1] \in Nat /\ val'[0] \in Nat /\ val'[1] \in Nat
      /\ initval \in Nat /\ BIGCOUNT \in Nat
  BY DEF SemInv, SemTypes, SemSizes
<1>8. CASE val[1] # 0
  <2>1. val[1] = BIGCOUNT - u /\ val[0] = initval - m
    BY <1>3, <1>8 DEF SemInv, CountInv
  <2>2. val'[1] = BIGCOUNT - v /\ val'[0] = initval - n
    BY <1>4, <1>5, <1>7, <2>1
  <2>3. \A q \in Proc : pc'[q] # "c_set1"
    BY <1>6, <1>8 DEF SemInv, CountInv
  <2> QED BY <1>3, <2>2, <2>3 DEF CountInv
<1>9. CASE val[1] = 0
  <2>1. Users = {} /\ Inside = {} /\ Cardinality(Inside) = 0
    BY <1>9, NoUsers
  <2>2. pc[p] \notin {"open", "in"} /\ l \notin {"open", "in"}
    BY <1>2, <1>7, <1>9, <2>1
  <2>3. Users' = Users /\ Inside' = Inside /\ val'[0] = val[0] /\ val'[1] = val[1]
    BY <1>1, <1>7, <2>1, <2>2
  <2> QED BY <1>6, <2>3 DEF SemInv, CountInv
<1> QED BY <1>8, <1>9

\* The end of sem_create: counted, and the lock released, in one semop.
LEMMA EndCreateKeeps ==
  ASSUME SemSizes, SemInv, NEW p \in Proc, EndCreate(p) PROVE SemInv'
<1>1. /\ pc[p] = "c_end" /\ "c_end" \in Locked /\ "open" \in SemPC /\ "open" \notin Locked
      /\ Exists(p) /\ semop(p, By(0, -1, -1)) /\ Goto(p, "open")
      /\ UNCHANGED <<gen, gens, id, via>>
  BY DEF EndCreate, op_endcreate, Locked, SemPC, SemInv, LockInv
<1>2. /\ val' \in [0..2 -> Nat] /\ adj' \in [Proc -> [0..2 -> Int]]
      /\ val'[0] = val[0] + 0 /\ val'[1] = val[1] + (-1) /\ val'[2] = val[2] + (-1)
      /\ adj'[p][0] = adj[p][0] - 0 /\ adj'[p][1] = adj[p][1] - (-1)
      /\ adj'[p][2] = adj[p][2] - (-1)
      /\ \A q \in Proc : q # p => adj'[q] = adj[q]
  <2>1. PICK a \in Int, b \in Int, c \in Int : a = 0 /\ b = -1 /\ c = -1
    OBVIOUS
  <2>2. semop(p, By(a, b, c))
    BY <1>1, <2>1
  <2>3. /\ val' \in [0..2 -> Nat] /\ adj' \in [Proc -> [0..2 -> Int]]
        /\ val'[0] = val[0] + a /\ val'[1] = val[1] + b /\ val'[2] = val[2] + c
        /\ val[0] + a >= 0 /\ val[1] + b >= 0 /\ val[2] + c >= 0
        /\ adj'[p][0] = adj[p][0] - a /\ adj'[p][1] = adj[p][1] - b
        /\ adj'[p][2] = adj[p][2] - c
        /\ \A q \in Proc : q # p => adj'[q] = adj[q]
    BY <2>2, SemopAdds
  <2> QED BY <2>1, <2>3
<1>3. val[0] \in Nat /\ val[1] \in Nat /\ val[2] = 1
  BY <1>1 DEF SemInv, SemTypes, LockInv
<1>4. adj[p][0] = 0 /\ adj[p][1] = 0 /\ adj[p][2] = -1
  BY <1>1 DEF SemInv, UndoInv, Users, Inside, Holds
<1>5. CountInv'
  BY <1>1, <1>2, <1>3, UseCount
<1> QED BY <1>1, <1>2, <1>3, <1>4, <1>5, MoveKeeps

\* sem_open: counted without the lock.
LEMMA OpenCountKeeps ==
  ASSUME SemSizes, SemInv, NEW p \in Proc, OpenCount(p) PROVE SemInv'
<1>1. /\ pc[p] = "o_count" /\ "o_count" \notin Locked /\ {"open", "dead"} \subseteq SemPC
      /\ "open" \notin Locked /\ "dead" \notin Locked /\ via[p] = "open"
  BY DEF OpenCount, Locked, SemPC, SemInv, KeepInv
<1>2. CASE Exists(p)
  <2>1. /\ semop(p, By(0, -1, 0)) /\ Goto(p, "open") /\ UNCHANGED <<gen, gens, id, via>>
    BY <1>2 DEF OpenCount, op_open
  <2>2. /\ val' \in [0..2 -> Nat] /\ adj' \in [Proc -> [0..2 -> Int]]
        /\ val'[0] = val[0] + 0 /\ val'[1] = val[1] + (-1) /\ val'[2] = val[2] + 0
        /\ adj'[p][0] = adj[p][0] - 0 /\ adj'[p][1] = adj[p][1] - (-1)
        /\ adj'[p][2] = adj[p][2] - 0
        /\ \A q \in Proc : q # p => adj'[q] = adj[q]
    BY <2>1, SemopAdds
  <2>3. val[0] \in Nat /\ val[1] \in Nat /\ val[2] \in Nat
    BY DEF SemInv, SemTypes
  <2>4. adj[p][0] = 0 /\ adj[p][1] = 0 /\ adj[p][2] = 0
    BY <1>1 DEF SemInv, UndoInv, Users, Inside, Holds
  <2>5. CountInv'
    BY <1>1, <1>2, <2>1, <2>2, <2>3, UseCount
  <2> QED BY <1>1, <1>2, <2>1, <2>2, <2>3, <2>4, <2>5, MoveKeeps
<1>3. CASE ~Exists(p)
  BY <1>1, <1>3, IdleKeeps DEF OpenCount, Fails
<1> QED BY <1>2, <1>3

\* The lock of sem_close, with the counter in one semop.
LEMMA CloseLockKeeps ==
  ASSUME SemSizes, SemInv, NEW p \in Proc, CloseLock(p) PROVE SemInv'
<1>1. /\ pc[p] = "open" /\ "open" \notin Locked /\ {"x_val", "dead"} \subseteq SemPC
      /\ "x_val" \in Locked /\ "dead" \notin Locked
  BY DEF CloseLock, Locked, SemPC
<1>2. CASE Exists(p)
  <2>1. /\ semop(p, By(0, 1, 1)) /\ Goto(p, "x_val") /\ UNCHANGED <<gen, gens, id, via>>
        /\ val[2] = 0
    BY <1>2 DEF CloseLock, op_close
  <2>2. /\ val' \in [0..2 -> Nat] /\ adj' \in [Proc -> [0..2 -> Int]]
        /\ val'[0] = val[0] + 0 /\ val'[1] = val[1] + 1 /\ val'[2] = val[2] + 1
        /\ adj'[p][0] = adj[p][0] - 0 /\ adj'[p][1] = adj[p][1] - 1
        /\ adj'[p][2] = adj[p][2] - 1
        /\ \A q \in Proc : q # p => adj'[q] = adj[q]
    BY <2>1, SemopAdds
  <2>3. val[0] \in Nat /\ val[1] \in Nat
    BY DEF SemInv, SemTypes
  <2>4. adj[p][0] = 0 /\ adj[p][1] = 1 /\ adj[p][2] = 0
    BY <1>1, <1>2 DEF SemInv, UndoInv, Users, Inside, Holds
  <2>5. CountInv'
    BY <1>1, <1>2, <2>1, <2>2, <2>3, UseCount
  <2> QED BY <1>1, <1>2, <2>1, <2>2, <2>4, <2>5, MoveKeeps
<1>3. CASE ~Exists(p)
  BY <1>1, <1>3, IdleKeeps DEF CloseLock, Fails
<1> QED BY <1>2, <1>3
\* sem_close looks at the counter: the last one goes on to remove the set.
LEMMA CloseValKeeps ==
  ASSUME SemSizes, SemInv, NEW p \in Proc, CloseVal(p) PROVE SemInv'
<1>1. PICK l : l = IF val[1] > BIGCOUNT THEN "dead"
                   ELSE IF val[1] = BIGCOUNT THEN "x_rm" ELSE "x_unlock"
  OBVIOUS
<1>2. /\ pc[p] = "x_val" /\ Goto(p, l) /\ UNCHANGED <<gen, gens, val, adj, id, via>>
      /\ {"x_val", "x_rm", "x_unlock"} \subseteq Locked /\ "x_rm" \in SemPC
      /\ "x_unlock" \in SemPC
  BY <1>1 DEF CloseVal, Locked, SemPC
<1>3. Users \in SUBSET Proc
  BY DEF Users
<1>4. Cardinality(Users) \in Nat /\ val[1] \in Nat /\ BIGCOUNT \in Nat
  <2>1. Cardinality(Users) \in Nat
    BY <1>3, ProcCount
  <2> QED BY <2>1 DEF SemInv, SemTypes, SemSizes
<1>5. ~(val[1] > BIGCOUNT) /\ (val[1] = BIGCOUNT => Cardinality(Users) = 0 \/ Users = {})
  BY <1>4 DEF SemInv, CountInv
<1>6. val[1] = BIGCOUNT => Users = {}
  <2>1. IsFiniteSet(Users)
    BY <1>3, FS_Subset DEF SemSizes
  <2> QED BY <1>5, <2>1, FS_EmptySet
<1> QED BY <1>1, <1>2, <1>5, <1>6, IdleKeeps

\* The end of sem_close.
LEMMA CloseUnlockKeeps ==
  ASSUME SemSizes, SemInv, NEW p \in Proc, CloseUnlock(p) PROVE SemInv'
<1>1. /\ pc[p] = "x_unlock" /\ "x_unlock" \in Locked /\ "out" \in SemPC /\ "out" \notin Locked
      /\ Exists(p) /\ semop(p, By(0, 0, -1)) /\ Goto(p, "out")
      /\ UNCHANGED <<gen, gens, id, via>>
  BY DEF CloseUnlock, op_unlock, Locked, SemPC, SemInv, LockInv
<1>2. /\ val' \in [0..2 -> Nat] /\ adj' \in [Proc -> [0..2 -> Int]]
      /\ val'[0] = val[0] + 0 /\ val'[1] = val[1] + 0 /\ val'[2] = val[2] + (-1)
      /\ adj'[p][0] = adj[p][0] - 0 /\ adj'[p][1] = adj[p][1] - 0
      /\ adj'[p][2] = adj[p][2] - (-1)
      /\ \A q \in Proc : q # p => adj'[q] = adj[q]
  BY <1>1, SemopAdds
<1>3. val[0] \in Nat /\ val[1] \in Nat /\ val[2] = 1
  BY <1>1 DEF SemInv, SemTypes, LockInv
<1>4. adj[p][0] = 0 /\ adj[p][1] = 0 /\ adj[p][2] = -1
  BY <1>1 DEF SemInv, UndoInv, Users, Inside, Holds
<1>5. CountInv'
  BY <1>1, <1>2, <1>3, UseCount
<1> QED BY <1>1, <1>2, <1>3, <1>4, <1>5, MoveKeeps

\* sem_wait and sem_signal.
LEMMA SemOpKeeps ==
  ASSUME SemSizes, SemInv, NEW p \in Proc, sem_wait(p) \/ sem_signal(p) PROVE SemInv'
<1>0. /\ {"open", "in", "dead"} \subseteq SemPC /\ {"open", "in", "dead"} \cap Locked = {}
      /\ 0 \in Int /\ 1 \in Int /\ -1 \in Int /\ -1 < 0 /\ ~(1 < 0)
  BY DEF SemPC, Locked
<1>1. CASE ~Exists(p)
  <2>1. Fails(p) /\ pc[p] \in {"open", "in"}
    BY <1>1 DEF sem_wait, sem_signal, sem_op
  <2> QED BY <1>0, <1>1, <2>1, IdleKeeps DEF Fails
<1>2. ASSUME Exists(p), NEW l \in {"open", "in"}, NEW m \in {"open", "in"}, NEW d \in Int,
             pc[p] = m, semop(p, By(d, 0, 0)), Goto(p, l), UNCHANGED <<gen, gens, id, via>>,
             d = (IF m = "in" THEN 1 ELSE 0) - (IF l = "in" THEN 1 ELSE 0)
      PROVE  SemInv'
  <2>1. /\ val' \in [0..2 -> Nat] /\ adj' \in [Proc -> [0..2 -> Int]]
        /\ val'[0] = val[0] + d /\ val'[1] = val[1] + 0 /\ val'[2] = val[2] + 0
        /\ adj'[p][0] = adj[p][0] - d /\ adj'[p][1] = adj[p][1] - 0
        /\ adj'[p][2] = adj[p][2] - 0
        /\ \A q \in Proc : q # p => adj'[q] = adj[q]
    BY <1>0, <1>2, SemopAdds
  <2>2. val[0] \in Nat /\ val[1] \in Nat /\ val[2] \in Nat
    BY DEF SemInv, SemTypes
  <2>3. adj[p][0] = (IF m = "in" THEN 1 ELSE 0) /\ adj[p][1] = 1 /\ adj[p][2] = 0
    BY <1>0, <1>2 DEF SemInv, UndoInv, Users, Inside, Holds
  <2>4. CountInv'
    BY <1>0, <1>2, <2>1, <2>2, UseCount
  <2> QED BY <1>0, <1>2, <2>1, <2>2, <2>3, <2>4, MoveKeeps
<1>3. CASE Exists(p) /\ sem_wait(p)
  BY <1>0, <1>2, <1>3 DEF sem_wait, sem_op
<1>4. CASE Exists(p) /\ sem_signal(p)
  BY <1>0, <1>2, <1>4 DEF sem_signal, sem_op
<1> QED BY <1>1, <1>3, <1>4
\* A process exits, and the system takes back what it did.
LEMMA ExitKeeps ==
  ASSUME SemSizes, SemInv, NEW p \in Proc, Exit(p) PROVE SemInv'
<1>1. /\ pc[p] \notin {"out", "dead"} /\ Goto(p, "dead") /\ UNCHANGED <<gen, gens, id, via>>
      /\ "dead" \in SemPC /\ "dead" \notin Locked
      /\ val' = IF Exists(p) THEN [k \in 0..2 |-> Larger(0, val[k] + adj[p][k])] ELSE val
      /\ adj' = [adj EXCEPT ![p] = Zero]
  BY DEF Exit, SemPC, Locked
<1>2. /\ val \in [0..2 -> Nat] /\ adj \in [Proc -> [0..2 -> Int]] /\ adj[p] \in [0..2 -> Int]
  BY DEF SemInv, SemTypes
<1>3. /\ adj' \in [Proc -> [0..2 -> Int]] /\ \A q \in Proc : q # p => adj'[q] = adj[q]
      /\ adj'[p][0] = 0 /\ adj'[p][1] = 0 /\ adj'[p][2] = 0
  BY <1>1, <1>2 DEF Zero
<1>4. /\ adj[p][0] = IF Exists(p) /\ pc[p] = "in" THEN 1 ELSE 0
      /\ adj[p][1] = IF Exists(p) /\ pc[p] \in {"open", "in"} THEN 1 ELSE 0
      /\ adj[p][2] = IF Exists(p) /\ pc[p] \in Locked THEN -1 ELSE 0
  BY DEF SemInv, UndoInv, Users, Inside, Holds
<1>5. val[2] = IF \E q \in Proc : pc[q] \in Locked THEN 1 ELSE 0
  BY DEF SemInv, LockInv
<1>6. pc[p] \in Locked => Exists(p) /\ val[2] = 1
  BY <1>5 DEF SemInv, LockInv
<1>7. CASE Exists(p)
  <2>1. /\ val' \in [0..2 -> Nat]
        /\ val'[0] = val[0] + adj[p][0] /\ val'[1] = val[1] + adj[p][1]
        /\ val'[2] = val[2] + adj[p][2]
    BY <1>1, <1>2, <1>4, <1>6, <1>7 DEF Larger
  <2>2. val'[2] = IF pc[p] \in Locked THEN 0 ELSE val[2]
    BY <1>2, <1>4, <1>6, <1>7, <2>1
  <2>3. CountInv'
    <3>1. CASE pc[p] # "c_set1"
      <4>1. /\ val'[0] = val[0] + (IF pc[p] = "in" THEN 1 ELSE 0)
            /\ val'[1] = val[1] + (IF pc[p] \in {"open", "in"} THEN 1 ELSE 0)
        BY <1>2, <1>4, <1>7, <2>1
      <4>2. /\ val'[0] \in Int /\ val'[1] \in Int
        BY <2>1
      <4>3. /\ val'[0] = val[0] + (IF pc[p] = "in" THEN 1 ELSE 0)
                                - (IF "dead" = "in" THEN 1 ELSE 0)
            /\ val'[1] = val[1] + (IF pc[p] \in {"open", "in"} THEN 1 ELSE 0)
                                - (IF "dead" \in {"open", "in"} THEN 1 ELSE 0)
        BY <1>2, <4>1, <4>2
      <4> QED BY <1>1, <1>7, <2>1, <3>1, <4>3, UseCount
    <3>2. CASE pc[p] = "c_set1"
      <4>1. val'[1] = 0
        BY <1>2, <1>4, <2>1, <3>2 DEF SemInv, CountInv
      <4>2. Users = {}
        BY <3>2, NoUsers DEF SemInv, CountInv
      <4>3. /\ Users' = Users \ {p} /\ pc'[p] = "dead"
            /\ \A q \in Proc : q # p => pc'[q] = pc[q]
        BY <1>1, Moves
      <4>4. \A q \in Proc : pc'[q] # "c_set1"
        BY <3>2, <4>3 DEF SemInv, LockInv, Locked
      <4> QED BY <4>1, <4>2, <4>3, <4>4 DEF CountInv
    <3> QED BY <3>1, <3>2
  <2> QED BY <1>1, <1>3, <2>1, <2>2, <2>3, MoveKeeps
<1>8. CASE ~Exists(p)
  <2>1. val' = val /\ pc[p] \notin Locked /\ pc[p] # "c_set1"
    BY <1>1, <1>6, <1>8 DEF Locked
  <2>2. adj' = adj
    <3>1. adj[p] = Zero
      BY <1>2, <1>4, <1>8 DEF Zero
    <3> QED BY <1>1, <1>2, <3>1
  <2> QED BY <1>1, <1>8, <2>1, <2>2, IdleKeeps
<1> QED BY <1>7, <1>8

\* The last sem_close removes the set: nobody has one any more.
LEMMA RemoveKeeps ==
  ASSUME SemSizes, SemInv, NEW p \in Proc, sem_rm(p) PROVE SemInv'
<1>1. /\ pc[p] = "x_rm" /\ pc' = [pc EXCEPT ![p] = "out"] /\ gen' = 0 /\ gens' = gens
      /\ adj' = [q \in Proc |-> Zero] /\ val' = Zero /\ id' = id /\ via' = via
      /\ "x_rm" \in Locked /\ "out" \in SemPC /\ "out" \notin Locked
  BY DEF sem_rm, Goto, Locked, SemPC
<1>2. /\ pc \in [Proc -> SemPC] /\ pc'[p] = "out" /\ \A q \in Proc : q # p => pc'[q] = pc[q]
      /\ pc' \in [Proc -> SemPC]
  BY <1>1 DEF SemInv, SemTypes
<1>3. Zero \in [0..2 -> Nat] /\ Zero \in [0..2 -> Int] /\ Zero[0] = 0 /\ Zero[1] = 0
      /\ Zero[2] = 0
  BY DEF Zero
<1>4. SemTypes'
  BY <1>1, <1>2, <1>3 DEF SemInv, SemTypes
<1>5. \A q \in Proc : pc'[q] \notin {"out", "dead"} => ~Exists(q)'
  BY <1>1, <1>2 DEF SemInv, SemTypes, Exists
<1>6. \A q \in Proc : pc'[q] \notin Locked
  BY <1>1, <1>2 DEF SemInv, LockInv
<1>7. Users' = {} /\ Inside' = {} /\ \A q \in Proc : ~Holds(q)'
  BY <1>5, <1>6 DEF Users, Inside, Holds
<1>8. UndoInv' /\ LockInv'
  BY <1>1, <1>3, <1>6, <1>7 DEF UndoInv, LockInv
<1>9. CountInv'
  <2>1. \A q \in Proc : pc'[q] # "c_set1"
    BY <1>6 DEF Locked
  <2> QED BY <1>1, <1>3, <1>7, <2>1 DEF CountInv
<1>10. CreatorKeeps'
  <2>1. ASSUME NEW q \in Proc, via'[q] = "create", pc'[q] \in {"open", "in"} PROVE FALSE
    <3>1. q # p /\ via[q] = "create" /\ pc[q] \in {"open", "in"}
      BY <1>1, <1>2, <2>1
    <3>2. q \in Users
      BY <3>1 DEF SemInv, KeepInv, CreatorKeeps, Users
    <3> QED BY <1>1, <3>1, <3>2 DEF SemInv, KeepInv
  <2> QED BY <2>1 DEF CreatorKeeps
<1>11. KeepInv'
  BY <1>1, <1>2, <1>7, <1>10 DEF SemInv, KeepInv
<1> QED BY <1>4, <1>8, <1>9, <1>11 DEF SemInv
\* semget by a process that has no set, or whose set is gone.
LEMMA GetKeeps ==
  ASSUME SemSizes, SemInv, NEW p \in Proc, pc[p] \in {"again", "out"}, adj' = adj,
         NEW l \in {"c_lock", "o_count"}, pc' = [pc EXCEPT ![p] = l],
         id' = [id EXCEPT ![p] = gen'], gen' # 0, NEW v \in {"create", "open"},
         via' = [via EXCEPT ![p] = v], l = "o_count" => v = "open",
         \/ gen # 0 /\ UNCHANGED <<gen, gens, val>>
         \/ gen = 0 /\ gens' = gens + 1 /\ gen' = gens + 1 /\ val' = Zero
  PROVE  SemInv'
<1>1. /\ pc \in [Proc -> SemPC] /\ id \in [Proc -> Nat] /\ gens \in Nat /\ gen \in {0, gens}
      /\ via \in [Proc -> {"none", "create", "open"}] /\ \A q \in Proc : id[q] <= gens
      /\ val \in [0..2 -> Nat] /\ l \in SemPC /\ l \notin Locked /\ pc[p] \notin Locked
  BY DEF SemInv, SemTypes, SemPC, Locked
<1>2. Zero \in [0..2 -> Nat] /\ Zero[0] = 0 /\ Zero[1] = 0 /\ Zero[2] = 0
  BY DEF Zero
<1>3. /\ pc'[p] = l /\ id'[p] = gen' /\ via'[p] = v
      /\ \A q \in Proc : q # p => pc'[q] = pc[q] /\ id'[q] = id[q] /\ via'[q] = via[q]
  BY <1>1
<1>4. /\ gens' \in Nat /\ gens <= gens' /\ gen' \in {0, gens'} /\ val' \in [0..2 -> Nat]
  BY <1>1, <1>2
<1>5. SemTypes'
  <2>1. /\ pc' \in [Proc -> SemPC] /\ id' \in [Proc -> Nat]
        /\ via' \in [Proc -> {"none", "create", "open"}]
    BY <1>1, <1>4
  <2>2. ASSUME NEW q \in Proc
        PROVE  id'[q] <= gens' /\ (pc'[q] \notin {"out", "dead"} => id'[q] # 0)
    BY <1>1, <1>3, <1>4 DEF SemInv, SemTypes
  <2>3. adj' \in [Proc -> [0..2 -> Int]]
    BY DEF SemInv, SemTypes
  <2> QED BY <1>4, <2>1, <2>2, <2>3 DEF SemTypes
<1>6. CASE gen # 0 /\ UNCHANGED <<gen, gens, val>>
  <2>1. \A q \in Proc : q # p => (Exists(q)' <=> Exists(q))
    BY <1>3, <1>6 DEF Exists
  <2>2. Users' = Users /\ Inside' = Inside /\ \A q \in Proc : Holds(q)' <=> Holds(q)
    BY <1>1, <1>3, <2>1 DEF Users, Inside, Holds
  <2>3. /\ \A q \in Proc : pc'[q] \in Locked <=> pc[q] \in Locked
        /\ \A q \in Proc : pc'[q] = "c_set1" <=> pc[q] = "c_set1"
        /\ \A q \in Proc : pc'[q] = "x_rm" <=> pc[q] = "x_rm"
    BY <1>1, <1>3
  <2>4. val' = val /\ adj' = adj
    BY <1>6
  <2>5. UndoInv'
    BY <2>2, <2>4 DEF SemInv, UndoInv
  <2>6. LockInv'
    BY <1>1, <2>1, <2>3, <2>4 DEF SemInv, LockInv
  <2>7. CountInv'
    BY <2>2, <2>3, <2>4 DEF SemInv, CountInv
  <2>8. KeepInv'
    <3>1. CreatorKeeps'
      BY <1>3, <2>1 DEF SemInv, KeepInv, CreatorKeeps
    <3>2. \A q \in Proc : pc'[q] = "o_count" => via'[q] = "open"
      BY <1>3 DEF SemInv, KeepInv
    <3>3. p \notin Users
      BY DEF Users
    <3>4. \A r, q \in Proc : pc'[r] = "x_rm" /\ q \in Users' => via'[q] # "create"
      BY <1>3, <2>2, <2>3, <3>3 DEF SemInv, KeepInv
    <3> QED BY <3>1, <3>2, <3>4 DEF KeepInv
  <2> QED BY <1>5, <2>5, <2>6, <2>7, <2>8 DEF SemInv
<1>7. CASE gen = 0 /\ gens' = gens + 1 /\ gen' = gens + 1 /\ val' = Zero
  <2>1. \A q \in Proc : pc[q] \notin {"out", "dead"} => ~Exists(q)
    BY <1>7 DEF SemInv, SemTypes, Exists
  <2>2. \A q \in Proc : q # p => ~Exists(q)'
    BY <1>1, <1>3, <1>7 DEF Exists
  <2>3. \A q \in Proc : pc[q] \notin Locked /\ pc'[q] \notin Locked
    BY <1>1, <1>3, <2>1 DEF SemInv, LockInv, Locked
  <2>4. /\ Users = {} /\ Inside = {} /\ \A q \in Proc : ~Holds(q)
    BY <2>1, <2>3 DEF Users, Inside, Holds
  <2>5. /\ Users' = {} /\ Inside' = {} /\ \A q \in Proc : ~Holds(q)'
    BY <1>3, <2>2, <2>3 DEF Users, Inside, Holds
  <2>6. UndoInv'
    BY <2>4, <2>5 DEF SemInv, UndoInv
  <2>7. LockInv'
    BY <1>2, <1>7, <2>3 DEF LockInv
  <2>8. \A q \in Proc : pc'[q] # "c_set1" /\ pc'[q] # "x_rm"
    BY <2>3 DEF Locked
  <2>9. CountInv'
    BY <1>2, <1>7, <2>5, <2>8 DEF CountInv
  <2>10. KeepInv'
    <3>1. \A q \in Proc : q # p /\ via[q] = "create" => pc[q] \notin {"open", "in"}
      BY <2>1 DEF SemInv, KeepInv, CreatorKeeps
    <3>2. CreatorKeeps'
      BY <1>3, <3>1 DEF CreatorKeeps
    <3>3. \A q \in Proc : pc'[q] = "o_count" => via'[q] = "open"
      BY <1>3 DEF SemInv, KeepInv
    <3> QED BY <2>8, <3>2, <3>3 DEF KeepInv
  <2> QED BY <1>5, <2>6, <2>7, <2>9, <2>10 DEF SemInv
<1> QED BY <1>6, <1>7

\* sem_create and sem_open look for the set.
LEMMA BothGetsKeep ==
  ASSUME SemSizes, SemInv, NEW p \in Proc, CreateGet(p) \/ OpenGet(p) PROVE SemInv'
<1>0. gens \in Nat
  BY DEF SemInv, SemTypes
<1>1. CASE CreateGet(p)
  <2>1. /\ pc[p] \in {"again", "out"} /\ adj' = adj /\ pc' = [pc EXCEPT ![p] = "c_lock"]
        /\ id' = [id EXCEPT ![p] = gen'] /\ via' = [via EXCEPT ![p] = "create"]
        /\ \/ gen # 0 /\ UNCHANGED <<gen, gens, val>>
           \/ gen = 0 /\ gens' = gens + 1 /\ gen' = gens + 1 /\ val' = Zero
    BY <1>1 DEF CreateGet, Goto
  <2>2. gen' # 0
    BY <1>0, <2>1
  <2> QED BY <2>1, <2>2, GetKeeps
<1>2. CASE OpenGet(p)
  <2>1. /\ pc[p] \in {"again", "out"} /\ adj' = adj /\ pc' = [pc EXCEPT ![p] = "o_count"]
        /\ id' = [id EXCEPT ![p] = gen'] /\ via' = [via EXCEPT ![p] = "open"]
        /\ gen # 0 /\ UNCHANGED <<gen, gens, val>> /\ gen' # 0
    BY <1>2 DEF OpenGet, Goto
  <2> QED BY <2>1, GetKeeps
<1> QED BY <1>1, <1>2

\* Every step keeps the invariant.
LEMMA SemStep ==
  ASSUME SemSizes, SemInv, [SemNext]_vars PROVE SemInv'
<1>1. CASE UNCHANGED vars
  <2>1. /\ gen' = gen /\ gens' = gens /\ val' = val /\ adj' = adj /\ pc' = pc /\ id' = id
        /\ via' = via
    BY <1>1 DEF vars
  <2> QED BY <2>1 DEF SemInv, SemTypes, UndoInv, LockInv, CountInv, KeepInv, CreatorKeeps,
              Users, Inside, Holds, Exists
<1>2. ASSUME NEW p \in Proc,
             \/ CreateGet(p) \/ CreateLock(p) \/ CreateSet0(p) \/ CreateSet1(p) \/ EndCreate(p)
             \/ OpenGet(p) \/ OpenCount(p)
             \/ CloseLock(p) \/ CloseVal(p) \/ sem_rm(p) \/ CloseUnlock(p)
             \/ sem_wait(p) \/ sem_signal(p) \/ Exit(p)
      PROVE  SemInv'
  BY <1>2, CreateLockKeeps, CreateSet0Keeps, CreateSet1Keeps, EndCreateKeeps, OpenCountKeeps,
     CloseLockKeeps, CloseValKeeps, RemoveKeeps, CloseUnlockKeeps, SemOpKeeps, ExitKeeps,
     BothGetsKeep
<1> QED BY <1>1, <1>2 DEF SemNext, SemEnded

\* The invariant of lib/semaph.c: lock, counter, value and what exit takes
\* back agree, whoever creates, opens, closes or exits, at whatever moment.
THEOREM SemaphInvariant == SemSizes => (SemSpec => []SemInv)
<1> SUFFICES ASSUME SemSizes PROVE SemSpec => []SemInv
  OBVIOUS
<1>1. SemInit => SemInv
  BY SemInitial
<1>2. SemInv /\ [SemNext]_vars => SemInv'
  BY SemStep
<1> QED BY <1>1, <1>2, PTL DEF SemSpec

\* What the invariant says of the semaphore as its users see it.
LEMMA SemaphPromises ==
  ASSUME SemSizes, SemInv
  PROVE  OneInside /\ LockHasHolder /\ CountsUsers /\ CreatorKeeps
<1>1. OneInside
  <2>1. Inside \in SUBSET Proc /\ Inside \subseteq Users
    BY DEF Inside, Users
  <2>2. val[0] \in Nat /\ initval \in Nat
    BY DEF SemInv, SemTypes, SemSizes
  <2>3. CASE val[1] = 0
    BY <2>2, <2>3, NoUsers DEF OneInside, Inside
  <2>4. CASE val[1] # 0
    <3>1. val[0] = initval - Cardinality(Inside)
      BY <2>4 DEF SemInv, CountInv
    <3>2. CASE Proc = {}
      <4>1. Inside = {}
        BY <2>1, <3>2
      <4> QED BY <2>2, <4>1, FS_EmptySet DEF OneInside, Inside
    <3>3. CASE Proc # {}
      <4>1. Cardinality(Inside) \in Nat
        BY <2>1, <3>3, ProcCount
      <4> QED BY <2>2, <3>1, <4>1 DEF OneInside, Inside
    <3> QED BY <3>2, <3>3
  <2> QED BY <2>3, <2>4
<1>2. LockHasHolder
  BY DEF SemInv, LockInv, LockHasHolder
<1>3. CountsUsers
  BY DEF SemInv, CountInv, CountsUsers, Users
<1>4. CreatorKeeps
  BY DEF SemInv, KeepInv
<1> QED BY <1>1, <1>2, <1>3, <1>4

\* For any number of processes below BIGCOUNT, any initial value and any
\* exits: no more processes are inside than the value allows; the lock of the
\* set is held by a process that is there to release it; the counter tells
\* how many processes use the semaphore; and the last sem_close does not
\* remove a semaphore that a process has opened with sem_create.
THEOREM SemaphTheorem ==
  SemSizes => (SemSpec => [](OneInside /\ LockHasHolder /\ CountsUsers /\ CreatorKeeps))
<1> SUFFICES ASSUME SemSizes
             PROVE  SemSpec => [](OneInside /\ LockHasHolder /\ CountsUsers /\ CreatorKeeps)
  OBVIOUS
<1>1. SemInv => OneInside /\ LockHasHolder /\ CountsUsers /\ CreatorKeeps
  BY SemaphPromises
<1>2. SemSpec => []SemInv
  BY SemaphInvariant
<1> QED BY <1>1, <1>2, PTL
-----------------------------------------------------------------------------
(***************************************************************************)
(* threads/condvar.c: only threads that process messages wait for one.     *)
(***************************************************************************)
MsgInv == waiting \subseteq Processor /\ MsgWakeup

\* A step of a thread.
LEMMA MsgStep == Processor # {} /\ MsgInv /\ [MsgNext]_msgvars => MsgInv'
<1> SUFFICES ASSUME Processor # {}, MsgInv, [MsgNext]_msgvars PROVE MsgInv'
  OBVIOUS
<1> USE DEF MsgInv, MsgWakeup
<1>1. ASSUME NEW m \in Msg, EnqueueMsg(m) PROVE MsgInv'
  BY <1>1 DEF EnqueueMsg
<1>2. ASSUME NEW m \in Msg, Signal(m) PROVE MsgInv'
  BY <1>2 DEF Signal
<1>3. ASSUME NEW p \in Processor, ProcessMsg(p) PROVE MsgInv'
  BY <1>3 DEF ProcessMsg
<1>4. ASSUME NEW p \in Processor, CondWait(p) PROVE MsgInv'
  BY <1>4 DEF CondWait
<1>5. ASSUME NEW p \in Processor, Spurious(p) PROVE MsgInv'
  BY <1>5 DEF Spurious
<1>6. CASE UNCHANGED msgvars
  BY <1>6 DEF msgvars
<1> QED BY <1>1, <1>2, <1>3, <1>4, <1>5, <1>6 DEF MsgNext

\* As long as a message is on the queue some thread is awake or a signal is
\* still to come, for any number of messages and threads, although
\* enqueue_msg signals after it has released the lock and pthread_cond_wait
\* may return without a signal.
THEOREM MsgTheorem == Processor # {} => (MsgSpec => []MsgWakeup)
<1> SUFFICES ASSUME Processor # {} PROVE MsgSpec => []MsgWakeup
  OBVIOUS
<1>1. MsgInit => MsgInv
  BY DEF MsgInit, MsgInv, MsgWakeup
<1>2. MsgInv /\ [MsgNext]_msgvars => MsgInv'
  BY MsgStep
<1>3. MsgInv => MsgWakeup
  BY DEF MsgInv
<1> QED BY <1>1, <1>2, <1>3, PTL DEF MsgSpec
-----------------------------------------------------------------------------
(***************************************************************************)
(* ipc1/slock.c.                                                           *)
(***************************************************************************)
CONSTANTS Thread, MaxSem, MaxLives
VARIABLES names, value, cnt, n, st, sp, inside, lives
Lock == INSTANCE SLock

SLockSpec == Lock!Init /\ [][Lock!Next]_(Lock!vars)

\* One unit of semaphore s, with values v and holders h: in the semaphore, or with a thread.
OneUnit(s, v, h) ==
  \/ v[s] = 1 /\ \A u \in Thread : <<u, s>> \notin h
  \/ v[s] = 0 /\ \E u \in Thread : \A w \in Thread : <<w, s>> \in h <=> w = u

\* A thread has a semaphore exactly while its lock is made; no two threads
\* have the same, and each semaphore has its unit.
SLockInv ==
  /\ value \in Seq({0, 1}) /\ sp \in [Thread -> 0..Len(value)]
  /\ st \in [Thread -> {"alloc", "count", "open", "unlink", "ready"}]
  /\ \A t \in Thread : sp[t] # 0 <=> st[t] \in {"unlink", "ready"}
  /\ \A x \in inside : \E u \in Thread, s \in 1..Len(value) : x = <<u, s>>
  /\ Lock!OwnSemaphore
  /\ \A t \in Thread : sp[t] # 0 => OneUnit(sp[t], value, inside)
\* Nothing is made yet.
LEMMA SLockInit == Lock!Init => SLockInv
BY DEF Lock!Init, Lock!Fresh, SLockInv, Lock!OwnSemaphore

\* A step that touches neither semaphores nor holders.
LEMMA SLockMoves ==
  ASSUME SLockInv, NEW t \in Thread, UNCHANGED <<value, sp, inside>>,
         NEW l \in {"alloc", "count", "open", "unlink", "ready"},
         l \in {"unlink", "ready"} <=> st[t] \in {"unlink", "ready"},
         st' = [st EXCEPT ![t] = l]
  PROVE  SLockInv'
<1>1. value' = value /\ sp' = sp /\ inside' = inside
  OBVIOUS
<1>2. \A s : OneUnit(s, value', inside') <=> OneUnit(s, value, inside)
  BY <1>1 DEF OneUnit
<1> QED BY <1>1, <1>2 DEF SLockInv, Lock!OwnSemaphore

\* sem_open makes a semaphore that no thread has, with one unit.
LEMMA SLockOpen ==
  ASSUME SLockInv, NEW t \in Thread, Lock!Open(t) PROVE SLockInv'
<1>1. CASE n[t] \in DOMAIN names
  BY <1>1, SLockMoves DEF Lock!Open
<1>2. CASE n[t] \notin DOMAIN names
  <2>1. /\ st[t] = "open" /\ value' = Append(value, 1) /\ inside' = inside
        /\ sp' = [sp EXCEPT ![t] = Len(value) + 1] /\ st' = [st EXCEPT ![t] = "unlink"]
    BY <1>2 DEF Lock!Open, Lock!Made
  <2>2. /\ value \in Seq({0, 1}) /\ sp \in [Thread -> 0..Len(value)] /\ Len(value) \in Nat
        /\ st \in [Thread -> {"alloc", "count", "open", "unlink", "ready"}]
    BY DEF SLockInv
  <2>3. /\ value' \in Seq({0, 1}) /\ Len(value') = Len(value) + 1
        /\ value'[Len(value) + 1] = 1 /\ \A s \in 1..Len(value) : value'[s] = value[s]
    BY <2>1, <2>2
  <2>4. /\ sp' \in [Thread -> 0..Len(value')] /\ sp'[t] = Len(value) + 1
        /\ \A u \in Thread : u # t => sp'[u] = sp[u]
        /\ st' \in [Thread -> {"alloc", "count", "open", "unlink", "ready"}]
        /\ st'[t] = "unlink" /\ \A u \in Thread : u # t => st'[u] = st[u]
    BY <2>1, <2>2, <2>3
  <2>5. \A u \in Thread : <<u, Len(value) + 1>> \notin inside
    BY <2>2 DEF SLockInv
  <2>6. OneUnit(Len(value) + 1, value', inside')
    BY <2>1, <2>3, <2>5 DEF OneUnit
  <2>7. ASSUME NEW s \in 1..Len(value), OneUnit(s, value, inside) PROVE OneUnit(s, value', inside')
    BY <2>1, <2>3, <2>7 DEF OneUnit
  <2>8. \A u \in Thread : sp'[u] # 0 => OneUnit(sp'[u], value', inside')
    <3>1. SUFFICES ASSUME NEW u \in Thread, sp'[u] # 0 PROVE OneUnit(sp'[u], value', inside')
      OBVIOUS
    <3>2. CASE u = t
      BY <2>4, <2>6, <3>2
    <3>3. CASE u # t
      <4>1. sp'[u] = sp[u] /\ sp[u] \in 1..Len(value) /\ OneUnit(sp[u], value, inside)
        BY <2>2, <2>4, <3>1, <3>3 DEF SLockInv
      <4> QED BY <2>7, <4>1
    <3> QED BY <3>2, <3>3
  <2>9. Lock!OwnSemaphore'
    BY <2>2, <2>4 DEF SLockInv, Lock!OwnSemaphore
  <2>10. \A u \in Thread : sp'[u] # 0 <=> st'[u] \in {"unlink", "ready"}
    <3>1. \A u \in Thread : sp[u] # 0 <=> st[u] \in {"unlink", "ready"}
      BY DEF SLockInv
    <3>2. sp'[t] # 0 /\ st'[t] \in {"unlink", "ready"}
      BY <2>2, <2>4
    <3>3. \A u \in Thread : u # t => sp'[u] = sp[u] /\ st'[u] = st[u]
      BY <2>4
    <3> QED BY <3>1, <3>2, <3>3
  <2>11. \A x \in inside' : \E u \in Thread, s \in 1..Len(value') : x = <<u, s>>
    <3>1. \A s : s \in 1..Len(value) => s \in 1..Len(value')
      BY <2>2, <2>3
    <3> QED BY <2>1, <3>1 DEF SLockInv
  <2> QED BY <2>3, <2>4, <2>8, <2>9, <2>10, <2>11 DEF SLockInv
<1> QED BY <1>1, <1>2

\* s_lock, s_trylock and s_unlock by thread u on the lock that thread t made:
\* the unit goes to u, or back.
LEMMA SLockUse ==
  ASSUME SLockInv, NEW t \in Thread, NEW u \in Thread, Lock!s_lock(u, t) \/ Lock!s_unlock(u, t)
  PROVE  SLockInv'
<1>1. PICK s : s = sp[t]
  OBVIOUS
<1>2. /\ value \in Seq({0, 1}) /\ sp \in [Thread -> 0..Len(value)] /\ Len(value) \in Nat
      /\ st' = st /\ sp' = sp /\ s # 0 /\ OneUnit(s, value, inside) /\ s \in 1..Len(value)
  <2>1. value \in Seq({0, 1}) /\ sp \in [Thread -> 0..Len(value)] /\ Len(value) \in Nat
    BY DEF SLockInv
  <2>2. st[t] = "ready" /\ st' = st /\ sp' = sp
    BY DEF Lock!s_lock, Lock!s_unlock, Lock!Usable
  <2>3. s # 0 /\ OneUnit(s, value, inside)
    BY <1>1, <2>2 DEF SLockInv
  <2> QED BY <1>1, <2>1, <2>2, <2>3
<1>3. /\ value' \in Seq({0, 1}) /\ Len(value') = Len(value)
      /\ \A r \in 1..Len(value) : r # s => value'[r] = value[r]
      /\ OneUnit(s, value', inside')
      /\ \A r, w : r # s => (<<w, r>> \in inside' <=> <<w, r>> \in inside)
      /\ \A x \in inside' : x \in inside \/ x = <<u, s>>
  <2>1. CASE Lock!s_lock(u, t)
    <3>1. /\ <<u, s>> \notin inside /\ value[s] > 0 /\ value' = [value EXCEPT ![s] = value[s] - 1]
          /\ inside' = inside \union {<<u, s>>}
      BY <1>1, <2>1 DEF Lock!s_lock
    <3>2. value[s] = 1 /\ \A w \in Thread : <<w, s>> \notin inside
      BY <1>2, <3>1 DEF OneUnit
    <3>3. /\ value' \in Seq({0, 1}) /\ Len(value') = Len(value) /\ value'[s] = 0
          /\ \A r \in 1..Len(value) : r # s => value'[r] = value[r]
      BY <1>2, <3>1, <3>2
    <3>4. \A w \in Thread : <<w, s>> \in inside' <=> w = u
      BY <3>1, <3>2
    <3>5. OneUnit(s, value', inside')
      BY <3>3, <3>4 DEF OneUnit
    <3> QED BY <3>1, <3>3, <3>5
  <2>2. CASE Lock!s_unlock(u, t)
    <3>1. /\ <<u, s>> \in inside /\ value' = [value EXCEPT ![s] = value[s] + 1]
          /\ inside' = inside \ {<<u, s>>}
      BY <1>1, <2>2 DEF Lock!s_unlock
    <3>2. value[s] = 0 /\ \A w \in Thread : <<w, s>> \in inside <=> w = u
      BY <1>2, <3>1 DEF OneUnit
    <3>3. /\ value' \in Seq({0, 1}) /\ Len(value') = Len(value) /\ value'[s] = 1
          /\ \A r \in 1..Len(value) : r # s => value'[r] = value[r]
      BY <1>2, <3>1, <3>2
    <3>4. \A w \in Thread : <<w, s>> \notin inside'
      BY <3>1, <3>2
    <3>5. OneUnit(s, value', inside')
      BY <3>3, <3>4 DEF OneUnit
    <3> QED BY <3>1, <3>3, <3>5
  <2> QED BY <2>1, <2>2
<1>4. \A w \in Thread : sp[w] # 0 => OneUnit(sp[w], value', inside')
  <2>1. SUFFICES ASSUME NEW w \in Thread, sp[w] # 0 PROVE OneUnit(sp[w], value', inside')
    OBVIOUS
  <2>2. PICK r : r = sp[w]
    OBVIOUS
  <2>3. CASE r = s
    BY <1>2, <1>3, <2>2, <2>3 DEF OneUnit
  <2>4. CASE r # s
    <3>1. r \in 1..Len(value) /\ OneUnit(r, value, inside)
      BY <1>2, <2>1, <2>2 DEF SLockInv
    <3> QED BY <1>2, <1>3, <2>2, <2>4, <3>1 DEF OneUnit
  <2> QED BY <2>3, <2>4
<1> QED BY <1>2, <1>3, <1>4 DEF SLockInv, Lock!OwnSemaphore
\* s_free, by a thread whose lock nobody holds.
LEMMA SLockFree ==
  ASSUME SLockInv, NEW t \in Thread, Lock!s_free(t) PROVE SLockInv'
<1>1. /\ value' = value /\ inside' = inside /\ sp' = [sp EXCEPT ![t] = 0]
      /\ st' = [st EXCEPT ![t] = "alloc"]
  BY DEF Lock!s_free
<1>2. Len(value) \in Nat /\ sp \in [Thread -> 0..Len(value)]
      /\ st \in [Thread -> {"alloc", "count", "open", "unlink", "ready"}]
  BY DEF SLockInv
<1>3. /\ sp' \in [Thread -> 0..Len(value)] /\ sp'[t] = 0 /\ st'[t] = "alloc"
      /\ st' \in [Thread -> {"alloc", "count", "open", "unlink", "ready"}]
      /\ \A u \in Thread : u # t => sp'[u] = sp[u] /\ st'[u] = st[u]
  BY <1>1, <1>2
<1>4. Lock!OwnSemaphore' /\ \A u \in Thread : sp'[u] # 0 => OneUnit(sp'[u], value', inside')
  BY <1>1, <1>3 DEF SLockInv, Lock!OwnSemaphore
<1>5. \A u \in Thread : sp'[u] # 0 <=> st'[u] \in {"unlink", "ready"}
  BY <1>3 DEF SLockInv
<1> QED BY <1>1, <1>3, <1>4, <1>5 DEF SLockInv

\* Every step keeps the invariant; a new process with the same ID has no locks.
LEMMA SLockStep ==
  ASSUME SLockInv, [Lock!Next]_(Lock!vars) PROVE SLockInv'
<1>1. CASE UNCHANGED Lock!vars
  BY <1>1 DEF SLockInv, Lock!OwnSemaphore, OneUnit, Lock!vars
<1>2. CASE Lock!NewProcess
  <2>1. /\ value' = value /\ inside' = {} /\ sp' = [t \in Thread |-> 0]
        /\ st' = [t \in Thread |-> "alloc"]
    BY <1>2 DEF Lock!NewProcess, Lock!Fresh
  <2>2. Len(value) \in Nat
    BY DEF SLockInv
  <2> QED BY <2>1, <2>2 DEF SLockInv, Lock!OwnSemaphore
<1>3. ASSUME NEW t \in Thread,
             Lock!Count(t) \/ Lock!Counted(t) \/ Lock!Open(t) \/ Lock!Unlink(t) \/ Lock!s_free(t)
      PROVE  SLockInv'
  <2>1. CASE Lock!Count(t)
    BY <2>1, SLockMoves DEF Lock!Count
  <2>2. CASE Lock!Counted(t)
    BY <2>2, SLockMoves DEF Lock!Counted
  <2>3. CASE Lock!Unlink(t)
    BY <2>3, SLockMoves DEF Lock!Unlink
  <2> QED BY <1>3, <2>1, <2>2, <2>3, SLockOpen, SLockFree
<1>4. ASSUME NEW t \in Thread, NEW u \in Thread, Lock!s_trylock(u, t) \/ Lock!s_unlock(u, t)
      PROVE  SLockInv'
  BY <1>1, <1>4, SLockUse DEF Lock!s_trylock
<1> QED BY <1>1, <1>2, <1>3, <1>4 DEF Lock!Next, Lock!Ended

\* What the invariant says to a user of the lock.
LEMMA SLockPromises == SLockInv => Lock!OwnSemaphore /\ Lock!LockExact
BY DEF SLockInv, Lock!LockExact, Lock!Usable, OneUnit

\* Two locks of ipc1/slock.c are never made of the same semaphore, and one
\* thread at a time holds a lock while a free one can be taken: for any number
\* of threads, which read cnt at the same time, and of processes with the same
\* ID, which leave names behind.
THEOREM SLockTheorem == SLockSpec => [](Lock!OwnSemaphore /\ Lock!LockExact)
<1>1. Lock!Init => SLockInv
  BY SLockInit
<1>2. SLockInv /\ [Lock!Next]_(Lock!vars) => SLockInv'
  BY SLockStep
<1>3. SLockInv => Lock!OwnSemaphore /\ Lock!LockExact
  BY SLockPromises
<1> QED BY <1>1, <1>2, <1>3, PTL DEF SLockSpec
-----------------------------------------------------------------------------
(***************************************************************************)
(* daemons: daemonize, already_running and the two ways to read the        *)
(* configuration again.                                                    *)
(***************************************************************************)
CONSTANTS Copy, NOFILE, OPENMAX, MaxHup
VARIABLES kind, rlim_max, dst, leader, tty, fds, hup, pend, lock, pidfile, killedby, conf, known, hups
Dm == INSTANCE Daemon WITH st <- dst

DaemonSpec == Dm!Init /\ [][Dm!Next]_(Dm!vars)

\* From where on a copy ignores SIGHUP, and has the lock.
Ignoring == {"ignores", "second", "detached", "locked", "truncated", "single"}
Locking == {"locked", "truncated"} \union Dm!Single
DaemonPC == {"start", "leader", "gone"} \union Ignoring \union Locking

DaemonTypes ==
  /\ dst \in [Copy -> DaemonPC] /\ leader \in [Copy -> BOOLEAN] /\ tty \in [Copy -> BOOLEAN]
  /\ DOMAIN fds = Copy /\ pend \in [Copy -> BOOLEAN]
  /\ hup \in [Copy -> {"default", "ignore", "catch", "block"}]
  /\ killedby \in [Copy -> {"none", "running", "hup", "term"}]
  /\ conf \in Nat /\ known \in [Copy -> Nat]

\* Who has written the process ID has the lock.
LockedInv ==
  \A d \in Copy : /\ dst[d] \in Locking => lock = d
                  /\ dst[d] \in Dm!Single => pidfile = d

\* What daemonize has taken from a copy does not come back.
DetachedInv ==
  \A d \in Copy : /\ dst[d] \notin {"start", "gone"} => ~tty[d]
                  /\ dst[d] \notin {"start", "leader", "ignores", "gone"} => ~leader[d]

\* SIGHUP is ignored, then caught or blocked; in between it has its default in reread.c.
HupInv ==
  \A d \in Copy : /\ dst[d] \in Ignoring => hup[d] = "ignore"
                  /\ dst[d] \in Dm!Ready => hup[d] \in {"catch", "block"}
                  /\ dst[d] = "restored" => kind = "thread"
                  /\ dst[d] \in {"ready", "reading"} /\ known[d] # conf => pend[d]

DaemonInv == DaemonTypes /\ LockedInv /\ DetachedInv /\ HupInv

\* Of its caller's descriptors a copy keeps those that the loop does not reach.
Detached == {"detached"} \union Locking
FdsInv ==
  \A d \in Copy : dst[d] \in Detached =>
    {0, 1, 2} \subseteq fds[d] /\ fds[d] \intersect 0..Dm!Closed - 1 \subseteq {0, 1, 2}

\* No copy has run.
LEMMA DaemonInit == Dm!Init => DaemonInv /\ FdsInv
BY DEF Dm!Init, DaemonInv, FdsInv, Detached, DaemonTypes, LockedInv, DetachedInv, HupInv, DaemonPC, Ignoring,
       Locking, Dm!Single, Dm!Ready, Dm!None

\* A copy moves on in daemonize.
LEMMA DaemonizeStep ==
  ASSUME DaemonInv, NEW d \in Copy,
         Dm!Setsid(d) \/ Dm!IgnoreHup(d) \/ Dm!SecondFork(d) \/ Dm!CloseAll(d)
  PROVE  DaemonInv'
<1> USE DEF DaemonInv, DaemonTypes, LockedInv, DetachedInv, HupInv, DaemonPC, Ignoring, Locking,
            Dm!Single, Dm!Ready, Dm!Moves
<1>1. CASE Dm!Setsid(d)
  BY <1>1 DEF Dm!Setsid
<1>2. CASE Dm!IgnoreHup(d)
  BY <1>2 DEF Dm!IgnoreHup
<1>3. CASE Dm!SecondFork(d)
  BY <1>3 DEF Dm!SecondFork
<1>4. CASE Dm!CloseAll(d)
  BY <1>4 DEF Dm!CloseAll
<1> QED BY <1>1, <1>2, <1>3, <1>4

\* already_running: one copy at a time has the lock, and only it writes the file.
LEMMA RunningStep ==
  ASSUME DaemonInv, "none" \notin Copy, NEW d \in Copy, Dm!already_running(d) \/ Dm!WritePid(d)
  PROVE  DaemonInv'
<1> USE DEF DaemonInv, DaemonTypes, LockedInv, DetachedInv, HupInv, DaemonPC, Ignoring, Locking,
            Dm!Single, Dm!Ready, Dm!Moves, Dm!None
<1>1. CASE Dm!already_running(d)
  <2>1. CASE lock = "none" /\ lock' = d /\ dst' = [dst EXCEPT ![d] = "locked"] /\ UNCHANGED killedby
    BY <1>1, <2>1 DEF Dm!already_running
  <2>2. CASE /\ dst' = [dst EXCEPT ![d] = "gone"] /\ UNCHANGED lock
             /\ killedby' = [killedby EXCEPT ![d] = "running"]
    BY <1>1, <2>2 DEF Dm!already_running
  <2> QED BY <1>1, <2>1, <2>2 DEF Dm!already_running, Dm!lockfile
<1>2. CASE Dm!WritePid(d)
  <2>1. lock = d /\ \A e \in Copy : dst[e] \in Locking => e = d
    BY <1>2 DEF Dm!WritePid
  <2>2. CASE dst' = [dst EXCEPT ![d] = "truncated"] /\ dst[d] = "locked"
    BY <1>2, <2>1, <2>2 DEF Dm!WritePid
  <2>3. CASE dst' = [dst EXCEPT ![d] = "single"] /\ dst[d] = "truncated" /\ pidfile' = d
    BY <1>2, <2>1, <2>3 DEF Dm!WritePid
  <2> QED BY <1>2, <2>2, <2>3 DEF Dm!WritePid
<1> QED BY <1>1, <1>2

\* reread.c and reread2.c.
LEMMA RereadStep ==
  ASSUME DaemonInv, NEW d \in Copy,
         \/ Dm!RestoreHup(d) \/ Dm!BlockAll(d) \/ Dm!CatchHup(d) \/ Dm!TakeHup(d)
         \/ Dm!reread(d) \/ Dm!OpenTerminal(d)
  PROVE  DaemonInv'
<1> USE DEF DaemonInv, DaemonTypes, LockedInv, DetachedInv, HupInv, DaemonPC, Ignoring, Locking,
            Dm!Single, Dm!Ready, Dm!Moves
<1>1. CASE Dm!RestoreHup(d)
  BY <1>1 DEF Dm!RestoreHup
<1>2. CASE Dm!BlockAll(d)
  BY <1>2 DEF Dm!BlockAll
<1>3. CASE Dm!CatchHup(d)
  BY <1>3 DEF Dm!CatchHup
<1>4. CASE Dm!TakeHup(d)
  BY <1>4 DEF Dm!TakeHup
<1>5. CASE Dm!reread(d)
  <2>1. CASE dst[d] = "rereads" /\ dst' = [dst EXCEPT ![d] = "reading"]
             /\ known' = [known EXCEPT ![d] = conf]
    BY <1>5, <2>1 DEF Dm!reread
  <2>2. CASE dst[d] = "reading" /\ dst' = [dst EXCEPT ![d] = "ready"] /\ UNCHANGED known
    BY <1>5, <2>2 DEF Dm!reread
  <2> QED BY <1>5, <2>1, <2>2 DEF Dm!reread
<1>6. CASE Dm!OpenTerminal(d)
  BY <1>6 DEF Dm!OpenTerminal
<1> QED BY <1>1, <1>2, <1>3, <1>4, <1>5, <1>6

\* A copy that ends gives up the lock, and no other copy has it.
LEMMA GoneStep ==
  ASSUME DaemonInv, "none" \notin Copy, NEW d \in Copy, NEW why \in {"hup", "term"}, Dm!Gone(d, why)
  PROVE  DaemonInv'
BY DEF Dm!Gone, DaemonInv, DaemonTypes, LockedInv, DetachedInv, HupInv, DaemonPC, Ignoring,
       Locking, Dm!Single, Dm!Ready, Dm!None

\* A SIGHUP ends the copy, is forgotten or stays pending; after a change of
\* the configuration it stays pending.
LEMMA HupKept ==
  ASSUME DaemonInv, "none" \notin Copy, NEW d \in Copy, Dm!Hup(d) PROVE DaemonInv'
<1>1. CASE Dm!Gone(d, "hup")
  BY <1>1, GoneStep
<1>2. CASE ~Dm!Gone(d, "hup")
  <2>1. /\ pend' = [pend EXCEPT ![d] = hup[d] # "ignore"]
        /\ conf' = IF dst[d] \in Dm!Ready THEN conf + 1 ELSE conf
        /\ UNCHANGED <<kind, rlim_max, dst, leader, tty, fds, hup, lock, pidfile, killedby, known>>
    BY <1>2 DEF Dm!Hup
  <2>2. pend' \in [Copy -> BOOLEAN] /\ \A e \in Copy : e # d => pend'[e] = pend[e]
    BY <2>1 DEF DaemonInv, DaemonTypes
  <2>3. hup[d] # "ignore" => pend'[d]
    BY <2>1 DEF DaemonInv, DaemonTypes
  <2>4. DaemonTypes' /\ LockedInv' /\ DetachedInv'
    BY <2>1, <2>2 DEF DaemonInv, DaemonTypes, LockedInv, DetachedInv
  <2>5. HupInv'
    <3>1. CASE dst[d] \in Dm!Ready
      BY <2>1, <2>2, <2>3, <3>1
      DEF DaemonInv, LockedInv, HupInv, Locking, Dm!Ready, Dm!Single
    <3>2. CASE dst[d] \notin Dm!Ready
      BY <2>1, <2>2, <3>2 DEF DaemonInv, HupInv, Dm!Ready
    <3> QED BY <3>1, <3>2
  <2> QED BY <2>4, <2>5 DEF DaemonInv
<1> QED BY <1>1, <1>2

\* Every step keeps the invariant.
LEMMA DaemonStep ==
  ASSUME DaemonInv, "none" \notin Copy, [Dm!Next]_(Dm!vars) PROVE DaemonInv'
<1>1. CASE UNCHANGED Dm!vars
  BY <1>1 DEF Dm!vars, DaemonInv, DaemonTypes, LockedInv, DetachedInv, HupInv
<1>2. ASSUME NEW d \in Copy, Dm!Term(d) PROVE DaemonInv'
  BY <1>2, GoneStep DEF Dm!Term
<1> QED BY <1>1, <1>2, DaemonizeStep, RunningStep, RereadStep, HupKept DEF Dm!Next, Dm!Ended

\* daemonize closes the descriptors, and no other step opens one.
LEMMA FdsStep ==
  ASSUME DaemonInv, FdsInv, [Dm!Next]_(Dm!vars) PROVE FdsInv'
<1>1. CASE \E d \in Copy : Dm!CloseAll(d)
  <2>1. PICK d \in Copy : Dm!CloseAll(d)
    BY <1>1
  <2>2. PICK c : c = 0..Dm!Closed - 1
    OBVIOUS
  <2>3. fds' = [fds EXCEPT ![d] = (@ \ c) \union {0, 1, 2}] /\ 0..Dm!Closed' - 1 = c
        /\ dst' = [dst EXCEPT ![d] = "detached"]
    BY <2>1, <2>2 DEF Dm!CloseAll, Dm!Moves, Dm!Closed
  <2>4. DOMAIN fds = Copy /\ DOMAIN dst = Copy
    BY DEF DaemonInv, DaemonTypes
  <2>5. {0, 1, 2} \subseteq fds'[d] /\ fds'[d] \intersect c \subseteq {0, 1, 2}
    BY <2>3, <2>4
  <2>6. \A e \in Copy : e # d => fds'[e] = fds[e] /\ dst'[e] = dst[e]
    BY <2>3, <2>4
  <2> QED BY <2>2, <2>3, <2>5, <2>6 DEF FdsInv
<1>2. CASE ~\E d \in Copy : Dm!CloseAll(d)
  <2>1. UNCHANGED <<fds, rlim_max>>
    BY <1>2 DEF Dm!Next, Dm!Setsid, Dm!IgnoreHup, Dm!SecondFork, Dm!already_running,
       Dm!WritePid, Dm!RestoreHup, Dm!BlockAll, Dm!CatchHup, Dm!TakeHup, Dm!reread, Dm!Hup,
       Dm!Term, Dm!Gone, Dm!OpenTerminal, Dm!Ended, Dm!vars
  <2>2. ASSUME NEW d \in Copy, dst'[d] \in Detached PROVE dst[d] \in Detached
    BY <1>2, <2>2 DEF Dm!Next, Dm!Setsid, Dm!IgnoreHup, Dm!SecondFork, Dm!already_running,
       Dm!WritePid, Dm!RestoreHup, Dm!BlockAll, Dm!CatchHup, Dm!TakeHup, Dm!reread, Dm!Hup,
       Dm!Term, Dm!Gone, Dm!OpenTerminal, Dm!Ended, Dm!vars, Dm!Moves, DaemonInv, DaemonTypes,
       Detached, Locking, Dm!Single, Dm!Ready
  <2>3. Dm!Closed' = Dm!Closed
    BY <2>1 DEF Dm!Closed
  <2> QED BY <2>1, <2>2, <2>3 DEF FdsInv
<1> QED BY <1>1, <1>2

\* What the invariant says to a user of the daemon.
LEMMA DaemonPromises ==
  DaemonInv /\ FdsInv => Dm!OneDaemon /\ Dm!PidInFile /\ Dm!NoTerminal /\ Dm!ConfigSeen
<1> SUFFICES ASSUME DaemonInv, FdsInv
             PROVE  Dm!OneDaemon /\ Dm!PidInFile /\ Dm!NoTerminal /\ Dm!ConfigSeen
  OBVIOUS
<1>1. \A d \in Copy : dst[d] \in Dm!Single => lock = d
  BY DEF DaemonInv, LockedInv, Locking
<1>2. Cardinality({d \in Copy : dst[d] \in Dm!Single}) <= 1
  <2>1. {d \in Copy : dst[d] \in Dm!Single} \subseteq {lock}
    BY <1>1
  <2>2. IsFiniteSet({lock}) /\ Cardinality({lock}) = 1
    BY FS_Singleton
  <2> QED BY <2>1, <2>2, FS_Subset
<1>3. Dm!PidInFile
  BY DEF DaemonInv, LockedInv, Dm!PidInFile
<1>4. Dm!NoTerminal
  BY DEF DaemonInv, DetachedInv, FdsInv, Detached, Locking, Dm!Single, Dm!Ready, Dm!NoTerminal
<1>5. Dm!ConfigSeen
  BY DEF DaemonInv, HupInv, Dm!ConfigSeen
<1>6. Dm!OneDaemon
  BY <1>1, <1>2, Zenon DEF Dm!OneDaemon, Dm!Cardinality, Cardinality
<1> QED BY <1>3, <1>4, <1>5, <1>6

\* For any number of copies, started side by side and killed at any point, of
\* either kind: at most one runs, it has the lock and its process ID is in the
\* file; a running copy has no terminal, and no descriptor of its caller but for
\* those that the loop of daemonize does not reach (from 1024 on when there is
\* no limit, or beyond a limit that was lowered); and no change of the
\* configuration is missed, even one that comes while the file is read again.
THEOREM DaemonTheorem ==
  "none" \notin Copy =>
    (DaemonSpec => [](Dm!OneDaemon /\ Dm!PidInFile /\ Dm!NoTerminal /\ Dm!ConfigSeen))
<1> SUFFICES ASSUME "none" \notin Copy
             PROVE  DaemonSpec => [](Dm!OneDaemon /\ Dm!PidInFile /\ Dm!NoTerminal /\ Dm!ConfigSeen)
  OBVIOUS
<1>1. Dm!Init => DaemonInv /\ FdsInv
  BY DaemonInit
<1>2. DaemonInv /\ FdsInv /\ [Dm!Next]_(Dm!vars) => (DaemonInv /\ FdsInv)'
  BY DaemonStep, FdsStep
<1>3. DaemonInv /\ FdsInv => Dm!OneDaemon /\ Dm!PidInFile /\ Dm!NoTerminal /\ Dm!ConfigSeen
  BY DaemonPromises
<1> QED BY <1>1, <1>2, <1>3, PTL DEF DaemonSpec

\* What SIGHUP may do.
LEMMA HupAllowed == DaemonInv /\ [Dm!Next]_(Dm!vars) => Dm!HupStep
<1> SUFFICES ASSUME DaemonInv, [Dm!Next]_(Dm!vars), NEW d \in Copy,
                    killedby[d] = "none", killedby'[d] = "hup"
             PROVE  dst[d] \in {"start", "leader"} \/ (kind = "thread" /\ dst[d] = "restored")
  BY DEF Dm!HupStep, Dm!None
<1>1. killedby \in [Copy -> {"none", "running", "hup", "term"}]
  BY DEF DaemonInv, DaemonTypes
<1>2. PICK e \in Copy : Dm!Hup(e) /\ hup[e] = "default" /\ Dm!Gone(e, "hup")
  BY <1>1 DEF Dm!Next, Dm!Setsid, Dm!IgnoreHup, Dm!SecondFork, Dm!CloseAll, Dm!already_running,
    Dm!WritePid, Dm!RestoreHup, Dm!BlockAll, Dm!CatchHup, Dm!TakeHup, Dm!reread, Dm!Hup,
    Dm!Term, Dm!Gone, Dm!OpenTerminal, Dm!Ended, Dm!vars
<1>3. e = d
  BY <1>1, <1>2 DEF Dm!Gone
<1> QED BY <1>2, <1>3
    DEF Dm!Gone, DaemonInv, DaemonTypes, HupInv, DaemonPC, Ignoring, Locking, Dm!Single, Dm!Ready

\* SIGHUP ends a copy only before daemonize ignores it or, in reread.c, between
\* the call that gives it its default back and the one that blocks it.
THEOREM DaemonHupTheorem == "none" \notin Copy => (DaemonSpec => Dm!HupKeepsRunning)
<1> SUFFICES ASSUME "none" \notin Copy PROVE DaemonSpec => Dm!HupKeepsRunning
  OBVIOUS
<1>1. Dm!Init => DaemonInv
  BY DaemonInit
<1>2. DaemonInv /\ [Dm!Next]_(Dm!vars) => DaemonInv'
  BY DaemonStep
<1>3. DaemonInv /\ [Dm!Next]_(Dm!vars) => [Dm!HupStep]_(Dm!vars)
  BY HupAllowed
<1> QED BY <1>1, <1>2, <1>3, PTL DEF DaemonSpec, Dm!HupKeepsRunning
-----------------------------------------------------------------------------
(***************************************************************************)
(* db_open (db/db.c).                                                      *)
(***************************************************************************)
VARIABLES creates, ost, ofds, there, table, recs, chain, dat, old, olock, harm
Op == INSTANCE DbOpen WITH st <- ost, fds <- ofds, lock <- olock

OpenSpec == Op!Init /\ [][Op!Next]_(Op!vars)

\* Where a process has the lock; where it has read the chain, where its data
\* are written, and where its record is linked.
LockPC == {"fstat", "init", "opened", "readptr", "dat", "idx", "ptr", "unlock"}
ReadPC == {"dat", "idx", "ptr", "unlock", "stored"}
OpenPC == {"start", "opendat", "lock", "failed", "dead", "open", "stored"} \union LockPC

OpenTypes ==
  /\ creates \subseteq Proc /\ ost \in [Proc -> OpenPC] /\ table \in {"none", "whole", "torn"}
  /\ chain \subseteq Proc /\ old \in [Proc -> SUBSET Proc] /\ harm \in BOOLEAN

\* One process at a time has the lock, and a file that was seen to be empty stays so.
OpenLocked ==
  /\ \A p \in Proc : ost[p] \in LockPC => olock = p
  /\ \A p \in Proc : ost[p] = "init" => Op!Empty
  /\ recs # {} => table # "none"

\* As long as no file is emptied in somebody's hands: who created the files, or
\* has read the table, finds it whole; the chain is as the process that stores
\* has read it, and what is stored is there.
OpenKept ==
  ~harm =>
    /\ table # "torn"
    /\ \A p \in creates : ost[p] \in Op!HasHandle \union {"opened"} => table = "whole"
    /\ \A p \in Proc :
         /\ ost[p] \in ReadPC => table = "whole"
         /\ ost[p] \in {"dat", "idx", "ptr"} => old[p] = chain
         /\ ost[p] \in {"idx", "ptr", "unlock", "stored"} => p \in dat
         /\ ost[p] \in {"unlock", "stored"} => p \in chain

OpenInv == OpenTypes /\ OpenLocked /\ OpenKept

\* No process has opened a file; those that are there are whole.
LEMMA OpenInit == Op!Init => OpenInv
BY DEF Op!Init, OpenInv, OpenTypes, OpenLocked, OpenKept, OpenPC, LockPC, ReadPC,
       Op!HasHandle, Op!Nobody

\* A file that is emptied harms nobody, or harm is done.
LEMMA OpenHarm ==
  ASSUME OpenInv, NEW p \in Proc, ost[p] \in {"start", "opendat"}, Op!Harms(p), ~harm'
  PROVE  ~harm /\ \A q \in Proc : ost[q] \notin Op!HasHandle \union {"opened"}
BY DEF OpenInv, OpenTypes, Op!Harms, Op!HasHandle

\* open of the two files.
LEMMA OpensStep ==
  ASSUME OpenInv, NEW p \in Proc, Op!OpenIdx(p) \/ Op!OpenDat(p) PROVE OpenInv'
<1>1. CASE Op!OpenIdx(p)
  <2>1. /\ ost[p] = "start" /\ ost' = [ost EXCEPT ![p] = "opendat"] /\ UNCHANGED <<creates, dat, old, olock>>
    BY <1>1 DEF Op!OpenIdx, Op!Goto
  <2>2. CASE p \in creates
    <3>1. table' = "none" /\ recs' = {} /\ chain' = {} /\ Op!Harms(p)
      BY <1>1, <2>2 DEF Op!OpenIdx, Op!Opens
    <3>2. harm' \in BOOLEAN
      BY <3>1 DEF OpenInv, OpenTypes, Op!Harms
    <3>3. OpenTypes' /\ OpenLocked'
      BY <2>1, <3>1, <3>2 DEF OpenInv, OpenTypes, OpenLocked, OpenPC, LockPC, Op!Empty
    <3>4. OpenKept'
      BY <2>1, <3>1, OpenHarm DEF OpenInv, OpenTypes, OpenKept, ReadPC, Op!HasHandle
    <3> QED BY <3>3, <3>4 DEF OpenInv
  <2>3. CASE p \notin creates
    <3>1. UNCHANGED <<table, recs, chain, harm>>
      BY <1>1, <2>3 DEF Op!OpenIdx, Op!Opens
    <3> QED BY <2>1, <2>3, <3>1 DEF OpenInv, OpenTypes, OpenLocked, OpenKept, OpenPC, LockPC, ReadPC,
              Op!Empty, Op!HasHandle
  <2> QED BY <2>2, <2>3
<1>2. CASE Op!OpenDat(p)
  <2>1. ost[p] = "opendat" /\ UNCHANGED <<creates, table, recs, chain, old, olock>>
    BY <1>2 DEF Op!OpenDat
  <2>2. CASE p \in creates
    <3>1. ost' = [ost EXCEPT ![p] = "lock"] /\ dat' = {} /\ Op!Harms(p)
      BY <1>2, <2>2 DEF Op!OpenDat, Op!Opens, Op!Goto
    <3>2. harm' \in BOOLEAN
      BY <3>1 DEF OpenInv, OpenTypes, Op!Harms
    <3>3. OpenTypes' /\ OpenLocked'
      BY <2>1, <3>1, <3>2 DEF OpenInv, OpenTypes, OpenLocked, OpenPC, LockPC, Op!Empty
    <3>4. OpenKept'
      BY <2>1, <3>1, OpenHarm DEF OpenInv, OpenTypes, OpenKept, ReadPC, Op!HasHandle
    <3> QED BY <3>3, <3>4 DEF OpenInv
  <2>3. CASE p \notin creates
    <3>1. PICK to \in {"open", "failed"} : ost' = [ost EXCEPT ![p] = to]
      BY <1>2, <2>3 DEF Op!OpenDat, Op!Goto
    <3>2. UNCHANGED <<dat, harm>>
      BY <1>2, <2>3 DEF Op!OpenDat, Op!Opens
    <3> QED BY <2>1, <2>3, <3>1, <3>2 DEF OpenInv, OpenTypes, OpenLocked, OpenKept, OpenPC, LockPC,
              ReadPC, Op!Empty, Op!HasHandle
  <2> QED BY <2>2, <2>3
<1> QED BY <1>1, <1>2

\* The table is written while the lock is held, over an empty file.
LEMMA InitStep ==
  ASSUME OpenInv, 0 \notin Proc, NEW p \in Proc,
         Op!LockAll(p) \/ Op!Fstat(p) \/ Op!InitTable(p) \/ Op!UnLock(p)
  PROVE  OpenInv'
<1> USE DEF OpenInv, OpenTypes, OpenLocked, OpenKept, OpenPC, LockPC, ReadPC, Op!Empty,
            Op!HasHandle, Op!Goto, Op!Nobody, Op!files
<1>1. CASE Op!LockAll(p)
  BY <1>1 DEF Op!LockAll
<1>2. CASE Op!Fstat(p)
  <2>1. CASE Op!Empty
    BY <1>2, <2>1 DEF Op!Fstat
  <2>2. CASE ~Op!Empty
    BY <1>2, <2>2 DEF Op!Fstat
  <2> QED BY <2>1, <2>2
<1>3. CASE Op!InitTable(p)
  <2>1. /\ ost[p] = "init" /\ olock = p /\ table = "none" /\ recs = {}
        /\ ~harm => \A q \in Proc : ost[q] \notin ReadPC
    BY <1>3 DEF Op!InitTable
  <2> QED BY <1>3, <2>1 DEF Op!InitTable
<1>4. CASE Op!UnLock(p)
  <2>1. olock = p /\ olock' = 0
    BY <1>4 DEF Op!UnLock, Op!Unlocks
  <2>2. CASE ost[p] = "opened"
    BY <1>4, <2>1, <2>2 DEF Op!UnLock
  <2>3. CASE ost[p] = "unlock"
    BY <1>4, <2>1, <2>3 DEF Op!UnLock
  <2> QED BY <1>4, <2>2, <2>3 DEF Op!UnLock
<1> QED BY <1>1, <1>2, <1>3, <1>4

\* A process that ends lets go of the lock.
LEMMA DiesStep ==
  ASSUME OpenInv, 0 \notin Proc, NEW p \in Proc, Op!Dies(p),
         UNCHANGED <<creates, table, recs, chain, dat, old, harm>>
  PROVE  OpenInv'
BY DEF OpenInv, OpenTypes, OpenLocked, OpenKept, OpenPC, LockPC, ReadPC, Op!Empty,
       Op!HasHandle, Op!Goto, Op!Nobody, Op!Dies, Op!Unlocks

\* db_store of a record: whoever stores has the lock, and the chain as he read it.
LEMMA StoresStep ==
  ASSUME OpenInv, 0 \notin Proc, NEW p \in Proc,
         Op!StoreLock(p) \/ Op!ReadPtr(p) \/ Op!WriteDat(p) \/ Op!WriteIdx(p) \/ Op!WritePtr(p)
  PROVE  OpenInv'
<1>1. CASE Op!Dies(p)
  <2>1. ost'[p] = "dead"
    BY <1>1 DEF Op!Dies, Op!Goto, OpenInv, OpenTypes
  <2>2. Op!ReadPtr(p) \/ Op!WriteDat(p)
    BY <2>1 DEF Op!StoreLock, Op!WriteIdx, Op!WritePtr, Op!Goto, OpenInv, OpenTypes
  <2>3. UNCHANGED <<creates, table, recs, chain, dat, old, harm>>
    BY <2>1, <2>2 DEF Op!ReadPtr, Op!WriteDat, Op!files, Op!Goto, OpenInv, OpenTypes
  <2> QED BY <1>1, <2>3, DiesStep
<1> SUFFICES ASSUME ~Op!Dies(p) PROVE OpenInv'
  BY <1>1
<1> USE DEF OpenInv, OpenTypes, OpenLocked, OpenKept, OpenPC, LockPC, ReadPC, Op!Empty,
            Op!HasHandle, Op!Goto, Op!Nobody, Op!files
<1>2. CASE Op!StoreLock(p)
  BY <1>2 DEF Op!StoreLock
<1>3. CASE Op!ReadPtr(p)
  <2>1. /\ ost[p] = "readptr" /\ table # "none" /\ old' = [old EXCEPT ![p] = chain]
        /\ ost' = [ost EXCEPT ![p] = "dat"]
        /\ UNCHANGED <<creates, table, recs, chain, dat, olock, harm>>
    BY <1>3 DEF Op!ReadPtr
  <2> QED BY <2>1
<1>4. CASE Op!WriteDat(p)
  <2>1. /\ ost[p] = "dat" /\ dat' = dat \union {p}
        /\ ost' = [ost EXCEPT ![p] = "idx"]
        /\ UNCHANGED <<creates, table, recs, chain, old, olock, harm>>
    BY <1>4 DEF Op!WriteDat
  <2> QED BY <2>1
<1>5. CASE Op!WriteIdx(p)
  BY <1>5 DEF Op!WriteIdx, Op!Tear
<1>6. CASE Op!WritePtr(p)
  BY <1>6 DEF Op!WritePtr, Op!Tear
<1> QED BY <1>2, <1>3, <1>4, <1>5, <1>6

\* Every step keeps the invariant.
LEMMA OpenStep ==
  ASSUME OpenInv, 0 \notin Proc, [Op!Next]_(Op!vars) PROVE OpenInv'
<1>1. CASE UNCHANGED Op!vars
  BY <1>1 DEF Op!vars, Op!files, OpenInv, OpenTypes, OpenLocked, OpenKept, Op!Empty
<1>2. ASSUME NEW p \in Proc, Op!Killed(p) PROVE OpenInv'
  BY <1>2, DiesStep DEF Op!Killed, Op!files
<1> QED BY <1>1, <1>2, OpensStep, InitStep, StoresStep DEF Op!Next, Op!Ended

\* db_open with O_CREAT and O_TRUNC returns a database with its table, and what
\* has been stored stays on its chain, for any number of processes that create
\* or use the files at the same time and may die in db_open, unless one of them
\* empties a file that another has in use.
THEOREM DbOpenTheorem ==
  0 \notin Proc => (OpenSpec => [](Op!OpenedReady /\ Op!RecordsKept))
<1> SUFFICES ASSUME 0 \notin Proc PROVE OpenSpec => [](Op!OpenedReady /\ Op!RecordsKept)
  OBVIOUS
<1>1. Op!Init => OpenInv
  BY OpenInit
<1>2. OpenInv /\ [Op!Next]_(Op!vars) => OpenInv'
  BY OpenStep
<1>3. OpenInv => Op!OpenedReady /\ Op!RecordsKept
  BY DEF OpenInv, OpenTypes, OpenKept, Op!OpenedReady, Op!RecordsKept
<1> QED BY <1>1, <1>2, <1>3, PTL DEF OpenSpec
-----------------------------------------------------------------------------
(***************************************************************************)
(* The print command (printer/print.c) and the client thread that it talks *)
(* to.                                                                     *)
(***************************************************************************)
CONSTANTS HDR, RESP, IOBUFSZ, SOCKBUF, JOBNM_MAX, MaxFile
VARIABLES size, namelen, cmd, nleft, fileleft, at, hleft, up, down, taken, got, stored, ok,
          quiet, stall
Pr == INSTANCE Submit WITH pc <- cmd

SubmitSizes ==
  /\ HDR \in Nat /\ RESP \in Nat /\ IOBUFSZ \in Nat /\ SOCKBUF \in Nat
  /\ JOBNM_MAX \in Nat /\ MaxFile \in Nat
SubmitSpec == Pr!Init /\ [][Pr!Next]_(Pr!vars)

SubmitTypes ==
  /\ size \in Nat /\ namelen \in Int /\ nleft \in Nat /\ fileleft \in Nat /\ hleft \in Nat
  /\ up \in Nat /\ taken \in Nat /\ down \in Nat /\ got \in Nat /\ stored \in [from : Nat, to : Nat]
  /\ ok \in BOOLEAN /\ quiet \in BOOLEAN
  /\ cmd \in {"connect", "header", "data", "reply", "jobid", "rejected", "error", "dead"}
  /\ at \in {"none", "header", "data", "accept", "gone"}

\* What the command has written and has still to write is the header and the file.
WrittenInv ==
  /\ cmd = "connect" => at = "none" /\ up = 0 /\ fileleft = size
  /\ cmd \in {"header", "data"} => up + nleft + fileleft = HDR + size
  /\ cmd \in {"reply", "jobid", "rejected"} => up = HDR + size

\* What the thread has read is the part of the header that is there, then all
\* of the header and what is stored.
ReadInv ==
  /\ taken <= up
  /\ at = "none" => taken = 0
  /\ at \in {"none", "header"} => hleft + taken = HDR
  /\ at \in {"data", "accept"} \/ ok => stored.to = taken /\ stored.from = HDR
  /\ stored.to > 0 => stored.from = HDR

\* The thread accepts the job at the end of the stream: the command has written
\* all, or is gone, or a silence came before the end.
EndInv ==
  /\ ok => at = "gone"
  /\ at = "accept" \/ ok =>
       quiet \/ cmd \in {"error", "dead"} \/ (taken = up /\ cmd \in {"reply", "jobid", "rejected"})
  /\ cmd = "jobid" => ok

SubmitInv == SubmitTypes /\ WrittenInv /\ ReadInv /\ EndInv

\* No byte is written.
LEMMA SubmitInit == SubmitSizes /\ Pr!Init => SubmitInv
<1> SUFFICES ASSUME SubmitSizes, Pr!Init PROVE SubmitInv
  OBVIOUS
<1>1. SubmitTypes
  <2>1. namelen \in Int /\ size \in Nat
    BY DEF SubmitSizes, Pr!Init
  <2>2. stored \in [from : Nat, to : Nat]
    BY DEF Pr!Init
  <2> QED BY <2>1, <2>2 DEF SubmitSizes, Pr!Init, SubmitTypes
<1>2. WrittenInv /\ ReadInv /\ EndInv
  BY DEF SubmitSizes, Pr!Init, WrittenInv, ReadInv, EndInv
<1> QED BY <1>1, <1>2 DEF SubmitInv

\* The command: connect, write the header and the file, read the response.
LEMMA CommandStep ==
  ASSUME SubmitSizes, SubmitInv, Pr!Contact \/ Pr!writen \/ Pr!submit_file \/ Pr!readn \/ Pr!Dies
  PROVE  SubmitInv'
<1> USE DEF SubmitSizes, SubmitInv, SubmitTypes, WrittenInv, ReadInv, EndInv
<1>1. CASE Pr!Contact
  BY <1>1 DEF Pr!Contact
<1>2. CASE Pr!writen
  <2>1. CASE at = "gone" /\ cmd' = "error" /\ UNCHANGED <<nleft, up>>
    BY <1>2, <2>1 DEF Pr!writen
  <2>2. CASE ~(at = "gone" /\ cmd' = "error" /\ UNCHANGED <<nleft, up>>)
    <3>1. PICK k \in 1..Pr!Min2(nleft, SOCKBUF - (up - taken)) :
            nleft' = nleft - k /\ up' = up + k /\ UNCHANGED cmd
      BY <1>2, <2>2 DEF Pr!writen
    <3>2. k \in Nat /\ k <= nleft
      BY <3>1 DEF Pr!Min2
    <3> QED BY <1>2, <3>1, <3>2 DEF Pr!writen
  <2> QED BY <2>1, <2>2
<1>3. CASE Pr!submit_file
  <2>1. CASE fileleft > 0
    <3>1. nleft' \in Nat /\ fileleft' \in Nat /\ nleft' + fileleft' = fileleft
      BY <1>3, <2>1 DEF Pr!submit_file, Pr!Min2
    <3> QED BY <1>3, <2>1, <3>1 DEF Pr!submit_file
  <2>2. CASE ~(fileleft > 0)
    BY <1>3, <2>2 DEF Pr!submit_file
  <2> QED BY <2>1, <2>2
<1>4. CASE Pr!readn
  <2>1. CASE nleft = 0 /\ cmd' = (IF ok THEN "jobid" ELSE "rejected") /\ UNCHANGED <<nleft, got>>
    BY <1>4, <2>1 DEF Pr!readn
  <2>2. CASE nleft > 0 /\ at = "gone" /\ cmd' = "error" /\ UNCHANGED <<nleft, got>>
    BY <1>4, <2>2 DEF Pr!readn
  <2>3. CASE \E k \in 1..Pr!Min2(nleft, down - got) :
               nleft' = nleft - k /\ got' = got + k /\ UNCHANGED cmd
    <3>1. PICK k \in 1..Pr!Min2(nleft, down - got) : nleft' = nleft - k /\ UNCHANGED cmd
      BY <2>3
    <3>2. nleft' \in Nat
      <4>1. CASE nleft < down - got
        BY <3>1, <4>1 DEF Pr!Min2
      <4>2. CASE ~(nleft < down - got)
        BY <3>1, <4>2 DEF Pr!Min2
      <4> QED BY <4>1, <4>2
    <3> QED BY <1>4, <3>1, <3>2 DEF Pr!readn
  <2> QED BY <1>4, <2>1, <2>2, <2>3 DEF Pr!readn
<1>5. CASE Pr!Dies
  BY <1>5 DEF Pr!Dies
<1> QED BY <1>1, <1>2, <1>3, <1>4, <1>5

\* A read of the thread takes some of the bytes that are there.
LEMMA TreadTakes ==
  ASSUME SubmitInv, NEW nbytes \in Nat, Pr!tread(nbytes)
  PROVE  taken' \in Nat /\ taken' <= up /\ taken' > taken /\ taken' <= taken + nbytes
BY DEF SubmitInv, SubmitTypes, ReadInv, Pr!tread, Pr!Min2, Pr!Readable

\* A read that returns nothing: at the end of the stream, or in a silence.
LEMMA QuietStep ==
  ASSUME SubmitInv, Pr!NoMore
  PROVE  /\ quiet' \in BOOLEAN /\ (quiet => quiet')
         /\ quiet' \/ cmd \in {"error", "dead"} \/ (taken = up /\ cmd \notin {"header", "data"})
<1>1. CASE Pr!AtEnd /\ UNCHANGED quiet
  BY <1>1 DEF Pr!AtEnd, SubmitInv, SubmitTypes
<1>2. CASE quiet' = (quiet \/ up > taken \/ cmd \in {"header", "data"})
  <2>1. CASE quiet \/ up > taken \/ cmd \in {"header", "data"}
    BY <1>2, <2>1
  <2>2. CASE ~(quiet \/ up > taken \/ cmd \in {"header", "data"})
    BY <1>2, <2>2 DEF SubmitInv, SubmitTypes, ReadInv
  <2> QED BY <2>1, <2>2
<1> QED BY <1>1, <1>2 DEF Pr!NoMore, Pr!TimesOut

\* The thread gives up and says so.
LEMMA Refused ==
  ASSUME SubmitSizes, SubmitInv, at \in {"header", "data"}, Pr!Answer(FALSE), at' = "gone",
         quiet' \in BOOLEAN,
         UNCHANGED <<size, namelen, cmd, nleft, fileleft, hleft, up, got, taken, stored>>
  PROVE  SubmitInv'
<1>1. ok' = FALSE /\ down' \in Nat
  BY DEF Pr!Answer, SubmitSizes, SubmitInv, SubmitTypes
<1>2. SubmitTypes'
  BY <1>1 DEF SubmitInv, SubmitTypes
<1>3. cmd # "connect" /\ cmd # "jobid"
  BY DEF SubmitInv, WrittenInv, EndInv
<1>4. WrittenInv'
  BY <1>3 DEF SubmitInv, WrittenInv
<1>5. ReadInv' /\ EndInv'
  BY <1>1, <1>3 DEF SubmitInv, ReadInv, EndInv
<1> QED BY <1>2, <1>4, <1>5 DEF SubmitInv

\* The thread: read the header, store the file, answer.
LEMMA ThreadStep ==
  ASSUME SubmitSizes, SubmitInv, Pr!treadn \/ Pr!Upload \/ Pr!Accepted \/ Pr!Network
  PROVE  SubmitInv'
<1>1. CASE Pr!treadn
  <2>1. CASE hleft > 0 /\ Pr!tread(hleft) /\ hleft' = hleft - (taken' - taken)
             /\ UNCHANGED <<at, ok, down, quiet, stored>>
    <3>1. taken' \in Nat /\ taken' <= up /\ taken' > taken /\ taken' <= taken + hleft
      BY <2>1, TreadTakes DEF SubmitInv, SubmitTypes
    <3>2. at = "header" /\ UNCHANGED <<size, namelen, cmd, nleft, fileleft, up, got, stall>>
      BY <1>1 DEF Pr!treadn
    <3>3. hleft' \in Nat /\ hleft' + taken' = hleft + taken
      <4>1. hleft' = hleft - (taken' - taken) /\ hleft \in Nat /\ taken \in Nat /\ up \in Nat
        BY <2>1 DEF SubmitInv, SubmitTypes
      <4>2. \A h, t, w \in Nat : w > t /\ w <= t + h =>
              h - (w - t) \in Nat /\ h - (w - t) + w = h + t
        OBVIOUS
      <4>3. hleft \in Nat /\ taken \in Nat /\ taken' \in Nat /\ taken' > taken /\ taken' <= taken + hleft
        BY <3>1, <4>1
      <4> QED BY <4>1, <4>2, <4>3
    <3> QED BY <2>1, <3>1, <3>2, <3>3
        DEF SubmitSizes, SubmitInv, SubmitTypes, WrittenInv, ReadInv, EndInv
  <2>2. CASE hleft > 0 /\ Pr!NoMore /\ at' = "gone" /\ Pr!Answer(FALSE)
             /\ UNCHANGED <<taken, hleft, stored>>
    <3>1. quiet' \in BOOLEAN /\ (quiet => quiet')
      BY <2>2, QuietStep
    <3>2. at = "header" /\ UNCHANGED <<size, namelen, cmd, nleft, fileleft, up, got>>
      BY <1>1 DEF Pr!treadn
    <3> QED BY <2>2, <3>1, <3>2, Refused
  <2>3. CASE at' = "gone" /\ Pr!Answer(FALSE) /\ UNCHANGED <<taken, hleft, quiet, stored>>
    <3>1. at = "header" /\ UNCHANGED <<size, namelen, cmd, nleft, fileleft, up, got>>
      BY <1>1 DEF Pr!treadn
    <3>2. quiet' \in BOOLEAN
      BY <2>3 DEF SubmitInv, SubmitTypes
    <3> QED BY <2>3, <3>1, <3>2, Refused
  <2>4. CASE /\ hleft = 0 /\ at' = "data" /\ stored' = [from |-> taken, to |-> taken]
             /\ UNCHANGED <<taken, hleft, ok, down, quiet>>
    <3>1. at = "header" /\ UNCHANGED <<size, namelen, cmd, nleft, fileleft, up, got, stall>>
      BY <1>1 DEF Pr!treadn
    <3>2. taken = HDR /\ ~ok
      BY <2>4, <3>1 DEF SubmitSizes, SubmitInv, SubmitTypes, ReadInv, EndInv
    <3> QED BY <2>4, <3>1, <3>2
        DEF SubmitSizes, SubmitInv, SubmitTypes, WrittenInv, ReadInv, EndInv
  <2> QED BY <1>1, <2>1, <2>2, <2>3, <2>4 DEF Pr!treadn
<1>2. CASE Pr!Upload
  <2>1. at = "data" /\ UNCHANGED <<size, namelen, cmd, nleft, fileleft, hleft, up, got, stall>>
    BY <1>2 DEF Pr!Upload
  <2>2. CASE Pr!tread(IOBUFSZ) /\ stored' = [stored EXCEPT !.to = taken']
             /\ UNCHANGED <<at, ok, down, quiet>>
    <3>1. taken' \in Nat /\ taken' <= up /\ taken' > taken
      BY <2>2, TreadTakes DEF SubmitSizes
    <3> QED BY <2>1, <2>2, <3>1
        DEF SubmitSizes, SubmitInv, SubmitTypes, WrittenInv, ReadInv, EndInv
  <2>3. CASE Pr!NoMore /\ at' = "accept" /\ UNCHANGED <<taken, stored, ok, down>>
    <3>1. /\ quiet' \in BOOLEAN /\ (quiet => quiet')
          /\ quiet' \/ cmd \in {"error", "dead"} \/ (taken = up /\ cmd \notin {"header", "data"})
      BY <2>3, QuietStep
    <3> QED BY <2>1, <2>3, <3>1
        DEF SubmitSizes, SubmitInv, SubmitTypes, WrittenInv, ReadInv, EndInv
  <2>4. CASE at' = "gone" /\ Pr!Answer(FALSE) /\ UNCHANGED <<taken, stored, quiet>>
    <3>1. quiet' \in BOOLEAN
      BY <2>4 DEF SubmitInv, SubmitTypes
    <3> QED BY <2>1, <2>4, <3>1, Refused
  <2> QED BY <1>2, <2>2, <2>3, <2>4 DEF Pr!Upload
<1>3. CASE Pr!Accepted
  <2>1. PICK good \in BOOLEAN : Pr!Answer(good)
    BY <1>3 DEF Pr!Accepted
  <2> QED BY <1>3, <2>1 DEF Pr!Accepted, Pr!Answer,
        SubmitSizes, SubmitInv, SubmitTypes, WrittenInv, ReadInv, EndInv
<1>4. CASE Pr!Network
  BY <1>4 DEF Pr!Network, SubmitSizes, SubmitInv, SubmitTypes, WrittenInv, ReadInv, EndInv
<1> QED BY <1>1, <1>2, <1>3, <1>4

\* A step of the command, the thread or the network.
LEMMA SubmitStep == SubmitSizes /\ SubmitInv /\ [Pr!Next]_(Pr!vars) => SubmitInv'
<1> SUFFICES ASSUME SubmitSizes, SubmitInv, [Pr!Next]_(Pr!vars) PROVE SubmitInv'
  OBVIOUS
<1>1. CASE UNCHANGED Pr!vars
  BY <1>1 DEF Pr!vars, SubmitInv, SubmitTypes, WrittenInv, ReadInv, EndInv
<1> QED BY <1>1, CommandStep, ThreadStep DEF Pr!Next, Pr!Ended

\* What a user of print sees.
LEMMA SubmitPromises == SubmitSizes /\ SubmitInv => Pr!HeaderApart /\ Pr!AckedWhole /\ Pr!NameFits
<1> SUFFICES ASSUME SubmitSizes, SubmitInv PROVE Pr!HeaderApart /\ Pr!AckedWhole /\ Pr!NameFits
  OBVIOUS
<1>1. Pr!HeaderApart
  BY DEF SubmitInv, ReadInv, Pr!HeaderApart
<1>2. Pr!AckedWhole
  BY DEF SubmitInv, SubmitTypes, WrittenInv, ReadInv, EndInv, Pr!AckedWhole
<1>3. Pr!NameFits
  BY DEF SubmitSizes, SubmitInv, SubmitTypes, Pr!NameFits, Pr!jobnm
<1> QED BY <1>1, <1>2, <1>3

\* Whatever the connection does to the stream, what the client thread stores
\* starts after the header, and a command that prints a job ID has its whole
\* file stored, unless a silence was taken for its end; the job's name has room
\* for its null byte.  For all sizes of headers, buffers, files and names.
THEOREM SubmitTheorem ==
  SubmitSizes => (SubmitSpec => [](Pr!HeaderApart /\ Pr!AckedWhole /\ Pr!NameFits))
<1> SUFFICES ASSUME SubmitSizes
             PROVE  SubmitSpec => [](Pr!HeaderApart /\ Pr!AckedWhole /\ Pr!NameFits)
  OBVIOUS
<1>1. Pr!Init => SubmitInv
  BY SubmitInit
<1>2. SubmitInv /\ [Pr!Next]_(Pr!vars) => SubmitInv'
  BY SubmitStep
<1>3. SubmitInv => Pr!HeaderApart /\ Pr!AckedWhole /\ Pr!NameFits
  BY SubmitPromises
<1> QED BY <1>1, <1>2, <1>3, PTL DEF SubmitSpec
-----------------------------------------------------------------------------
(***************************************************************************)
(* The modes of a terminal: lib/ttymodes.c and termios/getpass.c.          *)
(***************************************************************************)
CONSTANTS Both, RawOnly, Tty, MAX_PASS_LEN, MaxCall
VARIABLES term, orig, save_termios, ttysavefd, ttystate, tpc, tfd, tbuf, typed, calls, ots,
          tmask, tpend, ended, tharm
Tm == INSTANCE Terminal WITH
  pc <- tpc, fd <- tfd, buf <- tbuf, mask <- tmask, pend <- tpend, harm <- tharm

\* ECHO and ISIG are among the settings taken away; the one that raw mode sets is not.
TerminalSizes == "ECHO" \in Both /\ "ISIG" \in RawOnly /\ "CS8" \notin Both \union RawOnly

TerminalSpec == Tm!Init /\ [][Tm!Next]_(Tm!vars)

TerminalTypes ==
  /\ orig \in [Tty -> SUBSET Tm!Flag] /\ term \in [Tty -> SUBSET Tm!Flag]
  /\ save_termios \in SUBSET Tm!Flag /\ ots \in SUBSET Tm!Flag
  /\ ttystate \in {"reset", "cbreak", "raw"}
  /\ tpc \in {"out", "cbreak", "raw", "blocked", "read", "echo"}

\* In a mode: what is saved is what was there before, and the mode is all there.
ModeInv ==
  ttystate # "reset" =>
    /\ ttysavefd \in Tty /\ tpc = "out" /\ (ttysavefd \notin tharm => save_termios = orig[ttysavefd])
    /\ term[ttysavefd] = Tm!Wanted(ttystate, save_termios)

\* Before the verification: some of the changes are made.
ChangeInv ==
  tpc \in {"cbreak", "raw"} =>
    /\ ttystate = "reset" /\ tfd \in Tty /\ (tfd \notin tharm => save_termios = orig[tfd])
    /\ term[tfd] \in Tm!tcsetattr(save_termios, Tm!Wanted(tpc, save_termios))

\* A terminal that is neither in a mode or on its way there, nor read by getpass, has its own settings.
OwnInv ==
  \A t \in Tty \ tharm : /\ ttystate = "reset" \/ t # ttysavefd
                         /\ tpc \notin {"cbreak", "raw", "read"} \/ t # tfd
                         => term[t] = orig[t]

\* In getpass the two signals are blocked, and the settings of the terminal are kept.
PassInv ==
  /\ tpc \in {"blocked", "read", "echo"} => ttystate = "reset" /\ tfd \in Tty /\ tmask = {"INT", "TSTP"}
  /\ tpc = "read" /\ tfd \notin tharm => ots = orig[tfd]
  /\ ended \in {"exit", "signal"} => tpc \in {"out", "cbreak", "raw"}

TerminalInv == TerminalTypes /\ ModeInv /\ ChangeInv /\ OwnInv /\ PassInv

\* Nothing is changed yet.
LEMMA TerminalInit == TerminalSizes /\ Tm!Init => TerminalInv
BY DEF TerminalSizes, Tm!Init, TerminalInv, TerminalTypes, ModeInv, ChangeInv, OwnInv, PassInv, Tm!Flag, Tm!None

\* What tcsetattr leaves is the mode as a whole if the verification says so,
\* although it looks only at the settings that the mode is about.
LEMMA StuckWhole ==
  ASSUME TerminalSizes, NEW mode \in {"cbreak", "raw"}, NEW from \in SUBSET Tm!Flag,
         NEW now \in Tm!tcsetattr(from, Tm!Wanted(mode, from)), Tm!Stuck(mode, now)
  PROVE  now = Tm!Wanted(mode, from)
<1>1. PICK done \in SUBSET ((from \ Tm!Wanted(mode, from)) \union (Tm!Wanted(mode, from) \ from)) :
        now = (from \ done) \union (done \intersect Tm!Wanted(mode, from))
  BY DEF Tm!tcsetattr
<1>2. Tm!Cleared(mode) \intersect Tm!IsSet(mode) = {}
  BY DEF TerminalSizes, Tm!Cleared, Tm!IsSet
<1>3. now \intersect Tm!Cleared(mode) = {} /\ Tm!IsSet(mode) \subseteq now
  BY DEF Tm!Stuck
<1> QED BY <1>1, <1>2, <1>3 DEF Tm!Wanted

\* A terminal is put back, or harm is done to it; no other is touched.
LEMMA PutBackRight ==
  ASSUME TerminalTypes, NEW t \in Tty, NEW saved \in SUBSET Tm!Flag,
         NEW outcomes, outcomes \subseteq {term[t]} \union Tm!tcsetattr(term[t], saved),
         Tm!PutBack(t, saved, outcomes)
  PROVE  /\ term' \in [Tty -> SUBSET Tm!Flag] /\ \A u \in Tty : u # t => term'[u] = term[u]
         /\ tharm \subseteq tharm' /\ \A u \in Tty : u # t => (u \in tharm' => u \in tharm)
         /\ t \notin tharm' => t \notin tharm /\ term'[t] = saved
<1>1. PICK now \in outcomes : /\ term' = [term EXCEPT ![t] = now]
                             /\ tharm' = IF now = saved THEN tharm ELSE tharm \union {t}
  BY DEF Tm!PutBack
<1>2. term \in [Tty -> SUBSET Tm!Flag] /\ term[t] \in SUBSET Tm!Flag
  BY DEF TerminalTypes
<1>3. now \in SUBSET Tm!Flag
  <2>1. now = term[t] \/ now \in Tm!tcsetattr(term[t], saved)
    OBVIOUS
  <2>2. now \in Tm!tcsetattr(term[t], saved) => now \subseteq term[t] \union saved
    BY DEF Tm!tcsetattr
  <2> QED BY <1>2, <2>1, <2>2
<1>4. term' \in [Tty -> SUBSET Tm!Flag] /\ term'[t] = now /\ \A u \in Tty : u # t => term'[u] = term[u]
  BY <1>1, <1>2, <1>3
<1> QED BY <1>1, <1>4

\* tty_cbreak and tty_raw, up to the verification.
LEMMA SetModeStep ==
  ASSUME TerminalInv, NEW t \in Tty, NEW mode \in {"cbreak", "raw"}, Tm!SetMode(t, mode)
  PROVE  TerminalInv'
<1>1. tpc = "out" /\ ended = "none"
      /\ UNCHANGED <<orig, ttysavefd, ttystate, tbuf, typed, ots, tmask, tpend, ended, tharm>>
  BY DEF Tm!SetMode, Tm!CallOk, Tm!None
<1>2. CASE UNCHANGED <<save_termios, term, tpc, tfd>>
  BY <1>1, <1>2 DEF TerminalInv, TerminalTypes, ModeInv, ChangeInv, OwnInv, PassInv
<1>3. CASE ~UNCHANGED <<save_termios, term, tpc, tfd>>
  <2>1. ttystate = "reset" /\ save_termios' = term[t]
    BY <1>3 DEF Tm!SetMode, Tm!Change
  <2>2. term[t] \in SUBSET Tm!Flag /\ (t \notin tharm => term[t] = orig[t])
    BY <1>1, <2>1 DEF TerminalInv, TerminalTypes, OwnInv
  <2>3. CASE UNCHANGED <<term, tpc, tfd>>
    BY <1>1, <2>1, <2>2, <2>3 DEF TerminalInv, TerminalTypes, ModeInv, ChangeInv, OwnInv, PassInv
  <2>4. CASE ~UNCHANGED <<term, tpc, tfd>>
    <3>1. PICK now \in Tm!tcsetattr(term[t], Tm!Wanted(mode, term[t])) :
            term' = [term EXCEPT ![t] = now] /\ tpc' = mode /\ tfd' = t
      BY <2>1, <2>4 DEF Tm!SetMode, Tm!Change
    <3>2. now \in SUBSET Tm!Flag
      <4>1. Tm!Wanted(mode, term[t]) \in SUBSET Tm!Flag
        BY <2>2 DEF Tm!Wanted, Tm!IsSet, Tm!Flag
      <4> QED BY <2>2, <3>1, <4>1 DEF Tm!tcsetattr
    <3>3. term' \in [Tty -> SUBSET Tm!Flag] /\ term'[t] = now /\ \A u \in Tty : u # t => term'[u] = term[u]
      BY <3>1, <3>2 DEF TerminalInv, TerminalTypes
    <3>4. term'[t] \in Tm!tcsetattr(save_termios', Tm!Wanted(tpc', save_termios'))
      BY <2>1, <3>1, <3>3
    <3>5. ChangeInv'
      <4>1. tpc' = mode /\ tfd' = t /\ ttystate' = "reset" /\ (t \notin tharm' => save_termios' = orig'[t])
        BY <1>1, <2>1, <2>2, <3>1
      <4> QED BY <3>4, <4>1, Zenon DEF ChangeInv, Tm!tcsetattr, Tm!Wanted, Tm!Cleared, Tm!IsSet
    <3> QED BY <1>1, <2>1, <2>2, <3>1, <3>3, <3>5 DEF TerminalInv, TerminalTypes, ModeInv, OwnInv, PassInv
  <2> QED BY <2>3, <2>4
<1> QED BY <1>2, <1>3

\* The verification: the mode is there as a whole, or the terminal is put back.
LEMMA VerifyStep == ASSUME TerminalSizes, TerminalInv, Tm!Verify PROVE TerminalInv'
<1>1. /\ tpc \in {"cbreak", "raw"} /\ tpc' = "out" /\ UNCHANGED <<orig, save_termios, ots, tmask, ended>>
      /\ ttystate = "reset" /\ tfd \in Tty /\ (tfd \notin tharm => save_termios = orig[tfd])
  BY DEF Tm!Verify, TerminalInv, ChangeInv
<1>2. CASE Tm!Stuck(tpc, term[tfd]) /\ ttystate' = tpc /\ ttysavefd' = tfd /\ UNCHANGED <<term, tharm>>
  <2>1. term[tfd] = Tm!Wanted(tpc, save_termios)
    BY <1>1, <1>2, StuckWhole DEF TerminalInv, TerminalTypes, ChangeInv
  <2>2. ModeInv'
    BY <1>1, <1>2, <2>1 DEF ModeInv, Tm!Wanted, Tm!Cleared, Tm!IsSet
  <2> QED BY <1>1, <1>2, <2>2 DEF TerminalInv, TerminalTypes, ChangeInv, OwnInv, PassInv
<1>3. CASE Tm!Unchecked(tfd, save_termios) /\ UNCHANGED <<ttystate, ttysavefd>>
  <2>1. PICK outcomes : /\ outcomes = {term[tfd]} \union Tm!tcsetattr(term[tfd], save_termios)
                        /\ Tm!PutBack(tfd, save_termios, outcomes)
    BY <1>3 DEF Tm!Unchecked
  <2>2. /\ term' \in [Tty -> SUBSET Tm!Flag] /\ \A u \in Tty : u # tfd => term'[u] = term[u]
        /\ tharm \subseteq tharm' /\ \A u \in Tty : u # tfd => (u \in tharm' => u \in tharm)
        /\ tfd \notin tharm' => tfd \notin tharm /\ term'[tfd] = save_termios
    BY <1>1, <2>1, PutBackRight DEF TerminalInv, TerminalTypes
  <2> QED BY <1>1, <1>3, <2>2 DEF TerminalInv, TerminalTypes, ModeInv, ChangeInv, OwnInv, PassInv
<1> QED BY <1>2, <1>3 DEF Tm!Verify

\* tty_reset, tty_atexit and sig_catch: what was saved is put back, or the call fails.
LEMMA ResetStep ==
  ASSUME TerminalInv, (\E t \in Tty : Tm!tty_reset(t)) \/ Tm!tty_atexit \/ Tm!sig_catch PROVE TerminalInv'
<1>1. /\ tpc \in {"out", "cbreak", "raw"} /\ Tm!Reset(ttysavefd)
      /\ UNCHANGED <<orig, save_termios, ttysavefd, tpc, tfd, ots, tmask>>
  BY DEF Tm!tty_reset, Tm!tty_atexit, Tm!sig_catch, Tm!ResetAndExit
<1>2. CASE UNCHANGED <<term, ttystate, tharm>>
  <2>1. TerminalTypes' /\ ModeInv' /\ OwnInv' /\ PassInv'
    BY <1>1, <1>2 DEF TerminalInv, TerminalTypes, ModeInv, OwnInv, PassInv
  <2>2. ChangeInv'
    BY <1>1, <1>2 DEF TerminalInv, ChangeInv, Tm!tcsetattr, Tm!Wanted, Tm!Cleared, Tm!IsSet
  <2> QED BY <2>1, <2>2 DEF TerminalInv
<1>3. CASE ~UNCHANGED <<term, ttystate, tharm>>
  <2>1. /\ ttystate # "reset" /\ ttystate' = "reset" /\ ttysavefd \in Tty /\ tpc = "out"
        /\ Tm!PutBack(ttysavefd, save_termios, Tm!tcsetattr(term[ttysavefd], save_termios))
        /\ ttysavefd \notin tharm => save_termios = orig[ttysavefd]
    BY <1>1, <1>3 DEF Tm!Reset, TerminalInv, ModeInv
  <2>2. PICK outcomes : /\ outcomes = Tm!tcsetattr(term[ttysavefd], save_termios)
                        /\ Tm!PutBack(ttysavefd, save_termios, outcomes)
    BY <2>1
  <2>3. /\ term' \in [Tty -> SUBSET Tm!Flag] /\ \A u \in Tty : u # ttysavefd => term'[u] = term[u]
        /\ tharm \subseteq tharm' /\ \A u \in Tty : u # ttysavefd => (u \in tharm' => u \in tharm)
        /\ ttysavefd \notin tharm' => ttysavefd \notin tharm /\ term'[ttysavefd] = save_termios
    BY <2>1, <2>2, PutBackRight DEF TerminalInv, TerminalTypes
  <2> QED BY <1>1, <2>1, <2>3 DEF TerminalInv, TerminalTypes, ModeInv, ChangeInv, OwnInv, PassInv
<1> QED BY <1>2, <1>3

\* getpass.
LEMMA PassStep ==
  ASSUME TerminalInv,
         \/ \E t \in Tty : Tm!PassBlock(t)
         \/ Tm!PassNoEcho \/ Tm!PassChar \/ Tm!PassEnd \/ Tm!PassUnblock
  PROVE  TerminalInv'
<1> USE DEF TerminalInv, TerminalTypes, ModeInv, ChangeInv, OwnInv, PassInv, Tm!None
<1>1. ASSUME NEW t \in Tty, Tm!PassBlock(t) PROVE TerminalInv'
  BY <1>1 DEF Tm!PassBlock, Tm!CallOk
<1>2. CASE Tm!PassNoEcho
  BY <1>2 DEF Tm!PassNoEcho
<1>3. CASE Tm!PassChar
  BY <1>3 DEF Tm!PassChar
<1>4. CASE Tm!PassEnd
  <2>1. PICK outcomes : /\ outcomes = {term[tfd]} \union Tm!tcsetattr(term[tfd], ots)
                        /\ Tm!PutBack(tfd, ots, outcomes)
    BY <1>4 DEF Tm!PassEnd, Tm!Unchecked
  <2>2. tpc = "read" /\ tfd \in Tty
    BY <1>4 DEF Tm!PassEnd
  <2>3. /\ term' \in [Tty -> SUBSET Tm!Flag] /\ \A u \in Tty : u # tfd => term'[u] = term[u]
        /\ tharm \subseteq tharm' /\ \A u \in Tty : u # tfd => (u \in tharm' => u \in tharm)
        /\ tfd \notin tharm' => tfd \notin tharm /\ term'[tfd] = ots
    BY <2>1, <2>2, PutBackRight, SMTT(30)
  <2> QED BY <1>4, <2>2, <2>3 DEF Tm!PassEnd
<1>5. CASE Tm!PassUnblock
  BY <1>5 DEF Tm!PassUnblock
<1> QED BY <1>1, <1>2, <1>3, <1>4, <1>5

\* Every step keeps the invariant; in getpass a key can end the program only by SIGQUIT.
LEMMA TerminalStep ==
  ASSUME TerminalSizes, TerminalInv, [Tm!Next]_(Tm!vars) PROVE TerminalInv'
<1>1. ASSUME UNCHANGED <<term, orig, save_termios, ttysavefd, ttystate, tpc, tfd, ots, tmask, tharm>>,
             ended' \in {"exit", "signal"} => tpc \in {"out", "cbreak", "raw"}
      PROVE  TerminalInv'
  <2>1. TerminalTypes' /\ ModeInv' /\ OwnInv' /\ PassInv'
    BY <1>1 DEF TerminalInv, TerminalTypes, ModeInv, OwnInv, PassInv
  <2>2. ChangeInv'
    BY <1>1 DEF TerminalInv, ChangeInv, Tm!tcsetattr, Tm!Wanted, Tm!Cleared, Tm!IsSet
  <2> QED BY <2>1, <2>2 DEF TerminalInv
<1>2. CASE UNCHANGED Tm!vars
  BY <1>1, <1>2 DEF Tm!vars, TerminalInv, PassInv
<1>3. ASSUME NEW sig \in {"INT", "TSTP", "QUIT", "TERM"}, Tm!Key(sig) PROVE TerminalInv'
  <2>1. UNCHANGED <<term, orig, save_termios, ttysavefd, ttystate, tpc, tfd, ots, tmask, tharm>>
    BY <1>3 DEF Tm!Key
  <2>2. ended' \in {"exit", "signal"} => tpc \in {"out", "cbreak", "raw"}
    BY <1>3 DEF Tm!Key, TerminalInv, TerminalTypes, PassInv
  <2> QED BY <1>1, <2>1, <2>2
<1>4. ASSUME NEW t \in Tty, Tm!tty_cbreak(t) \/ Tm!tty_raw(t) PROVE TerminalInv'
  BY <1>4, SetModeStep DEF Tm!tty_cbreak, Tm!tty_raw
<1> QED BY <1>2, <1>3, <1>4, VerifyStep, ResetStep, PassStep DEF Tm!Next, Tm!Ended

\* What the invariant says to a program that ends, and to its user.
LEMMA TerminalPromises == TerminalSizes /\ TerminalInv => Tm!ModeKnown /\ Tm!NoHalfMode /\ Tm!EchoBack
<1> SUFFICES ASSUME TerminalSizes, TerminalInv PROVE Tm!ModeKnown /\ Tm!NoHalfMode /\ Tm!EchoBack
  OBVIOUS
<1>1. Tm!NoHalfMode
  BY DEF TerminalInv, ModeInv, Tm!NoHalfMode
<1>2. ttystate # "reset" => Tm!Stuck(ttystate, term[ttysavefd])
  BY DEF TerminalSizes, TerminalInv, TerminalTypes, ModeInv, Tm!Stuck, Tm!Wanted, Tm!Cleared, Tm!IsSet
<1>3. Tm!ModeKnown
  BY <1>2 DEF TerminalInv, ModeInv, OwnInv, Tm!ModeKnown
<1>4. Tm!EchoBack
  BY DEF TerminalInv, TerminalTypes, OwnInv, PassInv, Tm!EchoBack
<1> QED BY <1>1, <1>3, <1>4

\* A terminal is in the mode that ttystate says, as a whole, however much of a
\* change tcsetattr has made; what tty_reset puts back is what was there first;
\* and a program that ends by exit, from a handler too, or by a signal of the
\* keyboard that getpass blocks leaves every terminal as it was.  Excepted are a
\* terminal that a call did not restore, or in part, and a signal that comes
\* between tcsetattr and the assignment to ttystate.  For any terminals, calls
\* and settings.
THEOREM TerminalTheorem ==
  TerminalSizes => (TerminalSpec => [](Tm!ModeKnown /\ Tm!NoHalfMode /\ Tm!EchoBack))
<1> SUFFICES ASSUME TerminalSizes PROVE TerminalSpec => [](Tm!ModeKnown /\ Tm!NoHalfMode /\ Tm!EchoBack)
  OBVIOUS
<1>1. Tm!Init => TerminalInv
  BY TerminalInit
<1>2. TerminalInv /\ [Tm!Next]_(Tm!vars) => TerminalInv'
  BY TerminalStep
<1>3. TerminalInv => Tm!ModeKnown /\ Tm!NoHalfMode /\ Tm!EchoBack
  BY TerminalPromises
<1> QED BY <1>1, <1>2, <1>3, PTL DEF TerminalSpec

-----------------------------------------------------------------------------
(***************************************************************************)
(* The copies of advio: rot13a.c, rot13c2.c.in and mcopy2.c.               *)
(***************************************************************************)
CONSTANTS BSZ, NBUF, COPYINCR, MaxSize, Text
VARIABLES way, insize, st_size, out, off, op, last, busy, pos, nread, slot, numop, cst
Cp == INSTANCE FileCopy WITH kind <- way, size <- insize, n <- nread, i <- slot, st <- cst

CopySizes ==
  /\ BSZ \in Nat \ {0} /\ NBUF \in Nat /\ COPYINCR \in Nat /\ MaxSize \in Nat
  /\ Text \in [0..MaxSize - 1 -> Int]
CopySpec == Cp!Init /\ [][Cp!Next]_(Cp!vars)

CopyTypes ==
  /\ way \in {"aio", "read", "mmap"} /\ cst \in {"run", "suspend", "done", "cut", "failed"}
  /\ (cst = "cut" => way = "read")
  /\ st_size \in 0..MaxSize /\ insize \in 0..st_size /\ off \in Nat
  /\ op \in [Cp!Buf -> {"UNUSED", "READ", "WRITE"}]
  /\ last \in [Cp!Buf -> BOOLEAN] /\ busy \in [Cp!Buf -> BOOLEAN]
  /\ pos \in [Cp!Buf -> Nat] /\ nread \in [Cp!Buf -> Nat]

\* What is in the output is the input at its place.
OutRight ==
  \A k \in DOMAIN out : /\ k \in 0..st_size - 1 /\ k < off
                        /\ out[k] = IF way = "mmap" THEN Text[k] ELSE Cp!translate(Text[k])

\* Through one buffer, or memory maps: the output has what comes before off.
InTurn ==
  way # "aio" =>
    /\ DOMAIN out = 0..off - 1 /\ off <= st_size /\ cst # "suspend"
    /\ \A b \in Cp!Buf : ~busy[b]
    /\ cst = "done" => insize <= off
    /\ cst = "done" /\ way = "mmap" => off = st_size

\* The requests counted are those under way or complete but not looked at.
Pending == {b \in Cp!Buf : op[b] # "UNUSED"}
Counted ==
  /\ numop = Cardinality(Pending)
  /\ way = "aio" /\ cst = "done" => numop = 0 /\ off >= st_size

\* A buffer has a block of its own; only the last block of the file is not a full one.
Owned(b) == op[b] # "UNUSED" \/ last[b]
Blocks ==
  \A b \in Cp!Buf :
    /\ op[b] = "UNUSED" => ~busy[b]
    /\ Owned(b) => pos[b] < st_size /\ pos[b] + BSZ <= off
    /\ Owned(b) => (last[b] <=> st_size <= pos[b] + BSZ)
    /\ \A c \in Cp!Buf : Owned(b) /\ Owned(c) /\ b # c =>
         pos[b] + BSZ <= pos[c] \/ pos[c] + BSZ <= pos[b]

\* What was read of it: all there was, unless the file became shorter.
ReadOf(b) == op[b] = "WRITE" \/ (op[b] = "READ" /\ ~busy[b]) \/ (op[b] = "UNUSED" /\ last[b])
Lengths ==
  \A b \in Cp!Buf : ReadOf(b) =>
    /\ nread[b] <= BSZ /\ pos[b] + nread[b] <= st_size
    /\ insize = st_size => nread[b] = BSZ \/ pos[b] + nread[b] = st_size
    /\ op[b] = "WRITE" /\ ~last[b] => nread[b] = BSZ

\* Every byte before off is in the output, or in a buffer, or behind what was
\* read of the last block; nothing of the output is there.
Covers(b, k) ==
  /\ pos[b] <= k /\ k < pos[b] + BSZ
  /\ op[b] # "UNUSED" \/ (last[b] /\ pos[b] + nread[b] <= k)
Complete ==
  /\ \A b \in Cp!Buf : op[b] = "WRITE" /\ ~busy[b] =>
       \A k \in pos[b]..pos[b] + nread[b] - 1 : k \in DOMAIN out
  /\ \A k \in 0..st_size - 1 : k < off => k \in DOMAIN out \/ \E b \in Cp!Buf : Covers(b, k)
  /\ \A b \in Cp!Buf, k \in DOMAIN out : last[b] /\ pos[b] <= k =>
       op[b] # "READ" /\ k < pos[b] + nread[b]

AioInv == way = "aio" => Blocks /\ Lengths /\ Complete
CopyInv == CopyTypes /\ OutRight /\ InTurn /\ Counted /\ AioInv

\* No request is made and nothing is written.
LEMMA CopyInit == CopySizes /\ Cp!Init => CopyInv
<1> SUFFICES ASSUME CopySizes, Cp!Init PROVE CopyInv
  OBVIOUS
<1>1. CopyTypes
  BY DEF CopySizes, Cp!Init, CopyTypes
<1>2. DOMAIN out = {} /\ off = 0 /\ cst = "run"
  BY DEF Cp!Init
<1>3. OutRight /\ InTurn
  BY <1>1, <1>2 DEF OutRight, InTurn, CopyTypes, Cp!Init
<1>4. Counted
  <2>1. Pending = {} /\ numop = 0
    BY DEF Cp!Init, Pending
  <2> QED BY <1>2, <2>1, FS_EmptySet DEF Counted
<1>5. Blocks /\ Lengths /\ Complete
  BY <1>1, <1>2 DEF Cp!Init, Blocks, Lengths, Complete, Owned, ReadOf, Covers, CopyTypes
<1> QED BY <1>1, <1>3, <1>4, <1>5 DEF CopyInv, AioInv

\* rot13 twice is the character itself.
LEMMA RotTwice == \A c \in Int : Cp!translate(Cp!translate(c)) = c
BY DEF Cp!translate, Cp!Upper, Cp!Lower

\* A write puts a part of the text where it belongs.
LEMMA StoreRight ==
  ASSUME CopySizes, CopyTypes, OutRight, NEW from \in Nat, NEW len \in Nat, from + len <= st_size,
         from + len <= off', off <= off', off' \in Nat, UNCHANGED <<st_size, way>>,
         Cp!Store(from, len, IF way = "mmap" THEN Text ELSE Cp!Rot13)
  PROVE  OutRight' /\ DOMAIN out' = DOMAIN out \union from..from + len - 1
<1>1. PICK t : t = IF way = "mmap" THEN Text ELSE Cp!Rot13
  OBVIOUS
<1>2. \A k \in from..from + len - 1 :
        k \in 0..st_size - 1 /\ k < off'
        /\ t[k] = IF way = "mmap" THEN Text[k] ELSE Cp!translate(Text[k])
  <2>1. from..from + len - 1 \subseteq 0..st_size - 1 /\ 0..st_size - 1 \subseteq 0..MaxSize - 1
    BY DEF CopySizes, CopyTypes
  <2>2. DOMAIN Text = 0..MaxSize - 1
    BY DEF CopySizes
  <2>3. \A k \in from..from + len - 1 : k < off'
    OBVIOUS
  <2> QED BY <1>1, <2>1, <2>2, <2>3 DEF Cp!Rot13
<1>3. out' = [k \in DOMAIN out \union from..from + len - 1 |->
               IF k \in from..from + len - 1 THEN t[k] ELSE out[k]]
  BY <1>1 DEF Cp!Store
<1>4. DOMAIN out' = DOMAIN out \union from..from + len - 1
  BY <1>3
<1>5. \A k \in DOMAIN out : k \in 0..st_size - 1 /\ k < off'
                            /\ out[k] = IF way = "mmap" THEN Text[k] ELSE Cp!translate(Text[k])
  BY DEF OutRight, CopyTypes
<1>6. ASSUME NEW k \in DOMAIN out'
      PROVE  /\ k \in 0..st_size - 1 /\ k < off'
             /\ out'[k] = IF way = "mmap" THEN Text[k] ELSE Cp!translate(Text[k])
  <2>1. CASE k \in from..from + len - 1
    <3>1. out'[k] = t[k]
      BY <1>3, <1>4, <2>1
    <3> QED BY <1>2, <2>1, <3>1
  <2>2. CASE k \notin from..from + len - 1
    <3>1. out'[k] = out[k] /\ k \in DOMAIN out
      BY <1>3, <1>4, <2>2
    <3> QED BY <1>5, <3>1
  <2> QED BY <2>1, <2>2
<1> QED BY <1>4, <1>6 DEF OutRight
\* The set of requests is finite.
LEMMA PendingFinite == CopySizes => IsFiniteSet(Pending)
<1>1. CopySizes => IsFiniteSet(Cp!Buf)
  BY FS_Interval DEF CopySizes, Cp!Buf
<1> QED BY <1>1, FS_Subset DEF Pending

\* A round of rot13a copies the next bytes, or ends at the end of the input.
LEMMA ReadWriteStep == CopySizes /\ CopyInv /\ Cp!ReadWrite => CopyInv'
<1> SUFFICES ASSUME CopySizes, CopyInv, Cp!ReadWrite PROVE CopyInv'
  OBVIOUS
<1>1. CopyTypes /\ OutRight /\ InTurn /\ Counted
  BY DEF CopyInv
<1>2. way = "read" /\ cst = "run" /\ UNCHANGED <<way, insize, st_size, op, last, busy, pos, nread, slot, numop>>
  BY DEF Cp!ReadWrite, Cp!avars
<1>3. BSZ \in Nat /\ BSZ > 0 /\ off \in Nat /\ insize \in Nat /\ st_size \in Nat /\ insize <= st_size /\ off <= st_size
      /\ DOMAIN out = 0..off - 1
  BY <1>1, <1>2 DEF CopySizes, CopyTypes, InTurn
<1>4. PICK nr : nr = Cp!Min2(BSZ, insize - off)
  OBVIOUS
<1>5. nr \in Int /\ nr <= insize - off /\ (nr <= 0 => insize <= off)
  BY <1>3, <1>4 DEF Cp!Min2
<1>6. CASE nr > 0 /\ Cp!Store(off, nr, Cp!Rot13) /\ off' = off + nr /\ UNCHANGED cst
  <2>1. off \in Nat /\ nr \in Nat /\ off + nr <= st_size /\ off' \in Nat /\ off <= off' /\ off + nr <= off'
    BY <1>3, <1>5, <1>6
  <2>2. Cp!Store(off, nr, IF way = "mmap" THEN Text ELSE Cp!Rot13)
    BY <1>2, <1>6
  <2>3. OutRight' /\ DOMAIN out' = DOMAIN out \union off..off + nr - 1
    BY <1>1, <1>2, <2>1, <2>2, StoreRight
  <2>4. DOMAIN out' = 0..off' - 1
    BY <1>3, <1>6, <2>1, <2>3
  <2>5. CopyTypes'
    BY <1>1, <1>2, <1>6, <2>1 DEF CopyTypes
  <2>6. InTurn'
    BY <1>1, <1>2, <1>6, <2>1, <2>4 DEF InTurn
  <2>7. Counted' /\ AioInv'
    BY <1>1, <1>2, <1>6 DEF Counted, Pending, AioInv
  <2> QED BY <2>3, <2>5, <2>6, <2>7 DEF CopyInv
<1>7. CASE cst' \in {"failed", "done", "cut"} /\ UNCHANGED <<out, off>> /\ (cst' = "done" => nr <= 0)
  <2>1. CopyTypes' /\ OutRight'
    BY <1>1, <1>2, <1>7 DEF CopyTypes, OutRight
  <2>2. InTurn'
    BY <1>1, <1>2, <1>5, <1>7 DEF InTurn
  <2>3. Counted' /\ AioInv'
    BY <1>1, <1>2, <1>7 DEF Counted, Pending, AioInv
  <2> QED BY <2>1, <2>2, <2>3 DEF CopyInv
<1> QED BY <1>2, <1>4, <1>5, <1>6, <1>7 DEF Cp!ReadWrite

\* A round of mcopy2 copies what one memory map holds.
LEMMA MapCopyStep == CopySizes /\ CopyInv /\ Cp!MapCopy => CopyInv'
<1> SUFFICES ASSUME CopySizes, CopyInv, Cp!MapCopy PROVE CopyInv'
  OBVIOUS
<1>1. CopyTypes /\ OutRight /\ InTurn /\ Counted
  BY DEF CopyInv
<1>2. way = "mmap" /\ cst = "run" /\ UNCHANGED <<way, insize, st_size, op, last, busy, pos, nread, slot, numop>>
  BY DEF Cp!MapCopy, Cp!avars
<1>3. COPYINCR \in Nat /\ off \in Nat /\ insize \in Nat /\ st_size \in Nat /\ insize <= st_size /\ off <= st_size
      /\ DOMAIN out = 0..off - 1
  BY <1>1, <1>2 DEF CopySizes, CopyTypes, InTurn
<1>4. PICK sz : sz = Cp!copysz
  OBVIOUS
<1>5. sz \in Nat
  BY <1>3, <1>4 DEF Cp!copysz
<1>6. CASE off + sz <= insize /\ Cp!Store(off, sz, Text) /\ off' = off + sz /\ UNCHANGED cst
  <2>1. off + sz <= st_size /\ off' \in Nat /\ off <= off' /\ off + sz <= off'
    BY <1>3, <1>5, <1>6
  <2>2. Cp!Store(off, sz, IF way = "mmap" THEN Text ELSE Cp!Rot13)
    BY <1>2, <1>6
  <2>3. OutRight' /\ DOMAIN out' = DOMAIN out \union off..off + sz - 1
    BY <1>1, <1>2, <1>3, <1>5, <2>1, <2>2, StoreRight
  <2>4. DOMAIN out' = 0..off' - 1
    BY <1>3, <1>5, <1>6, <2>1, <2>3
  <2>5. CopyTypes'
    BY <1>1, <1>2, <1>6, <2>1 DEF CopyTypes
  <2>6. InTurn'
    BY <1>1, <1>2, <1>6, <2>1, <2>4 DEF InTurn
  <2>7. Counted' /\ AioInv'
    BY <1>1, <1>2, <1>6 DEF Counted, Pending, AioInv
  <2> QED BY <2>3, <2>5, <2>6, <2>7 DEF CopyInv
<1>7. CASE cst' \in {"failed", "done"} /\ UNCHANGED <<out, off>> /\ (cst' = "done" => ~(off < st_size))
  <2>1. CopyTypes' /\ OutRight'
    BY <1>1, <1>2, <1>7 DEF CopyTypes, OutRight
  <2>2. (off = st_size /\ insize <= off) \/ cst' = "failed"
    BY <1>3, <1>7
  <2>3. InTurn'
    BY <1>1, <1>2, <1>7, <2>2 DEF InTurn
  <2>4. Counted' /\ AioInv'
    BY <1>1, <1>2, <1>7 DEF Counted, Pending, AioInv
  <2> QED BY <2>1, <2>3, <2>4 DEF CopyInv
<1> QED BY <1>2, <1>4, <1>6, <1>7 DEF Cp!MapCopy
\* An unused buffer is given the next block.
LEMMA UnusedStep == CopySizes /\ CopyInv /\ Cp!Unused => CopyInv'
<1> SUFFICES ASSUME CopySizes, CopyInv, Cp!Unused PROVE CopyInv'
  OBVIOUS
<1>1. CopyTypes /\ OutRight /\ InTurn /\ Counted /\ AioInv
  BY DEF CopyInv
<1>2. /\ way = "aio" /\ cst = "run" /\ slot \in Cp!Buf /\ op[slot] = "UNUSED"
      /\ UNCHANGED <<way, insize, st_size, out, nread, cst>>
  BY DEF Cp!Unused
<1>3. Blocks /\ Lengths /\ Complete
  BY <1>1, <1>2 DEF AioInv
<1>4. CASE ~(off < st_size)
  <2>1. UNCHANGED <<op, pos, off, last, busy, numop>>
    BY <1>4 DEF Cp!Unused
  <2> QED BY <1>1, <1>2, <1>3, <2>1 DEF CopyInv, CopyTypes, OutRight, InTurn, Counted, Pending, AioInv,
         Blocks, Lengths, Complete, Owned, ReadOf, Covers
<1>5. CASE off < st_size
  <2> PICK a \in Cp!Buf : a = slot
    BY <1>2
  <2>1. op' = [op EXCEPT ![a] = "READ"] /\ pos' = [pos EXCEPT ![a] = off] /\ off' = off + BSZ
        /\ last' = [last EXCEPT ![a] = last[a] \/ off + BSZ >= st_size]
        /\ busy' = [busy EXCEPT ![a] = TRUE] /\ numop' = numop + 1
    BY <1>5 DEF Cp!Unused
  <2>2. BSZ \in Nat /\ BSZ > 0 /\ off \in Nat /\ insize \in Nat /\ st_size \in Nat /\ off' \in Nat /\ off <= off'
        /\ \A b \in Cp!Buf : pos[b] \in Nat /\ nread[b] \in Nat /\ last[b] \in BOOLEAN /\ busy[b] \in BOOLEAN
    BY <1>1, <2>1 DEF CopySizes, CopyTypes
  <2>3. ~last[a]
    BY <1>3, <1>5, <2>2 DEF Blocks, Owned
  <2>4. CopyTypes'
    BY <1>1, <1>2, <2>1, <2>2 DEF CopyTypes
  <2>5. op'[a] = "READ" /\ pos'[a] = off /\ busy'[a] /\ (last'[a] <=> off + BSZ >= st_size)
    BY <1>1, <2>1, <2>3 DEF CopyTypes
  <2>6. \A b \in Cp!Buf \ {a} : op'[b] = op[b] /\ pos'[b] = pos[b] /\ busy'[b] = busy[b] /\ last'[b] = last[b]
    BY <1>1, <2>1 DEF CopyTypes
  <2>7. OutRight' /\ InTurn'
    BY <1>1, <1>2, <2>2 DEF OutRight, InTurn
  <2>8. Counted'
    <3>1. a \notin Pending /\ Pending' = Pending \union {a}
      BY <1>2, <2>5, <2>6 DEF Pending
    <3>2. Cardinality(Pending \union {a}) = Cardinality(Pending) + 1
      BY <3>1, PendingFinite, FS_AddElement
    <3> QED BY <1>1, <1>2, <2>1, <3>1, <3>2 DEF Counted
  <2>9. Blocks'
    <3>1. ASSUME NEW b \in Cp!Buf
          PROVE  /\ (op[b] = "UNUSED" => ~busy[b])'
                 /\ (Owned(b) => pos[b] < st_size /\ pos[b] + BSZ <= off)'
                 /\ (Owned(b) => (last[b] <=> st_size <= pos[b] + BSZ))'
      <4>1. CASE b = a
        BY <1>2, <1>5, <2>1, <2>2, <2>5, <4>1 DEF Owned
      <4>2. CASE b # a
        <5>1. b \in Cp!Buf \ {a}
          BY <4>2
        <5>2. (op[b] = "UNUSED" => ~busy[b])
              /\ (Owned(b) => pos[b] < st_size /\ pos[b] + BSZ <= off)
              /\ (Owned(b) => (last[b] <=> st_size <= pos[b] + BSZ))
          BY <1>3 DEF Blocks
        <5> QED BY <1>2, <2>1, <2>2, <2>6, <5>1, <5>2 DEF Owned
      <4> QED BY <4>1, <4>2
    <3>2. ASSUME NEW b \in Cp!Buf, NEW c \in Cp!Buf, Owned(b)', Owned(c)', b # c
          PROVE  (pos[b] + BSZ <= pos[c] \/ pos[c] + BSZ <= pos[b])'
      <4>1. CASE b = a
        <5>1. c \in Cp!Buf \ {a} /\ Owned(c) /\ pos'[c] = pos[c]
          BY <2>6, <3>2, <4>1 DEF Owned
        <5>2. pos[c] + BSZ <= off
          BY <1>3, <5>1 DEF Blocks
        <5> QED BY <2>2, <2>5, <4>1, <5>1, <5>2
      <4>2. CASE c = a
        <5>1. b \in Cp!Buf \ {a} /\ Owned(b) /\ pos'[b] = pos[b]
          BY <2>6, <3>2, <4>2 DEF Owned
        <5>2. pos[b] + BSZ <= off
          BY <1>3, <5>1 DEF Blocks
        <5> QED BY <2>2, <2>5, <4>2, <5>1, <5>2
      <4>3. CASE b # a /\ c # a
        <5>1. Owned(b) /\ Owned(c) /\ pos'[b] = pos[b] /\ pos'[c] = pos[c]
          BY <2>6, <3>2, <4>3 DEF Owned
        <5> QED BY <1>3, <3>2, <5>1 DEF Blocks
      <4> QED BY <4>1, <4>2, <4>3
    <3> QED BY <3>1, <3>2 DEF Blocks
  <2>10. Lengths'
    <3> SUFFICES ASSUME NEW b \in Cp!Buf, ReadOf(b)'
                 PROVE  (/\ nread[b] <= BSZ /\ pos[b] + nread[b] <= st_size
                         /\ insize = st_size => nread[b] = BSZ \/ pos[b] + nread[b] = st_size
                         /\ op[b] = "WRITE" /\ ~last[b] => nread[b] = BSZ)'
      BY DEF Lengths
    <3>1. b \in Cp!Buf \ {a}
      BY <2>5 DEF ReadOf
    <3>2. ReadOf(b)
      BY <2>6, <3>1 DEF ReadOf
    <3> QED BY <1>2, <1>3, <2>6, <3>1, <3>2 DEF Lengths
  <2>11. Complete'
    <3>1. ASSUME NEW b \in Cp!Buf, (op[b] = "WRITE" /\ ~busy[b])'
          PROVE  (\A k \in pos[b]..pos[b] + nread[b] - 1 : k \in DOMAIN out)'
      <4>1. b \in Cp!Buf \ {a}
        BY <2>5, <3>1
      <4> QED BY <1>2, <1>3, <2>6, <3>1, <4>1 DEF Complete
    <3>2. ASSUME NEW k \in 0..st_size - 1, k < off'
          PROVE  k \in DOMAIN out \/ \E b \in Cp!Buf : Covers(b, k)'
      <4>1. CASE k < off
        <5>1. CASE k \in DOMAIN out
          BY <5>1
        <5>2. CASE \E b \in Cp!Buf : Covers(b, k)
          <6>1. PICK b \in Cp!Buf : Covers(b, k)
            BY <5>2
          <6>2. b \in Cp!Buf \ {a}
            BY <1>2, <2>3, <6>1 DEF Covers
          <6> QED BY <1>2, <2>6, <6>1, <6>2 DEF Covers
        <5> QED BY <1>3, <4>1, <5>1, <5>2 DEF Complete
      <4>2. CASE ~(k < off)
        <5>1. Covers(a, k)'
          BY <2>1, <2>2, <2>5, <3>2, <4>2 DEF Covers
        <5> QED BY <5>1
      <4> QED BY <4>1, <4>2
    <3>3. ASSUME NEW b \in Cp!Buf, NEW k \in DOMAIN out, last'[b], pos'[b] <= k
          PROVE  op'[b] # "READ" /\ k < pos'[b] + nread[b]
      <4>1. k < off /\ k \in Int
        BY <1>1 DEF OutRight
      <4>2. b \in Cp!Buf \ {a}
        BY <2>2, <2>5, <3>3, <4>1
      <4> QED BY <1>3, <2>6, <3>3, <4>2 DEF Complete
    <3> QED BY <1>2, <3>1, <3>2, <3>3 DEF Complete
  <2> QED BY <2>4, <2>7, <2>8, <2>9, <2>10, <2>11 DEF CopyInv, AioInv
<1> QED BY <1>4, <1>5
\* The loop's own moves, aio_suspend and a shorter input leave every block where it is.
LEMMA MoveStep ==
  CopySizes /\ CopyInv /\ (Cp!InProgress \/ Cp!RoundEnd \/ Cp!aio_suspend \/ Cp!Shorten \/ Cp!Ended) => CopyInv'
<1> SUFFICES ASSUME CopySizes, CopyInv,
                    Cp!InProgress \/ Cp!RoundEnd \/ Cp!aio_suspend \/ Cp!Shorten \/ Cp!Ended
             PROVE  CopyInv'
  OBVIOUS
<1>1. CopyTypes /\ OutRight /\ InTurn /\ Counted /\ AioInv
  BY DEF CopyInv
<1>2. UNCHANGED <<way, st_size, out, off, op, last, busy, pos, nread, numop>>
  BY DEF Cp!InProgress, Cp!RoundEnd, Cp!aio_suspend, Cp!Shorten, Cp!Ended, Cp!vars, Cp!avars
<1>3. insize' \in 0..st_size /\ (insize' = insize \/ (insize' # st_size /\ cst' \in {"run", "suspend"}))
  <2>1. insize \in Nat /\ st_size \in Nat /\ insize <= st_size
    BY <1>1 DEF CopyTypes, CopySizes
  <2> QED BY <2>1 DEF Cp!InProgress, Cp!RoundEnd, Cp!aio_suspend, Cp!Shorten, Cp!Ended, Cp!vars
<1>4. /\ cst' \in {"run", "suspend", "done", "cut", "failed"} /\ (cst' = "cut" => way = "read")
      /\ way # "aio" => cst' = cst
      /\ cst' # cst => cst' = "run" \/ cst' = "suspend" \/ (cst' = "done" /\ numop = 0 /\ off >= st_size)
  BY <1>1 DEF Cp!InProgress, Cp!RoundEnd, Cp!aio_suspend, Cp!Shorten, Cp!Ended, Cp!vars, CopyTypes, InTurn
<1>5. CopyTypes' /\ OutRight'
  BY <1>1, <1>2, <1>3, <1>4 DEF CopyTypes, OutRight
<1>6. InTurn'
  <2> SUFFICES ASSUME way # "aio" PROVE InTurn'
    BY <1>2 DEF InTurn
  <2>1. cst' = cst /\ (cst' = "done" => insize' = insize)
    BY <1>3, <1>4
  <2> QED BY <1>1, <1>2, <2>1 DEF InTurn
<1>7. Counted'
  <2>1. Pending' = Pending
    BY <1>2 DEF Pending
  <2> QED BY <1>1, <1>2, <1>4, <2>1 DEF Counted
<1>8. AioInv'
  <2> SUFFICES ASSUME way = "aio" PROVE Blocks' /\ Lengths' /\ Complete'
    BY <1>2 DEF AioInv
  <2>1. Blocks /\ Lengths /\ Complete
    BY <1>1 DEF AioInv
  <2>2. Blocks' /\ Complete'
    BY <1>2, <2>1 DEF Blocks, Complete, Owned, Covers
  <2>3. insize' = st_size' => insize = st_size
    BY <1>2, <1>3
  <2>4. Lengths'
    BY <1>2, <2>1, <2>3 DEF Lengths, ReadOf
  <2> QED BY <2>2, <2>4
<1> QED BY <1>5, <1>6, <1>7, <1>8 DEF CopyInv

\* A block that was read is to be written, unless it is short and not the last.
LEMMA ReadDoneStep == CopySizes /\ CopyInv /\ Cp!ReadDone => CopyInv'
<1> SUFFICES ASSUME CopySizes, CopyInv, Cp!ReadDone PROVE CopyInv'
  OBVIOUS
<1>1. CopyTypes /\ OutRight /\ InTurn /\ Counted /\ AioInv
  BY DEF CopyInv
<1>2. /\ way = "aio" /\ cst = "run" /\ slot \in Cp!Buf /\ op[slot] = "READ" /\ ~busy[slot]
      /\ UNCHANGED <<way, insize, st_size, out, off, last, pos, nread, numop>>
  BY DEF Cp!ReadDone
<1>3. Blocks /\ Lengths /\ Complete
  BY <1>1, <1>2 DEF AioInv
<1>4. CASE cst' = "failed" /\ UNCHANGED <<op, busy, slot>>
  <2>1. CopyTypes' /\ OutRight' /\ InTurn' /\ Counted'
    BY <1>1, <1>2, <1>4 DEF CopyTypes, OutRight, InTurn, Counted, Pending
  <2>2. Blocks' /\ Lengths' /\ Complete'
    BY <1>2, <1>3, <1>4 DEF Blocks, Lengths, Complete, Owned, ReadOf, Covers
  <2> QED BY <2>1, <2>2 DEF CopyInv, AioInv
<1>5. CASE /\ ~(nread[slot] # BSZ /\ ~last[slot])
           /\ op' = [op EXCEPT ![slot] = "WRITE"] /\ busy' = [busy EXCEPT ![slot] = TRUE] /\ UNCHANGED cst
  <2> PICK a \in Cp!Buf : a = slot
    BY <1>2
  <2>1. op'[a] = "WRITE" /\ busy'[a] /\ op[a] = "READ" /\ ~busy[a] /\ (~last[a] => nread[a] = BSZ)
    BY <1>1, <1>2, <1>5 DEF CopyTypes
  <2>2. \A b \in Cp!Buf \ {a} : op'[b] = op[b] /\ busy'[b] = busy[b]
    BY <1>1, <1>5 DEF CopyTypes
  <2>3. CopyTypes' /\ OutRight' /\ InTurn'
    BY <1>1, <1>2, <1>5 DEF CopyTypes, OutRight, InTurn
  <2>4. Counted'
    <3>1. Pending' = Pending
      BY <2>1, <2>2 DEF Pending
    <3> QED BY <1>1, <1>2, <1>5, <3>1 DEF Counted
  <2>5. \A b \in Cp!Buf : (op'[b] = "UNUSED" <=> op[b] = "UNUSED") /\ (Owned(b)' <=> Owned(b))
                          /\ (ReadOf(b)' <=> ReadOf(b)) /\ (op'[b] = "READ" => op[b] = "READ")
                          /\ (op'[b] = "UNUSED" => busy'[b] = busy[b])
    BY <1>2, <2>1, <2>2 DEF Owned, ReadOf
  <2>6. Blocks'
    BY <1>2, <1>3, <2>5 DEF Blocks
  <2>7. Lengths'
    <3> SUFFICES ASSUME NEW b \in Cp!Buf, ReadOf(b)'
                 PROVE  (/\ nread[b] <= BSZ /\ pos[b] + nread[b] <= st_size
                         /\ insize = st_size => nread[b] = BSZ \/ pos[b] + nread[b] = st_size
                         /\ op[b] = "WRITE" /\ ~last[b] => nread[b] = BSZ)'
      BY DEF Lengths
    <3>1. ReadOf(b)
      BY <2>5
    <3>2. op'[b] = "WRITE" /\ ~last[b] => nread[b] = BSZ
      BY <1>3, <2>1, <2>2, <3>1 DEF Lengths
    <3> QED BY <1>2, <1>3, <3>1, <3>2 DEF Lengths
  <2>8. Complete'
    <3>1. ASSUME NEW b \in Cp!Buf, (op[b] = "WRITE" /\ ~busy[b])'
          PROVE  (\A k \in pos[b]..pos[b] + nread[b] - 1 : k \in DOMAIN out)'
      <4>1. b \in Cp!Buf \ {a}
        BY <2>1, <3>1
      <4> QED BY <1>2, <1>3, <2>2, <3>1, <4>1 DEF Complete
    <3>2. \A b \in Cp!Buf, k \in 0..st_size - 1 : Covers(b, k) => Covers(b, k)'
      BY <1>2, <2>5 DEF Covers
    <3>3. \A b \in Cp!Buf, k \in DOMAIN out : last[b] /\ pos[b] <= k =>
            op'[b] # "READ" /\ k < pos[b] + nread[b]
      BY <1>3, <2>5 DEF Complete
    <3> QED BY <1>2, <1>3, <3>1, <3>2, <3>3 DEF Complete
  <2> QED BY <2>3, <2>4, <2>6, <2>7, <2>8 DEF CopyInv, AioInv
<1> QED BY <1>2, <1>4, <1>5 DEF Cp!ReadDone

\* A buffer is unused again once its block is in the output.
LEMMA WriteDoneStep == CopySizes /\ CopyInv /\ Cp!WriteDone => CopyInv'
<1> SUFFICES ASSUME CopySizes, CopyInv, Cp!WriteDone PROVE CopyInv'
  OBVIOUS
<1>1. CopyTypes /\ OutRight /\ InTurn /\ Counted /\ AioInv
  BY DEF CopyInv
<1>2. /\ way = "aio" /\ cst = "run" /\ slot \in Cp!Buf /\ op[slot] = "WRITE" /\ ~busy[slot]
      /\ op' = [op EXCEPT ![slot] = "UNUSED"] /\ numop' = numop - 1
      /\ UNCHANGED <<way, insize, st_size, out, off, last, busy, pos, nread, cst>>
  BY DEF Cp!WriteDone
<1>3. Blocks /\ Lengths /\ Complete
  BY <1>1, <1>2 DEF AioInv
<1> PICK a \in Cp!Buf : a = slot
  BY <1>2
<1>4. op'[a] = "UNUSED" /\ op[a] = "WRITE" /\ ~busy[a]
  BY <1>1, <1>2 DEF CopyTypes
<1>5. \A b \in Cp!Buf \ {a} : op'[b] = op[b]
  BY <1>1, <1>2 DEF CopyTypes
<1>6. CopyTypes' /\ OutRight' /\ InTurn'
  BY <1>1, <1>2 DEF CopyTypes, OutRight, InTurn
<1>7. Counted'
  <2>1. a \in Pending /\ Pending' = Pending \ {a}
    BY <1>4, <1>5 DEF Pending
  <2>2. Cardinality(Pending \ {a}) = Cardinality(Pending) - 1
    BY <2>1, PendingFinite, FS_RemoveElement
  <2> QED BY <1>1, <1>2, <2>1, <2>2 DEF Counted
<1>8. \A b \in Cp!Buf : (Owned(b)' => Owned(b)) /\ (ReadOf(b)' => ReadOf(b)) /\ (op'[b] # "UNUSED" => op'[b] = op[b])
  BY <1>2, <1>4, <1>5 DEF Owned, ReadOf
<1>9. \A b \in Cp!Buf : op'[b] = "UNUSED" => ~busy[b]
  BY <1>3, <1>4, <1>5 DEF Blocks
<1>10. Blocks'
  BY <1>2, <1>3, <1>8, <1>9 DEF Blocks
<1>11. Lengths'
  BY <1>2, <1>3, <1>8 DEF Lengths
<1>12. Complete'
  <2>1. \A b \in Cp!Buf : op'[b] = "WRITE" /\ ~busy[b] =>
          \A k \in pos[b]..pos[b] + nread[b] - 1 : k \in DOMAIN out
    BY <1>3, <1>8 DEF Complete
  <2>2. ASSUME NEW k \in 0..st_size - 1, k < off
        PROVE  k \in DOMAIN out \/ \E b \in Cp!Buf : Covers(b, k)'
    <3>1. CASE k \in DOMAIN out
      BY <3>1
    <3>2. CASE k \notin DOMAIN out
      <4>1. PICK b \in Cp!Buf : Covers(b, k)
        BY <1>3, <2>2, <3>2 DEF Complete
      <4>2. CASE b # a
        <5>1. op'[b] = op[b]
          BY <1>5, <4>2
        <5> QED BY <1>2, <4>1, <5>1 DEF Covers
      <4>3. CASE b = a
        <5>1. pos[a] \in Nat /\ nread[a] \in Nat /\ BSZ \in Nat /\ k \in Int
          BY <1>1 DEF CopyTypes, CopySizes
        <5>2. pos[a] <= k /\ k < pos[a] + BSZ
          BY <4>1, <4>3 DEF Covers
        <5>3. k \notin pos[a]..pos[a] + nread[a] - 1
          BY <1>3, <1>4, <3>2 DEF Complete
        <5>4. pos[a] + nread[a] <= k
          BY <5>1, <5>2, <5>3
        <5>5. nread[a] # BSZ
          BY <5>1, <5>2, <5>4
        <5>6. last[a]
          BY <1>3, <1>4, <5>5 DEF Lengths, ReadOf
        <5>7. Covers(a, k)'
          BY <1>2, <5>2, <5>4, <5>6 DEF Covers
        <5> QED BY <5>7
      <4> QED BY <4>2, <4>3
    <3> QED BY <3>1, <3>2
  <2>3. \A b \in Cp!Buf, k \in DOMAIN out : last[b] /\ pos[b] <= k =>
          op'[b] # "READ" /\ k < pos[b] + nread[b]
    BY <1>3, <1>8 DEF Complete
  <2> QED BY <1>2, <2>1, <2>2, <2>3 DEF Complete
<1> QED BY <1>6, <1>7, <1>10, <1>11, <1>12 DEF CopyInv, AioInv
\* A complete read holds what the file has there now.
LEMMA ReadComplete ==
  ASSUME CopySizes, CopyInv, way = "aio", cst \in {"run", "suspend"}, NEW a \in Cp!Buf, busy[a], op[a] = "READ",
         busy' = [busy EXCEPT ![a] = FALSE],
         nread' = [nread EXCEPT ![a] = IF insize > pos[a] THEN Cp!Min2(BSZ, insize - pos[a]) ELSE 0],
         UNCHANGED <<way, insize, st_size, out, off, op, last, pos, slot, numop, cst>>
  PROVE  CopyInv'
<1>1. CopyTypes /\ OutRight /\ InTurn /\ Counted /\ Blocks /\ Lengths /\ Complete
  BY DEF CopyInv, AioInv
<1>2. /\ BSZ \in Nat /\ BSZ > 0 /\ insize \in Nat /\ st_size \in Nat /\ insize <= st_size /\ pos[a] \in Nat
      /\ pos[a] < st_size
  BY <1>1 DEF CopySizes, CopyTypes, Blocks, Owned
<1>3. PICK m : m = IF insize > pos[a] THEN Cp!Min2(BSZ, insize - pos[a]) ELSE 0
  OBVIOUS
<1>4. m \in Nat /\ m <= BSZ /\ pos[a] + m <= st_size /\ (insize = st_size => m = BSZ \/ pos[a] + m = st_size)
  BY <1>2, <1>3 DEF Cp!Min2
<1>5. nread'[a] = m /\ busy'[a] = FALSE
  BY <1>1, <1>3 DEF CopyTypes
<1>6. \A b \in Cp!Buf \ {a} : nread'[b] = nread[b] /\ busy'[b] = busy[b]
  BY <1>1 DEF CopyTypes
<1>7. CopyTypes' /\ OutRight' /\ InTurn'
  BY <1>1, <1>3, <1>4 DEF CopyTypes, OutRight, InTurn
<1>8. Counted'
  BY <1>1 DEF Counted, Pending
<1>9. Blocks'
  <2>1. \A b \in Cp!Buf : op[b] = "UNUSED" => ~busy'[b]
    BY <1>1, <1>5, <1>6 DEF Blocks
  <2> QED BY <1>1, <2>1 DEF Blocks, Owned
<1>10. Lengths'
  <2> SUFFICES ASSUME NEW b \in Cp!Buf, ReadOf(b)'
               PROVE  (/\ nread[b] <= BSZ /\ pos[b] + nread[b] <= st_size
                       /\ insize = st_size => nread[b] = BSZ \/ pos[b] + nread[b] = st_size
                       /\ op[b] = "WRITE" /\ ~last[b] => nread[b] = BSZ)'
    BY DEF Lengths
  <2>1. CASE b = a
    BY <1>4, <1>5, <2>1
  <2>2. CASE b # a
    <3>1. nread'[b] = nread[b] /\ busy'[b] = busy[b] /\ ReadOf(b)
      BY <1>6, <2>2 DEF ReadOf
    <3> QED BY <1>1, <3>1 DEF Lengths
  <2> QED BY <2>1, <2>2
<1>11. Complete'
  <2>1. ASSUME NEW b \in Cp!Buf, op[b] = "WRITE" /\ ~busy'[b]
        PROVE  \A k \in pos[b]..pos[b] + nread'[b] - 1 : k \in DOMAIN out
    <3>1. b \in Cp!Buf \ {a}
      BY <2>1
    <3> QED BY <1>1, <1>6, <2>1, <3>1 DEF Complete
  <2>2. ASSUME NEW b \in Cp!Buf, NEW k \in 0..st_size - 1, Covers(b, k) PROVE Covers(b, k)'
    <3>1. CASE b = a
      BY <2>2, <3>1 DEF Covers
    <3>2. CASE b # a
      BY <1>6, <2>2, <3>2 DEF Covers
    <3> QED BY <3>1, <3>2
  <2>3. ASSUME NEW b \in Cp!Buf, NEW k \in DOMAIN out, last[b], pos[b] <= k
        PROVE  op[b] # "READ" /\ k < pos[b] + nread'[b]
    <3>1. op[b] # "READ" /\ k < pos[b] + nread[b]
      BY <1>1, <2>3 DEF Complete
    <3> QED BY <1>6, <3>1
  <2> QED BY <1>1, <2>1, <2>2, <2>3 DEF Complete
<1> QED BY <1>7, <1>8, <1>9, <1>10, <1>11 DEF CopyInv, AioInv

\* A complete write puts the block into the output.
LEMMA WriteComplete ==
  ASSUME CopySizes, CopyInv, way = "aio", cst \in {"run", "suspend"}, NEW a \in Cp!Buf, busy[a], op[a] = "WRITE",
         busy' = [busy EXCEPT ![a] = FALSE], Cp!Store(pos[a], nread[a], Cp!Rot13),
         UNCHANGED <<way, insize, st_size, nread, off, op, last, pos, slot, numop, cst>>
  PROVE  CopyInv'
<1>1. CopyTypes /\ OutRight /\ InTurn /\ Counted /\ Blocks /\ Lengths /\ Complete
  BY DEF CopyInv, AioInv
<1>2. /\ BSZ \in Nat /\ BSZ > 0 /\ insize \in Nat /\ st_size \in Nat /\ off \in Nat
      /\ \A b \in Cp!Buf : pos[b] \in Nat /\ nread[b] \in Nat
  BY <1>1 DEF CopySizes, CopyTypes
<1>3. pos[a] < st_size /\ pos[a] + BSZ <= off /\ nread[a] <= BSZ /\ pos[a] + nread[a] <= st_size
  BY <1>1 DEF Blocks, Lengths, Owned, ReadOf
<1>4. Cp!Store(pos[a], nread[a], IF way = "mmap" THEN Text ELSE Cp!Rot13)
  OBVIOUS
<1>5. OutRight' /\ DOMAIN out' = DOMAIN out \union pos[a]..pos[a] + nread[a] - 1
  <2>1. pos[a] + nread[a] <= off' /\ off <= off' /\ off' \in Nat
    BY <1>2, <1>3
  <2> QED BY <1>1, <1>2, <1>3, <1>4, <2>1, StoreRight
<1>6. busy'[a] = FALSE /\ \A b \in Cp!Buf \ {a} : busy'[b] = busy[b]
  BY <1>1 DEF CopyTypes
<1>7. CopyTypes' /\ InTurn' /\ Counted'
  BY <1>1 DEF CopyTypes, InTurn, Counted, Pending
<1>8. Blocks'
  <2>1. \A b \in Cp!Buf : op[b] = "UNUSED" => ~busy'[b]
    BY <1>1, <1>6 DEF Blocks
  <2> QED BY <1>1, <2>1 DEF Blocks, Owned
<1>9. Lengths'
  <2>1. \A b \in Cp!Buf : ReadOf(b)' => ReadOf(b)
    BY <1>6 DEF ReadOf
  <2> QED BY <1>1, <2>1 DEF Lengths
<1>10. Complete'
  <2>1. ASSUME NEW b \in Cp!Buf, op[b] = "WRITE" /\ ~busy'[b]
        PROVE  \A k \in pos[b]..pos[b] + nread[b] - 1 : k \in DOMAIN out'
    <3>1. CASE b = a
      BY <1>5, <3>1
    <3>2. CASE b # a
      BY <1>1, <1>5, <1>6, <2>1, <3>2 DEF Complete
    <3> QED BY <3>1, <3>2
  <2>2. \A b \in Cp!Buf, k \in 0..st_size - 1 : Covers(b, k) => Covers(b, k)'
    BY DEF Covers
  <2>3. \A k \in 0..st_size - 1 : k < off => k \in DOMAIN out' \/ \E b \in Cp!Buf : Covers(b, k)'
    BY <1>1, <1>5, <2>2 DEF Complete
  <2>4. ASSUME NEW b \in Cp!Buf, NEW k \in DOMAIN out', last[b], pos[b] <= k
        PROVE  op[b] # "READ" /\ k < pos[b] + nread[b]
    <3>1. CASE k \in DOMAIN out
      BY <1>1, <2>4, <3>1 DEF Complete
    <3>2. CASE k \in pos[a]..pos[a] + nread[a] - 1
      <4>1. k \in Int /\ k < pos[a] + nread[a]
        BY <1>2, <3>2
      <4>2. CASE b = a
        BY <4>1, <4>2
      <4>3. CASE b # a
        <5>1. st_size <= pos[b] + BSZ
          BY <1>1, <2>4 DEF Blocks, Owned
        <5>2. pos[b] + BSZ <= pos[a] \/ pos[a] + BSZ <= pos[b]
          BY <1>1, <2>4, <4>3 DEF Blocks, Owned
        <5> QED BY <1>2, <1>3, <2>4, <4>1, <5>1, <5>2
      <4> QED BY <4>2, <4>3
    <3> QED BY <1>5, <3>1, <3>2
  <2> QED BY <2>1, <2>3, <2>4 DEF Complete
<1> QED BY <1>5, <1>7, <1>8, <1>9, <1>10 DEF CopyInv, AioInv

\* The system completes a request or fails it.
LEMMA CompleteStep == ASSUME CopySizes, CopyInv, NEW a \in Cp!Buf, Cp!Complete(a) PROVE CopyInv'
<1>1. CopyTypes /\ OutRight /\ InTurn /\ Counted /\ AioInv
  BY DEF CopyInv
<1>2. /\ busy[a] /\ cst \in {"run", "suspend"}
      /\ UNCHANGED <<way, insize, st_size, off, op, last, pos, slot, numop>>
  BY DEF Cp!Complete
<1>3. way = "aio"
  BY <1>1, <1>2 DEF InTurn, CopyTypes
<1>4. CASE cst' = "failed" /\ UNCHANGED <<busy, nread, out>>
  <2>1. CopyTypes' /\ OutRight' /\ InTurn' /\ Counted'
    BY <1>1, <1>2, <1>3, <1>4 DEF CopyTypes, OutRight, InTurn, Counted, Pending
  <2>2. Blocks' /\ Lengths' /\ Complete'
    BY <1>1, <1>2, <1>3, <1>4 DEF Blocks, Lengths, Complete, Owned, ReadOf, Covers, AioInv
  <2> QED BY <2>1, <2>2 DEF CopyInv, AioInv
<1>5. CASE /\ busy' = [busy EXCEPT ![a] = FALSE] /\ UNCHANGED cst
           /\ op[a] = "READ" /\ nread' = [nread EXCEPT ![a] = IF insize > pos[a] THEN Cp!Min2(BSZ, insize - pos[a]) ELSE 0]
           /\ UNCHANGED out
  BY <1>2, <1>3, <1>5, ReadComplete
<1>6. CASE /\ busy' = [busy EXCEPT ![a] = FALSE] /\ UNCHANGED cst
           /\ op[a] = "WRITE" /\ Cp!Store(pos[a], nread[a], Cp!Rot13) /\ UNCHANGED nread
  BY <1>2, <1>3, <1>6, WriteComplete
<1> QED BY <1>4, <1>5, <1>6 DEF Cp!Complete

\* The buffers of a finished asynchronous copy are unused: the output is what
\* comes before off, or what comes before the end of what the last block holds.
LEMMA CopyDone ==
  ASSUME CopySizes, CopyInv, way = "aio", cst = "done"
  PROVE  /\ \E m \in Nat : DOMAIN out = 0..m - 1
         /\ insize = st_size => DOMAIN out = 0..st_size - 1
<1>1. CopyTypes /\ OutRight /\ Counted /\ Blocks /\ Lengths /\ Complete
  BY DEF CopyInv, AioInv
<1>2. numop = 0 /\ off >= st_size /\ Cardinality(Pending) = 0
  BY <1>1 DEF Counted
<1>3. \A b \in Cp!Buf : op[b] = "UNUSED"
  <2>1. Pending = {}
    BY <1>2, PendingFinite, FS_EmptySet
  <2> QED BY <2>1 DEF Pending
<1>4. /\ BSZ \in Nat /\ insize \in Nat /\ st_size \in Nat /\ off \in Nat
      /\ \A b \in Cp!Buf : pos[b] \in Nat /\ nread[b] \in Nat
  BY <1>1 DEF CopySizes, CopyTypes
<1>5. \A k \in DOMAIN out : k \in 0..st_size - 1
  BY <1>1 DEF OutRight
<1>6. CASE \A b \in Cp!Buf : ~last[b]
  <2>1. \A b \in Cp!Buf, k \in 0..st_size - 1 : ~Covers(b, k)
    BY <1>3, <1>6 DEF Covers
  <2>2. \A k \in 0..st_size - 1 : k \in DOMAIN out
    BY <1>1, <1>2, <1>4, <2>1 DEF Complete
  <2>3. DOMAIN out = 0..st_size - 1
    BY <1>5, <2>2
  <2> QED BY <1>4, <2>3
<1>7. CASE \E b \in Cp!Buf : last[b]
  <2>1. PICK b \in Cp!Buf : last[b]
    BY <1>7
  <2>2. Owned(b) /\ ReadOf(b)
    BY <1>3, <2>1 DEF Owned, ReadOf
  <2>3. st_size <= pos[b] + BSZ /\ pos[b] < st_size /\ pos[b] + nread[b] <= st_size
        /\ (insize = st_size => nread[b] = BSZ \/ pos[b] + nread[b] = st_size)
    BY <1>1, <2>1, <2>2 DEF Blocks, Lengths
  <2>4. \A c \in Cp!Buf : last[c] => c = b
    <3> SUFFICES ASSUME NEW c \in Cp!Buf, last[c], c # b PROVE FALSE
      OBVIOUS
    <3>1. st_size <= pos[c] + BSZ /\ pos[c] < st_size /\ (pos[b] + BSZ <= pos[c] \/ pos[c] + BSZ <= pos[b])
      BY <1>1, <2>1 DEF Blocks, Owned
    <3> QED BY <1>4, <2>3, <3>1
  <2>5. PICK m \in Nat : m = pos[b] + nread[b]
    BY <1>4
  <2>6. ASSUME NEW k \in DOMAIN out PROVE k \in 0..m - 1
    <3>1. k \in Int /\ 0 <= k
      BY <1>4, <1>5
    <3>2. pos[b] <= k => k < m
      BY <1>1, <2>1, <2>5 DEF Complete
    <3> QED BY <1>4, <2>5, <3>1, <3>2
  <2>7. ASSUME NEW k \in 0..m - 1 PROVE k \in DOMAIN out
    <3>1. k \in 0..st_size - 1 /\ k < off
      BY <1>2, <1>4, <2>3, <2>5
    <3>2. \A c \in Cp!Buf : ~Covers(c, k)
      <4> SUFFICES ASSUME NEW c \in Cp!Buf, Covers(c, k) PROVE FALSE
        OBVIOUS
      <4>1. c = b /\ m <= k
        BY <1>3, <2>4, <2>5 DEF Covers
      <4> QED BY <4>1
    <3> QED BY <1>1, <3>1, <3>2 DEF Complete
  <2>8. DOMAIN out = 0..m - 1
    BY ONLY <2>6, <2>7
  <2>9. insize = st_size => m = st_size
    BY <1>4, <2>3, <2>5
  <2> QED BY <2>8, <2>9
<1> QED BY <1>6, <1>7

\* A finished copy is what its program promises.
LEMMA CopyPromises == CopySizes /\ CopyInv => Cp!CopyWhole /\ Cp!NoHole
<1> SUFFICES ASSUME CopySizes, CopyInv PROVE Cp!CopyWhole /\ Cp!NoHole
  OBVIOUS
<1>1. CopyTypes /\ OutRight /\ InTurn
  BY DEF CopyInv
<1>2. insize \in Nat /\ st_size \in Nat /\ off \in Nat /\ MaxSize \in Nat /\ st_size <= MaxSize /\ insize <= st_size
  BY <1>1 DEF CopySizes, CopyTypes
<1>3. Cp!CopyWhole
  <2> SUFFICES ASSUME cst \in {"done", "cut"}, insize = st_size
               PROVE  /\ DOMAIN out = 0..(IF cst = "cut" THEN off ELSE insize) - 1
                      /\ cst = "cut" => way = "read"
                      /\ \A k \in DOMAIN out :
                           (IF way = "mmap" THEN out[k] ELSE Cp!translate(out[k])) = Text[k]
    BY DEF Cp!CopyWhole
  <2>1. DOMAIN out = 0..(IF cst = "cut" THEN off ELSE insize) - 1
    <3>0. CASE cst = "cut"
      BY <1>1, <3>0 DEF InTurn, CopyTypes
    <3>1. CASE cst = "done" /\ way = "aio"
      BY <3>1, CopyDone
    <3>2. CASE cst = "done" /\ way # "aio"
      <4>1. DOMAIN out = 0..off - 1 /\ off <= st_size /\ insize <= off
        BY <1>1, <3>2 DEF InTurn
      <4>2. off = insize
        BY <1>2, <4>1
      <4> QED BY <4>1, <4>2
    <3> QED BY <3>0, <3>1, <3>2
  <2>2. ASSUME NEW k \in DOMAIN out
        PROVE  (IF way = "mmap" THEN out[k] ELSE Cp!translate(out[k])) = Text[k]
    <3>1. k \in 0..MaxSize - 1
      BY <1>1, <1>2 DEF OutRight
    <3>2. Text[k] \in Int
      BY <3>1 DEF CopySizes
    <3>3. out[k] = IF way = "mmap" THEN Text[k] ELSE Cp!translate(Text[k])
      BY <1>1 DEF OutRight
    <3> QED BY <3>2, <3>3, RotTwice
  <2> QED BY <1>1, <2>1, <2>2 DEF CopyTypes
<1>4. Cp!NoHole
  <2> SUFFICES ASSUME cst = "done", way # "read"
               PROVE  DOMAIN out = 0..Cp!Cardinality(DOMAIN out) - 1
    BY DEF Cp!NoHole
  <2>1. \E m \in Nat : DOMAIN out = 0..m - 1
    BY <1>1, <1>2, CopyDone DEF InTurn
  <2>2. PICK m \in Nat : DOMAIN out = 0..m - 1
    BY <2>1
  <2>3. Cardinality(0..m - 1) = m
    <3>1. Cardinality(0..m - 1) = IF 0 > m - 1 THEN 0 ELSE (m - 1) - 0 + 1
      BY FS_Interval
    <3> QED BY <3>1
  <2>4. Cp!Cardinality(DOMAIN out) = Cardinality(DOMAIN out)
    BY Zenon DEF Cp!Cardinality, Cardinality
  <2> QED BY <2>2, <2>3, <2>4
<1> QED BY <1>3, <1>4

(***************************************************************************)
(* The copies of advio, for every size of the buffers, the maps and the    *)
(* input, every text and every order in which the system completes the     *)
(* requests: a copy that ends with status 0 has every byte of an input     *)
(* that kept its size, at its place, unless rot13a took a read that failed *)
(* for the end of the file: then it has what was read before.  A copy of   *)
(* an input that was shortened meanwhile has no hole.                      *)
(***************************************************************************)
THEOREM CopyTheorem == CopySizes => (CopySpec => [](Cp!CopyWhole /\ Cp!NoHole))
<1> SUFFICES ASSUME CopySizes PROVE CopySpec => [](Cp!CopyWhole /\ Cp!NoHole)
  OBVIOUS
<1>1. Cp!Init => CopyInv
  BY CopyInit
<1>2. CopyInv /\ [Cp!Next]_(Cp!vars) => CopyInv'
  <2> SUFFICES ASSUME CopyInv, [Cp!Next]_(Cp!vars) PROVE CopyInv'
    OBVIOUS
  <2>1. CASE UNCHANGED Cp!vars
    BY <2>1 DEF Cp!vars, CopyInv, CopyTypes, OutRight, InTurn, Counted, Pending, AioInv,
         Blocks, Lengths, Complete, Owned, ReadOf, Covers
  <2>2. CASE \E b \in Cp!Buf : Cp!Complete(b)
    BY <2>2, CompleteStep
  <2> QED BY <2>1, <2>2, ReadWriteStep, MapCopyStep, UnusedStep, MoveStep, ReadDoneStep, WriteDoneStep DEF Cp!Next
<1>3. CopyInv => Cp!CopyWhole /\ Cp!NoHole
  BY CopyPromises
<1> QED BY <1>1, <1>2, <1>3, PTL DEF CopySpec

-----------------------------------------------------------------------------
(***************************************************************************)
(* The pty program: pty/main.c, loop.c and driver.c.                       *)
(***************************************************************************)
CONSTANTS PTYBUF, MaxData
VARIABLES opt, psp, sc, sg, sd, handler, sigcaught, raw, master, duplex,
          ptyped, eof, inq, made, outq, pgot, shown, how, stray, untold
Py == INSTANCE Pty WITH sp <- psp, typed <- ptyped, got <- pgot
PtySpec == Py!Init /\ [][Py!Next]_(Py!vars)

PtyTypes ==
  /\ psp \in {"open", "forked", "ready", "split", "copies", "after", "gone"}
  /\ sc \in {"none", "read", "write", "eof", "done", "gone"}
  /\ sg \in {"none", "born", "runs", "ended"} /\ sd \in {"none", "runs", "ended"}
  /\ made \in Int /\ outq \in Int /\ shown \in Int

\* The child of loop is there once the parent has forked it, and the parent
\* gives a reason when it leaves its loop.
Started ==
  /\ psp \in {"open", "forked", "ready"} => sc = "none"
  /\ psp = "open" => sg = "none"
  /\ psp \in {"open", "forked"} => sd = "none"
  /\ handler => psp \in {"copies", "after", "gone"}
  /\ psp \in {"copies", "after"} => handler
  /\ psp = "gone" => how \in {"error", "killed", "signal", "eof"}
  /\ psp = "after" => how \in {"signal", "eof"}
  /\ psp \notin {"after", "gone"} => how = "none"

\* A child that has sent its signal, or was told, reads no more.
ToldChild ==
  /\ sigcaught \/ how \in {"signal", "killed"} => sc \in {"done", "gone"}
  /\ psp = "gone" /\ how = "eof" => sc \in {"done", "gone"}
  /\ stray => psp = "gone" /\ how = "error"
  /\ psp = "gone" /\ raw => sc = "done"

\* Only a process that is there has a descriptor open.
OpenEnds ==
  /\ \A w \in master : \/ w = "parent" /\ psp \notin {"open", "gone"}
                       \/ w = "child" /\ sc \in {"read", "write", "eof", "done"}
                       \/ w = "program" /\ sg = "born"
                       \/ w = "driver" /\ sd = "runs"
  /\ \A w \in duplex : w = "driver" /\ sd = "runs"

\* What the program made is shown, read by the parent, or in the terminal.
OutputKept ==
  /\ how = "none" => made = shown + outq + (IF pgot THEN 1 ELSE 0)
  /\ how = "eof" => shown = made /\ sg = "ended"

\* The parent knows that its child has ended, or there is a reason that it does not.
ToldParent ==
  psp \in {"split", "copies"} /\ sc \in {"done", "gone"} => opt.ignoreeof \/ untold # "none"

PtyInv == PtyTypes /\ Started /\ ToldChild /\ ToldParent /\ OpenEnds /\ OutputKept

\* No process but the parent is there.
LEMMA PtyInit == Py!Init => PtyInv
BY DEF Py!Init, PtyInv, PtyTypes, Started, ToldChild, ToldParent, OpenEnds, OutputKept

\* The steps before the loop.
LEMMA PtyStart ==
  PtyInv /\ (Py!pty_fork \/ Py!SlaveStart \/ Py!tty_raw \/ Py!do_driver \/ Py!StartFails
             \/ Py!LoopFork \/ Py!signal_intr) => PtyInv'
<1> SUFFICES ASSUME PtyInv, Py!pty_fork \/ Py!SlaveStart \/ Py!tty_raw \/ Py!do_driver \/ Py!StartFails
                            \/ Py!LoopFork \/ Py!signal_intr
             PROVE  PtyInv'
  OBVIOUS
<1> USE DEF PtyInv, Py!ErrSys, Py!tty_atexit, Py!Closes
<1>1. PtyTypes'
  BY DEF PtyTypes, Py!pty_fork, Py!SlaveStart, Py!tty_raw, Py!do_driver, Py!StartFails, Py!LoopFork, Py!signal_intr
<1>2. Started'
  BY DEF PtyTypes, Started, Py!pty_fork, Py!SlaveStart, Py!tty_raw, Py!do_driver, Py!StartFails, Py!LoopFork, Py!signal_intr
<1>3. ToldChild'
  BY DEF PtyTypes, Started, ToldChild, Py!pty_fork, Py!SlaveStart, Py!tty_raw, Py!do_driver, Py!StartFails, Py!LoopFork, Py!signal_intr
<1>6. ToldParent'
  BY DEF PtyTypes, Started, ToldChild, ToldParent, Py!pty_fork, Py!SlaveStart, Py!tty_raw, Py!do_driver, Py!StartFails, Py!LoopFork, Py!signal_intr
<1>4. OpenEnds'
  BY DEF PtyTypes, Started, OpenEnds, Py!pty_fork, Py!SlaveStart, Py!tty_raw, Py!do_driver, Py!StartFails, Py!LoopFork, Py!signal_intr
<1>5. OutputKept'
  BY DEF PtyTypes, Started, OutputKept, Py!pty_fork, Py!SlaveStart, Py!tty_raw, Py!do_driver, Py!StartFails, Py!LoopFork, Py!signal_intr
<1> QED BY <1>1, <1>2, <1>3, <1>4, <1>5, <1>6

\* The child of loop.
LEMMA PtyChild == PtyInv /\ Py!Child => PtyInv'
<1> SUFFICES ASSUME PtyInv, Py!Child PROVE PtyInv'
  OBVIOUS
<1> USE DEF PtyInv, Py!ErrSys, Py!tty_atexit, Py!Closes, Py!Child, Py!ChildCopy, Py!ChildError, Py!ChildNotify, Py!Notify, Py!ChildExit, Py!sig_term
<1>1. PtyTypes'
  BY DEF PtyTypes
<1>2. Started'
  BY DEF PtyTypes, Started
<1>3. ToldChild'
  BY DEF PtyTypes, Started, ToldChild
<1>6. ToldParent'
  BY DEF PtyTypes, Started, ToldChild, ToldParent
<1>4. OpenEnds'
  BY DEF PtyTypes, Started, OpenEnds
<1>5. OutputKept'
  BY DEF PtyTypes, Started, OutputKept
<1> QED BY <1>1, <1>2, <1>3, <1>4, <1>5, <1>6

\* The parent in its loop and after it.
LEMMA PtyParent == PtyInv /\ (Py!ParentRead \/ Py!ParentWrite \/ Py!ParentAfter) => PtyInv'
<1> SUFFICES ASSUME PtyInv, Py!ParentRead \/ Py!ParentWrite \/ Py!ParentAfter PROVE PtyInv'
  OBVIOUS
<1> USE DEF PtyInv, Py!ErrSys, Py!tty_atexit, Py!Closes, Py!ParentRead, Py!ParentWrite, Py!ParentAfter
<1>1. PtyTypes'
  BY DEF PtyTypes
<1>2. Started'
  BY DEF PtyTypes, Started
<1>3. ToldChild'
  BY DEF PtyTypes, Started, ToldChild
<1>6. ToldParent'
  BY DEF PtyTypes, Started, ToldChild, ToldParent
<1>4. OpenEnds'
  BY DEF PtyTypes, Started, ToldChild, OpenEnds
<1>5. OutputKept'
  BY DEF PtyTypes, Started, OutputKept
<1> QED BY <1>1, <1>2, <1>3, <1>4, <1>5, <1>6

\* The program, the driver and the system.
LEMMA PtyOthers == PtyInv /\ (Py!Program \/ Py!Hangup \/ Py!DriverEnds \/ UNCHANGED Py!vars) => PtyInv'
<1> SUFFICES ASSUME PtyInv, Py!Program \/ Py!Hangup \/ Py!DriverEnds \/ UNCHANGED Py!vars PROVE PtyInv'
  OBVIOUS
<1> USE DEF PtyInv, Py!Closes, Py!Program, Py!Hangup, Py!DriverEnds, Py!vars
<1>1. PtyTypes'
  BY DEF PtyTypes
<1>2. Started'
  BY DEF PtyTypes, Started
<1>3. ToldChild'
  BY DEF PtyTypes, ToldChild
<1>6. ToldParent'
  BY DEF PtyTypes, Started, ToldChild, ToldParent
<1>4. OpenEnds'
  BY DEF PtyTypes, OpenEnds
<1>5. OutputKept'
  BY DEF PtyTypes, Started, OutputKept
<1> QED BY <1>1, <1>2, <1>3, <1>4, <1>5, <1>6

\* A step of the pty program.
LEMMA PtyStep == PtyInv /\ [Py!Next]_(Py!vars) => PtyInv'
BY PtyStart, PtyChild, PtyParent, PtyOthers DEF Py!Next, Py!Parent, Py!Quiet

\* What the pty program promises.
LEMMA PtyPromises == PtyInv => Py!EndsBoth /\ Py!ParentTold /\ Py!OutputWhole /\ Py!HangsUp /\ Py!DriverEndSeen /\ Py!TtyRestored
<1> SUFFICES ASSUME PtyInv
             PROVE  Py!EndsBoth /\ Py!ParentTold /\ Py!OutputWhole /\ Py!HangsUp /\ Py!DriverEndSeen /\ Py!TtyRestored
  OBVIOUS
<1>1. Py!EndsBoth
  BY DEF PtyInv, PtyTypes, ToldChild, Py!EndsBoth, Py!ChildWaits
<1>2. Py!OutputWhole
  BY DEF PtyInv, OutputKept, Py!OutputWhole
<1>3. Py!HangsUp
  BY DEF PtyInv, OpenEnds, Py!HangsUp
<1>4. Py!DriverEndSeen
  BY DEF PtyInv, OpenEnds, Py!DriverEndSeen
<1>5. Py!TtyRestored
  BY DEF PtyInv, ToldChild, Py!TtyRestored
<1>6. Py!ParentTold
  BY DEF PtyInv, ToldParent, Py!ParentTold
<1> QED BY <1>1, <1>2, <1>3, <1>4, <1>5, <1>6

(***************************************************************************)
(* The pty program, for every size of the pseudo terminal, every amount of *)
(* data and every order of its processes' ends: a parent that ends without *)
(* an error has told its child, SIGTERM goes to no other process, a parent *)
(* whose child has ended does not read on unless end of file is ignored,   *)
(* SIGTERM came between two reads or the child ended by an error, output   *)
(* is copied to the last byte before the program's end is seen, no         *)
(* descriptor keeps the terminal or the driver's pipe open, and the user's *)
(* terminal is back in its mode.                                           *)
(***************************************************************************)
THEOREM PtyTheorem ==
  PtySpec => [](Py!EndsBoth /\ Py!ParentTold /\ Py!OutputWhole /\ Py!HangsUp /\ Py!DriverEndSeen /\ Py!TtyRestored)
<1>1. PtyInv /\ [Py!Next]_(Py!vars) => PtyInv'
  BY PtyStep
<1> QED BY <1>1, PtyInit, PtyPromises, PTL DEF PtySpec

-----------------------------------------------------------------------------
(***************************************************************************)
(* Message queues and poll: ipc2/pollmsg.c and exercises/pollmsg2.c.       *)
(***************************************************************************)
CONSTANTS NQ, MAXMSZ, MaxMsg
VARIABLES version, queue, sent, printed, hat, mess, mutex, mwaits, sock, mpc, look, pfd, text, wild, spur
Pm == INSTANCE PollMsg WITH got <- printed, at <- hat, waits <- mwaits, m <- mess, i <- look
PollSizes == NQ \in Nat /\ MAXMSZ \in Nat \ {0}
PollSpec == Pm!Init /\ [][Pm!Next]_(Pm!vars)

\* A message: its number and its length.
Message == Nat \X (0..MAXMSZ - 1)
PollTypes ==
  /\ version \in {1, 2} /\ sent \in [Pm!Queue -> Nat] /\ queue \in [Pm!Queue -> Seq(Message)]
  /\ printed \in [Pm!Queue -> Seq(Nat)] /\ mess \in [Pm!Queue -> Message] /\ sock \in [Pm!Queue -> Seq(Message)]
  /\ hat \in [Pm!Queue -> {"msgrcv", "lock", "write", "wait", "ready"}]
  /\ mutex \in [Pm!Queue -> {"free", "helper"}] /\ mwaits \in [Pm!Queue -> BOOLEAN]
  /\ mpc \in {"poll", "look", "print", "signal"} /\ look \in Nat /\ text \in Message
  /\ spur \subseteq Pm!Queue

\* main looks at queues that poll has found something in.
Readable ==
  mpc # "poll" =>
    /\ look \in Pm!Queue /\ pfd \subseteq Pm!Queue
    /\ \A q \in pfd : look < q \/ (look = q /\ mpc = "look") => sock[q] # <<>>

\* main has read what is in the socket of q and not signalled yet.
Using(q) == look = q /\ mpc \in {"print", "signal"}

\* A helper has its mutex from before it writes until it waits.
Handshake ==
  \A q \in Pm!Queue :
    /\ hat[q] \in {"write", "wait"} /\ version = 2 => mutex[q] = "helper"
    /\ hat[q] \in {"lock", "wait", "ready"} => version = 2
    /\ hat[q] = "wait" \/ (hat[q] = "ready" /\ mwaits[q]) => sock[q] # <<>> \/ Using(q)

PollInv == PollTypes /\ Readable /\ Handshake /\ ~wild

\* A sequence that something was put at the end of.
LEMMA AppendSome ==
  ASSUME NEW S, NEW s \in Seq(S), NEW x \in S PROVE Append(s, x) \in Seq(S) /\ Append(s, x) # <<>>
<1>1. Append(s, x) \in Seq(S) /\ Len(Append(s, x)) = Len(s) + 1 /\ Len(s) \in Nat
  OBVIOUS
<1>2. Len(Append(s, x)) # 0
  BY ONLY <1>1
<1> QED BY <1>1, <1>2

\* Nothing is sent.
LEMMA PollInit == PollSizes /\ Pm!Init => PollInv
<1> SUFFICES ASSUME PollSizes, Pm!Init PROVE PollInv
  OBVIOUS
<1>1. Pm!None \in Message
  BY DEF Pm!None, Message, PollSizes
<1>2. <<>> \in Seq(Message) /\ <<>> \in Seq(Nat)
  OBVIOUS
<1>3. PollTypes
  BY <1>1, <1>2 DEF Pm!Init, PollTypes
<1>4. Readable /\ Handshake /\ ~wild
  BY DEF Pm!Init, Readable, Handshake
<1> QED BY <1>3, <1>4 DEF PollInv

\* A message is sent.
LEMMA SendStep ==
  ASSUME PollSizes, PollInv, NEW q \in Pm!Queue, NEW len \in {MAXMSZ - 1, MAXMSZ}, Pm!sendmsg(q, len)
  PROVE  PollInv'
<1>1. len \in 0..MAXMSZ - 1
  BY DEF PollSizes, Pm!sendmsg, Pm!Longest
<1>2. <<sent[q] + 1, len>> \in Message
  BY <1>1 DEF Message, PollInv, PollTypes
<1>3. queue' \in [Pm!Queue -> Seq(Message)] /\ sent' \in [Pm!Queue -> Nat]
  BY <1>2 DEF Pm!sendmsg, PollInv, PollTypes
<1>4. PollTypes'
  BY <1>3 DEF PollInv, PollTypes, Pm!sendmsg
<1>5. Readable' /\ Handshake' /\ ~wild'
  BY DEF PollInv, Readable, Handshake, Using, Pm!sendmsg
<1> QED BY <1>4, <1>5 DEF PollInv

\* The helpers.
LEMMA HelperStep ==
  ASSUME PollSizes, PollInv, NEW q \in Pm!Queue,
         Pm!helper1(q) \/ Pm!Receive(q) \/ Pm!Lock(q) \/ Pm!WriteByte(q) \/ Pm!WaitReady(q) \/ Pm!Spurious(q)
  PROVE  PollInv'
<1>1. PollTypes /\ Readable /\ Handshake /\ ~wild
  BY DEF PollInv
<1>2. Pm!None \in Message
  BY DEF Pm!None, Message, PollSizes
<1>3. queue[q] \in Seq(Message) /\ sock[q] \in Seq(Message) /\ mess[q] \in Message
  BY <1>1 DEF PollTypes
<1>4. queue[q] # <<>> => Head(queue[q]) \in Message /\ Tail(queue[q]) \in Seq(Message)
  BY <1>3
<1>5. \A x \in Message : Append(sock[q], x) \in Seq(Message) /\ Append(sock[q], x) # <<>>
  BY <1>3, AppendSome
<1>6. UNCHANGED <<version, mpc, look, pfd, text, wild, sent, printed>>
  BY DEF Pm!helper1, Pm!Receive, Pm!Lock, Pm!WriteByte, Pm!WaitReady, Pm!Spurious
<1>7. \/ sock' = sock
      \/ \E x \in Message : sock' = [sock EXCEPT ![q] = Append(sock[q], x)]
  BY <1>2, <1>3 DEF Pm!helper1, Pm!Receive, Pm!Lock, Pm!WriteByte, Pm!WaitReady, Pm!Spurious
<1>8. sock' \in [Pm!Queue -> Seq(Message)] /\ \A p \in Pm!Queue : sock[p] # <<>> => sock'[p] # <<>>
  BY <1>1, <1>5, <1>7 DEF PollTypes
<1>9. \/ UNCHANGED <<queue, mess>>
      \/ queue[q] # <<>> /\ mess' = [mess EXCEPT ![q] = Head(queue[q])] /\ queue' = [queue EXCEPT ![q] = Tail(queue[q])]
  BY DEF Pm!helper1, Pm!Receive, Pm!Lock, Pm!WriteByte, Pm!WaitReady, Pm!Spurious
<1>10. queue' \in [Pm!Queue -> Seq(Message)] /\ mess' \in [Pm!Queue -> Message]
  <2>1. CASE UNCHANGED <<queue, mess>>
    BY <1>1, <2>1 DEF PollTypes
  <2>2. CASE queue[q] # <<>> /\ mess' = [mess EXCEPT ![q] = Head(queue[q])] /\ queue' = [queue EXCEPT ![q] = Tail(queue[q])]
    <3>1. PICK h \in Message : h = Head(queue[q])
      BY <1>4, <2>2
    <3>2. PICK t \in Seq(Message) : t = Tail(queue[q])
      BY <1>4, <2>2
    <3> QED BY <1>1, <2>2, <3>1, <3>2 DEF PollTypes
  <2> QED BY <1>9, <2>1, <2>2
<1>11. /\ hat' \in [Pm!Queue -> {"msgrcv", "lock", "write", "wait", "ready"}]
       /\ mutex' \in [Pm!Queue -> {"free", "helper"}] /\ spur' \subseteq Pm!Queue
  BY <1>1 DEF PollTypes, Pm!helper1, Pm!Receive, Pm!Lock, Pm!WriteByte, Pm!WaitReady, Pm!Spurious
<1>12. mwaits' \in [Pm!Queue -> BOOLEAN]
  BY <1>1 DEF PollTypes, Pm!helper1, Pm!Receive, Pm!Lock, Pm!WriteByte, Pm!WaitReady, Pm!Spurious
<1>13. PollTypes'
  BY <1>1, <1>6, <1>8, <1>10, <1>11, <1>12 DEF PollTypes
<1>14. Readable'
  BY <1>1, <1>6, <1>8 DEF Readable
<1>15. Handshake'
  <2> SUFFICES ASSUME NEW p \in Pm!Queue
               PROVE  /\ hat'[p] \in {"write", "wait"} /\ version = 2 => mutex'[p] = "helper"
                      /\ hat'[p] \in {"lock", "wait", "ready"} => version = 2
                      /\ hat'[p] = "wait" \/ (hat'[p] = "ready" /\ mwaits'[p]) => sock'[p] # <<>> \/ Using(p)
    BY <1>6 DEF Handshake, Using
  <2>1. CASE p # q
    <3>1. hat'[p] = hat[p] /\ mutex'[p] = mutex[p] /\ mwaits'[p] = mwaits[p]
      BY <1>1, <2>1 DEF PollTypes, Pm!helper1, Pm!Receive, Pm!Lock, Pm!WriteByte, Pm!WaitReady, Pm!Spurious
    <3> QED BY <1>1, <1>8, <3>1 DEF Handshake
  <2>2. CASE p = q
    <3>1. CASE Pm!helper1(q)
      BY <1>1, <2>2, <3>1 DEF PollTypes, Handshake, Pm!helper1
    <3>2. CASE Pm!Receive(q)
      BY <1>1, <2>2, <3>2 DEF PollTypes, Handshake, Pm!Receive
    <3>3. CASE Pm!Lock(q)
      BY <1>1, <2>2, <3>3 DEF PollTypes, Handshake, Pm!Lock
    <3>4. CASE Pm!WriteByte(q)
      <4>1. sock'[q] # <<>> /\ hat'[q] = "wait" /\ UNCHANGED <<mutex, version>> /\ version = 2 /\ hat[q] = "write"
        BY <1>1, <1>2, <1>5, <3>4 DEF PollTypes, Pm!WriteByte
      <4> QED BY <1>1, <2>2, <4>1 DEF Handshake
    <3>5. CASE Pm!WaitReady(q)
      <4>1. hat'[q] = "ready" \/ hat'[q] = "msgrcv"
        BY <1>1, <3>5 DEF PollTypes, Pm!WaitReady
      <4>2. hat'[q] = "ready" => hat[q] = "wait"
        BY <1>1, <3>5 DEF PollTypes, Pm!WaitReady
      <4> QED BY <1>1, <1>8, <2>2, <4>1, <4>2 DEF Handshake
    <3>6. CASE Pm!Spurious(q)
      <4>1. UNCHANGED <<hat, mutex, sock>> /\ mwaits'[q] = FALSE
        BY <1>1, <3>6 DEF PollTypes, Pm!Spurious
      <4> QED BY <1>1, <2>2, <4>1 DEF Handshake
    <3> QED BY <3>1, <3>2, <3>3, <3>4, <3>5, <3>6
  <2> QED BY <2>1, <2>2
<1> QED BY <1>1, <1>6, <1>13, <1>14, <1>15 DEF PollInv
\* The queue that main looks at next.
LEMMA NextQueueRight ==
  ASSUME PollSizes, PollInv, mpc # "poll", Pm!NextQueue
  PROVE  /\ look' \in Nat /\ mpc' \in {"poll", "look"}
         /\ mpc' # "poll" => look' = look + 1 /\ look' \in Pm!Queue
  BY DEF PollSizes, PollInv, PollTypes, Readable, Pm!NextQueue, Pm!Queue

\* main reads a message, or learns that there is one.
LEMMA ReadStep == PollSizes /\ PollInv /\ Pm!ReadText => PollInv'
<1> SUFFICES ASSUME PollSizes, PollInv, Pm!ReadText PROVE PollInv'
  OBVIOUS
<1>1. PollTypes /\ Readable /\ Handshake /\ ~wild
  BY DEF PollInv
<1>2. /\ mpc = "look" /\ look \in pfd /\ mpc' = "print"
      /\ sock' = [sock EXCEPT ![look] = Tail(sock[look])]
      /\ UNCHANGED <<version, queue, sent, printed, hat, mess, mutex, mwaits, look, pfd, spur>>
  BY DEF Pm!ReadText
<1>3. look \in Pm!Queue /\ pfd \subseteq Pm!Queue /\ sock[look] # <<>> /\ sock[look] \in Seq(Message) /\ mess[look] \in Message
  BY <1>1, <1>2 DEF Readable, PollTypes
<1>4. Head(sock[look]) \in Message /\ Tail(sock[look]) \in Seq(Message)
  BY <1>3
<1>5. PICK x \in Message : x = IF version = 1 THEN Head(sock[look]) ELSE mess[look]
  BY <1>3, <1>4
<1>6. text' = x /\ wild' = (wild \/ x[2] > IF version = 1 THEN MAXMSZ - 1 ELSE MAXMSZ)
  BY <1>5 DEF Pm!ReadText
<1>7. x[2] \in 0..MAXMSZ - 1
  BY DEF Message
<1>8. ~wild'
  <2>1. ~(x[2] > IF version = 1 THEN MAXMSZ - 1 ELSE MAXMSZ)
    BY <1>7 DEF PollSizes
  <2> QED BY <1>1, <1>6, <2>1, Zenon
<1>9. PICK t \in Seq(Message) : t = Tail(sock[look])
  BY <1>4
<1>10. sock' \in [Pm!Queue -> Seq(Message)] /\ \A q \in Pm!Queue : q # look => sock'[q] = sock[q]
  BY <1>1, <1>2, <1>3, <1>9 DEF PollTypes
<1>11. PollTypes'
  BY <1>1, <1>2, <1>6, <1>10 DEF PollTypes
<1>12. Readable'
  <2>1. look \in Nat /\ \A q \in pfd : look < q => q # look
    BY <1>1 DEF PollTypes
  <2> QED BY <1>1, <1>2, <1>3, <1>10, <2>1 DEF Readable
<1>13. Handshake'
  <2> SUFFICES ASSUME NEW q \in Pm!Queue, hat[q] = "wait" \/ (hat[q] = "ready" /\ mwaits[q])
               PROVE  sock'[q] # <<>> \/ Using(q)'
    BY <1>1, <1>2 DEF Handshake
  <2>1. CASE q = look
    BY <1>2, <2>1 DEF Using
  <2>2. CASE q # look
    BY <1>1, <1>2, <1>10, <2>2 DEF Handshake, Using
  <2> QED BY <2>1, <2>2
<1> QED BY <1>8, <1>11, <1>12, <1>13 DEF PollInv

\* main's other steps.
LEMMA MainStep ==
  PollSizes /\ PollInv /\ (Pm!poll \/ Pm!Skip \/ Pm!Print1 \/ Pm!Print2 \/ Pm!SignalReady \/ UNCHANGED Pm!vars) => PollInv'
<1> SUFFICES ASSUME PollSizes, PollInv,
                    Pm!poll \/ Pm!Skip \/ Pm!Print1 \/ Pm!Print2 \/ Pm!SignalReady \/ UNCHANGED Pm!vars
             PROVE  PollInv'
  OBVIOUS
<1>1. PollTypes /\ Readable /\ Handshake /\ ~wild
  BY DEF PollInv
<1>2. UNCHANGED <<version, queue, sent, hat, mess, mutex, sock, text, wild, spur>>
  BY DEF Pm!poll, Pm!Skip, Pm!Print1, Pm!Print2, Pm!SignalReady, Pm!vars
<1>3. CASE UNCHANGED Pm!vars
  BY <1>1, <1>3 DEF Pm!vars, PollInv, PollTypes, Readable, Handshake, Using
<1>4. CASE Pm!poll
  <2>1. /\ mpc = "poll" /\ mpc' = "look" /\ look' = 1 /\ pfd' = {q \in Pm!Queue : sock[q] # <<>>} /\ pfd' # {}
        /\ UNCHANGED <<printed, mwaits>>
    BY <1>4 DEF Pm!poll
  <2>2. look' \in Pm!Queue
    BY <2>1 DEF Pm!Queue, PollSizes
  <2>3. PollTypes' /\ Readable'
    BY <1>1, <1>2, <2>1, <2>2 DEF PollTypes, Readable
  <2>4. Handshake'
    BY <1>1, <1>2, <2>1 DEF Handshake, Using
  <2> QED BY <1>1, <1>2, <2>3, <2>4 DEF PollInv
<1>5. CASE Pm!Print2
  <2>1. /\ mpc = "print" /\ mpc' = "signal" /\ printed' = [printed EXCEPT ![look] = Append(printed[look], mess[look][1])]
        /\ UNCHANGED <<mwaits, look, pfd>>
    BY <1>5 DEF Pm!Print2
  <2>2. look \in Pm!Queue
    BY <1>1, <2>1 DEF Readable
  <2>3. mess[look][1] \in Nat
    BY <1>1, <2>2 DEF PollTypes, Message
  <2>4. printed' \in [Pm!Queue -> Seq(Nat)]
    BY <1>1, <2>1, <2>2, <2>3 DEF PollTypes
  <2>5. PollTypes' /\ Readable' /\ Handshake'
    BY <1>1, <1>2, <2>1, <2>4 DEF PollTypes, Readable, Handshake, Using
  <2> QED BY <1>1, <1>2, <2>5 DEF PollInv
<1>6. CASE Pm!Skip \/ Pm!Print1 \/ Pm!SignalReady
  <2>1. mpc # "poll" /\ Pm!NextQueue /\ pfd' = pfd
    BY <1>6 DEF Pm!Skip, Pm!Print1, Pm!SignalReady
  <2>2. /\ look \in Pm!Queue /\ look' \in Nat /\ mpc' \in {"poll", "look"}
        /\ mpc' # "poll" => look' = look + 1 /\ look' \in Pm!Queue
    BY <1>1, <2>1, NextQueueRight DEF Readable
  <2>3. printed' \in [Pm!Queue -> Seq(Nat)]
    <3>1. CASE Pm!Print1
      <4>1. text[1] \in Nat
        BY <1>1 DEF PollTypes, Message
      <4> QED BY <1>1, <2>2, <3>1, <4>1 DEF PollTypes, Pm!Print1
    <3>2. CASE UNCHANGED printed
      BY <1>1, <3>2 DEF PollTypes
    <3> QED BY <1>6, <3>1, <3>2 DEF Pm!Skip, Pm!SignalReady
  <2>4. mwaits' \in [Pm!Queue -> BOOLEAN] /\ \A q \in Pm!Queue : mwaits'[q] => mwaits[q]
    <3>1. CASE UNCHANGED mwaits
      BY <1>1, <3>1 DEF PollTypes
    <3>2. CASE mwaits' = [mwaits EXCEPT ![look] = FALSE]
      BY <1>1, <3>2 DEF PollTypes
    <3> QED BY <1>6, <3>1, <3>2 DEF Pm!Skip, Pm!Print1, Pm!SignalReady
  <2>5. PollTypes'
    BY <1>1, <1>2, <2>2, <2>3, <2>4 DEF PollTypes
  <2>6. Readable'
    <3> SUFFICES ASSUME mpc' # "poll" PROVE Readable'
      BY DEF Readable
    <3>1. look' = look + 1 /\ look' \in Pm!Queue /\ mpc' = "look" /\ pfd \subseteq Pm!Queue /\ look \in Nat
      BY <1>1, <2>1, <2>2 DEF Readable, PollTypes
    <3>2. \A q \in pfd : look' < q \/ look' = q => look < q
      <4>1. \A q \in pfd : q \in Nat
        BY <3>1 DEF Pm!Queue
      <4> QED BY <3>1, <4>1
    <3> QED BY <1>1, <1>2, <2>1, <3>1, <3>2 DEF Readable
  <2>7. Handshake'
    <3> SUFFICES ASSUME NEW q \in Pm!Queue, hat[q] = "wait" \/ (hat[q] = "ready" /\ mwaits'[q])
                 PROVE  sock[q] # <<>> \/ Using(q)'
      BY <1>1, <1>2 DEF Handshake
    <3>1. sock[q] # <<>> \/ Using(q)
      BY <1>1, <2>4 DEF Handshake
    <3>2. CASE Pm!Skip
      BY <3>1, <3>2 DEF Pm!Skip, Using
    <3>3. CASE Pm!Print1
      BY <1>1, <3>3 DEF Pm!Print1, Handshake
    <3>4. CASE Pm!SignalReady
      <4>1. mutex[look] = "free" /\ mwaits' = [mwaits EXCEPT ![look] = FALSE] /\ mpc = "signal"
        BY <3>4 DEF Pm!SignalReady
      <4>2. q # look
        <5> SUFFICES ASSUME q = look PROVE FALSE
          OBVIOUS
        <5>1. ~mwaits'[q]
          BY <1>1, <4>1 DEF PollTypes
        <5>2. hat[q] = "wait" /\ version = 2
          BY <1>1, <5>1 DEF Handshake
        <5> QED BY <1>1, <4>1, <5>2 DEF Handshake
      <4> QED BY <3>1, <4>2 DEF Using
    <3> QED BY <1>6, <3>2, <3>3, <3>4
  <2> QED BY <1>1, <1>2, <2>5, <2>6, <2>7 DEF PollInv
<1> QED BY <1>3, <1>4, <1>5, <1>6
\* The messages of a sequence have the numbers after num; the numbers printed are 1, 2, ....
From(so, num) == \A k \in 1..Len(so) : so[k][1] = num + k
UpTo(pr) == \A k \in 1..Len(pr) : pr[k] = k

\* A message with the next number is put at the end.
LEMMA FromAppend ==
  ASSUME NEW so \in Seq(Message), NEW num \in Nat, From(so, num), NEW x \in Message, x[1] = num + Len(so) + 1
  PROVE  From(Append(so, x), num) /\ Len(Append(so, x)) = Len(so) + 1
<1>1. Len(so) \in Nat /\ Len(Append(so, x)) = Len(so) + 1
  OBVIOUS
<1>2. ASSUME NEW k \in 1..Len(so) + 1 PROVE Append(so, x)[k][1] = num + k
  <2>1. CASE k = Len(so) + 1
    <3>1. Append(so, x)[k] = x
      BY <2>1
    <3> QED BY <1>1, <2>1, <3>1
  <2>2. CASE k # Len(so) + 1
    <3>1. k \in 1..Len(so)
      BY <1>1, <2>2
    <3>2. Append(so, x)[k] = so[k]
      BY <3>1
    <3> QED BY <3>1, <3>2 DEF From
  <2> QED BY <2>1, <2>2
<1> QED BY <1>1, <1>2 DEF From

\* The first message is taken.
LEMMA FromTake ==
  ASSUME NEW so \in Seq(Message), NEW num \in Nat, From(so, num), so # <<>>
  PROVE  /\ Head(so) \in Message /\ Tail(so) \in Seq(Message)
         /\ Head(so)[1] = num + 1 /\ From(Tail(so), num + 1) /\ Len(so) = Len(Tail(so)) + 1
<1>1. Len(so) \in Nat /\ Len(so) > 0 /\ Tail(so) \in Seq(Message) /\ Len(Tail(so)) = Len(so) - 1
      /\ Head(so) = so[1] /\ Head(so) \in Message
  OBVIOUS
<1>2. Head(so)[1] = num + 1
  BY <1>1 DEF From
<1>3. ASSUME NEW k \in 1..Len(so) - 1 PROVE Tail(so)[k][1] = num + 1 + k
  <2>1. k + 1 \in 1..Len(so) /\ Tail(so)[k] = so[k + 1]
    BY <1>1
  <2>2. so[k + 1][1] = num + (k + 1)
    BY <2>1 DEF From
  <2> QED BY <2>1, <2>2
<1>4. From(Tail(so), num + 1)
  BY <1>1, <1>3 DEF From
<1> QED BY <1>1, <1>2, <1>4

\* The next number is printed.
LEMMA UpToAppend ==
  ASSUME NEW pr \in Seq(Nat), UpTo(pr)
  PROVE  UpTo(Append(pr, Len(pr) + 1)) /\ Len(Append(pr, Len(pr) + 1)) = Len(pr) + 1
<1>1. PICK x \in Nat : x = Len(pr) + 1
  OBVIOUS
<1>2. Len(pr) \in Nat /\ Len(Append(pr, x)) = Len(pr) + 1
  OBVIOUS
<1>3. ASSUME NEW k \in 1..Len(pr) + 1 PROVE Append(pr, x)[k] = k
  <2>1. CASE k = Len(pr) + 1
    BY <1>1, <2>1
  <2>2. CASE k # Len(pr) + 1
    <3>1. k \in 1..Len(pr)
      BY <1>2, <2>2
    <3>2. Append(pr, x)[k] = pr[k]
      BY <3>1
    <3> QED BY <3>1, <3>2 DEF UpTo
  <2> QED BY <2>1, <2>2
<1> QED BY <1>1, <1>2, <1>3 DEF UpTo

\* Where the messages of a queue are: printed; read by main; in the socket
\* (pollmsg.c) or with the helper; in the queue.
Reading(q) == look = q /\ mpc = "print"
Drained(q) == Len(printed[q]) + (IF Reading(q) THEN 1 ELSE 0)
Writes(q) == IF hat[q] = "write" THEN 1 ELSE 0
InOrder1(q) ==
  /\ UpTo(printed[q]) /\ (Reading(q) => text[1] = Len(printed[q]) + 1)
  /\ From(sock[q], Drained(q)) /\ (hat[q] = "write" => mess[q][1] = Drained(q) + Len(sock[q]) + 1)
  /\ From(queue[q], Drained(q) + Len(sock[q]) + Writes(q))
  /\ sent[q] = Drained(q) + Len(sock[q]) + Writes(q) + Len(queue[q])

\* The helper of pollmsg2.c has its message until main has printed it, and
\* main uses it only while the helper waits.
Told(q) == hat[q] = "wait" \/ (hat[q] = "ready" /\ mwaits[q])
HasIt(q) == hat[q] \in {"lock", "write"} \/ sock[q] # <<>> \/ Reading(q)
Held(q) == IF HasIt(q) THEN 1 ELSE 0
InOrder2(q) ==
  /\ UpTo(printed[q]) /\ (HasIt(q) => mess[q][1] = Len(printed[q]) + 1)
  /\ From(queue[q], Len(printed[q]) + Held(q)) /\ sent[q] = Len(printed[q]) + Held(q) + Len(queue[q])
  /\ (mwaits[q] => hat[q] = "ready") /\ Len(sock[q]) <= 1
  /\ sock[q] # <<>> \/ Using(q) => Told(q)
  /\ ~(sock[q] # <<>> /\ Using(q))

InOrder(q) == IF version = 1 THEN InOrder1(q) ELSE InOrder2(q)
OrderInv == \A q \in Pm!Queue \ spur : InOrder(q)

\* No message is there.
LEMMA OrderInit == PollSizes /\ Pm!Init => OrderInv
<1> SUFFICES ASSUME PollSizes, Pm!Init, NEW q \in Pm!Queue PROVE InOrder(q)
  BY DEF OrderInv
<1>1. /\ printed[q] = <<>> /\ sock[q] = <<>> /\ queue[q] = <<>> /\ sent[q] = 0 /\ hat[q] = "msgrcv"
      /\ mwaits[q] = FALSE /\ mpc = "poll"
  BY DEF Pm!Init
<1>2. UpTo(<<>>) /\ From(<<>>, 0)
  BY DEF UpTo, From
<1>3. InOrder1(q)
  BY <1>1, <1>2 DEF InOrder1, Reading, Drained, Writes
<1>4. InOrder2(q)
  BY <1>1, <1>2 DEF InOrder2, Reading, HasIt, Held, Told, Using
<1> QED BY <1>3, <1>4 DEF InOrder

\* A step that is not about a queue leaves its messages where they are.
LEMMA OrderFrame ==
  ASSUME NEW q \in Pm!Queue, InOrder(q), version' = version, queue'[q] = queue[q], sent'[q] = sent[q],
         printed'[q] = printed[q], hat'[q] = hat[q], mess'[q] = mess[q], mwaits'[q] = mwaits[q], sock'[q] = sock[q],
         Reading(q)' <=> Reading(q), Using(q)' <=> Using(q), Reading(q) => text' = text
  PROVE  InOrder(q)'
<1>1. CASE version = 1
  <2>1. Drained(q)' = Drained(q) /\ Writes(q)' = Writes(q)
    BY DEF Drained, Writes
  <2>2. InOrder1(q)'
    BY <1>1, <2>1 DEF InOrder, InOrder1
  <2> QED BY <1>1, <2>2 DEF InOrder
<1>2. CASE version # 1
  <2>1. Held(q)' = Held(q) /\ (HasIt(q)' <=> HasIt(q)) /\ (Told(q)' <=> Told(q))
    BY DEF Held, HasIt, Told
  <2>2. InOrder2(q)'
    BY <1>2, <2>1 DEF InOrder, InOrder2
  <2> QED BY <1>2, <2>2 DEF InOrder
<1> QED BY <1>1, <1>2
\* The shares of the parts are numbers.
LEMMA SharesNat ==
  ASSUME PollTypes, NEW q \in Pm!Queue
  PROVE  Drained(q) \in Nat /\ Writes(q) \in Nat /\ Held(q) \in Nat /\ Len(printed[q]) \in Nat
<1>1. Len(printed[q]) \in Nat
  BY DEF PollTypes
<1>2. Writes(q) \in Nat /\ Held(q) \in Nat
  BY DEF Writes, Held
<1>3. PICK p \in Nat : p = IF Reading(q) THEN 1 ELSE 0
  OBVIOUS
<1>4. Drained(q) = Len(printed[q]) + p
  BY <1>3 DEF Drained
<1> QED BY <1>1, <1>2, <1>4

\* A step of one sender or helper.
LEMMA OrderOne ==
  ASSUME OrderInv, NEW q \in Pm!Queue, UNCHANGED <<version, printed, mpc, look, text>>, spur \subseteq spur',
         q \notin spur' => InOrder(q)',
         \A p \in Pm!Queue \ {q} : /\ queue'[p] = queue[p] /\ sent'[p] = sent[p] /\ hat'[p] = hat[p]
                                   /\ mess'[p] = mess[p] /\ mwaits'[p] = mwaits[p] /\ sock'[p] = sock[p]
  PROVE  OrderInv'
<1> SUFFICES ASSUME NEW p \in Pm!Queue, p \notin spur' PROVE InOrder(p)'
  BY DEF OrderInv
<1>1. CASE p = q
  BY <1>1
<1>2. CASE p # q
  <2>1. (Reading(p)' <=> Reading(p)) /\ (Using(p)' <=> Using(p)) /\ InOrder(p)
    BY DEF Reading, Using, OrderInv
  <2> QED BY <1>2, <2>1, OrderFrame
<1> QED BY <1>1, <1>2

\* A message is sent.
LEMMA SendOrder ==
  ASSUME PollSizes, PollInv, OrderInv, NEW q \in Pm!Queue, NEW len \in {MAXMSZ - 1, MAXMSZ}, Pm!sendmsg(q, len)
  PROVE  OrderInv'
<1>1. PollTypes
  BY DEF PollInv
<1>2. len \in 0..MAXMSZ - 1
  BY DEF PollSizes, Pm!sendmsg, Pm!Longest
<1>3. PICK x \in Message : x = <<sent[q] + 1, len>> /\ x[1] = sent[q] + 1
  <2>1. sent[q] + 1 \in Nat
    BY <1>1 DEF PollTypes
  <2>2. <<sent[q] + 1, len>> \in Message
    BY <1>2, <2>1 DEF Message
  <2>3. <<sent[q] + 1, len>>[1] = sent[q] + 1
    OBVIOUS
  <2> QED BY <2>2, <2>3
<1>4. /\ sent'[q] = sent[q] + 1 /\ queue'[q] = Append(queue[q], x)
      /\ UNCHANGED <<version, printed, hat, mess, mwaits, sock, mpc, look, text, spur>>
      /\ \A p \in Pm!Queue \ {q} : sent'[p] = sent[p] /\ queue'[p] = queue[p]
  BY <1>1, <1>3 DEF Pm!sendmsg, PollTypes
<1>5. queue[q] \in Seq(Message) /\ Len(queue[q]) \in Nat /\ Len(printed[q]) \in Nat /\ Len(sock[q]) \in Nat
  BY <1>1 DEF PollTypes
<1>6. ASSUME q \notin spur PROVE InOrder(q)'
  <2>1. CASE version = 1
    <3>1. PICK num \in Nat : num = Drained(q) + Len(sock[q]) + Writes(q)
      BY <1>1, <1>5, SharesNat
    <3>2. InOrder1(q) /\ Drained(q)' = Drained(q) /\ Writes(q)' = Writes(q) /\ (Reading(q)' <=> Reading(q))
      BY <1>4, <1>6, <2>1 DEF OrderInv, InOrder, Drained, Writes, Reading
    <3>3. From(queue[q], num) /\ sent[q] = num + Len(queue[q])
      BY <3>1, <3>2 DEF InOrder1
    <3>4. From(queue'[q], num) /\ Len(queue'[q]) = Len(queue[q]) + 1
      BY <1>3, <1>4, <1>5, <3>3, FromAppend, ZenonT(30)
    <3>5. sent'[q] = num + Len(queue'[q])
      BY <1>4, <1>5, <3>3, <3>4
    <3>6. InOrder1(q)'
      BY <1>4, <3>1, <3>2, <3>4, <3>5 DEF InOrder1
    <3> QED BY <1>4, <2>1, <3>6 DEF InOrder
  <2>2. CASE version # 1
    <3>1. PICK num \in Nat : num = Len(printed[q]) + Held(q)
      BY <1>1, <1>5, SharesNat
    <3>2. /\ InOrder2(q) /\ Held(q)' = Held(q) /\ (HasIt(q)' <=> HasIt(q)) /\ (Told(q)' <=> Told(q))
          /\ (Using(q)' <=> Using(q))
      BY <1>4, <1>6, <2>2 DEF OrderInv, InOrder, Held, HasIt, Told, Using, Reading
    <3>3. From(queue[q], num) /\ sent[q] = num + Len(queue[q])
      BY <3>1, <3>2 DEF InOrder2
    <3>4. From(queue'[q], num) /\ Len(queue'[q]) = Len(queue[q]) + 1
      BY <1>3, <1>4, <1>5, <3>3, FromAppend, ZenonT(30)
    <3>5. sent'[q] = num + Len(queue'[q])
      BY <1>4, <1>5, <3>3, <3>4
    <3>6. InOrder2(q)'
      BY <1>4, <3>1, <3>2, <3>4, <3>5 DEF InOrder2
    <3> QED BY <1>4, <2>2, <3>6 DEF InOrder
  <2> QED BY <2>1, <2>2
<1> QED BY <1>4, <1>6, OrderOne

\* A helper takes the first message of its queue.
LEMMA ReceiveOrder ==
  ASSUME PollSizes, PollInv, OrderInv, NEW q \in Pm!Queue, hat[q] = "msgrcv", queue[q] # <<>>,
         hat' = [hat EXCEPT ![q] = IF version = 1 THEN "write" ELSE "lock"],
         mess' = [mess EXCEPT ![q] = Head(queue[q])], queue' = [queue EXCEPT ![q] = Tail(queue[q])],
         UNCHANGED <<version, sent, printed, mwaits, sock, mpc, look, text, spur>>
  PROVE  OrderInv'
<1>1. PollTypes
  BY DEF PollInv
<1>2. queue[q] \in Seq(Message) /\ Len(queue[q]) \in Nat /\ Len(printed[q]) \in Nat /\ Len(sock[q]) \in Nat
      /\ Len(Tail(queue[q])) \in Nat
  BY <1>1 DEF PollTypes
<1>3. /\ mess'[q] = Head(queue[q]) /\ queue'[q] = Tail(queue[q]) /\ hat'[q] = IF version = 1 THEN "write" ELSE "lock"
      /\ \A p \in Pm!Queue \ {q} : hat'[p] = hat[p] /\ mess'[p] = mess[p] /\ queue'[p] = queue[p]
  BY <1>1 DEF PollTypes
<1>4. ASSUME q \notin spur PROVE InOrder(q)'
  <2>1. CASE version = 1
    <3>1. PICK num \in Nat : num = Drained(q) + Len(sock[q])
      BY <1>1, <1>2, SharesNat
    <3>2. InOrder1(q) /\ Drained(q)' = Drained(q) /\ Writes(q) = 0 /\ Writes(q)' = 1 /\ (Reading(q)' <=> Reading(q))
          /\ hat'[q] = "write"
      BY <1>3, <1>4, <2>1 DEF OrderInv, InOrder, Drained, Writes, Reading
    <3>3. From(queue[q], num) /\ sent[q] = num + Len(queue[q])
      BY <3>1, <3>2 DEF InOrder1
    <3>4. mess'[q][1] = num + 1 /\ From(queue'[q], num + 1) /\ Len(queue[q]) = Len(queue'[q]) + 1
      BY <1>2, <1>3, <3>3, FromTake
    <3>5. sent[q] = num + 1 + Len(queue'[q])
      <4>1. Len(queue'[q]) \in Nat
        BY <1>2, <1>3
      <4>2. PICK l \in Nat : l = Len(queue'[q])
        BY ONLY <4>1
      <4>3. Len(queue[q]) = l + 1
        BY ONLY <3>4, <4>2
      <4>4. sent[q] = num + (l + 1)
        BY ONLY <3>3, <4>3
      <4>5. num + (l + 1) = num + 1 + l
        OBVIOUS
      <4> QED BY ONLY <4>2, <4>4, <4>5
    <3>6. InOrder1(q)'
      BY <3>1, <3>2, <3>4, <3>5 DEF InOrder1
    <3> QED BY <2>1, <3>6 DEF InOrder
  <2>2. CASE version # 1
    <3>1. InOrder2(q)
      BY <1>4, <2>2 DEF OrderInv, InOrder
    <3>2. sock[q] = <<>> /\ ~Using(q) /\ ~HasIt(q) /\ Held(q) = 0 /\ hat'[q] = "lock" /\ ~mwaits[q]
      BY <1>3, <2>2, <3>1 DEF InOrder2, Told, HasIt, Held, Using, Reading
    <3>3. HasIt(q)' /\ Held(q)' = 1 /\ (Using(q)' <=> Using(q))
      BY <3>2 DEF HasIt, Held, Using
    <3>4. PICK num \in Nat : num = Len(printed[q])
      BY <1>2
    <3>5. From(queue[q], num) /\ sent[q] = num + Len(queue[q])
      BY <3>1, <3>2, <3>4 DEF InOrder2
    <3>6. mess'[q][1] = num + 1 /\ From(queue'[q], num + 1) /\ Len(queue[q]) = Len(queue'[q]) + 1
      BY <1>2, <1>3, <3>5, FromTake
    <3>7. sent[q] = num + 1 + Len(queue'[q])
      <4>1. Len(queue'[q]) \in Nat
        BY <1>2, <1>3
      <4>2. PICK l \in Nat : l = Len(queue'[q])
        BY ONLY <4>1
      <4>3. Len(queue[q]) = l + 1
        BY ONLY <3>6, <4>2
      <4>4. sent[q] = num + (l + 1)
        BY ONLY <3>5, <4>3
      <4>5. num + (l + 1) = num + 1 + l
        OBVIOUS
      <4> QED BY ONLY <4>2, <4>4, <4>5
    <3>8. InOrder2(q)'
      BY <3>1, <3>2, <3>3, <3>4, <3>6, <3>7 DEF InOrder2
    <3> QED BY <2>2, <3>8 DEF InOrder
  <2> QED BY <2>1, <2>2
<1> QED BY <1>3, <1>4, OrderOne
\* The helper of pollmsg.c writes its message to the socket.
LEMMA WriteOrder ==
  ASSUME PollSizes, PollInv, OrderInv, version = 1, NEW q \in Pm!Queue, hat[q] = "write",
         hat' = [hat EXCEPT ![q] = "msgrcv"], sock' = [sock EXCEPT ![q] = Append(sock[q], mess[q])],
         UNCHANGED <<version, queue, mess, sent, printed, mwaits, mpc, look, text, spur>>
  PROVE  OrderInv'
<1>1. PollTypes
  BY DEF PollInv
<1>2. sock[q] \in Seq(Message) /\ mess[q] \in Message /\ Len(sock[q]) \in Nat /\ Drained(q) \in Nat /\ Len(queue[q]) \in Nat
  BY <1>1, SharesNat DEF PollTypes
<1>3. /\ hat'[q] = "msgrcv" /\ sock'[q] = Append(sock[q], mess[q])
      /\ \A p \in Pm!Queue \ {q} : hat'[p] = hat[p] /\ sock'[p] = sock[p]
  BY <1>1 DEF PollTypes
<1>4. ASSUME q \notin spur PROVE InOrder(q)'
  <2>1. PICK num \in Nat : num = Drained(q)
    BY <1>2
  <2>2. PICK s \in Nat : s = Len(sock[q])
    BY <1>2
  <2>3. InOrder1(q) /\ Drained(q)' = num /\ Writes(q) = 1 /\ Writes(q)' = 0 /\ (Reading(q)' <=> Reading(q))
    BY <1>3, <1>4, <2>1 DEF OrderInv, InOrder, Drained, Writes, Reading
  <2>4. /\ UpTo(printed[q]) /\ (Reading(q) => text[1] = Len(printed[q]) + 1) /\ From(sock[q], num) /\ mess[q][1] = num + s + 1
        /\ From(queue[q], num + s + 1) /\ sent[q] = num + s + 1 + Len(queue[q])
    BY <2>1, <2>2, <2>3 DEF InOrder1
  <2>5. From(sock'[q], num) /\ Len(sock'[q]) = s + 1
    BY <1>2, <1>3, <2>2, <2>4, FromAppend
  <2>6. num + (s + 1) + 0 = num + s + 1
    OBVIOUS
  <2>7. InOrder1(q)'
    BY <1>3, <2>3, <2>4, <2>5, <2>6 DEF InOrder1
  <2> QED BY <2>7 DEF InOrder
<1> QED BY <1>3, <1>4, OrderOne

\* The helper of pollmsg2.c locks, writes a byte, waits and is woken.
LEMMA HandOrder ==
  ASSUME PollSizes, PollInv, OrderInv, NEW q \in Pm!Queue,
         Pm!Lock(q) \/ Pm!WriteByte(q) \/ Pm!WaitReady(q) \/ Pm!Spurious(q)
  PROVE  OrderInv'
<1>1. PollTypes /\ Handshake
  BY DEF PollInv
<1>2. UNCHANGED <<version, queue, mess, sent, printed, mpc, look, text>> /\ spur \subseteq spur'
  BY DEF Pm!Lock, Pm!WriteByte, Pm!WaitReady, Pm!Spurious
<1>3. \A p \in Pm!Queue \ {q} : hat'[p] = hat[p] /\ mwaits'[p] = mwaits[p] /\ sock'[p] = sock[p]
  BY <1>1 DEF PollTypes, Pm!Lock, Pm!WriteByte, Pm!WaitReady, Pm!Spurious
<1>4. ASSUME q \notin spur' PROVE InOrder(q)'
  <2>1. ~Pm!Spurious(q)
    BY <1>4 DEF Pm!Spurious
  <2>2. version = 2
    BY <1>1, <2>1 DEF Handshake, Pm!Lock, Pm!WriteByte, Pm!WaitReady
  <2>3. InOrder2(q) /\ (Reading(q)' <=> Reading(q)) /\ (Using(q)' <=> Using(q))
    BY <1>2, <1>4, <2>2 DEF OrderInv, InOrder, Reading, Using
  <2>4. Reading(q) => Using(q)
    BY DEF Reading, Using
  <2>5. CASE Pm!Lock(q)
    <3>1. hat[q] = "lock" /\ hat'[q] = "write" /\ UNCHANGED <<mwaits, sock>>
      BY <1>1, <2>5 DEF PollTypes, Pm!Lock
    <3>2. HasIt(q) /\ HasIt(q)' /\ Held(q)' = Held(q) /\ ~Told(q) /\ ~mwaits[q]
      BY <2>3, <3>1 DEF HasIt, Held, Told, InOrder2
    <3>3. InOrder2(q)'
      BY <1>2, <2>3, <3>1, <3>2 DEF InOrder2
    <3> QED BY <1>2, <2>2, <3>3 DEF InOrder
  <2>6. CASE Pm!WriteByte(q)
    <3>1. hat[q] = "write" /\ hat'[q] = "wait" /\ UNCHANGED mwaits /\ sock'[q] = Append(sock[q], Pm!None)
      BY <1>1, <2>6 DEF PollTypes, Pm!WriteByte
    <3>2. sock[q] = <<>> /\ ~Using(q) /\ ~mwaits[q] /\ HasIt(q)
      BY <2>3, <3>1 DEF InOrder2, Told, HasIt
    <3>3. sock'[q] = <<Pm!None>> /\ Len(sock'[q]) = 1 /\ sock'[q] # <<>>
      BY <3>1, <3>2
    <3>4. HasIt(q)' /\ Held(q)' = Held(q) /\ Told(q)'
      BY <3>1, <3>2, <3>3 DEF HasIt, Held, Told
    <3>5. InOrder2(q)'
      BY <1>2, <2>3, <3>1, <3>2, <3>3, <3>4 DEF InOrder2
    <3> QED BY <1>2, <2>2, <3>5 DEF InOrder
  <2>7. CASE Pm!WaitReady(q) /\ hat[q] = "wait"
    <3>1. hat'[q] = "ready" /\ mwaits'[q] = TRUE /\ UNCHANGED sock
      BY <1>1, <2>7 DEF PollTypes, Pm!WaitReady
    <3>2. (HasIt(q)' <=> HasIt(q)) /\ Held(q)' = Held(q) /\ Told(q)'
      BY <2>3, <2>7, <3>1 DEF HasIt, Held, Told
    <3>3. InOrder2(q)'
      BY <1>2, <2>3, <3>1, <3>2 DEF InOrder2
    <3> QED BY <1>2, <2>2, <3>3 DEF InOrder
  <2>8. CASE Pm!WaitReady(q) /\ hat[q] # "wait"
    <3>1. hat[q] = "ready" /\ ~mwaits[q] /\ hat'[q] = "msgrcv" /\ UNCHANGED <<sock, mwaits>>
      BY <1>1, <2>8 DEF PollTypes, Pm!WaitReady
    <3>2. sock[q] = <<>> /\ ~Using(q)
      BY <2>3, <3>1 DEF InOrder2, Told
    <3>3. (HasIt(q)' <=> HasIt(q)) /\ Held(q)' = Held(q)
      BY <2>3, <3>1 DEF HasIt, Held
    <3>4. InOrder2(q)'
      BY <1>2, <2>3, <3>1, <3>2, <3>3 DEF InOrder2
    <3> QED BY <1>2, <2>2, <3>4 DEF InOrder
  <2> QED BY <2>1, <2>5, <2>6, <2>7, <2>8
<1> QED BY <1>2, <1>3, <1>4, OrderOne
\* Only the empty sequence has no element.
LEMMA LenZero == ASSUME NEW S, NEW s \in Seq(S), Len(s) = 0 PROVE s = <<>>
  OBVIOUS

\* A step of main at the queue q.
LEMMA OrderLook ==
  ASSUME OrderInv, NEW q \in Pm!Queue, q = look, UNCHANGED <<version, queue, sent, hat, mess, spur>>,
         look' = look \/ mpc' \in {"poll", "look"}, q \notin spur => InOrder(q)',
         \A p \in Pm!Queue \ {q} : printed'[p] = printed[p] /\ mwaits'[p] = mwaits[p] /\ sock'[p] = sock[p]
  PROVE  OrderInv'
<1> SUFFICES ASSUME NEW p \in Pm!Queue, p \notin spur PROVE InOrder(p)'
  BY DEF OrderInv
<1>1. CASE p = q
  BY <1>1
<1>2. CASE p # q
  <2>1. ~Reading(p) /\ ~Using(p) /\ ~Reading(p)' /\ ~Using(p)' /\ InOrder(p)
    BY <1>2 DEF Reading, Using, OrderInv
  <2> QED BY <1>2, <2>1, OrderFrame
<1> QED BY <1>1, <1>2

\* poll, and a queue that is not readable.
LEMMA PollOrder ==
  ASSUME PollInv, OrderInv, Pm!poll \/ Pm!Skip \/ UNCHANGED Pm!vars
  PROVE  OrderInv'
<1> SUFFICES ASSUME NEW p \in Pm!Queue, p \notin spur' PROVE InOrder(p)'
  BY DEF OrderInv
<1>1. UNCHANGED <<version, queue, sent, printed, hat, mess, mwaits, sock, text, spur>>
  BY DEF Pm!poll, Pm!Skip, Pm!vars
<1>2. (Reading(p)' <=> Reading(p)) /\ (Using(p)' <=> Using(p))
  BY DEF Reading, Using, Pm!poll, Pm!Skip, Pm!NextQueue, Pm!vars
<1> QED BY <1>1, <1>2, OrderFrame DEF OrderInv

\* main reads.
LEMMA ReadOrder == ASSUME PollSizes, PollInv, OrderInv, Pm!ReadText PROVE OrderInv'
<1>1. PollTypes /\ Readable
  BY DEF PollInv
<1>2. /\ mpc = "look" /\ mpc' = "print" /\ sock' = [sock EXCEPT ![look] = Tail(sock[look])] /\ look' = look
      /\ text' = IF version = 1 THEN Head(sock[look]) ELSE mess[look]
      /\ UNCHANGED <<version, queue, sent, printed, hat, mess, mwaits, spur>>
  BY DEF Pm!ReadText
<1>3. look \in Pm!Queue /\ sock[look] # <<>>
  BY <1>1 DEF Readable, Pm!ReadText
<1>4. PICK q \in Pm!Queue : q = look
  BY <1>3
<1>5. /\ sock[q] \in Seq(Message) /\ sock[q] # <<>> /\ Len(sock[q]) \in Nat /\ Len(Tail(sock[q])) \in Nat
      /\ Len(printed[q]) \in Nat /\ Len(queue[q]) \in Nat /\ Writes(q) \in Nat
  <2>1. sock[q] \in Seq(Message) /\ sock[q] # <<>> /\ queue[q] \in Seq(Message)
    BY <1>1, <1>3, <1>4 DEF PollTypes
  <2>2. Tail(sock[q]) \in Seq(Message)
    BY <2>1
  <2>3. Len(sock[q]) \in Nat /\ Len(Tail(sock[q])) \in Nat /\ Len(queue[q]) \in Nat
    BY <2>1, <2>2
  <2> QED BY <1>1, <2>1, <2>3, SharesNat
<1>6. sock'[q] = Tail(sock[q]) /\ \A p \in Pm!Queue \ {q} : sock'[p] = sock[p]
  BY <1>1, <1>2, <1>4 DEF PollTypes
<1>7. ~Reading(q) /\ ~Using(q) /\ Reading(q)' /\ Using(q)'
  BY <1>2, <1>4 DEF Reading, Using
<1>8. ASSUME q \notin spur PROVE InOrder(q)'
  <2>1. CASE version = 1
    <3>1. PICK num \in Nat : num = Len(printed[q])
      BY <1>5
    <3>2. PICK s \in Nat : s = Len(Tail(sock[q]))
      BY <1>5
    <3>3. PICK w \in Nat : w = Writes(q)
      BY <1>5
    <3>4. InOrder1(q) /\ Drained(q) = num /\ Drained(q)' = num + 1 /\ Writes(q)' = w
      BY <1>2, <1>7, <1>8, <2>1, <3>1, <3>3 DEF OrderInv, InOrder, Drained, Writes
    <3>5. UpTo(printed[q]) /\ From(sock[q], num)
      BY <3>4 DEF InOrder1
    <3>6. Head(sock[q])[1] = num + 1 /\ From(Tail(sock[q]), num + 1) /\ Len(sock[q]) = s + 1
      BY <1>5, <3>2, <3>5, FromTake
    <3>7. /\ hat[q] = "write" => mess[q][1] = num + (s + 1) + 1
          /\ From(queue[q], num + (s + 1) + w) /\ sent[q] = num + (s + 1) + w + Len(queue[q])
      BY <3>3, <3>4, <3>6 DEF InOrder1
    <3>8. num + (s + 1) = (num + 1) + s
      OBVIOUS
    <3>9. text'[1] = num + 1
      BY <1>2, <1>4, <2>1, <3>6
    <3>10. InOrder1(q)'
      BY <1>2, <1>6, <1>7, <3>1, <3>2, <3>4, <3>5, <3>6, <3>7, <3>8, <3>9 DEF InOrder1
    <3> QED BY <1>2, <2>1, <3>10 DEF InOrder
  <2>2. CASE version # 1
    <3>1. InOrder2(q) /\ Told(q)
      BY <1>5, <1>8, <2>2 DEF OrderInv, InOrder, InOrder2
    <3>2. Len(sock[q]) = Len(Tail(sock[q])) + 1 /\ Tail(sock[q]) \in Seq(Message)
      BY <1>5
    <3>3. Len(Tail(sock[q])) = 0
      <4>1. PICK l \in Nat : l = Len(Tail(sock[q]))
        BY <1>5
      <4>2. Len(sock[q]) = l + 1 /\ Len(sock[q]) <= 1
        BY <3>1, <3>2, <4>1 DEF InOrder2
      <4>3. l = 0
        BY ONLY l \in Nat, <4>2
      <4> QED BY <4>1, <4>3
    <3>4. Tail(sock[q]) = <<>>
      BY <3>2, <3>3, LenZero
    <3>5. sock'[q] = <<>>
      BY <1>6, <3>4
    <3>6. HasIt(q) /\ HasIt(q)' /\ Held(q)' = Held(q) /\ Told(q)'
      BY <1>2, <1>5, <1>7, <3>1 DEF HasIt, Held, Told
    <3>7. InOrder2(q)'
      BY <1>2, <1>7, <3>1, <3>5, <3>6 DEF InOrder2
    <3> QED BY <1>2, <2>2, <3>7 DEF InOrder
  <2> QED BY <2>1, <2>2
<1> QED BY <1>2, <1>4, <1>6, <1>8, OrderLook

\* main prints.
LEMMA PrintOrder == ASSUME PollSizes, PollInv, OrderInv, Pm!Print1 \/ Pm!Print2 PROVE OrderInv'
<1>1. PollTypes /\ Readable
  BY DEF PollInv
<1>2. mpc = "print" /\ UNCHANGED <<version, queue, sent, hat, mess, mwaits, sock, text, spur>>
  BY DEF Pm!Print1, Pm!Print2
<1>3. PICK q \in Pm!Queue : q = look
  BY <1>1, <1>2 DEF Readable
<1>4. Reading(q) /\ Using(q) /\ printed[q] \in Seq(Nat) /\ Len(printed[q]) \in Nat
  BY <1>1, <1>2, <1>3 DEF Reading, Using, PollTypes
<1>5. PICK num \in Nat : num = Len(printed[q])
  BY <1>4
<1>6. CASE Pm!Print1
  <2>1. /\ version = 1 /\ printed' = [printed EXCEPT ![q] = Append(printed[q], text[1])]
        /\ mpc' \in {"poll", "look"}
    BY <1>3, <1>6 DEF Pm!Print1, Pm!NextQueue
  <2>2. printed'[q] = Append(printed[q], text[1]) /\ \A p \in Pm!Queue \ {q} : printed'[p] = printed[p]
    BY <1>1, <2>1 DEF PollTypes
  <2>3. ASSUME q \notin spur PROVE InOrder(q)'
    <3>1. InOrder1(q) /\ Drained(q) = num + 1 /\ Writes(q)' = Writes(q) /\ ~Reading(q)'
      BY <1>2, <1>4, <1>5, <2>1, <2>3 DEF OrderInv, InOrder, Drained, Writes, Reading
    <3>2. UpTo(printed'[q]) /\ Len(printed'[q]) = num + 1
      BY <1>4, <1>5, <2>2, <3>1, UpToAppend DEF InOrder1
    <3>3. Drained(q)' = num + 1
      BY <3>1, <3>2 DEF Drained
    <3>4. InOrder1(q)'
      BY <1>2, <3>1, <3>2, <3>3 DEF InOrder1
    <3> QED BY <1>2, <2>1, <3>4 DEF InOrder
  <2> QED BY <1>2, <1>3, <2>1, <2>2, <2>3, OrderLook
<1>7. CASE Pm!Print2
  <2>1. /\ version = 2 /\ printed' = [printed EXCEPT ![q] = Append(printed[q], mess[q][1])]
        /\ mpc' = "signal" /\ look' = look
    BY <1>3, <1>7 DEF Pm!Print2
  <2>2. printed'[q] = Append(printed[q], mess[q][1]) /\ \A p \in Pm!Queue \ {q} : printed'[p] = printed[p]
    BY <1>1, <2>1 DEF PollTypes
  <2>3. ASSUME q \notin spur PROVE InOrder(q)'
    <3>1. InOrder2(q) /\ HasIt(q) /\ Held(q) = 1 /\ ~Reading(q)' /\ Using(q)'
      BY <1>2, <1>3, <1>4, <2>1, <2>3 DEF OrderInv, InOrder, HasIt, Held, Reading, Using
    <3>2. mess[q][1] = num + 1 /\ From(queue[q], num + 1) /\ sent[q] = num + 1 + Len(queue[q]) /\ UpTo(printed[q])
      BY <1>5, <3>1 DEF InOrder2
    <3>3. UpTo(printed'[q]) /\ Len(printed'[q]) = num + 1
      BY <1>4, <1>5, <2>2, <3>2, UpToAppend
    <3>4. Told(q) /\ Told(q)' /\ sock[q] = <<>>
      BY <1>2, <1>4, <3>1 DEF InOrder2, Told
    <3>5. ~HasIt(q)' /\ Held(q)' = 0
      BY <1>2, <3>1, <3>4 DEF HasIt, Held, Told
    <3>6. num + 1 + 0 = num + 1
      OBVIOUS
    <3>7. InOrder2(q)'
      BY <1>2, <3>1, <3>2, <3>3, <3>4, <3>5, <3>6 DEF InOrder2
    <3> QED BY <1>2, <2>1, <3>7 DEF InOrder
  <2> QED BY <1>2, <1>3, <2>1, <2>2, <2>3, OrderLook
<1> QED BY <1>6, <1>7

\* main signals.
LEMMA SignalOrder == ASSUME PollSizes, PollInv, OrderInv, Pm!SignalReady PROVE OrderInv'
<1>1. PollTypes /\ Readable /\ Handshake
  BY DEF PollInv
<1>2. /\ mpc = "signal" /\ mutex[look] = "free" /\ mwaits' = [mwaits EXCEPT ![look] = FALSE]
      /\ mpc' \in {"poll", "look"}
      /\ UNCHANGED <<version, queue, sent, printed, hat, mess, sock, text, spur>>
  BY DEF Pm!SignalReady, Pm!NextQueue
<1>3. PICK q \in Pm!Queue : q = look
  BY <1>1, <1>2 DEF Readable
<1>4. mwaits'[q] = FALSE /\ \A p \in Pm!Queue \ {q} : mwaits'[p] = mwaits[p]
  BY <1>1, <1>2, <1>3 DEF PollTypes
<1>5. ~Reading(q) /\ ~Reading(q)' /\ Using(q) /\ ~Using(q)'
  BY <1>2, <1>3 DEF Reading, Using
<1>6. ASSUME q \notin spur PROVE InOrder(q)'
  <2>1. CASE version = 1
    <3>1. InOrder1(q) /\ Drained(q)' = Drained(q) /\ Writes(q)' = Writes(q)
      BY <1>2, <1>5, <1>6, <2>1 DEF OrderInv, InOrder, Drained, Writes
    <3>2. InOrder1(q)'
      BY <1>2, <1>5, <3>1 DEF InOrder1
    <3> QED BY <1>2, <2>1, <3>2 DEF InOrder
  <2>2. CASE version # 1
    <3>1. InOrder2(q)
      BY <1>6, <2>2 DEF OrderInv, InOrder
    <3>2. sock[q] = <<>>
      BY <1>5, <3>1 DEF InOrder2
    <3>3. (HasIt(q)' <=> HasIt(q)) /\ Held(q)' = Held(q)
      BY <1>2, <1>5 DEF HasIt, Held
    <3>4. InOrder2(q)'
      BY <1>2, <1>4, <1>5, <3>1, <3>2, <3>3 DEF InOrder2
    <3> QED BY <1>2, <2>2, <3>4 DEF InOrder
  <2> QED BY <2>1, <2>2
<1> QED BY <1>2, <1>3, <1>4, <1>6, OrderLook

PollOrderInv == PollInv /\ OrderInv

\* Nothing has been sent at first.
LEMMA PollStarts == PollSizes /\ Pm!Init => PollOrderInv
BY PollInit, OrderInit DEF PollOrderInv

\* A step of a helper, a sender or the main thread.
LEMMA PollStep == PollSizes /\ PollOrderInv /\ [Pm!Next]_(Pm!vars) => PollOrderInv'
<1> SUFFICES ASSUME PollSizes, PollInv, OrderInv, [Pm!Next]_(Pm!vars) PROVE (PollInv /\ OrderInv)'
  BY DEF PollOrderInv
<1>1. ASSUME NEW q \in Pm!Queue, NEW len \in {MAXMSZ - 1, MAXMSZ}, Pm!sendmsg(q, len)
      PROVE  (PollInv /\ OrderInv)'
  BY <1>1, SendStep, SendOrder
<1>2. ASSUME NEW q \in Pm!Queue,
             Pm!helper1(q) \/ Pm!Receive(q) \/ Pm!Lock(q) \/ Pm!WriteByte(q) \/ Pm!WaitReady(q) \/ Pm!Spurious(q)
      PROVE  (PollInv /\ OrderInv)'
  <2>1. PollInv'
    BY <1>2, HelperStep
  <2>2. CASE (Pm!helper1(q) /\ hat[q] = "msgrcv") \/ Pm!Receive(q)
    <3>1. /\ hat[q] = "msgrcv" /\ queue[q] # <<>> /\ hat' = [hat EXCEPT ![q] = IF version = 1 THEN "write" ELSE "lock"]
          /\ mess' = [mess EXCEPT ![q] = Head(queue[q])] /\ queue' = [queue EXCEPT ![q] = Tail(queue[q])]
          /\ UNCHANGED <<version, sent, printed, mwaits, sock, mpc, look, text, spur>>
      BY <2>2 DEF Pm!helper1, Pm!Receive
    <3> QED BY <2>1, <3>1, ReceiveOrder
  <2>3. CASE Pm!helper1(q) /\ hat[q] # "msgrcv"
    <3>1. /\ version = 1 /\ hat[q] = "write" /\ hat' = [hat EXCEPT ![q] = "msgrcv"]
          /\ sock' = [sock EXCEPT ![q] = Append(sock[q], mess[q])]
          /\ UNCHANGED <<version, queue, mess, sent, printed, mwaits, mpc, look, text, spur>>
      BY <2>3 DEF Pm!helper1
    <3> QED BY <2>1, <3>1, WriteOrder
  <2> QED BY <1>2, <2>1, <2>2, <2>3, HandOrder
<1>3. CASE Pm!ReadText
  BY <1>3, ReadStep, ReadOrder
<1>4. CASE Pm!poll \/ Pm!Skip \/ Pm!Print1 \/ Pm!Print2 \/ Pm!SignalReady \/ UNCHANGED Pm!vars
  BY <1>4, MainStep, PollOrder, PrintOrder, SignalOrder
<1> QED BY <1>1, <1>2, <1>3, <1>4 DEF Pm!Next, Pm!Quiet

\* What a user of the queues sees.
LEMMA PollPromises == PollOrderInv => Pm!HelperWoken /\ Pm!TextInArray /\ Pm!PrintedInOrder
<1> SUFFICES ASSUME PollInv, OrderInv PROVE Pm!HelperWoken /\ Pm!TextInArray /\ Pm!PrintedInOrder
  BY DEF PollOrderInv
<1>1. Pm!HelperWoken /\ Pm!TextInArray
  BY DEF PollInv, Handshake, Using, Pm!HelperWoken, Pm!TextInArray
<1>2. Pm!PrintedInOrder
  <2> SUFFICES ASSUME NEW q \in Pm!Queue \ spur PROVE printed[q] = [k \in 1..Len(printed[q]) |-> k]
    BY DEF Pm!PrintedInOrder
  <2>1. UpTo(printed[q])
    BY DEF OrderInv, InOrder, InOrder1, InOrder2
  <2>2. printed[q] \in [1..Len(printed[q]) -> Nat]
    BY DEF PollInv, PollTypes
  <2> QED BY <2>1, <2>2 DEF UpTo
<1> QED BY <1>1, <1>2

(***************************************************************************)
(* pollmsg.c and pollmsg2.c, for every number of queues and messages and   *)
(* every length that sendmsg sends: no helper sleeps after its signal, no  *)
(* null byte is written behind an array, and what is printed of a queue    *)
(* whose helper was never woken without a signal is every message once and *)
(* in order.                                                               *)
(***************************************************************************)
THEOREM PollTheorem ==
  PollSizes => (PollSpec => [](Pm!HelperWoken /\ Pm!TextInArray /\ Pm!PrintedInOrder))
<1> SUFFICES ASSUME PollSizes PROVE PollSpec => [](Pm!HelperWoken /\ Pm!TextInArray /\ Pm!PrintedInOrder)
  OBVIOUS
<1>1. Pm!Init => PollOrderInv
  BY PollStarts
<1>2. PollOrderInv /\ [Pm!Next]_(Pm!vars) => PollOrderInv'
  BY PollStep
<1>3. PollOrderInv => Pm!HelperWoken /\ Pm!TextInArray /\ Pm!PrintedInOrder
  BY PollPromises
<1> QED BY <1>1, <1>2, <1>3, PTL DEF PollSpec

-----------------------------------------------------------------------------
(***************************************************************************)
(* The thread control programs: threadctl/timeout.c, atfork.c, suspend.c   *)
(* and getenv1.c to getenv3.c.                                             *)
(***************************************************************************)
CONSTANTS SECTONSEC, MaxClock, buflen
VARIABLES prog, hpc, owner, depth, clock, when, since, twait, ran, tip, quitflag, asleep, hpend, quits, masked,
          copy, once, ask, hbuf, ret
Ct == INSTANCE ThreadCtl WITH pc <- hpc, wait <- twait, pend <- hpend, buf <- hbuf
ControlSizes == SECTONSEC \in Nat \ {0} /\ buflen \in Nat
ControlSpec == Ct!Init /\ [][Ct!Next]_(Ct!vars)

\* Where each thread is.
PcType == hpc = [t \in Ct!Thread |-> hpc[t]]

\* suspend.c: main tests the flag and the thread sets it under the lock; main
\* does not go to sleep once the flag is set.
SuspendInv ==
  prog = "suspend" =>
    /\ owner = [l \in Ct!Lock |-> owner[l]]
    /\ hpc["main"] \in {"locked", "sleeps"} => owner[1] = "main"
    /\ hpc["thr"] = "flag" => owner[1] = "thr"
    /\ hpc["main"] = "sleeps" => ~quitflag
    /\ hpc["thr"] \in {"signal", "gone"} => quitflag \/ hpc["main"] = "gone"
    /\ hpc["thr"] = "gone" => ~asleep
    /\ asleep => hpc["main"] = "waits"

\* atfork.c: main has both locks when it forks.
AtforkInv ==
  prog = "atfork" =>
    /\ owner = [l \in Ct!Lock |-> owner[l]] /\ copy = [l \in Ct!Lock |-> copy[l]]
    /\ hpc["main"] \in {"one", "both", "forked"} => owner[1] = "main"
    /\ hpc["main"] \in {"both", "forked"} => owner[2] = "main"
    /\ hpc["main"] = "forked" => copy[1] = "main" /\ copy[2] = "main"
    /\ hpc["main"] = "gone" => copy[1] = "none" /\ copy[2] = "none"

\* getenv2.c and getenv3.c: what a thread was given is in its own buffer.
GetenvInv ==
  /\ ask \in [Ct!Thread -> {"x", "y", "z"}]
  /\ prog \in {"getenv2", "getenv3"} =>
    /\ hbuf = [t \in Ct!Thread |-> hbuf[t]] /\ ret = [t \in Ct!Thread |-> ret[t]]
    /\ \A t \in Ct!Thread : ret[t] \notin {"none", "failed"} =>
         hpc[t] = "found" /\ hbuf[t] = ask[t] /\ ask[t] \in DOMAIN Ct!environ /\ (prog = "getenv2" => Ct!Fits(ask[t]))

\* The sets of the model.
LEMMA ThreadSet == Ct!Thread = {"main", "thr"} /\ Ct!Lock = {1, 2} /\ Ct!None = "none"
BY DEF Ct!Thread, Ct!Lock, Ct!None

\* suspend.c.
LEMMA SuspendStep == PcType /\ SuspendInv /\ [Ct!Next]_(Ct!vars) => SuspendInv'
<1> SUFFICES ASSUME PcType, SuspendInv, [Ct!Next]_(Ct!vars), prog' = "suspend" PROVE SuspendInv'
  BY DEF SuspendInv
<1>1. prog = "suspend"
  BY DEF Ct!Next, Ct!vars, Ct!Tick, Ct!MainLock, Ct!timeout, Ct!Wake, Ct!MainUnlock, Ct!UseLocks, Ct!Atfork,
    Ct!Block, Ct!SendQuit, Ct!thr_fn, Ct!MainWait, Ct!retry, Ct!EnvLock, Ct!EnvFind, Ct!EnvUse, Ct!Quiet
<1>2. Ct!Block \/ Ct!SendQuit \/ Ct!thr_fn \/ Ct!MainWait \/ UNCHANGED Ct!vars
  BY <1>1 DEF Ct!Next, Ct!Tick, Ct!MainLock, Ct!timeout, Ct!Wake, Ct!MainUnlock, Ct!UseLocks, Ct!Atfork,
    Ct!retry, Ct!EnvLock, Ct!EnvFind, Ct!EnvUse, Ct!Quiet, Ct!Getenv
<1>3. CASE Ct!SendQuit \/ UNCHANGED Ct!vars
  BY <1>1, <1>3 DEF SuspendInv, Ct!SendQuit, Ct!vars, Ct!tvars, Ct!evars
<1>4. CASE Ct!Block
  <2>1. hpc' = [main |-> "test", thr |-> "sigwait"] /\ hpc["main"] = "start" /\ UNCHANGED <<owner, quitflag, asleep>>
    BY <1>4 DEF Ct!Block
  <2>2. hpc'["main"] = "test" /\ hpc'["thr"] = "sigwait"
    BY <2>1
  <2> QED BY <1>1, <2>1, <2>2 DEF SuspendInv
<1>5. CASE Ct!thr_fn
  BY <1>1, <1>5, ThreadSet DEF PcType, SuspendInv, Ct!thr_fn, Ct!Goto, Ct!Take, Ct!Give
<1>6. CASE Ct!MainWait
  BY <1>1, <1>6, ThreadSet DEF PcType, SuspendInv, Ct!MainWait, Ct!Goto, Ct!Take, Ct!Give
<1> QED BY <1>2, <1>3, <1>4, <1>5, <1>6

\* atfork.c.
LEMMA AtforkStep == PcType /\ AtforkInv /\ [Ct!Next]_(Ct!vars) => AtforkInv'
<1> SUFFICES ASSUME PcType, AtforkInv, [Ct!Next]_(Ct!vars), prog' = "atfork" PROVE AtforkInv'
  BY DEF AtforkInv
<1>1. prog = "atfork"
  BY DEF Ct!Next, Ct!vars, Ct!Tick, Ct!MainLock, Ct!timeout, Ct!Wake, Ct!MainUnlock, Ct!UseLocks, Ct!Atfork,
    Ct!Block, Ct!SendQuit, Ct!thr_fn, Ct!MainWait, Ct!retry, Ct!EnvLock, Ct!EnvFind, Ct!EnvUse, Ct!Quiet
<1>2. Ct!UseLocks \/ Ct!Atfork \/ UNCHANGED Ct!vars
  BY <1>1 DEF Ct!Next, Ct!Tick, Ct!MainLock, Ct!timeout, Ct!Wake, Ct!MainUnlock, Ct!Block, Ct!SendQuit, Ct!thr_fn, Ct!MainWait,
    Ct!retry, Ct!EnvLock, Ct!EnvFind, Ct!EnvUse, Ct!Quiet, Ct!Getenv
<1>3. CASE UNCHANGED Ct!vars
  BY <1>1, <1>3 DEF AtforkInv, Ct!vars
<1>4. CASE Ct!UseLocks
  BY <1>1, <1>4, ThreadSet DEF PcType, AtforkInv, Ct!UseLocks, Ct!Goto, Ct!Take
<1>5. CASE Ct!Atfork
  BY <1>1, <1>5, ThreadSet DEF PcType, AtforkInv, Ct!Atfork, Ct!prepare, Ct!Fork, Ct!parent, Ct!child, Ct!Goto, Ct!Take
<1> QED BY <1>2, <1>3, <1>4, <1>5

\* getenv1.c to getenv3.c.
LEMMA GetenvStep == PcType /\ GetenvInv /\ [Ct!Next]_(Ct!vars) => GetenvInv'
<1> SUFFICES ASSUME PcType, GetenvInv, [Ct!Next]_(Ct!vars) PROVE GetenvInv'
  OBVIOUS
<1>1. CASE \E t \in Ct!Thread : Ct!EnvLock(t) \/ Ct!EnvFind(t) \/ Ct!EnvUse(t)
  <2>1. PICK t \in Ct!Thread : Ct!EnvLock(t) \/ Ct!EnvFind(t) \/ Ct!EnvUse(t)
    BY <1>1
  <2>2. CASE Ct!EnvLock(t)
    BY <2>2, ThreadSet DEF PcType, GetenvInv, Ct!EnvLock, Ct!Goto, Ct!environ, Ct!Fits
  <2>3. CASE Ct!EnvFind(t)
    <3>1. PICK found \in BOOLEAN : found <=> ask[t] \in DOMAIN Ct!environ /\ (prog = "getenv2" => Ct!Fits(ask[t]))
      OBVIOUS
    <3>2. /\ hbuf' = (IF found THEN [hbuf EXCEPT ![Ct!Buffer(t)] = ask[t]] ELSE hbuf)
          /\ ret' = [ret EXCEPT ![t] = IF found THEN ask[t] ELSE "failed"]
          /\ UNCHANGED <<prog, ask>> /\ hpc[t] = "search" /\ hpc' = [hpc EXCEPT ![t] = "found"]
      BY <2>3, <3>1 DEF Ct!EnvFind, Ct!Goto
    <3>3. prog \in {"getenv2", "getenv3"} => Ct!Buffer(t) = t
      BY DEF Ct!Buffer
    <3> QED BY <3>1, <3>2, <3>3, ThreadSet DEF PcType, GetenvInv
  <2>4. CASE Ct!EnvUse(t)
    <3>1. PICK name \in {"x", "y", "z"} : ask' = [ask EXCEPT ![t] = name]
      BY <2>4 DEF Ct!EnvUse
    <3>2. /\ ret' = [ret EXCEPT ![t] = "none"] /\ UNCHANGED <<prog, hbuf>>
          /\ hpc' = [hpc EXCEPT ![t] = "start"]
      BY <2>4, ThreadSet DEF Ct!EnvUse, Ct!Goto
    <3>3. ask' \in [Ct!Thread -> {"x", "y", "z"}]
      BY <3>1 DEF GetenvInv
    <3>4. ASSUME prog \in {"getenv2", "getenv3"}, NEW u \in Ct!Thread, ret'[u] \notin {"none", "failed"}
          PROVE  /\ hpc'[u] = "found" /\ hbuf[u] = ask'[u] /\ ask'[u] \in DOMAIN Ct!environ
                 /\ prog = "getenv2" => Ct!Fits(ask'[u])
      <4>1. u # t
        BY <3>2, <3>4 DEF GetenvInv
      <4>2. ret'[u] = ret[u] /\ hpc'[u] = hpc[u] /\ ask'[u] = ask[u]
        BY <3>1, <3>2, <3>4, <4>1 DEF GetenvInv, PcType
      <4> QED BY <3>4, <4>2 DEF GetenvInv
    <3> QED BY <3>2, <3>3, <3>4 DEF GetenvInv, Ct!environ, Ct!Fits
  <2> QED BY <2>1, <2>2, <2>3, <2>4
<1>2. CASE ~ \E t \in Ct!Thread : Ct!EnvLock(t) \/ Ct!EnvFind(t) \/ Ct!EnvUse(t)
  <2>1. UNCHANGED <<prog, hbuf, ret, ask>> /\ (prog \in {"getenv2", "getenv3"} => UNCHANGED hpc)
    BY <1>2 DEF Ct!Next, Ct!vars, Ct!Tick, Ct!MainLock, Ct!timeout, Ct!Wake, Ct!MainUnlock, Ct!UseLocks, Ct!Atfork,
      Ct!Block, Ct!SendQuit, Ct!thr_fn, Ct!MainWait, Ct!retry, Ct!Quiet, Ct!evars
  <2> QED BY <2>1 DEF GetenvInv, Ct!environ, Ct!Fits
<1> QED BY <1>1, <1>2

\* Each thread is somewhere.
LEMMA PcStep == PcType /\ [Ct!Next]_(Ct!vars) => PcType'
  BY ThreadSet DEF PcType, Ct!Next, Ct!vars, Ct!Tick, Ct!MainLock, Ct!timeout, Ct!Wake, Ct!MainUnlock, Ct!UseLocks, Ct!Atfork,
    Ct!Block, Ct!SendQuit, Ct!thr_fn, Ct!MainWait, Ct!retry, Ct!EnvLock, Ct!EnvFind, Ct!EnvUse, Ct!Quiet, Ct!Goto,
    Ct!prepare, Ct!Fork, Ct!parent
\* A time is its seconds and what is left of one.
LEMMA SecNsec ==
  ASSUME ControlSizes, NEW x \in Nat
  PROVE  /\ Ct!Sec(x) \in Nat /\ Ct!Nsec(x) \in 0..SECTONSEC - 1
         /\ x = Ct!Sec(x) * SECTONSEC + Ct!Nsec(x)
BY DEF ControlSizes, Ct!Sec, Ct!Nsec

\* The sleep lasts until the time wanted.
LEMMA WaitRight ==
  ASSUME ControlSizes, clock \in Nat, when \in Nat, Ct!Later
  PROVE  /\ Ct!to_wait.sec \in Nat /\ Ct!to_wait.nsec \in 0..SECTONSEC - 1
         /\ clock + Ct!to_wait.sec * SECTONSEC + Ct!to_wait.nsec = when
<1>1. PICK S \in Nat : S = SECTONSEC /\ S > 0
  BY DEF ControlSizes
<1>2. PICK a \in Nat, b \in 0..S - 1 : Ct!Sec(when) = a /\ Ct!Nsec(when) = b /\ when = a * S + b
  BY <1>1, SecNsec
<1>3. PICK c \in Nat, d \in 0..S - 1 : Ct!Sec(clock) = c /\ Ct!Nsec(clock) = d /\ clock = c * S + d
  BY <1>1, SecNsec
<1>4. a > c \/ (a = c /\ b > d)
  BY <1>2, <1>3 DEF Ct!Later
<1>5. CASE b >= d
  <2>1. Ct!to_wait.sec = a - c /\ Ct!to_wait.nsec = b - d
    BY <1>2, <1>3, <1>5 DEF Ct!to_wait
  <2>2. a - c \in Nat /\ b - d \in 0..S - 1
    BY <1>1, <1>4, <1>5
  <2>3. c * S + d + (a - c) * S + (b - d) = a * S + b
    <3>1. (a - c) * S = a * S - c * S /\ a * S \in Int /\ c * S \in Int
      OBVIOUS
    <3> QED BY <3>1
  <2> QED BY <1>1, <1>2, <1>3, <2>1, <2>2, <2>3
<1>6. CASE b < d
  <2>1. Ct!to_wait.sec = a - c - 1 /\ Ct!to_wait.nsec = S - d + b
    BY <1>1, <1>2, <1>3, <1>6 DEF Ct!to_wait
  <2>2. a - c - 1 \in Nat /\ S - d + b \in 0..S - 1
    BY <1>1, <1>4, <1>6
  <2>3. c * S + d + (a - c - 1) * S + (S - d + b) = a * S + b
    <3>1. (a - c - 1) * S = a * S - c * S - S /\ a * S \in Int /\ c * S \in Int
      OBVIOUS
    <3> QED BY <3>1
  <2> QED BY <1>1, <1>2, <1>3, <2>1, <2>2, <2>3
<1> QED BY <1>5, <1>6

\* timeout.c: who calls the function, and when.
TimeoutInv ==
  /\ prog # "timeout" => ran = {} /\ hpc["thr"] # "sleeps"
  /\ prog = "timeout" =>
     /\ clock \in Nat /\ when \in Nat
     /\ hpc["thr"] \in {"none", "sleeps", "now", "retries", "gone"}
     /\ hpc["main"] \in {"start", "locked", "now", "retries", "made", "gone"}
     /\ hpc["thr"] # "none" => hpc["main"] \in {"made", "gone"}
     /\ hpc["thr"] \in {"none", "gone"} => ~tip
     /\ hpc["thr"] = "sleeps" => since + twait.sec * SECTONSEC + twait.nsec = when /\ twait.nsec \in 0..SECTONSEC - 1
     /\ hpc["thr"] = "now" => clock >= when
     /\ hpc["main"] \in {"start", "locked", "now"} \/ hpc["thr"] \in {"sleeps", "now"} => ran = {}
     /\ \A r \in ran, q \in ran : r = q
     /\ \A r \in ran : r[1] = "thr" => r[2] >= when

\* timeout.c.
LEMMA TimeoutStep == ControlSizes /\ PcType /\ TimeoutInv /\ [Ct!Next]_(Ct!vars) => TimeoutInv'
<1> SUFFICES ASSUME ControlSizes, PcType, TimeoutInv, [Ct!Next]_(Ct!vars) PROVE TimeoutInv'
  OBVIOUS
<1>1. CASE prog # "timeout"
  <2>1. prog' = prog /\ ran' = ran
    BY <1>1 DEF Ct!Next, Ct!vars, Ct!tvars, Ct!Tick, Ct!MainLock, Ct!timeout, Ct!Wake, Ct!MainUnlock, Ct!UseLocks, Ct!Atfork,
    Ct!Block, Ct!SendQuit, Ct!thr_fn, Ct!MainWait, Ct!retry, Ct!EnvLock, Ct!EnvFind, Ct!EnvUse, Ct!Quiet
  <2>2. hpc'["thr"] # "sleeps"
    BY <1>1, ThreadSet DEF PcType, TimeoutInv, Ct!Next, Ct!vars, Ct!Tick, Ct!MainLock, Ct!timeout, Ct!Wake, Ct!MainUnlock,
      Ct!UseLocks, Ct!Atfork, Ct!prepare, Ct!Fork, Ct!parent, Ct!Goto,
      Ct!Block, Ct!SendQuit, Ct!thr_fn, Ct!MainWait, Ct!retry, Ct!EnvLock, Ct!EnvFind, Ct!EnvUse, Ct!Quiet
  <2> QED BY <1>1, <2>1, <2>2 DEF TimeoutInv
<1>2. CASE prog = "timeout"
  <2>1. Ct!Tick \/ Ct!MainLock \/ Ct!timeout \/ Ct!Wake \/ Ct!MainUnlock \/ (\E t \in Ct!Thread : Ct!retry(t)) \/ UNCHANGED Ct!vars
    BY <1>2 DEF Ct!Next, Ct!UseLocks, Ct!Atfork, Ct!Block, Ct!SendQuit, Ct!thr_fn, Ct!MainWait,
      Ct!EnvLock, Ct!EnvFind, Ct!EnvUse, Ct!Quiet, Ct!Getenv
  <2>2. CASE Ct!Tick \/ UNCHANGED Ct!vars
    BY <1>2, <2>2 DEF TimeoutInv, Ct!Tick, Ct!vars
  <2>3. CASE Ct!MainLock
    <3>1. when' \in Nat
      BY <1>2, <2>3 DEF TimeoutInv, Ct!MainLock, ControlSizes
    <3> QED BY <1>2, <2>3, <3>1, ThreadSet DEF PcType, TimeoutInv, Ct!MainLock, Ct!Goto
  <2>4. CASE Ct!timeout /\ hpc' = [hpc EXCEPT !["main"] = "now"] /\ UNCHANGED <<twait, since, tip>>
    BY <1>2, <2>4, ThreadSet DEF PcType, TimeoutInv, Ct!timeout
  <2>5. CASE Ct!timeout /\ Ct!Later /\ twait' = Ct!to_wait /\ since' = clock /\ hpc' = [main |-> "made", thr |-> "sleeps"]
    <3>1. since' + twait'.sec * SECTONSEC + twait'.nsec = when /\ twait'.nsec \in 0..SECTONSEC - 1
      BY <1>2, <2>5, WaitRight DEF TimeoutInv
    <3>2. hpc["main"] = "locked" /\ hpc'["main"] = "made" /\ hpc'["thr"] = "sleeps" /\ UNCHANGED <<prog, clock, when, ran>>
      BY <2>5 DEF Ct!timeout
    <3> QED BY <1>2, <3>1, <3>2 DEF TimeoutInv
  <2>6. CASE Ct!Wake
    BY <1>2, <2>6, ThreadSet DEF PcType, TimeoutInv, Ct!Wake, Ct!Goto
  <2>7. CASE Ct!MainUnlock
    BY <1>2, <2>7, ThreadSet DEF PcType, TimeoutInv, Ct!MainUnlock, Ct!Goto, Ct!tvars
  <2>8. ASSUME NEW t \in Ct!Thread, Ct!retry(t) PROVE TimeoutInv'
    <3>1. UNCHANGED <<prog, clock, when, since, twait>>
      BY <2>8 DEF Ct!retry
    <3>2. CASE hpc[t] = "now"
      <4>1. hpc' = [hpc EXCEPT ![t] = "retries"] /\ ran' = ran \union {<<t, clock>>} /\ UNCHANGED tip
        BY <2>8, <3>2 DEF Ct!retry, Ct!Goto
      <4>2. ran = {}
        BY <1>2, <3>2, ThreadSet DEF TimeoutInv
      <4>3. ran' = {<<t, clock>>} /\ <<t, clock>>[1] = t /\ <<t, clock>>[2] = clock
        BY <4>1, <4>2
      <4>4. CASE t = "main"
        BY <1>2, <3>1, <3>2, <4>1, <4>3, <4>4, ThreadSet DEF PcType, TimeoutInv
      <4>5. CASE t = "thr"
        BY <1>2, <3>1, <3>2, <4>1, <4>3, <4>5, ThreadSet DEF PcType, TimeoutInv
      <4> QED BY <4>4, <4>5, ThreadSet
    <3>3. CASE hpc[t] # "now"
      <4>1. hpc[t] = "retries" /\ hpc' = [hpc EXCEPT ![t] = IF t = "main" THEN "made" ELSE "gone"] /\ ran' = ran /\ tip' = FALSE
        BY <2>8, <3>3 DEF Ct!retry, Ct!Goto
      <4>2. CASE t = "main"
        BY <1>2, <3>1, <4>1, <4>2, ThreadSet DEF PcType, TimeoutInv
      <4>3. CASE t = "thr"
        BY <1>2, <3>1, <4>1, <4>3, ThreadSet DEF PcType, TimeoutInv
      <4> QED BY <4>2, <4>3, ThreadSet
    <3> QED BY <3>2, <3>3
  <2> QED BY <2>1, <2>2, <2>3, <2>4, <2>5, <2>6, <2>7, <2>8 DEF Ct!timeout
<1> QED BY <1>1, <1>2

\* timeout.c: main has the mutex from its lock to its unlock, twice while it calls the function itself.
MutexInv ==
  prog = "timeout" =>
    /\ owner \in [Ct!Lock -> {"main", "thr", "none"}]
    /\ hpc["main"] \in {"locked", "now", "made"} => owner[1] = "main" /\ depth = 1
    /\ hpc["main"] = "retries" => owner[1] = "main" /\ depth = 2
    /\ hpc["main"] \in {"start", "gone"} /\ hpc["thr"] # "retries" => owner[1] = "none"
    /\ hpc["thr"] = "retries" => owner[1] = "thr" /\ depth = 1 /\ hpc["main"] = "gone"

\* The mutex is taken again by who has it, or when it is free.
LEMMA MutexStep == PcType /\ TimeoutInv /\ MutexInv /\ [Ct!Next]_(Ct!vars) => MutexInv'
<1> SUFFICES ASSUME PcType, TimeoutInv, MutexInv, [Ct!Next]_(Ct!vars), prog' = "timeout" PROVE MutexInv'
  BY DEF MutexInv
<1>1. prog = "timeout"
  BY DEF Ct!Next, Ct!vars, Ct!tvars, Ct!Tick, Ct!MainLock, Ct!timeout, Ct!Wake, Ct!MainUnlock, Ct!UseLocks, Ct!Atfork,
    Ct!Block, Ct!SendQuit, Ct!thr_fn, Ct!MainWait, Ct!retry, Ct!EnvLock, Ct!EnvFind, Ct!EnvUse, Ct!Quiet
<1>2. Ct!Tick \/ Ct!MainLock \/ Ct!timeout \/ Ct!Wake \/ Ct!MainUnlock \/ (\E t \in Ct!Thread : Ct!retry(t)) \/ UNCHANGED Ct!vars
  BY <1>1 DEF Ct!Next, Ct!UseLocks, Ct!Atfork, Ct!Block, Ct!SendQuit, Ct!thr_fn, Ct!MainWait,
    Ct!EnvLock, Ct!EnvFind, Ct!EnvUse, Ct!Quiet, Ct!Getenv
<1>3. 1 \in Ct!Lock /\ Ct!None = "none"
  BY DEF Ct!Lock, Ct!None
<1>4. CASE Ct!Tick \/ UNCHANGED Ct!vars
  BY <1>1, <1>4 DEF MutexInv, Ct!Tick, Ct!vars
<1>5. CASE Ct!MainLock
  BY <1>1, <1>3, <1>5, ThreadSet DEF PcType, TimeoutInv, MutexInv, Ct!MainLock, Ct!Goto, Ct!LockAgain, Ct!MayLock
<1>6. CASE Ct!timeout
  <2>1. hpc["main"] = "locked" /\ hpc["thr"] = "none" /\ hpc'["main"] \in {"made", "now"} /\ hpc'["thr"] \in {"sleeps", "none"}
    BY <1>1, <1>6, ThreadSet DEF Ct!timeout, PcType, TimeoutInv
  <2> QED BY <1>1, <1>6, <2>1 DEF Ct!timeout, MutexInv
<1>7. CASE Ct!Wake
  BY <1>1, <1>7, ThreadSet DEF PcType, MutexInv, Ct!Wake, Ct!Goto
<1>8. CASE Ct!MainUnlock
  BY <1>1, <1>3, <1>8, ThreadSet DEF PcType, TimeoutInv, MutexInv, Ct!MainUnlock, Ct!Goto, Ct!Release, Ct!Give
<1>9. ASSUME Ct!retry("main") PROVE MutexInv'
  BY <1>1, <1>3, <1>9, ThreadSet DEF PcType, TimeoutInv, MutexInv, Ct!retry, Ct!Goto, Ct!Release, Ct!Give, Ct!LockAgain, Ct!MayLock
<1>10. ASSUME Ct!retry("thr") PROVE MutexInv'
  BY <1>1, <1>3, <1>10, ThreadSet DEF PcType, TimeoutInv, MutexInv, Ct!retry, Ct!Goto, Ct!Release, Ct!Give, Ct!LockAgain, Ct!MayLock
<1> QED BY <1>2, <1>4, <1>5, <1>6, <1>7, <1>8, <1>9, <1>10, ThreadSet

ControlInv == MutexInv /\ PcType /\ SuspendInv /\ AtforkInv /\ GetenvInv /\ TimeoutInv

\* Nothing has run.
LEMMA ControlInit == ControlSizes /\ Ct!Init => ControlInv
<1> SUFFICES ASSUME ControlSizes, Ct!Init PROVE ControlInv
  OBVIOUS
<1>1. PcType /\ hpc["main"] = "start" /\ hpc["thr"] \in {"start", "none"}
      /\ (prog = "timeout" => hpc["thr"] = "none")
  BY ThreadSet DEF Ct!Init, PcType
<1>2. SuspendInv /\ AtforkInv
  BY <1>1, ThreadSet DEF Ct!Init, SuspendInv, AtforkInv
<1>3. GetenvInv
  BY ThreadSet DEF Ct!Init, GetenvInv
<1>4. TimeoutInv
  BY <1>1 DEF Ct!Init, TimeoutInv, ControlSizes
<1>5. MutexInv
  BY <1>1 DEF Ct!Init, MutexInv, Ct!Lock, Ct!None
<1> QED BY <1>1, <1>2, <1>3, <1>4, <1>5 DEF ControlInv

\* A step of a thread.
LEMMA ControlStep == ControlSizes /\ ControlInv /\ [Ct!Next]_(Ct!vars) => ControlInv'
BY PcStep, SuspendStep, AtforkStep, GetenvStep, TimeoutStep, MutexStep DEF ControlInv

\* What the invariant says to the program.
LEMMA ControlPromises ==
  ASSUME ControlSizes, ControlInv
  PROVE  Ct!RunsOnTime /\ Ct!ChildLocksFree /\ Ct!QuitWakes /\ Ct!OwnBuffer /\ Ct!NoSelfWait
<1>1. Ct!RunsOnTime
  BY DEF ControlInv, TimeoutInv, Ct!RunsOnTime
<1>2. Ct!ChildLocksFree
  BY ThreadSet DEF ControlInv, AtforkInv, Ct!ChildLocksFree
<1>3. Ct!QuitWakes
  BY DEF ControlInv, SuspendInv, Ct!QuitWakes
<1>4. Ct!OwnBuffer
  <2> SUFFICES ASSUME NEW t \in Ct!Thread, prog \in {"getenv2", "getenv3"}, ret[t] \notin {"none", "failed"}
               PROVE  hbuf[t] = ask[t] /\ (prog = "getenv2" => Ct!environ[ask[t]] + 1 <= buflen)
    BY ThreadSet DEF Ct!OwnBuffer, Ct!Buffer
  <2>1. hbuf[t] = ask[t] /\ ask[t] \in DOMAIN Ct!environ /\ (prog = "getenv2" => Ct!environ[ask[t]] < buflen)
    BY DEF ControlInv, GetenvInv, Ct!Fits
  <2>2. \A name \in DOMAIN Ct!environ : Ct!environ[name] \in Int
    BY DEF Ct!environ, ControlSizes
  <2> QED BY <2>1, <2>2 DEF ControlSizes
<1>5. Ct!NoSelfWait
  BY DEF ControlInv, MutexInv, Ct!NoSelfWait, Ct!MayLock
<1> QED BY <1>1, <1>2, <1>3, <1>4, <1>5

(***************************************************************************)
(* The thread control programs, for every length of a second, every clock  *)
(* and every order of the threads: the function of timeout.c runs once and *)
(* not before its time, for which its thread sleeps to the tick; the child *)
(* of a fork finds every lock free; the thread that waits for SIGQUIT      *)
(* wakes main wherever main is; and a value found in the environment stays *)
(* in its thread's own buffer, in which it fits; and main never waits for  *)
(* the mutex that it has itself.                                           *)
(***************************************************************************)
THEOREM ControlTheorem ==
  ControlSizes => (ControlSpec => [](Ct!RunsOnTime /\ Ct!ChildLocksFree /\ Ct!QuitWakes /\ Ct!OwnBuffer /\ Ct!NoSelfWait))
<1> SUFFICES ASSUME ControlSizes
             PROVE  ControlSpec => [](Ct!RunsOnTime /\ Ct!ChildLocksFree /\ Ct!QuitWakes /\ Ct!OwnBuffer /\ Ct!NoSelfWait)
  OBVIOUS
<1>1. Ct!Init => ControlInv
  BY ControlInit
<1>2. ControlInv /\ [Ct!Next]_(Ct!vars) => ControlInv'
  BY ControlStep
<1>3. ControlInv => Ct!RunsOnTime /\ Ct!ChildLocksFree /\ Ct!QuitWakes /\ Ct!OwnBuffer /\ Ct!NoSelfWait
  BY ControlPromises
<1> QED BY <1>1, <1>2, <1>3, PTL DEF ControlSpec

-----------------------------------------------------------------------------
(***************************************************************************)
(* Programs that talk to a child over pipes: ipc1/pipe4.c with add2.c or   *)
(* add2stdio.c, pipe2.c, and popen1.c with myuclc.c.                       *)
(***************************************************************************)
CONSTANTS PIPEBUF, STDIOBUF, MaxLine
VARIABLES fprog, left, pp, cp, fdown, fup, downw, upw, downr, cur, obuf, answers
Fl == INSTANCE Filters WITH prog <- fprog, down <- fdown, up <- fup, printed <- answers
FilterSpec == Fl!Init /\ [][Fl!Next]_(Fl!vars)

\* The numbers of a sequence are those after num.
Nums(s, num) == \A k \in 1..Len(s) : s[k] = num + k

\* The empty sequence is one of those.
LEMMA NumsEmpty == \A num : Nums(<<>>, num) /\ Len(<<>>) = 0
BY DEF Nums

\* It is a sequence of numbers.
LEMMA NoLine == <<>> \in Seq(Int)
OBVIOUS

\* The next number is put at the end.
LEMMA NumsAppend ==
  ASSUME NEW s \in Seq(Int), NEW num \in Int, Nums(s, num), NEW x \in Int, x = num + Len(s) + 1
  PROVE  Append(s, x) \in Seq(Int) /\ Nums(Append(s, x), num) /\ Len(Append(s, x)) = Len(s) + 1
<1>1. Len(s) \in Nat /\ Len(Append(s, x)) = Len(s) + 1 /\ Append(s, x) \in Seq(Int)
  OBVIOUS
<1>2. ASSUME NEW k \in 1..Len(s) + 1 PROVE Append(s, x)[k] = num + k
  <2>1. CASE k = Len(s) + 1
    <3>1. Append(s, x)[k] = x
      BY <2>1
    <3> QED BY <1>1, <2>1, <3>1
  <2>2. CASE k # Len(s) + 1
    <3>1. k \in 1..Len(s)
      BY <1>1, <2>2
    <3>2. Append(s, x)[k] = s[k]
      BY <3>1
    <3> QED BY <3>1, <3>2 DEF Nums
  <2> QED BY <2>1, <2>2
<1> QED BY <1>1, <1>2 DEF Nums

\* The first is taken.
LEMMA NumsTake ==
  ASSUME NEW s \in Seq(Int), NEW num \in Int, Nums(s, num), s # <<>>
  PROVE  Tail(s) \in Seq(Int) /\ Head(s) = num + 1 /\ Nums(Tail(s), num + 1) /\ Len(s) = Len(Tail(s)) + 1
<1>1. Len(s) \in Nat /\ Len(s) > 0 /\ Tail(s) \in Seq(Int) /\ Len(Tail(s)) = Len(s) - 1 /\ Head(s) = s[1]
  OBVIOUS
<1>2. Head(s) = num + 1
  BY <1>1 DEF Nums
<1>3. ASSUME NEW k \in 1..Len(s) - 1 PROVE Tail(s)[k] = num + 1 + k
  <2>1. k + 1 \in 1..Len(s) /\ Tail(s)[k] = s[k + 1]
    BY <1>1
  <2>2. s[k + 1] = num + (k + 1)
    BY <2>1 DEF Nums
  <2> QED BY <2>1, <2>2
<1>4. Nums(Tail(s), num + 1)
  BY <1>1, <1>3 DEF Nums
<1> QED BY <1>1, <1>2, <1>4

\* One sequence follows another.
LEMMA NumsConcat ==
  ASSUME NEW s \in Seq(Int), NEW t \in Seq(Int), NEW num \in Int, Nums(s, num), Nums(t, num + Len(s))
  PROVE  s \o t \in Seq(Int) /\ Nums(s \o t, num) /\ Len(s \o t) = Len(s) + Len(t)
<1>1. Len(s) \in Nat /\ Len(t) \in Nat /\ s \o t \in Seq(Int) /\ Len(s \o t) = Len(s) + Len(t)
  OBVIOUS
<1>2. ASSUME NEW k \in 1..Len(s) + Len(t) PROVE (s \o t)[k] = num + k
  <2>1. CASE k <= Len(s)
    <3>1. k \in 1..Len(s) /\ (s \o t)[k] = s[k]
      BY <1>1, <2>1
    <3> QED BY <3>1 DEF Nums
  <2>2. CASE k > Len(s)
    <3>1. k - Len(s) \in 1..Len(t) /\ (s \o t)[k] = t[k - Len(s)]
      BY <1>1, <2>2
    <3>2. t[k - Len(s)] = num + Len(s) + (k - Len(s))
      BY <3>1 DEF Nums
    <3> QED BY <1>1, <3>1, <3>2
  <2> QED BY <1>1, <2>1, <2>2
<1> QED BY <1>1, <1>2 DEF Nums

FilterTypes ==
  /\ fprog \in {"add2", "add2stdio", "pager", "prompt"} /\ left \in Int
  /\ pp \in {"setup", "fgets", "write", "read", "wait", "gone"}
  /\ cp \in {"setup", "read", "answer", "gone"} /\ cur \in Int
  /\ fdown \in Seq(Int) /\ fup \in Seq(Int) /\ obuf \in Seq(Int) /\ answers \in Seq(Int)

\* Who has an end open is there, and has not closed it.
Ends ==
  /\ \A w \in upw : (w = "parent" /\ pp = "setup") \/ (w = "child" /\ cp # "gone")
  /\ \A w \in downw : \/ w = "user"
                      \/ w = "parent" /\ pp \notin {"wait", "gone"}
                      \/ w = "child" /\ cp = "setup"
  /\ pp = "wait" => fprog \in {"pager", "prompt"}
  /\ obuf # <<>> => fprog = "add2stdio"
  /\ cp # "gone" => "child" \in downr
  /\ fprog = "prompt" => downw \subseteq {"user"}

\* The lines are answered, on their way back, in the child's buffer, with the
\* child, or on their way to it.
Asked == IF cp = "answer" THEN 1 ELSE 0
Lines ==
  fprog # "pager" =>
    /\ Nums(fup, Len(answers))
    /\ cp # "gone" =>
         /\ Nums(obuf, Len(answers) + Len(fup))
         /\ cp = "answer" => cur = Len(answers) + Len(fup) + Len(obuf) + 1
         /\ Nums(fdown, Len(answers) + Len(fup) + Len(obuf) + Asked)
         /\ MaxLine - left - (IF pp = "write" THEN 1 ELSE 0) =
              Len(answers) + Len(fup) + Len(obuf) + Asked + Len(fdown)
OneLine ==
  /\ Nums(answers, 0)
  /\ Fl!Coprocess /\ pp \in {"setup", "fgets"} => Len(answers) = MaxLine - left
  /\ Fl!Coprocess /\ pp \in {"write", "read"} => Len(answers) = MaxLine - left - 1
  /\ fprog = "pager" => answers = <<>> /\ fup = <<>> /\ cp # "answer" /\ pp # "read" /\ obuf = <<>>
  /\ fprog = "prompt" => pp \notin {"fgets", "write"}

FilterInv == FilterTypes /\ Ends /\ Lines /\ OneLine
\* No line has been read.
LEMMA FilterInit == MaxLine \in Nat /\ Fl!Init => FilterInv
<1> SUFFICES ASSUME MaxLine \in Nat, Fl!Init PROVE FilterInv
  OBVIOUS
<1>1. fdown = <<>> /\ fup = <<>> /\ obuf = <<>> /\ answers = <<>> /\ left = MaxLine /\ pp = "setup" /\ cp = "setup" /\ cur = 0
  BY DEF Fl!Init
<1>2. FilterTypes
  BY <1>1 DEF Fl!Init, FilterTypes
<1>3. Ends
  BY <1>1 DEF Fl!Init, Ends
<1>4. Lines
  BY <1>1, NumsEmpty DEF Lines, Asked
<1>5. OneLine
  BY <1>1, NumsEmpty DEF OneLine, Fl!Coprocess
<1> QED BY <1>2, <1>3, <1>4, <1>5 DEF FilterInv

\* The lengths are numbers.
LEMMA LensNat ==
  FilterTypes => Len(fdown) \in Nat /\ Len(fup) \in Nat /\ Len(obuf) \in Nat /\ Len(answers) \in Nat /\ Asked \in {0, 1}
BY DEF FilterTypes, Asked

\* Steps of the parent that move no line.
LEMMA ParentMoves ==
  MaxLine \in Nat /\ FilterInv /\ (Fl!ParentCloses \/ Fl!fgets \/ Fl!WaitPid \/ UNCHANGED Fl!vars) => FilterInv'
<1> SUFFICES ASSUME MaxLine \in Nat, FilterInv, Fl!ParentCloses \/ Fl!fgets \/ Fl!WaitPid \/ UNCHANGED Fl!vars PROVE FilterInv'
  OBVIOUS
<1>1. FilterTypes /\ Ends /\ Lines /\ OneLine
  BY DEF FilterInv
<1>2. UNCHANGED <<fprog, cp, fdown, fup, cur, obuf, answers>>
  BY DEF Fl!ParentCloses, Fl!fgets, Fl!WaitPid, Fl!vars
<1>3. FilterTypes'
  BY <1>1, <1>2 DEF FilterTypes, Fl!ParentCloses, Fl!fgets, Fl!WaitPid, Fl!vars, Fl!ParentExits
<1>4. Ends'
  BY <1>1, <1>2 DEF FilterTypes, Ends, OneLine, Fl!ParentCloses, Fl!fgets, Fl!WaitPid, Fl!vars, Fl!ParentExits, Fl!Coprocess
<1>5. left \in Int /\ Len(answers) \in Nat
  BY <1>1, LensNat DEF FilterTypes
<1>6. \/ left' = left /\ pp' = pp
      \/ left' = left /\ pp' # "write" /\ pp # "write" /\ (pp' = "fgets" => pp = "setup")
           /\ (pp' = "read" => pp = "setup" /\ fprog = "prompt") /\ (pp' = "fgets" => fprog # "prompt") /\ pp' # "setup"
      \/ left' = left - 1 /\ pp' = "write" /\ pp = "fgets"
  BY <1>1 DEF FilterTypes, Fl!ParentCloses, Fl!fgets, Fl!WaitPid, Fl!vars, Fl!ParentExits
<1>7. OneLine'
  BY <1>1, <1>2, <1>5, <1>6 DEF OneLine, Fl!Coprocess
<1>8. MaxLine - left' - (IF pp' = "write" THEN 1 ELSE 0) = MaxLine - left - (IF pp = "write" THEN 1 ELSE 0)
  BY <1>5, <1>6
<1>9. Lines'
  BY <1>1, <1>2, <1>8 DEF Lines, Asked
<1> QED BY <1>3, <1>4, <1>7, <1>9 DEF FilterInv

\* A line is put on its way to the child.
LEMMA AskedLine ==
  ASSUME MaxLine \in Nat, FilterInv, fprog # "pager", NEW x \in Int, fdown' = Append(fdown, x), left' \in Int,
         MaxLine - left - (IF pp = "write" THEN 1 ELSE 0) = x - 1,
         MaxLine - left' - (IF pp' = "write" THEN 1 ELSE 0) = x,
         UNCHANGED <<fprog, cp, fup, cur, obuf, answers>>
  PROVE  Lines' /\ fdown' \in Seq(Int)
<1>1. FilterTypes /\ Lines
  BY DEF FilterInv
<1>2. fdown \in Seq(Int) /\ fdown' \in Seq(Int) /\ Len(fdown) \in Nat
  BY <1>1 DEF FilterTypes
<1>3. PICK s \in Int : s = Len(answers) + Len(fup) + Len(obuf) + Asked
  BY <1>1, LensNat
<1>4. ASSUME cp # "gone"
      PROVE  Nums(fdown', s) /\ x = s + Len(fdown')
  <2>1. Nums(fdown, s) /\ x - 1 = s + Len(fdown)
    BY <1>1, <1>3, <1>4 DEF Lines
  <2>2. x = s + Len(fdown) + 1
    BY <1>2, <2>1
  <2>3. Nums(Append(fdown, x), s) /\ Len(Append(fdown, x)) = Len(fdown) + 1
    BY <1>2, <2>1, <2>2, NumsAppend
  <2> QED BY <1>2, <2>2, <2>3
<1>5. Asked' = Asked
  BY DEF Asked
<1>6. Lines'
  BY <1>1, <1>3, <1>4, <1>5 DEF Lines
<1> QED BY <1>2, <1>6

\* The parent writes a line.
LEMMA WriteLineStep == MaxLine \in Nat /\ FilterInv /\ Fl!WriteLine => FilterInv'
<1> SUFFICES ASSUME MaxLine \in Nat, FilterInv, Fl!WriteLine PROVE FilterInv'
  OBVIOUS
<1>1. FilterTypes /\ Ends /\ Lines /\ OneLine
  BY DEF FilterInv
<1>2. pp = "write" /\ UNCHANGED <<fprog, left, cp, fup, upw, downr, cur, obuf, answers>> /\ left \in Int /\ fprog # "prompt"
  BY <1>1 DEF Fl!WriteLine, FilterTypes, OneLine
<1>3. CASE fdown' = Append(fdown, MaxLine - left) /\ pp' = (IF Fl!Coprocess THEN "read" ELSE "fgets") /\ UNCHANGED downw
  <2>1. MaxLine - left \in Int
    BY <1>2
  <2>2. Lines' /\ fdown' \in Seq(Int)
    <3>1. CASE fprog = "pager"
      BY <1>1, <1>2, <1>3, <2>1, <3>1 DEF FilterTypes, Lines
    <3>2. CASE fprog # "pager"
      <4>1. /\ MaxLine - left - (IF pp = "write" THEN 1 ELSE 0) = (MaxLine - left) - 1
            /\ MaxLine - left' - (IF pp' = "write" THEN 1 ELSE 0) = MaxLine - left /\ left' \in Int
        BY <1>2, <1>3
      <4> QED BY <1>2, <1>3, <2>1, <3>2, <4>1, AskedLine
    <3> QED BY <3>1, <3>2
  <2>3. FilterTypes'
    BY <1>1, <1>2, <1>3, <2>2 DEF FilterTypes
  <2>4. Ends'
    BY <1>1, <1>2, <1>3 DEF Ends
  <2>5. OneLine'
    BY <1>1, <1>2, <1>3 DEF OneLine, Fl!Coprocess, FilterTypes
  <2> QED BY <2>2, <2>3, <2>4, <2>5 DEF FilterInv
<1>4. CASE pp' = "gone" /\ downw' = downw \ {"parent"} /\ UNCHANGED fdown /\ downr = {}
  <2>1. FilterTypes' /\ OneLine'
    BY <1>1, <1>2, <1>4 DEF FilterTypes, OneLine, Fl!Coprocess
  <2>2. Ends'
    BY <1>1, <1>2, <1>4 DEF Ends
  <2>3. cp = "gone"
    BY <1>1, <1>4 DEF Ends
  <2>4. Lines'
    BY <1>1, <1>2, <1>4, <2>3 DEF Lines
  <2> QED BY <2>1, <2>2, <2>4 DEF FilterInv
<1> QED BY <1>3, <1>4 DEF Fl!WriteLine, Fl!ParentExits

\* The parent reads an answer, or the end.
LEMMA ReadAnswerStep == MaxLine \in Nat /\ FilterInv /\ Fl!ReadAnswer => FilterInv'
<1> SUFFICES ASSUME MaxLine \in Nat, FilterInv, Fl!ReadAnswer PROVE FilterInv'
  OBVIOUS
<1>1. FilterTypes /\ Ends /\ Lines /\ OneLine
  BY DEF FilterInv
<1>2. pp = "read" /\ UNCHANGED <<fprog, left, cp, fdown, upw, downr, cur, obuf>> /\ left \in Int /\ fprog # "pager"
  BY <1>1 DEF Fl!ReadAnswer, FilterTypes, OneLine
<1>3. CASE fup # <<>> /\ answers' = Append(answers, Head(fup)) /\ fup' = Tail(fup)
           /\ pp' = (IF Fl!Coprocess THEN "fgets" ELSE "read") /\ UNCHANGED downw
  <2>1. answers \in Seq(Int) /\ fup \in Seq(Int) /\ Len(answers) \in Nat /\ Len(fup) \in Nat
        /\ Nums(fup, Len(answers)) /\ Nums(answers, 0)
    BY <1>1, <1>2 DEF FilterTypes, Lines, OneLine
  <2>2. PICK a \in Nat : a = Len(answers)
    BY <2>1
  <2>3. Tail(fup) \in Seq(Int) /\ Head(fup) = a + 1 /\ Nums(Tail(fup), a + 1) /\ Len(fup) = Len(Tail(fup)) + 1
    BY <1>3, <2>1, <2>2, NumsTake
  <2>4. Head(fup) \in Int /\ Head(fup) = 0 + Len(answers) + 1
    BY <2>2, <2>3
  <2>5. Append(answers, Head(fup)) \in Seq(Int) /\ Nums(Append(answers, Head(fup)), 0)
        /\ Len(Append(answers, Head(fup))) = Len(answers) + 1
    BY <2>1, <2>4, NumsAppend
  <2>6. answers' \in Seq(Int) /\ Nums(answers', 0) /\ Len(answers') = a + 1 /\ fup' \in Seq(Int) /\ Nums(fup', a + 1)
    BY <1>3, <2>2, <2>3, <2>5
  <2>7. FilterTypes'
    BY <1>1, <1>2, <1>3, <2>6 DEF FilterTypes
  <2>8. Ends'
    BY <1>1, <1>2, <1>3 DEF Ends
  <2>9. OneLine'
    BY <1>1, <1>2, <1>3, <2>2, <2>6 DEF OneLine, Fl!Coprocess
  <2>10. Len(answers') + Len(fup') = Len(answers) + Len(fup)
    <3>1. Len(fup') \in Nat /\ Len(fup) = Len(fup') + 1
      BY <1>3, <2>3, <2>6
    <3> QED BY <2>2, <2>6, <3>1
  <2>11. Lines'
    <3>1. Asked' = Asked /\ pp # "write" /\ pp' # "write"
      BY <1>2, <1>3 DEF Asked
    <3>2. Nums(fup', Len(answers'))
      BY <2>6
    <3> QED BY <1>1, <1>2, <2>10, <3>1, <3>2 DEF Lines
  <2> QED BY <2>7, <2>8, <2>9, <2>11 DEF FilterInv
<1>4. CASE fup = <<>> /\ UNCHANGED <<fup, answers>> /\ downw' \subseteq downw /\ pp' \in {"wait", "gone"}
           /\ (pp' = "wait" => fprog = "prompt") /\ (pp' = "wait" => downw' = downw) /\ (pp' = "gone" => downw' = downw \ {"parent"})
  <2>1. FilterTypes' /\ OneLine'
    BY <1>1, <1>2, <1>4 DEF FilterTypes, OneLine, Fl!Coprocess
  <2>2. Ends'
    BY <1>1, <1>2, <1>4 DEF Ends
  <2>3. Lines'
    BY <1>1, <1>2, <1>4 DEF Lines, Asked
  <2> QED BY <2>1, <2>2, <2>3 DEF FilterInv
<1> QED BY <1>3, <1>4 DEF Fl!ReadAnswer, Fl!ParentExits

\* The user types a line, or ends the input.
LEMMA TypeStep == MaxLine \in Nat /\ FilterInv /\ Fl!Type => FilterInv'
<1> SUFFICES ASSUME MaxLine \in Nat, FilterInv, Fl!Type PROVE FilterInv'
  OBVIOUS
<1>1. FilterTypes /\ Ends /\ Lines /\ OneLine
  BY DEF FilterInv
<1>2. fprog = "prompt" /\ UNCHANGED <<fprog, pp, cp, fup, upw, downr, cur, obuf, answers>> /\ left \in Int /\ pp # "write"
  BY <1>1 DEF Fl!Type, FilterTypes, OneLine
<1>3. CASE left' = left - 1 /\ fdown' = Append(fdown, MaxLine - left') /\ UNCHANGED downw
  <2>1. MaxLine - left' \in Int /\ left' \in Int
        /\ MaxLine - left - (IF pp = "write" THEN 1 ELSE 0) = (MaxLine - left') - 1
        /\ MaxLine - left' - (IF pp' = "write" THEN 1 ELSE 0) = MaxLine - left'
    BY <1>2, <1>3
  <2>2. Lines' /\ fdown' \in Seq(Int)
    BY <1>2, <1>3, <2>1, AskedLine
  <2>3. FilterTypes' /\ OneLine'
    BY <1>1, <1>2, <2>1, <2>2 DEF FilterTypes, OneLine, Fl!Coprocess
  <2>4. Ends'
    BY <1>1, <1>2, <1>3 DEF Ends
  <2> QED BY <2>2, <2>3, <2>4 DEF FilterInv
<1>4. CASE downw' = {} /\ UNCHANGED <<left, fdown>>
  BY <1>1, <1>2, <1>4 DEF FilterInv, FilterTypes, OneLine, Fl!Coprocess, Ends, Lines, Asked
<1> QED BY <1>3, <1>4 DEF Fl!Type

\* The child ends, and what it has not written may be lost.
LEMMA ChildEnds ==
  ASSUME MaxLine \in Nat, FilterInv, NEW s \in Seq(Int), Fl!Exits(s), s = <<>> \/ s = obuf, cp # "gone",
         UNCHANGED <<fprog, left, pp, fdown, answers>>, cur' \in Int
  PROVE  FilterInv'
<1>1. FilterTypes /\ Ends /\ Lines /\ OneLine
  BY DEF FilterInv
<1>2. /\ cp' = "gone" /\ downw' = downw \ {"child"} /\ downr' = downr \ {"child"} /\ upw' = upw \ {"child"}
      /\ fup' = fup \o s /\ obuf' = <<>>
  BY DEF Fl!Exits
<1>3. fup' \in Seq(Int) /\ (fprog = "pager" => fup' = <<>>)
  BY <1>1, <1>2 DEF FilterTypes, OneLine
<1>4. ASSUME fprog # "pager" PROVE Nums(fup', Len(answers))
  <2>1. fup \in Seq(Int) /\ Len(answers) \in Int /\ Len(fup) \in Int /\ Nums(fup, Len(answers)) /\ Nums(obuf, Len(answers) + Len(fup))
    BY <1>1, <1>4 DEF FilterTypes, Lines
  <2>2. Nums(s, Len(answers) + Len(fup))
    BY <2>1, NumsEmpty
  <2> QED BY <1>2, <2>1, <2>2, NumsConcat
<1>5. FilterTypes'
  BY <1>1, <1>2, <1>3 DEF FilterTypes
<1>6. Ends'
  BY <1>1, <1>2 DEF Ends
<1>7. Lines'
  BY <1>2, <1>4 DEF Lines
<1>8. OneLine'
  BY <1>1, <1>2, <1>3 DEF OneLine, Fl!Coprocess
<1> QED BY <1>5, <1>6, <1>7, <1>8 DEF FilterInv

\* The child closes its spare ends.
LEMMA ChildClosesStep == MaxLine \in Nat /\ FilterInv /\ Fl!ChildCloses => FilterInv'
<1> SUFFICES ASSUME MaxLine \in Nat, FilterInv, Fl!ChildCloses PROVE FilterInv'
  OBVIOUS
<1>1. FilterTypes /\ Ends /\ Lines /\ OneLine
  BY DEF FilterInv
<1>2. cp = "setup" /\ UNCHANGED <<fprog, left, pp, fdown, cur, answers>> /\ cur \in Int
  BY <1>1 DEF Fl!ChildCloses, FilterTypes
<1>3. CASE cp' = "read" /\ downw' = downw \ {"child"} /\ UNCHANGED <<upw, downr, fup, obuf>>
  <2>1. FilterTypes' /\ OneLine'
    BY <1>1, <1>2, <1>3 DEF FilterTypes, OneLine, Fl!Coprocess
  <2>2. Ends'
    BY <1>1, <1>2, <1>3 DEF Ends
  <2>3. Lines'
    BY <1>1, <1>2, <1>3 DEF Lines, Asked
  <2> QED BY <2>1, <2>2, <2>3 DEF FilterInv
<1>4. CASE Fl!Exits(<<>>)
  BY <1>2, <1>4, NoLine, ChildEnds
<1> QED BY <1>3, <1>4 DEF Fl!ChildCloses

\* It is killed.
LEMMA KilledStep == MaxLine \in Nat /\ FilterInv /\ Fl!Killed => FilterInv'
<1> SUFFICES ASSUME MaxLine \in Nat, FilterInv, Fl!Killed PROVE FilterInv'
  OBVIOUS
<1>1. cp # "gone" /\ UNCHANGED <<fprog, left, pp, fdown, cur, answers>> /\ cur \in Int /\ Fl!Exits(<<>>)
  BY DEF Fl!Killed, FilterInv, FilterTypes
<1> QED BY <1>1, NoLine, ChildEnds

\* It reads a line, or the end.
LEMMA ReadLineStep == MaxLine \in Nat /\ FilterInv /\ Fl!ReadLine => FilterInv'
<1> SUFFICES ASSUME MaxLine \in Nat, FilterInv, Fl!ReadLine PROVE FilterInv'
  OBVIOUS
<1>1. FilterTypes /\ Ends /\ Lines /\ OneLine
  BY DEF FilterInv
<1>2. cp = "read" /\ UNCHANGED <<fprog, left, pp, answers>>
  BY DEF Fl!ReadLine
<1>3. CASE fdown # <<>> /\ fdown' = Tail(fdown) /\ cur' = Head(fdown) /\ cp' = (IF fprog = "pager" THEN "read" ELSE "answer")
           /\ UNCHANGED <<fup, obuf, downw, downr, upw>>
  <2>1. fdown \in Seq(Int) /\ Tail(fdown) \in Seq(Int) /\ Head(fdown) \in Int
    BY <1>1, <1>3 DEF FilterTypes
  <2>2. FilterTypes'
    BY <1>1, <1>2, <1>3, <2>1 DEF FilterTypes
  <2>3. Ends'
    BY <1>1, <1>2, <1>3 DEF Ends
  <2>4. OneLine'
    BY <1>1, <1>2, <1>3 DEF OneLine, Fl!Coprocess
  <2>5. Lines'
    <3>1. CASE fprog = "pager"
      BY <1>2, <3>1 DEF Lines
    <3>2. CASE fprog # "pager"
      <4>1. PICK s \in Int : s = Len(answers) + Len(fup) + Len(obuf)
        BY <1>1, LensNat
      <4>2. Asked = 0 /\ Asked' = 1
        BY <1>2, <1>3, <3>2 DEF Asked
      <4>3. Nums(fdown, s)
        BY <1>1, <1>2, <3>2, <4>1, <4>2 DEF Lines
      <4>4. Head(fdown) = s + 1 /\ Nums(Tail(fdown), s + 1) /\ Len(fdown) = Len(Tail(fdown)) + 1
        BY <1>3, <2>1, <4>3, NumsTake
      <4>5. Len(fdown) \in Nat /\ Len(fdown') \in Nat /\ Len(fdown) = Len(fdown') + 1
        BY <1>3, <2>1, <4>4
      <4>6. Nums(fdown', s + Asked') /\ cur' = s + 1 /\ s + Asked' + Len(fdown') = s + Asked + Len(fdown)
        BY <1>3, <4>2, <4>4, <4>5
      <4>7. /\ Nums(fup, Len(answers)) /\ Nums(obuf, Len(answers) + Len(fup))
            /\ MaxLine - left - (IF pp = "write" THEN 1 ELSE 0) = s + Asked + Len(fdown)
        BY <1>1, <1>2, <3>2, <4>1 DEF Lines
      <4> QED BY <1>2, <1>3, <4>1, <4>6, <4>7 DEF Lines
    <3> QED BY <3>1, <3>2
  <2> QED BY <2>2, <2>3, <2>4, <2>5 DEF FilterInv
<1>4. CASE Fl!Exits(obuf) /\ UNCHANGED <<fdown, cur>>
  <2>1. cur \in Int /\ obuf \in Seq(Int)
    BY <1>1 DEF FilterTypes
  <2> QED BY <1>2, <1>4, <2>1, ChildEnds
<1> QED BY <1>3, <1>4 DEF Fl!ReadLine

\* It answers, into its buffer or out.
LEMMA AnswerLineStep == MaxLine \in Nat /\ FilterInv /\ Fl!AnswerLine => FilterInv'
<1> SUFFICES ASSUME MaxLine \in Nat, FilterInv, Fl!AnswerLine PROVE FilterInv'
  OBVIOUS
<1>1. FilterTypes /\ Ends /\ Lines /\ OneLine
  BY DEF FilterInv
<1>2. cp = "answer" /\ UNCHANGED <<fprog, left, pp, fdown, cur, answers>> /\ fprog # "pager" /\ cur \in Int
  BY <1>1 DEF Fl!AnswerLine, FilterTypes, OneLine
<1>3. PICK o : o = Append(obuf, cur)
  OBVIOUS
<1>4. Fl!Kept(o) = <<>> \/ (Fl!Kept(o) = o /\ fprog = "add2stdio")
  BY DEF Fl!Kept
<1>5. CASE Fl!Exits(<<>>)
  BY <1>2, <1>5, NoLine, ChildEnds
<1>6. CASE /\ obuf' = Fl!Kept(o) /\ fup' = (IF Fl!Kept(o) = <<>> THEN fup \o o ELSE fup) /\ cp' = "read"
           /\ UNCHANGED <<downw, downr, upw>>
  <2>1. fup \in Seq(Int) /\ obuf \in Seq(Int) /\ Len(fup) \in Nat /\ Len(obuf) \in Nat /\ Len(answers) \in Nat
    BY <1>1 DEF FilterTypes
  <2>2. PICK a \in Nat : a = Len(answers) + Len(fup)
    BY <2>1
  <2>3. Nums(fup, Len(answers)) /\ Nums(obuf, a) /\ cur = a + Len(obuf) + 1
    BY <1>1, <1>2, <2>2 DEF Lines
  <2>4. o \in Seq(Int) /\ Nums(o, a) /\ Len(o) = Len(obuf) + 1
    BY <1>2, <1>3, <2>1, <2>3, NumsAppend
  <2>5. Asked = 1 /\ Asked' = 0
    BY <1>2, <1>6 DEF Asked
  <2>6. PICK f \in Nat : f = Len(fdown)
    BY <1>1, LensNat
  <2>7. Nums(fdown, a + Len(obuf) + 1) /\ MaxLine - left - (IF pp = "write" THEN 1 ELSE 0) = a + Len(obuf) + 1 + f
    BY <1>1, <1>2, <2>2, <2>5, <2>6 DEF Lines
  <2>8. CASE Fl!Kept(o) = <<>>
    <3>1. fup' = fup \o o /\ obuf' = <<>>
      BY <1>6, <2>8
    <3>2. fup' \in Seq(Int) /\ Nums(fup', Len(answers)) /\ Len(fup') = Len(fup) + Len(obuf) + 1
      <4>1. Nums(o, Len(answers) + Len(fup)) /\ Len(answers) \in Int
        BY <2>1, <2>2, <2>4
      <4>2. fup \o o \in Seq(Int) /\ Nums(fup \o o, Len(answers)) /\ Len(fup \o o) = Len(fup) + Len(o)
        BY <2>1, <2>3, <2>4, <4>1, NumsConcat
      <4> QED BY <2>1, <2>4, <3>1, <4>2
    <3>3. PICK b \in Int : b = Len(answers') + Len(fup')
      BY <1>2, <2>1, <3>2
    <3>4. b = a + Len(obuf) + 1 /\ Len(obuf') = 0
      BY <1>2, <2>1, <2>2, <3>1, <3>2, <3>3
    <3>5. FilterTypes'
      BY <1>1, <1>2, <1>6, <3>1, <3>2 DEF FilterTypes
    <3>6. Ends' /\ OneLine'
      BY <1>1, <1>2, <1>6, <3>1 DEF Ends, OneLine, Fl!Coprocess
    <3>7. /\ Nums(fup', Len(answers')) /\ Nums(obuf', b)
          /\ Nums(fdown', b + Len(obuf') + Asked')
          /\ MaxLine - left' - (IF pp' = "write" THEN 1 ELSE 0) = b + Len(obuf') + Asked' + Len(fdown')
      <4>1. b + Len(obuf') + Asked' = a + Len(obuf) + 1
        BY <2>5, <3>3, <3>4
      <4>2. Nums(obuf', b)
        BY <3>1, NumsEmpty
      <4> QED BY <1>2, <2>6, <2>7, <3>2, <4>1, <4>2
    <3>8. Lines'
      BY <1>6, <3>3, <3>7 DEF Lines
    <3> QED BY <3>5, <3>6, <3>8 DEF FilterInv
  <2>9. CASE Fl!Kept(o) # <<>>
    <3>1. fup' = fup /\ obuf' = o /\ fprog = "add2stdio"
      BY <1>4, <1>6, <2>9
    <3>2. FilterTypes'
      BY <1>1, <1>2, <1>6, <2>4, <3>1 DEF FilterTypes
    <3>3. Ends' /\ OneLine'
      BY <1>1, <1>2, <1>6, <3>1 DEF Ends, OneLine, Fl!Coprocess
    <3>4. /\ Len(answers') + Len(fup') = a /\ Len(obuf') = Len(obuf) + 1
          /\ a + Len(obuf') + Asked' = a + Len(obuf) + 1
      <4>1. Len(obuf') = Len(obuf) + 1 /\ answers' = answers
        BY <1>2, <2>4, <3>1
      <4>2. PICK l \in Int : l = Len(obuf)
        BY <2>1
      <4>3. a + (l + 1) + 0 = a + l + 1
        BY <2>2, <4>2
      <4> QED BY <2>2, <2>5, <3>1, <4>1, <4>2, <4>3
    <3>5. /\ Nums(fup', Len(answers')) /\ Nums(obuf', a) /\ Nums(fdown', a + Len(obuf') + Asked')
          /\ MaxLine - left' - (IF pp' = "write" THEN 1 ELSE 0) = a + Len(obuf') + Asked' + Len(fdown')
      BY <1>2, <2>3, <2>4, <2>6, <2>7, <3>1, <3>4
    <3>6. Lines'
      BY <1>6, <3>4, <3>5 DEF Lines
    <3> QED BY <3>2, <3>3, <3>6 DEF FilterInv
  <2> QED BY <2>8, <2>9
<1>7. Fl!Exits(<<>>) \/ (/\ obuf' = Fl!Kept(o) /\ fup' = (IF Fl!Kept(o) = <<>> THEN fup \o o ELSE fup) /\ cp' = "read"
                        /\ UNCHANGED <<downw, downr, upw>>)
  BY <1>3 DEF Fl!AnswerLine
<1> QED BY <1>5, <1>6, <1>7

\* Nobody waits for who waits for it, everyone sees the end, and a prompt is answered.
LEMMA FilterPromises == MaxLine \in Nat /\ FilterInv => Fl!NoMutualWait /\ Fl!EndSeen /\ Fl!PromptAnswered
<1> SUFFICES ASSUME MaxLine \in Nat, FilterInv PROVE Fl!NoMutualWait /\ Fl!EndSeen /\ Fl!PromptAnswered
  OBVIOUS
<1>1. FilterTypes /\ Ends /\ Lines /\ OneLine
  BY DEF FilterInv
<1>2. ASSUME Fl!ParentWaits, Fl!ChildWaits, fprog = "add2" PROVE FALSE
  <2>1. pp = "read" /\ fup = <<>> /\ cp = "read" /\ fdown = <<>> /\ obuf = <<>>
    BY <1>1, <1>2 DEF Fl!ParentWaits, Fl!ChildWaits, Ends
  <2>2. PICK a \in Nat : a = Len(answers)
    BY <1>1, LensNat
  <2>3. a = MaxLine - left - 1
    BY <1>1, <1>2, <2>1, <2>2 DEF OneLine, Fl!Coprocess
  <2>4. MaxLine - left - 0 = a + 0 + 0 + 0 + 0
    BY <1>1, <1>2, <2>1, <2>2 DEF Lines, Asked
  <2>5. left \in Int
    BY <1>1 DEF FilterTypes
  <2> QED BY <2>3, <2>4, <2>5
<1>3. answers = [k \in 1..Len(answers) |-> k]
  <2>1. answers \in Seq(Int) /\ Len(answers) \in Nat /\ Nums(answers, 0)
    BY <1>1 DEF FilterTypes, OneLine
  <2>2. \A k \in 1..Len(answers) : answers[k] = k
    BY <2>1 DEF Nums
  <2>3. answers = [k \in 1..Len(answers) |-> answers[k]]
    BY <2>1
  <2> QED BY <2>2, <2>3
<1>4. Fl!NoMutualWait
  BY <1>2, <1>3 DEF Fl!NoMutualWait
<1>5. Fl!EndSeen
  BY <1>1 DEF Fl!EndSeen, Fl!ParentWaits, Fl!ChildWaits, Ends
<1>6. Fl!PromptAnswered
  BY <1>1 DEF Fl!PromptAnswered, Ends
<1> QED BY <1>4, <1>5, <1>6

(***************************************************************************)
(* Parent and coprocess never wait for each other, unless the coprocess is *)
(* add2stdio, whose answer stays in its buffer; everyone sees the other's  *)
(* end, and a prompt is answered before the next line is waited for, for   *)
(* every number of lines and every size of the pipes and of the buffer.    *)
(***************************************************************************)
THEOREM FilterTheorem ==
  MaxLine \in Nat => (FilterSpec => [](Fl!NoMutualWait /\ Fl!EndSeen /\ Fl!PromptAnswered))
<1> SUFFICES ASSUME MaxLine \in Nat PROVE FilterSpec => [](Fl!NoMutualWait /\ Fl!EndSeen /\ Fl!PromptAnswered)
  OBVIOUS
<1>1. Fl!Init => FilterInv
  BY FilterInit
<1>2. FilterInv /\ [Fl!Next]_(Fl!vars) => FilterInv'
  BY ParentMoves, WriteLineStep, ReadAnswerStep, TypeStep, ChildClosesStep, ReadLineStep, AnswerLineStep, KilledStep
     DEF Fl!Next, Fl!Ended
<1>3. FilterInv => Fl!NoMutualWait /\ Fl!EndSeen /\ Fl!PromptAnswered
  BY FilterPromises
<1> QED BY <1>1, <1>2, <1>3, PTL DEF FilterSpec

-----------------------------------------------------------------------------
(***************************************************************************)
(* Parent and child that take turns: lib/tellwait.c and ipc1/tellwait.c,   *)
(* with proc/tellwait2.c, ipc1/devzero.c and advio/deadlock.c.             *)
(***************************************************************************)
CONSTANT NLOOPS
VARIABLES wprog, whow, wat, sub, sigflag, blocked, pending, pipe, area, counter, held, bad, waits
Tw == INSTANCE TellWait WITH prog <- wprog, how <- whow, at <- wat
TurnSpec == Tw!Init /\ [][Tw!Next]_(Tw!vars)

\* The loop of ipc1/devzero.c that a process is in, and its place there.
Loops(r) == (wat[r] - 1) \div 3
Place(r) == wat[r] - 3 * Loops(r)

\* How often a process has called TELL_x and WAIT_x, and updated the number.
One(b) == IF b THEN 1 ELSE 0
Tells(r) ==
  CASE wprog = "tellwait2" -> One(r = "parent" /\ wat[r] > 2)
    [] wprog = "devzero" -> IF r = "parent" THEN Loops(r) + One(Place(r) = 3) ELSE Loops(r)
    [] wprog = "deadlock" -> One(wat[r] > 2)
Waits(r) ==
  CASE wprog = "tellwait2" -> One(r = "child" /\ wat[r] > 1)
    [] wprog = "devzero" -> IF r = "child" THEN Loops(r) + One(Place(r) > 1) ELSE Loops(r)
    [] wprog = "deadlock" -> One(wat[r] > 3)
Updated(r) == Loops(r) + IF r = "parent" THEN One(Place(r) > 1) ELSE One(Place(r) = 3)

TurnTypes ==
  /\ wprog \in {"tellwait2", "devzero", "deadlock"} /\ whow \in {"signals", "pipes"}
  /\ wat \in [Tw!Role -> Nat \ {0}]
  /\ sub \in [Tw!Role -> {"start", "middle", "suspend", "suspended", "reset", "blocked"}]
  /\ sigflag \in [Tw!Role -> {0, 1}] /\ pipe \in [Tw!Role -> Int]
  /\ blocked \in [Tw!Role -> BOOLEAN] /\ pending \in [Tw!Role -> BOOLEAN]
  /\ area \in Int /\ counter \in [Tw!Role -> Int] /\ waits \in [Tw!Role -> Int]
  /\ held \in [{0, 1} -> {"parent", "child", "none"}]

\* A call of TELL_x that WAIT_x has not returned for: a signal, seen or not, or a byte.
Posted(r) == IF pending[r] THEN 1 ELSE 0
Owed(r) == IF whow = "signals" THEN Posted(r) + sigflag[r] ELSE pipe[r]
Balance ==
  \A r \in Tw!Role : /\ waits[r] = Waits(r) /\ Tells(Tw!Other(r)) = Waits(r) + Owed(r)
                     /\ Owed(r) \in {0, 1}

\* Where in its step a process can be.
Within ==
  \A r \in Tw!Role :
    /\ sub[r] = "middle" => ~Tw!Done(r) /\ Tw!Code(r)[wat[r]] \in {"output", "update"}
    /\ sub[r] \in {"suspend", "suspended", "reset"} => ~Tw!Done(r) /\ Tw!Code(r)[wat[r]] = "wait" /\ whow = "signals"
    /\ sub[r] = "reset" => sigflag[r] = 1
    /\ sub[r] = "blocked" => wprog = "deadlock" /\ wat[r] = 4

\* Before its first WAIT_x returns a process has the signals blocked.
FirstWait ==
  \A r \in Tw!Role : whow = "signals" /\ waits[r] = 0 =>
    blocked[r] /\ (sub[r] \in {"suspend", "suspended"} => sigflag[r] = 0)

\* ipc1/devzero.c: the number counts the updates, and nobody else updates it.
Numbers ==
  /\ ~bad
  /\ wprog = "devzero" =>
       /\ area = Updated("parent") + Updated("child")
       /\ \A r \in Tw!Role : sub[r] = "middle" => counter[r] = area

\* advio/deadlock.c: a process asks for the other's byte only once the other has it.
First(r) == IF r = "parent" THEN 1 ELSE 0
Bytes == wprog = "deadlock" => \A r \in Tw!Role : /\ held[First(r)] = Tw!Other(r) => wat[Tw!Other(r)] = 5
                                                  /\ wat[r] <= 5

TurnInv == TurnTypes /\ Balance /\ Within /\ FirstWait /\ Numbers /\ Bytes
\* The two processes.
LEMMA TwoRoles ==
  /\ Tw!Role = {"parent", "child"} /\ Tw!Other("parent") = "child" /\ Tw!Other("child") = "parent"
  /\ \A r \in Tw!Role : Tw!Other(r) \in Tw!Role /\ Tw!Other(r) # r /\ Tw!Other(Tw!Other(r)) = r
BY DEF Tw!Role, Tw!Other

\* Division by three.
LEMMA Thirds ==
  ASSUME NEW x \in Nat
  PROVE  /\ x \div 3 \in Nat /\ 3 * (x \div 3) <= x /\ x < 3 * (x \div 3) + 3
         /\ x % 3 = x - 3 * (x \div 3)
OBVIOUS

\* A step further is the next place, or the first one of the next loop.
LEMMA ThirdsNext ==
  ASSUME NEW x \in Nat \ {0}
  PROVE  IF x - 3 * ((x - 1) \div 3) = 3
         THEN ((x + 1) - 1) \div 3 = ((x - 1) \div 3) + 1
         ELSE ((x + 1) - 1) \div 3 = (x - 1) \div 3
<1>1. x - 1 \in Nat /\ (x + 1) - 1 = x
  OBVIOUS
<1>2. PICK l \in Nat : l = (x - 1) \div 3
  BY <1>1, Thirds
<1>3. PICK k \in Nat : k = x \div 3
  BY Thirds
<1>4. 3 * l <= x - 1 /\ x - 1 < 3 * l + 3 /\ 3 * k <= x /\ x < 3 * k + 3
  BY <1>1, <1>2, <1>3, Thirds
<1>5. IF x - 3 * l = 3 THEN k = l + 1 ELSE k = l
  BY <1>4
<1> QED BY <1>1, <1>2, <1>3, <1>5

\* A process is at one of three places of its loop.
LEMMA PlaceIn ==
  ASSUME TurnTypes, NEW r \in Tw!Role
  PROVE  Loops(r) \in Nat /\ Place(r) \in 1..3 /\ wat[r] = 3 * Loops(r) + Place(r)
<1>1. wat[r] \in Nat \ {0} /\ wat[r] - 1 \in Nat
  BY DEF TurnTypes
<1>2. PICK x \in Nat : x = wat[r] - 1
  BY <1>1
<1>3. PICK l : l = x \div 3
  OBVIOUS
<1>4. l \in Nat /\ 3 * l <= x /\ x < 3 * l + 3
  BY <1>2, <1>3, Thirds
<1>5. Loops(r) = l /\ Place(r) = wat[r] - 3 * l
  BY <1>2, <1>3 DEF Loops, Place
<1> QED BY <1>1, <1>2, <1>4, <1>5

\* The code of ipc1/devzero.c, by place.
LEMMA LoopCode ==
  ASSUME NLOOPS \in Nat, NEW a, NEW b, NEW c
  PROVE  /\ Len(Tw!Repeat(<<a, b, c>>, NLOOPS \div 2)) = 3 * (NLOOPS \div 2)
         /\ \A k \in 1..3 * (NLOOPS \div 2) :
              Tw!Repeat(<<a, b, c>>, NLOOPS \div 2)[k] =
                CASE k - 3 * ((k - 1) \div 3) = 1 -> a [] k - 3 * ((k - 1) \div 3) = 2 -> b [] OTHER -> c
<1>1. PICK l \in Nat : l = NLOOPS \div 2
  OBVIOUS
<1>2. PICK s : s = Tw!Repeat(<<a, b, c>>, l)
  OBVIOUS
<1>3. l * Len(<<a, b, c>>) = 3 * l
  BY <1>1
<1>4. s = [k \in 1..3 * l |-> <<a, b, c>>[((k - 1) % 3) + 1]]
  BY <1>2, <1>3 DEF Tw!Repeat
<1>5. Len(s) = 3 * l
  BY <1>1, <1>4
<1>6. ASSUME NEW k \in 1..3 * l
      PROVE  s[k] = CASE k - 3 * ((k - 1) \div 3) = 1 -> a [] k - 3 * ((k - 1) \div 3) = 2 -> b [] OTHER -> c
  <2>1. k \in Nat /\ k - 1 \in Nat
    BY <1>1
  <2>2. PICK j \in Nat : j = (k - 1) \div 3
    BY <2>1, Thirds
  <2>3. (k - 1) % 3 = (k - 1) - 3 * j /\ 3 * j <= k - 1 /\ k - 1 < 3 * j + 3
    BY <2>1, <2>2, Thirds
  <2>4. s[k] = <<a, b, c>>[((k - 1) % 3) + 1]
    BY <1>4
  <2>5. ((k - 1) % 3) + 1 = k - 3 * j /\ k - 3 * j \in 1..3
    BY <2>1, <2>3
  <2> QED BY <2>2, <2>4, <2>5
<1> QED BY <1>1, <1>2, <1>5, <1>6

\* The step that a process is at.
StepAt(r, s) ==
  CASE wprog = "tellwait2" -> IF r = "parent" THEN (wat[r] = 1 /\ s = "output") \/ (wat[r] = 2 /\ s = "tell")
                              ELSE (wat[r] = 1 /\ s = "wait") \/ (wat[r] = 2 /\ s = "output")
    [] wprog = "devzero" ->
         IF r = "parent"
         THEN (Place(r) = 1 /\ s = "update") \/ (Place(r) = 2 /\ s = "tell") \/ (Place(r) = 3 /\ s = "wait")
         ELSE (Place(r) = 1 /\ s = "wait") \/ (Place(r) = 2 /\ s = "update") \/ (Place(r) = 3 /\ s = "tell")
    [] wprog = "deadlock" ->
         \/ wat[r] = 1 /\ s = (IF r = "parent" THEN "lock1" ELSE "lock0")
         \/ (wat[r] = 2 /\ s = "tell") \/ (wat[r] = 3 /\ s = "wait")
         \/ wat[r] = 4 /\ s = (IF r = "parent" THEN "lock0" ELSE "lock1")

\* How long its code is.
Steps == CASE wprog = "tellwait2" -> 2 [] wprog = "devzero" -> 3 * (NLOOPS \div 2) [] wprog = "deadlock" -> 4

\* The code says so.
LEMMA StepRight ==
  ASSUME NLOOPS \in Nat, TurnTypes, NEW r \in Tw!Role
  PROVE  /\ Tw!Done(r) <=> wat[r] > Steps
         /\ Steps \in Nat
         /\ ~Tw!Done(r) => StepAt(r, Tw!Code(r)[wat[r]])
<1>1. wat[r] \in Nat \ {0} /\ (r = "parent" \/ r = "child")
  BY TwoRoles DEF TurnTypes
<1>2. CASE wprog = "tellwait2"
  <2>1. Tw!Code(r) = IF r = "parent" THEN <<"output", "tell">> ELSE <<"wait", "output">>
    BY <1>1, <1>2 DEF Tw!Code, Tw!tellwait2
  <2>2. Len(Tw!Code(r)) = 2
    BY <2>1
  <2> QED BY <1>1, <1>2, <2>1, <2>2 DEF Tw!Done, Steps, StepAt
<1>3. CASE wprog = "deadlock"
  <2>1. Tw!Code(r) = IF r = "parent" THEN <<"lock1", "tell", "wait", "lock0">> ELSE <<"lock0", "tell", "wait", "lock1">>
    BY <1>1, <1>3 DEF Tw!Code, Tw!deadlock
  <2>2. Len(Tw!Code(r)) = 4
    BY <2>1
  <2> QED BY <1>1, <1>3, <2>1, <2>2 DEF Tw!Done, Steps, StepAt
<1>4. CASE wprog = "devzero"
  <2>1. NLOOPS \div 2 \in Nat
    OBVIOUS
  <2>2. CASE r = "parent"
    <3>1. Tw!Code(r) = Tw!Repeat(<<"update", "tell", "wait">>, NLOOPS \div 2)
      BY <1>4, <2>2 DEF Tw!Code, Tw!devzero
    <3>2. Len(Tw!Code(r)) = 3 * (NLOOPS \div 2)
      BY <3>1, LoopCode
    <3>3. Tw!Done(r) <=> wat[r] > Steps
      BY <1>4, <3>2 DEF Tw!Done, Steps
    <3>4. ASSUME ~Tw!Done(r) PROVE StepAt(r, Tw!Code(r)[wat[r]])
      <4>1. wat[r] \in 1..3 * (NLOOPS \div 2)
        BY <1>1, <1>4, <2>1, <3>3, <3>4 DEF Steps
      <4>2. Tw!Code(r)[wat[r]] = CASE Place(r) = 1 -> "update" [] Place(r) = 2 -> "tell" [] OTHER -> "wait"
        BY <3>1, <4>1, LoopCode DEF Place, Loops
      <4> QED BY <1>4, <2>2, <4>2, PlaceIn DEF StepAt
    <3> QED BY <1>4, <2>1, <3>3, <3>4 DEF Steps
  <2>3. CASE r = "child"
    <3>1. Tw!Code(r) = Tw!Repeat(<<"wait", "update", "tell">>, NLOOPS \div 2)
      BY <1>4, <2>3 DEF Tw!Code, Tw!devzero
    <3>2. Len(Tw!Code(r)) = 3 * (NLOOPS \div 2)
      BY <3>1, LoopCode
    <3>3. Tw!Done(r) <=> wat[r] > Steps
      BY <1>4, <3>2 DEF Tw!Done, Steps
    <3>4. ASSUME ~Tw!Done(r) PROVE StepAt(r, Tw!Code(r)[wat[r]])
      <4>1. wat[r] \in 1..3 * (NLOOPS \div 2)
        BY <1>1, <1>4, <2>1, <3>3, <3>4 DEF Steps
      <4>2. Tw!Code(r)[wat[r]] = CASE Place(r) = 1 -> "wait" [] Place(r) = 2 -> "update" [] OTHER -> "tell"
        BY <3>1, <4>1, LoopCode DEF Place, Loops
      <4> QED BY <1>4, <2>3, <4>2, PlaceIn DEF StepAt
    <3> QED BY <1>4, <2>1, <3>3, <3>4 DEF Steps
  <2> QED BY <1>1, <2>2, <2>3
<1> QED BY <1>2, <1>3, <1>4 DEF TurnTypes

\* A step counts for what it is, and the other process's counts stay.
LEMMA StepCounts ==
  ASSUME TurnTypes, NEW r \in Tw!Role, NEW s, StepAt(r, s), wat' = [wat EXCEPT ![r] = @ + 1], wprog' = wprog
  PROVE  /\ Tells(r)' = Tells(r) + One(s = "tell") /\ Waits(r)' = Waits(r) + One(s = "wait")
         /\ wprog = "devzero" => Updated(r)' = Updated(r) + One(s = "update")
         /\ Tells(Tw!Other(r))' = Tells(Tw!Other(r)) /\ Waits(Tw!Other(r))' = Waits(Tw!Other(r))
         /\ Updated(Tw!Other(r))' = Updated(Tw!Other(r))
<1>1. wat[r] \in Nat \ {0} /\ (r = "parent" \/ r = "child") /\ wat'[r] = wat[r] + 1 /\ wat'[Tw!Other(r)] = wat[Tw!Other(r)]
  BY TwoRoles DEF TurnTypes
<1>2. Tells(Tw!Other(r))' = Tells(Tw!Other(r)) /\ Waits(Tw!Other(r))' = Waits(Tw!Other(r)) /\ Updated(Tw!Other(r))' = Updated(Tw!Other(r))
  <2>1. PICK q \in Tw!Role : q = Tw!Other(r)
    BY TwoRoles
  <2>2. Loops(q)' = Loops(q)
    BY <1>1, <2>1 DEF Loops
  <2>3. Place(q)' = Place(q)
    BY <1>1, <2>1, <2>2 DEF Place
  <2>4. wat'[q] = wat[q] /\ wprog' = wprog
    BY <1>1, <2>1
  <2>5. Tells(q)' = Tells(q) /\ Waits(q)' = Waits(q) /\ Updated(q)' = Updated(q)
    BY <2>2, <2>3, <2>4 DEF Tells, Waits, Updated, One
  <2> QED BY <2>1, <2>5
<1>3. PICK l \in Nat : l = Loops(r)
  BY PlaceIn
<1>4. PICK k \in 1..3 : k = Place(r)
  BY PlaceIn
<1>5. PICK l1 : l1 = Loops(r)'
  OBVIOUS
<1>6. PICK k1 : k1 = Place(r)'
  OBVIOUS
<1>7. IF k = 3 THEN l1 = l + 1 /\ k1 = 1 ELSE l1 = l /\ k1 = k + 1
  <2>1. IF wat[r] - 3 * ((wat[r] - 1) \div 3) = 3
         THEN ((wat[r] + 1) - 1) \div 3 = ((wat[r] - 1) \div 3) + 1
         ELSE ((wat[r] + 1) - 1) \div 3 = (wat[r] - 1) \div 3
    BY <1>1, ThirdsNext
  <2>2. l = (wat[r] - 1) \div 3 /\ k = wat[r] - 3 * l
    BY <1>3, <1>4 DEF Loops, Place
  <2>3. l1 = ((wat[r] + 1) - 1) \div 3 /\ k1 = (wat[r] + 1) - 3 * l1
    BY <1>1, <1>5, <1>6 DEF Loops, Place
  <2>4. IF k = 3 THEN l1 = l + 1 ELSE l1 = l
    BY <2>1, <2>2, <2>3
  <2> QED BY <1>1, <1>3, <2>2, <2>3, <2>4
<1>8. CASE wprog = "devzero"
  <2>1. /\ Tells(r) = IF r = "parent" THEN l + One(k = 3) ELSE l
        /\ Waits(r) = IF r = "child" THEN l + One(k > 1) ELSE l
        /\ Updated(r) = l + (IF r = "parent" THEN One(k > 1) ELSE One(k = 3))
    BY <1>3, <1>4, <1>8 DEF Tells, Waits, Updated
  <2>2. /\ Tells(r)' = IF r = "parent" THEN l1 + One(k1 = 3) ELSE l1
        /\ Waits(r)' = IF r = "child" THEN l1 + One(k1 > 1) ELSE l1
        /\ Updated(r)' = l1 + (IF r = "parent" THEN One(k1 > 1) ELSE One(k1 = 3))
    BY <1>5, <1>6, <1>8 DEF Tells, Waits, Updated, One
  <2>3. IF r = "parent" THEN (k = 1 /\ s = "update") \/ (k = 2 /\ s = "tell") \/ (k = 3 /\ s = "wait")
        ELSE (k = 1 /\ s = "wait") \/ (k = 2 /\ s = "update") \/ (k = 3 /\ s = "tell")
    BY <1>4, <1>8 DEF StepAt
  <2> QED BY <1>1, <1>2, <1>3, <1>7, <2>1, <2>2, <2>3 DEF One
<1>9. CASE wprog = "tellwait2"
  <2>1. Tells(r) = One(r = "parent" /\ wat[r] > 2) /\ Waits(r) = One(r = "child" /\ wat[r] > 1)
    BY <1>9 DEF Tells, Waits
  <2>2. Tells(r)' = One(r = "parent" /\ wat[r] + 1 > 2) /\ Waits(r)' = One(r = "child" /\ wat[r] + 1 > 1)
    BY <1>1, <1>9 DEF Tells, Waits, One
  <2>3. IF r = "parent" THEN (wat[r] = 1 /\ s = "output") \/ (wat[r] = 2 /\ s = "tell")
        ELSE (wat[r] = 1 /\ s = "wait") \/ (wat[r] = 2 /\ s = "output")
    BY <1>9 DEF StepAt
  <2> QED BY <1>1, <1>2, <1>9, <2>1, <2>2, <2>3 DEF One
<1>10. CASE wprog = "deadlock"
  <2>1. Tells(r) = One(wat[r] > 2) /\ Waits(r) = One(wat[r] > 3)
    BY <1>10 DEF Tells, Waits
  <2>2. Tells(r)' = One(wat[r] + 1 > 2) /\ Waits(r)' = One(wat[r] + 1 > 3)
    BY <1>1, <1>10 DEF Tells, Waits, One
  <2>3. \/ wat[r] \in {1, 4} /\ s \notin {"tell", "wait"}
        \/ (wat[r] = 2 /\ s = "tell") \/ (wat[r] = 3 /\ s = "wait")
    BY <1>10 DEF StepAt
  <2> QED BY <1>1, <1>2, <1>10, <2>1, <2>2, <2>3 DEF One
<1> QED BY <1>8, <1>9, <1>10 DEF TurnTypes
\* The counts are numbers.
LEMMA CountsNat ==
  ASSUME TurnTypes, NEW r \in Tw!Role
  PROVE  Tells(r) \in Nat /\ Waits(r) \in Nat /\ Updated(r) \in Nat
<1>1. Loops(r) \in Nat
  BY PlaceIn
<1> QED BY <1>1 DEF TurnTypes, Tells, Waits, Updated, One

\* ipc1/devzero.c: while one process updates, the other is at WAIT_x of the same loop.
LEMMA LoopTurns ==
  ASSUME TurnTypes, Balance, wprog = "devzero"
  PROVE  /\ Place("parent") = 1 => Place("child") = 1 /\ Loops("child") = Loops("parent")
         /\ Place("child") = 2 => Place("parent") = 3 /\ Loops("child") = Loops("parent")
<1>1. PICK lp \in Nat, lc \in Nat, kp \in 1..3, kc \in 1..3 :
        lp = Loops("parent") /\ lc = Loops("child") /\ kp = Place("parent") /\ kc = Place("child")
  BY TwoRoles, PlaceIn
<1>2. /\ Tells("parent") = lp + One(kp = 3) /\ Waits("parent") = lp
      /\ Tells("child") = lc /\ Waits("child") = lc + One(kc > 1)
  BY <1>1 DEF Tells, Waits
<1>3. /\ lc = lp \/ lc = lp + 1
      /\ lp + One(kp = 3) = lc + One(kc > 1) \/ lp + One(kp = 3) = lc + One(kc > 1) + 1
  <2>1. /\ Tells("child") = Waits("parent") + Owed("parent") /\ Owed("parent") \in {0, 1}
        /\ Tells("parent") = Waits("child") + Owed("child") /\ Owed("child") \in {0, 1}
    BY TwoRoles DEF Balance
  <2> QED BY <1>1, <1>2, <2>1 DEF One
<1> QED BY <1>1, <1>3 DEF One

\* A process that is about to tell the other has waited for each of its calls: none is owed.
LEMMA NoneOwed ==
  ASSUME TurnTypes, Balance, NEW r \in Tw!Role, StepAt(r, "tell")
  PROVE  Owed(Tw!Other(r)) = 0
<1>1. PICK q \in Tw!Role : q = Tw!Other(r) /\ Tw!Other(q) = r
  BY TwoRoles
<1>2. /\ Tells(r) = Waits(q) + Owed(q) /\ Tells(q) = Waits(r) + Owed(r)
      /\ Owed(r) \in {0, 1} /\ Owed(q) \in {0, 1} /\ Waits(q) \in Nat /\ Waits(r) \in Nat
  BY <1>1, CountsNat DEF Balance
<1>3. CASE wprog = "devzero"
  <2>1. PICK l \in Nat, k \in 1..3, j \in Nat, i \in 1..3 : l = Loops(r) /\ k = Place(r) /\ j = Loops(q) /\ i = Place(q)
    BY PlaceIn
  <2>2. CASE r = "parent"
    <3>1. q = "child"
      BY <1>1, <2>2, TwoRoles
    <3>2. Tells(r) = l + One(k = 3) /\ Waits(r) = l /\ Tells(q) = j /\ Waits(q) = j + One(i > 1) /\ k = 2
      BY <1>3, <2>1, <2>2, <3>1 DEF Tells, Waits, StepAt
    <3> QED BY <1>1, <1>2, <2>1, <3>2 DEF One
  <2>3. CASE r = "child"
    <3>1. q = "parent"
      BY <1>1, <2>3, TwoRoles
    <3>2. Tells(q) = j + One(i = 3) /\ Waits(q) = j /\ Tells(r) = l /\ Waits(r) = l + One(k > 1) /\ k = 3
      BY <1>3, <2>1, <2>3, <3>1 DEF Tells, Waits, StepAt
    <3> QED BY <1>1, <1>2, <2>1, <3>2 DEF One
  <2> QED BY <2>2, <2>3, TwoRoles
<1>4. CASE wprog \in {"tellwait2", "deadlock"}
  <2>1. wat[r] = 2
    BY <1>4, TwoRoles DEF StepAt
  <2>2. Tells(r) = 0
    BY <1>4, <2>1 DEF Tells, One
  <2> QED BY <1>1, <1>2, <2>2
<1> QED BY <1>3, <1>4 DEF TurnTypes

\* A process takes its next step.
LEMMA Advance ==
  ASSUME NLOOPS \in Nat, TurnTypes, Balance, Within, NEW r \in Tw!Role, ~Tw!Done(r), NEW s, s = Tw!Code(r)[wat[r]],
         wat' = [wat EXCEPT ![r] = @ + 1], sub' = [sub EXCEPT ![r] = "start"], UNCHANGED <<wprog, whow>>,
         waits' = [waits EXCEPT ![r] = @ + One(s = "wait")],
         Owed(r)' = Owed(r) - One(s = "wait"), s = "wait" => Owed(r) = 1,
         Owed(Tw!Other(r))' = Owed(Tw!Other(r)) + One(s = "tell"),
         sigflag'[Tw!Other(r)] = sigflag[Tw!Other(r)]
  PROVE  Balance' /\ Within' /\ wat' \in [Tw!Role -> Nat \ {0}] /\ waits' \in [Tw!Role -> Int]
<1>1. PICK q \in Tw!Role : q = Tw!Other(r) /\ Tw!Other(q) = r /\ q # r
  BY TwoRoles
<1>2. StepAt(r, s)
  BY StepRight
<1>3. /\ Tells(r)' = Tells(r) + One(s = "tell") /\ Waits(r)' = Waits(r) + One(s = "wait")
      /\ Tells(q)' = Tells(q) /\ Waits(q)' = Waits(q)
  BY <1>1, <1>2, StepCounts
<1>4. s = "tell" => Owed(q) = 0
  BY <1>1, <1>2, NoneOwed
<1>5. /\ Tells(r) \in Nat /\ Waits(r) \in Nat /\ Tells(q) \in Nat /\ Waits(q) \in Nat
      /\ waits[r] = Waits(r) /\ waits[q] = Waits(q)
      /\ Tells(r) = Waits(q) + Owed(q) /\ Tells(q) = Waits(r) + Owed(r) /\ Owed(r) \in {0, 1} /\ Owed(q) \in {0, 1}
  BY <1>1, CountsNat DEF Balance
<1>6. waits'[r] = waits[r] + One(s = "wait") /\ waits'[q] = waits[q] /\ wat'[q] = wat[q] /\ sub'[q] = sub[q] /\ sub'[r] = "start"
  BY <1>1 DEF TurnTypes
<1>7. Owed(r)' = Owed(r) - One(s = "wait") /\ Owed(q)' = Owed(q) + One(s = "tell")
  BY <1>1
<1>8. /\ waits'[r] = Waits(r)' /\ waits'[q] = Waits(q)'
      /\ Tells(r)' = Waits(q)' + Owed(q)' /\ Tells(q)' = Waits(r)' + Owed(r)'
      /\ Owed(r)' \in {0, 1} /\ Owed(q)' \in {0, 1}
  BY <1>3, <1>4, <1>5, <1>6, <1>7 DEF One
<1>9. Tw!Role = {r, q}
  BY <1>1, TwoRoles
<1>10. Balance'
  BY <1>1, <1>8, <1>9 DEF Balance
<1>11. \A p : Tw!Code(p)' = Tw!Code(p)
  BY DEF Tw!Code
<1>12. Within'
  BY <1>1, <1>6, <1>9, <1>11 DEF Within, Tw!Done
<1>13. wat' \in [Tw!Role -> Nat \ {0}] /\ waits' \in [Tw!Role -> Int]
  BY DEF TurnTypes, One
<1> QED BY <1>10, <1>12, <1>13
\* A step that is not one of the program's own work leaves that as it is.
LEMMA AdvanceRest ==
  ASSUME NLOOPS \in Nat, TurnInv, NEW r \in Tw!Role, ~Tw!Done(r), NEW s, s = Tw!Code(r)[wat[r]],
         s \in {"tell", "wait", "output"},
         wat' = [wat EXCEPT ![r] = @ + 1], sub' = [sub EXCEPT ![r] = "start"],
         UNCHANGED <<wprog, area, counter, held, bad>>
  PROVE  Numbers' /\ Bytes'
<1>1. PICK q \in Tw!Role : q = Tw!Other(r) /\ Tw!Other(q) = r /\ q # r /\ Tw!Role = {r, q}
  BY TwoRoles
<1>2. TurnTypes /\ Numbers /\ Bytes /\ StepAt(r, s)
  BY StepRight DEF TurnInv
<1>3. sub'[r] = "start" /\ sub'[q] = sub[q] /\ wat'[q] = wat[q] /\ wat'[r] = wat[r] + 1 /\ wat[r] \in Nat
  BY <1>1, <1>2 DEF TurnTypes
<1>4. wprog = "devzero" => Updated(r)' = Updated(r) /\ Updated(q)' = Updated(q)
  BY <1>1, <1>2, StepCounts, CountsNat DEF One
<1>5. Numbers'
  <2>1. wprog = "devzero" => Updated("parent")' = Updated("parent") /\ Updated("child")' = Updated("child")
    BY <1>1, <1>4, TwoRoles
  <2> QED BY <1>1, <1>2, <1>3, <2>1 DEF Numbers
<1>6. Bytes'
  <2>1. wprog = "deadlock" => wat[r] \in {2, 3}
    BY <1>2 DEF StepAt
  <2> QED BY <1>1, <1>2, <1>3, <2>1 DEF Bytes
<1> QED BY <1>5, <1>6

\* TELL_x with a signal.
LEMMA TellSignalStep ==
  ASSUME NLOOPS \in Nat, TurnInv, NEW r \in Tw!Role, Tw!TellSignal(r)
  PROVE  TurnInv'
<1>1. PICK q \in Tw!Role : q = Tw!Other(r) /\ Tw!Other(q) = r /\ q # r /\ Tw!Role = {r, q}
  BY TwoRoles
<1>2. TurnTypes /\ Balance /\ Within /\ FirstWait
  BY DEF TurnInv
<1>3. /\ whow = "signals" /\ ~Tw!Done(r) /\ Tw!Code(r)[wat[r]] = "tell"
      /\ wat' = [wat EXCEPT ![r] = @ + 1] /\ sub' = [sub EXCEPT ![r] = "start"]
      /\ pending' = [pending EXCEPT ![q] = TRUE]
      /\ UNCHANGED <<wprog, whow, sigflag, blocked, pipe, area, counter, held, bad, waits>>
  BY <1>1 DEF Tw!TellSignal, Tw!Is, Tw!NextStep
<1>4. Owed(q) = 0
  BY <1>1, <1>2, <1>3, StepRight, NoneOwed
<1>5. pending'[q] /\ pending'[r] = pending[r] /\ sigflag[q] = 0
  <2>1. pending'[q] /\ pending'[r] = pending[r]
    BY <1>1, <1>2, <1>3, Zenon DEF TurnTypes
  <2>2. Posted(q) + sigflag[q] = 0 /\ sigflag[q] \in {0, 1} /\ Posted(q) \in {0, 1}
    BY <1>2, <1>3, <1>4 DEF Owed, Posted, TurnTypes
  <2> QED BY <2>1, <2>2
<1>6. Owed(q)' = Owed(q) + 1 /\ Owed(r)' = Owed(r)
  <2>1. Posted(q)' = 1 /\ Posted(r)' = Posted(r)
    BY <1>5 DEF Posted
  <2>2. Owed(q)' = 1 + 0
    BY <1>3, <1>5, <2>1 DEF Owed
  <2>3. Owed(r)' = Owed(r)
    BY <1>3, <2>1 DEF Owed
  <2> QED BY <1>4, <2>2, <2>3
<1>7. Owed(r) \in {0, 1} /\ waits' = [waits EXCEPT ![r] = @ + One(FALSE)]
  BY <1>2, <1>3 DEF Balance, TurnTypes, One
<1>8. Balance' /\ Within' /\ wat' \in [Tw!Role -> Nat \ {0}]
  <2>1. Owed(r)' = Owed(r) - One("tell" = "wait") /\ Owed(Tw!Other(r))' = Owed(Tw!Other(r)) + One("tell" = "tell")
    BY <1>1, <1>6, <1>7 DEF One
  <2> QED BY <1>2, <1>3, <1>7, <2>1, Advance
<1>9. Numbers' /\ Bytes'
  BY <1>3, AdvanceRest
<1>10. TurnTypes'
  BY <1>2, <1>3, <1>8 DEF TurnTypes
<1>11. FirstWait'
  BY <1>1, <1>2, <1>3 DEF FirstWait, TurnTypes
<1> QED BY <1>8, <1>9, <1>10, <1>11 DEF TurnInv

\* TELL_x with a byte.
LEMMA TellPipeStep ==
  ASSUME NLOOPS \in Nat, TurnInv, NEW r \in Tw!Role, Tw!TellPipe(r)
  PROVE  TurnInv'
<1>1. PICK q \in Tw!Role : q = Tw!Other(r) /\ Tw!Other(q) = r /\ q # r /\ Tw!Role = {r, q}
  BY TwoRoles
<1>2. TurnTypes /\ Balance /\ Within /\ FirstWait
  BY DEF TurnInv
<1>3. /\ whow = "pipes" /\ ~Tw!Done(r) /\ Tw!Code(r)[wat[r]] = "tell"
      /\ wat' = [wat EXCEPT ![r] = @ + 1] /\ sub' = [sub EXCEPT ![r] = "start"]
      /\ pipe' = [pipe EXCEPT ![q] = @ + 1]
      /\ UNCHANGED <<wprog, whow, sigflag, blocked, pending, area, counter, held, bad, waits>>
  BY <1>1 DEF Tw!TellPipe, Tw!Is, Tw!NextStep, Tw!sigvars
<1>4. Owed(q)' = Owed(q) + 1 /\ Owed(r)' = Owed(r)
  BY <1>1, <1>2, <1>3 DEF Owed, TurnTypes
<1>5. Owed(r) \in {0, 1} /\ waits' = [waits EXCEPT ![r] = @ + One(FALSE)]
  BY <1>2, <1>3 DEF Balance, TurnTypes, One
<1>6. Balance' /\ Within' /\ wat' \in [Tw!Role -> Nat \ {0}]
  <2>1. Owed(r)' = Owed(r) - One("tell" = "wait") /\ Owed(Tw!Other(r))' = Owed(Tw!Other(r)) + One("tell" = "tell")
    BY <1>1, <1>4, <1>5 DEF One
  <2> QED BY <1>2, <1>3, <1>5, <2>1, Advance
<1>7. Numbers' /\ Bytes'
  BY <1>3, AdvanceRest
<1>8. TurnTypes'
  BY <1>2, <1>3, <1>6 DEF TurnTypes
<1>9. FirstWait'
  BY <1>3 DEF FirstWait
<1> QED BY <1>6, <1>7, <1>8, <1>9 DEF TurnInv

\* WAIT_x has read a byte.
LEMMA WaitPipeStep ==
  ASSUME NLOOPS \in Nat, TurnInv, NEW r \in Tw!Role, Tw!WaitPipe(r)
  PROVE  TurnInv'
<1>1. PICK q \in Tw!Role : q = Tw!Other(r) /\ Tw!Other(q) = r /\ q # r /\ Tw!Role = {r, q}
  BY TwoRoles
<1>2. TurnTypes /\ Balance /\ Within /\ FirstWait
  BY DEF TurnInv
<1>3. /\ whow = "pipes" /\ ~Tw!Done(r) /\ Tw!Code(r)[wat[r]] = "wait" /\ pipe[r] > 0
      /\ wat' = [wat EXCEPT ![r] = @ + 1] /\ sub' = [sub EXCEPT ![r] = "start"]
      /\ pipe' = [pipe EXCEPT ![r] = @ - 1] /\ waits' = [waits EXCEPT ![r] = @ + 1]
      /\ UNCHANGED <<wprog, whow, sigflag, blocked, pending, area, counter, held, bad>>
  BY DEF Tw!WaitPipe, Tw!Is, Tw!NextStep, Tw!sigvars
<1>4. Owed(q)' = Owed(q) /\ Owed(r)' = Owed(r) - 1 /\ Owed(r) = 1 /\ Owed(q) \in {0, 1}
  BY <1>1, <1>2, <1>3 DEF Owed, TurnTypes, Balance
<1>5. Balance' /\ Within' /\ wat' \in [Tw!Role -> Nat \ {0}] /\ waits' \in [Tw!Role -> Int]
  <2>1. Owed(r)' = Owed(r) - One("wait" = "wait") /\ Owed(Tw!Other(r))' = Owed(Tw!Other(r)) + One("wait" = "tell")
        /\ waits' = [waits EXCEPT ![r] = @ + One("wait" = "wait")]
    BY <1>1, <1>3, <1>4 DEF One
  <2> QED BY <1>2, <1>3, <1>4, <2>1, Advance
<1>6. Numbers' /\ Bytes'
  BY <1>3, AdvanceRest
<1>7. TurnTypes'
  BY <1>2, <1>3, <1>5 DEF TurnTypes
<1>8. FirstWait'
  BY <1>3 DEF FirstWait
<1> QED BY <1>5, <1>6, <1>7, <1>8 DEF TurnInv

\* WAIT_x has seen the signal.
LEMMA WaitResetStep ==
  ASSUME NLOOPS \in Nat, TurnInv, NEW r \in Tw!Role, Tw!WaitReset(r)
  PROVE  TurnInv'
<1>1. PICK q \in Tw!Role : q = Tw!Other(r) /\ Tw!Other(q) = r /\ q # r /\ Tw!Role = {r, q}
  BY TwoRoles
<1>2. TurnTypes /\ Balance /\ Within /\ FirstWait
  BY DEF TurnInv
<1>3. /\ ~Tw!Done(r) /\ Tw!Code(r)[wat[r]] = "wait" /\ sub[r] = "reset"
      /\ wat' = [wat EXCEPT ![r] = @ + 1] /\ sub' = [sub EXCEPT ![r] = "start"]
      /\ waits' = [waits EXCEPT ![r] = @ + 1]
      /\ sigflag' = [sigflag EXCEPT ![r] = 0] /\ blocked' = [blocked EXCEPT ![r] = FALSE]
      /\ UNCHANGED <<wprog, whow, pipe, pending, area, counter, held, bad>>
  BY DEF Tw!WaitReset, Tw!Is, Tw!NextStep
<1>4. whow = "signals" /\ sigflag[r] = 1 /\ sigflag'[r] = 0 /\ sigflag'[q] = sigflag[q]
  BY <1>1, <1>2, <1>3 DEF Within, TurnTypes
<1>5. Owed(q)' = Owed(q) /\ Owed(r)' = Owed(r) - 1 /\ Owed(r) = 1 /\ Owed(q) \in {0, 1}
  BY <1>1, <1>2, <1>3, <1>4 DEF Owed, Posted, Balance
<1>6. Balance' /\ Within' /\ wat' \in [Tw!Role -> Nat \ {0}] /\ waits' \in [Tw!Role -> Int]
  <2>1. Owed(r)' = Owed(r) - One("wait" = "wait") /\ Owed(Tw!Other(r))' = Owed(Tw!Other(r)) + One("wait" = "tell")
        /\ waits' = [waits EXCEPT ![r] = @ + One("wait" = "wait")]
    BY <1>1, <1>3, <1>5 DEF One
  <2> QED BY <1>1, <1>2, <1>3, <1>4, <1>5, <2>1, Advance
<1>7. Numbers' /\ Bytes'
  BY <1>3, AdvanceRest
<1>8. TurnTypes'
  <2>1. blocked' \in [Tw!Role -> BOOLEAN]
    BY <1>2, <1>3 DEF TurnTypes
  <2> QED BY <1>2, <1>3, <1>6, <2>1 DEF TurnTypes
<1>9. FirstWait'
  <2>1. waits[r] \in Nat /\ waits'[r] = waits[r] + 1 /\ waits'[q] = waits[q]
    BY <1>1, <1>2, <1>3, CountsNat DEF TurnTypes, Balance
  <2>2. blocked'[q] = blocked[q] /\ sub'[q] = sub[q]
    BY <1>1, <1>2, <1>3 DEF TurnTypes
  <2> QED BY <1>1, <1>2, <1>3, <1>4, <2>1, <2>2 DEF FirstWait
<1> QED BY <1>6, <1>7, <1>8, <1>9 DEF TurnInv
\* A signal is delivered.
LEMMA DeliverStep ==
  ASSUME NLOOPS \in Nat, TurnInv, NEW r \in Tw!Role, Tw!Deliver(r)
  PROVE  TurnInv'
<1>1. PICK q \in Tw!Role : q = Tw!Other(r) /\ Tw!Other(q) = r /\ q # r /\ Tw!Role = {r, q}
  BY TwoRoles
<1>2. TurnTypes /\ Balance /\ Within /\ FirstWait /\ Numbers /\ Bytes
  BY DEF TurnInv
<1>3. /\ pending[r] /\ (~blocked[r] \/ sub[r] = "suspended")
      /\ pending' = [pending EXCEPT ![r] = FALSE] /\ sigflag' = [sigflag EXCEPT ![r] = 1]
      /\ sub' = [sub EXCEPT ![r] = IF @ = "suspended" THEN "start" ELSE @]
      /\ UNCHANGED <<wprog, whow, wat, blocked, pipe, area, counter, held, bad, waits>>
  BY DEF Tw!Deliver
<1>4. ~pending'[r] /\ pending'[q] = pending[q]
  BY <1>1, <1>2, <1>3, Zenon DEF TurnTypes
<1>5. /\ sigflag'[r] = 1 /\ sigflag'[q] = sigflag[q] /\ sub'[q] = sub[q]
      /\ sub'[r] = IF sub[r] = "suspended" THEN "start" ELSE sub[r]
  BY <1>1, <1>2, <1>3 DEF TurnTypes
<1>6. Owed(r)' = Owed(r) /\ Owed(q)' = Owed(q)
  <2>1. Posted(r)' = 0 /\ Posted(r) = 1 /\ Posted(q)' = Posted(q)
    BY <1>3, <1>4 DEF Posted
  <2>2. whow = "signals" => sigflag[r] = 0
    <3>1. sigflag[r] \in {0, 1} /\ Owed(r) \in {0, 1}
      BY <1>2 DEF TurnTypes, Balance
    <3> QED BY <2>1, <3>1 DEF Owed
  <2> QED BY <1>3, <1>5, <2>1, <2>2 DEF Owed
<1>7. \A p \in Tw!Role : Tells(p)' = Tells(p) /\ Waits(p)' = Waits(p) /\ Updated(p)' = Updated(p) /\ Tw!Code(p)' = Tw!Code(p)
  BY <1>3 DEF Tells, Waits, Updated, Loops, Place, One, Tw!Code
<1>8. Balance'
  BY <1>1, <1>2, <1>3, <1>6, <1>7 DEF Balance
<1>9. Within'
  BY <1>1, <1>2, <1>3, <1>5, <1>7 DEF Within, Tw!Done
<1>10. FirstWait'
  BY <1>1, <1>2, <1>3, <1>5 DEF FirstWait
<1>11. Numbers' /\ Bytes'
  <2>1. \A p \in Tw!Role : sub'[p] = "middle" => sub[p] = "middle"
    BY <1>1, <1>5
  <2> QED BY <1>2, <1>3, <1>7, <2>1, TwoRoles DEF Numbers, Bytes
<1>12. TurnTypes'
  <2>1. pending' \in [Tw!Role -> BOOLEAN]
    BY <1>2, <1>3 DEF TurnTypes
  <2>2. sub' \in [Tw!Role -> {"start", "middle", "suspend", "suspended", "reset", "blocked"}] /\ sigflag' \in [Tw!Role -> {0, 1}]
    BY <1>2, <1>3 DEF TurnTypes
  <2> QED BY <1>2, <1>3, <2>1, <2>2 DEF TurnTypes
<1> QED BY <1>8, <1>9, <1>10, <1>11, <1>12 DEF TurnInv

\* A process moves within a step: the test of WAIT_x, sigsuspend, the middle of a line or of an update, the wait for a byte.
LEMMA InsideStep ==
  ASSUME NLOOPS \in Nat, TurnInv, NEW r \in Tw!Role, ~Tw!Done(r), NEW s, s = Tw!Code(r)[wat[r]],
         NEW w \in {"middle", "suspend", "suspended", "reset", "blocked"}, sub' = [sub EXCEPT ![r] = w],
         w = "middle" => s \in {"output", "update"} /\ (s = "update" => counter'[r] = area),
         w \in {"suspend", "suspended", "reset"} => s = "wait" /\ whow = "signals",
         w = "suspend" => sigflag[r] = 0, w = "suspended" => sub[r] = "suspend",
         w = "reset" => sigflag[r] = 1,
         w = "blocked" => wprog = "deadlock" /\ wat[r] = 4,
         counter' \in [Tw!Role -> Int], \A p \in Tw!Role : p # r => counter'[p] = counter[p],
         UNCHANGED <<wprog, whow, wat, sigflag, blocked, pending, pipe, area, held, bad, waits>>
  PROVE  TurnInv'
<1>1. PICK q \in Tw!Role : q = Tw!Other(r) /\ Tw!Other(q) = r /\ q # r /\ Tw!Role = {r, q}
  BY TwoRoles
<1>2. TurnTypes /\ Balance /\ Within /\ FirstWait /\ Numbers /\ Bytes /\ StepAt(r, s)
  BY StepRight DEF TurnInv
<1>3. sub'[r] = w /\ sub'[q] = sub[q]
  BY <1>1, <1>2 DEF TurnTypes
<1>4. \A p \in Tw!Role : Tells(p)' = Tells(p) /\ Waits(p)' = Waits(p) /\ Updated(p)' = Updated(p) /\ Tw!Code(p)' = Tw!Code(p) /\ Owed(p)' = Owed(p)
  BY DEF Tells, Waits, Updated, Loops, Place, One, Tw!Code, Owed, Posted
<1>5. Balance'
  BY <1>1, <1>2, <1>4 DEF Balance
<1>6. Within'
  BY <1>1, <1>2, <1>3, <1>4 DEF Within, Tw!Done
<1>7. FirstWait'
  BY <1>1, <1>2, <1>3 DEF FirstWait
<1>8. wprog = "devzero" => s # "output"
  BY <1>2 DEF StepAt
<1>9. Numbers' /\ Bytes'
  BY <1>1, <1>2, <1>3, <1>4, <1>8, TwoRoles DEF Numbers, Bytes
<1>10. TurnTypes'
  BY <1>2 DEF TurnTypes
<1> QED BY <1>5, <1>6, <1>7, <1>9, <1>10 DEF TurnInv

\* The steps of WAIT_x before it returns.
LEMMA WaitSteps ==
  ASSUME NLOOPS \in Nat, TurnInv, NEW r \in Tw!Role, Tw!WaitTest(r) \/ Tw!WaitSuspend(r)
  PROVE  TurnInv'
<1>1. TurnTypes /\ Within /\ sigflag[r] \in {0, 1} /\ counter \in [Tw!Role -> Int]
  BY DEF TurnInv, TurnTypes
<1>2. CASE Tw!WaitTest(r)
  <2>1. /\ whow = "signals" /\ ~Tw!Done(r) /\ Tw!Code(r)[wat[r]] = "wait"
        /\ sub' = [sub EXCEPT ![r] = IF sigflag[r] = 0 THEN "suspend" ELSE "reset"]
        /\ UNCHANGED <<wprog, whow, wat, sigflag, blocked, pending, pipe, area, counter, held, bad, waits>>
    BY <1>2 DEF Tw!WaitTest, Tw!Is, Tw!Step, Tw!sigvars
  <2>2. CASE sigflag[r] = 0
    <3>1. sub' = [sub EXCEPT ![r] = "suspend"]
      BY <2>1, <2>2
    <3> QED BY <1>1, <2>1, <2>2, <3>1, InsideStep
  <2>3. CASE sigflag[r] = 1
    <3>1. sub' = [sub EXCEPT ![r] = "reset"]
      BY <2>1, <2>3
    <3> QED BY <1>1, <2>1, <2>3, <3>1, InsideStep
  <2> QED BY <1>1, <2>2, <2>3
<1>3. CASE Tw!WaitSuspend(r)
  <2>1. /\ sub[r] = "suspend" /\ ~Tw!Done(r) /\ Tw!Code(r)[wat[r]] = "wait"
        /\ sub' = [sub EXCEPT ![r] = "suspended"]
        /\ UNCHANGED <<wprog, whow, wat, sigflag, blocked, pending, pipe, area, counter, held, bad, waits>>
    BY <1>3 DEF Tw!WaitSuspend, Tw!Is, Tw!Step, Tw!sigvars
  <2>2. whow = "signals"
    BY <1>1, <2>1 DEF Within
  <2> QED BY <1>1, <2>1, <2>2, InsideStep
<1> QED BY <1>2, <1>3
\* A step of a program's own work is over: no call of TELL_x or WAIT_x.
LEMMA WorkOver ==
  ASSUME NLOOPS \in Nat, TurnInv, NEW r \in Tw!Role, ~Tw!Done(r), Tw!Code(r)[wat[r]] \notin {"tell", "wait"},
         wat' = [wat EXCEPT ![r] = @ + 1], sub' = [sub EXCEPT ![r] = "start"],
         UNCHANGED <<wprog, whow, sigflag, blocked, pending, pipe, waits>>
  PROVE  Balance' /\ Within' /\ FirstWait' /\ wat' \in [Tw!Role -> Nat \ {0}]
<1>1. TurnTypes /\ Balance /\ Within /\ FirstWait
  BY DEF TurnInv
<1>2. PICK s : s = Tw!Code(r)[wat[r]] /\ One(s = "wait") = 0 /\ One(s = "tell") = 0 /\ s # "wait"
  BY DEF One
<1>3. \A p \in Tw!Role : Owed(p)' = Owed(p) /\ Owed(p) \in {0, 1}
  BY <1>1 DEF Owed, Posted, Balance
<1>4. waits' = [waits EXCEPT ![r] = @ + One(s = "wait")]
  BY <1>1, <1>2 DEF TurnTypes
<1>5. Owed(r)' = Owed(r) - One(s = "wait") /\ Owed(Tw!Other(r))' = Owed(Tw!Other(r)) + One(s = "tell")
  BY <1>2, <1>3, TwoRoles
<1>6. Balance' /\ Within' /\ wat' \in [Tw!Role -> Nat \ {0}]
  BY <1>1, <1>2, <1>4, <1>5, Advance
<1>7. FirstWait'
  BY <1>1 DEF FirstWait, TurnTypes
<1> QED BY <1>6, <1>7

\* A process writes its line.
LEMMA OutputStep ==
  ASSUME NLOOPS \in Nat, TurnInv, NEW r \in Tw!Role, Tw!Output(r)
  PROVE  TurnInv'
<1>1. TurnTypes
  BY DEF TurnInv
<1>2. ~Tw!Done(r) /\ Tw!Code(r)[wat[r]] = "output" /\ counter \in [Tw!Role -> Int]
      /\ UNCHANGED <<wprog, whow, sigflag, blocked, pending, pipe, area, counter, held, bad, waits>>
  BY <1>1 DEF Tw!Output, Tw!Is, Tw!sigvars, TurnTypes
<1>3. CASE sub' = [sub EXCEPT ![r] = "middle"] /\ UNCHANGED wat
  BY <1>2, <1>3, InsideStep
<1>4. CASE wat' = [wat EXCEPT ![r] = @ + 1] /\ sub' = [sub EXCEPT ![r] = "start"]
  <2>1. Balance' /\ Within' /\ FirstWait' /\ wat' \in [Tw!Role -> Nat \ {0}]
    BY <1>2, <1>4, WorkOver
  <2>2. Numbers' /\ Bytes'
    BY <1>2, <1>4, AdvanceRest
  <2>3. TurnTypes'
    BY <1>1, <1>2, <1>4, <2>1 DEF TurnTypes
  <2> QED BY <2>1, <2>2, <2>3 DEF TurnInv
<1> QED BY <1>3, <1>4 DEF Tw!Output, Tw!Step, Tw!NextStep

\* An update finds the number that the process expects, and the other process waits.
LEMMA UpdateRight ==
  ASSUME NLOOPS \in Nat, TurnInv, NEW r \in Tw!Role, StepAt(r, "update")
  PROVE  wprog = "devzero" /\ area = Tw!Expected(r) /\ sub[Tw!Other(r)] # "middle"
<1>1. PICK q \in Tw!Role : q = Tw!Other(r) /\ Tw!Role = {r, q}
  BY TwoRoles
<1>2. TurnTypes /\ Balance /\ Within /\ Numbers
  BY DEF TurnInv
<1>3. wprog = "devzero"
  BY <1>2 DEF StepAt, TurnTypes
<1>4. PICK l \in Nat : l = Loops(r) /\ l = Loops(q)
  BY <1>1, <1>2, <1>3, LoopTurns, PlaceIn, TwoRoles DEF StepAt
<1>5. area = Updated("parent") + Updated("child")
  BY <1>2, <1>3 DEF Numbers
<1>6. CASE r = "parent"
  <2>1. Place(r) = 1 /\ Place(q) = 1 /\ q = "child"
    BY <1>1, <1>2, <1>3, <1>6, LoopTurns, TwoRoles DEF StepAt
  <2>2. Updated(r) = l /\ Updated(q) = l /\ Tw!Expected(r) = 2 * l
    BY <1>4, <1>6, <2>1 DEF Updated, One, Tw!Expected, Loops
  <2>3. sub[q] = "middle" => FALSE
    <3>1. ASSUME sub[q] = "middle" PROVE FALSE
      <4>1. ~Tw!Done(q) /\ Tw!Code(q)[wat[q]] \in {"output", "update"}
        BY <1>2, <3>1 DEF Within
      <4>2. StepAt(q, Tw!Code(q)[wat[q]])
        BY <1>2, <4>1, StepRight
      <4> QED BY <1>3, <2>1, <4>1, <4>2 DEF StepAt
    <3> QED BY <3>1
  <2> QED BY <1>1, <1>3, <1>4, <1>5, <1>6, <2>1, <2>2, <2>3
<1>7. CASE r = "child"
  <2>1. Place(r) = 2 /\ Place(q) = 3 /\ q = "parent"
    BY <1>1, <1>2, <1>3, <1>7, LoopTurns, TwoRoles DEF StepAt
  <2>2. Updated(r) = l /\ Updated(q) = l + 1 /\ Tw!Expected(r) = 2 * l + 1
    BY <1>4, <1>7, <2>1 DEF Updated, One, Tw!Expected, Loops
  <2>3. sub[q] = "middle" => FALSE
    <3>1. ASSUME sub[q] = "middle" PROVE FALSE
      <4>1. ~Tw!Done(q) /\ Tw!Code(q)[wat[q]] \in {"output", "update"}
        BY <1>2, <3>1 DEF Within
      <4>2. StepAt(q, Tw!Code(q)[wat[q]])
        BY <1>2, <4>1, StepRight
      <4> QED BY <1>3, <2>1, <4>1, <4>2 DEF StepAt
    <3> QED BY <3>1
  <2> QED BY <1>1, <1>3, <1>4, <1>5, <1>7, <2>1, <2>2, <2>3
<1> QED BY <1>6, <1>7, TwoRoles

\* It reads the number, and writes it.
LEMMA UpdateStep ==
  ASSUME NLOOPS \in Nat, TurnInv, NEW r \in Tw!Role, Tw!Update(r)
  PROVE  TurnInv'
<1>1. PICK q \in Tw!Role : q = Tw!Other(r) /\ q # r /\ Tw!Role = {r, q}
  BY TwoRoles
<1>2. TurnTypes /\ Numbers
  BY DEF TurnInv
<1>3. ~Tw!Done(r) /\ Tw!Code(r)[wat[r]] = "update"
      /\ UNCHANGED <<wprog, whow, sigflag, blocked, pending, pipe, held, waits>>
  BY DEF Tw!Update, Tw!Is, Tw!sigvars
<1>4. StepAt(r, "update")
  BY <1>2, <1>3, StepRight
<1>5. wprog = "devzero" /\ area = Tw!Expected(r) /\ sub[q] # "middle"
  BY <1>1, <1>4, UpdateRight
<1>6. CASE sub' = [sub EXCEPT ![r] = "middle"] /\ counter' = [counter EXCEPT ![r] = area] /\ UNCHANGED <<wat, area, bad>>
  <2>1. counter' \in [Tw!Role -> Int] /\ counter'[r] = area /\ \A p \in Tw!Role : p # r => counter'[p] = counter[p]
    BY <1>2, <1>6 DEF TurnTypes
  <2> QED BY <1>3, <1>6, <2>1, InsideStep
<1>7. CASE /\ sub[r] = "middle" /\ wat' = [wat EXCEPT ![r] = @ + 1] /\ sub' = [sub EXCEPT ![r] = "start"]
           /\ area' = counter[r] + 1 /\ bad' = (bad \/ counter[r] # Tw!Expected(r)) /\ UNCHANGED counter
  <2>1. Balance' /\ Within' /\ FirstWait' /\ wat' \in [Tw!Role -> Nat \ {0}]
    BY <1>3, <1>7, WorkOver
  <2>2. counter[r] = area /\ area \in Int /\ ~bad
    BY <1>2, <1>5, <1>7 DEF Numbers, TurnTypes
  <2>3. Updated(r)' = Updated(r) + 1 /\ Updated(q)' = Updated(q) /\ Updated(r) \in Nat /\ Updated(q) \in Nat
    BY <1>1, <1>2, <1>3, <1>4, <1>5, <1>7, StepCounts, CountsNat DEF One
  <2>4. area = Updated(r) + Updated(q)
    BY <1>1, <1>2, <1>5, <2>3, TwoRoles DEF Numbers
  <2>5. area' = Updated(r)' + Updated(q)'
    BY <1>7, <2>2, <2>3, <2>4
  <2>6. ~bad'
    BY <1>5, <1>7, <2>2
  <2>7. sub'[r] # "middle" /\ sub'[q] # "middle"
    BY <1>1, <1>2, <1>5, <1>7 DEF TurnTypes
  <2>8. area' = Updated("parent")' + Updated("child")'
    BY <1>1, <2>3, <2>5, TwoRoles
  <2>9. Numbers'
    BY <1>1, <2>6, <2>7, <2>8 DEF Numbers
  <2>10. Bytes'
    BY <1>3, <1>5 DEF Bytes
  <2>11. TurnTypes'
    BY <1>2, <1>3, <1>7, <2>1, <2>2 DEF TurnTypes
  <2> QED BY <2>1, <2>9, <2>10, <2>11 DEF TurnInv
<1> QED BY <1>6, <1>7 DEF Tw!Update, Tw!Is, Tw!Step, Tw!NextStep

\* A process asks for a byte that the other has only with its own first byte in hand.
LEMMA SecondByte ==
  ASSUME NLOOPS \in Nat, TurnInv, NEW r \in Tw!Role, NEW b \in {0, 1}, ~Tw!Done(r),
         Tw!Code(r)[wat[r]] = (IF b = 0 THEN "lock0" ELSE "lock1")
  PROVE  /\ wprog = "deadlock" /\ Tw!Code(r)[wat[r]] \notin {"tell", "wait"}
         /\ (wat[r] = 1 /\ b = First(r)) \/ (wat[r] = 4 /\ b = First(Tw!Other(r)))
         /\ held[b] = Tw!Other(r) => wat[r] = 4
<1>1. PICK q \in Tw!Role : q = Tw!Other(r) /\ Tw!Other(q) = r /\ q # r /\ Tw!Role = {r, q}
  BY TwoRoles
<1>2. TurnTypes /\ Balance /\ Bytes /\ StepAt(r, IF b = 0 THEN "lock0" ELSE "lock1")
  BY StepRight DEF TurnInv
<1>3. wprog = "deadlock" /\ Tw!Code(r)[wat[r]] \notin {"tell", "wait"}
  BY <1>2 DEF StepAt, TurnTypes
<1>4. (wat[r] = 1 /\ b = First(r)) \/ (wat[r] = 4 /\ b = First(q))
  BY <1>1, <1>2, <1>3, TwoRoles DEF StepAt, First
<1>5. ASSUME held[b] = q, wat[r] = 1 PROVE FALSE
  <2>1. wat[q] = 5
    BY <1>1, <1>2, <1>3, <1>4, <1>5 DEF Bytes
  <2>2. Waits(q) = 1 /\ Tells(r) = 0
    BY <1>3, <1>5, <2>1 DEF Waits, Tells, One
  <2>3. Tells(r) = Waits(q) + Owed(q) /\ Owed(q) \in {0, 1}
    BY <1>1, <1>2 DEF Balance
  <2> QED BY <2>2, <2>3
<1> QED BY <1>1, <1>3, <1>4, <1>5

\* A lock is granted, or refused because it would close a circle.
LEMMA LockOver ==
  ASSUME NLOOPS \in Nat, TurnInv, NEW r \in Tw!Role, NEW b \in {0, 1}, ~Tw!Done(r),
         Tw!Code(r)[wat[r]] = (IF b = 0 THEN "lock0" ELSE "lock1"),
         wat' = [wat EXCEPT ![r] = @ + 1], sub' = [sub EXCEPT ![r] = "start"],
         held' \in [{0, 1} -> {"parent", "child", "none"}],
         \A k \in {0, 1} : held'[k] = held[k] \/ held'[k] = "none" \/ (k = b /\ held'[k] = r),
         UNCHANGED <<wprog, whow, sigflag, blocked, pending, pipe, area, counter, bad, waits>>
  PROVE  TurnInv'
<1>1. PICK q \in Tw!Role : q = Tw!Other(r) /\ Tw!Other(q) = r /\ q # r /\ Tw!Role = {r, q}
  BY TwoRoles
<1>2. TurnTypes /\ Balance /\ Bytes /\ Numbers
  BY DEF TurnInv
<1>3. /\ wprog = "deadlock" /\ Tw!Code(r)[wat[r]] \notin {"tell", "wait"}
      /\ (wat[r] = 1 /\ b = First(r)) \/ (wat[r] = 4 /\ b = First(q))
  BY <1>1, SecondByte
<1>4. Balance' /\ Within' /\ FirstWait' /\ wat' \in [Tw!Role -> Nat \ {0}]
  BY <1>3, WorkOver
<1>5. wat'[r] = wat[r] + 1 /\ wat'[q] = wat[q]
  BY <1>1, <1>2 DEF TurnTypes
<1>6. First(r) # First(q) /\ First(r) \in {0, 1} /\ First(q) \in {0, 1} /\ r # "none" /\ q # "none"
  BY <1>1, TwoRoles DEF First
<1>7. Bytes'
  <2>1. held'[First(r)] = q => wat'[q] = 5
    BY <1>1, <1>2, <1>3, <1>5, <1>6 DEF Bytes
  <2>2. held'[First(q)] = r => wat'[r] = 5
    BY <1>1, <1>2, <1>3, <1>5, <1>6 DEF Bytes
  <2>3. wat'[r] <= 5 /\ wat'[q] <= 5
    BY <1>1, <1>2, <1>3, <1>5 DEF Bytes
  <2> QED BY <1>1, <2>1, <2>2, <2>3 DEF Bytes
<1>8. Numbers'
  BY <1>2, <1>3 DEF Numbers
<1>9. TurnTypes'
  BY <1>2, <1>4 DEF TurnTypes
<1> QED BY <1>4, <1>7, <1>8, <1>9 DEF TurnInv

\* advio/deadlock.c.
LEMMA LockSteps ==
  ASSUME NLOOPS \in Nat, TurnInv, NEW r \in Tw!Role, NEW b \in {0, 1}, Tw!lockabyte(r, b) \/ Tw!LockGranted(r, b)
  PROVE  TurnInv'
<1>1. TurnTypes /\ Within
  BY DEF TurnInv
<1>2. /\ ~Tw!Done(r) /\ Tw!Code(r)[wat[r]] = (IF b = 0 THEN "lock0" ELSE "lock1")
      /\ UNCHANGED <<wprog, whow, sigflag, blocked, pending, pipe, area, counter, bad, waits>>
  BY DEF Tw!lockabyte, Tw!LockGranted, Tw!Is, Tw!sigvars
<1>3. wprog = "deadlock" /\ (held[b] = Tw!Other(r) => wat[r] = 4)
  BY <1>2, SecondByte
<1>4. held \in [{0, 1} -> {"parent", "child", "none"}] /\ r \in {"parent", "child"} /\ counter \in [Tw!Role -> Int]
  BY <1>1, TwoRoles DEF TurnTypes
<1>5. CASE held' = [held EXCEPT ![b] = r] /\ wat' = [wat EXCEPT ![r] = @ + 1] /\ sub' = [sub EXCEPT ![r] = "start"]
  <2>1. held' \in [{0, 1} -> {"parent", "child", "none"}] /\ \A k \in {0, 1} : held'[k] = held[k] \/ (k = b /\ held'[k] = r)
    BY <1>4, <1>5
  <2> QED BY <1>2, <1>5, <2>1, LockOver
<1>6. CASE held[b] = Tw!Other(r) /\ sub' = [sub EXCEPT ![r] = "blocked"] /\ UNCHANGED <<wat, held>>
  BY <1>2, <1>3, <1>4, <1>6, InsideStep
<1>7. CASE /\ held[b] = Tw!Other(r) /\ sub[r] = "start" /\ wat' = [wat EXCEPT ![r] = Len(Tw!Code(r)) + 1] /\ UNCHANGED sub
           /\ held' = [k \in {0, 1} |-> IF held[k] = r THEN "none" ELSE held[k]]
  <2>1. Len(Tw!Code(r)) + 1 = 5
    <3>1. Tw!Code(r) = IF r = "parent" THEN <<"lock1", "tell", "wait", "lock0">> ELSE <<"lock0", "tell", "wait", "lock1">>
      BY <1>3, <1>4 DEF Tw!Code, Tw!deadlock
    <3> QED BY <3>1
  <2>2. wat' = [wat EXCEPT ![r] = @ + 1] /\ sub' = [sub EXCEPT ![r] = "start"]
    <3>1. wat[r] + 1 = Len(Tw!Code(r)) + 1
      BY <1>3, <1>7, <2>1
    <3>2. wat' = [wat EXCEPT ![r] = wat[r] + 1]
      BY <1>7, <3>1
    <3>3. sub' = [sub EXCEPT ![r] = "start"]
      BY <1>1, <1>7 DEF TurnTypes
    <3> QED BY <3>2, <3>3
  <2>3. held' \in [{0, 1} -> {"parent", "child", "none"}] /\ \A k \in {0, 1} : held'[k] = held[k] \/ held'[k] = "none"
    BY <1>4, <1>7
  <2> QED BY <1>2, <2>2, <2>3, LockOver
<1> QED BY <1>5, <1>6, <1>7 DEF Tw!lockabyte, Tw!LockGranted, Tw!Is, Tw!Step, Tw!NextStep
\* Nobody has been told, and every number is 0.
LEMMA TurnInit == Tw!Init => TurnInv
<1> SUFFICES ASSUME Tw!Init PROVE TurnInv
  OBVIOUS
<1>1. /\ wat = [r \in Tw!Role |-> 1] /\ sub = [r \in Tw!Role |-> "start"] /\ sigflag = [r \in Tw!Role |-> 0]
      /\ pending = [r \in Tw!Role |-> FALSE] /\ pipe = [r \in Tw!Role |-> 0] /\ area = 0
      /\ blocked = [r \in Tw!Role |-> whow = "signals"]
      /\ counter = [r \in Tw!Role |-> 0] /\ waits = [r \in Tw!Role |-> 0] /\ held = [b \in {0, 1} |-> "none"] /\ ~bad
      /\ wprog \in {"tellwait2", "devzero", "deadlock"} /\ whow \in {"signals", "pipes"}
  BY DEF Tw!Init, Tw!TELL_WAIT
<1>2. TurnTypes
  BY <1>1 DEF TurnTypes
<1>3. ASSUME NEW r \in Tw!Role
      PROVE  Loops(r) = 0 /\ Place(r) = 1 /\ wat[r] = 1 /\ sub[r] = "start" /\ waits[r] = 0 /\ Owed(r) = 0
             /\ (whow = "signals" => blocked[r])
  <2>1. Loops(r) \in Nat /\ Place(r) \in 1..3 /\ wat[r] = 3 * Loops(r) + Place(r) /\ wat[r] = 1
    BY <1>1, <1>2, PlaceIn
  <2>2. Loops(r) = 0 /\ Place(r) = 1
    BY <2>1
  <2>3. Owed(r) = 0
    BY <1>1 DEF Owed, Posted
  <2> QED BY <1>1, <2>1, <2>2, <2>3
<1>4. ASSUME NEW r \in Tw!Role PROVE Tells(r) = 0 /\ Waits(r) = 0 /\ Updated(r) = 0
  BY <1>1, <1>3, <1>4 DEF Tells, Waits, Updated, One
<1>5. Balance
  BY <1>3, <1>4, TwoRoles DEF Balance
<1>6. Within /\ FirstWait
  BY <1>3 DEF Within, FirstWait
<1>7. Numbers
  BY <1>1, <1>3, <1>4, TwoRoles DEF Numbers
<1>8. Bytes
  BY <1>1, <1>3, TwoRoles DEF Bytes, First
<1> QED BY <1>2, <1>5, <1>6, <1>7, <1>8 DEF TurnInv

\* The processes take turns.
LEMMA TurnTaken == NLOOPS \in Nat /\ TurnInv => Tw!TakeTurns
<1> SUFFICES ASSUME NLOOPS \in Nat, TurnInv PROVE Tw!TakeTurns
  OBVIOUS
<1>1. TurnTypes /\ Balance /\ Within /\ Numbers
  BY DEF TurnInv
<1>2. \A r \in Tw!Role : wat[r] \in Nat /\ Tells(Tw!Other(r)) = Waits(r) + Owed(r) /\ Owed(r) \in {0, 1}
  BY <1>1 DEF TurnTypes, Balance
<1>3. ASSUME wprog = "tellwait2", wat["child"] > 1 PROVE Tw!Done("parent")
  <2>1. Tells("parent") = Waits("child") + Owed("child") /\ Owed("child") \in {0, 1}
    BY <1>2, TwoRoles
  <2>2. Waits("child") = 1
    BY <1>3 DEF Waits, One
  <2>3. wat["parent"] > 2
    BY <1>3, <2>1, <2>2 DEF Tells, One
  <2> QED BY <1>1, <1>3, <2>3, StepRight, TwoRoles DEF Steps
<1>4. ASSUME wprog = "deadlock", NEW r \in Tw!Role, wat[r] = 4 PROVE wat[Tw!Other(r)] > 1
  <2>1. PICK q \in Tw!Role : q = Tw!Other(r)
    BY TwoRoles
  <2>2. Tells(q) = Waits(r) + Owed(r) /\ Owed(r) \in {0, 1} /\ wat[q] \in Nat
    BY <1>2, <2>1
  <2>3. Waits(r) = 1
    BY <1>4 DEF Waits, One
  <2>4. Tells(q) = One(wat[q] > 2)
    BY <1>4 DEF Tells
  <2> QED BY <2>1, <2>2, <2>3, <2>4 DEF One
<1>5. ASSUME \A r \in Tw!Role : sub[r] = "middle" PROVE FALSE
  <2>1. ASSUME NEW r \in Tw!Role
        PROVE  ~Tw!Done(r) /\ Tw!Code(r)[wat[r]] \in {"output", "update"} /\ StepAt(r, Tw!Code(r)[wat[r]])
    BY <1>1, <1>5, <2>1, StepRight DEF Within
  <2>2. CASE wprog = "devzero"
    <3>1. StepAt("parent", "update")
      BY <2>1, <2>2, TwoRoles DEF StepAt
    <3> QED BY <1>5, <3>1, UpdateRight, TwoRoles
  <2>3. CASE wprog = "tellwait2"
    <3>1. wat["child"] = 2
      BY <2>1, <2>3, TwoRoles DEF StepAt
    <3> QED BY <1>3, <2>1, <2>3, <3>1, TwoRoles
  <2>4. CASE wprog = "deadlock"
    BY <2>1, <2>4, TwoRoles DEF StepAt
  <2> QED BY <1>1, <2>2, <2>3, <2>4 DEF TurnTypes
<1> QED BY <1>1, <1>3, <1>4, <1>5 DEF Tw!TakeTurns, Numbers

\* Who waits for a byte is not the only one left, and the other does not wait.
LEMMA PipesMove == NLOOPS \in Nat /\ TurnInv => Tw!PipesFinish
<1> SUFFICES ASSUME NLOOPS \in Nat, TurnInv, NEW r \in Tw!Role, Tw!Waits(r)
             PROVE  ~Tw!Done(Tw!Other(r)) /\ ~Tw!Waits(Tw!Other(r))
  BY DEF Tw!PipesFinish
<1>1. PICK q \in Tw!Role : q = Tw!Other(r) /\ Tw!Other(q) = r /\ q # r /\ Tw!Role = {r, q}
  BY TwoRoles
<1>2. TurnTypes /\ Balance
  BY DEF TurnInv
<1>3. whow = "pipes" /\ ~Tw!Done(r) /\ pipe[r] = 0 /\ StepAt(r, "wait")
  BY <1>2, StepRight DEF Tw!Waits, Tw!Is
<1>4. Owed(r) = 0 /\ (Tw!Waits(q) => Owed(q) = 0 /\ StepAt(q, "wait"))
  BY <1>2, <1>3, StepRight DEF Owed, Tw!Waits, Tw!Is
<1>5. /\ Tells(q) = Waits(r) + Owed(r) /\ Tells(r) = Waits(q) + Owed(q) /\ Owed(q) \in {0, 1}
      /\ wat[r] \in Nat /\ wat[q] \in Nat
  BY <1>1, <1>2 DEF Balance, TurnTypes
<1>6. CASE wprog = "devzero"
  <2>1. PICK num \in Nat : num = NLOOPS \div 2
    OBVIOUS
  <2>2. (Tw!Done(r) <=> wat[r] > 3 * num) /\ (Tw!Done(q) <=> wat[q] > 3 * num)
    BY <1>2, <1>6, <2>1, StepRight DEF Steps
  <2>3. PICK l \in Nat, k \in 1..3, j \in Nat, i \in 1..3 :
          /\ l = Loops(r) /\ k = Place(r) /\ j = Loops(q) /\ i = Place(q)
          /\ wat[r] = 3 * l + k /\ wat[q] = 3 * j + i
    BY <1>2, PlaceIn
  <2>4. CASE r = "parent"
    <3>1. q = "child"
      BY <1>1, <2>4, TwoRoles
    <3>2. Tells(r) = l + One(k = 3) /\ Waits(r) = l /\ Tells(q) = j /\ Waits(q) = j + One(i > 1) /\ k = 3
      BY <1>3, <1>6, <2>3, <2>4, <3>1 DEF Tells, Waits, StepAt
    <3>3. StepAt(q, "wait") => i = 1
      BY <1>6, <2>3, <3>1 DEF StepAt
    <3>4. j = l
      BY <1>4, <1>5, <2>3, <3>2
    <3>5. ~Tw!Done(q)
      BY <1>3, <2>1, <2>2, <2>3, <3>2, <3>4
    <3>6. ~Tw!Waits(q)
      BY <1>4, <1>5, <2>3, <3>2, <3>3, <3>4 DEF One
    <3> QED BY <1>1, <3>5, <3>6
  <2>5. CASE r = "child"
    <3>1. q = "parent"
      BY <1>1, <2>5, TwoRoles
    <3>2. Tells(q) = j + One(i = 3) /\ Waits(q) = j /\ Tells(r) = l /\ Waits(r) = l + One(k > 1) /\ k = 1
      BY <1>3, <1>6, <2>3, <2>5, <3>1 DEF Tells, Waits, StepAt
    <3>3. StepAt(q, "wait") => i = 3
      BY <1>6, <2>3, <3>1 DEF StepAt
    <3>4. j + One(i = 3) = l
      BY <1>4, <1>5, <2>3, <3>2 DEF One
    <3>5. ~Tw!Done(q)
      BY <1>3, <2>1, <2>2, <2>3, <3>2, <3>4 DEF One
    <3>6. ~Tw!Waits(q)
      BY <1>4, <1>5, <2>3, <3>2, <3>3, <3>4 DEF One
    <3> QED BY <1>1, <3>5, <3>6
  <2> QED BY <2>4, <2>5, TwoRoles
<1>7. CASE wprog = "tellwait2"
  <2>1. r = "child" /\ wat[r] = 1 /\ q = "parent"
    BY <1>1, <1>3, <1>7, TwoRoles DEF StepAt
  <2>2. Tells(q) = One(wat[q] > 2) /\ Waits(r) = 0
    BY <1>7, <2>1 DEF Tells, Waits, One
  <2>3. wat[q] <= 2
    BY <1>4, <1>5, <2>2 DEF One
  <2>4. ~StepAt(q, "wait")
    BY <1>7, <2>1 DEF StepAt
  <2>5. ~Tw!Done(q)
    BY <1>2, <1>5, <1>7, <2>3, StepRight DEF Steps
  <2> QED BY <1>1, <1>4, <2>4, <2>5
<1>8. CASE wprog = "deadlock"
  <2>1. wat[r] = 3
    BY <1>3, <1>8 DEF StepAt
  <2>2. Tells(q) = One(wat[q] > 2) /\ Waits(r) = 0
    BY <1>8, <2>1 DEF Tells, Waits, One
  <2>3. wat[q] <= 2
    BY <1>4, <1>5, <2>2 DEF One
  <2>4. ~StepAt(q, "wait")
    BY <1>8, <2>3 DEF StepAt
  <2>5. ~Tw!Done(q)
    BY <1>2, <1>5, <1>8, <2>3, StepRight DEF Steps
  <2> QED BY <1>1, <1>4, <2>4, <2>5
<1> QED BY <1>2, <1>6, <1>7, <1>8 DEF TurnTypes

\* A step keeps the invariant.
LEMMA TurnStep == NLOOPS \in Nat /\ TurnInv /\ [Tw!Next]_(Tw!vars) => TurnInv'
<1> SUFFICES ASSUME NLOOPS \in Nat, TurnInv, [Tw!Next]_(Tw!vars) PROVE TurnInv'
  OBVIOUS
<1>1. CASE UNCHANGED Tw!vars
  BY <1>1 DEF Tw!vars, TurnInv, TurnTypes, Balance, Within, FirstWait, Numbers, Bytes, Tells, Waits, Updated,
     Owed, Posted, Loops, Place, One, Tw!Done, Tw!Code
<1>2. CASE Tw!Next
  BY <1>1, <1>2, TellSignalStep, DeliverStep, WaitSteps, WaitResetStep, TellPipeStep, WaitPipeStep,
     OutputStep, UpdateStep, LockSteps DEF Tw!Next, Tw!Halted
<1> QED BY <1>1, <1>2

\* What the invariant promises.
LEMMA TurnPromises == NLOOPS \in Nat /\ TurnInv => Tw!TakeTurns /\ Tw!ToldWakes /\ Tw!PipesFinish
<1> SUFFICES ASSUME NLOOPS \in Nat, TurnInv PROVE Tw!ToldWakes
  BY TurnTaken, PipesMove
<1>1. \A r \in Tw!Role : waits[r] \in Nat
  BY CountsNat DEF TurnInv, Balance
<1> QED BY <1>1 DEF TurnInv, Within, FirstWait, Tw!ToldWakes

(***************************************************************************)
(* Parent and child take turns, whether they tell each other by signals or *)
(* by bytes in pipes: lines are not mixed, each update of the shared       *)
(* number finds what it expects for any number of loops, no call of TELL_x *)
(* is lost to the first WAIT_x, and with pipes nobody waits in vain. With  *)
(* signals a later WAIT_x may miss its TELL_x, and nothing is said of it.  *)
(***************************************************************************)
THEOREM TurnTheorem ==
  NLOOPS \in Nat => (TurnSpec => [](Tw!TakeTurns /\ Tw!ToldWakes /\ Tw!PipesFinish))
<1> SUFFICES ASSUME NLOOPS \in Nat PROVE TurnSpec => [](Tw!TakeTurns /\ Tw!ToldWakes /\ Tw!PipesFinish)
  OBVIOUS
<1>1. Tw!Init => TurnInv
  BY TurnInit
<1>2. TurnInv /\ [Tw!Next]_(Tw!vars) => TurnInv'
  BY TurnStep
<1>3. TurnInv => Tw!TakeTurns /\ Tw!ToldWakes /\ Tw!PipesFinish
  BY TurnPromises
<1> QED BY <1>1, <1>2, <1>3, PTL DEF TurnSpec
-----------------------------------------------------------------------------
(***************************************************************************)
(* The remote uptime service: sockets/ruptimed.c, ruptimed-fd.c and        *)
(* ruptimed-dg.c with their clients.                                       *)
(***************************************************************************)
CONSTANTS Client, MAXSLEEP, QLEN, Addrs
VARIABLES ukind, reuse, srv, aip, open, backlog, served, holders, hung, ust, numsec, slept,
          socks, alarm, early, reply
Rt == INSTANCE Ruptime WITH kind <- ukind, cur <- served, cst <- ust

\* MAXSLEEP is a power of two (128 in the code): doubling leads from 1 to it.
Doubling(S) == 1 \in S /\ \A x \in S : 0 < x /\ x <= MAXSLEEP /\ (x < MAXSLEEP => 2 * x \in S)
RuptimeSizes == MAXSLEEP \in Nat /\ \E S \in SUBSET Nat : Doubling(S)
Powers == CHOOSE S \in SUBSET Nat : Doubling(S)

RuptimeSpec == Rt!Init /\ [][Rt!Next]_(Rt!vars)

RuptimeTypes ==
  /\ ukind \in {"popen", "fork", "dgram"} /\ reuse \in BOOLEAN
  /\ srv \in {"init", "accept", "serve", "waitpid", "gone"}
  /\ backlog \in Seq(Client) /\ hung \in Seq(Client)
  /\ holders \in [Client -> SUBSET {"server", "child"}]
  /\ ust \in [Client -> {"start", "recv", "refused", "nosocket", "failed", "done", "sent", "armed"}]
  /\ numsec \in [Client -> Nat] /\ slept \in [Client -> Nat] /\ socks \in [Client -> {0, 1}]
  /\ alarm \in [Client -> {"off", "set"}] /\ early \in [Client -> BOOLEAN]

\* A connection is held by the process that serves it, or by one whose exec failed.
ServerInv ==
  /\ srv = "init" => open = 0
  /\ srv \in {"accept", "serve", "waitpid"} => open = 1
  /\ srv \in {"serve", "waitpid"} => served \in Client
  /\ ukind = "dgram" => \A c \in Client : holders[c] = {}
  /\ srv = "serve" /\ ukind # "dgram" => holders[served] = {"server"}
  /\ srv = "waitpid" => ukind = "fork" /\ holders[served] = {"child"}
  /\ \A c \in Client : holders[c] # {} =>
       Rt!Stuck(c) \/ (srv \in {"serve", "waitpid"} /\ c = served)

\* Between two tries a client without a socket of its caller has none, and has
\* slept for the sum of the times that lead to the next one.
Slept(c) == numsec[c] \in Powers /\ slept[c] = numsec[c] - 1
SleptAll(c) == numsec[c] = 2 * MAXSLEEP /\ slept[c] = MAXSLEEP - 1
RetryInv ==
  \A c \in Client : ukind # "dgram" =>
    /\ alarm[c] = "off" /\ ust[c] \notin {"sent", "armed"}
    /\ ust[c] \in {"start", "nosocket", "failed"} => reuse \/ socks[c] = 0
    /\ ust[c] = "refused" => Slept(c)
    /\ ust[c] = "start" => Slept(c) \/ SleptAll(c)
    /\ ust[c] = "failed" => SleptAll(c)

AlarmInv ==
  \A c \in Client : ukind = "dgram" /\ ust[c] \in {"armed", "recv"} => alarm[c] = "set" \/ early[c]

RuptimeInv == RuptimeTypes /\ ServerInv /\ RetryInv /\ AlarmInv

\* The powers of two up to MAXSLEEP.
LEMMA PowersDouble == RuptimeSizes => Powers \in SUBSET Nat /\ Doubling(Powers)
BY DEF RuptimeSizes, Powers

\* Nobody has connected yet.
LEMMA RuptimeInit == RuptimeSizes /\ Rt!Init => RuptimeInv
<1> SUFFICES ASSUME RuptimeSizes, Rt!Init PROVE RuptimeInv
  OBVIOUS
<1>1. RuptimeTypes /\ ServerInv /\ AlarmInv
  BY DEF Rt!Init, RuptimeTypes, ServerInv, AlarmInv
<1>2. 1 \in Powers
  BY PowersDouble DEF Doubling
<1> QED BY <1>1, <1>2 DEF Rt!Init, RetryInv, Slept, RuptimeInv

\* A step of the server leaves the clients alone.
LEMMA ClientsKept ==
  ASSUME RuptimeInv, UNCHANGED <<ukind, reuse, ust, numsec, slept, socks, alarm, early>>
  PROVE  RetryInv' /\ AlarmInv'
BY DEF RuptimeInv, RetryInv, AlarmInv, Slept, SleptAll

\* An error ends the process that accepts, or the last child whose exec failed.
LEMMA ExitsStep ==
  ASSUME RuptimeInv, srv = "accept" \/ srv = "serve", Rt!Exits,
         UNCHANGED <<ukind, reuse, aip, open, backlog, served, ust, numsec, slept, socks, alarm, early, reply>>
  PROVE  RuptimeInv'
<1>1. RetryInv' /\ AlarmInv'
  BY ClientsKept
<1> DEFINE closed == [c \in Client |-> holders[c] \ {"server"}]
<1>2. \A c \in Client : closed[c] \subseteq {"child"} /\ closed[c] \subseteq holders[c]
                          /\ (closed[c] # {} => Rt!Stuck(c))
  BY DEF RuptimeInv, RuptimeTypes, ServerInv
<1>3. CASE hung = <<>>
  <2>1. srv' = "gone" /\ holders' = closed /\ hung' = hung
    BY <1>3 DEF Rt!Exits
  <2> QED BY <1>1, <1>2, <2>1 DEF RuptimeInv, RuptimeTypes, ServerInv, Rt!Stuck
<1>4. CASE hung # <<>>
  <2>1. PICK k \in Nat : k = Len(hung) - 1 /\ Len(hung) = k + 1
    <3>1. hung \in Seq(Client) /\ Len(hung) \in Nat /\ Len(hung) # 0
      BY <1>4 DEF RuptimeInv, RuptimeTypes
    <3> QED BY <3>1
  <2>2. PICK g \in Client : g = hung[k + 1]
    BY <2>1 DEF RuptimeInv, RuptimeTypes
  <2>3. srv' = "accept" /\ hung' = SubSeq(hung, 1, k) /\ holders' = [closed EXCEPT ![g] = @ \ {"child"}]
    BY <1>4, <2>1, <2>2 DEF Rt!Exits, Rt!Front, Rt!Last
  <2>4. hung' \in Seq(Client) /\ DOMAIN hung' = 1..k /\ \A j \in 1..k : hung'[j] = hung[j]
    BY <2>1, <2>3 DEF RuptimeInv, RuptimeTypes
  <2>5. \A c \in Client : c # g /\ Rt!Stuck(c) => Rt!Stuck(c)'
    <3>1. DOMAIN hung = 1..(k + 1)
      BY <2>1 DEF RuptimeInv, RuptimeTypes
    <3> SUFFICES ASSUME NEW c \in Client, c # g, NEW j \in 1..(k + 1), hung[j] = c
                 PROVE  \E l \in 1..k : hung'[l] = c
      BY <2>4, <3>1 DEF Rt!Stuck
    <3>2. j \in 1..k
      BY <2>2
    <3> QED BY <2>4, <3>2
  <2>6. holders' \in [Client -> SUBSET {"server", "child"}] /\ holders'[g] = {}
        /\ \A c \in Client : c # g => holders'[c] = closed[c]
    BY <1>2, <2>3
  <2>7. \A c \in Client : holders'[c] # {} => Rt!Stuck(c)'
    BY <1>2, <2>5, <2>6
  <2>8. ukind = "dgram" => \A c \in Client : holders'[c] = {}
    BY <1>2, <2>6 DEF RuptimeInv, ServerInv
  <2>9. ServerInv'
    BY <2>3, <2>7, <2>8 DEF RuptimeInv, ServerInv
  <2> QED BY <1>1, <2>3, <2>4, <2>6, <2>9 DEF RuptimeInv, RuptimeTypes
<1> QED BY <1>3, <1>4

\* The server starts, and takes and serves a connection.
LEMMA ServerStep == RuptimeInv /\ Rt!Server => RuptimeInv'
<1> SUFFICES ASSUME RuptimeInv, Rt!Server PROVE RuptimeInv'
  OBVIOUS
<1>1. UNCHANGED <<ukind, reuse, ust, numsec, slept, socks, alarm, early>>
  BY DEF Rt!Server, Rt!PopenMain, Rt!ForkMain, Rt!DgramMain, Rt!Startup, Rt!Accept, Rt!ServePopen,
     Rt!ServeFork, Rt!ChildRuns, Rt!ServeDgram, Rt!cvars
<1>2. RetryInv' /\ AlarmInv'
  BY <1>1, ClientsKept
<1>3. CASE Rt!Startup
  <2>1. UNCHANGED <<backlog, hung, holders, served>> /\ srv = "init"
    BY <1>3 DEF Rt!Startup
  <2>2. open = 0 /\ (\/ srv' = "accept" /\ open' = open + 1
                     \/ srv' = "init" /\ open' = open
                     \/ srv' = "gone")
    BY <1>3 DEF Rt!Startup, Rt!initserver, RuptimeInv, ServerInv
  <2>3. ServerInv'
    BY <1>1, <2>1, <2>2 DEF RuptimeInv, ServerInv, Rt!Stuck
  <2> QED BY <1>1, <1>2, <2>1, <2>2, <2>3 DEF RuptimeInv, RuptimeTypes
<1>4. CASE Rt!Accept
  <2>1. CASE Rt!Exits /\ UNCHANGED <<served, backlog>>
    BY <1>1, <1>4, <2>1, ExitsStep DEF Rt!Accept
  <2>2. CASE ~(Rt!Exits /\ UNCHANGED <<served, backlog>>)
    <3>1. /\ backlog # <<>> /\ srv = "accept" /\ srv' = "serve" /\ served' = Head(backlog)
          /\ backlog' = Tail(backlog) /\ open' = open /\ hung' = hung
          /\ holders' = IF ukind = "dgram" THEN holders
                        ELSE [holders EXCEPT ![Head(backlog)] = {"server"}]
      BY <1>4, <2>2 DEF Rt!Accept
    <3>2. served' \in Client /\ backlog' \in Seq(Client)
      BY <3>1 DEF RuptimeInv, RuptimeTypes
    <3>3. holders' \in [Client -> SUBSET {"server", "child"}]
          /\ (ukind # "dgram" => holders'[served'] = {"server"})
          /\ (ukind = "dgram" => holders' = holders)
          /\ \A c \in Client : c # served' => holders'[c] = holders[c]
      BY <3>1, <3>2 DEF RuptimeInv, RuptimeTypes
    <3>4. ServerInv'
      BY <1>1, <3>1, <3>2, <3>3 DEF RuptimeInv, ServerInv, Rt!Stuck
    <3> QED BY <1>1, <1>2, <3>1, <3>2, <3>3, <3>4 DEF RuptimeInv, RuptimeTypes
  <2> QED BY <2>1, <2>2
<1>5. CASE Rt!ServeFork /\ Rt!Exits
  BY <1>1, <1>5, ExitsStep DEF Rt!ServeFork, Rt!cvars
<1>6. CASE Rt!ServePopen \/ (Rt!ServeFork /\ ~Rt!Exits) \/ Rt!ChildRuns \/ Rt!ServeDgram
  <2>1. UNCHANGED <<backlog, served, open>> /\ srv \in {"serve", "waitpid"}
    BY <1>6 DEF Rt!ServePopen, Rt!ServeFork, Rt!ChildRuns, Rt!ServeDgram
  <2>2. served \in Client
    BY <2>1 DEF RuptimeInv, ServerInv
  <2>3. CASE Rt!ServePopen \/ (Rt!ServeFork /\ ~Rt!Exits) \/ Rt!ServeDgram
    <3>1. hung' = hung /\ srv = "serve" /\ srv' \in {"accept", "waitpid"}
          /\ (srv' = "waitpid" => ukind = "fork" /\ holders' = [holders EXCEPT ![served] = {"child"}])
          /\ (srv' = "accept" /\ ukind # "dgram" => holders' = [holders EXCEPT ![served] = {}])
          /\ (ukind = "dgram" => holders' = holders)
      BY <2>3 DEF Rt!ServePopen, Rt!ServeFork, Rt!ServeDgram
    <3>2. holders' \in [Client -> SUBSET {"server", "child"}]
          /\ (srv' = "waitpid" => holders'[served] = {"child"})
          /\ (srv' = "accept" => holders'[served] = {})
          /\ \A c \in Client : c # served => holders'[c] = holders[c]
      <4>1. holders \in [Client -> SUBSET {"server", "child"}]
        BY DEF RuptimeInv, RuptimeTypes
      <4>2. CASE ukind = "dgram"
        BY <2>2, <3>1, <4>1, <4>2 DEF RuptimeInv, ServerInv
      <4>3. CASE ukind # "dgram"
        BY <2>2, <3>1, <4>1, <4>3
      <4> QED BY <4>2, <4>3
    <3>3. ServerInv'
      BY <1>1, <2>1, <2>2, <3>1, <3>2 DEF RuptimeInv, ServerInv, Rt!Stuck
    <3> QED BY <1>1, <1>2, <2>1, <3>1, <3>2, <3>3 DEF RuptimeInv, RuptimeTypes
  <2>4. CASE Rt!ChildRuns
    <3>1. srv = "waitpid" /\ srv' = "accept" /\ ukind = "fork" /\ holders[served] = {"child"}
      BY <2>4 DEF Rt!ChildRuns, RuptimeInv, ServerInv
    <3>2. CASE holders' = [holders EXCEPT ![served] = @ \ {"child"}] /\ hung' = hung
      <4>1. holders' \in [Client -> SUBSET {"server", "child"}] /\ holders'[served] = {}
            /\ \A c \in Client : c # served => holders'[c] = holders[c]
        BY <2>2, <3>1, <3>2 DEF RuptimeInv, RuptimeTypes
      <4>2. ServerInv'
        BY <1>1, <2>1, <2>2, <3>1, <3>2, <4>1 DEF RuptimeInv, ServerInv, Rt!Stuck
      <4> QED BY <1>1, <1>2, <2>1, <3>1, <3>2, <4>1, <4>2 DEF RuptimeInv, RuptimeTypes
    <3>3. CASE hung' = Append(hung, served) /\ holders' = holders
      <4>1. PICK k \in Nat : k = Len(hung)
        BY DEF RuptimeInv, RuptimeTypes
      <4>2. hung' \in Seq(Client) /\ DOMAIN hung' = 1..(k + 1) /\ DOMAIN hung = 1..k
            /\ hung'[k + 1] = served /\ \A j \in 1..k : hung'[j] = hung[j]
        BY <2>2, <3>3, <4>1 DEF RuptimeInv, RuptimeTypes
      <4>3. Rt!Stuck(served)' /\ \A c \in Client : Rt!Stuck(c) => Rt!Stuck(c)'
        BY <2>1, <4>1, <4>2 DEF Rt!Stuck
      <4>4. ServerInv'
        BY <1>1, <2>1, <2>2, <3>1, <3>3, <4>3 DEF RuptimeInv, ServerInv
      <4> QED BY <1>1, <1>2, <2>1, <3>1, <3>3, <4>2, <4>4 DEF RuptimeInv, RuptimeTypes
    <3> QED BY <2>4, <3>2, <3>3 DEF Rt!ChildRuns
  <2> QED BY <1>6, <2>3, <2>4
<1> QED BY <1>3, <1>4, <1>5, <1>6 DEF Rt!Server, Rt!PopenMain, Rt!ForkMain, Rt!DgramMain

\* A step of a client leaves the server alone.
LEMMA ServerKept ==
  ASSUME RuptimeInv, UNCHANGED <<ukind, srv, open, served, holders, hung>>
  PROVE  ServerInv'
BY DEF RuptimeInv, ServerInv, Rt!Stuck

\* A client of connect_retry tries, waits and gives up, and reads.
LEMMA TriesStep ==
  ASSUME RuptimeSizes, RuptimeInv, NEW c \in Client,
         Rt!Connect(c) \/ Rt!Backoff(c) \/ Rt!GiveUp(c) \/ Rt!print_uptime(c)
  PROVE  RuptimeInv'
<1>1. UNCHANGED <<ukind, reuse, srv, open, served, holders, hung, alarm, early>>
  BY DEF Rt!Connect, Rt!Backoff, Rt!GiveUp, Rt!print_uptime, Rt!svars
<1>2. ServerInv'
  BY <1>1, ServerKept
<1>3. backlog' \in Seq(Client)
  <2>1. backlog' = backlog \/ backlog' = Append(backlog, c)
    BY DEF Rt!Connect, Rt!Backoff, Rt!GiveUp, Rt!print_uptime, Rt!svars
  <2>2. backlog \in Seq(Client)
    BY DEF RuptimeInv, RuptimeTypes
  <2>3. Append(backlog, c) \in Seq(Client)
    BY <2>2
  <2> QED BY <2>1, <2>2, <2>3
<1>4. AlarmInv'
  <2>1. PICK to \in {"recv", "refused", "nosocket", "start", "failed", "done"} :
          ust' = [ust EXCEPT ![c] = to] /\ (ukind = "dgram" => to = "start")
    BY DEF Rt!Connect, Rt!Backoff, Rt!GiveUp, Rt!print_uptime
  <2> QED BY <1>1, <2>1 DEF RuptimeInv, RuptimeTypes, AlarmInv
<1>5. MAXSLEEP \in Nat /\ Powers \in SUBSET Nat
      /\ \A x \in Powers : 0 < x /\ x <= MAXSLEEP /\ (x < MAXSLEEP => 2 * x \in Powers)
  BY PowersDouble DEF RuptimeSizes, Doubling
<1>6. CASE Rt!Connect(c)
  <2>1. /\ ukind # "dgram" /\ ust[c] = "start" /\ numsec[c] <= MAXSLEEP
        /\ UNCHANGED <<numsec, slept>>
    BY <1>6 DEF Rt!Connect, Rt!TryAgain
  <2>2. Slept(c)
    BY <1>5, <2>1 DEF RuptimeInv, RuptimeTypes, RetryInv, SleptAll, Slept
  <2>3. PICK to \in {"recv", "refused", "nosocket"} : ust' = [ust EXCEPT ![c] = to]
          /\ (to = "nosocket" => ~reuse /\ socks' = socks)
    BY <1>6 DEF Rt!Connect
  <2>4. PICK k \in {0, 1} : socks' = [socks EXCEPT ![c] = k] /\ (to = "nosocket" => k = socks[c])
    <3>1. socks[c] \in {0, 1} /\ (~reuse => socks[c] = 0) /\ socks = [socks EXCEPT ![c] = socks[c]]
      BY <2>1 DEF RuptimeInv, RuptimeTypes, RetryInv
    <3>2. CASE to = "nosocket"
      BY <2>3, <3>1, <3>2
    <3>3. CASE to # "nosocket"
      <4>1. ust'[c] = to
        BY <2>3 DEF RuptimeInv, RuptimeTypes
      <4>2. socks' = [socks EXCEPT ![c] = IF reuse /\ socks[c] = 1 THEN 1 ELSE socks[c] + 1]
        BY <1>6, <3>3, <4>1 DEF Rt!Connect, RuptimeInv, RuptimeTypes
      <4>3. PICK k \in {0, 1} : k = IF reuse /\ socks[c] = 1 THEN 1 ELSE socks[c] + 1
        BY <3>1
      <4> QED BY <3>3, <4>2, <4>3
    <3> QED BY <3>2, <3>3
  <2>5. RuptimeTypes'
    BY <1>1, <1>3, <2>1, <2>3, <2>4 DEF RuptimeInv, RuptimeTypes
  <2>6. RetryInv'
    BY <1>1, <2>1, <2>2, <2>3, <2>4 DEF RuptimeInv, RuptimeTypes, RetryInv, Slept, SleptAll
  <2> QED BY <1>2, <1>4, <2>5, <2>6 DEF RuptimeInv
<1>7. CASE Rt!Backoff(c)
  <2>1. /\ ust[c] = "refused" /\ ust' = [ust EXCEPT ![c] = "start"]
        /\ numsec' = [numsec EXCEPT ![c] = 2 * numsec[c]]
        /\ slept' = IF numsec[c] <= MAXSLEEP \div 2 THEN [slept EXCEPT ![c] = slept[c] + numsec[c]] ELSE slept
        /\ socks' = IF reuse THEN socks ELSE [socks EXCEPT ![c] = 0]
    BY <1>7 DEF Rt!Backoff, Rt!CloseTry
  <2>2. numsec[c] \in Nat /\ slept[c] \in Nat
    BY DEF RuptimeInv, RuptimeTypes
  <2>3. PICK s \in Nat : slept' = [slept EXCEPT ![c] = s]
          /\ (numsec[c] <= MAXSLEEP \div 2 => s = slept[c] + numsec[c])
          /\ (~(numsec[c] <= MAXSLEEP \div 2) => s = slept[c])
    <3>1. CASE numsec[c] <= MAXSLEEP \div 2
      <4>1. slept[c] + numsec[c] \in Nat
        BY <2>2
      <4> QED BY <2>1, <3>1, <4>1
    <3>2. CASE ~(numsec[c] <= MAXSLEEP \div 2)
      BY <2>1, <2>2, <3>2 DEF RuptimeInv, RuptimeTypes
    <3> QED BY <3>1, <3>2
  <2>4. ukind # "dgram" => (Slept(c) \/ SleptAll(c))'
    <3> SUFFICES ASSUME ukind # "dgram" PROVE (Slept(c) \/ SleptAll(c))'
      OBVIOUS
    <3>1. numsec[c] \in Powers /\ slept[c] = numsec[c] - 1
      BY <2>1 DEF RuptimeInv, RetryInv, Slept
    <3>2. numsec'[c] = 2 * numsec[c] /\ slept'[c] = s
      BY <2>1, <2>2, <2>3 DEF RuptimeInv, RuptimeTypes
    <3>3. CASE numsec[c] < MAXSLEEP
      <4>1. 2 * numsec[c] \in Powers /\ 2 * numsec[c] <= MAXSLEEP
        BY <1>5, <3>1, <3>3
      <4>2. numsec[c] <= MAXSLEEP \div 2
        BY <1>5, <2>2, <4>1
      <4> QED BY <2>2, <2>3, <3>1, <3>2, <4>1, <4>2 DEF Slept
    <3>4. CASE numsec[c] = MAXSLEEP
      <4>1. 0 < MAXSLEEP
        BY <1>5, <3>1, <3>4
      <4>2. ~(numsec[c] <= MAXSLEEP \div 2)
        BY <1>5, <3>4, <4>1
      <4> QED BY <2>3, <3>1, <3>2, <3>4, <4>2 DEF SleptAll
    <3> QED BY <1>5, <2>2, <3>1, <3>3, <3>4
  <2>5. socks' \in [Client -> {0, 1}] /\ (reuse \/ socks'[c] = 0)
        /\ \A d \in Client : d # c => socks'[d] = socks[d]
    BY <2>1 DEF RuptimeInv, RuptimeTypes
  <2>6. RuptimeTypes'
    BY <1>1, <1>3, <2>1, <2>2, <2>3, <2>5, SMTT(30) DEF RuptimeInv, RuptimeTypes
  <2>7. \A d \in Client : d # c => UNCHANGED <<ust[d], numsec[d], slept[d], socks[d]>>
    BY <2>1, <2>3, <2>5 DEF RuptimeInv, RuptimeTypes
  <2>8. ust'[c] = "start"
    BY <2>1 DEF RuptimeInv, RuptimeTypes
  <2>9. RetryInv'
    BY <1>1, <2>4, <2>5, <2>7, <2>8 DEF RuptimeInv, RetryInv, Slept, SleptAll
  <2> QED BY <1>2, <1>4, <2>6, <2>9 DEF RuptimeInv
<1>8. CASE Rt!GiveUp(c)
  <2>1. /\ ukind # "dgram" /\ ust[c] = "start" /\ ~(numsec[c] <= MAXSLEEP)
        /\ ust' = [ust EXCEPT ![c] = "failed"] /\ UNCHANGED <<numsec, slept, socks>>
    BY <1>8 DEF Rt!GiveUp, Rt!TryAgain
  <2>2. SleptAll(c)
    BY <1>5, <2>1 DEF RuptimeInv, RuptimeTypes, RetryInv, Slept
  <2>3. RuptimeTypes'
    BY <1>1, <1>3, <2>1 DEF RuptimeInv, RuptimeTypes
  <2>4. RetryInv'
    BY <1>1, <2>1, <2>2 DEF RuptimeInv, RuptimeTypes, RetryInv, Slept, SleptAll
  <2> QED BY <1>2, <1>4, <2>3, <2>4 DEF RuptimeInv
<1>9. CASE Rt!print_uptime(c)
  <2>1. /\ ust' = [ust EXCEPT ![c] = "done"] /\ socks' = [socks EXCEPT ![c] = 0]
        /\ UNCHANGED <<numsec, slept>>
    BY <1>9 DEF Rt!print_uptime
  <2>2. RuptimeTypes'
    BY <1>1, <1>3, <2>1 DEF RuptimeInv, RuptimeTypes
  <2>3. RetryInv'
    BY <1>1, <2>1 DEF RuptimeInv, RuptimeTypes, RetryInv, Slept, SleptAll
  <2> QED BY <1>2, <1>4, <2>2, <2>3 DEF RuptimeInv
<1> QED BY <1>6, <1>7, <1>8, <1>9

\* A client of the datagram service.
LEMMA DatagramStep ==
  ASSUME RuptimeInv, NEW c \in Client,
         Rt!SendTo(c) \/ Rt!SetAlarm(c) \/ Rt!RecvFrom(c) \/ Rt!sigalrm(c)
  PROVE  RuptimeInv'
<1>1. UNCHANGED <<ukind, reuse, srv, open, served, holders, hung, numsec, slept, socks>>
  BY DEF Rt!SendTo, Rt!SetAlarm, Rt!RecvFrom, Rt!sigalrm, Rt!svars
<1>2. ServerInv'
  BY <1>1, ServerKept
<1>3. backlog' \in Seq(Client)
  <2>1. backlog' = backlog \/ backlog' = Append(backlog, c)
    BY DEF Rt!SendTo, Rt!SetAlarm, Rt!RecvFrom, Rt!sigalrm, Rt!svars
  <2>2. backlog \in Seq(Client)
    BY DEF RuptimeInv, RuptimeTypes
  <2>3. Append(backlog, c) \in Seq(Client)
    BY <2>2
  <2> QED BY <2>1, <2>2, <2>3
<1>4. ukind = "dgram"
  BY DEF Rt!SendTo, Rt!SetAlarm, Rt!RecvFrom, Rt!sigalrm, RuptimeInv, RetryInv
<1>5. RuptimeTypes'
  BY <1>1, <1>3 DEF Rt!SendTo, Rt!SetAlarm, Rt!RecvFrom, Rt!sigalrm, RuptimeInv, RuptimeTypes
<1>6. AlarmInv'
  BY <1>1 DEF Rt!SendTo, Rt!SetAlarm, Rt!RecvFrom, Rt!sigalrm, RuptimeInv, RuptimeTypes, AlarmInv
<1> QED BY <1>1, <1>2, <1>4, <1>5, <1>6 DEF RuptimeInv, RetryInv

\* A step of the service or of a client.
LEMMA RuptimeStep == RuptimeSizes /\ RuptimeInv /\ [Rt!Next]_(Rt!vars) => RuptimeInv'
<1> SUFFICES ASSUME RuptimeSizes, RuptimeInv, [Rt!Next]_(Rt!vars) PROVE RuptimeInv'
  OBVIOUS
<1>1. CASE UNCHANGED <<ukind, reuse, srv, aip, open, backlog, served, holders, hung, ust, numsec,
                       slept, socks, alarm, early>>
  BY <1>1, ClientsKept, ServerKept DEF RuptimeInv, RuptimeTypes
<1>2. CASE Rt!Lose \/ Rt!Ended \/ UNCHANGED Rt!vars
  BY <1>1, <1>2 DEF Rt!Lose, Rt!Ended, Rt!vars, Rt!svars, Rt!cvars
<1> QED BY <1>2, ServerStep, TriesStep, DatagramStep DEF Rt!Next

\* What the invariant says to the clients.
LEMMA RuptimePromises ==
  RuptimeInv => /\ Rt!ConnectionEnds /\ Rt!OneListener /\ Rt!RetryClean /\ Rt!RetryWaits
                /\ Rt!AlarmCovers
<1> SUFFICES ASSUME RuptimeInv
             PROVE  /\ Rt!ConnectionEnds /\ Rt!OneListener /\ Rt!RetryClean /\ Rt!RetryWaits
                    /\ Rt!AlarmCovers
  OBVIOUS
<1>1. Rt!ConnectionEnds /\ Rt!OneListener
  BY DEF RuptimeInv, ServerInv, Rt!ConnectionEnds, Rt!OneListener
<1>2. Rt!RetryClean
  BY DEF RuptimeInv, RuptimeTypes, RetryInv, Rt!RetryClean
<1>3. Rt!RetryWaits /\ Rt!AlarmCovers
  BY DEF RuptimeInv, RetryInv, SleptAll, AlarmInv, Rt!RetryWaits, Rt!AlarmCovers
<1> QED BY <1>1, <1>2, <1>3

(***************************************************************************)
(* The remote uptime service, for any number of clients, addresses and     *)
(* waiting connections and every power of two that connect_retry may wait  *)
(* for: every connection that is served ends for its client, but for those *)
(* of a child whose exec failed and that serves on; the server listens on  *)
(* one socket, connect_retry leaves none behind and waits as long as it    *)
(* should, and a datagram client that waits has its alarm to come unless   *)
(* it rang before recvfrom.                                                *)
(***************************************************************************)
THEOREM RuptimeTheorem ==
  RuptimeSizes => (RuptimeSpec => [](/\ Rt!ConnectionEnds /\ Rt!OneListener /\ Rt!RetryClean
                                     /\ Rt!RetryWaits /\ Rt!AlarmCovers))
<1> SUFFICES ASSUME RuptimeSizes
             PROVE  RuptimeSpec => [](/\ Rt!ConnectionEnds /\ Rt!OneListener /\ Rt!RetryClean
                                      /\ Rt!RetryWaits /\ Rt!AlarmCovers)
  OBVIOUS
<1>1. Rt!Init => RuptimeInv
  BY RuptimeInit
<1>2. RuptimeInv /\ [Rt!Next]_(Rt!vars) => RuptimeInv'
  BY RuptimeStep
<1> QED BY <1>1, <1>2, RuptimePromises, PTL DEF RuptimeSpec
-----------------------------------------------------------------------------
(***************************************************************************)
(* The memory stream of exercises/fmemopen.c.                              *)
(***************************************************************************)
CONSTANTS Types, rsize, Data
VARIABLES type, flags, state, own, buf, vsize, curpos, spill, file, fpos
Ms == INSTANCE MemStream WITH wild <- spill, pos <- fpos

StreamSizes == rsize \in Nat \ {0} /\ Data \subseteq Seq(Nat)
StreamSpec == Ms!Init /\ [][Ms!Next]_(Ms!vars)

\* The stream lies in the buffer.
Places ==
  /\ buf \in [0..rsize - 1 -> Nat] /\ vsize \in 0..rsize /\ curpos \in 0..vsize /\ spill = FALSE
  /\ state \in {"closed", "open", "done", "failed", "nomem"}
\* What is read and written is the file.
SameAsFile ==
  state = "open" /\ {"READ", "WRITE"} \subseteq flags =>
    /\ file \in Seq(Nat) /\ Len(file) = vsize /\ curpos = fpos
    /\ \A k \in 1..vsize : file[k] = buf[k - 1]
StreamInv == Places /\ SameAsFile

\* A stream is not open at first.
LEMMA StreamInit == StreamSizes /\ Ms!Init => StreamInv
BY DEF StreamSizes, Ms!Init, StreamInv, Places, SameAsFile

\* Any numbers have a least one.
LEMMA LeastOf ==
  ASSUME NEW T, T \subseteq Nat, T # {}
  PROVE  \E x \in T : \A y \in T : x <= y
<1> DEFINE R == {ss \in Nat \X Nat : ss[1] < ss[2]}
<1>1. IsWellFoundedOn(R, Nat)
  BY NatLessThanWellFounded DEF OpToRel
<1>2. ASSUME NEW x \in Nat, NEW y \in Nat, <<y, x>> \notin R PROVE x <= y
  BY <1>2, SMT
<1> HIDE DEF R
<1>3. PICK x \in T : \A y \in T : ~ (<<y, x>> \in R)
  BY <1>1, WFMin
<1> QED BY <1>2, <1>3

\* The end that is found lies in the buffer.
LEMMA EndFound ==
  ASSUME StreamSizes, Places PROVE Ms!find_end(buf) \in 0..rsize
<1>1. CASE ~\E k \in 0..rsize - 1 : buf[k] = 0
  BY <1>1 DEF StreamSizes, Ms!find_end
<1>2. CASE \E k \in 0..rsize - 1 : buf[k] = 0
  <2> DEFINE T == {k \in 0..rsize - 1 : buf[k] = 0}
  <2>1. T \subseteq Nat /\ T # {}
    BY <1>2 DEF StreamSizes
  <2>2. PICK k \in T : \A l \in T : k <= l
    BY <2>1, LeastOf
  <2>3. k \in 0..rsize - 1 /\ buf[k] = 0 /\ \A l \in 0..k - 1 : buf[l] # 0
    BY <2>1, <2>2 DEF StreamSizes
  <2>4. Ms!find_end(buf) = CHOOSE m \in 0..rsize - 1 : buf[m] = 0 /\ \A l \in 0..m - 1 : buf[l] # 0
    BY <1>2 DEF Ms!find_end
  <2>5. Ms!find_end(buf) \in 0..rsize - 1
    BY <2>3, <2>4
  <2> QED BY <2>5 DEF StreamSizes
<1> QED BY <1>1, <1>2

\* The bytes of the buffer, as a sequence.
LEMMA BytesSeq ==
  ASSUME StreamSizes, Places, NEW k \in 0..rsize
  PROVE  /\ Ms!Bytes(buf, k) \in Seq(Nat) /\ Len(Ms!Bytes(buf, k)) = k
         /\ \A j \in 1..k : Ms!Bytes(buf, k)[j] = buf[j - 1]
<1>1. \A j \in 1..k : buf[j - 1] \in Nat
  BY DEF StreamSizes, Places
<1>2. k \in Nat
  BY DEF StreamSizes
<1> QED BY <1>1, <1>2 DEF Ms!Bytes

\* fmemopen: the stream begins at the front or at the end of the string.
LEMMA OpenStreamStep == StreamSizes /\ StreamInv /\ Ms!fmemopen => StreamInv'
<1> SUFFICES ASSUME StreamSizes, StreamInv, Ms!fmemopen PROVE StreamInv'
  OBVIOUS
<1> DEFINE f == Ms!type_to_flags(type)
           begin == IF "APPEND" \in f /\ ~own THEN Ms!find_end(buf) ELSE 0
           extent == IF "APPEND" \in f THEN begin ELSE IF "TRUNCATE" \in f THEN 0 ELSE rsize
<1>1. Places
  BY DEF StreamInv
<1>2. begin \in 0..rsize /\ extent \in 0..rsize /\ begin <= extent
  <2>1. Ms!find_end(buf) \in 0..rsize
    BY <1>1, EndFound
  <2> QED BY <2>1 DEF StreamSizes
<1>3. buf' = buf /\ spill' = spill
  BY DEF Ms!fmemopen
<1>4. CASE state' = "open"
  <2>1. curpos' = begin /\ vsize' = extent /\ file' = Ms!Bytes(buf, extent) /\ fpos' = begin
    BY <1>4 DEF Ms!fmemopen
  <2>2. PICK k \in 0..rsize : k = extent
    BY <1>2
  <2>3. file' \in Seq(Nat) /\ Len(file') = k /\ \A j \in 1..k : file'[j] = buf[j - 1]
    BY <1>1, <2>1, <2>2, BytesSeq
  <2>4. PICK l \in 0..k : l = begin
    BY <1>2, <2>2 DEF StreamSizes
  <2>5. curpos' = l /\ fpos' = l /\ vsize' = k
    BY <2>1, <2>2, <2>4
  <2> QED BY <1>1, <1>3, <1>4, <2>3, <2>5 DEF StreamInv, Places, SameAsFile
<1>5. CASE state' # "open"
  <2>1. UNCHANGED <<curpos, vsize>> /\ state' \in {"failed", "nomem"}
    BY <1>5 DEF Ms!fmemopen
  <2> QED BY <1>1, <1>3, <1>5, <2>1 DEF StreamInv, Places, SameAsFile
<1> QED BY <1>4, <1>5

\* Reads and seeks move within the stream.
LEMMA MoveStreamStep ==
  ASSUME StreamSizes, StreamInv,
         \/ \E len \in 1..2 : Ms!mstream_read(len)
         \/ \E place \in -1..1, whence \in {"SET", "END", "CUR"} : Ms!mstream_seek(place, whence)
         \/ Ms!mstream_close \/ Ms!Ended \/ UNCHANGED Ms!vars
  PROVE  StreamInv'
<1>1. UNCHANGED <<flags, buf, vsize, spill, file>>
  BY DEF Ms!mstream_read, Ms!mstream_seek, Ms!mstream_close, Ms!Ended, Ms!vars
<1>2. Places /\ vsize \in Nat /\ curpos \in Nat /\ curpos <= vsize
  BY DEF StreamInv, Places, StreamSizes
<1>3. CASE \E len \in 1..2 : Ms!mstream_read(len)
  <2>1. PICK len \in 1..2 : Ms!mstream_read(len)
    BY <1>3
  <2>2. PICK k \in 0..vsize : curpos' = k /\ k = curpos + Ms!Min2(len, vsize - curpos)
    BY <1>2, <2>1 DEF Ms!mstream_read, Ms!Min2
  <2>3. state' = state /\ fpos' = fpos + Ms!Min2(len, Len(file) - fpos)
    BY <2>1 DEF Ms!mstream_read
  <2> QED BY <1>1, <1>2, <2>2, <2>3 DEF StreamInv, Places, SameAsFile
<1>4. CASE \E place \in -1..1, whence \in {"SET", "END", "CUR"} : Ms!mstream_seek(place, whence)
  <2>1. PICK place \in -1..1, whence \in {"SET", "END", "CUR"} : Ms!mstream_seek(place, whence)
    BY <1>4
  <2>2. PICK k \in 0..vsize :
          /\ curpos' = k
          /\ k = place + (CASE whence = "SET" -> 0 [] whence = "END" -> vsize [] whence = "CUR" -> curpos)
    BY <2>1 DEF Ms!mstream_seek
  <2>3. state' = state
        /\ fpos' = place + (CASE whence = "SET" -> 0 [] whence = "END" -> Len(file) [] whence = "CUR" -> fpos)
    BY <2>1 DEF Ms!mstream_seek
  <2>4. Places'
    BY <1>1, <1>2, <2>2, <2>3 DEF Places
  <2>5. state = "open" /\ {"READ", "WRITE"} \subseteq flags => fpos' = k
    BY <2>2, <2>3 DEF StreamInv, SameAsFile
  <2> QED BY <1>1, <2>2, <2>3, <2>4, <2>5 DEF StreamInv, SameAsFile
<1>5. CASE Ms!mstream_close
  BY <1>1, <1>5 DEF Ms!mstream_close, StreamInv, Places, SameAsFile
<1>6. CASE Ms!Ended \/ UNCHANGED Ms!vars
  BY <1>1, <1>6 DEF Ms!Ended, Ms!vars, StreamInv, Places, SameAsFile
<1> QED BY <1>3, <1>4, <1>5, <1>6

\* The first bytes of what is written.
LEMMA FirstOf ==
  ASSUME NEW S, NEW d \in Seq(S), NEW nw \in 0..Len(d)
  PROVE  /\ SubSeq(d, 1, nw) \in Seq(S) /\ Len(SubSeq(d, 1, nw)) = nw
         /\ \A k \in 1..nw : SubSeq(d, 1, nw)[k] = d[k]
<1>1. \A k \in 1..nw : d[k] \in S
  BY ElementOfSeq
<1>2. nw \in Int /\ nw >= 0 /\ 1 \in Int
  OBVIOUS
<1>3. /\ SubSeq(d, 1, nw) \in Seq(S) /\ Len(SubSeq(d, 1, nw)) = (IF 1 <= nw THEN nw - 1 + 1 ELSE 0)
      /\ \A k \in 1..nw - 1 + 1 : SubSeq(d, 1, nw)[k] = d[1 + k - 1]
  BY <1>1, <1>2, SubSeqProperties
<1>4. Len(SubSeq(d, 1, nw)) = nw
  BY <1>2, <1>3
<1>5. ASSUME NEW k \in 1..nw PROVE SubSeq(d, 1, nw)[k] = d[k]
  <2>1. k \in 1..nw - 1 + 1 /\ 1 + k - 1 = k
    BY <1>2
  <2> QED BY <1>3, <2>1
<1> QED BY <1>3, <1>4, <1>5

\* Where a write goes, the bytes that have room there, and what it leaves in the buffer.
Written(d, place, nw, zeros) ==
  /\ zeros = (IF place + nw > vsize THEN Ms!ZeroGrown(flags, place + nw) ELSE {})
              \union Ms!ZeroWriteOnly(flags, place + nw)
  /\ place = (IF "APPEND" \in flags THEN vsize ELSE curpos) /\ nw = Ms!Min2(Len(d), rsize - place)
  /\ place + nw <= rsize /\ spill' = FALSE
  /\ state = "open" /\ curpos' = place + nw /\ vsize' = IF place + nw > vsize THEN place + nw ELSE vsize
  /\ UNCHANGED <<state, flags>>
  /\ buf' = [k \in 0..rsize - 1 |->
               IF k \in zeros THEN 0 ELSE IF k \in place..place + nw - 1 THEN d[k - place + 1] ELSE buf[k]]

\* A write leaves that.
LEMMA WriteLeaves ==
  ASSUME StreamSizes, StreamInv, NEW d \in Data, Ms!mstream_write(d)
  PROVE  \E place \in 0..vsize, nw \in 0..Len(d), zeros \in SUBSET (0..rsize - 1) : Written(d, place, nw, zeros)
<1>1. d \in Seq(Nat) /\ Len(d) \in Nat
  BY DEF StreamSizes
<1>2. /\ vsize \in Nat /\ rsize \in Nat \ {0} /\ vsize <= rsize /\ spill = FALSE /\ DOMAIN buf = 0..rsize - 1
      /\ curpos \in 0..vsize
  BY DEF StreamInv, Places, StreamSizes
<1>3. PICK place \in 0..vsize : place = Ms!Where /\ place = (IF "APPEND" \in flags THEN vsize ELSE curpos)
  BY <1>2 DEF Ms!Where
<1>4. PICK nw \in 0..Len(d) : nw = Ms!Room(Len(d), place) /\ place + nw <= rsize /\ nw = Ms!Min2(Len(d), rsize - place)
  BY <1>1, <1>2 DEF Ms!Room, Ms!Min2
<1> DEFINE zeros == (IF place + nw > vsize THEN Ms!ZeroGrown(flags, place + nw) ELSE {})
                      \union Ms!ZeroWriteOnly(flags, place + nw)
           now == Ms!Put(buf, place, SubSeq(d, 1, nw))
<1>5. zeros \subseteq 0..rsize - 1
  BY <1>1, <1>2, <1>4 DEF Ms!ZeroGrown, Ms!ZeroWriteOnly
<1>6. /\ spill' = (spill \/ ~(zeros \subseteq DOMAIN buf))
      /\ buf' = [k \in DOMAIN now |-> IF k \in zeros THEN 0 ELSE now[k]]
      /\ state = "open" /\ curpos' = place + nw /\ vsize' = IF place + nw > vsize THEN place + nw ELSE vsize
      /\ UNCHANGED <<state, flags>>
  BY <1>3, <1>4 DEF Ms!mstream_write
<1>7. Len(SubSeq(d, 1, nw)) = nw /\ \A k \in 1..nw : SubSeq(d, 1, nw)[k] = d[k]
  BY <1>1, <1>4, FirstOf
<1>8. DOMAIN now = 0..rsize - 1
      /\ \A k \in 0..rsize - 1 : now[k] = IF k \in place..place + nw - 1 THEN d[k - place + 1] ELSE buf[k]
  <2>1. PICK done : done = SubSeq(d, 1, nw)
    OBVIOUS
  <2>2. Len(done) = nw /\ \A k \in 1..nw : done[k] = d[k]
    BY <1>7, <2>1
  <2>3. now = [k \in 0..rsize - 1 |-> IF k \in place..place + nw - 1 THEN done[k - place + 1] ELSE buf[k]]
    BY <1>2, <2>1, <2>2 DEF Ms!Put
  <2>4. \A k \in place..place + nw - 1 : k - place + 1 \in 1..nw
    BY <1>1, <1>2
  <2> QED BY <2>2, <2>3, <2>4
<1> HIDE DEF now
<1>9. buf' = [k \in 0..rsize - 1 |->
               IF k \in zeros THEN 0 ELSE IF k \in place..place + nw - 1 THEN d[k - place + 1] ELSE buf[k]]
  <2> HIDE DEF zeros
  <2> QED BY <1>6, <1>8
<1>10. PICK zs \in SUBSET (0..rsize - 1) : zs = zeros
  BY <1>5
<1>11. spill' = FALSE
  BY <1>2, <1>5, <1>6
<1>12. Written(d, place, nw, zs)
  BY <1>3, <1>4, <1>6, <1>9, <1>10, <1>11 DEF Written
<1> QED BY <1>12

\* A write fills the buffer, and the file, at the same place.
LEMMA WriteStreamStep == ASSUME StreamSizes, StreamInv, NEW d \in Data, Ms!mstream_write(d) PROVE StreamInv'
<1>1. PICK place \in 0..vsize, nw \in 0..Len(d), zeros \in SUBSET (0..rsize - 1) : Written(d, place, nw, zeros)
  BY WriteLeaves
<1>3. zeros = (IF place + nw > vsize THEN Ms!ZeroGrown(flags, place + nw) ELSE {})
                \union Ms!ZeroWriteOnly(flags, place + nw)
  BY <1>1 DEF Written
<1>4. /\ d \in Seq(Nat) /\ Len(d) \in Nat /\ place \in 0..vsize /\ nw \in 0..Len(d) /\ place + nw <= rsize
      /\ rsize \in Nat \ {0} /\ vsize \in 0..rsize /\ \A k \in 0..rsize - 1 : buf[k] \in Nat
  BY <1>1, SMTT(30) DEF Written, StreamInv, Places, StreamSizes
<1>5. /\ zeros \subseteq 0..rsize - 1 /\ spill' = FALSE
      /\ buf' = [k \in 0..rsize - 1 |-> IF k \in zeros THEN 0
                                        ELSE IF k \in place..place + nw - 1 THEN d[k - place + 1] ELSE buf[k]]
  BY <1>1 DEF Written
<1>6. /\ state = "open" /\ curpos' = place + nw /\ vsize' = IF place + nw > vsize THEN place + nw ELSE vsize
      /\ UNCHANGED <<state, flags>>
  BY <1>1 DEF Written
<1>7. \A k \in 0..rsize - 1 : (IF k \in zeros THEN 0
        ELSE IF k \in place..place + nw - 1 THEN d[k - place + 1] ELSE buf[k]) \in Nat
  <2> SUFFICES ASSUME NEW k \in 0..rsize - 1, k \in place..place + nw - 1 PROVE d[k - place + 1] \in Nat
    BY <1>4
  <2>1. k - place + 1 \in 1..Len(d)
    BY <1>4
  <2> QED BY <1>4, <2>1
<1>8. Places'
  <2>1. buf' \in [0..rsize - 1 -> Nat]
    BY <1>5, <1>7
  <2> QED BY <1>4, <1>5, <1>6, <2>1 DEF Places, StreamInv
<1>9. SameAsFile'
  <2> SUFFICES ASSUME {"READ", "WRITE"} \subseteq flags
               PROVE  /\ file' \in Seq(Nat) /\ Len(file') = vsize' /\ curpos' = fpos'
                      /\ \A k \in 1..vsize' : file'[k] = buf'[k - 1]
    BY <1>6 DEF SameAsFile
  <2>1. /\ file \in Seq(Nat) /\ Len(file) = vsize /\ curpos = fpos
        /\ \A k \in 1..vsize : file[k] = buf[k - 1]
    BY <1>6 DEF StreamInv, SameAsFile
  <2>2. place = IF "APPEND" \in flags THEN Len(file) ELSE fpos
    BY <1>1, <2>1 DEF Written
  <2>3. nw = Ms!Min2(Len(d), rsize - place)
    BY <1>1 DEF Written
  <2> DEFINE done == SubSeq(d, 1, nw)
             front == SubSeq(file, 1, place)
             back == SubSeq(file, place + nw + 1, vsize)
  <2>4. done \in Seq(Nat) /\ Len(done) = nw /\ \A k \in 1..nw : done[k] = d[k]
    BY <1>4, FirstOf
  <2>5. file' = (front \o done) \o back /\ fpos' = place + nw
    <3>1. /\ file' = SubSeq(file, 1, place) \o done \o SubSeq(file, place + Len(done) + 1, Len(file))
          /\ fpos' = place + Len(done)
      BY <2>2, <2>3 DEF Ms!mstream_write
    <3> QED BY <2>1, <2>4, <3>1
  <2>6. front \in Seq(Nat) /\ Len(front) = place /\ \A k \in 1..place : front[k] = file[k]
    BY <1>4, <2>1, FirstOf
  <2>7. PICK rest \in Nat : rest = IF place + nw < vsize THEN vsize - place - nw ELSE 0
    <3>1. place \in Int /\ nw \in Int /\ vsize \in Int
      BY <1>4
    <3>2. CASE place + nw < vsize
      <4>1. vsize - place - nw \in Nat
        BY <3>1, <3>2
      <4> QED BY <3>2, <4>1
    <3>3. CASE ~(place + nw < vsize)
      <4>1. 0 \in Nat
        OBVIOUS
      <4> QED BY <3>3, <4>1
    <3> QED BY <3>2, <3>3
  <2>8. back \in Seq(Nat) /\ Len(back) = rest /\ \A k \in 1..rest : back[k] = file[place + nw + k]
    <3>1. \A k \in place + nw + 1..vsize : file[k] \in Nat
      <4> SUFFICES ASSUME NEW k \in place + nw + 1..vsize PROVE file[k] \in Nat
        OBVIOUS
      <4>1. k \in 1..Len(file)
        BY <1>4, <2>1
      <4> QED BY <2>1, <4>1, ElementOfSeq
    <3>2. place + nw + 1 \in Int /\ vsize \in Int
      BY <1>4
    <3>3. /\ back \in Seq(Nat)
          /\ Len(back) = IF place + nw + 1 <= vsize THEN vsize - (place + nw + 1) + 1 ELSE 0
          /\ \A k \in 1..vsize - (place + nw + 1) + 1 : back[k] = file[place + nw + 1 + k - 1]
      <4>1. PICK m \in Int : m = place + nw + 1
        BY <3>2
      <4>2. \A k \in m..vsize : file[k] \in Nat
        BY <3>1, <4>1
      <4>3. /\ SubSeq(file, m, vsize) \in Seq(Nat)
            /\ Len(SubSeq(file, m, vsize)) = IF m <= vsize THEN vsize - m + 1 ELSE 0
            /\ \A k \in 1..vsize - m + 1 : SubSeq(file, m, vsize)[k] = file[m + k - 1]
        BY <3>2, <4>2, SubSeqProperties
      <4> QED BY <4>1, <4>3
    <3>4. Len(back) = rest
      BY <1>4, <2>7, <3>3
    <3>5. \A k \in 1..rest : back[k] = file[place + nw + k]
      <4> SUFFICES ASSUME NEW k \in 1..rest PROVE back[k] = file[place + nw + k]
        OBVIOUS
      <4>1. k \in 1..vsize - (place + nw + 1) + 1 /\ place + nw + 1 + k - 1 = place + nw + k
        BY <1>4, <2>7
      <4> QED BY <3>3, <4>1
    <3> QED BY <3>3, <3>4, <3>5
  <2> HIDE DEF done, front, back
  <2>9. /\ front \o done \in Seq(Nat) /\ Len(front \o done) = place + nw
        /\ \A k \in 1..place + nw : (front \o done)[k] = IF k <= place THEN front[k] ELSE done[k - place]
    BY <2>4, <2>6, ConcatProperties
  <2>10. /\ file' \in Seq(Nat) /\ Len(file') = place + nw + rest
         /\ \A k \in 1..place + nw + rest :
              file'[k] = IF k <= place + nw THEN (front \o done)[k] ELSE back[k - (place + nw)]
    <3>1. PICK a \in Seq(Nat) : a = front \o done
      BY <2>9
    <3>2. PICK c \in Seq(Nat) : c = back
      BY <2>8
    <3>3. Len(a) = place + nw /\ Len(c) = rest /\ file' = a \o c
      BY <2>5, <2>8, <2>9, <3>1, <3>2
    <3>4. /\ a \o c \in Seq(Nat) /\ Len(a \o c) = Len(a) + Len(c)
          /\ \A k \in 1..Len(a) + Len(c) : (a \o c)[k] = IF k <= Len(a) THEN a[k] ELSE c[k - Len(a)]
      BY ConcatProperties
    <3>5. /\ file' \in Seq(Nat) /\ Len(file') = place + nw + rest
          /\ \A k \in 1..place + nw + rest : file'[k] = IF k <= place + nw THEN a[k] ELSE c[k - (place + nw)]
      BY <3>3, <3>4
    <3> QED BY <3>1, <3>2, <3>5
  <2>11. vsize' = place + nw + rest /\ vsize' \in 0..rsize
    BY <1>4, <1>6, <2>7
  <2>12. \A k \in zeros : k >= vsize'
    BY <1>3, <1>4, <1>6 DEF Ms!ZeroGrown, Ms!ZeroWriteOnly
  <2>13. ASSUME NEW k \in 1..vsize' PROVE file'[k] = buf'[k - 1]
    <3>1. k - 1 \in 0..rsize - 1 /\ k - 1 \notin zeros
      BY <1>4, <2>11, <2>12
    <3>2. buf'[k - 1] = IF k - 1 \in place..place + nw - 1 THEN d[k - 1 - place + 1] ELSE buf[k - 1]
      BY <1>5, <3>1
    <3>3. CASE k <= place
      <4>1. file'[k] = front[k] /\ front[k] = file[k] /\ file[k] = buf[k - 1]
        <5>1. k \in 1..place /\ k \in 1..place + nw /\ k \in 1..place + nw + rest /\ k <= place + nw
          BY <1>4, <2>11, <3>3
        <5>2. k \in 1..vsize
          BY <1>4, <3>3
        <5>3. file'[k] = (front \o done)[k]
          BY <2>10, <5>1
        <5>4. (front \o done)[k] = front[k]
          BY <2>9, <3>3, <5>1
        <5>5. front[k] = file[k]
          BY <2>6, <5>1
        <5>6. file[k] = buf[k - 1]
          BY <2>1, <5>2
        <5> QED BY <5>3, <5>4, <5>5, <5>6
      <4>2. k - 1 \notin place..place + nw - 1
        BY <1>4, <2>11, <3>3
      <4> QED BY <3>2, <4>1, <4>2
    <3>4. CASE place < k /\ k <= place + nw
      <4>1. k - place \in 1..nw /\ k - 1 - place + 1 = k - place /\ k - 1 \in place..place + nw - 1
        BY <1>4, <2>11, <3>4
      <4>2. file'[k] = done[k - place] /\ done[k - place] = d[k - place]
        <5>1. k \in 1..place + nw /\ k \in 1..place + nw + rest /\ ~(k <= place)
          BY <1>4, <2>11, <3>4
        <5>2. file'[k] = (front \o done)[k]
          <6>1. k <= place + nw
            BY <3>4
          <6> QED BY <2>10, <5>1, <6>1
        <5>3. (front \o done)[k] = done[k - place]
          BY <2>9, <5>1
        <5>4. done[k - place] = d[k - place]
          BY <2>4, <4>1
        <5> QED BY <5>2, <5>3, <5>4
      <4> QED BY <3>2, <4>1, <4>2
    <3>5. CASE place + nw < k
      <4>1. k - (place + nw) \in 1..rest /\ k - 1 \notin place..place + nw - 1 /\ k \in 1..vsize
            /\ place + nw + (k - (place + nw)) = k
        BY <1>4, <2>7, <2>11, <3>5
      <4>2. file'[k] = back[k - (place + nw)] /\ back[k - (place + nw)] = file[k]
        BY <1>4, <2>8, <2>10, <2>11, <3>5, <4>1
      <4> QED BY <2>1, <3>2, <4>1, <4>2
    <3> QED BY <1>4, <2>11, <3>3, <3>4, <3>5
  <2> QED BY <1>6, <2>5, <2>10, <2>11, <2>13
<1> QED BY <1>8, <1>9 DEF StreamInv

\* A step of the stream.
LEMMA StreamStep == StreamSizes /\ StreamInv /\ [Ms!Next]_(Ms!vars) => StreamInv'
BY OpenStreamStep, MoveStreamStep, WriteStreamStep DEF Ms!Next

\* What a user of the stream sees.
LEMMA StreamPromises == StreamSizes /\ StreamInv => Ms!InBuffer /\ Ms!StreamIsFile
<1> SUFFICES ASSUME StreamSizes, StreamInv PROVE Ms!InBuffer /\ Ms!StreamIsFile
  OBVIOUS
<1>1. Ms!InBuffer
  BY DEF StreamInv, Places, StreamSizes, Ms!InBuffer
<1>2. ASSUME state = "open", {"READ", "WRITE"} \subseteq flags
      PROVE  Ms!Bytes(buf, vsize) = file /\ curpos = fpos
  <2>1. /\ file \in Seq(Nat) /\ Len(file) = vsize /\ curpos = fpos
        /\ \A k \in 1..vsize : file[k] = buf[k - 1]
    BY <1>2 DEF StreamInv, SameAsFile
  <2>2. /\ Ms!Bytes(buf, vsize) \in Seq(Nat) /\ Len(Ms!Bytes(buf, vsize)) = vsize
        /\ \A k \in 1..vsize : Ms!Bytes(buf, vsize)[k] = buf[k - 1]
    BY BytesSeq DEF StreamInv, Places
  <2> QED BY <2>1, <2>2, SeqEqual
<1> QED BY <1>1, <1>2 DEF Ms!StreamIsFile

\* A write to a stream that is not read leaves a null byte.
LEMMA TerminatedWrite == StreamSizes /\ StreamInv /\ [Ms!Next]_(Ms!vars) => Ms!TerminatedStep
<1> SUFFICES ASSUME StreamSizes, StreamInv, [Ms!Next]_(Ms!vars), buf' # buf, "READ" \notin flags
             PROVE  \E k \in DOMAIN buf' : buf'[k] = 0 /\ k >= curpos' - 1
  BY DEF Ms!TerminatedStep
<1>1. PICK d \in Data : Ms!mstream_write(d)
  BY DEF Ms!Next, Ms!fmemopen, Ms!mstream_close, Ms!Ended, Ms!vars, Ms!mstream_read, Ms!mstream_seek
<1>2. PICK place \in 0..vsize, nw \in 0..Len(d), zeros \in SUBSET (0..rsize - 1) : Written(d, place, nw, zeros)
  BY <1>1, WriteLeaves
<1>5. place \in Nat /\ nw \in Nat /\ place + nw <= rsize /\ rsize \in Nat \ {0}
  BY <1>2 DEF StreamInv, Places, StreamSizes, Written
<1>4. zeros = (IF place + nw > vsize THEN Ms!ZeroGrown(flags, place + nw) ELSE {})
                \union Ms!ZeroWriteOnly(flags, place + nw)
  BY <1>2 DEF Written
<1>6. \A k \in zeros : k \in DOMAIN buf' /\ buf'[k] = 0
  BY <1>2 DEF Written
<1>7. \E k \in zeros : k >= place + nw - 1
  BY <1>4, <1>5 DEF Ms!ZeroWriteOnly
<1>8. curpos' = place + nw
  BY <1>2 DEF Written
<1> QED BY <1>6, <1>7, <1>8

(***************************************************************************)
(* A memory stream of any size, after any reads, writes and seeks: nothing *)
(* is written outside the buffer, and a stream for reading and writing has *)
(* the bytes and the position of a file.                                   *)
(***************************************************************************)
THEOREM StreamTheorem == StreamSizes => (StreamSpec => [](Ms!InBuffer /\ Ms!StreamIsFile))
<1> SUFFICES ASSUME StreamSizes PROVE StreamSpec => [](Ms!InBuffer /\ Ms!StreamIsFile)
  OBVIOUS
<1>1. Ms!Init => StreamInv
  BY StreamInit
<1>2. StreamInv /\ [Ms!Next]_(Ms!vars) => StreamInv'
  BY StreamStep
<1>3. StreamInv => Ms!InBuffer /\ Ms!StreamIsFile
  BY StreamPromises
<1> QED BY <1>1, <1>2, <1>3, PTL DEF StreamSpec

\* See TerminatedWrite: what a write to a stream that is not read leaves.
THEOREM StreamEndTheorem == StreamSizes => (StreamSpec => Ms!Terminated)
<1> SUFFICES ASSUME StreamSizes PROVE StreamSpec => Ms!Terminated
  OBVIOUS
<1>1. Ms!Init => StreamInv
  BY StreamInit
<1>2. StreamInv /\ [Ms!Next]_(Ms!vars) => StreamInv'
  BY StreamStep
<1>3. StreamInv /\ [Ms!Next]_(Ms!vars) => [Ms!TerminatedStep]_(Ms!vars)
  BY TerminatedWrite
<1> QED BY <1>1, <1>2, <1>3, PTL DEF StreamSpec, Ms!Terminated
-----------------------------------------------------------------------------
(***************************************************************************)
(* The walk of filedir/ftw8.c, with any tree.  The buffer that path_alloc  *)
(* returns has room for more than one name.                                *)
(***************************************************************************)
CONSTANTS MaxNode, NAME_MAX, PATH_MAX
VARIABLES xprog, par, dirs, shut, gone, xst, stack, path, slash, pathlen, start, visits, nfiles, ndir,
          list, tail, todo, ddp, dev, xcalls, found, lost
Wk == INSTANCE TreeWalk WITH prog <- xprog, st <- xst, calls <- xcalls

WalkSizes == MaxNode \in Nat \ {0} /\ NAME_MAX \in Nat \ {0} /\ PATH_MAX \in Nat /\ NAME_MAX < PATH_MAX
WalkSpec == Wk!Init /\ [][Wk!Next]_(Wk!vars)

\* The bytes of a name in the buffer beyond its first: k is its place, x the file.
Beyond(k, x) == IF k > 1 /\ x = MaxNode THEN NAME_MAX - 1 ELSE 0
\* Room for another name after the k-th.
HasRoom(k) == start + 2 * (k - 1) + NAME_MAX + 2 <= pathlen

WalkTypes ==
  /\ par \in [2..MaxNode -> 1..MaxNode] /\ \A x \in 2..MaxNode : par[x] < x
  /\ start \in Nat \ {0} /\ pathlen \in Nat /\ slash \in BOOLEAN
  /\ path \in Seq(1..MaxNode) /\ stack \in Seq([n : Nat, todo : SUBSET (2..MaxNode)])
  /\ xprog \in {"ftw", "tty"} /\ xst \in {"start", "search", "clean", "visit", "open", "read", "done"}
WalkPlaces ==
  /\ (xprog = "tty") = (xst \in {"search", "clean"}) \/ xst = "start"
  /\ xprog = "tty" \/ xst = "start" => path = <<>> /\ stack = <<>>
  /\ xst \in {"visit", "open"} => Len(path) = Len(stack) + 1
  /\ xprog = "tty" \/ xst \in {"start", "visit"} => slash = FALSE
  /\ xst = "read" => stack # <<>> /\ Len(path) \in {Len(stack), Len(stack) + 1}
  /\ xst = "done" => path # <<>> /\ stack = <<>>
\* The names in the buffer lead to the file from the start.
WalkChain ==
  path # <<>> => path[1] = 1 /\ \A k \in 2..Len(path) : path[k] \in 2..MaxNode /\ par[path[k]] = path[k - 1]
WalkFrames ==
  \A k \in 1..Len(stack) :
    /\ stack[k].n = k /\ HasRoom(k)
    /\ \A c \in stack[k].todo : c \in 2..MaxNode /\ par[c] = path[k]
WalkFits ==
  path # <<>> =>
    /\ NAME_MAX < pathlen
    /\ start + 2 * (Len(path) - 1) + Beyond(Len(path), path[Len(path)]) + (IF slash THEN 1 ELSE 0) + 1 <= pathlen
    /\ xst = "open" => HasRoom(Len(path))
WalkInv == WalkTypes /\ WalkPlaces /\ WalkChain /\ WalkFrames /\ WalkFits

\* Nothing is in the buffer at first.
LEMMA WalkInit == WalkSizes /\ Wk!Init => WalkInv
<1> SUFFICES ASSUME WalkSizes, Wk!Init PROVE WalkInv
  OBVIOUS
<1>1. WalkTypes
  <2>1. start \in Nat \ {0}
    BY DEF Wk!Init, WalkSizes
  <2>2. par \in [2..MaxNode -> 1..MaxNode] /\ \A x \in 2..MaxNode : par[x] < x
    BY DEF Wk!Init, Wk!Node
  <2>3. <<>> \in Seq([n : Nat, todo : SUBSET (2..MaxNode)]) /\ <<>> \in Seq(1..MaxNode)
    OBVIOUS
  <2>4. slash \in BOOLEAN
    BY DEF Wk!Init
  <2> QED BY <2>1, <2>2, <2>3, <2>4 DEF Wk!Init, WalkTypes
<1> QED BY <1>1 DEF Wk!Init, WalkInv, WalkPlaces, WalkChain, WalkFrames, WalkFits

\* Only the last name of the buffer can be the last node's, for it is nobody's parent.
LEMMA LongName ==
  ASSUME WalkSizes, WalkTypes, WalkChain, path # <<>>
  PROVE  Wk!strlen = start + 2 * (Len(path) - 1) + Beyond(Len(path), path[Len(path)]) + (IF slash THEN 1 ELSE 0)
<1> DEFINE S == {k \in 2..Len(path) : path[k] = MaxNode}
<1>1. PICK l \in Nat : l = Len(path)
  BY DEF WalkTypes
<1>2. ASSUME NEW k \in 2..l - 1 PROVE path[k] # MaxNode
  <2>1. k + 1 \in 2..Len(path) /\ (k + 1) - 1 = k
    BY <1>1
  <2>2. path[k + 1] \in 2..MaxNode /\ par[path[k + 1]] = path[k]
    BY <2>1 DEF WalkChain
  <2>3. par[path[k + 1]] < path[k + 1]
    BY <2>2 DEF WalkTypes
  <2> QED BY <2>2, <2>3 DEF WalkSizes, WalkTypes
<1>3. Wk!Longs = IF l > 1 /\ path[l] = MaxNode THEN 1 ELSE 0
  <2>1. Wk!Longs = Cardinality(S)
    BY DEF Wk!Longs, Wk!Cardinality, Cardinality, Wk!IsFiniteSet, IsFiniteSet
  <2>2. CASE l > 1 /\ path[l] = MaxNode
    <3>1. S = {l}
      BY <1>1, <1>2, <2>2
    <3> QED BY <2>1, <2>2, <3>1, FS_Singleton
  <2>3. CASE ~(l > 1 /\ path[l] = MaxNode)
    <3>1. S = {}
      BY <1>1, <1>2, <2>3
    <3> QED BY <2>1, <2>3, <3>1, FS_EmptySet
  <2> QED BY <2>2, <2>3
<1> HIDE DEF S
<1>4. (NAME_MAX - 1) * Wk!Longs = Beyond(l, path[l])
  <2>1. (NAME_MAX - 1) * 1 = NAME_MAX - 1 /\ (NAME_MAX - 1) * 0 = 0
    BY DEF WalkSizes
  <2> QED BY <1>3, <2>1 DEF Beyond
<1> QED BY <1>1, <1>4 DEF Wk!strlen

\* The bytes beyond the first are at most these.
LEMMA BeyondAtMost ==
  ASSUME WalkSizes, NEW k \in Nat, NEW x
  PROVE  Beyond(k, x) \in Nat /\ Beyond(k, x) <= NAME_MAX - 1
BY DEF WalkSizes, Beyond

\* myftw: the start is in the buffer.
LEMMA StartStep == ASSUME WalkSizes, WalkInv, Wk!myftw PROVE WalkInv'
<1>1. /\ xprog = "ftw" /\ xst = "start" /\ xst' = "visit" /\ path' = <<1>> /\ stack = <<>>
      /\ UNCHANGED <<par, start, slash, stack, xprog>>
  BY DEF Wk!myftw, Wk!treevars, WalkInv, WalkPlaces
<1>2. PICK sz \in Nat : NAME_MAX < sz /\ pathlen' = IF sz <= start THEN 2 * start ELSE sz
  BY DEF Wk!myftw, Wk!path_alloc, WalkSizes
<1>3. start \in Nat \ {0} /\ NAME_MAX \in Nat
  BY DEF WalkInv, WalkTypes, WalkSizes
<1>4. pathlen' \in Nat /\ NAME_MAX < pathlen' /\ start + 1 <= pathlen'
  BY <1>2, <1>3
<1>5. path' \in Seq(1..MaxNode) /\ Len(path') = 1 /\ path'[1] = 1
  BY <1>1 DEF WalkSizes
<1>6. slash = FALSE
  BY DEF WalkInv, WalkPlaces, Wk!myftw
<1>7. WalkTypes'
  BY <1>1, <1>4, <1>5 DEF WalkInv, WalkTypes
<1>8. WalkPlaces' /\ WalkChain' /\ WalkFrames'
  BY <1>1, <1>5, <1>6 DEF WalkInv, WalkPlaces, WalkChain, WalkFrames
<1>9. WalkFits'
  BY <1>1, <1>3, <1>4, <1>5, <1>6 DEF WalkFits, Beyond
<1> QED BY <1>7, <1>8, <1>9 DEF WalkInv

\* dopath: a directory's name gets its slash, and room for a name after it.
LEMMA DopathStep == ASSUME WalkSizes, WalkInv, Wk!dopath PROVE WalkInv'
<1>1. /\ xst = "visit" /\ UNCHANGED <<par, start, path, stack, xprog>> /\ slash = FALSE
      /\ xprog = "ftw" /\ Len(path) = Len(stack) + 1
  BY DEF Wk!dopath, Wk!treevars, WalkInv, WalkTypes, WalkPlaces
<1>2. PICK m \in Nat : m = Len(stack)
  BY DEF WalkInv, WalkTypes
<1>3. path # <<>> /\ Len(path) = m + 1 /\ (m = 0 => stack = <<>>) /\ (m # 0 => stack # <<>>)
  BY <1>1, <1>2 DEF WalkInv, WalkTypes
<1>4. PICK more \in Nat : more = Beyond(m + 1, path[m + 1]) /\ more <= NAME_MAX - 1
  BY <1>2, BeyondAtMost
<1>5. Wk!strlen = start + 2 * m + more
  <2>1. Wk!strlen = start + 2 * (Len(path) - 1) + Beyond(Len(path), path[Len(path)]) + (IF slash THEN 1 ELSE 0)
    BY <1>3, LongName DEF WalkInv
  <2> QED BY <1>1, <1>2, <1>3, <1>4, <2>1 DEF WalkInv, WalkTypes
<1>6. /\ start \in Nat \ {0} /\ pathlen \in Nat /\ NAME_MAX \in Nat \ {0} /\ NAME_MAX < pathlen
      /\ start + 2 * m + more + 1 <= pathlen
  BY <1>1, <1>2, <1>3, <1>4 DEF WalkInv, WalkTypes, WalkSizes, WalkFits
<1>7. CASE xst' = "open"
  <2>1. slash' = TRUE /\ pathlen' = IF start + 2 * m + more + NAME_MAX + 2 > pathlen THEN 2 * pathlen ELSE pathlen
    BY <1>1, <1>5, <1>7 DEF Wk!dopath, Wk!Return, Wk!Grow
  <2>2. /\ pathlen' \in Nat /\ pathlen <= pathlen' /\ start + 2 * m + NAME_MAX + 2 <= pathlen'
        /\ start + 2 * m + more + 1 + 1 <= pathlen'
    <3>1. PICK a \in Nat, b \in Nat, w \in Nat : a = start + 2 * m /\ b = pathlen /\ w = NAME_MAX /\ w # 0
      BY <1>6
    <3>2. w < b /\ a + more + 1 <= b
      BY <1>6, <3>1
    <3>3. pathlen' = IF a + more + w + 2 > b THEN 2 * b ELSE b
      BY <2>1, <3>1
    <3>4. CASE a + more + w + 2 > b
      <4>1. pathlen' = 2 * b
        BY <3>3, <3>4
      <4>2. 2 * b \in Nat /\ b <= 2 * b /\ a + w + 2 <= 2 * b /\ a + more + 1 + 1 <= 2 * b
        BY <3>2
      <4> QED BY <3>1, <4>1, <4>2
    <3>5. CASE ~(a + more + w + 2 > b)
      <4>1. pathlen' = b
        BY <3>3, <3>5
      <4>2. a + w + 2 <= b /\ a + more + 1 + 1 <= b
        BY <3>1, <3>5
      <4> QED BY <3>1, <4>1, <4>2
    <3> QED BY <3>4, <3>5
  <2>3. WalkTypes'
    BY <1>1, <1>7, <2>1, <2>2 DEF WalkInv, WalkTypes
  <2>4. WalkPlaces' /\ WalkChain'
    BY <1>1, <1>7, <2>1 DEF WalkInv, WalkPlaces, WalkChain
  <2>5. WalkFrames'
    <3> SUFFICES ASSUME NEW k \in 1..m PROVE start + 2 * (k - 1) + NAME_MAX + 2 <= pathlen'
      BY <1>1, <1>2 DEF WalkInv, WalkFrames, HasRoom
    <3> QED BY <1>2, <1>6, <2>2
  <2>6. WalkFits'
    BY <1>1, <1>2, <1>3, <1>4, <1>6, <1>7, <2>1, <2>2 DEF WalkFits, HasRoom, Beyond
  <2> QED BY <2>3, <2>4, <2>5, <2>6 DEF WalkInv
<1>8. CASE xst' # "open"
  <2>1. xst' = (IF stack = <<>> THEN "done" ELSE "read") /\ pathlen' = pathlen /\ slash' = slash
    BY <1>8 DEF Wk!dopath, Wk!Return
  <2>2. WalkTypes' /\ WalkPlaces' /\ WalkChain' /\ WalkFrames' /\ WalkFits'
    BY <1>1, <1>3, <1>8, <2>1 DEF WalkInv, WalkTypes, WalkPlaces, WalkChain, WalkFrames, WalkFits, HasRoom, Beyond
  <2> QED BY <2>2 DEF WalkInv
<1> QED BY <1>7, <1>8

\* opendir: a call that reads the directory, or none.
LEMMA OpendirStep == ASSUME WalkSizes, WalkInv, Wk!opendir PROVE WalkInv'
<1>1. /\ xst = "open" /\ UNCHANGED <<par, start, path, slash, pathlen, xprog>>
      /\ xprog = "ftw" /\ Len(path) = Len(stack) + 1
  BY DEF Wk!opendir, Wk!treevars, WalkInv, WalkTypes, WalkPlaces
<1>2. PICK m \in Nat : m = Len(stack)
  BY DEF WalkInv, WalkTypes
<1>3. path # <<>> /\ Len(path) = m + 1 /\ stack \in Seq([n : Nat, todo : SUBSET (2..MaxNode)])
  BY <1>1, <1>2 DEF WalkInv, WalkTypes
<1>4. CASE stack' = stack
  <2>1. xst' = (IF stack = <<>> THEN "done" ELSE "read")
    BY <1>1, <1>2, <1>3, <1>4 DEF Wk!opendir, Wk!Return, Wk!CannotRead
  <2>2. WalkTypes' /\ WalkPlaces' /\ WalkChain' /\ WalkFrames' /\ WalkFits'
    BY <1>1, <1>3, <1>4, <2>1 DEF WalkInv, WalkTypes, WalkPlaces, WalkChain, WalkFrames, WalkFits, HasRoom, Beyond
  <2> QED BY <2>2 DEF WalkInv
<1>5. CASE stack' # stack
  <2>1. PICK f : f = [n |-> Len(path), todo |-> Wk!Children(path[Len(path)]) \ gone]
    OBVIOUS
  <2>2. xst' = "read" /\ stack' = Append(stack, f)
    BY <1>5, <2>1 DEF Wk!opendir, Wk!Top, Wk!CannotRead
  <2>3. f \in [n : Nat, todo : SUBSET (2..MaxNode)] /\ f.n = m + 1
        /\ \A c \in f.todo : c \in 2..MaxNode /\ par[c] = path[m + 1]
    BY <1>3, <2>1 DEF Wk!Children
  <2>4. /\ stack' \in Seq([n : Nat, todo : SUBSET (2..MaxNode)]) /\ Len(stack') = m + 1
        /\ stack'[m + 1] = f /\ \A k \in 1..m : stack'[k] = stack[k]
    BY <1>2, <1>3, <2>2, <2>3
  <2>5. WalkTypes' /\ WalkChain' /\ WalkFits'
    BY <1>1, <2>2, <2>4 DEF WalkInv, WalkTypes, WalkChain, WalkFits, Beyond, HasRoom
  <2>6. WalkPlaces'
    BY <1>1, <1>2, <1>3, <2>2, <2>4 DEF WalkInv, WalkPlaces
  <2>7. HasRoom(m + 1)'
    BY <1>1, <1>3 DEF WalkInv, WalkFits, HasRoom
  <2>8. WalkFrames'
    <3> SUFFICES ASSUME NEW k \in 1..m + 1
                 PROVE  /\ stack'[k].n = k /\ HasRoom(k)'
                        /\ \A c \in stack'[k].todo : c \in 2..MaxNode /\ par[c] = path[k]
      BY <1>1, <2>4 DEF WalkFrames
    <3>1. CASE k = m + 1
      BY <2>3, <2>4, <2>7, <3>1
    <3>2. CASE k \in 1..m
      BY <1>1, <1>2, <2>4, <3>2 DEF WalkInv, WalkFrames, HasRoom
    <3> QED BY <1>2, <3>1, <3>2
  <2> QED BY <2>5, <2>6, <2>8 DEF WalkInv
<1> QED BY <1>4, <1>5

\* The names before the k-th, and after them c or nothing.
LEMMA FirstNames ==
  ASSUME WalkTypes, NEW m \in 1..Len(path)
  PROVE  /\ SubSeq(path, 1, m) \in Seq(1..MaxNode) /\ Len(SubSeq(path, 1, m)) = m
         /\ \A k \in 1..m : SubSeq(path, 1, m)[k] = path[k]
<1>1. path \in Seq(1..MaxNode) /\ Len(path) \in Nat
  BY DEF WalkTypes
<1>2. m \in 0..Len(path)
  BY <1>1
<1> QED BY <1>1, <1>2, FirstOf

\* readdir: the next name, after the slash of its directory.
LEMMA ReaddirStep == ASSUME WalkSizes, WalkInv, Wk!readdir PROVE WalkInv'
<1>1. /\ xst = "read" /\ UNCHANGED <<par, start, pathlen, xprog>> /\ xprog = "ftw" /\ slash' = FALSE
      /\ stack # <<>> /\ Len(path) \in {Len(stack), Len(stack) + 1} /\ xst' = "visit"
  BY DEF Wk!readdir, Wk!treevars, WalkInv, WalkPlaces
<1>2. PICK m \in Nat \ {0} : m = Len(stack) /\ m \in 1..Len(path)
  BY <1>1 DEF WalkInv, WalkTypes
<1>3. /\ stack \in Seq([n : Nat, todo : SUBSET (2..MaxNode)]) /\ stack[m].n = m /\ stack[m].todo \subseteq 2..MaxNode
      /\ HasRoom(m)
  BY <1>2 DEF WalkInv, WalkTypes, WalkFrames
<1>4. PICK c \in stack[m].todo :
        /\ stack' = [stack EXCEPT ![m].todo = @ \ {c}]
        /\ path' = Append(SubSeq(path, 1, m), c)
  BY <1>2, <1>3 DEF Wk!readdir, Wk!Frame, Wk!NamePath
<1>5. c \in 2..MaxNode /\ par[c] = path[m]
  BY <1>2, <1>3 DEF WalkInv, WalkFrames
<1>6. PICK front \in Seq(1..MaxNode) : front = SubSeq(path, 1, m) /\ Len(front) = m /\ \A k \in 1..m : front[k] = path[k]
  BY <1>2, FirstNames DEF WalkInv
<1>7. /\ path' \in Seq(1..MaxNode) /\ Len(path') = m + 1 /\ path'[m + 1] = c /\ path' # <<>>
      /\ \A k \in 1..m : path'[k] = path[k]
  <2>1. c \in 1..MaxNode
    BY <1>5
  <2>2. path' = Append(front, c)
    BY <1>4, <1>6
  <2> QED BY <1>6, <2>1, <2>2
<1>8. /\ stack' \in Seq([n : Nat, todo : SUBSET (2..MaxNode)]) /\ Len(stack') = m
      /\ \A k \in 1..m : stack'[k].n = stack[k].n /\ stack'[k].todo \subseteq stack[k].todo
  <2>1. PICK f : f = [stack[m] EXCEPT !.todo = @ \ {c}]
    OBVIOUS
  <2>2. stack[m] \in [n : Nat, todo : SUBSET (2..MaxNode)]
    <3>1. m \in 1..Len(stack)
      BY <1>2
    <3> QED BY <1>3, <3>1, ElementOfSeq
  <2>3. f \in [n : Nat, todo : SUBSET (2..MaxNode)] /\ f.n = stack[m].n /\ f.todo \subseteq stack[m].todo
    BY <2>1, <2>2
  <2>4. stack' = [stack EXCEPT ![m] = f]
    BY <1>4, <2>1
  <2> QED BY <1>2, <1>3, <2>3, <2>4
<1>9. WalkTypes' /\ WalkPlaces'
  <2>1. WalkTypes'
    BY <1>1, <1>7, <1>8 DEF WalkInv, WalkTypes
  <2> QED BY <1>1, <1>2, <1>7, <1>8, <2>1 DEF WalkPlaces
<1>10. WalkChain'
  <2>1. path # <<>> /\ path[1] = 1 /\ \A k \in 2..Len(path) : path[k] \in 2..MaxNode /\ par[path[k]] = path[k - 1]
    BY <1>2 DEF WalkInv, WalkChain
  <2>2. path'[1] = 1
    BY <1>2, <1>7, <2>1
  <2>3. ASSUME NEW k \in 2..m + 1 PROVE path'[k] \in 2..MaxNode /\ par[path'[k]] = path'[k - 1]
    <3>1. CASE k = m + 1
      <4>1. k - 1 = m /\ m \in 1..m
        BY <1>2, <3>1
      <4> QED BY <1>5, <1>7, <3>1, <4>1
    <3>2. CASE k \in 2..m
      <4>1. k - 1 \in 1..m /\ k \in 1..m /\ k \in 2..Len(path)
        BY <1>2, <3>2
      <4> QED BY <1>7, <2>1, <4>1
    <3> QED BY <1>2, <3>1, <3>2
  <2> QED BY <1>1, <1>7, <2>2, <2>3 DEF WalkChain
<1>11. WalkFrames'
  BY <1>1, <1>2, <1>7, <1>8 DEF WalkInv, WalkFrames, HasRoom
<1>12. WalkFits'
  <2>1. PICK more \in Nat : more = Beyond(m + 1, c) /\ more <= NAME_MAX - 1
    BY <1>2, BeyondAtMost
  <2>2. start + 2 * (m - 1) + NAME_MAX + 2 <= pathlen
    BY <1>3 DEF HasRoom
  <2>3. start + 2 * m + more + 1 <= pathlen
    <3>1. start \in Nat /\ pathlen \in Nat /\ NAME_MAX \in Nat
      BY DEF WalkInv, WalkTypes, WalkSizes
    <3>2. start + 2 * (m - 1) = start + 2 * m - 2
      BY <1>2, <3>1
    <3> QED BY <1>2, <2>1, <2>2, <3>1, <3>2
  <2>4. NAME_MAX < pathlen
    BY <1>2 DEF WalkInv, WalkFits, WalkTypes
  <2> QED BY <1>1, <1>2, <1>7, <2>1, <2>3, <2>4 DEF WalkFits, Beyond, WalkInv, WalkTypes
<1> QED BY <1>9, <1>10, <1>11, <1>12 DEF WalkInv

\* closedir: back to the call that named the directory.
LEMMA ClosedirStep == ASSUME WalkSizes, WalkInv, Wk!closedir PROVE WalkInv'
<1>1. /\ xst = "read" /\ UNCHANGED <<par, start, pathlen, xprog>> /\ xprog = "ftw" /\ slash' = FALSE
      /\ stack # <<>> /\ Len(path) \in {Len(stack), Len(stack) + 1}
  BY DEF Wk!closedir, Wk!treevars, WalkInv, WalkPlaces
<1>2. PICK m \in Nat \ {0} : m = Len(stack) /\ m \in 1..Len(path)
  BY <1>1 DEF WalkInv, WalkTypes
<1>3. stack \in Seq([n : Nat, todo : SUBSET (2..MaxNode)]) /\ stack[m].n = m /\ HasRoom(m)
  BY <1>2 DEF WalkInv, WalkTypes, WalkFrames
<1>4. /\ path' = SubSeq(path, 1, m) /\ stack' = SubSeq(stack, 1, m - 1)
      /\ xst' = IF m = 1 THEN "done" ELSE "read"
  BY <1>2, <1>3 DEF Wk!closedir, Wk!Frame
<1>5. path' \in Seq(1..MaxNode) /\ Len(path') = m /\ path' # <<>> /\ \A k \in 1..m : path'[k] = path[k]
  <2>1. path' \in Seq(1..MaxNode) /\ Len(path') = m /\ \A k \in 1..m : path'[k] = path[k]
    BY <1>2, <1>4, FirstNames DEF WalkInv
  <2> QED BY <1>2, <2>1
<1>6. /\ stack' \in Seq([n : Nat, todo : SUBSET (2..MaxNode)]) /\ Len(stack') = m - 1
      /\ \A k \in 1..m - 1 : stack'[k] = stack[k]
  <2>1. m - 1 \in 0..Len(stack)
    BY <1>2
  <2> QED BY <1>3, <1>4, <2>1, FirstOf
<1>7. (m = 1 => stack' = <<>>) /\ (m # 1 => stack' # <<>>)
  BY <1>2, <1>6
<1>8. WalkTypes' /\ WalkPlaces'
  <2>1. WalkTypes'
    BY <1>1, <1>4, <1>5, <1>6 DEF WalkInv, WalkTypes
  <2> QED BY <1>1, <1>2, <1>4, <1>5, <1>6, <1>7, <2>1 DEF WalkPlaces
<1>9. WalkChain'
  <2>1. path # <<>> /\ path[1] = 1 /\ \A k \in 2..Len(path) : path[k] \in 2..MaxNode /\ par[path[k]] = path[k - 1]
    BY <1>2 DEF WalkInv, WalkChain
  <2>2. ASSUME NEW k \in 2..m PROVE path'[k] \in 2..MaxNode /\ par[path'[k]] = path'[k - 1]
    <3>1. k - 1 \in 1..m /\ k \in 1..m /\ k \in 2..Len(path)
      BY <1>2
    <3> QED BY <1>5, <2>1, <3>1
  <2> QED BY <1>1, <1>2, <1>5, <2>1, <2>2 DEF WalkChain
<1>10. WalkFrames'
  <2> SUFFICES ASSUME NEW k \in 1..m - 1
               PROVE  /\ stack'[k].n = k /\ HasRoom(k)'
                      /\ \A c \in stack'[k].todo : c \in 2..MaxNode /\ par[c] = path'[k]
    BY <1>1, <1>6 DEF WalkFrames
  <2>1. k \in 1..m /\ k \in 1..Len(stack)
    BY <1>2
  <2> QED BY <1>1, <1>5, <1>6, <2>1 DEF WalkInv, WalkFrames, HasRoom
<1>11. WalkFits'
  <2>1. PICK more \in Nat : more = Beyond(m, path[m]) /\ more <= NAME_MAX - 1
    BY <1>2, BeyondAtMost
  <2>2. start + 2 * (m - 1) + NAME_MAX + 2 <= pathlen
    BY <1>3 DEF HasRoom
  <2>3. start + 2 * (m - 1) + more + 1 <= pathlen
    BY <1>2, <2>1, <2>2 DEF WalkInv, WalkTypes, WalkSizes
  <2>4. NAME_MAX < pathlen
    BY <1>2 DEF WalkInv, WalkFits, WalkTypes
  <2>5. path'[m] = path[m]
    BY <1>2, <1>5
  <2> QED BY <1>1, <1>2, <1>4, <1>5, <2>1, <2>3, <2>4, <2>5 DEF WalkFits, Beyond, WalkInv, WalkTypes
<1> QED BY <1>8, <1>9, <1>10, <1>11 DEF WalkInv

\* Every other step leaves the buffer alone.
LEMMA OtherWalkStep ==
  ASSUME WalkSizes, WalkInv,
         \/ Wk!ttyname \/ Wk!searchdir \/ Wk!NextDir \/ Wk!cleanup
         \/ (\E x \in Wk!Node : Wk!Remove(x)) \/ Wk!Ended \/ UNCHANGED Wk!vars
  PROVE  WalkInv'
<1>1. UNCHANGED <<par, start, pathlen, xprog, slash, path, stack>>
  BY DEF Wk!ttyname, Wk!searchdir, Wk!NextDir, Wk!cleanup, Wk!Remove, Wk!Ended, Wk!vars, Wk!treevars, Wk!ftwvars
<1>2. xst' = xst \/ (xprog = "tty" /\ xst' \in {"start", "search", "clean"})
  BY DEF Wk!ttyname, Wk!searchdir, Wk!NextDir, Wk!cleanup, Wk!Remove, Wk!Ended, Wk!vars, WalkInv, WalkPlaces, WalkTypes
<1>3. WalkTypes' /\ WalkPlaces'
  BY <1>1, <1>2 DEF WalkInv, WalkTypes, WalkPlaces
<1>4. WalkChain' /\ WalkFrames' /\ WalkFits'
  BY <1>1, <1>2 DEF WalkInv, WalkChain, WalkFrames, WalkFits, HasRoom, Beyond
<1> QED BY <1>3, <1>4 DEF WalkInv

\* A step of the walk.
LEMMA WalkStep == WalkSizes /\ WalkInv /\ [Wk!Next]_(Wk!vars) => WalkInv'
BY StartStep, DopathStep, OpendirStep, ReaddirStep, ClosedirStep, OtherWalkStep DEF Wk!Next

\* What the buffer holds.
LEMMA WalkPromises == WalkSizes /\ WalkInv => Wk!PathFits /\ Wk!PathRight
<1> SUFFICES ASSUME WalkSizes, WalkInv PROVE Wk!PathFits /\ Wk!PathRight
  OBVIOUS
<1>1. Wk!PathFits
  BY LongName DEF WalkInv, WalkFits, Wk!PathFits
<1>2. Wk!PathRight
  <2> SUFFICES ASSUME xst = "visit"
               PROVE  path[1] = 1 /\ \A k \in 2..Len(path) : par[path[k]] = path[k - 1]
    BY DEF Wk!PathRight
  <2>1. Len(path) = Len(stack) + 1 /\ path # <<>>
    BY DEF WalkInv, WalkPlaces, WalkTypes
  <2> QED BY <2>1 DEF WalkInv, WalkChain
<1> QED BY <1>1, <1>2

(***************************************************************************)
(* The buffer of filedir/ftw8.c holds the path and its null byte, with a   *)
(* tree of any size and depth, any directories that cannot be read and     *)
(* files removed meanwhile, and it names the file that func is called for. *)
(***************************************************************************)
THEOREM WalkTheorem == WalkSizes => (WalkSpec => [](Wk!PathFits /\ Wk!PathRight))
<1> SUFFICES ASSUME WalkSizes PROVE WalkSpec => [](Wk!PathFits /\ Wk!PathRight)
  OBVIOUS
<1>1. Wk!Init => WalkInv
  BY WalkInit
<1>2. WalkInv /\ [Wk!Next]_(Wk!vars) => WalkInv'
  BY WalkStep
<1>3. WalkInv => Wk!PathFits /\ Wk!PathRight
  BY WalkPromises
<1> QED BY <1>1, <1>2, <1>3, PTL DEF WalkSpec
=============================================================================
