---------------------------- MODULE ApueDbProofs ----------------------------
(***************************************************************************)
(* Proofs about the database library, for any number of processes, keys,   *)
(* hash chains and calls: processes are never together where a lock should *)
(* keep them apart; every offset the library keeps points into the file it *)
(* is about, records are appended at the end, and one that is overwritten  *)
(* keeps its size.                                                         *)
(***************************************************************************)
EXTENDS ApueDbInv, TLAPS

\* The regions that are locked separately do not overlap.
LEMMA Regions ==
  /\ FREE_OFF \in Region /\ IdxTail \in Region /\ DatFile \in Region
  /\ \A k \in Key : /\ Hash[k] \in Region /\ Hash[k] # FREE_OFF
                    /\ Hash[k] # IdxTail /\ Hash[k] # DatFile
  /\ FREE_OFF # IdxTail /\ FREE_OFF # DatFile /\ IdxTail # DatFile
BY SizeAssumption, ArgAssumption DEF FREE_OFF, IdxTail, DatFile, FirstRec, Region

\* What a step of p has to show: the others keep their control points, their
\* arguments and the locks they hold.
LEMMA StepKeepsControl ==
  ASSUME ControlInv, NEW p \in Proc,
         ControlType', CallOK(p)', Exclusive',
         p \in alive' => HoldsLocks(p)', alive' \subseteq alive,
         \A q \in Proc \ {p} :
           /\ pc'[q] = pc[q] /\ call'[q] = call[q]
           /\ \A r \in Region : /\ q \in rlock[r] => q \in rlock'[r]
                                /\ q \in wlock[r] => q \in wlock'[r]
  PROVE  ControlInv'
<1>1. ASSUME NEW q \in Proc, q # p PROVE CallOK(q)'
  BY <1>1 DEF ControlInv, CallOK
<1>2. ASSUME NEW q \in alive', q # p PROVE HoldsLocks(q)'
  <2>1. q \in Proc /\ CallOK(q) /\ HoldsLocks(q)
    BY <1>2 DEF ControlInv, ControlType
  <2>2. /\ pc'[q] = pc[q] /\ call'[q] = call[q] /\ Chain(q)' = Chain(q)
        /\ \A r \in Region : /\ q \in rlock[r] => q \in rlock'[r]
                             /\ q \in wlock[r] => q \in wlock'[r]
    BY <1>2, <2>1 DEF Chain
  <2>3. pc[q] \in ChainPC => Chain(q) \in Region
    BY <2>1, Regions DEF CallOK, Chain, KeyedPC
  <2>. QED BY <2>1, <2>2, <2>3, Regions DEF HoldsLocks
<1>. QED BY <1>1, <1>2 DEF ControlInv

\* Locks: a lock that is granted conflicts with none, one that is released
\* is no longer held, and the locks of others stay.
LEMMA Granted ==
  ASSUME ControlInv, NEW p \in Proc, NEW r \in Region,
         ReadLock(p, r) \/ WriteLock(p, r)
  PROVE  /\ rlock' \in [Region -> SUBSET Proc] /\ wlock' \in [Region -> SUBSET Proc]
         /\ Exclusive'
         /\ \A s \in Region : rlock[s] \subseteq rlock'[s] /\ wlock[s] \subseteq wlock'[s]
         /\ ReadLock(p, r) => p \in rlock'[r]
         /\ WriteLock(p, r) => p \in wlock'[r]
BY DEF ControlInv, ControlType, Exclusive, ReadLock, WriteLock

LEMMA Released ==
  ASSUME ControlInv, NEW p \in Proc, NEW r \in Region, UnLock(p, r)
  PROVE  /\ rlock' \in [Region -> SUBSET Proc] /\ wlock' \in [Region -> SUBSET Proc]
         /\ Exclusive'
         /\ \A s \in Region \ {r} : rlock'[s] = rlock[s] /\ wlock'[s] = wlock[s]
         /\ \A s \in Region, q \in Proc \ {p} :
              (q \in rlock[s] => q \in rlock'[s]) /\ (q \in wlock[s] => q \in wlock'[s])
BY DEF ControlInv, ControlType, Exclusive, UnLock

LEMMA AcquireKeepsControl ==
  ASSUME ControlInv, NEW p \in Proc, NEW r \in Region,
         ReadLock(p, r) \/ WriteLock(p, r),
         NEW from, NEW to \in Label, Transition(p, from, to),
         UNCHANGED <<call, alive, ncalls>>, CallOK(p)', HoldsLocks(p)'
  PROVE  ControlInv'
<1>1. ControlType' BY Granted DEF ControlInv, ControlType, Transition
<1>. QED BY <1>1, Granted, StepKeepsControl DEF ControlInv, ControlType, Transition

LEMMA ReleaseKeepsControl ==
  ASSUME ControlInv, NEW p \in Proc, NEW r \in Region, UnLock(p, r),
         NEW from, NEW to \in Label, Transition(p, from, to),
         UNCHANGED <<alive, ncalls>>, NEW c \in CallType,
         call' = [call EXCEPT ![p] = c], CallOK(p)', HoldsLocks(p)'
  PROVE  ControlInv'
<1>1. ControlType' BY Released DEF ControlInv, ControlType, Transition
<1>. QED BY <1>1, Released, StepKeepsControl DEF ControlInv, ControlType, Transition

LEMMA DeathKeepsControl ==
  ASSUME ControlInv, NEW p \in alive, Die(p), ncalls' \in 0..MaxCalls
  PROVE  ControlInv'
<1>1. p \in Proc BY DEF ControlInv, ControlType
<1>2. ControlType' /\ Exclusive'
  BY DEF ControlInv, ControlType, Exclusive, Die
<1>3. CallOK(p)' BY <1>1 DEF ControlInv, CallOK, Die
<1>. QED BY <1>1, <1>2, <1>3, StepKeepsControl DEF ControlInv, ControlType, Die

\* A process that may be at the label from, in a call of op, has what the
\* label to asks for.
Covers(from, to, op) ==
  /\ to \in Label
  /\ to \in KeyedPC => from \in KeyedPC
  /\ to \in StorePC => from \in StorePC \/ op = "store"
  /\ to \in DelPC => from \in DelPC \/ op \in {"delete", "store"}
  /\ to \in ChainPC => from \in ChainPC
  /\ to \in FreePC => from \in FreePC
  /\ to \in ScanPC => from \in ScanPC
  /\ to \in DatPC => from \in DatPC
  /\ to \in IdxPC => from \in IdxPC

\* A step of p that leaves locks and arguments alone keeps the control
\* invariant if p holds already what its new label asks for.
LEMMA MoveKeepsControl ==
  ASSUME ControlInv, NEW p \in Proc, NEW from, NEW to,
         Transition(p, from, to), Covers(from, to, call[p].op),
         UNCHANGED <<rlock, wlock, call, alive, ncalls>>
  PROVE  ControlInv'
<1>1. /\ pc \in [Proc -> Label] /\ p \in alive /\ pc[p] = from
      /\ pc' = [pc EXCEPT ![p] = to]
  BY DEF ControlInv, ControlType, Transition
<1>2. ControlType'
  BY <1>1 DEF ControlInv, ControlType, Covers
<1>3. ASSUME NEW q \in Proc PROVE CallOK(q)'
  BY <1>1, <1>3 DEF ControlInv, CallOK, Covers
<1>4. Exclusive'
  BY DEF ControlInv, Exclusive
<1>5. ASSUME NEW q \in alive' PROVE HoldsLocks(q)'
  <2>1. q \in Proc /\ q \in alive /\ HoldsLocks(q)
    BY <1>5 DEF ControlInv, ControlType
  <2>2. Chain(q)' = Chain(q)
    BY DEF Chain
  <2>. QED BY <1>1, <2>1, <2>2 DEF HoldsLocks, Covers
<1>. QED BY <1>2, <1>3, <1>4, <1>5 DEF ControlInv

(***************************************************************************)
(* The control half of the invariant: every action of the library keeps    *)
(* it, whatever the files hold.                                            *)
(***************************************************************************)
LEMMA FindKeepsControl ==
  ASSUME ControlInv, NEW p \in Proc, Find(p) PROVE ControlInv'
<1>1. CASE ReadChain(p)
  <2>1. Covers("read_chain", "walk", call[p].op)
    BY DEF Covers, KeyedPC, StorePC, DelPC, ChainPC, FreePC,
           ScanPC, DatPC, IdxPC, Label
  <2>. QED BY <1>1, <2>1, MoveKeepsControl DEF ReadChain, ReadStep
<1>2. CASE WalkNext(p)
  <2>1. Covers("walk", "walk", call[p].op)
    BY DEF Covers, KeyedPC, StorePC, DelPC, ChainPC, FreePC,
           ScanPC, DatPC, IdxPC, Label
  <2>. QED BY <1>2, <2>1, MoveKeepsControl DEF WalkNext, ReadStep
<1>3. CASE FetchDat(p)
  <2>1. Covers("read_dat", "unlock", call[p].op)
    BY DEF Covers, KeyedPC, StorePC, DelPC, ChainPC, FreePC,
           ScanPC, DatPC, IdxPC, Label
  <2>. QED BY <1>3, <2>1, MoveKeepsControl DEF FetchDat, ReadStep
<1>4. CASE LockChain(p)
  <2>1. /\ pc[p] = "lock_chain" /\ p \in alive
        /\ pc' = [pc EXCEPT ![p] = "read_chain"]
        /\ UNCHANGED <<call, alive, ncalls>>
    BY <1>4 DEF LockChain, Transition, LockStep
  <2>2. Chain(p) \in Region /\ Chain(p)' = Chain(p) /\ CallOK(p)
    BY <2>1, Regions DEF ControlInv, CallOK, Chain, KeyedPC
  <2>3. IF call[p].op = "fetch" THEN ReadLock(p, Chain(p)) ELSE WriteLock(p, Chain(p))
    BY <1>4 DEF LockChain
  <2>4. CallOK(p)'
    BY <2>1, <2>2 DEF ControlInv, ControlType, CallOK, KeyedPC, StorePC, DelPC, ChainPC
  <2>5. HoldsLocks(p)'
    BY <2>1, <2>2, <2>3, Granted
    DEF ControlInv, ControlType, HoldsLocks, FreePC, ScanPC, DatPC, IdxPC
  <2>6. Transition(p, "lock_chain", "read_chain") /\ "read_chain" \in Label
    BY <1>4 DEF LockChain, Label, ChainPC
  <2>. QED BY <2>1, <2>2, <2>3, <2>4, <2>5, <2>6, AcquireKeepsControl
<1>5. CASE WalkFound(p)
  <2>1. PICK to \in {"read_dat", "d_lock_free", "o_write_dat", "unlock"} :
          /\ Transition(p, "walk", to)
          /\ to = "d_lock_free" => call[p].op \in {"delete", "store"}
          /\ to = "o_write_dat" => call[p].op = "store"
    BY <1>5 DEF WalkFound
  <2>2. UNCHANGED <<rlock, wlock, call, alive, ncalls>>
    BY <1>5 DEF WalkFound, ReadStep
  <2>3. Covers("walk", to, call[p].op)
    BY <2>1 DEF Covers, KeyedPC, StorePC, DelPC, ChainPC, FreePC, ScanPC,
                DatPC, IdxPC, Label
  <2>. QED BY <2>1, <2>2, <2>3, MoveKeepsControl
<1>6. CASE WalkEnd(p)
  <2>1. PICK to \in {"s_read_chain", "unlock"} :
          /\ Transition(p, "walk", to)
          /\ to = "s_read_chain" => call[p].op = "store"
    BY <1>6 DEF WalkEnd
  <2>2. UNCHANGED <<rlock, wlock, call, alive, ncalls>>
    BY <1>6 DEF WalkEnd, ReadStep
  <2>3. Covers("walk", to, call[p].op)
    BY <2>1 DEF Covers, KeyedPC, StorePC, DelPC, ChainPC, FreePC, ScanPC,
                DatPC, IdxPC, Label
  <2>. QED BY <2>1, <2>2, <2>3, MoveKeepsControl
<1>7. CASE Unlock(p)
  <2>1. /\ pc[p] = "unlock" /\ p \in alive /\ pc' = [pc EXCEPT ![p] = "idle"]
        /\ UnLock(p, Chain(p)) /\ call' = [call EXCEPT ![p] = NoCall]
        /\ UNCHANGED <<alive, ncalls>>
    BY <1>7 DEF Unlock, Transition
  <2>2. Chain(p) \in Region
    BY <2>1, Regions DEF ControlInv, CallOK, Chain, KeyedPC, ChainPC
  <2>3. NoCall \in CallType BY DEF NoCall, Call, CallType
  <2>4. CallOK(p)' /\ HoldsLocks(p)'
    BY <2>1 DEF ControlInv, ControlType, CallOK, HoldsLocks, KeyedPC, StorePC,
                DelPC, ChainPC, FreePC, ScanPC, DatPC, IdxPC
  <2>5. Transition(p, "unlock", "idle") /\ "idle" \in Label
    BY <1>7 DEF Unlock, Label
  <2>. QED BY <2>1, <2>2, <2>3, <2>4, <2>5, ReleaseKeepsControl
<1>. QED BY <1>1, <1>2, <1>3, <1>4, <1>5, <1>6, <1>7 DEF Find

LEMMA DoDeleteKeepsControl ==
  ASSUME ControlInv, NEW p \in Proc, DoDelete(p) PROVE ControlInv'
<1>1. CASE DelWriteDat(p)
  <2>1. Covers("d_write_dat", "d_read_free", call[p].op)
    BY DEF Covers, KeyedPC, StorePC, DelPC, ChainPC, FreePC,
           ScanPC, DatPC, IdxPC, Label
  <2>. QED BY <1>1, <2>1, MoveKeepsControl DEF DelWriteDat, WriteDat
<1>2. CASE DelReadFree(p)
  <2>1. Covers("d_read_free", "d_write_idx", call[p].op)
    BY DEF Covers, KeyedPC, StorePC, DelPC, ChainPC, FreePC,
           ScanPC, DatPC, IdxPC, Label
  <2>. QED BY <1>2, <2>1, MoveKeepsControl DEF DelReadFree, ReadStep
<1>3. CASE DelWriteIdx(p)
  <2>1. Covers("d_write_idx", "d_write_free", call[p].op)
    BY DEF Covers, KeyedPC, StorePC, DelPC, ChainPC, FreePC,
           ScanPC, DatPC, IdxPC, Label
  <2>. QED BY <1>3, <2>1, MoveKeepsControl DEF DelWriteIdx, WriteIdx
<1>4. CASE DelWriteFree(p)
  <2>1. Covers("d_write_free", "d_write_ptr", call[p].op)
    BY DEF Covers, KeyedPC, StorePC, DelPC, ChainPC, FreePC,
           ScanPC, DatPC, IdxPC, Label
  <2>. QED BY <1>4, <2>1, MoveKeepsControl DEF DelWriteFree, WritePtr
<1>5. CASE DelWritePtr(p)
  <2>1. Covers("d_write_ptr", "d_unlock_free", call[p].op)
    BY DEF Covers, KeyedPC, StorePC, DelPC, ChainPC, FreePC,
           ScanPC, DatPC, IdxPC, Label
  <2>. QED BY <1>5, <2>1, MoveKeepsControl DEF DelWritePtr, WritePtr
<1>6. CASE DelLockFree(p)
  <2>1. /\ Transition(p, "d_lock_free", "d_write_dat") /\ WriteLock(p, FREE_OFF)
        /\ UNCHANGED <<call, alive, ncalls>>
    BY <1>6 DEF DelLockFree, LockStep
  <2>2. /\ "d_write_dat" \in Label /\ pc[p] = "d_lock_free" /\ p \in alive
        /\ pc'[p] = "d_write_dat" /\ Chain(p)' = Chain(p)
    BY <2>1 DEF Transition, Chain, ControlInv, ControlType, Label, ChainPC, ScanPC
  <2>3. CallOK(p)'
    BY <2>1, <2>2 DEF ControlInv, CallOK, KeyedPC, StorePC, DelPC, ChainPC
  <2>4. HoldsLocks(p)'
    BY <2>1, <2>2, Granted, Regions
    DEF ControlInv, CallOK, HoldsLocks, Chain, KeyedPC, StorePC, DelPC, ChainPC,
        FreePC, ScanPC, DatPC, IdxPC
  <2>. QED BY <2>1, <2>2, <2>3, <2>4, Regions, AcquireKeepsControl
<1>7. CASE DelUnlockFree(p)
  <2>1. PICK to \in {"unlock", "s_read_chain"} :
          /\ Transition(p, "d_unlock_free", to) /\ UnLock(p, FREE_OFF)
          /\ UNCHANGED <<call, alive, ncalls>>
          /\ to = "s_read_chain" => call[p].op # "delete"
    BY <1>7 DEF DelUnlockFree, LockStep
  <2>2. /\ to \in Label /\ pc[p] = "d_unlock_free" /\ p \in alive
        /\ pc'[p] = to /\ Chain(p)' = Chain(p)
        /\ call[p] \in CallType /\ call' = [call EXCEPT ![p] = call[p]]
    BY <2>1 DEF Transition, Chain, ControlInv, ControlType, Label, ChainPC
  <2>3. CallOK(p)'
    BY <2>1, <2>2 DEF ControlInv, CallOK, KeyedPC, StorePC, DelPC, ChainPC
  <2>4. HoldsLocks(p)'
    BY <2>1, <2>2, Released, Regions
    DEF ControlInv, CallOK, HoldsLocks, Chain, KeyedPC, StorePC, DelPC, ChainPC,
        FreePC, ScanPC, DatPC, IdxPC
  <2>. QED BY <2>1, <2>2, <2>3, <2>4, Regions, ReleaseKeepsControl
<1>. QED BY <1>1, <1>2, <1>3, <1>4, <1>5, <1>6, <1>7 DEF DoDelete

LEMMA FindFreeKeepsControl ==
  ASSUME ControlInv, NEW p \in Proc, FindFree(p) PROVE ControlInv'
<1>1. CASE FreeRead(p)
  <2>1. Covers("f_read", "f_walk", call[p].op)
    BY DEF Covers, KeyedPC, StorePC, DelPC, ChainPC, FreePC,
           ScanPC, DatPC, IdxPC, Label
  <2>. QED BY <1>1, <2>1, MoveKeepsControl DEF FreeRead, ReadStep
<1>2. CASE FreeUnlink(p)
  <2>1. Covers("f_unlink", "f_unlock", call[p].op)
    BY DEF Covers, KeyedPC, StorePC, DelPC, ChainPC, FreePC,
           ScanPC, DatPC, IdxPC, Label
  <2>. QED BY <1>2, <2>1, MoveKeepsControl DEF FreeUnlink, WritePtr
<1>3. CASE FreeLock(p)
  <2>1. /\ Transition(p, "f_lock", "f_read") /\ WriteLock(p, FREE_OFF)
        /\ UNCHANGED <<call, alive, ncalls>>
    BY <1>3 DEF FreeLock, LockStep
  <2>2. /\ "f_read" \in Label /\ pc[p] = "f_lock" /\ p \in alive
        /\ pc'[p] = "f_read" /\ Chain(p)' = Chain(p)
    BY <2>1 DEF Transition, Chain, ControlInv, ControlType, Label, ChainPC, ScanPC
  <2>3. CallOK(p)'
    BY <2>1, <2>2 DEF ControlInv, CallOK, KeyedPC, StorePC, DelPC, ChainPC
  <2>4. HoldsLocks(p)'
    BY <2>1, <2>2, Granted, Regions
    DEF ControlInv, CallOK, HoldsLocks, Chain, KeyedPC, StorePC, DelPC, ChainPC,
        FreePC, ScanPC, DatPC, IdxPC
  <2>. QED BY <2>1, <2>2, <2>3, <2>4, Regions, AcquireKeepsControl
<1>4. CASE FreeUnlock(p)
  <2>1. PICK to \in {"a_lock_dat", "r_write_dat"} :
          /\ Transition(p, "f_unlock", to) /\ UnLock(p, FREE_OFF)
          /\ UNCHANGED <<call, alive, ncalls>>
    BY <1>4 DEF FreeUnlock, LockStep
  <2>2. /\ to \in Label /\ pc[p] = "f_unlock" /\ p \in alive
        /\ pc'[p] = to /\ Chain(p)' = Chain(p)
        /\ call[p] \in CallType /\ call' = [call EXCEPT ![p] = call[p]]
    BY <2>1 DEF Transition, Chain, ControlInv, ControlType, Label, ChainPC
  <2>3. CallOK(p)'
    BY <2>1, <2>2 DEF ControlInv, CallOK, KeyedPC, StorePC, DelPC, ChainPC
  <2>4. HoldsLocks(p)'
    BY <2>1, <2>2, Released, Regions
    DEF ControlInv, CallOK, HoldsLocks, Chain, KeyedPC, StorePC, DelPC, ChainPC,
        FreePC, ScanPC, DatPC, IdxPC
  <2>. QED BY <2>1, <2>2, <2>3, <2>4, Regions, ReleaseKeepsControl
<1>5. CASE FreeWalk(p)
  <2>1. PICK to \in {"f_walk", "f_unlink", "f_unlock"} : Transition(p, "f_walk", to)
    BY <1>5 DEF FreeWalk
  <2>2. UNCHANGED <<rlock, wlock, call, alive, ncalls>>
    BY <1>5 DEF FreeWalk, ReadStep
  <2>3. Covers("f_walk", to, call[p].op)
    BY <2>1 DEF Covers, KeyedPC, StorePC, DelPC, ChainPC, FreePC,
                ScanPC, DatPC, IdxPC, Label
  <2>. QED BY <2>1, <2>2, <2>3, MoveKeepsControl
<1>. QED BY <1>1, <1>2, <1>3, <1>4, <1>5 DEF FindFree

LEMMA StoreNewKeepsControl ==
  ASSUME ControlInv, NEW p \in Proc, StoreNew(p) PROVE ControlInv'
<1>1. CASE ReuseWriteDat(p)
  <2>1. Covers("r_write_dat", "r_write_idx", call[p].op)
    BY DEF Covers, KeyedPC, StorePC, DelPC, ChainPC, FreePC,
           ScanPC, DatPC, IdxPC, Label
  <2>. QED BY <1>1, <2>1, MoveKeepsControl DEF ReuseWriteDat, WriteDat
<1>2. CASE ReuseWriteIdx(p)
  <2>1. Covers("r_write_idx", "s_write_chain", call[p].op)
    BY DEF Covers, KeyedPC, StorePC, DelPC, ChainPC, FreePC,
           ScanPC, DatPC, IdxPC, Label
  <2>. QED BY <1>2, <2>1, MoveKeepsControl DEF ReuseWriteIdx, StoreWriteIdx, WriteIdx
<1>3. CASE SeekDat(p)
  <2>1. Covers("a_seek_dat", "a_write_dat", call[p].op)
    BY DEF Covers, KeyedPC, StorePC, DelPC, ChainPC, FreePC,
           ScanPC, DatPC, IdxPC, Label
  <2>. QED BY <1>3, <2>1, MoveKeepsControl DEF SeekDat, ReadStep
<1>4. CASE AppendDat(p)
  <2>1. Covers("a_write_dat", "a_unlock_dat", call[p].op)
    BY DEF Covers, KeyedPC, StorePC, DelPC, ChainPC, FreePC,
           ScanPC, DatPC, IdxPC, Label
  <2>. QED BY <1>4, <2>1, MoveKeepsControl DEF AppendDat, WriteDat
<1>5. CASE SeekIdx(p)
  <2>1. Covers("a_seek_idx", "a_write_idx", call[p].op)
    BY DEF Covers, KeyedPC, StorePC, DelPC, ChainPC, FreePC,
           ScanPC, DatPC, IdxPC, Label
  <2>. QED BY <1>5, <2>1, MoveKeepsControl DEF SeekIdx, ReadStep
<1>6. CASE AppendIdx(p)
  <2>1. Covers("a_write_idx", "a_unlock_idx", call[p].op)
    BY DEF Covers, KeyedPC, StorePC, DelPC, ChainPC, FreePC,
           ScanPC, DatPC, IdxPC, Label
  <2>. QED BY <1>6, <2>1, MoveKeepsControl DEF AppendIdx, StoreWriteIdx, WriteIdx
<1>7. CASE StoreWriteChain(p)
  <2>1. Covers("s_write_chain", "unlock", call[p].op)
    BY DEF Covers, KeyedPC, StorePC, DelPC, ChainPC, FreePC,
           ScanPC, DatPC, IdxPC, Label
  <2>. QED BY <1>7, <2>1, MoveKeepsControl DEF StoreWriteChain, WritePtr
<1>8. CASE OverwriteDat(p)
  <2>1. Covers("o_write_dat", "unlock", call[p].op)
    BY DEF Covers, KeyedPC, StorePC, DelPC, ChainPC, FreePC,
           ScanPC, DatPC, IdxPC, Label
  <2>. QED BY <1>8, <2>1, MoveKeepsControl DEF OverwriteDat, WriteDat
<1>9. CASE LockDat(p)
  <2>1. /\ Transition(p, "a_lock_dat", "a_seek_dat") /\ WriteLock(p, DatFile)
        /\ UNCHANGED <<call, alive, ncalls>>
    BY <1>9 DEF LockDat, LockStep
  <2>2. /\ "a_seek_dat" \in Label /\ pc[p] = "a_lock_dat" /\ p \in alive
        /\ pc'[p] = "a_seek_dat" /\ Chain(p)' = Chain(p)
    BY <2>1 DEF Transition, Chain, ControlInv, ControlType, Label, ChainPC, ScanPC
  <2>3. CallOK(p)'
    BY <2>1, <2>2 DEF ControlInv, CallOK, KeyedPC, StorePC, DelPC, ChainPC
  <2>4. HoldsLocks(p)'
    BY <2>1, <2>2, Granted, Regions
    DEF ControlInv, CallOK, HoldsLocks, Chain, KeyedPC, StorePC, DelPC, ChainPC,
        FreePC, ScanPC, DatPC, IdxPC
  <2>. QED BY <2>1, <2>2, <2>3, <2>4, Regions, AcquireKeepsControl
<1>10. CASE UnlockDat(p)
  <2>1. /\ Transition(p, "a_unlock_dat", "a_lock_idx") /\ UnLock(p, DatFile)
        /\ UNCHANGED <<call, alive, ncalls>>
    BY <1>10 DEF UnlockDat, LockStep
  <2>2. /\ "a_lock_idx" \in Label /\ pc[p] = "a_unlock_dat" /\ p \in alive
        /\ pc'[p] = "a_lock_idx" /\ Chain(p)' = Chain(p)
        /\ call[p] \in CallType /\ call' = [call EXCEPT ![p] = call[p]]
    BY <2>1 DEF Transition, Chain, ControlInv, ControlType, Label, ChainPC
  <2>3. CallOK(p)'
    BY <2>1, <2>2 DEF ControlInv, CallOK, KeyedPC, StorePC, DelPC, ChainPC
  <2>4. HoldsLocks(p)'
    BY <2>1, <2>2, Released, Regions
    DEF ControlInv, CallOK, HoldsLocks, Chain, KeyedPC, StorePC, DelPC, ChainPC,
        FreePC, ScanPC, DatPC, IdxPC
  <2>. QED BY <2>1, <2>2, <2>3, <2>4, Regions, ReleaseKeepsControl
<1>11. CASE LockIdx(p)
  <2>1. /\ Transition(p, "a_lock_idx", "a_seek_idx") /\ WriteLock(p, IdxTail)
        /\ UNCHANGED <<call, alive, ncalls>>
    BY <1>11 DEF LockIdx, LockStep
  <2>2. /\ "a_seek_idx" \in Label /\ pc[p] = "a_lock_idx" /\ p \in alive
        /\ pc'[p] = "a_seek_idx" /\ Chain(p)' = Chain(p)
    BY <2>1 DEF Transition, Chain, ControlInv, ControlType, Label, ChainPC, ScanPC
  <2>3. CallOK(p)'
    BY <2>1, <2>2 DEF ControlInv, CallOK, KeyedPC, StorePC, DelPC, ChainPC
  <2>4. HoldsLocks(p)'
    BY <2>1, <2>2, Granted, Regions
    DEF ControlInv, CallOK, HoldsLocks, Chain, KeyedPC, StorePC, DelPC, ChainPC,
        FreePC, ScanPC, DatPC, IdxPC
  <2>. QED BY <2>1, <2>2, <2>3, <2>4, Regions, AcquireKeepsControl
<1>12. CASE UnlockIdx(p)
  <2>1. /\ Transition(p, "a_unlock_idx", "s_write_chain") /\ UnLock(p, IdxTail)
        /\ UNCHANGED <<call, alive, ncalls>>
    BY <1>12 DEF UnlockIdx, LockStep
  <2>2. /\ "s_write_chain" \in Label /\ pc[p] = "a_unlock_idx" /\ p \in alive
        /\ pc'[p] = "s_write_chain" /\ Chain(p)' = Chain(p)
        /\ call[p] \in CallType /\ call' = [call EXCEPT ![p] = call[p]]
    BY <2>1 DEF Transition, Chain, ControlInv, ControlType, Label, ChainPC
  <2>3. CallOK(p)'
    BY <2>1, <2>2 DEF ControlInv, CallOK, KeyedPC, StorePC, DelPC, ChainPC
  <2>4. HoldsLocks(p)'
    BY <2>1, <2>2, Released, Regions
    DEF ControlInv, CallOK, HoldsLocks, Chain, KeyedPC, StorePC, DelPC, ChainPC,
        FreePC, ScanPC, DatPC, IdxPC
  <2>. QED BY <2>1, <2>2, <2>3, <2>4, Regions, ReleaseKeepsControl
<1>13. CASE StoreReadChain(p)
  <2>1. PICK to \in {"a_lock_dat", "f_lock"} : Transition(p, "s_read_chain", to)
    BY <1>13 DEF StoreReadChain
  <2>2. UNCHANGED <<rlock, wlock, call, alive, ncalls>>
    BY <1>13 DEF StoreReadChain, ReadStep
  <2>3. Covers("s_read_chain", to, call[p].op)
    BY <2>1 DEF Covers, KeyedPC, StorePC, DelPC, ChainPC, FreePC,
                ScanPC, DatPC, IdxPC, Label
  <2>. QED BY <2>1, <2>2, <2>3, MoveKeepsControl
<1>14. CASE StorePtrOverflow(p)
  BY <1>14, DeathKeepsControl DEF StorePtrOverflow, ControlInv, ControlType
<1>. QED BY <1>1, <1>2, <1>3, <1>4, <1>5, <1>6, <1>7, <1>8, <1>9, <1>10, <1>11, <1>12, <1>13, <1>14 DEF StoreNew

LEMMA NextrecKeepsControl ==
  ASSUME ControlInv, NEW p \in Proc, Nextrec(p) PROVE ControlInv'
<1>1. CASE NextDat(p)
  <2>1. Covers("n_read_dat", "n_unlock", call[p].op)
    BY DEF Covers, KeyedPC, StorePC, DelPC, ChainPC, FreePC,
           ScanPC, DatPC, IdxPC, Label
  <2>. QED BY <1>1, <2>1, MoveKeepsControl DEF NextDat, ReadStep
<1>2. CASE NextLock(p)
  <2>1. /\ Transition(p, "n_lock", "n_read") /\ ReadLock(p, FREE_OFF)
        /\ UNCHANGED <<call, alive, ncalls>>
    BY <1>2 DEF NextLock, LockStep
  <2>2. /\ "n_read" \in Label /\ pc[p] = "n_lock" /\ p \in alive
        /\ pc'[p] = "n_read" /\ Chain(p)' = Chain(p)
    BY <2>1 DEF Transition, Chain, ControlInv, ControlType, Label, ChainPC, ScanPC
  <2>3. CallOK(p)'
    BY <2>1, <2>2 DEF ControlInv, CallOK, KeyedPC, StorePC, DelPC, ChainPC
  <2>4. HoldsLocks(p)'
    BY <2>1, <2>2, Granted, Regions
    DEF ControlInv, CallOK, HoldsLocks, Chain, KeyedPC, StorePC, DelPC, ChainPC,
        FreePC, ScanPC, DatPC, IdxPC
  <2>. QED BY <2>1, <2>2, <2>3, <2>4, Regions, AcquireKeepsControl
<1>3. CASE NextRead(p)
  <2>1. PICK to \in {"n_unlock", "n_read", "n_read_dat"} : Transition(p, "n_read", to)
    BY <1>3 DEF NextRead
  <2>2. UNCHANGED <<rlock, wlock, call, alive, ncalls>>
    BY <1>3 DEF NextRead, ReadStep
  <2>3. Covers("n_read", to, call[p].op)
    BY <2>1 DEF Covers, KeyedPC, StorePC, DelPC, ChainPC, FreePC,
                ScanPC, DatPC, IdxPC, Label
  <2>. QED BY <2>1, <2>2, <2>3, MoveKeepsControl
<1>4. CASE NextGarbage(p)
  BY <1>4, DeathKeepsControl DEF NextGarbage, ControlInv, ControlType
<1>5. CASE NextUnlock(p)
  <2>1. /\ Transition(p, "n_unlock", "idle") /\ UnLock(p, FREE_OFF)
        /\ call' = [call EXCEPT ![p] = NoCall] /\ UNCHANGED <<alive, ncalls>>
    BY <1>5 DEF NextUnlock
  <2>2. NoCall \in CallType /\ "idle" \in Label
    BY DEF NoCall, Call, CallType, Label
  <2>3. CallOK(p)' /\ HoldsLocks(p)'
    BY <2>1 DEF Transition, ControlInv, ControlType, CallOK, HoldsLocks, KeyedPC,
                StorePC, DelPC, ChainPC, FreePC, ScanPC, DatPC, IdxPC
  <2>. QED BY <2>1, <2>2, <2>3, Regions, ReleaseKeepsControl
<1>. QED BY <1>1, <1>2, <1>3, <1>4, <1>5 DEF Nextrec

LEMMA BeginKeepsControl ==
  ASSUME ControlInv, NEW p \in Proc, NEW c \in CallType, NEW to,
         Begin(p, c, to),
         \/ /\ to = "lock_chain"
            /\ c.key \in Key /\ c.op \in {"fetch", "delete", "store"}
            /\ c.op = "store" => c.data \in Data
         \/ to = "n_lock"
  PROVE  ControlInv'
<1>1. /\ p \in alive /\ pc' = [pc EXCEPT ![p] = to]
      /\ call' = [call EXCEPT ![p] = c]
      /\ UNCHANGED <<rlock, wlock, alive>>
      /\ ncalls' \in 0..MaxCalls
  BY SizeAssumption DEF Begin, Transition, lockvars, ControlInv, ControlType
<1>2. ControlType'
  BY <1>1 DEF ControlInv, ControlType, Label
<1>3. CallOK(p)' /\ HoldsLocks(p)'
  BY <1>1 DEF ControlInv, ControlType, CallOK, HoldsLocks, KeyedPC, StorePC,
              DelPC, ChainPC, FreePC, ScanPC, DatPC, IdxPC
<1>4. Exclusive' BY <1>1 DEF ControlInv, Exclusive
<1>. QED BY <1>1, <1>2, <1>3, <1>4, StepKeepsControl DEF ControlInv, ControlType

LEMMA InvokeKeepsControl ==
  ASSUME ControlInv, NEW p \in Proc, Invoke(p) PROVE ControlInv'
<1>1. ASSUME NEW k \in Key, CallFetch(p, k) PROVE ControlInv'
  <2>. DEFINE c == Call("fetch", k, NoData, "none")
  <2>1. /\ c \in CallType /\ c.key \in Key /\ c.op = "fetch"
    BY DEF Call, CallType
  <2>. QED BY <1>1, <2>1, BeginKeepsControl DEF CallFetch
<1>2. ASSUME NEW k \in Key, CallDelete(p, k) PROVE ControlInv'
  <2>. DEFINE c == Call("delete", k, NoData, "none")
  <2>1. /\ c \in CallType /\ c.key \in Key /\ c.op = "delete"
    BY DEF Call, CallType
  <2>. QED BY <1>2, <2>1, BeginKeepsControl DEF CallDelete
<1>3. ASSUME NEW k \in Key, NEW d \in Data, NEW f \in Flags, CallStore(p, k, d, f)
      PROVE  ControlInv'
  <2>. DEFINE c == Call("store", k, d, f)
  <2>1. /\ c \in CallType /\ c.key \in Key /\ c.op = "store" /\ c.data \in Data
    BY DEF Call, CallType
  <2>. QED BY <1>3, <2>1, BeginKeepsControl DEF CallStore
<1>4. CASE CallNextrec(p)
  <2>1. Call("nextrec", NoKey, NoData, "none") \in CallType
    BY DEF Call, CallType
  <2>. QED BY <1>4, <2>1, BeginKeepsControl DEF CallNextrec
<1>5. ASSUME NEW d \in Data, StoreBadLength(p, d) PROVE ControlInv'
  <2>1. ncalls' \in 0..MaxCalls
    BY <1>5, SizeAssumption DEF StoreBadLength, ControlInv, ControlType
  <2>. QED BY <1>5, <2>1, DeathKeepsControl DEF StoreBadLength
<1>6. CASE StoreBadFlag(p) \/ Rewind(p)
  <2>1. ncalls' \in 0..MaxCalls
    BY <1>6, SizeAssumption DEF StoreBadFlag, Rewind, ControlInv, ControlType
  <2>2. UNCHANGED <<rlock, wlock, pc, call, alive>>
    BY <1>6 DEF StoreBadFlag, Rewind, lockvars
  <2>3. ControlType' BY <2>1, <2>2 DEF ControlInv, ControlType
  <2>4. (\A q \in Proc : CallOK(q))' BY <2>2 DEF ControlInv, CallOK
  <2>5. Exclusive' BY <2>2 DEF ControlInv, Exclusive
  <2>6. (\A q \in alive : HoldsLocks(q))'
    BY <2>2 DEF ControlInv, HoldsLocks, Chain
  <2>. QED BY <2>3, <2>4, <2>5, <2>6 DEF ControlInv
<1>. QED BY <1>1, <1>2, <1>3, <1>4, <1>5, <1>6 DEF Invoke

\* The control invariant holds in every state.
THEOREM ControlTheorem == Spec => []ControlInv
<1>1. Init => ControlInv
  <2>. SUFFICES ASSUME Init PROVE ControlInv OBVIOUS
  <2>1. NoCall \in CallType BY DEF NoCall, Call, CallType
  <2>2. ControlType
    BY <2>1, SizeAssumption DEF Init, ControlType, Label
  <2>3. \A p \in Proc : CallOK(p) /\ HoldsLocks(p)
    BY DEF Init, CallOK, HoldsLocks, KeyedPC, StorePC, DelPC, ChainPC, FreePC,
           ScanPC, DatPC, IdxPC
  <2>4. Exclusive BY DEF Init, Exclusive
  <2>. QED BY <2>2, <2>3, <2>4 DEF ControlInv, ControlType
<1>2. ControlInv /\ [Next]_vars => ControlInv'
  <2>. SUFFICES ASSUME ControlInv, [Next]_vars PROVE ControlInv' OBVIOUS
  <2>1. ASSUME NEW p \in Proc, Invoke(p) PROVE ControlInv'
    BY <2>1, InvokeKeepsControl
  <2>2. ASSUME NEW p \in Proc, Step(p) PROVE ControlInv'
    BY <2>2, FindKeepsControl, DoDeleteKeepsControl, FindFreeKeepsControl,
       StoreNewKeepsControl, NextrecKeepsControl DEF Step
  <2>3. ASSUME NEW p \in Proc, Crash(p) PROVE ControlInv'
    BY <2>3, DeathKeepsControl DEF Crash, ControlInv, ControlType
  <2>4. CASE UNCHANGED vars
    BY <2>4 DEF vars, ControlInv, ControlType, CallOK, Exclusive, HoldsLocks, Chain
  <2>. QED BY <2>1, <2>2, <2>3, <2>4 DEF Next, Finished
<1>. QED BY <1>1, <1>2, PTL DEF Spec

\* Holding the right locks is enough to exclude one another.
LEMMA ControlExcludes == ControlInv => MutualExclusion
<1>. SUFFICES ASSUME ControlInv, NEW p \in alive, NEW q \in alive, p # q
              PROVE  /\ pc[p] \in ChainPC /\ pc[q] \in ChainPC /\ Chain(p) = Chain(q)
                          => call[p].op = "fetch" /\ call[q].op = "fetch"
                     /\ pc[p] \in FreePC => pc[q] \notin FreePC \cup ScanPC
                     /\ pc[p] \in DatPC => pc[q] \notin DatPC
                     /\ pc[p] \in IdxPC => pc[q] \notin IdxPC
  BY DEF MutualExclusion
<1>1. /\ p \in Proc /\ q \in Proc /\ HoldsLocks(p) /\ HoldsLocks(q)
      /\ CallOK(p) /\ CallOK(q) /\ Exclusive
  BY DEF ControlInv, ControlType
<1>2. pc[p] \in ChainPC => Chain(p) \in Region
  BY <1>1, Regions DEF CallOK, KeyedPC, Chain
<1>. QED BY <1>1, <1>2, Regions DEF HoldsLocks, Exclusive

(***************************************************************************)
(* The record locks of db.c do exclude: for any number of processes, keys  *)
(* and chains, no two of them are inside the same chain unless both fetch, *)
(* inside the free list, or appending to the same file.                    *)
(***************************************************************************)
THEOREM MutualExclusionTheorem == Spec => []MutualExclusion
BY ControlExcludes, ControlTheorem, PTL
-----------------------------------------------------------------------------
(***************************************************************************)
(* Offsets and records.                                                    *)
(***************************************************************************)
\* The table of chains lies before the first record.
LEMMA Sizes == FirstRec \in Nat /\ FirstRec > NHash /\ NHash \in Nat
               /\ PTR_MAX \in Nat /\ FREE_OFF = 0
BY SizeAssumption DEF FirstRec, FREE_OFF

\* What fits in a file still fits when the file has grown.
LEMMA Grows ==
  ASSUME FileType, FileType', ieof <= ieof', deof <= deof', NEW h, NEW l,
         h \in HandleType
  PROVE  /\ \A v : Pointer(v) => Pointer(v)'
         /\ HandleFits(h) => HandleFits(h)'
         /\ Positioned(l, h) => Positioned(l, h)'
<1>1. /\ ieof \in Nat /\ ieof' \in Nat /\ deof \in Nat /\ deof' \in Nat
      /\ h.ptroff \in Nat /\ h.fpos \in Nat /\ h.idxoff \in Nat /\ h.datoff \in Nat
  BY DEF FileType, HandleType
<1>2. ASSUME NEW v, Pointer(v) PROVE Pointer(v)'
  BY <1>1, <1>2, Sizes DEF Pointer
<1>3. HandleFits(h) => HandleFits(h)'
  BY <1>1, <1>2, Sizes DEF HandleFits
<1>4. Positioned(l, h) => Positioned(l, h)'
  BY <1>1, Sizes DEF Positioned
<1>. QED BY <1>2, <1>3, <1>4

\* A step of p that reads: the new handle fits, and is positioned as the
\* new label asks.
LEMMA ReadKeepsFiles ==
  ASSUME FilesInv, NEW p \in Proc, alive \subseteq Proc, alive' = alive,
         UNCHANGED <<ptr, rec, ieof, dat, deof>>,
         db' \in [Proc -> HandleType],
         \A q \in Proc \ {p} : db'[q] = db[q] /\ pc'[q] = pc[q],
         HandleFits(db'[p]), Positioned(pc'[p], db'[p]),
         pc'[p] = "a_write_dat" => db'[p].datoff = deof,
         pc'[p] = "a_write_idx" => db'[p].idxoff = ieof
  PROVE  FilesInv'
<1>1. FilesFit'
  BY DEF FilesInv, FilesFit, FileType, Pointer
<1>2. ASSUME NEW q \in Proc PROVE HandleFits(db[q])' /\ Positioned(pc[q], db[q])'
  BY <1>2 DEF FilesInv, HandleFits, Positioned, Pointer
<1>3. AppendAtEnd'
  BY DEF FilesInv, AppendAtEnd
<1>. QED BY <1>1, <1>2, <1>3 DEF FilesInv

\* A step of p that writes keeps the offsets of the others valid because
\* files only grow, and their end-of-file positions because only the holder
\* of the lock appends.
LEMMA WriteKeepsFiles ==
  ASSUME ControlInv, FilesInv, NEW p \in alive, alive' = alive,
         FilesFit', ieof <= ieof', deof <= deof',
         deof' # deof => pc[p] \in DatPC,
         ieof' # ieof => pc[p] \in IdxPC,
         db' \in [Proc -> HandleType],
         \A q \in Proc \ {p} : db'[q] = db[q] /\ pc'[q] = pc[q],
         HandleFits(db[p])', Positioned(pc[p], db[p])',
         pc'[p] \notin {"a_write_dat", "a_write_idx"}
  PROVE  FilesInv'
<1>1. MutualExclusion BY ControlExcludes
<1>2. ASSUME NEW q \in Proc, q # p
      PROVE  HandleFits(db[q])' /\ Positioned(pc[q], db[q])'
  <2>1. /\ db'[q] = db[q] /\ pc'[q] = pc[q] /\ db[q] \in HandleType
        /\ HandleFits(db[q]) /\ Positioned(pc[q], db[q]) /\ FileType /\ FileType'
    BY <1>2 DEF FilesInv, FilesFit
  <2>. QED BY <2>1, Grows
<1>3. ASSUME NEW q \in alive'
      PROVE  /\ pc'[q] = "a_write_dat" => db'[q].datoff = deof'
             /\ pc'[q] = "a_write_idx" => db'[q].idxoff = ieof'
  <2>1. CASE q = p BY <2>1
  <2>2. CASE q # p
    <3>1. q \in Proc /\ q \in alive BY <1>3 DEF ControlInv, ControlType
    <3>2. pc[q] = "a_write_dat" => deof' = deof
      BY <1>1, <2>2, <3>1 DEF MutualExclusion, DatPC
    <3>3. pc[q] = "a_write_idx" => ieof' = ieof
      BY <1>1, <2>2, <3>1 DEF MutualExclusion, IdxPC
    <3>. QED BY <2>2, <3>1, <3>2, <3>3 DEF FilesInv, AppendAtEnd
  <2>. QED BY <2>1, <2>2
<1>. QED BY <1>2, <1>3 DEF FilesInv, AppendAtEnd

\* A field of a handle may be set to a value of its kind.
LEMMA SetField ==
  ASSUME FileType, NEW h, HandleFits(h)
  PROVE  /\ \A v : Pointer(v) => /\ HandleFits([h EXCEPT !.offset = v])
                                 /\ HandleFits([h EXCEPT !.ptrval = v])
                                 /\ HandleFits([h EXCEPT !.save = v])
                                 /\ HandleFits([h EXCEPT !.head = v])
         /\ \A v \in 0..(ieof - 1) : HandleFits([h EXCEPT !.ptroff = v])
         /\ \A v \in {0} \cup (FirstRec..ieof) : HandleFits([h EXCEPT !.fpos = v])
         /\ \A v \in Nat : /\ HandleFits([h EXCEPT !.idxoff = v])
                           /\ HandleFits([h EXCEPT !.datoff = v])
                           /\ HandleFits([h EXCEPT !.datlen = v])
         /\ \A v \in Key \cup {NoKey, Blank} : HandleFits([h EXCEPT !.key = v])
         /\ \A v \in BOOLEAN : HandleFits([h EXCEPT !.found = v])
         /\ \A v \in ReplyType : HandleFits([h EXCEPT !.ret = v])
<1>1. h \in HandleType /\ ieof \in Nat BY DEF HandleFits, FileType
<1>2. ASSUME NEW v, Pointer(v) PROVE v \in Nat
  BY <1>1, <1>2, Sizes DEF Pointer
<1>3. ASSUME NEW v, Pointer(v)
      PROVE /\ HandleFits([h EXCEPT !.offset = v])
            /\ HandleFits([h EXCEPT !.ptrval = v])
            /\ HandleFits([h EXCEPT !.save = v])
            /\ HandleFits([h EXCEPT !.head = v])
  BY <1>1, <1>2, <1>3 DEF HandleFits, HandleType
<1>4. ASSUME NEW v \in 0..(ieof - 1) PROVE HandleFits([h EXCEPT !.ptroff = v])
  BY <1>1 DEF HandleFits, HandleType
<1>5. ASSUME NEW v \in {0} \cup (FirstRec..ieof)
      PROVE HandleFits([h EXCEPT !.fpos = v])
  BY <1>1, Sizes DEF HandleFits, HandleType
<1>6. ASSUME NEW v \in Nat PROVE /\ HandleFits([h EXCEPT !.idxoff = v])
                                 /\ HandleFits([h EXCEPT !.datoff = v])
                                 /\ HandleFits([h EXCEPT !.datlen = v])
  BY <1>1 DEF HandleFits, HandleType
<1>7. /\ \A v \in Key \cup {NoKey, Blank} : HandleFits([h EXCEPT !.key = v])
      /\ \A v \in BOOLEAN : HandleFits([h EXCEPT !.found = v])
      /\ \A v \in ReplyType : HandleFits([h EXCEPT !.ret = v])
  BY <1>1 DEF HandleFits, HandleType
<1>. QED BY <1>3, <1>4, <1>5, <1>6, <1>7

\* _db_readidx of a record of the file.
LEMMA ReadIdxFits ==
  ASSUME FilesFit, NEW h, HandleFits(h), NEW o \in FirstRec..(ieof - 1)
  PROVE  /\ HandleFits(ReadIdx(h, o))
         /\ ReadIdx(h, o).idxoff = o /\ ReadIdx(h, o).datoff < deof
         /\ ReadIdx(h, o).offset = h.offset
<1>1. /\ h \in HandleType /\ ieof \in Nat /\ FileType
      /\ Pointer(ptr[o]) /\ ptr[o] \in Nat /\ rec[o] \in RecType
      /\ rec[o].datoff < deof
  BY Sizes DEF HandleFits, FilesFit, FileType
<1>2. /\ rec[o].key \in Key \cup {Blank} /\ rec[o].datoff \in Nat
      /\ rec[o].datlen \in Nat /\ o \in Nat /\ o + 1 \in FirstRec..ieof
  BY <1>1, Sizes DEF RecType
<1>. DEFINE h1 == [h EXCEPT !.idxoff = o]
            h2 == [h1 EXCEPT !.ptrval = ptr[o]]
            h3 == [h2 EXCEPT !.key = rec[o].key]
            h4 == [h3 EXCEPT !.datoff = rec[o].datoff]
            h5 == [h4 EXCEPT !.datlen = rec[o].datlen]
            h6 == [h5 EXCEPT !.fpos = o + 1]
<1>3. ReadIdx(h, o) = h6 BY DEF ReadIdx
<1>4. h6.idxoff = o /\ h6.datoff = rec[o].datoff /\ h6.offset = h.offset
  BY <1>1 DEF HandleType
<1>5. HandleFits(h6)
  <2>1. HandleFits(h1) BY <1>1, <1>2, SetField
  <2>. HIDE DEF h1
  <2>2. HandleFits(h2) BY <1>1, <2>1, SetField
  <2>. HIDE DEF h2
  <2>3. HandleFits(h3) BY <1>1, <1>2, <2>2, SetField
  <2>. HIDE DEF h3
  <2>4. HandleFits(h4) BY <1>1, <1>2, <2>3, SetField
  <2>. HIDE DEF h4
  <2>5. HandleFits(h5) BY <1>1, <1>2, <2>4, SetField
  <2>. HIDE DEF h5
  <2>. QED BY <1>1, <1>2, <2>5, SetField
<1>. QED BY <1>1, <1>3, <1>4, <1>5

\* _db_writeptr of a pointer.
LEMMA PtrWritten ==
  ASSUME FilesFit, NEW o \in 0..(ieof - 1), NEW v, Pointer(v),
         ptr' = [ptr EXCEPT ![o] = v], UNCHANGED <<rec, ieof, dat, deof>>
  PROVE  FilesFit'
<1>1. v \in Nat /\ ieof \in Nat BY Sizes DEF Pointer, FilesFit, FileType
<1>2. FileType' BY <1>1, Sizes DEF FilesFit, FileType
<1>3. ASSUME NEW i \in 0..(ieof' - 1) PROVE Pointer(ptr[i])'
  BY <1>1, <1>3, Sizes DEF FilesFit, FileType, Pointer
<1>. QED BY <1>2, <1>3, Sizes DEF FilesFit

\* _db_writeidx of a record, inside the file or at its end.
LEMMA IdxWritten ==
  ASSUME FilesFit, NEW p, NEW o \in FirstRec..ieof, NEW k \in Key \cup {Blank},
         NEW n \in Nat, NEW v, Pointer(v), db[p] \in HandleType,
         db[p].datoff < deof, WriteIdx(p, o, k, n, v)
  PROVE  /\ FilesFit' /\ deof' = deof /\ alive' = alive
         /\ ieof' = IF o = ieof THEN ieof + 1 ELSE ieof
<1>1. /\ v \in Nat /\ ieof \in Nat /\ ieof >= FirstRec /\ o \in Nat /\ deof \in Nat
      /\ db[p].datoff \in Nat /\ db[p].datlen \in Nat
  <2>1. ieof \in Nat /\ ieof >= FirstRec /\ deof \in Nat
    BY DEF FilesFit, FileType
  <2>2. db[p].datoff \in Nat /\ db[p].datlen \in Nat BY DEF HandleType
  <2>. QED BY <2>1, <2>2, Sizes DEF Pointer
<1>2. /\ UNCHANGED <<dat, deof, alive>>
      /\ ieof' = IF o = ieof THEN ieof + 1 ELSE ieof
  BY <1>1, Sizes DEF WriteIdx
<1>. DEFINE r == [key |-> k, klen |-> n, datoff |-> db[p].datoff,
                  datlen |-> db[p].datlen]
<1>3. r \in RecType BY <1>1 DEF RecType
<1>4. /\ ptr' = [i \in DOMAIN ptr \cup {o} |-> IF i = o THEN v ELSE ptr[i]]
      /\ rec' = [i \in DOMAIN rec \cup {o} |-> IF i = o THEN r ELSE rec[i]]
  BY DEF WriteIdx
<1>. HIDE DEF r
<1>5. /\ DOMAIN ptr \cup {o} = 0..(ieof' - 1)
      /\ DOMAIN rec \cup {o} = FirstRec..(ieof' - 1)
  BY <1>1, <1>2, Sizes DEF FilesFit, FileType
<1>6. FileType'
  BY <1>1, <1>2, <1>3, <1>4, <1>5, Sizes DEF FilesFit, FileType
<1>7. ASSUME NEW i \in 0..(ieof' - 1) PROVE Pointer(ptr[i])'
  <2>1. Pointer(ptr'[i])
    BY <1>1, <1>2, <1>4, <1>5, <1>7, Sizes DEF FilesFit, FileType
  <2>. QED BY <1>1, <1>2, <2>1, Sizes DEF Pointer
<1>8. ASSUME NEW i \in FirstRec..(ieof' - 1) PROVE rec'[i].datoff < deof'
  <2>1. r.datoff < deof BY DEF r
  <2>. QED BY <1>1, <1>2, <1>4, <1>5, <1>8, <2>1, Sizes DEF FilesFit, FileType
<1>. QED BY <1>2, <1>6, <1>7, <1>8, Sizes DEF FilesFit

\* _db_writedat of a record, inside the file or at its end.
LEMMA DatWritten ==
  ASSUME FilesFit, NEW p, NEW o \in 0..deof, NEW v \in Data \cup {Blank},
         NEW n \in Nat, WriteDat(p, o, v, n)
  PROVE  /\ FilesFit' /\ ieof' = ieof /\ alive' = alive
         /\ deof' = IF o = deof THEN deof + 1 ELSE deof
<1>1. ieof \in Nat /\ o \in Nat /\ deof \in Nat
  BY Sizes DEF FilesFit, FileType
<1>2. /\ UNCHANGED <<ptr, rec, ieof, alive>>
      /\ deof' = IF o = deof THEN deof + 1 ELSE deof
  BY <1>1 DEF WriteDat
<1>. DEFINE r == [val |-> v, len |-> n]
<1>3. r \in DatType BY DEF DatType
<1>4. dat' = [i \in DOMAIN dat \cup {o} |-> IF i = o THEN r ELSE dat[i]]
  BY DEF WriteDat
<1>. HIDE DEF r
<1>5. DOMAIN dat \cup {o} = 0..(deof' - 1)
  BY <1>1, <1>2 DEF FilesFit, FileType
<1>6. FileType'
  BY <1>1, <1>2, <1>3, <1>4, <1>5 DEF FilesFit, FileType
<1>7. ASSUME NEW i \in FirstRec..(ieof' - 1) PROVE rec'[i].datoff < deof'
  <2>1. rec[i] \in RecType /\ rec[i].datoff < deof
    BY <1>2, <1>7 DEF FilesFit, FileType
  <2>. QED BY <1>1, <1>2, <2>1 DEF RecType
<1>. QED BY <1>2, <1>6, <1>7 DEF FilesFit, Pointer

\* What the invariant says of one process.
LEMMA Facts ==
  ASSUME IndInv, NEW p \in Proc
  PROVE  /\ FilesFit /\ FileType /\ alive \subseteq Proc
         /\ db \in [Proc -> HandleType] /\ pc \in [Proc -> Label]
         /\ db[p] \in HandleType /\ HandleFits(db[p]) /\ Positioned(pc[p], db[p])
         /\ CallOK(p) /\ call[p] \in CallType
BY DEF IndInv, FilesInv, FilesFit, ControlInv, ControlType

\* A step that reads the files into the handle h.
LEMMA ReadStepKeeps ==
  ASSUME IndInv, NEW p \in Proc, NEW from, NEW to, NEW h,
         Transition(p, from, to), ReadStep(p, h),
         HandleFits(h), Positioned(to, h),
         to = "a_write_dat" => h.datoff = deof,
         to = "a_write_idx" => h.idxoff = ieof
  PROVE  FilesInv'
<1>1. /\ UNCHANGED <<ptr, rec, ieof, dat, deof>> /\ alive' = alive
      /\ pc' = [pc EXCEPT ![p] = to] /\ db' = [db EXCEPT ![p] = h]
      /\ h \in HandleType
  BY DEF ReadStep, Transition, HandleFits
<1>2. /\ db' \in [Proc -> HandleType] /\ db'[p] = h /\ pc'[p] = to
      /\ \A q \in Proc \ {p} : db'[q] = db[q] /\ pc'[q] = pc[q]
  BY <1>1, Facts
<1>. QED BY <1>1, <1>2, Facts, ReadKeepsFiles DEF IndInv

\* A step that only locks or unlocks.
LEMMA LockStepKeeps ==
  ASSUME IndInv, NEW p \in Proc, NEW from, NEW to,
         Transition(p, from, to), LockStep, Positioned(to, db[p]),
         to \notin {"a_write_dat", "a_write_idx"}
  PROVE  FilesInv'
<1>1. /\ UNCHANGED <<ptr, rec, ieof, dat, deof, db>> /\ alive' = alive
      /\ pc' = [pc EXCEPT ![p] = to]
  BY DEF LockStep, Transition
<1>2. /\ db' \in [Proc -> HandleType] /\ db'[p] = db[p] /\ pc'[p] = to
      /\ \A q \in Proc \ {p} : db'[q] = db[q] /\ pc'[q] = pc[q]
  BY <1>1, Facts
<1>. QED BY <1>1, <1>2, Facts, ReadKeepsFiles DEF IndInv

\* The labels at which nothing is asked of the offsets.
LEMMA Anywhere ==
  ASSUME NEW l, l \notin RecordPC, l \notin DelPC, l \notin DataPC, l # "f_unlock"
  PROVE  \A h : Positioned(l, h)
BY DEF Positioned

\* The handle of a process that has returned, and its answer.
LEMMA HandleReset ==
  ASSUME IndInv, NEW p \in Proc
  PROVE  HandleFits(Handle(db[p].fpos))
<1>. DEFINE h == Handle(db[p].fpos)
<1>1. NoReply \in ReplyType BY DEF NoReply, Reply, ReplyType
<1>2. db[p].fpos \in Nat /\ db[p].fpos <= ieof
      /\ (db[p].fpos # 0 => db[p].fpos >= FirstRec) /\ ieof \in Nat /\ ieof >= FirstRec
  BY Facts DEF HandleFits, HandleType, FileType
<1>3. h \in HandleType
  BY <1>1, <1>2 DEF Handle, HandleType
<1>4. h.offset = 0 /\ h.ptrval = 0 /\ h.save = 0 /\ h.head = 0 /\ h.ptroff = 0
      /\ h.fpos = db[p].fpos
  BY DEF Handle
<1>. QED BY <1>2, <1>3, <1>4, Sizes DEF HandleFits, Pointer

LEMMA AnswerFits ==
  ASSUME IndInv, NEW p \in Proc, NEW rc \in {"none", "ok", "exists", "error"},
         NEW k \in Key \cup {NoKey, Blank}, NEW d \in Data \cup {NoData, Blank}
  PROVE  HandleFits(Answer(p, rc, k, d))
<1>1. Reply(rc, k, d) \in ReplyType BY DEF Reply, ReplyType
<1>. QED BY <1>1, Facts, SetField DEF Answer

\* The chain pointer of the key of a process.
LEMMA ChainCell ==
  ASSUME IndInv, NEW p \in Proc, pc[p] \in KeyedPC
  PROVE  /\ Chain(p) \in 0..(ieof - 1) /\ Pointer(ptr[Chain(p)])
         /\ FREE_OFF \in 0..(ieof - 1) /\ Pointer(ptr[FREE_OFF])
<1>1. Hash[call[p].key] \in 1..NHash BY Facts, ArgAssumption DEF CallOK
<1>. QED BY <1>1, Facts, Sizes DEF Chain, FilesFit, FileType, FirstRec

\* The end of a call.
LEMMA ResetKeepsFiles ==
  ASSUME IndInv, NEW p \in Proc, UNCHANGED <<ptr, rec, ieof, dat, deof>>,
         alive' = alive, pc' = [pc EXCEPT ![p] = "idle"],
         db' = [db EXCEPT ![p] = Handle(db[p].fpos)]
  PROVE  FilesInv'
<1>. DEFINE h == Handle(db[p].fpos)
<1>1. HandleFits(h) /\ Positioned("idle", h)
  BY HandleReset, Anywhere DEF RecordPC, DataPC, DelPC
<1>. HIDE DEF h
<1>2. /\ db' \in [Proc -> HandleType] /\ db'[p] = h /\ pc'[p] = "idle"
      /\ \A q \in Proc \ {p} : db'[q] = db[q] /\ pc'[q] = pc[q]
  BY <1>1, Facts DEF h, HandleFits
<1>. QED BY <1>1, <1>2, Facts, ReadKeepsFiles DEF IndInv

\* A process that dies, and a step that changes nothing here.
LEMMA DeathKeepsFiles ==
  ASSUME IndInv, NEW p \in Proc, Die(p) PROVE FilesInv'
<1>1. /\ UNCHANGED <<ptr, rec, ieof, dat, deof, pc, db>> /\ alive' \subseteq alive
  BY DEF Die
<1>. QED BY <1>1 DEF IndInv, FilesInv, FilesFit, FileType, Pointer, HandleFits,
                     Positioned, AppendAtEnd

LEMMA IdleKeepsFiles ==
  ASSUME IndInv, UNCHANGED <<ptr, rec, ieof, dat, deof, pc, db, alive>>
  PROVE  FilesInv'
BY DEF IndInv, FilesInv, FilesFit, FileType, Pointer, HandleFits, Positioned,
       AppendAtEnd

LEMMA FindKeepsFiles ==
  ASSUME IndInv, NEW p \in Proc, Find(p) PROVE FilesInv'
<1>1. CASE LockChain(p)
  <2>1. Positioned("read_chain", db[p])
    BY Anywhere DEF RecordPC, DataPC, DelPC
  <2>. QED BY <1>1, <2>1, LockStepKeeps DEF LockChain
<1>2. CASE ReadChain(p)
  <2>1. pc[p] \in KeyedPC
    BY <1>2 DEF ReadChain, Transition, KeyedPC, ChainPC
  <2>. DEFINE h1 == [db[p] EXCEPT !.ptroff = Chain(p)]
              h2 == [h1 EXCEPT !.offset = ptr[Chain(p)]]
              h3 == [h2 EXCEPT !.fpos = 0]
  <2>2. HandleFits(h1) BY <2>1, ChainCell, Facts, SetField
  <2>3. HandleFits(h2)
    <3>. HIDE DEF h1
    <3>. QED BY <2>1, <2>2, ChainCell, Facts, SetField
  <2>4. HandleFits(h3)
    <3>. HIDE DEF h2
    <3>. QED BY <2>3, Facts, SetField
  <2>5. Positioned("walk", h3) BY Anywhere DEF RecordPC, DataPC, DelPC
  <2>6. Transition(p, "read_chain", "walk") /\ ReadStep(p, h3)
    BY <1>2 DEF ReadChain
  <2>. QED BY <2>4, <2>5, <2>6, ReadStepKeeps
<1>3. CASE WalkNext(p)
  <2>. DEFINE o == db[p].offset
              h1 == ReadIdx(db[p], o)
              h2 == [h1 EXCEPT !.ptroff = o]
              h3 == [h2 EXCEPT !.offset = ptr[o]]
  <2>1. o \in FirstRec..(ieof - 1) /\ o \in 0..(ieof - 1) /\ Pointer(ptr[o])
    BY <1>3, Facts, Sizes DEF WalkNext, HandleFits, Pointer, FilesFit, FileType
  <2>2. HandleFits(h1) BY <2>1, Facts, ReadIdxFits
  <2>3. HandleFits(h2)
    <3>. HIDE DEF h1, o
    <3>. QED BY <2>1, <2>2, Facts, SetField
  <2>4. HandleFits(h3)
    <3>. HIDE DEF h2, o
    <3>. QED BY <2>1, <2>3, Facts, SetField
  <2>5. Positioned("walk", h3) BY Anywhere DEF RecordPC, DataPC, DelPC
  <2>6. Transition(p, "walk", "walk") /\ ReadStep(p, h3)
    BY <1>3 DEF WalkNext
  <2>. QED BY <2>4, <2>5, <2>6, ReadStepKeeps
<1>4. CASE WalkFound(p)
  <2>. DEFINE o == db[p].offset
              h1 == ReadIdx(db[p], o)
              h2 == [h1 EXCEPT !.found = TRUE]
              h3 == [h2 EXCEPT !.ret = Reply("exists", NoKey, NoData)]
  <2>1. o \in FirstRec..(ieof - 1) /\ o <= PTR_MAX
    BY <1>4, Facts, Sizes DEF WalkFound, HandleFits, Pointer
  <2>2. HandleFits(h1) /\ h1.idxoff = o /\ h1.datoff < deof
    BY <2>1, Facts, ReadIdxFits
  <2>3. HandleFits(h2) /\ h2.idxoff = o /\ h2.datoff < deof
    <3>1. h1 \in HandleType BY <2>2 DEF HandleFits
    <3>. HIDE DEF h1, o
    <3>. QED BY <2>2, <3>1, Facts, SetField DEF HandleType
  <2>4. HandleFits(h3)
    <3>1. Reply("exists", NoKey, NoData) \in ReplyType BY DEF Reply, ReplyType
    <3>. HIDE DEF h2
    <3>. QED BY <2>3, <3>1, Facts, SetField
  <2>5. \/ /\ ReadStep(p, h2)
           /\ \E to \in {"read_dat", "d_lock_free", "o_write_dat"} :
                Transition(p, "walk", to)
        \/ Transition(p, "walk", "unlock") /\ ReadStep(p, h3)
    BY <1>4 DEF WalkFound
  <2>. HIDE DEF h2, h3
  <2>6. ASSUME NEW to \in {"read_dat", "d_lock_free", "o_write_dat"},
               Transition(p, "walk", to), ReadStep(p, h2)
        PROVE  FilesInv'
    <3>1. Positioned(to, h2)
      BY <2>1, <2>3, <2>6 DEF Positioned, RecordPC, DataPC, DelPC
    <3>. QED BY <2>3, <2>6, <3>1, ReadStepKeeps
  <2>7. Positioned("unlock", h3) BY Anywhere DEF RecordPC, DataPC, DelPC
  <2>. QED BY <2>4, <2>5, <2>6, <2>7, ReadStepKeeps
<1>5. CASE WalkEnd(p)
  <2>1. /\ HandleFits(db[p]) /\ HandleFits(Answer(p, "error", NoKey, NoData))
    BY Facts, AnswerFits
  <2>2. \A h : Positioned("s_read_chain", h) /\ Positioned("unlock", h)
    BY Anywhere DEF RecordPC, DataPC, DelPC
  <2>3. \/ Transition(p, "walk", "s_read_chain") /\ ReadStep(p, db[p])
        \/ Transition(p, "walk", "unlock")
             /\ ReadStep(p, Answer(p, "error", NoKey, NoData))
    BY <1>5 DEF WalkEnd
  <2>. QED BY <2>1, <2>2, <2>3, ReadStepKeeps
<1>6. CASE FetchDat(p)
  <2>1. pc[p] = "read_dat" BY <1>6 DEF FetchDat, Transition
  <2>2. db[p].datoff \in 0..(deof - 1) /\ call[p].key \in Key
    BY <2>1, Facts DEF Positioned, DataPC, HandleType, FileType, CallOK, KeyedPC, ChainPC
  <2>3. dat[db[p].datoff].val \in Data \cup {Blank}
    BY <2>2, Facts DEF FileType, DatType
  <2>4. HandleFits(Answer(p, "ok", call[p].key, dat[db[p].datoff].val))
    BY <2>2, <2>3, AnswerFits
  <2>5. \A h : Positioned("unlock", h) BY Anywhere DEF RecordPC, DataPC, DelPC
  <2>. QED BY <1>6, <2>4, <2>5, ReadStepKeeps DEF FetchDat
<1>7. CASE Unlock(p)
  <2>1. /\ UNCHANGED <<ptr, rec, ieof, dat, deof>> /\ alive' = alive
        /\ pc' = [pc EXCEPT ![p] = "idle"]
        /\ db' = [db EXCEPT ![p] = Handle(db[p].fpos)]
    BY <1>7 DEF Unlock, Transition, idxvars, datvars
  <2>. QED BY <2>1, ResetKeepsFiles
<1>. QED BY <1>1, <1>2, <1>3, <1>4, <1>5, <1>6, <1>7 DEF Find

\* The three kinds of write.
LEMMA WritePtrKeeps ==
  ASSUME IndInv, NEW p \in alive, NEW from, NEW to, NEW o \in 0..(ieof - 1),
         NEW v, Pointer(v), NEW h, HandleFits(h),
         Transition(p, from, to), WritePtr(p, o, v, h), Positioned(to, h),
         to \notin {"a_write_dat", "a_write_idx"}
  PROVE  FilesInv'
<1>. DEFINE g == [h EXCEPT !.fpos = 0]
<1>1. p \in Proc BY DEF IndInv, ControlInv, ControlType
<1>2. /\ HandleFits(g) /\ g \in HandleType /\ Positioned(to, g)
  BY <1>1, Facts, SetField, ZenonT(30) DEF HandleFits, HandleType, Positioned
<1>3. /\ FilesFit' /\ UNCHANGED <<ieof, deof>> /\ alive' = alive
      /\ pc' = [pc EXCEPT ![p] = to] /\ db' = [db EXCEPT ![p] = g]
  BY <1>1, Facts, PtrWritten DEF WritePtr, Transition
<1>. HIDE DEF g
<1>4. FileType' /\ ieof <= ieof' /\ deof <= deof'
  BY <1>1, <1>3, Facts DEF FilesFit, FileType
<1>5. HandleFits(g)' /\ Positioned(to, g)'
  BY <1>1, <1>2, <1>3, <1>4, Facts, Grows DEF FilesFit
<1>6. /\ db' \in [Proc -> HandleType] /\ db'[p] = g /\ pc'[p] = to
      /\ \A q \in Proc \ {p} : db'[q] = db[q] /\ pc'[q] = pc[q]
  BY <1>1, <1>2, <1>3, Facts
<1>7. HandleFits(db[p])' /\ Positioned(pc[p], db[p])'
  BY <1>5, <1>6 DEF HandleFits, Positioned, Pointer
<1>. QED BY <1>3, <1>4, <1>6, <1>7, WriteKeepsFiles DEF IndInv

LEMMA WriteDatKeeps ==
  ASSUME IndInv, NEW p \in alive, NEW from, NEW to, NEW o \in 0..deof,
         NEW v \in Data \cup {Blank}, NEW n \in Nat,
         Transition(p, from, to), WriteDat(p, o, v, n),
         db' = [db EXCEPT ![p] = db'[p]], HandleFits(db'[p]),
         o = deof => from \in DatPC,
         Positioned(to, db'[p]) \/ (to = "a_unlock_dat" /\ db'[p].datoff = o),
         to \notin {"a_write_dat", "a_write_idx"}
  PROVE  FilesInv'
<1>. PICK h : h = db'[p] OBVIOUS
<1>1. p \in Proc BY DEF IndInv, ControlInv, ControlType
<1>2. /\ FilesFit' /\ ieof' = ieof /\ alive' = alive
      /\ deof' = IF o = deof THEN deof + 1 ELSE deof
  BY <1>1, Facts, DatWritten
<1>3. /\ pc' = [pc EXCEPT ![p] = to] /\ pc[p] = from /\ h \in HandleType
  BY DEF Transition, HandleFits
<1>4. /\ FileType /\ FileType' /\ ieof \in Nat /\ deof \in Nat /\ o < deof'
      /\ ieof <= ieof' /\ deof <= deof' /\ (deof' # deof => pc[p] \in DatPC)
  BY <1>1, <1>2, <1>3, Facts DEF FilesFit, FileType
<1>5. HandleFits(h)' BY <1>3, <1>4, Grows
<1>6. Positioned(to, h)'
  <2>1. CASE Positioned(to, h) BY <1>3, <1>4, <2>1, Grows
  <2>2. CASE to = "a_unlock_dat" /\ h.datoff = o
    BY <1>4, <2>2 DEF Positioned, RecordPC, DelPC
  <2>. QED BY <2>1, <2>2
<1>7. /\ db' \in [Proc -> HandleType] /\ db'[p] = h /\ pc'[p] = to
      /\ \A q \in Proc \ {p} : db'[q] = db[q] /\ pc'[q] = pc[q]
  BY <1>1, <1>3, Facts
<1>8. HandleFits(db[p])' /\ Positioned(pc[p], db[p])'
  BY <1>5, <1>6, <1>7 DEF HandleFits, Positioned, Pointer
<1>. QED BY <1>2, <1>4, <1>7, <1>8, WriteKeepsFiles DEF IndInv

LEMMA WriteIdxKeeps ==
  ASSUME IndInv, NEW p \in alive, NEW from, NEW to, NEW o \in FirstRec..ieof,
         NEW k \in Key \cup {Blank}, NEW n \in Nat, NEW v, Pointer(v),
         db[p].datoff < deof, db[p].idxoff = o,
         Transition(p, from, to), WriteIdx(p, o, k, n, v),
         db' = [db EXCEPT ![p].ptrval = v, ![p].fpos = o + 1],
         o = ieof => from \in IdxPC,
         to \in {"d_write_free", "s_write_chain", "a_unlock_idx"},
         to = "d_write_free" => o <= PTR_MAX
  PROVE  FilesInv'
<1>. DEFINE g == [db[p] EXCEPT !.ptrval = v]
            h == [g EXCEPT !.fpos = o + 1]
<1>1. p \in Proc BY DEF IndInv, ControlInv, ControlType
<1>2. /\ FilesFit' /\ deof' = deof /\ alive' = alive
      /\ ieof' = IF o = ieof THEN ieof + 1 ELSE ieof
  BY <1>1, Facts, IdxWritten
<1>3. /\ pc' = [pc EXCEPT ![p] = to] /\ pc[p] = from
  BY DEF Transition
<1>4. /\ FileType /\ FileType' /\ ieof \in Nat /\ deof \in Nat /\ o < ieof'
      /\ ieof <= ieof' /\ deof <= deof' /\ (ieof' # ieof => pc[p] \in IdxPC)
      /\ o \in Nat /\ o + 1 \in FirstRec..ieof'
  <2>1. FileType /\ FileType' /\ ieof \in Nat /\ deof \in Nat
    BY <1>1, <1>2, Facts DEF FilesFit, FileType
  <2>. QED BY <1>2, <1>3, <2>1, Sizes
<1>5. PICK f : f = h OBVIOUS
<1>6. db' = [db EXCEPT ![p] = h] BY <1>1, Facts
<1>7. HandleFits(g) /\ g.idxoff = o /\ g \in HandleType
  <2>1. HandleFits(g) BY <1>1, Facts, SetField
  <2>2. g.idxoff = o BY <1>1, Facts DEF HandleType
  <2>. QED BY <2>1, <2>2 DEF HandleFits
<1>8. /\ f \in HandleType /\ f.fpos = o + 1 /\ f.offset = g.offset
      /\ f.ptrval = g.ptrval /\ f.save = g.save /\ f.head = g.head
      /\ f.ptroff = g.ptroff /\ f.idxoff = o
  <2>. HIDE DEF g
  <2>. QED BY <1>4, <1>5, <1>7, Sizes DEF HandleType
<1>9. PICK e : e = g OBVIOUS
<1>10. HandleFits(e)' BY <1>4, <1>7, <1>9, Grows
<1>11. HandleFits(f)'
  <2>. HIDE DEF g, h
  <2>. QED BY <1>4, <1>8, <1>9, <1>10, Sizes DEF HandleFits
<1>12. Positioned(to, f)'
  <2>1. /\ to \notin DataPC /\ to # "f_unlock" /\ (to \in DelPC => to = "d_write_free")
    BY DEF DelPC, DataPC
  <2>2. f.idxoff \in FirstRec..(ieof' - 1) BY <1>2, <1>4, <1>8, Sizes
  <2>. QED BY <1>8, <2>1, <2>2 DEF Positioned
<1>13. /\ db' \in [Proc -> HandleType] /\ db'[p] = f /\ pc'[p] = to
       /\ \A q \in Proc \ {p} : db'[q] = db[q] /\ pc'[q] = pc[q]
  <2>. HIDE DEF h
  <2>. QED BY <1>1, <1>3, <1>5, <1>6, <1>8, Facts
<1>14. HandleFits(db[p])' /\ Positioned(pc[p], db[p])'
  BY <1>11, <1>12, <1>13 DEF HandleFits, Positioned, Pointer
<1>. QED BY <1>2, <1>4, <1>13, <1>14, WriteKeepsFiles DEF IndInv

LEMMA DoDeleteKeepsFiles ==
  ASSUME IndInv, NEW p \in Proc, DoDelete(p) PROVE FilesInv'
<1>1. CASE DelLockFree(p)
  <2>1. Positioned("d_write_dat", db[p])
    BY <1>1, Facts DEF DelLockFree, Transition, Positioned, RecordPC, DelPC, DataPC
  <2>. QED BY <1>1, <2>1, LockStepKeeps DEF DelLockFree
<1>2. CASE DelWriteDat(p)
  <2>1. /\ Transition(p, "d_write_dat", "d_read_free")
        /\ WriteDat(p, db[p].datoff, Blank, db[p].datlen)
    BY <1>2 DEF DelWriteDat
  <2>2. p \in alive /\ pc[p] = "d_write_dat" BY <2>1 DEF Transition
  <2>3. /\ db[p].datoff \in 0..deof /\ db[p].datoff # deof /\ db[p].datlen \in Nat
    BY <2>2, Facts DEF Positioned, DataPC, HandleType, FileType
  <2>4. Positioned("d_read_free", db[p])
    BY <2>2, Facts DEF Positioned, RecordPC, DelPC, DataPC
  <2>5. db' = [db EXCEPT ![p] = db'[p]] /\ db'[p] = db[p] /\ HandleFits(db[p])
    BY <1>2, Facts DEF DelWriteDat
  <2>. QED BY <2>1, <2>2, <2>3, <2>4, <2>5, WriteDatKeeps
<1>3. CASE DelReadFree(p)
  <2>. DEFINE h1 == [db[p] EXCEPT !.head = ptr[FREE_OFF]]
              h2 == [h1 EXCEPT !.save = db[p].ptrval]
              h3 == [h2 EXCEPT !.fpos = 0]
  <2>1. Transition(p, "d_read_free", "d_write_idx") /\ ReadStep(p, h3)
    BY <1>3 DEF DelReadFree
  <2>2. pc[p] = "d_read_free" /\ pc[p] \in KeyedPC
    BY <2>1 DEF Transition, KeyedPC, ChainPC
  <2>3. /\ Pointer(db[p].ptrval) /\ Pointer(ptr[FREE_OFF])
    BY <2>2, Facts, ChainCell DEF HandleFits
  <2>4. HandleFits(h1) BY <2>3, Facts, SetField
  <2>5. HandleFits(h2)
    <3>. HIDE DEF h1
    <3>. QED BY <2>3, <2>4, Facts, SetField
  <2>6. HandleFits(h3)
    <3>. HIDE DEF h2
    <3>. QED BY <2>5, Facts, SetField
  <2>7. h3.idxoff = db[p].idxoff /\ h3.datoff = db[p].datoff
    BY Facts DEF HandleType
  <2>8. Positioned("d_write_idx", h3)
    <3>. HIDE DEF h3
    <3>. QED BY <2>2, <2>7, Facts DEF Positioned, RecordPC, DelPC, DataPC
  <2>. HIDE DEF h3
  <2>. QED BY <2>1, <2>6, <2>8, ReadStepKeeps
<1>4. CASE DelWriteIdx(p)
  <2>1. /\ Transition(p, "d_write_idx", "d_write_free")
        /\ WriteIdx(p, db[p].idxoff, Blank, KeyLen[call[p].key], db[p].head)
        /\ db' = [db EXCEPT ![p].ptrval = db[p].head, ![p].fpos = db[p].idxoff + 1]
    BY <1>4 DEF DelWriteIdx
  <2>2. p \in alive /\ pc[p] = "d_write_idx" BY <2>1 DEF Transition
  <2>3. /\ db[p].idxoff \in FirstRec..(ieof - 1) /\ db[p].idxoff <= PTR_MAX
        /\ db[p].datoff < deof
    BY <2>2, Facts DEF Positioned, RecordPC, DelPC, DataPC
  <2>4. db[p].idxoff \in FirstRec..ieof /\ db[p].idxoff # ieof
    BY <2>3, Facts, Sizes DEF FileType
  <2>5. Pointer(db[p].head) /\ KeyLen[call[p].key] \in Nat
    BY <2>2, Facts, ArgAssumption DEF HandleFits, CallOK, KeyedPC, ChainPC
  <2>. QED BY <2>1, <2>2, <2>3, <2>4, <2>5, WriteIdxKeeps
<1>5. CASE DelWriteFree(p)
  <2>1. /\ Transition(p, "d_write_free", "d_write_ptr")
        /\ WritePtr(p, FREE_OFF, db[p].idxoff, db[p])
    BY <1>5 DEF DelWriteFree
  <2>2. p \in alive /\ pc[p] = "d_write_free" /\ pc[p] \in KeyedPC
    BY <2>1 DEF Transition, KeyedPC, ChainPC
  <2>3. Pointer(db[p].idxoff) /\ Positioned("d_write_ptr", db[p])
    BY <2>2, Facts DEF Positioned, RecordPC, DelPC, DataPC, Pointer
  <2>. QED BY <2>1, <2>2, <2>3, Facts, ChainCell, WritePtrKeeps
<1>6. CASE DelWritePtr(p)
  <2>. DEFINE h == IF call[p].op = "delete" THEN Answer(p, "ok", NoKey, NoData)
                                            ELSE db[p]
  <2>1. /\ Transition(p, "d_write_ptr", "d_unlock_free")
        /\ WritePtr(p, db[p].ptroff, db[p].save, h)
    BY <1>6 DEF DelWritePtr
  <2>2. p \in alive /\ pc[p] = "d_write_ptr" BY <2>1 DEF Transition
  <2>3. HandleFits(h) BY Facts, AnswerFits
  <2>4. h.idxoff = db[p].idxoff BY Facts DEF Answer, HandleType
  <2>5. Positioned("d_unlock_free", h)
    <3>. HIDE DEF h
    <3>. QED BY <2>2, <2>4, Facts DEF Positioned, RecordPC, DelPC, DataPC
  <2>6. db[p].ptroff \in 0..(ieof - 1) /\ Pointer(db[p].save)
    BY Facts DEF HandleFits, HandleType, FileType
  <2>. HIDE DEF h
  <2>. QED BY <2>1, <2>2, <2>3, <2>5, <2>6, WritePtrKeeps
<1>7. CASE DelUnlockFree(p)
  <2>1. PICK to \in {"unlock", "s_read_chain"} : Transition(p, "d_unlock_free", to)
    BY <1>7 DEF DelUnlockFree
  <2>2. Positioned(to, db[p]) BY <2>1, Anywhere DEF RecordPC, DataPC, DelPC
  <2>. QED BY <1>7, <2>1, <2>2, LockStepKeeps DEF DelUnlockFree
<1>. QED BY <1>1, <1>2, <1>3, <1>4, <1>5, <1>6, <1>7 DEF DoDelete

LEMMA FindFreeKeepsFiles ==
  ASSUME IndInv, NEW p \in Proc, FindFree(p) PROVE FilesInv'
<1>1. CASE FreeLock(p)
  <2>1. Positioned("f_read", db[p]) BY Anywhere DEF RecordPC, DataPC, DelPC
  <2>. QED BY <1>1, <2>1, LockStepKeeps DEF FreeLock
<1>2. CASE FreeRead(p)
  <2>. DEFINE h1 == [db[p] EXCEPT !.save = FREE_OFF]
              h2 == [h1 EXCEPT !.offset = ptr[FREE_OFF]]
              h3 == [h2 EXCEPT !.fpos = 0]
  <2>1. Transition(p, "f_read", "f_walk") /\ ReadStep(p, h3)
    BY <1>2 DEF FreeRead
  <2>2. pc[p] \in KeyedPC BY <2>1 DEF Transition, KeyedPC, ChainPC
  <2>3. Pointer(FREE_OFF) /\ Pointer(ptr[FREE_OFF])
    BY <2>2, ChainCell, Sizes DEF Pointer
  <2>4. HandleFits(h1) BY <2>3, Facts, SetField
  <2>5. HandleFits(h2)
    <3>. HIDE DEF h1
    <3>. QED BY <2>3, <2>4, Facts, SetField
  <2>6. HandleFits(h3)
    <3>. HIDE DEF h2
    <3>. QED BY <2>5, Facts, SetField
  <2>7. Positioned("f_walk", h3) BY Anywhere DEF RecordPC, DataPC, DelPC
  <2>. HIDE DEF h3
  <2>. QED BY <2>1, <2>6, <2>7, ReadStepKeeps
<1>3. CASE FreeWalk(p)
  <2>. DEFINE o == db[p].offset
              h1 == ReadIdx(db[p], o)
              h2 == [h1 EXCEPT !.save = o]
              h3 == [h2 EXCEPT !.offset = ptr[o]]
  <2>1. \/ Transition(p, "f_walk", "f_walk") /\ o # 0 /\ ReadStep(p, h3)
        \/ Transition(p, "f_walk", "f_unlink") /\ o # 0 /\ ReadStep(p, h1)
        \/ Transition(p, "f_walk", "f_unlock") /\ o = 0 /\ ReadStep(p, db[p])
    BY <1>3 DEF FreeWalk
  <2>2. Pointer(o) BY Facts DEF HandleFits
  <2>3. CASE o # 0
    <3>1. o \in FirstRec..(ieof - 1) /\ Pointer(ptr[o])
      BY <2>2, <2>3, Facts, Sizes DEF Pointer, FilesFit, FileType
    <3>2. HandleFits(h1) /\ h1.idxoff = o /\ h1.datoff < deof
      BY <3>1, Facts, ReadIdxFits
    <3>. HIDE DEF o, h1
    <3>3. HandleFits(h2) BY <2>2, <3>2, Facts, SetField
    <3>4. HandleFits(h3)
      <4>. HIDE DEF h2
      <4>. QED BY <3>1, <3>3, Facts, SetField
    <3>5. Positioned("f_walk", h3) BY Anywhere DEF RecordPC, DataPC, DelPC
    <3>6. Positioned("f_unlink", h1)
      BY <3>1, <3>2 DEF Positioned, RecordPC, DataPC, DelPC
    <3>. HIDE DEF h3
    <3>. QED BY <2>1, <2>3, <3>2, <3>4, <3>5, <3>6, ReadStepKeeps
  <2>4. CASE o = 0
    <3>1. Positioned("f_unlock", db[p])
      BY <2>4 DEF Positioned, RecordPC, DataPC, DelPC
    <3>. QED BY <2>1, <2>4, <3>1, Facts, ReadStepKeeps
  <2>. QED BY <2>3, <2>4
<1>4. CASE FreeUnlink(p)
  <2>1. /\ Transition(p, "f_unlink", "f_unlock")
        /\ WritePtr(p, db[p].save, db[p].ptrval, db[p])
    BY <1>4 DEF FreeUnlink
  <2>2. p \in alive /\ pc[p] = "f_unlink" BY <2>1 DEF Transition
  <2>3. Pointer(db[p].ptrval) /\ db[p].save \in 0..(ieof - 1)
    BY Facts, Sizes DEF HandleFits, Pointer, FileType
  <2>4. Positioned("f_unlock", db[p])
    BY <2>2, Facts DEF Positioned, RecordPC, DataPC, DelPC
  <2>. QED BY <2>1, <2>2, <2>3, <2>4, Facts, WritePtrKeeps
<1>5. CASE FreeUnlock(p)
  <2>1. /\ Transition(p, "f_unlock", IF db[p].offset = 0 THEN "a_lock_dat"
                                                         ELSE "r_write_dat")
        /\ pc[p] = "f_unlock"
    BY <1>5 DEF FreeUnlock, Transition
  <2>2. Positioned("a_lock_dat", db[p]) BY Anywhere DEF RecordPC, DataPC, DelPC
  <2>3. db[p].offset # 0 => Positioned("r_write_dat", db[p])
    BY <2>1, Facts DEF Positioned, RecordPC, DataPC, DelPC
  <2>. QED BY <1>5, <2>1, <2>2, <2>3, LockStepKeeps DEF FreeUnlock
<1>. QED BY <1>1, <1>2, <1>3, <1>4, <1>5 DEF FindFree

LEMMA StoreNewKeepsFiles ==
  ASSUME IndInv, NEW p \in Proc, StoreNew(p) PROVE FilesInv'
<1>1. CASE StoreReadChain(p)
  <2>. DEFINE h1 == [db[p] EXCEPT !.head = ptr[Chain(p)]]
              h2 == [h1 EXCEPT !.fpos = 0]
  <2>1. PICK to \in {"a_lock_dat", "f_lock"} :
          Transition(p, "s_read_chain", to) /\ ReadStep(p, h2)
    BY <1>1 DEF StoreReadChain
  <2>2. pc[p] \in KeyedPC BY <2>1 DEF Transition, KeyedPC, ChainPC
  <2>3. HandleFits(h1) BY <2>2, Facts, ChainCell, SetField
  <2>4. HandleFits(h2)
    <3>. HIDE DEF h1
    <3>. QED BY <2>3, Facts, SetField
  <2>5. Positioned(to, h2) BY <2>1, Anywhere DEF RecordPC, DataPC, DelPC
  <2>. HIDE DEF h2
  <2>. QED BY <2>1, <2>4, <2>5, ReadStepKeeps
<1>2. CASE ReuseWriteDat(p)
  <2>1. /\ Transition(p, "r_write_dat", "r_write_idx")
        /\ WriteDat(p, db[p].datoff, call[p].data, DatLen[call[p].data])
    BY <1>2 DEF ReuseWriteDat
  <2>2. p \in alive /\ pc[p] = "r_write_dat" BY <2>1 DEF Transition
  <2>3. db[p].datoff \in 0..deof /\ db[p].datoff # deof
    BY <2>2, Facts DEF Positioned, DataPC, HandleType, FileType
  <2>4. call[p].data \in Data /\ DatLen[call[p].data] \in Nat
    BY <2>2, Facts, ArgAssumption DEF CallOK, KeyedPC, ChainPC, StorePC
  <2>5. Positioned("r_write_idx", db[p])
    BY <2>2, Facts DEF Positioned, RecordPC, DelPC, DataPC
  <2>6. db' = [db EXCEPT ![p] = db'[p]] /\ db'[p] = db[p] /\ HandleFits(db[p])
    BY <1>2, Facts DEF ReuseWriteDat
  <2>. QED BY <2>1, <2>2, <2>3, <2>4, <2>5, <2>6, WriteDatKeeps
<1>3. CASE ReuseWriteIdx(p)
  <2>1. /\ Transition(p, "r_write_idx", "s_write_chain")
        /\ WriteIdx(p, db[p].idxoff, call[p].key, KeyLen[call[p].key], db[p].head)
        /\ db' = [db EXCEPT ![p].ptrval = db[p].head, ![p].fpos = db[p].idxoff + 1]
    BY <1>3 DEF ReuseWriteIdx, StoreWriteIdx
  <2>2. p \in alive /\ pc[p] = "r_write_idx" BY <2>1 DEF Transition
  <2>3. db[p].idxoff \in FirstRec..(ieof - 1) /\ db[p].datoff < deof
    BY <2>2, Facts DEF Positioned, RecordPC, DelPC, DataPC
  <2>4. db[p].idxoff \in FirstRec..ieof /\ db[p].idxoff # ieof
    BY <2>3, Facts, Sizes DEF FileType
  <2>5. /\ Pointer(db[p].head) /\ KeyLen[call[p].key] \in Nat
        /\ call[p].key \in Key
    BY <2>2, Facts, ArgAssumption DEF HandleFits, CallOK, KeyedPC, ChainPC
  <2>. QED BY <2>1, <2>2, <2>3, <2>4, <2>5, WriteIdxKeeps
<1>4. CASE LockDat(p)
  <2>1. Positioned("a_seek_dat", db[p]) BY Anywhere DEF RecordPC, DataPC, DelPC
  <2>. QED BY <1>4, <2>1, LockStepKeeps DEF LockDat
<1>5. CASE SeekDat(p)
  <2>. DEFINE h1 == [db[p] EXCEPT !.datoff = deof]
              h2 == [h1 EXCEPT !.datlen = DatLen[call[p].data]]
  <2>1. Transition(p, "a_seek_dat", "a_write_dat") /\ ReadStep(p, h2)
    BY <1>5 DEF SeekDat
  <2>2. pc[p] = "a_seek_dat" BY <2>1 DEF Transition
  <2>3. deof \in Nat /\ DatLen[call[p].data] \in Nat
    BY <2>2, Facts, ArgAssumption DEF CallOK, KeyedPC, ChainPC, StorePC, FileType
  <2>4. HandleFits(h1) BY <2>3, Facts, SetField
  <2>5. HandleFits(h2)
    <3>. HIDE DEF h1
    <3>. QED BY <2>3, <2>4, Facts, SetField
  <2>6. h2.datoff = deof BY Facts DEF HandleType
  <2>7. Positioned("a_write_dat", h2) BY Anywhere DEF RecordPC, DataPC, DelPC
  <2>. HIDE DEF h2
  <2>. QED BY <2>1, <2>5, <2>6, <2>7, ReadStepKeeps
<1>6. CASE AppendDat(p)
  <2>1. /\ Transition(p, "a_write_dat", "a_unlock_dat")
        /\ WriteDat(p, db[p].datoff, call[p].data, db[p].datlen)
    BY <1>6 DEF AppendDat
  <2>2. p \in alive /\ pc[p] = "a_write_dat" BY <2>1 DEF Transition
  <2>3. db[p].datoff = deof /\ db[p].datoff \in 0..deof /\ "a_write_dat" \in DatPC
    BY <2>2, Facts DEF IndInv, FilesInv, AppendAtEnd, FileType, DatPC
  <2>4. call[p].data \in Data /\ db[p].datlen \in Nat
    BY <2>2, Facts DEF CallOK, KeyedPC, ChainPC, StorePC, HandleType
  <2>5. db' = [db EXCEPT ![p] = db'[p]] /\ db'[p] = db[p] /\ HandleFits(db[p])
    BY <1>6, Facts DEF AppendDat
  <2>. QED BY <2>1, <2>2, <2>3, <2>4, <2>5, WriteDatKeeps
<1>7. CASE UnlockDat(p)
  <2>1. Positioned("a_lock_idx", db[p])
    BY <1>7, Facts DEF UnlockDat, Transition, Positioned, RecordPC, DelPC, DataPC
  <2>. QED BY <1>7, <2>1, LockStepKeeps DEF UnlockDat
<1>8. CASE LockIdx(p)
  <2>1. Positioned("a_seek_idx", db[p])
    BY <1>8, Facts DEF LockIdx, Transition, Positioned, RecordPC, DelPC, DataPC
  <2>. QED BY <1>8, <2>1, LockStepKeeps DEF LockIdx
<1>9. CASE SeekIdx(p)
  <2>. DEFINE h == [db[p] EXCEPT !.idxoff = ieof]
  <2>1. Transition(p, "a_seek_idx", "a_write_idx") /\ ReadStep(p, h)
    BY <1>9 DEF SeekIdx
  <2>2. pc[p] = "a_seek_idx" BY <2>1 DEF Transition
  <2>3. HandleFits(h) BY Facts, SetField DEF FileType
  <2>4. h.idxoff = ieof /\ h.datoff = db[p].datoff BY Facts DEF HandleType
  <2>. HIDE DEF h
  <2>5. Positioned("a_write_idx", h)
    BY <2>2, <2>4, Facts DEF Positioned, RecordPC, DelPC, DataPC
  <2>. QED BY <2>1, <2>3, <2>4, <2>5, ReadStepKeeps
<1>10. CASE AppendIdx(p)
  <2>1. /\ Transition(p, "a_write_idx", "a_unlock_idx")
        /\ WriteIdx(p, db[p].idxoff, call[p].key, KeyLen[call[p].key], db[p].head)
        /\ db' = [db EXCEPT ![p].ptrval = db[p].head, ![p].fpos = db[p].idxoff + 1]
    BY <1>10 DEF AppendIdx, StoreWriteIdx
  <2>2. p \in alive /\ pc[p] = "a_write_idx" BY <2>1 DEF Transition
  <2>3. /\ db[p].idxoff \in FirstRec..ieof /\ "a_write_idx" \in IdxPC
        /\ db[p].datoff < deof
    BY <2>2, Facts, Sizes
    DEF IndInv, FilesInv, AppendAtEnd, FileType, Positioned, DataPC, IdxPC
  <2>4. /\ Pointer(db[p].head) /\ KeyLen[call[p].key] \in Nat
        /\ call[p].key \in Key
    BY <2>2, Facts, ArgAssumption DEF HandleFits, CallOK, KeyedPC, ChainPC
  <2>. QED BY <2>1, <2>2, <2>3, <2>4, WriteIdxKeeps
<1>11. CASE UnlockIdx(p)
  <2>1. Positioned("s_write_chain", db[p])
    BY <1>11, Facts DEF UnlockIdx, Transition, Positioned, RecordPC, DelPC, DataPC
  <2>. QED BY <1>11, <2>1, LockStepKeeps DEF UnlockIdx
<1>12. CASE StoreWriteChain(p)
  <2>1. /\ Transition(p, "s_write_chain", "unlock")
        /\ WritePtr(p, Chain(p), db[p].idxoff, Answer(p, "ok", NoKey, NoData))
        /\ db[p].idxoff <= PTR_MAX
    BY <1>12 DEF StoreWriteChain
  <2>2. p \in alive /\ pc[p] = "s_write_chain" /\ pc[p] \in KeyedPC
    BY <2>1 DEF Transition, KeyedPC, ChainPC
  <2>3. Pointer(db[p].idxoff)
    BY <2>1, <2>2, Facts DEF Positioned, RecordPC, Pointer
  <2>4. HandleFits(Answer(p, "ok", NoKey, NoData)) BY AnswerFits
  <2>5. \A h : Positioned("unlock", h) BY Anywhere DEF RecordPC, DataPC, DelPC
  <2>. QED BY <2>1, <2>2, <2>3, <2>4, <2>5, ChainCell, WritePtrKeeps
<1>13. CASE StorePtrOverflow(p)
  BY <1>13, DeathKeepsFiles DEF StorePtrOverflow
<1>14. CASE OverwriteDat(p)
  <2>1. /\ Transition(p, "o_write_dat", "unlock")
        /\ WriteDat(p, db[p].datoff, call[p].data, DatLen[call[p].data])
        /\ db' = [db EXCEPT ![p] = Answer(p, "ok", NoKey, NoData)]
    BY <1>14 DEF OverwriteDat
  <2>2. p \in alive /\ pc[p] = "o_write_dat" BY <2>1 DEF Transition
  <2>3. db[p].datoff \in 0..deof /\ db[p].datoff # deof
    BY <2>2, Facts DEF Positioned, DataPC, HandleType, FileType
  <2>4. call[p].data \in Data /\ DatLen[call[p].data] \in Nat
    BY <2>2, Facts, ArgAssumption DEF CallOK, KeyedPC, ChainPC, StorePC
  <2>5. /\ db' = [db EXCEPT ![p] = db'[p]] /\ HandleFits(db'[p])
    BY <2>1, Facts, AnswerFits
  <2>6. \A h : Positioned("unlock", h) BY Anywhere DEF RecordPC, DataPC, DelPC
  <2>7. /\ Transition(p, "o_write_dat", "unlock")
        /\ WriteDat(p, db[p].datoff, call[p].data, DatLen[call[p].data])
    BY <2>1
  <2>. QED BY <2>2, <2>3, <2>4, <2>5, <2>6, <2>7, WriteDatKeeps
<1>. QED BY <1>1, <1>2, <1>3, <1>4, <1>5, <1>6, <1>7, <1>8, <1>9, <1>10, <1>11,
           <1>12, <1>13, <1>14 DEF StoreNew

LEMMA NextrecKeepsFiles ==
  ASSUME IndInv, NEW p \in Proc, Nextrec(p) PROVE FilesInv'
<1>1. CASE NextLock(p)
  <2>1. Positioned("n_read", db[p]) BY Anywhere DEF RecordPC, DataPC, DelPC
  <2>. QED BY <1>1, <2>1, LockStepKeeps DEF NextLock
<1>2. CASE NextRead(p)
  <2>. DEFINE o == db[p].fpos
              h == ReadIdx(db[p], o)
              a == Answer(p, "error", NoKey, NoData)
  <2>1. \/ Transition(p, "n_read", "n_unlock") /\ ReadStep(p, a)
        \/ /\ o # 0 /\ o < ieof /\ ReadStep(p, h)
           /\ \E to \in {"n_read", "n_read_dat"} : Transition(p, "n_read", to)
    BY <1>2 DEF NextRead
  <2>2. CASE Transition(p, "n_read", "n_unlock") /\ ReadStep(p, a)
    <3>1. HandleFits(a) BY AnswerFits
    <3>2. Positioned("n_unlock", a) BY Anywhere DEF RecordPC, DataPC, DelPC
    <3>. QED BY <2>2, <3>1, <3>2, ReadStepKeeps
  <2>3. ASSUME NEW to \in {"n_read", "n_read_dat"}, Transition(p, "n_read", to),
               o # 0, o < ieof, ReadStep(p, h)
        PROVE  FilesInv'
    <3>1. o \in FirstRec..(ieof - 1)
      BY <2>3, Facts, Sizes DEF HandleFits, HandleType, FileType
    <3>2. HandleFits(h) /\ h.datoff < deof BY <3>1, Facts, ReadIdxFits
    <3>3. Positioned(to, h)
      BY <3>2, <2>3 DEF Positioned, RecordPC, DataPC, DelPC
    <3>. QED BY <2>3, <3>2, <3>3, ReadStepKeeps
  <2>. QED BY <2>1, <2>2, <2>3
<1>3. CASE NextGarbage(p)
  BY <1>3, DeathKeepsFiles DEF NextGarbage
<1>4. CASE NextDat(p)
  <2>1. pc[p] = "n_read_dat" BY <1>4 DEF NextDat, Transition
  <2>2. db[p].datoff \in 0..(deof - 1) /\ db[p].key \in Key \cup {NoKey, Blank}
    BY <2>1, Facts DEF Positioned, DataPC, HandleType, FileType
  <2>3. dat[db[p].datoff].val \in Data \cup {Blank}
    BY <2>2, Facts DEF FileType, DatType
  <2>4. HandleFits(Answer(p, "ok", db[p].key, dat[db[p].datoff].val))
    BY <2>2, <2>3, AnswerFits
  <2>5. \A h : Positioned("n_unlock", h) BY Anywhere DEF RecordPC, DataPC, DelPC
  <2>. QED BY <1>4, <2>4, <2>5, ReadStepKeeps DEF NextDat
<1>5. CASE NextUnlock(p)
  <2>1. /\ UNCHANGED <<ptr, rec, ieof, dat, deof>> /\ alive' = alive
        /\ pc' = [pc EXCEPT ![p] = "idle"]
        /\ db' = [db EXCEPT ![p] = Handle(db[p].fpos)]
    BY <1>5 DEF NextUnlock, Transition, idxvars, datvars
  <2>. QED BY <2>1, ResetKeepsFiles
<1>. QED BY <1>1, <1>2, <1>3, <1>4, <1>5 DEF Nextrec

LEMMA InvokeKeepsFiles ==
  ASSUME IndInv, NEW p \in Proc, Invoke(p) PROVE FilesInv'
<1>1. ASSUME NEW c, NEW to \in {"lock_chain", "n_lock"}, Begin(p, c, to)
      PROVE  FilesInv'
  <2>1. /\ UNCHANGED <<ptr, rec, ieof, dat, deof, db>> /\ alive' = alive
        /\ pc' = [pc EXCEPT ![p] = to]
    BY <1>1 DEF Begin, Transition, idxvars, datvars
  <2>2. Positioned(to, db[p]) BY Anywhere DEF RecordPC, DataPC, DelPC
  <2>3. /\ db' \in [Proc -> HandleType] /\ db'[p] = db[p] /\ pc'[p] = to
        /\ \A q \in Proc \ {p} : db'[q] = db[q] /\ pc'[q] = pc[q]
    BY <2>1, Facts
  <2>. QED BY <2>1, <2>2, <2>3, Facts, ReadKeepsFiles DEF IndInv
<1>2. ASSUME NEW d \in Data, StoreBadLength(p, d) PROVE FilesInv'
  BY <1>2, DeathKeepsFiles DEF StoreBadLength
<1>3. CASE StoreBadFlag(p)
  BY <1>3, IdleKeepsFiles DEF StoreBadFlag, idxvars, datvars
<1>4. CASE Rewind(p)
  <2>. DEFINE h == [db[p] EXCEPT !.fpos = FirstRec]
  <2>1. /\ UNCHANGED <<ptr, rec, ieof, dat, deof, pc>> /\ alive' = alive
        /\ db' = [db EXCEPT ![p].fpos = FirstRec] /\ pc[p] = "idle"
    BY <1>4 DEF Rewind, idxvars, datvars
  <2>2. HandleFits(h) BY Facts, SetField, Sizes DEF FileType
  <2>3. Positioned("idle", h) BY Anywhere DEF RecordPC, DataPC, DelPC
  <2>4. db' = [db EXCEPT ![p] = h] /\ h \in HandleType
    BY <2>1, <2>2, Facts DEF HandleFits
  <2>. HIDE DEF h
  <2>5. /\ db' \in [Proc -> HandleType] /\ db'[p] = h /\ pc'[p] = "idle"
        /\ \A q \in Proc \ {p} : db'[q] = db[q] /\ pc'[q] = pc[q]
    BY <2>1, <2>4, Facts
  <2>. QED BY <2>1, <2>2, <2>3, <2>5, Facts, ReadKeepsFiles DEF IndInv
<1>. QED BY <1>1, <1>2, <1>3, <1>4
         DEF Invoke, CallFetch, CallDelete, CallStore, CallNextrec

\* The inductive invariant holds in every state.
THEOREM FilesTheorem == Spec => []FilesInv
<1>1. Init => FilesInv
  <2>. SUFFICES ASSUME Init PROVE FilesInv OBVIOUS
  <2>1. FilesFit
    BY Sizes DEF Init, FilesFit, FileType, Pointer, FirstRec
  <2>. DEFINE h == Handle(FirstRec)
  <2>2. NoReply \in ReplyType BY DEF NoReply, Reply, ReplyType
  <2>3. h \in HandleType BY <2>2, Sizes DEF Handle, HandleType
  <2>4. /\ h.offset = 0 /\ h.ptrval = 0 /\ h.save = 0 /\ h.head = 0
        /\ h.ptroff = 0 /\ h.fpos = FirstRec
    BY DEF Handle
  <2>5. HandleFits(h)
    <3>. HIDE DEF h
    <3>. QED BY <2>3, <2>4, Sizes DEF Init, HandleFits, Pointer
  <2>6. Positioned("idle", h) BY Anywhere DEF RecordPC, DataPC, DelPC
  <2>7. \A p \in Proc : db[p] = h /\ pc[p] = "idle" BY DEF Init
  <2>8. db \in [Proc -> HandleType] BY <2>3 DEF Init
  <2>. HIDE DEF h
  <2>. QED BY <2>1, <2>5, <2>6, <2>7, <2>8 DEF FilesInv, AppendAtEnd, Init
<1>2. ControlInv /\ FilesInv /\ [Next]_vars => FilesInv'
  <2>. SUFFICES ASSUME IndInv, [Next]_vars PROVE FilesInv' BY DEF IndInv
  <2>1. ASSUME NEW p \in Proc, Invoke(p) PROVE FilesInv'
    BY <2>1, InvokeKeepsFiles
  <2>2. ASSUME NEW p \in Proc, Step(p) PROVE FilesInv'
    BY <2>2, FindKeepsFiles, DoDeleteKeepsFiles, FindFreeKeepsFiles,
       StoreNewKeepsFiles, NextrecKeepsFiles DEF Step
  <2>3. ASSUME NEW p \in Proc, Crash(p) PROVE FilesInv'
    BY <2>3, DeathKeepsFiles DEF Crash
  <2>4. CASE UNCHANGED vars BY <2>4, IdleKeepsFiles DEF vars
  <2>. QED BY <2>1, <2>2, <2>3, <2>4 DEF Next, Finished
<1>. QED BY <1>1, <1>2, ControlTheorem, PTL DEF Spec

(***************************************************************************)
(* Types of the whole state: in particular every access of db.c to the     *)
(* index and the data file is inside the file or exactly at its end, for   *)
(* any number of processes, keys, chains and calls, and any crashes.       *)
(***************************************************************************)
THEOREM TypeTheorem == Spec => []TypeOK
<1>1. ControlInv /\ FilesInv => TypeOK
  BY DEF ControlInv, ControlType, FilesInv, FilesFit, FileType, TypeOK
<1>. QED BY <1>1, ControlTheorem, FilesTheorem, PTL

(***************************************************************************)
(* The end of file found by lseek in _db_writedat and _db_writeidx is      *)
(* still the end of the file when the record is written.                   *)
(***************************************************************************)
THEOREM AppendTheorem == Spec => []AppendAtEnd
<1>1. FilesInv => AppendAtEnd BY DEF FilesInv
<1>. QED BY <1>1, FilesTheorem, PTL

(***************************************************************************)
(* No pointer written by _db_writeptr or _db_writeidx exceeds PTR_MAX or   *)
(* points outside the index file.                                          *)
(***************************************************************************)
THEOREM PointersTheorem == Spec => []PointersFit
<1>1. FilesInv => PointersFit
  BY Sizes DEF FilesInv, FilesFit, FileType, Pointer, PointersFit
<1>. QED BY <1>1, FilesTheorem, PTL
-----------------------------------------------------------------------------
(***************************************************************************)
(* Sizes.  What a handle says of the sizes of its record stays true, since *)
(* no step changes them; so each write is of the size that was there.      *)
(***************************************************************************)
\* An index record has the length of its key and of its data record.
RecordSized(i) ==
  /\ dat[rec[i].datoff].len = rec[i].datlen
  /\ rec[i].key # Blank => rec[i].klen = KeyLen[rec[i].key]

\* The handle describes the record at idxoff, which has the length of the key.
Describes(h, c) ==
  /\ rec[h.idxoff].datoff = h.datoff /\ rec[h.idxoff].datlen = h.datlen
  /\ rec[h.idxoff].klen = KeyLen[c.key]

Reusing(l, h) ==
  l \in {"f_unlink", "r_write_dat", "r_write_idx"} \/ (l = "f_unlock" /\ h.offset # 0)
Sized(l, h, c) ==
  /\ l \in {"d_lock_free", "d_write_dat", "d_read_free", "d_write_idx"} => Describes(h, c)
  /\ Reusing(l, h) => Describes(h, c) /\ h.datlen = DatLen[c.data]
  /\ l = "o_write_dat" => dat[h.datoff].len = DatLen[c.data]
  /\ l \in {"a_unlock_dat", "a_lock_idx", "a_seek_idx", "a_write_idx"} =>
       dat[h.datoff].len = h.datlen

SizeInv ==
  /\ \A i \in FirstRec..(ieof - 1) : RecordSized(i)
  /\ \A p \in Proc : Sized(pc[p], db[p], call[p])
-----------------------------------------------------------------------------
\* The fields of a handle after _db_readidx.
LEMMA ReadIdxFields ==
  ASSUME NEW h \in HandleType, NEW o
  PROVE  /\ ReadIdx(h, o).idxoff = o /\ ReadIdx(h, o).ptrval = ptr[o]
         /\ ReadIdx(h, o).key = rec[o].key /\ ReadIdx(h, o).datoff = rec[o].datoff
         /\ ReadIdx(h, o).datlen = rec[o].datlen /\ ReadIdx(h, o).fpos = o + 1
         /\ ReadIdx(h, o).offset = h.offset /\ ReadIdx(h, o).ptroff = h.ptroff
         /\ ReadIdx(h, o).save = h.save /\ ReadIdx(h, o).head = h.head
         /\ ReadIdx(h, o).found = h.found /\ ReadIdx(h, o).ret = h.ret
         /\ DOMAIN ReadIdx(h, o) = DOMAIN h
BY DEF ReadIdx, HandleType

\* What the file half of the invariant says of the records of a process.
LEMMA SlotFacts ==
  ASSUME IndInv, NEW p \in Proc
  PROVE  /\ FirstRec \in Nat /\ ieof \in Nat /\ deof \in Nat
         /\ DOMAIN rec = FirstRec..(ieof - 1) /\ DOMAIN dat = 0..(deof - 1)
         /\ db[p] \in HandleType /\ db[p].idxoff \in Nat /\ db[p].datoff \in Nat
         /\ pc[p] \in {"d_lock_free", "d_write_dat", "d_read_free", "d_write_idx"} =>
              db[p].idxoff \in FirstRec..(ieof - 1) /\ db[p].datoff \in 0..(deof - 1)
         /\ Reusing(pc[p], db[p]) =>
              db[p].idxoff \in FirstRec..(ieof - 1) /\ db[p].datoff \in 0..(deof - 1)
         /\ pc[p] \in {"o_write_dat", "a_unlock_dat", "a_lock_idx", "a_seek_idx",
                       "a_write_idx"} => db[p].datoff \in 0..(deof - 1)
<1>1. /\ FileType /\ db[p] \in HandleType /\ Positioned(pc[p], db[p])
  BY Facts
<1>2. /\ FirstRec \in Nat /\ ieof \in Nat /\ deof \in Nat
      /\ DOMAIN rec = FirstRec..(ieof - 1) /\ DOMAIN dat = 0..(deof - 1)
      /\ db[p].idxoff \in Nat /\ db[p].datoff \in Nat
  BY <1>1, Sizes DEF FileType, HandleType
<1>3. pc[p] \in {"d_lock_free", "d_write_dat", "d_read_free", "d_write_idx"} =>
        db[p].idxoff \in FirstRec..(ieof - 1) /\ db[p].datoff \in 0..(deof - 1)
  BY <1>1, <1>2 DEF Positioned, RecordPC, DelPC, DataPC
<1>4. Reusing(pc[p], db[p]) =>
        db[p].idxoff \in FirstRec..(ieof - 1) /\ db[p].datoff \in 0..(deof - 1)
  BY <1>1, <1>2 DEF Positioned, RecordPC, DelPC, DataPC, Reusing
<1>5. pc[p] \in {"o_write_dat", "a_unlock_dat", "a_lock_idx", "a_seek_idx",
                "a_write_idx"} => db[p].datoff \in 0..(deof - 1)
  BY <1>1, <1>2 DEF Positioned, DataPC
<1> QED BY <1>1, <1>2, <1>3, <1>4, <1>5

\* A process that does not move keeps what it knows, because the sizes are kept.
LEMMA OthersSized ==
  ASSUME IndInv, SizesKept, NEW q \in Proc, Sized(pc[q], db[q], call[q]),
         db'[q] = db[q], pc'[q] = pc[q], call'[q] = call[q]
  PROVE  Sized(pc[q], db[q], call[q])'
<1>1. ASSUME Reusing(pc[q], db[q]) \/
             pc[q] \in {"d_lock_free", "d_write_dat", "d_read_free", "d_write_idx"}
      PROVE  Describes(db[q], call[q]) => Describes(db[q], call[q])'
  <2>1. db[q].idxoff \in DOMAIN rec
    BY <1>1, SlotFacts
  <2> QED BY <2>1 DEF SizesKept, Describes
<1>2. pc[q] \in {"o_write_dat", "a_unlock_dat", "a_lock_idx", "a_seek_idx",
                "a_write_idx"} => dat'[db[q].datoff].len = dat[db[q].datoff].len
  BY SlotFacts DEF SizesKept
<1> QED BY <1>1, <1>2 DEF Sized, Reusing

\* A step of p that leaves the records alone; it may write a pointer.
LEMMA NoRecordWritten ==
  ASSUME IndInv, SizeInv, NEW p \in Proc, UNCHANGED <<rec, ieof, dat, deof>>,
         \A q \in Proc \ {p} : db'[q] = db[q] /\ pc'[q] = pc[q] /\ call'[q] = call[q],
         Sized(pc'[p], db'[p], call'[p])
  PROVE  SizeInv' /\ SizesKept
<1>1. SizesKept
  BY DEF SizesKept
<1>2. \A i \in FirstRec..(ieof' - 1) : RecordSized(i)'
  BY DEF SizeInv, RecordSized
<1>3. Sized(pc[p], db[p], call[p])'
  BY DEF Sized, Describes, Reusing
<1>4. ASSUME NEW q \in Proc, q # p PROVE Sized(pc[q], db[q], call[q])'
  BY <1>1, <1>4, OthersSized DEF SizeInv
<1> QED BY <1>1, <1>2, <1>3, <1>4 DEF SizeInv

\* _db_writedat, over a data record of the same length or at the end.
LEMMA DatKeepsSizes ==
  ASSUME IndInv, SizeInv, NEW p \in Proc, NEW o \in 0..deof, NEW v, NEW n,
         WriteDat(p, o, v, n), o # deof => dat[o].len = n,
         \A q \in Proc \ {p} : db'[q] = db[q] /\ pc'[q] = pc[q] /\ call'[q] = call[q],
         Sized(pc[p], db[p], call[p])'
  PROVE  SizeInv' /\ SizesKept
<1>1. /\ UNCHANGED <<rec, ieof>>
      /\ dat' = [i \in DOMAIN dat \cup {o} |-> IF i = o THEN [val |-> v, len |-> n] ELSE dat[i]]
  BY DEF WriteDat
<1>2. \A i \in DOMAIN dat : dat'[i].len = dat[i].len
  <2>1. ASSUME NEW i \in DOMAIN dat PROVE dat'[i].len = dat[i].len
    <3>1. CASE i = o
      <4>1. dat'[i].len = n
        BY <1>1, <3>1
      <4>2. o # deof
        BY <3>1, SlotFacts
      <4> QED BY <3>1, <4>1, <4>2
    <3>2. CASE i # o
      BY <1>1, <3>2
    <3> QED BY <3>1, <3>2
  <2> QED BY <2>1
<1>3. SizesKept
  BY <1>1, <1>2 DEF SizesKept
<1>4. ASSUME NEW i \in FirstRec..(ieof - 1) PROVE RecordSized(i)'
  <2>1. rec[i].datoff \in DOMAIN dat /\ RecordSized(i)
    <3>1. FilesFit /\ rec[i] \in RecType
      BY Facts DEF FilesFit, FileType
    <3>2. rec[i].datoff \in Nat /\ rec[i].datoff < deof
      BY <3>1 DEF FilesFit, RecType
    <3> QED BY <3>2, SlotFacts DEF SizeInv
  <2> QED BY <1>1, <1>2, <2>1 DEF RecordSized
<1>5. ASSUME NEW q \in Proc, q # p PROVE Sized(pc[q], db[q], call[q])'
  BY <1>3, <1>5, OthersSized DEF SizeInv
<1> QED BY <1>1, <1>3, <1>4, <1>5 DEF SizeInv

\* _db_writeidx, over a record of the same sizes or at the end; its data
\* record has been written.
LEMMA IdxKeepsSizes ==
  ASSUME IndInv, SizeInv, NEW p \in Proc, NEW o \in FirstRec..ieof, NEW k, NEW n, NEW v,
         WriteIdx(p, o, k, n, v), db[p].datoff \in DOMAIN dat,
         o # ieof => /\ rec[o].klen = n /\ rec[o].datoff = db[p].datoff
                     /\ rec[o].datlen = db[p].datlen,
         o = ieof => dat[db[p].datoff].len = db[p].datlen,
         k # Blank => n = KeyLen[k],
         \A q \in Proc \ {p} : db'[q] = db[q] /\ pc'[q] = pc[q] /\ call'[q] = call[q],
         Sized(pc[p], db[p], call[p])'
  PROVE  SizeInv' /\ SizesKept
<1> DEFINE r == [key |-> k, klen |-> n, datoff |-> db[p].datoff, datlen |-> db[p].datlen]
<1>1. /\ UNCHANGED <<dat, deof>> /\ ieof' = (IF o < ieof THEN ieof ELSE o + 1)
      /\ rec' = [i \in DOMAIN rec \cup {o} |-> IF i = o THEN r ELSE rec[i]]
  BY DEF WriteIdx
<1>2. r.key = k /\ r.klen = n /\ r.datoff = db[p].datoff /\ r.datlen = db[p].datlen
  OBVIOUS
<1> HIDE DEF r
<1>3. /\ FirstRec \in Nat /\ ieof \in Nat /\ DOMAIN rec = FirstRec..(ieof - 1)
  BY SlotFacts
<1>4. SizesKept
  BY <1>1, <1>2, <1>3 DEF SizesKept
<1>5. ASSUME NEW i \in FirstRec..(ieof' - 1) PROVE RecordSized(i)'
  <2>1. CASE i = o
    <3>1. rec'[i] = r
      BY <1>1, <2>1
    <3>2. o # ieof => RecordSized(o)
      BY <1>3 DEF SizeInv
    <3>3. dat[db[p].datoff].len = db[p].datlen
      BY <3>2 DEF RecordSized
    <3> QED BY <1>1, <1>2, <3>1, <3>3 DEF RecordSized
  <2>2. CASE i # o
    <3>1. i \in FirstRec..(ieof - 1)
      BY <1>1, <1>3, <2>2
    <3>2. rec'[i] = rec[i]
      BY <1>1, <1>3, <2>2, <3>1
    <3> QED BY <1>1, <3>1, <3>2 DEF SizeInv, RecordSized
  <2> QED BY <2>1, <2>2
<1>6. ASSUME NEW q \in Proc, q # p PROVE Sized(pc[q], db[q], call[q])'
  BY <1>4, <1>6, OthersSized DEF SizeInv
<1> QED BY <1>4, <1>5, <1>6 DEF SizeInv

\* The labels at which a handle says something of sizes.
SizedPC == {"d_lock_free", "d_write_dat", "d_read_free", "d_write_idx", "f_unlink", "f_unlock",
            "r_write_dat", "r_write_idx", "o_write_dat", "a_unlock_dat", "a_lock_idx",
            "a_seek_idx", "a_write_idx"}

LEMMA SizedAnywhere ==
  ASSUME NEW l, l \notin SizedPC
  PROVE  \A h, c : Sized(l, h, c)
BY DEF Sized, SizedPC, Reusing

LEMMA ReadKeepsSizes ==
  ASSUME IndInv, SizeInv, NEW p \in Proc, NEW from, NEW to, NEW h,
         Transition(p, from, to), ReadStep(p, h), Sized(to, h, call[p])
  PROVE  SizeInv' /\ SizesKept
<1>1. /\ UNCHANGED <<rec, ieof, dat, deof, call>>
      /\ db' = [db EXCEPT ![p] = h] /\ pc' = [pc EXCEPT ![p] = to]
  BY DEF ReadStep, Transition
<1>2. /\ db'[p] = h /\ pc'[p] = to /\ call'[p] = call[p]
      /\ \A q \in Proc \ {p} : db'[q] = db[q] /\ pc'[q] = pc[q] /\ call'[q] = call[q]
  BY <1>1, Facts
<1> QED BY <1>1, <1>2, NoRecordWritten

LEMMA LockKeepsSizes ==
  ASSUME IndInv, SizeInv, NEW p \in Proc, NEW from, NEW to,
         Transition(p, from, to), LockStep, Sized(to, db[p], call[p])
  PROVE  SizeInv' /\ SizesKept
<1>1. /\ UNCHANGED <<rec, ieof, dat, deof, call, db>> /\ pc' = [pc EXCEPT ![p] = to]
  BY DEF LockStep, Transition
<1>2. /\ pc'[p] = to /\ \A q \in Proc \ {p} : pc'[q] = pc[q]
  BY <1>1, Facts
<1> QED BY <1>1, <1>2, NoRecordWritten

LEMMA PtrKeepsSizes ==
  ASSUME IndInv, SizeInv, NEW p \in Proc, NEW from, NEW to, NEW o, NEW v, NEW h,
         Transition(p, from, to), WritePtr(p, o, v, h),
         Sized(to, [h EXCEPT !.fpos = 0], call[p])
  PROVE  SizeInv' /\ SizesKept
<1> DEFINE g == [h EXCEPT !.fpos = 0]
<1>1. /\ UNCHANGED <<rec, ieof, dat, deof, call>>
      /\ db' = [db EXCEPT ![p] = g] /\ pc' = [pc EXCEPT ![p] = to]
  BY DEF WritePtr, Transition
<1> HIDE DEF g
<1>2. /\ db'[p] = g /\ pc'[p] = to /\ call'[p] = call[p]
      /\ \A q \in Proc \ {p} : db'[q] = db[q] /\ pc'[q] = pc[q] /\ call'[q] = call[q]
  BY <1>1, Facts
<1> QED BY <1>1, <1>2, NoRecordWritten DEF g

\* A process that returns or dies, or begins a call.
LEMMA ResetKeepsSizes ==
  ASSUME IndInv, SizeInv, NEW p \in Proc, UNCHANGED <<rec, ieof, dat, deof>>,
         \A q \in Proc \ {p} : db'[q] = db[q] /\ pc'[q] = pc[q] /\ call'[q] = call[q],
         pc'[p] \notin SizedPC
  PROVE  SizeInv' /\ SizesKept
BY SizedAnywhere, NoRecordWritten

LEMMA QuietKeepsSizes ==
  ASSUME IndInv, SizeInv, UNCHANGED <<rec, ieof, dat, deof, pc, db, call>>
  PROVE  SizeInv' /\ SizesKept
<1>1. SizesKept
  BY DEF SizesKept
<1>2. ASSUME NEW q \in Proc PROVE Sized(pc[q], db[q], call[q])'
  BY <1>1, <1>2, OthersSized DEF SizeInv
<1> QED BY <1>1, <1>2 DEF SizeInv, RecordSized

LEMMA FindKeepsSizes ==
  ASSUME IndInv, SizeInv, NEW p \in Proc, Find(p)
  PROVE  SizeInv' /\ SizesKept
<1>1. CASE LockChain(p)
  BY <1>1, SizedAnywhere, LockKeepsSizes DEF LockChain, SizedPC
<1>2. CASE ReadChain(p)
  BY <1>2, SizedAnywhere, ReadKeepsSizes DEF ReadChain, SizedPC
<1>3. CASE WalkNext(p)
  BY <1>3, SizedAnywhere, ReadKeepsSizes DEF WalkNext, SizedPC
<1>4. CASE WalkFound(p)
  <2> DEFINE o == db[p].offset
             c == call[p]
             g == ReadIdx(db[p], o)
             h == [g EXCEPT !.found = TRUE]
  <2>1. PICK to \in {"read_dat", "unlock", "d_lock_free", "o_write_dat"},
             f \in {h, [h EXCEPT !.ret = Reply("exists", NoKey, NoData)]} :
          /\ Transition(p, "walk", to) /\ ReadStep(p, f) /\ o # 0 /\ rec[o].key = c.key
          /\ to = "d_lock_free" => f = h
          /\ to = "o_write_dat" => f = h /\ DatLen[c.data] = h.datlen
    BY <1>4 DEF WalkFound
  <2>2. /\ pc[p] = "walk" /\ call[p].key \in Key /\ db[p] \in HandleType
        /\ Pointer(db[p].offset)
    BY <2>1, Facts DEF Transition, CallOK, KeyedPC, ChainPC, HandleFits
  <2>3. o \in FirstRec..(ieof - 1)
    BY <2>1, <2>2 DEF Pointer
  <2>4. RecordSized(o) /\ rec[o].key # Blank
    BY <2>1, <2>2, <2>3, ArgAssumption DEF SizeInv
  <2>5. /\ g.idxoff = o /\ g.datoff = rec[o].datoff /\ g.datlen = rec[o].datlen
        /\ DOMAIN g = DOMAIN db[p]
    BY <2>2, ReadIdxFields
  <2> HIDE DEF g
  <2>6. h.idxoff = o /\ h.datoff = rec[o].datoff /\ h.datlen = rec[o].datlen
    BY <2>2, <2>5 DEF HandleType
  <2> HIDE DEF h
  <2>7. Sized(to, f, c)
    <3>1. CASE to = "d_lock_free"
      BY <2>1, <2>4, <2>6, <3>1 DEF Sized, Describes, RecordSized, Reusing
    <3>2. CASE to = "o_write_dat"
      BY <2>1, <2>4, <2>6, <3>2 DEF Sized, RecordSized, Reusing
    <3>3. CASE to \in {"read_dat", "unlock"}
      BY <3>3, SizedAnywhere DEF SizedPC
    <3> QED BY <3>1, <3>2, <3>3
  <2> QED BY <2>1, <2>7, ReadKeepsSizes
<1>5. CASE WalkEnd(p)
  BY <1>5, SizedAnywhere, ReadKeepsSizes DEF WalkEnd, SizedPC
<1>6. CASE FetchDat(p)
  BY <1>6, SizedAnywhere, ReadKeepsSizes DEF FetchDat, SizedPC
<1>7. CASE Unlock(p)
  <2>1. /\ UNCHANGED <<rec, ieof, dat, deof>> /\ pc' = [pc EXCEPT ![p] = "idle"]
        /\ db' = [db EXCEPT ![p] = Handle(db[p].fpos)] /\ call' = [call EXCEPT ![p] = NoCall]
    BY <1>7 DEF Unlock, Transition, idxvars, datvars
  <2>2. /\ pc'[p] \notin SizedPC
        /\ \A q \in Proc \ {p} : db'[q] = db[q] /\ pc'[q] = pc[q] /\ call'[q] = call[q]
    BY <2>1, Facts DEF SizedPC
  <2> QED BY <2>1, <2>2, ResetKeepsSizes
<1> QED BY <1>1, <1>2, <1>3, <1>4, <1>5, <1>6, <1>7 DEF Find

\* The record of a process that deletes or reuses one.
LEMMA OwnSize ==
  ASSUME IndInv, SizeInv, NEW p \in Proc,
         \/ pc[p] \in {"d_lock_free", "d_write_dat", "d_read_free", "d_write_idx"}
         \/ Reusing(pc[p], db[p])
  PROVE  /\ db[p].idxoff \in FirstRec..(ieof - 1) /\ db[p].datoff \in 0..(deof - 1)
         /\ Describes(db[p], call[p]) /\ dat[db[p].datoff].len = db[p].datlen
<1>1. db[p].idxoff \in FirstRec..(ieof - 1) /\ db[p].datoff \in 0..(deof - 1)
  BY SlotFacts
<1>2. Describes(db[p], call[p])
  BY DEF SizeInv, Sized
<1>3. RecordSized(db[p].idxoff)
  BY <1>1 DEF SizeInv
<1> QED BY <1>1, <1>2, <1>3 DEF RecordSized, Describes

LEMMA DoDeleteKeepsSizes ==
  ASSUME IndInv, SizeInv, NEW p \in Proc, DoDelete(p)
  PROVE  SizeInv' /\ SizesKept
<1>1. CASE DelLockFree(p)
  <2>1. pc[p] = "d_lock_free" /\ Transition(p, "d_lock_free", "d_write_dat") /\ LockStep
    BY <1>1 DEF DelLockFree, Transition
  <2>2. Sized("d_write_dat", db[p], call[p])
    BY <2>1, OwnSize DEF Sized, Reusing
  <2> QED BY <2>1, <2>2, LockKeepsSizes
<1>2. CASE DelWriteDat(p)
  <2>1. /\ pc[p] = "d_write_dat" /\ WriteDat(p, db[p].datoff, Blank, db[p].datlen)
        /\ pc' = [pc EXCEPT ![p] = "d_read_free"] /\ UNCHANGED <<db, call, rec>>
    BY <1>2 DEF DelWriteDat, Transition, WriteDat
  <2>2. /\ db[p].datoff \in 0..(deof - 1) /\ Describes(db[p], call[p])
        /\ dat[db[p].datoff].len = db[p].datlen
    BY <2>1, OwnSize
  <2>3. db[p].datoff \in 0..deof
    BY <2>2, SlotFacts
  <2>4. pc'[p] = "d_read_free" /\ \A q \in Proc \ {p} : pc'[q] = pc[q]
    BY <2>1, Facts
  <2>5. Sized(pc[p], db[p], call[p])'
    BY <2>1, <2>2, <2>4 DEF Sized, Reusing, Describes
  <2> QED BY <2>1, <2>2, <2>3, <2>4, <2>5, DatKeepsSizes
<1>3. CASE DelReadFree(p)
  <2> DEFINE h == [db[p] EXCEPT !.head = ptr[FREE_OFF], !.save = db[p].ptrval, !.fpos = 0]
  <2>1. pc[p] = "d_read_free" /\ Transition(p, "d_read_free", "d_write_idx") /\ ReadStep(p, h)
    BY <1>3 DEF DelReadFree, Transition
  <2>2. h.idxoff = db[p].idxoff /\ h.datoff = db[p].datoff /\ h.datlen = db[p].datlen
    BY Facts DEF HandleType
  <2> HIDE DEF h
  <2>3. Sized("d_write_idx", h, call[p])
    BY <2>1, <2>2, OwnSize DEF Sized, Reusing, Describes
  <2> QED BY <2>1, <2>3, ReadKeepsSizes
<1>4. CASE DelWriteIdx(p)
  <2>1. /\ pc[p] = "d_write_idx" /\ pc' = [pc EXCEPT ![p] = "d_write_free"]
        /\ WriteIdx(p, db[p].idxoff, Blank, KeyLen[call[p].key], db[p].head)
        /\ db' = [db EXCEPT ![p].ptrval = db[p].head, ![p].fpos = db[p].idxoff + 1]
        /\ UNCHANGED call
    BY <1>4 DEF DelWriteIdx, Transition, WriteIdx
  <2>2. /\ db[p].idxoff \in FirstRec..(ieof - 1) /\ db[p].datoff \in DOMAIN dat
        /\ Describes(db[p], call[p])
    BY <2>1, OwnSize, SlotFacts
  <2>3. db[p].idxoff \in FirstRec..ieof /\ db[p].idxoff # ieof
    BY <2>2, SlotFacts
  <2>4. /\ pc'[p] = "d_write_free"
        /\ \A q \in Proc \ {p} : pc'[q] = pc[q] /\ db'[q] = db[q] /\ call'[q] = call[q]
    BY <2>1, Facts
  <2>5. Sized(pc[p], db[p], call[p])'
    BY <2>4 DEF Sized, Reusing
  <2> QED BY <2>1, <2>2, <2>3, <2>4, <2>5, IdxKeepsSizes DEF Describes
<1>5. CASE DelWriteFree(p)
  BY <1>5, SizedAnywhere, PtrKeepsSizes DEF DelWriteFree, SizedPC
<1>6. CASE DelWritePtr(p)
  BY <1>6, SizedAnywhere, PtrKeepsSizes DEF DelWritePtr, SizedPC
<1>7. CASE DelUnlockFree(p)
  <2>1. PICK to \in {"unlock", "s_read_chain"} : Transition(p, "d_unlock_free", to) /\ LockStep
    BY <1>7 DEF DelUnlockFree
  <2> QED BY <2>1, SizedAnywhere, LockKeepsSizes DEF SizedPC
<1> QED BY <1>1, <1>2, <1>3, <1>4, <1>5, <1>6, <1>7 DEF DoDelete

LEMMA FindFreeKeepsSizes ==
  ASSUME IndInv, SizeInv, NEW p \in Proc, FindFree(p)
  PROVE  SizeInv' /\ SizesKept
<1>1. CASE FreeLock(p)
  BY <1>1, SizedAnywhere, LockKeepsSizes DEF FreeLock, SizedPC
<1>2. CASE FreeRead(p)
  BY <1>2, SizedAnywhere, ReadKeepsSizes DEF FreeRead, SizedPC
<1>3. CASE FreeWalk(p)
  <2> DEFINE o == db[p].offset
             h == ReadIdx(db[p], o)
  <2>1. CASE Transition(p, "f_walk", "f_walk") /\ \E f : ReadStep(p, f)
    BY <2>1, SizedAnywhere, ReadKeepsSizes DEF SizedPC
  <2>2. CASE Transition(p, "f_walk", "f_unlink") /\ o # 0 /\ Fits(p, o) /\ ReadStep(p, h)
    <3>1. h.idxoff = o /\ h.datoff = rec[o].datoff /\ h.datlen = rec[o].datlen
      BY Facts, ReadIdxFields
    <3> HIDE DEF h
    <3>2. Sized("f_unlink", h, call[p])
      BY <2>2, <3>1 DEF Fits, Sized, Describes, Reusing
    <3> QED BY <2>2, <3>2, ReadKeepsSizes
  <2>3. CASE Transition(p, "f_walk", "f_unlock") /\ o = 0 /\ ReadStep(p, db[p])
    <3>1. Sized("f_unlock", db[p], call[p])
      BY <2>3 DEF Sized, Reusing
    <3> QED BY <2>3, <3>1, ReadKeepsSizes
  <2> HIDE DEF h
  <2> QED BY <1>3, <2>1, <2>2, <2>3 DEF FreeWalk, h
<1>4. CASE FreeUnlink(p)
  <2> DEFINE h == [db[p] EXCEPT !.fpos = 0]
  <2>1. /\ pc[p] = "f_unlink" /\ Transition(p, "f_unlink", "f_unlock")
        /\ WritePtr(p, db[p].save, db[p].ptrval, db[p])
    BY <1>4 DEF FreeUnlink, Transition
  <2>2. h.idxoff = db[p].idxoff /\ h.datoff = db[p].datoff /\ h.datlen = db[p].datlen
    BY Facts DEF HandleType
  <2>3. Describes(db[p], call[p]) /\ db[p].datlen = DatLen[call[p].data]
    BY <2>1 DEF SizeInv, Sized, Reusing
  <2> HIDE DEF h
  <2>4. Sized("f_unlock", h, call[p])
    BY <2>2, <2>3 DEF Sized, Describes
  <2> QED BY <2>1, <2>4, PtrKeepsSizes DEF h
<1>5. CASE FreeUnlock(p)
  <2>1. PICK to \in {"a_lock_dat", "r_write_dat"} :
          /\ Transition(p, "f_unlock", to) /\ LockStep
          /\ to = "r_write_dat" => db[p].offset # 0
    BY <1>5 DEF FreeUnlock
  <2>2. Sized(to, db[p], call[p])
    <3>1. pc[p] = "f_unlock" /\ Sized(pc[p], db[p], call[p])
      BY <2>1 DEF Transition, SizeInv
    <3> QED BY <2>1, <3>1 DEF Sized, Reusing
  <2> QED BY <2>1, <2>2, LockKeepsSizes
<1> QED BY <1>1, <1>2, <1>3, <1>4, <1>5 DEF FindFree

LEMMA StoreNewKeepsSizes ==
  ASSUME IndInv, SizeInv, NEW p \in Proc, StoreNew(p)
  PROVE  SizeInv' /\ SizesKept
<1>1. CASE StoreReadChain(p)
  <2>1. PICK to \in {"a_lock_dat", "f_lock"} :
          Transition(p, "s_read_chain", to) /\ \E h : ReadStep(p, h)
    BY <1>1 DEF StoreReadChain
  <2> QED BY <2>1, SizedAnywhere, ReadKeepsSizes DEF SizedPC
<1>2. CASE ReuseWriteDat(p)
  <2>1. /\ pc[p] = "r_write_dat" /\ pc' = [pc EXCEPT ![p] = "r_write_idx"]
        /\ WriteDat(p, db[p].datoff, call[p].data, DatLen[call[p].data])
        /\ UNCHANGED <<db, call, rec>>
    BY <1>2 DEF ReuseWriteDat, Transition, WriteDat
  <2>2. /\ db[p].datoff \in 0..(deof - 1) /\ Describes(db[p], call[p])
        /\ dat[db[p].datoff].len = db[p].datlen
    BY <2>1, OwnSize DEF Reusing
  <2>3. db[p].datlen = DatLen[call[p].data]
    BY <2>1 DEF SizeInv, Sized, Reusing
  <2>4. db[p].datoff \in 0..deof
    BY <2>2, SlotFacts
  <2>5. pc'[p] = "r_write_idx" /\ \A q \in Proc \ {p} : pc'[q] = pc[q]
    BY <2>1, Facts
  <2>6. Sized(pc[p], db[p], call[p])'
    BY <2>1, <2>2, <2>3, <2>5 DEF Sized, Reusing, Describes
  <2> QED BY <2>1, <2>2, <2>3, <2>4, <2>5, <2>6, DatKeepsSizes
<1>3. CASE ReuseWriteIdx(p)
  <2>1. /\ pc[p] = "r_write_idx" /\ pc' = [pc EXCEPT ![p] = "s_write_chain"]
        /\ WriteIdx(p, db[p].idxoff, call[p].key, KeyLen[call[p].key], db[p].head)
        /\ db' = [db EXCEPT ![p].ptrval = db[p].head, ![p].fpos = db[p].idxoff + 1]
        /\ UNCHANGED call
    BY <1>3 DEF ReuseWriteIdx, StoreWriteIdx, Transition, WriteIdx
  <2>2. /\ db[p].idxoff \in FirstRec..(ieof - 1) /\ db[p].datoff \in DOMAIN dat
        /\ Describes(db[p], call[p])
    BY <2>1, OwnSize, SlotFacts DEF Reusing
  <2>3. db[p].idxoff \in FirstRec..ieof /\ db[p].idxoff # ieof
    BY <2>2, SlotFacts
  <2>4. /\ pc'[p] = "s_write_chain"
        /\ \A q \in Proc \ {p} : pc'[q] = pc[q] /\ db'[q] = db[q] /\ call'[q] = call[q]
    BY <2>1, Facts
  <2>5. Sized(pc[p], db[p], call[p])'
    BY <2>4 DEF Sized, Reusing
  <2> QED BY <2>1, <2>2, <2>3, <2>4, <2>5, IdxKeepsSizes DEF Describes
<1>4. CASE LockDat(p)
  BY <1>4, SizedAnywhere, LockKeepsSizes DEF LockDat, SizedPC
<1>5. CASE SeekDat(p)
  BY <1>5, SizedAnywhere, ReadKeepsSizes DEF SeekDat, SizedPC
<1>6. CASE AppendDat(p)
  <2>1. /\ p \in alive /\ pc[p] = "a_write_dat" /\ pc' = [pc EXCEPT ![p] = "a_unlock_dat"]
        /\ WriteDat(p, db[p].datoff, call[p].data, db[p].datlen) /\ UNCHANGED <<db, call>>
    BY <1>6 DEF AppendDat, Transition, WriteDat
  <2>2. db[p].datoff = deof /\ deof \in 0..deof
    BY <2>1, SlotFacts DEF IndInv, FilesInv, AppendAtEnd
  <2>3. dat'[db[p].datoff].len = db[p].datlen
    BY <2>1 DEF WriteDat
  <2>4. pc'[p] = "a_unlock_dat" /\ \A q \in Proc \ {p} : pc'[q] = pc[q]
    BY <2>1, Facts
  <2>5. Sized(pc[p], db[p], call[p])'
    BY <2>1, <2>3, <2>4 DEF Sized, Reusing
  <2> QED BY <2>1, <2>2, <2>4, <2>5, DatKeepsSizes
<1>7. CASE UnlockDat(p)
  <2>1. pc[p] = "a_unlock_dat" /\ Transition(p, "a_unlock_dat", "a_lock_idx") /\ LockStep
    BY <1>7 DEF UnlockDat, Transition
  <2>2. Sized("a_lock_idx", db[p], call[p])
    BY <2>1 DEF SizeInv, Sized, Reusing
  <2> QED BY <2>1, <2>2, LockKeepsSizes
<1>8. CASE LockIdx(p)
  <2>1. pc[p] = "a_lock_idx" /\ Transition(p, "a_lock_idx", "a_seek_idx") /\ LockStep
    BY <1>8 DEF LockIdx, Transition
  <2>2. Sized("a_seek_idx", db[p], call[p])
    BY <2>1 DEF SizeInv, Sized, Reusing
  <2> QED BY <2>1, <2>2, LockKeepsSizes
<1>9. CASE SeekIdx(p)
  <2> DEFINE h == [db[p] EXCEPT !.idxoff = ieof]
  <2>1. pc[p] = "a_seek_idx" /\ Transition(p, "a_seek_idx", "a_write_idx") /\ ReadStep(p, h)
    BY <1>9 DEF SeekIdx, Transition
  <2>2. h.datoff = db[p].datoff /\ h.datlen = db[p].datlen
    BY Facts DEF HandleType
  <2> HIDE DEF h
  <2>3. dat[db[p].datoff].len = db[p].datlen
    BY <2>1 DEF SizeInv, Sized
  <2>4. Sized("a_write_idx", h, call[p])
    BY <2>2, <2>3 DEF Sized, Reusing
  <2> QED BY <2>1, <2>4, ReadKeepsSizes
<1>10. CASE AppendIdx(p)
  <2>1. /\ p \in alive /\ pc[p] = "a_write_idx" /\ pc' = [pc EXCEPT ![p] = "a_unlock_idx"]
        /\ WriteIdx(p, db[p].idxoff, call[p].key, KeyLen[call[p].key], db[p].head)
        /\ db' = [db EXCEPT ![p].ptrval = db[p].head, ![p].fpos = db[p].idxoff + 1]
        /\ UNCHANGED call
    BY <1>10 DEF AppendIdx, StoreWriteIdx, Transition, WriteIdx
  <2>2. /\ db[p].datoff \in DOMAIN dat /\ dat[db[p].datoff].len = db[p].datlen
    BY <2>1, SlotFacts DEF SizeInv, Sized
  <2>3. db[p].idxoff = ieof /\ ieof \in FirstRec..ieof
    BY <2>1, Facts, Sizes DEF IndInv, FilesInv, AppendAtEnd, FileType
  <2>4. /\ pc'[p] = "a_unlock_idx"
        /\ \A q \in Proc \ {p} : pc'[q] = pc[q] /\ db'[q] = db[q] /\ call'[q] = call[q]
    BY <2>1, Facts
  <2>5. Sized(pc[p], db[p], call[p])'
    BY <2>4 DEF Sized, Reusing
  <2> QED BY <2>1, <2>2, <2>3, <2>4, <2>5, IdxKeepsSizes
<1>11. CASE UnlockIdx(p)
  BY <1>11, SizedAnywhere, LockKeepsSizes DEF UnlockIdx, SizedPC
<1>12. CASE StoreWriteChain(p)
  BY <1>12, SizedAnywhere, PtrKeepsSizes DEF StoreWriteChain, SizedPC
<1>13. CASE StorePtrOverflow(p)
  BY <1>13, QuietKeepsSizes DEF StorePtrOverflow, Die
<1>14. CASE OverwriteDat(p)
  <2>1. /\ pc[p] = "o_write_dat" /\ pc' = [pc EXCEPT ![p] = "unlock"]
        /\ WriteDat(p, db[p].datoff, call[p].data, DatLen[call[p].data])
        /\ \E h : db' = [db EXCEPT ![p] = h] /\ UNCHANGED call
    BY <1>14 DEF OverwriteDat, Transition, WriteDat
  <2>2. db[p].datoff \in 0..deof /\ dat[db[p].datoff].len = DatLen[call[p].data]
    BY <2>1, SlotFacts DEF SizeInv, Sized
  <2>3. /\ pc'[p] = "unlock"
        /\ \A q \in Proc \ {p} : pc'[q] = pc[q] /\ db'[q] = db[q] /\ call'[q] = call[q]
    BY <2>1, Facts
  <2>4. Sized(pc[p], db[p], call[p])'
    BY <2>3 DEF Sized, Reusing
  <2> QED BY <2>1, <2>2, <2>3, <2>4, DatKeepsSizes
<1> QED BY <1>1, <1>2, <1>3, <1>4, <1>5, <1>6, <1>7, <1>8, <1>9, <1>10, <1>11, <1>12, <1>13,
           <1>14 DEF StoreNew

LEMMA NextrecKeepsSizes ==
  ASSUME IndInv, SizeInv, NEW p \in Proc, Nextrec(p)
  PROVE  SizeInv' /\ SizesKept
<1>1. CASE NextLock(p)
  BY <1>1, SizedAnywhere, LockKeepsSizes DEF NextLock, SizedPC
<1>2. CASE NextRead(p)
  <2>1. PICK to \in {"n_unlock", "n_read", "n_read_dat"} :
          Transition(p, "n_read", to) /\ \E h : ReadStep(p, h)
    BY <1>2 DEF NextRead
  <2> QED BY <2>1, SizedAnywhere, ReadKeepsSizes DEF SizedPC
<1>3. CASE NextGarbage(p)
  BY <1>3, QuietKeepsSizes DEF NextGarbage, Die
<1>4. CASE NextDat(p)
  BY <1>4, SizedAnywhere, ReadKeepsSizes DEF NextDat, SizedPC
<1>5. CASE NextUnlock(p)
  <2>1. /\ UNCHANGED <<rec, ieof, dat, deof>> /\ pc' = [pc EXCEPT ![p] = "idle"]
        /\ db' = [db EXCEPT ![p] = Handle(db[p].fpos)] /\ call' = [call EXCEPT ![p] = NoCall]
    BY <1>5 DEF NextUnlock, Transition, idxvars, datvars
  <2>2. /\ pc'[p] \notin SizedPC
        /\ \A q \in Proc \ {p} : db'[q] = db[q] /\ pc'[q] = pc[q] /\ call'[q] = call[q]
    BY <2>1, Facts DEF SizedPC
  <2> QED BY <2>1, <2>2, ResetKeepsSizes
<1> QED BY <1>1, <1>2, <1>3, <1>4, <1>5 DEF Nextrec

LEMMA InvokeKeepsSizes ==
  ASSUME IndInv, SizeInv, NEW p \in Proc, Invoke(p)
  PROVE  SizeInv' /\ SizesKept
<1>1. ASSUME NEW c, NEW to \in {"lock_chain", "n_lock"}, Begin(p, c, to)
      PROVE  SizeInv' /\ SizesKept
  <2>1. /\ UNCHANGED <<rec, ieof, dat, deof, db>> /\ pc' = [pc EXCEPT ![p] = to]
        /\ call' = [call EXCEPT ![p] = c]
    BY <1>1 DEF Begin, Transition, idxvars, datvars
  <2>2. /\ pc'[p] \notin SizedPC
        /\ \A q \in Proc \ {p} : db'[q] = db[q] /\ pc'[q] = pc[q] /\ call'[q] = call[q]
    BY <2>1, Facts DEF SizedPC
  <2> QED BY <2>1, <2>2, ResetKeepsSizes
<1>2. ASSUME NEW d, StoreBadLength(p, d) PROVE SizeInv' /\ SizesKept
  BY <1>2, QuietKeepsSizes DEF StoreBadLength, Die
<1>3. CASE StoreBadFlag(p)
  BY <1>3, QuietKeepsSizes DEF StoreBadFlag, idxvars, datvars
<1>4. CASE Rewind(p)
  <2>1. /\ UNCHANGED <<rec, ieof, dat, deof, pc, call>> /\ pc[p] = "idle"
        /\ db' = [db EXCEPT ![p].fpos = FirstRec]
    BY <1>4 DEF Rewind, idxvars, datvars
  <2>2. pc'[p] \notin SizedPC /\ \A q \in Proc \ {p} : db'[q] = db[q]
    BY <2>1, Facts DEF SizedPC
  <2> QED BY <2>1, <2>2, ResetKeepsSizes
<1> QED BY <1>1, <1>2, <1>3, <1>4
        DEF Invoke, CallFetch, CallDelete, CallStore, CallNextrec

LEMMA StepKeepsSizes ==
  ASSUME IndInv, SizeInv, [Next]_vars
  PROVE  SizeInv' /\ SizesKept
<1>1. ASSUME NEW p \in Proc, Step(p) PROVE SizeInv' /\ SizesKept
  BY <1>1, FindKeepsSizes, DoDeleteKeepsSizes, FindFreeKeepsSizes, StoreNewKeepsSizes,
     NextrecKeepsSizes DEF Step
<1>2. ASSUME NEW p \in Proc, Crash(p) PROVE SizeInv' /\ SizesKept
  BY <1>2, QuietKeepsSizes DEF Crash, Die
<1>3. CASE UNCHANGED vars
  BY <1>3, QuietKeepsSizes DEF vars
<1> QED BY <1>1, <1>2, <1>3, InvokeKeepsSizes DEF Next, Finished

(***************************************************************************)
(* Every index record has the length of its key and of its data record,    *)
(* and a process that is about to overwrite one knows these lengths        *)
(* (_db_readidx, _db_findfree).                                            *)
(***************************************************************************)
THEOREM SizeTheorem == Spec => []SizeInv
<1>1. Init => SizeInv
  <2> SUFFICES ASSUME Init PROVE SizeInv
    OBVIOUS
  <2>1. FirstRec..(ieof - 1) = {}
    BY Sizes DEF Init
  <2>2. \A p \in Proc : pc[p] \notin SizedPC
    BY DEF Init, SizedPC
  <2> QED BY <2>1, <2>2, SizedAnywhere DEF SizeInv
<1>2. IndInv /\ SizeInv /\ [Next]_vars => SizeInv'
  BY StepKeepsSizes
<1>3. ControlInv /\ FilesInv => IndInv
  BY DEF IndInv
<1> QED BY <1>1, <1>2, <1>3, ControlTheorem, FilesTheorem, PTL DEF Spec

(***************************************************************************)
(* _db_dodelete, _db_findfree and db_store write a record or a data record *)
(* only over one of the same size or at the end of the file: whatever the  *)
(* processes do and wherever they die, no write at SEEK_SET runs into the  *)
(* record that follows.                                                    *)
(***************************************************************************)
THEOREM SlotsTheorem == Spec => SlotsKeepSize
<1>1. IndInv /\ SizeInv /\ [Next]_vars => [SizesKept]_vars
  BY StepKeepsSizes
<1>2. ControlInv /\ FilesInv => IndInv
  BY DEF IndInv
<1> QED BY <1>1, <1>2, ControlTheorem, FilesTheorem, SizeTheorem, PTL DEF Spec, SlotsKeepSize
=============================================================================
