----------------------------- MODULE ApueDbInv -----------------------------
(***************************************************************************)
(* Safety properties of the database library, stated without walking the   *)
(* lists so that they can be proved inductive.                             *)
(***************************************************************************)
EXTENDS ApueDb

\* Control points at which a process holds each lock.
ChainPC ==
  {"read_chain", "walk", "read_dat", "unlock", "d_lock_free", "d_write_dat",
   "d_read_free", "d_write_idx", "d_write_free", "d_write_ptr",
   "d_unlock_free", "s_read_chain", "f_lock", "f_read", "f_walk", "f_unlink",
   "f_unlock", "r_write_dat", "r_write_idx", "a_lock_dat", "a_seek_dat",
   "a_write_dat", "a_unlock_dat", "a_lock_idx", "a_seek_idx", "a_write_idx",
   "a_unlock_idx", "s_write_chain", "o_write_dat"}
FreePC ==
  {"d_write_dat", "d_read_free", "d_write_idx", "d_write_free", "d_write_ptr",
   "d_unlock_free", "f_read", "f_walk", "f_unlink", "f_unlock"}
ScanPC == {"n_read", "n_read_dat", "n_unlock"}
DatPC == {"a_seek_dat", "a_write_dat", "a_unlock_dat"}
IdxPC == {"a_seek_idx", "a_write_idx", "a_unlock_idx"}
Label == ChainPC \cup ScanPC \cup {"idle", "lock_chain", "n_lock"}

CallType == [op: {"none", "fetch", "delete", "store", "nextrec"},
             key: Key \cup {NoKey}, data: Data \cup {NoData},
             flag: Flags \cup {"none"}]
ReplyType == [rc: {"none", "ok", "exists", "error"},
              key: Key \cup {NoKey, Blank}, data: Data \cup {NoData, Blank}]
HandleType == [offset: Nat, ptroff: Nat, idxoff: Nat, ptrval: Nat,
               datoff: Nat, datlen: Nat, save: Nat, head: Nat,
               key: Key \cup {NoKey, Blank}, found: BOOLEAN, fpos: Nat,
               ret: ReplyType]
RecType == [key: Key \cup {Blank}, klen: Nat, datoff: Nat, datlen: Nat]
DatType == [val: Data \cup {Blank}, len: Nat]

(***************************************************************************)
(* Types.  That a pointer field never exceeds PTR_MAX is the check of      *)
(* _db_writeptr; that a process inside a keyed call has a key is what      *)
(* makes db->chainoff meaningful.                                          *)
(***************************************************************************)
TypeOK ==
  /\ ieof \in Nat /\ ieof >= FirstRec /\ deof \in Nat
  /\ ptr \in [FREE_OFF..(ieof - 1) -> Nat]
  /\ rec \in [FirstRec..(ieof - 1) -> RecType]
  /\ dat \in [0..(deof - 1) -> DatType]
  /\ rlock \in [Region -> SUBSET Proc] /\ wlock \in [Region -> SUBSET Proc]
  /\ pc \in [Proc -> Label] /\ call \in [Proc -> CallType]
  /\ db \in [Proc -> HandleType]
  /\ alive \subseteq Proc /\ ncalls \in 0..MaxCalls

(***************************************************************************)
(* Mutual exclusion (LockChain, DelLockFree, FreeLock, NextLock, LockDat,  *)
(* LockIdx): two processes are inside the same chain only if both fetch,   *)
(* inside the free list only if both scan, and never append to the same    *)
(* file together.                                                          *)
(***************************************************************************)
MutualExclusion ==
  \A p, q \in alive : p # q =>
    /\ pc[p] \in ChainPC /\ pc[q] \in ChainPC /\ Chain(p) = Chain(q)
         => call[p].op = "fetch" /\ call[q].op = "fetch"
    /\ pc[p] \in FreePC => pc[q] \notin FreePC \cup ScanPC
    /\ pc[p] \in DatPC => pc[q] \notin DatPC
    /\ pc[p] \in IdxPC => pc[q] \notin IdxPC

(***************************************************************************)
(* The end of file found by lseek is still the end of file when the record *)
(* is written (_db_writedat, _db_writeidx): no append overwrites another.  *)
(***************************************************************************)
AppendAtEnd ==
  \A p \in alive : /\ pc[p] = "a_write_dat" => db[p].datoff = deof
                   /\ pc[p] = "a_write_idx" => db[p].idxoff = ieof

(***************************************************************************)
(* Every pointer field, once _db_writeptr or _db_writeidx has written it,  *)
(* holds an offset that fits in the field and lies inside the file.        *)
(***************************************************************************)
PointersFit == \A o \in DOMAIN ptr : ptr[o] <= PTR_MAX /\ ptr[o] < ieof
-----------------------------------------------------------------------------
(***************************************************************************)
(* The inductive invariant behind the four properties above.  Its first    *)
(* half speaks of control points, arguments and locks only.                *)
(***************************************************************************)
KeyedPC == ChainPC \cup {"lock_chain"}
StorePC ==
  {"s_read_chain", "f_lock", "f_read", "f_walk", "f_unlink", "f_unlock",
   "r_write_dat", "r_write_idx", "a_lock_dat", "a_seek_dat", "a_write_dat",
   "a_unlock_dat", "a_lock_idx", "a_seek_idx", "a_write_idx", "a_unlock_idx",
   "s_write_chain", "o_write_dat"}
DelPC == {"d_lock_free", "d_write_dat", "d_read_free", "d_write_idx",
          "d_write_free", "d_write_ptr", "d_unlock_free"}

ControlType ==
  /\ rlock \in [Region -> SUBSET Proc] /\ wlock \in [Region -> SUBSET Proc]
  /\ pc \in [Proc -> Label] /\ call \in [Proc -> CallType]
  /\ alive \subseteq Proc /\ ncalls \in 0..MaxCalls

\* A process works for the call it is in.
CallOK(p) ==
  /\ pc[p] \in KeyedPC => /\ call[p].op \in {"fetch", "delete", "store"}
                          /\ call[p].key \in Key
  /\ pc[p] \in KeyedPC /\ call[p].op = "store" => call[p].data \in Data
  /\ pc[p] \in StorePC => call[p].op = "store"
  /\ pc[p] \in DelPC => call[p].op \in {"delete", "store"}

\* A write lock excludes every other lock on the same region.
Exclusive ==
  \A r \in Region, p, q \in Proc :
    p \in wlock[r] /\ q \in rlock[r] \cup wlock[r] => p = q

\* A process holds the locks its control point needs.
HoldsLocks(p) ==
  /\ pc[p] \in ChainPC => IF call[p].op = "fetch" THEN p \in rlock[Chain(p)]
                                                  ELSE p \in wlock[Chain(p)]
  /\ pc[p] \in FreePC => p \in wlock[FREE_OFF]
  /\ pc[p] \in ScanPC => p \in rlock[FREE_OFF]
  /\ pc[p] \in DatPC => p \in wlock[DatFile]
  /\ pc[p] \in IdxPC => p \in wlock[IdxTail]

ControlInv ==
  /\ ControlType
  /\ \A p \in Proc : CallOK(p)
  /\ Exclusive
  /\ \A p \in alive : HoldsLocks(p)

(***************************************************************************)
(* The second half: every offset kept in the files or in a handle points   *)
(* into the file it is about, and stays there as the files grow.           *)
(***************************************************************************)
Pointer(v) == v = 0 \/ (v \in FirstRec..(ieof - 1) /\ v <= PTR_MAX)

FileType ==
  /\ ieof \in Nat /\ ieof >= FirstRec /\ deof \in Nat
  /\ ptr \in [FREE_OFF..(ieof - 1) -> Nat]
  /\ rec \in [FirstRec..(ieof - 1) -> RecType]
  /\ dat \in [0..(deof - 1) -> DatType]

FilesFit ==
  /\ FileType
  /\ \A o \in FREE_OFF..(ieof - 1) : Pointer(ptr[o])
  /\ \A i \in FirstRec..(ieof - 1) : rec[i].datoff < deof

HandleFits(h) ==
  /\ h \in HandleType
  /\ Pointer(h.offset) /\ Pointer(h.ptrval) /\ Pointer(h.save) /\ Pointer(h.head)
  /\ h.ptroff < ieof /\ h.fpos <= ieof /\ (h.fpos # 0 => h.fpos >= FirstRec)

\* Labels at which db->idxoff is the record being worked on, and at which
\* db->datoff is its data record.
RecordPC == DelPC \cup {"f_unlink", "r_write_dat", "r_write_idx", "a_unlock_idx",
                        "s_write_chain"}
DataPC == {"read_dat", "d_lock_free", "d_write_dat", "d_read_free", "d_write_idx",
           "o_write_dat", "f_unlink", "r_write_dat", "r_write_idx",
           "a_unlock_dat", "a_lock_idx", "a_seek_idx", "a_write_idx", "n_read_dat"}
Positioned(label, h) ==
  /\ label \in RecordPC => h.idxoff \in FirstRec..(ieof - 1)
  /\ label \in DelPC => h.idxoff <= PTR_MAX
  /\ label \in DataPC => h.datoff < deof
  /\ label = "f_unlock" /\ h.offset # 0 =>
       h.idxoff \in FirstRec..(ieof - 1) /\ h.datoff < deof

FilesInv ==
  /\ FilesFit
  /\ db \in [Proc -> HandleType]
  /\ \A p \in Proc : HandleFits(db[p]) /\ Positioned(pc[p], db[p])
  /\ AppendAtEnd

\* The inductive invariant.
IndInv == ControlInv /\ FilesInv
-----------------------------------------------------------------------------
(***************************************************************************)
(* The lists.  A record is loose while it belongs to no list: taken from   *)
(* the free list or appended but not yet linked, or blanked but not yet    *)
(* pushed on the free list.  A process that dies there leaks the record.   *)
(***************************************************************************)
LoosePC == {"r_write_dat", "r_write_idx", "s_write_chain", "a_unlock_idx"}
Loose(i) ==
  \E p \in Proc :
    /\ db[p].idxoff = i
    /\ \/ pc[p] \in LoosePC
       \/ pc[p] = "f_unlock" /\ db[p].offset # 0
       \/ pc[p] = "d_write_free" /\ p \in alive

\* Between DelWriteIdx and DelWritePtr the cell that pointed to the deleted
\* record stands for the successor saved in saveptr.
Unlinking(p, o) ==
  p \in alive /\ pc[p] \in {"d_write_free", "d_write_ptr"} /\ db[p].ptroff = o
EffPtr(o) ==
  IF \E p \in Proc : Unlinking(p, o)
    THEN db[CHOOSE p \in Proc : Unlinking(p, o)].save
    ELSE ptr[o]

\* The list an offset belongs to: a blank record is free, another is on the
\* chain of its key.
ListOf(o) == IF o < FirstRec THEN o
             ELSE IF rec[o].key = Blank THEN FREE_OFF ELSE Hash[rec[o].key]
Cell == {o \in DOMAIN ptr : o < FirstRec \/ ~Loose(o)}

\* No list leads into another one, or to a record outside every list.
ListsApart ==
  \A o \in Cell : EffPtr(o) # 0 =>
    EffPtr(o) \in DOMAIN rec /\ ~Loose(EffPtr(o)) /\ ListOf(EffPtr(o)) = ListOf(o)

\* No two pointers lead to the same record.
NoSharing ==
  \A o1, o2 \in Cell : EffPtr(o1) = EffPtr(o2) /\ EffPtr(o1) # 0 => o1 = o2

\* Every record is loose or on a list: no space is lost.
NoneLost ==
  \A i \in DOMAIN rec : Loose(i) \/ \E o \in Cell : EffPtr(o) = i

(***************************************************************************)
(* The hash chains and the free list are disjoint lists that hold every    *)
(* record exactly once, at every instant, through concurrent insertions,   *)
(* deletions and reuse (_db_dodelete, _db_findfree, db_store).             *)
(***************************************************************************)
ListShape == ListsApart /\ NoSharing /\ NoneLost

(***************************************************************************)
(* The same after processes are killed, provided none was killed inside    *)
(* _db_dodelete between its rewriting of the index record and its          *)
(* unlinking of it from the chain.                                         *)
(***************************************************************************)
CrashSafe ==
  (\A p \in Proc \ alive : pc[p] \notin {"d_write_free", "d_write_ptr"})
    => ListShape

\* What a write may not change: the lengths and the place of a record, and
\* the length of a data record.
SizesKept ==
  /\ \A i \in DOMAIN rec : /\ rec'[i].klen = rec[i].klen
                          /\ rec'[i].datlen = rec[i].datlen
                          /\ rec'[i].datoff = rec[i].datoff
  /\ \A i \in DOMAIN dat : dat'[i].len = dat[i].len

(***************************************************************************)
(* A record is only ever overwritten by one of the same size: _db_findfree *)
(* and the same-length test of db_store keep writes at SEEK_SET inside     *)
(* the record they replace.                                                *)
(***************************************************************************)
SlotsKeepSize == [][SizesKept]_vars

(***************************************************************************)
(* db_nextrec never makes its caller abort.  The comment on it asks for    *)
(* one db_rewind before the first call only.                               *)
(***************************************************************************)
NextrecNeverAborts == \A p \in Proc : pc[p] = "n_read" => p \in alive
=============================================================================
