------------------------------- MODULE ApueDb -------------------------------
(***************************************************************************)
(* The database library of db/db.c: one index file and one data file       *)
(* shared by processes that synchronise only through fcntl record locks.   *)
(*                                                                         *)
(* Index file.  Offsets are abstracted to the order in which things lie in *)
(* the file: 0 is the free list pointer (FREE_OFF), 1..NHash the hash      *)
(* table, and every later offset one index record.  ptr[o] is the chain    *)
(* pointer stored at o, where 0 ends a list (an offset of 0 and a null     *)
(* pointer are the same number, as in the code).  rec[o] is the rest of an *)
(* index record.  ieof and deof are the ends of the two files; dat[o] is   *)
(* one data record.                                                        *)
(*                                                                         *)
(* Every action is one lock request or one lseek/read/write on a file,     *)
(* with the computation that follows it, so processes interleave between   *)
(* any two accesses to shared state.                                       *)
(***************************************************************************)
EXTENDS Integers

CONSTANTS
  Proc,       \* processes that have the database open
  Key, Data,  \* keys and data strings
  NoKey, NoData, Blank, \* no argument, NULL, and a field of blanks
  NHash,      \* nhash, the number of hash chains
  Hash,       \* offset of the chain pointer of each key (_db_hash)
  KeyLen, DatLen,         \* strlen(key), and strlen(data) + 1
  DATLEN_MIN, DATLEN_MAX, \* limits on the length of a data record
  PTR_MAX,    \* largest offset that fits in a pointer field
  Ops,        \* the calls the processes make
  Crashable,  \* processes that may be killed at any instant
  MaxCalls    \* bound: calls made by all processes together

ASSUME SizeAssumption ==
  /\ NHash \in Nat \ {0} /\ PTR_MAX \in Nat /\ MaxCalls \in Nat
  /\ DATLEN_MIN \in Nat /\ DATLEN_MAX \in Nat
ASSUME ArgAssumption ==
  /\ Hash \in [Key -> 1..NHash]
  /\ KeyLen \in [Key -> Nat] /\ DatLen \in [Data -> Nat]
  /\ Crashable \subseteq Proc
  /\ NoKey \notin Key /\ NoData \notin Data
  /\ Blank \notin Key /\ Blank \notin Data /\ Blank # NoData

VARIABLES
  ptr, rec, ieof,   \* the index file
  dat, deof,        \* the data file
  rlock, wlock,     \* who holds a read or a write lock on a region
  pc, call, db,     \* control point, arguments and DB handle of a process
  alive,            \* processes that have not been killed or aborted
  ncalls            \* calls made so far

idxvars == <<ptr, rec, ieof>>
datvars == <<dat, deof>>
lockvars == <<rlock, wlock>>
vars == <<ptr, rec, ieof, dat, deof, rlock, wlock, pc, call, db, alive, ncalls>>
-----------------------------------------------------------------------------
FREE_OFF == 0
FirstRec == NHash + 1     \* (nhash + 1) * PTR_SZ + 1, where records start

(***************************************************************************)
(* Locked regions: the first byte of the free list pointer and of each     *)
(* chain pointer; the index file from the first record to its end; the     *)
(* whole data file.                                                        *)
(***************************************************************************)
IdxTail == FirstRec
DatFile == FirstRec + 1
Region == FREE_OFF..DatFile

Flags == {"insert", "replace", "store"}
Call(o, k, d, f) == [op |-> o, key |-> k, data |-> d, flag |-> f]
NoCall == Call("none", NoKey, NoData, "none")
Reply(rc, k, d) == [rc |-> rc, key |-> k, data |-> d]
NoReply == Reply("none", NoKey, NoData)

(***************************************************************************)
(* The DB structure and the locals of a call.  fpos is the kernel's file   *)
(* offset of idxfd: the next record when it is one, 0 when it lies inside  *)
(* the hash table or inside a record.  save is saveptr or saveoffset, head *)
(* is freeptr in _db_dodelete and ptrval in db_store.                      *)
(***************************************************************************)
Handle(f) == [offset |-> 0, ptroff |-> 0, idxoff |-> 0, ptrval |-> 0,
              datoff |-> 0, datlen |-> 0, save |-> 0, head |-> 0,
              key |-> NoKey, found |-> FALSE, fpos |-> f, ret |-> NoReply]

Init ==
  /\ ptr = [o \in FREE_OFF..NHash |-> 0]
  /\ rec = [o \in {} |-> 0] /\ ieof = FirstRec
  /\ dat = [o \in {} |-> 0] /\ deof = 0
  /\ rlock = [r \in Region |-> {}] /\ wlock = [r \in Region |-> {}]
  /\ pc = [p \in Proc |-> "idle"]
  /\ call = [p \in Proc |-> NoCall]
  /\ db = [p \in Proc |-> Handle(FirstRec)]
  /\ alive = Proc /\ ncalls = 0
-----------------------------------------------------------------------------
(***************************************************************************)
(* fcntl record locks.  The kernel drops every lock of a process that      *)
(* dies.  A process asks for one lock at a time and waits for it.          *)
(***************************************************************************)
ReadLock(p, r) ==
  /\ wlock[r] \subseteq {p}
  /\ rlock' = [rlock EXCEPT ![r] = @ \cup {p}]
  /\ UNCHANGED wlock

WriteLock(p, r) ==
  /\ wlock[r] \subseteq {p} /\ rlock[r] \subseteq {p}
  /\ wlock' = [wlock EXCEPT ![r] = @ \cup {p}]
  /\ UNCHANGED rlock

UnLock(p, r) ==
  /\ rlock' = [rlock EXCEPT ![r] = @ \ {p}]
  /\ wlock' = [wlock EXCEPT ![r] = @ \ {p}]

Die(p) ==
  /\ alive' = alive \ {p}
  /\ rlock' = [r \in Region |-> rlock[r] \ {p}]
  /\ wlock' = [r \in Region |-> wlock[r] \ {p}]
  /\ UNCHANGED <<ptr, rec, ieof, dat, deof, pc, call, db>>

Transition(p, from, to) ==
  /\ p \in alive /\ pc[p] = from
  /\ pc' = [pc EXCEPT ![p] = to]

\* A step that only asks for a lock, or releases one.
LockStep == UNCHANGED <<ptr, rec, ieof, dat, deof, call, db, alive, ncalls>>

\* A step that only reads the files into the handle of p.
ReadStep(p, h) ==
  /\ db' = [db EXCEPT ![p] = h]
  /\ UNCHANGED <<ptr, rec, ieof, dat, deof, rlock, wlock, call, alive, ncalls>>

Chain(p) == Hash[call[p].key]                              \* db->chainoff
Answer(p, rc, k, d) == [db[p] EXCEPT !.ret = Reply(rc, k, d)]
-----------------------------------------------------------------------------
(***************************************************************************)
(* Calls.  An invalid flag is refused, and data of an invalid length kills *)
(* the caller, before any lock is taken.                                   *)
(***************************************************************************)
Begin(p, c, to) ==
  /\ ncalls < MaxCalls
  /\ ncalls' = ncalls + 1
  /\ Transition(p, "idle", to)
  /\ call' = [call EXCEPT ![p] = c]
  /\ UNCHANGED <<idxvars, datvars, lockvars, db, alive>>

CallFetch(p, k) == Begin(p, Call("fetch", k, NoData, "none"), "lock_chain")
CallDelete(p, k) == Begin(p, Call("delete", k, NoData, "none"), "lock_chain")
CallStore(p, k, d, f) ==
  /\ DatLen[d] \in DATLEN_MIN..DATLEN_MAX
  /\ Begin(p, Call("store", k, d, f), "lock_chain")
CallNextrec(p) == Begin(p, Call("nextrec", NoKey, NoData, "none"), "n_lock")

StoreBadFlag(p) ==
  /\ ncalls < MaxCalls /\ ncalls' = ncalls + 1
  /\ p \in alive /\ pc[p] = "idle"
  /\ UNCHANGED <<idxvars, datvars, lockvars, pc, call, db, alive>>

StoreBadLength(p, d) ==
  /\ DatLen[d] \notin DATLEN_MIN..DATLEN_MAX
  /\ ncalls < MaxCalls /\ ncalls' = ncalls + 1
  /\ p \in alive /\ pc[p] = "idle"
  /\ Die(p)

Rewind(p) ==
  /\ ncalls < MaxCalls /\ ncalls' = ncalls + 1
  /\ p \in alive /\ pc[p] = "idle"
  /\ db' = [db EXCEPT ![p].fpos = FirstRec]
  /\ UNCHANGED <<idxvars, datvars, lockvars, pc, call, alive>>
-----------------------------------------------------------------------------
(***************************************************************************)
(* File accesses.  _db_readptr and _db_writeptr leave the file offset      *)
(* inside the table or a record; _db_readidx and _db_writeidx leave it at  *)
(* the record that follows.                                                *)
(***************************************************************************)
ReadIdx(h, o) ==
  [h EXCEPT !.idxoff = o, !.ptrval = ptr[o], !.key = rec[o].key,
            !.datoff = rec[o].datoff, !.datlen = rec[o].datlen, !.fpos = o + 1]

\* Write the pointer v at offset o, with h the handle of p afterwards.
WritePtr(p, o, v, h) ==
  /\ ptr' = [ptr EXCEPT ![o] = v]
  /\ db' = [db EXCEPT ![p] = [h EXCEPT !.fpos = 0]]
  /\ UNCHANGED <<rec, ieof, dat, deof, rlock, wlock, call, alive, ncalls>>

\* Write a whole index record at o; o = ieof extends the file.
WriteIdx(p, o, k, n, v) ==
  /\ ptr' = [i \in DOMAIN ptr \cup {o} |-> IF i = o THEN v ELSE ptr[i]]
  /\ rec' = [i \in DOMAIN rec \cup {o} |->
               IF i = o THEN [key |-> k, klen |-> n, datoff |-> db[p].datoff,
                              datlen |-> db[p].datlen]
                        ELSE rec[i]]
  /\ ieof' = IF o < ieof THEN ieof ELSE o + 1
  /\ UNCHANGED <<dat, deof, rlock, wlock, call, alive, ncalls>>

\* Write a data record at o; o = deof extends the file.
WriteDat(p, o, v, n) ==
  /\ dat' = [i \in DOMAIN dat \cup {o} |->
               IF i = o THEN [val |-> v, len |-> n] ELSE dat[i]]
  /\ deof' = IF o < deof THEN deof ELSE o + 1
  /\ UNCHANGED <<ptr, rec, ieof, rlock, wlock, call, alive, ncalls>>
-----------------------------------------------------------------------------
(***************************************************************************)
(* _db_find_and_lock: lock the chain of the key, then follow it.           *)
(***************************************************************************)
\* Mutant: db_fetch searches without a lock.
LockChainWritersOnly(p) ==
  /\ Transition(p, "lock_chain", "read_chain")
  /\ IF call[p].op = "fetch" THEN UNCHANGED lockvars ELSE WriteLock(p, Chain(p))
  /\ LockStep

LockChain(p) ==
  /\ Transition(p, "lock_chain", "read_chain")
  /\ IF call[p].op = "fetch" THEN ReadLock(p, Chain(p)) ELSE WriteLock(p, Chain(p))
  /\ LockStep

ReadChain(p) ==
  /\ Transition(p, "read_chain", "walk")
  /\ ReadStep(p, [db[p] EXCEPT !.ptroff = Chain(p), !.offset = ptr[Chain(p)],
                               !.fpos = 0])

\* Mutant: the search does not advance.
WalkNextStuck(p) ==
  /\ db[p].offset # 0 /\ rec[db[p].offset].key # call[p].key
  /\ Transition(p, "walk", "walk")
  /\ ReadStep(p, [ReadIdx(db[p], db[p].offset) EXCEPT !.ptroff = db[p].offset])

\* Not this record: step to the next one, remembering who pointed to it.
WalkNext(p) ==
  /\ db[p].offset # 0 /\ rec[db[p].offset].key # call[p].key
  /\ Transition(p, "walk", "walk")
  /\ LET o == db[p].offset IN
     ReadStep(p, [ReadIdx(db[p], o) EXCEPT !.ptroff = o, !.offset = ptr[o]])

(***************************************************************************)
(* The record is found.  DB_INSERT fails; a replacement of another length  *)
(* deletes first, one of the same length overwrites the data record.       *)
(***************************************************************************)
WalkFound(p) ==
  LET o == db[p].offset
      c == call[p]
      h == [ReadIdx(db[p], o) EXCEPT !.found = TRUE]
  IN /\ o # 0 /\ rec[o].key = c.key
     /\ \/ /\ c.op = "fetch"
           /\ Transition(p, "walk", "read_dat")
           /\ ReadStep(p, h)
        \/ /\ c.op = "delete" \/ (/\ c.op = "store" /\ c.flag # "insert"
                                  /\ DatLen[c.data] # h.datlen)
           /\ Transition(p, "walk", "d_lock_free")
           /\ ReadStep(p, h)
        \/ /\ c.op = "store" /\ c.flag # "insert" /\ DatLen[c.data] = h.datlen
           /\ Transition(p, "walk", "o_write_dat")
           /\ ReadStep(p, h)
        \/ /\ c.op = "store" /\ c.flag = "insert"
           /\ Transition(p, "walk", "unlock")
           /\ ReadStep(p, [h EXCEPT !.ret = Reply("exists", NoKey, NoData)])

\* The chain ends: only db_store goes on, unless it was to replace.
WalkEnd(p) ==
  /\ db[p].offset = 0
  /\ LET inserts == call[p].op = "store" /\ call[p].flag # "replace" IN
     \/ /\ inserts
        /\ Transition(p, "walk", "s_read_chain")
        /\ ReadStep(p, db[p])
     \/ /\ ~inserts
        /\ Transition(p, "walk", "unlock")
        /\ ReadStep(p, Answer(p, "error", NoKey, NoData))

\* db_fetch: _db_readdat.
FetchDat(p) ==
  /\ Transition(p, "read_dat", "unlock")
  /\ ReadStep(p, Answer(p, "ok", call[p].key, dat[db[p].datoff].val))

\* The end of db_fetch, db_delete and db_store: unlock the chain and return.
Unlock(p) ==
  /\ Transition(p, "unlock", "idle")
  /\ UnLock(p, Chain(p))
  /\ call' = [call EXCEPT ![p] = NoCall]
  /\ db' = [db EXCEPT ![p] = Handle(db[p].fpos)]
  /\ UNCHANGED <<idxvars, datvars, alive, ncalls>>
-----------------------------------------------------------------------------
(***************************************************************************)
(* _db_dodelete: under the lock of the free list, blank the data record,   *)
(* push the index record on the free list, then unlink it from its chain.  *)
(***************************************************************************)
\* Mutant: a record is pushed without the lock of the free list.
DelLockFreeNot(p) ==
  /\ Transition(p, "d_lock_free", "d_write_dat")
  /\ UNCHANGED lockvars
  /\ LockStep

DelLockFree(p) ==
  /\ Transition(p, "d_lock_free", "d_write_dat")
  /\ WriteLock(p, FREE_OFF)
  /\ LockStep

DelWriteDat(p) ==
  /\ Transition(p, "d_write_dat", "d_read_free")
  /\ WriteDat(p, db[p].datoff, Blank, db[p].datlen)
  /\ UNCHANGED db

DelReadFree(p) ==
  /\ Transition(p, "d_read_free", "d_write_idx")
  /\ ReadStep(p, [db[p] EXCEPT !.head = ptr[FREE_OFF], !.save = db[p].ptrval,
                               !.fpos = 0])

DelWriteIdx(p) ==
  LET h == db[p] IN
  /\ Transition(p, "d_write_idx", "d_write_free")
  /\ WriteIdx(p, h.idxoff, Blank, KeyLen[call[p].key], h.head)
  /\ db' = [db EXCEPT ![p].ptrval = h.head, ![p].fpos = h.idxoff + 1]

DelWriteFree(p) ==
  /\ Transition(p, "d_write_free", "d_write_ptr")
  /\ WritePtr(p, FREE_OFF, db[p].idxoff, db[p])

\* Mutant: the chain pointer is taken from db->ptrval, overwritten by then.
DelWritePtrUnsaved(p) ==
  /\ Transition(p, "d_write_ptr", "d_unlock_free")
  /\ WritePtr(p, db[p].ptroff, db[p].ptrval,
              IF call[p].op = "delete" THEN Answer(p, "ok", NoKey, NoData)
                                       ELSE db[p])

DelWritePtr(p) ==
  /\ Transition(p, "d_write_ptr", "d_unlock_free")
  /\ WritePtr(p, db[p].ptroff, db[p].save,
              IF call[p].op = "delete" THEN Answer(p, "ok", NoKey, NoData)
                                       ELSE db[p])

DelUnlockFree(p) ==
  /\ Transition(p, "d_unlock_free",
                IF call[p].op = "delete" THEN "unlock" ELSE "s_read_chain")
  /\ UnLock(p, FREE_OFF)
  /\ LockStep
-----------------------------------------------------------------------------
(***************************************************************************)
(* db_store of a new record: remember the head of the chain, then look for *)
(* a free record of the right sizes.  A replacement does not look.         *)
(***************************************************************************)
StoreReadChain(p) ==
  /\ Transition(p, "s_read_chain", IF db[p].found THEN "a_lock_dat" ELSE "f_lock")
  /\ ReadStep(p, [db[p] EXCEPT !.head = ptr[Chain(p)], !.fpos = 0])

\* _db_findfree.
FreeLock(p) ==
  /\ Transition(p, "f_lock", "f_read")
  /\ WriteLock(p, FREE_OFF)
  /\ LockStep

FreeRead(p) ==
  /\ Transition(p, "f_read", "f_walk")
  /\ ReadStep(p, [db[p] EXCEPT !.save = FREE_OFF, !.offset = ptr[FREE_OFF],
                               !.fpos = 0])

\* Mutant: a record that is large enough is taken, not one of the same size.
FitsLarger(p, o) ==
  rec[o].klen = KeyLen[call[p].key] /\ rec[o].datlen >= DatLen[call[p].data]

Fits(p, o) ==
  rec[o].klen = KeyLen[call[p].key] /\ rec[o].datlen = DatLen[call[p].data]

FreeWalk(p) ==
  LET o == db[p].offset IN
  \/ /\ Transition(p, "f_walk", "f_walk")
     /\ o # 0 /\ ~Fits(p, o)
     /\ ReadStep(p, [ReadIdx(db[p], o) EXCEPT !.save = o, !.offset = ptr[o]])
  \/ /\ Transition(p, "f_walk", "f_unlink")
     /\ o # 0 /\ Fits(p, o)
     /\ ReadStep(p, ReadIdx(db[p], o))
  \/ /\ Transition(p, "f_walk", "f_unlock")
     /\ o = 0
     /\ ReadStep(p, db[p])

FreeUnlink(p) ==
  /\ Transition(p, "f_unlink", "f_unlock")
  /\ WritePtr(p, db[p].save, db[p].ptrval, db[p])

FreeUnlock(p) ==
  /\ Transition(p, "f_unlock", IF db[p].offset = 0 THEN "a_lock_dat"
                                                   ELSE "r_write_dat")
  /\ UnLock(p, FREE_OFF)
  /\ LockStep

\* Reuse the free record: overwrite its data record, then the record itself.
ReuseWriteDat(p) ==
  /\ Transition(p, "r_write_dat", "r_write_idx")
  /\ WriteDat(p, db[p].datoff, call[p].data, DatLen[call[p].data])
  /\ UNCHANGED db

StoreWriteIdx(p, o) ==
  /\ WriteIdx(p, o, call[p].key, KeyLen[call[p].key], db[p].head)
  /\ db' = [db EXCEPT ![p].ptrval = db[p].head, ![p].fpos = o + 1]

ReuseWriteIdx(p) ==
  /\ Transition(p, "r_write_idx", "s_write_chain")
  /\ StoreWriteIdx(p, db[p].idxoff)
-----------------------------------------------------------------------------
(***************************************************************************)
(* Append.  _db_writedat and _db_writeidx lock, seek to the end of the     *)
(* file, write there, unlock.                                              *)
(***************************************************************************)
\* Mutant: lseek and writev are not made atomic by a lock.
LockDatNot(p) ==
  /\ Transition(p, "a_lock_dat", "a_seek_dat")
  /\ UNCHANGED lockvars
  /\ LockStep

LockDat(p) ==
  /\ Transition(p, "a_lock_dat", "a_seek_dat")
  /\ WriteLock(p, DatFile)
  /\ LockStep

SeekDat(p) ==
  /\ Transition(p, "a_seek_dat", "a_write_dat")
  /\ ReadStep(p, [db[p] EXCEPT !.datoff = deof, !.datlen = DatLen[call[p].data]])

AppendDat(p) ==
  /\ Transition(p, "a_write_dat", "a_unlock_dat")
  /\ WriteDat(p, db[p].datoff, call[p].data, db[p].datlen)
  /\ UNCHANGED db

UnlockDat(p) ==
  /\ Transition(p, "a_unlock_dat", "a_lock_idx")
  /\ UnLock(p, DatFile)
  /\ LockStep

LockIdx(p) ==
  /\ Transition(p, "a_lock_idx", "a_seek_idx")
  /\ WriteLock(p, IdxTail)
  /\ LockStep

\* Mutants: the record is written past the end of the file; the chain is made
\* to point to the record before it is written.
SeekIdxPast(p) ==
  /\ Transition(p, "a_seek_idx", "a_write_idx")
  /\ ReadStep(p, [db[p] EXCEPT !.idxoff = ieof + 1])

SeekIdxLinking(p) ==
  /\ Transition(p, "a_seek_idx", "a_write_idx")
  /\ WritePtr(p, Chain(p), ieof, [db[p] EXCEPT !.idxoff = ieof])

SeekIdx(p) ==
  /\ Transition(p, "a_seek_idx", "a_write_idx")
  /\ ReadStep(p, [db[p] EXCEPT !.idxoff = ieof])

AppendIdx(p) ==
  /\ Transition(p, "a_write_idx", "a_unlock_idx")
  /\ StoreWriteIdx(p, db[p].idxoff)

UnlockIdx(p) ==
  /\ Transition(p, "a_unlock_idx", "s_write_chain")
  /\ UnLock(p, IdxTail)
  /\ LockStep

\* Mutant: the offset is not compared with PTR_MAX.
StoreWriteChainUnchecked(p) ==
  /\ Transition(p, "s_write_chain", "unlock")
  /\ WritePtr(p, Chain(p), db[p].idxoff, Answer(p, "ok", NoKey, NoData))

\* The new record becomes the head of its chain, if its offset fits.
StoreWriteChain(p) ==
  /\ db[p].idxoff <= PTR_MAX
  /\ Transition(p, "s_write_chain", "unlock")
  /\ WritePtr(p, Chain(p), db[p].idxoff, Answer(p, "ok", NoKey, NoData))

\* Mutant: the caller is told that the record is stored.
StorePtrOverflowOk(p) ==
  /\ db[p].idxoff > PTR_MAX
  /\ Transition(p, "s_write_chain", "unlock")
  /\ ReadStep(p, Answer(p, "ok", NoKey, NoData))

\* _db_writeptr quits when the offset does not fit in a pointer field.
StorePtrOverflow(p) ==
  /\ p \in alive /\ pc[p] = "s_write_chain"
  /\ db[p].idxoff > PTR_MAX
  /\ Die(p)
  /\ UNCHANGED ncalls

\* A replacement of the same length overwrites the data record.
OverwriteDat(p) ==
  /\ Transition(p, "o_write_dat", "unlock")
  /\ WriteDat(p, db[p].datoff, call[p].data, DatLen[call[p].data])
  /\ db' = [db EXCEPT ![p] = Answer(p, "ok", NoKey, NoData)]
-----------------------------------------------------------------------------
(***************************************************************************)
(* db_nextrec: read records from the current file offset, skipping blank   *)
(* ones, with a read lock on the free list.                                *)
(***************************************************************************)
NextLock(p) ==
  /\ Transition(p, "n_lock", "n_read")
  /\ ReadLock(p, FREE_OFF)
  /\ LockStep

NextRead(p) ==
  LET o == db[p].fpos IN
  /\ o # 0
  /\ \/ /\ o = ieof
        /\ Transition(p, "n_read", "n_unlock")
        /\ ReadStep(p, Answer(p, "error", NoKey, NoData))
     \/ /\ o < ieof /\ rec[o].key = Blank
        /\ Transition(p, "n_read", "n_read")
        /\ ReadStep(p, ReadIdx(db[p], o))
     \/ /\ o < ieof /\ rec[o].key # Blank
        /\ Transition(p, "n_read", "n_read_dat")
        /\ ReadStep(p, ReadIdx(db[p], o))

\* The file offset is inside the hash table or a record: what _db_readidx
\* reads there is no record, and err_dump aborts the process.
NextGarbage(p) ==
  /\ p \in alive /\ pc[p] = "n_read"
  /\ db[p].fpos = 0
  /\ Die(p)
  /\ UNCHANGED ncalls

NextDat(p) ==
  /\ Transition(p, "n_read_dat", "n_unlock")
  /\ ReadStep(p, Answer(p, "ok", db[p].key, dat[db[p].datoff].val))

NextUnlock(p) ==
  /\ Transition(p, "n_unlock", "idle")
  /\ UnLock(p, FREE_OFF)
  /\ call' = [call EXCEPT ![p] = NoCall]
  /\ db' = [db EXCEPT ![p] = Handle(db[p].fpos)]
  /\ UNCHANGED <<idxvars, datvars, alive, ncalls>>
-----------------------------------------------------------------------------
\* A process is killed.
Crash(p) ==
  /\ p \in Crashable /\ p \in alive
  /\ Die(p)
  /\ UNCHANGED ncalls

Invoke(p) ==
  \/ \E k \in Key : "fetch" \in Ops /\ CallFetch(p, k)
  \/ \E k \in Key : "delete" \in Ops /\ CallDelete(p, k)
  \/ \E k \in Key, d \in Data, f \in Flags \cap Ops : CallStore(p, k, d, f)
  \/ \E d \in Data : Flags \cap Ops # {} /\ StoreBadLength(p, d)
  \/ "badflag" \in Ops /\ StoreBadFlag(p)
  \/ "nextrec" \in Ops /\ CallNextrec(p)
  \/ "rewind" \in Ops /\ Rewind(p)

Find(p) ==
  \/ LockChain(p) \/ ReadChain(p) \/ WalkNext(p) \/ WalkFound(p) \/ WalkEnd(p)
  \/ FetchDat(p) \/ Unlock(p)

DoDelete(p) ==
  \/ DelLockFree(p) \/ DelWriteDat(p) \/ DelReadFree(p) \/ DelWriteIdx(p)
  \/ DelWriteFree(p) \/ DelWritePtr(p) \/ DelUnlockFree(p)

FindFree(p) ==
  \/ FreeLock(p) \/ FreeRead(p) \/ FreeWalk(p) \/ FreeUnlink(p) \/ FreeUnlock(p)

StoreNew(p) ==
  \/ StoreReadChain(p) \/ ReuseWriteDat(p) \/ ReuseWriteIdx(p)
  \/ LockDat(p) \/ SeekDat(p) \/ AppendDat(p) \/ UnlockDat(p)
  \/ LockIdx(p) \/ SeekIdx(p) \/ AppendIdx(p) \/ UnlockIdx(p)
  \/ StoreWriteChain(p) \/ StorePtrOverflow(p) \/ OverwriteDat(p)

Nextrec(p) ==
  \/ NextLock(p) \/ NextRead(p) \/ NextGarbage(p) \/ NextDat(p) \/ NextUnlock(p)

Step(p) == Find(p) \/ DoDelete(p) \/ FindFree(p) \/ StoreNew(p) \/ Nextrec(p)

\* All calls are made and have returned, or their callers are dead.
Finished ==
  /\ \A p \in alive : pc[p] = "idle"
  /\ ncalls = MaxCalls \/ alive = {}
  /\ UNCHANGED vars

Next == (\E p \in Proc : Invoke(p) \/ Step(p) \/ Crash(p)) \/ Finished

Spec == Init /\ [][Next]_vars
FairSpec == Spec /\ \A p \in Proc : WF_vars(Step(p))
=============================================================================
