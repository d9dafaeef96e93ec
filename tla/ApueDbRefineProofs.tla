------------------------ MODULE ApueDbRefineProofs ------------------------
(***************************************************************************)
(* The proof that the database library implements the atomic map of        *)
(* KVStore when its processes are not killed.  The argument has four       *)
(* parts: what each step writes; what a process has found out about its    *)
(* key and will answer; what the two files say together, which holds       *)
(* because each process changes only records it owns; and which step of    *)
(* the map each step of the library is.                                    *)
(***************************************************************************)
EXTENDS ApueDbListProofs

(***************************************************************************)
(* Steps of one process, in terms of its label, its handle and the files.  *)
(***************************************************************************)
Moved(p, from, to) == OnlyBy(p) /\ pc[p] = from /\ pc'[p] = to /\ call' = call
Still == UNCHANGED <<ptr, rec, ieof, dat, deof>>
Keeps(g, h) ==
  g.idxoff = h.idxoff /\ g.datoff = h.datoff /\ g.found = h.found /\ g.ret = h.ret

\* Steps that lock, and steps that read the files into the handle.
LEMMA ReadDoes ==
  ASSUME IndInv, NEW p \in Proc, NEW from, NEW to, Transition(p, from, to)
  PROVE  /\ \A h : ReadStep(p, h) => Moved(p, from, to) /\ Still /\ db'[p] = h
         /\ LockStep => Moved(p, from, to) /\ Still /\ db'[p] = db[p]
<1>1. ASSUME NEW h, ReadStep(p, h) PROVE Moved(p, from, to) /\ Still /\ db'[p] = h
  BY <1>1, MoveFacts DEF ReadStep, Moved, Still
<1>2. ASSUME LockStep PROVE Moved(p, from, to) /\ Still /\ db'[p] = db[p]
  <2>1. db' = [db EXCEPT ![p] = db[p]]
    BY <1>2, Facts DEF LockStep
  <2> QED BY <1>2, <2>1, MoveFacts DEF LockStep, Moved, Still
<1> QED BY <1>1, <1>2

\* _db_writeptr.
LEMMA PtrDoes ==
  ASSUME IndInv, NEW p \in Proc, NEW from, NEW to, Transition(p, from, to),
         NEW o, NEW v, NEW h \in HandleType, WritePtr(p, o, v, h)
  PROVE  /\ Moved(p, from, to) /\ UNCHANGED <<rec, ieof, dat, deof>>
         /\ \A i \in 0..(ieof - 1) : i # o => ptr'[i] = ptr[i]
         /\ Keeps(db'[p], h) /\ db'[p].offset = h.offset
<1>1. PICK g : g = [h EXCEPT !.fpos = 0]
  OBVIOUS
<1>2. /\ db' = [db EXCEPT ![p] = g] /\ UNCHANGED <<rec, ieof, dat, deof, call, alive>>
      /\ ptr' = [ptr EXCEPT ![o] = v]
  BY <1>1 DEF WritePtr
<1>3. Moved(p, from, to) /\ db'[p] = g
  BY <1>2, MoveFacts DEF Moved
<1>4. Keeps(g, h) /\ g.offset = h.offset
  BY <1>1 DEF HandleType, Keeps
<1>5. \A i \in 0..(ieof - 1) : i # o => ptr'[i] = ptr[i]
  BY <1>2, Facts DEF FileType, FREE_OFF
<1> QED BY <1>2, <1>3, <1>4, <1>5

\* _db_writeidx, inside the file or at its end.
LEMMA IdxDoes ==
  ASSUME IndInv, NEW p \in Proc, NEW from, NEW to, Transition(p, from, to),
         NEW k, NEW n, NEW v,
         db[p].idxoff \in FirstRec..ieof, WriteIdx(p, db[p].idxoff, k, n, v),
         db' = [db EXCEPT ![p] = [db[p] EXCEPT !.ptrval = v, !.fpos = db[p].idxoff + 1]]
  PROVE  /\ Moved(p, from, to) /\ UNCHANGED <<dat, deof>> /\ Keeps(db'[p], db[p])
         /\ ieof' = IF db[p].idxoff = ieof THEN ieof + 1 ELSE ieof
         /\ \A i \in 0..(ieof - 1) : i # db[p].idxoff => ptr'[i] = ptr[i]
         /\ \A i \in FirstRec..(ieof - 1) : i # db[p].idxoff => rec'[i] = rec[i]
         /\ rec'[db[p].idxoff].key = k /\ rec'[db[p].idxoff].datoff = db[p].datoff
<1>1. PICK g : g = [db[p] EXCEPT !.ptrval = v, !.fpos = db[p].idxoff + 1]
  OBVIOUS
<1>2. PICK x : x = db[p].idxoff
  OBVIOUS
<1>3. /\ db' = [db EXCEPT ![p] = g] /\ UNCHANGED <<dat, deof, call, alive>>
      /\ ptr' = [i \in DOMAIN ptr \cup {x} |-> IF i = x THEN v ELSE ptr[i]]
      /\ ieof' = IF x < ieof THEN ieof ELSE x + 1
  BY <1>1, <1>2 DEF WriteIdx
<1>4. PICK r : /\ r.key = k /\ r.datoff = db[p].datoff
               /\ rec' = [i \in DOMAIN rec \cup {x} |-> IF i = x THEN r ELSE rec[i]]
  BY <1>2 DEF WriteIdx
<1>5. Moved(p, from, to) /\ db'[p] = g
  BY <1>3, MoveFacts DEF Moved
<1>6. Keeps(g, db[p])
  BY <1>1, Facts DEF HandleType, Keeps
<1>7. /\ DOMAIN ptr = 0..(ieof - 1) /\ DOMAIN rec = FirstRec..(ieof - 1)
      /\ ieof \in Nat /\ FirstRec \in Nat /\ x \in FirstRec..ieof
  BY <1>2, Facts, Sizes DEF FileType, FREE_OFF
<1>8. ieof' = IF x = ieof THEN ieof + 1 ELSE ieof
  BY <1>3, <1>7
<1>9. /\ \A i \in 0..(ieof - 1) : i # x => ptr'[i] = ptr[i]
      /\ \A i \in FirstRec..(ieof - 1) : i # x => rec'[i] = rec[i]
      /\ rec'[x].key = k /\ rec'[x].datoff = db[p].datoff
  BY <1>3, <1>4, <1>7
<1> QED BY <1>2, <1>3, <1>5, <1>6, <1>8, <1>9

\* _db_writedat, inside the file or at its end.
LEMMA DatDoes ==
  ASSUME IndInv, NEW p \in Proc, NEW from, NEW to, Transition(p, from, to),
         NEW v, NEW n, WriteDat(p, db[p].datoff, v, n),
         \A q \in Proc \ {p} : db'[q] = db[q]
  PROVE  /\ Moved(p, from, to) /\ UNCHANGED <<ptr, rec, ieof>>
         /\ dat'[db[p].datoff].val = v
         /\ \A i \in 0..(deof - 1) : i # db[p].datoff => dat'[i] = dat[i]
<1>1. PICK x : x = db[p].datoff
  OBVIOUS
<1>2. PICK r : r.val = v /\ dat' = [i \in DOMAIN dat \cup {x} |-> IF i = x THEN r ELSE dat[i]]
  BY <1>1 DEF WriteDat
<1>3. UNCHANGED <<ptr, rec, ieof, call, alive>>
  BY DEF WriteDat
<1>4. Moved(p, from, to)
  BY <1>3, Facts DEF Moved, Transition, OnlyBy
<1>5. DOMAIN dat = 0..(deof - 1)
  BY Facts DEF FileType
<1>6. dat'[x].val = v /\ \A i \in 0..(deof - 1) : i # x => dat'[i] = dat[i]
  BY <1>2, <1>5
<1> QED BY <1>1, <1>3, <1>4, <1>6

\* An answer changes nothing else.
LEMMA AnswerSets ==
  ASSUME NEW p, db[p] \in HandleType, NEW rc, NEW k, NEW d
  PROVE  LET h == Answer(p, rc, k, d) IN
         /\ h.ret = Reply(rc, k, d) /\ h.idxoff = db[p].idxoff /\ h.datoff = db[p].datoff
         /\ h.found = db[p].found /\ h.offset = db[p].offset
BY DEF Answer, HandleType

\* The end of a call.
Ends(p, from) ==
  /\ OnlyBy(p) /\ Still /\ pc[p] = from /\ pc'[p] = "idle"
  /\ call' = [call EXCEPT ![p] = NoCall] /\ ~db'[p].found /\ db'[p].ret = NoReply

\* What the last step of a call does.
LEMMA ResetDoes ==
  ASSUME IndInv, NEW p \in Proc, NEW from, Transition(p, from, "idle"),
         call' = [call EXCEPT ![p] = NoCall], db' = [db EXCEPT ![p] = Handle(db[p].fpos)],
         UNCHANGED <<idxvars, datvars, alive>>
  PROVE  Ends(p, from)
<1>1. call \in [Proc -> CallType]
  BY DEF IndInv, ControlInv, ControlType
<1>2. OnlyBy(p) /\ pc[p] = from /\ pc'[p] = "idle" /\ db'[p] = Handle(db[p].fpos)
  BY <1>1, Facts DEF Transition, OnlyBy
<1>3. ~Handle(db[p].fpos).found /\ Handle(db[p].fpos).ret = NoReply
  BY DEF Handle
<1> QED BY <1>2, <1>3 DEF Ends, Still, idxvars, datvars

\* _db_find_and_lock: the lock, and the first pointer.
LEMMA FindStarts ==
  ASSUME IndInv, NEW p \in Proc
  PROVE  /\ LockChain(p) => Moved(p, "lock_chain", "read_chain") /\ Still /\ db'[p] = db[p]
         /\ ReadChain(p) => /\ Moved(p, "read_chain", "walk") /\ Still
                            /\ db'[p].found = db[p].found /\ db'[p].ret = db[p].ret
                            /\ db'[p].ptroff = Chain(p) /\ db'[p].offset = ptr[Chain(p)]
<1>1. LockChain(p) => Moved(p, "lock_chain", "read_chain") /\ Still /\ db'[p] = db[p]
  BY ReadDoes DEF LockChain
<1>2. PICK h : h = [db[p] EXCEPT !.ptroff = Chain(p), !.offset = ptr[Chain(p)], !.fpos = 0]
  OBVIOUS
<1>3. /\ h.ptroff = Chain(p) /\ h.offset = ptr[Chain(p)]
      /\ h.found = db[p].found /\ h.ret = db[p].ret
  BY <1>2, Facts DEF HandleType
<1>4. ReadChain(p) => Moved(p, "read_chain", "walk") /\ Still /\ db'[p] = h
  BY <1>2, ReadDoes DEF ReadChain
<1> QED BY <1>1, <1>3, <1>4

\* The record at offset is not the one searched for.
LEMMA WalkNextDoes ==
  ASSUME IndInv, NEW p \in Proc, WalkNext(p)
  PROVE  LET o == db[p].offset IN
         /\ Moved(p, "walk", "walk") /\ Still
         /\ db'[p].found = db[p].found /\ db'[p].ret = db[p].ret
         /\ o # 0 /\ rec[o].key # call[p].key
         /\ db'[p].ptroff = o /\ db'[p].offset = ptr[o]
<1> DEFINE o == db[p].offset
<1>1. PICK g : g = ReadIdx(db[p], o)
  OBVIOUS
<1>2. /\ g.found = db[p].found /\ g.ret = db[p].ret /\ DOMAIN g = DOMAIN db[p]
  BY <1>1, Facts, ReadIdxFields
<1>3. PICK h : h = [g EXCEPT !.ptroff = o, !.offset = ptr[o]]
  OBVIOUS
<1>4. /\ Transition(p, "walk", "walk") /\ ReadStep(p, h) /\ o # 0
      /\ rec[o].key # call[p].key
  BY <1>1, <1>3 DEF WalkNext
<1>5. h.ptroff = o /\ h.offset = ptr[o] /\ h.found = db[p].found /\ h.ret = db[p].ret
  BY <1>2, <1>3, Facts DEF HandleType
<1> QED BY <1>4, <1>5, ReadDoes

\* It is: what p does next depends on its call.
LEMMA WalkFoundDoes ==
  ASSUME IndInv, NEW p \in Proc, WalkFound(p)
  PROVE  LET o == db[p].offset
             c == call[p]
         IN /\ Still /\ o # 0 /\ rec[o].key = c.key /\ db'[p].found = TRUE
            /\ db'[p].idxoff = o /\ db'[p].datoff = rec[o].datoff
            /\ \/ Moved(p, "walk", "read_dat") /\ c.op = "fetch" /\ db'[p].ret = db[p].ret
               \/ /\ Moved(p, "walk", "d_lock_free") /\ db'[p].ret = db[p].ret
                  /\ c.op = "delete" \/ (c.op = "store" /\ c.flag # "insert")
               \/ /\ Moved(p, "walk", "o_write_dat") /\ db'[p].ret = db[p].ret
                  /\ c.op = "store" /\ c.flag # "insert"
               \/ /\ Moved(p, "walk", "unlock") /\ c.op = "store" /\ c.flag = "insert"
                  /\ db'[p].ret = Reply("exists", NoKey, NoData)
<1> DEFINE o == db[p].offset
           c == call[p]
<1>1. PICK g : g = ReadIdx(db[p], o)
  OBVIOUS
<1>2. /\ g.idxoff = o /\ g.datoff = rec[o].datoff /\ g.ret = db[p].ret
      /\ DOMAIN g = DOMAIN db[p]
  BY <1>1, Facts, ReadIdxFields
<1>3. PICK h : h = [g EXCEPT !.found = TRUE]
  OBVIOUS
<1>4. /\ h.idxoff = o /\ h.datoff = rec[o].datoff /\ h.found = TRUE /\ h.ret = db[p].ret
      /\ DOMAIN h = DOMAIN db[p]
  BY <1>2, <1>3, Facts DEF HandleType
<1>5. PICK x : x = [h EXCEPT !.ret = Reply("exists", NoKey, NoData)]
  OBVIOUS
<1>6. /\ x.idxoff = o /\ x.datoff = rec[o].datoff /\ x.found = TRUE
      /\ x.ret = Reply("exists", NoKey, NoData)
  BY <1>4, <1>5, Facts DEF HandleType
<1>7. /\ o # 0 /\ rec[o].key = c.key
      /\ \/ c.op = "fetch" /\ Transition(p, "walk", "read_dat") /\ ReadStep(p, h)
         \/ /\ c.op = "delete" \/ (c.op = "store" /\ c.flag # "insert")
            /\ Transition(p, "walk", "d_lock_free") /\ ReadStep(p, h)
         \/ /\ c.op = "store" /\ c.flag # "insert"
            /\ Transition(p, "walk", "o_write_dat") /\ ReadStep(p, h)
         \/ /\ c.op = "store" /\ c.flag = "insert"
            /\ Transition(p, "walk", "unlock") /\ ReadStep(p, x)
  BY <1>1, <1>3, <1>5 DEF WalkFound
<1> QED BY <1>4, <1>6, <1>7, ReadDoes

\* The chain ends; a fetch reads its data record; a call ends.
LEMMA FindEnds ==
  ASSUME IndInv, NEW p \in Proc
  PROVE  /\ WalkEnd(p) =>
              /\ Still /\ db[p].offset = 0 /\ db'[p].found = db[p].found
              /\ \/ /\ call[p].op = "store" /\ call[p].flag # "replace"
                    /\ Moved(p, "walk", "s_read_chain") /\ db'[p] = db[p]
                 \/ /\ ~(call[p].op = "store" /\ call[p].flag # "replace")
                    /\ Moved(p, "walk", "unlock")
                    /\ db'[p].ret = Reply("error", NoKey, NoData)
         /\ FetchDat(p) =>
              /\ Moved(p, "read_dat", "unlock") /\ Still /\ db'[p].found = db[p].found
              /\ db'[p].ret = Reply("ok", call[p].key, dat[db[p].datoff].val)
         /\ Unlock(p) => Ends(p, "unlock")
<1>1. db[p] \in HandleType
  BY Facts
<1>2. WalkEnd(p) =>
        /\ Still /\ db[p].offset = 0 /\ db'[p].found = db[p].found
        /\ \/ /\ call[p].op = "store" /\ call[p].flag # "replace"
              /\ Moved(p, "walk", "s_read_chain") /\ db'[p] = db[p]
           \/ /\ ~(call[p].op = "store" /\ call[p].flag # "replace")
              /\ Moved(p, "walk", "unlock") /\ db'[p].ret = Reply("error", NoKey, NoData)
  BY <1>1, ReadDoes, AnswerSets DEF WalkEnd
<1>3. FetchDat(p) =>
        /\ Moved(p, "read_dat", "unlock") /\ Still /\ db'[p].found = db[p].found
        /\ db'[p].ret = Reply("ok", call[p].key, dat[db[p].datoff].val)
  BY <1>1, ReadDoes, AnswerSets DEF FetchDat
<1>4. Unlock(p) => Ends(p, "unlock")
  BY ResetDoes DEF Unlock
<1> QED BY <1>2, <1>3, <1>4

\* The steps of _db_dodelete that write.
LEMMA DeleteDoes ==
  ASSUME IndInv, NEW p \in Proc
  PROVE  LET h == db[p]
             ok == Reply("ok", NoKey, NoData)
         IN
         /\ DelWriteDat(p) =>
              /\ Moved(p, "d_write_dat", "d_read_free") /\ UNCHANGED <<ptr, rec, ieof>>
              /\ db'[p] = h /\ dat'[h.datoff].val = Blank
              /\ \A i \in 0..(deof - 1) : i # h.datoff => dat'[i] = dat[i]
         /\ DelWriteIdx(p) =>
              /\ Moved(p, "d_write_idx", "d_write_free") /\ UNCHANGED <<ieof, dat, deof>>
              /\ Keeps(db'[p], h) /\ rec'[h.idxoff].key = Blank
              /\ \A i \in 0..(ieof - 1) : i # h.idxoff => ptr'[i] = ptr[i]
              /\ \A i \in FirstRec..(ieof - 1) : i # h.idxoff => rec'[i] = rec[i]
         /\ DelWriteFree(p) =>
              /\ Moved(p, "d_write_free", "d_write_ptr") /\ UNCHANGED <<rec, ieof, dat, deof>>
              /\ Keeps(db'[p], h) /\ \A i \in 0..(ieof - 1) : i # 0 => ptr'[i] = ptr[i]
         /\ DelWritePtr(p) =>
              /\ Moved(p, "d_write_ptr", "d_unlock_free")
              /\ UNCHANGED <<rec, ieof, dat, deof>> /\ db'[p].found = h.found
              /\ db'[p].ret = IF call[p].op = "delete" THEN ok ELSE h.ret
              /\ \A i \in 0..(ieof - 1) : i # h.ptroff => ptr'[i] = ptr[i]
<1>1. db[p] \in HandleType /\ FileType /\ Positioned(pc[p], db[p]) /\ FirstRec \in Nat
  BY Facts, Sizes
<1>2. ASSUME DelWriteDat(p)
      PROVE  /\ Moved(p, "d_write_dat", "d_read_free") /\ UNCHANGED <<ptr, rec, ieof>>
             /\ db'[p] = db[p] /\ dat'[db[p].datoff].val = Blank
             /\ \A i \in 0..(deof - 1) : i # db[p].datoff => dat'[i] = dat[i]
  <2>1. db'[p] = db[p] /\ \A q \in Proc \ {p} : db'[q] = db[q]
    BY <1>2 DEF DelWriteDat
  <2> QED BY <1>2, <2>1, DatDoes DEF DelWriteDat
<1>3. ASSUME DelWriteIdx(p)
      PROVE  /\ Moved(p, "d_write_idx", "d_write_free") /\ UNCHANGED <<ieof, dat, deof>>
             /\ Keeps(db'[p], db[p]) /\ rec'[db[p].idxoff].key = Blank
             /\ \A i \in 0..(ieof - 1) : i # db[p].idxoff => ptr'[i] = ptr[i]
             /\ \A i \in FirstRec..(ieof - 1) : i # db[p].idxoff => rec'[i] = rec[i]
  <2>1. /\ Transition(p, "d_write_idx", "d_write_free")
        /\ WriteIdx(p, db[p].idxoff, Blank, KeyLen[call[p].key], db[p].head)
        /\ db' = [db EXCEPT ![p] = [db[p] EXCEPT !.ptrval = db[p].head,
                                                 !.fpos = db[p].idxoff + 1]]
    BY <1>3 DEF DelWriteIdx
  <2>2. db[p].idxoff \in FirstRec..(ieof - 1) /\ ieof \in Nat
    BY <1>1, <2>1 DEF Transition, Positioned, RecordPC, DelPC, FileType
  <2>3. db[p].idxoff \in FirstRec..ieof /\ db[p].idxoff # ieof
    BY <1>1, <2>2
  <2> QED BY <2>1, <2>3, IdxDoes
<1>4. DelWriteFree(p) =>
        /\ Moved(p, "d_write_free", "d_write_ptr") /\ UNCHANGED <<rec, ieof, dat, deof>>
        /\ Keeps(db'[p], db[p]) /\ \A i \in 0..(ieof - 1) : i # 0 => ptr'[i] = ptr[i]
  BY <1>1, PtrDoes DEF DelWriteFree, FREE_OFF
<1>5. ASSUME DelWritePtr(p)
      PROVE  /\ Moved(p, "d_write_ptr", "d_unlock_free")
             /\ UNCHANGED <<rec, ieof, dat, deof>> /\ db'[p].found = db[p].found
             /\ db'[p].ret = IF call[p].op = "delete" THEN Reply("ok", NoKey, NoData)
                             ELSE db[p].ret
             /\ \A i \in 0..(ieof - 1) : i # db[p].ptroff => ptr'[i] = ptr[i]
  <2>1. PICK h : h = IF call[p].op = "delete" THEN Answer(p, "ok", NoKey, NoData) ELSE db[p]
    OBVIOUS
  <2>2. h \in HandleType
    BY <1>1, <2>1, AnswerFits DEF HandleFits
  <2>3. Transition(p, "d_write_ptr", "d_unlock_free") /\ WritePtr(p, db[p].ptroff, db[p].save, h)
    BY <1>5, <2>1 DEF DelWritePtr
  <2>4. /\ h.found = db[p].found
        /\ h.ret = IF call[p].op = "delete" THEN Reply("ok", NoKey, NoData) ELSE db[p].ret
    BY <1>1, <2>1, AnswerSets
  <2> QED BY <2>2, <2>3, <2>4, PtrDoes DEF Keeps
<1> QED BY <1>2, <1>3, <1>4, <1>5

\* The steps of _db_dodelete and _db_findfree that lock and read.
LEMMA FreeDoes ==
  ASSUME IndInv, NEW p \in Proc
  PROVE  LET h == db[p]
             g == db'[p]
             o == h.offset
         IN
         /\ DelLockFree(p) => Moved(p, "d_lock_free", "d_write_dat") /\ Still /\ g = h
         /\ DelReadFree(p) => Moved(p, "d_read_free", "d_write_idx") /\ Still /\ Keeps(g, h)
         /\ DelUnlockFree(p) =>
              /\ Moved(p, "d_unlock_free",
                       IF call[p].op = "delete" THEN "unlock" ELSE "s_read_chain")
              /\ Still /\ g = h
         /\ FreeLock(p) => Moved(p, "f_lock", "f_read") /\ Still /\ g = h
         /\ FreeRead(p) => Moved(p, "f_read", "f_walk") /\ Still /\ Keeps(g, h)
         /\ FreeWalk(p) =>
              /\ Still /\ g.found = h.found /\ g.ret = h.ret
              /\ \/ Moved(p, "f_walk", "f_walk")
                 \/ /\ Moved(p, "f_walk", "f_unlink") /\ o # 0
                    /\ g.idxoff = o /\ g.datoff = rec[o].datoff
                 \/ Moved(p, "f_walk", "f_unlock") /\ g.offset = 0
         /\ FreeUnlock(p) =>
              /\ Moved(p, "f_unlock", IF o = 0 THEN "a_lock_dat" ELSE "r_write_dat")
              /\ Still /\ g = h
<1> DEFINE o == db[p].offset
<1>1. db[p] \in HandleType
  BY Facts
<1>2. DelLockFree(p) => Moved(p, "d_lock_free", "d_write_dat") /\ Still /\ db'[p] = db[p]
  BY ReadDoes DEF DelLockFree
<1>3. DelReadFree(p) => Moved(p, "d_read_free", "d_write_idx") /\ Still /\ Keeps(db'[p], db[p])
  <2>1. PICK h : h = [db[p] EXCEPT !.head = ptr[FREE_OFF], !.save = db[p].ptrval, !.fpos = 0]
    OBVIOUS
  <2>2. Keeps(h, db[p])
    BY <1>1, <2>1 DEF Keeps, HandleType
  <2> QED BY <2>1, <2>2, ReadDoes DEF DelReadFree
<1>4. DelUnlockFree(p) =>
        /\ Moved(p, "d_unlock_free", IF call[p].op = "delete" THEN "unlock" ELSE "s_read_chain")
        /\ Still /\ db'[p] = db[p]
  BY ReadDoes DEF DelUnlockFree
<1>5. FreeLock(p) => Moved(p, "f_lock", "f_read") /\ Still /\ db'[p] = db[p]
  BY ReadDoes DEF FreeLock
<1>6. FreeRead(p) => Moved(p, "f_read", "f_walk") /\ Still /\ Keeps(db'[p], db[p])
  <2>1. PICK h : h = [db[p] EXCEPT !.save = FREE_OFF, !.offset = ptr[FREE_OFF], !.fpos = 0]
    OBVIOUS
  <2>2. Keeps(h, db[p])
    BY <1>1, <2>1 DEF Keeps, HandleType
  <2> QED BY <2>1, <2>2, ReadDoes DEF FreeRead
<1>7. ASSUME FreeWalk(p)
      PROVE  /\ Still /\ db'[p].found = db[p].found /\ db'[p].ret = db[p].ret
             /\ \/ Moved(p, "f_walk", "f_walk")
                \/ /\ Moved(p, "f_walk", "f_unlink") /\ o # 0
                   /\ db'[p].idxoff = o /\ db'[p].datoff = rec[o].datoff
                \/ Moved(p, "f_walk", "f_unlock") /\ db'[p].offset = 0
  <2>1. PICK g : g = ReadIdx(db[p], o)
    OBVIOUS
  <2>2. /\ g.idxoff = o /\ g.datoff = rec[o].datoff /\ g.found = db[p].found
        /\ g.ret = db[p].ret /\ DOMAIN g = DOMAIN db[p]
    BY <1>1, <2>1, ReadIdxFields
  <2>3. PICK h : h = [g EXCEPT !.save = o, !.offset = ptr[o]]
    OBVIOUS
  <2>4. h.found = db[p].found /\ h.ret = db[p].ret
    BY <1>1, <2>2, <2>3 DEF HandleType
  <2>5. \/ Transition(p, "f_walk", "f_walk") /\ ReadStep(p, h)
        \/ Transition(p, "f_walk", "f_unlink") /\ ReadStep(p, g) /\ o # 0
        \/ Transition(p, "f_walk", "f_unlock") /\ ReadStep(p, db[p]) /\ o = 0
    BY <1>7, <2>1, <2>3 DEF FreeWalk
  <2> QED BY <2>2, <2>4, <2>5, ReadDoes
<1>8. FreeUnlock(p) =>
        /\ Moved(p, "f_unlock", IF o = 0 THEN "a_lock_dat" ELSE "r_write_dat")
        /\ Still /\ db'[p] = db[p]
  BY ReadDoes DEF FreeUnlock
<1> QED BY <1>2, <1>3, <1>4, <1>5, <1>6, <1>7, <1>8

\* The steps of db_store that lock and read.
LEMMA StoreReads ==
  ASSUME IndInv, NEW p \in Proc
  PROVE  LET h == db[p]
             g == db'[p]
         IN
         /\ StoreReadChain(p) =>
              /\ Moved(p, "s_read_chain", IF h.found THEN "a_lock_dat" ELSE "f_lock")
              /\ Still /\ Keeps(g, h)
         /\ LockDat(p) => Moved(p, "a_lock_dat", "a_seek_dat") /\ Still /\ g = h
         /\ SeekDat(p) => /\ Moved(p, "a_seek_dat", "a_write_dat") /\ Still
                          /\ g.found = h.found /\ g.ret = h.ret
         /\ UnlockDat(p) => Moved(p, "a_unlock_dat", "a_lock_idx") /\ Still /\ g = h
         /\ LockIdx(p) => Moved(p, "a_lock_idx", "a_seek_idx") /\ Still /\ g = h
         /\ SeekIdx(p) => /\ Moved(p, "a_seek_idx", "a_write_idx") /\ Still
                          /\ g.found = h.found /\ g.ret = h.ret /\ g.datoff = h.datoff
         /\ UnlockIdx(p) => Moved(p, "a_unlock_idx", "s_write_chain") /\ Still /\ g = h
<1>1. db[p] \in HandleType
  BY Facts
<1>2. StoreReadChain(p) =>
        /\ Moved(p, "s_read_chain", IF db[p].found THEN "a_lock_dat" ELSE "f_lock")
        /\ Still /\ Keeps(db'[p], db[p])
  <2>1. PICK h : h = [db[p] EXCEPT !.head = ptr[Chain(p)], !.fpos = 0]
    OBVIOUS
  <2>2. Keeps(h, db[p])
    BY <1>1, <2>1 DEF Keeps, HandleType
  <2> QED BY <2>1, <2>2, ReadDoes DEF StoreReadChain
<1>3. LockDat(p) => Moved(p, "a_lock_dat", "a_seek_dat") /\ Still /\ db'[p] = db[p]
  BY ReadDoes DEF LockDat
<1>4. SeekDat(p) => /\ Moved(p, "a_seek_dat", "a_write_dat") /\ Still
                    /\ db'[p].found = db[p].found /\ db'[p].ret = db[p].ret
  <2>1. PICK h : h = [db[p] EXCEPT !.datoff = deof, !.datlen = DatLen[call[p].data]]
    OBVIOUS
  <2>2. h.found = db[p].found /\ h.ret = db[p].ret
    BY <1>1, <2>1 DEF HandleType
  <2> QED BY <2>1, <2>2, ReadDoes DEF SeekDat
<1>5. UnlockDat(p) => Moved(p, "a_unlock_dat", "a_lock_idx") /\ Still /\ db'[p] = db[p]
  BY ReadDoes DEF UnlockDat
<1>6. LockIdx(p) => Moved(p, "a_lock_idx", "a_seek_idx") /\ Still /\ db'[p] = db[p]
  BY ReadDoes DEF LockIdx
<1>7. SeekIdx(p) => /\ Moved(p, "a_seek_idx", "a_write_idx") /\ Still /\ db'[p].ret = db[p].ret
                    /\ db'[p].found = db[p].found /\ db'[p].datoff = db[p].datoff
  <2>1. PICK h : h = [db[p] EXCEPT !.idxoff = ieof]
    OBVIOUS
  <2>2. h.found = db[p].found /\ h.ret = db[p].ret /\ h.datoff = db[p].datoff
    BY <1>1, <2>1 DEF HandleType
  <2> QED BY <2>1, <2>2, ReadDoes DEF SeekIdx
<1>8. UnlockIdx(p) => Moved(p, "a_unlock_idx", "s_write_chain") /\ Still /\ db'[p] = db[p]
  BY ReadDoes DEF UnlockIdx
<1> QED BY <1>2, <1>3, <1>4, <1>5, <1>6, <1>7, <1>8

\* The writes of _db_findfree and db_store.
LEMMA StoreDoes ==
  ASSUME IndInv, NEW p \in Proc
  PROVE  LET h == db[p]
             g == db'[p]
             c == call[p]
         IN
         /\ FreeUnlink(p) =>
              /\ Moved(p, "f_unlink", "f_unlock") /\ UNCHANGED <<rec, ieof, dat, deof>>
              /\ Keeps(g, h) /\ g.offset = h.offset
              /\ \A i \in 0..(ieof - 1) : i # h.save => ptr'[i] = ptr[i]
         /\ ReuseWriteDat(p) =>
              /\ Moved(p, "r_write_dat", "r_write_idx") /\ UNCHANGED <<ptr, rec, ieof>>
              /\ g = h /\ dat'[h.datoff].val = c.data
              /\ \A i \in 0..(deof - 1) : i # h.datoff => dat'[i] = dat[i]
         /\ AppendDat(p) =>
              /\ Moved(p, "a_write_dat", "a_unlock_dat") /\ UNCHANGED <<ptr, rec, ieof>>
              /\ g = h /\ dat'[h.datoff].val = c.data
              /\ \A i \in 0..(deof - 1) : i # h.datoff => dat'[i] = dat[i]
         /\ OverwriteDat(p) =>
              /\ Moved(p, "o_write_dat", "unlock") /\ UNCHANGED <<ptr, rec, ieof>>
              /\ g.found = h.found /\ g.ret = Reply("ok", NoKey, NoData)
              /\ dat'[h.datoff].val = c.data
              /\ \A i \in 0..(deof - 1) : i # h.datoff => dat'[i] = dat[i]
         /\ StoreWriteChain(p) =>
              /\ Moved(p, "s_write_chain", "unlock") /\ UNCHANGED <<rec, ieof, dat, deof>>
              /\ g.found = h.found /\ g.ret = Reply("ok", NoKey, NoData)
              /\ \A i \in 0..(ieof - 1) : i # Chain(p) => ptr'[i] = ptr[i]
<1>1. db[p] \in HandleType
  BY Facts
<1>2. FreeUnlink(p) =>
        /\ Moved(p, "f_unlink", "f_unlock") /\ UNCHANGED <<rec, ieof, dat, deof>>
        /\ Keeps(db'[p], db[p]) /\ db'[p].offset = db[p].offset
        /\ \A i \in 0..(ieof - 1) : i # db[p].save => ptr'[i] = ptr[i]
  BY <1>1, PtrDoes DEF FreeUnlink
<1>4. ASSUME ReuseWriteDat(p)
      PROVE  /\ Moved(p, "r_write_dat", "r_write_idx") /\ UNCHANGED <<ptr, rec, ieof>>
             /\ db'[p] = db[p] /\ dat'[db[p].datoff].val = call[p].data
             /\ \A i \in 0..(deof - 1) : i # db[p].datoff => dat'[i] = dat[i]
  <2>1. db'[p] = db[p] /\ \A q \in Proc \ {p} : db'[q] = db[q]
    BY <1>4 DEF ReuseWriteDat
  <2>2. /\ Transition(p, "r_write_dat", "r_write_idx")
        /\ WriteDat(p, db[p].datoff, call[p].data, DatLen[call[p].data])
    BY <1>4 DEF ReuseWriteDat
  <2> QED BY <2>1, <2>2, DatDoes
<1>5. ASSUME AppendDat(p)
      PROVE  /\ Moved(p, "a_write_dat", "a_unlock_dat") /\ UNCHANGED <<ptr, rec, ieof>>
             /\ db'[p] = db[p] /\ dat'[db[p].datoff].val = call[p].data
             /\ \A i \in 0..(deof - 1) : i # db[p].datoff => dat'[i] = dat[i]
  <2>1. db'[p] = db[p] /\ \A q \in Proc \ {p} : db'[q] = db[q]
    BY <1>5 DEF AppendDat
  <2>2. /\ Transition(p, "a_write_dat", "a_unlock_dat")
        /\ WriteDat(p, db[p].datoff, call[p].data, db[p].datlen)
    BY <1>5 DEF AppendDat
  <2> QED BY <2>1, <2>2, DatDoes
<1>6. PICK a : a = Answer(p, "ok", NoKey, NoData)
  OBVIOUS
<1>7. a.found = db[p].found /\ a.ret = Reply("ok", NoKey, NoData) /\ a \in HandleType
  BY <1>1, <1>6, AnswerSets, AnswerFits DEF HandleFits
<1>8. ASSUME OverwriteDat(p)
      PROVE  /\ Moved(p, "o_write_dat", "unlock") /\ UNCHANGED <<ptr, rec, ieof>>
             /\ db'[p] = a /\ dat'[db[p].datoff].val = call[p].data
             /\ \A i \in 0..(deof - 1) : i # db[p].datoff => dat'[i] = dat[i]
  <2>1. db'[p] = a /\ \A q \in Proc \ {p} : db'[q] = db[q]
    BY <1>6, <1>8, Facts DEF OverwriteDat
  <2>2. /\ Transition(p, "o_write_dat", "unlock")
        /\ WriteDat(p, db[p].datoff, call[p].data, DatLen[call[p].data])
    BY <1>8 DEF OverwriteDat
  <2> QED BY <2>1, <2>2, DatDoes
<1>9. StoreWriteChain(p) =>
        /\ Moved(p, "s_write_chain", "unlock") /\ UNCHANGED <<rec, ieof, dat, deof>>
        /\ Keeps(db'[p], a)
        /\ \A i \in 0..(ieof - 1) : i # Chain(p) => ptr'[i] = ptr[i]
  BY <1>6, <1>7, PtrDoes DEF StoreWriteChain
<1> QED BY <1>2, <1>4, <1>5, <1>7, <1>8, <1>9 DEF Keeps

\* db_store writes the record of its key, over a free one or at the end.
LEMMA StoreIdxDoes ==
  ASSUME IndInv, NEW p \in Proc, ReuseWriteIdx(p) \/ AppendIdx(p)
  PROVE  LET x == db[p].idxoff IN
         /\ \/ ReuseWriteIdx(p) /\ Moved(p, "r_write_idx", "s_write_chain") /\ ieof' = ieof
               /\ x \in FirstRec..(ieof - 1)
            \/ AppendIdx(p) /\ Moved(p, "a_write_idx", "a_unlock_idx")
               /\ ieof' = ieof + 1 /\ x = ieof
         /\ UNCHANGED <<dat, deof>> /\ Keeps(db'[p], db[p])
         /\ \A i \in 0..(ieof - 1) : i # x => ptr'[i] = ptr[i]
         /\ \A i \in FirstRec..(ieof - 1) : i # x => rec'[i] = rec[i]
         /\ rec'[x].key = call[p].key /\ rec'[x].datoff = db[p].datoff
<1> DEFINE x == db[p].idxoff
<1>1. /\ FirstRec \in Nat /\ ieof \in Nat /\ ieof >= FirstRec /\ Positioned(pc[p], db[p])
  BY Facts, Sizes DEF FileType
<1>2. PICK from, to : /\ Transition(p, from, to) /\ StoreWriteIdx(p, x)
                      /\ \/ ReuseWriteIdx(p) /\ from = "r_write_idx" /\ to = "s_write_chain"
                         \/ AppendIdx(p) /\ from = "a_write_idx" /\ to = "a_unlock_idx"
  BY DEF ReuseWriteIdx, AppendIdx
<1>3. from = "r_write_idx" => x \in FirstRec..(ieof - 1)
  BY <1>1, <1>2 DEF Transition, Positioned, RecordPC
<1>4. from = "a_write_idx" => x = ieof
  BY <1>2 DEF Transition, IndInv, FilesInv, AppendAtEnd
<1>5. x \in FirstRec..ieof /\ (from = "r_write_idx" => x # ieof)
  BY <1>1, <1>2, <1>3, <1>4
<1>6. /\ WriteIdx(p, x, call[p].key, KeyLen[call[p].key], db[p].head)
      /\ db' = [db EXCEPT ![p] = [db[p] EXCEPT !.ptrval = db[p].head, !.fpos = x + 1]]
  BY <1>2 DEF StoreWriteIdx
<1>7. /\ Moved(p, from, to) /\ UNCHANGED <<dat, deof>> /\ Keeps(db'[p], db[p])
      /\ ieof' = IF x = ieof THEN ieof + 1 ELSE ieof
      /\ \A i \in 0..(ieof - 1) : i # x => ptr'[i] = ptr[i]
      /\ \A i \in FirstRec..(ieof - 1) : i # x => rec'[i] = rec[i]
      /\ rec'[x].key = call[p].key /\ rec'[x].datoff = db[p].datoff
  BY <1>2, <1>5, <1>6, IdxDoes
<1> QED BY <1>2, <1>3, <1>4, <1>5, <1>7

\* db_nextrec.
LEMMA NextDoes ==
  ASSUME IndInv, NEW p \in Proc
  PROVE  LET h == db[p]
             g == db'[p]
             o == h.fpos
         IN
         /\ NextLock(p) => Moved(p, "n_lock", "n_read") /\ Still /\ g = h
         /\ NextRead(p) =>
              /\ Still /\ g.found = h.found
              /\ \/ Moved(p, "n_read", "n_unlock") /\ g.ret = Reply("error", NoKey, NoData)
                 \/ Moved(p, "n_read", "n_read") /\ g.ret = h.ret
                 \/ /\ Moved(p, "n_read", "n_read_dat") /\ g.ret = h.ret
                    /\ o \in FirstRec..(ieof - 1) /\ rec[o].key # Blank
                    /\ g.key = rec[o].key /\ g.datoff = rec[o].datoff
         /\ NextDat(p) => /\ Moved(p, "n_read_dat", "n_unlock") /\ Still /\ g.found = h.found
                          /\ g.ret = Reply("ok", h.key, dat[h.datoff].val)
         /\ NextUnlock(p) => Ends(p, "n_unlock")
<1> DEFINE o == db[p].fpos
<1>1. /\ db[p] \in HandleType /\ o \in Nat /\ (o # 0 => o >= FirstRec) /\ FirstRec \in Nat
      /\ ieof \in Nat
  BY Facts, Sizes DEF HandleFits, HandleType, FileType
<1>2. NextLock(p) => Moved(p, "n_lock", "n_read") /\ Still /\ db'[p] = db[p]
  BY ReadDoes DEF NextLock
<1>3. ASSUME NextRead(p)
      PROVE  /\ Still /\ db'[p].found = db[p].found
             /\ \/ /\ Moved(p, "n_read", "n_unlock")
                   /\ db'[p].ret = Reply("error", NoKey, NoData)
                \/ Moved(p, "n_read", "n_read") /\ db'[p].ret = db[p].ret
                \/ /\ Moved(p, "n_read", "n_read_dat") /\ db'[p].ret = db[p].ret
                   /\ o \in FirstRec..(ieof - 1) /\ rec[o].key # Blank
                   /\ db'[p].key = rec[o].key /\ db'[p].datoff = rec[o].datoff
  <2>1. PICK g : g = ReadIdx(db[p], o)
    OBVIOUS
  <2>2. /\ g.key = rec[o].key /\ g.datoff = rec[o].datoff /\ g.found = db[p].found
        /\ g.ret = db[p].ret
    BY <1>1, <2>1, ReadIdxFields
  <2>3. PICK a : a = Answer(p, "error", NoKey, NoData)
    OBVIOUS
  <2>4. a.found = db[p].found /\ a.ret = Reply("error", NoKey, NoData)
    BY <1>1, <2>3, AnswerSets
  <2>5. \/ Transition(p, "n_read", "n_unlock") /\ ReadStep(p, a)
        \/ Transition(p, "n_read", "n_read") /\ ReadStep(p, g)
        \/ /\ Transition(p, "n_read", "n_read_dat") /\ ReadStep(p, g)
           /\ o # 0 /\ o < ieof /\ rec[o].key # Blank
    BY <1>3, <2>1, <2>3 DEF NextRead
  <2>6. o # 0 /\ o < ieof => o \in FirstRec..(ieof - 1)
    BY <1>1
  <2> QED BY <2>2, <2>4, <2>5, <2>6, ReadDoes
<1>4. NextDat(p) =>
        /\ Moved(p, "n_read_dat", "n_unlock") /\ Still /\ db'[p].found = db[p].found
        /\ db'[p].ret = Reply("ok", db[p].key, dat[db[p].datoff].val)
  BY <1>1, ReadDoes, AnswerSets DEF NextDat
<1>5. NextUnlock(p) => Ends(p, "n_unlock")
  BY ResetDoes DEF NextUnlock
<1> QED BY <1>2, <1>3, <1>4, <1>5

\* A call begins; a call that is refused, or db_rewind, changes no file.
Starts(p, c, to) ==
  /\ OnlyBy(p) /\ Still /\ pc[p] = "idle" /\ pc'[p] = to
  /\ call' = [call EXCEPT ![p] = c] /\ db'[p] = db[p]

\* What a call does when it begins.
LEMMA InvokeDoes ==
  ASSUME IndInv, NEW p \in Proc, Invoke(p)
  PROVE  \/ \E k \in Key : Starts(p, Call("fetch", k, NoData, "none"), "lock_chain")
         \/ \E k \in Key : Starts(p, Call("delete", k, NoData, "none"), "lock_chain")
         \/ \E k \in Key, d \in Data, f \in Flags :
              Starts(p, Call("store", k, d, f), "lock_chain")
         \/ Starts(p, Call("nextrec", NoKey, NoData, "none"), "n_lock")
         \/ /\ Moved(p, "idle", "idle") /\ Still
            /\ db'[p].found = db[p].found /\ db'[p].ret = db[p].ret
         \/ p \in alive /\ pc[p] = "idle" /\ Die(p)
<1>1. ASSUME NEW c, NEW to, Begin(p, c, to) PROVE Starts(p, c, to)
  BY <1>1, Facts DEF Begin, Transition, Starts, OnlyBy, Still, idxvars, datvars,
     IndInv, ControlInv, ControlType
<1>2. ASSUME StoreBadFlag(p)
      PROVE  /\ Moved(p, "idle", "idle") /\ Still
             /\ db'[p].found = db[p].found /\ db'[p].ret = db[p].ret
  BY <1>2 DEF StoreBadFlag, Moved, OnlyBy, Still, idxvars, datvars
<1>3. ASSUME Rewind(p)
      PROVE  /\ Moved(p, "idle", "idle") /\ Still
             /\ db'[p].found = db[p].found /\ db'[p].ret = db[p].ret
  <2>1. PICK h : h = [db[p] EXCEPT !.fpos = FirstRec]
    OBVIOUS
  <2>2. db' = [db EXCEPT ![p] = h]
    BY <1>3, <2>1 DEF Rewind
  <2>3. h.found = db[p].found /\ h.ret = db[p].ret
    BY <2>1, Facts DEF HandleType
  <2> QED BY <1>3, <2>2, <2>3, Facts DEF Rewind, Moved, OnlyBy, Still, idxvars, datvars
<1>4. \A d \in Data : StoreBadLength(p, d) => p \in alive /\ pc[p] = "idle" /\ Die(p)
  BY DEF StoreBadLength
<1>5. \A k \in Key : CallFetch(p, k) => Starts(p, Call("fetch", k, NoData, "none"), "lock_chain")
  BY <1>1 DEF CallFetch
<1>6. \A k \in Key :
        CallDelete(p, k) => Starts(p, Call("delete", k, NoData, "none"), "lock_chain")
  BY <1>1 DEF CallDelete
<1>7. \A k \in Key, d \in Data, f \in Flags :
        CallStore(p, k, d, f) => Starts(p, Call("store", k, d, f), "lock_chain")
  BY <1>1 DEF CallStore
<1>8. CallNextrec(p) => Starts(p, Call("nextrec", NoKey, NoData, "none"), "n_lock")
  BY <1>1 DEF CallNextrec
<1> QED BY <1>2, <1>3, <1>4, <1>5, <1>6, <1>7, <1>8 DEF Invoke
-----------------------------------------------------------------------------
(***************************************************************************)
(* What a process at label l with handle h has found out for its call c,   *)
(* and when it has an answer: not before the last step of a search, a      *)
(* deletion or a store.                                                    *)
(***************************************************************************)
Talks(l, h, c) ==
  /\ l = "idle" => c = NoCall
  /\ l \in {"idle", "lock_chain", "read_chain", "walk", "n_lock"} \cup ScanPC => ~h.found
  /\ l \in DelPC \cup {"read_dat", "o_write_dat"} => h.found
  /\ l \notin {"unlock", "n_unlock", "d_unlock_free"} => h.ret = NoReply
  /\ l \in {"unlock", "n_unlock"} => h.ret.rc # "none"
  /\ l = "d_unlock_free" =>
       h.ret = IF c.op = "delete" THEN Reply("ok", NoKey, NoData) ELSE NoReply
  /\ c.op = "delete" => c.data = NoData
  /\ l \in DelPC \cup StorePC /\ c.op = "store" =>
       c.flag # IF h.found THEN "insert" ELSE "replace"
  /\ l = "read_dat" => c.op = "fetch"
  /\ l \in ScanPC \cup {"n_lock"} => c.op = "nextrec"
TalkInv == \A p \in Proc : Talks(pc[p], db[p], call[p])

\* A step of p changes only what p has to say.
LEMMA OthersTalk ==
  ASSUME TalkInv, NEW p \in Proc, OnlyBy(p), Talks(pc'[p], db'[p], call'[p])
  PROVE  TalkInv'
BY DEF TalkInv, OnlyBy

\* Steps that leave the result of the search and the answer alone.
LEMMA SilentTalk ==
  ASSUME TalkInv, NEW p \in Proc, NEW from, NEW to, Moved(p, from, to),
         db'[p].found = db[p].found, db'[p].ret = db[p].ret,
         from \notin {"idle", "unlock", "n_unlock", "d_unlock_free", "read_dat"},
         to \notin {"idle", "unlock", "n_unlock", "d_unlock_free", "read_dat", "o_write_dat"},
         to \in {"lock_chain", "read_chain", "walk"} =>
           from \in {"lock_chain", "read_chain", "walk"},
         to \in ScanPC => from \in ScanPC \cup {"n_lock"},
         to \in DelPC => from \in DelPC,
         to \in StorePC => from \in StorePC, to # "n_lock"
  PROVE  TalkInv'
<1>1. /\ Talks(from, db[p], call[p]) /\ pc'[p] = to /\ call'[p] = call[p] /\ OnlyBy(p)
  BY DEF TalkInv, Moved
<1>2. Talks(to, db'[p], call[p])
  BY <1>1 DEF Talks
<1> QED BY <1>1, <1>2, OthersTalk

\* _db_find_and_lock and the end of a call.
LEMMA FindTalks ==
  ASSUME IndInv, TalkInv, NEW p \in Proc, Find(p)
  PROVE  TalkInv'
<1> DEFINE l == pc[p]
           h == db[p]
           c == call[p]
           g == db'[p]
<1>1. Talks(l, h, c) /\ CallOK(p)
  BY Facts DEF TalkInv
<1>2. CASE LockChain(p) \/ ReadChain(p)
  BY <1>2, FindStarts, SilentTalk DEF ScanPC, DelPC, StorePC
<1>3. CASE WalkNext(p)
  BY <1>3, WalkNextDoes, SilentTalk DEF ScanPC, DelPC, StorePC
<1>4. CASE WalkFound(p)
  <2>1. PICK to \in {"read_dat", "d_lock_free", "o_write_dat", "unlock"} :
          /\ Moved(p, "walk", to) /\ g.found = TRUE
          /\ to = "read_dat" => c.op = "fetch" /\ g.ret = h.ret
          /\ to \in {"d_lock_free", "o_write_dat"} =>
               g.ret = h.ret /\ (c.op = "store" => c.flag # "insert")
          /\ to = "unlock" => g.ret = Reply("exists", NoKey, NoData)
    BY <1>4, WalkFoundDoes
  <2>2. Reply("exists", NoKey, NoData).rc # "none"
    BY DEF Reply
  <2>3. OnlyBy(p) /\ pc'[p] = to /\ call'[p] = c /\ l = "walk"
    BY <2>1 DEF Moved
  <2>4. Talks(to, g, c)
    BY <1>1, <2>1, <2>2, <2>3 DEF Talks, ScanPC, DelPC, StorePC
  <2> QED BY <2>3, <2>4, OthersTalk
<1>5. CASE WalkEnd(p)
  <2>1. PICK to \in {"s_read_chain", "unlock"} :
          /\ Moved(p, "walk", to) /\ g.found = h.found
          /\ to = "s_read_chain" => g = h /\ c.op = "store" /\ c.flag # "replace"
          /\ to = "unlock" => g.ret = Reply("error", NoKey, NoData)
    BY <1>5, FindEnds
  <2>2. Reply("error", NoKey, NoData).rc # "none"
    BY DEF Reply
  <2>3. OnlyBy(p) /\ pc'[p] = to /\ call'[p] = c /\ l = "walk"
    BY <2>1 DEF Moved
  <2>4. Talks(to, g, c)
    BY <1>1, <2>1, <2>2, <2>3 DEF Talks, ScanPC, DelPC, StorePC
  <2> QED BY <2>3, <2>4, OthersTalk
<1>6. CASE FetchDat(p)
  <2>1. /\ Moved(p, "read_dat", "unlock")
        /\ g.ret = Reply("ok", c.key, dat[h.datoff].val)
    BY <1>6, FindEnds
  <2>2. g.ret.rc # "none"
    BY <2>1 DEF Reply
  <2>3. OnlyBy(p) /\ pc'[p] = "unlock" /\ call'[p] = c
    BY <2>1 DEF Moved
  <2>4. Talks("unlock", g, c)
    BY <1>1, <2>2 DEF Talks, ScanPC, DelPC, StorePC
  <2> QED BY <2>3, <2>4, OthersTalk
<1>7. CASE Unlock(p)
  <2>1. Ends(p, "unlock")
    BY <1>7, FindEnds
  <2>2. /\ OnlyBy(p) /\ pc'[p] = "idle" /\ ~g.found /\ g.ret = NoReply
    BY <2>1 DEF Ends
  <2>3. call'[p] = NoCall
    BY <2>1 DEF Ends, IndInv, ControlInv, ControlType
  <2>4. Talks("idle", g, NoCall)
    BY <2>2 DEF Talks, ScanPC, DelPC, StorePC, NoCall, Call
  <2> QED BY <2>2, <2>3, <2>4, OthersTalk
<1> QED BY <1>2, <1>3, <1>4, <1>5, <1>6, <1>7 DEF Find

\* A step after which p has its answer and unlocks.
LEMMA AnswersTalk ==
  ASSUME TalkInv, NEW p \in Proc, NEW from, NEW to \in {"unlock", "n_unlock"},
         Moved(p, from, to), db'[p].ret.rc # "none",
         to = "n_unlock" => from \in ScanPC /\ ~db'[p].found
  PROVE  TalkInv'
<1>1. /\ Talks(from, db[p], call[p]) /\ pc'[p] = to /\ call'[p] = call[p] /\ OnlyBy(p)
  BY DEF TalkInv, Moved
<1>2. Talks(to, db'[p], call[p])
  BY <1>1 DEF Talks, ScanPC, DelPC, StorePC
<1> QED BY <1>1, <1>2, OthersTalk

\* _db_dodelete.
LEMMA DoDeleteTalks ==
  ASSUME IndInv, TalkInv, NEW p \in Proc, DoDelete(p)
  PROVE  TalkInv'
<1>1. Talks(pc[p], db[p], call[p]) /\ CallOK(p)
  BY Facts DEF TalkInv
<1>2. CASE DelLockFree(p) \/ DelReadFree(p)
  BY <1>2, FreeDoes, SilentTalk DEF ScanPC, DelPC, StorePC, Keeps
<1>3. CASE DelWriteDat(p) \/ DelWriteIdx(p) \/ DelWriteFree(p)
  BY <1>3, DeleteDoes, SilentTalk DEF ScanPC, DelPC, StorePC, Keeps
<1>4. CASE DelWritePtr(p)
  <2>1. /\ Moved(p, "d_write_ptr", "d_unlock_free") /\ db'[p].found = db[p].found
        /\ db'[p].ret = IF call[p].op = "delete" THEN Reply("ok", NoKey, NoData)
                        ELSE db[p].ret
    BY <1>4, DeleteDoes
  <2>2. OnlyBy(p) /\ pc'[p] = "d_unlock_free" /\ call'[p] = call[p] /\ pc[p] = "d_write_ptr"
    BY <2>1 DEF Moved
  <2>3. Talks("d_unlock_free", db'[p], call[p])
    BY <1>1, <2>1, <2>2 DEF Talks, ScanPC, DelPC, StorePC
  <2> QED BY <2>2, <2>3, OthersTalk
<1>5. CASE DelUnlockFree(p)
  <2>1. /\ Moved(p, "d_unlock_free", IF call[p].op = "delete" THEN "unlock" ELSE "s_read_chain")
        /\ db'[p] = db[p]
    BY <1>5, FreeDoes
  <2>2. CASE call[p].op = "delete"
    <3>1. Moved(p, "d_unlock_free", "unlock") /\ db'[p].ret = Reply("ok", NoKey, NoData)
      BY <1>1, <2>1, <2>2 DEF Moved, Talks
    <3>2. db'[p].ret.rc # "none"
      BY <3>1 DEF Reply
    <3> QED BY <3>1, <3>2, AnswersTalk
  <2>3. CASE call[p].op # "delete"
    <3>1. /\ OnlyBy(p) /\ pc[p] = "d_unlock_free" /\ pc'[p] = "s_read_chain"
          /\ call'[p] = call[p]
      BY <2>1, <2>3 DEF Moved
    <3>2. Talks("s_read_chain", db'[p], call[p])
      BY <1>1, <2>1, <2>3, <3>1 DEF Talks, ScanPC, DelPC, StorePC
    <3> QED BY <3>1, <3>2, OthersTalk
  <2> QED BY <2>2, <2>3
<1> QED BY <1>2, <1>3, <1>4, <1>5 DEF DoDelete

\* _db_findfree.
LEMMA FindFreeTalks ==
  ASSUME IndInv, TalkInv, NEW p \in Proc, FindFree(p)
  PROVE  TalkInv'
<1>1. CASE FreeLock(p) \/ FreeRead(p)
  BY <1>1, FreeDoes, SilentTalk DEF ScanPC, DelPC, StorePC, Keeps
<1>2. CASE FreeWalk(p)
  <2>1. PICK to \in {"f_walk", "f_unlink", "f_unlock"} :
          Moved(p, "f_walk", to) /\ db'[p].found = db[p].found /\ db'[p].ret = db[p].ret
    BY <1>2, FreeDoes
  <2> QED BY <2>1, SilentTalk DEF ScanPC, DelPC, StorePC
<1>3. CASE FreeUnlink(p)
  BY <1>3, StoreDoes, SilentTalk DEF ScanPC, DelPC, StorePC, Keeps
<1>4. CASE FreeUnlock(p)
  <2>1. PICK to \in {"a_lock_dat", "r_write_dat"} : Moved(p, "f_unlock", to) /\ db'[p] = db[p]
    BY <1>4, FreeDoes
  <2> QED BY <2>1, SilentTalk DEF ScanPC, DelPC, StorePC
<1> QED BY <1>1, <1>2, <1>3, <1>4 DEF FindFree

\* A process that dies says nothing more.
LEMMA DeathTalks ==
  ASSUME TalkInv, NEW p, Die(p)
  PROVE  TalkInv'
BY DEF TalkInv, Die

\* db_store.
LEMMA StoreNewTalks ==
  ASSUME IndInv, TalkInv, NEW p \in Proc, StoreNew(p)
  PROVE  TalkInv'
<1>1. Talks(pc[p], db[p], call[p]) /\ CallOK(p)
  BY Facts DEF TalkInv
<1>2. CASE StoreReadChain(p)
  <2>1. PICK to \in {"a_lock_dat", "f_lock"} :
          Moved(p, "s_read_chain", to) /\ Keeps(db'[p], db[p])
    BY <1>2, StoreReads
  <2> QED BY <2>1, SilentTalk DEF ScanPC, DelPC, StorePC, Keeps
<1>3. CASE LockDat(p) \/ SeekDat(p) \/ UnlockDat(p) \/ LockIdx(p)
  BY <1>3, StoreReads, SilentTalk DEF ScanPC, DelPC, StorePC
<1>4. CASE SeekIdx(p) \/ UnlockIdx(p)
  BY <1>4, StoreReads, SilentTalk DEF ScanPC, DelPC, StorePC
<1>5. CASE ReuseWriteDat(p) \/ AppendDat(p)
  BY <1>5, StoreDoes, SilentTalk DEF ScanPC, DelPC, StorePC
<1>6. CASE ReuseWriteIdx(p) \/ AppendIdx(p)
  <2>1. \/ Moved(p, "r_write_idx", "s_write_chain") /\ Keeps(db'[p], db[p])
        \/ Moved(p, "a_write_idx", "a_unlock_idx") /\ Keeps(db'[p], db[p])
    BY <1>6, StoreIdxDoes
  <2> QED BY <2>1, SilentTalk DEF ScanPC, DelPC, StorePC, Keeps
<1>7. CASE OverwriteDat(p) \/ StoreWriteChain(p)
  <2>1. PICK from : Moved(p, from, "unlock") /\ db'[p].ret = Reply("ok", NoKey, NoData)
    BY <1>7, StoreDoes
  <2>2. db'[p].ret.rc # "none"
    BY <2>1 DEF Reply
  <2> QED BY <2>1, <2>2, AnswersTalk
<1>8. CASE StorePtrOverflow(p)
  BY <1>8, DeathTalks DEF StorePtrOverflow
<1> QED BY <1>2, <1>3, <1>4, <1>5, <1>6, <1>7, <1>8 DEF StoreNew

\* db_nextrec.
LEMMA NextrecTalks ==
  ASSUME IndInv, TalkInv, NEW p \in Proc, Nextrec(p)
  PROVE  TalkInv'
<1>1. Talks(pc[p], db[p], call[p])
  BY DEF TalkInv
<1>2. CASE NextLock(p)
  BY <1>2, NextDoes, SilentTalk DEF ScanPC, DelPC, StorePC
<1>3. CASE NextRead(p)
  <2>1. PICK to \in ScanPC :
          /\ Moved(p, "n_read", to) /\ db'[p].found = db[p].found
          /\ to = "n_unlock" => db'[p].ret = Reply("error", NoKey, NoData)
          /\ to # "n_unlock" => db'[p].ret = db[p].ret
    BY <1>3, NextDoes DEF ScanPC
  <2>2. CASE to = "n_unlock"
    <3>1. db'[p].ret.rc # "none" /\ ~db'[p].found
      BY <1>1, <2>1, <2>2 DEF Reply, Talks, Moved, ScanPC
    <3> QED BY <2>1, <2>2, <3>1, AnswersTalk DEF ScanPC
  <2>3. CASE to # "n_unlock"
    BY <2>1, <2>3, SilentTalk DEF ScanPC, DelPC, StorePC
  <2> QED BY <2>2, <2>3
<1>4. CASE NextDat(p)
  <2>1. /\ Moved(p, "n_read_dat", "n_unlock") /\ db'[p].found = db[p].found
        /\ db'[p].ret = Reply("ok", db[p].key, dat[db[p].datoff].val)
    BY <1>4, NextDoes
  <2>2. db'[p].ret.rc # "none" /\ ~db'[p].found
    BY <1>1, <2>1 DEF Reply, Talks, Moved, ScanPC
  <2> QED BY <2>1, <2>2, AnswersTalk DEF ScanPC
<1>5. CASE NextUnlock(p)
  <2>1. Ends(p, "n_unlock")
    BY <1>5, NextDoes
  <2>2. /\ OnlyBy(p) /\ pc'[p] = "idle" /\ ~db'[p].found /\ db'[p].ret = NoReply
    BY <2>1 DEF Ends
  <2>3. call'[p] = NoCall
    BY <2>1 DEF Ends, IndInv, ControlInv, ControlType
  <2>4. Talks("idle", db'[p], NoCall)
    BY <2>2 DEF Talks, ScanPC, DelPC, StorePC, NoCall, Call
  <2> QED BY <2>2, <2>3, <2>4, OthersTalk
<1>6. CASE NextGarbage(p)
  BY <1>6, DeathTalks DEF NextGarbage
<1> QED BY <1>2, <1>3, <1>4, <1>5, <1>6 DEF Nextrec

\* A new call.
LEMMA InvokeTalks ==
  ASSUME IndInv, TalkInv, NEW p \in Proc, Invoke(p)
  PROVE  TalkInv'
<1>1. Talks(pc[p], db[p], call[p])
  BY DEF TalkInv
<1>2. ASSUME NEW c, NEW to \in {"lock_chain", "n_lock"}, Starts(p, c, to),
             c.op = "delete" => c.data = NoData, to = "n_lock" => c.op = "nextrec"
      PROVE  TalkInv'
  <2>1. OnlyBy(p) /\ pc[p] = "idle" /\ pc'[p] = to /\ db'[p] = db[p] /\ call'[p] = c
    BY <1>2 DEF Starts, IndInv, ControlInv, ControlType
  <2>2. Talks(to, db[p], c)
    BY <1>1, <1>2, <2>1 DEF Talks, ScanPC, DelPC, StorePC
  <2> QED BY <2>1, <2>2, OthersTalk
<1>3. \A o, k, d, f : LET c == Call(o, k, d, f) IN c.op = o /\ c.data = d
  BY DEF Call
<1>4. ASSUME Moved(p, "idle", "idle"), db'[p].found = db[p].found, db'[p].ret = db[p].ret
      PROVE  TalkInv'
  <2>1. OnlyBy(p) /\ pc[p] = "idle" /\ pc'[p] = "idle" /\ call'[p] = call[p]
    BY <1>4 DEF Moved
  <2>2. Talks("idle", db'[p], call[p])
    BY <1>1, <1>4, <2>1 DEF Talks, DelPC, StorePC, ScanPC
  <2> QED BY <2>1, <2>2, OthersTalk
<1> QED BY <1>2, <1>3, <1>4, InvokeDoes, DeathTalks

(***************************************************************************)
(* A process answers only when its call is done, and knows by then whether *)
(* its key was found (db_fetch, db_delete, db_store, db_nextrec).          *)
(***************************************************************************)
THEOREM TalkTheorem == Spec => []TalkInv
<1>1. Init => TalkInv
  <2> SUFFICES ASSUME Init, NEW p \in Proc PROVE Talks(pc[p], db[p], call[p])
    BY DEF TalkInv
  <2>1. pc[p] = "idle" /\ call[p] = NoCall /\ db[p] = Handle(FirstRec)
    BY DEF Init
  <2>2. ~db[p].found /\ db[p].ret = NoReply /\ NoCall.op = "none"
    BY <2>1 DEF Handle, NoCall, Call
  <2> QED BY <2>1, <2>2 DEF Talks, ScanPC, DelPC, StorePC
<1>2. IndInv /\ TalkInv /\ [Next]_vars => TalkInv'
  <2> SUFFICES ASSUME IndInv, TalkInv, [Next]_vars PROVE TalkInv'
    OBVIOUS
  <2>1. ASSUME NEW p \in Proc, Invoke(p) \/ Step(p) PROVE TalkInv'
    BY <2>1, InvokeTalks, FindTalks, DoDeleteTalks, FindFreeTalks, StoreNewTalks,
       NextrecTalks DEF Step
  <2>2. ASSUME NEW p \in Proc, Crash(p) PROVE TalkInv'
    BY <2>2, DeathTalks DEF Crash
  <2>3. CASE UNCHANGED vars
    BY <2>3 DEF vars, TalkInv
  <2> QED BY <2>1, <2>2, <2>3 DEF Next, Finished
<1>3. ControlInv /\ FilesInv => IndInv
  BY DEF IndInv
<1> QED BY <1>1, <1>2, <1>3, ControlTheorem, FilesTheorem, PTL DEF Spec
-----------------------------------------------------------------------------
(***************************************************************************)
(* What the two files say together.  Linked are the records on a list.     *)
(***************************************************************************)
Recs == FirstRec..(ieof - 1)
Linked == Recs \ LS

\* Labels at which p has written a data record and not yet its index record,
\* has found its key, and has found or made it absent.
FreshPC == {"a_unlock_dat", "a_lock_idx", "a_seek_idx", "a_write_idx"}
FoundPC == {"read_dat", "o_write_dat", "d_lock_free", "d_write_dat", "d_read_free",
            "d_write_idx"}
AbsentPC == (StorePC \ {"o_write_dat"}) \cup {"d_write_free", "d_write_ptr", "d_unlock_free"}
BlankedPC == {"d_read_free", "d_write_idx"}

\* A key is stored once, and every record has a data record of its own.
OneEach == \A i, j \in Linked : rec[i].key = rec[j].key /\ rec[i].key # Blank => i = j
OwnSlots == \A i, j \in Recs : rec[i].datoff = rec[j].datoff => i = j
NewSlots ==
  \A p \in Proc : pc[p] \in FreshPC =>
    /\ \A i \in Recs : rec[i].datoff # db[p].datoff
    /\ \A q \in Proc : pc[q] \in FreshPC /\ db[q].datoff = db[p].datoff => p = q

\* A stored key has data, unless a process has just blanked it.
Filled ==
  \A i \in Linked : rec[i].key # Blank =>
    \/ dat[rec[i].datoff].val \in Data
    \/ \E p \in alive : pc[p] \in BlankedPC /\ db[p].idxoff = i

\* S are the cells of its chain a search has passed: their pointers lead to
\* each other, the last one to the record it looks at next.
Passed(h, c, S) ==
  /\ Hash[c.key] \in S /\ h.ptroff \in S
  /\ \A o \in S : /\ o \in Cells(LS, ieof) /\ LO[o] = Hash[c.key]
                  /\ o >= FirstRec => rec[o].key # c.key
                  /\ ptr[o] \in IF o = h.ptroff THEN {h.offset} ELSE S

\* What a live process knows of its key, at label l with handle h in call c.
Chained(l, h, c) ==
  /\ l = "walk" => \E S : Passed(h, c, S)
  /\ l \in FoundPC => /\ h.idxoff \in Linked /\ rec[h.idxoff].key = c.key
                      /\ rec[h.idxoff].datoff = h.datoff
  /\ l \in AbsentPC => \A i \in Linked : rec[i].key # c.key
  /\ l \in FreshPC => dat[h.datoff].val = c.data
  /\ l = "n_read_dat" => \E i \in Recs : /\ rec[i].key = h.key /\ h.key # Blank
                                         /\ rec[i].datoff = h.datoff

\* What is in the record a process reuses or appends.
Held(l, h, c) ==
  /\ Reusing(l, h) => rec[h.idxoff].key = Blank
  /\ l = "r_write_idx" => dat[h.datoff].val = c.data
  /\ l \in {"a_unlock_idx", "s_write_chain"} =>
       rec[h.idxoff].key = c.key /\ dat[rec[h.idxoff].datoff].val = c.data

MapInv ==
  /\ OneEach /\ OwnSlots /\ NewSlots /\ Filled
  /\ \A p \in alive : Chained(pc[p], db[p], call[p])
  /\ \A p \in Proc : Held(pc[p], db[p], call[p])

\* Where a process that is not killed may die.
AtRest == \A p \in Proc \ alive : pc[p] \in {"idle", "s_write_chain", "n_read"}

\* All the invariants of a database whose processes are not killed.
GoodInv == IndInv /\ SizeInv /\ TalkInv /\ ListsKnown /\ AtRest

\* What GoodInv says of the files and of one process.
LEMMA GoodFacts ==
  ASSUME GoodInv, NEW p \in Proc
  PROVE  /\ IndInv /\ SizeInv /\ TalkInv /\ ListsKnown /\ LooseOnce /\ Views
         /\ MutualExclusion /\ Shape(NX, LO, LS, ieof) /\ alive \subseteq Proc
         /\ FirstRec \in Nat /\ ieof \in Nat /\ ieof >= FirstRec /\ deof \in Nat
         /\ rec \in [Recs -> RecType] /\ dat \in [0..(deof - 1) -> DatType]
         /\ \A i \in Recs : /\ rec[i] \in RecType /\ rec[i].datoff \in 0..(deof - 1)
                            /\ i \in 0..(ieof - 1) /\ i >= FirstRec
         /\ Talks(pc[p], db[p], call[p]) /\ CallOK(p) /\ db[p] \in HandleType
         /\ Positioned(pc[p], db[p]) /\ pc[p] \in Label
<1>1. /\ IndInv /\ SizeInv /\ TalkInv /\ ListsKnown /\ LooseOnce /\ Views
      /\ MutualExclusion /\ Shape(NX, LO, LS, ieof)
  BY ViewsHold, ControlExcludes DEF GoodInv, IndInv, ListsKnown
<1>2. /\ FileType /\ FilesFit /\ alive \subseteq Proc /\ db[p] \in HandleType /\ CallOK(p)
      /\ Positioned(pc[p], db[p]) /\ pc[p] \in Label
  BY <1>1, Facts
<1>3. /\ FirstRec \in Nat /\ ieof \in Nat /\ ieof >= FirstRec /\ deof \in Nat
      /\ rec \in [Recs -> RecType] /\ dat \in [0..(deof - 1) -> DatType]
  BY <1>2, Sizes DEF FileType, Recs
<1>4. ASSUME NEW i \in Recs
      PROVE  /\ rec[i] \in RecType /\ rec[i].datoff \in 0..(deof - 1)
             /\ i \in 0..(ieof - 1) /\ i >= FirstRec
  <2>1. rec[i] \in RecType /\ rec[i].datoff < deof
    BY <1>2, <1>3 DEF FilesFit, Recs
  <2>2. rec[i].datoff \in Nat
    BY <2>1 DEF RecType
  <2> QED BY <1>3, <2>1, <2>2 DEF Recs
<1>5. Talks(pc[p], db[p], call[p])
  BY <1>1 DEF TalkInv
<1> QED BY <1>1, <1>2, <1>3, <1>4, <1>5

\* The records of the lists: those of a chain have its keys.
LEMMA LinkedFacts ==
  ASSUME GoodInv, NEW i \in Linked
  PROVE  /\ i \in Recs /\ i \notin LS /\ i \in Cells(LS, ieof) /\ i \in 0..(ieof - 1)
         /\ i >= FirstRec
         /\ LO[i] = IF rec[i].key = Blank THEN 0 ELSE Hash[rec[i].key]
<1>1. Views /\ FirstRec \in Nat /\ ieof \in Nat
  BY ViewsHold, Sizes DEF GoodInv, Views
<1>2. i \in Recs /\ i \notin LS /\ i \in 0..(ieof - 1) /\ i >= FirstRec
  BY <1>1 DEF Linked, Recs
<1>3. i \in Cells(LS, ieof)
  BY <1>2 DEF Cells
<1>4. LO[i] = ListOf(i)
  BY <1>1, <1>2 DEF Views
<1> QED BY <1>1, <1>2, <1>3, <1>4 DEF ListOf, FREE_OFF

\* A process in a chain keeps every other one from writing there.
LEMMA NotMine ==
  ASSUME GoodInv, NEW p \in alive, NEW q \in alive, p # q, pc[q] \in ChainPC,
         NEW o, o \in Cells(LS, ieof), LO[o] = Chain(q)
  PROVE  ~Owns(p, o)
<1>1. p \in Proc /\ q \in Proc /\ Views /\ MutualExclusion
  BY GoodFacts DEF GoodInv, IndInv, ControlInv, ControlType
<1>3. ASSUME LooseBy(p), o = db[p].idxoff PROVE FALSE
  <2>1. o \in LS /\ o >= FirstRec /\ o \in 0..(ieof - 1)
    BY <1>1, <1>3, LooseOffset
  <2> QED BY <2>1, Sizes DEF Cells
<1>4. Chain(q) # 0
  BY <1>1, Sizes DEF Views
<1> QED BY <1>1, <1>3, <1>4 DEF Owns, MutualExclusion

\* Nor does any other process own a loose record.
LEMMA NotMyLoose ==
  ASSUME GoodInv, NEW p \in alive, NEW q \in Proc, p # q, LooseBy(q)
  PROVE  ~Owns(p, db[q].idxoff)
<1>1. p \in Proc /\ Views /\ LooseOnce
  BY GoodFacts DEF GoodInv, IndInv, ControlInv, ControlType
<1>2. /\ db[q].idxoff \in LS /\ db[q].idxoff >= FirstRec /\ db[q].idxoff \in 0..(ieof - 1)
  BY <1>1, LooseOffset
<1>3. db[q].idxoff \notin Cells(LS, ieof)
  BY <1>2, Sizes DEF Cells
<1> QED BY <1>1, <1>3 DEF Owns, LooseOnce

(***************************************************************************)
(* A step of p that writes only to the records of X, which it owns.        *)
(***************************************************************************)
Touches(p, X) ==
  /\ OnlyBy(p) /\ ieof' >= ieof
  /\ \A i \in Recs : i \in X => Owns(p, i) /\ (i \in LS \/ rec[i].key \in {Blank, call[p].key})
  /\ \A i \in Recs : i \notin X =>
       /\ rec'[i] = rec[i] /\ (i \in LS' <=> i \in LS)
       /\ dat'[rec[i].datoff] = dat[rec[i].datoff]
  /\ \A i \in Recs : rec'[i].datoff = rec[i].datoff
  /\ \A i \in Recs' :
       \/ i \in Recs
       \/ /\ i \in LS' /\ pc[p] = "a_write_idx" /\ i = ieof
          /\ rec'[i].datoff = db[p].datoff
  /\ \A o \in 0..(ieof - 1) : ~Owns(p, o) => ptr'[o] = ptr[o]
  /\ \A q \in Proc \ {p} : pc[q] \in FreshPC => dat'[db[q].datoff] = dat[db[q].datoff]
  /\ \A i \in Linked' : i \in X /\ rec'[i].key # Blank =>
       \/ i \in Linked /\ rec'[i].key = rec[i].key
       \/ /\ pc[p] = "s_write_chain" /\ i = db[p].idxoff /\ i \in Recs
          /\ rec'[i] = rec[i] /\ dat'[rec[i].datoff] = dat[rec[i].datoff]
  /\ pc[p] \notin FreePC => \A i \in Recs : rec[i].key # Blank => rec'[i].key = rec[i].key

\* Records stay records.
LEMMA RecsStay ==
  ASSUME ieof \in Nat, ieof' \in Nat, ieof' >= ieof
  PROVE  \A i \in Recs : i \in Recs'
<1>1. FirstRec \in Nat /\ Recs = FirstRec..(ieof - 1) /\ Recs' = FirstRec..(ieof' - 1)
  BY Sizes DEF Recs
<1>2. PICK a, e, f : a = FirstRec /\ e = ieof /\ f = ieof'
  OBVIOUS
<1>3. a \in Nat /\ e \in Nat /\ f \in Nat /\ f >= e
  BY <1>1, <1>2
<1>4. \A i \in a..(e - 1) : i \in a..(f - 1)
  BY <1>3
<1> QED BY <1>1, <1>2, <1>4

\* What p does not own stays as it is.
LEMMA KeepsCell ==
  ASSUME GoodInv, GoodInv', NEW p \in Proc, NEW X, Touches(p, X),
         NEW o, o \in Cells(LS, ieof), ~Owns(p, o)
  PROVE  /\ o \in Cells(LS', ieof') /\ LO'[o] = LO[o] /\ ptr'[o] = ptr[o]
         /\ o >= FirstRec => o \in Recs /\ o \notin X /\ rec'[o] = rec[o]
<1>1. /\ Views /\ Views' /\ FirstRec \in Nat /\ ieof \in Nat /\ ieof' \in Nat /\ ieof' >= ieof
  BY ViewsHold, ViewsHoldAfter, Sizes DEF GoodInv, Views, Touches
<1>2. o \in 0..(ieof - 1) /\ o \in 0..(ieof' - 1) /\ ptr'[o] = ptr[o]
  BY <1>1 DEF Cells, Touches
<1>3. o >= FirstRec =>
        o \in Recs /\ o \notin X /\ rec'[o] = rec[o] /\ (o \in LS' <=> o \in LS)
  BY <1>1, <1>2 DEF Recs, Touches
<1>4. o \in Cells(LS', ieof')
  <2>1. o < FirstRec \/ o \notin LS
    BY DEF Cells
  <2>2. o < FirstRec \/ o >= FirstRec
    BY <1>1, <1>2
  <2>3. o < FirstRec \/ o \notin LS'
    BY <1>3, <2>1, <2>2
  <2> QED BY ONLY <1>2, <2>3 DEF Cells
<1>5. ListOf(o)' = ListOf(o)
  BY <1>1, <1>2, <1>3 DEF ListOf
<1>6. LO'[o] = LO[o]
  <2>1. LO[o] = ListOf(o)
    BY <1>1, <1>2 DEF Views
  <2>2. LO'[o] = ListOf(o)'
    BY <1>1, <1>2 DEF Views
  <2> QED BY ONLY <1>5, <2>1, <2>2
<1> QED BY <1>2, <1>3, <1>4, <1>6

\* Where a stored key of the new state comes from.
LEMMA LinkedBefore ==
  ASSUME NEW p, NEW X, Touches(p, X), NEW i \in Linked', rec'[i].key # Blank
  PROVE  \/ i \in Linked /\ rec'[i].key = rec[i].key
         \/ /\ pc[p] = "s_write_chain" /\ i = db[p].idxoff /\ i \in Recs
            /\ rec'[i] = rec[i] /\ dat'[rec[i].datoff] = dat[rec[i].datoff]
<1>1. i \in Recs' /\ i \notin LS'
  BY DEF Linked
<1>2. i \in Recs
  BY <1>1 DEF Touches
<1>3. CASE i \in X
  BY <1>3 DEF Touches
<1>4. CASE i \notin X
  <2>1. rec'[i] = rec[i] /\ i \notin LS
    BY <1>1, <1>2, <1>4 DEF Touches
  <2> QED BY <1>2, <2>1 DEF Linked
<1> QED BY <1>3, <1>4

\* The other live processes keep what they know of their keys.
LEMMA OthersChained ==
  ASSUME GoodInv, GoodInv', MapInv, NEW p \in Proc, NEW X, Touches(p, X),
         NEW q \in alive, q # p
  PROVE  Chained(pc[q], db[q], call[q])'
<1> DEFINE h == db[q]
           c == call[q]
<1>1. /\ p \in alive /\ q \in Proc /\ pc'[q] = pc[q] /\ db'[q] = h /\ call'[q] = c
      /\ MutualExclusion /\ Views /\ Views' /\ Positioned(pc[q], h) /\ CallOK(q)
      /\ FirstRec \in Nat /\ CallOK(p) /\ ieof' >= ieof
      /\ ieof \in Nat /\ ieof' \in Nat
  BY GoodFacts, ViewsHoldAfter DEF Touches, OnlyBy, GoodInv, IndInv, ControlInv, ControlType,
     Views
<1>2. Chained(pc[q], h, c) /\ Chain(q) = Hash[c.key]
  BY DEF MapInv, Chain
<1>3. ASSUME NEW S, pc[q] = "walk", Passed(h, c, S) PROVE Passed(h, c, S)'
  <2>1. ASSUME NEW o \in S
        PROVE  /\ o \in Cells(LS', ieof') /\ LO'[o] = LO[o] /\ ptr'[o] = ptr[o]
               /\ o >= FirstRec => rec'[o] = rec[o]
    <3>1. o \in Cells(LS, ieof) /\ LO[o] = Chain(q)
      BY <1>2, <1>3, <2>1 DEF Passed
    <3>2. ~Owns(p, o)
      BY <1>1, <1>3, <3>1, NotMine DEF ChainPC
    <3> QED BY <3>1, <3>2, KeepsCell
  <2> QED BY <1>1, <1>3, <2>1 DEF Passed
<1>4. ASSUME pc[q] \in FoundPC
      PROVE  /\ h.idxoff \in Linked' /\ rec'[h.idxoff].key = c.key
             /\ rec'[h.idxoff].datoff = h.datoff
  <2>1. h.idxoff \in Linked /\ rec[h.idxoff].key = c.key /\ rec[h.idxoff].datoff = h.datoff
    BY <1>2, <1>4 DEF Chained
  <2>2. c.key \in Key /\ c.key # Blank /\ pc[q] \in ChainPC
    BY <1>1, <1>4, ArgAssumption DEF FoundPC, CallOK, KeyedPC, ChainPC
  <2>3. /\ h.idxoff \in Cells(LS, ieof) /\ LO[h.idxoff] = Chain(q) /\ h.idxoff \in Recs
        /\ h.idxoff \notin LS /\ h.idxoff >= FirstRec
    BY <1>2, <2>1, <2>2, LinkedFacts
  <2>4. ~Owns(p, h.idxoff)
    BY <1>1, <2>2, <2>3, NotMine
  <2>5. h.idxoff \notin X /\ rec'[h.idxoff] = rec[h.idxoff]
    BY <2>3, <2>4, KeepsCell
  <2>6. h.idxoff \notin LS' /\ h.idxoff \in Recs'
    BY <1>1, <2>3, <2>5 DEF Touches, Recs
  <2> QED BY <2>1, <2>5, <2>6 DEF Linked
<1>5. ASSUME pc[q] \in AbsentPC, NEW i \in Linked' PROVE rec'[i].key # c.key
  <2>1. c.key \in Key /\ c.key # Blank /\ pc[q] \in ChainPC /\ c.op # "fetch"
    BY <1>1, <1>5, ArgAssumption DEF AbsentPC, CallOK, KeyedPC, ChainPC, StorePC, DelPC
  <2>2. SUFFICES ASSUME rec'[i].key = c.key PROVE FALSE
    OBVIOUS
  <2>3. \A j \in Linked : rec[j].key # c.key
    BY <1>2, <1>5 DEF Chained
  <2>4. PICK j : /\ pc[p] = "s_write_chain" /\ j = db[p].idxoff /\ j \in Recs
                 /\ rec[j].key = c.key
    BY <2>1, <2>2, <2>3, LinkedBefore
  <2>5. rec[j].key = call[p].key
    BY <1>1, <2>4 DEF MapInv, Held
  <2>6. Chain(p) = Chain(q) /\ pc[p] \in ChainPC
    BY <2>4, <2>5 DEF Chain, ChainPC
  <2> QED BY <1>1, <2>1, <2>6 DEF MutualExclusion
<1>6. ASSUME pc[q] \in FreshPC PROVE dat'[h.datoff].val = c.data
  BY <1>1, <1>2, <1>6 DEF Chained, Touches
<1>7. ASSUME pc[q] = "n_read_dat"
      PROVE  \E i \in Recs' : rec'[i].key = h.key /\ h.key # Blank /\ rec'[i].datoff = h.datoff
  <2>1. PICK i \in Recs : rec[i].key = h.key /\ h.key # Blank /\ rec[i].datoff = h.datoff
    BY <1>2, <1>7 DEF Chained
  <2>2. pc[p] \notin FreePC
    BY <1>1, <1>7 DEF MutualExclusion, ScanPC
  <2>3. i \in Recs'
    BY <1>1, <2>1, RecsStay
  <2>4. rec'[i].key = rec[i].key /\ rec'[i].datoff = rec[i].datoff
    BY <2>1, <2>2 DEF Touches
  <2> QED BY <2>1, <2>3, <2>4
<1> QED BY <1>1, <1>2, <1>3, <1>4, <1>5, <1>6, <1>7 DEF Chained

\* They also keep the records they reuse or append.
LEMMA OthersHeld ==
  ASSUME GoodInv, GoodInv', MapInv, NEW p \in Proc, NEW X, Touches(p, X),
         NEW q \in Proc, q # p
  PROVE  Held(pc[q], db[q], call[q])'
<1> DEFINE h == db[q]
           c == call[q]
<1>1. /\ p \in alive /\ pc'[q] = pc[q] /\ db'[q] = h /\ call'[q] = c
      /\ IndInv /\ LooseOnce /\ Views /\ Shape(NX, LO, LS, ieof) /\ AtRest
      /\ Positioned(pc[q], h) /\ Sized(pc[q], h, c)
      /\ FirstRec \in Nat /\ ieof \in Nat
  BY GoodFacts DEF Touches, OnlyBy, GoodInv, SizeInv
<1>2. Held(pc[q], h, c)
  BY DEF MapInv
<1>3. ASSUME pc[q] = "f_unlink" PROVE h.idxoff \in Recs /\ ~Owns(p, h.idxoff)
  <2>1. h.idxoff \in FirstRec..(ieof - 1) /\ h.idxoff # 0
    BY <1>1, <1>3, Sizes DEF Positioned, RecordPC
  <2>2. /\ q \in alive
        /\ h.save \in Cells(LS, ieof) /\ LO[h.save] = 0 /\ NX[h.save] = h.idxoff
    BY <1>1, <1>3 DEF AtRest, GoodInv, ListsKnown, Known, Knows, On
  <2>3. h.idxoff \notin LS /\ LO[h.idxoff] = 0
    BY <1>1, <2>1, <2>2 DEF Shape, Apart
  <2>4. h.idxoff \in Cells(LS, ieof)
    BY <1>1, <2>1, <2>3 DEF Cells
  <2>5. Owns(q, h.idxoff)
    BY <1>3, <2>3, <2>4 DEF Owns, FreePC
  <2> QED BY <1>1, <2>1, <2>2, <2>5, OwnedOnce DEF Recs
<1>4. ASSUME LooseBy(q) PROVE h.idxoff \in Recs /\ ~Owns(p, h.idxoff)
  <2>1. h.idxoff \in LS
    BY <1>1, <1>4, LooseOffset
  <2> QED BY <1>1, <1>4, <2>1, NotMyLoose DEF Views, Recs
<1>5. ASSUME Reusing(pc[q], h) \/ pc[q] \in {"a_unlock_idx", "s_write_chain"}
      PROVE  /\ rec'[h.idxoff] = rec[h.idxoff]
             /\ dat'[rec[h.idxoff].datoff] = dat[rec[h.idxoff].datoff]
  <2>1. h.idxoff \in Recs /\ ~Owns(p, h.idxoff)
    BY <1>3, <1>4, <1>5 DEF Reusing, LooseBy, LoosePC
  <2> QED BY <2>1 DEF Touches
<1>6. pc[q] = "r_write_idx" => rec[h.idxoff].datoff = h.datoff
  BY <1>1 DEF Sized, Reusing, Describes
<1> QED BY <1>1, <1>2, <1>5, <1>6 DEF Held, Reusing

\* A step of p that writes only to what p owns, and keeps the invariant.
Carries(p) == MapInv' /\ \E X : Touches(p, X)

\* What a step of p has to show: what p knows of its key, and that its own
\* data record is new and the records it wrote have data.
LEMMA FrameKeepsMap ==
  ASSUME GoodInv, GoodInv', MapInv, NEW p \in Proc, NEW X, Touches(p, X),
         Chained(pc[p], db[p], call[p])', Held(pc[p], db[p], call[p])',
         pc'[p] \in FreshPC =>
           /\ \A i \in Recs' : rec'[i].datoff # db'[p].datoff
           /\ \A q \in Proc \ {p} : pc[q] \in FreshPC => db[q].datoff # db'[p].datoff,
         \A i \in Linked' :
           /\ i \in Linked /\ rec'[i].key # Blank
           /\ i \in X \/ (pc[p] \in BlankedPC /\ db[p].idxoff = i)
           => \/ dat'[rec'[i].datoff].val \in Data
              \/ pc'[p] \in BlankedPC /\ db'[p].idxoff = i
  PROVE  Carries(p)
<1>1. /\ p \in alive /\ alive' = alive /\ CallOK(p) /\ OneEach /\ OwnSlots /\ NewSlots /\ Filled
      /\ \A q \in Proc \ {p} : pc'[q] = pc[q] /\ db'[q] = db[q]
      /\ alive \subseteq Proc
  BY GoodFacts DEF Touches, OnlyBy, MapInv
<1>2. Chained(pc[p], db[p], call[p]) /\ Held(pc[p], db[p], call[p])
  BY <1>1 DEF MapInv
<1>3. ASSUME NEW i \in Recs'
      PROVE  \/ i \in Recs /\ rec'[i].datoff = rec[i].datoff
             \/ pc[p] \in FreshPC /\ i = ieof /\ rec'[i].datoff = db[p].datoff
  BY DEF Touches, FreshPC
<1>4. ASSUME pc[p] = "s_write_chain"
      PROVE  /\ \A i \in Linked : rec[i].key # call[p].key
             /\ rec[db[p].idxoff].key = call[p].key
             /\ dat[rec[db[p].idxoff].datoff].val \in Data
  <2>1. call[p].data \in Data
    BY <1>1, <1>4 DEF CallOK, KeyedPC, ChainPC, StorePC
  <2> QED BY <1>2, <1>4, <2>1 DEF Chained, Held, AbsentPC, StorePC
<1>5. OneEach'
  <2>1. SUFFICES ASSUME NEW i \in Linked', NEW j \in Linked',
                        rec'[i].key = rec'[j].key, rec'[i].key # Blank
                 PROVE  i = j
    BY DEF OneEach
  <2>2. /\ \/ i \in Linked /\ rec'[i].key = rec[i].key
           \/ pc[p] = "s_write_chain" /\ i = db[p].idxoff /\ rec'[i] = rec[i]
        /\ \/ j \in Linked /\ rec'[j].key = rec[j].key
           \/ pc[p] = "s_write_chain" /\ j = db[p].idxoff /\ rec'[j] = rec[j]
    BY <2>1, LinkedBefore
  <2> QED BY <1>1, <1>4, <2>1, <2>2 DEF OneEach
<1>6. OwnSlots'
  <2>1. SUFFICES ASSUME NEW i \in Recs', NEW j \in Recs', rec'[i].datoff = rec'[j].datoff
                 PROVE  i = j
    BY DEF OwnSlots
  <2> QED BY <1>1, <1>3, <2>1 DEF OwnSlots, NewSlots
<1>7. NewSlots'
  <2>1. ASSUME NEW q \in Proc, pc'[q] \in FreshPC, NEW i \in Recs'
        PROVE  rec'[i].datoff # db'[q].datoff
    BY <1>1, <1>3, <2>1 DEF NewSlots
  <2>2. ASSUME NEW q \in Proc, pc'[q] \in FreshPC, NEW r \in Proc, pc'[r] \in FreshPC,
               db'[r].datoff = db'[q].datoff
        PROVE  q = r
    BY <1>1, <2>2 DEF NewSlots
  <2> QED BY <2>1, <2>2 DEF NewSlots
<1>8. Filled'
  <2>1. SUFFICES ASSUME NEW i \in Linked', rec'[i].key # Blank
                 PROVE  \/ dat'[rec'[i].datoff].val \in Data
                        \/ \E q \in alive' : pc'[q] \in BlankedPC /\ db'[q].idxoff = i
    BY DEF Filled
  <2>2. CASE /\ pc[p] = "s_write_chain" /\ i = db[p].idxoff
             /\ rec'[i] = rec[i] /\ dat'[rec[i].datoff] = dat[rec[i].datoff]
    BY <1>4, <2>2
  <2>3. CASE i \in Linked /\ rec'[i].key = rec[i].key
    <3>1. CASE i \in X \/ (pc[p] \in BlankedPC /\ db[p].idxoff = i)
      BY <1>1, <2>1, <2>3, <3>1
    <3>2. CASE ~(i \in X \/ (pc[p] \in BlankedPC /\ db[p].idxoff = i))
      <4>1. rec'[i] = rec[i] /\ dat'[rec[i].datoff] = dat[rec[i].datoff]
        BY <2>3, <3>2 DEF Touches, Linked
      <4>2. \/ dat[rec[i].datoff].val \in Data
            \/ \E q \in alive : pc[q] \in BlankedPC /\ db[q].idxoff = i
        BY <1>1, <2>1, <2>3 DEF Filled
      <4> QED BY <1>1, <3>2, <4>1, <4>2
    <3> QED BY <3>1, <3>2
  <2> QED BY <2>1, <2>2, <2>3, LinkedBefore
<1>9. /\ \A q \in alive' : Chained(pc[q], db[q], call[q])'
      /\ \A q \in Proc : Held(pc[q], db[q], call[q])'
  BY <1>1, OthersChained, OthersHeld
<1>10. MapInv'
  BY <1>5, <1>6, <1>7, <1>8, <1>9 DEF MapInv
<1> QED BY <1>10 DEF Carries

(***************************************************************************)
(* Searching a chain.                                                      *)
(***************************************************************************)
\* The pointers of a chain p has locked are those of the file.
LEMMA Settled ==
  ASSUME GoodInv, NEW p \in alive, pc[p] \in ChainPC,
         pc[p] \notin {"d_write_free", "d_write_ptr"},
         NEW o, o \in Cells(LS, ieof), LO[o] = Chain(p)
  PROVE  NX[o] = ptr[o] /\ o \in 0..(ieof - 1)
<1>1. /\ MutualExclusion /\ Views /\ ListsKnown /\ \A q \in Proc : CallOK(q)
  BY GoodFacts DEF GoodInv, IndInv, ControlInv, ControlType
<1>2. ASSUME NEW q \in Proc, Unlinking(q, o) PROVE FALSE
  <2>1. q \in alive /\ pc[q] \in {"d_write_free", "d_write_ptr"} /\ db[q].ptroff = o
    BY <1>2 DEF Unlinking
  <2>2. LO[o] = Chain(q)
    BY <1>1, <2>1 DEF ListsKnown, Known, Knows
  <2>3. call[q].op # "fetch" /\ pc[q] \in ChainPC /\ q # p
    BY <1>1, <2>1 DEF CallOK, DelPC, ChainPC
  <2> QED BY <1>1, <2>1, <2>2, <2>3 DEF MutualExclusion
<1>3. EffPtr(o) = ptr[o]
  BY <1>2, NoneUnlinks
<1>4. o \in 0..(ieof - 1)
  BY DEF Cells
<1> QED BY <1>1, <1>3, <1>4 DEF Views

\* The record a search looks at is on the chain.
LEMMA LooksAtChain ==
  ASSUME GoodInv, NEW p \in alive, pc[p] = "walk", NEW S, Passed(db[p], call[p], S),
         db[p].offset # 0
  PROVE  /\ db[p].offset \in Linked /\ db[p].offset \in Cells(LS, ieof)
         /\ LO[db[p].offset] = Chain(p)
<1> DEFINE o == db[p].ptroff
<1>1. /\ o \in S /\ o \in Cells(LS, ieof) /\ LO[o] = Chain(p) /\ ptr[o] = db[p].offset
  BY DEF Passed, Chain
<1>2. NX[o] = db[p].offset
  BY <1>1, Settled DEF ChainPC
<1>3. Shape(NX, LO, LS, ieof) /\ FirstRec \in Nat /\ ieof \in Nat
  BY Sizes, ViewsHold DEF GoodInv, ListsKnown, Views
<1>4. /\ db[p].offset \in FirstRec..(ieof - 1) /\ db[p].offset \notin LS
      /\ LO[db[p].offset] = Chain(p)
  BY <1>1, <1>2, <1>3 DEF Shape, Apart
<1> QED BY <1>3, <1>4 DEF Linked, Recs, Cells

\* A search that has come to the end has passed every record of the chain.
LEMMA SearchedAll ==
  ASSUME GoodInv, NEW p \in alive, pc[p] = "walk", NEW S, Passed(db[p], call[p], S),
         db[p].offset = 0, NEW i \in Linked
  PROVE  rec[i].key # call[p].key
<1>1. SUFFICES ASSUME rec[i].key = call[p].key PROVE FALSE
  OBVIOUS
<1>2. /\ p \in Proc /\ CallOK(p) /\ Shape(NX, LO, LS, ieof) /\ Views
  BY GoodFacts DEF GoodInv, IndInv, ControlInv, ControlType
<1>3. call[p].key \in Key /\ call[p].key # Blank
  BY <1>2, ArgAssumption DEF CallOK, KeyedPC, ChainPC
<1>4. i \in FirstRec..(ieof - 1) /\ i \notin LS /\ i >= FirstRec /\ LO[i] = Chain(p)
  BY <1>1, <1>3, LinkedFacts DEF Chain, Recs
<1>5. Chain(p) \in S /\ \A o \in S : o >= FirstRec => rec[o].key # call[p].key
  BY DEF Passed, Chain
<1>6. ClosedUnder(S, NX)
  <2>1. ASSUME NEW o \in S, NX[o] # 0 PROVE NX[o] \in S
    <3>1. /\ o \in Cells(LS, ieof) /\ LO[o] = Chain(p)
          /\ ptr[o] \in IF o = db[p].ptroff THEN {0} ELSE S
      BY DEF Passed, Chain
    <3>2. NX[o] = ptr[o]
      BY <3>1, Settled DEF ChainPC
    <3> QED BY <2>1, <3>1, <3>2
  <2> QED BY <2>1 DEF ClosedUnder
<1>7. \A o \in 0..NHash : LO[o] = o
  BY <1>2 DEF Views
<1>8. i \in S
  BY <1>2, <1>4, <1>5, <1>6, <1>7, WalkReaches
<1> QED BY <1>1, <1>4, <1>5, <1>8

\* The search begins at the head of the chain.
LEMMA SearchStarts ==
  ASSUME GoodInv, NEW p \in Proc, pc[p] \in ChainPC, NEW h, h.ptroff = Chain(p),
         h.offset = ptr[Chain(p)]
  PROVE  \E S : Passed(h, call[p], S)
<1>1. Chain(p) \in Cells(LS, ieof) /\ LO[Chain(p)] = Chain(p) /\ Chain(p) < FirstRec
  BY GoodFacts, Sizes DEF Views, FirstRec
<1>2. PICK S : S = {Chain(p)}
  OBVIOUS
<1>3. ~(Chain(p) >= FirstRec)
  <2>1. Chain(p) \in 1..NHash
    BY GoodFacts DEF Views
  <2> QED BY <2>1, Sizes
<1>4. Passed(h, call[p], S)
  BY <1>1, <1>2, <1>3 DEF Passed, Chain
<1> QED BY <1>4

\* It goes on to the next record.
LEMMA SearchGoesOn ==
  ASSUME GoodInv, NEW p \in alive, pc[p] = "walk", NEW S, Passed(db[p], call[p], S),
         db[p].offset # 0, rec[db[p].offset].key # call[p].key,
         NEW h, h.ptroff = db[p].offset, h.offset = ptr[db[p].offset]
  PROVE  \E T : Passed(h, call[p], T)
<1> DEFINE o == db[p].offset
<1>1. o \in Cells(LS, ieof) /\ LO[o] = Hash[call[p].key]
  BY LooksAtChain DEF Chain
<1>2. PICK T : T = S \cup {o}
  OBVIOUS
<1>3. Hash[call[p].key] \in T /\ h.ptroff \in T
  BY <1>2 DEF Passed
<1>4. ASSUME NEW x \in T
      PROVE  /\ x \in Cells(LS, ieof) /\ LO[x] = Hash[call[p].key]
             /\ x >= FirstRec => rec[x].key # call[p].key
             /\ ptr[x] \in IF x = h.ptroff THEN {h.offset} ELSE T
  <2>1. CASE x = o
    BY <1>1, <2>1
  <2>2. CASE x # o
    BY <1>2, <2>2 DEF Passed
  <2> QED BY <2>1, <2>2
<1>5. Passed(h, call[p], T)
  BY <1>3, <1>4 DEF Passed
<1> QED BY <1>5

(***************************************************************************)
(* Steps that leave the files alone.                                       *)
(***************************************************************************)
LEMMA QuietKeepsMap ==
  ASSUME GoodInv, GoodInv', MapInv, NEW p \in Proc, OnlyBy(p), Still,
         LooseBy(p)' <=> LooseBy(p), LooseBy(p) => db'[p].idxoff = db[p].idxoff,
         Chained(pc'[p], db'[p], call'[p]), Held(pc'[p], db'[p], call'[p]),
         pc'[p] \in FreshPC => pc[p] \in FreshPC /\ db'[p].datoff = db[p].datoff,
         pc[p] \in BlankedPC => pc'[p] \in BlankedPC /\ db'[p].idxoff = db[p].idxoff
  PROVE  Carries(p)
<1>1. Views /\ Views' /\ LooseOnce /\ ieof \in Nat
  BY ViewsHoldAfter, GoodFacts DEF GoodInv
<1>2. LS' = LS
  BY <1>1, LooseAfter
<1>3. ptr' = ptr /\ rec' = rec /\ ieof' = ieof /\ dat' = dat /\ deof' = deof
  BY DEF Still
<1>4. LO' = LO
  BY <1>3 DEF LO, ListOf
<1>5. Recs' = Recs /\ Linked' = Linked
  BY <1>2, <1>3 DEF Recs, Linked
<1>6. PICK X : X = {}
  OBVIOUS
<1>7. Touches(p, X)
  BY <1>1, <1>2, <1>3, <1>5, <1>6 DEF Touches
<1>8. Chained(pc[p], db[p], call[p])'
  BY <1>2, <1>3, <1>4, <1>5 DEF Chained, Passed
<1>9. Held(pc[p], db[p], call[p])'
  BY <1>3 DEF Held, Reusing
<1>10. pc'[p] \in FreshPC =>
         /\ \A i \in Recs' : rec'[i].datoff # db'[p].datoff
         /\ \A q \in Proc \ {p} : pc[q] \in FreshPC => db[q].datoff # db'[p].datoff
  BY <1>3, <1>5 DEF MapInv, NewSlots
<1>11. \A i \in Linked' :
         /\ i \in Linked /\ rec'[i].key # Blank
         /\ i \in X \/ (pc[p] \in BlankedPC /\ db[p].idxoff = i)
         => \/ dat'[rec'[i].datoff].val \in Data
            \/ pc'[p] \in BlankedPC /\ db'[p].idxoff = i
  BY <1>6
<1> QED BY <1>7, <1>8, <1>9, <1>10, <1>11, FrameKeepsMap

\* Labels at which a process knows nothing of its key.
SilentPC == {"idle", "lock_chain", "read_chain", "unlock", "n_lock", "n_read", "n_unlock"}
LEMMA SilentKeepsMap ==
  ASSUME GoodInv, GoodInv', MapInv, NEW p \in Proc, OnlyBy(p), Still, pc'[p] \in SilentPC,
         pc[p] \notin LoosePC \cup BlankedPC \cup {"f_unlock", "d_write_free"}
  PROVE  Carries(p)
<1>1. Chained(pc'[p], db'[p], call'[p]) /\ Held(pc'[p], db'[p], call'[p])
  BY DEF Chained, Held, Reusing, SilentPC, FoundPC, AbsentPC, StorePC, FreshPC
<1>2. ~LooseBy(p) /\ ~LooseBy(p)' /\ pc'[p] \notin FreshPC
  BY DEF LooseBy, LoosePC, SilentPC, FreshPC
<1> QED BY <1>1, <1>2, QuietKeepsMap

\* A step after which p knows no more than before.
LEMMA SameKeepsMap ==
  ASSUME GoodInv, GoodInv', MapInv, NEW p \in Proc, NEW from, NEW to,
         Moved(p, from, to), Still,
         to \notin {"walk", "n_read_dat", "f_unlink", "r_write_idx"},
         to \in FoundPC => from \in FoundPC, to \in AbsentPC => from \in AbsentPC,
         to \in FreshPC => from \in FreshPC, from \in BlankedPC => to \in BlankedPC,
         to \in {"a_unlock_idx", "s_write_chain"} => from \in {"a_unlock_idx", "s_write_chain"},
         Reusing(to, db'[p]) => Reusing(from, db[p]),
         HasLoose(to, db'[p]) <=> HasLoose(from, db[p]), from # "d_write_free",
         to # "d_write_free",
         to \in FoundPC \/ HasLoose(from, db[p]) => db'[p].idxoff = db[p].idxoff,
         to \in FoundPC \cup FreshPC => db'[p].datoff = db[p].datoff
  PROVE  Carries(p)
<1>1. /\ OnlyBy(p) /\ pc[p] = from /\ pc'[p] = to /\ call'[p] = call[p] /\ p \in alive
  BY DEF Moved, OnlyBy
<1>2. Chained(from, db[p], call[p]) /\ Held(from, db[p], call[p])
  BY <1>1 DEF MapInv
<1>3. Chained(to, db'[p], call[p])
  BY <1>2 DEF Chained
<1>4. (LooseBy(p)' <=> HasLoose(to, db'[p])) /\ (LooseBy(p) <=> HasLoose(from, db[p]))
  BY <1>1 DEF LooseBy, HasLoose
<1>5. Held(to, db'[p], call[p])
  BY <1>2 DEF Held, Reusing, HasLoose, LoosePC
<1>6. from \in BlankedPC => db'[p].idxoff = db[p].idxoff
  BY DEF BlankedPC, FoundPC
<1> QED BY <1>1, <1>3, <1>4, <1>5, <1>6, QuietKeepsMap

\* _db_find_and_lock, and the ends of the calls.
LEMMA FindKeepsMap ==
  ASSUME GoodInv, GoodInv', MapInv, NEW p \in Proc, Find(p)
  PROVE  Carries(p)
<1>1. IndInv
  BY DEF GoodInv
<1>2. CASE LockChain(p) \/ FetchDat(p) \/ Unlock(p)
  <2>1. OnlyBy(p) /\ Still /\ pc[p] \in {"lock_chain", "read_dat", "unlock"}
        /\ pc'[p] \in {"read_chain", "unlock", "idle"}
    BY <1>1, <1>2, FindStarts, FindEnds DEF Moved, Ends
  <2> QED BY <2>1, SilentKeepsMap DEF SilentPC, LoosePC, BlankedPC
<1>3. CASE ReadChain(p)
  <2>1. /\ OnlyBy(p) /\ Still /\ pc[p] = "read_chain" /\ pc'[p] = "walk"
        /\ call'[p] = call[p]
        /\ db'[p].ptroff = Chain(p) /\ db'[p].offset = ptr[Chain(p)]
    BY <1>1, <1>3, FindStarts DEF Moved
  <2>2. \E S : Passed(db'[p], call[p], S)
    BY <2>1, SearchStarts DEF ChainPC
  <2>3. Chained(pc'[p], db'[p], call'[p]) /\ Held(pc'[p], db'[p], call'[p])
    BY <2>1, <2>2 DEF Chained, Held, Reusing, FoundPC, AbsentPC, StorePC, FreshPC
  <2>4. ~LooseBy(p) /\ ~LooseBy(p)' /\ pc'[p] \notin FreshPC /\ pc[p] \notin BlankedPC
    BY <2>1 DEF LooseBy, LoosePC, FreshPC, BlankedPC
  <2> QED BY <2>1, <2>3, <2>4, QuietKeepsMap
<1>4. ASSUME pc[p] = "walk", p \in alive PROVE \E S : Passed(db[p], call[p], S)
  BY <1>4 DEF MapInv, Chained
<1>5. CASE WalkNext(p)
  <2>1. /\ OnlyBy(p) /\ Still /\ pc[p] = "walk" /\ pc'[p] = "walk" /\ p \in alive
        /\ call'[p] = call[p] /\ db[p].offset # 0 /\ rec[db[p].offset].key # call[p].key
        /\ db'[p].ptroff = db[p].offset /\ db'[p].offset = ptr[db[p].offset]
    BY <1>1, <1>5, WalkNextDoes DEF Moved, OnlyBy
  <2>2. \E S : Passed(db'[p], call[p], S)
    BY <1>4, <2>1, SearchGoesOn
  <2>3. Chained(pc'[p], db'[p], call'[p]) /\ Held(pc'[p], db'[p], call'[p])
    BY <2>1, <2>2 DEF Chained, Held, Reusing, FoundPC, AbsentPC, StorePC, FreshPC
  <2>4. ~LooseBy(p) /\ ~LooseBy(p)' /\ pc'[p] \notin FreshPC /\ pc[p] \notin BlankedPC
    BY <2>1 DEF LooseBy, LoosePC, FreshPC, BlankedPC
  <2> QED BY <2>1, <2>3, <2>4, QuietKeepsMap
<1>6. CASE WalkFound(p)
  <2>1. /\ OnlyBy(p) /\ Still /\ pc[p] = "walk" /\ p \in alive /\ call'[p] = call[p]
        /\ pc'[p] \in {"read_dat", "d_lock_free", "o_write_dat", "unlock"}
        /\ db[p].offset # 0 /\ rec[db[p].offset].key = call[p].key
        /\ db'[p].idxoff = db[p].offset /\ db'[p].datoff = rec[db[p].offset].datoff
    BY <1>1, <1>6, WalkFoundDoes DEF Moved, OnlyBy
  <2>2. db[p].offset \in Linked
    BY <1>4, <2>1, LooksAtChain
  <2>3. Chained(pc'[p], db'[p], call'[p]) /\ Held(pc'[p], db'[p], call'[p])
    BY <2>1, <2>2 DEF Chained, Held, Reusing, AbsentPC, StorePC, FreshPC
  <2>4. ~LooseBy(p) /\ ~LooseBy(p)' /\ pc'[p] \notin FreshPC /\ pc[p] \notin BlankedPC
    BY <2>1 DEF LooseBy, LoosePC, FreshPC, BlankedPC
  <2> QED BY <2>1, <2>3, <2>4, QuietKeepsMap
<1>7. CASE WalkEnd(p)
  <2>1. /\ OnlyBy(p) /\ Still /\ pc[p] = "walk" /\ p \in alive /\ call'[p] = call[p]
        /\ pc'[p] \in {"s_read_chain", "unlock"} /\ db[p].offset = 0
    BY <1>1, <1>7, FindEnds DEF Moved, OnlyBy
  <2>2. \A i \in Linked : rec[i].key # call[p].key
    BY <1>4, <2>1, SearchedAll
  <2>3. Chained(pc'[p], db'[p], call'[p]) /\ Held(pc'[p], db'[p], call'[p])
    BY <2>1, <2>2 DEF Chained, Held, Reusing, FoundPC, FreshPC
  <2>4. ~LooseBy(p) /\ ~LooseBy(p)' /\ pc'[p] \notin FreshPC /\ pc[p] \notin BlankedPC
    BY <2>1 DEF LooseBy, LoosePC, FreshPC, BlankedPC
  <2> QED BY <2>1, <2>3, <2>4, QuietKeepsMap
<1> QED BY <1>2, <1>3, <1>5, <1>6, <1>7 DEF Find

\* A process that dies outside _db_dodelete takes nothing with it.
LEMMA DeathKeepsMap ==
  ASSUME GoodInv, GoodInv', MapInv, NEW p \in Proc, p \in alive, Die(p),
         pc[p] \in {"idle", "s_write_chain", "n_read"}
  PROVE  MapInv'
<1>1. /\ ptr' = ptr /\ rec' = rec /\ ieof' = ieof /\ dat' = dat /\ deof' = deof /\ pc' = pc
      /\ call' = call /\ db' = db /\ alive' = alive \ {p}
  BY DEF Die
<1>2. LS' = LS
  BY <1>1 DEF LS, Loose
<1>3. LO' = LO
  BY <1>1 DEF LO, ListOf
<1>4. Recs' = Recs /\ Linked' = Linked
  BY <1>1, <1>2 DEF Recs, Linked
<1>5. OneEach' /\ OwnSlots' /\ NewSlots'
  BY <1>1, <1>4 DEF MapInv, OneEach, OwnSlots, NewSlots
<1>6. Filled'
  BY <1>1, <1>4 DEF MapInv, Filled, BlankedPC
<1>7. ASSUME NEW q \in alive' PROVE Chained(pc[q], db[q], call[q])'
  <2>1. Chained(pc[q], db[q], call[q])
    BY <1>1, <1>7 DEF MapInv
  <2> QED BY <1>1, <1>2, <1>3, <1>4, <2>1 DEF Chained, Passed
<1>8. \A q \in Proc : Held(pc[q], db[q], call[q])'
  BY <1>1 DEF MapInv, Held, Reusing
<1> QED BY <1>5, <1>6, <1>7, <1>8 DEF MapInv

\* A call begins.
LEMMA InvokeKeepsMap ==
  ASSUME GoodInv, GoodInv', MapInv, NEW p \in Proc, Invoke(p)
  PROVE  Carries(p) \/ (Die(p) /\ MapInv')
<1>1. \/ OnlyBy(p) /\ Still /\ pc[p] = "idle" /\ pc'[p] \in {"idle", "lock_chain", "n_lock"}
      \/ p \in alive /\ pc[p] = "idle" /\ Die(p)
  BY InvokeDoes DEF GoodInv, Starts, Moved
<1> QED BY <1>1, SilentKeepsMap, DeathKeepsMap DEF SilentPC, LoosePC, BlankedPC

\* db_nextrec.
LEMMA NextrecKeepsMap ==
  ASSUME GoodInv, GoodInv', MapInv, NEW p \in Proc, Nextrec(p)
  PROVE  Carries(p) \/ (Die(p) /\ MapInv')
<1>1. CASE NextGarbage(p)
  BY <1>1, DeathKeepsMap DEF NextGarbage
<1>2. CASE ~NextGarbage(p)
  <2>1. /\ OnlyBy(p) /\ Still /\ pc[p] \in {"n_lock", "n_read", "n_read_dat", "n_unlock"}
        /\ \/ pc'[p] \in {"n_read", "n_unlock", "idle"}
           \/ /\ pc'[p] = "n_read_dat" /\ call'[p] = call[p] /\ db[p].fpos \in Recs
              /\ rec[db[p].fpos].key # Blank /\ db'[p].key = rec[db[p].fpos].key
              /\ db'[p].datoff = rec[db[p].fpos].datoff
    BY <1>2, NextDoes DEF GoodInv, Nextrec, Moved, Ends, Recs
  <2>2. CASE pc'[p] \in {"n_read", "n_unlock", "idle"}
    BY <2>1, <2>2, SilentKeepsMap DEF SilentPC, LoosePC, BlankedPC
  <2>3. CASE pc'[p] = "n_read_dat"
    <3>1. Chained(pc'[p], db'[p], call'[p]) /\ Held(pc'[p], db'[p], call'[p])
      BY <2>1, <2>3 DEF Chained, Held, Reusing, FoundPC, AbsentPC, StorePC, FreshPC
    <3>2. ~LooseBy(p) /\ ~LooseBy(p)' /\ pc'[p] \notin FreshPC /\ pc[p] \notin BlankedPC
      BY <2>1, <2>3 DEF LooseBy, LoosePC, FreshPC, BlankedPC
    <3> QED BY <2>1, <3>1, <3>2, QuietKeepsMap
  <2> QED BY <2>1, <2>2, <2>3
<1> QED BY <1>1, <1>2

(***************************************************************************)
(* Steps that write.                                                       *)
(***************************************************************************)
\* A data record belongs to one index record, or to one process.
LEMMA OtherData ==
  ASSUME GoodInv, MapInv, NEW x \in Recs,
         \A i \in 0..(deof - 1) : i # rec[x].datoff => dat'[i] = dat[i]
  PROVE  /\ \A i \in Recs : i # x => dat'[rec[i].datoff] = dat[rec[i].datoff]
         /\ \A q \in Proc : pc[q] \in FreshPC => dat'[db[q].datoff] = dat[db[q].datoff]
<1>1. ASSUME NEW i \in Recs, i # x PROVE dat'[rec[i].datoff] = dat[rec[i].datoff]
  <2>1. rec[i].datoff # rec[x].datoff
    BY <1>1 DEF MapInv, OwnSlots
  <2>2. rec[i].datoff < deof /\ rec[i] \in RecType /\ deof \in Nat
    BY DEF GoodInv, IndInv, FilesInv, FilesFit, FileType, Recs
  <2>3. rec[i].datoff \in 0..(deof - 1)
    BY <2>2 DEF RecType
  <2> QED BY <2>1, <2>3
<1>2. ASSUME NEW q \in Proc, pc[q] \in FreshPC PROVE dat'[db[q].datoff] = dat[db[q].datoff]
  <2>1. rec[x].datoff # db[q].datoff
    BY <1>2 DEF MapInv, NewSlots
  <2>2. db[q].datoff \in 0..(deof - 1)
    BY <1>2, SlotFacts DEF GoodInv, FreshPC
  <2> QED BY <2>1, <2>2
<1> QED BY <1>1, <1>2

\* p may write the record of its key, and its loose record.
LEMMA OwnRecord ==
  ASSUME GoodInv, MapInv, NEW p \in alive
  PROVE  /\ pc[p] \in FoundPC /\ call[p].op # "fetch" =>
              /\ db[p].idxoff \in Linked /\ db[p].idxoff \in Recs /\ Owns(p, db[p].idxoff)
              /\ rec[db[p].idxoff].key = call[p].key
              /\ rec[db[p].idxoff].datoff = db[p].datoff /\ call[p].key # Blank
         /\ LooseBy(p) => /\ db[p].idxoff \in Recs /\ db[p].idxoff \in LS
                          /\ Owns(p, db[p].idxoff) /\ db[p].idxoff \notin Linked
<1>1. p \in Proc /\ CallOK(p) /\ Views
  BY GoodFacts DEF GoodInv, IndInv, ControlInv, ControlType
<1>2. ASSUME pc[p] \in FoundPC, call[p].op # "fetch"
      PROVE  /\ db[p].idxoff \in Linked /\ db[p].idxoff \in Recs /\ Owns(p, db[p].idxoff)
             /\ rec[db[p].idxoff].key = call[p].key
             /\ rec[db[p].idxoff].datoff = db[p].datoff /\ call[p].key # Blank
  <2>1. /\ db[p].idxoff \in Linked /\ rec[db[p].idxoff].key = call[p].key
        /\ rec[db[p].idxoff].datoff = db[p].datoff
    BY <1>2 DEF MapInv, Chained
  <2>2. call[p].key \in Key /\ call[p].key # Blank /\ pc[p] \in ChainPC
    BY <1>1, <1>2, ArgAssumption DEF FoundPC, CallOK, KeyedPC, ChainPC
  <2>3. /\ db[p].idxoff \in Recs /\ db[p].idxoff \in Cells(LS, ieof)
        /\ LO[db[p].idxoff] = Chain(p)
    BY <2>1, <2>2, LinkedFacts DEF Chain
  <2> QED BY <1>2, <2>1, <2>2, <2>3 DEF Owns
<1>3. ASSUME LooseBy(p)
      PROVE  /\ db[p].idxoff \in Recs /\ db[p].idxoff \in LS
             /\ Owns(p, db[p].idxoff) /\ db[p].idxoff \notin Linked
  BY <1>1, <1>3, LooseOffset DEF Owns, Views, Recs, Linked
<1> QED BY <1>2, <1>3

\* The data record of the key of p is written, by _db_dodelete or db_store.
LEMMA DataWritten ==
  ASSUME GoodInv, GoodInv', MapInv, NEW p \in Proc, NEW x, x = db[p].idxoff, x \in Recs,
         OnlyBy(p), UNCHANGED <<ptr, rec, ieof>>, Owns(p, x), rec[x].datoff = db[p].datoff,
         x \in LS \/ rec[x].key = call[p].key,
         LooseBy(p)' <=> LooseBy(p), LooseBy(p) => db'[p].idxoff = db[p].idxoff,
         \A i \in 0..(deof - 1) : i # db[p].datoff => dat'[i] = dat[i]
  PROVE  Touches(p, {x}) /\ LS' = LS /\ Recs' = Recs /\ Linked' = Linked
<1>1. Views /\ Views' /\ LooseOnce /\ ieof \in Nat
  BY ViewsHoldAfter, GoodFacts DEF GoodInv
<1>2. LS' = LS
  BY <1>1, LooseAfter
<1>3. Recs' = Recs /\ Linked' = Linked
  BY <1>2 DEF Recs, Linked
<1>4. /\ \A i \in Recs : i # x => dat'[rec[i].datoff] = dat[rec[i].datoff]
      /\ \A q \in Proc : pc[q] \in FreshPC => dat'[db[q].datoff] = dat[db[q].datoff]
  BY OtherData
<1>5. PICK X : X = {x}
  OBVIOUS
<1>6. Touches(p, X)
  BY <1>1, <1>2, <1>3, <1>4, <1>5 DEF Touches
<1> QED BY <1>2, <1>3, <1>5, <1>6

\* _db_dodelete blanks the data record.
LEMMA DelWriteDatMap ==
  ASSUME GoodInv, GoodInv', MapInv, NEW p \in Proc, DelWriteDat(p)
  PROVE  Carries(p)
<1>1. /\ Moved(p, "d_write_dat", "d_read_free") /\ UNCHANGED <<ptr, rec, ieof>>
      /\ db'[p] = db[p] /\ \A i \in 0..(deof - 1) : i # db[p].datoff => dat'[i] = dat[i]
  BY DeleteDoes DEF GoodInv
<1>2. /\ OnlyBy(p) /\ pc[p] = "d_write_dat" /\ pc'[p] = "d_read_free" /\ call'[p] = call[p]
      /\ p \in alive /\ CallOK(p)
  BY <1>1, GoodFacts DEF Moved, OnlyBy
<1>3. call[p].op # "fetch" /\ pc[p] \in FoundPC
  BY <1>2 DEF CallOK, DelPC, FoundPC
<1>4. PICK x : x = db[p].idxoff
  OBVIOUS
<1>5. /\ x \in Linked /\ x \in Recs /\ Owns(p, x) /\ rec[x].key = call[p].key
      /\ rec[x].datoff = db[p].datoff
  BY <1>2, <1>3, <1>4, OwnRecord
<1>6. ~LooseBy(p) /\ ~LooseBy(p)'
  BY <1>2 DEF LooseBy, LoosePC
<1>7. PICK X : X = {x} /\ Touches(p, X) /\ LS' = LS /\ Recs' = Recs /\ Linked' = Linked
  BY <1>1, <1>2, <1>4, <1>5, <1>6, DataWritten
<1>8. Chained(pc[p], db[p], call[p])' /\ Held(pc[p], db[p], call[p])'
  BY <1>1, <1>2, <1>4, <1>5, <1>7 DEF Chained, Held, Reusing, AbsentPC, StorePC, FreshPC
<1>9. pc'[p] \notin FreshPC /\ pc'[p] \in BlankedPC /\ db'[p].idxoff = x
  BY <1>1, <1>2, <1>4 DEF FreshPC, BlankedPC
<1> QED BY <1>4, <1>7, <1>8, <1>9, FrameKeepsMap

\* db_store overwrites it.
LEMMA OverwriteDatMap ==
  ASSUME GoodInv, GoodInv', MapInv, NEW p \in Proc, OverwriteDat(p)
  PROVE  Carries(p)
<1>1. /\ Moved(p, "o_write_dat", "unlock") /\ UNCHANGED <<ptr, rec, ieof>>
      /\ dat'[db[p].datoff].val = call[p].data
      /\ \A i \in 0..(deof - 1) : i # db[p].datoff => dat'[i] = dat[i]
  BY StoreDoes DEF GoodInv
<1>2. /\ OnlyBy(p) /\ pc[p] = "o_write_dat" /\ pc'[p] = "unlock" /\ call'[p] = call[p]
      /\ p \in alive /\ CallOK(p)
  BY <1>1, GoodFacts DEF Moved, OnlyBy
<1>3. call[p].op # "fetch" /\ pc[p] \in FoundPC /\ call[p].data \in Data
  BY <1>2 DEF CallOK, StorePC, FoundPC, KeyedPC, ChainPC
<1>4. PICK x : x = db[p].idxoff
  OBVIOUS
<1>5. /\ x \in Linked /\ x \in Recs /\ Owns(p, x) /\ rec[x].key = call[p].key
      /\ rec[x].datoff = db[p].datoff
  BY <1>2, <1>3, <1>4, OwnRecord
<1>6. ~LooseBy(p) /\ ~LooseBy(p)'
  BY <1>2 DEF LooseBy, LoosePC
<1>7. PICK X : X = {x} /\ Touches(p, X) /\ LS' = LS /\ Recs' = Recs /\ Linked' = Linked
  BY <1>1, <1>2, <1>4, <1>5, <1>6, DataWritten
<1>8. Chained(pc[p], db[p], call[p])' /\ Held(pc[p], db[p], call[p])'
  BY <1>2 DEF Chained, Held, Reusing, FoundPC, AbsentPC, StorePC, FreshPC
<1>9. pc'[p] \notin FreshPC /\ pc[p] \notin BlankedPC /\ dat'[rec'[x].datoff].val \in Data
  BY <1>1, <1>2, <1>3, <1>5 DEF FreshPC, BlankedPC
<1> QED BY <1>7, <1>8, <1>9, FrameKeepsMap

\* db_store fills the data record of the free record it took.
LEMMA ReuseWriteDatMap ==
  ASSUME GoodInv, GoodInv', MapInv, NEW p \in Proc, ReuseWriteDat(p)
  PROVE  Carries(p)
<1>1. /\ Moved(p, "r_write_dat", "r_write_idx") /\ UNCHANGED <<ptr, rec, ieof>>
      /\ db'[p] = db[p] /\ dat'[db[p].datoff].val = call[p].data
      /\ \A i \in 0..(deof - 1) : i # db[p].datoff => dat'[i] = dat[i]
  BY StoreDoes DEF GoodInv
<1>2. /\ OnlyBy(p) /\ pc[p] = "r_write_dat" /\ pc'[p] = "r_write_idx" /\ call'[p] = call[p]
      /\ p \in alive /\ Sized(pc[p], db[p], call[p])
  BY <1>1 DEF Moved, OnlyBy, GoodInv, SizeInv
<1>3. LooseBy(p) /\ LooseBy(p)'
  BY <1>2 DEF LooseBy, LoosePC
<1>4. PICK x : x = db[p].idxoff
  OBVIOUS
<1>5. x \in LS /\ x \in Recs /\ Owns(p, x) /\ rec[x].datoff = db[p].datoff
  BY <1>2, <1>3, <1>4, OwnRecord DEF Sized, Reusing, Describes
<1>6. Chained(pc[p], db[p], call[p]) /\ Held(pc[p], db[p], call[p])
  BY <1>2 DEF MapInv
<1>7. PICK X : X = {x} /\ Touches(p, X) /\ LS' = LS /\ Recs' = Recs /\ Linked' = Linked
  BY <1>1, <1>2, <1>3, <1>4, <1>5, DataWritten
<1>8. Chained(pc[p], db[p], call[p])'
  BY <1>1, <1>2, <1>6, <1>7 DEF Chained, FoundPC, AbsentPC, StorePC, FreshPC
<1>9. Held(pc[p], db[p], call[p])'
  BY <1>1, <1>2, <1>6 DEF Held, Reusing
<1>10. pc'[p] \notin FreshPC /\ pc[p] \notin BlankedPC /\ x \notin Linked
  BY <1>2, <1>5 DEF FreshPC, BlankedPC, Linked
<1> QED BY <1>7, <1>8, <1>9, <1>10, FrameKeepsMap

\* db_store appends a data record.
LEMMA AppendDatMap ==
  ASSUME GoodInv, GoodInv', MapInv, NEW p \in Proc, AppendDat(p)
  PROVE  Carries(p)
<1>1. /\ Moved(p, "a_write_dat", "a_unlock_dat") /\ UNCHANGED <<ptr, rec, ieof>>
      /\ db'[p] = db[p] /\ dat'[db[p].datoff].val = call[p].data
      /\ \A i \in 0..(deof - 1) : i # db[p].datoff => dat'[i] = dat[i]
  BY StoreDoes DEF GoodInv
<1>2. /\ OnlyBy(p) /\ pc[p] = "a_write_dat" /\ pc'[p] = "a_unlock_dat" /\ call'[p] = call[p]
      /\ p \in alive /\ db[p].datoff = deof
  BY <1>1 DEF Moved, OnlyBy, GoodInv, IndInv, FilesInv, AppendAtEnd
<1>3. Views /\ Views' /\ LooseOnce /\ ieof \in Nat /\ deof \in Nat
  BY ViewsHoldAfter, GoodFacts DEF GoodInv
<1>4. ~LooseBy(p) /\ ~LooseBy(p)'
  BY <1>2 DEF LooseBy, LoosePC
<1>5. LS' = LS
  BY <1>2, <1>3, <1>4, LooseAfter
<1>6. Recs' = Recs /\ Linked' = Linked
  BY <1>1, <1>5 DEF Recs, Linked
<1>7. ASSUME NEW d \in 0..(deof - 1) PROVE d # deof /\ dat'[d] = dat[d]
  BY <1>1, <1>2, <1>3
<1>8. \A i \in Recs : rec[i].datoff # deof /\ dat'[rec[i].datoff] = dat[rec[i].datoff]
  BY <1>7, GoodFacts
<1>9. ASSUME NEW q \in Proc, pc[q] \in FreshPC
      PROVE  db[q].datoff # deof /\ dat'[db[q].datoff] = dat[db[q].datoff]
  <2>1. db[q].datoff \in 0..(deof - 1)
    BY <1>9, SlotFacts DEF GoodInv, FreshPC
  <2> QED BY <1>7, <2>1
<1>10. PICK X : X = {}
  OBVIOUS
<1>11. Touches(p, X)
  BY <1>1, <1>2, <1>3, <1>5, <1>6, <1>8, <1>9, <1>10 DEF Touches
<1>12. Chained(pc[p], db[p], call[p])
  BY <1>2 DEF MapInv
<1>13. Chained(pc[p], db[p], call[p])'
  BY <1>1, <1>2, <1>6, <1>12 DEF Chained, FoundPC, AbsentPC, StorePC
<1>14. Held(pc[p], db[p], call[p])'
  BY <1>2 DEF Held, Reusing
<1>15. pc[p] \notin BlankedPC
  BY <1>2 DEF BlankedPC
<1>16. /\ \A i \in Recs' : rec'[i].datoff # db'[p].datoff
       /\ \A q \in Proc \ {p} : pc[q] \in FreshPC => db[q].datoff # db'[p].datoff
  BY <1>1, <1>2, <1>6, <1>8, <1>9
<1> QED BY <1>10, <1>11, <1>13, <1>14, <1>15, <1>16, FrameKeepsMap

\* A pointer that p owns is written; the loose records are those of before,
\* but for the records of X.
LEMMA PointerWritten ==
  ASSUME GoodInv, GoodInv', NEW p \in Proc, OnlyBy(p), UNCHANGED <<rec, ieof, dat, deof>>,
         NEW o, Owns(p, o), \A i \in 0..(ieof - 1) : i # o => ptr'[i] = ptr[i],
         NEW X, \A i \in Recs : i \notin X => (i \in LS' <=> i \in LS),
         \A i \in Recs : i \in X => Owns(p, i) /\ (i \in LS \/ rec[i].key = Blank),
         \A i \in X : rec[i].key = Blank \/ (pc[p] = "s_write_chain" /\ i = db[p].idxoff)
  PROVE  Touches(p, X) /\ Recs' = Recs
<1>1. Recs' = Recs /\ ieof \in Nat
  BY GoodFacts DEF Recs
<1>2. \A i \in Linked' : i \in Recs
  BY <1>1 DEF Linked
<1> QED BY <1>1, <1>2 DEF Touches

\* _db_dodelete links the record to the free list.
LEMMA DelWriteFreeMap ==
  ASSUME GoodInv, GoodInv', MapInv, NEW p \in Proc, DelWriteFree(p)
  PROVE  Carries(p)
<1>1. /\ Moved(p, "d_write_free", "d_write_ptr") /\ UNCHANGED <<rec, ieof, dat, deof>>
      /\ \A i \in 0..(ieof - 1) : i # 0 => ptr'[i] = ptr[i]
  BY DeleteDoes DEF GoodInv
<1>2. /\ OnlyBy(p) /\ pc[p] = "d_write_free" /\ pc'[p] = "d_write_ptr" /\ call'[p] = call[p]
      /\ p \in alive /\ CallOK(p) /\ Known(p)
  BY <1>1, GoodFacts DEF Moved, OnlyBy, GoodInv, ListsKnown
<1>3. Views /\ Views' /\ LooseOnce
  BY ViewsHoldAfter, GoodFacts DEF GoodInv
<1>4. LooseBy(p) /\ ~LooseBy(p)'
  BY <1>2 DEF LooseBy, LoosePC
<1>5. PICK x : x = db[p].idxoff
  OBVIOUS
<1>6. LS' = LS \ {x}
  BY <1>2, <1>3, <1>4, <1>5, LooseAfter
<1>7. x \in Recs /\ x \in LS /\ Owns(p, x)
  BY <1>2, <1>4, <1>5, OwnRecord
<1>8. rec[x].key = Blank
  <2>1. LO[x] = 0 /\ x \in 0..(ieof - 1) /\ x >= FirstRec
    BY <1>2, <1>5, <1>7, GoodFacts DEF Known, Knows
  <2>2. ListOf(x) = 0
    BY <1>3, <2>1 DEF Views
  <2>3. rec[x].key \in Key \cup {Blank}
    BY <1>7, GoodFacts DEF RecType
  <2> QED BY <2>1, <2>2, <2>3, Sizes, ArgAssumption DEF ListOf
<1>9. Owns(p, 0)
  <2>1. 0 \in Cells(LS, ieof) /\ LO[0] = 0
    BY <1>3, Sizes DEF Views
  <2> QED BY <1>2, <2>1 DEF Owns, FreePC
<1>10. PICK X : X = {x}
  OBVIOUS
<1>11. Touches(p, X) /\ Recs' = Recs
  BY <1>1, <1>2, <1>6, <1>7, <1>8, <1>9, <1>10, PointerWritten
<1>12. Chained(pc[p], db[p], call[p])'
  <2>1. call[p].key # Blank /\ \A i \in Linked : rec[i].key # call[p].key
    BY <1>2, ArgAssumption DEF MapInv, Chained, AbsentPC, CallOK, KeyedPC, ChainPC
  <2>2. ASSUME NEW i \in Linked' PROVE rec'[i].key # call'[p].key
    BY <1>1, <1>2, <1>6, <1>8, <1>11, <2>1 DEF Linked
  <2> QED BY <1>2, <2>2 DEF Chained, FoundPC, FreshPC
<1>13. Held(pc[p], db[p], call[p])'
  BY <1>2 DEF Held, Reusing
<1>14. pc'[p] \notin FreshPC /\ pc[p] \notin BlankedPC /\ rec'[x].key = Blank
  BY <1>1, <1>2, <1>8 DEF FreshPC, BlankedPC
<1> QED BY <1>10, <1>11, <1>12, <1>13, <1>14, FrameKeepsMap

\* _db_dodelete unlinks it from its chain.
LEMMA DelWritePtrMap ==
  ASSUME GoodInv, GoodInv', MapInv, NEW p \in Proc, DelWritePtr(p)
  PROVE  Carries(p)
<1>1. /\ Moved(p, "d_write_ptr", "d_unlock_free") /\ UNCHANGED <<rec, ieof, dat, deof>>
      /\ \A i \in 0..(ieof - 1) : i # db[p].ptroff => ptr'[i] = ptr[i]
  BY DeleteDoes DEF GoodInv
<1>2. /\ OnlyBy(p) /\ pc[p] = "d_write_ptr" /\ pc'[p] = "d_unlock_free" /\ call'[p] = call[p]
      /\ p \in alive /\ CallOK(p) /\ Known(p)
  BY <1>1, GoodFacts DEF Moved, OnlyBy, GoodInv, ListsKnown
<1>3. Views /\ Views' /\ LooseOnce
  BY ViewsHoldAfter, GoodFacts DEF GoodInv
<1>4. LS' = LS
  <2>1. ~LooseBy(p) /\ ~LooseBy(p)'
    BY <1>2 DEF LooseBy, LoosePC
  <2> QED BY <1>2, <1>3, <2>1, LooseAfter
<1>5. Owns(p, db[p].ptroff)
  <2>1. db[p].ptroff \in Cells(LS, ieof) /\ LO[db[p].ptroff] = Chain(p)
    BY <1>2 DEF Known, Knows
  <2> QED BY <1>2, <2>1 DEF Owns, ChainPC, CallOK, DelPC
<1>6. PICK X : X = {}
  OBVIOUS
<1>7. Touches(p, X) /\ Recs' = Recs
  BY <1>1, <1>2, <1>4, <1>5, <1>6, PointerWritten
<1>8. Chained(pc[p], db[p], call[p])'
  <2>1. \A i \in Linked : rec[i].key # call[p].key
    BY <1>2 DEF MapInv, Chained, AbsentPC
  <2>2. ASSUME NEW i \in Linked' PROVE rec'[i].key # call'[p].key
    BY <1>1, <1>2, <1>4, <1>7, <2>1 DEF Linked
  <2> QED BY <1>2, <2>2 DEF Chained, FoundPC, FreshPC
<1>9. Held(pc[p], db[p], call[p])'
  BY <1>2 DEF Held, Reusing
<1>10. pc'[p] \notin FreshPC /\ pc[p] \notin BlankedPC
  BY <1>2 DEF FreshPC, BlankedPC
<1> QED BY <1>6, <1>7, <1>8, <1>9, <1>10, FrameKeepsMap

\* A record on the free list is blank, and belongs to whoever has locked the list.
LEMMA FreeRecord ==
  ASSUME GoodInv, NEW p \in Proc, NEW o, o \in Cells(LS, ieof), LO[o] = 0, NX[o] # 0
  PROVE  /\ NX[o] \in Recs /\ NX[o] \in Linked /\ rec[NX[o]].key = Blank
         /\ pc[p] \in FreePC => Owns(p, NX[o])
<1>1. /\ Shape(NX, LO, LS, ieof) /\ Views /\ FirstRec \in Nat /\ ieof \in Nat
  BY GoodFacts
<1>2. PICK x : x = NX[o]
  OBVIOUS
<1>3. x \in FirstRec..(ieof - 1) /\ x \notin LS /\ LO[x] = 0
  BY <1>1, <1>2 DEF Shape, Apart
<1>4. x \in Recs /\ x \in Linked
  BY <1>3 DEF Recs, Linked
<1>5. x \in Cells(LS, ieof) /\ LO[x] = IF rec[x].key = Blank THEN 0 ELSE Hash[rec[x].key]
  BY <1>4, LinkedFacts
<1>6. rec[x].key \in Key \cup {Blank}
  BY <1>4, GoodFacts DEF RecType
<1>7. rec[x].key = Blank
  BY <1>3, <1>5, <1>6, ArgAssumption, Sizes
<1> QED BY <1>2, <1>3, <1>4, <1>5, <1>7 DEF Owns

\* _db_findfree takes a record from the free list.
LEMMA FreeUnlinkMap ==
  ASSUME GoodInv, GoodInv', MapInv, NEW p \in Proc, FreeUnlink(p)
  PROVE  Carries(p)
<1>1. /\ Moved(p, "f_unlink", "f_unlock") /\ UNCHANGED <<rec, ieof, dat, deof>>
      /\ db'[p].idxoff = db[p].idxoff /\ db'[p].offset = db[p].offset
      /\ \A i \in 0..(ieof - 1) : i # db[p].save => ptr'[i] = ptr[i]
  BY StoreDoes DEF GoodInv, Keeps
<1>2. /\ OnlyBy(p) /\ pc[p] = "f_unlink" /\ pc'[p] = "f_unlock" /\ call'[p] = call[p]
      /\ p \in alive /\ Known(p) /\ Positioned(pc[p], db[p]) /\ FirstRec \in Nat
  BY <1>1, GoodFacts DEF Moved, OnlyBy, GoodInv, ListsKnown
<1>3. Views /\ Views' /\ LooseOnce
  BY ViewsHoldAfter, GoodFacts DEF GoodInv
<1>4. PICK x : x = db[p].idxoff
  OBVIOUS
<1>5. /\ db[p].save \in Cells(LS, ieof) /\ LO[db[p].save] = 0 /\ NX[db[p].save] = x
      /\ db[p].offset # 0
  BY <1>2, <1>4 DEF Known, Knows, On
<1>6. x # 0
  BY <1>2, <1>4, Sizes DEF Positioned, RecordPC
<1>7. x \in Recs /\ x \in Linked /\ rec[x].key = Blank /\ Owns(p, x)
  BY <1>2, <1>5, <1>6, FreeRecord DEF FreePC
<1>8. LS' = LS \cup {x}
  <2>1. ~LooseBy(p) /\ LooseBy(p)'
    BY <1>1, <1>2, <1>5 DEF LooseBy, LoosePC
  <2> QED BY <1>1, <1>2, <1>3, <1>4, <2>1, LooseAfter
<1>9. Owns(p, db[p].save)
  BY <1>2, <1>5 DEF Owns, FreePC
<1>10. PICK X : X = {x}
  OBVIOUS
<1>11. Touches(p, X) /\ Recs' = Recs
  BY <1>1, <1>2, <1>7, <1>8, <1>9, <1>10, PointerWritten
<1>12. Chained(pc[p], db[p], call[p])'
  <2>1. \A i \in Linked : rec[i].key # call[p].key
    BY <1>2 DEF MapInv, Chained, AbsentPC, StorePC
  <2>2. ASSUME NEW i \in Linked' PROVE rec'[i].key # call'[p].key
    BY <1>1, <1>2, <1>8, <1>11, <2>1 DEF Linked
  <2> QED BY <1>2, <2>2 DEF Chained, FoundPC, FreshPC
<1>13. Held(pc[p], db[p], call[p])'
  BY <1>1, <1>2, <1>4, <1>7 DEF Held
<1>14. pc'[p] \notin FreshPC /\ pc[p] \notin BlankedPC /\ x \notin Linked'
  BY <1>2, <1>8 DEF FreshPC, BlankedPC, Linked
<1> QED BY <1>10, <1>11, <1>12, <1>13, <1>14, FrameKeepsMap

\* db_store links its record to the chain.
LEMMA StoreWriteChainMap ==
  ASSUME GoodInv, GoodInv', MapInv, NEW p \in Proc, StoreWriteChain(p)
  PROVE  Carries(p)
<1>1. /\ Moved(p, "s_write_chain", "unlock") /\ UNCHANGED <<rec, ieof, dat, deof>>
      /\ \A i \in 0..(ieof - 1) : i # Chain(p) => ptr'[i] = ptr[i]
  BY StoreDoes DEF GoodInv
<1>2. /\ OnlyBy(p) /\ pc[p] = "s_write_chain" /\ pc'[p] = "unlock" /\ call'[p] = call[p]
      /\ p \in alive /\ CallOK(p)
  BY <1>1, GoodFacts DEF Moved, OnlyBy
<1>3. Views /\ Views' /\ LooseOnce
  BY ViewsHoldAfter, GoodFacts DEF GoodInv
<1>4. PICK x : x = db[p].idxoff
  OBVIOUS
<1>5. LooseBy(p) /\ ~LooseBy(p)'
  BY <1>2 DEF LooseBy, LoosePC
<1>6. LS' = LS \ {x}
  BY <1>2, <1>3, <1>4, <1>5, LooseAfter
<1>7. x \in Recs /\ x \in LS /\ Owns(p, x) /\ x \notin Linked
  BY <1>2, <1>4, <1>5, OwnRecord
<1>8. Owns(p, Chain(p))
  <2>1. Chain(p) \in Cells(LS, ieof) /\ LO[Chain(p)] = Chain(p)
    BY <1>2, <1>3, Sizes DEF Views, ChainPC
  <2> QED BY <1>2, <2>1 DEF Owns, ChainPC, CallOK, StorePC
<1>9. PICK X : X = {x}
  OBVIOUS
<1>10. Touches(p, X) /\ Recs' = Recs
  BY <1>1, <1>2, <1>4, <1>6, <1>7, <1>8, <1>9, PointerWritten
<1>11. Chained(pc[p], db[p], call[p])' /\ Held(pc[p], db[p], call[p])'
  BY <1>2 DEF Chained, Held, Reusing, FoundPC, AbsentPC, StorePC, FreshPC
<1>12. pc'[p] \notin FreshPC /\ pc[p] \notin BlankedPC
  BY <1>2 DEF FreshPC, BlankedPC
<1> QED BY <1>7, <1>9, <1>10, <1>11, <1>12, FrameKeepsMap

\* _db_dodelete blanks the index record.
LEMMA DelWriteIdxMap ==
  ASSUME GoodInv, GoodInv', MapInv, SizesKept, NEW p \in Proc, DelWriteIdx(p)
  PROVE  Carries(p)
<1>1. /\ Moved(p, "d_write_idx", "d_write_free") /\ UNCHANGED <<ieof, dat, deof>>
      /\ db'[p].idxoff = db[p].idxoff
      /\ \A i \in 0..(ieof - 1) : i # db[p].idxoff => ptr'[i] = ptr[i]
      /\ \A i \in Recs : i # db[p].idxoff => rec'[i] = rec[i]
  BY DeleteDoes DEF GoodInv, Keeps, Recs
<1>2. /\ OnlyBy(p) /\ pc[p] = "d_write_idx" /\ pc'[p] = "d_write_free" /\ call'[p] = call[p]
      /\ p \in alive /\ p \in alive' /\ CallOK(p)
  BY <1>1, GoodFacts DEF Moved, OnlyBy
<1>3. Views /\ Views' /\ LooseOnce /\ ieof \in Nat
  BY ViewsHoldAfter, GoodFacts DEF GoodInv
<1>4. PICK x : x = db[p].idxoff
  OBVIOUS
<1>5. call[p].op # "fetch" /\ pc[p] \in FoundPC
  BY <1>2 DEF CallOK, DelPC, FoundPC
<1>6. /\ x \in Linked /\ x \in Recs /\ Owns(p, x) /\ rec[x].key = call[p].key
      /\ call[p].key # Blank
  BY <1>2, <1>4, <1>5, OwnRecord
<1>7. LS' = LS \cup {x}
  <2>1. ~LooseBy(p) /\ LooseBy(p)'
    BY <1>2 DEF LooseBy, LoosePC
  <2> QED BY <1>1, <1>2, <1>3, <1>4, <2>1, LooseAfter
<1>8. \A i \in Recs : rec'[i].datoff = rec[i].datoff
  BY GoodFacts DEF SizesKept
<1>9. Recs' = Recs /\ x \notin Linked' /\ \A i \in Linked' : i \in Linked /\ i # x
  BY <1>1, <1>7 DEF Recs, Linked
<1>10. PICK X : X = {x}
  OBVIOUS
<1>11. Touches(p, X)
  <2>1. pc[p] \in FreePC
    BY <1>2 DEF FreePC
  <2> QED BY <1>1, <1>2, <1>3, <1>4, <1>6, <1>7, <1>8, <1>9, <1>10, <2>1 DEF Touches
<1>12. Chained(pc[p], db[p], call[p])'
  <2>1. ASSUME NEW i \in Linked' PROVE rec'[i].key # call'[p].key
    <3>1. i \in Linked /\ i # x /\ i \in Recs
      BY <1>9 DEF Linked
    <3>2. rec[i].key # call[p].key
      BY <1>6, <3>1 DEF MapInv, OneEach
    <3> QED BY <1>1, <1>2, <1>4, <3>1, <3>2
  <2> QED BY <1>2, <2>1 DEF Chained, FoundPC, FreshPC
<1>13. Held(pc[p], db[p], call[p])'
  BY <1>2 DEF Held, Reusing
<1>14. pc'[p] \notin FreshPC
  BY <1>2 DEF FreshPC
<1> QED BY <1>4, <1>9, <1>10, <1>11, <1>12, <1>13, <1>14, FrameKeepsMap

\* db_store writes its index record over the free record it took.
LEMMA ReuseWriteIdxMap ==
  ASSUME GoodInv, GoodInv', MapInv, NEW p \in Proc, ReuseWriteIdx(p)
  PROVE  Carries(p)
<1>1. /\ \/ Moved(p, "r_write_idx", "s_write_chain") /\ ieof' = ieof
         \/ Moved(p, "a_write_idx", "a_unlock_idx")
      /\ UNCHANGED <<dat, deof>> /\ Keeps(db'[p], db[p])
      /\ \A i \in 0..(ieof - 1) : i # db[p].idxoff => ptr'[i] = ptr[i]
      /\ \A i \in Recs : i # db[p].idxoff => rec'[i] = rec[i]
      /\ rec'[db[p].idxoff].key = call[p].key /\ rec'[db[p].idxoff].datoff = db[p].datoff
  BY StoreIdxDoes DEF GoodInv, Recs
<1>2. /\ OnlyBy(p) /\ pc[p] = "r_write_idx" /\ pc'[p] = "s_write_chain" /\ call'[p] = call[p]
      /\ p \in alive /\ ieof' = ieof /\ db'[p].idxoff = db[p].idxoff
      /\ Sized(pc[p], db[p], call[p])
  BY <1>1 DEF Moved, OnlyBy, ReuseWriteIdx, Transition, Keeps, GoodInv, SizeInv
<1>3. Views /\ Views' /\ LooseOnce /\ ieof \in Nat
  BY ViewsHoldAfter, GoodFacts DEF GoodInv
<1>4. PICK x : x = db[p].idxoff
  OBVIOUS
<1>5. LooseBy(p) /\ LooseBy(p)'
  BY <1>2 DEF LooseBy, LoosePC
<1>6. LS' = LS
  BY <1>2, <1>3, <1>5, LooseAfter
<1>7. x \in Recs /\ x \in LS /\ Owns(p, x) /\ x \notin Linked
  BY <1>2, <1>4, <1>5, OwnRecord
<1>8. /\ rec[x].key = Blank /\ dat[db[p].datoff].val = call[p].data
      /\ rec[x].datoff = db[p].datoff
  BY <1>2, <1>4 DEF MapInv, Held, Reusing, Sized, Describes
<1>9. Recs' = Recs /\ Linked' = Linked
  BY <1>2, <1>6 DEF Recs, Linked
<1>10. PICK X : X = {x}
  OBVIOUS
<1>11. Touches(p, X)
  <2>1. \A i \in Recs : rec'[i].datoff = rec[i].datoff
    BY <1>1, <1>4, <1>8
  <2>2. \A i \in Recs : rec[i].key # Blank => rec'[i].key = rec[i].key
    BY <1>1, <1>4, <1>8
  <2> QED BY <1>1, <1>2, <1>3, <1>4, <1>6, <1>7, <1>9, <1>10, <2>1, <2>2 DEF Touches
<1>12. Chained(pc[p], db[p], call[p])'
  <2>1. \A i \in Linked : rec[i].key # call[p].key
    BY <1>2 DEF MapInv, Chained, AbsentPC, StorePC
  <2>2. ASSUME NEW i \in Linked' PROVE rec'[i].key # call'[p].key
    BY <1>1, <1>2, <1>4, <1>7, <1>9, <2>1 DEF Linked
  <2> QED BY <1>2, <2>2 DEF Chained, FoundPC, FreshPC
<1>13. Held(pc[p], db[p], call[p])'
  BY <1>1, <1>2, <1>4, <1>8 DEF Held, Reusing
<1>14. pc'[p] \notin FreshPC /\ pc[p] \notin BlankedPC
  BY <1>2 DEF FreshPC, BlankedPC
<1> QED BY <1>7, <1>10, <1>11, <1>12, <1>13, <1>14, FrameKeepsMap

\* db_store appends its index record.
LEMMA AppendIdxMap ==
  ASSUME GoodInv, GoodInv', MapInv, NEW p \in Proc, AppendIdx(p)
  PROVE  Carries(p)
<1>1. /\ \/ Moved(p, "r_write_idx", "s_write_chain")
         \/ /\ Moved(p, "a_write_idx", "a_unlock_idx") /\ ieof' = ieof + 1
            /\ db[p].idxoff = ieof
      /\ UNCHANGED <<dat, deof>> /\ Keeps(db'[p], db[p])
      /\ \A i \in 0..(ieof - 1) : i # db[p].idxoff => ptr'[i] = ptr[i]
      /\ \A i \in Recs : i # db[p].idxoff => rec'[i] = rec[i]
      /\ rec'[db[p].idxoff].key = call[p].key /\ rec'[db[p].idxoff].datoff = db[p].datoff
  BY StoreIdxDoes DEF GoodInv, Recs
<1>2. /\ OnlyBy(p) /\ pc[p] = "a_write_idx" /\ pc'[p] = "a_unlock_idx" /\ call'[p] = call[p]
      /\ p \in alive /\ ieof' = ieof + 1 /\ db[p].idxoff = ieof /\ db'[p].idxoff = ieof
      /\ db'[p].datoff = db[p].datoff
  BY <1>1 DEF Moved, OnlyBy, AppendIdx, Transition, Keeps
<1>3. Views /\ Views' /\ LooseOnce /\ ieof \in Nat /\ FirstRec \in Nat /\ ieof >= FirstRec
  BY ViewsHoldAfter, GoodFacts DEF GoodInv
<1>4. LS' = LS \cup {ieof}
  <2>1. ~LooseBy(p) /\ LooseBy(p)'
    BY <1>2 DEF LooseBy, LoosePC
  <2> QED BY <1>2, <1>3, <2>1, LooseAfter
<1>5. PICK e : e = ieof
  OBVIOUS
<1>6. /\ \A i \in Recs : i # e
      /\ \A i \in Recs' : i \in Recs \/ i = e
      /\ \A i \in 0..(ieof - 1) : i # e
  <2>1. Recs = FirstRec..(e - 1) /\ Recs' = FirstRec..((e + 1) - 1)
    BY <1>2, <1>5 DEF Recs
  <2> QED BY <1>3, <1>5, <2>1
<1>7. \A i \in Linked' : i \in Linked /\ i \in Recs
  BY <1>4, <1>5, <1>6 DEF Linked
<1>8. /\ \A i \in Recs : rec'[i] = rec[i] /\ (i \in LS' <=> i \in LS)
      /\ \A i \in 0..(ieof - 1) : ptr'[i] = ptr[i]
  BY <1>1, <1>2, <1>4, <1>5, <1>6
<1>9. ieof' >= ieof
  BY <1>2, <1>3
<1>10. PICK X : X = {}
  OBVIOUS
<1>11. Touches(p, X)
  <2>1. \A i \in Recs' :
          \/ i \in Recs
          \/ /\ i \in LS' /\ pc[p] = "a_write_idx" /\ i = ieof
             /\ rec'[i].datoff = db[p].datoff
    BY <1>1, <1>2, <1>4, <1>5, <1>6
  <2> QED BY <1>1, <1>2, <1>8, <1>9, <1>10, <2>1 DEF Touches
<1>12. Chained(pc[p], db[p], call[p]) /\ pc[p] \in FreshPC
  BY <1>2 DEF MapInv, FreshPC
<1>13. Chained(pc[p], db[p], call[p])'
  <2>1. \A i \in Linked : rec[i].key # call[p].key
    BY <1>2, <1>12 DEF Chained, AbsentPC, StorePC
  <2>2. ASSUME NEW i \in Linked' PROVE rec'[i].key # call'[p].key
    BY <1>2, <1>7, <1>8, <2>1
  <2> QED BY <1>2, <2>2 DEF Chained, FoundPC, FreshPC
<1>14. Held(pc[p], db[p], call[p])'
  BY <1>1, <1>2, <1>12 DEF Held, Reusing, Chained
<1>15. pc'[p] \notin FreshPC /\ pc[p] \notin BlankedPC
  BY <1>2 DEF FreshPC, BlankedPC
<1> QED BY <1>10, <1>11, <1>13, <1>14, <1>15, FrameKeepsMap

\* _db_dodelete.
LEMMA DoDeleteKeepsMap ==
  ASSUME GoodInv, GoodInv', MapInv, SizesKept, NEW p \in Proc, DoDelete(p)
  PROVE  Carries(p)
<1>1. CASE DelLockFree(p)
  <2>1. Moved(p, "d_lock_free", "d_write_dat") /\ Still /\ db'[p] = db[p]
    BY <1>1, FreeDoes DEF GoodInv
  <2> QED BY <2>1, SameKeepsMap DEF FoundPC, AbsentPC, StorePC, FreshPC, BlankedPC, Reusing,
             HasLoose, LoosePC
<1>2. CASE DelReadFree(p)
  <2>1. Moved(p, "d_read_free", "d_write_idx") /\ Still /\ Keeps(db'[p], db[p])
    BY <1>2, FreeDoes DEF GoodInv
  <2> QED BY <2>1, SameKeepsMap DEF FoundPC, AbsentPC, StorePC, FreshPC, BlankedPC, Reusing,
             HasLoose, LoosePC, Keeps
<1>3. CASE DelUnlockFree(p)
  <2>1. PICK to \in {"unlock", "s_read_chain"} :
          Moved(p, "d_unlock_free", to) /\ Still /\ db'[p] = db[p]
    BY <1>3, FreeDoes DEF GoodInv
  <2> QED BY <2>1, SameKeepsMap DEF FoundPC, AbsentPC, StorePC, FreshPC, BlankedPC, Reusing,
             HasLoose, LoosePC
<1> QED BY <1>1, <1>2, <1>3, DelWriteDatMap, DelWriteIdxMap, DelWriteFreeMap, DelWritePtrMap
        DEF DoDelete

\* _db_findfree.
LEMMA FindFreeKeepsMap ==
  ASSUME GoodInv, GoodInv', MapInv, NEW p \in Proc, FindFree(p)
  PROVE  Carries(p)
<1>1. CASE FreeLock(p) \/ FreeRead(p)
  <2>1. PICK from, to : /\ Moved(p, from, to) /\ Still /\ from \in {"f_lock", "f_read"}
                        /\ to \in {"f_read", "f_walk"}
    BY <1>1, FreeDoes DEF GoodInv
  <2> QED BY <2>1, SameKeepsMap DEF FoundPC, AbsentPC, StorePC, FreshPC, BlankedPC, Reusing,
             HasLoose, LoosePC
<1>2. CASE FreeUnlock(p)
  <2>1. /\ Moved(p, "f_unlock", IF db[p].offset = 0 THEN "a_lock_dat" ELSE "r_write_dat")
        /\ Still /\ db'[p] = db[p]
    BY <1>2, FreeDoes DEF GoodInv
  <2> QED BY <2>1, SameKeepsMap DEF FoundPC, AbsentPC, StorePC, FreshPC, BlankedPC, Reusing,
             HasLoose, LoosePC
<1>3. CASE FreeWalk(p)
  <2>1. /\ Still
        /\ \/ Moved(p, "f_walk", "f_walk")
           \/ Moved(p, "f_walk", "f_unlink") /\ db[p].offset # 0 /\ db'[p].idxoff = db[p].offset
           \/ Moved(p, "f_walk", "f_unlock") /\ db'[p].offset = 0
    BY <1>3, FreeDoes DEF GoodInv
  <2>2. CASE Moved(p, "f_walk", "f_walk")
    BY <2>1, <2>2, SameKeepsMap DEF FoundPC, AbsentPC, StorePC, FreshPC, BlankedPC, Reusing,
       HasLoose, LoosePC
  <2>3. CASE Moved(p, "f_walk", "f_unlock") /\ db'[p].offset = 0
    BY <2>1, <2>3, SameKeepsMap DEF FoundPC, AbsentPC, StorePC, FreshPC, BlankedPC, Reusing,
       HasLoose, LoosePC
  <2>4. CASE Moved(p, "f_walk", "f_unlink") /\ db[p].offset # 0 /\ db'[p].idxoff = db[p].offset
    <3>1. /\ OnlyBy(p) /\ pc[p] = "f_walk" /\ pc'[p] = "f_unlink" /\ p \in alive
          /\ call'[p] = call[p] /\ Known(p)
      BY <2>4 DEF Moved, OnlyBy, GoodInv, ListsKnown
    <3>2. /\ db[p].save \in Cells(LS, ieof) /\ LO[db[p].save] = 0
          /\ NX[db[p].save] = db[p].offset
      BY <3>1 DEF Known, Knows, On
    <3>3. rec[db'[p].idxoff].key = Blank
      BY <2>4, <3>2, FreeRecord
    <3>4. Held(pc'[p], db'[p], call'[p])
      BY <3>1, <3>3 DEF Held
    <3>5. Chained(pc[p], db[p], call[p])
      BY <3>1 DEF MapInv
    <3>6. Chained(pc'[p], db'[p], call'[p])
      BY <3>1, <3>5 DEF Chained, FoundPC, AbsentPC, StorePC, FreshPC
    <3>7. ~LooseBy(p) /\ ~LooseBy(p)' /\ pc'[p] \notin FreshPC /\ pc[p] \notin BlankedPC
      BY <3>1 DEF LooseBy, LoosePC, FreshPC, BlankedPC
    <3> QED BY <2>1, <3>1, <3>4, <3>6, <3>7, QuietKeepsMap
  <2> QED BY <2>1, <2>2, <2>3, <2>4
<1> QED BY <1>1, <1>2, <1>3, FreeUnlinkMap DEF FindFree

\* db_store of a new record.
LEMMA StoreNewKeepsMap ==
  ASSUME GoodInv, GoodInv', MapInv, NEW p \in Proc, StoreNew(p)
  PROVE  Carries(p) \/ (Die(p) /\ MapInv')
<1>1. IndInv
  BY DEF GoodInv
<1>2. CASE StoreReadChain(p)
  <2>1. PICK to \in {"a_lock_dat", "f_lock"} : Moved(p, "s_read_chain", to) /\ Still
    BY <1>1, <1>2, StoreReads
  <2> QED BY <2>1, SameKeepsMap DEF FoundPC, AbsentPC, StorePC, FreshPC, BlankedPC, Reusing,
             HasLoose, LoosePC
<1>3. CASE LockDat(p)
  <2>1. Moved(p, "a_lock_dat", "a_seek_dat") /\ Still
    BY <1>1, <1>3, StoreReads
  <2> QED BY <2>1, SameKeepsMap DEF FoundPC, AbsentPC, StorePC, FreshPC, BlankedPC, Reusing,
             HasLoose, LoosePC
<1>4. CASE SeekDat(p)
  <2>1. Moved(p, "a_seek_dat", "a_write_dat") /\ Still
    BY <1>1, <1>4, StoreReads
  <2> QED BY <2>1, SameKeepsMap DEF FoundPC, AbsentPC, StorePC, FreshPC, BlankedPC, Reusing,
             HasLoose, LoosePC
<1>5. CASE UnlockDat(p)
  <2>1. Moved(p, "a_unlock_dat", "a_lock_idx") /\ Still /\ db'[p] = db[p]
    BY <1>1, <1>5, StoreReads
  <2> QED BY <2>1, SameKeepsMap DEF FoundPC, AbsentPC, StorePC, FreshPC, BlankedPC, Reusing,
             HasLoose, LoosePC
<1>6. CASE LockIdx(p)
  <2>1. Moved(p, "a_lock_idx", "a_seek_idx") /\ Still /\ db'[p] = db[p]
    BY <1>1, <1>6, StoreReads
  <2> QED BY <2>1, SameKeepsMap DEF FoundPC, AbsentPC, StorePC, FreshPC, BlankedPC, Reusing,
             HasLoose, LoosePC
<1>7. CASE SeekIdx(p)
  <2>1. Moved(p, "a_seek_idx", "a_write_idx") /\ Still /\ db'[p].datoff = db[p].datoff
    BY <1>1, <1>7, StoreReads
  <2> QED BY <2>1, SameKeepsMap DEF FoundPC, AbsentPC, StorePC, FreshPC, BlankedPC, Reusing,
             HasLoose, LoosePC
<1>8. CASE UnlockIdx(p)
  <2>1. Moved(p, "a_unlock_idx", "s_write_chain") /\ Still /\ db'[p] = db[p]
    BY <1>1, <1>8, StoreReads
  <2> QED BY <2>1, SameKeepsMap DEF FoundPC, AbsentPC, StorePC, FreshPC, BlankedPC, Reusing,
             HasLoose, LoosePC
<1>9. CASE StorePtrOverflow(p)
  BY <1>9, DeathKeepsMap DEF StorePtrOverflow
<1> QED BY <1>2, <1>3, <1>4, <1>5, <1>6, <1>7, <1>8, <1>9, ReuseWriteDatMap, ReuseWriteIdxMap,
        AppendDatMap, AppendIdxMap, StoreWriteChainMap, OverwriteDatMap DEF StoreNew

\* A process that is not killed dies only where the code aborts it.
LEMMA RestTheorem == ASSUME Crashable = {} PROVE Spec => []AtRest
<1>1. Init => AtRest
  BY DEF Init, AtRest
<1>2. IndInv /\ AtRest /\ [Next]_vars => AtRest'
  <2> SUFFICES ASSUME IndInv, AtRest, [Next]_vars PROVE AtRest'
    OBVIOUS
  <2>1. ASSUME NEW p \in Proc, Invoke(p) \/ Step(p) \/ Crash(p) PROVE AtRest'
    BY <2>1, Deaths DEF Rests, AtRest
  <2>2. CASE UNCHANGED vars
    BY <2>2 DEF vars, AtRest
  <2> QED BY <2>1, <2>2 DEF Next, Finished
<1>3. ControlInv /\ FilesInv => IndInv
  BY DEF IndInv
<1> QED BY <1>1, <1>2, <1>3, ControlTheorem, FilesTheorem, PTL DEF Spec

\* Every step of a process that is not killed.
LEMMA CallKeepsMap ==
  ASSUME GoodInv, GoodInv', MapInv, SizesKept, NEW p \in Proc, Invoke(p) \/ Step(p)
  PROVE  Carries(p) \/ (Die(p) /\ MapInv')
BY InvokeKeepsMap, FindKeepsMap, DoDeleteKeepsMap, FindFreeKeepsMap, StoreNewKeepsMap,
   NextrecKeepsMap DEF Step

\* Nobody dies but of his own call.
LEMMA StepKeepsMap ==
  ASSUME Crashable = {}, GoodInv, GoodInv', MapInv, [Next]_vars
  PROVE  MapInv'
<1>1. SizesKept
  BY StepKeepsSizes DEF GoodInv
<1>2. ASSUME NEW p \in Proc, Invoke(p) \/ Step(p) PROVE MapInv'
  BY <1>1, <1>2, CallKeepsMap DEF Carries
<1>3. CASE UNCHANGED vars
  <2>1. /\ ptr' = ptr /\ rec' = rec /\ ieof' = ieof /\ dat' = dat /\ pc' = pc
        /\ call' = call /\ db' = db /\ alive' = alive
    BY <1>3 DEF vars
  <2>2. LS' = LS
    BY <2>1 DEF LS, Loose
  <2>3. LO' = LO
    BY <2>1 DEF LO, ListOf
  <2>4. Recs' = Recs /\ Linked' = Linked
    BY <2>1, <2>2 DEF Recs, Linked
  <2>5. OneEach' /\ OwnSlots' /\ NewSlots' /\ Filled'
    BY <2>1, <2>4 DEF MapInv, OneEach, OwnSlots, NewSlots, Filled
  <2>6. ASSUME NEW q \in alive PROVE Chained(pc[q], db[q], call[q])'
    <3>1. Chained(pc[q], db[q], call[q])
      BY DEF MapInv
    <3> QED BY <2>1, <2>2, <2>3, <2>4, <3>1 DEF Chained, Passed
  <2>7. \A q \in Proc : Held(pc[q], db[q], call[q])'
    BY <2>1 DEF MapInv, Held, Reusing
  <2> QED BY <2>1, <2>5, <2>6, <2>7 DEF MapInv
<1> QED BY <1>2, <1>3 DEF Next, Finished, Crash

\* An empty database.
LEMMA InitMap == Init => MapInv
<1> SUFFICES ASSUME Init PROVE MapInv
  OBVIOUS
<1>1. Recs = {} /\ \A p \in Proc : pc[p] = "idle"
  BY Sizes DEF Init, Recs
<1>2. Linked = {}
  BY <1>1 DEF Linked
<1>3. alive = Proc
  BY DEF Init
<1>4. OneEach /\ OwnSlots /\ NewSlots /\ Filled
  BY <1>1, <1>2 DEF OneEach, OwnSlots, NewSlots, Filled, FreshPC
<1>5. ASSUME NEW p \in Proc PROVE Chained(pc[p], db[p], call[p]) /\ Held(pc[p], db[p], call[p])
  BY <1>1, <1>3 DEF Chained, Held, Reusing, FoundPC, AbsentPC, StorePC, FreshPC
<1> QED BY <1>3, <1>4, <1>5 DEF MapInv

(***************************************************************************)
(* When nobody is killed, the two files agree at every instant: a key is   *)
(* stored in one record, no two records share a data record, and what      *)
(* _db_find_and_lock has found out about a key, that it is stored in the   *)
(* record at db->idxoff or that no record has it, is still true when       *)
(* _db_dodelete, _db_findfree and db_store act on it.                      *)
(***************************************************************************)
THEOREM MapTheorem == Crashable = {} => (Spec => [](GoodInv /\ MapInv))
<1> SUFFICES ASSUME Crashable = {} PROVE Spec => [](GoodInv /\ MapInv)
  OBVIOUS
<1>1. Spec => []AtRest
  BY RestTheorem
<1>2. ControlInv /\ FilesInv /\ SizeInv /\ TalkInv /\ ListInv /\ AtRest => GoodInv
  BY DEF GoodInv, IndInv, ListInv, Clean, AtRest
<1>3. Spec => []GoodInv
  BY <1>1, <1>2, ControlTheorem, FilesTheorem, SizeTheorem, TalkTheorem, ListTheorem, PTL
<1>4. GoodInv /\ GoodInv' /\ MapInv /\ [Next]_vars => MapInv'
  BY StepKeepsMap
<1> QED BY <1>3, <1>4, InitMap, PTL DEF Spec

-----------------------------------------------------------------------------
(***************************************************************************)
(* The map.  Its value for a key is the data of the process that replaces  *)
(* the key, if there is one, and otherwise that of the record linked with  *)
(* the key.                                                                *)
(***************************************************************************)
\* A list and its head have no more members than the walk of Members visits.
LEMMA ListIsFinite ==
  ASSUME NEW e \in Nat, e >= FirstRec, NEW c, NEW D,
         \A j \in D : j = c \/ j \in FirstRec..(e - 1)
  PROVE  IsFiniteSet(D) /\ Cardinality(D) <= (e - FirstRec) + 1
<1>1. FirstRec \in Nat
  BY Sizes
<1>2. PICK M : M = e - FirstRec
  OBVIOUS
<1>3. PICK E : E = FirstRec..(e - 1)
  OBVIOUS
<1>4. IsFiniteSet(E) /\ Cardinality(E) = M /\ M \in Nat
  <2>1. PICK a : a = FirstRec
    OBVIOUS
  <2>2. PICK b : b = e - 1
    OBVIOUS
  <2>3. a \in Int /\ b \in Int /\ M \in Nat /\ M = IF a > b THEN 0 ELSE (b - a) + 1
    BY <1>1, <1>2, <2>1, <2>2
  <2>4. E = a..b
    BY <1>3, <2>1, <2>2
  <2> QED BY <2>3, <2>4, FS_Interval
<1>5. /\ IsFiniteSet(E \cup {c})
      /\ Cardinality(E \cup {c}) = IF c \in E THEN Cardinality(E) ELSE Cardinality(E) + 1
  BY <1>4, FS_AddElement, Zenon
<1>6. Cardinality(E \cup {c}) <= M + 1
  BY <1>4, <1>5
<1>7. D \in SUBSET (E \cup {c})
  BY <1>3
<1>8. IsFiniteSet(D) /\ Cardinality(D) <= Cardinality(E \cup {c})
  BY <1>5, <1>7, FS_Subset
<1> QED BY <1>2, <1>4, <1>5, <1>6, <1>8, FS_CardinalityType

\* The records reached from the head of a chain are those linked with it.
LEMMA MembersAre ==
  ASSUME GoodInv, NEW c \in 0..NHash, NEW i
  PROVE  i \in Members(c) <=> i \in Linked /\ LO[i] = c
<1>1. /\ Shape(NX, LO, LS, ieof) /\ Views /\ FirstRec \in Nat /\ ieof \in Nat
      /\ ieof >= FirstRec
  BY ViewsHold, Sizes DEF GoodInv, ListsKnown, Views
<1>2. c \in Cells(LS, ieof) /\ LO[c] = c /\ \A o \in 0..NHash : LO[o] = o
  BY <1>1 DEF Views
<1>3. ~(c >= FirstRec)
  BY Sizes
<1>4. PICK M : M = ieof - FirstRec
  OBVIOUS
<1>5. M \in Nat /\ DOMAIN ptr = 0..(ieof - 1)
  BY <1>1, <1>4 DEF GoodInv, IndInv, FilesInv, FilesFit, FileType, FREE_OFF
<1>6. [o \in DOMAIN ptr |-> EffPtr(o)] = NX
  BY <1>5 DEF NX
<1>7. PICK R : Follows(R, NX, c, M) /\ Members(c) = R[M] \ {c}
  BY <1>4, <1>5, <1>6, MembersWalk
<1>8. PICK D : D = {c} \cup {j \in Linked : LO[j] = c}
  OBVIOUS
<1>9. \A j \in D : j = c \/ j \in FirstRec..(ieof - 1)
  BY <1>8 DEF Linked, Recs
<1>10. IsFiniteSet(D) /\ Cardinality(D) <= M + 1
  BY <1>1, <1>4, <1>9, ListIsFinite
<1>11. ClosedUnder(D, NX)
  <2>1. ASSUME NEW o \in D, NX[o] # 0 PROVE NX[o] \in D
    <3>1. o \in Cells(LS, ieof) /\ LO[o] = c
      BY <1>2, <1>8, LinkedFacts
    <3>2. NX[o] \in FirstRec..(ieof - 1) /\ NX[o] \notin LS /\ LO[NX[o]] = c
      BY <1>1, <2>1, <3>1 DEF Shape, Apart
    <3> QED BY <1>8, <3>2 DEF Linked, Recs
  <2> QED BY <2>1 DEF ClosedUnder
<1>12. c \in R[M] /\ R[M] \subseteq D /\ ClosedUnder(R[M], NX)
  <2>1. c \in D /\ Follows(R, NX, c, M) /\ M \in Nat
    BY <1>5, <1>7, <1>8
  <2> QED BY <1>10, <1>11, <2>1, WalkCloses, Zenon
<1>13. ASSUME i \in Linked, LO[i] = c PROVE i \in Members(c)
  <2>1. i \in FirstRec..(ieof - 1) /\ i \notin LS /\ i >= FirstRec
    BY <1>1, <1>13 DEF Linked, Recs
  <2>2. i \in R[M]
    BY <1>1, <1>2, <1>12, <1>13, <2>1, WalkReaches
  <2> QED BY <1>3, <1>7, <2>1, <2>2
<1>14. ASSUME i \in Members(c) PROVE i \in Linked /\ LO[i] = c
  BY <1>7, <1>8, <1>12, <1>14
<1> QED BY <1>13, <1>14

\* A process that is replacing a key.
LEMMA ReplacedFacts ==
  ASSUME GoodInv, NEW p \in Proc, Replaced(p)
  PROVE  /\ p \in alive /\ pc[p] \in ChainPC /\ call[p].op \in {"delete", "store"}
         /\ call[p].key \in Key /\ db[p].found
         /\ pc[p] \in BlankedPC \cup AbsentPC
<1>1. Talks(pc[p], db[p], call[p]) /\ CallOK(p)
  BY GoodFacts
<1>2. /\ p \in alive /\ db[p].found
      /\ pc[p] \in ChainPC \ {"walk", "read_dat", "unlock", "d_lock_free",
                              "d_write_dat", "o_write_dat"}
  BY DEF Replaced
<1>3. pc[p] # "read_chain"
  BY <1>1, <1>2 DEF Talks
<1>4. pc[p] \in BlankedPC \cup AbsentPC
  BY <1>2, <1>3 DEF ChainPC, BlankedPC, AbsentPC, StorePC
<1>5. call[p].op \in {"delete", "store"} /\ call[p].key \in Key
  BY <1>1, <1>2, <1>4 DEF CallOK, KeyedPC, BlankedPC, AbsentPC, DelPC
<1> QED BY <1>2, <1>4, <1>5

\* Nobody else is in its chain.
LEMMA ReplacesAlone ==
  ASSUME GoodInv, NEW p \in Proc, Replaced(p), NEW q \in alive, pc[q] \in ChainPC,
         call[q].key = call[p].key
  PROVE  p = q
<1>1. /\ p \in alive /\ pc[p] \in ChainPC /\ call[p].op # "fetch" /\ MutualExclusion
  BY ReplacedFacts, GoodFacts
<1> QED BY <1>1 DEF MutualExclusion, Chain

\* What the map shows.
Replacing(p, k) == Replaced(p) /\ call[p].key = k
Shows(k, d) ==
  \/ \E p \in Proc : Replacing(p, k) /\ d = call[p].data
  \/ /\ \A p \in Proc : ~Replacing(p, k)
     /\ \/ \E i \in Linked : rec[i].key = k /\ d = dat[rec[i].datoff].val /\ d \in Data
        \/ (\A i \in Linked : rec[i].key # k) /\ d = NoData
MapShown ==
  /\ DOMAIN AbsMap = Key /\ AbsMap = [k \in Key |-> AbsMap[k]]
  /\ \A k \in Key : \A d : Shows(k, d) <=> AbsMap[k] = d

\* A key has one value.
LEMMA ShowsOne ==
  ASSUME GoodInv, MapInv, NEW k \in Key, NEW d, NEW e, Shows(k, d), Shows(k, e)
  PROVE  d = e
<1>1. k # Blank
  BY ArgAssumption
<1>2. \A p, q \in Proc : Replacing(p, k) /\ Replacing(q, k) => p = q
  BY ReplacesAlone, ReplacedFacts DEF Replacing
<1>3. \A i, j \in Linked : rec[i].key = k /\ rec[j].key = k => i = j
  BY <1>1 DEF MapInv, OneEach
<1> QED BY <1>2, <1>3 DEF Shows

\* A key that nobody is replacing has data if it is linked.
LEMMA LinkedHasData ==
  ASSUME GoodInv, MapInv, NEW k \in Key, \A p \in Proc : ~Replacing(p, k),
         NEW i \in Linked, rec[i].key = k
  PROVE  dat[rec[i].datoff].val \in Data
<1>1. k # Blank
  BY ArgAssumption
<1>2. ASSUME NEW p \in alive, pc[p] \in BlankedPC, db[p].idxoff = i PROVE FALSE
  <2>1. p \in Proc
    BY DEF GoodInv, IndInv, ControlInv, ControlType
  <2>2. db[p].found /\ call[p].key = k
    BY <1>2, <2>1, GoodFacts DEF Talks, BlankedPC, DelPC, MapInv, Chained, FoundPC
  <2>3. Replacing(p, k)
    BY <1>2, <2>2 DEF Replacing, Replaced, BlankedPC, ChainPC
  <2> QED BY <2>1, <2>3
<1> QED BY <1>1, <1>2 DEF MapInv, Filled

\* The map of the refinement is the one the invariants describe.
LEMMA Shown == GoodInv /\ MapInv => MapShown
<1> SUFFICES ASSUME GoodInv, MapInv PROVE MapShown
  OBVIOUS
<1>1. DOMAIN AbsMap = Key /\ AbsMap = [k \in Key |-> AbsMap[k]]
  BY DEF AbsMap
<1>2. ASSUME NEW k \in Key PROVE Shows(k, AbsMap[k])
  <2>1. PICK W : W = {p \in Proc : Replaced(p) /\ call[p].key = k}
    OBVIOUS
  <2>2. PICK L : L = {i \in Members(Hash[k]) : rec[i].key = k}
    OBVIOUS
  <2>3. AbsMap[k] = IF W # {} THEN call[CHOOSE p \in W : TRUE].data
                    ELSE IF L # {} THEN dat[rec[CHOOSE i \in L : TRUE].datoff].val
                    ELSE NoData
    BY <2>1, <2>2 DEF AbsMap
  <2>4. ASSUME NEW i PROVE i \in L <=> i \in Linked /\ rec[i].key = k
    <3>1. Hash[k] \in 0..NHash /\ k # Blank
      BY ArgAssumption, Sizes
    <3>2. i \in Members(Hash[k]) <=> i \in Linked /\ LO[i] = Hash[k]
      BY <3>1, MembersAre
    <3>3. i \in Linked /\ rec[i].key = k => LO[i] = Hash[k]
      BY <3>1, LinkedFacts
    <3> QED BY <2>2, <3>2, <3>3
  <2>5. CASE W # {}
    <3>1. PICK w : w = CHOOSE p \in W : TRUE
      OBVIOUS
    <3>2. w \in W
      BY <2>5, <3>1
    <3>3. AbsMap[k] = call[w].data
      BY <2>3, <2>5, <3>1
    <3> QED BY <2>1, <3>2, <3>3 DEF Shows, Replacing
  <2>6. CASE W = {}
    <3>1. \A p \in Proc : ~Replacing(p, k)
      BY <2>1, <2>6 DEF Replacing
    <3>2. CASE L # {}
      <4>1. PICK j : j = CHOOSE i \in L : TRUE
        OBVIOUS
      <4>2. j \in Linked /\ rec[j].key = k
        BY <2>4, <3>2, <4>1
      <4>3. AbsMap[k] = dat[rec[j].datoff].val
        BY <2>3, <2>6, <3>2, <4>1
      <4>4. dat[rec[j].datoff].val \in Data
        BY <3>1, <4>2, LinkedHasData
      <4> QED BY <3>1, <4>2, <4>3, <4>4 DEF Shows
    <3>3. CASE L = {}
      <4>1. AbsMap[k] = NoData
        BY <2>3, <2>6, <3>3
      <4> QED BY <2>4, <3>1, <3>3, <4>1 DEF Shows
    <3> QED BY <3>2, <3>3
  <2> QED BY <2>5, <2>6
<1>3. \A k \in Key : \A d : Shows(k, d) <=> AbsMap[k] = d
  BY <1>2, ShowsOne
<1> QED BY <1>1, <1>3 DEF MapShown

\* The same, after a step.
LEMMA ShownAfter == GoodInv' /\ MapInv' => MapShown'
<1>1. GoodInv /\ MapInv => MapShown
  BY Shown
<1> QED BY <1>1, PTL

\* A step of p leaves the keys alone that p does not work on.
LEMMA ElseKept ==
  ASSUME GoodInv, GoodInv', MapInv, MapShown, MapShown', NEW p \in Proc, NEW X, Touches(p, X),
         NEW k \in Key, k # call[p].key, ~Replacing(p, k)'
  PROVE  AbsMap'[k] = AbsMap[k]
<1>1. PICK d : d = AbsMap[k]
  OBVIOUS
<1>2. Shows(k, d) /\ k # Blank
  BY <1>1, ArgAssumption DEF MapShown
<1>3. /\ \A q \in Proc : q # p => (Replacing(q, k)' <=> Replacing(q, k)) /\ call'[q] = call[q]
      /\ ~Replacing(p, k)
  BY DEF Touches, OnlyBy, Replacing, Replaced
<1>4. ieof \in Nat /\ ieof' \in Nat /\ ieof' >= ieof
  BY ViewsHold, ViewsHoldAfter DEF GoodInv, Views, Touches
<1>5. ASSUME \E q \in Proc : Replacing(q, k) /\ d = call[q].data PROVE Shows(k, d)'
  BY <1>3, <1>5 DEF Shows
<1>6. ASSUME \A q \in Proc : ~Replacing(q, k)
      PROVE  \A q \in Proc : ~Replacing(q, k)'
  BY <1>3, <1>6
<1>7. ASSUME \A q \in Proc : ~Replacing(q, k),
             NEW i \in Linked, rec[i].key = k, d = dat[rec[i].datoff].val, d \in Data
      PROVE  Shows(k, d)'
  <2>1. i \in Recs /\ i \notin LS
    BY DEF Linked
  <2>2. i \notin X
    BY <1>2, <1>7, <2>1 DEF Touches
  <2>3. /\ rec'[i] = rec[i] /\ i \notin LS' /\ dat'[rec[i].datoff] = dat[rec[i].datoff]
    BY <2>1, <2>2 DEF Touches
  <2>4. i \in Linked'
    BY <1>4, <2>1, <2>3, RecsStay DEF Linked
  <2> QED BY <1>6, <1>7, <2>3, <2>4 DEF Shows
<1>8. ASSUME \A q \in Proc : ~Replacing(q, k), \A i \in Linked : rec[i].key # k, d = NoData
      PROVE  Shows(k, d)'
  <2>1. ASSUME NEW i \in Linked', rec'[i].key = k PROVE FALSE
    <3>1. /\ pc[p] = "s_write_chain" /\ i = db[p].idxoff /\ rec'[i] = rec[i]
      BY <1>2, <1>8, <2>1, LinkedBefore
    <3> QED BY <2>1, <3>1 DEF MapInv, Held
  <2> QED BY <1>6, <1>8, <2>1 DEF Shows
<1>9. Shows(k, d)'
  BY <1>2, <1>5, <1>7, <1>8 DEF Shows
<1> QED BY <1>1, <1>9 DEF MapShown

\* Two maps with the same values.
LEMMA SameMap ==
  ASSUME MapShown, MapShown', \A k \in Key : AbsMap'[k] = AbsMap[k]
  PROVE  AbsMap' = AbsMap
<1>1. PICK m, n : m = AbsMap /\ n = AbsMap'
  OBVIOUS
<1>2. m = [j \in Key |-> m[j]] /\ n = [j \in Key |-> n[j]]
  BY <1>1 DEF MapShown
<1>3. m = n
  BY <1>1, <1>2
<1> QED BY <1>1, <1>3

\* Nor does a step that writes nothing and replaces nothing change the map.
LEMMA StillMap ==
  ASSUME GoodInv, GoodInv', MapShown, MapShown', NEW p \in Proc, OnlyBy(p), Still,
         ~LooseBy(p), ~LooseBy(p)', ~Replaced(p), ~Replaced(p)'
  PROVE  AbsMap' = AbsMap
<1>1. LS' = LS
  BY ViewsHold, ViewsHoldAfter, LooseAfter DEF GoodInv, ListsKnown
<1>2. Linked' = Linked /\ rec' = rec /\ dat' = dat
  BY <1>1 DEF Still, Linked, Recs
<1>3. ASSUME NEW k \in Key PROVE AbsMap'[k] = AbsMap[k]
  <2>1. \A q \in Proc : q # p => (Replacing(q, k)' <=> Replacing(q, k)) /\ call'[q] = call[q]
    BY DEF OnlyBy, Replacing, Replaced
  <2>2. ~Replacing(p, k) /\ ~Replacing(p, k)'
    BY DEF Replacing
  <2>3. Shows(k, AbsMap[k])
    BY DEF MapShown
  <2>4. PICK d : d = AbsMap[k]
    OBVIOUS
  <2>5. Shows(k, d)'
    BY <1>2, <2>1, <2>2, <2>3, <2>4 DEF Shows
  <2> QED BY <2>4, <2>5 DEF MapShown
<1> QED BY <1>3, SameMap

\* Two maps that differ at one key.
LEMMA OneKeySet ==
  ASSUME MapShown, MapShown', NEW k \in Key, \A j \in Key : j # k => AbsMap'[j] = AbsMap[j]
  PROVE  /\ AbsMap' = [AbsMap EXCEPT ![k] = AbsMap'[k]]
         /\ AbsMap'[k] = AbsMap[k] => AbsMap' = AbsMap
<1>1. PICK m, n : m = AbsMap /\ n = AbsMap'
  OBVIOUS
<1>2. m = [j \in Key |-> m[j]] /\ n = [j \in Key |-> n[j]]
  BY <1>1 DEF MapShown
<1>3. n = [m EXCEPT ![k] = n[k]] /\ (n[k] = m[k] => n = m)
  BY <1>1, <1>2
<1> QED BY <1>1, <1>3

\* A step of p inside its call changes the map at most at its key.
LEMMA OwnKeySet ==
  ASSUME GoodInv, GoodInv', MapInv, NEW p \in Proc, Carries(p), call' = call,
         call[p].key \in Key
  PROVE  /\ AbsMap' = [AbsMap EXCEPT ![call[p].key] = AbsMap'[call[p].key]]
         /\ AbsMap'[call[p].key] = AbsMap[call[p].key] => AbsMap' = AbsMap
<1>1. MapShown /\ MapShown'
  BY Shown, ShownAfter DEF Carries
<1>2. PICK X : Touches(p, X)
  BY DEF Carries
<1>3. ASSUME NEW j \in Key, j # call[p].key PROVE AbsMap'[j] = AbsMap[j]
  BY <1>1, <1>2, <1>3, ElseKept DEF Replacing
<1> QED BY <1>1, <1>3, OneKeySet

\* What the map shows a process of its own key.
OwnKey(p) ==
  /\ Replaced(p) => AbsMap[call[p].key] = call[p].data
  /\ ~Replaced(p) =>
       /\ \A i \in Linked : rec[i].key = call[p].key =>
            /\ AbsMap[call[p].key] = dat[rec[i].datoff].val
            /\ dat[rec[i].datoff].val \in Data
       /\ (\A i \in Linked : rec[i].key # call[p].key) => AbsMap[call[p].key] = NoData
OwnKeys == \A p \in alive : pc[p] \in ChainPC => OwnKey(p)

\* The invariants give every process that view.
LEMMA OwnShown == GoodInv /\ MapInv => OwnKeys
<1> SUFFICES ASSUME GoodInv, MapInv, NEW p \in alive, pc[p] \in ChainPC PROVE OwnKey(p)
  BY DEF OwnKeys
<1>1. p \in Proc /\ CallOK(p) /\ MapShown
  BY GoodFacts, Shown DEF GoodInv, IndInv, ControlInv, ControlType
<1>2. PICK k \in Key : k = call[p].key
  BY <1>1 DEF CallOK, KeyedPC
<1>3. ASSUME NEW q \in Proc, Replacing(q, k) PROVE p = q
  BY <1>2, <1>3, ReplacesAlone DEF Replacing
<1>4. ASSUME Replaced(p) PROVE AbsMap[k] = call[p].data
  <2>1. Shows(k, call[p].data)
    BY <1>1, <1>2, <1>4 DEF Shows, Replacing
  <2> QED BY <1>1, <2>1 DEF MapShown
<1>5. ASSUME ~Replaced(p) PROVE \A q \in Proc : ~Replacing(q, k)
  BY <1>3, <1>5 DEF Replacing
<1>6. ASSUME ~Replaced(p), NEW i \in Linked, rec[i].key = k
      PROVE  AbsMap[k] = dat[rec[i].datoff].val /\ dat[rec[i].datoff].val \in Data
  <2>1. dat[rec[i].datoff].val \in Data
    BY <1>5, <1>6, LinkedHasData
  <2>2. Shows(k, dat[rec[i].datoff].val)
    BY <1>5, <1>6, <2>1 DEF Shows
  <2> QED BY <1>1, <2>1, <2>2 DEF MapShown
<1>7. ASSUME ~Replaced(p), \A i \in Linked : rec[i].key # k PROVE AbsMap[k] = NoData
  <2>1. Shows(k, NoData)
    BY <1>5, <1>7 DEF Shows
  <2> QED BY <1>1, <2>1 DEF MapShown
<1> QED BY <1>2, <1>4, <1>6, <1>7 DEF OwnKey

\* The same, after a step.
LEMMA OwnShownAfter == GoodInv' /\ MapInv' => OwnKeys'
<1>1. GoodInv /\ MapInv => OwnKeys
  BY OwnShown
<1> QED BY <1>1, PTL

\* The labels at which a process that has found its key is replacing it.
LEMMA ReplacedWhen ==
  ASSUME GoodInv, NEW p \in alive
  PROVE  Replaced(p) <=> db[p].found /\ pc[p] \in BlankedPC \cup AbsentPC
<1>1. p \in Proc
  BY DEF GoodInv, IndInv, ControlInv, ControlType
<1>2. Replaced(p) => db[p].found /\ pc[p] \in BlankedPC \cup AbsentPC
  BY <1>1, ReplacedFacts
<1> QED BY <1>2 DEF Replaced, BlankedPC, AbsentPC, StorePC, ChainPC
Replacers ==
  \A p \in alive : Replaced(p) <=> db[p].found /\ pc[p] \in BlankedPC \cup AbsentPC
\* The same, after a step.
LEMMA ReplacersAfter == GoodInv' => Replacers'
<1>1. GoodInv => Replacers
  BY ReplacedWhen DEF Replacers
<1> QED BY <1>1, PTL

-----------------------------------------------------------------------------
(***************************************************************************)
(* The steps of the map.                                                   *)
(***************************************************************************)
MapStep == KV!Next \/ UNCHANGED KV!vars
OkReply == Reply("ok", NoKey, NoData)
ErrorReply == Reply("error", NoKey, NoData)

\* A step of p changes no answer but its own.
LEMMA RespSet ==
  ASSUME GoodInv, NEW p \in Proc, OnlyBy(p)
  PROVE  /\ AbsResp[p] = IF Replaced(p) THEN OkReply ELSE db[p].ret
         /\ AbsResp'[p] = IF Replaced(p)' THEN OkReply ELSE db'[p].ret
         /\ AbsResp' = [AbsResp EXCEPT ![p] = AbsResp'[p]]
         /\ AbsResp'[p] = AbsResp[p] => AbsResp' = AbsResp
<1>1. p \in alive /\ alive' = alive /\ alive \subseteq Proc
  BY GoodFacts DEF OnlyBy
<1>2. /\ AbsResp[p] = IF Replaced(p) THEN OkReply ELSE db[p].ret
      /\ AbsResp'[p] = IF Replaced(p)' THEN OkReply ELSE db'[p].ret
  BY <1>1 DEF AbsResp, OkReply
<1>3. PICK m, n : m = AbsResp /\ n = AbsResp'
  OBVIOUS
<1>4. m = [q \in Proc |-> m[q]] /\ n = [q \in Proc |-> n[q]]
  BY <1>3 DEF AbsResp
<1>5. ASSUME NEW q \in Proc, q # p PROVE n[q] = m[q]
  <2>1. (Replaced(q)' <=> Replaced(q)) /\ db'[q] = db[q] /\ alive' = alive
    BY <1>5 DEF OnlyBy, Replaced
  <2> QED BY <1>3, <2>1 DEF AbsResp
<1>6. n = [m EXCEPT ![p] = n[p]] /\ (n[p] = m[p] => n = m)
  BY <1>4, <1>5
<1> QED BY <1>2, <1>3, <1>6

\* A step the callers cannot notice.
LEMMA StutterIs ==
  ASSUME GoodInv, NEW p \in Proc, OnlyBy(p), call' = call,
         AbsMap' = AbsMap, AbsResp'[p] = AbsResp[p]
  PROVE  MapStep
<1>1. AbsResp' = AbsResp /\ alive' = alive
  BY RespSet DEF OnlyBy
<1> QED BY <1>1 DEF MapStep, KV!vars

\* The step at which a call takes effect.
LEMMA CommitIs ==
  ASSUME GoodInv, NEW p \in Proc, OnlyBy(p), call' = call, AbsResp[p] = NoReply,
         KV!Fetch(p) \/ KV!Delete(p) \/ KV!Store(p) \/ KV!Nextrec(p)
  PROVE  MapStep
<1>1. p \in alive /\ alive' = alive
  BY DEF OnlyBy
<1>2. KV!Commit(p)
  BY <1>1 DEF KV!Commit, KV!NoResp, NoReply, KV!Reply, Reply
<1> QED BY <1>2 DEF MapStep, KV!Next

\* It answers a fetch,
LEMMA FetchIs ==
  ASSUME GoodInv, NEW p \in Proc, OnlyBy(p), call' = call, AbsResp[p] = NoReply,
         call[p].op = "fetch", AbsMap' = AbsMap,
         AbsResp'[p] = IF AbsMap[call[p].key] = NoData THEN ErrorReply
                       ELSE Reply("ok", call[p].key, AbsMap[call[p].key])
  PROVE  MapStep
<1>1. AbsResp' = [AbsResp EXCEPT ![p] = AbsResp'[p]]
  BY RespSet
<1>2. KV!Fetch(p)
  BY <1>1 DEF KV!Fetch, KV!Answer, KV!Reply, Reply, ErrorReply
<1> QED BY <1>2, CommitIs

\* a deletion,
LEMMA DeleteIs ==
  ASSUME GoodInv, NEW p \in Proc, OnlyBy(p), call' = call, AbsResp[p] = NoReply,
         call[p].op = "delete", AbsMap' = [AbsMap EXCEPT ![call[p].key] = NoData],
         AbsResp'[p] = IF AbsMap[call[p].key] = NoData THEN ErrorReply ELSE OkReply
  PROVE  MapStep
<1>1. AbsResp' = [AbsResp EXCEPT ![p] = AbsResp'[p]]
  BY RespSet
<1>2. KV!Delete(p)
  BY <1>1 DEF KV!Delete, KV!Answer, KV!Reply, Reply, ErrorReply, OkReply
<1> QED BY <1>2, CommitIs

\* a store, which may be refused,
LEMMA StoreIs ==
  ASSUME GoodInv, NEW p \in Proc, OnlyBy(p), call' = call, AbsResp[p] = NoReply,
         call[p].op = "store",
         \/ /\ call[p].flag # IF AbsMap[call[p].key] = NoData THEN "replace" ELSE "insert"
            /\ AbsMap' = [AbsMap EXCEPT ![call[p].key] = call[p].data]
            /\ AbsResp'[p] = OkReply
         \/ /\ call[p].flag = "insert" /\ AbsMap[call[p].key] # NoData /\ AbsMap' = AbsMap
            /\ AbsResp'[p] = Reply("exists", NoKey, NoData)
         \/ /\ call[p].flag = "replace" /\ AbsMap[call[p].key] = NoData /\ AbsMap' = AbsMap
            /\ AbsResp'[p] = ErrorReply
  PROVE  MapStep
<1>1. AbsResp' = [AbsResp EXCEPT ![p] = AbsResp'[p]]
  BY RespSet
<1>2. KV!Store(p)
  BY <1>1 DEF KV!Store, KV!Answer, KV!Reply, Reply, ErrorReply, OkReply
<1> QED BY <1>2, CommitIs

\* or a step of a scan.
LEMMA NextrecIs ==
  ASSUME GoodInv, NEW p \in Proc, OnlyBy(p), call' = call, AbsResp[p] = NoReply,
         call[p].op = "nextrec", AbsMap' = AbsMap,
         \/ AbsResp'[p] = ErrorReply
         \/ \E k \in Key, d \in Data :
              /\ AbsResp'[p] = Reply("ok", k, d)
              /\ \/ AbsMap[k] = d
                 \/ \E q \in Proc : /\ call[q].op = "store" /\ call[q].key = k
                                    /\ call[q].data = d
  PROVE  MapStep
<1>1. AbsResp' = [AbsResp EXCEPT ![p] = AbsResp'[p]]
  BY RespSet
<1>2. KV!Nextrec(p)
  BY <1>1, ZenonT(30) DEF KV!Nextrec, KV!Answer, KV!Reply, Reply, ErrorReply
<1> QED BY <1>2, CommitIs

(***************************************************************************)
(* Steps that are no step of the map.  Until it blanks a data record or    *)
(* has an answer, a call has had no effect.                                *)
(***************************************************************************)
EarlyPC == {"idle", "lock_chain", "read_chain", "walk", "read_dat", "o_write_dat",
            "d_lock_free", "d_write_dat", "n_lock", "n_read", "n_read_dat"}

\* At these labels, and at the last ones of a call, nothing is replaced.
LEMMA EarlyFacts ==
  ASSUME GoodInv, GoodInv', NEW p \in Proc, OnlyBy(p)
  PROVE  /\ pc[p] \in EarlyPC =>
              ~LooseBy(p) /\ ~Replaced(p) /\ AbsResp[p] = NoReply /\ db[p].ret = NoReply
         /\ pc'[p] \in EarlyPC => ~LooseBy(p)' /\ ~Replaced(p)'
         /\ pc'[p] = "s_read_chain" /\ ~db'[p].found => ~LooseBy(p)' /\ ~Replaced(p)'
         /\ pc'[p] \in {"unlock", "n_unlock"} => /\ ~LooseBy(p)' /\ ~Replaced(p)'
                                                 /\ AbsResp'[p] = db'[p].ret
<1>1. p \in alive /\ p \in alive' /\ Talks(pc[p], db[p], call[p]) /\ Replacers'
  BY GoodFacts, ReplacersAfter DEF OnlyBy
<1>2. /\ pc[p] \in EarlyPC => ~LooseBy(p)
      /\ pc'[p] \in EarlyPC \cup {"s_read_chain", "unlock", "n_unlock"} => ~LooseBy(p)'
  BY DEF LooseBy, LoosePC, EarlyPC
<1>3. /\ pc[p] \in EarlyPC => ~Replaced(p)
      /\ pc'[p] \in EarlyPC \cup {"unlock", "n_unlock"} => ~Replaced(p)'
      /\ ~db'[p].found => ~Replaced(p)'
  BY <1>1, ReplacedWhen DEF Replacers, BlankedPC, AbsentPC, StorePC, EarlyPC
<1>4. pc[p] \in EarlyPC => db[p].ret = NoReply
  BY <1>1 DEF Talks, EarlyPC
<1> QED BY <1>2, <1>3, <1>4, RespSet

\* An early step writes nothing.
LEMMA EarlyStep ==
  ASSUME GoodInv, GoodInv', MapInv, MapInv', NEW p \in Proc, NEW from, NEW to,
         Moved(p, from, to), Still, db'[p].ret = db[p].ret, from \in EarlyPC,
         to \in EarlyPC \/ (to = "s_read_chain" /\ ~db'[p].found)
  PROVE  MapStep
<1>1. OnlyBy(p) /\ call' = call /\ pc[p] = from /\ pc'[p] = to
  BY DEF Moved
<1>2. /\ ~LooseBy(p) /\ ~Replaced(p) /\ AbsResp[p] = NoReply /\ db[p].ret = NoReply
      /\ ~LooseBy(p)' /\ ~Replaced(p)'
  BY <1>1, EarlyFacts
<1>3. AbsMap' = AbsMap
  BY <1>1, <1>2, Shown, ShownAfter, StillMap
<1>4. AbsResp'[p] = AbsResp[p]
  BY <1>1, <1>2, RespSet
<1> QED BY <1>1, <1>3, <1>4, StutterIs

\* What the map shows p of its key, at a label of ChainPC.
LEMMA OwnBefore ==
  ASSUME GoodInv, MapInv, NEW p \in alive, pc[p] \in ChainPC
  PROVE  /\ p \in Proc /\ call[p].key \in Key /\ call[p].key # Blank /\ OwnKey(p)
         /\ Talks(pc[p], db[p], call[p]) /\ CallOK(p) /\ Chained(pc[p], db[p], call[p])
         /\ Held(pc[p], db[p], call[p])
         /\ Replaced(p) <=> db[p].found /\ pc[p] \in BlankedPC \cup AbsentPC
         /\ pc[p] \in AbsentPC /\ ~db[p].found => AbsMap[call[p].key] = NoData
         /\ pc[p] \in {"read_dat", "o_write_dat", "d_write_dat"} =>
              /\ AbsMap[call[p].key] = dat[db[p].datoff].val /\ AbsMap[call[p].key] \in Data
              /\ db[p].idxoff \in Linked /\ rec[db[p].idxoff].key = call[p].key
              /\ rec[db[p].idxoff].datoff = db[p].datoff
<1>1. p \in Proc
  BY DEF GoodInv, IndInv, ControlInv, ControlType
<1>2. /\ Talks(pc[p], db[p], call[p]) /\ CallOK(p) /\ Chained(pc[p], db[p], call[p])
      /\ Held(pc[p], db[p], call[p]) /\ OwnKey(p)
  BY <1>1, GoodFacts, OwnShown DEF MapInv, OwnKeys
<1>3. call[p].key \in Key /\ call[p].key # Blank
  BY <1>2, ArgAssumption DEF CallOK, KeyedPC
<1>4. Replaced(p) <=> db[p].found /\ pc[p] \in BlankedPC \cup AbsentPC
  BY ReplacedWhen
<1>5. pc[p] \in AbsentPC /\ ~db[p].found => AbsMap[call[p].key] = NoData
  BY <1>2, <1>4 DEF Chained, OwnKey
<1>6. pc[p] \in {"read_dat", "o_write_dat", "d_write_dat"} =>
        /\ AbsMap[call[p].key] = dat[db[p].datoff].val /\ AbsMap[call[p].key] \in Data
        /\ db[p].idxoff \in Linked /\ rec[db[p].idxoff].key = call[p].key
        /\ rec[db[p].idxoff].datoff = db[p].datoff
  BY <1>2, <1>4 DEF Chained, OwnKey, FoundPC, BlankedPC, AbsentPC, StorePC
<1> QED BY <1>1, <1>2, <1>3, <1>4, <1>5, <1>6

\* After the effect of a replacement or a deletion, or before that of an
\* insertion, the records p writes do not show.
LEMMA HiddenStep ==
  ASSUME GoodInv, GoodInv', MapInv, NEW p \in Proc, Carries(p), NEW from, NEW to,
         Moved(p, from, to), db'[p].found = db[p].found,
         from \in BlankedPC \cup AbsentPC, to \in BlankedPC \cup AbsentPC
  PROVE  MapStep
<1>1. /\ OnlyBy(p) /\ call' = call /\ pc[p] = from /\ pc'[p] = to
      /\ p \in alive /\ p \in alive' /\ MapInv'
  BY DEF Moved, OnlyBy, Carries
<1>2. from \in ChainPC /\ to \in ChainPC
  BY DEF BlankedPC, AbsentPC, StorePC, ChainPC
<1>3. /\ Talks(pc[p], db[p], call[p]) /\ Talks(pc'[p], db'[p], call'[p])
      /\ Replacers' /\ OwnKeys' /\ call[p].key \in Key
      /\ OwnKey(p) /\ (Replaced(p) <=> db[p].found /\ pc[p] \in BlankedPC \cup AbsentPC)
      /\ pc[p] \in AbsentPC /\ ~db[p].found => AbsMap[call[p].key] = NoData
      /\ Chained(pc[p], db[p], call[p])'
  BY <1>1, <1>2, OwnBefore, ReplacersAfter, OwnShownAfter DEF GoodInv, TalkInv, MapInv
<1>4. OwnKey(p)' /\ (Replaced(p)' <=> db[p].found)
  BY <1>1, <1>2, <1>3 DEF OwnKeys, Replacers
<1>5. CASE db[p].found
  <2>1. Replaced(p) /\ Replaced(p)'
    BY <1>1, <1>3, <1>4, <1>5
  <2>2. AbsMap'[call[p].key] = AbsMap[call[p].key] /\ AbsResp'[p] = AbsResp[p]
    BY <1>1, <1>3, <1>4, <2>1, RespSet DEF OwnKey
  <2> QED BY <1>1, <1>3, <2>2, OwnKeySet, StutterIs
<1>6. CASE ~db[p].found
  <2>1. from \in AbsentPC /\ to \in AbsentPC /\ db[p].ret = NoReply /\ db'[p].ret = NoReply
    BY <1>1, <1>3, <1>6 DEF Talks, BlankedPC, AbsentPC, DelPC, StorePC
  <2>2. ~Replaced(p) /\ ~Replaced(p)'
    BY <1>3, <1>4, <1>6
  <2>3. AbsMap'[call[p].key] = NoData
    BY <1>1, <1>3, <1>4, <2>1, <2>2 DEF OwnKey, Chained
  <2>4. AbsMap[call[p].key] = NoData /\ AbsResp'[p] = AbsResp[p]
    BY <1>1, <1>3, <1>6, <2>1, <2>2, RespSet
  <2> QED BY <1>1, <1>3, <2>3, <2>4, OwnKeySet, StutterIs
<1> QED BY <1>5, <1>6

-----------------------------------------------------------------------------
(***************************************************************************)
(* Which step of the map each step of the library is.                      *)
(***************************************************************************)
\* A refusal or a fetch: an answer is given and nothing is written.
LEMMA AnswerFacts ==
  ASSUME GoodInv, GoodInv', MapInv, MapInv', NEW p \in Proc, NEW from, NEW to,
         Moved(p, from, to), Still, from \in EarlyPC, to \in {"unlock", "n_unlock"}
  PROVE  /\ OnlyBy(p) /\ call' = call /\ pc[p] = from /\ p \in alive
         /\ AbsMap' = AbsMap /\ AbsResp[p] = NoReply /\ AbsResp'[p] = db'[p].ret
<1>1. OnlyBy(p) /\ call' = call /\ pc[p] = from /\ pc'[p] = to /\ p \in alive
  BY DEF Moved, OnlyBy
<1>2. /\ ~LooseBy(p) /\ ~Replaced(p) /\ AbsResp[p] = NoReply
      /\ ~LooseBy(p)' /\ ~Replaced(p)' /\ AbsResp'[p] = db'[p].ret
  BY <1>1, EarlyFacts
<1>3. AbsMap' = AbsMap
  BY <1>1, <1>2, Shown, ShownAfter, StillMap
<1> QED BY <1>1, <1>2, <1>3

\* A search that finds the key goes on, or refuses to insert.
LEMMA WalkFoundMaps ==
  ASSUME GoodInv, GoodInv', MapInv, MapInv', NEW p \in Proc, WalkFound(p)
  PROVE  MapStep
<1> DEFINE o == db[p].offset
<1>1. IndInv
  BY DEF GoodInv
<1>2. /\ Still /\ o # 0 /\ rec[o].key = call[p].key
      /\ \/ Moved(p, "walk", "read_dat") /\ db'[p].ret = db[p].ret
         \/ Moved(p, "walk", "d_lock_free") /\ db'[p].ret = db[p].ret
         \/ Moved(p, "walk", "o_write_dat") /\ db'[p].ret = db[p].ret
         \/ /\ Moved(p, "walk", "unlock") /\ call[p].op = "store" /\ call[p].flag = "insert"
            /\ db'[p].ret = Reply("exists", NoKey, NoData)
  BY <1>1, WalkFoundDoes
<1>3. ASSUME NEW to \in {"read_dat", "d_lock_free", "o_write_dat"}, Moved(p, "walk", to),
             db'[p].ret = db[p].ret
      PROVE  MapStep
  BY <1>2, <1>3, EarlyStep DEF EarlyPC
<1>4. CASE /\ Moved(p, "walk", "unlock") /\ call[p].op = "store" /\ call[p].flag = "insert"
           /\ db'[p].ret = Reply("exists", NoKey, NoData)
  <2>1. /\ OnlyBy(p) /\ call' = call /\ pc[p] = "walk" /\ p \in alive
        /\ AbsMap' = AbsMap /\ AbsResp[p] = NoReply /\ AbsResp'[p] = db'[p].ret
    BY <1>2, <1>4, AnswerFacts DEF EarlyPC
  <2>2. OwnKey(p) /\ ~Replaced(p) /\ Chained(pc[p], db[p], call[p])
    BY <2>1, OwnBefore DEF ChainPC, BlankedPC, AbsentPC, StorePC
  <2>3. PICK S : Passed(db[p], call[p], S)
    BY <2>1, <2>2 DEF Chained
  <2>4. o \in Linked
    BY <1>2, <2>1, <2>3, LooksAtChain
  <2>5. AbsMap[call[p].key] \in Data
    BY <1>2, <2>2, <2>4 DEF OwnKey
  <2>6. AbsMap[call[p].key] # NoData
    BY <2>5, ArgAssumption
  <2> QED BY <1>4, <2>1, <2>6, StoreIs
<1> QED BY <1>2, <1>3, <1>4

\* A search that does not find the key goes on to insert it, or fails.
LEMMA WalkEndMaps ==
  ASSUME GoodInv, GoodInv', MapInv, MapInv', NEW p \in Proc, WalkEnd(p)
  PROVE  MapStep
<1>1. IndInv /\ Talks(pc[p], db[p], call[p])
  BY GoodFacts DEF GoodInv
<1>2. /\ Still /\ db[p].offset = 0 /\ db'[p].found = db[p].found
      /\ \/ Moved(p, "walk", "s_read_chain") /\ db'[p] = db[p]
         \/ /\ ~(call[p].op = "store" /\ call[p].flag # "replace")
            /\ Moved(p, "walk", "unlock") /\ db'[p].ret = ErrorReply
  BY <1>1, FindEnds DEF ErrorReply
<1>3. CASE Moved(p, "walk", "s_read_chain") /\ db'[p] = db[p]
  <2>1. ~db'[p].found
    BY <1>1, <1>2, <1>3 DEF Moved, Talks
  <2> QED BY <1>2, <1>3, <2>1, EarlyStep DEF EarlyPC
<1>4. CASE /\ ~(call[p].op = "store" /\ call[p].flag # "replace")
           /\ Moved(p, "walk", "unlock") /\ db'[p].ret = ErrorReply
  <2>1. /\ OnlyBy(p) /\ call' = call /\ pc[p] = "walk" /\ p \in alive
        /\ AbsMap' = AbsMap /\ AbsResp[p] = NoReply /\ AbsResp'[p] = ErrorReply
    BY <1>2, <1>4, AnswerFacts DEF EarlyPC
  <2>2. /\ OwnKey(p) /\ ~Replaced(p) /\ Chained(pc[p], db[p], call[p]) /\ CallOK(p)
        /\ call[p].key \in Key
    BY <2>1, OwnBefore DEF ChainPC, BlankedPC, AbsentPC, StorePC
  <2>3. PICK S : Passed(db[p], call[p], S)
    BY <2>1, <2>2 DEF Chained
  <2>4. AbsMap[call[p].key] = NoData
    BY <1>2, <2>1, <2>2, <2>3, SearchedAll DEF OwnKey
  <2>5. AbsMap' = [AbsMap EXCEPT ![call[p].key] = NoData]
    <3>1. PICK m : m = AbsMap
      OBVIOUS
    <3>2. m = [j \in Key |-> m[j]]
      BY <3>1, Shown DEF MapShown
    <3>3. m = [m EXCEPT ![call[p].key] = NoData]
      BY <2>2, <2>4, <3>1, <3>2
    <3> QED BY <2>1, <3>1, <3>3
  <2>6. call[p].op \in {"fetch", "delete", "store"}
    BY <2>1, <2>2 DEF CallOK, KeyedPC, ChainPC
  <2> QED BY <1>4, <2>1, <2>4, <2>5, <2>6, FetchIs, DeleteIs, StoreIs
<1> QED BY <1>2, <1>3, <1>4

\* A fetch reads the data of its key.
LEMMA FetchDatMaps ==
  ASSUME GoodInv, GoodInv', MapInv, MapInv', NEW p \in Proc, FetchDat(p)
  PROVE  MapStep
<1>1. IndInv
  BY DEF GoodInv
<1>2. /\ Moved(p, "read_dat", "unlock") /\ Still
      /\ db'[p].ret = Reply("ok", call[p].key, dat[db[p].datoff].val)
  BY <1>1, FindEnds
<1>3. /\ OnlyBy(p) /\ call' = call /\ pc[p] = "read_dat" /\ p \in alive
      /\ AbsMap' = AbsMap /\ AbsResp[p] = NoReply /\ AbsResp'[p] = db'[p].ret
  BY <1>2, AnswerFacts DEF EarlyPC
<1>4. /\ AbsMap[call[p].key] = dat[db[p].datoff].val /\ AbsMap[call[p].key] \in Data
      /\ Talks(pc[p], db[p], call[p])
  BY <1>3, OwnBefore DEF ChainPC
<1>5. AbsMap[call[p].key] # NoData /\ call[p].op = "fetch"
  BY <1>3, <1>4, ArgAssumption DEF Talks
<1> QED BY <1>2, <1>3, <1>4, <1>5, FetchIs

\* A call returns its answer.
LEMMA ReturnMaps ==
  ASSUME GoodInv, GoodInv', MapInv, MapInv', NEW p \in Proc,
         Ends(p, "unlock") \/ Ends(p, "n_unlock")
  PROVE  MapStep
<1>1. PICK from \in {"unlock", "n_unlock"} : Ends(p, from)
  OBVIOUS
<1>2. /\ OnlyBy(p) /\ Still /\ pc[p] = from /\ pc'[p] = "idle" /\ p \in alive /\ alive' = alive
      /\ call' = [call EXCEPT ![p] = NoCall]
  BY <1>1 DEF Ends, OnlyBy
<1>3. Talks(pc[p], db[p], call[p]) /\ Talks(pc'[p], db'[p], call'[p])
  BY GoodFacts DEF GoodInv, TalkInv
<1>4. db[p].ret # NoReply /\ db'[p].ret = NoReply
  BY <1>2, <1>3 DEF Talks, NoReply, Reply
<1>5. ~LooseBy(p)' /\ ~Replaced(p)' /\ ~LooseBy(p) /\ ~Replaced(p)
  <2>1. ~Replaced(p) /\ ~LooseBy(p)
    BY <1>2, ReplacedWhen DEF BlankedPC, AbsentPC, StorePC, LooseBy, LoosePC
  <2> QED BY <1>2, <2>1, EarlyFacts DEF EarlyPC
<1>6. AbsMap' = AbsMap
  BY <1>2, <1>5, Shown, ShownAfter, StillMap
<1>7. /\ AbsResp' = [AbsResp EXCEPT ![p] = NoReply] /\ AbsResp[p] # NoReply
  BY <1>2, <1>4, <1>5, RespSet
<1>8. KV!Return(p)
  BY <1>2, <1>6, <1>7 DEF KV!Return, KV!NoCall, NoCall, Call, KV!NoResp, NoReply, KV!Reply, Reply
<1> QED BY <1>8 DEF MapStep, KV!Next

\* _db_find_and_lock, db_fetch and the end of every keyed call.
LEMMA FindMaps ==
  ASSUME GoodInv, GoodInv', MapInv, MapInv', NEW p \in Proc, Find(p)
  PROVE  MapStep
<1>1. IndInv
  BY DEF GoodInv
<1>2. CASE LockChain(p) \/ ReadChain(p)
  BY <1>1, <1>2, FindStarts, EarlyStep DEF EarlyPC
<1>3. CASE WalkNext(p)
  BY <1>1, <1>3, WalkNextDoes, EarlyStep DEF EarlyPC
<1>4. CASE Unlock(p)
  BY <1>1, <1>4, FindEnds, ReturnMaps
<1> QED BY <1>2, <1>3, <1>4, WalkFoundMaps, WalkEndMaps, FetchDatMaps DEF Find

\* The data of the key is blanked: a deletion or a replacement takes effect.
LEMMA DelWriteDatMaps ==
  ASSUME GoodInv, GoodInv', MapInv, NEW p \in Proc, Carries(p), DelWriteDat(p)
  PROVE  MapStep
<1>1. IndInv
  BY DEF GoodInv
<1>2. Moved(p, "d_write_dat", "d_read_free") /\ db'[p] = db[p]
  BY <1>1, DeleteDoes
<1>3. /\ OnlyBy(p) /\ call' = call /\ pc[p] = "d_write_dat" /\ pc'[p] = "d_read_free"
      /\ p \in alive /\ p \in alive' /\ MapInv'
  BY <1>2 DEF Moved, OnlyBy, Carries
<1>4. /\ call[p].key \in Key /\ Talks(pc[p], db[p], call[p]) /\ CallOK(p)
      /\ AbsMap[call[p].key] \in Data
  BY <1>3, OwnBefore DEF ChainPC
<1>5. /\ db[p].found /\ AbsMap[call[p].key] # NoData /\ call[p].op \in {"delete", "store"}
      /\ call[p].op = "delete" => call[p].data = NoData
      /\ call[p].op = "store" => call[p].flag # "insert"
  BY <1>3, <1>4, ArgAssumption DEF Talks, CallOK, DelPC
<1>6. AbsResp[p] = NoReply
  BY <1>3, EarlyFacts DEF EarlyPC
<1>7. Replaced(p)'
  BY <1>2, <1>3, <1>5, ReplacersAfter DEF Replacers, BlankedPC
<1>8. AbsMap'[call[p].key] = call[p].data /\ AbsResp'[p] = OkReply
  BY <1>3, <1>7, OwnShownAfter, RespSet DEF OwnKeys, OwnKey, ChainPC
<1>9. AbsMap' = [AbsMap EXCEPT ![call[p].key] = call[p].data]
  BY <1>3, <1>4, <1>8, OwnKeySet
<1> QED BY <1>3, <1>5, <1>6, <1>8, <1>9, DeleteIs, StoreIs

\* A deletion that has unlinked its record shows what it showed before.
LEMMA DelDoneMaps ==
  ASSUME GoodInv, GoodInv', MapInv, NEW p \in Proc, Carries(p),
         Moved(p, "d_unlock_free", "unlock"), Still, db'[p] = db[p], call[p].op = "delete"
  PROVE  MapStep
<1>1. /\ OnlyBy(p) /\ call' = call /\ pc[p] = "d_unlock_free" /\ pc'[p] = "unlock"
      /\ p \in alive /\ p \in alive' /\ MapInv'
  BY DEF Moved, OnlyBy, Carries
<1>2. /\ call[p].key \in Key /\ Talks(pc[p], db[p], call[p]) /\ OwnKey(p)
      /\ Chained(pc[p], db[p], call[p])
      /\ Replaced(p) <=> db[p].found /\ pc[p] \in BlankedPC \cup AbsentPC
  BY <1>1, OwnBefore DEF ChainPC
<1>3. Replaced(p) /\ db[p].ret = OkReply /\ call[p].data = NoData
  BY <1>1, <1>2 DEF Talks, AbsentPC, DelPC, OkReply
<1>4. ~LooseBy(p) /\ ~LooseBy(p)' /\ ~Replaced(p)' /\ AbsResp'[p] = db'[p].ret
  BY <1>1, EarlyFacts DEF LooseBy, LoosePC
<1>5. LS' = LS
  BY <1>1, <1>4, ViewsHold, ViewsHoldAfter, LooseAfter DEF GoodInv, ListsKnown
<1>6. \A i \in Linked' : rec'[i].key # call[p].key
  BY <1>1, <1>2, <1>5 DEF Still, Linked, Recs, Chained, AbsentPC
<1>7. AbsMap'[call[p].key] = NoData
  BY <1>1, <1>4, <1>6, OwnShownAfter DEF OwnKeys, OwnKey, ChainPC
<1>8. AbsMap[call[p].key] = NoData /\ AbsResp'[p] = AbsResp[p]
  BY <1>1, <1>2, <1>3, <1>4, RespSet DEF OwnKey
<1> QED BY <1>1, <1>2, <1>7, <1>8, OwnKeySet, StutterIs

\* _db_dodelete.
LEMMA DoDeleteMaps ==
  ASSUME GoodInv, GoodInv', MapInv, SizesKept, NEW p \in Proc, DoDelete(p)
  PROVE  MapStep
<1>1. IndInv /\ Carries(p) /\ MapInv'
  BY DoDeleteKeepsMap DEF GoodInv, Carries
<1>2. CASE DelLockFree(p)
  BY <1>1, <1>2, FreeDoes, EarlyStep DEF EarlyPC
<1>3. CASE DelReadFree(p)
  BY <1>1, <1>3, FreeDoes, HiddenStep DEF Keeps, BlankedPC
<1>4. CASE DelWriteIdx(p)
  BY <1>1, <1>4, DeleteDoes, HiddenStep DEF Keeps, BlankedPC, AbsentPC
<1>5. CASE DelWriteFree(p) \/ DelWritePtr(p)
  BY <1>1, <1>5, DeleteDoes, HiddenStep DEF Keeps, AbsentPC
<1>6. CASE DelUnlockFree(p)
  <2>1. /\ Moved(p, "d_unlock_free",
                 IF call[p].op = "delete" THEN "unlock" ELSE "s_read_chain")
        /\ Still /\ db'[p] = db[p]
    BY <1>1, <1>6, FreeDoes
  <2>2. CASE call[p].op = "delete"
    BY <1>1, <2>1, <2>2, DelDoneMaps
  <2>3. CASE call[p].op # "delete"
    BY <1>1, <2>1, <2>3, HiddenStep DEF AbsentPC, StorePC
  <2> QED BY <2>2, <2>3
<1> QED BY <1>1, <1>2, <1>3, <1>4, <1>5, <1>6, DelWriteDatMaps DEF DoDelete

\* _db_findfree.
LEMMA FindFreeMaps ==
  ASSUME GoodInv, GoodInv', MapInv, NEW p \in Proc, FindFree(p)
  PROVE  MapStep
<1>1. IndInv /\ Carries(p)
  BY FindFreeKeepsMap DEF GoodInv
<1>2. CASE FreeLock(p) \/ FreeRead(p)
  BY <1>1, <1>2, FreeDoes, HiddenStep DEF Keeps, AbsentPC, StorePC
<1>3. CASE FreeWalk(p)
  <2>1. /\ db'[p].found = db[p].found
        /\ \/ Moved(p, "f_walk", "f_walk") \/ Moved(p, "f_walk", "f_unlink")
           \/ Moved(p, "f_walk", "f_unlock")
    BY <1>1, <1>3, FreeDoes
  <2> QED BY <1>1, <2>1, HiddenStep DEF AbsentPC, StorePC
<1>4. CASE FreeUnlink(p)
  BY <1>1, <1>4, StoreDoes, HiddenStep DEF Keeps, AbsentPC, StorePC
<1>5. CASE FreeUnlock(p)
  <2>1. db'[p] = db[p] /\ \E to \in {"a_lock_dat", "r_write_dat"} : Moved(p, "f_unlock", to)
    BY <1>1, <1>5, FreeDoes
  <2> QED BY <1>1, <2>1, HiddenStep DEF AbsentPC, StorePC
<1> QED BY <1>2, <1>3, <1>4, <1>5 DEF FindFree

\* The new record becomes the head of its chain: an insertion takes effect,
\* a replacement shows what it showed before.
LEMMA StoreWriteChainMaps ==
  ASSUME GoodInv, GoodInv', MapInv, NEW p \in Proc, Carries(p), StoreWriteChain(p)
  PROVE  MapStep
<1> DEFINE x == db[p].idxoff
<1>1. IndInv
  BY DEF GoodInv
<1>2. /\ Moved(p, "s_write_chain", "unlock") /\ UNCHANGED <<rec, ieof, dat, deof>>
      /\ db'[p].ret = OkReply
  BY <1>1, StoreDoes DEF OkReply
<1>3. /\ OnlyBy(p) /\ call' = call /\ pc[p] = "s_write_chain" /\ pc'[p] = "unlock"
      /\ p \in alive /\ p \in alive' /\ MapInv'
  BY <1>2 DEF Moved, OnlyBy, Carries
<1>4. /\ call[p].key \in Key /\ Talks(pc[p], db[p], call[p]) /\ OwnKey(p) /\ CallOK(p)
      /\ Held(pc[p], db[p], call[p])
      /\ Replaced(p) <=> db[p].found /\ pc[p] \in BlankedPC \cup AbsentPC
      /\ pc[p] \in AbsentPC /\ ~db[p].found => AbsMap[call[p].key] = NoData
  BY <1>3, OwnBefore DEF ChainPC
<1>5. LooseBy(p) /\ ~LooseBy(p)' /\ ~Replaced(p)' /\ AbsResp'[p] = OkReply
  BY <1>2, <1>3, EarlyFacts DEF LooseBy, LoosePC
<1>6. LS' = LS \ {x} /\ x \in Recs
  <2>1. Views /\ Views' /\ LooseOnce
    BY ViewsHold, ViewsHoldAfter DEF GoodInv, ListsKnown
  <2>2. LS' = LS \ {x}
    BY <1>3, <1>5, <2>1, LooseAfter
  <2> QED BY <1>5, <2>1, <2>2, LooseOffset DEF Views, Recs
<1>7. x \in Linked' /\ rec'[x].key = call[p].key /\ dat'[rec'[x].datoff].val = call[p].data
  BY <1>2, <1>3, <1>4, <1>6 DEF Linked, Recs, Held
<1>8. AbsMap'[call[p].key] = call[p].data
  BY <1>3, <1>5, <1>7, OwnShownAfter DEF OwnKeys, OwnKey, ChainPC
<1>9. CASE db[p].found
  <2>1. Replaced(p)
    BY <1>3, <1>4, <1>9 DEF AbsentPC, StorePC
  <2>2. AbsMap'[call[p].key] = AbsMap[call[p].key] /\ AbsResp'[p] = AbsResp[p]
    BY <1>3, <1>4, <1>5, <1>8, <2>1, RespSet DEF OwnKey
  <2> QED BY <1>3, <1>4, <2>2, OwnKeySet, StutterIs
<1>10. CASE ~db[p].found
  <2>1. /\ AbsMap[call[p].key] = NoData /\ ~Replaced(p) /\ call[p].op = "store"
        /\ call[p].flag # "replace" /\ db[p].ret = NoReply
    BY <1>3, <1>4, <1>10 DEF AbsentPC, StorePC, CallOK, Talks
  <2>2. AbsResp[p] = NoReply
    BY <1>3, <2>1, RespSet
  <2>3. AbsMap' = [AbsMap EXCEPT ![call[p].key] = call[p].data]
    BY <1>3, <1>4, <1>8, OwnKeySet
  <2> QED BY <1>3, <1>5, <2>1, <2>2, <2>3, StoreIs
<1> QED BY <1>9, <1>10

\* The data of the key is overwritten: a replacement takes effect.
LEMMA OverwriteDatMaps ==
  ASSUME GoodInv, GoodInv', MapInv, NEW p \in Proc, Carries(p), OverwriteDat(p)
  PROVE  MapStep
<1> DEFINE x == db[p].idxoff
<1>1. IndInv
  BY DEF GoodInv
<1>2. /\ Moved(p, "o_write_dat", "unlock") /\ UNCHANGED <<ptr, rec, ieof>>
      /\ db'[p].ret = OkReply /\ dat'[db[p].datoff].val = call[p].data
  BY <1>1, StoreDoes DEF OkReply
<1>3. /\ OnlyBy(p) /\ call' = call /\ pc[p] = "o_write_dat" /\ pc'[p] = "unlock"
      /\ p \in alive /\ p \in alive' /\ MapInv'
  BY <1>2 DEF Moved, OnlyBy, Carries
<1>4. /\ call[p].key \in Key /\ Talks(pc[p], db[p], call[p]) /\ CallOK(p)
      /\ AbsMap[call[p].key] \in Data
      /\ x \in Linked /\ rec[x].key = call[p].key /\ rec[x].datoff = db[p].datoff
  BY <1>3, OwnBefore DEF ChainPC
<1>5. /\ AbsMap[call[p].key] # NoData /\ call[p].op = "store" /\ call[p].flag # "insert"
  BY <1>3, <1>4, ArgAssumption DEF Talks, CallOK, StorePC
<1>6. /\ ~LooseBy(p) /\ ~LooseBy(p)' /\ ~Replaced(p)' /\ AbsResp'[p] = OkReply
      /\ AbsResp[p] = NoReply
  BY <1>2, <1>3, EarlyFacts DEF EarlyPC
<1>7. LS' = LS
  BY <1>3, <1>6, ViewsHold, ViewsHoldAfter, LooseAfter DEF GoodInv, ListsKnown
<1>8. x \in Linked' /\ rec'[x].key = call[p].key /\ dat'[rec'[x].datoff].val = call[p].data
  BY <1>2, <1>3, <1>4, <1>7 DEF Linked, Recs
<1>9. AbsMap'[call[p].key] = call[p].data
  BY <1>3, <1>6, <1>8, OwnShownAfter DEF OwnKeys, OwnKey, ChainPC
<1>10. AbsMap' = [AbsMap EXCEPT ![call[p].key] = call[p].data]
  BY <1>3, <1>4, <1>9, OwnKeySet
<1> QED BY <1>3, <1>5, <1>6, <1>10, StoreIs

\* A process that dies inside a replacement leaves its key absent.
LEMMA DeathMaps ==
  ASSUME GoodInv, GoodInv', MapInv, MapInv', NEW p \in Proc, p \in alive, Die(p),
         pc[p] \in {"idle", "s_write_chain", "n_read"}
  PROVE  MapStep
<1>1. /\ ptr' = ptr /\ rec' = rec /\ ieof' = ieof /\ dat' = dat /\ deof' = deof /\ pc' = pc
      /\ call' = call /\ db' = db /\ alive' = alive \ {p}
  BY DEF Die
<1>2. LS' = LS
  BY <1>1 DEF LS, Loose
<1>3. Linked' = Linked
  BY <1>1, <1>2 DEF Recs, Linked
<1>4. ~Replaced(p)' /\ \A q \in Proc : q # p => (Replaced(q)' <=> Replaced(q))
  BY <1>1 DEF Replaced
<1>5. MapShown /\ MapShown'
  BY Shown, ShownAfter
<1>6. ASSUME NEW k \in Key, ~Replacing(p, k) PROVE AbsMap'[k] = AbsMap[k]
  <2>1. PICK d : d = AbsMap[k]
    OBVIOUS
  <2>2. \A q \in Proc : Replacing(q, k)' <=> Replacing(q, k)
    BY <1>1, <1>4, <1>6 DEF Replacing
  <2>3. Shows(k, d)
    BY <1>5, <2>1 DEF MapShown
  <2>4. Shows(k, d)'
    BY <1>1, <1>3, <2>2, <2>3 DEF Shows
  <2> QED BY <1>5, <2>1, <2>4 DEF MapShown
<1>7. AbsResp' = [AbsResp EXCEPT ![p] = NoReply]
  <2>1. PICK m, n : m = AbsResp /\ n = AbsResp'
    OBVIOUS
  <2>2. m = [q \in Proc |-> m[q]] /\ n = [q \in Proc |-> n[q]]
    BY <2>1 DEF AbsResp
  <2>3. n[p] = NoReply
    BY <1>1, <2>1 DEF AbsResp
  <2>4. ASSUME NEW q \in Proc, q # p PROVE n[q] = m[q]
    BY <1>1, <1>4, <2>1, <2>4 DEF AbsResp
  <2>5. n = [m EXCEPT ![p] = NoReply]
    BY <2>2, <2>3, <2>4
  <2> QED BY <2>1, <2>5
<1>8. ASSUME AbsMap' = AbsMap \/ (/\ call[p].op = "store"
                                  /\ AbsMap' = [AbsMap EXCEPT ![call[p].key] = NoData])
      PROVE  MapStep
  <2>1. KV!Die(p)
    BY <1>1, <1>7, <1>8 DEF KV!Die, KV!NoResp, NoReply, KV!Reply, Reply
  <2> QED BY <2>1 DEF MapStep, KV!Next
<1>9. CASE Replaced(p)
  <2>1. /\ pc[p] = "s_write_chain" /\ call[p].key \in Key /\ CallOK(p)
        /\ Chained(pc[p], db[p], call[p])
    BY <1>9, ReplacedFacts, GoodFacts DEF BlankedPC, AbsentPC, StorePC, MapInv
  <2>2. call[p].op = "store" /\ \A i \in Linked : rec[i].key # call[p].key
    BY <2>1 DEF CallOK, StorePC, Chained, AbsentPC
  <2>3. PICK k \in Key : k = call[p].key
    BY <2>1
  <2>4. \A q \in Proc : ~Replacing(q, k)'
    <3>1. ASSUME NEW q \in Proc, q # p, Replacing(q, k) PROVE FALSE
      <4>1. q \in alive /\ pc[q] \in ChainPC /\ call[q].key = call[p].key
        BY <2>3, <3>1, ReplacedFacts DEF Replacing
      <4> QED BY <1>9, <3>1, <4>1, ReplacesAlone
    <3> QED BY <1>1, <1>4, <3>1 DEF Replacing
  <2>5. Shows(k, NoData)'
    BY <1>1, <1>3, <2>2, <2>3, <2>4 DEF Shows
  <2>6. AbsMap'[k] = NoData
    BY <1>5, <2>5 DEF MapShown
  <2>7. \A j \in Key : j # k => AbsMap'[j] = AbsMap[j]
    BY <1>6, <2>3 DEF Replacing
  <2>8. AbsMap' = [AbsMap EXCEPT ![k] = NoData]
    BY <1>5, <2>6, <2>7, OneKeySet
  <2> QED BY <1>8, <2>2, <2>3, <2>8
<1>10. CASE ~Replaced(p)
  <2>1. AbsMap' = AbsMap
    BY <1>5, <1>6, <1>10, SameMap DEF Replacing
  <2> QED BY <1>8, <2>1
<1> QED BY <1>9, <1>10

\* db_store of a new record, and the replacement of one of the same length.
LEMMA StoreNewMaps ==
  ASSUME GoodInv, GoodInv', MapInv, NEW p \in Proc, StoreNew(p)
  PROVE  MapStep
<1>1. IndInv
  BY DEF GoodInv
<1>2. CASE StorePtrOverflow(p)
  <2>1. p \in alive /\ pc[p] = "s_write_chain" /\ Die(p) /\ p \notin alive'
    BY <1>2 DEF StorePtrOverflow, Die
  <2>2. MapInv'
    BY StoreNewKeepsMap DEF Carries
  <2> QED BY <2>1, <2>2, DeathMaps
<1>3. CASE ~StorePtrOverflow(p)
  <2>1. ASSUME NEW from, NEW to, Moved(p, from, to) PROVE Carries(p)
    <3>1. alive' = alive /\ p \in alive
      BY <2>1 DEF Moved, OnlyBy
    <3> QED BY <3>1, StoreNewKeepsMap DEF Die
  <2>2. CASE StoreReadChain(p)
    <3>1. /\ db'[p].found = db[p].found
          /\ \E to \in {"a_lock_dat", "f_lock"} : Moved(p, "s_read_chain", to)
      BY <1>1, <2>2, StoreReads DEF Keeps
    <3> QED BY <2>1, <3>1, HiddenStep DEF AbsentPC, StorePC
  <2>3. CASE LockDat(p) \/ SeekDat(p) \/ UnlockDat(p)
    <3>1. /\ db'[p].found = db[p].found
          /\ \/ Moved(p, "a_lock_dat", "a_seek_dat") \/ Moved(p, "a_seek_dat", "a_write_dat")
             \/ Moved(p, "a_unlock_dat", "a_lock_idx")
      BY <1>1, <2>3, StoreReads
    <3> QED BY <2>1, <3>1, HiddenStep DEF AbsentPC, StorePC
  <2>4. CASE LockIdx(p) \/ SeekIdx(p) \/ UnlockIdx(p)
    <3>1. /\ db'[p].found = db[p].found
          /\ \/ Moved(p, "a_lock_idx", "a_seek_idx") \/ Moved(p, "a_seek_idx", "a_write_idx")
             \/ Moved(p, "a_unlock_idx", "s_write_chain")
      BY <1>1, <2>4, StoreReads
    <3> QED BY <2>1, <3>1, HiddenStep DEF AbsentPC, StorePC
  <2>5. CASE ReuseWriteDat(p) \/ AppendDat(p)
    <3>1. /\ db'[p].found = db[p].found
          /\ \/ Moved(p, "r_write_dat", "r_write_idx")
             \/ Moved(p, "a_write_dat", "a_unlock_dat")
      BY <1>1, <2>5, StoreDoes
    <3> QED BY <2>1, <3>1, HiddenStep DEF AbsentPC, StorePC
  <2>6. CASE ReuseWriteIdx(p) \/ AppendIdx(p)
    <3>1. /\ db'[p].found = db[p].found
          /\ \/ Moved(p, "r_write_idx", "s_write_chain")
             \/ Moved(p, "a_write_idx", "a_unlock_idx")
      BY <1>1, <2>6, StoreIdxDoes DEF Keeps
    <3> QED BY <2>1, <3>1, HiddenStep DEF AbsentPC, StorePC
  <2>7. CASE StoreWriteChain(p)
    BY <1>1, <2>1, <2>7, StoreDoes, StoreWriteChainMaps
  <2>8. CASE OverwriteDat(p)
    BY <1>1, <2>1, <2>8, StoreDoes, OverwriteDatMaps
  <2> QED BY <1>3, <2>2, <2>3, <2>4, <2>5, <2>6, <2>7, <2>8 DEF StoreNew
<1> QED BY <1>2, <1>3

\* A scan reports a record of the map, or one that is being stored.
LEMMA NextDatMaps ==
  ASSUME GoodInv, GoodInv', MapInv, MapInv', NEW p \in Proc, NextDat(p)
  PROVE  MapStep
<1>1. IndInv
  BY DEF GoodInv
<1>2. /\ Moved(p, "n_read_dat", "n_unlock") /\ Still
      /\ db'[p].ret = Reply("ok", db[p].key, dat[db[p].datoff].val)
  BY <1>1, NextDoes
<1>3. /\ OnlyBy(p) /\ call' = call /\ pc[p] = "n_read_dat" /\ p \in alive
      /\ AbsMap' = AbsMap /\ AbsResp[p] = NoReply /\ AbsResp'[p] = db'[p].ret
  BY <1>2, AnswerFacts DEF EarlyPC
<1>4. /\ MutualExclusion /\ Views /\ alive \subseteq Proc /\ call[p].op = "nextrec"
      /\ \A i \in Recs : rec[i] \in RecType
      /\ \A q \in Proc : CallOK(q) /\ Held(pc[q], db[q], call[q])
      /\ \A q \in alive : Chained(pc[q], db[q], call[q])
  <2>1. Talks(pc[p], db[p], call[p])
    BY GoodFacts
  <2>2. call[p].op = "nextrec"
    BY <1>3, <2>1 DEF Talks, ScanPC
  <2> QED BY <2>2, GoodFacts DEF MapInv, GoodInv, IndInv, ControlInv
<1>5. PICK i \in Recs : /\ rec[i].key = db[p].key /\ db[p].key # Blank
                        /\ rec[i].datoff = db[p].datoff
  BY <1>3, <1>4 DEF Chained
<1>6. PICK k, d : k = rec[i].key /\ d = dat[rec[i].datoff].val
  OBVIOUS
<1>7. k \in Key /\ AbsResp'[p] = Reply("ok", k, d)
  BY <1>2, <1>3, <1>4, <1>5, <1>6 DEF RecType
<1>8. \A q \in alive : pc[q] \notin FreePC
  BY <1>3, <1>4 DEF MutualExclusion, ScanPC, FreePC
<1>9. CASE i \in Linked
  <2>1. ASSUME NEW q \in Proc, Replacing(q, k) PROVE FALSE
    <3>1. q \in alive /\ pc[q] \in BlankedPC \cup AbsentPC /\ call[q].key = k
      BY <2>1, ReplacedFacts DEF Replacing
    <3>2. pc[q] \in AbsentPC
      BY <1>8, <3>1 DEF BlankedPC, FreePC
    <3> QED BY <1>4, <1>6, <1>9, <3>1, <3>2 DEF Chained
  <2>2. d \in Data
    BY <1>6, <1>7, <1>9, <2>1, LinkedHasData
  <2>3. Shows(k, d)
    BY <1>6, <1>9, <2>1, <2>2 DEF Shows
  <2>4. AbsMap[k] = d
    BY <1>7, <2>3, Shown DEF MapShown
  <2> QED BY <1>3, <1>4, <1>7, <2>2, <2>4, NextrecIs
<1>10. CASE i \notin Linked
  <2>1. PICK q \in Proc : LooseBy(q) /\ db[q].idxoff = i
    BY <1>4, <1>10 DEF Views, Linked
  <2>2. ~Reusing(pc[q], db[q])
    BY <1>4, <1>5, <2>1 DEF Held
  <2>3. pc[q] \in {"a_unlock_idx", "s_write_chain"}
    BY <1>8, <2>1, <2>2 DEF LooseBy, LoosePC, Reusing, FreePC
  <2>4. call[q].key = k /\ call[q].data = d
    BY <1>4, <1>6, <2>1, <2>3 DEF Held
  <2>5. call[q].op = "store" /\ d \in Data
    BY <1>4, <2>3, <2>4 DEF CallOK, StorePC, KeyedPC, ChainPC
  <2> QED BY <1>3, <1>4, <1>7, <2>4, <2>5, NextrecIs
<1> QED BY <1>9, <1>10

\* db_nextrec.
LEMMA NextrecMaps ==
  ASSUME GoodInv, GoodInv', MapInv, NEW p \in Proc, Nextrec(p)
  PROVE  MapStep
<1>1. IndInv /\ MapInv'
  BY NextrecKeepsMap DEF GoodInv, Carries
<1>2. CASE NextLock(p)
  BY <1>1, <1>2, NextDoes, EarlyStep DEF EarlyPC
<1>3. CASE NextRead(p)
  <2>1. /\ Still
        /\ \/ Moved(p, "n_read", "n_unlock") /\ db'[p].ret = ErrorReply
           \/ Moved(p, "n_read", "n_read") /\ db'[p].ret = db[p].ret
           \/ Moved(p, "n_read", "n_read_dat") /\ db'[p].ret = db[p].ret
    BY <1>1, <1>3, NextDoes DEF ErrorReply
  <2>2. CASE Moved(p, "n_read", "n_unlock") /\ db'[p].ret = ErrorReply
    <3>1. /\ OnlyBy(p) /\ call' = call /\ pc[p] = "n_read"
          /\ AbsMap' = AbsMap /\ AbsResp[p] = NoReply /\ AbsResp'[p] = db'[p].ret
      BY <1>1, <2>1, <2>2, AnswerFacts DEF EarlyPC
    <3>2. Talks(pc[p], db[p], call[p])
      BY GoodFacts
    <3>3. call[p].op = "nextrec"
      BY <3>1, <3>2 DEF Talks, ScanPC
    <3> QED BY <2>2, <3>1, <3>3, NextrecIs
  <2> QED BY <1>1, <2>1, <2>2, EarlyStep DEF EarlyPC
<1>4. CASE NextGarbage(p)
  BY <1>1, <1>4, DeathMaps DEF NextGarbage
<1>5. CASE NextUnlock(p)
  BY <1>1, <1>5, NextDoes, ReturnMaps
<1> QED BY <1>1, <1>2, <1>3, <1>4, <1>5, NextDatMaps DEF Nextrec

\* A call begins, or is refused before it begins.
LEMMA InvokeMaps ==
  ASSUME GoodInv, GoodInv', MapInv, NEW p \in Proc, Invoke(p)
  PROVE  MapStep
<1>1. IndInv /\ MapInv' /\ Talks(pc[p], db[p], call[p])
  BY InvokeKeepsMap, GoodFacts DEF Carries
<1>2. ASSUME NEW c \in KV!Calls, NEW to \in {"lock_chain", "n_lock"}, Starts(p, c, to)
      PROVE  MapStep
  <2>1. /\ OnlyBy(p) /\ Still /\ pc[p] = "idle" /\ pc'[p] = to
        /\ call' = [call EXCEPT ![p] = c] /\ db'[p] = db[p]
        /\ p \in alive /\ alive' = alive
    BY <1>2 DEF Starts, OnlyBy
  <2>2. /\ ~LooseBy(p) /\ ~Replaced(p) /\ ~LooseBy(p)' /\ ~Replaced(p)'
    BY <2>1, EarlyFacts DEF EarlyPC
  <2>3. AbsMap' = AbsMap
    BY <1>1, <2>1, <2>2, Shown, ShownAfter, StillMap
  <2>4. AbsResp' = AbsResp
    BY <2>1, <2>2, RespSet
  <2>5. call[p] = NoCall
    BY <1>1, <2>1 DEF Talks
  <2>6. KV!Invoke(p)
    BY <2>1, <2>3, <2>4, <2>5 DEF KV!Invoke, KV!NoCall, NoCall, Call
  <2> QED BY <2>6 DEF MapStep, KV!Next
<1>3. /\ \A k \in Key : /\ Call("fetch", k, NoData, "none") \in KV!Calls
                        /\ Call("delete", k, NoData, "none") \in KV!Calls
      /\ \A k \in Key, d \in Data, f \in Flags : Call("store", k, d, f) \in KV!Calls
      /\ Call("nextrec", NoKey, NoData, "none") \in KV!Calls
  BY DEF Call, KV!Calls, Flags, KV!Flags
<1>4. ASSUME Moved(p, "idle", "idle"), Still, db'[p].ret = db[p].ret PROVE MapStep
  BY <1>1, <1>4, EarlyStep DEF EarlyPC
<1>5. ASSUME p \in alive, pc[p] = "idle", Die(p) PROVE MapStep
  BY <1>1, <1>5, DeathMaps
<1> QED BY <1>1, <1>2, <1>3, <1>4, <1>5, InvokeDoes

\* The empty database is the empty map.
LEMMA InitMaps == Init => KV!Init
<1> SUFFICES ASSUME Init PROVE KV!Init
  OBVIOUS
<1>1. /\ \A p \in Proc : pc[p] = "idle" /\ db[p] = Handle(FirstRec)
      /\ alive = Proc /\ call = [p \in Proc |-> NoCall] /\ ieof = FirstRec
  BY DEF Init
<1>2. ASSUME NEW p \in Proc PROVE ~Replaced(p) /\ db[p].ret = NoReply
  <2>1. ~db[p].found /\ db[p].ret = NoReply
    BY <1>1 DEF Handle
  <2> QED BY <2>1 DEF Replaced
<1>3. AbsResp = [p \in Proc |-> NoReply]
  BY <1>1, <1>2 DEF AbsResp
<1>4. ASSUME NEW k \in Key PROVE Members(Hash[k]) = {}
  <2>1. ieof - FirstRec = 0
    BY <1>1, Sizes
  <2>2. PICK c : c = Hash[k]
    OBVIOUS
  <2>3. PICK nx : nx = [o \in DOMAIN ptr |-> EffPtr(o)]
    OBVIOUS
  <2>4. PICK R : Follows(R, nx, c, 0) /\ Members(c) = R[0] \ {c}
    BY <2>1, <2>3, MembersWalk
  <2>5. R[0] = {c}
    BY <2>4 DEF Follows
  <2> QED BY <2>2, <2>4, <2>5
<1>5. AbsMap = [k \in Key |-> NoData]
  BY <1>2, <1>4 DEF AbsMap
<1> QED BY <1>1, <1>3, <1>5 DEF KV!Init, NoCall, Call, NoReply, KV!NoCall, KV!NoResp,
        KV!Reply, Reply

\* Every step of the library is a step of the map, or none.
LEMMA StepMaps ==
  ASSUME Crashable = {}, GoodInv, GoodInv', MapInv, MapInv', [Next]_vars
  PROVE  [KV!Next]_(KV!vars)
<1>1. SizesKept
  BY StepKeepsSizes DEF GoodInv
<1>2. ASSUME NEW p \in Proc, Invoke(p) \/ Step(p) PROVE MapStep
  BY <1>1, <1>2, InvokeMaps, FindMaps, DoDeleteMaps, FindFreeMaps, StoreNewMaps,
     NextrecMaps DEF Step
<1>3. CASE UNCHANGED vars
  <2>1. /\ ptr' = ptr /\ rec' = rec /\ ieof' = ieof /\ dat' = dat /\ pc' = pc
        /\ call' = call /\ db' = db /\ alive' = alive
    BY <1>3 DEF vars
  <2>2. LS' = LS
    BY <2>1 DEF LS, Loose
  <2>3. Linked' = Linked /\ \A p \in Proc, k \in Key : Replacing(p, k)' <=> Replacing(p, k)
    BY <2>1, <2>2 DEF Recs, Linked, Replacing, Replaced
  <2>4. MapShown /\ MapShown'
    BY Shown, ShownAfter
  <2>5. ASSUME NEW k \in Key PROVE AbsMap'[k] = AbsMap[k]
    <3>1. PICK d : d = AbsMap[k]
      OBVIOUS
    <3>2. Shows(k, d)
      BY <2>4, <3>1 DEF MapShown
    <3>3. Shows(k, d)'
      BY <2>1, <2>3, <3>2 DEF Shows
    <3> QED BY <2>4, <3>1, <3>3 DEF MapShown
  <2>6. AbsMap' = AbsMap
    BY <2>4, <2>5, SameMap
  <2>7. AbsResp' = AbsResp
    BY <2>1 DEF AbsResp, Replaced
  <2> QED BY <2>1, <2>6, <2>7 DEF KV!vars
<1> QED BY <1>2, <1>3 DEF Next, Finished, Crash, MapStep

(***************************************************************************)
(* AtomicMap, for any number of processes, keys, chains and calls, any     *)
(* limits on lengths and offsets and any interleaving of the reads, writes *)
(* and record locks of db/db.c: when no process is killed, db_fetch,       *)
(* db_delete, db_store and db_nextrec are operations of one atomic map.    *)
(***************************************************************************)
THEOREM RefinementTheorem == Crashable = {} => (Spec => AtomicMap)
<1> SUFFICES ASSUME Crashable = {} PROVE Spec => AtomicMap
  OBVIOUS
<1>1. Spec => [](GoodInv /\ MapInv)
  BY MapTheorem
<1>2. /\ GoodInv /\ MapInv /\ (GoodInv /\ MapInv)' /\ [Next]_vars
      => [KV!Next]_(KV!vars)
  BY StepMaps
<1> QED BY <1>1, <1>2, InitMaps, PTL DEF Spec, AtomicMap, KV!Spec
=============================================================================
