--------------------------- MODULE ApueDbRefine ---------------------------
(***************************************************************************)
(* The database library implements the atomic map of KVStore.              *)
(*                                                                         *)
(* A call takes effect when its answer is known: a fetch when it reads the *)
(* data record, an insertion when the chain pointer is written, an         *)
(* overwrite when the data record is.  A deletion, and a replacement of    *)
(* another length, take effect when the data record is blanked; from then  *)
(* on the map shows their outcome although the chain does not yet.         *)
(***************************************************************************)
EXTENDS ApueDbInv

\* The records that can be reached from the cell c.
Members(c) ==
  LET next == [o \in DOMAIN ptr |-> EffPtr(o)]
      R[n \in 0..(ieof - FirstRec)] ==
        IF n = 0 THEN {c} ELSE R[n - 1] \cup ({next[o] : o \in R[n - 1]} \ {0})
  IN R[ieof - FirstRec] \ {c}

\* p has blanked the data record of its key and has not finished.
Replaced(p) ==
  /\ p \in alive /\ db[p].found
  /\ pc[p] \in ChainPC \ {"walk", "read_dat", "unlock", "d_lock_free",
                          "d_write_dat", "o_write_dat"}

AbsMap ==
  [k \in Key |->
     LET writers == {p \in Proc : Replaced(p) /\ call[p].key = k}
         linked == {i \in Members(Hash[k]) : rec[i].key = k}
     IN IF writers # {} THEN call[CHOOSE p \in writers : TRUE].data
        ELSE IF linked # {} THEN dat[rec[CHOOSE i \in linked : TRUE].datoff].val
        ELSE NoData]

AbsResp ==
  [p \in Proc |-> IF p \notin alive THEN NoReply
                  ELSE IF Replaced(p) THEN Reply("ok", NoKey, NoData)
                  ELSE db[p].ret]

KV == INSTANCE KVStore
        WITH map <- AbsMap, req <- call, resp <- AbsResp, up <- alive

(***************************************************************************)
(* db_fetch, db_delete, db_store and db_nextrec behave as atomic           *)
(* operations on one map although every call is a series of separate       *)
(* reads and writes of the two files.                                      *)
(***************************************************************************)
AtomicMap == KV!Spec

(***************************************************************************)
(* Every record is reached from the head of its own list, by one path: a   *)
(* lookup or a search of the free list cannot miss it, and none leaves its *)
(* list or runs in a circle (_db_dodelete and _db_findfree racing).        *)
(***************************************************************************)
AllReachable ==
  /\ ListsApart /\ NoSharing
  /\ \A i \in DOMAIN rec : Loose(i) \/ i \in Members(ListOf(i))

(***************************************************************************)
(* Once calls stop being made every pending call returns: no walk runs for *)
(* ever and no process waits for ever for a lock.                          *)
(***************************************************************************)
EveryCallReturns ==
  \A p \in Proc : (pc[p] # "idle") ~> (pc[p] = "idle" \/ p \notin alive)
=============================================================================
