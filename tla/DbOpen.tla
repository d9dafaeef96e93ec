------------------------------- MODULE DbOpen -------------------------------
(***************************************************************************)
(* db_open (db/db.c) by several processes at a time: with O_CREAT and      *)
(* O_TRUNC, which empty both files before the lock is taken under which    *)
(* the table is written, or without.  A process that has a handle stores   *)
(* one record of its own, on a chain that all share.  ApueDb has what the  *)
(* calls do on files that stay.                                            *)
(***************************************************************************)
EXTENDS Integers, FiniteSets

CONSTANT Proc      \* processes, numbered; each stands for its record too

VARIABLES
  creates,         \* processes that pass O_CREAT | O_TRUNC
  st,              \* where each is
  fds,             \* the files that each has open
  there,           \* the files that exist
  table,           \* what the index file starts with: "none", "whole", or "torn" (anything else)
  recs, chain,     \* records in the index file, and those linked
  dat,             \* records in the data file
  old,             \* the chain as each has read it
  lock,            \* who has locked the index file, all of it or the chain
  harm             \* a file was emptied that another process had opened for good

files == <<table, recs, chain, dat>>
vars == <<creates, st, fds, there, files, old, lock, harm>>
Nobody == 0

Init ==
  /\ creates \in {{p \in Proc : p <= k} : k \in Proc}
  /\ st = [p \in Proc |-> "start"] /\ fds = [p \in Proc |-> {}]
  /\ there \in {{}, {"idx", "dat"}} /\ table = (IF there = {} THEN "none" ELSE "whole")
  /\ recs = {} /\ chain = {} /\ dat = {} /\ old = [p \in Proc |-> {}] /\ lock = Nobody /\ harm = FALSE

Goto(p, label) == st' = [st EXCEPT ![p] = label]
HasHandle == {"open", "readptr", "dat", "idx", "ptr", "unlock", "stored"}
Harms(p) == harm' = (harm \/ \E q \in Proc \ {p} : st[q] \in HasHandle \union {"opened"})
-----------------------------------------------------------------------------
\* open creates the file, or empties it, with the flags; without them it may fail.
Opens(p, file) ==
  LET now == IF p \in creates THEN there \union {file} ELSE there
  IN /\ there' = now /\ fds' = [fds EXCEPT ![p] = @ \union ({file} \intersect now)]
     /\ IF p \in creates THEN Harms(p) ELSE UNCHANGED harm
OpenIdx(p) ==
  /\ st[p] = "start" /\ Goto(p, "opendat") /\ Opens(p, "idx")
  /\ IF p \in creates THEN table' = "none" /\ recs' = {} /\ chain' = {} ELSE UNCHANGED <<table, recs, chain>>
  /\ UNCHANGED <<creates, dat, old, lock>>
OpenDat(p) ==
  /\ st[p] = "opendat" /\ Opens(p, "dat")
  /\ Goto(p, IF p \in creates THEN "lock" ELSE IF fds'[p] = {"idx", "dat"} THEN "open" ELSE "failed")
  /\ dat' = IF p \in creates THEN {} ELSE dat
  /\ UNCHANGED <<creates, table, recs, chain, old, lock>>

LockAllNot(p) ==
  /\ st[p] = "lock" /\ Goto(p, "fstat")
  /\ UNCHANGED <<creates, fds, there, files, old, lock, harm>>
LockAllTry(p) ==
  /\ st[p] = "lock"
  /\ IF lock = Nobody THEN lock' = p /\ Goto(p, "fstat") ELSE Goto(p, "open") /\ UNCHANGED lock
  /\ UNCHANGED <<creates, fds, there, files, old, harm>>
LockAll(p) ==
  /\ st[p] = "lock" /\ lock = Nobody /\ lock' = p /\ Goto(p, "fstat")
  /\ UNCHANGED <<creates, fds, there, files, old, harm>>
Empty == table = "none" /\ recs = {}
Fstat(p) ==
  /\ st[p] = "fstat" /\ Goto(p, IF Empty THEN "init" ELSE "opened")
  /\ UNCHANGED <<creates, fds, there, files, old, lock, harm>>
\* The table is written at the start, over whatever is there by now.
InitTable(p) ==
  /\ st[p] = "init" /\ Goto(p, "opened") /\ table' = "whole" /\ chain' = {}
  /\ UNCHANGED <<creates, fds, there, recs, dat, old, lock, harm>>
Unlocks(p) == lock' = IF lock = p THEN Nobody ELSE lock
UnLock(p) ==
  /\ st[p] \in {"opened", "unlock"} /\ Goto(p, IF st[p] = "opened" THEN "open" ELSE "stored") /\ Unlocks(p)
  /\ UNCHANGED <<creates, fds, there, files, old, harm>>
-----------------------------------------------------------------------------
\* db_store of one record: the chain is locked, its pointer read; without a table the process ends.
StoreLock(p) ==
  /\ st[p] = "open" /\ lock = Nobody /\ lock' = p /\ Goto(p, "readptr")
  /\ UNCHANGED <<creates, fds, there, files, old, harm>>
Dies(p) == Goto(p, "dead") /\ Unlocks(p)
ReadPtr(p) ==
  /\ st[p] = "readptr"
  /\ \/ table # "none" /\ old' = [old EXCEPT ![p] = chain] /\ Goto(p, "dat") /\ UNCHANGED lock
     \/ table # "whole" /\ Dies(p) /\ UNCHANGED old
  /\ UNCHANGED <<creates, fds, there, files, harm>>
\* The free list is looked at first, in the same table, and is empty.
WriteDat(p) ==
  /\ st[p] = "dat"
  /\ \/ table # "none" /\ Goto(p, "idx") /\ dat' = dat \union {p} /\ UNCHANGED lock
     \/ table # "whole" /\ Dies(p) /\ UNCHANGED dat
  /\ UNCHANGED <<creates, fds, there, table, recs, chain, old, harm>>
\* The record goes to the end: to the start if the file has been emptied.
Tear == IF table = "none" THEN "torn" ELSE table
WriteIdx(p) ==
  /\ st[p] = "idx" /\ Goto(p, "ptr") /\ recs' = recs \union {p} /\ table' = Tear
  /\ UNCHANGED <<creates, fds, there, chain, dat, old, lock, harm>>
WritePtr(p) ==
  /\ st[p] = "ptr" /\ Goto(p, "unlock") /\ chain' = old[p] \union {p} /\ table' = Tear
  /\ UNCHANGED <<creates, fds, there, recs, dat, old, lock, harm>>
\* db_open dies in an error or is killed.
Killed(p) ==
  /\ st[p] \in {"opendat", "lock", "fstat", "init", "opened"} /\ Dies(p)
  /\ UNCHANGED <<creates, fds, there, files, old, harm>>
Ended == (\A p \in Proc : st[p] \in {"failed", "stored", "dead"}) /\ UNCHANGED vars

Next ==
  \/ \E p \in Proc :
       \/ OpenIdx(p) \/ OpenDat(p) \/ LockAll(p) \/ Fstat(p) \/ InitTable(p) \/ UnLock(p)
       \/ StoreLock(p) \/ ReadPtr(p) \/ WriteDat(p) \/ WriteIdx(p) \/ WritePtr(p) \/ Killed(p)
  \/ Ended
-----------------------------------------------------------------------------
(***************************************************************************)
(* db_open with O_CREAT and O_TRUNC returns a database that has its table, *)
(* however many processes create it at once and whichever dies, unless one *)
(* of them empties the file after another has found it initialised.        *)
(***************************************************************************)
OpenedReady == ~harm => \A p \in creates : st[p] \in HasHandle => table = "whole"

(***************************************************************************)
(* With the same exception no table is written over a record: what a       *)
(* process has stored stays on its chain, with its data, and no record is  *)
(* where the table belongs.                                                *)
(***************************************************************************)
RecordsKept ==
  ~harm => /\ table # "torn"
           /\ \A p \in Proc : st[p] = "stored" => p \in chain \intersect dat
=============================================================================
