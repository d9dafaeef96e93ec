------------------------------ MODULE JobQueue ------------------------------
(***************************************************************************)
(* The job queue of threads/rwlock.c: a doubly linked list under a         *)
(* reader-writer lock.  A job names the thread that is to do it; a worker  *)
(* finds its job with the lock held for reading, lets go of the lock, and  *)
(* removes the job with the lock held for writing.  Each function runs     *)
(* under the lock and is one step.                                         *)
(***************************************************************************)
EXTENDS Naturals, FiniteSets

CONSTANTS Job, Worker, NoJob

\* A job is a structure in memory, and NoJob is the null pointer.
ASSUME JobAssumption == IsFiniteSet(Job) /\ NoJob \notin Job

VARIABLES
  q_head, q_tail, j_next, j_prev,
  j_id,       \* thread that handles a job
  found,      \* what job_find has returned to a worker that has not removed it
  queued      \* history: jobs that were inserted and not removed

jobvars == <<q_head, q_tail, j_next, j_prev, j_id, found, queued>>

\* queue_init; what a job holds before it is inserted is never read.
JobInit ==
  /\ q_head = NoJob /\ q_tail = NoJob
  /\ j_next = [j \in Job |-> NoJob] /\ j_prev = [j \in Job |-> NoJob]
  /\ j_id = [j \in Job |-> NoJob]
  /\ found = [w \in Worker |-> NoJob] /\ queued = {}

\* Assign v to field f of job j, when there is such a job.
Set(f, j, v) == [k \in Job |-> IF k = j THEN v ELSE f[k]]

Insert(j, w) ==
  /\ j \notin queued
  /\ j_id' = [j_id EXCEPT ![j] = w] /\ queued' = queued \cup {j}
  /\ UNCHANGED found

\* job_insert, at the head.
JobInsert(j, w) ==
  /\ Insert(j, w)
  /\ j_next' = Set(j_next, j, q_head)
  /\ j_prev' = Set(Set(j_prev, j, NoJob), q_head, j)
  /\ q_tail' = IF q_head = NoJob THEN j ELSE q_tail
  /\ q_head' = j

\* job_append, at the tail.
JobAppend(j, w) ==
  /\ Insert(j, w)
  /\ j_prev' = Set(j_prev, j, q_tail)
  /\ j_next' = Set(Set(j_next, j, NoJob), q_tail, j)
  /\ q_head' = IF q_tail = NoJob THEN j ELSE q_head
  /\ q_tail' = j

\* The jobs from job j on, in the order of j_next.
From(j) ==
  CHOOSE q \in [0..Cardinality(Job) -> Job \cup {NoJob}] :
    /\ q[0] = j
    /\ \A k \in 1..Cardinality(Job) :
         q[k] = IF q[k - 1] = NoJob THEN NoJob ELSE j_next[q[k - 1]]

\* Mutant: job_find returns the first job, whoever is to do it.
JobFindAny(w) ==
  /\ found[w] = NoJob /\ q_head # NoJob
  /\ found' = [found EXCEPT ![w] = q_head]
  /\ UNCHANGED <<q_head, q_tail, j_next, j_prev, j_id, queued>>

\* job_find: the first job of this worker.
JobFind(w) ==
  LET q == From(q_head)
      Mine(k) == q[k] # NoJob /\ j_id[q[k]] = w
  IN
  /\ found[w] = NoJob
  /\ \E k \in DOMAIN q : /\ Mine(k) /\ \A m \in 0..(k - 1) : ~Mine(m)
                         /\ found' = [found EXCEPT ![w] = q[k]]
  /\ UNCHANGED <<q_head, q_tail, j_next, j_prev, j_id, queued>>

\* Mutant: the last job of the list is unlinked like the first.
JobRemoveTail(w) ==
  LET j == found[w] IN
  /\ j # NoJob
  /\ q_head' = IF j = q_head THEN j_next[j] ELSE q_head
  /\ q_tail' = IF j = q_head /\ j = q_tail THEN NoJob ELSE q_tail
  /\ j_next' = IF j = q_head THEN j_next ELSE Set(j_next, j_prev[j], j_next[j])
  /\ j_prev' = Set(j_prev, j_next[j], j_prev[j])
  /\ found' = [found EXCEPT ![w] = NoJob] /\ queued' = queued \ {j}
  /\ UNCHANGED j_id

\* job_remove: at the head, at the tail, in between.
JobRemove(w) ==
  LET j == found[w] IN
  /\ j # NoJob
  /\ \/ /\ j = q_head
        /\ q_head' = j_next[j]
        /\ \/ j = q_tail /\ q_tail' = NoJob /\ UNCHANGED j_prev
           \/ /\ j # q_tail /\ UNCHANGED q_tail
              /\ j_prev' = Set(j_prev, j_next[j], j_prev[j])
        /\ UNCHANGED j_next
     \/ /\ j # q_head /\ j = q_tail
        /\ q_tail' = j_prev[j]
        /\ j_next' = Set(j_next, j_prev[j], j_next[j])
        /\ UNCHANGED <<q_head, j_prev>>
     \/ /\ j # q_head /\ j # q_tail
        /\ j_next' = Set(j_next, j_prev[j], j_next[j])
        /\ j_prev' = Set(j_prev, j_next[j], j_prev[j])
        /\ UNCHANGED <<q_head, q_tail>>
  /\ found' = [found EXCEPT ![w] = NoJob] /\ queued' = queued \ {j}
  /\ UNCHANGED j_id

JobNext ==
  \E w \in Worker :
    \/ \E j \in Job : JobInsert(j, w) \/ JobAppend(j, w)
    \/ JobFind(w) \/ JobRemove(w)

JobSpec == JobInit /\ [][JobNext]_jobvars
-----------------------------------------------------------------------------
(***************************************************************************)
(* The list holds exactly the jobs that were inserted and not removed,     *)
(* each once; it ends at q_tail, and j_prev leads back along it            *)
(* (job_insert, job_append, job_remove at the head, the tail and between). *)
(***************************************************************************)
WellLinked ==
  LET q == From(q_head)
      In == {k \in DOMAIN q : q[k] # NoJob}
  IN
  /\ {q[k] : k \in In} = queued /\ Cardinality(In) = Cardinality(queued)
  /\ q_tail = IF queued = {} THEN NoJob ELSE q[Cardinality(queued) - 1]
  /\ \A k \in In : j_prev[q[k]] = IF k = 0 THEN NoJob ELSE q[k - 1]

(***************************************************************************)
(* The job that job_find returned is still on the list when its worker     *)
(* removes it, although the lock was released in between: no other worker  *)
(* looks for it.                                                           *)
(***************************************************************************)
FoundStillQueued == \A w \in Worker : found[w] # NoJob => found[w] \in queued
=============================================================================
