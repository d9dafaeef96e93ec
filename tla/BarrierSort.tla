---------------------------- MODULE BarrierSort ----------------------------
(***************************************************************************)
(* The parallel sort of threads/barrier.c: NTHR threads sort TNUM numbers  *)
(* each, meet the main thread at a barrier, and the main thread merges     *)
(* their parts.  heapsort is the library's; one round of the outer loop of *)
(* merge is one step.                                                      *)
(***************************************************************************)
EXTENDS Naturals, FiniteSets

CONSTANTS
  NTHR, TNUM,
  RAND_MAX,   \* largest number random returns
  LONG_MAX    \* above it

VARIABLES
  nums, snums,
  input,      \* what nums was at first
  at,         \* "sort", "wait" or "done" for each thread, and for main
  idx, sidx   \* locals of merge

sortvars == <<nums, snums, input, at, idx, sidx>>

Thr == 0..(NTHR - 1)
Main == NTHR
NUMNUM == NTHR * TNUM
Part(t) == (t * TNUM)..((t + 1) * TNUM - 1)

SortInit ==
  /\ nums \in [0..(NUMNUM - 1) -> 0..RAND_MAX]
  /\ input = nums /\ snums = [k \in {} |-> 0]
  /\ at = [t \in Thr \cup {Main} |-> IF t = Main THEN "create" ELSE "sort"]
  /\ idx = [t \in Thr |-> t * TNUM] /\ sidx = 0

\* g has the numbers of f, each as often.
SameNumbers(f, g, D) ==
  \A v \in 0..RAND_MAX :
    Cardinality({k \in D : f[k] = v}) = Cardinality({k \in D : g[k] = v})
Ascending(f, D) == \A k, m \in D : k < m => f[k] <= f[m]

\* heapsort of one part, then pthread_barrier_wait.
SortPart(t) ==
  /\ at[t] = "sort"
  /\ \E f \in [Part(t) -> {nums[k] : k \in Part(t)}] :
       /\ Ascending(f, Part(t)) /\ SameNumbers(nums, f, Part(t))
       /\ nums' = [k \in DOMAIN nums |-> IF k \in Part(t) THEN f[k] ELSE nums[k]]
  /\ at' = [at EXCEPT ![t] = "wait"]
  /\ UNCHANGED <<snums, input, idx, sidx>>

\* Mutant: the barrier is made for the threads alone; main does not wait.
MainWaitNot ==
  /\ at[Main] = "create"
  /\ at' = [at EXCEPT ![Main] = "merge"]
  /\ UNCHANGED <<nums, snums, input, idx, sidx>>

MainWait ==
  /\ at[Main] = "create"
  /\ at' = [at EXCEPT ![Main] = "wait"]
  /\ UNCHANGED <<nums, snums, input, idx, sidx>>

\* The barrier, made for NTHR + 1 threads, lets them all go.
Barrier ==
  /\ \A t \in DOMAIN at : at[t] = "wait"
  /\ at' = [t \in DOMAIN at |-> IF t = Main THEN "merge" ELSE "done"]
  /\ UNCHANGED <<nums, snums, input, idx, sidx>>

\* The parts that still have numbers below LONG_MAX, and the first of those
\* that have the smallest.
Open == {t \in Thr : idx[t] < (t + 1) * TNUM /\ nums[idx[t]] < LONG_MAX}
MinIdx ==
  CHOOSE t \in Open : \A u \in Open :
    nums[idx[t]] < nums[idx[u]] \/ (nums[idx[t]] = nums[idx[u]] /\ t <= u)

Merge ==
  /\ at[Main] = "merge" /\ sidx < NUMNUM
  /\ snums' = [k \in 0..sidx |-> IF k = sidx THEN nums[idx[MinIdx]] ELSE snums[k]]
  /\ idx' = [idx EXCEPT ![MinIdx] = @ + 1] /\ sidx' = sidx + 1
  /\ UNCHANGED <<nums, input, at>>

PrintSorted ==
  /\ at[Main] = "merge" /\ sidx = NUMNUM
  /\ at' = [at EXCEPT ![Main] = "done"]
  /\ UNCHANGED <<nums, snums, input, idx, sidx>>

Ended == at[Main] = "done" /\ UNCHANGED sortvars

SortNext ==
  (\E t \in Thr : SortPart(t)) \/ MainWait \/ Barrier \/ Merge \/ PrintSorted \/ Ended

SortSpec == SortInit /\ [][SortNext]_sortvars
-----------------------------------------------------------------------------
(***************************************************************************)
(* What main prints is the input in order: the merge starts only after the *)
(* last part is sorted, and takes every number once.                       *)
(***************************************************************************)
SortedInput ==
  at[Main] = "done" =>
    Ascending(snums, DOMAIN input) /\ SameNumbers(input, snums, DOMAIN input)
=============================================================================
