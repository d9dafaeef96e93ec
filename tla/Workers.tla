------------------------------ MODULE Workers ------------------------------
(***************************************************************************)
(* The list of client threads of printer/printd.c, pointer by pointer: a   *)
(* thread links itself when it starts (add_worker) and unlinks itself when *)
(* it ends or is cancelled (client_cleanup); SIGTERM cancels the threads   *)
(* on the list (kill_workers) before the daemon exits.  The structure of a *)
(* thread is used as its address.  Every operation runs under workerlock   *)
(* and is one step.                                                        *)
(*                                                                         *)
(* Once the head points to a structure that was freed, what the code does  *)
(* next is undefined, and the model stops there.                           *)
(***************************************************************************)
EXTENDS Naturals, FiniteSets

CONSTANTS
  Thread,     \* client threads
  Null,       \* the null pointer
  MaxActive   \* bound: client threads at the same time

VARIABLES
  workers, next, prev,  \* head of the list and links of the structures
  pc,                   \* "new", "run", "gone"
  open,                 \* threads whose socket is open
  freed,                \* structures that were freed
  cancelled,            \* threads kill_workers has cancelled
  killed                \* SIGTERM was handled

vars == <<workers, next, prev, pc, open, freed, cancelled, killed>>

Init ==
  /\ workers = Null
  /\ next = [t \in Thread |-> Null] /\ prev = [t \in Thread |-> Null]
  /\ pc = [t \in Thread |-> "new"]
  /\ open = {} /\ freed = {} /\ cancelled = {} /\ killed = FALSE

Running == {t \in Thread : pc[t] = "run"}
Defined == workers \notin freed

\* What a walk along the next pointers meets.
Listed ==
  LET W[n \in 0..Cardinality(Thread)] ==
        IF n = 0 THEN {workers} \ {Null}
        ELSE W[n - 1] \cup ({next[t] : t \in W[n - 1]} \ {Null})
  IN W[Cardinality(Thread)]
-----------------------------------------------------------------------------
\* The head changes only when the list is empty.
AddWorker(t) ==
  /\ Defined /\ ~killed
  /\ pc[t] = "new" /\ Cardinality(Running) < MaxActive
  /\ pc' = [pc EXCEPT ![t] = "run"]
  /\ open' = open \cup {t}
  /\ next' = [next EXCEPT ![t] = workers]
  /\ \/ workers = Null /\ workers' = t /\ UNCHANGED prev
     \/ workers # Null /\ UNCHANGED workers /\ prev' = [prev EXCEPT ![workers] = t]
  /\ UNCHANGED <<freed, cancelled, killed>>

\* Link the neighbours of t to each other.
Remove(t) ==
  /\ prev' = [u \in Thread |-> IF u = next[t] THEN prev[t] ELSE prev[u]]
  /\ next' = [u \in Thread |-> IF u = prev[t] THEN next[t] ELSE next[u]]
  /\ workers' = IF prev[t] = Null THEN next[t] ELSE workers

\* A thread that is not found on the list keeps its structure and its socket.
ClientCleanup(t) ==
  /\ Defined /\ pc[t] = "run"
  /\ pc' = [pc EXCEPT ![t] = "gone"]
  /\ \/ /\ t \in Listed
        /\ Remove(t)
        /\ open' = open \ {t} /\ freed' = freed \cup {t}
     \/ /\ t \notin Listed
        /\ UNCHANGED <<workers, next, prev, open, freed>>
  /\ UNCHANGED <<cancelled, killed>>

KillWorkers ==
  /\ Defined /\ ~killed
  /\ killed' = TRUE /\ cancelled' = Listed
  /\ UNCHANGED <<workers, next, prev, pc, open, freed>>

Next == (\E t \in Thread : AddWorker(t) \/ ClientCleanup(t)) \/ KillWorkers

Spec == Init /\ [][Next]_vars
-----------------------------------------------------------------------------
(***************************************************************************)
(* kill_workers cancels every client thread that is running.               *)
(***************************************************************************)
KillsEveryWorker == killed => Running \subseteq cancelled
=============================================================================
