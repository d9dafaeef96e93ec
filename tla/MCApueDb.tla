------------------------------ MODULE MCApueDb ------------------------------
(***************************************************************************)
(* Small instances of the database library for TLC.                        *)
(***************************************************************************)
EXTENDS ApueDbRefine, TLC

CONSTANTS p1, p2, p3, k1, k2, d1, d2, d3

\* Two keys on one chain, of the same length or not.
OneChain == k1 :> 1 @@ k2 :> 1
TwoChains == k1 :> 1 @@ k2 :> 2
SameKeyLen == k1 :> 1 @@ k2 :> 1
TwoKeyLens == k1 :> 1 @@ k2 :> 2

\* Two data strings of different lengths, and one that is too long.
Lengths == d1 :> 2 @@ d2 :> 3
WithTooLong == d1 :> 2 @@ d2 :> 3 @@ d3 :> 9

\* Processes run the same code: the runs without crashes and without
\* liveness take the states up to a renaming of the processes.
Processes == Permutations(Proc)
=============================================================================
