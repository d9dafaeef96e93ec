----------------------------- MODULE MCWorkers -----------------------------
(***************************************************************************)
(* Small instances of the list of client threads for TLC.                  *)
(***************************************************************************)
EXTENDS Workers

CONSTANTS t1, t2, t3
=============================================================================
