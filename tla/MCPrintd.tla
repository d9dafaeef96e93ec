------------------------------ MODULE MCPrintd ------------------------------
(***************************************************************************)
(* Small instances of the print spooler for TLC.                           *)
(***************************************************************************)
EXTENDS PrintdInv, TLC

CONSTANTS c1, c2, c3

\* Clients run the same code.
Clients == Permutations(Client)
=============================================================================
