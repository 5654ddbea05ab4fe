------------------------------ MODULE MCJobTicket ------------------------------
(***************************************************************************)
(* Small instances of JobTicket for TLC.  Clients and the two sentinels    *)
(* are model values given in the configurations.                           *)
(***************************************************************************)
EXTENDS JobTicket, TLC

\* The clients run the same code: sound for the safety runs, not used with
\* liveness.
Symmetry == Permutations(Clients)
===============================================================================
