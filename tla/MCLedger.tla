------------------------------ MODULE MCLedger ------------------------------
(***************************************************************************)
(* Instances of Ledger for TLC.  No symmetry: the main run also checks     *)
(* liveness.                                                               *)
(***************************************************************************)
EXTENDS Ledger
=============================================================================
