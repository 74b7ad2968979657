---------------------------- MODULE MCHTTPStack -----------------------------
(***************************************************************************)
(* An instance of HTTPStack for TLC.                                       *)
(***************************************************************************)
EXTENDS HTTPStack
=============================================================================
