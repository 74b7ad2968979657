----------------------------- MODULE MCGateway ------------------------------
(***************************************************************************)
(* Instances of Gateway for TLC.  Calls, references and ids are only ever  *)
(* compared with each other, so the safety run may permute them; the runs  *)
(* with liveness properties use no symmetry.                               *)
(***************************************************************************)
EXTENDS Gateway, TLC

Symmetry ==
    Permutations(Requests) \union Permutations(References) \union Permutations(PaymentIDs)

=============================================================================
