---------------------------- MODULE MCPaymentFlow ---------------------------
(***************************************************************************)
(* Instances of PaymentFlow for TLC: one partition holds every payment.    *)
(***************************************************************************)
EXTENDS PaymentFlow

CONSTANT ThePartition

MCPartitions == {ThePartition}

MCPlacement == [id \in PaymentIDs |-> ThePartition]

=============================================================================
