------------------------------ MODULE MCSigner ------------------------------
(***************************************************************************)
(* Instances of Signer for TLC.                                            *)
(***************************************************************************)
EXTENDS Signer, TLC

MCProviders == {"local", "aws-kms"}

\* Unset, one of the development names, and a production name.
MCEnvironments == {"", "dev", "production"}

Symmetry ==
    Permutations(Requests) \union Permutations(Payments) \union Permutations(ChainNames)
        \union Permutations(Transactions)

=============================================================================
