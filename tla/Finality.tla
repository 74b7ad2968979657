------------------------------ MODULE Finality ------------------------------
(***************************************************************************)
(* The finality rules of pkg/finality: a registry that is fixed when the   *)
(* process starts, and the questions asked of it.  Durations are in        *)
(* milliseconds.                                                           *)
(***************************************************************************)
EXTENDS Naturals

Rule(chain, confirmations, blockTime, finality, probabilistic) ==
    [chain |-> chain, confirmations |-> confirmations, blockTime |-> blockTime,
     finality |-> finality, probabilistic |-> probabilistic]

\* Each rule names its chain, beside the key under which it is kept.
rules ==
    [ethereum |-> Rule("ethereum", 12, 12000, 144000, FALSE),
     solana   |-> Rule("solana",   1, 400, 400, FALSE),
     tron     |-> Rule("tron",     19, 3000, 57000, FALSE),
     polygon  |-> Rule("polygon",  128, 2000, 256000, TRUE),
     bsc      |-> Rule("bsc",      15, 3000, 45000, TRUE),
     arbitrum |-> Rule("arbitrum", 1, 250, 250, FALSE),
     base     |-> Rule("base",     1, 2000, 2000, FALSE),
     stellar  |-> Rule("stellar",  1, 5000, 5000, FALSE)]

\* GetRule(c) returns an error.
Unsupported(c) == c \notin DOMAIN rules

\* Chains(): the keys of the map, in the order of an iteration over it, which
\* is no order at all.
Chains == DOMAIN rules

\* IsFinal(chain, confirmations), for a supported chain.
IsFinal_Exceeds(c, confirmations) == confirmations > rules[c].confirmations

IsFinal(c, confirmations) == confirmations >= rules[c].confirmations

=============================================================================
