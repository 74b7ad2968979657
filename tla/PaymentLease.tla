---------------------------- MODULE PaymentLease ----------------------------
(***************************************************************************)
(* What the gateway's idempotency store promises its callers, with no     *)
(* clock, no expiry dates and no background eviction: a reference that is *)
(* bound to a payment stays bound to it for a whole lease of TTL further   *)
(* clock readings, unless it is bound again or the process is replaced,    *)
(* and not one reading longer.                                             *)
(*                                                                         *)
(* IdempotencyStore (services/gateway/main.go) implements this module.     *)
(***************************************************************************)
EXTENDS Naturals

CONSTANTS
    References,  \* the idempotency keys clients send
    PaymentIDs,  \* the payment ids the gateway issues
    None,        \* no payment
    TTL          \* idempotencyTTL, in clock readings

VARIABLES
    holder,      \* holder[k]: the payment a lookup of k finds, or None
    lease        \* lease[k]: the readings of the clock for which it is found

leaseVars == <<holder, lease>>

LeaseInit ==
    /\ holder = [k \in References |-> None]
    /\ lease  = [k \in References |-> 0]

\* Reference k is bound to payment id, for a full lease.
Grant(k, id) ==
    /\ holder' = [holder EXCEPT ![k] = id]
    /\ lease'  = [lease EXCEPT ![k] = TTL + 1]

\* One reading of the clock passes: every lease is shorter by one.
Elapse ==
    /\ lease'  = [k \in References |-> IF lease[k] > 0 THEN lease[k] - 1 ELSE 0]
    /\ holder' = [k \in References |-> IF lease[k] > 1 THEN holder[k] ELSE None]

\* The process that held the bindings is gone.
Forget ==
    /\ holder' = [k \in References |-> None]
    /\ lease'  = [k \in References |-> 0]

LeaseNext ==
    \/ \E k \in References, id \in PaymentIDs : Grant(k, id)
    \/ Elapse
    \/ Forget

LeaseSpec == LeaseInit /\ [][LeaseNext]_leaseVars

=============================================================================
