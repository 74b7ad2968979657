-------------------------- MODULE IdempotencyStore --------------------------
(***************************************************************************)
(* The gateway's in-process idempotency store, services/gateway/main.go    *)
(* lines 111-173.  Each operation holds the store's mutex from its first   *)
(* line to its last, so each is one atomic step: check, record, evict.     *)
(*                                                                         *)
(* `now' is the monotonic clock that time.Now() carries and that After and *)
(* Add work on; adjustments of the wall clock do not reach it.             *)
(***************************************************************************)
EXTENDS Naturals

CONSTANTS
    References,  \* the idempotency keys clients send
    PaymentIDs,  \* the payment ids the gateway issues
    None,        \* the absent map entry, payment, reference or answer
    TTL,         \* idempotencyTTL
    MaxTime      \* bound of the model: the last reading of the clock

Entry == [paymentID : PaymentIDs, expiresAt : Nat]

ASSUME StoreAssumption ==
    /\ TTL \in Nat
    /\ MaxTime \in Nat
    /\ None \notin References
    /\ None \notin PaymentIDs
    /\ None \notin Entry
    /\ None \notin Nat

VARIABLES
    entries,     \* idempotencyStore.entries: entries[k] is None when k is absent
    now          \* the clock

storeVars == <<entries, now>>

StoreTypeOK ==
    /\ entries \in [References -> Entry \union {None}]
    /\ now \in Nat

StoreInit ==
    /\ entries = [k \in References |-> None]
    /\ now = 0

Stored(k) == entries[k] # None

\* now.After(e.expiresAt): an entry is still good at the instant it expires.
Expired(k) == now > entries[k].expiresAt

\* The second result of check: the reference is known and has not expired.
Exists(k) ==
    /\ Stored(k)
    /\ ~ Expired(k)

Record_KeepsExpiry(k, id) ==
    /\ entries' = [entries EXCEPT ![k] =
                      [paymentID |-> id,
                       expiresAt |-> IF Stored(k) THEN entries[k].expiresAt ELSE now + TTL]]
    /\ UNCHANGED now

\* record: the reference now stands for this payment, whatever it stood for.
Record(k, id) ==
    /\ entries' = [entries EXCEPT ![k] = [paymentID |-> id, expiresAt |-> now + TTL]]
    /\ UNCHANGED now

\* evict: every expired entry is deleted in one pass under the lock.
Evict_AtExpiry ==
    /\ entries' = [k \in References |->
                      IF Stored(k) /\ now >= entries[k].expiresAt THEN None ELSE entries[k]]
    /\ UNCHANGED now

Evict_OneTTLLate ==
    /\ entries' = [k \in References |->
                      IF Stored(k) /\ now > entries[k].expiresAt + TTL THEN None ELSE entries[k]]
    /\ UNCHANGED now

Evict ==
    /\ entries' = [k \in References |->
                      IF Stored(k) /\ Expired(k) THEN None ELSE entries[k]]
    /\ UNCHANGED now

\* newIdempotencyStore: the map of a new process is empty.
NewStore ==
    /\ entries' = [k \in References |-> None]
    /\ UNCHANGED now

Tick ==
    /\ now < MaxTime
    /\ now' = now + 1
    /\ UNCHANGED entries

StoreNext ==
    \/ \E k \in References, id \in PaymentIDs : Record(k, id)
    \/ Evict
    \/ Tick
    \/ NewStore

StoreSpec == StoreInit /\ [][StoreNext]_storeVars

-----------------------------------------------------------------------------
(***************************************************************************)
(* The store as its callers see it.  An expired entry that evict has not   *)
(* reached yet is as absent as one that it has deleted, so eviction is     *)
(* invisible: it never shortens a lease and never brings one back.         *)
(***************************************************************************)
holderBar == [k \in References |-> IF Exists(k) THEN entries[k].paymentID ELSE None]

leaseBar == [k \in References |-> IF Exists(k) THEN (entries[k].expiresAt - now) + 1 ELSE 0]

Lease == INSTANCE PaymentLease WITH holder <- holderBar, lease <- leaseBar

LeaseSpec == Lease!LeaseSpec

=============================================================================
