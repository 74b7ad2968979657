----------------------- MODULE IdempotencyStoreProofs -----------------------
(***************************************************************************)
(* Proofs about the gateway's idempotency store: its type invariant, and   *)
(* that it implements PaymentLease, for every set of references and        *)
(* payments and every TTL.                                                 *)
(***************************************************************************)
EXTENDS IdempotencyStore, TLAPS

(***************************************************************************)
(* What one step of the store does to the type of its state.               *)
(***************************************************************************)
LEMMA StoreTypeInit == StoreInit => StoreTypeOK
  BY StoreAssumption DEF StoreInit, StoreTypeOK

LEMMA RecordType ==
    ASSUME StoreTypeOK, NEW k \in References, NEW id \in PaymentIDs, Record(k, id)
    PROVE  StoreTypeOK'
  <1>1. [paymentID |-> id, expiresAt |-> now + TTL] \in Entry
    BY StoreAssumption DEF Entry, StoreTypeOK
  <1> QED
    BY <1>1 DEF Record, StoreTypeOK

LEMMA StoreTypeStep ==
    ASSUME StoreTypeOK, [StoreNext]_storeVars
    PROVE  StoreTypeOK'
  <1>1. CASE \E k \in References, id \in PaymentIDs : Record(k, id)
    BY <1>1, RecordType
  <1>2. CASE Evict
    BY <1>2 DEF Evict, StoreTypeOK
  <1>3. CASE Tick
    BY <1>3 DEF Tick, StoreTypeOK
  <1>4. CASE NewStore
    BY <1>4 DEF NewStore, StoreTypeOK
  <1>5. CASE UNCHANGED storeVars
    BY <1>5 DEF storeVars, StoreTypeOK
  <1> QED
    BY <1>1, <1>2, <1>3, <1>4, <1>5 DEF StoreNext

(***************************************************************************)
(* Type correctness of the store: an entry is a payment id with an expiry  *)
(* date, or absent (main.go:118-127).                                      *)
(***************************************************************************)
THEOREM StoreTypeCorrect == StoreSpec => []StoreTypeOK
  <1>1. StoreInit => StoreTypeOK
    BY StoreTypeInit
  <1>2. StoreTypeOK /\ [StoreNext]_storeVars => StoreTypeOK'
    BY StoreTypeStep
  <1> QED
    BY <1>1, <1>2, PTL DEF StoreSpec

-----------------------------------------------------------------------------
(***************************************************************************)
(* One lemma per operation: which step of the lease it is.                 *)
(***************************************************************************)
LEMMA RecordGrants ==
    ASSUME StoreTypeOK, NEW k \in References, NEW id \in PaymentIDs, Record(k, id)
    PROVE  Lease!Grant(k, id)
  <1> DEFINE e == [paymentID |-> id, expiresAt |-> now + TTL]
  <1>1. e \in Entry /\ e # None
    BY StoreAssumption DEF Entry, StoreTypeOK
  <1>2. now' = now /\ entries' = [entries EXCEPT ![k] = e]
    BY DEF Record
  <1>3. entries'[k] = e
    BY <1>2 DEF StoreTypeOK
  <1>4. Exists(k)' /\ (entries'[k].expiresAt - now') + 1 = TTL + 1
    BY <1>1, <1>2, <1>3, StoreAssumption DEF Exists, Stored, Expired, StoreTypeOK
  <1>5. \A j \in References \ {k} : entries'[j] = entries[j]
    BY <1>2 DEF StoreTypeOK
  <1>6. \A j \in References \ {k} : Exists(j)' = Exists(j)
    BY <1>2, <1>5 DEF Exists, Stored, Expired
  <1>7. holderBar' = [holderBar EXCEPT ![k] = id]
    <2>1. holderBar'[k] = id
      BY <1>3, <1>4 DEF holderBar
    <2>2. \A j \in References \ {k} : holderBar'[j] = holderBar[j]
      BY <1>5, <1>6 DEF holderBar
    <2>3. holderBar' = [j \in References |-> IF j = k THEN id ELSE holderBar[j]]
      BY <2>1, <2>2 DEF holderBar
    <2> QED
      BY <2>3 DEF holderBar
  <1>8. leaseBar' = [leaseBar EXCEPT ![k] = TTL + 1]
    <2>1. leaseBar'[k] = TTL + 1
      BY <1>4 DEF leaseBar
    <2>2. \A j \in References \ {k} : leaseBar'[j] = leaseBar[j]
      BY <1>2, <1>5, <1>6 DEF leaseBar
    <2>3. leaseBar' = [j \in References |-> IF j = k THEN TTL + 1 ELSE leaseBar[j]]
      BY <2>1, <2>2 DEF leaseBar
    <2> QED
      BY <2>3 DEF leaseBar
  <1> QED
    BY <1>7, <1>8 DEF Lease!Grant

LEMMA EvictIsInvisible ==
    ASSUME StoreTypeOK, Evict
    PROVE  UNCHANGED <<holderBar, leaseBar>>
  <1>1. now' = now
    BY DEF Evict
  <1>2. \A j \in References :
           entries'[j] = IF Stored(j) /\ Expired(j) THEN None ELSE entries[j]
    BY DEF Evict
  <1>3. \A j \in References : Exists(j) => entries'[j] = entries[j] /\ Exists(j)'
    BY <1>1, <1>2 DEF Exists, Stored, Expired
  <1>4. \A j \in References : ~ Exists(j) => ~ Exists(j)'
    BY <1>1, <1>2 DEF Exists, Stored, Expired
  <1> QED
    BY <1>1, <1>3, <1>4 DEF holderBar, leaseBar

LEMMA TickElapses ==
    ASSUME StoreTypeOK, Tick
    PROVE  Lease!Elapse
  <1>1. now' = now + 1 /\ entries' = entries
    BY DEF Tick
  <1>2. ASSUME NEW j \in References, Exists(j)
        PROVE  /\ leaseBar[j] = (entries[j].expiresAt - now) + 1
               /\ leaseBar[j] \in Nat \ {0}
               /\ leaseBar[j] > 1 <=> Exists(j)'
               /\ leaseBar'[j] = leaseBar[j] - 1
               /\ holderBar'[j] = IF leaseBar[j] > 1 THEN holderBar[j] ELSE None
    <2>1. entries[j] \in Entry
      BY <1>2 DEF Exists, Stored, StoreTypeOK
    <2>2. entries[j].expiresAt \in Nat /\ now \in Nat
      BY <2>1 DEF Entry, StoreTypeOK
    <2>3. now <= entries[j].expiresAt
      BY <1>2, <2>2 DEF Exists, Expired
    <2>4. leaseBar[j] = (entries[j].expiresAt - now) + 1
      BY <1>2 DEF leaseBar
    <2>5. leaseBar[j] > 1 <=> Exists(j)'
      BY <1>1, <1>2, <2>2, <2>4 DEF Exists, Stored, Expired
    <2>6. leaseBar'[j] = IF Exists(j)' THEN (entries[j].expiresAt - now') + 1 ELSE 0
      BY <1>1 DEF leaseBar
    <2>7. leaseBar'[j] = leaseBar[j] - 1
      BY <1>1, <2>2, <2>3, <2>4, <2>5, <2>6
    <2>8. holderBar'[j] = IF Exists(j)' THEN entries[j].paymentID ELSE None
      BY <1>1 DEF holderBar
    <2>9. holderBar[j] = entries[j].paymentID
      BY <1>2 DEF holderBar
    <2> QED
      BY <2>2, <2>3, <2>4, <2>5, <2>7, <2>8, <2>9
  <1>3. ASSUME NEW j \in References, ~ Exists(j)
        PROVE  /\ leaseBar[j] = 0
               /\ leaseBar'[j] = 0
               /\ holderBar'[j] = None
    <2>1. ~ Exists(j)'
      <3>1. CASE ~ Stored(j)
        BY <1>1, <3>1 DEF Exists, Stored
      <3>2. CASE Stored(j) /\ Expired(j)
        <4>1. entries[j].expiresAt \in Nat /\ now \in Nat
          BY <3>2 DEF Stored, StoreTypeOK, Entry
        <4> QED
          BY <1>1, <3>2, <4>1 DEF Exists, Stored, Expired
      <3> QED
        BY <1>3, <3>1, <3>2 DEF Exists
    <2> QED
      BY <1>3, <2>1 DEF leaseBar, holderBar
  <1>4. leaseBar' = [j \in References |-> IF leaseBar[j] > 0 THEN leaseBar[j] - 1 ELSE 0]
    <2>1. \A j \in References :
             leaseBar'[j] = IF leaseBar[j] > 0 THEN leaseBar[j] - 1 ELSE 0
      BY <1>2, <1>3
    <2> QED
      BY <2>1 DEF leaseBar
  <1>5. holderBar' = [j \in References |-> IF leaseBar[j] > 1 THEN holderBar[j] ELSE None]
    <2>1. \A j \in References :
             holderBar'[j] = IF leaseBar[j] > 1 THEN holderBar[j] ELSE None
      BY <1>2, <1>3
    <2> QED
      BY <2>1 DEF holderBar
  <1> QED
    BY <1>4, <1>5 DEF Lease!Elapse

LEMMA NewStoreForgets ==
    ASSUME NewStore
    PROVE  Lease!Forget
  BY DEF NewStore, Lease!Forget, holderBar, leaseBar, Exists, Stored

LEMMA LeaseStep ==
    ASSUME StoreTypeOK, [StoreNext]_storeVars
    PROVE  [Lease!LeaseNext]_(Lease!leaseVars)
  <1>1. CASE \E k \in References, id \in PaymentIDs : Record(k, id)
    BY <1>1, RecordGrants DEF Lease!LeaseNext
  <1>2. CASE Evict
    BY <1>2, EvictIsInvisible DEF Lease!leaseVars
  <1>3. CASE Tick
    BY <1>3, TickElapses DEF Lease!LeaseNext
  <1>4. CASE NewStore
    BY <1>4, NewStoreForgets DEF Lease!LeaseNext
  <1>5. CASE UNCHANGED storeVars
    BY <1>5 DEF storeVars, Lease!leaseVars, holderBar, leaseBar, Exists, Stored, Expired
  <1> QED
    BY <1>1, <1>2, <1>3, <1>4, <1>5 DEF StoreNext

LEMMA LeaseInitial == StoreInit => Lease!LeaseInit
  BY DEF StoreInit, Lease!LeaseInit, holderBar, leaseBar, Exists, Stored

(***************************************************************************)
(* The store implements PaymentLease (main.go:113-173): whatever evict     *)
(* does and whenever it runs, a reference is found for exactly its TTL     *)
(* after it was last recorded, unless the process is replaced.             *)
(***************************************************************************)
THEOREM StoreImplementsLease == StoreSpec => LeaseSpec
  <1>1. StoreInit => Lease!LeaseInit
    BY LeaseInitial
  <1>2. StoreTypeOK /\ [StoreNext]_storeVars => [Lease!LeaseNext]_(Lease!leaseVars)
    BY LeaseStep
  <1> QED
    BY <1>1, <1>2, StoreTypeCorrect, PTL DEF StoreSpec, LeaseSpec, Lease!LeaseSpec

=============================================================================
