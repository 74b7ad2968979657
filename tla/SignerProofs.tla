---------------------------- MODULE SignerProofs ----------------------------
(***************************************************************************)
(* Proofs about the signer, for every set of calls and transactions, every *)
(* set of providers and environments, and every number of processes.       *)
(*                                                                         *)
(* The inductive invariant is IInv.  Its parts, apart from TypeOK:         *)
(*   Progress         what a handler has in hand at each of its steps;     *)
(*   PublishedSoFar   which calls have an event in the topic;              *)
(*   Guarded          a process that is up has passed the guard, and only  *)
(*                    such a process has handlers.                         *)
(***************************************************************************)
EXTENDS Signer, TLAPS

Progress ==
    \A r \in Requests :
        /\ pc[r] \in {"sign", "publish", "respond"} => body[r] \in SignRequest
        /\ answer[r] # None => pc[r] = "done"

\* The event of r, as Publish appended it.
EventAt(i, r) ==
    /\ topic[i].from = r
    /\ topic[i].payment = body[r].payment
    /\ topic[i].txHash = TxHash(body[r].tx)

PublishedSoFar ==
    \A r \in Requests :
        /\ pc[r] \in {"idle", "decode", "sign", "publish"} =>
              \A i \in DOMAIN topic : topic[i].from # r
        /\ pc[r] = "respond" => \E i \in DOMAIN topic : EventAt(i, r)

Guarded ==
    /\ phase # "down" => starts # 0 /\ GuardPasses(kmsProvider, appEnv)
    /\ phase = "down" => InFlight = {}

IInv ==
    /\ TypeOK
    /\ Progress
    /\ PublishedSoFar
    /\ Guarded
    /\ SignedMeansPublished
    /\ LocalProviderStaysInDevelopment

-----------------------------------------------------------------------------
(***************************************************************************)
(* Publish appends the event of its call, and nothing else moves.          *)
(***************************************************************************)
LEMMA PublishAppends ==
    ASSUME TypeOK, Progress, NEW r \in Requests, Publish(r)
    PROVE  /\ topic' \in Seq(Event)
           /\ DOMAIN topic' = DOMAIN topic \union {Len(topic) + 1}
           /\ Len(topic) + 1 \notin DOMAIN topic
           /\ \A i \in DOMAIN topic : topic'[i] = topic[i]
           /\ topic'[Len(topic) + 1] = EventOf(r)
  <1>1. EventOf(r) \in Event
    BY DEF Publish, Progress, EventOf, Event, SignRequest
  <1>2. topic \in Seq(Event) /\ topic' = Append(topic, EventOf(r))
    BY DEF TypeOK, Publish
  <1>3. /\ topic' \in Seq(Event)
        /\ DOMAIN topic = 1 .. Len(topic) /\ Len(topic) \in Nat
        /\ DOMAIN topic' = 1 .. (Len(topic) + 1)
        /\ \A i \in 1 .. Len(topic) : topic'[i] = topic[i]
        /\ topic'[Len(topic) + 1] = EventOf(r)
    BY <1>1, <1>2
  <1> QED
    BY <1>3

(***************************************************************************)
(* Types: one step per action.                                             *)
(***************************************************************************)
LEMMA TypeStep ==
    ASSUME TypeOK, Progress, Guarded, [Next]_vars
    PROVE  TypeOK'
  <1> USE SignerAssumption DEF TypeOK, configVars, Reply
  <1>1. CASE Start
    <2>1. starts' \in Nat /\ starts' # 0
      BY <1>1 DEF Start
    <2>2. kmsProvider' \in Providers /\ appEnv' \in Environments
      BY <1>1 DEF Start
    <2>3. phase' \in {"serving", "down"} /\ closed' = FALSE
      BY <1>1 DEF Start
    <2>4. UNCHANGED <<pc, body, answer, topic, stubUses>>
      BY <1>1 DEF Start
    <2> QED
      BY <2>1, <2>2, <2>3, <2>4
  <1>2. CASE StopServing \/ ShutdownReturns \/ CloseProducer
    BY <1>2 DEF StopServing, ShutdownReturns, CloseProducer
  <1>3. CASE Die
    BY <1>3 DEF Die
  <1>4. ASSUME NEW r \in Requests, Accept(r)
        PROVE  TypeOK'
    BY <1>4 DEF Accept
  <1>5. ASSUME NEW r \in Requests, RejectBody(r)
        PROVE  TypeOK'
    <2>1. [status |-> 400] \in Answer
      BY DEF Answer
    <2> QED
      BY <1>5, <2>1 DEF RejectBody
  <1>6. ASSUME NEW r \in Requests, DecodeBody(r)
        PROVE  TypeOK'
    BY <1>6 DEF DecodeBody
  <1>7. ASSUME NEW r \in Requests, Sign(r)
        PROVE  TypeOK'
    <2>1. phase # "down"
      BY <1>7 DEF Sign, Guarded, InFlight
    <2>2. kmsProvider \in Providers /\ appEnv \in Environments
      BY <2>1 DEF Guarded
    <2> QED
      BY <1>7, <2>2 DEF Sign
  <1>8. ASSUME NEW r \in Requests, Publish(r)
        PROVE  TypeOK'
    BY <1>8, PublishAppends DEF Publish
  <1>9. ASSUME NEW r \in Requests, PublishRefused(r)
        PROVE  TypeOK'
    <2>1. [status |-> 503] \in Answer
      BY DEF Answer
    <2> QED
      BY <1>9, <2>1 DEF PublishRefused
  <1>10. ASSUME NEW r \in Requests, RespondSigned(r)
         PROVE  TypeOK'
    <2>1. body[r] \in SignRequest
      BY <1>10 DEF RespondSigned, Progress
    <2>2. [status |-> 200, payment |-> body[r].payment, txHash |-> TxHash(body[r].tx)] \in Answer
      BY <2>1 DEF Answer, SignRequest
    <2> QED
      BY <1>10, <2>2 DEF RespondSigned
  <1>11. CASE UNCHANGED vars
    BY <1>11 DEF vars
  <1> QED
    BY <1>1, <1>2, <1>3, <1>4, <1>5, <1>6, <1>7, <1>8, <1>9, <1>10, <1>11 DEF Next, HandlerStep

(***************************************************************************)
(* A handler has its body in hand when it needs it, and ends with its      *)
(* answer.                                                                 *)
(***************************************************************************)
LEMMA ProgressStep ==
    ASSUME TypeOK, Progress, [Next]_vars
    PROVE  Progress'
  <1> USE DEF TypeOK, Progress, Reply
  <1>1. CASE Start \/ StopServing \/ ShutdownReturns \/ CloseProducer
    BY <1>1 DEF Start, StopServing, ShutdownReturns, CloseProducer
  <1>2. CASE Die
    BY <1>2 DEF Die, InFlight
  <1>3. ASSUME NEW r \in Requests, Accept(r) \/ RejectBody(r) \/ DecodeBody(r)
        PROVE  Progress'
    BY <1>3 DEF Accept, RejectBody, DecodeBody
  <1>4. ASSUME NEW r \in Requests,
               Sign(r) \/ Publish(r) \/ PublishRefused(r) \/ RespondSigned(r)
        PROVE  Progress'
    BY <1>4 DEF Sign, Publish, PublishRefused, RespondSigned
  <1>5. CASE UNCHANGED vars
    BY <1>5 DEF vars
  <1> QED
    BY <1>1, <1>2, <1>3, <1>4, <1>5 DEF Next, HandlerStep

(***************************************************************************)
(* A call has an event in the topic from its Publish on, and not before.   *)
(***************************************************************************)
LEMMA PublishedSoFarStep ==
    ASSUME TypeOK, Progress, PublishedSoFar, [Next]_vars
    PROVE  PublishedSoFar'
  <1> USE DEF TypeOK, PublishedSoFar, EventAt, Reply
  <1>1. CASE Start \/ StopServing \/ ShutdownReturns \/ CloseProducer
    BY <1>1 DEF Start, StopServing, ShutdownReturns, CloseProducer
  <1>2. CASE Die
    BY <1>2 DEF Die, InFlight
  <1>3. ASSUME NEW r \in Requests, Accept(r) \/ RejectBody(r) \/ DecodeBody(r)
        PROVE  PublishedSoFar'
    <2>1. UNCHANGED topic /\ \A q \in Requests \ {r} : pc'[q] = pc[q] /\ body'[q] = body[q]
      BY <1>3 DEF Accept, RejectBody, DecodeBody
    <2>2. pc[r] \in {"idle", "decode"} /\ pc'[r] # "respond"
      BY <1>3 DEF Accept, RejectBody, DecodeBody
    <2> QED
      BY <2>1, <2>2
  <1>4. ASSUME NEW r \in Requests, Sign(r) \/ PublishRefused(r) \/ RespondSigned(r)
        PROVE  PublishedSoFar'
    <2>1. UNCHANGED <<body, topic>> /\ \A q \in Requests \ {r} : pc'[q] = pc[q]
      BY <1>4 DEF Sign, PublishRefused, RespondSigned
    <2>2. \/ pc[r] = "sign" /\ pc'[r] = "publish"
          \/ pc'[r] = "done"
      BY <1>4 DEF Sign, PublishRefused, RespondSigned
    <2> QED
      BY <2>1, <2>2
  <1>5. ASSUME NEW r \in Requests, Publish(r)
        PROVE  PublishedSoFar'
    <2>1. /\ pc[r] = "publish" /\ pc' = [pc EXCEPT ![r] = "respond"]
          /\ UNCHANGED body
      BY <1>5 DEF Publish
    <2>2. /\ DOMAIN topic' = DOMAIN topic \union {Len(topic) + 1}
          /\ \A i \in DOMAIN topic : topic'[i] = topic[i]
          /\ topic'[Len(topic) + 1] = EventOf(r)
      BY <1>5, PublishAppends
    <2>3. topic'[Len(topic) + 1].from = r
      BY <2>2 DEF EventOf
    <2>4. \E i \in DOMAIN topic' : EventAt(i, r)'
      <3>1. /\ EventOf(r).from = r
            /\ EventOf(r).payment = body[r].payment
            /\ EventOf(r).txHash = TxHash(body[r].tx)
        BY DEF EventOf
      <3> HIDE DEF PublishedSoFar, TypeOK
      <3>2. PICK i \in DOMAIN topic' : topic'[i] = EventOf(r)
        BY <2>2
      <3>3. EventAt(i, r)'
        BY <3>1, <3>2, <2>1
      <3> QED
        BY <3>3
    <2>5. \A q \in Requests \ {r} : pc'[q] = pc[q]
      BY <2>1
    <2> HIDE DEF PublishedSoFar, TypeOK
    <2>6. ASSUME NEW q \in Requests, pc'[q] \in {"idle", "decode", "sign", "publish"}
          PROVE  \A i \in DOMAIN topic' : topic'[i].from # q
      <3>1. pc'[r] = "respond"
        BY <2>1 DEF TypeOK
      <3>2. q # r
        BY <3>1, <2>6
      <3>3. \A i \in DOMAIN topic : topic[i].from # q
        BY <2>5, <2>6, <3>2 DEF PublishedSoFar
      <3> QED
        BY <2>2, <2>3, <3>2, <3>3
    <2>7. ASSUME NEW q \in Requests, pc'[q] = "respond"
          PROVE  \E i \in DOMAIN topic' : EventAt(i, q)'
      <3>1. CASE q = r
        BY <2>4, <3>1
      <3>2. CASE q # r
        <4>1. PICK i \in DOMAIN topic : EventAt(i, q)
          BY <2>5, <2>7, <3>2 DEF PublishedSoFar
        <4> QED
          BY <2>1, <2>2, <4>1
      <3> QED
        BY <3>1, <3>2
    <2> QED
      BY <2>6, <2>7 DEF PublishedSoFar
  <1>6. CASE UNCHANGED vars
    BY <1>6 DEF vars
  <1> QED
    BY <1>1, <1>2, <1>3, <1>4, <1>5, <1>6 DEF Next, HandlerStep

(***************************************************************************)
(* No process is up that the guard has not let through, and a process      *)
(* keeps the configuration that the guard has seen.                        *)
(***************************************************************************)
LEMMA GuardedStep ==
    ASSUME TypeOK, Guarded, [Next]_vars
    PROVE  Guarded'
  <1> USE DEF TypeOK, Guarded, InFlight, configVars, Reply
  <1>1. CASE Start
    <2>1. starts' # 0 /\ pc' = pc /\ phase = "down"
      BY <1>1 DEF Start
    <2>2. phase' # "down" => GuardPasses(kmsProvider', appEnv')
      BY <1>1 DEF Start
    <2> QED
      BY <2>1, <2>2 DEF GuardPasses
  <1>2. CASE StopServing \/ ShutdownReturns \/ CloseProducer
    BY <1>2 DEF StopServing, ShutdownReturns, CloseProducer, GuardPasses
  <1>3. CASE Die
    BY <1>3 DEF Die
  <1>4. ASSUME NEW r \in Requests, Accept(r)
        PROVE  Guarded'
    BY <1>4 DEF Accept, GuardPasses
  <1>5. ASSUME NEW r \in Requests, HandlerStep(r)
        PROVE  Guarded'
    <2>1. r \in InFlight /\ UNCHANGED <<phase, kmsProvider, appEnv, starts>>
      BY <1>5 DEF HandlerStep, RejectBody, DecodeBody, Sign, Publish, PublishRefused, RespondSigned
    <2> QED
      BY <2>1 DEF GuardPasses
  <1>6. CASE UNCHANGED vars
    BY <1>6 DEF vars, GuardPasses
  <1> QED
    BY <1>1, <1>2, <1>3, <1>4, <1>5, <1>6 DEF Next

(***************************************************************************)
(* What a caller was told stays true, and is true when it is told.         *)
(***************************************************************************)
LEMMA SignedStep ==
    ASSUME TypeOK, Progress, PublishedSoFar, SignedMeansPublished, [Next]_vars
    PROVE  SignedMeansPublished'
  <1> USE DEF TypeOK, SignedMeansPublished, Reply
  <1>1. CASE Start \/ StopServing \/ ShutdownReturns \/ CloseProducer \/ Die
    BY <1>1 DEF Start, StopServing, ShutdownReturns, CloseProducer, Die
  <1>2. ASSUME NEW r \in Requests, Accept(r) \/ DecodeBody(r) \/ Sign(r)
        PROVE  SignedMeansPublished'
    <2>1. UNCHANGED <<answer, topic>>
      BY <1>2 DEF Accept, DecodeBody, Sign
    <2> QED
      BY <2>1
  <1>3. ASSUME NEW r \in Requests, Publish(r)
        PROVE  SignedMeansPublished'
    <2>1. answer' = answer /\ answer[r] = None
      BY <1>3 DEF Publish, Progress
    <2>2. /\ DOMAIN topic' = DOMAIN topic \union {Len(topic) + 1}
          /\ \A i \in DOMAIN topic : topic'[i] = topic[i]
          /\ topic'[Len(topic) + 1].from = r
      <3>1. EventOf(r).from = r
        BY DEF EventOf
      <3> HIDE DEF TypeOK, SignedMeansPublished
      <3> QED
        BY <1>3, <3>1, PublishAppends
    <2>3. ASSUME NEW q \in Requests, answer'[q] # None
          PROVE  IF answer'[q].status = 200
                 THEN \E i \in DOMAIN topic' : /\ topic'[i].from = q
                                               /\ topic'[i].payment = answer'[q].payment
                                               /\ topic'[i].txHash = answer'[q].txHash
                 ELSE \A i \in DOMAIN topic' : topic'[i].from # q
      <3>1. q # r /\ answer[q] # None
        BY <2>1, <2>3
      <3> QED
        BY <2>1, <2>2, <3>1
    <2> QED
      BY <2>3
  <1>4. ASSUME NEW r \in Requests, RejectBody(r) \/ PublishRefused(r)
        PROVE  SignedMeansPublished'
    <2>1. \A i \in DOMAIN topic : topic[i].from # r
      BY <1>4 DEF RejectBody, PublishRefused, PublishedSoFar
    <2>2. answer'[r].status # 200 /\ topic' = topic
      BY <1>4 DEF RejectBody, PublishRefused
    <2>3. \A q \in Requests \ {r} : answer'[q] = answer[q]
      BY <1>4 DEF RejectBody, PublishRefused
    <2> QED
      BY <2>1, <2>2, <2>3
  <1>5. ASSUME NEW r \in Requests, RespondSigned(r)
        PROVE  SignedMeansPublished'
    <2>1. PICK i \in DOMAIN topic : EventAt(i, r)
      BY <1>5 DEF RespondSigned, PublishedSoFar
    <2>2. /\ answer'[r] = [status |-> 200, payment |-> body[r].payment,
                           txHash |-> TxHash(body[r].tx)]
          /\ topic' = topic
      BY <1>5 DEF RespondSigned
    <2>3. \A q \in Requests \ {r} : answer'[q] = answer[q]
      BY <1>5 DEF RespondSigned
    <2> QED
      BY <2>1, <2>2, <2>3 DEF EventAt
  <1>6. CASE UNCHANGED vars
    BY <1>6 DEF vars
  <1> QED
    BY <1>1, <1>2, <1>3, <1>4, <1>5, <1>6 DEF Next, HandlerStep

(***************************************************************************)
(* The stub signs in a process that the guard has let through.             *)
(***************************************************************************)
LEMMA LocalProviderStep ==
    ASSUME TypeOK, Guarded, LocalProviderStaysInDevelopment, [Next]_vars
    PROVE  LocalProviderStaysInDevelopment'
  <1> USE DEF LocalProviderStaysInDevelopment
  <1>1. ASSUME NEW r \in Requests, Sign(r)
        PROVE  LocalProviderStaysInDevelopment'
    <2>1. GuardPasses(kmsProvider, appEnv)
      BY <1>1 DEF Sign, Guarded, InFlight
    <2>2. stubUses' = stubUses \union {<<kmsProvider, appEnv>>}
      BY <1>1 DEF Sign
    <2> QED
      BY <2>1, <2>2 DEF GuardPasses
  <1>2. CASE ~ \E r \in Requests : Sign(r)
    <2>1. UNCHANGED stubUses
      BY <1>2 DEF Next, vars, Start, StopServing, ShutdownReturns, CloseProducer, Die, Accept,
         HandlerStep, RejectBody, DecodeBody, Publish, PublishRefused, RespondSigned
    <2> QED
      BY <2>1
  <1> QED
    BY <1>1, <1>2

-----------------------------------------------------------------------------
LEMMA IInvInit == Init => IInv
  <1> SUFFICES ASSUME Init
               PROVE  IInv
    OBVIOUS
  <1>1. topic = <<>> /\ topic \in Seq(Event) /\ DOMAIN topic = {}
    BY DEF Init
  <1>2. TypeOK
    BY <1>1 DEF Init, TypeOK
  <1>3. Progress /\ PublishedSoFar
    BY <1>1 DEF Init, Progress, PublishedSoFar
  <1>4. Guarded
    BY DEF Init, Guarded, InFlight
  <1>5. SignedMeansPublished /\ LocalProviderStaysInDevelopment
    BY DEF Init, SignedMeansPublished, LocalProviderStaysInDevelopment
  <1> QED
    BY <1>2, <1>3, <1>4, <1>5 DEF IInv

LEMMA IInvStep == IInv /\ [Next]_vars => IInv'
  BY TypeStep, ProgressStep, PublishedSoFarStep, GuardedStep, SignedStep, LocalProviderStep
     DEF IInv

(***************************************************************************)
(* The inductive invariant holds in every reachable state.                 *)
(***************************************************************************)
THEOREM SignerInvariant == Spec => []IInv
  BY IInvInit, IInvStep, PTL DEF Spec

(***************************************************************************)
(* Type correctness of the signer; its configuration is one that Load can  *)
(* return as soon as a process was started (main.go:22, config.go:30-43).  *)
(***************************************************************************)
THEOREM SignerTypeCorrect == Spec => []TypeOK
  <1>1. IInv => TypeOK
    BY DEF IInv
  <1> QED
    BY <1>1, SignerInvariant, PTL

(***************************************************************************)
(* A signature that is returned has its event in the topic, and a call     *)
(* that is refused has none (main.go:154-189).                             *)
(***************************************************************************)
THEOREM SignaturesArePublished == Spec => []SignedMeansPublished
  <1>1. IInv => SignedMeansPublished
    BY DEF IInv
  <1> QED
    BY <1>1, SignerInvariant, PTL

(***************************************************************************)
(* Over any sequence of processes with any configurations, the local       *)
(* provider signs in development environments only (main.go:34-45).        *)
(***************************************************************************)
THEOREM LocalProviderIsGuarded == Spec => []LocalProviderStaysInDevelopment
  <1>1. IInv => LocalProviderStaysInDevelopment
    BY DEF IInv
  <1> QED
    BY <1>1, SignerInvariant, PTL

=============================================================================
