---------------------------- MODULE GatewayProofs ---------------------------
(***************************************************************************)
(* Proofs about the gateway, for every set of calls, references and ids,   *)
(* every TTL and every number of crashes.                                  *)
(*                                                                         *)
(* The inductive invariant is IInv.  Its parts, apart from TypeOK:         *)
(*   Progress         what a handler has in hand at each of its steps;     *)
(*   PublishedSoFar   which calls have an event in the topic;              *)
(*   StoreIsBacked    an entry of the store stands for a published event;  *)
(*   RecordIsKept     a recorded reference stays found for its TTL;        *)
(*   ProducerIsOpen   the producer is open until Shutdown has returned.    *)
(***************************************************************************)
EXTENDS Gateway, IdempotencyStoreProofs

Progress ==
    \A r \in Requests :
        /\ pc[r] \in {"check", "publish", "record", "respond"} => reference[r] \in References
        /\ pc[r] \in {"publish", "record", "respond"} => paymentID[r] \in PaymentIDs
        /\ answer[r] # None => pc[r] = "done"
        /\ recordedAt[r] # None => pc[r] \in {"respond", "done"}

\* The event of r, as Publish appended it.
EventAt(i, r) ==
    /\ topic[i].from = r
    /\ topic[i].key = paymentID[r]
    /\ topic[i].reference = reference[r]

PublishedSoFar ==
    /\ \A r \in Requests :
          /\ pc[r] \in {"idle", "decode", "check", "publish"} =>
                \A i \in DOMAIN topic : topic[i].from # r
          /\ pc[r] \in {"record", "respond"} => \E i \in DOMAIN topic : EventAt(i, r)
    /\ OnlyCreatedPublishes

StoreIsBacked ==
    \A k \in References : Stored(k) => Published(entries[k].paymentID, k)

RecordIsKept ==
    \A q \in Requests : recordedAt[q] # None =>
        /\ reference[q] \in References
        /\ recordedAt[q] <= now
        /\ \/ now > recordedAt[q] + TTL
           \/ /\ Stored(reference[q])
              /\ entries[reference[q]].expiresAt >= recordedAt[q] + TTL

ProducerIsOpen ==
    /\ closed => phase \in {"stopping", "down"}
    /\ phase \in {"stopping", "down"} => InFlight = {} \/ drainExpired

IInv ==
    /\ TypeOK
    /\ Progress
    /\ PublishedSoFar
    /\ StoreIsBacked
    /\ AnsweredIDsArePublished
    /\ RecordIsKept
    /\ ProducerIsOpen

-----------------------------------------------------------------------------
(***************************************************************************)
(* The steps of the gateway that touch the store are steps of the store.   *)
(***************************************************************************)
LEMMA StoreStep ==
    ASSUME TypeOK, Progress, [Next]_vars
    PROVE  [StoreNext]_storeVars
  <1>1. ASSUME NEW r \in Requests, Accept(r)
        PROVE  UNCHANGED storeVars
    BY <1>1 DEF Accept
  <1>2. ASSUME NEW r \in Requests, HandlerStep(r)
        PROVE  [StoreNext]_storeVars
    <2>1. CASE RecordKey(r)
      <3>1. reference[r] \in References /\ paymentID[r] \in PaymentIDs
        BY <2>1 DEF RecordKey, Progress
      <3> QED
        BY <2>1, <3>1 DEF RecordKey, StoreNext
    <2>2. CASE ~ RecordKey(r)
      BY <1>2, <2>2 DEF HandlerStep, RejectBody, DecodeBody, Replay, IssueID, Publish,
         PublishRefused, RespondCreated
    <2> QED
      BY <2>1, <2>2
  <1>3. ASSUME ProcessStep
        PROVE  [StoreNext]_storeVars
    BY <1>3 DEF ProcessStep, EvictTick, StopServing, ShutdownReturns, CloseProducer, Exit,
       Crash, Die, Restart, StoreNext
  <1>4. CASE Clock
    BY <1>4 DEF Clock, StoreNext
  <1>5. CASE UNCHANGED vars
    BY <1>5 DEF vars
  <1> QED
    BY <1>1, <1>2, <1>3, <1>4, <1>5 DEF Next

(***************************************************************************)
(* Publish appends the event of its call, and nothing else moves.          *)
(***************************************************************************)
LEMMA PublishAppends ==
    ASSUME TypeOK, Progress, NEW r \in Requests, Publish(r)
    PROVE  /\ topic' \in Seq(Message)
           /\ DOMAIN topic = 1 .. Len(topic) /\ Len(topic) \in Nat
           /\ DOMAIN topic' = 1 .. (Len(topic) + 1)
           /\ \A i \in DOMAIN topic : topic'[i] = topic[i]
           /\ topic'[Len(topic) + 1] =
                 [key |-> paymentID[r], reference |-> reference[r], from |-> r]
  <1> DEFINE m == [key |-> paymentID[r], reference |-> reference[r], from |-> r]
  <1>1. m \in Message
    BY DEF Publish, Progress, Message
  <1>2. topic \in Seq(Message) /\ topic' = Append(topic, m)
    BY DEF TypeOK, Publish
  <1> HIDE DEF m
  <1>3. /\ topic' \in Seq(Message)
        /\ DOMAIN topic = 1 .. Len(topic) /\ Len(topic) \in Nat
        /\ DOMAIN topic' = 1 .. (Len(topic) + 1)
        /\ \A i \in 1 .. Len(topic) : topic'[i] = topic[i]
        /\ topic'[Len(topic) + 1] = m
    BY <1>1, <1>2
  <1> QED
    BY <1>3 DEF m

(***************************************************************************)
(* Only Publish changes the topic.                                         *)
(***************************************************************************)
LEMMA OnlyPublishAppends ==
    ASSUME [Next]_vars, ~ \E r \in Requests : Publish(r)
    PROVE  UNCHANGED topic
  BY DEF Next, vars, Accept, HandlerStep, RejectBody, DecodeBody, Replay, IssueID, PublishRefused,
     RecordKey, RespondCreated, ProcessStep, EvictTick, StopServing, ShutdownReturns,
     CloseProducer, Exit, Crash, Die, Restart, Clock


-----------------------------------------------------------------------------
(***************************************************************************)
(* A handler's step keeps the types of the state outside the store.        *)
(***************************************************************************)
GatewayTypeOK ==
    /\ phase \in {"serving", "draining", "stopping", "down"}
    /\ closed \in BOOLEAN
    /\ pc \in [Requests -> Steps \union {"idle", "done", "lost"}]
    /\ reference \in [Requests -> References \union {None}]
    /\ paymentID \in [Requests -> PaymentIDs \union {None}]
    /\ answer \in [Requests -> Answer \union {None}]
    /\ topic \in Seq(Message)
    /\ stops \in Nat
    /\ recordedAt \in [Requests -> Nat \union {None}]
    /\ drainExpired \in BOOLEAN

LEMMA HandlerTypes ==
    ASSUME TypeOK, Progress, NEW r \in Requests, Accept(r) \/ HandlerStep(r)
    PROVE  GatewayTypeOK'
  <1> USE DEF TypeOK, GatewayTypeOK, Goto, Reply, Steps
  <1>1. CASE Accept(r)
    BY <1>1 DEF Accept, processVars
  <1>2. CASE RejectBody(r)
    <2>1. [status |-> 400, id |-> None] \in Answer
      BY DEF Answer
    <2> QED
      BY <1>2, <2>1 DEF RejectBody, processVars
  <1>3. CASE DecodeBody(r)
    BY <1>3 DEF DecodeBody, processVars
  <1>4. CASE Replay(r)
    <2>1. entries[reference[r]] \in Entry
      BY <1>4 DEF Replay, Exists, Stored, Progress, StoreTypeOK
    <2>2. [status |-> 200, id |-> entries[reference[r]].paymentID] \in Answer
      BY <2>1 DEF Answer, Entry
    <2> QED
      BY <1>4, <2>2 DEF Replay, processVars
  <1>5. CASE IssueID(r)
    BY <1>5 DEF IssueID, processVars
  <1>6. CASE Publish(r)
    BY <1>6, PublishAppends DEF Publish, processVars
  <1>7. CASE PublishRefused(r)
    <2>1. [status |-> 503, id |-> None] \in Answer
      BY DEF Answer
    <2> QED
      BY <1>7, <2>1 DEF PublishRefused, processVars
  <1>8. CASE RecordKey(r)
    BY <1>8 DEF RecordKey, StoreTypeOK, processVars
  <1>9. CASE RespondCreated(r)
    <2>1. [status |-> 201, id |-> paymentID[r]] \in Answer
      BY DEF Answer
    <2> QED
      BY <1>9, <2>1 DEF RespondCreated, processVars
  <1> QED
    BY <1>1, <1>2, <1>3, <1>4, <1>5, <1>6, <1>7, <1>8, <1>9 DEF HandlerStep

LEMMA ProcessTypes ==
    ASSUME TypeOK, ProcessStep \/ Clock \/ UNCHANGED vars
    PROVE  GatewayTypeOK'
  <1> USE DEF TypeOK, GatewayTypeOK, handlerVars, processVars
  <1>1. CASE EvictTick
    BY <1>1 DEF EvictTick
  <1>2. CASE StopServing
    BY <1>2 DEF StopServing
  <1>3. CASE ShutdownReturns
    BY <1>3 DEF ShutdownReturns
  <1>4. CASE CloseProducer
    BY <1>4 DEF CloseProducer
  <1>5. CASE Exit
    BY <1>5 DEF Exit, Die
  <1>6. CASE Crash
    BY <1>6 DEF Crash, Die
  <1>7. CASE Restart
    BY <1>7 DEF Restart
  <1>8. CASE Clock
    BY <1>8 DEF Clock
  <1>9. CASE UNCHANGED vars
    BY <1>9 DEF vars
  <1> QED
    BY <1>1, <1>2, <1>3, <1>4, <1>5, <1>6, <1>7, <1>8, <1>9 DEF ProcessStep

LEMMA TypeStep ==
    ASSUME TypeOK, Progress, [Next]_vars
    PROVE  TypeOK'
  <1>1. StoreTypeOK'
    BY StoreStep, StoreTypeStep DEF TypeOK
  <1>2. GatewayTypeOK'
    BY HandlerTypes, ProcessTypes DEF Next
  <1> QED
    BY <1>1, <1>2 DEF TypeOK, GatewayTypeOK

(***************************************************************************)
(* A handler has its reference and its id in hand when it needs them.      *)
(***************************************************************************)
LEMMA ProgressStep ==
    ASSUME TypeOK, Progress, [Next]_vars
    PROVE  Progress'
  <1> USE DEF TypeOK, Progress, Goto, Reply, Steps, handlerVars, processVars
  <1>1. ASSUME NEW r \in Requests, Accept(r)
        PROVE  Progress'
    BY <1>1 DEF Accept
  <1>2. ASSUME NEW r \in Requests, RejectBody(r)
        PROVE  Progress'
    BY <1>2 DEF RejectBody
  <1>3. ASSUME NEW r \in Requests, DecodeBody(r)
        PROVE  Progress'
    BY <1>3 DEF DecodeBody
  <1>4. ASSUME NEW r \in Requests, Replay(r)
        PROVE  Progress'
    BY <1>4 DEF Replay
  <1>5. ASSUME NEW r \in Requests, IssueID(r)
        PROVE  Progress'
    BY <1>5 DEF IssueID
  <1>6. ASSUME NEW r \in Requests, Publish(r)
        PROVE  Progress'
    BY <1>6 DEF Publish
  <1>7. ASSUME NEW r \in Requests, PublishRefused(r)
        PROVE  Progress'
    BY <1>7 DEF PublishRefused
  <1>8. ASSUME NEW r \in Requests, RecordKey(r)
        PROVE  Progress'
    BY <1>8 DEF RecordKey
  <1>9. ASSUME NEW r \in Requests, RespondCreated(r)
        PROVE  Progress'
    BY <1>9 DEF RespondCreated
  <1>10. CASE EvictTick \/ StopServing \/ ShutdownReturns \/ CloseProducer \/ Restart \/ Clock
    BY <1>10 DEF EvictTick, StopServing, ShutdownReturns, CloseProducer, Restart, Clock
  <1>11. CASE Exit \/ Crash
    BY <1>11 DEF Exit, Crash, Die, InFlight
  <1>12. CASE UNCHANGED vars
    BY <1>12 DEF vars
  <1> QED
    BY <1>1, <1>2, <1>3, <1>4, <1>5, <1>6, <1>7, <1>8, <1>9, <1>10, <1>11, <1>12
       DEF Next, HandlerStep, ProcessStep


-----------------------------------------------------------------------------
(***************************************************************************)
(* A call has an event in the topic from its Publish on, and exactly one.  *)
(***************************************************************************)
LEMMA PublishedSoFarPublish ==
    ASSUME TypeOK, Progress, PublishedSoFar, NEW r \in Requests, Publish(r)
    PROVE  PublishedSoFar'
  <1> USE DEF PublishedSoFar, OnlyCreatedPublishes
  <1>1. /\ pc[r] = "publish" /\ pc' = [pc EXCEPT ![r] = "record"]
        /\ UNCHANGED <<reference, paymentID, answer>>
        /\ pc \in [Requests -> Steps \union {"idle", "done", "lost"}]
    BY DEF Publish, Goto, TypeOK
  <1>2. /\ DOMAIN topic = 1 .. Len(topic) /\ Len(topic) \in Nat
        /\ DOMAIN topic' = 1 .. (Len(topic) + 1)
        /\ \A i \in DOMAIN topic : topic'[i] = topic[i]
        /\ topic'[Len(topic) + 1] =
               [key |-> paymentID[r], reference |-> reference[r], from |-> r]
    BY PublishAppends
  <1>3. DOMAIN topic' = DOMAIN topic \union {Len(topic) + 1}
    BY <1>2
  <1>4. \A i \in DOMAIN topic : topic[i].from # r
    BY <1>1
  <1>5. answer[r] = None
    BY <1>1 DEF Progress
  <1>6. \A q \in Requests \ {r} : pc'[q] = pc[q]
    BY <1>1
  <1>7. ASSUME NEW q \in Requests, pc'[q] \in {"idle", "decode", "check", "publish"}
        PROVE  \A i \in DOMAIN topic' : topic'[i].from # q
    <2>1. q # r
      BY <1>1, <1>7
    <2> QED
      BY <1>2, <1>3, <1>6, <1>7, <2>1
  <1>8. ASSUME NEW q \in Requests, pc'[q] \in {"record", "respond"}
        PROVE  \E i \in DOMAIN topic' : EventAt(i, q)'
    <2>1. CASE q = r
      BY <1>1, <1>2, <1>3, <2>1 DEF EventAt
    <2>2. CASE q # r
      <3>1. PICK i \in DOMAIN topic : EventAt(i, q)
        BY <1>6, <1>8, <2>2
      <3> QED
        BY <1>1, <1>2, <1>3, <3>1 DEF EventAt
    <2> QED
      BY <2>1, <2>2
  <1>9. ASSUME NEW q \in Requests, answer'[q] # None, answer'[q].status # 201
        PROVE  \A i \in DOMAIN topic' : topic'[i].from # q
    BY <1>1, <1>2, <1>3, <1>5, <1>9
  <1>10. \A i, j \in DOMAIN topic' : topic'[i].from = topic'[j].from => i = j
    BY <1>2, <1>3, <1>4
  <1> QED
    BY <1>7, <1>8, <1>9, <1>10

LEMMA PublishedSoFarStep ==
    ASSUME TypeOK, Progress, PublishedSoFar, [Next]_vars
    PROVE  PublishedSoFar'
  <1>1. CASE \E r \in Requests : Publish(r)
    BY <1>1, PublishedSoFarPublish
  <1>2. CASE ~ \E r \in Requests : Publish(r)
    <2> USE DEF TypeOK, Progress, PublishedSoFar, OnlyCreatedPublishes, EventAt, Goto, Reply,
                Steps, handlerVars, processVars
    <2>0. UNCHANGED topic
      BY <1>2, OnlyPublishAppends
    <2>1. ASSUME NEW r \in Requests, Accept(r)
          PROVE  PublishedSoFar'
      BY <2>0, <2>1 DEF Accept
    <2>2. ASSUME NEW r \in Requests, RejectBody(r)
          PROVE  PublishedSoFar'
      BY <2>0, <2>2 DEF RejectBody
    <2>3. ASSUME NEW r \in Requests, DecodeBody(r)
          PROVE  PublishedSoFar'
      BY <2>0, <2>3 DEF DecodeBody
    <2>4. ASSUME NEW r \in Requests, Replay(r)
          PROVE  PublishedSoFar'
      BY <2>0, <2>4 DEF Replay
    <2>5. ASSUME NEW r \in Requests, IssueID(r)
          PROVE  PublishedSoFar'
      BY <2>0, <2>5 DEF IssueID
    <2>6. ASSUME NEW r \in Requests, PublishRefused(r)
          PROVE  PublishedSoFar'
      BY <2>0, <2>6 DEF PublishRefused
    <2>7. ASSUME NEW r \in Requests, RecordKey(r)
          PROVE  PublishedSoFar'
      BY <2>0, <2>7 DEF RecordKey
    <2>8. ASSUME NEW r \in Requests, RespondCreated(r)
          PROVE  PublishedSoFar'
      BY <2>0, <2>8 DEF RespondCreated
    <2>9. CASE EvictTick \/ StopServing \/ ShutdownReturns \/ CloseProducer \/ Restart \/ Clock
      BY <2>9 DEF EvictTick, StopServing, ShutdownReturns, CloseProducer, Restart, Clock
    <2>10. CASE Exit \/ Crash
      BY <2>10 DEF Exit, Crash, Die, InFlight
    <2>11. CASE UNCHANGED vars
      BY <2>11 DEF vars
    <2> QED
      BY <1>2, <2>1, <2>2, <2>3, <2>4, <2>5, <2>6, <2>7, <2>8, <2>9, <2>10, <2>11
         DEF Next, HandlerStep, ProcessStep
  <1> QED
    BY <1>1, <1>2

(***************************************************************************)
(* The topic only grows.                                                   *)
(***************************************************************************)
LEMMA PublishedForEver ==
    ASSUME TypeOK, Progress, [Next]_vars
    PROVE  /\ \A id, k : Published(id, k) => Published(id, k)'
           /\ \A r : (\E i \in DOMAIN topic : topic[i].from = r) =>
                        \E i \in DOMAIN topic' : topic'[i].from = r
  <1>1. CASE \E r \in Requests : Publish(r)
    <2>1. PICK r \in Requests : Publish(r)
      BY <1>1
    <2>2. /\ DOMAIN topic = 1 .. Len(topic) /\ Len(topic) \in Nat
          /\ DOMAIN topic' = 1 .. (Len(topic) + 1)
          /\ \A i \in DOMAIN topic : topic'[i] = topic[i]
      BY <2>1, PublishAppends
    <2>3. DOMAIN topic \subseteq DOMAIN topic'
      BY <2>2
    <2> QED
      BY <2>2, <2>3 DEF Published
  <1>2. CASE ~ \E r \in Requests : Publish(r)
    BY <1>2, OnlyPublishAppends DEF Published
  <1> QED
    BY <1>1, <1>2

(***************************************************************************)
(* The store never holds a payment that was not published.                 *)
(***************************************************************************)
LEMMA StoreIsBackedStep ==
    ASSUME TypeOK, Progress, PublishedSoFar, StoreIsBacked, [Next]_vars
    PROVE  StoreIsBacked'
  <1> SUFFICES ASSUME NEW k \in References, entries'[k] # None
               PROVE  Published(entries[k].paymentID, k)'
    BY DEF StoreIsBacked, Stored
  <1>1. ASSUME entries[k] # None, entries'[k] = entries[k]
        PROVE  Published(entries[k].paymentID, k)'
    <2>1. Published(entries[k].paymentID, k)
      BY <1>1 DEF StoreIsBacked, Stored
    <2> QED
      BY <1>1, <2>1, PublishedForEver DEF Published
  <1>2. CASE \E r \in Requests : RecordKey(r) /\ reference[r] = k
    <2>1. PICK r \in Requests : RecordKey(r) /\ reference[r] = k
      BY <1>2
    <2>2. entries'[k].paymentID = paymentID[r] /\ topic' = topic
      BY <2>1 DEF RecordKey, Record, TypeOK, StoreTypeOK
    <2>3. PICK i \in DOMAIN topic : EventAt(i, r)
      BY <2>1 DEF RecordKey, PublishedSoFar
    <2> QED
      BY <2>1, <2>2, <2>3 DEF EventAt, Published
  <1>3. CASE ~ \E r \in Requests : RecordKey(r) /\ reference[r] = k
    <2>1. entries'[k] = entries[k]
      <3>1. ASSUME NEW r \in Requests, RecordKey(r)
            PROVE  entries'[k] = entries[k]
        BY <1>3, <3>1 DEF RecordKey, Record, TypeOK, StoreTypeOK
      <3>2. CASE \E r \in Requests : Accept(r) \/ (HandlerStep(r) /\ ~ RecordKey(r))
        BY <3>2 DEF Accept, HandlerStep, RejectBody, DecodeBody, Replay, IssueID, Publish,
           PublishRefused, RespondCreated, storeVars
      <3>3. CASE EvictTick
        BY <3>3 DEF EvictTick, Evict
      <3>4. CASE Exit \/ Crash
        BY <3>4 DEF Exit, Crash, Die, NewStore
      <3>5. CASE StopServing \/ ShutdownReturns \/ CloseProducer \/ Restart \/ Clock
        BY <3>5 DEF StopServing, ShutdownReturns, CloseProducer, Restart, Clock, Tick, storeVars
      <3>6. CASE UNCHANGED vars
        BY <3>6 DEF vars, storeVars
      <3> QED
        BY <3>1, <3>2, <3>3, <3>4, <3>5, <3>6 DEF Next, HandlerStep, ProcessStep
    <2> QED
      BY <1>1, <2>1
  <1> QED
    BY <1>2, <1>3


(***************************************************************************)
(* What a client was told stays true, and is true when it is told.         *)
(***************************************************************************)
LEMMA AnsweredStep ==
    ASSUME TypeOK, Progress, PublishedSoFar, StoreIsBacked, AnsweredIDsArePublished, [Next]_vars
    PROVE  AnsweredIDsArePublished'
  <1> SUFFICES ASSUME NEW r \in Requests, answer'[r] # None
               PROVE  /\ answer'[r].status \in {200, 201} =>
                             Published(answer[r].id, reference[r])'
                      /\ answer'[r].status = 201 =>
                             \E i \in DOMAIN topic' : topic'[i].from = r
    BY DEF AnsweredIDsArePublished
  <1>1. ASSUME answer'[r] = answer[r]
        PROVE  reference'[r] = reference[r]
    <2>1. pc[r] = "done"
      BY <1>1 DEF Progress
    <2> QED
      BY <2>1 DEF Next, vars, handlerVars, Accept, HandlerStep, RejectBody, DecodeBody, Replay,
         IssueID, Publish, PublishRefused, RecordKey, RespondCreated, ProcessStep, EvictTick,
         StopServing, ShutdownReturns, CloseProducer, Exit, Crash, Die, Restart, Clock, TypeOK
  <1>2. CASE answer'[r] = answer[r]
    <2>1. /\ answer[r].status \in {200, 201} => Published(answer[r].id, reference[r])
          /\ answer[r].status = 201 => \E i \in DOMAIN topic : topic[i].from = r
      BY <1>2 DEF AnsweredIDsArePublished
    <2> QED
      BY <1>1, <1>2, <2>1, PublishedForEver DEF Published
  <1>3. CASE Replay(r)
    <2>1. /\ answer'[r] = [status |-> 200, id |-> entries[reference[r]].paymentID]
          /\ UNCHANGED <<topic, reference>>
      BY <1>3 DEF Replay, Reply, TypeOK
    <2>2. Published(entries[reference[r]].paymentID, reference[r])
      BY <1>3 DEF Replay, Exists, Progress, StoreIsBacked
    <2> QED
      BY <2>1, <2>2 DEF Published
  <1>4. CASE RespondCreated(r)
    <2>1. answer'[r] = [status |-> 201, id |-> paymentID[r]] /\ UNCHANGED <<topic, reference>>
      BY <1>4 DEF RespondCreated, Reply, TypeOK
    <2>2. PICK i \in DOMAIN topic : EventAt(i, r)
      BY <1>4 DEF RespondCreated, PublishedSoFar
    <2> QED
      BY <2>1, <2>2 DEF EventAt, Published
  <1>5. CASE RejectBody(r) \/ PublishRefused(r)
    <2>1. answer'[r].status \notin {200, 201}
      BY <1>5 DEF RejectBody, PublishRefused, Reply, TypeOK
    <2> QED
      BY <2>1
  <1>6. CASE ~ (Replay(r) \/ RespondCreated(r) \/ RejectBody(r) \/ PublishRefused(r))
    <2>1. answer'[r] = answer[r]
      <3>1. ASSUME NEW q \in Requests \ {r}, HandlerStep(q)
            PROVE  answer'[r] = answer[r]
        BY <3>1 DEF HandlerStep, RejectBody, DecodeBody, Replay, IssueID, Publish,
           PublishRefused, RecordKey, RespondCreated, Reply, TypeOK
      <3>2. CASE HandlerStep(r)
        BY <1>6, <3>2 DEF HandlerStep, DecodeBody, IssueID, Publish, RecordKey
      <3>3. CASE \E q \in Requests : Accept(q)
        BY <3>3 DEF Accept
      <3>4. CASE ProcessStep \/ Clock \/ UNCHANGED vars
        BY <3>4 DEF ProcessStep, EvictTick, StopServing, ShutdownReturns, CloseProducer, Exit,
           Crash, Die, Restart, Clock, vars, handlerVars
      <3> QED
        BY <3>1, <3>2, <3>3, <3>4 DEF Next
    <2> QED
      BY <1>2, <2>1
  <1> QED
    BY <1>3, <1>4, <1>5, <1>6

(***************************************************************************)
(* A recorded reference is found until its TTL is over.                    *)
(***************************************************************************)
LEMMA RecordIsKeptStep ==
    ASSUME TypeOK, Progress, RecordIsKept, [Next]_vars
    PROVE  RecordIsKept'
  <1> USE StoreAssumption DEF TypeOK, StoreTypeOK, Progress, RecordIsKept, Stored, handlerVars,
          processVars, storeVars
  <1>1. ASSUME NEW r \in Requests, RecordKey(r)
        PROVE  RecordIsKept'
    <2> DEFINE e == [paymentID |-> paymentID[r], expiresAt |-> now + TTL]
    <2>1. e # None
      BY <1>1 DEF RecordKey, Entry
    <2>2. /\ entries' = [entries EXCEPT ![reference[r]] = e]
          /\ recordedAt' = [recordedAt EXCEPT ![r] = now]
          /\ UNCHANGED <<now, reference>>
          /\ reference[r] \in References
      BY <1>1 DEF RecordKey, Record
    <2>3. ASSUME NEW q \in Requests, recordedAt'[q] # None
          PROVE  /\ reference'[q] \in References
                 /\ recordedAt'[q] <= now'
                 /\ \/ now' > recordedAt'[q] + TTL
                    \/ /\ entries'[reference'[q]] # None
                       /\ entries'[reference'[q]].expiresAt >= recordedAt'[q] + TTL
      <3>1. CASE q = r
        BY <2>1, <2>2, <3>1
      <3>2. CASE q # r
        <4>1. recordedAt'[q] = recordedAt[q] /\ recordedAt[q] \in Nat
          BY <2>2, <2>3, <3>2
        <4>2. /\ reference[q] \in References
              /\ recordedAt[q] <= now
              /\ \/ now > recordedAt[q] + TTL
                 \/ /\ entries[reference[q]] # None
                    /\ entries[reference[q]].expiresAt >= recordedAt[q] + TTL
          BY <2>3, <4>1
        <4>3. CASE reference[q] = reference[r]
          BY <2>1, <2>2, <4>1, <4>2, <4>3
        <4>4. CASE reference[q] # reference[r]
          BY <2>2, <4>1, <4>2, <4>4
        <4> QED
          BY <4>3, <4>4
      <3> QED
        BY <3>1, <3>2
    <2> QED
      BY <2>3
  <1>2. CASE EvictTick
    BY <1>2 DEF EvictTick, Evict, Expired, Entry
  <1>3. CASE Clock
    BY <1>3 DEF Clock, Tick
  <1>4. CASE Exit \/ Crash
    BY <1>4 DEF Exit, Crash, Die
  <1>5. CASE StopServing \/ ShutdownReturns \/ CloseProducer \/ Restart
    BY <1>5 DEF StopServing, ShutdownReturns, CloseProducer, Restart
  <1>6. ASSUME NEW r \in Requests, DecodeBody(r)
        PROVE  RecordIsKept'
    BY <1>6 DEF DecodeBody
  <1>7. ASSUME NEW r \in Requests,
               Accept(r) \/ (HandlerStep(r) /\ ~ RecordKey(r) /\ ~ DecodeBody(r))
        PROVE  RecordIsKept'
    BY <1>7 DEF Accept, HandlerStep, RejectBody, Replay, IssueID, Publish, PublishRefused,
       RespondCreated
  <1>8. CASE UNCHANGED vars
    BY <1>8 DEF vars
  <1> QED
    BY <1>1, <1>2, <1>3, <1>4, <1>5, <1>6, <1>7, <1>8 DEF Next, HandlerStep, ProcessStep


(***************************************************************************)
(* The producer is closed only after Shutdown has returned, and Shutdown   *)
(* returned because no handler ran or because its time was over.           *)
(***************************************************************************)
LEMMA ProducerIsOpenStep ==
    ASSUME TypeOK, ProducerIsOpen, [Next]_vars
    PROVE  ProducerIsOpen'
  <1> USE DEF TypeOK, ProducerIsOpen, InFlight, Steps, Goto, Reply, handlerVars, processVars
  <1>1. ASSUME NEW r \in Requests, Accept(r)
        PROVE  ProducerIsOpen'
    BY <1>1 DEF Accept
  <1>2. ASSUME NEW r \in Requests, HandlerStep(r)
        PROVE  ProducerIsOpen'
    <2>1. UNCHANGED processVars /\ r \in InFlight
      BY <1>2 DEF HandlerStep, RejectBody, DecodeBody, Replay, IssueID, Publish, PublishRefused,
         RecordKey, RespondCreated
    <2> QED
      BY <2>1
  <1>3. CASE ShutdownReturns
    BY <1>3 DEF ShutdownReturns
  <1>4. CASE Exit \/ Crash
    <2>1. phase' = "down" /\ UNCHANGED <<closed, drainExpired>>
      BY <1>4 DEF Exit, Crash, Die
    <2>2. InFlight' = {}
      BY <1>4 DEF Exit, Crash, Die
    <2> QED
      BY <2>1, <2>2
  <1>5. CASE EvictTick \/ StopServing \/ CloseProducer \/ Restart \/ Clock
    BY <1>5 DEF EvictTick, StopServing, CloseProducer, Restart, Clock
  <1>6. CASE UNCHANGED vars
    BY <1>6 DEF vars
  <1> QED
    BY <1>1, <1>2, <1>3, <1>4, <1>5, <1>6 DEF Next, ProcessStep

-----------------------------------------------------------------------------
LEMMA IInvInit == Init => IInv
  <1> SUFFICES ASSUME Init
               PROVE  IInv
    OBVIOUS
  <1>1. StoreTypeOK
    BY StoreTypeInit DEF Init
  <1>2. topic = <<>> /\ topic \in Seq(Message) /\ DOMAIN topic = {}
    BY DEF Init
  <1>3. TypeOK
    BY <1>1, <1>2 DEF Init, TypeOK
  <1>4. Progress /\ AnsweredIDsArePublished /\ RecordIsKept
    BY DEF Init, Progress, AnsweredIDsArePublished, RecordIsKept
  <1>5. PublishedSoFar
    BY <1>2 DEF Init, PublishedSoFar, OnlyCreatedPublishes
  <1>6. StoreIsBacked
    BY DEF Init, StoreInit, StoreIsBacked, Stored
  <1>7. ProducerIsOpen
    BY DEF Init, ProducerIsOpen
  <1> QED
    BY <1>3, <1>4, <1>5, <1>6, <1>7 DEF IInv

LEMMA IInvStep == IInv /\ [Next]_vars => IInv'
  BY TypeStep, ProgressStep, PublishedSoFarStep, StoreIsBackedStep, AnsweredStep,
     RecordIsKeptStep, ProducerIsOpenStep
     DEF IInv

(***************************************************************************)
(* The inductive invariant holds in every reachable state.                 *)
(***************************************************************************)
THEOREM GatewayInvariant == Spec => []IInv
  BY IInvInit, IInvStep, PTL DEF Spec

(***************************************************************************)
(* Type correctness of the gateway process (main.go:111-296).              *)
(***************************************************************************)
THEOREM GatewayTypeCorrect == Spec => []TypeOK
  <1>1. IInv => TypeOK
    BY DEF IInv
  <1> QED
    BY <1>1, GatewayInvariant, PTL

(***************************************************************************)
(* A payment id that a client is given names a published event of the      *)
(* client's own reference (main.go:246-248, 276-294).                      *)
(***************************************************************************)
THEOREM AnswersAreBacked == Spec => []AnsweredIDsArePublished
  <1>1. IInv => AnsweredIDsArePublished
    BY DEF IInv
  <1> QED
    BY <1>1, GatewayInvariant, PTL

(***************************************************************************)
(* A call that is not answered 201 published nothing, and a call publishes *)
(* at most once (main.go:266-274).                                         *)
(***************************************************************************)
THEOREM OnlyCreatedCallsPublish == Spec => []OnlyCreatedPublishes
  <1>1. IInv => OnlyCreatedPublishes
    BY DEF IInv, PublishedSoFar
  <1> QED
    BY <1>1, GatewayInvariant, PTL

(***************************************************************************)
(* An orderly drain never closes the producer under a running handler      *)
(* (main.go:40, 103-108).                                                  *)
(***************************************************************************)
THEOREM ProducerOutlivesItsHandlers == Spec => []ProducerOutlivesHandlers
  <1>1. IInv => ProducerOutlivesHandlers
    BY DEF IInv, ProducerIsOpen, ProducerOutlivesHandlers
  <1> QED
    BY <1>1, GatewayInvariant, PTL

(***************************************************************************)
(* A handler on its way to Publish found nothing in the store, and what    *)
(* RecordIsKept says is found within a TTL was therefore recorded before.  *)
(***************************************************************************)
LEMMA OnlyIssueIDPublishes ==
    ASSUME TypeOK, [Next]_vars, NEW r \in Requests, pc[r] = "check", pc'[r] = "publish"
    PROVE  IssueID(r)
  <1>1. ASSUME NEW s \in Requests \ {r}, Accept(s) \/ HandlerStep(s)
        PROVE  pc'[r] = pc[r]
    BY <1>1 DEF Accept, HandlerStep, RejectBody, DecodeBody, Replay, IssueID, Publish,
       PublishRefused, RecordKey, RespondCreated, Reply, Goto, TypeOK
  <1>2. CASE Accept(r) \/ HandlerStep(r)
    BY <1>2 DEF Accept, HandlerStep, RejectBody, DecodeBody, Replay, Publish,
       PublishRefused, RecordKey, RespondCreated, Reply, Goto, TypeOK
  <1>3. CASE ProcessStep \/ Clock \/ UNCHANGED vars
    <2>1. pc'[r] # "publish"
      BY <1>3 DEF ProcessStep, EvictTick, StopServing, ShutdownReturns, CloseProducer, Exit,
         Crash, Die, Restart, Clock, vars, handlerVars, InFlight, Steps
    <2> QED
      BY <2>1
  <1> QED
    BY <1>1, <1>2, <1>3 DEF Next

LEMMA ReissuedAfterTTL ==
    ASSUME IInv, [Next]_vars, NEW r \in Requests, NEW q \in Requests,
           pc[r] = "check", pc'[r] = "publish",
           recordedAt[q] # None, reference[q] = reference[r]
    PROVE  now > recordedAt[q] + TTL
  <1> USE DEF IInv
  <1>1. reference[q] \in References /\ ~ Exists(reference[q])
    BY OnlyIssueIDPublishes DEF IssueID, Progress
  <1>2. \/ now > recordedAt[q] + TTL
        \/ /\ Stored(reference[q])
           /\ entries[reference[q]].expiresAt >= recordedAt[q] + TTL
    BY DEF RecordIsKept
  <1>3. CASE /\ Stored(reference[q])
             /\ entries[reference[q]].expiresAt >= recordedAt[q] + TTL
    <2>1. now > entries[reference[q]].expiresAt
      BY <1>1, <1>3 DEF Exists, Expired
    <2>2. entries[reference[q]] \in Entry
      BY <1>1, <1>3 DEF Stored, TypeOK, StoreTypeOK
    <2>3. entries[reference[q]].expiresAt \in Nat /\ now \in Nat /\ recordedAt[q] \in Nat
      BY <2>2 DEF Entry, TypeOK, StoreTypeOK
    <2> QED
      BY <1>3, <2>1, <2>3, StoreAssumption
  <1> QED
    BY <1>2, <1>3

(***************************************************************************)
(* A handler never publishes again for a reference that the same process   *)
(* recorded up to a TTL ago (main.go:113-116, 144-152).                    *)
(***************************************************************************)
THEOREM LiveReferencesAreNotReissued == Spec => LiveReferenceIsNotReissued
  <1> DEFINE A == \A r, q \in Requests :
                     /\ pc[r] = "check" /\ pc'[r] = "publish"
                     /\ recordedAt[q] # None
                     /\ reference[q] = reference[r]
                     => now > recordedAt[q] + TTL
  <1>1. IInv /\ [Next]_vars => [A]_vars
    BY ReissuedAfterTTL
  <1> QED
    BY <1>1, GatewayInvariant, PTL DEF Spec, LiveReferenceIsNotReissued

(***************************************************************************)
(* Inside the gateway the store is the store of IdempotencyStore, so its   *)
(* lookups obey PaymentLease (main.go:111-173, 225, 278).                  *)
(***************************************************************************)
THEOREM GatewayImplementsLease == Spec => LeaseSpec
  <1>1. Init => StoreInit
    BY DEF Init
  <1>2. IInv /\ [Next]_vars => [StoreNext]_storeVars
    BY StoreStep DEF IInv
  <1>3. Spec => StoreSpec
    BY <1>1, <1>2, GatewayInvariant, PTL DEF Spec, StoreSpec
  <1> QED
    BY <1>3, StoreImplementsLease, PTL

=============================================================================
