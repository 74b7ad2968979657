-------------------------- MODULE PaymentFlowProofs -------------------------
(***************************************************************************)
(* Proofs about the gateway and the ledger composed, for every set of      *)
(* calls, references, ids and replicas, every placement of keys, every TTL *)
(* and every number of crashes on both sides.                              *)
(*                                                                         *)
(* A step of the composition is a step of the gateway, so the invariant    *)
(* IInv of GatewayProofs comes for free; FlowInv adds to it:               *)
(*   LogOfTopic    each partition holds the topic's records of its keys,   *)
(*                 in the topic's order;                                   *)
(*   Recorded      what a call published in this process is recorded, or   *)
(*                 its handler has just left Publish;                      *)
(*   Apart         handlers of one reference do not overlap;               *)
(*   Waited        a handler at Publish has found no publication of its    *)
(*                 reference by this process that is at most a TTL old.    *)
(* Every Publish is then the ledger's Produce, so what LedgerProofs shows  *)
(* of the ledger holds in the composition as well.                         *)
(***************************************************************************)
EXTENDS PaymentFlow, GatewayProofs, FiniteSetTheorems

LP == INSTANCE LedgerProofs WITH
          Events <- Message,
          MaxRecords <- Cardinality(Requests),
          MaxStops <- MaxLedgerStops,
          MaxMoves <- 0,
          stops <- ledgerStops

\* The record at offset o of partition p is the j-th of the topic, and has before
\* it the earlier ones of p.
StandsFor(lg, tp, p, o, j) ==
    /\ tp[j] = lg[p][o]
    /\ Placement[tp[j].key] = p
    /\ \A i \in 1 .. (j - 1) : Placement[tp[i].key] = p => \E u \in 1 .. (o - 1) : lg[p][u] = tp[i]

\* A call has one record at most.
Distinct(lg) ==
    \A p, q \in Partitions : \A o \in 1 .. Len(lg[p]), u \in 1 .. Len(lg[q]) :
        lg[p][o].from = lg[q][u].from => p = q /\ o = u

Holds(lg, tp) ==
    /\ lg \in [Partitions -> Seq(Message)]
    /\ \A p \in Partitions : \A o \in 1 .. Len(lg[p]) :
          \E j \in 1 .. Len(tp) : StandsFor(lg, tp, p, o, j)
    /\ \A i \in 1 .. Len(tp) : \A p \in Partitions :
          p = Placement[tp[i].key] => \E u \in 1 .. Len(lg[p]) : lg[p][u] = tp[i]
    /\ Distinct(lg)

LogOfTopic == Holds(log, topic)

\* Where a handler has its reference in hand.
Past == {"check", "publish", "record", "respond"}

Apart ==
    /\ phase = "down" => InFlight = {}
    /\ \A q, r \in Requests :
          q # r /\ pc[q] \in Past /\ pc[r] \in Past => reference[q] # reference[r]

Publication == [life : Nat, at : Nat]

\* The event of q at i is recorded, or about to be, if this process published it.
RecordedEvent(i, q) ==
    /\ sent[q] \in Publication
    /\ sent[q].life <= gatewayLife
    /\ sent[q].at <= now
    /\ topic[i].reference = reference[q]
    /\ pc[q] \notin {"idle", "decode", "check", "publish"}
    /\ phase # "down" /\ sent[q].life = gatewayLife =>
          \/ pc[q] = "record"
          \/ recordedAt[q] # None /\ recordedAt[q] >= sent[q].at

Recorded ==
    /\ gatewayLife \in Nat
    /\ \A i \in DOMAIN topic : RecordedEvent(i, topic[i].from)

\* Publications of r's reference by this process are more than a TTL old.
LongAgo(r) ==
    \A i \in DOMAIN topic :
        topic[i].reference = reference[r] /\ sent[topic[i].from].life = gatewayLife =>
            now > sent[topic[i].from].at + TTL

Waited == \A r \in Requests : pc[r] = "publish" => LongAgo(r)

FlowInv ==
    /\ LogOfTopic
    /\ Apart
    /\ Recorded
    /\ Waited
    /\ SequentialClientPaysOnce

-----------------------------------------------------------------------------
(***************************************************************************)
(* For the gateway the composition is the gateway.                         *)
(***************************************************************************)
LEMMA FlowStepOfGateway ==
    ASSUME [FlowNext]_flowVars
    PROVE  [Next]_vars
  BY DEF FlowNext, flowVars, GatewayDoes, LedgerDoes

\* Since every step of the composition is one of the gateway or leaves it alone,
\* what GatewayProofs shows of the gateway holds in the composition.
LEMMA FlowImplementsGateway == FlowSpec => Spec
  <1>1. FlowInit => Init
    BY DEF FlowInit
  <1> QED
    BY <1>1, FlowStepOfGateway, PTL DEF FlowSpec, Spec

-----------------------------------------------------------------------------
(***************************************************************************)
(* How a step of the gateway moves one handler.                            *)
(***************************************************************************)
HandlerMove(r) ==
    \/ pc'[r] = pc[r] /\ reference'[r] = reference[r]
          /\ (recordedAt'[r] = recordedAt[r] \/ phase' = "down")
    \/ pc[r] = "idle" /\ pc'[r] = "decode" /\ phase = "serving" /\ reference'[r] = reference[r]
    \/ DecodeBody(r) /\ pc'[r] = "check"
    \/ IssueID(r) /\ pc'[r] = "publish" /\ reference'[r] = reference[r]
    \/ Publish(r) /\ pc'[r] = "record" /\ reference'[r] = reference[r]
    \/ pc[r] = "record" /\ pc'[r] = "respond" /\ reference'[r] = reference[r]
          /\ recordedAt'[r] = now
    \/ pc[r] \in Steps \ {"record"} /\ pc'[r] = "done" /\ reference'[r] = reference[r]
          /\ recordedAt'[r] = recordedAt[r]
    \/ pc[r] \in Steps /\ pc'[r] = "lost" /\ reference'[r] = reference[r] /\ phase' = "down"

LEMMA HandlerMoves ==
    ASSUME TypeOK, [Next]_vars, NEW r \in Requests
    PROVE  HandlerMove(r)
  <1> USE DEF HandlerMove
  <1>1. ASSUME NEW s \in Requests \ {r}, Accept(s) \/ HandlerStep(s)
        PROVE  /\ pc'[r] = pc[r] /\ reference'[r] = reference[r]
               /\ recordedAt'[r] = recordedAt[r]
    BY <1>1 DEF Accept, HandlerStep, RejectBody, DecodeBody, Replay, IssueID, Publish,
       PublishRefused, RecordKey, RespondCreated, Reply, Goto, TypeOK
  <1>2. CASE Accept(r)
    BY <1>2 DEF Accept, Goto, TypeOK
  <1>3. CASE RejectBody(r) \/ Replay(r) \/ PublishRefused(r) \/ RespondCreated(r)
    BY <1>3 DEF RejectBody, Replay, PublishRefused, RespondCreated, Reply, Goto, TypeOK, Steps
  <1>4. CASE DecodeBody(r)
    BY <1>4 DEF DecodeBody, Goto, TypeOK
  <1>5. CASE IssueID(r) \/ Publish(r)
    BY <1>5 DEF IssueID, Publish, Goto, TypeOK
  <1>6. CASE RecordKey(r)
    BY <1>6 DEF RecordKey, Goto, TypeOK
  <1>7. CASE Exit \/ Crash
    BY <1>7 DEF Exit, Crash, Die, InFlight, TypeOK
  <1>8. CASE EvictTick \/ StopServing \/ ShutdownReturns \/ CloseProducer \/ Restart \/ Clock
    BY <1>8 DEF EvictTick, StopServing, ShutdownReturns, CloseProducer, Restart, Clock,
       handlerVars
  <1>9. CASE UNCHANGED vars
    BY <1>9 DEF vars, handlerVars
  <1> QED
    BY <1>1, <1>2, <1>3, <1>4, <1>5, <1>6, <1>7, <1>8, <1>9 DEF Next, HandlerStep, ProcessStep

(***************************************************************************)
(* Time does not run back, a handler's step leaves the process as it is,   *)
(* and the process ends with its handlers.                                 *)
(***************************************************************************)
LEMMA ProcessMoves ==
    ASSUME TypeOK, [Next]_vars
    PROVE  /\ now <= now' /\ now \in Nat /\ now' \in Nat
           /\ phase = "down" /\ phase' # "down" => UNCHANGED <<pc, topic, now>> /\ phase' = "serving"
           /\ phase' = "down" => phase = "down" \/ InFlight' = {}
           /\ \A r \in Requests : HandlerStep(r) \/ Accept(r) => UNCHANGED <<phase, now>>
  <1>1. ASSUME NEW r \in Requests, HandlerStep(r) \/ Accept(r)
        PROVE  UNCHANGED <<phase, now>>
    BY <1>1 DEF HandlerStep, RejectBody, DecodeBody, Replay, IssueID, Publish, PublishRefused,
       RecordKey, Record, RespondCreated, Accept, storeVars, processVars
  <1>2. now \in Nat
    BY DEF TypeOK, StoreTypeOK
  <1>3. CASE \E r \in Requests : HandlerStep(r) \/ Accept(r)
    BY <1>1, <1>2, <1>3
  <1>4. CASE Exit \/ Crash
    <2>1. phase' = "down" /\ InFlight' = {} /\ now' = now
      BY <1>4 DEF Exit, Crash, Die, NewStore, InFlight, Steps, TypeOK
    <2> QED
      BY <1>1, <1>2, <2>1
  <1>5. CASE EvictTick \/ StopServing \/ ShutdownReturns \/ CloseProducer \/ Restart \/ Clock
    <2>1. now' = now \/ now' = now + 1
      BY <1>5 DEF EvictTick, Evict, StopServing, ShutdownReturns, CloseProducer, Restart, Clock,
         Tick, storeVars
    <2>2. phase' = "down" => phase = "down"
      BY <1>5 DEF EvictTick, StopServing, ShutdownReturns, CloseProducer, Restart, Clock,
         processVars
    <2>3. Restart => UNCHANGED <<pc, topic, now>> /\ phase' = "serving"
      BY DEF Restart, handlerVars, storeVars
    <2>4. ~ Restart => (phase = "down" <=> phase' = "down")
      BY <1>5 DEF EvictTick, StopServing, ShutdownReturns, CloseProducer, Clock, processVars
    <2> QED
      BY <1>1, <1>2, <2>1, <2>2, <2>3, <2>4
  <1>6. CASE UNCHANGED vars
    BY <1>1, <1>2, <1>6 DEF vars, storeVars, processVars
  <1> QED
    BY <1>3, <1>4, <1>5, <1>6 DEF Next, ProcessStep

-----------------------------------------------------------------------------
(***************************************************************************)
(* The partitions change with the topic, and only then.                    *)
(***************************************************************************)
NewEvent(r) == [key |-> paymentID[r], reference |-> reference[r], from |-> r]

LEMMA PublishPlaces ==
    ASSUME TypeOK, Progress, [FlowNext]_flowVars, NEW r \in Requests, Publish(r)
    PROVE  GatewayDoes(Next) /\ Place(NewEvent(r))
  <1>1. /\ Len(topic) \in Nat /\ DOMAIN topic = 1 .. Len(topic)
        /\ topic' \in Seq(Message) /\ DOMAIN topic' = 1 .. (Len(topic) + 1)
        /\ topic'[Len(topic) + 1] = NewEvent(r)
    BY PublishAppends DEF NewEvent
  <1>2. Len(topic') = Len(topic) + 1 /\ topic' # topic
    BY <1>1
  <1>3. GatewayDoes(Next)
    BY <1>2 DEF FlowNext, flowVars, LedgerDoes, vars
  <1> QED
    BY <1>1, <1>2, <1>3 DEF GatewayDoes

LEMMA LogStays ==
    ASSUME [FlowNext]_flowVars, ~ \E r \in Requests : Publish(r)
    PROVE  UNCHANGED <<topic, log>>
  <1>1. UNCHANGED topic
    BY OnlyPublishAppends, FlowStepOfGateway
  <1>2. CASE GatewayDoes(Next)
    BY <1>1, <1>2 DEF GatewayDoes
  <1>3. CASE LedgerDoes(L!ConsumerNext)
    BY <1>1, <1>3 DEF LedgerDoes, L!ConsumerNext, L!Assign, L!Move, L!Deliver, L!Commit,
       L!HandlerStep, L!SkipSeen, L!PassUnseen, L!Work, L!Mark, L!Return, L!SubscribeFails,
       L!Cancel, L!Exit, L!Crash, L!Die, L!Restart
  <1>4. CASE UNCHANGED flowVars
    BY <1>1, <1>4 DEF flowVars
  <1> QED
    BY <1>2, <1>3, <1>4 DEF FlowNext

(***************************************************************************)
(* A new record at the end of the topic and at the end of its partition.   *)
(***************************************************************************)
LEMMA AppendToBoth ==
    ASSUME NEW lg, NEW tp \in Seq(Message), NEW m \in Message, Holds(lg, tp),
           \A i \in 1 .. Len(tp) : tp[i].from # m.from
    PROVE  Holds([lg EXCEPT ![Placement[m.key]] = Append(@, m)], Append(tp, m))
  <1> DEFINE p == Placement[m.key]
             k == Len(lg[p])
             n == Len(tp)
             lg2 == [lg EXCEPT ![p] = Append(@, m)]
             tp2 == Append(tp, m)
  <1>1. p \in Partitions
    BY FlowAssumption DEF Message
  <1>2. lg \in [Partitions -> Seq(Message)]
    BY DEF Holds
  <1>3. /\ n \in Nat /\ Len(tp2) = n + 1
        /\ \A i \in 1 .. n : tp2[i] = tp[i]
        /\ tp2[n + 1] = m
    OBVIOUS
  <1>4. /\ lg2 \in [Partitions -> Seq(Message)]
        /\ lg2[p] = Append(lg[p], m)
        /\ \A q \in Partitions : q # p => lg2[q] = lg[q]
    <2>1. lg[p] \in Seq(Message) /\ Append(lg[p], m) \in Seq(Message)
      BY <1>1, <1>2
    <2> QED
      BY <1>1, <1>2, <2>1
  <1>5. /\ k \in Nat /\ Len(lg2[p]) = k + 1
        /\ \A o \in 1 .. k : lg2[p][o] = lg[p][o]
        /\ lg2[p][k + 1] = m
    <2>1. lg[p] \in Seq(Message)
      BY <1>1, <1>2
    <2> QED
      BY <1>4, <2>1
  <1>6. \A q \in Partitions : Len(lg[q]) \in Nat
    BY <1>2
  <1> HIDE DEF p, k, n, lg2, tp2
  <1>7. \A q \in Partitions : \A o \in 1 .. Len(lg[q]) :
           o \in 1 .. Len(lg2[q]) /\ lg2[q][o] = lg[q][o]
    <2> SUFFICES ASSUME NEW q \in Partitions, NEW o \in 1 .. Len(lg[q])
                 PROVE  o \in 1 .. Len(lg2[q]) /\ lg2[q][o] = lg[q][o]
      OBVIOUS
    <2>1. CASE q = p
      BY <1>5, <2>1 DEF k
    <2>2. CASE q # p
      BY <1>4, <2>2
    <2> QED
      BY <2>1, <2>2
  <1>8. \A q \in Partitions : \A o \in 1 .. Len(lg2[q]) :
           \/ o \in 1 .. Len(lg[q])
           \/ q = p /\ o = k + 1 /\ lg2[q][o] = m
    BY <1>4, <1>5 DEF k
  <1>9. \A q \in Partitions : \A o \in 1 .. Len(lg[q]) : lg[q][o].from # m.from
    BY DEF Holds, StandsFor, n
  <1>10. ASSUME NEW i \in 1 .. Len(tp2), NEW q \in Partitions, q = Placement[tp2[i].key]
         PROVE  \E u \in 1 .. Len(lg2[q]) : lg2[q][u] = tp2[i]
    <2>1. CASE i = n + 1
      <3>1. tp2[i] = m /\ q = p
        BY <1>3, <1>10, <2>1 DEF p
      <3>2. k + 1 \in 1 .. Len(lg2[q]) /\ lg2[q][k + 1] = m
        BY <1>5, <3>1
      <3> QED
        BY <3>1, <3>2
    <2>2. CASE i \in 1 .. n
      <3>1. tp2[i] = tp[i] /\ q = Placement[tp[i].key]
        BY <1>3, <1>10, <2>2
      <3>2. PICK u \in 1 .. Len(lg[q]) : lg[q][u] = tp[i]
        BY <2>2, <3>1 DEF Holds, n
      <3> QED
        BY <1>7, <3>1, <3>2
    <2> QED
      BY <1>3, <2>1, <2>2
  <1>11. ASSUME NEW q \in Partitions, NEW o \in 1 .. Len(lg2[q])
         PROVE  \E j \in 1 .. Len(tp2) : StandsFor(lg2, tp2, q, o, j)
    <2>1. CASE o \in 1 .. Len(lg[q])
      <3>1. PICK j \in 1 .. n : StandsFor(lg, tp, q, o, j)
        BY <2>1 DEF Holds, n
      <3>2. j \in 1 .. Len(tp2) /\ tp2[j] = tp[j] /\ \A i \in 1 .. (j - 1) : tp2[i] = tp[i]
        BY <1>3
      <3>3. lg2[q][o] = lg[q][o] /\ \A u \in 1 .. (o - 1) : lg2[q][u] = lg[q][u]
        BY <1>6, <1>7, <2>1
      <3>4. ASSUME NEW i \in 1 .. (j - 1), Placement[tp2[i].key] = q
            PROVE  \E u \in 1 .. (o - 1) : lg2[q][u] = tp2[i]
        <4>1. PICK u \in 1 .. (o - 1) : lg[q][u] = tp[i]
          BY <3>1, <3>2, <3>4 DEF StandsFor
        <4> QED
          BY <3>2, <3>3, <4>1
      <3>5. tp2[j] = lg2[q][o] /\ Placement[tp2[j].key] = q
        BY <3>1, <3>2, <3>3 DEF StandsFor
      <3>6. StandsFor(lg2, tp2, q, o, j)
        BY <3>4, <3>5 DEF StandsFor
      <3> QED
        BY <3>2, <3>6
    <2>2. CASE q = p /\ o = k + 1 /\ lg2[q][o] = m
      <3>1. n + 1 \in 1 .. Len(tp2) /\ tp2[n + 1] = m /\ Placement[m.key] = q
        BY <1>3, <2>2 DEF p
      <3>2. ASSUME NEW i \in 1 .. ((n + 1) - 1), Placement[tp2[i].key] = q
            PROVE  \E u \in 1 .. (o - 1) : lg2[q][u] = tp2[i]
        <4>1. i \in 1 .. n /\ tp2[i] = tp[i]
          BY <1>3
        <4>2. PICK u \in 1 .. Len(lg[q]) : lg[q][u] = tp[i]
          BY <3>2, <4>1 DEF Holds, n
        <4>3. u \in 1 .. (o - 1)
          BY <1>5, <2>2, <4>2 DEF k
        <4> QED
          BY <1>7, <4>1, <4>2, <4>3
      <3>3. StandsFor(lg2, tp2, q, o, n + 1)
        <4>1. tp2[n + 1] = lg2[q][o] /\ Placement[tp2[n + 1].key] = q
          BY <2>2, <3>1
        <4> QED
          BY <3>2, <4>1 DEF StandsFor
      <3> QED
        BY <3>1, <3>3
    <2> QED
      BY <1>8, <2>1, <2>2
  <1>12. ASSUME NEW q \in Partitions, NEW s \in Partitions, NEW o \in 1 .. Len(lg2[q]),
                NEW u \in 1 .. Len(lg2[s]), lg2[q][o].from = lg2[s][u].from
         PROVE  q = s /\ o = u
    <2>1. CASE o \in 1 .. Len(lg[q]) /\ u \in 1 .. Len(lg[s])
      <3>1. lg[q][o].from = lg[s][u].from
        BY <1>7, <1>12, <2>1
      <3>2. Distinct(lg)
        BY DEF Holds
      <3> QED
        BY <2>1, <3>1, <3>2 DEF Distinct
    <2>2. CASE o \in 1 .. Len(lg[q]) /\ u \notin 1 .. Len(lg[s])
      <3>1. lg[q][o].from = m.from
        BY <1>7, <1>8, <1>12, <2>2
      <3> QED
        BY <1>9, <2>2, <3>1
    <2>3. CASE o \notin 1 .. Len(lg[q]) /\ u \in 1 .. Len(lg[s])
      <3>1. lg[s][u].from = m.from
        BY <1>7, <1>8, <1>12, <2>3
      <3> QED
        BY <1>9, <2>3, <3>1
    <2>4. CASE o \notin 1 .. Len(lg[q]) /\ u \notin 1 .. Len(lg[s])
      BY <1>8, <2>4
    <2> QED
      BY <2>1, <2>2, <2>3, <2>4
  <1>13. Holds(lg2, tp2)
    BY <1>4, <1>10, <1>11, <1>12 DEF Holds, Distinct
  <1> QED
    BY <1>13 DEF lg2, tp2, p

LEMMA LogOfTopicStep ==
    ASSUME TypeOK, Progress, PublishedSoFar, LogOfTopic, [FlowNext]_flowVars
    PROVE  LogOfTopic'
  <1>1. ASSUME NEW r \in Requests, Publish(r)
        PROVE  LogOfTopic'
    <2> DEFINE m == NewEvent(r)
    <2>1. m \in Message /\ m.from = r
      BY <1>1 DEF NewEvent, Publish, Progress, Message
    <2>2. topic \in Seq(Message) /\ topic' = Append(topic, m)
      BY <1>1 DEF NewEvent, Publish, TypeOK
    <2>3. \A i \in 1 .. Len(topic) : topic[i].from # m.from
      BY <1>1, <2>1, <2>2 DEF Publish, PublishedSoFar
    <2>4. log' = [log EXCEPT ![Placement[m.key]] = Append(@, m)]
      BY <1>1, PublishPlaces DEF Place
    <2> HIDE DEF m
    <2>5. Holds(log', topic')
      BY <2>1, <2>2, <2>3, <2>4, AppendToBoth DEF LogOfTopic
    <2> QED
      BY <2>5 DEF LogOfTopic
  <1>2. CASE ~ \E r \in Requests : Publish(r)
    BY <1>2, LogStays DEF LogOfTopic
  <1> QED
    BY <1>1, <1>2

-----------------------------------------------------------------------------
(***************************************************************************)
(* For the ledger the composition is the ledger.  The records of all       *)
(* partitions come from different calls, and the one that is about to      *)
(* publish has none yet, so a gateway stays within Ledger's MaxRecords.    *)
(***************************************************************************)
LEMMA FewerRecordsThanCalls ==
    ASSUME TypeOK, PublishedSoFar, LogOfTopic, NEW r \in Requests, Publish(r)
    PROVE  Cardinality({m \in Partitions \X (1 .. Cardinality(Requests)) : LP!Exists(m)})
               < Cardinality(Requests)
  <1> DEFINE S == {m \in Partitions \X (1 .. Cardinality(Requests)) : LP!Exists(m)}
             T == Requests \ {r}
             f == [m \in S |-> log[m[1]][m[2]].from]
  <1>1. ASSUME NEW m \in S
        PROVE  m[1] \in Partitions /\ m[2] \in 1 .. Len(log[m[1]]) /\ f[m] \in T
    <2>1. m[1] \in Partitions /\ m[2] \in 1 .. Len(log[m[1]])
      BY DEF LP!Exists
    <2>2. PICK j \in 1 .. Len(topic) : topic[j] = log[m[1]][m[2]]
      BY <2>1 DEF LogOfTopic, Holds, StandsFor
    <2>3. topic[j] \in Message /\ j \in DOMAIN topic
      BY DEF TypeOK
    <2>4. topic[j].from \in Requests /\ topic[j].from # r
      BY <2>3 DEF Message, PublishedSoFar, Publish
    <2> QED
      BY <2>1, <2>2, <2>4
  <1>2. ASSUME NEW m \in S, NEW n \in S, f[m] = f[n]
        PROVE  m = n
    <2>1. log[m[1]][m[2]].from = log[n[1]][n[2]].from
      BY <1>2
    <2>2. Distinct(log)
      BY DEF LogOfTopic, Holds
    <2>3. m[1] = n[1] /\ m[2] = n[2]
      BY <1>1, <2>1, <2>2 DEF Distinct
    <2> QED
      BY <2>3
  <1>3. f \in Injection(S, T)
    BY <1>1, <1>2 DEF Injection, IsInjective
  <1>4. IsFiniteSet(T) /\ Cardinality(T) = Cardinality(Requests) - 1
    BY FlowAssumption, FS_RemoveElement
  <1> HIDE DEF S, T, f
  <1>5. IsFiniteSet(S) /\ Cardinality(S) <= Cardinality(T)
    BY <1>3, <1>4, FS_Injection
  <1>6. Cardinality(S) \in Nat /\ Cardinality(Requests) \in Nat
    BY <1>5, FlowAssumption, FS_CardinalityType
  <1>7. Cardinality(S) < Cardinality(Requests)
    BY <1>4, <1>5, <1>6
  <1> QED
    BY <1>7 DEF S

LEMMA PublishProduces ==
    ASSUME TypeOK, Progress, PublishedSoFar, LogOfTopic, [FlowNext]_flowVars,
           NEW r \in Requests, Publish(r)
    PROVE  L!Produce(Placement[paymentID[r]])
  <1>1. NewEvent(r) \in Message /\ NewEvent(r).key = paymentID[r]
    BY DEF NewEvent, Publish, Progress, Message
  <1>2. GatewayDoes(Next) /\ Place(NewEvent(r))
    BY PublishPlaces
  <1>3. log' = [log EXCEPT ![Placement[paymentID[r]]] = Append(@, NewEvent(r))]
    BY <1>1, <1>2 DEF Place
  <1>4. UNCHANGED <<L!brokerVars, L!handlerVars, L!processVars, effects>>
    BY <1>2 DEF GatewayDoes, ledgerVars, L!brokerVars, L!handlerVars, L!processVars
  <1>5. Cardinality({m \in Partitions \X (1 .. Cardinality(Requests)) : L!Exists(m)})
            < Cardinality(Requests)
    BY FewerRecordsThanCalls DEF LP!Exists, L!Exists
  <1>6. L!Cardinality({m \in Partitions \X (1 .. Cardinality(Requests)) : L!Exists(m)})
            < Cardinality(Requests)
    BY <1>5 DEF L!Cardinality, Cardinality
  <1> QED
    BY <1>1, <1>3, <1>4, <1>6 DEF L!Produce

LEMMA FlowStepOfLedger ==
    ASSUME TypeOK, Progress, PublishedSoFar, LogOfTopic, [FlowNext]_flowVars
    PROVE  [L!Next]_(L!vars)
  <1>1. ASSUME NEW r \in Requests, Publish(r)
        PROVE  L!Next
    <2>1. Placement[paymentID[r]] \in Partitions
      BY <1>1, FlowAssumption DEF Publish, Progress
    <2> QED
      BY <1>1, <2>1, PublishProduces DEF L!Next
  <1>2. CASE ~ \E r \in Requests : Publish(r)
    <2>1. UNCHANGED log
      BY <1>2, LogStays
    <2>2. CASE GatewayDoes(Next)
      BY <2>1, <2>2 DEF GatewayDoes, ledgerVars, L!vars, L!brokerVars, L!handlerVars, L!processVars
    <2>3. CASE LedgerDoes(L!ConsumerNext)
      BY <2>3 DEF LedgerDoes, L!Next
    <2>4. CASE UNCHANGED flowVars
      BY <2>4 DEF flowVars, ledgerVars, L!vars, L!brokerVars, L!handlerVars, L!processVars
    <2> QED
      BY <2>2, <2>3, <2>4 DEF FlowNext
  <1> QED
    BY <1>1, <1>2

-----------------------------------------------------------------------------
(***************************************************************************)
(* What the composition remembers of each publication.                     *)
(***************************************************************************)
LEMMA HistoryMoves ==
    ASSUME TypeOK, Progress, [FlowNext]_flowVars
    PROVE  /\ \A r \in Requests : Publish(r) =>
                 /\ sent'[r] = [life |-> gatewayLife, at |-> now]
                 /\ \A q \in Requests \ {r} : sent'[q] = sent[q]
           /\ (~ \E r \in Requests : Publish(r)) => \A q \in Requests : sent'[q] = sent[q]
           /\ gatewayLife' = IF phase = "down" /\ phase' = "serving"
                             THEN gatewayLife + 1 ELSE gatewayLife
  <1>1. ASSUME NEW r \in Requests, Publish(r)
        PROVE  /\ sent'[r] = [life |-> gatewayLife, at |-> now]
               /\ \A q \in Requests \ {r} : sent'[q] = sent[q]
    <2>1. GatewayDoes(Next)
      BY <1>1, PublishPlaces
    <2>2. pc[r] = "publish" /\ pc'[r] = "record" /\ \A q \in Requests \ {r} : pc'[q] = pc[q]
      BY <1>1 DEF Publish, Goto, TypeOK
    <2>3. topic' # topic
      <3>1. Len(topic) \in Nat /\ DOMAIN topic = 1 .. Len(topic)
            /\ DOMAIN topic' = 1 .. (Len(topic) + 1)
        BY <1>1, PublishAppends
      <3> QED
        BY <3>1
    <2> QED
      BY <2>1, <2>2, <2>3 DEF GatewayDoes
  <1>2. ASSUME ~ \E r \in Requests : Publish(r), NEW q \in Requests
        PROVE  sent'[q] = sent[q]
    <2>1. topic' = topic
      BY <1>2, LogStays
    <2> QED
      BY <2>1 DEF FlowNext, GatewayDoes, LedgerDoes, flowVars
  <1>3. gatewayLife' = IF phase = "down" /\ phase' = "serving"
                       THEN gatewayLife + 1 ELSE gatewayLife
    BY DEF FlowNext, GatewayDoes, LedgerDoes, flowVars, vars, processVars
  <1> QED
    BY <1>1, <1>2, <1>3

(***************************************************************************)
(* Clients are sequential, so handlers of one reference do not overlap.    *)
(***************************************************************************)
LEMMA ApartStep ==
    ASSUME TypeOK, Apart, [FlowNext]_flowVars
    PROVE  Apart'
  <1>0. [Next]_vars
    BY FlowStepOfGateway
  <1>1. ASSUME phase' = "down"
        PROVE  InFlight' = {}
    <2>1. CASE phase = "down"
      <3>1. ASSUME NEW r \in Requests
            PROVE  pc'[r] \notin Steps
        <4>1. pc[r] \notin Steps
          BY <2>1 DEF Apart, InFlight
        <4> QED
          BY <1>0, <2>1, <4>1, HandlerMoves DEF HandlerMove, Steps, DecodeBody, IssueID, Publish
      <3> QED
        BY <3>1 DEF InFlight
    <2>2. CASE phase # "down"
      BY <1>0, <1>1, <2>2, ProcessMoves
    <2> QED
      BY <2>1, <2>2
  <1>2. ASSUME NEW r \in Requests, pc'[r] \in Past
        PROVE  \/ pc[r] \in Past /\ reference'[r] = reference[r]
               \/ DecodeBody(r) /\ pc'[r] = "check"
    BY <1>0, <1>2, HandlerMoves DEF HandlerMove, Past, IssueID, Publish
  <1>3. ASSUME NEW q \in Requests, NEW r \in Requests \ {q}, DecodeBody(q), pc'[q] = "check",
               pc'[r] \in Past
        PROVE  reference'[q] # reference'[r]
    <2>1. pc[q] = "decode" /\ pc'[r] = pc[r] /\ reference'[r] = reference[r]
      BY <1>3 DEF DecodeBody, Goto, TypeOK
    <2>2. GatewayDoes(Next)
      BY <1>3, <2>1 DEF FlowNext, LedgerDoes, flowVars, vars, handlerVars
    <2>3. r \in InFlight \ {q}
      BY <1>3, <2>1 DEF InFlight, Past, Steps
    <2> QED
      BY <1>3, <2>1, <2>2, <2>3 DEF GatewayDoes, SequentialClients
  <1>4. ASSUME NEW q \in Requests, NEW r \in Requests \ {q}, pc'[q] \in Past, pc'[r] \in Past
        PROVE  reference'[q] # reference'[r]
    <2>1. CASE DecodeBody(q) /\ pc'[q] = "check"
      BY <1>3, <1>4, <2>1
    <2>2. CASE DecodeBody(r) /\ pc'[r] = "check"
      BY <1>3, <1>4, <2>2
    <2>3. CASE /\ pc[q] \in Past /\ reference'[q] = reference[q]
               /\ pc[r] \in Past /\ reference'[r] = reference[r]
      BY <2>3 DEF Apart
    <2> QED
      BY <1>2, <1>4, <2>1, <2>2, <2>3
  <1> QED
    BY <1>1, <1>4 DEF Apart

(***************************************************************************)
(* An event of this process is recorded by the handler that published it,  *)
(* not before it was published.                                            *)
(***************************************************************************)
LEMMA RecordedKeeps ==
    ASSUME TypeOK, Recorded, [FlowNext]_flowVars, NEW i \in DOMAIN topic, NEW q \in Requests,
           RecordedEvent(i, q), sent'[q] = sent[q], topic'[i] = topic[i]
    PROVE  RecordedEvent(i, q)'
  <1>0. [Next]_vars
    BY FlowStepOfGateway
  <1>1. /\ sent[q] \in Publication /\ sent[q].life \in Nat /\ sent[q].at \in Nat
        /\ sent[q].life <= gatewayLife /\ sent[q].at <= now
        /\ topic[i].reference = reference[q]
        /\ pc[q] \notin {"idle", "decode", "check", "publish"}
    BY DEF RecordedEvent, Publication
  <1>2. /\ gatewayLife \in Nat /\ now \in Nat /\ now' \in Nat /\ now <= now'
        /\ gatewayLife' = IF phase = "down" /\ phase' = "serving"
                          THEN gatewayLife + 1 ELSE gatewayLife
        /\ phase = "down" /\ phase' # "down" => phase' = "serving"
    <2>1. gatewayLife \in Nat
      BY DEF Recorded
    <2>2. gatewayLife' = IF phase = "down" /\ phase' = "serving"
                         THEN gatewayLife + 1 ELSE gatewayLife
      BY DEF FlowNext, GatewayDoes, LedgerDoes, flowVars, vars, processVars
    <2> QED
      BY <1>0, <2>1, <2>2, ProcessMoves
  <1>3. \/ /\ pc'[q] = pc[q] /\ reference'[q] = reference[q]
           /\ recordedAt'[q] = recordedAt[q] \/ phase' = "down"
        \/ pc'[q] = "respond" /\ reference'[q] = reference[q] /\ recordedAt'[q] = now
        \/ /\ pc[q] # "record" /\ pc'[q] = "done" /\ reference'[q] = reference[q]
           /\ recordedAt'[q] = recordedAt[q]
        \/ pc'[q] = "lost" /\ reference'[q] = reference[q] /\ phase' = "down"
    BY <1>0, <1>1, HandlerMoves DEF HandlerMove, DecodeBody, IssueID, Publish, Steps
  <1>4. ASSUME phase' # "down", sent[q].life = gatewayLife'
        PROVE  pc'[q] = "record" \/ (recordedAt'[q] # None /\ recordedAt'[q] >= sent[q].at)
    <2>1. phase # "down"
      BY <1>1, <1>2, <1>4
    <2>2. \/ pc[q] = "record"
          \/ recordedAt[q] # None /\ recordedAt[q] >= sent[q].at
      BY <1>2, <1>4, <2>1 DEF RecordedEvent
    <2>3. now # None
      BY <1>2, StoreAssumption
    <2> QED
      BY <1>1, <1>2, <1>3, <1>4, <2>2, <2>3
  <1>5. /\ sent'[q].life <= gatewayLife' /\ sent'[q].at <= now'
        /\ topic'[i].reference = reference'[q]
        /\ pc'[q] \notin {"idle", "decode", "check", "publish"}
    BY <1>1, <1>2, <1>3
  <1> QED
    BY <1>1, <1>4, <1>5 DEF RecordedEvent

LEMMA RecordedStep ==
    ASSUME TypeOK, Progress, PublishedSoFar, Recorded, [FlowNext]_flowVars
    PROVE  Recorded'
  <1>0. [Next]_vars
    BY FlowStepOfGateway
  <1>1. gatewayLife \in Nat /\ gatewayLife' \in Nat /\ gatewayLife <= gatewayLife'
    BY HistoryMoves DEF Recorded
  <1>2. \A i \in DOMAIN topic : topic[i].from \in Requests /\ RecordedEvent(i, topic[i].from)
    <2>1. topic \in Seq(Message)
      BY DEF TypeOK
    <2>2. \A i \in DOMAIN topic : topic[i] \in Message
      BY <2>1
    <2> QED
      BY <2>2 DEF Message, Recorded
  <1>3. ASSUME NEW r \in Requests, Publish(r)
        PROVE  \A i \in DOMAIN topic' : RecordedEvent(i, topic[i].from)'
    <2>1. /\ Len(topic) \in Nat /\ DOMAIN topic = 1 .. Len(topic)
          /\ DOMAIN topic' = 1 .. (Len(topic) + 1)
          /\ \A i \in DOMAIN topic : topic'[i] = topic[i]
          /\ topic'[Len(topic) + 1] =
                [key |-> paymentID[r], reference |-> reference[r], from |-> r]
      BY <1>3, PublishAppends
    <2>2. /\ sent'[r] = [life |-> gatewayLife, at |-> now]
          /\ \A q \in Requests \ {r} : sent'[q] = sent[q]
      BY <1>3, HistoryMoves
    <2>3. ASSUME NEW i \in DOMAIN topic
          PROVE  RecordedEvent(i, topic[i].from)'
      <3>1. topic[i].from # r
        BY <1>3 DEF Publish, PublishedSoFar
      <3>2. PICK q \in Requests : q = topic[i].from
        BY <1>2
      <3>3. RecordedEvent(i, q) /\ sent'[q] = sent[q] /\ topic'[i] = topic[i]
        BY <1>2, <2>1, <2>2, <3>1, <3>2
      <3>4. RecordedEvent(i, q)'
        BY <3>3, RecordedKeeps
      <3> QED
        BY <3>2, <3>3, <3>4
    <2>4. ASSUME NEW i \in DOMAIN topic', i \notin DOMAIN topic
          PROVE  RecordedEvent(i, topic[i].from)'
      <3>1. topic'[i].from = r /\ topic'[i].reference = reference[r]
        BY <2>1, <2>4
      <3>2. pc'[r] = "record" /\ reference'[r] = reference[r] /\ now' = now
        BY <1>3 DEF Publish, Goto, storeVars, TypeOK
      <3>3. now \in Nat
        BY DEF TypeOK, StoreTypeOK
      <3>4. sent'[r] \in Publication /\ sent'[r].life <= gatewayLife' /\ sent'[r].at <= now'
        BY <1>1, <2>2, <3>2, <3>3 DEF Publication
      <3> QED
        BY <3>1, <3>2, <3>4 DEF RecordedEvent
    <2> QED
      BY <2>3, <2>4
  <1>4. ASSUME ~ \E r \in Requests : Publish(r), NEW i \in DOMAIN topic'
        PROVE  RecordedEvent(i, topic[i].from)'
    <2>1. topic' = topic /\ \A q \in Requests : sent'[q] = sent[q]
      BY <1>4, LogStays, HistoryMoves
    <2>2. PICK q \in Requests : q = topic[i].from
      BY <1>2, <2>1
    <2>3. RecordedEvent(i, q)'
      BY <1>2, <2>1, <2>2, RecordedKeeps
    <2> QED
      BY <2>1, <2>2, <2>3
  <1> QED
    BY <1>1, <1>3, <1>4 DEF Recorded

(***************************************************************************)
(* The invariant of the gateway makes a handler wait for the TTL of what   *)
(* its process has recorded; with handlers apart, nothing else of its      *)
(* reference is published while it is at Publish.                          *)
(***************************************************************************)
LEMMA WaitedStep ==
    ASSUME IInv, Apart, Recorded, Waited, [FlowNext]_flowVars
    PROVE  Waited'
  <1>0. [Next]_vars /\ TypeOK /\ Progress /\ PublishedSoFar
    BY FlowStepOfGateway DEF IInv
  <1> SUFFICES ASSUME NEW r \in Requests, pc'[r] = "publish"
               PROVE  LongAgo(r)'
    BY DEF Waited
  <1>1. /\ pc[r] = "publish" \/ (pc[r] = "check" /\ pc'[r] = "publish")
        /\ reference'[r] = reference[r]
    BY <1>0, HandlerMoves DEF HandlerMove, DecodeBody, IssueID, Publish
  <1>2. phase # "down" /\ gatewayLife' = gatewayLife
    <2>1. r \in InFlight
      BY <1>1 DEF InFlight, Steps
    <2>2. phase # "down"
      BY <2>1 DEF Apart
    <2> QED
      BY <1>0, <2>2, HistoryMoves
  <1>3. now \in Nat /\ now' \in Nat /\ now <= now'
    BY <1>0, ProcessMoves
  <1>4. TTL \in Nat
    BY StoreAssumption
  <1>5. \A i \in DOMAIN topic : topic[i].from \in Requests /\ RecordedEvent(i, topic[i].from)
    <2>1. topic \in Seq(Message)
      BY <1>0 DEF TypeOK
    <2>2. \A i \in DOMAIN topic : topic[i] \in Message
      BY <2>1
    <2> QED
      BY <2>2 DEF Message, Recorded
  <1>6. ASSUME NEW i \in DOMAIN topic, NEW q \in Requests, RecordedEvent(i, q), topic[i].from = q,
               topic[i].reference = reference[r], sent[q].life = gatewayLife
        PROVE  sent[q].at \in Nat /\ now' > sent[q].at + TTL
    <2>1. sent[q].at \in Nat
      BY <1>6 DEF RecordedEvent, Publication
    <2>2. CASE pc[r] = "publish"
      <3>1. now > sent[q].at + TTL
        BY <1>6, <2>2 DEF Waited, LongAgo
      <3> QED
        BY <1>3, <1>4, <2>1, <3>1
    <2>3. CASE pc[r] = "check" /\ pc'[r] = "publish"
      <3>1. /\ reference[q] = reference[r]
            /\ pc[q] \notin {"idle", "decode", "check", "publish"}
            /\ pc[q] = "record" \/ (recordedAt[q] # None /\ recordedAt[q] >= sent[q].at)
        BY <1>2, <1>6 DEF RecordedEvent
      <3>2. q # r
        BY <2>3, <3>1
      <3>3. pc[q] # "record"
        BY <2>3, <3>1, <3>2 DEF Apart, Past
      <3>4. recordedAt[q] # None /\ recordedAt[q] >= sent[q].at /\ recordedAt[q] \in Nat
        BY <1>0, <3>1, <3>3 DEF TypeOK
      <3>5. now > recordedAt[q] + TTL
        BY <1>0, <2>3, <3>1, <3>4, ReissuedAfterTTL
      <3> QED
        BY <1>3, <1>4, <2>1, <3>4, <3>5
    <2> QED
      BY <1>1, <2>1, <2>2, <2>3
  <1>7. ASSUME NEW q \in Requests, Publish(q)
        PROVE  LongAgo(r)'
    <2>1. q # r /\ reference[q] # reference[r]
      <3>1. pc[q] = "publish" /\ pc'[q] = "record" /\ (q # r => pc'[r] = pc[r])
        BY <1>0, <1>7 DEF Publish, Goto, TypeOK
      <3>2. q # r /\ pc[r] = "publish"
        BY <1>1, <3>1
      <3> QED
        BY <3>1, <3>2 DEF Apart, Past
    <2>2. /\ DOMAIN topic = 1 .. Len(topic) /\ Len(topic) \in Nat
          /\ DOMAIN topic' = 1 .. (Len(topic) + 1)
          /\ \A i \in DOMAIN topic : topic'[i] = topic[i]
          /\ topic'[Len(topic) + 1] =
                [key |-> paymentID[q], reference |-> reference[q], from |-> q]
      BY <1>0, <1>7, PublishAppends
    <2>3. \A s \in Requests \ {q} : sent'[s] = sent[s]
      BY <1>0, <1>7, HistoryMoves
    <2>4. ASSUME NEW i \in DOMAIN topic', topic'[i].reference = reference'[r],
                 sent'[topic'[i].from].life = gatewayLife'
          PROVE  now' > sent'[topic'[i].from].at + TTL
      <3>1. i \in DOMAIN topic /\ topic'[i] = topic[i]
        BY <1>1, <2>1, <2>2, <2>4
      <3>2. topic[i].from # q
        BY <1>0, <1>7, <3>1 DEF Publish, PublishedSoFar
      <3>3. topic[i].from \in Requests /\ sent'[topic'[i].from] = sent[topic[i].from]
        BY <1>5, <2>3, <3>1, <3>2
      <3>4. RecordedEvent(i, topic[i].from)
        BY <1>5, <3>1
      <3> QED
        BY <1>1, <1>2, <1>6, <2>4, <3>1, <3>3, <3>4
    <2> QED
      BY <2>4 DEF LongAgo
  <1>8. CASE ~ \E q \in Requests : Publish(q)
    <2>1. topic' = topic /\ \A q \in Requests : sent'[q] = sent[q]
      BY <1>0, <1>8, LogStays, HistoryMoves
    <2>2. ASSUME NEW i \in DOMAIN topic', topic'[i].reference = reference'[r],
                 sent'[topic'[i].from].life = gatewayLife'
          PROVE  now' > sent'[topic'[i].from].at + TTL
      <3>1. i \in DOMAIN topic /\ topic'[i] = topic[i]
        BY <2>1, <2>2
      <3>2. topic[i].from \in Requests /\ RecordedEvent(i, topic[i].from)
        BY <1>5, <3>1
      <3>3. sent'[topic'[i].from] = sent[topic[i].from]
        BY <2>1, <3>1, <3>2
      <3> QED
        BY <1>1, <1>2, <1>6, <2>2, <3>1, <3>2, <3>3
    <2> QED
      BY <2>2 DEF LongAgo
  <1> QED
    BY <1>7, <1>8

(***************************************************************************)
(* A new event comes more than a TTL after those of its reference.         *)
(***************************************************************************)
LEMMA PaysOnceStep ==
    ASSUME TypeOK, Progress, PublishedSoFar, Waited, SequentialClientPaysOnce,
           [FlowNext]_flowVars
    PROVE  SequentialClientPaysOnce'
  <1>0. \A i \in DOMAIN topic : topic[i].from \in Requests
    <2>1. topic \in Seq(Message)
      BY DEF TypeOK
    <2>2. \A i \in DOMAIN topic : topic[i] \in Message
      BY <2>1
    <2> QED
      BY <2>2 DEF Message
  <1>1. ASSUME NEW r \in Requests, Publish(r)
        PROVE  SequentialClientPaysOnce'
    <2>1. /\ DOMAIN topic = 1 .. Len(topic) /\ Len(topic) \in Nat
          /\ DOMAIN topic' = 1 .. (Len(topic) + 1)
          /\ \A i \in DOMAIN topic : topic'[i] = topic[i]
          /\ topic'[Len(topic) + 1] =
                [key |-> paymentID[r], reference |-> reference[r], from |-> r]
      BY <1>1, PublishAppends
    <2>2. /\ sent'[r] = [life |-> gatewayLife, at |-> now]
          /\ \A q \in Requests \ {r} : sent'[q] = sent[q]
      BY <1>1, HistoryMoves
    <2>3. \A i \in DOMAIN topic : sent'[topic'[i].from] = sent[topic[i].from]
      <3>1. \A i \in DOMAIN topic : topic[i].from # r
        BY <1>1 DEF Publish, PublishedSoFar
      <3> QED
        BY <1>0, <2>1, <2>2, <3>1
    <2>4. LongAgo(r)
      BY <1>1 DEF Publish, Waited
    <2>5. ASSUME NEW i \in DOMAIN topic', NEW j \in DOMAIN topic', i < j,
                 topic'[i].reference = topic'[j].reference,
                 sent'[topic'[i].from].life = sent'[topic'[j].from].life
          PROVE  sent'[topic'[j].from].at > sent'[topic'[i].from].at + TTL
      <3>1. i \in DOMAIN topic
        BY <2>1, <2>5
      <3>2. CASE j \in DOMAIN topic
        BY <2>1, <2>3, <2>5, <3>1, <3>2 DEF SequentialClientPaysOnce
      <3>3. CASE j = Len(topic) + 1
        <4>1. topic'[j].reference = reference[r] /\ sent'[topic'[j].from] = sent'[r]
          BY <2>1, <3>3
        <4>2. topic[i].reference = reference[r] /\ sent[topic[i].from].life = gatewayLife
          BY <2>1, <2>2, <2>3, <2>5, <3>1, <4>1
        <4>3. now > sent[topic[i].from].at + TTL
          BY <2>4, <3>1, <4>2 DEF LongAgo
        <4> QED
          BY <2>2, <2>3, <3>1, <4>1, <4>3
      <3> QED
        BY <2>1, <3>2, <3>3
    <2> QED
      BY <2>5 DEF SequentialClientPaysOnce
  <1>2. CASE ~ \E r \in Requests : Publish(r)
    <2>1. topic' = topic /\ \A q \in Requests : sent'[q] = sent[q]
      BY <1>2, LogStays, HistoryMoves
    <2>2. \A i \in DOMAIN topic : sent'[topic[i].from] = sent[topic[i].from]
      BY <1>0, <2>1
    <2> QED
      BY <2>1, <2>2 DEF SequentialClientPaysOnce
  <1> QED
    BY <1>1, <1>2

-----------------------------------------------------------------------------
LEMMA FlowInvInit == FlowInit => FlowInv
  <1> SUFFICES ASSUME FlowInit
               PROVE  FlowInv
    OBVIOUS
  <1>1. topic = <<>> /\ DOMAIN topic = {} /\ Len(topic) = 0
    BY DEF FlowInit, Init
  <1>2. log = [p \in Partitions |-> <<>>]
    BY DEF FlowInit, L!Init
  <1>3. LogOfTopic
    <2>1. log \in [Partitions -> Seq(Message)] /\ \A p \in Partitions : Len(log[p]) = 0
      BY <1>2
    <2> QED
      BY <1>1, <2>1 DEF LogOfTopic, Holds, Distinct
  <1>4. Apart /\ Waited
    BY DEF FlowInit, Init, Apart, Past, Waited
  <1>5. Recorded /\ SequentialClientPaysOnce
    BY <1>1 DEF FlowInit, Recorded, SequentialClientPaysOnce
  <1> QED
    BY <1>3, <1>4, <1>5 DEF FlowInv

LEMMA FlowInvStep == IInv /\ FlowInv /\ [FlowNext]_flowVars => FlowInv'
  BY LogOfTopicStep, ApartStep, RecordedStep, WaitedStep, PaysOnceStep DEF IInv, FlowInv

(***************************************************************************)
(* Gateway and ledger together keep both invariants.                       *)
(***************************************************************************)
THEOREM FlowInvariant == FlowSpec => [](IInv /\ FlowInv)
  <1>1. FlowSpec => []IInv
    BY FlowImplementsGateway, GatewayInvariant, PTL
  <1> QED
    BY <1>1, FlowInvInit, FlowInvStep, PTL DEF FlowSpec

(***************************************************************************)
(* For sequential clients one gateway process publishes two payments for   *)
(* one reference only more than a TTL apart (gateway main.go:113-116).     *)
(***************************************************************************)
THEOREM SequentialClientsPayOnce == FlowSpec => []SequentialClientPaysOnce
  <1>1. FlowInv => SequentialClientPaysOnce
    BY DEF FlowInv
  <1> QED
    BY <1>1, FlowInvariant, PTL

(***************************************************************************)
(* The gateway is a producer of the ledger's topic: every behaviour of the *)
(* composition is one of Ledger (pkg/kafka/message.go:9-11).               *)
(***************************************************************************)
THEOREM FlowImplementsLedger == FlowSpec => LedgerSpec
  <1>1. FlowInit => L!Init
    BY DEF FlowInit
  <1>2. IInv /\ FlowInv /\ [FlowNext]_flowVars => [L!Next]_(L!vars)
    BY FlowStepOfLedger DEF IInv, FlowInv
  <1> QED
    BY <1>1, <1>2, FlowInvariant, PTL DEF FlowSpec, LedgerSpec, L!Spec

-----------------------------------------------------------------------------
(***************************************************************************)
(* What is proved of the ledger alone holds in the composition.            *)
(***************************************************************************)
LEMMA LedgerIsAssumed == LP!LedgerAssumption
  BY FlowAssumption, FS_CardinalityType DEF LP!LedgerAssumption

LEMMA FlowKeepsLedgerInvariant == FlowSpec => []LP!IInv
  <1>1. L!Init => LP!Init
    BY DEF L!Init, LP!Init
  <1>2. ASSUME NEW p \in Partitions
        PROVE  L!Produce(p) => LP!Produce(p)
    BY DEF L!Produce, LP!Produce, L!Exists, LP!Exists, L!Cardinality, LP!Cardinality,
       L!brokerVars, L!handlerVars, L!processVars, LP!brokerVars, LP!handlerVars, LP!processVars
  <1>3. L!ConsumerNext => LP!ConsumerNext
    <2> USE DEF L!brokerVars, L!handlerVars, L!processVars, LP!brokerVars, LP!handlerVars,
            LP!processVars, L!Record, LP!Record, L!MsgID, LP!MsgID, L!Goto, LP!Goto,
            L!Die, LP!Die, L!Disowned, LP!Disowned
    <2>1. \A p \in Partitions, i \in Replicas :
             L!Assign(p, i) \/ L!Move(p, i) \/ L!Deliver(i, p) =>
                LP!Assign(p, i) \/ LP!Move(p, i) \/ LP!Deliver(i, p)
      BY DEF L!Assign, L!Move, L!Deliver, LP!Assign, LP!Move, LP!Deliver
    <2>2. \A p \in Partitions : L!Commit(p) => LP!Commit(p)
      BY DEF L!Commit, LP!Commit
    <2>3. \A i \in Replicas : L!HandlerStep(i) => LP!HandlerStep(i)
      BY DEF L!HandlerStep, L!SkipSeen, L!PassUnseen, L!Work, L!Mark, L!Return,
         LP!HandlerStep, LP!SkipSeen, LP!PassUnseen, LP!Work, LP!Mark, LP!Return
    <2>4. \A i \in Replicas :
             /\ L!SubscribeFails(i) => LP!SubscribeFails(i)
             /\ L!Cancel(i) => LP!Cancel(i)
             /\ L!Exit(i) => LP!Exit(i)
             /\ L!Crash(i) => LP!Crash(i)
             /\ L!Restart(i) => LP!Restart(i)
      BY DEF L!SubscribeFails, L!Cancel, L!Exit, L!Crash, L!Restart,
         LP!SubscribeFails, LP!Cancel, LP!Exit, LP!Crash, LP!Restart
    <2> QED
      BY <2>1, <2>2, <2>3, <2>4 DEF L!ConsumerNext, LP!ConsumerNext
  <1>4. L!vars = LP!vars /\ (L!vars)' = (LP!vars)'
    BY DEF L!vars, L!brokerVars, L!handlerVars, L!processVars,
       LP!vars, LP!brokerVars, LP!handlerVars, LP!processVars
  <1>5. [L!Next]_(L!vars) => [LP!Next]_(LP!vars)
    BY <1>2, <1>3, <1>4 DEF L!Next, LP!Next
  <1>6. FlowSpec => LP!Spec
    BY <1>1, <1>5, FlowImplementsLedger, PTL DEF LedgerSpec, L!Spec, LP!Spec
  <1> QED
    BY <1>6, LedgerIsAssumed, LP!LedgerInvariant, PTL

(***************************************************************************)
(* The ledger works on what the gateway published, partition by partition  *)
(* in the order of publication (pkg/kafka/message.go:9-11).                *)
(***************************************************************************)
THEOREM WorkIsPublishedInOrder == FlowSpec => []WorkedAsPublished
  <1>1. ASSUME LogOfTopic, TypeOK, LP!IInv
        PROVE  WorkedAsPublished
    <2> SUFFICES ASSUME NEW e \in effects
                 PROVE  \E j \in DOMAIN topic :
                           /\ topic[j] = EventOf(e)
                           /\ \A i \in 1 .. (j - 1) :
                                 Placement[topic[i].key] = Placement[topic[j].key] =>
                                    \E f \in effects : EventOf(f) = topic[i]
      BY DEF WorkedAsPublished
    <2> DEFINE p == e.msg[1]
               o == e.msg[2]
    <2>1. p \in Partitions /\ o \in 1 .. Len(log[p])
      <3>1. e.msg \in Partitions \X (Nat \ {0})
        BY <1>1 DEF LP!IInv, LP!TypeOK, LP!Offsets
      <3>2. LP!Exists(e.msg)
        BY <1>1 DEF LP!IInv, LP!WorkExists
      <3> QED
        BY <3>1, <3>2 DEF LP!Exists
    <2>2. PICK j \in 1 .. Len(topic) : StandsFor(log, topic, p, o, j)
      BY <1>1, <2>1 DEF LogOfTopic, Holds
    <2>3. topic[j] = EventOf(e) /\ Placement[topic[j].key] = p
      BY <2>2 DEF StandsFor, EventOf
    <2>4. ASSUME NEW i \in 1 .. (j - 1), Placement[topic[i].key] = p
          PROVE  \E f \in effects : EventOf(f) = topic[i]
      <3>1. PICK u \in 1 .. (o - 1) : log[p][u] = topic[i]
        BY <2>2, <2>4 DEF StandsFor
      <3>2. u \in 1 .. o
        <4>1. log \in [Partitions -> Seq(Message)]
          BY <1>1 DEF LogOfTopic, Holds
        <4>2. Len(log[p]) \in Nat
          BY <2>1, <4>1
        <4> QED
          BY <2>1, <4>2
      <3>3. PICK f \in effects : f.msg = <<p, u>>
        BY <1>1, <3>2 DEF LP!IInv, LP!InOrder, LP!WorkedInOrder, LP!Worked, LP!Record
      <3> QED
        BY <3>1, <3>3 DEF EventOf
    <2>5. j \in DOMAIN topic
      BY <1>1 DEF TypeOK
    <2> QED
      BY <2>3, <2>4, <2>5
  <1>2. IInv /\ FlowInv => LogOfTopic /\ TypeOK
    BY DEF IInv, FlowInv
  <1> QED
    BY <1>1, <1>2, FlowInvariant, FlowKeepsLedgerInvariant, PTL

=============================================================================
