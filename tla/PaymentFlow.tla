----------------------------- MODULE PaymentFlow ----------------------------
(***************************************************************************)
(* From POST /api/v1/payments to the ledger: the gateway and the ledger's  *)
(* consumer group composed over the topic payment.created, with clients    *)
(* that are sequential - a client calls again with a reference only when   *)
(* its last call with it was answered or its connection broke.             *)
(*                                                                         *)
(* The gateway's Publish is the ledger's Produce: the broker puts the      *)
(* record at the end of the partition of its key (pkg/kafka/message.go:    *)
(* same key, same partition), where the consumers read it.  `topic' stays  *)
(* the gateway's view, the records in the order they were published in.    *)
(***************************************************************************)
EXTENDS Gateway

CONSTANTS
    Replicas,        \* the ledger processes
    Partitions,      \* the partitions of payment.created
    Placement,       \* Placement[id]: the partition the broker hashes key id to
    MaxLedgerStops   \* bound of the model: MaxStops of Ledger

ASSUME FlowAssumption ==
    /\ IsFiniteSet(Requests)
    /\ Placement \in [PaymentIDs -> Partitions]
    /\ MaxLedgerStops \in Nat
    /\ None \notin Replicas
    /\ None \notin Partitions \X (Nat \ {0})

VARIABLES
    log,             \* log[p]: the records of partition p
    owner, position, committed, moves,
    stage, current, fenced, seen,
    status, life, ledgerStops,
    effects,
    gatewayLife,     \* history: which gateway process this is
    sent             \* history: sent[r]: in which process and when r published

ledgerVars == <<owner, position, committed, moves, stage, current, fenced, seen,
                status, life, ledgerStops, effects>>
flowVars == <<vars, log, ledgerVars, gatewayLife, sent>>

L == INSTANCE Ledger WITH
         Events <- Message,
         MaxRecords <- Cardinality(Requests),
         MaxStops <- MaxLedgerStops,
         MaxMoves <- 0,
         stops <- ledgerStops

FlowInit ==
    /\ Init
    /\ L!Init
    /\ gatewayLife = 0
    /\ sent = [r \in Requests |-> None]

-----------------------------------------------------------------------------
\* No two calls with one reference are in flight at the same time.
SequentialClients ==
    \A r \in Requests : pc[r] = "decode" /\ pc'[r] = "check" =>
        \A q \in InFlight \ {r} : reference[q] # reference'[r]

\* A producer that keeps several records on the way, and sends one again that the
\* broker did not take at once.
Place_Overtaken(m) ==
    LET p == Placement[m.key]
    IN  log' = [log EXCEPT ![p] = IF @ = <<>> THEN <<m>>
                                  ELSE Append(Append(SubSeq(@, 1, Len(@) - 1), m), @[Len(@)])]

\* A topic that keeps the last record of each key only.
Place_Compacted(m) ==
    log' = [log EXCEPT ![Placement[m.key]] = Append(SelectSeq(@, LAMBDA x : x.key # m.key), m)]

Place(m) == log' = [log EXCEPT ![Placement[m.key]] = Append(@, m)]

\* The gateway does A, while the ledger stands still.
GatewayDoes(A) ==
    /\ A
    /\ SequentialClients
    /\ gatewayLife' = IF phase = "down" /\ phase' = "serving" THEN gatewayLife + 1 ELSE gatewayLife
    /\ sent' = [r \in Requests |->
                   IF topic' # topic /\ pc[r] = "publish" /\ pc'[r] # "publish"
                   THEN [life |-> gatewayLife, at |-> now] ELSE sent[r]]
    /\ IF topic' = topic THEN UNCHANGED log ELSE Place(topic'[Len(topic')])
    /\ UNCHANGED ledgerVars

\* The ledger or its broker does A, while the gateway stands still.
LedgerDoes(A) ==
    /\ UNCHANGED <<vars, gatewayLife, sent>>
    /\ A

FlowNext ==
    \/ GatewayDoes(Next)
    \/ LedgerDoes(L!ConsumerNext)

\* The fairness of Ledger; the gateway's is not needed here.
FlowFairness ==
    /\ \A p \in Partitions :
          /\ WF_flowVars(LedgerDoes(\E i \in Replicas : L!Assign(p, i)))
          /\ WF_flowVars(LedgerDoes(\E i \in Replicas : L!Deliver(i, p)))
    /\ \A i \in Replicas :
          /\ WF_flowVars(LedgerDoes(L!HandlerStep(i)))
          /\ WF_flowVars(LedgerDoes(L!Exit(i) \/ L!Restart(i)))

FlowSpec == FlowInit /\ [][FlowNext]_flowVars

FairFlowSpec == FlowSpec /\ FlowFairness

-----------------------------------------------------------------------------
\* The event that e worked on.
EventOf(e) == log[e.msg[1]][e.msg[2]]

\* r was given a payment id.
Promised(r) == answer[r] # None /\ answer[r].status \in {200, 201}

(***************************************************************************)
(* main.go:113-116 of the gateway, for sequential clients: one process     *)
(* publishes two payments for one reference only more than a TTL apart,    *)
(* because the reference is recorded before its call is answered.          *)
(***************************************************************************)
SequentialClientPaysOnce ==
    \A i, j \in DOMAIN topic :
        LET first == sent[topic[i].from]
            second == sent[topic[j].from]
        IN  i < j /\ topic[i].reference = topic[j].reference /\ first.life = second.life
            => second.at > first.at + TTL

(***************************************************************************)
(* message.go:9-11, from end to end.  Whatever the ledger works on was     *)
(* published by a call, and whatever was published before it to the same   *)
(* partition was worked on before: over crashes on both sides the ledger   *)
(* sees the payments of a partition in the order of their publication.     *)
(***************************************************************************)
WorkedAsPublished ==
    \A e \in effects :
        \E j \in DOMAIN topic :
            /\ topic[j] = EventOf(e)
            /\ \A i \in 1 .. (j - 1) : Placement[topic[i].key] = Placement[topic[j].key] =>
                  \E f \in effects : EventOf(f) = topic[i]

(***************************************************************************)
(* gateway main.go:246-248 and 286-294, ledger main.go:112: a client that  *)
(* is given a payment id, in a 201 or in a 200, has a payment that the     *)
(* ledger works on in the end, whatever crashes between the two.           *)
(*                                                                         *)
(* The gateway's main.go:280-284 says that "if the ledger crashes, the     *)
(* payment is created but never debited".  That is so at the time of the   *)
(* 201.  It is not so for ever as long as the offset of the record is      *)
(* committed only after the handler has returned, the record stays in the  *)
(* log, and a crashed ledger is started again: the first is what the       *)
(* handler does, the others are the broker and the fairness of Ledger.     *)
(* Where they fail - a ledger that is up without a subscription, which is  *)
(* not restarted - the sentence holds; AllDeaf leaves that out, and with   *)
(* one replica it is the loss of its only subscription.                    *)
(***************************************************************************)
AnsweredPaymentIsWorked ==
    \A r \in Requests :
        Promised(r) ~> \/ L!AllDeaf
                       \/ \E e \in effects : /\ Promised(r)
                                             /\ EventOf(e).key = answer[r].id
                                             /\ EventOf(e).reference = reference[r]

(***************************************************************************)
(* The composition runs the ledger of Ledger: for its consumers a gateway  *)
(* is a producer that appends, with no event more than there are calls.    *)
(***************************************************************************)
LedgerSpec == L!Spec

(***************************************************************************)
(* gateway main.go:276-277, as it is written: a client that retries after  *)
(* a crash between Publish and record is safe "due to Kafka dedup".  The   *)
(* retry is a new payment id at a new offset, and the ledger works on it.  *)
(***************************************************************************)
LedgerWorksReferenceOnce ==
    \A e, f \in effects : EventOf(e).reference = EventOf(f).reference => e.msg = f.msg

=============================================================================
