------------------------------ MODULE Gateway -------------------------------
(***************************************************************************)
(* The gateway process: concurrent runs of handleCreatePayment over one    *)
(* idempotency store and one Kafka producer, and the life of the process   *)
(* around them - serving, draining on a signal, closing the producer,      *)
(* exiting, crashing, starting again with an empty store.                  *)
(*                                                                         *)
(* A handler is one goroutine of net/http.  It takes the store's mutex     *)
(* twice (check, then record) and the producer's once in between           *)
(* (Publish), and holds none of them from one to the next: the three are   *)
(* separate steps, and other handlers, the clock, the eviction goroutine   *)
(* and the shutdown sequence run between them.                             *)
(*                                                                         *)
(* `topic' is what the broker holds of payment.created.  The producer in   *)
(* the repository only logs; the model appends, which is what Producer's   *)
(* interface says Publish does.                                            *)
(***************************************************************************)
EXTENDS IdempotencyStore, Sequences, FiniteSets

CONSTANTS
    Requests,     \* the calls of POST /api/v1/payments, one handler each
    MaxStops      \* bound of the model: how often the process stops or crashes

ASSUME GatewayAssumption == MaxStops \in Nat

VARIABLES
    phase,        \* of the process: "serving", "draining", "stopping", "down"
    closed,       \* producer.closed
    pc,           \* pc[r]: the next step of the handler of r
    reference,    \* reference[r]: req.Reference once the body is decoded
    paymentID,    \* paymentID[r]: the id drawn for r
    answer,       \* answer[r]: the HTTP response of r
    topic,        \* the records of payment.created, in offset order
    stops,        \* bound of the model
    recordedAt,   \* history: when r's handler recorded its key in this process
    drainExpired  \* history: Shutdown gave up on handlers still running

handlerVars == <<pc, reference, paymentID, answer>>
processVars == <<phase, closed, stops, drainExpired>>
vars == <<storeVars, handlerVars, processVars, topic, recordedAt>>

Steps == {"decode", "check", "publish", "record", "respond"}

Message == [key : PaymentIDs, reference : References, from : Requests]

Answer == [status : {200, 201, 400, 503}, id : PaymentIDs \union {None}]

TypeOK ==
    /\ StoreTypeOK
    /\ phase \in {"serving", "draining", "stopping", "down"}
    /\ closed \in BOOLEAN
    /\ pc \in [Requests -> Steps \union {"idle", "done", "lost"}]
    /\ reference \in [Requests -> References \union {None}]
    /\ paymentID \in [Requests -> PaymentIDs \union {None}]
    /\ answer \in [Requests -> Answer \union {None}]
    /\ topic \in Seq(Message)
    /\ stops \in Nat
    /\ recordedAt \in [Requests -> Nat \union {None}]
    /\ drainExpired \in BOOLEAN

Init ==
    /\ StoreInit
    /\ phase = "serving"
    /\ closed = FALSE
    /\ pc = [r \in Requests |-> "idle"]
    /\ reference = [r \in Requests |-> None]
    /\ paymentID = [r \in Requests |-> None]
    /\ answer = [r \in Requests |-> None]
    /\ topic = <<>>
    /\ stops = 0
    /\ recordedAt = [r \in Requests |-> None]
    /\ drainExpired = FALSE

InFlight == {r \in Requests : pc[r] \in Steps}

Goto(r, step) == pc' = [pc EXCEPT ![r] = step]

\* WriteJSON or WriteError, and the end of the handler.
Reply(r, status, id) ==
    /\ Goto(r, "done")
    /\ answer' = [answer EXCEPT ![r] = [status |-> status, id |-> id]]

-----------------------------------------------------------------------------
\* handleCreatePayment, one action per step.

\* net/http accepts a connection for the call; the listener is open until
\* Shutdown closes it.
Accept(r) ==
    /\ phase = "serving"
    /\ pc[r] = "idle"
    /\ Goto(r, "decode")
    /\ UNCHANGED <<storeVars, processVars, reference, paymentID, answer, topic, recordedAt>>

\* The body does not decode (or did not arrive within ReadTimeout), a required
\* field is empty, or the reference is.
RejectBody(r) ==
    /\ pc[r] = "decode"
    /\ Reply(r, 400, None)
    /\ UNCHANGED <<storeVars, processVars, reference, paymentID, topic, recordedAt>>

DecodeBody(r) ==
    /\ pc[r] = "decode"
    /\ \E k \in References : reference' = [reference EXCEPT ![r] = k]
    /\ Goto(r, "check")
    /\ UNCHANGED <<storeVars, processVars, paymentID, answer, topic, recordedAt>>

\* A duplicate that is held back until its reference expires.
Replay_Waits(r) ==
    /\ pc[r] = "check"
    /\ Exists(reference[r])
    /\ UNCHANGED vars

\* check finds the reference: the payment it stands for is the answer.
Replay(r) ==
    /\ pc[r] = "check"
    /\ Exists(reference[r])
    /\ Reply(r, 200, entries[reference[r]].paymentID)
    /\ UNCHANGED <<storeVars, processVars, reference, paymentID, topic, recordedAt>>

IssueID_Omitted(r) ==
    /\ pc[r] = "check"
    /\ ~ Exists(reference[r])
    /\ Goto(r, "publish")
    /\ UNCHANGED <<storeVars, processVars, reference, paymentID, answer, topic, recordedAt>>

\* check does not find it: the nanosecond clock names a new payment.  Two
\* handlers may read the same nanosecond, and the wall clock may be set back,
\* so the id may be one that was issued before.
IssueID(r) ==
    /\ pc[r] = "check"
    /\ ~ Exists(reference[r])
    /\ \E id \in PaymentIDs : paymentID' = [paymentID EXCEPT ![r] = id]
    /\ Goto(r, "publish")
    /\ UNCHANGED <<storeVars, processVars, reference, answer, topic, recordedAt>>

\* producer.Publish, under the producer's mutex.
Publish(r) ==
    /\ pc[r] = "publish"
    /\ ~ closed
    /\ topic' = Append(topic, [key |-> paymentID[r], reference |-> reference[r], from |-> r])
    /\ Goto(r, "record")
    /\ UNCHANGED <<storeVars, processVars, reference, paymentID, answer, recordedAt>>

PublishRefused_Discarded(r) ==
    /\ pc[r] = "publish"
    /\ closed
    /\ Goto(r, "record")
    /\ UNCHANGED <<storeVars, processVars, reference, paymentID, answer, topic, recordedAt>>

PublishRefused_AfterSend(r) ==
    /\ pc[r] = "publish"
    /\ closed
    /\ topic' = Append(topic, [key |-> paymentID[r], reference |-> reference[r], from |-> r])
    /\ Reply(r, 503, None)
    /\ UNCHANGED <<storeVars, processVars, reference, paymentID, recordedAt>>

\* The producer is closed: 503, and nothing is recorded.
PublishRefused(r) ==
    /\ pc[r] = "publish"
    /\ closed
    /\ Reply(r, 503, None)
    /\ UNCHANGED <<storeVars, processVars, reference, paymentID, topic, recordedAt>>

RecordKey(r) ==
    /\ pc[r] = "record"
    /\ Record(reference[r], paymentID[r])
    /\ recordedAt' = [recordedAt EXCEPT ![r] = now]
    /\ Goto(r, "respond")
    /\ UNCHANGED <<processVars, reference, paymentID, answer, topic>>

RespondCreated(r) ==
    /\ pc[r] = "respond"
    /\ Reply(r, 201, paymentID[r])
    /\ UNCHANGED <<storeVars, processVars, reference, paymentID, topic, recordedAt>>

HandlerStep(r) ==
    \/ RejectBody(r)
    \/ DecodeBody(r)
    \/ Replay(r)
    \/ IssueID(r)
    \/ Publish(r)
    \/ PublishRefused(r)
    \/ RecordKey(r)
    \/ RespondCreated(r)

-----------------------------------------------------------------------------
\* The process: main's shutdown sequence, crashes and restarts.

\* The goroutine of newIdempotencyStore, every ten minutes.
EvictTick ==
    /\ phase # "down"
    /\ Evict
    /\ UNCHANGED <<handlerVars, processVars, topic, recordedAt>>

Clock ==
    /\ Tick
    /\ UNCHANGED <<handlerVars, processVars, topic, recordedAt>>

\* main leaves its select: SIGINT, SIGTERM, or ListenAndServe failed.
StopServing ==
    /\ phase = "serving"
    /\ stops < MaxStops
    /\ phase' = "draining"
    /\ stops' = stops + 1
    /\ UNCHANGED <<storeVars, handlerVars, closed, drainExpired, topic, recordedAt>>

\* srv.Shutdown returns: no handler runs any more, or ten seconds are over.
ShutdownReturns ==
    /\ phase = "draining"
    /\ phase' = "stopping"
    /\ drainExpired' = (InFlight # {})
    /\ UNCHANGED <<storeVars, handlerVars, closed, stops, topic, recordedAt>>

\* The deferred producer.Close().
CloseProducer_BeforeDrain ==
    /\ phase \in {"draining", "stopping"}
    /\ ~ closed
    /\ closed' = TRUE
    /\ UNCHANGED <<storeVars, handlerVars, phase, stops, drainExpired, topic, recordedAt>>

CloseProducer ==
    /\ phase = "stopping"
    /\ ~ closed
    /\ closed' = TRUE
    /\ UNCHANGED <<storeVars, handlerVars, phase, stops, drainExpired, topic, recordedAt>>

\* The process is gone: running handlers answer nobody, the store is lost.
Die ==
    /\ phase' = "down"
    /\ pc' = [r \in Requests |-> IF r \in InFlight THEN "lost" ELSE pc[r]]
    /\ recordedAt' = [r \in Requests |-> None]
    /\ NewStore
    /\ UNCHANGED <<closed, drainExpired, reference, paymentID, answer, topic>>

\* main returns.
Exit ==
    /\ phase = "stopping"
    /\ closed
    /\ Die
    /\ UNCHANGED stops

Crash ==
    /\ phase # "down"
    /\ stops < MaxStops
    /\ Die
    /\ stops' = stops + 1

\* A new process: NewProducer, newIdempotencyStore, ListenAndServe.
Restart ==
    /\ phase = "down"
    /\ phase' = "serving"
    /\ closed' = FALSE
    /\ drainExpired' = FALSE
    /\ UNCHANGED <<storeVars, handlerVars, stops, topic, recordedAt>>

ProcessStep ==
    \/ EvictTick
    \/ StopServing
    \/ ShutdownReturns
    \/ CloseProducer
    \/ Exit
    \/ Crash
    \/ Restart

Next ==
    \/ \E r \in Requests : Accept(r)
    \/ \E r \in Requests : HandlerStep(r)
    \/ ProcessStep
    \/ Clock

(***************************************************************************)
(* Every goroutine that can run is scheduled, and no step of a handler     *)
(* blocks for ever: reading the body ends with ReadTimeout, and nothing is *)
(* done under a mutex but map operations and a log line.  The eviction     *)
(* ticker keeps firing and main runs through its shutdown sequence.  No    *)
(* fairness for clients, signals, crashes, restarts or the clock.          *)
(***************************************************************************)
Fairness ==
    /\ \A r \in Requests : WF_vars(HandlerStep(r))
    /\ WF_vars(EvictTick)
    /\ WF_vars(ShutdownReturns)
    /\ WF_vars(CloseProducer)
    /\ WF_vars(Exit)

Spec == Init /\ [][Next]_vars

FairSpec == Spec /\ Fairness

-----------------------------------------------------------------------------
Published(id, k) == \E i \in DOMAIN topic : topic[i].key = id /\ topic[i].reference = k

(***************************************************************************)
(* main.go:246-248, 276-278.  A payment id that a client is given, in the  *)
(* 201 of its creation or in the 200 of a replay, names a payment.created  *)
(* event that was published for the reference of that very request.  In a  *)
(* 201 it is the request's own event.                                      *)
(***************************************************************************)
AnsweredIDsArePublished ==
    \A r \in Requests : answer[r] # None =>
        /\ answer[r].status \in {200, 201} => Published(answer[r].id, reference[r])
        /\ answer[r].status = 201 => \E i \in DOMAIN topic : topic[i].from = r

(***************************************************************************)
(* main.go:266-274: a client that is told 503 may retry with the same      *)
(* reference because its request published nothing; nor did one that was   *)
(* answered 400 or with a replay.  A request publishes at most once.       *)
(***************************************************************************)
OnlyCreatedPublishes ==
    /\ \A r \in Requests : answer[r] # None /\ answer[r].status # 201 =>
           \A i \in DOMAIN topic : topic[i].from # r
    /\ \A i, j \in DOMAIN topic : topic[i].from = topic[j].from => i = j

(***************************************************************************)
(* main.go:113-116, within one process.  A handler that goes on to publish *)
(* a payment for a reference did not overlook a completed record of that   *)
(* reference: every request that recorded it in this process did so more   *)
(* than a TTL ago.  Two events for one reference within a TTL therefore    *)
(* need two handlers between check and record at once, or a restart.       *)
(***************************************************************************)
LiveReferenceIsNotReissued ==
    [][\A r, q \in Requests :
          /\ pc[r] = "check" /\ pc'[r] = "publish"
          /\ recordedAt[q] # None
          /\ reference[q] = reference[r]
          => now > recordedAt[q] + TTL]_vars

(***************************************************************************)
(* main.go:103-108 and the deferred Close at line 40: the producer is      *)
(* closed under a running handler only when the ten seconds of Shutdown    *)
(* were not enough for it, never in an orderly drain.                      *)
(***************************************************************************)
ProducerOutlivesHandlers == closed => InFlight = {} \/ drainExpired

(***************************************************************************)
(* A request that was accepted is answered, or lost with its process.      *)
(***************************************************************************)
EveryRequestIsAnswered ==
    \A r \in Requests : pc[r] = "decode" ~> pc[r] \in {"done", "lost"}

(***************************************************************************)
(* main.go:134-139: the store does not keep expired references for ever.   *)
(***************************************************************************)
ExpiredEntriesAreReclaimed ==
    \A k \in References :
        (Stored(k) /\ Expired(k)) ~> ~ (Stored(k) /\ Expired(k))

(***************************************************************************)
(* main.go:113-116, as it is written: a retried request gets the response  *)
(* of the first "instead of creating a second payment".  Handlers of the   *)
(* same reference that overlap between check and record break it.          *)
(***************************************************************************)
OnePaymentPerReference ==
    \A i, j \in DOMAIN topic : topic[i].reference = topic[j].reference => i = j

=============================================================================
