------------------------------- MODULE Ledger -------------------------------
(***************************************************************************)
(* The ledger's event consumer: replicas of services/ledger, one Kafka     *)
(* consumer goroutine each, running the handler of main.go:103-133 over an *)
(* in-memory messageDeduplicator.                                          *)
(*                                                                         *)
(* The handler takes the deduplicator's mutex twice, in seen and in mark,  *)
(* and does its work in between with the lock released; a crash, the exit  *)
(* of main (which cancels the consumer but does not wait for it) and the   *)
(* group's rebalances fall between any two of these steps.                 *)
(*                                                                         *)
(* The broker is external: the repository's Subscribe only waits for its   *)
(* context.  It is modelled from what the handler and message.go rely on:  *)
(* partitions are ordered, a partition has one owner in the group, a nil   *)
(* result moves the owner past the message and lets its offset be          *)
(* committed, a new owner starts after the last committed offset.          *)
(***************************************************************************)
EXTENDS Naturals, Sequences, FiniteSets

CONSTANTS
    Replicas,     \* the ledger processes of the consumer group
    Partitions,   \* the partitions of the three topics, as (topic, partition)
    Events,       \* what a record can carry
    None,         \* nobody, nothing
    MaxRecords,   \* bound of the model: the records of all partitions together
    MaxStops,     \* bound of the model: exits, crashes and lost subscriptions
    MaxMoves      \* bound of the model: rebalances away from a live owner

ASSUME LedgerAssumption ==
    /\ MaxRecords \in Nat
    /\ MaxStops \in Nat
    /\ MaxMoves \in Nat
    /\ None \notin Replicas
    /\ None \notin Partitions \X (Nat \ {0})

VARIABLES
    log,          \* log[p]: the records of partition p
    owner,        \* owner[p]: the replica p is assigned to
    position,     \* position[p]: how many records p's owner is past
    committed,    \* committed[p]: the group's committed offset of p
    status,       \* status[i]: "running", "deaf" (up, but Subscribe has returned),
                  \* "cancelled", "down"
    stage,        \* stage[i]: the next step of i's handler, "idle" without one
    current,      \* current[i]: the record the handler of i works on
    fenced,       \* fenced[i]: current[i]'s partition was taken from i meanwhile
    seen,         \* seen[i]: messageDeduplicator.seen_ of replica i
    life,         \* life[i]: which process of replica i this is
    stops,        \* bound of the model
    moves,        \* bound of the model
    effects       \* history: which process did the work of which record

brokerVars == <<owner, position, committed, moves>>
handlerVars == <<stage, current, fenced, seen>>
processVars == <<status, life, stops>>
vars == <<log, brokerVars, handlerVars, processVars, effects>>

Offsets == Nat \ {0}

\* A record is known by where it is.
Record(p, o) == <<p, o>>

Exists(m) == m[2] \in 1 .. Len(log[m[1]])

\* A handler runs for a record that exists, in a process that is up and subscribed.
HandlerOK(i) ==
    /\ stage[i] = "idle" <=> current[i] = None
    /\ current[i] # None => Exists(current[i])
    /\ status[i] \in {"deaf", "down"} => stage[i] = "idle"

TypeOK ==
    /\ log \in [Partitions -> Seq(Events)]
    /\ owner \in [Partitions -> Replicas \union {None}]
    /\ position \in [Partitions -> Nat]
    /\ committed \in [Partitions -> Nat]
    /\ moves \in Nat
    /\ stage \in [Replicas -> {"idle", "seen", "work", "mark", "return"}]
    /\ current \in [Replicas -> (Partitions \X Offsets) \union {None}]
    /\ fenced \in [Replicas -> BOOLEAN]
    /\ seen \in [Replicas -> SUBSET (Partitions \X Offsets)]
    /\ status \in [Replicas -> {"running", "deaf", "cancelled", "down"}]
    /\ life \in [Replicas -> Nat]
    /\ stops \in Nat
    /\ effects \subseteq [msg : Partitions \X Offsets, by : Replicas, life : Nat]
    /\ \A i \in Replicas : HandlerOK(i)

Init ==
    /\ log = [p \in Partitions |-> <<>>]
    /\ owner = [p \in Partitions |-> None]
    /\ position = [p \in Partitions |-> 0]
    /\ committed = [p \in Partitions |-> 0]
    /\ status = [i \in Replicas |-> "running"]
    /\ stage = [i \in Replicas |-> "idle"]
    /\ current = [i \in Replicas |-> None]
    /\ fenced = [i \in Replicas |-> FALSE]
    /\ seen = [i \in Replicas |-> {}]
    /\ life = [i \in Replicas |-> 0]
    /\ stops = 0
    /\ moves = 0
    /\ effects = {}

-----------------------------------------------------------------------------
\* The broker and the consumer group.

Produce(p) ==
    /\ Cardinality({m \in Partitions \X (1 .. MaxRecords) : Exists(m)}) < MaxRecords
    /\ \E e \in Events : log' = [log EXCEPT ![p] = Append(@, e)]
    /\ UNCHANGED <<brokerVars, handlerVars, processVars, effects>>

Assign_AtLatest(p, i) ==
    /\ owner[p] = None
    /\ status[i] = "running"
    /\ owner' = [owner EXCEPT ![p] = i]
    /\ position' = [position EXCEPT ![p] = Len(log[p])]
    /\ UNCHANGED <<log, committed, moves, handlerVars, processVars, effects>>

\* An unowned partition goes to a running replica.
Assign(p, i) ==
    /\ owner[p] = None
    /\ status[i] = "running"
    /\ owner' = [owner EXCEPT ![p] = i]
    /\ position' = [position EXCEPT ![p] = committed[p]]
    /\ UNCHANGED <<log, committed, moves, handlerVars, processVars, effects>>

\* A rebalance takes a partition from one running replica and gives it to
\* another, or takes it away and gives it back.  The old owner's handler is not
\* interrupted; what it returns no longer counts.
Move(p, i) ==
    /\ owner[p] # None
    /\ status[i] = "running"
    /\ moves < MaxMoves
    /\ moves' = moves + 1
    /\ owner' = [owner EXCEPT ![p] = i]
    /\ position' = [position EXCEPT ![p] = committed[p]]
    /\ fenced' = [j \in Replicas |->
                     IF current[j] # None /\ current[j][1] = p THEN TRUE ELSE fenced[j]]
    /\ UNCHANGED <<log, committed, stage, current, seen, processVars, effects>>

Commit(p) ==
    /\ owner[p] # None
    /\ committed[p] < position[p]
    /\ committed' = [committed EXCEPT ![p] = position[p]]
    /\ UNCHANGED <<log, owner, position, moves, handlerVars, processVars, effects>>

\* Subscribe calls the handler with the owner's next record, one at a time,
\* until its context is cancelled.
Deliver(i, p) ==
    /\ status[i] = "running"
    /\ stage[i] = "idle"
    /\ owner[p] = i
    /\ position[p] < Len(log[p])
    /\ current' = [current EXCEPT ![i] = Record(p, position[p] + 1)]
    /\ stage' = [stage EXCEPT ![i] = "seen"]
    /\ fenced' = [fenced EXCEPT ![i] = FALSE]
    /\ UNCHANGED <<log, brokerVars, seen, processVars, effects>>

-----------------------------------------------------------------------------
\* The handler.

\* topic:partition:offset, of the record the handler was called with.
MsgID_NoPartition(m) == m[2]

MsgID(m) == m

Goto(i, step) == stage' = [stage EXCEPT ![i] = step]

\* dedup.seen says yes: the handler returns nil without doing the work.
SkipSeen_WithError(i) ==
    /\ stage[i] = "seen"
    /\ MsgID(current[i]) \in seen[i]
    /\ Goto(i, "idle")
    /\ current' = [current EXCEPT ![i] = None]
    /\ UNCHANGED <<log, brokerVars, fenced, seen, processVars, effects>>

SkipSeen(i) ==
    /\ stage[i] = "seen"
    /\ MsgID(current[i]) \in seen[i]
    /\ Goto(i, "return")
    /\ UNCHANGED <<log, brokerVars, current, fenced, seen, processVars, effects>>

PassUnseen(i) ==
    /\ stage[i] = "seen"
    /\ MsgID(current[i]) \notin seen[i]
    /\ Goto(i, "work")
    /\ UNCHANGED <<log, brokerVars, current, fenced, seen, processVars, effects>>

\* "processing event": where the journal entry of the record is to be written.
Work(i) ==
    /\ stage[i] = "work"
    /\ effects' = effects \union {[msg |-> current[i], by |-> i, life |-> life[i]]}
    /\ Goto(i, "mark")
    /\ UNCHANGED <<log, brokerVars, current, fenced, seen, processVars>>

Mark_Omitted(i) ==
    /\ stage[i] = "mark"
    /\ Goto(i, "return")
    /\ UNCHANGED <<log, brokerVars, current, fenced, seen, processVars, effects>>

Mark(i) ==
    /\ stage[i] = "mark"
    /\ seen' = [seen EXCEPT ![i] = @ \union {MsgID(current[i])}]
    /\ Goto(i, "return")
    /\ UNCHANGED <<log, brokerVars, current, fenced, processVars, effects>>

\* The handler returns nil: its owner is past the record, unless it lost the
\* partition while the handler ran.
Return(i) ==
    /\ stage[i] = "return"
    /\ position' = IF fenced[i] THEN position
                   ELSE [position EXCEPT ![current[i][1]] = current[i][2]]
    /\ Goto(i, "idle")
    /\ current' = [current EXCEPT ![i] = None]
    /\ UNCHANGED <<log, owner, committed, moves, fenced, seen, processVars, effects>>

HandlerStep(i) ==
    \/ SkipSeen(i)
    \/ PassUnseen(i)
    \/ Work(i)
    \/ Mark(i)
    \/ Return(i)

-----------------------------------------------------------------------------
\* The process.

Disowned(i) == [p \in Partitions |-> IF owner[p] = i THEN None ELSE owner[p]]

\* Subscribe gives up with an error: it is logged and the goroutine ends.  The
\* replica leaves the group; its server goes on, and nothing subscribes again.
SubscribeFails(i) ==
    /\ status[i] = "running"
    /\ stage[i] = "idle"
    /\ stops < MaxStops
    /\ status' = [status EXCEPT ![i] = "deaf"]
    /\ stops' = stops + 1
    /\ owner' = Disowned(i)
    /\ UNCHANGED <<log, position, committed, moves, handlerVars, life, effects>>

\* consumerCancel(): no new record is delivered; a handler that runs goes on.
Cancel(i) ==
    /\ status[i] \in {"running", "deaf"}
    /\ stops < MaxStops
    /\ status' = [status EXCEPT ![i] = "cancelled"]
    /\ stops' = stops + 1
    /\ UNCHANGED <<log, brokerVars, handlerVars, life, effects>>

\* The process of i is gone, and its handler and its deduplicator with it.
Die_KeepsHandler(i) ==
    /\ status' = [status EXCEPT ![i] = "down"]
    /\ owner' = Disowned(i)
    /\ seen' = [seen EXCEPT ![i] = {}]
    /\ UNCHANGED <<log, position, committed, moves, stage, current, fenced, life, effects>>

Die(i) ==
    /\ status' = [status EXCEPT ![i] = "down"]
    /\ owner' = Disowned(i)
    /\ stage' = [stage EXCEPT ![i] = "idle"]
    /\ current' = [current EXCEPT ![i] = None]
    /\ seen' = [seen EXCEPT ![i] = {}]
    /\ UNCHANGED <<log, position, committed, moves, fenced, life, effects>>

\* main returns after srv.Shutdown; it does not wait for the consumer goroutine.
Exit(i) ==
    /\ status[i] = "cancelled"
    /\ Die(i)
    /\ UNCHANGED stops

Crash(i) ==
    /\ status[i] # "down"
    /\ stops < MaxStops
    /\ Die(i)
    /\ stops' = stops + 1

\* A new process: newMessageDeduplicator, Subscribe.
Restart(i) ==
    /\ status[i] = "down"
    /\ status' = [status EXCEPT ![i] = "running"]
    /\ life' = [life EXCEPT ![i] = @ + 1]
    /\ UNCHANGED <<log, brokerVars, handlerVars, stops, effects>>

ConsumerNext ==
    \/ \E p \in Partitions, i \in Replicas : Assign(p, i) \/ Move(p, i) \/ Deliver(i, p)
    \/ \E p \in Partitions : Commit(p)
    \/ \E i \in Replicas : HandlerStep(i)
    \/ \E i \in Replicas : SubscribeFails(i) \/ Cancel(i) \/ Exit(i) \/ Crash(i) \/ Restart(i)

Next ==
    \/ \E p \in Partitions : Produce(p)
    \/ ConsumerNext

(***************************************************************************)
(* The group assigns an unowned partition, the owner's Subscribe delivers  *)
(* and commits, a handler that was called runs on, main exits after it was *)
(* told to, and a stopped replica is started again (the comments of the    *)
(* code speak of pod restarts).  A deaf replica is not stopped: its health *)
(* check still says ok.  No fairness for producers, rebalances, signals,   *)
(* crashes and errors of Subscribe.                                        *)
(***************************************************************************)
Fairness ==
    /\ \A p \in Partitions : WF_vars(\E i \in Replicas : Assign(p, i))
    /\ \A p \in Partitions : WF_vars(\E i \in Replicas : Deliver(i, p))
    /\ \A p \in Partitions : WF_vars(Commit(p))
    /\ \A i \in Replicas : WF_vars(HandlerStep(i))
    /\ \A i \in Replicas : WF_vars(Exit(i) \/ Restart(i))

Spec == Init /\ [][Next]_vars

FairSpec == Spec /\ Fairness

-----------------------------------------------------------------------------
Worked(m) == \E e \in effects : e.msg = m

(***************************************************************************)
(* main.go:106-112, 131: at least once.  Offsets are committed only over   *)
(* records whose work was done by some process, however crashes, exits and *)
(* rebalances fall, so no payment event is skipped.                        *)
(***************************************************************************)
CommittedWasWorked ==
    \A p \in Partitions : \A o \in 1 .. committed[p] : Worked(Record(p, o))

(***************************************************************************)
(* message.go:9-11: records with one key are in one partition of their     *)
(* topic, and a partition is worked on in its order: no record is worked   *)
(* on before every earlier one of its partition was.  Partitions are not   *)
(* ordered among each other, and main.go:99-103 subscribes to three        *)
(* topics: payment.failed may be worked on before the payment.created of   *)
(* the same payment.                                                       *)
(***************************************************************************)
WorkedInOrder ==
    \A e \in effects : \A o \in 1 .. e.msg[2] : Worked(Record(e.msg[1], o))

(***************************************************************************)
(* main.go:57-59 as far as it goes: one process never does the work of one *)
(* record twice, though a rebalance may deliver it to it again.            *)
(***************************************************************************)
OncePerProcess ==
    [][\A i \in Replicas :
          stage[i] = "work" /\ stage'[i] = "mark" =>
              [msg |-> current[i], by |-> i, life |-> life[i]] \notin effects]_vars

AllDeaf == \A i \in Replicas : status[i] = "deaf"

(***************************************************************************)
(* main.go:112: a duplicate is consumed as well, so the group gets past    *)
(* every record in the end, also when Subscribe gives up in a replica      *)
(* (main.go:134) - as long as some replica is left whose Subscribe has     *)
(* not.                                                                    *)
(***************************************************************************)
EveryRecordIsCommitted ==
    \A p \in Partitions : \A o \in 1 .. MaxRecords :
        Len(log[p]) >= o ~> committed[p] >= o \/ AllDeaf

(***************************************************************************)
(* main.go:57-59 and 166-168, as they are written: a rebalance, pod        *)
(* restart or scale event does not process a record twice.  The            *)
(* deduplicator is the process's own, so it does.                          *)
(***************************************************************************)
EachRecordIsWorkedOnce ==
    \A e, f \in effects : e.msg = f.msg => e = f

=============================================================================
