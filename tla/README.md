# StableFlow in TLA+

Specifications of the StableFlow services, checked with TLC on small instances.
Every safety property and both refinements that a run checks are also proved with
TLAPS, for every value of the constants. Line numbers below refer to the
files under `src/`; `PROJECT.json` maps each definition to its lines.

## 1. The system

Six Go services over four shared packages. They meet in Kafka topics and in
nothing else: no service calls another yet, and no database is connected.

| Part | State it keeps | Operations | Module |
|---|---|---|---|
| gateway: idempotency store (`services/gateway/main.go` 111-173) | map reference -> (payment id, expiry) under a mutex, in memory | check, record, evict every 10 minutes | `IdempotencyStore`, `PaymentLease` |
| gateway: payment creation and the process (23-109, 198-296) | one goroutine per call; producer open or closed; serving, draining, stopping | `handleCreatePayment`, shutdown sequence, crash, restart | `Gateway` |
| ledger: event consumer (`services/ledger/main.go` 94-190) | set of message ids under a mutex, in memory; consumer context | handler of `Subscribe`, an error of `Subscribe`, cancel, exit, crash, restart | `Ledger` |
| Kafka broker and consumer group (external) | partitions, owners, positions, committed offsets | produce, assign, move, deliver, commit | in `Ledger` |
| both, composed over `payment.created` | | | `PaymentFlow` |
| signer (`services/signer/main.go`) | configuration of the process; producer open or closed | startup guard, `handleSign`, shutdown | `Signer` |
| ledger journal API (194-309), router, `pkg/finality` | none | `handleCreateEntry`, `handleRoute`, `handleListChains` | `Handlers` over `JournalEntry` and `Finality` |
| `pkg/rpc` middleware, `pkg/auth` | context, response header and status of one request | the layers of each service's stack | `HTTPStack` |
| listener, reconciler (`main.go` of both) | ticker loops, a context that main cancels | tick, poll, pass, cancel, sleep, exit | `ServiceLife` |
| start and end of all six processes | configuration; the goroutine of `ListenAndServe` | refusals, listen, fail to listen, signal, Shutdown, exit, crash | `ServiceLife` |
| the six `config` packages | none: the environment is read once | `envStr`, `envInt`, `envList`, `envDuration`, `Load` | `Config` |
| read stubs, infrastructure | | | not modelled (section 7) |

How they interact. A client posts a payment to the gateway; the handler checks
its reference in the store, draws an id, publishes `payment.created`, records
the reference, answers 201. The ledger's consumer group is given the record,
skips it if its `topic:partition:offset` is in the deduplicator, works on it,
marks it and returns nil, on which the offset may be committed. The signer
publishes `payment.signed` the way the gateway publishes. Handlers share the
store and the producer with each other, with the eviction goroutine and with
`main`, whose shutdown runs while handlers may still be running.

What is hard here, and what makes each part correct:

* **Store.** `check` and `record` are separate critical sections, time passes
  between any two steps, and eviction runs on its own. It is correct if a
  recorded reference is found for exactly its TTL, eviction or not.
* **Gateway.** Handlers interleave between check, Publish and record; the
  process stops or dies between any two of them. It is correct if an id that a
  client is given stands for a published event, a refused call published
  nothing, and a live reference is honoured.
* **Ledger.** Rebalances, crashes and an exit that does not wait for the
  consumer fall between seen, work, mark and return; an error of Subscribe is
  only logged and leaves a process that is healthy and deaf. It is correct if no
  committed record was skipped, a partition is worked in order, one process
  does not work twice on a record, and no record is stuck.
* **Signer.** No signature without its event, although Close may overtake a
  handler; the stub provider only in development.
* **HTTP stack.** The order of the layers decides what is logged, which id a
  response carries, who is let in, and what a panic ends in.
* **Journal, router, finality.** A hand-written parser and a hand-written table
  at their boundaries.
* **Processes and configuration.** Texts that the parsers of `config` take for
  something else than their author meant, six copied configurations that must
  fit together on one host, a server that fails in its goroutine, `main` sleeping
  instead of waiting for its loops, and a `select` that may prefer a tick to the
  cancel. A process is correct if it ends for a reason, ends when it has one, and
  leaves no loop, server or silent client behind.

`PROJECT.json` lists every such hazard at its line with the properties on it.

## 2. Modules

```
PaymentLease <-refines- IdempotencyStore <-extends- Gateway <-extends- PaymentFlow
                                                    Ledger <-instance/refines-'
Signer        Finality, JournalEntry <-extends- Handlers        HTTPStack
Config <-extends- ServiceLife
IdempotencyStoreProofs <-extends- GatewayProofs <-extends- PaymentFlowProofs
                                  LedgerProofs <-instance-'
SignerProofs   HandlersProofs   HTTPStackProofs   ServiceLifeProofs
MC*: instances for TLC
```

**`IdempotencyStore`** has the map `entries` and the clock `now` (the monotonic
reading that `time.Now()` carries). Every method holds the mutex throughout, so
`Record`, `Evict` and the reading `Exists` are atomic. **`PaymentLease`** is the
promise: a binding and the number of clock readings it has left, no expiry date
and no eviction. The refinement mapping (`holderBar`, `leaseBar`) shows an
expired entry as absent, so `Evict` is a stuttering step.

**`Gateway`** gives each call a program counter: `Accept`, `RejectBody` /
`DecodeBody`, `Replay` / `IssueID` (one critical section of the store and the
branch on its result), `Publish` / `PublishRefused` (one of the producer),
`RecordKey`, `RespondCreated`. The id is any id: two handlers may read the same
nanosecond and the wall clock may be set back. `main` is `StopServing`,
`ShutdownReturns` (all handlers done, or ten seconds over), `CloseProducer` (the
deferred Close), `Exit`; `Crash` comes at any time; both lose the store.
`Restart` makes a new one. `topic` survives. `recordedAt` and `drainExpired` are
history variables that no guard reads.

**`Ledger`** has, per partition, its records, its owner, the owner's position
and the committed offset, and, per replica, the handler's stage, its record and
the deduplicator's set. `Deliver` calls the handler, `SkipSeen` / `PassUnseen`
is `dedup.seen`, `Work` the place where the journal entry is to be written,
`Mark` is `dedup.mark`, `Return` the nil result. `Move` is a rebalance: the old
owner's handler goes on, and what it returns no longer moves the position
(`fenced`). `SubscribeFails` is the error of lines 133-135: the replica leaves
the group and stays up, "deaf". `Cancel` stops deliveries; `Exit` does not wait
for the handler.
`effects` records which process worked on what.

**`PaymentFlow`** extends `Gateway` and instantiates `Ledger`. `topic` stays what
the gateway published, in that order; `log` is what the consumers read: with
every `Publish` the broker puts the record at the end of the partition of its key
(`Place`; the key orders, `pkg/kafka/message.go` 9-11). The gateway's `Publish` is
the ledger's `Produce`, and `LedgerSpec` states that the composition refines
`Ledger!Spec`. Only `payment.created` is composed: nothing in the repository
publishes the ledger's other two topics yet. Its clients are sequential: no second call
with a reference while one is in flight. That excludes `gateway_overlap`'s
counterexample on purpose, to ask what holds without it.

**`Signer`** chooses `KMS_PROVIDER` and `APP_ENV` anew for every process, runs
the guard, and then `handleSign` step by step like the gateway. A transaction
hash is a function of the transaction.

**`Handlers`** makes each stateless call one step and keeps what was asked and
answered; a body that `DecodeJSON` refuses is a request too. A route answers the
chain that the rule names, the catalog the key that the rule is kept under. `JournalEntry` has `validateAmount` as the code does it (trim, split at
the first point, digits, `ParseFloat`) and a reference grammar written the other
way round (`PositiveDecimal`); `Finality` has the registry.

**`HTTPStack`** takes a request to one of the four services, through recovery,
logging, request id and authentication (those that its stack has), to a handler
that writes its status once and may panic before or after, and back. No handler
in the repository panics on purpose; the recovery layer is there for those that
do.

**`Config`** is what `Load` makes of the environment. A text is nothing, a
number, a duration or words between commas, since that is what `Atoi`, `Split`
and `ParseDuration` tell apart: `5` is no duration, `0` is one, `,` is a list of
two empty brokers.

**`ServiceLife`** is one process of any of the six services, from its
environment to its end. `Refuse` is `os.Exit(1)` (no broker, no group, the
signer's guard), `Boot` starts the goroutines. Four services have a server:
`Listen` or `ListenFails`, depending on the port, the host and the neighbours,
`ServerError` (main's `errCh`), `Stall` and `ReadTimesOut` for a client that goes
silent. Two have loops: `NewTicker` or `TickerPanics`, then the `select` with
`Done`, `Poll` (listener) or `BeginPass` / `EndPass` (reconciler). A ticker's
channel holds one tick (`slot`); `Second` moves the tickers and main's sleep.
`Signal` is main's `<-quit` with the cancel or Shutdown after it, `Return` its
end; the history variable `signalled` tells it from `ServerError`. Time is kept in countdowns, so that the model needs no bound on it. What
handlers and the ledger's consumer do meanwhile is in the other modules.

## 3. Runs

| Run | Question | Bounds | Result |
|---|---|---|---|
| `gateway` | safety of the gateway, store refines lease | 3 calls, 2 references, 2 ids, TTL 1, clock to 2, 1 stop or crash; symmetry | holds |
| `gateway_live` | is every call answered, every expired entry evicted | 2 calls, 2 references, clock to 3, 1 stop or crash | holds |
| `gateway_overlap` | does a reference have one payment | 2 calls, no crash, no expiry | violated |
| `ledger` | at least once, in order, once per process, no stuck record | 2 replicas, 2 partitions, 2 records, 1 stop, crash or lost subscription, 1 rebalance | holds |
| `ledger_twice` | is a record worked on once | 2 replicas, 1 record, 1 crash | violated |
| `flow` | sequential retries, order and promises from end to end, refinement | 2 calls of one reference, clock past the TTL, 1 stop of each service | holds |
| `flow_retry` | is a crash between Publish and record safe | 2 calls, 1 crash, no expiry | violated |
| `signer` | signatures have events, guard over several processes | 2 calls, 2 processes, 2 providers x 3 environments; symmetry | holds |
| `signer_guard` | does the stub sign only in development | 1 call, 1 process | violated |
| `handlers` | amounts against a grammar, routes against the catalog and registry | all amounts up to 5 characters of 5 kinds, all 8 chains and an unknown one | holds |
| `http` | log, ids, admission and panics through each stack | 1 call, all credentials, clock past expiry | holds |
| `service_life` | what ends a process, and does it end; which settings keep it from serving | all 6 services, environments with one variable set (signer: two), with and without the containers of `docker-compose.yml`, any set of neighbours | holds |

The violations are disagreements between a comment and the code; each quotes its
comment under "findings" in `PROJECT.json`.

Why the bounds are enough to be of use. An overlap needs two calls and a
bystander that recorded the reference before them a third: three calls. TTL 1
and a clock to 2 (3 where eviction must be waited for) put a reading before, at
and after the expiry of an entry. Two ids let calls share one or not. One stop or
crash separates two lives of a process, and each property speaks of at most two.
Two partitions with equal offsets are what `topic:partition:offset` must tell
apart; two replicas and one rebalance are a redelivery to the same process, to
another, and to a fenced handler. An amount needs a space on both sides, or a
point and two digits behind it, or two points: five characters. Requests of
`HTTPStack` share only the clock, so one is enough. In `service_life` each
variable takes a text of every kind its parser tells apart, and both sides of
each boundary (a port of -1, 0, 65536; a duration of -1, 0, 1 seconds); each
reaches one field, so one variable at a time is enough, but for the signer,
whose guard reads two. Intervals of 1 and 2 seconds put a tick before and at
the end of the sleep. In `ledger` one lost subscription leaves another replica,
so that the exception of `EveryRecordIsCommitted` (all replicas deaf) is never
met there; in `flow` there is one replica, since two do not finish in five
minutes, and losing its subscription is the exception. The proofs of section 5 do
away with these bounds for the properties they cover.

Symmetry is used only in runs without liveness properties, over values that are
only compared with each other. Deadlock is checked in `gateway`, `gateway_live`
and `handlers`; the other passing runs stop when their calls are
answered and their bounds (stops, moves, processes, clock) are used up, or when
their process is down, and say `CHECK_DEADLOCK FALSE`; so does `ledger_twice`,
which also stops once its record is committed and its crash is used up.

In the model `Underflow` is 2 instead of 325: only the place from which on a
digit is read as zero is scaled.

Bounds that stand in guards: `MaxTime`, `MaxStops`, `MaxRecords`, `MaxMoves`,
`MaxLedgerStops`, `MaxStarts`, and one call of the entries endpoint in `Handlers`.

## 4. Fairness

Safety is checked under `Spec` (`FairSpec` where the same run has a liveness
property). Liveness assumes weak fairness only, of:

* each handler's next step: goroutines are scheduled, reading the body ends with
  ReadTimeout, and nothing is done under a mutex but a map operation or a log
  line;
* `EvictTick`: the ticker keeps firing while the process is up;
* `ShutdownReturns`, `CloseProducer`, `Exit`: `main` runs its sequence, and
  Shutdown has a deadline of ten seconds;
* in `Ledger`, assignment, delivery and commit, which is what a consumer group
  with a live member does, and the restart of a stopped replica, which the
  code's comments count on ("pod restart"). The gateway's restart is not
  assumed, nor is that of a deaf replica: its health check still says ok;
* in `ServiceLife`, main when it can go on, `ListenAndServe`, a read deadline
  that is set, and each loop. Weak fairness of a loop suffices although `select`
  chooses at random: once the waiting tick is taken only `Second` brings another.
  `StalledReadsEnd` is what the gateway's fairness of `DecodeBody` rests on, as
  long as `READ_TIMEOUT` is not set to zero or less.

There is none for clients, signals, crashes, rebalances, errors of Subscribe or
the clock. In `flow`
the gateway has no fairness at all: its promise, once given, is kept by the
ledger.

## 5. Proofs

TLAPS proves the following for every value of the constants that satisfies the
named assumptions of the modules. All 23 invariants, the three action properties
and the two refinements that the passing runs check are among them.

| Module | Theorems (property) |
|---|---|
| `IdempotencyStoreProofs` | `StoreTypeCorrect`, `StoreImplementsLease` (`LeaseSpec`) |
| `GatewayProofs` | `GatewayTypeCorrect`, `AnswersAreBacked` (`AnsweredIDsArePublished`), `OnlyCreatedCallsPublish` (`OnlyCreatedPublishes`), `ProducerOutlivesItsHandlers` (`ProducerOutlivesHandlers`), `LiveReferencesAreNotReissued` (`LiveReferenceIsNotReissued`), `GatewayImplementsLease` (`LeaseSpec`) |
| `LedgerProofs` | `LedgerTypeCorrect`, `NothingIsSkipped` (`CommittedWasWorked`), `PartitionsAreWorkedInOrder` (`WorkedInOrder`), `AtMostOncePerProcess` (`OncePerProcess`) |
| `PaymentFlowProofs` | `SequentialClientsPayOnce` (`SequentialClientPaysOnce`), `FlowImplementsLedger` (`LedgerSpec`), `WorkIsPublishedInOrder` (`WorkedAsPublished`) |
| `SignerProofs` | `SignerTypeCorrect`, `SignaturesArePublished` (`SignedMeansPublished`), `LocalProviderIsGuarded` (`LocalProviderStaysInDevelopment`) |
| `HandlersProofs` | `HandlersTypeCorrect`, `JournalIsExact` (`JournalTakesItsEntries`), `RoutesAreListed` (`RoutesFollowTheCatalog`), `RoutesAreFinalOnTime` (`RouteIsFinalOnTime`) |
| `HTTPStackProofs` | `StackTypeCorrect`, `TheLogIsTrue` (`LoggedStatusIsSent`), `AnswersAreIdentified` (`EveryAnswerNamesItsRequest`), `HandlersAreGuarded` (`OnlyTheAdmittedAreHandled`) |
| `ServiceLifeProofs` | `ServiceTypeCorrect`, `EndingsAreExplained` (`EndingsHaveTheirCause`), `DefaultPortsFit` (`ServicesDoNotCollide`), `OnlyLongPassesAreCutOff` (`CutOffPassesWereLong`) |

**Assumptions.** `StoreAssumption`, `GatewayAssumption`, `LedgerAssumption` and
their like in `Signer` and `HTTPStack`: numbers are naturals, and `None` is none
of the values it stands beside (`CallAssumption`: no call is `None`).
`FlowAssumption`: finitely many calls, and a partition for every key. `ServicesAssumption`, `HostsAssumption`: the six
services, and hosts whose ports are ports. `EnvironmentAssumption`: the variables
that a service reads hold texts of the kinds of `IsText`; in particular a list is
never empty, since `strings.Split` returns at least one piece. `JournalAssumption`,
`HandlersAssumption`: `Underflow` is a positive number, and an amount is a sequence
of characters, of any length.

**Gateway.** The inductive invariant adds to the properties what they need to
survive a step: `Progress` (which local variables are set at which step),
`PublishedSoFar` (a call before Publish has no event, one after it has its own),
`StoreIsBacked` (an entry stands for a published event - this is why a replay
may be answered), `RecordIsKept` (a recorded reference stays stored with an
expiry no earlier than its own TTL, until that is over - this is why eviction and
a later record of the same reference do no harm), `ProducerIsOpen`. Topics only
grow (`PublishAppends`, `OnlyPublishAppends`), so what was published stays so.

**Ledger.** `DoneIsWorked` (every marked id, every record behind a
position and every record of a handler past `Work` was worked on), `WorkExists`
(what was worked on is a record of its partition), `InOrder` (a handler's record
has only worked records before it) and `Deduplicated` (what a living process
worked on is in its set, or its handler stands between `Work` and `Mark`), which
is where `seen` and `mark` being two critical sections matters. A replica that
goes deaf keeps its set and has no handler, so `SubscribeFails` preserves them.

**Flow.** By its definition a step of the composition is a step of the gateway or
leaves it alone, so the gateway's invariant comes for free (the lemma
`FlowImplementsGateway`). `FlowInv`
adds `LogOfTopic` (each partition holds the topic's records of its keys, in the
topic's order, and no call twice), `Apart` (sequential clients: two handlers that
have the same reference in hand do not exist), `Recorded` (what a call published
in this process was recorded at least as late as it was published, or its handler
stands between Publish and record) and `Waited` (a handler that goes on to
Publish has found no younger publication of its reference by this process: by
`RecordIsKept` the store would have known it). `SequentialClientPaysOnce` follows
at the next Publish. Since each call is in the log once, the log has room
for one more record whenever a call publishes (`Cardinality(Requests)` is
`MaxRecords`), and Publish is a `Produce`: that is `FlowImplementsLedger`, through
which the ledger's invariant holds of the composition too, and with
`LogOfTopic` gives `WorkedAsPublished`.

**Signer.** `Progress` and `PublishedSoFar` as in the gateway, and `Guarded`: a
process that is up has passed the guard with the configuration it signs under,
and no handler outlives its process.

**HTTP stack.** A request writes in its own place of every variable
(`OthersStay`), so each part of the invariant is about one request: `Identified`
(header, context and answer carry one id), `Recorded` (what the handler or auth
wrote is what the statusWriter has when logging reads it) and `Screened` (past
auth there are credentials, or a 401 on its way out).

**Handlers.** `Answered` says that each answer is the one its request has. The work
is in `ValidAmounts`: trim, cut, digits in both parts and a number that is not
zero, against a decimal found anywhere in the text. `TrimmedOf` and `PointOf`
describe the searches by the first and the last place they find, `PartsOfDecimal`
that the parts of a cut are digits just if the whole is a decimal, `OneDecimal`
that space around it makes the decimal unique, and `TinyAmounts` moves the places
of the trimmed text to those of the full one.

**Service life.** `Roles` (loops or a server, never both), `Stopped` (main has left
its wait on a signal, or for a server that cannot listen: this is why `Return` has
a cause, though its guard is only the sleep), `Ticking` (a loop in its
select has a positive interval: the others panicked) and `SleptFor` (what a pass
has run since the cancel and what is left of main's sleep make up two seconds),
from lemmas on what `Config` makes of any text.

What the proofs changed. `WorkedAsPublished` needs that whatever a ledger process
worked on is a record of its partition; the ledger's invariant now says so
(`WorkExists`). To append a filtered topic took an induction over data, which is out of reach;
`log` is a variable now, filled by the broker's `Place`, and what it is to the
topic is the invariant `LogOfTopic`. Endings and ports could not be proved for
environments that hold no texts: the assumptions now say which variables are read
and what a text is.

Only model-checked: liveness (`EveryRequestIsAnswered` of `Gateway` and of
`HTTPStack`, `ExpiredEntriesAreReclaimed`, `EveryRecordIsCommitted`,
`AnsweredPaymentIsWorked`, `CancelledLoopsStop`, `ServersDoNotLinger`,
`StalledReadsEnd`), as fairness and ENABLED are out of this prover's reach, and the
four violations.

## 6. What the runs found

* Overlapping calls with one reference create two payments (`gateway_overlap`).
* A crash between Publish and record makes a sequential retry pay twice, and the
  ledger's deduplication by offset cannot see it (`flow_retry`).
* The in-memory deduplicator does not survive the restarts its comment names
  (`ledger_twice`). The code's own TODOs ask for the remedy of these three.
* The signer's guard covers one provider, the stub signs for all
  (`signer_guard`).
* Without a run: a quick start whose containers hold the gateway's default port,
  so that the gateway exits, with status 0; a default route to solana (400 ms)
  where the comment says fastest and arbitrum takes 250 ms; a panic that recovery
  answers and logging never sees; 409 in a comment where the code answers 200;
  "created but never debited" for a ledger crash after which the record is in
  fact delivered again; seven currencies accepted where the error lists four; a
  zero test through float64 where the comment says string parsing; a broker
  package that only logs where its comment says in-process channel; `API_KEY` in
  `.env.example` where `API_KEYS` is read.

Worth knowing, though no text contradicts it: a process whose server cannot
listen exits with status 0; router and signer read `READ_TIMEOUT` and then use
the 15 seconds of `DefaultServerConfig`; `ShutdownTimeout`, `LEDGER_ADDR`,
`ROUTER_ADDR` and `RECONCILER_MAX_RETRIES` reach nothing; a reconciler's pass
that outlasts two seconds is cut off; nothing in the ledger notices that its
consumer is gone; the log line of a request has no request id, since logging is
outside the layer that sets it. Nothing orders the events of one payment across
the ledger's three topics: a `payment.failed` may reach the handler before the
`payment.created` whose debit the handler's TODO (main.go 126-128) wants it to
reverse. Two payments may get one id, where two handlers read one nanosecond.

## 7. Not modelled

* The broker beyond what the handlers rely on: replication, retention, batching.
  In the repository Publish logs and Subscribe waits; the model gives both the
  meaning their interfaces state.
* `handleGetPayment`, `handleListPayments`, `handleGetBalance`,
  `handleGetJournalEntry`, health checks: constant answers, no state.
* `RequireRole`, `HasRole`, `Stablecoin`, `ConfirmationsRequired`: called nowhere.
* Of the `config` packages the addresses, secrets, URLs, key ids and log levels:
  they decide nothing that a process does, but for `JWT_SECRET` and `API_KEYS`,
  which appear in `HTTPStack` as who signed a token and which key is known.
* JSON encoding and HMAC: a token is its claims and who signed it.
* What a poll of the listener or a pass of the reconciler will do: both are stubs.
* Several gateways at once: each has a store of its own, and nothing in the code
  shares it.
* The growth of the deduplicator's set: nothing evicts, so there is no bound to
  state.
* PostgreSQL and Redis: in comments only. Build files and containers: no logic,
  but for the host ports, which `service_life` takes.

## 8. Plan

Done: models of all components but the stubs of section 7, and proofs of every
safety property and refinement that a run checks.

Next:

1. An abstract specification of what a consumer group gives its subscribers (at
   least once, in order, per partition), and `Ledger` shown to implement it, as
   `PaymentLease` is for the store.
2. The guarantees of `LedgerProofs` stated end to end over `PaymentFlow`: what was
   answered and committed was worked on.
3. Shorter proofs where one lemma could serve several: the handlers of `Gateway`
   and `Signer` share their Publish.
