-------------------------- MODULE ServiceLifeProofs -------------------------
(***************************************************************************)
(* Proofs about the life of a service process, for every environment whose *)
(* variables hold texts and every host, where the runs try a few hundred.  *)
(*                                                                         *)
(* The inductive invariant is IInv.  Its parts, apart from TypeOK and      *)
(* EndingsHaveTheirCause:                                                  *)
(*   Roles      what a service runs: loops or a server, never both, and a  *)
(*              server that failed could not listen;                       *)
(*   Stopped    why main has left its wait: a signal, or a server that     *)
(*              could not listen;                                          *)
(*   Ticking    a loop in its select has a ticker that will fire;          *)
(*   SleptFor   the sleep of main and the age of a pass that the cancel    *)
(*              found running make up the grace period.                    *)
(***************************************************************************)
EXTENDS ServiceLife, TLAPS

Roles ==
    /\ neighbours \subseteq HTTPServices \ {service}
    /\ \A l \in Loops : loop[l] # "none" => l \in LoopsOf(service)
    /\ \A l \in Loops : loop[l] = "pass" => l \notin Watched
    /\ server # "none" => service \in HTTPServices
    /\ server = "failed" => ~ CanListen

Stopped ==
    phase = "stopping" => signalled \/ (service \in HTTPServices /\ ~ CanListen)

Ticking ==
    \A l \in Loops : loop[l] \in {"select", "pass"} =>
        cfg.interval \in Nat \ {0} /\ due[l] \in Nat \ {0}

SleptFor ==
    \A l \in Loops :
        phase = "stopping" /\ loop[l] = "pass" => late \/ age + sleep >= Grace

IInv ==
    /\ TypeOK
    /\ Roles
    /\ Stopped
    /\ Ticking
    /\ SleptFor
    /\ EndingsHaveTheirCause

-----------------------------------------------------------------------------
(***************************************************************************)
(* What the packages of config.go make of an environment.                  *)
(***************************************************************************)
LEMMA BrokersAreListed ==
    ASSUME NEW text, IsText(text)
    PROVE  EnvList(text, <<"localhost:19092">>) # <<>>
  <1>1. CASE text = Unset
    BY <1>1 DEF EnvList
  <1>2. CASE text # Unset /\ text.kind = "words"
    BY <1>2 DEF IsText, EnvList, Pieces, Unset
  <1>3. CASE text # Unset /\ text.kind # "words"
    BY <1>3 DEF EnvList, Pieces
  <1> QED
    BY <1>1, <1>2, <1>3

LEMMA DurationIsInt ==
    ASSUME NEW text, IsText(text), NEW fallback \in Nat \ {0}
    PROVE  /\ EnvDuration(text, fallback) \in Int
           /\ EnvDuration(text, fallback) <= 0 => NonPositive(text)
  <1>1. CASE IsDuration(text)
    <2>1. text.value \in Int
      BY <1>1 DEF IsDuration, IsText, Unset, Number
    <2> QED
      BY <1>1, <2>1 DEF EnvDuration, NonPositive
  <1>2. CASE ~ IsDuration(text)
    BY <1>2 DEF EnvDuration
  <1> QED
    BY <1>1, <1>2

LEMMA TextsOfAService ==
    ASSUME service \in Services, env \in Environments[service]
    PROVE  /\ service \in HTTPServices \union {"listener", "reconciler"}
           /\ \A v \in Reads(service) : IsText(env[v])
  BY ServicesAssumption, EnvironmentAssumption

(***************************************************************************)
(* A service is refused by its guard alone.                                *)
(***************************************************************************)
LEMMA OnlyTheGuardRefuses ==
    ASSUME service \in Services, env \in Environments[service], cfg = Load(service, env), Refused
    PROVE  /\ service = "signer"
           /\ env.KMS_PROVIDER \in {Unset, Words(<<"local">>)}
           /\ env.APP_ENV \notin DevEnvironments
  <1>0. service \in HTTPServices \union {"listener", "reconciler"}
    BY TextsOfAService
  <1>1. IsText(env.KAFKA_BROKERS)
    <2>1. "KAFKA_BROKERS" \in Reads(service)
      BY DEF Reads
    <2> QED
      BY <2>1, TextsOfAService
  <1>2. Brokers(env) # <<>>
    BY <1>1, BrokersAreListed DEF Brokers
  <1>3. service # "router" => cfg.brokers = Brokers(env)
    BY <1>0 DEF Load, GatewayConfig, LedgerConfig, ListenerConfig, ReconcilerConfig,
       SignerConfig, HTTPServices
  <1>4. ~ NewProducerFails
    BY <1>2, <1>3 DEF NewProducerFails
  <1>5. ~ NewConsumerFails
    <2>1. service = "ledger" => cfg.group # Unset
      BY DEF Load, LedgerConfig, EnvStr, Unset, Words
    <2> QED
      BY <1>2, <1>3, <2>1 DEF NewConsumerFails
  <1>6. GuardFires
    BY <1>4, <1>5 DEF Refused
  <1>7. cfg.kmsProvider = EnvStr(env.KMS_PROVIDER, Words(<<"local">>))
    BY <1>6 DEF GuardFires, Load, SignerConfig
  <1> QED
    BY <1>6, <1>7 DEF GuardFires, EnvStr

(***************************************************************************)
(* A worker's interval is a number, and positive unless its variable holds *)
(* a duration that is not.                                                 *)
(***************************************************************************)
LEMMA IntervalOfAWorker ==
    ASSUME service \in Services, env \in Environments[service], cfg = Load(service, env),
           NEW l \in LoopsOf(service)
    PROVE  /\ service \in DOMAIN IntervalOf
           /\ service \notin HTTPServices
           /\ cfg.interval \in Int
           /\ cfg.interval <= 0 => NonPositive(env[IntervalOf[service]])
  <1>1. CASE service = "listener"
    <2>1. IsText(env.LISTENER_POLL_INTERVAL)
      <3>1. "LISTENER_POLL_INTERVAL" \in Reads(service)
        BY <1>1 DEF Reads, IntervalOf, HTTPServices
      <3> QED
        BY <3>1, TextsOfAService
    <2>2. cfg.interval = EnvDuration(env.LISTENER_POLL_INTERVAL, 5)
      BY <1>1 DEF Load, ListenerConfig
    <2> QED
      BY <1>1, <2>1, <2>2, DurationIsInt DEF IntervalOf, HTTPServices
  <1>2. CASE service = "reconciler"
    <2>1. IsText(env.RECONCILER_INTERVAL)
      <3>1. "RECONCILER_INTERVAL" \in Reads(service)
        BY <1>2 DEF Reads, IntervalOf, HTTPServices
      <3> QED
        BY <3>1, TextsOfAService
    <2>2. cfg.interval = EnvDuration(env.RECONCILER_INTERVAL, 60)
      BY <1>2 DEF Load, ReconcilerConfig
    <2> QED
      BY <1>2, <2>1, <2>2, DurationIsInt DEF IntervalOf, HTTPServices
  <1>3. CASE service \in HTTPServices
    BY <1>3 DEF LoopsOf, HTTPServices
  <1>4. service \in HTTPServices \union {"listener", "reconciler"}
    BY TextsOfAService
  <1> QED
    BY <1>1, <1>2, <1>3, <1>4

(***************************************************************************)
(* The ports of the four servers are apart.                                *)
(***************************************************************************)
LEMMA PortsAreApart ==
    ASSUME service \in Services, env \in Environments[service], cfg = Load(service, env),
           service \in HTTPServices, neighbours \subseteq HTTPServices \ {service},
           ValidPort, ~ CanListen
    PROVE  cfg.port \in host \/ \E v \in Ports : env[v] # Unset
  <1> SUFFICES ASSUME \A v \in Ports : env[v] = Unset
               PROVE  cfg.port \in host
    OBVIOUS
  <1>1. /\ env.GATEWAY_PORT = Unset /\ env.LEDGER_PORT = Unset
        /\ env.ROUTER_PORT = Unset /\ env.SIGNER_PORT = Unset
    BY DEF Ports
  <1>2. \A n : EnvInt(Unset, n) = n
    BY DEF EnvInt, Unset
  <1>3. /\ Load("gateway", env).port = 8080 /\ Load("ledger", env).port = 8081
        /\ Load("router", env).port = 8083 /\ Load("signer", env).port = 8084
    BY <1>1, <1>2 DEF Load, GatewayConfig, LedgerConfig, RouterConfig, SignerConfig
  <1>4. \A s \in neighbours : Load(s, env).port # cfg.port
    BY <1>3 DEF HTTPServices
  <1> QED
    BY <1>4 DEF CanListen, Held

(***************************************************************************)
(* A server cannot listen for one of two reasons.                          *)
(***************************************************************************)
LEMMA FallbackIsAPort ==
    ASSUME NEW text, NEW fallback, IsPort(fallback), ~ IsPort(EnvInt(text, fallback))
    PROVE  NoPort(text)
  BY DEF EnvInt, NoPort

LEMMA WhyNotListen ==
    ASSUME cfg = Load(service, env), service \in HTTPServices, ~ CanListen
    PROVE  NoPort(env[PortOf[service]]) \/ cfg.port \in Held
  <1> SUFFICES ASSUME ~ ValidPort
               PROVE  NoPort(env[PortOf[service]])
    BY DEF CanListen
  <1>0. IsPort(8080) /\ IsPort(8081) /\ IsPort(8083) /\ IsPort(8084)
    BY DEF IsPort
  <1>1. CASE service = "gateway"
    <2>1. cfg.port = EnvInt(env.GATEWAY_PORT, 8080)
      <3>1. cfg = GatewayConfig(env)
        BY <1>1 DEF Load
      <3> QED
        BY <3>1 DEF GatewayConfig
    <2>2. NoPort(env.GATEWAY_PORT)
      BY <1>0, <2>1, FallbackIsAPort DEF ValidPort
    <2>3. PortOf[service] = "GATEWAY_PORT"
      BY <1>1 DEF PortOf
    <2> QED
      BY <2>2, <2>3
  <1>2. CASE service = "ledger"
    <2>1. cfg.port = EnvInt(env.LEDGER_PORT, 8081)
      <3>1. cfg = LedgerConfig(env)
        BY <1>2 DEF Load
      <3> QED
        BY <3>1 DEF LedgerConfig
    <2>2. NoPort(env.LEDGER_PORT)
      BY <1>0, <2>1, FallbackIsAPort DEF ValidPort
    <2>3. PortOf[service] = "LEDGER_PORT"
      BY <1>2 DEF PortOf
    <2> QED
      BY <2>2, <2>3
  <1>3. CASE service = "router"
    <2>1. cfg.port = EnvInt(env.ROUTER_PORT, 8083)
      <3>1. cfg = RouterConfig(env)
        BY <1>3 DEF Load
      <3> QED
        BY <3>1 DEF RouterConfig
    <2>2. NoPort(env.ROUTER_PORT)
      BY <1>0, <2>1, FallbackIsAPort DEF ValidPort
    <2>3. PortOf[service] = "ROUTER_PORT"
      BY <1>3 DEF PortOf
    <2> QED
      BY <2>2, <2>3
  <1>4. CASE service = "signer"
    <2>1. cfg.port = EnvInt(env.SIGNER_PORT, 8084)
      <3>1. cfg = SignerConfig(env)
        BY <1>4 DEF Load
      <3> QED
        BY <3>1 DEF SignerConfig
    <2>2. NoPort(env.SIGNER_PORT)
      BY <1>0, <2>1, FallbackIsAPort DEF ValidPort
    <2>3. PortOf[service] = "SIGNER_PORT"
      BY <1>4 DEF PortOf
    <2> QED
      BY <2>2, <2>3
  <1> QED
    BY <1>1, <1>2, <1>3, <1>4 DEF HTTPServices

-----------------------------------------------------------------------------
(***************************************************************************)
(* What a step may do.                                                     *)
(***************************************************************************)
LEMMA StartStays ==
    ASSUME [Next]_vars
    PROVE  UNCHANGED <<service, env, cfg, host, neighbours>>
  BY DEF Next, vars, start, Main, Boot, Refuse, ServerError, Stopping, Return, End, Signal, Kill,
     Listen, ListenFails, Stall, ReadTimesOut, LoopStep, NewTicker, TickerPanics, Done, Poll,
     BeginPass, EndPass, Second

(***************************************************************************)
(* How a step moves main and its ending.                                   *)
(***************************************************************************)
LEMMA MainMoves ==
    ASSUME [Next]_vars
    PROVE  \/ UNCHANGED <<phase, ending, signalled>>
           \/ Boot
           \/ Signal
           \/ ServerError
           \/ Refuse
           \/ Return
           \/ Kill
           \/ \E l \in Loops : TickerPanics(l)
  BY DEF Next, vars, Main, Listen, ListenFails, Stall, ReadTimesOut, LoopStep, NewTicker, Done, Poll, BeginPass, EndPass, Second

LEMMA ServerTypes ==
    ASSUME TypeOK, [Next]_vars
    PROVE  /\ phase' \in {"boot", "up", "stopping", "down"}
           /\ ending' \in {"none", "refused", "panicked", "returned", "killed"}
           /\ ending' # "none" <=> phase' = "down"
           /\ server' \in {"none", "starting", "listening", "failed", "shut"}
           /\ server' \in {"starting", "listening"} => phase' = "up"
           /\ reading' \in BOOLEAN
  <1> USE DEF TypeOK, Alive, End
  <1>1. CASE Boot \/ Stopping \/ Listen \/ ListenFails \/ Stall \/ ReadTimesOut
    BY <1>1 DEF Boot, Stopping, Listen, ListenFails, Stall, ReadTimesOut
  <1>2. CASE Refuse \/ Return \/ Kill \/ \E l \in Loops : TickerPanics(l)
    BY <1>2 DEF Refuse, Return, Kill, TickerPanics
  <1>3. CASE \E l \in Loops : NewTicker(l) \/ Done(l) \/ Poll(l) \/ BeginPass(l) \/ EndPass(l)
    BY <1>3 DEF NewTicker, Done, Poll, BeginPass, EndPass
  <1>4. CASE Second \/ UNCHANGED vars
    BY <1>4 DEF Second, vars
  <1> QED
    BY <1>1, <1>2, <1>3, <1>4 DEF Next, Main, ServerError, Signal, LoopStep

LEMMA SignalledMoves ==
    ASSUME [Next]_vars
    PROVE  signalled' \in {signalled, TRUE}
  BY MainMoves DEF Boot, Signal, ServerError, Refuse, Return, Kill, TickerPanics, End

\* The part of TypeOK about the loops.
LoopsTyped ==
    /\ loop \in [Loops -> {"none", "new", "select", "pass", "ended"}]
    /\ \A l \in Loops : loop[l] \in {"new", "select", "pass"} => Alive
    /\ slot \in [Loops -> BOOLEAN]
    /\ due \in [Loops -> Nat]
    /\ sleep \in 0 .. Grace
    /\ age \in 0 .. Grace
    /\ late \in BOOLEAN

LEMMA LoopTypes ==
    ASSUME TypeOK, Roles, Ticking, [Next]_vars
    PROVE  LoopsTyped'
  <1> USE DEF LoopsTyped, Grace, Alive
  <1>0. /\ LoopsTyped
        /\ \A l \in Loops : loop[l] # "none" => cfg.interval \in Int
    BY IntervalOfAWorker DEF TypeOK, Roles
  <1>1. CASE Boot
    BY <1>0, <1>1 DEF Boot, tickers, pass
  <1>2. CASE Stopping
    BY <1>0, <1>2 DEF Stopping, tickers, pass
  <1>3. CASE Refuse \/ Return \/ Kill \/ \E l \in Loops : TickerPanics(l)
    <2>1. PICK how : End(how)
      BY <1>3 DEF Refuse, Return, Kill, TickerPanics
    <2>2. /\ loop' = [l \in Loops |-> IF loop[l] = "none" THEN "none" ELSE "ended"]
          /\ slot' = [l \in Loops |-> FALSE] /\ due' = [l \in Loops |-> 0]
          /\ sleep' = 0 /\ age' = 0
      BY <2>1 DEF End
    <2>3. /\ loop' \in [Loops -> {"none", "new", "select", "pass", "ended"}]
          /\ \A l \in Loops : loop'[l] \notin {"new", "select", "pass"}
      BY <2>2
    <2>4. slot' \in [Loops -> BOOLEAN] /\ due' \in [Loops -> Nat]
      BY <2>2
    <2>5. late' \in BOOLEAN
      BY <2>1, Zenon DEF End
    <2> QED
      BY <2>2, <2>3, <2>4, <2>5
  <1>4. CASE Listen \/ ListenFails \/ Stall \/ ReadTimesOut
    BY <1>0, <1>4 DEF Listen, ListenFails, Stall, ReadTimesOut, tickers, pass
  <1>5. ASSUME NEW l \in Loops, NewTicker(l)
        PROVE  LoopsTyped'
    BY <1>0, <1>5 DEF NewTicker, Goto, pass
  <1>6. ASSUME NEW l \in Loops, Done(l) \/ Poll(l) \/ EndPass(l)
        PROVE  LoopsTyped'
    <2>1. CASE Done(l)
      BY <1>0, <2>1 DEF Done, Goto, tickers, pass
    <2>2. CASE Poll(l)
      BY <1>0, <2>2 DEF Poll, pass
    <2>3. CASE EndPass(l)
      <3>1. late' \in BOOLEAN
        BY <2>3, Zenon DEF EndPass
      <3>2. /\ loop' = [loop EXCEPT ![l] = "select"] /\ loop[l] = "pass" /\ age' = 0
            /\ UNCHANGED <<phase, slot, due, sleep>>
        BY <2>3 DEF EndPass, Goto, tickers
      <3> QED
        BY <1>0, <3>1, <3>2
    <2> QED
      BY <1>6, <2>1, <2>2, <2>3
  <1>9. ASSUME NEW l \in Loops, BeginPass(l)
        PROVE  LoopsTyped'
    <2>1. late' \in BOOLEAN
      BY <1>9, Zenon DEF BeginPass
    <2> QED
      BY <1>0, <1>9, <2>1 DEF BeginPass, Goto
  <1>7. CASE Second
    <2>1. due' \in [Loops -> Nat]
      BY <1>0, <1>7 DEF Second, Ticking
    <2> QED
      BY <1>0, <1>7, <2>1 DEF Second
  <1>8. CASE UNCHANGED vars
    BY <1>0, <1>8 DEF vars, tickers, pass
  <1> QED
    BY <1>1, <1>2, <1>3, <1>4, <1>5, <1>6, <1>7, <1>8, <1>9
       DEF Next, Main, ServerError, Signal, LoopStep

LEMMA TypeStep ==
    ASSUME TypeOK, Roles, Ticking, [Next]_vars
    PROVE  TypeOK'
  <1>1. LoopsTyped'
    BY LoopTypes
  <1>2. signalled' \in BOOLEAN
    BY SignalledMoves DEF TypeOK
  <1> QED
    BY <1>1, <1>2, ServerTypes, StartStays DEF TypeOK, LoopsTyped, Alive

(***************************************************************************)
(* How a step moves one loop.                                              *)
(***************************************************************************)
LEMMA LoopMoves ==
    ASSUME TypeOK, [Next]_vars, NEW l \in Loops
    PROVE  \/ loop'[l] = loop[l]
           \/ Boot /\ loop'[l] \in {"none", "new"}
                  /\ (loop'[l] = "new" => l \in LoopsOf(service))
           \/ loop[l] # "none" /\ loop'[l] = "ended"
           \/ NewTicker(l) /\ loop'[l] = "select" /\ due'[l] = cfg.interval
           \/ BeginPass(l) /\ loop'[l] = "pass" /\ due' = due
           \/ EndPass(l) /\ loop'[l] = "select" /\ due' = due
  <1> USE DEF TypeOK
  <1>1. CASE Boot
    BY <1>1 DEF Boot
  <1>2. CASE Refuse \/ Return \/ Kill \/ \E m \in Loops : TickerPanics(m)
    BY <1>2 DEF Refuse, Return, Kill, TickerPanics, End
  <1>3. CASE \/ Stopping \/ Listen \/ ListenFails \/ Stall \/ ReadTimesOut \/ Second
             \/ UNCHANGED vars \/ \E m \in Loops : Poll(m)
    BY <1>3 DEF Stopping, Listen, ListenFails, Stall, ReadTimesOut, Second, vars, Poll
  <1>4. ASSUME NEW m \in Loops \ {l}, NewTicker(m) \/ Done(m) \/ BeginPass(m) \/ EndPass(m)
        PROVE  loop'[l] = loop[l]
    BY <1>4 DEF NewTicker, Done, BeginPass, EndPass, Goto
  <1>5. CASE NewTicker(l) \/ Done(l) \/ BeginPass(l) \/ EndPass(l)
    BY <1>5 DEF NewTicker, Done, BeginPass, EndPass, Goto, tickers
  <1> QED
    BY <1>1, <1>2, <1>3, <1>4, <1>5 DEF Next, Main, ServerError, Signal, LoopStep

-----------------------------------------------------------------------------
(***************************************************************************)
(* The environment does not change, so a server's failure keeps its cause. *)
(***************************************************************************)
LEMMA RolesStep ==
    ASSUME TypeOK, Roles, [Next]_vars
    PROVE  Roles'
  <1>1. UNCHANGED <<service, env, cfg, host, neighbours>>
    BY StartStays
  <1>2. ASSUME NEW l \in Loops, loop'[l] # "none"
        PROVE  l \in LoopsOf(service)
    <2>1. loop[l] # "none" => l \in LoopsOf(service)
      BY DEF Roles
    <2> QED
      BY <1>2, <2>1, LoopMoves DEF NewTicker, BeginPass, EndPass
  <1>3. ASSUME NEW l \in Loops, loop'[l] = "pass"
        PROVE  l \notin Watched
    <2>1. loop[l] = "pass" => l \notin Watched
      BY DEF Roles
    <2> QED
      BY <1>3, <2>1, LoopMoves DEF BeginPass
  <1>4. CanListen' <=> CanListen
    BY <1>1 DEF CanListen, ValidPort, Held
  <1>5. /\ server' = "failed" => server = "failed" \/ ~ CanListen
        /\ server' # "none" => server # "none" \/ service \in HTTPServices
    BY DEF Next, vars, Main, Boot, Refuse, ServerError, Stopping, Return, End, Signal, Kill,
       Listen, ListenFails, Stall, ReadTimesOut, LoopStep, NewTicker, TickerPanics, Done, Poll,
       BeginPass, EndPass, Second
  <1> QED
    BY <1>1, <1>2, <1>3, <1>4, <1>5 DEF Roles

(***************************************************************************)
(* main leaves its wait on a signal or on the failure of its server, and   *)
(* what it was keeps.                                                      *)
(***************************************************************************)
LEMMA StoppedStep ==
    ASSUME TypeOK, Roles, Stopped, [Next]_vars
    PROVE  Stopped'
  <1> SUFFICES ASSUME phase' = "stopping"
               PROVE  signalled' \/ (service' \in HTTPServices /\ ~ CanListen')
    BY DEF Stopped
  <1>1. UNCHANGED <<service, env, cfg, host, neighbours>>
    BY StartStays
  <1>2. service' = service /\ (CanListen' <=> CanListen)
    BY <1>1 DEF CanListen, ValidPort, Held
  <1>3. CASE UNCHANGED <<phase, ending, signalled>>
    BY <1>2, <1>3 DEF Stopped
  <1>4. CASE Signal
    BY <1>4 DEF Signal
  <1>5. CASE ServerError
    BY <1>2, <1>5 DEF ServerError, Roles
  <1>6. ~ (Boot \/ Refuse \/ Return \/ Kill \/ \E l \in Loops : TickerPanics(l))
    BY DEF Boot, Refuse, Return, Kill, TickerPanics, End
  <1> QED
    BY <1>3, <1>4, <1>5, <1>6, MainMoves

(***************************************************************************)
(* A ticker starts with a positive interval and counts down to one.        *)
(***************************************************************************)
LEMMA TickingStep ==
    ASSUME TypeOK, Roles, Ticking, [Next]_vars
    PROVE  Ticking'
  <1> SUFFICES ASSUME NEW l \in Loops, loop'[l] \in {"select", "pass"}
               PROVE  cfg'.interval \in Nat \ {0} /\ due'[l] \in Nat \ {0}
    BY DEF Ticking
  <1>1. cfg' = cfg
    BY StartStays
  <1>2. CASE NewTicker(l) /\ due'[l] = cfg.interval
    <2>1. cfg.interval \in Int
      BY <1>2, IntervalOfAWorker DEF NewTicker, TypeOK, Roles
    <2> QED
      BY <1>1, <1>2, <2>1 DEF NewTicker
  <1>3. CASE loop[l] \in {"select", "pass"}
    <2>1. cfg.interval \in Nat \ {0} /\ due[l] \in Nat \ {0}
      BY <1>3 DEF Ticking
    <2>2. due'[l] \in {due[l], cfg.interval} \/ (due[l] # 1 /\ due'[l] = due[l] - 1)
      <3>1. CASE Second
        BY <3>1 DEF Second
      <3>2. CASE Refuse \/ Return \/ Kill \/ \E m \in Loops : TickerPanics(m)
        <4>1. loop'[l] \in {"none", "ended"}
          BY <3>2 DEF Refuse, Return, Kill, TickerPanics, End
        <4> QED
          BY <4>1
      <3>3. ASSUME NEW m \in Loops, NewTicker(m)
            PROVE  due'[l] \in {due[l], cfg.interval}
        BY <3>3 DEF NewTicker, TypeOK
      <3>4. ASSUME NEW m \in Loops, Done(m) \/ Poll(m) \/ BeginPass(m) \/ EndPass(m)
            PROVE  due' = due
        BY <3>4 DEF Done, Poll, BeginPass, EndPass, tickers
      <3>5. CASE Boot \/ Stopping \/ Listen \/ ListenFails \/ Stall \/ ReadTimesOut
                 \/ UNCHANGED vars
        BY <3>5 DEF Boot, Stopping, Listen, ListenFails, Stall, ReadTimesOut, vars, tickers
      <3> QED
        BY <3>1, <3>2, <3>3, <3>4, <3>5 DEF Next, Main, ServerError, Signal, LoopStep
    <2> QED
      BY <1>1, <2>1, <2>2
  <1> QED
    BY <1>2, <1>3, LoopMoves DEF BeginPass, EndPass

(***************************************************************************)
(* Only reconciliation runs passes, and a second of main's sleep is a      *)
(* second of the pass that is running.                                     *)
(***************************************************************************)
LEMMA SleptForStep ==
    ASSUME TypeOK, Roles, SleptFor, [Next]_vars
    PROVE  SleptFor'
  <1> SUFFICES ASSUME NEW l \in Loops, phase' = "stopping", loop'[l] = "pass"
               PROVE  late' \/ age' + sleep' >= Grace
    BY DEF SleptFor
  <1> USE DEF Grace
  <1>0. sleep \in 0 .. 2 /\ age \in 0 .. 2
    BY DEF TypeOK
  <1>1. CASE BeginPass(l)
    BY <1>1 DEF BeginPass
  <1>2. CASE loop[l] = "pass"
    <2>1. CASE Stopping
      <3>1. service \notin HTTPServices
        BY <1>2, IntervalOfAWorker DEF TypeOK, Roles
      <3>2. sleep' = 2 /\ age' = age
        BY <2>1, <3>1 DEF Stopping, pass
      <3> QED
        BY <1>0, <3>2
    <2>2. CASE phase = "stopping"
      <3>1. late \/ age + sleep >= 2
        BY <1>2, <2>2 DEF SleptFor
      <3>2. CASE Second
        <4>1. late' = late /\ sleep' = IF sleep = 0 THEN 0 ELSE sleep - 1
          BY <3>2 DEF Second
        <4>2. age' = IF age < 2 THEN age + 1 ELSE age
          BY <1>2, <3>2 DEF Second
        <4> QED
          BY <1>0, <3>1, <4>1, <4>2
      <3>3. ASSUME NEW m \in Loops, BeginPass(m) \/ EndPass(m)
            PROVE  FALSE
        <4>1. m \notin Watched /\ l \notin Watched
          BY <1>2, <3>3 DEF BeginPass, EndPass, Roles
        <4>2. m = l
          BY <4>1 DEF Loops
        <4> QED
          BY <1>2, <3>3, <4>2 DEF BeginPass, EndPass, Goto, TypeOK
      <3>4. ASSUME NEW m \in Loops, NewTicker(m) \/ Done(m) \/ Poll(m)
            PROVE  UNCHANGED <<sleep, age, late>>
        BY <3>4 DEF NewTicker, Done, Poll, pass
      <3>5. CASE Listen \/ ListenFails \/ Stall \/ ReadTimesOut \/ UNCHANGED vars
        BY <3>1, <3>5 DEF Listen, ListenFails, Stall, ReadTimesOut, vars, pass
      <3>6. ~ (Boot \/ Stopping \/ Refuse \/ Return \/ Kill \/ \E m \in Loops : TickerPanics(m))
        BY <2>2 DEF Boot, Stopping, Refuse, Return, Kill, TickerPanics, End
      <3> QED
        BY <3>1, <3>2, <3>3, <3>4, <3>5, <3>6 DEF Next, Main, ServerError, Signal, LoopStep
    <2>3. phase = "stopping" \/ Stopping
      BY MainMoves DEF Boot, Signal, ServerError, Refuse, Return, Kill, TickerPanics, End
    <2> QED
      BY <2>1, <2>2, <2>3
  <1> QED
    BY <1>1, <1>2, LoopMoves

(***************************************************************************)
(* A process ends by its guard, its ticker, its server, a signal or a      *)
(* kill.                                                                   *)
(***************************************************************************)
LEMMA CauseStep ==
    ASSUME TypeOK, Roles, Stopped, EndingsHaveTheirCause, [Next]_vars
    PROVE  EndingsHaveTheirCause'
  <1>1. UNCHANGED <<service, env, cfg, host, neighbours>>
    BY StartStays
  <1>2. CASE Refuse
    <2>1. ending' = "refused" /\ Refused
      BY <1>2 DEF Refuse, End
    <2> QED
      BY <1>1, <2>1, OnlyTheGuardRefuses DEF TypeOK, EndingsHaveTheirCause
  <1>3. ASSUME NEW l \in Loops, TickerPanics(l)
        PROVE  EndingsHaveTheirCause'
    <2>1. ending' = "panicked" /\ cfg.interval <= 0 /\ l \in LoopsOf(service)
      BY <1>3 DEF TickerPanics, End, Roles
    <2> QED
      BY <1>1, <2>1, IntervalOfAWorker DEF TypeOK, EndingsHaveTheirCause
  <1>4. CASE Return
    <2>1. ending' = "returned" /\ signalled' = signalled
      BY <1>4 DEF Return, End
    <2>2. signalled \/ (service \in HTTPServices /\ ~ CanListen)
      BY <1>4 DEF Return, Stopped
    <2>3. \/ signalled
          \/ service \in HTTPServices /\ (NoPort(env[PortOf[service]]) \/ cfg.port \in Held)
      BY <2>2, WhyNotListen DEF TypeOK
    <2>4. Held' = Held
      BY <1>1 DEF Held
    <2> QED
      BY <1>1, <2>1, <2>3, <2>4 DEF EndingsHaveTheirCause
  <1>5. CASE Kill
    BY <1>5 DEF Kill, End, EndingsHaveTheirCause
  <1>6. CASE Boot \/ Signal \/ ServerError
    <2>1. ending' = "none"
      BY <1>6 DEF Boot, Signal, ServerError, Stopping, TypeOK
    <2> QED
      BY <2>1 DEF EndingsHaveTheirCause
  <1>7. CASE UNCHANGED <<phase, ending, signalled>>
    <2>1. Held' = Held
      BY <1>1 DEF Held
    <2> QED
      BY <1>1, <1>7, <2>1 DEF EndingsHaveTheirCause
  <1> QED
    BY <1>2, <1>3, <1>4, <1>5, <1>6, <1>7, MainMoves

-----------------------------------------------------------------------------
LEMMA IInvInit == Init => IInv
  <1> SUFFICES ASSUME Init
               PROVE  IInv
    OBVIOUS
  <1>1. \A l \in Loops : loop[l] = "none"
    BY DEF Init
  <1>2. TypeOK
    <2>1. host \in Hosts \union {{}} /\ neighbours \subseteq HTTPServices
      BY DEF Init
    <2>2. late \in BOOLEAN /\ reading \in BOOLEAN /\ signalled \in BOOLEAN
      BY Zenon DEF Init
    <2>3. loop \in [Loops -> {"none", "new", "select", "pass", "ended"}]
          /\ slot \in [Loops -> BOOLEAN] /\ due \in [Loops -> Nat]
      BY DEF Init
    <2>4. sleep \in 0 .. Grace /\ age \in 0 .. Grace
      BY DEF Init, Grace
    <2>5. /\ service \in Services /\ env \in Environments[service]
          /\ cfg = Load(service, env)
          /\ phase = "boot" /\ ending = "none" /\ server = "none"
      BY DEF Init
    <2> QED
      BY <1>1, <2>1, <2>2, <2>3, <2>4, <2>5 DEF TypeOK
  <1>3. Roles /\ Stopped
    BY <1>1 DEF Init, Roles, Stopped
  <1>4. Ticking /\ SleptFor
    BY <1>1 DEF Ticking, SleptFor
  <1>5. EndingsHaveTheirCause
    BY DEF Init, EndingsHaveTheirCause
  <1> QED
    BY <1>2, <1>3, <1>4, <1>5 DEF IInv

LEMMA IInvStep == IInv /\ [Next]_vars => IInv'
  BY TypeStep, RolesStep, StoppedStep, TickingStep, SleptForStep, CauseStep DEF IInv

(***************************************************************************)
(* The inductive invariant holds in every reachable state.                 *)
(***************************************************************************)
THEOREM ServiceInvariant == Spec => []IInv
  BY IInvInit, IInvStep, PTL DEF Spec

(***************************************************************************)
(* Type correctness of a service process: its goroutines end with it, and  *)
(* every interval a ticker is made of is a number (main.go of all six).    *)
(***************************************************************************)
THEOREM ServiceTypeCorrect == Spec => []TypeOK
  <1>1. IInv => TypeOK
    BY DEF IInv
  <1> QED
    BY <1>1, ServiceInvariant, PTL

(***************************************************************************)
(* No text in any variable stops a process, but for the local signer       *)
(* outside development, an interval that is a duration and not positive,   *)
(* and a port that is no port or is in use (signer main.go:34-45,          *)
(* reconciler main.go:52, listener main.go:79, gateway main.go:89-103):    *)
(* otherwise main returns on a signal only.                                *)
(***************************************************************************)
THEOREM EndingsAreExplained == Spec => []EndingsHaveTheirCause
  <1>1. IInv => EndingsHaveTheirCause
    BY DEF IInv
  <1> QED
    BY <1>1, ServiceInvariant, PTL

(***************************************************************************)
(* Services that are configured by nothing do not take each other's port   *)
(* (the six config.go).                                                    *)
(***************************************************************************)
THEOREM DefaultPortsFit == Spec => []ServicesDoNotCollide
  <1>1. ASSUME IInv
        PROVE  ServicesDoNotCollide
    <2> SUFFICES ASSUME server = "failed", ValidPort
                 PROVE  cfg.port \in host \/ \E v \in Ports : env[v] # Unset
      BY DEF ServicesDoNotCollide
    <2>1. /\ ~ CanListen /\ service \in HTTPServices
          /\ neighbours \subseteq HTTPServices \ {service}
      BY <1>1 DEF IInv, Roles
    <2> QED
      BY <1>1, <2>1, PortsAreApart DEF IInv, TypeOK
  <1> QED
    BY <1>1, ServiceInvariant, PTL

(***************************************************************************)
(* The sleep of main cuts off no pass that was running at the cancel and   *)
(* takes less than the sleep (reconciler main.go:46-48).                   *)
(***************************************************************************)
LEMMA CutOffStep ==
    ASSUME IInv, [Next]_vars, NEW l \in Loops, ending' = "returned", loop[l] = "pass"
    PROVE  late \/ age = Grace
  <1>0. ending = "none"
    BY DEF IInv, TypeOK, Alive
  <1>1. Return
    BY <1>0, MainMoves DEF Boot, Signal, ServerError, Stopping, Refuse, Kill, TickerPanics, End
  <1>2. phase = "stopping" /\ sleep = 0
    BY <1>1 DEF Return
  <1>3. late \/ age + sleep >= Grace
    BY <1>2 DEF IInv, SleptFor
  <1> QED
    BY <1>2, <1>3 DEF IInv, TypeOK, Grace

(***************************************************************************)
(* What main cuts off when it returns began after the cancel or took the   *)
(* whole grace period (reconciler main.go:46-48).                          *)
(***************************************************************************)
THEOREM OnlyLongPassesAreCutOff == Spec => CutOffPassesWereLong
  <1> DEFINE A == \A l \in Loops :
                     ending' = "returned" /\ loop[l] = "pass" => late \/ age = Grace
  <1>1. IInv /\ [Next]_vars => [A]_vars
    BY CutOffStep
  <1> QED
    BY <1>1, ServiceInvariant, PTL DEF Spec, CutOffPassesWereLong

=============================================================================
