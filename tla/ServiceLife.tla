---------------------------- MODULE ServiceLife ----------------------------
(***************************************************************************)
(* The life of one process of any of the six services, from its            *)
(* environment to its end: Load and the checks of main, then either an     *)
(* HTTP server (gateway, ledger, router, signer) or ticker loops           *)
(* (listener: one per watched chain; reconciler: one), and the way main    *)
(* ends them.                                                              *)
(*                                                                         *)
(* What the handlers and the ledger's consumer do is in Gateway, Signer,   *)
(* HTTPStack and Ledger.  Time is counted in seconds, by countdowns, so    *)
(* that a process may run for ever.                                        *)
(***************************************************************************)
EXTENDS Config, FiniteSets

CONSTANTS
    Services,            \* the services considered
    Environments,        \* Environments[s]: the environments s is started in
    Hosts                \* the ports that other programs may hold on the host

HTTPServices == {"gateway", "ledger", "router", "signer"}

\* listener main.go: the chains it starts a loop for.
Watched == {"ethereum", "solana", "tron"}

Loops == Watched \union {"reconciliation"}

LoopsOf(s) ==
    CASE s = "listener"   -> Watched
      [] s = "reconciler" -> {"reconciliation"}
      [] OTHER            -> {}

Ports == {"GATEWAY_PORT", "LEDGER_PORT", "ROUTER_PORT", "SIGNER_PORT"}

IntervalOf == [listener |-> "LISTENER_POLL_INTERVAL", reconciler |-> "RECONCILER_INTERVAL"]

\* The variables that decide what a process of s does, and those of its neighbours.
Reads(s) ==
    IF s \in HTTPServices
    THEN Ports \union {"READ_TIMEOUT", "KAFKA_BROKERS", "LEDGER_KAFKA_GROUP", "KMS_PROVIDER"}
               \union (IF s = "signer" THEN {"APP_ENV"} ELSE {})
    ELSE {"KAFKA_BROKERS", IntervalOf[s]}

ASSUME ServicesAssumption == Services \subseteq HTTPServices \union {"listener", "reconciler"}

ASSUME HostsAssumption == \A ports \in Hosts : ports \subseteq 1 .. 65535

ASSUME EnvironmentAssumption ==
    \A s \in Services : \A e \in Environments[s] : \A v \in Reads(s) : IsText(e[v])

VARIABLES
    service,      \* which service this is
    env,          \* its environment
    cfg,          \* the Config that main loads first of all
    host,         \* the ports that programs outside the repository hold
    neighbours,   \* the services that run beside it in the same environment
    phase,        \* main: "boot", "up", "stopping", "down"
    ending,       \* how the process ended
    signalled,    \* history: a signal made main leave its wait
    server,       \* the goroutine of ListenAndServe, "none" without one
    reading,      \* a handler waits for the rest of a request
    loop,         \* loop[l]: where the goroutine of loop l is, "none" without one
    slot,         \* slot[l]: a tick waits in the channel of l's ticker
    due,          \* due[l]: when the ticker of l fires next
    sleep,        \* what is left of main's sleep
    age,          \* history: for how long the pass has been running, up to Grace
    late          \* history: the pass began after the cancel

start == <<service, env, cfg, host, neighbours>>
tickers == <<slot, due>>
pass == <<age, late>>
vars == <<start, phase, ending, signalled, server, reading, loop, tickers, sleep, pass>>

\* main of listener and reconciler: time.Sleep(2 * time.Second).
Grace == 2

Alive == phase \in {"up", "stopping"}

TypeOK ==
    /\ service \in Services
    /\ env \in Environments[service]
    /\ cfg = Load(service, env)
    /\ host \in Hosts \union {{}}
    /\ neighbours \subseteq HTTPServices
    /\ phase \in {"boot", "up", "stopping", "down"}
    /\ ending \in {"none", "refused", "panicked", "returned", "killed"}
    /\ ending # "none" <=> phase = "down"
    /\ signalled \in BOOLEAN
    /\ server \in {"none", "starting", "listening", "failed", "shut"}
    /\ server \in {"starting", "listening"} => phase = "up"
    /\ reading \in BOOLEAN
    /\ loop \in [Loops -> {"none", "new", "select", "pass", "ended"}]
    /\ \A l \in Loops : loop[l] \in {"new", "select", "pass"} => Alive
    /\ slot \in [Loops -> BOOLEAN]
    /\ due \in [Loops -> Nat]
    /\ sleep \in 0 .. Grace
    /\ age \in 0 .. Grace
    /\ late \in BOOLEAN

Init ==
    /\ service \in Services
    /\ env \in Environments[service]
    /\ cfg = Load(service, env)
    /\ host \in IF service \in HTTPServices THEN Hosts ELSE {{}}
    /\ neighbours \in IF service \in HTTPServices THEN SUBSET (HTTPServices \ {service}) ELSE {{}}
    /\ phase = "boot"
    /\ ending = "none"
    /\ signalled = FALSE
    /\ server = "none"
    /\ reading = FALSE
    /\ loop = [l \in Loops |-> "none"]
    /\ slot = [l \in Loops |-> FALSE]
    /\ due = [l \in Loops |-> 0]
    /\ sleep = 0
    /\ age = 0
    /\ late = FALSE

-----------------------------------------------------------------------------
\* main.

\* signer main.go: the values of APP_ENV that it takes for development.
DevEnvironments == {Words(<<"development">>), Words(<<"dev">>), Words(<<"test">>)}

\* NewProducer fails; the router has no producer and the ledger a consumer.
NewProducerFails == service \notin {"ledger", "router"} /\ cfg.brokers = <<>>

NewConsumerFails == service = "ledger" /\ (cfg.brokers = <<>> \/ cfg.group = Unset)

\* The signer's guard.
GuardFires ==
    /\ service = "signer"
    /\ cfg.kmsProvider = Words(<<"local">>)
    /\ env.APP_ENV \notin DevEnvironments

\* os.Exit(1).
Refused == NewProducerFails \/ NewConsumerFails \/ GuardFires

\* The process is gone, and its goroutines with it.
End(how) ==
    /\ phase' = "down"
    /\ ending' = how
    /\ server' = "none"
    /\ reading' = FALSE
    /\ loop' = [l \in Loops |-> IF loop[l] = "none" THEN "none" ELSE "ended"]
    /\ slot' = [l \in Loops |-> FALSE]
    /\ due' = [l \in Loops |-> 0]
    /\ sleep' = 0
    /\ age' = 0
    /\ late' = FALSE
    /\ UNCHANGED <<start, signalled>>

Refuse == phase = "boot" /\ Refused /\ End("refused")

\* The loops or ListenAndServe are started, and signals are caught from here on.
Boot ==
    /\ phase = "boot"
    /\ ~ Refused
    /\ phase' = "up"
    /\ server' = IF service \in HTTPServices THEN "starting" ELSE "none"
    /\ loop' = [l \in Loops |-> IF l \in LoopsOf(service) THEN "new" ELSE "none"]
    /\ UNCHANGED <<start, ending, signalled, reading, tickers, sleep, pass>>

\* main leaves its wait: Shutdown closes the listener, or cancel() and the sleep.
Stopping ==
    /\ phase = "up"
    /\ phase' = "stopping"
    /\ server' = IF server = "none" THEN "none" ELSE "shut"
    /\ sleep' = IF service \in HTTPServices THEN 0 ELSE Grace
    /\ UNCHANGED <<start, ending, reading, loop, tickers, pass>>

Signal_WithoutSleep ==
    /\ phase = "up"
    /\ phase' = "stopping"
    /\ signalled' = TRUE
    /\ server' = IF server = "none" THEN "none" ELSE "shut"
    /\ UNCHANGED <<start, ending, reading, loop, tickers, sleep, pass>>

Signal_WithoutShutdown ==
    /\ phase = "up"
    /\ phase' = "stopping"
    /\ signalled' = TRUE
    /\ sleep' = IF service \in HTTPServices THEN 0 ELSE Grace
    /\ UNCHANGED <<start, ending, server, reading, loop, tickers, pass>>

\* SIGINT or SIGTERM.
Signal == Stopping /\ signalled' = TRUE

ServerError_OnlyLogged == server = "failed" /\ phase = "up" /\ UNCHANGED vars

\* errCh: the server could not listen.
ServerError == server = "failed" /\ Stopping /\ UNCHANGED signalled

\* The sleep is over, or Shutdown returned, drained or after ten seconds: main
\* returns, with exit status 0.
Return == phase = "stopping" /\ sleep = 0 /\ End("returned")

\* A crash, SIGKILL, or a signal before main catches them.
Kill == phase # "down" /\ End("killed")

-----------------------------------------------------------------------------
\* The HTTP server.

Held == host \union {Load(s, env).port : s \in neighbours}

IsPort(n) == n \in Nat /\ n <= 65535

ValidPort == IsPort(cfg.port)

\* For port 0 the kernel picks a free one.
CanListen == ValidPort /\ (cfg.port = 0 \/ cfg.port \notin Held)

Listen ==
    /\ server = "starting"
    /\ CanListen
    /\ server' = "listening"
    /\ UNCHANGED <<start, phase, ending, signalled, reading, loop, tickers, sleep, pass>>

ListenFails ==
    /\ server = "starting"
    /\ ~ CanListen
    /\ server' = "failed"
    /\ UNCHANGED <<start, phase, ending, signalled, reading, loop, tickers, sleep, pass>>

\* A client sends part of a request and then nothing.
Stall ==
    /\ server = "listening"
    /\ ~ reading
    /\ reading' = TRUE
    /\ UNCHANGED <<start, phase, ending, signalled, server, loop, tickers, sleep, pass>>

\* Router and signer build their server from DefaultServerConfig.
ServerReadTimeout == IF service \in {"gateway", "ledger"} THEN cfg.readTimeout ELSE 15

\* net/http has no deadline when ReadTimeout is zero or negative.
ReadTimesOut ==
    /\ reading
    /\ ServerReadTimeout > 0
    /\ reading' = FALSE
    /\ UNCHANGED <<start, phase, ending, signalled, server, loop, tickers, sleep, pass>>

-----------------------------------------------------------------------------
\* The ticker loops.

Goto(l, where) == loop' = [loop EXCEPT ![l] = where]

NewTicker(l) ==
    /\ loop[l] = "new"
    /\ cfg.interval > 0
    /\ Goto(l, "select")
    /\ due' = [due EXCEPT ![l] = cfg.interval]
    /\ UNCHANGED <<start, phase, ending, signalled, server, reading, slot, sleep, pass>>

\* time.NewTicker panics in its goroutine: nothing recovers, no defer of main runs.
TickerPanics(l) == loop[l] = "new" /\ cfg.interval <= 0 /\ End("panicked")

\* Both cases of the select may be ready, and then either is taken.
Done_AfterTick(l) ==
    /\ loop[l] = "select"
    /\ phase = "stopping"
    /\ slot[l]
    /\ Goto(l, "ended")
    /\ UNCHANGED <<start, phase, ending, signalled, server, reading, tickers, sleep, pass>>

Done(l) ==
    /\ loop[l] = "select"
    /\ phase = "stopping"
    /\ Goto(l, "ended")
    /\ UNCHANGED <<start, phase, ending, signalled, server, reading, tickers, sleep, pass>>

\* The listener's poll is a stub: the tick is consumed and nothing is done.
Poll(l) ==
    /\ l \in Watched
    /\ loop[l] = "select"
    /\ slot[l]
    /\ slot' = [slot EXCEPT ![l] = FALSE]
    /\ UNCHANGED <<start, phase, ending, signalled, server, reading, loop, due, sleep, pass>>

\* runReconciliation is called by the loop itself, which waits for it.
BeginPass(l) ==
    /\ l \notin Watched
    /\ loop[l] = "select"
    /\ slot[l]
    /\ slot' = [slot EXCEPT ![l] = FALSE]
    /\ Goto(l, "pass")
    /\ late' = (phase = "stopping")
    /\ UNCHANGED <<start, phase, ending, signalled, server, reading, due, sleep, age>>

EndPass(l) ==
    /\ loop[l] = "pass"
    /\ Goto(l, "select")
    /\ age' = 0
    /\ late' = FALSE
    /\ UNCHANGED <<start, phase, ending, signalled, server, reading, tickers, sleep>>

LoopStep(l) ==
    \/ NewTicker(l)
    \/ TickerPanics(l)
    \/ Done(l)
    \/ Poll(l)
    \/ BeginPass(l)
    \/ EndPass(l)

\* A second passes.  A ticker whose channel is full drops its tick.
Second ==
    LET ticking == {l \in Loops : loop[l] \in {"select", "pass"}}
        firing  == {l \in ticking : due[l] = 1}
    IN  /\ Alive
        /\ service \notin HTTPServices
        /\ slot' = [l \in Loops |-> slot[l] \/ l \in firing]
        /\ due' = [l \in Loops |-> IF l \in firing THEN cfg.interval
                                   ELSE IF l \in ticking THEN due[l] - 1 ELSE due[l]]
        /\ sleep' = IF sleep = 0 THEN 0 ELSE sleep - 1
        /\ age' = IF \E l \in Loops : loop[l] = "pass" /\ age < Grace THEN age + 1 ELSE age
        /\ UNCHANGED <<start, phase, ending, signalled, server, reading, loop, late>>

Main == Boot \/ Refuse \/ ServerError \/ Return

Next ==
    \/ Main
    \/ Signal
    \/ Kill
    \/ Listen
    \/ ListenFails
    \/ Stall
    \/ ReadTimesOut
    \/ \E l \in Loops : LoopStep(l)
    \/ Second

(***************************************************************************)
(* The goroutines run: main goes on when it can, ListenAndServe returns or *)
(* listens, a deadline that is set passes, and a loop takes a case that is *)
(* ready.  Weak fairness is enough for the select, although its choice is  *)
(* random: once a loop has taken the tick that waits, only time can bring  *)
(* another, and no fairness says that time passes.                         *)
(***************************************************************************)
Fairness ==
    /\ WF_vars(Main)
    /\ WF_vars(Listen \/ ListenFails)
    /\ WF_vars(ReadTimesOut)
    /\ \A l \in Loops : WF_vars(LoopStep(l))

Spec == Init /\ [][Next]_vars

FairSpec == Spec /\ Fairness

-----------------------------------------------------------------------------
\* A text that is read as a duration, and as one that no timer can use.
NonPositive(text) == IsDuration(text) /\ text.value <= 0

\* The variable that sets the port of a server, and a text in it that is taken
\* and is no port.
PortOf ==
    [gateway |-> "GATEWAY_PORT", ledger |-> "LEDGER_PORT", router |-> "ROUTER_PORT",
     signer |-> "SIGNER_PORT"]

NoPort(text) == text.kind = "number" /\ ~ IsPort(text.value)

(***************************************************************************)
(* No setting stops a process but three: the local signer outside          *)
(* development (signer main.go:34-45); an interval of a worker that is a   *)
(* duration and not positive (reconciler main.go:52, listener              *)
(* main.go:79); and a port that is a number outside the range of ports, or *)
(* that is in use (gateway main.go:89-103, and so the other servers).      *)
(* Otherwise main returns on a signal only.  Whatever else a variable      *)
(* holds - nothing, only commas, a number without its unit, text - the     *)
(* fallback of config.go or an empty piece of a list keeps the process up. *)
(***************************************************************************)
EndingsHaveTheirCause ==
    /\ ending = "refused" =>
          /\ service = "signer"
          /\ env.KMS_PROVIDER \in {Unset, Words(<<"local">>)}
          /\ env.APP_ENV \notin DevEnvironments
    /\ ending = "panicked" =>
          service \in DOMAIN IntervalOf /\ NonPositive(env[IntervalOf[service]])
    /\ ending = "returned" =>
          \/ signalled
          \/ /\ service \in HTTPServices
             /\ NoPort(env[PortOf[service]]) \/ cfg.port \in Held

(***************************************************************************)
(* The ports of the six copies of config.go fit together: a service whose  *)
(* port is a port fails to listen only on a host where another program has *)
(* it, or in an environment that sets a port.                              *)
(***************************************************************************)
ServicesDoNotCollide ==
    server = "failed" /\ ValidPort =>
        cfg.port \in host \/ \E v \in Ports : env[v] # Unset

(***************************************************************************)
(* Reconciler main.go:46-48 sleeps instead of waiting for the loop.  When  *)
(* main returns it cuts off only a pass that began after the cancel, by    *)
(* the choice of the select, or that has run for the whole sleep.          *)
(***************************************************************************)
CutOffPassesWereLong ==
    [][\A l \in Loops : ending' = "returned" /\ loop[l] = "pass" => late \/ age = Grace]_vars

(***************************************************************************)
(* Listener main.go:83-85, reconciler main.go:57-59: a cancelled loop ends *)
(* by itself, also when the sleep of main never does.                      *)
(***************************************************************************)
CancelledLoopsStop ==
    \A l \in Loops : phase = "stopping" /\ loop[l] # "none" ~> loop[l] = "ended"

(***************************************************************************)
(* The select of main in the four servers: a process whose server could    *)
(* not listen, or that was told to stop, does not linger.                  *)
(***************************************************************************)
ServersDoNotLinger ==
    service \in HTTPServices /\ (server = "failed" \/ phase = "stopping") ~> phase = "down"

(***************************************************************************)
(* rpc.go:35-43: a request whose client went silent is given up, unless    *)
(* READ_TIMEOUT is a duration that net/http takes for none - and then only *)
(* in the two services that pass it on.  Gateway's fairness of DecodeBody  *)
(* rests on this.                                                          *)
(***************************************************************************)
StalledReadsEnd ==
    reading ~> ~ reading \/ (service \in {"gateway", "ledger"} /\ NonPositive(env.READ_TIMEOUT))

=============================================================================
