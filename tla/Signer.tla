------------------------------- MODULE Signer -------------------------------
(***************************************************************************)
(* The signer, services/signer/main.go: the guard that main runs before    *)
(* anything else, concurrent runs of handleSign over one Kafka producer,   *)
(* and the life of the process around them.                                *)
(*                                                                         *)
(* A process is started with a KMS_PROVIDER and an APP_ENV and keeps them; *)
(* the next one may be started with others.  Transactions are opaque: what *)
(* matters of the SHA256 stub is that the hash it returns is determined by *)
(* the transaction and by nothing else.                                    *)
(***************************************************************************)
EXTENDS Naturals, Sequences

CONSTANTS
    Requests,      \* the calls of POST /api/internal/sign
    Payments,      \* payment_id, an opaque string here
    ChainNames,    \* chain, which is not looked up anywhere
    Transactions,  \* tx_data
    Providers,     \* what KMS_PROVIDER may hold
    Environments,  \* what APP_ENV may hold, the unset variable included
    None,          \* no configuration, no body, no answer
    MaxStarts      \* bound of the model: how many processes are started

ASSUME SignerAssumption ==
    /\ MaxStarts \in Nat
    /\ "local" \in Providers

VARIABLES
    phase,         \* of the process: "down", "serving", "draining", "stopping"
    kmsProvider,   \* cfg.KMSProvider of the process, or of the last one
    appEnv,        \* APP_ENV of the process, or of the last one
    closed,        \* producer.closed
    pc,            \* pc[r]: the next step of the handler of r
    body,          \* body[r]: the decoded SignRequest
    answer,        \* answer[r]: the HTTP response of r
    topic,         \* the records of payment.signed, in offset order
    starts,        \* bound of the model
    stubUses       \* history: under which configurations the stub has signed

configVars == <<kmsProvider, appEnv>>
vars == <<phase, configVars, closed, pc, body, answer, topic, starts, stubUses>>

DevEnvironments == {"development", "dev", "test"}

SignRequest == [payment : Payments, chain : ChainNames, tx : Transactions]

\* sha256.Sum256 and the 40 hexadecimal digits of it that become the tx hash.
TxHash(tx) == [hashOf |-> tx]

Event == [payment : Payments, chain : ChainNames, txHash : {TxHash(tx) : tx \in Transactions},
          from : Requests]

Answer == [status : {400, 503}] \union
          [status : {200}, payment : Payments, txHash : {TxHash(tx) : tx \in Transactions}]

TypeOK ==
    /\ phase \in {"down", "serving", "draining", "stopping"}
    /\ kmsProvider \in IF starts = 0 THEN {None} ELSE Providers
    /\ appEnv \in IF starts = 0 THEN {None} ELSE Environments
    /\ closed \in BOOLEAN
    /\ pc \in [Requests -> {"idle", "decode", "sign", "publish", "respond", "done", "lost"}]
    /\ body \in [Requests -> SignRequest \union {None}]
    /\ answer \in [Requests -> Answer \union {None}]
    /\ topic \in Seq(Event)
    /\ starts \in Nat
    /\ stubUses \subseteq Providers \X Environments

Init ==
    /\ phase = "down"
    /\ kmsProvider = None
    /\ appEnv = None
    /\ closed = FALSE
    /\ pc = [r \in Requests |-> "idle"]
    /\ body = [r \in Requests |-> None]
    /\ answer = [r \in Requests |-> None]
    /\ topic = <<>>
    /\ starts = 0
    /\ stubUses = {}

InFlight == {r \in Requests : pc[r] \in {"decode", "sign", "publish", "respond"}}

-----------------------------------------------------------------------------
\* The process.

\* main's guard: the local stub is refused outside development.
GuardPasses_EmptyEnvironment(provider, env) ==
    provider = "local" => env \in DevEnvironments \union {""}

GuardPasses(provider, env) == provider = "local" => env \in DevEnvironments

Start_WithoutDefault ==
    /\ phase = "down"
    /\ starts < MaxStarts
    /\ starts' = starts + 1
    /\ \E provider \in Providers \union {None}, env \in Environments :
          /\ kmsProvider' = provider
          /\ appEnv' = env
          /\ phase' = IF GuardPasses(provider, env) THEN "serving" ELSE "down"
    /\ closed' = FALSE
    /\ UNCHANGED <<pc, body, answer, topic, stubUses>>

\* config.Load, the guard, NewProducer, ListenAndServe.
Start ==
    /\ phase = "down"
    /\ starts < MaxStarts
    /\ starts' = starts + 1
    /\ \E provider \in Providers, env \in Environments :
          /\ kmsProvider' = provider
          /\ appEnv' = env
          /\ phase' = IF GuardPasses(provider, env) THEN "serving" ELSE "down"
    /\ closed' = FALSE
    /\ UNCHANGED <<pc, body, answer, topic, stubUses>>

\* SIGINT, SIGTERM, or ListenAndServe failed.
StopServing ==
    /\ phase = "serving"
    /\ phase' = "draining"
    /\ UNCHANGED <<configVars, closed, pc, body, answer, topic, starts, stubUses>>

\* srv.Shutdown returns, its error ignored: handlers may still be running.
ShutdownReturns ==
    /\ phase = "draining"
    /\ phase' = "stopping"
    /\ UNCHANGED <<configVars, closed, pc, body, answer, topic, starts, stubUses>>

\* The deferred producer.Close().
CloseProducer ==
    /\ phase = "stopping"
    /\ ~ closed
    /\ closed' = TRUE
    /\ UNCHANGED <<phase, configVars, pc, body, answer, topic, starts, stubUses>>

\* main returns after Close, or the process crashes at any time.
Die ==
    /\ phase # "down"
    /\ phase' = "down"
    /\ pc' = [r \in Requests |-> IF r \in InFlight THEN "lost" ELSE pc[r]]
    /\ UNCHANGED <<configVars, closed, body, answer, topic, starts, stubUses>>

-----------------------------------------------------------------------------
\* handleSign, one action per step.

Reply(r, response) ==
    /\ pc' = [pc EXCEPT ![r] = "done"]
    /\ answer' = [answer EXCEPT ![r] = response]

Accept(r) ==
    /\ phase = "serving"
    /\ pc[r] = "idle"
    /\ pc' = [pc EXCEPT ![r] = "decode"]
    /\ UNCHANGED <<phase, configVars, closed, body, answer, topic, starts, stubUses>>

\* The body does not decode, or one of its three fields is empty.
RejectBody(r) ==
    /\ pc[r] = "decode"
    /\ Reply(r, [status |-> 400])
    /\ UNCHANGED <<phase, configVars, closed, body, topic, starts, stubUses>>

DecodeBody(r) ==
    /\ pc[r] = "decode"
    /\ \E req \in SignRequest : body' = [body EXCEPT ![r] = req]
    /\ pc' = [pc EXCEPT ![r] = "sign"]
    /\ UNCHANGED <<phase, configVars, closed, answer, topic, starts, stubUses>>

\* The stub: it does not look at kmsProvider.
Sign(r) ==
    /\ pc[r] = "sign"
    /\ stubUses' = stubUses \union {<<kmsProvider, appEnv>>}
    /\ pc' = [pc EXCEPT ![r] = "publish"]
    /\ UNCHANGED <<phase, configVars, closed, body, answer, topic, starts>>

EventOf(r) == [payment |-> body[r].payment, chain |-> body[r].chain,
               txHash |-> TxHash(body[r].tx), from |-> r]

Publish_Unchecked(r) ==
    /\ pc[r] = "publish"
    /\ topic' = IF closed THEN topic ELSE Append(topic, EventOf(r))
    /\ pc' = [pc EXCEPT ![r] = "respond"]
    /\ UNCHANGED <<phase, configVars, closed, body, answer, starts, stubUses>>

Publish(r) ==
    /\ pc[r] = "publish"
    /\ ~ closed
    /\ topic' = Append(topic, EventOf(r))
    /\ pc' = [pc EXCEPT ![r] = "respond"]
    /\ UNCHANGED <<phase, configVars, closed, body, answer, starts, stubUses>>

\* The producer is closed: 503, "transaction not broadcast".
PublishRefused(r) ==
    /\ pc[r] = "publish"
    /\ closed
    /\ Reply(r, [status |-> 503])
    /\ UNCHANGED <<phase, configVars, closed, body, topic, starts, stubUses>>

RespondSigned(r) ==
    /\ pc[r] = "respond"
    /\ Reply(r, [status |-> 200, payment |-> body[r].payment, txHash |-> TxHash(body[r].tx)])
    /\ UNCHANGED <<phase, configVars, closed, body, topic, starts, stubUses>>

HandlerStep(r) ==
    \/ RejectBody(r)
    \/ DecodeBody(r)
    \/ Sign(r)
    \/ Publish(r)
    \/ PublishRefused(r)
    \/ RespondSigned(r)

Next ==
    \/ Start
    \/ StopServing
    \/ ShutdownReturns
    \/ CloseProducer
    \/ Die
    \/ \E r \in Requests : Accept(r) \/ HandlerStep(r)

Spec == Init /\ [][Next]_vars

-----------------------------------------------------------------------------
(***************************************************************************)
(* main.go:166-182: no signature without its event.  A caller that gets a  *)
(* signature is told the payment and the hash of the very event that its   *)
(* call published, and a call that was refused published none.             *)
(***************************************************************************)
SignedMeansPublished ==
    \A r \in Requests : answer[r] # None =>
        IF answer[r].status = 200
        THEN \E i \in DOMAIN topic : /\ topic[i].from = r
                                     /\ topic[i].payment = answer[r].payment
                                     /\ topic[i].txHash = answer[r].txHash
        ELSE \A i \in DOMAIN topic : topic[i].from # r

(***************************************************************************)
(* main.go:22-45: whatever the configurations of successive processes, the *)
(* local provider has signed nothing outside a development environment.    *)
(***************************************************************************)
LocalProviderStaysInDevelopment ==
    \A use \in stubUses : use[1] = "local" => use[2] \in DevEnvironments

(***************************************************************************)
(* main.go:150-152, as it is written: the stub is "only reachable after    *)
(* the startup guard above has confirmed we're in a dev environment".  The *)
(* guard looks at the environment only when the provider is local, and     *)
(* the stub signs for every provider.                                      *)
(***************************************************************************)
StubSignsOnlyInDevelopment ==
    \A use \in stubUses : use[2] \in DevEnvironments

=============================================================================
