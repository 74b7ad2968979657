------------------------------- MODULE Config -------------------------------
(***************************************************************************)
(* What the six config packages make of the environment: envStr, envInt,   *)
(* envList and envDuration, of which every package has its own copy, and   *)
(* the six Load functions, as far as their values decide what a process    *)
(* does.  A service reads its environment once, at its start.              *)
(*                                                                         *)
(* The text of a variable is abstracted to what the parsers tell apart.    *)
(***************************************************************************)
EXTENDS Integers, Sequences

\* Unset or empty: os.Getenv does not distinguish them.
Unset == [kind |-> "unset"]
\* A decimal integer, such as "8080".
Number(n) == [kind |-> "number", value |-> n]
\* A number with a unit, such as "5s" or "-1s"; the value is in seconds.
Seconds(n) == [kind |-> "seconds", value |-> n]
\* Anything else, by the pieces between its commas: "local", "a,b", ",".
Words(pieces) == [kind |-> "words", pieces |-> pieces]

\* strings.Split never returns an empty list.
IsText(text) ==
    \/ text = Unset
    \/ text.kind \in {"number", "seconds"} /\ text.value \in Int
    \/ text.kind = "words" /\ text.pieces \in Seq(STRING) \ {<<>>}

EnvStr(text, fallback) == IF text = Unset THEN fallback ELSE text

\* strconv.Atoi fails on everything but a number.
EnvInt(text, fallback) == IF text.kind = "number" THEN text.value ELSE fallback

\* strings.Split returns at least one piece, which may be empty.
Pieces(text) == IF text.kind = "words" THEN text.pieces ELSE <<text>>

EnvList_WithoutEmpty(text, fallback) ==
    IF text = Unset THEN fallback ELSE SelectSeq(Pieces(text), LAMBDA piece : piece # "")

EnvList(text, fallback) == IF text = Unset THEN fallback ELSE Pieces(text)

\* time.ParseDuration wants a unit, except on "0".
IsDuration(text) == text.kind = "seconds" \/ text = Number(0)

EnvDuration_IgnoresError(text, fallback) ==
    IF text = Unset THEN fallback ELSE IF IsDuration(text) THEN text.value ELSE 0

EnvDuration(text, fallback) == IF IsDuration(text) THEN text.value ELSE fallback

-----------------------------------------------------------------------------
Brokers(env) == EnvList(env.KAFKA_BROKERS, <<"localhost:19092">>)

ReadTimeout(env) == EnvDuration(env.READ_TIMEOUT, 15)

GatewayConfig(env) ==
    [port |-> EnvInt(env.GATEWAY_PORT, 8080),
     brokers |-> Brokers(env),
     readTimeout |-> ReadTimeout(env)]

LedgerConfig(env) ==
    [port |-> EnvInt(env.LEDGER_PORT, 8081),
     brokers |-> Brokers(env),
     group |-> EnvStr(env.LEDGER_KAFKA_GROUP, Words(<<"ledger-service">>)),
     readTimeout |-> ReadTimeout(env)]

ListenerConfig(env) ==
    [brokers |-> Brokers(env),
     interval |-> EnvDuration(env.LISTENER_POLL_INTERVAL, 5)]

ReconcilerConfig(env) ==
    [brokers |-> Brokers(env),
     interval |-> EnvDuration(env.RECONCILER_INTERVAL, 60)]

RouterConfig_CopiedPort(env) ==
    [port |-> EnvInt(env.ROUTER_PORT, 8081),
     readTimeout |-> ReadTimeout(env)]

RouterConfig(env) ==
    [port |-> EnvInt(env.ROUTER_PORT, 8083),
     readTimeout |-> ReadTimeout(env)]

SignerConfig(env) ==
    [port |-> EnvInt(env.SIGNER_PORT, 8084),
     kmsProvider |-> EnvStr(env.KMS_PROVIDER, Words(<<"local">>)),
     brokers |-> Brokers(env),
     readTimeout |-> ReadTimeout(env)]

Load(service, env) ==
    CASE service = "gateway"    -> GatewayConfig(env)
      [] service = "ledger"     -> LedgerConfig(env)
      [] service = "listener"   -> ListenerConfig(env)
      [] service = "reconciler" -> ReconcilerConfig(env)
      [] service = "router"     -> RouterConfig(env)
      [] service = "signer"     -> SignerConfig(env)

=============================================================================
