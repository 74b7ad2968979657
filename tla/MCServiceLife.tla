--------------------------- MODULE MCServiceLife ---------------------------
(***************************************************************************)
(* Instances of ServiceLife for TLC: every service, in every environment   *)
(* that sets at most one of the variables it depends on (the signer two),  *)
(* on a host with and without the containers of docker-compose.yml.        *)
(***************************************************************************)
EXTENDS ServiceLife

MCServices == HTTPServices \union {"listener", "reconciler"}

PortTexts == {Number(9000), Number(8081), Number(0), Number(-1), Number(65536), Seconds(9000),
              Words(<<"http">>)}

IntervalTexts == {Seconds(1), Seconds(2), Seconds(0), Seconds(-1), Number(0)}

TimeoutTexts == {Seconds(15), Seconds(0), Seconds(-1), Number(0), Number(15), Words(<<"long">>)}

BrokerTexts == {Words(<<"a">>), Words(<<"a", "b">>), Words(<<"">>), Words(<<"", "">>)}

TextsOf ==
    [GATEWAY_PORT |-> PortTexts, LEDGER_PORT |-> PortTexts, ROUTER_PORT |-> PortTexts,
     SIGNER_PORT |-> PortTexts, READ_TIMEOUT |-> TimeoutTexts,
     LISTENER_POLL_INTERVAL |-> IntervalTexts,
     RECONCILER_INTERVAL |-> IntervalTexts \union {Number(5), Words(<<"often">>)},
     KAFKA_BROKERS |-> BrokerTexts, LEDGER_KAFKA_GROUP |-> {Words(<<"g">>)},
     KMS_PROVIDER |-> {Words(<<"local">>), Words(<<"aws-kms">>)},
     APP_ENV |-> {Words(<<"dev">>), Words(<<"production">>)}]

Unsets(vs) == [v \in vs |-> Unset]

\* e, and e with one of the variables vs set.
SetOne(e, vs) ==
    {e} \union UNION {{[e EXCEPT ![v] = text] : text \in TextsOf[v]} : v \in vs}

\* An environment holds the variables that the service or its neighbours read.
MCEnvironments ==
    LET servers == Ports \union {"READ_TIMEOUT", "KAFKA_BROKERS", "LEDGER_KAFKA_GROUP",
                                  "KMS_PROVIDER"}
        workers == {"KAFKA_BROKERS", "LISTENER_POLL_INTERVAL", "RECONCILER_INTERVAL"}
    IN  [gateway    |-> SetOne(Unsets(servers), Ports \union {"READ_TIMEOUT", "KAFKA_BROKERS"}),
         ledger     |-> SetOne(Unsets(servers), servers \ {"KMS_PROVIDER"}),
         router     |-> SetOne(Unsets(servers), Ports \union {"READ_TIMEOUT"}),
         signer     |-> UNION {SetOne(e, {"SIGNER_PORT", "READ_TIMEOUT", "KMS_PROVIDER"}) :
                                  e \in SetOne(Unsets(servers \union {"APP_ENV"}), {"APP_ENV"})},
         listener   |-> SetOne(Unsets(workers), {"LISTENER_POLL_INTERVAL"}),
         reconciler |-> SetOne(Unsets(workers), {"RECONCILER_INTERVAL", "KAFKA_BROKERS"})]

\* The host ports of docker-compose.yml.
Compose == {5432, 6379, 8080, 9644, 18081, 18082, 19092}

MCHosts == {{}, Compose}

=============================================================================
