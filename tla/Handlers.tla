------------------------------ MODULE Handlers ------------------------------
(***************************************************************************)
(* The handlers that keep no state from one call to the next: the ledger's *)
(* POST /api/internal/entries and the router's POST /api/internal/route    *)
(* and GET /api/internal/chains.  A call is one step; what was asked and   *)
(* answered is kept for the properties to compare.                         *)
(***************************************************************************)
EXTENDS Finality, JournalEntry

CONSTANTS
    EntryRequests,   \* the bodies of calls to the entries endpoint
    ChainNames       \* what a caller may write in the chain of a route request

ASSUME HandlersAssumption == \A req \in EntryRequests : req.amount \in Seq(Characters)

VARIABLES
    lastEntry,       \* the last EntryRequest and the status it was answered with
    lastRoute,       \* the last RouteRequest's chain and its answer
    catalog          \* the chains of the last answer of the chains endpoint

vars == <<lastEntry, lastRoute, catalog>>

Nothing == [status |-> 0]

\* The answer to a body that DecodeJSON does not take: malformed, or with a
\* field that the request does not have.
Undecodable == [status |-> 400]

\* The chain in it is the one that the rule names.
RouteResponse(rule) ==
    [status |-> 200, chain |-> rule.chain, confirmations |-> rule.confirmations,
     finality |-> rule.finality, score |-> rule.confirmations]

\* The chain in it is the key of the registry.
ListedChain(c) ==
    [chain |-> c, confirmations |-> rules[c].confirmations, finality |-> rules[c].finality]

TypeOK ==
    /\ \/ lastEntry \in {Nothing, Undecodable}
       \/ /\ lastEntry.request \in EntryRequests
          /\ lastEntry.status \in {201, 400}
    /\ \/ lastRoute \in {Nothing, Undecodable}
       \/ /\ lastRoute.wanted \in ChainNames \union {""}
          /\ lastRoute.answer.status \in {200, 400}
    /\ \A c \in catalog : c.chain \in Chains

Init ==
    /\ lastEntry = Nothing
    /\ lastRoute = Nothing
    /\ catalog = {}

\* handleCreateEntry.  Bound of the model: one call, as a second one would not
\* know of it.
CreateEntry ==
    /\ lastEntry = Nothing
    /\ \/ \E req \in EntryRequests :
             lastEntry' = [request |-> req, status |-> IF EntryIsAccepted(req) THEN 201 ELSE 400]
       \/ lastEntry' = Undecodable
    /\ UNCHANGED <<lastRoute, catalog>>

\* The chain that handleRoute looks for: solana, unless the caller names one.
Best(wanted) == IF wanted = "" THEN "solana" ELSE wanted

\* The rule of a failed lookup is the zero value.
Answer_IgnoresError(wanted) ==
    IF Unsupported(Best(wanted)) THEN RouteResponse(Rule("", 0, 0, 0, FALSE))
                                 ELSE RouteResponse(rules[Best(wanted)])

Answer(wanted) ==
    IF Unsupported(Best(wanted)) THEN [status |-> 400] ELSE RouteResponse(rules[Best(wanted)])

\* handleRoute.
Route ==
    /\ \/ \E wanted \in ChainNames \union {""} :
             lastRoute' = [wanted |-> wanted, answer |-> Answer(wanted)]
       \/ lastRoute' = Undecodable
    /\ UNCHANGED <<lastEntry, catalog>>

\* An answer that is made with the length it should only have the capacity of.
ListChains_Padded ==
    /\ catalog' = {ListedChain(c) : c \in Chains}
                    \union {[chain |-> "", confirmations |-> 0, finality |-> 0]}
    /\ UNCHANGED <<lastEntry, lastRoute>>

\* handleListChains.
ListChains ==
    /\ catalog' = {ListedChain(c) : c \in Chains}
    /\ UNCHANGED <<lastEntry, lastRoute>>

Next == CreateEntry \/ Route \/ ListChains

Spec == Init /\ [][Next]_vars

-----------------------------------------------------------------------------
Routed == lastRoute \notin {Nothing, Undecodable} /\ lastRoute.answer.status = 200

(***************************************************************************)
(* ledger main.go:207-244, 275-276.  What is posted to the journal is an   *)
(* entry between two accounts over a positive decimal of a known currency, *)
(* for a payment - and every such entry is posted, except for an amount so *)
(* small that its float64 is zero.                                         *)
(***************************************************************************)
JournalTakesItsEntries ==
    lastEntry # Nothing =>
        (lastEntry.status = 201 <=>
            /\ lastEntry # Undecodable
            /\ "" \notin {lastEntry.request.payment, lastEntry.request.debit,
                         lastEntry.request.credit}
            /\ lastEntry.request.debit # lastEntry.request.credit
            /\ PositiveDecimal(lastEntry.request.amount)
            /\ ~ IsTiny(lastEntry.request.amount)
            /\ IsKnownCurrency(lastEntry.request.currency))

(***************************************************************************)
(* router main.go:68, 78-93, 102-107; finality.go:42-100.  The registry    *)
(* and the default beside it are kept by hand, and the two endpoints read  *)
(* different fields of it: the catalog its keys, a route the chain that    *)
(* the rule names.  A route is an entry of the catalog, the one that was   *)
(* asked for; and where none was asked for, no entry of the catalog has a  *)
(* lower score ("lower is better").                                        *)
(***************************************************************************)
RoutesFollowTheCatalog ==
    Routed /\ catalog # {} =>
        LET answer == lastRoute.answer
        IN  /\ lastRoute.wanted \in {"", answer.chain}
            /\ [chain |-> answer.chain, confirmations |-> answer.confirmations,
                finality |-> answer.finality] \in catalog
            /\ lastRoute.wanted = "" => \A c \in catalog : answer.score <= c.confirmations

(***************************************************************************)
(* finality.go:38, 113-119.  The finality that a route promises is the     *)
(* time at which its transaction becomes final: it is with the blocks of   *)
(* that time, and is not with one block less.                              *)
(***************************************************************************)
RouteIsFinalOnTime ==
    Routed =>
        LET c == lastRoute.answer.chain
            blocks == lastRoute.answer.finality \div rules[c].blockTime
        IN  /\ blocks * rules[c].blockTime = lastRoute.answer.finality
            /\ IsFinal(c, blocks)
            /\ ~ IsFinal(c, blocks - 1)

=============================================================================
