----------------------------- MODULE HTTPStack ------------------------------
(***************************************************************************)
(* The way of a request through the middleware of its service: recovery,   *)
(* logging, request id and authentication around the handler (pkg/rpc,     *)
(* pkg/auth, and the stacks that the four HTTP services build).            *)
(*                                                                         *)
(* The handler itself is any of those in the repository: it writes its     *)
(* status once, and may panic before or after.  A request is a goroutine;  *)
(* what it shares with others is the clock.  A response goes out with the  *)
(* headers that are set when its status is written, and a second status is *)
(* dropped by net/http.                                                    *)
(***************************************************************************)
EXTENDS Naturals

CONSTANTS
    Requests,      \* the calls, one goroutine each
    RequestIDs,    \* values of X-Request-ID, sent by callers or generated
    Subjects,      \* the subjects of tokens
    Secrets,       \* what a token may be signed with, Altered included
    JWTSecret,     \* cfg.JWTSecret of the gateway
    Keys,          \* what X-API-Key may hold
    APIKeys,       \* cfg.APIKeys of the gateway
    KeyLifetime,   \* the hour that the claims of an API key are good for
    None,          \* no header, no claims, no answer
    MaxTime        \* bound of the model: the last reading of the clock

ASSUME StackAssumption ==
    /\ JWTSecret \in Secrets
    /\ APIKeys \subseteq Keys
    /\ KeyLifetime \in Nat /\ MaxTime \in Nat

VARIABLES
    now,           \* the clock
    pc,            \* pc[r]: how far r is
    call,          \* call[r]: the request
    requestID,     \* requestID[r]: the id in the context of r
    header,        \* header[r]: X-Request-ID in the header map of the response
    claims,        \* claims[r]: the claims in the context of r
    swStatus,      \* swStatus[r]: statusWriter.status
    answer,        \* answer[r]: the response of r as it went out
    log,           \* the lines that LoggingMiddleware wrote
    checkedAt      \* history: checkedAt[r]: when the credentials of r were checked

contextVars == <<requestID, header, claims, checkedAt>>
vars == <<now, pc, call, contextVars, swStatus, answer, log>>

Services == {"gateway", "ledger", "router", "signer"}

\* The stacks: who authenticates, and who recovers from panics.
Authenticating == {"gateway"}

Recovering == {"gateway", "ledger"}

\* A token is its claims and what they are signed with; one that is malformed or
\* was altered is signed with a secret that nobody has.
Tokens == [sub : Subjects, exp : 0 .. MaxTime, signedWith : Secrets]

Calls == [service : Services, health : BOOLEAN, bearer : Tokens \union {None},
          apiKey : Keys \union {None}, id : RequestIDs \union {None}]

\* None marks a request that has not arrived.
ASSUME CallAssumption == None \notin Calls

Claims == [sub : Subjects \union {"apikey"}, exp : Nat]

Statuses == {200, 201, 400, 503}

TypeOK ==
    /\ now \in Nat
    /\ pc \in [Requests -> {"idle", "auth", "handler", "wrote", "panicking", "log",
                            "returned", "aborted"}]
    /\ call \in [Requests -> Calls \union {None}]
    /\ requestID \in [Requests -> RequestIDs \union {None}]
    /\ header \in [Requests -> RequestIDs \union {None}]
    /\ claims \in [Requests -> Claims \union {None}]
    /\ swStatus \in [Requests -> Statuses \union {401}]
    /\ answer \in [Requests -> [status : Statuses \union {401, 500},
                                id : RequestIDs \union {None}] \union {None}]
    /\ log \subseteq [of : Requests, status : Statuses \union {401}]
    /\ checkedAt \in [Requests -> Nat]
    /\ \A r \in Requests : pc[r] = "idle" <=> call[r] = None

Init ==
    /\ now = 0
    /\ pc = [r \in Requests |-> "idle"]
    /\ call = [r \in Requests |-> None]
    /\ requestID = [r \in Requests |-> None]
    /\ header = [r \in Requests |-> None]
    /\ claims = [r \in Requests |-> None]
    /\ swStatus = [r \in Requests |-> 200]
    /\ answer = [r \in Requests |-> None]
    /\ log = {}
    /\ checkedAt = [r \in Requests |-> 0]

Goto(r, step) == pc' = [pc EXCEPT ![r] = step]

\* WriteHeader of the ResponseWriter of net/http.
Send(r, status) ==
    answer' = IF answer[r] = None
              THEN [answer EXCEPT ![r] = [status |-> status, id |-> header[r]]]
              ELSE answer

\* WriteHeader of the statusWriter that LoggingMiddleware puts around it.
Write_Unrecorded(r, status) ==
    /\ UNCHANGED swStatus
    /\ Send(r, status)

Write(r, status) ==
    /\ swStatus' = [swStatus EXCEPT ![r] = status]
    /\ Send(r, status)

-----------------------------------------------------------------------------
\* The layers on the way in.

\* An id that is put into the header when the handler has returned.
InjectID_AfterHandler(r, id) ==
    /\ requestID' = [requestID EXCEPT ![r] = id]
    /\ UNCHANGED header

\* RequestIDMiddleware: the id goes to the context and to the response.
InjectID(r, id) ==
    /\ requestID' = [requestID EXCEPT ![r] = id]
    /\ header' = [header EXCEPT ![r] = id]

\* The outer layers, up to authentication or to the mux: a new statusWriter, and
\* the caller's request id or one from the nanosecond clock.
Arrive(r) ==
    /\ pc[r] = "idle"
    /\ \E c \in Calls :
          /\ call' = [call EXCEPT ![r] = c]
          /\ Goto(r, IF c.service \in Authenticating THEN "auth" ELSE "handler")
          /\ \E id \in IF c.id = None THEN RequestIDs ELSE {c.id} : InjectID(r, id)
    /\ UNCHANGED <<now, claims, swStatus, answer, log, checkedAt>>

\* ValidateToken returns the claims: the signature is ours and they are current.
ValidateToken(token) ==
    /\ token.signedWith = JWTSecret
    /\ now <= token.exp

\* writeAuthError: 401, and the handler is not called.
Refuse_Unreturned(r) ==
    /\ Write(r, 401)
    /\ Goto(r, "handler")
    /\ UNCHANGED <<now, call, contextVars, log>>

Refuse(r) ==
    /\ Write(r, 401)
    /\ Goto(r, "log")
    /\ UNCHANGED <<now, call, contextVars, log>>

Admit(r, who) ==
    /\ claims' = [claims EXCEPT ![r] = who]
    /\ checkedAt' = [checkedAt EXCEPT ![r] = now]
    /\ Goto(r, "handler")
    /\ UNCHANGED <<now, call, requestID, header, swStatus, answer, log>>

HealthCheck(r) ==
    /\ pc[r] = "auth"
    /\ call[r].health
    /\ Admit(r, None)

\* A Bearer header decides alone: an API key beside it is not looked at.
Bearer(r) ==
    /\ pc[r] = "auth"
    /\ ~ call[r].health
    /\ call[r].bearer # None
    /\ IF ValidateToken(call[r].bearer)
       THEN Admit(r, [sub |-> call[r].bearer.sub, exp |-> call[r].bearer.exp])
       ELSE Refuse(r)

ValidateAPIKey(key) == key \in APIKeys

APIKey(r) ==
    /\ pc[r] = "auth"
    /\ ~ call[r].health
    /\ call[r].bearer = None
    /\ IF ValidateAPIKey(call[r].apiKey)
       THEN Admit(r, [sub |-> "apikey", exp |-> now + KeyLifetime])
       ELSE Refuse(r)

-----------------------------------------------------------------------------
\* The handler, and the layers on the way out.

HandlerWrites(r) ==
    /\ pc[r] = "handler"
    /\ \E status \in Statuses : Write(r, status)
    /\ Goto(r, "wrote")
    /\ UNCHANGED <<now, call, contextVars, log>>

HandlerReturns(r) ==
    /\ pc[r] = "wrote"
    /\ Goto(r, "log")
    /\ UNCHANGED <<now, call, contextVars, swStatus, answer, log>>

HandlerPanics(r) ==
    /\ pc[r] \in {"handler", "wrote"}
    /\ Goto(r, "panicking")
    /\ UNCHANGED <<now, call, contextVars, swStatus, answer, log>>

\* LoggingMiddleware, when next has returned.
LogRequest(r) ==
    /\ pc[r] = "log"
    /\ log' = log \union {[of |-> r, status |-> swStatus[r]]}
    /\ Goto(r, "returned")
    /\ UNCHANGED <<now, call, contextVars, swStatus, answer>>

\* A recovery between logging and the handler.
Recover_Inside(r) ==
    /\ pc[r] = "panicking"
    /\ call[r].service \in Recovering
    /\ Write(r, 500)
    /\ Goto(r, "log")
    /\ UNCHANGED <<now, call, contextVars, log>>

Recover_Silently(r) ==
    /\ pc[r] = "panicking"
    /\ call[r].service \in Recovering
    /\ Goto(r, "returned")
    /\ UNCHANGED <<now, call, contextVars, swStatus, answer, log>>

\* RecoveryMiddleware is the outermost layer: the panic has passed the others by.
Recover(r) ==
    /\ pc[r] = "panicking"
    /\ call[r].service \in Recovering
    /\ Send(r, 500)
    /\ Goto(r, "returned")
    /\ UNCHANGED <<now, call, contextVars, swStatus, log>>

\* Nobody recovers but net/http, which closes the connection.
Abort(r) ==
    /\ pc[r] = "panicking"
    /\ call[r].service \notin Recovering
    /\ Goto(r, "aborted")
    /\ UNCHANGED <<now, call, contextVars, swStatus, answer, log>>

Clock ==
    /\ now < MaxTime
    /\ now' = now + 1
    /\ UNCHANGED <<pc, call, contextVars, swStatus, answer, log>>

Step(r) ==
    \/ HealthCheck(r)
    \/ Bearer(r)
    \/ APIKey(r)
    \/ HandlerWrites(r)
    \/ HandlerReturns(r)
    \/ HandlerPanics(r)
    \/ LogRequest(r)
    \/ Recover(r)
    \/ Abort(r)

Next ==
    \/ \E r \in Requests : Arrive(r)
    \/ \E r \in Requests : Step(r)
    \/ Clock

Spec == Init /\ [][Next]_vars

\* The goroutine of a request is scheduled; no layer blocks.
FairSpec == Spec /\ \A r \in Requests : WF_vars(Step(r))

-----------------------------------------------------------------------------
(***************************************************************************)
(* rpc.go:105-119, 161-169.  The status in the log is the status that the  *)
(* client got, whoever wrote it - the handler, or auth in its place.       *)
(***************************************************************************)
LoggedStatusIsSent ==
    \A line \in log : answer[line.of].status = line.status

(***************************************************************************)
(* rpc.go:137-147.  Every response that goes out, a refusal by auth and    *)
(* the 500 of a panic included, carries the id that its handler sees in    *)
(* the context, which is the caller's own if the caller sent one.          *)
(***************************************************************************)
EveryAnswerNamesItsRequest ==
    \A r \in Requests : answer[r] # None =>
        /\ answer[r].id = requestID[r]
        /\ requestID[r] \in RequestIDs
        /\ call[r].id # None => requestID[r] = call[r].id

(***************************************************************************)
(* auth.go:125-171.  The gateway's handlers run, and its API answers with  *)
(* anything but 401 and 500, only for a caller who was admitted: with the  *)
(* claims of a token of ours that was current when it was checked, or with *)
(* those of an API key that was sent without a token.                      *)
(***************************************************************************)
OnlyTheAdmittedAreHandled ==
    \A r \in Requests :
        LET c == call[r]
        IN  /\ c # None /\ c.service = "gateway" /\ ~ c.health
            /\ \/ pc[r] \in {"handler", "wrote", "panicking"}
               \/ answer[r] # None /\ answer[r].status # 401
            => IF c.bearer # None
               THEN /\ claims[r] = [sub |-> c.bearer.sub, exp |-> c.bearer.exp]
                    /\ c.bearer.signedWith = JWTSecret
                    /\ claims[r].exp >= checkedAt[r]
               ELSE /\ c.apiKey \in APIKeys
                    /\ claims[r] = [sub |-> "apikey", exp |-> checkedAt[r] + KeyLifetime]

(***************************************************************************)
(* rpc.go:121-135.  Every request is answered, by 500 if its handler       *)
(* panicked too early for an answer of its own, and in the router and the  *)
(* signer, which do not recover, by the end of its connection.             *)
(***************************************************************************)
EveryRequestIsAnswered ==
    \A r \in Requests :
        pc[r] # "idle" ~> \/ answer[r] # None
                          \/ pc[r] = "aborted" /\ call[r].service \in {"router", "signer"}

=============================================================================
