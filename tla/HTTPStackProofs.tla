-------------------------- MODULE HTTPStackProofs ---------------------------
(***************************************************************************)
(* Proofs about the middleware, for every set of requests, of ids, of      *)
(* tokens and of keys, and every course of the clock.                      *)
(*                                                                         *)
(* A request writes in its own place of every variable, which is the lemma *)
(* OthersStay; the inductive invariant IInv says of each request, by how   *)
(* far it is, what is in those places:                                     *)
(*   Identified   the ids of the header, of the context and of the answer; *)
(*   Recorded     nothing is sent before the handler or auth writes, and   *)
(*                what they wrote is what logging finds; a panic passes    *)
(*                logging by;                                              *)
(*   Screened     who got past auth did so with credentials, and who did   *)
(*                not is on the way out with a 401.                        *)
(***************************************************************************)
EXTENDS HTTPStack, TLAPS

Identified ==
    \A r \in Requests :
        /\ pc[r] # "idle" => /\ header[r] = requestID[r]
                             /\ requestID[r] \in RequestIDs
                             /\ call[r].id # None => requestID[r] = call[r].id
        /\ answer[r] # None => pc[r] # "idle" /\ answer[r].id = header[r]

Recorded ==
    \A r \in Requests :
        /\ pc[r] \in {"idle", "auth", "handler"} => answer[r] = None
        /\ pc[r] \in {"wrote", "log"} => answer[r].status = swStatus[r]
        /\ \A line \in log : line.of = r => pc[r] = "returned"

\* What Admit has seen of the credentials in c.
Credentials(r, c) ==
    IF c.bearer # None
    THEN /\ claims[r] = [sub |-> c.bearer.sub, exp |-> c.bearer.exp]
         /\ c.bearer.signedWith = JWTSecret
         /\ claims[r].exp >= checkedAt[r]
    ELSE /\ c.apiKey \in APIKeys
         /\ claims[r] = [sub |-> "apikey", exp |-> checkedAt[r] + KeyLifetime]

Screened ==
    \A r \in Requests :
        call[r].service = "gateway" /\ ~ call[r].health /\ pc[r] \notin {"idle", "auth"} =>
            \/ Credentials(r, call[r])
            \/ pc[r] \in {"log", "returned"} /\ answer[r].status = 401

IInv ==
    /\ TypeOK
    /\ Identified
    /\ Recorded
    /\ Screened
    /\ LoggedStatusIsSent

-----------------------------------------------------------------------------
(***************************************************************************)
(* A step of one request changes nothing of another one.                   *)
(***************************************************************************)
LEMMA OthersStay ==
    ASSUME TypeOK, NEW r \in Requests, Arrive(r) \/ Step(r)
    PROVE  \A q \in Requests \ {r} :
              /\ pc'[q] = pc[q]
              /\ call'[q] = call[q]
              /\ requestID'[q] = requestID[q]
              /\ header'[q] = header[q]
              /\ claims'[q] = claims[q]
              /\ swStatus'[q] = swStatus[q]
              /\ answer'[q] = answer[q]
              /\ checkedAt'[q] = checkedAt[q]
  <1> USE DEF TypeOK, contextVars, Goto, Send, Write
  <1>1. CASE Arrive(r)
    BY <1>1 DEF Arrive, InjectID
  <1>2. CASE HealthCheck(r) \/ Bearer(r) \/ APIKey(r)
    BY <1>2 DEF HealthCheck, Bearer, APIKey, ValidateAPIKey, Admit, Refuse
  <1>3. CASE HandlerWrites(r) \/ HandlerReturns(r) \/ HandlerPanics(r)
    BY <1>3 DEF HandlerWrites, HandlerReturns, HandlerPanics
  <1>4. CASE LogRequest(r) \/ Recover(r) \/ Abort(r)
    BY <1>4 DEF LogRequest, Recover, Abort
  <1> QED
    BY <1>1, <1>2, <1>3, <1>4 DEF Step

(***************************************************************************)
(* The steps of a request after its arrival, by what they do for the       *)
(* request: auth lets it in or writes the 401, and so on.                  *)
(***************************************************************************)
LEMMA AuthStep ==
    ASSUME TypeOK, NEW r \in Requests, HealthCheck(r) \/ Bearer(r) \/ APIKey(r)
    PROVE  /\ pc[r] = "auth"
           /\ UNCHANGED <<now, call, requestID, header, log>>
           /\ \/ /\ Admit(r, None)
                 /\ call[r].health
              \/ /\ ~ call[r].health
                 /\ call[r].bearer # None
                 /\ ValidateToken(call[r].bearer)
                 /\ Admit(r, [sub |-> call[r].bearer.sub, exp |-> call[r].bearer.exp])
              \/ /\ ~ call[r].health
                 /\ call[r].bearer = None
                 /\ call[r].apiKey \in APIKeys
                 /\ Admit(r, [sub |-> "apikey", exp |-> now + KeyLifetime])
              \/ Refuse(r)
  BY DEF HealthCheck, Bearer, APIKey, ValidateAPIKey, Admit, Refuse, contextVars

LEMMA SendType ==
    ASSUME TypeOK, NEW r \in Requests, NEW status \in Statuses \union {401, 500}, Send(r, status)
    PROVE  /\ answer' \in [Requests -> [status : Statuses \union {401, 500},
                                        id : RequestIDs \union {None}] \union {None}]
           /\ answer[r] = None => answer'[r] = [status |-> status, id |-> header[r]]
           /\ answer[r] # None => answer'[r] = answer[r]
  BY DEF TypeOK, Send

(***************************************************************************)
(* Types.                                                                  *)
(***************************************************************************)
LEMMA TypeStep ==
    ASSUME TypeOK, [Next]_vars
    PROVE  TypeOK'
  <1> DEFINE AnswerType == [Requests -> [status : Statuses \union {401, 500},
                                         id : RequestIDs \union {None}] \union {None}]
  <1>8. ASSUME NEW r \in Requests, NEW status \in Statuses \union {401, 500}, Send(r, status)
        PROVE  answer' \in AnswerType
    BY <1>8, SendType
  <1> USE StackAssumption, CallAssumption DEF TypeOK, contextVars, Goto
  <1>1. ASSUME NEW r \in Requests, Arrive(r)
        PROVE  TypeOK'
    <2>1. PICK c \in Calls :
             /\ call' = [call EXCEPT ![r] = c]
             /\ pc' = [pc EXCEPT ![r] = IF c.service \in Authenticating THEN "auth" ELSE "handler"]
             /\ \E id \in IF c.id = None THEN RequestIDs ELSE {c.id} : InjectID(r, id)
      BY <1>1 DEF Arrive
    <2>2. c.id \in RequestIDs \union {None} /\ c # None
      BY DEF Calls
    <2>3. PICK id \in RequestIDs : InjectID(r, id)
      BY <2>1, <2>2
    <2>4. UNCHANGED <<now, claims, swStatus, answer, log, checkedAt>>
      BY <1>1 DEF Arrive
    <2> QED
      BY <2>1, <2>2, <2>3, <2>4 DEF InjectID
  <1>2. ASSUME NEW r \in Requests, HealthCheck(r) \/ Bearer(r) \/ APIKey(r)
        PROVE  TypeOK'
    <2>1. pc[r] = "auth" /\ call[r] \in Calls
      BY <1>2 DEF HealthCheck, Bearer, APIKey, ValidateAPIKey
    <2>2. ASSUME NEW who \in Claims \union {None}, Admit(r, who)
          PROVE  TypeOK'
      BY <2>1, <2>2 DEF Admit
    <2>3. CASE Refuse(r)
      BY <1>8, <2>1, <2>3 DEF Refuse, Write
    <2>4. call[r].bearer # None =>
             [sub |-> call[r].bearer.sub, exp |-> call[r].bearer.exp] \in Claims
      BY <2>1 DEF Calls, Tokens, Claims
    <2>5. [sub |-> "apikey", exp |-> now + KeyLifetime] \in Claims
      BY DEF Claims
    <2> HIDE DEF TypeOK
    <2> QED
      BY <1>2, <2>2, <2>3, <2>4, <2>5, AuthStep
  <1>3. ASSUME NEW r \in Requests, HandlerWrites(r)
        PROVE  TypeOK'
    <2>1. PICK status \in Statuses : Write(r, status)
      BY <1>3 DEF HandlerWrites
    <2>2. answer' \in AnswerType
      BY <1>8, <2>1 DEF Write
    <2>3. swStatus' \in [Requests -> Statuses \union {401}]
      BY <2>1 DEF Write
    <2>4. pc[r] = "handler" /\ pc' = [pc EXCEPT ![r] = "wrote"]
          /\ UNCHANGED <<now, call, contextVars, log>>
      BY <1>3 DEF HandlerWrites
    <2> QED
      BY <2>2, <2>3, <2>4
  <1>4. ASSUME NEW r \in Requests, HandlerReturns(r) \/ HandlerPanics(r) \/ Abort(r)
        PROVE  TypeOK'
    BY <1>4 DEF HandlerReturns, HandlerPanics, Abort
  <1>5. ASSUME NEW r \in Requests, LogRequest(r)
        PROVE  TypeOK'
    BY <1>5 DEF LogRequest
  <1>6. ASSUME NEW r \in Requests, Recover(r)
        PROVE  TypeOK'
    <2>1. answer' \in AnswerType
      BY <1>6, <1>8 DEF Recover
    <2>2. pc[r] = "panicking" /\ pc' = [pc EXCEPT ![r] = "returned"]
          /\ UNCHANGED <<now, call, contextVars, swStatus, log>>
      BY <1>6 DEF Recover
    <2> QED
      BY <2>1, <2>2
  <1>7. CASE Clock \/ UNCHANGED vars
    BY <1>7 DEF Clock, vars
  <1> QED
    BY <1>1, <1>2, <1>3, <1>4, <1>5, <1>6, <1>7 DEF Next, Step

(***************************************************************************)
(* Ids: they are set together, before anything can be sent.                *)
(***************************************************************************)
LEMMA IdentifiedStep ==
    ASSUME TypeOK, Identified, [Next]_vars
    PROVE  Identified'
  <1>1. ASSUME NEW r \in Requests, Arrive(r)
        PROVE  Identified'
    <2>1. PICK c \in Calls :
             /\ call' = [call EXCEPT ![r] = c]
             /\ \E id \in IF c.id = None THEN RequestIDs ELSE {c.id} : InjectID(r, id)
      BY <1>1 DEF Arrive
    <2>2. c.id \in RequestIDs \union {None}
      BY DEF Calls
    <2>3. PICK id \in RequestIDs : InjectID(r, id) /\ (c.id # None => id = c.id)
      BY <2>1, <2>2
    <2>4. call'[r] = c /\ requestID'[r] = id /\ header'[r] = id
      BY <2>1, <2>3 DEF TypeOK, InjectID
    <2>5. answer' = answer /\ answer[r] = None
      BY <1>1 DEF Arrive, Identified
    <2>6. \A q \in Requests \ {r} : /\ pc'[q] = pc[q] /\ call'[q] = call[q]
                                    /\ requestID'[q] = requestID[q] /\ header'[q] = header[q]
      BY <1>1, OthersStay
    <2> QED
      BY <2>3, <2>4, <2>5, <2>6 DEF Identified
  <1>2. ASSUME NEW r \in Requests, Step(r)
        PROVE  Identified'
    <2>1. UNCHANGED <<call, requestID, header>> /\ pc[r] # "idle" /\ pc'[r] # "idle"
      BY <1>2 DEF TypeOK, contextVars, Goto, Step, HealthCheck, Bearer, APIKey, ValidateAPIKey, Admit, Refuse,
         HandlerWrites, HandlerReturns, HandlerPanics, LogRequest, Recover, Abort
    <2>2. answer'[r] = answer[r] \/ \E status \in Statuses \union {401, 500} : Send(r, status)
      BY <1>2 DEF contextVars, Step, HealthCheck, Bearer, APIKey, ValidateAPIKey, Admit, Refuse, Write,
         HandlerWrites, HandlerReturns, HandlerPanics, LogRequest, Recover, Abort
    <2>3. answer'[r] # None => answer'[r].id = header[r]
      <3>1. ASSUME NEW status \in Statuses \union {401, 500}, Send(r, status)
            PROVE  answer'[r] = answer[r] \/ answer'[r].id = header[r]
        <4>1. \/ answer'[r] = answer[r]
              \/ answer'[r] = [status |-> status, id |-> header[r]]
          BY <3>1, SendType
        <4> QED
          BY <4>1
      <3> QED
        BY <2>2, <3>1 DEF Identified
    <2>4. \A q \in Requests \ {r} : pc'[q] = pc[q] /\ answer'[q] = answer[q]
      BY <1>2, OthersStay
    <2> QED
      BY <2>1, <2>3, <2>4 DEF Identified
  <1>3. CASE Clock \/ UNCHANGED vars
    BY <1>3 DEF Clock, vars, contextVars, Identified
  <1> QED
    BY <1>1, <1>2, <1>3 DEF Next

(***************************************************************************)
(* Sending and logging: what each step does to the answer of its request.  *)
(***************************************************************************)
LEMMA RecordedStep ==
    ASSUME TypeOK, Recorded, [Next]_vars
    PROVE  Recorded'
  <1>1. ASSUME NEW r \in Requests, Arrive(r)
        PROVE  Recorded'
    <2>1. pc[r] = "idle" /\ pc'[r] \in {"auth", "handler"} /\ UNCHANGED <<answer, swStatus, log>>
      BY <1>1 DEF Arrive, Goto, TypeOK
    <2>2. \A q \in Requests \ {r} : pc'[q] = pc[q]
      BY <1>1, OthersStay
    <2> QED
      BY <2>1, <2>2 DEF Recorded
  <1>2. ASSUME NEW r \in Requests, LogRequest(r)
        PROVE  Recorded'
    <2>1. /\ pc'[r] = "returned" /\ UNCHANGED <<answer, swStatus>>
          /\ log' = log \union {[of |-> r, status |-> swStatus[r]]}
      BY <1>2 DEF LogRequest, Goto, TypeOK
    <2>2. \A q \in Requests \ {r} : pc'[q] = pc[q]
      BY <1>2, OthersStay DEF Step
    <2> QED
      BY <2>1, <2>2 DEF Recorded
  <1>3. ASSUME NEW r \in Requests, Step(r), ~ LogRequest(r)
        PROVE  Recorded'
    <2>1. UNCHANGED log /\ pc[r] \notin {"idle", "returned"}
      BY <1>3 DEF contextVars, Step, HealthCheck, Bearer, APIKey, ValidateAPIKey, Admit, Refuse,
         HandlerWrites, HandlerReturns, HandlerPanics, Recover, Abort
    <2>2. \/ pc'[r] = "handler" /\ pc[r] = "auth" /\ UNCHANGED <<answer, swStatus>>
          \/ \E status \in Statuses \union {401} :
                pc[r] \in {"auth", "handler"} /\ pc'[r] \in {"wrote", "log"} /\ Write(r, status)
          \/ pc'[r] = "log" /\ pc[r] = "wrote" /\ UNCHANGED <<answer, swStatus>>
          \/ pc'[r] \in {"panicking", "returned", "aborted"}
      BY <1>3 DEF TypeOK, contextVars, Goto, Step, HealthCheck, Bearer, APIKey, ValidateAPIKey, Admit, Refuse,
         HandlerWrites, HandlerReturns, HandlerPanics, Recover, Abort
    <2>3. ASSUME NEW status \in Statuses \union {401}, Write(r, status),
                 pc[r] \in {"auth", "handler"}
          PROVE  answer'[r].status = swStatus'[r]
      <3>1. answer[r] = None
        BY <2>3 DEF Recorded
      <3>2. Send(r, status) /\ swStatus'[r] = status
        BY <2>3 DEF Write, TypeOK
      <3>3. answer'[r] = [status |-> status, id |-> header[r]]
        BY <3>1, <3>2, SendType
      <3> QED
        BY <3>2, <3>3
    <2>4. \A q \in Requests \ {r} : /\ pc'[q] = pc[q] /\ answer'[q] = answer[q]
                                    /\ swStatus'[q] = swStatus[q]
      BY <1>3, OthersStay
    <2> QED
      BY <2>1, <2>2, <2>3, <2>4 DEF Recorded
  <1>4. CASE Clock \/ UNCHANGED vars
    BY <1>4 DEF Clock, vars, Recorded
  <1> QED
    BY <1>1, <1>2, <1>3, <1>4 DEF Next

(***************************************************************************)
(* A line stays true: its request has returned and is answered.            *)
(***************************************************************************)
LEMMA LoggedStep ==
    ASSUME TypeOK, Recorded, LoggedStatusIsSent, [Next]_vars
    PROVE  LoggedStatusIsSent'
  <1>1. ASSUME NEW r \in Requests, LogRequest(r)
        PROVE  LoggedStatusIsSent'
    BY <1>1 DEF LogRequest, Recorded, LoggedStatusIsSent
  <1>2. ASSUME NEW r \in Requests, Arrive(r) \/ (Step(r) /\ ~ LogRequest(r))
        PROVE  LoggedStatusIsSent'
    <2>1. UNCHANGED log /\ pc[r] # "returned"
      BY <1>2 DEF contextVars, Arrive, Step, HealthCheck, Bearer, APIKey, ValidateAPIKey, Admit, Refuse,
         HandlerWrites, HandlerReturns, HandlerPanics, Recover, Abort
    <2>2. \A line \in log : line.of \in Requests \ {r}
      BY <2>1 DEF Recorded, TypeOK
    <2> QED
      BY <1>2, <2>1, <2>2, OthersStay DEF LoggedStatusIsSent
  <1>3. CASE Clock \/ UNCHANGED vars
    BY <1>3 DEF Clock, vars, LoggedStatusIsSent
  <1> QED
    BY <1>1, <1>2, <1>3 DEF Next

(***************************************************************************)
(* Admission.                                                              *)
(***************************************************************************)
LEMMA ScreenedStep ==
    ASSUME TypeOK, Recorded, Screened, [Next]_vars
    PROVE  Screened'
  <1>1. ASSUME NEW r \in Requests, Arrive(r)
        PROVE  Screened'
    <2>1. call'[r].service = "gateway" => pc'[r] = "auth"
      BY <1>1 DEF Arrive, Goto, TypeOK, Authenticating
    <2>2. \A q \in Requests \ {r} : /\ pc'[q] = pc[q] /\ answer'[q] = answer[q]
                                    /\ call'[q] = call[q]
                                    /\ claims'[q] = claims[q] /\ checkedAt'[q] = checkedAt[q]
      BY <1>1, OthersStay
    <2>3. ASSUME NEW q \in Requests \ {r}, call'[q].service = "gateway", ~ call'[q].health,
                 pc'[q] \notin {"idle", "auth"}
          PROVE  \/ Credentials(q, call[q])'
                 \/ pc'[q] \in {"log", "returned"} /\ answer'[q].status = 401
      BY <2>2, <2>3 DEF Screened, Credentials
    <2> QED
      BY <2>1, <2>3 DEF Screened
  <1>2. ASSUME NEW r \in Requests, HealthCheck(r) \/ Bearer(r) \/ APIKey(r)
        PROVE  Screened'
    <2>1. pc[r] = "auth" /\ call' = call /\ call[r] \in Calls
      BY <1>2 DEF TypeOK, HealthCheck, Bearer, APIKey, ValidateAPIKey, Admit, Refuse
    <2>2. ~ call[r].health => \/ Credentials(r, call[r])'
                              \/ pc'[r] \in {"log", "returned"} /\ answer'[r].status = 401
      <3>1. CASE Refuse(r)
        <4>1. Send(r, 401) /\ pc'[r] = "log" /\ answer[r] = None
          BY <2>1, <3>1 DEF Refuse, Write, Goto, TypeOK, Recorded
        <4>2. answer'[r] = [status |-> 401, id |-> header[r]]
          BY <4>1, SendType
        <4> QED
          BY <4>1, <4>2
      <3>2. ASSUME call[r].bearer # None, ValidateToken(call[r].bearer),
                   Admit(r, [sub |-> call[r].bearer.sub, exp |-> call[r].bearer.exp])
            PROVE  Credentials(r, call[r])'
        <4>1. call[r].bearer.exp \in Nat /\ now <= call[r].bearer.exp /\ now \in Nat
          BY <2>1, <3>2, StackAssumption DEF ValidateToken, Calls, Tokens, TypeOK
        <4> QED
          BY <2>1, <3>2, <4>1 DEF Admit, Credentials, ValidateToken, TypeOK
      <3>3. ASSUME call[r].bearer = None, call[r].apiKey \in APIKeys,
                   Admit(r, [sub |-> "apikey", exp |-> now + KeyLifetime])
            PROVE  Credentials(r, call[r])'
        BY <2>1, <3>3 DEF Admit, Credentials, TypeOK
      <3> QED
        BY <1>2, <3>1, <3>2, <3>3, AuthStep
    <2>3. \A q \in Requests \ {r} : /\ pc'[q] = pc[q] /\ answer'[q] = answer[q]
                                    /\ claims'[q] = claims[q] /\ checkedAt'[q] = checkedAt[q]
      BY <1>2, OthersStay DEF Step
    <2> QED
      BY <2>1, <2>2, <2>3 DEF Screened, Credentials
  <1>3. ASSUME NEW r \in Requests, Step(r), ~ (HealthCheck(r) \/ Bearer(r) \/ APIKey(r))
        PROVE  Screened'
    <2>1. UNCHANGED <<call, claims, checkedAt>> /\ pc[r] \notin {"idle", "auth", "returned"}
      BY <1>3 DEF contextVars, Step, HandlerWrites, HandlerReturns, HandlerPanics, LogRequest,
         Recover, Abort
    <2>2. pc[r] = "log" => pc'[r] = "returned" /\ UNCHANGED answer
      BY <1>3 DEF Goto, TypeOK, Step, HandlerWrites, HandlerReturns, HandlerPanics, LogRequest,
         Recover, Abort
    <2>3. \A q \in Requests \ {r} : pc'[q] = pc[q] /\ answer'[q] = answer[q]
      BY <1>3, OthersStay
    <2> QED
      BY <2>1, <2>2, <2>3 DEF Screened, Credentials
  <1>4. CASE Clock \/ UNCHANGED vars
    BY <1>4 DEF Clock, vars, contextVars, Screened, Credentials
  <1> QED
    BY <1>1, <1>2, <1>3, <1>4 DEF Next, Step

-----------------------------------------------------------------------------
LEMMA IInvInit == Init => IInv
  BY StackAssumption, CallAssumption DEF Init, IInv, TypeOK, Identified, Recorded, Screened,
     LoggedStatusIsSent, Statuses

LEMMA IInvStep == IInv /\ [Next]_vars => IInv'
  BY TypeStep, IdentifiedStep, RecordedStep, ScreenedStep, LoggedStep DEF IInv

(***************************************************************************)
(* The inductive invariant holds in every reachable state.                 *)
(***************************************************************************)
THEOREM StackInvariant == Spec => []IInv
  BY IInvInit, IInvStep, PTL DEF Spec

(***************************************************************************)
(* Type correctness of the middleware (rpc.go, auth.go).                   *)
(***************************************************************************)
THEOREM StackTypeCorrect == Spec => []TypeOK
  <1>1. IInv => TypeOK
    BY DEF IInv
  <1> QED
    BY <1>1, StackInvariant, PTL

(***************************************************************************)
(* The log tells the status that the client got (rpc.go:105-119).          *)
(***************************************************************************)
THEOREM TheLogIsTrue == Spec => []LoggedStatusIsSent
  <1>1. IInv => LoggedStatusIsSent
    BY DEF IInv
  <1> QED
    BY <1>1, StackInvariant, PTL

(***************************************************************************)
(* Every answer carries the id of its request (rpc.go:137-147).            *)
(***************************************************************************)
THEOREM AnswersAreIdentified == Spec => []EveryAnswerNamesItsRequest
  <1>1. IInv => EveryAnswerNamesItsRequest
    BY DEF IInv, Identified, EveryAnswerNamesItsRequest
  <1> QED
    BY <1>1, StackInvariant, PTL

(***************************************************************************)
(* A handler of the gateway runs for the admitted only (auth.go:125-171).  *)
(***************************************************************************)
THEOREM HandlersAreGuarded == Spec => []OnlyTheAdmittedAreHandled
  <1>1. IInv => OnlyTheAdmittedAreHandled
    <2> SUFFICES ASSUME IInv, NEW r \in Requests,
                        call[r] # None, call[r].service = "gateway", ~ call[r].health,
                        \/ pc[r] \in {"handler", "wrote", "panicking"}
                        \/ answer[r] # None /\ answer[r].status # 401
                 PROVE  Credentials(r, call[r])
      BY DEF OnlyTheAdmittedAreHandled, Credentials
    <2>1. pc[r] \notin {"idle", "auth"}
      BY DEF IInv, Recorded
    <2> QED
      BY <2>1 DEF IInv, Screened
  <1> QED
    BY <1>1, StackInvariant, PTL

=============================================================================
