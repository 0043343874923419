------------------------------ MODULE Request -------------------------------
(***************************************************************************)
(* A request to a generated module, from the HTTP server to the command    *)
(* and back: Logger -> Recovery -> CORS -> mux -> bearer authentication -> *)
(* (where the module adds it) application authorization -> the Delete      *)
(* handler, which runs DeleteCommand.  Several requests run at once.       *)
(*                                                                         *)
(* Two parties keep a status: the responseWriter of the logging middleware *)
(* and, behind it, net/http, for which the first WriteHeader counts and a  *)
(* handler that writes nothing has answered 200.                           *)
(***************************************************************************)
EXTENDS DeleteCommand

VARIABLES
    guarded,    \* whether the handler is behind AppAuthorizationMiddleware
    kind,       \* what each request asks for
    stage,      \* how far it has come
    user,       \* whether a validated user is in its context
    header,     \* whether X-Renewed-Token is set in the header map
    renewed,    \* whether the auth service renewed its token
    rw,         \* the logging responseWriter: status and wroteHeader
    wire,       \* the status net/http sent, 0 before
    tokenSent,  \* whether X-Renewed-Token went with it
    logged,     \* the status of the log line, 0 before
    committed,  \* the requests whose transaction committed
    allowed     \* the requests the authorization service allowed

httpVars == <<kind, stage, user, header, renewed, rw, wire, tokenSent, logged>>
requestVars == <<vars, guarded, httpVars, committed, allowed>>

\* A CORS preflight, a path the mux does not know, GET /debug/monit, a Delete
\* call, and one on a path the module exempts from bearer authentication.
Kind == {"preflight", "unknown", "monit", "call", "exempt"}
Calls == {"call", "exempt"}

RequestInit ==
    /\ Init
    /\ guarded \in BOOLEAN
    /\ kind \in [Request -> Kind]
    /\ stage = [r \in Request |-> "arrived"]
    /\ user = [r \in Request |-> FALSE]
    /\ header = [r \in Request |-> FALSE]
    /\ renewed = [r \in Request |-> FALSE]
    /\ rw = [r \in Request |-> [status |-> 200, wrote |-> FALSE]]
    /\ wire = [r \in Request |-> 0]
    /\ tokenSent = [r \in Request |-> FALSE]
    /\ logged = [r \in Request |-> 0]
    /\ committed = {} /\ allowed = {}

-----------------------------------------------------------------------------
(* Writing the response. *)

\* Mutant of WriteHeader: the status of a second call is recorded.
WriteHeaderAgain(r, code) ==
    /\ rw' = [rw EXCEPT ![r] = [status |-> code, wrote |-> TRUE]]
    /\ wire' = [wire EXCEPT ![r] = IF @ = 0 THEN code ELSE @]
    /\ tokenSent' = [tokenSent EXCEPT ![r] = IF wire[r] = 0 THEN header[r] ELSE @]

\* responseWriter.WriteHeader: only the first call counts and is passed on.
WriteHeader(r, code) ==
    IF rw[r].wrote
    THEN UNCHANGED <<rw, wire, tokenSent>>
    ELSE /\ rw' = [rw EXCEPT ![r] = [status |-> code, wrote |-> TRUE]]
         /\ wire' = [wire EXCEPT ![r] = IF @ = 0 THEN code ELSE @]
         /\ tokenSent' = [tokenSent EXCEPT ![r] = IF wire[r] = 0 THEN header[r] ELSE @]

Reach(r, where) == stage' = [stage EXCEPT ![r] = where]

\* A middleware, or a route of the mux, answers.
Answer(r, code) ==
    /\ WriteHeader(r, code)
    /\ Reach(r, "returned")

-----------------------------------------------------------------------------
(* The chain. *)

\* Logger and Recovery wrap; CORS answers a preflight; the mux routes, to the
\* health checks, to the module's handler or to nothing.
Arrive(r, healthy) ==
    /\ stage[r] = "arrived"
    /\ \/ kind[r] = "preflight" /\ Answer(r, 204)
       \/ kind[r] = "unknown" /\ Answer(r, 404)
       \/ kind[r] = "monit" /\ Answer(r, IF healthy THEN 200 ELSE 500)
       \/ kind[r] \in Calls /\ Reach(r, "bearer") /\ UNCHANGED <<rw, wire, tokenSent>>
    /\ UNCHANGED <<vars, guarded, kind, user, header, renewed, logged, committed, allowed>>

\* Mutant of Authenticate: the renewed token is set once the handler returned.
AuthenticateThenSet(r, answer) ==
    /\ stage[r] = "bearer"
    /\ \/ /\ kind[r] = "exempt"
          /\ Reach(r, "access")
          /\ UNCHANGED <<user, renewed, rw, wire, tokenSent>>
       \/ /\ kind[r] = "call" /\ answer = "refused"
          /\ Answer(r, 401)
          /\ UNCHANGED <<user, renewed>>
       \/ /\ kind[r] = "call" /\ answer \in {"valid", "renewed"}
          /\ user' = [user EXCEPT ![r] = TRUE]
          /\ renewed' = [renewed EXCEPT ![r] = answer = "renewed"]
          /\ Reach(r, "access")
          /\ UNCHANGED <<rw, wire, tokenSent>>
    /\ UNCHANGED <<vars, guarded, kind, header, logged, committed, allowed>>

\* BearerAuthMiddleware: an exempt path goes through as it is; otherwise no
\* token, or one the auth service refuses or cannot check, is a 401, and the
\* header of a renewed token is set before the handler runs.
Authenticate(r, answer) ==
    /\ stage[r] = "bearer"
    /\ \/ /\ kind[r] = "exempt"
          /\ Reach(r, "access")
          /\ UNCHANGED <<user, header, renewed, rw, wire, tokenSent>>
       \/ /\ kind[r] = "call" /\ answer = "refused"
          /\ Answer(r, 401)
          /\ UNCHANGED <<user, header, renewed>>
       \/ /\ kind[r] = "call" /\ answer \in {"valid", "renewed"}
          /\ user' = [user EXCEPT ![r] = TRUE]
          /\ renewed' = [renewed EXCEPT ![r] = answer = "renewed"]
          /\ header' = [header EXCEPT ![r] = answer = "renewed"]
          /\ Reach(r, "access")
          /\ UNCHANGED <<rw, wire, tokenSent>>
    /\ UNCHANGED <<vars, guarded, kind, logged, committed, allowed>>

\* AppAuthorizationMiddleware, where there is one: no user is a 401, a refusal
\* a 403, a check that fails a 503.
Authorize(r, answer) ==
    /\ stage[r] = "access"
    /\ \/ /\ ~guarded
          /\ Reach(r, "handling")
          /\ UNCHANGED <<rw, wire, tokenSent, allowed>>
       \/ /\ guarded /\ user[r] /\ answer = "allowed"
          /\ Reach(r, "handling")
          /\ allowed' = allowed \cup {r}
          /\ UNCHANGED <<rw, wire, tokenSent>>
       \/ guarded /\ ~user[r] /\ Answer(r, 401) /\ UNCHANGED allowed
       \/ guarded /\ user[r] /\ answer = "denied" /\ Answer(r, 403) /\ UNCHANGED allowed
       \/ guarded /\ user[r] /\ answer = "unknown" /\ Answer(r, 503) /\ UNCHANGED allowed
    /\ UNCHANGED <<vars, guarded, kind, user, header, renewed, logged, committed>>

\* The Connect handler runs the command, with the user of the context.
Execute(r) ==
    /\ stage[r] = "handling"
    /\ \/ Begin(r, user[r]) /\ UNCHANGED committed
       \/ (Find(r) \/ Delete(r) \/ Dispatch(r)) /\ UNCHANGED committed
       \/ (\E answered \in BOOLEAN : Commit(r, answered)) /\ committed' = committed \cup {r}
    /\ UNCHANGED <<guarded, httpVars, allowed>>

\* A statement fails, or the client goes away and the context is done.
ExecuteFails(r) ==
    /\ stage[r] = "handling"
    /\ Abort(r)
    /\ UNCHANGED <<guarded, httpVars, committed, allowed>>

\* Mutant of StatusOf: an error that is not a domain error is the client's.
StatusOfUnmapped(end) ==
    CASE end = "ok" -> 200
      [] end = "not_found" -> 404
      [] end \in {"invalid", "failed", "unauthenticated"} -> 400

\* connectErrorFrom: domain errors have a code of their own, every other error
\* (no user in the context among them) is internal.  The statuses are those of
\* the Connect protocol.
StatusOf(end) ==
    CASE end = "ok" -> 200
      [] end = "not_found" -> 404
      [] end = "invalid" -> 400
      [] end \in {"failed", "unauthenticated"} -> 500

\* The interceptor logs the error, the handler's answer is being written.
Respond(r) ==
    /\ stage[r] = "handling"
    /\ pc[r] \in Ended
    /\ WriteHeader(r, StatusOf(pc[r]))
    /\ Reach(r, "responding")
    /\ UNCHANGED <<vars, guarded, kind, user, header, renewed, logged, committed, allowed>>

Return(r) ==
    /\ stage[r] = "responding"
    /\ Reach(r, "returned")
    /\ UNCHANGED <<vars, guarded, kind, user, header, renewed, rw, wire, tokenSent, logged, committed, allowed>>

\* A panic below Recovery, in a health function too: the deferred Rollback ends
\* an open transaction, and the recovered panic is answered with a 500, if
\* nothing was answered yet.
Panic(r) ==
    /\ \/ stage[r] \in {"bearer", "access", "handling", "responding"}
       \/ stage[r] = "arrived" /\ kind[r] = "monit"
    /\ IF pc[r] \in InTx THEN Abort(r) ELSE UNCHANGED vars
    /\ Answer(r, 500)
    /\ UNCHANGED <<guarded, kind, user, header, renewed, logged, committed, allowed>>

\* The handler returned: net/http has sent a status by now, and the logger
\* writes its line.
Log(r) ==
    /\ stage[r] = "returned"
    /\ logged' = [logged EXCEPT ![r] = rw[r].status]
    /\ wire' = [wire EXCEPT ![r] = IF @ = 0 THEN 200 ELSE @]
    /\ tokenSent' = [tokenSent EXCEPT ![r] = IF wire[r] = 0 THEN header[r] ELSE @]
    /\ Reach(r, "done")
    /\ UNCHANGED <<vars, guarded, kind, user, header, renewed, rw, committed, allowed>>

Serve(r) ==
    \/ \E healthy \in BOOLEAN : Arrive(r, healthy)
    \/ \E answer \in {"refused", "valid", "renewed"} : Authenticate(r, answer)
    \/ \E answer \in {"allowed", "denied", "unknown"} : Authorize(r, answer)
    \/ Execute(r) \/ Respond(r) \/ Return(r) \/ Log(r)

RequestNext == \E r \in Request : Serve(r) \/ ExecuteFails(r) \/ Panic(r)

\* The goroutine of a request runs until it returns; a row lock that is freed
\* again and again is granted in turn.
RequestSpec == RequestInit /\ [][RequestNext]_requestVars
FairRequestSpec == RequestSpec /\ \A r \in Request : SF_requestVars(Serve(r))

-----------------------------------------------------------------------------
\* The client can believe the status: after a 200 to a Delete the row is gone
\* and this request deleted it, and after any 4xx or a 503 this request has
\* changed nothing.  (After a 500 it may have: the commit's answer was lost.)
AnswerIsTrue ==
    \A r \in Request : kind[r] \in Calls =>
        /\ wire[r] = 200 => r \in committed /\ target[r] \notin stored
        /\ wire[r] \in {400, 401, 403, 404, 503} => r \notin committed

\* "Logger (Outermost) -> Sees the 500 generated by the recovery": the log line
\* carries the status the client got, also when the handler panics halfway
\* through its answer.
LoggedIsSent == \A r \in Request : stage[r] = "done" => logged[r] = wire[r]

\* A token that the auth service renewed reaches the client whatever becomes of
\* the request: refused, failed, panicking or served.
RenewedTokenIsSent ==
    \A r \in Request : (renewed[r] /\ wire[r] # 0) => tokenSent[r]

\* Only a request with a validated user deletes, also behind a path that skips
\* bearer authentication, and in a module with application authorization only
\* one that was allowed to.
OnlyUsersDelete == \A r \in committed : user[r] /\ (guarded => r \in allowed)

\* Every request is answered and logged, however many wait for one row.
EveryRequestIsAnswered == \A r \in Request : <>(stage[r] = "done")
=============================================================================
