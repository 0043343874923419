--------------------------- MODULE RequestProofs ----------------------------
(*****************************************************************************)
(* Proofs about DeleteCommand and Request, for any number of concurrent      *)
(* requests and any set of rows: a row is deleted once, the chain of         *)
(* middleware implements the command, the status a client gets is true and   *)
(* is the one logged, and no path deletes without a validated user.          *)
(*****************************************************************************)
EXTENDS Request, TLAPS

-----------------------------------------------------------------------------
(* The delete command and its transaction. *)

\* A transaction that has deleted a row holds it, and the row is still there
\* for everyone else.
HolderInv ==
    \A r \in Request : pc[r] \in {"deleted", "dispatched"} =>
        holder[target[r]] = r /\ target[r] \in stored

DeleteInv == TypeOK /\ HolderInv /\ EventIffGone /\ OneWinner

\* Every step preserves the invariant.
LEMMA DeleteInvStep == DeleteInv /\ [Next]_vars => DeleteInv'
<1> SUFFICES ASSUME DeleteInv, [Next]_vars
             PROVE  DeleteInv'
  OBVIOUS
<1> USE DeleteAssumption DEF DeleteInv, TypeOK, InTx, Ended, Goto
<1>1. ASSUME NEW r \in Request, NEW b \in BOOLEAN, Begin(r, b)
      PROVE  DeleteInv'
  <2>1. /\ UNCHANGED <<stored, initial, holder, outbox, target>>
        /\ pc' = [pc EXCEPT ![r] = pc'[r]]
        /\ pc'[r] \in {"unauthenticated", "invalid", "begun"}
        /\ pc'[r] = "begun" => target[r] \notin Invalid
    BY <1>1 DEF Begin
  <2> QED
    BY <2>1 DEF HolderInv, EventIffGone, OneWinner
<1>2. ASSUME NEW r \in Request, Find(r)
      PROVE  DeleteInv'
  BY <1>2 DEF Find, HolderInv, EventIffGone, OneWinner
<1>3. ASSUME NEW r \in Request, Delete(r)
      PROVE  DeleteInv'
  <2>1. /\ UNCHANGED <<stored, initial, outbox, target>>
        /\ pc' = [pc EXCEPT ![r] = pc'[r]]
        /\ pc[r] = "found"
        /\ holder[target[r]] = Nobody
        /\ \/ /\ pc'[r] = "deleted" /\ target[r] \in stored
              /\ holder' = [holder EXCEPT ![target[r]] = r]
           \/ pc'[r] = "not_found" /\ holder' = holder
    BY <1>3 DEF Delete
  <2>2. TypeOK'
    BY <2>1
  <2>3. HolderInv'
    BY <2>1 DEF HolderInv
  <2>4. EventIffGone' /\ OneWinner'
    BY <2>1 DEF EventIffGone, OneWinner
  <2> QED
    BY <2>2, <2>3, <2>4
<1>4. ASSUME NEW r \in Request, Dispatch(r)
      PROVE  DeleteInv'
  BY <1>4 DEF Dispatch, HolderInv, EventIffGone, OneWinner
<1>5. ASSUME NEW r \in Request, NEW b \in BOOLEAN, Commit(r, b)
      PROVE  DeleteInv'
  <2> DEFINE e == target[r]
  <2>1. /\ UNCHANGED <<initial, target>>
        /\ pc[r] = "dispatched"
        /\ pc' = [pc EXCEPT ![r] = pc'[r]]
        /\ pc'[r] \in {"ok", "failed"}
        /\ stored' = stored \ {e}
        /\ outbox' = [outbox EXCEPT ![e] = @ + 1]
        /\ holder' = [holder EXCEPT ![e] = Nobody]
    BY <1>5 DEF Commit
  <2>2. e \in stored /\ holder[e] = r /\ e \in Entity
    BY <2>1 DEF HolderInv
  <2>3. TypeOK'
    BY <2>1, <2>2
  <2>4. \A q \in Request \ {r} : pc[q] \in {"deleted", "dispatched"} => target[q] # e
    BY <2>2 DEF HolderInv
  <2>5. HolderInv'
    BY <2>1, <2>2, <2>4 DEF HolderInv
  <2>6. outbox[e] = 0
    BY <2>2 DEF EventIffGone
  <2>7. EventIffGone'
    BY <2>1, <2>2, <2>6 DEF EventIffGone
  <2>8. \A q \in Request : pc[q] = "ok" => target[q] # e
    BY <2>2 DEF OneWinner
  <2>9. OneWinner'
    BY <2>1, <2>8 DEF OneWinner
  <2> QED
    BY <2>3, <2>5, <2>7, <2>9
<1>6. ASSUME NEW r \in Request, Abort(r)
      PROVE  DeleteInv'
  <2>1. /\ UNCHANGED <<stored, initial, outbox, target>>
        /\ pc' = [pc EXCEPT ![r] = "failed"]
        /\ holder' = [e \in Entity |-> IF holder[e] = r THEN Nobody ELSE holder[e]]
    BY <1>6 DEF Abort
  <2>2. HolderInv'
    BY <2>1 DEF HolderInv
  <2>3. TypeOK' /\ EventIffGone' /\ OneWinner'
    BY <2>1 DEF EventIffGone, OneWinner
  <2> QED
    BY <2>2, <2>3
<1>7. CASE UNCHANGED vars
  BY <1>7 DEF vars, HolderInv, EventIffGone, OneWinner
<1> QED
  BY <1>1, <1>2, <1>3, <1>4, <1>5, <1>6, <1>7 DEF Next, Progress

\* It holds initially, hence always.
LEMMA DeleteInvCorrect == Spec => []DeleteInv
<1>1. Init => DeleteInv
  BY DeleteAssumption DEF Init, DeleteInv, TypeOK, InTx, Ended, HolderInv, EventIffGone, OneWinner
<1> QED
  BY <1>1, DeleteInvStep, PTL DEF Spec

\* A deleted row has exactly one Deleted event and a row still there has none,
\* for any number of concurrent requests.
THEOREM DeletedOnce == Spec => []EventIffGone
BY DeleteInvCorrect, PTL DEF DeleteInv

\* At most one request is told that it deleted a given row.
THEOREM AtMostOneWinner == Spec => []OneWinner
BY DeleteInvCorrect, PTL DEF DeleteInv

-----------------------------------------------------------------------------
(* The request around it. *)

RequestType ==
    /\ pc \in [Request -> {"new"} \cup InTx \cup Ended]
    /\ kind \in [Request -> Kind]
    /\ stage \in [Request -> {"arrived", "bearer", "access", "handling",
                              "responding", "returned", "done"}]
    /\ user \in [Request -> BOOLEAN]
    /\ header \in [Request -> BOOLEAN]
    /\ renewed \in [Request -> BOOLEAN]
    /\ rw \in [Request -> [status : Nat, wrote : BOOLEAN]]
    /\ wire \in [Request -> Nat]
    /\ tokenSent \in [Request -> BOOLEAN]
    /\ logged \in [Request -> Nat]
    /\ committed \in SUBSET Request

\* The response writer and net/http agree on what was answered, and the header
\* map already held the renewed token by then.
ResponseInv(r) ==
    /\ header[r] = renewed[r]
    /\ rw[r].wrote <=> wire[r] # 0
    /\ rw[r].wrote => rw[r].status = wire[r]
    /\ renewed[r] /\ wire[r] # 0 => tokenSent[r]
    /\ rw[r].wrote <=> stage[r] \in {"responding", "returned", "done"}
    /\ stage[r] = "done" => logged[r] = wire[r]

\* Where the command is while the request is at each stage, and which status
\* each end of it was given.
CommandInv(r) ==
    /\ stage[r] \in {"arrived", "bearer", "access"} => pc[r] = "new"
    /\ stage[r] \in {"responding", "returned", "done"} => pc[r] \notin InTx
    /\ pc[r] \in InTx => user[r]
    /\ pc[r] = "ok" => r \in committed
    /\ r \in committed => user[r] /\ pc[r] \in {"ok", "failed"}
    /\ kind[r] \in Calls /\ wire[r] = 200 => pc[r] = "ok"
    /\ kind[r] \in Calls /\ wire[r] \in {400, 401, 403, 404, 503} => pc[r] \notin {"ok", "failed"}

RequestInv ==
    /\ RequestType
    /\ \A r \in Request : ResponseInv(r) /\ CommandInv(r)

\* Answering for the first time, which is the only time that counts.
LEMMA FirstAnswer ==
    ASSUME RequestInv, NEW r \in Request, NEW code \in Nat \ {0}, WriteHeader(r, code)
    PROVE  /\ rw' \in [Request -> [status : Nat, wrote : BOOLEAN]]
           /\ wire' \in [Request -> Nat]
           /\ tokenSent' \in [Request -> BOOLEAN]
           /\ rw'[r].wrote /\ rw'[r].status = wire'[r]
           /\ wire'[r] = IF rw[r].wrote THEN wire[r] ELSE code
           /\ wire'[r] # 0
           /\ renewed[r] => tokenSent'[r]
           /\ \A q \in Request \ {r} :
                 rw'[q] = rw[q] /\ wire'[q] = wire[q] /\ tokenSent'[q] = tokenSent[q]
<1> USE DEF RequestInv, RequestType, ResponseInv
<1>1. CASE rw[r].wrote
  BY <1>1 DEF WriteHeader
<1>2. CASE ~rw[r].wrote
  <2>1. /\ rw' = [rw EXCEPT ![r] = [status |-> code, wrote |-> TRUE]]
        /\ wire' = [wire EXCEPT ![r] = code]
        /\ tokenSent' = [tokenSent EXCEPT ![r] = header[r]]
    BY <1>2 DEF WriteHeader
  <2> QED
    BY <1>2, <2>1
<1> QED
  BY <1>1, <1>2

\* A middleware's answer, a panic's included, keeps the invariant of the
\* request, provided that it does not contradict what the command did.
LEMMA AnswerStep ==
    ASSUME RequestInv, NEW r \in Request, NEW code \in Nat \ {0}, Answer(r, code),
           pc' \in [Request -> {"new"} \cup InTx \cup Ended],
           \A q \in Request \ {r} : pc'[q] = pc[q],
           pc'[r] \notin InTx,
           pc'[r] = pc[r] \/ (pc[r] \in InTx /\ pc'[r] = "failed"),
           kind[r] \in Calls => code # 200,
           code \in {400, 401, 403, 404, 503} => pc[r] = "new",
           UNCHANGED <<kind, user, header, renewed, logged, committed>>
    PROVE  RequestInv'
<1>1. /\ rw' \in [Request -> [status : Nat, wrote : BOOLEAN]]
      /\ wire' \in [Request -> Nat]
      /\ tokenSent' \in [Request -> BOOLEAN]
      /\ rw'[r].wrote /\ rw'[r].status = wire'[r]
      /\ wire'[r] = IF rw[r].wrote THEN wire[r] ELSE code
      /\ wire'[r] # 0
      /\ renewed[r] => tokenSent'[r]
      /\ \A q \in Request \ {r} :
            rw'[q] = rw[q] /\ wire'[q] = wire[q] /\ tokenSent'[q] = tokenSent[q]
  BY FirstAnswer DEF Answer
<1>2. stage' = [stage EXCEPT ![r] = "returned"]
  BY DEF Answer, Reach
<1>3. RequestType'
  BY <1>1, <1>2 DEF RequestInv, RequestType
<1>4. ResponseInv(r)'
  BY <1>1, <1>2 DEF RequestInv, RequestType, ResponseInv
<1>5. CommandInv(r)'
  BY <1>1, <1>2 DEF RequestInv, RequestType, ResponseInv, CommandInv, InTx, Ended
<1>6. ASSUME NEW q \in Request \ {r}
      PROVE  ResponseInv(q)' /\ CommandInv(q)'
  BY <1>1, <1>2 DEF RequestInv, RequestType, ResponseInv, CommandInv
<1> QED
  BY <1>3, <1>4, <1>5, <1>6 DEF RequestInv

\* A step that only moves the request on keeps the invariant.
LEMMA MoveStep ==
    ASSUME RequestInv, NEW r \in Request, NEW from, NEW to,
           <<from, to>> \in {<<"arrived", "bearer">>, <<"access", "handling">>,
                             <<"responding", "returned">>, <<"bearer", "access">>},
           stage[r] = from, Reach(r, to),
           UNCHANGED <<pc, kind, user, header, renewed, rw, wire, tokenSent, logged, committed>>
    PROVE  RequestInv'
<1>1. stage' = [stage EXCEPT ![r] = to]
  BY DEF Reach
<1>2. RequestType'
  BY <1>1 DEF RequestInv, RequestType
<1>3. ASSUME NEW q \in Request
      PROVE  ResponseInv(q)' /\ CommandInv(q)'
  <2>1. q # r => stage'[q] = stage[q]
    BY <1>1 DEF RequestInv, RequestType
  <2>2. stage'[r] = to
    BY <1>1 DEF RequestInv, RequestType
  <2> QED
    BY <2>1, <2>2 DEF RequestInv, RequestType, ResponseInv, CommandInv
<1> QED
  BY <1>2, <1>3 DEF RequestInv

\* A step of the command keeps the invariant: the request stays where it is
\* and nothing is answered yet.
LEMMA CommandStep ==
    ASSUME RequestInv, NEW r \in Request, stage[r] = "handling",
           pc' \in [Request -> {"new"} \cup InTx \cup Ended],
           \A q \in Request \ {r} : pc'[q] = pc[q],
           pc'[r] \in InTx => user[r],
           \/ /\ committed' = committed
              /\ pc[r] \in {"new"} \cup InTx /\ pc'[r] # "ok"
           \/ /\ committed' = committed \cup {r}
              /\ pc[r] \in InTx /\ pc'[r] \in {"ok", "failed"},
           UNCHANGED httpVars
    PROVE  RequestInv'
<1>1. UNCHANGED <<kind, stage, user, header, renewed, rw, wire, tokenSent, logged>>
  BY DEF httpVars
<1>2. RequestType'
  BY <1>1 DEF RequestInv, RequestType
<1>3. ASSUME NEW q \in Request
      PROVE  ResponseInv(q)'
  BY <1>1 DEF RequestInv, ResponseInv
<1>4. wire[r] = 0 /\ (r \in committed => pc[r] \in {"ok", "failed"}) /\ (pc[r] \in InTx => user[r])
  BY DEF RequestInv, ResponseInv, CommandInv
<1>5. CommandInv(r)'
  BY <1>1, <1>2, <1>4 DEF CommandInv, InTx, Ended, RequestType
<1>6. ASSUME NEW q \in Request \ {r}
      PROVE  CommandInv(q)'
  BY <1>1 DEF RequestInv, CommandInv
<1> QED
  BY <1>2, <1>3, <1>5, <1>6 DEF RequestInv

\* Every step of the chain preserves the invariant.
LEMMA RequestInvStep == RequestInv /\ [RequestNext]_requestVars => RequestInv'
<1> SUFFICES ASSUME RequestInv, [RequestNext]_requestVars
             PROVE  RequestInv'
  OBVIOUS
<1>0. RequestType /\ \A q \in Request : ResponseInv(q) /\ CommandInv(q)
  BY DEF RequestInv
<1>1. ASSUME NEW r \in Request, NEW healthy \in BOOLEAN, Arrive(r, healthy)
      PROVE  RequestInv'
  <2>1. /\ stage[r] = "arrived" /\ pc' = pc
        /\ UNCHANGED <<kind, user, header, renewed, logged, committed>>
    BY <1>1 DEF Arrive, vars
  <2>2. pc[r] = "new"
    BY <1>0, <2>1 DEF CommandInv
  <2>3. ASSUME NEW code \in {200, 204, 404, 500}, Answer(r, code), kind[r] \notin Calls
        PROVE  RequestInv'
    BY <1>0, <2>1, <2>2, <2>3, AnswerStep DEF RequestType, InTx
  <2>4. CASE kind[r] \in Calls /\ Reach(r, "bearer") /\ UNCHANGED <<rw, wire, tokenSent>>
    BY <2>1, <2>4, MoveStep
  <2> QED
    BY <1>1, <2>3, <2>4 DEF Arrive, Calls
<1>2. ASSUME NEW r \in Request, NEW answer, Authenticate(r, answer)
      PROVE  RequestInv'
  <2>1. /\ stage[r] = "bearer" /\ pc' = pc
        /\ UNCHANGED <<kind, logged, committed>>
    BY <1>2 DEF Authenticate, vars
  <2>2. pc[r] = "new"
    BY <1>0, <2>1 DEF CommandInv
  <2>3. CASE Answer(r, 401) /\ UNCHANGED <<user, header, renewed>>
    BY <1>0, <2>1, <2>2, <2>3, AnswerStep DEF RequestType, InTx
  <2>4. CASE Reach(r, "access") /\ UNCHANGED <<user, header, renewed, rw, wire, tokenSent>>
    BY <2>1, <2>4, MoveStep
  <2>5. CASE /\ user' = [user EXCEPT ![r] = TRUE]
             /\ renewed' = [renewed EXCEPT ![r] = answer = "renewed"]
             /\ header' = [header EXCEPT ![r] = answer = "renewed"]
             /\ Reach(r, "access")
             /\ UNCHANGED <<rw, wire, tokenSent>>
    <3>1. stage' = [stage EXCEPT ![r] = "access"]
      BY <2>5 DEF Reach
    <3>2. RequestType'
      BY <1>0, <2>1, <2>5, <3>1 DEF RequestType
    <3>3. ResponseInv(r)' /\ CommandInv(r)'
      BY <1>0, <2>1, <2>2, <2>5, <3>1 DEF RequestType, ResponseInv, CommandInv, InTx
    <3>4. ASSUME NEW q \in Request \ {r}
          PROVE  ResponseInv(q)' /\ CommandInv(q)'
      BY <1>0, <2>1, <2>5, <3>1 DEF RequestType, ResponseInv, CommandInv
    <3> QED
      BY <3>2, <3>3, <3>4 DEF RequestInv
  <2> QED
    BY <1>2, <2>3, <2>4, <2>5 DEF Authenticate
<1>3. ASSUME NEW r \in Request, NEW answer, Authorize(r, answer)
      PROVE  RequestInv'
  <2>1. /\ stage[r] = "access" /\ pc' = pc
        /\ UNCHANGED <<kind, user, header, renewed, logged, committed>>
    BY <1>3 DEF Authorize, vars
  <2>2. pc[r] = "new"
    BY <1>0, <2>1 DEF CommandInv
  <2>3. ASSUME NEW code \in {401, 403, 503}, Answer(r, code)
        PROVE  RequestInv'
    BY <1>0, <2>1, <2>2, <2>3, AnswerStep DEF RequestType, InTx
  <2>4. CASE Reach(r, "handling") /\ UNCHANGED <<rw, wire, tokenSent>>
    BY <2>1, <2>4, MoveStep
  <2> QED
    BY <1>3, <2>3, <2>4 DEF Authorize
<1>4. ASSUME NEW r \in Request, Execute(r)
      PROVE  RequestInv'
  <2>1. stage[r] = "handling" /\ UNCHANGED httpVars
    BY <1>4 DEF Execute
  <2>2. CASE Begin(r, user[r]) /\ committed' = committed
    <3>1. /\ pc[r] = "new"
          /\ pc' = [pc EXCEPT ![r] = pc'[r]]
          /\ pc'[r] \in {"unauthenticated", "invalid", "begun"}
          /\ pc'[r] = "begun" => user[r]
      BY <1>0, <2>2 DEF Begin, Goto, RequestType
    <3>2. /\ pc' \in [Request -> {"new"} \cup InTx \cup Ended]
          /\ \A q \in Request \ {r} : pc'[q] = pc[q]
          /\ pc'[r] \in InTx => user[r]
          /\ pc[r] \in {"new"} \cup InTx /\ pc'[r] # "ok"
      BY <1>0, <3>1 DEF RequestType, InTx, Ended
    <3> QED
      BY <1>0, <2>1, <2>2, <3>2, CommandStep
  <2>3. CASE (Find(r) \/ Delete(r) \/ Dispatch(r)) /\ committed' = committed
    <3>1. /\ pc[r] \in InTx
          /\ pc' = [pc EXCEPT ![r] = pc'[r]]
          /\ pc'[r] \in {"found", "deleted", "dispatched", "not_found"}
      BY <1>0, <2>3 DEF Find, Delete, Dispatch, Goto, RequestType, InTx
    <3>2. user[r]
      BY <1>0, <3>1 DEF CommandInv
    <3> QED
      BY <1>0, <2>1, <2>3, <3>1, <3>2, CommandStep DEF RequestType, InTx, Ended
  <2>4. CASE (\E answered \in BOOLEAN : Commit(r, answered)) /\ committed' = committed \cup {r}
    <3>1. /\ pc[r] \in InTx
          /\ pc' = [pc EXCEPT ![r] = pc'[r]]
          /\ pc'[r] \in {"ok", "failed"}
      BY <1>0, <2>4 DEF Commit, Goto, RequestType, InTx
    <3>2. /\ pc' \in [Request -> {"new"} \cup InTx \cup Ended]
          /\ \A q \in Request \ {r} : pc'[q] = pc[q]
          /\ pc'[r] \notin InTx
      BY <1>0, <3>1 DEF RequestType, InTx, Ended
    <3> QED
      BY <2>1, <2>4, <3>1, <3>2, CommandStep
  <2> QED
    BY <1>4, <2>2, <2>3, <2>4 DEF Execute
<1>5. ASSUME NEW r \in Request, ExecuteFails(r)
      PROVE  RequestInv'
  <2>1. /\ stage[r] = "handling" /\ committed' = committed
        /\ pc[r] \in InTx /\ pc' = [pc EXCEPT ![r] = "failed"]
        /\ UNCHANGED httpVars
    BY <1>5 DEF ExecuteFails, Abort, Goto
  <2> QED
    BY <1>0, <2>1, CommandStep DEF RequestType, InTx, Ended
<1>6. ASSUME NEW r \in Request, Respond(r)
      PROVE  RequestInv'
  <2> DEFINE code == StatusOf(pc[r])
  <2>1. /\ stage[r] = "handling" /\ pc[r] \in Ended /\ pc' = pc
        /\ WriteHeader(r, code)
        /\ stage' = [stage EXCEPT ![r] = "responding"]
        /\ UNCHANGED <<kind, user, header, renewed, logged, committed>>
    BY <1>6 DEF Respond, Reach, vars
  <2>2. /\ code \in {200, 404, 400, 500}
        /\ code = 200 <=> pc[r] = "ok"
        /\ code = 500 <=> pc[r] \in {"failed", "unauthenticated"}
    BY <2>1 DEF StatusOf, Ended
  <2> HIDE DEF code
  <2>3. code \in Nat \ {0}
    BY <2>2
  <2>4. /\ rw' \in [Request -> [status : Nat, wrote : BOOLEAN]]
        /\ wire' \in [Request -> Nat]
        /\ tokenSent' \in [Request -> BOOLEAN]
        /\ rw'[r].wrote /\ rw'[r].status = wire'[r]
        /\ wire'[r] = IF rw[r].wrote THEN wire[r] ELSE code
        /\ renewed[r] => tokenSent'[r]
        /\ \A q \in Request \ {r} :
              rw'[q] = rw[q] /\ wire'[q] = wire[q] /\ tokenSent'[q] = tokenSent[q]
    BY <2>1, <2>3, FirstAnswer
  <2>5. wire'[r] = code
    BY <1>0, <2>1, <2>4 DEF ResponseInv
  <2>6. RequestType'
    BY <1>0, <2>1, <2>4 DEF RequestType
  <2>7. ResponseInv(r)'
    BY <1>0, <2>1, <2>3, <2>4, <2>5 DEF RequestType, ResponseInv
  <2>8. CommandInv(r)'
    BY <1>0, <2>1, <2>2, <2>5 DEF RequestType, CommandInv, InTx, Ended
  <2>9. ASSUME NEW q \in Request \ {r}
        PROVE  ResponseInv(q)' /\ CommandInv(q)'
    BY <1>0, <2>1, <2>4 DEF RequestType, ResponseInv, CommandInv
  <2> QED
    BY <2>6, <2>7, <2>8, <2>9 DEF RequestInv
<1>7. ASSUME NEW r \in Request, Return(r)
      PROVE  RequestInv'
  BY <1>7, MoveStep DEF Return, vars
<1>8. ASSUME NEW r \in Request, Panic(r)
      PROVE  RequestInv'
  <2>1. /\ Answer(r, 500)
        /\ UNCHANGED <<kind, user, header, renewed, logged, committed>>
        /\ \/ pc[r] \in InTx /\ pc' = [pc EXCEPT ![r] = "failed"]
           \/ pc[r] \notin InTx /\ pc' = pc
    BY <1>8 DEF Panic, Abort, Goto, vars
  <2>2. /\ pc' \in [Request -> {"new"} \cup InTx \cup Ended]
        /\ \A q \in Request \ {r} : pc'[q] = pc[q]
        /\ pc'[r] \notin InTx
        /\ pc'[r] = pc[r] \/ (pc[r] \in InTx /\ pc'[r] = "failed")
    BY <1>0, <2>1 DEF RequestType, InTx, Ended
  <2> HIDE DEF RequestType
  <2> QED
    BY <2>1, <2>2, AnswerStep
<1>9. ASSUME NEW r \in Request, Log(r)
      PROVE  RequestInv'
  <2>1. /\ stage[r] = "returned" /\ pc' = pc
        /\ logged' = [logged EXCEPT ![r] = rw[r].status]
        /\ wire' = [wire EXCEPT ![r] = IF @ = 0 THEN 200 ELSE @]
        /\ tokenSent' = [tokenSent EXCEPT ![r] = IF wire[r] = 0 THEN header[r] ELSE @]
        /\ stage' = [stage EXCEPT ![r] = "done"]
        /\ UNCHANGED <<kind, user, header, renewed, rw, committed>>
    BY <1>9 DEF Log, Reach, vars
  <2>2. wire[r] # 0 /\ rw[r].wrote /\ rw[r].status = wire[r]
    BY <1>0, <2>1 DEF ResponseInv
  <2>3. wire' = wire /\ tokenSent' = tokenSent
    BY <1>0, <2>1, <2>2 DEF RequestType
  <2>4. RequestType'
    BY <1>0, <2>1, <2>3 DEF RequestType
  <2>5. ASSUME NEW q \in Request
        PROVE  ResponseInv(q)' /\ CommandInv(q)'
    <3>1. /\ q # r => stage'[q] = stage[q] /\ logged'[q] = logged[q]
          /\ stage'[r] = "done" /\ logged'[r] = rw[r].status
      BY <1>0, <2>1 DEF RequestType
    <3> QED
      BY <1>0, <2>1, <2>2, <2>3, <3>1 DEF ResponseInv, CommandInv
  <2> QED
    BY <2>4, <2>5 DEF RequestInv
<1>10. CASE UNCHANGED requestVars
  BY <1>10 DEF requestVars, httpVars, vars, RequestInv, RequestType, ResponseInv, CommandInv
<1> QED
  BY <1>1, <1>2, <1>3, <1>4, <1>5, <1>6, <1>7, <1>8, <1>9, <1>10 DEF RequestNext, Serve

\* A step of the chain is a step of the command, or leaves it alone.
LEMMA RequestStepRefines == RequestInv /\ [RequestNext]_requestVars => [Next]_vars
<1> SUFFICES ASSUME RequestInv, [RequestNext]_requestVars
             PROVE  [Next]_vars
  OBVIOUS
<1>1. ASSUME NEW r \in Request, Execute(r)
      PROVE  [Next]_vars
  <2>1. user[r] \in BOOLEAN
    BY DEF RequestInv, RequestType
  <2> QED
    BY <1>1, <2>1 DEF Execute, Next, Progress
<1>2. ASSUME NEW r \in Request, ExecuteFails(r) \/ Panic(r)
      PROVE  [Next]_vars
  BY <1>2 DEF ExecuteFails, Panic, Next
<1>3. ASSUME NEW r \in Request, NEW b, Arrive(r, b) \/ Authenticate(r, b) \/ Authorize(r, b)
                                       \/ Respond(r) \/ Return(r) \/ Log(r)
      PROVE  [Next]_vars
  BY <1>3 DEF Arrive, Authenticate, Authorize, Respond, Return, Log
<1>4. CASE UNCHANGED requestVars
  BY <1>4 DEF requestVars
<1> QED
  BY <1>1, <1>2, <1>3, <1>4 DEF RequestNext, Serve

\* The invariant holds initially, hence always.
LEMMA RequestInvCorrect == RequestSpec => []RequestInv
<1>1. RequestInit => RequestInv
  BY DEF RequestInit, Init, RequestInv, RequestType, ResponseInv, CommandInv, InTx, Ended, Kind
<1> QED
  BY <1>1, RequestInvStep, PTL DEF RequestSpec

\* The HTTP chain, with its refusals and its panics, implements the command.
THEOREM RequestImplementsDelete == RequestSpec => Spec
<1>1. RequestInit => Init
  BY DEF RequestInit
<1> QED
  BY <1>1, RequestInvCorrect, RequestStepRefines, PTL DEF RequestSpec, Spec

\* So the event is written if and only if the row is gone, and one request at
\* most wins, whatever the middleware does around the command.
THEOREM RequestDeletesOnce == RequestSpec => [](EventIffGone /\ OneWinner)
BY RequestImplementsDelete, DeletedOnce, AtMostOneWinner, PTL

\* What a client is told about a Delete is true.
THEOREM ClientIsToldTheTruth == RequestSpec => []AnswerIsTrue
<1>1. RequestInv /\ OneWinner => AnswerIsTrue
  BY DEF RequestInv, RequestType, CommandInv, OneWinner, AnswerIsTrue
<1> QED
  BY <1>1, RequestInvCorrect, RequestDeletesOnce, PTL

\* The log has the status the client got, after a panic halfway too.
THEOREM LogIsFaithful == RequestSpec => []LoggedIsSent
<1>1. RequestInv => LoggedIsSent
  BY DEF RequestInv, ResponseInv, LoggedIsSent
<1> QED
  BY <1>1, RequestInvCorrect, PTL

\* A renewed token goes out with every answer.
THEOREM RenewedTokenReachesClient == RequestSpec => []RenewedTokenIsSent
<1>1. RequestInv => RenewedTokenIsSent
  BY DEF RequestInv, ResponseInv, RenewedTokenIsSent
<1> QED
  BY <1>1, RequestInvCorrect, PTL

\* A request that reached the handler of a guarded module was allowed to.
AccessInv ==
    \A r \in Request : (guarded /\ (stage[r] = "handling" \/ pc[r] # "new")) => r \in allowed

LEMMA AccessInvStep == RequestInv /\ AccessInv /\ [RequestNext]_requestVars => AccessInv'
<1> SUFFICES ASSUME RequestInv, AccessInv, [RequestNext]_requestVars
             PROVE  AccessInv'
  OBVIOUS
<1>0. stage \in [Request -> {"arrived", "bearer", "access", "handling",
                             "responding", "returned", "done"}]
  BY DEF RequestInv, RequestType
<1>1. ASSUME NEW r \in Request, NEW to, Reach(r, to), to # "handling",
             UNCHANGED <<pc, guarded, allowed>>
      PROVE  AccessInv'
  BY <1>0, <1>1 DEF AccessInv, Reach
<1>2. ASSUME NEW r \in Request, stage[r] = "handling", UNCHANGED <<stage, guarded, allowed>>,
             \A q \in Request \ {r} : pc'[q] = pc[q]
      PROVE  AccessInv'
  BY <1>2 DEF AccessInv
<1>3. ASSUME NEW r \in Request, NEW healthy \in BOOLEAN, Arrive(r, healthy)
      PROVE  AccessInv'
  <2>1. UNCHANGED <<pc, guarded, allowed>> /\ \E to \in {"returned", "bearer"} : Reach(r, to)
    BY <1>3 DEF Arrive, Answer, vars
  <2> QED
    BY <1>1, <2>1
<1>4. ASSUME NEW r \in Request, NEW answer, Authenticate(r, answer)
      PROVE  AccessInv'
  <2>1. UNCHANGED <<pc, guarded, allowed>> /\ \E to \in {"returned", "access"} : Reach(r, to)
    BY <1>4 DEF Authenticate, Answer, vars
  <2> QED
    BY <1>1, <2>1
<1>5. ASSUME NEW r \in Request, NEW answer, Authorize(r, answer)
      PROVE  AccessInv'
  <2>1. UNCHANGED <<pc, guarded>>
    BY <1>5 DEF Authorize, vars
  <2>2. CASE Reach(r, "returned") /\ UNCHANGED allowed
    BY <1>1, <2>1, <2>2
  <2>3. CASE ~guarded
    BY <2>1, <2>3 DEF AccessInv
  <2>4. CASE guarded /\ Reach(r, "handling") /\ allowed' = allowed \cup {r}
    BY <1>0, <2>1, <2>4 DEF AccessInv, Reach
  <2> QED
    BY <1>5, <2>2, <2>3, <2>4 DEF Authorize, Answer
<1>6. ASSUME NEW r \in Request, Execute(r) \/ ExecuteFails(r)
      PROVE  AccessInv'
  <2>1. stage[r] = "handling" /\ UNCHANGED <<stage, guarded, allowed>>
    BY <1>6 DEF Execute, ExecuteFails, httpVars
  <2>2. pc' = [pc EXCEPT ![r] = pc'[r]]
    BY <1>6 DEF Execute, ExecuteFails, Begin, Find, Delete, Dispatch, Commit, Abort, Goto,
              RequestInv, RequestType
  <2>3. \A q \in Request \ {r} : pc'[q] = pc[q]
    BY <2>2 DEF RequestInv, RequestType
  <2> QED
    BY <1>2, <2>1, <2>3
<1>7. ASSUME NEW r \in Request, Respond(r) \/ Return(r) \/ Log(r)
      PROVE  AccessInv'
  <2>1. /\ UNCHANGED <<pc, guarded, allowed>>
        /\ \E to \in {"responding", "returned", "done"} : Reach(r, to)
    BY <1>7 DEF Respond, Return, Log, vars
  <2> QED
    BY <1>1, <2>1
<1>8. ASSUME NEW r \in Request, Panic(r)
      PROVE  AccessInv'
  <2>1. UNCHANGED <<guarded, allowed>> /\ stage' = [stage EXCEPT ![r] = "returned"]
    BY <1>8 DEF Panic, Answer, Reach
  <2>2. CASE pc' = pc
    BY <1>1, <2>1, <2>2 DEF Reach
  <2>3. CASE pc[r] \in InTx /\ pc' = [pc EXCEPT ![r] = "failed"]
    <3>1. pc[r] # "new"
      BY <2>3 DEF InTx
    <3>2. \A q \in Request \ {r} : pc'[q] = pc[q]
      BY <2>3 DEF RequestInv, RequestType
    <3> QED
      BY <1>0, <2>1, <3>1, <3>2 DEF AccessInv
  <2> QED
    BY <1>8, <2>2, <2>3 DEF Panic, Abort, Goto, vars
<1>9. CASE UNCHANGED requestVars
  BY <1>9 DEF requestVars, httpVars, vars, AccessInv
<1> QED
  BY <1>3, <1>4, <1>5, <1>6, <1>7, <1>8, <1>9 DEF RequestNext, Serve

\* Whatever paths are exempt, nobody deletes without a validated user, nor,
\* where the module asks for authorization, without being allowed to.
THEOREM AnonymousNeverDeletes == RequestSpec => []OnlyUsersDelete
<1>1. RequestInit => AccessInv
  BY DEF RequestInit, Init, AccessInv
<1>2. RequestInv /\ AccessInv => OnlyUsersDelete
  BY DEF RequestInv, RequestType, CommandInv, AccessInv, OnlyUsersDelete
<1> QED
  BY <1>1, <1>2, AccessInvStep, RequestInvCorrect, PTL DEF RequestSpec
=============================================================================
