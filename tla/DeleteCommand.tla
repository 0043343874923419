---------------------------- MODULE DeleteCommand ---------------------------
(***************************************************************************)
(* The Delete<Entity>Command of the aggregate slice, run by concurrent     *)
(* requests: find the row, delete it, write its Deleted event to the       *)
(* outbox, all in one transaction at the default READ COMMITTED level, at  *)
(* which a DELETE waits for the transaction holding the row and then looks *)
(* at the row again.                                                       *)
(***************************************************************************)
EXTENDS Naturals, FiniteSets

CONSTANTS
    Entity,   \* ids the repository may hold, and ids it does not accept
    Invalid,  \* the ids ParseID refuses (id <= 0)
    Request,  \* concurrent calls of Execute
    Nobody    \* no request

ASSUME DeleteAssumption ==
    /\ Invalid \subseteq Entity
    /\ Nobody \notin Request

VARIABLES
    stored,   \* the committed rows
    initial,  \* the rows there were at the beginning
    holder,   \* the transaction that has deleted the row and not ended
    outbox,   \* committed Deleted events of each row
    pc,       \* where each request is
    target    \* the row it is to delete

vars == <<stored, initial, holder, outbox, pc, target>>

InTx == {"begun", "found", "deleted", "dispatched"}
Ended == {"ok", "unauthenticated", "invalid", "not_found", "failed"}

\* Types, and "a bad request never holds a connection": a transaction is open
\* only for an id that ParseID accepts.
TypeOK ==
    /\ initial \in SUBSET (Entity \ Invalid)
    /\ stored \in SUBSET initial
    /\ holder \in [Entity -> Request \cup {Nobody}]
    /\ outbox \in [Entity -> Nat]
    /\ pc \in [Request -> {"new"} \cup InTx \cup Ended]
    /\ target \in [Request -> Entity]
    /\ \A r \in Request : pc[r] \in InTx => target[r] \notin Invalid

Init ==
    /\ initial \in SUBSET (Entity \ Invalid)
    /\ stored = initial
    /\ holder = [e \in Entity |-> Nobody]
    /\ outbox = [e \in Entity |-> 0]
    /\ pc = [r \in Request |-> "new"]
    /\ target \in [Request -> Entity]

-----------------------------------------------------------------------------
Goto(r, where) == pc' = [pc EXCEPT ![r] = where]

\* Mutant of Begin: the user is left for the middleware to check.
BeginAnonymous(r, authenticated) ==
    /\ pc[r] = "new"
    /\ Goto(r, IF target[r] \in Invalid THEN "invalid" ELSE "begun")
    /\ UNCHANGED <<stored, initial, holder, outbox, target>>

\* The user and the id are checked before the transaction opens.
Begin(r, authenticated) ==
    /\ pc[r] = "new"
    /\ Goto(r, IF ~authenticated THEN "unauthenticated"
               ELSE IF target[r] \in Invalid THEN "invalid" ELSE "begun")
    /\ UNCHANGED <<stored, initial, holder, outbox, target>>

\* FindByID reads the committed row, even one that another transaction has
\* deleted but not committed.
Find(r) ==
    /\ pc[r] = "begun"
    /\ Goto(r, IF target[r] \in stored THEN "found" ELSE "not_found")
    /\ UNCHANGED <<stored, initial, holder, outbox, target>>

\* Mutant of Delete: RowsAffected is not looked at.
DeleteUnchecked(r) ==
    /\ pc[r] = "found"
    /\ holder[target[r]] = Nobody
    /\ Goto(r, "deleted")
    /\ holder' = [holder EXCEPT ![target[r]] = r]
    /\ UNCHANGED <<stored, initial, outbox, target>>

\* Delete waits for the row's holder; no row left to delete is ErrNotFound.
Delete(r) ==
    /\ pc[r] = "found"
    /\ holder[target[r]] = Nobody
    /\ IF target[r] \in stored
       THEN Goto(r, "deleted") /\ holder' = [holder EXCEPT ![target[r]] = r]
       ELSE Goto(r, "not_found") /\ UNCHANGED holder
    /\ UNCHANGED <<stored, initial, outbox, target>>

\* Dispatch inserts the event in the same transaction.
Dispatch(r) ==
    /\ pc[r] = "deleted"
    /\ Goto(r, "dispatched")
    /\ UNCHANGED <<stored, initial, holder, outbox, target>>

\* Mutant of Commit: a commit whose answer is lost keeps the row's lock.
CommitKeepsLock(r, answered) ==
    /\ pc[r] = "dispatched"
    /\ Goto(r, IF answered THEN "ok" ELSE "failed")
    /\ stored' = stored \ {target[r]}
    /\ outbox' = [outbox EXCEPT ![target[r]] = @ + 1]
    /\ holder' = IF answered THEN [holder EXCEPT ![target[r]] = Nobody] ELSE holder
    /\ UNCHANGED <<initial, target>>

\* WithTransaction commits: the row goes and the event appears together.  If
\* the answer is lost the caller gets an error although both happened.
Commit(r, answered) ==
    /\ pc[r] = "dispatched"
    /\ Goto(r, IF answered THEN "ok" ELSE "failed")
    /\ stored' = stored \ {target[r]}
    /\ outbox' = [outbox EXCEPT ![target[r]] = @ + 1]
    /\ holder' = [holder EXCEPT ![target[r]] = Nobody]
    /\ UNCHANGED <<initial, target>>

\* A query, Dispatch or COMMIT fails, the context is done or the process dies:
\* the transaction is rolled back.
Abort(r) ==
    /\ pc[r] \in InTx
    /\ Goto(r, "failed")
    /\ holder' = [e \in Entity |-> IF holder[e] = r THEN Nobody ELSE holder[e]]
    /\ UNCHANGED <<stored, initial, outbox, target>>

Progress(r) ==
    \/ \E b \in BOOLEAN : Begin(r, b) \/ Commit(r, b)
    \/ Find(r) \/ Delete(r) \/ Dispatch(r)

Next == \E r \in Request : Progress(r) \/ Abort(r)

Spec == Init /\ [][Next]_vars

-----------------------------------------------------------------------------
\* "The event is published if and only if the row is gone": each row that was
\* there and is not has exactly one Deleted event, every other row none,
\* however many requests delete it at once.
EventIffGone ==
    \A e \in Entity : outbox[e] = IF e \in initial \ stored THEN 1 ELSE 0

\* Of the requests for one row at most one is told it deleted it, and it is
\* told so only if the row is gone.
OneWinner ==
    \A r, q \in Request :
        pc[r] = "ok" => /\ target[r] \notin stored
                        /\ (pc[q] = "ok" /\ target[q] = target[r]) => q = r
=============================================================================
