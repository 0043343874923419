----------------------------- MODULE UnitOfWork -----------------------------
(***************************************************************************)
(* UnitOfWork.WithTransaction: root transactions taken from the pool and   *)
(* nested ones mapped to savepoints of the transaction in the context.     *)
(*                                                                         *)
(* Each request (a goroutine) has a program side, the stack of its         *)
(* WithTransaction calls with the writes each believes it made, and a      *)
(* server side, the savepoints of its connection with the writes they      *)
(* hold.  The two are kept apart because a rollback to a savepoint may     *)
(* never reach the server.  pgx and Postgres are external.                 *)
(***************************************************************************)
EXTENDS Naturals, Sequences, FiniteSets, SequencesExt

CONSTANTS
    Request,          \* the concurrent callers
    Write,            \* the writes they may make, each at most once
    PoolSize,         \* connections of the pool
    MaxDepth,         \* bound on the nesting of WithTransaction
    MaxCalls,         \* bound on the nested calls of one unit of work
    MaxFaults,        \* bound on failing statements, expiries, lost connections
    NestedDeadlines   \* may fn derive a context with a deadline of its own?

ASSUME UnitOfWorkAssumption ==
    /\ PoolSize \in Nat \ {0}
    /\ MaxDepth \in Nat \ {0}
    /\ MaxCalls \in Nat
    /\ MaxFaults \in Nat
    /\ NestedDeadlines \in BOOLEAN

VARIABLES
    pc,        \* "idle", "entering" WithTransaction or "running" fn
    stack,     \* the frames of the open calls: the tx each put in the context
    live,      \* how many frames, outermost first, have a context not done
    conns,     \* connections of the pool each request holds
    alive,     \* is the connection of the request usable?
    aborted,   \* is its server transaction in the failed state?
    layers,    \* the server's savepoints, outermost first, and their writes
    calls,     \* nested calls made by the current unit of work
    durable,   \* the writes that are committed
    promised,  \* the writes of units of work that returned nil
    dropped,   \* the writes of calls that returned an error
    doubtful,  \* of these, the write sets of root calls whose Commit returned one
    faults

vars == <<pc, stack, live, conns, alive, aborted, layers, calls,
          durable, promised, dropped, doubtful, faults>>
serverVars == <<conns, alive, aborted, layers>>
resultVars == <<durable, promised, dropped, doubtful>>

\* at is the index of the frame's savepoint among the server's layers.
Frame == [writes : SUBSET Write, at : Nat]

\* The connections out of the pool: one per request and per count it holds.
Taken == UNION {{c} \X (1..conns[c]) : c \in Request}
InUse == Cardinality(Taken)

\* Types, and the bound of the pool: the requests never hold more connections
\* than it has.
TypeOK ==
    /\ pc \in [Request -> {"idle", "entering", "running"}]
    /\ stack \in [Request -> Seq(Frame)]
    /\ live \in [Request -> 0..MaxDepth]
    /\ conns \in [Request -> Nat]
    /\ alive \in [Request -> BOOLEAN]
    /\ aborted \in [Request -> BOOLEAN]
    /\ layers \in [Request -> Seq(SUBSET Write)]
    /\ calls \in [Request -> 0..MaxCalls]
    /\ durable \subseteq Write /\ promised \subseteq Write /\ dropped \subseteq Write
    /\ doubtful \subseteq SUBSET Write
    /\ faults \in 0..MaxFaults
    /\ InUse <= PoolSize

Init ==
    /\ pc = [c \in Request |-> "idle"]
    /\ stack = [c \in Request |-> <<>>]
    /\ live = [c \in Request |-> 0]
    /\ conns = [c \in Request |-> 0]
    /\ alive = [c \in Request |-> FALSE]
    /\ aborted = [c \in Request |-> FALSE]
    /\ layers = [c \in Request |-> <<>>]
    /\ calls = [c \in Request |-> 0]
    /\ durable = {} /\ promised = {} /\ dropped = {} /\ doubtful = {}
    /\ faults = 0

-----------------------------------------------------------------------------
Depth(c) == Len(stack[c])
Top(c) == Last(stack[c])

PoolHasConnection == InUse < PoolSize

\* A statement sent with the context of the innermost frame reaches the server
\* only if that context is not done and the connection is usable.
Reachable(c) == live[c] = Depth(c) /\ alive[c]

\* Writes the server holds for c, whatever the savepoint, and writes the open
\* calls of c believe they made.
Held(c) == UNION Range(layers[c])
Believed(c) == UNION {stack[c][k].writes : k \in DOMAIN stack[c]}
Used == durable \cup dropped \cup UNION {Held(c) \cup Believed(c) : c \in Request}

\* WithTransaction is called: by a request, or by fn of an open unit of work.
Call(c) ==
    /\ \/ pc[c] = "idle" /\ calls' = [calls EXCEPT ![c] = 0]
       \/ /\ pc[c] = "running" /\ Depth(c) < MaxDepth /\ calls[c] < MaxCalls
          /\ calls' = [calls EXCEPT ![c] = @ + 1]
    /\ pc' = [pc EXCEPT ![c] = "entering"]
    /\ UNCHANGED <<stack, live, serverVars, resultVars, faults>>

\* Mutant of BeginRoot: a connection is opened without asking the pool.
BeginRootUnpooled(c) ==
    /\ pc[c] = "entering"
    /\ stack[c] = <<>>
    /\ pc' = [pc EXCEPT ![c] = "running"]
    /\ stack' = [stack EXCEPT ![c] = <<[writes |-> {}, at |-> 1]>>]
    /\ live' = [live EXCEPT ![c] = 1]
    /\ conns' = [conns EXCEPT ![c] = 1]
    /\ alive' = [alive EXCEPT ![c] = TRUE]
    /\ aborted' = [aborted EXCEPT ![c] = FALSE]
    /\ layers' = [layers EXCEPT ![c] = <<{}>>]
    /\ UNCHANGED <<calls, resultVars, faults>>

\* No transaction in the context: pool.Begin waits for a connection.
BeginRoot(c) ==
    /\ pc[c] = "entering"
    /\ stack[c] = <<>>
    /\ PoolHasConnection
    /\ pc' = [pc EXCEPT ![c] = "running"]
    /\ stack' = [stack EXCEPT ![c] = <<[writes |-> {}, at |-> 1]>>]
    /\ live' = [live EXCEPT ![c] = 1]
    /\ conns' = [conns EXCEPT ![c] = 1]
    /\ alive' = [alive EXCEPT ![c] = TRUE]
    /\ aborted' = [aborted EXCEPT ![c] = FALSE]
    /\ layers' = [layers EXCEPT ![c] = <<{}>>]
    /\ UNCHANGED <<calls, resultVars, faults>>

\* "cannot start root transaction": the context is done while the call waits
\* for a connection, or BEGIN fails; fn does not run.
BeginRootFails(c) ==
    /\ pc[c] = "entering"
    /\ stack[c] = <<>>
    /\ faults < MaxFaults
    /\ pc' = [pc EXCEPT ![c] = "idle"]
    /\ faults' = faults + 1
    /\ UNCHANGED <<stack, live, serverVars, calls, resultVars>>

\* Mutant of BeginNested: a transaction of its own instead of a savepoint.
BeginNestedFromPool(c) ==
    /\ pc[c] = "entering"
    /\ stack[c] # <<>>
    /\ PoolHasConnection
    /\ pc' = [pc EXCEPT ![c] = "running"]
    /\ stack' = [stack EXCEPT ![c] = Append(@, [writes |-> {}, at |-> Len(layers[c]) + 1])]
    /\ live' = [live EXCEPT ![c] = @ + 1]
    /\ conns' = [conns EXCEPT ![c] = @ + 1]
    /\ layers' = [layers EXCEPT ![c] = Append(@, {})]
    /\ UNCHANGED <<alive, aborted, calls, resultVars, faults>>

\* A transaction in the context: SAVEPOINT on the same connection.
BeginNested(c) ==
    /\ pc[c] = "entering"
    /\ stack[c] # <<>>
    /\ Reachable(c) /\ ~aborted[c]
    /\ pc' = [pc EXCEPT ![c] = "running"]
    /\ stack' = [stack EXCEPT ![c] = Append(@, [writes |-> {}, at |-> Len(layers[c]) + 1])]
    /\ live' = [live EXCEPT ![c] = @ + 1]
    /\ layers' = [layers EXCEPT ![c] = Append(@, {})]
    /\ UNCHANGED <<conns, alive, aborted, calls, resultVars, faults>>

\* "cannot start nested transaction": the caller's fn goes on with the error.
BeginNestedFails(c) ==
    /\ pc[c] = "entering"
    /\ stack[c] # <<>>
    /\ ~Reachable(c) \/ aborted[c]
    /\ pc' = [pc EXCEPT ![c] = "running"]
    /\ UNCHANGED <<stack, live, serverVars, calls, resultVars, faults>>

\* fn writes through Executor(ctx), which is the innermost transaction.
Exec(c, w) ==
    /\ pc[c] = "running"
    /\ Reachable(c) /\ ~aborted[c]
    /\ w \notin Used
    /\ stack' = [stack EXCEPT ![c][Depth(c)].writes = @ \cup {w}]
    /\ layers' = [layers EXCEPT ![c][Len(layers[c])] = @ \cup {w}]
    /\ UNCHANGED <<pc, live, conns, alive, aborted, calls, resultVars, faults>>

\* Executor(ctx) outside any transaction is the pool: the write commits alone,
\* on a connection that goes back at once.
ExecOnPool(c, w) ==
    /\ pc[c] = "idle"
    /\ PoolHasConnection
    /\ w \notin Used
    /\ durable' = durable \cup {w}
    /\ promised' = promised \cup {w}
    /\ UNCHANGED <<pc, stack, live, serverVars, calls, dropped, doubtful, faults>>

\* A statement of fn is refused by the server.  fn may return the error or not.
ExecFails(c) ==
    /\ pc[c] = "running"
    /\ faults < MaxFaults
    /\ Reachable(c) /\ ~aborted[c]
    /\ aborted' = [aborted EXCEPT ![c] = TRUE]
    /\ faults' = faults + 1
    /\ UNCHANGED <<pc, stack, live, conns, alive, layers, calls, resultVars>>

\* The context of frame k + 1, and those derived from it, are done.  Without
\* deadlines of their own all frames share the context of the root call.
Expire(c, k) ==
    /\ pc[c] = "running"
    /\ faults < MaxFaults
    /\ k < live[c]
    /\ k = 0 \/ NestedDeadlines
    /\ live' = [live EXCEPT ![c] = k]
    /\ faults' = faults + 1
    /\ UNCHANGED <<pc, stack, serverVars, calls, resultVars>>

\* The connection breaks, or pgx closes it because the context was done while
\* a statement was under way: the server rolls everything back.
LoseConnection(c) ==
    /\ pc[c] = "running"
    /\ faults < MaxFaults
    /\ alive[c]
    /\ alive' = [alive EXCEPT ![c] = FALSE]
    /\ layers' = [layers EXCEPT ![c] = <<>>]
    /\ faults' = faults + 1
    /\ UNCHANGED <<pc, stack, live, conns, aborted, calls, resultVars>>

-----------------------------------------------------------------------------
(* The call returns. *)

\* The frame is popped; what is left of live belongs to the outer frames.
Pop(c, outer) ==
    /\ stack' = [stack EXCEPT ![c] = outer]
    /\ live' = [live EXCEPT ![c] = IF @ < Depth(c) THEN @ ELSE Depth(c) - 1]
    /\ pc' = [pc EXCEPT ![c] = IF outer = <<>> THEN "idle" ELSE "running"]

\* The root transaction ends: its connection goes back to the pool, or is
\* closed and replaced.
EndRoot(c) ==
    /\ conns' = [conns EXCEPT ![c] = 0]
    /\ alive' = [alive EXCEPT ![c] = FALSE]
    /\ aborted' = [aborted EXCEPT ![c] = FALSE]
    /\ layers' = [layers EXCEPT ![c] = <<>>]

\* Mutant of RollbackToSavepoint: the whole transaction is rolled back.
RollbackAll(c) ==
    /\ aborted' = [aborted EXCEPT ![c] = FALSE]
    /\ layers' = [layers EXCEPT ![c] = [i \in 1..(Top(c).at - 1) |-> {}]]

\* Mutant of RollbackToSavepoint: nothing is rolled back.
RollbackNothing(c) ==
    /\ aborted' = [aborted EXCEPT ![c] = FALSE]
    /\ UNCHANGED layers

\* ROLLBACK TO SAVEPOINT undoes the layers from the frame's savepoint on and
\* leaves the failed state.
RollbackToSavepoint(c) ==
    /\ aborted' = [aborted EXCEPT ![c] = FALSE]
    /\ layers' = [layers EXCEPT ![c] = SubSeq(@, 1, Top(c).at - 1)]

\* fn of a nested call returns an error: the deferred Rollback is sent if the
\* context allows it; its own error is ignored.
NestedError(c) ==
    /\ pc[c] = "running"
    /\ Depth(c) > 1
    /\ Pop(c, Front(stack[c]))
    /\ dropped' = dropped \cup Top(c).writes
    /\ IF Reachable(c) THEN RollbackToSavepoint(c) ELSE UNCHANGED <<aborted, layers>>
    /\ UNCHANGED <<conns, alive, calls, durable, promised, doubtful, faults>>

\* RELEASE SAVEPOINT merges the layers from at on into the one below.
Released(la, at) ==
    [SubSeq(la, 1, at - 1) EXCEPT ![at - 1] = @ \cup UNION {la[i] : i \in at..Len(la)}]

\* fn of a nested call returns nil and RELEASE SAVEPOINT succeeds: the writes
\* now belong to the outer call.
NestedRelease(c) ==
    /\ pc[c] = "running"
    /\ Depth(c) > 1
    /\ Reachable(c) /\ ~aborted[c]
    /\ Pop(c, [Front(stack[c]) EXCEPT ![Depth(c) - 1].writes = @ \cup Top(c).writes])
    /\ layers' = [layers EXCEPT ![c] = Released(@, Top(c).at)]
    /\ UNCHANGED <<conns, alive, aborted, calls, resultVars, faults>>

\* RELEASE fails: pgx has marked the nested transaction closed, so the deferred
\* Rollback does nothing.
NestedReleaseFails(c) ==
    /\ pc[c] = "running"
    /\ Depth(c) > 1
    /\ ~Reachable(c) \/ aborted[c]
    /\ Pop(c, Front(stack[c]))
    /\ dropped' = dropped \cup Top(c).writes
    /\ UNCHANGED <<serverVars, calls, durable, promised, doubtful, faults>>

\* fn of the root call returns an error: ROLLBACK, or the connection is closed
\* and the server rolls back.
RootError(c) ==
    /\ pc[c] = "running"
    /\ Depth(c) = 1
    /\ Pop(c, <<>>)
    /\ EndRoot(c)
    /\ dropped' = dropped \cup Top(c).writes
    /\ UNCHANGED <<calls, durable, promised, doubtful, faults>>

\* "cannot commit root transaction": fn returned nil but COMMIT is not performed
\* (a context done, a connection lost, a failed transaction, a constraint
\* checked at the end): nothing of the transaction is left.
RootCommitFails(c) ==
    /\ pc[c] = "running"
    /\ Depth(c) = 1
    /\ Pop(c, <<>>)
    /\ EndRoot(c)
    /\ dropped' = dropped \cup Top(c).writes
    /\ doubtful' = doubtful \cup {Top(c).writes}
    /\ UNCHANGED <<calls, durable, promised, faults>>

\* COMMIT is performed.  If its answer is lost the call returns the same error
\* as RootCommitFails, and its caller cannot tell the two apart.
RootCommit(c, answered) ==
    /\ pc[c] = "running"
    /\ Depth(c) = 1
    /\ Reachable(c) /\ ~aborted[c]
    /\ Pop(c, <<>>)
    /\ EndRoot(c)
    /\ durable' = durable \cup Held(c)
    /\ \/ /\ answered
          /\ promised' = promised \cup Top(c).writes
          /\ UNCHANGED <<dropped, doubtful, faults>>
       \/ /\ ~answered
          /\ faults < MaxFaults
          /\ dropped' = dropped \cup Top(c).writes
          /\ doubtful' = doubtful \cup {Top(c).writes}
          /\ faults' = faults + 1
          /\ UNCHANGED promised
    /\ UNCHANGED calls

Begin(c) == BeginRoot(c) \/ BeginNested(c) \/ BeginNestedFails(c)

Return(c) ==
    \/ NestedError(c) \/ NestedRelease(c) \/ NestedReleaseFails(c)
    \/ RootError(c) \/ RootCommitFails(c) \/ \E answered \in BOOLEAN : RootCommit(c, answered)

Step(c) ==
    \/ Call(c) \/ Begin(c) \/ BeginRootFails(c) \/ Return(c)
    \/ \E w \in Write : Exec(c, w) \/ ExecOnPool(c, w)
    \/ ExecFails(c) \/ LoseConnection(c)
    \/ \E k \in 0..(MaxDepth - 1) : Expire(c, k)

Next == \E c \in Request : Step(c)

\* The pool serves its waiters in turn (so a connection free again and again
\* is eventually had), and fn returns.
Fairness == \A c \in Request : SF_vars(Begin(c)) /\ WF_vars(Return(c))

Spec == Init /\ [][Next]_vars
FairSpec == Spec /\ Fairness

-----------------------------------------------------------------------------
\* A call that returned nil kept its promise: every write of a unit of work
\* whose root call returned nil is durable, nested calls included.
PromisedIsDurable == promised \subseteq durable

\* What an error of WithTransaction means, root or nested and whatever the
\* caller did next: "cannot commit root transaction" may hide a COMMIT that was
\* performed, but then the whole unit of work is durable, and never a part of it
\* or of the nested calls it gave up; after any other error nothing is.
ErrorIsAllOrNothing ==
    /\ (dropped \ UNION doubtful) \cap durable = {}
    /\ \A W \in doubtful : W \subseteq durable \/ W \cap durable = {}

\* A unit of work uses one connection however deep it nests, so callers never
\* wait for each other in a circle: every call gets its turn, even with a
\* pool of one.
EveryCallBegins == \A c \in Request : pc[c] = "entering" ~> pc[c] # "entering"
=============================================================================
