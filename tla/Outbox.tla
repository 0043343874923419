------------------------------- MODULE Outbox -------------------------------
(***************************************************************************)
(* The transactional outbox: command transactions insert rows into a       *)
(* module's <name>.event table (PostgresOutboxDispatcher.Dispatch), and    *)
(* one EventsRelay per replica of the process polls that table, publishes  *)
(* the rows it has locked to the SystemEventBus and marks them published.  *)
(*                                                                         *)
(* One step of this module is one call of processBatch that can be told    *)
(* apart from outside: the locking SELECT, one bus.Publish, the UPDATE     *)
(* followed by COMMIT, and each way the batch can fail.  Postgres and the  *)
(* bus are external: they are modelled by what the relay asks of them.     *)
(***************************************************************************)
EXTENDS Naturals, FiniteSets

CONSTANTS
    Event,       \* the events (and their rows), in the order they are raised
    Relay,       \* the replicas, each running one EventsRelay
    Limit,       \* LIMIT of the relay's SELECT (100 in the code)
    OccurredAt,  \* occurred_at of each row, at the resolution of the column
    Aggregate,   \* the aggregate that emitted each event
    MaxFaults    \* bound on crashes, cancellations and failing calls

ASSUME OutboxAssumption ==
    /\ Event \subseteq Nat
    /\ IsFiniteSet(Event)
    /\ IsFiniteSet(Relay)
    /\ Limit \in Nat \ {0}
    /\ OccurredAt \in [Event -> Nat]
    /\ MaxFaults \in Nat

VARIABLES
    row,        \* the life of each outbox row
    commands,   \* the groups of rows inserted by one command transaction
    deployed,   \* the replicas this installation has
    up,         \* the relays whose process is running
    cancelled,  \* the relays whose context has been cancelled
    locked,     \* the rows each relay's open transaction holds FOR UPDATE
    sent,       \* the rows of that batch published so far (eventIDs)
    copies,     \* how many times the bus accepted each event
    wasted,     \* how many of those copies belong to a batch rolled back
    orphaned,   \* the batches still locked by sessions whose client is gone
    skipped,    \* the rows passed over because of them before the bus saw them
    faults      \* faults so far

vars == <<row, commands, deployed, up, cancelled, locked, sent, copies, wasted,
          orphaned, skipped, faults>>
relayVars == <<deployed, up, cancelled, locked, sent, orphaned, skipped>>
busVars == <<copies, wasted>>

\* "inserted" is a row of a command transaction that has not ended yet,
\* "pending" one with published_at IS NULL that everyone can read.
RowState == {"new", "inserted", "aborted", "pending", "published"}

\* Types, and the back-pressure bound: a batch never holds more than Limit rows.
TypeOK ==
    /\ row \in [Event -> RowState]
    /\ commands \subseteq SUBSET Event
    /\ deployed \subseteq Relay
    /\ up \subseteq Relay
    /\ cancelled \subseteq Relay
    /\ locked \in [Relay -> {B \in SUBSET Event : IsFiniteSet(B) /\ Cardinality(B) <= Limit}]
    /\ sent \in [Relay -> SUBSET Event]
    /\ copies \in [Event -> Nat]
    /\ wasted \in [Event -> Nat]
    /\ orphaned \subseteq SUBSET Event
    /\ skipped \subseteq Event
    /\ faults \in 0..MaxFaults

Init ==
    /\ row = [e \in Event |-> "new"]
    /\ commands = {}
    /\ deployed \in SUBSET Relay \ {{}}
    /\ up = deployed
    /\ cancelled = {}
    /\ locked = [r \in Relay |-> {}]
    /\ sent = [r \in Relay |-> {}]
    /\ copies = [e \in Event |-> 0]
    /\ wasted = [e \in Event |-> 0]
    /\ orphaned = {}
    /\ skipped = {}
    /\ faults = 0

-----------------------------------------------------------------------------
(* The writing side: a command's transaction. *)

\* Dispatch inserts the events of one command in one multi-row INSERT, on the
\* executor of the unit of work: nothing is visible outside its transaction.
Dispatch(E) ==
    /\ E # {}
    /\ \A e \in E : row[e] = "new"
    /\ row' = [e \in Event |-> IF e \in E THEN "inserted" ELSE row[e]]
    /\ commands' = commands \cup {E}
    /\ UNCHANGED <<relayVars, busVars, faults>>

\* The unit of work commits: the rows appear together.
CommandCommit(E) ==
    /\ E \in commands
    /\ \A e \in E : row[e] = "inserted"
    /\ row' = [e \in Event |-> IF e \in E THEN "pending" ELSE row[e]]
    /\ UNCHANGED <<commands, relayVars, busVars, faults>>

\* The unit of work rolls back: its rows are never seen.
CommandRollback(E) ==
    /\ E \in commands
    /\ \A e \in E : row[e] = "inserted"
    /\ row' = [e \in Event |-> IF e \in E THEN "aborted" ELSE row[e]]
    /\ UNCHANGED <<commands, relayVars, busVars, faults>>

-----------------------------------------------------------------------------
(* The reading side: EventsRelay.processBatch. *)

\* Mutants of Selectable: no FOR UPDATE SKIP LOCKED; rows inserted outside the
\* command's transaction, so seen before it commits.
SelectableLocked == {e \in Event : row[e] = "pending"}
SelectableUncommitted == {e \in Event : /\ row[e] \in {"inserted", "pending"}
                                        /\ \A r \in Relay : e \notin locked[r]
                                        /\ \A B \in orphaned : e \notin B}

\* The rows FOR UPDATE SKIP LOCKED can return: no session holds them, be its
\* client alive or not.
Selectable == {e \in Event : /\ row[e] = "pending"
                             /\ \A r \in Relay : e \notin locked[r]
                             /\ \A B \in orphaned : e \notin B}

\* The rows the bus has not seen yet that ORDER BY puts before the end of batch
\* B and SKIP LOCKED leaves out, because a session without a client holds them.
PassedOver(B) ==
    {d \in UNION orphaned : copies[d] = 0 /\ \E b \in B : OccurredAt[d] <= OccurredAt[b]}

\* Mutant of IsBatch: no ORDER BY.
IsBatchUnordered(B) ==
    /\ B # {}
    /\ B \subseteq Selectable
    /\ Cardinality(B) <= Limit
    /\ Cardinality(B) < Limit => B = Selectable

\* ORDER BY occurred_at ASC LIMIT n: rows with equal keys come in any order.
IsBatch(B) ==
    /\ B # {}
    /\ B \subseteq Selectable
    /\ Cardinality(B) <= Limit
    /\ Cardinality(B) < Limit => B = Selectable
    /\ \A b \in B, e \in Selectable \ B : OccurredAt[b] <= OccurredAt[e]

\* A tick opens a transaction and locks a batch; a relay does one at a time.
Select(r, B) ==
    /\ r \in up
    /\ r \notin cancelled
    /\ locked[r] = {}
    /\ IsBatch(B)
    /\ locked' = [locked EXCEPT ![r] = B]
    /\ skipped' = skipped \cup PassedOver(B)
    /\ UNCHANGED <<row, commands, deployed, up, cancelled, sent, orphaned, busVars, faults>>

\* The tick finds nothing to do: the loop is empty, the UPDATE is skipped and
\* the transaction commits.
IdleTick(r) ==
    /\ r \in up
    /\ r \notin cancelled
    /\ locked[r] = {}
    /\ Selectable = {}
    /\ UNCHANGED vars

\* Mutant of IsNextRow: the rows come in any order.
IsAnyRow(r, e) == e \in locked[r] \ sent[r]

\* rows.Next yields the rows in the order of the SELECT.
IsNextRow(r, e) ==
    /\ e \in locked[r] \ sent[r]
    /\ \A d \in locked[r] \ sent[r] : OccurredAt[e] <= OccurredAt[d]

\* The bus accepts the next row; its id joins eventIDs.  The bus does not look
\* at the context, so rows already read are published after a cancellation.
Publish(r, e) ==
    /\ r \in up
    /\ IsNextRow(r, e)
    /\ sent' = [sent EXCEPT ![r] = @ \cup {e}]
    /\ copies' = [copies EXCEPT ![e] = @ + 1]
    /\ UNCHANGED <<row, commands, deployed, up, cancelled, locked, orphaned, skipped, wasted, faults>>

\* Mutant of MarkAndCommit: the rows are marked before all of them are sent.
MarkEarly(r) ==
    /\ r \in up
    /\ r \notin cancelled
    /\ sent[r] # {}
    /\ row' = [e \in Event |-> IF e \in locked[r] THEN "published" ELSE row[e]]
    /\ locked' = [locked EXCEPT ![r] = {}]
    /\ sent' = [sent EXCEPT ![r] = {}]
    /\ UNCHANGED <<commands, deployed, up, cancelled, orphaned, skipped, busVars, faults>>

\* Every row is sent: UPDATE ... SET published_at WHERE id = ANY(eventIDs),
\* then COMMIT, which releases the locks.  A COMMIT whose answer is lost, or
\* that the server performs after the client gave up, ends the same way: the
\* relay only logs the error, and until then nobody else could take the rows.
MarkAndCommit(r) ==
    /\ r \in up
    /\ r \notin cancelled
    /\ locked[r] # {}
    /\ sent[r] = locked[r]
    /\ row' = [e \in Event |-> IF e \in sent[r] THEN "published" ELSE row[e]]
    /\ locked' = [locked EXCEPT ![r] = {}]
    /\ sent' = [sent EXCEPT ![r] = {}]
    /\ UNCHANGED <<commands, deployed, up, cancelled, orphaned, skipped, busVars, faults>>

\* The relay is done with a batch it did not mark: the copies already sent are
\* wasted.  The deferred Rollback frees the rows, or the server sees at once
\* that the connection is closed; or neither, because the connection broke or
\* the host died, and the session keeps the rows without a client.
ReleaseBatch(r, W) ==
    /\ locked' = [locked EXCEPT ![r] = {}]
    /\ sent' = [sent EXCEPT ![r] = {}]
    /\ wasted' = [e \in Event |-> IF e \in W THEN wasted[e] + 1 ELSE wasted[e]]
    /\ \/ UNCHANGED orphaned
       \/ locked[r] # {} /\ orphaned' = orphaned \cup {locked[r]}
    /\ UNCHANGED skipped

\* The server finds out that the client of a session is gone (a keepalive, or
\* a timeout of its own), rolls its transaction back and frees its rows.
SessionEnds(B) ==
    /\ B \in orphaned
    /\ orphaned' = orphaned \ {B}
    /\ UNCHANGED <<row, commands, deployed, up, cancelled, locked, sent, skipped, busVars, faults>>

\* bus.Publish of the next row returns an error.  A bus reached over a network
\* may have accepted the event and lost only the answer.
PublishFails(r, e, accepted) ==
    /\ r \in up
    /\ faults < MaxFaults
    /\ IsNextRow(r, e)
    /\ copies' = [copies EXCEPT ![e] = IF accepted THEN @ + 1 ELSE @]
    /\ ReleaseBatch(r, IF accepted THEN sent[r] \cup {e} ELSE sent[r])
    /\ faults' = faults + 1
    /\ UNCHANGED <<row, commands, deployed, up, cancelled>>

\* Another call fails: reading or scanning a row (rows.Next then returns false
\* and the UPDATE fails on the broken transaction), the UPDATE, or a COMMIT
\* the server did not perform.
BatchFails(r) ==
    /\ r \in up
    /\ faults < MaxFaults
    /\ locked[r] # {}
    /\ ReleaseBatch(r, sent[r])
    /\ faults' = faults + 1
    /\ UNCHANGED <<row, commands, deployed, up, cancelled, copies>>

-----------------------------------------------------------------------------
(* The life of the relay's process. *)

\* The platform cancels the context (SIGTERM, or another module failed).
Cancel(r) ==
    /\ r \in up \ cancelled
    /\ faults < MaxFaults
    /\ cancelled' = cancelled \cup {r}
    /\ faults' = faults + 1
    /\ UNCHANGED <<row, commands, deployed, up, locked, sent, orphaned, skipped, busVars>>

\* Start returns: between two batches, or once the batch in progress has
\* failed on the cancelled context (its connection is closed, not reused).
Stop(r) ==
    /\ r \in up \cap cancelled
    /\ up' = up \ {r}
    /\ ReleaseBatch(r, sent[r])
    /\ UNCHANGED <<row, commands, deployed, cancelled, copies, faults>>

\* The process dies between any two steps, and leaves its transaction to the
\* server.
Crash(r) ==
    /\ r \in up
    /\ faults < MaxFaults
    /\ up' = up \ {r}
    /\ ReleaseBatch(r, sent[r])
    /\ faults' = faults + 1
    /\ UNCHANGED <<row, commands, deployed, cancelled, copies>>

\* The process is started again, with a fresh context.
Restart(r) ==
    /\ r \in deployed \ up
    /\ up' = up \cup {r}
    /\ cancelled' = cancelled \ {r}
    /\ UNCHANGED <<row, commands, deployed, locked, sent, orphaned, skipped, busVars, faults>>

Command ==
    \E E \in SUBSET Event : Dispatch(E) \/ CommandCommit(E) \/ CommandRollback(E)

Batch(r) ==
    \/ \E B \in SUBSET Event : Select(r, B)
    \/ \E e \in Event : Publish(r, e)
    \/ MarkAndCommit(r)
    \/ IdleTick(r)

Failure(r) ==
    \/ \E e \in Event, accepted \in BOOLEAN : PublishFails(r, e, accepted)
    \/ BatchFails(r)
    \/ Cancel(r)
    \/ Crash(r)

Next ==
    \/ Command
    \/ \E B \in SUBSET Event : SessionEnds(B)
    \/ \E r \in Relay : Batch(r) \/ Failure(r) \/ Stop(r) \/ Restart(r)

Spec == Init /\ [][Next]_vars

-----------------------------------------------------------------------------
(* What the outbox promises. *)

\* Two replicas never process the same row: no row is in the batch of two
\* relays, and a batch holds only committed, unpublished rows.
LocksExclusive ==
    /\ \A r, q \in Relay : r # q => locked[r] \cap locked[q] = {}
    /\ \A r \in Relay : \A e \in locked[r] : row[e] = "pending"

InFlight(e) == \E r \in Relay : e \in sent[r]

\* Every copy on the bus is explained: it belongs to a batch that failed, to
\* the batch in progress, or it is the one the UPDATE acknowledged.  So a row
\* is marked only after the bus took it, and duplicates come from failures
\* only, one for each failed batch that had sent the row.
CopiesAccounted ==
    \A e \in Event :
        copies[e] = wasted[e] + (IF InFlight(e) THEN 1 ELSE 0)
                              + (IF row[e] = "published" THEN 1 ELSE 0)

\* The dual-write problem is solved: the bus never carries an event whose
\* command has not committed, or whose command rolled back.
OnlyCommittedOnBus ==
    \A e \in Event : copies[e] > 0 => row[e] \in {"pending", "published"}

\* Within a batch, a relay sends an event only after the earlier events of the
\* same aggregate (processBatch sends in the order of its SELECT).
BatchKeepsAggregateOrder ==
    [][\A r \in Relay : \A e \in sent'[r] \ sent[r], d \in locked[r] \ sent[r] :
          Aggregate[d] = Aggregate[e] => e <= d]_vars

\* Where a single replica is deployed, the events one command raised on one
\* aggregate reach the bus in the order they were raised, however the batches
\* are cut and whatever fails, but for one case: SKIP LOCKED passed over an
\* event that the session of a former, broken batch still held.  No event is
\* seen before the first copy of a predecessor that never met this fate.
CommandOrderKept ==
    Cardinality(deployed) = 1 =>
    \A E \in commands : \A d, e \in E :
        (Aggregate[d] = Aggregate[e] /\ d < e /\ copies[e] > 0)
            => copies[d] > 0 \/ d \in skipped

-----------------------------------------------------------------------------
(* The outbox implements at-least-once delivery of committed events. *)

\* What a reader outside the command's transaction and the relay sees.
Stage == [e \in Event |-> CASE row[e] = "pending"   -> "committed"
                            [] row[e] = "published" -> "acknowledged"
                            [] OTHER -> "absent"]

ALO == INSTANCE AtLeastOnce WITH stage <- Stage, delivered <- copies

\* Every step of the relay is a step, or a stutter, of at-least-once delivery:
\* only committed events are delivered, an event is acknowledged only after it
\* was delivered, and it is never delivered again after that.
ImplementsAtLeastOnce == ALO!Spec
=============================================================================
