---------------------------- MODULE OutboxProofs ----------------------------
(*****************************************************************************)
(* Proofs about Outbox and EventFlow, for every set of events, relays, batch *)
(* limit, subscription and bound on faults: the type invariant, the          *)
(* exclusion of replicas, the account of the copies on the bus, the order of *)
(* an aggregate's events, the refinement of AtLeastOnce, and what the        *)
(* consumers see.                                                            *)
(*****************************************************************************)
EXTENDS EventFlow, FiniteSetTheorems, TLAPS

-----------------------------------------------------------------------------
(* The outbox: commands, rows and relays. *)

\* A batch that is rolled back keeps the types of the relay's variables.
LEMMA ReleaseBatchType ==
    ASSUME TypeOK, NEW r \in Relay, NEW W \in SUBSET Event, ReleaseBatch(r, W)
    PROVE  /\ locked' \in [Relay -> {B \in SUBSET Event : IsFiniteSet(B) /\ Cardinality(B) <= Limit}]
           /\ sent' \in [Relay -> SUBSET Event]
           /\ wasted' \in [Event -> Nat]
           /\ orphaned' \subseteq SUBSET Event
           /\ skipped' \subseteq Event
<1>1. IsFiniteSet({}) /\ Cardinality({}) <= Limit
  BY FS_EmptySet, OutboxAssumption
<1> QED
  BY <1>1 DEF ReleaseBatch, TypeOK

\* Every step keeps the types, and keeps every batch within Limit.
LEMMA TypeStep == TypeOK /\ [Next]_vars => TypeOK'
<1> SUFFICES ASSUME TypeOK, [Next]_vars
             PROVE  TypeOK'
  OBVIOUS
<1> USE OutboxAssumption
<1>1. ASSUME NEW E \in SUBSET Event, Dispatch(E) \/ CommandCommit(E) \/ CommandRollback(E)
      PROVE  TypeOK'
  BY <1>1 DEF Dispatch, CommandCommit, CommandRollback, TypeOK, RowState, relayVars, busVars
<1>2. ASSUME NEW r \in Relay, NEW B \in SUBSET Event, Select(r, B)
      PROVE  TypeOK'
  <2>1. IsFiniteSet(B) /\ Cardinality(B) <= Limit
    BY <1>2, FS_Subset DEF Select, IsBatch
  <2>2. skipped' \subseteq Event
    BY <1>2 DEF Select, TypeOK, PassedOver
  <2> QED
    BY <1>2, <2>1, <2>2 DEF Select, TypeOK, busVars
<1>3. ASSUME NEW r \in Relay, NEW e \in Event, Publish(r, e)
      PROVE  TypeOK'
  BY <1>3 DEF Publish, TypeOK
<1>4. ASSUME NEW r \in Relay, MarkAndCommit(r)
      PROVE  TypeOK'
  <2>1. IsFiniteSet({}) /\ Cardinality({}) <= Limit
    BY FS_EmptySet
  <2> QED
    BY <1>4, <2>1 DEF MarkAndCommit, TypeOK, RowState, busVars
<1>5. ASSUME NEW r \in Relay, IdleTick(r)
      PROVE  TypeOK'
  BY <1>5 DEF IdleTick, TypeOK, vars
<1>6. ASSUME NEW r \in Relay, NEW e \in Event, NEW accepted \in BOOLEAN,
             PublishFails(r, e, accepted)
      PROVE  TypeOK'
  <2> DEFINE W == IF accepted THEN sent[r] \cup {e} ELSE sent[r]
  <2>1. W \in SUBSET Event /\ ReleaseBatch(r, W)
    BY <1>6 DEF PublishFails, TypeOK
  <2>2. copies' \in [Event -> Nat] /\ faults' \in 0..MaxFaults
    BY <1>6 DEF PublishFails, TypeOK
  <2> HIDE DEF W
  <2>3. /\ locked' \in [Relay -> {B \in SUBSET Event : IsFiniteSet(B) /\ Cardinality(B) <= Limit}]
        /\ sent' \in [Relay -> SUBSET Event]
        /\ wasted' \in [Event -> Nat]
        /\ orphaned' \subseteq SUBSET Event
        /\ skipped' \subseteq Event
    BY <2>1, ReleaseBatchType
  <2>4. UNCHANGED <<row, commands, deployed, up, cancelled>>
    BY <1>6 DEF PublishFails
  <2> QED
    BY <2>2, <2>3, <2>4 DEF TypeOK
<1>7. ASSUME NEW r \in Relay, BatchFails(r) \/ Crash(r) \/ Stop(r)
      PROVE  TypeOK'
  <2>1. sent[r] \in SUBSET Event /\ ReleaseBatch(r, sent[r])
    BY <1>7 DEF BatchFails, Crash, Stop, TypeOK
  <2>2. /\ locked' \in [Relay -> {B \in SUBSET Event : IsFiniteSet(B) /\ Cardinality(B) <= Limit}]
        /\ sent' \in [Relay -> SUBSET Event]
        /\ wasted' \in [Event -> Nat]
        /\ orphaned' \subseteq SUBSET Event
        /\ skipped' \subseteq Event
    BY <2>1, ReleaseBatchType
  <2>3. /\ UNCHANGED <<row, commands, deployed, cancelled, copies>>
        /\ up' \subseteq Relay
        /\ faults' \in 0..MaxFaults
    BY <1>7 DEF BatchFails, Crash, Stop, TypeOK
  <2> QED
    BY <2>2, <2>3 DEF TypeOK
<1>8. ASSUME NEW r \in Relay, Cancel(r) \/ Restart(r)
      PROVE  TypeOK'
  <2>1. UNCHANGED <<row, commands, deployed, locked, sent, copies, wasted, orphaned, skipped>>
    BY <1>8 DEF Cancel, Restart, busVars
  <2>2. up' \subseteq Relay /\ cancelled' \subseteq Relay /\ faults' \in 0..MaxFaults
    BY <1>8 DEF Cancel, Restart, TypeOK
  <2> QED
    BY <2>1, <2>2 DEF TypeOK
<1>9. CASE UNCHANGED vars
  BY <1>9 DEF vars, TypeOK
<1>10. CASE Command
  BY <1>1, <1>10 DEF Command
<1>12. ASSUME NEW B \in SUBSET Event, SessionEnds(B)
       PROVE  TypeOK'
  BY <1>12 DEF SessionEnds, TypeOK, busVars
<1>11. ASSUME NEW r \in Relay, Batch(r) \/ Failure(r) \/ Stop(r) \/ Restart(r)
       PROVE  TypeOK'
  BY <1>2, <1>3, <1>4, <1>5, <1>6, <1>7, <1>8, <1>11 DEF Batch, Failure
<1> QED
  BY <1>9, <1>10, <1>11, <1>12 DEF Next

\* The specification keeps its types; in particular no batch is larger than
\* the LIMIT of the relay's SELECT.
THEOREM TypeCorrect == Spec => []TypeOK
<1>1. Init => TypeOK
  <2>1. IsFiniteSet({}) /\ Cardinality({}) <= Limit
    BY FS_EmptySet, OutboxAssumption
  <2> QED
    BY <2>1, OutboxAssumption DEF Init, TypeOK, RowState
<1> QED
  BY <1>1, TypeStep, PTL DEF Spec

-----------------------------------------------------------------------------
(* Exclusion and accounting.  Neither is inductive alone: a relay may count *)
(* a copy as its own only because no other relay can have sent the row,     *)
(* which follows from the locks once sent rows are known to be locked.      *)

SentIsLocked == \A r \in Relay : sent[r] \subseteq locked[r]

OutboxInv ==
    /\ TypeOK
    /\ LocksExclusive
    /\ SentIsLocked
    /\ CopiesAccounted
    /\ OnlyCommittedOnBus

\* A row one relay has locked is neither locked nor sent by another.
LEMMA SoleOwner ==
    ASSUME OutboxInv, NEW r \in Relay, NEW q \in Relay, q # r, NEW e \in locked[r]
    PROVE  e \notin locked[q] /\ e \notin sent[q] /\ row[e] = "pending"
BY DEF OutboxInv, LocksExclusive, SentIsLocked

\* Rolling a batch back moves its copies from "in flight" to "wasted".
LEMMA ReleaseAccounts ==
    ASSUME OutboxInv, NEW r \in Relay, ReleaseBatch(r, sent[r]),
           UNCHANGED <<row, copies>>
    PROVE  LocksExclusive' /\ SentIsLocked' /\ CopiesAccounted' /\ OnlyCommittedOnBus'
<1> USE DEF OutboxInv, TypeOK
<1>1. /\ locked' = [locked EXCEPT ![r] = {}]
      /\ sent' = [sent EXCEPT ![r] = {}]
  BY DEF ReleaseBatch
<1>2. LocksExclusive' /\ SentIsLocked' /\ OnlyCommittedOnBus'
  BY <1>1 DEF LocksExclusive, SentIsLocked, OnlyCommittedOnBus
<1>3. ASSUME NEW e \in Event
      PROVE  copies'[e] = wasted'[e] + (IF InFlight(e)' THEN 1 ELSE 0)
                                     + (IF row'[e] = "published" THEN 1 ELSE 0)
  <2>1. copies[e] = wasted[e] + (IF InFlight(e) THEN 1 ELSE 0)
                              + (IF row[e] = "published" THEN 1 ELSE 0)
    BY DEF CopiesAccounted
  <2>2. CASE e \in sent[r]
    <3>1. InFlight(e) /\ ~InFlight(e)'
      BY <1>1, <2>2, SoleOwner DEF InFlight, SentIsLocked
    <3>2. wasted'[e] = wasted[e] + 1
      BY <2>2 DEF ReleaseBatch
    <3> QED
      BY <2>1, <3>1, <3>2
  <2>3. CASE e \notin sent[r]
    <3>1. InFlight(e)' <=> InFlight(e)
      BY <1>1, <2>3 DEF InFlight
    <3>2. wasted'[e] = wasted[e]
      BY <2>3 DEF ReleaseBatch
    <3> QED
      BY <2>1, <3>1, <3>2
  <2> QED
    BY <2>2, <2>3
<1> QED
  BY <1>2, <1>3 DEF CopiesAccounted

\* Every step preserves the inductive invariant.
LEMMA InvStep == OutboxInv /\ [Next]_vars => OutboxInv'
<1> SUFFICES ASSUME OutboxInv, [Next]_vars
             PROVE  LocksExclusive' /\ SentIsLocked' /\ CopiesAccounted' /\ OnlyCommittedOnBus'
  BY TypeStep DEF OutboxInv
<1> DEFINE Goal == LocksExclusive' /\ SentIsLocked' /\ CopiesAccounted' /\ OnlyCommittedOnBus'
           Accounted(e) == copies'[e] = wasted'[e] + (IF InFlight(e)' THEN 1 ELSE 0)
                                      + (IF row'[e] = "published" THEN 1 ELSE 0)
<1>a. TypeOK /\ TypeOK'
  BY TypeStep DEF OutboxInv
<1>b. \A e \in Event : copies[e] = wasted[e] + (IF InFlight(e) THEN 1 ELSE 0)
                                  + (IF row[e] = "published" THEN 1 ELSE 0)
  BY DEF OutboxInv, CopiesAccounted
<1>1. ASSUME NEW E \in SUBSET Event, Dispatch(E) \/ CommandCommit(E) \/ CommandRollback(E)
      PROVE  Goal
  <2>1. /\ UNCHANGED <<locked, sent, copies, wasted>>
        /\ \A e \in Event : row'[e] = row[e] \/ row[e] \in {"new", "inserted"}
        /\ \A e \in Event : row'[e] = "published" <=> row[e] = "published"
    BY <1>1, <1>a DEF Dispatch, CommandCommit, CommandRollback, TypeOK, RowState, relayVars, busVars
  <2>2. \A e \in Event : row[e] \in {"new", "inserted"} => copies[e] = 0
    BY <1>a DEF OutboxInv, OnlyCommittedOnBus, TypeOK
  <2>3. LocksExclusive' /\ SentIsLocked'
    BY <2>1, <1>a DEF OutboxInv, LocksExclusive, SentIsLocked, TypeOK
  <2>4. CopiesAccounted'
    BY <2>1, <1>b DEF CopiesAccounted, InFlight
  <2>5. OnlyCommittedOnBus'
    BY <2>1, <2>2 DEF OutboxInv, OnlyCommittedOnBus
  <2> QED
    BY <2>3, <2>4, <2>5
<1>2. ASSUME NEW r \in Relay, NEW B \in SUBSET Event, Select(r, B)
      PROVE  Goal
  <2>1. /\ UNCHANGED <<row, sent, copies, wasted>>
        /\ locked' = [locked EXCEPT ![r] = B]
        /\ locked[r] = {}
        /\ B \subseteq Selectable
    BY <1>2 DEF Select, IsBatch, busVars
  <2>2. \A e \in B : row[e] = "pending" /\ \A q \in Relay : e \notin locked[q]
    BY <2>1 DEF Selectable
  <2>3. LocksExclusive' /\ SentIsLocked'
    BY <2>1, <2>2, <1>a DEF OutboxInv, LocksExclusive, SentIsLocked, TypeOK
  <2> QED
    BY <2>1, <2>3 DEF OutboxInv, CopiesAccounted, OnlyCommittedOnBus, InFlight
<1>3. ASSUME NEW r \in Relay, NEW e \in Event, Publish(r, e)
      PROVE  Goal
  <2>1. /\ UNCHANGED <<row, locked, wasted>>
        /\ e \in locked[r] \ sent[r]
        /\ sent' = [sent EXCEPT ![r] = @ \cup {e}]
        /\ copies' = [copies EXCEPT ![e] = @ + 1]
    BY <1>3 DEF Publish, IsNextRow
  <2>2. row[e] = "pending"
    BY <2>1 DEF OutboxInv, LocksExclusive
  <2>3. LocksExclusive' /\ SentIsLocked' /\ OnlyCommittedOnBus'
    BY <2>1, <2>2, <1>a DEF OutboxInv, LocksExclusive, SentIsLocked, OnlyCommittedOnBus, TypeOK
  <2>4. ~InFlight(e) /\ InFlight(e)'
    BY <2>1, <1>a, SoleOwner DEF InFlight, TypeOK
  <2>5. Accounted(e)
    BY <2>1, <2>2, <2>4, <1>a, <1>b DEF TypeOK
  <2>6. ASSUME NEW d \in Event, d # e
        PROVE  Accounted(d)
    <3>1. InFlight(d)' <=> InFlight(d)
      BY <2>1, <2>6, <1>a DEF InFlight, TypeOK
    <3>2. copies'[d] = copies[d]
      BY <2>1, <2>6, <1>a DEF TypeOK
    <3> QED
      BY <2>1, <3>1, <3>2, <1>b
  <2> QED
    BY <2>3, <2>5, <2>6 DEF CopiesAccounted
<1>4. ASSUME NEW r \in Relay, MarkAndCommit(r)
      PROVE  Goal
  <2>1. /\ UNCHANGED <<copies, wasted>>
        /\ locked[r] = sent[r]
        /\ row' = [e \in Event |-> IF e \in sent[r] THEN "published" ELSE row[e]]
        /\ locked' = [locked EXCEPT ![r] = {}]
        /\ sent' = [sent EXCEPT ![r] = {}]
    BY <1>4 DEF MarkAndCommit, busVars
  <2>2. \A q \in Relay : \A e \in locked'[q] : e \in locked[q] /\ e \notin sent[r]
    BY <2>1, <1>a, SoleOwner DEF TypeOK
  <2>3. \A q \in Relay : \A e \in locked'[q] : row'[e] = "pending"
    BY <2>1, <2>2, <1>a DEF OutboxInv, LocksExclusive, TypeOK
  <2>4. LocksExclusive' /\ SentIsLocked' /\ OnlyCommittedOnBus'
    BY <2>1, <2>3, <1>a DEF OutboxInv, LocksExclusive, SentIsLocked, OnlyCommittedOnBus, TypeOK
  <2>5. ASSUME NEW e \in sent[r]
        PROVE  Accounted(e)
    <3>1. e \in Event /\ row[e] = "pending" /\ row'[e] = "published"
      BY <2>1, <1>a DEF OutboxInv, LocksExclusive, TypeOK
    <3>2. InFlight(e) /\ ~InFlight(e)'
      BY <2>1, <1>a, SoleOwner DEF InFlight, TypeOK
    <3> QED
      BY <2>1, <3>1, <3>2, <1>a, <1>b DEF TypeOK
  <2>6. ASSUME NEW e \in Event, e \notin sent[r]
        PROVE  Accounted(e)
    <3>1. InFlight(e)' <=> InFlight(e)
      BY <2>1, <2>6, <1>a DEF InFlight, TypeOK
    <3>2. row'[e] = row[e]
      BY <2>1, <2>6
    <3> QED
      BY <2>1, <3>1, <3>2, <1>b
  <2> QED
    BY <2>4, <2>5, <2>6 DEF CopiesAccounted
<1>5. ASSUME NEW r \in Relay, BatchFails(r) \/ Crash(r) \/ Stop(r)
      PROVE  Goal
  <2>1. ReleaseBatch(r, sent[r]) /\ UNCHANGED <<row, copies>>
    BY <1>5 DEF BatchFails, Crash, Stop
  <2> QED
    BY <2>1, ReleaseAccounts
<1>6. ASSUME NEW r \in Relay, NEW e \in Event, NEW accepted \in BOOLEAN,
             PublishFails(r, e, accepted)
      PROVE  Goal
  <2>1. CASE ~accepted
    <3>1. ReleaseBatch(r, sent[r]) /\ UNCHANGED <<row, copies>>
      BY <1>6, <2>1, <1>a DEF PublishFails, TypeOK
    <3> QED
      BY <3>1, ReleaseAccounts
  <2>2. CASE accepted
    <3>1. /\ UNCHANGED row
          /\ e \in locked[r] \ sent[r]
          /\ locked' = [locked EXCEPT ![r] = {}]
          /\ sent' = [sent EXCEPT ![r] = {}]
          /\ copies' = [copies EXCEPT ![e] = @ + 1]
          /\ wasted' = [d \in Event |-> IF d \in sent[r] \cup {e} THEN wasted[d] + 1 ELSE wasted[d]]
      BY <1>6, <2>2 DEF PublishFails, IsNextRow, ReleaseBatch
    <3>2. row[e] = "pending"
      BY <3>1 DEF OutboxInv, LocksExclusive
    <3>3. LocksExclusive' /\ SentIsLocked' /\ OnlyCommittedOnBus'
      BY <3>1, <3>2, <1>a DEF OutboxInv, LocksExclusive, SentIsLocked, OnlyCommittedOnBus, TypeOK
    <3>4. Accounted(e)
      <4>1. ~InFlight(e) /\ ~InFlight(e)'
        BY <3>1, <1>a, SoleOwner DEF InFlight, TypeOK
      <4> QED
        BY <3>1, <3>2, <4>1, <1>a, <1>b DEF TypeOK
    <3>5. ASSUME NEW d \in sent[r]
          PROVE  Accounted(d)
      <4>1. d \in locked[r] /\ d \in Event /\ d # e
        BY <3>1, <1>a DEF OutboxInv, SentIsLocked, TypeOK
      <4>2. InFlight(d) /\ ~InFlight(d)'
        BY <3>1, <4>1, <1>a, SoleOwner DEF InFlight, TypeOK
      <4>3. copies'[d] = copies[d] /\ wasted'[d] = wasted[d] + 1
        BY <3>1, <4>1, <1>a DEF TypeOK
      <4> QED
        BY <3>1, <4>1, <4>2, <4>3, <1>a, <1>b DEF TypeOK
    <3>6. ASSUME NEW d \in Event, d \notin sent[r], d # e
          PROVE  Accounted(d)
      <4>1. InFlight(d)' <=> InFlight(d)
        BY <3>1, <3>6, <1>a DEF InFlight, TypeOK
      <4>2. copies'[d] = copies[d] /\ wasted'[d] = wasted[d]
        BY <3>1, <3>6, <1>a DEF TypeOK
      <4> QED
        BY <3>1, <4>1, <4>2, <1>b
    <3> QED
      BY <3>3, <3>4, <3>5, <3>6 DEF CopiesAccounted
  <2> QED
    BY <2>1, <2>2
<1>7. ASSUME UNCHANGED <<row, locked, sent, copies, wasted>>
      PROVE  Goal
  BY <1>7 DEF OutboxInv, LocksExclusive, SentIsLocked, CopiesAccounted, OnlyCommittedOnBus, InFlight
<1>8. CASE Command
  BY <1>1, <1>8 DEF Command
<1>9. ASSUME NEW r \in Relay, Batch(r) \/ Failure(r) \/ Stop(r) \/ Restart(r)
      PROVE  Goal
  <2>1. (Cancel(r) \/ Restart(r) \/ IdleTick(r)) => UNCHANGED <<row, locked, sent, copies, wasted>>
    BY DEF Cancel, Restart, IdleTick, vars, busVars
  <2> QED
    BY <1>2, <1>3, <1>4, <1>5, <1>6, <1>7, <1>9, <2>1 DEF Batch, Failure
<1>10. CASE UNCHANGED vars
  BY <1>7, <1>10 DEF vars
<1>11. ASSUME NEW B \in SUBSET Event, SessionEnds(B)
       PROVE  Goal
  BY <1>7, <1>11 DEF SessionEnds, busVars
<1> QED
  BY <1>8, <1>9, <1>10, <1>11 DEF Next

\* The inductive invariant holds initially, hence always.
LEMMA InvCorrect == Spec => []OutboxInv
<1>1. Init => OutboxInv
  <2>1. Init => TypeOK
    BY FS_EmptySet, OutboxAssumption DEF Init, TypeOK, RowState
  <2> QED
    BY <2>1 DEF Init, OutboxInv, LocksExclusive, SentIsLocked, CopiesAccounted,
                OnlyCommittedOnBus, InFlight
<1> QED
  BY <1>1, InvStep, PTL DEF Spec

\* No two relays hold the same row, and what they hold is pending: replicas of
\* the process never work on the same row, however many there are.
THEOREM ReplicasExclude == Spec => []LocksExclusive
BY InvCorrect, PTL DEF OutboxInv

\* Every copy of an event on the bus is explained by the acknowledged batch,
\* the batch in progress or one failed batch each.
THEOREM CopiesExplained == Spec => []CopiesAccounted
BY InvCorrect, PTL DEF OutboxInv

\* Events of commands that did not commit never reach the bus.
THEOREM NoDualWrite == Spec => []OnlyCommittedOnBus
BY InvCorrect, PTL DEF OutboxInv

-----------------------------------------------------------------------------
(* The order of the events of one aggregate.  It rests on occurred_at, the  *)
(* only key of the SELECT: the hypothesis below is what the columns must    *)
(* satisfy, and the tied timestamps of MCOutboxTies show it is needed.      *)

\* Later events of an aggregate carry later timestamps.
StampsIncrease ==
    \A d, e \in Event : Aggregate[d] = Aggregate[e] /\ d < e => OccurredAt[d] < OccurredAt[e]

\* Only the call of the bus that succeeds adds a row to the batch's eventIDs.
LEMMA OnlyPublishSends ==
    ASSUME TypeOK, [Next]_vars, NEW r \in Relay, NEW e \in sent'[r] \ sent[r]
    PROVE  IsNextRow(r, e)
<1>1. ASSUME NEW q \in Relay, NEW d \in Event, Publish(q, d)
      PROVE  IsNextRow(r, e)
  <2>1. IsNextRow(q, d) /\ sent' = [sent EXCEPT ![q] = @ \cup {d}]
    BY <1>1 DEF Publish
  <2>2. q = r /\ d = e
    BY <2>1 DEF TypeOK
  <2> QED
    BY <2>1, <2>2
<1>2. CASE UNCHANGED sent
  BY <1>2
<1>3. ASSUME NEW q \in Relay, sent' = [sent EXCEPT ![q] = {}]
      PROVE  FALSE
  BY <1>3 DEF TypeOK
<1>4. CASE Command
  BY <1>2, <1>4 DEF Command, Dispatch, CommandCommit, CommandRollback, relayVars
<1>5. ASSUME NEW q \in Relay, Batch(q)
      PROVE  IsNextRow(r, e)
  <2>1. ASSUME NEW B \in SUBSET Event, Select(q, B) PROVE UNCHANGED sent
    BY <2>1 DEF Select
  <2>2. CASE MarkAndCommit(q)
    BY <1>3, <2>2 DEF MarkAndCommit
  <2>3. CASE IdleTick(q)
    BY <1>2, <2>3 DEF IdleTick, vars
  <2> QED
    BY <1>1, <1>2, <1>5, <2>1, <2>2, <2>3 DEF Batch
<1>6. ASSUME NEW q \in Relay, Failure(q) \/ Stop(q) \/ Restart(q)
      PROVE  IsNextRow(r, e)
  <2>1. ASSUME NEW d \in Event, NEW accepted \in BOOLEAN, PublishFails(q, d, accepted)
        PROVE  FALSE
    BY <1>3, <2>1 DEF PublishFails, ReleaseBatch
  <2>2. CASE BatchFails(q) \/ Crash(q) \/ Stop(q)
    BY <1>3, <2>2 DEF BatchFails, Crash, Stop, ReleaseBatch
  <2>3. CASE Cancel(q) \/ Restart(q)
    BY <1>2, <2>3 DEF Cancel, Restart
  <2> QED
    BY <1>6, <2>1, <2>2, <2>3 DEF Failure
<1>7. CASE UNCHANGED vars
  BY <1>2, <1>7 DEF vars
<1>8. ASSUME NEW B \in SUBSET Event, SessionEnds(B)
      PROVE  IsNextRow(r, e)
  BY <1>2, <1>8 DEF SessionEnds
<1> QED
  BY <1>4, <1>5, <1>6, <1>7, <1>8 DEF Next

\* With increasing timestamps, a batch never sends an event of an aggregate
\* while it holds an earlier unsent one of the same aggregate.
THEOREM BatchOrder == StampsIncrease => (Spec => BatchKeepsAggregateOrder)
<1> SUFFICES ASSUME StampsIncrease
             PROVE  Spec => BatchKeepsAggregateOrder
  OBVIOUS
<1> DEFINE Ordered == \A r \in Relay : \A e \in sent'[r] \ sent[r], d \in locked[r] \ sent[r] :
                          Aggregate[d] = Aggregate[e] => e <= d
<1>1. TypeOK /\ [Next]_vars => [Ordered]_vars
  <2> SUFFICES ASSUME TypeOK, [Next]_vars,
                      NEW r \in Relay, NEW e \in sent'[r] \ sent[r],
                      NEW d \in locked[r] \ sent[r], Aggregate[d] = Aggregate[e]
               PROVE  e <= d
    OBVIOUS
  <2>1. e \in locked[r] /\ OccurredAt[e] <= OccurredAt[d]
    BY OnlyPublishSends DEF IsNextRow
  <2>2. d \in Event /\ e \in Event /\ d \in Nat /\ e \in Nat
    BY <2>1, OutboxAssumption DEF TypeOK
  <2>3. OccurredAt[d] \in Nat /\ OccurredAt[e] \in Nat
    BY <2>2, OutboxAssumption
  <2>4. ~(d < e)
    BY <2>1, <2>2, <2>3 DEF StampsIncrease
  <2> QED
    BY <2>2, <2>4
<1>2. Spec => []TypeOK
  BY TypeCorrect
<1> QED
  BY <1>1, <1>2, PTL DEF Spec, BatchKeepsAggregateOrder

\* The rows of one command belong to no other and share its fate: they become
\* visible together.
CommandsApart == \A D, E \in commands : \A e \in D : e \in E => D = E
CommandsInserted == \A E \in commands : \A e \in E : row[e] # "new"
CommandsWhole ==
    \A E \in commands : \A d, e \in E :
        row[e] \in {"pending", "published"} => row[d] \in {"pending", "published"}

\* Only the process of a deployed replica has an open transaction.
LocksOfTheLiving ==
    /\ up \subseteq deployed
    /\ \A r \in Relay : locked[r] # {} => r \in up

SoleReplica == \A q, r \in deployed : q = r

\* The bus has seen the row, or a session without a client kept it from a batch.
SeenOrSkipped(d) == copies[d] > 0 \/ d \in skipped

\* What a sole replica has locked of a command, it has locked together with the
\* earlier events of the aggregate, unless those are accounted for.
EarlierLocked ==
    \A r \in Relay, E \in commands : \A d, e \in E :
        (Aggregate[d] = Aggregate[e] /\ d < e /\ e \in locked[r])
            => d \in locked[r] \/ SeenOrSkipped(d)

EarlierSent ==
    \A E \in commands : \A d, e \in E :
        (Aggregate[d] = Aggregate[e] /\ d < e /\ copies[e] > 0) => SeenOrSkipped(d)

OrderInv ==
    /\ CommandsApart
    /\ CommandsInserted
    /\ CommandsWhole
    /\ LocksOfTheLiving
    /\ SoleReplica => EarlierLocked /\ EarlierSent

\* What the bus has seen and what a SELECT passed over stay so.
LEMMA SeenStays ==
    ASSUME TypeOK, NEW d \in Event, SeenOrSkipped(d), skipped \subseteq skipped',
           \/ UNCHANGED copies
           \/ \E e \in Event : copies' = [copies EXCEPT ![e] = @ + 1]
    PROVE  SeenOrSkipped(d)'
<1>1. copies'[d] >= copies[d] /\ copies[d] \in Nat /\ copies'[d] \in Nat
  BY DEF TypeOK
<1> QED
  BY <1>1 DEF SeenOrSkipped

\* The row a sole replica sends next is due: the bus has already taken the
\* earlier events of its command and aggregate, or they were passed over.
LEMMA NextRowIsDue ==
    ASSUME StampsIncrease, OutboxInv, OrderInv, SoleReplica,
           NEW r \in Relay, NEW e \in Event, IsNextRow(r, e),
           NEW E \in commands, e \in E, NEW d \in E,
           Aggregate[d] = Aggregate[e], d < e
    PROVE  SeenOrSkipped(d)
<1>a. TypeOK /\ d \in Event
  BY DEF OutboxInv, TypeOK
<1>1. d \in locked[r] \/ SeenOrSkipped(d)
  BY DEF OrderInv, EarlierLocked, IsNextRow
<1>2. copies[d] = wasted[d] + (IF InFlight(d) THEN 1 ELSE 0)
                            + (IF row[d] = "published" THEN 1 ELSE 0)
  BY <1>a DEF OutboxInv, CopiesAccounted
<1>3. wasted[d] \in Nat /\ copies[d] \in Nat
  BY <1>a DEF TypeOK
<1>4. CASE d \in locked[r]
  <2>1. OccurredAt[d] < OccurredAt[e] /\ OccurredAt[d] \in Nat /\ OccurredAt[e] \in Nat
    BY <1>a, OutboxAssumption DEF StampsIncrease
  <2>2. d \in sent[r]
    BY <1>4, <2>1 DEF IsNextRow
  <2>3. InFlight(d)
    BY <2>2 DEF InFlight
  <2> QED
    BY <1>2, <1>3, <2>3 DEF SeenOrSkipped
<1> QED
  BY <1>1, <1>4

\* The bus accepts one more copy of the row that is due.
LEMMA DueKeepsOrder ==
    ASSUME StampsIncrease, OutboxInv, OrderInv, SoleReplica,
           NEW r \in Relay, NEW e \in Event, IsNextRow(r, e),
           copies' = [copies EXCEPT ![e] = @ + 1], skipped \subseteq skipped', UNCHANGED commands
    PROVE  EarlierSent'
<1>a. TypeOK /\ EarlierSent
  BY DEF OutboxInv, OrderInv
<1>1. SUFFICES ASSUME NEW E \in commands, NEW d \in E, NEW c \in E,
                      Aggregate[d] = Aggregate[c], d < c, copies'[c] > 0
               PROVE  SeenOrSkipped(d)'
  BY DEF EarlierSent
<1>2. d \in Event /\ c \in Event
  BY <1>a DEF TypeOK
<1>3. SeenOrSkipped(d) => SeenOrSkipped(d)'
  BY <1>2, <1>a, SeenStays
<1>4. CASE c = e
  BY <1>1, <1>3, <1>4, NextRowIsDue
<1>5. CASE c # e
  <2>1. copies'[c] = copies[c]
    BY <1>2, <1>5, <1>a DEF TypeOK
  <2>2. SeenOrSkipped(d)
    BY <1>1, <1>a, <2>1 DEF EarlierSent
  <2> QED
    BY <1>3, <2>2
<1> QED
  BY <1>4, <1>5

\* The commands keep their invariants where rows only move from pending to
\* published, and the locks theirs where batches only get smaller.
LEMMA RowsAdvance ==
    ASSUME OrderInv, TypeOK, UNCHANGED commands,
           \A e \in Event : \/ row'[e] = row[e]
                            \/ row[e] = "pending" /\ row'[e] = "published"
    PROVE  CommandsApart' /\ CommandsInserted' /\ CommandsWhole'
<1>1. \A E \in commands : E \subseteq Event
  BY DEF TypeOK
<1> QED
  BY <1>1 DEF OrderInv, CommandsApart, CommandsInserted, CommandsWhole

\* A relay's batch is released: the others keep theirs.
LEMMA ReleasedOrder ==
    ASSUME OrderInv, TypeOK, UNCHANGED commands, NEW r \in Relay,
           locked' = [locked EXCEPT ![r] = {}], skipped \subseteq skipped',
           \/ UNCHANGED copies
           \/ \E e \in Event : copies' = [copies EXCEPT ![e] = @ + 1]
    PROVE  /\ \A q \in Relay : locked'[q] # {} => q \in up /\ q # r
           /\ EarlierLocked => EarlierLocked'
<1>1. \A q \in Relay : locked'[q] = IF q = r THEN {} ELSE locked[q]
  BY DEF TypeOK
<1>2. \A q \in Relay : locked'[q] # {} => q \in up /\ q # r
  BY <1>1 DEF OrderInv, LocksOfTheLiving
<1>3. ASSUME EarlierLocked PROVE EarlierLocked'
  <2> SUFFICES ASSUME NEW q \in Relay, NEW E \in commands, NEW d \in E, NEW e \in E,
                      Aggregate[d] = Aggregate[e], d < e, e \in locked'[q]
               PROVE  d \in locked'[q] \/ SeenOrSkipped(d)'
    BY DEF EarlierLocked
  <2>1. d \in Event
    BY DEF TypeOK
  <2>2. q # r /\ locked'[q] = locked[q]
    BY <1>1
  <2>3. d \in locked[q] \/ SeenOrSkipped(d)
    BY <1>3, <2>2 DEF EarlierLocked
  <2> QED
    BY <2>1, <2>2, <2>3, SeenStays
<1> QED
  BY <1>2, <1>3

\* A sole replica that selects a batch takes, of each command, the earlier
\* events of an aggregate with the later ones, or passes over them because of
\* a session without a client.
LEMMA SelectTakesEarlier ==
    ASSUME StampsIncrease, OutboxInv, OrderInv, SoleReplica,
           NEW r \in Relay, NEW B \in SUBSET Event, Select(r, B)
    PROVE  EarlierLocked'
<1>a. TypeOK
  BY DEF OutboxInv
<1>1. /\ r \in up /\ locked[r] = {} /\ IsBatch(B)
      /\ locked' = [locked EXCEPT ![r] = B] /\ UNCHANGED <<row, commands, copies>>
      /\ skipped' = skipped \cup PassedOver(B)
  BY DEF Select, busVars
<1>2. \A q \in Relay : locked[q] = {}
  BY <1>1 DEF OrderInv, LocksOfTheLiving, SoleReplica
<1>3. locked'[r] = B /\ \A q \in Relay : q # r => locked'[q] = {}
  BY <1>1, <1>2, <1>a DEF TypeOK
<1> SUFFICES ASSUME NEW q \in Relay, NEW E \in commands, NEW d \in E, NEW e \in E,
                    Aggregate[d] = Aggregate[e], d < e, e \in locked'[q]
             PROVE  d \in locked'[q] \/ SeenOrSkipped(d)'
  BY <1>1 DEF EarlierLocked
<1>4. q = r /\ e \in B
  BY <1>3
<1>5. d \in Event /\ e \in Event
  BY <1>a DEF TypeOK
<1>6. row[e] = "pending"
  BY <1>1, <1>4 DEF IsBatch, Selectable
<1>7. row[d] \in {"pending", "published"}
  BY <1>6 DEF OrderInv, CommandsWhole
<1>8. OccurredAt[d] < OccurredAt[e] /\ OccurredAt[d] \in Nat /\ OccurredAt[e] \in Nat
  BY <1>5, OutboxAssumption DEF StampsIncrease
<1>9. copies[d] \in Nat /\ copies'[d] = copies[d]
  BY <1>1, <1>5, <1>a DEF TypeOK
<1>10. CASE row[d] = "published"
  <2>1. copies[d] > 0
    BY <1>5, <1>9, <1>10, <1>a DEF OutboxInv, CopiesAccounted, TypeOK
  <2> QED
    BY <1>9, <2>1 DEF SeenOrSkipped
<1>11. CASE row[d] = "pending" /\ d \in UNION orphaned
  <2>1. copies[d] = 0 => d \in PassedOver(B)
    BY <1>4, <1>8, <1>11 DEF PassedOver
  <2> QED
    BY <1>1, <1>9, <2>1 DEF SeenOrSkipped
<1>12. CASE row[d] = "pending" /\ d \notin UNION orphaned
  <2>1. d \in Selectable
    BY <1>2, <1>5, <1>12 DEF Selectable
  <2>2. d \in B
    BY <1>1, <1>4, <1>8, <2>1 DEF IsBatch
  <2> QED
    BY <1>3, <1>4, <2>2
<1> QED
  BY <1>7, <1>10, <1>11, <1>12

\* A command inserts its rows, commits or rolls back: its rows move together
\* and no other command has any of them.
LEMMA CommandOrder ==
    ASSUME OutboxInv, OrderInv, NEW E \in SUBSET Event,
           Dispatch(E) \/ CommandCommit(E) \/ CommandRollback(E)
    PROVE  OrderInv'
<1>a. TypeOK
  BY DEF OutboxInv
<1>b. UNCHANGED <<deployed, up, locked, sent, copies, skipped>>
  BY DEF Dispatch, CommandCommit, CommandRollback, relayVars, busVars
<1>c. \A D \in commands : D \subseteq Event
  BY <1>a DEF TypeOK
<1>1. LocksOfTheLiving' /\ (SoleReplica' <=> SoleReplica)
  BY <1>b DEF OrderInv, LocksOfTheLiving, SoleReplica
<1>2. CASE Dispatch(E)
  <2>1. /\ \A e \in E : row[e] = "new"
        /\ row' = [e \in Event |-> IF e \in E THEN "inserted" ELSE row[e]]
        /\ commands' = commands \cup {E}
    BY <1>2 DEF Dispatch
  <2>2. \A D \in commands : \A e \in D : e \notin E /\ row'[e] = row[e]
    BY <2>1, <1>c DEF OrderInv, CommandsInserted
  <2>3. \A e \in E : row'[e] = "inserted"
    BY <2>1
  <2>4. CommandsApart'
    BY <2>1, <2>2 DEF OrderInv, CommandsApart
  <2>5. CommandsInserted' /\ CommandsWhole'
    BY <2>1, <2>2, <2>3 DEF OrderInv, CommandsInserted, CommandsWhole
  <2>6. \A e \in E : copies[e] = 0 /\ \A r \in Relay : e \notin locked[r]
    BY <2>1, <1>a DEF OutboxInv, OnlyCommittedOnBus, LocksExclusive, TypeOK
  <2>7. ASSUME EarlierLocked PROVE EarlierLocked'
    BY <2>1, <2>6, <2>7, <1>b DEF EarlierLocked, SeenOrSkipped
  <2>8. ASSUME EarlierSent PROVE EarlierSent'
    BY <2>1, <2>6, <2>8, <1>b DEF EarlierSent, SeenOrSkipped
  <2> QED
    BY <1>1, <2>4, <2>5, <2>7, <2>8 DEF OrderInv
<1>3. CASE CommandCommit(E) \/ CommandRollback(E)
  <2>1. /\ E \in commands /\ UNCHANGED commands
        /\ \A e \in E : row[e] = "inserted"
        /\ \A e \in Event \ E : row'[e] = row[e]
        /\ \/ \A e \in E : row'[e] = "pending"
           \/ \A e \in E : row'[e] = "aborted"
    BY <1>3 DEF CommandCommit, CommandRollback
  <2>2. \A D \in commands : D = E \/ \A e \in D : row'[e] = row[e]
    BY <2>1, <1>c DEF OrderInv, CommandsApart
  <2>3. CommandsApart' /\ CommandsInserted'
    BY <2>1, <2>2 DEF OrderInv, CommandsApart, CommandsInserted
  <2>4. CommandsWhole'
    BY <2>1, <2>2 DEF OrderInv, CommandsWhole
  <2>5. ASSUME EarlierLocked PROVE EarlierLocked'
    BY <2>1, <2>5, <1>b DEF EarlierLocked, SeenOrSkipped
  <2>6. ASSUME EarlierSent PROVE EarlierSent'
    BY <2>1, <2>6, <1>b DEF EarlierSent, SeenOrSkipped
  <2> QED
    BY <1>1, <2>3, <2>4, <2>5, <2>6 DEF OrderInv
<1> QED
  BY <1>2, <1>3

\* Every step of the outbox keeps the order.
LEMMA OrderStep == StampsIncrease /\ OutboxInv /\ OrderInv /\ [Next]_vars => OrderInv'
<1> SUFFICES ASSUME StampsIncrease, OutboxInv, OrderInv, [Next]_vars
             PROVE  OrderInv'
  OBVIOUS
<1>a. TypeOK
  BY DEF OutboxInv
<1>1. ASSUME UNCHANGED <<commands, row, copies, deployed, locked, skipped>>, up \subseteq up', up' \subseteq deployed
      PROVE  OrderInv'
  BY <1>1 DEF OrderInv, CommandsApart, CommandsInserted, CommandsWhole, LocksOfTheLiving,
              SoleReplica, EarlierLocked, EarlierSent, SeenOrSkipped
<1>2. ASSUME NEW r \in Relay, NEW B \in SUBSET Event, Select(r, B)
      PROVE  OrderInv'
  <2>1. /\ UNCHANGED <<commands, row, copies, deployed, up>> /\ r \in up
        /\ locked' = [locked EXCEPT ![r] = B] /\ skipped \subseteq skipped'
    BY <1>2 DEF Select, busVars
  <2>2. CommandsApart' /\ CommandsInserted' /\ CommandsWhole'
    BY <2>1, <1>a, RowsAdvance
  <2>3. LocksOfTheLiving'
    BY <2>1, <1>a DEF OrderInv, LocksOfTheLiving, TypeOK
  <2>4. ASSUME SoleReplica PROVE EarlierLocked' /\ EarlierSent'
    BY <1>2, <2>1, <2>4, SelectTakesEarlier DEF OrderInv, EarlierSent, SeenOrSkipped
  <2>5. SoleReplica' => SoleReplica
    BY <2>1 DEF SoleReplica
  <2> QED
    BY <2>2, <2>3, <2>4, <2>5 DEF OrderInv
<1>3. ASSUME NEW r \in Relay, NEW e \in Event, Publish(r, e)
      PROVE  OrderInv'
  <2>1. /\ UNCHANGED <<commands, row, deployed, up, locked>> /\ IsNextRow(r, e)
        /\ copies' = [copies EXCEPT ![e] = @ + 1] /\ skipped \subseteq skipped'
    BY <1>3 DEF Publish
  <2>2. CommandsApart' /\ CommandsInserted' /\ CommandsWhole'
    BY <2>1, <1>a, RowsAdvance
  <2>3. LocksOfTheLiving' /\ (SoleReplica' => SoleReplica)
    BY <2>1 DEF OrderInv, LocksOfTheLiving, SoleReplica
  <2>4. ASSUME SoleReplica PROVE EarlierLocked' /\ EarlierSent'
    <3>1. EarlierLocked'
      <4>1. \A E \in commands : \A d \in E : SeenOrSkipped(d) => SeenOrSkipped(d)'
        BY <2>1, <1>a, SeenStays DEF TypeOK
      <4> QED
        BY <2>1, <2>4, <4>1 DEF OrderInv, EarlierLocked
    <3>2. EarlierSent'
      BY <2>1, <2>4, DueKeepsOrder
    <3> QED
      BY <3>1, <3>2
  <2> QED
    BY <2>2, <2>3, <2>4 DEF OrderInv
\* A batch ends, with or without one more copy of the row that was due.
<1>4. ASSUME NEW r \in Relay, UNCHANGED <<commands, deployed, skipped>>,
             locked' = [locked EXCEPT ![r] = {}],
             up' = up \/ up' = up \ {r},
             \A e \in Event : \/ row'[e] = row[e]
                              \/ row[e] = "pending" /\ row'[e] = "published",
             \/ UNCHANGED copies
             \/ \E e \in Event : IsNextRow(r, e) /\ copies' = [copies EXCEPT ![e] = @ + 1]
      PROVE  OrderInv'
  <2>1. CommandsApart' /\ CommandsInserted' /\ CommandsWhole'
    BY <1>4, <1>a, RowsAdvance
  <2>2. /\ \A q \in Relay : locked'[q] # {} => q \in up /\ q # r
        /\ EarlierLocked => EarlierLocked'
    BY <1>4, <1>a, ReleasedOrder
  <2>3. LocksOfTheLiving' /\ (SoleReplica' => SoleReplica)
    BY <1>4, <2>2 DEF OrderInv, LocksOfTheLiving, SoleReplica
  <2>4. ASSUME SoleReplica PROVE EarlierSent'
    <3>1. CASE UNCHANGED copies
      BY <1>4, <2>4, <3>1 DEF OrderInv, EarlierSent, SeenOrSkipped
    <3>2. ASSUME NEW e \in Event, IsNextRow(r, e), copies' = [copies EXCEPT ![e] = @ + 1]
          PROVE  EarlierSent'
      BY <1>4, <2>4, <3>2, DueKeepsOrder
    <3> QED
      BY <1>4, <3>1, <3>2
  <2> QED
    BY <2>1, <2>2, <2>3, <2>4 DEF OrderInv
<1>5. ASSUME NEW r \in Relay, MarkAndCommit(r)
      PROVE  OrderInv'
  <2>1. \A e \in Event : \/ row'[e] = row[e]
                         \/ row[e] = "pending" /\ row'[e] = "published"
    BY <1>5 DEF MarkAndCommit, OutboxInv, LocksExclusive
  <2> QED
    BY <1>4, <1>5, <2>1 DEF MarkAndCommit, busVars
<1>6. ASSUME NEW r \in Relay, BatchFails(r) \/ Crash(r) \/ Stop(r)
      PROVE  OrderInv'
  BY <1>4, <1>6 DEF BatchFails, Crash, Stop, ReleaseBatch
<1>7. ASSUME NEW r \in Relay, NEW e \in Event, NEW accepted \in BOOLEAN, PublishFails(r, e, accepted)
      PROVE  OrderInv'
  <2>1. /\ UNCHANGED <<commands, deployed, up, row, skipped>> /\ IsNextRow(r, e)
        /\ locked' = [locked EXCEPT ![r] = {}]
    BY <1>7 DEF PublishFails, ReleaseBatch
  <2>2. CASE accepted
    <3>1. copies' = [copies EXCEPT ![e] = @ + 1]
      BY <1>7, <2>2 DEF PublishFails
    <3> QED
      BY <1>4, <2>1, <3>1
  <2>3. CASE ~accepted
    <3>1. UNCHANGED copies
      BY <1>7, <2>3, <1>a DEF PublishFails, TypeOK
    <3> QED
      BY <1>4, <2>1, <3>1
  <2> QED
    BY <2>2, <2>3
<1>8. ASSUME NEW r \in Relay, IdleTick(r) \/ Cancel(r) \/ Restart(r)
      PROVE  OrderInv'
  BY <1>1, <1>8 DEF IdleTick, Cancel, Restart, vars, busVars, OrderInv, LocksOfTheLiving
<1>9. CASE UNCHANGED vars
  BY <1>1, <1>9 DEF vars, OrderInv, LocksOfTheLiving
<1>10. CASE Command
  BY <1>10, CommandOrder DEF Command
<1>11. ASSUME NEW r \in Relay, Batch(r) \/ Failure(r) \/ Stop(r) \/ Restart(r)
       PROVE  OrderInv'
  BY <1>2, <1>3, <1>5, <1>6, <1>7, <1>8, <1>11 DEF Batch, Failure
<1>12. ASSUME NEW B \in SUBSET Event, SessionEnds(B)
       PROVE  OrderInv'
  BY <1>1, <1>12 DEF SessionEnds, busVars, OrderInv, LocksOfTheLiving
<1> QED
  BY <1>9, <1>10, <1>11, <1>12 DEF Next

\* With increasing timestamps and one deployed replica, the events a command
\* raised on one aggregate reach the bus in the order they were raised, across
\* batches, failed publications, crashes and restarts, except past an event that
\* a SELECT left out because the session of a broken batch still held it.
THEOREM CommandOrderPreserved == StampsIncrease => (Spec => []CommandOrderKept)
<1> SUFFICES ASSUME StampsIncrease
             PROVE  Spec => []CommandOrderKept
  OBVIOUS
<1>1. Init => OrderInv
  <2> SUFFICES ASSUME Init PROVE OrderInv
    OBVIOUS
  <2>1. commands = {} /\ up = deployed /\ \A r \in Relay : locked[r] = {}
    BY DEF Init
  <2> QED
    BY <2>1 DEF OrderInv, CommandsApart, CommandsInserted, CommandsWhole, LocksOfTheLiving,
                EarlierLocked, EarlierSent
<1>2. OutboxInv /\ OrderInv /\ [Next]_vars => OrderInv'
  BY OrderStep
<1>3. OutboxInv /\ OrderInv => CommandOrderKept
  <2> SUFFICES ASSUME OutboxInv, OrderInv, Cardinality(deployed) = 1
               PROVE  EarlierSent
    BY DEF CommandOrderKept, EarlierSent, SeenOrSkipped
  <2>1. IsFiniteSet(deployed)
    BY FS_Subset, OutboxAssumption DEF OutboxInv, TypeOK
  <2>2. SoleReplica
    BY <2>1, FS_Singleton DEF SoleReplica
  <2> QED
    BY <2>2 DEF OrderInv
<1> QED
  BY <1>1, <1>2, <1>3, InvCorrect, PTL DEF Spec

-----------------------------------------------------------------------------
(* The outbox implements AtLeastOnce. *)

\* A step that leaves the rows and the bus alone stutters in AtLeastOnce.
LEMMA SilentStep ==
    ASSUME UNCHANGED <<row, copies>>
    PROVE  UNCHANGED ALO!vars
BY DEF ALO!vars, Stage

\* The bus accepting a locked row is a delivery.
LEMMA DeliveryStep ==
    ASSUME OutboxInv, NEW r \in Relay, NEW e \in locked[r],
           copies' = [copies EXCEPT ![e] = @ + 1], UNCHANGED row
    PROVE  e \in Event /\ ALO!Deliver(e)
<1>1. e \in Event /\ row[e] = "pending"
  BY DEF OutboxInv, TypeOK, LocksExclusive
<1> QED
  BY <1>1 DEF ALO!Deliver, Stage

\* Every step of the outbox is a step, or a stutter, of AtLeastOnce.
LEMMA RefinementStep == OutboxInv /\ [Next]_vars => [ALO!Next]_(ALO!vars)
<1> SUFFICES ASSUME OutboxInv, [Next]_vars
             PROVE  ALO!Next \/ UNCHANGED ALO!vars
  OBVIOUS
<1> DEFINE Goal == ALO!Next \/ UNCHANGED ALO!vars
<1>a. TypeOK
  BY DEF OutboxInv
<1>1. ASSUME NEW E \in SUBSET Event, Dispatch(E) \/ CommandRollback(E)
      PROVE  Goal
  <2>1. /\ UNCHANGED copies
        /\ \A e \in Event : \/ row'[e] = row[e]
                            \/ /\ row[e] \notin {"pending", "published"}
                               /\ row'[e] \notin {"pending", "published"}
    BY <1>1, <1>a DEF Dispatch, CommandRollback, TypeOK, busVars
  <2>2. Stage' = Stage
    BY <2>1 DEF Stage
  <2> QED
    BY <2>1, <2>2 DEF ALO!vars
<1>2. ASSUME NEW E \in SUBSET Event, CommandCommit(E)
      PROVE  Goal
  <2>1. /\ UNCHANGED copies
        /\ \A e \in E : row[e] = "inserted"
        /\ row' = [e \in Event |-> IF e \in E THEN "pending" ELSE row[e]]
    BY <1>2 DEF CommandCommit, busVars
  <2>2. Stage' = [e \in Event |-> IF e \in E THEN "committed" ELSE Stage[e]]
    BY <2>1 DEF Stage
  <2>3. \A e \in E : Stage[e] = "absent"
    BY <2>1 DEF Stage
  <2> QED
    BY <2>1, <2>2, <2>3 DEF ALO!Next, ALO!Commit
<1>3. ASSUME NEW r \in Relay, NEW e \in Event, Publish(r, e)
      PROVE  Goal
  BY <1>3, DeliveryStep DEF Publish, IsNextRow, ALO!Next
<1>4. ASSUME NEW r \in Relay, MarkAndCommit(r)
      PROVE  Goal
  <2>1. /\ UNCHANGED copies
        /\ row' = [e \in Event |-> IF e \in sent[r] THEN "published" ELSE row[e]]
        /\ sent[r] = locked[r]
        /\ sent[r] \in SUBSET Event
    BY <1>4, <1>a DEF MarkAndCommit, TypeOK, busVars
  <2>2. Stage' = [e \in Event |-> IF e \in sent[r] THEN "acknowledged" ELSE Stage[e]]
    BY <2>1 DEF Stage
  <2>3. ASSUME NEW e \in sent[r]
        PROVE  Stage[e] = "committed" /\ copies[e] > 0
    <3>1. e \in Event /\ row[e] = "pending" /\ InFlight(e)
      BY <2>1 DEF OutboxInv, LocksExclusive, InFlight
    <3>2. copies[e] = wasted[e] + 1
      BY <3>1, <1>a DEF OutboxInv, CopiesAccounted, TypeOK
    <3> QED
      BY <3>1, <3>2, <1>a DEF Stage, TypeOK
  <2> QED
    BY <2>1, <2>2, <2>3 DEF ALO!Next, ALO!Acknowledge
<1>5. ASSUME NEW r \in Relay, NEW e \in Event, NEW accepted \in BOOLEAN,
             PublishFails(r, e, accepted)
      PROVE  Goal
  <2>1. CASE accepted
    BY <1>5, <2>1, DeliveryStep DEF PublishFails, IsNextRow, ALO!Next
  <2>2. CASE ~accepted
    BY <1>5, <2>2, <1>a, SilentStep DEF PublishFails, TypeOK
  <2> QED
    BY <2>1, <2>2
<1>6. CASE Command
  BY <1>1, <1>2, <1>6 DEF Command
<1>7. ASSUME NEW r \in Relay, Batch(r) \/ Failure(r) \/ Stop(r) \/ Restart(r)
      PROVE  Goal
  <2>1. ASSUME NEW B \in SUBSET Event, Select(r, B)
        PROVE  Goal
    BY <2>1, SilentStep DEF Select, busVars
  <2>2. ASSUME IdleTick(r) \/ BatchFails(r) \/ Cancel(r) \/ Crash(r) \/ Stop(r) \/ Restart(r)
        PROVE  Goal
    BY <2>2, SilentStep DEF IdleTick, BatchFails, Cancel, Crash, Stop, Restart, vars, busVars
  <2> QED
    BY <1>3, <1>4, <1>5, <1>7, <2>1, <2>2 DEF Batch, Failure
<1>8. CASE UNCHANGED vars
  BY <1>8, SilentStep DEF vars
<1>9. ASSUME NEW B \in SUBSET Event, SessionEnds(B)
      PROVE  Goal
  BY <1>9, SilentStep DEF SessionEnds, busVars
<1> QED
  BY <1>6, <1>7, <1>8, <1>9 DEF Next

\* The relay, its replicas, their failures and the commands together implement
\* at-least-once delivery of committed events.
THEOREM OutboxImplementsAtLeastOnce == Spec => ImplementsAtLeastOnce
<1>1. Init => ALO!Init
  BY DEF Init, ALO!Init, Stage
<1> QED
  BY <1>1, InvCorrect, RefinementStep, PTL DEF Spec, ALO!Spec, ImplementsAtLeastOnce

-----------------------------------------------------------------------------
(* The composition with the bus and its subscribers, which behaves as the   *)
(* outbox on the outbox's variables.                                        *)

\* A step of the composition is a step of the outbox, or leaves it alone.
LEMMA FlowStepIsOutboxStep == [FlowNext]_allVars => [Next]_vars
<1> SUFFICES ASSUME [FlowNext]_allVars PROVE [Next]_vars
  OBVIOUS
<1>1. CASE Command
  BY <1>1 DEF Next
<1>2. ASSUME NEW r \in Relay, FlowBatch(r) PROVE [Next]_vars
  BY <1>2 DEF FlowBatch, Quiet, Batch, Next
<1>3. ASSUME NEW r \in Relay, FlowFailure(r) PROVE [Next]_vars
  BY <1>3 DEF FlowFailure, Failure, Next
<1>4. ASSUME NEW r \in Relay, Stop(r) \/ Restart(r) PROVE [Next]_vars
  BY <1>4 DEF Next
<1>5. ASSUME NEW r \in Relay, NEW e \in Event, Handle(r, e) \/ HandleFails(r, e)
      PROVE  UNCHANGED vars
  BY <1>5 DEF Handle, HandleFails, allVars
<1>6. CASE UNCHANGED allVars
  BY <1>6 DEF allVars
<1>7. ASSUME NEW B \in SUBSET Event, SessionEnds(B) PROVE [Next]_vars
  BY <1>7 DEF Next
<1> QED
  BY <1>1, <1>2, <1>3, <1>4, <1>5, <1>6, <1>7 DEF FlowNext

\* The composition of relay, channel and router implements the outbox.
THEOREM FlowImplementsOutbox == FlowSpec => Spec
<1>1. FlowInit => Init
  BY DEF FlowInit
<1>2. [FlowNext]_allVars => [Next]_vars
  BY FlowStepIsOutboxStep
<1> QED
  BY <1>1, <1>2, PTL DEF FlowSpec, Spec

\* What a step of the outbox proper does to the copies: publishing adds one,
\* nothing else changes them.
LEMMA OnlyPublishingCopies ==
    ASSUME NEW r \in Relay,
           \/ Command
           \/ Quiet(r) \/ BatchFails(r) \/ Cancel(r) \/ Crash(r) \/ Stop(r) \/ Restart(r)
    PROVE  copies' = copies
<1>1. CASE Command
  BY <1>1 DEF Command, Dispatch, CommandCommit, CommandRollback, busVars
<1>2. CASE Quiet(r)
  BY <1>2 DEF Quiet, Select, MarkAndCommit, IdleTick, busVars, vars
<1>3. CASE BatchFails(r) \/ Cancel(r) \/ Crash(r) \/ Stop(r) \/ Restart(r)
  BY <1>3 DEF BatchFails, Cancel, Crash, Stop, Restart, busVars
<1> QED
  BY <1>1, <1>2, <1>3

FlowType == inbox \in [Relay -> SUBSET Event]
FlowInv == FlowType /\ FlowAccounted

LEMMA FlowInitially == FlowInit => FlowInv
<1> SUFFICES ASSUME FlowInit PROVE FlowInv
  OBVIOUS
<1>1. FlowType
  BY DEF FlowInit, FlowType
<1>2. FlowAccounted
  BY SubscribedAssumption DEF FlowInit, Init, FlowAccounted, Waiting
<1> QED
  BY <1>1, <1>2 DEF FlowInv

\* The bus takes an event e and the channel of r holds it from then on.
LEMMA EnqueueAccounted ==
    ASSUME TypeOK, FlowInv, NEW r \in Relay, NEW e \in Event,
           copies' = [copies EXCEPT ![e] = @ + 1], Enqueue(r, {e})
    PROVE  FlowInv'
<1>1. FlowType'
  BY SubscribedAssumption DEF FlowInv, FlowType, Enqueue
<1>2. \A d \in Event : copies'[d] > 0 <=> copies[d] > 0 \/ d = e
  BY DEF TypeOK
<1>3. \A d \in Subscribed : d \in Waiting' <=> d \in Waiting \/ (d = e /\ e \notin handled)
  <2>1. inbox'[r] = inbox[r] \cup (({e} \cap Subscribed) \ handled)
    BY DEF FlowInv, FlowType, Enqueue
  <2>2. \A q \in Relay \ {r} : inbox'[q] = inbox[q]
    BY DEF FlowInv, FlowType, Enqueue
  <2> QED
    BY <2>1, <2>2, Zenon DEF Waiting
<1>4. handled' = handled /\ lost' = lost
  BY DEF Enqueue
<1>5. FlowAccounted'
  BY <1>2, <1>3, <1>4, SubscribedAssumption DEF FlowInv, FlowAccounted
<1> QED
  BY <1>1, <1>5 DEF FlowInv

\* The process of r ends: what waited there is lost, the rest stays.
LEMMA ForgetAccounted ==
    ASSUME FlowInv, NEW r \in Relay, copies' = copies, Forget(r)
    PROVE  FlowInv'
<1>1. FlowType'
  BY DEF FlowInv, FlowType, Forget
<1>2. inbox'[r] = {} /\ \A q \in Relay \ {r} : inbox'[q] = inbox[q]
  BY DEF FlowInv, FlowType, Forget
<1>3. lost' \cup Waiting' = lost \cup Waiting
  BY <1>2, Zenon DEF Forget, Waiting
<1>4. FlowAccounted'
  BY <1>3 DEF FlowInv, FlowAccounted, Forget
<1> QED
  BY <1>1, <1>4 DEF FlowInv

\* A consumer takes the event: it was waiting, so the bus had it.
LEMMA HandleAccounted ==
    ASSUME FlowInv, NEW r \in Relay, NEW e \in Event, Handle(r, e)
    PROVE  FlowInv'
<1>1. FlowType'
  BY DEF FlowInv, FlowType, Handle
<1>2. \A q \in Relay : inbox'[q] = inbox[q] \ {e}
  BY DEF Handle
<1>3. e \in Waiting
  BY DEF Handle, Waiting
<1>4. \A d : d \in Waiting' <=> d \in Waiting /\ d # e
  BY <1>2, Zenon DEF Waiting
<1>5. FlowAccounted'
  BY <1>3, <1>4 DEF FlowInv, FlowAccounted, Handle, vars
<1> QED
  BY <1>1, <1>5 DEF FlowInv

LEMMA FlowUnchanged ==
    ASSUME FlowInv, copies' = copies, UNCHANGED flowVars
    PROVE  FlowInv'
  BY DEF FlowInv, FlowType, FlowAccounted, Waiting, flowVars

LEMMA FlowStep == TypeOK /\ FlowInv /\ [FlowNext]_allVars => FlowInv'
<1> SUFFICES ASSUME TypeOK, FlowInv, [FlowNext]_allVars PROVE FlowInv'
  OBVIOUS
<1>1. CASE Command /\ UNCHANGED flowVars
  <2>1. copies' = copies
    BY <1>1 DEF Command, Dispatch, CommandCommit, CommandRollback, busVars
  <2> QED
    BY <1>1, <2>1, FlowUnchanged
<1>2. ASSUME NEW r \in Relay, FlowBatch(r) PROVE FlowInv'
  <2>1. CASE Quiet(r) /\ UNCHANGED flowVars
    BY <2>1, OnlyPublishingCopies, FlowUnchanged
  <2>2. ASSUME NEW e \in Event, Publish(r, e), Enqueue(r, {e}) PROVE FlowInv'
    BY <2>2, EnqueueAccounted DEF Publish
  <2> QED
    BY <1>2, <2>1, <2>2 DEF FlowBatch
<1>3. ASSUME NEW r \in Relay, FlowFailure(r) PROVE FlowInv'
  <2>1. ASSUME NEW e \in Event, PublishFails(r, e, TRUE), Enqueue(r, {e})
        PROVE  FlowInv'
    <3>1. copies' = [copies EXCEPT ![e] = @ + 1]
      BY <2>1 DEF PublishFails
    <3> QED
      BY <2>1, <3>1, EnqueueAccounted
  <2>2. ASSUME NEW e \in Event, PublishFails(r, e, FALSE), Enqueue(r, {})
        PROVE  FlowInv'
    <3>1. copies' = copies
      BY <2>2 DEF PublishFails, TypeOK
    <3>2. UNCHANGED flowVars
      BY <2>2 DEF Enqueue, flowVars, FlowInv, FlowType
    <3> QED
      BY <3>1, <3>2, FlowUnchanged
  <2>3. CASE (BatchFails(r) \/ Cancel(r)) /\ UNCHANGED flowVars
    BY <2>3, OnlyPublishingCopies, FlowUnchanged
  <2>4. CASE Crash(r) /\ Forget(r)
    BY <2>4, OnlyPublishingCopies, ForgetAccounted
  <2>5. ASSUME NEW e \in Event, NEW accepted \in BOOLEAN,
               PublishFails(r, e, accepted),
               Enqueue(r, IF accepted THEN {e} ELSE {})
        PROVE  FlowInv'
    <3>1. CASE accepted = TRUE
      BY <2>1, <2>5, <3>1
    <3>2. CASE accepted = FALSE
      BY <2>2, <2>5, <3>2
    <3> QED
      BY <3>1, <3>2
  <2> QED
    BY <1>3, <2>3, <2>4, <2>5 DEF FlowFailure
<1>4. ASSUME NEW r \in Relay, Stop(r), Forget(r) PROVE FlowInv'
  BY <1>4, OnlyPublishingCopies, ForgetAccounted
<1>5. ASSUME NEW r \in Relay, Restart(r), UNCHANGED flowVars PROVE FlowInv'
  BY <1>5, OnlyPublishingCopies, FlowUnchanged
<1>6. ASSUME NEW r \in Relay, NEW e \in Event, Handle(r, e) PROVE FlowInv'
  BY <1>6, HandleAccounted
<1>7. ASSUME NEW r \in Relay, NEW e \in Event, HandleFails(r, e) PROVE FlowInv'
  BY <1>7, FlowUnchanged DEF HandleFails, allVars, vars
<1>8. CASE UNCHANGED allVars
  BY <1>8, FlowUnchanged DEF allVars, vars
<1>9. ASSUME NEW B \in SUBSET Event, SessionEnds(B), UNCHANGED flowVars PROVE FlowInv'
  BY <1>9, FlowUnchanged DEF SessionEnds, busVars
<1> QED
  BY <1>1, <1>2, <1>3, <1>4, <1>5, <1>6, <1>7, <1>8, <1>9 DEF FlowNext

\* Whatever crashes, restarts and refusals happen between Publish and Handle,
\* an event the bus took is handled, waiting, or lost with a process that
\* ended, and consumers see nothing else.
THEOREM NothingVanishes == FlowSpec => []FlowAccounted
<1>1. FlowInit => FlowInv
  BY FlowInitially
<1>2. TypeOK /\ FlowInv /\ [FlowNext]_allVars => FlowInv'
  BY FlowStep
<1>3. FlowSpec => []TypeOK
  BY FlowImplementsOutbox, TypeCorrect, PTL
<1>4. FlowInv => FlowAccounted
  BY DEF FlowInv
<1> QED
  BY <1>1, <1>2, <1>3, <1>4, PTL DEF FlowSpec

\* The dual-write problem is solved up to the consumer: an event some consumer
\* handled belongs to a command that committed.
THEOREM ConsumersSeeCommitted ==
    FlowSpec => [](\A e \in Subscribed : e \in handled => row[e] \in {"pending", "published"})
<1>1. FlowSpec => []OnlyCommittedOnBus
  BY FlowImplementsOutbox, NoDualWrite, PTL
<1>2. FlowAccounted /\ OnlyCommittedOnBus =>
        \A e \in Subscribed : e \in handled => row[e] \in {"pending", "published"}
  BY SubscribedAssumption DEF FlowAccounted, OnlyCommittedOnBus
<1> QED
  BY <1>1, <1>2, NothingVanishes, PTL
=============================================================================
