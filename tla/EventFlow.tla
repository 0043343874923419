------------------------------ MODULE EventFlow ------------------------------
(***************************************************************************)
(* The outbox composed with the bus and the consumers of a generated       *)
(* module: main wraps an in-process GoChannel in a WatermillBus, the relay *)
(* publishes on it, and the module's router hands each message to a        *)
(* function made by events.Handle.                                         *)
(*                                                                         *)
(* The channel is memory of the process.  A message whose function fails   *)
(* is sent again; one that is in memory when the process ends is gone,     *)
(* although its row is marked published.  An event is in inbox as long as  *)
(* one of its copies waits and none was handled: consumers are idempotent. *)
(***************************************************************************)
EXTENDS Outbox

CONSTANT Subscribed   \* the events whose topic the router has a consumer for

ASSUME SubscribedAssumption == Subscribed \subseteq Event

VARIABLES
    inbox,    \* the events waiting in the channel of each replica's process
    handled,  \* the events some consumer's function returned nil for
    lost      \* the events that were in memory when their process ended

flowVars == <<inbox, handled, lost>>
allVars == <<vars, flowVars>>

FlowInit ==
    /\ Init
    /\ inbox = [r \in Relay |-> {}]
    /\ handled = {}
    /\ lost = {}

\* WatermillBus.Publish returns as soon as the channel has the message.  One
\* that has no consumer stays there for nobody.
Enqueue(r, E) ==
    /\ inbox' = [inbox EXCEPT ![r] = @ \cup ((E \cap Subscribed) \ handled)]
    /\ UNCHANGED <<handled, lost>>

\* The process ends, and the channel with it.
Forget(r) ==
    /\ lost' = lost \cup inbox[r]
    /\ inbox' = [inbox EXCEPT ![r] = {}]
    /\ UNCHANGED handled

\* The router's consumer decodes the message and runs fn, which returns nil.
Handle(r, e) ==
    /\ r \in up
    /\ e \in inbox[r]
    /\ handled' = handled \cup {e}
    /\ inbox' = [q \in Relay |-> inbox[q] \ {e}]
    /\ UNCHANGED <<vars, lost>>

\* Mutant of HandleFails: the router drops a message whose function fails.
HandleFailsDropped(r, e) ==
    /\ r \in up
    /\ e \in inbox[r]
    /\ inbox' = [inbox EXCEPT ![r] = @ \ {e}]
    /\ UNCHANGED <<vars, handled, lost>>

\* Decoding fails, or fn returns an error: the router refuses the message and
\* the channel sends it again.
HandleFails(r, e) ==
    /\ r \in up
    /\ e \in inbox[r]
    /\ UNCHANGED allVars

\* The steps of the relay that put nothing in the channel.
Quiet(r) ==
    \/ \E B \in SUBSET Event : Select(r, B)
    \/ MarkAndCommit(r)
    \/ IdleTick(r)

FlowBatch(r) ==
    \/ Quiet(r) /\ UNCHANGED flowVars
    \/ \E e \in Event : Publish(r, e) /\ Enqueue(r, {e})

FlowFailure(r) ==
    \/ \E e \in Event, accepted \in BOOLEAN :
          /\ PublishFails(r, e, accepted)
          /\ Enqueue(r, IF accepted THEN {e} ELSE {})
    \/ (BatchFails(r) \/ Cancel(r)) /\ UNCHANGED flowVars
    \/ Crash(r) /\ Forget(r)

FlowNext ==
    \/ Command /\ UNCHANGED flowVars
    \/ \E B \in SUBSET Event : SessionEnds(B) /\ UNCHANGED flowVars
    \/ \E r \in Relay :
          \/ FlowBatch(r)
          \/ FlowFailure(r)
          \/ Stop(r) /\ Forget(r)
          \/ Restart(r) /\ UNCHANGED flowVars
          \/ \E e \in Event : Handle(r, e) \/ HandleFails(r, e)

\* The ticker fires for ever and processBatch always reaches its end; the
\* router runs as long as its process does and sends a message again until fn
\* takes it; a stopped process is restarted by whatever supervises it; and the
\* server gives up a session without a client in the end.  Commands and failures
\* happen or not.
FlowFairness ==
    /\ WF_allVars(\E B \in SUBSET Event : SessionEnds(B) /\ UNCHANGED flowVars)
    /\ \A r \in Relay :
        /\ WF_allVars(FlowBatch(r))
        /\ WF_allVars(Stop(r) /\ Forget(r))
        /\ WF_allVars(Restart(r) /\ UNCHANGED flowVars)
        /\ \A e \in Event : WF_allVars(Handle(r, e))

FlowSpec == FlowInit /\ [][FlowNext]_allVars /\ FlowFairness

-----------------------------------------------------------------------------
Waiting == UNION {inbox[r] : r \in Relay}

\* Nothing vanishes between the bus and the consumers: an event the bus took
\* is handled, waits in the channel of a running process, or was lost with one
\* that ended; and a consumer sees only what the bus took.
FlowAccounted ==
    \A e \in Subscribed : copies[e] > 0 <=> e \in handled \cup lost \cup Waiting

\* From the command to the consumer: a committed event is eventually marked
\* published and, if anyone subscribed to it, handled by a consumer or lost with
\* the memory of the process that had published it, through crashes, restarts
\* and failing calls as long as these stop.  Nothing else can lose it.
EventuallyHandled ==
    \A e \in Event :
        row[e] = "pending" ~> /\ row[e] = "published"
                              /\ e \in Subscribed => e \in handled \cup lost
=============================================================================
