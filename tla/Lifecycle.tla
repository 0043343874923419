------------------------------ MODULE Lifecycle -----------------------------
(***************************************************************************)
(* The life of a service: main builds the pool and the modules, App.Run    *)
(* starts every module in an errgroup, a module starts its HTTP server,    *)
(* its outbox relay and its event router in an errgroup of its own, and a  *)
(* signal or a failure takes all of them down.  main then closes the pool, *)
(* which waits for the connections in use, and exits.                      *)
(*                                                                         *)
(* net/http, errgroup, watermill and pgxpool are external: they are        *)
(* modelled by what the code relies on.                                    *)
(***************************************************************************)
EXTENDS Naturals, FiniteSets

CONSTANTS
    Module,    \* the modules given to platform.New
    Protocol,  \* kinds of requests under way: one of each at a time
    Tracked,   \* the ones http.Server tracks: not h2c, whose handler hijacks
    NoModule   \* no module

ASSUME LifecycleAssumption ==
    /\ NoModule \notin Module
    /\ Tracked \subseteq Protocol

VARIABLES
    phase,     \* where main is
    exitCode,
    signalled, \* the context of signal.NotifyContext is done
    pool,      \* dbPool
    listener,  \* the goroutine of ListenAndServe
    server,    \* HTTPServer.Start
    relay,     \* EventsRelay.Start
    router,    \* router.Run
    err,       \* the first error of each module's errgroup
    ended,     \* the modules whose Start has returned
    appErr,    \* the module whose error App.Run's errgroup kept
    handler    \* the request handlers under way

mainVars == <<phase, exitCode, signalled, pool>>
runVars == <<listener, server, relay, router, err>>
vars == <<mainVars, runVars, ended, appErr, handler>>

\* Types; the error App.Run keeps is that of a module that has ended, and an
\* exit code other than 0 is set only on the way out.
TypeOK ==
    /\ phase \in {"config", "logger", "pool", "modules", "running", "closing", "exited"}
    /\ exitCode \in {0, 1}
    /\ signalled \in BOOLEAN
    /\ pool \in {"none", "open", "closing"}
    /\ listener \in [Module -> {"off", "opening", "serving", "crashed", "closed"}]
    /\ server \in [Module -> {"off", "starting", "waiting", "draining", "returned"}]
    /\ relay \in [Module -> {"off", "idle", "batch", "returned"}]
    /\ router \in [Module -> {"off", "running", "returned"}]
    /\ err \in [Module -> {"none", "crash", "timeout", "router"}]
    /\ ended \subseteq Module
    /\ appErr \in ended \cup {NoModule}
    /\ handler \in [Module -> [Protocol -> {"none", "working", "holding"}]]
    /\ exitCode = 1 => phase \in {"closing", "exited"}

Init ==
    /\ phase = "config"
    /\ exitCode = 0
    /\ signalled = FALSE
    /\ pool = "none"
    /\ listener = [m \in Module |-> "off"]
    /\ server = [m \in Module |-> "off"]
    /\ relay = [m \in Module |-> "off"]
    /\ router = [m \in Module |-> "off"]
    /\ err = [m \in Module |-> "none"]
    /\ ended = {}
    /\ appErr = NoModule
    /\ handler = [m \in Module |-> [p \in Protocol |-> "none"]]

\* The context a module's goroutines are given: done when main's is, when
\* another module failed, or when one of them failed.
Cancelled(m) == signalled \/ appErr # NoModule \/ err[m] # "none"

-----------------------------------------------------------------------------
(* main, before App.Run. *)

\* The config and the logger: a failure is reported by the exit code.
Boot(ok) ==
    /\ phase \in {"config", "logger"}
    /\ phase' = IF ~ok THEN "closing" ELSE IF phase = "config" THEN "logger" ELSE "pool"
    /\ exitCode' = IF ok THEN exitCode ELSE 1
    /\ UNCHANGED <<signalled, pool, runVars, ended, appErr, handler>>

\* GetPgxPool: no pool, or a pool that does not answer, ends main with the
\* exit code as it is.
OpenPool(created, answers) ==
    /\ phase = "pool"
    /\ answers => created
    /\ pool' = IF created THEN "open" ELSE "none"
    /\ phase' = IF answers THEN "modules" ELSE "closing"
    /\ UNCHANGED <<exitCode, signalled, runVars, ended, appErr, handler>>

\* The module's New fails, again with the exit code as it is; or App.Run and
\* every Module.Start launch their goroutines.
StartModules(ok) ==
    /\ phase = "modules"
    /\ IF ok
       THEN /\ phase' = "running"
            /\ listener' = [m \in Module |-> "opening"]
            /\ server' = [m \in Module |-> "starting"]
            /\ relay' = [m \in Module |-> "idle"]
            /\ router' = [m \in Module |-> "running"]
       ELSE phase' = "closing" /\ UNCHANGED <<listener, server, relay, router>>
    /\ UNCHANGED <<exitCode, signalled, pool, err, ended, appErr, handler>>

\* SIGINT or SIGTERM
Signal ==
    /\ phase \notin {"closing", "exited"}
    /\ signalled' = TRUE
    /\ UNCHANGED <<phase, exitCode, pool, runVars, ended, appErr, handler>>

-----------------------------------------------------------------------------
(* HTTPServer.Start. *)

\* A goroutine of the module's errgroup returns e: the first error is kept.
Keep(m, e) == err' = [err EXCEPT ![m] = IF @ = "none" THEN e ELSE @]

ShutDown(m) == server[m] \in {"draining", "returned"}

\* ListenAndServe binds the port, or gives up because Shutdown was called: it
\* was never open.
Listen(m) ==
    /\ listener[m] = "opening"
    /\ listener' = [listener EXCEPT ![m] = IF ShutDown(m) THEN "off" ELSE "serving"]
    /\ UNCHANGED <<mainVars, server, relay, router, err, ended, appErr, handler>>

\* The port is in use, or accepting fails.  A Start that is blocked in its
\* select receives the error at once, unless the context woke it before;
\* otherwise the error stays in errChan.
Crash(m) ==
    /\ listener[m] \in {"opening", "serving"}
    /\ ~ShutDown(m)
    /\ listener' = [listener EXCEPT ![m] = "crashed"]
    /\ IF server[m] = "waiting" /\ ~Cancelled(m)
       THEN server' = [server EXCEPT ![m] = "returned"] /\ Keep(m, "crash")
       ELSE UNCHANGED <<server, err>>
    /\ UNCHANGED <<mainVars, relay, router, ended, appErr, handler>>

\* The select takes ctx.Done: Shutdown closes the listener.
Drain(m) ==
    /\ Cancelled(m)
    /\ server' = [server EXCEPT ![m] = "draining"]
    /\ listener' = [listener EXCEPT ![m] = IF @ = "serving" THEN "closed" ELSE @]
    /\ UNCHANGED err

\* Start comes to its select: of an error in errChan and a context that is
\* done it takes either.
Reach(m) ==
    /\ server[m] = "starting"
    /\ \/ Drain(m)
       \/ /\ listener[m] = "crashed"
          /\ server' = [server EXCEPT ![m] = "returned"]
          /\ Keep(m, "crash")
          /\ UNCHANGED listener
       \/ /\ ~Cancelled(m)
          /\ listener[m] # "crashed"
          /\ server' = [server EXCEPT ![m] = "waiting"]
          /\ UNCHANGED <<listener, err>>
    /\ UNCHANGED <<mainVars, relay, router, ended, appErr, handler>>

\* Mutant of SeeCancel: Start is given main's context, not the group's.
SeeSignal(m) ==
    /\ server[m] = "waiting"
    /\ signalled
    /\ Drain(m)
    /\ UNCHANGED <<mainVars, relay, router, ended, appErr, handler>>

\* Start, blocked in its select, is woken by the context.
SeeCancel(m) ==
    /\ server[m] = "waiting"
    /\ Drain(m)
    /\ UNCHANGED <<mainVars, relay, router, ended, appErr, handler>>

\* Requests Shutdown waits for.
Busy(m) == \E p \in Tracked : handler[m][p] # "none"

\* Mutant of Stop: the error of Shutdown is only logged.
StopQuietly(m) ==
    /\ server[m] = "draining"
    /\ server' = [server EXCEPT ![m] = "returned"]
    /\ UNCHANGED <<mainVars, listener, relay, router, err, ended, appErr, handler>>

\* Shutdown returns: no request is left, or ShutdownTimeout is over.  The
\* handlers of a shutdown that timed out go on.
Stop(m) ==
    /\ server[m] = "draining"
    /\ server' = [server EXCEPT ![m] = "returned"]
    /\ IF Busy(m) THEN Keep(m, "timeout") ELSE UNCHANGED err
    /\ UNCHANGED <<mainVars, listener, relay, router, ended, appErr, handler>>

-----------------------------------------------------------------------------
(* EventsRelay.Start and the router. *)

\* A tick: processBatch takes a connection.  With a context that is done it
\* gets none.
BeginBatch(m) ==
    /\ relay[m] = "idle"
    /\ ~Cancelled(m)
    /\ relay' = [relay EXCEPT ![m] = "batch"]
    /\ UNCHANGED <<mainVars, listener, server, router, err, ended, appErr, handler>>

\* processBatch returns; its error is logged.  Or Start sees the context.
RelayStep(m) ==
    /\ \/ relay[m] = "batch" /\ relay' = [relay EXCEPT ![m] = "idle"]
       \/ relay[m] = "idle" /\ Cancelled(m) /\ relay' = [relay EXCEPT ![m] = "returned"]
    /\ UNCHANGED <<mainVars, listener, server, router, err, ended, appErr, handler>>

\* Mutant of CloseRouter: only the end of a handler closes the router.
CloseRouterOfHandlers(m) ==
    /\ router[m] = "running"
    /\ err[m] # "none"
    /\ router' = [router EXCEPT ![m] = "returned"]
    /\ UNCHANGED <<mainVars, listener, server, relay, err, ended, appErr, handler>>

\* context.AfterFunc closes the router and Run returns nil.
CloseRouter(m) ==
    /\ router[m] = "running"
    /\ Cancelled(m)
    /\ router' = [router EXCEPT ![m] = "returned"]
    /\ UNCHANGED <<mainVars, listener, server, relay, err, ended, appErr, handler>>

\* Run fails: a handler's subscription is refused.
RouterFails(m) ==
    /\ router[m] = "running"
    /\ router' = [router EXCEPT ![m] = "returned"]
    /\ Keep(m, "router")
    /\ UNCHANGED <<mainVars, listener, server, relay, ended, appErr, handler>>

-----------------------------------------------------------------------------
(* The end of the modules, of App.Run and of main. *)

End(m) ==
    /\ ended' = ended \cup {m}
    /\ appErr' = IF appErr = NoModule /\ err[m] # "none" THEN m ELSE appErr
    /\ UNCHANGED <<mainVars, runVars, handler>>

\* Mutant of ModuleEnds: Start returns with the first error.
ModuleEndsAtOnce(m) ==
    /\ m \notin ended
    /\ \/ err[m] # "none"
       \/ server[m] = "returned" /\ relay[m] = "returned" /\ router[m] = "returned"
    /\ End(m)

\* g.Wait of Module.Start: all its goroutines have returned.
ModuleEnds(m) ==
    /\ m \notin ended
    /\ server[m] = "returned" /\ relay[m] = "returned" /\ router[m] = "returned"
    /\ End(m)

\* g.Wait of App.Run; main sets the exit code.
RunReturns ==
    /\ phase = "running"
    /\ ended = Module
    /\ phase' = "closing"
    /\ exitCode' = IF appErr # NoModule THEN 1 ELSE exitCode
    /\ UNCHANGED <<signalled, pool, runVars, ended, appErr, handler>>

\* The deferred calls: the bus is closed, the context cancelled, and
\* dbPool.Close gives out no more connections.
ClosePool ==
    /\ phase = "closing"
    /\ pool = "open"
    /\ pool' = "closing"
    /\ UNCHANGED <<phase, exitCode, signalled, runVars, ended, appErr, handler>>

InUse(m) == relay[m] = "batch" \/ \E p \in Protocol : handler[m][p] = "holding"

\* Mutant of Exit: os.Exit without dbPool.Close.
ExitAtOnce ==
    /\ phase = "closing"
    /\ phase' = "exited"
    /\ UNCHANGED <<exitCode, signalled, pool, runVars, ended, appErr, handler>>

\* dbPool.Close returns when every connection is back; os.Exit.
Exit ==
    /\ phase = "closing"
    /\ pool # "open"
    /\ pool = "closing" => \A m \in Module : ~InUse(m)
    /\ phase' = "exited"
    /\ UNCHANGED <<exitCode, signalled, pool, runVars, ended, appErr, handler>>

-----------------------------------------------------------------------------
(* Requests. *)

Handle(m, p, from, to) ==
    /\ phase # "exited"
    /\ handler[m][p] = from
    /\ handler' = [handler EXCEPT ![m][p] = to]
    /\ UNCHANGED <<mainVars, runVars, ended, appErr>>

\* A request arrives on a connection the listener accepted.  The connections
\* http.Server does not track go on delivering requests after it has closed.
Accept(m, p) ==
    /\ listener[m] \in IF p \in Tracked THEN {"serving"} ELSE {"serving", "closed"}
    /\ Handle(m, p, "none", "working")

\* Its handler takes a connection of the pool and gives it back.
Acquire(m, p) == pool = "open" /\ Handle(m, p, "working", "holding")
Release(m, p) == Handle(m, p, "holding", "working")

Finish(m, p) == Handle(m, p, "working", "none")

Request(m, p) == Accept(m, p) \/ Acquire(m, p) \/ Release(m, p) \/ Finish(m, p)

-----------------------------------------------------------------------------
Main ==
    \/ \E ok \in BOOLEAN : Boot(ok) \/ StartModules(ok)
    \/ \E created, answers \in BOOLEAN : OpenPool(created, answers)
    \/ RunReturns \/ ClosePool \/ Exit

Serve(m) == Listen(m) \/ Reach(m) \/ SeeCancel(m) \/ Stop(m)

Next ==
    \/ Main \/ Signal
    \/ \E m \in Module :
         \/ Serve(m) \/ Crash(m) \/ BeginBatch(m) \/ RelayStep(m)
         \/ CloseRouter(m) \/ RouterFails(m) \/ ModuleEnds(m)
         \/ \E p \in Protocol : Request(m, p)

Spec == Init /\ [][Next]_vars

\* Goroutines are scheduled, Shutdown returns by its timeout, processBatch
\* ends, and a handler gives its connection back; it need not end.
Fairness ==
    /\ WF_vars(Main)
    /\ \A m \in Module :
         /\ WF_vars(Serve(m)) /\ WF_vars(RelayStep(m))
         /\ WF_vars(CloseRouter(m)) /\ WF_vars(ModuleEnds(m))
         /\ \A p \in Protocol : WF_vars(Release(m, p))

FairSpec == Spec /\ Fairness

-----------------------------------------------------------------------------
\* Nothing of a module runs once main has taken over again: no listener
\* accepts requests and no relay is in a batch.
NothingRunsAfterRun ==
    phase \in {"closing", "exited"} =>
        \A m \in Module : listener[m] # "serving" /\ relay[m] # "batch"

\* os.Exit never cuts a transaction: no handler and no relay holds a
\* connection of the pool, even after a shutdown that timed out.
NoTransactionCut == phase = "exited" => \A m \in Module : ~InUse(m)

Abandoned(P) == \E m \in Module, p \in P : handler[m][p] # "none"

\* An exit code of 0 means that every request http.Server tracks was answered.
CleanExitIsGraceful == (phase = "exited" /\ exitCode = 0) => ~Abandoned(Tracked)

\* "Start blocks until the context is canceled, then performs a graceful
\* shutdown": an exit code of 0 means that every request was answered.
ShutdownIsGraceful == (phase = "exited" /\ exitCode = 0) => ~Abandoned(Protocol)

\* "A failure in any module cancels the shared context and returns the first
\* error": once a goroutine of a module has failed, all modules stop and the
\* process exits with code 1.
FailureEndsAll ==
    \A m \in Module : err[m] # "none" ~> (phase = "exited" /\ exitCode = 1)

\* A signal ends the process, whatever handlers do with the rest of their time.
SignalEndsAll == signalled ~> phase = "exited"
=============================================================================
