--------------------------- MODULE LifecycleProofs --------------------------
(***************************************************************************)
(* Proofs about Lifecycle, for every set of modules and kinds of requests: *)
(* main finds nothing running when App.Run returns, cuts no transaction,   *)
(* and exits with 0 only after a graceful shutdown.                        *)
(***************************************************************************)
EXTENDS Lifecycle, TLAPS

\* Nothing of any module has been launched, and no request has come.
NotStarted ==
    \A m \in Module :
        /\ listener[m] = "off" /\ server[m] = "off"
        /\ relay[m] = "off" /\ router[m] = "off"
        /\ \A p \in Protocol : handler[m][p] = "none"

\* What main knows in each phase.
MainInv ==
    /\ phase \in {"config", "logger", "pool"} => pool = "none"
    /\ phase \in {"config", "logger", "pool", "modules"} => NotStarted
    /\ phase \in {"modules", "running"} => pool # "none"
    /\ pool = "none" => NotStarted
    /\ phase \in {"closing", "exited"} =>
         NotStarted \/ (ended = Module /\ (exitCode = 0 => appErr = NoModule))

\* What the end of a server and of a module mean: a server past its select has
\* no listener, one that returned nil left no tracked request behind, and a
\* module that ended without an error has none of these goroutines left.
ModuleInv ==
    \A m \in Module :
        /\ ShutDown(m) => listener[m] # "serving"
        /\ (server[m] = "returned" /\ err[m] = "none") => ~Busy(m)
        /\ m \in ended => /\ server[m] = "returned" /\ relay[m] = "returned"
                          /\ router[m] = "returned"
                          /\ appErr = NoModule => err[m] = "none"

LifecycleInv == TypeOK /\ MainInv /\ ModuleInv /\ NoTransactionCut

\* Every step keeps the types.
LEMMA LifecycleTypeStep == TypeOK /\ [Next]_vars => TypeOK'
<1> SUFFICES ASSUME TypeOK, [Next]_vars
             PROVE  TypeOK'
  OBVIOUS
<1> USE LifecycleAssumption DEF TypeOK, mainVars, runVars
<1>1. CASE Main
  BY <1>1 DEF Main, Boot, OpenPool, StartModules, RunReturns, ClosePool, Exit
<1>2. CASE Signal
  BY <1>2 DEF Signal
<1>3. ASSUME NEW m \in Module, Serve(m) \/ Crash(m)
      PROVE  TypeOK'
  <2>1. CASE Listen(m)
    BY <2>1 DEF Listen
  <2>2. CASE Reach(m)
    BY <2>2 DEF Reach, Drain, Keep
  <2>3. CASE SeeCancel(m)
    BY <2>3 DEF SeeCancel, Drain
  <2>4. CASE Stop(m)
    BY <2>4 DEF Stop, Keep
  <2>5. CASE Crash(m)
    BY <2>5 DEF Crash, Keep
  <2> QED
    BY <1>3, <2>1, <2>2, <2>3, <2>4, <2>5 DEF Serve
<1>4. ASSUME NEW m \in Module,
             BeginBatch(m) \/ RelayStep(m) \/ CloseRouter(m) \/ RouterFails(m) \/ ModuleEnds(m)
      PROVE  TypeOK'
  <2>1. CASE BeginBatch(m)
    BY <2>1 DEF BeginBatch, Keep
  <2>2. CASE RelayStep(m)
    BY <2>2 DEF RelayStep, End, Keep
  <2>3. CASE CloseRouter(m)
    BY <2>3 DEF CloseRouter, End, Keep
  <2>4. CASE RouterFails(m)
    BY <2>4 DEF RouterFails, End, Keep
  <2>5. CASE ModuleEnds(m)
    BY <2>5 DEF ModuleEnds, End, Keep
  <2> QED
    BY <1>4, <2>1, <2>2, <2>3, <2>4, <2>5
<1>5. ASSUME NEW m \in Module, NEW p \in Protocol, Request(m, p)
      PROVE  TypeOK'
  <2>1. PICK to \in {"none", "working", "holding"} :
          handler' = [handler EXCEPT ![m][p] = to]
    BY <1>5 DEF Request, Accept, Acquire, Release, Finish, Handle
  <2>2. handler' \in [Module -> [Protocol -> {"none", "working", "holding"}]]
    BY <2>1
  <2>3. UNCHANGED <<mainVars, runVars, ended, appErr>>
    BY <1>5 DEF Request, Accept, Acquire, Release, Finish, Handle
  <2> QED
    BY <2>2, <2>3
<1>6. CASE UNCHANGED vars
  BY <1>6 DEF vars
<1> QED
  BY <1>1, <1>2, <1>3, <1>4, <1>5, <1>6 DEF Next

\* main's own steps: what a phase promises is there when it is reached.
LEMMA MainStep == LifecycleInv /\ Main /\ TypeOK' => LifecycleInv'
<1> SUFFICES ASSUME LifecycleInv, Main, TypeOK'
             PROVE  LifecycleInv'
  OBVIOUS
<1> USE LifecycleAssumption DEF LifecycleInv, TypeOK, runVars
<1>1. ASSUME NEW ok \in BOOLEAN, Boot(ok)
      PROVE  LifecycleInv'
  <2>1. MainInv'
    BY <1>1 DEF Boot, MainInv, NotStarted
  <2>2. ModuleInv'
    BY <1>1 DEF Boot, ModuleInv, ShutDown, Busy
  <2> QED
    BY <1>1, <2>1, <2>2 DEF Boot, NoTransactionCut
<1>2. ASSUME NEW created \in BOOLEAN, NEW answers \in BOOLEAN, OpenPool(created, answers)
      PROVE  LifecycleInv'
  <2>1. MainInv'
    BY <1>2 DEF OpenPool, MainInv, NotStarted
  <2>2. ModuleInv'
    BY <1>2 DEF OpenPool, ModuleInv, ShutDown, Busy
  <2> QED
    BY <1>2, <2>1, <2>2 DEF OpenPool, NoTransactionCut
<1>3. ASSUME NEW ok \in BOOLEAN, StartModules(ok)
      PROVE  LifecycleInv'
  <2>1. MainInv'
    BY <1>3 DEF StartModules, MainInv, NotStarted
  <2>2. ModuleInv'
    BY <1>3 DEF StartModules, MainInv, NotStarted, ModuleInv, ShutDown, Busy
  <2> QED
    BY <1>3, <2>1, <2>2 DEF StartModules, NoTransactionCut
<1>4. CASE RunReturns
  BY <1>4 DEF RunReturns, MainInv, NotStarted, ModuleInv, NoTransactionCut, ShutDown, Busy
<1>5. CASE ClosePool
  BY <1>5 DEF ClosePool, MainInv, NotStarted, ModuleInv, NoTransactionCut, ShutDown, Busy
<1>6. CASE Exit
  <2>1. MainInv' /\ ModuleInv'
    BY <1>6 DEF Exit, MainInv, NotStarted, ModuleInv, ShutDown, Busy
  <2>2. NoTransactionCut'
    <3>1. CASE pool = "closing"
      BY <1>6, <3>1 DEF Exit, NoTransactionCut, InUse
    <3>2. CASE pool = "none"
      BY <1>6, <3>2 DEF Exit, NoTransactionCut, InUse, MainInv, NotStarted
    <3> QED
      BY <1>6, <3>1, <3>2 DEF Exit
  <2> QED
    BY <2>1, <2>2
<1> QED
  BY <1>1, <1>2, <1>3, <1>4, <1>5, <1>6 DEF Main

\* A module that is not ended, or whose server is not over, is seen in the
\* phase "running" only.
LEMMA StillRunning ==
    ASSUME LifecycleInv, NEW m \in Module,
           server[m] \in {"starting", "waiting", "draining"}
             \/ relay[m] \in {"idle", "batch"} \/ router[m] = "running"
    PROVE  m \notin ended /\ phase = "running" /\ pool # "none" /\ ~NotStarted
BY DEF LifecycleInv, MainInv, ModuleInv, NotStarted, TypeOK

\* The server's steps: a listener is closed when Start leaves its select, and
\* Start returns nil only when no tracked request is left.
LEMMA ServerStep ==
    ASSUME LifecycleInv, TypeOK', NEW m \in Module, Serve(m) \/ Crash(m)
    PROVE  LifecycleInv'
<1> USE LifecycleAssumption DEF mainVars
<1>1. CASE Listen(m)
  <2>1. ~NotStarted
    BY <1>1 DEF Listen, NotStarted
  <2>2. MainInv'
    BY <1>1, <2>1 DEF Listen, MainInv, LifecycleInv
  <2>3. ModuleInv'
    BY <1>1 DEF Listen, ModuleInv, ShutDown, Busy, LifecycleInv, TypeOK
  <2> QED
    BY <1>1, <2>2, <2>3 DEF Listen, LifecycleInv, NoTransactionCut, InUse
<1>2. ASSUME server[m] \in {"starting", "waiting", "draining"},
             UNCHANGED <<mainVars, relay, router, ended, appErr, handler>>,
             ModuleInv'
      PROVE  LifecycleInv'
  <2>1. m \notin ended /\ phase = "running" /\ pool # "none"
    BY <1>2, StillRunning
  <2> QED
    BY <1>2, <2>1 DEF LifecycleInv, MainInv, NoTransactionCut
<1>3. ASSUME server[m] \in {"starting", "waiting"}, Drain(m), UNCHANGED <<mainVars, ended, appErr, relay, router, handler>>
      PROVE  ModuleInv'
  BY <1>3 DEF Drain, ModuleInv, ShutDown, Busy, LifecycleInv, TypeOK
<1>4. ASSUME server[m] \in {"starting", "waiting"}, listener'[m] = "crashed",
             \A n \in Module \ {m} : listener'[n] = listener[n],
             server' = [server EXCEPT ![m] = "returned"], Keep(m, "crash"),
             UNCHANGED <<mainVars, ended, appErr, relay, router, handler>>
      PROVE  ModuleInv'
  <2>1. m \notin ended
    BY <1>4, StillRunning
  <2> QED
    BY <1>4, <2>1 DEF Keep, ModuleInv, ShutDown, Busy, LifecycleInv, TypeOK
<1>5. CASE Reach(m)
  <2>1. CASE Drain(m)
    BY <1>5, <2>1, <1>2, <1>3 DEF Reach
  <2>2. CASE /\ listener[m] = "crashed"
             /\ server' = [server EXCEPT ![m] = "returned"]
             /\ Keep(m, "crash")
             /\ UNCHANGED listener
    BY <1>5, <2>2, <1>2, <1>4 DEF Reach
  <2>3. CASE /\ server' = [server EXCEPT ![m] = "waiting"]
             /\ UNCHANGED <<listener, err>>
    <3>1. ModuleInv'
      BY <1>5, <2>3 DEF Reach, ModuleInv, ShutDown, Busy, LifecycleInv, TypeOK
    <3> QED
      BY <1>5, <3>1, <1>2 DEF Reach
  <2> QED
    BY <1>5, <2>1, <2>2, <2>3 DEF Reach
<1>6. CASE SeeCancel(m)
  BY <1>6, <1>2, <1>3 DEF SeeCancel
<1>7. CASE Stop(m)
  <2>1. m \notin ended
    BY <1>7, StillRunning DEF Stop
  <2>2. ModuleInv'
    BY <1>7, <2>1 DEF Stop, Keep, ModuleInv, ShutDown, Busy, LifecycleInv, TypeOK
  <2> QED
    BY <1>7, <2>2, <1>2 DEF Stop
<1>8. CASE Crash(m)
  <2>1. CASE server[m] = "waiting" /\ ~Cancelled(m)
    BY <1>8, <2>1, <1>2, <1>4 DEF Crash, LifecycleInv, TypeOK
  <2>2. CASE ~(server[m] = "waiting" /\ ~Cancelled(m))
    <3>1. ~NotStarted
      BY <1>8 DEF Crash, NotStarted
    <3>2. MainInv'
      BY <1>8, <2>2, <3>1 DEF Crash, MainInv, LifecycleInv
    <3>3. ModuleInv'
      BY <1>8, <2>2 DEF Crash, ModuleInv, ShutDown, Busy, LifecycleInv, TypeOK
    <3> QED
      BY <1>8, <2>2, <3>2, <3>3 DEF Crash, LifecycleInv, NoTransactionCut, InUse
  <2> QED
    BY <2>1, <2>2
<1> QED
  BY <1>1, <1>5, <1>6, <1>7, <1>8 DEF Serve

\* The relay, the router and the end of a module.
LEMMA ModuleStep ==
    ASSUME LifecycleInv, TypeOK', NEW m \in Module,
           BeginBatch(m) \/ RelayStep(m) \/ CloseRouter(m) \/ RouterFails(m) \/ ModuleEnds(m)
    PROVE  LifecycleInv'
<1> USE LifecycleAssumption DEF mainVars, runVars
<1>1. CASE BeginBatch(m) \/ RelayStep(m) \/ CloseRouter(m) \/ RouterFails(m)
  <2>1. m \notin ended /\ phase = "running" /\ pool # "none"
    BY <1>1, StillRunning DEF BeginBatch, RelayStep, CloseRouter, RouterFails
  <2>2. UNCHANGED <<mainVars, listener, server, ended, appErr, handler>>
    BY <1>1 DEF BeginBatch, RelayStep, CloseRouter, RouterFails
  <2>3. /\ \A n \in Module \ {m} : relay'[n] = relay[n] /\ router'[n] = router[n] /\ err'[n] = err[n]
        /\ err'[m] = "none" => err[m] = "none"
    BY <1>1 DEF BeginBatch, RelayStep, CloseRouter, RouterFails, Keep, LifecycleInv, TypeOK
  <2>4. ModuleInv'
    BY <2>1, <2>2, <2>3 DEF ModuleInv, ShutDown, Busy, LifecycleInv, TypeOK
  <2> QED
    BY <2>1, <2>2, <2>4 DEF LifecycleInv, MainInv, NoTransactionCut
<1>2. CASE ModuleEnds(m)
  <2>1. UNCHANGED <<mainVars, runVars, handler>> /\ ~NotStarted
    BY <1>2 DEF ModuleEnds, End, NotStarted
  <2>2. MainInv'
    BY <1>2, <2>1 DEF ModuleEnds, End, MainInv, NotStarted, LifecycleInv
  <2>3. ModuleInv'
    BY <1>2, <2>1 DEF ModuleEnds, End, ModuleInv, ShutDown, Busy, LifecycleInv, TypeOK
  <2> QED
    BY <2>1, <2>2, <2>3 DEF LifecycleInv, NoTransactionCut, InUse
<1> QED
  BY <1>1, <1>2

\* Requests: no tracked one arrives at a server past its select, and none acts
\* once the process has exited.
LEMMA RequestStep ==
    ASSUME LifecycleInv, TypeOK', NEW m \in Module, NEW p \in Protocol, Request(m, p)
    PROVE  LifecycleInv'
<1> USE LifecycleAssumption DEF mainVars, runVars
<1>1. /\ phase # "exited"
      /\ UNCHANGED <<mainVars, runVars, ended, appErr>>
      /\ handler[m][p] = "none" => listener[m] \in {"serving", "closed"}
      /\ p \in Tracked /\ handler[m][p] = "none" => listener[m] = "serving"
    BY DEF Request, Accept, Acquire, Release, Finish, Handle
<1>2. PICK to \in {"none", "working", "holding"} : handler' = [handler EXCEPT ![m][p] = to]
    BY DEF Request, Accept, Acquire, Release, Finish, Handle
<1>3. ~NotStarted
  BY <1>1 DEF NotStarted
<1>4. MainInv'
  BY <1>1, <1>3 DEF MainInv, LifecycleInv
<1>5. ModuleInv'
  <2>1. \A n \in Module : server[n] = "returned" /\ err[n] = "none" => ~Busy(n)'
    <3> SUFFICES ASSUME NEW n \in Module, server[n] = "returned", err[n] = "none",
                        NEW q \in Tracked
                 PROVE  handler'[n][q] = "none"
      BY DEF Busy
    <3>1. handler[n][q] = "none" /\ listener[n] # "serving"
      BY DEF LifecycleInv, ModuleInv, Busy, ShutDown
    <3>2. n # m \/ q # p
      BY <1>1, <3>1
    <3> QED
      BY <1>2, <3>1, <3>2 DEF LifecycleInv, TypeOK
  <2> QED
    BY <1>1, <2>1 DEF ModuleInv, LifecycleInv, ShutDown
<1> QED
  BY <1>1, <1>4, <1>5 DEF LifecycleInv, NoTransactionCut

\* Every step preserves the invariant.
LEMMA LifecycleStep == LifecycleInv /\ [Next]_vars => LifecycleInv'
<1> SUFFICES ASSUME LifecycleInv, [Next]_vars
             PROVE  LifecycleInv'
  OBVIOUS
<1>1. TypeOK'
  BY LifecycleTypeStep DEF LifecycleInv
<1>2. CASE Signal
  <2>1. UNCHANGED <<phase, exitCode, pool, runVars, ended, appErr, handler>>
    BY <1>2 DEF Signal
  <2> QED
    BY <1>1, <2>1 DEF LifecycleInv, MainInv, NotStarted, ModuleInv, NoTransactionCut, ShutDown,
                      Busy, InUse, runVars
<1>3. CASE UNCHANGED vars
  BY <1>1, <1>3 DEF LifecycleInv, MainInv, NotStarted, ModuleInv, NoTransactionCut, ShutDown,
                    Busy, InUse, vars, mainVars, runVars
<1> QED
  BY <1>1, <1>2, <1>3, MainStep, ServerStep, ModuleStep, RequestStep DEF Next

\* The invariant holds of every behaviour.
LEMMA LifecycleInvariant == Spec => []LifecycleInv
<1>1. Init => TypeOK
  <2> DEFINE idle == [p \in Protocol |-> "none"]
             State == [Protocol -> {"none", "working", "holding"}]
  <2>1. idle \in State
    OBVIOUS
  <2> HIDE DEF idle, State
  <2>2. Init => handler \in [Module -> State]
    BY <2>1 DEF Init, idle
  <2>3. Init => /\ phase = "config" /\ exitCode = 0 /\ pool = "none"
                /\ signalled \in BOOLEAN /\ ended = {} /\ appErr = NoModule
    BY DEF Init
  <2>4. Init => /\ listener \in [Module -> {"off"}] /\ server \in [Module -> {"off"}]
                /\ relay \in [Module -> {"off"}] /\ router \in [Module -> {"off"}]
                /\ err \in [Module -> {"none"}]
    BY DEF Init
  <2> QED
    BY <2>2, <2>3, <2>4 DEF TypeOK, State
<1>2. Init => MainInv /\ NoTransactionCut
  BY DEF Init, MainInv, NotStarted, NoTransactionCut
<1>3. Init => ModuleInv
  BY DEF Init, ModuleInv, ShutDown
<1> QED
  BY <1>1, <1>2, <1>3, LifecycleStep, PTL DEF Spec, LifecycleInv

\* For every set of modules, no listener serves and no relay is in a batch
\* when main closes the pool (Module.Start and App.Run wait for everything).
THEOREM NothingRunning == Spec => []NothingRunsAfterRun
<1>1. LifecycleInv => NothingRunsAfterRun
  BY DEF LifecycleInv, MainInv, ModuleInv, NotStarted, NothingRunsAfterRun, ShutDown, TypeOK
<1> QED
  BY <1>1, LifecycleInvariant, PTL

\* For every set of modules and requests, os.Exit cuts no transaction.
THEOREM NoneCut == Spec => []NoTransactionCut
<1>1. LifecycleInv => NoTransactionCut
  BY DEF LifecycleInv
<1> QED
  BY <1>1, LifecycleInvariant, PTL

\* For every set of modules and requests, an exit code of 0 means that no
\* request tracked by http.Server was abandoned.
THEOREM ZeroMeansGraceful == Spec => []CleanExitIsGraceful
<1>1. LifecycleInv => CleanExitIsGraceful
  <2> SUFFICES ASSUME LifecycleInv, phase = "exited", exitCode = 0,
                      NEW m \in Module, NEW p \in Tracked
               PROVE  handler[m][p] = "none"
    BY DEF CleanExitIsGraceful, Abandoned
  <2>1. CASE NotStarted
    BY <2>1, LifecycleAssumption DEF NotStarted
  <2>2. CASE ended = Module /\ appErr = NoModule
    BY <2>2 DEF LifecycleInv, ModuleInv, Busy
  <2> QED
    BY <2>1, <2>2 DEF LifecycleInv, MainInv
<1> QED
  BY <1>1, LifecycleInvariant, PTL
=============================================================================
