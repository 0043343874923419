--------------------------- MODULE ScaffoldProofs ---------------------------
(***************************************************************************)
(* The scaffolding commands, for any set of modules and entities and any   *)
(* number of runs and failures.  The invariant relates the command in      *)
(* progress to what it has written so far: ScaffoldType gives the types,   *)
(* SlicePlaced says the files the snippets name are there, TraitsFit that  *)
(* the database the command goes by is the module's, and Reported what is  *)
(* already wired, listed, registered or put on the report.                 *)
(***************************************************************************)
EXTENDS Scaffold, TLAPS

Program == {"buf:generate", "mod tidy", "work sync"}
Tree == [dir : BOOLEAN, contracts : BOOLEAN, root : BOOLEAN, database : BOOLEAN,
         grpc : BOOLEAN, markers : SUBSET Marker, list : BOOLEAN]

\* A command that got past its checks, in progress or ended.
Started ==
    [at : Step \cup {"failed", "postFailed", "done"}, slice : Slice, shape : Shape,
     database : BOOLEAN, grpc : BOOLEAN, isModule : BOOLEAN, toInsert : Seq(Marker),
     unwired : SUBSET Marker, unlisted : BOOLEAN, toRun : Seq(Program)]

RepoType ==
    /\ tree \in [Module -> Tree]
    /\ slices \in [Slice -> SUBSET Part]
    /\ shapes \in [Slice -> Shape]
    /\ wired \in [Slice -> [Marker -> Nat]]
    /\ listed \in [Slice -> Nat]
    /\ gowork \in [Module -> Nat]
    /\ mise \in [Module -> Nat]
    /\ cleaned \subseteq Slice
    /\ runs \in 0..MaxRuns
    /\ faults \in 0..MaxFaults

CmdType ==
    /\ cmd \in Started \/ cmd \in [at : {"none", "refused"}]
    /\ cmd.at \in Step => cmd.toRun # <<>>

ScaffoldType == RepoType /\ CmdType

\* Whoever inserts or lists finds the whole slice rendered.
SlicePlaced == cmd.at \in {"insert", "table"} => slices[Target] = Part

\* What is settled after each step of a command.
Settled(k) == wired[Target][k] = 1 \/ k \in cmd.unwired
Needed == Range(RenderSnippets(cmd.shape, cmd.grpc))
Ended == {"done", "postFailed"}
Reported ==
    /\ cmd.at \in {"renderModule", "renderSlice"} =>
          cmd.toInsert = RenderSnippets(cmd.shape, cmd.grpc)
    /\ cmd.at = "insert" => \A k \in Needed : Settled(k) \/ k \in Range(cmd.toInsert)
    /\ cmd.at \in {"table", "gowork", "mise", "post"} \cup Ended => \A k \in Needed : Settled(k)
    /\ cmd.at \in {"gowork", "mise", "post"} \cup Ended =>
          (cmd.shape # "gateway" => listed[Target] = 1 \/ cmd.unlisted)
    /\ cmd.at \in {"mise", "post"} \cup Ended => (cmd.isModule => gowork[Home] = 1)
    /\ cmd.at \in {"post"} \cup Ended => (cmd.isModule => mise[Home] = 1)

-----------------------------------------------------------------------------
(* Types. *)

LEMMA SnippetsAreMarkers ==
    ASSUME NEW shape, NEW grpc \in BOOLEAN
    PROVE  RenderSnippets(shape, grpc) \in Seq(Marker)
<1> DEFINE front == <<"field", "wire">>
           h == IF grpc THEN <<"handler">> ELSE <<>>
           e == IF shape = "read-model" THEN <<>> ELSE <<"topic", "event">>
           err == <<"error">>
<1>1. front \in Seq(Marker)
  BY DEF Marker
<1>2. h \in Seq(Marker)
  <2>1. <<"handler">> \in Seq(Marker)
    BY DEF Marker
  <2> QED  BY <2>1
<1>3. e \in Seq(Marker)
  <2>1. <<"topic", "event">> \in Seq(Marker)
    BY DEF Marker
  <2> QED  BY <2>1
<1>4. err \in Seq(Marker)
  BY DEF Marker
<1>5. RenderSnippets(shape, grpc) = ((front \o h) \o e) \o err
  BY DEF RenderSnippets
<1> HIDE DEF front, h, e, err
<1>6. front \o h \in Seq(Marker)
  BY <1>1, <1>2
<1>7. (front \o h) \o e \in Seq(Marker)
  BY <1>6, <1>3
<1>8. ((front \o h) \o e) \o err \in Seq(Marker)
  BY <1>7, <1>4
<1> QED  BY <1>5, <1>8

LEMMA BeginStarts ==
    ASSUME NEW first \in {"renderModule", "renderSlice"}, NEW s \in Slice, NEW shape \in Shape,
           NEW database \in BOOLEAN, NEW grpc \in BOOLEAN
    PROVE  /\ Begin(first, s, shape, database, grpc) \in Started
           /\ Begin(first, s, shape, database, grpc).toRun # <<>>
<1>1. RenderSnippets(shape, grpc) \in Seq(Marker)
  BY SnippetsAreMarkers
<1>2. <<"buf:generate", "mod tidy", "work sync">> \in Seq(Program)
  BY DEF Program
<1>3. <<"buf:generate", "mod tidy", "work sync">> # <<>>
  OBVIOUS
<1> QED  BY <1>1, <1>2, <1>3 DEF Begin, Started, Step

LEMMA ShapeOfIsShape ==
    ASSUME NEW given \in {""} \cup Shape, NEW prompted \in BOOLEAN, NEW database \in BOOLEAN
    PROVE  ShapeOf(given, prompted, database) \in Shape
BY DEF ShapeOf, ApplyShapeDefault, Shape

\* A step of the command itself stays a started command.
LEMMA GotoStarted ==
    ASSUME NEW c \in Started, NEW at \in Step \cup {"failed", "postFailed", "done"}
    PROVE  [c EXCEPT !.at = at] \in Started
BY DEF Started

LEMMA StepIsStarted ==
    ASSUME CmdType, cmd.at \in Step
    PROVE  /\ cmd \in Started
           /\ cmd.toRun # <<>> /\ cmd.toRun \in Seq(Program) /\ cmd.toInsert \in Seq(Marker)
           /\ cmd.slice \in Slice /\ cmd.shape \in Shape /\ cmd.slice[1] \in Module
           /\ cmd.database \in BOOLEAN /\ cmd.grpc \in BOOLEAN /\ cmd.isModule \in BOOLEAN
<1>1. cmd \in Started
  BY DEF CmdType, Step
<1> QED  BY <1>1 DEF CmdType, Started, Slice

LEMMA InitTyped == Init => ScaffoldType
<1> SUFFICES ASSUME Init
             PROVE  ScaffoldType
  OBVIOUS
<1>1. tree \in [Module -> Tree]
  <2>1. NoTree \in Tree
    BY DEF NoTree, Tree
  <2>2. [dir : {TRUE}, contracts : {TRUE}, root : {TRUE}, database : {TRUE}, grpc : {FALSE},
         markers : {{}, RootFile}, list : BOOLEAN] \subseteq Tree
    BY DEF Tree, RootFile, Marker
  <2> QED  BY <2>1, <2>2 DEF Init
<1>2. gowork \in [Module -> Nat] /\ mise \in [Module -> Nat]
  BY DEF Init
<1>3. wired \in [Slice -> [Marker -> Nat]]
  BY DEF Init
<1>4. slices \in [Slice -> SUBSET Part] /\ shapes \in [Slice -> Shape] /\ listed \in [Slice -> Nat]
  BY DEF Init, Shape
<1>5. cleaned \subseteq Slice /\ runs \in 0..MaxRuns /\ faults \in 0..MaxFaults
  BY ScaffoldAssumption DEF Init
<1>6. CmdType
  BY DEF Init, CmdType, Step
<1> QED  BY <1>1, <1>2, <1>3, <1>4, <1>5, <1>6 DEF ScaffoldType, RepoType

\* Starting a command writes nothing; the command is refused or begins with a
\* slice that is new and a shape its module accepts.
LEMMA StartWrites ==
    ASSUME Start
    PROVE  /\ cmd.at \in End
           /\ runs < MaxRuns /\ runs' = runs + 1 /\ UNCHANGED <<repo, cleaned, faults>>
<1>1. PICK t \in Slice, given \in {""} \cup Shape, prompted \in BOOLEAN, named \in BOOLEAN :
          \/ NewEntity(t, given, prompted, named)
          \/ \E database, grpc \in BOOLEAN : NewModule(t, given, prompted, database, grpc, named)
  BY DEF Start
<1>2. CASE NewEntity(t, given, prompted, named)
  BY <1>2, Zenon DEF NewEntity, MayStart
<1>3. ASSUME NEW database \in BOOLEAN, NEW grpc \in BOOLEAN,
             NewModule(t, given, prompted, database, grpc, named)
      PROVE  /\ cmd.at \in End
             /\ runs < MaxRuns /\ runs' = runs + 1 /\ UNCHANGED <<repo, cleaned, faults>>
  BY <1>3, Zenon DEF NewModule, MayStart
<1> QED  BY <1>1, <1>2, <1>3, Zenon

LEMMA StartBegins ==
    ASSUME Start, tree \in [Module -> Tree]
    PROVE  \/ cmd' = [at |-> "refused"]
           \/ \E t \in Slice, shape \in Shape, database, grpc \in BOOLEAN :
                 /\ shape \in AllowedShapes(database)
                 /\ \/ /\ cmd' = Begin("renderModule", t, shape, database, grpc)
                       /\ ~tree[t[1]].dir
                    \/ /\ cmd' = Begin("renderSlice", t, shape, database, grpc)
                       /\ tree[t[1]].root /\ database = tree[t[1]].database
<1> DEFINE Begun(t, shape, database, grpc) ==
        /\ shape \in AllowedShapes(database)
        /\ \/ /\ cmd' = Begin("renderModule", t, shape, database, grpc)
              /\ ~tree[t[1]].dir
           \/ /\ cmd' = Begin("renderSlice", t, shape, database, grpc)
              /\ tree[t[1]].root /\ database = tree[t[1]].database
<1>1. PICK t \in Slice, given \in {""} \cup Shape, prompted \in BOOLEAN, named \in BOOLEAN :
          \/ NewEntity(t, given, prompted, named)
          \/ \E database, grpc \in BOOLEAN : NewModule(t, given, prompted, database, grpc, named)
  BY DEF Start
<1>2. CASE NewEntity(t, given, prompted, named)
  <2> DEFINE mod == tree[t[1]]
             shape == ShapeOf(given, prompted, mod.database)
  <2>1. mod \in Tree
    BY DEF Slice
  <2>2. mod.database \in BOOLEAN /\ mod.grpc \in BOOLEAN
    BY <2>1 DEF Tree
  <2>3. shape \in Shape
    BY <2>2, ShapeOfIsShape
  <2>4. cmd' = IF named /\ mod.root /\ ValidateSlice(t, shape, mod.database)
               THEN Begin("renderSlice", t, shape, mod.database, mod.grpc)
               ELSE [at |-> "refused"]
    BY <1>2, Zenon DEF NewEntity
  <2>5. CASE named /\ mod.root /\ ValidateSlice(t, shape, mod.database)
    <3>1. Begun(t, shape, mod.database, mod.grpc)
      BY <2>4, <2>5, Zenon DEF ValidateSlice
    <3> QED  BY <3>1, <2>2, <2>3, Zenon
  <2> QED  BY <2>4, <2>5, Zenon
<1>3. ASSUME NEW database \in BOOLEAN, NEW grpc \in BOOLEAN,
             NewModule(t, given, prompted, database, grpc, named)
      PROVE  \/ cmd' = [at |-> "refused"]
             \/ \E shape \in Shape : Begun(t, shape, database, grpc)
  <2> DEFINE shape == ShapeOf(given, prompted, database)
  <2>1. shape \in Shape
    BY ShapeOfIsShape
  <2>2. cmd' = IF named /\ Validate(t, shape, database)
               THEN Begin("renderModule", t, shape, database, grpc)
               ELSE [at |-> "refused"]
    BY <1>3, Zenon DEF NewModule
  <2>3. CASE named /\ Validate(t, shape, database)
    <3>1. Begun(t, shape, database, grpc)
      BY <2>2, <2>3, Zenon DEF Validate, ValidateSlice
    <3> QED  BY <3>1, <2>1, Zenon
  <2> QED  BY <2>2, <2>3, Zenon
<1> QED  BY <1>1, <1>2, <1>3, Zenon

\* A torn write ends the command; entries are lost and none is gained.
LEMMA TornWrites ==
    ASSUME ScaffoldType, WriteTorn
    PROVE  /\ cmd.at \in Step /\ cmd' = [cmd EXCEPT !.at = "failed"]
           /\ faults < MaxFaults /\ faults' = faults + 1
           /\ UNCHANGED <<slices, shapes, wired, cleaned, runs>>
           /\ tree' \in [Module -> Tree]
           /\ \A n \in Module : /\ tree'[n].dir = tree[n].dir
                                /\ tree'[n].root = tree[n].root
                                /\ tree'[n].database = tree[n].database
           /\ listed' \in [Slice -> Nat] /\ \A t \in Slice : listed'[t] \in {0, listed[t]}
           /\ gowork' \in [Module -> Nat] /\ \A n \in Module : gowork'[n] \in {0, gowork[n]}
           /\ mise' \in [Module -> Nat] /\ \A n \in Module : mise'[n] \in {0, mise[n]}
<1> USE DEF ScaffoldType, RepoType
<1>1. /\ cmd.at \in Step /\ cmd' = [cmd EXCEPT !.at = "failed"]
      /\ faults < MaxFaults /\ faults' = faults + 1
      /\ UNCHANGED <<slices, shapes, wired, cleaned, runs>>
  BY DEF WriteTorn, Goto, Step
<1>2. tree' = tree \/ tree' = [tree EXCEPT ![Home].list = FALSE]
  BY DEF WriteTorn
<1>3. /\ tree' \in [Module -> Tree]
      /\ \A n \in Module : /\ tree'[n].dir = tree[n].dir
                           /\ tree'[n].root = tree[n].root
                           /\ tree'[n].database = tree[n].database
  <2>1. CASE tree' = tree
    BY <2>1
  <2>2. CASE tree' = [tree EXCEPT ![Home].list = FALSE]
    BY <2>2 DEF Tree
  <2> QED  BY <1>2, <2>1, <2>2
<1>4. listed' = listed \/ listed' = [t \in Slice |-> IF t[1] = Home THEN 0 ELSE listed[t]]
  BY DEF WriteTorn
<1>5. listed' \in [Slice -> Nat] /\ \A t \in Slice : listed'[t] \in {0, listed[t]}
  BY <1>4
<1>6. gowork' = gowork \/ gowork' = [n \in Module |-> 0]
  BY DEF WriteTorn
<1>7. mise' = mise \/ mise' = [n \in Module |-> 0]
  BY DEF WriteTorn
<1> QED  BY <1>1, <1>3, <1>5, <1>6, <1>7

\* Every step keeps the types of the repository.
LEMMA RepoTyped ==
    ASSUME ScaffoldType, [Next]_vars
    PROVE  RepoType'
<1> USE ScaffoldAssumption DEF ScaffoldType, RepoType, repo
<1>1. CASE Start
  <2>1. runs < MaxRuns /\ runs' = runs + 1 /\ UNCHANGED <<repo, cleaned, faults>>
    BY <1>1, StartWrites
  <2>2. runs' \in 0..MaxRuns
    BY <2>1
  <2>3. UNCHANGED <<tree, slices, shapes, wired, listed, gowork, mise, cleaned, faults>>
    BY <2>1
  <2> QED  BY <2>2, <2>3
<1>2. CASE RenderModule
  <2>1. cmd.at \in Step
    BY <1>2 DEF RenderModule, Step
  <2>2. [dir |-> TRUE, contracts |-> TRUE, root |-> TRUE, database |-> cmd.database,
         grpc |-> cmd.grpc, markers |-> Marker, list |-> cmd.database] \in Tree
    BY <2>1, StepIsStarted DEF Tree
  <2>3. tree' \in [Module -> Tree]
    BY <1>2, <2>2 DEF RenderModule
  <2> QED  BY <1>2, <2>3 DEF RenderModule
<1>3. CASE RenderModuleFails
  <2>1. cmd.at \in Step
    BY <1>3 DEF RenderModuleFails, Step
  <2> PICK contracts, root, database, grpc, list \in BOOLEAN, written \in SUBSET Files :
          /\ RootFile \in written => root
          /\ tree' = [tree EXCEPT ![Home] = [dir |-> TRUE, contracts |-> contracts, root |-> root,
                         database |-> database /\ cmd.database, grpc |-> grpc /\ cmd.grpc,
                         markers |-> UNION written, list |-> list /\ cmd.database]]
    BY <1>3, Zenon DEF RenderModuleFails
  <2>2. UNION written \in SUBSET Marker
    BY DEF Files, FileOf, RootFile, Marker
  <2>3. [dir |-> TRUE, contracts |-> contracts, root |-> root,
         database |-> database /\ cmd.database, grpc |-> grpc /\ cmd.grpc,
         markers |-> UNION written, list |-> list /\ cmd.database] \in Tree
    BY <2>2 DEF Tree
  <2>4. tree' \in [Module -> Tree]
    BY <2>3
  <2> QED  BY <1>3, <2>4 DEF RenderModuleFails
<1>4. CASE RenderSlice
  <2>1. cmd.at \in Step
    BY <1>4 DEF RenderSlice, Step
  <2> QED  BY <1>4, <2>1, StepIsStarted DEF RenderSlice, Target
<1>5. CASE RenderSliceFails
  <2>1. cmd.at \in Step
    BY <1>5 DEF RenderSliceFails, Step
  <2>2. PICK P \in SUBSET Part : slices' = [slices EXCEPT ![Target] = @ \cup P]
    BY <1>5 DEF RenderSliceFails
  <2>3. slices' \in [Slice -> SUBSET Part]
    BY <2>2, <2>1, StepIsStarted DEF Target
  <2>4. shapes' \in [Slice -> Shape]
    BY <1>5, <2>1, StepIsStarted DEF RenderSliceFails, Target
  <2> QED  BY <1>5, <2>3, <2>4 DEF RenderSliceFails
<1>6. CASE InsertBefore
  <2>1. cmd.at \in Step /\ cmd.toInsert # <<>>
    BY <1>6 DEF InsertBefore, Step
  <2>2. Snippet \in Marker /\ Target \in Slice
    BY <2>1, StepIsStarted DEF Snippet, Target
  <2>3. Inserted(wired[Target][Snippet]) \in Nat
    BY <2>2 DEF Inserted
  <2>4. wired' \in [Slice -> [Marker -> Nat]]
    <3> DEFINE w == [wired[Target] EXCEPT ![Snippet] = Inserted(wired[Target][Snippet])]
    <3>1. w \in [Marker -> Nat]
      BY <2>2, <2>3
    <3>2. wired' = wired \/ wired' = [wired EXCEPT ![Target] = w]
      BY <1>6 DEF InsertBefore
    <3> QED  BY <2>2, <3>1, <3>2
  <2> QED  BY <1>6, <2>4 DEF InsertBefore
<1>7. ASSUME NEW torn \in BOOLEAN, InsertFails(torn)
      PROVE  RepoType'
  <2> DEFINE lost == IF torn THEN FileOf(Snippet) ELSE {}
  <2>1. tree' = [tree EXCEPT ![Home].markers = @ \ lost]
    BY <1>7 DEF InsertFails
  <2>2. wired' = [t \in Slice |-> [k \in Marker |->
                    IF t[1] = Home /\ k \in lost THEN 0 ELSE wired[t][k]]]
    BY <1>7 DEF InsertFails
  <2> HIDE DEF lost
  <2>3. tree' \in [Module -> Tree]
    BY <2>1 DEF Tree
  <2>4. wired' \in [Slice -> [Marker -> Nat]]
    BY <2>2
  <2> QED  BY <1>7, <2>3, <2>4 DEF InsertFails
<1>8. CASE AppendBungenTable
  <2>1. cmd.at \in Step
    BY <1>8 DEF AppendBungenTable, Step
  <2>2. Target \in Slice
    BY <2>1, StepIsStarted DEF Target
  <2>3. listed' \in [Slice -> Nat]
    BY <1>8, <2>2 DEF AppendBungenTable, Inserted
  <2> QED  BY <1>8, <2>3 DEF AppendBungenTable
<1>9. CASE UpdateGoWork
  <2>1. gowork' \in [Module -> Nat]
    <3>1. Home \in Module
      BY <1>9, StepIsStarted DEF UpdateGoWork, Step, Home
    <3>2. Inserted(gowork[Home]) \in Nat
      BY <3>1 DEF Inserted
    <3> QED  BY <1>9, <3>1, <3>2 DEF UpdateGoWork
  <2> QED  BY <1>9, <2>1 DEF UpdateGoWork
<1>10. CASE UpdateMiseToml
  <2>1. mise' \in [Module -> Nat]
    <3>1. Home \in Module
      BY <1>10, StepIsStarted DEF UpdateMiseToml, Step, Home
    <3>2. Inserted(mise[Home]) \in Nat
      BY <3>1 DEF Inserted
    <3> QED  BY <1>10, <3>1, <3>2 DEF UpdateMiseToml
  <2> QED  BY <1>10, <2>1 DEF UpdateMiseToml
<1>11. ASSUME NEW t \in Slice, RemoveSlice(t)
       PROVE  RepoType'
  BY <1>11 DEF RemoveSlice
<1>12. ASSUME NEW n \in Module, NEW contracts \in BOOLEAN, RemoveModule(n, contracts)
       PROVE  RepoType'
  <2>1. [NoTree EXCEPT !.contracts = tree[n].contracts /\ ~contracts] \in Tree
    BY DEF NoTree, Tree
  <2>2. tree' \in [Module -> Tree]
    BY <1>12, <2>1 DEF RemoveModule
  <2>3. slices' \in [Slice -> SUBSET Part]
    BY <1>12 DEF RemoveModule
  <2>4. wired' \in [Slice -> [Marker -> Nat]]
    BY <1>12 DEF RemoveModule
  <2>5. listed' \in [Slice -> Nat]
    BY <1>12 DEF RemoveModule
  <2> QED  BY <1>12, <2>2, <2>3, <2>4, <2>5 DEF RemoveModule
<1>13. CASE InsertEnds \/ RunStep \/ StopsHere \/ RunStepFails
  BY <1>13 DEF InsertEnds, RunStep, StopsHere, RunStepFails
<1>14. CASE UNCHANGED vars
  BY <1>14 DEF vars
<1>15. CASE WriteTorn
  <2>1. faults' \in 0..MaxFaults
    BY <1>15, TornWrites
  <2> QED  BY <1>15, <2>1, TornWrites
<1> QED
  BY <1>1, <1>2, <1>3, <1>4, <1>5, <1>6, <1>7, <1>8, <1>9, <1>10, <1>11, <1>12, <1>13, <1>14, <1>15
     DEF Next, Proceed, Fail

\* Every step keeps the command a record of one of the two kinds.
LEMMA CmdTyped ==
    ASSUME ScaffoldType, [Next]_vars
    PROVE  CmdType'
<1>1. CASE Start
  <2>1. CASE cmd' = [at |-> "refused"]
    BY <2>1 DEF CmdType, Step
  <2>2. ASSUME NEW t \in Slice, NEW shape \in Shape, NEW database \in BOOLEAN, NEW grpc \in BOOLEAN,
               NEW first \in {"renderModule", "renderSlice"},
               cmd' = Begin(first, t, shape, database, grpc)
        PROVE  CmdType'
    BY <2>2, BeginStarts DEF CmdType
  <2> QED  BY <1>1, <2>1, <2>2, StartBegins DEF ScaffoldType, RepoType
<1>2. ASSUME cmd.at \in Step,
             NEW at \in Step \cup {"failed", "postFailed", "done"}, cmd' = [cmd EXCEPT !.at = at]
      PROVE  CmdType'
  <2>1. cmd \in Started /\ cmd.toRun # <<>>
    BY <1>2, StepIsStarted DEF ScaffoldType
  <2>2. cmd' \in Started
    BY <1>2, <2>1, GotoStarted
  <2>3. cmd'.toRun = cmd.toRun
    BY <1>2, <2>1 DEF Started
  <2> QED  BY <2>1, <2>2, <2>3 DEF CmdType
<1>3. CASE RenderModule \/ RenderSlice \/ InsertEnds \/ UpdateGoWork \/ UpdateMiseToml
  BY <1>2, <1>3 DEF RenderModule, RenderSlice, InsertEnds, UpdateGoWork, UpdateMiseToml, Goto, Step
<1>4. CASE RenderModuleFails \/ RenderSliceFails \/ StopsHere \/ RunStepFails
  BY <1>2, <1>4 DEF RenderModuleFails, RenderSliceFails, StopsHere, RunStepFails, Goto, Step
<1>5. ASSUME NEW torn \in BOOLEAN, InsertFails(torn)
      PROVE  CmdType'
  <2>1. cmd.at \in Step /\ cmd' = [cmd EXCEPT !.at = "failed"]
    BY <1>5 DEF InsertFails, Goto, Step
  <2> QED  BY <1>2, <2>1
<1>6. CASE InsertBefore
  <2>1. cmd.at \in Step /\ cmd.toInsert # <<>>
    BY <1>6 DEF InsertBefore, Step
  <2>2. /\ cmd \in Started /\ cmd.toRun # <<>> /\ cmd.toInsert \in Seq(Marker)
        /\ Tail(cmd.toInsert) \in Seq(Marker) /\ Snippet \in Marker
    BY <2>1, StepIsStarted DEF ScaffoldType, Snippet
  <2>3. CASE cmd' = [cmd EXCEPT !.toInsert = Tail(@)]
    BY <2>2, <2>3 DEF CmdType, Started
  <2>4. CASE cmd' = [cmd EXCEPT !.toInsert = Tail(@), !.unwired = @ \cup {Snippet}]
    BY <2>2, <2>4 DEF CmdType, Started
  <2> QED  BY <1>6, <2>3, <2>4 DEF InsertBefore
<1>7. CASE AppendBungenTable
  <2>1. cmd.at \in Step
    BY <1>7 DEF AppendBungenTable, Step
  <2>2. cmd \in Started /\ cmd.toRun # <<>>
    BY <2>1, StepIsStarted DEF ScaffoldType
  <2>3. PICK next \in {"gowork", "post"}, unlisted \in BOOLEAN :
           cmd' = [cmd EXCEPT !.at = next, !.unlisted = unlisted]
    BY <1>7 DEF AppendBungenTable
  <2> QED  BY <2>2, <2>3 DEF CmdType, Started, Step
<1>8. CASE RunStep
  <2>1. cmd.at \in Step
    BY <1>8 DEF RunStep, Step
  <2>2. cmd \in Started /\ cmd.toRun # <<>> /\ cmd.toRun \in Seq(Program)
    BY <2>1, StepIsStarted DEF ScaffoldType
  <2>3. Tail(cmd.toRun) \in Seq(Program)
    BY <2>2
  <2>4. CASE Len(cmd.toRun) = 1
    <3>1. cmd' = [cmd EXCEPT !.toRun = Tail(@), !.at = "done"]
      BY <1>8, <2>4 DEF RunStep
    <3> QED  BY <3>1, <2>2, <2>3 DEF CmdType, Started, Step
  <2>5. CASE Len(cmd.toRun) # 1
    <3>1. cmd' = [cmd EXCEPT !.toRun = Tail(@), !.at = "post"]
      BY <1>8, <2>5 DEF RunStep
    <3>2. Len(cmd.toRun) \in Nat /\ Len(cmd.toRun) # 0
      BY <2>2
    <3>3. Len(Tail(cmd.toRun)) = Len(cmd.toRun) - 1
      BY <2>2
    <3>4. Tail(cmd.toRun) # <<>>
      <4> DEFINE rest == Tail(cmd.toRun)
      <4>1. rest \in Seq(Program) /\ Len(rest) # 0
        BY <2>3, <2>5, <3>2, <3>3
      <4> HIDE DEF rest
      <4>2. rest # <<>>
        BY <4>1
      <4> QED  BY <4>2 DEF rest
    <3> QED  BY <3>1, <3>4, <2>2, <2>3 DEF CmdType, Started, Step
  <2> QED  BY <2>4, <2>5
<1>9. ASSUME NEW t \in Slice, RemoveSlice(t)
      PROVE  CmdType'
  BY <1>9 DEF RemoveSlice, CmdType, Step
<1>10. ASSUME NEW n \in Module, NEW contracts \in BOOLEAN, RemoveModule(n, contracts)
       PROVE  CmdType'
  <2>1. cmd' = [at |-> "none"]
    BY <1>10 DEF RemoveModule
  <2> QED  BY <2>1 DEF CmdType, Step
<1>11. CASE UNCHANGED vars
  BY <1>11 DEF vars, ScaffoldType, CmdType
<1>12. CASE WriteTorn
  BY <1>2, <1>12, TornWrites
<1> QED
  BY <1>1, <1>3, <1>4, <1>5, <1>6, <1>7, <1>8, <1>9, <1>10, <1>11, <1>12 DEF Next, Proceed, Fail

LEMMA ScaffoldTypeCorrect == Spec => []ScaffoldType
<1>1. ScaffoldType /\ [Next]_vars => ScaffoldType'
  BY RepoTyped, CmdTyped DEF ScaffoldType
<1> QED  BY <1>1, InitTyped, PTL DEF Spec

\* The repository and the command keep their types, whatever fails: in
\* particular a command in progress always has a program left to run.
THEOREM CommandsWellTyped == Spec => []TypeOK
<1>1. ScaffoldType => TypeOK
  <2> SUFFICES ASSUME ScaffoldType PROVE TypeOK
    OBVIOUS
  <2>1. cmd.at \in Step \cup End
    BY DEF ScaffoldType, CmdType, Started, End
  <2>2. cmd.at \in Step => /\ cmd.slice \in Slice /\ cmd.shape \in Shape
                           /\ cmd.unwired \subseteq Marker /\ cmd.toInsert \in Seq(Marker)
                           /\ cmd.toRun # <<>>
    BY StepIsStarted DEF ScaffoldType, Started
  <2>3. tree \in [Module -> [dir : BOOLEAN, contracts : BOOLEAN, root : BOOLEAN, database : BOOLEAN,
                            grpc : BOOLEAN, markers : SUBSET Marker, list : BOOLEAN]]
    BY DEF ScaffoldType, RepoType, Tree
  <2> QED  BY <2>1, <2>2, <2>3 DEF TypeOK, ScaffoldType, RepoType
<1> QED  BY <1>1, ScaffoldTypeCorrect, PTL

-----------------------------------------------------------------------------
(* Nothing is entered twice. *)

LEMMA InsertedIsOne ==
    ASSUME NEW n \in Nat, n <= 1
    PROVE  Inserted(n) = 1
BY DEF Inserted

\* Looking before writing is enough: every counter goes from 0 to 1 or stays.
LEMMA OnceStep ==
    ASSUME ScaffoldType, EnteredOnce, [Next]_vars
    PROVE  EnteredOnce'
<1> USE DEF EnteredOnce, RepoType, ScaffoldType
<1>1. CASE UNCHANGED <<wired, listed, gowork, mise>>
  BY <1>1
<1>2. CASE Start \/ RenderModule \/ RenderModuleFails \/ RenderSlice \/ RenderSliceFails
           \/ InsertEnds \/ StopsHere \/ RunStep \/ RunStepFails \/ UNCHANGED vars
  BY <1>1, <1>2, StartWrites DEF RenderModule, RenderModuleFails, RenderSlice, RenderSliceFails,
     InsertEnds, StopsHere, RunStep, RunStepFails, vars, repo
<1>3. CASE InsertBefore
  <2>1. cmd.at \in Step /\ cmd.toInsert # <<>>
    BY <1>3 DEF InsertBefore, Step
  <2>2. Snippet \in Marker /\ Target \in Slice
    BY <2>1, StepIsStarted DEF Snippet, Target
  <2>3. Inserted(wired[Target][Snippet]) = 1
    BY <2>2, InsertedIsOne
  <2>4. \/ wired' = wired
        \/ wired' = [wired EXCEPT ![Target] = [wired[Target] EXCEPT ![Snippet] = 1]]
    <3> DEFINE w == [wired[Target] EXCEPT ![Snippet] = Inserted(wired[Target][Snippet])]
    <3>1. wired' = wired \/ wired' = [wired EXCEPT ![Target] = w]
      BY <1>3 DEF InsertBefore
    <3> QED  BY <3>1, <2>3
  <2>5. \A t \in Slice, k \in Marker : wired'[t][k] <= 1
    BY <2>2, <2>4
  <2> QED  BY <1>3, <2>5 DEF InsertBefore
<1>4. ASSUME NEW torn \in BOOLEAN, InsertFails(torn)
      PROVE  EnteredOnce'
  <2> DEFINE lost == IF torn THEN FileOf(Snippet) ELSE {}
  <2>1. wired' = [t \in Slice |-> [k \in Marker |->
                    IF t[1] = Home /\ k \in lost THEN 0 ELSE wired[t][k]]]
    BY <1>4 DEF InsertFails
  <2> HIDE DEF lost
  <2>2. \A t \in Slice, k \in Marker : wired'[t][k] <= 1
    BY <2>1
  <2> QED  BY <1>4, <2>2 DEF InsertFails
<1>5. CASE AppendBungenTable
  <2>1. Target \in Slice
    BY <1>5, StepIsStarted DEF AppendBungenTable, Step, Target
  <2>2. Inserted(listed[Target]) = 1
    BY <2>1, InsertedIsOne
  <2>3. listed' = listed \/ listed' = [listed EXCEPT ![Target] = 1]
    BY <1>5, <2>2 DEF AppendBungenTable
  <2> QED  BY <1>5, <2>1, <2>3 DEF AppendBungenTable
<1>6. CASE UpdateGoWork
  <2>1. Home \in Module
    BY <1>6, StepIsStarted DEF UpdateGoWork, Step, Home
  <2>2. gowork' = [gowork EXCEPT ![Home] = 1]
    BY <1>6, <2>1, InsertedIsOne DEF UpdateGoWork
  <2> QED  BY <1>6, <2>1, <2>2 DEF UpdateGoWork
<1>7. CASE UpdateMiseToml
  <2>1. Home \in Module
    BY <1>7, StepIsStarted DEF UpdateMiseToml, Step, Home
  <2>2. mise' = [mise EXCEPT ![Home] = 1]
    BY <1>7, <2>1, InsertedIsOne DEF UpdateMiseToml
  <2> QED  BY <1>7, <2>1, <2>2 DEF UpdateMiseToml
<1>8. ASSUME NEW t \in Slice, RemoveSlice(t)
      PROVE  EnteredOnce'
  BY <1>1, <1>8 DEF RemoveSlice
<1>9. ASSUME NEW n \in Module, NEW contracts \in BOOLEAN, RemoveModule(n, contracts)
      PROVE  EnteredOnce'
  <2>1. \A t \in Slice, k \in Marker : wired'[t][k] <= 1
    BY <1>9 DEF RemoveModule
  <2>2. \A t \in Slice : listed'[t] <= 1
    BY <1>9 DEF RemoveModule
  <2> QED  BY <1>9, <2>1, <2>2 DEF RemoveModule
<1>10. CASE WriteTorn
  <2>1. \A t \in Slice : listed'[t] <= 1
    BY <1>10, TornWrites
  <2>2. \A n \in Module : gowork'[n] <= 1 /\ mise'[n] <= 1
    BY <1>10, TornWrites
  <2> QED  BY <1>10, <2>1, <2>2, TornWrites
<1> QED
  BY <1>2, <1>3, <1>4, <1>5, <1>6, <1>7, <1>8, <1>9, <1>10 DEF Next, Proceed, Fail

\* Nothing is entered twice, whatever failed and was run again: the snippets at
\* the markers, the tables of the bungen list, the modules of go.work and of
\* mise.toml.
THEOREM NothingTwice == Spec => []EnteredOnce
<1>1. Init => EnteredOnce
  BY DEF Init, EnteredOnce
<1> QED  BY <1>1, OnceStep, ScaffoldTypeCorrect, PTL DEF Spec

-----------------------------------------------------------------------------
(* What the files name is there. *)

SliceInv == SlicePlaced /\ NoDanglingSnippet

LEMMA PlacedStep ==
    ASSUME ScaffoldType, SlicePlaced, [Next]_vars
    PROVE  SlicePlaced'
<1> USE DEF SlicePlaced, Target
<1>1. CASE Start
  <2>1. CASE cmd' = [at |-> "refused"]
    BY <2>1
  <2>2. ASSUME NEW t \in Slice, NEW shape \in Shape, NEW database \in BOOLEAN, NEW grpc \in BOOLEAN,
               NEW first \in {"renderModule", "renderSlice"},
               cmd' = Begin(first, t, shape, database, grpc)
        PROVE  SlicePlaced'
    BY <2>2 DEF Begin
  <2> QED  BY <1>1, <2>1, <2>2, StartBegins DEF ScaffoldType, RepoType
<1>2. CASE cmd.at \in Step
  <2>1. cmd \in Started /\ cmd.slice \in Slice
    BY <1>2, StepIsStarted DEF ScaffoldType
  <2>2. CASE RenderSlice
    <3>1. cmd'.slice = cmd.slice
      BY <2>1, <2>2 DEF RenderSlice, Goto, Started
    <3>2. slices'[cmd.slice] = Part
      BY <2>1, <2>2 DEF RenderSlice, ScaffoldType, RepoType
    <3> QED  BY <3>1, <3>2
  <2>3. CASE InsertBefore \/ InsertEnds
    <3>1. UNCHANGED slices /\ cmd'.slice = cmd.slice /\ cmd.at = "insert"
      BY <2>1, <2>3 DEF InsertBefore, InsertEnds, Goto, Started, repo
    <3> QED  BY <3>1
  <2>4. CASE RenderModule \/ RenderModuleFails \/ RenderSliceFails \/ StopsHere \/ RunStepFails
             \/ UpdateGoWork \/ UpdateMiseToml
    <3>1. cmd'.at \notin {"insert", "table"}
      BY <2>1, <2>4 DEF RenderModule, RenderModuleFails, RenderSliceFails, StopsHere, RunStepFails,
         UpdateGoWork, UpdateMiseToml, Goto, Started
    <3> QED  BY <3>1
  <2>5. CASE AppendBungenTable \/ RunStep
    <3>1. cmd'.at \in {"gowork", "post", "done"}
      BY <2>1, <2>5 DEF AppendBungenTable, RunStep, Started
    <3> QED  BY <3>1
  <2>6. ASSUME NEW torn \in BOOLEAN, InsertFails(torn)
        PROVE  SlicePlaced'
    <3>1. cmd'.at = "failed"
      BY <2>1, <2>6 DEF InsertFails, Goto, Started
    <3> QED  BY <3>1
  <2>7. CASE UNCHANGED vars
    BY <2>7 DEF vars, repo
  <2>8. ~(\E t \in Slice : RemoveSlice(t)) /\ ~(\E n \in Module, c \in BOOLEAN : RemoveModule(n, c))
    <3>1. cmd.at \notin End
      BY <1>2 DEF Step, End
    <3> QED  BY <3>1, Zenon DEF RemoveSlice, RemoveModule
  <2>9. CASE WriteTorn
    <3>1. cmd'.at = "failed"
      BY <2>1, <2>9, TornWrites DEF Started
    <3> QED  BY <3>1
  <2> QED  BY <1>1, <2>2, <2>3, <2>4, <2>5, <2>6, <2>7, <2>8, <2>9 DEF Next, Proceed, Fail
<1>3. CASE cmd.at \notin Step
  <2>1. CASE UNCHANGED vars
    BY <2>1 DEF vars, repo
  <2>2. ASSUME NEW t \in Slice, RemoveSlice(t)
        PROVE  SlicePlaced'
    <3>1. cmd'.at = "none"
      BY <2>2 DEF RemoveSlice
    <3> QED  BY <3>1
  <2>3. ASSUME NEW n \in Module, NEW contracts \in BOOLEAN, RemoveModule(n, contracts)
        PROVE  SlicePlaced'
    <3>1. cmd' = [at |-> "none"]
      BY <2>3, Zenon DEF RemoveModule
    <3> QED  BY <3>1
  <2>4. ~Proceed /\ ~Fail
    BY <1>3 DEF Proceed, Fail, Step, RenderModule, RenderSlice, InsertBefore, InsertEnds,
       AppendBungenTable, UpdateGoWork, UpdateMiseToml, RunStep, RenderModuleFails,
       RenderSliceFails, WriteTorn, StopsHere, RunStepFails, InsertFails
  <2> QED  BY <1>1, <2>1, <2>2, <2>3, <2>4 DEF Next
<1> QED  BY <1>2, <1>3

\* A slice the files name loses none of its files but by the developer's hand.
LEMMA DanglingStep ==
    ASSUME ScaffoldType, SliceInv, [Next]_vars
    PROVE  NoDanglingSnippet'
<1> USE DEF SliceInv, SlicePlaced, NoDanglingSnippet, ScaffoldType, RepoType, Target
<1>1. CASE UNCHANGED <<wired, listed, slices, cleaned>>
  BY <1>1
<1>2. CASE Start \/ RenderModule \/ RenderModuleFails \/ InsertEnds \/ UpdateGoWork
           \/ UpdateMiseToml \/ StopsHere \/ RunStep \/ RunStepFails \/ UNCHANGED vars
  <2>1. UNCHANGED <<wired, listed, slices, cleaned>>
    BY <1>2, StartWrites DEF RenderModule, RenderModuleFails, InsertEnds, UpdateGoWork,
       UpdateMiseToml, StopsHere, RunStep, RunStepFails, vars, repo
  <2> QED  BY <1>1, <2>1
<1>3. CASE RenderSlice
  <2>1. slices' = [slices EXCEPT ![cmd.slice] = Part] /\ cleaned' = cleaned \ {cmd.slice}
    BY <1>3 DEF RenderSlice
  <2>2. UNCHANGED <<wired, listed>>
    BY <1>3 DEF RenderSlice
  <2> QED  BY <2>1, <2>2
<1>4. CASE RenderSliceFails
  <2>1. PICK P \in SUBSET Part : slices' = [slices EXCEPT ![cmd.slice] = @ \cup P]
    BY <1>4 DEF RenderSliceFails
  <2>2. UNCHANGED <<wired, listed, cleaned>>
    BY <1>4 DEF RenderSliceFails
  <2>3. ASSUME NEW t \in Slice \ cleaned, slices[t] = Part
        PROVE  slices'[t] = Part
    BY <2>1, <2>3
  <2> QED  BY <2>2, <2>3
<1>5. CASE InsertBefore
  <2>1. slices[cmd.slice] = Part
    BY <1>5 DEF InsertBefore
  <2>2. UNCHANGED <<listed, slices, cleaned>>
    BY <1>5 DEF InsertBefore
  <2> DEFINE w == [wired[cmd.slice] EXCEPT ![Snippet] = Inserted(wired[cmd.slice][Snippet])]
  <2>3. wired' = wired \/ wired' = [wired EXCEPT ![cmd.slice] = w]
    BY <1>5 DEF InsertBefore
  <2> HIDE DEF w
  <2>4. \A t \in Slice : t # cmd.slice => wired'[t] = wired[t]
    BY <2>3
  <2> QED  BY <2>1, <2>2, <2>4
<1>6. ASSUME NEW torn \in BOOLEAN, InsertFails(torn)
      PROVE  NoDanglingSnippet'
  <2> DEFINE lost == IF torn THEN FileOf(Snippet) ELSE {}
  <2>1. wired' = [t \in Slice |-> [k \in Marker |->
                    IF t[1] = Home /\ k \in lost THEN 0 ELSE wired[t][k]]]
    BY <1>6 DEF InsertFails
  <2> HIDE DEF lost
  <2>2. \A t \in Slice, k \in Marker : wired'[t][k] > 0 => wired[t][k] > 0
    BY <2>1
  <2>3. UNCHANGED <<listed, slices, cleaned>>
    BY <1>6 DEF InsertFails
  <2> QED  BY <2>2, <2>3
<1>7. CASE AppendBungenTable
  <2>1. slices[cmd.slice] = Part
    BY <1>7 DEF AppendBungenTable
  <2>2. UNCHANGED <<wired, slices, cleaned>>
    BY <1>7 DEF AppendBungenTable
  <2>3. listed' = listed \/ listed' = [listed EXCEPT ![cmd.slice] = Inserted(listed[cmd.slice])]
    BY <1>7 DEF AppendBungenTable
  <2>4. \A t \in Slice : t # cmd.slice => listed'[t] = listed[t]
    BY <2>3
  <2> QED  BY <2>1, <2>2, <2>4
<1>8. ASSUME NEW t \in Slice, RemoveSlice(t)
      PROVE  NoDanglingSnippet'
  BY <1>8 DEF RemoveSlice
<1>9. ASSUME NEW n \in Module, NEW contracts \in BOOLEAN, RemoveModule(n, contracts)
      PROVE  NoDanglingSnippet'
  <2>1. \A t \in Slice : t[1] = n => listed'[t] = 0 /\ \A k \in Marker : wired'[t][k] = 0
    BY <1>9 DEF RemoveModule
  <2>2. \A t \in Slice : t[1] # n =>
           listed'[t] = listed[t] /\ wired'[t] = wired[t] /\ slices'[t] = slices[t]
    BY <1>9 DEF RemoveModule
  <2>3. \A t \in Slice : t[1] # n /\ t \notin cleaned' => t \notin cleaned
    BY <1>9 DEF RemoveModule
  <2> QED  BY <2>1, <2>2, <2>3
<1>10. CASE WriteTorn
  <2>1. UNCHANGED <<wired, slices, cleaned>>
    BY <1>10, TornWrites, Zenon
  <2>2. \A t \in Slice : listed'[t] \in {0, listed[t]}
    BY <1>10, TornWrites, Zenon
  <2>3. \A t \in Slice : listed'[t] > 0 => listed[t] > 0
    BY <2>2
  <2> QED  BY <2>1, <2>3
<1> QED
  BY <1>2, <1>3, <1>4, <1>5, <1>6, <1>7, <1>8, <1>9, <1>10 DEF Next, Proceed, Fail

\* Wherever a command stopped, the module's files and the bungen list name only
\* slices that are all there, unless the developer removed them.
THEOREM NamedSlicesExist == Spec => []NoDanglingSnippet
<1>1. Init => SliceInv
  BY DEF Init, SliceInv, SlicePlaced, NoDanglingSnippet
<1>2. ScaffoldType /\ SliceInv /\ [Next]_vars => SliceInv'
  BY PlacedStep, DanglingStep DEF SliceInv
<1>3. SliceInv => NoDanglingSnippet
  BY DEF SliceInv
<1> QED  BY <1>1, <1>2, <1>3, ScaffoldTypeCorrect, PTL DEF Spec

-----------------------------------------------------------------------------
(* Slices fit their module. *)

\* What the command goes by: the database it renders, or the module's.
TraitsFit ==
    /\ cmd.at = "renderModule" =>
          ~tree[Home].dir /\ (cmd.shape # "gateway" => cmd.database)
    /\ cmd.at = "renderSlice" =>
          tree[Home].dir /\ (cmd.shape # "gateway" => tree[Home].database)

\* What the repository holds.
RootsHaveDirs == \A n \in Module : tree[n].root => tree[n].dir
NoOrphans == \A t \in Slice : ~tree[t[1]].dir => slices[t] \subseteq {"proto"}

\* The module's tree changes only under these four actions, and how.
LEMMA TreeChanges ==
    ASSUME ScaffoldType, [Next]_vars
    PROVE  \/ UNCHANGED tree
           \/ /\ cmd.at = "renderModule"
              /\ \A n \in Module : n # Home => tree'[n] = tree[n]
              /\ tree'[Home].dir
              /\ UNCHANGED <<slices, shapes>>
           \/ /\ \A n \in Module : /\ tree'[n].dir = tree[n].dir
                                   /\ tree'[n].root = tree[n].root
                                   /\ tree'[n].database = tree[n].database
              /\ UNCHANGED <<slices, shapes>>
           \/ \E n \in Module, contracts \in BOOLEAN : RemoveModule(n, contracts)
<1> USE DEF ScaffoldType, RepoType
<1>1. CASE RenderModule
  <2>1. Home \in Module
    BY <1>1, StepIsStarted DEF RenderModule, Step, Home
  <2> DEFINE new == [dir |-> TRUE, contracts |-> TRUE, root |-> TRUE, database |-> cmd.database,
                     grpc |-> cmd.grpc, markers |-> Marker, list |-> cmd.database]
  <2>2. new.dir
    OBVIOUS
  <2>3. tree' = [tree EXCEPT ![Home] = new] /\ cmd.at = "renderModule" /\ UNCHANGED <<slices, shapes>>
    BY <1>1 DEF RenderModule
  <2> HIDE DEF new
  <2> QED  BY <2>1, <2>2, <2>3
<1>2. CASE RenderModuleFails
  <2>1. Home \in Module
    BY <1>2, StepIsStarted DEF RenderModuleFails, Step, Home
  <2>2. PICK new : new.dir /\ tree' = [tree EXCEPT ![Home] = new]
    BY <1>2 DEF RenderModuleFails
  <2>3. cmd.at = "renderModule" /\ UNCHANGED <<slices, shapes>>
    BY <1>2 DEF RenderModuleFails
  <2> QED  BY <2>1, <2>2, <2>3
<1>3. ASSUME NEW torn \in BOOLEAN, InsertFails(torn)
      PROVE  /\ \A n \in Module : /\ tree'[n].dir = tree[n].dir
                                  /\ tree'[n].root = tree[n].root
                                  /\ tree'[n].database = tree[n].database
             /\ UNCHANGED <<slices, shapes>>
  <2> DEFINE lost == IF torn THEN FileOf(Snippet) ELSE {}
  <2>1. tree' = [tree EXCEPT ![Home].markers = @ \ lost] /\ UNCHANGED <<slices, shapes>>
    BY <1>3 DEF InsertFails
  <2> HIDE DEF lost
  <2> QED  BY <2>1 DEF Tree
<1>4. CASE Start \/ RenderSlice \/ RenderSliceFails \/ InsertBefore \/ InsertEnds
           \/ AppendBungenTable \/ UpdateGoWork \/ UpdateMiseToml \/ StopsHere \/ RunStep
           \/ RunStepFails \/ UNCHANGED vars
  BY <1>4, StartWrites DEF RenderSlice, RenderSliceFails, InsertBefore, InsertEnds, UpdateGoWork,
     AppendBungenTable, UpdateMiseToml, StopsHere, RunStep, RunStepFails, vars, repo
<1>5. ASSUME NEW t \in Slice, RemoveSlice(t)
      PROVE  UNCHANGED tree
  BY <1>5 DEF RemoveSlice
<1>6. CASE WriteTorn
  BY <1>6, TornWrites
<1> QED  BY <1>1, <1>2, <1>3, <1>4, <1>5, <1>6 DEF Next, Proceed, Fail

\* A slice gains files or another shape only when it is rendered.
LEMMA SliceChanges ==
    ASSUME ScaffoldType, [Next]_vars
    PROVE  \/ \A t \in Slice : slices'[t] \subseteq slices[t] /\ shapes'[t] = shapes[t]
           \/ /\ cmd.at = "renderSlice" /\ cmd.slice \in Slice
              /\ UNCHANGED tree
              /\ shapes'[cmd.slice] = cmd.shape
              /\ \A t \in Slice : t # cmd.slice => slices'[t] = slices[t] /\ shapes'[t] = shapes[t]
<1> USE DEF ScaffoldType, RepoType, Target
<1>1. CASE UNCHANGED <<slices, shapes>>
  BY <1>1
<1>2. CASE Start \/ RenderModule \/ RenderModuleFails \/ InsertBefore \/ InsertEnds
           \/ AppendBungenTable \/ UpdateGoWork \/ UpdateMiseToml \/ StopsHere \/ RunStep
           \/ RunStepFails \/ UNCHANGED vars
  <2>1. UNCHANGED <<slices, shapes>>
    BY <1>2, StartWrites DEF RenderModule, RenderModuleFails, InsertBefore, InsertEnds, UpdateGoWork,
       AppendBungenTable, UpdateMiseToml, StopsHere, RunStep, RunStepFails, vars, repo
  <2> QED  BY <1>1, <2>1
<1>3. CASE RenderSlice
  <2>1. cmd.slice \in Slice
    BY <1>3, StepIsStarted DEF RenderSlice, Step
  <2> QED  BY <1>3, <2>1 DEF RenderSlice
<1>4. CASE RenderSliceFails
  <2>1. cmd.slice \in Slice
    BY <1>4, StepIsStarted DEF RenderSliceFails, Step
  <2> QED  BY <1>4, <2>1 DEF RenderSliceFails
<1>5. ASSUME NEW torn \in BOOLEAN, InsertFails(torn)
      PROVE  UNCHANGED <<slices, shapes>>
  BY <1>5 DEF InsertFails
<1>6. ASSUME NEW t \in Slice, RemoveSlice(t)
      PROVE  \A s \in Slice : slices'[s] \subseteq slices[s] /\ shapes'[s] = shapes[s]
  BY <1>6 DEF RemoveSlice
<1>7. ASSUME NEW n \in Module, NEW contracts \in BOOLEAN, RemoveModule(n, contracts)
      PROVE  \A s \in Slice : slices'[s] \subseteq slices[s] /\ shapes'[s] = shapes[s]
  BY <1>7 DEF RemoveModule
<1>8. CASE WriteTorn
  BY <1>1, <1>8, TornWrites
<1> QED  BY <1>1, <1>2, <1>3, <1>4, <1>5, <1>6, <1>7, <1>8 DEF Next, Proceed, Fail

\* Removing a module leaves it without directory, and its slices with at most
\* their proto files.
LEMMA RemovedModule ==
    ASSUME ScaffoldType, NEW n \in Module, NEW contracts \in BOOLEAN, RemoveModule(n, contracts)
    PROVE  /\ ~tree'[n].dir /\ ~tree'[n].root /\ cmd' = [at |-> "none"]
           /\ \A m \in Module : m # n => tree'[m] = tree[m]
           /\ \A t \in Slice : t[1] = n => slices'[t] \subseteq {"proto"}
           /\ UNCHANGED shapes
<1> USE DEF ScaffoldType, RepoType
<1> DEFINE left == [NoTree EXCEPT !.contracts = tree[n].contracts /\ ~contracts]
<1>1. ~left.dir /\ ~left.root
  BY DEF NoTree
<1>2. tree' = [tree EXCEPT ![n] = left] /\ UNCHANGED shapes /\ cmd' = [at |-> "none"]
  BY DEF RemoveModule
<1>3. \A t \in Slice : t[1] = n => slices'[t] \subseteq {"proto"}
  BY DEF RemoveModule
<1> HIDE DEF left
<1> QED  BY <1>1, <1>2, <1>3

LEMMA RootsStep ==
    ASSUME ScaffoldType, RootsHaveDirs, [Next]_vars
    PROVE  RootsHaveDirs'
<1> USE DEF RootsHaveDirs
<1>1. ASSUME NEW n \in Module, NEW contracts \in BOOLEAN, RemoveModule(n, contracts)
      PROVE  RootsHaveDirs'
  BY <1>1, RemovedModule
<1>2. CASE UNCHANGED tree
  BY <1>2
<1>3. CASE (\A n \in Module : n # Home => tree'[n] = tree[n]) /\ tree'[Home].dir
  BY <1>3
<1>4. CASE \A n \in Module : tree'[n].dir = tree[n].dir /\ tree'[n].root = tree[n].root
  BY <1>4
<1> QED  BY <1>1, <1>2, <1>3, <1>4, TreeChanges

LEMMA OrphansStep ==
    ASSUME ScaffoldType, NoOrphans, TraitsFit, [Next]_vars
    PROVE  NoOrphans'
<1> SUFFICES ASSUME NEW t \in Slice, ~tree'[t[1]].dir
             PROVE  slices'[t] \subseteq {"proto"}
  BY DEF NoOrphans
<1>0. t[1] \in Module
  BY DEF Slice
<1>1. CASE ~tree[t[1]].dir
  <2>1. slices[t] \subseteq {"proto"}
    BY <1>1 DEF NoOrphans
  <2>2. CASE slices'[t] \subseteq slices[t]
    BY <2>1, <2>2
  <2>3. CASE cmd.at = "renderSlice" /\ t # cmd.slice /\ slices'[t] = slices[t]
    BY <2>1, <2>3
  <2>4. CASE cmd.at = "renderSlice" /\ t = cmd.slice
    <3>1. tree[t[1]].dir
      BY <2>4, Zenon DEF TraitsFit, Home
    <3> QED  BY <1>1, <3>1
  <2> QED  BY <2>2, <2>3, <2>4, SliceChanges
<1>2. CASE tree[t[1]].dir
  <2>1. ASSUME NEW n \in Module, NEW contracts \in BOOLEAN, RemoveModule(n, contracts)
        PROVE  slices'[t] \subseteq {"proto"}
    <3>1. t[1] = n
      BY <1>0, <1>2, <2>1, RemovedModule
    <3> QED  BY <2>1, <3>1, RemovedModule
  <2> QED  BY <1>0, <1>2, <2>1, TreeChanges
<1> QED  BY <1>1, <1>2

LEMMA TraitsStep ==
    ASSUME ScaffoldType, RootsHaveDirs, TraitsFit, [Next]_vars
    PROVE  TraitsFit'
<1> USE DEF TraitsFit, Home
<1>1. CASE cmd'.at \notin {"renderModule", "renderSlice"}
  BY <1>1
<1>2. CASE Start
  <2>1. UNCHANGED tree
    BY <1>2, StartWrites DEF repo
  <2>2. ASSUME NEW t \in Slice, NEW shape \in Shape, NEW database \in BOOLEAN, NEW grpc \in BOOLEAN,
               shape \in AllowedShapes(database),
               cmd' = Begin("renderModule", t, shape, database, grpc), ~tree[t[1]].dir
        PROVE  TraitsFit'
    <3>1. /\ cmd'.at = "renderModule" /\ cmd'.slice = t /\ cmd'.shape = shape
          /\ cmd'.database = database
      BY <2>2 DEF Begin
    <3>2. shape # "gateway" => database
      BY <2>2 DEF AllowedShapes
    <3> QED  BY <2>1, <2>2, <3>1, <3>2
  <2>3. ASSUME NEW t \in Slice, NEW shape \in Shape, NEW database \in BOOLEAN, NEW grpc \in BOOLEAN,
               shape \in AllowedShapes(database),
               cmd' = Begin("renderSlice", t, shape, database, grpc),
               tree[t[1]].root, database = tree[t[1]].database
        PROVE  TraitsFit'
    <3>1. /\ cmd'.at = "renderSlice" /\ cmd'.slice = t /\ cmd'.shape = shape
      BY <2>3 DEF Begin
    <3>2. shape # "gateway" => database
      BY <2>3 DEF AllowedShapes
    <3>3. tree[t[1]].dir
      BY <2>3 DEF RootsHaveDirs, Slice
    <3> QED  BY <2>1, <2>3, <3>1, <3>2, <3>3
  <2>4. CASE cmd' = [at |-> "refused"]
    BY <2>4
  <2> QED  BY <1>2, <2>2, <2>3, <2>4, StartBegins DEF ScaffoldType, RepoType
<1>3. CASE RenderModule
  <2>1. cmd \in Started /\ cmd.slice[1] \in Module
    BY <1>3, StepIsStarted DEF RenderModule, Step, ScaffoldType
  <2>2. /\ cmd'.at = "renderSlice" /\ cmd'.slice = cmd.slice /\ cmd'.shape = cmd.shape
        /\ cmd.at = "renderModule"
    BY <1>3, <2>1 DEF RenderModule, Goto, Started
  <2> DEFINE new == [dir |-> TRUE, contracts |-> TRUE, root |-> TRUE, database |-> cmd.database,
                     grpc |-> cmd.grpc, markers |-> Marker, list |-> cmd.database]
  <2>3. new.dir /\ new.database = cmd.database
    OBVIOUS
  <2>4. tree' = [tree EXCEPT ![cmd.slice[1]] = new]
    BY <1>3 DEF RenderModule
  <2> HIDE DEF new
  <2>5. tree'[cmd.slice[1]].dir /\ tree'[cmd.slice[1]].database = cmd.database
    BY <2>1, <2>3, <2>4 DEF ScaffoldType, RepoType
  <2> QED  BY <2>2, <2>5
<1>4. CASE RenderSlice \/ InsertEnds \/ UpdateGoWork \/ UpdateMiseToml \/ RenderModuleFails
           \/ RenderSliceFails \/ StopsHere \/ RunStepFails
  <2>1. cmd \in Started
    BY <1>4, StepIsStarted DEF RenderSlice, InsertEnds, UpdateGoWork, UpdateMiseToml,
       RenderModuleFails, RenderSliceFails, StopsHere, RunStepFails, Step, ScaffoldType
  <2>2. cmd'.at \notin {"renderModule", "renderSlice"}
    BY <1>4, <2>1 DEF RenderSlice, InsertEnds, UpdateGoWork, UpdateMiseToml, RenderModuleFails,
       RenderSliceFails, StopsHere, RunStepFails, Goto, Started
  <2> QED  BY <1>1, <2>2
<1>5. CASE InsertBefore \/ AppendBungenTable \/ RunStep
  <2>1. cmd \in Started
    BY <1>5, StepIsStarted DEF InsertBefore, AppendBungenTable, RunStep, Step, ScaffoldType
  <2>2. cmd'.at \notin {"renderModule", "renderSlice"}
    BY <1>5, <2>1 DEF InsertBefore, AppendBungenTable, RunStep, Started
  <2> QED  BY <1>1, <2>2
<1>6. ASSUME NEW torn \in BOOLEAN, InsertFails(torn)
      PROVE  TraitsFit'
  <2>1. cmd \in Started
    BY <1>6, StepIsStarted DEF InsertFails, Step, ScaffoldType
  <2>2. cmd'.at = "failed"
    BY <1>6, <2>1 DEF InsertFails, Goto, Started
  <2> QED  BY <1>1, <2>2
<1>7. ASSUME NEW t \in Slice, RemoveSlice(t)
      PROVE  TraitsFit'
  <2>1. cmd' = [at |-> "none"]
    BY <1>7, Zenon DEF RemoveSlice
  <2> QED  BY <2>1
<1>8. ASSUME NEW n \in Module, NEW contracts \in BOOLEAN, RemoveModule(n, contracts)
      PROVE  TraitsFit'
  BY <1>8, RemovedModule
<1>9. CASE UNCHANGED vars
  BY <1>9 DEF vars, repo
<1>10. CASE WriteTorn
  <2>1. cmd \in Started
    BY <1>10, TornWrites, StepIsStarted DEF ScaffoldType
  <2>2. cmd'.at = "failed"
    BY <1>10, <2>1, TornWrites DEF Started
  <2> QED  BY <1>1, <2>2
<1> QED  BY <1>2, <1>3, <1>4, <1>5, <1>6, <1>7, <1>8, <1>9, <1>10 DEF Next, Proceed, Fail

LEMMA ShapesStep ==
    ASSUME ScaffoldType, ShapesFitModule, NoOrphans, TraitsFit, [Next]_vars
    PROVE  ShapesFitModule'
<1> SUFFICES ASSUME NEW t \in Slice, slices'[t] \ {"proto"} # {}, shapes'[t] # "gateway"
             PROVE  tree'[t[1]].database
  BY DEF ShapesFitModule
<1>0. t[1] \in Module
  BY DEF Slice
<1>1. CASE slices'[t] \subseteq slices[t] /\ shapes'[t] = shapes[t]
  <2>1. slices[t] \ {"proto"} # {} /\ shapes[t] # "gateway"
    BY <1>1
  <2>2. tree[t[1]].database
    BY <2>1 DEF ShapesFitModule
  <2>3. tree[t[1]].dir
    BY <2>1 DEF NoOrphans
  <2>4. ASSUME NEW n \in Module, NEW contracts \in BOOLEAN, RemoveModule(n, contracts)
        PROVE  tree'[t[1]].database
    <3>1. t[1] # n
      BY <2>4, RemovedModule
    <3> QED  BY <1>0, <2>2, <2>4, <3>1, RemovedModule
  <2>5. CASE cmd.at = "renderModule" /\ \A n \in Module : n # Home => tree'[n] = tree[n]
    <3>1. t[1] # Home
      BY <2>3, <2>5 DEF TraitsFit
    <3> QED  BY <1>0, <2>2, <2>5, <3>1
  <2> QED  BY <1>0, <2>2, <2>4, <2>5, TreeChanges
<1>2. CASE /\ cmd.at = "renderSlice" /\ t = cmd.slice
           /\ UNCHANGED tree /\ shapes'[cmd.slice] = cmd.shape
  BY <1>2 DEF TraitsFit, Home
<1> QED  BY <1>1, <1>2, SliceChanges

\* A slice that reads a table is only ever rendered into a module that has a
\* database, also when the module was removed, half rendered or rendered again
\* without one: a directory-less module has no more than proto files left.
THEOREM ShapesFit == Spec => []ShapesFitModule
<1> DEFINE Inv == RootsHaveDirs /\ NoOrphans /\ TraitsFit /\ ShapesFitModule
<1>1. Init => Inv
  <2> SUFFICES ASSUME Init PROVE Inv
    OBVIOUS
  <2>1. RootsHaveDirs
    <3> SUFFICES ASSUME NEW n \in Module PROVE tree[n].root => tree[n].dir
      BY DEF RootsHaveDirs
    <3>1. \/ tree[n] = NoTree
          \/ tree[n] \in [dir : {TRUE}, contracts : {TRUE}, root : {TRUE}, database : {TRUE},
                          grpc : {FALSE}, markers : {{}, RootFile}, list : BOOLEAN]
      BY DEF Init
    <3>2. CASE tree[n] = NoTree
      BY <3>2 DEF NoTree
    <3>3. CASE tree[n].dir \in {TRUE}
      BY <3>3
    <3> QED  BY <3>1, <3>2, <3>3
  <2>2. NoOrphans /\ TraitsFit /\ ShapesFitModule
    BY DEF Init, NoOrphans, TraitsFit, ShapesFitModule
  <2> QED  BY <2>1, <2>2
<1>2. ScaffoldType /\ Inv /\ [Next]_vars => Inv'
  BY RootsStep, OrphansStep, TraitsStep, ShapesStep
<1> QED  BY <1>1, <1>2, ScaffoldTypeCorrect, PTL DEF Spec

-----------------------------------------------------------------------------
(* The report. *)

\* A command that only moves on keeps what is settled.
Moved(at) ==
    /\ cmd'.at = at /\ cmd'.slice = cmd.slice /\ cmd'.shape = cmd.shape /\ cmd'.grpc = cmd.grpc
    /\ cmd'.isModule = cmd.isModule /\ cmd'.toInsert = cmd.toInsert
    /\ cmd'.unwired = cmd.unwired

LEMMA GotoMoves ==
    ASSUME CmdType, cmd.at \in Step, NEW at, cmd' = [cmd EXCEPT !.at = at]
    PROVE  Moved(at) /\ cmd'.unlisted = cmd.unlisted
BY StepIsStarted DEF Moved, Started

LEMMA RangeOfTail ==
    ASSUME NEW s \in Seq(Marker), s # <<>>
    PROVE  \A k \in Range(s) : k = Head(s) \/ k \in Range(Tail(s))
<1> SUFFICES ASSUME NEW i \in DOMAIN s
             PROVE  s[i] = Head(s) \/ s[i] \in Range(Tail(s))
  BY DEF Range
<1>1. i \in 1..Len(s)
  OBVIOUS
<1>2. CASE i = 1
  BY <1>2
<1>3. CASE i # 1
  <2>1. i - 1 \in 1..Len(Tail(s)) /\ Tail(s)[i - 1] = s[i]
    BY <1>1, <1>3
  <2>2. i - 1 \in DOMAIN Tail(s)
    BY <2>1
  <2> QED  BY <2>1, <2>2 DEF Range
<1> QED  BY <1>2, <1>3

LEMMA NeededAreMarkers ==
    ASSUME NEW shape, NEW grpc \in BOOLEAN
    PROVE  Range(RenderSnippets(shape, grpc)) \subseteq Marker
<1>1. RenderSnippets(shape, grpc) \in Seq(Marker)
  BY SnippetsAreMarkers
<1> QED  BY <1>1 DEF Range

LEMMA ReportedStep ==
    ASSUME ScaffoldType, EnteredOnce, Reported, [Next]_vars
    PROVE  Reported'
<1> USE DEF Target, Home, Ended
<1>0. CASE cmd'.at \in {"none", "refused", "failed"}
  BY <1>0 DEF Reported
<1>1. CASE Start
  <2>1. CASE cmd' = [at |-> "refused"]
    BY <1>0, <2>1
  <2>2. ASSUME NEW t \in Slice, NEW shape \in Shape, NEW database \in BOOLEAN, NEW grpc \in BOOLEAN,
               NEW first \in {"renderModule", "renderSlice"},
               cmd' = Begin(first, t, shape, database, grpc)
        PROVE  Reported'
    <3>1. /\ cmd'.at \in {"renderModule", "renderSlice"}
          /\ cmd'.toInsert = RenderSnippets(cmd'.shape, cmd'.grpc)
      BY <2>2 DEF Begin
    <3> QED  BY <3>1 DEF Reported
  <2> QED  BY <1>1, <2>1, <2>2, StartBegins DEF ScaffoldType, RepoType
<1>2. CASE RenderModule
  <2>1. cmd.at = "renderModule" /\ Moved("renderSlice")
    BY <1>2, GotoMoves DEF RenderModule, Goto, Step, ScaffoldType
  <2> QED  BY <2>1 DEF Reported, Moved
<1>3. CASE RenderSlice
  <2>1. cmd.at = "renderSlice" /\ Moved("insert")
    BY <1>3, GotoMoves DEF RenderSlice, Goto, Step, ScaffoldType
  <2>2. \A k \in Needed' : k \in Range(cmd'.toInsert)
    BY <2>1 DEF Reported, Moved, Needed
  <2> QED  BY <2>1, <2>2 DEF Reported, Moved
<1>4. CASE InsertEnds
  <2>1. cmd.at = "insert" /\ Moved("table") /\ UNCHANGED wired /\ cmd.toInsert = <<>>
    BY <1>4, GotoMoves DEF InsertEnds, Goto, Step, ScaffoldType, repo
  <2>2. \A k \in Needed : Settled(k)
    BY <2>1 DEF Reported, Range
  <2>3. Needed' = Needed /\ \A k \in Needed : Settled(k)'
    BY <2>1, <2>2 DEF Moved, Needed, Settled
  <2> QED  BY <2>1, <2>3 DEF Reported, Moved
<1>5. CASE InsertBefore
  <2>1. cmd.at = "insert" /\ cmd.toInsert # <<>> /\ cmd.at \in Step
    BY <1>5 DEF InsertBefore, Step
  <2>2. /\ cmd \in Started /\ cmd.toInsert \in Seq(Marker) /\ cmd.slice \in Slice
        /\ Snippet \in Marker
    BY <2>1, StepIsStarted DEF ScaffoldType, Snippet
  <2>3. /\ cmd'.at = "insert" /\ cmd'.slice = cmd.slice /\ cmd'.shape = cmd.shape
        /\ cmd'.grpc = cmd.grpc /\ cmd'.toInsert = Tail(cmd.toInsert)
        /\ cmd.unwired \subseteq cmd'.unwired
    <3>1. PICK U : cmd' = [cmd EXCEPT !.toInsert = Tail(@), !.unwired = U] /\ cmd.unwired \subseteq U
      <4>1. CASE Snippet \in tree[Home].markers
        <5>1. cmd' = [cmd EXCEPT !.toInsert = Tail(@)]
          BY <1>5, <4>1, Zenon DEF InsertBefore
        <5>2. cmd' = [cmd EXCEPT !.toInsert = Tail(@), !.unwired = cmd.unwired]
          BY <2>2, <5>1 DEF Started
        <5> QED  BY <5>2, Zenon
      <4>2. CASE Snippet \notin tree[Home].markers
        <5>1. cmd' = [cmd EXCEPT !.toInsert = Tail(@), !.unwired = cmd.unwired \cup {Snippet}]
          BY <1>5, <4>2, Zenon DEF InsertBefore
        <5>2. cmd.unwired \subseteq cmd.unwired \cup {Snippet}
          OBVIOUS
        <5> QED  BY <5>1, <5>2, Zenon
      <4> QED  BY <4>1, <4>2
    <3> QED  BY <2>1, <2>2, <3>1 DEF Started
  <2>4. \A k \in Range(cmd.toInsert) : k = Snippet \/ k \in Range(Tail(cmd.toInsert))
    BY <2>1, <2>2, RangeOfTail DEF Snippet
  <2>5. Inserted(wired[cmd.slice][Snippet]) = 1
    BY <2>2, InsertedIsOne DEF EnteredOnce, ScaffoldType, RepoType
  <2>6. /\ wired'[cmd.slice][Snippet] = 1 \/ Snippet \in cmd'.unwired
        /\ \A k \in Marker : wired[cmd.slice][k] = 1 => wired'[cmd.slice][k] = 1
    <3>1. CASE Snippet \in tree[Home].markers
      <4> DEFINE w == [wired[cmd.slice] EXCEPT ![Snippet] = 1]
      <4>1. wired' = [wired EXCEPT ![cmd.slice] = w]
        <5>1. wired' = [wired EXCEPT ![cmd.slice] =
                   [wired[cmd.slice] EXCEPT ![Snippet] = Inserted(wired[cmd.slice][Snippet])]]
          BY <1>5, <3>1 DEF InsertBefore
        <5> QED  BY <5>1, <2>5
      <4>2. w[Snippet] = 1 /\ \A k \in Marker : wired[cmd.slice][k] = 1 => w[k] = 1
        BY <2>2 DEF ScaffoldType, RepoType
      <4>3. wired'[cmd.slice] = w
        BY <2>2, <4>1 DEF ScaffoldType, RepoType
      <4> HIDE DEF w
      <4> QED  BY <4>2, <4>3
    <3>2. CASE Snippet \notin tree[Home].markers
      <4>1. wired' = wired /\ Snippet \in cmd'.unwired
        <5>1. /\ wired' = wired
              /\ cmd' = [cmd EXCEPT !.toInsert = Tail(@), !.unwired = @ \cup {Snippet}]
          BY <1>5, <3>2, Zenon DEF InsertBefore
        <5>2. cmd'.unwired = cmd.unwired \cup {Snippet}
          BY <2>2, <5>1 DEF Started
        <5> QED  BY <5>1, <5>2
      <4> QED  BY <4>1
    <3> QED  BY <3>1, <3>2
  <2>7. Needed' = Needed /\ Needed \subseteq Marker
    BY <2>2, <2>3, NeededAreMarkers DEF Needed, Started
  <2>8. ASSUME NEW k \in Needed
        PROVE  Settled(k)' \/ k \in Range(cmd'.toInsert)
    <3>1. CASE Settled(k)
      BY <2>3, <2>6, <2>7, <3>1 DEF Settled
    <3>2. CASE k \in Range(cmd.toInsert)
      BY <2>3, <2>4, <2>6, <3>2 DEF Settled
    <3> QED  BY <2>1, <2>8, <3>1, <3>2 DEF Reported
  <2> QED  BY <2>3, <2>7, <2>8 DEF Reported
<1>6. CASE AppendBungenTable
  <2>1. cmd.at = "table" /\ cmd.at \in Step
    BY <1>6 DEF AppendBungenTable, Step
  <2>2. cmd \in Started /\ cmd.slice \in Slice /\ cmd.isModule \in BOOLEAN
    BY <2>1, StepIsStarted DEF ScaffoldType
  <2>3. Moved(IF cmd.isModule THEN "gowork" ELSE "post")
    BY <1>6, <2>2 DEF AppendBungenTable, Moved, Started
  <2>4. Needed' = Needed /\ \A k \in Needed : Settled(k)'
    BY <1>6, <2>1, <2>3 DEF AppendBungenTable, Moved, Needed, Settled, Reported
  <2>5. cmd.shape # "gateway" => listed'[cmd.slice] = 1 \/ cmd'.unlisted
    <3>1. Inserted(listed[cmd.slice]) = 1
      BY <2>2, InsertedIsOne DEF EnteredOnce, ScaffoldType, RepoType
    <3>2. CASE cmd.shape # "gateway" /\ tree[Home].list
      BY <1>6, <2>2, <3>1, <3>2 DEF AppendBungenTable, ScaffoldType, RepoType
    <3>3. CASE cmd.shape # "gateway" /\ ~tree[Home].list
      BY <1>6, <2>2, <3>3 DEF AppendBungenTable, Started
    <3> QED  BY <3>2, <3>3
  <2>6. UNCHANGED <<gowork, mise>>
    BY <1>6 DEF AppendBungenTable
  <2>7. CASE cmd.isModule
    BY <2>3, <2>4, <2>5, <2>7 DEF Reported, Moved
  <2>8. CASE ~cmd.isModule
    BY <2>3, <2>4, <2>5, <2>8 DEF Reported, Moved
  <2> QED  BY <2>7, <2>8
<1>7. CASE UpdateGoWork
  <2>1. cmd.at = "gowork" /\ Moved("mise") /\ cmd'.unlisted = cmd.unlisted /\ UNCHANGED <<wired, listed>>
    BY <1>7, GotoMoves DEF UpdateGoWork, Goto, Step, ScaffoldType
  <2>2. cmd.slice[1] \in Module
    BY <2>1, StepIsStarted DEF Step, ScaffoldType
  <2>3. gowork'[cmd.slice[1]] = 1
    BY <1>7, <2>2, InsertedIsOne DEF UpdateGoWork, EnteredOnce, ScaffoldType, RepoType
  <2>4. Needed' = Needed /\ \A k \in Needed : Settled(k)'
    BY <2>1 DEF Moved, Needed, Settled, Reported
  <2> QED  BY <2>1, <2>3, <2>4 DEF Reported, Moved
<1>8. CASE UpdateMiseToml
  <2>1. /\ cmd.at = "mise" /\ Moved("post") /\ cmd'.unlisted = cmd.unlisted
        /\ UNCHANGED <<wired, listed, gowork>>
    BY <1>8, GotoMoves DEF UpdateMiseToml, Goto, Step, ScaffoldType
  <2>2. cmd.slice[1] \in Module
    BY <2>1, StepIsStarted DEF Step, ScaffoldType
  <2>3. mise'[cmd.slice[1]] = 1
    BY <1>8, <2>2, InsertedIsOne DEF UpdateMiseToml, EnteredOnce, ScaffoldType, RepoType
  <2>4. Needed' = Needed /\ \A k \in Needed : Settled(k)'
    BY <2>1 DEF Moved, Needed, Settled, Reported
  <2> QED  BY <2>1, <2>3, <2>4 DEF Reported, Moved
<1>9. CASE RunStep \/ RunStepFails
  <2>1. cmd.at = "post" /\ cmd.at \in Step
    BY <1>9 DEF RunStep, RunStepFails, Step
  <2>2. cmd \in Started
    BY <2>1, StepIsStarted DEF ScaffoldType
  <2>3. PICK at \in {"post", "done", "postFailed"} : Moved(at) /\ cmd'.unlisted = cmd.unlisted
    BY <1>9, <2>2 DEF RunStep, RunStepFails, Goto, Moved, Started
  <2>4. UNCHANGED <<wired, listed, gowork, mise>>
    BY <1>9 DEF RunStep, RunStepFails, repo
  <2>5. Needed' = Needed /\ \A k \in Needed : Settled(k)'
    BY <2>1, <2>3, <2>4 DEF Moved, Needed, Settled, Reported
  <2> QED  BY <2>1, <2>3, <2>4, <2>5 DEF Reported, Moved
<1>10. CASE RenderModuleFails \/ RenderSliceFails \/ StopsHere
  <2>1. cmd'.at = "failed"
    BY <1>10, GotoMoves DEF RenderModuleFails, RenderSliceFails, StopsHere, Goto, Step,
       ScaffoldType, Moved
  <2> QED  BY <1>0, <2>1
<1>11. ASSUME NEW torn \in BOOLEAN, InsertFails(torn)
       PROVE  Reported'
  <2>1. cmd'.at = "failed"
    BY <1>11, GotoMoves DEF InsertFails, Goto, Step, ScaffoldType, Moved
  <2> QED  BY <1>0, <2>1
<1>12. ASSUME NEW t \in Slice, RemoveSlice(t)
       PROVE  Reported'
  <2>1. cmd' = [at |-> "none"]
    BY <1>12, Zenon DEF RemoveSlice
  <2> QED  BY <1>0, <2>1
<1>13. ASSUME NEW n \in Module, NEW contracts \in BOOLEAN, RemoveModule(n, contracts)
       PROVE  Reported'
  <2>1. cmd' = [at |-> "none"]
    BY <1>13, Zenon DEF RemoveModule
  <2> QED  BY <1>0, <2>1
<1>14. CASE UNCHANGED vars
  BY <1>14 DEF vars, repo, Reported, Needed, Settled
<1>15. CASE WriteTorn
  <2>1. cmd'.at = "failed"
    BY <1>15, TornWrites, GotoMoves DEF ScaffoldType, Moved
  <2> QED  BY <1>0, <2>1
<1> QED
  BY <1>1, <1>2, <1>3, <1>4, <1>5, <1>6, <1>7, <1>8, <1>9, <1>10, <1>11, <1>12, <1>13, <1>14, <1>15
     DEF Next, Proceed, Fail

\* When a command reaches its end, also when one of its programs failed, every
\* snippet, the table and the registration of the module are in place or on the
\* report, whatever markers the developer had removed and whatever earlier
\* commands had left.
THEOREM ReportIsComplete == Spec => []NothingLeftUnsaid
<1>1. Init => Reported
  BY DEF Init, Reported, Ended
<1>2. ScaffoldType /\ EnteredOnce /\ Reported /\ [Next]_vars => Reported'
  BY ReportedStep
<1>3. Reported => NothingLeftUnsaid
  BY DEF Reported, NothingLeftUnsaid, Needed, Settled, Ended
<1> QED  BY <1>1, <1>2, <1>3, ScaffoldTypeCorrect, NothingTwice, PTL DEF Spec

=============================================================================
