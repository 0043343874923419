------------------------------ MODULE Scaffold ------------------------------
(***************************************************************************)
(* `mmw new module` and `mmw new entity`: the repository a developer runs  *)
(* them in, one command after another.  A command checks its variables,    *)
(* renders the module and one slice from templates, inserts the slice's    *)
(* snippets at the markers of the module's files, lists its table for      *)
(* bungen, registers the module and runs three programs.  Each write is a  *)
(* step; any of them may fail, or the command be killed before it, and the *)
(* developer may remove what a failed command left and run it again.       *)
(*                                                                         *)
(* goplt, which renders a template directory, is external: it writes the   *)
(* files one by one and may stop after any of them.                        *)
(***************************************************************************)
EXTENDS Naturals, FiniteSets, Sequences, SequencesExt

CONSTANTS
    Module,     \* the module names
    Entity,     \* the entity names
    MaxRuns,    \* bound on the commands
    MaxFaults   \* bound on failing writes, failing programs and kills

ASSUME ScaffoldAssumption == MaxRuns \in Nat /\ MaxFaults \in Nat

VARIABLES
    tree,     \* what modules/<name> holds
    slices,   \* the files of each slice
    shapes,   \* the shape a slice was rendered with
    wired,    \* how often each snippet of a slice is in the module's files
    listed,   \* how often a slice's table is in the bungen list
    gowork,   \* how often the module is in go.work, and in the root mise.toml
    mise,
    cleaned,  \* the slices whose files the developer removed
    cmd,      \* the command in progress, or how the last one ended
    runs,
    faults

repo == <<tree, slices, shapes, wired, listed, gowork, mise>>
vars == <<repo, cleaned, cmd, runs, faults>>

Slice == Module \X Entity
Shape == {"aggregate", "read-model", "gateway"}
Part == {"domain", "proto", "other"}
Marker == {"field", "wire", "handler", "topic", "event", "error"}

\* The module's directory, its contract files, its root file, the directories
\* DetectModule looks for, the markers and the bungen list of its files.
NoTree == [dir |-> FALSE, contracts |-> FALSE, root |-> FALSE, database |-> FALSE,
           grpc |-> FALSE, markers |-> {}, list |-> FALSE]

\* The markers of the file a marker is in.
RootFile == {"field", "wire", "handler"}
FileOf(k) == IF k \in RootFile THEN RootFile ELSE {k}
Files == {FileOf(k) : k \in Marker}

Step == {"renderModule", "renderSlice", "insert", "table", "gowork", "mise", "post"}
End == {"none", "refused", "failed", "postFailed", "done"}

TypeOK ==
    /\ tree \in [Module -> [dir : BOOLEAN, contracts : BOOLEAN, root : BOOLEAN, database : BOOLEAN,
                            grpc : BOOLEAN, markers : SUBSET Marker, list : BOOLEAN]]
    /\ slices \in [Slice -> SUBSET Part]
    /\ shapes \in [Slice -> Shape]
    /\ wired \in [Slice -> [Marker -> Nat]]
    /\ listed \in [Slice -> Nat]
    /\ gowork \in [Module -> Nat] /\ mise \in [Module -> Nat]
    /\ cleaned \subseteq Slice
    /\ cmd.at \in Step \cup End
    /\ runs \in 0..MaxRuns /\ faults \in 0..MaxFaults
    /\ cmd.at \in Step =>
          /\ cmd.slice \in Slice /\ cmd.shape \in Shape
          /\ cmd.unwired \subseteq Marker /\ cmd.toInsert \in Seq(Marker)
          /\ cmd.toRun # <<>>

\* A repository with a hand-written module, whose files lack some markers or
\* the table list, or without any module.
Init ==
    /\ tree \in [Module -> {NoTree} \cup
                   [dir : {TRUE}, contracts : {TRUE}, root : {TRUE}, database : {TRUE},
                    grpc : {FALSE}, markers : {{}, RootFile}, list : BOOLEAN]]
    /\ slices = [s \in Slice |-> {}]
    /\ shapes = [s \in Slice |-> "gateway"]
    /\ wired = [s \in Slice |-> [k \in Marker |-> 0]]
    /\ listed = [s \in Slice |-> 0]
    /\ gowork = [m \in Module |-> IF tree[m].dir THEN 1 ELSE 0]
    /\ mise = gowork
    /\ cleaned = {}
    /\ cmd = [at |-> "none"]
    /\ runs = 0 /\ faults = 0

-----------------------------------------------------------------------------
(* The variables of a command. *)

\* Mutant of AllowedShapes: the database is not asked.
AnyShape(database) == Shape

\* The shapes a module accepts.
AllowedShapes(database) == IF database THEN Shape ELSE {"gateway"}

\* The shape when --var gives none, or what the prompt pre-selects.
ApplyShapeDefault(database) == IF database THEN "aggregate" ELSE "gateway"

\* The shape of a slice: given with --var, picked in the prompt among what the
\* database allows, or the default.
ShapeOf(given, prompted, database) ==
    CASE given # "" /\ ~prompted -> given
      [] given # "" /\ prompted -> IF database THEN given ELSE "gateway"
      [] OTHER -> ApplyShapeDefault(database)

\* The snippets that apply to a slice, in the order they are inserted.
RenderSnippets(shape, grpc) ==
    <<"field", "wire">>
    \o (IF grpc THEN <<"handler">> ELSE <<>>)
    \o (IF shape = "read-model" THEN <<>> ELSE <<"topic", "event">>)
    \o <<"error">>

\* The domain package and the proto file of the slice are not there yet.
SliceIsNew(s) == {"domain", "proto"} \cap slices[s] = {}

ValidateSlice(s, shape, database) == SliceIsNew(s) /\ shape \in AllowedShapes(database)

\* Neither the module's directory nor its contract files exist.
Validate(s, shape, database) ==
    /\ ~tree[s[1]].dir /\ ~tree[s[1]].contracts
    /\ ValidateSlice(s, shape, database)

Begin(first, s, shape, database, grpc) ==
    [at |-> first, slice |-> s, shape |-> shape, database |-> database, grpc |-> grpc,
     isModule |-> (first = "renderModule"), toInsert |-> RenderSnippets(shape, grpc),
     unwired |-> {}, unlisted |-> FALSE, toRun |-> <<"buf:generate", "mod tidy", "work sync">>]

-----------------------------------------------------------------------------
(* Starting a command.  A name that is no identifier, a keyword or a reserved *)
(* word is refused as well (named = FALSE).                                   *)

MayStart == cmd.at \in End /\ runs < MaxRuns

\* runNewModule up to its first write.
NewModule(s, given, prompted, database, grpc, named) ==
    LET shape == ShapeOf(given, prompted, database)
    IN  /\ MayStart
        /\ runs' = runs + 1
        /\ cmd' = IF named /\ Validate(s, shape, database)
                  THEN Begin("renderModule", s, shape, database, grpc)
                  ELSE [at |-> "refused"]
        /\ UNCHANGED <<repo, cleaned, faults>>

\* runNewEntity up to its first write; DetectModule reads the module's traits
\* from its tree.
NewEntity(s, given, prompted, named) ==
    LET mod == tree[s[1]]
        shape == ShapeOf(given, prompted, mod.database)
    IN  /\ MayStart
        /\ runs' = runs + 1
        /\ cmd' = IF named /\ mod.root /\ ValidateSlice(s, shape, mod.database)
                  THEN Begin("renderSlice", s, shape, mod.database, mod.grpc)
                  ELSE [at |-> "refused"]
        /\ UNCHANGED <<repo, cleaned, faults>>

-----------------------------------------------------------------------------
(* The writes of a command. *)

Goto(at) == cmd' = [cmd EXCEPT !.at = at]
Target == cmd.slice
Home == cmd.slice[1]

RenderModule ==
    /\ cmd.at = "renderModule"
    /\ tree' = [tree EXCEPT ![Home] = [dir |-> TRUE, contracts |-> TRUE, root |-> TRUE,
                                       database |-> cmd.database, grpc |-> cmd.grpc,
                                       markers |-> Marker, list |-> cmd.database]]
    /\ Goto("renderSlice")
    /\ UNCHANGED <<slices, shapes, wired, listed, gowork, mise, cleaned, runs, faults>>

\* The template stops halfway: any files may be there.
RenderModuleFails ==
    /\ cmd.at = "renderModule" /\ faults < MaxFaults
    /\ \E contracts, root, database, grpc, list \in BOOLEAN, written \in SUBSET Files :
          /\ RootFile \in written => root
          /\ tree' = [tree EXCEPT ![Home] = [dir |-> TRUE, contracts |-> contracts, root |-> root,
                         database |-> database /\ cmd.database, grpc |-> grpc /\ cmd.grpc,
                         markers |-> UNION written, list |-> list /\ cmd.database]]
    /\ faults' = faults + 1 /\ Goto("failed")
    /\ UNCHANGED <<slices, shapes, wired, listed, gowork, mise, cleaned, runs>>

\* The slice templates, all of them.
RenderSlice ==
    /\ cmd.at = "renderSlice"
    /\ slices' = [slices EXCEPT ![Target] = Part]
    /\ shapes' = [shapes EXCEPT ![Target] = cmd.shape]
    /\ cleaned' = cleaned \ {Target}
    /\ Goto("insert")
    /\ UNCHANGED <<tree, wired, listed, gowork, mise, runs, faults>>

\* Mutant of RenderSliceFails: the error is dropped.
RenderSliceIgnored ==
    /\ cmd.at = "renderSlice" /\ faults < MaxFaults
    /\ \E P \in SUBSET Part : slices' = [slices EXCEPT ![Target] = @ \cup P]
    /\ shapes' = [shapes EXCEPT ![Target] = cmd.shape]
    /\ faults' = faults + 1 /\ Goto("insert")
    /\ UNCHANGED <<tree, wired, listed, gowork, mise, cleaned, runs>>

RenderSliceFails ==
    /\ cmd.at = "renderSlice" /\ faults < MaxFaults
    /\ \E P \in SUBSET Part : slices' = [slices EXCEPT ![Target] = @ \cup P]
    /\ shapes' = [shapes EXCEPT ![Target] = cmd.shape]
    /\ faults' = faults + 1 /\ Goto("failed")
    /\ UNCHANGED <<tree, wired, listed, gowork, mise, cleaned, runs>>

\* Mutant of Inserted: the file is not searched for the snippet.
InsertedAgain(n) == n + 1

\* A snippet whose first line is in the file is not inserted again.
Inserted(n) == IF n > 0 THEN n ELSE n + 1

Snippet == Head(cmd.toInsert)

\* Mutant of InsertBefore: a missing file is passed over.
InsertSilently ==
    /\ cmd.at = "insert" /\ cmd.toInsert # <<>>
    /\ wired' = IF Snippet \in tree[Home].markers
                THEN [wired EXCEPT ![Target][Snippet] = Inserted(@)] ELSE wired
    /\ cmd' = [cmd EXCEPT !.toInsert = Tail(@)]
    /\ UNCHANGED <<tree, slices, shapes, listed, gowork, mise, cleaned, runs, faults>>

\* InsertBefore: at the marker; without the marker, or the file, the snippet
\* goes to the report.
InsertBefore ==
    /\ cmd.at = "insert" /\ cmd.toInsert # <<>>
    /\ IF Snippet \in tree[Home].markers
       THEN /\ wired' = [wired EXCEPT ![Target][Snippet] = Inserted(@)]
            /\ cmd' = [cmd EXCEPT !.toInsert = Tail(@)]
       ELSE /\ wired' = wired
            /\ cmd' = [cmd EXCEPT !.toInsert = Tail(@), !.unwired = @ \cup {Snippet}]
    /\ UNCHANGED <<tree, slices, shapes, listed, gowork, mise, cleaned, runs, faults>>

\* The result does not parse or the file cannot be read or written.  WriteFile
\* truncates first, so a write cut short takes the file's markers and the
\* snippets of every slice with it.
InsertFails(torn) ==
    /\ cmd.at = "insert" /\ cmd.toInsert # <<>> /\ faults < MaxFaults
    /\ torn => Snippet \in tree[Home].markers
    /\ LET lost == IF torn THEN FileOf(Snippet) ELSE {}
       IN  /\ tree' = [tree EXCEPT ![Home].markers = @ \ lost]
           /\ wired' = [t \in Slice |-> [k \in Marker |->
                          IF t[1] = Home /\ k \in lost THEN 0 ELSE wired[t][k]]]
    /\ faults' = faults + 1 /\ Goto("failed")
    /\ UNCHANGED <<slices, shapes, listed, gowork, mise, cleaned, runs>>

InsertEnds ==
    /\ cmd.at = "insert" /\ cmd.toInsert = <<>>
    /\ Goto("table")
    /\ UNCHANGED <<repo, cleaned, runs, faults>>

\* AppendBungenTable, unless the slice has no table; then back to the command.
AppendBungenTable ==
    /\ cmd.at = "table"
    /\ LET next == IF cmd.isModule THEN "gowork" ELSE "post"
           list == cmd.shape # "gateway" /\ tree[Home].list
       IN  /\ listed' = IF list THEN [listed EXCEPT ![Target] = Inserted(@)] ELSE listed
           /\ cmd' = [cmd EXCEPT !.at = next, !.unlisted = cmd.shape # "gateway" /\ ~list]
    /\ UNCHANGED <<tree, slices, shapes, wired, gowork, mise, cleaned, runs, faults>>

UpdateGoWork ==
    /\ cmd.at = "gowork"
    /\ gowork' = [gowork EXCEPT ![Home] = Inserted(@)]
    /\ Goto("mise")
    /\ UNCHANGED <<tree, slices, shapes, wired, listed, mise, cleaned, runs, faults>>

UpdateMiseToml ==
    /\ cmd.at = "mise"
    /\ mise' = [mise EXCEPT ![Home] = Inserted(@)]
    /\ Goto("post")
    /\ UNCHANGED <<tree, slices, shapes, wired, listed, gowork, cleaned, runs, faults>>

\* The write of the table list, of go.work or of mise.toml is cut short, and
\* takes the entries of the file with it.  Nothing is written when the entry is
\* there already.  The developer restores the use block of go.work.
WriteTorn ==
    /\ faults < MaxFaults
    /\ \/ /\ cmd.at = "table" /\ cmd.shape # "gateway" /\ tree[Home].list /\ listed[Target] = 0
          /\ tree' = [tree EXCEPT ![Home].list = FALSE]
          /\ listed' = [t \in Slice |-> IF t[1] = Home THEN 0 ELSE listed[t]]
          /\ UNCHANGED <<gowork, mise>>
       \/ /\ cmd.at = "gowork" /\ gowork[Home] = 0
          /\ gowork' = [n \in Module |-> 0]
          /\ UNCHANGED <<tree, listed, mise>>
       \/ /\ cmd.at = "mise" /\ mise[Home] = 0
          /\ mise' = [n \in Module |-> 0]
          /\ UNCHANGED <<tree, listed, gowork>>
    /\ faults' = faults + 1 /\ Goto("failed")
    /\ UNCHANGED <<slices, shapes, wired, cleaned, runs>>

\* Listing the table or registering the module fails (no use block, a file
\* that cannot be written), or the command is killed between two steps.
StopsHere ==
    /\ cmd.at \in Step /\ faults < MaxFaults
    /\ faults' = faults + 1 /\ Goto("failed")
    /\ UNCHANGED <<repo, cleaned, runs>>

\* PostGenerate: the next program succeeds; after the last one the command
\* prints what is left to do.
RunStep ==
    /\ cmd.at = "post"
    /\ cmd' = [cmd EXCEPT !.toRun = Tail(@), !.at = IF Len(cmd.toRun) = 1 THEN "done" ELSE "post"]
    /\ UNCHANGED <<repo, cleaned, runs, faults>>

\* The program fails: its error names it and lists the ones after it, the
\* report is printed and the files stay.
RunStepFails ==
    /\ cmd.at = "post" /\ faults < MaxFaults
    /\ faults' = faults + 1 /\ Goto("postFailed")
    /\ UNCHANGED <<repo, cleaned, runs>>

-----------------------------------------------------------------------------
(* The developer, between two commands. *)

\* The files of a slice are removed; edits of the module's files may stay.
RemoveSlice(t) ==
    /\ cmd.at \in End
    /\ slices[t] # {}
    /\ slices' = [slices EXCEPT ![t] = {}]
    /\ cleaned' = cleaned \cup {t}
    /\ cmd' = [at |-> "none"]
    /\ UNCHANGED <<tree, shapes, wired, listed, gowork, mise, runs, faults>>

\* A module is removed with its slices, its contracts too or not; go.work and
\* mise.toml keep its entries.
RemoveModule(n, contracts) ==
    /\ cmd.at \in End
    /\ tree[n].dir
    /\ tree' = [tree EXCEPT ![n] = [NoTree EXCEPT !.contracts = tree[n].contracts /\ ~contracts]]
    /\ slices' = [t \in Slice |-> IF t[1] # n THEN slices[t]
                                   ELSE IF contracts THEN {} ELSE slices[t] \cap {"proto"}]
    /\ wired' = [t \in Slice |-> IF t[1] = n THEN [k \in Marker |-> 0] ELSE wired[t]]
    /\ listed' = [t \in Slice |-> IF t[1] = n THEN 0 ELSE listed[t]]
    /\ cleaned' = {t \in cleaned : t[1] # n}
    /\ cmd' = [at |-> "none"]
    /\ UNCHANGED <<shapes, gowork, mise, runs, faults>>

Start ==
    \E t \in Slice, given \in {""} \cup Shape, prompted, named \in BOOLEAN :
        \/ NewEntity(t, given, prompted, named)
        \/ \E database, grpc \in BOOLEAN : NewModule(t, given, prompted, database, grpc, named)

Proceed ==
    \/ RenderModule \/ RenderSlice \/ InsertBefore \/ InsertEnds
    \/ AppendBungenTable \/ UpdateGoWork \/ UpdateMiseToml \/ RunStep

Fail ==
    \/ RenderModuleFails \/ RenderSliceFails \/ WriteTorn \/ StopsHere \/ RunStepFails
    \/ \E torn \in BOOLEAN : InsertFails(torn)

Next ==
    \/ Start \/ Proceed \/ Fail
    \/ \E t \in Slice : RemoveSlice(t)
    \/ \E n \in Module, contracts \in BOOLEAN : RemoveModule(n, contracts)

Spec == Init /\ [][Next]_vars

-----------------------------------------------------------------------------
(* What the commands promise. *)

\* However often commands fail, are cleaned up after and run again, no snippet,
\* table or module is entered twice (InsertBefore, AppendBungenTable,
\* UpdateGoWork and UpdateMiseToml look before they write).
EnteredOnce ==
    /\ \A t \in Slice : listed[t] <= 1 /\ \A k \in Marker : wired[t][k] <= 1
    /\ \A n \in Module : gowork[n] <= 1 /\ mise[n] <= 1

\* A module's files never name a slice that is not all there, wherever a
\* command stopped: snippets go in only after the slice is rendered.
NoDanglingSnippet ==
    \A t \in Slice \ cleaned :
        (listed[t] > 0 \/ \E k \in Marker : wired[t][k] > 0) => slices[t] = Part

\* When a command reaches its end, also when a program it ran failed, every
\* snippet of the slice is in place or printed, and so is its table.
NothingLeftUnsaid ==
    cmd.at \in {"done", "postFailed"} =>
        /\ \A k \in Range(RenderSnippets(cmd.shape, cmd.grpc)) :
              wired[Target][k] = 1 \/ k \in cmd.unwired
        /\ cmd.shape # "gateway" => listed[Target] = 1 \/ cmd.unlisted
        /\ cmd.isModule => gowork[Home] = 1 /\ mise[Home] = 1

\* A slice that reads a table is only ever rendered into a module that has a
\* database, whatever was asked for and however the module came to be.
ShapesFitModule ==
    \A t \in Slice : slices[t] \ {"proto"} # {} /\ shapes[t] # "gateway" => tree[t[1]].database
=============================================================================
