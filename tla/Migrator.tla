------------------------------ MODULE Migrator ------------------------------
(***************************************************************************)
(* Schema migrations: the scripts of each module's schema, written by      *)
(* `mmw new entity` (MigrationStamps) and `migrate create`, and the        *)
(* Migrator that applies them through goose.                               *)
(*                                                                         *)
(* goose is external.  It keeps two settings for the whole process: the    *)
(* file system the scripts are read from, which New sets, and the version  *)
(* table, which every operation sets.  Up runs each missing script in a    *)
(* transaction of its own that also records its version; Down undoes the   *)
(* script recorded last; Reset undoes all it finds.                        *)
(*                                                                         *)
(* A process embeds the scripts when it is built, so scripts are written   *)
(* here between two processes.                                             *)
(***************************************************************************)
EXTENDS Integers, FiniteSets, Sequences, SequencesExt

CONSTANTS
    Schema,      \* the schemas (modules) sharing the database
    None,        \* goose's settings before they are first set
    Zone,        \* local time minus UTC, in seconds
    MaxHeld,     \* bound on the migrators a process holds at once
    MaxClock,    \* bound on the time, in seconds
    MaxScripts,  \* no script is added to a schema that has this many
    MaxFaults    \* bound on failing calls and killed processes

ASSUME MigratorAssumption ==
    /\ None \notin Schema
    /\ Zone \in Int
    /\ {MaxHeld, MaxClock, MaxScripts, MaxFaults} \subseteq Nat
    /\ MaxClock # 0

VARIABLES
    clock,      \* the time, UTC
    scripts,    \* the scripts of each schema
    lenient,    \* WithAllowMissing: the command line, not the module's Migrate
    baseFS,     \* goose's file system: the schema whose scripts it holds
    tableName,  \* goose's version table: the schema that owns it
    held,       \* the schemas this process holds a migrator of
    op,         \* the operation in progress
    table,      \* the rows of each version table, in the order they were added
    effects,    \* the scripts whose changes the database holds
    faults

vars == <<clock, scripts, lenient, baseFS, tableName, held, op, table, effects, faults>>
goose == <<baseFS, tableName>>
database == <<table, effects>>

\* A script's version is the timestamp in its name; two files may share one.
Script == [owner : Schema, version : Int, name : {"create", "seed", "a", "b"}]
Versions(S) == {x.version : x \in S}
Recorded(s) == Range(table[s])
Highest(S) == CHOOSE v \in S : \A w \in S : w <= v
Idle == [kind |-> "none", schema |-> None]

\* Types; and during an operation goose is set to the table of its migrator.
TypeOK ==
    /\ clock \in 0..MaxClock
    /\ scripts \in [Schema -> SUBSET Script]
    /\ lenient \in BOOLEAN
    /\ baseFS \in Schema \cup {None} /\ tableName \in Schema \cup {None}
    /\ held \subseteq Schema
    /\ op \in [kind : {"none", "up", "reset"}, schema : Schema \cup {None}]
    /\ table \in [Schema -> Seq(Script)]
    /\ effects \subseteq Script
    /\ faults \in 0..MaxFaults
    /\ op # Idle => op.schema \in held /\ tableName = op.schema

Init ==
    /\ clock = 1
    /\ scripts = [s \in Schema |-> {}]
    /\ lenient \in BOOLEAN
    /\ baseFS = None /\ tableName = None
    /\ held = {} /\ op = Idle
    /\ table = [s \in Schema |-> <<>>] /\ effects = {}
    /\ faults = 0

-----------------------------------------------------------------------------
(* Writing scripts. *)

Tick ==
    /\ clock < MaxClock
    /\ clock' = clock + 1
    /\ UNCHANGED <<scripts, lenient, goose, held, op, database, faults>>

\* Mutant of MigrationStamps: the clock alone.
ClockStamp(s) == clock

\* The create stamp: now, or one second after the highest stamp of the
\* directory when that is not earlier.
MigrationStamps(s) ==
    LET later == {v \in Versions(scripts[s]) : v >= clock}
    IN  IF later = {} THEN clock ELSE Highest(later) + 1

\* AddSlice of a slice with a table: a create script and a seed script one
\* second later.
AddSlice(s) ==
    LET at == MigrationStamps(s)
    IN  /\ held = {}
        /\ Cardinality(scripts[s]) < MaxScripts
        /\ scripts' = [scripts EXCEPT ![s] = @ \cup
                         {[owner |-> s, version |-> at, name |-> "create"],
                          [owner |-> s, version |-> at + 1, name |-> "seed"]}]
        /\ UNCHANGED <<clock, lenient, goose, held, op, database, faults>>

\* `migrate create`, a SQL migration: stamped with the local time whatever the
\* directory holds; a file of the same name is overwritten.  A description
\* refused by ValidateDescription and a Go migration, which scripts/*.sql does
\* not embed, leave the scripts alone.
Create(s, name) ==
    /\ held = {}
    /\ Cardinality(scripts[s]) < MaxScripts
    /\ scripts' = [scripts EXCEPT ![s] = @ \cup
                     {[owner |-> s, version |-> clock + Zone, name |-> name]}]
    /\ UNCHANGED <<clock, lenient, goose, held, op, database, faults>>

-----------------------------------------------------------------------------
(* A process and its migrators. *)

\* New: goose reads this schema's scripts from now on, whoever asks.
New(s) ==
    /\ op = Idle
    /\ s \notin held
    /\ Cardinality(held) < MaxHeld
    /\ baseFS' = s
    /\ held' = held \cup {s}
    /\ UNCHANGED <<clock, scripts, lenient, tableName, op, database, faults>>

\* CREATE SCHEMA fails: no migrator, but goose's file system is set.
NewFails(s) ==
    /\ op = Idle
    /\ s \notin held
    /\ Cardinality(held) < MaxHeld
    /\ faults < MaxFaults
    /\ baseFS' = s
    /\ faults' = faults + 1
    /\ UNCHANGED <<clock, scripts, lenient, tableName, held, op, database>>

\* A caller lets go of a migrator: Migrate of the module returns, and the
\* process goes on with goose set as it is.
Release(s) ==
    /\ op = Idle
    /\ s \in held
    /\ held' = held \ {s}
    /\ UNCHANGED <<clock, scripts, lenient, goose, op, database, faults>>

\* The process ends, by itself or killed between two transactions.
Exit ==
    /\ held # {}
    /\ op # Idle => faults < MaxFaults
    /\ faults' = IF op = Idle THEN faults ELSE faults + 1
    /\ baseFS' = None /\ tableName' = None
    /\ held' = {} /\ op' = Idle
    /\ UNCHANGED <<clock, scripts, lenient, database>>

-----------------------------------------------------------------------------
(* The operations of a migrator. *)

Found == scripts[baseFS]

\* goose panics on two scripts of one version.
Readable == \A x, y \in Found : x.version = y.version => x = y

\* The scripts goose would run on top of the table it is set to.
Pending(t) == {x \in Found : x.version \notin Versions(Recorded(t))}

\* Without WithAllowMissing a script older than one recorded is an error.
Refused(t) ==
    /\ ~lenient
    /\ \E x \in Pending(t), y \in Recorded(t) : x.version < y.version

\* Mutant of Start: the table name is left as it was.
StartUnset(kind, s) ==
    /\ op = Idle
    /\ s \in held
    /\ Readable
    /\ op' = [kind |-> kind, schema |-> s]
    /\ UNCHANGED <<clock, scripts, lenient, goose, held, database, faults>>

\* Start of an operation: SetTableName, then goose collects the scripts.
Start(kind, s) ==
    /\ op = Idle
    /\ s \in held
    /\ Readable
    /\ tableName' = s
    /\ op' = [kind |-> kind, schema |-> s]
    /\ UNCHANGED <<clock, scripts, lenient, baseFS, held, database, faults>>

\* Up of the module's Migrate, and of `migrate up`.
Up(s) == Start("up", s)

\* `migrate reset`, answered with "yes".
Reset(s) == lenient /\ Start("reset", s)

\* The collection panics: the process is gone, its table name set or not.
CollectPanics(s) ==
    /\ op = Idle
    /\ s \in held
    /\ ~Readable
    /\ baseFS' = None /\ tableName' = None
    /\ held' = {}
    /\ UNCHANGED <<clock, scripts, lenient, op, database, faults>>

\* Mutant of UpStep: the version is recorded in a transaction of its own, and
\* that one may fail.
UpStepSplit ==
    /\ op.kind = "up" /\ ~Refused(tableName)
    /\ \E x \in Pending(tableName) :
          /\ \A y \in Pending(tableName) : x.version <= y.version
          /\ effects' = effects \cup {x}
    /\ op' = Idle
    /\ UNCHANGED <<clock, scripts, lenient, goose, held, table, faults>>

\* The oldest pending script and its version row, in one transaction.
UpStep ==
    /\ op.kind = "up" /\ ~Refused(tableName)
    /\ \E x \in Pending(tableName) :
          /\ \A y \in Pending(tableName) : x.version <= y.version
          /\ table' = [table EXCEPT ![tableName] = Append(@, x)]
          /\ effects' = effects \cup {x}
    /\ UNCHANGED <<clock, scripts, lenient, goose, held, op, faults>>

\* Mutant of UpEnds: what is older than the last script recorded is skipped.
UpEndsAtLast ==
    /\ op.kind = "up"
    /\ \A x \in Pending(tableName) : \E y \in Recorded(tableName) : x.version < y.version
    /\ op' = Idle
    /\ UNCHANGED <<clock, scripts, lenient, goose, held, database, faults>>

\* Nothing is pending any more; Up reads the version and returns it.
UpEnds ==
    /\ op.kind = "up"
    /\ Pending(tableName) = {}
    /\ op' = Idle
    /\ UNCHANGED <<clock, scripts, lenient, goose, held, database, faults>>

\* goose refuses to run, or the next script fails and is rolled back: Up
\* returns the error, what was applied before stays.
UpFails ==
    /\ op.kind = "up"
    /\ Refused(tableName) \/ faults < MaxFaults
    /\ faults' = IF Refused(tableName) THEN faults ELSE faults + 1
    /\ op' = Idle
    /\ UNCHANGED <<clock, scripts, lenient, goose, held, database>>

\* The script x is undone and its row removed: UpStep never records a version
\* twice, so there is one.
Undo(x) ==
    /\ \E i \in DOMAIN table[tableName'] :
          /\ table[tableName'][i].version = x.version
          /\ table' = [table EXCEPT ![tableName'] = RemoveAt(@, i)]
    /\ effects' = effects \ {x}

\* `migrate down`: the script recorded last, when the file system has it;
\* otherwise an error.
Down(s) ==
    /\ lenient /\ op = Idle /\ s \in held /\ Readable
    /\ tableName' = s
    /\ LET last == {x \in Found : table[s] # <<>> /\ x.version = Last(table[s]).version}
       IN  IF last = {} THEN UNCHANGED database ELSE \E x \in last : Undo(x)
    /\ UNCHANGED <<clock, scripts, lenient, baseFS, held, op, faults>>

\* The recorded scripts of the file system, newest first, each in a
\* transaction of its own; the operation ends with the last one or on an error.
ResetStep ==
    LET undoable == {x \in Found : x.version \in Versions(Recorded(tableName))}
    IN  /\ op.kind = "reset"
        /\ tableName' = tableName
        /\ \/ /\ undoable = {} \/ faults < MaxFaults
              /\ faults' = IF undoable = {} THEN faults ELSE faults + 1
              /\ op' = Idle
              /\ UNCHANGED database
           \/ /\ \E x \in undoable :
                    /\ \A y \in undoable : y.version <= x.version
                    /\ Undo(x)
              /\ UNCHANGED <<op, faults>>
        /\ UNCHANGED <<clock, scripts, lenient, baseFS, held>>

\* Status, Version, and Fix where the working directory has no scripts: goose
\* is pointed at the migrator's table, nothing else changes.
Look(s) ==
    /\ lenient /\ op = Idle /\ s \in held
    /\ tableName' = s
    /\ UNCHANGED <<clock, scripts, lenient, baseFS, held, op, database, faults>>

Write == \E s \in Schema : AddSlice(s) \/ \E name \in {"a", "b"} : Create(s, name)

Operation ==
    \/ \E s \in Schema : Up(s) \/ Reset(s) \/ Down(s) \/ Look(s) \/ CollectPanics(s)
    \/ UpStep \/ UpEnds \/ UpFails \/ ResetStep

Next ==
    \/ Tick \/ Write \/ Operation \/ Exit
    \/ \E s \in Schema : New(s) \/ NewFails(s) \/ Release(s)

Spec == Init /\ [][Next]_vars

-----------------------------------------------------------------------------
(* What the migrator promises. *)

\* A per-service version table prevents collisions: the table of a schema
\* records exactly the scripts of that schema whose changes the database
\* holds, also after an operation that failed or was killed halfway.
TablesMatch == \A s \in Schema : Recorded(s) = {x \in effects : x.owner = s}

\* When Up of a schema ends without an error, no script of the schema is
\* missing from its table, older ones that arrived late included.
UpIsComplete ==
    [][op.kind = "up" /\ op' = Idle /\ held' # {} /\ faults' = faults /\ ~Refused(tableName)
         => \A x \in scripts[op.schema] : x.version \in Versions(Recorded(op.schema))]_vars

\* The scripts of slices never stop the migrations, whatever the clock and
\* `migrate create` did to the directory: no two of them share a version, over
\* which goose panics, and none that is pending is older than one recorded,
\* which Migrate refuses.
SlicesNeverRefused ==
    \A s \in Schema : \A x \in scripts[s] : x.name \in {"create", "seed"} =>
        /\ \A y \in scripts[s] : y.name \in {"create", "seed"} /\ y.version = x.version => y = x
        /\ x.version \in Versions(Recorded(s)) \/ \A y \in Recorded(s) : y.version < x.version
=============================================================================
