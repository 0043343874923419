----------------------------- MODULE DumpScript -----------------------------
(***************************************************************************)
(* mmw db dump from the command line to the file on disk.  Run reads the   *)
(* config, connects, creates a hidden temporary file next to the output,   *)
(* runs the walk of DumpWalk in a snapshot, writes the script through a    *)
(* buffer and renames the file on success.  Every call may fail, Ctrl-C    *)
(* makes the query in progress fail, and the process may be killed.        *)
(*                                                                         *)
(* The script is a sequence of statements.  What it is worth is what psql  *)
(* makes of it, so the load is part of the model: a script without its     *)
(* COMMIT loads nothing, and a setval sees the rows copied before it.      *)
(***************************************************************************)
EXTENDS DumpWalk

CONSTANTS
    TableOrder,  \* catalog.Keys: the tables, sorted
    SeqOrder,    \* catalog.Sequences, sorted by name
    Uses,        \* the tables with a column that draws from each sequence
    Rewritten    \* that column of each row as a transform rewrites it

ASSUME DumpScriptAssumption ==
    /\ TableOrder \in Seq(Table)
    /\ \A t \in Table : \E i \in DOMAIN TableOrder : TableOrder[i] = t
    /\ SeqOrder \in Seq(STRING)
    /\ Uses \in [{SeqOrder[i] : i \in DOMAIN SeqOrder} -> SUBSET Table]
    /\ Rewritten \in [Row -> Nat]

VARIABLES
    run,      \* where Run is, or how it ended
    toFile,   \* whether --output was given; otherwise the script goes to stdout
    temp,     \* whether the temporary file exists
    written,  \* the statements given to the buffered writer so far
    flushed,  \* whether the buffer is known to be empty
    output    \* the statements at the destination

runVars == <<run, toFile, temp, written, flushed, output>>
dumpVars == <<vars, runVars>>

Statement(op, on, S) == [op |-> op, on |-> on, rows |-> S]

\* The script that an earlier run left at the output path.
Previous == <<Statement("previous", "", {})>>
Ended == {"ok", "error", "killed"}

DumpInit ==
    /\ Init
    /\ run = "config"
    /\ toFile \in BOOLEAN
    /\ temp = FALSE
    /\ written = <<>>
    /\ flushed = TRUE
    /\ output = IF toFile THEN Previous ELSE <<>>

-----------------------------------------------------------------------------
(* The script. *)

RowsOf(t) == {r \in rows : TableOf[r] = t}

\* A turn of one of writeData's loops that writes nothing (continue).
Skip == Statement("skip", "", {})

\* For each of the keys, in order: a COPY block if the table has rows.
Copies == [i \in DOMAIN TableOrder |->
              IF RowsOf(TableOrder[i]) = {} THEN Skip
              ELSE Statement("copy", TableOrder[i], RowsOf(TableOrder[i]))]

\* usedBy, and a setval for each such sequence.
Setvals == [i \in DOMAIN SeqOrder |->
               IF \A t \in Uses[SeqOrder[i]] : RowsOf(t) = {} THEN Skip
               ELSE Statement("setval", SeqOrder[i], {})]

\* Mutant of Script: the sequences are moved before the rows are there.
ScriptSetvalsFirst ==
    <<Statement("begin", "", {})>> \o Setvals \o Copies \o <<Statement("commit", "", {})>>

\* writeHeader, then writeData.
Script ==
    <<Statement("begin", "", {})>> \o Copies \o Setvals \o <<Statement("commit", "", {})>>

\* What reached the file or stdout behind the buffer: everything once it was
\* flushed, else a part of it.
Arrived == IF flushed THEN {written} ELSE {SubSeq(written, 1, n) : n \in 0..Len(written)}

-----------------------------------------------------------------------------
(* Run. *)

\* os.Open and ParseConfig: a config without seeds is refused.
ReadConfig ==
    /\ run = "config"
    /\ run' = IF cfg.seeds = <<>> THEN "error" ELSE "connect"
    /\ UNCHANGED <<vars, toFile, temp, written, flushed, output>>

Connect ==
    /\ run = "connect"
    /\ run' = IF toFile THEN "temp" ELSE "dump"
    /\ UNCHANGED <<vars, toFile, temp, written, flushed, output>>

\* A name of its own, next to the output.
CreateTemp ==
    /\ run = "temp"
    /\ temp' = TRUE
    /\ run' = "dump"
    /\ UNCHANGED <<vars, toFile, written, flushed, output>>

\* Run returns before there is anything to remove.
EarlyFailure ==
    /\ run \in {"config", "connect", "temp"}
    /\ run' = "error"
    /\ UNCHANGED <<vars, toFile, temp, written, flushed, output>>

\* Dump, inside the snapshot: the selection.
Select ==
    /\ run = "dump"
    /\ Walk
    /\ UNCHANGED runVars

\* The header, a COPY with the rows the server sends, a setval or COMMIT goes
\* into the buffer, which passes on what it cannot hold.
Write ==
    /\ run = "dump"
    /\ phase = "done"
    /\ Len(written) < Len(Script)
    /\ written' = Append(written, Script[Len(written) + 1])
    /\ flushed' = FALSE
    /\ UNCHANGED <<vars, run, toFile, temp, output>>

\* Mutant of Flush: the end of the script stays in the buffer.
FlushForgotten ==
    /\ run = "dump"
    /\ phase = "done"
    /\ Len(written) = Len(Script)
    /\ run' = IF toFile THEN "close" ELSE "ok"
    /\ output' \in IF toFile THEN {output} ELSE Arrived
    /\ UNCHANGED <<vars, toFile, temp, written, flushed>>

\* bw.Flush ends Dump; without a file it ends Run too.
Flush ==
    /\ run = "dump"
    /\ phase = "done"
    /\ Len(written) = Len(Script)
    /\ flushed' = TRUE
    /\ run' = IF toFile THEN "close" ELSE "ok"
    /\ output' = IF toFile THEN output ELSE written
    /\ UNCHANGED <<vars, toFile, temp, written>>

\* A query of the walk fails, or its context is cancelled by Ctrl-C.
WalkFails ==
    /\ run = "dump"
    /\ Fail
    /\ UNCHANGED runVars

\* Dump returns the error of the walk, of a COPY (a transform whose value does
\* not fit its column, a cancelled query) or of a write: the temporary file is
\* removed, but the error of os.Remove is ignored.  On stdout, what was passed
\* on stays.
DumpFails ==
    /\ run = "dump"
    /\ phase \in {"done", "failed"}
    /\ run' = "error"
    /\ temp' \in {FALSE, temp}
    /\ output' \in IF toFile THEN {output} ELSE Arrived
    /\ UNCHANGED <<vars, toFile, written, flushed>>

CloseTemp ==
    /\ run = "close"
    /\ run' = "chmod"
    /\ UNCHANGED <<vars, toFile, temp, written, flushed, output>>

Chmod ==
    /\ run = "chmod"
    /\ run' = "rename"
    /\ UNCHANGED <<vars, toFile, temp, written, flushed, output>>

Rename ==
    /\ run = "rename"
    /\ output' \in Arrived
    /\ temp' = FALSE
    /\ run' = "ok"
    /\ UNCHANGED <<vars, toFile, written, flushed>>

\* Close, Chmod or Rename fails: the temporary file is removed, if it can be.
LateFailure ==
    /\ run \in {"close", "chmod", "rename"}
    /\ run' = "error"
    /\ temp' \in {FALSE, temp}
    /\ UNCHANGED <<vars, toFile, written, flushed, output>>

\* SIGKILL or a power cut: nothing is cleaned up.
Killed ==
    /\ run \notin Ended
    /\ run' = "killed"
    /\ output' \in IF toFile THEN {output} ELSE Arrived
    /\ UNCHANGED <<vars, toFile, temp, written, flushed>>

\* Other sessions write while the snapshot is open (what they wrote before is
\* part of the database the dump finds).
OthersWrite == run = "dump" /\ phase # "start" /\ OtherWrites /\ UNCHANGED runVars

Step == \/ ReadConfig \/ Connect \/ CreateTemp \/ Select \/ Write \/ Flush
        \/ CloseTemp \/ Chmod \/ Rename \/ (phase = "failed" /\ DumpFails)

DumpNext == Step \/ EarlyFailure \/ WalkFails \/ DumpFails \/ LateFailure \/ Killed \/ OthersWrite

\* Run is one goroutine: it goes on until it returns.
DumpSpec == DumpInit /\ [][DumpNext]_dumpVars
FairDumpSpec == DumpSpec /\ WF_dumpVars(Step)

-----------------------------------------------------------------------------
(* What psql makes of a script. *)

Committed(s) == s # <<>> /\ s[Len(s)].op = "commit"
CopiedBefore(s, n) == UNION {s[i].rows : i \in 1..(n - 1)}
Loaded(s) == IF Committed(s) THEN CopiedBefore(s, Len(s)) ELSE {}

\* The sequence column of a row, its id, as COPY wrote it.
Value(r) == IF <<TableOf[r], "id">> \in cfg.transform THEN Rewritten[r] ELSE r

\* maxExpr, evaluated by the setval at position n: GREATEST(1, the maxima).
Setval(s, n) ==
    LET drawn == {r \in CopiedBefore(s, n) : TableOf[r] \in Uses[s[n].on]}
        values == {1} \cup {Value(r) : r \in drawn}
    IN  CHOOSE v \in values : \A w \in values : w <= v

\* "A failed dump never leaves a truncated script or clobbers the previous
\* one": at every moment, with every failure and a kill at any point, the
\* output file holds the previous script or one that loads exactly the
\* finished, closed selection; success means the latter; and whatever reached
\* stdout loads all of the selection or nothing.
OutputIsWhole ==
    LET whole == phase = "done" /\ Closed(rows) /\ Loaded(output) = rows /\ Committed(output)
    IN  /\ toFile => output = Previous \/ whole
        /\ run = "ok" => whole
        /\ ~toFile => Loaded(output) \in {{}, rows}

\* "So a test's first insert does not collide with a loaded row": once a
\* script is loaded, each sequence stands at or past every value a column
\* drawing from it holds, values rewritten by a transform included.
SequencesArePast ==
    run = "ok" /\ Committed(output) =>
        \A i \in DOMAIN SeqOrder : \A r \in Loaded(output) :
            TableOf[r] \in Uses[SeqOrder[i]] =>
                \E n \in DOMAIN output : /\ output[n].op = "setval"
                                         /\ output[n].on = SeqOrder[i]
                                         /\ Setval(output, n) >= Value(r)

\* A dump ends, whatever cycles the foreign keys and the data have.
DumpEnds == <>(run \in Ended)
=============================================================================
