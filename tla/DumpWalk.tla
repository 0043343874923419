------------------------------ MODULE DumpWalk ------------------------------
(***************************************************************************)
(* mmw db dump: which rows a dump selects.  walk takes the rows of each    *)
(* seed, expands them to their children down to the seed's depth, then     *)
(* adds what the selection references and what attach rules tie to it,     *)
(* until nothing is new.  Every query of the walk reads the snapshot taken *)
(* by withSnapshot while other sessions go on writing.                     *)
(*                                                                         *)
(* A row is a number, its primary key; a link <<fk, c, p>> says that row c *)
(* references row p through the foreign key fk.                            *)
(***************************************************************************)
EXTENDS Naturals, Sequences, FiniteSets

CONSTANTS
    Row,        \* the rows of the database
    Table,      \* the dumpable tables (catalog.Tables)
    Columns,    \* the columns of each (table.Columns)
    NoTable,    \* a table the catalog does not know
    TableOf,    \* the table of each row
    FK,         \* the foreign keys between them (catalog.FKs)
    Child,      \* the child and the parent table of each
    Parent,
    Database,   \* the sets of links the database may hold
    Written,    \* those other sessions may leave while the dump runs
    Config,     \* the dump configs
    MaxWrites   \* bound on the writes of other sessions

\* The tables of a config's patterns are resolved already; perParent is
\* children_per_parent, all the tables of all_children.
Seed == [rows : SUBSET Row, table : Table \cup {NoTable}, depth : Nat, perParent : Nat \ {0},
         all : SUBSET Table]

ASSUME DumpWalkAssumption ==
    /\ Row \subseteq Nat
    /\ IsFiniteSet(Row)
    /\ NoTable \notin Table /\ DOMAIN Columns = Table
    /\ TableOf \in [Row -> Table]
    /\ Child \in [FK -> Table]
    /\ Parent \in [FK -> Table]
    /\ \A db \in Database : \A l \in db :
          /\ l[1] \in FK /\ l[2] \in Row /\ l[3] \in Row
          /\ TableOf[l[2]] = Child[l[1]] /\ TableOf[l[3]] = Parent[l[1]]
    /\ Written \subseteq Database
    /\ \A c \in Config :
          /\ c.seeds \in Seq(Seed)
          /\ c.exclude \subseteq Table
          /\ c.attach \subseteq Table \X Table
          /\ \A i \in DOMAIN c.seeds : \A r \in c.seeds[i].rows : TableOf[r] = c.seeds[i].table
    /\ MaxWrites \in Nat

VARIABLES
    db,        \* the database as other sessions leave it
    writes,    \* their writes so far
    snap,      \* the snapshot of the dump's transaction
    cfg,       \* the config of this dump
    phase,     \* "start", "seeds", "close", "done" or "failed"
    seed,      \* index of the seed being expanded
    level,     \* levels of children left for it
    frontier,  \* the rows whose children come next
    rows,      \* the selection (rowSet)
    work,      \* the rows of this round of closeSelection not yet looked at
    next,      \* the rows added in this round
    base       \* the selection when the closing began

vars == <<db, writes, snap, cfg, phase, seed, level, frontier, rows, work, next, base>>

TypeOK ==
    /\ db \in Database /\ snap \in Database /\ cfg \in Config
    /\ writes \in 0..MaxWrites
    /\ phase \in {"start", "seeds", "close", "done", "failed"}
    /\ seed \in Nat \ {0} /\ level \in Nat
    /\ frontier \subseteq rows /\ work \subseteq rows /\ next \subseteq rows
    /\ base \subseteq rows /\ rows \subseteq Row

Init ==
    /\ db \in Database /\ snap = db /\ writes = 0
    /\ cfg \in Config
    /\ phase = "start"
    /\ seed = 1 /\ level = 0
    /\ frontier = {} /\ rows = {} /\ work = {} /\ next = {} /\ base = {}

-----------------------------------------------------------------------------
(* The queries, each reading View. *)

\* Mutant of View: the dump reads what is committed when each query runs.
ReadCommitted == db

\* Every query sees the same data.
View == snap

\* childSQL: the rows referencing p through fk, the newest (highest key) first,
\* at most limit of them; all of them when limit is 0.
ChildRows(p, fk, limit) ==
    LET kids == {c \in Row : <<fk, c, p>> \in View}
    IN  {c \in kids : limit = 0 \/ Cardinality({d \in kids : d > c}) < limit}

\* childLimit
ChildLimit(s, table) == IF table \in s.all THEN 0 ELSE s.perParent

\* One level of expandSeed: the children of the frontier, through the foreign
\* keys whose child table is not excluded.
Children(s) ==
    {c \in Row : \E p \in frontier, fk \in FK :
        /\ Child[fk] \notin cfg.exclude
        /\ c \in ChildRows(p, fk, ChildLimit(s, Child[fk]))}

\* parentSQL: the rows row r references.
ParentRows(r) == {p \in Row : \E fk \in FK : <<fk, r, p>> \in View}

\* attachedVia, then childSQL without a limit.
AttachedRows(r) ==
    {c \in Row : \E fk \in FK : /\ <<Child[fk], Parent[fk]>> \in cfg.attach
                                /\ <<fk, c, r>> \in View}

Neighbours(r) == ParentRows(r) \cup AttachedRows(r)

-----------------------------------------------------------------------------
\* applyTransforms: an unknown table or column is an error.
TransformsKnown(c) == \A t \in c.transform : t[1] \in Table /\ t[2] \in Columns[t[1]]

\* The checks made before a row is read: the transforms, then walk's own.
ConfigAccepted(c) ==
    /\ TransformsKnown(c)
    /\ \A i \in DOMAIN c.seeds : c.seeds[i].table \in Table
    /\ \A a \in c.attach : /\ \E fk \in FK : Child[fk] = a[1] /\ Parent[fk] = a[2]
                           /\ a[1] \notin c.exclude

\* BEGIN ISOLATION LEVEL REPEATABLE READ, then the catalog and the checks.
Begin ==
    /\ phase = "start"
    /\ snap' = db
    /\ phase' = IF ConfigAccepted(cfg) THEN "seeds" ELSE "failed"
    /\ UNCHANGED <<db, writes, cfg, seed, level, frontier, rows, work, next, base>>

\* A seed's own rows; only the new ones will be expanded.
SelectSeed ==
    /\ phase = "seeds"
    /\ level = 0
    /\ seed <= Len(cfg.seeds)
    /\ LET s == cfg.seeds[seed]
       IN /\ frontier' = s.rows \ rows
          /\ rows' = rows \cup s.rows
          /\ level' = s.depth
          /\ seed' = IF s.depth = 0 THEN seed + 1 ELSE seed
    /\ UNCHANGED <<db, writes, snap, cfg, phase, work, next, base>>

\* One turn of "for range s.childDepth()".
ExpandLevel ==
    /\ phase = "seeds"
    /\ level > 0
    /\ LET found == Children(cfg.seeds[seed])
       IN /\ frontier' = found \ rows
          /\ rows' = rows \cup found
    /\ level' = level - 1
    /\ seed' = IF level = 1 THEN seed + 1 ELSE seed
    /\ UNCHANGED <<db, writes, snap, cfg, phase, work, next, base>>

\* closeSelection starts from everything selected.
StartClosing ==
    /\ phase = "seeds"
    /\ level = 0
    /\ seed > Len(cfg.seeds)
    /\ phase' = "close"
    /\ work' = rows
    /\ base' = rows
    /\ UNCHANGED <<db, writes, snap, cfg, seed, level, frontier, rows, next>>

\* Mutant of CloseTable: children come along as if they were attached.
CloseTableGreedy(t) ==
    /\ phase = "close"
    /\ LET mine == {r \in work : TableOf[r] = t}
           found == UNION {Neighbours(r) \cup ChildRows(r, fk, 1) : r \in mine, fk \in FK}
       IN /\ mine # {}
          /\ rows' = rows \cup found
          /\ next' = next \cup (found \ rows)
          /\ work' = work \ mine
    /\ UNCHANGED <<db, writes, snap, cfg, phase, seed, level, frontier, base>>

\* Mutant of CloseTable: what is found is worked on again, new or not.
CloseTableRevisit(t) ==
    /\ phase = "close"
    /\ LET mine == {r \in work : TableOf[r] = t}
           found == UNION {Neighbours(r) : r \in mine}
       IN /\ mine # {}
          /\ rows' = rows \cup found
          /\ next' = next \cup found
          /\ work' = work \ mine
    /\ UNCHANGED <<db, writes, snap, cfg, phase, seed, level, frontier, base>>

\* One table of a round: its neighbours join the selection, the new ones are
\* left for the next round.
CloseTable(t) ==
    /\ phase = "close"
    /\ LET mine == {r \in work : TableOf[r] = t}
           found == UNION {Neighbours(r) : r \in mine}
       IN /\ mine # {}
          /\ rows' = rows \cup found
          /\ next' = next \cup (found \ rows)
          /\ work' = work \ mine
    /\ UNCHANGED <<db, writes, snap, cfg, phase, seed, level, frontier, base>>

\* The round is over: another one if it added rows.
EndRound ==
    /\ phase = "close"
    /\ work = {}
    /\ work' = next
    /\ next' = {}
    /\ phase' = IF next = {} THEN "done" ELSE "close"
    /\ UNCHANGED <<db, writes, snap, cfg, seed, level, frontier, rows, base>>

\* A query fails or the context is cancelled: walk returns the error.
Fail ==
    /\ phase \in {"seeds", "close"}
    /\ phase' = "failed"
    /\ UNCHANGED <<db, writes, snap, cfg, seed, level, frontier, rows, work, next, base>>

\* Another session commits.
OtherWrites ==
    /\ writes < MaxWrites
    /\ phase \notin {"done", "failed"}
    /\ db' \in Written
    /\ writes' = writes + 1
    /\ UNCHANGED <<snap, cfg, phase, seed, level, frontier, rows, work, next, base>>

Walk ==
    \/ Begin \/ SelectSeed \/ ExpandLevel \/ StartClosing
    \/ \E t \in Table : CloseTable(t)
    \/ EndRound

Next == Walk \/ Fail \/ OtherWrites

Spec == Init /\ [][Next]_vars

-----------------------------------------------------------------------------
\* The rows that must come with r in the state the dump read.
MustAccompany(r) ==
    {q \in Row : \E fk \in FK : \/ <<fk, r, q>> \in snap
                               \/ /\ <<fk, q, r>> \in snap
                                  /\ <<Child[fk], Parent[fk]>> \in cfg.attach}
Closed(S) == \A r \in S : MustAccompany(r) \subseteq S

\* "Every foreign key resolves", in one state of the database: a finished dump
\* holds every row its rows reference, and every row attached to them.
SelectionClosed == phase = "done" => Closed(rows)

\* Nothing comes along without a reason: the selection is the least closed set
\* that holds the expanded seeds.
SelectionMinimal ==
    phase = "done" => \A S \in SUBSET Row : (base \subseteq S /\ Closed(S)) => rows \subseteq S

\* An excluded table is never entered by child expansion: its rows are there
\* as seeds, or because another selected row references them.
ExcludedOnlyAsParents ==
    phase = "done" =>
        \A r \in rows : TableOf[r] \in cfg.exclude =>
            \/ \E i \in DOMAIN cfg.seeds : r \in cfg.seeds[i].rows
            \/ \E c \in rows \ {r}, fk \in FK : <<fk, c, r>> \in snap
=============================================================================
