----------------------------- MODULE DumpProofs -----------------------------
(*****************************************************************************)
(* Proofs about DumpWalk and DumpScript, for every schema, database content, *)
(* config, failure and interleaving with other sessions: a finished          *)
(* selection is closed and least, Run leaves the walk as DumpWalk has it,    *)
(* the output is the previous script or a whole new one, and once loaded its *)
(* sequences stand past every row.                                           *)
(*****************************************************************************)
EXTENDS DumpScript, FiniteSetTheorems, WellFoundedInduction, TLAPS

-----------------------------------------------------------------------------
(* The selection of the rows. *)

\* What the walk looks up for a row is what must come with it, because every
\* query reads the snapshot.
LEMMA NeighboursAreNeeded == \A r : Neighbours(r) = MustAccompany(r)
BY DEF Neighbours, ParentRows, AttachedRows, MustAccompany, View

\* The queries return rows.
LEMMA NeighboursAreRows == \A r : Neighbours(r) \subseteq Row
BY DEF Neighbours, ParentRows, AttachedRows

\* So do those of child expansion.
LEMMA ChildrenAreRows == \A s : Children(s) \subseteq Row
BY DEF Children

\* Every step keeps the types; the frontier, the worklist and the rows left for
\* the next round are always part of the selection.
LEMMA TypeStep == TypeOK /\ [Next]_vars => TypeOK'
<1> SUFFICES ASSUME TypeOK, [Next]_vars
             PROVE  TypeOK'
  OBVIOUS
<1> USE DEF TypeOK
<1>1. CASE Begin
  BY <1>1 DEF Begin
<1>2. CASE SelectSeed
  <2> DEFINE s == cfg.seeds[seed]
  <2>1. s \in Seed
    <3>1. cfg.seeds \in Seq(Seed)
      BY DumpWalkAssumption
    <3>2. seed \in 1..Len(cfg.seeds)
      BY <1>2, <3>1 DEF SelectSeed
    <3> QED
      BY <3>1, <3>2
  <2>2. s.rows \subseteq Row /\ s.depth \in Nat
    BY <2>1 DEF Seed
  <2>3. /\ UNCHANGED <<db, writes, snap, cfg, phase, work, next, base>>
        /\ frontier' = s.rows \ rows
        /\ rows' = rows \cup s.rows
        /\ level' = s.depth
        /\ seed' = IF s.depth = 0 THEN seed + 1 ELSE seed
    BY <1>2 DEF SelectSeed
  <2> HIDE DEF s
  <2> QED
    BY <2>2, <2>3
<1>3. CASE ExpandLevel
  <2> DEFINE found == Children(cfg.seeds[seed])
  <2>1. found \subseteq Row
    BY ChildrenAreRows
  <2>2. /\ UNCHANGED <<db, writes, snap, cfg, phase, work, next, base>>
        /\ frontier' = found \ rows
        /\ rows' = rows \cup found
        /\ level > 0 /\ level' = level - 1
        /\ seed' = IF level = 1 THEN seed + 1 ELSE seed
    BY <1>3 DEF ExpandLevel
  <2> HIDE DEF found
  <2> QED
    BY <2>1, <2>2
<1>4. CASE StartClosing
  BY <1>4 DEF StartClosing
<1>5. ASSUME NEW t \in Table, CloseTable(t)
      PROVE  TypeOK'
  <2> DEFINE mine == {r \in work : TableOf[r] = t}
             found == UNION {Neighbours(r) : r \in mine}
  <2>1. found \subseteq Row
    BY NeighboursAreRows
  <2>2. /\ UNCHANGED <<db, writes, snap, cfg, phase, seed, level, frontier, base>>
        /\ rows' = rows \cup found
        /\ next' = next \cup (found \ rows)
        /\ work' = work \ mine
    BY <1>5 DEF CloseTable
  <2> HIDE DEF found, mine
  <2> QED
    BY <2>1, <2>2
<1>6. CASE EndRound
  BY <1>6 DEF EndRound
<1>7. CASE Fail
  BY <1>7 DEF Fail
<1>8. CASE OtherWrites
  BY <1>8, DumpWalkAssumption DEF OtherWrites
<1>9. CASE UNCHANGED vars
  BY <1>9 DEF vars
<1> QED
  BY <1>1, <1>2, <1>3, <1>4, <1>5, <1>6, <1>7, <1>8, <1>9 DEF Next, Walk

\* The walk keeps its types.
THEOREM WalkTypeCorrect == Spec => []TypeOK
<1>1. Init => TypeOK
  BY DumpWalkAssumption DEF Init, TypeOK
<1> QED
  BY <1>1, TypeStep, PTL DEF Spec

-----------------------------------------------------------------------------
(* The closing is correct because a row leaves the worklist only once its  *)
(* neighbours are selected, and joins the selection only as a neighbour.   *)

Settled == rows \ (work \cup next)

ClosingInv ==
    phase \in {"close", "done"} =>
        /\ \A r \in Settled : MustAccompany(r) \subseteq rows
        /\ \A S \in SUBSET Row : (base \subseteq S /\ Closed(S)) => rows \subseteq S

WalkInv ==
    /\ TypeOK
    /\ ClosingInv
    /\ phase = "done" => work = {} /\ next = {}

\* Looking at one table settles its rows and adds only what is needed.
LEMMA CloseTableStep ==
    ASSUME WalkInv, WalkInv => TypeOK', NEW t \in Table, CloseTable(t)
    PROVE  ClosingInv'
<1> DEFINE mine == {r \in work : TableOf[r] = t}
           found == UNION {Neighbours(r) : r \in mine}
<1>1. /\ UNCHANGED <<snap, cfg, phase, base>>
      /\ phase = "close"
      /\ rows' = rows \cup found
      /\ next' = next \cup (found \ rows)
      /\ work' = work \ mine
  BY DEF CloseTable
<1>2. \A r : MustAccompany(r)' = MustAccompany(r)
  BY <1>1 DEF MustAccompany
<1>3. \A S : Closed(S)' <=> Closed(S)
  BY <1>2 DEF Closed
<1>4. \A r \in mine : MustAccompany(r) \subseteq found
  BY NeighboursAreNeeded
<1>5. mine \subseteq work /\ work \subseteq rows /\ next \subseteq rows
  BY DEF WalkInv, TypeOK
<1>6. ASSUME NEW r \in Settled'
      PROVE  MustAccompany(r)' \subseteq rows'
  <2>1. r \in mine \/ r \in Settled
    BY <1>1, <1>5, <1>6 DEF Settled
  <2>2. \A q \in Settled : MustAccompany(q) \subseteq rows
    BY <1>1 DEF WalkInv, ClosingInv
  <2> QED
    BY <1>1, <1>2, <1>4, <2>1, <2>2
<1>7. ASSUME NEW S \in SUBSET Row, base' \subseteq S, Closed(S)'
      PROVE  rows' \subseteq S
  <2>1. Closed(S) /\ base \subseteq S
    BY <1>1, <1>3, <1>7
  <2>2. rows \subseteq S
    BY <1>1, <2>1 DEF WalkInv, ClosingInv
  <2>3. \A r \in mine : Neighbours(r) \subseteq S
    BY <1>5, <2>1, <2>2, NeighboursAreNeeded DEF Closed
  <2>4. found \subseteq S
    BY <2>3
  <2> QED
    BY <1>1, <2>2, <2>4
<1> QED
  BY <1>6, <1>7 DEF ClosingInv

\* Every step preserves the invariant of the walk.
LEMMA WalkInvStep == WalkInv /\ [Next]_vars => WalkInv'
<1> SUFFICES ASSUME WalkInv, [Next]_vars
             PROVE  WalkInv'
  OBVIOUS
<1>0. TypeOK /\ TypeOK'
  BY TypeStep DEF WalkInv
<1>1. CASE Begin \/ SelectSeed \/ ExpandLevel \/ Fail
  <2>1. phase' \notin {"close", "done"}
    BY <1>1 DEF Begin, SelectSeed, ExpandLevel, Fail
  <2> QED
    BY <1>0, <2>1 DEF WalkInv, ClosingInv
<1>2. CASE StartClosing
  <2>1. /\ phase' = "close" /\ rows' = rows /\ work' = rows /\ base' = rows
    BY <1>2 DEF StartClosing
  <2>2. ClosingInv'
    BY <2>1 DEF ClosingInv, Settled
  <2> QED
    BY <1>0, <2>1, <2>2 DEF WalkInv
<1>3. ASSUME NEW t \in Table, CloseTable(t)
      PROVE  WalkInv'
  <2>1. ClosingInv'
    BY <1>0, <1>3, CloseTableStep
  <2>2. phase' = "close"
    BY <1>3 DEF CloseTable
  <2> QED
    BY <1>0, <2>1, <2>2 DEF WalkInv
<1>4. CASE EndRound
  <2>1. /\ UNCHANGED <<snap, cfg, rows, base>>
        /\ phase = "close" /\ work = {} /\ work' = next /\ next' = {}
        /\ phase' = IF next = {} THEN "done" ELSE "close"
    BY <1>4 DEF EndRound
  <2>2. \A r : MustAccompany(r)' = MustAccompany(r)
    BY <2>1 DEF MustAccompany
  <2>3. \A S : Closed(S)' <=> Closed(S)
    BY <2>2 DEF Closed
  <2>4. Settled' = Settled
    BY <2>1 DEF Settled
  <2>5. ClosingInv'
    BY <2>1, <2>2, <2>3, <2>4 DEF WalkInv, ClosingInv
  <2> QED
    BY <1>0, <2>1, <2>5 DEF WalkInv
<1>5. CASE OtherWrites \/ UNCHANGED vars
  <2>1. UNCHANGED <<snap, cfg, phase, rows, work, next, base>>
    BY <1>5 DEF OtherWrites, vars
  <2>2. ClosingInv'
    BY <2>1 DEF WalkInv, ClosingInv, Settled, MustAccompany, Closed
  <2> QED
    BY <1>0, <2>1, <2>2 DEF WalkInv
<1> QED
  BY <1>1, <1>2, <1>3, <1>4, <1>5 DEF Next, Walk

\* It holds initially, hence always.
LEMMA WalkInvCorrect == Spec => []WalkInv
<1>1. Init => WalkInv
  BY DumpWalkAssumption DEF Init, TypeOK, WalkInv, ClosingInv
<1> QED
  BY <1>1, WalkInvStep, PTL DEF Spec

\* A finished dump holds every row its rows reference and every row attached
\* to them, in the one state of the database it read.
THEOREM DumpIsClosed == Spec => []SelectionClosed
<1>1. WalkInv => SelectionClosed
  BY DEF WalkInv, ClosingInv, Settled, SelectionClosed, Closed
<1> QED
  BY <1>1, WalkInvCorrect, PTL

\* A finished dump holds nothing but what the expanded seeds call for.
THEOREM DumpIsMinimal == Spec => []SelectionMinimal
<1>1. WalkInv => SelectionMinimal
  BY DEF WalkInv, ClosingInv, SelectionMinimal
<1> QED
  BY <1>1, WalkInvCorrect, PTL

-----------------------------------------------------------------------------
(* Excluded tables.  A row of one is only ever selected by a seed or as a   *)
(* parent: child expansion skips the table, and no attach rule may name it. *)

Justified(r) ==
    \/ \E i \in DOMAIN cfg.seeds : r \in cfg.seeds[i].rows
    \/ \E c \in rows \ {r}, fk \in FK : <<fk, c, r>> \in snap

ExclusionInv ==
    /\ phase = "start" => rows = {}
    /\ phase \notin {"start", "failed"} => ConfigAccepted(cfg)
    /\ \A r \in rows : TableOf[r] \in cfg.exclude => Justified(r)

\* A link of the snapshot joins rows of the tables its foreign key names.
LEMMA LinkTables ==
    ASSUME TypeOK, NEW fk, NEW c, NEW p, <<fk, c, p>> \in snap
    PROVE  TableOf[c] = Child[fk]
<1> DEFINE l == <<fk, c, p>>
<1>1. l \in snap /\ snap \in Database
  BY DEF TypeOK
<1>2. TableOf[l[2]] = Child[l[1]]
  BY <1>1, DumpWalkAssumption
<1> QED
  BY <1>2

\* What was justified stays so while the selection grows.
LEMMA StillJustified ==
    ASSUME UNCHANGED <<snap, cfg>>, rows \subseteq rows', NEW r, Justified(r)
    PROVE  Justified(r)'
BY DEF Justified

\* Every step keeps the rows of excluded tables justified.
LEMMA ExclusionStep == TypeOK /\ ExclusionInv /\ [Next]_vars => ExclusionInv'
<1> SUFFICES ASSUME TypeOK, ExclusionInv, [Next]_vars
             PROVE  ExclusionInv'
  OBVIOUS
<1>1. CASE Begin
  BY <1>1 DEF Begin, ExclusionInv
<1>2. CASE SelectSeed
  <2>1. /\ UNCHANGED <<snap, cfg, phase>> /\ phase = "seeds"
        /\ rows' = rows \cup cfg.seeds[seed].rows
        /\ seed <= Len(cfg.seeds)
    BY <1>2 DEF SelectSeed
  <2>2. seed \in DOMAIN cfg.seeds
    <3>1. cfg.seeds \in Seq(Seed)
      BY DumpWalkAssumption DEF TypeOK
    <3> QED
      BY <2>1, <3>1 DEF TypeOK
  <2>3. ASSUME NEW r \in rows', TableOf[r] \in cfg.exclude
        PROVE  Justified(r)'
    <3>1. CASE r \in rows
      BY <2>1, <2>3, <3>1, StillJustified DEF ExclusionInv
    <3>2. CASE r \in cfg.seeds[seed].rows
      BY <2>1, <2>2, <3>2 DEF Justified
    <3> QED
      BY <2>1, <3>1, <3>2
  <2> QED
    BY <2>1, <2>3 DEF ExclusionInv
<1>3. CASE ExpandLevel
  <2>1. /\ UNCHANGED <<snap, cfg, phase>> /\ phase = "seeds"
        /\ rows' = rows \cup Children(cfg.seeds[seed])
    BY <1>3 DEF ExpandLevel
  <2>2. \A c \in Children(cfg.seeds[seed]) : TableOf[c] \notin cfg.exclude
    BY LinkTables DEF Children, ChildRows, View
  <2>3. ASSUME NEW r \in rows', TableOf[r] \in cfg.exclude
        PROVE  Justified(r)'
    BY <2>1, <2>2, <2>3, StillJustified DEF ExclusionInv
  <2> QED
    BY <2>1, <2>3 DEF ExclusionInv
<1>4. ASSUME NEW t \in Table, CloseTable(t)
      PROVE  ExclusionInv'
  <2> DEFINE mine == {r \in work : TableOf[r] = t}
             found == UNION {Neighbours(r) : r \in mine}
  <2>1. /\ UNCHANGED <<snap, cfg, phase>> /\ phase = "close"
        /\ rows' = rows \cup found
    BY <1>4 DEF CloseTable
  <2>2. mine \subseteq rows /\ ConfigAccepted(cfg)
    BY <2>1 DEF TypeOK, ExclusionInv
  <2>3. ASSUME NEW q \in mine, NEW p \in ParentRows(q), p \notin rows
        PROVE  Justified(p)'
    <3>1. PICK fk \in FK : <<fk, q, p>> \in snap
      BY <2>3 DEF ParentRows, View
    <3>2. q \in rows' \ {p}
      BY <2>1, <2>2, <2>3
    <3> QED
      BY <2>1, <3>1, <3>2 DEF Justified
  <2>4. ASSUME NEW q \in mine, NEW c \in AttachedRows(q)
        PROVE  TableOf[c] \notin cfg.exclude
    <3>1. PICK fk \in FK : <<Child[fk], Parent[fk]>> \in cfg.attach /\ <<fk, c, q>> \in snap
      BY <2>4 DEF AttachedRows, View
    <3>2. Child[fk] \notin cfg.exclude
      BY <2>2, <3>1 DEF ConfigAccepted
    <3> QED
      BY <3>1, <3>2, LinkTables
  <2>5. ASSUME NEW r \in rows', TableOf[r] \in cfg.exclude
        PROVE  Justified(r)'
    <3>1. CASE r \in rows
      BY <2>1, <2>5, <3>1, StillJustified DEF ExclusionInv
    <3>2. CASE r \notin rows
      <4>1. PICK q \in mine : r \in ParentRows(q) \/ r \in AttachedRows(q)
        BY <2>1, <3>2 DEF Neighbours
      <4> QED
        BY <2>3, <2>4, <2>5, <3>2, <4>1
    <3> QED
      BY <3>1, <3>2
  <2> QED
    BY <2>1, <2>2, <2>5 DEF ExclusionInv
<1>5. CASE StartClosing \/ EndRound \/ Fail \/ OtherWrites \/ UNCHANGED vars
  <2>1. /\ UNCHANGED <<snap, cfg, rows>>
        /\ phase' = "start" => phase = "start"
        /\ phase' \notin {"start", "failed"} => phase \notin {"start", "failed"} \/ phase' = phase
    BY <1>5 DEF StartClosing, EndRound, Fail, OtherWrites, vars
  <2> QED
    BY <2>1 DEF ExclusionInv, Justified
<1> QED
  BY <1>1, <1>2, <1>3, <1>4, <1>5 DEF Next, Walk

\* A row of an excluded table is in a dump only as a seed or because another
\* row of the dump references it.
THEOREM ExclusionHolds == Spec => []ExcludedOnlyAsParents
<1>1. Init => ExclusionInv
  BY DEF Init, ExclusionInv
<1>2. ExclusionInv => ExcludedOnlyAsParents
  BY DEF ExclusionInv, ExcludedOnlyAsParents, Justified
<1> QED
  BY <1>1, <1>2, ExclusionStep, WalkTypeCorrect, PTL DEF Spec

-----------------------------------------------------------------------------
(* The script and its file. *)

\* A step of Run is a step of the walk, or leaves it alone.
LEMMA DumpStepRefines == [DumpNext]_dumpVars => [Next]_vars
<1> SUFFICES ASSUME [DumpNext]_dumpVars
             PROVE  [Next]_vars
  OBVIOUS
<1>1. CASE Select \/ WalkFails \/ OthersWrite
  BY <1>1 DEF Select, WalkFails, OthersWrite, Next
<1>2. CASE ReadConfig \/ Connect \/ CreateTemp \/ EarlyFailure \/ Write \/ Flush
           \/ DumpFails \/ CloseTemp \/ Chmod \/ Rename \/ LateFailure \/ Killed
  BY <1>2 DEF ReadConfig, Connect, CreateTemp, EarlyFailure, Write, Flush,
              DumpFails, CloseTemp, Chmod, Rename, LateFailure, Killed
<1>3. CASE UNCHANGED dumpVars
  BY <1>3 DEF dumpVars
<1> QED
  BY <1>1, <1>2, <1>3 DEF DumpNext, Step

\* The command, with its files and its failures, implements the walk.
THEOREM DumpImplementsWalk == DumpSpec => Spec
<1>1. DumpInit => Init
  BY DEF DumpInit
<1> QED
  BY <1>1, DumpStepRefines, PTL DEF DumpSpec, Spec

\* So a selection that is written out is closed in the snapshot, holds nothing
\* the expanded seeds do not call for, and enters excluded tables only upwards.
THEOREM WrittenSelectionIsLeast ==
    DumpSpec => [](SelectionClosed /\ SelectionMinimal /\ ExcludedOnlyAsParents)
BY DumpImplementsWalk, DumpIsClosed, DumpIsMinimal, ExclusionHolds, PTL

-----------------------------------------------------------------------------
(* The files.  The temporary file never outlives a success, and the output  *)
(* is untouched until the rename.                                           *)

FileInv ==
    /\ toFile \in BOOLEAN /\ temp \in BOOLEAN /\ flushed \in BOOLEAN
    /\ run \in {"config", "connect", "temp", "dump", "close", "chmod", "rename"} \cup Ended
    /\ run \in {"config", "connect", "temp", "ok"} => ~temp
    /\ run \in {"temp", "close", "chmod", "rename"} => toFile
    /\ temp => toFile
    /\ toFile /\ run # "ok" => output = Previous

\* Every step keeps the temporary file accounted for.
LEMMA FileStep == FileInv /\ [DumpNext]_dumpVars => FileInv'
<1> SUFFICES ASSUME FileInv, [DumpNext]_dumpVars
             PROVE  FileInv'
  OBVIOUS
<1> USE DEF FileInv, Ended
<1>1. CASE Select \/ WalkFails \/ OthersWrite
  BY <1>1 DEF Select, WalkFails, OthersWrite, runVars
<1>2. CASE ReadConfig \/ Connect \/ EarlyFailure \/ CloseTemp \/ Chmod
  BY <1>2 DEF ReadConfig, Connect, EarlyFailure, CloseTemp, Chmod
<1>3. CASE CreateTemp
  BY <1>3 DEF CreateTemp
<1>4. CASE Write
  BY <1>4 DEF Write
<1>5. CASE Flush
  BY <1>5 DEF Flush
<1>6. CASE DumpFails
  <2>1. run = "dump" /\ run' = "error" /\ UNCHANGED toFile /\ UNCHANGED flushed
    BY <1>6 DEF DumpFails
  <2>2. toFile => output' = output
    BY <1>6 DEF DumpFails
  <2>3. CASE temp' = FALSE
    BY <2>1, <2>2, <2>3, Zenon
  <2>4. CASE temp' = temp
    BY <2>1, <2>2, <2>4, Zenon
  <2> QED
    BY <1>6, <2>3, <2>4 DEF DumpFails
<1>7. CASE Rename
  BY <1>7 DEF Rename
<1>8. CASE LateFailure
  BY <1>8 DEF LateFailure
<1>9. CASE Killed
  BY <1>9 DEF Killed
<1>10. CASE UNCHANGED dumpVars
  BY <1>10 DEF dumpVars, runVars
<1> QED
  BY <1>1, <1>2, <1>3, <1>4, <1>5, <1>6, <1>7, <1>8, <1>9, <1>10 DEF DumpNext, Step

\* Until Run succeeds the output is the previous script, byte for byte.
OutputUntouched == toFile /\ run # "ok" => output = Previous

\* A dump that fails, is interrupted or is killed at any point leaves the
\* previous output.
THEOREM FailureKeepsPrevious == DumpSpec => []OutputUntouched
<1>1. DumpInit => FileInv
  BY DEF DumpInit, FileInv, Ended
<1>2. FileInv => OutputUntouched
  BY DEF FileInv, OutputUntouched
<1> QED
  BY <1>1, <1>2, FileStep, PTL DEF DumpSpec
-----------------------------------------------------------------------------
(* The script as a whole.  What is written is always a part of one fixed    *)
(* script, because the selection no longer changes once writing began; and  *)
(* only the last statement of that script commits.                          *)

Piece == {Statement("begin", "", {}), Statement("commit", "", {}), Skip}
         \cup {Statement("copy", t, RowsOf(t)) : t \in Table}
         \cup {Statement("setval", x, {}) : x \in STRING}

\* A function on the indices of a sequence is a sequence of that length.
LEMMA MapIsSeq ==
    ASSUME NEW P, NEW Q, NEW s \in Seq(Q), NEW f \in [DOMAIN s -> P]
    PROVE  f \in Seq(P) /\ Len(f) = Len(s)
OBVIOUS

\* The two loops s and t of a script, within its transaction.
Framed(all, P, first, s, t, last) ==
    /\ all \in Seq(P)
    /\ Len(all) = Len(s) + Len(t) + 2
    /\ all[1] = first
    /\ \A i \in DOMAIN s : all[1 + i] = s[i]
    /\ \A i \in DOMAIN t : all[1 + Len(s) + i] = t[i]
    /\ all[Len(s) + Len(t) + 2] = last

\* Where the parts of a script in four sections are.
LEMMA Sections ==
    ASSUME NEW P, NEW first \in P, NEW last \in P, NEW s \in Seq(P), NEW t \in Seq(P)
    PROVE  Framed(<<first>> \o s \o t \o <<last>>, P, first, s, t, last)
<1> DEFINE a == <<first>> \o s
           b == a \o t
           all == b \o <<last>>
<1>1. /\ a \in Seq(P) /\ Len(a) = 1 + Len(s) /\ a[1] = first
      /\ \A i \in DOMAIN s : a[1 + i] = s[i]
  OBVIOUS
<1> HIDE DEF a
<1>2. /\ b \in Seq(P) /\ Len(b) = 1 + Len(s) + Len(t)
      /\ \A i \in 1..(1 + Len(s)) : b[i] = a[i]
      /\ \A i \in DOMAIN t : b[1 + Len(s) + i] = t[i]
  <2>1. b \in Seq(P) /\ Len(b) = Len(a) + Len(t)
    BY <1>1
  <2>2. \A i \in 1..Len(a) : b[i] = a[i]
    BY <1>1
  <2>3. \A i \in DOMAIN t : b[Len(a) + i] = t[i]
    BY <1>1
  <2> HIDE DEF b
  <2> QED
    BY <1>1, <2>1, <2>2, <2>3
<1> HIDE DEF b
<1>3. /\ all \in Seq(P) /\ Len(all) = Len(s) + Len(t) + 2
      /\ \A i \in 1..(1 + Len(s) + Len(t)) : all[i] = b[i]
      /\ all[Len(s) + Len(t) + 2] = last
  BY <1>2
<1> HIDE DEF all
<1>4. all[1] = first /\ \A i \in DOMAIN s : all[1 + i] = s[i]
  <2>1. all[1] = first
    BY <1>1, <1>2, <1>3
  <2>2. ASSUME NEW i \in DOMAIN s PROVE all[1 + i] = s[i]
    <3>1. i \in Nat /\ 1 + i \in 1..(1 + Len(s)) /\ 1 + i \in 1..(1 + Len(s) + Len(t))
      OBVIOUS
    <3> QED
      BY <1>1, <1>2, <1>3, <3>1
  <2> QED
    BY <2>1, <2>2
<1>5. \A i \in DOMAIN t : all[1 + Len(s) + i] = t[i]
  <2> TAKE i \in DOMAIN t
  <2>1. 1 + Len(s) + i \in 1..(1 + Len(s) + Len(t))
    OBVIOUS
  <2> QED
    BY <1>2, <1>3, <2>1
<1> QED
  BY <1>3, <1>4, <1>5 DEF Framed, all, b, a

\* A script: the transaction around the turns of the two loops.
LEMMA ScriptShape ==
    /\ Script \in Seq(Piece)
    /\ Len(TableOrder) \in Nat /\ Len(SeqOrder) \in Nat
    /\ Len(Script) = Len(TableOrder) + Len(SeqOrder) + 2
    /\ Script[1] = Statement("begin", "", {})
    /\ \A i \in DOMAIN TableOrder : Script[1 + i] = Copies[i]
    /\ \A i \in DOMAIN SeqOrder : Script[1 + Len(TableOrder) + i] = Setvals[i]
    /\ Script[Len(Script)] = Statement("commit", "", {})
<1>3. Skip \in Piece
  BY Zenon DEF Piece
<1>4. Copies \in Seq(Piece) /\ Len(Copies) = Len(TableOrder)
  <2>1. ASSUME NEW i \in DOMAIN TableOrder
        PROVE  (IF RowsOf(TableOrder[i]) = {} THEN Skip
                ELSE Statement("copy", TableOrder[i], RowsOf(TableOrder[i]))) \in Piece
    <3>1. TableOrder[i] \in Table
      BY DumpScriptAssumption
    <3>2. Statement("copy", TableOrder[i], RowsOf(TableOrder[i])) \in Piece
      BY <3>1, Zenon DEF Piece
    <3> QED
      BY <1>3, <3>2, Zenon
  <2>2. Copies \in [DOMAIN TableOrder -> Piece]
    BY <2>1, Zenon DEF Copies
  <2> QED
    BY <2>2, MapIsSeq, DumpScriptAssumption
<1>5. Setvals \in Seq(Piece) /\ Len(Setvals) = Len(SeqOrder)
  <2>1. ASSUME NEW i \in DOMAIN SeqOrder
        PROVE  (IF \A t \in Uses[SeqOrder[i]] : RowsOf(t) = {} THEN Skip
                ELSE Statement("setval", SeqOrder[i], {})) \in Piece
    <3>1. SeqOrder[i] \in STRING
      BY DumpScriptAssumption
    <3>2. Statement("setval", SeqOrder[i], {}) \in Piece
      BY <3>1, Zenon DEF Piece
    <3> QED
      BY <1>3, <3>2, Zenon
  <2>2. Setvals \in [DOMAIN SeqOrder -> Piece]
    BY <2>1, Zenon DEF Setvals
  <2> QED
    BY <2>2, MapIsSeq, DumpScriptAssumption
<1>6. Statement("begin", "", {}) \in Piece /\ Statement("commit", "", {}) \in Piece
  BY Zenon DEF Piece
<1>7. DOMAIN Copies = DOMAIN TableOrder /\ DOMAIN Setvals = DOMAIN SeqOrder
  BY DEF Copies, Setvals
<1>8. /\ Script \in Seq(Piece)
      /\ Len(Script) = Len(Copies) + Len(Setvals) + 2
      /\ Script[1] = Statement("begin", "", {})
      /\ \A i \in DOMAIN Copies : Script[1 + i] = Copies[i]
      /\ \A i \in DOMAIN Setvals : Script[1 + Len(Copies) + i] = Setvals[i]
      /\ Script[Len(Copies) + Len(Setvals) + 2] = Statement("commit", "", {})
  <2>1. Framed(Script, Piece, Statement("begin", "", {}), Copies, Setvals, Statement("commit", "", {}))
    BY <1>4, <1>5, <1>6, Sections, Zenon DEF Script
  <2> QED
    BY <2>1, Zenon DEF Framed
<1>9. Len(TableOrder) \in Nat /\ Len(SeqOrder) \in Nat
  BY DumpScriptAssumption
<1> QED
  BY <1>4, <1>5, <1>7, <1>8, <1>9

\* How long it is.
LEMMA ScriptLength ==
    /\ Script \in Seq(Piece)
    /\ Len(TableOrder) \in Nat /\ Len(SeqOrder) \in Nat /\ Len(Script) \in Nat
    /\ Len(Script) = Len(TableOrder) + Len(SeqOrder) + 2
    /\ DOMAIN TableOrder = 1..Len(TableOrder) /\ DOMAIN SeqOrder = 1..Len(SeqOrder)
<1>1. /\ Script \in Seq(Piece)
      /\ Len(TableOrder) \in Nat /\ Len(SeqOrder) \in Nat
      /\ Len(Script) = Len(TableOrder) + Len(SeqOrder) + 2
  BY ScriptShape, Zenon
<1>2. DOMAIN TableOrder = 1..Len(TableOrder) /\ DOMAIN SeqOrder = 1..Len(SeqOrder)
  BY DumpScriptAssumption
<1> QED
  BY <1>1, <1>2

\* Its statements commit only at the end.
LEMMA CommitIsLast ==
    ASSUME NEW n \in 1..Len(Script), Script[n].op = "commit"
    PROVE  n = Len(Script)
<1>a. /\ Len(TableOrder) \in Nat /\ Len(SeqOrder) \in Nat
      /\ Len(Script) = Len(TableOrder) + Len(SeqOrder) + 2
      /\ DOMAIN TableOrder = 1..Len(TableOrder) /\ DOMAIN SeqOrder = 1..Len(SeqOrder)
  BY ScriptLength
<1>b. /\ Script[1] = Statement("begin", "", {})
      /\ \A i \in DOMAIN TableOrder : Script[1 + i] = Copies[i]
      /\ \A i \in DOMAIN SeqOrder : Script[1 + Len(TableOrder) + i] = Setvals[i]
  BY ScriptShape
<1>1. n # 1
  <2>1. Script[1].op = "begin"
    <3>1. Statement("begin", "", {}).op = "begin"
      BY DEF Statement
    <3> QED
      BY <1>b, <3>1, Zenon
  <2> QED
    BY <2>1
<1>2. ASSUME NEW i \in DOMAIN TableOrder PROVE n # 1 + i
  <2>1. Copies[i].op \in {"skip", "copy"}
    BY DEF Copies, Skip, Statement
  <2> QED
    BY <1>b, <2>1
<1>3. ASSUME NEW i \in DOMAIN SeqOrder PROVE n # 1 + Len(TableOrder) + i
  <2>1. Setvals[i].op \in {"skip", "setval"}
    BY DEF Setvals, Skip, Statement
  <2> QED
    BY <1>b, <2>1
<1>4. \/ n = 1 \/ n = Len(Script)
      \/ n - 1 \in DOMAIN TableOrder
      \/ n - 1 - Len(TableOrder) \in DOMAIN SeqOrder
  BY <1>a
<1>5. n = 1 + (n - 1) /\ n = 1 + Len(TableOrder) + (n - 1 - Len(TableOrder))
  BY <1>a
<1> QED
  BY <1>1, <1>2, <1>3, <1>4, <1>5

\* A beginning of the script.
Part(s) ==
    /\ s \in Seq(Piece)
    /\ Len(s) <= Len(Script)
    /\ \A i \in 1..Len(s) : s[i] = Script[i]

\* A beginning that commits is the script.
LEMMA CommittedIsScript ==
    ASSUME NEW s, Part(s), Committed(s)
    PROVE  s = Script
<1>1. s \in Seq(Piece) /\ Len(s) <= Len(Script) /\ \A i \in 1..Len(s) : s[i] = Script[i]
  BY DEF Part
<1>2. Len(s) \in 1..Len(s) /\ Len(s) \in 1..Len(Script)
  BY <1>1, ScriptLength DEF Committed
<1>3. Script[Len(s)].op = "commit"
  BY <1>1, <1>2 DEF Committed
<1>4. Len(s) = Len(Script)
  BY <1>2, <1>3, CommitIsLast
<1> QED
  BY <1>1, <1>4, ScriptLength

\* A beginning of the full length is the script.
LEMMA FullPartIsScript ==
    ASSUME NEW s, Part(s), Len(s) = Len(Script)
    PROVE  s = Script
BY ScriptLength DEF Part

\* Each selected row is in the COPY block of its table.
LEMMA RowsAreCopied ==
    ASSUME rows \subseteq Row
    PROVE  \A r \in rows : \E i \in 1..(Len(TableOrder) + 1) : r \in Script[i].rows
<1> TAKE r \in rows
<1>1. PICK i \in DOMAIN TableOrder : TableOrder[i] = TableOf[r]
  BY DumpWalkAssumption, DumpScriptAssumption
<1>2. r \in RowsOf(TableOrder[i])
  BY <1>1 DEF RowsOf
<1>3. Copies[i] = Statement("copy", TableOrder[i], RowsOf(TableOrder[i]))
  BY <1>2 DEF Copies
<1>4. Copies[i].rows = RowsOf(TableOrder[i])
  BY <1>3 DEF Statement
<1>5. Script[1 + i] = Copies[i]
  BY ScriptShape
<1>6. 1 + i \in 1..(Len(TableOrder) + 1)
  BY ScriptLength
<1> QED
  BY <1>2, <1>4, <1>5, <1>6

\* The script commits, and loads the rows of the selection.
LEMMA ScriptLoadsSelection ==
    ASSUME rows \subseteq Row
    PROVE  Committed(Script) /\ Loaded(Script) = rows
<1>a. /\ Script \in Seq(Piece)
      /\ Len(TableOrder) \in Nat /\ Len(SeqOrder) \in Nat
      /\ Len(Script) = Len(TableOrder) + Len(SeqOrder) + 2
      /\ DOMAIN TableOrder = 1..Len(TableOrder)
  BY ScriptLength
<1>b. Script[Len(Script)] = Statement("commit", "", {})
  BY ScriptShape, Zenon
<1>1. Committed(Script)
  <2>1. Script # <<>>
    BY <1>a
  <2>2. Statement("commit", "", {}).op = "commit"
    BY DEF Statement
  <2> QED
    BY <1>b, <2>1, <2>2, Zenon DEF Committed
<1>2. ASSUME NEW p \in Piece PROVE p.rows \subseteq rows
  <2>1. \A t : RowsOf(t) \subseteq rows
    BY DEF RowsOf
  <2>2. CASE p = Statement("begin", "", {})
    BY <2>2 DEF Statement
  <2>3. CASE p = Statement("commit", "", {})
    BY <2>3 DEF Statement
  <2>4. CASE p = Skip
    BY <2>4 DEF Skip, Statement
  <2>5. ASSUME NEW t \in Table, p = Statement("copy", t, RowsOf(t)) PROVE p.rows \subseteq rows
    BY <2>1, <2>5 DEF Statement
  <2>6. ASSUME NEW x \in STRING, p = Statement("setval", x, {}) PROVE p.rows \subseteq rows
    BY <2>6 DEF Statement
  <2> QED
    BY <2>2, <2>3, <2>4, <2>5, <2>6, Zenon DEF Piece
<1>3. CopiedBefore(Script, Len(Script)) \subseteq rows
  <2>1. \A i \in 1..(Len(Script) - 1) : Script[i] \in Piece
    BY <1>a
  <2> QED
    BY <1>2, <2>1 DEF CopiedBefore
<1>4. \A r \in rows : \E i \in 1..(Len(TableOrder) + 1) : r \in Script[i].rows
  BY RowsAreCopied
<1>5. rows \subseteq CopiedBefore(Script, Len(Script))
  <2>1. 1..(Len(TableOrder) + 1) \subseteq 1..(Len(Script) - 1)
    BY <1>a
  <2> QED
    BY <1>4, <2>1 DEF CopiedBefore
<1> QED
  BY <1>1, <1>3, <1>5 DEF Loaded

\* Nothing is written before the selection is complete; from then on what is
\* in the buffer, and what reached the destination, are beginnings of the
\* script, the whole of it once Dump returned.
ScriptInv ==
    /\ phase # "done" => written = <<>> /\ (~toFile => output = <<>>)
    /\ Part(written)
    /\ ~toFile => Part(output)
    /\ run \in {"close", "chmod", "rename"} => phase = "done" /\ flushed /\ written = Script
    /\ run = "ok" => phase = "done" /\ output = Script

\* The empty buffer is a beginning of the script.
LEMMA NothingIsPart == Part(<<>>)
BY ScriptLength DEF Part

\* Whatever a reader finds behind the buffer is a beginning of the script.
LEMMA ArrivedIsPart ==
    ASSUME Part(written), NEW s \in Arrived
    PROVE  Part(s) /\ (flushed => s = written)
<1>1. CASE s = written
  BY <1>1
<1>2. ASSUME NEW n \in 0..Len(written), s = SubSeq(written, 1, n)
      PROVE  Part(s)
  <2>1. written \in Seq(Piece) /\ Len(written) <= Len(Script)
    BY DEF Part
  <2>2. s \in Seq(Piece) /\ Len(s) = n /\ \A i \in 1..n : s[i] = written[i]
    BY <1>2, <2>1
  <2> QED
    BY <2>1, <2>2, ScriptLength DEF Part
<1> QED
  BY <1>1, <1>2 DEF Arrived

\* Every step of Run keeps what is written a beginning of the script.
LEMMA ScriptStep == FileInv /\ ScriptInv /\ [DumpNext]_dumpVars => ScriptInv'
<1> SUFFICES ASSUME FileInv, ScriptInv, [DumpNext]_dumpVars
             PROVE  ScriptInv'
  OBVIOUS
<1>a. Part(<<>>)'
  BY NothingIsPart, PTL
<1>b. ASSUME UNCHANGED rows PROVE Script' = Script /\ Piece' = Piece
  BY <1>b DEF Script, Piece, Copies, Setvals, RowsOf, Skip, Statement
<1>c. ASSUME UNCHANGED rows, UNCHANGED written PROVE Part(written)'
  BY <1>b, <1>c DEF ScriptInv, Part
<1>d. ASSUME UNCHANGED rows, Part(output') PROVE Part(output)'
  BY <1>b, <1>d DEF Part
<1>1. CASE Select \/ WalkFails \/ OthersWrite
  <2>1. run = "dump" /\ UNCHANGED <<run, toFile, written, output>>
    BY <1>1 DEF Select, WalkFails, OthersWrite, runVars
  <2>2. phase # "done"
    BY <1>1 DEF Select, WalkFails, OthersWrite, Walk, Begin, SelectSeed, ExpandLevel,
                StartClosing, CloseTable, EndRound, Fail, OtherWrites
  <2>3. written' = <<>> /\ (~toFile' => output' = <<>>)
    BY <2>1, <2>2 DEF ScriptInv
  <2>4. Part(written)' /\ (~toFile' => Part(output)')
    BY <1>a, <2>3 DEF Part
  <2> QED
    BY <2>1, <2>3, <2>4 DEF ScriptInv
\* A step of the command that leaves the buffer and the destination alone.
<1>2. ASSUME UNCHANGED <<rows, phase, toFile, written, output>>,
             \/ run' \in {"connect", "temp", "dump", "error", "killed"}
             \/ run' \in {"chmod", "rename"} /\ run \in {"close", "chmod"} /\ UNCHANGED flushed
      PROVE  ScriptInv'
  <2>1. Part(written)' /\ (~toFile' => Part(output)')
    BY <1>c, <1>d, <1>2 DEF ScriptInv
  <2>2. run' \in {"close", "chmod", "rename"} => phase' = "done" /\ flushed' /\ written' = Script'
    BY <1>2, <1>b DEF ScriptInv
  <2> QED
    BY <1>2, <2>1, <2>2 DEF ScriptInv
<1>3. CASE ReadConfig \/ Connect \/ CreateTemp \/ EarlyFailure \/ CloseTemp \/ Chmod \/ LateFailure
  BY <1>2, <1>3 DEF ReadConfig, Connect, CreateTemp, EarlyFailure, CloseTemp, Chmod, LateFailure, vars
<1>4. CASE Write
  <2>1. /\ UNCHANGED <<rows, phase, toFile, output, run>> /\ phase = "done" /\ run = "dump"
        /\ Len(written) < Len(Script)
        /\ written' = Append(written, Script[Len(written) + 1])
    BY <1>4 DEF Write, vars
  <2>2. written \in Seq(Piece) /\ Len(written) \in Nat /\ \A i \in 1..Len(written) : written[i] = Script[i]
    BY DEF ScriptInv, Part
  <2>3. Script[Len(written) + 1] \in Piece
    BY <2>1, <2>2, ScriptLength
  <2>4. /\ written' \in Seq(Piece) /\ Len(written') = Len(written) + 1
        /\ \A i \in 1..Len(written) : written'[i] = written[i]
        /\ written'[Len(written) + 1] = Script[Len(written) + 1]
    BY <2>1, <2>2, <2>3
  <2>5. Part(written')
    BY <2>1, <2>2, <2>4, ScriptLength DEF Part
  <2>6. Part(written)' /\ (~toFile' => Part(output)')
    BY <1>b, <1>d, <2>1, <2>5 DEF ScriptInv, Part
  <2> QED
    BY <2>1, <2>6 DEF ScriptInv
<1>5. CASE Flush
  <2>1. /\ UNCHANGED <<rows, phase, toFile, written>> /\ phase = "done" /\ flushed'
        /\ Len(written) = Len(Script)
        /\ run' = IF toFile THEN "close" ELSE "ok"
        /\ output' = IF toFile THEN output ELSE written
    BY <1>5 DEF Flush, vars
  <2>2. written = Script
    BY <2>1, FullPartIsScript DEF ScriptInv
  <2>3. Part(written)' /\ (~toFile' => Part(output)')
    BY <1>c, <1>d, <2>1 DEF ScriptInv
  <2> QED
    BY <1>b, <2>1, <2>2, <2>3 DEF ScriptInv
\* The command ends and a reader of stdout has what arrived.
<1>6. CASE DumpFails \/ Killed
  <2>1. /\ UNCHANGED <<rows, phase, toFile, written>>
        /\ run' \in {"error", "killed"}
        /\ output' \in IF toFile THEN {output} ELSE Arrived
    BY <1>6 DEF DumpFails, Killed, vars
  <2>2. Part(written)'
    BY <1>c, <2>1
  <2>3. ~toFile' => Part(output)'
    BY <1>d, <2>1, ArrivedIsPart DEF ScriptInv
  <2>4. ASSUME phase' # "done", ~toFile' PROVE output' = <<>>
    <3>1. written = <<>> /\ output' \in Arrived
      BY <2>1, <2>4 DEF ScriptInv
    <3>2. \A n \in 0..Len(written) : SubSeq(written, 1, n) = <<>>
      BY <3>1
    <3> QED
      BY <3>1, <3>2 DEF Arrived
  <2> QED
    BY <2>1, <2>2, <2>3, <2>4 DEF ScriptInv
<1>7. CASE Rename
  <2>1. /\ UNCHANGED <<rows, phase, toFile, written>> /\ run = "rename" /\ run' = "ok"
        /\ output' \in Arrived
    BY <1>7 DEF Rename, vars
  <2>2. toFile /\ phase = "done" /\ flushed /\ written = Script
    BY <2>1 DEF ScriptInv, FileInv
  <2>3. output' = Script
    BY <2>1, <2>2 DEF Arrived
  <2> QED
    BY <1>b, <1>c, <2>1, <2>2, <2>3 DEF ScriptInv
<1>8. CASE UNCHANGED dumpVars
  <2>1. UNCHANGED <<rows, phase, toFile, written, output, run, flushed>>
    BY <1>8 DEF dumpVars, vars, runVars
  <2>2. Part(written)' /\ (~toFile' => Part(output)')
    BY <1>c, <1>d, <2>1 DEF ScriptInv
  <2> QED
    BY <1>b, <2>1, <2>2 DEF ScriptInv
<1> QED
  BY <1>1, <1>3, <1>4, <1>5, <1>6, <1>7, <1>8 DEF DumpNext, Step

\* What is written is a beginning of the script, always.
LEMMA ScriptInvCorrect == DumpSpec => [](TypeOK /\ SelectionClosed /\ ScriptInv)
<1>1. DumpInit => FileInv /\ ScriptInv
  <2> SUFFICES ASSUME DumpInit PROVE FileInv /\ ScriptInv
    OBVIOUS
  <2>1. FileInv
    BY DEF DumpInit, FileInv, Ended
  <2>2. /\ written = <<>> /\ (~toFile => output = <<>>)
        /\ run = "config"
    BY DEF DumpInit
  <2>3. Part(written) /\ (~toFile => Part(output))
    BY <2>2, NothingIsPart
  <2> QED
    BY <2>1, <2>2, <2>3 DEF ScriptInv
<1>2. DumpSpec => [](TypeOK /\ SelectionClosed)
  BY DumpImplementsWalk, WalkTypeCorrect, DumpIsClosed, PTL
<1> QED
  BY <1>1, <1>2, FileStep, ScriptStep, PTL DEF DumpSpec

\* Whatever fails, and wherever the process is killed, the output file is the
\* previous script or one that loads exactly the closed selection; a dump to
\* stdout loads all of it or nothing; and success means the whole script.
THEOREM DumpIsAllOrNothing == DumpSpec => []OutputIsWhole
<1>1. DumpInit => FileInv
  BY DEF DumpInit, FileInv, Ended
<1>2. TypeOK /\ SelectionClosed /\ FileInv /\ ScriptInv => OutputIsWhole
  <2> SUFFICES ASSUME TypeOK, SelectionClosed, FileInv, ScriptInv
               PROVE  OutputIsWhole
    OBVIOUS
  <2>1. Committed(Script) /\ Loaded(Script) = rows
    BY ScriptLoadsSelection DEF TypeOK
  <2>2. run = "ok" => phase = "done" /\ Closed(rows) /\ Loaded(output) = rows /\ Committed(output)
    BY <2>1 DEF ScriptInv, SelectionClosed
  <2>3. toFile /\ run # "ok" => output = Previous
    BY DEF FileInv
  <2>4. ASSUME ~toFile PROVE Loaded(output) \in {{}, rows}
    <3>1. CASE Committed(output)
      BY <2>1, <2>4, <3>1, CommittedIsScript DEF ScriptInv
    <3>2. CASE ~Committed(output)
      BY <3>2 DEF Loaded
    <3> QED
      BY <3>1, <3>2
  <2> QED
    BY <2>2, <2>3, <2>4 DEF OutputIsWhole
<1> QED
  BY <1>1, <1>2, FileStep, ScriptInvCorrect, PTL DEF DumpSpec

-----------------------------------------------------------------------------
(* The sequences.  maxExpr is a maximum of finitely many values, and all    *)
(* rows are copied before the first setval.                                 *)

\* A finite, non-empty set of natural numbers has a greatest element: a
\* smallest set without one would lose it by losing any element.
LEMMA FiniteSetHasMax ==
    ASSUME NEW S \in SUBSET Nat, IsFiniteSet(S), S # {}
    PROVE  \E m \in S : \A w \in S : w <= m
<1> DEFINE HasMax(T) == \E m \in T : \A w \in T : w <= m
           Bad == {T \in FiniteSubsetsOf(S) : T # {} /\ ~HasMax(T)}
<1> SUFFICES ASSUME ~HasMax(S) PROVE FALSE
  OBVIOUS
<1>1. Bad \subseteq FiniteSubsetsOf(S) /\ S \in Bad
  BY DEF FiniteSubsetsOf
<1>2. IsWellFoundedOn(StrictSubsetOrdering(S), FiniteSubsetsOf(S))
  BY FS_StrictSubsetOrderingWellFounded
<1>3. \E T \in Bad : \A U \in Bad : <<U, T>> \notin StrictSubsetOrdering(S)
  BY <1>1, <1>2, WFMin
<1>4. PICK T \in Bad : \A U \in Bad : <<U, T>> \notin StrictSubsetOrdering(S)
  BY <1>3
<1>5. T \in SUBSET S /\ IsFiniteSet(T) /\ T # {} /\ ~HasMax(T)
  BY DEF FiniteSubsetsOf
<1>6. PICK x \in T : TRUE
  BY <1>5
<1> DEFINE U == T \ {x}
<1>7. U \in SUBSET S /\ IsFiniteSet(U)
  BY <1>5, FS_RemoveElement
<1>8. <<U, T>> \in StrictSubsetOrdering(S)
  BY <1>5, <1>6, <1>7 DEF StrictSubsetOrdering
<1>9. U \notin Bad
  BY <1>4, <1>8
<1>10. U = {} \/ HasMax(U)
  BY <1>7, <1>9 DEF FiniteSubsetsOf
<1>11. x \in Nat /\ \A w \in T : w \in Nat /\ (w = x \/ w \in U)
  BY <1>5, <1>6
<1>12. CASE U = {}
  <2>1. \A w \in T : w <= x
    BY <1>11, <1>12
  <2> QED
    BY <1>5, <1>6, <2>1
<1>13. CASE HasMax(U)
  <2>1. PICK m \in U : \A w \in U : w <= m
    BY <1>13
  <2>2. m \in T /\ m \in Nat
    BY <1>11, <2>1
  <2>3. CASE m <= x
    <3>1. \A w \in T : w <= x
      BY <1>11, <2>1, <2>2, <2>3
    <3> QED
      BY <1>5, <1>6, <3>1
  <2>4. CASE x <= m
    <3>1. \A w \in T : w <= m
      BY <1>11, <2>1, <2>2, <2>4
    <3> QED
      BY <1>5, <2>2, <3>1
  <2> QED
    BY <1>11, <2>2, <2>3, <2>4
<1> QED
  BY <1>10, <1>12, <1>13

\* The greatest of 1 and finitely many values is at least each of them.
LEMMA GreatestValue ==
    ASSUME NEW D \in SUBSET Row, NEW r \in D
    PROVE  LET values == {1} \cup {Value(q) : q \in D}
           IN  (CHOOSE v \in values : \A w \in values : w <= v) >= Value(r)
<1> DEFINE image == {Value(q) : q \in D}
           values == {1} \cup image
           f == [q \in D |-> Value(q)]
<1>1. \A q \in D : Value(q) \in Nat
  BY DumpWalkAssumption, DumpScriptAssumption DEF Value
<1>2. IsFiniteSet(D)
  BY FS_Subset, DumpWalkAssumption
<1>3. f \in Surjection(D, image)
  BY DEF Surjection
<1>4. IsFiniteSet(image)
  BY <1>2, <1>3, FS_Surjection
<1>5. IsFiniteSet(image \cup {1})
  BY <1>4, FS_AddElement
<1>6. values = image \cup {1}
  OBVIOUS
<1>7. values \in SUBSET Nat /\ values # {} /\ Value(r) \in values
  BY <1>1
<1>8. \E m \in values : \A w \in values : w <= m
  <2> HIDE DEF values
  <2> QED
    BY <1>5, <1>6, <1>7, FiniteSetHasMax
<1> DEFINE top == CHOOSE v \in values : \A w \in values : w <= v
<1>9. top \in values /\ \A w \in values : w <= top
  <2> HIDE DEF values
  <2> QED
    BY <1>8
<1>10. top \in Nat /\ Value(r) \in Nat /\ Value(r) <= top
  <2> HIDE DEF values, top
  <2> QED
    BY <1>7, <1>9
<1>11. top >= Value(r)
  <2> HIDE DEF top
  <2> QED
    BY <1>10
<1> QED
  BY <1>11

\* All rows are copied before a setval is reached.
LEMMA CopiedBeforeSetval ==
    ASSUME rows \subseteq Row, NEW i \in DOMAIN SeqOrder
    PROVE  CopiedBefore(Script, 1 + Len(TableOrder) + i) = rows
<1> DEFINE n == 1 + Len(TableOrder) + i
<1>1. /\ n \in Nat /\ n <= Len(Script) /\ Len(TableOrder) + 1 <= n - 1
      /\ Len(Script) \in Nat /\ Len(TableOrder) \in Nat
  BY ScriptLength
<1> HIDE DEF n
<1>2. CopiedBefore(Script, n) \subseteq CopiedBefore(Script, Len(Script))
  BY <1>1 DEF CopiedBefore
<1>3. CopiedBefore(Script, Len(Script)) = rows
  BY ScriptLoadsSelection DEF Loaded
<1>4. rows \subseteq CopiedBefore(Script, n)
  <2>1. \A r \in rows : \E k \in 1..(Len(TableOrder) + 1) : r \in Script[k].rows
    BY RowsAreCopied
  <2>2. 1..(Len(TableOrder) + 1) \subseteq 1..(n - 1)
    BY <1>1
  <2> QED
    BY <2>1, <2>2 DEF CopiedBefore
<1> QED
  BY <1>2, <1>3, <1>4 DEF n

\* Loading a script that a successful dump wrote leaves every sequence at or
\* past the values that the loaded rows hold, those a transform rewrote too.
THEOREM SequencesMoved == DumpSpec => []SequencesArePast
<1>1. TypeOK /\ ScriptInv => SequencesArePast
  <2> SUFFICES ASSUME TypeOK, ScriptInv, run = "ok",
                      NEW i \in DOMAIN SeqOrder, NEW r \in Loaded(output),
                      TableOf[r] \in Uses[SeqOrder[i]]
               PROVE  \E n \in DOMAIN output : /\ output[n].op = "setval"
                                               /\ output[n].on = SeqOrder[i]
                                               /\ Setval(output, n) >= Value(r)
    BY DEF SequencesArePast
  <2> DEFINE n == 1 + Len(TableOrder) + i
  <2>1. output = Script /\ rows \subseteq Row
    BY DEF ScriptInv, TypeOK
  <2>2. r \in rows
    BY <2>1, ScriptLoadsSelection
  <2>3. n \in DOMAIN Script
    BY ScriptLength
  <2>4. Script[n] = Setvals[i]
    BY ScriptShape, Zenon
  <2>5. r \in RowsOf(TableOf[r])
    BY <2>2 DEF RowsOf
  <2>6. Setvals[i] = Statement("setval", SeqOrder[i], {})
    BY <2>5, Zenon DEF Setvals
  <2>7. Statement("setval", SeqOrder[i], {}).op = "setval" /\ Statement("setval", SeqOrder[i], {}).on = SeqOrder[i]
    BY DEF Statement
  <2>8. Script[n].op = "setval" /\ Script[n].on = SeqOrder[i]
    BY <2>4, <2>6, <2>7, Zenon
  <2> DEFINE D == {q \in CopiedBefore(Script, n) : TableOf[q] \in Uses[Script[n].on]}
  <2>9. D \in SUBSET Row /\ r \in D
    BY <2>1, <2>2, <2>8, CopiedBeforeSetval
  <2>10. Setval(Script, n) >= Value(r)
    <3> HIDE DEF D, n
    <3>1. (CHOOSE v \in {1} \cup {Value(q) : q \in D} : \A w \in {1} \cup {Value(q) : q \in D} : w <= v) >= Value(r)
      BY <2>9, GreatestValue
    <3> QED
      BY <3>1 DEF Setval, D
  <2> QED
    BY <2>1, <2>3, <2>8, <2>10
<1> QED
  BY <1>1, ScriptInvCorrect, PTL

=============================================================================
