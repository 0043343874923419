--------------------------- MODULE MigratorProofs ---------------------------
(***************************************************************************)
(* The migrator, for any set of schemas, any time zone and any number of   *)
(* scripts, failures and processes.  goose's settings are the process's,   *)
(* so all but the types rest on MaxHeld = 1: a process holds one migrator  *)
(* at a time, as the module's Migrate and the command line do (the run     *)
(* migrator_shared shows what happens otherwise).                          *)
(***************************************************************************)
EXTENDS Migrator, FiniteSetTheorems, TLAPS

IsSlices(x) == x.name \in {"create", "seed"}

\* The rows of a version table: scripts of the schema, no version twice, and a
\* slice's script recorded after older ones only.
Rows(q, S) ==
    /\ \A i \in DOMAIN q : q[i] \in S
    /\ \A i, j \in DOMAIN q : q[i].version = q[j].version => i = j
    /\ \A i, j \in DOMAIN q : j < i /\ IsSlices(q[i]) => q[j].version < q[i].version

\* The scripts of a schema are its own, and one of them has the highest version.
Owned == \A s \in Schema : \A x \in scripts[s] : x.owner = s
HasHighest(S) == S = {} \/ \E v \in S : \A w \in S : w <= v
Bounded == \A s \in Schema : HasHighest(Versions(scripts[s]))

\* One migrator, and goose reads its scripts.
Alone == (\A s, t \in held : s = t) /\ \A s \in held : baseFS = s

\* The collection an operation started with found no version twice.
Collected == op # Idle => Readable

Tabled == \A s \in Schema : Rows(table[s], scripts[s])

\* Slices' scripts have versions of their own, and are recorded or newer than
\* everything that is.
SlicesApart ==
    \A s \in Schema : \A x, y \in scripts[s] :
        IsSlices(x) /\ IsSlices(y) /\ y.version = x.version => y = x
SlicesNewest ==
    \A s \in Schema : \A x \in scripts[s] : IsSlices(x) =>
        x.version \in Versions(Recorded(s)) \/ \A y \in Recorded(s) : y.version < x.version

MigratorInv ==
    /\ Owned /\ Alone /\ Collected /\ Tabled
    /\ SlicesApart /\ SlicesNewest /\ TablesMatch
-----------------------------------------------------------------------------
(* Rows of a version table. *)

\* RemoveAt keeps the other elements, in their order.
LEMMA RemoveAtProperties ==
    ASSUME NEW S, NEW q \in Seq(S), NEW i \in DOMAIN q
    PROVE  /\ RemoveAt(q, i) \in Seq(S)
           /\ DOMAIN RemoveAt(q, i) = 1..(Len(q) - 1)
           /\ \A j \in 1..(Len(q) - 1) : RemoveAt(q, i)[j] = IF j < i THEN q[j] ELSE q[j + 1]
<1> DEFINE before == SubSeq(q, 1, i - 1)
           after == SubSeq(q, i + 1, Len(q))
<1>0. i \in 1..Len(q) /\ Len(q) \in Nat
  OBVIOUS
<1>1. before \in Seq(S) /\ Len(before) = i - 1
  BY <1>0
<1>2. after \in Seq(S) /\ Len(after) = Len(q) - i
  <2>1. CASE i = Len(q)
    BY <1>0, <2>1
  <2>2. CASE i # Len(q)
    BY <1>0, <2>2
  <2> QED  BY <2>1, <2>2
<1>3. \A j \in 1..(i - 1) : before[j] = q[j]
  BY <1>0
<1>4. \A j \in 1..(Len(q) - i) : after[j] = q[i + j]
  BY <1>0
<1>5. RemoveAt(q, i) = before \o after
  BY DEF RemoveAt
<1> HIDE DEF before, after
<1>6. before \o after \in Seq(S) /\ Len(before \o after) = Len(q) - 1
  BY <1>0, <1>1, <1>2
<1>7. ASSUME NEW j \in 1..(Len(q) - 1)
      PROVE  (before \o after)[j] = IF j < i THEN q[j] ELSE q[j + 1]
  <2>1. CASE j < i
    BY <1>0, <1>1, <1>2, <1>3, <2>1
  <2>2. CASE ~(j < i)
    <3>1. (before \o after)[j] = after[j - (i - 1)]
      BY <1>0, <1>1, <1>2, <2>2
    <3>2. j - (i - 1) \in 1..(Len(q) - i)
      BY <1>0, <2>2
    <3>3. i + (j - (i - 1)) = j + 1
      BY <1>0
    <3> QED  BY <2>2, <3>1, <3>2, <3>3, <1>4
  <2> QED  BY <2>1, <2>2
<1> QED  BY <1>5, <1>6, <1>7

\* A row can be removed anywhere.
LEMMA RowsRemoved ==
    ASSUME NEW S, NEW T, NEW q \in Seq(S), NEW i \in DOMAIN q, Rows(q, T)
    PROVE  /\ Rows(RemoveAt(q, i), T)
           /\ Range(RemoveAt(q, i)) = Range(q) \ {q[i]}
<1> DEFINE r == RemoveAt(q, i)
           pos(j) == IF j < i THEN j ELSE j + 1
<1>0. i \in 1..Len(q) /\ Len(q) \in Nat /\ DOMAIN q = 1..Len(q)
  OBVIOUS
<1>1. DOMAIN r = 1..(Len(q) - 1)
  BY RemoveAtProperties
<1>2. \A j \in DOMAIN r : r[j] = q[pos(j)]
  BY <1>1, RemoveAtProperties
<1>3. \A j \in DOMAIN r : pos(j) \in DOMAIN q /\ pos(j) # i /\ j \in Int
  BY <1>0, <1>1
<1>4. \A j, k \in DOMAIN r : (pos(j) = pos(k) => j = k) /\ (j < k => pos(j) < pos(k))
  BY <1>1, <1>0
<1>5. \A k \in DOMAIN q : k # i => \E j \in DOMAIN r : pos(j) = k
  <2> TAKE k \in DOMAIN q
  <2>1. CASE k < i
    <3>1. k \in DOMAIN r /\ pos(k) = k
      BY <1>0, <1>1, <2>1
    <3> QED  BY <3>1
  <2>2. CASE k > i
    <3>1. k - 1 \in DOMAIN r /\ pos(k - 1) = k
      BY <1>0, <1>1, <2>2
    <3> QED  BY <3>1
  <2> QED  BY <1>0, <2>1, <2>2
<1> HIDE DEF r, pos
<1>6. Rows(r, T)
  <2>1. \A j \in DOMAIN r : r[j] \in T
    BY <1>2, <1>3 DEF Rows
  <2>2. \A j, k \in DOMAIN r : r[j].version = r[k].version => j = k
    BY <1>2, <1>3, <1>4 DEF Rows
  <2>3. \A j, k \in DOMAIN r : k < j /\ IsSlices(r[j]) => r[k].version < r[j].version
    BY <1>2, <1>3, <1>4 DEF Rows
  <2> QED  BY <2>1, <2>2, <2>3 DEF Rows
<1>7. Range(r) = Range(q) \ {q[i]}
  <2>1. \A j \in DOMAIN r : r[j] \in Range(q) /\ r[j] # q[i]
    BY <1>2, <1>3 DEF Rows, Range
  <2>2. \A k \in DOMAIN q : q[k] # q[i] => q[k] \in Range(r)
    BY <1>2, <1>5 DEF Range
  <2> QED  BY <2>1, <2>2 DEF Range
<1> QED  BY <1>6, <1>7 DEF r

\* A row can be added when no other has its version and, if it is of a slice,
\* all others are older.
LEMMA RowsAppended ==
    ASSUME NEW S, NEW T, NEW q \in Seq(S), NEW x \in S, x \in T, Rows(q, T),
           \A y \in Range(q) : y.version # x.version,
           IsSlices(x) => \A y \in Range(q) : y.version < x.version
    PROVE  /\ Rows(Append(q, x), T)
           /\ Range(Append(q, x)) = Range(q) \cup {x}
<1> DEFINE r == Append(q, x)
           n == Len(q) + 1
<1>0. Len(q) \in Nat /\ DOMAIN q = 1..Len(q) /\ n \in Nat /\ n \notin DOMAIN q
  OBVIOUS
<1>1. DOMAIN r = DOMAIN q \cup {n}
  BY <1>0
<1>2. r[n] = x /\ \A i \in DOMAIN q : r[i] = q[i]
  BY <1>0
<1>3. \A i \in DOMAIN q : i < n /\ q[i] \in Range(q) /\ i \in Nat
  BY <1>0 DEF Range
<1> HIDE DEF r, n
<1>4. \A i \in DOMAIN r : r[i] \in T
  BY <1>1, <1>2 DEF Rows
<1>5. \A i, j \in DOMAIN r : r[i].version = r[j].version => i = j
  BY <1>1, <1>2, <1>3 DEF Rows
<1>6. \A i, j \in DOMAIN r : j < i /\ IsSlices(r[i]) => r[j].version < r[i].version
  <2> SUFFICES ASSUME NEW i \in DOMAIN r, NEW j \in DOMAIN r, j < i, IsSlices(r[i])
               PROVE  r[j].version < r[i].version
    OBVIOUS
  <2>1. CASE i = n
    <3>1. j \in DOMAIN q
      BY <1>0, <1>1, <2>1
    <3> QED  BY <1>2, <1>3, <2>1, <3>1
  <2>2. CASE i \in DOMAIN q
    <3>1. j \in DOMAIN q
      BY <1>0, <1>1, <1>3, <2>2
    <3> QED  BY <1>2, <2>2, <3>1 DEF Rows
  <2> QED  BY <1>1, <2>1, <2>2
<1>7. Range(r) = Range(q) \cup {x}
  BY <1>1, <1>2 DEF Range
<1> QED  BY <1>4, <1>5, <1>6, <1>7 DEF Rows, r

\* More scripts in the directory leave the rows as they are.
LEMMA RowsKept ==
    ASSUME NEW q, NEW T, NEW U, T \subseteq U, Rows(q, T)
    PROVE  Rows(q, U)
BY DEF Rows

-----------------------------------------------------------------------------
(* Stamps. *)

LEMMA HighestFound ==
    ASSUME NEW S \in SUBSET Int, S # {}, HasHighest(S)
    PROVE  Highest(S) \in S /\ \A w \in S : w <= Highest(S)
BY DEF HasHighest, Highest

LEMMA HighestAdded ==
    ASSUME NEW S \in SUBSET Int, NEW v \in Int, HasHighest(S)
    PROVE  HasHighest(S \cup {v})
<1>1. CASE S = {}
  BY <1>1 DEF HasHighest
<1>2. CASE S # {}
  <2>1. PICK h \in S : \A w \in S : w <= h
    BY <1>2 DEF HasHighest
  <2>2. CASE v <= h
    BY <2>1, <2>2 DEF HasHighest
  <2>3. CASE ~(v <= h)
    <3>1. \A w \in S \cup {v} : w <= v
      BY <2>1, <2>3
    <3> QED  BY <3>1 DEF HasHighest
  <2> QED  BY <2>2, <2>3
<1> QED  BY <1>1, <1>2

\* MigrationStamps is later than every script of the directory.
LEMMA StampIsNewest ==
    ASSUME TypeOK, Bounded, NEW s \in Schema
    PROVE  /\ MigrationStamps(s) \in Int
           /\ \A x \in scripts[s] : x.version < MigrationStamps(s)
<1> DEFINE V == Versions(scripts[s])
           later == {v \in V : v >= clock}
<1>0. V \subseteq Int /\ clock \in Int
  BY MigratorAssumption DEF TypeOK, Script, Versions
<1>1. HasHighest(V)
  BY DEF Bounded
<1>2. HasHighest(later)
  <2>1. CASE later = {}
    BY <2>1 DEF HasHighest
  <2>2. CASE later # {}
    <3>1. PICK h \in V : \A w \in V : w <= h
      BY <1>1, <2>2 DEF HasHighest
    <3>2. h \in later
      BY <1>0, <2>2, <3>1
    <3> QED  BY <3>1, <3>2 DEF HasHighest
  <2> QED  BY <2>1, <2>2
<1>3. MigrationStamps(s) = IF later = {} THEN clock ELSE Highest(later) + 1
  BY DEF MigrationStamps
<1>4. \A x \in scripts[s] : x.version \in V
  BY DEF Versions
<1>5. \A v \in V : v \in later \/ v < clock
  BY <1>0
<1>6. later \subseteq V /\ \A v \in later : v >= clock
  OBVIOUS
<1> HIDE DEF V, later
<1>7. CASE later = {}
  BY <1>0, <1>3, <1>4, <1>5, <1>7
<1>8. CASE later # {}
  <2>1. Highest(later) \in later /\ \A w \in later : w <= Highest(later)
    BY <1>0, <1>2, <1>6, <1>8, HighestFound
  <2>2. Highest(later) \in Int /\ Highest(later) >= clock
    BY <1>0, <1>6, <2>1
  <2>3. \A v \in V : v < Highest(later) + 1
    BY <1>0, <1>5, <1>6, <2>1, <2>2
  <2> QED  BY <1>3, <1>4, <1>8, <2>2, <2>3
<1> QED  BY <1>7, <1>8

-----------------------------------------------------------------------------
(* Types. *)

\* While a migrator is held, goose has scripts to read.
Pointed == held # {} => baseFS \in Schema
TypeInv == TypeOK /\ Pointed /\ Bounded

\* Writing scripts: what is added to the directory of one schema, by `migrate
\* create` or for a slice.
Adds(s, new) ==
    /\ held = {}
    /\ scripts' = [scripts EXCEPT ![s] = @ \cup new]
    /\ UNCHANGED <<clock, lenient, goose, held, op, database, faults>>
    /\ \A x \in new : x.owner = s
AddsOne(s, new) ==
    /\ \A x \in new : ~IsSlices(x)
    /\ \E v \in Int : Versions(new) = {v}
AddsTwo(s, new) ==
    \E at \in Int :
        /\ \A y \in scripts[s] : y.version < at
        /\ Versions(new) = {at} \cup {at + 1}
        /\ \A x \in new : x.version >= at
        /\ \A x, y \in new : x.version = y.version => x = y

LEMMA WriteAdds ==
    ASSUME TypeInv, Write
    PROVE  \E s \in Schema, new \in SUBSET Script :
              Adds(s, new) /\ (AddsOne(s, new) \/ AddsTwo(s, new))
<1>1. ASSUME NEW s \in Schema, AddSlice(s)
      PROVE  \E new \in SUBSET Script :
              Adds(s, new) /\ AddsTwo(s, new)
  <2> DEFINE at == MigrationStamps(s)
             a == [owner |-> s, version |-> at, name |-> "create"]
             b == [owner |-> s, version |-> at + 1, name |-> "seed"]
             new == {a, b}
  <2>1. at \in Int /\ \A y \in scripts[s] : y.version < at
    BY StampIsNewest DEF TypeInv
  <2>2. /\ scripts' = [scripts EXCEPT ![s] = @ \cup new] /\ held = {}
        /\ UNCHANGED <<clock, lenient, goose, held, op, database, faults>>
    BY <1>1 DEF AddSlice
  <2> HIDE DEF at
  <2>3. a \in Script /\ b \in Script /\ a.owner = s /\ b.owner = s
        /\ a.version = at /\ b.version = at + 1
    BY <2>1 DEF Script
  <2> HIDE DEF a, b
  <2>4. Versions(new) = {at} \cup {at + 1}
    BY <2>3 DEF Versions
  <2>5. \A x \in new : x.version >= at
    BY <2>1, <2>3
  <2>6. \A x, y \in new : x.version = y.version => x = y
    BY <2>1, <2>3
  <2>7. new \in SUBSET Script /\ \A x \in new : x.owner = s
    BY <2>3
  <2> HIDE DEF new
  <2>8. Adds(s, new) /\ AddsTwo(s, new)
    BY <2>1, <2>2, <2>4, <2>5, <2>6, <2>7 DEF Adds, AddsTwo
  <2> QED  BY <2>7, <2>8
<1>2. ASSUME NEW s \in Schema, NEW name \in {"a", "b"}, Create(s, name)
      PROVE  \E new \in SUBSET Script :
              Adds(s, new) /\ AddsOne(s, new)
  <2> DEFINE a == [owner |-> s, version |-> clock + Zone, name |-> name]
  <2>1. clock + Zone \in Int
    BY MigratorAssumption DEF TypeInv, TypeOK
  <2>2. a \in Script /\ a.owner = s /\ a.version = clock + Zone /\ a.name = name
    BY <2>1 DEF Script
  <2>3. /\ scripts' = [scripts EXCEPT ![s] = @ \cup {a}] /\ held = {}
        /\ UNCHANGED <<clock, lenient, goose, held, op, database, faults>>
    BY <1>2 DEF Create
  <2> HIDE DEF a
  <2>4. Versions({a}) = {clock + Zone}
    BY <2>2 DEF Versions
  <2>5. ~IsSlices(a)
    BY <2>2 DEF IsSlices
  <2>6. {a} \in SUBSET Script
    BY <2>2
  <2>7. Adds(s, {a}) /\ AddsOne(s, {a})
    BY <2>1, <2>2, <2>3, <2>4, <2>5 DEF Adds, AddsOne
  <2> QED  BY <2>6, <2>7
<1> QED
  <2>1. CASE \E s \in Schema : AddSlice(s)
    BY <1>1, <2>1
  <2>2. CASE \E s \in Schema : \E name \in {"a", "b"} : Create(s, name)
    BY <1>2, <2>2
  <2> QED  BY <2>1, <2>2 DEF Write

LEMMA VersionsAdded ==
    ASSUME NEW S, NEW T
    PROVE  Versions(S \cup T) = Versions(S) \cup Versions(T)
BY DEF Versions

LEMMA TypeWrite ==
    ASSUME TypeInv, Write
    PROVE  TypeInv'
<1>1. PICK s \in Schema, new \in SUBSET Script :
              Adds(s, new) /\ (AddsOne(s, new) \/ AddsTwo(s, new))
  BY WriteAdds
<1>2. scripts' \in [Schema -> SUBSET Script]
  BY <1>1 DEF TypeInv, TypeOK, Adds
<1>3. TypeOK' /\ Pointed'
  BY <1>1, <1>2 DEF TypeInv, TypeOK, Pointed, goose, database, Adds
<1>4. Bounded'
  <2> SUFFICES ASSUME NEW t \in Schema PROVE HasHighest(Versions(scripts'[t]))
    BY DEF Bounded
  <2>1. HasHighest(Versions(scripts[t])) /\ Versions(scripts[t]) \subseteq Int
    <3>1. scripts[t] \subseteq Script
      BY DEF TypeInv, TypeOK
    <3>2. Versions(scripts[t]) \subseteq Int
      BY <3>1 DEF Versions, Script
    <3> QED  BY <3>2 DEF TypeInv, Bounded
  <2>2. CASE t # s
    BY <1>1, <2>1, <2>2 DEF TypeInv, TypeOK, Adds
  <2>3. CASE t = s
    <3> DEFINE V == Versions(scripts[s])
    <3>1. Versions(scripts'[t]) = V \cup Versions(new)
      BY <1>1, <2>3, VersionsAdded DEF TypeInv, TypeOK, Adds
    <3>2. HasHighest(V) /\ V \in SUBSET Int
      BY <2>1, <2>3
    <3> HIDE DEF V
    <3>3. ASSUME NEW v \in Int, Versions(new) = {v} PROVE HasHighest(V \cup Versions(new))
      BY <3>2, <3>3, HighestAdded
    <3>4. ASSUME NEW at \in Int, Versions(new) = {at} \cup {at + 1}
          PROVE  HasHighest(V \cup Versions(new))
      <4>1. HasHighest(V \cup {at}) /\ V \cup {at} \in SUBSET Int
        BY <3>2, HighestAdded
      <4>2. HasHighest((V \cup {at}) \cup {at + 1})
        BY <4>1, HighestAdded
      <4>3. V \cup Versions(new) = (V \cup {at}) \cup {at + 1}
        BY <3>4
      <4> QED  BY <4>2, <4>3
    <3> QED  BY <1>1, <3>1, <3>3, <3>4 DEF AddsOne, AddsTwo
  <2> QED  BY <2>2, <2>3
<1> QED  BY <1>3, <1>4 DEF TypeInv

LEMMA UndoTyped ==
    ASSUME TypeOK, NEW x, Undo(x), tableName' \in Schema
    PROVE  table' \in [Schema -> Seq(Script)] /\ effects' \subseteq Script
<1>1. PICK i \in DOMAIN table[tableName'] :
          table' = [table EXCEPT ![tableName'] = RemoveAt(@, i)]
  BY DEF Undo
<1>2. table[tableName'] \in Seq(Script)
  BY DEF TypeOK
<1>3. RemoveAt(table[tableName'], i) \in Seq(Script)
  BY <1>2, RemoveAtProperties
<1>4. table' \in [Schema -> Seq(Script)]
  BY <1>1, <1>3 DEF TypeOK
<1>5. effects' \subseteq Script
  BY DEF Undo, TypeOK
<1> QED  BY <1>4, <1>5

LEMMA OpKinds ==
    ASSUME TypeOK, op.kind \in {"up", "reset"}
    PROVE  op # Idle /\ op.schema \in held /\ op.schema \in Schema /\ tableName = op.schema
<1>1. op # Idle
  BY DEF Idle
<1> QED  BY <1>1 DEF TypeOK

LEMMA TypeStep ==
    ASSUME TypeInv, [Next]_vars
    PROVE  TypeInv'
<1> USE MigratorAssumption DEF goose, database
<1>0. None \notin Schema /\ Idle \in [kind : {"none", "up", "reset"}, schema : Schema \cup {None}]
  BY DEF Idle
<1>1. CASE UNCHANGED scripts /\ TypeOK' /\ Pointed'
  BY <1>1 DEF TypeInv, Bounded
<1>2. CASE Tick
  BY <1>1, <1>2 DEF Tick, TypeInv, TypeOK, Pointed
<1>3. CASE Write
  BY <1>3, TypeWrite
<1>4. ASSUME NEW s \in Schema, New(s) \/ NewFails(s)
      PROVE  TypeInv'
  BY <1>1, <1>4 DEF New, NewFails, TypeInv, TypeOK, Pointed
<1>5. ASSUME NEW s \in Schema, Release(s)
      PROVE  TypeInv'
  BY <1>1, <1>5 DEF Release, TypeInv, TypeOK, Pointed
<1>6. CASE Exit
  <2>1. op' = Idle /\ held' = {} /\ baseFS' = None /\ tableName' = None
        /\ UNCHANGED <<clock, scripts, lenient, table, effects>>
    BY <1>6 DEF Exit
  <2>2. faults' \in 0..MaxFaults
    BY <1>6 DEF Exit, TypeInv, TypeOK
  <2> QED  BY <1>0, <1>1, <2>1, <2>2 DEF TypeInv, TypeOK, Pointed
<1>7. ASSUME NEW s \in Schema, NEW kind \in {"up", "reset"}, Start(kind, s)
      PROVE  TypeInv'
  BY <1>1, <1>7 DEF Start, TypeInv, TypeOK, Pointed
<1>8. ASSUME NEW s \in Schema, Look(s)
      PROVE  TypeInv'
  BY <1>1, <1>8 DEF Look, TypeInv, TypeOK, Pointed
<1>9. ASSUME NEW s \in Schema, CollectPanics(s)
      PROVE  TypeInv'
  BY <1>1, <1>9 DEF CollectPanics, TypeInv, TypeOK, Pointed
<1>10. ASSUME NEW s \in Schema, Down(s)
       PROVE  TypeInv'
  <2>1. /\ s \in held /\ tableName' = s /\ op = Idle
        /\ UNCHANGED <<clock, scripts, lenient, baseFS, held, op, faults>>
    BY <1>10 DEF Down
  <2>2. UNCHANGED <<table, effects>> \/ \E x : Undo(x)
    BY <1>10 DEF Down
  <2>3. table' \in [Schema -> Seq(Script)] /\ effects' \subseteq Script
    BY <2>1, <2>2, UndoTyped DEF TypeInv, TypeOK
  <2> QED  BY <1>1, <2>1, <2>3 DEF TypeInv, TypeOK, Pointed
<1>11. CASE UpStep
  <2>1. tableName \in Schema /\ held # {}
    BY <1>11, OpKinds DEF UpStep, TypeInv
  <2>2. PICK x \in Pending(tableName) :
           /\ table' = [table EXCEPT ![tableName] = Append(@, x)]
           /\ effects' = effects \cup {x}
    BY <1>11 DEF UpStep
  <2>3. x \in Script
    BY <2>1, <2>2 DEF Pending, Found, TypeInv, Pointed, TypeOK
  <2>4. Append(table[tableName], x) \in Seq(Script)
    BY <2>1, <2>3 DEF TypeInv, TypeOK
  <2>5. table' \in [Schema -> Seq(Script)] /\ effects' \subseteq Script
    BY <2>1, <2>2, <2>3, <2>4 DEF TypeInv, TypeOK
  <2>6. UNCHANGED <<clock, scripts, lenient, baseFS, tableName, held, op, faults>>
    BY <1>11 DEF UpStep
  <2> QED  BY <1>1, <2>5, <2>6 DEF TypeInv, TypeOK, Pointed
<1>12. CASE UpEnds \/ UpFails
  <2>1. op' = Idle /\ UNCHANGED <<clock, scripts, lenient, baseFS, tableName, held, table, effects>>
    BY <1>12 DEF UpEnds, UpFails
  <2>2. faults' \in 0..MaxFaults
    <3>1. faults' = faults \/ (faults < MaxFaults /\ faults' = faults + 1)
      BY <1>12 DEF UpEnds, UpFails
    <3> QED  BY <3>1 DEF TypeInv, TypeOK
  <2> QED  BY <1>0, <1>1, <2>1, <2>2 DEF TypeInv, TypeOK, Pointed
<1>13. CASE ResetStep
  <2>1. tableName \in Schema /\ tableName' = tableName
        /\ UNCHANGED <<clock, scripts, lenient, baseFS, held>>
    BY <1>13, OpKinds DEF ResetStep, TypeInv
  <2>2. CASE /\ op' = Idle /\ UNCHANGED <<table, effects>>
             /\ faults' = faults \/ (faults < MaxFaults /\ faults' = faults + 1)
    BY <1>0, <1>1, <2>1, <2>2 DEF TypeInv, TypeOK, Pointed
  <2>3. CASE (\E x : Undo(x)) /\ UNCHANGED <<op, faults>>
    <3>1. table' \in [Schema -> Seq(Script)] /\ effects' \subseteq Script
      BY <2>1, <2>3, UndoTyped DEF TypeInv
    <3> QED  BY <1>1, <2>1, <2>3, <3>1 DEF TypeInv, TypeOK, Pointed
  <2> QED  BY <1>13, <2>2, <2>3 DEF ResetStep
<1>14. CASE UNCHANGED vars
  BY <1>1, <1>14 DEF vars, TypeInv, TypeOK, Pointed
<1> QED
  BY <1>2, <1>3, <1>4, <1>5, <1>6, <1>7, <1>8, <1>9, <1>10, <1>11, <1>12, <1>13, <1>14
     DEF Next, Operation, Up, Reset

LEMMA TypeInit == Init => TypeInv
<1> SUFFICES ASSUME Init PROVE TypeInv
  OBVIOUS
<1>1. clock \in 0..MaxClock /\ faults \in 0..MaxFaults
  BY MigratorAssumption DEF Init
<1>2. Idle \in [kind : {"none", "up", "reset"}, schema : Schema \cup {None}]
  BY DEF Idle
<1>3. <<>> \in Seq(Script)
  OBVIOUS
<1>4. TypeOK /\ Pointed
  BY <1>1, <1>2, <1>3 DEF Init, TypeOK, Pointed
<1>5. Bounded
  <2>1. Versions({}) = {}
    BY DEF Versions
  <2> QED  BY <2>1 DEF Init, Bounded, HasHighest
<1> QED  BY <1>4, <1>5 DEF TypeInv

LEMMA TypeInvariant == Spec => []TypeInv
BY TypeInit, TypeStep, PTL DEF Spec

\* However many migrators a process holds and whichever of them is used, goose
\* is set to the version table of the migrator whose operation runs (SetTableName
\* at the start of each operation), and every stamp is a time.
THEOREM TableNameIsCurrent == Spec => []TypeOK
BY TypeInvariant, PTL DEF TypeInv

-----------------------------------------------------------------------------
(* One migrator at a time. *)

LEMMA NoneHeld ==
    ASSUME MaxHeld = 1, Alone, Cardinality(held) < MaxHeld
    PROVE  held = {}
<1> SUFFICES ASSUME NEW h \in held PROVE FALSE
  OBVIOUS
<1>1. held = {h}
  BY DEF Alone
<1>2. Cardinality({h}) = 1
  BY FS_Singleton
<1> QED  BY <1>1, <1>2

LEMMA AloneStep ==
    ASSUME MaxHeld = 1, TypeInv, Alone, [Next]_vars
    PROVE  Alone'
<1> USE DEF Alone, goose, database
<1>1. CASE UNCHANGED <<baseFS, held>>
  BY <1>1
<1>2. ASSUME NEW s \in Schema, New(s) \/ NewFails(s)
      PROVE  Alone'
  <2>1. held = {}
    BY <1>2, NoneHeld DEF New, NewFails
  <2> QED  BY <1>2, <2>1 DEF New, NewFails
<1>3. ASSUME NEW s \in Schema, Release(s)
      PROVE  Alone'
  BY <1>3 DEF Release
<1>4. CASE held' = {}
  BY <1>4
<1>5. CASE Exit \/ \E s \in Schema : CollectPanics(s)
  <2>1. held' = {}
    BY <1>5 DEF Exit, CollectPanics
  <2> QED  BY <1>4, <2>1
<1>6. CASE Write
  <2>1. UNCHANGED <<baseFS, held>>
    BY <1>6 DEF Write, AddSlice, Create
  <2> QED  BY <1>1, <2>1
<1>7. CASE Tick \/ UpStep \/ UpEnds \/ UpFails \/ ResetStep \/ UNCHANGED vars
           \/ \E s \in Schema : Up(s) \/ Reset(s) \/ Down(s) \/ Look(s)
  <2>1. UNCHANGED <<baseFS, held>>
    BY <1>7 DEF Tick, UpStep, UpEnds, UpFails, ResetStep, vars, Up, Reset, Start, Down, Look
  <2> QED  BY <1>1, <2>1
<1> QED  BY <1>2, <1>3, <1>5, <1>6, <1>7 DEF Next, Operation

\* Scripts are only written while no process holds a migrator.
LEMMA ScriptsStep ==
    ASSUME [Next]_vars
    PROVE  Write \/ UNCHANGED scripts
BY DEF Next, Operation, Tick, UpStep, UpEnds, UpFails, ResetStep, vars, Up, Reset, Start, Down, Look,
   Exit, CollectPanics, New, NewFails, Release

LEMMA OwnedStep ==
    ASSUME TypeInv, Owned, [Next]_vars
    PROVE  Owned'
<1>1. CASE UNCHANGED scripts
  BY <1>1 DEF Owned
<1>2. CASE Write
  <2>1. PICK s \in Schema, new \in SUBSET Script : Adds(s, new)
    BY <1>2, WriteAdds
  <2> QED  BY <2>1 DEF Adds, Owned, TypeInv, TypeOK
<1> QED  BY <1>1, <1>2, ScriptsStep

LEMMA CollectedStep ==
    ASSUME TypeInv, Collected, [Next]_vars
    PROVE  Collected'
<1> USE DEF goose, database
<1>1. CASE UNCHANGED <<op, baseFS, scripts>>
  BY <1>1 DEF Collected, Readable, Found
<1>2. CASE op' = Idle
  BY <1>2 DEF Collected, Idle
<1>3. CASE Readable /\ UNCHANGED <<baseFS, scripts>>
  BY <1>3 DEF Collected, Readable, Found
<1>4. CASE Write
  <2>1. held = {} /\ UNCHANGED op
    BY <1>4 DEF Write, AddSlice, Create
  <2>2. op = Idle
    BY <2>1 DEF TypeInv, TypeOK
  <2> QED  BY <1>2, <2>1, <2>2
<1>5. ASSUME NEW s \in Schema, New(s) \/ NewFails(s) \/ Release(s) \/ Look(s) \/ CollectPanics(s) \/ Down(s)
      PROVE  Collected'
  <2>1. op' = op /\ op = Idle
    BY <1>5 DEF New, NewFails, Release, Look, CollectPanics, Down
  <2> QED  BY <1>2, <2>1
<1>6. ASSUME NEW s \in Schema, Up(s) \/ Reset(s)
      PROVE  Collected'
  <2>1. Readable /\ UNCHANGED <<baseFS, scripts>>
    BY <1>6 DEF Up, Reset, Start
  <2> QED  BY <1>3, <2>1
<1>7. CASE Exit \/ UpEnds \/ UpFails
  <2>1. op' = Idle
    BY <1>7 DEF Exit, UpEnds, UpFails
  <2> QED  BY <1>2, <2>1
<1>8. CASE Tick \/ UpStep \/ UNCHANGED vars
  <2>1. UNCHANGED <<op, baseFS, scripts>>
    BY <1>8 DEF Tick, UpStep, vars
  <2> QED  BY <1>1, <2>1
<1>9. CASE ResetStep
  <2>1. UNCHANGED <<op, baseFS, scripts>> \/ op' = Idle
    BY <1>9 DEF ResetStep
  <2> QED  BY <1>1, <1>2, <2>1
<1> QED  BY <1>4, <1>5, <1>6, <1>7, <1>8, <1>9 DEF Next, Operation

-----------------------------------------------------------------------------
(* What a step does to a version table. *)

\* The oldest pending script is recorded.
Recording(t, x) ==
    /\ x \in scripts[t]
    /\ \A y \in Recorded(t) : y.version # x.version
    /\ \A z \in scripts[t] : z.version \in Versions(Recorded(t)) \/ z = x \/ x.version < z.version
    /\ table' = [table EXCEPT ![t] = Append(@, x)]
    /\ effects' = effects \cup {x}

\* A row is removed: the last one or the one with the highest version.
Removing(t, i) ==
    /\ i \in DOMAIN table[t]
    /\ \A z \in scripts[t] : z.version = table[t][i].version => z = table[t][i]
    /\ \A j \in DOMAIN table[t] : j > i => table[t][j].version < table[t][i].version
    /\ table' = [table EXCEPT ![t] = RemoveAt(@, i)]
    /\ effects' = effects \ {table[t][i]}

LEMMA UpStepRecords ==
    ASSUME TypeInv, Alone, Collected, UpStep
    PROVE  \E t \in Schema, x \in Script : Recording(t, x)
<1>1. op # Idle /\ op.schema \in held /\ op.schema \in Schema /\ tableName = op.schema
  BY OpKinds DEF UpStep, TypeInv
<1> DEFINE t == op.schema
<1>2. Found = scripts[t] /\ Readable
  BY <1>1 DEF Alone, Found, Collected
<1>3. PICK x \in Pending(t) :
         /\ \A y \in Pending(t) : x.version <= y.version
         /\ table' = [table EXCEPT ![t] = Append(@, x)]
         /\ effects' = effects \cup {x}
  BY <1>1 DEF UpStep
<1>4. x \in scripts[t] /\ x \in Script /\ x.version \notin Versions(Recorded(t))
  BY <1>1, <1>2, <1>3 DEF Pending, TypeInv, TypeOK
<1>5. \A y \in Recorded(t) : y.version # x.version
  BY <1>4 DEF Versions
<1>6. ASSUME NEW z \in scripts[t], z.version \notin Versions(Recorded(t)), z # x
      PROVE  x.version < z.version
  <2>1. x.version <= z.version
    BY <1>2, <1>3, <1>6 DEF Pending
  <2>2. x.version # z.version
    BY <1>2, <1>4, <1>6 DEF Readable
  <2>3. x.version \in Int /\ z.version \in Int
    BY <1>1, <1>4 DEF TypeInv, TypeOK, Script
  <2> QED  BY <2>1, <2>2, <2>3
<1> HIDE DEF t
<1>7. Recording(t, x)
  BY <1>3, <1>4, <1>5, <1>6 DEF Recording
<1> QED  BY <1>1, <1>4, <1>7 DEF t

\* A row has the version of one script only: it is that script.
LEMMA RowIsScript ==
    ASSUME Tabled, Readable, NEW t \in Schema, Found = scripts[t],
           NEW i \in DOMAIN table[t], NEW x \in scripts[t], table[t][i].version = x.version
    PROVE  /\ table[t][i] = x
           /\ \A z \in scripts[t] : z.version = table[t][i].version => z = table[t][i]
<1>1. table[t][i] \in scripts[t]
  BY DEF Tabled, Rows
<1> QED  BY <1>1 DEF Readable

LEMMA DownRemoves ==
    ASSUME TypeInv, Alone, Tabled, NEW s \in Schema, Down(s)
    PROVE  UNCHANGED database \/ \E i \in Nat : Removing(s, i)
<1>1. s \in held /\ Readable /\ tableName' = s /\ Found = scripts[s]
  BY DEF Down, Alone, Found
<1>2. table[s] \in Seq(Script)
  BY DEF TypeInv, TypeOK
<1>3. CASE \E x \in Found : table[s] # <<>> /\ x.version = Last(table[s]).version /\ Undo(x)
  <2>1. PICK x \in scripts[s] : /\ table[s] # <<>> /\ x.version = Last(table[s]).version
                                /\ Undo(x)
    BY <1>1, <1>3
  <2>2. PICK i \in DOMAIN table[s] : /\ table[s][i].version = x.version
                                     /\ table' = [table EXCEPT ![s] = RemoveAt(@, i)]
    BY <1>1, <2>1 DEF Undo
  <2>3. effects' = effects \ {x}
    BY <2>1 DEF Undo
  <2>4. Len(table[s]) \in DOMAIN table[s] /\ i \in 1..Len(table[s]) /\ Len(table[s]) \in Nat
    BY <1>2, <2>1, <2>2
  <2>5. i = Len(table[s])
    BY <2>1, <2>2, <2>4 DEF Tabled, Rows, Last
  <2>6. \A j \in DOMAIN table[s] : ~(j > i)
    BY <1>2, <2>4, <2>5
  <2>7. /\ table[s][i] = x
        /\ \A z \in scripts[s] : z.version = table[s][i].version => z = table[s][i]
    BY <1>1, <2>2, RowIsScript
  <2>8. Removing(s, i)
    BY <2>2, <2>3, <2>6, <2>7 DEF Removing
  <2> QED  BY <2>4, <2>8
<1> QED  BY <1>3 DEF Down

LEMMA ResetStepRemoves ==
    ASSUME TypeInv, Alone, Collected, Tabled, ResetStep
    PROVE  UNCHANGED database \/ \E t \in Schema, i \in Nat : Removing(t, i)
<1>1. op # Idle /\ op.schema \in held /\ op.schema \in Schema /\ tableName = op.schema
  BY OpKinds DEF ResetStep, TypeInv
<1> DEFINE t == op.schema
<1>2. Found = scripts[t] /\ Readable /\ tableName' = t
  BY <1>1 DEF Alone, Found, Collected, ResetStep
<1>3. table[t] \in Seq(Script)
  BY <1>1 DEF TypeInv, TypeOK
<1> DEFINE undoable == {x \in Found : x.version \in Versions(Recorded(t))}
<1>4. CASE \E x \in undoable : (\A y \in undoable : y.version <= x.version) /\ Undo(x)
  <2>1. PICK x \in undoable : (\A y \in undoable : y.version <= x.version) /\ Undo(x)
    BY <1>4
  <2>2. x \in scripts[t]
    BY <1>2, <2>1
  <2>3. PICK i \in DOMAIN table[t] : /\ table[t][i].version = x.version
                                     /\ table' = [table EXCEPT ![t] = RemoveAt(@, i)]
    BY <1>2, <2>1 DEF Undo
  <2>4. effects' = effects \ {x}
    BY <2>1 DEF Undo
  <2>5. /\ table[t][i] = x
        /\ \A z \in scripts[t] : z.version = table[t][i].version => z = table[t][i]
    BY <1>1, <1>2, <2>2, <2>3, RowIsScript
  <2>6. i \in Nat
    BY <1>3
  <2>7. ASSUME NEW j \in DOMAIN table[t], j > i
        PROVE  table[t][j].version < table[t][i].version
    <3>1. table[t][j] \in scripts[t] /\ table[t][j] \in Recorded(t)
      BY <1>1 DEF Tabled, Rows, Recorded, Range
    <3>2. table[t][j] \in undoable
      BY <1>2, <3>1 DEF Versions
    <3>3. table[t][j].version <= x.version
      BY <2>1, <3>2
    <3>4. table[t][j].version # table[t][i].version
      BY <1>1, <1>3, <2>6, <2>7 DEF Tabled, Rows
    <3>5. table[t][j] \in Script /\ table[t][i] \in Script
      BY <1>3
    <3>6. table[t][j].version \in Int /\ table[t][i].version \in Int
      BY <3>5 DEF Script
    <3> QED  BY <2>3, <3>3, <3>4, <3>6
  <2> HIDE DEF t
  <2>8. Removing(t, i)
    BY <2>3, <2>4, <2>5, <2>7 DEF Removing
  <2> QED  BY <1>1, <2>6, <2>8 DEF t
<1> QED  BY <1>1, <1>4 DEF ResetStep

LEMMA DatabaseSteps ==
    ASSUME TypeInv, Alone, Collected, Tabled, [Next]_vars
    PROVE  \/ UNCHANGED database
           \/ UNCHANGED scripts /\ \E t \in Schema, x \in Script : Recording(t, x)
           \/ UNCHANGED scripts /\ \E t \in Schema, i \in Nat : Removing(t, i)
<1>1. CASE UpStep
  BY <1>1, UpStepRecords DEF UpStep
<1>2. ASSUME NEW s \in Schema, Down(s)
      PROVE  \/ UNCHANGED database
             \/ UNCHANGED scripts /\ \E t \in Schema, i \in Nat : Removing(t, i)
  BY <1>2, DownRemoves DEF Down
<1>3. CASE ResetStep
  BY <1>3, ResetStepRemoves DEF ResetStep
<1>4. CASE Tick \/ UpEnds \/ UpFails \/ Exit \/ UNCHANGED vars
  BY <1>4 DEF Tick, UpEnds, UpFails, Exit, vars, database
<1>5. CASE Write
  BY <1>5 DEF Write, AddSlice, Create, database
<1>6. ASSUME NEW s \in Schema,
             New(s) \/ NewFails(s) \/ Release(s) \/ Look(s) \/ CollectPanics(s) \/ Up(s) \/ Reset(s)
      PROVE  UNCHANGED database
  BY <1>6 DEF New, NewFails, Release, Look, CollectPanics, Up, Reset, Start, database
<1> QED  BY <1>1, <1>2, <1>3, <1>4, <1>5, <1>6 DEF Next, Operation

-----------------------------------------------------------------------------
(* The invariant. *)

LEMMA TabledStep ==
    ASSUME TypeInv, Alone, Collected, Tabled, SlicesNewest, [Next]_vars
    PROVE  Tabled'
<1>1. CASE UNCHANGED database
  <2> SUFFICES ASSUME NEW t \in Schema PROVE Rows(table'[t], scripts'[t])
    BY DEF Tabled
  <2>1. scripts[t] \subseteq scripts'[t]
    <3>1. CASE UNCHANGED scripts
      BY <3>1
    <3>2. CASE Write
      <4>1. PICK s \in Schema, new \in SUBSET Script : Adds(s, new)
        BY <3>2, WriteAdds
      <4> QED  BY <4>1 DEF Adds, TypeInv, TypeOK
    <3> QED  BY <3>1, <3>2, ScriptsStep
  <2>2. Rows(table[t], scripts[t]) /\ table'[t] = table[t]
    BY <1>1 DEF Tabled, database
  <2> QED  BY <2>1, <2>2, RowsKept
<1>2. ASSUME NEW t \in Schema, NEW x \in Script, Recording(t, x), UNCHANGED scripts
      PROVE  Tabled'
  <2>1. Rows(table[t], scripts[t]) /\ table[t] \in Seq(Script)
    BY DEF Tabled, TypeInv, TypeOK
  <2>2. IsSlices(x) => \A y \in Range(table[t]) : y.version < x.version
    BY <1>2 DEF Recording, SlicesNewest, Recorded, Versions
  <2>3. Rows(Append(table[t], x), scripts[t])
    BY <1>2, <2>1, <2>2, RowsAppended DEF Recording, Recorded
  <2>4. \A u \in Schema : table'[u] = IF u = t THEN Append(table[t], x) ELSE table[u]
    BY <1>2 DEF Recording, TypeInv, TypeOK
  <2> QED  BY <1>2, <2>3, <2>4 DEF Tabled
<1>3. ASSUME NEW t \in Schema, NEW i \in Nat, Removing(t, i), UNCHANGED scripts
      PROVE  Tabled'
  <2>1. Rows(table[t], scripts[t]) /\ table[t] \in Seq(Script) /\ i \in DOMAIN table[t]
    BY <1>3 DEF Tabled, TypeInv, TypeOK, Removing
  <2>2. Rows(RemoveAt(table[t], i), scripts[t])
    BY <2>1, RowsRemoved
  <2>3. \A u \in Schema : table'[u] = IF u = t THEN RemoveAt(table[t], i) ELSE table[u]
    BY <1>3 DEF Removing, TypeInv, TypeOK
  <2> QED  BY <1>3, <2>2, <2>3 DEF Tabled
<1> QED  BY <1>1, <1>2, <1>3, DatabaseSteps

\* What the two kinds of steps do to the sets of recorded scripts.
LEMMA RecordedGrows ==
    ASSUME TypeInv, Tabled, SlicesNewest, NEW t \in Schema, NEW x \in Script, Recording(t, x)
    PROVE  \A u \in Schema : Recorded(u)' = IF u = t THEN Recorded(t) \cup {x} ELSE Recorded(u)
<1>1. Rows(table[t], scripts[t]) /\ table[t] \in Seq(Script)
  BY DEF Tabled, TypeInv, TypeOK
<1>2. IsSlices(x) => \A y \in Range(table[t]) : y.version < x.version
  BY DEF Recording, SlicesNewest, Recorded, Versions
<1>3. Range(Append(table[t], x)) = Range(table[t]) \cup {x}
  BY <1>1, <1>2, RowsAppended DEF Recording, Recorded
<1>4. \A u \in Schema : table'[u] = IF u = t THEN Append(table[t], x) ELSE table[u]
  BY DEF Recording, TypeInv, TypeOK
<1> QED  BY <1>3, <1>4 DEF Recorded

LEMMA RecordedShrinks ==
    ASSUME TypeInv, Tabled, NEW t \in Schema, NEW i \in Nat, Removing(t, i)
    PROVE  \A u \in Schema :
              Recorded(u)' = IF u = t THEN Recorded(t) \ {table[t][i]} ELSE Recorded(u)
<1>1. Rows(table[t], scripts[t]) /\ table[t] \in Seq(Script) /\ i \in DOMAIN table[t]
  BY DEF Tabled, TypeInv, TypeOK, Removing
<1>2. Range(RemoveAt(table[t], i)) = Range(table[t]) \ {table[t][i]}
  BY <1>1, RowsRemoved
<1>3. \A u \in Schema : table'[u] = IF u = t THEN RemoveAt(table[t], i) ELSE table[u]
  BY DEF Removing, TypeInv, TypeOK
<1> QED  BY <1>2, <1>3 DEF Recorded

\* The row removed is the newest of a schema, if it is of a slice.
LEMMA RemovedIsNewest ==
    ASSUME TypeInv, Tabled, NEW t \in Schema, NEW i \in Nat, Removing(t, i), IsSlices(table[t][i])
    PROVE  \A y \in Recorded(t) : y = table[t][i] \/ y.version < table[t][i].version
<1> SUFFICES ASSUME NEW j \in DOMAIN table[t]
             PROVE  table[t][j] = table[t][i] \/ table[t][j].version < table[t][i].version
  BY DEF Recorded, Range
<1>1. i \in DOMAIN table[t] /\ i \in Int /\ j \in Int
  BY DEF Removing, TypeInv, TypeOK
<1>2. CASE j < i
  BY <1>1, <1>2 DEF Tabled, Rows
<1>3. CASE j > i
  BY <1>3 DEF Removing
<1> QED  BY <1>1, <1>2, <1>3

LEMMA TablesMatchStep ==
    ASSUME TypeInv, Owned, Alone, Collected, Tabled, SlicesNewest, TablesMatch, [Next]_vars
    PROVE  TablesMatch'
<1>1. CASE UNCHANGED database
  BY <1>1 DEF TablesMatch, Recorded, database
<1>2. ASSUME NEW t \in Schema, NEW x \in Script, Recording(t, x)
      PROVE  TablesMatch'
  <2>1. x.owner = t /\ effects' = effects \cup {x}
    BY <1>2 DEF Recording, Owned
  <2> QED  BY <1>2, <2>1, RecordedGrows DEF TablesMatch
<1>3. ASSUME NEW t \in Schema, NEW i \in Nat, Removing(t, i)
      PROVE  TablesMatch'
  <2>1. table[t][i] \in scripts[t]
    BY <1>3 DEF Removing, Tabled, Rows
  <2>2. table[t][i].owner = t /\ effects' = effects \ {table[t][i]}
    BY <1>3, <2>1 DEF Removing, Owned
  <2> QED  BY <1>3, <2>2, RecordedShrinks DEF TablesMatch
<1> QED  BY <1>1, <1>2, <1>3, DatabaseSteps

LEMMA SlicesApartStep ==
    ASSUME TypeInv, SlicesApart, [Next]_vars
    PROVE  SlicesApart'
<1>1. CASE UNCHANGED scripts
  BY <1>1 DEF SlicesApart
<1>2. CASE Write
  <2>1. PICK s \in Schema, new \in SUBSET Script :
            Adds(s, new) /\ (AddsOne(s, new) \/ AddsTwo(s, new))
    BY <1>2, WriteAdds
  <2>2. \A u \in Schema : scripts'[u] = IF u = s THEN scripts[s] \cup new ELSE scripts[u]
    BY <2>1 DEF Adds, TypeInv, TypeOK
  <2> SUFFICES ASSUME NEW u \in Schema, NEW x \in scripts'[u], NEW y \in scripts'[u],
                      IsSlices(x), IsSlices(y), y.version = x.version
               PROVE  y = x
    BY DEF SlicesApart
  <2>3. CASE x \in scripts[u] /\ y \in scripts[u]
    BY <2>3 DEF SlicesApart
  <2>4. CASE u = s /\ AddsOne(s, new)
    BY <2>2, <2>3, <2>4 DEF AddsOne
  <2>5. CASE u = s /\ AddsTwo(s, new)
    <3>1. PICK at \in Int : /\ \A z \in scripts[s] : z.version < at
                            /\ \A z \in new : z.version >= at
                            /\ \A z, w \in new : z.version = w.version => z = w
      BY <2>5 DEF AddsTwo
    <3>2. x.version \in Int
      <4>1. x \in Script
        BY <2>2 DEF TypeInv, TypeOK
      <4> QED  BY <4>1 DEF Script
    <3> QED  BY <2>2, <2>3, <2>5, <3>1, <3>2
  <2> QED  BY <2>1, <2>2, <2>3, <2>4, <2>5
<1> QED  BY <1>1, <1>2, ScriptsStep

LEMMA SlicesNewestStep ==
    ASSUME TypeInv, Alone, Collected, Tabled, SlicesNewest, [Next]_vars
    PROVE  SlicesNewest'
<1>1. CASE UNCHANGED <<scripts, database>>
  BY <1>1 DEF SlicesNewest, Recorded, database
<1>2. CASE Write
  <2>1. PICK s \in Schema, new \in SUBSET Script :
            Adds(s, new) /\ (AddsOne(s, new) \/ AddsTwo(s, new))
    BY <1>2, WriteAdds
  <2>2. \A u \in Schema : scripts'[u] = IF u = s THEN scripts[s] \cup new ELSE scripts[u]
    BY <2>1 DEF Adds, TypeInv, TypeOK
  <2>3. \A u \in Schema : Recorded(u)' = Recorded(u)
    BY <2>1 DEF Adds, Recorded, database
  <2> SUFFICES ASSUME NEW u \in Schema, NEW x \in scripts'[u], IsSlices(x)
               PROVE  \/ x.version \in Versions(Recorded(u))
                      \/ \A y \in Recorded(u) : y.version < x.version
    BY <2>3 DEF SlicesNewest
  <2>4. CASE x \in scripts[u]
    BY <2>4 DEF SlicesNewest
  <2>5. CASE u = s /\ x \in new
    <3>1. AddsTwo(s, new)
      BY <2>1, <2>5 DEF AddsOne
    <3>2. PICK at \in Int : /\ \A z \in scripts[s] : z.version < at
                            /\ \A z \in new : z.version >= at
      BY <3>1 DEF AddsTwo
    <3>3. Recorded(u) \subseteq scripts[u]
      BY DEF Recorded, Range, Tabled, Rows
    <3>4. \A y \in scripts[u] : y.version \in Int
      BY DEF TypeInv, TypeOK, Script
    <3>5. x.version \in Int
      BY <2>5 DEF Script
    <3> QED  BY <2>5, <3>2, <3>3, <3>4, <3>5
  <2> QED  BY <2>2, <2>4, <2>5
<1>3. ASSUME NEW t \in Schema, NEW x \in Script, Recording(t, x), UNCHANGED scripts
      PROVE  SlicesNewest'
  <2> SUFFICES ASSUME NEW u \in Schema, NEW z \in scripts[u], IsSlices(z)
               PROVE  \/ z.version \in Versions(Recorded(u)')
                      \/ \A y \in Recorded(u)' : y.version < z.version
    BY <1>3 DEF SlicesNewest, Versions
  <2>1. CASE u # t
    BY <1>3, <2>1, RecordedGrows DEF SlicesNewest
  <2>2. CASE u = t
    <3>1. Recorded(u)' = Recorded(t) \cup {x}
      BY <1>3, <2>2, RecordedGrows
    <3>2. CASE z.version \in Versions(Recorded(t)) \/ z = x
      BY <3>1, <3>2 DEF Versions
    <3>3. CASE z.version \notin Versions(Recorded(t)) /\ x.version < z.version
      BY <2>2, <3>1, <3>3 DEF SlicesNewest
    <3> QED  BY <1>3, <2>2, <3>2, <3>3 DEF Recording
  <2> QED  BY <2>1, <2>2
<1>4. ASSUME NEW t \in Schema, NEW i \in Nat, Removing(t, i), UNCHANGED scripts
      PROVE  SlicesNewest'
  <2> SUFFICES ASSUME NEW u \in Schema, NEW z \in scripts[u], IsSlices(z)
               PROVE  \/ z.version \in Versions(Recorded(u)')
                      \/ \A y \in Recorded(u)' : y.version < z.version
    BY <1>4 DEF SlicesNewest, Versions
  <2>1. CASE u # t
    BY <1>4, <2>1, RecordedShrinks DEF SlicesNewest
  <2>2. CASE u = t
    <3> DEFINE r == table[t][i]
    <3>1. Recorded(u)' = Recorded(t) \ {r}
      BY <1>4, <2>2, RecordedShrinks
    <3>2. CASE z.version = r.version
      <4>1. z = r
        BY <1>4, <2>2, <3>2 DEF Removing
      <4>2. \A y \in Recorded(t) : y = r \/ y.version < r.version
        BY <1>4, <4>1, RemovedIsNewest
      <4> HIDE DEF r
      <4> QED  BY <3>1, <4>1, <4>2
    <3>3. CASE z.version # r.version /\ z.version \in Versions(Recorded(t))
      <4> HIDE DEF r
      <4> QED  BY <3>1, <3>3 DEF Versions
    <3>4. CASE \A y \in Recorded(t) : y.version < z.version
      <4> HIDE DEF r
      <4> QED  BY <3>1, <3>4
    <3> QED  BY <2>2, <3>2, <3>3, <3>4 DEF SlicesNewest
  <2> QED  BY <2>1, <2>2
<1> QED  BY <1>1, <1>2, <1>3, <1>4, DatabaseSteps, ScriptsStep

LEMMA MigratorInvariant == MaxHeld = 1 => (Spec => []MigratorInv)
<1> SUFFICES ASSUME MaxHeld = 1 PROVE Spec => []MigratorInv
  OBVIOUS
<1>1. Init => MigratorInv
  <2> SUFFICES ASSUME Init PROVE MigratorInv
    OBVIOUS
  <2>1. Owned /\ Alone /\ Collected /\ SlicesApart
    BY DEF Init, Owned, Alone, Collected, SlicesApart
  <2>2. \A s \in Schema : Recorded(s) = {} /\ Rows(table[s], scripts[s])
    BY DEF Init, Recorded, Range, Rows
  <2>3. Tabled /\ SlicesNewest /\ TablesMatch
    BY <2>2 DEF Init, Tabled, SlicesNewest, TablesMatch
  <2> QED  BY <2>1, <2>3 DEF MigratorInv
<1>2. TypeInv /\ MigratorInv /\ [Next]_vars => MigratorInv'
  BY AloneStep, OwnedStep, CollectedStep, TabledStep, SlicesApartStep, SlicesNewestStep,
     TablesMatchStep DEF MigratorInv
<1> QED  BY <1>1, <1>2, TypeInvariant, PTL DEF Spec

\* With one migrator at a time, the version table of a schema records exactly
\* the scripts of that schema whose changes the database holds: after any
\* sequence of Up, Down and Reset, refused, failed or killed halfway, of any
\* number of modules sharing the database.
THEOREM TablesTellTheTruth == MaxHeld = 1 => (Spec => []TablesMatch)
<1> SUFFICES ASSUME MaxHeld = 1 PROVE Spec => []TablesMatch
  OBVIOUS
<1>1. MigratorInv => TablesMatch
  BY DEF MigratorInv
<1> QED  BY <1>1, MigratorInvariant, PTL

\* The stamps of slices (MigrationStamps) never make goose panic or Migrate
\* refuse: whatever `migrate create` stamped in the future or, in local time, in
\* the past, and in whatever order scripts were applied and undone.
THEOREM SlicesAlwaysApply == MaxHeld = 1 => (Spec => []SlicesNeverRefused)
<1> SUFFICES ASSUME MaxHeld = 1 PROVE Spec => []SlicesNeverRefused
  OBVIOUS
<1>1. MigratorInv => SlicesNeverRefused
  BY DEF MigratorInv, SlicesNeverRefused, SlicesApart, SlicesNewest, IsSlices
<1> QED  BY <1>1, MigratorInvariant, PTL

\* An Up that ends without an error leaves no script of its schema unrecorded:
\* goose looked into the directory of that schema, and nothing was pending.
THEOREM UpLeavesNothing == MaxHeld = 1 => (Spec => UpIsComplete)
<1> SUFFICES ASSUME MaxHeld = 1 PROVE Spec => UpIsComplete
  OBVIOUS
<1> DEFINE Complete ==
        op.kind = "up" /\ op' = Idle /\ held' # {} /\ faults' = faults /\ ~Refused(tableName)
          => \A x \in scripts[op.schema] : x.version \in Versions(Recorded(op.schema))
<1>1. TypeInv /\ MigratorInv /\ [Next]_vars => [Complete]_vars
  <2> SUFFICES ASSUME TypeInv, MigratorInv, [Next]_vars, op.kind = "up", op' = Idle, held' # {},
                      faults' = faults, ~Refused(tableName)
               PROVE  \A x \in scripts[op.schema] : x.version \in Versions(Recorded(op.schema))
    OBVIOUS
  <2>1. op # Idle /\ op.schema \in held /\ tableName = op.schema
    BY OpKinds DEF TypeInv
  <2>2. Found = scripts[op.schema]
    BY <2>1 DEF MigratorInv, Alone, Found
  <2>3. faults \in Int
    BY MigratorAssumption DEF TypeInv, TypeOK
  <2>4. CASE UpEnds
    BY <2>1, <2>2, <2>4 DEF UpEnds, Pending
  <2>5. ~UpFails
    BY <2>3 DEF UpFails
  <2>6. ~Exit
    BY DEF Exit
  <2>7. ~ResetStep
    BY DEF ResetStep
  <2>8. ~(Tick \/ UpStep \/ Write \/ UNCHANGED vars)
    <3>1. op' # op
      BY <2>1
    <3> QED  BY <3>1 DEF Tick, UpStep, Write, AddSlice, Create, vars
  <2>9. ASSUME NEW s \in Schema
        PROVE  ~(New(s) \/ NewFails(s) \/ Release(s) \/ Look(s) \/ CollectPanics(s) \/ Up(s)
                 \/ Reset(s) \/ Down(s))
    BY <2>1 DEF New, NewFails, Release, Look, CollectPanics, Up, Reset, Start, Down
  <2> QED  BY <2>4, <2>5, <2>6, <2>7, <2>8, <2>9 DEF Next, Operation
<1> QED  BY <1>1, TypeInvariant, MigratorInvariant, PTL DEF Spec, UpIsComplete

=============================================================================
