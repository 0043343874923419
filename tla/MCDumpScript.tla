---------------------------- MODULE MCDumpScript ----------------------------
(***************************************************************************)
(* Four rows in three tables: two in "a", whose rows may reference each    *)
(* other, one in "b" and one in "c".  Every foreign key may link every     *)
(* row of its child table to any row of its parent table, or to none.      *)
(***************************************************************************)
EXTENDS DumpScript

Rows4 == 1..4
Tables3 == {"a", "b", "c"}
ColumnsOf == [t \in Tables3 |-> {"id"}]
TableOf4 == [r \in Rows4 |-> CASE r \in {1, 2} -> "a" [] r = 3 -> "b" [] r = 4 -> "c"]

\* a -> a (a tree), a -> b, b -> a (a cycle between tables), c -> a
Keys == {"aa", "ab", "ba", "ca"}
ChildOf == [k \in Keys |-> CASE k \in {"aa", "ab"} -> "a" [] k = "ba" -> "b" [] k = "ca" -> "c"]
ParentOf == [k \in Keys |-> IF k = "ab" THEN "b" ELSE "a"]

\* A foreign-key column holds one reference or NULL.
Column(k, c) == {{}} \cup {{<<k, c, p>>} : p \in {r \in Rows4 : TableOf4[r] = ParentOf[k]}}
AllDatabases ==
    {l1 \cup l2 \cup l3 \cup l4 \cup l5 \cup l6 :
        l1 \in Column("aa", 1), l2 \in Column("aa", 2), l3 \in Column("ab", 1),
        l4 \in Column("ab", 2), l5 \in Column("ba", 3), l6 \in Column("ca", 4)}

\* The contents other sessions may leave behind while the dump runs.
FewDatabases ==
    { {<<"ab", 1, 3>>, <<"ba", 3, 2>>, <<"ca", 4, 1>>},
      {<<"aa", 1, 2>>, <<"aa", 2, 1>>, <<"ca", 4, 1>>} }

ASeed(r, d) == [rows |-> r, table |-> "a", depth |-> d, perParent |-> 1, all |-> {"b"}]
CSeed(d) == [rows |-> {4}, table |-> "c", depth |-> d, perParent |-> 1, all |-> {}]

Configs ==
    { [seeds |-> <<ASeed({1}, 2)>>, exclude |-> {"b"}, attach |-> {}, transform |-> {}],
      [seeds |-> <<CSeed(0), ASeed({2}, 1)>>, exclude |-> {}, attach |-> {<<"b", "a">>}, transform |-> {<<"b", "id">>}],
      [seeds |-> <<ASeed({2}, 1), CSeed(1)>>, exclude |-> {"c"}, attach |-> {<<"a", "a">>}, transform |-> {}],
      \* refused: no seed, an attached table that is excluded, a rule without a
      \* key, a transform or a seed of an unknown table, one of an unknown column
      [seeds |-> <<>>, exclude |-> {}, attach |-> {}, transform |-> {}],
      [seeds |-> <<CSeed(0)>>, exclude |-> {"b"}, attach |-> {<<"b", "a">>}, transform |-> {}],
      [seeds |-> <<CSeed(0)>>, exclude |-> {}, attach |-> {<<"b", "c">>}, transform |-> {}],
      [seeds |-> <<CSeed(0)>>, exclude |-> {}, attach |-> {}, transform |-> {<<"d", "id">>}],
      [seeds |-> <<CSeed(0)>>, exclude |-> {}, attach |-> {}, transform |-> {<<"c", "age">>}],
      [seeds |-> <<CSeed(0), [CSeed(0) EXCEPT !.table = "d", !.rows = {}]>>,
       exclude |-> {}, attach |-> {}, transform |-> {}] }

\* One sequence feeds the keys of a and b, another those of c; a transform
\* moves the keys of the table it rewrites past all the others.
Order == <<"a", "b", "c">>
Sequences2 == <<"ab_seq", "c_seq">>
UsesOf == [s \in {"ab_seq", "c_seq"} |-> IF s = "ab_seq" THEN {"a", "b"} ELSE {"c"}]
Moved == [r \in Rows4 |-> r + 10]
=============================================================================
