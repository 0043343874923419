----------------------------- MODULE MCPreCommit ----------------------------
(***************************************************************************)
(* One Go, one YAML and one TOML file, the YAML one a lockfile, and texts  *)
(* of up to four bytes where three are allowed.                            *)
(***************************************************************************)
EXTENDS PreCommit

Files == {"g", "y", "t"}
Kinds == [f \in Files |-> CASE f = "g" -> "go" [] f = "y" -> "yaml" [] f = "t" -> "toml"]

Arguments == {{}, {"g"}, {"y", "t"}}

Of(text, flaws, generated) == [text |-> text, flaws |-> flaws, generated |-> generated]
Contents ==
    { Of(<<"x", "NL">>, {}, FALSE), Of(<<"x", "blank", "NL">>, {}, FALSE),
      Of(<<"x", "blank", "x">>, {"format"}, TRUE), Of(<<"x", "NL">>, {"syntax"}, FALSE),
      Of(<<"blank", "NUL">>, {"lint", "format"}, FALSE), Of(<<"x", "NL", "NUL">>, {}, FALSE),
      Of(<<"x", "x", "x", "x">>, {}, FALSE) }

\* Everything is tidy, and the TOML file is there or not.
Tidy3 == [f \in Files |-> Of(<<"x", "NL">>, {}, FALSE)]
TwoCommits == {Tidy3, [Tidy3 EXCEPT !["t"] = Absent]}

\* The text algorithms on every text of up to five bytes, and of up to six
\* without NUL: they agree with the reference definition, and the fix keeps
\* what is visible.
ASSUME TextAlgorithms(BoundedSeq(Byte, 5) \cup BoundedSeq(Byte \ {"NUL"}, 6))
ASSUME FixKeepsVisible ==
    \A t \in BoundedSeq(Byte \ {"NUL"}, 6) :
        SelectSeq(FixFileContent("y", t), LAMBDA b : b = "x") = SelectSeq(t, LAMBDA b : b = "x")
=============================================================================
