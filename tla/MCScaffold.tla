----------------------------- MODULE MCScaffold -----------------------------
(***************************************************************************)
(* A module that may be new, hand-written or generated, and two entities.  *)
(***************************************************************************)
EXTENDS Scaffold, TLC
CONSTANTS e1, e2
TwoEntities == {e1, e2}
EntitySymmetry == Permutations(TwoEntities)
=============================================================================
