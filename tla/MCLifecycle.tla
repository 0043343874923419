----------------------------- MODULE MCLifecycle ----------------------------
(***************************************************************************)
(* Small instances of Lifecycle: the configurations give modules and       *)
(* protocols as model values.                                              *)
(***************************************************************************)
EXTENDS Lifecycle
=============================================================================
