---------------------------- MODULE MCUnitOfWork ----------------------------
(***************************************************************************)
(* Small instances of UnitOfWork: the configurations give requests and     *)
(* writes as model values.                                                 *)
(***************************************************************************)
EXTENDS UnitOfWork
=============================================================================
