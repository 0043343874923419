----------------------------- MODULE MCRequest ------------------------------
(* Two requests at once, for the same row, another one or an id ParseID     *)
(* refuses.                                                                 *)
EXTENDS Request
=============================================================================
