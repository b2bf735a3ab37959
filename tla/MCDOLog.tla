------------------------------ MODULE MCDOLog ------------------------------
(* DOLog on a small instance. *)
EXTENDS DOLog
=============================================================================
