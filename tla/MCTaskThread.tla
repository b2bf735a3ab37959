---------------------------- MODULE MCTaskThread ----------------------------
(* TaskThread on small instances. *)
EXTENDS TaskThread
=============================================================================
