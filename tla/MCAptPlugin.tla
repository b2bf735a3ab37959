---------------------------- MODULE MCAptPlugin ----------------------------
(* AptPlugin on small instances; the cfg file gives the values. *)
EXTENDS AptPlugin
=============================================================================
