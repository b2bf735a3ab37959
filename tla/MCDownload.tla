----------------------------- MODULE MCDownload -----------------------------
(* Download on small instances; the cfg files give the values. *)
EXTENDS Download, TLC
=============================================================================
