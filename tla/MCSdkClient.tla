---------------------------- MODULE MCSdkClient ----------------------------
(* SdkClient on small instances; the cfg files give the values. *)
EXTENDS SdkClient, TLC
=============================================================================
