--------------------------- MODULE MCCurlRequests ---------------------------
(* CurlRequests with the handles and bounds of CurlRequests.cfg. *)
EXTENDS CurlRequests
=============================================================================
