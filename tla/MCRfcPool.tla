----------------------------- MODULE MCRfcPool -----------------------------
(* RfcPool on four requests and a pool of two connections.                 *)
EXTENDS RfcPool
=============================================================================
