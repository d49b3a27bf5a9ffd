---------------------------- MODULE MCODataClient ----------------------------
(* ODataClient with two retried requests, one of them to another host, and *)
(* a batch, one retry each and two sessions at the server.                 *)
EXTENDS ODataClient
=============================================================================
