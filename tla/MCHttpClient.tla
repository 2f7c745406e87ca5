------------------------------ MODULE MCHttpClient ------------------------------
(* HttpClient on small instances, see the MCHttpClient_*.cfg files. *)
EXTENDS HttpClient
================================================================================
