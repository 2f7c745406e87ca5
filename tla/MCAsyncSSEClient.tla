---------------------------- MODULE MCAsyncSSEClient ----------------------------
(* AsyncSSEClient on small instances, see the MCAsyncSSEClient_*.cfg files. *)
EXTENDS AsyncSSEClient
================================================================================
