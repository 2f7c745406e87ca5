------------------------------ MODULE MCSSEClient ------------------------------
(* SSEClient on small instances, see the MCSSEClient_*.cfg files. *)
EXTENDS SSEClient, TLC

(* The controllers run the same code, so they may be exchanged in the runs *)
(* that check no liveness.                                                 *)
Symmetry == Permutations(Controllers)
================================================================================
