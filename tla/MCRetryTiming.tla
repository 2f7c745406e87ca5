----------------------------- MODULE MCRetryTiming -----------------------------
(* RetryTiming on small instances, see the MCRetryTiming_*.cfg files. *)
EXTENDS RetryTiming

(* One error strategy of each kind, with limits the runs can use up. *)
EachKind == {AlwaysFail, AlwaysContinue, MaxAttempts(2), TimeLimit(3)}
================================================================================
