------------------------------ MODULE ErrorStrategy ----------------------------
(***************************************************************************)
(* The error strategies of src/ld_eventsource/config/error_strategy.py.    *)
(* A strategy object is immutable: a record of its kind, its limit, and    *)
(* what apply() passes on to the next one, which is the number of retries  *)
(* of _MaxAttemptsErrorStrategy and the start time (0 for not started) of  *)
(* _TimeLimitErrorStrategy.                                                *)
(***************************************************************************)
EXTENDS Integers

AlwaysFail == [kind |-> "fail", limit |-> 0, state |-> 0]
AlwaysContinue == [kind |-> "continue", limit |-> 0, state |-> 0]
MaxAttempts(n) == [kind |-> "attempts", limit |-> n, state |-> 0]
TimeLimit(t) == [kind |-> "time", limit |-> t, state |-> 0]

(* Does strategy s answer FAIL at time now? *)
Fails(s, now) ==
  \/ s.kind = "fail"
  \/ s.kind = "attempts" /\ s.state >= s.limit
  \/ s.kind = "time" /\ s.state # 0 /\ now - s.state >= s.limit

(* The strategy apply() returns beside its answer. *)
After(s, now) ==
  IF s.kind = "attempts" /\ ~Fails(s, now) THEN [s EXCEPT !.state = @ + 1]
  ELSE IF s.kind = "time" /\ s.state = 0 THEN [s EXCEPT !.state = now]
  ELSE s
================================================================================
