--------------------------- MODULE RetryDelayStrategy --------------------------
(***************************************************************************)
(* The default retry delay strategy of                                     *)
(* src/ld_eventsource/config/retry_delay_strategy.py: backoff, a cap, and  *)
(* jitter.  Delays are whole ticks.  A strategy object is immutable and    *)
(* differs from the one it came from only in last_base_delay, so that      *)
(* number stands for the object.                                           *)
(***************************************************************************)
EXTENDS Integers

CONSTANTS
  BaseDelay,   \* initial_retry_delay of the client
  MaxDelay,    \* max_delay, 0 for none
  Multiplier,  \* backoff_multiplier
  JitterNum,   \* jitter_multiplier as a fraction JitterNum / JitterDen
  JitterDen

ASSUME DelaysAreNaturals == BaseDelay \in Nat /\ MaxDelay \in Nat
ASSUME MultiplierGrows == Multiplier \in Nat \ {0}
ASSUME JitterIsRatio == JitterDen \in Nat \ {0} /\ JitterNum \in 0..JitterDen

(* The strategy a client starts from and resets to. *)
Fresh == 0

(* The cap is applied to what is remembered, not only to what is returned. *)
WrongCapped(b) == b                     \* no cap
Capped(b) == IF MaxDelay > 0 /\ b > MaxDelay THEN MaxDelay ELSE b

(* The base delay of the next retry, which the next strategy remembers. *)
WrongNextBase(last) ==                  \* the first delay multiplied already
  Capped((IF last = 0 THEN BaseDelay ELSE last) * Multiplier)
NextBase(last) == Capped(IF last = 0 THEN BaseDelay ELSE last * Multiplier)

(* backoff_multiplier to the power n. *)
Power[n \in Nat] == IF n = 0 THEN 1 ELSE Multiplier * Power[n - 1]

(* What the jitter may leave of a base delay: random() is in [0, 1). *)
Adjusted(b) ==
  {d \in 0..b : d = b \/ d * JitterDen > b * (JitterDen - JitterNum)}
================================================================================
