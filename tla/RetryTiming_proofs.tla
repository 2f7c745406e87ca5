--------------------------- MODULE RetryTiming_proofs ---------------------------
(***************************************************************************)
(* Theorems about RetryTiming, for all delays, multipliers, jitters and    *)
(* thresholds, all error strategies, and any number of ticks and attempts. *)
(***************************************************************************)
EXTENDS RetryTiming, NaturalRecursion

USE DEF FailureTime, StrategyOnStart, ComputeNextRetryDelay, AskErrorStrategy, GoDown

--------------------------------------------------------------------------------
(* When things happened: only what the proofs need of their types. *)

TimeInv ==
  /\ now \in Nat \ {0} /\ nextDelay \in Int /\ downAt \in Nat /\ downAt <= now
  /\ baseline \in Nat /\ upAt \in Nat /\ upAt <= baseline /\ baseline <= now
  /\ upAt = 0 => baseline = 0
  /\ st = "up" => upAt # 0 /\ baseline = upAt

LEMMA TimeInit == Init => TimeInv
  BY DEF Init, TimeInv

LEMMA TimeNext == TimeInv /\ [Next]_vars => TimeInv'
<1> SUFFICES ASSUME TimeInv, [Next]_vars PROVE TimeInv'
  OBVIOUS
<1> USE DEF TimeInv
<1>1. CASE TryStart \/ Wake
  BY <1>1 DEF TryStart, Wake, delayVars
<1>2. CASE ConnectFails \/ StreamEnds \/ Interrupt \/ InterruptNoticed
  BY <1>2 DEF ConnectFails, StreamEnds, Interrupt, InterruptNoticed, Adjusted,
              PastThreshold
<1>3. CASE ConnectSucceeds
  BY <1>3 DEF ConnectSucceeds
<1>4. CASE Tick \/ UNCHANGED vars
  BY <1>4 DEF Tick, vars, delayVars
<1> QED
  BY <1>1, <1>2, <1>3, <1>4 DEF Next

--------------------------------------------------------------------------------
(* Retries of failed connects.  A client that went down because a connect  *)
(* failed sleeps and then connects no sooner than its delay after that.    *)

SpacedInv ==
  /\ st = "cut" => downBy = "stream"
  /\ downBy = "connect" =>
       /\ disconnectedTime = downAt /\ downAt # 0
       /\ st = "sleeping" => wake - downAt >= nextDelay /\ wake \in Int
       /\ st = "connecting" => now - downAt >= nextDelay

LEMMA SpacedNext == TimeInv /\ SpacedInv /\ [Next]_vars => SpacedInv'
<1> SUFFICES ASSUME TimeInv, SpacedInv, [Next]_vars PROVE SpacedInv'
  OBVIOUS
<1> USE DEF TimeInv, SpacedInv
<1>1. CASE TryStart
  BY <1>1 DEF TryStart, SleepTime, delayVars
<1>2. CASE Wake \/ Tick \/ UNCHANGED vars
  BY <1>2 DEF Wake, Tick, vars, delayVars
<1>3. CASE ConnectFails \/ ConnectSucceeds
  BY <1>3 DEF ConnectFails, ConnectSucceeds
<1>4. CASE StreamEnds \/ Interrupt \/ InterruptNoticed
  BY <1>4 DEF StreamEnds, Interrupt, InterruptNoticed
<1> QED
  BY <1>1, <1>2, <1>3, <1>4 DEF Next

(* After a failed connect, the next attempt is at least the retry delay    *)
(* later, whenever the application asks for it (sse_client.py:292-301).    *)
THEOREM RetriesAreSpaced == Spec => FailedConnectsAreSpaced
<1>1. Init => SpacedInv
  BY DEF Init, SpacedInv
<1>2. TimeInv /\ SpacedInv /\ [Next]_vars =>
        [st' = "connecting" /\ downBy = "connect" => now - downAt >= nextDelay]_vars
  <2> SUFFICES ASSUME TimeInv, SpacedInv, [Next]_vars,
                      st' = "connecting", downBy = "connect", ~UNCHANGED vars
               PROVE  now - downAt >= nextDelay
    OBVIOUS
  <2>1. TryStart \/ Wake \/ Tick
    BY DEF Next, ConnectFails, ConnectSucceeds, StreamEnds, Interrupt, InterruptNoticed
  <2> QED
    BY <2>1 DEF TryStart, Wake, Tick, SleepTime, TimeInv, SpacedInv
<1> QED
  BY <1>1, <1>2, TimeInit, TimeNext, SpacedNext, PTL DEF Spec, FailedConnectsAreSpaced

CountInv == applied \in Nat

LEMMA CountNext == CountInv /\ [Next]_vars => CountInv'
  BY DEF CountInv, Next, TryStart, Wake, ConnectFails, ConnectSucceeds, StreamEnds,
         Interrupt, InterruptNoticed, Tick, delayVars, vars

(* The delays start over no sooner than the threshold after the last       *)
(* connection was made, and never before the first (sse_client.py:273-281).*)
THEOREM NoResetTooEarly == Spec => NoEarlyReset
<1>1. Init => CountInv
  BY DEF Init, CountInv
<1>2. TimeInv /\ CountInv /\ [Next]_vars =>
        [applied' < applied => upAt # 0 /\ now - upAt >= Threshold]_vars
  <2>1. ASSUME CountInv, Next, applied' < applied PROVE PastThreshold
    BY <2>1 DEF CountInv, Next, TryStart, Wake, ConnectFails, ConnectSucceeds, StreamEnds,
                Interrupt, InterruptNoticed, Tick, delayVars
  <2>2. TimeInv /\ PastThreshold => upAt # 0 /\ now - upAt >= Threshold
    BY ThresholdIsNatural DEF TimeInv, PastThreshold, ThresholdIsNatural
  <2> QED
    BY <2>1, <2>2
<1> QED
  BY <1>1, <1>2, TimeInit, TimeNext, CountNext, PTL DEF Spec, NoEarlyReset

(* A connection that was up for the threshold starts the delays over when  *)
(* it ends, however it ends (sse_client.py:88-89 and 278-283).             *)
THEOREM LongConnectionResets == Spec => LongConnectionResetsDelay
<1>1. TimeInv /\ [Next]_vars =>
        [st = "up" /\ st' = "down" /\ Threshold > 0 /\ now - upAt >= Threshold
           => lastBase' = NextBase(Fresh)]_vars
  BY DEF TimeInv, Next, TryStart, Wake, ConnectFails, ConnectSucceeds, StreamEnds,
         Interrupt, InterruptNoticed, Tick, PastThreshold
<1> QED
  BY <1>1, TimeInit, TimeNext, PTL DEF Spec, LongConnectionResetsDelay

--------------------------------------------------------------------------------
(* The error strategy.  The strategy object that is passed on counts what  *)
(* the history counts, and a connection starts both over.                  *)

StrategyInv ==
  /\ baseStrategy \in Strategies /\ retries \in Nat /\ failingSince \in Nat
  /\ strategy \in [kind : {baseStrategy.kind}, limit : {baseStrategy.limit}, state : Nat]
  /\ baseStrategy.kind = "attempts" =>
       strategy.state = retries /\ retries <= baseStrategy.limit
  /\ baseStrategy.kind = "time" => strategy.state = failingSince
  /\ st = "up" => verdict = "none"

LEMMA Asked ==
  ASSUME TimeInv, StrategyInv, AskErrorStrategy, baseStrategy' = baseStrategy, st' # "up"
  PROVE  StrategyInv' /\ (verdict' = "fail" <=> Exhausted)
<1>1. baseStrategy.limit \in Nat
      /\ baseStrategy.kind \in {"fail", "continue", "attempts", "time"}
  BY StrategiesAreNew DEF StrategiesAreNew, StrategyInv
<1>2. now \in Nat
  BY DEF TimeInv
<1>3. StrategyInv'
  BY <1>1, <1>2 DEF StrategyInv, Fails, After
<1>4. verdict' = "fail" <=> Exhausted
  <2>1. verdict' = "fail" <=> Fails(strategy, now)
    OBVIOUS
  <2>2. strategy.kind = baseStrategy.kind /\ strategy.limit = baseStrategy.limit
    BY DEF StrategyInv
  <2>3. CASE baseStrategy.kind = "fail"
    BY <2>1, <2>2, <2>3 DEF Fails, Exhausted
  <2>4. CASE baseStrategy.kind = "continue"
    BY <2>1, <2>2, <2>4 DEF Fails, Exhausted
  <2>5. CASE baseStrategy.kind = "attempts"
    BY <1>1, <2>1, <2>2, <2>5 DEF StrategyInv, Fails, Exhausted
  <2>6. CASE baseStrategy.kind = "time"
    BY <1>1, <1>2, <2>1, <2>2, <2>6 DEF StrategyInv, Fails, Exhausted
  <2> QED
    BY <1>1, <2>3, <2>4, <2>5, <2>6
<1> QED
  BY <1>3, <1>4

LEMMA StrategyInit == Init => StrategyInv
  BY StrategiesAreNew DEF StrategiesAreNew, Init, StrategyInv

LEMMA StrategyNext == TimeInv /\ StrategyInv /\ [Next]_vars => StrategyInv'
<1> SUFFICES ASSUME TimeInv, StrategyInv, [Next]_vars PROVE StrategyInv'
  OBVIOUS
<1>1. CASE ConnectFails \/ StreamEnds \/ InterruptNoticed
  BY <1>1, Asked DEF ConnectFails, StreamEnds, InterruptNoticed
<1>2. CASE ConnectSucceeds
  BY <1>2, StrategiesAreNew DEF ConnectSucceeds, StrategiesAreNew, StrategyInv
<1>3. CASE TryStart \/ Wake \/ Interrupt \/ Tick \/ UNCHANGED vars
  BY <1>3 DEF TryStart, Wake, Interrupt, Tick, errorVars, vars, StrategyInv
<1> QED
  BY <1>1, <1>2, <1>3 DEF Next

(* The client gives up exactly when the limit of its error strategy,       *)
(* counted from the last connection, is used up (error_strategy.py:69-86,  *)
(* sse_client.py:309-320).                                                 *)
THEOREM StrategyIsObeyed == Spec => GivesUpAtLimit
<1>1. TimeInv /\ StrategyInv /\ [Next]_vars =>
        [st # "down" /\ st' = "down" /\ verdict' # "none"
           => (verdict' = "fail" <=> Exhausted)]_vars
  <2> SUFFICES ASSUME TimeInv, StrategyInv, Next,
                      st # "down", st' = "down", verdict' # "none"
               PROVE  verdict' = "fail" <=> Exhausted
    OBVIOUS
  <2>1. CASE ConnectFails \/ StreamEnds \/ InterruptNoticed
    BY <2>1, Asked DEF ConnectFails, StreamEnds, InterruptNoticed
  <2>2. CASE Interrupt
    BY <2>2 DEF Interrupt, errorVars, StrategyInv
  <2>3. CASE TryStart \/ Wake \/ ConnectSucceeds \/ Tick
    BY <2>3 DEF TryStart, Wake, ConnectSucceeds, Tick
  <2> QED
    BY <2>1, <2>2, <2>3 DEF Next
<1> QED
  BY <1>1, TimeInit, TimeNext, StrategyInit, StrategyNext, PTL DEF Spec, GivesUpAtLimit

--------------------------------------------------------------------------------
(* Backoff. *)

LEMMA PowerDef ==
  /\ Power \in [Nat -> Nat \ {0}]
  /\ Power[0] = 1
  /\ \A n \in Nat \ {0} : Power[n] = Multiplier * Power[n - 1]
<1> DEFINE S == Nat \ {0}
<1> DEFINE g == [p \in (Nat \ {0}) \X S |-> Multiplier * p[2]]
<1>1. 1 \in S /\ g \in [(Nat \ {0}) \X S -> S]
  BY MultiplierGrows DEF MultiplierGrows
<1>2. PICK f \in [Nat -> S] :
        f[0] = 1 /\ \A n \in Nat \ {0} : f[n] = g[<<n, f[n - 1]>>]
  <2> HIDE DEF S, g
  <2> QED
    BY <1>1, Recursion, SMTT(30)
<1>3. \A n \in Nat \ {0} : f[n] = Multiplier * f[n - 1]
  <2> SUFFICES ASSUME NEW n \in Nat \ {0} PROVE f[n] = Multiplier * f[n - 1]
    OBVIOUS
  <2>1. <<n, f[n - 1]>> \in (Nat \ {0}) \X S
    OBVIOUS
  <2> QED
    BY <1>2, <2>1
<1>4. f = [n \in Nat |-> IF n = 0 THEN 1 ELSE Multiplier * f[n - 1]]
  BY <1>2, <1>3
<1>5. Power = [n \in Nat |-> IF n = 0 THEN 1 ELSE Multiplier * Power[n - 1]]
  BY <1>4 DEF Power
<1>6. \A n \in Nat : Power[n] = f[n]
  <2> DEFINE Same == {n \in Nat : Power[n] = f[n]}
  <2>1. 0 \in Same
    BY <1>2, <1>5
  <2>2. ASSUME NEW n \in Nat, n \in Same PROVE n + 1 \in Same
    <3>1. Power[n + 1] = Multiplier * Power[(n + 1) - 1]
      BY <1>5
    <3>2. f[n + 1] = Multiplier * f[(n + 1) - 1]
      BY <1>3
    <3> QED
      BY <2>2, <3>1, <3>2
  <2> HIDE DEF Same
  <2>3. \A n \in Nat : n \in Same
    BY <2>1, <2>2, Induction
  <2> QED
    BY <2>3 DEF Same
<1>7. Power = f
  BY <1>5, <1>6
<1> QED
  BY <1>2, <1>3, <1>7

LEMMA PowerGrows ==
  ASSUME NEW m \in Nat, NEW n \in Nat, m <= n
  PROVE  Power[m] <= Power[n]
<1> DEFINE D == {k \in Nat : m <= k => Power[m] <= Power[k]}
<1>1. 0 \in D
  BY PowerDef
<1>2. ASSUME NEW k \in Nat, k \in D PROVE k + 1 \in D
  <2>1. Power[k + 1] = Multiplier * Power[(k + 1) - 1]
    BY PowerDef
  <2>2. Power[k] \in Nat \ {0} /\ Power[k + 1] \in Nat \ {0} /\ (k + 1) - 1 = k
    BY PowerDef
  <2>3. Power[k] <= Power[k + 1]
    BY <2>1, <2>2, MultiplierGrows DEF MultiplierGrows
  <2>4. m = k + 1 \/ (m <= k => Power[m] <= Power[k])
    BY <1>2
  <2> QED
    BY <2>2, <2>3, <2>4, PowerDef
<1> HIDE DEF D
<1>3. \A k \in Nat : k \in D
  BY <1>1, <1>2, Induction
<1> QED
  BY <1>3 DEF D

(* The base delay after n of them, with the cap. *)
LEMMA BackoffStep ==
  ASSUME NEW n \in Nat
  PROVE  /\ BaseDelay * Power[n] \in Nat
         /\ NextBase(Fresh) = Capped(BaseDelay * Power[0])
         /\ NextBase(Capped(BaseDelay * Power[n])) = Capped(BaseDelay * Power[n + 1])
<1> DEFINE b == BaseDelay * Power[n]
<1>1. BaseDelay \in Nat /\ MaxDelay \in Nat /\ Multiplier \in Nat \ {0} /\ b \in Nat
  BY PowerDef, DelaysAreNaturals, MultiplierGrows DEF DelaysAreNaturals, MultiplierGrows
<1>2. BaseDelay * Power[n + 1] = b * Multiplier
  <2>1. Power[n + 1] = Multiplier * Power[(n + 1) - 1] /\ Power[n] \in Nat
    BY PowerDef
  <2> QED
    BY <1>1, <2>1
<1>3. NextBase(Fresh) = Capped(BaseDelay * Power[0])
  BY <1>1, PowerDef DEF NextBase, Fresh
<1>4. NextBase(Capped(b)) = Capped(b * Multiplier)
  <2>1. CASE b = 0
    <3>1. \A x \in Nat, y \in Nat \ {0} : x * y = 0 => x = 0
      OBVIOUS
    <3>2. BaseDelay = 0
      BY <1>1, <2>1, <3>1, PowerDef
    <3> QED
      BY <1>1, <2>1, <3>2 DEF NextBase, Capped
  <2>2. CASE b # 0 /\ ~(MaxDelay > 0 /\ b > MaxDelay)
    BY <1>1, <2>2 DEF NextBase, Capped
  <2>3. CASE b # 0 /\ MaxDelay > 0 /\ b > MaxDelay
    <3>1. b * Multiplier >= b /\ MaxDelay * Multiplier >= MaxDelay
      BY <1>1, <2>3
    <3>2. MaxDelay * Multiplier \in Nat /\ b * Multiplier \in Nat
      BY <1>1
    <3> HIDE DEF b
    <3> QED
      BY <1>1, <2>3, <3>1, <3>2 DEF NextBase, Capped
  <2> QED
    BY <2>1, <2>2, <2>3
<1> QED
  BY <1>1, <1>2, <1>3, <1>4

(* A reset or the next delay, from any state the delays may be in. *)
BackoffInv ==
  /\ applied \in Nat /\ lastBase \in Nat /\ nextDelay \in 0..lastBase
  /\ lastBase = IF applied = 0 THEN 0 ELSE Capped(BaseDelay * Power[applied - 1])

LEMMA BackoffComputed ==
  ASSUME BackoffInv, ComputeNextRetryDelay
  PROVE  BackoffInv'
<1>1. \A b \in Nat : Capped(b) \in Nat
  BY DelaysAreNaturals DEF DelaysAreNaturals, Capped
<1>2. Power[0] = 1 /\ applied' \in Nat \ {0}
  BY PowerDef DEF BackoffInv
<1>3. lastBase' = Capped(BaseDelay * Power[applied' - 1])
  <2>1. CASE PastThreshold \/ applied = 0
    <3>1. lastBase' = NextBase(Fresh) /\ applied' = 1
      BY <2>1 DEF BackoffInv, Fresh
    <3> QED
      BY <3>1, BackoffStep
  <2>2. CASE ~PastThreshold /\ applied # 0
    <3>1. applied - 1 \in Nat /\ applied' = applied + 1
          /\ (applied - 1) + 1 = applied' - 1
      BY <2>2 DEF BackoffInv
    <3>2. lastBase' = NextBase(Capped(BaseDelay * Power[applied - 1]))
      BY <2>2 DEF BackoffInv
    <3> QED
      BY <3>1, <3>2, BackoffStep
  <2> QED
    BY <2>1, <2>2
<1>4. lastBase' \in Nat
  <2>1. applied' - 1 \in Nat
    BY <1>2
  <2> QED
    BY <1>1, <1>3, <2>1, BackoffStep
<1>5. nextDelay' \in 0..lastBase'
  BY DEF Adjusted
<1> QED
  BY <1>2, <1>3, <1>4, <1>5 DEF BackoffInv

LEMMA BackoffInit == Init => BackoffInv
  BY DEF Init, BackoffInv, Fresh

LEMMA BackoffNext == BackoffInv /\ [Next]_vars => BackoffInv'
<1> SUFFICES ASSUME BackoffInv, [Next]_vars PROVE BackoffInv'
  OBVIOUS
<1>1. CASE ComputeNextRetryDelay
  BY <1>1, BackoffComputed
<1>2. CASE UNCHANGED <<nextDelay, lastBase, applied>>
  BY <1>2 DEF BackoffInv
<1> QED
  BY <1>1, <1>2 DEF Next, TryStart, Wake, ConnectFails, ConnectSucceeds, StreamEnds,
                    Interrupt, InterruptNoticed, Tick, delayVars, vars

(* The delays grow by the multiplier from the first one to the cap, in     *)
(* whatever mix of failures, ends and interrupts they are computed         *)
(* (retry_delay_strategy.py:45-50).                                        *)
THEOREM DelaysBackOff == Spec => []BackoffIsExponential
<1>1. BackoffInv => BackoffIsExponential
  BY DEF BackoffInv, BackoffIsExponential, Capped
<1> QED
  BY <1>1, BackoffInit, BackoffNext, PTL DEF Spec

--------------------------------------------------------------------------------
(* Type correctness.  An attempt to connect is followed by at most two     *)
(* computed delays, one by interrupt() and one by the generator, and by at *)
(* most one answer of the error strategy; so their bounds follow from that *)
(* of the attempts.                                                        *)

BoundInv ==
  /\ tries \in 0..MaxTries
  /\ applied <= 2 * tries /\ retries <= tries
  /\ st \in {"sleeping", "connecting", "up"} => applied <= 2 * tries - 2 /\ retries < tries
  /\ st = "cut" => applied < 2 * tries /\ retries < tries

LEMMA BoundNext == BackoffInv /\ StrategyInv /\ BoundInv /\ [Next]_vars => BoundInv'
<1> SUFFICES ASSUME BackoffInv, StrategyInv, BoundInv, [Next]_vars PROVE BoundInv'
  OBVIOUS
<1> USE ClockIsBounded DEF ClockIsBounded, BackoffInv, StrategyInv, BoundInv
<1>1. CASE TryStart
  BY <1>1 DEF TryStart, delayVars, errorVars
<1>2. CASE Wake \/ Tick \/ UNCHANGED vars
  BY <1>2 DEF Wake, Tick, delayVars, errorVars, vars
<1>3. CASE ConnectFails \/ StreamEnds \/ InterruptNoticed
  <2>1. applied' <= applied + 1 /\ retries' <= retries + 1 /\ tries' = tries /\ st' = "down"
    BY <1>3 DEF ConnectFails, StreamEnds, InterruptNoticed
  <2>2. applied' \in Nat /\ retries' \in Nat
    BY <1>3 DEF ConnectFails, StreamEnds, InterruptNoticed
  <2>3. st \in {"connecting", "up", "cut"}
    BY <1>3 DEF ConnectFails, StreamEnds, InterruptNoticed
  <2> QED
    BY <2>1, <2>2, <2>3
<1>4. CASE ConnectSucceeds
  BY <1>4 DEF ConnectSucceeds
<1>5. CASE Interrupt
  BY <1>5 DEF Interrupt, errorVars
<1> QED
  BY <1>1, <1>2, <1>3, <1>4, <1>5 DEF Next

LEMMA DelayBounds ==
  ASSUME BackoffInv, BoundInv
  PROVE  /\ LargestBackoff \in Nat /\ nextDelay \in Delays /\ lastBase \in Delays
         /\ nextDelay <= LargestBackoff
<1> USE ClockIsBounded, DelaysAreNaturals DEF ClockIsBounded, DelaysAreNaturals
<1>1. LargestBackoff \in Nat
  BY PowerDef DEF LargestBackoff
<1>2. lastBase <= LargestBackoff /\ (MaxDelay > 0 => lastBase <= MaxDelay)
  <2>1. CASE applied = 0
    BY <1>1, <2>1 DEF BackoffInv
  <2>2. CASE applied # 0
    <3>1. applied - 1 \in Nat /\ 2 * MaxTries \in Nat /\ applied - 1 <= 2 * MaxTries
      BY <2>2 DEF BackoffInv, BoundInv
    <3>2. Power[applied - 1] <= Power[2 * MaxTries]
      BY <3>1, PowerGrows
    <3>3. \A b, x, y \in Nat : x <= y => b * x <= b * y
      OBVIOUS
    <3>4. BaseDelay * Power[applied - 1] <= LargestBackoff
          /\ BaseDelay * Power[applied - 1] \in Nat
      <4>1. Power[applied - 1] \in Nat /\ Power[2 * MaxTries] \in Nat
        BY <3>1, PowerDef
      <4> QED
        BY <3>2, <3>3, <4>1 DEF LargestBackoff
    <3> QED
      BY <1>1, <2>2, <3>4 DEF BackoffInv, Capped
  <2> QED
    BY <2>1, <2>2
<1> QED
  BY <1>1, <1>2 DEF BackoffInv, Delays

(* What of TypeOK the invariants above do not say. *)
ClockInv ==
  /\ now <= MaxNow
  /\ st \in {"down", "sleeping", "connecting", "up", "cut"}
  /\ wake \in 0..(MaxNow + LargestBackoff)
  /\ disconnectedTime \in 0..now /\ failingSince <= now
  /\ downBy \in {"none", "connect", "stream"}
  /\ verdict \in {"none", "fail", "continue"}

TypeInv == TimeInv /\ StrategyInv /\ BackoffInv /\ BoundInv /\ ClockInv

LEMMA TypeInit == Init => TypeInv
<1> SUFFICES ASSUME Init PROVE TypeInv
  OBVIOUS
<1>1. TimeInv /\ StrategyInv /\ BackoffInv
  BY TimeInit, StrategyInit, BackoffInit
<1>2. BoundInv
  BY ClockIsBounded DEF ClockIsBounded, Init, BoundInv
<1>3. ClockInv
  BY <1>1, <1>2, DelayBounds, ClockIsBounded DEF ClockIsBounded, Init, ClockInv
<1> QED
  BY <1>1, <1>2, <1>3 DEF TypeInv

LEMMA TypeNext == TypeInv /\ [Next]_vars => TypeInv'
<1> SUFFICES ASSUME TypeInv, [Next]_vars PROVE TypeInv'
  OBVIOUS
<1>1. (TimeInv /\ StrategyInv /\ BackoffInv /\ BoundInv)'
  BY TimeNext, StrategyNext, BackoffNext, BoundNext DEF TypeInv
<1>2. LargestBackoff \in Nat /\ nextDelay <= LargestBackoff
  BY DelayBounds DEF TypeInv
<1>3. ClockInv'
  <2> USE <1>2, ClockIsBounded
      DEF ClockIsBounded, TypeInv, TimeInv, StrategyInv, BackoffInv, ClockInv
  <2>1. CASE TryStart
    BY <2>1 DEF TryStart, SleepTime, delayVars, errorVars
  <2>2. CASE Wake \/ Tick \/ UNCHANGED vars
    BY <2>2 DEF Wake, Tick, delayVars, errorVars, vars
  <2>3. CASE ConnectFails \/ StreamEnds \/ InterruptNoticed
    BY <2>3 DEF ConnectFails, StreamEnds, InterruptNoticed
  <2>4. CASE ConnectSucceeds \/ Interrupt
    BY <2>4 DEF ConnectSucceeds, Interrupt, errorVars
  <2> QED
    BY <2>1, <2>2, <2>3, <2>4 DEF Next
<1> QED
  BY <1>1, <1>3 DEF TypeInv

(* Type correctness, with the bounds on the delays, on the time a sleep    *)
(* ends and on the counters that follow from that on the attempts.         *)
THEOREM TypeCorrect == Spec => []TypeOK
<1>1. TypeInv => TypeOK
  <2> SUFFICES ASSUME TypeInv PROVE TypeOK
    OBVIOUS
  <2>1. nextDelay \in Delays /\ lastBase \in Delays
    BY DelayBounds DEF TypeInv
  <2> QED
    BY <2>1, ClockIsBounded
    DEF ClockIsBounded, TypeInv, TimeInv, StrategyInv, BackoffInv, BoundInv, ClockInv,
        TypeOK, Time
<1> QED
  BY <1>1, TypeInit, TypeNext, PTL DEF Spec
================================================================================
