------------------------------- MODULE RetryTiming -----------------------------
(***************************************************************************)
(* When the threaded client connects: the retry delay, its reset, and the  *)
(* error strategy, in _compute_next_retry_delay and _try_start of          *)
(* src/ld_eventsource/sse_client.py:272-322 and their callers.             *)
(*                                                                         *)
(* time.time() is the clock "now", in ticks from 1, which does not go      *)
(* back.  Code takes no time; sleeping, connecting, reading a stream and   *)
(* the application between two calls take any.  The application and the    *)
(* caller of interrupt() are one thread here: the interleavings of threads *)
(* are the subject of module SSEClient.                                    *)
(***************************************************************************)
EXTENDS RetryDelayStrategy, ErrorStrategy

CONSTANTS
  Threshold,   \* retry_delay_reset_threshold
  Strategies,  \* the error strategies a client may be made with
  MaxNow,      \* bound: the last tick
  MaxTries     \* bound: the number of attempts to connect

ASSUME ThresholdIsNatural == Threshold \in Nat
ASSUME StrategiesAreNew ==
  Strategies \subseteq [kind : {"fail", "continue", "attempts", "time"}, limit : Nat,
                        state : {0}]
ASSUME ClockIsBounded == MaxNow \in Nat \ {0} /\ MaxTries \in Nat

VARIABLES
  now,        \* the clock
  st,         \* what the client is doing
  wake,       \* when its sleep ends
  nextDelay,  \* __next_retry_delay
  lastBase,   \* __current_retry_delay_strategy
  baseline,   \* _retry_reset_baseline
  disconnectedTime,  \* __disconnected_time
  baseStrategy,      \* __base_error_strategy
  strategy,          \* __current_error_strategy
  tries,      \* attempts to connect so far
  upAt,       \* history: when the last connection was made, 0 for none
  downAt,     \* history: when the client last went down
  downBy,     \* history: and what made it
  applied,    \* history: delays computed since the last reset
  retries,    \* history: CONTINUE answers since the last connection
  failingSince,  \* history: the first answer since then, 0 for none
  verdict     \* history: the last answer

delayVars == <<nextDelay, lastBase, baseline, applied>>
errorVars == <<strategy, retries, failingSince, verdict>>
vars == <<now, st, wake, delayVars, disconnectedTime, baseStrategy, errorVars,
          tries, upAt, downAt, downBy>>

Time == 0..MaxNow
LargestBackoff == BaseDelay * Power[2 * MaxTries]
Delays == 0..(IF MaxDelay > 0 THEN MaxDelay
              ELSE LargestBackoff)

TypeOK ==
  /\ now \in Time \ {0}
  /\ st \in {"down", "sleeping", "connecting", "up", "cut"}
  /\ wake \in 0..(MaxNow + LargestBackoff)
  /\ nextDelay \in Delays /\ lastBase \in Delays
  /\ baseline \in Time /\ disconnectedTime \in Time
  /\ baseStrategy \in Strategies
  /\ strategy \in [kind : {baseStrategy.kind}, limit : {baseStrategy.limit},
                   state : Nat]
  /\ tries \in 0..MaxTries
  /\ upAt \in Time /\ downAt \in Time /\ downBy \in {"none", "connect", "stream"}
  /\ applied \in 0..(2 * MaxTries) /\ retries \in 0..MaxTries
  /\ failingSince \in Time /\ verdict \in {"none", "fail", "continue"}

Init ==
  /\ now = 1 /\ st = "down" /\ wake = 0
  /\ nextDelay = 0 /\ lastBase = Fresh /\ baseline = 0 /\ disconnectedTime = 0
  /\ baseStrategy \in Strategies /\ strategy = baseStrategy
  /\ tries = 0 /\ upAt = 0 /\ downAt = 0 /\ downBy = "none"
  /\ applied = 0 /\ retries = 0 /\ failingSince = 0 /\ verdict = "none"

--------------------------------------------------------------------------------
(* As in SSEClient, Wrong... stands for a mistake in the operator after it. *)

(* Has the connection, or the time since it was last counted, been long    *)
(* enough to start over with the delays?                                   *)
WrongPastThreshold ==                   \* before any connection too
  Threshold > 0 /\ now - baseline >= Threshold
WrongOverThreshold ==                   \* not at the threshold itself
  Threshold > 0 /\ baseline # 0 /\ now - baseline > Threshold
PastThreshold ==
  Threshold > 0 /\ baseline # 0 /\ now - baseline >= Threshold

(* _compute_next_retry_delay *)
ComputeNextRetryDelay ==
  /\ lastBase' = NextBase(IF PastThreshold THEN Fresh ELSE lastBase)
  /\ nextDelay' \in Adjusted(lastBase')
  /\ baseline' = IF PastThreshold THEN now ELSE baseline
  /\ applied' = IF PastThreshold THEN 1 ELSE applied + 1

(* The current error strategy is asked, and replaced. *)
AskErrorStrategy ==
  LET fails == Fails(strategy, now) IN
    /\ strategy' = After(strategy, now)
    /\ verdict' = IF fails THEN "fail" ELSE "continue"
    /\ retries' = IF fails THEN retries ELSE retries + 1
    /\ failingSince' = IF failingSince = 0 THEN now ELSE failingSince

GoDown(cause) == st' = "down" /\ downAt' = now /\ downBy' = cause

(* How long _try_start sleeps, lines 293-298. *)
SleepTime ==
  IF disconnectedTime = 0 THEN nextDelay
                          ELSE nextDelay - (now - disconnectedTime)

WrongFailureTime ==                     \* only the first failure is noted
  IF disconnectedTime = 0 THEN now ELSE disconnectedTime
FailureTime == now

WrongStrategyOnStart == strategy        \* line 320 dropped
StrategyOnStart == baseStrategy

--------------------------------------------------------------------------------
(* The application starts the client or reads on. *)
TryStart ==
  /\ st = "down"
  /\ tries < MaxTries
  /\ tries' = tries + 1
  /\ IF nextDelay > 0 /\ SleepTime > 0
     THEN st' = "sleeping" /\ wake' = now + SleepTime
     ELSE st' = "connecting" /\ UNCHANGED wake
  /\ UNCHANGED <<now, delayVars, disconnectedTime, baseStrategy, errorVars, upAt,
                 downAt, downBy>>

Wake ==
  /\ st = "sleeping" /\ now >= wake
  /\ st' = "connecting" /\ wake' = 0
  /\ UNCHANGED <<now, delayVars, disconnectedTime, baseStrategy, errorVars, tries,
                 upAt, downAt, downBy>>

(* After a CONTINUE, start() loops and the generator yields a Fault; after *)
(* a FAIL the application gets the exception.  Any may call again.         *)
ConnectFails ==
  /\ st = "connecting"
  /\ GoDown("connect")
  /\ disconnectedTime' = FailureTime
  /\ ComputeNextRetryDelay
  /\ AskErrorStrategy
  /\ UNCHANGED <<now, wake, baseStrategy, tries, upAt>>

ConnectSucceeds ==
  /\ st = "connecting"
  /\ st' = "up" /\ upAt' = now
  /\ baseline' = now
  /\ strategy' = StrategyOnStart
  /\ retries' = 0 /\ failingSince' = 0 /\ verdict' = "none"
  /\ UNCHANGED <<now, wake, nextDelay, lastBase, applied, disconnectedTime,
                 baseStrategy, tries, downAt, downBy>>

(* The stream ends or breaks, and the generator notices. *)
StreamEnds ==
  /\ st = "up"
  /\ GoDown("stream")
  /\ ComputeNextRetryDelay
  /\ AskErrorStrategy
  /\ UNCHANGED <<now, wake, disconnectedTime, baseStrategy, tries, upAt>>

(* interrupt() on a live stream.  The generator, if it has begun to read,  *)
(* has yet to notice; if it is at the Start, it will just start again.     *)
Interrupt ==
  /\ st = "up"
  /\ ComputeNextRetryDelay
  /\ downAt' = now /\ downBy' = "stream"
  /\ st' \in {"cut", "down"}
  /\ UNCHANGED <<now, wake, disconnectedTime, baseStrategy, errorVars, tries, upAt>>

InterruptNoticed ==
  /\ st = "cut"
  /\ st' = "down"
  /\ ComputeNextRetryDelay
  /\ AskErrorStrategy
  /\ UNCHANGED <<now, wake, disconnectedTime, baseStrategy, tries, upAt, downAt,
                 downBy>>

Tick ==
  /\ now < MaxNow
  /\ now' = now + 1
  /\ UNCHANGED <<st, wake, delayVars, disconnectedTime, baseStrategy, errorVars,
                 tries, upAt, downAt, downBy>>

Next ==
  \/ TryStart \/ Wake \/ ConnectFails \/ ConnectSucceeds
  \/ StreamEnds \/ Interrupt \/ InterruptNoticed \/ Tick

Spec == Init /\ [][Next]_vars

--------------------------------------------------------------------------------
(* The delays double (or as Multiplier says) from BaseDelay to the cap     *)
(* with every one computed since the last reset, whatever mix of failed    *)
(* connects, ended streams and interrupts asked for them                   *)
(* (retry_delay_strategy.py:45-50).                                        *)
BackoffIsExponential ==
  LET Backoff == BaseDelay * Power[applied - 1] IN
    applied > 0 => lastBase = IF MaxDelay > 0 /\ Backoff > MaxDelay THEN MaxDelay
                                                                   ELSE Backoff

(* After a failed connect, the next attempt is at least the retry delay    *)
(* later: the time the application spent in between counts, and only that  *)
(* (lines 292-301 and 307).                                                *)
FailedConnectsAreSpaced ==
  [][st' = "connecting" /\ downBy = "connect" => now - downAt >= nextDelay]_vars

(* A connection that stayed up to the threshold starts the delays over     *)
(* when it ends (lines 88-89 and 278-283).                                 *)
LongConnectionResetsDelay ==
  [][st = "up" /\ st' = "down" /\ Threshold > 0 /\ now - upAt >= Threshold
       => lastBase' = NextBase(Fresh)]_vars

(* The delays never start over before the first connection, however long   *)
(* that takes, nor sooner than the threshold after the last one was made   *)
(* (lines 273-281).                                                        *)
NoEarlyReset ==
  [][applied' < applied => upAt # 0 /\ now - upAt >= Threshold]_vars

(* Has the limit of the client's error strategy been used up since the     *)
(* last connection?                                                        *)
Exhausted ==
  CASE baseStrategy.kind = "fail" -> TRUE
    [] baseStrategy.kind = "continue" -> FALSE
    [] baseStrategy.kind = "attempts" -> retries = baseStrategy.limit
    [] baseStrategy.kind = "time" ->
         failingSince # 0 /\ now - failingSince >= baseStrategy.limit

(* The client gives up exactly when its error strategy's limit, counted    *)
(* from the last successful connection, is used up: it never fails early   *)
(* with what is left of an older streak, nor retries past the limit after  *)
(* it once failed (error_strategy.py:69-86, sse_client.py:309-320).        *)
GivesUpAtLimit ==
  [][st # "down" /\ st' = "down" /\ verdict' # "none"
       => (verdict' = "fail" <=> Exhausted)]_vars

--------------------------------------------------------------------------------
(* What the documentation says and the code does not do. *)

(* "If the stream was previously active and then failed, start() will      *)
(* sleep for some amount of time -- the retry delay -- before trying to    *)
(* make the connection" (sse_client.py:141-142).                           *)
DroppedStreamsAreSpaced ==
  [][st' = "connecting" /\ downBy = "stream" => now - downAt >= nextDelay]_vars

(* After interrupt(), "the behavior is exactly the same as if the previous *)
(* stream had been ended by the server" (sse_client.py:162-163): the delay *)
(* is advanced by one step.                                                *)
OneBackoffPerEnd ==
  [][st = "cut" /\ st' = "down" => applied' <= applied]_vars
================================================================================
