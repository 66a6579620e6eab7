------------------------------- MODULE RateLimit -------------------------------
(***************************************************************************)
(* Requests of one HyperliquidClient (client.py) paced by its TokenBucket  *)
(* (ratelimit.py).  Both live for one run_once; requests are synchronous.  *)
(*                                                                         *)
(* A tick of the clock is the time in which the bucket gains RefillRate    *)
(* tokens; a minute is Minute ticks.  A sleep ends at the first tick at    *)
(* which it may, or later.                                                 *)
(***************************************************************************)
EXTENDS Integers

CONSTANTS
  RefillRate,       \* tokens gained in a tick
  Minute,           \* ticks in a minute
  Capacity,         \* TokenBucket.capacity
  BaseInfoWeight,   \* BASE_INFO_WEIGHT
  ItemWeightBlock,  \* ITEM_WEIGHT_BLOCK
  MaxSlots,         \* minutes in the widest window that is asked for
  MaxRetries,       \* ingestion.max_retries
  MaxClock          \* bound: the clock stops here

ASSUME RateLimitAssumption ==
  /\ RefillRate \in Nat \ {0}
  /\ Minute \in Nat \ {0}
  /\ Capacity \in Nat \ {0}
  /\ BaseInfoWeight \in Nat \ {0}
  /\ ItemWeightBlock \in Nat \ {0}
  /\ MaxSlots \in Nat
  /\ MaxRetries \in Nat \ {0}
  /\ MaxClock \in Nat

VARIABLES
  clock,     \* time.monotonic()
  tokens,    \* _tokens
  refilled,  \* _last_refill_monotonic
  pc,        \* where the client is in _post_info_with_retry
  weight,    \* request_weight
  attempt,   \* attempts of the request so far
  wakeAt,    \* end of the sleep in wait_for
  mark,      \* history: start of the time observed
  carried,   \* history: weight reserved before the mark and not yet sent then
  reserved,  \* history: weight reserved since the mark
  arrived    \* history: weight that reached the exchange since the mark

bucketVars == <<tokens, refilled>>
requestVars == <<pc, weight, attempt, wakeAt>>
historyVars == <<mark, carried, reserved, arrived>>
vars == <<clock, bucketVars, requestVars, historyVars>>

NoMark == -1
Stages == {"idle", "asking", "asleep", "reserved", "sent", "backoff"}

\* _post_info_with_retry with the default weight, and candle_request_weight of a
\* window of 1 to MaxSlots minutes.
RequestWeights ==
  {BaseInfoWeight} \cup {BaseInfoWeight + slots \div ItemWeightBlock : slots \in 1 .. MaxSlots}

Smaller(a, b) == IF a <= b THEN a ELSE b

\* Variant: tokens pile up while nothing is requested.
LevelUncapped == tokens + RefillRate * (clock - refilled)

\* _refill
Level == Smaller(Capacity, tokens + RefillRate * (clock - refilled))

\* Variant: the pause is rounded down.
ShortPauses(missing) ==
  {pause \in 0 .. missing : /\ RefillRate * pause <= missing
                            /\ RefillRate * (pause + 1) > missing}

\* Ticks in which `missing' tokens are gained.
Pauses(missing) ==
  {pause \in 0 .. missing : /\ RefillRate * pause >= missing
                            /\ RefillRate * (pause - 1) < missing}

Init ==
  /\ clock = 0
  /\ tokens = Capacity
  /\ refilled = 0
  /\ pc = "idle"
  /\ weight = 0
  /\ attempt = 0
  /\ wakeAt = 0
  /\ mark = NoMark
  /\ carried = 0
  /\ reserved = 0
  /\ arrived = 0

-----------------------------------------------------------------------------

\* A new request starts with the full number of attempts.
Request(w) ==
  /\ pc = "idle"
  /\ pc' = "asking"
  /\ weight' = w
  /\ attempt' = 1
  /\ UNCHANGED <<clock, bucketVars, wakeAt, historyVars>>

\* The client is at the top of the loop of wait_for.
Asking == pc = "asking" \/ (pc = "asleep" /\ clock >= wakeAt)

Reserve ==
  /\ Asking
  /\ Level >= weight
  /\ tokens' = Level - weight
  /\ refilled' = clock
  /\ pc' = "reserved"
  /\ reserved' = IF mark = NoMark THEN 0 ELSE reserved + weight
  /\ UNCHANGED <<clock, weight, attempt, wakeAt, mark, carried, arrived>>

SleepForTokens ==
  /\ Asking
  /\ Level < weight
  /\ tokens' = Level
  /\ refilled' = clock
  /\ pc' = "asleep"
  /\ \E pause \in Pauses(weight - Level) : wakeAt' = clock + pause
  /\ UNCHANGED <<clock, weight, attempt, historyVars>>

\* The request reaches the exchange, at any time after it was reserved.
Arrive ==
  /\ pc = "reserved"
  /\ pc' = "sent"
  /\ arrived' = IF mark = NoMark THEN 0 ELSE arrived + weight
  /\ UNCHANGED <<clock, bucketVars, weight, attempt, wakeAt, mark, carried, reserved>>

\* A good answer, or one that is not a JSON document, which is not retried.
Answer ==
  /\ pc = "sent"
  /\ pc' = "idle"
  /\ UNCHANGED <<clock, bucketVars, weight, attempt, wakeAt, historyVars>>

\* A network error before or after the request arrived, or an error status.
FailAttempt ==
  /\ pc \in {"reserved", "sent"}
  /\ pc' = IF attempt < MaxRetries THEN "backoff" ELSE "idle"
  /\ UNCHANGED <<clock, bucketVars, weight, attempt, wakeAt, historyVars>>

\* Variant: only the first attempt of a request pays.
RetryUnpaid ==
  /\ pc = "backoff"
  /\ pc' = "reserved"
  /\ attempt' = attempt + 1
  /\ UNCHANGED <<clock, bucketVars, weight, wakeAt, historyVars>>

\* The backoff of tenacity is over; the next attempt pays again.
Retry ==
  /\ pc = "backoff"
  /\ pc' = "asking"
  /\ attempt' = attempt + 1
  /\ UNCHANGED <<clock, bucketVars, weight, wakeAt, historyVars>>

Tick ==
  /\ clock < MaxClock
  /\ clock' = clock + 1
  /\ UNCHANGED <<bucketVars, requestVars, historyVars>>

\* An observer starts to count, at any time.
Mark ==
  /\ mark = NoMark
  /\ mark' = clock
  /\ carried' = IF pc = "reserved" THEN weight ELSE 0
  /\ UNCHANGED <<clock, bucketVars, requestVars, reserved, arrived>>

Next ==
  \/ \E w \in RequestWeights : Request(w)
  \/ Reserve \/ SleepForTokens \/ Arrive \/ Answer \/ FailAttempt \/ Retry
  \/ Tick \/ Mark

Spec == Init /\ [][Next]_vars

-----------------------------------------------------------------------------

\* Types.  The bucket never holds more than its capacity, nor less than nothing.
TypeOK ==
  /\ clock \in 0 .. MaxClock
  /\ tokens \in 0 .. Capacity
  /\ refilled \in 0 .. clock
  /\ pc \in Stages
  /\ weight \in Nat
  /\ attempt \in 0 .. MaxRetries
  /\ wakeAt \in Nat
  /\ mark \in (0 .. clock) \cup {NoMark}
  /\ carried \in Nat
  /\ reserved \in Nat
  /\ arrived \in Nat

\* What the exchange sees in any stretch of time: at most a full bucket and what
\* the bucket gains meanwhile, besides the one request that was reserved before
\* and sent within.  Retries and slow requests do not add to that.
RequestsPaced ==
  mark # NoMark => arrived <= carried + Capacity + RefillRate * (clock - mark)

\* One sleep is enough: a client that wakes up finds its tokens, so no request
\* that fits the bucket waits for ever.
SleepSuffices ==
  pc = "asleep" /\ weight <= Capacity /\ clock >= wakeAt => Level >= weight

\* "Hyperliquid's per-IP REST ceiling is 1200 weight/min; this stays below it"
\* (config.toml:15), and "never burst above the configured weight/min"
\* (IMPLEMENTATION_PLAN.md:832): no minute sees more than a minute's budget.
NeverBursts ==
  mark # NoMark /\ clock - mark < Minute => reserved <= RefillRate * Minute
=============================================================================
