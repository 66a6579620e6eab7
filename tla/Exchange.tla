-------------------------------- MODULE Exchange --------------------------------
(***************************************************************************)
(* The Hyperliquid side of the collector, as the code under src/ uses it:  *)
(* a clock, one candle per symbol and minute that becomes visible some     *)
(* time after its minute closes, a REST endpoint that exposes a sliding    *)
(* window of recent candles, and a list of active perpetuals.              *)
(*                                                                         *)
(* Time is counted in minutes: minute m is the open time of one candle     *)
(* divided by INTERVAL_MS.  While the clock shows `now', the candle that   *)
(* opened at `now' is still forming and every m < now is closed.           *)
(***************************************************************************)
EXTENDS Integers

CONSTANTS
  Symbols,        \* perpetuals the exchange may list
  MaxMinute,      \* bound: the clock stops here
  SourceHorizon,  \* how many closed candles the REST endpoint still exposes
  MaxLateness     \* bound: minutes after its close a candle may still appear

ASSUME ExchangeAssumption ==
  /\ MaxMinute \in Nat
  /\ SourceHorizon \in Nat
  /\ MaxLateness \in Nat

VARIABLES
  now,          \* the forming minute
  publishedAt,  \* publishedAt[s][m]: value of `now' when candle m of s appeared
  active,       \* symbols `meta' lists without isDelisted
  settled       \* TRUE once outages and listing changes are over

exchangeVars == <<now, publishedAt, active, settled>>

Minutes == 0 .. MaxMinute

\* Publication time of a candle that has not appeared (yet): after the end.
Never == MaxMinute + 1

ExchangeTypeOK ==
  /\ now \in Minutes
  /\ publishedAt \in [Symbols -> [Minutes -> 1 .. Never]]
  /\ active \subseteq Symbols
  /\ settled \in BOOLEAN

ExchangeInit ==
  /\ now = 0
  /\ publishedAt = [s \in Symbols |-> [m \in Minutes |-> Never]]
  /\ active \in SUBSET Symbols
  /\ settled = FALSE

Published(s) == {m \in Minutes : publishedAt[s][m] <= now}

\* What candleSnapshot can return for s: published candles and the one still
\* forming, none of them older than the REST horizon.
Exposed(s) == {m \in Published(s) \cup {now} : m >= now - SourceHorizon}

-----------------------------------------------------------------------------

Tick ==
  /\ now < MaxMinute
  /\ now' = now + 1
  /\ UNCHANGED <<publishedAt, active, settled>>

\* A closed candle appears: in the minute after its close when the source is
\* prompt, later when it is a late write, never when nothing was traded.
Publish(s, m) ==
  /\ publishedAt[s][m] = Never
  /\ m < now
  /\ now <= m + 1 + MaxLateness
  /\ publishedAt' = [publishedAt EXCEPT ![s][m] = now]
  /\ UNCHANGED <<now, active, settled>>

\* A coin is listed, delisted or listed again.
ChangeListing(s) ==
  /\ ~settled
  /\ active' = IF s \in active THEN active \ {s} ELSE active \cup {s}
  /\ UNCHANGED <<now, publishedAt, settled>>

\* From here on requests and statements succeed and the listing is stable.
Settle ==
  /\ ~settled
  /\ settled' = TRUE
  /\ UNCHANGED <<now, publishedAt, active>>

ExchangeNext ==
  \/ Tick
  \/ \E s \in Symbols, m \in Minutes : Publish(s, m)
  \/ \E s \in Symbols : ChangeListing(s)
  \/ Settle
=============================================================================
