------------------------------- MODULE CandleFetch -------------------------------
(***************************************************************************)
(* One symbol's window, from its bounds in milliseconds to the revision of *)
(* each candle in the table: compute_initial_start_ms (ingestion/          *)
(* windows.py), candle_request_weight and fetch_candles (hyperliquid/      *)
(* client.py), fetch_candle_window (ingestion/fetch.py), and the version   *)
(* column of candles_1m (storage/schema.py).                               *)
(*                                                                         *)
(* Module Ingestion asks which candles the table holds; this one asks      *)
(* which revision of them, in what form the requests are, and what an      *)
(* endpoint that breaks its contract can do.  A candle is a revision       *)
(* number, 0 when there is none.  The exchange may revise a candle, and    *)
(* several writers fetch and insert it; the insert the server sees last    *)
(* wins, whatever the age of its values.                                   *)
(***************************************************************************)
EXTENDS Integers

CONSTANTS
  Writers,             \* processes that ingest the symbol
  Interval,            \* INTERVAL_MS
  MaxMs,               \* bound: the clock stops here
  MaxRevision,         \* bound: revisions of one candle
  RequestedStarts,     \* initial_backfill_start_time_utc, in ms, or None
  None,                \* no configured start, no watermark
  RestHorizonCandles,
  OverlapCandles

ASSUME CandleFetchAssumption ==
  /\ Interval \in Nat \ {0}
  /\ MaxMs \in Nat
  /\ MaxMs >= RestHorizonCandles * Interval
  /\ MaxRevision \in Nat \ {0}
  /\ RequestedStarts \subseteq Nat \cup {None}
  /\ RestHorizonCandles \in Nat \ {0}
  /\ OverlapCandles \in Nat \ {0}

VARIABLES
  clock,      \* ms
  revision,   \* revision[t]: what the exchange has for the candle that opens at t
  settled,    \* the endpoint answers, keeps its contract and revises no more
  requested,  \* the configured start
  shown,      \* shown[t]: what candles_1m FINAL shows at t
  pc,         \* where each writer is: "idle", "plan", "fetch" or "insert"
  watermark,  \* watermark_ms, the newest stored candle when the table was asked
  start,      \* effective_start_ms
  end,        \* end_ms
  cursor,     \* cursor_end_ms
  got,        \* got[w][t]: fetched_rows
  requests    \* history: requests sent for the window

sourceVars == <<clock, revision, settled, requested>>
writerVars == <<pc, watermark, start, end, cursor, got, requests>>
vars == <<sourceVars, shown, writerVars>>

Times == 0 .. MaxMs
Aligned(t) == t % Interval = 0
NoCandles == [t \in Times |-> 0]

TypeOK ==
  /\ clock \in Times
  /\ revision \in [Times -> 0 .. MaxRevision]
  /\ settled \in BOOLEAN
  /\ requested \in RequestedStarts
  /\ shown \in [Times -> 0 .. MaxRevision]
  /\ pc \in [Writers -> {"idle", "plan", "fetch", "insert"}]
  /\ watermark \in [Writers -> Times \cup {None}]
  /\ start \in [Writers -> Int]
  /\ {end, cursor} \subseteq [Writers -> Times]
  /\ got \in [Writers -> [Times -> 0 .. MaxRevision]]
  /\ requests \in [Writers -> Nat]

Init ==
  /\ clock = RestHorizonCandles * Interval
  /\ \E traded \in SUBSET {t \in Times : Aligned(t) /\ t < clock} :
       revision = [t \in Times |-> IF t \in traded THEN 1 ELSE 0]
  /\ settled = FALSE
  /\ requested \in RequestedStarts
  /\ shown = NoCandles
  /\ pc = [w \in Writers |-> "idle"]
  /\ watermark = [w \in Writers |-> None]
  /\ start = [w \in Writers |-> 0]
  /\ end = [w \in Writers |-> 0]
  /\ cursor = [w \in Writers |-> 0]
  /\ got = [w \in Writers |-> NoCandles]
  /\ requests = [w \in Writers |-> 0]

-----------------------------------------------------------------------------
(* The exchange.                                                           *)

\* When a minute ends its candle appears, unless nothing was traded.
Tick ==
  /\ clock < MaxMs
  /\ clock' = clock + 1
  /\ \/ UNCHANGED revision
     \/ /\ Aligned(clock')
        /\ revision' = [revision EXCEPT ![clock' - Interval] = 1]
  /\ UNCHANGED <<settled, requested, shown, writerVars>>

Revise(t) ==
  /\ ~settled
  /\ revision[t] \in 1 .. MaxRevision - 1
  /\ revision' = [revision EXCEPT ![t] = @ + 1]
  /\ UNCHANGED <<clock, settled, requested, shown, writerVars>>

Settle ==
  /\ ~settled
  /\ settled' = TRUE
  /\ UNCHANGED <<clock, revision, requested, shown, writerVars>>

-----------------------------------------------------------------------------
(* The window.                                                             *)

Later(a, b) == IF a >= b THEN a ELSE b

LastClosed == (clock \div Interval) * Interval - Interval
HorizonFloor == LastClosed - (RestHorizonCandles - 1) * Interval

\* Variant: the configured start is not clamped to the horizon.
UnclampedStart == IF requested = None THEN HorizonFloor ELSE requested

\* The configured start need not be the open of a candle.
InitialStart == IF requested = None THEN HorizonFloor ELSE Later(requested, HorizonFloor)

Stored == {t \in Times : shown[t] > 0}

\* Variant: go on after the newest candle.
NoOverlapStart(newest) == Later(newest + Interval, HorizonFloor)

OverlapStart(newest) == Later(newest - OverlapCandles * Interval, HorizonFloor)

WindowStart(w) == IF watermark[w] = None THEN InitialStart ELSE OverlapStart(watermark[w])

Forget(w) ==
  /\ pc' = [pc EXCEPT ![w] = "idle"]
  /\ watermark' = [watermark EXCEPT ![w] = None]
  /\ start' = [start EXCEPT ![w] = 0]
  /\ end' = [end EXCEPT ![w] = 0]
  /\ cursor' = [cursor EXCEPT ![w] = 0]
  /\ got' = [got EXCEPT ![w] = NoCandles]
  /\ requests' = [requests EXCEPT ![w] = 0]

\* The cycle asks the table first and reads the clock after that; the other writers
\* may insert in between.
ReadWatermark(w) ==
  /\ pc[w] = "idle"
  /\ pc' = [pc EXCEPT ![w] = "plan"]
  /\ watermark' = [watermark EXCEPT ![w] =
                  IF Stored = {} THEN None ELSE CHOOSE t \in Stored : \A u \in Stored : u <= t]
  /\ UNCHANGED <<sourceVars, shown, start, end, cursor, got, requests>>

Plan(w) ==
  /\ pc[w] = "plan"
  /\ WindowStart(w) <= LastClosed
  /\ pc' = [pc EXCEPT ![w] = "fetch"]
  /\ watermark' = [watermark EXCEPT ![w] = None]
  /\ start' = [start EXCEPT ![w] = WindowStart(w)]
  /\ end' = [end EXCEPT ![w] = LastClosed]
  /\ cursor' = [cursor EXCEPT ![w] = LastClosed]
  /\ UNCHANGED <<sourceVars, shown, got, requests>>

\* The configured start lies ahead: the paging loop is not entered and nothing is
\* inserted.
PlanEmpty(w) ==
  /\ pc[w] = "plan"
  /\ WindowStart(w) > LastClosed
  /\ Forget(w)
  /\ UNCHANGED <<sourceVars, shown>>

-----------------------------------------------------------------------------
(* One request.                                                            *)

\* candle_request_weight refuses bounds that are no opens of candles.
WeightIsDefined(w) == Aligned(start[w]) /\ Aligned(cursor[w])

\* The candles the endpoint holds for the request, from `oldest' on: what does not
\* fit is cut at the old end.
Page(w, oldest) ==
  {t \in Times : revision[t] > 0 /\ oldest <= t /\ start[w] <= t /\ t <= cursor[w]}

\* An endpoint that breaks its contract: it ignores the bounds, or a row opens
\* between two minutes.  A candle it makes up inside the window cannot be told from a
\* real one and is left out.
WildPages == {{t} : t \in {u \in Times : Aligned(u) => revision[u] > 0}}

\* parse_candle: a row opens on the minute (its prices and counts are left out).
Parses(t) == Aligned(t)

\* Variant: rows are taken as they come.
AcceptAll(w, page) == TRUE

\* fetch_candles: every row parses and lies inside the request.
Valid(w, page) == \A t \in page : Parses(t) /\ start[w] <= t /\ t <= cursor[w]

\* Variant: the next page ends at the oldest row of this one.
AdvanceTo(w, oldest) ==
  IF oldest <= start[w]
  THEN pc' = [pc EXCEPT ![w] = "insert"] /\ UNCHANGED cursor
  ELSE cursor' = [cursor EXCEPT ![w] = oldest] /\ UNCHANGED pc

\* Variant: the oldest row is not compared with the start.
AdvancePast(w, oldest) ==
  IF oldest - Interval >= cursor[w]
  THEN pc' = [pc EXCEPT ![w] = "insert"] /\ UNCHANGED cursor
  ELSE cursor' = [cursor EXCEPT ![w] = oldest - Interval] /\ UNCHANGED pc

\* Paging ends at the start, or when the cursor has not moved back.
Advance(w, oldest) ==
  IF oldest <= start[w] \/ oldest - Interval >= cursor[w]
  THEN pc' = [pc EXCEPT ![w] = "insert"] /\ UNCHANGED cursor
  ELSE cursor' = [cursor EXCEPT ![w] = oldest - Interval] /\ UNCHANGED pc

\* A row of an open time that has no candle carries some value.
Value(t) == Later(revision[t], 1)

Receive(w, page) ==
  /\ page # {}
  /\ Valid(w, page)
  /\ got' = [got EXCEPT ![w] = [t \in Times |-> IF t \in page THEN Value(t) ELSE @[t]]]
  /\ requests' = [requests EXCEPT ![w] = @ + 1]
  /\ Advance(w, CHOOSE t \in page : \A u \in page : t <= u)
  /\ UNCHANGED <<sourceVars, shown, watermark, start, end>>

Request(w) ==
  /\ pc[w] = "fetch"
  /\ WeightIsDefined(w)
  /\ \/ \E oldest \in Times : Receive(w, Page(w, oldest))
     \/ ~settled /\ \E page \in WildPages : Receive(w, page)

\* An empty page: nothing older is left.  It is the answer to one more request.
FetchEnds(w) ==
  /\ pc[w] = "fetch"
  /\ WeightIsDefined(w)
  /\ Page(w, 0) = {}
  /\ pc' = [pc EXCEPT ![w] = "insert"]
  /\ requests' = [requests EXCEPT ![w] = @ + 1]
  /\ UNCHANGED <<sourceVars, shown, watermark, start, end, cursor, got>>

\* ValueError of the weight or of a page, or no answer: the window is given up.
FetchFails(w) ==
  /\ pc[w] = "fetch"
  /\ ~settled \/ ~WeightIsDefined(w)
  /\ Forget(w)
  /\ UNCHANGED <<sourceVars, shown>>

\* inserted_at is the server's clock at the insert, and FINAL shows the row with
\* the newest.
Insert(w) ==
  /\ pc[w] = "insert"
  /\ shown' = [t \in Times |-> IF got[w][t] > 0 THEN got[w][t] ELSE shown[t]]
  /\ Forget(w)
  /\ UNCHANGED sourceVars

InsertFails(w) ==
  /\ pc[w] = "insert"
  /\ ~settled
  /\ Forget(w)
  /\ UNCHANGED <<sourceVars, shown>>

-----------------------------------------------------------------------------

Work(w) ==
  \/ ReadWatermark(w) \/ Plan(w) \/ PlanEmpty(w)
  \/ Request(w) \/ FetchEnds(w) \/ FetchFails(w) \/ Insert(w)

Next ==
  \/ Tick \/ Settle \/ \E t \in Times : Revise(t)
  \/ \E w \in Writers : Work(w) \/ InsertFails(w)

\* Time passes, outages and revisions end, writers run their cycles.
Spec ==
  /\ Init
  /\ [][Next]_vars
  /\ WF_vars(Tick)
  /\ WF_vars(Settle)
  /\ \A w \in Writers : WF_vars(Work(w))

-----------------------------------------------------------------------------

\* Whatever the endpoint answers: a row on its way or in the table opens on the
\* minute and is closed, and a row on its way lies in the window that was asked for.
OnlyAskedCandles ==
  /\ \A t \in Times : shown[t] > 0 => Aligned(t) /\ t + Interval <= clock
  /\ \A w \in Writers, t \in Times :
       got[w][t] > 0 => Aligned(t) /\ start[w] <= t /\ t <= end[w] /\ t + Interval <= clock

\* Whatever the endpoint answers: a window costs at most one request for each of its
\* minutes, so paging ends and its weight is bounded.
RequestsBounded ==
  \A w \in Writers : requests[w] * Interval <= end[w] - start[w] + Interval

\* A candle the exchange still serves, at or after the configured start.
Wanted(t) ==
  /\ revision[t] > 0
  /\ HorizonFloor <= t
  /\ requested # None => requested <= t

\* A start that is no open of a candle fails every request of a new symbol
\* (client.py:39), but not for ever: when the horizon has moved past it, the symbol is
\* ingested.
NewSymbolIsStored ==
  (settled /\ clock = MaxMs /\ \E t \in Times : Wanted(t)) ~> Stored # {}

\* The rows a cycle fetches again: still served, and at most OverlapCandles older than
\* the newest row.
Overlapped(t) ==
  /\ HorizonFloor <= t
  /\ \E newest \in Stored :
       /\ \A u \in Stored : u <= newest
       /\ newest - OverlapCandles * Interval <= t
       /\ t <= LastClosed

\* An older answer can overwrite a newer one (schema.py:84), but not for good: once
\* the exchange revises no more, the overlap brings the table up to date.
EventuallyCurrent ==
  <>[](\A t \in Times : Overlapped(t) => shown[t] = revision[t])
=============================================================================
