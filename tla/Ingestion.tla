------------------------------- MODULE Ingestion -------------------------------
(***************************************************************************)
(* Ingestion cycles (app.py and the ingestion/, storage/ and hyperliquid/  *)
(* packages it calls) over the exchange of module Exchange and one         *)
(* ClickHouse table of candles.                                            *)
(*                                                                         *)
(* A collector is a process that runs cycles: the scheduler, or a          *)
(* `hyperliquid-candles-run-once' started by hand, cron or a timer beside  *)
(* it.  Nothing in the code keeps two of them apart, so any number may be  *)
(* in the middle of a cycle.  Each holds the cycle's local variables; they *)
(* are lost by a crash.  What survives is the table:                       *)
(*   stored[s]   open times of candles_1m FINAL for s                      *)
(*   inFlight    inserts the server may still complete                     *)
(*   lastRun     the newest row of ingestion_runs                          *)
(***************************************************************************)
EXTENDS Exchange, FiniteSets

CONSTANTS
  Collectors,          \* processes that run cycles on the same database
  SymbolsMode,         \* ingestion.symbols_mode: "all" or "allowlist"
  SymbolsAllowlist,    \* ingestion.symbols_allowlist, as a set
  RestHorizonCandles,  \* ingestion.rest_horizon_candles
  OverlapCandles,      \* ingestion.overlap_candles
  BatchInsertMaxRows,  \* ingestion.batch_insert_max_rows
  InitialStart,        \* initial_backfill_start_time_utc; 0 when it is unset
  MaxInFlight          \* bound: inserts given up by the client at one time

ASSUME IngestionAssumption ==
  /\ IsFiniteSet(Symbols)
  /\ SymbolsMode \in {"all", "allowlist"}
  /\ SymbolsAllowlist \subseteq Symbols
  /\ RestHorizonCandles \in Nat \ {0}
  /\ OverlapCandles \in Nat \ {0}
  /\ BatchInsertMaxRows \in Nat \ {0}
  /\ InitialStart \in Nat
  /\ MaxInFlight \in Nat

VARIABLES
  stored,    \* candles_1m
  inFlight,  \* inserts whose client has given up and the server has not
  lastRun,   \* newest row of ingestion_runs
  pc,        \* where each collector is in its cycle
  selected,  \* SymbolSelection.selected
  watermark, \* watermarks_ms as read by the cycle
  last,      \* last_closed_ms
  todo,      \* symbols of phases 1 and 2 not yet ingested
  gaps,      \* recoverable gaps of phase 3 not yet refetched
  seen,      \* history: candles_1m as the gap query of this cycle read it
  job,       \* window being fetched and stored
  cursor,    \* cursor_end_ms of fetch_candle_window
  rows,      \* candles fetched and not yet inserted
  failed     \* failed_symbols

tableVars == <<stored, inFlight, lastRun>>
planVars == <<selected, watermark, last, todo, gaps, seen>>
windowVars == <<job, cursor, rows>>
vars == <<exchangeVars, tableVars, pc, planVars, windowVars, failed>>

NoRows == [s \in Symbols |-> {}]
NoCandle == -1   \* watermark of a symbol without stored candles
NoRun == [status |-> "none", ok |-> 0, failed |-> 0, skipped |-> 0]
Stages == {"idle", "watermarks", "clock", "windows", "gaps", "fetch", "insert"}
Jobs == [sym : Symbols, start : Int, end : Int, phase : {"windows", "gaps"}]
NoJob == [sym |-> "none", start |-> 0, end |-> NoCandle, phase |-> "none"]
Gaps == [sym : Symbols, after : Minutes, before : Minutes]
RunRows == [status : {"none", "success", "partial", "failed"},
            ok : Nat, failed : Nat, skipped : Nat]

-----------------------------------------------------------------------------
(* Windows (ingestion/windows.py, ingestion/incremental.py), in minutes.   *)

Later(a, b) == IF a >= b THEN a ELSE b

\* Variant: the forming minute is taken for closed.
FormingMinute == now

LastClosed == now - 1

\* First of RestHorizonCandles candles that end with candle l.
HorizonFloor(l) == l - (RestHorizonCandles - 1)

\* Effective start of the initial backfill of a new symbol.
InitialWindowStart(l) == Later(InitialStart, HorizonFloor(l))

\* Variant: go on right after the watermark, without overlap.
NoOverlapStart(w, l) == Later(w + 1, HorizonFloor(l))

\* Start of the incremental window of a symbol whose newest candle is w.
OverlapStart(w, l) == Later(w - OverlapCandles, HorizonFloor(l))

IsNew(p, s) == watermark[p][s] = NoCandle

WindowStart(p, s) ==
  IF IsNew(p, s) THEN InitialWindowStart(last[p])
                 ELSE OverlapStart(watermark[p][s], last[p])

\* Variant: symbols without stored candles are not ingested.
StoredOnlyWindows(p, l) ==
  {s \in selected[p] : ~IsNew(p, s) /\ OverlapStart(watermark[p][s], l) <= l}

\* Symbols with a window in phases 1 and 2.
Windows(p, l) ==
  {s \in selected[p] : IsNew(p, s) \/ OverlapStart(watermark[p][s], l) <= l}

-----------------------------------------------------------------------------
(* Queries on the table.                                                   *)

\* max(open_time) of one symbol; a symbol without rows has no group.
IsWatermark(w, candles) ==
  IF candles = {} THEN w = NoCandle
                  ELSE w \in candles /\ \A k \in candles : k <= w

\* Variant: a gap of a single minute is overlooked.
WideGaps(floor) ==
  {g \in Gaps :
     LET recent == {m \in stored[g.sym] : m >= floor} IN
     /\ {g.after, g.before} \subseteq recent
     /\ g.before - g.after > 2
     /\ \A m \in recent : m <= g.after \/ g.before <= m}

\* recoverable_gaps_query: two consecutive rows at or after the floor with at
\* least one minute between them.  A row whose predecessor is before the floor
\* has no predecessor in the subquery.
RecoverableGaps(floor) ==
  {g \in Gaps :
     LET recent == {m \in stored[g.sym] : m >= floor} IN
     /\ {g.after, g.before} \subseteq recent
     /\ g.before - g.after > 1
     /\ \A m \in recent : m <= g.after \/ g.before <= m}

\* Variant: gaps of symbols that are not tracked are refetched too.
EveryGap(p) == RecoverableGaps(HorizonFloor(last[p]))

\* Gaps of the tracked symbols; the loop skips the others.
TrackedGaps(p) ==
  {g \in RecoverableGaps(HorizonFloor(last[p])) : g.sym \in selected[p]}

-----------------------------------------------------------------------------
(* Outcome of a cycle.                                                     *)

Selection(listed) ==
  IF SymbolsMode = "all" THEN listed ELSE SymbolsAllowlist \cap listed

\* SymbolSelection.unknown
Unknown(chosen) ==
  IF SymbolsMode = "all" THEN {} ELSE SymbolsAllowlist \ chosen

CycleStatus(ok, nFailed, nSkipped) ==
  IF ok = 0 THEN "failed"
  ELSE IF nFailed = 0 /\ nSkipped = 0 THEN "success"
  ELSE "partial"

Summary(p) ==
  LET nFailed  == Cardinality(failed[p])
      ok       == Cardinality(selected[p]) - nFailed
      nSkipped == Cardinality(Unknown(selected[p]))
  IN  [status |-> CycleStatus(ok, nFailed, nSkipped),
       ok |-> ok, failed |-> nFailed, skipped |-> nSkipped]

FailedRun == [status |-> "failed", ok |-> 0, failed |-> 0, skipped |-> 0]

\* Writing a metadata row is best effort: a failure to write it is only logged.
WriteRun(row) == lastRun' = row \/ (~settled /\ UNCHANGED lastRun)

-----------------------------------------------------------------------------

Init ==
  /\ ExchangeInit
  /\ stored = [s \in Symbols |-> {}]
  /\ inFlight = {}
  /\ lastRun = NoRun
  /\ pc = [p \in Collectors |-> "idle"]
  /\ selected = [p \in Collectors |-> {}]
  /\ watermark = [p \in Collectors |-> [s \in Symbols |-> NoCandle]]
  /\ last = [p \in Collectors |-> NoCandle]
  /\ todo = [p \in Collectors |-> {}]
  /\ gaps = [p \in Collectors |-> {}]
  /\ seen = [p \in Collectors |-> NoRows]
  /\ job = [p \in Collectors |-> NoJob]
  /\ cursor = [p \in Collectors |-> NoCandle]
  /\ rows = [p \in Collectors |-> {}]
  /\ failed = [p \in Collectors |-> {}]

-----------------------------------------------------------------------------
(* The cycle.                                                              *)

\* The cycle's local variables go out of scope.
Forget(p) ==
  /\ pc' = [pc EXCEPT ![p] = "idle"]
  /\ selected' = [selected EXCEPT ![p] = {}]
  /\ watermark' = [watermark EXCEPT ![p] = [s \in Symbols |-> NoCandle]]
  /\ last' = [last EXCEPT ![p] = NoCandle]
  /\ todo' = [todo EXCEPT ![p] = {}]
  /\ gaps' = [gaps EXCEPT ![p] = {}]
  /\ seen' = [seen EXCEPT ![p] = NoRows]
  /\ job' = [job EXCEPT ![p] = NoJob]
  /\ cursor' = [cursor EXCEPT ![p] = NoCandle]
  /\ rows' = [rows EXCEPT ![p] = {}]
  /\ failed' = [failed EXCEPT ![p] = {}]

\* fetch_meta and select_symbols
FetchMeta(p) ==
  /\ pc[p] = "idle"
  /\ pc' = [pc EXCEPT ![p] = "watermarks"]
  /\ selected' = [selected EXCEPT ![p] = Selection(active)]
  /\ UNCHANGED <<exchangeVars, tableVars, watermark, last, todo, gaps, seen,
                 windowVars, failed>>

\* query_watermarks_ms
ReadWatermarks(p) ==
  /\ pc[p] = "watermarks"
  /\ pc' = [pc EXCEPT ![p] = "clock"]
  /\ \E w \in [Symbols -> Minutes \cup {NoCandle}] :
       /\ \A s \in Symbols : IsWatermark(w[s], stored[s])
       /\ watermark' = [watermark EXCEPT ![p] = w]
  /\ UNCHANGED <<exchangeVars, tableVars, selected, last, todo, gaps, seen,
                 windowVars, failed>>

\* last_closed_open_ms and the windows of phases 1 and 2 that follow from it
ReadClock(p) ==
  /\ pc[p] = "clock"
  /\ pc' = [pc EXCEPT ![p] = "windows"]
  /\ last' = [last EXCEPT ![p] = LastClosed]
  /\ todo' = [todo EXCEPT ![p] = Windows(p, LastClosed)]
  /\ UNCHANGED <<exchangeVars, tableVars, selected, watermark, gaps, seen,
                 windowVars, failed>>

\* The meta request or the watermark query fails: the cycle writes a failed row
\* that counts no symbols and raises.
CycleFails(p) ==
  /\ pc[p] \in {"idle", "watermarks"}
  /\ ~settled
  /\ WriteRun(FailedRun)
  /\ Forget(p)
  /\ UNCHANGED <<exchangeVars, stored, inFlight>>

StartWindow(p, s, start, end, phase) ==
  /\ pc' = [pc EXCEPT ![p] = "fetch"]
  /\ job' = [job EXCEPT ![p] =
               [sym |-> s, start |-> start, end |-> end, phase |-> phase]]
  /\ cursor' = [cursor EXCEPT ![p] = end]
  /\ UNCHANGED <<exchangeVars, tableVars, selected, watermark, last, seen,
                 rows, failed>>

\* Phase 1 ingests the new symbols before phase 2 touches the stored ones.
BeginWindow(p, s) ==
  /\ pc[p] = "windows"
  /\ s \in todo[p]
  /\ IsNew(p, s) \/ \A t \in todo[p] : ~IsNew(p, t)
  /\ todo' = [todo EXCEPT ![p] = @ \ {s}]
  /\ UNCHANGED gaps
  /\ StartWindow(p, s, WindowStart(p, s), last[p], "windows")

\* The gap query of phase 3.
ScanGaps(p) ==
  /\ pc[p] = "windows"
  /\ todo[p] = {}
  /\ pc' = [pc EXCEPT ![p] = "gaps"]
  /\ gaps' = [gaps EXCEPT ![p] = TrackedGaps(p)]
  /\ seen' = [seen EXCEPT ![p] = stored]
  /\ UNCHANGED <<exchangeVars, tableVars, selected, watermark, last, todo,
                 windowVars, failed>>

\* The gap query fails; the cycle goes on without repairing gaps.
ScanGapsFails(p) ==
  /\ pc[p] = "windows"
  /\ todo[p] = {}
  /\ ~settled
  /\ pc' = [pc EXCEPT ![p] = "gaps"]
  /\ UNCHANGED <<exchangeVars, tableVars, planVars, windowVars, failed>>

BeginGap(p, g) ==
  /\ pc[p] = "gaps"
  /\ g \in gaps[p]
  /\ gaps' = [gaps EXCEPT ![p] = @ \ {g}]
  /\ UNCHANGED todo
  /\ StartWindow(p, g.sym, g.after, g.before, "gaps")

WriteSummary(p) ==
  /\ pc[p] = "gaps"
  /\ gaps[p] = {}
  /\ WriteRun(Summary(p))
  /\ Forget(p)
  /\ UNCHANGED <<exchangeVars, stored, inFlight>>

-----------------------------------------------------------------------------
(* One window: fetch_candle_window, then insert_candles.                   *)

\* Variant: the list of fetched rows is shared by all windows.
EndWindowKeepingRows(p) ==
  /\ pc' = [pc EXCEPT ![p] = job[p].phase]
  /\ job' = [job EXCEPT ![p] = NoJob]
  /\ cursor' = [cursor EXCEPT ![p] = NoCandle]
  /\ UNCHANGED rows

EndWindow(p) ==
  /\ pc' = [pc EXCEPT ![p] = job[p].phase]
  /\ job' = [job EXCEPT ![p] = NoJob]
  /\ cursor' = [cursor EXCEPT ![p] = NoCandle]
  /\ rows' = [rows EXCEPT ![p] = {}]

\* One candleSnapshot request.  The response is cut at its old end: it holds
\* every exposed candle of the window from some `oldest' on.  Paging goes on
\* before `oldest' until the start is reached.
FetchPage(p) ==
  LET available == {m \in Exposed(job[p].sym) : m >= job[p].start /\ m <= cursor[p]}
  IN  /\ pc[p] = "fetch"
      /\ cursor[p] >= job[p].start
      /\ \E oldest \in available :
           /\ rows' = [rows EXCEPT ![p] = @ \cup {m \in available : m >= oldest}]
           /\ IF oldest <= job[p].start
              THEN pc' = [pc EXCEPT ![p] = "insert"] /\ UNCHANGED cursor
              ELSE cursor' = [cursor EXCEPT ![p] = oldest - 1] /\ UNCHANGED pc
      /\ UNCHANGED <<exchangeVars, tableVars, planVars, job, failed>>

\* The window is empty or exhausted, or the page came back empty.
FetchEnds(p) ==
  /\ pc[p] = "fetch"
  /\ {m \in Exposed(job[p].sym) : m >= job[p].start /\ m <= cursor[p]} = {}
  /\ pc' = [pc EXCEPT ![p] = "insert"]
  /\ UNCHANGED <<exchangeVars, tableVars, planVars, windowVars, failed>>

\* Variant: a failure in the gap repair does not fail the symbol.
MarkWindowFailed(p) ==
  failed' = [failed EXCEPT ![p] = IF job[p].phase = "gaps" THEN @ ELSE @ \cup {job[p].sym}]

MarkFailed(p) == failed' = [failed EXCEPT ![p] = @ \cup {job[p].sym}]

\* Retries are exhausted, or a row does not validate: the pages already fetched
\* are dropped and the symbol is failed.
FetchFails(p) ==
  /\ pc[p] = "fetch"
  /\ cursor[p] >= job[p].start
  /\ ~settled
  /\ MarkFailed(p)
  /\ EndWindow(p)
  /\ UNCHANGED <<exchangeVars, tableVars, planVars>>

\* Variant: rows sorted newest first.
NewestChunks(p) ==
  {c \in {{m \in rows[p] : m >= oldest} : oldest \in rows[p]} :
     \/ Cardinality(c) = BatchInsertMaxRows
     \/ c = rows[p] /\ Cardinality(c) < BatchInsertMaxRows}

\* Rows are sorted by open time: a chunk is the oldest BatchInsertMaxRows rows.
Chunks(p) ==
  {c \in {{m \in rows[p] : m <= newest} : newest \in rows[p]} :
     \/ Cardinality(c) = BatchInsertMaxRows
     \/ c = rows[p] /\ Cardinality(c) < BatchInsertMaxRows}

Commit(s, candles) == stored' = [stored EXCEPT ![s] = @ \cup candles]

InsertChunk(p) ==
  /\ pc[p] = "insert"
  /\ \E chunk \in Chunks(p) :
       /\ Commit(job[p].sym, chunk)
       /\ rows' = [rows EXCEPT ![p] = @ \ chunk]
  /\ UNCHANGED <<exchangeVars, inFlight, lastRun, pc, planVars, job, cursor, failed>>

InsertEnds(p) ==
  /\ pc[p] = "insert"
  /\ rows[p] = {}
  /\ EndWindow(p)
  /\ UNCHANGED <<exchangeVars, tableVars, planVars, failed>>

\* The client gives up an insert: the server never got it, or still has it.
Abandon(p) ==
  \E chunk \in Chunks(p) :
    \/ UNCHANGED inFlight
    \/ /\ Cardinality(inFlight) < MaxInFlight
       /\ inFlight' = inFlight \cup {[sym |-> job[p].sym, candles |-> chunk]}

\* The insert raises: the rows that remain are dropped, the symbol is failed.
InsertFails(p) ==
  /\ pc[p] = "insert"
  /\ ~settled
  /\ Abandon(p)
  /\ MarkFailed(p)
  /\ EndWindow(p)
  /\ UNCHANGED <<exchangeVars, stored, lastRun, planVars>>

\* Inserts the server has: those in hand, and those given up.
Underway ==
  inFlight \cup UNION {{[sym |-> job[p].sym, candles |-> c] : c \in Chunks(p)} :
                        p \in {q \in Collectors : pc[q] = "insert"}}

\* A chunk over a change of month is two parts of the table, which the server adds
\* one after the other, the older one first.  A month may end at any minute.
StorePart(x) ==
  /\ \E newest \in x.candles :
       /\ \E m \in x.candles : m > newest
       /\ Commit(x.sym, {m \in x.candles : m <= newest})
  /\ UNCHANGED <<exchangeVars, inFlight, lastRun, pc, planVars, windowVars, failed>>

\* The server completes an abandoned insert.
CommitInFlight(x) ==
  /\ Commit(x.sym, x.candles)
  /\ inFlight' = inFlight \ {x}
  /\ UNCHANGED <<exchangeVars, lastRun, pc, planVars, windowVars, failed>>

\* The process is killed and started again.
Crash(p) ==
  /\ pc[p] # "idle"
  /\ ~settled
  /\ UNCHANGED inFlight \/ (pc[p] = "insert" /\ Abandon(p))
  /\ Forget(p)
  /\ UNCHANGED <<exchangeVars, stored, lastRun>>

-----------------------------------------------------------------------------

Progress(p) ==
  \/ FetchMeta(p) \/ ReadWatermarks(p) \/ ReadClock(p)
  \/ \E s \in Symbols : BeginWindow(p, s)
  \/ ScanGaps(p)
  \/ \E g \in Gaps : BeginGap(p, g)
  \/ FetchPage(p) \/ FetchEnds(p)
  \/ InsertChunk(p) \/ InsertEnds(p)
  \/ WriteSummary(p)

Failure(p) ==
  \/ CycleFails(p) \/ ScanGapsFails(p)
  \/ FetchFails(p) \/ InsertFails(p) \/ Crash(p)

Environment ==
  /\ ExchangeNext
  /\ UNCHANGED <<tableVars, pc, planVars, windowVars, failed>>

Next ==
  \/ \E p \in Collectors : Progress(p) \/ Failure(p)
  \/ \E x \in Underway : StorePart(x)
  \/ \E x \in inFlight : CommitInFlight(x)
  \/ Environment

Spec == Init /\ [][Next]_vars

\* The scheduler starts a cycle after every sleep, every request and statement
\* has a timeout, and a cycle has no loop without an end; outages do end.
Fairness ==
  /\ \A p \in Collectors : WF_vars(Progress(p))
  /\ WF_vars(Environment /\ Settle)

LiveSpec == Spec /\ Fairness

-----------------------------------------------------------------------------
(* Properties.                                                             *)

\* Types.  The counts of an ingestion_runs row are natural numbers: no symbol
\* fails that was not selected (symbols_ok is a difference, app.py).
TypeOK ==
  /\ ExchangeTypeOK
  /\ stored \in [Symbols -> SUBSET Minutes]
  /\ inFlight \subseteq [sym : Symbols, candles : SUBSET Minutes]
  /\ lastRun \in RunRows
  /\ pc \in [Collectors -> Stages]
  /\ selected \in [Collectors -> SUBSET Symbols]
  /\ watermark \in [Collectors -> [Symbols -> Minutes \cup {NoCandle}]]
  /\ last \in [Collectors -> Minutes \cup {NoCandle}]
  /\ todo \in [Collectors -> SUBSET Symbols]
  /\ gaps \in [Collectors -> SUBSET Gaps]
  /\ seen \in [Collectors -> [Symbols -> SUBSET Minutes]]
  /\ job \in [Collectors -> Jobs \cup {NoJob}]
  /\ cursor \in [Collectors -> Int]
  /\ rows \in [Collectors -> SUBSET Minutes]
  /\ failed \in [Collectors -> SUBSET Symbols]

\* Still served by the REST endpoint and still asked for by the collector.
InReach(m) == m >= now - SourceHorizon /\ m >= now - RestHorizonCandles

\* The candle was visible before the overlap window moved past it.
InOverlap(s, m) == publishedAt[s][m] <= m + 1 + OverlapCandles

\* A candle of the configured range, in reach and seen within the overlap, that
\* had appeared when the minute `upto' opened.
Due(s, m, upto) ==
  /\ InReach(m)
  /\ m >= InitialStart
  /\ InOverlap(s, m)
  /\ publishedAt[s][m] <= upto

\* The watermark never hides a candle: one that is due at a stored candle is
\* stored too.  So a crash, a failed request or insert, an insert completed late,
\* or another collector's cycle, any of them between two steps of a cycle, never
\* leaves a hole behind max(open_time), the only progress the code keeps.
HoleFree ==
  \A s \in Symbols, m \in Minutes :
    \A k \in stored[s] : Due(s, m, k) => m \in stored[s]

\* Only closed candles reach the table, although the endpoint also serves the
\* one that is still forming.
ClosedOnly ==
  \A s \in Symbols : stored[s] \subseteq Published(s)

\* A cycle about to write `success' has stored every candle of its symbols that
\* was visible before the minute the cycle took as its end, is still in reach, and
\* lies in the symbol's window or after some candle inside the horizon that the
\* gap query saw; whatever other collectors and late inserts added meanwhile.
SuccessIsComplete ==
  \A p \in Collectors :
    pc[p] = "gaps" /\ gaps[p] = {} /\ Summary(p).status = "success" =>
      \A s \in selected[p], m \in Minutes :
        /\ InReach(m)
        /\ publishedAt[s][m] <= last[p]
        /\ \/ m >= WindowStart(p, s)
           \/ \E a \in seen[p][s] : HorizonFloor(last[p]) <= a /\ a < m
        => m \in stored[s]

\* What the table owes the reader once outages are over: candles a cycle that
\* starts now can and should get.
Owed(s) ==
  {m \in Published(s) :
     /\ InReach(m)
     /\ s \in Selection(active)
     /\ \/ Due(s, m, now)
        \/ \E a \in stored[s] : InReach(a) /\ a < m}

\* When outages end, the table ends up complete: every candle owed is stored,
\* also the ones that appeared after the overlap had passed and are left to the
\* gap repair.
EventuallyComplete ==
  <>[](\A s \in Symbols : Owed(s) \subseteq stored[s])

\* The gap query's own words: it returns the "gaps whose missing candles are
\* still inside the REST horizon" (gaps.py:75).  A cycle that ends with `success'
\* after its gap query leaves no visible candle at or after the horizon floor
\* missing between two stored candles.
InsideHorizonIsRepaired ==
  \A p \in Collectors :
    pc[p] = "gaps" /\ gaps[p] = {} /\ Summary(p).status = "success" =>
      \A s \in selected[p], m \in Minutes :
        /\ InReach(m)
        /\ publishedAt[s][m] <= last[p]
        /\ \E a, b \in seen[p][s] : a < m /\ m < b
        => m \in stored[s]
=============================================================================
