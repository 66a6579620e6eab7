------------------------------ MODULE CycleProofs ------------------------------
(***************************************************************************)
(* What a cycle says of itself is true, for every value of the constants:  *)
(* `success' means complete, every symbol is counted, and no candle is     *)
(* reported that is not in the table.                                      *)
(***************************************************************************)
EXTENDS CycleLedger, IngestionProofs, FiniteFacts

\* Visible before the minute the cycle took as its end, and still in reach.
Wanted(p, s, m) == InReach(m) /\ publishedAt[s][m] <= last[p]

WindowInHand(p, s) ==
  pc[p] \in {"fetch", "insert"} /\ job[p].phase = "windows" /\ job[p].sym = s

GapInHand(p, s) ==
  pc[p] \in {"fetch", "insert"} /\ job[p].phase = "gaps" /\ job[p].sym = s

AfterWindows(p) ==
  pc[p] = "gaps" \/ (pc[p] \in {"fetch", "insert"} /\ job[p].phase = "gaps")

AfterClock(p) == pc[p] \in {"windows", "gaps", "fetch", "insert"}

\* Phases 1 and 2 are over before the gap query.
PhaseInv(p) ==
  /\ AfterWindows(p) => todo[p] = {}
  /\ ~AfterWindows(p) => gaps[p] = {} /\ seen[p] = NoRows

\* The pages of the window in hand hold all of it from the cursor up.
InHandInv(p) ==
  pc[p] \in {"fetch", "insert"} =>
    /\ \A m \in rows[p] : job[p].start <= m
    /\ \A m \in Minutes :
         /\ Wanted(p, job[p].sym, m)
         /\ job[p].start <= m /\ m <= job[p].end
         /\ pc[p] = "insert" \/ m > cursor[p]
         => m \in rows[p] \cup stored[job[p].sym]

\* The windows that are done, none of them failed, are complete.
WindowsDone(p) ==
  AfterClock(p) /\ failed[p] = {} =>
    \A s \in selected[p] \ todo[p], m \in Minutes :
      ~WindowInHand(p, s) /\ Wanted(p, s, m) /\ WindowStart(p, s) <= m => m \in stored[s]

\* What is missing after a candle that the gap query saw lies in a gap that is still to
\* be repaired.
GapsDone(p) ==
  AfterWindows(p) /\ failed[p] = {} =>
    \A s \in selected[p], m \in Minutes : \A a \in seen[p][s] :
      Wanted(p, s, m) /\ HorizonFloor(last[p]) <= a /\ a < m =>
        \/ m \in stored[s]
        \/ \E g \in gaps[p] : g.sym = s /\ g.after < m /\ m < g.before
        \/ GapInHand(p, s) /\ job[p].start <= m /\ m <= job[p].end

CycleInv(p) == PhaseInv(p) /\ InHandInv(p) /\ WindowsDone(p) /\ GapsDone(p)

\* A symbol's first candles are from the configured range, also when their insert is
\* completed late.
StartIsStored ==
  /\ \A s \in Symbols : stored[s] # {} => \E k \in stored[s] : k >= InitialStart
  /\ \A x \in inFlight : stored[x.sym] # {} \/ \A k \in x.candles : k >= InitialStart

SuccessInv == StartIsStored /\ \A p \in Collectors : CycleInv(p)

USE DEF Minutes, Never, NoCandle

-----------------------------------------------------------------------------
(* Steps of others.                                                        *)

\* Collector q takes no step: what Rests says, and the rest of its plan.
AtRest(q) ==
  /\ Rests(q)
  /\ selected'[q] = selected[q] /\ todo'[q] = todo[q]
  /\ seen'[q] = seen[q] /\ failed'[q] = failed[q]

LEMMA OthersRest ==
  ASSUME TypeOK, NEW p \in Collectors, Progress(p) \/ Failure(p)
  PROVE  \A q \in Collectors \ {p} : AtRest(q)
<1> USE DEF TypeOK, AtRest, Rests, planVars, windowVars
<1>1. CASE FetchMeta(p) \/ ReadWatermarks(p) \/ ReadClock(p) \/ ScanGaps(p)
  BY <1>1 DEF FetchMeta, ReadWatermarks, ReadClock, ScanGaps
<1>2. CASE (\E s \in Symbols : BeginWindow(p, s)) \/ (\E g \in Gaps : BeginGap(p, g))
  BY <1>2 DEF BeginWindow, BeginGap, StartWindow
<1>3. CASE FetchPage(p)
  BY <1>3 DEF FetchPage
<1>4. CASE FetchEnds(p) \/ InsertChunk(p) \/ InsertEnds(p)
  BY <1>4 DEF FetchEnds, InsertChunk, InsertEnds, EndWindow
<1>5. CASE WriteSummary(p) \/ CycleFails(p) \/ Crash(p)
  BY <1>5 DEF WriteSummary, CycleFails, Crash, Forget
<1>6. CASE ScanGapsFails(p) \/ FetchFails(p) \/ InsertFails(p)
  BY <1>6 DEF ScanGapsFails, FetchFails, InsertFails, MarkFailed, EndWindow
<1> QED BY <1>1, <1>2, <1>3, <1>4, <1>5, <1>6 DEF Progress, Failure

LEMMA StepGrows ==
  ASSUME IndInv, [Next]_vars
  PROVE  Grows
<1> USE DEF IndInv, IngestionInv
<1>1. CASE Environment
  BY <1>1, EnvironmentGrows
<1>2. ASSUME UNCHANGED exchangeVars, \A s \in Symbols : stored[s] \subseteq stored'[s]
      PROVE  Grows
  BY <1>2, Numbers DEF Grows, exchangeVars
<1>3. ASSUME NEW p \in Collectors, Progress(p) PROVE Grows
  <2>1. CASE InsertChunk(p)
    BY <1>2, <2>1 DEF InsertChunk, Commit, TypeOK
  <2>2. CASE ~InsertChunk(p)
    <3>1. UNCHANGED exchangeVars /\ stored' = stored
      BY <1>3, <2>2 DEF Progress, FetchMeta, ReadWatermarks, ReadClock, BeginWindow, ScanGaps,
        BeginGap, StartWindow, FetchPage, FetchEnds, InsertEnds, WriteSummary, tableVars
    <3> QED BY <1>2, <3>1
  <2> QED BY <2>1, <2>2
<1>4. ASSUME NEW p \in Collectors, Failure(p) PROVE Grows
  <2>1. UNCHANGED exchangeVars /\ stored' = stored
    BY <1>4 DEF Failure, CycleFails, ScanGapsFails, FetchFails, InsertFails, Crash, tableVars
  <2> QED BY <1>2, <2>1
<1>5. ASSUME NEW x \in inFlight, CommitInFlight(x) PROVE Grows
  BY <1>2, <1>5 DEF CommitInFlight, Commit, TypeOK
<1>6. ASSUME NEW x \in Underway, StorePart(x) PROVE Grows
  BY <1>2, <1>6 DEF StorePart, Commit, TypeOK
<1>7. CASE UNCHANGED vars
  BY <1>2, <1>7 DEF vars, tableVars
<1> QED BY <1>1, <1>3, <1>4, <1>5, <1>6, <1>7 DEF Next

\* A wanted candle is inside the horizon and before the end of the cycle.
LEMMA WantedBounds ==
  ASSUME TypeOK, PublishedAfterClose, NEW p \in Collectors, last[p] < now,
         NEW s \in Symbols, NEW m \in Minutes, Wanted(p, s, m)
  PROVE  m < last[p] /\ HorizonFloor(last[p]) <= m
<1>1. /\ now \in Int /\ publishedAt[s][m] \in Int /\ m \in Int /\ last[p] \in Int
      /\ m < publishedAt[s][m]
  BY Numbers DEF PublishedAfterClose
<1> QED BY <1>1, IngestionAssumption DEF Wanted, InReach, HorizonFloor

\* No candle becomes wanted later.
LEMMA WantedStable ==
  ASSUME TypeOK, TypeOK', Grows, NEW p \in Collectors, last[p] < now, last'[p] = last[p],
         NEW s \in Symbols, NEW m \in Minutes, Wanted(p, s, m)'
  PROVE  Wanted(p, s, m)
<1>1. now \in Int /\ publishedAt[s][m] \in Int /\ m \in Int /\ last[p] \in Int
  BY Numbers
<1>2. now' \in Int
  BY ExchangeAssumption DEF TypeOK, ExchangeTypeOK
<1>3. publishedAt'[s][m] = publishedAt[s][m]
  BY <1>1 DEF Grows, Wanted
<1> QED BY <1>1, <1>2, <1>3, ExchangeAssumption, IngestionAssumption
    DEF Wanted, InReach, Grows

LEMMA SameWindowStart ==
  ASSUME NEW p, NEW s, last'[p] = last[p], watermark'[p] = watermark[p]
  PROVE  WindowStart(p, s)' = WindowStart(p, s)
BY DEF WindowStart, InitialWindowStart, OverlapStart, Later, HorizonFloor, IsNew

\* What the cycle of q knows holds whatever the others do.
LEMMA CycleKeeps ==
  ASSUME IndInv, TypeOK', Grows, NEW q \in Collectors, CycleInv(q), AtRest(q)
  PROVE  CycleInv(q)'
<1>1. /\ pc'[q] = pc[q] /\ watermark'[q] = watermark[q] /\ last'[q] = last[q]
      /\ gaps'[q] = gaps[q] /\ job'[q] = job[q] /\ cursor'[q] = cursor[q]
      /\ rows'[q] = rows[q]
      /\ selected'[q] = selected[q] /\ todo'[q] = todo[q]
      /\ seen'[q] = seen[q] /\ failed'[q] = failed[q]
  BY DEF AtRest, Rests
<1>2. TypeOK /\ last[q] < now
  BY DEF IndInv, IngestionInv, CollectorInv
<1>3. \A s \in Symbols, m \in Minutes : Wanted(q, s, m)' => Wanted(q, s, m)
  BY <1>1, <1>2, WantedStable
<1>4. \A s : WindowStart(q, s)' = WindowStart(q, s)
  BY <1>1, SameWindowStart
<1>5. selected[q] \subseteq Symbols /\ \A s \in Symbols : stored[s] \subseteq stored'[s]
  BY <1>2 DEF TypeOK, Grows
<1>6. PhaseInv(q)'
  BY <1>1 DEF CycleInv, PhaseInv, AfterWindows, NoRows
<1>7. InHandInv(q)'
  <2> SUFFICES ASSUME pc[q] \in {"fetch", "insert"} PROVE InHandInv(q)'
    BY <1>1 DEF InHandInv
  <2>1. job[q].sym \in Symbols
    BY <1>2 DEF IndInv, IngestionInv, CollectorInv, WindowInv, Jobs
  <2> QED BY <1>1, <1>3, <1>5, <2>1 DEF CycleInv, InHandInv
<1>8. WindowsDone(q)'
  BY <1>1, <1>3, <1>4, <1>5 DEF CycleInv, WindowsDone, AfterClock, WindowInHand
<1>9. GapsDone(q)'
  BY <1>1, <1>3, <1>5 DEF CycleInv, GapsDone, AfterWindows, GapInHand, HorizonFloor
<1> QED BY <1>6, <1>7, <1>8, <1>9 DEF CycleInv

-----------------------------------------------------------------------------
(* Steps of a cycle.                                                       *)

\* Outside the windows nothing is claimed.
LEMMA EarlyStage ==
  ASSUME NEW p \in Collectors, pc'[p] \in {"idle", "watermarks", "clock"},
         gaps'[p] = {}, seen'[p] = NoRows
  PROVE  CycleInv(p)'
BY DEF CycleInv, PhaseInv, InHandInv, WindowsDone, GapsDone, AfterClock, AfterWindows, NoRows

\* After a failed window nothing is claimed either.
LEMMA FailedStage ==
  ASSUME NEW p \in Collectors, pc'[p] \in {"windows", "gaps"}, failed'[p] # {}, PhaseInv(p)'
  PROVE  CycleInv(p)'
BY DEF CycleInv, InHandInv, WindowsDone, GapsDone

\* What is wanted, and where windows start, depends on the exchange and the plan.
LEMMA SamePlan ==
  ASSUME NEW p \in Collectors, UNCHANGED exchangeVars, last'[p] = last[p],
         watermark'[p] = watermark[p]
  PROVE  /\ \A s, m : Wanted(p, s, m)' <=> Wanted(p, s, m)
         /\ \A s : WindowStart(p, s)' = WindowStart(p, s)
         /\ HorizonFloor(last[p])' = HorizonFloor(last[p])
BY SameWindowStart DEF exchangeVars, Wanted, InReach, HorizonFloor

\* The windows planned from the clock: a symbol without one has nothing to get.
LEMMA ClockStep ==
  ASSUME IndInv, TypeOK', IngestionInv', NEW p \in Collectors, CycleInv(p), ReadClock(p)
  PROVE  CycleInv(p)'
<1>1. /\ pc[p] = "clock" /\ pc'[p] = "windows" /\ last'[p] = LastClosed
      /\ todo'[p] = Windows(p, LastClosed)
      /\ UNCHANGED <<exchangeVars, tableVars, selected, watermark, gaps, seen, windowVars, failed>>
  BY DEF ReadClock, IndInv, TypeOK
<1>2. gaps'[p] = {} /\ seen'[p] = NoRows
  BY <1>1 DEF CycleInv, PhaseInv, AfterWindows
<1>3. ASSUME NEW s \in selected'[p] \ todo'[p], NEW m \in Minutes,
             Wanted(p, s, m)', WindowStart(p, s)' <= m
      PROVE  FALSE
  <2>1. s \in selected[p] /\ ~IsNew(p, s) /\ ~(OverlapStart(watermark[p][s], LastClosed) <= LastClosed)
    BY <1>1, <1>3 DEF Windows
  <2>2. WindowStart(p, s)' = OverlapStart(watermark[p][s], LastClosed)
    BY <1>1, <2>1 DEF WindowStart, IsNew, OverlapStart, Later, HorizonFloor
  <2>3. s \in Symbols
    BY <2>1 DEF IndInv, TypeOK
  <2>4. m < LastClosed
    <3>1. publishedAt[s][m] <= LastClosed /\ m < publishedAt[s][m]
      BY <1>1, <1>3, <2>3 DEF Wanted, exchangeVars, IndInv, IngestionInv, PublishedAfterClose
    <3> QED BY <2>3, <3>1, Numbers DEF IndInv, LastClosed
  <2>5. LastClosed \in Int /\ watermark[p][s] \in Int /\ m \in Int
    BY <2>3, Numbers DEF IndInv, LastClosed, TypeOK
  <2>6. OverlapStart(watermark[p][s], LastClosed) \in Int
    BY <2>5, IngestionAssumption DEF OverlapStart, Later, HorizonFloor
  <2>7. OverlapStart(watermark[p][s], LastClosed) <= m
    BY <1>3, <2>2
  <2> HIDE DEF LastClosed
  <2> QED BY <2>1, <2>4, <2>5, <2>6, <2>7
<1>4. WindowsDone(p)'
  BY <1>3 DEF WindowsDone
<1>5. PhaseInv(p)' /\ InHandInv(p)' /\ GapsDone(p)'
  BY <1>1, <1>2 DEF PhaseInv, InHandInv, GapsDone, AfterWindows, NoRows
<1> QED BY <1>4, <1>5 DEF CycleInv

\* A window is begun: it is in hand, and none of it has been fetched.
LEMMA BeginWindowStep ==
  ASSUME IndInv, NEW p \in Collectors, CycleInv(p), NEW s \in Symbols, BeginWindow(p, s)
  PROVE  CycleInv(p)'
<1>1. /\ pc[p] = "windows" /\ pc'[p] = "fetch" /\ todo'[p] = todo[p] \ {s}
      /\ job'[p] = [sym |-> s, start |-> WindowStart(p, s), end |-> last[p],
                    phase |-> "windows"]
      /\ cursor'[p] = last[p] /\ rows'[p] = {}
      /\ UNCHANGED <<exchangeVars, tableVars, selected, watermark, last, seen, gaps, failed>>
  BY DEF BeginWindow, StartWindow, IndInv, IngestionInv, CollectorInv, TypeOK
<1>2. gaps[p] = {} /\ seen[p] = NoRows
  BY <1>1 DEF CycleInv, PhaseInv, AfterWindows
<1>3. PhaseInv(p)' /\ GapsDone(p)'
  BY <1>1, <1>2 DEF PhaseInv, GapsDone, AfterWindows, NoRows
<1>4. InHandInv(p)'
  <2>1. last[p] \in Int
    BY Numbers DEF IndInv
  <2>2. \A m \in Minutes : ~(m <= last[p] /\ m > last[p])
    BY <2>1, Numbers DEF IndInv
  <2> QED BY <1>1, <2>2 DEF InHandInv
<1>5. WindowsDone(p)'
  <2>1. \A r, m : Wanted(p, r, m)' <=> Wanted(p, r, m)
    BY <1>1, SamePlan
  <2>2. \A r : WindowStart(p, r)' = WindowStart(p, r)
    BY <1>1, SamePlan
  <2>3. stored' = stored /\ \A r \in selected'[p] \ todo'[p] : r \in selected[p] \ todo[p] \/ r = s
    BY <1>1 DEF tableVars
  <2>4. WindowInHand(p, s)' /\ \A r : ~WindowInHand(p, r)
    BY <1>1 DEF WindowInHand
  <2> QED BY <1>1, <2>1, <2>2, <2>3, <2>4 DEF CycleInv, WindowsDone, AfterClock
<1> QED BY <1>3, <1>4, <1>5 DEF CycleInv

\* What is missing between two stored candles is in a gap that the query finds.
LEMMA MissingIsInGap ==
  ASSUME TypeOK, NEW s \in Symbols, NEW floor \in Int, NEW m \in Minutes,
         NEW a \in stored[s], NEW b \in stored[s], floor <= a, a < m, m < b,
         m \notin stored[s]
  PROVE  \E g \in RecoverableGaps(floor) : g.sym = s /\ g.after < m /\ m < g.before
<1> DEFINE recent == {k \in stored[s] : k >= floor}
           below == {k \in recent : k < m}
           above == {k \in recent : k > m}
<1>1. stored[s] \subseteq Minutes /\ Minutes \subseteq Int /\ IsFiniteSet(Minutes)
  BY Numbers, ExchangeAssumption, FS_Interval DEF TypeOK
<1>2. below \subseteq Int /\ IsFiniteSet(below) /\ below # {}
  <2>1. below \subseteq Minutes /\ a \in below
    BY <1>1
  <2> HIDE DEF below
  <2> QED BY <1>1, <2>1, FS_Subset
<1>3. above \subseteq Int /\ IsFiniteSet(above) /\ above # {}
  <2>1. above \subseteq Minutes /\ b \in above
    BY <1>1
  <2> HIDE DEF above
  <2> QED BY <1>1, <2>1, FS_Subset
<1>4. PICK after \in below : \A k \in below : k <= after
  <2> HIDE DEF below
  <2> QED BY ONLY <1>2, HasGreatest, ZenonT(60)
<1>5. PICK before \in above : \A k \in above : before <= k
  <2> HIDE DEF above
  <2> QED BY ONLY <1>3, HasLeast, ZenonT(60)
<1> DEFINE g == [sym |-> s, after |-> after, before |-> before]
<1>6. /\ after \in Minutes /\ before \in Minutes /\ after \in recent /\ before \in recent
      /\ after < m /\ m < before
  BY <1>1
<1>7. g \in Gaps
  BY <1>6 DEF Gaps
<1>8. \A k \in recent : k <= after \/ before <= k
  BY <1>1, <1>4, <1>5
<1>9. before - after > 1
  BY <1>1, <1>6
<1>10. g \in RecoverableGaps(floor)
  BY <1>6, <1>7, <1>8, <1>9 DEF RecoverableGaps
<1> QED BY <1>6, <1>10

\* Whatever is wanted before a symbol's window has a stored candle after it.
LEMMA StoredAfter ==
  ASSUME IndInv, StartIsStored, NEW p \in Collectors, NEW s \in Symbols, NEW m \in Minutes,
         stored[s] # {}, Wanted(p, s, m), m < WindowStart(p, s)
  PROVE  \E b \in stored[s] : m < b
<1>1. TypeOK /\ last[p] < now /\ PublishedAfterClose /\ CollectorInv(p)
  BY DEF IndInv, IngestionInv, CollectorInv
<1>2. HorizonFloor(last[p]) <= m /\ m \in Int /\ HorizonFloor(last[p]) \in Int
  BY <1>1, WantedBounds, Numbers, IngestionAssumption DEF HorizonFloor
<1>3. CASE IsNew(p, s)
  <2>1. m < InitialStart
    BY <1>2, <1>3, IngestionAssumption DEF WindowStart, InitialWindowStart, Later
  <2>2. PICK b \in stored[s] : b >= InitialStart
    BY DEF StartIsStored
  <2>3. b \in Int
    BY <1>1, Numbers DEF TypeOK
  <2> QED BY <1>2, <2>1, <2>2, <2>3, IngestionAssumption
<1>4. CASE ~IsNew(p, s)
  <2>1. watermark[p][s] \in stored[s] /\ watermark[p][s] \in Int
    BY <1>1, <1>4, Numbers DEF CollectorInv, TypeOK
  <2>2. m < watermark[p][s] - OverlapCandles
    BY <1>2, <1>4, <2>1, IngestionAssumption DEF WindowStart, OverlapStart, Later
  <2> QED BY <1>2, <2>1, <2>2, IngestionAssumption
<1> QED BY <1>3, <1>4

\* The gap query: what is missing after a stored candle is in one of its gaps, as the
\* windows are complete.
LEMMA ScanStep ==
  ASSUME IndInv, StartIsStored, NEW p \in Collectors, CycleInv(p), ScanGaps(p)
  PROVE  CycleInv(p)'
<1>1. /\ pc[p] = "windows" /\ pc'[p] = "gaps" /\ todo[p] = {} /\ todo'[p] = {}
      /\ gaps'[p] = TrackedGaps(p) /\ seen'[p] = stored
      /\ UNCHANGED <<exchangeVars, tableVars, selected, watermark, last, windowVars, failed>>
  BY DEF ScanGaps, IndInv, TypeOK
<1>2. PhaseInv(p)' /\ InHandInv(p)'
  BY <1>1 DEF PhaseInv, InHandInv, AfterWindows
<1>3. /\ \A r, m : Wanted(p, r, m)' <=> Wanted(p, r, m)
      /\ \A r : WindowStart(p, r)' = WindowStart(p, r)
      /\ HorizonFloor(last[p])' = HorizonFloor(last[p])
  BY <1>1, SamePlan
<1>4. stored' = stored /\ selected' = selected /\ failed' = failed
  BY <1>1 DEF tableVars
<1>5. WindowsDone(p)'
  BY <1>1, <1>3, <1>4 DEF CycleInv, WindowsDone, AfterClock, WindowInHand
<1>6. ASSUME failed[p] = {}, NEW s \in selected[p], NEW m \in Minutes, NEW a \in stored[s],
             Wanted(p, s, m), HorizonFloor(last[p]) <= a, a < m, m \notin stored[s]
      PROVE  \E g \in TrackedGaps(p) : g.sym = s /\ g.after < m /\ m < g.before
  <2>1. TypeOK /\ s \in Symbols /\ HorizonFloor(last[p]) \in Int
    BY Numbers, IngestionAssumption DEF IndInv, TypeOK, HorizonFloor
  <2>2. m < WindowStart(p, s)
    <3>1. ~(WindowStart(p, s) <= m)
      BY <1>1, <1>6 DEF CycleInv, WindowsDone, AfterClock, WindowInHand
    <3>2. WindowStart(p, s) \in Int
      <4>1. last[p] \in Int /\ watermark[p][s] \in Int
        BY <2>1, Numbers DEF TypeOK
      <4> QED BY <4>1, IngestionAssumption
              DEF WindowStart, InitialWindowStart, OverlapStart, Later, HorizonFloor
    <3> QED BY <2>1, <3>1, <3>2, Numbers
  <2>3. PICK b \in stored[s] : m < b
    BY <1>6, <2>1, <2>2, StoredAfter
  <2>4. \E g \in RecoverableGaps(HorizonFloor(last[p])) : g.sym = s /\ g.after < m /\ m < g.before
    BY <1>6, <2>1, <2>3, MissingIsInGap
  <2> QED BY <2>4 DEF TrackedGaps
<1>7. GapsDone(p)'
  BY <1>1, <1>3, <1>4, <1>6 DEF GapsDone
<1> QED BY <1>2, <1>5, <1>7 DEF CycleInv

LEMMA ScanFailsStep ==
  ASSUME IndInv, NEW p \in Collectors, CycleInv(p), ScanGapsFails(p)
  PROVE  CycleInv(p)'
<1>1. /\ pc[p] = "windows" /\ pc'[p] = "gaps" /\ todo[p] = {}
      /\ UNCHANGED <<exchangeVars, tableVars, planVars, windowVars, failed>>
  BY DEF ScanGapsFails, IndInv, TypeOK
<1>2. gaps[p] = {} /\ seen[p] = NoRows
  BY <1>1 DEF CycleInv, PhaseInv, AfterWindows
<1>3. PhaseInv(p)' /\ InHandInv(p)'
  BY <1>1 DEF PhaseInv, InHandInv, AfterWindows, planVars
<1>4. \A s \in selected[p] : s \in Symbols /\ seen'[p][s] = {}
  BY <1>1, <1>2 DEF planVars, NoRows, IndInv, TypeOK
<1>5. GapsDone(p)'
  BY <1>1, <1>4 DEF GapsDone, planVars
<1>6. /\ \A r, m : Wanted(p, r, m)' <=> Wanted(p, r, m)
      /\ \A r : WindowStart(p, r)' = WindowStart(p, r)
  BY <1>1, SamePlan DEF planVars
<1>7. WindowsDone(p)'
  BY <1>1, <1>6 DEF CycleInv, WindowsDone, AfterClock, WindowInHand, planVars, tableVars
<1> QED BY <1>3, <1>5, <1>7 DEF CycleInv

\* A gap is taken from the list and is in hand.
LEMMA BeginGapStep ==
  ASSUME IndInv, NEW p \in Collectors, CycleInv(p), NEW g \in Gaps, BeginGap(p, g)
  PROVE  CycleInv(p)'
<1>1. /\ pc[p] = "gaps" /\ pc'[p] = "fetch" /\ gaps'[p] = gaps[p] \ {g}
      /\ job'[p] = [sym |-> g.sym, start |-> g.after, end |-> g.before, phase |-> "gaps"]
      /\ cursor'[p] = g.before /\ rows'[p] = {}
      /\ UNCHANGED <<exchangeVars, tableVars, selected, watermark, last, todo, seen, failed>>
  BY DEF BeginGap, StartWindow, IndInv, IngestionInv, CollectorInv, TypeOK
<1>2. todo[p] = {} /\ g.before \in Int /\ g.after \in Int
  BY <1>1, Numbers DEF CycleInv, PhaseInv, AfterWindows, IndInv, Gaps
<1>3. PhaseInv(p)'
  BY <1>1, <1>2 DEF PhaseInv, AfterWindows
<1>4. InHandInv(p)'
  <2>1. \A m \in Minutes : ~(m <= g.before /\ m > g.before)
    BY <1>2, Numbers DEF IndInv
  <2> QED BY <1>1, <2>1 DEF InHandInv
<1>5. /\ \A r, m : Wanted(p, r, m)' <=> Wanted(p, r, m)
      /\ \A r : WindowStart(p, r)' = WindowStart(p, r)
      /\ HorizonFloor(last[p])' = HorizonFloor(last[p])
  BY <1>1, SamePlan
<1>6. stored' = stored /\ selected' = selected /\ failed' = failed
  BY <1>1 DEF tableVars
<1>7. WindowsDone(p)'
  BY <1>1, <1>5, <1>6 DEF CycleInv, WindowsDone, AfterClock, WindowInHand
<1>8. ASSUME failed[p] = {}, NEW s \in selected[p], NEW m \in Minutes, NEW a \in seen[p][s],
             Wanted(p, s, m), HorizonFloor(last[p]) <= a, a < m, m \notin stored[s]
      PROVE  \/ \E h \in gaps'[p] : h.sym = s /\ h.after < m /\ m < h.before
             \/ GapInHand(p, s)' /\ job'[p].start <= m /\ m <= job'[p].end
  <2>1. PICK h \in gaps[p] : h.sym = s /\ h.after < m /\ m < h.before
    BY <1>1, <1>8 DEF CycleInv, GapsDone, AfterWindows, GapInHand
  <2>2. CASE h # g
    BY <1>1, <2>1, <2>2
  <2>3. CASE h = g
    <3>1. g.after <= m /\ m <= g.before
      BY <1>2, <2>1, <2>3, Numbers DEF IndInv
    <3> QED BY <1>1, <2>1, <2>3, <3>1 DEF GapInHand
  <2> QED BY <2>2, <2>3
<1>9. GapsDone(p)'
  BY <1>1, <1>5, <1>6, <1>8 DEF GapsDone
<1> QED BY <1>3, <1>4, <1>7, <1>9 DEF CycleInv

\* A step inside the window in hand: only what is in hand can change.
LEMMA InsideWindow ==
  ASSUME IndInv, TypeOK', Grows, NEW p \in Collectors, CycleInv(p),
         pc[p] \in {"fetch", "insert"}, pc'[p] \in {"fetch", "insert"},
         UNCHANGED <<exchangeVars, selected, watermark, last, todo, gaps, seen, job, failed>>,
         InHandInv(p)'
  PROVE  CycleInv(p)'
<1>1. /\ \A r, m : Wanted(p, r, m)' <=> Wanted(p, r, m)
      /\ \A r : WindowStart(p, r)' = WindowStart(p, r)
      /\ HorizonFloor(last[p])' = HorizonFloor(last[p])
  BY SamePlan
<1>2. selected[p] \subseteq Symbols /\ \A s \in Symbols : stored[s] \subseteq stored'[s]
  BY DEF IndInv, TypeOK, Grows
<1>3. PhaseInv(p)'
  BY DEF CycleInv, PhaseInv, AfterWindows, NoRows
<1>4. WindowsDone(p)'
  BY <1>1, <1>2 DEF CycleInv, WindowsDone, AfterClock, WindowInHand
<1>5. GapsDone(p)'
  BY <1>1, <1>2 DEF CycleInv, GapsDone, AfterWindows, GapInHand
<1> QED BY <1>3, <1>4, <1>5 DEF CycleInv

\* A page holds all that is wanted between its oldest candle and the cursor.
LEMMA FetchPageCycle ==
  ASSUME IndInv, TypeOK', Grows, NEW p \in Collectors, CycleInv(p), FetchPage(p)
  PROVE  CycleInv(p)'
<1> DEFINE s == job[p].sym
           available == {m \in Exposed(s) : m >= job[p].start /\ m <= cursor[p]}
<1>1. pc[p] = "fetch" /\ WindowInv(p) /\ last[p] < now /\ TypeOK
  BY DEF FetchPage, IndInv, IngestionInv, CollectorInv
<1>2. job[p] \in Jobs /\ s \in Symbols /\ job[p].start \in Int
  BY <1>1 DEF WindowInv, Jobs
<1>3. UNCHANGED <<exchangeVars, stored, selected, watermark, last, todo, gaps, seen, job, failed>>
  BY DEF FetchPage, tableVars, planVars
<1>4. PICK oldest \in available :
        /\ rows' = [rows EXCEPT ![p] = @ \cup {m \in available : m >= oldest}]
        /\ IF oldest <= job[p].start
           THEN pc' = [pc EXCEPT ![p] = "insert"] /\ UNCHANGED cursor
           ELSE cursor' = [cursor EXCEPT ![p] = oldest - 1] /\ UNCHANGED pc
  BY DEF FetchPage
<1>5. oldest \in Int /\ job[p].start <= oldest /\ oldest <= cursor[p] /\ cursor[p] \in Int
  BY <1>1, <1>4, Numbers DEF Exposed, Published
<1>6. rows'[p] = rows[p] \cup {m \in available : m >= oldest}
  BY <1>1, <1>4 DEF TypeOK
<1>7. \A m \in rows'[p] : job[p].start <= m
  BY <1>1, <1>6 DEF CycleInv, InHandInv
<1>8. ASSUME NEW m \in Minutes, Wanted(p, s, m), job[p].start <= m, m <= job[p].end,
             pc'[p] = "insert" \/ m > cursor'[p]
      PROVE  m \in rows'[p] \cup stored[s]
  <2>1. CASE m > cursor[p]
    BY <1>1, <1>6, <1>8, <2>1 DEF CycleInv, InHandInv
  <2>2. CASE ~(m > cursor[p])
    <3>1. m <= cursor[p] /\ m \in Int
      BY <1>1, <1>5, <2>2, Numbers
    <3>2. m >= oldest
      <4>1. CASE oldest <= job[p].start
        BY <1>2, <1>5, <1>8, <3>1, <4>1
      <4>2. CASE ~(oldest <= job[p].start)
        <5>1. cursor'[p] = oldest - 1 /\ pc'[p] = "fetch"
          BY <1>1, <1>4, <4>2 DEF TypeOK
        <5> QED BY <1>5, <1>8, <3>1, <5>1
      <4> QED BY <4>1, <4>2
    <3>3. m \in Exposed(s)
      BY <1>1, <1>2, <1>8, Numbers DEF Wanted, InReach, Exposed, Published
    <3> QED BY <1>6, <1>8, <3>1, <3>2, <3>3
  <2> QED BY <2>1, <2>2
<1> HIDE DEF available
<1>9. pc'[p] \in {"fetch", "insert"}
  BY <1>1, <1>4 DEF TypeOK
<1>10. \A m : Wanted(p, s, m)' <=> Wanted(p, s, m)
  BY <1>3, SamePlan
<1>11. InHandInv(p)'
  BY <1>3, <1>7, <1>8, <1>9, <1>10 DEF InHandInv
<1> QED BY <1>1, <1>3, <1>9, <1>11, InsideWindow

\* An empty page: nothing wanted is left in the rest of the window.
LEMMA FetchEndsCycle ==
  ASSUME IndInv, TypeOK', Grows, NEW p \in Collectors, CycleInv(p), FetchEnds(p)
  PROVE  CycleInv(p)'
<1> DEFINE s == job[p].sym
<1>1. pc[p] = "fetch" /\ WindowInv(p) /\ last[p] < now /\ TypeOK
  BY DEF FetchEnds, IndInv, IngestionInv, CollectorInv
<1>2. job[p] \in Jobs /\ s \in Symbols /\ job[p].start \in Int
  BY <1>1 DEF WindowInv, Jobs
<1>3. /\ UNCHANGED <<exchangeVars, stored, selected, watermark, last, todo, gaps, seen, job,
                     cursor, rows, failed>>
      /\ pc'[p] = "insert"
  BY DEF FetchEnds, tableVars, planVars, windowVars, IndInv, TypeOK
<1>4. ASSUME NEW m \in Minutes, Wanted(p, s, m), job[p].start <= m, m <= job[p].end
      PROVE  m \in rows[p] \cup stored[s]
  <2>1. CASE m > cursor[p]
    BY <1>1, <1>4, <2>1 DEF CycleInv, InHandInv
  <2>2. CASE ~(m > cursor[p])
    <3>1. m <= cursor[p] /\ m \in Int
      BY <1>1, <2>2, Numbers
    <3>2. m \in Exposed(s)
      BY <1>1, <1>2, <1>4, Numbers DEF Wanted, InReach, Exposed, Published
    <3> QED BY <1>4, <3>1, <3>2 DEF FetchEnds
  <2> QED BY <2>1, <2>2
<1>5. \A m : Wanted(p, s, m)' <=> Wanted(p, s, m)
  BY <1>3, SamePlan
<1>6. InHandInv(p)'
  BY <1>1, <1>3, <1>4, <1>5 DEF CycleInv, InHandInv
<1> QED BY <1>1, <1>3, <1>6, InsideWindow

LEMMA InsertChunkCycle ==
  ASSUME IndInv, TypeOK', Grows, NEW p \in Collectors, CycleInv(p), InsertChunk(p)
  PROVE  CycleInv(p)'
<1> DEFINE s == job[p].sym
<1>1. pc[p] = "insert" /\ WindowInv(p) /\ TypeOK
  BY DEF InsertChunk, IndInv, IngestionInv, CollectorInv
<1>2. s \in Symbols
  BY <1>1 DEF WindowInv, Jobs
<1>3. UNCHANGED <<exchangeVars, selected, watermark, last, todo, gaps, seen, job, pc, failed>>
  BY DEF InsertChunk, planVars
<1>4. PICK chunk \in Chunks(p) :
        rows'[p] = rows[p] \ chunk /\ stored'[s] = stored[s] \cup chunk
  BY <1>1, <1>2 DEF InsertChunk, Commit, TypeOK
<1>5. \A m : Wanted(p, s, m)' <=> Wanted(p, s, m)
  BY <1>3, SamePlan
<1>6. InHandInv(p)'
  BY <1>1, <1>3, <1>4, <1>5 DEF CycleInv, InHandInv
<1> QED BY <1>1, <1>3, <1>6, InsideWindow

\* A window is done: all that is wanted of it is stored.
LEMMA InsertEndsCycle ==
  ASSUME IndInv, TypeOK', Grows, NEW p \in Collectors, CycleInv(p), InsertEnds(p)
  PROVE  CycleInv(p)'
<1> DEFINE s == job[p].sym
<1>1. /\ pc[p] = "insert" /\ WindowInv(p) /\ last[p] < now /\ TypeOK
      /\ PublishedAfterClose /\ rows[p] = {}
  BY DEF InsertEnds, IndInv, IngestionInv, CollectorInv
<1>2. job[p] \in Jobs /\ s \in Symbols
  BY <1>1 DEF WindowInv, Jobs
<1>3. /\ UNCHANGED <<exchangeVars, stored, selected, watermark, last, todo, gaps, seen, failed>>
      /\ pc'[p] = job[p].phase /\ job[p].phase \in {"windows", "gaps"}
  BY <1>1, <1>2 DEF InsertEnds, EndWindow, tableVars, planVars, TypeOK, Jobs
<1>4. \A m \in Minutes :
        Wanted(p, s, m) /\ job[p].start <= m /\ m <= job[p].end => m \in stored[s]
  BY <1>1 DEF CycleInv, InHandInv
<1>5. /\ \A r, m : Wanted(p, r, m)' <=> Wanted(p, r, m)
      /\ \A r : WindowStart(p, r)' = WindowStart(p, r)
      /\ HorizonFloor(last[p])' = HorizonFloor(last[p])
  BY <1>3, SamePlan
<1>6. AfterWindows(p)' <=> AfterWindows(p)
  BY <1>1, <1>3 DEF AfterWindows
<1>7. PhaseInv(p)' /\ InHandInv(p)'
  BY <1>3, <1>6 DEF CycleInv, PhaseInv, InHandInv, NoRows
<1>8. WindowsDone(p)'
  <2>1. ASSUME failed[p] = {}, NEW r \in selected[p] \ todo[p], NEW m \in Minutes,
               Wanted(p, r, m), WindowStart(p, r) <= m
        PROVE  m \in stored[r]
    <3>1. CASE WindowInHand(p, r)
      <4>1. r = s /\ job[p].start = WindowStart(p, s) /\ job[p].end = last[p]
        BY <1>1, <3>1 DEF WindowInHand, WindowInv
      <4>2. m < last[p]
        BY <1>1, <1>2, <2>1, <4>1, WantedBounds
      <4>3. m <= job[p].end
        BY <1>1, <4>1, <4>2, Numbers
      <4> QED BY <1>4, <2>1, <4>1, <4>3
    <3>2. CASE ~WindowInHand(p, r)
      BY <1>1, <2>1, <3>2 DEF CycleInv, WindowsDone, AfterClock
    <3> QED BY <3>1, <3>2
  <2> QED BY <1>3, <1>5, <2>1 DEF WindowsDone
<1>9. GapsDone(p)'
  <2>1. ASSUME failed[p] = {}, AfterWindows(p), NEW r \in selected[p], NEW m \in Minutes,
               NEW a \in seen[p][r], Wanted(p, r, m), HorizonFloor(last[p]) <= a, a < m
        PROVE  m \in stored[r] \/ \E g \in gaps[p] : g.sym = r /\ g.after < m /\ m < g.before
    <3>1. CASE GapInHand(p, r) /\ job[p].start <= m /\ m <= job[p].end
      BY <1>4, <2>1, <3>1 DEF GapInHand
    <3>2. CASE ~(GapInHand(p, r) /\ job[p].start <= m /\ m <= job[p].end)
      BY <2>1, <3>2 DEF CycleInv, GapsDone
    <3> QED BY <3>1, <3>2
  <2> QED BY <1>3, <1>5, <1>6, <2>1 DEF GapsDone
<1> QED BY <1>7, <1>8, <1>9 DEF CycleInv

\* A failed window.
LEMMA FailsCycle ==
  ASSUME IndInv, NEW p \in Collectors, CycleInv(p), FetchFails(p) \/ InsertFails(p)
  PROVE  CycleInv(p)'
<1>1. /\ pc[p] \in {"fetch", "insert"} /\ WindowInv(p) /\ TypeOK
      /\ MarkFailed(p) /\ EndWindow(p) /\ UNCHANGED planVars
  BY DEF FetchFails, InsertFails, IndInv, IngestionInv, CollectorInv
<1>2. pc'[p] = job[p].phase /\ job[p].phase \in {"windows", "gaps"}
  BY <1>1 DEF EndWindow, WindowInv, Jobs, TypeOK
<1>3. failed'[p] # {}
  BY <1>1 DEF MarkFailed, TypeOK
<1>4. PhaseInv(p)'
  BY <1>1, <1>2 DEF CycleInv, PhaseInv, AfterWindows, planVars, NoRows
<1> QED BY <1>2, <1>3, <1>4, FailedStage

LEMMA CollectorStep ==
  ASSUME IndInv, IndInv', StartIsStored, Grows, NEW p \in Collectors, CycleInv(p),
         Progress(p) \/ Failure(p)
  PROVE  CycleInv(p)'
<1>1. TypeOK /\ TypeOK' /\ IngestionInv'
  BY DEF IndInv
<1>2. CASE FetchMeta(p) \/ ReadWatermarks(p)
  <2>1. pc[p] \in {"idle", "watermarks"} /\ pc'[p] \in {"watermarks", "clock"}
        /\ UNCHANGED <<gaps, seen>>
    BY <1>1, <1>2 DEF FetchMeta, ReadWatermarks, TypeOK
  <2> QED BY <2>1, EarlyStage DEF CycleInv, PhaseInv, AfterWindows
<1>3. CASE WriteSummary(p) \/ CycleFails(p) \/ Crash(p)
  <2>1. pc'[p] = "idle" /\ gaps'[p] = {} /\ seen'[p] = NoRows
    BY <1>1, <1>3 DEF WriteSummary, CycleFails, Crash, Forget, TypeOK
  <2> QED BY <2>1, EarlyStage
<1>4. CASE ReadClock(p)
  BY <1>1, <1>4, ClockStep
<1>5. CASE \E s \in Symbols : BeginWindow(p, s)
  BY <1>5, BeginWindowStep
<1>6. CASE \E g \in Gaps : BeginGap(p, g)
  BY <1>6, BeginGapStep
<1>7. CASE ScanGaps(p)
  BY <1>7, ScanStep
<1>8. CASE ScanGapsFails(p)
  BY <1>8, ScanFailsStep
<1>9. CASE FetchPage(p)
  BY <1>1, <1>9, FetchPageCycle
<1>10. CASE FetchEnds(p)
  BY <1>1, <1>10, FetchEndsCycle
<1>11. CASE InsertChunk(p)
  BY <1>1, <1>11, InsertChunkCycle
<1>12. CASE InsertEnds(p)
  BY <1>1, <1>12, InsertEndsCycle
<1>13. CASE FetchFails(p) \/ InsertFails(p)
  BY <1>13, FailsCycle
<1> QED BY <1>2, <1>3, <1>4, <1>5, <1>6, <1>7, <1>8, <1>9, <1>10, <1>11, <1>12, <1>13
        DEF Progress, Failure

-----------------------------------------------------------------------------
(* The first candles of a symbol.                                          *)

\* The first rows of a symbol come from the window of a new symbol.
LEMMA ChunkStart ==
  ASSUME IndInv, NEW p \in Collectors, CycleInv(p), pc[p] = "insert", NEW chunk \in Chunks(p)
  PROVE  /\ stored[job[p].sym] # {} \/ \A k \in chunk : k >= InitialStart
         /\ chunk # {} /\ job[p].sym \in Symbols
<1> DEFINE s == job[p].sym
<1>1. /\ WindowInv(p) /\ CollectorInv(p) /\ TypeOK /\ job[p] \in Jobs
  BY DEF IndInv, IngestionInv, CollectorInv, WindowInv
<1>2. s \in Symbols /\ job[p].phase \in {"windows", "gaps"}
  BY <1>1 DEF Jobs
<1>3. chunk # {} /\ chunk \subseteq rows[p] /\ rows[p] \subseteq Int
  BY <1>1, Numbers DEF Chunks, TypeOK
<1>4. CASE job[p].phase = "gaps"
  BY <1>1, <1>2, <1>3, <1>4 DEF WindowInv
<1>5. CASE job[p].phase = "windows" /\ ~IsNew(p, s)
  BY <1>1, <1>2, <1>3, <1>5 DEF CollectorInv
<1>6. CASE job[p].phase = "windows" /\ IsNew(p, s)
  <2>1. job[p].start = InitialWindowStart(last[p])
    BY <1>1, <1>6 DEF WindowInv, WindowStart
  <2>2. InitialWindowStart(last[p]) \in Int /\ InitialStart <= InitialWindowStart(last[p])
    <3>1. last[p] \in Int
      BY <1>1, Numbers
    <3> QED BY <3>1, IngestionAssumption DEF InitialWindowStart, Later, HorizonFloor
  <2>3. \A k \in chunk : job[p].start <= k
    BY <1>3 DEF CycleInv, InHandInv
  <2> QED BY <1>2, <1>3, <2>1, <2>2, <2>3, IngestionAssumption
<1> QED BY <1>2, <1>4, <1>5, <1>6

LEMMA StartCommitted ==
  ASSUME TypeOK, StartIsStored, NEW s \in Symbols, NEW C, Commit(s, C),
         stored[s] # {} \/ \A k \in C : k >= InitialStart,
         inFlight' \subseteq inFlight
  PROVE  StartIsStored'
<1>1. stored'[s] = stored[s] \cup C /\ \A r \in Symbols \ {s} : stored'[r] = stored[r]
  BY DEF TypeOK, Commit
<1>2. ASSUME NEW r \in Symbols, stored'[r] # {} PROVE \E k \in stored'[r] : k >= InitialStart
  BY <1>1, <1>2 DEF StartIsStored
<1>3. ASSUME NEW x \in inFlight'
      PROVE  stored'[x.sym] # {} \/ \A k \in x.candles : k >= InitialStart
  BY <1>1 DEF StartIsStored, TypeOK
<1> QED BY <1>2, <1>3 DEF StartIsStored

LEMMA StartAbandoned ==
  ASSUME IndInv, StartIsStored, NEW p \in Collectors, CycleInv(p), pc[p] = "insert",
         Abandon(p), stored' = stored
  PROVE  StartIsStored'
<1>1. PICK chunk \in Chunks(p) :
        \/ UNCHANGED inFlight
        \/ inFlight' = inFlight \cup {[sym |-> job[p].sym, candles |-> chunk]}
  BY DEF Abandon
<1>2. stored[job[p].sym] # {} \/ \A k \in chunk : k >= InitialStart
  BY ChunkStart
<1>3. ASSUME NEW x \in inFlight'
      PROVE  stored[x.sym] # {} \/ \A k \in x.candles : k >= InitialStart
  BY <1>1, <1>2 DEF StartIsStored
<1> QED BY <1>3 DEF StartIsStored

LEMMA StartNext ==
  ASSUME IndInv, SuccessInv, [Next]_vars
  PROVE  StartIsStored'
<1> USE DEF IndInv, SuccessInv
<1>1. ASSUME stored' = stored, inFlight' = inFlight PROVE StartIsStored'
  BY <1>1 DEF StartIsStored
<1>2. ASSUME NEW p \in Collectors, InsertChunk(p) PROVE StartIsStored'
  <2>1. PICK chunk \in Chunks(p) : Commit(job[p].sym, chunk)
    BY <1>2 DEF InsertChunk
  <2>2. /\ stored[job[p].sym] # {} \/ \A k \in chunk : k >= InitialStart
        /\ job[p].sym \in Symbols
    BY <1>2, ChunkStart DEF InsertChunk
  <2>3. inFlight' = inFlight
    BY <1>2 DEF InsertChunk
  <2> QED BY <2>1, <2>2, <2>3, StartCommitted
<1>3. ASSUME NEW p \in Collectors, Progress(p), ~InsertChunk(p) PROVE StartIsStored'
  BY <1>1, <1>3 DEF Progress, FetchMeta, ReadWatermarks, ReadClock, BeginWindow, ScanGaps,
    BeginGap, StartWindow, FetchPage, FetchEnds, InsertEnds, WriteSummary, tableVars
<1>4. ASSUME NEW p \in Collectors, InsertFails(p) PROVE StartIsStored'
  BY <1>4, StartAbandoned DEF InsertFails
<1>5. ASSUME NEW p \in Collectors, Crash(p) PROVE StartIsStored'
  BY <1>1, <1>5, StartAbandoned DEF Crash
<1>6. ASSUME NEW p \in Collectors, CycleFails(p) \/ ScanGapsFails(p) \/ FetchFails(p)
      PROVE  StartIsStored'
  BY <1>1, <1>6 DEF CycleFails, ScanGapsFails, FetchFails, tableVars
<1>7. ASSUME NEW x \in inFlight, CommitInFlight(x) PROVE StartIsStored'
  <2>1. Commit(x.sym, x.candles) /\ inFlight' \subseteq inFlight /\ x.sym \in Symbols
    BY <1>7 DEF CommitInFlight, TypeOK
  <2>2. stored[x.sym] # {} \/ \A k \in x.candles : k >= InitialStart
    BY DEF StartIsStored
  <2> QED BY <2>1, <2>2, StartCommitted
<1>8. ASSUME NEW x \in Underway, StorePart(x) PROVE StartIsStored'
  <2>1. /\ \E newest \in x.candles : Commit(x.sym, {m \in x.candles : m <= newest})
        /\ inFlight' = inFlight /\ x.sym \in Symbols
    BY <1>8, UnderwaySound DEF StorePart
  <2>2. stored[x.sym] # {} \/ \A k \in x.candles : k >= InitialStart
    <3>1. CASE x \in inFlight
      BY <3>1 DEF StartIsStored
    <3>2. CASE x \notin inFlight
      BY <3>2, ChunkStart DEF Underway
    <3> QED BY <3>1, <3>2
  <2> QED BY <2>1, <2>2, StartCommitted
<1>9. CASE Environment \/ UNCHANGED vars
  BY <1>1, <1>9 DEF Environment, tableVars, vars
<1> QED BY <1>2, <1>3, <1>4, <1>5, <1>6, <1>7, <1>8, <1>9 DEF Next, Failure

-----------------------------------------------------------------------------

LEMMA SuccessInvInit == Init => SuccessInv
<1> SUFFICES ASSUME Init PROVE SuccessInv
  OBVIOUS
<1>1. StartIsStored
  BY DEF Init, StartIsStored
<1>2. ASSUME NEW p \in Collectors PROVE CycleInv(p)
  BY DEF Init, CycleInv, PhaseInv, InHandInv, WindowsDone, GapsDone, AfterClock, AfterWindows
<1> QED BY <1>1, <1>2 DEF SuccessInv

LEMMA SuccessInvNext == IndInv /\ IndInv' /\ SuccessInv /\ [Next]_vars => SuccessInv'
<1> SUFFICES ASSUME IndInv, IndInv', SuccessInv, [Next]_vars PROVE SuccessInv'
  OBVIOUS
<1>1. StartIsStored' /\ Grows /\ TypeOK' /\ TypeOK
  BY StartNext, StepGrows DEF IndInv
<1>2. StartIsStored /\ \A q \in Collectors : CycleInv(q)
  BY DEF SuccessInv
<1>3. ASSUME \A q \in Collectors : AtRest(q) PROVE SuccessInv'
  BY <1>1, <1>2, <1>3, CycleKeeps DEF SuccessInv
<1>4. ASSUME NEW p \in Collectors, Progress(p) \/ Failure(p) PROVE SuccessInv'
  <2>1. CycleInv(p)'
    BY <1>1, <1>2, <1>4, CollectorStep
  <2>2. ASSUME NEW q \in Collectors, q # p PROVE CycleInv(q)'
    <3>1. AtRest(q)
      BY <1>1, <1>4, <2>2, OthersRest
    <3> QED BY <1>1, <1>2, <3>1, CycleKeeps
  <2> QED BY <1>1, <2>1, <2>2 DEF SuccessInv
<1>5. CASE \/ (\E x \in Underway : StorePart(x)) \/ (\E x \in inFlight : CommitInFlight(x))
           \/ Environment \/ UNCHANGED vars
  BY <1>3, <1>5
  DEF StorePart, CommitInFlight, Environment, vars, planVars, windowVars, AtRest, Rests
<1> QED BY <1>4, <1>5 DEF Next

LEMMA SuccessInvariant == Spec => [](IndInv /\ SuccessInv)
<1>1. Init => SuccessInv
  BY SuccessInvInit
<1>2. IndInv /\ IndInv' /\ SuccessInv /\ [Next]_vars => SuccessInv'
  BY SuccessInvNext
<1> QED BY <1>1, <1>2, IndInvInvariant, PTL DEF Spec

\* A run row that says `success' (write_run_summary in app.py, through storage/runs.py) is
\* true: every candle of its symbols that was visible before the cycle's end and is in
\* reach is stored, if it lies in the symbol's window or after a candle inside the horizon
\* that the gap query saw; for any number of collectors, crashes and late inserts.
THEOREM SuccessMeansComplete == Spec => []SuccessIsComplete
<1>1. IndInv /\ SuccessInv => SuccessIsComplete
  <2> SUFFICES ASSUME IndInv, SuccessInv, NEW p \in Collectors, pc[p] = "gaps", gaps[p] = {},
                      Summary(p).status = "success", NEW s \in selected[p], NEW m \in Minutes,
                      InReach(m), publishedAt[s][m] <= last[p],
                      \/ m >= WindowStart(p, s)
                      \/ \E a \in seen[p][s] : HorizonFloor(last[p]) <= a /\ a < m
               PROVE  m \in stored[s]
    BY DEF SuccessIsComplete
  <2>1. CycleInv(p) /\ TypeOK /\ s \in Symbols
    BY DEF SuccessInv, IndInv, TypeOK
  <2>2. failed[p] = {}
    <3>1. IsFiniteSet(failed[p])
      BY <2>1, IngestionAssumption, FS_Subset DEF TypeOK
    <3>2. Cardinality(failed[p]) = 0
      BY DEF Summary, CycleStatus
    <3> QED BY <3>1, <3>2, FS_EmptySet
  <2>3. todo[p] = {} /\ AfterWindows(p) /\ Wanted(p, s, m)
    BY <2>1 DEF CycleInv, PhaseInv, AfterWindows, Wanted
  <2>4. CASE m >= WindowStart(p, s)
    <3>1. WindowStart(p, s) <= m
      <4>1. last[p] \in Int /\ watermark[p][s] \in Int
        BY <2>1, Numbers DEF TypeOK
      <4>2. WindowStart(p, s) \in Int
        BY <4>1, IngestionAssumption
        DEF WindowStart, InitialWindowStart, OverlapStart, Later, HorizonFloor
      <4> QED BY <2>1, <2>4, <4>2, Numbers
    <3> QED BY <2>1, <2>2, <2>3, <3>1 DEF CycleInv, WindowsDone, AfterClock, WindowInHand
  <2>5. CASE \E a \in seen[p][s] : HorizonFloor(last[p]) <= a /\ a < m
    BY <2>1, <2>2, <2>3, <2>5 DEF CycleInv, GapsDone, GapInHand
  <2> QED BY <2>4, <2>5
<1> QED BY <1>1, SuccessInvariant, PTL

-----------------------------------------------------------------------------
(* The counts beside the cycle.                                            *)

\* A step of the ledger is a step of its cycle, or files rows that no cycle reads.
LEMMA LedgerStep ==
  ASSUME [LedgerNext]_allVars
  PROVE  [Next]_vars
<1>1. ASSUME NEW p \in Collectors,
             \/ OpenLedger(p) \/ Silent(p) \/ CountChunk(p) \/ ReportStored(p)
             \/ FileSummary(p)
      PROVE  Progress(p) \/ ScanGapsFails(p)
  BY <1>1 DEF OpenLedger, Silent, CountChunk, ReportStored, FileSummary, Progress
<1>2. ASSUME NEW p \in Collectors, ReportFailed(p) \/ AbandonLedger(p)
      PROVE  Failure(p)
  BY <1>2 DEF ReportFailed, AbandonLedger, Failure
<1>3. ASSUME NEW p \in Collectors, FileStatuses(p) PROVE UNCHANGED vars
  BY <1>3 DEF FileStatuses
<1> QED BY <1>1, <1>2, <1>3 DEF LedgerNext, allVars, Next, Failure

\* Without its rows a cycle of CycleLedger is one of Ingestion, so what is proved of
\* Ingestion can be cited here.
LEMMA LedgerObserves == LedgerSpec => Spec
<1>1. LedgerInit => Init
  BY DEF LedgerInit
<1> QED BY <1>1, LedgerStep, PTL DEF LedgerSpec, Spec

LedgerTypeOK ==
  /\ batch \in [Collectors -> Nat]
  /\ inserted \in [Collectors -> Nat]
  /\ sent \in [Collectors -> Nat]

\* A chunk holds finitely many rows.
LEMMA ChunkSize ==
  ASSUME TypeOK, NEW p \in Collectors
  PROVE  Cardinality(rows[p] \ rows'[p]) \in Nat
<1>1. IsFiniteSet(Minutes)
  BY ExchangeAssumption, FS_Interval
<1>2. rows[p] \ rows'[p] \subseteq Minutes
  BY DEF TypeOK
<1> HIDE DEF Minutes
<1> QED BY <1>1, <1>2, FS_Subset, FS_CardinalityType

LEMMA ReportsNext ==
  ASSUME TypeOK, TypeOK', TracksSelection, LedgerTypeOK, ReportsWhatIsStored,
         [LedgerNext]_allVars
  PROVE  LedgerTypeOK' /\ ReportsWhatIsStored'
<1> USE DEF LedgerTypeOK, ReportsWhatIsStored
<1>1. ASSUME UNCHANGED <<batch, inserted, sent>>,
             \A q \in Collectors : failed'[q] = {} => failed[q] = {}
      PROVE  LedgerTypeOK' /\ ReportsWhatIsStored'
  BY <1>1
<1>2. ASSUME NEW p \in Collectors, CloseLedger(p),
             \A q \in Collectors \ {p} : failed'[q] = failed[q]
      PROVE  LedgerTypeOK' /\ ReportsWhatIsStored'
  BY <1>2 DEF CloseLedger
<1>3. ASSUME NEW p \in Collectors, Forget(p)
      PROVE  \A q \in Collectors \ {p} : failed'[q] = failed[q]
  BY <1>3 DEF Forget, TypeOK
<1>4. ASSUME NEW p \in Collectors, FileSummary(p) \/ AbandonLedger(p)
      PROVE  LedgerTypeOK' /\ ReportsWhatIsStored'
  BY <1>2, <1>3, <1>4 DEF FileSummary, WriteSummary, AbandonLedger, CycleFails, Crash
<1>5. ASSUME NEW p \in Collectors, OpenLedger(p) \/ Silent(p) \/ FileStatuses(p)
      PROVE  LedgerTypeOK' /\ ReportsWhatIsStored'
  <2>1. UNCHANGED <<batch, inserted, sent>>
    BY <1>5 DEF OpenLedger, Silent, FileStatuses, ledgerVars
  <2>2. UNCHANGED failed
    BY <1>5 DEF OpenLedger, ReadClock, Silent, FetchMeta, ReadWatermarks, BeginWindow, ScanGaps,
      ScanGapsFails, BeginGap, StartWindow, FetchPage, FetchEnds, FileStatuses, vars
  <2> QED BY <1>1, <2>1, <2>2
<1>6. ASSUME NEW p \in Collectors, CountChunk(p)
      PROVE  LedgerTypeOK' /\ ReportsWhatIsStored'
  <2> DEFINE n == Cardinality(rows[p] \ rows'[p])
  <2>1. n \in Nat
    BY ChunkSize
  <2>2. /\ batch' = [batch EXCEPT ![p] = @ + n] /\ sent' = [sent EXCEPT ![p] = @ + n]
        /\ UNCHANGED <<inserted, failed>>
    BY <1>6 DEF CountChunk, InsertChunk
  <2> HIDE DEF n
  <2> QED BY <2>1, <2>2
<1>7. ASSUME NEW p \in Collectors, ReportStored(p)
      PROVE  LedgerTypeOK' /\ ReportsWhatIsStored'
  <2>1. /\ inserted' = [inserted EXCEPT ![p] = @ + batch[p]] /\ batch' = [batch EXCEPT ![p] = 0]
        /\ UNCHANGED <<sent, failed>>
    BY <1>7 DEF ReportStored, InsertEnds
  <2> QED BY <2>1
<1>8. ASSUME NEW p \in Collectors, ReportFailed(p)
      PROVE  LedgerTypeOK' /\ ReportsWhatIsStored'
  <2>1. /\ batch' = [batch EXCEPT ![p] = 0] /\ UNCHANGED <<inserted, sent>>
    BY <1>8 DEF ReportFailed, ReportNone
  <2>2. MarkFailed(p)
    BY <1>8 DEF ReportFailed, FetchFails, InsertFails
  <2>3. failed'[p] # {} /\ \A q \in Collectors \ {p} : failed'[q] = failed[q]
    BY <2>2 DEF MarkFailed, TypeOK
  <2> QED BY <2>1, <2>3
<1>9. CASE \/ /\ (\E x \in Underway : StorePart(x)) \/ \E x \in inFlight : CommitInFlight(x)
              /\ UNCHANGED ledgerVars
           \/ Environment /\ UNCHANGED ledgerVars
           \/ UNCHANGED allVars
  BY <1>1, <1>9 DEF StorePart, CommitInFlight, Environment, ledgerVars, allVars, vars
<1> QED BY <1>4, <1>5, <1>6, <1>7, <1>8, <1>9 DEF LedgerNext

\* The candles a cycle reports (candles_inserted in app.py) are in the table: never more
\* than its inserts have put there, and exactly as many as long as no window has failed.
THEOREM ReportsAreHonest == LedgerSpec => []ReportsWhatIsStored
<1>1. LedgerInit => LedgerTypeOK /\ ReportsWhatIsStored
  BY DEF LedgerInit, LedgerTypeOK, ReportsWhatIsStored
<1>2. TypeOK /\ TypeOK' /\ TracksSelection /\ LedgerTypeOK /\ ReportsWhatIsStored
        /\ [LedgerNext]_allVars => LedgerTypeOK' /\ ReportsWhatIsStored'
  BY ReportsNext
<1> QED BY <1>1, <1>2, LedgerObserves, TypingInvariant, PTL DEF LedgerSpec

-----------------------------------------------------------------------------
(* The two tables agree.                                                   *)

StatusRows == [initial : Nat, stored : Nat, failed : Nat, skipped : Nat, candles : Nat]

AccountTypeOK ==
  /\ statuses \in [Collectors -> [Symbols -> StatusRows]]
  /\ account \in [Collectors ->
       [rows : [Symbols -> StatusRows],
        report : [mode : {"none", "initial", "incremental"}, run : RunRows, candles : Nat]]]
  /\ filed \in [Collectors -> BOOLEAN]

\* The window of s, if it has one, has been stored or has failed.
WindowOver(p, s) == s \in selected[p] \ todo[p] /\ ~WindowInHand(p, s)

\* The rows of s tell what became of it so far.
RowInv(p, s) ==
  LET r == statuses[p][s] IN
  /\ r.skipped > 0 <=> s \in Unknown(selected[p])
  /\ r.failed > 0 <=> s \in failed[p]
  /\ r.stored > 0 => s \in selected[p]
  /\ r.initial > 0 => s \in selected[p] /\ IsNew(p, s)
  /\ WindowOver(p, s) =>
       /\ r.stored > 0 \/ r.failed > 0
       /\ IsNew(p, s) => r.initial > 0

StatusInv(p) ==
  IF AfterClock(p) THEN \A s \in Symbols : RowInv(p, s)
                   ELSE statuses[p] = NoStatuses /\ failed[p] = {}

\* Between the status rows and the run row.
FiledInv(p) ==
  filed[p] =>
    /\ pc[p] = "gaps" /\ gaps[p] = {}
    /\ account[p].report = NoReport
    /\ account[p].rows \in {statuses[p], NoStatuses}

ReportInv(p) == StatusInv(p) /\ FiledInv(p)

\* What SymbolsAgree says of one process.
Agree(p) ==
  Filed(p) =>
    LET r == account[p].rows
        report == account[p].report
    IN  /\ report.run.failed = Cardinality({s \in Symbols : r[s].failed > 0})
        /\ report.run.skipped = Cardinality({s \in Symbols : r[s].skipped > 0})
        /\ report.run.ok = Cardinality({s \in Symbols : r[s].stored > 0 /\ r[s].failed = 0})
        /\ report.mode = "initial" <=> \E s \in Symbols : r[s].initial > 0

\* Every selected symbol has a window: no watermark is ahead of the clock by more
\* than the overlap.
LEMMA EveryoneHasWindow ==
  ASSUME IndInv, NEW p \in Collectors
  PROVE  Windows(p, LastClosed) = selected[p]
<1> SUFFICES ASSUME NEW s \in selected[p], ~IsNew(p, s)
             PROVE  OverlapStart(watermark[p][s], LastClosed) <= LastClosed
  BY DEF Windows
<1>1. s \in Symbols /\ watermark[p][s] \in stored[s] /\ now \in Int /\ TypeOK
  BY Numbers DEF IndInv, TypeOK, IngestionInv, CollectorInv
<1>2. watermark[p][s] \in Published(s)
  BY <1>1 DEF IndInv, IngestionInv, ClosedOnly
<1>3. watermark[p][s] \in Int /\ watermark[p][s] < now
  BY <1>1, <1>2, PublishedIsClosed, Numbers DEF IndInv, IngestionInv
<1> QED BY <1>1, <1>3, IngestionAssumption DEF OverlapStart, Later, HorizonFloor, LastClosed

\* The run row that follows the status rows agrees with them.
LEMMA SummaryAgrees ==
  ASSUME TypeOK, TracksSelection, AccountTypeOK, NEW p \in Collectors, StatusInv(p),
         pc[p] = "gaps", todo[p] = {}
  PROVE  LET r == statuses[p] IN
         /\ Summary(p).failed = Cardinality({s \in Symbols : r[s].failed > 0})
         /\ Summary(p).skipped = Cardinality({s \in Symbols : r[s].skipped > 0})
         /\ Summary(p).ok = Cardinality({s \in Symbols : r[s].stored > 0 /\ r[s].failed = 0})
         /\ RunMode(p) = "initial" <=> \E s \in Symbols : r[s].initial > 0
<1> DEFINE r == statuses[p]
<1>1. /\ selected[p] \subseteq Symbols /\ failed[p] \subseteq selected[p]
      /\ \A s \in Symbols : r[s] \in StatusRows
  BY DEF TypeOK, TracksSelection, AccountTypeOK
<1>2. \A s \in Symbols :
        /\ r[s].skipped > 0 <=> s \in Unknown(selected[p])
        /\ r[s].failed > 0 <=> s \in failed[p]
        /\ r[s].stored > 0 => s \in selected[p]
        /\ r[s].initial > 0 => s \in selected[p] /\ IsNew(p, s)
        /\ s \in selected[p] =>
             /\ r[s].stored > 0 \/ r[s].failed > 0
             /\ IsNew(p, s) => r[s].initial > 0
  BY DEF StatusInv, RowInv, AfterClock, WindowOver, WindowInHand
<1>3. {s \in Symbols : r[s].failed > 0} = failed[p]
  BY <1>1, <1>2
<1>4. {s \in Symbols : r[s].skipped > 0} = Unknown(selected[p])
  BY <1>2, IngestionAssumption DEF Unknown
<1>5. {s \in Symbols : r[s].stored > 0 /\ r[s].failed = 0} = selected[p] \ failed[p]
  <2>1. \A s \in Symbols : r[s].failed \in Nat
    BY <1>1 DEF StatusRows
  <2>2. ASSUME NEW s \in Symbols PROVE r[s].failed = 0 <=> ~(r[s].failed > 0)
    <3>1. r[s].failed \in Nat
      BY <2>1
    <3> HIDE DEF r
    <3> QED BY <3>1
  <2> QED BY <1>1, <1>2, <2>2
<1>6. Cardinality(selected[p] \ failed[p]) = Cardinality(selected[p]) - Cardinality(failed[p])
  <2>1. selected[p] \cap failed[p] = failed[p] /\ IsFiniteSet(selected[p])
    BY <1>1, IngestionAssumption, FS_Subset
  <2>2. Cardinality(selected[p] \ failed[p])
          = Cardinality(selected[p]) - Cardinality(selected[p] \cap failed[p])
    BY <2>1, FS_Difference, ZenonT(30)
  <2> QED BY <2>1, <2>2
<1>7. RunMode(p) = "initial" <=> \E s \in Symbols : r[s].initial > 0
  BY <1>1, <1>2 DEF RunMode
<1> QED BY <1>3, <1>4, <1>5, <1>6, <1>7 DEF Summary

\* What a cycle has reported stays true whatever the others do.
LEMMA ReportKeeps ==
  ASSUME NEW q \in Collectors, ReportInv(q), Agree(q), AtRest(q),
         statuses'[q] = statuses[q], filed'[q] = filed[q], account'[q] = account[q]
  PROVE  ReportInv(q)' /\ Agree(q)'
<1> USE DEF AtRest, Rests
<1>1. StatusInv(q)'
  BY DEF ReportInv, StatusInv, RowInv, AfterClock, WindowOver, WindowInHand, IsNew
<1>2. FiledInv(q)'
  BY DEF ReportInv, FiledInv
<1>3. Agree(q)'
  BY DEF Agree, Filed
<1> QED BY <1>1, <1>2, <1>3 DEF ReportInv

\* Nothing is reported before the windows.
LEMMA EarlyReport ==
  ASSUME NEW p \in Collectors, pc'[p] \in {"idle", "watermarks", "clock"},
         statuses'[p] = NoStatuses, failed'[p] = {}, filed'[p] = FALSE
  PROVE  ReportInv(p)'
BY DEF ReportInv, StatusInv, FiledInv, AfterClock

\* No cycle goes on once its status rows are filed, but to the run row.
LEMMA NotFiled ==
  ASSUME AccountTypeOK, NEW p \in Collectors, ReportInv(p),
         OpenLedger(p) \/ Silent(p) \/ CountChunk(p) \/ ReportStored(p) \/ ReportFailed(p)
  PROVE  filed[p] = FALSE /\ filed' = filed /\ account' = account
<1>1. pc[p] # "gaps" \/ gaps[p] # {}
  BY DEF OpenLedger, ReadClock, Silent, FetchMeta, ReadWatermarks, BeginWindow, ScanGaps,
    ScanGapsFails, BeginGap, FetchPage, FetchEnds, CountChunk, InsertChunk, ReportStored,
    InsertEnds, ReportFailed, FetchFails, InsertFails
<1>2. filed' = filed /\ account' = account
  BY DEF OpenLedger, Silent, CountChunk, ReportStored, ReportFailed, ledgerVars
<1> QED BY <1>1, <1>2 DEF AccountTypeOK, ReportInv, FiledInv

LEMMA OpenStatus ==
  ASSUME IndInv, AccountTypeOK, NEW p \in Collectors, StatusInv(p), OpenLedger(p)
  PROVE  StatusInv(p)'
<1>1. /\ pc[p] = "clock" /\ pc'[p] = "windows" /\ todo'[p] = selected[p]
      /\ UNCHANGED <<selected, watermark, failed>>
  BY EveryoneHasWindow DEF OpenLedger, ReadClock, IndInv, TypeOK
<1>2. statuses'[p] = [s \in Symbols |->
        IF s \in Unknown(selected[p]) THEN [NoStatus EXCEPT !.skipped = 1] ELSE NoStatus]
  BY DEF OpenLedger, AccountTypeOK
<1>3. failed[p] = {}
  BY <1>1 DEF StatusInv, AfterClock
<1> QED BY <1>1, <1>2, <1>3 DEF StatusInv, RowInv, AfterClock, WindowOver, NoStatus

LEMMA SilentStatus ==
  ASSUME IndInv, NEW p \in Collectors, StatusInv(p), Silent(p)
  PROVE  StatusInv(p)'
<1> USE DEF StatusInv, RowInv, AfterClock, WindowOver, WindowInHand
<1>1. statuses' = statuses /\ failed' = failed /\ TypeOK
  BY DEF Silent, ledgerVars, FetchMeta, ReadWatermarks, BeginWindow, ScanGaps, ScanGapsFails,
    BeginGap, StartWindow, FetchPage, FetchEnds, IndInv
<1>2. CASE FetchMeta(p) \/ ReadWatermarks(p)
  BY <1>1, <1>2 DEF FetchMeta, ReadWatermarks, TypeOK
<1>3. CASE \E s \in Symbols : BeginWindow(p, s)
  BY <1>1, <1>3 DEF BeginWindow, StartWindow, TypeOK, IsNew
<1>4. CASE ScanGaps(p) \/ ScanGapsFails(p)
  BY <1>1, <1>4 DEF ScanGaps, ScanGapsFails, TypeOK, IsNew, planVars
<1>5. CASE \E g \in Gaps : BeginGap(p, g)
  BY <1>1, <1>5 DEF BeginGap, StartWindow, TypeOK, IsNew
<1>6. CASE FetchPage(p) \/ FetchEnds(p)
  BY <1>1, <1>6 DEF FetchPage, FetchEnds, TypeOK, IsNew, planVars, windowVars
<1> QED BY <1>2, <1>3, <1>4, <1>5, <1>6 DEF Silent

\* The row of the window in hand: stored or failed.
LEMMA EndStatus ==
  ASSUME IndInv, AccountTypeOK, NEW p \in Collectors, StatusInv(p),
         ReportStored(p) \/ ReportFailed(p)
  PROVE  StatusInv(p)'
<1> DEFINE r == statuses[p]
           r2 == statuses'[p]
<1>1. /\ pc[p] \in {"fetch", "insert"} /\ EndWindow(p) /\ WindowInv(p) /\ TypeOK
      /\ UNCHANGED planVars /\ job[p].sym \in selected[p]
  BY DEF ReportStored, InsertEnds, ReportFailed, FetchFails, InsertFails, IndInv, IngestionInv,
    CollectorInv, TracksSelection
<1>0. PICK s \in Symbols : s = job[p].sym
  BY <1>1 DEF TypeOK
<1>2. pc'[p] \in {"windows", "gaps"} /\ s = job[p].sym
  BY <1>0, <1>1 DEF EndWindow, WindowInv, Jobs, TypeOK
<1>3. \A t \in Symbols \ {s} : r2[t] = r[t]
  BY <1>2 DEF ReportStored, ReportFailed, AccountTypeOK
<1>4. /\ r2[s].initial = r[s].initial + InitialRow(p) /\ r2[s].skipped = r[s].skipped
      /\ ReportStored(p) => r2[s].stored = r[s].stored + 1 /\ r2[s].failed = r[s].failed
      /\ ReportFailed(p) => r2[s].stored = r[s].stored /\ r2[s].failed = r[s].failed + 1
  <2>1. statuses \in [Collectors -> [Symbols -> StatusRows]] /\ r[s] \in StatusRows
    BY <1>2 DEF AccountTypeOK
  <2>2. /\ ReportStored(p) => r2[s] = WithStored(p)
        /\ ReportFailed(p) => r2[s] = WithFailed(p)
    BY <1>2, <2>1 DEF ReportStored, ReportFailed
  <2> HIDE DEF r2
  <2> QED BY <1>2, <2>1, <2>2 DEF StatusRows, WithStored, WithFailed
<1>5. /\ r[s].initial \in Nat /\ r[s].stored \in Nat /\ r[s].failed \in Nat
      /\ InitialRow(p) \in {0, 1}
  BY <1>2 DEF AccountTypeOK, StatusRows, InitialRow
<1>6. /\ ReportStored(p) => failed'[p] = failed[p]
      /\ ReportFailed(p) => failed'[p] = failed[p] \cup {s}
  BY <1>1, <1>2
  DEF ReportStored, InsertEnds, ReportFailed, FetchFails, InsertFails, MarkFailed, TypeOK
<1>7. InitialRow(p) = 1 <=> WindowInHand(p, s) /\ IsNew(p, s)
  BY <1>1, <1>2 DEF InitialRow, WindowInHand
<1>8. \A t \in Symbols : RowInv(p, t)
  BY <1>1 DEF StatusInv, AfterClock
<1>9. \A t \in Symbols : IsNew(p, t)' <=> IsNew(p, t)
  BY <1>1 DEF planVars, IsNew
<1>10. /\ \A t \in Symbols \ {s} : WindowOver(p, t)' => WindowOver(p, t)
       /\ WindowOver(p, s)' => WindowOver(p, s) \/ WindowInHand(p, s)
  <2>1. \A t : t \in (selected[p] \ todo[p])' => t \in selected[p] \ todo[p]
    BY <1>1 DEF planVars
  <2>2. \A t : WindowInHand(p, t) => t = s
    BY <1>2 DEF WindowInHand
  <2> QED BY <2>1, <2>2 DEF WindowOver
<1>11. selected'[p] = selected[p]
  BY <1>1 DEF planVars
<1>12. ASSUME NEW t \in Symbols \ {s} PROVE RowInv(p, t)'
  BY <1>3, <1>6, <1>8, <1>9, <1>10, <1>11 DEF RowInv
<1>13. RowInv(p, s)'
  <2>1. r2[s].skipped > 0 <=> s \in Unknown(selected'[p])
    BY <1>4, <1>8, <1>11 DEF RowInv
  <2>2. r2[s].failed > 0 <=> s \in failed'[p]
    <3>1. CASE ReportStored(p)
      BY <1>4, <1>6, <1>8, <3>1 DEF RowInv
    <3>2. CASE ReportFailed(p)
      BY <1>4, <1>5, <1>6, <3>2
    <3> QED BY <3>1, <3>2
  <2>3. r2[s].initial > 0 <=> r[s].initial > 0 \/ (WindowInHand(p, s) /\ IsNew(p, s))
    BY <1>4, <1>5, <1>7
  <2>4. r2[s].initial > 0 => s \in selected'[p] /\ IsNew(p, s)'
    BY <1>1, <1>2, <1>8, <1>9, <1>11, <2>3 DEF RowInv
  <2>5. r2[s].stored > 0 \/ r2[s].failed > 0
    BY <1>4, <1>5
  <2>6. WindowOver(p, s)' /\ IsNew(p, s)' => r2[s].initial > 0
    BY <1>8, <1>9, <1>10, <2>3 DEF RowInv
  <2> QED BY <1>1, <1>2, <1>11, <2>1, <2>2, <2>4, <2>5, <2>6 DEF RowInv
<1>14. AfterClock(p)'
  BY <1>2 DEF AfterClock
<1> QED BY <1>12, <1>13, <1>14 DEF StatusInv

LEMMA EmptyTypes ==
  /\ NoStatus \in StatusRows /\ NoStatuses \in [Symbols -> StatusRows]
  /\ [NoStatus EXCEPT !.skipped = 1] \in StatusRows
  /\ NoReport \in [mode : {"none", "initial", "incremental"}, run : RunRows, candles : Nat]
  /\ FailedReport \in [mode : {"none", "initial", "incremental"}, run : RunRows, candles : Nat]
BY DEF NoStatus, NoStatuses, StatusRows, NoReport, NoRun, FailedReport, FailedRun, RunRows

LEMMA OneMoreRow ==
  ASSUME NEW r \in StatusRows, NEW i \in Nat, NEW n \in Nat
  PROVE  /\ [r EXCEPT !.initial = @ + i, !.stored = @ + 1, !.candles = @ + n] \in StatusRows
         /\ [r EXCEPT !.initial = @ + i, !.failed = @ + 1] \in StatusRows
<1>1. /\ r.initial + i \in Nat /\ r.stored + 1 \in Nat /\ r.failed + 1 \in Nat
      /\ r.candles + n \in Nat
  BY DEF StatusRows
<1> QED BY <1>1 DEF StatusRows

\* A cycle that did not write to both tables has nothing to agree on.
LEMMA Unfiled ==
  ASSUME NEW p \in Collectors, account'[p].report = NoReport \/ account'[p].rows = NoStatuses
  PROVE  Agree(p)'
<1>1. ~Filed(p)'
  BY DEF Filed, NoReport, NoStatuses, NoRun, NoStatus
<1> QED BY <1>1 DEF Agree

LEMMA AccountTypeNext ==
  ASSUME TypeOK, TracksSelection, LedgerTypeOK, AccountTypeOK, [LedgerNext]_allVars
  PROVE  AccountTypeOK'
<1> DEFINE Reports == [mode : {"none", "initial", "incremental"}, run : RunRows, candles : Nat]
           Accounts == [rows : [Symbols -> StatusRows], report : Reports]
           Statuses == [Symbols -> StatusRows]
<1>1. /\ statuses \in [Collectors -> Statuses] /\ account \in [Collectors -> Accounts]
      /\ filed \in [Collectors -> BOOLEAN]
  BY DEF AccountTypeOK
<1>2. ASSUME statuses' \in [Collectors -> Statuses], account' \in [Collectors -> Accounts],
             filed' \in [Collectors -> BOOLEAN]
      PROVE  AccountTypeOK'
  BY <1>2 DEF AccountTypeOK
<1>3. /\ NoStatuses \in Statuses /\ NoReport \in Reports /\ FailedReport \in Reports
      /\ \A r \in Statuses, x \in Reports : [rows |-> r, report |-> x] \in Accounts
  BY EmptyTypes
<1>4. /\ \A r \in Statuses : [NoAccount EXCEPT !.rows = r] = [rows |-> r, report |-> NoReport]
      /\ \A x \in Reports :
           [NoAccount EXCEPT !.report = x] = [rows |-> NoStatuses, report |-> x]
      /\ NoAccount = [rows |-> NoStatuses, report |-> NoReport]
  BY DEF NoAccount
<1> HIDE DEF Reports, Accounts, Statuses
<1>5. ASSUME NEW p \in Collectors, CloseLedger(p), account' \in [Collectors -> Accounts]
      PROVE  AccountTypeOK'
  BY <1>1, <1>2, <1>3, <1>5 DEF CloseLedger
<1>6. ASSUME NEW p \in Collectors, OpenLedger(p) PROVE AccountTypeOK'
  <2>1. [s \in Symbols |->
          IF s \in Unknown(selected[p]) THEN [NoStatus EXCEPT !.skipped = 1] ELSE NoStatus]
          \in Statuses
    BY EmptyTypes DEF Statuses
  <2> QED BY <1>1, <1>2, <1>6, <2>1 DEF OpenLedger
<1>7. ASSUME NEW p \in Collectors, ReportStored(p) \/ ReportFailed(p) PROVE AccountTypeOK'
  <2>1. pc[p] \in {"fetch", "insert"}
    BY <1>7 DEF ReportStored, InsertEnds, ReportFailed, FetchFails, InsertFails
  <2>2. PICK s \in Symbols : s = job[p].sym
    BY <2>1 DEF TracksSelection, TypeOK
  <2>3. statuses[p][s] \in StatusRows /\ batch[p] \in Nat /\ InitialRow(p) \in Nat
    BY <1>1 DEF LedgerTypeOK, InitialRow, Statuses
  <2>4. WithStored(p) \in StatusRows /\ WithFailed(p) \in StatusRows
    BY <2>2, <2>3, OneMoreRow DEF WithStored, WithFailed
  <2>5. \E x \in StatusRows : statuses' = [statuses EXCEPT ![p][s] = x]
    BY <1>7, <2>2, <2>4 DEF ReportStored, ReportFailed
  <2>6. statuses' \in [Collectors -> Statuses]
    BY <1>1, <2>5 DEF Statuses
  <2> QED BY <1>1, <1>2, <1>7, <2>6 DEF ReportStored, ReportFailed
<1>8. ASSUME NEW p \in Collectors, FileStatuses(p) PROVE AccountTypeOK'
  <2>1. \E r \in Statuses : account' = [account EXCEPT ![p] = [rows |-> r, report |-> NoReport]]
    BY <1>1, <1>3, <1>4, <1>8 DEF FileStatuses, InsertStatuses
  <2>2. account' \in [Collectors -> Accounts]
    BY <1>1, <1>3, <2>1
  <2> QED BY <1>1, <1>2, <1>8, <2>2 DEF FileStatuses
<1>9. ASSUME NEW p \in Collectors, FileSummary(p) PROVE AccountTypeOK'
  <2> DEFINE x == [mode |-> RunMode(p), run |-> Summary(p), candles |-> inserted[p]]
  <2>1. x \in Reports
    BY SummaryType DEF Reports, RunMode, LedgerTypeOK
  <2>2. account' = account \/ account' = [account EXCEPT ![p].report = x]
    BY <1>9 DEF FileSummary, InsertSummary
  <2> HIDE DEF x
  <2>3. account' \in [Collectors -> Accounts]
    BY <1>1, <2>1, <2>2 DEF Accounts
  <2> QED BY <1>5, <1>9, <2>3 DEF FileSummary
<1>10. ASSUME NEW p \in Collectors, AbandonLedger(p) PROVE AccountTypeOK'
  <2>1. \/ account' = account
        \/ account' = [account EXCEPT ![p] = [rows |-> NoStatuses, report |-> FailedReport]]
    BY <1>3, <1>4, <1>10 DEF AbandonLedger
  <2>2. account' \in [Collectors -> Accounts]
    BY <1>1, <1>3, <2>1
  <2> QED BY <1>5, <1>10, <2>2 DEF AbandonLedger
<1>11. ASSUME UNCHANGED <<statuses, account, filed>> PROVE AccountTypeOK'
  BY <1>1, <1>2, <1>11
<1> QED BY <1>6, <1>7, <1>8, <1>9, <1>10, <1>11
        DEF LedgerNext, Silent, CountChunk, ledgerVars, allVars

LEMMA ReportStep ==
  ASSUME IndInv, SuccessInv, AccountTypeOK, AccountTypeOK', NEW p \in Collectors, ReportInv(p),
         Agree(p),
         \/ OpenLedger(p) \/ Silent(p) \/ CountChunk(p) \/ ReportStored(p) \/ ReportFailed(p)
         \/ FileStatuses(p) \/ FileSummary(p) \/ AbandonLedger(p)
  PROVE  ReportInv(p)' /\ Agree(p)'
<1>1. TypeOK /\ StatusInv(p) /\ FiledInv(p)
  BY DEF IndInv, ReportInv
<1>2. CASE OpenLedger(p) \/ Silent(p) \/ CountChunk(p) \/ ReportStored(p) \/ ReportFailed(p)
  <2>1. filed'[p] = FALSE /\ account' = account
    BY <1>2, NotFiled
  <2>2. StatusInv(p)'
    <3>1. CASE CountChunk(p)
      BY <1>1, <3>1
      DEF CountChunk, InsertChunk, planVars, StatusInv, RowInv, AfterClock, WindowOver,
        WindowInHand, IsNew
    <3> QED BY <1>1, <1>2, <3>1, OpenStatus, SilentStatus, EndStatus
  <2> QED BY <2>1, <2>2 DEF ReportInv, FiledInv, Agree, Filed
<1>3. CASE FileStatuses(p)
  <2>1. /\ UNCHANGED vars /\ statuses' = statuses /\ pc[p] = "gaps" /\ gaps[p] = {}
        /\ account'[p].report = NoReport /\ account'[p].rows \in {statuses[p], NoStatuses}
    BY <1>3 DEF FileStatuses, InsertStatuses, NoAccount, AccountTypeOK
  <2>2. StatusInv(p)' /\ FiledInv(p)'
    BY <1>1, <2>1
    DEF FiledInv, vars, planVars, windowVars, StatusInv, RowInv, AfterClock, WindowOver,
      WindowInHand, IsNew
  <2> QED BY <2>1, <2>2 DEF ReportInv, Agree, Filed
<1>4. ASSUME CloseLedger(p), Forget(p) PROVE ReportInv(p)'
  BY <1>1, <1>4, EarlyReport DEF CloseLedger, Forget, TypeOK, AccountTypeOK
<1>5. CASE FileSummary(p)
  <2>1. ReportInv(p)'
    BY <1>4, <1>5 DEF FileSummary, WriteSummary
  <2>2. /\ account[p].report = NoReport /\ account[p].rows \in {statuses[p], NoStatuses}
        /\ pc[p] = "gaps"
    BY <1>1, <1>5 DEF FileSummary, FiledInv, WriteSummary
  <2>3. CASE account' = account
    BY <2>1, <2>2, <2>3, Unfiled
  <2>4. CASE InsertSummary(p)
    <3>1. /\ account'[p].rows = account[p].rows
          /\ account'[p].report =
               [mode |-> RunMode(p), run |-> Summary(p), candles |-> inserted[p]]
      BY <2>4 DEF InsertSummary, AccountTypeOK
    <3>2. todo[p] = {}
      BY <2>2 DEF SuccessInv, CycleInv, PhaseInv, AfterWindows
    <3>3. LET r == statuses[p] IN
          /\ Summary(p).failed = Cardinality({s \in Symbols : r[s].failed > 0})
          /\ Summary(p).skipped = Cardinality({s \in Symbols : r[s].skipped > 0})
          /\ Summary(p).ok = Cardinality({s \in Symbols : r[s].stored > 0 /\ r[s].failed = 0})
          /\ RunMode(p) = "initial" <=> \E s \in Symbols : r[s].initial > 0
      BY <1>1, <2>2, <3>2, SummaryAgrees DEF IndInv, IngestionInv
    <3>4. CASE account[p].rows = NoStatuses
      BY <2>1, <3>1, <3>4, Unfiled
    <3>5. CASE account[p].rows = statuses[p]
      <4>1. account'[p].rows = statuses[p]
        BY <3>1, <3>5
      <4>2. /\ account'[p].report.run = Summary(p) /\ account'[p].report.mode = RunMode(p)
        BY <3>1
      <4> QED BY <2>1, <3>3, <4>1, <4>2 DEF Agree
    <3> QED BY <2>2, <3>4, <3>5
  <2> QED BY <1>5, <2>1, <2>3, <2>4 DEF FileSummary
<1>6. CASE AbandonLedger(p)
  <2>1. ReportInv(p)'
    BY <1>4, <1>6 DEF AbandonLedger, CycleFails, Crash
  <2>2. account'[p] = account[p] \/ account'[p].rows = NoStatuses
    BY <1>6 DEF AbandonLedger, AccountTypeOK, NoAccount
  <2> QED BY <2>1, <2>2 DEF Agree, Filed, NoStatuses
<1> QED BY <1>2, <1>3, <1>5, <1>6

ReportsInv == AccountTypeOK /\ \A p \in Collectors : ReportInv(p) /\ Agree(p)

LEMMA ReportsInvNext ==
  ASSUME IndInv, SuccessInv, LedgerTypeOK, ReportsInv, [LedgerNext]_allVars
  PROVE  ReportsInv'
<1>1. TypeOK /\ AccountTypeOK /\ AccountTypeOK' /\ TracksSelection
  BY AccountTypeNext DEF IndInv, IngestionInv, ReportsInv
<1>2. ASSUME NEW q \in Collectors, AtRest(q), statuses'[q] = statuses[q], filed'[q] = filed[q],
             account'[q] = account[q]
      PROVE  ReportInv(q)' /\ Agree(q)'
  BY <1>2, ReportKeeps DEF ReportsInv
<1>3. ASSUME NEW p \in Collectors,
             \/ OpenLedger(p) \/ Silent(p) \/ CountChunk(p) \/ ReportStored(p) \/ ReportFailed(p)
             \/ FileStatuses(p) \/ FileSummary(p) \/ AbandonLedger(p)
      PROVE  ReportsInv'
  <2>1. ReportInv(p)' /\ Agree(p)'
    BY <1>1, <1>3, ReportStep DEF ReportsInv
  <2>2. \A q \in Collectors \ {p} :
          statuses'[q] = statuses[q] /\ filed'[q] = filed[q] /\ account'[q] = account[q]
    BY <1>1, <1>3
    DEF AccountTypeOK, OpenLedger, Silent, CountChunk, ReportStored, ReportFailed, FileStatuses,
      InsertStatuses, FileSummary, InsertSummary, AbandonLedger, CloseLedger, ledgerVars
  <2>3. \A q \in Collectors \ {p} : AtRest(q)
    <3>1. CASE FileStatuses(p)
      BY <3>1 DEF FileStatuses, vars, planVars, windowVars, AtRest, Rests
    <3>2. CASE ~FileStatuses(p)
      <4>1. Progress(p) \/ Failure(p)
        BY <1>3, <3>2 DEF OpenLedger, Silent, CountChunk, ReportStored, ReportFailed,
          FileSummary, AbandonLedger, Progress, Failure
      <4> QED BY <1>1, <4>1, OthersRest
    <3> QED BY <3>1, <3>2
  <2> QED BY <1>1, <1>2, <2>1, <2>2, <2>3 DEF ReportsInv
<1>4. CASE \/ /\ (\E x \in Underway : StorePart(x)) \/ \E x \in inFlight : CommitInFlight(x)
              /\ UNCHANGED ledgerVars
           \/ Environment /\ UNCHANGED ledgerVars
           \/ UNCHANGED allVars
  <2>1. UNCHANGED <<statuses, filed, account>>
    BY <1>4 DEF ledgerVars, allVars
  <2>2. \A q \in Collectors : AtRest(q)
    BY <1>4
    DEF StorePart, CommitInFlight, Environment, allVars, vars, planVars, windowVars, AtRest, Rests
  <2> QED BY <1>1, <1>2, <2>1, <2>2 DEF ReportsInv
<1> QED BY <1>3, <1>4 DEF LedgerNext

LEMMA LedgerInvariant == LedgerSpec => [](IndInv /\ LedgerTypeOK /\ ReportsInv)
<1>1. LedgerInit => LedgerTypeOK /\ ReportsWhatIsStored
  BY DEF LedgerInit, LedgerTypeOK, ReportsWhatIsStored
<1>2. LedgerInit => ReportsInv
  <2> SUFFICES ASSUME LedgerInit PROVE ReportsInv
    OBVIOUS
  <2>1. AccountTypeOK
    BY EmptyTypes DEF LedgerInit, AccountTypeOK, NoAccount
  <2>2. ASSUME NEW p \in Collectors PROVE ReportInv(p) /\ Agree(p)
    BY DEF LedgerInit, Init, ReportInv, StatusInv, AfterClock, FiledInv, Agree, Filed, NoAccount,
      NoStatuses
  <2> QED BY <2>1, <2>2 DEF ReportsInv
<1>3. TypeOK /\ TypeOK' /\ TracksSelection /\ LedgerTypeOK /\ ReportsWhatIsStored
        /\ [LedgerNext]_allVars => LedgerTypeOK' /\ ReportsWhatIsStored'
  BY ReportsNext
<1>4. IndInv /\ SuccessInv /\ LedgerTypeOK /\ ReportsInv /\ [LedgerNext]_allVars => ReportsInv'
  BY ReportsInvNext
<1> QED BY <1>1, <1>2, <1>3, <1>4, LedgerObserves, TypingInvariant, SuccessInvariant, PTL
        DEF LedgerSpec

\* The rows a cycle writes to ingestion_symbol_status and to ingestion_runs
\* (storage/runs.py) tell the same of its symbols, though they are built up apart from
\* each other over three phases and either write may fail or be cut off.
THEOREM TablesTellTheSame == LedgerSpec => []SymbolsAgree
<1>1. ReportsInv => SymbolsAgree
  BY DEF ReportsInv, Agree, SymbolsAgree
<1> QED BY <1>1, LedgerInvariant, PTL

-----------------------------------------------------------------------------
(* Every symbol has one outcome.                                           *)

\* In allowlist mode only allowlisted symbols are ever selected.
SelectsAllowlisted ==
  SymbolsMode = "allowlist" => \A p \in Collectors : selected[p] \subseteq SymbolsAllowlist

LEMMA SelectionNext ==
  ASSUME TypeOK, SelectsAllowlisted, [Next]_vars
  PROVE  SelectsAllowlisted'
<1>1. ASSUME UNCHANGED selected PROVE SelectsAllowlisted'
  BY <1>1 DEF SelectsAllowlisted
<1>2. ASSUME NEW p \in Collectors, FetchMeta(p) PROVE SelectsAllowlisted'
  BY <1>2 DEF FetchMeta, Selection, SelectsAllowlisted, TypeOK
<1>3. ASSUME NEW p \in Collectors, Forget(p) PROVE SelectsAllowlisted'
  BY <1>3 DEF Forget, SelectsAllowlisted, TypeOK
<1>4. ASSUME NEW p \in Collectors, Progress(p), ~FetchMeta(p), ~WriteSummary(p)
      PROVE  UNCHANGED selected
  BY <1>4 DEF Progress, ReadWatermarks, ReadClock, BeginWindow, ScanGaps, BeginGap, StartWindow,
    FetchPage, FetchEnds, InsertChunk, InsertEnds, planVars
<1>5. ASSUME NEW p \in Collectors, Failure(p), ~Forget(p) PROVE UNCHANGED selected
  BY <1>5 DEF Failure, CycleFails, ScanGapsFails, FetchFails, InsertFails, Crash, planVars
<1>6. CASE \/ (\E x \in Underway : StorePart(x)) \/ (\E x \in inFlight : CommitInFlight(x))
           \/ Environment \/ UNCHANGED vars
  BY <1>1, <1>6 DEF StorePart, CommitInFlight, Environment, vars, planVars
<1> QED BY <1>1, <1>2, <1>3, <1>4, <1>5, <1>6 DEF Next, WriteSummary

\* Once the gaps are over every selected symbol has a row, and only unknown ones
\* are skipped.
LEMMA OutcomesAreOne ==
  ASSUME IndInv, SuccessInv, ReportsInv, SelectsAllowlisted
  PROVE  OneOutcomeEach
<1> SUFFICES ASSUME NEW p \in Collectors, NEW s \in Symbols, Reported(p)
             PROVE  LET handled    == statuses[p][s].stored > 0 \/ statuses[p][s].failed > 0
                        skipped    == statuses[p][s].skipped > 0
                        configured == SymbolsMode = "allowlist" /\ s \in SymbolsAllowlist
                    IN  /\ handled <=> s \in selected[p]
                        /\ skipped <=> configured /\ ~handled
                        /\ SymbolsMode = "allowlist" /\ ~configured => ~handled
  BY DEF OneOutcomeEach
<1>1. RowInv(p, s) /\ failed[p] \subseteq selected[p] /\ pc[p] = "gaps"
  BY DEF Reported, AfterClock, ReportsInv, ReportInv, StatusInv, IndInv, IngestionInv,
    TracksSelection
<1>2. todo[p] = {}
  BY <1>1 DEF SuccessInv, CycleInv, PhaseInv, AfterWindows
<1>3. statuses[p][s].stored > 0 \/ statuses[p][s].failed > 0 <=> s \in selected[p]
  BY <1>1, <1>2 DEF RowInv, WindowOver, WindowInHand
<1>4. statuses[p][s].skipped > 0 <=>
        SymbolsMode = "allowlist" /\ s \in SymbolsAllowlist /\ s \notin selected[p]
  BY <1>1, IngestionAssumption DEF RowInv, Unknown
<1>5. SymbolsMode = "allowlist" /\ s \notin SymbolsAllowlist => s \notin selected[p]
  BY DEF SelectsAllowlisted
<1> QED BY <1>3, <1>4, <1>5

\* When a cycle writes its rows (app.py) every symbol of the allowlist has been handled
\* exactly if it was listed when the cycle began, else skipped, and no other symbol has
\* rows, whatever failed and whichever coins came and went in its three phases.
THEOREM EverySymbolHasOneOutcome == LedgerSpec => []OneOutcomeEach
<1>1. Init => SelectsAllowlisted
  BY DEF Init, SelectsAllowlisted
<1>2. TypeOK /\ SelectsAllowlisted /\ [Next]_vars => SelectsAllowlisted'
  BY SelectionNext
<1>3. Spec => []SelectsAllowlisted
  BY <1>1, <1>2, TypeCorrect, PTL DEF Spec
<1>4. IndInv /\ SuccessInv /\ ReportsInv /\ SelectsAllowlisted => OneOutcomeEach
  BY OutcomesAreOne
<1> QED BY <1>3, <1>4, LedgerObserves, LedgerInvariant, SuccessInvariant, PTL

-----------------------------------------------------------------------------
(* The sums agree.                                                         *)

CandlesIn(r) == [s \in Symbols |-> r[s].candles]

\* The counter of the cycle is the sum of its status rows, and so is what it filed.
SumInv(p) ==
  /\ inserted[p] = SumFunction(CandlesIn(statuses[p]))
  /\ Filed(p) => account[p].report.candles = SumFunction(CandlesIn(account[p].rows))

LEMMA SumOfNoStatuses == SumFunction(CandlesIn(NoStatuses)) = 0
<1>1. CandlesIn(NoStatuses) \in [Symbols -> {0}]
  BY DEF CandlesIn, NoStatuses, NoStatus
<1> QED BY <1>1, SumOfNothing, IngestionAssumption

\* A stored window adds its candles to one row.
LEMMA SumStored ==
  ASSUME TypeOK, TracksSelection, LedgerTypeOK, AccountTypeOK, NEW p \in Collectors,
         ReportStored(p)
  PROVE  SumFunction(CandlesIn(statuses'[p])) = SumFunction(CandlesIn(statuses[p])) + batch[p]
<1> DEFINE a == CandlesIn(statuses[p])
           b == CandlesIn(statuses'[p])
<1>1. PICK s \in Symbols : s = job[p].sym
  BY DEF TracksSelection, TypeOK, ReportStored, InsertEnds
<1>2. statuses \in [Collectors -> [Symbols -> StatusRows]] /\ batch[p] \in Nat
  BY DEF AccountTypeOK, LedgerTypeOK
<1>3. statuses'[p][s] = WithStored(p) /\ \A t \in Symbols \ {s} : statuses'[p][t] = statuses[p][t]
  BY <1>1, <1>2 DEF ReportStored
<1>4. statuses[p][s] \in StatusRows
  BY <1>2
<1>5. WithStored(p).candles = statuses[p][s].candles + batch[p]
  BY <1>1, <1>4 DEF WithStored, StatusRows
<1>6. a \in [Symbols -> Nat]
  BY <1>2 DEF CandlesIn, StatusRows
<1>7. b[s] = a[s] + batch[p] /\ \A t \in Symbols \ {s} : b[t] = a[t]
  BY <1>3, <1>5 DEF CandlesIn
<1>8. b \in [Symbols -> Nat]
  <2>1. b = [t \in Symbols |-> b[t]]
    BY DEF CandlesIn
  <2>2. \A t \in Symbols : b[t] \in Nat
    BY <1>2, <1>6, <1>7
  <2> QED BY <2>1, <2>2
<1> HIDE DEF a, b
<1>9. SumFunction(b) = SumFunction(a) + batch[p]
  BY <1>2, <1>6, <1>7, <1>8, SumRises, IngestionAssumption
<1> QED BY <1>9 DEF a, b

\* Rows without candles add nothing.
LEMMA SumKept ==
  ASSUME TypeOK, TracksSelection, AccountTypeOK, NEW p \in Collectors, ReportFailed(p)
  PROVE  CandlesIn(statuses'[p]) = CandlesIn(statuses[p])
<1>1. pc[p] \in {"fetch", "insert"}
  BY DEF ReportFailed, FetchFails, InsertFails
<1>2. PICK s \in Symbols : s = job[p].sym
  BY <1>1 DEF TracksSelection, TypeOK
<1>3. statuses \in [Collectors -> [Symbols -> StatusRows]]
  BY DEF AccountTypeOK
<1>4. statuses'[p][s] = WithFailed(p) /\ \A t \in Symbols \ {s} : statuses'[p][t] = statuses[p][t]
  BY <1>2, <1>3 DEF ReportFailed
<1>5. statuses[p][s] \in StatusRows
  BY <1>3
<1>6. WithFailed(p).candles = statuses[p][s].candles
  BY <1>2, <1>5 DEF WithFailed, StatusRows
<1> QED BY <1>4, <1>6 DEF CandlesIn

LEMMA SumStep ==
  ASSUME IndInv, LedgerTypeOK, ReportsInv, ReportsInv', NEW p \in Collectors, SumInv(p),
         \/ OpenLedger(p) \/ Silent(p) \/ CountChunk(p) \/ ReportStored(p) \/ ReportFailed(p)
         \/ FileStatuses(p) \/ FileSummary(p) \/ AbandonLedger(p)
  PROVE  SumInv(p)'
<1>1. /\ TypeOK /\ TracksSelection /\ AccountTypeOK /\ ReportInv(p)
      /\ StatusInv(p) /\ StatusInv(p)' /\ FiledInv(p) /\ FiledInv(p)'
  BY DEF IndInv, IngestionInv, ReportsInv, ReportInv
<1>2. ASSUME account'[p] = account[p], inserted'[p] = inserted[p],
             CandlesIn(statuses'[p]) = CandlesIn(statuses[p])
      PROVE  SumInv(p)'
  BY <1>2 DEF SumInv, Filed, CandlesIn, NoReport, NoStatuses, NoRun, NoStatus
<1>3. CASE Silent(p) \/ CountChunk(p)
  BY <1>2, <1>3 DEF Silent, CountChunk, ledgerVars
<1>4. CASE OpenLedger(p)
  <2>1. statuses[p] = NoStatuses
    BY <1>1, <1>4 DEF StatusInv, AfterClock, OpenLedger, ReadClock
  <2>2. CandlesIn(statuses'[p]) = CandlesIn(statuses[p])
    BY <1>1, <1>4, <2>1 DEF OpenLedger, AccountTypeOK, CandlesIn, NoStatuses, NoStatus
  <2> QED BY <1>2, <1>4, <2>2 DEF OpenLedger
<1>5. CASE ReportStored(p)
  <2>1. inserted'[p] = SumFunction(CandlesIn(statuses'[p]))
    BY <1>1, <1>5, SumStored DEF ReportStored, LedgerTypeOK, SumInv
  <2>2. account' = account
    BY <1>5 DEF ReportStored
  <2> QED BY <2>1, <2>2 DEF SumInv, Filed, CandlesIn, NoReport, NoStatuses, NoRun, NoStatus
<1>6. CASE ReportFailed(p)
  BY <1>1, <1>2, <1>6, SumKept DEF ReportFailed, ReportNone
<1>7. ASSUME account'[p].report = NoReport \/ account'[p].rows = NoStatuses PROVE ~Filed(p)'
  BY <1>7 DEF Filed, NoReport, NoStatuses, NoRun, NoStatus
<1>8. CASE FileStatuses(p)
  <2>1. filed'[p] = TRUE
    BY <1>1, <1>8 DEF FileStatuses, AccountTypeOK
  <2>2. account'[p].report = NoReport
    BY <1>1, <1>8 DEF FileStatuses, InsertStatuses, NoAccount, AccountTypeOK
  <2> QED BY <1>7, <1>8, <2>2 DEF FileStatuses, SumInv
<1>9. ASSUME CloseLedger(p)
      PROVE  inserted'[p] = SumFunction(CandlesIn(statuses'[p]))
  <2>1. inserted'[p] = 0 /\ statuses'[p] = NoStatuses
    BY <1>1, <1>9 DEF CloseLedger, LedgerTypeOK, AccountTypeOK
  <2> QED BY <2>1, SumOfNoStatuses
<1>10. CASE FileSummary(p)
  <2>1. inserted'[p] = SumFunction(CandlesIn(statuses'[p]))
    BY <1>9, <1>10 DEF FileSummary
  <2>2. account[p].report = NoReport /\ account[p].rows \in {statuses[p], NoStatuses}
    BY <1>1, <1>10 DEF FileSummary, FiledInv
  <2>3. CASE account' = account
    BY <1>7, <2>1, <2>2, <2>3 DEF SumInv
  <2>4. CASE InsertSummary(p)
    <3>1. /\ account'[p].rows = account[p].rows
          /\ account'[p].report.candles = inserted[p]
      BY <1>1, <2>4 DEF InsertSummary, AccountTypeOK
    <3>2. CASE account[p].rows = NoStatuses
      BY <1>7, <2>1, <3>1, <3>2 DEF SumInv
    <3>3. CASE account[p].rows = statuses[p]
      <4>1. account'[p].report.candles = SumFunction(CandlesIn(account'[p].rows))
        BY <3>1, <3>3 DEF SumInv
      <4> QED BY <2>1, <4>1 DEF SumInv
    <3> QED BY <2>2, <3>2, <3>3
  <2> QED BY <1>10, <2>3, <2>4 DEF FileSummary
<1>11. CASE AbandonLedger(p)
  <2>1. inserted'[p] = SumFunction(CandlesIn(statuses'[p]))
    BY <1>9, <1>11 DEF AbandonLedger
  <2>2. account'[p] = account[p] \/ account'[p].rows = NoStatuses
    BY <1>1, <1>11 DEF AbandonLedger, AccountTypeOK, NoAccount
  <2>3. CASE account'[p] = account[p]
    BY <2>1, <2>3 DEF SumInv, Filed, CandlesIn, NoReport, NoStatuses, NoRun, NoStatus
  <2> QED BY <1>7, <2>1, <2>2, <2>3 DEF SumInv
<1> QED BY <1>3, <1>4, <1>5, <1>6, <1>8, <1>10, <1>11

LEMMA SumNext ==
  ASSUME IndInv, LedgerTypeOK, ReportsInv, ReportsInv', \A p \in Collectors : SumInv(p),
         [LedgerNext]_allVars
  PROVE  \A p \in Collectors : SumInv(p)'
<1>1. AccountTypeOK
  BY DEF ReportsInv
<1>2. ASSUME NEW q \in Collectors, statuses'[q] = statuses[q], inserted'[q] = inserted[q],
             account'[q] = account[q]
      PROVE  SumInv(q)'
  BY <1>2 DEF SumInv, Filed, CandlesIn, NoReport, NoStatuses, NoRun, NoStatus
<1>3. ASSUME NEW p \in Collectors,
             \/ OpenLedger(p) \/ Silent(p) \/ CountChunk(p) \/ ReportStored(p) \/ ReportFailed(p)
             \/ FileStatuses(p) \/ FileSummary(p) \/ AbandonLedger(p)
      PROVE  \A q \in Collectors : SumInv(q)'
  <2>1. SumInv(p)'
    BY <1>3, SumStep
  <2>2. \A q \in Collectors \ {p} :
          statuses'[q] = statuses[q] /\ inserted'[q] = inserted[q] /\ account'[q] = account[q]
    BY <1>1, <1>3
    DEF AccountTypeOK, LedgerTypeOK, OpenLedger, Silent, CountChunk, ReportStored, ReportFailed,
      ReportNone, FileStatuses, InsertStatuses, FileSummary, InsertSummary, AbandonLedger,
      CloseLedger, ledgerVars
  <2> QED BY <1>2, <2>1, <2>2
<1>4. CASE \/ /\ (\E x \in Underway : StorePart(x)) \/ \E x \in inFlight : CommitInFlight(x)
              /\ UNCHANGED ledgerVars
           \/ Environment /\ UNCHANGED ledgerVars
           \/ UNCHANGED allVars
  <2>1. UNCHANGED <<statuses, inserted, account>>
    BY <1>4 DEF ledgerVars, allVars
  <2> QED BY <1>2, <2>1
<1> QED BY <1>3, <1>4 DEF LedgerNext

\* The candles of the run row (candles_inserted in app.py) are the sum of those in the
\* status rows of the same run (rows_inserted), for any number of symbols, windows and
\* failures.
THEOREM CandlesTellTheSame == LedgerSpec => []CandlesAgree
<1>1. LedgerInit => \A p \in Collectors : SumInv(p)
  BY SumOfNoStatuses DEF LedgerInit, SumInv, Filed, NoAccount
<1>2. IndInv /\ LedgerTypeOK /\ ReportsInv /\ ReportsInv' /\ (\A p \in Collectors : SumInv(p))
        /\ [LedgerNext]_allVars => (\A p \in Collectors : SumInv(p))'
  BY SumNext
<1>3. (\A p \in Collectors : SumInv(p)) => CandlesAgree
  BY DEF SumInv, CandlesAgree, CandlesIn
<1> QED BY <1>1, <1>2, <1>3, LedgerInvariant, PTL DEF LedgerSpec
=============================================================================
