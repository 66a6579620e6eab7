---------------------------- MODULE IngestionProofs ----------------------------
(***************************************************************************)
(* Proofs about ingestion cycles, for every value of the constants: types, *)
(* only closed candles are stored, and the watermark never hides a candle. *)
(***************************************************************************)
EXTENDS IngestionInv, FiniteSetTheorems, TLAPS

USE DEF Minutes, Never, NoCandle

-----------------------------------------------------------------------------
(* Types.                                                                  *)

\* A summary row has natural counts when only selected symbols failed.
LEMMA SummaryType ==
  ASSUME TypeOK, TracksSelection, NEW p \in Collectors
  PROVE  Summary(p) \in RunRows
<1>1. /\ IsFiniteSet(selected[p]) /\ IsFiniteSet(failed[p])
      /\ IsFiniteSet(Unknown(selected[p]))
  <2>1. selected[p] \subseteq Symbols /\ failed[p] \subseteq Symbols
    BY DEF TypeOK
  <2>2. Unknown(selected[p]) \subseteq Symbols
    BY IngestionAssumption DEF Unknown
  <2> QED BY <2>1, <2>2, IngestionAssumption, FS_Subset
<1>2. Cardinality(failed[p]) <= Cardinality(selected[p])
  BY <1>1, FS_Subset DEF TracksSelection
<1>3. /\ Cardinality(failed[p]) \in Nat
      /\ Cardinality(selected[p]) \in Nat
      /\ Cardinality(Unknown(selected[p])) \in Nat
  BY <1>1, FS_CardinalityType
<1>4. Cardinality(selected[p]) - Cardinality(failed[p]) \in Nat
  BY <1>2, <1>3
<1> QED BY <1>3, <1>4 DEF Summary, RunRows, CycleStatus

\* The server has only rows of the window in hand and of abandoned chunks.
LEMMA UnderwayTyped ==
  ASSUME TypeOK, NEW x \in Underway
  PROVE  x.candles \subseteq Minutes
<1>1. CASE x \in inFlight
  BY <1>1 DEF TypeOK
<1>2. ASSUME NEW p \in Collectors, NEW c \in Chunks(p), x = [sym |-> job[p].sym, candles |-> c]
      PROVE  x.candles \subseteq Minutes
  BY <1>2 DEF Chunks, TypeOK
<1> QED BY <1>1, <1>2 DEF Underway

LEMMA TypingInit == Init => TypeOK /\ TracksSelection
<1> SUFFICES ASSUME Init PROVE TypeOK /\ TracksSelection
  OBVIOUS
<1>1. ExchangeTypeOK
  <2>1. now \in Minutes /\ active \subseteq Symbols
    BY ExchangeAssumption DEF Init, ExchangeInit
  <2>5. settled \in BOOLEAN
    BY Zenon DEF Init, ExchangeInit
  <2>2. Never \in 1 .. Never
    BY ExchangeAssumption
  <2>3. [m \in Minutes |-> Never] \in [Minutes -> 1 .. Never]
    BY <2>2
  <2>4. publishedAt \in [Symbols -> [Minutes -> 1 .. Never]]
    BY <2>3 DEF Init, ExchangeInit
  <2> QED BY <2>1, <2>4, <2>5 DEF ExchangeTypeOK
<1>2. /\ stored \in [Symbols -> SUBSET Minutes]
      /\ inFlight \subseteq [sym : Symbols, candles : SUBSET Minutes]
      /\ lastRun \in RunRows
  BY DEF Init, NoRun, RunRows
<1>3. /\ pc \in [Collectors -> Stages]
      /\ selected \in [Collectors -> SUBSET Symbols]
      /\ last \in [Collectors -> Minutes \cup {NoCandle}]
      /\ todo \in [Collectors -> SUBSET Symbols]
      /\ gaps \in [Collectors -> SUBSET Gaps]
      /\ seen \in [Collectors -> [Symbols -> SUBSET Minutes]]
  BY DEF Init, Stages, NoRows
<1>4. watermark \in [Collectors -> [Symbols -> Minutes \cup {NoCandle}]]
  BY DEF Init
<1>5. /\ job \in [Collectors -> Jobs \cup {NoJob}]
      /\ cursor \in [Collectors -> Int]
      /\ rows \in [Collectors -> SUBSET Minutes]
      /\ failed \in [Collectors -> SUBSET Symbols]
  BY DEF Init
<1>6. TracksSelection
  BY DEF Init, TracksSelection
<1> QED BY <1>1, <1>2, <1>3, <1>4, <1>5, <1>6 DEF TypeOK

\* Every step keeps the types, one action at a time.
LEMMA TypingNext ==
  ASSUME TypeOK, TracksSelection, [Next]_vars
  PROVE  TypeOK' /\ TracksSelection'
<1> USE DEF TypeOK, ExchangeTypeOK, TracksSelection, exchangeVars, tableVars,
            planVars, windowVars, Stages, NoRows
<1>1. ASSUME Environment PROVE TypeOK' /\ TracksSelection'
  <2>1. CASE Tick
    BY <1>1, <2>1, ExchangeAssumption DEF Environment, Tick
  <2>2. ASSUME NEW s \in Symbols, NEW m \in Minutes, Publish(s, m)
        PROVE  TypeOK' /\ TracksSelection'
    <3>1. now \in 1 .. Never
      BY <2>2, ExchangeAssumption DEF Publish
    <3>2. [publishedAt[s] EXCEPT ![m] = now] \in [Minutes -> 1 .. Never]
      BY <3>1
    <3>3. publishedAt' \in [Symbols -> [Minutes -> 1 .. Never]]
      BY <2>2, <3>2 DEF Publish
    <3> QED BY <1>1, <2>2, <3>3 DEF Environment, Publish
  <2>3. ASSUME NEW s \in Symbols, ChangeListing(s)
        PROVE  TypeOK' /\ TracksSelection'
    BY <1>1, <2>3 DEF Environment, ChangeListing
  <2>4. CASE Settle
    BY <1>1, <2>4 DEF Environment, Settle
  <2> QED BY <1>1, <2>1, <2>2, <2>3, <2>4 DEF Environment, ExchangeNext
<1>2. ASSUME NEW x \in inFlight, CommitInFlight(x)
      PROVE  TypeOK' /\ TracksSelection'
  BY <1>2 DEF CommitInFlight, Commit
<1>3. ASSUME NEW x \in Underway, StorePart(x)
      PROVE  TypeOK' /\ TracksSelection'
  <2>1. PICK newest \in x.candles : Commit(x.sym, {m \in x.candles : m <= newest})
    BY <1>3 DEF StorePart
  <2>2. x.candles \subseteq Minutes
    BY UnderwayTyped
  <2>3. PICK part \in SUBSET Minutes : Commit(x.sym, part)
    BY <2>1, <2>2
  <2> QED BY <1>3, <2>3 DEF StorePart, Commit
<1>4. ASSUME NEW p \in Collectors, Progress(p)
      PROVE  TypeOK' /\ TracksSelection'
  <2>1. CASE FetchMeta(p)
    <3>1. Selection(active) \subseteq Symbols
      BY IngestionAssumption DEF Selection
    <3> QED BY <2>1, <3>1 DEF FetchMeta
  <2>2. CASE ReadWatermarks(p)
    BY <2>2 DEF ReadWatermarks
  <2>3. CASE ReadClock(p)
    BY <2>3, ExchangeAssumption DEF ReadClock, LastClosed, Windows
  <2>4. ASSUME NEW s \in Symbols, BeginWindow(p, s)
        PROVE  TypeOK' /\ TracksSelection'
    <3>1. WindowStart(p, s) \in Int /\ last[p] \in Int
      <4>1. last[p] \in Int /\ watermark[p][s] \in Int
        BY ExchangeAssumption DEF NoCandle
      <4>2. /\ RestHorizonCandles \in Int
            /\ OverlapCandles \in Int
            /\ InitialStart \in Int
        BY IngestionAssumption
      <4> QED
        BY ONLY <4>1, <4>2 DEF WindowStart, InitialWindowStart, OverlapStart, Later, HorizonFloor
    <3> DEFINE j == [sym |-> s, start |-> WindowStart(p, s), end |-> last[p],
                     phase |-> "windows"]
    <3>2. j \in Jobs /\ j.sym \in selected[p]
      BY <2>4, <3>1 DEF Jobs, BeginWindow
    <3>3. job' = [job EXCEPT ![p] = j]
      BY <2>4 DEF BeginWindow, StartWindow
    <3> HIDE DEF j
    <3> QED BY <2>4, <3>1, <3>2, <3>3 DEF BeginWindow, StartWindow
  <2>5. CASE ScanGaps(p)
    BY <2>5 DEF ScanGaps, TrackedGaps, RecoverableGaps
  <2>6. ASSUME NEW g \in Gaps, BeginGap(p, g)
        PROVE  TypeOK' /\ TracksSelection'
    <3> DEFINE j == [sym |-> g.sym, start |-> g.after, end |-> g.before,
                     phase |-> "gaps"]
    <3>1. g.after \in Int /\ g.before \in Int
      BY DEF Gaps
    <3>2. j \in Jobs /\ j.sym \in selected[p]
      BY <2>6, <3>1 DEF Jobs, BeginGap, Gaps
    <3>3. job' = [job EXCEPT ![p] = j]
      BY <2>6 DEF BeginGap, StartWindow
    <3> HIDE DEF j
    <3> QED BY <2>6, <3>1, <3>2, <3>3 DEF BeginGap, StartWindow
  <2>7. CASE FetchPage(p)
    <3> DEFINE available ==
                 {m \in Exposed(job[p].sym) : m >= job[p].start /\ m <= cursor[p]}
    <3>1. available \subseteq Minutes
      BY DEF Exposed, Published
    <3>2. PICK oldest \in available :
            /\ rows' = [rows EXCEPT ![p] = @ \cup {m \in available : m >= oldest}]
            /\ IF oldest <= job[p].start
               THEN pc' = [pc EXCEPT ![p] = "insert"] /\ UNCHANGED cursor
               ELSE cursor' = [cursor EXCEPT ![p] = oldest - 1] /\ UNCHANGED pc
      BY <2>7 DEF FetchPage
    <3>3. pc[p] = "fetch" /\ UNCHANGED <<exchangeVars, tableVars, planVars, job, failed>>
      BY <2>7 DEF FetchPage
    <3> HIDE DEF available
    <3>4. rows' \in [Collectors -> SUBSET Minutes]
      BY <3>1, <3>2
    <3>5. cursor' \in [Collectors -> Int] /\ pc' \in [Collectors -> Stages]
      <4>1. oldest \in Int
        BY <3>1, <3>2
      <4>2. CASE oldest <= job[p].start
        BY <3>2, <4>2
      <4>3. CASE ~(oldest <= job[p].start)
        BY <3>2, <4>1, <4>3
      <4> QED BY <4>2, <4>3
    <3>6. pc'[p] \in {"fetch", "insert"} /\ \A q \in Collectors \ {p} : pc'[q] = pc[q]
      BY <3>2, <3>3
    <3> QED BY <3>3, <3>4, <3>5, <3>6
  <2>8. CASE FetchEnds(p)
    BY <2>8 DEF FetchEnds
  <2>9. CASE InsertChunk(p)
    BY <2>9 DEF InsertChunk, Chunks, Commit
  <2>10. CASE InsertEnds(p)
    BY <2>10 DEF InsertEnds, EndWindow, Jobs
  <2>11. CASE WriteSummary(p)
    BY <2>11, SummaryType DEF WriteSummary, WriteRun, Forget
  <2> QED BY <1>4, <2>1, <2>2, <2>3, <2>4, <2>5, <2>6, <2>7, <2>8, <2>9, <2>10,
             <2>11 DEF Progress
<1>5. ASSUME NEW p \in Collectors, Failure(p)
      PROVE  TypeOK' /\ TracksSelection'
  <2>1. CASE CycleFails(p)
    BY <2>1 DEF CycleFails, WriteRun, FailedRun, RunRows, Forget
  <2>2. CASE ScanGapsFails(p)
    BY <2>2 DEF ScanGapsFails
  <2>3. CASE FetchFails(p)
    BY <2>3 DEF FetchFails, MarkFailed, EndWindow, Jobs
  <2>4. CASE InsertFails(p)
    <3>1. inFlight' \subseteq [sym : Symbols, candles : SUBSET Minutes]
      BY <2>4 DEF InsertFails, Abandon, Chunks, Jobs
    <3> QED BY <2>4, <3>1 DEF InsertFails, MarkFailed, EndWindow, Jobs
  <2>5. CASE Crash(p)
    <3>1. inFlight' \subseteq [sym : Symbols, candles : SUBSET Minutes]
      BY <2>5 DEF Crash, Abandon, Chunks, Jobs
    <3> QED BY <2>5, <3>1 DEF Crash, Forget
  <2> QED BY <1>5, <2>1, <2>2, <2>3, <2>4, <2>5 DEF Failure
<1>6. CASE UNCHANGED vars
  BY <1>6 DEF vars
<1> QED BY <1>1, <1>2, <1>3, <1>4, <1>5, <1>6 DEF Next

LEMMA TypingInvariant == Spec => [](TypeOK /\ TracksSelection)
<1>1. Init => TypeOK /\ TracksSelection
  BY TypingInit
<1>2. TypeOK /\ TracksSelection /\ [Next]_vars => (TypeOK /\ TracksSelection)'
  BY TypingNext
<1> QED BY <1>1, <1>2, PTL DEF Spec

\* Types hold in every reachable state; in particular the counts of a run row
\* (run bookkeeping in app.py) never go below zero.
THEOREM TypeCorrect == Spec => []TypeOK
BY TypingInvariant, PTL

-----------------------------------------------------------------------------
(* What time, publications and growth of the table do to the invariant.    *)

\* The clock does not go back, a candle that has appeared keeps its time, and
\* the table loses nothing.
Grows ==
  /\ now <= now'
  /\ \A s \in Symbols, m \in Minutes :
       \/ publishedAt'[s][m] = publishedAt[s][m]
       \/ publishedAt'[s][m] = now /\ publishedAt[s][m] > now
  /\ \A s \in Symbols : stored[s] \subseteq stored'[s]

\* Collector q takes no step.
Rests(q) ==
  /\ pc'[q] = pc[q] /\ watermark'[q] = watermark[q] /\ last'[q] = last[q]
  /\ gaps'[q] = gaps[q] /\ job'[q] = job[q] /\ cursor'[q] = cursor[q]
  /\ rows'[q] = rows[q]

\* The numbers the inequalities below are about.
LEMMA Numbers ==
  ASSUME TypeOK
  PROVE  /\ now \in Int
         /\ \A s \in Symbols, m \in Minutes : publishedAt[s][m] \in Int
         /\ \A q \in Collectors : last[q] \in Int /\ cursor[q] \in Int
         /\ Minutes \subseteq Int
BY ExchangeAssumption DEF TypeOK, ExchangeTypeOK

\* Nothing becomes due later at a minute that is already closed.
LEMMA DueStable ==
  ASSUME TypeOK, TypeOK', Grows, NEW s \in Symbols, NEW m \in Minutes,
         NEW k \in Int, k < now, Due(s, m, k)'
  PROVE  Due(s, m, k)
<1>1. now \in Int /\ publishedAt[s][m] \in Int /\ m \in Int
  BY Numbers
<1>2. now' \in Int
  BY ExchangeAssumption DEF TypeOK, ExchangeTypeOK
<1>3. publishedAt'[s][m] = publishedAt[s][m]
  BY <1>1 DEF Grows, Due
<1> QED BY <1>1, <1>2, <1>3, ExchangeAssumption, IngestionAssumption
    DEF Due, InReach, InOverlap, Grows

\* What has appeared stays visible.
LEMMA PublishedStable ==
  ASSUME TypeOK, TypeOK', Grows, NEW s \in Symbols
  PROVE  Published(s) \subseteq Published(s)'
<1>1. now' \in Int
  BY ExchangeAssumption DEF TypeOK, ExchangeTypeOK
<1> QED BY <1>1, Numbers DEF Published, Grows

LEMMA PublishedIsClosed ==
  ASSUME TypeOK, PublishedAfterClose, NEW s \in Symbols, NEW m \in Published(s)
  PROVE  m \in Minutes /\ m < now
BY ExchangeAssumption DEF Published, PublishedAfterClose, TypeOK, ExchangeTypeOK

\* HoleFree and ClosedOnly when no candle is added.
LEMMA TableKeeps ==
  ASSUME TypeOK, TypeOK', PublishedAfterClose, HoleFree, ClosedOnly, Grows,
         stored' = stored
  PROVE  HoleFree' /\ ClosedOnly'
<1>1. ClosedOnly'
  BY PublishedStable DEF ClosedOnly
<1>2. ASSUME NEW s \in Symbols, NEW m \in Minutes, NEW k \in stored[s], Due(s, m, k)'
      PROVE  m \in stored[s]
  <2>1. k \in Int /\ k < now
    BY PublishedIsClosed DEF ClosedOnly
  <2>2. Due(s, m, k)
    BY <1>2, <2>1, DueStable
  <2> QED BY <2>2 DEF HoleFree
<1>3. HoleFree'
  BY <1>2 DEF HoleFree
<1> QED BY <1>1, <1>3

LEMMA InFlightKeeps ==
  ASSUME TypeOK, TypeOK', PublishedAfterClose, Grows, NEW x \in inFlight, InFlightInv(x)
  PROVE  InFlightInv(x)'
<1>1. x.sym \in Symbols
  BY DEF TypeOK
<1>2. x.candles \subseteq Published(x.sym)'
  BY <1>1, PublishedStable DEF InFlightInv
<1>3. ASSUME NEW m \in Minutes, NEW k \in x.candles, Due(x.sym, m, k)'
      PROVE  m \in x.candles \cup stored'[x.sym]
  <2>1. k \in Int /\ k < now
    BY <1>1, PublishedIsClosed DEF InFlightInv
  <2>2. Due(x.sym, m, k)
    BY <1>1, <1>3, <2>1, DueStable
  <2> QED BY <1>1, <2>2 DEF InFlightInv, Grows
<1> QED BY <1>2, <1>3 DEF InFlightInv

\* A collector at rest keeps what it knows, whatever the others do.
LEMMA CollectorKeeps ==
  ASSUME TypeOK, TypeOK', Grows, NEW q \in Collectors, CollectorInv(q), Rests(q)
  PROVE  CollectorInv(q)'
<1>1. last'[q] < now'
  <2>1. now' \in Int
    BY ExchangeAssumption DEF TypeOK, ExchangeTypeOK
  <2> QED BY <2>1, Numbers DEF CollectorInv, Rests, Grows
<1>2. \A s \in Symbols : ~IsNew(q, s)' => watermark'[q][s] \in stored'[s]
  BY DEF CollectorInv, Rests, Grows, IsNew
<1>3. \A g \in gaps'[q] : g.before \in stored'[g.sym]
  BY DEF CollectorInv, Rests, Grows, TypeOK, Gaps
<1>4. CASE pc[q] \in {"fetch", "insert"}
  <2>1. WindowInv(q) /\ last[q] < now
    BY <1>4 DEF CollectorInv
  <2>2. job[q] \in Jobs /\ job[q].sym \in Symbols
    BY <2>1 DEF WindowInv, Jobs
  <2>3. WindowStart(q, job[q].sym)' = WindowStart(q, job[q].sym)
    BY DEF WindowStart, InitialWindowStart, OverlapStart, Later, HorizonFloor, IsNew,
           Rests
  <2>4. ASSUME NEW m \in Minutes, Due(job[q].sym, m, last[q])'
        PROVE  Due(job[q].sym, m, last[q])
    <3>1. PICK s \in Symbols, k \in Int : s = job[q].sym /\ k = last[q]
      BY <2>2, Numbers
    <3>2. Due(s, m, k)'
      BY <2>4, <3>1 DEF Due, InReach, InOverlap, Rests
    <3> QED BY <2>1, <3>1, <3>2, DueStable
  <2>5. (\A m \in rows[q] : m \in Published(job[q].sym) /\ m <= job[q].end)'
    <3>1. PICK s \in Symbols : s = job[q].sym
      BY <2>2
    <3>2. \A m \in rows[q] : m \in Published(s)'
      BY <2>1, <3>1, PublishedStable DEF WindowInv
    <3> QED BY <2>1, <3>1, <3>2 DEF WindowInv, Rests, Published
  <2>6. job'[q].phase = "gaps" => job'[q].end \in stored'[job'[q].sym]
    BY <2>1, <2>2 DEF WindowInv, Rests, Grows
  <2>7. WindowInv(q)'
    BY <2>1, <2>2, <2>3, <2>4, <2>5, <2>6 DEF WindowInv, Rests, Grows
  <2> QED BY <1>1, <1>2, <1>3, <1>4, <2>7 DEF CollectorInv, Rests
<1>5. CASE pc[q] \notin {"fetch", "insert"}
  BY <1>1, <1>2, <1>3, <1>5 DEF CollectorInv, Rests
<1> QED BY <1>4, <1>5

-----------------------------------------------------------------------------
(* What a set of candles must be like to be committed at any time.         *)

\* Visible candles C of s that bring along, or find stored, all that is due at
\* one of them.
SelfContained(s, C) ==
  /\ C \subseteq Published(s)
  /\ \A m \in Minutes : \A k \in C : Due(s, m, k) => m \in C \cup stored[s]

LEMMA CommitKeeps ==
  ASSUME TypeOK, HoleFree, ClosedOnly, NEW s \in Symbols, NEW C, SelfContained(s, C),
         UNCHANGED exchangeVars, Commit(s, C)
  PROVE  HoleFree' /\ ClosedOnly' /\ Grows
<1>1. stored'[s] = stored[s] \cup C /\ \A r \in Symbols \ {s} : stored'[r] = stored[r]
  BY DEF TypeOK, Commit
<1>2. \A r \in Symbols, m \in Minutes : \A k : Due(r, m, k)' <=> Due(r, m, k)
  BY DEF exchangeVars, Due, InReach, InOverlap
<1>3. HoleFree'
  BY <1>1, <1>2 DEF HoleFree, SelfContained
<1>4. ClosedOnly'
  BY <1>1 DEF ClosedOnly, SelfContained, exchangeVars, Published
<1>5. Grows
  BY <1>1, Numbers DEF Grows, exchangeVars
<1> QED BY <1>3, <1>4, <1>5

\* Before the start of an initial or incremental window nothing due is missing:
\* it is out of reach, or the watermark was past it by more than the overlap.
LEMMA BehindStart ==
  ASSUME TypeOK, HoleFree, NEW p \in Collectors, CollectorInv(p),
         NEW s \in Symbols, NEW m \in Minutes,
         Due(s, m, last[p]), m < WindowStart(p, s)
  PROVE  m \in stored[s]
<1>1. /\ now \in Int /\ publishedAt[s][m] \in Int /\ m \in Int /\ last[p] \in Int
      /\ last[p] < now
  BY Numbers DEF CollectorInv
<1>2. HorizonFloor(last[p]) <= m
  BY <1>1, IngestionAssumption DEF HorizonFloor, Due, InReach
<1>3. CASE IsNew(p, s)
  BY <1>1, <1>2, <1>3, IngestionAssumption
  DEF WindowStart, InitialWindowStart, Later, Due, HorizonFloor
<1>4. CASE ~IsNew(p, s)
  <2>1. watermark[p][s] \in stored[s] /\ watermark[p][s] \in Int
    BY <1>4, Numbers DEF CollectorInv, TypeOK
  <2>2. m < watermark[p][s] - OverlapCandles
    BY <1>1, <1>2, <1>4, <2>1, IngestionAssumption
    DEF WindowStart, OverlapStart, Later, HorizonFloor
  <2>3. publishedAt[s][m] <= watermark[p][s]
    BY <1>1, <2>1, <2>2, IngestionAssumption DEF Due, InOverlap
  <2>4. Due(s, m, watermark[p][s])
    BY <2>3 DEF Due
  <2> QED BY <2>1, <2>4 DEF HoleFree
<1> QED BY <1>3, <1>4

\* Rows go in oldest first: a chunk brings along all that is due at it.
LEMMA ChunkSelfContained ==
  ASSUME TypeOK, PublishedAfterClose, HoleFree, NEW p \in Collectors,
         pc[p] = "insert", WindowInv(p), NEW chunk \in Chunks(p)
  PROVE  SelfContained(job[p].sym, chunk)
<1> DEFINE s == job[p].sym
<1>1. job[p] \in Jobs /\ s \in Symbols /\ job[p].end \in Int
  BY DEF WindowInv, Jobs
<1>2. PICK newest \in rows[p] : chunk = {m \in rows[p] : m <= newest}
  BY DEF Chunks
<1>3. rows[p] \subseteq Minutes
  BY DEF TypeOK
<1>4. chunk \subseteq Published(s)
  BY <1>2 DEF WindowInv
<1>5. ASSUME NEW m \in Minutes, NEW k \in chunk, Due(s, m, k)
      PROVE  m \in chunk \cup stored[s]
  <2>1. /\ m < publishedAt[s][m] /\ publishedAt[s][m] <= k
        /\ k <= newest /\ k <= job[p].end
    BY <1>1, <1>2, <1>5 DEF PublishedAfterClose, Due, WindowInv
  <2>2. m \in Int /\ k \in Int /\ newest \in Int /\ publishedAt[s][m] \in Int
    BY <1>1, <1>2, <1>3, Numbers
  <2>3. m <= newest
    BY <2>1, <2>2
  <2>4. Due(s, m, job[p].end)
    BY <1>1, <1>5, <2>1, <2>2 DEF Due
  <2>5. CASE job[p].phase = "gaps"
    BY <1>1, <2>4, <2>5 DEF WindowInv, HoleFree
  <2>6. CASE job[p].phase = "windows"
    BY <1>2, <2>3, <2>4, <2>6 DEF WindowInv
  <2> QED BY <1>1, <2>5, <2>6 DEF Jobs
<1> QED BY <1>4, <1>5 DEF SelfContained

\* So an abandoned chunk may be committed at any later time.
LEMMA AbandonKeeps ==
  ASSUME TypeOK, PublishedAfterClose, HoleFree, NEW p \in Collectors,
         pc[p] = "insert", WindowInv(p), Abandon(p)
  PROVE  \A x \in inFlight' \ inFlight : InFlightInv(x)
<1>1. PICK chunk \in Chunks(p) :
        \/ UNCHANGED inFlight
        \/ inFlight' = inFlight \cup {[sym |-> job[p].sym, candles |-> chunk]}
  BY DEF Abandon
<1>2. SelfContained(job[p].sym, chunk)
  BY ChunkSelfContained
<1> QED BY <1>1, <1>2 DEF SelfContained, InFlightInv

-----------------------------------------------------------------------------
(* The inductive step.                                                     *)

IndInv == TypeOK /\ IngestionInv

\* A step of collector p that leaves the exchange and the table as they are: what
\* is left to show is what p itself knows and what it abandons.
LEMMA LocalStep ==
  ASSUME IndInv, TypeOK', TracksSelection', NEW p \in Collectors,
         UNCHANGED exchangeVars, UNCHANGED stored,
         \A q \in Collectors \ {p} : Rests(q),
         CollectorInv(p)',
         \A x \in inFlight' \ inFlight : InFlightInv(x)
  PROVE  IngestionInv'
<1> USE DEF IndInv, IngestionInv
<1>1. Grows
  BY Numbers DEF Grows, exchangeVars
<1>2. PublishedAfterClose'
  BY DEF PublishedAfterClose, exchangeVars
<1>3. HoleFree' /\ ClosedOnly'
  BY <1>1, TableKeeps
<1>4. \A q \in Collectors : CollectorInv(q)'
  BY <1>1, CollectorKeeps
<1>5. \A x \in inFlight' : InFlightInv(x)'
  <2>1. ASSUME NEW x \in inFlight', InFlightInv(x) PROVE InFlightInv(x)'
    BY <2>1 DEF InFlightInv, Published, Due, InReach, InOverlap, exchangeVars
  <2> QED BY <2>1
<1> QED BY <1>2, <1>3, <1>4, <1>5

\* The exchange only goes on.
LEMMA EnvironmentGrows ==
  ASSUME TypeOK, PublishedAfterClose, Environment
  PROVE  Grows /\ PublishedAfterClose'
<1> USE DEF Environment, tableVars, planVars, windowVars
<1>1. CASE Tick
  BY <1>1, Numbers DEF Tick, Grows, PublishedAfterClose
<1>2. ASSUME NEW s \in Symbols, NEW m \in Minutes, Publish(s, m)
      PROVE  Grows /\ PublishedAfterClose'
  <2>1. publishedAt[s][m] > now /\ m < now
    BY <1>2, ExchangeAssumption DEF Publish, TypeOK, ExchangeTypeOK
  <2>2. \A r \in Symbols, n \in Minutes :
          publishedAt'[r][n] = IF r = s /\ n = m THEN now ELSE publishedAt[r][n]
    BY <1>2 DEF Publish, TypeOK, ExchangeTypeOK
  <2>3. now' = now /\ stored' = stored
    BY <1>2 DEF Publish
  <2> QED BY <2>1, <2>2, <2>3, Numbers DEF Grows, PublishedAfterClose
<1>3. ASSUME NEW s \in Symbols, ChangeListing(s)
      PROVE  Grows /\ PublishedAfterClose'
  BY <1>3, Numbers DEF ChangeListing, Grows, PublishedAfterClose
<1>4. CASE Settle
  BY <1>4, Numbers DEF Settle, Grows, PublishedAfterClose
<1> QED BY <1>1, <1>2, <1>3, <1>4 DEF ExchangeNext

\* A step of the exchange.
LEMMA EnvironmentStep ==
  ASSUME IndInv, TypeOK', TracksSelection', Environment
  PROVE  IngestionInv'
<1> USE DEF IndInv, IngestionInv, Environment, tableVars, planVars, windowVars
<1>1. Grows /\ PublishedAfterClose'
  BY EnvironmentGrows
<1>2. HoleFree' /\ ClosedOnly'
  BY <1>1, TableKeeps
<1>3. \A q \in Collectors : CollectorInv(q)'
  BY <1>1, CollectorKeeps DEF Rests
<1>4. \A x \in inFlight' : InFlightInv(x)'
  BY <1>1, InFlightKeeps
<1> QED BY <1>1, <1>2, <1>3, <1>4

\* Candles s, C committed by a step that leaves the exchange as it is.
LEMMA CommitStep ==
  ASSUME IndInv, TypeOK', TracksSelection', NEW s \in Symbols, NEW C,
         SelfContained(s, C), UNCHANGED exchangeVars, Commit(s, C),
         inFlight' \subseteq inFlight,
         \A q \in Collectors : Rests(q) \/ CollectorInv(q)'
  PROVE  IngestionInv'
<1> USE DEF IndInv, IngestionInv
<1>1. HoleFree' /\ ClosedOnly' /\ Grows
  BY CommitKeeps
<1>2. PublishedAfterClose'
  BY DEF PublishedAfterClose, exchangeVars
<1>3. \A q \in Collectors : CollectorInv(q)'
  BY <1>1, CollectorKeeps
<1>4. \A x \in inFlight' : InFlightInv(x)'
  BY <1>1, InFlightKeeps
<1> QED BY <1>1, <1>2, <1>3, <1>4

\* So may what the server has of any insert, and the older part of it.
LEMMA UnderwaySound ==
  ASSUME IndInv, NEW x \in Underway
  PROVE  x.sym \in Symbols /\ SelfContained(x.sym, x.candles)
<1> USE DEF IndInv, IngestionInv
<1>1. CASE x \in inFlight
  BY <1>1 DEF InFlightInv, SelfContained, TypeOK
<1>2. ASSUME NEW p \in Collectors, pc[p] = "insert", NEW c \in Chunks(p),
             x = [sym |-> job[p].sym, candles |-> c]
      PROVE  x.sym \in Symbols /\ SelfContained(x.sym, x.candles)
  <2>1. WindowInv(p) /\ job[p].sym \in Symbols
    BY <1>2 DEF CollectorInv, WindowInv, Jobs
  <2> QED BY <1>2, <2>1, ChunkSelfContained
<1> QED BY <1>1, <1>2 DEF Underway

LEMMA PartSelfContained ==
  ASSUME TypeOK, PublishedAfterClose, NEW s \in Symbols, NEW C \in SUBSET Minutes,
         SelfContained(s, C), NEW newest \in C
  PROVE  SelfContained(s, {m \in C : m <= newest})
<1> DEFINE part == {m \in C : m <= newest}
<1>1. part \subseteq Published(s)
  BY DEF SelfContained
<1>2. ASSUME NEW m \in Minutes, NEW k \in part, Due(s, m, k)
      PROVE  m \in part \cup stored[s]
  <2>1. m < publishedAt[s][m] /\ publishedAt[s][m] <= k /\ k <= newest /\ m \in C \cup stored[s]
    BY <1>2 DEF PublishedAfterClose, Due, SelfContained
  <2>2. m \in Int /\ k \in Int /\ newest \in Int /\ publishedAt[s][m] \in Int
    BY Numbers
  <2>3. m <= newest
    BY <2>1, <2>2
  <2> QED BY <2>1, <2>3
<1> QED BY <1>1, <1>2 DEF SelfContained

\* A page holds every due candle between its oldest one and the cursor, so the
\* cursor may move before it; at the start of the window nothing is left out.
LEMMA FetchPageStep ==
  ASSUME IndInv, TypeOK', TracksSelection', NEW p \in Collectors, FetchPage(p)
  PROVE  IngestionInv'
<1> USE DEF IndInv, IngestionInv
<1> DEFINE s == job[p].sym
           available == {m \in Exposed(s) : m >= job[p].start /\ m <= cursor[p]}
<1>1. pc[p] = "fetch" /\ CollectorInv(p) /\ WindowInv(p) /\ last[p] < now
  BY DEF FetchPage, CollectorInv
<1>2. /\ job[p] \in Jobs /\ s \in Symbols /\ cursor[p] <= job[p].end
      /\ job[p].start \in Int /\ job[p].end \in Int
  BY <1>1 DEF WindowInv, Jobs
<1>3. UNCHANGED <<exchangeVars, stored, inFlight, watermark, last, gaps, job>>
  BY DEF FetchPage, tableVars, planVars
<1>4. PICK oldest \in available :
        /\ rows' = [rows EXCEPT ![p] = @ \cup {m \in available : m >= oldest}]
        /\ IF oldest <= job[p].start
           THEN pc' = [pc EXCEPT ![p] = "insert"] /\ UNCHANGED cursor
           ELSE cursor' = [cursor EXCEPT ![p] = oldest - 1] /\ UNCHANGED pc
  BY DEF FetchPage
<1>5. oldest \in Int /\ job[p].start <= oldest /\ oldest <= cursor[p] /\ cursor[p] \in Int
  BY <1>4, Numbers DEF Exposed, Published
<1>6. rows'[p] = rows[p] \cup {m \in available : m >= oldest}
  BY <1>4 DEF TypeOK
<1>7. job[p].end < now
  <2>1. CASE job[p].phase = "windows"
    BY <1>1, <2>1 DEF WindowInv
  <2>2. CASE job[p].phase = "gaps"
    BY <1>1, <1>2, <2>2, PublishedIsClosed DEF WindowInv, ClosedOnly
  <2> QED BY <1>2, <2>1, <2>2 DEF Jobs
<1>8. \A m \in available : m \in Published(s) /\ m <= job[p].end
  BY <1>2, <1>5, <1>7, Numbers DEF Exposed, Published
<1>9. ASSUME job[p].phase = "windows", NEW m \in Minutes, Due(s, m, last[p]),
             pc'[p] = "insert" \/ m > cursor'[p]
      PROVE  m \in rows'[p] \cup stored[s]
  <2>1. job[p].end = last[p] /\ job[p].start = WindowStart(p, s)
    BY <1>1, <1>9 DEF WindowInv
  <2>2. m > cursor[p] \/ m < job[p].start \/ (m >= oldest /\ m <= cursor[p])
    <3>1. CASE oldest <= job[p].start
      BY <1>2, <1>5, <3>1, Numbers
    <3>2. CASE ~(oldest <= job[p].start)
      <4>1. cursor'[p] = oldest - 1 /\ pc'[p] = "fetch"
        BY <1>1, <1>4, <3>2 DEF TypeOK
      <4> QED BY <1>5, <1>9, <4>1, Numbers
    <3> QED BY <3>1, <3>2
  <2>3. CASE m > cursor[p]
    BY <1>1, <1>2, <1>6, <1>9, <2>3 DEF WindowInv
  <2>4. CASE m < job[p].start
    BY <1>1, <1>2, <1>9, <2>1, <2>4, BehindStart
  <2>5. CASE m >= oldest /\ m <= cursor[p]
    <3>1. m \in Exposed(s)
      BY <1>1, <1>2, <1>9, Numbers DEF Due, InReach, Exposed, Published
    <3> QED BY <1>2, <1>5, <1>6, <2>5, <3>1, Numbers
  <2> QED BY <2>2, <2>3, <2>4, <2>5
<1> HIDE DEF available
<1>10. job'[p] = job[p] /\ pc'[p] \in {"fetch", "insert"} /\ cursor'[p] <= job[p].end
  <2>1. CASE oldest <= job[p].start
    BY <1>1, <1>2, <1>3, <1>4, <2>1 DEF TypeOK
  <2>2. CASE ~(oldest <= job[p].start)
    <3>1. cursor'[p] = oldest - 1 /\ pc' = pc
      BY <1>4, <2>2 DEF TypeOK
    <3> QED BY <1>1, <1>2, <1>3, <1>5, <3>1
  <2> QED BY <2>1, <2>2
<1>11. WindowStart(p, s)' = WindowStart(p, s)
  BY <1>3 DEF WindowStart, InitialWindowStart, OverlapStart, Later, HorizonFloor, IsNew
<1>12. \A m \in Minutes : Due(s, m, last[p])' <=> Due(s, m, last[p])
  BY <1>3 DEF exchangeVars, Due, InReach, InOverlap
<1>13. \A m : (m \in Published(s))' <=> m \in Published(s)
  BY <1>3 DEF exchangeVars, Published
<1>14. WindowInv(p)'
  BY <1>1, <1>2, <1>3, <1>6, <1>8, <1>9, <1>10, <1>11, <1>12, <1>13 DEF WindowInv
<1>15. CollectorInv(p)'
  BY <1>1, <1>3, <1>10, <1>14 DEF CollectorInv, IsNew, exchangeVars
<1>16. \A q \in Collectors \ {p} : Rests(q)
  BY <1>3, <1>4 DEF Rests, TypeOK
<1> QED BY <1>3, <1>15, <1>16, LocalStep

\* An empty page: nothing of the rest of the window is visible or in reach.
LEMMA FetchEndsStep ==
  ASSUME IndInv, TypeOK', TracksSelection', NEW p \in Collectors, FetchEnds(p)
  PROVE  IngestionInv'
<1> USE DEF IndInv, IngestionInv
<1> DEFINE s == job[p].sym
<1>1. pc[p] = "fetch" /\ CollectorInv(p) /\ WindowInv(p) /\ last[p] < now
  BY DEF FetchEnds, CollectorInv
<1>2. job[p] \in Jobs /\ s \in Symbols /\ job[p].start \in Int
  BY <1>1 DEF WindowInv, Jobs
<1>3. /\ UNCHANGED <<exchangeVars, stored, inFlight, watermark, last, gaps, job, cursor, rows>>
      /\ pc' = [pc EXCEPT ![p] = "insert"]
  BY DEF FetchEnds, tableVars, planVars, windowVars
<1>4. ASSUME job[p].phase = "windows", NEW m \in Minutes, Due(s, m, last[p])
      PROVE  m \in rows[p] \cup stored[s]
  <2>1. job[p].end = last[p] /\ job[p].start = WindowStart(p, s)
    BY <1>1, <1>4 DEF WindowInv
  <2>2. CASE m > cursor[p]
    BY <1>1, <1>4, <2>2 DEF WindowInv
  <2>3. CASE m < job[p].start
    BY <1>1, <1>2, <1>4, <2>1, <2>3, BehindStart
  <2>4. CASE m >= job[p].start /\ m <= cursor[p]
    <3>1. m \in Exposed(s)
      BY <1>1, <1>2, <1>4, Numbers DEF Due, InReach, Exposed, Published
    <3> QED BY <2>4, <3>1 DEF FetchEnds
  <2> QED BY <1>2, <2>2, <2>3, <2>4, Numbers
<1>5. WindowStart(p, s)' = WindowStart(p, s)
  BY <1>3 DEF WindowStart, InitialWindowStart, OverlapStart, Later, HorizonFloor, IsNew
<1>6. \A m \in Minutes : Due(s, m, last[p])' <=> Due(s, m, last[p])
  BY <1>3 DEF exchangeVars, Due, InReach, InOverlap
<1>7. \A m : (m \in Published(s))' <=> m \in Published(s)
  BY <1>3 DEF exchangeVars, Published
<1>8. WindowInv(p)'
  BY <1>1, <1>2, <1>3, <1>4, <1>5, <1>6, <1>7 DEF WindowInv
<1>9. CollectorInv(p)' /\ \A q \in Collectors \ {p} : Rests(q)
  BY <1>1, <1>3, <1>8 DEF CollectorInv, IsNew, exchangeVars, Rests, TypeOK
<1> QED BY <1>3, <1>9, LocalStep

\* A chunk goes into the table; the rows that remain still complete it.
LEMMA InsertChunkStep ==
  ASSUME IndInv, TypeOK', TracksSelection', NEW p \in Collectors, InsertChunk(p)
  PROVE  IngestionInv'
<1> USE DEF IndInv, IngestionInv
<1> DEFINE s == job[p].sym
<1>1. pc[p] = "insert" /\ CollectorInv(p) /\ WindowInv(p)
  BY DEF InsertChunk, CollectorInv
<1>2. job[p] \in Jobs /\ s \in Symbols
  BY <1>1 DEF WindowInv, Jobs
<1>3. UNCHANGED <<exchangeVars, inFlight, pc, watermark, last, gaps, job, cursor>>
  BY DEF InsertChunk, planVars
<1>4. PICK chunk \in Chunks(p) :
        Commit(s, chunk) /\ rows' = [rows EXCEPT ![p] = @ \ chunk]
  BY DEF InsertChunk
<1>5. SelfContained(s, chunk)
  BY <1>1, <1>4, ChunkSelfContained
<1>6. rows'[p] = rows[p] \ chunk
  BY <1>4 DEF TypeOK
<1>7. stored'[s] = stored[s] \cup chunk /\ \A r \in Symbols : stored[r] \subseteq stored'[r]
  BY <1>2, <1>4 DEF Commit, TypeOK
<1>8. WindowStart(p, s)' = WindowStart(p, s)
  BY <1>3 DEF WindowStart, InitialWindowStart, OverlapStart, Later, HorizonFloor, IsNew
<1>9. \A m \in Minutes : Due(s, m, last[p])' <=> Due(s, m, last[p])
  BY <1>3 DEF exchangeVars, Due, InReach, InOverlap
<1>10. \A m : (m \in Published(s))' <=> m \in Published(s)
  BY <1>3 DEF exchangeVars, Published
<1>11. WindowInv(p)'
  BY <1>1, <1>2, <1>3, <1>6, <1>7, <1>8, <1>9, <1>10 DEF WindowInv
<1>12. CollectorInv(p)'
  BY <1>1, <1>3, <1>7, <1>11 DEF CollectorInv, IsNew, exchangeVars, TypeOK, Gaps
<1>13. \A q \in Collectors \ {p} : Rests(q)
  BY <1>3, <1>4 DEF Rests, TypeOK
<1> QED BY <1>2, <1>3, <1>4, <1>5, <1>12, <1>13, CommitStep

\* What the collector knows after each step of a cycle.
LEMMA ProgressStep ==
  ASSUME IndInv, TypeOK', TracksSelection', NEW p \in Collectors, Progress(p)
  PROVE  IngestionInv'
<1> USE DEF IndInv, IngestionInv, tableVars, planVars, windowVars
<1>1. CollectorInv(p)
  OBVIOUS
<1>2. CASE FetchMeta(p)
  <2>1. CollectorInv(p)'
    BY <1>1, <1>2, Numbers DEF FetchMeta, CollectorInv, IsNew, exchangeVars, TypeOK
  <2>2. \A q \in Collectors \ {p} : Rests(q)
    BY <1>2 DEF FetchMeta, Rests, TypeOK
  <2> QED BY <1>2, <2>1, <2>2, LocalStep DEF FetchMeta
<1>3. CASE ReadWatermarks(p)
  <2>1. CollectorInv(p)'
    BY <1>1, <1>3 DEF ReadWatermarks, IsWatermark, CollectorInv, IsNew, exchangeVars, TypeOK
  <2>2. \A q \in Collectors \ {p} : Rests(q)
    BY <1>3 DEF ReadWatermarks, Rests, TypeOK
  <2> QED BY <1>3, <2>1, <2>2, LocalStep DEF ReadWatermarks
<1>4. CASE ReadClock(p)
  <2>1. CollectorInv(p)'
    BY <1>1, <1>4, Numbers DEF ReadClock, LastClosed, CollectorInv, IsNew, exchangeVars, TypeOK
  <2>2. \A q \in Collectors \ {p} : Rests(q)
    BY <1>4 DEF ReadClock, Rests, TypeOK
  <2> QED BY <1>4, <2>1, <2>2, LocalStep DEF ReadClock
<1>5. CASE \E s \in Symbols : BeginWindow(p, s)
  <2>1. PICK s \in Symbols : BeginWindow(p, s)
    BY <1>5
  <2>2. /\ pc' = [pc EXCEPT ![p] = "fetch"]
        /\ job'[p] = [sym |-> s, start |-> WindowStart(p, s), end |-> last[p],
                      phase |-> "windows"]
        /\ cursor'[p] = last[p] /\ rows'[p] = {}
        /\ UNCHANGED <<exchangeVars, stored, inFlight, watermark, last, gaps>>
    BY <1>1, <2>1 DEF BeginWindow, StartWindow, CollectorInv, TypeOK
  <2>3. ASSUME NEW m \in Minutes, Due(s, m, last[p]), m > last[p] PROVE FALSE
    BY <2>3, Numbers DEF Due, PublishedAfterClose
  <2>4. job'[p] \in Jobs /\ pc'[p] = "fetch"
    BY <2>2 DEF TypeOK, TracksSelection
  <2>5. WindowStart(p, s)' = WindowStart(p, s)
    BY <2>2 DEF WindowStart, InitialWindowStart, OverlapStart, Later, HorizonFloor, IsNew
  <2>6. \A m \in Minutes : Due(s, m, last[p])' <=> Due(s, m, last[p])
    BY <2>2 DEF exchangeVars, Due, InReach, InOverlap
  <2>7. WindowInv(p)'
    BY <2>2, <2>3, <2>4, <2>5, <2>6, Numbers DEF WindowInv
  <2>8. CollectorInv(p)'
    BY <1>1, <2>2, <2>4, <2>7 DEF CollectorInv, IsNew, exchangeVars
  <2>9. \A q \in Collectors \ {p} : Rests(q)
    BY <2>1 DEF BeginWindow, StartWindow, Rests, TypeOK
  <2> QED BY <2>2, <2>8, <2>9, LocalStep
<1>6. CASE ScanGaps(p)
  <2>1. \A g \in TrackedGaps(p) : g.before \in stored[g.sym]
    BY DEF TrackedGaps, RecoverableGaps
  <2>2. CollectorInv(p)'
    BY <1>1, <1>6, <2>1 DEF ScanGaps, CollectorInv, IsNew, exchangeVars, TypeOK
  <2>3. \A q \in Collectors \ {p} : Rests(q)
    BY <1>6 DEF ScanGaps, Rests, TypeOK
  <2> QED BY <1>6, <2>2, <2>3, LocalStep DEF ScanGaps
<1>7. CASE \E g \in Gaps : BeginGap(p, g)
  <2>1. PICK g \in Gaps : BeginGap(p, g)
    BY <1>7
  <2>2. /\ pc' = [pc EXCEPT ![p] = "fetch"]
        /\ job'[p] = [sym |-> g.sym, start |-> g.after, end |-> g.before, phase |-> "gaps"]
        /\ cursor'[p] = g.before /\ rows'[p] = {} /\ gaps'[p] \subseteq gaps[p]
        /\ g \in gaps[p]
        /\ UNCHANGED <<exchangeVars, stored, inFlight, watermark, last>>
    BY <1>1, <2>1 DEF BeginGap, StartWindow, CollectorInv, TypeOK
  <2>3. job'[p] \in Jobs /\ pc'[p] = "fetch" /\ g.before \in Int
    BY <2>2, ExchangeAssumption DEF TypeOK, TracksSelection, Gaps
  <2>4. WindowInv(p)'
    BY <1>1, <2>2, <2>3 DEF WindowInv, CollectorInv
  <2>5. CollectorInv(p)'
    BY <1>1, <2>2, <2>3, <2>4 DEF CollectorInv, IsNew, exchangeVars
  <2>6. \A q \in Collectors \ {p} : Rests(q)
    BY <2>1 DEF BeginGap, StartWindow, Rests, TypeOK
  <2> QED BY <2>2, <2>5, <2>6, LocalStep
<1>8. CASE FetchPage(p)
  BY <1>8, FetchPageStep
<1>9. CASE FetchEnds(p)
  BY <1>9, FetchEndsStep
<1>10. CASE InsertChunk(p)
  BY <1>10, InsertChunkStep
<1>11. CASE InsertEnds(p)
  <2>1. job[p] \in Jobs
    BY <1>1, <1>11 DEF InsertEnds, CollectorInv, WindowInv
  <2>2. CollectorInv(p)'
    BY <1>1, <1>11, <2>1 DEF InsertEnds, EndWindow, Jobs, CollectorInv, IsNew, exchangeVars, TypeOK
  <2>3. \A q \in Collectors \ {p} : Rests(q)
    BY <1>11 DEF InsertEnds, EndWindow, Rests, TypeOK
  <2> QED BY <1>11, <2>2, <2>3, LocalStep DEF InsertEnds
<1>12. CASE WriteSummary(p)
  <2>1. CollectorInv(p)'
    BY <1>1, <1>12, Numbers, ExchangeAssumption
    DEF WriteSummary, Forget, CollectorInv, IsNew, exchangeVars, TypeOK, ExchangeTypeOK
  <2>2. \A q \in Collectors \ {p} : Rests(q)
    BY <1>12 DEF WriteSummary, Forget, Rests, TypeOK
  <2> QED BY <1>12, <2>1, <2>2, LocalStep DEF WriteSummary
<1> QED BY <1>2, <1>3, <1>4, <1>5, <1>6, <1>7, <1>8, <1>9, <1>10, <1>11, <1>12
        DEF Progress

\* Failures: what the collector had fetched and not inserted is forgotten.
LEMMA FailureStep ==
  ASSUME IndInv, TypeOK', TracksSelection', NEW p \in Collectors, Failure(p)
  PROVE  IngestionInv'
<1> USE DEF IndInv, IngestionInv, tableVars, planVars, windowVars
<1>1. CollectorInv(p)
  OBVIOUS
<1>2. CASE CycleFails(p)
  <2>1. CollectorInv(p)' /\ \A q \in Collectors \ {p} : Rests(q)
    BY <1>2, ExchangeAssumption
    DEF CycleFails, Forget, CollectorInv, IsNew, exchangeVars, TypeOK, ExchangeTypeOK, Rests
  <2> QED BY <1>2, <2>1, LocalStep DEF CycleFails
<1>3. CASE ScanGapsFails(p)
  <2>1. CollectorInv(p)' /\ \A q \in Collectors \ {p} : Rests(q)
    BY <1>1, <1>3 DEF ScanGapsFails, CollectorInv, IsNew, exchangeVars, TypeOK, Rests
  <2> QED BY <1>3, <2>1, LocalStep DEF ScanGapsFails
<1>4. CASE FetchFails(p)
  <2>1. job[p] \in Jobs
    BY <1>1, <1>4 DEF FetchFails, CollectorInv, WindowInv
  <2>2. CollectorInv(p)' /\ \A q \in Collectors \ {p} : Rests(q)
    BY <1>1, <1>4, <2>1
    DEF FetchFails, MarkFailed, EndWindow, Jobs, CollectorInv, IsNew, exchangeVars, TypeOK, Rests
  <2> QED BY <1>4, <2>2, LocalStep DEF FetchFails
<1>5. CASE InsertFails(p)
  <2>1. WindowInv(p) /\ job[p] \in Jobs
    BY <1>1, <1>5 DEF InsertFails, CollectorInv, WindowInv
  <2>2. CollectorInv(p)' /\ \A q \in Collectors \ {p} : Rests(q)
    BY <1>1, <1>5, <2>1
    DEF InsertFails, MarkFailed, EndWindow, Jobs, CollectorInv, IsNew, exchangeVars, TypeOK, Rests
  <2>3. \A x \in inFlight' \ inFlight : InFlightInv(x)
    BY <1>5, <2>1, AbandonKeeps DEF InsertFails
  <2> QED BY <1>5, <2>2, <2>3, LocalStep DEF InsertFails
<1>6. CASE Crash(p)
  <2>1. CollectorInv(p)' /\ \A q \in Collectors \ {p} : Rests(q)
    BY <1>6, ExchangeAssumption
    DEF Crash, Forget, CollectorInv, IsNew, exchangeVars, TypeOK, ExchangeTypeOK, Rests
  <2>2. \A x \in inFlight' \ inFlight : InFlightInv(x)
    BY <1>1, <1>6, AbandonKeeps DEF Crash, CollectorInv
  <2> QED BY <1>6, <2>1, <2>2, LocalStep DEF Crash
<1> QED BY <1>2, <1>3, <1>4, <1>5, <1>6 DEF Failure

LEMMA IngestionInvInit == Init => IngestionInv
<1> SUFFICES ASSUME Init PROVE IngestionInv
  OBVIOUS
<1>1. TracksSelection
  BY TypingInit
<1>2. PublishedAfterClose
  BY ExchangeAssumption DEF Init, ExchangeInit, PublishedAfterClose
<1>3. HoleFree /\ ClosedOnly
  BY DEF Init, HoleFree, ClosedOnly
<1>4. \A p \in Collectors : CollectorInv(p)
  BY DEF Init, ExchangeInit, CollectorInv, IsNew
<1>5. \A x \in inFlight : InFlightInv(x)
  BY DEF Init
<1> QED BY <1>1, <1>2, <1>3, <1>4, <1>5 DEF IngestionInv

LEMMA IngestionInvNext == IndInv /\ [Next]_vars => IndInv'
<1> SUFFICES ASSUME IndInv, [Next]_vars PROVE IndInv'
  OBVIOUS
<1>1. TypeOK' /\ TracksSelection'
  BY TypingNext DEF IndInv, IngestionInv
<1>2. ASSUME NEW p \in Collectors, Progress(p) PROVE IngestionInv'
  BY <1>1, <1>2, ProgressStep
<1>3. ASSUME NEW p \in Collectors, Failure(p) PROVE IngestionInv'
  BY <1>1, <1>3, FailureStep
<1>4. ASSUME NEW x \in inFlight, CommitInFlight(x) PROVE IngestionInv'
  <2>1. x.sym \in Symbols /\ SelfContained(x.sym, x.candles)
    BY DEF IndInv, IngestionInv, InFlightInv, SelfContained, TypeOK
  <2>2. \A q \in Collectors : Rests(q)
    BY <1>4 DEF CommitInFlight, planVars, windowVars, Rests
  <2> QED BY <1>1, <1>4, <2>1, <2>2, CommitStep DEF CommitInFlight
<1>5. ASSUME NEW x \in Underway, StorePart(x) PROVE IngestionInv'
  <2>1. PICK newest \in x.candles : Commit(x.sym, {m \in x.candles : m <= newest})
    BY <1>5 DEF StorePart
  <2>2. x.sym \in Symbols /\ SelfContained(x.sym, {m \in x.candles : m <= newest})
    BY UnderwaySound, UnderwayTyped, PartSelfContained DEF IndInv, IngestionInv
  <2>3. /\ \A q \in Collectors : Rests(q)
        /\ UNCHANGED exchangeVars /\ inFlight' = inFlight
    BY <1>5 DEF StorePart, planVars, windowVars, Rests
  <2> QED BY <1>1, <2>1, <2>2, <2>3, CommitStep
<1>6. ASSUME Environment PROVE IngestionInv'
  BY <1>1, <1>6, EnvironmentStep
<1>7. ASSUME UNCHANGED vars PROVE IngestionInv'
  <2> USE DEF IndInv, IngestionInv, vars, exchangeVars, tableVars, planVars, windowVars
  <2>1. Grows
    BY <1>7, Numbers DEF Grows
  <2>2. HoleFree' /\ ClosedOnly'
    BY <1>1, <1>7, <2>1, TableKeeps
  <2>3. \A q \in Collectors : CollectorInv(q)'
    BY <1>1, <1>7, <2>1, CollectorKeeps DEF Rests
  <2>4. \A x \in inFlight' : InFlightInv(x)'
    BY <1>1, <1>7, <2>1, InFlightKeeps
  <2> QED BY <1>1, <1>7, <2>2, <2>3, <2>4 DEF PublishedAfterClose
<1> QED BY <1>1, <1>2, <1>3, <1>4, <1>5, <1>6, <1>7 DEF Next, IndInv

LEMMA IndInvInvariant == Spec => []IndInv
<1>1. Init => IndInv
  BY TypingInit, IngestionInvInit DEF IndInv
<1> QED BY <1>1, IngestionInvNext, PTL DEF Spec

\* What a cycle knows at each of its stages (app.py, ingestion/fetch.py, storage/writer.py)
\* stays true whatever other collectors, the exchange and abandoned inserts do.
THEOREM CyclesKnowTheirState == Spec => []IngestionInv
<1>1. IndInv => IngestionInv
  BY DEF IndInv
<1> QED BY <1>1, IndInvInvariant, PTL

\* The watermark never hides a candle, for any number of collectors, symbols and
\* abandoned inserts, any horizon, overlap and batch size: cycle planning from
\* max(open_time) (ingestion/incremental.py), backward paging
\* (ingestion/fetch.py) and oldest-first inserts (storage/writer.py) together
\* leave no hole that the next cycle would not look for.
THEOREM WatermarkIsHoleFree == Spec => []HoleFree
<1>1. IndInv => HoleFree
  BY DEF IndInv, IngestionInv
<1> QED BY <1>1, IndInvInvariant, PTL

\* No forming candle is ever stored (last_closed_open_ms, ingestion/windows.py).
THEOREM OnlyClosedCandles == Spec => []ClosedOnly
<1>1. IndInv => ClosedOnly
  BY DEF IndInv, IngestionInv
<1> QED BY <1>1, IndInvInvariant, PTL
=============================================================================
