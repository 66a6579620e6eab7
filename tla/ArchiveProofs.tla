------------------------------ MODULE ArchiveProofs ------------------------------
(***************************************************************************)
(* Ingestion cycles implement the abstract archive, for every value of the *)
(* constants: initial states map to initial states, and every step maps to *)
(* a step of module Archive or to a stutter.                               *)
(***************************************************************************)
EXTENDS IngestionProofs

\* The two views of what is owed and what is visible.
LEMMA SameNotions ==
  /\ \A s \in Symbols, m \in Minutes : \A k : Promise!OwedAt(s, m, k) <=> Due(s, m, k)
  /\ \A s \in Symbols : Promise!Visible(s) = Published(s)
  /\ Promise!Minutes = Minutes /\ Promise!NotYet = Never
<1>1. Promise!Minutes = Minutes /\ Promise!NotYet = Never
  BY DEF Promise!Minutes, Promise!NotYet, Minutes, Never
<1>2. \A s \in Symbols : Promise!Visible(s) = Published(s)
  BY <1>1 DEF Promise!Visible, Published
<1>3. \A s \in Symbols, m \in Minutes : \A k : Promise!OwedAt(s, m, k) <=> Due(s, m, k)
  BY DEF Promise!OwedAt, Due, InReach, InOverlap
<1> QED BY <1>1, <1>2, <1>3

\* The table takes in what may be committed at any time.
LEMMA CommitIsKeep ==
  ASSUME TypeOK, NEW s \in Symbols, NEW C, SelfContained(s, C),
         UNCHANGED exchangeVars, Commit(s, C)
  PROVE  Promise!Next
<1>1. C \in SUBSET Promise!Minutes
  BY SameNotions DEF SelfContained, Published
<1>2. Promise!Keep(s, C)
  BY SameNotions DEF SelfContained, Promise!Keep, Commit, exchangeVars
<1> QED BY <1>1, <1>2 DEF Promise!Next

\* The exchange passes time, lets a candle appear, or is not seen.
LEMMA EnvironmentIsStep ==
  ASSUME TypeOK, TypeOK', Environment
  PROVE  [Promise!Next]_Promise!vars
<1> USE DEF Environment, tableVars
<1>1. CASE Tick
  BY <1>1, SameNotions
  DEF Tick, Promise!Pass, Promise!Next, TypeOK, ExchangeTypeOK
<1>2. ASSUME NEW s \in Symbols, NEW m \in Minutes, Publish(s, m)
      PROVE  Promise!Next
  <2>1. Promise!Appear(s, m)
    BY <1>2, SameNotions DEF Publish, Promise!Appear
  <2> QED BY <2>1, SameNotions DEF Promise!Next
<1>3. ASSUME NEW s \in Symbols, ChangeListing(s) PROVE UNCHANGED Promise!vars
  BY <1>3 DEF ChangeListing, Promise!vars
<1>4. CASE Settle
  BY <1>4 DEF Settle, Promise!vars
<1> QED BY <1>1, <1>2, <1>3, <1>4 DEF ExchangeNext

\* Only the insert of a chunk is seen of a collector.
LEMMA CollectorIsStep ==
  ASSUME IndInv, NEW p \in Collectors, Progress(p) \/ Failure(p)
  PROVE  [Promise!Next]_Promise!vars
<1> USE DEF exchangeVars, tableVars, Promise!vars
<1>1. CASE InsertChunk(p)
  <2>1. PICK chunk \in Chunks(p) : Commit(job[p].sym, chunk)
    BY <1>1 DEF InsertChunk
  <2>2. pc[p] = "insert" /\ CollectorInv(p)
    BY <1>1 DEF InsertChunk, IndInv, IngestionInv
  <2>3. WindowInv(p) /\ job[p].sym \in Symbols
    BY <2>2 DEF CollectorInv, WindowInv, Jobs
  <2>4. SelfContained(job[p].sym, chunk)
    BY <2>2, <2>3, ChunkSelfContained DEF IndInv, IngestionInv
  <2>5. UNCHANGED exchangeVars
    BY <1>1 DEF InsertChunk
  <2> QED BY <2>1, <2>3, <2>4, <2>5, CommitIsKeep DEF IndInv
<1>2. CASE Progress(p) /\ ~InsertChunk(p)
  BY <1>2 DEF Progress, FetchMeta, ReadWatermarks, ReadClock, BeginWindow, StartWindow,
     ScanGaps, BeginGap, FetchPage, FetchEnds, InsertEnds, WriteSummary
<1>3. CASE Failure(p)
  BY <1>3 DEF Failure, CycleFails, ScanGapsFails, FetchFails, InsertFails, Crash
<1> QED BY <1>1, <1>2, <1>3

\* Every step of the collectors, the server and the exchange is a step of the
\* archive or leaves it alone.
LEMMA StepSimulation == IndInv /\ IndInv' /\ [Next]_vars => [Promise!Next]_Promise!vars
<1> SUFFICES ASSUME IndInv, IndInv', [Next]_vars PROVE [Promise!Next]_Promise!vars
  OBVIOUS
<1>1. ASSUME NEW p \in Collectors, Progress(p) \/ Failure(p)
      PROVE  [Promise!Next]_Promise!vars
  BY <1>1, CollectorIsStep
<1>2. ASSUME NEW x \in inFlight, CommitInFlight(x) PROVE Promise!Next
  <2>1. x.sym \in Symbols /\ SelfContained(x.sym, x.candles)
    BY DEF IndInv, IngestionInv, InFlightInv, SelfContained, TypeOK
  <2> QED BY <1>2, <2>1, CommitIsKeep DEF CommitInFlight, IndInv
<1>3. ASSUME NEW x \in Underway, StorePart(x) PROVE Promise!Next
  <2>1. PICK newest \in x.candles : Commit(x.sym, {m \in x.candles : m <= newest})
    BY <1>3 DEF StorePart
  <2>2. x.sym \in Symbols /\ SelfContained(x.sym, {m \in x.candles : m <= newest})
    BY UnderwaySound, UnderwayTyped, PartSelfContained DEF IndInv, IngestionInv
  <2>3. UNCHANGED exchangeVars
    BY <1>3 DEF StorePart
  <2> QED BY <2>1, <2>2, <2>3, CommitIsKeep DEF IndInv
<1>4. CASE Environment
  BY <1>4, EnvironmentIsStep DEF IndInv
<1>5. CASE UNCHANGED vars
  BY <1>5 DEF vars, exchangeVars, tableVars, Promise!vars
<1> QED BY <1>1, <1>2, <1>3, <1>4, <1>5 DEF Next

\* The promise is kept by any number of collectors, on any exchange: no step of
\* a cycle (app.py), of a crash, of a late insert or of the exchange takes a candle
\* out of candles_1m, lets in one that is still forming, or steps over one that is due.
THEOREM CyclesImplementArchive == Spec => ImplementsArchive
<1>1. Init => Promise!Init
  BY SameNotions DEF Init, ExchangeInit, Promise!Init
<1>2. IndInv /\ IndInv' /\ [Next]_vars => [Promise!Next]_Promise!vars
  BY StepSimulation
<1> QED BY <1>1, <1>2, IndInvInvariant, PTL DEF Spec, ImplementsArchive, Promise!Spec
=============================================================================
