------------------------------ MODULE IngestionInv ------------------------------
(***************************************************************************)
(* The inductive invariant behind HoleFree and ClosedOnly: what a cycle    *)
(* knows at each of its stages, whatever other collectors, the exchange    *)
(* and abandoned inserts do meanwhile.                                     *)
(***************************************************************************)
EXTENDS Ingestion

\* What a collector works on is selected, so only selected symbols can fail.
TracksSelection ==
  \A p \in Collectors :
    /\ todo[p] \subseteq selected[p]
    /\ \A g \in gaps[p] : g.sym \in selected[p]
    /\ pc[p] \in {"fetch", "insert"} => job[p] \in Jobs /\ job[p].sym \in selected[p]
    /\ failed[p] \subseteq selected[p]
    /\ pc[p] = "idle" => todo[p] = {} /\ gaps[p] = {} /\ failed[p] = {}

\* No candle appears before its minute is over.
PublishedAfterClose ==
  \A s \in Symbols, m \in Minutes : m < publishedAt[s][m]

\* The window in hand.  An incremental or initial window ends at the cycle's last
\* closed candle, and every candle due there is stored or in `rows', from the
\* cursor up while pages are fetched.  A gap's window ends at a stored candle, so
\* the rows it inserts raise no watermark.
WindowInv(p) ==
  /\ job[p] \in Jobs
  /\ cursor[p] <= job[p].end
  /\ \A m \in rows[p] : m \in Published(job[p].sym) /\ m <= job[p].end
  /\ job[p].phase = "gaps" => job[p].end \in stored[job[p].sym]
  /\ job[p].phase = "windows" =>
       /\ job[p].end = last[p]
       /\ job[p].start = WindowStart(p, job[p].sym)
       /\ \A m \in Minutes :
            Due(job[p].sym, m, last[p]) /\ (pc[p] = "insert" \/ m > cursor[p])
              => m \in rows[p] \cup stored[job[p].sym]

CollectorInv(p) ==
  /\ last[p] < now
  /\ \A s \in Symbols : ~IsNew(p, s) => watermark[p][s] \in stored[s]
  /\ \A g \in gaps[p] : g.before \in stored[g.sym]
  /\ IF pc[p] \in {"fetch", "insert"} THEN WindowInv(p) ELSE rows[p] = {}

\* An abandoned insert can be completed at any later time and leave no hole.
InFlightInv(x) ==
  /\ x.candles \subseteq Published(x.sym)
  /\ \A m \in Minutes : \A k \in x.candles :
       Due(x.sym, m, k) => m \in x.candles \cup stored[x.sym]

\* The inductive invariant of the proof of HoleFree (IngestionProofs.tla).
IngestionInv ==
  /\ TracksSelection
  /\ PublishedAfterClose
  /\ HoleFree
  /\ ClosedOnly
  /\ \A p \in Collectors : CollectorInv(p)
  /\ \A x \in inFlight : InFlightInv(x)

-----------------------------------------------------------------------------

\* The archive the table implements.
Promise == INSTANCE Archive WITH clock <- now, appeared <- publishedAt, kept <- stored

\* Ingestion cycles implement module Archive: whatever the collectors, crashes,
\* failures, late inserts and the exchange do, each step passes time, lets a
\* candle appear, adds visible candles together with all that is due at one of
\* them, or leaves the archive alone.  No step ever takes a candle out.
ImplementsArchive == Promise!Spec
=============================================================================
