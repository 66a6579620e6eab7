------------------------------- MODULE CycleLedger -------------------------------
(***************************************************************************)
(* What a cycle reports of itself: the rows it puts into ingestion_runs    *)
(* and ingestion_symbol_status (storage/runs.py), beside the cycle of      *)
(* module Ingestion that they are about.  The status rows of a cycle are   *)
(* kept grouped by symbol: how many of each status, how many candles.      *)
(***************************************************************************)
EXTENDS Ingestion, FiniteSetsExt

VARIABLES
  batch,     \* inserted_total of insert_candles, for the window in hand
  inserted,  \* candles_inserted of the cycle
  sent,      \* history: candles the cycle's inserts have put into the table
  statuses,  \* symbol_statuses, grouped by symbol
  filed,     \* the attempt to write the status rows is over
  account    \* account[p]: rows of p's newest cycle, joined on run_id

ledgerVars == <<batch, inserted, sent, statuses, filed, account>>
allVars == <<vars, ledgerVars>>

NoStatus == [initial |-> 0, stored |-> 0, failed |-> 0, skipped |-> 0, candles |-> 0]
NoStatuses == [s \in Symbols |-> NoStatus]
NoReport == [mode |-> "none", run |-> NoRun, candles |-> 0]
FailedReport == [mode |-> "incremental", run |-> FailedRun, candles |-> 0]
NoAccount == [rows |-> NoStatuses, report |-> NoReport]

LedgerInit ==
  /\ Init
  /\ batch = [p \in Collectors |-> 0]
  /\ inserted = [p \in Collectors |-> 0]
  /\ sent = [p \in Collectors |-> 0]
  /\ statuses = [p \in Collectors |-> NoStatuses]
  /\ filed = [p \in Collectors |-> FALSE]
  /\ account = [p \in Collectors |-> NoAccount]

-----------------------------------------------------------------------------

\* The lists and counters of a cycle start empty, but for one `skipped' row for
\* each allowlisted symbol that is not listed.
OpenLedger(p) ==
  /\ ReadClock(p)
  /\ statuses' = [statuses EXCEPT ![p] =
       [s \in Symbols |->
          IF s \in Unknown(selected[p]) THEN [NoStatus EXCEPT !.skipped = 1] ELSE NoStatus]]
  /\ UNCHANGED <<batch, inserted, sent, filed, account>>

\* Steps that report nothing.
Silent(p) ==
  /\ \/ FetchMeta(p) \/ ReadWatermarks(p)
     \/ \E s \in Symbols : BeginWindow(p, s)
     \/ ScanGaps(p) \/ ScanGapsFails(p)
     \/ \E g \in Gaps : BeginGap(p, g)
     \/ FetchPage(p) \/ FetchEnds(p)
  /\ UNCHANGED ledgerVars

\* insert_candles counts a chunk once its insert has returned.
CountChunk(p) ==
  LET n == Cardinality(rows[p] \ rows'[p]) IN
  /\ InsertChunk(p)
  /\ batch' = [batch EXCEPT ![p] = @ + n]
  /\ sent' = [sent EXCEPT ![p] = @ + n]
  /\ UNCHANGED <<inserted, statuses, filed, account>>

\* 1 for the window of a new symbol, which reports as `initial'; 0 for the others.
InitialRow(p) == IF job[p].phase = "windows" /\ IsNew(p, job[p].sym) THEN 1 ELSE 0

\* The rows of the symbol in hand with one more: a `success' row.
WithStored(p) == [statuses[p][job[p].sym] EXCEPT
  !.initial = @ + InitialRow(p), !.stored = @ + 1, !.candles = @ + batch[p]]

\* Variant: a failed row has the candles of the chunks that are in.
WithPartial(p) == [statuses[p][job[p].sym] EXCEPT
  !.initial = @ + InitialRow(p), !.failed = @ + 1, !.candles = @ + batch[p]]

\* A `failed' row, which reports no candles.
WithFailed(p) == [statuses[p][job[p].sym] EXCEPT
  !.initial = @ + InitialRow(p), !.failed = @ + 1]

\* A window is stored.
ReportStored(p) ==
  /\ InsertEnds(p)
  /\ statuses' = [statuses EXCEPT ![p][job[p].sym] = WithStored(p)]
  /\ inserted' = [inserted EXCEPT ![p] = @ + batch[p]]
  /\ batch' = [batch EXCEPT ![p] = 0]
  /\ UNCHANGED <<sent, filed, account>>

\* Variant: a failed window still reports what it has fetched.
ReportFetched(p) == inserted' = [inserted EXCEPT ![p] = @ + batch[p] + Cardinality(rows[p])]

\* A failed window reports no candles, whatever chunks are in.
ReportNone(p) == UNCHANGED inserted

\* A window fails.
ReportFailed(p) ==
  /\ FetchFails(p) \/ InsertFails(p)
  /\ statuses' = [statuses EXCEPT ![p][job[p].sym] = WithFailed(p)]
  /\ ReportNone(p)
  /\ batch' = [batch EXCEPT ![p] = 0]
  /\ UNCHANGED <<sent, filed, account>>

\* insert_symbol_statuses
InsertStatuses(p) == account' = [account EXCEPT ![p] = [NoAccount EXCEPT !.rows = statuses[p]]]

\* The status rows are written; when that fails it is only logged.
FileStatuses(p) ==
  /\ pc[p] = "gaps"
  /\ gaps[p] = {}
  /\ ~filed[p]
  /\ filed' = [filed EXCEPT ![p] = TRUE]
  /\ \/ InsertStatuses(p)
     \/ ~settled /\ account' = [account EXCEPT ![p] = NoAccount]
  /\ UNCHANGED <<vars, batch, inserted, sent, statuses>>

CloseLedger(p) ==
  /\ batch' = [batch EXCEPT ![p] = 0]
  /\ inserted' = [inserted EXCEPT ![p] = 0]
  /\ sent' = [sent EXCEPT ![p] = 0]
  /\ statuses' = [statuses EXCEPT ![p] = NoStatuses]
  /\ filed' = [filed EXCEPT ![p] = FALSE]

\* `initial' if any symbol was new when the watermarks were read.
RunMode(p) == IF \E s \in selected[p] : IsNew(p, s) THEN "initial" ELSE "incremental"

\* insert_run_summary
InsertSummary(p) ==
  /\ lastRun' = Summary(p)
  /\ account' = [account EXCEPT ![p].report =
                   [mode |-> RunMode(p), run |-> Summary(p), candles |-> inserted[p]]]

\* The summary follows the status rows, written or not.
FileSummary(p) ==
  /\ filed[p]
  /\ WriteSummary(p)
  /\ \/ InsertSummary(p)
     \/ lastRun' = lastRun /\ UNCHANGED account
  /\ CloseLedger(p)

\* An error before the windows: a run row without status rows.  A crash: nothing.
AbandonLedger(p) ==
  /\ \/ /\ CycleFails(p)
        /\ lastRun' = FailedRun
        /\ account' = [account EXCEPT ![p] = [NoAccount EXCEPT !.report = FailedReport]]
     \/ CycleFails(p) /\ lastRun' = lastRun /\ UNCHANGED account
     \/ Crash(p) /\ UNCHANGED account
  /\ CloseLedger(p)

LedgerNext ==
  \/ \E p \in Collectors :
       \/ OpenLedger(p) \/ Silent(p) \/ CountChunk(p) \/ ReportStored(p) \/ ReportFailed(p)
       \/ FileStatuses(p) \/ FileSummary(p) \/ AbandonLedger(p)
  \/ /\ (\E x \in Underway : StorePart(x)) \/ \E x \in inFlight : CommitInFlight(x)
     /\ UNCHANGED ledgerVars
  \/ Environment /\ UNCHANGED ledgerVars

LedgerSpec == LedgerInit /\ [][LedgerNext]_allVars

-----------------------------------------------------------------------------

\* The status rows are complete and about to be written.
Reported(p) == pc[p] = "gaps" /\ gaps[p] = {}

\* Every configured symbol has exactly one outcome in the rows of a cycle, though they are
\* made in three phases while coins come and go: it was handled, in whatever phases and
\* how often it failed, if it was listed when the cycle began, else skipped (app.py:189).
\* No other symbol has a row, so a delisted coin with old gaps is not handled as well.
OneOutcomeEach ==
  \A p \in Collectors, s \in Symbols : Reported(p) =>
    LET handled    == statuses[p][s].stored > 0 \/ statuses[p][s].failed > 0
        skipped    == statuses[p][s].skipped > 0
        configured == SymbolsMode = "allowlist" /\ s \in SymbolsAllowlist
    IN  /\ handled <=> s \in selected[p]
        /\ skipped <=> configured /\ ~handled
        /\ SymbolsMode = "allowlist" /\ ~configured => ~handled

\* Wrote to both tables.
Filed(p) == account[p].report # NoReport /\ account[p].rows # NoStatuses

\* The two tables agree on the symbols of a cycle that wrote to both: those the run
\* row counts as failed, skipped and ok are those with such rows, in whatever phase
\* and however often a symbol failed, and its mode is `initial' exactly if some
\* row's is.
SymbolsAgree ==
  \A p \in Collectors : Filed(p) =>
    LET r == account[p].rows
        report == account[p].report
    IN  /\ report.run.failed = Cardinality({s \in Symbols : r[s].failed > 0})
        /\ report.run.skipped = Cardinality({s \in Symbols : r[s].skipped > 0})
        /\ report.run.ok = Cardinality({s \in Symbols : r[s].stored > 0 /\ r[s].failed = 0})
        /\ report.mode = "initial" <=> \E s \in Symbols : r[s].initial > 0

\* They agree on its candles as well: the run row sums up those of the status rows.
CandlesAgree ==
  \A p \in Collectors : Filed(p) =>
    account[p].report.candles = SumFunction([s \in Symbols |-> account[p].rows[s].candles])

\* A cycle never reports candles it has not put into the table; it reports all of
\* them as long as no window has failed (app.py:469 drops the chunks that were in).
ReportsWhatIsStored ==
  \A p \in Collectors :
    /\ inserted[p] + batch[p] <= sent[p]
    /\ failed[p] = {} => inserted[p] + batch[p] = sent[p]
=============================================================================
