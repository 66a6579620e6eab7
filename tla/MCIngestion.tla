------------------------------ MODULE MCIngestion ------------------------------
(***************************************************************************)
(* Instances of Ingestion for TLC.                                         *)
(***************************************************************************)
EXTENDS IngestionInv, TLC

\* The collectors run the same code.
CollectorSymmetry == Permutations(Collectors)

\* Safety runs leave the outages on: a settled state only has fewer successors
\* than the same state unsettled, so its successors add nothing to an invariant.
OutagesLast == ~settled

\* Runs about one coin's windows; coins that come and go have a run of their own.
AlwaysListed == active = Symbols

\* The candles that did not appear as soon as their minute ended.
LateCandles == {c \in Symbols \X Minutes :
                  /\ c[2] + 1 < now
                  /\ publishedAt[c[1]][c[2]] > c[2] + 1}

FewLate == Cardinality(LateCandles) <= 1

\* Bound: the last minute in which collectors work side by side.
LastShared == 3

\* Collectors take turns later, and in that minute when a candle is late.
TakeTurns ==
  now > LastShared \/ (now = LastShared /\ LateCandles # {}) =>
    Cardinality({p \in Collectors : pc[p] # "idle"}) <= 1

\* Symbols fail, and abandoned inserts are completed, before LastShared.
FailEarly ==
  now >= LastShared => inFlight = {} /\ \A p \in Collectors : failed[p] = {}
=============================================================================
