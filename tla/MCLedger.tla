-------------------------------- MODULE MCLedger --------------------------------
(***************************************************************************)
(* Instances of CycleLedger for TLC.                                       *)
(***************************************************************************)
EXTENDS CycleLedger

CONSTANT Traded   \* the symbols in which there are trades

\* See MCIngestion.
OutagesLast == ~settled

\* A listed coin without trades has no candles.
OnlyTradedPublish == \A s \in Symbols \ Traded : \A m \in Minutes : publishedAt[s][m] = Never

\* It is listed all the time; the others come and go.
OthersStayListed == Symbols \ Traded \subseteq active

\* An abandoned insert is over before the last minute.
SoonOver == inFlight # {} => now < MaxMinute
=============================================================================
