-------------------------------- MODULE Archive --------------------------------
(***************************************************************************)
(* What the collector promises about the table it fills, without a word    *)
(* on how: an archive of candles that loses nothing, takes in nothing that *)
(* has not appeared, and never steps over a candle it still owes.          *)
(***************************************************************************)
EXTENDS Integers

CONSTANTS
  Symbols,
  MaxMinute,           \* bound: the clock stops here
  SourceHorizon,       \* closed candles the exchange still serves
  RestHorizonCandles,  \* closed candles the collector still asks for
  OverlapCandles,      \* minutes after its close a candle is waited for
  InitialStart         \* nothing older is owed

VARIABLES
  clock,     \* the forming minute
  appeared,  \* appeared[s][m]: minute in which candle m of s became visible
  kept       \* kept[s]: candles of s in the archive

vars == <<clock, appeared, kept>>

Minutes == 0 .. MaxMinute
NotYet == MaxMinute + 1

Visible(s) == {m \in Minutes : appeared[s][m] <= clock}

\* Candle m of s cannot be missing from an archive that holds candle k.
OwedAt(s, m, k) ==
  /\ m >= InitialStart
  /\ m >= clock - SourceHorizon
  /\ m >= clock - RestHorizonCandles
  /\ appeared[s][m] <= m + 1 + OverlapCandles
  /\ appeared[s][m] <= k

Init ==
  /\ clock = 0
  /\ appeared = [s \in Symbols |-> [m \in Minutes |-> NotYet]]
  /\ kept = [s \in Symbols |-> {}]

Pass ==
  /\ clock' \in Minutes
  /\ clock' = clock + 1
  /\ UNCHANGED <<appeared, kept>>

\* Candle m of s becomes visible; its minute is over.
Appear(s, m) ==
  /\ m < clock
  /\ appeared[s][m] = NotYet
  /\ appeared' = [appeared EXCEPT ![s][m] = clock]
  /\ UNCHANGED <<clock, kept>>

\* Any number of visible candles of s enter at once, together with all that is
\* owed at one of them.
Keep(s, candles) ==
  /\ candles \subseteq Visible(s)
  /\ \A m \in Minutes : \A k \in candles :
       OwedAt(s, m, k) => m \in kept[s] \cup candles
  /\ kept' = [kept EXCEPT ![s] = @ \cup candles]
  /\ UNCHANGED <<clock, appeared>>

Next ==
  \/ Pass
  \/ \E s \in Symbols, m \in Minutes : Appear(s, m)
  \/ \E s \in Symbols : \E candles \in SUBSET Minutes : Keep(s, candles)

Spec == Init /\ [][Next]_vars
=============================================================================
