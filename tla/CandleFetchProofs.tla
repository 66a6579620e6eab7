---------------------------- MODULE CandleFetchProofs ----------------------------
(***************************************************************************)
(* One symbol's window, for any number of writers, any interval, horizon   *)
(* and overlap, and whatever the endpoint answers: types, only the candles *)
(* that were asked for reach the table, and paging ends.                   *)
(***************************************************************************)
EXTENDS CandleFetch, FiniteFacts

\* The clock does not run before the first whole horizon has passed.
ClockInv == clock \in Times /\ clock >= RestHorizonCandles * Interval

\* A window: its bounds, and how far the paging has come.
WindowInv(w) ==
  /\ start[w] \in Nat /\ end[w] \in Times /\ cursor[w] \in Times
  /\ requests[w] \in Nat
  /\ got[w] \in [Times -> 0 .. MaxRevision]
  /\ watermark[w] \in Times \cup {None}
  /\ pc[w] \in {"idle", "plan"} =>
       /\ start[w] = 0 /\ end[w] = 0 /\ requests[w] = 0
       /\ got[w] = NoCandles
  /\ pc[w] \in {"fetch", "insert"} =>
       /\ Aligned(end[w])
       /\ end[w] + Interval <= clock
       /\ start[w] <= cursor[w] /\ cursor[w] <= end[w]
  /\ pc[w] = "fetch" => requests[w] * Interval <= end[w] - cursor[w]
  /\ requests[w] * Interval <= end[w] - start[w] + Interval
  /\ \A t \in Times : got[w][t] > 0 => Aligned(t) /\ start[w] <= t /\ t <= end[w]

\* The table holds closed candles.
ShownInv == \A t \in Times : shown[t] > 0 => Aligned(t) /\ t + Interval <= clock

FetchInv ==
  /\ TypeOK
  /\ ClockInv
  /\ ShownInv
  /\ \A w \in Writers : WindowInv(w)

-----------------------------------------------------------------------------
(* Multiples of the interval.                                              *)

LEMMA TimesAreNatural == Times \subseteq Nat
BY CandleFetchAssumption DEF Times

LEMMA Rounding ==
  ASSUME NEW a \in Nat
  PROVE  /\ a \div Interval \in Nat
         /\ a % Interval \in 0 .. Interval - 1
         /\ a = Interval * (a \div Interval) + (a % Interval)
BY CandleFetchAssumption

LEMMA MultipleIsAligned ==
  ASSUME NEW k \in Nat
  PROVE  Aligned(k * Interval) /\ k * Interval \in Nat
BY CandleFetchAssumption DEF Aligned

LEMMA AlignedIsMultiple ==
  ASSUME NEW a \in Nat, Aligned(a)
  PROVE  \E k \in Nat : a = k * Interval
BY CandleFetchAssumption, Rounding DEF Aligned

LEMMA MultiplesOrdered ==
  ASSUME NEW j \in Nat, NEW k \in Nat, j * Interval < k * Interval
  PROVE  j * Interval + Interval <= k * Interval
<1>1. ASSUME k <= j PROVE FALSE
  <2>1. k * Interval <= j * Interval
    BY <1>1, CandleFetchAssumption
  <2> QED BY <2>1, CandleFetchAssumption
<1>2. j + 1 <= k
  BY <1>1
<1>3. (j + 1) * Interval <= k * Interval
  BY <1>2, CandleFetchAssumption
<1> QED BY <1>3, CandleFetchAssumption

\* Two opens of candles are at least an interval apart.
LEMMA AlignedApart ==
  ASSUME NEW a \in Nat, NEW b \in Nat, Aligned(a), Aligned(b), a < b
  PROVE  a + Interval <= b /\ Aligned(b - Interval)
<1>1. PICK j \in Nat : a = j * Interval
  BY AlignedIsMultiple
<1>2. PICK k \in Nat : b = k * Interval
  BY AlignedIsMultiple
<1>3. a + Interval <= b
  BY <1>1, <1>2, MultiplesOrdered
<1>4. k # 0
  BY <1>1, <1>2, CandleFetchAssumption
<1>5. k - 1 \in Nat /\ b - Interval = (k - 1) * Interval
  BY <1>2, <1>4, CandleFetchAssumption
<1> QED BY <1>3, <1>5, MultipleIsAligned

\* The newest closed candle and the horizon floor.
LEMMA PlannedBounds ==
  ASSUME ClockInv
  PROVE  /\ LastClosed \in Times /\ Aligned(LastClosed) /\ LastClosed + Interval <= clock
         /\ HorizonFloor \in Nat
<1> DEFINE q == clock \div Interval
<1>1. clock \in Nat /\ MaxMs \in Nat /\ Interval \in Nat \ {0}
      /\ RestHorizonCandles \in Nat \ {0}
  BY CandleFetchAssumption DEF ClockInv, Times
<1>2. q \in Nat /\ clock = Interval * q + (clock % Interval)
      /\ clock % Interval \in 0 .. Interval - 1
  BY <1>1, Rounding
<1>3. q * Interval <= clock /\ clock < q * Interval + Interval
  BY <1>1, <1>2
<1>4. q >= RestHorizonCandles
  <2> HIDE DEF q
  <2> SUFFICES ASSUME q + 1 <= RestHorizonCandles PROVE FALSE
    BY <1>1, <1>2
  <2>1. (q + 1) * Interval <= RestHorizonCandles * Interval
    BY <1>1, <1>2
  <2> QED BY <1>1, <1>2, <1>3, <2>1 DEF ClockInv
<1> HIDE DEF q
<1>5. q - 1 \in Nat /\ q - RestHorizonCandles \in Nat
  BY <1>1, <1>2, <1>4
<1>6. LastClosed = (q - 1) * Interval
  BY <1>1, <1>2 DEF LastClosed, q
<1>7. HorizonFloor = (q - RestHorizonCandles) * Interval
  BY <1>1, <1>2, <1>6 DEF HorizonFloor
<1>8. LastClosed + Interval <= clock
  BY <1>1, <1>2, <1>3, <1>6
<1>9. LastClosed \in Nat /\ Aligned(LastClosed) /\ HorizonFloor \in Nat
  BY <1>5, <1>6, <1>7, MultipleIsAligned
<1>10. LastClosed \in Times
  BY <1>1, <1>8, <1>9 DEF ClockInv, Times
<1> QED BY <1>8, <1>9, <1>10

\* A window starts at or after the horizon floor, whatever the watermark is.
LEMMA StartIsNatural ==
  ASSUME FetchInv, NEW w \in Writers
  PROVE  WindowStart(w) \in Nat
<1>1. HorizonFloor \in Nat
  BY PlannedBounds DEF FetchInv
<1>2. CASE watermark[w] = None
  BY <1>1, <1>2, CandleFetchAssumption DEF WindowStart, InitialStart, Later, FetchInv, TypeOK
<1>3. CASE watermark[w] # None
  <2>1. watermark[w] \in Int
    <3>1. watermark[w] \in Times \cup {None}
      BY DEF FetchInv, TypeOK
    <3>2. watermark[w] \in Times
      BY <1>3, <3>1, Zenon
    <3> QED BY <3>2, CandleFetchAssumption DEF Times
  <2>2. WindowStart(w) = OverlapStart(watermark[w])
    BY <1>3 DEF WindowStart
  <2>3. watermark[w] - OverlapCandles * Interval \in Int
    BY <2>1, CandleFetchAssumption
  <2> QED BY <1>1, <2>2, <2>3 DEF OverlapStart, Later
<1> QED BY <1>2, <1>3

\* The watermark is the open of a candle, if there is one.
LEMMA NewestIsStored ==
  ASSUME Stored # {}
  PROVE  (CHOOSE t \in Stored : \A u \in Stored : u <= t) \in Times
<1>1. Stored \subseteq Int /\ IsFiniteSet(Stored)
  <2>1. IsFiniteSet(Times) /\ Times \subseteq Int
    BY CandleFetchAssumption, FS_Interval DEF Times
  <2>2. Stored \subseteq Times
    BY DEF Stored
  <2> QED BY <2>1, <2>2, FS_Subset
<1>2. \E t \in Stored : \A u \in Stored : u <= t
  BY ONLY Stored # {}, <1>1, HasGreatest, ZenonT(60)
<1> QED BY <1>2 DEF Stored

-----------------------------------------------------------------------------
(* Steps.                                                                  *)

\* A writer that does nothing keeps its window while the clock does not go back.
LEMMA WindowKeeps ==
  ASSUME FetchInv, NEW w \in Writers, clock' \in Nat, clock <= clock',
         pc'[w] = pc[w], start'[w] = start[w], end'[w] = end[w], cursor'[w] = cursor[w],
         got'[w] = got[w], requests'[w] = requests[w], watermark'[w] = watermark[w]
  PROVE  WindowInv(w)'
<1>1. WindowInv(w) /\ clock \in Nat /\ end[w] \in Nat /\ Interval \in Nat
  BY CandleFetchAssumption DEF FetchInv, ClockInv, WindowInv, Times
<1>2. end[w] + Interval <= clock => end[w] + Interval <= clock'
  BY <1>1
<1> QED BY <1>1, <1>2 DEF WindowInv, Aligned

\* The window is forgotten.
LEMMA ForgetKeeps ==
  ASSUME FetchInv, NEW w \in Writers, Forget(w), UNCHANGED sourceVars
  PROVE  (\A v \in Writers : WindowInv(v)') /\ pc' \in [Writers -> {"idle", "plan", "fetch", "insert"}]
         /\ watermark' \in [Writers -> Times \cup {None}]
         /\ start' \in [Writers -> Int] /\ end' \in [Writers -> Times]
         /\ cursor' \in [Writers -> Times] /\ requests' \in [Writers -> Nat]
         /\ got' \in [Writers -> [Times -> 0 .. MaxRevision]]
<1>1. 0 \in Times /\ NoCandles \in [Times -> 0 .. MaxRevision]
  BY CandleFetchAssumption DEF Times, NoCandles
<1>2. /\ pc'[w] = "idle" /\ start'[w] = 0 /\ end'[w] = 0 /\ cursor'[w] = 0
      /\ got'[w] = NoCandles /\ requests'[w] = 0 /\ watermark'[w] = None
  BY DEF Forget, FetchInv, TypeOK
<1>3. WindowInv(w)'
  <2>1. \A t \in Times : NoCandles[t] = 0
    BY DEF NoCandles
  <2>2. 0 * Interval <= 0 - 0 + Interval
    BY CandleFetchAssumption
  <2> QED BY <1>1, <1>2, <2>1, <2>2 DEF WindowInv
<1>4. ASSUME NEW v \in Writers, v # w PROVE WindowInv(v)'
  <2>1. clock' = clock /\ clock \in Nat
    BY DEF sourceVars, FetchInv, ClockInv, Times
  <2> QED BY <1>4, <2>1, WindowKeeps DEF Forget, FetchInv, TypeOK
<1>5. pc' \in [Writers -> {"idle", "plan", "fetch", "insert"}] /\ start' \in [Writers -> Int]
      /\ watermark' \in [Writers -> Times \cup {None}] /\ end' \in [Writers -> Times] /\ cursor' \in [Writers -> Times]
      /\ requests' \in [Writers -> Nat] /\ got' \in [Writers -> [Times -> 0 .. MaxRevision]]
  BY <1>1 DEF Forget, FetchInv, TypeOK
<1> QED BY <1>3, <1>4, <1>5

\* Nothing of the exchange or the table changes.
LEMMA SourceKeeps ==
  ASSUME FetchInv, UNCHANGED <<sourceVars, shown>>
  PROVE  ClockInv' /\ ShownInv'
         /\ clock' \in Times /\ revision' \in [Times -> 0 .. MaxRevision]
         /\ settled' \in BOOLEAN /\ requested' \in RequestedStarts
         /\ shown' \in [Times -> 0 .. MaxRevision]
<1>1. settled' \in BOOLEAN
  BY Zenon DEF FetchInv, TypeOK, sourceVars
<1> QED BY <1>1 DEF FetchInv, TypeOK, sourceVars, ClockInv, ShownInv, Aligned

LEMMA ReadWatermarkStep ==
  ASSUME FetchInv, NEW w \in Writers, ReadWatermark(w)
  PROVE  FetchInv'
<1>1. /\ pc[w] = "idle" /\ pc' = [pc EXCEPT ![w] = "plan"] /\ pc'[w] = "plan"
      /\ UNCHANGED <<sourceVars, shown, start, end, cursor, got, requests>>
  BY DEF ReadWatermark, FetchInv, TypeOK
<1>2. watermark' \in [Writers -> Times \cup {None}]
      /\ \A v \in Writers \ {w} : watermark'[v] = watermark[v]
  BY NewestIsStored DEF ReadWatermark, FetchInv, TypeOK
<1>3. WindowInv(w)'
  BY <1>1, <1>2 DEF FetchInv, WindowInv, Aligned, sourceVars
<1>4. ASSUME NEW v \in Writers, v # w PROVE WindowInv(v)'
  <2>1. clock' = clock /\ clock \in Nat
    BY <1>1 DEF sourceVars, FetchInv, ClockInv, Times
  <2>2. pc'[v] = pc[v]
    BY <1>1, <1>4 DEF FetchInv, TypeOK
  <2> QED BY <1>1, <1>2, <1>4, <2>1, <2>2, WindowKeeps
<1>5. TypeOK' /\ ClockInv' /\ ShownInv'
  BY <1>1, <1>2, SourceKeeps DEF FetchInv, TypeOK
<1> QED BY <1>3, <1>4, <1>5 DEF FetchInv

LEMMA PlanStep ==
  ASSUME FetchInv, NEW w \in Writers, Plan(w)
  PROVE  FetchInv'
<1>1. /\ LastClosed \in Times /\ Aligned(LastClosed) /\ LastClosed + Interval <= clock
      /\ WindowStart(w) \in Nat /\ WindowStart(w) <= LastClosed /\ LastClosed \in Nat
  BY PlannedBounds, StartIsNatural DEF FetchInv, Plan, Times
<1> DEFINE first == WindowStart(w)
           newest == LastClosed
<1>2. /\ pc[w] = "plan" /\ pc'[w] = "fetch" /\ start'[w] = first /\ end'[w] = newest
      /\ cursor'[w] = newest /\ watermark'[w] = None
      /\ UNCHANGED <<sourceVars, shown, got, requests>>
  BY DEF Plan, FetchInv, TypeOK
<1>3. WindowInv(w) /\ got[w] = NoCandles /\ requests[w] = 0
  BY <1>2 DEF FetchInv, WindowInv
<1> HIDE DEF first, newest
<1>4. WindowInv(w)'
  <2>1. \A t \in Times : ~(got'[w][t] > 0)
    BY <1>2, <1>3 DEF NoCandles
  <2>2. /\ first \in Nat /\ newest \in Nat /\ newest \in Times /\ first <= newest
        /\ Aligned(newest) /\ newest + Interval <= clock'
    BY <1>1, <1>2 DEF first, newest, sourceVars
  <2>3. 0 * Interval <= newest - newest /\ 0 * Interval <= newest - first + Interval
    BY <2>2, CandleFetchAssumption
  <2> QED BY <1>2, <1>3, <2>1, <2>2, <2>3 DEF WindowInv, Aligned
<1>5. ASSUME NEW v \in Writers, v # w PROVE WindowInv(v)'
  <2>1. clock' = clock /\ clock \in Nat
    BY <1>2 DEF sourceVars, FetchInv, ClockInv, Times
  <2> QED BY <1>5, <2>1, WindowKeeps DEF Plan, FetchInv, TypeOK
<1>6. TypeOK' /\ ClockInv' /\ ShownInv'
  <2>1. pc' \in [Writers -> {"idle", "plan", "fetch", "insert"}] /\ start' \in [Writers -> Int]
        /\ end' \in [Writers -> Times] /\ cursor' \in [Writers -> Times]
        /\ watermark' \in [Writers -> Times \cup {None}]
    BY <1>1 DEF Plan, FetchInv, TypeOK
  <2>2. got' \in [Writers -> [Times -> 0 .. MaxRevision]] /\ requests' \in [Writers -> Nat]
    BY <1>2 DEF FetchInv, TypeOK
  <2> QED BY <1>2, <2>1, <2>2, SourceKeeps DEF TypeOK
<1> QED BY <1>4, <1>5, <1>6 DEF FetchInv

\* A page that is accepted: its rows lie in the request, and the paging goes back by
\* at least one interval or ends.
LEMMA ReceiveStep ==
  ASSUME FetchInv, NEW w \in Writers, pc[w] = "fetch", WeightIsDefined(w),
         NEW page \in SUBSET Times, Receive(w, page)
  PROVE  FetchInv'
<1> DEFINE oldest == CHOOSE t \in page : \A u \in page : t <= u
<1>1. oldest \in page
  <2>1. IsFiniteSet(page) /\ page \subseteq Int /\ page # {}
    <3>1. IsFiniteSet(Times) /\ Times \subseteq Int
      BY CandleFetchAssumption, FS_Interval DEF Times
    <3> QED BY <3>1, FS_Subset DEF Receive
  <2>2. \E t \in page : \A u \in page : t <= u
    BY ONLY <2>1, HasLeast, ZenonT(60)
  <2> QED BY <2>2
<1>2. Advance(w, oldest)
  BY DEF Receive
<1> HIDE DEF oldest
<1>3. /\ got' = [got EXCEPT ![w] = [t \in Times |-> IF t \in page THEN Value(t) ELSE @[t]]]
      /\ requests' = [requests EXCEPT ![w] = @ + 1]
      /\ UNCHANGED <<sourceVars, shown, watermark, start, end>>
      /\ \A t \in page : Aligned(t) /\ start[w] <= t /\ t <= cursor[w]
  BY DEF Receive, Valid, Parses
<1>4. /\ WindowInv(w) /\ Interval \in Nat \ {0} /\ start[w] \in Nat /\ end[w] \in Nat
      /\ cursor[w] \in Nat /\ requests[w] \in Nat /\ clock \in Nat /\ MaxMs \in Nat
      /\ start[w] <= cursor[w] /\ cursor[w] <= end[w]
      /\ requests[w] * Interval <= end[w] - cursor[w]
      /\ Aligned(end[w]) /\ end[w] + Interval <= clock
  <2>1. WindowInv(w) /\ clock \in Nat
    BY TimesAreNatural DEF FetchInv, ClockInv
  <2>2. /\ start[w] \in Nat /\ end[w] \in Times /\ cursor[w] \in Times /\ requests[w] \in Nat
        /\ start[w] <= cursor[w] /\ cursor[w] <= end[w]
        /\ requests[w] * Interval <= end[w] - cursor[w]
        /\ Aligned(end[w]) /\ end[w] + Interval <= clock
    BY <2>1 DEF WindowInv
  <2> QED BY <2>1, <2>2, TimesAreNatural, CandleFetchAssumption
<1>5. oldest \in Nat /\ Aligned(oldest) /\ start[w] <= oldest /\ oldest <= cursor[w]
  BY <1>1, <1>3, TimesAreNatural
<1>6. \A t \in Times : Value(t) \in 0 .. MaxRevision
  BY CandleFetchAssumption DEF Value, Later, FetchInv, TypeOK
<1>7. /\ got'[w] \in [Times -> 0 .. MaxRevision]
      /\ \A t \in Times : got'[w][t] > 0 => t \in page \/ got[w][t] > 0
  BY <1>3, <1>6 DEF FetchInv, TypeOK
<1>8. requests'[w] = requests[w] + 1
      /\ requests'[w] * Interval = requests[w] * Interval + Interval
  BY <1>3, <1>4 DEF FetchInv, TypeOK
<1>9. \A t \in Times : got'[w][t] > 0 => Aligned(t) /\ start[w] <= t /\ t <= end[w]
  <2> TAKE t \in Times
  <2> HAVE got'[w][t] > 0
  <2>1. CASE t \in page
    BY <1>3, <1>4, <2>1 DEF Times
  <2>2. CASE got[w][t] > 0
    BY <1>4, <2>2 DEF WindowInv
  <2> QED BY <1>7, <2>1, <2>2
<1>10. /\ pc'[w] \in {"fetch", "insert"} /\ cursor'[w] \in Times
       /\ start[w] <= cursor'[w] /\ cursor'[w] <= end[w]
       /\ pc'[w] = "fetch" => cursor'[w] + Interval <= cursor[w]
  <2>1. CASE oldest <= start[w] \/ oldest - Interval >= cursor[w]
    <3>1. pc'[w] = "insert" /\ cursor' = cursor
      BY <1>2, <2>1 DEF Advance, FetchInv, TypeOK
    <3> QED BY <1>4, <3>1 DEF FetchInv, TypeOK
  <2>2. CASE ~(oldest <= start[w] \/ oldest - Interval >= cursor[w])
    <3>1. cursor'[w] = oldest - Interval /\ pc' = pc
      BY <1>2, <2>2 DEF Advance, FetchInv, TypeOK
    <3>2. start[w] + Interval <= oldest
      BY <1>4, <1>5, <2>2, AlignedApart DEF WeightIsDefined
    <3>3. oldest - Interval \in Times
      BY <1>1, <1>4, <1>5, <3>2 DEF Times
    <3> QED BY <1>4, <1>5, <3>1, <3>2, <3>3
  <2> QED BY <2>1, <2>2
<1>11. /\ pc'[w] = "fetch" => requests'[w] * Interval <= end[w] - cursor'[w]
       /\ requests'[w] * Interval <= end[w] - start[w] + Interval
  <2> DEFINE cost == requests[w] * Interval
             next == requests'[w] * Interval
  <2>1. cost \in Int /\ cost <= end[w] - cursor[w] /\ next = cost + Interval
    BY <1>4, <1>8
  <2>2. cursor'[w] \in Int
    BY <1>10 DEF Times
  <2> HIDE DEF cost, next
  <2>3. /\ pc'[w] = "fetch" => next <= end[w] - cursor'[w]
        /\ next <= end[w] - start[w] + Interval
    BY <1>4, <1>10, <2>1, <2>2
  <2> QED BY <2>3 DEF next
<1>12. WindowInv(w)'
  BY <1>3, <1>4, <1>7, <1>8, <1>9, <1>10, <1>11 DEF WindowInv, Aligned, sourceVars, FetchInv, TypeOK
<1>13. \A v \in Writers \ {w} : pc'[v] = pc[v] /\ cursor'[v] = cursor[v]
  BY <1>2 DEF Advance, FetchInv, TypeOK
<1>14. ASSUME NEW v \in Writers, v # w PROVE WindowInv(v)'
  <2>1. clock' = clock /\ clock \in Nat
    BY <1>3, <1>4 DEF sourceVars
  <2>2. got'[v] = got[v] /\ requests'[v] = requests[v] /\ start'[v] = start[v] /\ end'[v] = end[v]
        /\ watermark'[v] = watermark[v]
    BY <1>3, <1>14 DEF FetchInv, TypeOK
  <2> QED BY <1>13, <1>14, <2>1, <2>2, WindowKeeps
<1>15. TypeOK' /\ ClockInv' /\ ShownInv'
  <2>1. got' \in [Writers -> [Times -> 0 .. MaxRevision]]
    BY <1>3, <1>7 DEF FetchInv, TypeOK
  <2>2. requests' \in [Writers -> Nat] /\ start' \in [Writers -> Int] /\ end' \in [Writers -> Times]
        /\ watermark' \in [Writers -> Times \cup {None}]
    BY <1>3 DEF FetchInv, TypeOK
  <2>3. pc' \in [Writers -> {"idle", "plan", "fetch", "insert"}] /\ cursor' \in [Writers -> Times]
    <3>1. CASE oldest <= start[w] \/ oldest - Interval >= cursor[w]
      BY <1>2, <3>1 DEF Advance, FetchInv, TypeOK
    <3>2. CASE ~(oldest <= start[w] \/ oldest - Interval >= cursor[w])
      <4>1. cursor' = [cursor EXCEPT ![w] = oldest - Interval] /\ pc' = pc
        BY <1>2, <3>2 DEF Advance
      <4>2. oldest - Interval \in Times
        BY <1>10, <4>1 DEF FetchInv, TypeOK
      <4> QED BY <4>1, <4>2 DEF FetchInv, TypeOK
    <3> QED BY <3>1, <3>2
  <2> QED BY <1>3, <2>1, <2>2, <2>3, SourceKeeps DEF TypeOK
<1> QED BY <1>12, <1>14, <1>15 DEF FetchInv

LEMMA FetchEndsStep ==
  ASSUME FetchInv, NEW w \in Writers, FetchEnds(w)
  PROVE  FetchInv'
<1>1. /\ pc[w] = "fetch" /\ pc' = [pc EXCEPT ![w] = "insert"] /\ pc'[w] = "insert"
      /\ requests' = [requests EXCEPT ![w] = @ + 1]
      /\ UNCHANGED <<sourceVars, shown, watermark, start, end, cursor, got>>
  BY DEF FetchEnds, FetchInv, TypeOK
<1>2. /\ WindowInv(w) /\ Interval \in Nat /\ start[w] \in Nat /\ end[w] \in Nat
      /\ cursor[w] \in Nat /\ requests[w] \in Nat /\ start[w] <= cursor[w]
      /\ requests[w] * Interval <= end[w] - cursor[w]
  <2>1. WindowInv(w)
    BY DEF FetchInv
  <2> QED BY <1>1, <2>1, TimesAreNatural, CandleFetchAssumption DEF WindowInv
<1>3. requests'[w] = requests[w] + 1
      /\ requests'[w] * Interval = requests[w] * Interval + Interval
  BY <1>1, <1>2 DEF FetchInv, TypeOK
<1>4. requests'[w] * Interval <= end[w] - start[w] + Interval
  <2> DEFINE cost == requests[w] * Interval
             next == requests'[w] * Interval
  <2>1. cost \in Int /\ cost <= end[w] - cursor[w] /\ next = cost + Interval
    BY <1>2, <1>3
  <2> HIDE DEF cost, next
  <2>2. next <= end[w] - start[w] + Interval
    BY <1>2, <2>1
  <2> QED BY <2>2 DEF next
<1>5. WindowInv(w)'
  BY <1>1, <1>2, <1>3, <1>4 DEF WindowInv, Aligned, sourceVars
<1>6. ASSUME NEW v \in Writers, v # w PROVE WindowInv(v)'
  <2>1. clock' = clock /\ clock \in Nat
    BY <1>1, TimesAreNatural DEF sourceVars, FetchInv, ClockInv
  <2>2. pc'[v] = pc[v] /\ requests'[v] = requests[v]
    BY <1>1, <1>6 DEF FetchInv, TypeOK
  <2> QED BY <1>1, <2>1, <2>2, WindowKeeps
<1>7. TypeOK' /\ ClockInv' /\ ShownInv'
  <2>1. requests' \in [Writers -> Nat]
    BY <1>1 DEF FetchInv, TypeOK
  <2> QED BY <1>1, <2>1, SourceKeeps DEF FetchInv, TypeOK
<1> QED BY <1>5, <1>6, <1>7 DEF FetchInv

LEMMA InsertStep ==
  ASSUME FetchInv, NEW w \in Writers, Insert(w)
  PROVE  FetchInv'
<1>1. /\ pc[w] = "insert" /\ Forget(w) /\ UNCHANGED sourceVars
      /\ shown' = [t \in Times |-> IF got[w][t] > 0 THEN got[w][t] ELSE shown[t]]
  BY DEF Insert
<1>2. /\ WindowInv(w) /\ Interval \in Nat /\ clock \in Nat /\ end[w] + Interval <= clock
      /\ end[w] \in Nat
  <2>1. WindowInv(w) /\ clock \in Nat
    BY TimesAreNatural DEF FetchInv, ClockInv
  <2>2. end[w] \in Times /\ end[w] + Interval <= clock
    BY <1>1, <2>1 DEF WindowInv
  <2> QED BY <2>1, <2>2, TimesAreNatural, CandleFetchAssumption
<1>3. ShownInv'
  <2> SUFFICES ASSUME NEW t \in Times, shown'[t] > 0
               PROVE  Aligned(t) /\ t + Interval <= clock
    BY <1>1 DEF ShownInv, sourceVars, Aligned
  <2>1. CASE got[w][t] > 0
    <3>1. Aligned(t) /\ t <= end[w] /\ t \in Nat
      BY <1>2, <2>1 DEF WindowInv, Times
    <3> QED BY <1>2, <3>1
  <2>2. CASE ~(got[w][t] > 0)
    BY <1>1, <2>2 DEF FetchInv, ShownInv
  <2> QED BY <2>1, <2>2
<1>4. shown' \in [Times -> 0 .. MaxRevision]
  BY <1>1 DEF FetchInv, TypeOK
<1>5. settled' \in BOOLEAN
  BY <1>1, Zenon DEF FetchInv, TypeOK, sourceVars
<1>6. ClockInv' /\ clock' \in Times /\ revision' \in [Times -> 0 .. MaxRevision]
      /\ requested' \in RequestedStarts
  BY <1>1 DEF FetchInv, TypeOK, sourceVars, ClockInv
<1> QED BY <1>1, <1>3, <1>4, <1>5, <1>6, ForgetKeeps DEF FetchInv, TypeOK

\* The exchange moves on.
LEMMA ExchangeStep ==
  ASSUME FetchInv, Tick \/ Settle \/ \E t \in Times : Revise(t)
  PROVE  FetchInv'
<1>1. clock' \in Times /\ clock <= clock' /\ clock \in Nat /\ clock' \in Nat
  BY CandleFetchAssumption DEF Tick, Settle, Revise, FetchInv, ClockInv, Times
<1>2. UNCHANGED <<requested, shown, writerVars>>
  BY DEF Tick, Settle, Revise
<1>3. settled' \in BOOLEAN
  BY Zenon DEF Tick, Settle, Revise, FetchInv, TypeOK
<1>4. revision' \in [Times -> 0 .. MaxRevision]
  <2>1. CASE Tick
    BY <2>1, CandleFetchAssumption DEF Tick, FetchInv, TypeOK
  <2>2. CASE Settle
    BY <2>2 DEF Settle, FetchInv, TypeOK
  <2>3. ASSUME NEW t \in Times, Revise(t) PROVE revision' \in [Times -> 0 .. MaxRevision]
    BY <2>3, CandleFetchAssumption DEF Revise, FetchInv, TypeOK
  <2> QED BY <2>1, <2>2, <2>3
<1>5. ClockInv'
  BY <1>1, CandleFetchAssumption DEF ClockInv, FetchInv
<1>6. ShownInv'
  BY <1>1, <1>2, CandleFetchAssumption DEF ShownInv, FetchInv, Times, Aligned
<1>7. \A w \in Writers : WindowInv(w)'
  BY <1>1, <1>2, WindowKeeps DEF writerVars
<1>8. TypeOK'
  BY <1>1, <1>2, <1>3, <1>4 DEF FetchInv, TypeOK, writerVars
<1> QED BY <1>5, <1>6, <1>7, <1>8 DEF FetchInv

-----------------------------------------------------------------------------

LEMMA FetchInvInit == Init => FetchInv
<1> SUFFICES ASSUME Init PROVE FetchInv
  OBVIOUS
<1>1. 0 \in Times /\ NoCandles \in [Times -> 0 .. MaxRevision] /\ \A t \in Times : NoCandles[t] = 0
  BY CandleFetchAssumption DEF Times, NoCandles
<1>2. RestHorizonCandles * Interval \in Nat
  BY CandleFetchAssumption
<1>3. clock \in Times /\ ClockInv
  BY <1>2, CandleFetchAssumption DEF Init, Times, ClockInv
<1>4. revision \in [Times -> 0 .. MaxRevision]
  BY CandleFetchAssumption DEF Init
<1>5. settled \in BOOLEAN
  BY Zenon DEF Init
<1>6. TypeOK
  BY <1>1, <1>3, <1>4, <1>5 DEF Init, TypeOK
<1>7. ShownInv
  BY <1>1 DEF Init, ShownInv
<1>8. ASSUME NEW w \in Writers PROVE WindowInv(w)
  <2>1. /\ pc[w] = "idle" /\ watermark[w] = None /\ start[w] = 0 /\ end[w] = 0 /\ cursor[w] = 0 /\ requests[w] = 0
        /\ got[w] = NoCandles
    BY DEF Init
  <2>2. 0 * Interval <= 0 - 0 + Interval
    BY CandleFetchAssumption
  <2> QED BY <1>1, <2>1, <2>2 DEF WindowInv
<1> QED BY <1>3, <1>6, <1>7, <1>8 DEF FetchInv

LEMMA FetchInvNext == FetchInv /\ [Next]_vars => FetchInv'
<1> SUFFICES ASSUME FetchInv, [Next]_vars PROVE FetchInv'
  OBVIOUS
<1>1. CASE Tick \/ Settle \/ \E t \in Times : Revise(t)
  BY <1>1, ExchangeStep
<1>2. ASSUME NEW w \in Writers, ReadWatermark(w) PROVE FetchInv'
  BY <1>2, ReadWatermarkStep
<1>3. ASSUME NEW w \in Writers, Plan(w) PROVE FetchInv'
  BY <1>3, PlanStep
<1>4. ASSUME NEW w \in Writers, Request(w) PROVE FetchInv'
  <2>1. pc[w] = "fetch" /\ WeightIsDefined(w)
    BY <1>4 DEF Request
  <2>2. ASSUME NEW oldest \in Times, Receive(w, Page(w, oldest)) PROVE FetchInv'
    <3>1. Page(w, oldest) \in SUBSET Times
      BY DEF Page
    <3> QED BY <2>1, <2>2, <3>1, ReceiveStep
  <2>3. ASSUME NEW page \in WildPages, Receive(w, page) PROVE FetchInv'
    <3>1. page \in SUBSET Times
      BY DEF WildPages
    <3> QED BY <2>1, <2>3, <3>1, ReceiveStep
  <2> QED BY <1>4, <2>2, <2>3 DEF Request
<1>5. ASSUME NEW w \in Writers, FetchEnds(w) PROVE FetchInv'
  BY <1>5, FetchEndsStep
<1>6. ASSUME NEW w \in Writers, PlanEmpty(w) \/ FetchFails(w) \/ InsertFails(w) PROVE FetchInv'
  <2>1. Forget(w) /\ UNCHANGED <<sourceVars, shown>>
    BY <1>6 DEF PlanEmpty, FetchFails, InsertFails
  <2> QED BY <2>1, ForgetKeeps, SourceKeeps DEF FetchInv, TypeOK
<1>7. ASSUME NEW w \in Writers, Insert(w) PROVE FetchInv'
  BY <1>7, InsertStep
<1>8. CASE UNCHANGED vars
  <2>1. TypeOK' /\ ClockInv' /\ ShownInv'
    BY <1>8, SourceKeeps DEF vars, writerVars, FetchInv, TypeOK
  <2>2. \A w \in Writers : WindowInv(w)'
    BY <1>8, WindowKeeps DEF vars, sourceVars, writerVars, FetchInv, ClockInv, Times
  <2> QED BY <2>1, <2>2 DEF FetchInv
<1> QED BY <1>1, <1>2, <1>3, <1>4, <1>5, <1>6, <1>7, <1>8 DEF Next, Work

LEMMA FetchInvariant == Spec => []FetchInv
BY FetchInvInit, FetchInvNext, PTL DEF Spec

\* Types hold in every reachable state; in particular no bound of a window and no
\* cursor of fetch_candle_window (fetch.py) is ever negative or ahead of the clock.
THEOREM FetchTypeCorrect == Spec => []TypeOK
<1>1. FetchInv => TypeOK
  BY DEF FetchInv
<1> QED BY <1>1, FetchInvariant, PTL

\* Whatever the endpoint answers, only closed candles of the window that was asked for
\* are on their way to the table (fetch_candles, client.py).
THEOREM OnlyAskedCandlesPass == Spec => []OnlyAskedCandles
<1>1. FetchInv => OnlyAskedCandles
  <2> SUFFICES ASSUME FetchInv PROVE OnlyAskedCandles
    OBVIOUS
  <2>1. ASSUME NEW w \in Writers, NEW t \in Times, got[w][t] > 0
        PROVE  Aligned(t) /\ start[w] <= t /\ t <= end[w] /\ t + Interval <= clock
    <3>1. WindowInv(w)
      BY DEF FetchInv
    <3>2. pc[w] \in {"fetch", "insert"}
      BY <2>1, <3>1 DEF WindowInv, NoCandles, FetchInv, TypeOK
    <3>3. /\ Aligned(t) /\ start[w] <= t /\ t <= end[w] /\ end[w] + Interval <= clock
          /\ t \in Nat /\ end[w] \in Nat /\ clock \in Nat
      BY <2>1, <3>1, <3>2 DEF WindowInv, FetchInv, ClockInv, Times
    <3> QED BY <3>3, CandleFetchAssumption
  <2> QED BY <2>1 DEF OnlyAskedCandles, FetchInv, ShownInv
<1> QED BY <1>1, FetchInvariant, PTL

\* Whatever the endpoint answers, paging a window (fetch_candle_window, fetch.py) costs
\* at most one request for each of its minutes.
THEOREM PagingEnds == Spec => []RequestsBounded
<1>1. FetchInv => RequestsBounded
  BY DEF FetchInv, WindowInv, RequestsBounded
<1> QED BY <1>1, FetchInvariant, PTL
=============================================================================
