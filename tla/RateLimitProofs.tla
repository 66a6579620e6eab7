---------------------------- MODULE RateLimitProofs ----------------------------
(***************************************************************************)
(* What RateLimit promises for every refill rate, capacity, weight and     *)
(* number of attempts.                                                     *)
(***************************************************************************)
EXTENDS RateLimit, TLAPS

\* A backoff leads to another attempt.
AttemptsLeft == pc = "backoff" => attempt < MaxRetries

\* Weight reserved before the mark or since, that may still arrive.
Pending == IF pc = "reserved" THEN weight ELSE 0

\* Since the mark, tokens left and tokens reserved come from a full bucket and
\* from what it gained; a bucket not refilled since has reserved nothing.
PacedInv ==
  /\ mark = NoMark => reserved = 0 /\ arrived = 0
  /\ mark # NoMark /\ refilled < mark => reserved = 0
  /\ mark # NoMark /\ refilled >= mark =>
       reserved + tokens <= Capacity + RefillRate * (refilled - mark)
  /\ mark # NoMark => arrived + Pending <= carried + reserved

\* A sleeping client has slept long enough when it may wake up.
SleepInv ==
  pc = "asleep" => tokens + RefillRate * (wakeAt - refilled) >= weight

-----------------------------------------------------------------------------

\* A bucket gains in two stretches of time what it gains in both together, and
\* gains no less in more time.
LEMMA Gains ==
  ASSUME NEW a \in Int, NEW b \in Int, NEW c \in Int, a <= b, b <= c
  PROVE  /\ RefillRate * (b - a) \in Nat
         /\ RefillRate * (c - a) \in Nat
         /\ RefillRate * (c - b) \in Nat
         /\ RefillRate * (b - a) + RefillRate * (c - b) = RefillRate * (c - a)
<1>1. RefillRate \in Nat
  BY RateLimitAssumption
<1>2. \A r, x \in Nat : r * x \in Nat
  OBVIOUS
<1>3. \A r, x, y \in Nat : r * x + r * y = r * (x + y)
  OBVIOUS
<1>4. /\ b - a \in Nat /\ c - b \in Nat /\ c - a \in Nat
      /\ (b - a) + (c - b) = c - a
  OBVIOUS
<1> QED
  BY <1>1, <1>2, <1>3, <1>4

\* Weights of requests are positive numbers.
LEMMA WeightsAreNumbers ==
  ASSUME NEW w \in RequestWeights
  PROVE  w \in Nat
<1>1. \A slots \in 1 .. MaxSlots : slots \div ItemWeightBlock \in Nat
  BY RateLimitAssumption
<1> QED
  BY <1>1, RateLimitAssumption DEF RequestWeights

\* A refilled bucket holds a natural number of tokens, no more than it gained.
LEMMA LevelBounds ==
  ASSUME TypeOK
  PROVE  /\ Level \in 0 .. Capacity
         /\ Level <= tokens + RefillRate * (clock - refilled)
         /\ Level = Capacity \/ Level = tokens + RefillRate * (clock - refilled)
<1>1. /\ clock \in Nat /\ refilled \in Int /\ refilled <= clock
      /\ tokens \in Nat /\ tokens <= Capacity /\ Capacity \in Nat
  BY RateLimitAssumption DEF TypeOK
<1>2. RefillRate * (clock - refilled) \in Nat
  BY <1>1, Gains
<1> QED
  BY <1>1, <1>2 DEF Level, Smaller

-----------------------------------------------------------------------------

\* The initial state is well typed.
LEMMA TypingInit == Init => TypeOK /\ AttemptsLeft
  BY RateLimitAssumption DEF Init, TypeOK, AttemptsLeft, Stages, NoMark

\* Every step keeps the types.
LEMMA TypingNext == TypeOK /\ AttemptsLeft /\ [Next]_vars => (TypeOK /\ AttemptsLeft)'
<1> SUFFICES ASSUME TypeOK, AttemptsLeft, [Next]_vars
             PROVE  (TypeOK /\ AttemptsLeft)'
  OBVIOUS
<1> USE RateLimitAssumption DEF AttemptsLeft
<1>1. ASSUME NEW w \in RequestWeights, Request(w)
      PROVE  (TypeOK /\ AttemptsLeft)'
  BY <1>1, WeightsAreNumbers
     DEF TypeOK, Request, bucketVars, historyVars, Stages, NoMark
<1>2. CASE Reserve
  <2>1. Level \in 0 .. Capacity
    BY LevelBounds
  <2>2. tokens' \in 0 .. Capacity
    BY <1>2, <2>1 DEF Reserve, TypeOK
  <2>3. reserved' \in Nat
    BY <1>2 DEF Reserve, TypeOK
  <2> QED
    BY <1>2, <2>2, <2>3 DEF Reserve, TypeOK, Stages, NoMark
<1>3. CASE SleepForTokens
  <2>1. Level \in 0 .. Capacity
    BY LevelBounds
  <2>2. wakeAt' \in Nat
    BY <1>3, <2>1 DEF SleepForTokens, Pauses, TypeOK
  <2> QED
    BY <1>3, <2>1, <2>2 DEF SleepForTokens, TypeOK, Stages, NoMark, historyVars
<1>4. CASE Arrive
  BY <1>4 DEF TypeOK, Arrive, bucketVars, Stages, NoMark
<1>5. CASE Answer
  BY <1>5 DEF TypeOK, Answer, bucketVars, historyVars, Stages, NoMark
<1>6. CASE FailAttempt
  BY <1>6 DEF TypeOK, FailAttempt, bucketVars, historyVars, Stages, NoMark
<1>7. CASE Retry
  BY <1>7 DEF TypeOK, Retry, bucketVars, historyVars, Stages, NoMark
<1>8. CASE Tick
  BY <1>8 DEF TypeOK, Tick, bucketVars, requestVars, historyVars, Stages, NoMark
<1>9. CASE Mark
  BY <1>9 DEF TypeOK, Mark, bucketVars, requestVars, Stages, NoMark
<1>10. CASE UNCHANGED vars
  BY <1>10 DEF TypeOK, vars, bucketVars, requestVars, historyVars, Stages, NoMark
<1> QED
  BY <1>1, <1>2, <1>3, <1>4, <1>5, <1>6, <1>7, <1>8, <1>9, <1>10 DEF Next

\* Every reachable state is well typed; the bucket stays between empty and full.
THEOREM BucketTypeCorrect == Spec => []TypeOK
  BY TypingInit, TypingNext, PTL DEF Spec

-----------------------------------------------------------------------------

\* A fresh bucket has reserved nothing.
LEMMA PacedInit == Init => PacedInv /\ SleepInv
  BY DEF Init, PacedInv, SleepInv, Pending, NoMark

\* The numbers of a state, as numbers.
LEMMA BucketNumbers ==
  ASSUME TypeOK
  PROVE  /\ clock \in Nat /\ refilled \in Nat /\ refilled <= clock
         /\ tokens \in Nat /\ tokens <= Capacity /\ Capacity \in Nat
         /\ weight \in Nat /\ reserved \in Nat /\ carried \in Nat /\ arrived \in Nat
         /\ mark # NoMark => mark \in Nat /\ mark <= clock
  BY RateLimitAssumption DEF TypeOK

\* What was reserved since the mark and what a refill leaves in the bucket add up
\* to no more than a full bucket and the gains since the mark.
LEMMA RefillPaced ==
  ASSUME TypeOK, PacedInv, mark # NoMark
  PROVE  reserved + Level <= Capacity + RefillRate * (clock - mark)
<1> DEFINE before == RefillRate * (refilled - mark)
           since == RefillRate * (clock - refilled)
           all == RefillRate * (clock - mark)
<1>1. /\ clock \in Nat /\ refilled \in Nat /\ refilled <= clock /\ mark \in Nat
      /\ mark <= clock /\ tokens \in Nat /\ tokens <= Capacity /\ Capacity \in Nat
      /\ reserved \in Nat
  BY BucketNumbers
<1>2. Level \in Nat /\ Level <= Capacity /\ Level <= tokens + since
  BY LevelBounds, <1>1
<1>3. CASE refilled < mark
  <2>1. all \in Nat
    BY <1>1, Gains
  <2>2. reserved = 0
    BY <1>3 DEF PacedInv
  <2> HIDE DEF all
  <2>3. reserved + Level <= Capacity + all
    BY <2>1, <2>2, <1>1, <1>2
  <2> QED
    BY <2>3 DEF all
<1>4. CASE refilled >= mark
  <2>1. before \in Nat /\ since \in Nat /\ all \in Nat /\ before + since = all
    <3>1. mark \in Int /\ refilled \in Int /\ clock \in Int /\ mark <= refilled
      BY <1>1, <1>4
    <3> QED
      BY ONLY <1>1, <3>1, Gains
  <2>2. reserved + tokens <= Capacity + before
    BY <1>4 DEF PacedInv
  <2> HIDE DEF before, since, all
  <2>3. reserved + Level <= Capacity + all
    BY <2>1, <2>2, <1>1, <1>2
  <2> QED
    BY <2>3 DEF all
<1> QED
  BY <1>1, <1>3, <1>4

\* Reserving takes from the refilled bucket what it adds to the reserved weight.
LEMMA ReservePaced ==
  ASSUME TypeOK, PacedInv, Reserve
  PROVE  PacedInv'
<1>1. /\ tokens' = Level - weight /\ refilled' = clock /\ pc' = "reserved"
      /\ reserved' = (IF mark = NoMark THEN 0 ELSE reserved + weight)
      /\ weight' = weight /\ mark' = mark /\ carried' = carried /\ arrived' = arrived
  BY DEF Reserve
<1>2. CASE mark = NoMark
  BY <1>1, <1>2 DEF PacedInv
<1>3. CASE mark # NoMark
  <2>1. mark \in Nat /\ mark <= clock /\ clock \in Nat
    BY <1>3, BucketNumbers
  <2>2. reserved' + tokens' = reserved + Level
    BY <1>1, <1>3, BucketNumbers, LevelBounds
  <2>3. reserved' + tokens' <= Capacity + RefillRate * (refilled' - mark')
    BY <1>1, <1>3, <2>2, RefillPaced
  <2>4. arrived <= carried + reserved
    <3>1. Pending = 0
      BY DEF Reserve, Asking, Pending
    <3> QED
      BY <1>3, <3>1, BucketNumbers DEF PacedInv
  <2>5. arrived' + Pending' <= carried' + reserved'
    BY <1>1, <1>3, <2>4, BucketNumbers DEF Pending
  <2>6. mark' # NoMark /\ ~(refilled' < mark')
    BY <1>1, <1>3, <2>1
  <2> QED
    BY <2>3, <2>5, <2>6 DEF PacedInv
<1> QED
  BY <1>2, <1>3

\* A refill that does not suffice yet only moves the time of the refill, and the
\* sleep is long enough for the rest.
LEMMA SleepPaced ==
  ASSUME TypeOK, PacedInv, SleepForTokens
  PROVE  PacedInv' /\ SleepInv'
<1>1. /\ tokens' = Level /\ refilled' = clock /\ pc' = "asleep" /\ reserved' = reserved
      /\ weight' = weight /\ mark' = mark /\ carried' = carried /\ arrived' = arrived
  BY DEF SleepForTokens, historyVars
<1>2. SleepInv'
  <2>1. PICK pause \in Pauses(weight - Level) : wakeAt' = clock + pause
    BY DEF SleepForTokens
  <2> DEFINE gain == RefillRate * pause
  <2>2. pause \in Int /\ gain >= weight - Level
    BY <2>1 DEF Pauses
  <2>3. wakeAt' - refilled' = pause
    BY <1>1, <2>1, <2>2, BucketNumbers
  <2>4. gain \in Int
    BY <2>2, RateLimitAssumption
  <2>5. RefillRate * (wakeAt' - refilled') = gain
    BY <2>3
  <2> HIDE DEF gain
  <2>6. Level + gain >= weight
    BY <2>2, <2>4, BucketNumbers, LevelBounds
  <2> QED
    BY <1>1, <2>5, <2>6 DEF SleepInv
<1>3. PacedInv'
  <2>1. CASE mark = NoMark
    BY <1>1, <2>1 DEF PacedInv
  <2>2. CASE mark # NoMark
    <3>1. reserved' + tokens' <= Capacity + RefillRate * (refilled' - mark')
      BY <1>1, <2>2, RefillPaced
    <3>2. Pending = 0 /\ Pending' = 0
      BY <1>1 DEF SleepForTokens, Asking, Pending
    <3>3. arrived' + Pending' <= carried' + reserved'
      BY <1>1, <2>2, <3>2 DEF PacedInv
    <3>4. mark' # NoMark /\ ~(refilled' < mark')
      BY <1>1, <2>2, BucketNumbers
    <3> QED
      BY <3>1, <3>3, <3>4 DEF PacedInv
  <2> QED
    BY <2>1, <2>2
<1> QED
  BY <1>2, <1>3

\* An arrival turns pending weight into arrived weight.
LEMMA ArrivePaced ==
  ASSUME TypeOK, PacedInv, Arrive
  PROVE  PacedInv'
<1>1. /\ tokens' = tokens /\ refilled' = refilled /\ reserved' = reserved
      /\ mark' = mark /\ carried' = carried
  BY DEF Arrive, bucketVars
<1>2. pc = "reserved" /\ pc' = "sent"
  BY DEF Arrive
<1>3. mark = NoMark => arrived' = 0
  BY DEF Arrive
<1>4. mark # NoMark => arrived' + Pending' = arrived + Pending
  BY <1>2, BucketNumbers DEF Arrive, Pending
<1> QED
  BY <1>1, <1>3, <1>4 DEF PacedInv

\* The observer starts with a bucket that is not overfull and remembers what is
\* pending.
LEMMA MarkPaced ==
  ASSUME TypeOK, PacedInv, Mark
  PROVE  PacedInv'
<1>1. /\ tokens' = tokens /\ refilled' = refilled /\ reserved' = reserved
      /\ arrived' = arrived /\ pc' = pc /\ weight' = weight /\ mark' = clock
      /\ carried' = Pending
  BY DEF Mark, bucketVars, requestVars, Pending
<1>2. mark = NoMark /\ reserved = 0 /\ arrived = 0
  BY DEF Mark, PacedInv
<1>3. clock \in Nat /\ refilled \in Nat /\ refilled <= clock
  BY BucketNumbers
<1>4. Pending \in Nat
  BY BucketNumbers DEF Pending
<1>5. mark' # NoMark
  BY <1>1, <1>3 DEF NoMark
<1>6. arrived' + Pending' <= carried' + reserved'
  BY <1>1, <1>2, <1>4 DEF Pending
<1>7. refilled' >= mark' => reserved' + tokens' <= Capacity + RefillRate * (refilled' - mark')
  <2> SUFFICES ASSUME refilled' >= mark'
               PROVE  reserved' + tokens' <= Capacity + RefillRate * (refilled' - mark')
    OBVIOUS
  <2>1. refilled' - mark' = 0
    BY <1>1, <1>3
  <2>2. RefillRate * (refilled' - mark') = 0
    BY <2>1, RateLimitAssumption
  <2> QED
    BY <1>1, <1>2, <2>2, BucketNumbers
<1> QED
  BY <1>1, <1>2, <1>5, <1>6, <1>7 DEF PacedInv

\* Every step keeps the pacing.
LEMMA PacedNext ==
  TypeOK /\ PacedInv /\ SleepInv /\ [Next]_vars => (PacedInv /\ SleepInv)'
<1> SUFFICES ASSUME TypeOK, PacedInv, SleepInv, [Next]_vars
             PROVE  (PacedInv /\ SleepInv)'
  OBVIOUS
<1>1. ASSUME NEW w \in RequestWeights, Request(w)
      PROVE  (PacedInv /\ SleepInv)'
  <2>1. Pending = 0 /\ Pending' = 0
    BY <1>1 DEF Request, Pending
  <2> QED
    BY <1>1, <2>1 DEF Request, PacedInv, SleepInv, bucketVars, historyVars
<1>2. CASE Reserve
  BY <1>2, ReservePaced DEF Reserve, SleepInv
<1>3. CASE SleepForTokens
  BY <1>3, SleepPaced
<1>4. CASE Arrive
  BY <1>4, ArrivePaced DEF Arrive, SleepInv
<1>5. CASE Answer
  BY <1>5 DEF Answer, PacedInv, SleepInv, Pending, bucketVars, historyVars
<1>6. CASE FailAttempt
  <2>1. Pending' = 0 /\ Pending \in Nat /\ (Pending = 0 \/ Pending = weight)
    BY <1>6, BucketNumbers DEF FailAttempt, Pending
  <2>2. mark # NoMark => arrived <= carried + reserved
    BY <2>1, BucketNumbers DEF PacedInv
  <2>3. mark # NoMark => arrived + Pending' <= carried + reserved
    BY <2>1, <2>2, BucketNumbers
  <2>4. pc' # "asleep"
    BY <1>6 DEF FailAttempt
  <2> QED
    BY <1>6, <2>3, <2>4 DEF FailAttempt, PacedInv, SleepInv, bucketVars, historyVars
<1>7. CASE Retry
  BY <1>7 DEF Retry, PacedInv, SleepInv, Pending, bucketVars, historyVars
<1>8. CASE Tick
  BY <1>8 DEF Tick, PacedInv, SleepInv, Pending, bucketVars, requestVars, historyVars
<1>9. CASE Mark
  BY <1>9, MarkPaced DEF Mark, SleepInv, bucketVars, requestVars
<1>10. CASE UNCHANGED vars
  BY <1>10 DEF vars, PacedInv, SleepInv, Pending, bucketVars, requestVars, historyVars
<1> QED
  BY <1>1, <1>2, <1>3, <1>4, <1>5, <1>6, <1>7, <1>8, <1>9, <1>10 DEF Next

\* The inductive invariant holds in every reachable state.
LEMMA PacedInvariant == Spec => [](TypeOK /\ PacedInv /\ SleepInv)
  BY TypingInit, TypingNext, PacedInit, PacedNext, PTL DEF Spec

-----------------------------------------------------------------------------

\* In any stretch of time the exchange sees at most a full bucket and its gains,
\* besides the one request that was on its way when the stretch began.
THEOREM ArrivalsArePaced == Spec => []RequestsPaced
<1>1. TypeOK /\ PacedInv => RequestsPaced
  <2> SUFFICES ASSUME TypeOK, PacedInv, mark # NoMark
               PROVE  arrived <= carried + Capacity + RefillRate * (clock - mark)
    BY DEF RequestsPaced
  <2> DEFINE all == RefillRate * (clock - mark)
  <2>1. reserved + Level <= Capacity + all
    BY RefillPaced
  <2>2. all \in Int
    BY BucketNumbers, RateLimitAssumption
  <2>3. arrived <= carried + reserved
    BY BucketNumbers DEF PacedInv, Pending
  <2> HIDE DEF all
  <2>4. arrived <= carried + Capacity + all
    BY <2>1, <2>2, <2>3, BucketNumbers, LevelBounds
  <2> QED
    BY <2>4 DEF all
<1> QED
  BY <1>1, PacedInvariant, PTL

\* A client that wakes up finds the tokens it slept for.
THEOREM OneSleepSuffices == Spec => []SleepSuffices
<1>1. TypeOK /\ SleepInv => SleepSuffices
  <2> SUFFICES ASSUME TypeOK, SleepInv, pc = "asleep", weight <= Capacity, clock >= wakeAt
               PROVE  Level >= weight
    BY DEF SleepSuffices
  <2> DEFINE slept == RefillRate * (wakeAt - refilled)
             since == RefillRate * (clock - refilled)
  <2>1. wakeAt \in Int /\ RefillRate \in Nat
    BY RateLimitAssumption DEF TypeOK
  <2>2. slept \in Int /\ since \in Int /\ slept <= since
    <3>1. \A r \in Nat, x, y \in Int : x <= y => r * x <= r * y
      OBVIOUS
    <3>2. /\ wakeAt - refilled \in Int /\ clock - refilled \in Int
          /\ wakeAt - refilled <= clock - refilled
      BY <2>1, BucketNumbers
    <3> QED
      BY <2>1, <3>1, <3>2
  <2>3. tokens + slept >= weight
    BY DEF SleepInv
  <2>4. Level = Capacity \/ Level = tokens + since
    BY LevelBounds
  <2> HIDE DEF slept, since
  <2> QED
    BY <2>2, <2>3, <2>4, BucketNumbers
<1> QED
  BY <1>1, PacedInvariant, PTL
=============================================================================
