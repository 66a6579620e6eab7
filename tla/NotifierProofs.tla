------------------------------ MODULE NotifierProofs ------------------------------
(***************************************************************************)
(* The service loop and its alerts, for every backoff, cooldown, queue and *)
(* delivery time that the assumptions allow: types, no cycle after a stop  *)
(* request, no alert lost silently, and no message left behind by a flush. *)
(***************************************************************************)
EXTENDS Notifier, TLAPS

-----------------------------------------------------------------------------
(* The loop.                                                               *)

\* The steps of the service, whatever is scheduled.
ServiceSteps == Init /\ [][Next]_vars

LEMMA TypingInit == Init => TypeOK
<1> SUFFICES ASSUME Init PROVE TypeOK
  OBVIOUS
<1>1. /\ pc \in Stages /\ database \in Databases /\ backoff = BackoffInitial
      /\ leaked \in 0 .. MaxLeaked /\ slices \in 0 .. PollSlices
  BY ServiceAssumption DEF Init, Stages
<1>2. stopRequested \in BOOLEAN /\ asked \in BOOLEAN /\ connected \in BOOLEAN
  BY Zenon DEF Init
<1> QED BY <1>1, <1>2 DEF TypeOK

LEMMA TypingNext == TypeOK /\ [Next]_vars => TypeOK'
<1> SUFFICES ASSUME TypeOK, [Next]_vars PROVE TypeOK'
  OBVIOUS
<1> USE DEF vars, Next, Step, Signal, DatabaseChanges, Boot, BootFails, StartCycle, Stop,
            SleepSlice, SleepEnds, Connect, Probe, NotReady, ConnectFails, Raise, Return,
            BackOff, CreateSchema, CreateSchemaFails, CycleEnds, Leak
<1>1. pc' \in Stages /\ database' \in Databases
  BY DEF TypeOK, Stages, Databases
<1>2. stopRequested' \in BOOLEAN
  BY Zenon DEF TypeOK
<1>3. asked' \in BOOLEAN
  BY Zenon DEF TypeOK
<1>4. connected' \in BOOLEAN
  BY Zenon DEF TypeOK
<1>5. \/ backoff' = BackoffInitial
      \/ backoff' \in Smaller(BackoffInitial, BackoffMax) .. BackoffMax
  <2>1. CASE StartCycle
    BY <2>1
  <2>2. CASE BackOff
    BY <2>2, ServiceAssumption DEF TypeOK, Doubled, Smaller
  <2>3. CASE UNCHANGED backoff
    BY <2>3, ServiceAssumption DEF TypeOK
  <2> QED BY <2>1, <2>2, <2>3
<1>6. leaked' \in 0 .. MaxLeaked
  BY ServiceAssumption DEF TypeOK, Smaller
<1>7. slices' \in 0 .. PollSlices
  BY ServiceAssumption DEF TypeOK
<1> QED BY <1>1, <1>2, <1>3, <1>4, <1>5, <1>6, <1>7 DEF TypeOK

\* A process that was asked to stop between two cycles stays between them or ends.
Stopping == asked /\ stopRequested /\ pc \in {"test", "sleep", "ended"}
Between == asked /\ pc \in {"test", "sleep"}
NoFurtherCycle == pc \in {"test", "sleep", "ended"}

\* The scheduler's handler has been called only if its flag is set.
AskedInv == asked => stopRequested

LEMMA AskedInit == Init => AskedInv
BY Zenon DEF Init, AskedInv

LEMMA AskedNext == AskedInv /\ [Next]_vars => AskedInv'
BY Zenon DEF AskedInv, vars, Next, Step, Signal, DatabaseChanges, Boot, BootFails, StartCycle,
     Stop, SleepSlice, SleepEnds, Connect, Probe, NotReady, ConnectFails, Raise, Return,
     BackOff, CreateSchema, CreateSchemaFails, CycleEnds, Leak

LEMMA StoppingNext == Stopping /\ [Next]_vars => Stopping'
<1> SUFFICES ASSUME Stopping, [Next]_vars PROVE Stopping'
  OBVIOUS
<1> USE DEF vars, Next, Step, Signal, DatabaseChanges, Boot, BootFails, StartCycle, Stop,
            SleepSlice, SleepEnds, Connect, Probe, NotReady, ConnectFails, Raise, Return,
            BackOff, CreateSchema, CreateSchemaFails, CycleEnds, Leak
<1>1. asked' /\ stopRequested'
  BY Zenon DEF Stopping
<1>2. pc' \in {"test", "sleep", "ended"}
  BY DEF Stopping, Ended
<1> QED BY <1>1, <1>2 DEF Stopping

LEMMA ServiceStops == ServiceSteps => NoCycleAfterStop
<1>1. Between /\ AskedInv => Stopping
  BY Zenon DEF Between, AskedInv, Stopping
<1>2. Stopping => NoFurtherCycle
  BY DEF Stopping, NoFurtherCycle
<1>3. NoCycleAfterStop <=> [](Between => []NoFurtherCycle)
  BY DEF NoCycleAfterStop, Between, NoFurtherCycle
<1> QED BY <1>1, <1>2, <1>3, AskedInit, AskedNext, StoppingNext, PTL DEF ServiceSteps

LEMMA ServiceTyping == ServiceSteps => []TypeOK
BY TypingInit, TypingNext, PTL DEF ServiceSteps

-----------------------------------------------------------------------------
(* The alerts.                                                             *)

\* Types of the handler, the queue and the worker.
AlertTyping ==
  /\ pc \in Stages
  /\ pending \in Seq(Messages)
  /\ worker \in Messages \cup {Nobody}
  /\ busy \in 0 .. DeliveryTicks
  /\ cooling \in [Severities -> 0 .. Cooldown]
  /\ waiting \in 0 .. ShutdownWait

\* Ticks until the worker asks for the next message at the latest.
Remaining == IF worker = Nobody THEN 0 ELSE DeliveryTicks - busy

\* A message is queued once.  An alert leaves the queue before its severity may be
\* forwarded again: its cooldown is longer than the deliveries before it take.
QueueInv ==
  /\ \A i, j \in 1 .. Len(pending) : pending[i] = pending[j] => i = j
  /\ \A i \in 1 .. Len(pending) : pending[i] = "stopped" => pc = "failed"
  /\ \A i \in 1 .. Len(pending) :
       pending[i] \in Severities =>
         cooling[pending[i]] > Remaining + (i - 1) * DeliveryTicks

\* The flush belongs to the fatal exit.
FlushInv ==
  /\ flushing => pc = "failed"
  /\ FlushedUnlessLate
  /\ pc # "failed" => waiting = 0

-----------------------------------------------------------------------------

\* What a step of the process does, the alerts left out.
LEMMA ServiceStep == [NotifierNext]_allVars => [Next]_vars
BY DEF NotifierNext, allVars, MainStep, SilentStep, WarningStep, FailureStep, FatalStep,
       FlushEnds, CycleLogs, Take, Finish, Tick, Next, Step

\* The alerts run beside the service and change nothing of what it does.
LEMMA NotifierIsService == NotifierSpec => ServiceSteps
<1>1. NotifierInit => Init
  BY DEF NotifierInit
<1> QED BY <1>1, ServiceStep, PTL DEF NotifierSpec, ServiceSteps

LEMMA AlertTypingInit == NotifierInit => AlertTyping
<1> SUFFICES ASSUME NotifierInit PROVE AlertTyping
  OBVIOUS
<1>1. pending \in Seq(Messages)
  <2>1. <<"starting">> \in Seq(Messages) /\ <<>> \in Seq(Messages)
    BY DEF Messages
  <2>2. pending = <<"starting">> \/ pending = <<>>
    BY Zenon DEF NotifierInit
  <2> QED BY <2>1, <2>2
<1> QED BY <1>1, NotifierAssumption, ServiceAssumption
    DEF NotifierInit, Init, AlertTyping, Stages, Nobody

LEMMA SendType ==
  ASSUME NEW m \in Messages, AlertTyping
  PROVE  Send(m) \in Seq(Messages)
BY DEF Send, AlertTyping

LEMMA AlertTypingNext ==
  ASSUME AlertTyping, TypeOK, [NotifierNext]_allVars
  PROVE  AlertTyping'
<1>1. pc' \in Stages
  BY TypingNext, ServiceStep DEF TypeOK
<1>2. ASSUME NEW v \in Severities, Log(v) PROVE AlertTyping'
  <2>1. Send(v) \in Seq(Messages)
    BY SendType DEF Messages
  <2> QED BY <1>1, <1>2, <2>1, NotifierAssumption DEF Log, Emit, AlertTyping
<1>3. CASE FatalStep
  <2>1. Send("stopped") \in Seq(Messages)
    BY SendType DEF Messages
  <2> QED BY <1>1, <1>3, <2>1, NotifierAssumption DEF FatalStep, AlertTyping
<1>4. ASSUME UNCHANGED alertVars PROVE AlertTyping'
  BY <1>1, <1>4 DEF alertVars, AlertTyping
<1>5. CASE FlushEnds
  BY <1>1, <1>5 DEF FlushEnds, AlertTyping
<1>6. CASE Take
  <2>1. Head(pending) \in Messages /\ Tail(pending) \in Seq(Messages)
    BY <1>6 DEF Take, AlertTyping
  <2> QED BY <1>1, <1>6, <2>1, NotifierAssumption DEF Take, AlertTyping
<1>7. CASE Finish
  BY <1>1, <1>7, NotifierAssumption DEF Finish, AlertTyping
<1>8. CASE Tick
  <2>1. busy' \in 0 .. DeliveryTicks
    BY <1>8, NotifierAssumption DEF Tick, AlertTyping
  <2>2. cooling' \in [Severities -> 0 .. Cooldown]
    BY <1>8, NotifierAssumption DEF Tick, AlertTyping, Elapsed
  <2>3. waiting' \in 0 .. ShutdownWait
    BY <1>8, NotifierAssumption DEF Tick, AlertTyping, Elapsed
  <2> QED BY <1>1, <1>8, <2>1, <2>2, <2>3 DEF Tick, AlertTyping
<1> QED BY <1>2, <1>3, <1>4, <1>5, <1>6, <1>7, <1>8
    DEF NotifierNext, allVars, MainStep, SilentStep, WarningStep, FailureStep, CycleLogs,
        Severities

LEMMA FlushInvInit == NotifierInit => FlushInv
BY DEF NotifierInit, Init, FlushInv, FlushedUnlessLate

\* A process that failed does nothing more but flush.
LEMMA FailedStays == pc = "failed" /\ [Next]_vars => pc' = "failed"
BY DEF vars, Next, Step, Signal, DatabaseChanges, Boot, BootFails, StartCycle, Stop, Ended,
     SleepSlice, SleepEnds, Connect, Probe, NotReady, ConnectFails, BackOff,
     CreateSchema, CreateSchemaFails, CycleEnds

\* Only a fatal error makes a failed process.
LEMMA OnlyBootFails ==
  pc # "failed" /\ [NotifierNext]_allVars /\ pc' = "failed" => FatalStep
BY DEF vars, allVars, NotifierNext, MainStep, SilentStep, WarningStep, FailureStep, CycleLogs,
     FlushEnds, Take, Finish, Tick, Signal, DatabaseChanges, Boot, StartCycle, Stop,
     SleepSlice, SleepEnds, Connect, Probe, NotReady, ConnectFails, Raise, Return, BackOff,
     CreateSchema, CreateSchemaFails, CycleEnds

\* A step that is not the fatal one leaves the flush alone, or ends it, or is the
\* worker's or the clock's.
LEMMA FlushInvNext ==
  ASSUME AlertTyping, FlushInv, [NotifierNext]_allVars
  PROVE  FlushInv'
<1>1. CASE FatalStep
  BY <1>1 DEF FatalStep, BootFails, FlushInv, FlushedUnlessLate
<1>2. CASE pc # "failed" /\ ~FatalStep
  <2>1. pc' # "failed"
    BY <1>2, OnlyBootFails
  <2>2. ~flushing /\ waiting = 0
    BY <1>2 DEF FlushInv
  <2>3. flushing' = flushing /\ waiting' = 0
    BY <1>2, <2>2 DEF NotifierNext, allVars, alertVars, MainStep, SilentStep, WarningStep,
      FailureStep, CycleLogs, Log, FlushEnds, Take, Finish, Tick, Elapsed
  <2> QED BY <2>1, <2>2, <2>3 DEF FlushInv, FlushedUnlessLate
<1>3. CASE pc = "failed"
  <2>1. pc' = "failed"
    BY <1>3, FailedStays, ServiceStep
  <2>2. FlushEnds \/ Take \/ Finish \/ Tick \/ UNCHANGED alertVars
    BY <1>3 DEF NotifierNext, allVars, MainStep, SilentStep, WarningStep, FailureStep,
      FatalStep, BootFails, CycleLogs, NotReady, ConnectFails, CreateSchemaFails, CycleEnds
  <2>3. CASE FlushEnds
    BY <1>3, <2>1, <2>3 DEF FlushEnds, Unfinished, FlushInv, FlushedUnlessLate, AlertTyping
  <2>4. CASE Take \/ Finish \/ Tick
    <3>1. flushing /\ flushing' = flushing
      BY <1>3, <2>4 DEF Take, Finish, Tick, Running, Ended
    <3> QED BY <2>1, <3>1 DEF FlushInv, FlushedUnlessLate
  <2>5. CASE UNCHANGED alertVars
    BY <1>3, <2>1, <2>5 DEF alertVars, FlushInv, FlushedUnlessLate
  <2> QED BY <2>2, <2>3, <2>4, <2>5
<1> QED BY <1>1, <1>2, <1>3

-----------------------------------------------------------------------------

\* With these the queue is never full when a severity may be forwarded.
Roomy == MaxPending >= 3 /\ Cooldown > 3 * DeliveryTicks

SilenceInv == QueueInv /\ SilenceIsEarned

LEMMA SilenceInvInit == NotifierInit => SilenceInv
<1> SUFFICES ASSUME NotifierInit PROVE SilenceInv
  OBVIOUS
<1>1. Len(pending) \in {0, 1} /\ \A i \in 1 .. Len(pending) : i = 1 /\ pending[i] = "starting"
  BY DEF NotifierInit
<1>2. QueueInv
  BY <1>1 DEF QueueInv, Severities
<1>3. SilenceIsEarned
  BY DEF NotifierInit, SilenceIsEarned
<1> QED BY <1>2, <1>3 DEF SilenceInv

\* Before a severity may be forwarded again there are at most two messages queued:
\* the first of main and the other severity.
LEMMA AtMostTwoWait ==
  ASSUME AlertTyping, QueueInv, pc # "failed", NEW v \in Severities, cooling[v] = 0
  PROVE  /\ Len(pending) \in {0, 1, 2}
         /\ \A i \in 1 .. Len(pending) : pending[i] # v
<1>1. Remaining \in Nat /\ DeliveryTicks \in Nat
  BY NotifierAssumption DEF Remaining, AlertTyping
<1>2. ASSUME NEW i \in 1 .. Len(pending) PROVE pending[i] \in Messages \ {v, "stopped"}
  <2>1. pending[i] \in Messages /\ pending[i] # "stopped"
    BY DEF AlertTyping, QueueInv
  <2>2. ASSUME pending[i] = v PROVE FALSE
    <3>1. (i - 1) * DeliveryTicks \in Nat
      <4>1. i - 1 \in Nat
        BY DEF AlertTyping
      <4> QED BY <1>1, <4>1
    <3>2. cooling[v] > Remaining + (i - 1) * DeliveryTicks
      BY <2>2 DEF QueueInv
    <3> DEFINE d == (i - 1) * DeliveryTicks
    <3>3. d \in Nat /\ 0 > Remaining + d
      BY <3>1, <3>2
    <3> HIDE DEF d
    <3> QED BY <1>1, <3>3
  <2> QED BY <2>1, <2>2
<1>3. Len(pending) \in Nat
  BY DEF AlertTyping
<1>4. ASSUME Len(pending) >= 3 PROVE FALSE
  <2>1. {1, 2, 3} \subseteq 1 .. Len(pending)
    BY <1>3, <1>4
  <2>2. pending[1] # pending[2] /\ pending[2] # pending[3] /\ pending[1] # pending[3]
    BY <2>1 DEF QueueInv
  <2> QED BY <1>2, <2>1, <2>2 DEF Messages, Severities
<1>5. \A i \in 1 .. Len(pending) : pending[i] # v
  BY <1>2
<1>6. Len(pending) \in {0, 1, 2}
  <2> DEFINE n == Len(pending)
  <2>1. n \in Nat /\ ~(n >= 3)
    BY <1>3, <1>4, Zenon
  <2> HIDE DEF n
  <2>2. n \in {0, 1, 2}
    BY <2>1
  <2> QED BY <2>2 DEF n
<1> QED BY <1>5, <1>6

\* Nothing is said to the handler, and the queue and the worker stay as they are.
LEMMA SilenceKeeps ==
  ASSUME SilenceInv, [Next]_vars,
         UNCHANGED <<enabled, pending, worker, busy, cooling, handled>>
  PROVE  SilenceInv'
<1>1. pc = "failed" => pc' = "failed"
  BY FailedStays
<1>2. QueueInv'
  BY <1>1 DEF SilenceInv, QueueInv, Remaining
<1> QED BY <1>2 DEF SilenceInv, SilenceIsEarned

\* A message goes to the end of the queue.
LEMMA Appended ==
  ASSUME AlertTyping, NEW m \in Messages, pending' = Append(pending, m)
  PROVE  /\ Len(pending) \in Nat /\ Len(pending') = Len(pending) + 1
         /\ \A i \in 1 .. Len(pending) : pending'[i] = pending[i]
         /\ pending'[Len(pending) + 1] = m
         /\ \A i \in 1 .. Len(pending') : i \in 1 .. Len(pending) \/ i = Len(pending) + 1
BY DEF AlertTyping

LEMMA LogStep ==
  ASSUME Roomy, AlertTyping, SilenceInv, pc # "failed", [Next]_vars,
         NEW v \in Severities, Log(v)
  PROVE  SilenceInv'
<1>1. CASE cooling[v] > 0
  BY <1>1, SilenceKeeps DEF Log, Emit
<1>2. CASE ~(cooling[v] > 0)
  <2>1. cooling[v] = 0 /\ cooling \in [Severities -> 0 .. Cooldown] /\ v \in Messages
    BY <1>2, NotifierAssumption DEF AlertTyping, Messages
  <2>2. Len(pending) \in {0, 1, 2} /\ \A i \in 1 .. Len(pending) : pending[i] # v
    BY <2>1, AtMostTwoWait DEF SilenceInv
  <2>3. /\ cooling'[v] = Cooldown /\ \A u \in Severities \ {v} : cooling'[u] = cooling[u]
        /\ handled' = handled \ {v} /\ pending' = Send(v)
        /\ UNCHANGED <<enabled, worker, busy>>
    BY <1>2, <2>1 DEF Log, Emit
  <2>4. Remaining' = Remaining /\ Remaining \in 0 .. DeliveryTicks /\ DeliveryTicks \in Nat
    BY <2>3, NotifierAssumption DEF Remaining, AlertTyping
  <2>5. CASE ~enabled
    <3>1. pending' = pending
      BY <2>3, <2>5 DEF Send
    <3>2. QueueInv'
      BY <2>2, <2>3, <2>4, <3>1, FailedStays DEF SilenceInv, QueueInv
    <3> QED BY <2>3, <2>5, <3>2 DEF SilenceInv, SilenceIsEarned
  <2>6. CASE enabled
    <3>1. pending' = Append(pending, v)
      BY <2>2, <2>3, <2>6, NotifierAssumption DEF Send, Roomy
    <3>2. /\ Len(pending') = Len(pending) + 1
          /\ \A i \in 1 .. Len(pending) : pending'[i] = pending[i]
          /\ pending'[Len(pending) + 1] = v
          /\ \A i \in 1 .. Len(pending') : i \in 1 .. Len(pending) \/ i = Len(pending) + 1
      BY <2>1, <3>1, Appended
    <3>3. ASSUME NEW i \in 1 .. Len(pending'), NEW j \in 1 .. Len(pending'),
                 pending'[i] = pending'[j]
          PROVE  i = j
      BY <2>2, <3>2, <3>3 DEF SilenceInv, QueueInv
    <3>4. ASSUME NEW i \in 1 .. Len(pending') PROVE pending'[i] # "stopped"
      BY <3>2 DEF SilenceInv, QueueInv, Severities
    <3>5. ASSUME NEW i \in 1 .. Len(pending'), pending'[i] \in Severities
          PROVE  cooling'[pending'[i]] > Remaining' + (i - 1) * DeliveryTicks
      <4>1. CASE i \in 1 .. Len(pending)
        <5>1. pending'[i] = pending[i] /\ pending[i] # v
          BY <2>2, <3>2, <4>1
        <5>2. cooling[pending[i]] > Remaining + (i - 1) * DeliveryTicks
          BY <3>5, <4>1, <5>1 DEF SilenceInv, QueueInv
        <5> QED BY <2>3, <2>4, <3>5, <5>1, <5>2
      <4>2. CASE i = Len(pending) + 1
        <5>1. (i - 1) * DeliveryTicks <= 2 * DeliveryTicks /\ (i - 1) * DeliveryTicks \in Nat
          BY <2>2, <2>4, <4>2
        <5> DEFINE d == (i - 1) * DeliveryTicks
        <5>2. d \in Nat /\ d <= 2 * DeliveryTicks
          BY <5>1
        <5>3. pending'[i] = v
          BY <3>2, <4>2
        <5> HIDE DEF d
        <5>4. Cooldown > Remaining + d
          BY <2>4, <5>2, NotifierAssumption DEF Roomy
        <5> QED BY <2>3, <2>4, <5>3, <5>4 DEF d
      <4> QED BY <3>2, <4>1, <4>2
    <3>6. QueueInv'
      BY <3>3, <3>4, <3>5 DEF QueueInv
    <3>7. ASSUME NEW u \in Severities, cooling'[u] > 0
          PROVE  u \in handled' \cup {worker'} \cup {pending'[i] : i \in DOMAIN pending'}
      <4>1. DOMAIN pending' = 1 .. Len(pending') /\ DOMAIN pending = 1 .. Len(pending)
        BY <3>1 DEF AlertTyping
      <4>2. CASE u = v
        <5>1. Len(pending) + 1 \in 1 .. Len(pending')
          BY <2>2, <3>2
        <5> QED BY <3>2, <4>1, <4>2, <5>1
      <4>3. CASE u # v
        <5>1. u \in handled \cup {worker} \cup {pending[i] : i \in 1 .. Len(pending)}
          BY <2>3, <2>6, <3>7, <4>1, <4>3 DEF SilenceInv, SilenceIsEarned
        <5>2. \A i \in 1 .. Len(pending) : i \in 1 .. Len(pending') /\ pending'[i] = pending[i]
          BY <2>2, <3>2
        <5> QED BY <2>3, <4>1, <4>3, <5>1, <5>2
      <4> QED BY <4>2, <4>3
    <3> QED BY <3>6, <3>7 DEF SilenceInv, SilenceIsEarned
  <2> QED BY <2>5, <2>6
<1> QED BY <1>1, <1>2

\* The fatal error is announced behind whatever waits.
LEMMA FatalKeeps ==
  ASSUME AlertTyping, SilenceInv, FatalStep
  PROVE  SilenceInv'
<1>1. /\ pc = "boot" /\ pc' = "failed" /\ pending' = Send("stopped")
      /\ UNCHANGED <<enabled, worker, busy, cooling, handled>>
  BY DEF FatalStep, BootFails
<1>2. CASE pending' = pending
  BY <1>1, <1>2 DEF SilenceInv, SilenceIsEarned, QueueInv, Remaining
<1>3. CASE pending' = Append(pending, "stopped")
  <2>1. /\ Len(pending) \in Nat /\ Len(pending') = Len(pending) + 1
        /\ \A i \in 1 .. Len(pending) : pending'[i] = pending[i]
        /\ pending'[Len(pending) + 1] = "stopped"
        /\ \A i \in 1 .. Len(pending') : i \in 1 .. Len(pending) \/ i = Len(pending) + 1
    BY <1>3, Appended DEF Messages
  <2>2. ASSUME NEW i \in 1 .. Len(pending'), NEW j \in 1 .. Len(pending'),
               pending'[i] = pending'[j]
        PROVE  i = j
    <3>1. \A k \in 1 .. Len(pending) : pending[k] # "stopped"
      BY <1>1 DEF SilenceInv, QueueInv
    <3> QED BY <2>1, <2>2, <3>1 DEF SilenceInv, QueueInv
  <2>3. ASSUME NEW i \in 1 .. Len(pending'), pending'[i] \in Severities
        PROVE  cooling'[pending'[i]] > Remaining' + (i - 1) * DeliveryTicks
    <3>1. i \in 1 .. Len(pending) /\ pending'[i] = pending[i]
      BY <2>1, <2>3 DEF Severities
    <3> QED BY <1>1, <2>3, <3>1 DEF SilenceInv, QueueInv, Remaining
  <2>4. QueueInv'
    BY <1>1, <2>2, <2>3 DEF QueueInv
  <2>5. ASSUME enabled', NEW u \in Severities, cooling'[u] > 0
        PROVE  u \in handled' \cup {worker'} \cup {pending'[i] : i \in DOMAIN pending'}
    <3>1. DOMAIN pending' = 1 .. Len(pending') /\ DOMAIN pending = 1 .. Len(pending)
      BY <1>3 DEF AlertTyping
    <3>2. u \in handled \cup {worker} \cup {pending[i] : i \in 1 .. Len(pending)}
      BY <1>1, <2>5, <3>1 DEF SilenceInv, SilenceIsEarned
    <3>3. \A i \in 1 .. Len(pending) : i \in 1 .. Len(pending') /\ pending'[i] = pending[i]
      BY <2>1
    <3> QED BY <1>1, <3>1, <3>2, <3>3
  <2> QED BY <2>4, <2>5 DEF SilenceInv, SilenceIsEarned
<1> QED BY <1>1, <1>2, <1>3 DEF Send

\* The worker takes the first message: those behind it move up, and it has all the
\* time of a delivery before it.
LEMMA TakeStep ==
  ASSUME AlertTyping, SilenceInv, Take
  PROVE  SilenceInv'
<1>1. /\ worker = Nobody /\ pending # <<>> /\ worker' = Head(pending)
      /\ pending' = Tail(pending) /\ busy' = 0
      /\ UNCHANGED <<pc, enabled, cooling, handled>>
  BY DEF Take, vars
<1>2. /\ Len(pending) \in Nat \ {0} /\ Len(pending') = Len(pending) - 1
      /\ \A i \in 1 .. Len(pending') : pending'[i] = pending[i + 1]
      /\ worker' = pending[1]
      /\ DOMAIN pending' = 1 .. Len(pending') /\ DOMAIN pending = 1 .. Len(pending)
  BY <1>1 DEF AlertTyping
<1>3. \A i \in 1 .. Len(pending') : i + 1 \in 1 .. Len(pending) /\ i \in Nat
  BY <1>2
<1>4. Remaining = 0 /\ Remaining' \in 0 .. DeliveryTicks /\ DeliveryTicks \in Nat
  BY <1>1, NotifierAssumption DEF Remaining
<1>5. ASSUME NEW i \in 1 .. Len(pending'), pending'[i] \in Severities
      PROVE  cooling'[pending'[i]] > Remaining' + (i - 1) * DeliveryTicks
  <2> DEFINE before == ((i + 1) - 1) * DeliveryTicks
             after == (i - 1) * DeliveryTicks
  <2>1. cooling[pending[i + 1]] > Remaining + before
    BY <1>2, <1>3, <1>5 DEF SilenceInv, QueueInv
  <2>2. before \in Int /\ after \in Int /\ before = after + DeliveryTicks
    BY <1>3, <1>4
  <2>3. cooling[pending[i + 1]] \in Int
    BY <1>2, <1>5, NotifierAssumption DEF AlertTyping
  <2> HIDE DEF before, after
  <2>4. cooling[pending[i + 1]] > Remaining' + after
    BY <1>4, <2>1, <2>2, <2>3
  <2> QED BY <1>1, <1>2, <2>4 DEF after
<1>6. ASSUME NEW i \in 1 .. Len(pending'), NEW j \in 1 .. Len(pending'),
             pending'[i] = pending'[j]
      PROVE  i = j
  <2>1. i + 1 = j + 1
    BY <1>2, <1>3, <1>6 DEF SilenceInv, QueueInv
  <2> QED BY <1>3, <2>1
<1>7. QueueInv'
  BY <1>1, <1>2, <1>3, <1>5, <1>6 DEF SilenceInv, QueueInv
<1>8. ASSUME enabled', NEW u \in Severities, cooling'[u] > 0
      PROVE  u \in handled' \cup {worker'} \cup {pending'[i] : i \in DOMAIN pending'}
  <2>1. u \in handled \cup {pending[i] : i \in 1 .. Len(pending)}
    BY <1>1, <1>2, <1>8 DEF SilenceInv, SilenceIsEarned, Nobody, Severities
  <2>2. ASSUME NEW i \in 1 .. Len(pending), u = pending[i]
        PROVE  u = worker' \/ \E k \in 1 .. Len(pending') : u = pending'[k]
    <3>1. CASE i = 1
      BY <1>2, <2>2, <3>1
    <3>2. CASE i # 1
      <4>1. i - 1 \in 1 .. Len(pending') /\ (i - 1) + 1 = i
        BY <1>2, <3>2
      <4> QED BY <1>2, <2>2, <4>1
    <3> QED BY <3>1, <3>2
  <2> QED BY <1>1, <1>2, <2>1, <2>2
<1> QED BY <1>7, <1>8 DEF SilenceInv, SilenceIsEarned

LEMMA FinishStep ==
  ASSUME AlertTyping, SilenceInv, Finish
  PROVE  SilenceInv'
<1>1. /\ worker' = Nobody /\ handled' = handled \cup {worker}
      /\ UNCHANGED <<pc, enabled, pending, cooling>>
  BY DEF Finish, vars
<1>2. /\ Remaining' = 0 /\ Remaining \in Nat /\ DeliveryTicks \in Nat
  BY <1>1, NotifierAssumption DEF Remaining, AlertTyping
<1>3. ASSUME NEW i \in 1 .. Len(pending), pending[i] \in Severities
      PROVE  cooling[pending[i]] > Remaining' + (i - 1) * DeliveryTicks
  <2> DEFINE d == (i - 1) * DeliveryTicks
  <2>1. d \in Int /\ cooling[pending[i]] > Remaining + d
    BY <1>2, <1>3 DEF SilenceInv, QueueInv, AlertTyping
  <2>2. cooling[pending[i]] \in Int
    BY <1>3, NotifierAssumption DEF AlertTyping
  <2> HIDE DEF d
  <2>3. cooling[pending[i]] > Remaining' + d
    BY <1>2, <2>1, <2>2
  <2> QED BY <2>3 DEF d
<1>4. QueueInv'
  BY <1>1, <1>3 DEF SilenceInv, QueueInv
<1> QED BY <1>1, <1>4 DEF SilenceInv, SilenceIsEarned

\* While time passes with messages waiting, a delivery is under way, and it uses up as
\* much of its time as passes of the cooldowns.
LEMMA TickStep ==
  ASSUME AlertTyping, SilenceInv, Tick
  PROVE  SilenceInv'
<1>1. /\ worker = Nobody => pending = <<>>
      /\ worker # Nobody => busy < DeliveryTicks
      /\ busy' = IF worker = Nobody THEN 0 ELSE busy + 1
      /\ cooling' = [v \in Severities |-> Elapsed(cooling[v])]
      /\ UNCHANGED <<pc, enabled, pending, worker, handled>>
  BY DEF Tick, vars
<1>2. \A v \in Severities : cooling'[v] = (IF cooling[v] > 0 THEN cooling[v] - 1 ELSE 0)
                            /\ cooling[v] \in Nat
  BY <1>1, NotifierAssumption DEF Elapsed, AlertTyping
<1>3. ASSUME NEW i \in 1 .. Len(pending), pending[i] \in Severities
      PROVE  cooling'[pending[i]] > Remaining' + (i - 1) * DeliveryTicks
  <2>1. worker # Nobody
    BY <1>1, <1>3
  <2>2. Remaining' = Remaining - 1 /\ Remaining \in Nat \ {0}
    BY <1>1, <2>1, NotifierAssumption DEF Remaining, AlertTyping
  <2> DEFINE d == (i - 1) * DeliveryTicks
  <2>3. d \in Nat
    <3>1. i - 1 \in Nat /\ DeliveryTicks \in Nat
      BY NotifierAssumption DEF AlertTyping
    <3> QED BY <3>1
  <2>4. cooling[pending[i]] > Remaining + d
    BY <1>3 DEF SilenceInv, QueueInv
  <2> HIDE DEF d
  <2>5. cooling'[pending[i]] > Remaining' + d
    BY <1>2, <1>3, <2>2, <2>3, <2>4
  <2> QED BY <2>5 DEF d
<1>4. QueueInv'
  BY <1>1, <1>3 DEF SilenceInv, QueueInv
<1>5. \A v \in Severities : cooling'[v] > 0 => cooling[v] > 0
  BY <1>2
<1> QED BY <1>1, <1>4, <1>5 DEF SilenceInv, SilenceIsEarned

LEMMA SilenceInvNext ==
  ASSUME Roomy, AlertTyping, SilenceInv, [NotifierNext]_allVars
  PROVE  SilenceInv'
<1>1. [Next]_vars
  BY ServiceStep
<1>2. CASE WarningStep \/ FailureStep
  <2>1. pc # "failed" /\ (Log("warning") \/ Log("failure"))
    BY <1>2 DEF WarningStep, FailureStep, NotReady, ConnectFails, CreateSchemaFails, CycleEnds
  <2> QED BY <1>1, <2>1, LogStep DEF Severities
<1>3. ASSUME NEW v \in Severities, CycleLogs(v) PROVE SilenceInv'
  BY <1>1, <1>3, LogStep DEF CycleLogs
<1>4. CASE FatalStep
  BY <1>4, FatalKeeps
<1>5. CASE Take
  BY <1>5, TakeStep
<1>6. CASE Finish
  BY <1>6, FinishStep
<1>7. CASE Tick
  BY <1>7, TickStep
<1>8. CASE UNCHANGED alertVars \/ FlushEnds
  BY <1>1, <1>8, SilenceKeeps DEF alertVars, FlushEnds
<1> QED BY <1>2, <1>3, <1>4, <1>5, <1>6, <1>7, <1>8
    DEF NotifierNext, MainStep, SilentStep, allVars

-----------------------------------------------------------------------------

LEMMA AlertInvariant == NotifierSpec => [](TypeOK /\ AlertTyping /\ FlushInv)
<1>1. NotifierSpec => []TypeOK
  BY NotifierIsService, ServiceTyping, PTL
<1>2. NotifierInit => AlertTyping /\ FlushInv
  BY AlertTypingInit, FlushInvInit
<1>3. TypeOK /\ AlertTyping /\ FlushInv /\ [NotifierNext]_allVars => (AlertTyping /\ FlushInv)'
  BY AlertTypingNext, FlushInvNext
<1> QED BY <1>1, <1>2, <1>3, PTL DEF NotifierSpec

\* The types of the loop hold beside the alerts too; in particular the delay between two
\* connection attempts (wait_for_clickhouse, clickhouse_client.py) stays within its limits.
THEOREM ServiceTypeCorrect == NotifierSpec => []TypeOK
BY AlertInvariant, PTL

\* A stop request that finds the process between two cycles (run_scheduler, scheduler.py)
\* is the end of it.
THEOREM StopBetweenCyclesIsFinal == NotifierSpec => NoCycleAfterStop
BY NotifierIsService, ServiceStops, PTL

\* flush_pending (notifications.py) returns before its deadline only when the queue is
\* empty and nothing is being delivered.
THEOREM FlushLeavesNothing == NotifierSpec => []FlushedUnlessLate
<1>1. FlushInv => FlushedUnlessLate
  BY DEF FlushInv
<1> QED BY <1>1, AlertInvariant, PTL

\* No alert is kept back by the cooldown of one that was dropped (NotificationHandler.emit
\* and send_notification, notifications.py), when the queue has room for three messages
\* and three deliveries fit into a cooldown.
THEOREM SilenceWasEarned ==
  ASSUME Roomy
  PROVE  NotifierSpec => []SilenceIsEarned
<1>1. NotifierInit => SilenceInv
  BY SilenceInvInit
<1>2. AlertTyping /\ SilenceInv /\ [NotifierNext]_allVars => SilenceInv'
  BY SilenceInvNext
<1>3. SilenceInv => SilenceIsEarned
  BY DEF SilenceInv
<1> QED BY <1>1, <1>2, <1>3, AlertInvariant, PTL DEF NotifierSpec
=============================================================================
