--------------------------------- MODULE Notifier ---------------------------------
(***************************************************************************)
(* The alerts of the long-running process (notifications.py, main of       *)
(* app.py) beside the process itself, module Service: a log handler with a *)
(* cooldown per severity, a bounded queue, a daemon worker that delivers,  *)
(* and the flush before a fatal exit.                                      *)
(*                                                                         *)
(* A tick is a stretch of time; the durations are constants in ticks.      *)
(***************************************************************************)
EXTENDS Service, Sequences

CONSTANTS
  MaxPending,     \* MAX_PENDING_NOTIFICATIONS
  Cooldown,       \* ALERT_COOLDOWN_SECONDS
  DeliveryTicks,  \* most a delivery takes: its connection and read timeouts
  ShutdownWait    \* SHUTDOWN_WAIT_SECONDS

ASSUME NotifierAssumption ==
  /\ MaxPending \in Nat \ {0}
  /\ Cooldown \in Nat \ {0}
  /\ DeliveryTicks \in Nat
  /\ ShutdownWait \in Nat

VARIABLES
  enabled,   \* APPRISE_URL is set and valid
  pending,   \* _pending, the queue
  worker,    \* the message the worker is delivering
  busy,      \* ticks since it began
  cooling,   \* cooling[severity]: ticks until _last_alert is old enough
  flushing,  \* main is in flush_pending
  waiting,   \* ticks to the deadline of flush_pending
  handled    \* history: messages tried; of a severity, the one it cools down from

alertVars == <<enabled, pending, worker, busy, cooling, flushing, waiting, handled>>
allVars == <<vars, alertVars>>

Severities == {"warning", "failure"}
Messages == Severities \cup {"starting", "stopped"}
Nobody == "none"

\* The process has not exited; its exit also ends the worker.
Running == pc \notin Ended \/ flushing

\* send: a message that finds the queue full is dropped.
Send(m) == IF enabled /\ Len(pending) < MaxPending THEN Append(pending, m) ELSE pending

\* configure_notifications, and the first message of main
NotifierInit ==
  /\ Init
  /\ enabled \in BOOLEAN
  /\ pending = IF enabled THEN <<"starting">> ELSE <<>>
  /\ worker = Nobody
  /\ busy = 0
  /\ cooling = [v \in Severities |-> 0]
  /\ flushing = FALSE
  /\ waiting = 0
  /\ handled = {}

-----------------------------------------------------------------------------
(* Main thread.                                                            *)

\* Variant: every record is forwarded.
EmitAlways(v) ==
  /\ cooling' = [cooling EXCEPT ![v] = Cooldown]
  /\ pending' = Send(v)
  /\ handled' = handled \ {v}

\* A record of severity v reaches the handler.  The cooldown begins before the
\* message is queued.
Emit(v) ==
  IF cooling[v] > 0 THEN UNCHANGED <<cooling, pending, handled>>
  ELSE /\ cooling' = [cooling EXCEPT ![v] = Cooldown]
       /\ pending' = Send(v)
       /\ handled' = handled \ {v}

Log(v) == Emit(v) /\ UNCHANGED <<enabled, worker, busy, flushing, waiting>>

\* Steps that log nothing above INFO.
SilentStep ==
  /\ \/ Boot \/ StartCycle \/ Stop \/ SleepSlice \/ SleepEnds
     \/ Connect \/ Probe \/ BackOff \/ CreateSchema \/ CycleEnds
  /\ UNCHANGED alertVars

\* An unready ClickHouse is logged as a warning, what run_once raises as an error.
WarningStep == NotReady /\ Log("warning")
FailureStep == (ConnectFails \/ CreateSchemaFails \/ CycleEnds) /\ Log("failure")

\* A cycle logs failed symbols, clamped windows, unwritten rows.
CycleLogs(v) == pc = "cycle" /\ Log(v) /\ UNCHANGED vars

\* main announces the fatal error and flushes.
FatalStep ==
  /\ BootFails
  /\ pending' = Send("stopped")
  /\ flushing' = TRUE
  /\ waiting' = ShutdownWait
  /\ UNCHANGED <<enabled, worker, busy, cooling, handled>>

\* Variant: only the queue is looked at, not the message being delivered.
Queued == Len(pending)

\* unfinished_tasks
Unfinished == IF worker = Nobody THEN Len(pending) ELSE Len(pending) + 1

FlushEnds ==
  /\ flushing
  /\ Unfinished = 0 \/ waiting = 0
  /\ flushing' = FALSE
  /\ UNCHANGED <<vars, enabled, pending, worker, busy, cooling, waiting, handled>>

-----------------------------------------------------------------------------
(* Worker thread and time.                                                 *)

Take ==
  /\ Running
  /\ worker = Nobody
  /\ pending # <<>>
  /\ worker' = Head(pending)
  /\ pending' = Tail(pending)
  /\ busy' = 0
  /\ UNCHANGED <<vars, enabled, cooling, flushing, waiting, handled>>

\* Variant: an exception of the client ends the thread.
FinishOrDie ==
  /\ Running
  /\ worker \in Messages
  /\ worker' \in {Nobody, "dead"}
  /\ busy' = 0
  /\ handled' = handled \cup {worker}
  /\ UNCHANGED <<vars, enabled, pending, cooling, flushing, waiting>>

\* Delivered or not: a failure is logged under this module's own name, which the
\* handler ignores.
Finish ==
  /\ Running
  /\ worker \in Messages
  /\ worker' = Nobody
  /\ busy' = 0
  /\ handled' = handled \cup {worker}
  /\ UNCHANGED <<vars, enabled, pending, cooling, flushing, waiting>>

Elapsed(ticks) == IF ticks > 0 THEN ticks - 1 ELSE 0

\* Time passes.  The worker waits for the queue without delay, and a delivery has
\* its timeouts.
Tick ==
  /\ Running
  /\ worker = Nobody => pending = <<>>
  /\ worker # Nobody => busy < DeliveryTicks
  /\ worker # Nobody \/ flushing \/ \E v \in Severities : cooling[v] > 0
  /\ busy' = IF worker = Nobody THEN 0 ELSE busy + 1
  /\ cooling' = [v \in Severities |-> Elapsed(cooling[v])]
  /\ waiting' = Elapsed(waiting)
  /\ UNCHANGED <<vars, enabled, pending, worker, flushing, handled>>

-----------------------------------------------------------------------------

MainStep == SilentStep \/ WarningStep \/ FailureStep \/ FatalStep \/ FlushEnds

NotifierNext ==
  \/ MainStep \/ \E v \in Severities : CycleLogs(v)
  \/ (Signal \/ DatabaseChanges) /\ UNCHANGED alertVars
  \/ Take \/ Finish \/ Tick

\* Both threads are scheduled, deliveries have a timeout, time passes.
NotifierSpec ==
  /\ NotifierInit
  /\ [][NotifierNext]_allVars
  /\ WF_allVars(MainStep) /\ WF_allVars(Take) /\ WF_allVars(Finish) /\ WF_allVars(Tick)

-----------------------------------------------------------------------------

\* A severity is silent only because a message of it has been tried, or is on its
\* way: no alert is dropped on a full queue and then kept back for the cooldown
\* that began with it (notifications.py:94).
SilenceIsEarned ==
  enabled => \A v \in Severities :
    cooling[v] > 0 => v \in handled \cup {worker} \cup {pending[i] : i \in DOMAIN pending}

\* A fatal exit that has not used up its wait leaves no message behind, neither in
\* the queue nor in the middle of its delivery.
FlushedUnlessLate ==
  pc = "failed" /\ ~flushing /\ waiting > 0 => pending = <<>> /\ worker = Nobody

\* Every queued message is tried, unless the process exits first.
MessagesLeave ==
  \A m \in Messages :
    (\E i \in DOMAIN pending : pending[i] = m) ~> (m \in handled \/ ~Running)
=============================================================================
