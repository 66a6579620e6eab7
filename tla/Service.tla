-------------------------------- MODULE Service --------------------------------
(***************************************************************************)
(* The long-running process: main and _run_service (app.py), the loop of   *)
(* run_scheduler (scheduler.py), and in each turn run_once (app.py), which *)
(* waits for ClickHouse (clickhouse_client.py), creates the schema and     *)
(* runs one cycle.  What a cycle does is module Ingestion.                 *)
(***************************************************************************)
EXTENDS Integers

CONSTANTS
  BackoffInitial,  \* ingestion.readiness_backoff_initial_sec
  BackoffMax,      \* ingestion.readiness_backoff_max_sec
  PollSlices,      \* one-second slices of the sleep between two cycles
  MaxLeaked        \* bound: clients left open are counted up to this number

ASSUME ServiceAssumption ==
  /\ BackoffInitial \in Nat
  /\ BackoffMax \in Nat
  /\ PollSlices \in Nat
  /\ MaxLeaked \in Nat

VARIABLES
  pc,             \* where the process is
  stopRequested,  \* stop_requested
  asked,          \* history: the handler of the scheduler has been called
  database,       \* ClickHouse: "up", "down", or "denied": it lacks a grant
  backoff,        \* sleep_seconds of wait_for_clickhouse
  connected,      \* this cycle's ClickHouse client is open
  leaked,         \* clients of earlier cycles or attempts that were never closed
  slices          \* seconds to the deadline of the sleep

vars == <<pc, stopRequested, asked, database, backoff, connected, leaked, slices>>

Stages == {"boot", "test", "connect", "probe", "backoff", "schema", "cycle",
           "sleep", "ended", "failed", "killed"}
Databases == {"up", "down", "denied"}
Ended == {"ended", "failed", "killed"}

Smaller(a, b) == IF a <= b THEN a ELSE b

Init ==
  /\ pc = "boot"
  /\ stopRequested = FALSE
  /\ asked = FALSE
  /\ database \in Databases
  /\ backoff = BackoffInitial
  /\ connected = FALSE
  /\ leaked = 0
  /\ slices = 0

-----------------------------------------------------------------------------
(* The loop.                                                               *)

\* Settings are loaded, logging is set up, the handlers are installed.
Boot ==
  /\ pc = "boot"
  /\ pc' = "test"
  /\ UNCHANGED <<stopRequested, asked, database, backoff, connected, leaked, slices>>

\* A bad configuration ends the process.
BootFails ==
  /\ pc = "boot"
  /\ pc' = "failed"
  /\ UNCHANGED <<stopRequested, asked, database, backoff, connected, leaked, slices>>

\* SIGTERM or SIGINT.  A signal interrupts no cycle and no sleep.
Signal ==
  /\ pc \notin Ended
  /\ IF pc = "boot"
     THEN pc' = "killed" /\ UNCHANGED <<stopRequested, asked>>
     ELSE stopRequested' = TRUE /\ asked' = TRUE /\ UNCHANGED pc
  /\ UNCHANGED <<database, backoff, connected, leaked, slices>>

\* Variant: each turn of the loop starts with stop_requested = False.
StartCycleForgetting ==
  /\ pc = "test"
  /\ pc' = "connect"
  /\ stopRequested' = FALSE
  /\ backoff' = BackoffInitial
  /\ UNCHANGED <<asked, database, connected, leaked, slices>>

\* Variant: while True.
StartCycleUnchecked ==
  /\ pc = "test"
  /\ pc' = "connect"
  /\ backoff' = BackoffInitial
  /\ UNCHANGED <<stopRequested, asked, database, connected, leaked, slices>>

StartCycle ==
  /\ pc = "test"
  /\ ~stopRequested
  /\ pc' = "connect"
  /\ backoff' = BackoffInitial
  /\ UNCHANGED <<stopRequested, asked, database, connected, leaked, slices>>

Stop ==
  /\ pc = "test"
  /\ stopRequested
  /\ pc' = "ended"
  /\ UNCHANGED <<stopRequested, asked, database, backoff, connected, leaked, slices>>

\* run_once returns and the loop goes to sleep.
Return ==
  /\ pc' = "sleep"
  /\ slices' = PollSlices

\* Variant: the loop does not catch what run_once raises.
RaiseOut ==
  /\ pc' = "failed"
  /\ UNCHANGED slices

\* run_once raises; the loop logs it and goes to sleep.
Raise ==
  /\ pc' = "sleep"
  /\ slices' = PollSlices

SleepSlice ==
  /\ pc = "sleep"
  /\ ~stopRequested
  /\ slices > 0
  /\ slices' = slices - 1
  /\ UNCHANGED <<pc, stopRequested, asked, database, backoff, connected, leaked>>

SleepEnds ==
  /\ pc = "sleep"
  /\ stopRequested \/ slices = 0
  /\ pc' = "test"
  /\ slices' = 0
  /\ UNCHANGED <<stopRequested, asked, database, backoff, connected, leaked>>

-----------------------------------------------------------------------------
(* run_once                                                                *)

\* The client goes out of scope without close().
Leak ==
  /\ connected' = FALSE
  /\ leaked' = IF connected THEN Smaller(leaked + 1, MaxLeaked) ELSE leaked

Connect ==
  /\ pc = "connect"
  /\ database # "down"
  /\ pc' = "probe"
  /\ connected' = TRUE
  /\ UNCHANGED <<stopRequested, asked, database, backoff, leaked, slices>>

\* SELECT 1, SELECT version()
Probe ==
  /\ pc = "probe"
  /\ database # "down"
  /\ pc' = "schema"
  /\ UNCHANGED <<stopRequested, asked, database, backoff, connected, leaked, slices>>

\* The error looks like a dependency that is not ready.
NotReady ==
  /\ pc \in {"connect", "probe"}
  /\ database = "down"
  /\ pc' = "backoff"
  /\ Leak
  /\ UNCHANGED <<stopRequested, asked, database, backoff, slices>>

\* Any other error of the connection is a ClickHouseConfigurationError; so is one
\* of an unreachable server whose text is not in the list.
ConnectFails ==
  /\ pc \in {"connect", "probe"}
  /\ database # "up"
  /\ Leak
  /\ Raise
  /\ UNCHANGED <<stopRequested, asked, database, backoff>>

\* Variant: the delay doubles without a limit.
DoubledForEver == backoff * 2

Doubled == Smaller(backoff * 2, BackoffMax)

BackOff ==
  /\ pc = "backoff"
  /\ pc' = "connect"
  /\ backoff' = Doubled
  /\ UNCHANGED <<stopRequested, asked, database, connected, leaked, slices>>

\* A denied CREATE DATABASE is passed over: the database may exist already.
CreateSchema ==
  /\ pc = "schema"
  /\ database # "down"
  /\ pc' = "cycle"
  /\ UNCHANGED <<stopRequested, asked, database, backoff, connected, leaked, slices>>

\* A table statement is denied, or there is no answer.  The exception leaves
\* run_once before its `try'.
CreateSchemaFails ==
  /\ pc = "schema"
  /\ database # "up"
  /\ Leak
  /\ Raise
  /\ UNCHANGED <<stopRequested, asked, database, backoff>>

\* The cycle returns or raises; `finally' closes the client.
CycleEnds ==
  /\ pc = "cycle"
  /\ connected' = FALSE
  /\ Return \/ Raise
  /\ UNCHANGED <<stopRequested, asked, database, backoff, leaked>>

-----------------------------------------------------------------------------

DatabaseChanges ==
  /\ database' \in Databases \ {database}
  /\ UNCHANGED <<pc, stopRequested, asked, backoff, connected, leaked, slices>>

Step ==
  \/ Boot \/ BootFails \/ StartCycle \/ Stop \/ SleepSlice \/ SleepEnds
  \/ Connect \/ Probe \/ NotReady \/ ConnectFails \/ BackOff
  \/ CreateSchema \/ CreateSchemaFails \/ CycleEnds

Next == Step \/ Signal \/ DatabaseChanges

\* The process is scheduled, every sleep ends, every statement and request has a
\* timeout.  Nothing is assumed of signals and of ClickHouse.
Spec == Init /\ [][Next]_vars /\ WF_vars(Step)

-----------------------------------------------------------------------------

\* Types.  A delay between two connection attempts stays within its limits.  The
\* first is taken from the configuration as it is, which does not compare it with
\* the limit.
TypeOK ==
  /\ pc \in Stages
  /\ stopRequested \in BOOLEAN
  /\ asked \in BOOLEAN
  /\ database \in Databases
  /\ backoff = BackoffInitial \/ backoff \in Smaller(BackoffInitial, BackoffMax) .. BackoffMax
  /\ connected \in BOOLEAN
  /\ leaked \in 0 .. MaxLeaked
  /\ slices \in 0 .. PollSlices

\* A stop request that finds the process between two cycles is the end of it: no
\* further cycle begins, whatever signals or errors follow.
NoCycleAfterStop ==
  [](asked /\ pc \in {"test", "sleep"} =>
       [](pc \in {"test", "sleep", "ended"}))

\* A stop request is honoured: the process ends, provided ClickHouse does not stay
\* unreachable (wait_for_clickhouse does not look at stop_requested).
StopIsHonoured ==
  <>[](database # "down") => (asked ~> pc = "ended")

\* No outage is the end of collection: when ClickHouse is back for good, every
\* turn of the loop leads to a cycle, unless the process was asked to stop.  Missing
\* grants are no outage.
CollectionResumes ==
  [](database # "denied") /\ <>[](database = "up") =>
    (pc = "test" ~> pc \in {"cycle", "ended"})

\* The plan wants missing grants to "fail fast with a clear, actionable error; do not
\* loop" (IMPLEMENTATION_PLAN.md:213): a connection or schema statement that is denied
\* does not lead to another turn of the loop.
DeniedIsFatal ==
  [][database = "denied" /\ pc \in {"connect", "probe", "schema"} => pc' # "sleep"]_vars

\* "Both clients are opened by this function, so this function closes them" and
\* none is left open "per cycle for the life of the service" (app.py:115).  When a
\* turn of the loop is over, every client it opened has been closed.
ClientsAreClosed ==
  pc = "sleep" => ~connected /\ leaked = 0
=============================================================================
