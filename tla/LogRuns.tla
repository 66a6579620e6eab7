-------------------------------- MODULE LogRuns --------------------------------
(***************************************************************************)
(* The logs folder (logging_setup.py).  Every process that starts, the     *)
(* service or a `run-once', prunes the folder to LogRunsKept - 1 runs and  *)
(* then takes the first free `YYYY-MM-DD_NNN' name of the day.  A run is   *)
(* the set of files that share such a name.  Processes on the same data    *)
(* directory may start at the same time.                                   *)
(***************************************************************************)
EXTENDS Integers, FiniteSets

CONSTANTS
  Processes,       \* processes that start, run and end, again and again
  LogRunsKept,     \* LOG_RUNS_KEPT
  MaxDay,          \* bound: days
  MaxStartsPerDay  \* bound: process starts on one day

ASSUME LogRunsAssumption ==
  /\ IsFiniteSet(Processes)
  /\ LogRunsKept \in Nat \ {0}
  /\ MaxDay \in Nat
  /\ MaxStartsPerDay \in Nat

VARIABLES
  files,   \* names of the runs in the folder
  today,
  pc,      \* where each process is in setup_logging
  doomed,  \* old_runs of each process, those not deleted yet
  path,    \* log_path of each process
  starts,  \* history: starts on each day
  born     \* history: when a name was taken last

vars == <<files, today, pc, doomed, path, starts, born>>

Days == 1 .. MaxDay
\* A process takes one name, so no name beyond the number of starts is taken.
Names == [day : Days, seq : 1 .. MaxStartsPerDay]
NoName == [day |-> 0, seq |-> 0]

\* Variant: names compare by sequence number, then by date.
BeforeBySequence(a, b) == a.seq < b.seq \/ (a.seq = b.seq /\ a.day < b.day)

\* Names compare by date, then by sequence number.
Before(a, b) == a.day < b.day \/ (a.day = b.day /\ a.seq < b.seq)

\* Variant: the folder is pruned to LOG_RUNS_KEPT runs before one is added.
OldRunsOneTooMany(runs) ==
  {r \in runs : Cardinality({q \in runs : Before(r, q)}) >= LogRunsKept}

\* All but the newest LogRunsKept - 1 runs, by name.
OldRuns(runs) ==
  {r \in runs : Cardinality({q \in runs : Before(r, q)}) >= LogRunsKept - 1}

\* The first name of the day that is not in the folder.
NextPaths(runs) ==
  {n \in Names \ runs : /\ n.day = today
                        /\ \A m \in Names \ runs : m.day = today => n.seq <= m.seq}

Init ==
  /\ files = {}
  /\ today = 1
  /\ pc = [p \in Processes |-> "down"]
  /\ doomed = [p \in Processes |-> {}]
  /\ path = [p \in Processes |-> NoName]
  /\ starts = [d \in Days |-> 0]
  /\ born = [n \in Names |-> 0]

\* _prune_old_log_runs reads the folder ...
ListOldRuns(p) ==
  /\ pc[p] = "down"
  /\ pc' = [pc EXCEPT ![p] = "listed"]
  /\ doomed' = [doomed EXCEPT ![p] = OldRuns(files)]
  /\ UNCHANGED <<files, today, path, starts, born>>

\* ... and deletes what it found too old, one run after the other, the oldest first.
DeleteOldRun(p) ==
  /\ pc[p] = "listed"
  /\ \E r \in doomed[p] :
       /\ \A q \in doomed[p] \ {r} : Before(r, q)
       /\ files' = files \ {r}
       /\ doomed' = [doomed EXCEPT ![p] = @ \ {r}]
  /\ UNCHANGED <<today, pc, path, starts, born>>

PruningEnds(p) ==
  /\ pc[p] = "listed"
  /\ doomed[p] = {}
  /\ pc' = [pc EXCEPT ![p] = "pruned"]
  /\ UNCHANGED <<files, today, doomed, path, starts, born>>

\* _next_log_path
TakeName(p) ==
  /\ pc[p] = "pruned"
  /\ starts[today] < MaxStartsPerDay
  /\ pc' = [pc EXCEPT ![p] = "named"]
  /\ starts' = [starts EXCEPT ![today] = @ + 1]
  /\ \E n \in NextPaths(files) :
       /\ path' = [path EXCEPT ![p] = n]
       /\ born' = [born EXCEPT ![n] = (MaxStartsPerDay + 1) * today + starts'[today]]
  /\ UNCHANGED <<files, today, doomed>>

\* The file handlers open the log.
OpenLog(p) ==
  /\ pc[p] = "named"
  /\ pc' = [pc EXCEPT ![p] = "up"]
  /\ files' = files \cup {path[p]}
  /\ UNCHANGED <<today, doomed, path, starts, born>>

\* A process ends, or is killed at any stage of its start.
Exit(p) ==
  /\ pc[p] # "down"
  /\ pc' = [pc EXCEPT ![p] = "down"]
  /\ doomed' = [doomed EXCEPT ![p] = {}]
  /\ path' = [path EXCEPT ![p] = NoName]
  /\ UNCHANGED <<files, today, starts, born>>

\* Midnight may fall into a start; no start takes a whole day.
NextDay ==
  /\ today < MaxDay
  /\ \A p \in Processes : pc[p] = "named" => path[p].day = today
  /\ today' = today + 1
  /\ UNCHANGED <<files, pc, doomed, path, starts, born>>

Next ==
  \/ \E p \in Processes : ListOldRuns(p) \/ DeleteOldRun(p) \/ PruningEnds(p)
                          \/ TakeName(p) \/ OpenLog(p) \/ Exit(p)
  \/ NextDay

Spec == Init /\ [][Next]_vars

-----------------------------------------------------------------------------

\* The folder does not grow with the number of starts, also when processes start
\* at the same time: each may add one run to the LogRunsKept - 1 that stay.
FolderBounded ==
  Cardinality(files) <= LogRunsKept - 1 + Cardinality(Processes)

\* Pruning deletes a run only when every run it leaves is younger: "Only the
\* newest LOG_RUNS_KEPT process runs stay in the folder" (logging_setup.py:34).
\* A run deleted from the front of a list read earlier counts too.
NewestStay ==
  [][\A r \in files \ files', k \in files' : born[r] < born[k]]_vars
=============================================================================
