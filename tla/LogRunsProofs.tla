----------------------------- MODULE LogRunsProofs -----------------------------
(***************************************************************************)
(* The logs folder, for any number of processes that start at the same     *)
(* time and any number of runs kept: it stays bounded, and on quiet days   *)
(* it keeps the newest runs.                                               *)
(***************************************************************************)
EXTENDS LogRuns, FiniteFacts

\* Types, and the name a process is about to open.
FolderTyping ==
  /\ files \subseteq Names /\ IsFiniteSet(files)
  /\ pc \in [Processes -> {"down", "listed", "pruned", "named", "up"}]
  /\ DOMAIN doomed = Processes
  /\ DOMAIN path = Processes
  /\ \A p \in Processes : pc[p] = "named" => path[p] \in Names

\* Processes that will delete what they have listed, and that may still add a run.
Listing == {p \in Processes : pc[p] = "listed"}
Adding == {p \in Processes : pc[p] \in {"pruned", "named"}}

\* Look back at the newest listing that has been followed by its deletion.  It left
\* LogRunsKept - 1 runs, and since then each process of `opened' has added one: none
\* twice, as its next deletion would be from a newer listing.  A listing that is newer
\* still, and not yet followed by its deletion, is `fresh'; `since' are the processes
\* that have added a run after it.
Accounted(opened, fresh, since) ==
  /\ Cardinality(files) <= LogRunsKept - 1 + Cardinality(opened)
  /\ opened \cap Adding = {}
  /\ opened \cap Listing \subseteq fresh
  /\ \A p \in fresh :
       /\ Cardinality(files \ doomed[p]) <= LogRunsKept - 1 + Cardinality(since[p])
       /\ p \notin since[p]
       /\ since[p] \cap Adding = {}
       /\ since[p] \cap Listing \subseteq fresh
       /\ \A q \in since[p] \cap fresh : since[q] \subseteq since[p]

FolderInv ==
  \E opened \in SUBSET Processes, fresh \in SUBSET Listing,
     since \in [Processes -> SUBSET Processes] : Accounted(opened, fresh, since)

-----------------------------------------------------------------------------

\* Names of runs are totally ordered.
LEMMA NamesOrdered ==
  ASSUME NEW a \in Names, NEW b \in Names, NEW c \in Names
  PROVE  /\ ~Before(a, a)
         /\ Before(a, b) /\ Before(b, c) => Before(a, c)
         /\ a = b \/ Before(a, b) \/ Before(b, a)
<1>1. /\ a.day \in Int /\ b.day \in Int /\ c.day \in Int
      /\ a.seq \in Int /\ b.seq \in Int /\ c.seq \in Int
  BY LogRunsAssumption DEF Names, Days
<1>2. a.day = b.day /\ a.seq = b.seq => a = b
  BY DEF Names
<1> QED BY <1>1, <1>2 DEF Before

\* Pruning leaves at most LogRunsKept - 1 of the runs it has listed: all but the
\* oldest of those it keeps are newer than that one.
LEMMA KeptRuns ==
  ASSUME NEW runs \in SUBSET Names, IsFiniteSet(runs)
  PROVE  Cardinality(runs \ OldRuns(runs)) <= LogRunsKept - 1
<1> DEFINE kept == runs \ OldRuns(runs)
           newer(r) == {q \in runs : Before(r, q)}
           R == {r \in Names \X Names : Before(r[1], r[2])}
<1>1. IsFiniteSet(kept) /\ kept \subseteq Names
  BY FS_Difference
<1>2. \A r \in runs : IsFiniteSet(newer(r)) /\ Cardinality(newer(r)) \in Nat
  BY FS_Subset, FS_CardinalityType
<1>3. \A r \in kept : Cardinality(newer(r)) < LogRunsKept - 1
  BY <1>2, LogRunsAssumption DEF OldRuns
<1>4. CASE kept = {}
  BY <1>4, FS_EmptySet, LogRunsAssumption
<1>5. CASE kept # {}
  <2>1. \A x, y \in kept : <<x, y>> \in R <=> Before(x, y)
    BY <1>1
  <2>2. \A x \in kept : <<x, x>> \notin R
    BY <1>1, <2>1, NamesOrdered
  <2>3. \A x, y, z \in kept : <<x, y>> \in R /\ <<y, z>> \in R => <<x, z>> \in R
    BY <1>1, <2>1, NamesOrdered
  <2>4. PICK r \in kept : \A q \in kept : <<q, r>> \notin R
    <3> HIDE DEF kept, R
    <3> QED BY ONLY <1>1, <1>5, <2>2, <2>3, HasMinimal, ZenonT(60)
  <2>5. kept \ {r} \subseteq newer(r)
    BY <1>1, <2>1, <2>4, NamesOrdered
  <2>6. Cardinality(kept \ {r}) <= Cardinality(newer(r))
    BY <1>2, <2>4, <2>5, FS_Subset
  <2>7. Cardinality(kept \ {r}) = Cardinality(kept) - 1 /\ Cardinality(kept) \in Nat
    BY <1>1, <2>4, FS_RemoveElement, FS_CardinalityType
  <2>8. Cardinality(newer(r)) < LogRunsKept - 1 /\ Cardinality(newer(r)) \in Nat
    BY <1>2, <1>3, <2>4
  <2> HIDE DEF kept, newer
  <2>9. Cardinality(kept) <= LogRunsKept - 1
    BY <2>6, <2>7, <2>8, LogRunsAssumption
  <2> QED BY <2>9 DEF kept
<1> QED BY <1>4, <1>5

LEMMA FolderTypingInit == Init => FolderTyping
BY FS_EmptySet DEF Init, FolderTyping

LEMMA FolderTypingNext == FolderTyping /\ [Next]_vars => FolderTyping'
<1> SUFFICES ASSUME FolderTyping, [Next]_vars PROVE FolderTyping'
  OBVIOUS
<1> USE DEF FolderTyping
<1>1. ASSUME NEW p \in Processes, ListOldRuns(p) PROVE FolderTyping'
  BY <1>1 DEF ListOldRuns
<1>2. ASSUME NEW p \in Processes, DeleteOldRun(p) PROVE FolderTyping'
  <2>1. IsFiniteSet(files')
    <3>1. files' \subseteq files
      BY <1>2 DEF DeleteOldRun
    <3> QED BY <3>1, FS_Subset
  <2> QED BY <1>2, <2>1 DEF DeleteOldRun
<1>3. ASSUME NEW p \in Processes, PruningEnds(p) PROVE FolderTyping'
  BY <1>3 DEF PruningEnds
<1>4. ASSUME NEW p \in Processes, TakeName(p) PROVE FolderTyping'
  BY <1>4 DEF TakeName, NextPaths
<1>5. ASSUME NEW p \in Processes, OpenLog(p) PROVE FolderTyping'
  <2>1. IsFiniteSet(files')
    BY <1>5, FS_AddElement DEF OpenLog
  <2> QED BY <1>5, <2>1 DEF OpenLog
<1>6. ASSUME NEW p \in Processes, Exit(p) PROVE FolderTyping'
  BY <1>6 DEF Exit
<1>7. CASE NextDay
  BY <1>7 DEF NextDay
<1>8. CASE UNCHANGED vars
  BY <1>8 DEF vars
<1> QED BY <1>1, <1>2, <1>3, <1>4, <1>5, <1>6, <1>7, <1>8 DEF Next

LEMMA ProcessSets ==
  ASSUME NEW S \in SUBSET Processes
  PROVE  IsFiniteSet(S) /\ Cardinality(S) \in Nat /\ Cardinality(S) <= Cardinality(Processes)
BY LogRunsAssumption, FS_Subset, FS_CardinalityType

\* What is left of a finite set is no larger.
LEMMA FewerRuns ==
  ASSUME NEW S, NEW T, IsFiniteSet(S), T \subseteq S
  PROVE  IsFiniteSet(T) /\ Cardinality(T) \in Nat /\ Cardinality(S) \in Nat
         /\ Cardinality(T) <= Cardinality(S)
BY FS_Subset, FS_CardinalityType

\* A set that got no larger keeps within its allowance.
LEMMA StaysWithin ==
  ASSUME NEW a \in Nat, NEW b \in Nat, NEW c \in Nat, a <= b, b <= LogRunsKept - 1 + c
  PROVE  a <= LogRunsKept - 1 + c
BY LogRunsAssumption

\* One element more.
LEMMA OneMore ==
  ASSUME NEW S, IsFiniteSet(S), NEW x
  PROVE  /\ IsFiniteSet(S \cup {x})
         /\ Cardinality(S) \in Nat /\ Cardinality(S \cup {x}) \in Nat
         /\ Cardinality(S \cup {x}) <= Cardinality(S) + 1
         /\ x \notin S => Cardinality(S \cup {x}) = Cardinality(S) + 1
<1>1. IsFiniteSet(S \cup {x}) /\ Cardinality(S) \in Nat /\ Cardinality(S \cup {x}) \in Nat
  BY FS_AddElement, FS_CardinalityType
<1>2. CASE x \in S
  <2>1. S \cup {x} = S
    BY <1>2
  <2>2. Cardinality(S \cup {x}) = Cardinality(S)
    BY <2>1
  <2> QED BY ONLY <1>1, <1>2, <2>2
<1>3. CASE x \notin S
  <2>1. Cardinality(S \cup {x}) = Cardinality(S) + 1
    BY <1>3, FS_AddElement
  <2> QED BY <1>1, <1>3, <2>1
<1> QED BY <1>2, <1>3

LEMMA FolderInvInit == Init => FolderInv
<1> SUFFICES ASSUME Init PROVE FolderInv
  OBVIOUS
<1>1. Accounted({}, {}, [p \in Processes |-> {}])
  BY FS_EmptySet, LogRunsAssumption DEF Init, Accounted
<1> QED BY <1>1 DEF FolderInv

\* A process lists the folder: its listing is the newest, and nobody has added a run
\* since.
LEMMA ListStep ==
  ASSUME FolderTyping, FolderInv, NEW p \in Processes, ListOldRuns(p)
  PROVE  FolderInv'
<1>1. PICK opened \in SUBSET Processes, fresh \in SUBSET Listing,
           since \in [Processes -> SUBSET Processes] : Accounted(opened, fresh, since)
  BY DEF FolderInv
<1> DEFINE later == [since EXCEPT ![p] = {}]
<1>2. /\ files' = files /\ Listing' = Listing \cup {p} /\ Adding' = Adding /\ p \notin Listing
      /\ doomed'[p] = OldRuns(files) /\ \A q \in Processes \ {p} : doomed'[q] = doomed[q]
  BY DEF ListOldRuns, FolderTyping, Listing, Adding
<1>3. Cardinality(files \ OldRuns(files)) <= LogRunsKept - 1
  BY KeptRuns DEF FolderTyping
<1>4. later[p] = {} /\ \A q \in fresh : later[q] = since[q] /\ q # p /\ q \in Processes
  BY <1>2 DEF Listing
<1>5. Cardinality(files' \ doomed'[p]) <= LogRunsKept - 1 + Cardinality(later[p])
  BY <1>2, <1>3, <1>4, FS_EmptySet, LogRunsAssumption
<1>6. later \in [Processes -> SUBSET Processes]
  OBVIOUS
<1> HIDE DEF later
<1>7. Accounted(opened, fresh \cup {p}, later)'
  BY <1>1, <1>2, <1>4, <1>5 DEF Accounted
<1> QED BY <1>2, <1>6, <1>7 DEF FolderInv

\* A process deletes a run from its list: what its listing leaves does not change, and
\* nothing grows.
LEMMA DeleteStep ==
  ASSUME FolderTyping, FolderInv, NEW p \in Processes, DeleteOldRun(p)
  PROVE  FolderInv'
<1>1. PICK opened \in SUBSET Processes, fresh \in SUBSET Listing,
           since \in [Processes -> SUBSET Processes] : Accounted(opened, fresh, since)
  BY DEF FolderInv
<1>2. PICK r \in doomed[p] : files' = files \ {r} /\ doomed' = [doomed EXCEPT ![p] = @ \ {r}]
  BY DEF DeleteOldRun
<1>3. pc' = pc /\ Listing' = Listing /\ Adding' = Adding
  BY DEF DeleteOldRun, Listing, Adding
<1>4. ASSUME NEW q \in Processes
      PROVE  /\ Cardinality(files' \ doomed'[q]) <= Cardinality(files \ doomed[q])
             /\ Cardinality(files' \ doomed'[q]) \in Nat
             /\ Cardinality(files \ doomed[q]) \in Nat
  <2>1. files' \ doomed'[q] \subseteq files \ doomed[q]
    BY <1>2 DEF FolderTyping
  <2>2. IsFiniteSet(files \ doomed[q])
    BY FS_Difference DEF FolderTyping
  <2> QED BY <2>1, <2>2, FewerRuns
<1>5. Cardinality(files') <= LogRunsKept - 1 + Cardinality(opened)
  <2>1. /\ Cardinality(files') <= Cardinality(files)
        /\ Cardinality(files') \in Nat /\ Cardinality(files) \in Nat
    BY <1>2, FewerRuns DEF FolderTyping
  <2>2. Cardinality(opened) \in Nat
    BY ProcessSets
  <2>3. Cardinality(files) <= LogRunsKept - 1 + Cardinality(opened)
    BY <1>1 DEF Accounted
  <2> QED BY <2>1, <2>2, <2>3, StaysWithin
<1>6. ASSUME NEW q \in fresh
      PROVE  Cardinality(files' \ doomed'[q]) <= LogRunsKept - 1 + Cardinality(since[q])
  <2>1. Cardinality(files \ doomed[q]) <= LogRunsKept - 1 + Cardinality(since[q])
    BY <1>1 DEF Accounted
  <2>2. q \in Processes /\ Cardinality(since[q]) \in Nat
    BY ProcessSets DEF Listing
  <2> QED BY <1>4, <2>1, <2>2, StaysWithin
<1>7. Accounted(opened, fresh, since)'
  BY <1>1, <1>3, <1>5, <1>6, Zenon DEF Accounted
<1> QED BY <1>3, <1>7 DEF FolderInv

\* A process ends, at any stage of its start: its listing no longer counts.
LEMMA ExitStep ==
  ASSUME FolderTyping, FolderInv, NEW p \in Processes, Exit(p)
  PROVE  FolderInv'
<1>1. PICK opened \in SUBSET Processes, fresh \in SUBSET Listing,
           since \in [Processes -> SUBSET Processes] : Accounted(opened, fresh, since)
  BY DEF FolderInv
<1>2. /\ files' = files /\ Listing' = Listing \ {p} /\ Adding' = Adding \ {p}
      /\ \A q \in Processes \ {p} : doomed'[q] = doomed[q]
  BY DEF Exit, FolderTyping, Listing, Adding
<1> DEFINE still == fresh \ {p}
<1>3. ASSUME NEW q \in still
      PROVE  /\ Cardinality(files' \ doomed'[q]) <= LogRunsKept - 1 + Cardinality(since[q])
             /\ q \notin since[q]
             /\ since[q] \cap Adding' = {}
             /\ since[q] \cap Listing' \subseteq still
             /\ \A r \in since[q] \cap still : since[r] \subseteq since[q]
  <2>1. q \in fresh /\ q # p /\ q \in Processes
    BY DEF Listing
  <2>2. /\ Cardinality(files \ doomed[q]) <= LogRunsKept - 1 + Cardinality(since[q])
        /\ q \notin since[q] /\ since[q] \cap Adding = {}
        /\ since[q] \cap Listing \subseteq fresh
        /\ \A r \in since[q] \cap fresh : since[r] \subseteq since[q]
    BY <1>1, <2>1, Zenon DEF Accounted
  <2>3. doomed'[q] = doomed[q]
    BY <1>2, <2>1
  <2>4. Cardinality(files' \ doomed'[q]) <= LogRunsKept - 1 + Cardinality(since[q])
    BY <1>2, <2>2, <2>3
  <2> QED BY <1>2, <2>2, <2>4
<1>4. /\ Cardinality(files') <= LogRunsKept - 1 + Cardinality(opened)
      /\ opened \cap Adding' = {} /\ opened \cap Listing' \subseteq still
  BY <1>1, <1>2 DEF Accounted
<1>5. Accounted(opened, still, since)'
  BY <1>3, <1>4, Zenon DEF Accounted
<1> QED BY <1>2, <1>5 DEF FolderInv

\* A process has deleted what it has listed.  If its listing is the newest that is
\* followed by its deletion, the account starts from there; else somebody else's still holds.
LEMMA PrunedStep ==
  ASSUME FolderTyping, FolderInv, NEW p \in Processes, PruningEnds(p)
  PROVE  FolderInv'
<1>1. PICK opened \in SUBSET Processes, fresh \in SUBSET Listing,
           since \in [Processes -> SUBSET Processes] : Accounted(opened, fresh, since)
  BY DEF FolderInv
<1>2. /\ files' = files \ doomed[p] /\ Listing' = Listing \ {p} /\ Adding' = Adding \cup {p}
      /\ p \in Listing /\ \A q \in Processes \ {p} : doomed'[q] = doomed[q]
  BY DEF PruningEnds, FolderTyping, Listing, Adding
<1>3. \A q \in Processes \ {p} : Cardinality(files' \ doomed'[q]) <= Cardinality(files \ doomed[q])
                                 /\ Cardinality(files' \ doomed'[q]) \in Nat
                                 /\ Cardinality(files \ doomed[q]) \in Nat
  <2> TAKE q \in Processes \ {p}
  <2>1. files' \ doomed'[q] \subseteq files \ doomed[q]
    BY <1>2
  <2>2. IsFiniteSet(files \ doomed[q])
    BY FS_Difference DEF FolderTyping
  <2> QED BY <2>1, <2>2, FewerRuns
<1>4. CASE p \in fresh
  <2> DEFINE still == {q \in fresh \ {p} : p \notin since[q]}
  <2>1. Cardinality(files') <= LogRunsKept - 1 + Cardinality(since[p])
    BY <1>1, <1>2, <1>4 DEF Accounted
  <2>2. since[p] \cap Adding' = {} /\ since[p] \cap Listing' \subseteq still
    <3>1. /\ p \notin since[p] /\ since[p] \cap Adding = {}
          /\ since[p] \cap Listing \subseteq fresh
          /\ \A q \in since[p] \cap fresh : since[q] \subseteq since[p]
      BY <1>1, <1>4, Zenon DEF Accounted
    <3>2. since[p] \cap Adding' = {}
      BY <1>2, <3>1
    <3>3. ASSUME NEW q \in since[p] \cap Listing' PROVE q \in still
      BY <1>2, <3>1, <3>3
    <3> QED BY <3>2, <3>3
  <2>3. ASSUME NEW q \in still
        PROVE  /\ Cardinality(files' \ doomed'[q]) <= LogRunsKept - 1 + Cardinality(since[q])
               /\ q \notin since[q]
               /\ since[q] \cap Adding' = {}
               /\ since[q] \cap Listing' \subseteq still
               /\ \A r \in since[q] \cap still : since[r] \subseteq since[q]
    <3>1. q \in fresh /\ q # p /\ p \notin since[q] /\ q \in Processes
      BY DEF Listing
    <3>2. Cardinality(files \ doomed[q]) <= LogRunsKept - 1 + Cardinality(since[q])
      BY <1>1, <3>1 DEF Accounted
    <3>3. Cardinality(since[q]) \in Nat
      BY <3>1, ProcessSets
    <3>4. Cardinality(files' \ doomed'[q]) <= LogRunsKept - 1 + Cardinality(since[q])
      BY <1>3, <3>1, <3>2, <3>3, StaysWithin
    <3>5. since[q] \cap Listing' \subseteq still
      BY <1>1, <1>2, <3>1 DEF Accounted
    <3>6. /\ q \notin since[q] /\ since[q] \cap Adding = {}
          /\ \A r \in since[q] \cap fresh : since[r] \subseteq since[q]
      BY <1>1, <3>1, Zenon DEF Accounted
    <3>7. since[q] \cap Adding' = {} /\ \A r \in since[q] \cap still : since[r] \subseteq since[q]
      BY <1>2, <3>1, <3>6
    <3> HIDE DEF still
    <3> QED BY ONLY <3>4, <3>5, <3>6, <3>7
  <2>4. Accounted(since[p], still, since)'
    BY <2>1, <2>2, <2>3 DEF Accounted
  <2>5. still \in SUBSET Listing' /\ since[p] \in SUBSET Processes
    BY <1>2
  <2> QED BY <2>4, <2>5 DEF FolderInv
<1>5. CASE p \notin fresh
  <2>1. p \notin opened /\ \A q \in fresh : p \notin since[q] /\ q # p /\ q \in Processes
    BY <1>1, <1>2, <1>5 DEF Accounted, Listing
  <2>2. Cardinality(files') <= LogRunsKept - 1 + Cardinality(opened)
    <3>1. /\ Cardinality(files') <= Cardinality(files)
          /\ Cardinality(files') \in Nat /\ Cardinality(files) \in Nat
      BY <1>2, FewerRuns DEF FolderTyping
    <3>2. Cardinality(opened) \in Nat
      BY ProcessSets
    <3>3. Cardinality(files) <= LogRunsKept - 1 + Cardinality(opened)
      BY <1>1 DEF Accounted
    <3> QED BY <3>1, <3>2, <3>3, StaysWithin
  <2>3. ASSUME NEW q \in fresh
        PROVE  Cardinality(files' \ doomed'[q]) <= LogRunsKept - 1 + Cardinality(since[q])
    <3>1. Cardinality(files \ doomed[q]) <= LogRunsKept - 1 + Cardinality(since[q])
      BY <1>1 DEF Accounted
    <3>2. Cardinality(since[q]) \in Nat
      BY <2>1, ProcessSets
    <3> QED BY <1>3, <2>1, <3>1, <3>2, StaysWithin
  <2>4. opened \cap Adding' = {} /\ opened \cap Listing' \subseteq fresh
    BY <1>1, <1>2, <2>1 DEF Accounted
  <2>5. ASSUME NEW q \in fresh
        PROVE  /\ q \notin since[q]
               /\ since[q] \cap Adding' = {}
               /\ since[q] \cap Listing' \subseteq fresh
               /\ \A r \in since[q] \cap fresh : since[r] \subseteq since[q]
    <3>1. /\ q \notin since[q] /\ since[q] \cap Adding = {}
          /\ since[q] \cap Listing \subseteq fresh
          /\ \A r \in since[q] \cap fresh : since[r] \subseteq since[q]
      BY <1>1, Zenon DEF Accounted
    <3> QED BY <1>2, <2>1, <3>1
  <2>6. Accounted(opened, fresh, since)'
    BY <2>2, <2>3, <2>4, <2>5, Zenon DEF Accounted
  <2>7. fresh \in SUBSET Listing'
    BY <1>2, <1>5
  <2> QED BY <2>6, <2>7 DEF FolderInv
<1> QED BY <1>4, <1>5

\* A process opens its log: it has not added another since any listing that counts.
LEMMA OpenStep ==
  ASSUME FolderTyping, FolderInv, NEW p \in Processes, OpenLog(p)
  PROVE  FolderInv'
<1>1. PICK opened \in SUBSET Processes, fresh \in SUBSET Listing,
           since \in [Processes -> SUBSET Processes] : Accounted(opened, fresh, since)
  BY DEF FolderInv
<1> DEFINE later == [q \in Processes |-> since[q] \cup {p}]
<1>2. /\ files' = files \cup {path[p]} /\ Listing' = Listing /\ Adding' = Adding \ {p}
      /\ p \in Adding /\ p \notin Listing /\ doomed' = doomed
  BY DEF OpenLog, FolderTyping, Listing, Adding
<1>3. ASSUME NEW S, NEW T \in SUBSET Processes, IsFiniteSet(S), p \notin T,
             Cardinality(S) <= LogRunsKept - 1 + Cardinality(T)
      PROVE  Cardinality(S \cup {path[p]}) <= LogRunsKept - 1 + Cardinality(T \cup {p})
  <2> DEFINE a == Cardinality(S)
             b == Cardinality(T)
             c == Cardinality(S \cup {path[p]})
             d == Cardinality(T \cup {p})
  <2>1. b \in Nat /\ d = b + 1
    BY <1>3, ProcessSets, OneMore
  <2>2. a \in Nat /\ c \in Nat /\ c <= a + 1
    BY <1>3, OneMore
  <2>3. a <= LogRunsKept - 1 + b
    BY <1>3
  <2> HIDE DEF a, b, c, d
  <2>4. c <= LogRunsKept - 1 + d
    BY <2>1, <2>2, <2>3, LogRunsAssumption
  <2> QED BY <2>4 DEF c, d
<1>4. Cardinality(files') <= LogRunsKept - 1 + Cardinality(opened \cup {p})
  BY <1>1, <1>2, <1>3 DEF Accounted, FolderTyping
<1>5. \A q \in fresh : /\ q \in Processes /\ q # p /\ p \notin since[q]
                       /\ later[q] = since[q] \cup {p}
  BY <1>1, <1>2 DEF Accounted, Listing
<1>6. ASSUME NEW q \in fresh
      PROVE  Cardinality(files' \ doomed[q]) <= LogRunsKept - 1 + Cardinality(later[q])
  <2>1. IsFiniteSet(files \ doomed[q])
    BY FS_Difference DEF FolderTyping
  <2>2. /\ since[q] \in SUBSET Processes /\ p \notin since[q]
        /\ Cardinality(files \ doomed[q]) <= LogRunsKept - 1 + Cardinality(since[q])
    BY <1>1, <1>5 DEF Accounted
  <2>3. Cardinality((files \ doomed[q]) \cup {path[p]})
          <= LogRunsKept - 1 + Cardinality(since[q] \cup {p})
    BY <1>3, <2>1, <2>2
  <2>4. files' \ doomed[q] \subseteq (files \ doomed[q]) \cup {path[p]}
    BY <1>2
  <2>5. IsFiniteSet((files \ doomed[q]) \cup {path[p]})
    BY <2>1, FS_AddElement
  <2>6. Cardinality(since[q] \cup {p}) \in Nat
    BY <1>5, ProcessSets
  <2> DEFINE most == Cardinality((files \ doomed[q]) \cup {path[p]})
  <2>7. Cardinality(files' \ doomed[q]) <= most /\ Cardinality(files' \ doomed[q]) \in Nat
        /\ most \in Nat
    BY <2>4, <2>5, FewerRuns
  <2> HIDE DEF most
  <2>8. most <= LogRunsKept - 1 + Cardinality(since[q] \cup {p})
    BY <2>3 DEF most
  <2>9. Cardinality(files' \ doomed[q]) <= LogRunsKept - 1 + Cardinality(since[q] \cup {p})
    BY <2>6, <2>7, <2>8, StaysWithin
  <2> QED BY <1>5, <2>9
<1>7. later \in [Processes -> SUBSET Processes]
  OBVIOUS
<1> HIDE DEF later
<1>8. (opened \cup {p}) \cap Adding' = {} /\ (opened \cup {p}) \cap Listing' \subseteq fresh
  BY <1>1, <1>2 DEF Accounted
<1>9. ASSUME NEW q \in fresh
       PROVE  /\ q \notin later[q]
              /\ later[q] \cap Adding' = {}
              /\ later[q] \cap Listing' \subseteq fresh
              /\ \A r \in later[q] \cap fresh : later[r] \subseteq later[q]
  <2>1. /\ q \notin since[q] /\ since[q] \cap Adding = {}
        /\ since[q] \cap Listing \subseteq fresh
        /\ \A r \in since[q] \cap fresh : since[r] \subseteq since[q]
    BY <1>1, Zenon DEF Accounted
  <2>2. p \notin fresh
    BY <1>2
  <2> QED BY <1>2, <1>5, <2>1, <2>2
<1>10. \A q \in fresh :
         Cardinality(files' \ doomed'[q]) <= LogRunsKept - 1 + Cardinality(later[q])
  BY <1>2, <1>6
<1>11. Accounted(opened \cup {p}, fresh, later)'
  BY <1>4, <1>8, <1>9, <1>10, Zenon DEF Accounted
<1> QED BY <1>2, <1>7, <1>11 DEF FolderInv

LEMMA FolderInvNext == FolderTyping /\ FolderInv /\ [Next]_vars => FolderInv'
<1> SUFFICES ASSUME FolderTyping, FolderInv, [Next]_vars PROVE FolderInv'
  OBVIOUS
\* Steps that the account does not see.
<1>1. ASSUME files' = files, doomed' = doomed, Listing' = Listing, Adding' = Adding
      PROVE  FolderInv'
  <2>1. PICK opened \in SUBSET Processes, fresh \in SUBSET Listing,
             since \in [Processes -> SUBSET Processes] : Accounted(opened, fresh, since)
    BY DEF FolderInv
  <2>2. Accounted(opened, fresh, since)'
    BY <1>1, <2>1, Zenon DEF Accounted
  <2> QED BY <1>1, <2>2 DEF FolderInv
<1>2. ASSUME NEW p \in Processes, ListOldRuns(p) PROVE FolderInv'
  BY <1>2, ListStep
<1>3. ASSUME NEW p \in Processes, DeleteOldRun(p) PROVE FolderInv'
  BY <1>3, DeleteStep
<1>4. ASSUME NEW p \in Processes, PruningEnds(p) PROVE FolderInv'
  BY <1>4, PrunedStep
<1>5. ASSUME NEW p \in Processes, TakeName(p) PROVE FolderInv'
  BY <1>1, <1>5 DEF TakeName, FolderTyping, Listing, Adding
<1>6. ASSUME NEW p \in Processes, OpenLog(p) PROVE FolderInv'
  BY <1>6, OpenStep
<1>7. ASSUME NEW p \in Processes, Exit(p) PROVE FolderInv'
  BY <1>7, ExitStep
<1>8. CASE NextDay
  BY <1>1, <1>8 DEF NextDay, Listing, Adding
<1>9. CASE UNCHANGED vars
  BY <1>1, <1>9 DEF vars, Listing, Adding
<1> QED BY <1>2, <1>3, <1>4, <1>5, <1>6, <1>7, <1>8, <1>9 DEF Next

\* However many processes start at the same time and in whatever order their listings
\* and deletions fall (_prune_old_log_runs, logging_setup.py), the folder holds at most
\* LogRunsKept - 1 runs and one of each process.
THEOREM FolderStaysBounded == Spec => []FolderBounded
<1>1. FolderTyping /\ FolderInv => FolderBounded
  <2> SUFFICES ASSUME FolderTyping, FolderInv PROVE FolderBounded
    OBVIOUS
  <2>1. PICK opened \in SUBSET Processes :
          Cardinality(files) <= LogRunsKept - 1 + Cardinality(opened)
    BY DEF FolderInv, Accounted
  <2>2. /\ Cardinality(opened) <= Cardinality(Processes) /\ Cardinality(opened) \in Nat
        /\ Cardinality(Processes) \in Nat /\ Cardinality(files) \in Nat
    BY ProcessSets, FewerRuns, LogRunsAssumption, FS_CardinalityType DEF FolderTyping
  <2> QED BY <2>1, <2>2, LogRunsAssumption DEF FolderBounded
<1> QED BY <1>1, FolderTypingInit, FolderTypingNext, FolderInvInit, FolderInvNext, PTL
    DEF Spec

-----------------------------------------------------------------------------

\* Two days together do not use up the runs that are kept.
QuietDays == 2 * MaxStartsPerDay < LogRunsKept

\* The moment at which a day begins, in the history's count of starts.
Stamp(day) == (MaxStartsPerDay + 1) * day

HistoryTyping ==
  /\ today \in Nat
  /\ starts \in [Days -> 0 .. MaxStartsPerDay]
  /\ born \in [Names -> Nat]

\* A name is taken on its day.
TakenOnItsDay ==
  \A n \in Names : born[n] > 0 =>
    /\ n.day <= today
    /\ Stamp(n.day) < born[n] /\ born[n] <= Stamp(n.day) + starts[n.day]

\* Names are taken in their order, because today's names below a taken one are in the
\* folder.
TakenInOrder ==
  /\ \A m, n \in Names : born[m] > 0 /\ born[n] > 0 /\ Before(m, n) => born[m] < born[n]
  /\ \A m, n \in Names : born[m] > 0 /\ m.day = today /\ n.day = today /\ n.seq < m.seq
       => n \in files

\* A run in the folder has been named; a name that is still to be opened is not older
\* than yesterday.
RunsAreNamed ==
  /\ \A n \in files : born[n] > 0
  /\ \A p \in Processes : pc[p] = "named" =>
       born[path[p]] > 0 /\ path[p].day \in {today - 1, today}

\* What is about to be deleted is older than yesterday, and the front of the folder.
DoomedAreOldest ==
  \A p \in Processes : pc[p] = "listed" =>
    \A r \in doomed[p] : /\ r \in Names
                         /\ r.day < today - 1
                         /\ \A k \in files \ doomed[p] : Before(r, k)

HistoryInv ==
  HistoryTyping /\ TakenOnItsDay /\ TakenInOrder /\ RunsAreNamed /\ DoomedAreOldest

NameFields == \A n \in Names : n.day \in Days /\ n.day \in Nat /\ n.seq \in Nat

LEMMA NamesHaveFields == NameFields
BY LogRunsAssumption DEF NameFields, Names, Days

\* A day's starts fit before the next day.
LEMMA StampsApart ==
  ASSUME NEW a \in Nat, NEW b \in Nat, a < b
  PROVE  Stamp(a) \in Nat /\ Stamp(b) \in Nat /\ Stamp(a) + MaxStartsPerDay < Stamp(b)
<1> DEFINE width == MaxStartsPerDay + 1
<1>1. width \in Nat /\ b - a - 1 \in Nat
  BY LogRunsAssumption
<1>2. width * (b - a - 1) \in Nat /\ width * a \in Nat
  BY <1>1
<1>3. width * b = width * a + width + width * (b - a - 1)
  BY <1>1
<1> QED BY <1>1, <1>2, <1>3, LogRunsAssumption DEF Stamp

\* Two days have so many names at most.
LEMMA NamesOfTwoDays ==
  ASSUME NEW a \in Nat, NEW S \in SUBSET {n \in Names : n.day \in {a, a + 1}}
  PROVE  IsFiniteSet(S) /\ Cardinality(S) <= 2 * MaxStartsPerDay
<1> DEFINE numbers == 1 .. (2 * MaxStartsPerDay)
           place == [n \in S |-> IF n.day = a THEN n.seq ELSE MaxStartsPerDay + n.seq]
<1>1. IsFiniteSet(numbers) /\ Cardinality(numbers) = 2 * MaxStartsPerDay
  <2>1. 2 * MaxStartsPerDay \in Nat
    BY LogRunsAssumption
  <2> QED BY <2>1, FS_Interval
<1>2. \A n \in S : n.seq \in 1 .. MaxStartsPerDay /\ n.day \in {a, a + 1}
                   /\ n = [day |-> n.day, seq |-> n.seq]
  BY DEF Names
<1>3. place \in [S -> numbers]
  BY <1>2, LogRunsAssumption
<1>4. ASSUME NEW m \in S, NEW n \in S, place[m] = place[n] PROVE m = n
  <2>1. m.seq = n.seq /\ m.day = n.day
    BY <1>2, <1>4, LogRunsAssumption
  <2> QED BY <1>2, <2>1
<1>5. place \in Injection(S, numbers)
  <2> HIDE DEF place, numbers
  <2> QED BY <1>3, <1>4 DEF Injection, IsInjective
<1> HIDE DEF place, numbers
<1> QED BY <1>1, <1>5, FS_Injection

\* On quiet days a listing dooms no run of today or yesterday, and dooms the oldest.
LEMMA OldRunsAreOldest ==
  ASSUME QuietDays, FolderTyping, HistoryInv, NEW r \in OldRuns(files)
  PROVE  /\ r \in Names /\ r.day < today - 1
         /\ \A k \in files \ OldRuns(files) : Before(r, k)
<1> DEFINE newer(q) == {n \in files : Before(q, n)}
<1>1. r \in files /\ r \in Names /\ files \subseteq Names
  BY DEF OldRuns, FolderTyping
<1>2. IsFiniteSet(files)
  BY DEF FolderTyping
<1>3. \A q \in files : IsFiniteSet(newer(q)) /\ Cardinality(newer(q)) \in Nat
  BY <1>2, FewerRuns
<1>4. Cardinality(newer(r)) >= LogRunsKept - 1
  BY DEF OldRuns
<1>5. r.day < today - 1
  <2> SUFFICES ASSUME ~(r.day < today - 1) PROVE FALSE
    OBVIOUS
  <2>1. today \in Nat /\ r.day \in Nat /\ \A n \in files : n.day \in Nat /\ n.day <= today
    BY <1>1, NamesHaveFields DEF NameFields, HistoryInv, HistoryTyping, RunsAreNamed, TakenOnItsDay
  <2>2. \A n \in newer(r) : r.day <= n.day
    BY <1>1, <2>1 DEF Before
  <2>3. PICK a \in Nat : \A n \in newer(r) \cup {r} : n.day \in {a, a + 1}
    <3>1. CASE today = 0
      BY <1>1, <2>1, <2>2, <3>1
    <3>2. CASE today # 0
      <4>1. today - 1 \in Nat /\ \A n \in newer(r) \cup {r} : n.day \in {today - 1, (today - 1) + 1}
        BY <1>1, <2>1, <2>2, <3>2
      <4> HIDE DEF newer
      <4> QED BY <4>1
    <3> QED BY <3>1, <3>2
  <2>4. newer(r) \cup {r} \in SUBSET {n \in Names : n.day \in {a, a + 1}}
    BY <1>1, <2>3
  <2>5. r \notin newer(r)
    BY <1>1, NamesOrdered
  <2> HIDE DEF newer
  <2>6. Cardinality(newer(r) \cup {r}) <= 2 * MaxStartsPerDay
    BY <2>4, NamesOfTwoDays
  <2>7. Cardinality(newer(r) \cup {r}) = Cardinality(newer(r)) + 1
    BY <1>1, <1>3, <2>5, FS_AddElement
  <2> QED BY <1>1, <1>3, <1>4, <2>6, <2>7, LogRunsAssumption DEF QuietDays
<1>6. ASSUME NEW k \in files \ OldRuns(files) PROVE Before(r, k)
  <2> SUFFICES ASSUME ~Before(r, k) PROVE FALSE
    OBVIOUS
  <2>1. Before(k, r)
    <3>1. k # r
      OBVIOUS
    <3> QED BY <1>1, <3>1, NamesOrdered
  <2>2. newer(r) \subseteq newer(k)
    BY <1>1, <2>1, NamesOrdered
  <2>3. Cardinality(newer(r)) <= Cardinality(newer(k))
    <3> HIDE DEF newer
    <3> QED BY <1>3, <2>2, FewerRuns
  <2>4. ~(Cardinality(newer(k)) >= LogRunsKept - 1)
    BY DEF OldRuns
  <2> HIDE DEF newer
  <2> QED BY <1>1, <1>3, <1>4, <2>3, <2>4, LogRunsAssumption
<1> QED BY <1>1, <1>5, <1>6

LEMMA HistoryInvInit == Init => HistoryInv
<1> SUFFICES ASSUME Init PROVE HistoryInv
  OBVIOUS
<1>1. HistoryTyping
  BY LogRunsAssumption DEF Init, HistoryTyping
<1> QED BY <1>1 DEF Init, HistoryInv, TakenOnItsDay, TakenInOrder, RunsAreNamed, DoomedAreOldest

\* A process takes a name: no later name of today is taken, or this one were in the
\* folder.
LEMMA TakeKeepsHistory ==
  ASSUME FolderTyping, HistoryInv, NEW p \in Processes, TakeName(p)
  PROVE  HistoryInv'
<1> DEFINE s == starts[today] + 1
<1>1. PICK n \in NextPaths(files) :
        /\ path' = [path EXCEPT ![p] = n]
        /\ born' = [born EXCEPT ![n] = (MaxStartsPerDay + 1) * today + starts'[today]]
  BY DEF TakeName
<1>2. /\ n \in Names /\ n \notin files /\ n.day = today /\ today \in Days /\ today \in Nat
      /\ \A m \in Names \ files : m.day = today => n.seq <= m.seq
  BY <1>1, NamesHaveFields DEF NextPaths, NameFields
<1>3. /\ starts' = [starts EXCEPT ![today] = s] /\ today' = today /\ files' = files
      /\ doomed' = doomed /\ pc' = [pc EXCEPT ![p] = "named"] /\ pc[p] = "pruned"
      /\ s \in 1 .. MaxStartsPerDay /\ starts \in [Days -> 0 .. MaxStartsPerDay]
  BY <1>2, LogRunsAssumption DEF TakeName, HistoryInv, HistoryTyping
<1>4. Stamp(today) \in Nat
  BY <1>2, LogRunsAssumption DEF Stamp
<1>5. /\ born \in [Names -> Nat] /\ born' = [born EXCEPT ![n] = Stamp(today) + s]
      /\ starts'[today] = s
  BY <1>1, <1>2, <1>3 DEF Stamp, HistoryInv, HistoryTyping
<1> HIDE DEF s
<1>6. born'[n] = Stamp(today) + s /\ born'[n] > 0 /\ \A m \in Names \ {n} : born'[m] = born[m]
  BY <1>2, <1>3, <1>4, <1>5, LogRunsAssumption
<1>7. HistoryTyping'
  BY <1>2, <1>3, <1>4, <1>5, LogRunsAssumption DEF HistoryInv, HistoryTyping
<1>8. ASSUME NEW m \in Names, m # n, born[m] > 0
      PROVE  /\ m.day < today \/ (m.day = today /\ m.seq < n.seq)
             /\ born[m] < born'[n]
  <2>1. /\ m.day \in Nat /\ m.day \in Days /\ m.seq \in Nat /\ n.seq \in Nat /\ m.day <= today
        /\ Stamp(m.day) < born[m] /\ born[m] <= Stamp(m.day) + starts[m.day]
        /\ born[m] \in Nat /\ starts[m.day] \in 0 .. MaxStartsPerDay
    BY <1>2, <1>3, <1>5, <1>8, NamesHaveFields DEF NameFields, HistoryInv, TakenOnItsDay
  <2>2. CASE m.day < today
    <3>1. Stamp(m.day) \in Nat /\ Stamp(m.day) + MaxStartsPerDay < Stamp(today)
      BY <1>2, <2>1, <2>2, StampsApart
    <3> QED BY <1>3, <1>4, <1>6, <2>1, <2>2, <3>1, LogRunsAssumption
  <2>3. CASE m.day = today
    <3>1. ~(n.seq < m.seq)
      BY <1>2, <1>8, <2>3 DEF HistoryInv, TakenInOrder
    <3>2. m.seq # n.seq
      BY <1>2, <1>8, <2>3 DEF Names
    <3>3. born[m] < Stamp(today) + s
      BY <1>3, <1>4, <2>1, <2>3 DEF s
    <3> QED BY <1>6, <2>1, <2>3, <3>1, <3>2, <3>3
  <2> QED BY <1>2, <2>1, <2>2, <2>3
<1>9. TakenOnItsDay'
  <2> SUFFICES ASSUME NEW m \in Names, born'[m] > 0
               PROVE  /\ m.day <= today
                      /\ Stamp(m.day) < born'[m] /\ born'[m] <= Stamp(m.day) + starts'[m.day]
    BY <1>3 DEF TakenOnItsDay, Stamp
  <2>1. CASE m = n
    BY <1>2, <1>3, <1>4, <1>5, <1>6, <2>1, LogRunsAssumption
  <2>2. CASE m # n
    <3>1. /\ m.day <= today /\ Stamp(m.day) < born[m] /\ born[m] <= Stamp(m.day) + starts[m.day]
          /\ born'[m] = born[m] /\ m.day \in Days /\ m.day \in Nat
      BY <1>6, <2>2, NamesHaveFields DEF NameFields, HistoryInv, TakenOnItsDay
    <3>2. starts'[m.day] \in Nat /\ starts[m.day] \in Nat /\ starts[m.day] <= starts'[m.day]
      BY <1>3, <3>1 DEF s
    <3>3. Stamp(m.day) \in Nat /\ born[m] \in Nat
      BY <1>5, <3>1, LogRunsAssumption DEF Stamp
    <3> QED BY <3>1, <3>2, <3>3
  <2> QED BY <2>1, <2>2
<1>10. TakenInOrder'
  <2>1. ASSUME NEW a \in Names, NEW b \in Names, born'[a] > 0, born'[b] > 0, Before(a, b)
        PROVE  born'[a] < born'[b]
    <3>1. a # b
      BY <2>1, NamesOrdered
    <3>2. CASE a = n
      <4>1. /\ b.day \in Nat /\ b.seq \in Nat /\ n.seq \in Nat
            /\ b.day < today \/ (b.day = today /\ b.seq < n.seq)
        BY <1>2, <1>6, <1>8, <2>1, <3>1, <3>2, NamesHaveFields DEF NameFields
      <4> QED BY <1>2, <2>1, <3>2, <4>1 DEF Before
    <3>3. CASE b = n
      BY <1>6, <1>8, <2>1, <3>1, <3>3
    <3>4. CASE a # n /\ b # n
      BY <1>6, <2>1, <3>4 DEF HistoryInv, TakenInOrder
    <3> QED BY <3>2, <3>3, <3>4
  <2>2. ASSUME NEW a \in Names, NEW b \in Names, born'[a] > 0, a.day = today, b.day = today,
               b.seq < a.seq
        PROVE  b \in files
    <3>1. CASE a = n
      <4>1. ~(n.seq <= b.seq)
        BY <1>2, <2>2, <3>1, NamesHaveFields DEF NameFields
      <4> QED BY <1>2, <2>2, <4>1
    <3>2. CASE a # n
      BY <1>6, <2>2, <3>2 DEF HistoryInv, TakenInOrder
    <3> QED BY <3>1, <3>2
  <2> QED BY <1>3, <2>1, <2>2 DEF TakenInOrder, Before
<1>11. RunsAreNamed'
  <2>1. ASSUME NEW m \in files PROVE born'[m] > 0
    BY <1>2, <1>6, FolderTyping DEF HistoryInv, RunsAreNamed, FolderTyping
  <2>2. ASSUME NEW q \in Processes, pc'[q] = "named"
        PROVE  born'[path'[q]] > 0 /\ path'[q].day \in {today - 1, today}
    <3>1. CASE q = p
      BY <1>1, <1>2, <1>6, <3>1 DEF FolderTyping
    <3>2. CASE q # p
      <4>1. pc[q] = "named" /\ path'[q] = path[q] /\ path[q] \in Names
        BY <1>1, <1>3, <2>2, <3>2 DEF FolderTyping
      <4> QED BY <1>6, <4>1 DEF HistoryInv, RunsAreNamed
    <3> QED BY <3>1, <3>2
  <2> QED BY <1>3, <2>1, <2>2 DEF RunsAreNamed
<1>12. DoomedAreOldest'
  BY <1>3 DEF HistoryInv, DoomedAreOldest, FolderTyping, Before
<1> QED BY <1>7, <1>9, <1>10, <1>11, <1>12 DEF HistoryInv

LEMMA HistoryInvNext ==
  ASSUME QuietDays
  PROVE  FolderTyping /\ HistoryInv /\ [Next]_vars => HistoryInv'
<1> SUFFICES ASSUME FolderTyping, HistoryInv, [Next]_vars PROVE HistoryInv'
  OBVIOUS
<1> USE DEF HistoryInv
<1>1. ASSUME NEW p \in Processes, ListOldRuns(p) PROVE HistoryInv'
  <2>1. HistoryTyping' /\ TakenOnItsDay' /\ TakenInOrder'
    BY <1>1 DEF ListOldRuns, HistoryTyping, TakenOnItsDay, TakenInOrder
  <2>2. RunsAreNamed'
    BY <1>1 DEF ListOldRuns, RunsAreNamed, FolderTyping
  <2>3. ASSUME NEW q \in Processes, pc'[q] = "listed", NEW r \in doomed'[q]
        PROVE  r \in Names /\ r.day < today - 1 /\ \A k \in files \ doomed'[q] : Before(r, k)
    <3>1. CASE q = p
      <4>1. doomed'[q] = OldRuns(files)
        BY <1>1, <3>1 DEF ListOldRuns, FolderTyping
      <4> QED BY <2>3, <4>1, OldRunsAreOldest
    <3>2. CASE q # p
      <4>1. pc[q] = "listed" /\ doomed'[q] = doomed[q]
        BY <1>1, <2>3, <3>2 DEF ListOldRuns, FolderTyping
      <4> QED BY <2>3, <4>1 DEF DoomedAreOldest
    <3> QED BY <3>1, <3>2
  <2>4. files' = files /\ today' = today
    BY <1>1 DEF ListOldRuns
  <2>5. DoomedAreOldest'
    BY <2>3, <2>4 DEF DoomedAreOldest, Before
  <2> QED BY <2>1, <2>2, <2>5
<1>2. ASSUME NEW p \in Processes, DeleteOldRun(p) PROVE HistoryInv'
  <2>1. HistoryTyping' /\ TakenOnItsDay'
    BY <1>2 DEF DeleteOldRun, HistoryTyping, TakenOnItsDay
  <2>2. PICK r \in doomed[p] : files' = files \ {r} /\ doomed' = [doomed EXCEPT ![p] = @ \ {r}]
    BY <1>2 DEF DeleteOldRun
  <2>3. pc[p] = "listed" /\ today' = today /\ born' = born /\ pc' = pc /\ path' = path
    BY <1>2 DEF DeleteOldRun
  <2>4. TakenInOrder'
    <3>1. today \in Nat /\ r.day < today - 1
      BY <2>3 DEF HistoryTyping, DoomedAreOldest
    <3>2. \A n \in Names : n.day = today => n # r
      BY <3>1
    <3> QED BY <2>2, <2>3, <3>2 DEF TakenInOrder
  <2>5. RunsAreNamed'
    BY <2>2, <2>3 DEF RunsAreNamed, FolderTyping
  <2>6. ASSUME NEW q \in Processes, pc[q] = "listed", NEW s \in doomed'[q]
        PROVE  s \in Names /\ s.day < today - 1 /\ \A k \in files' \ doomed'[q] : Before(s, k)
    <3>1. s \in doomed[q] /\ files' \ doomed'[q] \subseteq files \ doomed[q]
      BY <2>2, <2>6 DEF FolderTyping
    <3> QED BY <2>6, <3>1 DEF DoomedAreOldest
  <2>7. DoomedAreOldest'
    BY <2>3, <2>6 DEF DoomedAreOldest, Before
  <2> QED BY <2>1, <2>4, <2>5, <2>7
<1>3. ASSUME NEW p \in Processes, PruningEnds(p) PROVE HistoryInv'
  BY <1>3 DEF PruningEnds, HistoryTyping, TakenOnItsDay, TakenInOrder, RunsAreNamed,
              DoomedAreOldest, FolderTyping, Before
<1>4. ASSUME NEW p \in Processes, TakeName(p) PROVE HistoryInv'
  BY <1>4, TakeKeepsHistory
<1>5. ASSUME NEW p \in Processes, OpenLog(p) PROVE HistoryInv'
  <2>1. HistoryTyping' /\ TakenOnItsDay' /\ TakenInOrder'
    BY <1>5 DEF OpenLog, HistoryTyping, TakenOnItsDay, TakenInOrder
  <2>2. /\ files' = files \cup {path[p]} /\ pc[p] = "named" /\ today' = today /\ doomed' = doomed
        /\ path' = path /\ born' = born /\ pc' = [pc EXCEPT ![p] = "up"]
    BY <1>5 DEF OpenLog
  <2>3. RunsAreNamed'
    BY <2>2 DEF RunsAreNamed, FolderTyping
  <2>4. ASSUME NEW q \in Processes, pc'[q] = "listed", NEW r \in doomed[q]
        PROVE  r \in Names /\ r.day < today - 1 /\ \A k \in files' \ doomed[q] : Before(r, k)
    <3>1. /\ pc[q] = "listed" /\ r \in Names /\ r.day < today - 1
          /\ \A k \in files \ doomed[q] : Before(r, k)
      BY <2>2, <2>4 DEF DoomedAreOldest, FolderTyping
    <3>2. /\ path[p] \in Names /\ path[p].day \in {today - 1, today} /\ today \in Nat
          /\ r.day \in Nat
      BY <2>2, <3>1, NamesHaveFields DEF NameFields, RunsAreNamed, FolderTyping, HistoryTyping
    <3>3. Before(r, path[p])
      BY <3>1, <3>2 DEF Before
    <3> QED BY <2>2, <3>1, <3>3
  <2>5. DoomedAreOldest'
    BY <2>2, <2>4 DEF DoomedAreOldest, Before
  <2> QED BY <2>1, <2>3, <2>5
<1>6. ASSUME NEW p \in Processes, Exit(p) PROVE HistoryInv'
  BY <1>6 DEF Exit, HistoryTyping, TakenOnItsDay, TakenInOrder, RunsAreNamed, DoomedAreOldest,
              FolderTyping, Before
<1>7. CASE NextDay
  <2>1. /\ today' = today + 1 /\ files' = files /\ pc' = pc /\ doomed' = doomed /\ path' = path
        /\ starts' = starts /\ born' = born /\ today \in Nat
        /\ \A p \in Processes : pc[p] = "named" => path[p].day = today
    BY <1>7 DEF NextDay, HistoryTyping
  <2>2. HistoryTyping'
    BY <2>1 DEF HistoryTyping
  <2>3. TakenOnItsDay' /\ RunsAreNamed'
    BY <2>1, NamesHaveFields DEF NameFields, TakenOnItsDay, RunsAreNamed, Stamp
  <2>4. TakenInOrder'
    <3>1. \A m \in Names : born[m] > 0 => m.day # today + 1
      BY <2>1, NamesHaveFields DEF NameFields, TakenOnItsDay
    <3> QED BY <2>1, <3>1 DEF TakenInOrder, Before
  <2>5. DoomedAreOldest'
    <3>1. \A r \in Names : r.day < today - 1 => r.day < (today + 1) - 1
      BY <2>1, NamesHaveFields DEF NameFields
    <3> QED BY <2>1, <3>1 DEF DoomedAreOldest, Before
  <2> QED BY <2>2, <2>3, <2>4, <2>5
<1>8. CASE UNCHANGED vars
  BY <1>8 DEF vars, HistoryTyping, TakenOnItsDay, TakenInOrder, RunsAreNamed, DoomedAreOldest,
              Before, Stamp
<1> QED BY <1>1, <1>2, <1>3, <1>4, <1>5, <1>6, <1>7, <1>8 DEF Next

\* As long as the starts of two days are fewer than the runs kept, pruning
\* (_prune_old_log_runs, logging_setup.py) deletes a run only when all runs it leaves
\* were started later, whatever listings and deletions of other processes, and a
\* midnight, fall in between.
THEOREM QuietDaysKeepTheNewest ==
  ASSUME QuietDays
  PROVE  Spec => NewestStay
<1>1. FolderTyping /\ HistoryInv /\ [Next]_vars
        => [\A r \in files \ files', k \in files' : born[r] < born[k]]_vars
  <2> SUFFICES ASSUME FolderTyping, HistoryInv, Next, NEW r \in files \ files', NEW k \in files'
               PROVE  born[r] < born[k]
    BY DEF vars
  <2>1. PICK p \in Processes : DeleteOldRun(p)
    BY DEF Next, ListOldRuns, PruningEnds, TakeName, OpenLog, Exit, NextDay
  <2>2. PICK s \in doomed[p] : files' = files \ {s} /\ \A q \in doomed[p] \ {s} : Before(s, q)
    BY <2>1 DEF DeleteOldRun
  <2>3. pc[p] = "listed" /\ r = s /\ k \in files \ {s}
    BY <2>1, <2>2 DEF DeleteOldRun
  <2>4. Before(r, k)
    BY <2>2, <2>3 DEF HistoryInv, DoomedAreOldest
  <2> QED BY <2>3, <2>4 DEF HistoryInv, TakenInOrder, RunsAreNamed, FolderTyping
<1>2. HistoryInv /\ FolderTyping /\ [Next]_vars => HistoryInv'
  BY HistoryInvNext
<1> QED BY <1>1, <1>2, FolderTypingInit, FolderTypingNext, HistoryInvInit, PTL DEF Spec, NewestStay
=============================================================================
