-------------------------- MODULE SyncEngineProofs --------------------------
(***************************************************************************)
(* Safety of the sync engine for every number of jobs, every concurrency   *)
(* and with or without database faults.  Each conjunct of IInv is shown to *)
(* be preserved in a lemma of its own, one step per action that disturbs   *)
(* it; the theorems at the end follow from IInv.                           *)
(***************************************************************************)
EXTENDS SyncEngineInv, FiniteSetTheorems, SequenceTheorems, TLAPS

----------------------------------------------------------------------------
(* The operators the model is built from *)

\* The constants derived from the parameters are natural numbers, and the
\* channel has room for one more outcome than there are jobs.
LEMMA ConstantFacts ==
  /\ N \in Nat /\ Permits \in Nat \ {0} /\ Capacity \in Nat
  /\ NoJob = N /\ NoJob \notin Jobs /\ Jobs \subseteq 0 .. N /\ Jobs \subseteq Nat
  /\ N < Capacity
  /\ IsFiniteSet(Jobs) /\ Cardinality(Jobs) = N
<1>1. IsFiniteSet(0 .. N-1) /\ Cardinality(0 .. N-1) = N
  BY FS_Interval, NAssumption
<1>. QED  BY <1>1, NAssumption, ConcurrencyAssumption DEF Permits, Capacity, NoJob, Jobs

\* A set of jobs is finite and its size is a natural number at most N.
LEMMA JobSets ==
  ASSUME NEW S \in SUBSET Jobs
  PROVE  IsFiniteSet(S) /\ Cardinality(S) \in Nat /\ Cardinality(S) <= N
BY ConstantFacts, FS_Subset, FS_CardinalityType

\* A set of jobs grows by one when a job joins it and shrinks by one when a
\* member leaves.
LEMMA JobJoins ==
  ASSUME NEW S \in SUBSET Jobs, NEW j \in Jobs, j \notin S
  PROVE  Cardinality(S \cup {j}) = Cardinality(S) + 1
BY JobSets, FS_AddElement

LEMMA JobLeaves ==
  ASSUME NEW S \in SUBSET Jobs, NEW j \in S
  PROVE  Cardinality(S \ {j}) = Cardinality(S) - 1
BY JobSets, FS_RemoveElement

\* A job's git call always amounts to an outcome.
LEMMA OutcomeType ==
  ASSUME NEW o, NEW res, NEW c
  PROVE  OutcomeOf(o, res, c) \in Outcomes
BY DEF OutcomeOf, Outcomes

\* The counters stay natural numbers, and one more outcome is completed.
LEMMA CountedFacts ==
  ASSUME NEW t \in Counts, NEW o
  PROVE  Counted(t, o) \in Counts /\ Counted(t, o).completed = t.completed + 1
<1>1. \A b \in BOOLEAN : One(b) \in Nat
  BY DEF One
<1>2. /\ One(o # "Failed") \in Nat /\ One(o = "Failed") \in Nat
      /\ One(o = "Updated") \in Nat /\ One(o = "UpToDate") \in Nat
  BY <1>1
<1>. QED  BY <1>2 DEF Counts, Counted

\* A run row stays a run row however many of the updates took effect, exists
\* as before, and has a terminal status if it has an end date.
RunRows == [status : {"none", "running", "completed", "cancelled"},
            completed : BOOLEAN, cloned : Nat, updated : Nat, failed : Nat]

LEMMA RowAfterFacts ==
  ASSUME NEW row \in RunRows, NEW s \in Counts, NEW k \in 0 .. 5
  PROVE  /\ RowAfter(row, s, k) \in RunRows
         /\ row.status # "none" => RowAfter(row, s, k) # NoRow
         /\ RowAfter(row, s, k).completed =>
              RowAfter(row, s, k).status \in {"completed", "cancelled"}
<1>1. RunStatus(s) \in {"completed", "cancelled"}
  BY DEF RunStatus
<1>2. RowAfter(row, s, k) \in RunRows
  BY <1>1 DEF RunRows, Counts, RowAfter
<1>3. row.status # "none" => RowAfter(row, s, k) # NoRow
  <2>1. row.status # "none" => RowAfter(row, s, k).status # "none"
    BY <1>1 DEF RowAfter
  <2>2. NoRow.status = "none"
    BY DEF NoRow, FreshRow
  <2>. QED  BY <2>1, <2>2
<1>4. RowAfter(row, s, k).completed => RowAfter(row, s, k).status \in {"completed", "cancelled"}
  <2>1. RowAfter(row, s, k).completed = (k >= 2)
    BY Zenon DEF RowAfter
  <2>2. k >= 2 => RowAfter(row, s, k).status \in {"completed", "cancelled"}
    BY <1>1 DEF RowAfter
  <2>. QED  BY <2>1, <2>2
<1>. QED  BY <1>2, <1>3, <1>4

\* Appending to one entry of a function into sequences keeps its type, and
\* changes that entry alone.
LEMMA AppendAt ==
  ASSUME NEW S, NEW T, NEW f \in [S -> Seq(T)], NEW x \in S, NEW e \in T
  PROVE  [f EXCEPT ![x] = Append(f[x], e)] \in [S -> Seq(T)]
BY AppendProperties

----------------------------------------------------------------------------
(* Type correctness *)

\* The step lemmas talk about one step from a state of the invariant.
LEMMA InitType == Init => TypeOK
<1>. SUFFICES ASSUME Init PROVE TypeOK
  OBVIOUS
<1>1. NoCounts \in Counts
  BY DEF NoCounts, Counts
<1>2. NoRow \in RunRows
  BY DEF NoRow, FreshRow, RunRows
<1>. QED  BY <1>1, <1>2, ConstantFacts
     DEF Init, TypeOK, Operations, WorkerStates, GitStates, Outcomes, EventNames, EntryRows, RunRows

\* The head of the channel is a job whose worker has exited with an outcome
\* and of which only the start has been told.
LEMMA HeadFacts ==
  ASSUME IInv, results # <<>>
  PROVE  /\ Head(results) \in Jobs /\ Head(results) = results[1] /\ 1 \in 1 .. Len(results)
         /\ Tail(results) \in Seq(Jobs) /\ Len(Tail(results)) = Len(results) - 1
         /\ \A i \in 1 .. Len(results) - 1 : Tail(results)[i] = results[i + 1]
         /\ w[Head(results)] = "exited" /\ events[Head(results)] = <<"Started">>
         /\ outcome[Head(results)] \in Outcomes
<1>1. results \in Seq(Jobs) /\ outcome \in [Jobs -> {"none"} \cup Outcomes]
  BY DEF IInv, TypeOK
<1>2. /\ Head(results) \in Jobs /\ Head(results) = results[1] /\ 1 \in 1 .. Len(results)
      /\ Tail(results) \in Seq(Jobs) /\ Len(Tail(results)) = Len(results) - 1
      /\ \A i \in 1 .. Len(results) - 1 : Tail(results)[i] = results[i + 1]
  BY <1>1
<1>3. w[Head(results)] = "exited" /\ events[Head(results)] = <<"Started">>
  BY <1>2 DEF IInv, DeliveryInv
<1>4. outcome[Head(results)] \in Outcomes
  BY <1>1, <1>2, <1>3 DEF IInv, WorkerInv
<1>. QED  BY <1>2, <1>3, <1>4

\* A live worker holds a permit, so giving one back does not exceed Permits.
LEMMA LivePermit ==
  ASSUME TypeOK, PermitsConserved, NEW j \in Jobs, w[j] \notin {"idle", "exited"}
  PROVE  permits + 1 <= Permits
<1>1. Live \in SUBSET Jobs /\ j \in Live
  BY DEF Live
<1>2. Cardinality(Live) >= 1
  <2>1. Live \ {j} \in SUBSET Jobs /\ Cardinality(Live \ {j}) = Cardinality(Live) - 1
    BY <1>1, JobLeaves
  <2>2. Cardinality(Live \ {j}) \in Nat /\ Cardinality(Live) \in Nat
    BY <1>1, <2>1, JobSets
  <2>. QED  BY <2>1, <2>2
<1>. QED  BY <1>1, <1>2, JobSets, ConstantFacts DEF PermitsConserved, TypeOK

LEMMA TypeStep ==
  ASSUME IInv, [Next]_vars
  PROVE  TypeOK'
<1>. USE ConstantFacts DEF IInv
<1>1. CASE Plan
  <2>1. runRow' \in RunRows
    BY <1>1 DEF Plan, RunRows, OpenRow, NoRow, FreshRow
  <2>. QED  BY <1>1, <2>1 DEF Plan, TypeOK, Operations, collectorVars, RunRows
<1>2. CASE CheckCancel
  BY <1>2 DEF CheckCancel, TypeOK, workerVars, collectorVars
<1>3. CASE Acquire
  <2>1. next \in Jobs
    BY <1>3 DEF Acquire, DispatchInv, TypeOK, Jobs
  <2>2. next' \in 0 .. N /\ permits' \in 0 .. Permits
    BY <1>3, <2>1 DEF Acquire, TypeOK, Jobs
  <2>3. w' \in [Jobs -> WorkerStates]
    BY <1>3, <2>1 DEF Acquire, TypeOK, WorkerStates
  <2>. QED  BY <1>3, <2>2, <2>3 DEF Acquire, TypeOK, collectorVars
<1>4. CASE StartCollector
  BY <1>4 DEF StartCollector, TypeOK, workerVars
<1>5. CASE JoinWorkers
  BY <1>5 DEF JoinWorkers, TypeOK, workerVars, collectorVars
<1>6. CASE Summarise
  <2>1. runRow' \in RunRows
    <3>1. CASE runRow = NoRow
      BY <1>6, <3>1 DEF Summarise, TypeOK, RunRows
    <3>2. CASE runRow # NoRow
      <4>1. PICK k \in 0 .. 5 : runRow' = RowAfter(runRow, tracker, k)
        BY <1>6, <3>2 DEF Summarise
      <4>2. runRow \in RunRows /\ tracker \in Counts
        BY DEF TypeOK, RunRows
      <4>. QED  BY <4>1, <4>2, RowAfterFacts
    <3>. QED  BY <3>1, <3>2
  <2>. QED  BY <1>6, <2>1 DEF Summarise, TypeOK, workerVars, collectorVars, RunRows
<1>7. CASE Announce
  BY <1>7 DEF Announce, TypeOK, workerVars, collectorVars
<1>8. ASSUME NEW j \in Jobs, Start(j) PROVE TypeOK'
  <2>1. events' \in [Jobs -> Seq(EventNames)]
    BY <1>8, AppendAt DEF Start, TypeOK, EventNames
  <2>2. known' \in [Jobs -> BOOLEAN]
    BY <1>8 DEF Start, TypeOK, DbCall
  <2>. QED  BY <1>8, <2>1, <2>2 DEF Start, TypeOK, WorkerStates, collectorVars
<1>9. ASSUME NEW j \in Jobs, GitEnd(j) PROVE TypeOK'
  <2>1. PICK res \in GitStates :
          /\ gitRes' = [gitRes EXCEPT ![j] = res]
          /\ disk' = IF op[j] = "Clone" /\ res = "done" THEN [disk EXCEPT ![j] = "repo"] ELSE disk
    BY <1>9 DEF GitEnd, GitResults, GitStates
  <2>2. gitRes' \in [Jobs -> GitStates]
    BY <2>1 DEF TypeOK
  <2>3. disk' \in [Jobs -> {"absent", "repo"}]
    BY <2>1 DEF TypeOK
  <2>. QED  BY <1>9, <2>2, <2>3 DEF GitEnd, TypeOK, WorkerStates, collectorVars
<1>10. ASSUME NEW j \in Jobs, Return(j) PROVE TypeOK'
  <2>1. outcome' \in [Jobs -> {"none"} \cup Outcomes]
    BY <1>10, OutcomeType DEF Return, TypeOK
  <2>2. tracker' \in Counts
    <3>1. \A b \in BOOLEAN : One(b) \in Nat
      BY DEF One
    <3>2. PICK b \in BOOLEAN : tracker' = [tracker EXCEPT !.cloned = tracker.cloned + One(b)]
      BY <1>10 DEF Return
    <3>3. tracker \in Counts
      BY DEF TypeOK
    <3>4. tracker.cloned \in Nat /\ One(b) \in Nat
      BY <3>1, <3>3 DEF Counts
    <3>. QED  BY <3>2, <3>3, <3>4 DEF Counts
  <2>3. local' \in [Jobs -> {"Prior", "Cloned", "Behind"}]
    BY <1>10 DEF Return, TypeOK, LocalAfter
  <2>. QED  BY <1>10, <2>1, <2>2, <2>3 DEF Return, TypeOK, WorkerStates, collectorVars
<1>11. ASSUME NEW j \in Jobs, Send(j) PROVE TypeOK'
  <2>1. permits + 1 <= Permits
    BY <1>11, LivePermit DEF Send
  <2>2. results' \in Seq(Jobs)
    BY <1>11, AppendProperties DEF Send, TypeOK
  <2>3. permits' \in 0 .. Permits /\ w' \in [Jobs -> WorkerStates]
    BY <1>11, <2>1 DEF Send, TypeOK, WorkerStates
  <2>. QED  BY <1>11, <2>2, <2>3 DEF Send, TypeOK, collectorVars
<1>12. CASE Recv
  <2>. DEFINE j == Head(results)
  <2>1. j \in Jobs /\ Tail(results) \in Seq(Jobs) /\ outcome[j] \in Outcomes
    BY <1>12, HeadFacts DEF Recv
  <2>2. tracker' \in Counts
    BY <1>12, CountedFacts DEF Recv, TypeOK
  <2>3. events' \in [Jobs -> Seq(EventNames)]
    BY <1>12, <2>1, AppendAt DEF Recv, TypeOK, EventNames
  <2>. QED  BY <1>12, <2>1, <2>2, <2>3 DEF Recv, TypeOK, workerVars
<1>13. CASE Persist
  <2>1. cur \in Jobs
    BY <1>13 DEF Persist, PhaseInv, TypeOK, Jobs
  <2>2. EntryOf(outcome[cur]) \in EntryRows
    BY DEF EntryOf, EntryRows
  <2>3. entries' \in [Jobs -> Seq(EntryRows)]
    BY <1>13, <2>1, <2>2, AppendAt DEF Persist, TypeOK
  <2>4. coll' = "recv" /\ cur' \in 0 .. N
    BY <1>13 DEF Persist
  <2>. QED  BY <1>13, <2>3, <2>4 DEF Persist, TypeOK, workerVars
<1>14. CASE CollectorEnd
  BY <1>14 DEF CollectorEnd, TypeOK, workerVars
<1>15. CASE Cancel
  BY <1>15 DEF Cancel, TypeOK, One, DispatchInv, workerVars, collectorVars
<1>16. CASE UNCHANGED vars
  BY <1>16 DEF vars, TypeOK, workerVars, collectorVars
<1>. QED  BY <1>1, <1>2, <1>3, <1>4, <1>5, <1>6, <1>7, <1>8, <1>9, <1>10, <1>11, <1>12, <1>13,
             <1>14, <1>15, <1>16
          DEF Next, Coordinator, Worker, Collector, Finished

----------------------------------------------------------------------------
(* Permits, dispatch and phases *)

\* The job to be dispatched has no worker yet.
LEMMA NextIsIdle ==
  ASSUME IInv, Acquire
  PROVE  next \in Jobs /\ w[next] = "idle"
BY ConstantFacts DEF IInv, TypeOK, DispatchInv, Acquire, Jobs

LEMMA PermitsStep ==
  ASSUME IInv, [Next]_vars
  PROVE  PermitsConserved'
<1>. USE ConstantFacts DEF IInv
<1>0. Live \in SUBSET Jobs /\ Cardinality(Live) \in Nat /\ permits \in Int
  BY JobSets DEF Live, TypeOK
<1>1. CASE Acquire
  <2>1. next \in Jobs /\ w[next] = "idle"
    BY <1>1, NextIsIdle
  <2>2. next \notin Live /\ Live' = Live \cup {next}
    BY <1>1, <2>1 DEF Acquire, Live, TypeOK
  <2>3. Cardinality(Live') = Cardinality(Live) + 1
    BY <1>0, <2>1, <2>2, JobJoins
  <2>. QED  BY <1>0, <1>1, <2>3 DEF Acquire, PermitsConserved
<1>2. ASSUME NEW j \in Jobs, Start(j) \/ GitEnd(j) \/ Return(j) PROVE PermitsConserved'
  <2>1. Live' = Live /\ permits' = permits
    BY <1>2 DEF Start, GitEnd, Return, Live, TypeOK
  <2>. QED  BY <2>1 DEF PermitsConserved
<1>3. ASSUME NEW j \in Jobs, Send(j) PROVE PermitsConserved'
  <2>1. j \in Live /\ Live' = Live \ {j}
    BY <1>3 DEF Send, Live, TypeOK
  <2>2. Cardinality(Live') = Cardinality(Live) - 1
    BY <1>0, <2>1, JobLeaves
  <2>. QED  BY <1>0, <1>3, <2>2 DEF Send, PermitsConserved
<1>4. CASE UNCHANGED <<w, permits>>
  BY <1>4 DEF PermitsConserved, Live
<1>. QED  BY <1>1, <1>2, <1>3, <1>4
          DEF Next, Coordinator, Worker, Collector, Finished, vars, Plan, CheckCancel, StartCollector,
              JoinWorkers, Summarise, Announce, Recv, Persist, CollectorEnd, Cancel, workerVars,
              collectorVars

LEMMA DispatchStep ==
  ASSUME IInv, [Next]_vars
  PROVE  DispatchInv'
<1>. USE ConstantFacts DEF IInv
<1>1. CASE Plan \/ CheckCancel \/ StartCollector \/ JoinWorkers \/ Summarise \/ Announce
  BY <1>1 DEF Plan, CheckCancel, StartCollector, JoinWorkers, Summarise, Announce, DispatchInv, TypeOK,
     workerVars
<1>2. CASE Acquire
  <2>1. next \in Jobs /\ w[next] = "idle"
    BY <1>2, NextIsIdle
  <2>2. \A j \in Jobs : (w'[j] = "idle") <=> (next' <= j)
    BY <1>2, <2>1 DEF Acquire, DispatchInv, TypeOK
  <2>. QED  BY <1>2, <2>1, <2>2 DEF Acquire, DispatchInv, TypeOK, Jobs
<1>3. ASSUME NEW j \in Jobs, Worker(j) \/ GitEnd(j) PROVE DispatchInv'
  <2>1. UNCHANGED <<pc, next, cancel, cancelAt>>
    BY <1>3 DEF Worker, Start, GitEnd, Return, Send
  <2>2. w \in [Jobs -> WorkerStates]
    BY DEF TypeOK
  <2>3. \A x \in Jobs : (w'[x] = "idle") <=> (w[x] = "idle")
    BY <1>3, <2>2 DEF Worker, Start, GitEnd, Return, Send
  <2>. QED  BY <2>1, <2>3 DEF DispatchInv
<1>4. CASE Cancel
  BY <1>4 DEF Cancel, One, DispatchInv, TypeOK, workerVars
<1>5. CASE UNCHANGED <<pc, next, cancel, cancelAt, w>>
  BY <1>5 DEF DispatchInv
<1>. QED  BY <1>1, <1>2, <1>3, <1>4, <1>5
          DEF Next, Coordinator, Collector, Finished, vars, Recv, Persist, CollectorEnd, workerVars

LEMMA PhaseStep ==
  ASSUME IInv, [Next]_vars
  PROVE  PhaseInv'
<1>. USE ConstantFacts DEF IInv
<1>1. CASE Plan \/ CheckCancel \/ Acquire \/ StartCollector \/ Summarise \/ Announce
  BY <1>1 DEF Plan, CheckCancel, Acquire, StartCollector, Summarise, Announce, PhaseInv, TypeOK,
     workerVars, collectorVars
<1>2. CASE JoinWorkers
  BY <1>2 DEF JoinWorkers, PhaseInv, DispatchInv, TypeOK, Jobs, workerVars, collectorVars
<1>3. ASSUME NEW j \in Jobs, Worker(j) \/ GitEnd(j) PROVE PhaseInv'
  BY <1>3 DEF Worker, Start, GitEnd, Return, Send, PhaseInv, TypeOK, collectorVars
<1>4. CASE Recv
  <2>1. cur' \in Jobs
    BY <1>4, HeadFacts DEF Recv
  <2>. QED  BY <1>4, <2>1 DEF Recv, PhaseInv, TypeOK, workerVars
<1>5. CASE Persist
  BY <1>5 DEF Persist, PhaseInv, TypeOK, workerVars
<1>6. CASE CollectorEnd
  BY <1>6 DEF CollectorEnd, PhaseInv, TypeOK, workerVars
<1>7. CASE UNCHANGED <<pc, w, coll, cur, results>>
  BY <1>7 DEF PhaseInv
<1>. QED  BY <1>1, <1>2, <1>3, <1>4, <1>5, <1>6, <1>7
          DEF Next, Coordinator, Collector, Finished, vars, Cancel, workerVars, collectorVars

LEMMA WorkerStep ==
  ASSUME IInv, [Next]_vars
  PROVE  WorkerInv'
<1>. USE ConstantFacts DEF IInv
<1>1. CASE Plan
  BY <1>1 DEF Plan, WorkerInv, TypeOK
<1>2. CASE Acquire
  <2>1. next \in Jobs /\ w[next] = "idle"
    BY <1>2, NextIsIdle
  <2>. QED  BY <1>2, <2>1 DEF Acquire, WorkerInv, TypeOK
<1>3. ASSUME NEW j \in Jobs, Start(j) \/ Send(j) PROVE WorkerInv'
  <2>1. w \in [Jobs -> WorkerStates] /\ UNCHANGED <<pc, op, gitRes, outcome>>
    BY <1>3 DEF Start, Send, TypeOK
  <2>2. \/ w[j] = "spawned" /\ w' = [w EXCEPT ![j] = "git"]
        \/ w[j] = "sending" /\ w' = [w EXCEPT ![j] = "exited"]
    BY <1>3 DEF Start, Send
  <2>. QED  BY <2>1, <2>2 DEF WorkerInv
<1>4. ASSUME NEW j \in Jobs, GitEnd(j) PROVE WorkerInv'
  BY <1>4 DEF GitEnd, GitResults, WorkerInv, TypeOK
<1>5. ASSUME NEW j \in Jobs, Return(j) PROVE WorkerInv'
  <2>. DEFINE o == OutcomeOf(op[j], gitRes[j], cancel)
  <2>1. o # "none"
    BY OutcomeType DEF Outcomes
  <2>2. /\ outcome' = [outcome EXCEPT ![j] = o] /\ w[j] = "returned"
        /\ w' = [w EXCEPT ![j] = "sending"] /\ UNCHANGED <<pc, op, gitRes>>
    BY <1>5 DEF Return
  <2>. HIDE DEF o
  <2>. QED  BY <2>1, <2>2 DEF WorkerInv, TypeOK
<1>6. CASE (pc = "plan" <=> pc' = "plan") /\ UNCHANGED <<op, w, gitRes, outcome>>
  BY <1>6 DEF WorkerInv
<1>. QED  BY <1>1, <1>2, <1>3, <1>4, <1>5, <1>6
          DEF Next, Coordinator, Worker, Collector, Finished, vars, CheckCancel, StartCollector,
              JoinWorkers, Summarise, Announce, Recv, Persist, CollectorEnd, Cancel, workerVars

LEMMA DiskStep ==
  ASSUME IInv, [Next]_vars
  PROVE  DiskInv'
<1>. USE ConstantFacts DEF IInv
<1>1. CASE Plan
  <2>1. op' = [j \in Jobs |-> IF disk[j] = "repo" THEN "Sync" ELSE "Clone"]
        /\ UNCHANGED <<gitRes, disk>>
    BY <1>1 DEF Plan
  <2>2. \A j \in Jobs : gitRes[j] = "none"
    BY <1>1 DEF Plan, DispatchInv, WorkerInv, Jobs
  <2>. QED  BY <2>1, <2>2 DEF DiskInv
<1>2. ASSUME NEW j \in Jobs, GitEnd(j) PROVE DiskInv'
  <2>1. PICK res \in GitResults(op[j]) :
          /\ gitRes' = [gitRes EXCEPT ![j] = res]
          /\ disk' = IF op[j] = "Clone" /\ res = "done" THEN [disk EXCEPT ![j] = "repo"] ELSE disk
    BY <1>2 DEF GitEnd
  <2>2. op' = op /\ (res = "news" => op[j] = "Sync")
    BY <1>2 DEF GitEnd, GitResults
  <2>. QED  BY <2>1, <2>2 DEF DiskInv, TypeOK
<1>3. CASE UNCHANGED <<op, gitRes, disk>>
  BY <1>3 DEF DiskInv
<1>. QED  BY <1>1, <1>2, <1>3
          DEF Next, Coordinator, Worker, Collector, Finished, vars, CheckCancel, Acquire, StartCollector,
              JoinWorkers, Summarise, Announce, Start, Return, Send, Recv, Persist, CollectorEnd, Cancel,
              workerVars

LEMMA HonestStep ==
  ASSUME IInv, [Next]_vars
  PROVE  OutcomeHonest'
<1>. USE ConstantFacts DEF IInv
<1>1. CASE Plan
  <2>1. \A j \in Jobs : outcome[j] = "none"
    BY <1>1 DEF Plan, DispatchInv, WorkerInv, Jobs
  <2>. QED  BY <1>1, <2>1 DEF Plan, OutcomeHonest
<1>2. ASSUME NEW j \in Jobs, GitEnd(j) PROVE OutcomeHonest'
  <2>1. outcome[j] = "none"
    BY <1>2 DEF GitEnd, WorkerInv
  <2>2. \A x \in Jobs : x # j => gitRes'[x] = gitRes[x] /\ disk'[x] = disk[x]
    BY <1>2 DEF GitEnd, TypeOK
  <2>. QED  BY <1>2, <2>1, <2>2 DEF GitEnd, OutcomeHonest
<1>3. ASSUME NEW j \in Jobs, Return(j) PROVE OutcomeHonest'
  <2>. DEFINE o == OutcomeOf(op[j], gitRes[j], cancel)
  <2>1. /\ outcome' = [outcome EXCEPT ![j] = o] /\ w[j] = "returned"
        /\ UNCHANGED <<cancel, op, gitRes, disk>>
    BY <1>3 DEF Return
  <2>2. \E ok \in DbCall : local' = IF ok THEN [local EXCEPT ![j] = LocalAfter(o, local[j])] ELSE local
    BY <1>3 DEF Return
  <2>3. op[j] \in {"Clone", "Sync"} /\ gitRes[j] \in {"done", "news", "error", "broken"}
    BY <2>1 DEF DispatchInv, WorkerInv, TypeOK, Operations, GitStates, Jobs
  <2>4. ASSUME ~cancel
        PROVE  /\ (o = "Failed") <=> (gitRes[j] \in {"error", "broken"})
               /\ o # "Failed" => disk[j] = "repo"
               /\ (o = "Updated") <=> (gitRes[j] = "news")
    BY <2>3, <2>4 DEF OutcomeOf, DiskInv
  <2>5. o # "Failed" => LocalAfter(o, local[j]) # "Prior"
    BY DEF LocalAfter
  <2>. HIDE DEF o
  <2>6. o # "Failed" => local'[j] # "Prior" \/ DbFaults
    BY <2>2, <2>5 DEF DbCall, TypeOK
  <2>7. \A x \in Jobs : x # j => local'[x] = local[x] /\ outcome'[x] = outcome[x]
    BY <2>1, <2>2 DEF TypeOK
  <2>. QED  BY <2>1, <2>4, <2>6, <2>7 DEF OutcomeHonest, TypeOK
<1>4. CASE UNCHANGED <<outcome, gitRes, disk, local>> /\ (cancel => cancel')
  BY <1>4 DEF OutcomeHonest
<1>. QED  BY <1>1, <1>2, <1>3, <1>4
          DEF Next, Coordinator, Worker, Collector, Finished, vars, CheckCancel, Acquire, StartCollector,
              JoinWorkers, Summarise, Announce, Start, Send, Recv, Persist, CollectorEnd, Cancel, workerVars

----------------------------------------------------------------------------
(* The result channel and the delivery of outcomes *)

LEMMA ChannelStep ==
  ASSUME IInv, [Next]_vars
  PROVE  ChannelInv'
<1>. USE ConstantFacts DEF IInv
<1>0. /\ Exited \in SUBSET Jobs /\ Cardinality(Exited) \in Nat
      /\ results \in Seq(Jobs) /\ Len(results) \in Nat
      /\ tracker \in Counts /\ tracker.completed \in Nat
  <2>1. results \in Seq(Jobs) /\ tracker \in Counts
    BY DEF TypeOK
  <2>. QED  BY <2>1, JobSets DEF Exited, Counts
<1>1. CASE Acquire
  <2>1. Exited' = Exited
    BY <1>1, NextIsIdle DEF Acquire, Exited, TypeOK
  <2>. QED  BY <1>1, <2>1 DEF Acquire, ChannelInv
<1>2. ASSUME NEW j \in Jobs, Start(j) \/ GitEnd(j) PROVE ChannelInv'
  <2>1. Exited' = Exited
    BY <1>2 DEF Start, GitEnd, Exited, TypeOK
  <2>. QED  BY <1>2, <2>1 DEF Start, GitEnd, ChannelInv
<1>3. ASSUME NEW j \in Jobs, Return(j) PROVE ChannelInv'
  <2>1. Exited' = Exited /\ results' = results
    BY <1>3 DEF Return, Exited, TypeOK
  <2>2. tracker'.completed = tracker.completed
    BY <1>0, <1>3 DEF Return, Counts
  <2>. QED  BY <2>1, <2>2 DEF ChannelInv
<1>4. ASSUME NEW j \in Jobs, Send(j) PROVE ChannelInv'
  <2>1. j \notin Exited /\ Exited' = Exited \cup {j}
    BY <1>4 DEF Send, Exited, TypeOK
  <2>2. Cardinality(Exited') = Cardinality(Exited) + 1
    BY <1>0, <2>1, JobJoins
  <2>3. Len(results') = Len(results) + 1 /\ tracker' = tracker
    BY <1>0, <1>4, AppendProperties DEF Send
  <2>. QED  BY <1>0, <2>2, <2>3 DEF ChannelInv
<1>5. CASE Recv
  <2>1. Exited' = Exited
    BY <1>5 DEF Recv, Exited, workerVars
  <2>2. Len(results') = Len(results) - 1
    BY <1>5, HeadFacts DEF Recv
  <2>3. tracker'.completed = tracker.completed + 1
    BY <1>0, <1>5, CountedFacts DEF Recv
  <2>. QED  BY <1>0, <2>1, <2>2, <2>3 DEF ChannelInv
<1>6. CASE UNCHANGED <<w, results, tracker>>
  BY <1>6 DEF ChannelInv, Exited
<1>. QED  BY <1>1, <1>2, <1>3, <1>4, <1>5, <1>6
          DEF Next, Coordinator, Worker, Collector, Finished, vars, Plan, CheckCancel, StartCollector,
              JoinWorkers, Summarise, Announce, Persist, CollectorEnd, Cancel, workerVars

\* A worker about to send finds fewer outcomes in the channel than there are
\* jobs: its own job is not among those that have exited.
LEMMA RoomToSend ==
  ASSUME IInv, NEW j \in Jobs, w[j] = "sending"
  PROVE  Len(results) < N
<1>1. Exited \in SUBSET (Jobs \ {j}) /\ Exited \in SUBSET Jobs
  BY DEF Exited
<1>2. IsFiniteSet(Jobs \ {j}) /\ Cardinality(Jobs \ {j}) = N - 1
  BY ConstantFacts, JobLeaves, JobSets
<1>3. Cardinality(Exited) <= N - 1 /\ Cardinality(Exited) \in Nat
  BY <1>1, <1>2, FS_Subset, JobSets
<1>4. tracker \in Counts /\ results \in Seq(Jobs)
  BY DEF IInv, TypeOK
<1>5. tracker.completed \in Nat /\ Len(results) \in Nat
  BY <1>4 DEF Counts
<1>. QED  BY <1>3, <1>5, ConstantFacts DEF IInv, ChannelInv

\* Two sequences of two elements each are equal if they agree on both.
LEMMA PairsEqual ==
  ASSUME NEW S, NEW s \in Seq(S), NEW t \in Seq(S), Len(s) = 2, Len(t) = 2,
         s[1] = t[1], s[2] = t[2]
  PROVE  s = t
<1>1. \A i \in 1 .. Len(s) : i = 1 \/ i = 2
  OBVIOUS
<1>. QED  BY <1>1, SeqEqual

\* The events of a job whose outcome has just been told.
LEMMA TwoEvents ==
  ASSUME NEW o
  PROVE  Append(<<"Started">>, o) = <<"Started", o>> /\ Len(<<"Started", o>>) = 2
<1>. DEFINE S == {"Started", o}
<1>1. <<"Started">> \in Seq(S) /\ o \in S
  OBVIOUS
<1>2. <<"Started", o>> \in Seq(S) /\ Len(<<"Started", o>>) = 2 /\ Len(<<"Started">>) = 1
  OBVIOUS
<1>3. /\ Append(<<"Started">>, o) \in Seq(S) /\ Len(Append(<<"Started">>, o)) = 2
      /\ Append(<<"Started">>, o)[1] = "Started" /\ Append(<<"Started">>, o)[2] = o
  BY <1>1, <1>2, AppendProperties
<1>4. <<"Started", o>>[1] = "Started" /\ <<"Started", o>>[2] = o
  OBVIOUS
<1>. QED  BY <1>2, <1>3, <1>4, PairsEqual

LEMMA DeliveryStep ==
  ASSUME IInv, [Next]_vars
  PROVE  DeliveryInv'
<1>. USE ConstantFacts DEF IInv
<1>0. /\ results \in Seq(Jobs) /\ w \in [Jobs -> WorkerStates]
      /\ events \in [Jobs -> Seq(EventNames)] /\ outcome \in [Jobs -> {"none"} \cup Outcomes]
      /\ cur \in 0 .. N /\ Len(results) \in Nat
      /\ \A i \in 1 .. Len(results) : results[i] \in Jobs
  BY DEF TypeOK
<1>q. /\ \A i \in 1 .. Len(results) : w[results[i]] = "exited"
      /\ \A i \in 1 .. Len(results) : events[results[i]] = <<"Started">>
      /\ \A i, k \in 1 .. Len(results) : i # k => results[i] # results[k]
      /\ cur # NoJob => Len(events[cur]) = 2
  BY DEF DeliveryInv, Reported
<1>1. CASE Acquire
  <2>1. next \in Jobs /\ w[next] = "idle"
    BY <1>1, NextIsIdle
  <2>. QED  BY <1>0, <1>1, <2>1 DEF Acquire, DeliveryInv, Reported, collectorVars
<1>2. ASSUME NEW j \in Jobs, Start(j) PROVE DeliveryInv'
  <2>1. w[j] = "spawned" /\ events[j] = <<>>
    BY <1>2 DEF Start, DeliveryInv
  <2>2. events' = [events EXCEPT ![j] = <<"Started">>] /\ w' = [w EXCEPT ![j] = "git"]
    BY <1>2, <2>1 DEF Start
  <2>3. UNCHANGED <<results, outcome, cur>>
    BY <1>2 DEF Start, collectorVars
  <2>4. \A i \in 1 .. Len(results) : results[i] \in Jobs /\ results[i] # j
    BY <1>0, <2>1 DEF DeliveryInv
  <2>5. cur # NoJob => cur \in Jobs /\ cur # j
    <3>1. cur # NoJob => cur \in Jobs
      BY <1>0 DEF Jobs, NoJob
    <3>2. Len(events[j]) = 0
      BY <2>1
    <3>3. cur # NoJob => Len(events[cur]) = 2
      BY DEF DeliveryInv, Reported
    <3>. QED  BY <3>1, <3>2, <3>3
  <2>6. \A x \in Jobs : x # j => events'[x] = events[x] /\ w'[x] = w[x]
    BY <1>0, <2>2
  <2>7. events'[j] = <<"Started">> /\ w'[j] = "git"
    BY <1>0, <2>2
  <2>8. \A x \in Jobs :
          /\ w'[x] \in {"idle", "spawned"} => events'[x] = <<>>
          /\ w'[x] \in {"git", "returned", "sending"} => events'[x] = <<"Started">>
          /\ w'[x] = "exited" =>
               \/ events'[x] = <<"Started">> /\ \E i \in 1 .. Len(results') : results'[i] = x
               \/ events'[x] = <<"Started", outcome'[x]>>
    BY <2>3, <2>6, <2>7 DEF DeliveryInv
  <2>9. \A i \in 1 .. Len(results') :
          w'[results'[i]] = "exited" /\ events'[results'[i]] = <<"Started">>
    BY <1>q, <2>3, <2>4, <2>6
  <2>10. cur' # NoJob => Len(events'[cur']) = 2
    BY <1>q, <2>3, <2>5, <2>6
  <2>. QED  BY <1>q, <2>3, <2>8, <2>9, <2>10 DEF DeliveryInv, Reported
<1>3. ASSUME NEW j \in Jobs, GitEnd(j) \/ Return(j) PROVE DeliveryInv'
  <2>1. /\ w[j] \in {"git", "returned"} /\ w'[j] \in {"returned", "sending"}
        /\ \A x \in Jobs : x # j => w'[x] = w[x] /\ outcome'[x] = outcome[x]
        /\ UNCHANGED <<results, events, cur>>
    BY <1>0, <1>3 DEF GitEnd, Return, collectorVars
  <2>2. \A i \in 1 .. Len(results) : results[i] \in Jobs /\ results[i] # j
    BY <1>0, <2>1 DEF DeliveryInv
  <2>3. \A x \in Jobs :
          /\ w'[x] \in {"idle", "spawned"} => events'[x] = <<>>
          /\ w'[x] \in {"git", "returned", "sending"} => events'[x] = <<"Started">>
          /\ w'[x] = "exited" =>
               \/ events'[x] = <<"Started">> /\ \E i \in 1 .. Len(results') : results'[i] = x
               \/ events'[x] = <<"Started", outcome'[x]>>
    BY <2>1 DEF DeliveryInv
  <2>4. \A i \in 1 .. Len(results') :
          w'[results'[i]] = "exited" /\ events'[results'[i]] = <<"Started">>
    BY <1>q, <2>1, <2>2
  <2>5. cur' # NoJob => Len(events'[cur']) = 2
    BY <1>q, <2>1
  <2>. QED  BY <1>q, <2>1, <2>3, <2>4, <2>5 DEF DeliveryInv, Reported
<1>4. ASSUME NEW j \in Jobs, Send(j) PROVE DeliveryInv'
  <2>1. /\ results' \in Seq(Jobs) /\ Len(results') = Len(results) + 1
        /\ \A i \in 1 .. Len(results) : results'[i] = results[i]
        /\ results'[Len(results) + 1] = j
    BY <1>0, <1>4, AppendProperties DEF Send
  <2>2. /\ w[j] = "sending" /\ w' = [w EXCEPT ![j] = "exited"]
        /\ events[j] = <<"Started">> /\ UNCHANGED <<events, outcome, cur>>
    BY <1>4 DEF Send, DeliveryInv, collectorVars
  <2>3. Len(results) \in Nat
    BY <1>0
  <2>4. \A i \in 1 .. Len(results) : results'[i] # j
    BY <2>1, <2>2 DEF DeliveryInv
  <2>5. \A x \in Jobs : (\E i \in 1 .. Len(results) : results[i] = x)
                        => \E i \in 1 .. Len(results') : results'[i] = x
    BY <2>1, <2>3
  <2>6. Len(results') \in 1 .. Len(results') /\ results'[Len(results')] = j
    BY <2>1, <2>3
  <2>7. /\ \A x \in Jobs : x # j => w'[x] = w[x]
        /\ w'[j] = "exited"
    BY <1>0, <2>2
  <2>8. \A i \in 1 .. Len(results') : i # Len(results') => i \in 1 .. Len(results)
    BY <2>1, <2>3
  <2>9. \A i \in 1 .. Len(results) : results[i] \in Jobs
    BY <1>0
  <2>10. \A i \in 1 .. Len(results') :
           w'[results'[i]] = "exited" /\ events'[results'[i]] = <<"Started">>
    <3>. TAKE i \in 1 .. Len(results')
    <3>1. CASE i = Len(results')
      BY <2>2, <2>6, <2>7, <3>1
    <3>2. CASE i # Len(results')
      <4>1. i \in 1 .. Len(results) /\ results'[i] = results[i] /\ results[i] \in Jobs /\ results[i] # j
        BY <2>1, <2>4, <2>8, <2>9, <3>2
      <4>. QED  BY <1>q, <2>2, <2>7, <4>1
    <3>. QED  BY <3>1, <3>2
  <2>11. \A i, k \in 1 .. Len(results') : i # k => results'[i] # results'[k]
    BY <2>1, <2>4, <2>6, <2>8 DEF DeliveryInv
  <2>12. \A x \in Jobs : w'[x] = "exited" =>
           \/ events'[x] = <<"Started">> /\ \E i \in 1 .. Len(results') : results'[i] = x
           \/ events'[x] = <<"Started", outcome'[x]>>
    BY <2>2, <2>5, <2>6, <2>7 DEF DeliveryInv
  <2>. QED  BY <2>2, <2>7, <2>10, <2>11, <2>12 DEF DeliveryInv, Reported
<1>5. CASE Recv
  <2>. DEFINE j == Head(results)
  <2>1. /\ j \in Jobs /\ j = results[1] /\ w[j] = "exited" /\ events[j] = <<"Started">>
        /\ outcome[j] \in Outcomes /\ Len(results) \in Nat
    BY <1>0, <1>5, HeadFacts DEF Recv
  <2>2. /\ Len(results') = Len(results) - 1 /\ 1 \in 1 .. Len(results)
        /\ \A i \in 1 .. Len(results) - 1 : results'[i] = results[i + 1]
    BY <1>5, HeadFacts DEF Recv
  <2>3. /\ events' = [events EXCEPT ![j] = <<"Started", outcome[j]>>] /\ cur' = j
        /\ UNCHANGED <<w, outcome>>
    <3>1. Append(events[j], outcome[j]) = <<"Started", outcome[j]>>
      BY <2>1, TwoEvents
    <3>. QED  BY <1>5, <3>1 DEF Recv, workerVars
  <2>4. events'[j] = <<"Started", outcome'[j]>> /\ Reported(cur)'
    BY <1>0, <2>1, <2>3 DEF Reported
  <2>. HIDE DEF j
  <2>5. \A i \in 1 .. Len(results') :
          /\ i + 1 \in 1 .. Len(results) /\ results'[i] = results[i + 1] /\ i + 1 # 1
          /\ results'[i] \in Jobs /\ results'[i] # j
    <3>1. \A i \in 1 .. Len(results') :
            i + 1 \in 1 .. Len(results) /\ results'[i] = results[i + 1] /\ i + 1 # 1
      BY <2>1, <2>2
    <3>. QED  BY <1>0, <2>1, <2>2, <3>1 DEF DeliveryInv
  <2>6. \A x \in Jobs : x # j => events'[x] = events[x]
    BY <1>0, <2>1, <2>3
  <2>7. \A i \in 1 .. Len(results') : w'[results'[i]] = "exited" /\ events'[results'[i]] = <<"Started">>
    <3>. TAKE i \in 1 .. Len(results')
    <3>1. /\ i + 1 \in 1 .. Len(results) /\ results'[i] = results[i + 1]
          /\ results'[i] \in Jobs /\ results'[i] # j
      BY <2>5
    <3>2. w[results[i + 1]] = "exited" /\ events[results[i + 1]] = <<"Started">>
      BY <1>q, <3>1
    <3>. QED  BY <2>3, <2>6, <3>1, <3>2
  <2>8. \A i, k \in 1 .. Len(results') : i # k => results'[i] # results'[k]
    <3>. TAKE i, k \in 1 .. Len(results')
    <3>1. CASE i # k
      <4>1. i \in Int /\ k \in Int /\ i + 1 # k + 1
        BY <2>1, <2>2, <3>1
      <4>2. i + 1 \in 1 .. Len(results) /\ k + 1 \in 1 .. Len(results)
        BY <2>5
      <4>3. results[i + 1] # results[k + 1]
        BY <1>q, <4>1, <4>2
      <4>. QED  BY <2>5, <4>3
    <3>. QED  BY <3>1
  <2>9. ASSUME NEW x \in Jobs, w[x] = "exited", x # j, events[x] = <<"Started">>
        PROVE  (\E i \in 1 .. Len(results') : results'[i] = x) \/ events[x] = <<"Started", outcome[x]>>
    <3>1. CASE \E i \in 1 .. Len(results) : results[i] = x
      <4>1. PICK i \in 1 .. Len(results) : results[i] = x
        BY <3>1
      <4>2. i - 1 \in 1 .. Len(results') /\ results'[i - 1] = x
        BY <4>1, <2>1, <2>2, <2>9
      <4>. QED  BY <4>2
    <3>. QED  BY <2>9, <3>1 DEF DeliveryInv
  <2>. QED  BY <2>1, <2>3, <2>4, <2>6, <2>7, <2>8, <2>9 DEF DeliveryInv
<1>6. CASE Persist
  BY <1>6 DEF Persist, DeliveryInv, Reported, workerVars
<1>7. CASE UNCHANGED <<w, events, outcome, results, cur>>
  BY <1>7 DEF DeliveryInv, Reported
<1>. QED  BY <1>1, <1>2, <1>3, <1>4, <1>5, <1>6, <1>7
          DEF Next, Coordinator, Worker, Collector, Finished, vars, Plan, CheckCancel, StartCollector,
              JoinWorkers, Summarise, Announce, CollectorEnd, Cancel, workerVars, collectorVars

----------------------------------------------------------------------------
(* The history in the database *)

LEMMA HistoryStep ==
  ASSUME IInv, [Next]_vars
  PROVE  HistoryInv'
<1>i. TypeOK /\ DispatchInv /\ PhaseInv /\ DeliveryInv /\ HistoryInv
  BY DEF IInv
<1>. USE <1>i, ConstantFacts
<1>0. /\ events \in [Jobs -> Seq(EventNames)] /\ entries \in [Jobs -> Seq(EntryRows)]
      /\ runRow \in RunRows /\ tracker \in Counts
  BY DEF TypeOK, RunRows
<1>q. \A j \in Jobs : entries[j] # <<>> =>
        Len(entries[j]) = 1 /\ Len(events[j]) = 2 /\ j # cur /\ runRow # NoRow
  BY DEF HistoryInv, Reported
<1>1. CASE Plan
  <2>1. \A j \in Jobs : events[j] = <<>>
    BY <1>1 DEF Plan, DispatchInv, DeliveryInv, TypeOK, Jobs
  <2>2. \A j \in Jobs : Len(events[j]) = 0
    BY <2>1
  <2>3. \A j \in Jobs : entries[j] = <<>>
    BY <1>q, <2>2
  <2>4. /\ ~runRow'.completed
        /\ (runRow'.status = "none") <=> (runRow' = NoRow)
    <3>1. runRow' \in {NoRow, OpenRow}
      BY <1>1 DEF Plan
    <3>2. /\ ~NoRow.completed /\ ~OpenRow.completed
          /\ NoRow.status = "none" /\ OpenRow.status = "running"
      BY DEF NoRow, OpenRow, FreshRow
    <3>. QED  BY <3>1, <3>2
  <2>. QED  BY <1>1, <2>3, <2>4 DEF Plan, HistoryInv, collectorVars
<1>2. CASE Summarise
  <2>1. CASE runRow = NoRow
    BY <1>2, <2>1 DEF Summarise, HistoryInv, Reported, collectorVars
  <2>2. CASE runRow # NoRow
    <3>1. PICK k \in 0 .. 5 : runRow' = RowAfter(runRow, tracker, k)
      BY <1>2, <2>2 DEF Summarise
    <3>2. runRow' # NoRow /\ (runRow'.completed => runRow'.status \in {"completed", "cancelled"})
      BY <1>0, <2>2, <3>1, RowAfterFacts DEF HistoryInv
    <3>3. runRow'.status # "none"
      <4>1. runRow'.status = IF k >= 1 THEN RunStatus(tracker) ELSE runRow.status
        BY <3>1 DEF RowAfter
      <4>. QED  BY <2>2, <4>1 DEF RunStatus, HistoryInv
    <3>4. UNCHANGED <<entries, events, cur>>
      BY <1>2 DEF Summarise, collectorVars
    <3>. QED  BY <3>2, <3>3, <3>4 DEF HistoryInv, Reported
  <2>. QED  BY <2>1, <2>2
<1>3. ASSUME NEW j \in Jobs, Start(j) PROVE HistoryInv'
  <2>1. events[j] = <<>>
    BY <1>3 DEF Start, DeliveryInv
  <2>2. Len(events[j]) = 0
    BY <2>1
  <2>3. entries[j] = <<>>
    BY <1>q, <2>2
  <2>4. \A x \in Jobs : x # j => events'[x] = events[x]
    BY <1>0, <1>3 DEF Start
  <2>. QED  BY <1>3, <2>3, <2>4 DEF Start, HistoryInv, Reported, collectorVars
<1>4. CASE Recv
  <2>. DEFINE j == Head(results)
  <2>1. j \in Jobs /\ events[j] = <<"Started">>
    BY <1>4, HeadFacts DEF Recv
  <2>2. Len(events[j]) = 1
    BY <2>1
  <2>3. entries[j] = <<>>
    <3>. HIDE DEF j
    <3>. QED  BY <1>q, <2>1, <2>2
  <2>4. cur' = j /\ UNCHANGED <<entries, runRow>> /\ \A x \in Jobs : x # j => events'[x] = events[x]
    BY <1>0, <1>4 DEF Recv
  <2>. HIDE DEF j
  <2>. QED  BY <2>1, <2>3, <2>4 DEF HistoryInv, Reported
<1>5. CASE Persist
  <2>1. cur \in Jobs /\ cur' = NoJob /\ Reported(cur) /\ UNCHANGED <<events, runRow>>
    BY <1>5 DEF Persist, PhaseInv, DeliveryInv, TypeOK, Jobs
  <2>2. entries[cur] = <<>>
    BY <1>q, <2>1
  <2>3. \/ entries' = entries
        \/ /\ runRow # NoRow
           /\ entries' = [entries EXCEPT ![cur] = Append(<<>>, EntryOf(outcome[cur]))]
    BY <1>5, <2>2 DEF Persist
  <2>4. Len(Append(<<>>, EntryOf(outcome[cur]))) = 1
    <3>1. EntryOf(outcome[cur]) \in EntryRows /\ <<>> \in Seq(EntryRows)
      BY EmptySeq DEF EntryOf, EntryRows
    <3>. QED  BY <3>1, AppendProperties, EmptySeq
  <2>5. \A x \in Jobs : x # cur => entries'[x] = entries[x]
    BY <1>0, <2>3
  <2>6. entries'[cur] # <<>> => Len(entries'[cur]) = 1 /\ runRow # NoRow
    BY <1>0, <2>1, <2>2, <2>3, <2>4
  <2>. QED  BY <2>1, <2>5, <2>6 DEF HistoryInv, Reported
<1>6. CASE UNCHANGED <<entries, events, cur, runRow>>
  BY <1>6 DEF HistoryInv, Reported
<1>. QED  BY <1>1, <1>2, <1>3, <1>4, <1>5, <1>6
          DEF Next, Coordinator, Worker, Collector, Finished, vars, CheckCancel, Acquire, StartCollector,
              JoinWorkers, Announce, GitEnd, Return, Send, CollectorEnd, Cancel, workerVars,
              collectorVars

----------------------------------------------------------------------------
(* The counters and the records made from them *)

\* A job is reported exactly when its second event, its outcome, is out; its
\* worker has ended by then.
LEMMA ReportedFacts ==
  ASSUME TypeOK, DeliveryInv, NEW j \in Jobs
  PROVE  /\ Reported(j) <=> events[j] = <<"Started", outcome[j]>>
         /\ Reported(j) => w[j] = "exited"
         /\ events[j] = <<"Started">> => ~Reported(j)
         /\ events[j] = <<>> => ~Reported(j)
<1>1. Len(<<"Started", outcome[j]>>) = 2
  BY TwoEvents
<1>2. events[j] = <<>> => Len(events[j]) = 0
  OBVIOUS
<1>3. events[j] = <<"Started">> => Len(events[j]) = 1
  OBVIOUS
<1>4. w[j] # "exited" => events[j] = <<>> \/ events[j] = <<"Started">>
  BY DEF TypeOK, DeliveryInv, WorkerStates
<1>5. events[j] = <<>> \/ events[j] = <<"Started">> \/ events[j] = <<"Started", outcome[j]>>
  <2>1. w[j] = "exited" => events[j] = <<"Started">> \/ events[j] = <<"Started", outcome[j]>>
    BY DEF DeliveryInv
  <2>. QED  BY <1>4, <2>1
<1>6. Reported(j) <=> Len(events[j]) = 2
  BY DEF Reported
<1>7. Reported(j) <=> events[j] = <<"Started", outcome[j]>>
  <2>1. CASE events[j] = <<>>
    BY <1>1, <1>2, <1>6, <2>1
  <2>2. CASE events[j] = <<"Started">>
    BY <1>1, <1>3, <1>6, <2>2
  <2>3. CASE events[j] = <<"Started", outcome[j]>>
    BY <1>1, <1>6, <2>3
  <2>. QED  BY <1>5, <2>1, <2>2, <2>3
<1>8. events[j] = <<>> \/ events[j] = <<"Started">> => ~Reported(j)
  BY <1>2, <1>3, <1>6
<1>. QED  BY <1>4, <1>7, <1>8

\* How the number of jobs counted under an outcome follows a report.
LEMMA OneMoreReport ==
  ASSUME IInv, Recv, NEW o
  PROVE  Cardinality(ReportedAs(o)') = Cardinality(ReportedAs(o)) + One(outcome[Head(results)] = o)
<1>. DEFINE j == Head(results)
<1>i. TypeOK /\ DeliveryInv
  BY DEF IInv
<1>0. ReportedAs(o) \in SUBSET Jobs /\ Cardinality(ReportedAs(o)) \in Nat
  BY JobSets DEF ReportedAs
<1>1. j \in Jobs /\ events[j] = <<"Started">>
  BY HeadFacts DEF Recv
<1>2. ~Reported(j)
  BY <1>1, <1>i, ReportedFacts
<1>3. outcome' = outcome /\ events' = [events EXCEPT ![j] = <<"Started", outcome[j]>>]
  BY <1>1, TwoEvents DEF Recv, workerVars
<1>4. events \in [Jobs -> Seq(EventNames)]
  BY <1>i DEF TypeOK
<1>. HIDE DEF j
<1>5. Len(events'[j]) = 2 /\ \A x \in Jobs : x # j => events'[x] = events[x]
  BY <1>1, <1>3, <1>4, TwoEvents
<1>6. CASE outcome[j] = o
  <2>1. ReportedAs(o)' = ReportedAs(o) \cup {j} /\ j \notin ReportedAs(o)
    BY <1>1, <1>2, <1>3, <1>5, <1>6 DEF ReportedAs, Reported
  <2>. QED  BY <1>0, <1>1, <1>6, <2>1, JobJoins DEF One, j
<1>7. CASE outcome[j] # o
  <2>1. ReportedAs(o)' = ReportedAs(o)
    BY <1>1, <1>3, <1>5, <1>7 DEF ReportedAs, Reported
  <2>. QED  BY <1>0, <1>7, <2>1 DEF One, j
<1>. QED  BY <1>6, <1>7

LEMMA TallyStep ==
  ASSUME IInv, [Next]_vars
  PROVE  TallyInv'
<1>i. TypeOK /\ DispatchInv /\ PhaseInv /\ WorkerInv /\ DeliveryInv /\ TallyInv
  BY DEF IInv
<1>0. /\ tracker \in Counts /\ events \in [Jobs -> Seq(EventNames)]
      /\ outcome \in [Jobs -> {"none"} \cup Outcomes] /\ w \in [Jobs -> WorkerStates]
  BY <1>i DEF TypeOK
<1>1. ASSUME NEW j \in Jobs, Start(j) PROVE TallyInv'
  <2>1. /\ w[j] = "spawned" /\ events[j] = <<>> /\ UNCHANGED <<pc, outcome, tracker, summary>>
        /\ active' = active \cup {j}
    BY <1>1, <1>i DEF Start, DeliveryInv
  <2>2. events' = [events EXCEPT ![j] = <<"Started">>]
    BY <1>1, <2>1 DEF Start
  <2>3. /\ Len(events'[j]) # 2 /\ events'[j] = <<"Started">>
        /\ \A x \in Jobs : x # j => events'[x] = events[x]
    BY <1>0, <2>2
  <2>4. Len(events[j]) # 2
    BY <2>1
  <2>5. \A o : ReportedAs(o)' = ReportedAs(o)
    BY <2>1, <2>3, <2>4 DEF ReportedAs, Reported
  <2>6. WithOutcome("Success")' = WithOutcome("Success")
    BY <2>1 DEF WithOutcome
  <2>7. \A x \in Jobs : x \in active' <=> events'[x] = <<"Started">>
    BY <1>i, <2>1, <2>3 DEF TallyInv
  <2>. QED  BY <1>i, <2>1, <2>5, <2>6, <2>7 DEF TallyInv
<1>2. ASSUME NEW j \in Jobs, Return(j) PROVE TallyInv'
  <2>. DEFINE o == OutcomeOf(op[j], gitRes[j], cancel)
  <2>1. /\ w[j] = "returned" /\ outcome' = [outcome EXCEPT ![j] = o]
        /\ tracker' = [tracker EXCEPT !.cloned = tracker.cloned + One(o = "Success")]
        /\ UNCHANGED <<pc, events, active, summary>>
    BY <1>2 DEF Return
  <2>2. outcome[j] = "none" /\ events[j] = <<"Started">> /\ pc \notin {"announce", "done"}
    BY <1>i, <2>1 DEF WorkerInv, DeliveryInv, PhaseInv
  <2>3. ~Reported(j)
    BY <1>i, <2>2, ReportedFacts
  <2>. HIDE DEF o
  <2>4. outcome'[j] = o /\ \A x \in Jobs : x # j => outcome'[x] = outcome[x]
    BY <1>0, <2>1
  <2>5. ASSUME NEW q PROVE ReportedAs(q)' = ReportedAs(q)
    BY <2>1, <2>3, <2>4 DEF ReportedAs, Reported
  <2>6. Cardinality(WithOutcome("Success")') = Cardinality(WithOutcome("Success")) + One(o = "Success")
    <3>0. WithOutcome("Success") \in SUBSET Jobs /\ Cardinality(WithOutcome("Success")) \in Nat
      BY JobSets DEF WithOutcome
    <3>1. CASE o = "Success"
      <4>1. WithOutcome("Success")' = WithOutcome("Success") \cup {j} /\ j \notin WithOutcome("Success")
        BY <2>2, <2>4, <3>1 DEF WithOutcome
      <4>. QED  BY <3>0, <3>1, <4>1, JobJoins DEF One
    <3>2. CASE o # "Success"
      <4>1. WithOutcome("Success")' = WithOutcome("Success")
        BY <2>2, <2>4, <3>2 DEF WithOutcome
      <4>. QED  BY <3>0, <3>2, <4>1 DEF One
    <3>. QED  BY <3>1, <3>2
  <2>7. /\ tracker'.cloned = tracker.cloned + One(o = "Success")
        /\ tracker'.updated = tracker.updated /\ tracker'.up_to_date = tracker.up_to_date
        /\ tracker'.failed = tracker.failed /\ tracker'.succeeded = tracker.succeeded
        /\ tracker'.completed = tracker.completed
    BY <1>0, <2>1 DEF Counts
  <2>. QED  BY <1>i, <2>1, <2>2, <2>5, <2>6, <2>7 DEF TallyInv
<1>3. CASE Recv
  <2>. DEFINE j == Head(results)
  <2>1. /\ j \in Jobs /\ events[j] = <<"Started">> /\ outcome[j] \in Outcomes
        /\ pc \notin {"announce", "done"}
    BY <1>3, <1>i, HeadFacts DEF Recv, PhaseInv
  <2>2. /\ tracker' = Counted(tracker, outcome[j]) /\ active' = active \ {j}
        /\ UNCHANGED <<pc, outcome>>
    BY <1>3 DEF Recv, workerVars
  <2>3. events' = [events EXCEPT ![j] = <<"Started", outcome[j]>>]
    BY <1>3, <2>1, TwoEvents DEF Recv
  <2>4. /\ Cardinality(ReportedAs("Updated")') = Cardinality(ReportedAs("Updated")) + One(outcome[j] = "Updated")
        /\ Cardinality(ReportedAs("UpToDate")') = Cardinality(ReportedAs("UpToDate")) + One(outcome[j] = "UpToDate")
        /\ Cardinality(ReportedAs("Failed")') = Cardinality(ReportedAs("Failed")) + One(outcome[j] = "Failed")
    BY <1>3, OneMoreReport
  <2>. HIDE DEF j
  <2>5. /\ tracker'.cloned = tracker.cloned
        /\ tracker'.updated = tracker.updated + One(outcome[j] = "Updated")
        /\ tracker'.up_to_date = tracker.up_to_date + One(outcome[j] = "UpToDate")
        /\ tracker'.failed = tracker.failed + One(outcome[j] = "Failed")
        /\ tracker'.succeeded = tracker.succeeded + One(outcome[j] # "Failed")
        /\ tracker'.completed = tracker.completed + 1
    BY <2>2 DEF Counted
  <2>6. One(outcome[j] # "Failed") + One(outcome[j] = "Failed") = 1
    BY DEF One
  <2>7. tracker'.succeeded + tracker'.failed = tracker'.completed
    <3>1. /\ tracker.succeeded \in Nat /\ tracker.failed \in Nat
          /\ One(outcome[j] # "Failed") \in Nat /\ One(outcome[j] = "Failed") \in Nat
      BY <1>0 DEF Counts, One
    <3>2. tracker.succeeded + tracker.failed = tracker.completed
      BY <1>i DEF TallyInv
    <3>. QED  BY <2>5, <2>6, <3>1, <3>2
  <2>8. \A x \in Jobs : x \in active' <=> events'[x] = <<"Started">>
    <3>1. events'[j] # <<"Started">>
      <4>1. Len(events'[j]) = 2
        BY <1>0, <2>1, <2>3, TwoEvents
      <4>2. Len(<<"Started">>) = 1
        OBVIOUS
      <4>. QED  BY <4>1, <4>2
    <3>2. \A x \in Jobs : x # j => events'[x] = events[x]
      BY <1>0, <2>1, <2>3
    <3>. QED  BY <1>i, <2>2, <3>1, <3>2 DEF TallyInv
  <2>9. WithOutcome("Success")' = WithOutcome("Success")
    BY <2>2 DEF WithOutcome
  <2>. QED  BY <1>i, <2>1, <2>2, <2>4, <2>5, <2>7, <2>8, <2>9 DEF TallyInv
<1>4. CASE /\ UNCHANGED <<outcome, events, tracker, active>>
           /\ pc' \in {"announce", "done"} => summary' = tracker
  <2>1. \A o : ReportedAs(o)' = ReportedAs(o)
    BY <1>4 DEF ReportedAs, Reported
  <2>2. WithOutcome("Success")' = WithOutcome("Success")
    BY <1>4 DEF WithOutcome
  <2>. QED  BY <1>i, <1>4, <2>1, <2>2 DEF TallyInv
<1>5. CASE Coordinator
  <2>1. UNCHANGED <<outcome, events, tracker, active>>
    BY <1>5 DEF Coordinator, Plan, CheckCancel, Acquire, StartCollector, JoinWorkers, Summarise, Announce,
                workerVars
  <2>2. pc' \in {"announce", "done"} => summary' = tracker
    BY <1>5, <1>i DEF Coordinator, Plan, CheckCancel, Acquire, StartCollector, JoinWorkers, Summarise,
                Announce, TallyInv
  <2>. QED  BY <1>4, <2>1, <2>2
<1>6. CASE UNCHANGED <<pc, outcome, events, tracker, active, summary>>
  BY <1>4, <1>6, <1>i DEF TallyInv
<1>. QED  BY <1>1, <1>2, <1>3, <1>5, <1>6
          DEF Next, Worker, Collector, Finished, vars, GitEnd, Send, Persist, CollectorEnd, Cancel,
              workerVars

\* Without faults every database call takes effect.
LEMMA NoFaults == ~DbFaults => DbCall = {TRUE}
BY DEF DbCall

LEMMA RecordStep ==
  ASSUME IInv, [Next]_vars
  PROVE  RecordInv'
<1>. SUFFICES ASSUME ~DbFaults PROVE RecordInv'
  BY DEF RecordInv
<1>i. TypeOK /\ DispatchInv /\ PhaseInv /\ DeliveryInv /\ HistoryInv /\ TallyInv /\ RecordInv
  BY DEF IInv
<1>0. /\ events \in [Jobs -> Seq(EventNames)] /\ entries \in [Jobs -> Seq(EntryRows)]
      /\ w \in [Jobs -> WorkerStates] /\ known \in [Jobs -> BOOLEAN]
  BY <1>i DEF TypeOK
<1>1. CASE Plan
  <2>1. runRow' = OpenRow
    <3>1. PICK ok \in DbCall : runRow' = IF ok THEN OpenRow ELSE NoRow
      BY <1>1 DEF Plan
    <3>2. ok = TRUE
      BY <3>1, NoFaults
    <3>. QED  BY Zenon, <3>1, <3>2
  <2>2. OpenRow.status = "running" /\ NoRow.status = "none"
    BY DEF OpenRow, NoRow, FreshRow
  <2>3. runRow' # NoRow
    BY <2>1, <2>2
  <2>. QED  BY <1>1, <1>i, <2>3 DEF Plan, RecordInv, Reported, collectorVars
<1>2. CASE Acquire
  <2>1. next \in Jobs /\ w' = [w EXCEPT ![next] = "spawned"]
    BY <1>2, NextIsIdle DEF Acquire
  <2>2. \A j \in Jobs : w'[j] \notin {"idle", "spawned"} => w[j] \notin {"idle", "spawned"}
    BY <1>0, <2>1
  <2>. QED  BY <1>2, <1>i, <2>2 DEF Acquire, RecordInv, Reported, collectorVars
<1>3. CASE Summarise
  <2>1. runRow # NoRow /\ pc' = "announce" /\ summary' = tracker
    BY <1>3, <1>i DEF Summarise, RecordInv
  <2>2. runRow' = RowAfter(runRow, tracker, 5)
    BY <1>3, <2>1 DEF Summarise
  <2>3. /\ runRow'.completed /\ runRow'.cloned = tracker.cloned
        /\ runRow'.updated = tracker.updated /\ runRow'.failed = tracker.failed
    <3>1. runRow'.completed = (5 >= 2)
      BY Zenon, <2>2 DEF RowAfter
    <3>2. /\ runRow'.cloned = tracker.cloned
          /\ runRow'.updated = tracker.updated /\ runRow'.failed = tracker.failed
      BY <2>2 DEF RowAfter
    <3>3. (5 >= 2) = TRUE
      OBVIOUS
    <3>. QED  BY Zenon, <3>1, <3>2, <3>3
  <2>4. runRow' # NoRow
    <3>1. runRow.status # "none" /\ runRow \in RunRows /\ tracker \in Counts
      BY <1>i, <2>1 DEF HistoryInv, TypeOK, RunRows
    <3>. QED  BY <2>2, <3>1, RowAfterFacts
  <2>. QED  BY <1>3, <1>i, <2>1, <2>3, <2>4 DEF Summarise, RecordInv, Reported, workerVars, collectorVars
<1>4. ASSUME NEW j \in Jobs, Start(j) PROVE RecordInv'
  <2>1. /\ known' = [known EXCEPT ![j] = TRUE] /\ w' = [w EXCEPT ![j] = "git"]
        /\ events[j] = <<>> /\ UNCHANGED <<pc, outcome, entries, cur, runRow, summary>>
    BY <1>4, <1>i, NoFaults DEF Start, DeliveryInv, collectorVars
  <2>2. events' = [events EXCEPT ![j] = <<"Started">>]
    BY <1>4, <2>1 DEF Start
  <2>3. Len(events'[j]) = 1 /\ \A x \in Jobs : x # j => events'[x] = events[x]
    BY <1>0, <2>2
  <2>4. \A x \in Jobs : w'[x] \notin {"idle", "spawned"} => known'[x]
    BY <1>0, <1>i, <2>1 DEF RecordInv
  <2>. QED  BY <1>i, <2>1, <2>3, <2>4 DEF RecordInv, Reported
<1>5. ASSUME NEW j \in Jobs, GitEnd(j) \/ Return(j) \/ Send(j) PROVE RecordInv'
  <2>1. /\ w[j] \in {"git", "returned", "sending"} /\ \A x \in Jobs : x # j => w'[x] = w[x] /\ outcome'[x] = outcome[x]
        /\ UNCHANGED <<pc, known, events, entries, cur, runRow, summary>>
    BY <1>0, <1>5, <1>i DEF GitEnd, Return, Send, collectorVars, TypeOK
  <2>2. ~Reported(j)
    BY <1>i, <2>1, ReportedFacts
  <2>. QED  BY <1>i, <2>1, <2>2 DEF RecordInv, Reported
<1>6. CASE Recv
  <2>. DEFINE j == Head(results)
  <2>1. /\ j \in Jobs /\ cur' = j /\ coll = "recv" /\ UNCHANGED <<pc, w, known, outcome, entries, runRow, summary>>
        /\ \A x \in Jobs : x # j => events'[x] = events[x]
    BY <1>0, <1>6, HeadFacts DEF Recv, workerVars
  <2>2. cur = NoJob
    BY <1>i, <2>1 DEF PhaseInv
  <2>. HIDE DEF j
  <2>3. NoJob \notin Jobs
    BY ConstantFacts
  <2>. QED  BY <1>i, <2>1, <2>2, <2>3 DEF RecordInv, Reported
<1>7. CASE Persist
  <2>1. /\ cur \in Jobs /\ cur' = NoJob /\ Reported(cur)
        /\ UNCHANGED <<pc, w, known, outcome, events, runRow, summary>>
    BY <1>7, <1>i, ConstantFacts DEF Persist, PhaseInv, DeliveryInv, TypeOK, Jobs, workerVars
  <2>2. w[cur] = "exited"
    BY <1>i, <2>1, ReportedFacts
  <2>3. pc # "plan"
    BY <1>7, <1>i DEF Persist, PhaseInv
  <2>4. known[cur] /\ runRow # NoRow
    BY <1>i, <2>1, <2>2, <2>3 DEF RecordInv
  <2>5. entries[cur] = <<>>
    BY <1>i, <2>1 DEF HistoryInv
  <2>6. entries' = [entries EXCEPT ![cur] = <<EntryOf(outcome[cur])>>]
    <3>1. entries' = [entries EXCEPT ![cur] = Append(entries[cur], EntryOf(outcome[cur]))]
      <4>1. PICK ok \in DbCall :
              entries' = IF ok /\ runRow # NoRow /\ known[cur]
                         THEN [entries EXCEPT ![cur] = Append(entries[cur], EntryOf(outcome[cur]))] ELSE entries
        BY <1>7 DEF Persist
      <4>2. ok = TRUE
        BY <4>1, NoFaults
      <4>. QED  BY Zenon, <2>4, <4>1, <4>2
    <3>2. Append(<<>>, EntryOf(outcome[cur])) = <<EntryOf(outcome[cur])>>
      OBVIOUS
    <3>. QED  BY <2>5, <3>1, <3>2
  <2>7. entries'[cur] = <<EntryOf(outcome[cur])>> /\ \A x \in Jobs : x # cur => entries'[x] = entries[x]
    BY <1>0, <2>1, <2>6
  <2>. QED  BY <1>i, <2>1, <2>7 DEF RecordInv, Reported
<1>8. CASE /\ UNCHANGED <<w, known, outcome, events, entries, cur, runRow, summary>>
           /\ pc = "plan" => pc' = "plan"
           /\ pc' \in {"announce", "done"} => pc \in {"announce", "done"}
  <2>1. pc' # "plan" => runRow' # NoRow
    BY Zenon, <1>8, <1>i DEF RecordInv
  <2>2. \A j \in Jobs : w'[j] \notin {"idle", "spawned"} => known'[j]
    BY Zenon, <1>8, <1>i DEF RecordInv
  <2>3. \A j \in Jobs : Reported(j)' /\ j # cur' => entries'[j] = <<EntryOf(outcome'[j])>>
    BY <1>8, <1>i DEF RecordInv, Reported
  <2>4. pc' \in {"announce", "done"} =>
          /\ runRow'.completed
          /\ runRow'.cloned = summary'.cloned
          /\ runRow'.updated = summary'.updated
          /\ runRow'.failed = summary'.failed
    BY Zenon, <1>8, <1>i DEF RecordInv
  <2>. QED  BY Zenon, <2>1, <2>2, <2>3, <2>4 DEF RecordInv
<1>. QED  BY <1>1, <1>2, <1>3, <1>4, <1>5, <1>6, <1>7, <1>8
          DEF Next, Coordinator, Worker, Collector, Finished, vars, CheckCancel, StartCollector,
              JoinWorkers, Announce, CollectorEnd, Cancel, workerVars, collectorVars

----------------------------------------------------------------------------
(* The inductive invariant *)

LEMMA InitIInv == Init => IInv
<1>. SUFFICES ASSUME Init PROVE IInv
  OBVIOUS
<1>1. TypeOK
  BY InitType
<1>2. Live = {} /\ Exited = {}
  BY DEF Init, Live, Exited
<1>3. PermitsConserved
  BY <1>2, FS_EmptySet, ConstantFacts DEF Init, PermitsConserved
<1>4. ChannelInv
  <2>1. tracker.completed = 0 /\ Len(results) = 0
    BY DEF Init, NoCounts
  <2>. QED  BY <1>2, <2>1, FS_EmptySet DEF ChannelInv
<1>5. DispatchInv /\ PhaseInv /\ WorkerInv /\ DiskInv /\ OutcomeHonest
  BY ConstantFacts DEF Init, DispatchInv, PhaseInv, WorkerInv, DiskInv, OutcomeHonest, Jobs
<1>6. DeliveryInv
  BY ConstantFacts DEF Init, DeliveryInv
<1>7. HistoryInv
  BY DEF Init, HistoryInv, NoRow, FreshRow
<1>8. TallyInv
  <2>1. \A j \in Jobs : events[j] = <<>> /\ Len(events[j]) = 0 /\ outcome[j] = "none"
    BY DEF Init
  <2>2. \A o : ReportedAs(o) = {}
    BY <2>1 DEF ReportedAs, Reported
  <2>3. WithOutcome("Success") = {}
    BY <2>1 DEF WithOutcome
  <2>4. \A j \in Jobs : events[j] # <<"Started">>
    BY <2>1
  <2>5. /\ tracker.cloned = 0 /\ tracker.updated = 0 /\ tracker.up_to_date = 0
        /\ tracker.failed = 0 /\ tracker.succeeded = 0 /\ tracker.completed = 0
    BY DEF Init, NoCounts
  <2>6. pc = "plan" /\ active = {}
    BY DEF Init
  <2>7. Cardinality({}) = 0
    BY FS_EmptySet
  <2>8. /\ \A j \in Jobs : j \in active <=> events[j] = <<"Started">>
        /\ pc \in {"announce", "done"} => summary = tracker
    BY <2>4, <2>6
  <2>9. tracker.succeeded + tracker.failed = tracker.completed
    BY <2>5
  <2>. QED  BY <2>2, <2>3, <2>5, <2>7, <2>8, <2>9 DEF TallyInv
<1>9. RecordInv
  <2>1. \A j \in Jobs : events[j] = <<>> /\ Len(events[j]) = 0
    BY DEF Init
  <2>. QED  BY <2>1 DEF Init, RecordInv, Reported
<1>. QED  BY <1>1, <1>3, <1>4, <1>5, <1>6, <1>7, <1>8, <1>9 DEF IInv

LEMMA StepIInv == IInv /\ [Next]_vars => IInv'
BY TypeStep, PermitsStep, DispatchStep, PhaseStep, WorkerStep, DiskStep, HonestStep, ChannelStep,
   DeliveryStep, HistoryStep, TallyStep, RecordStep
   DEF IInv

\* Every reachable state satisfies the inductive invariant.
THEOREM Invariance == Spec => []IInv
BY InitIInv, StepIInv, PTL DEF Spec

\* The types of the variables, for every plan, concurrency and fault pattern.
THEOREM TypeCorrect == Spec => []TypeOK
BY Invariance, PTL DEF IInv

\* The semaphore's permits are conserved: none is lost, whatever the outcome
\* of a job, and none is handed out twice.
THEOREM PermitsAreConserved == Spec => []PermitsConserved
BY Invariance, PTL DEF IInv

\* The result channel never makes a worker wait, although nobody receives
\* from it before the last dispatch: its capacity exceeds the number of jobs.
THEOREM SendersNeverBlock == Spec => []SenderNeverBlocks
<1>1. IInv => SenderNeverBlocks
  <2>. SUFFICES ASSUME IInv, NEW j \in Jobs, w[j] = "sending" PROVE Len(results) < Capacity
    BY DEF SenderNeverBlocks
  <2>1. Len(results) < N /\ results \in Seq(Jobs)
    BY RoomToSend DEF IInv, TypeOK
  <2>. QED  BY <2>1, ConstantFacts
<1>. QED  BY <1>1, Invariance, PTL

\* As long as nobody cancels, an outcome says what happened: failure exactly
\* for a git call that failed, success only with the repository on disk.
THEOREM OutcomesAreHonest == Spec => []OutcomeHonest
BY Invariance, PTL DEF IInv

\* A cancellation stops the dispatch of jobs at once, up to the one whose
\* check of the flag came before it.
THEOREM CancellationStopsDispatch == Spec => []CancelStopsDispatch
<1>1. IInv => CancelStopsDispatch
  BY DEF IInv, DispatchInv, CancelStopsDispatch
<1>. QED  BY <1>1, Invariance, PTL

\* The history stays well formed whichever database calls fail.
THEOREM HistorySafe == Spec => []FaultyHistorySafe
<1>1. IInv => FaultyHistorySafe
  <2>. SUFFICES ASSUME IInv PROVE FaultyHistorySafe
    OBVIOUS
  <2>1. runRow.completed => runRow.status \in {"completed", "cancelled"}
    BY DEF IInv, HistoryInv
  <2>2. ASSUME NEW j \in Jobs PROVE Len(entries[j]) <= 1
    <3>1. CASE entries[j] = <<>>
      BY <3>1
    <3>2. CASE entries[j] # <<>>
      <4>1. Len(entries[j]) = 1
        BY Zenon, <3>2 DEF IInv, HistoryInv
      <4>. QED  BY <4>1
    <3>. QED  BY <3>1, <3>2
  <2>3. \A j \in Jobs : entries[j] # <<>> => Reported(j) /\ runRow # NoRow
    BY DEF IInv, HistoryInv
  <2>. QED  BY <2>1, <2>2, <2>3 DEF FaultyHistorySafe
<1>. QED  BY <1>1, Invariance, PTL

\* What a run that has ended has told of its jobs.
LEMMA ToldWhenDone == IInv => EveryStartIsTold
<1>. SUFFICES ASSUME IInv, pc = "done"
              PROVE  /\ \A j \in Jobs : events[j] = IF j < next THEN <<"Started", outcome[j]>> ELSE <<>>
                     /\ next < N => cancel
  BY DEF EveryStartIsTold
<1>1. results = <<>> /\ \A j \in Jobs : w[j] \in {"idle", "exited"}
  BY DEF IInv, PhaseInv
<1>2. (next = N \/ cancel) /\ next \in 0 .. N
  BY DEF IInv, DispatchInv, TypeOK
<1>3. ASSUME NEW j \in Jobs PROVE events[j] = IF j < next THEN <<"Started", outcome[j]>> ELSE <<>>
  <2>1. (w[j] = "idle") <=> (next <= j)
    BY DEF IInv, DispatchInv
  <2>2. j \in Nat /\ next \in Nat
    BY <1>2, ConstantFacts DEF Jobs
  <2>3. CASE w[j] = "idle"
    <3>1. events[j] = <<>>
      BY <2>3 DEF IInv, DeliveryInv
    <3>. QED  BY <2>1, <2>2, <2>3, <3>1
  <2>4. CASE w[j] = "exited"
    <3>1. events[j] = <<"Started", outcome[j]>>
      BY <1>1, <2>4 DEF IInv, DeliveryInv
    <3>. QED  BY <2>1, <2>2, <2>4, <3>1
  <2>. QED  BY <1>1, <2>3, <2>4
<1>. QED  BY <1>2, <1>3

\* When the summary has been announced, every job that got a worker has been
\* told to the user interface, start before outcome and each once, and a job
\* without a worker was dropped by a cancellation.
THEOREM AnnouncedRunIsTold == Spec => []EveryStartIsTold
BY ToldWhenDone, Invariance, PTL

\* The jobs with a worker are those below next, so once the collector has ended
\* as many have exited, and been reported, as have been dispatched.
LEMMA AllExited ==
  ASSUME IInv, pc \in {"announce", "done"}
  PROVE  /\ results = <<>> /\ next \in 0 .. N
         /\ \A j \in Jobs : j < next <=> w[j] = "exited"
         /\ \A j \in Jobs : w[j] = "exited" <=> outcome[j] # "none"
         /\ \A j \in Jobs : w[j] = "exited" <=> Reported(j)
         /\ Cardinality(Exited) = next
<1>i. TypeOK /\ DispatchInv /\ PhaseInv /\ WorkerInv /\ DeliveryInv
  BY DEF IInv
<1>1. results = <<>> /\ next \in 0 .. N /\ \A j \in Jobs : w[j] \in {"idle", "exited"}
  BY <1>i DEF PhaseInv, TypeOK
<1>2. \A j \in Jobs : j < next <=> w[j] = "exited"
  BY <1>i, <1>1, ConstantFacts DEF DispatchInv, Jobs
<1>3. \A j \in Jobs : w[j] = "exited" <=> outcome[j] # "none"
  BY <1>i, <1>1 DEF WorkerInv
<1>4. \A j \in Jobs : w[j] = "exited" <=> Reported(j)
  <2>. SUFFICES ASSUME NEW j \in Jobs, w[j] = "exited" PROVE Reported(j)
    BY <1>i, ReportedFacts
  <2>1. events[j] = <<"Started", outcome[j]>>
    BY <1>i, <1>1 DEF DeliveryInv
  <2>. QED  BY <1>i, <2>1, ReportedFacts
<1>5. Cardinality(Exited) = next
  <2>1. Exited = 0 .. next - 1
    BY <1>1, <1>2, ConstantFacts DEF Exited, Jobs
  <2>. QED  BY <1>1, <2>1, FS_Interval
<1>. QED  BY <1>1, <1>2, <1>3, <1>4, <1>5

LEMMA StartIsAnEvent == <<>> # <<"Started">>
<1>1. Len(<<"Started">>) = 1 /\ Len(<<>>) = 0
  OBVIOUS
<1>. QED  BY <1>1

\* The announced summary accounts for every job that was started: each one told
\* exactly once, none still active, and every counter the number of jobs with
\* that outcome.
THEOREM AnnouncedRunComplete == Spec => []AnnouncedRunIsComplete
<1>1. IInv => AnnouncedRunIsComplete
  <2>. SUFFICES ASSUME IInv, pc = "done" PROVE AnnouncedRunIsComplete
    BY DEF AnnouncedRunIsComplete
  <2>i. TypeOK /\ ChannelInv /\ DeliveryInv /\ TallyInv
    BY DEF IInv
  <2>1. EveryStartIsTold
    BY ToldWhenDone
  <2>2. active = {}
    <3>1. \A j \in Jobs : events[j] # <<"Started">>
      <4>. SUFFICES ASSUME NEW j \in Jobs, events[j] = <<"Started">> PROVE FALSE
        OBVIOUS
      <4>1. w[j] # "exited"
        BY AllExited, <2>i, ReportedFacts
      <4>2. w[j] = "idle"
        BY <4>1 DEF IInv, PhaseInv
      <4>3. events[j] = <<>>
        BY <2>i, <4>2 DEF DeliveryInv
      <4>. QED  BY <4>3, StartIsAnEvent
    <3>. QED  BY <2>i, <3>1 DEF TallyInv, TypeOK
  <2>3. \A o \in Outcomes : WithOutcome(o) = ReportedAs(o)
    <3>1. \A j \in Jobs : outcome[j] # "none" => Reported(j)
      BY AllExited
    <3>. QED  BY <3>1 DEF WithOutcome, ReportedAs, Outcomes
  <2>4. summary = tracker
    BY <2>i DEF TallyInv
  <2>5. tracker.completed = next
    <3>1. Len(results) = 0 /\ tracker.completed \in Nat
      BY AllExited, <2>i DEF TypeOK, Counts
    <3>. QED  BY AllExited, <2>i, <3>1 DEF ChannelInv
  <2>6. "Updated" \in Outcomes /\ "UpToDate" \in Outcomes /\ "Failed" \in Outcomes
    BY DEF Outcomes
  <2>. QED  BY <2>i, <2>1, <2>2, <2>3, <2>4, <2>5, <2>6 DEF AnnouncedRunIsComplete, TallyInv
<1>. QED  BY <1>1, Invariance, PTL

\* If no database call failed, the counts in the row of a finished run are
\* those of its entries, failures of whatever operation, and every job that was
\* started has one.
THEOREM HistoryAgreesWithRun == Spec => []HistoryAgrees
<1>1. IInv => HistoryAgrees
  <2>. SUFFICES ASSUME IInv, pc = "done", ~DbFaults PROVE HistoryAgrees
    BY DEF HistoryAgrees
  <2>i. TypeOK /\ PhaseInv /\ HistoryInv /\ TallyInv /\ RecordInv
    BY DEF IInv
  <2>1. cur = NoJob /\ NoJob \notin Jobs
    BY <2>i, ConstantFacts DEF PhaseInv
  <2>2. \A j \in Jobs : Reported(j) => entries[j] = <<EntryOf(outcome[j])>>
    BY <2>i, <2>1 DEF RecordInv
  <2>3. \A j \in Jobs : ~Reported(j) => entries[j] = <<>>
    BY <2>i DEF HistoryInv
  <2>4. \A j \in Jobs : Len(entries[j]) = One(j < next)
    <3>. SUFFICES ASSUME NEW j \in Jobs PROVE Len(entries[j]) = One(j < next)
      OBVIOUS
    <3>1. j < next <=> Reported(j)
      BY AllExited
    <3>2. CASE Reported(j)
      <4>1. entries[j] = <<EntryOf(outcome[j])>>
        BY <2>2, <3>2
      <4>2. Len(entries[j]) = 1
        BY <4>1
      <4>. QED  BY <3>1, <3>2, <4>2 DEF One
    <3>3. CASE ~Reported(j)
      <4>1. Len(entries[j]) = 0
        BY <2>3, <3>3
      <4>. QED  BY <3>1, <3>3, <4>1 DEF One
    <3>. QED  BY <3>2, <3>3
  <2>5. ASSUME NEW rows, NEW o \in Outcomes, EntryOf(o) \in rows
        PROVE  ReportedAs(o) \subseteq FiledAs(rows)
    BY <2>2, <2>5 DEF ReportedAs, FiledAs
  <2>6. ASSUME NEW rows, NEW o \in Outcomes, \A q \in Outcomes : EntryOf(q) \in rows <=> q = o
        PROVE  ReportedAs(o) = FiledAs(rows)
    <3>1. \A j \in Jobs : Reported(j) => outcome[j] \in Outcomes
      BY <2>i, AllExited DEF TypeOK
    <3>2. \A j \in Jobs : \A row \in rows :
            entries[j] = <<row>> => Reported(j) /\ EntryOf(outcome[j]) = row
      BY <2>2, <2>3
    <3>. QED  BY <2>2, <2>6, <3>1, <3>2 DEF ReportedAs, FiledAs
  <2>7. /\ \A q \in Outcomes : EntryOf(q) \in {<<"clone", "success">>} <=> q = "Success"
        /\ \A q \in Outcomes : EntryOf(q) \in {"clone", "sync"} \X {"failed"} <=> q = "Failed"
        /\ EntryOf("Updated") \in {<<"sync", "success">>}
        /\ {"Success", "Failed", "Updated"} \subseteq Outcomes
    BY DEF EntryOf, Outcomes
  <2>8. ReportedAs("Success") = WithOutcome("Success")
    BY AllExited DEF ReportedAs, WithOutcome
  <2>9. /\ runRow.completed
        /\ runRow.cloned = Cardinality(ReportedAs("Success"))
        /\ runRow.failed = Cardinality(ReportedAs("Failed"))
        /\ runRow.updated = Cardinality(ReportedAs("Updated"))
    BY <2>i, <2>8 DEF RecordInv, TallyInv
  <2>10. Cardinality(ReportedAs("Updated")) <= Cardinality(FiledAs({<<"sync", "success">>}))
    <3>1. FiledAs({<<"sync", "success">>}) \in SUBSET Jobs
      BY DEF FiledAs
    <3>. QED  BY <2>5, <2>7, <3>1, JobSets, FS_Subset
  <2>. QED  BY <2>4, <2>6, <2>7, <2>9, <2>10 DEF HistoryAgrees
<1>. QED  BY <1>1, Invariance, PTL

\* Nothing of a run moves once its counters have been loaded: every task it
\* spawned has ended by then.
THEOREM RunIsQuiescent == Spec => QuiescentOnceDone
<1>. DEFINE Ended == pc = "announce" \/ pc = "done"
            Still == UNCHANGED <<w, results, coll, tracker, disk, local, entries, events, summary>>
<1>1. IInv /\ [Next]_vars => [Ended => Still]_vars
  <2>. SUFFICES ASSUME IInv, Next, Ended PROVE Still
    OBVIOUS
  <2>1. coll = "done" /\ \A j \in Jobs : w[j] \in {"idle", "exited"}
    BY DEF IInv, PhaseInv
  <2>2. ~(\E j \in Jobs : Worker(j) \/ GitEnd(j))
    BY <2>1 DEF Worker, Start, Return, Send, GitEnd
  <2>3. ~Collector
    BY <2>1 DEF Collector, Recv, Persist, CollectorEnd
  <2>4. CASE Coordinator
    BY <2>4 DEF Coordinator, Plan, CheckCancel, Acquire, StartCollector, JoinWorkers, Summarise,
                Announce, workerVars, collectorVars
  <2>5. CASE Cancel \/ Finished
    BY <2>5 DEF Cancel, Finished, vars, workerVars, collectorVars
  <2>. QED  BY <2>2, <2>3, <2>4, <2>5 DEF Next
<1>. QED  BY <1>1, Invariance, PTL DEF Spec, QuiescentOnceDone
=============================================================================
