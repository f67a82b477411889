------------------------ MODULE SyncEngineRefinement ------------------------
(***************************************************************************)
(* The sync engine implements SyncRun, for every plan, concurrency and     *)
(* fault pattern.  A job is pending until Acquire spawns its worker,       *)
(* running until Send ends it, finished until Recv reports it; Announce    *)
(* closes the run, Cancel is Cancel, and every other step is invisible.    *)
(***************************************************************************)
EXTENDS SyncEngineProofs

\* What a job is in the abstract run, by the state of its worker.
LEMMA RunJobFacts ==
  ASSUME IInv, NEW j \in Jobs
  PROVE  /\ w[j] = "idle" => RunJob(j) = "pending"
         /\ w[j] \notin {"idle", "exited"} => RunJob(j) = "running"
         /\ w[j] = "exited" /\ ~Reported(j) => RunJob(j) = "finished"
         /\ Reported(j) => RunJob(j) = "reported" /\ w[j] = "exited"
         /\ w[j] # "exited" => RunVerdict(j) = "none"
         /\ w[j] = "exited" => RunVerdict(j) = IF outcome[j] = "Failed" THEN "failed" ELSE "ok"
<1>1. Reported(j) => w[j] = "exited"
  BY ReportedFacts DEF IInv
<1>. QED  BY <1>1 DEF RunJob, RunVerdict

\* SyncRun counts as the engine does.
LEMMA SameCardinality == \A S : Run!Cardinality(S) = Cardinality(S)
BY DEF Run!Cardinality, Cardinality

LEMMA InitRefines == Init => Run!Init
<1>. SUFFICES ASSUME Init PROVE Run!Init
  OBVIOUS
<1>1. \A j \in Jobs : RunJob(j) = "pending" /\ RunVerdict(j) = "none"
  BY DEF Init, RunJob, RunVerdict
<1>2. [j \in Jobs |-> RunJob(j)] = [j \in Jobs |-> "pending"]
  BY <1>1
<1>3. [j \in Jobs |-> RunVerdict(j)] = [j \in Jobs |-> "none"]
  BY <1>1
<1>4. cancel \in BOOLEAN /\ (pc = "done") = FALSE
  BY DEF Init
<1>5. RunTally = [ok |-> 0, failed |-> 0]
  BY DEF Init, RunTally
<1>. QED  BY <1>2, <1>3, <1>4, <1>5 DEF Run!Init, Run!NoTally

\* A step that leaves every job where it is, and neither cancels nor ends the
\* run, is invisible.
LEMMA Invisible ==
  ASSUME \A j \in Jobs : RunJob(j)' = RunJob(j) /\ RunVerdict(j)' = RunVerdict(j),
         cancel' = cancel, (pc' = "done") = (pc = "done"), RunTally' = RunTally
  PROVE  UNCHANGED Run!vars
BY DEF Run!vars

\* The totals announced are the numbers of jobs by their verdict.
LEMMA TotalsOfTheRun ==
  ASSUME IInv, pc = "announce"
  PROVE  /\ summary.cloned + summary.updated + summary.up_to_date
              = Cardinality({j \in Jobs : RunVerdict(j) = "ok"})
         /\ summary.failed = Cardinality({j \in Jobs : RunVerdict(j) = "failed"})
<1>i. TypeOK /\ TallyInv
  BY DEF IInv
<1>. DEFINE C == WithOutcome("Success")
            U == ReportedAs("Updated")
            K == ReportedAs("UpToDate")
<1>1. \A j \in Jobs : w[j] = "exited" <=> outcome[j] \in Outcomes
  <2>1. \A j \in Jobs : outcome[j] \in {"none"} \cup Outcomes
    BY <1>i DEF TypeOK
  <2>2. "none" \notin Outcomes
    BY DEF Outcomes
  <2>. QED  BY <2>1, <2>2, AllExited
<1>2. \A j \in Jobs : Reported(j) <=> outcome[j] \in Outcomes
  BY <1>1, AllExited
<1>3. {j \in Jobs : RunVerdict(j) = "ok"} = (C \cup U) \cup K
  BY <1>1, <1>2 DEF RunVerdict, WithOutcome, ReportedAs, Outcomes
<1>4. {j \in Jobs : RunVerdict(j) = "failed"} = ReportedAs("Failed")
  BY <1>1, <1>2 DEF RunVerdict, ReportedAs, Outcomes
<1>5. C \in SUBSET Jobs /\ U \in SUBSET Jobs /\ K \in SUBSET Jobs /\ C \cup U \in SUBSET Jobs
  BY DEF WithOutcome, ReportedAs
<1>6. C \cap U = {} /\ (C \cup U) \cap K = {}
  BY DEF WithOutcome, ReportedAs
<1>. HIDE DEF C, U, K
<1>7. IsFiniteSet(C) /\ IsFiniteSet(U) /\ IsFiniteSet(K) /\ IsFiniteSet(C \cup U)
  BY <1>5, JobSets
<1>8. /\ Cardinality(C \cup U) = Cardinality(C) + Cardinality(U) - Cardinality(C \cap U)
      /\ Cardinality((C \cup U) \cup K)
           = Cardinality(C \cup U) + Cardinality(K) - Cardinality((C \cup U) \cap K)
  BY <1>7, FS_Union
<1>9. Cardinality(C \cap U) = 0 /\ Cardinality((C \cup U) \cap K) = 0
  BY <1>6, FS_EmptySet
<1>10. Cardinality(C) \in Nat /\ Cardinality(U) \in Nat /\ Cardinality(K) \in Nat
  BY <1>5, JobSets
<1>11. Cardinality((C \cup U) \cup K) = Cardinality(C) + Cardinality(U) + Cardinality(K)
  BY <1>8, <1>9, <1>10
<1>12. /\ summary.cloned = Cardinality(C) /\ summary.updated = Cardinality(U)
       /\ summary.up_to_date = Cardinality(K) /\ summary.failed = Cardinality(ReportedAs("Failed"))
  BY <1>i DEF TallyInv, C, U, K
<1>. QED  BY <1>3, <1>4, <1>11, <1>12

LEMMA BeginStep ==
  ASSUME IInv, Acquire
  PROVE  \E j \in Jobs : Run!Begin(j)
<1>i. TypeOK /\ PermitsConserved
  BY DEF IInv
<1>1. PICK j \in Jobs : w[j] = "idle" /\ w' = [w EXCEPT ![j] = "spawned"]
  BY NextIsIdle DEF Acquire
<1>2. w'[j] = "spawned" /\ \A x \in Jobs : x # j => w'[x] = w[x]
  BY <1>1, <1>i DEF TypeOK
<1>3. UNCHANGED <<events, outcome, cancel>> /\ pc # "done" /\ pc' # "done"
  BY DEF Acquire
<1>4. RunJob(j) = "pending" /\ RunJob(j)' = "running"
  <2>1. w'[j] # "idle" /\ w'[j] # "exited"
    BY <1>2
  <2>2. RunJob(j)' = "running"
    BY Zenon, <2>1 DEF RunJob
  <2>. QED  BY <1>1, <2>2, RunJobFacts
<1>5. \A x \in Jobs : x # j => RunJob(x)' = RunJob(x)
  BY <1>2, <1>3 DEF RunJob, Reported
<1>6. \A x \in Jobs : RunVerdict(x)' = RunVerdict(x)
  BY <1>1, <1>2, <1>3 DEF RunVerdict
<1>7. {x \in Jobs : RunJob(x) = "running"} = Live
  <2>1. \A x \in Jobs : RunJob(x) = "running" <=> w[x] \notin {"idle", "exited"}
    BY RunJobFacts
  <2>. QED  BY <2>1 DEF Live
<1>8. Cardinality(Live) < Permits
  <2>1. Cardinality(Live) \in Nat /\ permits \in Nat /\ permits > 0
    BY JobSets, <1>i, ConstantFacts DEF Live, TypeOK, Acquire
  <2>. QED  BY <1>i, <2>1, ConstantFacts DEF PermitsConserved
<1>9. RunTally' = RunTally
  BY <1>3 DEF RunTally
<1>10. [x \in Jobs |-> RunJob(x)'] = [[x \in Jobs |-> RunJob(x)] EXCEPT ![j] = "running"]
  BY Zenon, <1>1, <1>4, <1>5
<1>11. {y \in Jobs : [x \in Jobs |-> RunJob(x)][y] = "running"} = {x \in Jobs : RunJob(x) = "running"}
  BY Zenon
<1>12. Run!Cardinality(Run!InState("running")) < Permits
  BY <1>7, <1>8, <1>11, SameCardinality DEF Run!InState
<1>13. [x \in Jobs |-> RunJob(x)][j] = "pending"
  BY <1>4
<1>14. [x \in Jobs |-> RunVerdict(x)'] = [x \in Jobs |-> RunVerdict(x)]
  BY Zenon, <1>6
<1>. QED  BY <1>1, <1>3, <1>9, <1>10, <1>12, <1>13, <1>14 DEF Run!Begin

LEMMA FinishStep ==
  ASSUME IInv, NEW j \in Jobs, Send(j)
  PROVE  \E v \in Run!Verdicts : Run!Finish(j, v)
<1>i. TypeOK /\ DeliveryInv
  BY DEF IInv
<1>. DEFINE v == IF outcome[j] = "Failed" THEN "failed" ELSE "ok"
<1>1. w[j] = "sending" /\ w' = [w EXCEPT ![j] = "exited"] /\ events[j] = <<"Started">>
  BY <1>i DEF Send, DeliveryInv
<1>2. w'[j] = "exited" /\ \A x \in Jobs : x # j => w'[x] = w[x]
  BY <1>1, <1>i DEF TypeOK
<1>3. UNCHANGED <<events, outcome, cancel, pc, summary>>
  BY DEF Send, collectorVars
<1>4. ~Reported(j) /\ ~Reported(j)'
  BY <1>1, <1>3, <1>i, ReportedFacts DEF Reported
<1>5. RunJob(j) = "running" /\ RunJob(j)' = "finished"
  <2>1. w'[j] # "idle" /\ w'[j] = "exited"
    BY <1>2
  <2>2. RunJob(j)' = "finished"
    BY Zenon, <1>4, <2>1 DEF RunJob
  <2>. QED  BY <1>1, <2>2, RunJobFacts
<1>6. \A x \in Jobs : x # j => RunJob(x)' = RunJob(x) /\ RunVerdict(x)' = RunVerdict(x)
  BY <1>2, <1>3 DEF RunJob, RunVerdict, Reported
<1>7. RunVerdict(j)' = v
  BY <1>2, <1>3 DEF RunVerdict
<1>8. v \in Run!Verdicts
  BY DEF Run!Verdicts
<1>9. RunTally' = RunTally
  BY <1>3 DEF RunTally
<1>. HIDE DEF v
<1>10. [x \in Jobs |-> RunJob(x)'] = [[x \in Jobs |-> RunJob(x)] EXCEPT ![j] = "finished"]
  BY <1>5, <1>6
<1>11. [x \in Jobs |-> RunVerdict(x)'] = [[x \in Jobs |-> RunVerdict(x)] EXCEPT ![j] = v]
  BY <1>6, <1>7
<1>. QED  BY <1>3, <1>5, <1>8, <1>9, <1>10, <1>11 DEF Run!Finish

LEMMA ReportStep ==
  ASSUME IInv, Recv
  PROVE  \E j \in Jobs : Run!Report(j)
<1>i. TypeOK /\ DeliveryInv
  BY DEF IInv
<1>1. PICK j \in Jobs : j = Head(results) /\ w[j] = "exited" /\ events[j] = <<"Started">>
  BY HeadFacts DEF Recv
<1>2. events' = [events EXCEPT ![j] = <<"Started", outcome[j]>>]
  BY <1>1, TwoEvents DEF Recv
<1>3. UNCHANGED <<w, outcome, cancel, pc, summary>>
  BY DEF Recv, workerVars
<1>4. Len(events'[j]) = 2 /\ \A x \in Jobs : x # j => events'[x] = events[x]
  BY <1>1, <1>2, <1>i, TwoEvents DEF TypeOK
<1>5. ~Reported(j) /\ Reported(j)'
  BY <1>1, <1>4, <1>i, ReportedFacts DEF Reported
<1>6. RunJob(j) = "finished" /\ RunJob(j)' = "reported"
  <2>1. w'[j] # "idle" /\ w'[j] = "exited"
    BY <1>1, <1>3
  <2>2. RunJob(j)' = "reported"
    BY Zenon, <1>5, <2>1 DEF RunJob
  <2>. QED  BY <1>1, <1>5, <2>2, RunJobFacts
<1>7. \A x \in Jobs : x # j => RunJob(x)' = RunJob(x)
  BY <1>3, <1>4 DEF RunJob, Reported
<1>8. \A x \in Jobs : RunVerdict(x)' = RunVerdict(x)
  BY <1>3 DEF RunVerdict
<1>9. RunTally' = RunTally
  BY <1>3 DEF RunTally
<1>10. [x \in Jobs |-> RunJob(x)'] = [[x \in Jobs |-> RunJob(x)] EXCEPT ![j] = "reported"]
  BY <1>1, <1>6, <1>7
<1>. QED  BY <1>1, <1>3, <1>6, <1>8, <1>9, <1>10 DEF Run!Report

LEMMA CloseStep ==
  ASSUME IInv, Announce
  PROVE  Run!Close
<1>1. pc = "announce" /\ pc' = "done" /\ UNCHANGED <<w, events, outcome, cancel, summary>>
  BY DEF Announce, workerVars
<1>2. \A j \in Jobs : RunJob(j) = "reported" \/ (RunJob(j) = "pending" /\ cancel)
  <2>. SUFFICES ASSUME NEW j \in Jobs, RunJob(j) # "reported"
                PROVE  RunJob(j) = "pending" /\ cancel
    OBVIOUS
  <2>1. w[j] # "exited"
    BY <1>1, AllExited, RunJobFacts
  <2>2. w[j] = "idle"
    BY <1>1, <2>1 DEF IInv, PhaseInv
  <2>3. next # N
    BY <2>2, ConstantFacts DEF IInv, DispatchInv, TypeOK, Jobs
  <2>. QED  BY <1>1, <2>2, <2>3 DEF RunJob, IInv, DispatchInv
<1>3. \A j \in Jobs : RunJob(j)' = RunJob(j) /\ RunVerdict(j)' = RunVerdict(j)
  BY <1>1 DEF RunJob, RunVerdict, Reported
<1>4. RunTally' = [ok |-> summary.cloned + summary.updated + summary.up_to_date, failed |-> summary.failed]
  BY <1>1 DEF RunTally
<1>5. /\ {j \in Jobs : [x \in Jobs |-> RunVerdict(x)][j] = "ok"} = {j \in Jobs : RunVerdict(j) = "ok"}
      /\ {j \in Jobs : [x \in Jobs |-> RunVerdict(x)][j] = "failed"} = {j \in Jobs : RunVerdict(j) = "failed"}
  OBVIOUS
<1>6. RunTally' = [ok |-> Run!Cardinality({j \in Jobs : [x \in Jobs |-> RunVerdict(x)][j] = "ok"}),
                   failed |-> Run!Cardinality({j \in Jobs : [x \in Jobs |-> RunVerdict(x)][j] = "failed"})]
  BY Zenon, <1>1, <1>4, <1>5, TotalsOfTheRun, SameCardinality
<1>7. \A j \in Jobs : [x \in Jobs |-> RunJob(x)][j] = "reported"
                      \/ ([x \in Jobs |-> RunJob(x)][j] = "pending" /\ cancel)
  BY <1>2
<1>8. /\ [x \in Jobs |-> RunJob(x)'] = [x \in Jobs |-> RunJob(x)]
      /\ [x \in Jobs |-> RunVerdict(x)'] = [x \in Jobs |-> RunVerdict(x)]
  BY Zenon, <1>3
<1>. QED  BY <1>1, <1>6, <1>7, <1>8 DEF Run!Close

LEMMA StepRefines ==
  ASSUME IInv, [Next]_vars
  PROVE  [Run!Next]_(Run!vars)
<1>i. TypeOK
  BY DEF IInv
<1>1. CASE Acquire
  BY <1>1, BeginStep DEF Run!Next
<1>2. ASSUME NEW j \in Jobs, Send(j) PROVE Run!Next
  BY <1>2, FinishStep DEF Run!Next
<1>3. CASE Recv
  BY <1>3, ReportStep DEF Run!Next
<1>4. CASE Announce
  BY <1>4, CloseStep DEF Run!Next
<1>5. CASE Cancel
  <2>1. UNCHANGED <<w, events, outcome, pc, summary>> /\ ~cancel /\ cancel' = TRUE
    BY <1>5 DEF Cancel, workerVars
  <2>2. \A j \in Jobs : RunJob(j)' = RunJob(j) /\ RunVerdict(j)' = RunVerdict(j)
    BY <2>1 DEF RunJob, RunVerdict, Reported
  <2>3. RunTally' = RunTally
    BY <2>1 DEF RunTally
  <2>. QED  BY <2>1, <2>2, <2>3 DEF Run!Cancel, Run!Next
<1>6. ASSUME NEW j \in Jobs, Start(j) \/ GitEnd(j) \/ Return(j) PROVE UNCHANGED Run!vars
  <2>1. /\ w[j] \in {"spawned", "git", "returned"} /\ w'[j] \in {"git", "returned", "sending"}
        /\ \A x \in Jobs : x # j => w'[x] = w[x] /\ events'[x] = events[x] /\ outcome'[x] = outcome[x]
        /\ UNCHANGED <<cancel, pc, summary>>
    BY <1>6, <1>i DEF Start, GitEnd, Return, TypeOK, collectorVars
  <2>2. \A x \in Jobs : RunJob(x)' = RunJob(x) /\ RunVerdict(x)' = RunVerdict(x)
    BY <2>1 DEF RunJob, RunVerdict, Reported
  <2>3. RunTally' = RunTally
    BY <2>1 DEF RunTally
  <2>. QED  BY <2>1, <2>2, <2>3, Invisible
<1>7. CASE /\ UNCHANGED <<w, events, outcome, cancel>>
           /\ (pc' = "done") = (pc = "done")
           /\ pc = "done" => summary' = summary
  <2>1. \A j \in Jobs : RunJob(j)' = RunJob(j) /\ RunVerdict(j)' = RunVerdict(j)
    BY <1>7 DEF RunJob, RunVerdict, Reported
  <2>2. RunTally' = RunTally
    BY <1>7 DEF RunTally
  <2>. QED  BY <1>7, <2>1, <2>2, Invisible
<1>8. CASE Plan \/ CheckCancel \/ StartCollector \/ JoinWorkers \/ Summarise \/ Persist \/ CollectorEnd
  BY <1>7, <1>8 DEF Plan, CheckCancel, StartCollector, JoinWorkers, Summarise, Persist, CollectorEnd,
                    workerVars, collectorVars
<1>9. CASE UNCHANGED vars
  BY <1>7, <1>9 DEF vars, workerVars, collectorVars
<1>. QED  BY <1>1, <1>2, <1>3, <1>4, <1>5, <1>6, <1>8, <1>9
          DEF Next, Coordinator, Worker, Collector, Finished

\* Every behaviour of the engine is one of the abstract run: no job is lost,
\* begun beyond the limit or reported twice, the run closes only when each job
\* is reported or was dropped by a cancellation, and with the right totals.
THEOREM EngineImplementsRun == Spec => RunSpec
<1>1. Init => Run!Init
  BY InitRefines
<1>2. IInv /\ [Next]_vars => [Run!Next]_(Run!vars)
  BY StepRefines
<1>. QED  BY <1>1, <1>2, Invariance, PTL DEF Spec, RunSpec, Run!Spec
=============================================================================
