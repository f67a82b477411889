---------------------------- MODULE SyncEngine ----------------------------
(***************************************************************************)
(* One sync run (crates/git-vacuum-service/src/sync_engine.rs): the        *)
(* coordinator resolves a plan and starts one worker per job, bounded by a *)
(* semaphore; workers run the git operation and send their outcome into a  *)
(* bounded channel; the collector, started only when the dispatch loop is  *)
(* over, counts, reports and persists the outcomes; the coordinator joins  *)
(* the workers, then the collector, and announces the summary.             *)
(*                                                                         *)
(* The repositories of a request are pairwise different, so a job stands   *)
(* for its repository as well.  Skip and Mirror are never planned and      *)
(* JobOutcome::Cancelled is never built: they have no value here.          *)
(***************************************************************************)
EXTENDS Integers, Sequences, FiniteSets

CONSTANTS N,            \* jobs of the plan
          Concurrency,  \* SyncRequest.concurrency
          DbFaults      \* whether a database call may fail

ASSUME NAssumption == N \in Nat
ASSUME ConcurrencyAssumption == Concurrency \in Nat
ASSUME DbFaultsAssumption == DbFaults \in BOOLEAN

Jobs == 0 .. N-1
NoJob == N

\* Semaphore::new(concurrency.max(1))
Permits == IF Concurrency = 0 THEN 1 ELSE Concurrency

\* A channel sized for the workers instead of for the plan.
Capacity_PerWorker == Permits

\* mpsc::channel(effective_total.max(1) * 2)
Capacity == 2 * (IF N = 0 THEN 1 ELSE N)

VARIABLES
  pc,        \* where the coordinator is in run()
  next,      \* the jobs below it have been given a worker
  permits,   \* free permits of the semaphore
  cancel,    \* the watch channel's value
  cancelAt,  \* history: the dispatches that the cancellation allows
  op,        \* op[j]: the planned operation
  w,         \* w[j]: where the worker of j is
  gitRes,    \* gitRes[j]: how the blocking git call ended
  outcome,   \* outcome[j]: the JobOutcome the worker built
  known,     \* known[j]: the worker found the repository's row id
  active,    \* the keys of tracker.active
  results,   \* the result channel
  coll,      \* where the collector is
  cur,       \* the job it is persisting
  tracker,   \* the counters of ProgressTracker
  disk,      \* disk[j]: whether a repository exists at the local path
  local,     \* local[j]: the repos row's local status ("Prior": untouched)
  runRow,    \* the sync_runs row
  entries,   \* entries[j]: the sync_entries row
  events,    \* events[j]: what app_tx was told of the job
  summary    \* the SyncSummary

workerVars == <<op, w, gitRes, outcome, known, disk, local>>
collectorVars == <<coll, cur, entries>>
vars == <<pc, next, permits, cancel, cancelAt, op, w, gitRes, outcome, known,
          active, results, coll, cur, tracker, disk, local, runRow, entries,
          events, summary>>

\* The possible results of a best-effort database call: TRUE if it took effect.
DbCall == IF DbFaults THEN BOOLEAN ELSE {TRUE}

One(b) == IF b THEN 1 ELSE 0

NoCounts == [completed |-> 0, succeeded |-> 0, failed |-> 0, updated |-> 0,
             up_to_date |-> 0, cloned |-> 0, cancelled |-> 0]

FreshRow(s) == [status |-> s, completed |-> FALSE, cloned |-> 0, updated |-> 0, failed |-> 0]
NoRow == FreshRow("none")
OpenRow == FreshRow("running")

\* Failure treated as success whether or not the run was cancelled.
OutcomeOf_ErrorIsOk(o, res, cancelled) ==
  IF res = "broken" THEN "Failed"
  ELSE IF o = "Clone" THEN "Success"
  ELSE IF res = "news" THEN "Updated" ELSE "UpToDate"

\* What a job amounts to once its git call has ended with res.  The wrapper
\* around libgit2 answers Ok(cancelled: true) whenever the flag is up, with
\* zero new commits, even if the call failed; only a call that could not be
\* made ("broken": create_dir_all failed or the blocking task was lost) is an
\* error regardless.  The worker does not look at the cancelled field.
OutcomeOf(o, res, cancelled) ==
  IF res = "broken" \/ (res = "error" /\ ~cancelled) THEN "Failed"
  ELSE IF o = "Clone" THEN "Success"
  ELSE IF res = "news" /\ ~cancelled THEN "Updated" ELSE "UpToDate"

\* The repos row after the worker's update_local_status: Cloned, with commits
\* still behind after an update; a failed job leaves the row alone.
LocalAfter(o, prior) ==
  CASE o = "Failed"  -> prior
    [] o = "Updated" -> "Behind"
    [] OTHER         -> "Cloned"

\* Collector::process on the counters.
Counted(t, o) ==
  [completed  |-> t.completed + 1,
   succeeded  |-> t.succeeded + One(o # "Failed"),
   failed     |-> t.failed + One(o = "Failed"),
   updated    |-> t.updated + One(o = "Updated"),
   up_to_date |-> t.up_to_date + One(o = "UpToDate"),
   cloned     |-> t.cloned,
   cancelled  |-> t.cancelled]

\* The sync_entries row of an outcome; a failure is filed under "clone"
\* whatever the operation was.
EntryOf(o) ==
  CASE o = "Success" -> <<"clone", "success">>
    [] o = "Failed"  -> <<"clone", "failed">>
    [] OTHER         -> <<"sync", "success">>

RunStatus(s) == IF s.cancelled > 0 THEN "cancelled" ELSE "completed"

\* completed_at written before the status.
RowAfter_DateFirst(row, s, k) ==
  [status    |-> IF k >= 2 THEN RunStatus(s) ELSE row.status,
   completed |-> k >= 1,
   cloned    |-> IF k >= 3 THEN s.cloned ELSE 0,
   updated   |-> IF k >= 4 THEN s.updated ELSE 0,
   failed    |-> IF k >= 5 THEN s.failed ELSE 0]

\* update_sync_run is five UPDATEs without a transaction; the row after the
\* first k of them took effect.
RowAfter(row, s, k) ==
  [status    |-> IF k >= 1 THEN RunStatus(s) ELSE row.status,
   completed |-> k >= 2,
   cloned    |-> IF k >= 3 THEN s.cloned ELSE 0,
   updated   |-> IF k >= 4 THEN s.updated ELSE 0,
   failed    |-> IF k >= 5 THEN s.failed ELSE 0]

Init ==
  /\ pc = "plan"
  /\ next = 0
  /\ permits = Permits
  /\ cancel \in BOOLEAN  \* nothing resets the flag after an earlier run
  /\ cancelAt = IF cancel THEN 0 ELSE N
  /\ op = [j \in Jobs |-> "none"]
  /\ w = [j \in Jobs |-> "idle"]
  /\ gitRes = [j \in Jobs |-> "none"]
  /\ outcome = [j \in Jobs |-> "none"]
  /\ known = [j \in Jobs |-> FALSE]
  /\ active = {}
  /\ results = <<>>
  /\ coll = "off"
  /\ cur = NoJob
  /\ tracker = NoCounts
  /\ disk \in [Jobs -> {"absent", "repo"}]
  /\ local = [j \in Jobs |-> "Prior"]
  /\ runRow = NoRow
  /\ entries = [j \in Jobs |-> <<>>]
  /\ events = [j \in Jobs |-> <<>>]
  /\ summary = NoCounts

----------------------------------------------------------------------------
\* The coordinator.

\* resolve_plan, then insert_sync_run(..).ok().
Plan ==
  /\ pc = "plan"
  /\ pc' = "loop"
  /\ op' = [j \in Jobs |-> IF disk[j] = "repo" THEN "Sync" ELSE "Clone"]
  /\ \E ok \in DbCall : runRow' = IF ok THEN OpenRow ELSE NoRow
  /\ UNCHANGED <<next, permits, cancel, cancelAt, w, gitRes, outcome, known, active,
                 results, collectorVars, tracker, disk, local, events, summary>>

\* The dispatch loop without its look at the cancel flag.
CheckCancel_Unchecked ==
  /\ pc = "loop"
  /\ next < N
  /\ pc' = "acquire"
  /\ UNCHANGED <<next, permits, cancel, cancelAt, workerVars, active, results,
                 collectorVars, tracker, runRow, events, summary>>

\* The top of the dispatch loop: the flag is down, so wait for a permit.
CheckCancel ==
  /\ pc = "loop"
  /\ next < N
  /\ ~cancel
  /\ pc' = "acquire"
  /\ UNCHANGED <<next, permits, cancel, cancelAt, workerVars, active, results,
                 collectorVars, tracker, runRow, events, summary>>

\* A worker is spawned whether or not a permit is free.
Acquire_Unbounded ==
  /\ pc = "acquire"
  /\ pc' = "loop"
  /\ permits' = permits - 1
  /\ w' = [w EXCEPT ![next] = "spawned"]
  /\ next' = next + 1
  /\ UNCHANGED <<cancel, cancelAt, op, gitRes, outcome, known, disk, local, active,
                 results, collectorVars, tracker, runRow, events, summary>>

\* The permit is granted and the worker spawned; the flag is not read again.
Acquire ==
  /\ pc = "acquire"
  /\ permits > 0
  /\ pc' = "loop"
  /\ permits' = permits - 1
  /\ w' = [w EXCEPT ![next] = "spawned"]
  /\ next' = next + 1
  /\ UNCHANGED <<cancel, cancelAt, op, gitRes, outcome, known, disk, local, active,
                 results, collectorVars, tracker, runRow, events, summary>>

\* The loop is left, by its end or by the flag, and the collector is spawned.
StartCollector ==
  /\ pc = "loop"
  /\ next = N \/ cancel
  /\ pc' = "join"
  /\ coll' = "recv"
  /\ UNCHANGED <<next, permits, cancel, cancelAt, workerVars, active, results, cur,
                 entries, tracker, runRow, events, summary>>

\* Every worker handle is joined and the coordinator's sender is dropped.
JoinWorkers ==
  /\ pc = "join"
  /\ \A j \in Jobs : j < next => w[j] = "exited"
  /\ pc' = "drain"
  /\ UNCHANGED <<next, permits, cancel, cancelAt, workerVars, active, results,
                 collectorVars, tracker, runRow, events, summary>>

\* The summary taken without waiting for the collector.
Summarise_NoAwait ==
  /\ pc = "drain"
  /\ pc' = "announce"
  /\ summary' = tracker
  /\ IF runRow = NoRow
     THEN UNCHANGED runRow
     ELSE \E k \in IF DbFaults THEN 0 .. 5 ELSE {5} : runRow' = RowAfter(runRow, tracker, k)
  /\ UNCHANGED <<next, permits, cancel, cancelAt, workerVars, active, results,
                 collectorVars, tracker, events>>

\* The collector has ended: load the counters and close the sync_runs row.
Summarise ==
  /\ pc = "drain"
  /\ coll = "done"
  /\ pc' = "announce"
  /\ summary' = tracker
  /\ IF runRow = NoRow
     THEN UNCHANGED runRow
     ELSE \E k \in IF DbFaults THEN 0 .. 5 ELSE {5} : runRow' = RowAfter(runRow, tracker, k)
  /\ UNCHANGED <<next, permits, cancel, cancelAt, workerVars, active, results,
                 collectorVars, tracker, events>>

\* SyncAllCompleted is sent and run() returns.
Announce ==
  /\ pc = "announce"
  /\ pc' = "done"
  /\ UNCHANGED <<next, permits, cancel, cancelAt, workerVars, active, results,
                 collectorVars, tracker, runRow, events, summary>>

----------------------------------------------------------------------------
\* The worker of job j, holding a permit from Acquire to Send.

\* Look up the row id, register in tracker.active, send Sync{Clone,Fetch}Started
\* and hand the git call to the blocking pool.
Start(j) ==
  /\ w[j] = "spawned"
  /\ w' = [w EXCEPT ![j] = "git"]
  /\ \E ok \in DbCall : known' = [known EXCEPT ![j] = ok]
  /\ active' = active \cup {j}
  /\ events' = [events EXCEPT ![j] = Append(@, "Started")]
  /\ UNCHANGED <<pc, next, permits, cancel, cancelAt, op, gitRes, outcome, disk, local,
                 results, collectorVars, tracker, runRow, summary>>

GitResults(o) == {"done", "error", "broken"} \cup (IF o = "Sync" THEN {"news"} ELSE {})

\* The blocking call ends by itself: the cancel flag cannot interrupt it.  Only
\* a clone that worked changes the disk (libgit2 removes what a failed one left).
GitEnd(j) ==
  /\ w[j] = "git"
  /\ w' = [w EXCEPT ![j] = "returned"]
  /\ \E res \in GitResults(op[j]) :
       /\ gitRes' = [gitRes EXCEPT ![j] = res]
       /\ disk' = IF op[j] = "Clone" /\ res = "done" THEN [disk EXCEPT ![j] = "repo"] ELSE disk
  /\ UNCHANGED <<pc, next, permits, cancel, cancelAt, op, outcome, known, local, active,
                 results, collectorVars, tracker, runRow, events, summary>>

\* The wrapper reads the flag; the worker counts a clone, writes the local
\* status and builds its outcome.
Return(j) ==
  LET o == OutcomeOf(op[j], gitRes[j], cancel)
  IN  /\ w[j] = "returned"
      /\ w' = [w EXCEPT ![j] = "sending"]
      /\ outcome' = [outcome EXCEPT ![j] = o]
      /\ tracker' = [tracker EXCEPT !.cloned = @ + One(o = "Success")]
      /\ \E ok \in DbCall :
           local' = IF ok THEN [local EXCEPT ![j] = LocalAfter(o, @)] ELSE local
      /\ UNCHANGED <<pc, next, permits, cancel, cancelAt, op, gitRes, known, disk, active,
                     results, collectorVars, runRow, events, summary>>

\* The task ends without dropping its permit.
Send_KeepPermit(j) ==
  /\ w[j] = "sending"
  /\ Len(results) < Capacity
  /\ results' = Append(results, j)
  /\ w' = [w EXCEPT ![j] = "exited"]
  /\ UNCHANGED <<pc, next, permits, cancel, cancelAt, op, gitRes, outcome, known, disk, local,
                 active, collectorVars, tracker, runRow, events, summary>>

\* result_tx.send(outcome).await, then the task ends: its sender and its permit
\* are dropped.
Send(j) ==
  /\ w[j] = "sending"
  /\ Len(results) < Capacity
  /\ results' = Append(results, j)
  /\ w' = [w EXCEPT ![j] = "exited"]
  /\ permits' = permits + 1
  /\ UNCHANGED <<pc, next, cancel, cancelAt, op, gitRes, outcome, known, disk, local, active,
                 collectorVars, tracker, runRow, events, summary>>

----------------------------------------------------------------------------
\* The collector.

\* The outcome is read but left in the channel.
Recv_Peek ==
  /\ coll = "recv"
  /\ results # <<>>
  /\ LET j == Head(results)
     IN  /\ cur' = j
         /\ tracker' = Counted(tracker, outcome[j])
         /\ active' = active \ {j}
         /\ events' = [events EXCEPT ![j] = Append(@, outcome[j])]
  /\ results' = IF Len(results) > 1 THEN Tail(results) ELSE results
  /\ coll' = "persist"
  /\ UNCHANGED <<pc, next, permits, cancel, cancelAt, workerVars, entries, runRow, summary>>

\* The finished job stays registered as active.
Recv_KeepActive ==
  /\ coll = "recv"
  /\ results # <<>>
  /\ LET j == Head(results)
     IN  /\ cur' = j
         /\ tracker' = Counted(tracker, outcome[j])
         /\ events' = [events EXCEPT ![j] = Append(@, outcome[j])]
  /\ results' = Tail(results)
  /\ coll' = "persist"
  /\ UNCHANGED <<pc, next, permits, cancel, cancelAt, workerVars, active, entries, runRow,
                 summary>>

\* Take an outcome, count it, take the job off the active list, tell the user
\* interface (the event is named by the outcome it carries).
Recv ==
  /\ coll = "recv"
  /\ results # <<>>
  /\ LET j == Head(results)
     IN  /\ cur' = j
         /\ tracker' = Counted(tracker, outcome[j])
         /\ active' = active \ {j}
         /\ events' = [events EXCEPT ![j] = Append(@, outcome[j])]
  /\ results' = Tail(results)
  /\ coll' = "persist"
  /\ UNCHANGED <<pc, next, permits, cancel, cancelAt, workerVars, entries, runRow, summary>>

\* insert_sync_entries, if there is a run row and a repository row to refer to.
Persist ==
  /\ coll = "persist"
  /\ \E ok \in DbCall :
       entries' = IF ok /\ runRow # NoRow /\ known[cur]
                  THEN [entries EXCEPT ![cur] = Append(@, EntryOf(outcome[cur]))] ELSE entries
  /\ coll' = "recv"
  /\ cur' = NoJob
  /\ UNCHANGED <<pc, next, permits, cancel, cancelAt, workerVars, active, results, tracker,
                 runRow, events, summary>>

\* The coordinator waits for the collector before it drops its own sender.
CollectorEnd_SenderKept ==
  /\ coll = "recv"
  /\ results = <<>>
  /\ pc = "announce"
  /\ \A j \in Jobs : w[j] \in {"idle", "exited"}
  /\ coll' = "done"
  /\ UNCHANGED <<pc, next, permits, cancel, cancelAt, workerVars, active, results, cur,
                 entries, tracker, runRow, events, summary>>

\* recv() answers None: the channel is empty and every sender is gone.
CollectorEnd ==
  /\ coll = "recv"
  /\ results = <<>>
  /\ pc = "drain"
  /\ \A j \in Jobs : w[j] \in {"idle", "exited"}
  /\ coll' = "done"
  /\ UNCHANGED <<pc, next, permits, cancel, cancelAt, workerVars, active, results, cur,
                 entries, tracker, runRow, events, summary>>

----------------------------------------------------------------------------
\* Effect::CancelSync, at any time.  One more job starts if the coordinator is
\* already past its check.
Cancel ==
  /\ ~cancel
  /\ cancel' = TRUE
  /\ cancelAt' = next + One(pc = "acquire")
  /\ UNCHANGED <<pc, next, permits, workerVars, active, results, collectorVars, tracker,
                 runRow, events, summary>>

\* run() has returned.
Finished ==
  /\ pc = "done"
  /\ UNCHANGED vars

Coordinator ==
  \/ Plan \/ CheckCancel \/ Acquire \/ StartCollector \/ JoinWorkers \/ Summarise \/ Announce
Worker(j) == Start(j) \/ Return(j) \/ Send(j)
Collector == Recv \/ Persist \/ CollectorEnd

Next ==
  \/ Coordinator
  \/ \E j \in Jobs : Worker(j) \/ GitEnd(j)
  \/ Collector
  \/ Cancel
  \/ Finished

Spec == Init /\ [][Next]_vars

\* The runtime polls every task that is ready.
TasksFair ==
  WF_vars(Coordinator) /\ WF_vars(Collector) /\ \A j \in Jobs : WF_vars(Worker(j))

\* Every git call ends.
FairSpec == Spec /\ TasksFair /\ \A j \in Jobs : WF_vars(GitEnd(j))

\* A git call may hang: nothing in the code bounds its time.
HangSpec == Spec /\ TasksFair

----------------------------------------------------------------------------
(* Properties *)

Live == {j \in Jobs : w[j] \notin {"idle", "exited"}}
Exited == {j \in Jobs : w[j] = "exited"}
WithOutcome(o) == {j \in Jobs : outcome[j] = o}
Reported(j) == Len(events[j]) = 2

Operations == {"none", "Clone", "Sync"}
WorkerStates == {"idle", "spawned", "git", "returned", "sending", "exited"}
GitStates == {"none", "done", "news", "error", "broken"}
Outcomes == {"Success", "Updated", "UpToDate", "Failed"}
EventNames == {"Started"} \cup Outcomes
Counts == [completed : Nat, succeeded : Nat, failed : Nat, updated : Nat,
           up_to_date : Nat, cloned : Nat, cancelled : Nat]
EntryRows == {"clone", "sync"} \X {"success", "failed"}

\* Every variable has its type; in particular the semaphore never goes below
\* zero and the coordinator never looks past the plan.
TypeOK ==
  /\ pc \in {"plan", "loop", "acquire", "join", "drain", "announce", "done"}
  /\ next \in 0 .. N
  /\ permits \in 0 .. Permits
  /\ cancel \in BOOLEAN
  /\ cancelAt \in 0 .. N
  /\ op \in [Jobs -> Operations]
  /\ w \in [Jobs -> WorkerStates]
  /\ gitRes \in [Jobs -> GitStates]
  /\ outcome \in [Jobs -> {"none"} \cup Outcomes]
  /\ known \in [Jobs -> BOOLEAN]
  /\ active \in SUBSET Jobs
  /\ results \in Seq(Jobs)
  /\ coll \in {"off", "recv", "persist", "done"}
  /\ cur \in 0 .. N
  /\ tracker \in Counts
  /\ disk \in [Jobs -> {"absent", "repo"}]
  /\ local \in [Jobs -> {"Prior", "Cloned", "Behind"}]
  /\ runRow \in [status : {"none", "running", "completed", "cancelled"},
                 completed : BOOLEAN, cloned : Nat, updated : Nat, failed : Nat]
  /\ entries \in [Jobs -> Seq(EntryRows)]
  /\ events \in [Jobs -> Seq(EventNames)]
  /\ summary \in Counts

\* Every permit is free or held by exactly one live worker (sync_engine.rs:55,
\* :63, :80), so at most Permits git operations run at once.
PermitsConserved == permits + Cardinality(Live) = Permits

\* No worker ever waits on the result channel (sync_engine.rs:40).  Nothing is
\* received before the dispatch loop ends (:86), so a worker that waited would
\* hold the permit that the loop waits for, and the run would hang.
SenderNeverBlocks == (\E j \in Jobs : w[j] = "sending") => Len(results) < Capacity

\* After a cancellation no further job starts, except the one whose dispatch
\* had passed the check of the flag (sync_engine.rs:60).
CancelStopsDispatch == next <= cancelAt

\* Without a cancellation an outcome tells the truth: a job that did not fail
\* has a repository on disk and a row that says so, and a job has failed only
\* if its git call did (worker.rs:159, :215; git lib.rs:114, :167).
OutcomeHonest ==
  ~cancel => \A j \in Jobs : outcome[j] # "none" =>
    /\ (outcome[j] = "Failed") <=> (gitRes[j] \in {"error", "broken"})
    /\ outcome[j] # "Failed" => disk[j] = "repo" /\ (local[j] # "Prior" \/ DbFaults)
    /\ (outcome[j] = "Updated") <=> (gitRes[j] = "news")

\* The part of it a reader of the log sees: every job that got a worker is told,
\* start before outcome and each once; only a cancellation drops a job.
EveryStartIsTold ==
  pc = "done" =>
    /\ \A j \in Jobs : events[j] = IF j < next THEN <<"Started", outcome[j]>> ELSE <<>>
    /\ next < N => cancel

\* When the summary is announced it accounts for every job that was started,
\* each one has been told to the user interface exactly once, with its outcome
\* and after its start, and none is still shown as active; a job that was not
\* started was dropped by a cancellation (sync_engine.rs:97-141, :222-270).
AnnouncedRunIsComplete ==
  pc = "done" =>
    /\ EveryStartIsTold
    /\ active = {}
    /\ summary.cloned = Cardinality(WithOutcome("Success"))
    /\ summary.updated = Cardinality(WithOutcome("Updated"))
    /\ summary.up_to_date = Cardinality(WithOutcome("UpToDate"))
    /\ summary.failed = Cardinality(WithOutcome("Failed"))
    /\ summary.completed = next
    /\ summary.succeeded + summary.failed = next

\* The jobs whose only entry is one of these rows.
FiledAs(rows) == {j \in Jobs : \E row \in rows : entries[j] = <<row>>}

\* The history a finished run leaves in the database agrees with itself: the
\* counts of the sync_runs row are those of its sync_entries, failures of
\* whatever operation counted as such, one entry per job that was started
\* (sync_engine.rs:118, :273), if no database call failed.
HistoryAgrees ==
  pc = "done" /\ ~DbFaults =>
    /\ runRow.completed
    /\ \A j \in Jobs : Len(entries[j]) = One(j < next)
    /\ runRow.failed = Cardinality(FiledAs({"clone", "sync"} \X {"failed"}))
    /\ runRow.cloned = Cardinality(FiledAs({<<"clone", "success">>}))
    /\ runRow.updated <= Cardinality(FiledAs({<<"sync", "success">>}))

\* Whichever database calls fail, a run whose row carries an end date also has
\* a terminal status (sync_runs.rs:21), an entry is never written twice, and
\* there is none without a run row or for a job that was not reported.
FaultyHistorySafe ==
  /\ runRow.completed => runRow.status \in {"completed", "cancelled"}
  /\ \A j \in Jobs : Len(entries[j]) <= 1
  /\ \A j \in Jobs : entries[j] # <<>> => Reported(j) /\ runRow # NoRow

\* Once SyncAllCompleted has been sent nothing of the run moves any more: no
\* task of it is left to write to the database or to send an event (:98-103).
QuiescentOnceDone ==
  [][(pc = "announce" \/ pc = "done") =>
       UNCHANGED <<w, results, coll, tracker, disk, local, entries, events, summary>>]_vars

\* Every job that got a worker is eventually reported, and the run ends.
EveryStartIsReported == \A j \in Jobs : (w[j] # "idle") ~> Reported(j)
RunEnds == <>(pc = "done")

\* The engine implements the promise of SyncRun: a worker is the running job
\* until its task ends, and the collector's event is the report.
RunVerdict(j) == IF w[j] # "exited" THEN "none"
                 ELSE IF outcome[j] = "Failed" THEN "failed" ELSE "ok"
RunJob(j) == CASE w[j] = "idle" -> "pending"
               [] w[j] = "exited" -> IF Reported(j) THEN "reported" ELSE "finished"
               [] OTHER -> "running"
RunTally == IF pc # "done" THEN [ok |-> 0, failed |-> 0]
            ELSE [ok |-> summary.cloned + summary.updated + summary.up_to_date,
                  failed |-> summary.failed]

Run == INSTANCE SyncRun WITH
         Limit <- Permits,
         job <- [j \in Jobs |-> RunJob(j)],
         verdict <- [j \in Jobs |-> RunVerdict(j)],
         cancelled <- cancel,
         closed <- (pc = "done"),
         tally <- RunTally

RunSpec == Run!Spec

----------------------------------------------------------------------------
(* What the documents or comments say and the code does not do *)

\* "git-vacuum-sync-engine.md" 7.3: a clone that was cancelled is not left in
\* the database as cloned; sqlite-schema.md 2.8: a clone that fails is 'error'.
FailedCloneNotCloned ==
  \A j \in Jobs : op[j] = "Clone" /\ gitRes[j] \in {"error", "broken"} => local[j] # "Cloned"

\* The collector runs concurrently with the workers (sync_engine.rs:86), so a
\* finished job is reported even if another one never ends.
FinishedIsReported == \A j \in Jobs : (w[j] = "exited") ~> Reported(j)
=============================================================================
