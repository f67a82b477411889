--------------------------- MODULE SyncEngineInv ---------------------------
(***************************************************************************)
(* The inductive invariant behind the safety theorems of SyncEngineProofs, *)
(* kept apart so that TLC checks it on small instances before it is proved.*)
(***************************************************************************)
EXTENDS SyncEngine

\* The coordinator's position, the dispatch counter and the cancel flag.
DispatchInv ==
  /\ \A j \in Jobs : (w[j] = "idle") <=> (next <= j)
  /\ pc = "plan" => next = 0
  /\ pc = "acquire" => next < N
  /\ pc \in {"join", "drain", "announce", "done"} => (next = N \/ cancel)
  /\ next <= cancelAt
  /\ ~cancel => cancelAt = N
  /\ cancel /\ pc = "acquire" => next < cancelAt

\* The collector lives between the dispatch loop and the summary; it has
\* stopped only if nothing can be sent to it any more.
PhaseInv ==
  /\ (coll = "off") <=> (pc \in {"plan", "loop", "acquire"})
  /\ pc \in {"announce", "done"} => coll = "done"
  /\ coll = "done" => pc \in {"drain", "announce", "done"} /\ results = <<>>
  /\ pc \in {"drain", "announce", "done"} => \A j \in Jobs : w[j] \in {"idle", "exited"}
  /\ (coll = "persist") <=> (cur # NoJob)

\* The worker's local data: operation, git result and outcome exist from the
\* state on that produces them.
WorkerInv ==
  \A j \in Jobs :
    /\ pc # "plan" => op[j] # "none"
    /\ (w[j] \in {"returned", "sending", "exited"}) <=> (gitRes[j] # "none")
    /\ (w[j] \in {"sending", "exited"}) <=> (outcome[j] # "none")

\* What a job finds and leaves on disk: a fetch was planned for a repository
\* that was there, a clone that worked has made one, and none goes away.
DiskInv ==
  \A j \in Jobs :
    /\ op[j] = "Sync" => disk[j] = "repo"
    /\ op[j] = "Clone" /\ gitRes[j] = "done" => disk[j] = "repo"
    /\ gitRes[j] = "news" => op[j] = "Sync"

\* Outcomes received so far and outcomes in the channel are the workers that
\* have exited, so the channel never holds as many as there are jobs.
ChannelInv == Len(results) + tracker.completed = Cardinality(Exited)

\* An outcome is in exactly one place: still with its worker, in the channel
\* (once), or reported; the events of a job say which.
DeliveryInv ==
  /\ \A j \in Jobs :
       /\ w[j] \in {"idle", "spawned"} => events[j] = <<>>
       /\ w[j] \in {"git", "returned", "sending"} => events[j] = <<"Started">>
       /\ w[j] = "exited" => \/ events[j] = <<"Started">> /\ \E i \in 1 .. Len(results) : results[i] = j
                             \/ events[j] = <<"Started", outcome[j]>>
  /\ \A i \in 1 .. Len(results) : w[results[i]] = "exited" /\ events[results[i]] = <<"Started">>
  /\ \A i, k \in 1 .. Len(results) : i # k => results[i] # results[k]
  /\ cur # NoJob => Reported(cur)

\* Entries are written once per job, after its report, under an existing run row.
HistoryInv ==
  /\ \A j \in Jobs : entries[j] # <<>> =>
       Len(entries[j]) = 1 /\ Reported(j) /\ j # cur /\ runRow # NoRow
  /\ (runRow.status = "none") <=> (runRow = NoRow)
  /\ runRow.completed => runRow.status \in {"completed", "cancelled"}

ReportedAs(o) == {j \in Jobs : Reported(j) /\ outcome[j] = o}

\* The counters say how many outcomes of each kind there are: clones as soon as
\* the worker has its outcome, the rest once they are reported.  A job is shown
\* as active between its two events, and the summary is what was counted.
TallyInv ==
  /\ tracker.cloned = Cardinality(WithOutcome("Success"))
  /\ tracker.updated = Cardinality(ReportedAs("Updated"))
  /\ tracker.up_to_date = Cardinality(ReportedAs("UpToDate"))
  /\ tracker.failed = Cardinality(ReportedAs("Failed"))
  /\ tracker.succeeded + tracker.failed = tracker.completed
  /\ \A j \in Jobs : j \in active <=> events[j] = <<"Started">>
  /\ pc \in {"announce", "done"} => summary = tracker

\* As long as no database call fails every outcome reported, but for the one
\* being persisted, has its entry, and the run row is closed with the summary.
RecordInv ==
  ~DbFaults =>
    /\ pc # "plan" => runRow # NoRow
    /\ \A j \in Jobs : w[j] \notin {"idle", "spawned"} => known[j]
    /\ \A j \in Jobs : Reported(j) /\ j # cur => entries[j] = <<EntryOf(outcome[j])>>
    /\ pc \in {"announce", "done"} =>
         /\ runRow.completed
         /\ runRow.cloned = summary.cloned
         /\ runRow.updated = summary.updated
         /\ runRow.failed = summary.failed

IInv ==
  /\ TypeOK /\ PermitsConserved /\ DispatchInv /\ PhaseInv /\ WorkerInv
  /\ DiskInv /\ OutcomeHonest /\ ChannelInv /\ DeliveryInv /\ HistoryInv
  /\ TallyInv /\ RecordInv
=============================================================================
