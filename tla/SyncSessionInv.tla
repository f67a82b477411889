--------------------------- MODULE SyncSessionInv ---------------------------
(***************************************************************************)
(* The inductive invariant behind the safety theorems of SyncSessionProofs,*)
(* kept apart so that TLC checks it on small instances before it is proved.*)
(***************************************************************************)
EXTENDS SyncSession

Busy(r, x) == run[r].st = "live" /\ job[r][x] = "running"

\* Somebody works under the job id.
AtWork(id) == \E r \in Runs, x \in Repos : Busy(r, x) /\ JobId(run[r].req, x) = id

\* The effects of a turn are carried out before the next key is read, runs are
\* spawned in the order of their numbers, and a number is left for the run that
\* has been asked for.
OrderInv ==
  /\ Len(effects) <= 1
  /\ stage = "input" => effects = <<>>
  /\ \E n \in 0 .. MaxRuns : \A r \in Runs : run[r].st # "none" <=> r <= n
  /\ StartPending => \E r \in Runs : run[r].st = "none"

\* A job at work is one of a run that has been launched and not been closed.
JobInv ==
  \A r \in Runs, x \in Repos :
    job[r][x] = "running" => x \in run[r].req /\ run[r].st \in {"live", "dead"}

\* Events come from runs of this process; after its Completed a run is silent,
\* and a Started has its job still at work or is followed by an Ended for the
\* same line.
ChannelInv ==
  \A i \in DOMAIN appRx :
    /\ appRx[i].kind \in {"Started", "Ended", "Completed"} <=> appRx[i].run \in Runs
    /\ appRx[i].kind \in {"Started", "Ended"} => appRx[i].repo \in Repos
    /\ appRx[i].run \in Runs => run[appRx[i].run].st \in {"live", "closed"}
    /\ appRx[i].kind = "Completed" =>
         /\ run[appRx[i].run].st = "closed"
         /\ \A k \in DOMAIN appRx : k > i => appRx[k].run # appRx[i].run
    /\ appRx[i].kind = "Started" =>
         \/ \E k \in DOMAIN appRx : k > i /\ appRx[k].kind = "Ended" /\ appRx[k].id = appRx[i].id
         \/ AtWork(appRx[i].id)

\* The run whose summary is on the screen is over and heard to the end.
PhaseInv ==
  phase.kind = "Completed" =>
    /\ phase.run \in Runs /\ run[phase.run].st = "closed"
    /\ Queued(phase.run) = {}

\* The log has one line to a job id; a line that spins has a job at work or an
\* Ended on its way.
LogInv ==
  /\ \A i, k \in DOMAIN log : log[i].id = log[k].id => i = k
  /\ \A i \in DOMAIN log : log[i].active =>
       \/ \E k \in DOMAIN appRx : appRx[k].kind = "Ended" /\ appRx[k].id = log[i].id
       \/ AtWork(log[i].id)

SInv == TypeOK /\ OrderInv /\ JobInv /\ ChannelInv /\ PhaseInv /\ LogInv /\ PreSyncHasRun
=============================================================================
