------------------------------ MODULE SyncRun ------------------------------
(***************************************************************************)
(* What one sync run promises to the rest of the program, without its      *)
(* pipeline: jobs are begun, at most Limit at a time, each one finishes    *)
(* with a verdict, each verdict is reported once, and the run is closed    *)
(* when nothing is left in flight or unreported.  A job may be dropped     *)
(* without ever beginning only when the run has been cancelled.            *)
(* SyncEngine implements this specification (SyncEngine!RunSpec).          *)
(***************************************************************************)
EXTENDS Integers, FiniteSets

CONSTANTS Jobs,    \* the jobs of the resolved plan
          Limit    \* how many may be in flight at once

VARIABLES job,        \* job[j]: how far the job has come
          verdict,    \* verdict[j]: how it ended
          cancelled,  \* the user has asked to stop
          closed,     \* SyncAllCompleted has been sent
          tally       \* the totals it carries

vars == <<job, verdict, cancelled, closed, tally>>

Verdicts == {"ok", "failed"}
NoTally == [ok |-> 0, failed |-> 0]

InState(s) == {j \in Jobs : job[j] = s}

Init ==
  /\ job = [j \in Jobs |-> "pending"]
  /\ verdict = [j \in Jobs |-> "none"]
  /\ cancelled \in BOOLEAN
  /\ closed = FALSE
  /\ tally = NoTally

\* A worker is started for the job.
Begin(j) ==
  /\ ~closed
  /\ job[j] = "pending"
  /\ Cardinality(InState("running")) < Limit
  /\ job' = [job EXCEPT ![j] = "running"]
  /\ UNCHANGED <<verdict, cancelled, closed, tally>>

\* The worker hands in the job's verdict and is gone.
Finish(j, v) ==
  /\ job[j] = "running"
  /\ job' = [job EXCEPT ![j] = "finished"]
  /\ verdict' = [verdict EXCEPT ![j] = v]
  /\ UNCHANGED <<cancelled, closed, tally>>

\* The verdict is counted and told to the user interface.
Report(j) ==
  /\ job[j] = "finished"
  /\ job' = [job EXCEPT ![j] = "reported"]
  /\ UNCHANGED <<verdict, cancelled, closed, tally>>

Cancel ==
  /\ ~cancelled
  /\ cancelled' = TRUE
  /\ UNCHANGED <<job, verdict, closed, tally>>

\* The run ends: every job that began has been reported, and one that never
\* began was dropped by a cancellation.
Close ==
  /\ ~closed
  /\ \A j \in Jobs : job[j] = "reported" \/ (job[j] = "pending" /\ cancelled)
  /\ closed' = TRUE
  /\ tally' = [ok |-> Cardinality({j \in Jobs : verdict[j] = "ok"}),
               failed |-> Cardinality({j \in Jobs : verdict[j] = "failed"})]
  /\ UNCHANGED <<job, verdict, cancelled>>

Next ==
  \/ \E j \in Jobs : Begin(j) \/ Report(j) \/ \E v \in Verdicts : Finish(j, v)
  \/ Cancel
  \/ Close

Spec == Init /\ [][Next]_vars
=============================================================================
