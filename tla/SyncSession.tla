---------------------------- MODULE SyncSession ----------------------------
(***************************************************************************)
(* A session of the terminal program as far as syncing goes: run_loop      *)
(* (crates/git-vacuum/src/main.rs) takes turns between the application     *)
(* events, the pending effects and the keyboard; the reducers              *)
(* (crates/git-vacuum-app/src/reduce.rs) keep the Sync Center's phase and  *)
(* live log; every StartSync effect spawns an engine run that works beside *)
(* the loop and talks to it through one unbounded channel.  The process    *)
(* may be left or killed at any moment and started again on the database   *)
(* it left behind.                                                         *)
(*                                                                         *)
(* A run is cut down to what SyncRun promises of it (SyncEngine implements *)
(* that): jobs begin, each one is reported once, then the run is closed.   *)
(* The selection in the Explorer is any set of repositories.  The tab in   *)
(* front is left out: from every tab one keystroke leads to every other.   *)
(***************************************************************************)
EXTENDS Integers, Sequences, FiniteSets

CONSTANTS Repos,       \* positions of the repositories in the list
          Selections,  \* bound: what the user may have selected
          LogLimit,    \* 500 in log_event
          MaxRuns,     \* bound: StartSync keystrokes
          MaxPresses,  \* bound: pause, resume and cancel keystrokes
          MaxQueue,    \* bound: events by which the tasks are ahead of the loop
          MaxBoots     \* bound: restarts of the program

ASSUME ReposAssumption == Repos \subseteq Nat /\ IsFiniteSet(Repos)
ASSUME SelectionsAssumption == Selections \subseteq SUBSET Repos
ASSUME LogLimitAssumption == LogLimit \in Nat \ {0}
ASSUME BoundsAssumption ==
  MaxRuns \in Nat /\ MaxPresses \in Nat /\ MaxQueue \in Nat \ {0} /\ MaxBoots \in Nat

VARIABLES
  up,        \* the process is running
  boots,     \* how often it has been started again
  stage,     \* where run_loop is: drain, effects, input
  phase,     \* sync_center.phase, with the run whose summary it carries
  log,       \* sync_center.live_log
  appRx,     \* the application channel
  effects,   \* app.pending_effects
  cancel,    \* the watch channel's value
  presses,   \* pause, resume and cancel keystrokes so far
  run,       \* run[r]: state, requested repositories, flag up at its start
  job,       \* job[r][x]: how far repository x has come in run r
  row        \* row[r]: status of its sync_runs row

loopVars == <<stage, phase, log, effects>>
engineVars == <<run, job, row>>
vars == <<up, boots, loopVars, appRx, cancel, presses, engineVars>>

Runs == 1 .. MaxRuns
NoRun == 0

\* resolve_plan numbers the jobs of every run from 0 in the order of the list.
JobId(S, x) == Cardinality({y \in S : y < x})

Phase(kind, r) == [kind |-> kind, run |-> r]
Event(kind, r, id, x) == [kind |-> kind, run |-> r, id |-> id, repo |-> x]
SessionEvent(kind, r) == Event(kind, r, 0, 0)
JobEvent(kind, r, x) == Event(kind, r, JobId(run[r].req, x), x)

\* app_tx.send by a task.  The channel is unbounded; MaxQueue bounds what is
\* explored.
Send(e) ==
  /\ Len(appRx) < MaxQueue
  /\ appRx' = Append(appRx, e)

Unstarted == [st |-> "none", req |-> {}, deaf |-> FALSE]

----------------------------------------------------------------------------
\* The live log.

HasLine(l, id) == \E i \in DOMAIN l : l[i].id = id
LineOf(l, id) ==
  CHOOSE i \in DOMAIN l : l[i].id = id /\ \A k \in 1 .. i-1 : l[k].id # id

LastLines(l) == IF Len(l) > LogLimit THEN SubSeq(l, Len(l) - LogLimit + 1, Len(l)) ELSE l

\* The log is never trimmed.
Started_NoTrim(l, id, x) ==
  IF HasLine(l, id) THEN [l EXCEPT ![LineOf(l, id)].active = TRUE]
  ELSE Append(l, [id |-> id, repo |-> x, active |-> TRUE])

\* log_event: the line of the job id becomes active again, under the name it
\* has; only an unknown id gets a line, and the oldest lines give way.
Started(l, id, x) ==
  IF HasLine(l, id) THEN [l EXCEPT ![LineOf(l, id)].active = TRUE]
  ELSE LastLines(Append(l, [id |-> id, repo |-> x, active |-> TRUE]))

\* The line is looked up by name as well.
Ended_ByName(l, id, x) ==
  IF HasLine(l, id) /\ l[LineOf(l, id)].repo = x THEN [l EXCEPT ![LineOf(l, id)].active = FALSE] ELSE l

\* The outcome events: the line of the job id, whoever's name it has, if it is
\* still there.
Ended(l, id, x) ==
  IF HasLine(l, id) THEN [l EXCEPT ![LineOf(l, id)].active = FALSE] ELSE l

LogAfter(l, e) ==
  CASE e.kind = "Started" -> Started(l, e.id, e.repo)
    [] e.kind = "Ended"   -> Ended(l, e.id, e.repo)
    [] OTHER              -> l

\* A paused session ignores the end of its run.
PhaseAfter_PauseWins(p, e) ==
  CASE e.kind \in {"Cancelled", "Paused", "Active"} -> Phase(e.kind, NoRun)
    [] e.kind = "Completed" /\ p.kind # "Paused" -> Phase("Completed", e.run)
    [] OTHER -> p

\* The last event to arrive decides the phase; a started job does not.
PhaseAfter(p, e) ==
  CASE e.kind \in {"Cancelled", "Paused", "Active"} -> Phase(e.kind, NoRun)
    [] e.kind = "Completed" -> Phase("Completed", e.run)
    [] OTHER -> p

----------------------------------------------------------------------------
Init ==
  /\ up = TRUE
  /\ boots = 0
  /\ stage = "drain"
  /\ phase = Phase("Idle", NoRun)
  /\ log = <<>>
  /\ appRx = <<>>
  /\ effects = <<>>
  /\ cancel = FALSE
  /\ presses = 0
  /\ run = [r \in Runs |-> Unstarted]
  /\ job = [r \in Runs |-> [x \in Repos |-> "pending"]]
  /\ row = [r \in Runs |-> "none"]

\* The main loop.

\* try_recv and reduce_event, until the channel is empty.
DrainOne ==
  /\ up /\ stage = "drain"
  /\ appRx # <<>>
  /\ log' = LogAfter(log, Head(appRx))
  /\ phase' = PhaseAfter(phase, Head(appRx))
  /\ appRx' = Tail(appRx)
  /\ UNCHANGED <<up, boots, stage, effects, cancel, presses, engineVars>>

AfterEffects(fx) == IF fx = <<>> THEN "input" ELSE "effects"

Drained ==
  /\ up /\ stage = "drain"
  /\ appRx = <<>>
  /\ stage' = AfterEffects(effects)
  /\ UNCHANGED <<up, boots, phase, log, appRx, effects, cancel, presses, engineVars>>

\* spawn_effect(StartSync): the engine's future becomes a task.
SpawnRun(S) ==
  /\ LET r == CHOOSE r \in Runs : run[r].st = "none" /\ \A q \in 1 .. r-1 : run[q].st # "none"
     IN  run' = [run EXCEPT ![r] = [st |-> "spawned", req |-> S, deaf |-> FALSE]]
  /\ UNCHANGED <<appRx, cancel>>

\* spawn_effect(CancelSync): raise the flag and announce, at once and with a
\* summary of zeros.
RaiseCancel ==
  /\ cancel' = TRUE
  /\ appRx' = Append(appRx, SessionEvent("Cancelled", NoRun))
  /\ UNCHANGED run

\* spawn_effect(PauseSync | ResumeSync): only the event.
Tell(kind) ==
  /\ appRx' = Append(appRx, SessionEvent(kind, NoRun))
  /\ UNCHANGED <<run, cancel>>

Execute ==
  /\ up /\ stage = "effects"
  /\ effects # <<>>
  /\ effects' = Tail(effects)
  /\ stage' = AfterEffects(effects')
  /\ LET e == Head(effects)
     IN  \/ e.kind = "StartSync" /\ SpawnRun(e.req)
         \/ e.kind = "CancelSync" /\ RaiseCancel
         \/ e.kind = "PauseSync" /\ Tell("Paused")
         \/ e.kind = "ResumeSync" /\ Tell("Active")
  /\ UNCHANGED <<up, boots, phase, log, presses, job, row>>

\* Runs that the user has asked for.
Asked == Cardinality({r \in Runs : run[r].st # "none"})

Effect(kind, S) == [kind |-> kind, req |-> S]

\* The phase is set before the selection is looked at.
KeyStart_NoSelection(S) ==
  /\ up /\ stage = "input"
  /\ Asked < MaxRuns
  /\ phase' = Phase("PreSync", NoRun)
  /\ effects' = IF S = {} THEN effects ELSE Append(effects, Effect("StartSync", S))
  /\ stage' = "drain"
  /\ UNCHANGED <<up, boots, log, appRx, cancel, presses, engineVars>>

\* DashboardStartSync, ExplorerStartSync: whether or not a run is in flight.
KeyStart(S) ==
  /\ up /\ stage = "input"
  /\ Asked < MaxRuns
  /\ S # {}
  /\ phase' = Phase("PreSync", NoRun)
  /\ effects' = Append(effects, Effect("StartSync", S))
  /\ stage' = "drain"
  /\ UNCHANGED <<up, boots, log, appRx, cancel, presses, engineVars>>

\* SyncPause, SyncResume, SyncCancel: in every phase.
KeyPress(kind) ==
  /\ up /\ stage = "input"
  /\ presses < MaxPresses
  /\ presses' = presses + 1
  /\ effects' = Append(effects, Effect(kind, {}))
  /\ stage' = "drain"
  /\ UNCHANGED <<up, boots, phase, log, appRx, cancel, engineVars>>

\* A tick, or a key that is none of the above.
Tick ==
  /\ up /\ stage = "input"
  /\ stage' = "drain"
  /\ UNCHANGED <<up, boots, phase, log, appRx, effects, cancel, presses, engineVars>>

Fresh ==
  /\ stage' = "drain"
  /\ phase' = Phase("Idle", NoRun)
  /\ log' = <<>>
  /\ appRx' = <<>>
  /\ effects' = <<>>
  /\ cancel' = FALSE

\* Memory and tasks go with the process; what a git call has still to do it
\* does unheard.
ProcessGone ==
  /\ up' = FALSE
  /\ Fresh
  /\ run' = [r \in Runs |-> IF run[r].st \in {"spawned", "live"}
                            THEN [run[r] EXCEPT !.st = "dead"] ELSE run[r]]
  /\ UNCHANGED <<boots, presses, job, row>>

\* 'q' or Ctrl+C: should_quit ends the loop.
Quit == up /\ stage = "input" /\ ProcessGone

\* The process is killed.
Crash == up /\ ProcessGone

\* main() again: fresh memory, the database as it was left.
Boot ==
  /\ ~up
  /\ boots < MaxBoots
  /\ up' = TRUE
  /\ boots' = boots + 1
  /\ Fresh
  /\ UNCHANGED <<presses, engineVars>>

----------------------------------------------------------------------------
\* The engine's tasks.

\* run() up to its dispatch loop: plan and sync_runs row.  If the flag is up by
\* then nothing will be dispatched.
Launch(r) ==
  /\ run[r].st = "spawned"
  /\ run' = [run EXCEPT ![r].st = "live", ![r].deaf = cancel]
  /\ row' = [row EXCEPT ![r] = "running"]
  /\ UNCHANGED <<up, boots, loopVars, appRx, cancel, presses, job>>

\* Worker: Sync{Clone,Fetch}Started.  A job dispatched before the flag went up
\* begins all the same; how many those are is SyncEngine's concern.
Begin(r, x) ==
  /\ run[r].st = "live" /\ ~run[r].deaf
  /\ x \in run[r].req /\ job[r][x] = "pending"
  /\ job' = [job EXCEPT ![r][x] = "running"]
  /\ Send(JobEvent("Started", r, x))
  /\ UNCHANGED <<up, boots, loopVars, cancel, presses, run, row>>

\* Collector: one event per outcome.
End(r, x) ==
  /\ run[r].st = "live"
  /\ job[r][x] = "running"
  /\ job' = [job EXCEPT ![r][x] = "reported"]
  /\ Send(JobEvent("Ended", r, x))
  /\ UNCHANGED <<up, boots, loopVars, cancel, presses, run, row>>

\* The summary is announced while workers are still busy.
Close_Early(r) ==
  /\ run[r].st = "live"
  /\ \A x \in run[r].req : job[r][x] # "pending" \/ cancel
  /\ run' = [run EXCEPT ![r].st = "closed"]
  /\ row' = [row EXCEPT ![r] = "completed"]
  /\ Send(SessionEvent("Completed", r))
  /\ UNCHANGED <<up, boots, loopVars, cancel, presses, job>>

\* Coordinator: the row, then SyncAllCompleted.  A cancelled run is
\* "completed" too: its cancelled counter is never raised.
Close(r) ==
  /\ run[r].st = "live"
  /\ \A x \in run[r].req : job[r][x] = "reported" \/ (job[r][x] = "pending" /\ cancel)
  /\ run' = [run EXCEPT ![r].st = "closed"]
  /\ row' = [row EXCEPT ![r] = "completed"]
  /\ Send(SessionEvent("Completed", r))
  /\ UNCHANGED <<up, boots, loopVars, cancel, presses, job>>

Loop == DrainOne \/ Drained \/ Execute \/ Tick
Keyboard ==
  \/ \E S \in Selections : KeyStart(S)
  \/ \E kind \in {"PauseSync", "ResumeSync", "CancelSync"} : KeyPress(kind)
Engine(r) ==
  \/ Launch(r)
  \/ \E x \in Repos : Begin(r, x) \/ End(r, x)
  \/ Close(r)

Next ==
  \/ Loop \/ Keyboard
  \/ Quit \/ Crash \/ Boot
  \/ \E r \in Runs : Engine(r)

Spec == Init /\ [][Next]_vars

\* The loop ticks, the runtime polls its tasks, every git call ends.
FairSpec == Spec /\ WF_vars(Loop) /\ \A r \in Runs : WF_vars(Engine(r))

----------------------------------------------------------------------------
(* Properties *)

InFlight(r) == run[r].st \in {"spawned", "live"}
Queued(r) == {i \in DOMAIN appRx : appRx[i].run = r}
StartPending == \E i \in DOMAIN effects : effects[i].kind = "StartSync"

Ids == 0 .. Cardinality(Repos)

\* Every variable has its type; in particular the log stays within its limit.
TypeOK ==
  /\ up \in BOOLEAN
  /\ boots \in 0 .. MaxBoots
  /\ stage \in {"drain", "effects", "input"}
  /\ phase \in [kind : {"Idle", "PreSync", "Active", "Paused", "Completed", "Cancelled"},
                run : Runs \cup {NoRun}]
  /\ Len(log) <= LogLimit
  /\ log \in Seq([id : Ids, repo : Repos, active : BOOLEAN])
  /\ appRx \in Seq([kind : {"Started", "Ended", "Completed", "Cancelled", "Paused", "Active"},
                    run : Runs \cup {NoRun}, id : Ids, repo : Repos \cup {0}])
  /\ effects \in Seq([kind : {"StartSync", "CancelSync", "PauseSync", "ResumeSync"},
                      req : SUBSET Repos])
  /\ cancel \in BOOLEAN
  /\ presses \in 0 .. MaxPresses
  /\ run \in [Runs -> [st : {"none", "spawned", "live", "closed", "dead"},
                       req : SUBSET Repos, deaf : BOOLEAN]]
  /\ job \in [Runs -> [Repos -> {"pending", "running", "reported"}]]
  /\ row \in [Runs -> {"none", "running", "completed"}]

\* When every run of the session has ended and its events are drained, no line
\* of the live log still spins, although job ids repeat from run to run, runs
\* overlap and old lines are dropped (reduce.rs:1099, :714-839).
LogSettles ==
  up /\ appRx = <<>> /\ (\A r \in Runs : ~InFlight(r)) =>
    \A i \in DOMAIN log : ~log[i].active

\* The results screen of a run never comes before an outcome of that run: when
\* it shows, every job that began has ended and none of its events is still in
\* the channel, however the run's last jobs raced (main.rs:253,
\* sync_engine.rs:98-138).
CompletedIsLast ==
  phase.kind = "Completed" =>
    /\ Queued(phase.run) = {}
    /\ \A x \in Repos : job[phase.run][x] # "running"

\* The waiting screen is never a dead end: whoever looks at it has a run that
\* is about to start, in flight or about to be shown (reduce.rs:372, :394).
PreSyncHasRun ==
  up /\ phase.kind = "PreSync" =>
    \/ StartPending
    \/ \E r \in Runs : InFlight(r)
    \/ \E i \in DOMAIN appRx : appRx[i].kind = "Completed"

\* Another event that decides the phase has come in behind the last one; the
\* loop takes it before it draws again.
Overtaken == \E i \in DOMAIN appRx : appRx[i].kind \in {"Completed", "Cancelled", "Paused", "Active"}

\* The end of every run is drawn, whatever the user presses meanwhile, unless
\* the program is left.  The loop draws just before it waits for a key, after
\* it has taken all events (main.rs:254, :268): a phase that lasts from one
\* event to the next is on no screen, so the results may fall victim only to
\* an event that came in together with them.
EndIsShown ==
  \A r \in Runs :
    (run[r].st = "live") ~>
      (~up \/ (phase = Phase("Completed", r) /\ (stage = "input" \/ Overtaken)))

----------------------------------------------------------------------------
(* What the documents say and the code does not do *)

\* git-vacuum-sync-engine.md 6.5: each job has exactly one line of the log.
OwnLogLine ==
  \A r \in Runs, x \in Repos :
    /\ run[r].st = "live" /\ job[r][x] # "pending"
    /\ \A i \in Queued(r) : appRx[i].kind # "Started" \/ appRx[i].repo # x
    => \E i \in DOMAIN log : log[i].repo = x

\* git-vacuum-sync-engine.md 7.4: after a cancellation the screen shows the
\* partial results, not those of a completed run.
CancelScreenStays == phase.kind = "Completed" => ~cancel

\* git-vacuum-sync-engine.md 10.1: the next start of the program marks the
\* rows of interrupted runs as cancelled.
OrphansClosed == up => \A r \in Runs : run[r].st = "dead" => row[r] # "running"
=============================================================================
