# git-vacuum: a verification project in TLA+

git-vacuum is a terminal program that lists a user's GitHub repositories,
keeps them in a SQLite database and clones or fetches the selected ones, many
at a time. This directory holds TLA+ models of its concurrent core, the TLC
configurations that check them on small instances, and proofs checked by TLAPS
that hold for every size.

Paths below are relative to `crates/` of the repository unless they start with
`docs/`.

## 1. Inventory

| component | source | state it keeps | operations |
|---|---|---|---|
| Sync engine | `git-vacuum-service/src/sync_engine.rs`, `sync_engine/{plan,worker}.rs` | per run: job list, semaphore, result channel, `ProgressTracker`, worker handles | `resolve_plan`, dispatch loop, `Worker::run`, `Collector::process`, summary |
| Git operations | `git-vacuum-git/src/lib.rs` | repositories on disk | `clone_with_progress`, `fetch`, `is_git_repo` on the blocking pool |
| Database | `git-vacuum-db/src` | `repos`, `sync_runs`, `sync_entries`, `settings`, `accounts` behind one connection mutex | inserts, updates, upserts, deletion marks, statistics |
| Session | `git-vacuum/src/main.rs`, `git-vacuum-app/src/{reduce,state,lib}.rs`, `git-vacuum-core/src/event.rs` | `App` (auth or running state, Sync Center phase, live log, pending effects), the event bus, the cancel flag | `run_loop` turns, `reduce_action`, `reduce_event`, `spawn_effect` |
| Discovery | `git-vacuum-service/src/{discovery,merge}.rs` | none of its own; reads GitHub and `repos` | list, merge with the cache, deletion marks, upsert |
| Authentication | `git-vacuum-service/src/auth_service.rs`, `git-vacuum-keyring`, auth part of `reduce.rs` and `main.rs` | token in keyring, in the GitHub client and in `accounts`; phase of the auth screen | PAT, OAuth device flow with a poller task, stored credentials, logout |
| Settings | settings part of `reduce.rs`, `queries/settings.rs` | fields on screen, `settings` table | edit, save, discard, load at startup |
| GitHub client | `git-vacuum-github/src` | token | paged listing, deduplication, device flow |
| Statistics | `git-vacuum-service/src/stats.rs`, `queries/stats.rs` | none | aggregate SQL over `repos` |
| Modals, tabs, palette | `git-vacuum-app/src/{modals,tabs}.rs` | navigation state | keys |
| Rendering | `git-vacuum-tui` | none | draws `App` |

**How they interact.** `run_loop` is the only code that changes `App`. In turn
it drains two unbounded channels (`app_rx`, then `progress_rx`) through
`reduce_event`, executes the effects the reducers left behind (`spawn_effect`),
draws, and waits for one tick or key. An effect is either done on the spot
(raising the cancel flag, writing a selection) or becomes a Tokio task that
calls a service and answers with an event. `Effect::StartSync` becomes an
engine run: a coordinator task, one task per worker, a collector task and
blocking git calls, joined by a semaphore, a bounded result channel, relaxed
atomic counters and a `watch` flag for cancellation. All runs of a session
share the flag, the application channel and the database.

**What is hard.**

- *Interleaving*: coordinator, workers, collector, git calls and the user's
  cancellation; two runs in flight at once; discovery beside a sync.
- *Deadlock*: workers wait for room in a channel that nobody reads until the
  dispatch loop, which waits for the workers' permits, is over.
- *Ordering*: events of a run and of several runs in one channel; the
  cancelled screen against the end of the run it cancels; saved settings
  written by separate tasks.
- *Stale state*: the cancel flag read after a git call, a flag that is never
  lowered, job ids that restart with every run, lists read before an await.
- *Partial failure*: database calls whose errors are dropped, a row closed by
  five updates without a transaction, a token stored in one place and not yet
  in another.
- *Crash*: a run cut off by the end of the process.

The correctness properties of each component that follow from this:

- **Engine**: permits are conserved; no worker ever waits for the channel; a
  cancellation lets at most one more job start; outcomes tell what happened;
  the announced summary accounts for every started job, each told exactly once;
  nothing moves after it; every run ends.
- **Database**: history rows stay well formed whichever call fails.
- **Session**: the log comes to rest; a results screen is the last word of its
  run; no screen waits for nothing; the results of every run are drawn, unless
  a later event came in together with them.
- **Discovery**: the clone status and the user's selection survive every
  refresh; the screen shows only repositories that have a row; what a listing
  shows is not marked deleted; the spinner never waits for nothing.
- **Authentication**: client, keyring and account agree when the program shows
  a signed-in user, as far as attempts are not in each other's way; the keyring
  changes only for a reason; no screen waits for nothing; every poller ends.
- **Settings**: a draft is saved under the key it was opened for; the fields
  show what memory holds; what was saved comes back into memory at the next
  start.
- **Modals, tabs, palette**: whatever is on top can be taken away; beneath it
  nothing changes.

## 2. Modules

| module | what it is |
|---|---|
| `SyncRun` | abstract specification: what one run promises to the rest of the program |
| `SyncEngine` | one engine run in detail: state, actions, properties, refinement of `SyncRun` |
| `SyncEngineInv` | the inductive invariant `IInv` of `SyncEngine`, apart so that TLC can check it first |
| `SyncEngineProofs` | theorems about `SyncEngine` with their proofs |
| `SyncEngineRefinement` | the proof that `SyncEngine` implements `SyncRun` |
| `MCSyncEngine` | `SyncEngine` for TLC |
| `SyncSession` | a session: event loop, reducers of the Sync Center, several runs, quit, crash, restart |
| `SyncSessionInv`, `SyncSessionProofs` | its inductive invariant `SInv`; theorems with their proofs |
| `MCSyncSession` | `SyncSession` for TLC |
| `RepoCatalog` | abstract specification: what the table `repos` promises about the user's part of a row |
| `Discovery` | discovery tasks, the stored list, the Explorer's selection keys and the sync engine on the table `repos`; refinement of `RepoCatalog` |
| `DiscoveryInv` | the inductive invariant `DInv` of `Discovery` |
| `DiscoveryLemmas` | what the listings and the upsert do, for every table and every list |
| `DiscoveryProofs` | theorems about `Discovery` with their proofs, the refinement of `RepoCatalog` among them |
| `MCDiscovery` | `Discovery` for TLC |
| `AuthFlow` | signing in: start of the program, sign-in screen, attempts at a token, device flows and pollers, client, keyring and accounts |
| `AuthFlowInv` | the inductive invariant `IInv` of `AuthFlow` |
| `AuthFlowProofs` | theorems about `AuthFlow` with their proofs |
| `MCAuthFlow` | `AuthFlow` for TLC |
| `Workspace` | the running screen: tabs, overlays, settings and their save tasks, refreshes of the statistics |
| `WorkspaceInv`, `WorkspaceProofs` | its inductive invariant `WInv`; theorems with their proofs |
| `MCWorkspace` | `Workspace` for TLC |

The modules meet where the program's parts do: `SyncEngine` implements
`SyncRun`, `SyncSession` runs several `SyncRun`s on one loop, `Discovery`
implements `RepoCatalog` beside that engine. `AuthFlow` hands over to the
running state with `AuthSucceeded`; `Workspace` starts there, and takes every
further `AuthSucceeded` as `SignedInAgain`.

Definitions whose name ends in a suffix (`Acquire_Unbounded`, `Close_Early`,
...) are faulty variants of the operator they stand before. Nothing refers to
them: replacing the operator by its variant must break the property they were
written for.

### SyncEngine and SyncRun

The state follows the locals of `sync_engine::run`.

| model | code |
|---|---|
| `pc`, `next` | where the coordinator is: planning, top of the dispatch loop, waiting for a permit, joining workers, awaiting the collector, announcing, returned; the next job |
| `permits` | the semaphore, `concurrency.max(1)` |
| `cancel`, `cancelAt` | the `watch` flag; how many jobs the cancellation lets through (history) |
| `w`, `op`, `gitRes`, `outcome`, `known` | a worker's task, planned operation, git result, `JobOutcome`, and whether it found the row id |
| `results`, `Capacity` | the `mpsc` channel of capacity `2 * max(1, jobs)` |
| `coll`, `cur` | the collector: off, receiving, persisting the entry of `cur`, ended |
| `tracker`, `active`, `summary` | `ProgressTracker` and the `SyncSummary` taken from it |
| `disk`, `local`, `runRow`, `entries` | repository on disk; `repos.clone_status`; the `sync_runs` row; `sync_entries` of a job |
| `events` | what the application channel has been told about a job |

One action per step between two suspension points: `Plan`, `CheckCancel`,
`Acquire`, `StartCollector`, `JoinWorkers`, `Summarise`, `Announce` of the
coordinator; `Start`, `GitEnd`, `Return`, `Send` of a worker; `Recv`,
`Persist`, `CollectorEnd` of the collector; `Cancel` of the user. A step that
makes several calls without suspending is one action. `DbFaults` lets any
best-effort database call fail; `update_sync_run` can then stop after any of
its five updates.

Abstractions. A job is the repository it is about (a request names distinct
repositories; that the list on the screen may name one twice is `Discovery`'s
concern). `PlannedOperation::Skip`, `Mirror` and
`JobOutcome::Cancelled` are never constructed by the planner and the workers
and have no value. Progress samples, bytes, durations and the URL are data no
property reads; of the updates of the run row those of the status, the end date
and the three counts are kept. A failed clone leaves nothing on disk, because libgit2
removes what it created. The cancel flag starts at either value: no code
lowers it after an earlier run.

`SyncRun` says the same in five actions: a job begins (at most `Limit` at
once), finishes with a verdict, is reported; the user cancels; the run closes
with the totals when nothing is in flight or unreported. `SyncEngine!RunSpec`
is its specification under the refinement mapping at the end of `SyncEngine`:
a worker's task is the running job, the collector's event is the report, and
the summary is the tally.

### SyncSession

`DrainOne`, `Drained`, `Execute` and `Tick` are the turns of `run_loop`;
`KeyStart`, `KeyPress` the keys that matter to syncing; `Quit`, `Crash`,
`Boot` the life of the process, where memory and tasks go and the database
stays. `SpawnRun`, `RaiseCancel` and `Tell` are the arms of `spawn_effect`.
Each run is the abstraction `SyncRun` with its events: `Launch` (plan, row,
first look at the flag), `Begin`, `End` (a verdict and its report) and `Close`.
`Started`, `Ended` and `PhaseAfter` are the reducers of the live log and of the
Sync Center's phase, with the look-up by job id and the trimming of the log.

Abstractions. A repository is its position in the list; the selection is any
set. The tab in front, modals, text, and the difference between a successful
and a failed line are left out; the session is signed in throughout. Ticks and
other keys are one action. How many jobs a cancellation lets through is
`SyncEngine`'s concern: here a job may begin after it.

### Discovery and RepoCatalog

| model | code |
|---|---|
| `store` | the table `repos`: name, selection, clone status, deletion mark of each `github_id` |
| `disc` | tasks of `Effect::DiscoverRepos`: where `discover` is, its listing (later the merged list), the rows still to be marked |
| `loader` | the task of `Effect::LoadReposFromDb` |
| `stage`, `effects`, `appRx` | the turn of `run_loop`, `app.pending_effects`, the application channel |
| `repos`, `loading`, `modals` | `state.repos`, `explorer.loading`, `modal_stack` |
| `github`, `steady`, `changes` | what GitHub has, what it has had all along (history), changes so far |
| `chosen`, `unsaved` | history: the user's last choice, and choices whose write failed |

A task takes the connection's lock for each database call, so each call is an
action: `Load` (`get_all_repos` and the merge), `Mark` (one
`mark_repo_deleted_on_remote` each), `Upsert` (one transaction, which a
duplicate name or a fault rolls back). `ListFirst` and `ListOrgs` are the
requests, `SendLoaded` and `SendDiscovered` the events, `Fail` every `?` before
the upsert. `ExplorerToggle`, `ExplorerSelect`, `ExplorerRefresh` and
`DismissModal` are the keys; the write of a selection happens on the loop
itself (`Persist`), at the next turn.

Abstractions. What the API says of a repository beyond its name overwrites the
row and is left out. `Synced` repositories become cloned at any time after they
have a row, whenever the engine gets there. There is one organisation. A
listing is in the order of the ids; for the source All, whose entries are
sorted by a time that may change from request to request, every order is
taken. The source of a refresh is any of those the settings offer. Between two
steps of the program GitHub may go from any state of `Githubs` to any other.

`RepoCatalog` says what a row's selection and clone status may do: appear,
selected and not cloned; follow the user; follow the engine. Under
`Discovery!Catalog` every step of a discovery other than the appearance of new
rows is a stutter.

### AuthFlow

| model | code |
|---|---|
| `proc`, `boots` | the part of `run_tui` before the loop, the loop, no process |
| `session`, `screen` | `AppState::Running` or `AuthScreenState`: phase, `loading`, the last method, and the flow whose code is shown |
| `client`, `keyring`, `accounts` | the token in `GitHubClient`, in the keyring, and the table `accounts` |
| `attempt` | one token on its way through `authenticate_pat`, `complete_oauth_with_token` or `load_stored_credentials`; number 0 is the one at the start |
| `flow`, `overdue` | `Effect::StartOAuthDeviceFlow` and the poller it leaves behind; whether `expires_in` has passed |
| `valid`, `clientId`, `appRx` | what GitHub accepts, the configured `client_id`, the application channel |
| `confirmed`, `rival` | history: tokens GitHub has accepted; whether attempts of one process overlapped, or one came on top of a session |

The three routines have one order of steps, so an attempt has one set of
actions: `Install` (set the client's token), `Ask` and `Answer` (`GET /user`,
about the token the client has by then), `Keep` (`set_token`), `Record`
(`upsert_account`); for a stored token that GitHub refuses, `Erase` and
`Forget`. `ReadStored` is the look-up at the start. Each awaits or takes a
lock, so others may come in between. `FlowInit`, `Wake`, `PollAnswer` are the
device flow, `Clock` its expiry, `Revoke` a token that GitHub drops. `Handle` is
`reduce_event` with one action-disjunct per event; `PickPat`, `PickOAuth`,
`Back`, `Submit`, `DismissUrlPrompt` the keys; `Gone` and `Boot` the life of the
process.

Abstractions. The loop drains the whole channel and then spawns what the
handlers asked for; here each event is a step and its task begins with it. That
adds only orders in which the task's first step, on the client, comes before
the other events of the same turn, which touch the screen, and those commute.
Enter takes any entry of a menu, for the cursor's place is not kept. What the
error says, the tokens' scopes and the gh entry, which shows a hint, are left out.

### Workspace

| model | code |
|---|---|
| `tab`, `welcome`, `overlay` | `active_tab`, `welcome_state`, `modal_stack` with `command_palette` |
| `settings` | `SettingsTabState`: category, fields, the field being edited and its draft |
| `mem`, `db` | the settings that `RunningAppState` holds; the table `settings` |
| `saves` | the tasks of `Effect::SaveSetting` |
| `stats` | `loading.stats`, and the tasks of `Effect::RefreshDashboardStats` |
| `opened`, `agreed` | history: whose field was opened; keys saved since they last changed, with no other save of theirs under way |

A key goes through `key_to_action` and then `reduce_action`, which do not ask
the same things in the same order: the mapping knows the palette and the text
fields, the reducer the modals. An action here is a key through both.
`TypeKey` changes the draft in the mapping itself. `Save` applies the draft,
saves every field of the category, one task each, and rebuilds the fields.
`SaveSetting` is one such task, in any order. `Boot` loads the settings, with
any of them unreadable; or does not, when the user signs in only afterwards.
`StartSync` is the start of a sync as far as tabs and settings go.

Abstractions. Values are numbers (see the module's header); a draft becomes any
of a few values at once. The position of the field cursor is left open. A
refresh and its event are one step, since nobody looks in between. The keys of
Explorer and Sync Center are in `Discovery` and `SyncSession`, and whether there
is a selection to sync is left to chance. `mem` says what memory holds and
nothing of its use: which settings have an effect is told in section 3.

## 3. Runs

| run | instance | shows |
|---|---|---|
| `engine` | 3 jobs, 2 permits, no database faults, `FairSpec` | all properties of the engine and the refinement of `SyncRun` |
| `engine_faults` | 2 jobs, configured concurrency 0 (so one permit), any database call may fail | the inductive invariant; the history stays well formed; reports do not depend on the database |
| `failed_clone` | 2 jobs, 1 permit | a failed clone under a raised flag is recorded as cloned |
| `late_collector` | 3 jobs, 1 permit, git calls that may hang | a finished job is not reported while another one hangs |
| `session` | 2 repositories, 2 runs, 1 other key, 1 restart, a log of 1 line | all properties of the session |
| `discovery` | 2 repositories, 2 names, 2 discoveries of any source, 1 selection, 1 change on GitHub, any database call may fail | all properties of discovery and the refinement of `RepoCatalog` |
| `auth` | 2 tokens of 2 accounts, 1 typed, 1 device flow, `--token` or not, 1 restart, keyring and database may fail, `FairSpec` | all properties of signing in, and the inductive invariant |
| `workspace` | Dashboard, Sync Center and Settings, 3 categories, two fields the user edits, one of which two categories show, 2 turns, database faults | all properties of the running screen |
| `own_log_line` | as `session`, a log of 500 lines | a second run updates the line of another repository |
| `cancel_screen` | as `own_log_line` | the cancelled screen is replaced by that of a completed run |
| `orphans` | as `own_log_line` | an interrupted run stays `running` for ever |
| `foreign_mark` | repository 1 is the user's own, 2 is starred, 3 discoveries | a refresh of the own ones marks the starred one as deleted |

**Why these bounds suffice for what the runs show.** Three jobs over two
permits are the least with a job waiting for a permit while two others are at
different stages, and with two outcomes in the channel before the collector
exists. Two jobs over one permit give the loop that waits behind a worker. The
channel's capacity depends on the number of jobs only, and the proofs remove
the bound. In a session two runs with overlapping selections give every
overlap of job ids; a log of one line makes lines disappear while their job is
running, which 500 lines would do with 501 jobs. The event queue is bounded by
two (`MaxQueue`): a task that finds it full waits until the loop has drained,
which only removes schedules in which the tasks are further ahead. `MaxRuns`,
`MaxPresses`, `MaxBoots` bound the user's keystrokes and restarts.

Two discoveries are the least that overlap; two repositories with two names are
the least in which one takes over the name of the other while the first is
still in the table. A page of two holds all there is (`PageSize`): what a page
that is too small does is described below.

In `auth` the attempt at the start, a typed token and the completion of a
device flow are three attempts that can overlap in every order, with two tokens
to tell them apart; the proofs remove the bounds. (Two device flows without a
restart, 8.9 million states, show nothing else, and take too long to be a run.)
In `workspace` the concurrency is shown by two categories, may be out of range or no number,
and takes two saves to be reordered or overtaken; a Boolean stands for all that
are not typed. `MaxTurns` bounds saves, failed discoveries, sign-ins and
restarts together: any two of them in any order.

Deadlock is checked for the engine (a run that has returned stutters in
`Finished`); a program that has been left may stay so, hence
`CHECK_DEADLOCK FALSE` in the others.

**Fairness.** `TasksFair` gives weak fairness to coordinator, workers and
collector: Tokio polls every task that is ready. `FairSpec` adds that every git
call ends, by success, error or a network failure; `HangSpec` leaves that out,
for there is no timeout in the code. The semaphore is fair and has one waiter,
and the result channel never fills, so weak fairness is enough. In
`SyncSession` the loop is fair because it wakes up on a 16 ms tick, and each
run because its tasks are polled and its git calls end. In `AuthFlow` each
attempt and each poller is a task that is polled, `Clock` is time, and `Handle`
the loop. That a request ends, with an answer or an error, is assumed of the
network, as it is of git calls: no timeout is set in the code.
`Workspace` states no fairness and no liveness. Keys, quitting, crashes,
restarts and what GitHub revokes are never forced.

### Properties

`EndIsShown` looks at the screen as `run_loop` draws it, once a turn, after all
events were taken and before a key is awaited (stage `input`). Results that are
replaced within the same turn are never drawn, and the property excepts just
those (`Overtaken`).

Engine: `PermitsConserved`, `SenderNeverBlocks`, `CancelStopsDispatch`,
`OutcomeHonest`, `AnnouncedRunIsComplete`, `HistoryAgrees`,
`FaultyHistorySafe`, `QuiescentOnceDone` (action property),
`EveryStartIsReported`, `RunEnds` (liveness), `RunSpec` (refinement), and a
type invariant. Session: `LogSettles`, `CompletedIsLast`, `PreSyncHasRun`,
`EndIsShown` (liveness), and a type invariant. Discovery:
`StoredSelectionIsChosen`, `ScreenIsStored`, `FoundIsNotMarked`,
`SpinnerHasTask`, `CatalogSpec` (refinement), and a type invariant, which
includes that names are unique. Authentication: `WaitingHasCause`,
`CodeOnScreenIsPolled`, `SignedInAgrees`, `KeyringStepIsEarned` (action
property), `PollerStops`, `WaitingEnds` (liveness), and a type invariant.
Running screen: `EditedField`, `FieldsTellMemory`, `SavedSurvives`,
`NeverTrapped`, `StatsSpinnerHasTask`, `OverlayFreezes` (action property), and
a type invariant. Each is stated in words above its definition, with the lines
it is about. `HistoryAgrees` counts the entries of a run by their status; which
operation a failed one is filed under is told below.

### Where code and documents disagree

1. `clone_with_progress` looks at the cancel flag before the result: a clone
   that failed answers `Ok(cancelled: true)`, and the worker records it as
   cloned (`failed_clone`). The design says such a repository is marked
   `error`.
2. The collector, commented as running concurrently with the workers, is
   spawned after the last dispatch (`late_collector`).
3. The live log is keyed by job ids that restart at 0 with each run, so a job
   need not get the one entry of its own that the design promises
   (`own_log_line`).
4. The cancelled screen comes at the keystroke with a summary of zeros and is
   replaced when the run ends as completed; the design has it sent when the
   workers have drained, with the partial results (`cancel_screen`).
5. The design has the next launch close the rows of interrupted runs; the
   function that does it has no caller (`orphans`).
6. The scope of a deletion mark is the whole table for every source but
   Starred, whoever owns the repository; the design restricts it to the scope
   that was listed (`foreign_mark`).

The runs that show these check one property each and find it violated. Three
more need no run to be seen:

7. A failed fetch is filed in the history as operation `clone`
   (`sync_engine.rs:278`), for its outcome does not say what was tried;
   `docs/design/git-vacuum-sqlite-schema.md:514` says of the column "What the
   engine decided to do".
8. Pausing sends an event to the screen and nothing else, as the comment at
   `main.rs:968` says, and jobs go on starting.
   `docs/design/git-vacuum-tui-ux-design.md:264` says "`p` pauses new
   operations. Active clones finish. Queued repos hold.", and
   `docs/design/git-vacuum-architecture.md:971` has the tasks check a flag.
9. The concurrency that the settings offer, show and save reaches no sync: both
   keys that start one ask for 8 (`reduce.rs:389`, `:408`). Only
   `Action::SyncStart` (`:430`) would use it, and neither a key nor a command
   of the palette sends that. The help of the field (`:995`) says "Max parallel
   clone/fetch operations.", and `docs/design/git-vacuum-architecture.md:965`
   "Default concurrency: 8 (override in settings, 1-50 range)".

Met while modelling `SyncSession`, without a run of their own:

- The loop draws once a turn. If the results of a run and a later event that
  decides the phase are taken in one turn (the results of another run, or the
  pause or resume that a key asked for), the first are never on the screen. A
  pause that comes in behind the end of the last run leaves the screen paused
  with nothing to resume.
- The cancel flag is never lowered, so after one cancellation every later sync
  of the session dispatches nothing and is recorded as completed.

Met while modelling `Discovery`, without a run of their own:

- A listing asks for one page of 100 repositories; the design describes paging.
  `FoundIsNotMarked` has "one page is enough" as its condition, and is false
  without it: what is beyond the page is marked deleted.
- A repository deleted and created anew under its name has a new id, and the
  old row keeps the name: the upsert fails, the marks made before it stay, and
  so it goes with every later discovery, since nothing deletes rows.
- A repository created after the listing of one discovery and upserted by
  another is marked deleted by the first; `FoundIsNotMarked` therefore speaks
  of repositories that have been there all along.
- The deduplication of the source All removes neighbours only; if the time a
  repository was updated changes between two requests it may be listed twice.
- The list read at sign-in may arrive after that of the first discovery and
  replace it, and a list read before a toggle shows the old selection; the
  table is right in both cases.
- The banner of `loading.repos`, raised at sign-in, goes only with a
  `ReposLoaded`. The load of the stored list that fails says nothing
  (`main.rs:888`), so if the first discovery fails too it stays until a refresh succeeds.
  `SpinnerHasTask` is about the Explorer's spinner.

Met while modelling `AuthFlow`; the properties are stated so that they hold
beside these:

- Attempts may overlap, since Esc cancels nothing. Each installs its token in
  the one client before it is validated, so the token that is validated may be
  another than the one stored (`auth_service.rs:8` says "Validate a PAT ... then
  persist it"). `SignedInAgrees` and `KeyringStepIsEarned` except overlaps.
- A poller outlives its screen: its token is completed even when the user has
  signed in otherwise, and then replaces client, keyring and the whole running
  state. Its timeout or denial throws the user off the code of a later flow.
- When GitHub refuses the stored token at the start, the table `accounts` is
  emptied, not only of that token's owner.
- `AuthCancelOAuth` and `Effect::CancelOAuth` do nothing.

Met while modelling `Workspace`:

- `render` draws neither modals nor palette, yet both take the keyboard. Esc is
  mapped to `DismissModal` before anything else is asked, so it neither closes
  the palette (`docs/design/git-vacuum-tui-ux-design.md:713`: "`Esc` dismisses") nor drops a
  settings edit (`:405`, `:794`). Enter in the palette always goes to the
  dashboard. `NeverTrapped` holds all the same: one of the two keys helps.
- While a settings field is edited the digits 1 to 5 switch tabs, `q` quits, and
  `?` and `:` open an overlay; in the token field `q` quits and `o` starts OAuth.
- Tab and BackTab reach the settings without building their fields: the screen
  is empty until the category is switched. Switching resets the unsaved mark
  without undoing what was changed.
- A concurrency that is no number is saved as it is, while memory keeps the old
  value; `SavedSurvives` leaves such a value out. The migration seeds
  `default_concurrency` and the like, which nothing reads.
- `--clone-path` and `--concurrency` are put into a state that is still the
  sign-in screen (`main.rs:163`) and have no effect; the concurrency on the
  screen is then 0. If that is saved it comes back as 1, for a start brings what
  it reads within 1 to 64. (The engine's `max(1)` matters only for a sync
  without the screen, `--sync --concurrency 0`.)
- Of the settings only the clone path, which a sync takes, and the default
  source, which a discovery takes, have an effect. `concurrency` is shown and
  not used (item 9); `skip_archived`, `skip_forks` ("Hide ... in the Explorer",
  says their help), `org_input` and `topic_filter` are kept in memory and in the
  table, and nothing that filters or lists reads them; `retry_failed` and
  `timeout_secs` are saved and not even kept in memory.
- Settings are loaded only when a stored token was accepted before the loop; a
  user who signs in on the screen gets the defaults.
- Two saves of one key may be applied in the opposite order, and a quit right
  after a save loses the tasks not yet run.
- The dashboard counts deleted repositories among those up to date, behind, in
  error and in the size, but not in the total.

## 4. Proofs

Every safety property of the passing runs, invariant or action property, and
both refinements are theorems, for every value of the constants that the named
assumptions of the modules allow. An inductive invariant was checked by TLC on
the instance of its component's run before it was proved. `IInv` of engine and
sign-in stay in runs; the others ask nothing that the properties of the runs do
not ask already, and are not.

All proofs have one shape: a conjunct of the invariant is a definition, a lemma
`...Step` shows that every step of the program keeps it, and lemmas `...Facts`
say once what an action or an operator does, so that the steps need not expand
it again. `Init...` and `Step...` put the conjuncts together, `Invariance` is
the theorem, and the properties follow from it.

### The engine: `SyncEngineProofs`, `SyncEngineRefinement`

For every number of jobs `N`, every configured `Concurrency` and with or
without database faults (`N` and `Concurrency` natural numbers, `DbFaults`
Boolean):

| theorem | statement |
|---|---|
| `Invariance` | `Spec => []IInv` |
| `TypeCorrect` | `Spec => []TypeOK` |
| `PermitsAreConserved` | `Spec => []PermitsConserved` |
| `SendersNeverBlock` | `Spec => []SenderNeverBlocks` |
| `OutcomesAreHonest` | `Spec => []OutcomeHonest` |
| `CancellationStopsDispatch` | `Spec => []CancelStopsDispatch` |
| `HistorySafe` | `Spec => []FaultyHistorySafe` |
| `AnnouncedRunIsTold` | `Spec => []EveryStartIsTold` |
| `AnnouncedRunComplete` | `Spec => []AnnouncedRunIsComplete` |
| `HistoryAgreesWithRun` | `Spec => []HistoryAgrees` |
| `RunIsQuiescent` | `Spec => QuiescentOnceDone` |
| `EngineImplementsRun` | `Spec => RunSpec` |

The argument. None of the properties is inductive alone. `SenderNeverBlocks`
needs to know how many outcomes can be in the channel: `ChannelInv` counts
them (received plus waiting outcomes are the workers that have exited), so a
worker about to send, which has not exited, finds fewer than `N`, and the
capacity is at least `2 * N`. `CancelStopsDispatch` needs `DispatchInv`: where
the coordinator stands relative to the flag. `QuiescentOnceDone` needs
`PhaseInv`: past the drain every worker has exited and the collector has ended.
`EveryStartIsTold` and the history need `DeliveryInv`: an outcome is in exactly
one place, with its worker, once in the channel, or reported, and the events of
the job say where. `OutcomeHonest` needs `WorkerInv` (which of a worker's data
exist in which state) and `DiskInv` (what planning and a clone say about the
disk). The counters of the summary are sums that the collector forms one event
at a time: `TallyInv` says that each is the number of jobs *reported* with that
outcome, and at the announcement, when by `PhaseInv` and `DeliveryInv` all
started jobs are reported, these are all there are. `RecordInv` says the same of
the history, for a database that does not fail, with the one entry that is being
persisted left out. Facts about counting sets of jobs (`JobSets`, `JobJoins`,
`JobLeaves`) rest on the library's theorems about cardinalities.

The refinement maps each action: `Acquire`, which takes a permit and spawns the
worker, begins a job (`BeginStep`), `Send` hands in the verdict (`FinishStep`),
the collector's `Recv` is the report (`ReportStep`), `Announce` closes the run
(`CloseStep`), `Cancel` is itself, and everything else is invisible
(`Invisible`), a worker's `Start`, `GitEnd` and `Return` included.
`Limit` of `SyncRun` is respected because of `PermitsConserved`; that a run
closes with everything reported and with the right totals (`TotalsOfTheRun`) is
`PhaseInv` and `TallyInv` again.

### The session: `SyncSessionProofs`

For any finite set of repositories, selections, length of the log, length of
the queue, and numbers of runs, keys and restarts:

| theorem | statement |
|---|---|
| `Invariance` | `Spec => []SInv` |
| `TypeCorrect` | `Spec => []TypeOK` |
| `LogComesToRest` | `Spec => []LogSettles` |
| `ResultsComeLast` | `Spec => []CompletedIsLast` |
| `WaitingHasRun` | `Spec => []PreSyncHasRun` |

The argument. A log line spins until an `Ended` finds it by its job id, and ids
repeat, so a line need not belong to the run that ends it. `LogInv` therefore
ties a line not to a run but to an id: somebody works under it (`AtWork`) or an
`Ended` for it is in the channel. It is kept when a line is made, because
`ChannelInv` says the same of the `Started` that makes it, and when one is
dropped or taken over, because there is one line to an id. With nobody at work
and an empty channel no line can spin. `CompletedIsLast` needs that in the
channel nothing of a run stands behind its `Completed` (`ChannelInv`), so that
nothing is left once that has become the phase (`PhaseInv`); and `JobInv`, that
a run which is closed has no job running. `OrderInv` (effects are carried out
before the next key, and runs are spawned in order) is needed for the run that
has been asked for but does not exist yet.

### Discovery: `DiscoveryLemmas`, `DiscoveryProofs`

For any GitHub states in which a name belongs to one repository, any listings,
page size, faults, and any number of discoveries, keys and changes:

| theorem | statement |
|---|---|
| `Invariance` | `Spec => []DInv` |
| `TypeCorrect` | `Spec => []TypeOK` |
| `SelectionsSurvive` | `Spec => []StoredSelectionIsChosen` |
| `ScreenHasRows` | `Spec => []ScreenIsStored` |
| `SteadyIsNotMarked` | `Spec => []FoundIsNotMarked` |
| `SpinnerIsHonest` | `Spec => []SpinnerHasTask` |
| `DiscoveryKeepsCatalog` | `Spec => CatalogSpec` |

The argument. `TypeOK` contains the `UNIQUE` constraint on names, and an upsert
writes its rows one after the other, each against the table as the earlier ones
left it. `LastNameIsFree` and `UpsertFacts` say that if no statement clashed the
names are unique at the end: of two rows that would share a name, the one
written last found the other one there. The listings need that a finite set of
numbers can be put in order (`Enumeration`, `InOrderFacts`), that sorting and
deduplicating loses no repository (`DedupFacts`, `AllAccessibleFacts`), and that
a page which is large enough has everything (`ListingFacts`).

`ScreenIsStored` needs `ListsInv`, which follows the list from the upsert
through the channel to the screen; rows never go away (`TableStep`).
`StoredSelectionIsChosen` needs that what is written late is the last choice
(`SelectInv`: at most one selection is on its way, since a turn carries its
effects out before it reads a key, `OrderInv`), and that an upsert keeps the
row's selection as it is at that moment, not as the task had read it.
`FoundIsNotMarked` needs `MarkInv`, which follows the steady repositories
through a task: they are in its listing, hence not among what is to be marked,
and "steady" can only shrink meanwhile. That there are never more dialogs than
discoveries, which bounds `modals`, is `ModalInv`: a dialog or a failure in the
channel has a task that is over.

For the refinement an upsert is mapped to the appearance of the rows that are
new, the write of a selection to `Select`, `RecordCloned` to `Record`, and every
other step leaves the user's part of each row as it is.

### Signing in: `AuthFlowProofs`

For any tokens, owners, inputs, faults and bounds, under the assumptions named
in `AuthFlow` (`NoToken` is no token and `NoUser` owns none, inputs are tokens
or none, faults are Boolean, bounds natural numbers):

| theorem | statement |
|---|---|
| `Invariance` | `Spec => []IInv` |
| `TypeCorrect` | `Spec => []TypeOK` |
| `WaitingIsCaused` | `Spec => []WaitingHasCause` |
| `ShownCodeIsPolled` | `Spec => []CodeOnScreenIsPolled` |
| `StoresAgree` | `Spec => []SignedInAgrees` |
| `KeyringIsEarned` | `Spec => KeyringStepIsEarned` |

The argument. `SignedInAgrees` speaks of the screen, but three steps and an
event lie between the last write of a store and the screen. `AgreeInv` says the
same of a sign-in that is still in the channel. It is kept because of
`SoloInv`: as long as no attempt overlaps another there is one at a time, its
undelivered result included, and client and keyring are as that one left them,
so what it validated is what it stored. `ProcessInv` is needed for the start,
where an attempt signs in without an event: there is no other task yet, and
only that attempt erases anything. `KeyringStepIsEarned` needs `AnswerInv`,
what GitHub has said about the token in an attempt, which a later revocation
does not undo, and `SoloInv` to tell that the keyring still holds that token.
A code is on its way before it is on the screen, so `CodeInv` also says of a
code in the channel that it is polled or that the last word about it comes
behind it.

### The running screen: `WorkspaceProofs`

For any order of tabs and categories, any drafts, faults and numbers of saves,
sign-ins, restarts and refreshes:

| theorem | statement |
|---|---|
| `Invariance` | `Spec => []WInv` |
| `TypeCorrect` | `Spec => []TypeOK` |
| `EditedFieldIsOpened` | `Spec => []EditedField` |
| `FieldsShowMemory` | `Spec => []FieldsTellMemory` |
| `SavedSettingsSurvive` | `Spec => []SavedSurvives` |
| `NobodyIsTrapped` | `Spec => []NeverTrapped` |
| `SpinnerHasTask` | `Spec => []StatsSpinnerHasTask` |
| `OverlayHoldsStill` | `Spec => OverlayFreezes` |

The argument. `FieldsInv` ties the fields on the screen to the category and the
edit to the field that was opened; it is kept by every way the fields are
rebuilt (`...IsWellFormed`). `SavedSurvives` speaks of keys none of whose saves
is under way; `AgreedInv` adds those with one that is, whose value comes back as
memory holds it now (`ComesBack`, which `TakenComesBack` shows for whatever the
rules for settings make of a draft: what is clamped is clamped to the same value
when it is loaded, and `HeldComesBack` for a value that is saved along with it).
Both are about memory and the table; that the program acts on a setting is not
what they say. That one save of a key is under way at most is what the history
variable `agreed` requires, and why two saves that overtake each other are not
covered. `StatsSpinnerHasTask` needs the number of refreshes (`StatsInv`);
`NeverTrapped` takes two cases: with a dialog up Esc takes the topmost one away,
and with none the only overlay left is the palette, which Enter closes. `GoneInv` says that a process that is gone shows none.

### What is only model-checked

Liveness (`EveryStartIsReported`, `RunEnds`, `EndIsShown`, `PollerStops`,
`WaitingEnds`) is out of the prover's reach. No safety property of a passing
run is left to TLC alone. The runs that find a violation state what is false of
the code, and nothing about them can be proved.

The prover cannot take a predicate as a parameter, so the library's induction
principles are of no use; where induction over data is needed (a finite set of
numbers has an increasing enumeration) the proof takes a least counterexample in
a set of its own, whose existence is `WFMin`, the form of well-foundedness
without a predicate (`LeastNat`). `InOrder` is the increasing enumeration by its
definition, and not the community modules' sort, for that one is computed by TLC
and says nothing to the prover.

## 5. Not modelled, and why

- Rendering, formatting, clipboard, browser: presentation and pure I/O.
- The GitHub client's HTTP and the mapping of fields: network I/O.
- `CloneSingle`, `SyncSingle`, `ExportRun`, `PersistRepos`, `MarkReposDeleted`,
  `RecordSyncRun`, `TestConnection`: effects the program logs and ignores.
- Two runs writing one directory: what two libgit2 clones do to each other is
  not determined by this code.
- `--sync`, a sync without the screen (`main.rs:109-150`): the same discovery
  and one engine run in sequence, then the end of the process.
- Loading flags of the tab bar and the welcome screen's counts: presentation.
- Signing out: the palette's selection never moves, so no key reaches "Log out".
- The gh CLI entry of the sign-in screen: it shows a hint.
- The texts of errors and their classification (`classify_auth_error`), cursor
  positions, the palette's field: no property reads them.
- The SQL of the statistics: aggregates over one table, planned as operators.
  That a refresh always answers is in `Workspace`.

## 6. Plan

Done: `SyncRun`, `SyncEngine`, `SyncSession`, `RepoCatalog`, `Discovery`,
`AuthFlow` and `Workspace`, checked; the safety of all five components and both
refinements, proved. Left, in this order:

1. `SyncSession` against `SyncRun`: each run of a session, seen alone, is a run
   of the abstract specification, so that what the engine is proved to do is
   what the session builds on.
2. Action properties that the proofs have nearly in hand: a run's row in the
   history is closed once; a repository in the table keeps its clone status.
3. The composition of `AuthFlow` and `Workspace`, so that a late sign-in meets
   tasks of the session it replaces.
4. The statistics as operators against a reference definition.
