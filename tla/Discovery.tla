----------------------------- MODULE Discovery -----------------------------
(***************************************************************************)
(* The list of repositories: discovery tasks                               *)
(* (crates/git-vacuum-service/src/discovery.rs, merge.rs), the load of the *)
(* stored list at sign-in, the selection keys of the Explorer and the sync *)
(* engine, all on the table repos and on the list the screen shows.        *)
(*                                                                         *)
(* A task runs beside the loop and beside other tasks; each of its         *)
(* database calls takes the connection's lock for itself, so every call is *)
(* an action.  GitHub changes under everybody's feet.                      *)
(*                                                                         *)
(* A repository is its github_id and its full name; what else the API says *)
(* of it overwrites the row and is left out.  The program is signed in     *)
(* throughout, and starts with an empty table.                             *)
(***************************************************************************)
EXTENDS Integers, Sequences, FiniteSets, SequencesExt

CONSTANTS Ids,         \* github_ids
          Names,       \* full names
          NoName,
          Githubs,     \* bound: the states of GitHub
          Synced,      \* bound: what the sync engine works on
          Mine,        \* what GET /user/repos lists
          OrgRepos,    \* what GET /orgs/{org}/repos lists
          Starred,     \* what GET /user/starred lists
          Sources,     \* what the setting default_source may be
          PageSize,    \* 100: one page is all that is asked for
          DbFaults,    \* may database calls fail?
          MaxTasks,    \* bound: discoveries
          MaxKeys,     \* bound: selection keystrokes
          MaxChanges   \* bound: changes on GitHub

ASSUME IdsAssumption == Ids \subseteq Nat /\ IsFiniteSet(Ids)
ASSUME NamesAssumption == NoName \notin Names
\* GitHub has one repository to a name.
ASSUME GithubsAssumption ==
  \A g \in Githubs :
    /\ g \in [Ids -> Names \cup {NoName}]
    /\ \A i, k \in Ids : g[i] = g[k] /\ g[i] # NoName => i = k
ASSUME SyncedAssumption == Synced \subseteq Ids
ASSUME ListingsAssumption == Mine \subseteq Ids /\ OrgRepos \subseteq Ids /\ Starred \subseteq Ids
ASSUME SourcesAssumption == Sources \subseteq {"MyRepos", "Starred", "All"}
ASSUME PageSizeAssumption == PageSize \in Nat
ASSUME DbFaultsAssumption == DbFaults \in BOOLEAN
ASSUME BoundsAssumption == MaxTasks \in Nat \ {0} /\ MaxKeys \in Nat /\ MaxChanges \in Nat

VARIABLES
  github,    \* github[i]: the full name of i, or NoName
  steady,    \* history: what has been on GitHub all the time
  changes,   \* changes so far
  store,     \* the table repos
  unsaved,   \* history: rows whose last selection could not be written
  chosen,    \* history: the user's last choice for i
  disc,      \* disc[d]: discovery task d
  loader,    \* the LoadReposFromDb task
  stage,     \* where run_loop is: drain, effects, input
  repos,     \* state.repos, the list on the screen
  loading,   \* explorer.loading
  modals,    \* error dialogs on the screen
  effects,   \* app.pending_effects
  appRx,     \* the application channel
  keys       \* selection keystrokes so far

worldVars == <<github, steady, changes>>
dbVars == <<store, unsaved>>
screenVars == <<stage, repos, loading, modals, effects, chosen, keys>>
vars == <<worldVars, dbVars, screenVars, disc, loader, appRx>>

Tasks == 1 .. MaxTasks
NoRow == [name |-> NoName, selected |-> FALSE, status |-> "absent", deleted |-> FALSE]
Stored == {i \in Ids : store[i] # NoRow}

\* The results of a database call: TRUE if it took effect.
DbCall == IF DbFaults THEN BOOLEAN ELSE {TRUE}

IdsOf(l) == {l[k].id : k \in DOMAIN l}
Effect(kind, source, ids, on) == [kind |-> kind, source |-> source, ids |-> ids, on |-> on]
Event(kind, entries) == [kind |-> kind, entries |-> entries]
Idle == [pc |-> "none", source |-> "MyRepos", list |-> <<>>, todo |-> {}]

----------------------------------------------------------------------------
\* Listing GitHub.

\* The increasing sequence of the members of S.
InOrder(S) == CHOOSE f \in [1 .. Cardinality(S) -> S] : \A i, k \in DOMAIN f : i < k => f[i] < f[k]

\* One request: the first page of what there is, every entry still under its
\* default selection.
Listing(S) ==
  LET found == InOrder({i \in S : github[i] # NoName})
      size  == IF Len(found) < PageSize THEN Len(found) ELSE PageSize
  IN  [k \in 1 .. size |-> [id |-> found[k], name |-> github[found[k]], selected |-> TRUE]]

\* dedup_by_key(github_id): of neighbours with one id the first stays.
Dedup(l) ==
  LET kept == InOrder({k \in DOMAIN l : k = 1 \/ l[k].id # l[k - 1].id})
  IN  [k \in DOMAIN kept |-> l[kept[k]]]

\* What list_all_accessible_repos makes of the listings l: sorted by updated_at,
\* which may change from request to request, so any order may result.
AllAccessible(l) == {Dedup([k \in DOMAIN l |-> l[order[k]]]) : order \in SetToSeqs(DOMAIN l)}

----------------------------------------------------------------------------
\* The table.

\* Every source prunes.
ShouldPrune_Always(source) == TRUE

\* should_prune_from_scope: is_in_scope is true for all of these sources,
\* whoever owns the repository.
ShouldPrune(source) == source # "Starred"

\* The name of row i when the upsert reaches position k of l: that of an
\* earlier occurrence in l, or the stored one.
NameAt(l, k, i) ==
  LET earlier == {m \in 1 .. k - 1 : l[m].id = i}
  IN  IF earlier = {} THEN store[i].name
      ELSE l[CHOOSE m \in earlier : \A n \in earlier : n <= m].name

\* The names are not checked.
Clashes_Never(l) == FALSE

\* UNIQUE(full_name): another row has the name a statement wants to write.  The
\* statement fails and the transaction with it.
Clashes(l) ==
  \E k \in DOMAIN l : \E i \in Ids \ {l[k].id} : NameAt(l, k, i) = l[k].name

\* The merged entry's selection is written too.
RowAfter_Selection(l, i) ==
  LET name == NameAt(l, Len(l) + 1, i)
      k    == CHOOSE m \in DOMAIN l : l[m].id = i
  IN  IF i \notin Stored
      THEN [name |-> name, selected |-> TRUE, status |-> "NotCloned", deleted |-> FALSE]
      ELSE [store[i] EXCEPT !.name = name, !.deleted = FALSE, !.selected = l[k].selected]

\* An old row starts afresh.
RowAfter_Status(l, i) ==
  LET name == NameAt(l, Len(l) + 1, i)
  IN  [name |-> name, selected |-> store[i].selected \/ i \notin Stored,
       status |-> "NotCloned", deleted |-> FALSE]

\* The row of i after the upsert of l: a new row takes everything from the merged
\* entry, an old one keeps the user's part.
RowAfter(l, i) ==
  LET name == NameAt(l, Len(l) + 1, i)
  IN  IF i \notin Stored
      THEN [name |-> name, selected |-> TRUE, status |-> "NotCloned", deleted |-> FALSE]
      ELSE [store[i] EXCEPT !.name = name, !.deleted = FALSE]

Init ==
  /\ github \in Githubs
  /\ steady = {i \in Ids : github[i] # NoName}
  /\ changes = 0
  /\ store = [i \in Ids |-> NoRow]
  /\ unsaved = {}
  /\ chosen = [i \in Ids |-> TRUE]
  /\ disc = [d \in Tasks |-> Idle]
  /\ loader = [pc |-> "none", entries |-> <<>>]
  /\ stage = "drain"
  /\ repos = <<>>
  /\ loading = FALSE
  /\ modals = 0
  \* reduce_event(AuthSucceeded)
  /\ effects = <<Effect("Load", "MyRepos", {}, TRUE), Effect("Discover", "MyRepos", {}, TRUE)>>
  /\ appRx = <<>>
  /\ keys = 0

----------------------------------------------------------------------------
\* The main loop.

Started == {d \in Tasks : disc[d].pc # "none"}
Ordered == {k \in DOMAIN effects : effects[k].kind = "Discover"}

\* A failed discovery leaves the spinner on.
LoadingAfter_OnFailure(e) == e.kind # "Discovered" /\ loading

\* ReposDiscovered and DiscoveryFailed end the spinner, whichever refresh it
\* was that they answer.
LoadingAfter(e) == e.kind = "Loaded" /\ loading

\* try_recv and reduce_event.  A new list replaces the old one.
DrainOne ==
  /\ stage = "drain"
  /\ appRx # <<>>
  /\ LET e == Head(appRx)
     IN  /\ repos' = IF e.kind = "Loaded" THEN e.entries ELSE repos
         /\ loading' = LoadingAfter(e)
         /\ modals' = IF e.kind = "Failed" THEN modals + 1 ELSE modals
  /\ appRx' = Tail(appRx)
  /\ UNCHANGED <<worldVars, dbVars, stage, effects, chosen, keys, disc, loader>>

AfterEffects(fx) == IF fx = <<>> THEN "input" ELSE "effects"

Drained ==
  /\ stage = "drain"
  /\ appRx = <<>>
  /\ stage' = AfterEffects(effects)
  /\ UNCHANGED <<worldVars, dbVars, repos, loading, modals, effects, chosen, keys, disc, loader, appRx>>

\* spawn_effect(LoadReposFromDb)
SpawnLoad ==
  /\ loader' = [loader EXCEPT !.pc = "read"]
  /\ UNCHANGED <<dbVars, disc>>

\* spawn_effect(DiscoverRepos): a task of its own, whatever is in flight.
SpawnDiscover(source) ==
  /\ LET d == CHOOSE d \in Tasks : disc[d].pc = "none" /\ \A q \in 1 .. d - 1 : disc[q].pc # "none"
     IN  disc' = [disc EXCEPT ![d] = [Idle EXCEPT !.pc = "list", !.source = source]]
  /\ UNCHANGED <<dbVars, loader>>

\* spawn_effect(PersistRepoSelection): set_repos_selected on the loop itself;
\* its error is dropped.
Persist(S, on) ==
  /\ \E ok \in DbCall :
       /\ store' = IF ok THEN [i \in Ids |-> IF i \in S \cap Stored
                                             THEN [store[i] EXCEPT !.selected = on] ELSE store[i]]
                   ELSE store
       /\ unsaved' = IF ok THEN unsaved \ S ELSE unsaved \cup S
  /\ UNCHANGED <<disc, loader>>

Execute ==
  /\ stage = "effects"
  /\ effects # <<>>
  /\ effects' = Tail(effects)
  /\ stage' = AfterEffects(effects')
  /\ LET e == Head(effects)
     IN  \/ e.kind = "Load" /\ SpawnLoad
         \/ e.kind = "Discover" /\ SpawnDiscover(e.source)
         \/ e.kind = "Select" /\ Persist(e.ids, e.on)
  /\ UNCHANGED <<worldVars, repos, loading, modals, chosen, keys, appRx>>

\* A tick, or a key that is none of those below.
Tick ==
  /\ stage = "input"
  /\ stage' = "drain"
  /\ UNCHANGED <<worldVars, dbVars, repos, loading, modals, effects, chosen, keys, disc, loader, appRx>>

\* A key of the Explorer, which has the keyboard only while no dialog is up.
ExplorerKey ==
  /\ stage = "input"
  /\ modals = 0
  /\ stage' = "drain"
  /\ UNCHANGED <<worldVars, dbVars, modals, disc, loader, appRx>>

\* The selection of S is switched on the screen and left for the next turn to
\* write.
Choose(S, on) ==
  /\ keys < MaxKeys
  /\ keys' = keys + 1
  /\ chosen' = [i \in Ids |-> IF i \in S THEN on ELSE chosen[i]]
  /\ effects' = Append(effects, Effect("Select", "MyRepos", S, on))
  /\ UNCHANGED loading

ExplorerToggle(k) ==
  /\ ExplorerKey
  /\ k \in DOMAIN repos
  /\ repos' = [repos EXCEPT ![k].selected = ~repos[k].selected]
  /\ Choose({repos[k].id}, ~repos[k].selected)

\* ExplorerSelectAll, ExplorerDeselectAll
ExplorerSelect(on) ==
  /\ ExplorerKey
  /\ repos' = [k \in DOMAIN repos |-> [repos[k] EXCEPT !.selected = on]]
  /\ Choose(IdsOf(repos), on)

\* ExplorerRefresh, with any setting of the default source.
ExplorerRefresh(source) ==
  /\ ExplorerKey
  /\ Cardinality(Started) + Cardinality(Ordered) < MaxTasks
  /\ loading' = TRUE
  /\ effects' = Append(effects, Effect("Discover", source, {}, TRUE))
  /\ UNCHANGED <<repos, chosen, keys>>

DismissModal ==
  /\ stage = "input"
  /\ modals > 0
  /\ modals' = modals - 1
  /\ stage' = "drain"
  /\ UNCHANGED <<worldVars, dbVars, repos, loading, effects, chosen, keys, disc, loader, appRx>>

----------------------------------------------------------------------------
\* A discovery task.

Send(kind, entries) == appRx' = Append(appRx, Event(kind, entries))

\* An error ends the task; DiscoveryFailed reports it.
Failed(d) ==
  /\ disc' = [disc EXCEPT ![d] = [Idle EXCEPT !.pc = "done"]]
  /\ Send("Failed", <<>>)
  /\ UNCHANGED <<worldVars, dbVars, screenVars, loader>>

\* A request to GitHub fails: the token's check or a listing; the database
\* cannot be read.
Fail(d) ==
  /\ disc[d].pc \in {"list", "orgs"} \/ (disc[d].pc = "load" /\ DbFaults)
  /\ Failed(d)

Advance(d, pc, list, todo) ==
  /\ disc' = [disc EXCEPT ![d].pc = pc, ![d].list = list, ![d].todo = todo]
  /\ UNCHANGED <<worldVars, screenVars, loader>>

\* The token is valid and the first (or only) listing arrives.
ListFirst(d) ==
  /\ disc[d].pc = "list"
  /\ IF disc[d].source = "All" THEN Advance(d, "orgs", Listing(Mine), {})
     ELSE Advance(d, "load", Listing(IF disc[d].source = "Starred" THEN Starred ELSE Mine), {})
  /\ UNCHANGED <<dbVars, appRx>>

\* list_all_accessible_repos: the organisation's listing, sort and dedup.
ListOrgs(d) ==
  /\ disc[d].pc = "orgs"
  /\ \E l \in AllAccessible(disc[d].list \o Listing(OrgRepos)) : Advance(d, "load", l, {})
  /\ UNCHANGED <<dbVars, appRx>>

\* get_all_repos and the merge: an entry with a row takes the row's selection;
\* what the table has and the list has not is to be marked.
Load(d) ==
  /\ disc[d].pc = "load"
  /\ LET l == disc[d].list
         merged == [k \in DOMAIN l |->
                      [l[k] EXCEPT !.selected = l[k].id \notin Stored \/ store[l[k].id].selected]]
         missing == IF ShouldPrune(disc[d].source) THEN Stored \ IdsOf(l) ELSE {}
     IN  Advance(d, "mark", merged, missing)
  /\ UNCHANGED <<dbVars, appRx>>

\* mark_repo_deleted_on_remote, one call for each; errors are dropped.
Mark(d) ==
  /\ disc[d].pc = "mark"
  /\ \E i \in disc[d].todo : \E ok \in DbCall :
       /\ store' = IF ok THEN [store EXCEPT ![i].deleted = TRUE] ELSE store
       /\ Advance(d, "mark", disc[d].list, disc[d].todo \ {i})
  /\ UNCHANGED <<unsaved, appRx>>

\* The error of the upsert is dropped like those of the marks.
Upsert_Unchecked(d) ==
  /\ disc[d].pc = "mark" /\ disc[d].todo = {}
  /\ store' = IF Clashes(disc[d].list) THEN store
              ELSE [i \in Ids |-> IF i \in IdsOf(disc[d].list)
                                  THEN RowAfter(disc[d].list, i) ELSE store[i]]
  /\ Advance(d, "loaded", disc[d].list, {})
  /\ UNCHANGED <<unsaved, appRx>>

\* upsert_repos, one transaction.
Upsert(d) ==
  /\ disc[d].pc = "mark" /\ disc[d].todo = {}
  /\ LET l == disc[d].list
     IN  \/ /\ ~Clashes(l)
            /\ store' = [i \in Ids |-> IF i \in IdsOf(l) THEN RowAfter(l, i) ELSE store[i]]
            /\ Advance(d, "loaded", l, {})
            /\ UNCHANGED <<unsaved, appRx>>
         \/ /\ Clashes(l) \/ DbFaults
            /\ Failed(d)

SendLoaded(d) ==
  /\ disc[d].pc = "loaded"
  /\ Send("Loaded", disc[d].list)
  /\ Advance(d, "discovered", <<>>, {})
  /\ UNCHANGED dbVars

SendDiscovered(d) ==
  /\ disc[d].pc = "discovered"
  /\ Send("Discovered", <<>>)
  /\ disc' = [disc EXCEPT ![d] = [Idle EXCEPT !.pc = "done"]]
  /\ UNCHANGED <<worldVars, dbVars, screenVars, loader>>

Discover(d) ==
  \/ Fail(d) \/ ListFirst(d) \/ ListOrgs(d)
  \/ Load(d) \/ Mark(d) \/ Upsert(d)
  \/ SendLoaded(d) \/ SendDiscovered(d)

----------------------------------------------------------------------------
\* The task of LoadReposFromDb.  Nobody hears of an error.

ReadStored ==
  /\ loader.pc = "read"
  /\ \E ok \in DbCall :
       LET rows == InOrder(Stored)
       IN  loader' = IF ok
                     THEN [pc |-> "send",
                           entries |-> [k \in DOMAIN rows |->
                                          [id |-> rows[k], name |-> store[rows[k]].name,
                                           selected |-> store[rows[k]].selected]]]
                     ELSE [loader EXCEPT !.pc = "done"]
  /\ UNCHANGED <<worldVars, dbVars, screenVars, disc, appRx>>

SendStored ==
  /\ loader.pc = "send"
  /\ Send("Loaded", loader.entries)
  /\ loader' = [pc |-> "done", entries |-> <<>>]
  /\ UNCHANGED <<worldVars, dbVars, screenVars, disc>>

----------------------------------------------------------------------------
\* Everybody else.

\* On GitHub repositories are created, renamed, transferred or deleted.
GithubChange(g) ==
  /\ changes < MaxChanges
  /\ changes' = changes + 1
  /\ g # github
  /\ github' = g
  /\ steady' = {i \in steady : g[i] # NoName}
  /\ UNCHANGED <<dbVars, screenVars, disc, loader, appRx>>

\* The sync engine has brought a repository of the table to disk, where it was
\* perhaps on the screen of an earlier refresh: update_local_status.
RecordCloned(i) ==
  /\ i \in Stored
  /\ store[i].status # "Cloned"
  /\ store' = [store EXCEPT ![i].status = "Cloned"]
  /\ UNCHANGED <<worldVars, unsaved, screenVars, disc, loader, appRx>>

Loop == DrainOne \/ Drained \/ Execute \/ Tick
Keyboard ==
  \/ \E k \in DOMAIN repos : ExplorerToggle(k)
  \/ \E on \in BOOLEAN : ExplorerSelect(on)
  \/ \E source \in Sources : ExplorerRefresh(source)
  \/ DismissModal
Loader == ReadStored \/ SendStored

Next ==
  \/ Loop \/ Keyboard
  \/ \E d \in Tasks : Discover(d)
  \/ Loader
  \/ \E g \in Githubs : GithubChange(g)
  \/ \E i \in Synced : RecordCloned(i)

Spec == Init /\ [][Next]_vars

----------------------------------------------------------------------------
(* Properties *)

Entry == [id : Ids, name : Names, selected : BOOLEAN]

\* Every variable has its type; in particular no two rows have one name.
TypeOK ==
  /\ github \in [Ids -> Names \cup {NoName}]
  /\ steady \subseteq Ids
  /\ changes \in 0 .. MaxChanges
  /\ store \in [Ids -> [name : Names \cup {NoName}, selected : BOOLEAN,
                        status : {"absent", "NotCloned", "Cloned"}, deleted : BOOLEAN]]
  /\ \A i, k \in Stored : store[i].name = store[k].name => i = k
  /\ unsaved \subseteq Ids
  /\ chosen \in [Ids -> BOOLEAN]
  /\ disc \in [Tasks -> [pc : {"none", "list", "orgs", "load", "mark", "loaded", "discovered", "done"},
                         source : {"MyRepos", "Starred", "All"},
                         list : Seq(Entry), todo : SUBSET Ids]]
  /\ loader \in [pc : {"none", "read", "send", "done"}, entries : Seq(Entry)]
  /\ stage \in {"drain", "effects", "input"}
  /\ repos \in Seq(Entry)
  /\ loading \in BOOLEAN
  /\ modals \in 0 .. MaxTasks
  /\ effects \in Seq([kind : {"Load", "Discover", "Select"}, source : {"MyRepos", "Starred", "All"},
                      ids : SUBSET Ids, on : BOOLEAN])
  /\ appRx \in Seq([kind : {"Loaded", "Discovered", "Failed"}, entries : Seq(Entry)])
  /\ keys \in 0 .. MaxKeys

PendingSelect == {i \in Ids : \E k \in DOMAIN effects : effects[k].kind = "Select" /\ i \in effects[k].ids}

\* What the table says of a selection is what the user chose last, whatever
\* discoveries read before the keystroke and wrote after it; only a write on
\* its way or a failed one excuses a difference (repos.rs:213, repos.rs:7,
\* merge.rs:36).
StoredSelectionIsChosen ==
  \A i \in Stored \ (PendingSelect \cup unsaved) : store[i].selected = chosen[i]

\* Everything on the screen, even after a failed or overlapping refresh, has a
\* row: a selection or a clone status written for it is not lost
\* (discovery.rs:54-61, main.rs:866).
ScreenIsStored == IdsOf(repos) \subseteq Stored

\* A repository that a full listing of the user's repositories has shown all
\* along is never marked as deleted on GitHub, whichever sources are refreshed
\* and however the refreshes overlap (discovery.rs:42-52, merge.rs:84).  One
\* page must be enough.
FoundIsNotMarked ==
  Cardinality(Mine) <= PageSize => \A i \in steady \cap Mine : ~store[i].deleted

\* The spinner never waits for nothing, although refreshes overlap and the end
\* of one ends the spinner of all: while it spins there is a discovery about to
\* start, at work or about to report (reduce.rs:309, :683-705, main.rs:861).
SpinnerHasTask ==
  loading =>
    \/ Ordered # {}
    \/ \E d \in Started : disc[d].pc # "done"
    \/ \E k \in DOMAIN appRx : appRx[k].kind \in {"Discovered", "Failed"}

\* Discoveries never touch the user's part of a row (merge.rs:35-45,
\* repos.rs:23-40).
Catalog == INSTANCE RepoCatalog
  WITH row <- [i \in Ids |-> [selected |-> store[i].selected, status |-> store[i].status]]
CatalogSpec == Catalog!Spec

----------------------------------------------------------------------------
(* What the documents say and the code does not do *)

\* git-vacuum-github-integration.md 5.3: a refresh of one scope does not mark
\* the repositories that another one has brought in.
ForeignNotMarked == \A i \in steady : ~store[i].deleted
=============================================================================
