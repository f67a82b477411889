----------------------------- MODULE Workspace -----------------------------
(***************************************************************************)
(* The running screen of the signed-in user: tabs, overlays and the        *)
(* settings (key_to_action of crates/git-vacuum/src/main.rs, the reducers  *)
(* of crates/git-vacuum-app/src/reduce.rs), and the tasks it starts, one   *)
(* per saved setting and one per refresh of the dashboard's statistics.    *)
(*                                                                         *)
(* One key means different things: some are global, and beneath an overlay *)
(* the key mapping asks for the palette first, the reducer for the modals. *)
(*                                                                         *)
(* Of the settings, a sync takes the clone path and a discovery the        *)
(* default source; the others are kept in memory and in the table, and     *)
(* nothing a key leads to reads them.                                      *)
(*                                                                         *)
(* Values of settings are numbers: 0 and 1 for a Boolean, the position in  *)
(* a dropdown, any text by a number (0 is the empty one), and for the      *)
(* concurrency the number itself, or Garbage for what is no number.        *)
(* Where the field cursor stands is left to chance; what the palette's     *)
(* field holds is not read by anything.                                    *)
(***************************************************************************)
EXTENDS Integers, Sequences, FiniteSets

CONSTANTS Tabs,       \* TabKind::all, or a part of it
          Categories, \* SettingsCategory::all, or a part of it
          Drafts,     \* bound: Drafts[k], what may be typed for key k; the digits
                      \* 1 to 5, 'q', '?' and ':' never reach a draft
          Opened,     \* bound: the keys whose fields the user opens
          DbFaults,   \* may the database fail?
          MaxTurns,   \* bound: save commands, failed discoveries, sign-ins and restarts
          MaxRefresh  \* bound: refreshes of the statistics under way

Garbage == -1
Absent == -2
MaxConcurrency == 64

CategorySet == {Categories[i] : i \in DOMAIN Categories}
TabSet == {Tabs[i] : i \in DOMAIN Tabs}

ASSUME TabsAssumption ==
  /\ Tabs \in Seq({"Dashboard", "Explorer", "SyncCenter", "ActivityLog", "Settings"})
  /\ {"Dashboard", "SyncCenter", "Settings"} \subseteq TabSet
ASSUME CategoriesAssumption ==
  /\ Categories \in Seq({"General", "Clone", "Sync", "GitHub", "Advanced"})
  /\ "General" \in CategorySet

\* The fields of a category, and what Enter does to one.
KeysOf(category) ==
  CASE category = "General"  -> <<"clone_path", "concurrency">>
    [] category = "Clone"    -> <<"skip_archived", "skip_forks">>
    [] category = "Sync"     -> <<"concurrency", "retry_failed">>
    [] category = "GitHub"   -> <<"default_source", "org_input", "topic_filter">>
    [] category = "Advanced" -> <<"timeout_secs">>

\* Settings with a place in memory, and those only shown and saved.
InMemory == {"clone_path", "concurrency", "skip_archived", "skip_forks", "default_source", "org_input", "topic_filter"}
ShownOnly == {"retry_failed", "timeout_secs"}
Keys == InMemory \cup ShownOnly
Options == [k \in Keys |-> CASE k \in {"skip_archived", "skip_forks", "retry_failed"} -> 2
                             [] k = "default_source" -> 3
                             [] OTHER -> 0]
Typed == {k \in Keys : Options[k] = 0}

ASSUME DraftsAssumption == \A k \in Typed : Drafts[k] \subseteq Nat \cup {Garbage}
ASSUME OpenedAssumption == Opened \subseteq Keys
ASSUME FaultsAssumption == DbFaults \in BOOLEAN
ASSUME BoundsAssumption == MaxTurns \in Nat /\ MaxRefresh \in Nat

VARIABLES
  proc,     \* the process: loop or gone
  turns,    \* save commands, failed discoveries, sign-ins and restarts so far
  tab,      \* active_tab
  welcome,  \* is there a welcome_state?
  overlay,  \* modal_stack and command_palette
  settings, \* SettingsTabState
  mem,      \* the settings as the program holds them in memory
  db,       \* the table settings
  saves,    \* the SaveSetting tasks under way
  stats,    \* loading.stats, and the refreshes under way
  opened,   \* history: the key of the field that was opened
  agreed    \* history: keys saved since they last changed, by one task at a time

beneath == <<tab, settings, mem, saves>>
vars == <<proc, turns, tab, welcome, overlay, settings, mem, db, saves, stats, opened, agreed>>

NoOverlay == [modals |-> <<>>, palette |-> FALSE]
Covered == overlay # NoOverlay
Nobody == ""

Smaller(a, b) == IF a < b THEN a ELSE b
Larger(a, b) == IF a > b THEN a ELSE b

\* RunningAppState::new: the values of --clone-path and --concurrency are put
\* into a state that is not there yet (main.rs:163).
Defaults == [k \in InMemory |-> 0]

\* usize::clamp(1, 64), of the concurrency alone.
InBounds(k, v) == IF k = "concurrency" THEN Larger(1, Smaller(v, MaxConcurrency)) ELSE v

Taken_Unclamped(k, v, old) == IF k = "concurrency" /\ v = Garbage THEN old ELSE v

\* apply_setting_value, and the same rules at the start.
Taken(k, v, old) == IF k = "concurrency" /\ v = Garbage THEN old ELSE InBounds(k, v)

\* The settings a start finds; a key that cannot be read keeps its default.
Loaded(unread) ==
  [k \in InMemory |-> IF db[k] = Absent \/ k \in unread THEN Defaults[k] ELSE Taken(k, db[k], Defaults[k])]

\* The value a field shows: memory, and a constant for a key that is only shown.
Shown(k, m) == IF k \in InMemory THEN m[k] ELSE IF k = "retry_failed" THEN 1 ELSE 1800

\* rebuild_settings_fields, which leaves a field that is being edited alone.
Rebuilt(s, m) ==
  IF s.editing # 0 THEN s
  ELSE [s EXCEPT !.fields = [i \in DOMAIN KeysOf(s.category) |->
         [key |-> KeysOf(s.category)[i], value |-> Shown(KeysOf(s.category)[i], m)]]]

FreshSettings == [category |-> "General", fields |-> <<>>, editing |-> 0, draft |-> 0]

\* AuthSucceeded: a state from scratch, whatever there was.
Arrive ==
  /\ tab' = "Dashboard" /\ welcome' = TRUE
  /\ overlay' = NoOverlay
  /\ settings' = FreshSettings
  /\ opened' = Nobody /\ agreed' = {}

\* One of the things that are bounded together.
Turn == turns < MaxTurns /\ turns' = turns + 1

StartStats(s) == [loading |-> TRUE, underWay |-> s.underWay + 1]
NoStats == [loading |-> FALSE, underWay |-> 0]

\* Signed in with a stored token: the settings are loaded; the migration has
\* written an empty clone_path.
Init ==
  /\ proc = "loop" /\ turns = 0
  /\ tab = "Dashboard" /\ welcome = TRUE
  /\ overlay = NoOverlay
  /\ settings = FreshSettings
  /\ db = [k \in Keys |-> IF k = "clone_path" THEN 0 ELSE Absent]
  /\ mem = Defaults
  /\ saves = {}
  /\ stats = StartStats(NoStats)
  /\ opened = Nobody /\ agreed = {}

----------------------------------------------------------------------------
\* Start, end, and what comes to the loop by itself.

\* 'q' anywhere, Ctrl+C, a crash: memory goes, and tasks not yet run are lost.
Quit ==
  /\ proc = "loop"
  /\ proc' = "gone"
  /\ mem' = Defaults
  /\ saves' = {}
  /\ stats' = NoStats
  /\ Arrive
  /\ UNCHANGED <<turns, db>>

\* run_tui: the stored token is accepted, and the settings are loaded; or the
\* user signs in later, and they are not.
Boot ==
  /\ proc = "gone" /\ Turn
  /\ proc' = "loop"
  /\ \/ mem' = Defaults
     \/ \E unread \in IF DbFaults THEN SUBSET Opened ELSE {{}} : mem' = Loaded(unread)
  /\ Arrive
  /\ stats' = StartStats(NoStats)
  /\ UNCHANGED <<db, saves>>

\* AuthSucceeded of a sign-in that ends while somebody is signed in.
SignedInAgain ==
  /\ proc = "loop" /\ Turn
  /\ mem' = Defaults
  /\ Arrive
  /\ stats' = StartStats(stats)
  /\ UNCHANGED <<proc, db, saves>>

\* Tick: the welcome screen goes after eight seconds.
Tick ==
  /\ proc = "loop" /\ welcome
  /\ welcome' = FALSE
  /\ UNCHANGED <<proc, turns, beneath, overlay, db, stats, opened, agreed>>

\* DiscoveryFailed puts its dialog on top of whatever is there.
DiscoveryFailed ==
  /\ proc = "loop" /\ Turn
  /\ overlay' = [overlay EXCEPT !.modals = Append(@, "error")]
  /\ UNCHANGED <<proc, beneath, welcome, db, stats, opened, agreed>>

RefreshDone_SilentError ==
  /\ proc = "loop" /\ stats.underWay > 0
  /\ \/ stats' = [loading |-> FALSE, underWay |-> stats.underWay - 1]
     \/ DbFaults /\ stats' = [stats EXCEPT !.underWay = @ - 1]
  /\ UNCHANGED <<proc, turns, beneath, welcome, overlay, db, opened, agreed>>

\* RefreshDashboardStats: compute_stats, get_attention_list, zeros on an error,
\* and DashboardStatsUpdated; nobody looks in between.
RefreshDone ==
  /\ proc = "loop" /\ stats.underWay > 0
  /\ stats' = [loading |-> FALSE, underWay |-> stats.underWay - 1]
  /\ UNCHANGED <<proc, turns, beneath, welcome, overlay, db, opened, agreed>>

SaveSetting_InsertOnly(t) ==
  /\ t \in saves
  /\ saves' = saves \ {t}
  /\ \/ db' = [db EXCEPT ![t.key] = IF @ = Absent THEN t.value ELSE @] /\ UNCHANGED agreed
     \/ DbFaults /\ agreed' = agreed \ {t.key} /\ UNCHANGED db
  /\ UNCHANGED <<proc, turns, tab, welcome, overlay, settings, mem, stats, opened>>

\* A SaveSetting task, in any order; its error is only logged.
SaveSetting(t) ==
  /\ t \in saves
  /\ saves' = saves \ {t}
  /\ \/ db' = [db EXCEPT ![t.key] = t.value] /\ UNCHANGED agreed
     \/ DbFaults /\ agreed' = agreed \ {t.key} /\ UNCHANGED db
  /\ UNCHANGED <<proc, turns, tab, welcome, overlay, settings, mem, stats, opened>>

----------------------------------------------------------------------------
\* Keys and overlays.  Beneath an overlay every other key is without effect.

FrameForOverlay == UNCHANGED <<proc, turns, settings, mem, db, saves, stats, opened, agreed>>

AllButLast(s) == SubSeq(s, 1, Len(s) - 1)

\* Esc is DismissModal before anything else is asked: it takes away a modal and
\* means nothing to the palette.
AfterEsc(o) == IF o.modals = <<>> THEN o ELSE [o EXCEPT !.modals = AllButLast(@)]

AfterEnter_OnlyModals(o) == IF o.palette THEN o ELSE AfterEsc(o)

\* Enter confirms a modal, or executes in the palette; with both there, the
\* mapping asks the palette and the reducer gives that action to the modal,
\* which ignores it.
AfterEnter(o) ==
  IF o.palette
  THEN IF o.modals = <<>> THEN [o EXCEPT !.palette = FALSE] ELSE o
  ELSE AfterEsc(o)

OpenHelp ==
  /\ proc = "loop" /\ ~Covered
  /\ overlay' = [overlay EXCEPT !.modals = <<"help">>]
  /\ UNCHANGED <<tab, welcome>>
  /\ FrameForOverlay

OpenCommandPalette ==
  /\ proc = "loop" /\ ~Covered
  /\ overlay' = [overlay EXCEPT !.palette = TRUE]
  /\ UNCHANGED <<tab, welcome>>
  /\ FrameForOverlay

Esc ==
  /\ proc = "loop" /\ Covered
  /\ overlay' = AfterEsc(overlay)
  /\ UNCHANGED <<tab, welcome>>
  /\ FrameForOverlay

\* The palette's first entry, "Go to Dashboard", is always the selected one.
EnterOnOverlay ==
  /\ proc = "loop" /\ Covered
  /\ overlay' = AfterEnter(overlay)
  /\ tab' = IF overlay.palette /\ ~overlay'.palette THEN "Dashboard" ELSE tab
  /\ UNCHANGED welcome
  /\ FrameForOverlay

\* Any key that is not global.
DismissWelcome ==
  /\ proc = "loop" /\ ~Covered /\ welcome
  /\ welcome' = FALSE
  /\ UNCHANGED <<tab, overlay>>
  /\ FrameForOverlay

----------------------------------------------------------------------------
\* Keys and tabs.

Plain == proc = "loop" /\ ~Covered
Keyed == Plain /\ ~welcome
FrameForKeys == UNCHANGED <<proc, welcome, overlay, db>>

IndexOf(x, s) == CHOOSE i \in DOMAIN s : s[i] = x
Step(s, x, by) == s[((IndexOf(x, s) + by + Len(s) - 1) % Len(s)) + 1]

\* Tab goes to the next tab, which leaves the fields as they were.  On the
\* settings it goes to the next category, and drops a draft.
TabKey ==
  /\ Plain /\ tab # "Settings"
  /\ tab' = Step(Tabs, tab, 1)
  /\ UNCHANGED <<settings, mem, saves, turns, stats, opened, agreed>>
  /\ FrameForKeys

SwitchCategory_KeepsEdit ==
  /\ Plain /\ tab = "Settings"
  /\ settings' = Rebuilt([settings EXCEPT !.category = Step(Categories, @, 1)], mem)
  /\ UNCHANGED <<tab, mem, saves, turns, stats, opened, agreed>>
  /\ FrameForKeys

SwitchCategory ==
  /\ Plain /\ tab = "Settings"
  /\ settings' = Rebuilt([settings EXCEPT !.category = Step(Categories, @, 1), !.editing = 0, !.draft = 0], mem)
  /\ UNCHANGED <<tab, mem, saves, turns, stats, opened, agreed>>
  /\ FrameForKeys

BackTabKey ==
  /\ Plain
  /\ tab' = Step(Tabs, tab, -1)
  /\ UNCHANGED <<settings, mem, saves, turns, stats, opened, agreed>>
  /\ FrameForKeys

\* A digit jumps to its tab, in the middle of an edit too.
SwitchTabByNumber(n) ==
  /\ Keyed
  /\ tab' = Tabs[n]
  /\ settings' = IF Tabs[n] = "Settings" THEN Rebuilt(settings, mem) ELSE settings
  /\ UNCHANGED <<mem, saves, turns, stats, opened, agreed>>
  /\ FrameForKeys

\* DashboardStartSync, ExplorerStartSync: 's' or Enter on the dashboard, Enter in
\* the explorer, with a selection.  The run itself is SyncSession's.
StartSync ==
  /\ Keyed /\ tab \in {"Dashboard", "Explorer"}
  /\ tab' = "SyncCenter"
  /\ UNCHANGED <<settings, mem, saves, turns, stats, opened, agreed>>
  /\ FrameForKeys

\* 'r' on the dashboard and on the activity log; the spinner stays as it is.
RefreshStats ==
  /\ Keyed /\ tab \in {"Dashboard", "ActivityLog"}
  /\ stats.underWay < MaxRefresh
  /\ stats' = [stats EXCEPT !.underWay = @ + 1]
  /\ UNCHANGED <<tab, settings, mem, saves, turns, opened, agreed>>
  /\ FrameForKeys

----------------------------------------------------------------------------
\* Keys of the settings tab.

OnSettings == Keyed /\ tab = "Settings"
Field(i) == settings.fields[i]

\* apply_setting_value; a changed key is no longer as it was saved.
Apply(k, v) ==
  /\ mem' = IF k \in InMemory THEN [mem EXCEPT ![k] = Taken(k, v, @)] ELSE mem
  /\ agreed' = agreed \ {k}

Edit_ShowsOnly(i) ==
  /\ OnSettings /\ settings.editing = 0
  /\ i \in DOMAIN settings.fields /\ Field(i).key \in Opened \ Typed
  /\ settings' = [settings EXCEPT !.fields[i].value = (@ + 1) % Options[Field(i).key]]
  /\ UNCHANGED <<tab, mem, saves, turns, stats, opened, agreed>>
  /\ FrameForKeys

\* Enter on a Boolean or a dropdown: the next option, shown and applied.
Edit(i) ==
  /\ OnSettings /\ settings.editing = 0
  /\ i \in DOMAIN settings.fields /\ Field(i).key \in Opened \ Typed
  /\ LET v == (Field(i).value + 1) % Options[Field(i).key]
     IN /\ settings' = [settings EXCEPT !.fields[i].value = v]
        /\ Apply(Field(i).key, v)
  /\ UNCHANGED <<tab, saves, turns, stats, opened>>
  /\ FrameForKeys

\* Enter on any other field opens it.
Open(i) ==
  /\ OnSettings /\ settings.editing = 0
  /\ i \in DOMAIN settings.fields /\ Field(i).key \in Opened \cap Typed
  /\ settings' = [settings EXCEPT !.editing = i, !.draft = Field(i).value]
  /\ opened' = Field(i).key
  /\ UNCHANGED <<tab, mem, saves, turns, stats, agreed>>
  /\ FrameForKeys

TypeKey_Anywhere(v) ==
  /\ proc = "loop" /\ tab = "Settings"
  /\ settings.editing # 0 /\ v # settings.draft
  /\ settings' = [settings EXCEPT !.draft = v]
  /\ UNCHANGED <<tab, mem, saves, turns, stats, opened, agreed>>
  /\ FrameForKeys

\* Characters go into the draft in the key mapping itself, past the reducer.
TypeKey(v) ==
  /\ OnSettings
  /\ settings.editing # 0 /\ v # settings.draft
  /\ settings' = [settings EXCEPT !.draft = v]
  /\ UNCHANGED <<tab, mem, saves, turns, stats, opened, agreed>>
  /\ FrameForKeys

\* Enter in a field, or Ctrl+S outside: the draft is taken, then every field of
\* the category is saved, each by a task of its own, and shown anew.
Save ==
  /\ OnSettings /\ Turn
  /\ LET i == settings.editing
         k == Field(i).key
         fields == IF i = 0 THEN settings.fields
                   ELSE [settings.fields EXCEPT ![i].value = settings.draft]
         applied == IF i # 0 /\ k \in InMemory THEN [mem EXCEPT ![k] = Taken(k, settings.draft, @)] ELSE mem
         saved == {fields[j] : j \in DOMAIN fields}
     IN /\ mem' = applied
        /\ settings' = Rebuilt([settings EXCEPT !.fields = fields, !.editing = 0, !.draft = 0], applied)
        /\ saves' = saves \cup {[key |-> f.key, value |-> f.value, turn |-> turns] : f \in saved}
        /\ agreed' =
             (agreed \ {f.key : f \in saved})
             \cup {f.key : f \in {g \in saved : g.key \in InMemory /\ g.value # Garbage /\ \A t \in saves : t.key # g.key}}
  /\ UNCHANGED <<tab, stats, opened>>
  /\ FrameForKeys

Drafted == UNION {Drafts[k] : k \in Opened \cap Typed}

SettingsKey ==
  \/ \E i \in 1 .. 3 : Edit(i) \/ Open(i)
  \/ \E v \in Drafted : TypeKey(v)
  \/ Save

TabKeys ==
  \/ TabKey \/ SwitchCategory \/ BackTabKey
  \/ StartSync \/ RefreshStats
  \/ \E n \in DOMAIN Tabs : SwitchTabByNumber(n)
OverlayKey == OpenHelp \/ OpenCommandPalette \/ Esc \/ EnterOnOverlay \/ DismissWelcome

Next ==
  \/ Quit \/ Boot \/ SignedInAgain
  \/ Tick \/ DiscoveryFailed
  \/ RefreshDone
  \/ \E t \in saves : SaveSetting(t)
  \/ OverlayKey \/ TabKeys \/ SettingsKey

Spec == Init /\ [][Next]_vars

----------------------------------------------------------------------------
Values == Nat \cup {Garbage}

\* A text is any number, an option one of those there are.
ValuesOf(k) == IF k \in Typed THEN Values ELSE 0 .. Options[k] - 1

\* Every variable has its type (RunningAppState, SettingsTabState); in
\* particular an option stays one of those there are on its way through field,
\* task and table, and the concurrency within its bounds.
TypeOK ==
  /\ proc \in {"loop", "gone"} /\ turns \in 0 .. MaxTurns
  /\ tab \in TabSet /\ welcome \in BOOLEAN
  /\ overlay \in [modals : Seq({"help", "error"}), palette : BOOLEAN]
  /\ settings \in [category : CategorySet, fields : Seq([key : Keys, value : Values]),
                   editing : Nat, draft : Values]
  /\ settings.editing <= Len(settings.fields)
  /\ \A i \in DOMAIN settings.fields : Field(i).value \in ValuesOf(Field(i).key)
  /\ mem \in [InMemory -> Values] /\ mem["concurrency"] \in 0 .. MaxConcurrency
  /\ \A k \in InMemory : mem[k] \in ValuesOf(k)
  /\ db \in [Keys -> Values \cup {Absent}]
  /\ \A k \in Keys : db[k] \in ValuesOf(k) \cup {Absent}
  /\ saves \subseteq [key : Keys, value : Values, turn : 0 .. MaxTurns - 1]
  /\ \A t \in saves : t.value \in ValuesOf(t.key)
  /\ stats \in [loading : BOOLEAN, underWay : 0 .. MaxRefresh + MaxTurns + 1]
  /\ opened \in Keys \cup {Nobody} /\ agreed \subseteq InMemory

\* A draft is saved under the key whose field was opened: no key, digit or
\* category switch may put other fields beneath an edit (reduce.rs:975).
EditedField ==
  settings.editing # 0 =>
    /\ settings.editing \in DOMAIN settings.fields
    /\ Field(settings.editing).key = opened
    /\ [i \in DOMAIN settings.fields |-> Field(i).key] = KeysOf(settings.category)

\* What a field shows is what memory holds, although fields are rebuilt only
\* on some of the ways to the tab, and one setting is in two categories
\* (reduce.rs:453, 975).
FieldsTellMemory ==
  \A i \in DOMAIN settings.fields : Field(i).key \in InMemory => Field(i).value = mem[Field(i).key]

\* A setting that was saved alone is in the table once its task has run, and
\* the next start brings it back into memory as memory holds it now; only the
\* concurrency of 0, which a new state has and no edit gives, comes back as 1
\* (main.rs:1018, 203).
SavedSurvives ==
  \A k \in agreed :
    (\A t \in saves : t.key # k) =>
      db[k] # Absent /\ Taken(k, db[k], Defaults[k]) = InBounds(k, mem[k])

Height(o) == Len(o.modals) + (IF o.palette THEN 1 ELSE 0)

\* Whatever is on top of the screen, Esc or Enter takes something away: modals
\* and palette can lie on each other, and each key works on one of the two
\* only (main.rs:398, 548, reduce.rs:244).
NeverTrapped ==
  Covered => Height(AfterEsc(overlay)) < Height(overlay) \/ Height(AfterEnter(overlay)) < Height(overlay)

\* Beneath an overlay no key changes anything, the draft that is typed into
\* past the reducer included; the palette's Enter goes to the dashboard, and
\* only a new state, of another sign-in, replaces it all (reduce.rs:243,
\* main.rs:548).
OverlayFreezes ==
  [][Covered =>
       /\ UNCHANGED <<settings, mem>> \/ (settings' = FreshSettings /\ mem' = Defaults)
       /\ tab' = tab \/ (tab' = "Dashboard" /\ overlay' = NoOverlay)]_vars

\* "Loading stats" is on the screen only while a refresh is under way or its
\* result in the channel: a task that failed in silence would leave it there
\* (main.rs:1000).
StatsSpinnerHasTask == stats.loading => stats.underWay > 0
=============================================================================
