--------------------------- MODULE DiscoveryProofs ---------------------------
(***************************************************************************)
(* Safety of the list of repositories for any GitHub, any settings, any    *)
(* number of overlapping discoveries, keystrokes and failed calls; and     *)
(* that discoveries keep to RepoCatalog.                                   *)
(***************************************************************************)
EXTENDS DiscoveryLemmas

Scopes == {"MyRepos", "Starred", "All"}
DiscPcs == {"none", "list", "orgs", "load", "mark", "loaded", "discovered", "done"}
Discs == [pc : DiscPcs, source : Scopes, list : Seq(Entry), todo : SUBSET Ids]
Loaders == [pc : {"none", "read", "send", "done"}, entries : Seq(Entry)]
Effects == [kind : {"Load", "Discover", "Select"}, source : Scopes, ids : SUBSET Ids, on : BOOLEAN]
Events == [kind : {"Loaded", "Discovered", "Failed"}, entries : Seq(Entry)]

\* What TypeOK says, by the parts that the steps change.
LEMMA TypeFacts ==
  TypeOK <=>
    /\ github \in [Ids -> Names \cup {NoName}] /\ steady \subseteq Ids /\ changes \in 0 .. MaxChanges
    /\ TableType /\ UniqueNames /\ unsaved \subseteq Ids /\ chosen \in [Ids -> BOOLEAN]
    /\ disc \in [Tasks -> Discs] /\ loader \in Loaders /\ stage \in {"drain", "effects", "input"}
    /\ repos \in Seq(Entry) /\ loading \in BOOLEAN /\ modals \in 0 .. MaxTasks
    /\ effects \in Seq(Effects) /\ appRx \in Seq(Events) /\ keys \in 0 .. MaxKeys
BY DEF TypeOK, TableType, UniqueNames, Rows, Statuses, Discs, DiscPcs, Scopes, Loaders, Effects, Events

----------------------------------------------------------------------------
(* What the steps do, point by point *)

LEMMA RecordFacts ==
  /\ Idle \in Discs /\ Idle.pc = "none" /\ Idle.todo = {} /\ Idle.list = <<>>
  /\ \A kind \in {"Loaded", "Discovered", "Failed"}, l \in Seq(Entry) : Event(kind, l) \in Events
  /\ <<>> \in Seq(Entry)
<1>1. <<>> \in Seq(Entry)
  OBVIOUS
<1>. QED  BY <1>1 DEF Idle, Discs, DiscPcs, Scopes, Event, Events

\* An event goes to the end of the channel and leaves the others.
LEMMA SendFacts ==
  ASSUME appRx \in Seq(Events), NEW e \in Events, appRx' = Append(appRx, e)
  PROVE  /\ appRx' \in Seq(Events)
         /\ DOMAIN appRx = 1 .. Len(appRx) /\ Len(appRx) \in Nat
         /\ DOMAIN appRx' = 1 .. Len(appRx) + 1
         /\ \A k \in DOMAIN appRx : k \in DOMAIN appRx' /\ appRx'[k] = appRx[k]
         /\ Len(appRx) + 1 \in DOMAIN appRx' /\ appRx'[Len(appRx) + 1] = e
BY AppendProperties

\* Receiving takes the first event away.
LEMMA ReceiveFacts ==
  ASSUME appRx \in Seq(Events), appRx # <<>>, appRx' = Tail(appRx)
  PROVE  /\ Head(appRx) \in Events /\ Head(appRx) = appRx[1] /\ 1 \in DOMAIN appRx
         /\ appRx' \in Seq(Events)
         /\ DOMAIN appRx = 1 .. Len(appRx) /\ Len(appRx) \in Nat
         /\ DOMAIN appRx' = 1 .. Len(appRx) - 1
         /\ \A k \in DOMAIN appRx' : k + 1 \in DOMAIN appRx /\ appRx'[k] = appRx[k + 1]
<1>1. Len(appRx) \in Nat \ {0} /\ DOMAIN appRx = 1 .. Len(appRx)
  BY EmptySeq
<1>2. Head(appRx) = appRx[1] /\ Head(appRx) \in Events
  BY <1>1, HeadTailProperties
<1>3. /\ Tail(appRx) \in Seq(Events) /\ Len(Tail(appRx)) = Len(appRx) - 1
      /\ \A k \in 1 .. Len(Tail(appRx)) : Tail(appRx)[k] = appRx[k + 1]
  BY <1>1, HeadTailProperties
<1>. QED  BY <1>1, <1>2, <1>3

\* The effect at the head is carried out, and the others move up.
LEMMA EffectFacts ==
  ASSUME effects \in Seq(Effects), effects # <<>>, effects' = Tail(effects)
  PROVE  /\ Head(effects) \in Effects /\ Head(effects) = effects[1] /\ 1 \in DOMAIN effects
         /\ effects' \in Seq(Effects)
         /\ DOMAIN effects = 1 .. Len(effects) /\ Len(effects) \in Nat
         /\ DOMAIN effects' = 1 .. Len(effects) - 1
         /\ \A k \in DOMAIN effects' : k + 1 \in DOMAIN effects /\ effects'[k] = effects[k + 1]
<1>1. Len(effects) \in Nat \ {0} /\ DOMAIN effects = 1 .. Len(effects)
  BY EmptySeq
<1>2. Head(effects) = effects[1] /\ Head(effects) \in Effects
  BY <1>1, HeadTailProperties
<1>3. /\ Tail(effects) \in Seq(Effects) /\ Len(Tail(effects)) = Len(effects) - 1
      /\ \A k \in 1 .. Len(Tail(effects)) : Tail(effects)[k] = effects[k + 1]
  BY <1>1, HeadTailProperties
<1>. QED  BY <1>1, <1>2, <1>3

\* A task goes on, with what it knows.
LEMMA AdvanceFacts ==
  ASSUME disc \in [Tasks -> Discs], NEW d \in Tasks, NEW pc \in DiscPcs, NEW l \in Seq(Entry), NEW S \in SUBSET Ids,
         Advance(d, pc, l, S)
  PROVE  /\ disc' \in [Tasks -> Discs]
         /\ disc'[d].pc = pc /\ disc'[d].source = disc[d].source /\ disc'[d].list = l /\ disc'[d].todo = S
         /\ \A e \in Tasks \ {d} : disc'[e] = disc[e]
         /\ UNCHANGED <<worldVars, screenVars, loader>>
<1>1. disc[d] \in Discs
  OBVIOUS
<1>. DEFINE new == [disc[d] EXCEPT !.pc = pc, !.list = l, !.todo = S]
<1>2. /\ new \in Discs
      /\ new.pc = pc /\ new.source = disc[d].source /\ new.list = l /\ new.todo = S
  BY <1>1 DEF Discs
<1>3. disc' = [disc EXCEPT ![d] = new]
  BY <1>1 DEF Advance, Discs
<1>. HIDE DEF new
<1>4. disc' \in [Tasks -> Discs] /\ disc'[d] = new /\ \A e \in Tasks \ {d} : disc'[e] = disc[e]
  BY <1>2, <1>3
<1>5. UNCHANGED <<worldVars, screenVars, loader>>
  BY DEF Advance
<1>. QED  BY <1>2, <1>4, <1>5

\* A task ends and says so.
LEMMA EndFacts ==
  ASSUME disc \in [Tasks -> Discs], NEW d \in Tasks, disc' = [disc EXCEPT ![d] = [Idle EXCEPT !.pc = "done"]]
  PROVE  /\ disc' \in [Tasks -> Discs]
         /\ disc'[d].pc = "done" /\ disc'[d].list = <<>> /\ disc'[d].todo = {}
         /\ \A e \in Tasks \ {d} : disc'[e] = disc[e]
<1>1. [Idle EXCEPT !.pc = "done"] \in Discs
  BY RecordFacts DEF Discs, DiscPcs
<1>2. LET new == [Idle EXCEPT !.pc = "done"] IN new.pc = "done" /\ new.list = <<>> /\ new.todo = {}
  BY DEF Idle
<1>. QED  BY <1>1, <1>2

\* The task that is spawned is the one after those that have been.
LEMMA SpawnFacts ==
  ASSUME disc \in [Tasks -> Discs], OrderInv, Ordered # {}, NEW source \in Scopes, SpawnDiscover(source)
  PROVE  \E d \in Tasks :
           /\ disc[d].pc = "none" /\ disc' \in [Tasks -> Discs]
           /\ disc'[d].pc = "list" /\ disc'[d].source = source /\ disc'[d].list = <<>> /\ disc'[d].todo = {}
           /\ \A e \in Tasks \ {d} : disc'[e] = disc[e]
           /\ \A e \in Tasks : disc'[e].pc # "none" <=> e <= d
<1>. USE ConstantFacts DEF Tasks
<1>1. PICK n \in 0 .. MaxTasks : \A d \in Tasks : disc[d].pc # "none" <=> d <= n
  BY DEF OrderInv
<1>2. n + 1 \in Tasks /\ disc[n + 1].pc = "none"
  <2>1. PICK d \in Tasks : disc[d].pc = "none"
    BY DEF OrderInv
  <2>. QED  BY <1>1, <2>1
<1>3. \A q \in 1 .. (n + 1) - 1 : disc[q].pc # "none"
  BY <1>1, <1>2
<1>4. \A d \in Tasks : disc[d].pc = "none" /\ (\A q \in 1 .. d - 1 : disc[q].pc # "none") => d = n + 1
  BY <1>1, <1>2
<1>5. (CHOOSE d \in Tasks : disc[d].pc = "none" /\ \A q \in 1 .. d - 1 : disc[q].pc # "none") = n + 1
  BY <1>2, <1>3, <1>4
<1>. DEFINE new == [Idle EXCEPT !.pc = "list", !.source = source]
<1>6. disc' = [disc EXCEPT ![n + 1] = new]
  BY <1>5 DEF SpawnDiscover
<1>7. new \in Discs /\ new.pc = "list" /\ new.source = source /\ new.list = <<>> /\ new.todo = {}
  BY RecordFacts DEF Idle, Discs, DiscPcs
<1>. HIDE DEF new
<1>8. \A e \in Tasks : disc'[e] = IF e = n + 1 THEN new ELSE disc[e]
  BY <1>2, <1>6
<1>9. \A e \in Tasks : disc'[e].pc # "none" <=> e <= n + 1
  BY <1>1, <1>2, <1>7, <1>8
<1>10. disc' \in [Tasks -> Discs]
  BY <1>6, <1>7
<1>. QED  BY <1>2, <1>7, <1>8, <1>9, <1>10

\* The calls that change the table, row by row.
LEMMA PersistFacts ==
  ASSUME TableType, StoreInv, NEW S \in SUBSET Ids, NEW on \in BOOLEAN, Persist(S, on)
  PROVE  /\ UNCHANGED <<disc, loader>>
         /\ \/ /\ unsaved' = unsaved \ S /\ store' \in [Ids -> Rows]
               /\ \A i \in S \cap Stored : store'[i] = [store[i] EXCEPT !.selected = on]
               /\ \A i \in Ids : i \notin S \cap Stored => store'[i] = store[i]
            \/ store' = store /\ unsaved' = unsaved \cup S
<1>1. UNCHANGED <<disc, loader>>
  BY DEF Persist
<1>2. PICK ok \in DbCall :
        /\ store' = IF ok THEN [i \in Ids |-> IF i \in S \cap Stored
                                             THEN [store[i] EXCEPT !.selected = on] ELSE store[i]]
                    ELSE store
        /\ unsaved' = IF ok THEN unsaved \ S ELSE unsaved \cup S
  BY DEF Persist
<1>3. \A i \in Ids : store[i] \in Rows /\ [store[i] EXCEPT !.selected = on] \in Rows
  BY DEF TableType, Rows
<1>4. CASE ok
  BY <1>1, <1>2, <1>3, <1>4 DEF Stored
<1>5. CASE ~ok
  BY <1>1, <1>2, <1>5
<1>. QED  BY <1>4, <1>5

LEMMA MarkFacts ==
  ASSUME TypeOK, ListsInv, NEW d \in Tasks, Mark(d)
  PROVE  \E i \in disc[d].todo :
           /\ i \in Stored /\ disc[d].pc = "mark"
           /\ \/ store' = store
              \/ /\ store' \in [Ids -> Rows] /\ store'[i] = [store[i] EXCEPT !.deleted = TRUE]
                 /\ \A k \in Ids \ {i} : store'[k] = store[k]
           /\ disc' \in [Tasks -> Discs]
           /\ disc'[d].pc = "mark" /\ disc'[d].source = disc[d].source /\ disc'[d].list = disc[d].list
           /\ disc'[d].todo = disc[d].todo \ {i}
           /\ \A e \in Tasks \ {d} : disc'[e] = disc[e]
           /\ UNCHANGED <<worldVars, screenVars, loader, unsaved, appRx>>
<1>1. /\ TableType /\ disc \in [Tasks -> Discs] /\ disc[d].list \in Seq(Entry)
      /\ disc[d].todo \in SUBSET Ids /\ "mark" \in DiscPcs
  BY TypeFacts DEF Discs, DiscPcs
<1>2. PICK i \in disc[d].todo, ok \in DbCall :
        /\ store' = IF ok THEN [store EXCEPT ![i].deleted = TRUE] ELSE store
        /\ Advance(d, "mark", disc[d].list, disc[d].todo \ {i})
  BY DEF Mark
<1>3. i \in Stored /\ i \in Ids
  BY <1>1 DEF ListsInv
<1>4. [store[i] EXCEPT !.deleted = TRUE] \in Rows
  BY <1>1, <1>3 DEF TableType, Rows
<1>5. \/ store' = store
      \/ /\ store' \in [Ids -> Rows] /\ store'[i] = [store[i] EXCEPT !.deleted = TRUE]
         /\ \A k \in Ids \ {i} : store'[k] = store[k]
  <2>1. CASE ok
    <3>1. store' = [store EXCEPT ![i] = [store[i] EXCEPT !.deleted = TRUE]]
      BY <1>1, <1>2, <1>3, <2>1 DEF TableType
    <3>. QED  BY <1>1, <1>3, <1>4, <3>1 DEF TableType
  <2>. QED  BY <1>2, <2>1
<1>6. disc[d].pc = "mark" /\ UNCHANGED <<unsaved, appRx>>
  BY DEF Mark
<1>7. disc[d].todo \ {i} \in SUBSET Ids
  BY <1>1
<1>8. /\ disc' \in [Tasks -> Discs]
      /\ disc'[d].pc = "mark" /\ disc'[d].source = disc[d].source /\ disc'[d].list = disc[d].list
      /\ disc'[d].todo = disc[d].todo \ {i}
      /\ \A e \in Tasks \ {d} : disc'[e] = disc[e]
      /\ UNCHANGED <<worldVars, screenVars, loader>>
  BY <1>1, <1>2, <1>7, AdvanceFacts
<1>. QED  BY <1>3, <1>5, <1>6, <1>8

LEMMA ClonedFacts ==
  ASSUME TableType, NEW i, RecordCloned(i)
  PROVE  /\ i \in Stored /\ i \in Ids /\ store' \in [Ids -> Rows]
         /\ store'[i] = [store[i] EXCEPT !.status = "Cloned"]
         /\ \A k \in Ids \ {i} : store'[k] = store[k]
         /\ UNCHANGED <<worldVars, unsaved, screenVars, disc, loader, appRx>>
<1>1. i \in Stored /\ i \in Ids
  BY DEF RecordCloned, Stored
<1>2. [store[i] EXCEPT !.status = "Cloned"] \in Rows
  BY <1>1 DEF TableType, Rows, Statuses
<1>3. store' = [store EXCEPT ![i] = [store[i] EXCEPT !.status = "Cloned"]]
  BY <1>1 DEF RecordCloned, TableType
<1>. QED  BY <1>1, <1>2, <1>3 DEF RecordCloned, TableType

\* An upsert writes everything or nothing.
LEMMA UpsertCases ==
  ASSUME TypeOK, NEW d \in Tasks, Upsert(d)
  PROVE  \/ /\ ~Clashes(disc[d].list)
            /\ store' = [i \in Ids |-> IF i \in IdsOf(disc[d].list) THEN RowAfter(disc[d].list, i) ELSE store[i]]
            /\ disc' \in [Tasks -> Discs]
            /\ disc'[d].pc = "loaded" /\ disc'[d].source = disc[d].source /\ disc'[d].list = disc[d].list
            /\ disc'[d].todo = {}
            /\ \A e \in Tasks \ {d} : disc'[e] = disc[e]
            /\ disc[d].pc = "mark"
            /\ UNCHANGED <<worldVars, screenVars, loader, unsaved, appRx>>
         \/ Failed(d) /\ disc[d].pc = "mark"
<1>1. /\ disc \in [Tasks -> Discs] /\ disc[d].list \in Seq(Entry) /\ "loaded" \in DiscPcs /\ {} \in SUBSET Ids
  BY TypeFacts DEF Discs, DiscPcs
<1>2. CASE /\ ~Clashes(disc[d].list)
           /\ store' = [i \in Ids |-> IF i \in IdsOf(disc[d].list) THEN RowAfter(disc[d].list, i) ELSE store[i]]
           /\ Advance(d, "loaded", disc[d].list, {})
           /\ UNCHANGED <<unsaved, appRx>>
  <2>1. /\ disc' \in [Tasks -> Discs]
        /\ disc'[d].pc = "loaded" /\ disc'[d].source = disc[d].source /\ disc'[d].list = disc[d].list
        /\ disc'[d].todo = {}
        /\ \A e \in Tasks \ {d} : disc'[e] = disc[e]
        /\ UNCHANGED <<worldVars, screenVars, loader>>
    BY <1>1, <1>2, AdvanceFacts
  <2>2. disc[d].pc = "mark"
    BY DEF Upsert
  <2>. QED  BY <1>2, <2>1, <2>2
<1>3. CASE Failed(d)
  BY <1>3 DEF Upsert
<1>. QED  BY <1>2, <1>3 DEF Upsert

\* A failed task: only its record and the channel change.
LEMMA FailedFacts ==
  ASSUME TypeOK, NEW d \in Tasks, Failed(d)
  PROVE  /\ disc' \in [Tasks -> Discs]
         /\ disc'[d].pc = "done" /\ disc'[d].list = <<>> /\ disc'[d].todo = {}
         /\ \A e \in Tasks \ {d} : disc'[e] = disc[e]
         /\ Event("Failed", <<>>) \in Events /\ appRx' = Append(appRx, Event("Failed", <<>>))
         /\ UNCHANGED <<worldVars, dbVars, screenVars, loader>>
<1>1. disc \in [Tasks -> Discs]
  BY TypeFacts
<1>. QED  BY <1>1, EndFacts, RecordFacts DEF Failed, Send

\* A task that only reads and thinks: the listings, and the merge with the table.
Think(d) == ListFirst(d) \/ ListOrgs(d) \/ Load(d)

LEMMA ThinkFacts ==
  ASSUME TypeOK, NEW d \in Tasks, Think(d)
  PROVE  /\ disc' \in [Tasks -> Discs]
         /\ \A e \in Tasks \ {d} : disc'[e] = disc[e]
         /\ disc'[d].source = disc[d].source
         /\ UNCHANGED <<worldVars, dbVars, screenVars, loader, appRx>>
         /\ \/ /\ ListFirst(d) /\ disc[d].pc = "list" /\ disc'[d].todo = {}
               /\ disc'[d].pc = IF disc[d].source = "All" THEN "orgs" ELSE "load"
               /\ disc'[d].list = Listing(IF disc[d].source = "Starred" THEN Starred ELSE Mine)
            \/ /\ ListOrgs(d) /\ disc[d].pc = "orgs" /\ disc'[d].todo = {} /\ disc'[d].pc = "load"
               /\ IdsOf(disc[d].list) \subseteq IdsOf(disc'[d].list)
            \/ /\ Load(d) /\ disc[d].pc = "load" /\ disc'[d].pc = "mark"
               /\ disc'[d].todo = IF disc[d].source # "Starred" THEN Stored \ IdsOf(disc[d].list) ELSE {}
<1>1. /\ github \in [Ids -> Names \cup {NoName}] /\ disc \in [Tasks -> Discs] /\ disc[d] \in Discs
      /\ disc[d].list \in Seq(Entry) /\ {} \in SUBSET Ids /\ TableType
  BY TypeFacts DEF Discs
<1>2. CASE ListFirst(d)
  <2>1. PICK S \in SUBSET Ids : S = IF disc[d].source = "Starred" THEN Starred ELSE Mine
    BY ConstantFacts
  <2>2. Listing(S) \in Seq(Entry)
    BY <1>1, ListingFacts
  <2>3. PICK pc \in DiscPcs : pc = IF disc[d].source = "All" THEN "orgs" ELSE "load"
    BY DEF DiscPcs
  <2>4. Advance(d, pc, Listing(S), {})
    BY <1>2, <2>1, <2>3 DEF ListFirst
  <2>5. /\ disc' \in [Tasks -> Discs]
        /\ disc'[d].pc = pc /\ disc'[d].source = disc[d].source /\ disc'[d].list = Listing(S) /\ disc'[d].todo = {}
        /\ \A e \in Tasks \ {d} : disc'[e] = disc[e]
        /\ UNCHANGED <<worldVars, screenVars, loader>>
    BY <1>1, <2>2, <2>4, AdvanceFacts
  <2>6. disc[d].pc = "list" /\ UNCHANGED <<dbVars, appRx>>
    BY <1>2 DEF ListFirst
  <2>. QED  BY <1>2, <2>1, <2>3, <2>5, <2>6
<1>3. CASE ListOrgs(d)
  <2>1. PICK l \in AllAccessible(disc[d].list \o Listing(OrgRepos)) : Advance(d, "load", l, {})
    BY <1>3 DEF ListOrgs
  <2>2. Listing(OrgRepos) \in Seq(Entry)
    BY <1>1, ConstantFacts, ListingFacts
  <2>3. /\ disc[d].list \o Listing(OrgRepos) \in Seq(Entry)
        /\ IdsOf(disc[d].list) \subseteq IdsOf(disc[d].list \o Listing(OrgRepos))
    <3>1. /\ disc[d].list \o Listing(OrgRepos) \in Seq(Entry)
          /\ \A k \in DOMAIN disc[d].list : /\ k \in DOMAIN (disc[d].list \o Listing(OrgRepos))
                                            /\ (disc[d].list \o Listing(OrgRepos))[k] = disc[d].list[k]
      BY <1>1, <2>2, ConcatProperties
    <3>. QED  BY <3>1 DEF IdsOf
  <2>4. l \in Seq(Entry) /\ IdsOf(l) = IdsOf(disc[d].list \o Listing(OrgRepos))
    BY <2>1, <2>3, AllAccessibleFacts
  <2>5. /\ disc' \in [Tasks -> Discs]
        /\ disc'[d].pc = "load" /\ disc'[d].source = disc[d].source /\ disc'[d].list = l /\ disc'[d].todo = {}
        /\ \A e \in Tasks \ {d} : disc'[e] = disc[e]
        /\ UNCHANGED <<worldVars, screenVars, loader>>
    <3>1. "load" \in DiscPcs
      BY DEF DiscPcs
    <3>. QED  BY <1>1, <2>1, <2>4, <3>1, AdvanceFacts
  <2>6. disc[d].pc = "orgs" /\ UNCHANGED <<dbVars, appRx>>
    BY <1>3 DEF ListOrgs
  <2>. QED  BY <1>3, <2>3, <2>4, <2>5, <2>6
<1>4. CASE Load(d)
  <2>. DEFINE l == disc[d].list
              merged == [k \in DOMAIN l |->
                           [l[k] EXCEPT !.selected = l[k].id \notin Stored \/ store[l[k].id].selected]]
              missing == IF ShouldPrune(disc[d].source) THEN Stored \ IdsOf(l) ELSE {}
  <2>1. Advance(d, "mark", merged, missing)
    BY <1>4 DEF Load
  <2>2. merged \in Seq(Entry)
    <3>1. Len(l) \in Nat /\ DOMAIN l = 1 .. Len(l) /\ \A k \in DOMAIN l : l[k] \in Entry
      BY <1>1, LenProperties, ElementOfSeq
    <3>2. \A k \in DOMAIN l : l[k].id \notin Stored \/ store[l[k].id].selected \in BOOLEAN
      BY <1>1, <3>1 DEF TableType, Rows, Entry, Stored
    <3>3. ASSUME NEW k \in DOMAIN l PROVE merged[k] \in Entry
      <4>1. (l[k].id \notin Stored \/ store[l[k].id].selected) \in BOOLEAN
        OBVIOUS
      <4>. QED  BY <3>1, <4>1 DEF Entry
    <3>4. merged \in [1 .. Len(l) -> Entry]
      BY <3>1, <3>3
    <3>. QED  BY <3>1, <3>4
  <2>3. missing \in SUBSET Ids /\ missing = IF disc[d].source # "Starred" THEN Stored \ IdsOf(l) ELSE {}
    BY DEF ShouldPrune, Stored
  <2>4. "mark" \in DiscPcs
    BY DEF DiscPcs
  <2>. HIDE DEF merged, missing
  <2>5. /\ disc' \in [Tasks -> Discs]
        /\ disc'[d].pc = "mark" /\ disc'[d].source = disc[d].source /\ disc'[d].todo = missing
        /\ \A e \in Tasks \ {d} : disc'[e] = disc[e]
        /\ UNCHANGED <<worldVars, screenVars, loader>>
    BY <1>1, <2>1, <2>2, <2>3, <2>4, AdvanceFacts
  <2>6. disc[d].pc = "load" /\ UNCHANGED <<dbVars, appRx>>
    BY <1>4 DEF Load
  <2>. QED  BY <1>4, <2>3, <2>5, <2>6
<1>. QED  BY <1>2, <1>3, <1>4 DEF Think

LEMMA SendLoadedFacts ==
  ASSUME TypeOK, NEW d \in Tasks, SendLoaded(d)
  PROVE  /\ disc[d].pc = "loaded" /\ disc' \in [Tasks -> Discs]
         /\ disc'[d].pc = "discovered" /\ disc'[d].list = <<>> /\ disc'[d].todo = {}
         /\ \A e \in Tasks \ {d} : disc'[e] = disc[e]
         /\ Event("Loaded", disc[d].list) \in Events /\ appRx' = Append(appRx, Event("Loaded", disc[d].list))
         /\ UNCHANGED <<worldVars, dbVars, screenVars, loader>>
<1>1. /\ disc \in [Tasks -> Discs] /\ disc[d].list \in Seq(Entry) /\ "discovered" \in DiscPcs
      /\ {} \in SUBSET Ids /\ <<>> \in Seq(Entry)
  BY TypeFacts, RecordFacts DEF Discs, DiscPcs
<1>2. /\ disc' \in [Tasks -> Discs]
      /\ disc'[d].pc = "discovered" /\ disc'[d].list = <<>> /\ disc'[d].todo = {}
      /\ \A e \in Tasks \ {d} : disc'[e] = disc[e]
      /\ UNCHANGED <<worldVars, screenVars, loader>>
  BY <1>1, AdvanceFacts DEF SendLoaded
<1>. QED  BY <1>1, <1>2, RecordFacts DEF SendLoaded, Send

LEMMA SendDiscoveredFacts ==
  ASSUME TypeOK, NEW d \in Tasks, SendDiscovered(d)
  PROVE  /\ disc[d].pc = "discovered" /\ disc' \in [Tasks -> Discs]
         /\ disc'[d].pc = "done" /\ disc'[d].list = <<>> /\ disc'[d].todo = {}
         /\ \A e \in Tasks \ {d} : disc'[e] = disc[e]
         /\ Event("Discovered", <<>>) \in Events /\ appRx' = Append(appRx, Event("Discovered", <<>>))
         /\ UNCHANGED <<worldVars, dbVars, screenVars, loader>>
<1>1. disc \in [Tasks -> Discs]
  BY TypeFacts
<1>. QED  BY <1>1, EndFacts, RecordFacts DEF SendDiscovered, Send

\* A discovery task ends with an error before anything is written, thinks, or
\* goes through the calls that follow.
LEMMA DiscoverCases ==
  ASSUME NEW d \in Tasks, Discover(d)
  PROVE  \/ Failed(d) /\ disc[d].pc \in {"list", "orgs", "load"}
         \/ Think(d) \/ Mark(d) \/ Upsert(d) \/ SendLoaded(d) \/ SendDiscovered(d)
BY DEF Discover, Fail, Think

\* Whatever it does, the task is one that has been spawned and is not over.
LEMMA DiscoverFacts ==
  ASSUME TypeOK, ListsInv, NEW d \in Tasks, Discover(d)
  PROVE  /\ disc[d].pc \notin {"none", "done"} /\ disc' \in [Tasks -> Discs] /\ disc'[d].pc # "none"
         /\ \A e \in Tasks \ {d} : disc'[e] = disc[e]
         /\ UNCHANGED <<worldVars, screenVars, loader>>
         /\ appRx' = appRx \/ \E e \in Events : appRx' = Append(appRx, e)
<1>1. CASE Failed(d) /\ disc[d].pc \in {"list", "orgs", "load"}
  BY <1>1, FailedFacts
<1>2. CASE Think(d)
  BY <1>2, ThinkFacts
<1>3. CASE Mark(d)
  BY <1>3, MarkFacts
<1>4. CASE Upsert(d)
  BY <1>4, UpsertCases, FailedFacts
<1>5. CASE SendLoaded(d)
  BY <1>5, SendLoadedFacts
<1>6. CASE SendDiscovered(d)
  BY <1>6, SendDiscoveredFacts
<1>. QED  BY <1>1, <1>2, <1>3, <1>4, <1>5, <1>6, DiscoverCases

\* The loader's list is that of the table.
LEMMA ReadStoredFacts ==
  ASSUME TypeOK, StoreInv, ReadStored
  PROVE  /\ loader' \in Loaders
         /\ IdsOf(loader'.entries) \subseteq Stored \/ loader'.entries = loader.entries
         /\ UNCHANGED <<worldVars, dbVars, screenVars, disc, appRx>>
<1>1. UNCHANGED <<worldVars, dbVars, screenVars, disc, appRx>>
  BY DEF ReadStored
<1>. DEFINE rows == InOrder(Stored)
            list == [k \in DOMAIN rows |-> [id |-> rows[k], name |-> store[rows[k]].name,
                                            selected |-> store[rows[k]].selected]]
<1>2. \/ loader' = [pc |-> "send", entries |-> list]
      \/ loader' = [loader EXCEPT !.pc = "done"]
  BY DEF ReadStored
<1>3. list \in Seq(Entry) /\ IdsOf(list) \subseteq Stored
  <2>1. Stored \in SUBSET Ids /\ Stored \in SUBSET Nat /\ IsFiniteSet(Stored)
    BY ConstantFacts DEF Stored
  <2>2. /\ DOMAIN rows = 1 .. Cardinality(Stored) /\ Cardinality(Stored) \in Nat
        /\ \A k \in DOMAIN rows : rows[k] \in Stored
    BY <2>1, InOrderFacts DEF Enumerates
  <2>. HIDE DEF rows
  <2>3. \A k \in DOMAIN rows : list[k] \in Entry /\ list[k].id \in Stored
    BY <2>1, <2>2, TypeFacts DEF StoreInv, TableType, Rows, Entry
  <2>4. list \in [1 .. Cardinality(Stored) -> Entry]
    BY <2>2, <2>3
  <2>5. list \in Seq(Entry) /\ DOMAIN list = DOMAIN rows
    BY <2>2, <2>4
  <2>. QED  BY <2>3, <2>5 DEF IdsOf
<1>. HIDE DEF list
<1>. QED  BY <1>1, <1>2, <1>3, TypeFacts DEF Loaders

LEMMA SendStoredFacts ==
  ASSUME TypeOK, SendStored
  PROVE  /\ loader' \in Loaders /\ loader'.entries = <<>>
         /\ Event("Loaded", loader.entries) \in Events /\ appRx' = Append(appRx, Event("Loaded", loader.entries))
         /\ UNCHANGED <<worldVars, dbVars, screenVars, disc>>
BY TypeFacts, RecordFacts DEF SendStored, Send, Loaders

\* Nobody is in an empty list.
LEMMA NoIds ==
  IdsOf(<<>>) = {}
BY DEF IdsOf

\* A list with other selections is of the same repositories.
LEMMA SameIds ==
  ASSUME NEW l \in Seq(Entry), NEW m, DOMAIN m = DOMAIN l, m \in [DOMAIN l -> Entry],
         \A k \in DOMAIN l : m[k].id = l[k].id
  PROVE  m \in Seq(Entry) /\ IdsOf(m) = IdsOf(l)
<1>1. Len(l) \in Nat /\ DOMAIN l = 1 .. Len(l)
  BY LenProperties
<1>. QED  BY <1>1 DEF IdsOf

\* A selection key: the list on the screen keeps its repositories, the choice is
\* noted and its effect is the only one.
Selects(S, on) ==
  /\ stage = "input" /\ stage' = "drain" /\ effects = <<>>
  /\ repos' \in Seq(Entry) /\ IdsOf(repos') = IdsOf(repos)
  /\ keys \in 0 .. MaxKeys - 1 /\ keys' = keys + 1
  /\ chosen' \in [Ids -> BOOLEAN]
  /\ \A i \in Ids : chosen'[i] = IF i \in S THEN on ELSE chosen[i]
  /\ effects' = <<Effect("Select", "MyRepos", S, on)>>
  /\ UNCHANGED <<worldVars, dbVars, modals, loading, disc, loader, appRx>>

LEMMA ChooseFacts ==
  ASSUME TypeOK, OrderInv, ExplorerKey, NEW S \in SUBSET Ids, NEW on \in BOOLEAN, Choose(S, on),
         repos' \in Seq(Entry), IdsOf(repos') = IdsOf(repos)
  PROVE  Selects(S, on)
<1>1. stage = "input" /\ effects = <<>> /\ stage' = "drain"
  BY DEF ExplorerKey, OrderInv
<1>2. keys \in 0 .. MaxKeys - 1 /\ keys' = keys + 1
  BY TypeFacts, ConstantFacts DEF Choose
<1>3. effects' = <<Effect("Select", "MyRepos", S, on)>>
  BY <1>1 DEF Choose
<1>4. chosen' \in [Ids -> BOOLEAN] /\ \A i \in Ids : chosen'[i] = IF i \in S THEN on ELSE chosen[i]
  BY TypeFacts DEF Choose
<1>. QED  BY <1>1, <1>2, <1>3, <1>4 DEF Selects, ExplorerKey, Choose

LEMMA ToggleFacts ==
  ASSUME TypeOK, OrderInv, NEW k \in DOMAIN repos, ExplorerToggle(k)
  PROVE  \E S \in SUBSET IdsOf(repos), on \in BOOLEAN : S \subseteq Ids /\ Selects(S, on)
<1>1. repos \in Seq(Entry) /\ repos \in [DOMAIN repos -> Entry] /\ repos[k] \in Entry
  BY TypeFacts, ElementOfSeq, LenProperties
<1>2. {repos[k].id} \in SUBSET Ids /\ {repos[k].id} \in SUBSET IdsOf(repos) /\ (~repos[k].selected) \in BOOLEAN
  <2>1. repos[k].id \in Ids /\ repos[k].id \in IdsOf(repos)
    BY <1>1 DEF Entry, IdsOf
  <2>2. (~repos[k].selected) \in BOOLEAN
    OBVIOUS
  <2>3. {repos[k].id} \in SUBSET Ids /\ {repos[k].id} \in SUBSET IdsOf(repos)
    BY <2>1
  <2>. QED  BY <2>2, <2>3
<1>3. repos' = [repos EXCEPT ![k].selected = ~repos[k].selected]
  BY DEF ExplorerToggle
<1>. DEFINE new == [repos[k] EXCEPT !.selected = ~repos[k].selected]
<1>4. new \in Entry /\ new.id = repos[k].id
  BY <1>1, <1>2 DEF Entry
<1>5. repos' = [repos EXCEPT ![k] = new]
  BY <1>1, <1>3 DEF Entry
<1>. HIDE DEF new
<1>6. /\ DOMAIN repos' = DOMAIN repos /\ repos' \in [DOMAIN repos -> Entry]
      /\ \A j \in DOMAIN repos : repos'[j].id = repos[j].id
  BY <1>1, <1>4, <1>5
<1>7. repos' \in Seq(Entry) /\ IdsOf(repos') = IdsOf(repos)
  BY <1>1, <1>6, SameIds
<1>8. Selects({repos[k].id}, ~repos[k].selected)
  BY <1>2, <1>7, ChooseFacts DEF ExplorerToggle
<1>. QED  BY <1>2, <1>8

LEMMA SelectAllFacts ==
  ASSUME TypeOK, OrderInv, NEW on \in BOOLEAN, ExplorerSelect(on)
  PROVE  IdsOf(repos) \subseteq Ids /\ Selects(IdsOf(repos), on)
<1>1. repos \in Seq(Entry) /\ repos \in [DOMAIN repos -> Entry] /\ \A k \in DOMAIN repos : repos[k] \in Entry
  BY TypeFacts, ElementOfSeq, LenProperties
<1>2. IdsOf(repos) \in SUBSET Ids
  <2>1. \A k \in DOMAIN repos : repos[k].id \in Ids
    BY <1>1 DEF Entry
  <2>. QED  BY <2>1 DEF IdsOf
<1>3. repos' = [k \in DOMAIN repos |-> [repos[k] EXCEPT !.selected = on]]
  BY DEF ExplorerSelect
<1>4. \A k \in DOMAIN repos : /\ [repos[k] EXCEPT !.selected = on] \in Entry
                              /\ [repos[k] EXCEPT !.selected = on].id = repos[k].id
  BY <1>1 DEF Entry
<1>5. /\ DOMAIN repos' = DOMAIN repos /\ repos' \in [DOMAIN repos -> Entry]
      /\ \A j \in DOMAIN repos : repos'[j].id = repos[j].id
  BY <1>3, <1>4
<1>6. repos' \in Seq(Entry) /\ IdsOf(repos') = IdsOf(repos)
  BY <1>1, <1>5, SameIds
<1>. QED  BY <1>2, <1>6, ChooseFacts DEF ExplorerSelect

\* A refresh: one more discovery is asked for, and the spinner starts.
Refreshes(source) ==
  /\ stage = "input" /\ stage' = "drain" /\ effects = <<>>
  /\ effects' = <<Effect("Discover", source, {}, TRUE)>> /\ loading' = TRUE
  /\ Cardinality(Started) + Cardinality(Ordered) < MaxTasks
  /\ UNCHANGED <<worldVars, dbVars, repos, modals, chosen, keys, disc, loader, appRx>>

LEMMA RefreshFacts ==
  ASSUME OrderInv, NEW source, ExplorerRefresh(source)
  PROVE  Refreshes(source)
<1>1. stage = "input" /\ stage' = "drain" /\ effects = <<>> /\ UNCHANGED <<worldVars, dbVars, modals, disc, loader, appRx>>
  BY DEF ExplorerRefresh, ExplorerKey, OrderInv
<1>2. effects' = <<Effect("Discover", source, {}, TRUE)>>
  BY <1>1 DEF ExplorerRefresh
<1>. QED  BY <1>1, <1>2 DEF Refreshes, ExplorerRefresh

\* A turn of the loop carries one effect out.
LEMMA ExecuteFacts ==
  ASSUME TypeOK, Execute
  PROVE  /\ stage = "effects" /\ effects # <<>> /\ effects' = Tail(effects)
         /\ stage' = IF effects' = <<>> THEN "input" ELSE "effects"
         /\ UNCHANGED <<worldVars, repos, loading, modals, chosen, keys, appRx>>
         /\ Head(effects) \in Effects
         /\ \/ Head(effects).kind = "Load" /\ loader' \in Loaders /\ loader'.entries = loader.entries
               /\ UNCHANGED <<dbVars, disc>>
            \/ Head(effects).kind = "Discover" /\ SpawnDiscover(Head(effects).source) /\ UNCHANGED <<dbVars, loader>>
            \/ /\ Head(effects).kind = "Select" /\ Persist(Head(effects).ids, Head(effects).on)
               /\ UNCHANGED <<disc, loader>>
<1>1. /\ stage = "effects" /\ effects # <<>> /\ effects' = Tail(effects)
      /\ stage' = IF effects' = <<>> THEN "input" ELSE "effects"
      /\ UNCHANGED <<worldVars, repos, loading, modals, chosen, keys, appRx>>
  BY DEF Execute, AfterEffects
<1>2. Head(effects) \in Effects
  BY <1>1, TypeFacts, EffectFacts
<1>3. \/ Head(effects).kind = "Load" /\ SpawnLoad
      \/ Head(effects).kind = "Discover" /\ SpawnDiscover(Head(effects).source)
      \/ Head(effects).kind = "Select" /\ Persist(Head(effects).ids, Head(effects).on)
  BY DEF Execute
<1>4. ASSUME SpawnLoad PROVE loader' \in Loaders /\ loader'.entries = loader.entries /\ UNCHANGED <<dbVars, disc>>
  BY <1>4, TypeFacts DEF SpawnLoad, Loaders
<1>5. \A source : SpawnDiscover(source) => UNCHANGED <<dbVars, loader>>
  BY DEF SpawnDiscover
<1>6. \A S, on : Persist(S, on) => UNCHANGED <<disc, loader>>
  BY DEF Persist
<1>. QED  BY <1>1, <1>2, <1>3, <1>4, <1>5, <1>6

\* A step in which nothing but the channel to the screen is taken from.
LEMMA DrainFacts ==
  ASSUME TypeOK, DrainOne
  PROVE  /\ appRx # <<>> /\ appRx' = Tail(appRx) /\ Head(appRx) \in Events /\ Head(appRx) = appRx[1]
         /\ repos' = IF Head(appRx).kind = "Loaded" THEN Head(appRx).entries ELSE repos
         /\ loading' = (Head(appRx).kind = "Loaded" /\ loading)
         /\ modals' = IF Head(appRx).kind = "Failed" THEN modals + 1 ELSE modals
         /\ UNCHANGED <<worldVars, dbVars, stage, effects, chosen, keys, disc, loader>>
<1>1. /\ appRx # <<>> /\ appRx' = Tail(appRx)
      /\ repos' = IF Head(appRx).kind = "Loaded" THEN Head(appRx).entries ELSE repos
      /\ loading' = LoadingAfter(Head(appRx))
      /\ modals' = IF Head(appRx).kind = "Failed" THEN modals + 1 ELSE modals
      /\ UNCHANGED <<worldVars, dbVars, stage, effects, chosen, keys, disc, loader>>
  BY DEF DrainOne
<1>2. Head(appRx) \in Events /\ Head(appRx) = appRx[1]
  BY <1>1, TypeFacts, ReceiveFacts
<1>. QED  BY <1>1, <1>2 DEF LoadingAfter

\* Every step of the program, by what it does.
LEMMA NextCases ==
  ASSUME TypeOK, OrderInv, ListsInv, StoreInv, [Next]_vars
  PROVE  \/ UNCHANGED vars
         \/ DrainOne \/ Drained \/ Execute \/ Tick \/ DismissModal
         \/ \E S \in SUBSET IdsOf(repos), on \in BOOLEAN : S \subseteq Ids /\ Selects(S, on)
         \/ \E source \in Scopes : Refreshes(source)
         \/ \E d \in Tasks : Discover(d)
         \/ ReadStored \/ SendStored
         \/ \E g \in Githubs : GithubChange(g)
         \/ \E i \in Synced : RecordCloned(i)
<1>1. CASE Loop
  BY <1>1 DEF Loop
<1>2. ASSUME NEW k \in DOMAIN repos, ExplorerToggle(k)
      PROVE  \E S \in SUBSET IdsOf(repos), on \in BOOLEAN : S \subseteq Ids /\ Selects(S, on)
  BY <1>2, ToggleFacts
<1>3. ASSUME NEW on \in BOOLEAN, ExplorerSelect(on)
      PROVE  \E S \in SUBSET IdsOf(repos), b \in BOOLEAN : S \subseteq Ids /\ Selects(S, b)
  BY <1>3, SelectAllFacts
<1>4. ASSUME NEW source \in Sources, ExplorerRefresh(source) PROVE source \in Scopes /\ Refreshes(source)
  BY <1>4, RefreshFacts, SourcesAssumption DEF Scopes
<1>5. CASE Keyboard
  BY <1>2, <1>3, <1>4, <1>5 DEF Keyboard
<1>6. CASE Loader
  BY <1>6 DEF Loader
<1>. QED  BY <1>1, <1>5, <1>6 DEF Next

----------------------------------------------------------------------------
(* The table *)

\* A call that writes into rows and leaves their names is one the table bears.
LEMMA KeptNames ==
  ASSUME TableType, StoreInv, UniqueNames, store' \in [Ids -> Rows],
         \A i \in Ids \ Stored : store'[i] = store[i],
         \A i \in Stored : store'[i].name = store[i].name /\ store'[i].status # "absent"
  PROVE  TableType' /\ StoreInv' /\ UniqueNames' /\ Stored' = Stored
<1>1. Stored' = Stored
  <2>1. NoRow.name \notin Names
    BY ConstantFacts DEF NoRow
  <2>2. \A i \in Stored : store'[i] # NoRow
    BY <2>1 DEF StoreInv
  <2>. QED  BY <2>2 DEF Stored
<1>. QED  BY <1>1 DEF TableType, StoreInv, UniqueNames, Rows, Statuses

\* Rows only come, and no two of them have one name.
LEMMA TableStep ==
  ASSUME TypeOK, OrderInv, ListsInv, StoreInv, [Next]_vars
  PROVE  /\ TableType' /\ StoreInv' /\ UniqueNames' /\ Stored \subseteq Stored'
<1>1. TableType /\ UniqueNames
  BY TypeFacts
<1>2. ASSUME store' = store PROVE TableType' /\ StoreInv' /\ UniqueNames' /\ Stored \subseteq Stored'
  BY <1>1, <1>2 DEF TableType, StoreInv, UniqueNames, Stored
<1>3. ASSUME UNCHANGED dbVars PROVE store' = store
  BY <1>3 DEF dbVars
<1>4. CASE UNCHANGED vars \/ DrainOne \/ Drained \/ Tick \/ DismissModal
  BY <1>2, <1>3, <1>4, DrainFacts DEF vars, Drained, Tick, DismissModal
<1>5. CASE Execute
  <2>1. CASE UNCHANGED dbVars
    BY <1>2, <1>3, <2>1
  <2>2. CASE Persist(Head(effects).ids, Head(effects).on)
    <3>1. Head(effects).ids \in SUBSET Ids /\ Head(effects).on \in BOOLEAN
      BY <1>5, ExecuteFacts DEF Effects
    <3>2. CASE store' = store
      BY <1>2, <3>2
    <3>3. CASE /\ store' \in [Ids -> Rows]
               /\ \A i \in Head(effects).ids \cap Stored : store'[i] = [store[i] EXCEPT !.selected = Head(effects).on]
               /\ \A i \in Ids : i \notin Head(effects).ids \cap Stored => store'[i] = store[i]
      <4>1. \A i \in Ids : store[i] \in Rows
        BY <1>1 DEF TableType
      <4>2. \A i \in Stored : store'[i].name = store[i].name /\ store'[i].status = store[i].status
        BY <3>3, <4>1 DEF Rows, Stored
      <4>. QED  BY <1>1, <3>3, <4>2, KeptNames DEF StoreInv
    <3>. QED  BY <1>1, <2>2, <3>1, <3>2, <3>3, PersistFacts
  <2>. QED  BY <1>5, <2>1, <2>2, ExecuteFacts
<1>6. CASE \E S \in SUBSET IdsOf(repos), on \in BOOLEAN : S \subseteq Ids /\ Selects(S, on)
  BY <1>2, <1>3, <1>6 DEF Selects
<1>7. CASE \E source \in Scopes : Refreshes(source)
  BY <1>2, <1>3, <1>7 DEF Refreshes
<1>8. ASSUME NEW d \in Tasks, Discover(d) PROVE TableType' /\ StoreInv' /\ UniqueNames' /\ Stored \subseteq Stored'
  <2>1. CASE Failed(d) \/ Think(d) \/ SendLoaded(d) \/ SendDiscovered(d)
    BY <1>2, <1>3, <2>1, FailedFacts, ThinkFacts, SendLoadedFacts, SendDiscoveredFacts
  <2>2. CASE Mark(d)
    <3>1. PICK i \in disc[d].todo :
            /\ i \in Stored
            /\ \/ store' = store
               \/ /\ store' \in [Ids -> Rows] /\ store'[i] = [store[i] EXCEPT !.deleted = TRUE]
                  /\ \A k \in Ids \ {i} : store'[k] = store[k]
      BY <2>2, MarkFacts
    <3>2. CASE store' = store
      BY <1>2, <3>2
    <3>3. CASE /\ store' \in [Ids -> Rows] /\ store'[i] = [store[i] EXCEPT !.deleted = TRUE]
               /\ \A k \in Ids \ {i} : store'[k] = store[k]
      <4>1. i \in Ids /\ store[i] \in Rows
        BY <1>1, <3>1 DEF TableType, Stored
      <4>2. store'[i].name = store[i].name /\ store'[i].status = store[i].status
        BY <3>3, <4>1 DEF Rows
      <4>. QED  BY <1>1, <3>1, <3>3, <4>1, <4>2, KeptNames DEF StoreInv, Stored
    <3>. QED  BY <3>1, <3>2, <3>3
  <2>3. CASE Upsert(d)
    <3>1. disc[d].list \in Seq(Entry)
      BY TypeFacts DEF Discs
    <3>2. CASE Failed(d)
      BY <2>1, <3>2
    <3>3. CASE /\ ~Clashes(disc[d].list)
               /\ store' = [i \in Ids |-> IF i \in IdsOf(disc[d].list) THEN RowAfter(disc[d].list, i) ELSE store[i]]
      BY <1>1, <3>1, <3>3, UpsertFacts
    <3>. QED  BY <2>3, <3>2, <3>3, UpsertCases
  <2>. QED  BY <1>8, <2>1, <2>2, <2>3, DiscoverCases
<1>9. CASE ReadStored \/ SendStored
  BY <1>2, <1>3, <1>9, ReadStoredFacts, SendStoredFacts
<1>10. CASE \E g \in Githubs : GithubChange(g)
  BY <1>2, <1>3, <1>10 DEF GithubChange
<1>11. ASSUME NEW i \in Synced, RecordCloned(i)
       PROVE  TableType' /\ StoreInv' /\ UniqueNames' /\ Stored \subseteq Stored'
  <2>1. /\ i \in Stored /\ i \in Ids /\ store' \in [Ids -> Rows]
        /\ store'[i] = [store[i] EXCEPT !.status = "Cloned"]
        /\ \A k \in Ids \ {i} : store'[k] = store[k]
    BY <1>1, <1>11, ClonedFacts
  <2>2. store[i] \in Rows
    BY <1>1, <2>1 DEF TableType
  <2>3. store'[i].name = store[i].name /\ store'[i].status = "Cloned"
    BY <2>1, <2>2 DEF Rows
  <2>. QED  BY <1>1, <2>1, <2>3, KeptNames DEF StoreInv, Stored
<1>. QED  BY <1>4, <1>5, <1>6, <1>7, <1>8, <1>9, <1>10, <1>11, NextCases

----------------------------------------------------------------------------
(* The order of the turn *)

\* Nothing that the order is about has changed.
LEMMA OrderKept ==
  ASSUME OrderInv, effects' = effects, \A d \in Tasks : disc'[d].pc # "none" <=> disc[d].pc # "none",
         stage' = "input" => effects = <<>>
  PROVE  OrderInv'
<1>1. Ordered' = Ordered
  BY DEF Ordered
<1>. QED  BY <1>1 DEF OrderInv

LEMMA OrderStep ==
  ASSUME TypeOK, OrderInv, ListsInv, StoreInv, [Next]_vars
  PROVE  OrderInv'
<1>. USE DEF screenVars, vars
<1>1. CASE UNCHANGED vars \/ DrainOne \/ Drained \/ Tick \/ DismissModal
  <2>1. /\ effects' = effects /\ disc' = disc
        /\ stage' = "input" => effects = <<>>
    BY <1>1, DrainFacts DEF OrderInv, Drained, AfterEffects, Tick, DismissModal
  <2>. QED  BY <2>1, OrderKept
<1>2. CASE Execute
  <2>1. /\ effects \in Seq(Effects) /\ disc \in [Tasks -> Discs] /\ effects # <<>> /\ effects' = Tail(effects)
        /\ stage' = "input" => effects' = <<>>
    BY <1>2, TypeFacts, ExecuteFacts
  <2>2. /\ Head(effects) = effects[1] /\ 1 \in DOMAIN effects
        /\ \A k \in DOMAIN effects' : k \in Nat \ {0} /\ k + 1 \in DOMAIN effects /\ effects'[k] = effects[k + 1]
    <3>1. /\ Head(effects) = effects[1] /\ 1 \in DOMAIN effects
          /\ DOMAIN effects' = 1 .. Len(effects) - 1 /\ Len(effects) \in Nat
          /\ \A k \in DOMAIN effects' : k + 1 \in DOMAIN effects /\ effects'[k] = effects[k + 1]
      BY <2>1, EffectFacts
    <3>2. \A k \in DOMAIN effects' : k \in Nat \ {0}
      BY <3>1
    <3>. QED  BY <3>1, <3>2
  <2>3. \A k \in Ordered' : k \in Nat \ {0} /\ k + 1 \in Ordered
    BY <2>2 DEF Ordered
  <2>4. \A j, k \in Ordered' : j = k
    BY <2>3 DEF OrderInv
  <2>5. CASE disc' = disc
    BY <2>1, <2>3, <2>4, <2>5 DEF OrderInv
  <2>6. CASE Head(effects).kind = "Discover" /\ SpawnDiscover(Head(effects).source)
    <3>1. 1 \in Ordered
      BY <2>2, <2>6 DEF Ordered
    <3>2. Ordered' = {}
      BY <2>3, <3>1 DEF OrderInv
    <3>3. Head(effects).source \in Scopes
      BY <1>2, ExecuteFacts DEF Effects
    <3>4. PICK d \in Tasks : \A e \in Tasks : disc'[e].pc # "none" <=> e <= d
      BY <2>1, <2>6, <3>1, <3>3, SpawnFacts
    <3>5. d \in 0 .. MaxTasks
      BY ConstantFacts DEF Tasks
    <3>. QED  BY <2>1, <3>2, <3>4, <3>5 DEF OrderInv
  <2>. QED  BY <1>2, <2>5, <2>6, ExecuteFacts
<1>3. CASE \E S \in SUBSET IdsOf(repos), on \in BOOLEAN : S \subseteq Ids /\ Selects(S, on)
  <2>1. PICK S, on : Selects(S, on)
    BY <1>3
  <2>2. stage' = "drain" /\ disc' = disc /\ effects' = <<Effect("Select", "MyRepos", S, on)>>
    BY <2>1 DEF Selects
  <2>3. Ordered' = {}
    BY <2>2 DEF Ordered, Effect
  <2>. QED  BY <2>2, <2>3 DEF OrderInv
<1>4. CASE \E source \in Scopes : Refreshes(source)
  <2>1. PICK source \in Scopes : Refreshes(source)
    BY <1>4
  <2>2. /\ stage' = "drain" /\ disc' = disc /\ effects' = <<Effect("Discover", source, {}, TRUE)>>
        /\ effects = <<>> /\ Cardinality(Started) + Cardinality(Ordered) < MaxTasks
    BY <2>1 DEF Refreshes
  <2>3. Ordered' \subseteq {1}
    BY <2>2 DEF Ordered
  <2>4. \E d \in Tasks : disc[d].pc = "none"
    <3>1. SUFFICES ASSUME \A d \in Tasks : disc[d].pc # "none" PROVE FALSE
      OBVIOUS
    <3>2. Started = 1 .. MaxTasks
      BY <3>1 DEF Started, Tasks
    <3>3. Cardinality(Started) = MaxTasks
      BY <3>2, ConstantFacts, FS_Interval
    <3>4. Ordered = {}
      BY <2>2 DEF Ordered
    <3>5. Cardinality(Ordered) = 0
      BY <3>4, FS_EmptySet
    <3>. QED  BY <2>2, <3>3, <3>5, ConstantFacts
  <2>. QED  BY <2>2, <2>3, <2>4 DEF OrderInv
<1>5. CASE \E d \in Tasks : Discover(d)
  <2>1. PICK d \in Tasks : Discover(d)
    BY <1>5
  <2>2. /\ disc[d].pc # "none" /\ disc'[d].pc # "none"
        /\ \A e \in Tasks \ {d} : disc'[e] = disc[e]
        /\ effects' = effects /\ stage' = stage
    BY <2>1, DiscoverFacts
  <2>3. \A e \in Tasks : disc'[e].pc # "none" <=> disc[e].pc # "none"
    BY <2>2
  <2>. QED  BY <2>2, <2>3, OrderKept DEF OrderInv
<1>6. CASE ReadStored \/ SendStored \/ (\E g \in Githubs : GithubChange(g)) \/ \E i \in Synced : RecordCloned(i)
  <2>1. effects' = effects /\ stage' = stage /\ disc' = disc
    BY <1>6 DEF ReadStored, SendStored, GithubChange, RecordCloned
  <2>. QED  BY <2>1, OrderKept DEF OrderInv
<1>. QED  BY <1>1, <1>2, <1>3, <1>4, <1>5, <1>6, NextCases

----------------------------------------------------------------------------
(* The lists *)

\* What is in the channel keeps its rows, and what is sent has some.
LEMMA SentIsStored ==
  ASSUME appRx \in Seq(Events), ListsInv, Stored \subseteq Stored', NEW e \in Events, appRx' = Append(appRx, e),
         IdsOf(e.entries) \subseteq Stored'
  PROVE  \A k \in DOMAIN appRx' : IdsOf(appRx'[k].entries) \subseteq Stored'
<1>1. SUFFICES ASSUME NEW k \in DOMAIN appRx' PROVE IdsOf(appRx'[k].entries) \subseteq Stored'
  OBVIOUS
<1>2. CASE k \in DOMAIN appRx
  BY <1>2, SendFacts DEF ListsInv
<1>3. CASE k = Len(appRx) + 1
  BY <1>3, SendFacts
<1>. QED  BY <1>2, <1>3, SendFacts

\* The rest of the lists keep theirs.
LEMMA ListsKept ==
  ASSUME ListsInv, Stored \subseteq Stored', disc' = disc,
         IdsOf(loader'.entries) \subseteq Stored \/ loader'.entries = loader.entries,
         IdsOf(repos') = IdsOf(repos),
         \A k \in DOMAIN appRx' : IdsOf(appRx'[k].entries) \subseteq Stored'
  PROVE  ListsInv'
BY DEF ListsInv, ScreenIsStored, IdsOf

LEMMA ListsStep ==
  ASSUME TypeOK, OrderInv, ListsInv, StoreInv, [Next]_vars
  PROVE  ListsInv'
<1>1. appRx \in Seq(Events) /\ disc \in [Tasks -> Discs] /\ Stored \subseteq Stored'
  BY TypeFacts, TableStep
<1>2. ASSUME appRx' = appRx PROVE \A k \in DOMAIN appRx' : IdsOf(appRx'[k].entries) \subseteq Stored'
  BY <1>1, <1>2 DEF ListsInv
<1>3. CASE UNCHANGED vars \/ Drained \/ Tick \/ DismissModal \/ ReadStored \/ \/ \E g \in Githubs : GithubChange(g)
                                                                             \/ \E i \in Synced : RecordCloned(i)
  <2>1. /\ disc' = disc /\ repos' = repos /\ appRx' = appRx
        /\ IdsOf(loader'.entries) \subseteq Stored \/ loader'.entries = loader.entries
    BY <1>3, ReadStoredFacts DEF vars, screenVars, Drained, Tick, DismissModal, GithubChange, RecordCloned
  <2>2. IdsOf(repos') = IdsOf(repos)
    BY <2>1
  <2>. QED  BY <1>1, <1>2, <2>1, <2>2, ListsKept
<1>4. CASE DrainOne
  <2>1. \A k \in DOMAIN appRx' : IdsOf(appRx'[k].entries) \subseteq Stored'
    BY <1>1, <1>4, DrainFacts, ReceiveFacts DEF ListsInv
  <2>2. IdsOf(Head(appRx).entries) \subseteq Stored
    BY <1>1, <1>4, DrainFacts, ReceiveFacts DEF ListsInv
  <2>3. disc' = disc /\ loader' = loader /\ repos' \in {repos, Head(appRx).entries}
    BY <1>4, DrainFacts
  <2>4. IdsOf(repos') \subseteq Stored'
    BY <1>1, <2>2, <2>3 DEF ListsInv, ScreenIsStored
  <2>. QED  BY <1>1, <2>1, <2>3, <2>4 DEF ListsInv, ScreenIsStored
<1>5. CASE Execute
  <2>0. /\ repos' = repos /\ appRx' = appRx /\ loader'.entries = loader.entries
        /\ disc' = disc \/ (Head(effects).kind = "Discover" /\ SpawnDiscover(Head(effects).source))
    <3>1. repos' = repos /\ appRx' = appRx
      BY <1>5, ExecuteFacts
    <3>2. CASE Head(effects).kind = "Discover" /\ SpawnDiscover(Head(effects).source) /\ UNCHANGED <<dbVars, loader>>
      BY <3>1, <3>2
    <3>3. CASE loader'.entries = loader.entries /\ disc' = disc
      BY <3>1, <3>3
    <3>. QED  BY <1>5, <3>2, <3>3, ExecuteFacts
  <2>1. IdsOf(repos') = IdsOf(repos) /\ appRx' = appRx /\ loader'.entries = loader.entries
    BY <2>0
  <2>2. CASE disc' = disc
    BY <1>1, <1>2, <2>1, <2>2, ListsKept
  <2>3. CASE Head(effects).kind = "Discover" /\ SpawnDiscover(Head(effects).source)
    <3>1. effects \in Seq(Effects) /\ Head(effects) \in Effects /\ Head(effects) = effects[1] /\ 1 \in DOMAIN effects
      BY <1>5, TypeFacts, ExecuteFacts, EffectFacts
    <3>2. Ordered # {} /\ Head(effects).source \in Scopes
      BY <2>3, <3>1 DEF Ordered, Effects
    <3>3. PICK d \in Tasks :
            /\ disc'[d].pc = "list" /\ disc'[d].todo = {}
            /\ \A e \in Tasks \ {d} : disc'[e] = disc[e]
      BY <1>1, <2>3, <3>2, SpawnFacts
    <3>. QED  BY <1>1, <1>2, <2>1, <3>3 DEF ListsInv, ScreenIsStored
  <2>. QED  BY <2>0, <2>2, <2>3
<1>6. CASE \E S \in SUBSET IdsOf(repos), on \in BOOLEAN : S \subseteq Ids /\ Selects(S, on)
  <2>1. IdsOf(repos') = IdsOf(repos) /\ disc' = disc /\ loader' = loader /\ appRx' = appRx
    BY <1>6 DEF Selects
  <2>. QED  BY <1>1, <1>2, <2>1, ListsKept
<1>7. CASE \E source \in Scopes : Refreshes(source)
  <2>1. IdsOf(repos') = IdsOf(repos) /\ disc' = disc /\ loader' = loader /\ appRx' = appRx
    BY <1>7 DEF Refreshes
  <2>. QED  BY <1>1, <1>2, <2>1, ListsKept
<1>8. CASE SendStored
  <2>1. IdsOf(Event("Loaded", loader.entries).entries) \subseteq Stored'
    BY <1>1 DEF ListsInv, Event
  <2>2. \A k \in DOMAIN appRx' : IdsOf(appRx'[k].entries) \subseteq Stored'
    BY <1>1, <1>8, <2>1, SendStoredFacts, SentIsStored
  <2>3. disc' = disc /\ IdsOf(repos') = IdsOf(repos) /\ IdsOf(loader'.entries) \subseteq Stored
    BY <1>8, SendStoredFacts, NoIds DEF screenVars
  <2>. QED  BY <1>1, <2>2, <2>3, ListsKept
<1>9. ASSUME NEW d \in Tasks, Discover(d) PROVE ListsInv'
  <2>1. /\ disc' \in [Tasks -> Discs] /\ \A e \in Tasks \ {d} : disc'[e] = disc[e]
        /\ loader' = loader /\ repos' = repos
    BY <1>9, DiscoverFacts DEF screenVars
  <2>2. SUFFICES /\ disc'[d].todo \subseteq Stored'
                 /\ disc'[d].pc = "loaded" => IdsOf(disc'[d].list) \subseteq Stored'
                 /\ \A k \in DOMAIN appRx' : IdsOf(appRx'[k].entries) \subseteq Stored'
    BY <1>1, <2>1 DEF ListsInv, ScreenIsStored
  <2>3. CASE Failed(d)
    <3>1. IdsOf(Event("Failed", <<>>).entries) \subseteq Stored'
      BY NoIds DEF Event
    <3>2. /\ disc'[d].todo = {} /\ disc'[d].pc = "done" /\ Event("Failed", <<>>) \in Events
          /\ appRx' = Append(appRx, Event("Failed", <<>>))
      BY <2>3, FailedFacts
    <3>. QED  BY <1>1, <3>1, <3>2, SentIsStored
  <2>4. CASE Think(d)
    BY <1>1, <1>2, <2>4, ThinkFacts
  <2>5. CASE Mark(d)
    BY <1>1, <1>2, <2>5, MarkFacts DEF ListsInv
  <2>6. CASE Upsert(d)
    <3>1. disc[d].list \in Seq(Entry) /\ TableType /\ UniqueNames
      BY TypeFacts DEF Discs
    <3>2. CASE /\ ~Clashes(disc[d].list)
               /\ store' = [i \in Ids |-> IF i \in IdsOf(disc[d].list) THEN RowAfter(disc[d].list, i) ELSE store[i]]
               /\ disc'[d].list = disc[d].list /\ disc'[d].todo = {}
               /\ appRx' = appRx
      BY <1>2, <3>1, <3>2, UpsertFacts
    <3>. QED  BY <2>3, <2>6, <3>2, UpsertCases
  <2>7. CASE SendLoaded(d)
    <3>1. /\ disc'[d].todo = {} /\ disc'[d].pc = "discovered" /\ Event("Loaded", disc[d].list) \in Events
          /\ appRx' = Append(appRx, Event("Loaded", disc[d].list)) /\ disc[d].pc = "loaded"
      BY <2>7, SendLoadedFacts
    <3>2. IdsOf(Event("Loaded", disc[d].list).entries) \subseteq Stored'
      BY <1>1, <3>1 DEF Event, ListsInv
    <3>. QED  BY <1>1, <3>1, <3>2, SentIsStored
  <2>8. CASE SendDiscovered(d)
    <3>1. IdsOf(Event("Discovered", <<>>).entries) \subseteq Stored'
      BY NoIds DEF Event
    <3>2. /\ disc'[d].todo = {} /\ disc'[d].pc = "done" /\ Event("Discovered", <<>>) \in Events
          /\ appRx' = Append(appRx, Event("Discovered", <<>>))
      BY <2>8, SendDiscoveredFacts
    <3>. QED  BY <1>1, <3>1, <3>2, SentIsStored
  <2>. QED  BY <1>9, <2>3, <2>4, <2>5, <2>6, <2>7, <2>8, DiscoverCases
<1>. QED  BY <1>3, <1>4, <1>5, <1>6, <1>7, <1>8, <1>9, NextCases

----------------------------------------------------------------------------
(* The selections *)

\* The user's choice is safe in a step that neither asks nor writes.
LEMMA SelectKept ==
  ASSUME SelectInv, StoreInv, Stored \subseteq Stored', Stored' \subseteq Ids,
         effects' = effects, chosen' = chosen, unsaved' = unsaved,
         \A i \in Stored : store'[i].selected = store[i].selected,
         \A i \in Stored' \ Stored : store'[i].selected = TRUE
  PROVE  SelectInv'
<1>1. PendingSelect' = PendingSelect
  BY DEF PendingSelect
<1>2. StoredSelectionIsChosen'
  <2>1. SUFFICES ASSUME NEW i \in Stored', i \notin PendingSelect, i \notin unsaved
                 PROVE  store'[i].selected = chosen[i]
    BY <1>1 DEF StoredSelectionIsChosen
  <2>2. CASE i \in Stored
    BY <2>1, <2>2 DEF SelectInv, StoredSelectionIsChosen
  <2>3. CASE i \notin Stored
    BY <2>1, <2>3 DEF SelectInv
  <2>. QED  BY <2>2, <2>3
<1>3. \A i \in Ids \ Stored' : chosen'[i] = TRUE
  BY DEF SelectInv
<1>4. (\A k \in DOMAIN effects : effects[k].kind = "Select" =>
         /\ \A i \in effects[k].ids : chosen[i] = effects[k].on
         /\ \A j \in DOMAIN effects : effects[j].kind = "Select" => j = k)'
  BY DEF SelectInv
<1>. QED  BY <1>2, <1>3, <1>4 DEF SelectInv

\* So it is with every discovery: an upsert takes the selection of the row, a new
\* row is selected.
LEMMA DiscoverKeepsSelection ==
  ASSUME TypeOK, StoreInv, ListsInv, NEW d \in Tasks, Discover(d)
  PROVE  /\ unsaved' = unsaved
         /\ \A i \in Stored : store'[i].selected = store[i].selected
         /\ \A i \in Stored' \ Stored : store'[i].selected = TRUE
<1>1. TableType /\ UniqueNames /\ disc[d].list \in Seq(Entry)
  BY TypeFacts DEF Discs
<1>2. ASSUME UNCHANGED dbVars
      PROVE  /\ unsaved' = unsaved
             /\ \A i \in Stored : store'[i].selected = store[i].selected
             /\ \A i \in Stored' \ Stored : store'[i].selected = TRUE
  BY <1>2 DEF dbVars, Stored
<1>3. CASE Failed(d) \/ Think(d) \/ SendLoaded(d) \/ SendDiscovered(d)
  BY <1>2, <1>3, FailedFacts, ThinkFacts, SendLoadedFacts, SendDiscoveredFacts
<1>4. CASE Mark(d)
  <2>1. PICK i \in disc[d].todo :
          /\ i \in Stored /\ unsaved' = unsaved
          /\ \/ store' = store
             \/ /\ store' \in [Ids -> Rows] /\ store'[i] = [store[i] EXCEPT !.deleted = TRUE]
                /\ \A k \in Ids \ {i} : store'[k] = store[k]
    BY <1>4, MarkFacts
  <2>2. CASE store' = store
    BY <2>1, <2>2 DEF Stored
  <2>3. CASE /\ store' \in [Ids -> Rows] /\ store'[i] = [store[i] EXCEPT !.deleted = TRUE]
             /\ \A k \in Ids \ {i} : store'[k] = store[k]
    <3>1. i \in Ids /\ store[i] \in Rows
      BY <1>1, <2>1 DEF TableType, Stored
    <3>2. store'[i].selected = store[i].selected
      BY <2>3, <3>1 DEF Rows
    <3>3. \A k \in Stored' : k \in Stored
      BY <2>1, <2>3 DEF Stored
    <3>. QED  BY <2>1, <2>3, <3>2, <3>3 DEF Stored
  <2>. QED  BY <2>1, <2>2, <2>3
<1>5. CASE Upsert(d)
  <2>1. CASE Failed(d)
    BY <1>3, <2>1
  <2>2. CASE /\ ~Clashes(disc[d].list)
             /\ store' = [i \in Ids |-> IF i \in IdsOf(disc[d].list) THEN RowAfter(disc[d].list, i) ELSE store[i]]
             /\ unsaved' = unsaved
    <3>1. /\ Stored' = Stored \cup IdsOf(disc[d].list)
          /\ \A i \in IdsOf(disc[d].list) : store'[i] = RowAfter(disc[d].list, i)
          /\ \A i \in Ids \ IdsOf(disc[d].list) : store'[i] = store[i]
      BY <1>1, <2>2, UpsertFacts
    <3>2. \A i \in IdsOf(disc[d].list) :
            /\ i \notin Stored => RowAfter(disc[d].list, i).selected = TRUE
            /\ i \in Stored => RowAfter(disc[d].list, i).selected = store[i].selected
      BY <1>1, RowAfterFacts
    <3>. QED  BY <2>2, <3>1, <3>2 DEF Stored
  <2>. QED  BY <1>5, <2>1, <2>2, UpsertCases
<1>. QED  BY <1>3, <1>4, <1>5, DiscoverCases

LEMMA SelectStep ==
  ASSUME TypeOK, OrderInv, ListsInv, StoreInv, SelectInv, [Next]_vars
  PROVE  SelectInv'
<1>1. Stored \subseteq Stored' /\ Stored' \subseteq Ids /\ TableType
  BY TypeFacts, TableStep DEF Stored
<1>2. CASE UNCHANGED vars \/ DrainOne \/ Drained \/ Tick \/ DismissModal \/ ReadStored \/ SendStored
           \/ \E g \in Githubs : GithubChange(g)
  <2>1. store' = store /\ unsaved' = unsaved /\ effects' = effects /\ chosen' = chosen
    BY <1>2, DrainFacts, ReadStoredFacts, SendStoredFacts
    DEF vars, dbVars, screenVars, Drained, Tick, DismissModal, GithubChange
  <2>2. Stored' = Stored
    BY <2>1 DEF Stored
  <2>. QED  BY <1>1, <2>1, <2>2, SelectKept
<1>3. CASE \E d \in Tasks : Discover(d)
  <2>1. effects' = effects /\ chosen' = chosen
    BY <1>3, DiscoverFacts DEF screenVars
  <2>. QED  BY <1>1, <1>3, <2>1, DiscoverKeepsSelection, SelectKept
<1>4. CASE \E i \in Synced : RecordCloned(i)
  <2>1. PICK i \in Synced :
          /\ i \in Stored /\ i \in Ids /\ store'[i] = [store[i] EXCEPT !.status = "Cloned"]
          /\ \A k \in Ids \ {i} : store'[k] = store[k]
          /\ UNCHANGED <<worldVars, unsaved, screenVars, disc, loader, appRx>>
    BY <1>1, <1>4, ClonedFacts
  <2>2. effects' = effects /\ chosen' = chosen /\ unsaved' = unsaved
    BY <2>1 DEF screenVars
  <2>3. store'[i].selected = store[i].selected
    BY <1>1, <2>1 DEF TableType, Rows
  <2>4. \A k \in Stored' : k \in Stored
    BY <2>1 DEF Stored
  <2>. QED  BY <1>1, <2>1, <2>2, <2>3, <2>4, SelectKept DEF Stored
<1>5. CASE Execute
  <2>1. /\ effects \in Seq(Effects) /\ effects # <<>> /\ effects' = Tail(effects) /\ chosen' = chosen
        /\ Head(effects) \in Effects
    BY <1>5, TypeFacts, ExecuteFacts
  <2>2. /\ Head(effects) = effects[1] /\ 1 \in DOMAIN effects
        /\ DOMAIN effects = 1 .. Len(effects) /\ Len(effects) \in Nat
        /\ DOMAIN effects' = 1 .. Len(effects) - 1
        /\ \A k \in DOMAIN effects' : k + 1 \in DOMAIN effects /\ effects'[k] = effects[k + 1]
    BY <2>1, EffectFacts
  <2>3. (\A k \in DOMAIN effects : effects[k].kind = "Select" =>
           /\ \A i \in effects[k].ids : chosen[i] = effects[k].on
           /\ \A j \in DOMAIN effects : effects[j].kind = "Select" => j = k)'
    <3>1. SUFFICES ASSUME NEW k \in DOMAIN effects', effects'[k].kind = "Select"
                   PROVE  /\ \A i \in effects'[k].ids : chosen[i] = effects'[k].on
                          /\ \A j \in DOMAIN effects' : effects'[j].kind = "Select" => j = k
      BY <2>1
    <3>2. k + 1 \in DOMAIN effects /\ effects[k + 1].kind = "Select" /\ effects'[k] = effects[k + 1]
      BY <2>2, <3>1
    <3>3. \A i \in effects'[k].ids : chosen[i] = effects'[k].on
      BY <3>2 DEF SelectInv
    <3>4. ASSUME NEW j \in DOMAIN effects', effects'[j].kind = "Select" PROVE j = k
      <4>1. j + 1 \in DOMAIN effects /\ effects[j + 1].kind = "Select"
        BY <2>2, <3>4
      <4>2. j + 1 = k + 1
        BY <3>2, <4>1 DEF SelectInv
      <4>. QED  BY <2>2, <4>2
    <3>. QED  BY <3>3, <3>4
  <2>4. \A i \in Ids \ Stored' : chosen'[i] = TRUE
    BY <1>1, <2>1 DEF SelectInv
  <2>5. CASE UNCHANGED dbVars /\ Head(effects).kind # "Select"
    <3>1. \A i \in PendingSelect : i \in PendingSelect'
      <4>1. SUFFICES ASSUME NEW i \in PendingSelect PROVE i \in PendingSelect'
        OBVIOUS
      <4>2. PICK k \in DOMAIN effects : effects[k].kind = "Select" /\ i \in effects[k].ids
        BY DEF PendingSelect
      <4>3. k - 1 \in DOMAIN effects' /\ effects'[k - 1] = effects[k]
        BY <2>2, <2>5, <4>2
      <4>. QED  BY <4>2, <4>3 DEF PendingSelect
    <3>2. StoredSelectionIsChosen'
      BY <2>1, <2>5, <3>1 DEF SelectInv, StoredSelectionIsChosen, Stored, dbVars
    <3>. QED  BY <2>3, <2>4, <3>2 DEF SelectInv
  <2>6. CASE Head(effects).kind = "Select" /\ Persist(Head(effects).ids, Head(effects).on)
    <3>. DEFINE S == Head(effects).ids
                on == Head(effects).on
    <3>1. S \in SUBSET Ids /\ on \in BOOLEAN
      BY <2>1 DEF Effects
    <3>2. PendingSelect \subseteq S /\ \A i \in S : chosen[i] = on
      <4>1. \A k \in DOMAIN effects : effects[k].kind = "Select" => k = 1
        BY <2>2, <2>6 DEF SelectInv
      <4>2. \A i \in S : chosen[i] = on
        BY <2>2, <2>6 DEF SelectInv
      <4>. QED  BY <2>2, <4>1, <4>2 DEF PendingSelect
    <3>3. StoredSelectionIsChosen'
      <4>1. SUFFICES ASSUME NEW i \in Stored', i \notin unsaved' PROVE store'[i].selected = chosen[i]
        BY <2>1 DEF StoredSelectionIsChosen
      <4>2. CASE store' = store /\ unsaved' = unsaved \cup S
        BY <3>2, <4>1, <4>2 DEF Stored, SelectInv, StoredSelectionIsChosen
      <4>3. CASE /\ unsaved' = unsaved \ S
                 /\ \A k \in S \cap Stored : store'[k] = [store[k] EXCEPT !.selected = on]
                 /\ \A k \in Ids : k \notin S \cap Stored => store'[k] = store[k]
        <5>1. i \in Stored
          BY <4>1, <4>3 DEF Stored
        <5>2. CASE i \in S
          <6>1. store[i] \in Rows
            BY <1>1, <5>1 DEF TableType, Stored
          <6>2. store'[i].selected = on
            BY <4>3, <5>1, <5>2, <6>1 DEF Rows
          <6>. QED  BY <3>2, <5>2, <6>2
        <5>3. CASE i \notin S
          BY <3>2, <4>1, <4>3, <5>1, <5>3 DEF Stored, SelectInv, StoredSelectionIsChosen
        <5>. QED  BY <5>2, <5>3
      <4>4. StoreInv /\ Persist(S, on)
        BY <2>6
      <4>. HIDE DEF S, on
      <4>5. \/ /\ unsaved' = unsaved \ S
               /\ \A k \in S \cap Stored : store'[k] = [store[k] EXCEPT !.selected = on]
               /\ \A k \in Ids : k \notin S \cap Stored => store'[k] = store[k]
            \/ store' = store /\ unsaved' = unsaved \cup S
        BY <1>1, <3>1, <4>4, PersistFacts
      <4>. QED  BY <4>2, <4>3, <4>5
    <3>. QED  BY <2>3, <2>4, <3>3 DEF SelectInv
  <2>. QED  BY <1>5, <2>5, <2>6, ExecuteFacts
<1>6. CASE \E S \in SUBSET IdsOf(repos), on \in BOOLEAN : S \subseteq Ids /\ Selects(S, on)
  <2>1. PICK S \in SUBSET IdsOf(repos), on \in BOOLEAN : S \subseteq Ids /\ Selects(S, on)
    BY <1>6
  <2>2. /\ effects = <<>> /\ effects' = <<Effect("Select", "MyRepos", S, on)>>
        /\ \A i \in Ids : chosen'[i] = IF i \in S THEN on ELSE chosen[i]
        /\ store' = store /\ unsaved' = unsaved
    BY <2>1 DEF Selects, dbVars
  <2>3. S \subseteq Stored
    BY <2>1 DEF ListsInv, ScreenIsStored
  <2>4. PendingSelect = {} /\ S \subseteq PendingSelect' /\ Stored' = Stored
    <3>1. PendingSelect = {}
      BY <2>2 DEF PendingSelect
    <3>2. 1 \in DOMAIN effects' /\ effects'[1].kind = "Select" /\ effects'[1].ids = S
      BY <2>2 DEF Effect
    <3>3. \A i \in S : i \in PendingSelect'
      BY <2>1, <3>2 DEF PendingSelect
    <3>. QED  BY <2>2, <3>1, <3>3 DEF Stored
  <2>5. StoredSelectionIsChosen'
    BY <2>2, <2>4 DEF SelectInv, StoredSelectionIsChosen, Stored
  <2>6. \A i \in Ids \ Stored' : chosen'[i] = TRUE
    BY <2>2, <2>3, <2>4 DEF SelectInv
  <2>7. (\A k \in DOMAIN effects : effects[k].kind = "Select" =>
           /\ \A i \in effects[k].ids : chosen[i] = effects[k].on
           /\ \A j \in DOMAIN effects : effects[j].kind = "Select" => j = k)'
    <3>1. DOMAIN effects' = {1} /\ effects'[1].ids = S /\ effects'[1].on = on
      BY <2>2 DEF Effect
    <3>. QED  BY <2>1, <2>2, <3>1
  <2>. QED  BY <2>5, <2>6, <2>7 DEF SelectInv
<1>7. CASE \E source \in Scopes : Refreshes(source)
  <2>1. PICK source \in Scopes : Refreshes(source)
    BY <1>7
  <2>2. /\ effects = <<>> /\ effects' = <<Effect("Discover", source, {}, TRUE)>>
        /\ chosen' = chosen /\ store' = store /\ unsaved' = unsaved
    BY <2>1 DEF Refreshes, dbVars
  <2>3. DOMAIN effects' = {1} /\ effects'[1].kind # "Select"
    BY <2>2 DEF Effect
  <2>4. PendingSelect = {} /\ Stored' = Stored
    BY <2>2 DEF PendingSelect, Stored
  <2>. QED  BY <2>2, <2>3, <2>4 DEF SelectInv, StoredSelectionIsChosen
<1>. QED  BY <1>2, <1>3, <1>4, <1>5, <1>6, <1>7, NextCases

----------------------------------------------------------------------------
(* The marks *)

\* No mark is set in a step that leaves the listings at work alone.
LEMMA MarkKept ==
  ASSUME MarkInv, steady' \subseteq steady, \A i \in steady' : github'[i] # NoName,
         \A d \in Tasks : \/ disc'[d] = disc[d]
                          \/ disc'[d].pc \notin {"orgs", "load"} /\ disc'[d].todo \subseteq disc[d].todo,
         Cardinality(Mine) <= PageSize => \A i \in steady \cap Mine : store'[i].deleted => store[i].deleted
  PROVE  MarkInv'
<1>1. ASSUME Cardinality(Mine) <= PageSize, NEW d \in Tasks
      PROVE  /\ disc'[d].pc = "orgs" => disc'[d].source = "All"
             /\ disc'[d].pc \in {"orgs", "load"} /\ disc'[d].source # "Starred" =>
                  steady' \cap Mine \subseteq IdsOf(disc'[d].list)
             /\ disc'[d].todo \cap (steady' \cap Mine) = {}
  <2>1. CASE disc'[d] = disc[d]
    BY <1>1, <2>1 DEF MarkInv
  <2>2. CASE disc'[d].pc \notin {"orgs", "load"} /\ disc'[d].todo \subseteq disc[d].todo
    BY <1>1, <2>2 DEF MarkInv
  <2>. QED  BY <2>1, <2>2
<1>2. FoundIsNotMarked'
  BY DEF MarkInv, FoundIsNotMarked
<1>. QED  BY <1>1, <1>2 DEF MarkInv

LEMMA MarkStep ==
  ASSUME TypeOK, OrderInv, ListsInv, StoreInv, MarkInv, [Next]_vars
  PROVE  MarkInv'
<1>1. /\ github \in [Ids -> Names \cup {NoName}] /\ disc \in [Tasks -> Discs] /\ TableType /\ UniqueNames
      /\ \A d \in Tasks : disc[d].list \in Seq(Entry)
      /\ \A i \in steady : github[i] # NoName
  BY TypeFacts DEF Discs, MarkInv
<1>2. CASE UNCHANGED vars \/ DrainOne \/ Drained \/ Tick \/ DismissModal \/ ReadStored \/ SendStored
  <2>1. store' = store /\ disc' = disc /\ github' = github /\ steady' = steady
    BY <1>2, DrainFacts, ReadStoredFacts, SendStoredFacts
    DEF vars, worldVars, dbVars, Drained, Tick, DismissModal
  <2>. QED  BY <1>1, <2>1, MarkKept
<1>3. CASE (\E S \in SUBSET IdsOf(repos), on \in BOOLEAN : S \subseteq Ids /\ Selects(S, on))
           \/ \E source \in Scopes : Refreshes(source)
  <2>1. store' = store /\ disc' = disc /\ github' = github /\ steady' = steady
    BY <1>3 DEF Selects, Refreshes, worldVars, dbVars
  <2>. QED  BY <1>1, <2>1, MarkKept
<1>4. CASE \E g \in Githubs : GithubChange(g)
  <2>1. store' = store /\ disc' = disc /\ steady' = {i \in steady : github'[i] # NoName}
    BY <1>4 DEF GithubChange, dbVars
  <2>. QED  BY <2>1, MarkKept
<1>5. CASE \E i \in Synced : RecordCloned(i)
  <2>1. PICK i \in Synced :
          /\ i \in Ids /\ store'[i] = [store[i] EXCEPT !.status = "Cloned"]
          /\ \A k \in Ids \ {i} : store'[k] = store[k]
          /\ UNCHANGED <<worldVars, disc>>
    BY <1>1, <1>5, ClonedFacts
  <2>2. \A k \in Ids : store'[k].deleted = store[k].deleted
    BY <1>1, <2>1 DEF TableType, Rows
  <2>3. \A k \in steady \cap Mine : k \in Ids
    BY ConstantFacts
  <2>. QED  BY <1>1, <2>1, <2>2, <2>3, MarkKept DEF worldVars
<1>6. CASE Execute
  <2>1. /\ effects \in Seq(Effects) /\ effects # <<>> /\ effects' = Tail(effects) /\ UNCHANGED worldVars
        /\ Head(effects) \in Effects
    BY <1>6, TypeFacts, ExecuteFacts
  <2>2. github' = github /\ steady' = steady /\ steady' \subseteq steady
    BY <2>1 DEF worldVars
  <2>3. CASE UNCHANGED <<dbVars, disc>>
    BY <1>1, <2>2, <2>3, MarkKept DEF dbVars
  <2>4. CASE Head(effects).kind = "Discover" /\ SpawnDiscover(Head(effects).source) /\ UNCHANGED dbVars
    <3>1. Head(effects) = effects[1] /\ 1 \in DOMAIN effects /\ Head(effects).source \in Scopes
      BY <2>1, EffectFacts DEF Effects
    <3>2. Ordered # {}
      BY <2>4, <3>1 DEF Ordered
    <3>3. PICK d \in Tasks : /\ disc'[d].pc = "list" /\ disc'[d].todo = {}
                             /\ \A e \in Tasks \ {d} : disc'[e] = disc[e]
      BY <1>1, <2>4, <3>1, <3>2, SpawnFacts
    <3>. QED  BY <1>1, <2>2, <2>4, <3>3, MarkKept DEF dbVars
  <2>5. CASE Persist(Head(effects).ids, Head(effects).on)
    <3>. DEFINE S == Head(effects).ids
                on == Head(effects).on
    <3>1. S \in SUBSET Ids /\ on \in BOOLEAN /\ Persist(S, on)
      BY <2>1, <2>5 DEF Effects
    <3>. HIDE DEF S, on
    <3>2. /\ UNCHANGED <<disc, loader>>
          /\ \/ /\ \A k \in S \cap Stored : store'[k] = [store[k] EXCEPT !.selected = on]
                /\ \A k \in Ids : k \notin S \cap Stored => store'[k] = store[k]
             \/ store' = store
      BY <1>1, <3>1, PersistFacts
    <3>3. ASSUME NEW k \in Ids PROVE store'[k].deleted = store[k].deleted
      <4>1. store[k] \in Rows
        BY <1>1 DEF TableType
      <4>2. store'[k] = store[k] \/ store'[k] = [store[k] EXCEPT !.selected = on]
        BY <3>2
      <4>. QED  BY <4>1, <4>2 DEF Rows
    <3>4. \A k \in steady \cap Mine : k \in Ids
      BY ConstantFacts
    <3>. QED  BY <1>1, <2>2, <3>2, <3>3, <3>4, MarkKept
  <2>. QED  BY <1>6, <2>3, <2>4, <2>5, ExecuteFacts
<1>7. ASSUME NEW d \in Tasks, Discover(d) PROVE MarkInv'
  <2>1. /\ disc' \in [Tasks -> Discs] /\ \A e \in Tasks \ {d} : disc'[e] = disc[e]
        /\ github' = github /\ steady' = steady /\ steady' \subseteq steady
    BY <1>7, DiscoverFacts DEF worldVars
  <2>2. CASE Failed(d) \/ SendLoaded(d) \/ SendDiscovered(d)
    <3>1. store' = store /\ disc'[d].pc \notin {"orgs", "load"} /\ disc'[d].todo = {}
      BY <2>2, FailedFacts, SendLoadedFacts, SendDiscoveredFacts DEF dbVars
    <3>. QED  BY <1>1, <2>1, <3>1, MarkKept
  <2>3. CASE Think(d)
    <3>1. store' = store
      BY <2>3, ThinkFacts DEF dbVars
    <3>2. ASSUME Cardinality(Mine) <= PageSize, NEW e \in Tasks
          PROVE  /\ disc'[e].pc = "orgs" => disc'[e].source = "All"
                 /\ disc'[e].pc \in {"orgs", "load"} /\ disc'[e].source # "Starred" =>
                      steady \cap Mine \subseteq IdsOf(disc'[e].list)
                 /\ disc'[e].todo \cap (steady \cap Mine) = {}
      <4>1. CASE e # d
        BY <2>1, <3>2, <4>1 DEF MarkInv
      <4>2. CASE e = d
        <5>1. steady \cap Mine \subseteq IdsOf(Listing(Mine))
          BY <1>1, <3>2, ConstantFacts, ListingFacts
        <5>2. CASE /\ disc'[d].todo = {}
                   /\ disc'[d].pc = IF disc[d].source = "All" THEN "orgs" ELSE "load"
                   /\ disc'[d].list = Listing(IF disc[d].source = "Starred" THEN Starred ELSE Mine)
                   /\ disc'[d].source = disc[d].source
          BY <4>2, <5>1, <5>2
        <5>3. CASE /\ disc[d].pc = "orgs" /\ disc'[d].todo = {} /\ disc'[d].pc = "load"
                   /\ IdsOf(disc[d].list) \subseteq IdsOf(disc'[d].list)
                   /\ disc'[d].source = disc[d].source
          BY <3>2, <4>2, <5>3 DEF MarkInv
        <5>4. CASE /\ disc[d].pc = "load" /\ disc'[d].pc = "mark"
                   /\ disc'[d].todo = IF disc[d].source # "Starred" THEN Stored \ IdsOf(disc[d].list) ELSE {}
                   /\ disc'[d].source = disc[d].source
          BY <3>2, <4>2, <5>4 DEF MarkInv
        <5>. QED  BY <2>3, <5>2, <5>3, <5>4, ThinkFacts
      <4>. QED  BY <4>1, <4>2
    <3>3. FoundIsNotMarked'
      BY <2>1, <3>1 DEF MarkInv, FoundIsNotMarked
    <3>. QED  BY <1>1, <2>1, <3>2, <3>3 DEF MarkInv
  <2>4. CASE Mark(d)
    <3>1. PICK i \in disc[d].todo :
            /\ i \in Stored /\ disc'[d].pc = "mark" /\ disc'[d].todo = disc[d].todo \ {i}
            /\ \/ store' = store
               \/ \A k \in Ids \ {i} : store'[k] = store[k]
      BY <2>4, MarkFacts
    <3>2. ASSUME Cardinality(Mine) <= PageSize, NEW k \in steady \cap Mine PROVE store'[k] = store[k]
      <4>1. k # i /\ k \in Ids
        BY <3>2, ConstantFacts DEF MarkInv
      <4>. QED  BY <3>1, <4>1
    <3>. QED  BY <1>1, <2>1, <3>1, <3>2, MarkKept
  <2>5. CASE Upsert(d)
    <3>1. CASE Failed(d)
      BY <2>2, <3>1
    <3>2. CASE /\ ~Clashes(disc[d].list)
               /\ store' = [i \in Ids |-> IF i \in IdsOf(disc[d].list) THEN RowAfter(disc[d].list, i) ELSE store[i]]
               /\ disc'[d].pc = "loaded" /\ disc'[d].todo = {}
      <4>1. /\ \A i \in IdsOf(disc[d].list) : store'[i] = RowAfter(disc[d].list, i)
            /\ \A i \in Ids \ IdsOf(disc[d].list) : store'[i] = store[i]
        BY <1>1, <3>2, UpsertFacts
      <4>2. \A i \in IdsOf(disc[d].list) : ~RowAfter(disc[d].list, i).deleted
        BY <1>1, RowAfterFacts
      <4>3. \A i \in steady \cap Mine : store'[i].deleted => store[i].deleted
        BY <4>1, <4>2, ConstantFacts
      <4>. QED  BY <1>1, <2>1, <3>2, <4>3, MarkKept
    <3>. QED  BY <2>5, <3>1, <3>2, UpsertCases
  <2>. QED  BY <1>7, <2>2, <2>3, <2>4, <2>5, DiscoverCases
<1>. QED  BY <1>2, <1>3, <1>4, <1>5, <1>6, <1>7, NextCases

----------------------------------------------------------------------------
(* The spinner *)

\* What the spinner waits for.
Awaited ==
  \/ Ordered # {}
  \/ \E d \in Started : disc[d].pc # "done"
  \/ \E k \in DOMAIN appRx : appRx[k].kind \in {"Discovered", "Failed"}

\* An answer stays in the channel while others come, and one that is sent is an
\* answer.
LEMMA AnswerStays ==
  ASSUME appRx \in Seq(Events), NEW e \in Events, appRx' = Append(appRx, e)
  PROVE  /\ (\E k \in DOMAIN appRx : appRx[k].kind \in {"Discovered", "Failed"}) =>
              \E k \in DOMAIN appRx' : appRx'[k].kind \in {"Discovered", "Failed"}
         /\ e.kind \in {"Discovered", "Failed"} => Awaited'
<1>1. /\ \A k \in DOMAIN appRx : k \in DOMAIN appRx' /\ appRx'[k] = appRx[k]
      /\ Len(appRx) + 1 \in DOMAIN appRx' /\ appRx'[Len(appRx) + 1] = e
  BY SendFacts
<1>. QED  BY <1>1 DEF Awaited

LEMMA SpinnerKept ==
  ASSUME SpinnerHasTask, loading' => loading, Awaited => Awaited'
  PROVE  SpinnerHasTask'
BY DEF SpinnerHasTask, Awaited

LEMMA SpinnerStep ==
  ASSUME TypeOK, OrderInv, ListsInv, StoreInv, SpinnerHasTask, [Next]_vars
  PROVE  SpinnerHasTask'
<1>1. appRx \in Seq(Events) /\ disc \in [Tasks -> Discs] /\ effects \in Seq(Effects)
  BY TypeFacts
<1>2. ASSUME effects' = effects, disc' = disc, appRx' = appRx PROVE Awaited => Awaited'
  BY <1>2 DEF Awaited, Ordered, Started
<1>3. CASE UNCHANGED vars \/ Drained \/ Tick \/ DismissModal \/ ReadStored
           \/ (\E g \in Githubs : GithubChange(g)) \/ \E i \in Synced : RecordCloned(i)
  <2>1. loading' = loading /\ effects' = effects /\ disc' = disc /\ appRx' = appRx
    BY <1>3 DEF vars, screenVars, Drained, Tick, DismissModal, ReadStored, GithubChange, RecordCloned
  <2>. QED  BY <1>2, <2>1, SpinnerKept
<1>4. CASE DrainOne
  <2>1. /\ appRx # <<>> /\ appRx' = Tail(appRx) /\ Head(appRx) = appRx[1]
        /\ loading' = (Head(appRx).kind = "Loaded" /\ loading)
        /\ effects' = effects /\ disc' = disc
    BY <1>4, DrainFacts
  <2>2. /\ DOMAIN appRx = 1 .. Len(appRx) /\ Len(appRx) \in Nat /\ DOMAIN appRx' = 1 .. Len(appRx) - 1
        /\ \A k \in DOMAIN appRx' : appRx'[k] = appRx[k + 1]
    BY <1>1, <2>1, ReceiveFacts
  <2>3. CASE Head(appRx).kind = "Loaded"
    <3>1. ASSUME NEW k \in DOMAIN appRx, appRx[k].kind \in {"Discovered", "Failed"}
          PROVE  k - 1 \in DOMAIN appRx' /\ appRx'[k - 1] = appRx[k]
      BY <2>1, <2>2, <2>3, <3>1
    <3>2. Awaited => Awaited'
      BY <2>1, <3>1 DEF Awaited, Ordered, Started
    <3>. QED  BY <2>1, <3>2, SpinnerKept
  <2>4. CASE Head(appRx).kind # "Loaded"
    BY <2>1, <2>4 DEF SpinnerHasTask
  <2>. QED  BY <2>3, <2>4
<1>5. CASE Execute
  <2>1. /\ effects # <<>> /\ effects' = Tail(effects) /\ loading' = loading /\ appRx' = appRx
    BY <1>5, ExecuteFacts
  <2>2. /\ Head(effects) = effects[1] /\ 1 \in DOMAIN effects /\ Head(effects) \in Effects
        /\ DOMAIN effects = 1 .. Len(effects) /\ Len(effects) \in Nat /\ DOMAIN effects' = 1 .. Len(effects) - 1
        /\ \A k \in DOMAIN effects' : effects'[k] = effects[k + 1]
    BY <1>1, <2>1, EffectFacts
  <2>3. CASE Head(effects).kind # "Discover" /\ disc' = disc
    <3>1. ASSUME NEW k \in Ordered PROVE k - 1 \in Ordered'
      BY <2>2, <2>3 DEF Ordered
    <3>2. Awaited => Awaited'
      BY <2>1, <2>3, <3>1 DEF Awaited, Started
    <3>. QED  BY <2>1, <3>2, SpinnerKept
  <2>4. CASE Head(effects).kind = "Discover" /\ SpawnDiscover(Head(effects).source)
    <3>1. Ordered # {} /\ Head(effects).source \in Scopes
      BY <2>2, <2>4 DEF Ordered, Effects
    <3>2. PICK d \in Tasks : disc'[d].pc = "list"
      BY <1>1, <2>4, <3>1, SpawnFacts
    <3>3. Awaited'
      BY <3>2 DEF Awaited, Started
    <3>. QED  BY <2>1, <3>3, SpinnerKept
  <2>5. \/ Head(effects).kind # "Discover" /\ disc' = disc
        \/ Head(effects).kind = "Discover" /\ SpawnDiscover(Head(effects).source)
    <3>1. \/ Head(effects).kind = "Load" /\ disc' = disc
          \/ Head(effects).kind = "Discover" /\ SpawnDiscover(Head(effects).source)
          \/ Head(effects).kind = "Select" /\ disc' = disc
      BY <1>5, ExecuteFacts
    <3>. QED  BY <3>1
  <2>. QED  BY <2>3, <2>4, <2>5
<1>6. CASE \E S \in SUBSET IdsOf(repos), on \in BOOLEAN : S \subseteq Ids /\ Selects(S, on)
  <2>1. loading' = loading /\ disc' = disc /\ appRx' = appRx /\ effects = <<>>
    BY <1>6 DEF Selects
  <2>2. Ordered = {}
    BY <2>1 DEF Ordered
  <2>3. Awaited => Awaited'
    BY <2>1, <2>2 DEF Awaited, Started
  <2>. QED  BY <2>1, <2>3, SpinnerKept
<1>7. CASE \E source \in Scopes : Refreshes(source)
  <2>1. PICK source \in Scopes : Refreshes(source)
    BY <1>7
  <2>2. effects' = <<Effect("Discover", source, {}, TRUE)>>
    BY <2>1 DEF Refreshes
  <2>3. 1 \in Ordered'
    BY <2>2 DEF Ordered, Effect
  <2>. QED  BY <2>3 DEF SpinnerHasTask
<1>8. CASE SendStored
  <2>1. /\ Event("Loaded", loader.entries) \in Events /\ appRx' = Append(appRx, Event("Loaded", loader.entries))
        /\ loading' = loading /\ effects' = effects /\ disc' = disc
    BY <1>8, SendStoredFacts DEF screenVars
  <2>2. Awaited => Awaited'
    BY <1>1, <2>1, AnswerStays DEF Awaited, Ordered, Started
  <2>. QED  BY <2>1, <2>2, SpinnerKept
<1>9. ASSUME NEW d \in Tasks, Discover(d) PROVE SpinnerHasTask'
  <2>1. /\ disc[d].pc \notin {"none", "done"} /\ disc'[d].pc # "none" /\ disc' \in [Tasks -> Discs]
        /\ \A e \in Tasks \ {d} : disc'[e] = disc[e]
        /\ loading' = loading
    BY <1>9, DiscoverFacts DEF screenVars
  <2>2. CASE disc'[d].pc # "done"
    BY <2>1, <2>2, SpinnerKept DEF Awaited, Started
  <2>3. CASE Failed(d)
    <3>1. Awaited'
      BY <1>1, <2>3, FailedFacts, AnswerStays DEF Event
    <3>. QED  BY <2>1, <3>1, SpinnerKept
  <2>4. CASE SendDiscovered(d)
    <3>1. Awaited'
      BY <1>1, <2>4, SendDiscoveredFacts, AnswerStays DEF Event
    <3>. QED  BY <2>1, <3>1, SpinnerKept
  <2>5. CASE Think(d)
    BY <2>2, <2>5, ThinkFacts
  <2>6. CASE Mark(d)
    BY <2>2, <2>6, MarkFacts
  <2>7. CASE Upsert(d)
    BY <2>2, <2>3, <2>7, UpsertCases
  <2>8. CASE SendLoaded(d)
    BY <2>2, <2>8, SendLoadedFacts
  <2>. QED  BY <1>9, <2>3, <2>4, <2>5, <2>6, <2>7, <2>8, DiscoverCases
<1>. QED  BY <1>3, <1>4, <1>5, <1>6, <1>7, <1>8, <1>9, NextCases

----------------------------------------------------------------------------
(* The dialogs *)

\* What is counted is finite, and there are no more tasks than MaxTasks.
LEMMA CountAny ==
  /\ \A s \in Seq(Events) : LET F == {k \in DOMAIN s : s[k].kind = "Failed"}
                            IN  IsFiniteSet(F) /\ Cardinality(F) \in Nat
  /\ \A T \in SUBSET Tasks : IsFiniteSet(T) /\ Cardinality(T) \in 0 .. MaxTasks
<1>1. ASSUME NEW s \in Seq(Events)
      PROVE  LET F == {k \in DOMAIN s : s[k].kind = "Failed"} IN IsFiniteSet(F) /\ Cardinality(F) \in Nat
  <2>1. IsFiniteSet(1 .. Len(s)) /\ {k \in DOMAIN s : s[k].kind = "Failed"} \in SUBSET (1 .. Len(s))
    BY FS_Interval
  <2>. QED  BY <2>1, FS_Subset, FS_CardinalityType
<1>2. ASSUME NEW T \in SUBSET Tasks PROVE IsFiniteSet(T) /\ Cardinality(T) \in 0 .. MaxTasks
  <2>1. MaxTasks \in Nat /\ 1 \in Int /\ MaxTasks \in Int
    BY ConstantFacts
  <2>2. IsFiniteSet(Tasks) /\ Cardinality(Tasks) = MaxTasks
    BY <2>1, FS_Interval DEF Tasks
  <2>3. IsFiniteSet(T) /\ Cardinality(T) <= Cardinality(Tasks) /\ Cardinality(T) \in Nat
    BY <2>2, FS_Subset, FS_CardinalityType
  <2>. QED  BY <2>1, <2>2, <2>3
<1>. QED  BY <1>1, <1>2

LEMMA CountFacts ==
  ASSUME appRx \in Seq(Events)
  PROVE  /\ IsFiniteSet(Failures) /\ Cardinality(Failures) \in Nat
         /\ IsFiniteSet(Over) /\ Cardinality(Over) \in 0 .. MaxTasks
BY CountAny DEF Failures, Over

\* The failures that are left after one event has been taken.
LEMMA FewerFailures ==
  ASSUME appRx \in Seq(Events), appRx # <<>>, appRx' = Tail(appRx)
  PROVE  Cardinality(Failures') <= IF Head(appRx).kind = "Failed" THEN Cardinality(Failures) - 1
                                   ELSE Cardinality(Failures)
<1>1. /\ Head(appRx) = appRx[1] /\ 1 \in DOMAIN appRx /\ appRx' \in Seq(Events)
      /\ DOMAIN appRx' = 1 .. Len(appRx) - 1 /\ Len(appRx) \in Nat
      /\ \A k \in DOMAIN appRx' : k + 1 \in DOMAIN appRx /\ appRx'[k] = appRx[k + 1]
  BY ReceiveFacts
<1>. DEFINE up == [k \in Failures' |-> k + 1]
<1>2. IsFiniteSet(Failures) /\ Cardinality(Failures) \in Nat
  BY CountFacts
<1>3. IsFiniteSet(Failures')
  <2>1. IsFiniteSet(1 .. Len(appRx) - 1)
    BY <1>1, FS_Interval
  <2>2. Failures' \in SUBSET (1 .. Len(appRx) - 1)
    BY <1>1 DEF Failures
  <2>. QED  BY <2>1, <2>2, FS_Subset
<1>4. up \in [Failures' -> Failures \ {1}]
  BY <1>1 DEF Failures
<1>5. \A j, k \in Failures' : up[j] = up[k] => j = k
  BY <1>1 DEF Failures
<1>6. /\ IsFiniteSet(Failures \ {1})
      /\ Cardinality(Failures \ {1}) = IF 1 \in Failures THEN Cardinality(Failures) - 1 ELSE Cardinality(Failures)
  BY <1>2, FS_RemoveElement
<1>7. 1 \in Failures <=> Head(appRx).kind = "Failed"
  BY <1>1 DEF Failures
<1>. HIDE DEF up
<1>8. ~(Cardinality(Failures \ {1}) < Cardinality(Failures'))
  BY <1>3, <1>4, <1>5, <1>6, FS_PigeonHole
<1>9. Cardinality(Failures') \in Nat /\ Cardinality(Failures \ {1}) \in Nat
  BY <1>3, <1>6, FS_CardinalityType
<1>. QED  BY <1>2, <1>6, <1>7, <1>8, <1>9

\* A failure that is sent, or anything else.
LEMMA MoreFailures ==
  ASSUME appRx \in Seq(Events), NEW e \in Events, appRx' = Append(appRx, e)
  PROVE  Cardinality(Failures') = IF e.kind = "Failed" THEN Cardinality(Failures) + 1 ELSE Cardinality(Failures)
<1>1. /\ DOMAIN appRx = 1 .. Len(appRx) /\ Len(appRx) \in Nat
      /\ DOMAIN appRx' = 1 .. Len(appRx) + 1
      /\ \A k \in DOMAIN appRx : k \in DOMAIN appRx' /\ appRx'[k] = appRx[k]
      /\ Len(appRx) + 1 \in DOMAIN appRx' /\ appRx'[Len(appRx) + 1] = e
  BY SendFacts
<1>2. Len(appRx) + 1 \notin Failures
  BY <1>1 DEF Failures
<1>3. Failures' = IF e.kind = "Failed" THEN Failures \cup {Len(appRx) + 1} ELSE Failures
  BY <1>1 DEF Failures
<1>. QED  BY <1>2, <1>3, CountFacts, FS_AddElement

LEMMA ModalStep ==
  ASSUME TypeOK, OrderInv, ListsInv, StoreInv, ModalInv, [Next]_vars
  PROVE  ModalInv' /\ modals' \in Nat
<1>1. /\ appRx \in Seq(Events) /\ disc \in [Tasks -> Discs] /\ effects \in Seq(Effects)
      /\ modals \in Nat /\ Cardinality(Failures) \in Nat
      /\ IsFiniteSet(Over) /\ Cardinality(Over) \in Nat
  BY TypeFacts, CountFacts
<1>2. ASSUME modals' = modals, appRx' = appRx, \A d \in Tasks : disc'[d].pc = "done" <=> disc[d].pc = "done"
      PROVE  ModalInv' /\ modals' \in Nat
  <2>1. Failures' = Failures /\ Over' = Over
    BY <1>2 DEF Failures, Over
  <2>. QED  BY <1>1, <1>2, <2>1 DEF ModalInv
<1>3. CASE UNCHANGED vars \/ Drained \/ Tick \/ ReadStored
           \/ (\E g \in Githubs : GithubChange(g)) \/ \E i \in Synced : RecordCloned(i)
  <2>1. modals' = modals /\ disc' = disc /\ appRx' = appRx
    BY <1>3 DEF vars, screenVars, Drained, Tick, ReadStored, GithubChange, RecordCloned
  <2>. QED  BY <1>2, <2>1
<1>4. CASE DismissModal
  <2>1. modals' = modals - 1 /\ modals > 0 /\ disc' = disc /\ appRx' = appRx
    BY <1>4 DEF DismissModal
  <2>2. Failures' = Failures /\ Over' = Over
    BY <2>1 DEF Failures, Over
  <2>. QED  BY <1>1, <2>1, <2>2 DEF ModalInv
<1>5. CASE DrainOne
  <2>1. /\ appRx # <<>> /\ appRx' = Tail(appRx) /\ disc' = disc
        /\ modals' = IF Head(appRx).kind = "Failed" THEN modals + 1 ELSE modals
    BY <1>5, DrainFacts
  <2>2. Cardinality(Failures') <= IF Head(appRx).kind = "Failed" THEN Cardinality(Failures) - 1
                                  ELSE Cardinality(Failures)
    BY <1>1, <2>1, FewerFailures
  <2>3. Cardinality(Failures') \in Nat
    <3>1. appRx' \in Seq(Events)
      BY <1>1, <2>1, ReceiveFacts
    <3>. QED  BY <3>1, CountAny DEF Failures
  <2>4. Over' = Over
    BY <2>1 DEF Over
  <2>. QED  BY <1>1, <2>1, <2>2, <2>3, <2>4 DEF ModalInv
<1>6. CASE Execute
  <2>1. modals' = modals /\ appRx' = appRx /\ effects # <<>> /\ effects' = Tail(effects)
    BY <1>6, ExecuteFacts
  <2>2. Head(effects) = effects[1] /\ 1 \in DOMAIN effects /\ Head(effects) \in Effects
    BY <1>1, <2>1, EffectFacts
  <2>3. CASE disc' = disc
    BY <1>2, <2>1, <2>3
  <2>4. CASE Head(effects).kind = "Discover" /\ SpawnDiscover(Head(effects).source)
    <3>1. Ordered # {} /\ Head(effects).source \in Scopes
      BY <2>2, <2>4 DEF Ordered, Effects
    <3>2. PICK d \in Tasks : /\ disc[d].pc = "none" /\ disc'[d].pc = "list"
                             /\ \A e \in Tasks \ {d} : disc'[e] = disc[e]
      BY <1>1, <2>4, <3>1, SpawnFacts
    <3>3. \A e \in Tasks : disc'[e].pc = "done" <=> disc[e].pc = "done"
      BY <3>2
    <3>. QED  BY <1>2, <2>1, <3>3
  <2>. QED  BY <1>6, <2>3, <2>4, ExecuteFacts
<1>7. CASE (\E S \in SUBSET IdsOf(repos), on \in BOOLEAN : S \subseteq Ids /\ Selects(S, on))
           \/ \E source \in Scopes : Refreshes(source)
  <2>1. modals' = modals /\ disc' = disc /\ appRx' = appRx
    BY <1>7 DEF Selects, Refreshes
  <2>. QED  BY <1>2, <2>1
<1>8. CASE SendStored
  <2>1. /\ Event("Loaded", loader.entries) \in Events /\ appRx' = Append(appRx, Event("Loaded", loader.entries))
        /\ modals' = modals /\ disc' = disc
    BY <1>8, SendStoredFacts DEF screenVars
  <2>2. Cardinality(Failures') = Cardinality(Failures)
    BY <1>1, <2>1, MoreFailures DEF Event
  <2>3. Over' = Over
    BY <2>1 DEF Over
  <2>. QED  BY <1>1, <2>1, <2>2, <2>3 DEF ModalInv
<1>9. ASSUME NEW d \in Tasks, Discover(d) PROVE ModalInv' /\ modals' \in Nat
  <2>1. /\ disc[d].pc \notin {"none", "done"} /\ disc' \in [Tasks -> Discs]
        /\ \A e \in Tasks \ {d} : disc'[e] = disc[e]
        /\ modals' = modals
    BY <1>9, DiscoverFacts DEF screenVars
  <2>2. CASE disc'[d].pc # "done" /\ appRx' = appRx
    <3>1. \A e \in Tasks : disc'[e].pc = "done" <=> disc[e].pc = "done"
      BY <2>1, <2>2
    <3>. QED  BY <1>2, <2>1, <2>2, <3>1
  <2>3. ASSUME disc'[d].pc = "done" PROVE Cardinality(Over') = Cardinality(Over) + 1
    <3>1. Over' = Over \cup {d} /\ d \notin Over
      BY <2>1, <2>3 DEF Over
    <3>. QED  BY <1>1, <3>1, FS_AddElement
  <2>4. CASE Failed(d)
    <3>1. disc'[d].pc = "done" /\ Event("Failed", <<>>) \in Events /\ appRx' = Append(appRx, Event("Failed", <<>>))
      BY <2>4, FailedFacts
    <3>2. Cardinality(Failures') = Cardinality(Failures) + 1
      BY <1>1, <3>1, MoreFailures DEF Event
    <3>. QED  BY <1>1, <2>1, <2>3, <3>1, <3>2 DEF ModalInv
  <2>5. CASE SendDiscovered(d)
    <3>1. /\ disc'[d].pc = "done" /\ Event("Discovered", <<>>) \in Events
          /\ appRx' = Append(appRx, Event("Discovered", <<>>))
      BY <2>5, SendDiscoveredFacts
    <3>2. Cardinality(Failures') = Cardinality(Failures)
      BY <1>1, <3>1, MoreFailures DEF Event
    <3>. QED  BY <1>1, <2>1, <2>3, <3>1, <3>2 DEF ModalInv
  <2>6. CASE SendLoaded(d)
    <3>1. /\ disc'[d].pc = "discovered" /\ Event("Loaded", disc[d].list) \in Events
          /\ appRx' = Append(appRx, Event("Loaded", disc[d].list))
      BY <2>6, SendLoadedFacts
    <3>2. Cardinality(Failures') = Cardinality(Failures)
      BY <1>1, <3>1, MoreFailures DEF Event
    <3>3. Over' = Over
      BY <2>1, <3>1 DEF Over
    <3>. QED  BY <1>1, <2>1, <3>2, <3>3 DEF ModalInv
  <2>7. CASE Think(d)
    BY <2>2, <2>7, ThinkFacts
  <2>8. CASE Mark(d)
    BY <2>2, <2>8, MarkFacts
  <2>9. CASE Upsert(d)
    BY <2>2, <2>4, <2>9, UpsertCases
  <2>. QED  BY <1>9, <2>4, <2>5, <2>6, <2>7, <2>8, <2>9, DiscoverCases
<1>. QED  BY <1>3, <1>4, <1>5, <1>6, <1>7, <1>8, <1>9, NextCases

----------------------------------------------------------------------------
(* The types *)

LEMMA TypeStep ==
  ASSUME TypeOK, OrderInv, ListsInv, StoreInv, ModalInv, [Next]_vars
  PROVE  TypeOK'
<1>1. /\ github \in [Ids -> Names \cup {NoName}] /\ steady \subseteq Ids /\ changes \in 0 .. MaxChanges
      /\ TableType /\ UniqueNames /\ unsaved \subseteq Ids /\ chosen \in [Ids -> BOOLEAN]
      /\ disc \in [Tasks -> Discs] /\ loader \in Loaders /\ stage \in {"drain", "effects", "input"}
      /\ repos \in Seq(Entry) /\ loading \in BOOLEAN /\ modals \in 0 .. MaxTasks
      /\ effects \in Seq(Effects) /\ appRx \in Seq(Events) /\ keys \in 0 .. MaxKeys
  BY TypeFacts
<1>. DEFINE WorldType == /\ github \in [Ids -> Names \cup {NoName}] /\ steady \subseteq Ids
                         /\ changes \in 0 .. MaxChanges
            TaskType == disc \in [Tasks -> Discs] /\ loader \in Loaders /\ appRx \in Seq(Events)
            LoopType == /\ unsaved \subseteq Ids /\ stage \in {"drain", "effects", "input"}
                        /\ effects \in Seq(Effects)
            ScreenType == /\ chosen \in [Ids -> BOOLEAN] /\ repos \in Seq(Entry) /\ loading \in BOOLEAN
                          /\ keys \in 0 .. MaxKeys
<1>2. SUFFICES WorldType' /\ TaskType' /\ LoopType' /\ ScreenType'
  <2>1. SUFFICES ASSUME WorldType' /\ TaskType' /\ LoopType' /\ ScreenType' PROVE TypeOK'
    OBVIOUS
  <2>2. TableType' /\ UniqueNames'
    BY TableStep
  <2>3. modals' \in 0 .. MaxTasks
    <3>1. ModalInv' /\ modals' \in Nat
      BY ModalStep
    <3>2. Cardinality(Failures') \in Nat /\ Cardinality(Over') \in 0 .. MaxTasks
      BY <2>1, CountAny DEF Failures, Over
    <3>. QED  BY <3>1, <3>2, ConstantFacts DEF ModalInv
  <2>. QED  BY <2>1, <2>2, <2>3 DEF TypeOK, TableType, UniqueNames, Rows, Statuses, Discs, DiscPcs, Scopes,
                                    Loaders, Effects, Events
<1>3. ASSUME UNCHANGED worldVars PROVE WorldType'
  BY <1>1, <1>3 DEF worldVars
<1>4. ASSUME UNCHANGED <<disc, loader, appRx>> PROVE TaskType'
  BY <1>1, <1>4
<1>5. ASSUME UNCHANGED <<dbVars, screenVars>> PROVE LoopType' /\ ScreenType'
  BY <1>1, <1>5 DEF dbVars, screenVars
<1>6. CASE UNCHANGED vars \/ Drained \/ Tick \/ DismissModal
  <2>1. UNCHANGED worldVars /\ UNCHANGED <<disc, loader, appRx>>
    BY <1>6 DEF vars, Drained, Tick, DismissModal
  <2>2. /\ unsaved' = unsaved /\ effects' = effects /\ chosen' = chosen /\ repos' = repos /\ loading' = loading
        /\ keys' = keys /\ stage' \in {"drain", "effects", "input"}
    BY <1>1, <1>6 DEF vars, dbVars, screenVars, Drained, AfterEffects, Tick, DismissModal
  <2>. QED  BY <1>1, <1>3, <1>4, <2>1, <2>2
<1>7. CASE DrainOne
  <2>1. /\ appRx # <<>> /\ appRx' = Tail(appRx) /\ Head(appRx) \in Events
        /\ repos' = IF Head(appRx).kind = "Loaded" THEN Head(appRx).entries ELSE repos
        /\ loading' = (Head(appRx).kind = "Loaded" /\ loading)
        /\ UNCHANGED <<worldVars, dbVars, stage, effects, chosen, keys, disc, loader>>
    BY <1>7, DrainFacts
  <2>2. appRx' \in Seq(Events)
    BY <1>1, <2>1, ReceiveFacts
  <2>3. repos' \in Seq(Entry)
    BY <1>1, <2>1 DEF Events
  <2>4. loading' \in BOOLEAN
    BY <1>1, <2>1
  <2>. QED  BY <1>1, <1>3, <2>1, <2>2, <2>3, <2>4 DEF dbVars
<1>8. CASE Execute
  <2>1. /\ effects # <<>> /\ effects' = Tail(effects) /\ stage' = IF effects' = <<>> THEN "input" ELSE "effects"
        /\ UNCHANGED <<worldVars, repos, loading, modals, chosen, keys, appRx>>
        /\ Head(effects) \in Effects
    BY <1>8, ExecuteFacts
  <2>2. Head(effects) = effects[1] /\ 1 \in DOMAIN effects /\ effects' \in Seq(Effects)
    BY <1>1, <2>1, EffectFacts
  <2>3. CASE loader' \in Loaders /\ UNCHANGED <<dbVars, disc>>
    BY <1>1, <1>3, <2>1, <2>2, <2>3 DEF dbVars
  <2>4. CASE Head(effects).kind = "Discover" /\ SpawnDiscover(Head(effects).source) /\ UNCHANGED <<dbVars, loader>>
    <3>1. Ordered # {} /\ Head(effects).source \in Scopes
      BY <2>1, <2>2, <2>4 DEF Ordered, Effects
    <3>2. disc' \in [Tasks -> Discs]
      BY <1>1, <2>4, <3>1, SpawnFacts
    <3>. QED  BY <1>1, <1>3, <2>1, <2>2, <2>4, <3>2 DEF dbVars
  <2>5. CASE Persist(Head(effects).ids, Head(effects).on) /\ UNCHANGED <<disc, loader>>
    <3>1. Head(effects).ids \in SUBSET Ids
      BY <2>1 DEF Effects
    <3>2. unsaved' \subseteq Ids
      BY <1>1, <2>5, <3>1 DEF Persist
    <3>. QED  BY <1>1, <1>3, <2>1, <2>2, <2>5, <3>2
  <2>. QED  BY <1>8, <2>3, <2>4, <2>5, ExecuteFacts
<1>9. CASE \E S \in SUBSET IdsOf(repos), on \in BOOLEAN : S \subseteq Ids /\ Selects(S, on)
  <2>1. PICK S \in SUBSET IdsOf(repos), on \in BOOLEAN : S \subseteq Ids /\ Selects(S, on)
    BY <1>9
  <2>2. /\ effects' = <<Effect("Select", "MyRepos", S, on)>> /\ stage' = "drain" /\ repos' \in Seq(Entry)
        /\ keys \in 0 .. MaxKeys - 1 /\ keys' = keys + 1 /\ chosen' \in [Ids -> BOOLEAN]
        /\ UNCHANGED <<worldVars, dbVars, loading, disc, loader, appRx>>
    BY <2>1 DEF Selects
  <2>3. Effect("Select", "MyRepos", S, on) \in Effects
    BY <2>1 DEF Effect, Effects, Scopes
  <2>4. effects' \in Seq(Effects)
    BY <2>2, <2>3
  <2>5. keys' \in 0 .. MaxKeys
    BY <2>2, ConstantFacts
  <2>. QED  BY <1>1, <1>3, <1>4, <2>2, <2>4, <2>5 DEF dbVars
<1>10. CASE \E source \in Scopes : Refreshes(source)
  <2>1. PICK source \in Scopes : Refreshes(source)
    BY <1>10
  <2>2. /\ effects' = <<Effect("Discover", source, {}, TRUE)>> /\ stage' = "drain" /\ loading' = TRUE
        /\ UNCHANGED <<worldVars, dbVars, repos, chosen, keys, disc, loader, appRx>>
    BY <2>1 DEF Refreshes
  <2>3. PICK e \in Effects : effects' = <<e>>
    BY <2>2 DEF Effect, Effects
  <2>4. effects' \in Seq(Effects)
    BY <2>3
  <2>. QED  BY <1>1, <1>3, <1>4, <2>2, <2>4 DEF dbVars
<1>11. ASSUME NEW d \in Tasks, Discover(d) PROVE WorldType' /\ TaskType' /\ LoopType' /\ ScreenType'
  <2>1. /\ disc' \in [Tasks -> Discs] /\ UNCHANGED <<worldVars, screenVars, loader>>
        /\ appRx' = appRx \/ \E e \in Events : appRx' = Append(appRx, e)
    BY <1>11, DiscoverFacts
  <2>2. appRx' \in Seq(Events)
    BY <1>1, <2>1, SendFacts
  <2>3. unsaved' = unsaved
    BY <1>11, DiscoverKeepsSelection
  <2>. QED  BY <1>1, <1>3, <2>1, <2>2, <2>3 DEF screenVars
<1>12. CASE ReadStored
  BY <1>1, <1>3, <1>5, <1>12, ReadStoredFacts
<1>13. CASE SendStored
  <2>1. /\ loader' \in Loaders /\ UNCHANGED <<worldVars, dbVars, screenVars, disc>>
        /\ Event("Loaded", loader.entries) \in Events /\ appRx' = Append(appRx, Event("Loaded", loader.entries))
    BY <1>13, SendStoredFacts
  <2>2. appRx' \in Seq(Events)
    BY <1>1, <2>1, SendFacts
  <2>. QED  BY <1>1, <1>3, <1>5, <2>1, <2>2
<1>14. CASE \E g \in Githubs : GithubChange(g)
  <2>1. PICK g \in Githubs : GithubChange(g)
    BY <1>14
  <2>2. /\ changes < MaxChanges /\ changes' = changes + 1 /\ github' = g
        /\ steady' = {i \in steady : g[i] # NoName}
        /\ UNCHANGED <<dbVars, screenVars, disc, loader, appRx>>
    BY <2>1 DEF GithubChange
  <2>3. github' \in [Ids -> Names \cup {NoName}]
    BY <2>1, <2>2, GithubsAssumption
  <2>4. steady' \subseteq Ids
    BY <1>1, <2>2
  <2>5. changes' \in 0 .. MaxChanges
    BY <1>1, <2>2, ConstantFacts
  <2>. QED  BY <1>4, <1>5, <2>2, <2>3, <2>4, <2>5
<1>15. CASE \E i \in Synced : RecordCloned(i)
  <2>1. UNCHANGED <<worldVars, unsaved, screenVars, disc, loader, appRx>>
    BY <1>1, <1>15, ClonedFacts
  <2>. QED  BY <1>1, <1>3, <1>4, <2>1 DEF screenVars
<1>. QED  BY <1>6, <1>7, <1>8, <1>9, <1>10, <1>11, <1>12, <1>13, <1>14, <1>15, NextCases

----------------------------------------------------------------------------
(* The inductive invariant *)

LEMMA InitDInv ==
  Init => DInv
<1>. SUFFICES ASSUME Init PROVE DInv
  OBVIOUS
<1>1. /\ github \in Githubs /\ steady = {i \in Ids : github[i] # NoName} /\ changes = 0
      /\ store = [i \in Ids |-> NoRow] /\ unsaved = {} /\ chosen = [i \in Ids |-> TRUE]
      /\ disc = [d \in Tasks |-> Idle] /\ loader = [pc |-> "none", entries |-> <<>>] /\ stage = "drain"
      /\ repos = <<>> /\ loading = FALSE /\ modals = 0 /\ appRx = <<>> /\ keys = 0
      /\ effects = <<Effect("Load", "MyRepos", {}, TRUE), Effect("Discover", "MyRepos", {}, TRUE)>>
  BY DEF Init
<1>2. Stored = {} /\ NoRow \in Rows
  BY <1>1 DEF Stored, NoRow, Rows, Statuses
<1>3. /\ DOMAIN effects = {1, 2} /\ effects[1].kind = "Load" /\ effects[2].kind = "Discover"
      /\ effects \in Seq(Effects)
  <2>1. Effect("Load", "MyRepos", {}, TRUE) \in Effects /\ Effect("Discover", "MyRepos", {}, TRUE) \in Effects
    BY DEF Effect, Effects, Scopes
  <2>. QED  BY <1>1, <2>1 DEF Effect
<1>4. Ordered = {2} /\ PendingSelect = {}
  BY <1>3 DEF Ordered, PendingSelect
<1>5. \A d \in Tasks : disc[d] = Idle /\ disc[d].pc = "none" /\ disc[d].todo = {} /\ disc[d].list = <<>>
  BY <1>1, RecordFacts
<1>6. TypeOK
  <2>1. /\ github \in [Ids -> Names \cup {NoName}] /\ steady \subseteq Ids /\ changes \in 0 .. MaxChanges
        /\ modals \in 0 .. MaxTasks /\ keys \in 0 .. MaxKeys
    BY <1>1, GithubsAssumption, ConstantFacts
  <2>2. TableType /\ UniqueNames /\ unsaved \subseteq Ids /\ chosen \in [Ids -> BOOLEAN]
    BY <1>1, <1>2 DEF TableType, UniqueNames
  <2>3. disc \in [Tasks -> Discs]
    BY <1>1, RecordFacts
  <2>4. loader \in Loaders /\ repos \in Seq(Entry) /\ appRx \in Seq(Events)
    BY <1>1, RecordFacts DEF Loaders
  <2>. QED  BY <1>1, <1>3, <2>1, <2>2, <2>3, <2>4, TypeFacts
<1>7. OrderInv
  <2>1. \E n \in 0 .. MaxTasks : \A d \in Tasks : disc[d].pc # "none" <=> d <= n
    <3>1. 0 \in 0 .. MaxTasks /\ \A d \in Tasks : ~(d <= 0)
      BY ConstantFacts DEF Tasks
    <3>. QED  BY <1>5, <3>1
  <2>2. 1 \in Tasks
    BY ConstantFacts DEF Tasks
  <2>. QED  BY <1>1, <1>4, <1>5, <2>1, <2>2 DEF OrderInv
<1>8. StoreInv
  BY <1>2 DEF StoreInv
<1>9. ListsInv
  BY <1>1, <1>2, <1>5, NoIds DEF ListsInv, ScreenIsStored
<1>10. SelectInv
  BY <1>1, <1>2, <1>3 DEF SelectInv, StoredSelectionIsChosen
<1>11. MarkInv
  <2>1. \A i \in Ids : ~store[i].deleted
    BY <1>1 DEF NoRow
  <2>2. FoundIsNotMarked
    BY <2>1, ConstantFacts DEF FoundIsNotMarked
  <2>. QED  BY <1>1, <1>5, <2>2 DEF MarkInv
<1>12. ModalInv
  <2>1. Failures = {} /\ Over = {}
    BY <1>1, <1>5 DEF Failures, Over
  <2>. QED  BY <1>1, <2>1, FS_EmptySet DEF ModalInv
<1>13. SpinnerHasTask
  BY <1>1 DEF SpinnerHasTask
<1>. QED  BY <1>6, <1>7, <1>8, <1>9, <1>10, <1>11, <1>12, <1>13 DEF DInv

LEMMA StepDInv ==
  DInv /\ [Next]_vars => DInv'
<1>. SUFFICES ASSUME DInv, [Next]_vars PROVE DInv'
  OBVIOUS
<1>1. TypeOK /\ OrderInv /\ StoreInv /\ ListsInv /\ SelectInv /\ MarkInv /\ ModalInv /\ SpinnerHasTask
  BY DEF DInv
<1>. QED  BY <1>1, TypeStep, OrderStep, TableStep, ListsStep, SelectStep, MarkStep, ModalStep, SpinnerStep DEF DInv

\* In every reachable state the lists, the table and the tasks fit together:
\* DInv is inductive.
THEOREM Invariance ==
  Spec => []DInv
BY InitDInv, StepDInv, PTL DEF Spec

\* Every variable keeps its type: no two rows ever have one full name
\* (UNIQUE(full_name), and the transaction of upsert_repos), there are never more
\* dialogs than discoveries.
THEOREM TypeCorrect ==
  Spec => []TypeOK
<1>1. DInv => TypeOK
  BY DEF DInv
<1>. QED  BY <1>1, Invariance, PTL

\* What the table says of a selection is what the user chose last, unless its
\* write is still on its way or has failed (repos.rs:213, merge.rs:36).
THEOREM SelectionsSurvive ==
  Spec => []StoredSelectionIsChosen
<1>1. DInv => StoredSelectionIsChosen
  BY DEF DInv, SelectInv
<1>. QED  BY <1>1, Invariance, PTL

\* Everything on the screen has a row (discovery.rs:54-61, main.rs:866).
THEOREM ScreenHasRows ==
  Spec => []ScreenIsStored
<1>1. DInv => ScreenIsStored
  BY DEF DInv, ListsInv
<1>. QED  BY <1>1, Invariance, PTL

\* Where one page is enough, a repository of the user's that has been on GitHub
\* all the time is never marked as deleted (discovery.rs:42-52, merge.rs:84).
THEOREM SteadyIsNotMarked ==
  Spec => []FoundIsNotMarked
<1>1. DInv => FoundIsNotMarked
  BY DEF DInv, MarkInv
<1>. QED  BY <1>1, Invariance, PTL

\* The spinner never waits for nothing (reduce.rs:683-705, main.rs:861).
THEOREM SpinnerIsHonest ==
  Spec => []SpinnerHasTask
<1>1. DInv => SpinnerHasTask
  BY DEF DInv
<1>. QED  BY <1>1, Invariance, PTL

----------------------------------------------------------------------------
(* Discoveries keep to RepoCatalog *)

\* The user's part of a row.
Part(i) == [selected |-> store[i].selected, status |-> store[i].status]

\* A row that is there in the table is there in the catalogue, and no other.
LEMMA PresentIsStored ==
  ASSUME TableType, StoreInv
  PROVE  Catalog!Present = Stored
<1>1. \A i \in Ids \ Stored : Part(i) = [selected |-> FALSE, status |-> "absent"]
  <2>1. NoRow.selected = FALSE /\ NoRow.status = "absent"
    BY DEF NoRow
  <2>2. \A i \in Ids \ Stored : store[i] = NoRow
    BY DEF Stored
  <2>. QED  BY <2>1, <2>2 DEF Part
<1>2. \A i \in Stored : Part(i) # [selected |-> FALSE, status |-> "absent"]
  BY DEF Part, StoreInv
<1>. QED  BY <1>1, <1>2 DEF Catalog!Present, Catalog!Absent, Part, Stored

\* What a step does to the user's part of the rows.
LEMMA CatalogStep ==
  ASSUME DInv, [Next]_vars
  PROVE  [Catalog!Next]_([i \in Ids |-> [selected |-> store[i].selected, status |-> store[i].status]])
<1>. DEFINE row == [i \in Ids |-> [selected |-> store[i].selected, status |-> store[i].status]]
<1>1. /\ TypeOK /\ OrderInv /\ StoreInv /\ ListsInv
      /\ TableType /\ UniqueNames /\ Catalog!Present = Stored /\ Stored \subseteq Ids
      /\ \A i \in Ids : store[i] \in Rows
      /\ effects \in Seq(Effects) /\ \A d \in Tasks : disc[d].list \in Seq(Entry)
  BY PresentIsStored, TypeFacts DEF DInv, Stored, TableType, Discs
<1>2. \A i \in Ids : row[i] = Part(i)
  BY DEF Part
<1>3. ASSUME \A i \in Ids : store'[i].selected = store[i].selected /\ store'[i].status = store[i].status
      PROVE  row' = row
  BY <1>3
<1>4. ASSUME store' = store PROVE row' = row
  BY <1>4
<1>5. CASE UNCHANGED vars \/ DrainOne \/ Drained \/ Tick \/ DismissModal \/ ReadStored \/ SendStored
           \/ \E g \in Githubs : GithubChange(g)
  <2>1. store' = store
    BY <1>1, <1>5, DrainFacts, ReadStoredFacts, SendStoredFacts
    DEF vars, dbVars, Drained, Tick, DismissModal, GithubChange
  <2>. QED  BY <1>4, <2>1
<1>6. CASE (\E S \in SUBSET IdsOf(repos), on \in BOOLEAN : S \subseteq Ids /\ Selects(S, on))
           \/ \E source \in Scopes : Refreshes(source)
  <2>1. store' = store
    BY <1>6 DEF Selects, Refreshes, dbVars
  <2>. QED  BY <1>4, <2>1
<1>7. CASE Execute
  <2>1. CASE UNCHANGED dbVars
    BY <1>4, <2>1 DEF dbVars
  <2>2. CASE Persist(Head(effects).ids, Head(effects).on)
    <3>. DEFINE S == Head(effects).ids
                on == Head(effects).on
    <3>1. S \in SUBSET Ids /\ on \in BOOLEAN /\ Persist(S, on)
      BY <1>1, <1>7, <2>2, ExecuteFacts DEF Effects
    <3>. HIDE DEF S, on
    <3>2. \/ /\ \A i \in S \cap Stored : store'[i] = [store[i] EXCEPT !.selected = on]
             /\ \A i \in Ids : i \notin S \cap Stored => store'[i] = store[i]
          \/ store' = store
      BY <1>1, <3>1, PersistFacts
    <3>3. CASE store' = store
      BY <1>4, <3>3
    <3>4. CASE /\ \A i \in S \cap Stored : store'[i] = [store[i] EXCEPT !.selected = on]
               /\ \A i \in Ids : i \notin S \cap Stored => store'[i] = store[i]
      <4>1. \A i \in S \cap Stored : store'[i].selected = on /\ store'[i].status = store[i].status
        BY <1>1, <3>4 DEF Rows
      <4>2. ASSUME NEW i \in S \cap Stored PROVE row'[i] = [row[i] EXCEPT !.selected = on]
        <5>1. /\ row[i] = [selected |-> store[i].selected, status |-> store[i].status]
              /\ row'[i] = [selected |-> store'[i].selected, status |-> store'[i].status]
          BY <1>1
        <5>2. store'[i].selected = on /\ store'[i].status = store[i].status
          BY <4>1
        <5>3. row'[i] = [selected |-> on, status |-> store[i].status]
          BY <5>1, <5>2
        <5>4. i \in Ids
          BY <1>1
        <5>. QED  BY <5>3, <5>4
      <4>3. row' = [i \in Ids |-> IF i \in S \cap Stored THEN [row[i] EXCEPT !.selected = on] ELSE row[i]]
        BY <1>1, <3>4, <4>2
      <4>4. Catalog!Select(S, on)
        BY <1>1, <4>3 DEF Catalog!Select
      <4>5. \E T \in SUBSET Ids : Catalog!Appear(T) \/ \E b \in BOOLEAN : Catalog!Select(T, b)
        BY <3>1, <4>4 DEF Catalog!Appear, Catalog!Select
      <4>. QED  BY <4>5 DEF Catalog!Next
    <3>. QED  BY <3>2, <3>3, <3>4
  <2>. QED  BY <1>1, <1>7, <2>1, <2>2, ExecuteFacts
<1>8. ASSUME NEW d \in Tasks, Discover(d) PROVE [Catalog!Next]_row
  <2>1. CASE Failed(d) \/ Think(d) \/ SendLoaded(d) \/ SendDiscovered(d)
    <3>1. store' = store
      BY <1>1, <2>1, FailedFacts, ThinkFacts, SendLoadedFacts, SendDiscoveredFacts DEF dbVars
    <3>. QED  BY <1>4, <3>1
  <2>2. CASE Mark(d)
    <3>1. PICK i \in disc[d].todo :
            /\ i \in Stored
            /\ \/ store' = store
               \/ /\ store'[i] = [store[i] EXCEPT !.deleted = TRUE]
                  /\ \A k \in Ids \ {i} : store'[k] = store[k]
      BY <1>1, <2>2, MarkFacts
    <3>2. \A k \in Ids : store'[k].selected = store[k].selected /\ store'[k].status = store[k].status
      BY <1>1, <3>1 DEF Rows
    <3>. QED  BY <1>3, <3>2
  <2>3. CASE Upsert(d)
    <3>1. CASE Failed(d)
      BY <2>1, <3>1
    <3>2. CASE /\ ~Clashes(disc[d].list)
               /\ store' = [i \in Ids |-> IF i \in IdsOf(disc[d].list) THEN RowAfter(disc[d].list, i) ELSE store[i]]
      <4>. DEFINE l == disc[d].list
                  new == IdsOf(l) \ Stored
      <4>1. /\ IdsOf(l) \subseteq Ids
            /\ \A i \in IdsOf(l) : store'[i] = RowAfter(l, i)
            /\ \A i \in Ids \ IdsOf(l) : store'[i] = store[i]
        BY <1>1, <3>2, UpsertFacts
      <4>2. \A i \in IdsOf(l) :
              /\ i \notin Stored => RowAfter(l, i).selected = TRUE /\ RowAfter(l, i).status = "NotCloned"
              /\ i \in Stored => /\ RowAfter(l, i).selected = store[i].selected
                                 /\ RowAfter(l, i).status = store[i].status
        BY <1>1, RowAfterFacts
      <4>. HIDE DEF l
      <4>3. \A i \in new : store'[i].selected = TRUE /\ store'[i].status = "NotCloned"
        BY <4>1, <4>2
      <4>4. \A i \in Ids \ new : store'[i].selected = store[i].selected /\ store'[i].status = store[i].status
        BY <4>1, <4>2
      <4>5. new \in SUBSET Ids /\ new \cap Catalog!Present = {}
        BY <1>1, <4>1
      <4>. HIDE DEF new
      <4>6. row' = [i \in Ids |-> IF i \in new THEN [selected |-> TRUE, status |-> "NotCloned"] ELSE row[i]]
        BY <4>3, <4>4
      <4>7. Catalog!Appear(new)
        BY <4>5, <4>6 DEF Catalog!Appear, Catalog!Fresh
      <4>8. \E T \in SUBSET Ids : Catalog!Appear(T) \/ \E b \in BOOLEAN : Catalog!Select(T, b)
        BY <4>5, <4>7 DEF Catalog!Appear, Catalog!Select
      <4>. QED  BY <4>8 DEF Catalog!Next
    <3>. QED  BY <1>1, <2>3, <3>1, <3>2, UpsertCases
  <2>. QED  BY <1>8, <2>1, <2>2, <2>3, DiscoverCases
<1>9. ASSUME NEW i \in Synced, RecordCloned(i) PROVE [Catalog!Next]_row
  <2>1. /\ i \in Stored /\ i \in Ids
        /\ store'[i] = [store[i] EXCEPT !.status = "Cloned"]
        /\ \A k \in Ids \ {i} : store'[k] = store[k]
    BY <1>1, <1>9, ClonedFacts
  <2>2. store'[i].selected = store[i].selected /\ store'[i].status = "Cloned"
    BY <1>1, <2>1 DEF Rows
  <2>3. row' = [row EXCEPT ![i].status = "Cloned"]
    BY <2>1, <2>2
  <2>4. Catalog!Record(i)
    BY <1>1, <2>1, <2>3 DEF Catalog!Record
  <2>. QED  BY <2>1, <2>4 DEF Catalog!Next
<1>. QED  BY <1>1, <1>5, <1>6, <1>7, <1>8, <1>9, NextCases

\* Discoveries never touch the user's part of a row (merge.rs:35-45,
\* repos.rs:23-40): rows appear selected and not cloned, and after that only the
\* user and the sync engine change that part.
THEOREM DiscoveryKeepsCatalog ==
  Spec => CatalogSpec
<1>1. Init => Catalog!Init
  BY DEF Init, NoRow, Catalog!Init, Catalog!Absent
<1>2. DInv /\ [Next]_vars =>
        [Catalog!Next]_([i \in Ids |-> [selected |-> store[i].selected, status |-> store[i].status]])
  BY CatalogStep
<1>. QED  BY <1>1, <1>2, Invariance, PTL DEF Spec, CatalogSpec, Catalog!Spec
=============================================================================
