-------------------------- MODULE SyncSessionProofs --------------------------
(***************************************************************************)
(* Safety of a session for any list of repositories, any limit of the log, *)
(* any number of runs, keystrokes and restarts, and a channel of any       *)
(* length.  Runs overlap and their job ids collide; what holds them apart  *)
(* is that a run reports each job it began before it closes, and that the  *)
(* channel keeps the order.                                                *)
(***************************************************************************)
EXTENDS SyncSessionInv, FiniteSetTheorems, SequenceTheorems, TLAPS

JobKinds == {"Started", "Ended"}
EventKinds == JobKinds \cup {"Completed", "Cancelled", "Paused", "Active"}
Events == [kind : EventKinds, run : Runs \cup {NoRun}, id : Ids, repo : Repos \cup {0}]
Lines == [id : Ids, repo : Repos, active : BOOLEAN]
Effects == [kind : {"StartSync", "CancelSync", "PauseSync", "ResumeSync"}, req : SUBSET Repos]
RunRecords == [st : {"none", "spawned", "live", "closed", "dead"}, req : SUBSET Repos, deaf : BOOLEAN]
Phases == [kind : {"Idle", "PreSync", "Active", "Paused", "Completed", "Cancelled"}, run : Runs \cup {NoRun}]

----------------------------------------------------------------------------
(* The operators the model is built from *)

LEMMA ConstantFacts ==
  /\ MaxRuns \in Nat /\ Runs = 1 .. MaxRuns /\ NoRun \notin Runs
  /\ IsFiniteSet(Repos) /\ Cardinality(Repos) \in Nat /\ 0 \in Ids
  /\ LogLimit \in Nat /\ LogLimit > 0
BY BoundsAssumption, ReposAssumption, LogLimitAssumption, FS_CardinalityType DEF Runs, NoRun, Ids

\* A job id is a position in the list.
LEMMA JobIdFacts ==
  ASSUME NEW S \in SUBSET Repos, NEW x \in Repos
  PROVE  JobId(S, x) \in Ids
<1>1. {y \in S : y < x} \subseteq Repos
  OBVIOUS
<1>2. Cardinality({y \in S : y < x}) \in Nat /\ Cardinality({y \in S : y < x}) <= Cardinality(Repos)
  BY <1>1, ConstantFacts, FS_Subset, FS_CardinalityType
<1>. QED  BY <1>2, ConstantFacts DEF JobId, Ids

\* What TypeOK says of the variables that the steps change.
LEMMA TypeFacts ==
  TypeOK <=>
    /\ up \in BOOLEAN /\ boots \in 0 .. MaxBoots /\ stage \in {"drain", "effects", "input"}
    /\ phase \in Phases /\ Len(log) <= LogLimit /\ log \in Seq(Lines)
    /\ appRx \in Seq(Events) /\ effects \in Seq(Effects) /\ cancel \in BOOLEAN
    /\ presses \in 0 .. MaxPresses /\ run \in [Runs -> RunRecords]
    /\ job \in [Runs -> [Repos -> {"pending", "running", "reported"}]]
    /\ row \in [Runs -> {"none", "running", "completed"}]
<1>1. EventKinds = {"Started", "Ended", "Completed", "Cancelled", "Paused", "Active"}
  BY DEF EventKinds, JobKinds
<1>. QED  BY <1>1 DEF TypeOK, Events, Lines, Effects, RunRecords, Phases

\* An event goes to the end of the channel and leaves the others.
LEMMA SendFacts ==
  ASSUME TypeOK, NEW e \in Events, appRx' = Append(appRx, e)
  PROVE  /\ appRx' \in Seq(Events)
         /\ DOMAIN appRx = 1 .. Len(appRx) /\ Len(appRx) \in Nat
         /\ DOMAIN appRx' = 1 .. Len(appRx) + 1
         /\ \A k \in DOMAIN appRx : k \in DOMAIN appRx' /\ appRx'[k] = appRx[k]
         /\ Len(appRx) + 1 \in DOMAIN appRx' /\ appRx'[Len(appRx) + 1] = e
<1>1. appRx \in Seq(Events)
  BY TypeFacts
<1>. QED  BY <1>1, AppendProperties

\* Receiving takes the first event away.
LEMMA ReceiveFacts ==
  ASSUME TypeOK, appRx # <<>>, appRx' = Tail(appRx)
  PROVE  /\ Head(appRx) \in Events /\ Head(appRx) = appRx[1] /\ 1 \in DOMAIN appRx
         /\ appRx' \in Seq(Events)
         /\ DOMAIN appRx = 1 .. Len(appRx) /\ Len(appRx) \in Nat
         /\ DOMAIN appRx' = 1 .. Len(appRx) - 1
         /\ \A k \in DOMAIN appRx' : k + 1 \in DOMAIN appRx /\ appRx'[k] = appRx[k + 1]
<1>1. appRx \in Seq(Events)
  BY TypeFacts
<1>2. Len(appRx) \in Nat \ {0} /\ DOMAIN appRx = 1 .. Len(appRx)
  BY <1>1, EmptySeq
<1>3. Head(appRx) = appRx[1] /\ Head(appRx) \in Events
  BY <1>1, <1>2, HeadTailProperties
<1>4. /\ Tail(appRx) \in Seq(Events) /\ Len(Tail(appRx)) = Len(appRx) - 1
      /\ \A k \in 1 .. Len(Tail(appRx)) : Tail(appRx)[k] = appRx[k + 1]
  BY <1>1, <1>2, HeadTailProperties
<1>. QED  BY <1>2, <1>3, <1>4

\* The events the loop and the engine send.
LEMMA EventFacts ==
  /\ \A kind \in {"Cancelled", "Paused", "Active"} : SessionEvent(kind, NoRun) \in Events
  /\ \A r \in Runs : SessionEvent("Completed", r) \in Events
  /\ TypeOK => \A kind \in JobKinds, r \in Runs, x \in Repos : JobEvent(kind, r, x) \in Events
<1>1. ASSUME TypeOK, NEW kind \in JobKinds, NEW r \in Runs, NEW x \in Repos
      PROVE  JobEvent(kind, r, x) \in Events
  <2>1. run[r].req \in SUBSET Repos
    BY <1>1, TypeFacts DEF RunRecords
  <2>. QED  BY <2>1, JobIdFacts DEF JobEvent, Event, Events, EventKinds
<1>2. \A kind \in {"Cancelled", "Paused", "Active"} : SessionEvent(kind, NoRun) \in Events
  BY ConstantFacts DEF SessionEvent, Event, Events, EventKinds
<1>3. \A r \in Runs : SessionEvent("Completed", r) \in Events
  BY ConstantFacts DEF SessionEvent, Event, Events, EventKinds
<1>. QED  BY <1>1, <1>2, <1>3

\* The run that is spawned is the one after those that have been.
LEMMA SpawnFacts ==
  ASSUME TypeOK, OrderInv, StartPending, NEW S \in SUBSET Repos, SpawnRun(S)
  PROVE  \E r \in Runs :
           /\ run[r].st = "none"
           /\ run' = [run EXCEPT ![r] = [st |-> "spawned", req |-> S, deaf |-> FALSE]]
           /\ \A q \in Runs : run'[q].st # "none" <=> q <= r
<1>. USE ConstantFacts
<1>1. PICK n \in 0 .. MaxRuns : \A r \in Runs : run[r].st # "none" <=> r <= n
  BY DEF OrderInv
<1>2. n + 1 \in Runs /\ run[n + 1].st = "none"
  <2>1. PICK r \in Runs : run[r].st = "none"
    BY DEF OrderInv
  <2>. QED  BY <1>1, <2>1
<1>3. \A q \in 1 .. (n + 1) - 1 : run[q].st # "none"
  BY <1>1, <1>2
<1>4. \A r \in Runs : run[r].st = "none" /\ (\A q \in 1 .. r-1 : run[q].st # "none") => r = n + 1
  BY <1>1, <1>2
<1>5. (CHOOSE r \in Runs : run[r].st = "none" /\ \A q \in 1 .. r-1 : run[q].st # "none") = n + 1
  BY <1>2, <1>3, <1>4
<1>6. run' = [run EXCEPT ![n + 1] = [st |-> "spawned", req |-> S, deaf |-> FALSE]]
  BY <1>5 DEF SpawnRun
<1>7. \A q \in Runs : run'[q].st # "none" <=> q <= n + 1
  BY <1>1, <1>2, <1>6, TypeFacts
<1>. QED  BY <1>2, <1>6, <1>7

\* A log in which every line has its own job id.
Distinct(l) == \A i, k \in DOMAIN l : l[i].id = l[k].id => i = k

\* What an event for the line id may do to a log: no line spins that did not
\* spin before or is the line id itself.
Quiet(l, m, id) ==
  \A i \in DOMAIN m : m[i].active =>
    m[i].id = id \/ \E k \in DOMAIN l : l[k].id = m[i].id /\ l[k].active

\* The line of a job id is the only one with that id.
LEMMA LineFacts ==
  ASSUME NEW l \in Seq(Lines), Distinct(l), NEW id, HasLine(l, id), NEW on \in BOOLEAN
  PROVE  LET m == [l EXCEPT ![LineOf(l, id)].active = on]
         IN  /\ m \in Seq(Lines) /\ Len(m) = Len(l) /\ Distinct(m)
             /\ \A i \in DOMAIN m : i \in DOMAIN l /\ m[i].id = l[i].id
             /\ \A i \in DOMAIN m : m[i].active = IF m[i].id = id THEN on ELSE l[i].active
<1>. DEFINE m == [l EXCEPT ![LineOf(l, id)].active = on]
<1>1. PICK i \in DOMAIN l : l[i].id = id
  BY DEF HasLine
<1>2. DOMAIN l = 1 .. Len(l) /\ Len(l) \in Nat /\ \A k \in DOMAIN l : l[k] \in Lines
  BY ElementOfSeq, LenProperties
<1>3. LineOf(l, id) = i
  <2>1. \A k \in 1 .. i - 1 : l[k].id # id
    BY <1>1, <1>2 DEF Distinct
  <2>2. \A k \in DOMAIN l : l[k].id = id => k = i
    BY <1>1 DEF Distinct
  <2>. QED  BY <1>1, <2>1, <2>2 DEF LineOf
<1>4. [l[i] EXCEPT !.active = on] \in Lines
  BY <1>1, <1>2 DEF Lines
<1>5. m = [l EXCEPT ![i] = [l[i] EXCEPT !.active = on]]
  BY <1>1, <1>2, <1>3
<1>6. /\ m \in Seq(Lines) /\ Len(m) = Len(l)
      /\ \A k \in DOMAIN l : m[k] = IF k = i THEN [l[i] EXCEPT !.active = on] ELSE l[k]
  <2>. DEFINE line == [l[i] EXCEPT !.active = on]
  <2>1. m = [l EXCEPT ![i] = line] /\ line \in Lines /\ i \in 1 .. Len(l)
    BY <1>1, <1>2, <1>4, <1>5
  <2>. HIDE DEF line, m
  <2>. QED  BY <1>2, <2>1, ExceptSeq DEF line
<1>7. DOMAIN m = DOMAIN l
  BY <1>5
<1>8. \A k \in DOMAIN l : m[k].id = l[k].id /\ m[k].active = IF k = i THEN on ELSE l[k].active
  BY <1>2, <1>6 DEF Lines
<1>9. \A k \in DOMAIN l : l[k].id = id <=> k = i
  BY <1>1 DEF Distinct
<1>. QED  BY <1>6, <1>7, <1>8, <1>9 DEF Distinct

\* An outcome event stops the line of its job id, if there is one.
LEMMA EndedFacts ==
  ASSUME NEW l \in Seq(Lines), Distinct(l), NEW id, NEW x
  PROVE  LET m == Ended(l, id, x)
         IN  /\ m \in Seq(Lines) /\ Len(m) = Len(l) /\ Distinct(m)
             /\ Quiet(l, m, id)
             /\ \A i \in DOMAIN m : m[i].active => m[i].id # id
<1>1. CASE HasLine(l, id)
  <2>. DEFINE m == [l EXCEPT ![LineOf(l, id)].active = FALSE]
  <2>1. /\ m \in Seq(Lines) /\ Len(m) = Len(l) /\ Distinct(m)
        /\ \A i \in DOMAIN m : i \in DOMAIN l /\ m[i].id = l[i].id
        /\ \A i \in DOMAIN m : m[i].active = IF m[i].id = id THEN FALSE ELSE l[i].active
    BY <1>1, LineFacts
  <2>2. Ended(l, id, x) = m
    BY <1>1 DEF Ended
  <2>. HIDE DEF m
  <2>. QED  BY <2>1, <2>2 DEF Quiet
<1>2. CASE ~HasLine(l, id)
  BY <1>2 DEF HasLine, Ended, Quiet
<1>. QED  BY <1>1, <1>2

\* The newest lines of a log.
LEMMA LastLinesFacts ==
  ASSUME NEW l \in Seq(Lines), Distinct(l)
  PROVE  LET m == LastLines(l)
         IN  /\ m \in Seq(Lines) /\ Len(m) <= LogLimit /\ Distinct(m)
             /\ \A i \in DOMAIN m : \E k \in DOMAIN l : m[i] = l[k]
<1>. USE ConstantFacts
<1>1. Len(l) \in Nat /\ DOMAIN l = 1 .. Len(l) /\ \A k \in DOMAIN l : l[k] \in Lines
  BY ElementOfSeq, LenProperties
<1>2. CASE Len(l) <= LogLimit
  BY <1>1, <1>2 DEF LastLines
<1>3. CASE Len(l) > LogLimit
  <2>. DEFINE from == Len(l) - LogLimit + 1
  <2>1. LastLines(l) = SubSeq(l, from, Len(l))
    BY <1>3 DEF LastLines
  <2>2. from \in 1 .. Len(l) + 1 /\ from \in Int /\ Len(l) - from + 1 = LogLimit
    BY <1>1, <1>3
  <2>3. /\ SubSeq(l, from, Len(l)) \in Seq(Lines) /\ Len(SubSeq(l, from, Len(l))) = LogLimit
        /\ \A i \in 1 .. LogLimit : SubSeq(l, from, Len(l))[i] = l[from + i - 1]
    BY <1>1, <1>3, <2>2, SubSeqProperties
  <2>4. DOMAIN SubSeq(l, from, Len(l)) = 1 .. LogLimit
    BY <2>3
  <2>5. \A i \in 1 .. LogLimit : from + i - 1 \in DOMAIN l
    BY <1>1, <2>2
  <2>. DEFINE m == SubSeq(l, from, Len(l))
  <2>6. \A i \in DOMAIN m : from + i - 1 \in DOMAIN l /\ m[i] = l[from + i - 1]
    BY <2>3, <2>4, <2>5
  <2>7. Distinct(m)
    <3>. SUFFICES ASSUME NEW i \in DOMAIN m, NEW k \in DOMAIN m, m[i].id = m[k].id PROVE i = k
      BY DEF Distinct
    <3>1. from + i - 1 = from + k - 1
      BY <2>6 DEF Distinct
    <3>. QED  BY <1>1, <2>2, <2>4, <3>1
  <2>. HIDE DEF m
  <2>. QED  BY <2>1, <2>3, <2>6, <2>7 DEF m
<1>. QED  BY <1>1, <1>2, <1>3

\* A job that starts spins the line of its id or gets a new one.
LEMMA StartedFacts ==
  ASSUME NEW l \in Seq(Lines), Distinct(l), Len(l) <= LogLimit, NEW id \in Ids, NEW x \in Repos
  PROVE  LET m == Started(l, id, x)
         IN  /\ m \in Seq(Lines) /\ Len(m) <= LogLimit /\ Distinct(m)
             /\ Quiet(l, m, id)
<1>1. CASE HasLine(l, id)
  <2>. DEFINE m == [l EXCEPT ![LineOf(l, id)].active = TRUE]
  <2>1. /\ m \in Seq(Lines) /\ Len(m) = Len(l) /\ Distinct(m)
        /\ \A i \in DOMAIN m : i \in DOMAIN l /\ m[i].id = l[i].id
        /\ \A i \in DOMAIN m : m[i].active = IF m[i].id = id THEN TRUE ELSE l[i].active
    BY <1>1, LineFacts
  <2>2. Started(l, id, x) = m
    BY <1>1 DEF Started
  <2>. HIDE DEF m
  <2>. QED  BY <2>1, <2>2 DEF Quiet
<1>2. CASE ~HasLine(l, id)
  <2>. DEFINE line == [id |-> id, repo |-> x, active |-> TRUE]
              longer == Append(l, line)
  <2>1. line \in Lines
    BY DEF Lines
  <2>2. /\ longer \in Seq(Lines) /\ Len(l) \in Nat /\ DOMAIN l = 1 .. Len(l)
        /\ DOMAIN longer = 1 .. Len(l) + 1 /\ longer[Len(l) + 1] = line
        /\ \A k \in 1 .. Len(l) : longer[k] = l[k]
    BY <2>1, AppendProperties, LenProperties
  <2>3. Distinct(longer)
    BY <1>2, <2>2 DEF Distinct, HasLine
  <2>4. Quiet(l, LastLines(longer), id)
    <3>1. ASSUME NEW i \in DOMAIN LastLines(longer), LastLines(longer)[i].active,
                 LastLines(longer)[i].id # id
          PROVE  \E k \in DOMAIN l : l[k].id = LastLines(longer)[i].id /\ l[k].active
      <4>1. PICK k \in DOMAIN longer : LastLines(longer)[i] = longer[k]
        BY <2>2, <2>3, LastLinesFacts
      <4>. QED  BY <2>2, <3>1, <4>1
    <3>. QED  BY <3>1 DEF Quiet
  <2>5. Started(l, id, x) = LastLines(longer)
    BY <1>2 DEF Started
  <2>. HIDE DEF longer
  <2>. QED  BY <2>2, <2>3, <2>4, <2>5, LastLinesFacts
<1>. QED  BY <1>1, <1>2

\* What any event does to the log.
LEMMA LogAfterFacts ==
  ASSUME TypeOK, LogInv, NEW e \in Events, e.kind = "Started" => e.repo \in Repos
  PROVE  LET m == LogAfter(log, e)
         IN  /\ m \in Seq(Lines) /\ Len(m) <= LogLimit /\ Distinct(m)
             /\ e.kind = "Started" => Quiet(log, m, e.id)
             /\ e.kind # "Started" =>
                  \A i \in DOMAIN m : m[i].active =>
                    /\ \E k \in DOMAIN log : log[k].id = m[i].id /\ log[k].active
                    /\ e.kind = "Ended" => m[i].id # e.id
<1>1. /\ log \in Seq(Lines) /\ Len(log) <= LogLimit /\ Distinct(log)
      /\ e.id \in Ids
  BY TypeFacts DEF LogInv, Distinct, Events
<1>2. CASE e.kind = "Started"
  BY <1>1, <1>2, StartedFacts DEF LogAfter
<1>3. CASE e.kind = "Ended"
  <2>1. LogAfter(log, e) = Ended(log, e.id, e.repo)
    BY <1>3 DEF LogAfter
  <2>. QED  BY <1>1, <1>3, <2>1, EndedFacts DEF Quiet
<1>4. CASE e.kind \notin {"Started", "Ended"}
  BY <1>1, <1>4 DEF LogAfter
<1>. QED  BY <1>2, <1>3, <1>4

----------------------------------------------------------------------------
(* Type correctness *)

LEMMA InitType == Init => TypeOK
<1>. SUFFICES ASSUME Init PROVE TypeOK
  OBVIOUS
<1>. USE ConstantFacts, BoundsAssumption
<1>1. phase \in Phases
  BY DEF Init, Phase, Phases
<1>2. Len(log) <= LogLimit /\ log \in Seq(Lines) /\ appRx \in Seq(Events) /\ effects \in Seq(Effects)
  BY EmptySeq DEF Init
<1>3. run \in [Runs -> RunRecords]
  BY DEF Init, Unstarted, RunRecords
<1>4. job \in [Runs -> [Repos -> {"pending", "running", "reported"}]] /\ row \in [Runs -> {"none", "running", "completed"}]
  BY DEF Init
<1>5. /\ up = TRUE /\ boots = 0 /\ stage = "drain" /\ cancel = FALSE /\ presses = 0
  BY DEF Init
<1>6. 0 \in 0 .. MaxBoots /\ 0 \in 0 .. MaxPresses
  OBVIOUS
<1>. QED  BY <1>1, <1>2, <1>3, <1>4, <1>5, <1>6, TypeFacts

\* The effect at the head is carried out, and the others move up.
LEMMA EffectFacts ==
  ASSUME TypeOK, effects # <<>>
  PROVE  /\ Head(effects) \in Effects /\ Head(effects) = effects[1] /\ 1 \in DOMAIN effects
         /\ Tail(effects) \in Seq(Effects) /\ Len(Tail(effects)) = Len(effects) - 1
         /\ Len(effects) \in Nat
<1>1. effects \in Seq(Effects)
  BY TypeFacts
<1>2. Len(effects) \in Nat \ {0} /\ DOMAIN effects = 1 .. Len(effects)
  BY <1>1, EmptySeq
<1>. QED  BY <1>1, <1>2, HeadTailProperties

\* The ways an effect can be carried out.
LEMMA ExecuteFacts ==
  ASSUME TypeOK, OrderInv, Execute
  PROVE  \/ /\ \E r \in Runs, S \in SUBSET Repos :
                 /\ run[r].st = "none"
                 /\ run' = [run EXCEPT ![r] = [st |-> "spawned", req |-> S, deaf |-> FALSE]]
                 /\ \A q \in Runs : run'[q].st # "none" <=> q <= r
            /\ UNCHANGED <<appRx, cancel>>
         \/ /\ ~StartPending
            /\ \E kind \in {"Cancelled", "Paused", "Active"} : appRx' = Append(appRx, SessionEvent(kind, NoRun))
            /\ run' = run /\ cancel' \in BOOLEAN
<1>1. effects # <<>> /\ Head(effects) \in Effects /\ Head(effects) = effects[1] /\ 1 \in DOMAIN effects
  BY EffectFacts DEF Execute
<1>2. CASE Head(effects).kind = "StartSync"
  <2>1. StartPending
    BY <1>1, <1>2 DEF StartPending
  <2>2. SpawnRun(Head(effects).req) /\ Head(effects).req \in SUBSET Repos
    BY <1>1, <1>2 DEF Execute, Effects
  <2>3. UNCHANGED <<appRx, cancel>>
    BY <2>2 DEF SpawnRun
  <2>. QED  BY <2>1, <2>2, <2>3, SpawnFacts
<1>3. CASE Head(effects).kind # "StartSync"
  <2>1. ~StartPending
    <3>1. effects \in Seq(Effects) /\ Len(effects) <= 1
      BY TypeFacts DEF OrderInv
    <3>2. \A i \in DOMAIN effects : i = 1
      BY <3>1
    <3>. QED  BY <1>1, <1>3, <3>2 DEF StartPending
  <2>2. RaiseCancel \/ Tell("Paused") \/ Tell("Active")
    BY <1>3 DEF Execute
  <2>3. cancel \in BOOLEAN
    BY DEF TypeOK
  <2>. QED  BY <2>1, <2>2, <2>3 DEF RaiseCancel, Tell
<1>. QED  BY <1>2, <1>3

LEMMA TypeStep ==
  ASSUME SInv, [Next]_vars
  PROVE  TypeOK'
<1>. USE ConstantFacts DEF SInv
<1>0. /\ up \in BOOLEAN /\ boots \in 0 .. MaxBoots /\ stage \in {"drain", "effects", "input"}
      /\ phase \in Phases /\ Len(log) <= LogLimit /\ log \in Seq(Lines)
      /\ appRx \in Seq(Events) /\ effects \in Seq(Effects) /\ cancel \in BOOLEAN
      /\ presses \in 0 .. MaxPresses /\ run \in [Runs -> RunRecords]
      /\ job \in [Runs -> [Repos -> {"pending", "running", "reported"}]]
      /\ row \in [Runs -> {"none", "running", "completed"}]
  BY TypeFacts
<1>. DEFINE Shape == /\ up' \in BOOLEAN /\ boots' \in 0 .. MaxBoots /\ stage' \in {"drain", "effects", "input"}
                     /\ phase' \in Phases /\ Len(log') <= LogLimit /\ log' \in Seq(Lines)
                     /\ appRx' \in Seq(Events) /\ effects' \in Seq(Effects) /\ cancel' \in BOOLEAN
                     /\ presses' \in 0 .. MaxPresses /\ run' \in [Runs -> RunRecords]
                     /\ job' \in [Runs -> [Repos -> {"pending", "running", "reported"}]]
                     /\ row' \in [Runs -> {"none", "running", "completed"}]
<1>1. Shape => TypeOK'
  <2>1. EventKinds = {"Started", "Ended", "Completed", "Cancelled", "Paused", "Active"}
    BY DEF EventKinds, JobKinds
  <2>. QED  BY <2>1 DEF TypeOK, Events, Lines, Effects, RunRecords, Phases
<1>. HIDE DEF SInv
<1>2. CASE DrainOne
  <2>1. /\ Head(appRx) \in Events /\ Head(appRx) = appRx[1] /\ 1 \in DOMAIN appRx /\ appRx' \in Seq(Events)
    BY <1>2, ReceiveFacts DEF DrainOne, SInv
  <2>2. Head(appRx).kind = "Started" => Head(appRx).repo \in Repos
    BY <2>1 DEF SInv, ChannelInv
  <2>3. log' \in Seq(Lines) /\ Len(log') <= LogLimit
    BY <1>2, <2>1, <2>2, LogAfterFacts DEF DrainOne, SInv
  <2>4. phase' \in Phases
    BY <1>0, <1>2, <2>1 DEF DrainOne, PhaseAfter, Phase, Phases, Events, EventKinds, JobKinds
  <2>. QED  BY <1>0, <1>1, <1>2, <2>1, <2>3, <2>4 DEF DrainOne, engineVars
<1>3. CASE Execute
  <2>1. effects' \in Seq(Effects)
    BY <1>3, EffectFacts DEF Execute, SInv
  <2>2. appRx' \in Seq(Events) /\ cancel' \in BOOLEAN
    BY <1>0, <1>3, ExecuteFacts, SendFacts, EventFacts DEF SInv
  <2>3. run' \in [Runs -> RunRecords]
    <3>1. \A S \in SUBSET Repos : [st |-> "spawned", req |-> S, deaf |-> FALSE] \in RunRecords
      BY DEF RunRecords
    <3>2. run' = run \/ \E r \in Runs, S \in SUBSET Repos :
                          run' = [run EXCEPT ![r] = [st |-> "spawned", req |-> S, deaf |-> FALSE]]
      BY <1>3, ExecuteFacts DEF SInv
    <3>. QED  BY <1>0, <3>1, <3>2
  <2>. QED  BY <1>0, <1>1, <1>3, <2>1, <2>2, <2>3 DEF Execute, AfterEffects
<1>4. CASE Drained \/ Tick
  BY <1>0, <1>1, <1>4 DEF Drained, Tick, AfterEffects, engineVars
<1>5. ASSUME NEW S \in Selections, KeyStart(S) PROVE TypeOK'
  <2>1. Effect("StartSync", S) \in Effects /\ Phase("PreSync", NoRun) \in Phases
    BY SelectionsAssumption DEF Effect, Effects, Phase, Phases
  <2>. QED  BY <1>0, <1>1, <1>5, <2>1, AppendProperties DEF KeyStart, engineVars
<1>6. ASSUME NEW kind \in {"PauseSync", "ResumeSync", "CancelSync"}, KeyPress(kind) PROVE TypeOK'
  <2>1. Effect(kind, {}) \in Effects
    BY DEF Effect, Effects
  <2>2. presses' \in 0 .. MaxPresses
    BY <1>0, <1>6, BoundsAssumption DEF KeyPress
  <2>. QED  BY <1>0, <1>1, <1>6, <2>1, <2>2, AppendProperties DEF KeyPress, engineVars
<1>7. CASE ProcessGone \/ Boot
  <2>1. Phase("Idle", NoRun) \in Phases
    BY DEF Phase, Phases
  <2>2. run' \in [Runs -> RunRecords]
    <3>1. ASSUME NEW r \in Runs PROVE [run[r] EXCEPT !.st = "dead"] \in RunRecords
      <4>1. run[r] \in RunRecords
        BY <1>0
      <4>. QED  BY <4>1 DEF RunRecords
    <3>2. run' = run \/ run' = [r \in Runs |-> IF run[r].st \in {"spawned", "live"}
                                              THEN [run[r] EXCEPT !.st = "dead"] ELSE run[r]]
      BY <1>7 DEF ProcessGone, Boot, engineVars
    <3>. QED  BY <1>0, <3>1, <3>2
  <2>3. boots' \in 0 .. MaxBoots
    BY <1>0, <1>7, BoundsAssumption DEF ProcessGone, Boot
  <2>4. log' \in Seq(Lines) /\ appRx' \in Seq(Events) /\ effects' \in Seq(Effects) /\ Len(log') <= LogLimit
    <3>1. log' = <<>> /\ appRx' = <<>> /\ effects' = <<>>
      BY <1>7 DEF ProcessGone, Boot, Fresh
    <3>2. <<>> \in Seq(Lines) /\ <<>> \in Seq(Events) /\ <<>> \in Seq(Effects)
      BY EmptySeq
    <3>3. Len(<<>>) = 0
      OBVIOUS
    <3>. QED  BY <3>1, <3>2, <3>3
  <2>5. /\ up' \in BOOLEAN /\ stage' = "drain" /\ cancel' = FALSE /\ phase' = Phase("Idle", NoRun)
        /\ UNCHANGED <<presses, job, row>>
    BY <1>7 DEF ProcessGone, Boot, Fresh, engineVars
  <2>. QED  BY <1>0, <1>1, <2>1, <2>2, <2>3, <2>4, <2>5
<1>8. ASSUME NEW r \in Runs, Engine(r) PROVE TypeOK'
  <2>1. appRx' \in Seq(Events)
    <3>1. CASE Launch(r)
      BY <1>0, <3>1 DEF Launch
    <3>2. ASSUME NEW x \in Repos, Begin(r, x) \/ End(r, x) PROVE appRx' \in Seq(Events)
      BY <3>2, SendFacts, EventFacts DEF Begin, End, Send, SInv, JobKinds
    <3>3. CASE Close(r)
      BY <3>3, SendFacts, EventFacts DEF Close, Send, SInv
    <3>. QED  BY <1>8, <3>1, <3>2, <3>3 DEF Engine
  <2>2. run' \in [Runs -> RunRecords]
    <3>1. CASE Launch(r)
      <4>1. [run[r] EXCEPT !.st = "live", !.deaf = cancel] \in RunRecords
        <5>1. run[r] \in RunRecords /\ cancel \in BOOLEAN
          BY <1>0
        <5>. QED  BY <5>1 DEF RunRecords
      <4>2. run' = [run EXCEPT ![r] = [run[r] EXCEPT !.st = "live", !.deaf = cancel]]
        BY <1>0, <3>1 DEF Launch, RunRecords
      <4>. QED  BY <1>0, <4>1, <4>2
    <3>2. CASE Close(r)
      <4>1. [run[r] EXCEPT !.st = "closed"] \in RunRecords
        <5>1. run[r] \in RunRecords /\ cancel \in BOOLEAN
          BY <1>0
        <5>. QED  BY <5>1 DEF RunRecords
      <4>2. run' = [run EXCEPT ![r] = [run[r] EXCEPT !.st = "closed"]]
        BY <1>0, <3>2 DEF Close
      <4>. QED  BY <1>0, <4>1, <4>2
    <3>3. CASE \E x \in Repos : Begin(r, x) \/ End(r, x)
      BY <1>0, <3>3 DEF Begin, End
    <3>. QED  BY <1>8, <3>1, <3>2, <3>3 DEF Engine
  <2>3. job' \in [Runs -> [Repos -> {"pending", "running", "reported"}]]
    <3>1. ASSUME NEW x \in Repos, NEW state \in {"running", "reported"}, job' = [job EXCEPT ![r][x] = state]
          PROVE  job' \in [Runs -> [Repos -> {"pending", "running", "reported"}]]
      <4>1. [job[r] EXCEPT ![x] = state] \in [Repos -> {"pending", "running", "reported"}]
        BY <1>0
      <4>. QED  BY <1>0, <3>1, <4>1
    <3>2. job' = job \/ \E x \in Repos, state \in {"running", "reported"} : job' = [job EXCEPT ![r][x] = state]
      BY <1>8 DEF Engine, Launch, Begin, End, Close
    <3>. QED  BY <1>0, <3>1, <3>2
  <2>4. row' \in [Runs -> {"none", "running", "completed"}]
    BY <1>0, <1>8 DEF Engine, Launch, Begin, End, Close
  <2>. QED  BY <1>0, <1>1, <1>8, <2>1, <2>2, <2>3, <2>4 DEF Engine, Launch, Begin, End, Close, loopVars
<1>9. CASE UNCHANGED vars
  BY <1>0, <1>1, <1>9 DEF vars, loopVars, engineVars
<1>. QED  BY <1>2, <1>3, <1>4, <1>5, <1>6, <1>7, <1>8, <1>9 DEF Next, Loop, Keyboard, Quit, Crash

----------------------------------------------------------------------------
(* What the steps do, point by point *)

LEMMA LaunchFacts ==
  ASSUME TypeOK, NEW r \in Runs, Launch(r)
  PROVE  /\ run[r].st = "spawned" /\ run'[r].st = "live" /\ run'[r].req = run[r].req
         /\ \A q \in Runs \ {r} : run'[q] = run[q]
         /\ UNCHANGED <<up, stage, phase, log, effects, appRx, job>>
<1>1. run[r] \in RunRecords /\ run \in [Runs -> RunRecords]
  BY TypeFacts
<1>2. run' = [run EXCEPT ![r] = [run[r] EXCEPT !.st = "live", !.deaf = cancel]]
  BY <1>1 DEF Launch, RunRecords
<1>. QED  BY <1>1, <1>2 DEF Launch, RunRecords, loopVars

LEMMA CloseFacts ==
  ASSUME TypeOK, NEW r \in Runs, Close(r)
  PROVE  /\ run[r].st = "live" /\ run'[r].st = "closed" /\ run'[r].req = run[r].req
         /\ \A x \in run[r].req : job[r][x] # "running"
         /\ \A q \in Runs \ {r} : run'[q] = run[q]
         /\ appRx' = Append(appRx, SessionEvent("Completed", r)) /\ SessionEvent("Completed", r) \in Events
         /\ UNCHANGED <<up, stage, phase, log, effects, job>>
<1>1. run[r] \in RunRecords /\ run \in [Runs -> RunRecords]
  BY TypeFacts
<1>2. run' = [run EXCEPT ![r] = [run[r] EXCEPT !.st = "closed"]]
  BY <1>1 DEF Close
<1>. QED  BY <1>1, <1>2, EventFacts DEF Close, RunRecords, loopVars, Send

\* A job of a live run begins or ends, and says so.
LEMMA WorkFacts ==
  ASSUME TypeOK, NEW r \in Runs, NEW x \in Repos, Begin(r, x) \/ End(r, x)
  PROVE  \E kind \in JobKinds :
           /\ run[r].st = "live" /\ run[r].req \in SUBSET Repos /\ run' = run
           /\ kind = "Started" => job'[r][x] = "running" /\ x \in run[r].req
           /\ kind = "Ended" => job[r][x] = "running" /\ job'[r][x] = "reported"
           /\ \A q \in Runs, y \in Repos : q # r \/ y # x => job'[q][y] = job[q][y]
           /\ appRx' = Append(appRx, JobEvent(kind, r, x)) /\ JobEvent(kind, r, x) \in Events
           /\ UNCHANGED <<up, stage, phase, log, effects>>
<1>1. run[r] \in RunRecords /\ job \in [Runs -> [Repos -> {"pending", "running", "reported"}]]
  BY TypeFacts
<1>2. CASE Begin(r, x)
  BY <1>1, <1>2, EventFacts DEF Begin, Send, JobKinds, RunRecords, loopVars
<1>3. CASE End(r, x)
  BY <1>1, <1>3, EventFacts DEF End, Send, JobKinds, RunRecords, loopVars
<1>. QED  BY <1>2, <1>3

LEMMA EngineFacts ==
  ASSUME NEW r, Engine(r)
  PROVE  Launch(r) \/ Close(r) \/ \E x \in Repos : Begin(r, x) \/ End(r, x)
BY DEF Engine

\* The end of a process and the begin of another.
LEMMA FreshFacts ==
  ASSUME TypeOK, ProcessGone \/ Boot
  PROVE  /\ stage' = "drain" /\ phase' = Phase("Idle", NoRun) /\ log' = <<>> /\ appRx' = <<>> /\ effects' = <<>>
         /\ \A r \in Runs :
              /\ run'[r].req = run[r].req
              /\ run'[r].st = run[r].st \/ (run[r].st \in {"spawned", "live"} /\ run'[r].st = "dead")
         /\ job' = job
<1>1. \A r \in Runs : run[r] \in RunRecords
  BY TypeFacts
<1>2. CASE ProcessGone
  <2>1. run' = [r \in Runs |-> IF run[r].st \in {"spawned", "live"} THEN [run[r] EXCEPT !.st = "dead"] ELSE run[r]]
    BY <1>2 DEF ProcessGone
  <2>. QED  BY <1>1, <1>2, <2>1 DEF ProcessGone, Fresh, RunRecords
<1>3. CASE Boot
  BY <1>3 DEF Boot, Fresh, engineVars
<1>. QED  BY <1>2, <1>3

\* A step of the loop or of the keyboard that is none of DrainOne and Execute
\* leaves channel, log and runs alone.
QuietStep ==
  \/ Drained \/ Tick
  \/ \E S \in Selections : KeyStart(S)
  \/ \E kind \in {"PauseSync", "ResumeSync", "CancelSync"} : KeyPress(kind)
  \/ UNCHANGED vars

LEMMA QuietFacts ==
  ASSUME QuietStep
  PROVE  /\ UNCHANGED <<up, log, appRx, run, job>>
         /\ phase' = phase \/ phase' = Phase("PreSync", NoRun)
BY DEF QuietStep, Drained, Tick, KeyStart, KeyPress, vars, loopVars, engineVars

LEMMA NextFacts ==
  ASSUME [Next]_vars
  PROVE  DrainOne \/ Execute \/ QuietStep \/ ProcessGone \/ Boot \/ \E r \in Runs : Engine(r)
BY DEF Next, Loop, Keyboard, Quit, Crash, QuietStep

----------------------------------------------------------------------------
(* The parts of the invariant *)

LEMMA OrderStep ==
  ASSUME SInv, [Next]_vars
  PROVE  OrderInv'
<1>. USE ConstantFacts
<1>1. TypeOK /\ OrderInv /\ TypeOK'
  BY TypeStep DEF SInv
<1>2. effects \in Seq(Effects) /\ effects' \in Seq(Effects) /\ run \in [Runs -> RunRecords] /\ run' \in [Runs -> RunRecords]
  <2>1. run' \in [Runs -> RunRecords] /\ effects' \in Seq(Effects)
    BY <1>1 DEF TypeOK, RunRecords, Effects
  <2>. QED  BY <1>1, <2>1, TypeFacts
\* Nothing is spawned: only the list of effects can matter.
<1>3. ASSUME \A r \in Runs : run'[r].st = "none" <=> run[r].st = "none",
             effects' = effects \/ effects' = <<>>, stage' = "input" => effects' = <<>>
      PROVE  OrderInv'
  <2>1. \E n \in 0 .. MaxRuns : \A r \in Runs : run'[r].st # "none" <=> r <= n
    <3>1. PICK n \in 0 .. MaxRuns : \A r \in Runs : run[r].st # "none" <=> r <= n
      BY <1>1 DEF OrderInv
    <3>2. \A r \in Runs : run'[r].st # "none" <=> r <= n
      BY <1>3, <3>1
    <3>. QED  BY <3>2
  <2>2. Len(effects') <= 1
    BY <1>1, <1>3 DEF OrderInv
  <2>3. StartPending' => StartPending
    BY <1>3 DEF StartPending
  <2>4. StartPending' => \E r \in Runs : run'[r].st = "none"
    BY <1>1, <1>3, <2>3 DEF OrderInv
  <2>. QED  BY <1>3, <2>1, <2>2, <2>4 DEF OrderInv
<1>4. CASE DrainOne
  BY <1>1, <1>3, <1>4 DEF DrainOne, engineVars, OrderInv
<1>5. CASE Drained \/ Tick
  BY <1>1, <1>3, <1>5 DEF Drained, Tick, engineVars, OrderInv, AfterEffects
<1>6. CASE UNCHANGED vars
  BY <1>1, <1>3, <1>6 DEF vars, loopVars, engineVars, OrderInv
<1>7. CASE ProcessGone \/ Boot
  <2>1. \A r \in Runs : run'[r].st = "none" <=> run[r].st = "none"
    BY <1>1, <1>7, FreshFacts
  <2>. QED  BY <1>1, <1>3, <1>7, <2>1, FreshFacts
<1>8. ASSUME NEW r \in Runs, Engine(r) PROVE OrderInv'
  <2>1. \A q \in Runs : run'[q].st = "none" <=> run[q].st = "none"
    BY <1>1, <1>8, EngineFacts, LaunchFacts, CloseFacts, WorkFacts
  <2>2. effects' = effects /\ stage' = stage
    BY <1>8 DEF Engine, Launch, Begin, End, Close, loopVars
  <2>. QED  BY <1>1, <1>3, <2>1, <2>2 DEF OrderInv
<1>9. CASE Execute
  <2>1. effects' = <<>>
    <3>1. Tail(effects) \in Seq(Effects) /\ Len(Tail(effects)) = Len(effects) - 1 /\ Len(effects) \in Nat
      BY <1>1, <1>9, EffectFacts DEF Execute
    <3>2. Len(effects) <= 1 /\ effects' = Tail(effects)
      BY <1>1, <1>9 DEF OrderInv, Execute
    <3>. QED  BY <3>1, <3>2, EmptySeq
  <2>2. \E n \in 0 .. MaxRuns : \A r \in Runs : run'[r].st # "none" <=> r <= n
    <3>1. CASE run' = run
      BY <1>1, <3>1 DEF OrderInv
    <3>2. ASSUME NEW r \in Runs, \A q \in Runs : run'[q].st # "none" <=> q <= r
          PROVE  \E n \in 0 .. MaxRuns : \A q \in Runs : run'[q].st # "none" <=> q <= n
      <4>1. r \in 0 .. MaxRuns
        OBVIOUS
      <4>. QED  BY <3>2, <4>1
    <3>. QED  BY <1>1, <1>9, <3>1, <3>2, ExecuteFacts
  <2>3. Len(effects') <= 1 /\ ~StartPending'
    BY <2>1 DEF StartPending
  <2>4. OrderInv' <=> /\ Len(effects') <= 1
                      /\ stage' = "input" => effects' = <<>>
                      /\ \E n \in 0 .. MaxRuns : \A r \in Runs : run'[r].st # "none" <=> r <= n
                      /\ StartPending' => \E r \in Runs : run'[r].st = "none"
    BY DEF OrderInv
  <2>. QED  BY <2>1, <2>2, <2>3, <2>4
\* A key: the list was empty, and for a run there is a number left.
<1>10. ASSUME NEW e \in Effects, stage = "input", effects' = Append(effects, e), stage' = "drain", run' = run,
              e.kind = "StartSync" => Asked < MaxRuns
       PROVE  OrderInv'
  <2>1. effects = <<>>
    BY <1>1, <1>10 DEF OrderInv
  <2>2. Len(effects') = 1 /\ effects'[1] = e
    BY <1>10, <2>1
  <2>3. e.kind = "StartSync" => \E r \in Runs : run[r].st = "none"
    <3>. SUFFICES ASSUME e.kind = "StartSync", \A r \in Runs : run[r].st # "none" PROVE FALSE
      OBVIOUS
    <3>1. {r \in Runs : run[r].st # "none"} = 1 .. MaxRuns
      OBVIOUS
    <3>2. Cardinality(1 .. MaxRuns) = MaxRuns
      BY FS_Interval
    <3>3. Asked = MaxRuns
      BY <3>1, <3>2 DEF Asked
    <3>. QED  BY <1>10, <3>3
  <2>4. StartPending' => e.kind = "StartSync"
    BY <1>2, <2>2 DEF StartPending
  <2>5. \E n \in 0 .. MaxRuns : \A r \in Runs : run'[r].st # "none" <=> r <= n
    BY <1>1, <1>10 DEF OrderInv
  <2>6. OrderInv' <=> /\ Len(effects') <= 1
                      /\ stage' = "input" => effects' = <<>>
                      /\ \E n \in 0 .. MaxRuns : \A r \in Runs : run'[r].st # "none" <=> r <= n
                      /\ StartPending' => \E r \in Runs : run'[r].st = "none"
    BY DEF OrderInv
  <2>7. (stage' = "input" => effects' = <<>>) /\ Len(effects') <= 1
    BY <1>10, <2>2
  <2>8. StartPending' => \E r \in Runs : run'[r].st = "none"
    BY <1>10, <2>3, <2>4
  <2>. HIDE DEF OrderInv, StartPending
  <2>. QED  BY <2>5, <2>6, <2>7, <2>8
<1>11. ASSUME NEW S \in Selections, KeyStart(S) PROVE OrderInv'
  <2>1. Effect("StartSync", S) \in Effects
    BY SelectionsAssumption DEF Effect, Effects
  <2>. QED  BY <1>10, <1>11, <2>1 DEF KeyStart, engineVars
<1>12. ASSUME NEW kind \in {"PauseSync", "ResumeSync", "CancelSync"}, KeyPress(kind) PROVE OrderInv'
  <2>1. Effect(kind, {}) \in Effects /\ Effect(kind, {}).kind # "StartSync"
    BY DEF Effect, Effects
  <2>. QED  BY <1>10, <1>12, <2>1 DEF KeyPress, engineVars
<1>. QED  BY <1>4, <1>5, <1>6, <1>7, <1>8, <1>9, <1>11, <1>12, NextFacts DEF QuietStep

LEMMA JobStep ==
  ASSUME SInv, [Next]_vars
  PROVE  JobInv'
<1>1. TypeOK /\ OrderInv /\ JobInv
  BY DEF SInv
<1>2. CASE run' = run /\ job' = job
  BY <1>1, <1>2 DEF JobInv
<1>3. CASE DrainOne \/ QuietStep
  BY <1>2, <1>3, QuietFacts DEF DrainOne, engineVars
<1>4. CASE ProcessGone \/ Boot
  BY <1>1, <1>4, FreshFacts DEF JobInv
<1>5. CASE Execute
  <2>1. job' = job
    BY <1>5 DEF Execute
  <2>2. CASE run' = run
    BY <1>2, <2>1, <2>2
  <2>3. ASSUME NEW r \in Runs, NEW S \in SUBSET Repos, run[r].st = "none",
               run' = [run EXCEPT ![r] = [st |-> "spawned", req |-> S, deaf |-> FALSE]]
        PROVE  JobInv'
    BY <1>1, <2>1, <2>3 DEF JobInv
  <2>. QED  BY <1>1, <1>5, <2>2, <2>3, ExecuteFacts
<1>6. ASSUME NEW r \in Runs, Engine(r) PROVE JobInv'
  <2>1. CASE Launch(r)
    BY <1>1, <2>1, LaunchFacts DEF JobInv
  <2>2. CASE Close(r)
    BY <1>1, <2>2, CloseFacts DEF JobInv
  <2>3. ASSUME NEW x \in Repos, Begin(r, x) \/ End(r, x) PROVE JobInv'
    BY <1>1, <2>3, WorkFacts DEF JobInv, JobKinds
  <2>. QED  BY <1>6, <2>1, <2>2, <2>3, EngineFacts
<1>. QED  BY <1>3, <1>4, <1>5, <1>6, NextFacts

\* Who works under a job id goes on, or its Ended is sent, or the process ends.
LEMMA AtWorkStep ==
  ASSUME SInv, [Next]_vars, NEW id, AtWork(id)
  PROVE  \/ AtWork(id)'
         \/ /\ Len(appRx) + 1 \in DOMAIN appRx'
            /\ appRx'[Len(appRx) + 1].kind = "Ended" /\ appRx'[Len(appRx) + 1].id = id
         \/ appRx' = <<>> /\ log' = <<>>
<1>. USE ConstantFacts
<1>1. TypeOK /\ OrderInv /\ JobInv
  BY DEF SInv
<1>2. PICK r \in Runs, x \in Repos : Busy(r, x) /\ JobId(run[r].req, x) = id
  BY DEF AtWork
<1>3. run[r].st = "live" /\ job[r][x] = "running" /\ x \in run[r].req
  BY <1>1, <1>2 DEF Busy, JobInv
<1>4. ASSUME run'[r].st = "live", run'[r].req = run[r].req, job'[r][x] = "running"
      PROVE  AtWork(id)'
  <2>1. JobId(run[r].req, x)' = JobId(run[r].req, x)
    BY <1>4 DEF JobId
  <2>2. Busy(r, x)'
    BY <1>4 DEF Busy
  <2>. QED  BY <1>2, <2>1, <2>2 DEF AtWork
<1>5. CASE run' = run /\ job' = job
  BY <1>3, <1>4, <1>5
<1>6. CASE DrainOne \/ QuietStep
  BY <1>5, <1>6, QuietFacts DEF DrainOne, engineVars
<1>7. CASE ProcessGone \/ Boot
  BY <1>1, <1>7, FreshFacts
<1>8. CASE Execute
  <2>1. job' = job
    BY <1>8 DEF Execute
  <2>2. ASSUME NEW q \in Runs, NEW S \in SUBSET Repos, run[q].st = "none",
               run' = [run EXCEPT ![q] = [st |-> "spawned", req |-> S, deaf |-> FALSE]]
        PROVE  AtWork(id)'
    BY <1>3, <1>4, <2>1, <2>2
  <2>. QED  BY <1>1, <1>5, <1>8, <2>1, <2>2, ExecuteFacts
<1>9. ASSUME NEW q \in Runs, Engine(q)
      PROVE  \/ AtWork(id)'
             \/ /\ Len(appRx) + 1 \in DOMAIN appRx'
                /\ appRx'[Len(appRx) + 1].kind = "Ended" /\ appRx'[Len(appRx) + 1].id = id
  <2>1. CASE Launch(q)
    BY <1>1, <1>3, <1>4, <2>1, LaunchFacts
  <2>2. CASE Close(q)
    BY <1>1, <1>3, <1>4, <2>2, CloseFacts
  <2>3. ASSUME NEW y \in Repos, Begin(q, y) \/ End(q, y)
        PROVE  \/ AtWork(id)'
               \/ /\ Len(appRx) + 1 \in DOMAIN appRx'
                  /\ appRx'[Len(appRx) + 1].kind = "Ended" /\ appRx'[Len(appRx) + 1].id = id
    <3>1. PICK kind \in JobKinds :
            /\ run' = run
            /\ kind = "Started" => job'[q][y] = "running"
            /\ \A p \in Runs, z \in Repos : p # q \/ z # y => job'[p][z] = job[p][z]
            /\ appRx' = Append(appRx, JobEvent(kind, q, y)) /\ JobEvent(kind, q, y) \in Events
      BY <1>1, <2>3, WorkFacts
    <3>2. Len(appRx) + 1 \in DOMAIN appRx' /\ appRx'[Len(appRx) + 1] = JobEvent(kind, q, y)
      BY <1>1, <3>1, SendFacts
    <3>3. CASE kind = "Ended" /\ q = r /\ y = x
      BY <1>2, <3>2, <3>3 DEF JobEvent, Event
    <3>4. CASE ~(kind = "Ended" /\ q = r /\ y = x)
      BY <1>3, <1>4, <3>1, <3>4 DEF JobKinds
    <3>. QED  BY <3>3, <3>4
  <2>. QED  BY <1>9, <2>1, <2>2, <2>3, EngineFacts
<1>. QED  BY <1>6, <1>7, <1>8, <1>9, NextFacts

\* What ChannelInv says of one event; its answer is an Ended behind it.
Sound(i) ==
  /\ appRx[i].kind \in {"Started", "Ended", "Completed"} <=> appRx[i].run \in Runs
  /\ appRx[i].kind \in {"Started", "Ended"} => appRx[i].repo \in Repos
  /\ appRx[i].run \in Runs => run[appRx[i].run].st \in {"live", "closed"}
  /\ appRx[i].kind = "Completed" =>
       /\ run[appRx[i].run].st = "closed"
       /\ \A k \in DOMAIN appRx : k > i => appRx[k].run # appRx[i].run
Answered(i) == \E k \in DOMAIN appRx : k > i /\ appRx[k].kind = "Ended" /\ appRx[k].id = appRx[i].id

LEMMA ChannelParts ==
  ChannelInv <=> \A i \in DOMAIN appRx :
                   Sound(i) /\ (appRx[i].kind = "Started" => Answered(i) \/ AtWork(appRx[i].id))
BY DEF ChannelInv, Sound, Answered

\* A step that sends e at most.
LEMMA ChannelGrows ==
  ASSUME SInv, [Next]_vars, NEW e \in Events, appRx' = Append(appRx, e),
         \A q \in Runs : run[q].st \in {"live", "closed"} => run'[q].st \in {run[q].st, "closed"},
         e.kind \in {"Started", "Ended", "Completed"} <=> e.run \in Runs,
         e.kind \in {"Started", "Ended"} => e.repo \in Repos,
         e.run \in Runs => run[e.run].st = "live" /\ run'[e.run].st \in {"live", "closed"},
         e.kind = "Completed" => run'[e.run].st = "closed",
         e.kind = "Started" => AtWork(e.id)'
  PROVE  ChannelInv'
<1>1. TypeOK /\ ChannelInv
  BY DEF SInv
<1>0. PICK last \in Nat : last = Len(appRx) + 1
  BY <1>1, SendFacts
<1>2. /\ DOMAIN appRx = 1 .. Len(appRx) /\ Len(appRx) \in Nat
      /\ DOMAIN appRx' = 1 .. last /\ appRx'[last] = e /\ last \in DOMAIN appRx'
      /\ \A k \in DOMAIN appRx : k \in DOMAIN appRx' /\ appRx'[k] = appRx[k]
  BY <1>0, <1>1, SendFacts
<1>3. \A i \in DOMAIN appRx' : i \in DOMAIN appRx \/ i = last
  BY <1>0, <1>2
<1>4. ASSUME NEW i \in DOMAIN appRx PROVE Sound(i)'
  <2>1. Sound(i) /\ appRx'[i] = appRx[i]
    BY <1>1, <1>2, ChannelParts
  <2>2. appRx[i].kind = "Completed" => \A k \in DOMAIN appRx' : k > i => appRx'[k].run # appRx[i].run
    <3>. SUFFICES ASSUME appRx[i].kind = "Completed", NEW k \in DOMAIN appRx', k > i
                  PROVE  appRx'[k].run # appRx[i].run
      OBVIOUS
    <3>1. run[appRx[i].run].st = "closed" /\ appRx[i].run \in Runs
      BY <2>1 DEF Sound
    <3>2. CASE k \in DOMAIN appRx
      BY <1>2, <2>1, <3>2 DEF Sound
    <3>3. CASE k = last
      BY <1>2, <3>1, <3>3
    <3>. QED  BY <1>3, <3>2, <3>3
  <2>. QED  BY <2>1, <2>2 DEF Sound
<1>5. Sound(last)'
  <2>1. \A k \in DOMAIN appRx' : ~(k > last)
    BY <1>0, <1>2
  <2>. QED  BY <1>2, <2>1 DEF Sound
<1>6. ASSUME NEW i \in DOMAIN appRx, appRx[i].kind = "Started"
      PROVE  Answered(i)' \/ AtWork(appRx[i].id)'
  <2>1. CASE Answered(i)
    BY <1>2, <2>1 DEF Answered
  <2>2. CASE AtWork(appRx[i].id)
    <3>1. appRx' # <<>>
      BY <1>2
    <3>2. CASE appRx'[last].kind = "Ended" /\ appRx'[last].id = appRx[i].id
      BY <1>0, <1>2, <3>2 DEF Answered
    <3>. QED  BY <1>0, <1>2, <2>2, <3>1, <3>2, AtWorkStep
  <2>. QED  BY <1>1, <1>6, <2>1, <2>2, ChannelParts
<1>7. (\A i \in DOMAIN appRx : Sound(i) /\ (appRx[i].kind = "Started" => Answered(i) \/ AtWork(appRx[i].id)))'
  BY <1>2, <1>3, <1>4, <1>5, <1>6
<1>. QED  BY <1>7, ChannelParts, PTL

\* A step that leaves the channel as it is.
LEMMA ChannelStays ==
  ASSUME SInv, [Next]_vars, UNCHANGED appRx,
         \A q \in Runs : run[q].st \in {"live", "closed"} => run'[q].st = run[q].st
  PROVE  ChannelInv'
<1>1. TypeOK /\ ChannelInv
  BY DEF SInv
<1>2. ASSUME NEW i \in DOMAIN appRx PROVE Sound(i)'
  BY <1>1, <1>2, ChannelParts DEF Sound
<1>3. ASSUME NEW i \in DOMAIN appRx, appRx[i].kind = "Started"
      PROVE  Answered(i)' \/ AtWork(appRx[i].id)'
  <2>1. CASE Answered(i)
    BY <2>1 DEF Answered
  <2>2. CASE AtWork(appRx[i].id)
    <3>1. Len(appRx) + 1 \notin DOMAIN appRx' /\ appRx' # <<>>
      <4>1. appRx \in Seq(Events)
        BY <1>1, TypeFacts
      <4>. QED  BY <4>1
    <3>. QED  BY <2>2, <3>1, AtWorkStep
  <2>. QED  BY <1>1, <1>3, <2>1, <2>2, ChannelParts
<1>4. (\A i \in DOMAIN appRx : Sound(i) /\ (appRx[i].kind = "Started" => Answered(i) \/ AtWork(appRx[i].id)))'
  BY <1>2, <1>3
<1>. QED  BY <1>4, ChannelParts, PTL

LEMMA ChannelStep ==
  ASSUME SInv, [Next]_vars
  PROVE  ChannelInv'
<1>. USE ConstantFacts
<1>1. TypeOK /\ OrderInv /\ JobInv /\ ChannelInv
  BY DEF SInv
<1>2. CASE DrainOne
  <2>1. /\ DOMAIN appRx = 1 .. Len(appRx) /\ Len(appRx) \in Nat
        /\ DOMAIN appRx' = 1 .. Len(appRx) - 1
        /\ \A k \in DOMAIN appRx' : k + 1 \in DOMAIN appRx /\ appRx'[k] = appRx[k + 1]
    BY <1>1, <1>2, ReceiveFacts DEF DrainOne
  <2>2. run' = run /\ job' = job
    BY <1>2 DEF DrainOne, engineVars
  <2>3. ASSUME NEW i \in DOMAIN appRx' PROVE Sound(i)'
    <3>1. i + 1 \in DOMAIN appRx /\ appRx'[i] = appRx[i + 1] /\ Sound(i + 1)
      BY <1>1, <2>1, ChannelParts
    <3>. QED  BY <2>1, <2>2, <3>1 DEF Sound
  <2>4. ASSUME NEW i \in DOMAIN appRx', appRx'[i].kind = "Started"
        PROVE  Answered(i)' \/ AtWork(appRx[i].id)'
    <3>1. i + 1 \in DOMAIN appRx /\ appRx'[i] = appRx[i + 1] /\ (Answered(i + 1) \/ AtWork(appRx[i + 1].id))
      BY <1>1, <2>1, <2>4, ChannelParts
    <3>2. CASE Answered(i + 1)
      <4>1. PICK k \in DOMAIN appRx : k > i + 1 /\ appRx[k].kind = "Ended" /\ appRx[k].id = appRx[i + 1].id
        BY <3>2 DEF Answered
      <4>2. k - 1 \in DOMAIN appRx' /\ k - 1 > i /\ appRx'[k - 1] = appRx[k]
        BY <2>1, <4>1
      <4>. QED  BY <3>1, <4>1, <4>2 DEF Answered
    <3>3. CASE AtWork(appRx[i + 1].id)
      BY <2>2, <3>1, <3>3 DEF AtWork, Busy, JobId
    <3>. QED  BY <3>1, <3>2, <3>3
  <2>5. (\A i \in DOMAIN appRx : Sound(i) /\ (appRx[i].kind = "Started" => Answered(i) \/ AtWork(appRx[i].id)))'
    BY <2>3, <2>4
  <2>. QED  BY <2>5, ChannelParts, PTL
<1>3. CASE QuietStep
  BY <1>3, QuietFacts, ChannelStays
<1>4. CASE ProcessGone \/ Boot
  BY <1>1, <1>4, FreshFacts DEF ChannelInv
<1>5. CASE Execute
  <2>1. ASSUME NEW r \in Runs, NEW S \in SUBSET Repos, run[r].st = "none", appRx' = appRx,
               run' = [run EXCEPT ![r] = [st |-> "spawned", req |-> S, deaf |-> FALSE]]
        PROVE  ChannelInv'
    BY <2>1, ChannelStays
  <2>2. ASSUME NEW kind \in {"Cancelled", "Paused", "Active"},
               appRx' = Append(appRx, SessionEvent(kind, NoRun)), run' = run
        PROVE  ChannelInv'
    <3>1. SessionEvent(kind, NoRun) \in Events
      BY EventFacts
    <3>2. SessionEvent(kind, NoRun).kind = kind /\ SessionEvent(kind, NoRun).run = NoRun
      BY DEF SessionEvent, Event
    <3>. QED  BY <2>2, <3>1, <3>2, ChannelGrows
  <2>. QED  BY <1>1, <1>5, <2>1, <2>2, ExecuteFacts
<1>6. ASSUME NEW r \in Runs, Engine(r) PROVE ChannelInv'
  <2>1. CASE Launch(r)
    BY <1>1, <2>1, LaunchFacts, ChannelStays
  <2>2. CASE Close(r)
    <3>1. SessionEvent("Completed", r).kind = "Completed" /\ SessionEvent("Completed", r).run = r
      BY DEF SessionEvent, Event
    <3>2. \A q \in Runs : run[q].st \in {"live", "closed"} => run'[q].st \in {run[q].st, "closed"}
      BY <1>1, <2>2, CloseFacts
    <3>. QED  BY <1>1, <2>2, <3>1, <3>2, CloseFacts, ChannelGrows
  <2>3. ASSUME NEW x \in Repos, Begin(r, x) \/ End(r, x) PROVE ChannelInv'
    <3>1. PICK kind \in JobKinds :
            /\ run[r].st = "live" /\ run' = run
            /\ kind = "Started" => job'[r][x] = "running"
            /\ appRx' = Append(appRx, JobEvent(kind, r, x)) /\ JobEvent(kind, r, x) \in Events
      BY <1>1, <2>3, WorkFacts
    <3>2. /\ JobEvent(kind, r, x).kind = kind /\ JobEvent(kind, r, x).run = r
          /\ JobEvent(kind, r, x).repo = x /\ JobEvent(kind, r, x).id = JobId(run[r].req, x)
      BY DEF JobEvent, Event
    <3>3. kind = "Started" => AtWork(JobEvent(kind, r, x).id)'
      <4>1. JobId(run[r].req, x)' = JobId(run[r].req, x)
        BY <3>1 DEF JobId
      <4>2. kind = "Started" => Busy(r, x)'
        BY <3>1 DEF Busy
      <4>3. JobEvent(kind, r, x)' = JobEvent(kind, r, x)
        BY <3>1 DEF JobEvent, Event, JobId
      <4>. QED  BY <3>2, <4>1, <4>2, <4>3 DEF AtWork
    <3>4. PICK e \in Events : e = JobEvent(kind, r, x)
      BY <3>1
    <3>5. kind = "Started" => AtWork(e.id)'
      <4>1. JobEvent(kind, r, x)' = JobEvent(kind, r, x)
        BY <3>1 DEF JobEvent, Event, JobId
      <4>. QED  BY <3>3, <3>4, <4>1
    <3>. QED  BY <3>1, <3>2, <3>4, <3>5, ChannelGrows DEF JobKinds
  <2>. QED  BY <1>6, <2>1, <2>2, <2>3, EngineFacts
<1>. QED  BY <1>2, <1>3, <1>4, <1>5, <1>6, NextFacts

LEMMA PhaseStep ==
  ASSUME SInv, [Next]_vars
  PROVE  PhaseInv'
<1>. USE ConstantFacts
<1>1. TypeOK /\ OrderInv /\ ChannelInv /\ PhaseInv
  BY DEF SInv
\* The phase stays, and nothing of its run is sent.
<1>2. ASSUME phase' = phase,
             \A q \in Runs : run[q].st = "closed" => run'[q].st = "closed",
             \A k \in DOMAIN appRx' : \/ k \in DOMAIN appRx /\ appRx'[k] = appRx[k]
                                      \/ appRx'[k].run \in Runs => run[appRx'[k].run].st # "closed"
      PROVE  PhaseInv'
  BY <1>1, <1>2 DEF PhaseInv, Queued
<1>3. ASSUME NEW e \in Events, phase' = phase, appRx' = Append(appRx, e),
             \A q \in Runs : run[q].st = "closed" => run'[q].st = "closed",
             e.run \in Runs => run[e.run].st # "closed"
      PROVE  PhaseInv'
  <2>1. \A k \in DOMAIN appRx' : (k \in DOMAIN appRx /\ appRx'[k] = appRx[k]) \/ appRx'[k] = e
    BY <1>1, <1>3, SendFacts
  <2>. QED  BY <1>2, <1>3, <2>1
<1>4. CASE DrainOne
  <2>1. /\ Head(appRx) \in Events /\ Head(appRx) = appRx[1] /\ 1 \in DOMAIN appRx
        /\ DOMAIN appRx = 1 .. Len(appRx) /\ Len(appRx) \in Nat
        /\ DOMAIN appRx' = 1 .. Len(appRx) - 1
        /\ \A k \in DOMAIN appRx' : k + 1 \in DOMAIN appRx /\ appRx'[k] = appRx[k + 1]
    BY <1>1, <1>4, ReceiveFacts DEF DrainOne
  <2>2. run' = run /\ phase' = PhaseAfter(phase, Head(appRx))
    BY <1>4 DEF DrainOne, engineVars
  <2>3. CASE Head(appRx).kind = "Completed"
    <3>1. phase' = Phase("Completed", appRx[1].run)
      BY <2>1, <2>2, <2>3 DEF PhaseAfter
    <3>2. /\ appRx[1].run \in Runs /\ run[appRx[1].run].st = "closed"
          /\ \A k \in DOMAIN appRx : k > 1 => appRx[k].run # appRx[1].run
      BY <1>1, <2>1, <2>3 DEF ChannelInv
    <3>3. \A k \in DOMAIN appRx' : appRx'[k].run # appRx[1].run
      BY <2>1, <3>2
    <3>. QED  BY <2>2, <3>1, <3>2, <3>3 DEF PhaseInv, Queued, Phase
  <2>4. CASE Head(appRx).kind \in {"Cancelled", "Paused", "Active"}
    BY <2>2, <2>4 DEF PhaseAfter, PhaseInv, Phase
  <2>5. CASE Head(appRx).kind \in JobKinds
    <3>1. phase' = phase
      BY <2>2, <2>5 DEF PhaseAfter, JobKinds
    <3>. QED  BY <1>1, <2>1, <2>2, <3>1 DEF PhaseInv, Queued
  <2>. QED  BY <2>1, <2>3, <2>4, <2>5 DEF Events, EventKinds
<1>5. CASE QuietStep
  <2>1. UNCHANGED <<appRx, run>> /\ (phase' = phase \/ phase' = Phase("PreSync", NoRun))
    BY <1>5, QuietFacts
  <2>2. CASE phase' = Phase("PreSync", NoRun)
    BY <2>2 DEF PhaseInv, Phase
  <2>. QED  BY <1>2, <2>1, <2>2
<1>6. CASE ProcessGone \/ Boot
  BY <1>1, <1>6, FreshFacts DEF PhaseInv, Phase
<1>7. CASE Execute
  <2>1. phase' = phase
    BY <1>7 DEF Execute
  <2>2. ASSUME NEW r \in Runs, NEW S \in SUBSET Repos, run[r].st = "none", appRx' = appRx,
               run' = [run EXCEPT ![r] = [st |-> "spawned", req |-> S, deaf |-> FALSE]]
        PROVE  PhaseInv'
    BY <1>2, <2>1, <2>2
  <2>3. ASSUME NEW kind \in {"Cancelled", "Paused", "Active"},
               appRx' = Append(appRx, SessionEvent(kind, NoRun)), run' = run
        PROVE  PhaseInv'
    <3>1. SessionEvent(kind, NoRun) \in Events /\ SessionEvent(kind, NoRun).run = NoRun
      BY EventFacts DEF SessionEvent, Event
    <3>. QED  BY <1>3, <2>1, <2>3, <3>1
  <2>. QED  BY <1>1, <1>7, <2>2, <2>3, ExecuteFacts
<1>8. ASSUME NEW r \in Runs, Engine(r) PROVE PhaseInv'
  <2>1. CASE Launch(r)
    BY <1>1, <1>2, <2>1, LaunchFacts
  <2>2. CASE Close(r)
    <3>1. SessionEvent("Completed", r).run = r
      BY DEF SessionEvent, Event
    <3>. QED  BY <1>1, <1>3, <2>2, <3>1, CloseFacts
  <2>3. ASSUME NEW x \in Repos, Begin(r, x) \/ End(r, x) PROVE PhaseInv'
    <3>1. \A kind \in JobKinds : JobEvent(kind, r, x).run = r
      BY DEF JobEvent, Event
    <3>. QED  BY <1>1, <1>3, <2>3, <3>1, WorkFacts
  <2>. QED  BY <1>8, <2>1, <2>2, <2>3, EngineFacts
<1>. QED  BY <1>4, <1>5, <1>6, <1>7, <1>8, NextFacts

\* What makes a line spin.
Spins(id) == (\E k \in DOMAIN appRx : appRx[k].kind = "Ended" /\ appRx[k].id = id) \/ AtWork(id)

\* A step that receives nothing keeps the reasons of the lines that spin.
LEMMA SpinsStep ==
  ASSUME SInv, [Next]_vars, ~DrainOne, log' = log, log # <<>>, NEW id, Spins(id)
  PROVE  Spins(id)'
<1>1. TypeOK /\ OrderInv
  BY DEF SInv
<1>2. appRx' # <<>> \/ log' # <<>>
  OBVIOUS
<1>3. \A k \in DOMAIN appRx : k \in DOMAIN appRx' /\ appRx'[k] = appRx[k]
  <2>1. ASSUME NEW e \in Events, appRx' = Append(appRx, e)
        PROVE  \A k \in DOMAIN appRx : k \in DOMAIN appRx' /\ appRx'[k] = appRx[k]
    BY <1>1, <2>1, SendFacts
  <2>2. CASE QuietStep
    BY <2>2, QuietFacts
  <2>3. CASE ProcessGone \/ Boot
    BY <1>1, <2>3, FreshFacts
  <2>4. CASE Execute
    BY <1>1, <2>1, <2>4, ExecuteFacts, EventFacts
  <2>5. ASSUME NEW r \in Runs, Engine(r)
        PROVE  \A k \in DOMAIN appRx : k \in DOMAIN appRx' /\ appRx'[k] = appRx[k]
    <3>1. Launch(r) => appRx' = appRx
      BY <1>1, LaunchFacts
    <3>2. Close(r) => \E e \in Events : appRx' = Append(appRx, e)
      BY <1>1, CloseFacts
    <3>3. \A x \in Repos : Begin(r, x) \/ End(r, x) => \E e \in Events : appRx' = Append(appRx, e)
      BY <1>1, WorkFacts
    <3>. QED  BY <2>1, <2>5, <3>1, <3>2, <3>3, EngineFacts
  <2>. QED  BY <2>2, <2>3, <2>4, <2>5, NextFacts
<1>4. CASE \E k \in DOMAIN appRx : appRx[k].kind = "Ended" /\ appRx[k].id = id
  BY <1>3, <1>4 DEF Spins
<1>5. CASE AtWork(id)
  BY <1>2, <1>5, AtWorkStep DEF Spins
<1>. QED  BY <1>4, <1>5 DEF Spins

LEMMA LogStep ==
  ASSUME SInv, [Next]_vars
  PROVE  LogInv'
<1>. USE ConstantFacts
<1>1. /\ TypeOK /\ OrderInv /\ ChannelInv /\ LogInv
      /\ Distinct(log) /\ \A i \in DOMAIN log : log[i].active => Spins(log[i].id)
  BY DEF SInv, LogInv, Distinct, Spins
<1>2. ASSUME Distinct(log'), \A i \in DOMAIN log' : log'[i].active => Spins(log[i].id)'
      PROVE  LogInv'
  BY <1>2 DEF LogInv, Distinct, Spins
<1>3. CASE DrainOne
  <2>1. /\ appRx[1] \in Events /\ Head(appRx) = appRx[1] /\ 1 \in DOMAIN appRx
        /\ DOMAIN appRx = 1 .. Len(appRx) /\ Len(appRx) \in Nat
        /\ DOMAIN appRx' = 1 .. Len(appRx) - 1
        /\ \A k \in DOMAIN appRx' : k + 1 \in DOMAIN appRx /\ appRx'[k] = appRx[k + 1]
    BY <1>1, <1>3, ReceiveFacts DEF DrainOne
  <2>2. PICK e \in Events : e = appRx[1]
    BY <2>1
  <2>3. /\ e.kind = "Started" => e.repo \in Repos
        /\ e.kind = "Started" => Answered(1) \/ AtWork(e.id)
    BY <1>1, <2>1, <2>2, ChannelParts DEF Sound
  <2>4. run' = run /\ job' = job /\ log' = LogAfter(log, e)
    BY <1>3, <2>1, <2>2 DEF DrainOne, engineVars
  <2>5. /\ Distinct(log')
        /\ e.kind = "Started" => Quiet(log, log', e.id)
        /\ e.kind # "Started" =>
             \A i \in DOMAIN log' : log'[i].active =>
               /\ \E k \in DOMAIN log : log[k].id = log'[i].id /\ log[k].active
               /\ e.kind = "Ended" => log'[i].id # e.id
    BY <1>1, <2>3, <2>4, LogAfterFacts
  \* Whatever spins still spins, but for the line of an Ended.
  <2>6. ASSUME NEW id, Spins(id), e.kind = "Ended" => id # e.id
        PROVE  Spins(id)'
    <3>1. CASE AtWork(id)
      BY <2>4, <3>1 DEF Spins, AtWork, Busy, JobId
    <3>2. CASE \E k \in DOMAIN appRx : appRx[k].kind = "Ended" /\ appRx[k].id = id
      <4>1. PICK k \in DOMAIN appRx : appRx[k].kind = "Ended" /\ appRx[k].id = id
        BY <3>2
      <4>2. k # 1
        BY <2>2, <2>6, <4>1
      <4>3. k - 1 \in DOMAIN appRx' /\ appRx'[k - 1] = appRx[k]
        BY <2>1, <4>1, <4>2
      <4>. QED  BY <4>1, <4>3 DEF Spins
    <3>. QED  BY <2>6, <3>1, <3>2 DEF Spins
  <2>7. ASSUME NEW i \in DOMAIN log', log'[i].active PROVE Spins(log[i].id)'
    <3>0. PICK id : id = log'[i].id
      OBVIOUS
    <3>1. CASE \E k \in DOMAIN log : log[k].id = id /\ log[k].active /\ (e.kind = "Ended" => id # e.id)
      <4>1. Spins(id)
        BY <1>1, <3>1
      <4>2. Spins(id)'
        BY <2>6, <3>1, <4>1
      <4>. QED  BY <3>0, <4>2
    <3>2. CASE e.kind = "Started" /\ id = e.id
      <4>1. Spins(id)
        BY <2>2, <2>3, <3>2 DEF Spins, Answered
      <4>2. Spins(id)'
        BY <2>6, <3>2, <4>1
      <4>. QED  BY <3>0, <4>2
    <3>. QED  BY <2>5, <2>7, <3>0, <3>1, <3>2 DEF Quiet
  <2>. QED  BY <1>2, <2>5, <2>7
<1>4. CASE ProcessGone \/ Boot
  BY <1>1, <1>4, FreshFacts DEF LogInv
<1>5. CASE log' = log /\ log # <<>> /\ ~DrainOne
  <2>1. ASSUME NEW i \in DOMAIN log', log'[i].active PROVE Spins(log[i].id)'
    <3>1. PICK id : id = log[i].id /\ Spins(id)
      BY <1>1, <1>5, <2>1
    <3>2. Spins(id)'
      BY <1>5, <3>1, SpinsStep
    <3>. QED  BY <1>5, <3>1, <3>2
  <2>. QED  BY <1>1, <1>2, <1>5, <2>1
<1>6. CASE log' = <<>>
  BY <1>6 DEF LogInv
<1>7. DrainOne \/ ProcessGone \/ Boot \/ log' = log
  BY <1>1, NextFacts, QuietFacts, EngineFacts, LaunchFacts, CloseFacts, WorkFacts DEF Execute
<1>. QED  BY <1>3, <1>4, <1>5, <1>6, <1>7

\* From the keystroke on there is a run to come, at work, or about to be shown.
LEMMA PreSyncStep ==
  ASSUME SInv, [Next]_vars
  PROVE  PreSyncHasRun'
<1>. USE ConstantFacts
<1>1. TypeOK /\ OrderInv /\ ChannelInv /\ PreSyncHasRun
  BY DEF SInv
<1>2. CASE DrainOne
  <2>1. /\ appRx[1] \in Events /\ Head(appRx) = appRx[1] /\ 1 \in DOMAIN appRx
        /\ DOMAIN appRx = 1 .. Len(appRx) /\ Len(appRx) \in Nat
        /\ DOMAIN appRx' = 1 .. Len(appRx) - 1
        /\ \A k \in DOMAIN appRx' : k + 1 \in DOMAIN appRx /\ appRx'[k] = appRx[k + 1]
    BY <1>1, <1>2, ReceiveFacts DEF DrainOne
  <2>2. run' = run /\ effects' = effects /\ up' = up /\ phase' = PhaseAfter(phase, appRx[1])
    BY <1>2, <2>1 DEF DrainOne, engineVars
  <2>3. CASE appRx[1].kind \in {"Cancelled", "Paused", "Active", "Completed"}
    BY <2>2, <2>3 DEF PhaseAfter, Phase, PreSyncHasRun
  <2>4. CASE appRx[1].kind \in JobKinds
    <3>1. phase' = phase
      BY <2>2, <2>4 DEF PhaseAfter, JobKinds
    <3>2. (\E i \in DOMAIN appRx : appRx[i].kind = "Completed") => \E i \in DOMAIN appRx' : appRx'[i].kind = "Completed"
      <4>1. ASSUME NEW i \in DOMAIN appRx, appRx[i].kind = "Completed"
            PROVE  i - 1 \in DOMAIN appRx' /\ appRx'[i - 1].kind = "Completed"
        <5>1. i # 1
          BY <2>4, <4>1 DEF JobKinds
        <5>. QED  BY <2>1, <4>1, <5>1
      <4>. QED  BY <4>1
    <3>. QED  BY <1>1, <2>2, <3>1, <3>2 DEF PreSyncHasRun, StartPending, InFlight
  <2>. QED  BY <2>1, <2>3, <2>4 DEF Events, EventKinds
<1>3. CASE Drained \/ Tick \/ UNCHANGED vars
  BY <1>1, <1>3 DEF Drained, Tick, vars, loopVars, engineVars, PreSyncHasRun, StartPending, InFlight
\* A key adds to the effects.
<1>4. ASSUME NEW e \in Effects, stage = "input", effects' = Append(effects, e)
      PROVE  StartPending' <=> e.kind = "StartSync"
  <2>1. effects = <<>>
    BY <1>1, <1>4 DEF OrderInv
  <2>2. effects' = <<e>>
    BY <1>4, <2>1
  <2>. QED  BY <2>2 DEF StartPending
<1>5. ASSUME NEW S \in Selections, KeyStart(S) PROVE PreSyncHasRun'
  <2>1. Effect("StartSync", S) \in Effects /\ Effect("StartSync", S).kind = "StartSync"
    BY SelectionsAssumption DEF Effect, Effects
  <2>2. StartPending'
    BY <1>4, <1>5, <2>1 DEF KeyStart
  <2>. QED  BY <2>2 DEF PreSyncHasRun
<1>6. ASSUME NEW kind \in {"PauseSync", "ResumeSync", "CancelSync"}, KeyPress(kind) PROVE PreSyncHasRun'
  <2>1. ~StartPending
    BY <1>1, <1>6 DEF KeyPress, OrderInv, StartPending
  <2>. QED  BY <1>1, <1>6, <2>1 DEF KeyPress, engineVars, PreSyncHasRun, InFlight
<1>7. CASE ProcessGone \/ Boot
  BY <1>1, <1>7, FreshFacts DEF PreSyncHasRun, Phase
<1>8. ASSUME NEW e \in Events, appRx' = Append(appRx, e), effects' = effects \/ ~StartPending, up' = up, phase' = phase,
             \A r \in Runs : InFlight(r) => InFlight(r)' \/ e.kind = "Completed"
      PROVE  PreSyncHasRun'
  <2>1. /\ \A k \in DOMAIN appRx : k \in DOMAIN appRx' /\ appRx'[k] = appRx[k]
        /\ Len(appRx) + 1 \in DOMAIN appRx' /\ appRx'[Len(appRx) + 1] = e
    BY <1>1, <1>8, SendFacts
  <2>2. CASE e.kind = "Completed"
    BY <2>1, <2>2 DEF PreSyncHasRun
  <2>3. CASE e.kind # "Completed"
    BY <1>1, <1>8, <2>1, <2>3 DEF PreSyncHasRun, StartPending
  <2>. QED  BY <2>2, <2>3
<1>9. CASE Execute
  <2>1. phase' = phase /\ up' = up
    BY <1>9 DEF Execute
  <2>2. ASSUME NEW r \in Runs, NEW S \in SUBSET Repos,
               run' = [run EXCEPT ![r] = [st |-> "spawned", req |-> S, deaf |-> FALSE]]
        PROVE  PreSyncHasRun'
    <3>1. InFlight(r)'
      <4>1. run \in [Runs -> RunRecords]
        BY <1>1, TypeFacts
      <4>. QED  BY <2>2, <4>1 DEF InFlight
    <3>. QED  BY <3>1 DEF PreSyncHasRun
  <2>3. ASSUME NEW kind \in {"Cancelled", "Paused", "Active"}, ~StartPending,
               appRx' = Append(appRx, SessionEvent(kind, NoRun)), run' = run
        PROVE  PreSyncHasRun'
    <3>1. SessionEvent(kind, NoRun) \in Events
      BY EventFacts
    <3>. QED  BY <1>8, <2>1, <2>3, <3>1 DEF InFlight
  <2>. QED  BY <1>1, <1>9, <2>2, <2>3, ExecuteFacts
<1>10. ASSUME NEW r \in Runs, Engine(r) PROVE PreSyncHasRun'
  <2>1. CASE Launch(r)
    <3>1. InFlight(r)'
      BY <1>1, <2>1, LaunchFacts DEF InFlight
    <3>. QED  BY <3>1 DEF PreSyncHasRun
  <2>2. CASE Close(r)
    <3>1. SessionEvent("Completed", r).kind = "Completed"
      BY DEF SessionEvent, Event
    <3>. QED  BY <1>1, <1>8, <2>2, <3>1, CloseFacts
  <2>3. ASSUME NEW x \in Repos, Begin(r, x) \/ End(r, x) PROVE PreSyncHasRun'
    BY <1>1, <1>8, <2>3, WorkFacts DEF InFlight
  <2>. QED  BY <1>10, <2>1, <2>2, <2>3, EngineFacts
<1>. QED  BY <1>2, <1>3, <1>5, <1>6, <1>7, <1>9, <1>10, NextFacts DEF QuietStep

----------------------------------------------------------------------------
(* The invariant and what follows from it *)

LEMMA InitSInv == Init => SInv
<1>. SUFFICES ASSUME Init PROVE SInv
  OBVIOUS
<1>1. TypeOK
  BY InitType
<1>2. OrderInv
  <2>1. \A r \in Runs : run[r].st # "none" <=> r <= 0
    BY ConstantFacts DEF Init, Unstarted
  <2>2. 0 \in 0 .. MaxRuns
    BY ConstantFacts
  <2>3. effects = <<>> /\ stage = "drain"
    BY DEF Init
  <2>. QED  BY <2>1, <2>2, <2>3 DEF OrderInv, StartPending
<1>3. JobInv
  BY DEF Init, JobInv
<1>4. ChannelInv /\ LogInv
  BY DEF Init, ChannelInv, LogInv
<1>5. PhaseInv /\ PreSyncHasRun
  BY DEF Init, Phase, PhaseInv, PreSyncHasRun
<1>. QED  BY <1>1, <1>2, <1>3, <1>4, <1>5 DEF SInv

LEMMA StepSInv == SInv /\ [Next]_vars => SInv'
BY TypeStep, OrderStep, JobStep, ChannelStep, PhaseStep, LogStep, PreSyncStep DEF SInv

\* The invariant holds of every session.
THEOREM Invariance == Spec => []SInv
BY InitSInv, StepSInv, PTL DEF Spec

\* Every variable keeps its type, and the log its limit.
THEOREM TypeCorrect == Spec => []TypeOK
<1>1. SInv => TypeOK
  BY DEF SInv
<1>. QED  BY Invariance, <1>1, PTL

\* However runs overlap and reuse each other's job ids and lines, nothing spins
\* once they have ended and are heard to the end (log_event, reduce_event).
THEOREM LogComesToRest == Spec => []LogSettles
<1>1. SInv => LogSettles
  <2>. SUFFICES ASSUME SInv, appRx = <<>>, \A r \in Runs : ~InFlight(r), NEW i \in DOMAIN log, log[i].active
                PROVE  FALSE
    BY DEF LogSettles
  <2>1. AtWork(log[i].id)
    BY DEF SInv, LogInv
  <2>. QED  BY <2>1 DEF AtWork, Busy, InFlight
<1>. QED  BY Invariance, <1>1, PTL

\* The results screen of a run comes after all its outcomes, whatever other
\* runs and keystrokes put in between (the coordinator's join before
\* SyncAllCompleted, and the order of the channel).
THEOREM ResultsComeLast == Spec => []CompletedIsLast
<1>1. SInv => CompletedIsLast
  BY DEF SInv, PhaseInv, JobInv, CompletedIsLast
<1>. QED  BY Invariance, <1>1, PTL

\* Nobody is left before the waiting screen (DashboardStartSync,
\* ExplorerStartSync).
THEOREM WaitingHasRun == Spec => []PreSyncHasRun
<1>1. SInv => PreSyncHasRun
  BY DEF SInv
<1>. QED  BY Invariance, <1>1, PTL
=============================================================================
