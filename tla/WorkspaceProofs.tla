--------------------------- MODULE WorkspaceProofs ---------------------------
(***************************************************************************)
(* Safety of the running screen for all tabs, categories, drafts and fault *)
(* patterns, and any number of turns and refreshes.  The settings tab and  *)
(* memory are the heart of it: WellFormed says what holds of the two, and  *)
(* each way to change them is shown to keep it.                            *)
(***************************************************************************)
EXTENDS WorkspaceInv, SequenceTheorems, TLAPS

----------------------------------------------------------------------------
(* The operators the model is built from *)

\* Which fields are texts, and how many options the others have.
LEMMA OptionsFacts ==
  /\ \A k \in Keys : Options[k] \in {0, 2, 3}
  /\ \A k \in Keys : k \in Typed <=> Options[k] = 0
  /\ \A k \in Keys : k \in Typed <=> k \in {"clone_path", "concurrency", "org_input", "topic_filter", "timeout_secs"}
  /\ Options["retry_failed"] = 2
<1>1. \A k \in Keys : Options[k] = IF k \in {"skip_archived", "skip_forks", "retry_failed"} THEN 2
                                   ELSE IF k = "default_source" THEN 3 ELSE 0
  BY DEF Options
<1>2. \A k \in Keys : k \in Typed <=> Options[k] = 0
  BY DEF Typed
<1>3. "retry_failed" \in Keys
  BY DEF Keys, ShownOnly
<1>. QED  BY <1>1, <1>2, <1>3 DEF Keys, InMemory, ShownOnly

\* The keys of a category are a short sequence without repetition.
LEMMA KeysOfFacts ==
  ASSUME NEW c \in CategorySet
  PROVE  /\ KeysOf(c) \in Seq(Keys) /\ KeysOf(c) # <<>>
         /\ \A i, j \in DOMAIN KeysOf(c) : KeysOf(c)[i] = KeysOf(c)[j] => i = j
<1>1. c \in {"General", "Clone", "Sync", "GitHub", "Advanced"}
  BY CategoriesAssumption DEF CategorySet
<1>2. CASE c = "General"
  <2>1. KeysOf(c) = <<"clone_path", "concurrency">>
    BY <1>2 DEF KeysOf
  <2>. QED  BY <2>1 DEF Keys, InMemory
<1>3. CASE c = "Clone"
  <2>1. KeysOf(c) = <<"skip_archived", "skip_forks">>
    BY <1>3 DEF KeysOf
  <2>. QED  BY <2>1 DEF Keys, InMemory
<1>4. CASE c = "Sync"
  <2>1. KeysOf(c) = <<"concurrency", "retry_failed">>
    BY <1>4 DEF KeysOf
  <2>. QED  BY <2>1 DEF Keys, InMemory, ShownOnly
<1>5. CASE c = "GitHub"
  <2>1. KeysOf(c) = <<"default_source", "org_input", "topic_filter">>
    BY <1>5 DEF KeysOf
  <2>. QED  BY <2>1 DEF Keys, InMemory
<1>6. CASE c = "Advanced"
  <2>1. KeysOf(c) = <<"timeout_secs">>
    BY <1>6 DEF KeysOf
  <2>. QED  BY <2>1 DEF Keys, ShownOnly
<1>. QED  BY <1>1, <1>2, <1>3, <1>4, <1>5, <1>6

\* What memory may hold.
MemoryType(m) ==
  /\ m \in [InMemory -> Values] /\ m["concurrency"] \in 0 .. MaxConcurrency
  /\ \A k \in InMemory : m[k] \in ValuesOf(k)

LEMMA ValuesFacts ==
  /\ \A k \in Keys : ValuesOf(k) \subseteq Values /\ 0 \in ValuesOf(k)
  /\ Values \subseteq Int /\ Absent \notin Values /\ Garbage \in Values
  /\ "concurrency" \in InMemory /\ InMemory \subseteq Keys
<1>1. \A k \in Keys : ValuesOf(k) \subseteq Values /\ 0 \in ValuesOf(k)
  BY OptionsFacts DEF ValuesOf, Values
<1>. QED  BY <1>1 DEF Values, Garbage, Absent, InMemory, Keys

\* apply_setting_value keeps a value in its range, the concurrency clamped.
LEMMA TakenFacts ==
  ASSUME NEW k \in InMemory, NEW v \in ValuesOf(k), NEW old \in ValuesOf(k),
         k = "concurrency" => old \in 0 .. MaxConcurrency
  PROVE  /\ Taken(k, v, old) \in ValuesOf(k)
         /\ k = "concurrency" => Taken(k, v, old) \in 0 .. MaxConcurrency
         /\ k # "concurrency" => Taken(k, v, old) = v
<1>1. CASE k # "concurrency"
  BY <1>1 DEF Taken, InBounds
<1>2. CASE k = "concurrency"
  <2>1. ValuesOf(k) = Values
    BY <1>2, OptionsFacts, ValuesFacts DEF ValuesOf
  <2>2. Taken(k, v, old) \in 0 .. MaxConcurrency
    BY <1>2, <2>1 DEF Taken, InBounds, Values, Garbage, Larger, Smaller, MaxConcurrency
  <2>. QED  BY <1>2, <2>1, <2>2 DEF Values
<1>. QED  BY <1>1, <1>2

\* A value that was taken comes back from the table as it was taken, and so
\* does one that memory holds already.
LEMMA TakenComesBack ==
  ASSUME NEW k \in InMemory, NEW v \in ValuesOf(k), v # Garbage, NEW old, NEW d
  PROVE  Taken(k, v, d) = InBounds(k, Taken(k, v, old))
BY DEF Taken, InBounds, Larger, Smaller, MaxConcurrency

LEMMA HeldComesBack ==
  ASSUME NEW k \in InMemory, NEW v \in ValuesOf(k), k = "concurrency" => v \in 0 .. MaxConcurrency, NEW d
  PROVE  Taken(k, v, d) = InBounds(k, v)
BY DEF Taken, Garbage

LEMMA DefaultsFacts == MemoryType(Defaults)
BY ValuesFacts DEF MemoryType, Defaults, MaxConcurrency

\* What a field shows is in the range of its key.
LEMMA ShownFacts ==
  ASSUME NEW m, MemoryType(m), NEW k \in Keys
  PROVE  /\ Shown(k, m) \in ValuesOf(k) /\ Shown(k, m) \in Values
         /\ k \in InMemory => Shown(k, m) = m[k]
<1>1. CASE k \in InMemory
  BY <1>1 DEF Shown, MemoryType
<1>2. CASE k \notin InMemory
  <2>1. k = "retry_failed" \/ k = "timeout_secs"
    BY <1>2 DEF Keys, ShownOnly
  <2>2. Shown(k, m) = IF k = "retry_failed" THEN 1 ELSE 1800
    BY <1>2 DEF Shown
  <2>. QED  BY <1>2, <2>1, <2>2, OptionsFacts DEF ValuesOf, Values
<1>. QED  BY <1>1, <1>2

\* What a start loads is in range, whatever could not be read.
LEMMA LoadedFacts ==
  ASSUME TypeOK, NEW unread
  PROVE  MemoryType(Loaded(unread))
<1>1. ASSUME NEW k \in InMemory
      PROVE  /\ Loaded(unread)[k] \in ValuesOf(k)
             /\ k = "concurrency" => Loaded(unread)[k] \in 0 .. MaxConcurrency
  <2>1. /\ Defaults[k] \in ValuesOf(k) /\ k \in Keys
        /\ k = "concurrency" => Defaults[k] \in 0 .. MaxConcurrency
    BY DefaultsFacts, ValuesFacts DEF MemoryType
  <2>2. CASE db[k] = Absent \/ k \in unread
    BY <2>1, <2>2 DEF Loaded
  <2>3. CASE ~(db[k] = Absent \/ k \in unread)
    <3>1. db[k] \in ValuesOf(k)
      BY <2>1, <2>3 DEF TypeOK
    <3>2. Loaded(unread)[k] = Taken(k, db[k], Defaults[k])
      BY <2>3 DEF Loaded
    <3>. QED  BY <2>1, <3>1, <3>2, TakenFacts
  <2>. QED  BY <2>2, <2>3
<1>2. Loaded(unread) = [k \in InMemory |-> Loaded(unread)[k]]
  BY DEF Loaded
<1>3. \A k \in InMemory : Loaded(unread)[k] \in Values
  BY <1>1, ValuesFacts
<1>. QED  BY <1>1, <1>2, <1>3, ValuesFacts DEF MemoryType
----------------------------------------------------------------------------
(* The settings tab and memory *)

FieldType == [key : Keys, value : Values]
SettingsType == [category : CategorySet, fields : Seq(FieldType), editing : Nat, draft : Values]

\* The state s of the settings tab fits the memory m and the key o that was
\* opened last: its parts of TypeOK, FieldsInv and FieldsTellMemory.
WellFormed(s, m, o) ==
  /\ s \in SettingsType /\ s.editing <= Len(s.fields)
  /\ \A i \in DOMAIN s.fields : s.fields[i].value \in ValuesOf(s.fields[i].key)
  /\ s.fields = <<>> \/ [i \in DOMAIN s.fields |-> s.fields[i].key] = KeysOf(s.category)
  /\ s.editing # 0 => s.editing \in DOMAIN s.fields /\ s.fields[s.editing].key = o /\ o \in Typed
  /\ \A i \in DOMAIN s.fields : s.fields[i].key \in InMemory => s.fields[i].value = m[s.fields[i].key]

LEMMA WellFormedNow ==
  ASSUME WInv
  PROVE  WellFormed(settings, mem, opened) /\ MemoryType(mem)
BY DEF WInv, TypeOK, FieldsInv, FieldsTellMemory, WellFormed, MemoryType, SettingsType, FieldType, Field

\* A field of a well-formed tab has a key and a value, and no other field of
\* the tab has its key.
LEMMA FieldFacts ==
  ASSUME NEW s, NEW m, NEW o, WellFormed(s, m, o), NEW i \in DOMAIN s.fields
  PROVE  /\ s.fields[i] = [key |-> s.fields[i].key, value |-> s.fields[i].value]
         /\ s.fields[i].key \in Keys /\ s.fields[i].value \in Values
         /\ \A j \in DOMAIN s.fields : s.fields[j].key = s.fields[i].key => j = i
<1>1. s.fields \in Seq(FieldType) /\ s.category \in CategorySet
  BY DEF WellFormed, SettingsType
<1>2. s.fields[i] \in FieldType
  BY <1>1
<1>3. [j \in DOMAIN s.fields |-> s.fields[j].key] = KeysOf(s.category)
  <2>1. s.fields # <<>>
    BY <1>1
  <2>. QED  BY <2>1 DEF WellFormed
<1>4. \A j \in DOMAIN s.fields : j \in DOMAIN KeysOf(s.category) /\ KeysOf(s.category)[j] = s.fields[j].key
  BY <1>3
<1>5. \A j \in DOMAIN s.fields : s.fields[j].key = s.fields[i].key => j = i
  BY <1>1, <1>4, KeysOfFacts
<1>. QED  BY <1>2, <1>5 DEF FieldType

LEMMA FreshIsWellFormed ==
  ASSUME NEW m, NEW o
  PROVE  WellFormed(FreshSettings, m, o)
<1>1. FreshSettings \in SettingsType
  <2>1. "General" \in CategorySet /\ 0 \in Values /\ <<>> \in Seq(FieldType)
    BY CategoriesAssumption, EmptySeq DEF Values
  <2>. QED  BY <2>1 DEF FreshSettings, SettingsType
<1>2. FreshSettings.fields = <<>> /\ FreshSettings.editing = 0 /\ Len(<<>>) = 0 /\ DOMAIN <<>> = {}
  BY DEF FreshSettings
<1>. QED  BY <1>1, <1>2 DEF WellFormed

\* Fields that are shown anew are those of the category, with what memory holds.
LEMMA RebuiltIsWellFormed ==
  ASSUME NEW s \in SettingsType, s.editing = 0, NEW m, MemoryType(m), NEW o
  PROVE  WellFormed(Rebuilt(s, m), m, o) /\ Rebuilt(s, m).editing = 0
<1>. DEFINE K == KeysOf(s.category)
            F == [i \in DOMAIN K |-> [key |-> K[i], value |-> Shown(K[i], m)]]
<1>1. Rebuilt(s, m) = [s EXCEPT !.fields = F]
  BY DEF Rebuilt
<1>2. K \in Seq(Keys) /\ DOMAIN K = 1 .. Len(K) /\ Len(K) \in Nat
  BY KeysOfFacts DEF SettingsType
<1>3. \A i \in DOMAIN K : K[i] \in Keys
  BY <1>2
<1>. HIDE DEF K
<1>4. \A i \in DOMAIN K : F[i] \in FieldType /\ F[i].key = K[i] /\ F[i].value = Shown(K[i], m)
  BY <1>3, ShownFacts DEF FieldType
<1>5. DOMAIN F = DOMAIN K
  OBVIOUS
<1>. HIDE DEF F
<1>6. F \in Seq(FieldType)
  <2>1. \A i \in 1 .. Len(K) : F[i] \in FieldType
    BY <1>2, <1>4
  <2>2. F = [i \in 1 .. Len(K) |-> F[i]]
    BY <1>2 DEF F
  <2>. QED  BY <1>2, <2>1, <2>2
<1>7. [i \in DOMAIN F |-> F[i].key] = K
  <2>1. [i \in DOMAIN F |-> F[i].key] = [i \in DOMAIN K |-> K[i]]
    BY <1>4, <1>5
  <2>. QED  BY <1>2, <2>1
<1>8. /\ Rebuilt(s, m).fields = F /\ Rebuilt(s, m).editing = 0 /\ Rebuilt(s, m).category = s.category
      /\ Rebuilt(s, m) \in SettingsType
  BY <1>1, <1>6 DEF SettingsType
<1>9. \A i \in DOMAIN F : F[i].value \in ValuesOf(F[i].key) /\ (F[i].key \in InMemory => F[i].value = m[F[i].key])
  BY <1>3, <1>4, <1>5, ShownFacts
<1>10. Len(F) \in Nat
  BY <1>6
<1>. QED  BY <1>7, <1>8, <1>9, <1>10 DEF WellFormed, K
\* The neighbour of a member of a sequence, in either direction, is a member.
LEMMA StepFacts ==
  ASSUME NEW T, NEW s \in Seq(T), NEW x \in {s[i] : i \in DOMAIN s}, NEW by \in {1, -1}
  PROVE  Step(s, x, by) \in {s[i] : i \in DOMAIN s}
<1>1. Len(s) \in Nat /\ DOMAIN s = 1 .. Len(s)
  OBVIOUS
<1>2. IndexOf(x, s) \in DOMAIN s
  BY DEF IndexOf
<1>3. Len(s) > 0 /\ IndexOf(x, s) \in Int
  BY <1>1, <1>2
<1>4. \A a \in Int : a % Len(s) \in 0 .. Len(s) - 1
  BY <1>1, <1>3
<1>5. ((IndexOf(x, s) + by + Len(s) - 1) % Len(s)) + 1 \in 1 .. Len(s)
  <2>. DEFINE a == IndexOf(x, s) + by + Len(s) - 1
  <2>1. a \in Int
    BY <1>1, <1>3
  <2>. HIDE DEF a
  <2>2. a % Len(s) \in 0 .. Len(s) - 1
    BY <1>4, <2>1
  <2>3. (a % Len(s)) + 1 \in 1 .. Len(s)
    BY <1>1, <2>2
  <2>. QED  BY <2>3 DEF a
<1>. QED  BY <1>1, <1>5 DEF Step

\* Enter on an option: the field and memory take the next one.
LEMMA EditIsWellFormed ==
  ASSUME WInv, NEW i, Edit(i)
  PROVE  WellFormed(settings', mem', opened') /\ MemoryType(mem')
<1>w. WellFormed(settings, mem, opened) /\ MemoryType(mem)
  BY WellFormedNow
<1>. DEFINE k == Field(i).key
            v == (Field(i).value + 1) % Options[k]
<1>1. /\ i \in DOMAIN settings.fields /\ k \in Opened \ Typed /\ settings.editing = 0
      /\ settings' = [settings EXCEPT !.fields[i].value = v]
      /\ mem' = IF k \in InMemory THEN [mem EXCEPT ![k] = Taken(k, v, mem[k])] ELSE mem
  BY DEF Edit, Apply
<1>2. /\ k \in Keys /\ settings.fields[i].value \in ValuesOf(k)
      /\ \A j \in DOMAIN settings.fields : settings.fields[j].key = k => j = i
      /\ settings.fields[i] = [key |-> k, value |-> settings.fields[i].value]
  BY <1>w, <1>1, FieldFacts DEF WellFormed, Field
<1>3. v \in ValuesOf(k)
  <2>1. Options[k] \in {2, 3} /\ ValuesOf(k) = 0 .. Options[k] - 1
    BY <1>1, <1>2, OptionsFacts DEF ValuesOf
  <2>2. CASE Options[k] = 2
    BY <1>2, <2>1, <2>2 DEF Field
  <2>3. CASE Options[k] = 3
    BY <1>2, <2>1, <2>3 DEF Field
  <2>. QED  BY <2>1, <2>2, <2>3
<1>4. k # "concurrency" /\ v \in Values
  BY <1>1, <1>2, <1>3, OptionsFacts, ValuesFacts
<1>5. mem' = IF k \in InMemory THEN [mem EXCEPT ![k] = v] ELSE mem
  BY <1>1, <1>4 DEF Taken, InBounds
<1>6. settings.fields \in Seq(FieldType) /\ settings \in SettingsType
  BY <1>w DEF WellFormed, SettingsType
<1>. HIDE DEF k, v
<1>7. MemoryType(mem')
  BY <1>w, <1>3, <1>4, <1>5 DEF MemoryType
<1>8. settings' = [settings EXCEPT !.fields = [settings.fields EXCEPT ![i] = [key |-> k, value |-> v]]]
  <2>1. [settings.fields[i] EXCEPT !.value = v] = [key |-> k, value |-> v]
    BY <1>2
  <2>. QED  BY Zenon, <1>1, <2>1
<1>. DEFINE F == [settings.fields EXCEPT ![i] = [key |-> k, value |-> v]]
<1>9. /\ F \in Seq(FieldType) /\ DOMAIN F = DOMAIN settings.fields /\ Len(F) = Len(settings.fields)
      /\ F[i] = [key |-> k, value |-> v] /\ \A j \in DOMAIN F : j # i => F[j] = settings.fields[j]
  <2>1. [key |-> k, value |-> v] \in FieldType /\ i \in 1 .. Len(settings.fields)
    BY <1>1, <1>2, <1>4, <1>6 DEF FieldType
  <2>. QED  BY <1>6, <2>1, ExceptSeq
<1>. HIDE DEF F
<1>10. \A j \in DOMAIN F : F[j].key = settings.fields[j].key
  BY <1>2, <1>9
<1>11. /\ settings'.fields = F /\ settings'.category = settings.category
       /\ settings'.editing = 0 /\ settings' \in SettingsType
  BY <1>1, <1>6, <1>8, <1>9 DEF SettingsType, F
<1>12. F = <<>> \/ [j \in DOMAIN F |-> F[j].key] = KeysOf(settings.category)
  <2>1. settings.fields # <<>>
    BY <1>1
  <2>2. [j \in DOMAIN F |-> F[j].key] = [j \in DOMAIN settings.fields |-> settings.fields[j].key]
    BY <1>9, <1>10
  <2>. QED  BY <1>w, <2>1, <2>2 DEF WellFormed
<1>13. ASSUME NEW j \in DOMAIN F
       PROVE  F[j].value \in ValuesOf(F[j].key) /\ (F[j].key \in InMemory => F[j].value = mem'[F[j].key])
  <2>1. CASE j = i
    BY <1>w, <1>3, <1>5, <1>9, <2>1 DEF MemoryType
  <2>2. CASE j # i
    <3>1. F[j] = settings.fields[j] /\ j \in DOMAIN settings.fields /\ F[j].key # k
      BY <1>2, <1>9, <2>2
    <3>2. F[j].key \in InMemory => mem'[F[j].key] = mem[F[j].key]
      BY <1>w, <1>5, <3>1 DEF MemoryType
    <3>. QED  BY <1>w, <3>1, <3>2 DEF WellFormed
  <2>. QED  BY <2>1, <2>2
<1>14. 0 <= Len(F)
  BY <1>9
<1>. QED  BY <1>7, <1>11, <1>12, <1>13, <1>14 DEF WellFormed

\* Saving: memory takes the draft, and the fields are shown anew.
LEMMA SaveIsWellFormed ==
  ASSUME WInv, Save
  PROVE  WellFormed(settings', mem', opened') /\ MemoryType(mem')
<1>w. WellFormed(settings, mem, opened) /\ MemoryType(mem)
  BY WellFormedNow
<1>. DEFINE i == settings.editing
            k == Field(i).key
            fields == IF i = 0 THEN settings.fields
                      ELSE [settings.fields EXCEPT ![i].value = settings.draft]
<1>1. /\ mem' = IF i # 0 /\ k \in InMemory THEN [mem EXCEPT ![k] = Taken(k, settings.draft, mem[k])] ELSE mem
      /\ settings' = Rebuilt([settings EXCEPT !.fields = fields, !.editing = 0, !.draft = 0], mem')
  BY DEF Save
<1>2. settings \in SettingsType /\ settings.fields \in Seq(FieldType) /\ settings.draft \in Values
  BY <1>w DEF WellFormed, SettingsType
<1>3. i # 0 => i \in DOMAIN settings.fields /\ k \in Typed
  BY <1>w DEF WellFormed, Field
<1>4. fields \in Seq(FieldType)
  <2>1. CASE i = 0
    BY <1>2, <2>1
  <2>2. CASE i # 0
    <3>1. fields = [settings.fields EXCEPT ![i] = [key |-> k, value |-> settings.draft]]
      <4>1. settings.fields[i] = [key |-> k, value |-> settings.fields[i].value]
        BY <1>w, <1>3, <2>2, FieldFacts DEF Field
      <4>. QED  BY <1>2, <1>3, <2>2, <4>1
    <3>2. [key |-> k, value |-> settings.draft] \in FieldType /\ i \in 1 .. Len(settings.fields)
      <4>1. settings.fields[i].key \in Keys
        BY <1>w, <1>3, <2>2, FieldFacts
      <4>. QED  BY <1>2, <1>3, <2>2, <4>1 DEF FieldType, Field
    <3>. QED  BY <1>2, <3>1, <3>2, ExceptSeq
  <2>. QED  BY <2>1, <2>2
<1>5. MemoryType(mem')
  <2>1. CASE i # 0 /\ k \in InMemory
    <3>1. settings.draft \in ValuesOf(k) /\ mem[k] \in ValuesOf(k)
      BY <1>w, <1>2, <1>3, <2>1 DEF ValuesOf, MemoryType
    <3>2. /\ Taken(k, settings.draft, mem[k]) \in ValuesOf(k)
          /\ k = "concurrency" => Taken(k, settings.draft, mem[k]) \in 0 .. MaxConcurrency
      BY <1>w, <2>1, <3>1, TakenFacts DEF MemoryType
    <3>3. mem' = [mem EXCEPT ![k] = Taken(k, settings.draft, mem[k])]
      BY <1>1, <2>1
    <3>. HIDE DEF k
    <3>. QED  BY <1>w, <2>1, <3>2, <3>3, ValuesFacts DEF MemoryType
  <2>2. CASE ~(i # 0 /\ k \in InMemory)
    BY <1>w, <1>1, <2>2
  <2>. QED  BY <2>1, <2>2
<1>. DEFINE s == [settings EXCEPT !.fields = fields, !.editing = 0, !.draft = 0]
<1>6. s \in SettingsType /\ s.editing = 0
  <2>. HIDE DEF fields
  <2>. QED  BY <1>2, <1>4, ValuesFacts DEF SettingsType, Values
<1>. HIDE DEF s
<1>7. settings' = Rebuilt(s, mem')
  BY <1>1 DEF s
<1>. QED  BY <1>5, <1>6, <1>7, RebuiltIsWellFormed

LEMMA SettingsStep ==
  ASSUME WInv, [Next]_vars
  PROVE  WellFormed(settings', mem', opened') /\ MemoryType(mem')
<1>w. WellFormed(settings, mem, opened) /\ MemoryType(mem)
  BY WellFormedNow
<1>s. settings \in SettingsType
  BY <1>w DEF WellFormed
<1>1. CASE Quit \/ SignedInAgain
  <2>1. settings' = FreshSettings /\ mem' = Defaults
    BY <1>1 DEF Quit, SignedInAgain, Arrive
  <2>. QED  BY <2>1, FreshIsWellFormed, DefaultsFacts
<1>2. CASE Boot
  <2>1. settings' = FreshSettings /\ (mem' = Defaults \/ \E unread : mem' = Loaded(unread))
    BY <1>2 DEF Boot, Arrive
  <2>. QED  BY <2>1, FreshIsWellFormed, DefaultsFacts, LoadedFacts DEF WInv
<1>3. CASE SwitchCategory
  <2>. DEFINE s == [settings EXCEPT !.category = Step(Categories, settings.category, 1), !.editing = 0, !.draft = 0]
  <2>1. settings' = Rebuilt(s, mem) /\ mem' = mem
    BY <1>3 DEF SwitchCategory
  <2>2. Step(Categories, settings.category, 1) \in CategorySet
    BY <1>s, CategoriesAssumption, StepFacts DEF CategorySet, SettingsType
  <2>3. s \in SettingsType /\ s.editing = 0
    BY <1>s, <2>2 DEF SettingsType, Values
  <2>. HIDE DEF s
  <2>. QED  BY <1>w, <2>1, <2>3, RebuiltIsWellFormed
<1>4. ASSUME NEW n, SwitchTabByNumber(n) PROVE WellFormed(settings', mem', opened') /\ MemoryType(mem')
  <2>1. mem' = mem /\ opened' = opened /\ (settings' = settings \/ settings' = Rebuilt(settings, mem))
    BY <1>4 DEF SwitchTabByNumber
  <2>2. WellFormed(Rebuilt(settings, mem), mem, opened)
    <3>1. CASE settings.editing = 0
      BY <1>w, <1>s, <3>1, RebuiltIsWellFormed
    <3>2. CASE settings.editing # 0
      <4>1. Rebuilt(settings, mem) = settings
        BY <3>2 DEF Rebuilt
      <4>. QED  BY <1>w, <4>1
    <3>. QED  BY <3>1, <3>2
  <2>. QED  BY <1>w, <2>1, <2>2
<1>5. ASSUME NEW i, Edit(i) PROVE WellFormed(settings', mem', opened') /\ MemoryType(mem')
  BY <1>5, EditIsWellFormed
<1>6. ASSUME NEW i, Open(i) PROVE WellFormed(settings', mem', opened') /\ MemoryType(mem')
  <2>1. /\ i \in DOMAIN settings.fields /\ Field(i).key \in Typed /\ mem' = mem
        /\ settings' = [settings EXCEPT !.editing = i, !.draft = Field(i).value]
        /\ opened' = Field(i).key
    BY <1>6 DEF Open
  <2>2. i \in Nat \ {0} /\ i <= Len(settings.fields) /\ Field(i).value \in Values
    <3>1. settings.fields[i].value \in Values
      BY <1>w, <2>1, FieldFacts
    <3>2. settings.fields \in Seq(FieldType)
      BY <1>s DEF SettingsType
    <3>. QED  BY <2>1, <3>1, <3>2 DEF Field
  <2>3. /\ settings' \in SettingsType /\ settings'.fields = settings.fields
        /\ settings'.category = settings.category /\ settings'.editing = i
    BY <1>s, <2>1, <2>2 DEF SettingsType
  <2>. QED  BY <1>w, <2>1, <2>2, <2>3 DEF WellFormed, Field
<1>7. ASSUME NEW v \in Drafted, TypeKey(v) PROVE WellFormed(settings', mem', opened') /\ MemoryType(mem')
  <2>1. settings' = [settings EXCEPT !.draft = v] /\ mem' = mem /\ opened' = opened
    BY <1>7 DEF TypeKey
  <2>2. v \in Values
    BY DraftsAssumption DEF Drafted, Values
  <2>3. /\ settings' \in SettingsType /\ settings'.fields = settings.fields
        /\ settings'.category = settings.category /\ settings'.editing = settings.editing
    BY <1>s, <2>1, <2>2 DEF SettingsType
  <2>. QED  BY <1>w, <2>1, <2>3 DEF WellFormed
<1>8. CASE Save
  BY <1>8, SaveIsWellFormed
<1>9. CASE UNCHANGED <<settings, mem, opened>>
  BY <1>9, <1>w
<1>. QED  BY <1>1, <1>2, <1>3, <1>4, <1>5, <1>6, <1>7, <1>8, <1>9
          DEF Next, Tick, DiscoveryFailed, RefreshDone, SaveSetting, OverlayKey, OpenHelp,
              OpenCommandPalette, Esc, EnterOnOverlay, DismissWelcome, FrameForOverlay, TabKeys, TabKey,
              BackTabKey, StartSync, RefreshStats, SettingsKey, vars, beneath
----------------------------------------------------------------------------
(* Saving *)

\* The fields a save hands to its tasks: as shown, but for the draft.
SavedFields ==
  IF settings.editing = 0 THEN settings.fields
  ELSE [settings.fields EXCEPT ![settings.editing].value = settings.draft]

LEMMA SavedFieldsFacts ==
  ASSUME WInv
  PROVE  /\ DOMAIN SavedFields = DOMAIN settings.fields
         /\ \A j \in DOMAIN SavedFields :
              /\ SavedFields[j].key = Field(j).key
              /\ SavedFields[j].key \in Keys /\ SavedFields[j].value \in ValuesOf(SavedFields[j].key)
              /\ SavedFields[j].value = IF j = settings.editing THEN settings.draft ELSE Field(j).value
         /\ \A i, j \in DOMAIN SavedFields : SavedFields[i].key = SavedFields[j].key => i = j
<1>w. WellFormed(settings, mem, opened)
  BY WellFormedNow
<1>1. settings.fields \in Seq(FieldType) /\ settings.draft \in Values
  BY <1>w DEF WellFormed, SettingsType
<1>2. \A j \in DOMAIN settings.fields :
        /\ settings.fields[j] = [key |-> settings.fields[j].key, value |-> settings.fields[j].value]
        /\ settings.fields[j].key \in Keys /\ settings.fields[j].value \in ValuesOf(settings.fields[j].key)
  BY <1>w, FieldFacts DEF WellFormed
<1>3. \A i, j \in DOMAIN settings.fields : settings.fields[i].key = settings.fields[j].key => i = j
  BY <1>w, FieldFacts
<1>4. DOMAIN SavedFields = DOMAIN settings.fields
  BY DEF SavedFields
<1>5. ASSUME NEW j \in DOMAIN settings.fields
      PROVE  /\ SavedFields[j].key = settings.fields[j].key
             /\ SavedFields[j].value = IF j = settings.editing THEN settings.draft ELSE settings.fields[j].value
  <2>1. CASE settings.editing = 0
    <3>1. j # 0
      BY <1>1
    <3>. QED  BY <2>1, <3>1 DEF SavedFields
  <2>2. CASE settings.editing # 0 /\ j # settings.editing
    BY <2>2 DEF SavedFields
  <2>3. CASE settings.editing # 0 /\ j = settings.editing
    <3>1. SavedFields[j] = [settings.fields[j] EXCEPT !.value = settings.draft]
      BY <2>3 DEF SavedFields
    <3>. QED  BY <1>2, <2>3, <3>1
  <2>. QED  BY <2>1, <2>2, <2>3
<1>6. ASSUME NEW j \in DOMAIN settings.fields, j = settings.editing
      PROVE  settings.draft \in ValuesOf(settings.fields[j].key)
  <2>1. j # 0
    BY <1>1
  <2>2. settings.fields[j].key \in Typed
    BY <1>w, <1>6, <2>1 DEF WellFormed
  <2>. QED  BY <1>1, <2>2 DEF ValuesOf
<1>. QED  BY <1>2, <1>3, <1>4, <1>5, <1>6 DEF Field

\* What Save does, in terms of these fields.
LEMMA SaveFacts ==
  ASSUME WInv, Save
  PROVE  /\ turns < MaxTurns /\ turns' = turns + 1 /\ UNCHANGED <<proc, tab, welcome, overlay, db, stats, opened>>
         /\ \A t : t \in saves' <=>
              \/ t \in saves
              \/ \E j \in DOMAIN SavedFields :
                   t = [key |-> SavedFields[j].key, value |-> SavedFields[j].value, turn |-> turns]
         /\ \A k \in agreed' :
              \/ k \in agreed /\ \A j \in DOMAIN SavedFields : SavedFields[j].key # k
              \/ \E j \in DOMAIN SavedFields :
                   /\ k = SavedFields[j].key /\ k \in InMemory /\ SavedFields[j].value # Garbage
                   /\ \A t \in saves : t.key # k
         /\ mem' = IF settings.editing # 0 /\ Field(settings.editing).key \in InMemory
                   THEN [mem EXCEPT ![Field(settings.editing).key] =
                           Taken(Field(settings.editing).key, settings.draft, mem[Field(settings.editing).key])]
                   ELSE mem
<1>. DEFINE S == {SavedFields[j] : j \in DOMAIN SavedFields}
<1>1. saves' = saves \cup {[key |-> f.key, value |-> f.value, turn |-> turns] : f \in S}
  BY DEF Save, SavedFields
<1>2. agreed' = (agreed \ {f.key : f \in S})
                \cup {f.key : f \in {g \in S : g.key \in InMemory /\ g.value # Garbage /\ \A t \in saves : t.key # g.key}}
  BY DEF Save, SavedFields
<1>3. /\ turns < MaxTurns /\ turns' = turns + 1 /\ UNCHANGED <<proc, tab, welcome, overlay, db, stats, opened>>
      /\ mem' = IF settings.editing # 0 /\ Field(settings.editing).key \in InMemory
                THEN [mem EXCEPT ![Field(settings.editing).key] =
                        Taken(Field(settings.editing).key, settings.draft, mem[Field(settings.editing).key])]
                ELSE mem
  BY DEF Save, Turn, FrameForKeys
<1>. QED  BY <1>1, <1>2, <1>3

\* A save leaves the settings that were saved alone with one task, whose value
\* is the one in memory.
LEMMA SaveAgrees ==
  ASSUME WInv, Save
  PROVE  AgreedInv'
<1>w. WellFormed(settings, mem, opened) /\ MemoryType(mem)
  BY WellFormedNow
<1>i. TypeOK /\ AgreedInv /\ agreed \subseteq InMemory
  BY DEF WInv, TypeOK
<1>. DEFINE e == Field(settings.editing).key
<1>e. settings.editing # 0 => settings.editing \in DOMAIN SavedFields /\ SavedFields[settings.editing].key = e
  BY <1>w, SavedFieldsFacts DEF WellFormed
<1>m. /\ \A k \in InMemory : (\A j \in DOMAIN SavedFields : SavedFields[j].key # k) => mem'[k] = mem[k]
      /\ \A k \in InMemory : settings.editing # 0 /\ k # e => mem'[k] = mem[k]
      /\ settings.editing = 0 => mem' = mem
      /\ settings.editing # 0 /\ e \in InMemory => mem'[e] = Taken(e, settings.draft, mem[e])
  <2>. HIDE DEF e
  <2>1. mem' = IF settings.editing # 0 /\ e \in InMemory THEN [mem EXCEPT ![e] = Taken(e, settings.draft, mem[e])] ELSE mem
    BY SaveFacts DEF e
  <2>2. mem \in [InMemory -> Values]
    BY <1>w DEF MemoryType
  <2>. QED  BY <1>e, <2>1, <2>2
<1>. SUFFICES ASSUME NEW k \in agreed'
              PROVE  /\ \A t \in saves' : t.key = k => ComesBack(k, t.value)'
                     /\ \A t, u \in saves' : t.key = k /\ u.key = k => t = u
                     /\ (\A t \in saves' : t.key # k) => ComesBack(k, db[k])'
  BY DEF AgreedInv
<1>1. CASE k \in agreed /\ \A j \in DOMAIN SavedFields : SavedFields[j].key # k
  <2>1. \A t \in saves' : t.key = k => t \in saves
    BY <1>1, SaveFacts
  <2>2. mem'[k] = mem[k] /\ db' = db /\ saves \subseteq saves'
    BY <1>1, <1>i, <1>m, SaveFacts
  <2>3. \A v : ComesBack(k, v)' <=> ComesBack(k, v)
    BY <2>2 DEF ComesBack
  <2>4. ComesBack(k, db[k])' <=> ComesBack(k, db[k])
    BY <2>2 DEF ComesBack
  <2>5. /\ \A t \in saves : t.key = k => ComesBack(k, t.value)
        /\ \A t, u \in saves : t.key = k /\ u.key = k => t = u
        /\ (\A t \in saves : t.key # k) => ComesBack(k, db[k])
    BY <1>1, <1>i DEF AgreedInv
  <2>. QED  BY <2>1, <2>2, <2>3, <2>4, <2>5
<1>2. CASE \E j \in DOMAIN SavedFields :
             /\ k = SavedFields[j].key /\ k \in InMemory /\ SavedFields[j].value # Garbage
             /\ \A t \in saves : t.key # k
  <2>1. PICK j \in DOMAIN SavedFields :
          /\ k = SavedFields[j].key /\ k \in InMemory /\ SavedFields[j].value # Garbage
          /\ \A t \in saves : t.key # k
    BY <1>2
  <2>v. PICK v : v = SavedFields[j].value
    OBVIOUS
  <2>. DEFINE task == [key |-> k, value |-> v, turn |-> turns]
  <2>2. \A t \in saves' : t.key = k => t = task
    BY <2>1, <2>v, SaveFacts, SavedFieldsFacts
  <2>3. task \in saves' /\ task.key = k /\ task.value = v
    BY <2>1, <2>v, SaveFacts
  <2>4. v \in ValuesOf(k) /\ v # Absent /\ v # Garbage /\ k \in Keys
    BY <2>1, <2>v, SavedFieldsFacts, ValuesFacts
  <2>5. Taken(k, v, Defaults[k]) = InBounds(k, mem'[k])
    <3>1. CASE j = settings.editing
      <4>0. settings.editing # 0 /\ e = k
        <5>1. DOMAIN settings.fields = 1 .. Len(settings.fields)
          BY <1>w DEF WellFormed, SettingsType
        <5>. QED  BY <2>1, <3>1, <5>1, SavedFieldsFacts
      <4>1. v = settings.draft
        BY <2>1, <2>v, <3>1, SavedFieldsFacts
      <4>2. mem'[k] = Taken(k, settings.draft, mem[k])
        BY <1>m, <2>1, <4>0
      <4>. QED  BY <2>1, <2>4, <4>1, <4>2, TakenComesBack
    <3>2. CASE j # settings.editing
      <4>1. v = Field(j).value /\ Field(j).key = k /\ j \in DOMAIN settings.fields
        BY <2>1, <2>v, <3>2, SavedFieldsFacts
      <4>2. v = mem[k]
        BY <1>w, <2>1, <4>1 DEF WellFormed, Field
      <4>3. settings.editing # 0 => e # k
        BY <1>e, <2>1, <3>2, SavedFieldsFacts
      <4>4. mem'[k] = mem[k]
        BY <1>m, <2>1, <4>3
      <4>5. k = "concurrency" => v \in 0 .. MaxConcurrency
        BY <1>w, <4>2 DEF MemoryType
      <4>. QED  BY <2>1, <2>4, <4>2, <4>4, <4>5, HeldComesBack
    <3>. QED  BY <3>1, <3>2
  <2>6. ComesBack(k, v)'
    BY <2>4, <2>5 DEF ComesBack, Defaults
  <2>. QED  BY <2>2, <2>3, <2>6
<1>. QED  BY <1>1, <1>2, SaveFacts
LEMMA AgreedStep ==
  ASSUME WInv, [Next]_vars
  PROVE  AgreedInv'
<1>w. WellFormed(settings, mem, opened) /\ MemoryType(mem)
  BY WellFormedNow
<1>i. TypeOK /\ AgreedInv /\ agreed \subseteq InMemory
  BY DEF WInv, TypeOK
<1>1. CASE agreed' = {}
  BY <1>1 DEF AgreedInv
<1>2. ASSUME NEW t \in saves, SaveSetting(t) PROVE AgreedInv'
  <2>1. /\ saves' = saves \ {t} /\ mem' = mem /\ agreed' \subseteq agreed
        /\ (db' = [db EXCEPT ![t.key] = t.value]) \/ (db' = db /\ t.key \notin agreed')
    BY <1>2 DEF SaveSetting
  <2>2. db \in [Keys -> Values \cup {Absent}] /\ InMemory \subseteq Keys
    BY <1>i, ValuesFacts DEF TypeOK
  <2>. SUFFICES ASSUME NEW k \in agreed'
                PROVE  /\ \A u \in saves' : u.key = k => ComesBack(k, u.value)'
                       /\ \A u, x \in saves' : u.key = k /\ x.key = k => u = x
                       /\ (\A u \in saves' : u.key # k) => ComesBack(k, db[k])'
    BY DEF AgreedInv
  <2>3. /\ \A u \in saves : u.key = k => ComesBack(k, u.value)
        /\ \A u, x \in saves : u.key = k /\ x.key = k => u = x
        /\ (\A u \in saves : u.key # k) => ComesBack(k, db[k])
    BY <1>i, <2>1 DEF AgreedInv
  <2>4. \A v : ComesBack(k, v)' <=> ComesBack(k, v)
    BY <2>1 DEF ComesBack
  <2>5. ComesBack(k, db[k])' <=> ComesBack(k, db'[k])
    BY <2>1 DEF ComesBack
  <2>6. k \in Keys
    BY <1>i, <2>1, <2>2
  <2>7. CASE t.key = k
    <3>1. db'[k] = t.value
      BY <2>1, <2>2, <2>6, <2>7
    <3>2. ComesBack(k, t.value)
      BY <2>3, <2>7
    <3>. QED  BY <2>1, <2>3, <2>4, <2>5, <3>1, <3>2
  <2>8. CASE t.key # k
    <3>1. db'[k] = db[k]
      BY <2>1, <2>2, <2>6, <2>8
    <3>. QED  BY <2>1, <2>3, <2>4, <2>5, <2>8, <3>1
  <2>. QED  BY <2>7, <2>8
<1>3. ASSUME NEW i, Edit(i) PROVE AgreedInv'
  <2>1. PICK e : /\ mem' = (IF e \in InMemory THEN [mem EXCEPT ![e] = Taken(e, (Field(i).value + 1) % Options[e], mem[e])]
                           ELSE mem)
                 /\ agreed' = agreed \ {e}
    BY <1>3 DEF Edit, Apply
  <2>2. saves' = saves /\ db' = db
    BY <1>3 DEF Edit, FrameForKeys
  <2>3. \A k \in agreed' : k \in agreed /\ mem'[k] = mem[k]
    BY <1>i, <1>w, <2>1 DEF MemoryType
  <2>. SUFFICES ASSUME NEW k \in agreed'
                PROVE  /\ \A t \in saves' : t.key = k => ComesBack(k, t.value)'
                       /\ \A t, u \in saves' : t.key = k /\ u.key = k => t = u
                       /\ (\A t \in saves' : t.key # k) => ComesBack(k, db[k])'
    BY DEF AgreedInv
  <2>4. \A v : ComesBack(k, v)' <=> ComesBack(k, v)
    BY <2>3 DEF ComesBack
  <2>5. ComesBack(k, db[k])' <=> ComesBack(k, db[k])
    BY <2>2, <2>3 DEF ComesBack
  <2>. QED  BY <1>i, <2>2, <2>3, <2>4, <2>5 DEF AgreedInv
<1>4. CASE Save
  BY <1>4, SaveAgrees
<1>5. CASE UNCHANGED <<mem, db, saves, agreed>>
  BY <1>5, <1>i DEF AgreedInv, ComesBack
<1>. QED  BY <1>1, <1>2, <1>3, <1>4, <1>5
          DEF Next, Quit, Boot, SignedInAgain, Arrive, Tick, DiscoveryFailed, RefreshDone, OverlayKey,
              OpenHelp, OpenCommandPalette, Esc, EnterOnOverlay, DismissWelcome, FrameForOverlay, TabKeys,
              TabKey, SwitchCategory, BackTabKey, StartSync, RefreshStats, SwitchTabByNumber, SettingsKey, Open,
              TypeKey, FrameForKeys, vars, beneath

----------------------------------------------------------------------------
(* The rest of the state *)

\* Tabs and overlays.
OverlayType == [modals : Seq({"help", "error"}), palette : BOOLEAN]

LEMMA EscType ==
  ASSUME NEW o \in OverlayType
  PROVE  /\ AfterEsc(o) \in OverlayType
         /\ o.modals # <<>> => Len(AfterEsc(o).modals) = Len(o.modals) - 1
         /\ AfterEsc(o).palette = o.palette
<1>1. CASE o.modals = <<>>
  BY <1>1 DEF AfterEsc
<1>2. CASE o.modals # <<>>
  <2>1. o.modals \in Seq({"help", "error"}) /\ Len(o.modals) \in Nat \ {0}
    BY <1>2, EmptySeq DEF OverlayType
  <2>2. \A i \in 1 .. Len(o.modals) - 1 : o.modals[i] \in {"help", "error"}
    BY <2>1
  <2>3. /\ AllButLast(o.modals) \in Seq({"help", "error"})
        /\ Len(AllButLast(o.modals)) = Len(o.modals) - 1
    BY <2>1, <2>2, SubSeqProperties DEF AllButLast
  <2>4. AfterEsc(o) = [o EXCEPT !.modals = AllButLast(o.modals)]
    BY <1>2 DEF AfterEsc
  <2>. QED  BY <2>3, <2>4 DEF OverlayType
<1>. QED  BY <1>1, <1>2

LEMMA OverlayStep ==
  ASSUME WInv, [Next]_vars
  PROVE  overlay' \in OverlayType
<1>i. overlay \in OverlayType
  BY DEF WInv, TypeOK, OverlayType
<1>0. NoOverlay \in OverlayType
  BY EmptySeq DEF NoOverlay, OverlayType
<1>1. CASE DiscoveryFailed
  BY <1>i, <1>1, AppendProperties DEF DiscoveryFailed, OverlayType
<1>2. CASE OpenHelp
  <2>1. <<"help">> \in Seq({"help", "error"})
    OBVIOUS
  <2>. QED  BY <1>i, <1>2, <2>1 DEF OpenHelp, OverlayType
<1>3. CASE OpenCommandPalette
  BY <1>i, <1>3 DEF OpenCommandPalette, OverlayType
<1>4. CASE Esc
  BY <1>i, <1>4, EscType DEF Esc
<1>5. CASE EnterOnOverlay
  <2>1. CASE overlay.palette
    BY <1>i, <1>5, <2>1 DEF EnterOnOverlay, AfterEnter, OverlayType
  <2>2. CASE ~overlay.palette
    BY <1>i, <1>5, <2>2, EscType DEF EnterOnOverlay, AfterEnter
  <2>. QED  BY <2>1, <2>2
<1>6. CASE overlay' = NoOverlay \/ overlay' = overlay
  BY <1>i, <1>0, <1>6
<1>. QED  BY <1>1, <1>2, <1>3, <1>4, <1>5, <1>6
          DEF Next, Quit, Boot, SignedInAgain, Arrive, Tick, RefreshDone, SaveSetting, OverlayKey,
              DismissWelcome, TabKeys, TabKey, SwitchCategory, BackTabKey, StartSync, RefreshStats,
              SwitchTabByNumber, SettingsKey, Edit, Open, TypeKey, Save, FrameForKeys, vars

LEMMA TabStep ==
  ASSUME WInv, [Next]_vars
  PROVE  tab' \in TabSet
<1>i. tab \in TabSet
  BY DEF WInv, TypeOK
<1>0. "Dashboard" \in TabSet /\ "SyncCenter" \in TabSet
  BY TabsAssumption
<1>1. CASE TabKey \/ BackTabKey
  <2>1. PICK by \in {1, -1} : tab' = Step(Tabs, tab, by)
    BY <1>1 DEF TabKey, BackTabKey
  <2>. QED  BY <1>i, <2>1, TabsAssumption, StepFacts DEF TabSet
<1>2. ASSUME NEW n \in DOMAIN Tabs, SwitchTabByNumber(n) PROVE tab' \in TabSet
  BY <1>2 DEF SwitchTabByNumber, TabSet
<1>3. CASE tab' \in {"Dashboard", "SyncCenter"} \/ tab' = tab
  BY <1>i, <1>0, <1>3
<1>. QED  BY <1>1, <1>2, <1>3
          DEF Next, Quit, Boot, SignedInAgain, Arrive, Tick, DiscoveryFailed, RefreshDone, SaveSetting,
              OverlayKey, OpenHelp, OpenCommandPalette, Esc, EnterOnOverlay, DismissWelcome, TabKeys,
              SwitchCategory, StartSync, RefreshStats, SettingsKey, Edit, Open, TypeKey, Save, vars, beneath
\* Nothing covers the screen of a process that has gone.
LEMMA GoneStep ==
  ASSUME WInv, [Next]_vars
  PROVE  GoneInv'
<1>i. GoneInv
  BY DEF WInv
<1>1. CASE proc' = "loop"
  BY <1>1 DEF GoneInv
<1>2. CASE Quit
  BY <1>2 DEF Quit, Arrive, GoneInv, Covered
<1>3. CASE UNCHANGED <<proc, overlay>>
  BY <1>i, <1>3 DEF GoneInv, Covered
<1>. QED  BY <1>1, <1>2, <1>3
          DEF Next, Boot, SignedInAgain, Tick, DiscoveryFailed, RefreshDone, SaveSetting, OverlayKey,
              OpenHelp, OpenCommandPalette, Esc, EnterOnOverlay, DismissWelcome, FrameForOverlay, TabKeys,
              TabKey, SwitchCategory, BackTabKey, StartSync, RefreshStats, SwitchTabByNumber, SettingsKey, Edit,
              Open, TypeKey, Save, FrameForKeys, Plain, Keyed, OnSettings, vars

\* The refreshes of the statistics.
LEMMA StatsStep ==
  ASSUME WInv, [Next]_vars
  PROVE  /\ stats' \in [loading : BOOLEAN, underWay : Nat] /\ StatsInv'
         /\ turns' \in 0 .. MaxTurns /\ proc' \in {"loop", "gone"} /\ welcome' \in BOOLEAN
<1>i. /\ stats \in [loading : BOOLEAN, underWay : Nat] /\ StatsInv
      /\ turns \in 0 .. MaxTurns /\ proc \in {"loop", "gone"} /\ welcome \in BOOLEAN
  BY DEF WInv, TypeOK
<1>. USE BoundsAssumption
<1>1. CASE Quit
  BY <1>i, <1>1 DEF Quit, Arrive, NoStats, StatsInv
<1>2. CASE Boot
  <2>1. stats' = [loading |-> TRUE, underWay |-> 1]
    BY <1>2 DEF Boot, StartStats, NoStats
  <2>. QED  BY <1>i, <1>2, <2>1 DEF Boot, Turn, Arrive, StatsInv
<1>3. CASE SignedInAgain
  <2>1. stats' = [loading |-> TRUE, underWay |-> stats.underWay + 1]
    BY <1>3 DEF SignedInAgain, StartStats
  <2>. QED  BY <1>i, <1>3, <2>1 DEF SignedInAgain, Turn, Arrive, StatsInv
<1>4. CASE RefreshDone
  BY <1>i, <1>4 DEF RefreshDone, StatsInv
<1>5. CASE RefreshStats
  BY <1>i, <1>5 DEF RefreshStats, FrameForKeys, StatsInv
<1>6. CASE DiscoveryFailed \/ Save
  BY <1>i, <1>6 DEF DiscoveryFailed, Save, Turn, FrameForKeys, StatsInv
<1>7. CASE UNCHANGED <<proc, turns, stats>> /\ welcome' \in {welcome, FALSE}
  BY <1>i, <1>7 DEF StatsInv
<1>. QED  BY <1>1, <1>2, <1>3, <1>4, <1>5, <1>6, <1>7
          DEF Next, Tick, SaveSetting, OverlayKey, OpenHelp, OpenCommandPalette, Esc, EnterOnOverlay,
              DismissWelcome, FrameForOverlay, TabKeys, TabKey, SwitchCategory, BackTabKey,
              StartSync, SwitchTabByNumber, SettingsKey, Edit, Open, TypeKey, FrameForKeys, vars

\* The table, the tasks that write it, and the two history variables.
LEMMA StoreStep ==
  ASSUME WInv, [Next]_vars
  PROVE  /\ db' \in [Keys -> Values \cup {Absent}] /\ \A k \in Keys : db'[k] \in ValuesOf(k) \cup {Absent}
         /\ saves' \subseteq [key : Keys, value : Values, turn : 0 .. MaxTurns - 1]
         /\ \A t \in saves' : t.value \in ValuesOf(t.key)
         /\ opened' \in Keys \cup {Nobody} /\ agreed' \subseteq InMemory
<1>w. WellFormed(settings, mem, opened)
  BY WellFormedNow
<1>i. /\ db \in [Keys -> Values \cup {Absent}] /\ \A k \in Keys : db[k] \in ValuesOf(k) \cup {Absent}
      /\ saves \subseteq [key : Keys, value : Values, turn : 0 .. MaxTurns - 1]
      /\ \A t \in saves : t.value \in ValuesOf(t.key)
      /\ opened \in Keys \cup {Nobody} /\ agreed \subseteq InMemory
      /\ turns \in 0 .. MaxTurns
  BY DEF WInv, TypeOK
<1>1. ASSUME NEW t \in saves, SaveSetting(t)
      PROVE  /\ db' \in [Keys -> Values \cup {Absent}] /\ \A k \in Keys : db'[k] \in ValuesOf(k) \cup {Absent}
             /\ saves' \subseteq saves /\ opened' = opened /\ agreed' \subseteq agreed
  <2>1. t.key \in Keys /\ t.value \in Values /\ t.value \in ValuesOf(t.key)
    BY <1>i
  <2>2. db' = [db EXCEPT ![t.key] = t.value] \/ db' = db
    BY <1>1 DEF SaveSetting
  <2>3. saves' \subseteq saves /\ opened' = opened /\ agreed' \subseteq agreed
    BY <1>1 DEF SaveSetting
  <2>. QED  BY <1>i, <2>1, <2>2, <2>3
<1>2. CASE Save
  <2>1. ASSUME NEW t \in saves'
        PROVE  t \in [key : Keys, value : Values, turn : 0 .. MaxTurns - 1] /\ t.value \in ValuesOf(t.key)
    <3>1. CASE t \in saves
      BY <1>i, <3>1
    <3>2. CASE t \notin saves
      <4>1. PICK j \in DOMAIN SavedFields :
              t = [key |-> SavedFields[j].key, value |-> SavedFields[j].value, turn |-> turns]
        BY <1>2, <2>1, <3>2, SaveFacts
      <4>2. /\ SavedFields[j].key \in Keys /\ SavedFields[j].value \in ValuesOf(SavedFields[j].key)
            /\ SavedFields[j].value \in Values
        BY SavedFieldsFacts, ValuesFacts
      <4>3. turns \in 0 .. MaxTurns - 1
        BY <1>2, <1>i, BoundsAssumption, SaveFacts
      <4>. QED  BY <4>1, <4>2, <4>3
    <3>. QED  BY <3>1, <3>2
  <2>2. db' = db /\ opened' = opened /\ agreed' \subseteq InMemory
    BY <1>2, <1>i, SaveFacts
  <2>. QED  BY <1>i, <2>1, <2>2
<1>3. ASSUME NEW i, Open(i) PROVE UNCHANGED <<db, saves, agreed>> /\ opened' \in Keys
  <2>1. i \in DOMAIN settings.fields /\ opened' = settings.fields[i].key /\ UNCHANGED <<db, saves, agreed>>
    BY <1>3 DEF Open, FrameForKeys, Field
  <2>. QED  BY <1>w, <2>1, FieldFacts
<1>4. CASE db' = db /\ saves' \in {saves, {}} /\ opened' \in {opened, Nobody} /\ agreed' \subseteq agreed
  BY <1>i, <1>4
<1>5. CASE Quit \/ Boot \/ SignedInAgain
  BY <1>4, <1>5 DEF Quit, Boot, SignedInAgain, Arrive
<1>6. ASSUME NEW i, Edit(i) PROVE UNCHANGED <<db, saves, opened>> /\ agreed' \subseteq agreed
  BY <1>6 DEF Edit, Apply, FrameForKeys
<1>7. CASE UNCHANGED <<db, saves, opened, agreed>>
  BY <1>4, <1>7
<1>. QED  BY <1>i, <1>1, <1>2, <1>3, <1>4, <1>5, <1>6, <1>7
          DEF Next, Tick, DiscoveryFailed, RefreshDone, OverlayKey, OpenHelp, OpenCommandPalette, Esc,
              EnterOnOverlay, DismissWelcome, FrameForOverlay, TabKeys, TabKey, SwitchCategory,
              BackTabKey, StartSync, RefreshStats, SwitchTabByNumber, SettingsKey, TypeKey, FrameForKeys, vars,
              beneath

----------------------------------------------------------------------------
(* The inductive invariant *)

LEMMA InitWInv == Init => WInv
<1>. SUFFICES ASSUME Init PROVE WInv
  OBVIOUS
<1>1. WellFormed(settings, mem, opened) /\ MemoryType(mem)
  BY FreshIsWellFormed, DefaultsFacts DEF Init
<1>2. overlay \in OverlayType
  BY EmptySeq DEF Init, NoOverlay, OverlayType
<1>3. /\ db \in [Keys -> Values \cup {Absent}] /\ \A k \in Keys : db[k] \in ValuesOf(k) \cup {Absent}
  BY ValuesFacts DEF Init, Values
<1>4. /\ stats \in [loading : BOOLEAN, underWay : 0 .. MaxRefresh + MaxTurns + 1] /\ StatsInv
      /\ turns \in 0 .. MaxTurns
  <2>1. stats = [loading |-> TRUE, underWay |-> 1]
    BY DEF Init, StartStats, NoStats
  <2>. QED  BY <2>1, BoundsAssumption DEF Init, StatsInv
<1>5. tab \in TabSet
  BY TabsAssumption DEF Init
<1>6. TypeOK
  BY <1>1, <1>2, <1>3, <1>4, <1>5
     DEF Init, TypeOK, OverlayType, WellFormed, MemoryType, SettingsType, FieldType, Field
<1>7. FieldsInv /\ FieldsTellMemory
  BY <1>1 DEF FieldsInv, FieldsTellMemory, WellFormed, Field
<1>8. AgreedInv
  BY DEF Init, AgreedInv
<1>9. GoneInv
  BY DEF Init, GoneInv
<1>. QED  BY <1>4, <1>6, <1>7, <1>8, <1>9 DEF WInv

LEMMA StepWInv == WInv /\ [Next]_vars => WInv'
<1>. SUFFICES ASSUME WInv, [Next]_vars PROVE WInv'
  OBVIOUS
<1>1. WellFormed(settings', mem', opened') /\ MemoryType(mem')
  BY SettingsStep
<1>2. StatsInv' /\ stats' \in [loading : BOOLEAN, underWay : 0 .. MaxRefresh + MaxTurns + 1]
  <2>1. /\ stats' \in [loading : BOOLEAN, underWay : Nat] /\ StatsInv' /\ turns' \in 0 .. MaxTurns
    BY StatsStep
  <2>2. stats'.underWay <= MaxRefresh + MaxTurns + 1
    BY <2>1, BoundsAssumption DEF StatsInv
  <2>. QED  BY <2>1, <2>2, BoundsAssumption
<1>3. TypeOK'
  <2>1. /\ proc' \in {"loop", "gone"} /\ turns' \in 0 .. MaxTurns /\ welcome' \in BOOLEAN
        /\ tab' \in TabSet /\ overlay' \in OverlayType
    BY StatsStep, TabStep, OverlayStep
  <2>2. /\ settings' \in SettingsType /\ settings'.editing <= Len(settings'.fields)
        /\ \A i \in DOMAIN settings'.fields : settings'.fields[i].value \in ValuesOf(settings'.fields[i].key)
    BY <1>1 DEF WellFormed
  <2>3. /\ mem' \in [InMemory -> Values] /\ mem'["concurrency"] \in 0 .. MaxConcurrency
        /\ \A k \in InMemory : mem'[k] \in ValuesOf(k)
    BY <1>1 DEF MemoryType
  <2>4. /\ db' \in [Keys -> Values \cup {Absent}] /\ \A k \in Keys : db'[k] \in ValuesOf(k) \cup {Absent}
        /\ saves' \subseteq [key : Keys, value : Values, turn : 0 .. MaxTurns - 1]
        /\ \A t \in saves' : t.value \in ValuesOf(t.key)
        /\ opened' \in Keys \cup {Nobody} /\ agreed' \subseteq InMemory
    BY StoreStep
  <2>. QED  BY <1>2, <2>1, <2>2, <2>3, <2>4 DEF TypeOK, OverlayType, SettingsType, FieldType, Field
<1>4. FieldsInv' /\ FieldsTellMemory'
  BY <1>1 DEF FieldsInv, FieldsTellMemory, WellFormed, Field
<1>. QED  BY <1>2, <1>3, <1>4, AgreedStep, GoneStep DEF WInv

\* Every reachable state satisfies the inductive invariant.
THEOREM Invariance == Spec => []WInv
BY InitWInv, StepWInv, PTL DEF Spec

\* Type correctness: options and the concurrency stay in range on every way
\* between field, memory, task and table.
THEOREM TypeCorrect == Spec => []TypeOK
BY Invariance, PTL DEF WInv

\* A draft is always the one of the field that was opened.
THEOREM EditedFieldIsOpened == Spec => []EditedField
<1>1. WInv => EditedField
  <2>. SUFFICES ASSUME WInv, settings.editing # 0 PROVE EditedField
    BY DEF EditedField
  <2>1. /\ settings.editing \in DOMAIN settings.fields /\ Field(settings.editing).key = opened
        /\ settings.fields = <<>> \/ [i \in DOMAIN settings.fields |-> Field(i).key] = KeysOf(settings.category)
    BY DEF WInv, FieldsInv
  <2>2. settings.fields # <<>>
    BY <2>1, EmptySeq
  <2>. QED  BY <2>1, <2>2 DEF EditedField
<1>. QED  BY <1>1, Invariance, PTL

\* A field never shows anything else than what memory holds of its setting.
THEOREM FieldsShowMemory == Spec => []FieldsTellMemory
BY Invariance, PTL DEF WInv

\* What was saved alone is in the table once its task has run, and the next
\* start brings what memory holds back from there, within the bounds.
THEOREM SavedSettingsSurvive == Spec => []SavedSurvives
<1>1. WInv => SavedSurvives
  BY DEF WInv, AgreedInv, ComesBack, SavedSurvives
<1>. QED  BY <1>1, Invariance, PTL

\* However modals and palette lie on each other, one of Esc and Enter always
\* takes something away.
THEOREM NobodyIsTrapped == Spec => []NeverTrapped
<1>1. WInv => NeverTrapped
  <2>. SUFFICES ASSUME WInv, Covered
                PROVE  Height(AfterEsc(overlay)) < Height(overlay) \/ Height(AfterEnter(overlay)) < Height(overlay)
    BY DEF NeverTrapped
  <2>1. overlay \in OverlayType
    BY DEF WInv, TypeOK, OverlayType
  <2>2. CASE overlay.modals # <<>>
    <3>1. /\ Len(AfterEsc(overlay).modals) = Len(overlay.modals) - 1 /\ Len(overlay.modals) \in Nat
          /\ AfterEsc(overlay).palette = overlay.palette
      BY <2>1, <2>2, EscType DEF OverlayType
    <3>. DEFINE p(o) == IF o.palette THEN 1 ELSE 0
    <3>2. p(AfterEsc(overlay)) = p(overlay) /\ p(overlay) \in Nat
      <4>1. p(AfterEsc(overlay)) = p(overlay)
        BY Zenon, <3>1
      <4>2. p(overlay) \in Nat
        OBVIOUS
      <4>. QED  BY <4>1, <4>2
    <3>3. \A o : Height(o) = Len(o.modals) + p(o)
      BY DEF Height
    <3>. HIDE DEF p
    <3>4. Height(AfterEsc(overlay)) < Height(overlay)
      BY <3>1, <3>2, <3>3
    <3>. QED  BY <3>4
  <2>3. CASE overlay.modals = <<>>
    <3>1. overlay.palette = TRUE
      BY <2>1, <2>3 DEF Covered, NoOverlay, OverlayType
    <3>2. AfterEnter(overlay) = [overlay EXCEPT !.palette = FALSE]
      BY <2>3, <3>1 DEF AfterEnter
    <3>3. AfterEnter(overlay).modals = overlay.modals /\ AfterEnter(overlay).palette = FALSE
      BY <2>1, <3>2 DEF OverlayType
    <3>4. Height(AfterEnter(overlay)) < Height(overlay)
      BY <2>1, <3>1, <3>3 DEF Height, OverlayType
    <3>. QED  BY <3>4
  <2>. QED  BY <2>2, <2>3
<1>. QED  BY <1>1, Invariance, PTL

\* The statistics are shown as loading only while a refresh is under way.
THEOREM SpinnerHasTask == Spec => []StatsSpinnerHasTask
<1>1. WInv => StatsSpinnerHasTask
  BY DEF WInv, StatsInv, StatsSpinnerHasTask
<1>. QED  BY <1>1, Invariance, PTL

\* Beneath an overlay nothing changes, unless the palette leads away or another
\* sign-in replaces everything.
THEOREM OverlayHoldsStill == Spec => OverlayFreezes
<1>. DEFINE Frozen == /\ UNCHANGED <<settings, mem>> \/ (settings' = FreshSettings /\ mem' = Defaults)
                      /\ tab' = tab \/ (tab' = "Dashboard" /\ overlay' = NoOverlay)
<1>1. WInv /\ [Next]_vars => [Covered => Frozen]_vars
  <2>. SUFFICES ASSUME WInv, Next, Covered PROVE Frozen
    OBVIOUS
  <2>1. CASE Quit \/ SignedInAgain
    BY <2>1 DEF Quit, SignedInAgain, Arrive
  <2>2. ~Boot
    BY DEF Boot, WInv, GoneInv
  <2>3. CASE EnterOnOverlay
    <3>1. overlay \in OverlayType
      BY DEF WInv, TypeOK, OverlayType
    <3>2. overlay.palette /\ ~overlay'.palette => overlay' = NoOverlay
      <4>. SUFFICES ASSUME overlay.palette, ~overlay'.palette PROVE overlay' = NoOverlay
        OBVIOUS
      <4>1. overlay.modals = <<>> /\ overlay' = [overlay EXCEPT !.palette = FALSE]
        BY <2>3 DEF EnterOnOverlay, AfterEnter
      <4>. QED  BY <3>1, <4>1 DEF OverlayType, NoOverlay
    <3>. QED  BY <2>3, <3>2 DEF EnterOnOverlay, FrameForOverlay
  <2>4. ~TabKeys /\ ~SettingsKey
    BY DEF TabKeys, TabKey, SwitchCategory, BackTabKey, StartSync, RefreshStats, SwitchTabByNumber, SettingsKey,
           Edit, Open, TypeKey, Save, OnSettings, Keyed, Plain
  <2>5. CASE UNCHANGED <<settings, mem, tab>>
    BY <2>5
  <2>. QED  BY <2>1, <2>2, <2>3, <2>4, <2>5
            DEF Next, Tick, DiscoveryFailed, RefreshDone, SaveSetting, OverlayKey, OpenHelp,
                OpenCommandPalette, Esc, DismissWelcome, FrameForOverlay, beneath
<1>. QED  BY <1>1, Invariance, PTL DEF Spec, OverlayFreezes
=============================================================================
