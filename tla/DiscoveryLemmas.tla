--------------------------- MODULE DiscoveryLemmas ---------------------------
(***************************************************************************)
(* What the operators of Discovery compute, for lists and tables of every  *)
(* size: the listings of GitHub, sorting and removing of duplicates, and   *)
(* the upsert with its check of the names.                                 *)
(*                                                                         *)
(* Arguments over lists and sets go by the least counterexample: a         *)
(* nonempty set of naturals has a least element.                           *)
(***************************************************************************)
EXTENDS DiscoveryInv, FiniteSetTheorems, SequenceTheorems, TLAPS

Below == {p \in Nat \X Nat : p[1] < p[2]}

LEMMA LeastNat ==
  ASSUME NEW T \in SUBSET Nat, T # {}
  PROVE  \E x \in T : \A y \in T : x <= y
<1>1. IsWellFoundedOn(Below, Nat)
  BY NatLessThanWellFounded DEF OpToRel, Below
<1>2. PICK x \in T : \A y \in T : <<y, x>> \notin Below
  BY <1>1, WFMin
<1>3. \A a, b \in Nat : a < b => <<a, b>> \in Below
  BY DEF Below
<1>4. ASSUME NEW y \in T PROVE x <= y
  <2>1. x \in Nat /\ y \in Nat /\ <<y, x>> \notin Below
    BY <1>2
  <2>2. ~(y < x)
    BY <1>3, <2>1
  <2>. QED  BY <2>1, <2>2
<1>. QED  BY <1>4

\* A nonempty set of positions has a last one.
LEMMA LastPosition ==
  ASSUME NEW n \in Nat, NEW T \in SUBSET (1 .. n), T # {}
  PROVE  \E x \in T : \A y \in T : y <= x
<1>. DEFINE U == {k \in Nat : k <= n /\ n - k \in T}
<1>1. U # {}
  <2>1. PICK y \in T : TRUE
    OBVIOUS
  <2>2. n - (n - y) = y /\ n - y \in Nat /\ n - y <= n
    BY <2>1
  <2>. QED  BY <2>1, <2>2
<1>2. PICK k \in U : \A j \in U : k <= j
  BY <1>1, LeastNat
<1>3. ASSUME NEW y \in T PROVE y <= n - k
  <2>1. n - y \in Nat /\ n - y <= n /\ n - (n - y) = y
    OBVIOUS
  <2>2. n - y \in U
    BY <2>1
  <2>3. k \in Nat /\ k <= n - y
    BY <1>2, <2>2
  <2>. QED  BY <2>3
<1>. QED  BY <1>2, <1>3

----------------------------------------------------------------------------
(* InOrder *)

Increasing(f) == \A i, k \in DOMAIN f : i < k => f[i] < f[k]
Enumerates(f, S) == f \in [1 .. Cardinality(S) -> S] /\ Increasing(f) /\ \A x \in S : \E i \in DOMAIN f : f[i] = x

\* Every finite set of naturals has an increasing enumeration: the least
\* element, then the rest.
LEMMA Enumeration ==
  ASSUME NEW S \in SUBSET Nat, IsFiniteSet(S)
  PROVE  \E f : Enumerates(f, S)
<1>. DEFINE Bad == {n \in Nat : \E T \in SUBSET Nat : IsFiniteSet(T) /\ Cardinality(T) = n /\ ~\E f : Enumerates(f, T)}
<1>1. SUFFICES ASSUME Bad # {} PROVE FALSE
  <2>1. Cardinality(S) \in Nat
    BY FS_CardinalityType
  <2>. QED  BY <1>1, <2>1
<1>2. PICK n \in Bad : \A m \in Bad : n <= m
  BY <1>1, LeastNat
<1>3. PICK T \in SUBSET Nat : IsFiniteSet(T) /\ Cardinality(T) = n /\ ~\E f : Enumerates(f, T)
  BY <1>2
<1>4. CASE T = {}
  <2>1. n = 0
    BY <1>3, <1>4, FS_EmptySet
  <2>2. [i \in 1 .. 0 |-> i] \in [1 .. 0 -> T]
    OBVIOUS
  <2>3. Enumerates([i \in 1 .. 0 |-> i], T)
    BY <1>3, <1>4, <2>1, <2>2 DEF Enumerates, Increasing
  <2>. QED  BY <1>3, <2>3
<1>5. CASE T # {}
  <2>1. PICK x \in T : \A y \in T : x <= y
    BY <1>5, LeastNat
  <2>2. IsFiniteSet(T \ {x}) /\ Cardinality(T \ {x}) = n - 1 /\ T \ {x} \in SUBSET Nat
    BY <1>3, FS_RemoveElement
  <2>3. n - 1 \in Nat
    BY <2>2, FS_CardinalityType
  <2>4. n - 1 \notin Bad
    BY <1>2, <2>3
  <2>5. PICK g : Enumerates(g, T \ {x})
    BY <2>2, <2>3, <2>4
  <2>6. /\ g \in [1 .. n - 1 -> T \ {x}] /\ Increasing(g)
        /\ \A y \in T \ {x} : \E i \in 1 .. n - 1 : g[i] = y
    BY <2>2, <2>5 DEF Enumerates
  <2>. DEFINE f == [i \in 1 .. n |-> IF i = 1 THEN x ELSE g[i - 1]]
  <2>7. f \in [1 .. n -> T]
    <3>1. ASSUME NEW i \in 1 .. n PROVE f[i] \in T
      <4>1. CASE i = 1
        BY <4>1
      <4>2. CASE i # 1
        <5>1. i - 1 \in 1 .. n - 1
          BY <2>3, <4>2
        <5>. QED  BY <2>6, <4>2, <5>1
      <4>. QED  BY <4>1, <4>2
    <3>. QED  BY <3>1
  <2>8. Increasing(f)
    <3>. SUFFICES ASSUME NEW i \in 1 .. n, NEW k \in 1 .. n, i < k PROVE f[i] < f[k]
      BY DEF Increasing
    <3>1. k - 1 \in 1 .. n - 1 /\ f[k] = g[k - 1]
      BY <2>3
    <3>2. CASE i = 1
      <4>1. g[k - 1] \in T /\ g[k - 1] # x
        BY <2>6, <3>1
      <4>2. x \in Nat /\ g[k - 1] \in Nat /\ x <= g[k - 1]
        BY <2>1, <4>1
      <4>3. f[i] = x
        BY <3>2
      <4>. HIDE DEF f
      <4>. QED  BY <3>1, <4>1, <4>2, <4>3
    <3>3. CASE i # 1
      <4>1. i - 1 \in 1 .. n - 1 /\ f[i] = g[i - 1] /\ i - 1 < k - 1
        BY <2>3, <3>3
      <4>. QED  BY <2>6, <3>1, <4>1 DEF Increasing
    <3>. QED  BY <3>2, <3>3
  <2>9. ASSUME NEW y \in T PROVE \E i \in 1 .. n : f[i] = y
    <3>1. CASE y = x
      BY <2>3, <3>1
    <3>2. CASE y # x
      <4>1. PICK i \in 1 .. n - 1 : g[i] = y
        BY <2>6, <3>2
      <4>2. i + 1 \in 1 .. n /\ f[i + 1] = g[i]
        BY <2>3, <4>1
      <4>. QED  BY <4>1, <4>2
    <3>. QED  BY <3>1, <3>2
  <2>. HIDE DEF f
  <2>10. Enumerates(f, T)
    BY <1>3, <2>7, <2>8, <2>9 DEF Enumerates
  <2>. QED  BY <1>3, <2>10
<1>. QED  BY <1>4, <1>5

\* Increasing sequences that enumerate by number enumerate every member.
LEMMA InOrderFacts ==
  ASSUME NEW S \in SUBSET Nat, IsFiniteSet(S)
  PROVE  /\ Cardinality(S) \in Nat
         /\ Enumerates(InOrder(S), S) /\ InOrder(S) \in Seq(S)
         /\ Len(InOrder(S)) = Cardinality(S) /\ DOMAIN InOrder(S) = 1 .. Cardinality(S)
<1>. DEFINE f == InOrder(S)
            n == Cardinality(S)
<1>1. n \in Nat
  BY FS_CardinalityType
<1>2. f \in [1 .. n -> S] /\ Increasing(f)
  BY Enumeration DEF Enumerates, Increasing, InOrder
<1>3. \A x \in S : \E i \in 1 .. n : f[i] = x
  <2>1. f \in Injection(1 .. n, S)
    <3>1. \A i, k \in 1 .. n : f[i] = f[k] => i = k
      <4>. SUFFICES ASSUME NEW i \in 1 .. n, NEW k \in 1 .. n, f[i] = f[k], i # k PROVE FALSE
        OBVIOUS
      <4>1. f[i] \in Nat /\ f[k] \in Nat
        BY <1>2
      <4>2. i < k \/ k < i
        BY <1>1
      <4>. QED  BY <1>2, <4>1, <4>2 DEF Increasing
    <3>. QED  BY <1>2, <3>1 DEF Injection, IsInjective
  <2>2. Cardinality(1 .. n) = n
    BY <1>1, FS_Interval
  <2>3. f \in Surjection(1 .. n, S)
    BY <2>1, <2>2, FS_Injection
  <2>. HIDE DEF f
  <2>. QED  BY <2>3 DEF Surjection
<1>. HIDE DEF f
<1>4. f \in Seq(S) /\ Len(f) = n /\ DOMAIN f = 1 .. n
  BY <1>1, <1>2
<1>. QED  BY <1>1, <1>2, <1>3, <1>4 DEF Enumerates, f

----------------------------------------------------------------------------
(* Listing GitHub *)

LEMMA ConstantFacts ==
  /\ Ids \subseteq Nat /\ IsFiniteSet(Ids) /\ NoName \notin Names
  /\ Mine \subseteq Ids /\ OrgRepos \subseteq Ids /\ Starred \subseteq Ids /\ Synced \subseteq Ids
  /\ PageSize \in Nat /\ MaxTasks \in Nat \ {0} /\ MaxKeys \in Nat /\ MaxChanges \in Nat
  /\ \A S \in SUBSET Ids : IsFiniteSet(S) /\ S \in SUBSET Nat /\ Cardinality(S) \in Nat
BY IdsAssumption, NamesAssumption, ListingsAssumption, SyncedAssumption, PageSizeAssumption, BoundsAssumption,
   FS_Subset, FS_CardinalityType

\* One page of what is listed; all of it, if there is no more.
LEMMA ListingFacts ==
  ASSUME NEW S \in SUBSET Ids, github \in [Ids -> Names \cup {NoName}]
  PROVE  /\ Listing(S) \in Seq(Entry)
         /\ Cardinality(S) <= PageSize => \A i \in S : github[i] # NoName => i \in IdsOf(Listing(S))
<1>. DEFINE F == {i \in S : github[i] # NoName}
            found == InOrder(F)
            size == IF Len(found) < PageSize THEN Len(found) ELSE PageSize
            line == [k \in 1 .. size |-> [id |-> found[k], name |-> github[found[k]], selected |-> TRUE]]
<1>1. F \in SUBSET Ids /\ F \in SUBSET Nat /\ IsFiniteSet(F) /\ Cardinality(F) \in Nat
  BY ConstantFacts
<1>2. /\ Enumerates(found, F) /\ Len(found) = Cardinality(F) /\ DOMAIN found = 1 .. Cardinality(F)
      /\ found \in [1 .. Cardinality(F) -> F]
  BY <1>1, InOrderFacts DEF Enumerates
<1>3. Listing(S) = line
  BY DEF Listing
<1>4. size \in Nat /\ size <= Cardinality(F)
  BY <1>1, <1>2, ConstantFacts
<1>5. ASSUME NEW k \in 1 .. size PROVE line[k] \in Entry /\ line[k].id = found[k]
  <2>1. k \in 1 .. Cardinality(F)
    BY <1>1, <1>4
  <2>2. found[k] \in Ids /\ github[found[k]] \in Names
    BY <1>2, <2>1
  <2>. QED  BY <2>2 DEF Entry
<1>6. line \in Seq(Entry) /\ DOMAIN line = 1 .. size
  <2>1. line \in [1 .. size -> Entry]
    BY <1>5
  <2>. HIDE DEF size, line
  <2>. QED  BY <1>4, <2>1
<1>7. ASSUME Cardinality(S) <= PageSize, NEW i \in F PROVE i \in IdsOf(line)
  <2>1. Cardinality(F) <= Cardinality(S) /\ Cardinality(S) \in Nat
    BY ConstantFacts, FS_Subset
  <2>2. size = Cardinality(F)
    BY <1>1, <1>2, <1>7, <2>1, ConstantFacts
  <2>3. PICK k \in 1 .. Cardinality(F) : found[k] = i
    BY <1>2 DEF Enumerates
  <2>4. k \in DOMAIN line /\ line[k].id = i
    BY <1>5, <1>6, <2>2, <2>3
  <2>. QED  BY <2>4 DEF IdsOf
<1>. QED  BY <1>3, <1>6, <1>7

\* Removing duplicates loses no repository.
LEMMA DedupFacts ==
  ASSUME NEW l \in Seq(Entry)
  PROVE  Dedup(l) \in Seq(Entry) /\ IdsOf(Dedup(l)) = IdsOf(l)
<1>. DEFINE firsts == {k \in DOMAIN l : k = 1 \/ l[k].id # l[k - 1].id}
            kept == InOrder(firsts)
            m == [k \in DOMAIN kept |-> l[kept[k]]]
<1>1. Len(l) \in Nat /\ DOMAIN l = 1 .. Len(l) /\ \A k \in DOMAIN l : l[k] \in Entry
  BY LenProperties, ElementOfSeq
<1>2. firsts \in SUBSET Nat /\ IsFiniteSet(firsts)
  <2>1. IsFiniteSet(1 .. Len(l)) /\ firsts \in SUBSET (1 .. Len(l)) /\ 1 .. Len(l) \subseteq Nat
    BY <1>1, FS_Interval
  <2>. HIDE DEF firsts
  <2>. QED  BY <2>1, FS_Subset
<1>3. /\ kept \in [1 .. Cardinality(firsts) -> firsts] /\ Cardinality(firsts) \in Nat
      /\ \A k \in firsts : \E j \in DOMAIN kept : kept[j] = k
  BY <1>2, InOrderFacts DEF Enumerates
<1>4. Dedup(l) = m
  BY DEF Dedup
<1>. HIDE DEF kept
<1>5. m \in Seq(Entry) /\ DOMAIN m = 1 .. Cardinality(firsts)
  <2>1. m \in [1 .. Cardinality(firsts) -> Entry]
    BY <1>1, <1>3
  <2>. QED  BY <1>3, <2>1
<1>6. ASSUME NEW k \in DOMAIN m PROVE m[k].id \in IdsOf(l)
  BY <1>3, <1>5, <1>6 DEF IdsOf
<1>7. ASSUME NEW j \in DOMAIN l PROVE \E k \in DOMAIN m : m[k].id = l[j].id
  <2>. DEFINE T == {k \in DOMAIN l : l[k].id = l[j].id}
  <2>1. T \in SUBSET Nat /\ T # {}
    BY <1>1
  <2>2. PICK k \in T : \A n \in T : k <= n
    BY <2>1, LeastNat
  <2>3. k \in firsts
    <3>. SUFFICES ASSUME k # 1, l[k].id = l[k - 1].id PROVE FALSE
      BY <2>2
    <3>1. k - 1 \in T
      BY <1>1, <2>2
    <3>. QED  BY <1>1, <2>2, <3>1
  <2>4. PICK n \in DOMAIN kept : kept[n] = k
    BY <1>3, <2>3
  <2>5. n \in DOMAIN m /\ m[n].id = l[j].id
    BY <1>3, <1>5, <2>2, <2>4
  <2>. QED  BY <2>5
<1>. HIDE DEF m
<1>8. IdsOf(m) \subseteq IdsOf(l)
  BY <1>6 DEF IdsOf
<1>9. IdsOf(l) \subseteq IdsOf(m)
  BY <1>7 DEF IdsOf
<1>. QED  BY <1>4, <1>5, <1>8, <1>9

\* In whatever order the listings come out, they hold the same repositories.
LEMMA AllAccessibleFacts ==
  ASSUME NEW l \in Seq(Entry), NEW m \in AllAccessible(l)
  PROVE  m \in Seq(Entry) /\ IdsOf(m) = IdsOf(l)
<1>1. Len(l) \in Nat /\ DOMAIN l = 1 .. Len(l) /\ \A k \in DOMAIN l : l[k] \in Entry
  BY LenProperties, ElementOfSeq
<1>. DEFINE n == Len(l)
<1>2. Cardinality(DOMAIN l) = n
  BY <1>1, FS_Interval
<1>3. PICK order \in SetToSeqs(DOMAIN l) : m = Dedup([k \in DOMAIN l |-> l[order[k]]])
  BY DEF AllAccessible
<1>. DEFINE s == [k \in DOMAIN l |-> l[order[k]]]
<1>4. order \in [1 .. n -> 1 .. n] /\ \A i, k \in 1 .. n : i # k => order[i] # order[k]
  BY <1>1, <1>2, <1>3 DEF SetToSeqs
<1>5. \A i \in 1 .. n : \E k \in 1 .. n : order[k] = i
  <2>1. order \in Injection(1 .. n, 1 .. n)
    BY <1>4 DEF Injection, IsInjective
  <2>2. order \in Surjection(1 .. n, 1 .. n)
    BY <1>1, <2>1, FS_Interval, FS_Injection
  <2>. QED  BY <2>2 DEF Surjection
<1>6. s \in Seq(Entry) /\ DOMAIN s = 1 .. n
  <2>1. s \in [1 .. n -> Entry]
    BY <1>1, <1>4
  <2>. QED  BY <1>1, <2>1
<1>7. IdsOf(s) = IdsOf(l)
  <2>1. \A k \in 1 .. n : s[k].id = l[order[k]].id /\ order[k] \in 1 .. n
    BY <1>1, <1>4
  <2>2. \A i \in 1 .. n : \E k \in 1 .. n : s[k].id = l[i].id
    BY <1>5, <2>1
  <2>. HIDE DEF s
  <2>3. IdsOf(s) \subseteq IdsOf(l)
    BY <1>1, <1>6, <2>1 DEF IdsOf
  <2>4. IdsOf(l) \subseteq IdsOf(s)
    BY <1>1, <1>6, <2>2 DEF IdsOf
  <2>. QED  BY <2>3, <2>4
<1>. QED  BY <1>3, <1>6, <1>7, DedupFacts

----------------------------------------------------------------------------
(* The upsert *)

Statuses == {"absent", "NotCloned", "Cloned"}
Rows == [name : Names \cup {NoName}, selected : BOOLEAN, status : Statuses, deleted : BOOLEAN]
TableType == store \in [Ids -> Rows]
UniqueNames == \A i, k \in Stored : store[i].name = store[k].name => i = k

\* The name of a row midway is that of its last occurrence so far.
LEMMA NameAtFacts ==
  ASSUME NEW l \in Seq(Entry), NEW k \in 1 .. Len(l) + 1, NEW i
  PROVE  /\ (\A m \in 1 .. k - 1 : l[m].id # i) => NameAt(l, k, i) = store[i].name
         /\ \A j \in 1 .. k - 1 : l[j].id = i =>
              \E m \in 1 .. k - 1 : /\ l[m].id = i /\ NameAt(l, k, i) = l[m].name
                                    /\ \A n \in 1 .. k - 1 : l[n].id = i => n <= m
<1>. DEFINE earlier == {m \in 1 .. k - 1 : l[m].id = i}
<1>1. CASE earlier = {}
  BY <1>1 DEF NameAt
<1>2. CASE earlier # {}
  <2>1. k - 1 \in Nat
    BY LenProperties
  <2>2. PICK m \in earlier : \A n \in earlier : n <= m
    BY <1>2, <2>1, LastPosition
  <2>3. \A x \in earlier : (\A n \in earlier : n <= x) => x = m
    <3>. SUFFICES ASSUME NEW x \in earlier, \A n \in earlier : n <= x PROVE x = m
      OBVIOUS
    <3>1. x <= m /\ m <= x /\ x \in Int /\ m \in Int
      BY <2>1, <2>2
    <3>. QED  BY <3>1
  <2>4. (CHOOSE x \in earlier : \A n \in earlier : n <= x) = m
    BY <2>2, <2>3
  <2>5. NameAt(l, k, i) = l[CHOOSE x \in earlier : \A n \in earlier : n <= x].name
    BY <1>2 DEF NameAt
  <2>. QED  BY <2>2, <2>4, <2>5
<1>. QED  BY <1>1, <1>2

\* Its name after the whole list.
LEMMA NameAtEnd ==
  ASSUME NEW l \in Seq(Entry), NEW i
  PROVE  /\ (\A m \in DOMAIN l : l[m].id # i) => NameAt(l, Len(l) + 1, i) = store[i].name
         /\ \A j \in DOMAIN l : l[j].id = i =>
              \E m \in DOMAIN l : /\ l[m].id = i /\ NameAt(l, Len(l) + 1, i) = l[m].name
                                 /\ \A n \in DOMAIN l : l[n].id = i => n <= m
<1>1. Len(l) \in Nat /\ DOMAIN l = 1 .. Len(l)
  BY LenProperties
<1>2. PICK k \in 1 .. Len(l) + 1 : k = Len(l) + 1 /\ k - 1 = Len(l)
  BY <1>1
<1>3. (\A m \in 1 .. k - 1 : l[m].id # i) => NameAt(l, k, i) = store[i].name
  BY NameAtFacts
<1>4. \A j \in 1 .. k - 1 : l[j].id = i =>
        \E m \in 1 .. k - 1 : /\ l[m].id = i /\ NameAt(l, k, i) = l[m].name
                              /\ \A n \in 1 .. k - 1 : l[n].id = i => n <= m
  BY NameAtFacts
<1>5. 1 .. k - 1 = DOMAIN l
  BY <1>1, <1>2
<1>. QED  BY <1>2, <1>3, <1>4, <1>5

\* The name of a row after the whole upsert is that at the last occurrence, where
\* no other row of that time had it.
LEMMA LastNameIsFree ==
  ASSUME NEW l \in Seq(Entry), ~Clashes(l), NEW m \in DOMAIN l, NEW j \in Ids, l[m].id # j,
         \A n \in DOMAIN l : l[n].id = j => n < m
  PROVE  NameAt(l, Len(l) + 1, j) # l[m].name
<1>1. Len(l) \in Nat /\ DOMAIN l = 1 .. Len(l)
  BY LenProperties
<1>2. {n \in 1 .. (Len(l) + 1) - 1 : l[n].id = j} = {n \in 1 .. m - 1 : l[n].id = j}
  BY <1>1
<1>3. NameAt(l, Len(l) + 1, j) = NameAt(l, m, j)
  <2>. DEFINE E == {n \in 1 .. m - 1 : l[n].id = j}
  <2>1. NameAt(l, m, j) = IF E = {} THEN store[j].name ELSE l[CHOOSE x \in E : \A n \in E : n <= x].name
    BY DEF NameAt
  <2>. DEFINE D == {n \in 1 .. (Len(l) + 1) - 1 : l[n].id = j}
  <2>2. NameAt(l, Len(l) + 1, j) = IF D = {} THEN store[j].name ELSE l[CHOOSE x \in D : \A n \in D : n <= x].name
    BY DEF NameAt
  <2>3. D = E
    BY <1>2
  <2>. HIDE DEF D, E
  <2>. QED  BY <2>1, <2>2, <2>3
<1>4. NameAt(l, m, j) # l[m].name
  BY DEF Clashes
<1>. QED  BY <1>3, <1>4

\* The row that an entry leaves: it has a name and a status and is not marked;
\* the user's part is new or as it was.
LEMMA RowAfterFacts ==
  ASSUME TableType, StoreInv, NEW l \in Seq(Entry), NEW i \in IdsOf(l)
  PROVE  /\ i \in Ids /\ RowAfter(l, i) \in Rows /\ RowAfter(l, i).name \in Names
         /\ RowAfter(l, i).name = NameAt(l, Len(l) + 1, i)
         /\ RowAfter(l, i).status # "absent" /\ ~RowAfter(l, i).deleted
         /\ i \notin Stored => RowAfter(l, i).selected = TRUE /\ RowAfter(l, i).status = "NotCloned"
         /\ i \in Stored => RowAfter(l, i).selected = store[i].selected /\ RowAfter(l, i).status = store[i].status
<1>1. Len(l) \in Nat /\ DOMAIN l = 1 .. Len(l) /\ \A k \in DOMAIN l : l[k] \in Entry
  BY LenProperties, ElementOfSeq
<1>2. PICK j \in DOMAIN l : l[j].id = i
  BY DEF IdsOf
<1>3. PICK m \in DOMAIN l : NameAt(l, Len(l) + 1, i) = l[m].name
  <2>1. \A k \in DOMAIN l : l[k].id = i =>
          \E m \in DOMAIN l : /\ l[m].id = i /\ NameAt(l, Len(l) + 1, i) = l[m].name
                             /\ \A n \in DOMAIN l : l[n].id = i => n <= m
    BY NameAtEnd
  <2>. QED  BY <1>2, <2>1
<1>4. NameAt(l, Len(l) + 1, i) \in Names /\ i \in Ids
  BY <1>1, <1>2, <1>3 DEF Entry
<1>5. CASE i \notin Stored
  BY <1>4, <1>5 DEF RowAfter, Rows, Statuses
<1>6. CASE i \in Stored
  <2>1. store[i] \in Rows /\ store[i].status # "absent"
    BY <1>4, <1>6 DEF TableType, StoreInv
  <2>2. RowAfter(l, i) = [store[i] EXCEPT !.name = NameAt(l, Len(l) + 1, i), !.deleted = FALSE]
    BY <1>6 DEF RowAfter
  <2>. QED  BY <1>4, <1>6, <2>1, <2>2 DEF Rows
<1>. QED  BY <1>5, <1>6

\* The transaction as a whole: what it writes has rows, under names of their own.
LEMMA UpsertFacts ==
  ASSUME TableType, StoreInv, UniqueNames, NEW l \in Seq(Entry), ~Clashes(l),
         store' = [i \in Ids |-> IF i \in IdsOf(l) THEN RowAfter(l, i) ELSE store[i]]
  PROVE  /\ TableType' /\ StoreInv' /\ UniqueNames'
         /\ IdsOf(l) \subseteq Ids /\ Stored' = Stored \cup IdsOf(l)
         /\ \A i \in IdsOf(l) : store'[i] = RowAfter(l, i)
         /\ \A i \in Ids \ IdsOf(l) : store'[i] = store[i]
<1>1. Len(l) \in Nat /\ DOMAIN l = 1 .. Len(l) /\ \A k \in DOMAIN l : l[k] \in Entry
  BY LenProperties, ElementOfSeq
<1>2. IdsOf(l) \subseteq Ids
  BY <1>1 DEF IdsOf, Entry
<1>3. TableType'
  BY RowAfterFacts DEF TableType
<1>4. \A i \in IdsOf(l) : store'[i] = RowAfter(l, i)
  BY <1>2
<1>5. \A i \in Ids \ IdsOf(l) : store'[i] = store[i]
  OBVIOUS
<1>6. NoRow.status = "absent" /\ NoRow.name = NoName
  BY DEF NoRow
<1>7. Stored' = Stored \cup IdsOf(l)
  <2>1. \A i \in IdsOf(l) : store'[i] # NoRow
    BY <1>4, <1>6, RowAfterFacts
  <2>. QED  BY <1>2, <1>5, <2>1 DEF Stored
<1>8. StoreInv'
  BY <1>4, <1>5, <1>7, RowAfterFacts DEF StoreInv, Stored
<1>9. ASSUME NEW i \in Ids PROVE store'[i].name = NameAt(l, Len(l) + 1, i)
  <2>1. CASE i \in IdsOf(l)
    BY <1>4, <2>1, RowAfterFacts
  <2>2. CASE i \notin IdsOf(l)
    <3>1. \A m \in DOMAIN l : l[m].id # i
      BY <2>2 DEF IdsOf
    <3>. QED  BY <1>5, <2>2, <3>1, NameAtEnd
  <2>. QED  BY <2>1, <2>2
\* Of two rows that were written, or one that was and one that was not, the one
\* written last was free to take its name.
<1>10. ASSUME NEW i \in IdsOf(l), NEW j \in Ids, i # j PROVE store'[i].name # store'[j].name
  <2>1. PICK m \in DOMAIN l : /\ l[m].id = i /\ NameAt(l, Len(l) + 1, i) = l[m].name
                              /\ \A n \in DOMAIN l : l[n].id = i => n <= m
    <3>1. PICK k \in 1 .. Len(l) : l[k].id = i
      BY <1>1 DEF IdsOf
    <3>. QED  BY <1>1, <3>1, NameAtEnd
  <2>2. CASE \A n \in DOMAIN l : l[n].id = j => n < m
    BY <1>2, <1>9, <2>1, <2>2, LastNameIsFree
  <2>3. CASE \E n \in DOMAIN l : l[n].id = j /\ ~(n < m)
    <3>1. PICK n \in DOMAIN l : l[n].id = j /\ ~(n < m)
      BY <2>3
    <3>3. PICK k \in DOMAIN l : /\ l[k].id = j /\ NameAt(l, Len(l) + 1, j) = l[k].name
                                /\ \A p \in DOMAIN l : l[p].id = j => p <= k
      BY <3>1, NameAtEnd
    <3>4. k # m /\ n <= k /\ m <= n
      BY <1>1, <1>10, <2>1, <3>1, <3>3
    <3>5. \A p \in DOMAIN l : l[p].id = i => p < k
      BY <1>1, <2>1, <3>1, <3>3, <3>4
    <3>6. NameAt(l, Len(l) + 1, i) # l[k].name
      BY <1>2, <1>10, <3>3, <3>5, LastNameIsFree
    <3>. QED  BY <1>2, <1>9, <3>3, <3>6
  <2>. QED  BY <2>2, <2>3
<1>11. UniqueNames'
  <2>. SUFFICES ASSUME NEW i \in Stored', NEW k \in Stored', store'[i].name = store'[k].name, i # k PROVE FALSE
    BY DEF UniqueNames
  <2>1. i \in Ids /\ k \in Ids
    BY DEF Stored
  <2>2. i \notin IdsOf(l) /\ k \notin IdsOf(l)
    BY <1>10, <2>1
  <2>. QED  BY <1>5, <1>7, <2>1, <2>2 DEF UniqueNames
<1>. QED  BY <1>2, <1>3, <1>4, <1>5, <1>7, <1>8, <1>11
=============================================================================
