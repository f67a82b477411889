---------------------------- MODULE WorkspaceInv ----------------------------
(***************************************************************************)
(* The inductive invariant behind the safety theorems of WorkspaceProofs,  *)
(* kept apart so that TLC checks it on small instances before it is proved.*)
(***************************************************************************)
EXTENDS Workspace

\* The fields on the screen are those of the category, once there are any; the
\* one being edited is the one that was opened, and a text.
FieldsInv ==
  /\ settings.fields = <<>> \/ [i \in DOMAIN settings.fields |-> Field(i).key] = KeysOf(settings.category)
  /\ settings.editing # 0 =>
       /\ settings.editing \in DOMAIN settings.fields
       /\ Field(settings.editing).key = opened
       /\ opened \in Typed

\* What the next start makes of the value v of key k is what memory holds now.
ComesBack(k, v) == v # Absent /\ Taken(k, v, Defaults[k]) = InBounds(k, mem[k])

\* Of a key that was saved alone at most one task is under way, with the value
\* in memory; if there is none, that value is in the table.
AgreedInv ==
  \A k \in agreed :
    /\ \A t \in saves : t.key = k => ComesBack(k, t.value)
    /\ \A t, u \in saves : t.key = k /\ u.key = k => t = u
    /\ (\A t \in saves : t.key # k) => ComesBack(k, db[k])

\* The refreshes under way are the user's, the first one and one per sign-in.
StatsInv ==
  /\ stats.underWay <= MaxRefresh + 1 + turns
  /\ stats.loading => stats.underWay > 0

\* Nothing is on the screen of a process that has gone.
GoneInv == proc = "gone" => ~Covered

WInv == TypeOK /\ FieldsInv /\ FieldsTellMemory /\ AgreedInv /\ StatsInv /\ GoneInv
=============================================================================
