---------------------------- MODULE DiscoveryInv ----------------------------
(***************************************************************************)
(* The inductive invariant behind the safety theorems of DiscoveryProofs,  *)
(* kept apart so that TLC checks it on small instances before it is proved.*)
(***************************************************************************)
EXTENDS Discovery

\* The effects of a turn are carried out before the next key is read, tasks are
\* spawned in the order of their numbers, and a number is left for the discovery
\* that has been asked for.
OrderInv ==
  /\ stage = "input" => effects = <<>>
  /\ \A j, k \in Ordered : j = k
  /\ \E n \in 0 .. MaxTasks : \A d \in Tasks : disc[d].pc # "none" <=> d <= n
  /\ Ordered # {} => \E d \in Tasks : disc[d].pc = "none"

\* What is in the table is a repository with a name and a status.
StoreInv == \A i \in Stored : store[i].name \in Names /\ store[i].status # "absent"

\* What is to be marked, has been written, or is on its way to the screen has a
\* row.
ListsInv ==
  /\ \A d \in Tasks : disc[d].todo \subseteq Stored
  /\ \A d \in Tasks : disc[d].pc = "loaded" => IdsOf(disc[d].list) \subseteq Stored
  /\ IdsOf(loader.entries) \subseteq Stored
  /\ \A k \in DOMAIN appRx : IdsOf(appRx[k].entries) \subseteq Stored
  /\ ScreenIsStored

\* The user has chosen among what has a row; a selection on its way is the last
\* one that was made.
SelectInv ==
  /\ \A i \in Ids \ Stored : chosen[i] = TRUE
  /\ \A k \in DOMAIN effects : effects[k].kind = "Select" =>
       /\ \A i \in effects[k].ids : chosen[i] = effects[k].on
       /\ \A j \in DOMAIN effects : effects[j].kind = "Select" => j = k
  /\ StoredSelectionIsChosen

\* A listing of the user's repositories that is at work holds every one of them
\* that has been on GitHub all the time, and none of those is to be marked.
MarkInv ==
  /\ \A i \in steady : github[i] # NoName
  /\ Cardinality(Mine) <= PageSize =>
       \A d \in Tasks :
         /\ disc[d].pc = "orgs" => disc[d].source = "All"
         /\ disc[d].pc \in {"orgs", "load"} /\ disc[d].source # "Starred" =>
              steady \cap Mine \subseteq IdsOf(disc[d].list)
         /\ disc[d].todo \cap (steady \cap Mine) = {}
  /\ FoundIsNotMarked

\* An error dialog is one of a task that is over, and so is its event.
Failures == {k \in DOMAIN appRx : appRx[k].kind = "Failed"}
Over == {d \in Tasks : disc[d].pc = "done"}
ModalInv == modals + Cardinality(Failures) <= Cardinality(Over)

DInv ==
  TypeOK /\ OrderInv /\ StoreInv /\ ListsInv /\ SelectInv /\ MarkInv /\ ModalInv /\ SpinnerHasTask
=============================================================================
