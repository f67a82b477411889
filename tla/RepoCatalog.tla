---------------------------- MODULE RepoCatalog ----------------------------
(***************************************************************************)
(* What the table repos promises about the part of a row that is the       *)
(* user's own: whether a repository is selected and how far it has been    *)
(* cloned.  Listing GitHub makes rows appear, selected and not cloned;     *)
(* after that only the user's selection and the sync engine change them,   *)
(* and no row goes away.  Discovery implements this specification          *)
(* (Discovery!CatalogSpec).                                                *)
(***************************************************************************)
CONSTANT Ids    \* github_id

VARIABLE row    \* row[i]: the user's part of the row of i

Absent == [selected |-> FALSE, status |-> "absent"]
Fresh == [selected |-> TRUE, status |-> "NotCloned"]
Present == {i \in Ids : row[i] # Absent}

Init == row = [i \in Ids |-> Absent]

Appear(S) ==
  /\ S \cap Present = {}
  /\ row' = [i \in Ids |-> IF i \in S THEN Fresh ELSE row[i]]

Select(S, on) ==
  row' = [i \in Ids |-> IF i \in S \cap Present THEN [row[i] EXCEPT !.selected = on] ELSE row[i]]

Record(i) ==
  /\ i \in Present
  /\ row' = [row EXCEPT ![i].status = "Cloned"]

Next ==
  \/ \E S \in SUBSET Ids : Appear(S) \/ \E on \in BOOLEAN : Select(S, on)
  \/ \E i \in Ids : Record(i)

Spec == Init /\ [][Next]_row
=============================================================================
