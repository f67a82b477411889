---------------------------- MODULE MCWorkspace ----------------------------
(***************************************************************************)
(* A small instance of Workspace: the concurrency, which two categories    *)
(* show, with a number beyond its range and one that is none, and a        *)
(* Boolean.                                                                *)
(***************************************************************************)
EXTENDS Workspace

MCTabs == <<"Dashboard", "SyncCenter", "Settings">>
MCCategories == <<"General", "Clone", "Sync">>
MCDrafts == [k \in Typed |-> IF k = "concurrency" THEN {99, Garbage} ELSE {0}]
MCOpened == {"concurrency", "skip_forks"}
=============================================================================
