---------------------------- MODULE MCSyncEngine ----------------------------
(***************************************************************************)
(* SyncEngine for TLC.  The configurations give the constants; this module *)
(* adds nothing to the behaviours.                                         *)
(***************************************************************************)
EXTENDS SyncEngineInv
=============================================================================
