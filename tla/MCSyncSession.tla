--------------------------- MODULE MCSyncSession ---------------------------
(***************************************************************************)
(* SyncSession for TLC.  The configurations give the constants; this       *)
(* module adds nothing to the behaviours.                                  *)
(***************************************************************************)
EXTENDS SyncSession
=============================================================================
