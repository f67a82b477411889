----------------------------- MODULE MCAuthFlow -----------------------------
(***************************************************************************)
(* A small instance of AuthFlow: two tokens of two accounts, one of which  *)
(* may also be given by --token and the other granted by a device flow.    *)
(***************************************************************************)
EXTENDS AuthFlowInv, TLC

CONSTANTS t1, t2, alice, bob

MCTokens == {t1, t2}
MCOwner == t1 :> alice @@ t2 :> bob
MCTyped == {t1, NoToken}
MCGranted == {t2}
MCGiven == {t1, NoToken}
=============================================================================
