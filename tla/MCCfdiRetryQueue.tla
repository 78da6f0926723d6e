-------------------------- MODULE MCCfdiRetryQueue --------------------------
(***************************************************************************)
(* Instance of CfdiRetryQueue: one stamping row and one cancellation row,  *)
(* two overlapping runs, two attempts, one deferral.                       *)
(***************************************************************************)
EXTENDS CfdiRetryQueue, TLC

CONSTANTS s1, c1, r1, r2, none

MCOpOf == s1 :> "stamp" @@ c1 :> "cancel"
=============================================================================
