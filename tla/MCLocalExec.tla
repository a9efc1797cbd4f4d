----------------------------- MODULE MCLocalExec -----------------------------
(* One call of one bridge, on a desktop that connects twice.               *)
EXTENDS LocalExec, TLC

CONSTANTS b1, r1

MCOwner == r1 :> b1
=============================================================================
