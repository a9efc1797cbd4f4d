------------------------------- MODULE MCSidecar -------------------------------
(* A machine of three pids, on which karid is upgraded once.               *)
EXTENDS Sidecar, TLC

PidSymmetry == Permutations(Pids)
================================================================================
