------------------------------- MODULE Sharing -------------------------------
(***************************************************************************)
(* What the server promises of folder sharing, without ticks, snapshots,   *)
(* retries or a reconciler: a client that pairs is granted a folder, what  *)
(* is granted becomes shared, what was never granted is never shared, and  *)
(* nothing that is shared is taken away.  A crash forgets the grants that  *)
(* were not yet shared, and no others.                                     *)
(***************************************************************************)
CONSTANT Pairs                    \* <<folder, device>>
VARIABLES granted, shared

Init == shared \subseteq Pairs /\ granted = shared

Grant == /\ granted \subseteq granted' /\ granted' \subseteq Pairs
         /\ UNCHANGED shared

Share == /\ shared \subseteq shared' /\ shared' \subseteq granted
         /\ UNCHANGED granted

Crash == granted' = shared /\ UNCHANGED shared

Next == Grant \/ Share \/ Crash
Spec == Init /\ [][Next]_<<granted, shared>>
=============================================================================
