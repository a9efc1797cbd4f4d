---------------------------- MODULE MCKaridSync ----------------------------
(***************************************************************************)
(* Two desktops pairing one project, from different workspace names (so    *)
(* that the second changes the folder's path), beside a folder Syncthing   *)
(* has that karid does not manage.                                         *)
(***************************************************************************)
EXTENDS KaridSync, TLC

CONSTANTS f, foreign, self, d1, d2, c1, c2, pathA, pathB

MCRequest ==
    c1 :> [folder |-> f, device |-> d1, type |-> pathA]
    @@ c2 :> [folder |-> f, device |-> d2, type |-> pathB]

Other == [paused |-> FALSE, devices |-> {self, d2}, type |-> pathB]

MCActual ==
    {[options |-> "on", folders |-> f :> x @@ foreign :> Other] :
        x \in {NoFolder, [paused |-> TRUE, devices |-> {self, d1}, type |-> pathA]}}

MCDesired == {Nothing}
=============================================================================
