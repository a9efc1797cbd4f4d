---------------------------- MODULE MCReconciler ----------------------------
(***************************************************************************)
(* TLC instances of Reconciler: two folders, the server's own device and   *)
(* one client's, and desired states between which folders are granted,     *)
(* revoked and forgotten.                                                  *)
(***************************************************************************)
EXTENDS Reconciler, TLC

CONSTANTS f, g, self, client, sendreceive, sendonly

Shared  == [paused |-> FALSE, devices |-> {self, client}, type |-> sendreceive]
Revoked == [paused |-> TRUE, devices |-> {self}, type |-> sendreceive]
Open    == [paused |-> FALSE, devices |-> {self, client}, type |-> sendonly]

Conf(o, x, y) == [options |-> o, folders |-> f :> x @@ g :> y]

(* Initial configurations that leave each phase of a tick something to do. *)
SomeActual == {Conf("on", Open, Shared), Conf("off", Revoked, NoFolder)}

MCDesired == {Conf("off", Shared, NoFolder), Conf("off", Revoked, Shared)}
MCRogue == {Open, Revoked, NoFolder}
=============================================================================
