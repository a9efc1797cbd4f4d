----------------------------- MODULE MCFileSync ------------------------------
(***************************************************************************)
(* One path and two contents; either workspace may have the file already.  *)
(***************************************************************************)
EXTENDS FileSync

CONSTANTS path, a, b

MCFile == [data |-> [i \in 1..Blocks |-> a], mtime |-> 1]
Pair(c, s) == [x \in {"client", "server"} |-> IF x = "client" THEN c ELSE s]
MCStarts == {Pair([p \in {path} |-> f], [p \in {path} |-> MCFile]) : f \in {MCFile, None}}
MCLibrary == {Pair("sync", "sync")}
MCDeployed == {Pair("sync", "control"), Pair("staging", "control"), Pair("control", "sync")}
MCSyncing == MCLibrary \cup {Pair("sync", "control")}
MCModes == MCLibrary \cup MCDeployed
MCNever == [m \in MCModes |-> 0]
MCOnce == [m \in MCModes |-> IF m \in MCLibrary THEN 0 ELSE 1]
=============================================================================
