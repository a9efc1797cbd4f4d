---------------------------- MODULE MCSyncService ----------------------------
(***************************************************************************)
(* A staging bind that transfers a project, and the workspace bind that    *)
(* follows it, which is control-only.                                      *)
(***************************************************************************)
EXTENDS SyncService

CONSTANTS staging, project, r1, r2

MCBinds == {[root |-> r1, name |-> staging, controlOnly |-> FALSE],
            [root |-> r2, name |-> project, controlOnly |-> TRUE]}
MCNames == {staging, project}
MCRoots == {r1, r2}
=============================================================================
