---------------------------- MODULE MCSyncBarrier ----------------------------
(***************************************************************************)
(* Two projects: the server's staging directory of the first is empty, the *)
(* second has a file to download.  Their workspace ids may be the same.    *)
(***************************************************************************)
EXTENDS SyncBarrier

CONSTANTS ws1, ws2, staging, project

MCWorkspaces == {ws1, ws2}
MCNames == {staging, project}
MCBinds == {[ws |-> ws1, name |-> staging], [ws |-> ws2, name |-> project]}
MCPeerFiles == [n \in MCNames |-> IF n = project THEN 1 ELSE 0]
=============================================================================
