---------------------------- MODULE MCWorkspace ----------------------------
(***************************************************************************)
(* Two servers: an open one with two workspaces, one of them yet to be     *)
(* created, and a secured one with one workspace.                          *)
(***************************************************************************)
EXTENDS Workspace

CONSTANTS hosted, team, open, secured, x, y, z

MCHome == [p \in 1..3 |-> IF p = 2 THEN secured ELSE open]
MCParent == [s \in {x, y, z} |-> IF s = z THEN 2 ELSE 1]
MCFirstServers == <<hosted, team>>
MCFirstUrl == [p \in {hosted, team} |-> IF p = hosted THEN open ELSE secured]
=============================================================================
