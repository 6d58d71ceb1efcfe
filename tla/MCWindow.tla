------------------------------- MODULE MCWindow -------------------------------
(***************************************************************************)
(* The window's stores next to the SQL clients of MCSql, one of them to a  *)
(* behaviour: the dialog and the routes take the source they are about     *)
(* from their caller and read nothing of the stores.                       *)
(***************************************************************************)
EXTENDS MCWorkspace, MCSql

WorkspaceRest ==
  Init /\ saved.project = None /\ saved.current = Hosted /\ stored.live = {}

WindowInit ==
  \/ SqlInit /\ WorkspaceRest
  \/ scene = "workspace" /\ Init /\ RowsRest /\ SchemaRest

WindowNext ==
  \/ SqlNext /\ UNCHANGED vars
  \/ scene = "workspace" /\ Next /\ UNCHANGED sqlVars

WindowSpec == WindowInit /\ [][WindowNext]_<<vars, sqlVars>>
=============================================================================
