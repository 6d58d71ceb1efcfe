--------------------------- MODULE MCTableEditor ---------------------------
(* Small tables, grids and numbers of requests for TLC. *)
EXTENDS TableEditor

CONSTANTS a, b, null

ValuesMC == {null, a, b}
=============================================================================
