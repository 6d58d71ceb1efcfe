-------------------------- MODULE MCDocumentEditor --------------------------
(* Small collections, grids and numbers of requests for TLC. *)
EXTENDS DocumentEditor

CONSTANTS x, y, a, null

Full == [f \in {x, y} |-> a]
EmptyOrOne == {<<>>, <<Full>>}
=============================================================================
