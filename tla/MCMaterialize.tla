--------------------------- MODULE MCMaterialize ---------------------------
(* Three revisions, so that a withdrawal and a publication can fall on     *)
(* either side of the cursor of a walk that has turned a page.             *)
EXTENDS MaterializeWindow

MCRevisions == 1..3
=============================================================================
