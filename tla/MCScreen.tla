------------------------------ MODULE MCScreen ------------------------------
(***************************************************************************)
(* An instance of Screen for TLC: a terminal of 80 columns and 24 rows.    *)
(***************************************************************************)
EXTENDS Screen, TLC

Terminal == Rect(0, 0, 80, 24)
Top == Rect(0, 0, 80, 1)
Sidebar == Rect(0, 1, 14, 10)
Feed == Rect(14, 1, 42, 19)
=============================================================================
