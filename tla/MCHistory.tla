----------------------------- MODULE MCHistory -----------------------------
(***************************************************************************)
(* Small instances of History for TLC.                                     *)
(***************************************************************************)
EXTENDS History

CONSTANTS m1, m2, m3

\* Users with UUIDs of two parts, and users whose ids have no dash.
BothKinds == {<<<<1, 2>>, <<1, 3>>>>, <<<<2>>, <<1>>>>}

=============================================================================
