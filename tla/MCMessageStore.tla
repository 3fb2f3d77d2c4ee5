--------------------------- MODULE MCMessageStore ---------------------------
(***************************************************************************)
(* Small instances of MessageStore for TLC.                                *)
(***************************************************************************)
EXTENDS MessageStore, TLC

CONSTANTS h1, h2, h3, u1, u2, m1, t1, t2

\* Two handlers of one user and one of another.
ThreeHandlers == (h1 :> u1) @@ (h2 :> u1) @@ (h3 :> u2)

\* The two handlers of u1 are alike, and so are the texts.
Alike == Permutations({h1, h2}) \cup Permutations({t1, t2})

=============================================================================
