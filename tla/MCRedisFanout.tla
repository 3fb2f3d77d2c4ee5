--------------------------- MODULE MCRedisFanout ---------------------------
(***************************************************************************)
(* Small instances of RedisFanout for TLC.                                 *)
(***************************************************************************)
EXTENDS RedisFanout, TLC

CONSTANTS s1, s2, c1, p1, p2

\* A call on one pod, two streams on the other.
CallAcross == (c1 :> p1) @@ (s1 :> p2) @@ (s2 :> p2)

=============================================================================
