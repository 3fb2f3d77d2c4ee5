------------------------------ MODULE MCGroups ------------------------------
(***************************************************************************)
(* Small instances of Groups for TLC.                                      *)
(***************************************************************************)
EXTENDS Groups, TLC

CONSTANTS u1, u2, u3, o1, o2

\* Users and handlers are interchangeable.
Symmetric == Permutations(Users) \cup Permutations(Ops)

=============================================================================
