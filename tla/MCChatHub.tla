----------------------------- MODULE MCChatHub -----------------------------
(***************************************************************************)
(* Small instances of ChatHub for TLC.                                     *)
(***************************************************************************)
EXTENDS ChatHub, TLC

CONSTANTS s1, s2, s3, c1, r1, r2, u1, u2

\* Two streams of one user.
OneUser == (s1 :> u1) @@ (s2 :> u1)

\* Two rooms whose ids hash to the same shard.
SameShard == (r1 :> 7) @@ (r2 :> 7)

\* A single stream.
JustOne == (s1 :> u1)

\* A single room.
OneShard == (r1 :> 0)

\* Streams of one user are interchangeable, and so are rooms of one shard.
Symmetric == Permutations({s1, s2}) \cup Permutations({r1, r2})

=============================================================================
