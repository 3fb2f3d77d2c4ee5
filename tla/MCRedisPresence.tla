-------------------------- MODULE MCRedisPresence --------------------------
(***************************************************************************)
(* Small instances of RedisPresence for TLC.                               *)
(***************************************************************************)
EXTENDS RedisPresence, TLC

CONSTANTS s1, s2, u1

\* Two streams of one user: two devices, or a reconnect.
OneUser == (s1 :> u1) @@ (s2 :> u1)

=============================================================================
