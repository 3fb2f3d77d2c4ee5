------------------------------ MODULE MCRooms ------------------------------
(***************************************************************************)
(* Small instances of Rooms for TLC.                                       *)
(***************************************************************************)
EXTENDS Rooms

CONSTANTS c1, c2

\* Users with UUIDs, which share their first part.
Alice == <<1, 2>>
Bob   == <<1, 3>>

TwoUsersOnly == {Alice, Bob}

=============================================================================
