------------------------------ MODULE RoomIds ------------------------------
(***************************************************************************)
(* Room ids: normalizeRoomID of app/server/grpc_server.go, roomIDAliases,   *)
(* splitRoomID and the regular expression of GetUserRooms of                *)
(* app/repository/mongodb.go, as operators.                                 *)
(*                                                                         *)
(* A user id is the sequence of its parts, the words between its dashes; a  *)
(* UUID is one of UuidParts parts.  A room id is its prefix and the user    *)
(* ids that follow, which ':' or '_' separates: neither occurs in a user    *)
(* id.  After "dm-" the separator is a dash as well, so that nothing tells  *)
(* where the first user id ends, and one sequence of parts follows.         *)
(* Parts are positive numbers, ordered as the words are.  Ids are taken to  *)
(* have no surrounding blanks (TrimSpace).                                  *)
(***************************************************************************)
EXTENDS Naturals, Sequences

CONSTANT UuidParts  \* five in the program

ASSUME UuidAssumption == UuidParts \in Nat \ {0}

UserIds == Seq(Nat \ {0}) \ {<<>>}

IsUuid(u) == Len(u) = UuidParts

\* The byte order of strings: a dash comes before every letter and digit.
Less(u, v) ==
    \E i \in 1 .. Len(v) :
       /\ \A j \in 1 .. i - 1 : j <= Len(u) /\ u[j] = v[j]
       /\ i > Len(u) \/ u[i] < v[i]

Sorted(u, v) == IF Less(v, u) THEN <<v, u>> ELSE <<u, v>>

DmId(u, v)       == [form |-> "dm:", ids |-> <<u, v>>]
DashId(u, v)     == [form |-> "dm-", ids |-> <<u \o v>>]
ConvId(u, v)     == [form |-> "CONV_", ids |-> <<u, v>>]
CanonicalDM(u, v) == [form |-> "dm:", ids |-> Sorted(u, v)]

\* A dm- id is cut at its first dash, whatever the user ids are.
CutDash(id) == <<SubSeq(id.ids[1], 1, 1), SubSeq(id.ids[1], 2, Len(id.ids[1]))>>

\* Two user ids follow the prefix; after CONV_ only UUIDs are recognised.
TwoUsers(id) == Len(id.ids) = 2
TwoUuids(id) == TwoUsers(id) /\ IsUuid(id.ids[1]) /\ IsUuid(id.ids[2])

normalizeRoomID(id) ==
    CASE id.form = "dm-" /\ Len(id.ids[1]) > 1 ->
            CanonicalDM(CutDash(id)[1], CutDash(id)[2])
      [] id.form = "dm:" /\ TwoUsers(id) -> CanonicalDM(id.ids[1], id.ids[2])
      [] id.form = "CONV_" /\ TwoUuids(id) -> CanonicalDM(id.ids[1], id.ids[2])
      [] OTHER -> id

\* Faulty variant of roomIDAliases: CONV_ ids in one order only.
AliasesOneOrder(id) ==
    IF TwoUsers(id) THEN {id, ConvId(id.ids[1], id.ids[2])} ELSE {id}

\* The ids under which the messages of a room may have been stored.
roomIDAliases(id) ==
    IF \/ id.form = "dm:" /\ TwoUsers(id)
       \/ id.form = "CONV_" /\ TwoUuids(id)
       THEN {id, CanonicalDM(id.ids[1], id.ids[2]),
             ConvId(id.ids[1], id.ids[2]), ConvId(id.ids[2], id.ids[1])}
       ELSE {id}

\* The members GetUserRooms reads out of a dm id: it cuts at the first ':' or
\* '-', so a first user id with dashes loses its tail to the second.
Colon == 0

splitRoomID(id) ==
    IF id.form = "dm-" THEN CutDash(id)
    ELSE IF Len(id.ids[1]) = 1 THEN id.ids
    ELSE <<SubSeq(id.ids[1], 1, 1),
           SubSeq(id.ids[1], 2, Len(id.ids[1])) \o <<Colon>> \o id.ids[2]>>

\* exactDmRegex: the text after the prefix starts with u and a separator, or
\* is a word without dashes, a separator and u.
StartsWith(u, v) == Len(u) <= Len(v) /\ SubSeq(v, 1, Len(u)) = u

MatchesDm(u, id) ==
    \/ /\ id.form = "dm:" /\ TwoUsers(id)
       /\ StartsWith(u, id.ids[1]) \/ (id.ids[2] = u /\ Len(id.ids[1]) = 1)
    \/ /\ id.form = "dm-"
       /\ \/ StartsWith(u, id.ids[1]) /\ u # id.ids[1]
          \/ CutDash(id)[2] = u

=============================================================================
