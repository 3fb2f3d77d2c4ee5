------------------------------- MODULE Rooms -------------------------------
(***************************************************************************)
(* CreateRoom of app/server/grpc_server.go and the three stores it writes:  *)
(* rooms and members in PostgreSQL (app/repository/postgres.go), the        *)
(* conversations in MongoDB (app/repository/mongodb.go) and the room store  *)
(* in Redis or memory (app/chat/room_store.go); and the list of rooms that  *)
(* GetUserRooms makes of the first two.                                     *)
(*                                                                         *)
(* Callers create rooms at the same time, on any pod: a DM of one pair of   *)
(* users, or a group each.  Every command on a store is a step of its own   *)
(* and may fail.  A request has a creator and, for a DM, two members;       *)
(* others are refused before any step.  A group has two members at least,   *)
(* which the room store requires.  Without Redis there is one pod, and the  *)
(* room store is in its memory.                                            *)
(***************************************************************************)
EXTENDS RoomIds, Integers, FiniteSets

CONSTANTS
    Callers,       \* CreateRoom calls
    Users,         \* user ids
    UserA, UserB,  \* the pair of the DM
    GroupMembers,  \* member_ids of a group request
    DM, Legacy,    \* the DM; the CONV_* conversation an older version made
    None,
    MaxPosts,      \* bound: messages in the DM
    MayFail        \* whether a command may fail, and a pod die

Pair == {UserA, UserB}
Keys == Callers \cup {DM}           \* a caller names the group it creates
Convs == Keys \cup {Legacy}

ASSUME PairAssumption ==
    /\ Users \subseteq UserIds /\ UserA \in Users /\ UserB \in Users
    /\ GroupMembers \subseteq Users /\ \E u, v \in GroupMembers : u # v
ASSUME KeyAssumption ==
    DM \notin Callers /\ Legacy \notin Keys /\ None \notin Users
ASSUME BoundAssumption == MaxPosts \in Nat /\ MayFail \in BOOLEAN

Steps == {"idle", "room", "members", "upsert", "member", "find", "canonical",
          "insert", "refind", "get", "save", "group", "docs", "ok", "error",
          "dead"}

VARIABLES
    conf,     \* [pg, mongo, redis : BOOLEAN]: what this deployment has
    row,      \* [Keys -> Users \cup {None}]: created_by of chat_rooms
    members,  \* [Keys -> SUBSET Users]: chat_room_members
    conv,     \* [Convs -> Users \cup {None}]: created_by of conversations
    meta,     \* [Keys -> Users \cup {None}]: created_by in the room store
    activity, \* chat_room_last_activity of the DM: last_message_at
    lastAt,   \* [Convs -> Nat]: last_message_at of conversations
    posts,    \* messages of the DM in MongoDB: set of [at, by]
    now,
    pc,       \* [Callers -> Steps]: the next command of each call
    kind,     \* [Callers -> {"DM", "GROUP"}]
    by,       \* [Callers -> Users]: created_by of the request
    left,     \* [Callers -> SUBSET Users]: members UpsertRoom has to insert
    from,     \* [Callers -> store]: where the call has its room id from
    cut       \* history: rooms whose member inserts were cut short

stores == <<row, members, conv, meta>>
chats  == <<activity, lastAt, posts, now>>
vars   == <<conf, stores, chats, pc, kind, by, left, from, cut>>

Key(c) == IF kind[c] = "DM" THEN DM ELSE c
MembersOf(k) == IF k = DM THEN Pair ELSE GroupMembers

Init ==
    /\ conf \in [pg : BOOLEAN, mongo : BOOLEAN, redis : BOOLEAN]
    /\ row = [k \in Keys |-> None]
    /\ members = [k \in Keys |-> {}]
    /\ \E old \in {UserA, None} :
          /\ old # None => conf.mongo
          /\ conv = [k \in Convs |-> IF k = Legacy THEN old ELSE None]
    /\ meta = [k \in Keys |-> None]
    /\ activity = 0
    /\ lastAt = [k \in Convs |-> IF k = Legacy THEN 1 ELSE 0]
    /\ posts = {}
    /\ now = 1
    /\ pc = [c \in Callers |-> "idle"]
    /\ kind = [c \in Callers |-> "DM"]
    /\ by = [c \in Callers |-> UserA]
    /\ left = [c \in Callers |-> {}]
    /\ from = [c \in Callers |-> "none"]
    /\ cut = {}

-----------------------------------------------------------------------------
(* CreateRoom.  The steps of a call follow each other with Goto.           *)

Goto(c, step) == pc' = [pc EXCEPT ![c] = step]
Fails(c) == MayFail /\ Goto(c, "error")

\* The DM request goes to PostgreSQL first, then to MongoDB, and to the room
\* store when neither gave an id; a group goes to MongoDB first.
FirstStep(k) ==
    IF k = "DM"
       THEN IF conf.pg THEN "room" ELSE IF conf.mongo THEN "find" ELSE "get"
       ELSE IF conf.mongo THEN "group" ELSE IF conf.pg THEN "upsert" ELSE "save"

AfterPg(c) == IF kind[c] = "DM" /\ conf.mongo THEN "find" ELSE "ok"

CreateRoom(c, k, u) ==
    /\ pc[c] = "idle"
    /\ kind' = [kind EXCEPT ![c] = k]
    /\ by' = [by EXCEPT ![c] = u]
    /\ Goto(c, FirstStep(k))
    /\ UNCHANGED <<conf, stores, chats, left, from, cut>>

\* The call has the room id from store s and goes on at step.
Has(c, s, step) ==
    /\ from' = [from EXCEPT ![c] = s]
    /\ Goto(c, step)

\* GetOrCreateDM asks for the room row ...
GetRoom(c) ==
    /\ pc[c] = "room"
    /\ \/ row[DM] = None /\ Goto(c, "upsert")
       \/ row[DM] # None /\ Goto(c, "members")
       \/ Fails(c)
    /\ UNCHANGED <<conf, stores, chats, kind, by, left, from, cut>>

\* ... and, when there is one, for its members, whoever they are by now.
GetMembers(c) ==
    /\ pc[c] = "members"
    /\ \/ Has(c, "pg", AfterPg(c))
       \/ Fails(c) /\ UNCHANGED from
    /\ UNCHANGED <<conf, stores, chats, kind, by, left, cut>>

\* UpsertRoom inserts the row unless there is one ...
UpsertRoom(c) ==
    /\ pc[c] = "upsert"
    /\ \/ /\ row' = [row EXCEPT ![Key(c)] = IF @ = None THEN by[c] ELSE @]
          /\ left' = [left EXCEPT ![c] = MembersOf(Key(c))]
          /\ Goto(c, "member")
       \/ Fails(c) /\ UNCHANGED <<row, left>>
    /\ UNCHANGED <<conf, members, conv, meta, chats, kind, by, from, cut>>

\* Faulty variant of UpsertMember: a failed insert is passed over.
UpsertMemberDropsError(c, u) ==
    /\ pc[c] = "member" /\ u \in left[c]
    /\ left' = [left EXCEPT ![c] = @ \ {u}]
    /\ \/ members' = [members EXCEPT ![Key(c)] = @ \cup {u}]
       \/ MayFail /\ UNCHANGED members
    /\ IF left[c] = {u} THEN Has(c, "pg", AfterPg(c)) ELSE UNCHANGED <<pc, from>>
    /\ UNCHANGED <<conf, row, conv, meta, chats, kind, by, cut>>

\* ... and then each member, in the order of the request.  There is no
\* transaction: an error leaves the row and the members so far.
UpsertMember(c, u) ==
    /\ pc[c] = "member" /\ u \in left[c]
    /\ \/ /\ members' = [members EXCEPT ![Key(c)] = @ \cup {u}]
          /\ left' = [left EXCEPT ![c] = @ \ {u}]
          /\ IF left[c] = {u} THEN Has(c, "pg", AfterPg(c))
                              ELSE UNCHANGED <<pc, from>>
          /\ UNCHANGED cut
       \/ /\ Fails(c)
          /\ cut' = cut \cup {Key(c)}
          /\ UNCHANGED <<members, left, from>>
    /\ UNCHANGED <<conf, row, conv, meta, chats, kind, by>>

\* The id of the conversation counts when PostgreSQL gave none.
HasConv(c) == Has(c, IF from[c] = "none" THEN "mongo" ELSE from[c], "ok")

\* Faulty variant of HasNone: the reply is sent without a room id.
HasNoneReplies(c) == Goto(c, "ok")

\* Without any id the room store is asked.
HasNone(c) == Goto(c, IF from[c] = "none" THEN "get" ELSE "ok")

\* CreateOrGetDirectConversation looks for a conversation of the pair, which
\* may be the legacy one; an error counts as none.
FindConversation(c) ==
    /\ pc[c] = "find"
    /\ \/ conv[DM] # None /\ HasConv(c)
       \/ conv[Legacy] # None /\ Goto(c, "canonical") /\ UNCHANGED from
       \/ /\ (conv[DM] = None /\ conv[Legacy] = None) \/ MayFail
          /\ Goto(c, "insert") /\ UNCHANGED from
    /\ UNCHANGED <<conf, stores, chats, kind, by, left, cut>>

\* Beside a legacy conversation the canonical one is upserted; errors are
\* dropped.
UpsertCanonical(c) ==
    /\ pc[c] = "canonical"
    /\ \/ conv' = [conv EXCEPT ![DM] = IF @ = None THEN by[c] ELSE @]
       \/ MayFail /\ UNCHANGED conv
    /\ HasConv(c)
    /\ UNCHANGED <<conf, row, members, meta, chats, kind, by, left, cut>>

\* Without one the conversation is inserted: a caller that was faster makes
\* this a duplicate key, any other error leaves the call without an id.
InsertConversation(c) ==
    /\ pc[c] = "insert"
    /\ \/ /\ conv[DM] = None
          /\ conv' = [conv EXCEPT ![DM] = by[c]]
          /\ HasConv(c)
       \/ /\ conv[DM] # None
          /\ Goto(c, "refind") /\ UNCHANGED <<conv, from>>
       \/ MayFail /\ HasNone(c) /\ UNCHANGED <<conv, from>>
    /\ UNCHANGED <<conf, row, members, meta, chats, kind, by, left, cut>>

\* After a duplicate key the other caller's conversation is read; the error
\* is dropped and the id is then empty.
Refind(c) ==
    /\ pc[c] = "refind"
    /\ \/ HasConv(c)
       \/ MayFail /\ HasNone(c) /\ UNCHANGED from
    /\ UNCHANGED <<conf, stores, chats, kind, by, left, cut>>

\* RoomStore.CreateDM looks the room up, and takes an error for a no.
StoreGet(c) ==
    /\ pc[c] = "get"
    /\ \/ meta[DM] # None /\ Has(c, "store", "ok")
       \/ /\ meta[DM] = None \/ (conf.redis /\ MayFail)
          /\ Goto(c, "save") /\ UNCHANGED from
    /\ UNCHANGED <<conf, stores, chats, kind, by, left, cut>>

\* RoomStore.save overwrites what is there.
StoreSave(c) ==
    /\ pc[c] = "save"
    /\ \/ /\ meta' = [meta EXCEPT ![Key(c)] = by[c]]
          /\ Has(c, "store", "ok")
       \/ conf.redis /\ Fails(c) /\ UNCHANGED <<meta, from>>
    /\ UNCHANGED <<conf, row, members, conv, chats, kind, by, left, cut>>

\* When MongoDB fails, the group is made again elsewhere, under another id.
NextStore(c) == Goto(c, IF conf.pg THEN "upsert" ELSE "save")

\* CreateGroupConversation inserts the conversation ...
GroupConversation(c) ==
    /\ pc[c] = "group"
    /\ \/ conv' = [conv EXCEPT ![c] = by[c]] /\ Goto(c, "docs")
       \/ MayFail /\ NextStore(c) /\ UNCHANGED conv
    /\ UNCHANGED <<conf, row, members, meta, chats, kind, by, left, from, cut>>

\* ... and the documents of its members (in detail in Groups).
GroupDocs(c) ==
    /\ pc[c] = "docs"
    /\ \/ Has(c, "mongo", "ok")
       \/ MayFail /\ NextStore(c) /\ UNCHANGED from
    /\ UNCHANGED <<conf, stores, chats, kind, by, left, cut>>

Running(c) == pc[c] \notin {"idle", "ok", "error", "dead"}

\* Who goes with the pod of call c: without Redis there is no other pod, and
\* the rooms of its memory are lost with the calls that were given them.
Gone(c) ==
    IF conf.redis THEN {c}
    ELSE {d \in Callers : Running(d) \/ (pc[d] = "ok" /\ from[d] = "store")}

\* The pod dies in the middle of the call.
Crash(c) ==
    /\ MayFail /\ Running(c)
    /\ pc' = [d \in Callers |-> IF d \in Gone(c) THEN "dead" ELSE pc[d]]
    /\ cut' = cut \cup {Key(d) : d \in {e \in Gone(c) : pc[e] = "member"}}
    /\ meta' = IF conf.redis THEN meta ELSE [k \in Keys |-> None]
    /\ UNCHANGED <<conf, row, members, conv, chats, kind, by, left, from>>

-----------------------------------------------------------------------------
(* What the list of rooms also shows: the messages of the DM, each written  *)
(* in one step here (in detail, with the read cursors, in MessageStore).    *)

Post(u) ==
    /\ now <= MaxPosts
    /\ now' = now + 1
    /\ posts' = IF conf.mongo THEN posts \cup {[at |-> now + 1, by |-> u]}
                ELSE posts
    /\ lastAt' = IF conv[DM] # None THEN [lastAt EXCEPT ![DM] = now + 1]
                 ELSE lastAt
    /\ activity' = IF row[DM] # None THEN now + 1 ELSE activity
    /\ UNCHANGED <<conf, stores, pc, kind, by, left, from, cut>>

-----------------------------------------------------------------------------
Step(c) ==
    \/ GetRoom(c) \/ GetMembers(c) \/ UpsertRoom(c)
    \/ \E u \in Users : UpsertMember(c, u)
    \/ FindConversation(c) \/ UpsertCanonical(c) \/ InsertConversation(c)
    \/ Refind(c) \/ StoreGet(c) \/ StoreSave(c)
    \/ GroupConversation(c) \/ GroupDocs(c)

Next ==
    \/ \E c \in Callers, k \in {"DM", "GROUP"}, u \in Users : CreateRoom(c, k, u)
    \/ \E c \in Callers : Step(c) \/ Crash(c)
    \/ \E u \in Pair : Post(u)

Spec == Init /\ [][Next]_vars

\* A call that has started goes on.
FairSpec == Spec /\ \A c \in Callers : WF_vars(Step(c))

-----------------------------------------------------------------------------
(* GetUserRooms: the list of one user, at one moment; the reads outside of  *)
(* `up' fail, and what they would have told is left out.  Of an entry the    *)
(* list has the id, the kind, the stamp and the members; not the unread flag *)
(* and its count.                                                           *)

Reads == {"rooms", "activity", "conversations", "messages"}

\* time.Time.UnixMilli: the zero time is before 1970.
UnixMilli(t) == IF t = 0 THEN -1 ELSE t

PgId(k) == IF k = DM THEN CanonicalDM(UserA, UserB)
           ELSE [form |-> "group:", ids |-> <<k>>]

MongoId(k) == CASE k = DM     -> CanonicalDM(UserA, UserB)
                [] k = Legacy -> ConvId(UserB, UserA)
                [] OTHER      -> [form |-> "CONV_", ids |-> <<k>>]

Participants(k) ==
    IF k \in {DM, Legacy} THEN Pair ELSE GroupMembers \cup {conv[k]}

\* GetUserRoomsDetailed: the rooms the user is a member of.  An error of
\* the query of the last activity is dropped.
GetUserRoomsDetailed(u, up) ==
    {[id |-> PgId(k), group |-> k # DM,
      at |-> IF k = DM /\ "activity" \in up THEN activity ELSE 0,
      members |-> members[k]]
     : k \in {r \in Keys : "rooms" \in up /\ row[r] # None /\ u \in members[r]}}

\* MessageRepository.GetUserRooms: the user's conversations, or, when there is
\* none or they cannot be read, what the messages of its rooms tell.
MongoUserRooms(u, up) ==
    LET mine == {k \in Convs : /\ "conversations" \in up /\ conv[k] # None
                               /\ u \in Participants(k) \/ conv[k] = u}
        seen == {p \in posts : /\ "messages" \in up
                               /\ p.by = u \/ MatchesDm(u, PgId(DM))}
    IN  IF mine # {}
           THEN {[id |-> MongoId(k), group |-> FALSE, at |-> UnixMilli(lastAt[k]),
                  members |-> Participants(k)] : k \in mine}
           ELSE {[id |-> PgId(DM), group |-> FALSE, at |-> UnixMilli(p.at),
                  members |-> {splitRoomID(PgId(DM))[i] : i \in 1 .. 2}]
                 : p \in {q \in seen : \A r \in seen : r.at <= q.at}}

\* Faulty variant of MergeRooms: the stamp of PostgreSQL stays.
MergeKeepsStamp(id, pg, mongo) ==
    LET first == CHOOSE r \in (IF pg # {} THEN pg ELSE mongo) : TRUE
    IN  [first EXCEPT !.id = id]

\* addRoom: rooms with one normalised id become one, with the newest stamp;
\* the rest comes from PostgreSQL if it has the room.
MergeRooms(id, pg, mongo) ==
    LET all   == pg \cup mongo
        first == CHOOSE r \in (IF pg # {} THEN pg ELSE mongo) : TRUE
    IN  [first EXCEPT !.id = id,
            !.at = (CHOOSE r \in all : \A q \in all : q.at <= r.at).at]

GetUserRooms(u, up) ==
    LET pg    == GetUserRoomsDetailed(u, up)
        mongo == MongoUserRooms(u, up)
        With(rooms, id) == {r \in rooms : normalizeRoomID(r.id) = id}
    IN  {MergeRooms(id, With(pg, id), With(mongo, id))
         : id \in {normalizeRoomID(r.id) : r \in pg \cup mongo}}

-----------------------------------------------------------------------------
(* Properties.                                                             *)

IdSources == {"none", "pg", "mongo", "store"}

\* Every variable has its type.
TypeOK ==
    /\ conf \in [pg : BOOLEAN, mongo : BOOLEAN, redis : BOOLEAN]
    /\ row \in [Keys -> Users \cup {None}]
    /\ members \in [Keys -> SUBSET Users]
    /\ conv \in [Convs -> Users \cup {None}]
    /\ meta \in [Keys -> Users \cup {None}]
    /\ activity \in Nat
    /\ lastAt \in [Convs -> Nat]
    /\ posts \subseteq [at : Nat, by : Users]
    /\ now \in Nat
    /\ pc \in [Callers -> Steps]
    /\ kind \in [Callers -> {"DM", "GROUP"}]
    /\ by \in [Callers -> Users]
    /\ left \in [Callers -> SUBSET Users]
    /\ from \in [Callers -> IdSources]
    /\ cut \subseteq Keys

Inserting(k) == \E c \in Callers : pc[c] = "member" /\ Key(c) = k

\* A room of PostgreSQL has all its members as soon as nobody is inserting
\* them, however many callers raced to create it, unless an insert failed or
\* its pod died: there is no transaction, and no later call repairs the room
\* (postgres.go 116-142, 178-198).
MembersComplete ==
    \A k \in Keys :
       row[k] # None /\ ~Inserting(k) /\ k \notin cut
          => MembersOf(k) \subseteq members[k]

\* A call that succeeded has its room in the store it took the id from, and
\* a group with all its members (grpc_server.go 377-433).
ReplyBacked ==
    \A c \in Callers : pc[c] = "ok" =>
       CASE from[c] = "pg"    -> /\ row[Key(c)] # None
                                 /\ kind[c] = "GROUP"
                                       => GroupMembers \subseteq members[c]
         [] from[c] = "mongo" -> IF kind[c] = "GROUP" THEN conv[c] # None
                                 ELSE conv[DM] # None \/ conv[Legacy] # None
         [] from[c] = "store" -> meta[Key(c)] # None
         [] OTHER             -> FALSE

\* Whoever creates a room first stays its creator in both databases: callers
\* that race, retry or upsert beside a legacy conversation change nothing
\* (postgres.go 121-126, mongodb.go 261-280).
KeepCreators ==
    /\ \A k \in Keys : row[k] # None => row'[k] = row[k]
    /\ \A k \in Convs : conv[k] # None => conv'[k] = conv[k]

CreatorKept == [][KeepCreators]_vars

DmEntries(u, up) ==
    LET names == roomIDAliases(PgId(DM)) \cup {DashId(UserA, UserB)}
    IN  {r \in GetUserRooms(u, up) : r.id \in names}

\* A user sees the DM at most once, under its canonical id and with the
\* newest stamp of the stores that could be read, also when PostgreSQL, the
\* canonical and a legacy conversation all have it (grpc_server.go 508-532,
\* 558-581).  This is for users with UUIDs: the CONV_ ids of others are not
\* normalised, and theirs may appear twice.
ListedOnce ==
    \A u \in Pair, up \in SUBSET Reads :
       LET entries == DmEntries(u, up) IN
       /\ Cardinality(entries) <= 1
       /\ \A r \in entries :
             /\ r.id = PgId(DM)
             /\ "conversations" \in up => r.at >= UnixMilli(lastAt[DM])
             /\ {"rooms", "activity"} \subseteq up /\ u \in members[DM]
                   => r.at >= activity

\* A DM that a call took from a database is eventually listed for both of its
\* users, unless its member inserts were cut short (grpc_server.go 382-398);
\* the list is read without errors.
DmListed ==
    \A c \in Callers :
       (pc[c] = "ok" /\ kind[c] = "DM" /\ from[c] \in {"pg", "mongo"})
          ~> (DM \in cut \/ \A u \in Pair : DmEntries(u, Reads) # {})

=============================================================================
