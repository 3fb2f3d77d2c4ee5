------------------------------ MODULE History ------------------------------
(***************************************************************************)
(* The history of one DM: GetMessages and SearchMessages of                 *)
(* app/server/grpc_server.go over the messages collection of                *)
(* app/repository/mongodb.go, with the ids and fields that older versions   *)
(* wrote.  A client reads page after page, asking each time for what is     *)
(* older than the oldest message it has, while messages are sent and        *)
(* deleted.                                                                 *)
(*                                                                         *)
(* Messages carry the time at which their client sent them, which may lie   *)
(* before they arrive; several may have the same millisecond.  No clock is  *)
(* ahead, and frames without a time are left out.                           *)
(***************************************************************************)
EXTENDS RoomIds, Integers, FiniteSets

CONSTANTS
    Pairs,         \* the pairs of users the DM may be of
    Messages,      \* message ids
    Old,           \* those that an older version stored
    Images,        \* those of type IMAGE; the others are TEXT
    DefaultLimit,  \* messages on a page: 50, and at most 200
    MaxLimit,
    Limits,        \* the limits clients ask for
    OldTime,       \* bound of the times of old messages
    MaxTime        \* bound of the clock

ASSUME HistoryAssumption ==
    /\ \A p \in Pairs : p \in UserIds \X UserIds /\ p[1] # p[2]
    /\ Old \subseteq Messages /\ IsFiniteSet(Old)
ASSUME LimitAssumption ==
    DefaultLimit \in Nat \ {0} /\ MaxLimit \in Nat /\ Limits \subseteq Int
ASSUME TimeAssumption == OldTime \in Nat \ {0}

\* Fields that are not in a document: a time, and what an empty string stands
\* for, a user and a room.
Absent == -1
NoUser == <<>>
NoRoom == [form |-> "", ids |-> <<>>]

\* The enumeration pb.MessageType, by the last word of its names.
MessageTypes == {"TEXT", "IMAGE"}

VARIABLES
    pair,     \* the users of the DM
    docs,     \* the collection: function from the stored messages to documents
    sent,     \* history: by whom and when each of them was sent
    clock,
    limit,    \* the limit the client asks for
    phase,    \* of the client: "idle", "reading", "done"
    before,   \* before_unix_ms of its next request; 0 for the newest
    pages,    \* the pages it has, each a set of messages
    ends,     \* the cursors it used
    started   \* history: messages stored when it began

historyVars == <<pair, docs, sent, clock, limit, phase, before, pages, ends, started>>
reader == <<limit, phase, before, pages, ends, started>>

Stored == DOMAIN docs

\* The ids under which clients and older versions name the room.  Only ids
\* that can be told apart count: after "dm-" user ids without dashes, after
\* "CONV_" UUIDs.
Spellings ==
    LET u == pair[1]
        v == pair[2]
    IN  {DmId(u, v), DmId(v, u)} \cup
        (IF IsUuid(u) /\ IsUuid(v) THEN {ConvId(u, v), ConvId(v, u)} ELSE {}) \cup
        (IF Len(u) = 1 /\ Len(v) = 1 THEN {DashId(u, v), DashId(v, u)} ELSE {})

\* The two words of the name, as MessageType.String gives them.
TypeName(t) == <<"MESSAGE_TYPE", t>>

TypeOf(m) == IF m \in Images THEN "IMAGE" ELSE "TEXT"

\* A document of an older version: the legacy fields only, or the present
\* ones with the old id.
OldDoc(id, u, at, type, legacy) ==
    IF legacy
       THEN [conv |-> NoRoom, room |-> id, sender |-> NoUser, user |-> u,
             created |-> Absent, sent |-> at, type |-> <<type>>,
             deleted |-> FALSE]
       ELSE [conv |-> id, room |-> id, sender |-> u, user |-> u,
             created |-> at, sent |-> at, type |-> <<type>>,
             deleted |-> FALSE]

\* Old messages have any times: a pod of an older version may have stored one
\* after a pod of a later version.
HistoryInit ==
    /\ pair \in Pairs
    /\ \E legacy, flipped \in SUBSET Old, at \in [Old -> 1 .. OldTime] :
          /\ docs = [m \in Old |->
                OldDoc(IF m \in flipped THEN ConvId(pair[2], pair[1])
                                        ELSE ConvId(pair[1], pair[2]),
                       pair[1], at[m], TypeOf(m), m \in legacy)]
          /\ sent = [m \in Old |-> [by |-> pair[1], at |-> at[m]]]
    /\ clock = OldTime
    /\ limit = 0
    /\ phase = "idle"
    /\ before = 0
    /\ pages = <<>>
    /\ ends = {}
    /\ started = {}

-----------------------------------------------------------------------------
(* Writing.                                                                *)

\* toServerMsg: the message of a frame, with the frame's time, under the
\* canonical id of its room.
toServerMsg(m, id, u, at) ==
    [room |-> normalizeRoomID(id), user |-> u, at |-> at, type |-> TypeOf(m)]

\* SaveMessage stores room, author and time in the present and in the legacy
\* fields.
SaveMessage(m, msg) ==
    /\ m \notin Stored
    /\ docs' = [k \in Stored \cup {m} |-> IF k \in Stored THEN docs[k] ELSE
          [conv |-> msg.room, room |-> msg.room, sender |-> msg.user,
           user |-> msg.user, created |-> msg.at, sent |-> msg.at,
           type |-> TypeName(msg.type), deleted |-> FALSE]]
    /\ sent' = [k \in Stored \cup {m} |-> IF k \in Stored THEN sent[k]
                                          ELSE [by |-> msg.user, at |-> msg.at]]
    /\ UNCHANGED <<pair, clock, reader>>

SoftDelete(m) ==
    /\ m \in Stored /\ ~docs[m].deleted
    /\ docs' = [docs EXCEPT ![m].deleted = TRUE]
    /\ UNCHANGED <<pair, sent, clock, reader>>

Tick ==
    /\ clock < MaxTime
    /\ clock' = clock + 1
    /\ UNCHANGED <<pair, docs, sent, reader>>

-----------------------------------------------------------------------------
(* Reading.                                                                *)

\* Faulty variant of docToServerMessage: the legacy author is not looked at.
DocWithoutLegacy(d) ==
    [user |-> d.sender,
     at   |-> IF d.created = Absent THEN d.sent ELSE d.created,
     type |-> "TEXT"]

\* docToServerMessage: legacy fields stand in for missing ones; the type is
\* looked up by the stored word with the prefix of the enumeration's names.
docToServerMessage(d) ==
    [user |-> IF d.sender = NoUser THEN d.user ELSE d.sender,
     at   |-> IF d.created = Absent THEN d.sent ELSE d.created,
     type |-> LET name == <<"MESSAGE_TYPE">> \o d.type
              IN  IF \E t \in MessageTypes : name = TypeName(t)
                     THEN name[2] ELSE "TEXT"]

At(m) == docToServerMessage(docs[m]).at

\* The order of the query: by created_at, then by sent_at; a missing time
\* counts as the oldest.
Newer(m, n) ==
    \/ docs[m].created > docs[n].created
    \/ docs[m].created = docs[n].created /\ docs[m].sent > docs[n].sent

\* Faulty variant of GetMessagesBefore: the cursor itself counts.
GetMessagesUpTo(id, t) ==
    LET ids == roomIDAliases(id) IN
    {m \in Stored :
       /\ docs[m].conv \in ids \/ docs[m].room \in ids
       /\ t = 0 \/ docs[m].sent <= t}

\* The messages of a room, under any alias of its id, older than t.
GetMessagesBefore(id, t) ==
    LET ids == roomIDAliases(id) IN
    {m \in Stored :
       /\ docs[m].conv \in ids \/ docs[m].room \in ids
       /\ \/ t = 0
          \/ docs[m].created # Absent /\ docs[m].created < t
          \/ docs[m].sent < t}

\* queryMessages: the n newest of ms; which of those with equal times come
\* first is open.
queryMessages(ms, n) ==
    {p \in SUBSET ms :
       /\ Cardinality(p) = IF Cardinality(ms) < n THEN Cardinality(ms) ELSE n
       /\ \A m \in p, k \in ms \ p : ~Newer(k, m)}

\* The limit of the request, if it is in bounds.
ClampLimit(l) == IF l <= 0 \/ l > MaxLimit THEN DefaultLimit ELSE l

Open(l) ==
    /\ phase = "idle"
    /\ phase' = "reading"
    /\ limit' = l
    /\ started' = Stored
    /\ UNCHANGED <<pair, docs, sent, clock, before, pages, ends>>

\* Faulty variant of GetMessages: the cursor is that of the extra message.
GetMessagesExtra(id) ==
    /\ phase = "reading"
    /\ UNCHANGED <<pair, docs, sent, clock, limit, started>>
    /\ \E all \in queryMessages(
             GetMessagesBefore(normalizeRoomID(id), before), ClampLimit(limit) + 1) :
       \E page \in queryMessages(all, ClampLimit(limit)) :
          /\ pages' = Append(pages, page)
          /\ IF page # all
                THEN \E m \in all \ page :
                        before' = At(m) /\ ends' = ends /\ phase' = phase
                ELSE phase' = "done" /\ UNCHANGED <<before, ends>>

\* One request: one message more than the page holds is read, to see whether
\* there is more.  The client's next cursor is the oldest time it got.
GetMessages(id) ==
    /\ phase = "reading"
    /\ UNCHANGED <<pair, docs, sent, clock, limit, started>>
    /\ \E all \in queryMessages(
             GetMessagesBefore(normalizeRoomID(id), before), ClampLimit(limit) + 1) :
       \E page \in queryMessages(all, ClampLimit(limit)) :
          /\ pages' = Append(pages, page)
          /\ IF page # all
                THEN \E m \in page :
                        /\ \A k \in page : At(m) <= At(k)
                        /\ before' = At(m)
                        /\ ends' = ends \cup {At(m)}
                        /\ UNCHANGED phase
                ELSE phase' = "done" /\ UNCHANGED <<before, ends>>

\* SearchMessages, for a text that every message has: the id is taken as it
\* is, deleted messages are left out.
SearchMessages(id) ==
    {m \in Stored : ~docs[m].deleted /\ (docs[m].conv = id \/ docs[m].room = id)}

HistoryNext ==
    \/ \E m \in Messages, id \in Spellings, i \in {1, 2}, at \in 1 .. clock :
          SaveMessage(m, toServerMsg(m, id, pair[i], at))
    \/ \E m \in Messages : SoftDelete(m)
    \/ Tick
    \/ \E l \in Limits : Open(l)
    \/ \E id \in Spellings : GetMessages(id)

HistorySpec == HistoryInit /\ [][HistoryNext]_historyVars

-----------------------------------------------------------------------------
(* Properties.                                                             *)

Seen == UNION {pages[i] : i \in DOMAIN pages}

\* Documents without created_at are not newer than those that have it: the
\* query puts them last, whatever their sent_at (mongodb.go 755).
InOrder ==
    \A m, n \in Stored :
       docs[m].created = Absent /\ docs[n].created # Absent
          => docs[m].sent <= docs[n].sent

\* A client that has read to the end has every message that was stored when
\* it began, whichever spelling of the room id senders, older versions and
\* the client use, except messages with the millisecond at which a page was
\* cut, and unless documents of older versions are newer than others
\* (mongodb.go 736-755, 946-992; grpc_server.go 849-886).
PagesComplete ==
    phase = "done" /\ InOrder => \A m \in started : m \in Seen \/ At(m) \in ends

\* No message comes twice, and no page has a message newer than one of an
\* earlier page, also when messages arrive in between (grpc_server.go
\* 315-335).
PagesOnce ==
    \A i, j \in DOMAIN pages : i < j =>
       \A m \in pages[i], k \in pages[j] : At(k) < At(m)

\* A message is read with the author and the time it was sent with, from the
\* present or from the legacy fields, and one of an older version with its type
\* (mongodb.go 881-926).  The type of one that SaveMessage stored is not kept,
\* because its whole name is stored and the prefix put before it again
\* (mongodb.go 497, 900).
ReadAsSent ==
    \A m \in Seen :
       LET r == docToServerMessage(docs[m])
       IN  /\ r.user = sent[m].by
           /\ r.at = sent[m].at
           /\ m \in Old => r.type = TypeOf(m)

\* What a search under some spelling of the room id finds, the history has
\* under every spelling: the search compares ids as they are, the history by
\* their aliases (mongodb.go 599-611, 715-750, 946-992).
SearchInHistory ==
    \A id, other \in Spellings :
       SearchMessages(id) \subseteq GetMessagesBefore(normalizeRoomID(other), 0)

\* Every page that is not the last moves the client's cursor to a strictly
\* older time, also when messages arrive in between: no request is ever
\* repeated, so reading ends when the times of the history do
\* (grpc_server.go 315-335, mongodb.go 745).
OlderCursor ==
    phase' = "reading" /\ pages' # pages => before = 0 \/ before' < before

CursorFalls == [][OlderCursor]_historyVars

=============================================================================
