# chat-service: TLA+ models, checks and proofs

This directory holds a formal development for the Go chat service of this
repository: TLA+ modules translated from the code, TLC configurations that check
them on small instances, and TLAPS proofs that carry the most important results
to every instance. Line numbers refer to the files under `app/` and
`cmd/server/`; `PROJECT.json` maps every definition to the lines it stands for,
lists the runs, the faulty variants each property is tested against, the
hazards and the theorems.

## 1. The system

Every pod runs one gRPC server. A client opens a bidirectional `Chat` stream;
its first frame names the room. The handler registers a `Client` with the pod's
`Hub`, starts a goroutine that moves messages from `Client.Send` to the stream,
and processes frames until the stream fails. Messages are handed to the clients
of the room on this pod and published through a broker to the other pods, then
stored by goroutines of their own.

| Part | State | Operations | Talks to |
|---|---|---|---|
| Hub (`chat/hub.go`) | 64 shards, each an RWMutex and a map room -> clients and broker cancel; `connCnt` | Register, Unregister, Broadcast, forwardFromBroker | handlers (calls), `Client.Send` channels, broker |
| Chat handler (`server/grpc_server.go` 52-301) | one receive loop and one sender goroutine per stream, its context | Chat, processIncoming, persistMessage | Hub, presence, repositories |
| Message RPCs (`grpc_server.go` 305-743) | none | SendMessage, EditMessage, DeleteMessage, GetMessages, MarkMessageRead, GetUnreadCount, SearchMessages | Hub, message repository |
| Presence (`chat/presence.go`) | a map, or Redis keys with a TTL; one heartbeat goroutine per stream | SetOnline, StartHeartbeat, Get | handlers |
| Brokers (`broker/`) | Redis: one Pub/Sub per room entry with a goroutine. Kafka: registry of room channels, one consumer goroutine, a consumer group. No-op | Publish, Subscribe, cancel, Close | Hub; Redis, Kafka |
| Message repository (`repository/mongodb.go`) | collections messages, message_read, read_receipts, conversations | SaveMessage, EditMessage, SoftDeleteMessageByOwner, MarkMessageRead, GetMessagesBefore, GetUnreadCount | handlers and goroutines |
| Groups and conversations (`mongodb.go` 234-480) | conversations and group_members | CreateGroupConversation, AddGroupMember, RemoveGroupMember, LeaveGroup, PromoteAdmin, TransferOwnership, DeleteGroup, direct conversations | group RPCs |
| Room repository (`repository/postgres.go`) | chat_rooms, members, last activity, read receipts; the schema | Migrate, UpsertRoom, GetOrCreateDM, CreateGroup, UpdateLastActivity, UpdateReadReceipt, GetUserRooms | handlers and goroutines |
| Room store (`chat/room_store.go`) | a Redis key or map entry per room | CreateDM, CreateGroup, Get | CreateRoom, when neither database gave an id |
| Room RPCs (`grpc_server.go` 366-438, 499-591) | none | CreateRoom, GetUserRooms | the three stores above |
| Room ids (`grpc_server.go` 849-886, `mongodb.go` 928-992) | none | normalizeRoomID, splitRoomID, roomIDAliases | all handlers |
| Media RPCs and storage (`grpc_server.go` 440-495, `storage/`) | one background insert per upload | RequestUpload, GetDownloadUrl | Cloudinary, S3, MinIO; message repository |
| Auth interceptor (`interceptors/auth.go`) | the public key | one check of a call, one of a stream | generated gRPC handlers |
| Configuration (`config/config.go`) | defaults, YAML file, environment | Load, KafkaBrokers, PostgresDSNBuilt | main |
| Start and shutdown (`cmd/server/main.go`) | what could be set up; the server | main, signal, timer | everything |

Where it is hard:

- *Interleavings.* Broadcasts share a read lock while clients come and go and
  channels are closed. Counter, presence and broker calls are outside the lock.
  Every stored message has a goroutine of its own. The Kafka consumer looks up
  channels under a lock and sends after it. Group RPCs are two commands on two
  collections without a transaction.
- *Failure.* Streams die silently, pods crash, Redis connections break, database
  commands fail and most of their errors are dropped.
- *Time and delivery.* Presence keys expire; the Kafka offset is committed late
  and by a pod that may have lost the partition; Redis delivers to whoever is
  subscribed at that moment.
- *Several stores.* CreateRoom goes through up to three stores, each command on
  its own, and two callers may create the same DM; a list of rooms merges them.
  Histories hold ids and fields of older versions.
- *Start and end.* Any backend may fail while a pod starts, another pod may migrate
  the same schema, and a signal may come at any time, with streams that their
  clients keep open.
- *Limits.* Bounded channels drop messages; the connection limit is checked
  before it is used; pages of a history are cut at a millisecond.

What makes the parts correct: nobody sends on a closed channel; a stream gets
each author's messages in order, once, and only those of its room; nothing is
left behind in maps, subscriptions, counters or presence; a slow client blocks
nobody; other pods get no copy twice; an event about an edit or delete is true
of the database; offsets never pass a record that nobody handled; the two
collections of a group agree; ownership is single; a room that a call returned
exists, has its members and is listed once; reading page after page gives every
message once, whichever spelling of the room id is used; a pod starts with
what is configured and reachable, runs no handler for an unauthorised call, and
records the uploads it granted.

## 2. Modules

| Module | Models | Extended by |
|---|---|---|
| `ChatHub` | one pod: Hub, Chat handlers, sender goroutines, broadcasting unary calls, in-process presence, no-op broker | `MCChatHub`, `ChatHubProofs` |
| `RoomFeed` | abstract: what a pod promises of its rooms | instantiated by `ChatHub` |
| `RedisPresence` | presence keys, heartbeats and handlers of several pods | `MCRedisPresence`, `RedisPresenceProofs` |
| `RedisFanout` | one room on several pods over Redis Pub/Sub; composes hub entries, broker subscriptions and handlers | `MCRedisFanout`, `RedisFanoutProofs` |
| `MessageStore` | handlers, persisting goroutines, MongoDB and PostgreSQL for one room | `MCMessageStore`, `MessageStoreProofs` |
| `KafkaBroker` | registry, consumer goroutine and consumer group for one room | `MCKafkaBroker`, `KafkaBrokerProofs` |
| `Groups` | one group conversation and its member documents | `MCGroups`, `GroupsProofs` |
| `RoomIds` | the functions on room ids, as operators | `Rooms`, `History` |
| `Rooms` | CreateRoom over PostgreSQL, MongoDB and the room store, and the list of GetUserRooms | `MCRooms`, `RoomsProofs` |
| `History` | GetMessages, SearchMessages and the documents they read | `MCHistory`, `RoomsProofs` |
| `Config` | the settings of a pod and what main derives from them, as operators | `Service` |
| `Service` | the life of a pod: start, migration, interceptors, uploads, shutdown | `MCService`, `ServiceProofs` |

### ChatHub
A handler's `pc` follows the code: `Open`, `RecvFirst` (or `RefuseFirst`, when
the pod is full or the frame is bad), `Register`, `CountUp`, `SetOnline`, the
online Broadcast, `StartSender`, then `Recv` / `ProcessIncoming` / Broadcast in a
loop, `RecvError`, `WaitDone` for the sender, and the deferred `Unregister`,
`CountDown`, `SetOffline` and offline Broadcast. The shard's RWMutex is the set
`reading` of processes that hold it for reading: Broadcast takes the read lock
(`RLock`), visits one client per step (`Deliver`: put into the channel, or drop
when full) and unlocks; the critical sections of Register and Unregister are
single steps that wait until no reader holds the shard. Two rooms may share a
shard. A stream's context is live, half-closed (`eof`) or cancelled; the sender
goroutine (`SendOK`, `SenderExit`) ends only by a failed send or a closed
channel. `posts` and `last` are history: what was broadcast, what was handed
over.

### RoomFeed
Streams join one room once and leave it once, processes post to rooms, and a
stream receives a post only as a member of its room, at most once and in the
author's order. The refinement maps `member` to the client maps and `left` to the
streams past Unregister; `RLock` posts, `SendOK` receives, everything else
stutters.

### RedisPresence
`ttl[u]` is the remaining life of `chat:presence:<u>`. `SetOnline` and `SetOffline`
(DEL and the last-seen key, two commands) are steps of the handler; the heartbeat
re-arms its ticker and sends EXPIRE, which does not make a missing key. `Tick`
waits for the heartbeats that are due. Every command may fail, as all errors are
dropped; a command on a dead context is not sent. `Crash` ends a pod's stream
without its deferred calls. `gone` and `upset` are history: how long a user has had
no live stream, and whose key was deleted by the end of a stream, or not written or
prolonged because of a failure.

### RedisFanout
One room, because rooms have entries and channels of their own. Each entry a pod
makes for the room is a generation with a subscription (`none`, `pending` until
Redis knows it, `up`, `down`) and a pipe of messages not yet forwarded. `Register`
of a first client makes the entry, `Unregister` of the last one ends its
subscription; what had already passed the subscription's goroutine (a prefix of
the pipe) is still forwarded, to whoever is in the room by then. `Cast` hands the message to the
pod's own clients, `Publish` sends it to all subscriptions that are up, or fails
(always on a cancelled context, and at any time if `MayFail`). `ReceiveError` ends
a subscription for good. Locks and buffered channels are in ChatHub; here a
client in `Slow` may lose what it is handed.

### MessageStore
A handler's update of MongoDB (`Edit`, `Delete`) and the broadcast of its event are
two steps. A message takes three: `Send` gives it its time (that of the frame, which
may be late or missing, or the present one), `Broadcast` sends its event, and
`persistMessage` starts a goroutine. Its commands are steps: insert the document, update the conversation, upsert message_read, then
in PostgreSQL the last activity and the sender's read cursor. A duplicate id or a
failed insert skips the rest of SaveMessage but not PostgreSQL. Read receipts and
GetMessages start goroutines that write the cursor. `sm` is the message a handler has
still to persist. `Crash` drops all goroutines,
as the shutdown in `main.go` does.

### KafkaBroker
Subscribe and cancel change the registry under its lock, and the consumer's
`Fetch`, `Lookup`, `Send` and `Commit` are separate steps. A send to a channel that
was closed after the look-up is a panic, which ends the pod. The group is
external: it gives the partition to one pod, a pod notices late that it lost it,
and commits wait in a stash until the background loop sends them.

### Groups
An operation's first command is the step that starts it; what is left of it is in
`op`. `InsertMember` inserts one document of InsertMany at a time and
`InsertStops` ends it at the first duplicate. Histories: `unsettled` has the users
whose last membership change overlapped with another one or lost its second
command, `contested` says that transfers overlapped, were cut short, named the
wrong owner, or that an OWNER was added directly.

### RoomIds
A user id is the sequence of the words between its dashes, a room id its prefix
(`dm:`, `dm-`, `CONV_`, `group:`) with the user ids that follow. After `dm-` only one
sequence of words is left, because the separator is a dash too; `CutDash` cuts it
where the code does. `normalizeRoomID`, `roomIDAliases`, `splitRoomID` and the regular
expression of GetUserRooms (`MatchesDm`) are translated on this form; sorting is
the byte order of the strings.

### Rooms
`pc` is the next command of a CreateRoom call. A DM goes to PostgreSQL (`GetRoom`,
then `GetMembers` or `UpsertRoom` and one `UpsertMember` per member), then to MongoDB
(`FindConversation`, `UpsertCanonical` beside a legacy conversation, `InsertConversation`,
`Refind` after a duplicate key), and to the room store (`StoreGet`, `StoreSave`) if
neither gave an id. A group goes to MongoDB first (`GroupConversation`, `GroupDocs`). With
`MayFail` every command may fail, with the error path the code has (returned,
dropped, or taken for "not found"), and `Crash` ends a call anywhere. `conf` says which
databases the deployment has, and whether Redis: without it there is one pod, whose
`Crash` ends all calls and loses the rooms it kept in memory. `cut` is history: rooms
whose member inserts were cut short. `GetUserRooms` is an operator: what the two
databases list, merged by normalised id, when the reads in `up` succeed and the others
fail; a conversation without a last message has the time before 1970 that `UnixMilli`
makes of Go's zero time. `Post` gives the list its stamps; the interleavings of its
writes are in MessageStore. The unread flag of an entry is left out, as no property
of the list looks at it.

### History
`docs` is a function on the messages stored so far. Documents have the present and the
legacy fields; those in `Old` have a `CONV_` id in either order and a time of their own,
and each of them may have legacy fields only. New messages have the time of their
sender, at or before the present. A message may be sent and read under every id in `Spellings`. Names
that would clash with those of Rooms carry the word History, so that one module of
proofs can extend both. `SaveMessage` stores what `toServerMsg` makes of a frame,
`SoftDelete` and `Tick` are the other writers. A client opens with a limit and asks
for page after page (`GetMessages`), each time with the oldest time it got.
`queryMessages` leaves open which of several messages with equal times comes first.
`docToServerMessage` reads a document back. `SearchMessages` is an operator.

### Config and Service
`Load` overlays defaults, file and environment as the code does: empty strings and
unreadable numbers do not count, a flag can only be switched on. `Service` follows
main through its phases (`LoadConfig`, `ConnectRedis`, `SetUpStorage`, `ConnectMongo`,
`OpenPostgres`, `Migrate` statement by statement, `ConnectKafka`, `LoadAuth`, `Listen`);
`Trouble` records what failed, up to `MaxTrouble` times; calls to MinIO and PostgreSQL
have no deadline and may also never return (`Waiting`). Kafka cannot fail here, because
its broker connects later. `RivalMigrate` is the migration
of another pod, on the same schema. A `Call` passes the generated handler
(`UnaryHandler`, `StreamHandler`) and its interceptor before it is handled;
`RequestUpload` starts the goroutine whose insert is `SaveMediaUpload`. After `Signal`,
`GracefulStop` waits for the calls. After the `Timeout` Stop is called beside it, which
either returns at once or, when it comes second to the server's lock, with the last
handler only (`StopReturns`; gRPC is external, and modelled from version 1.64.0). Then
the two databases are closed. A token is the set of claims that `verify` looks at.

## 3. Runs

`expect: pass` means TLC visits the whole bounded state space without an error.
Distinct states are those of the configurations as they are kept here.

| Run | Instance | Shows |
|---|---|---|
| `hub_safety` (406,823 states) | two streams of one user, limit 1, two rooms in one shard, channel of 2, no further frames | `NoSendOnClosed`, `OneSubscriptionPerRoom`, `ConnCountExact`, `NoGhostOnline`, `FifoPerAuthor`, and the refinement `ImplementsFeed` |
| `hub_liveness` (42,593 states) | one stream that may never read, one call, two rooms, channel of 1, two frames | `BroadcastReturns`, `DeadStreamReaped`, `RoomIsolation` |
| `hub_disconnect` (violation) | one stream, one call | `DisconnectUnregisters` fails, see 5.1 |
| `presence_expiry` (17,752 states) | two streams of one user, TTL 4, refresh 2, failing Redis, crashes | `StaleAtMostTTL`, `OpenStaysOnline`, `GhostsExpire` |
| `fanout_safety` (345,011 states) | a call on one pod, two streams on the other, two entries per pod, one content frame | `RemoteAtMostOnce`, `LocalAtMostTwice` |
| `store_safety` (627,948 states) | three handlers of two users, one id, two texts, two goroutines, failing commands, crash | `EventsBacked`, `StoredAfterBroadcast`, `DeletedFrozen`, `AuthorFixed` |
| `kafka_safety` (217,142 states) | two pods, two records, channel of 1, two crashes or moves | `CommittedCovered`, `EveryRecordDispatched` |
| `kafka_registered` (violation) | one pod, two records | `SendsToRegistered` fails, see 5.2 |
| `groups_safety` (514,305 states) | three users, two handlers, five RPCs, failing second commands | `MembersAgree`, `OneOwner` |
| `rooms_safety` (206,232 states) | two callers, one pair of users, a DM or groups, one message, failing commands and reads, crashes, every combination of databases and Redis | `MembersComplete`, `ReplyBacked`, `ListedOnce`, `DmListed` |
| `history_pages` (323,584 states) | two old messages and a new one, two of them images, pages of 1 and 2, pairs of UUIDs and of short ids | `PagesComplete`, `PagesOnce`, `ReadAsSent`, `SearchInHistory`, `CursorFalls` |
| `service_life` (415,291 states) | two files, three environments, two calls, valid and expired tokens, one failure, calls that never return, another pod's migration | `WiredAsConfigured`, `SchemaReady`, `HandledAuthorised`, `Starts`, `UploadRecorded` |

The type invariants of all modules are theorems (section 4). Each property of a passing
run has a faulty variant of a definition in its module (`...Early`, `...Replaces`,
`...DropsError` and the like) under which TLC finds it violated.

Several properties name the cases they except: `OpenStaysOnline` a failed command and the
end of another stream (`upset`), `MembersAgree` and `OneOwner` overlapping changes
(`unsettled`, `contested`), `EveryRecordDispatched` skipped records, `MembersComplete` and
`DmListed` inserts cut short (`cut`), `PagesComplete` the millisecond of a cut (`ends`) and
histories whose legacy documents are newer than others (`InOrder`), `WiredAsConfigured` two
migrations at once (`overlap`), `Starts` a call that never returns (`Waiting`). They
say that nothing else goes wrong; section 5 says what happens there.

### Bounds
- *ChatHub.* Races are between two streams, or a stream and a call: two of them
  in two rooms of one shard reach every pairing of Register, Unregister and the
  online and offline Broadcasts, and a limit of 1 lets both pass the check.
  Channels of 1 and 2 fill; 256 would not in a small instance. Further frames are
  in the liveness run; the theorems cover any number.
- *RedisPresence.* The proportion of 60 s to 30 s is kept; two heartbeats fit
  into a TTL.
- *RedisFanout.* Two entries per pod let an old forwarder and a new subscription
  overlap. `Talkers` and `MaxContent` bound who sends content. In the run PUBLISH
  fails only on cancelled contexts and no stream is slow; the theorems cover
  `MayFail` and any `Slow`.
- *MessageStore.* One id makes all messages collide; two goroutines suffice to
  overtake. Times are positions in the order of clock readings, and a frame may have
  any earlier one. The two handlers of one user and the texts are symmetric.
- *KafkaBroker.* Two moves let a pod lose the partition and get it back. Every
  record is of the one room.
- *Groups.* Five RPCs are the creation and four changes: two overlapping ones,
  then two that run on what they left behind.
- *Rooms.* Two callers race for the DM or make a group each; a third adds no new
  pair of steps. One message makes the stamps of the stores differ. Every set of
  failing reads is tried in every state. The theorems cover any number of callers and
  users.
- *History.* Three messages and pages of 1 and 2 give a full page, a cut between
  equal times and a last page; two times for the old ones and three for the others give
  every order of legacy and present documents; the limits are below, inside and above the bounds
  of 50 and 200, which are 1 and 2 here. A UUID has two words instead of five.
- *Service.* Two tables stand for all: what matters is a failure between two
  statements and the trigger. One failure per life reaches every error path; the
  settings of the files and environments differ in every way that `Load` tells apart
  (missing, empty, unreadable, overridden).

### Deadlock and fairness
Clients may stay silent, and the number of frames, RPCs, goroutines or records is
bounded, so these systems may stop, and `CHECK_DEADLOCK FALSE` says so where they
do; RedisPresence never stops, as time goes on, and its runs check deadlock.

Fairness is weak and only where Go, or time, gives it: handlers inside the server,
sender and heartbeat goroutines and the Kafka consumer run when they can, and time
passes. A Kafka partition that has no owner is given to somebody. A CreateRoom call that
started goes on, and so does the insert of an upload: their commands are assumed to
return, with success or an error, as they have no deadline of their own. main and the
handlers of a pod go on and the shutdown timer fires, but nothing is assumed of start-up
calls without a deadline (`postgres.go` 41, `main.go` 94 and 126), nor that a Chat
handler ends. RedisFanout, MessageStore, Groups and History are
checked without fairness. Otherwise nothing is assumed of clients (they may
never read, send or leave), of signals, of the other pod, of the connection to Redis, of
crashes, of failing commands or of SetOffline, which in the code may wait for ever.

## 4. Proofs

TLAPS checks all of it; there are no unproved steps. Each inductive invariant is
the conjunction of the property, the types, and what connects them. Every invariant,
every action property and the refinement that the passing runs check is a theorem.

**ChatHub**, for any finite sets of streams and
calls, any rooms, hash, limit and capacity.
- `HubInvariant`: `TypeOK`, `CastInv` (who broadcasts knows its room),
  `RegisteredExactly`, `OneSubscriptionPerRoom`, `LockInv` (what a Broadcast has
  still to visit stays in the room's map while it reads) and `LifeInv` (handler,
  channel and sender move together). From it `SendOnClosedNever`, `ReturnNeedsCancel` (a handler returns only with a
  cancelled context), `SubscriptionsExact`, `RegisteredAlways` (the client maps
  hold exactly the streams between Register and Unregister). `LockInv` is
  the heart: Unregister closes a channel only when no reader holds the shard, so a
  channel somebody is about to send on is open.
- `DeliveryInvariant` adds `NewestInv` (a client still to be visited lacks the
  newest message of that author) to `RoomIsolation` and `FifoPerAuthor`. From it
  the two properties and `HubImplementsFeed`, step by step under the refinement
  mapping.
- `ConnCountAlwaysExact` (cardinality moves by one with each update) and
  `NoGhostOnlineAlways`.

**RedisPresence**, for every TTL and refresh period: `TypeOK`, `ClockInv` and
`StaleAtMostTTL` are inductive together; after the last live stream the remaining
life and the time gone add up to at most the TTL, because a heartbeat of a dead
context sends nothing. `OpenAlwaysOnline` rests on `KeyInv`: the key outlives the time
until the next heartbeat of every open stream.

**RedisFanout**, for any pods, streams, calls and entries: `FanoutInv` is `TypeOK`,
`CastInv`, `HomeInv`, `OneLiveSubscription`, `PipeInv` and `CountInv`. The argument
counts: a message that is unsent, or in the one place of the one pipe of a pod
that may hold it, has reached a client of that pod only from its author's own
Broadcast; a forwarder adds one copy and takes the message out of the pipe.
`RemoteAlwaysAtMostOnce`, `LocalAlwaysAtMostTwice` (on the author's pod) and
`AlwaysOneLiveSubscription` (only the newest entry has a live subscription) follow.

**MessageStore**: `TypeOK`, `EventsBacked` and `PendingBacked` (the event a handler
has stored and not yet broadcast is backed too) are inductive; `DocsKept` says of
every step that documents stay, keep their author, and stay as they are once
deleted, and gives `DeletedAlwaysFrozen` and `AuthorAlwaysFixed`. `StoredAlwaysAnnounced`
rests on `AnnouncedInv`: what a goroutine has to insert was broadcast by its author, as was
what a handler has to persist, unless that broadcast is still its next step.

**KafkaBroker**: `PositionInv` (all before a reader's position is dealt with, but
for the record it holds), `HeldInv` and `StashInv` (what waits to be committed is
covered) carry `CommittedAlwaysCovered` through crashes and late commits.

**Groups**: `ShapeInv` (one creation, operations fit the phase), `AgreeInv` (`AloneInv`:
an undisturbed change has its user for itself and the document is as its first
command left it; `TodoInv`: a document still to be inserted belongs to a
participant; `MembersAgree`) and `OwnerInv` (one transfer at a time, none during
the creation). `MembersAlwaysAgree` and `OneOwnerAlways` follow.

**Rooms**, for any callers, users and group members: `RoomInvariant` is `TypeOK`,
`MembersComplete` and, of each call, `MemberInv` (while it inserts members, what is in
the table and what it has left make up all of them), `StepInv` (what it has found or
made in the stores at each step) and `FromInv` (its room is in the store the id came
from; without Redis that holds because a crash ends the calls that lose their rooms). From
it `MembersAlwaysComplete` and `RepliesBacked`; `CreatorsKept` says of every
step that the creator in both databases stays.

*The list of rooms* (`AlwaysListedOnce`). The order of user ids is shown to be total
(`LessTotal`, by the first word in which two ids differ), so both orders of a pair have
one canonical id and `normalizeRoomID` maps every form of the DM to it (`CanonicalAliases`,
`DmIdFacts`). `ListInv` adds what the stamps need: a conversation that is not there has no
last message, and members have a row. The merge then leaves one entry, that of the newest
stamp. The theorem assumes that both users have UUIDs, because `CONV_` ids of other users
are not normalised by the code and such a DM may appear twice. `AlwaysRepliedListed` is
the safety part of `DmListed`: a DM that a call took from a database is in both lists
already, unless members are being inserted or an insert was cut short.

**History** (in `RoomsProofs`, which shares the lemmas on ids), for all pairs of user ids,
any messages, limits and times. `HistoryInv` is the types, `DocInv` (what each kind of
document has in its fields), `ReaderInv`, `PagesComplete` and `PagesOnce`.
- `TimeFacts`: the query sorts by created_at, with missing ones last, and the cursor is
  compared with either field. These agree only while legacy documents without created_at
  are not newer than others; `HistoryComplete` is about such histories (`InOrder`).
- `QueryFacts`: under every spelling the query finds all stored messages of the room.
- `ReaderInv`: nothing the client has is older than its cursor, and of what it began with
  it lacks only messages before the cursor or with the time of a cut. A full page takes the
  newest, so what is left out is not newer than its last message; on the last page a
  counting argument (a set of n members taken from one of at most n is all of it) shows
  that nothing is left.
- `CursorAlwaysFalls`: a page that is not the last moves the cursor to a strictly older
  time, so a client that goes on asking comes to the end.
- `HistoryAsSent` and `SearchAlwaysInHistory` follow from `DocInv` and the lemmas on ids.

**Service**, for all settings, tables, calls and tokens. `ServiceInv` is `TypeOK`, `MongoInv`,
`PgInv`, `SchemaInv`, `BrokerInv`, `AuthInv`, `QuietInv` and the property on calls. Two parts were found by the failing proof: `MongoInv` needs that MongoDB is not
wired before its phase, and `PgInv` that, without another pod's statements in between, the
trigger is still dropped when this pod creates it, because otherwise CREATE TRIGGER could
fail for no recorded reason. `SchemaInv` keeps the tables of all statements done so far,
whatever the other pod does. From it `AlwaysWired`, `SchemaAlwaysReady` and
`AlwaysAuthorised`. `FatalOnlyForCause` (a pod never ends itself because of Redis,
Kafka or a database) and `LostOnlyForCause` (an upload is lost only by a failed insert or
after the close) are the safety parts of `Starts` and `UploadRecorded`.

Assumptions are the named `ASSUME`s of the modules: ranges of the bounds, sets
that do not overlap, functions with the right domains, `None` and its like outside
the sets they extend, Refresh < TTL, user ids that are non-empty sequences of words,
two different users in a DM, flags that are Boolean, at least one table. TLC evaluates them in every run.

Only model-checked: `BroadcastReturns`, `DeadStreamReaped`, `GhostsExpire`,
`EveryRecordDispatched`, `DmListed`, `Starts` and `UploadRecorded`, because
liveness and fairness are out of the prover's reach. The two violated properties of
section 5 are refuted by TLC. The connecting parts of the inductive invariants are
proved and are not invariants of the runs.

## 5. Where code and text disagree

1. `hub_disconnect`. After `Recv` fails the handler waits for the sender goroutine,
   which waits for a message; the close that would end it comes after the wait. A
   client that went away stays registered, counted and online until somebody
   broadcasts to the room. The README's sequence diagram (571-572)
   has Unregister follow the end of the stream.
2. `kafka_registered`. The consumer sends to a channel that cancel closed after the
   look-up, and the pod panics. `kafka_broker.go` 175-176 says it dispatches to
   registered subscribers.

Seen while modelling, without a run of their own: a few steps of a model show them, or one
sequential call, and the properties above that touch them except the case by name.

*Streams and brokers*

- The limit of connections is soft: check and increment are apart
  (`grpc_server.go` 55, `hub.go` 102).
- With Redis, clients on the author's pod get the message twice, from Broadcast
  and from the pod's own subscription (`LocalAtMostTwice`); README 369 only
  speaks of loops.
- The offline event is published with a dead context, so other pods never get it
  (`ReturnsOnlyCancelled`).
- The end of one stream deletes the presence key of a user who has another
  (`presence.go` 72); EXPIRE does not bring it back, although `presence.go` 98 says the
  heartbeat keeps it alive while the stream is open. `OpenStaysOnline` says that this and
  failing commands are the only causes.
- An error of ReceiveMessage ends a Redis subscription (`redis_broker.go` 67); nobody
  subscribes again while the room has clients (README 1081 promises delivery whichever pod
  a client is on).
- All pods share a Kafka consumer group, so each record reaches one pod only,
  while `main.go` 139-140 wants all of them to have it; and a group without an
  offset starts at the end of the log.

*Messages and groups*

- The row of the last activity is overwritten without comparing times (`postgres.go` 221),
  by goroutines that nothing orders and with the times of frames: a message that is late,
  or whose goroutine is slow, stays there although a newer one was stored, until the next
  message (`postgres.go` 213: "most-recent").
- The read cursor is overwritten likewise (`postgres.go` 238) and may go back, so that what
  a user has read counts as unread again (`grpc_server.go` 285: "advance").
- The upsert of message_read names read_by twice (`mongodb.go` 551), which MongoDB
  refuses; the error is dropped, so unread counts stay 0.
- member_count drifts (re-adding a member, removing a stranger); a transfer to
  somebody who left leaves the group without an owner; members added later get
  an `_id` that is not a string, which the driver may refuse to decode into
  `groupMemberDoc`, and GetConversation skips what it cannot decode.

*Rooms, ids and histories*

- A room row whose member inserts were cut short is never repaired: the next
  GetOrCreateDM finds the row and returns it (README 170 speaks of ACID
  transactions).
- Rooms that ended up in the room store are not listed by GetUserRooms, and a race
  or a Redis error lets a later caller overwrite the creator.
- The creator of a group in PostgreSQL is a member only if the request names it.
- Group conversations of MongoDB are listed as DMs (`grpc_server.go` 567).
- A bug: SaveMessage stores the whole name of a message's type (`mongodb.go` 497) and
  docToServerMessage puts the prefix before it again (900), so every image or video is read
  back as TEXT. The comment at `mongodb.go` 51 has the field hold "TEXT", "IMAGE" and so on.
- Messages with the millisecond of a page's last message are skipped, although
  has_more promised them (README 213, `chat.proto` 114); a cursor of 0 means the newest page.
- Documents without created_at sort last whatever their time, while the cursor is compared
  with sent_at (`mongodb.go` 745-755): where such a document is newer than others, a page
  that ends in it moves the cursor past messages the client has not got.
- `dm:` ids in unsorted order are no aliases, though the comment at `mongodb.go` 946
  speaks of unsorted forms; `CONV_` ids are normalised for UUIDs only; a `dm-` id is cut
  at its first dash, so UUIDs come apart.

*Start and end*

- When two pods migrate at once, the CREATE TRIGGER of the second may fail, and it
  serves without PostgreSQL (`postgres.go` 51: "Idempotent - safe to call on every
  startup").
- `JWT_DISABLED=false` and `MINIO_USE_SSL=false` do not override a file that says true
  (README 882). `KAFKA_BROKERS=","` switches off the brokers of the file. A malformed
  `REDIS_URL` leaves the pod without Redis even with `REDIS_ADDR`.
- Without MongoDB there is no "in-memory history" (`main.go` 112). The default host
  "localhost" makes `main.go` 134 unreachable unless a file empties it.
- After a signal the process may never end: main calls Stop (`main.go` 228) while
  GracefulStop waits for the handlers, in gRPC 1.64.0 with the lock that Stop needs, and a
  Chat handler may stay at `<-done` (5.1). README 311 says that the shutdown is forced after
  5 s. When Stop returns at once it waits for no handler; nothing waits for background
  goroutines, so databases may be closed under both. KafkaBroker.Close is called nowhere.
- The ping, the migration and MinIO's bucket have no deadline: a server that does not
  answer, or a lock on a table, keeps a pod from serving.
- NewKafkaBroker does not connect, so the fallback at `main.go` 149 is never taken.

## 6. Abstractions

- Redis delivers a message once, in order, to the subscriptions it knows, and the
  client does not retry PUBLISH. A subscription made with the first stream's
  context may end with it; `ReceiveError` covers that.
- Each database command is atomic; MongoDB and PostgreSQL are both configured. The
  collection read_receipts is written and never read, and is left out.
- Frames without an id are left out of MessageStore, frames without a time out of History.
  A frame may be late, but no clock is ahead.
- Typing and receipt broadcasts do not publish and look like any other Broadcast
  in ChatHub. Room ids are canonical in all modules but Rooms and History.
- Words of user ids are ordered numbers, ids have no surrounding blanks, and a user
  id contains neither `:` nor `_`. `dm-` ids of users with dashes in their ids are left
  out of History's `Spellings`.
- Config has the settings that decide which parts are started; names, passwords and
  regions are read in the same three ways. Of MongoDB's start a failure is one
  outcome; failing indexes are passed over, as in the code.
- In Service three methods and Chat stand for all methods of the generated code;
  what their handlers do is in the other modules.
- `RedisFanout` and `KafkaBroker` keep one room; `Groups` one group. A first command
  of a group RPC that fails changes nothing and is no step.
- A panic in the Kafka consumer ends the pod, whatever else it did.

Not modelled: logging; the contents of presigned URLs and the external storage
services; the generated message types and their encoding; the order of events of
different handlers about one message; Redis keys of last-seen times beyond their
writing. GetUnreadCount and Get only return data and change no state.

## 7. Plan

Done, in this order: the hub, its abstract feed and proofs; presence; fan-out;
store; Kafka; groups; room ids and rooms with proofs; histories; configuration and
the life of a pod; proofs of Service, of the list of rooms and of histories; open streams
stay online.

Next, the most important first:
1. The step-wise parts of the other liveness arguments (what a fair step decreases, and
   that nothing else increases it): a Broadcast's remaining clients, the statements of a
   persisting goroutine, a record's way through the Kafka consumer.
2. RedisFanout's counting argument as a refinement of an abstract cross-pod feed, and a
   composition of ChatHub with the broker interface, so that RedisFanout's atomic Cast is
   a proved abstraction of the locked one.
3. An ordered feed of edit and delete events and a client's view of it, and what the
   last activity and the read cursor do promise when times are in order.

## 8. Running

In this directory: `tlc -workers 2 -config Groups_safety.cfg MCGroups` (every run
names its module and configuration in `PROJECT.json`) and `tlapm GroupsProofs.tla`.
The longest run takes under three minutes, the longest proof about three. Eight
modules hold proofs (their names end in `Proofs`), with 6,649 obligations.
