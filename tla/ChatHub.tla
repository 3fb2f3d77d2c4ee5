------------------------------ MODULE ChatHub ------------------------------
(***************************************************************************)
(* One pod of the chat service: the sharded Hub of app/chat/hub.go, the    *)
(* life of every Chat stream handler of app/server/grpc_server.go that     *)
(* uses it, the per-stream sender goroutine, the unary RPCs that broadcast *)
(* and the in-process presence map of app/chat/presence.go.  The broker is *)
(* broker.Noop, the default when neither Kafka nor Redis is configured.    *)
(*                                                                         *)
(* A shard's RWMutex is modelled by the set of processes that hold it for  *)
(* reading: Broadcast delivers to one client per step while it holds the   *)
(* read lock, and the critical sections of Register and Unregister are     *)
(* single steps that wait until no reader holds the shard.  What the code  *)
(* does outside the lock (the connection counter, the presence calls, the  *)
(* start of the sender) is a step of its own.                              *)
(***************************************************************************)
EXTENDS Integers, Sequences, FiniteSets

CONSTANTS
    Streams,    \* Chat streams; each runs the handler at most once
    Calls,      \* unary RPCs that end in a Broadcast (send, edit, delete)
    Rooms,      \* canonical room ids
    Users,      \* user ids
    UserOf,     \* [Streams -> Users]: who opens the stream
    ShardOf,    \* [Rooms -> shard index]: the FNV-1a hash of the room id
    NoRoom,     \* the room of a stream before its first frame names one
    MaxConns,   \* Hub.maxConns; 0 means unlimited
    SendCap,    \* capacity of Client.Send (256 in the code)
    MaxFrames   \* bound: frames a stream sends after the first one

numShards == 64

Procs == Streams \cup Calls

ASSUME ProcsAssumption ==
    Streams \cap Calls = {} /\ IsFiniteSet(Streams) /\ IsFiniteSet(Calls)
ASSUME UserAssumption  == UserOf \in [Streams -> Users]
ASSUME RoomAssumption  == NoRoom \notin Rooms
ASSUME ShardAssumption == ShardOf \in [Rooms -> 0 .. numShards - 1]
ASSUME LimitAssumption ==
    MaxConns \in Nat /\ SendCap \in Nat \ {0} /\ MaxFrames \in Nat

VARIABLES
    pc,        \* where each handler or unary call is
    ctx,       \* the stream's context: "live", "eof" or "cancelled"
    roomOf,    \* Client.RoomID of a stream, the target room of a call
    cur,       \* the frame a handler is processing
    frames,    \* frames received after the first one (bounded by MaxFrames)
    clients,   \* [Rooms -> SUBSET Streams]: room.clients
    rooms,     \* rooms that have an entry in their shard's map
    subs,      \* [Rooms -> Nat]: live broker subscriptions of the room
    reading,   \* processes inside Broadcast, holding a shard's read lock
    todo,      \* clients an ongoing Broadcast has still to visit
    queue,     \* Client.Send: the buffered channel
    closed,    \* whether Client.Send was closed
    sender,    \* the sender goroutine: "none", "running" or "done"
    connCnt,   \* Hub.connCnt
    online,    \* LocalPresenceStore: IsOnline of each user
    posts,     \* history: the room of each broadcast a process has started
    last       \* history: number of the newest message of each process
               \* that was handed to each stream

hubVars     == <<clients, rooms, subs>>
lockVars    == <<reading, todo, posts>>
senderVars  == <<sender, last>>
frameVars   == <<cur, frames>>
vars == <<pc, ctx, roomOf, cur, frames, clients, rooms, subs, reading, todo,
          queue, closed, sender, connCnt, online, posts, last>>

\* A frame as the hub sees it: the (normalised) room it names, and whether
\* processIncoming ends in a Broadcast (an empty frame, a control frame
\* without a message id or a refused edit or delete does not).
Frames == [room : Rooms, casts : BOOLEAN]
NoFrame == [room |-> NoRoom, casts |-> FALSE]

\* A broadcast message: its author process and its place among the
\* author's broadcasts; posts[from][n] is the room it is for.
Messages == [from : Procs, n : Nat \ {0}]

\* Handler states in which a Broadcast call is due or running.
Casting == {"onlineCast", "frameCast", "offlineCast", "callCast"}

\* Handler states between Register's unlock and Unregister's.
InHub == {"countUp", "setOnline", "onlineCast", "startSender", "process",
          "frameCast", "recv", "waitDone", "unregister"}

\* Handler states after Unregister's critical section.
Left == {"countDown", "setOffline", "offlineCast", "done"}

\* Handler states in which connCnt counts the stream.
Counted == (InHub \ {"countUp"}) \cup {"countDown"}

\* Handler states after SetOnline(true) and before SetOnline(false).
Announced == {"onlineCast", "startSender", "process", "frameCast", "recv",
              "waitDone", "unregister", "countDown", "setOffline"}

PCs == {"idle", "recvFirst", "refused", "register"} \cup InHub \cup Left
         \cup {"callCast"}

\* The room the Broadcast call of p addresses.
CastRoom(p) == IF pc[p] = "frameCast" THEN cur[p].room ELSE roomOf[p]

\* Where a handler goes on when its Broadcast returns.
AfterCast(p) == CASE pc[p] = "onlineCast" -> "startSender"
                  [] pc[p] = "frameCast"  -> "recv"
                  [] OTHER                -> "done"

Init ==
    /\ pc = [p \in Procs |-> "idle"]
    /\ ctx = [s \in Streams |-> "live"]
    /\ roomOf = [p \in Procs |-> NoRoom]
    /\ cur = [p \in Procs |-> NoFrame]
    /\ frames = [s \in Streams |-> 0]
    /\ clients = [r \in Rooms |-> {}]
    /\ rooms = {}
    /\ subs = [r \in Rooms |-> 0]
    /\ reading = {}
    /\ todo = [p \in Procs |-> {}]
    /\ queue = [s \in Streams |-> <<>>]
    /\ closed = [s \in Streams |-> FALSE]
    /\ sender = [s \in Streams |-> "none"]
    /\ connCnt = 0
    /\ online = [u \in Users |-> FALSE]
    /\ posts = [p \in Procs |-> <<>>]
    /\ last = [s \in Streams |-> [p \in Procs |-> 0]]

-----------------------------------------------------------------------------
(* The Chat handler, up to the registration.                               *)

AtCapacity == MaxConns > 0 /\ connCnt >= MaxConns

\* The stream arrives and passes, or fails, the capacity check.
Open(s) ==
    /\ pc[s] = "idle"
    /\ pc' = [pc EXCEPT ![s] = IF AtCapacity THEN "refused" ELSE "recvFirst"]
    /\ UNCHANGED <<ctx, roomOf, frameVars, hubVars, lockVars, queue, closed,
                   senderVars, connCnt, online>>

\* stream.Recv returns the first frame: it names the room and becomes the
\* first frame to process.  NewClient makes the (empty, open) channel.
RecvFirst(s) ==
    /\ pc[s] = "recvFirst"
    /\ ctx[s] # "eof"
    /\ \E f \in Frames :
          /\ roomOf' = [roomOf EXCEPT ![s] = f.room]
          /\ cur' = [cur EXCEPT ![s] = f]
    /\ pc' = [pc EXCEPT ![s] = "register"]
    /\ UNCHANGED <<ctx, frames, hubVars, lockVars, queue, closed, senderVars,
                   connCnt, online>>

\* The first Recv fails, or the first frame lacks the user or the room id.
RefuseFirst(s) ==
    /\ pc[s] = "recvFirst"
    /\ pc' = [pc EXCEPT ![s] = "refused"]
    /\ UNCHANGED <<ctx, roomOf, frameVars, hubVars, lockVars, queue, closed,
                   senderVars, connCnt, online>>

-----------------------------------------------------------------------------
(* The hub.                                                                *)

\* Faulty variant of WriteLockFree: Register and Unregister do not lock.
WriteLockFreeUnlocked(r) == r \in Rooms

\* mu.Lock of the shard of room r can be granted.
WriteLockFree(r) ==
    \A p \in reading : ShardOf[CastRoom(p)] # ShardOf[r]

\* Register's critical section: the first client of a room creates its entry
\* and subscribes the pod to the room.
Register(s) ==
    LET r == roomOf[s] IN
    /\ pc[s] = "register"
    /\ WriteLockFree(r)
    /\ clients' = [clients EXCEPT ![r] = @ \cup {s}]
    /\ rooms' = rooms \cup {r}
    /\ subs' = IF r \in rooms THEN subs ELSE [subs EXCEPT ![r] = @ + 1]
    /\ pc' = [pc EXCEPT ![s] = "countUp"]
    /\ UNCHANGED <<ctx, roomOf, frameVars, lockVars, queue, closed, senderVars,
                   connCnt, online>>

\* Faulty variant of CountUp: only the first client of a room is counted.
CountUpFirstOnly(s) ==
    /\ pc[s] = "countUp"
    /\ connCnt' = IF clients[roomOf[s]] = {s} THEN connCnt + 1 ELSE connCnt
    /\ pc' = [pc EXCEPT ![s] = "setOnline"]
    /\ UNCHANGED <<ctx, roomOf, frameVars, hubVars, lockVars, queue, closed,
                   senderVars, online>>

\* connCnt.Add(1), after the unlock.
CountUp(s) ==
    /\ pc[s] = "countUp"
    /\ connCnt' = connCnt + 1
    /\ pc' = [pc EXCEPT ![s] = "setOnline"]
    /\ UNCHANGED <<ctx, roomOf, frameVars, hubVars, lockVars, queue, closed,
                   senderVars, online>>

\* Faulty variant of Unregister: the last client leaves the entry, and so the
\* subscription, behind.
UnregisterKeepsEntry(s) ==
    /\ pc[s] = "unregister"
    /\ WriteLockFree(roomOf[s])
    /\ clients' = [clients EXCEPT ![roomOf[s]] = @ \ {s}]
    /\ closed' = [closed EXCEPT ![s] = TRUE]
    /\ pc' = [pc EXCEPT ![s] = "countDown"]
    /\ UNCHANGED <<ctx, roomOf, frameVars, rooms, subs, lockVars, queue,
                   senderVars, connCnt, online>>

\* Unregister's critical section: the client leaves the map, its channel is
\* closed, and the last client takes the subscription and the entry along.
Unregister(s) ==
    LET r == roomOf[s] IN
    /\ pc[s] = "unregister"
    /\ WriteLockFree(r)
    /\ IF r \in rooms
          THEN /\ clients' = [clients EXCEPT ![r] = @ \ {s}]
               /\ closed' = [closed EXCEPT ![s] = TRUE]
               /\ IF clients[r] \subseteq {s}
                     THEN /\ subs' = [subs EXCEPT ![r] = @ - 1]
                          /\ rooms' = rooms \ {r}
                     ELSE UNCHANGED <<subs, rooms>>
          ELSE UNCHANGED <<hubVars, closed>>
    /\ pc' = [pc EXCEPT ![s] = "countDown"]
    /\ UNCHANGED <<ctx, roomOf, frameVars, lockVars, queue, senderVars,
                   connCnt, online>>

\* connCnt.Add(-1), after the unlock.
CountDown(s) ==
    /\ pc[s] = "countDown"
    /\ connCnt' = connCnt - 1
    /\ pc' = [pc EXCEPT ![s] = "setOffline"]
    /\ UNCHANGED <<ctx, roomOf, frameVars, hubVars, lockVars, queue, closed,
                   senderVars, online>>

\* Faulty variant of RLock: Broadcast ranges over every client of the shard.
RLockWholeShard(p) ==
    /\ pc[p] \in Casting
    /\ p \notin reading
    /\ reading' = reading \cup {p}
    /\ todo' = [todo EXCEPT ![p] =
          UNION {clients[r] : r \in
             {x \in rooms : ShardOf[x] = ShardOf[CastRoom(p)]}}]
    /\ posts' = [posts EXCEPT ![p] = Append(@, CastRoom(p))]
    /\ UNCHANGED <<pc, ctx, roomOf, frameVars, hubVars, queue, closed,
                   senderVars, connCnt, online>>

\* Broadcast takes the read lock and starts to range over the room's clients.
RLock(p) ==
    /\ pc[p] \in Casting
    /\ p \notin reading
    /\ reading' = reading \cup {p}
    /\ todo' = [todo EXCEPT ![p] = IF CastRoom(p) \in rooms
                                      THEN clients[CastRoom(p)] ELSE {}]
    /\ posts' = [posts EXCEPT ![p] = Append(@, CastRoom(p))]
    /\ UNCHANGED <<pc, ctx, roomOf, frameVars, hubVars, queue, closed,
                   senderVars, connCnt, online>>

\* The non-blocking send: a full channel drops the message.
Offer(q, m) == IF Len(q) < SendCap THEN Append(q, m) ELSE q

\* Faulty variant of Deliver: the author's own stream gets an extra echo.
DeliverEcho(p, c) ==
    LET m == [from |-> p, n |-> Len(posts[p])] IN
    /\ p \in reading
    /\ c \in todo[p]
    /\ queue' = [queue EXCEPT ![c] =
          IF c = p THEN Offer(Offer(@, m), m) ELSE Offer(@, m)]
    /\ todo' = [todo EXCEPT ![p] = @ \ {c}]
    /\ UNCHANGED <<pc, ctx, roomOf, frameVars, hubVars, reading, posts,
                   closed, senderVars, connCnt, online>>

\* Faulty variant of Deliver: the send blocks while the channel is full.
DeliverBlocking(p, c) ==
    /\ p \in reading
    /\ c \in todo[p]
    /\ Len(queue[c]) < SendCap
    /\ queue' = [queue EXCEPT ![c] =
          Append(@, [from |-> p, n |-> Len(posts[p])])]
    /\ todo' = [todo EXCEPT ![p] = @ \ {c}]
    /\ UNCHANGED <<pc, ctx, roomOf, frameVars, hubVars, reading, posts,
                   closed, senderVars, connCnt, online>>

\* Broadcast visits one client; Go ranges over a map in any order.
Deliver(p, c) ==
    /\ p \in reading
    /\ c \in todo[p]
    /\ queue' = [queue EXCEPT ![c] =
          Offer(@, [from |-> p, n |-> Len(posts[p])])]
    /\ todo' = [todo EXCEPT ![p] = @ \ {c}]
    /\ UNCHANGED <<pc, ctx, roomOf, frameVars, hubVars, reading, posts,
                   closed, senderVars, connCnt, online>>

\* RUnlock; Noop.Publish does nothing, so Broadcast returns.
RUnlock(p) ==
    /\ p \in reading
    /\ todo[p] = {}
    /\ reading' = reading \ {p}
    /\ pc' = [pc EXCEPT ![p] = AfterCast(p)]
    /\ cur' = [cur EXCEPT ![p] = IF pc[p] = "frameCast" THEN NoFrame ELSE @]
    /\ UNCHANGED <<ctx, roomOf, frames, hubVars, todo, posts, queue,
                   closed, senderVars, connCnt, online>>

-----------------------------------------------------------------------------
(* The Chat handler, after the registration.                               *)

\* LocalPresenceStore.SetOnline(userID, true).
SetOnline(s) ==
    /\ pc[s] = "setOnline"
    /\ online' = [online EXCEPT ![UserOf[s]] = TRUE]
    /\ pc' = [pc EXCEPT ![s] = "onlineCast"]
    /\ UNCHANGED <<ctx, roomOf, frameVars, hubVars, lockVars, queue, closed,
                   senderVars, connCnt>>

\* The sender goroutine starts only after the presence broadcast.
StartSender(s) ==
    /\ pc[s] = "startSender"
    /\ sender' = [sender EXCEPT ![s] = "running"]
    /\ pc' = [pc EXCEPT ![s] = "process"]
    /\ UNCHANGED <<ctx, roomOf, frameVars, hubVars, lockVars, queue, closed,
                   last, connCnt, online>>

\* processIncoming: the frame leads to a Broadcast, or to nothing.
ProcessIncoming(s) ==
    /\ pc[s] = "process"
    /\ pc' = [pc EXCEPT ![s] = IF cur[s].casts THEN "frameCast" ELSE "recv"]
    /\ cur' = [cur EXCEPT ![s] = IF cur[s].casts THEN @ ELSE NoFrame]
    /\ UNCHANGED <<ctx, roomOf, frames, hubVars, lockVars, queue, closed,
                   senderVars, connCnt, online>>

\* stream.Recv returns a frame, which may name any room.  A frame that was
\* buffered before the cancellation may still be returned after it.
Recv(s) ==
    /\ pc[s] = "recv"
    /\ ctx[s] # "eof"
    /\ frames[s] < MaxFrames
    /\ frames' = [frames EXCEPT ![s] = @ + 1]
    /\ \E f \in Frames : cur' = [cur EXCEPT ![s] = f]
    /\ pc' = [pc EXCEPT ![s] = "process"]
    /\ UNCHANGED <<ctx, roomOf, hubVars, lockVars, queue, closed, senderVars,
                   connCnt, online>>

\* stream.Recv fails: the client half-closed, cancelled or went away.
RecvError(s) ==
    /\ pc[s] = "recv"
    /\ ctx[s] # "live"
    /\ pc' = [pc EXCEPT ![s] = "waitDone"]
    /\ UNCHANGED <<ctx, roomOf, frameVars, hubVars, lockVars, queue, closed,
                   senderVars, connCnt, online>>

\* <-done returns once the sender goroutine has ended; the deferred function
\* starts with Unregister.
WaitDone(s) ==
    /\ pc[s] = "waitDone"
    /\ sender[s] = "done"
    /\ pc' = [pc EXCEPT ![s] = "unregister"]
    /\ UNCHANGED <<ctx, roomOf, frameVars, hubVars, lockVars, queue, closed,
                   senderVars, connCnt, online>>

\* Faulty variant of SetOffline: the call is made with the stream's context
\* and is lost when that is cancelled.
SetOfflineStreamCtx(s) ==
    /\ pc[s] = "setOffline"
    /\ online' = IF ctx[s] = "cancelled" THEN online
                    ELSE [online EXCEPT ![UserOf[s]] = FALSE]
    /\ pc' = [pc EXCEPT ![s] = "offlineCast"]
    /\ UNCHANGED <<ctx, roomOf, frameVars, hubVars, lockVars, queue, closed,
                   senderVars, connCnt>>

\* LocalPresenceStore.SetOnline(userID, false), in the deferred function.
SetOffline(s) ==
    /\ pc[s] = "setOffline"
    /\ online' = [online EXCEPT ![UserOf[s]] = FALSE]
    /\ pc' = [pc EXCEPT ![s] = "offlineCast"]
    /\ UNCHANGED <<ctx, roomOf, frameVars, hubVars, lockVars, queue, closed,
                   senderVars, connCnt>>

-----------------------------------------------------------------------------
(* The sender goroutine.                                                   *)

\* stream.Send accepts the next buffered message.
SendOK(s) ==
    /\ sender[s] = "running"
    /\ queue[s] # <<>>
    /\ ctx[s] # "cancelled"
    /\ last' = [last EXCEPT ![s][Head(queue[s]).from] = Head(queue[s]).n]
    /\ queue' = [queue EXCEPT ![s] = Tail(@)]
    /\ UNCHANGED <<pc, ctx, roomOf, frameVars, hubVars, lockVars, closed,
                   sender, connCnt, online>>

\* Faulty variant of SenderEnds: a failed Send is ignored.
SenderEndsOnCloseOnly(s) == queue[s] = <<>> /\ closed[s]

\* What ends the sender's loop: a Send on a dead stream, or a channel that
\* is closed and empty.
SenderEnds(s) ==
    \/ queue[s] # <<>> /\ ctx[s] = "cancelled"
    \/ queue[s] = <<>> /\ closed[s]

SenderExit(s) ==
    /\ sender[s] = "running"
    /\ SenderEnds(s)
    /\ sender' = [sender EXCEPT ![s] = "done"]
    /\ queue' = [queue EXCEPT ![s] = IF @ = <<>> THEN @ ELSE Tail(@)]
    /\ UNCHANGED <<pc, ctx, roomOf, frameVars, hubVars, lockVars, closed,
                   last, connCnt, online>>

-----------------------------------------------------------------------------
(* Unary RPCs and the clients.                                             *)

\* SendMessage, DeleteMessage or EditMessage reaches its Broadcast.
Call(c) ==
    /\ pc[c] = "idle"
    /\ \E r \in Rooms : roomOf' = [roomOf EXCEPT ![c] = r]
    /\ pc' = [pc EXCEPT ![c] = "callCast"]
    /\ UNCHANGED <<ctx, frameVars, hubVars, lockVars, queue, closed,
                   senderVars, connCnt, online>>

\* The client half-closes its side of the stream.
CloseSend(s) ==
    /\ pc[s] \notin {"idle", "refused", "done"}
    /\ ctx[s] = "live"
    /\ ctx' = [ctx EXCEPT ![s] = "eof"]
    /\ UNCHANGED <<pc, roomOf, frameVars, hubVars, lockVars, queue, closed,
                   senderVars, connCnt, online>>

\* The client cancels, its connection breaks or the server is stopped.
Cancel(s) ==
    /\ pc[s] \notin {"idle", "refused", "done"}
    /\ ctx[s] # "cancelled"
    /\ ctx' = [ctx EXCEPT ![s] = "cancelled"]
    /\ UNCHANGED <<pc, roomOf, frameVars, hubVars, lockVars, queue, closed,
                   senderVars, connCnt, online>>

-----------------------------------------------------------------------------

\* The steps a goroutine takes without waiting for a client.
HandlerStep(s) ==
    \/ Register(s)    \/ CountUp(s)         \/ SetOnline(s)
    \/ StartSender(s) \/ ProcessIncoming(s) \/ RecvError(s)
    \/ WaitDone(s)    \/ Unregister(s)      \/ CountDown(s)
    \/ SetOffline(s)

BroadcastStep(p) == RLock(p) \/ (\E c \in Streams : Deliver(p, c)) \/ RUnlock(p)

\* The steps that wait for a client or are its own.
ClientStep(s) ==
    \/ Open(s) \/ RecvFirst(s) \/ RefuseFirst(s) \/ Recv(s)
    \/ SendOK(s) \/ CloseSend(s) \/ Cancel(s)

Next ==
    \/ \E s \in Streams : HandlerStep(s) \/ ClientStep(s) \/ SenderExit(s)
    \/ \E p \in Procs : BroadcastStep(p)
    \/ \E c \in Calls : Call(c)

Spec == Init /\ [][Next]_vars

\* Go's scheduler runs every goroutine that can run; nothing is assumed of
\* the clients (they may never read, never write and never go away).
Fairness ==
    /\ \A s \in Streams : WF_vars(HandlerStep(s)) /\ WF_vars(SenderExit(s))
    /\ \A p \in Procs : WF_vars(BroadcastStep(p))

FairSpec == Spec /\ Fairness

-----------------------------------------------------------------------------
(* Properties.                                                             *)

\* Every variable has its type; channels never exceed their capacity.
TypeOK ==
    /\ pc \in [Procs -> PCs]
    /\ ctx \in [Streams -> {"live", "eof", "cancelled"}]
    /\ roomOf \in [Procs -> Rooms \cup {NoRoom}]
    /\ cur \in [Procs -> Frames \cup {NoFrame}]
    /\ frames \in [Streams -> Nat]
    /\ clients \in [Rooms -> SUBSET Streams]
    /\ rooms \in SUBSET Rooms
    /\ subs \in [Rooms -> Int]
    /\ reading \in SUBSET Procs
    /\ todo \in [Procs -> SUBSET Streams]
    /\ queue \in [Streams -> Seq(Messages)]
    /\ closed \in [Streams -> BOOLEAN]
    /\ sender \in [Streams -> {"none", "running", "done"}]
    /\ connCnt \in Int
    /\ online \in [Users -> BOOLEAN]
    /\ posts \in [Procs -> Seq(Rooms)]
    /\ last \in [Streams -> [Procs -> Nat]]
    /\ \A s \in Streams : Len(queue[s]) <= SendCap

\* No Broadcast in progress will ever send on a closed channel, which would
\* panic and take the whole pod down (hub.go 131-143 against 105-118): the
\* clients it has still to visit stay open until it releases the read lock.
NoSendOnClosed ==
    \A p \in reading : \A c \in todo[p] : ~closed[c]

\* A handler gets past <-done only once its stream's context is cancelled: a
\* client that merely half-closes is never unregistered, and the context that
\* the deferred function hands to the offline Broadcast is always dead
\* (grpc_server.go 85-96 and 138).
ReturnsOnlyCancelled ==
    \A s \in Streams :
       pc[s] \in {"unregister"} \cup Left => ctx[s] = "cancelled"

\* A room has an entry exactly while it has clients, and then exactly one
\* broker subscription: no subscription leaks and none is missing or doubled,
\* in whatever order first clients arrive and last clients leave
\* (hub.go 92-100 and 108-117).
OneSubscriptionPerRoom ==
    \A r \in Rooms :
       /\ r \in rooms <=> clients[r] # {}
       /\ subs[r] = IF r \in rooms THEN 1 ELSE 0

\* A stream is in the client map of its own room from Register to Unregister
\* and in no other map ever, so a returned handler leaves nothing behind.
RegisteredExactly ==
    \A s \in Streams, r \in Rooms :
       s \in clients[r] <=> pc[s] \in InHub /\ roomOf[s] = r

\* connCnt is updated outside the shard lock (hub.go 102 and 119), yet it
\* equals the number of streams between their two updates; in particular it
\* is never negative and returns to zero when every handler has returned.
ConnCountExact ==
    connCnt = Cardinality({s \in Streams : pc[s] \in Counted})

\* A user the presence map shows online has a stream that announced itself
\* and has not taken the announcement back, however the streams of the user
\* interleave (grpc_server.go 88 and 99).
NoGhostOnline ==
    \A u \in Users :
       online[u] => \E s \in Streams : UserOf[s] = u /\ pc[s] \in Announced

\* Only messages of its own room wait for a stream, although a frame may name
\* any room and rooms share shards (hub.go 79-87 and 134).
RoomIsolation ==
    \A s \in Streams : \A i \in 1 .. Len(queue[s]) :
       posts[queue[s][i].from][queue[s][i].n] = roomOf[s]

\* Concurrent broadcasts deliver under a shared lock, one client at a time,
\* and may drop; still each stream gets the messages of any one author in the
\* author's order and none of them twice: what is queued is increasing per
\* author and newer than all that was handed to the stream before.
FifoPerAuthor ==
    \A s \in Streams :
       LET q == queue[s] IN
       /\ \A i, j \in 1 .. Len(q) :
             i < j /\ q[i].from = q[j].from => q[i].n < q[j].n
       /\ \A i \in 1 .. Len(q) : last[s][q[i].from] < q[i].n

-----------------------------------------------------------------------------
(* The parts that make the safety invariants inductive.                    *)

\* Whoever broadcasts, or is about to, knows the room; whoever holds a read
\* lock has posted its message to that room.
CastInv ==
    \A p \in Procs :
       /\ pc[p] \in {"register", "callCast"} \cup InHub \cup Left
             => roomOf[p] \in Rooms
       /\ pc[p] \in {"register", "countUp", "setOnline", "onlineCast",
                    "startSender", "process", "frameCast"}
             => cur[p] \in Frames
       /\ p \in reading =>
             /\ pc[p] \in Casting
             /\ posts[p] # <<>>
             /\ posts[p][Len(posts[p])] = CastRoom(p)

\* The clients a Broadcast has still to visit stay in the room's map as long
\* as it holds the read lock.
LockInv ==
    \A p \in Procs :
       /\ p \in reading => todo[p] \subseteq clients[CastRoom(p)]
       /\ p \notin reading => todo[p] = {}

\* How the handler, its channel and its sender goroutine move together.
LifeInv ==
    \A s \in Streams :
       /\ pc[s] # "callCast"
       /\ closed[s] => pc[s] \in Left
       /\ pc[s] \in {"unregister"} \cup Left => sender[s] = "done"
       /\ sender[s] = "running" => pc[s] \in InHub
       /\ sender[s] = "done" => ctx[s] = "cancelled"
       /\ queue[s] # <<>> => pc[s] \in InHub \cup Left

\* Nothing queued or handed over is newer than what was posted, and a client
\* that an ongoing Broadcast has still to visit lacks its newest message.
NewestInv ==
    \A s \in Streams, p \in Procs :
       /\ last[s][p] <= Len(posts[p])
       /\ \A i \in 1 .. Len(queue[s]) :
             queue[s][i].from = p => queue[s][i].n <= Len(posts[p])
       /\ s \in todo[p] =>
             /\ last[s][p] < Len(posts[p])
             /\ \A i \in 1 .. Len(queue[s]) :
                   queue[s][i].from = p => queue[s][i].n < Len(posts[p])

-----------------------------------------------------------------------------
(* Liveness, refinement and what the documentation says.                   *)

\* A slow or stuck client never blocks a broadcaster: whoever enters
\* Broadcast leaves it again although no client ever reads (hub.go 136-140).
BroadcastReturns ==
    \A p \in Procs : p \in reading ~> p \notin reading

\* A dead stream that still has a message to send is cleaned up: its handler
\* unregisters it, announces it offline and returns (grpc_server.go 118-139).
DeadStreamReaped ==
    \A s \in Streams :
       (ctx[s] = "cancelled" /\ queue[s] # <<>> /\ pc[s] \in InHub)
          ~> pc[s] = "done"

\* The hub keeps the promise of RoomFeed: membership of a room is being in its
\* client map, and only RLock posts and only SendOK receives.
Feed == INSTANCE RoomFeed WITH
           member <- clients,
           left   <- {s \in Streams : pc[s] \in Left}

\* The hub implements RoomFeed: at-most-once, in-order delivery of each
\* author's messages, to current members of the message's room only.
ImplementsFeed == Feed!FeedSpec

\* What the sequence diagram of the README promises: when the client's stream
\* is closed or its connection fails, the handler unregisters the client.
DisconnectUnregisters ==
    \A s \in Streams :
       (ctx[s] = "cancelled" /\ pc[s] \in InHub) ~> pc[s] \in Left

=============================================================================
