--------------------------- MODULE RedisPresence ---------------------------
(***************************************************************************)
(* Presence in Redis (app/chat/presence.go) as the Chat handlers of several *)
(* pods use it: the key chat:presence:<user> with its TTL, the key          *)
(* chat:lastseen:<user>, the heartbeat goroutine of every stream and the    *)
(* two SetOnline calls of the handler (app/server/grpc_server.go 81-99).    *)
(*                                                                         *)
(* Time advances in ticks.  A tick waits for the heartbeats that are due,  *)
(* so a heartbeat runs within the tick in which its ticker fires; TTL and   *)
(* Refresh keep the code's proportion (60 s and 30 s).  Every command may   *)
(* fail when Redis is allowed to fail: the code ignores all its errors.     *)
(***************************************************************************)
EXTENDS Naturals, FiniteSets

CONSTANTS
    Streams,     \* Chat streams of all pods
    Users,
    UserOf,      \* [Streams -> Users]
    TTL,         \* presenceTTL, in ticks
    Refresh,     \* presenceRefresh, in ticks
    RedisFails   \* whether a Redis command may fail

ASSUME UserAssumption == UserOf \in [Streams -> Users]
ASSUME TimeAssumption ==
    /\ TTL \in Nat \ {0} /\ Refresh \in Nat \ {0}
    /\ Refresh < TTL
ASSUME FailAssumption == RedisFails \in BOOLEAN

VARIABLES
    pc,     \* where each handler is with its presence calls
    ctx,    \* the stream's context: "live", "cancelled", or "crashed" with
            \* its pod
    beat,   \* ticks until the heartbeat's ticker fires; NoBeat when the
            \* heartbeat goroutine does not run
    ttl,    \* remaining life of chat:presence:<user>; 0 when it is absent
    seen,   \* whether chat:lastseen:<user> exists
    gone,   \* history: ticks since the user's last live stream (at most TTL)
    upset   \* history: users whose key a stream's end deleted, or was not
            \* written or prolonged by a failure, since SetOnline wrote it

vars == <<pc, ctx, beat, ttl, seen, gone, upset>>

NoBeat == Refresh + 1

PCs == {"idle", "setOnline", "open", "del", "lastSeen", "done"}

\* The stream's handler has started and its context is live.
Live(s) == pc[s] # "idle" /\ ctx[s] = "live"

LiveUser(u) == \E s \in Streams : UserOf[s] = u /\ Live(s)

Init ==
    /\ pc = [s \in Streams |-> "idle"]
    /\ ctx = [s \in Streams |-> "live"]
    /\ beat = [s \in Streams |-> NoBeat]
    /\ ttl = [u \in Users |-> 0]
    /\ seen = [u \in Users |-> FALSE]
    /\ gone = [u \in Users |-> 0]
    /\ upset = {}

-----------------------------------------------------------------------------

\* The user's last live stream leaves, or a first one arrives: the history
\* starts to count from zero.
Recount == gone' = [u \in Users |-> IF LiveUser(u)' THEN 0 ELSE gone[u]]

\* The handler registers the stream and starts the heartbeat goroutine, before
\* it calls SetOnline.
Connect(s) ==
    /\ pc[s] = "idle"
    /\ pc' = [pc EXCEPT ![s] = "setOnline"]
    /\ beat' = [beat EXCEPT ![s] = Refresh]
    /\ UNCHANGED <<ctx, ttl, seen, upset>>
    /\ Recount

\* A command about the key of stream s that has no effect: it is not sent on a
\* dead context, or fails, and its error is dropped.
NoEffect(s) ==
    /\ \/ ctx[s] = "cancelled" /\ UNCHANGED upset
       \/ RedisFails /\ upset' = upset \cup {UserOf[s]}
    /\ UNCHANGED ttl

\* Faulty variant of SetOnline: the key lives for a refresh period only.
SetOnlineShort(s) ==
    /\ pc[s] = "setOnline"
    /\ ctx[s] # "crashed"
    /\ \/ /\ ctx[s] = "live"
          /\ ttl' = [ttl EXCEPT ![UserOf[s]] = Refresh]
          /\ upset' = upset \ {UserOf[s]}
       \/ NoEffect(s)
    /\ pc' = [pc EXCEPT ![s] = "open"]
    /\ UNCHANGED <<ctx, beat, seen, gone>>

\* SetOnline(ctx, userID, true): SET with the TTL.
SetOnline(s) ==
    /\ pc[s] = "setOnline"
    /\ ctx[s] # "crashed"
    /\ \/ /\ ctx[s] = "live"
          /\ ttl' = [ttl EXCEPT ![UserOf[s]] = TTL]
          /\ upset' = upset \ {UserOf[s]}
       \/ NoEffect(s)
    /\ pc' = [pc EXCEPT ![s] = "open"]
    /\ UNCHANGED <<ctx, beat, seen, gone>>

\* Faulty variant of Heartbeat: EXPIRE is not sent with the stream's context.
HeartbeatBackground(s) ==
    /\ beat[s] = 0
    /\ ttl' = [ttl EXCEPT ![UserOf[s]] = IF @ > 0 THEN TTL ELSE 0]
    /\ beat' = [beat EXCEPT ![s] = Refresh]
    /\ UNCHANGED <<pc, ctx, seen, gone, upset>>

\* The heartbeat's ticker fires: EXPIRE prolongs the key if it exists, and does
\* not create it.  The ticker is then due again after Refresh ticks.
Heartbeat(s) ==
    /\ beat[s] = 0
    /\ \/ /\ ctx[s] = "live"
          /\ ttl' = [ttl EXCEPT ![UserOf[s]] = IF @ > 0 THEN TTL ELSE 0]
          /\ UNCHANGED upset
       \/ NoEffect(s)
    /\ beat' = [beat EXCEPT ![s] = Refresh]
    /\ UNCHANGED <<pc, ctx, seen, gone>>

\* The heartbeat goroutine sees ctx.Done and returns.
HeartbeatStop(s) ==
    /\ beat[s] # NoBeat
    /\ ctx[s] = "cancelled"
    /\ beat' = [beat EXCEPT ![s] = NoBeat]
    /\ UNCHANGED <<pc, ctx, ttl, seen, gone, upset>>

\* The client's stream ends: cancelled by the client, the network or the
\* server.
Cancel(s) ==
    /\ pc[s] \in {"setOnline", "open"}
    /\ ctx[s] = "live"
    /\ ctx' = [ctx EXCEPT ![s] = "cancelled"]
    /\ UNCHANGED <<pc, beat, ttl, seen, upset>>
    /\ Recount

\* The deferred function runs (only with a cancelled context) and calls
\* SetOnline(context.Background(), userID, false): first DEL ...
SetOffline(s) ==
    /\ pc[s] = "open"
    /\ ctx[s] = "cancelled"
    /\ \/ /\ ttl' = [ttl EXCEPT ![UserOf[s]] = 0]
          /\ upset' = upset \cup {UserOf[s]}
       \/ RedisFails /\ UNCHANGED <<ttl, upset>>
    /\ pc' = [pc EXCEPT ![s] = "lastSeen"]
    /\ UNCHANGED <<ctx, beat, seen, gone>>

\* ... and then SET of the last-seen time.
SetLastSeen(s) ==
    /\ pc[s] = "lastSeen"
    /\ ctx[s] = "cancelled"
    /\ \/ seen' = [seen EXCEPT ![UserOf[s]] = TRUE]
       \/ RedisFails /\ UNCHANGED seen
    /\ pc' = [pc EXCEPT ![s] = "done"]
    /\ UNCHANGED <<ctx, beat, ttl, gone, upset>>

\* The pod dies: handler and heartbeat stop where they are.
Crash(s) ==
    /\ pc[s] \notin {"idle", "done"}
    /\ ctx[s] # "crashed"
    /\ ctx' = [ctx EXCEPT ![s] = "crashed"]
    /\ beat' = [beat EXCEPT ![s] = NoBeat]
    /\ UNCHANGED <<pc, ttl, seen, upset>>
    /\ Recount

\* Time passes in Redis and for the tickers.
Tick ==
    /\ \A s \in Streams : beat[s] # 0
    /\ ttl' = [u \in Users |-> IF ttl[u] > 0 THEN ttl[u] - 1 ELSE 0]
    /\ beat' = [s \in Streams |->
          IF beat[s] = NoBeat THEN NoBeat ELSE beat[s] - 1]
    /\ gone' = [u \in Users |->
          IF LiveUser(u) THEN 0
          ELSE IF gone[u] < TTL THEN gone[u] + 1 ELSE TTL]
    /\ UNCHANGED <<pc, ctx, seen, upset>>

HandlerStep(s) ==
    SetOnline(s) \/ Heartbeat(s) \/ HeartbeatStop(s) \/ SetLastSeen(s)

Next ==
    \/ \E s \in Streams :
          \/ Connect(s) \/ HandlerStep(s) \/ SetOffline(s)
          \/ Cancel(s) \/ Crash(s)
    \/ Tick

Spec == Init /\ [][Next]_vars

\* Goroutines that can run do run, and time passes.  Nothing is assumed of
\* clients and pods, nor of SetOffline: the handler may wait forever before
\* its deferred function runs.
FairSpec ==
    /\ Spec
    /\ WF_vars(Tick)
    /\ \A s \in Streams : WF_vars(HandlerStep(s))

-----------------------------------------------------------------------------
(* Properties.                                                             *)

\* What Get reports of a user: the key exists as long as its TTL runs.
IsOnline(u) == ttl[u] > 0

\* Every variable has its type; a key never lives longer than the TTL.
TypeOK ==
    /\ pc \in [Streams -> PCs]
    /\ ctx \in [Streams -> {"live", "cancelled", "crashed"}]
    /\ beat \in [Streams -> 0 .. NoBeat]
    /\ ttl \in [Users -> 0 .. TTL]
    /\ seen \in [Users -> BOOLEAN]
    /\ gone \in [Users -> 0 .. TTL]
    /\ upset \in SUBSET Users

\* A user whose last stream is gone, by a disconnect or with a crashed pod,
\* is no longer shown online after TTL at the latest, even if the handler
\* never gets to its deferred SetOnline(false) and every command may fail
\* (presence.go 17-19).
StaleAtMostTTL ==
    \A u \in Users :
       IsOnline(u) /\ ~LiveUser(u) => ttl[u] + gone[u] <= TTL

\* A user with an open stream is shown online, with any number of streams that
\* come, beat and crash, as long as no SET or EXPIRE of the key failed and no
\* other stream of the user ended since SetOnline: that deletes the shared key,
\* and EXPIRE does not make it again, although presence.go 98 says that the
\* heartbeat keeps it "alive while the stream is open" (presence.go 66-111).
OpenStaysOnline ==
    \A s \in Streams :
       pc[s] = "open" /\ ctx[s] = "live" /\ UserOf[s] \notin upset
          => IsOnline(UserOf[s])

\* The key of a user without live streams eventually goes away, unless the
\* user comes back (presence.go 17-19, 99-106).
GhostsExpire ==
    \A u \in Users : IsOnline(u) /\ ~LiveUser(u) ~> ~IsOnline(u) \/ LiveUser(u)

=============================================================================
