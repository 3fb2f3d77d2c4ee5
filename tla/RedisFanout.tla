---------------------------- MODULE RedisFanout ----------------------------
(***************************************************************************)
(* One room on several pods that share Redis Pub/Sub: the room entries of   *)
(* each pod's Hub (app/chat/hub.go), the subscriptions the RedisBroker      *)
(* opens for them and the goroutines that forward them                      *)
(* (app/broker/redis_broker.go), and the Chat handlers that broadcast       *)
(* (app/server/grpc_server.go).  Rooms have channels and entries of their   *)
(* own, so one room stands for all.                                         *)
(*                                                                         *)
(* ChatHub has the locks, the buffered channels and the sender goroutines   *)
(* of a single pod; here a Broadcast hands its message to the pod's clients *)
(* in one step, and a client in Slow may lose it (its channel is full).     *)
(* Redis is external: it hands a message to the subscribers it has at that  *)
(* moment, once and in order, and keeps nothing.                            *)
(***************************************************************************)
EXTENDS Naturals, Sequences, FiniteSets

CONSTANTS
    Pods,
    Streams,     \* Chat streams that join the room
    Calls,       \* unary RPCs that broadcast to the room
    PodOf,       \* [Streams \cup Calls -> Pods]
    Slow,        \* streams whose Client.Send channel may be full
    Talkers,     \* bound: streams that send frames with content
    MayFail,     \* whether PUBLISH may fail
    MaxContent,  \* bound: frames with content that a stream sends
    MaxGens      \* bound: times a pod creates the room's entry

Procs == Streams \cup Calls

ASSUME PodAssumption ==
    PodOf \in [Procs -> Pods] /\ Slow \subseteq Streams /\ Talkers \subseteq Streams
ASSUME ProcAssumption == Streams \cap Calls = {}
ASSUME BoundAssumption ==
    MaxContent \in Nat /\ MaxGens \in Nat \ {0} /\ MayFail \in BOOLEAN

\* The broadcasts of a process are numbered: the online event of a stream, its
\* content, its offline event; a call has one.
Numbers == 1 .. MaxContent + 2
Messages == Procs \X Numbers

Gens == 1 .. MaxGens

VARIABLES
    pc,        \* where each handler is
    ctx,       \* the context of its stream or call: "live" or "cancelled"
    casts,     \* [Procs -> Nat]: broadcasts the handler has begun
    clients,   \* [Pods -> SUBSET Streams]: the room entry's client map
    gen,       \* [Pods -> Nat]: entries the pod has created for the room
    sub,       \* [Pods -> [Gens -> state]]: the subscription of each entry
    pipe,      \* [Pods -> [Gens -> Seq(Messages)]]: what the subscription has
               \* received and its forwarder has not yet broadcast
    got        \* [Streams -> [Messages -> Nat]]: how often each message was
               \* put into the stream's Client.Send

vars == <<pc, ctx, casts, clients, gen, sub, pipe, got>>

PCs == {"idle", "onlineCast", "onlinePublish", "recv", "contentCast",
        "contentPublish", "offlineCast", "offlinePublish", "callCast",
        "callPublish", "done"}

\* A subscription that was never made, that Redis does not know yet, that
\* receives messages, and one that is over.
SubStates == {"none", "pending", "up", "down"}

\* The broadcast the handler of s is at.
Current(s) == <<s, casts[s]>>

Init ==
    /\ pc = [s \in Procs |-> "idle"]
    /\ ctx = [s \in Procs |-> "live"]
    /\ casts = [s \in Procs |-> 0]
    /\ clients = [p \in Pods |-> {}]
    /\ gen = [p \in Pods |-> 0]
    /\ sub = [p \in Pods |-> [g \in Gens |-> "none"]]
    /\ pipe = [p \in Pods |-> [g \in Gens |-> <<>>]]
    /\ got = [s \in Streams |-> [m \in Messages |-> 0]]

-----------------------------------------------------------------------------
(* The hub's room entry.                                                   *)

\* Faulty variant of Register: every client opens a subscription.
RegisterResubscribes(s) ==
    LET p == PodOf[s] IN
    /\ pc[s] = "idle"
    /\ gen[p] < MaxGens
    /\ gen' = [gen EXCEPT ![p] = @ + 1]
    /\ sub' = [sub EXCEPT ![p][gen[p] + 1] = "pending"]
    /\ clients' = [clients EXCEPT ![p] = @ \cup {s}]
    /\ casts' = [casts EXCEPT ![s] = @ + 1]
    /\ pc' = [pc EXCEPT ![s] = "onlineCast"]
    /\ UNCHANGED <<ctx, pipe, got>>

\* Register: the first client creates the entry, subscribes and starts the
\* forwarder.  The handler goes on to its online event.
Register(s) ==
    LET p == PodOf[s] IN
    /\ pc[s] = "idle"
    /\ IF clients[p] = {}
          THEN /\ gen[p] < MaxGens
               /\ gen' = [gen EXCEPT ![p] = @ + 1]
               /\ sub' = [sub EXCEPT ![p][gen[p] + 1] = "pending"]
          ELSE UNCHANGED <<gen, sub>>
    /\ clients' = [clients EXCEPT ![p] = @ \cup {s}]
    /\ casts' = [casts EXCEPT ![s] = @ + 1]
    /\ pc' = [pc EXCEPT ![s] = "onlineCast"]
    /\ UNCHANGED <<ctx, pipe, got>>

\* The subscription of pod p's entry g is over: what the receiving goroutine
\* has put into its channel is still forwarded, the rest is lost.
EndSubscription(p, g) ==
    /\ sub' = [sub EXCEPT ![p][g] = "down"]
    /\ \E k \in 0 .. Len(pipe[p][g]) :
          pipe' = [pipe EXCEPT ![p][g] = SubSeq(@, 1, k)]

\* The receive loop and the sender goroutine ended and the handler returns,
\* with a cancelled context (ChatHub!ReturnsOnlyCancelled).  Unregister: the
\* last client closes the subscription with the entry.  The deferred function
\* goes on to the offline event.
Unregister(s) ==
    LET p == PodOf[s] IN
    /\ pc[s] = "recv"
    /\ ctx[s] = "cancelled"
    /\ clients' = [clients EXCEPT ![p] = @ \ {s}]
    /\ IF clients[p] = {s}
          THEN EndSubscription(p, gen[p])
          ELSE UNCHANGED <<sub, pipe>>
    /\ casts' = [casts EXCEPT ![s] = @ + 1]
    /\ pc' = [pc EXCEPT ![s] = "offlineCast"]
    /\ UNCHANGED <<ctx, gen, got>>

\* Broadcast's loop over the clients of pod p; a full channel drops m.
HandOut(p, m) ==
    \E dropped \in SUBSET (clients[p] \cap Slow) :
       got' = [s \in Streams |->
          IF s \in clients[p] \ dropped
             THEN [got[s] EXCEPT ![m] = @ + 1] ELSE got[s]]

-----------------------------------------------------------------------------
(* The Chat handler and the unary calls.                                   *)

Casting == {"onlineCast", "contentCast", "offlineCast", "callCast"}
Publishing ==
    {"onlinePublish", "contentPublish", "offlinePublish", "callPublish"}

NextPC(s) == CASE pc[s] = "onlineCast"  -> "onlinePublish"
               [] pc[s] = "contentCast" -> "contentPublish"
               [] pc[s] = "offlineCast" -> "offlinePublish"
               [] pc[s] = "callCast"    -> "callPublish"
               [] pc[s] \in {"offlinePublish", "callPublish"} -> "done"
               [] OTHER                 -> "recv"

\* The local half of Broadcast(publish = true).
Cast(s) ==
    /\ pc[s] \in Casting
    /\ HandOut(PodOf[s], Current(s))
    /\ pc' = [pc EXCEPT ![s] = NextPC(s)]
    /\ UNCHANGED <<ctx, casts, clients, gen, sub, pipe>>

\* The other half: PUBLISH with the handler's context.  Redis hands the
\* message to every subscription it has, that of the author's pod included;
\* on a dead context the command is not sent, and every error is dropped.
Publish(s) ==
    /\ pc[s] \in Publishing
    /\ \/ /\ ctx[s] = "live"
          /\ pipe' = [p \in Pods |-> [g \in Gens |->
                IF sub[p][g] = "up"
                   THEN Append(pipe[p][g], Current(s)) ELSE pipe[p][g]]]
       \/ /\ ctx[s] = "cancelled" \/ MayFail
          /\ UNCHANGED pipe
    /\ pc' = [pc EXCEPT ![s] = NextPC(s)]
    /\ UNCHANGED <<ctx, casts, clients, gen, sub, got>>

\* stream.Recv returns a frame that processIncoming broadcasts.
Recv(s) ==
    /\ pc[s] = "recv"
    /\ s \in Talkers
    /\ casts[s] <= MaxContent
    /\ casts' = [casts EXCEPT ![s] = @ + 1]
    /\ pc' = [pc EXCEPT ![s] = "contentCast"]
    /\ UNCHANGED <<ctx, clients, gen, sub, pipe, got>>

\* A unary RPC (SendMessage, EditMessage, DeleteMessage) gets to its
\* Broadcast.
Call(c) ==
    /\ pc[c] = "idle"
    /\ casts' = [casts EXCEPT ![c] = @ + 1]
    /\ pc' = [pc EXCEPT ![c] = "callCast"]
    /\ UNCHANGED <<ctx, clients, gen, sub, pipe, got>>

\* The client goes away.
Cancel(s) ==
    /\ pc[s] \notin {"idle", "done"}
    /\ ctx[s] = "live"
    /\ ctx' = [ctx EXCEPT ![s] = "cancelled"]
    /\ UNCHANGED <<pc, casts, clients, gen, sub, pipe, got>>

-----------------------------------------------------------------------------
(* The subscription goroutines.                                            *)

\* Redis processes SUBSCRIBE.
Subscribed(p, g) ==
    /\ sub[p][g] = "pending"
    /\ sub' = [sub EXCEPT ![p][g] = "up"]
    /\ UNCHANGED <<pc, ctx, casts, clients, gen, pipe, got>>

\* ReceiveMessage fails: the connection to Redis broke.  The goroutine
\* returns and closes its channel; nothing opens another subscription.
ReceiveError(p, g) ==
    /\ sub[p][g] \in {"pending", "up"}
    /\ EndSubscription(p, g)
    /\ UNCHANGED <<pc, ctx, casts, clients, gen, got>>

\* Faulty variant of Forward: the forwarder publishes what it forwards.
ForwardPublishes(p, g) ==
    LET m == Head(pipe[p][g]) IN
    /\ pipe[p][g] # <<>>
    /\ HandOut(p, m)
    /\ pipe' = [q \in Pods |-> [k \in Gens |->
          LET rest == IF q = p /\ k = g THEN Tail(pipe[q][k]) ELSE pipe[q][k]
          IN  IF sub[q][k] = "up" THEN Append(rest, m) ELSE rest]]
    /\ UNCHANGED <<pc, ctx, casts, clients, gen, sub>>

\* forwardFromBroker takes the next message and broadcasts it, without
\* publishing, to the clients the room has on this pod now.
Forward(p, g) ==
    /\ pipe[p][g] # <<>>
    /\ HandOut(p, Head(pipe[p][g]))
    /\ pipe' = [pipe EXCEPT ![p][g] = Tail(@)]
    /\ UNCHANGED <<pc, ctx, casts, clients, gen, sub>>

BrokerStep(p, g) == Subscribed(p, g) \/ Forward(p, g)

Next ==
    \/ \E s \in Streams : Register(s) \/ Recv(s) \/ Unregister(s)
    \/ \E c \in Calls : Call(c)
    \/ \E x \in Procs : Cast(x) \/ Publish(x) \/ Cancel(x)
    \/ \E p \in Pods, g \in Gens : BrokerStep(p, g) \/ ReceiveError(p, g)

Spec == Init /\ [][Next]_vars

-----------------------------------------------------------------------------
(* Properties.                                                             *)

\* Every variable has its type.
TypeOK ==
    /\ pc \in [Procs -> PCs]
    /\ ctx \in [Procs -> {"live", "cancelled"}]
    /\ casts \in [Procs -> 0 .. MaxContent + 2]
    /\ clients \in [Pods -> SUBSET Streams]
    /\ gen \in [Pods -> 0 .. MaxGens]
    /\ sub \in [Pods -> [Gens -> SubStates]]
    /\ pipe \in [Pods -> [Gens -> Seq(Messages)]]
    /\ got \in [Streams -> [Messages -> Nat]]

\* A client of another pod than the author's gets every message at most once,
\* over all the entries and subscriptions its pod makes for the room
\* (hub.go 94-97, 115 and 152-161).
RemoteAtMostOnce ==
    \A s \in Streams, m \in Messages :
       PodOf[m[1]] # PodOf[s] => got[s][m] <= 1

\* A client of the author's pod gets every message at most twice: from the
\* author's Broadcast and from the pod's own subscription (hub.go 131-148).
LocalAtMostTwice ==
    \A s \in Streams, m \in Messages :
       PodOf[m[1]] = PodOf[s] => got[s][m] <= 2

\* Only the newest entry of a pod can have a subscription that receives, and
\* it has clients: entries that are gone leave none behind (hub.go 112-116).
OneLiveSubscription ==
    \A p \in Pods, g \in Gens :
       sub[p][g] \in {"pending", "up"} => g = gen[p] /\ clients[p] # {}

=============================================================================
