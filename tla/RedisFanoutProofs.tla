------------------------- MODULE RedisFanoutProofs -------------------------
(***************************************************************************)
(* How often a message can reach a client over Redis, for any number of     *)
(* pods, streams and calls, and whatever fails: at most once on another     *)
(* pod, at most twice on the author's own.                                  *)
(*                                                                         *)
(* The argument counts what can still arrive.  A message that was not       *)
(* published yet is in no subscription; publishing puts it once into the    *)
(* one live subscription of each pod; forwarding takes it out for good.     *)
(***************************************************************************)
EXTENDS RedisFanout, TLAPS

\* m has not been handed to the clients of its author's pod.
NotCast(m) ==
    \/ m[2] > casts[m[1]]
    \/ m[2] = casts[m[1]] /\ pc[m[1]] \in Casting

\* m has not been published.
Unsent(m) ==
    \/ m[2] > casts[m[1]]
    \/ m[2] = casts[m[1]] /\ pc[m[1]] \in Casting \cup Publishing

\* A subscription of pod p still holds m.
InPipe(p, m) ==
    \E g \in Gens : \E i \in 1 .. Len(pipe[p][g]) : pipe[p][g][i] = m

\* How often the author's own Broadcast hands m to s.
Direct(s, m) == IF PodOf[m[1]] = PodOf[s] THEN 1 ELSE 0

\* The bounds on casts that the handler's states imply.
CastInv ==
    \A x \in Procs :
       /\ pc[x] = "idle" => casts[x] = 0
       /\ pc[x] # "idle" => casts[x] >= 1
       /\ pc[x] \in {"onlineCast", "onlinePublish", "recv", "contentCast",
                     "contentPublish"} => casts[x] <= MaxContent + 1

\* Clients are registered on their own pod, which has created an entry.
HomeInv ==
    \A p \in Pods :
       /\ \A s \in clients[p] : PodOf[s] = p
       /\ clients[p] # {} => gen[p] \in Gens

\* No pod holds a message twice, and none holds an unpublished one.
PipeInv ==
    \A p \in Pods, g \in Gens :
       \A i \in 1 .. Len(pipe[p][g]) :
          /\ ~Unsent(pipe[p][g][i])
          /\ \A h \in Gens : \A j \in 1 .. Len(pipe[p][h]) :
                pipe[p][g][i] = pipe[p][h][j] => g = h /\ i = j

\* How often a client can have got a message, by how far the message is.
CountInv ==
    \A s \in Streams, m \in Messages :
       /\ NotCast(m) => got[s][m] = 0
       /\ Unsent(m) \/ InPipe(PodOf[s], m) => got[s][m] <= Direct(s, m)
       /\ got[s][m] <= Direct(s, m) + 1

FanoutInv == /\ TypeOK /\ CastInv /\ HomeInv /\ OneLiveSubscription
             /\ PipeInv /\ CountInv

-----------------------------------------------------------------------------
(* Sequences and pairs.                                                    *)

\* The elements of a sequence after Append, Tail and a prefix.
LEMMA AppendElements ==
    ASSUME NEW S, NEW q \in Seq(S), NEW e \in S
    PROVE  /\ Append(q, e) \in Seq(S)
           /\ Len(Append(q, e)) = Len(q) + 1
           /\ \A i \in 1 .. Len(q) : Append(q, e)[i] = q[i]
           /\ Append(q, e)[Len(q) + 1] = e
  OBVIOUS

LEMMA TailElements ==
    ASSUME NEW S, NEW q \in Seq(S), q # <<>>
    PROVE  /\ Tail(q) \in Seq(S)
           /\ Len(Tail(q)) = Len(q) - 1 /\ Len(q) >= 1
           /\ \A i \in 1 .. Len(q) - 1 : Tail(q)[i] = q[i + 1]
           /\ Head(q) = q[1] /\ Head(q) \in S
  OBVIOUS

LEMMA PrefixElements ==
    ASSUME NEW S, NEW q \in Seq(S), NEW k \in 0 .. Len(q)
    PROVE  /\ SubSeq(q, 1, k) \in Seq(S)
           /\ Len(SubSeq(q, 1, k)) = k
           /\ \A i \in 1 .. k : SubSeq(q, 1, k)[i] = q[i]
  OBVIOUS

LEMMA MessageParts ==
    ASSUME NEW m \in Messages
    PROVE  m[1] \in Procs /\ m[2] \in Numbers /\ m = <<m[1], m[2]>>
  BY DEF Messages

-----------------------------------------------------------------------------
(* What the shared parts of the actions do.                                *)

\* No message becomes uncast or unpublished again.
Later ==
    \A m \in Messages : /\ Unsent(m)' => Unsent(m)
                        /\ NotCast(m)' => NotCast(m)

\* Every subscription keeps a prefix of what it holds.
Shrunk ==
    \A p \in Pods, g \in Gens :
       /\ Len(pipe'[p][g]) <= Len(pipe[p][g])
       /\ \A i \in 1 .. Len(pipe'[p][g]) : pipe'[p][g][i] = pipe[p][g][i]

\* The state of a handler's current broadcast.
LEMMA CurrentMessage ==
    ASSUME TypeOK, CastInv, NEW x \in Procs, pc[x] # "idle"
    PROVE  Current(x) \in Messages
  BY BoundAssumption DEF TypeOK, CastInv, Current, Messages, Numbers

\* HandOut adds at most one to the count of m, at clients of p only.
LEMMA HandOutCounts ==
    ASSUME TypeOK, NEW p \in Pods, NEW m \in Messages, HandOut(p, m)
    PROVE  /\ got' \in [Streams -> [Messages -> Nat]]
           /\ \A s \in Streams, n \in Messages :
                 \/ got'[s][n] = got[s][n]
                 \/ got'[s][n] = got[s][n] + 1 /\ n = m /\ s \in clients[p]
<1>1. PICK dropped \in SUBSET (clients[p] \cap Slow) :
        got' = [s \in Streams |->
                  IF s \in clients[p] \ dropped
                     THEN [got[s] EXCEPT ![m] = @ + 1] ELSE got[s]]
  BY DEF HandOut
<1>2. ASSUME NEW s \in Streams
      PROVE  /\ got'[s] \in [Messages -> Nat]
             /\ \A n \in Messages :
                   \/ got'[s][n] = got[s][n]
                   \/ got'[s][n] = got[s][n] + 1 /\ n = m /\ s \in clients[p]
  <2>1. got[s] \in [Messages -> Nat]
    BY DEF TypeOK
  <2>2. CASE s \in clients[p] \ dropped
    BY <1>1, <2>1, <2>2
  <2>3. CASE s \notin clients[p] \ dropped
    BY <1>1, <2>1, <2>3
  <2>4. QED
    BY <2>2, <2>3
<1>3. QED
  BY <1>1, <1>2

\* The end of a subscription takes it down and keeps a prefix of its messages.
LEMMA EndEffect ==
    ASSUME TypeOK, NEW p \in Pods, NEW g \in Gens, EndSubscription(p, g)
    PROVE  /\ sub' \in [Pods -> [Gens -> SubStates]]
           /\ pipe' \in [Pods -> [Gens -> Seq(Messages)]]
           /\ Shrunk
           /\ sub'[p][g] = "down"
           /\ \A q \in Pods, h \in Gens : sub'[q][h] \in {sub[q][h], "down"}
<1>1. PICK k \in 0 .. Len(pipe[p][g]) :
        pipe' = [pipe EXCEPT ![p][g] = SubSeq(pipe[p][g], 1, k)]
  BY DEF EndSubscription
<1>2. /\ SubSeq(pipe[p][g], 1, k) \in Seq(Messages)
      /\ Len(SubSeq(pipe[p][g], 1, k)) = k
      /\ \A i \in 1 .. k : SubSeq(pipe[p][g], 1, k)[i] = pipe[p][g][i]
  BY PrefixElements DEF TypeOK
<1>3. pipe' \in [Pods -> [Gens -> Seq(Messages)]]
  BY <1>1, <1>2 DEF TypeOK
<1>4. ASSUME NEW q \in Pods, NEW h \in Gens
      PROVE  /\ Len(pipe'[q][h]) <= Len(pipe[q][h])
             /\ \A i \in 1 .. Len(pipe'[q][h]) : pipe'[q][h][i] = pipe[q][h][i]
  <2>0. pipe[q][h] \in Seq(Messages) /\ Len(pipe[q][h]) \in Nat
    BY DEF TypeOK
  <2>1. CASE q = p /\ h = g
    <3>1. pipe'[q][h] = SubSeq(pipe[p][g], 1, k)
      BY <1>1, <2>1 DEF TypeOK
    <3>2. QED
      BY <1>2, <2>0, <2>1, <3>1
  <2>2. CASE ~(q = p /\ h = g)
    <3>1. pipe'[q][h] = pipe[q][h]
      BY <1>1, <2>2 DEF TypeOK
    <3>2. QED
      BY <2>0, <3>1
  <2>3. QED
    BY <2>1, <2>2
<1>5. QED
  BY <1>3, <1>4 DEF EndSubscription, TypeOK, Shrunk, SubStates

-----------------------------------------------------------------------------
(* Types, entries and the order of a handler's broadcasts.                 *)

LEMMA FanoutInit == Init => FanoutInv
<1> SUFFICES ASSUME Init PROVE FanoutInv
  OBVIOUS
<1>1. TypeOK
  BY BoundAssumption DEF Init, TypeOK, PCs, SubStates
<1>2. CastInv /\ HomeInv /\ OneLiveSubscription
  BY DEF Init, CastInv, HomeInv, OneLiveSubscription
<1>3. \A p \in Pods, g \in Gens : Len(pipe[p][g]) = 0
  BY DEF Init
<1>4. PipeInv
  BY <1>3 DEF PipeInv
<1>5. CountInv
  BY <1>3 DEF Init, CountInv, Direct
<1>6. QED
  BY <1>1, <1>2, <1>4, <1>5 DEF FanoutInv

\* Every action keeps the types and the bounds on casts.
LEMMA TypeStep ==
    ASSUME TypeOK, CastInv, HomeInv, [Next]_vars
    PROVE  TypeOK' /\ CastInv'
<1> USE PodAssumption, ProcAssumption, BoundAssumption
<1>1. ASSUME NEW s \in Streams, Register(s) PROVE TypeOK' /\ CastInv'
  <2>1. s \in Procs /\ PodOf[s] \in Pods
    BY DEF Procs
  <2>2. gen' \in [Pods -> 0 .. MaxGens] /\ sub' \in [Pods -> [Gens -> SubStates]]
    <3>1. CASE clients[PodOf[s]] = {}
      <4>1. gen[PodOf[s]] + 1 \in Gens
        BY <1>1, <2>1, <3>1 DEF Register, TypeOK, Gens
      <4>2. gen' \in [Pods -> 0 .. MaxGens]
        <5>1. gen[PodOf[s]] + 1 \in 0 .. MaxGens
          BY <4>1 DEF Gens
        <5>2. gen' = [gen EXCEPT ![PodOf[s]] = gen[PodOf[s]] + 1]
          BY <1>1, <3>1 DEF Register
        <5>3. QED
          BY <2>1, <5>1, <5>2 DEF TypeOK
      <4>3. sub' = [sub EXCEPT ![PodOf[s]][gen[PodOf[s]] + 1] = "pending"]
        BY <1>1, <3>1 DEF Register
      <4>4. QED
        BY <2>1, <4>1, <4>2, <4>3 DEF TypeOK, SubStates
    <3>2. CASE clients[PodOf[s]] # {}
      BY <1>1, <3>2 DEF Register, TypeOK
    <3>3. QED
      BY <3>1, <3>2
  <2>3. clients' \in [Pods -> SUBSET Streams]
    BY <1>1, <2>1 DEF Register, TypeOK
  <2>4. casts' \in [Procs -> 0 .. MaxContent + 2] /\ pc' \in [Procs -> PCs]
    BY <1>1, <2>1 DEF Register, TypeOK, CastInv, PCs
  <2>5. CastInv'
    BY <1>1, <2>1 DEF Register, TypeOK, CastInv
  <2>6. QED
    BY <1>1, <2>2, <2>3, <2>4, <2>5 DEF Register, TypeOK
<1>2. ASSUME NEW s \in Streams, Recv(s) PROVE TypeOK' /\ CastInv'
  BY <1>2 DEF Recv, TypeOK, CastInv, PCs, Procs
<1>3. ASSUME NEW s \in Streams, Unregister(s) PROVE TypeOK' /\ CastInv'
  <2>1. s \in Procs /\ PodOf[s] \in Pods
    BY DEF Procs
  <2>2. /\ pipe' \in [Pods -> [Gens -> Seq(Messages)]]
        /\ sub' \in [Pods -> [Gens -> SubStates]]
    <3>1. CASE clients[PodOf[s]] = {s}
      <4>1. gen[PodOf[s]] \in Gens
        BY <2>1, <3>1 DEF HomeInv
      <4>2. QED
        BY <1>3, <2>1, <3>1, <4>1, EndEffect DEF Unregister
    <3>2. CASE clients[PodOf[s]] # {s}
      BY <1>3, <3>2 DEF Unregister, TypeOK
    <3>3. QED
      BY <3>1, <3>2
  <2>3. clients' \in [Pods -> SUBSET Streams]
    BY <1>3, <2>1 DEF Unregister, TypeOK
  <2>4. casts' \in [Procs -> 0 .. MaxContent + 2] /\ pc' \in [Procs -> PCs]
    BY <1>3, <2>1 DEF Unregister, TypeOK, CastInv, PCs
  <2>5. CastInv'
    BY <1>3, <2>1 DEF Unregister, TypeOK, CastInv
  <2>6. QED
    BY <1>3, <2>2, <2>3, <2>4, <2>5 DEF Unregister, TypeOK
<1>4. ASSUME NEW c \in Calls, Call(c) PROVE TypeOK' /\ CastInv'
  BY <1>4 DEF Call, TypeOK, CastInv, PCs, Procs
<1>5. ASSUME NEW x \in Procs, Cast(x) PROVE TypeOK' /\ CastInv'
  <2>1. Current(x) \in Messages /\ PodOf[x] \in Pods
    BY <1>5, CurrentMessage DEF Cast, Casting
  <2>2. got' \in [Streams -> [Messages -> Nat]]
    BY <1>5, <2>1, HandOutCounts DEF Cast
  <2>3. pc' \in [Procs -> PCs] /\ CastInv'
    BY <1>5 DEF Cast, Casting, NextPC, TypeOK, CastInv, PCs
  <2>4. QED
    BY <1>5, <2>2, <2>3 DEF Cast, TypeOK
<1>6. ASSUME NEW x \in Procs, Publish(x) PROVE TypeOK' /\ CastInv'
  <2>1. Current(x) \in Messages
    BY <1>6, CurrentMessage DEF Publish, Publishing
  <2>2. pc' \in [Procs -> PCs] /\ CastInv'
    BY <1>6 DEF Publish, Publishing, NextPC, TypeOK, CastInv, PCs
  <2>3. pipe' \in [Pods -> [Gens -> Seq(Messages)]]
    <3>1. ASSUME NEW p \in Pods, NEW g \in Gens
          PROVE  pipe[p][g] \in Seq(Messages)
      BY DEF TypeOK
    <3>2. ASSUME NEW p \in Pods, NEW g \in Gens
          PROVE  Append(pipe[p][g], Current(x)) \in Seq(Messages)
      BY <2>1, <3>1, AppendElements
    <3>3. CASE UNCHANGED pipe
      BY <3>3 DEF TypeOK
    <3>4. CASE pipe' = [p \in Pods |-> [g \in Gens |->
                 IF sub[p][g] = "up"
                    THEN Append(pipe[p][g], Current(x)) ELSE pipe[p][g]]]
      BY <3>1, <3>2, <3>4
    <3>5. QED
      BY <1>6, <3>3, <3>4 DEF Publish
  <2>4. QED
    BY <1>6, <2>2, <2>3 DEF Publish, TypeOK
<1>7. ASSUME NEW x \in Procs, Cancel(x) PROVE TypeOK' /\ CastInv'
  BY <1>7 DEF Cancel, TypeOK, CastInv
<1>8. ASSUME NEW p \in Pods, NEW g \in Gens, Subscribed(p, g)
      PROVE  TypeOK' /\ CastInv'
  BY <1>8 DEF Subscribed, TypeOK, CastInv, SubStates
<1>9. ASSUME NEW p \in Pods, NEW g \in Gens, Forward(p, g)
      PROVE  TypeOK' /\ CastInv'
  <2>1. /\ Head(pipe[p][g]) \in Messages
        /\ Tail(pipe[p][g]) \in Seq(Messages)
    BY <1>9, TailElements DEF Forward, TypeOK
  <2>2. got' \in [Streams -> [Messages -> Nat]]
    BY <1>9, <2>1, HandOutCounts DEF Forward
  <2>3. pipe' \in [Pods -> [Gens -> Seq(Messages)]]
    BY <1>9, <2>1 DEF Forward, TypeOK
  <2>4. QED
    BY <1>9, <2>2, <2>3 DEF Forward, TypeOK, CastInv
<1>10. ASSUME NEW p \in Pods, NEW g \in Gens, ReceiveError(p, g)
       PROVE  TypeOK' /\ CastInv'
  BY <1>10, EndEffect DEF ReceiveError, TypeOK, CastInv
<1>11. CASE UNCHANGED vars
  BY <1>11 DEF vars, TypeOK, CastInv
<1>12. QED
  BY <1>1, <1>2, <1>3, <1>4, <1>5, <1>6, <1>7, <1>8, <1>9, <1>10, <1>11
     DEF Next, BrokerStep

\* Entries: clients stay on their pod, and only the newest entry of a pod with
\* clients has a subscription that is not over.
LEMMA EntryStep ==
    ASSUME TypeOK, HomeInv, OneLiveSubscription, [Next]_vars
    PROVE  HomeInv' /\ OneLiveSubscription'
<1> USE PodAssumption, BoundAssumption
<1>1. ASSUME NEW s \in Streams, Register(s)
      PROVE  HomeInv' /\ OneLiveSubscription'
  <2>1. s \in Procs /\ PodOf[s] \in Pods
    BY DEF Procs
  <2>2. CASE clients[PodOf[s]] = {}
    <3>1. /\ gen[PodOf[s]] + 1 \in Gens
          /\ gen' = [gen EXCEPT ![PodOf[s]] = gen[PodOf[s]] + 1]
          /\ sub' = [sub EXCEPT ![PodOf[s]][gen[PodOf[s]] + 1] = "pending"]
          /\ clients' = [clients EXCEPT ![PodOf[s]] = @ \cup {s}]
      BY <1>1, <2>1, <2>2 DEF Register, TypeOK, Gens
    <3>2. HomeInv'
      BY <2>1, <3>1 DEF HomeInv, TypeOK
    <3>3. OneLiveSubscription'
      BY <2>1, <2>2, <3>1 DEF OneLiveSubscription, TypeOK
    <3>4. QED
      BY <3>2, <3>3
  <2>3. CASE clients[PodOf[s]] # {}
    BY <1>1, <2>1, <2>3 DEF Register, TypeOK, HomeInv, OneLiveSubscription
  <2>4. QED
    BY <2>2, <2>3
<1>2. ASSUME NEW s \in Streams, Unregister(s)
      PROVE  HomeInv' /\ OneLiveSubscription'
  <2>1. s \in Procs /\ PodOf[s] \in Pods
    BY DEF Procs
  <2>2. HomeInv'
    BY <1>2, <2>1 DEF Unregister, TypeOK, HomeInv
  <2>3. CASE clients[PodOf[s]] = {s}
    <3>1. gen[PodOf[s]] \in Gens
      BY <2>1, <2>3 DEF HomeInv
    <3>2. /\ sub'[PodOf[s]][gen[PodOf[s]]] = "down"
          /\ \A q \in Pods, h \in Gens : sub'[q][h] \in {sub[q][h], "down"}
      BY <1>2, <2>1, <2>3, <3>1, EndEffect DEF Unregister
    <3>3. OneLiveSubscription'
      BY <1>2, <2>1, <3>2 DEF Unregister, TypeOK, OneLiveSubscription
    <3>4. QED
      BY <2>2, <3>3
  <2>4. CASE clients[PodOf[s]] # {s}
    BY <1>2, <2>1, <2>2, <2>4 DEF Unregister, TypeOK, OneLiveSubscription
  <2>5. QED
    BY <2>3, <2>4
<1>3. ASSUME NEW p \in Pods, NEW g \in Gens, Subscribed(p, g)
      PROVE  HomeInv' /\ OneLiveSubscription'
  BY <1>3 DEF Subscribed, TypeOK, HomeInv, OneLiveSubscription
<1>4. ASSUME NEW p \in Pods, NEW g \in Gens, ReceiveError(p, g)
      PROVE  HomeInv' /\ OneLiveSubscription'
  <2>1. \A q \in Pods, h \in Gens : sub'[q][h] \in {sub[q][h], "down"}
    BY <1>4, EndEffect DEF ReceiveError
  <2>2. QED
    BY <1>4, <2>1 DEF ReceiveError, HomeInv, OneLiveSubscription
<1>5. CASE UNCHANGED <<clients, gen, sub>>
  BY <1>5 DEF HomeInv, OneLiveSubscription
<1>6. QED
  BY <1>1, <1>2, <1>3, <1>4, <1>5
     DEF Next, BrokerStep, Recv, Call, Cast, Publish, Cancel, Forward, vars

\* The broadcasts of a handler go from begun to cast to published.
LEMMA SentStep ==
    ASSUME TypeOK, CastInv, [Next]_vars
    PROVE  Later
<1> SUFFICES ASSUME NEW m \in Messages
             PROVE  /\ Unsent(m)' => Unsent(m)
                    /\ NotCast(m)' => NotCast(m)
  BY DEF Later
<1>1. m[1] \in Procs /\ m[2] \in Nat
  BY MessageParts, BoundAssumption DEF Numbers
<1>2. casts \in [Procs -> Nat] /\ pc \in [Procs -> PCs]
  BY BoundAssumption DEF TypeOK
<1> USE <1>1, <1>2 DEF Unsent, NotCast, Casting, Publishing
<1>3. ASSUME NEW x \in Procs,
             casts' = [casts EXCEPT ![x] = @ + 1], pc[x] \in {"idle", "recv"},
             NEW to, pc' = [pc EXCEPT ![x] = to]
      PROVE  /\ Unsent(m)' => Unsent(m)
             /\ NotCast(m)' => NotCast(m)
  BY <1>3
<1>4. ASSUME NEW s \in Streams, Register(s) \/ Recv(s) \/ Unregister(s)
      PROVE  /\ Unsent(m)' => Unsent(m)
             /\ NotCast(m)' => NotCast(m)
  BY <1>3, <1>4 DEF Register, Recv, Unregister, Procs
<1>5. ASSUME NEW c \in Calls, Call(c)
      PROVE  /\ Unsent(m)' => Unsent(m)
             /\ NotCast(m)' => NotCast(m)
  BY <1>3, <1>5 DEF Call, Procs
<1>6. ASSUME NEW x \in Procs, Cast(x) \/ Publish(x)
      PROVE  /\ Unsent(m)' => Unsent(m)
             /\ NotCast(m)' => NotCast(m)
  BY <1>6 DEF Cast, Publish, NextPC
<1>7. CASE UNCHANGED <<casts, pc>>
  BY <1>7
<1>8. QED
  BY <1>4, <1>5, <1>6, <1>7
     DEF Next, BrokerStep, Cancel, Subscribed, Forward, ReceiveError, vars

-----------------------------------------------------------------------------
(* Where the messages are.                                                 *)

\* Elements of the subscriptions are messages.
LEMMA HeldMessages ==
    ASSUME TypeOK, NEW p \in Pods, NEW g \in Gens
    PROVE  /\ pipe[p][g] \in Seq(Messages)
           /\ Len(pipe[p][g]) \in Nat
           /\ \A i \in 1 .. Len(pipe[p][g]) : pipe[p][g][i] \in Messages
<1>1. pipe[p][g] \in Seq(Messages)
  BY DEF TypeOK
<1>2. QED
  BY <1>1

\* A step that adds nothing to the subscriptions keeps PipeInv.
LEMMA ShrinkPipe ==
    ASSUME TypeOK, TypeOK', PipeInv, Later, Shrunk
    PROVE  PipeInv'
<1> SUFFICES ASSUME NEW p \in Pods, NEW g \in Gens,
                    NEW i \in 1 .. Len(pipe'[p][g])
             PROVE  /\ ~Unsent(pipe[p][g][i])'
                    /\ \A h \in Gens : \A j \in 1 .. Len(pipe'[p][h]) :
                          pipe'[p][g][i] = pipe'[p][h][j] => g = h /\ i = j
  BY DEF PipeInv
<1>1. \A h \in Gens :
        /\ Len(pipe[p][h]) \in Nat /\ Len(pipe'[p][h]) \in Nat
        /\ \A j \in 1 .. Len(pipe'[p][h]) :
              j \in 1 .. Len(pipe[p][h]) /\ pipe'[p][h][j] = pipe[p][h][j]
  <2> SUFFICES ASSUME NEW h \in Gens
               PROVE  /\ Len(pipe[p][h]) \in Nat /\ Len(pipe'[p][h]) \in Nat
                      /\ \A j \in 1 .. Len(pipe'[p][h]) :
                            /\ j \in 1 .. Len(pipe[p][h])
                            /\ pipe'[p][h][j] = pipe[p][h][j]
    OBVIOUS
  <2>1. Len(pipe[p][h]) \in Nat
    BY HeldMessages
  <2>2. Len(pipe'[p][h]) \in Nat
    BY DEF TypeOK
  <2>3. QED
    BY <2>1, <2>2 DEF Shrunk
<1>2. PICK m \in Messages : m = pipe[p][g][i] /\ m = pipe'[p][g][i]
  BY <1>1, HeldMessages
<1>3. ~Unsent(m)
  BY <1>1, <1>2 DEF PipeInv
<1>4. ~Unsent(m)'
  BY <1>3 DEF Later
<1>5. ~Unsent(pipe[p][g][i])'
  BY <1>2, <1>4 DEF Unsent
<1>6. QED
  BY <1>1, <1>5 DEF PipeInv

\* A step that hands out nothing and adds nothing keeps CountInv.
LEMMA ShrinkCount ==
    ASSUME TypeOK, TypeOK', CountInv, Later, Shrunk, got' = got
    PROVE  CountInv'
<1> SUFFICES ASSUME NEW s \in Streams, NEW m \in Messages
             PROVE  /\ NotCast(m)' => got'[s][m] = 0
                    /\ Unsent(m)' \/ InPipe(PodOf[s], m)'
                          => got'[s][m] <= Direct(s, m)
                    /\ got'[s][m] <= Direct(s, m) + 1
  BY DEF CountInv, Direct
<1>1. InPipe(PodOf[s], m)' => InPipe(PodOf[s], m)
  <2> SUFFICES ASSUME NEW g \in Gens,
                      NEW i \in 1 .. Len(pipe'[PodOf[s]][g]),
                      pipe'[PodOf[s]][g][i] = m
               PROVE  InPipe(PodOf[s], m)
    BY DEF InPipe
  <2>1. PodOf[s] \in Pods
    BY PodAssumption DEF Procs
  <2>2. Len(pipe[PodOf[s]][g]) \in Nat /\ Len(pipe'[PodOf[s]][g]) \in Nat
    BY <2>1, HeldMessages DEF TypeOK
  <2>3. /\ i \in 1 .. Len(pipe[PodOf[s]][g])
        /\ pipe[PodOf[s]][g][i] = m
    BY <2>1, <2>2 DEF Shrunk
  <2>4. QED
    BY <2>3 DEF InPipe
<1>2. QED
  BY <1>1 DEF CountInv, Later

\* The local half of a broadcast reaches the clients of the author's pod.
LEMMA CastStep ==
    ASSUME TypeOK, CastInv, HomeInv, PipeInv, CountInv, Later,
           NEW x \in Procs, Cast(x)
    PROVE  CountInv'
<1>0. PICK c \in Messages : c = Current(x)
  BY CurrentMessage DEF Cast, Casting
<1>1. PodOf[x] \in Pods
  BY PodAssumption
<1>2. c[1] = x /\ c[2] = casts[x]
  BY <1>0 DEF Current
<1>3. \A s \in Streams, n \in Messages :
        \/ got'[s][n] = got[s][n]
        \/ got'[s][n] = got[s][n] + 1 /\ n = c /\ s \in clients[PodOf[x]]
  BY <1>0, <1>1, HandOutCounts DEF Cast
<1>4. NotCast(c) /\ ~NotCast(c)'
  BY <1>2, BoundAssumption DEF Cast, Casting, NotCast, NextPC, TypeOK
<1> SUFFICES ASSUME NEW s \in Streams, NEW m \in Messages
             PROVE  /\ NotCast(m)' => got'[s][m] = 0
                    /\ Unsent(m)' \/ InPipe(PodOf[s], m)'
                          => got'[s][m] <= Direct(s, m)
                    /\ got'[s][m] <= Direct(s, m) + 1
  BY DEF CountInv, Direct
<1>5. InPipe(PodOf[s], m)' => InPipe(PodOf[s], m)
  BY DEF Cast, InPipe
<1>6. CASE got'[s][m] = got[s][m]
  BY <1>5, <1>6 DEF CountInv, Later
<1>7. CASE got'[s][m] = got[s][m] + 1 /\ m = c /\ s \in clients[PodOf[x]]
  <2>1. PodOf[s] = PodOf[m[1]]
    BY <1>1, <1>2, <1>7 DEF HomeInv
  <2>2. Direct(s, m) = 1
    BY <2>1 DEF Direct
  <2>3. got[s][m] = 0
    BY <1>4, <1>7 DEF CountInv
  <2>4. QED
    BY <1>4, <1>7, <2>2, <2>3
<1>8. QED
  BY <1>3, <1>6, <1>7

\* PUBLISH puts the message once into the one subscription of each pod that
\* receives, and it was in none.
LEMMA PublishStep ==
    ASSUME TypeOK, TypeOK', CastInv, OneLiveSubscription, PipeInv, CountInv,
           Later, NEW x \in Procs, Publish(x)
    PROVE  PipeInv' /\ CountInv'
<1>0. PICK c \in Messages : c = Current(x)
  BY CurrentMessage DEF Publish, Publishing
<1>1. c[1] = x /\ c[2] = casts[x]
  BY <1>0 DEF Current
<1>2. Unsent(c) /\ ~Unsent(c)'
  BY <1>1, BoundAssumption
     DEF Publish, Publishing, Casting, Unsent, NextPC, TypeOK
<1>3. CASE UNCHANGED pipe
  <2>1. Shrunk
    <3>1. \A p \in Pods, g \in Gens : Len(pipe[p][g]) \in Nat
      BY HeldMessages
    <3>2. QED
      BY <1>3, <3>1 DEF Shrunk
  <2>2. QED
    BY <2>1, ShrinkPipe, ShrinkCount DEF Publish
<1>4. CASE pipe' = [p \in Pods |-> [g \in Gens |->
               IF sub[p][g] = "up"
                  THEN Append(pipe[p][g], c) ELSE pipe[p][g]]]
  <2>1. ASSUME NEW p \in Pods, NEW g \in Gens, NEW i \in 1 .. Len(pipe'[p][g])
        PROVE  \/ i \in 1 .. Len(pipe[p][g]) /\ pipe'[p][g][i] = pipe[p][g][i]
               \/ /\ i = Len(pipe[p][g]) + 1 /\ pipe'[p][g][i] = c
                  /\ g = gen[p]
    <3>1. pipe[p][g] \in Seq(Messages) /\ Len(pipe[p][g]) \in Nat
      BY HeldMessages
    <3>2. CASE sub[p][g] = "up"
      <4>1. pipe'[p][g] = Append(pipe[p][g], c)
        BY <1>4, <3>2
      <4>2. g = gen[p]
        BY <3>2 DEF OneLiveSubscription
      <4>3. QED
        BY <3>1, <4>1, <4>2, AppendElements
    <3>3. CASE sub[p][g] # "up"
      BY <1>4, <3>3
    <3>4. QED
      BY <3>2, <3>3
  <2>2. ASSUME NEW p \in Pods, NEW g \in Gens, NEW i \in 1 .. Len(pipe[p][g])
        PROVE  /\ pipe[p][g][i] # c
               /\ pipe[p][g][i] \in Messages
               /\ ~Unsent(pipe[p][g][i])
    BY <1>2, HeldMessages DEF PipeInv
  <2>3. PipeInv'
    <3> SUFFICES ASSUME NEW p \in Pods, NEW g \in Gens,
                        NEW i \in 1 .. Len(pipe'[p][g])
                 PROVE  /\ ~Unsent(pipe[p][g][i])'
                        /\ \A h \in Gens : \A j \in 1 .. Len(pipe'[p][h]) :
                              pipe'[p][g][i] = pipe'[p][h][j] => g = h /\ i = j
      BY DEF PipeInv
    <3>1. PICK m \in Messages : m = pipe'[p][g][i]
      BY <1>0, <2>1, <2>2
    <3>2. ~Unsent(m)'
      BY <1>2, <2>1, <2>2, <3>1 DEF Later
    <3>3. ~Unsent(pipe[p][g][i])'
      BY <3>1, <3>2 DEF Unsent
    <3>4. ASSUME NEW h \in Gens, NEW j \in 1 .. Len(pipe'[p][h]),
                 pipe'[p][g][i] = pipe'[p][h][j]
          PROVE  g = h /\ i = j
      <4>1. \/ i \in 1 .. Len(pipe[p][g]) /\ pipe'[p][g][i] = pipe[p][g][i]
            \/ /\ i = Len(pipe[p][g]) + 1 /\ pipe'[p][g][i] = c
               /\ g = gen[p]
        BY <2>1
      <4>2. \/ j \in 1 .. Len(pipe[p][h]) /\ pipe'[p][h][j] = pipe[p][h][j]
            \/ /\ j = Len(pipe[p][h]) + 1 /\ pipe'[p][h][j] = c
               /\ h = gen[p]
        BY <2>1
      <4>3. QED
        BY <2>2, <3>4, <4>1, <4>2 DEF PipeInv
    <3>5. QED
      BY <3>3, <3>4
  <2>4. CountInv'
    <3> SUFFICES ASSUME NEW s \in Streams, NEW m \in Messages
                 PROVE  /\ NotCast(m)' => got'[s][m] = 0
                        /\ Unsent(m)' \/ InPipe(PodOf[s], m)'
                              => got'[s][m] <= Direct(s, m)
                        /\ got'[s][m] <= Direct(s, m) + 1
      BY DEF CountInv, Direct
    <3>1. PodOf[s] \in Pods
      BY PodAssumption DEF Procs
    <3>2. InPipe(PodOf[s], m)' => InPipe(PodOf[s], m) \/ m = c
      BY <2>1, <3>1 DEF InPipe
    <3>3. got' = got
      BY DEF Publish
    <3>4. QED
      BY <1>2, <3>2, <3>3 DEF CountInv, Later
  <2>5. QED
    BY <2>3, <2>4
<1>5. QED
  BY <1>0, <1>3, <1>4 DEF Publish

\* A forwarded message leaves the pod for good.
LEMMA ForwardStep ==
    ASSUME TypeOK, TypeOK', HomeInv, PipeInv, CountInv, Later,
           NEW p \in Pods, NEW g \in Gens, Forward(p, g)
    PROVE  PipeInv' /\ CountInv'
<1>0. pipe[p][g] \in Seq(Messages) /\ pipe[p][g] # <<>>
  BY HeldMessages DEF Forward
<1>1. /\ Len(pipe[p][g]) \in Nat /\ Len(pipe[p][g]) >= 1
      /\ Len(Tail(pipe[p][g])) = Len(pipe[p][g]) - 1
      /\ \A i \in 1 .. Len(pipe[p][g]) - 1 : Tail(pipe[p][g])[i] = pipe[p][g][i + 1]
      /\ Head(pipe[p][g]) = pipe[p][g][1]
      /\ Head(pipe[p][g]) \in Messages
  BY <1>0, TailElements, HeldMessages
<1>2. PICK c \in Messages : c = Head(pipe[p][g])
  BY <1>1
<1>3. pipe' = [pipe EXCEPT ![p][g] = Tail(pipe[p][g])] /\ HandOut(p, c)
  BY <1>2 DEF Forward
<1>4. \A s \in Streams, n \in Messages :
        \/ got'[s][n] = got[s][n]
        \/ got'[s][n] = got[s][n] + 1 /\ n = c /\ s \in clients[p]
  BY <1>3, HandOutCounts
<1> DEFINE old(q, h, i) == IF q = p /\ h = g THEN i + 1 ELSE i
<1>5. ASSUME NEW q \in Pods, NEW h \in Gens, NEW i \in 1 .. Len(pipe'[q][h])
      PROVE  /\ old(q, h, i) \in 1 .. Len(pipe[q][h])
             /\ pipe'[q][h][i] = pipe[q][h][old(q, h, i)]
             /\ q = p /\ h = g => old(q, h, i) # 1
             /\ i \in Nat
  <2>1. Len(pipe[q][h]) \in Nat
    BY HeldMessages
  <2>2. CASE q = p /\ h = g
    <3>1. pipe'[q][h] = Tail(pipe[p][g])
      BY <1>3, <2>2 DEF TypeOK
    <3>2. QED
      BY <1>1, <2>1, <2>2, <3>1
  <2>3. CASE ~(q = p /\ h = g)
    <3>1. pipe'[q][h] = pipe[q][h]
      BY <1>3, <2>3 DEF TypeOK
    <3>2. QED
      BY <2>1, <2>3, <3>1
  <2>4. QED
    BY <2>2, <2>3
<1>6. ASSUME NEW h \in Gens, NEW i \in 1 .. Len(pipe'[p][h])
      PROVE  pipe'[p][h][i] # c
  <2>1. /\ old(p, h, i) \in 1 .. Len(pipe[p][h])
        /\ pipe'[p][h][i] = pipe[p][h][old(p, h, i)]
        /\ h = g => old(p, h, i) # 1
    BY <1>5
  <2>2. 1 \in 1 .. Len(pipe[p][g]) /\ pipe[p][g][1] = c
    BY <1>1, <1>2
  <2> HIDE DEF old
  <2>3. QED
    BY <2>1, <2>2 DEF PipeInv
<1>7. PipeInv'
  <2> SUFFICES ASSUME NEW q \in Pods, NEW h \in Gens,
                      NEW i \in 1 .. Len(pipe'[q][h])
               PROVE  /\ ~Unsent(pipe[q][h][i])'
                      /\ \A k \in Gens : \A j \in 1 .. Len(pipe'[q][k]) :
                            pipe'[q][h][i] = pipe'[q][k][j] => h = k /\ i = j
    BY DEF PipeInv
  <2>1. PICK m \in Messages :
           m = pipe'[q][h][i] /\ m = pipe[q][h][old(q, h, i)]
    BY <1>5, HeldMessages
  <2>2. ~Unsent(m)'
    BY <1>5, <2>1 DEF PipeInv, Later
  <2>3. ~Unsent(pipe[q][h][i])'
    BY <2>1, <2>2 DEF Unsent
  <2>4. ASSUME NEW k \in Gens, NEW j \in 1 .. Len(pipe'[q][k]),
               pipe'[q][h][i] = pipe'[q][k][j]
        PROVE  h = k /\ i = j
    <3>1. h = k /\ old(q, h, i) = old(q, k, j)
      <4>1. /\ old(q, h, i) \in 1 .. Len(pipe[q][h])
            /\ pipe'[q][h][i] = pipe[q][h][old(q, h, i)]
        BY <1>5
      <4>2. /\ old(q, k, j) \in 1 .. Len(pipe[q][k])
            /\ pipe'[q][k][j] = pipe[q][k][old(q, k, j)]
        BY <1>5
      <4>3. PICK a \in 1 .. Len(pipe[q][h]) : a = old(q, h, i)
        BY <4>1
      <4>4. PICK b \in 1 .. Len(pipe[q][k]) : b = old(q, k, j)
        BY <4>2
      <4>5. pipe[q][h][a] = pipe[q][k][b]
        BY <2>4, <4>1, <4>2, <4>3, <4>4
      <4>6. h = k /\ a = b
        BY <4>5 DEF PipeInv
      <4>7. QED
        BY <4>3, <4>4, <4>6
    <3>2. QED
      BY <1>5, <3>1
  <2>5. QED
    BY <2>3, <2>4
<1>8. CountInv'
  <2> SUFFICES ASSUME NEW s \in Streams, NEW m \in Messages
               PROVE  /\ NotCast(m)' => got'[s][m] = 0
                      /\ Unsent(m)' \/ InPipe(PodOf[s], m)'
                            => got'[s][m] <= Direct(s, m)
                      /\ got'[s][m] <= Direct(s, m) + 1
    BY DEF CountInv, Direct
  <2>1. PodOf[s] \in Pods
    BY PodAssumption DEF Procs
  <2>2. InPipe(PodOf[s], m)' => InPipe(PodOf[s], m)
    <3> HIDE DEF old
    <3>1. QED
      BY <1>5, <2>1 DEF InPipe
  <2>3. CASE got'[s][m] = got[s][m]
    BY <2>2, <2>3 DEF CountInv, Later
  <2>4. CASE got'[s][m] = got[s][m] + 1 /\ m = c /\ s \in clients[p]
    <3>1. PodOf[s] = p
      BY <2>4 DEF HomeInv
    <3>2. 1 \in 1 .. Len(pipe[p][g]) /\ pipe[p][g][1] = m
      BY <1>1, <1>2, <2>4
    <3>3. ~Unsent(m) /\ ~Unsent(m)'
      BY <3>2 DEF PipeInv, Later
    <3>4. ~NotCast(m)'
      BY <3>3 DEF NotCast, Unsent
    <3>5. InPipe(PodOf[s], m)
      BY <3>1, <3>2 DEF InPipe
    <3>6. ~InPipe(PodOf[s], m)'
      BY <1>6, <2>4, <3>1 DEF InPipe
    <3>7. got[s][m] <= Direct(s, m) /\ got[s][m] \in Nat /\ Direct(s, m) \in Nat
      BY <3>5 DEF CountInv, TypeOK, Direct
    <3>8. QED
      BY <2>4, <3>3, <3>4, <3>6, <3>7
  <2>5. QED
    BY <1>4, <2>3, <2>4
<1>9. QED
  BY <1>7, <1>8

-----------------------------------------------------------------------------
(* The theorems.                                                           *)

LEMMA FanoutStep == FanoutInv /\ [Next]_vars => FanoutInv'
<1> SUFFICES ASSUME FanoutInv, [Next]_vars PROVE FanoutInv'
  OBVIOUS
<1> USE DEF FanoutInv
<1>1. TypeOK' /\ CastInv'
  BY TypeStep
<1>2. HomeInv' /\ OneLiveSubscription'
  BY EntryStep
<1>3. Later
  BY SentStep
<1>4. ASSUME pipe' = pipe PROVE Shrunk
  <2>1. \A p \in Pods, g \in Gens : Len(pipe[p][g]) \in Nat
    BY HeldMessages
  <2>2. QED
    BY <1>4, <2>1 DEF Shrunk
<1>5. ASSUME Shrunk, got' = got PROVE PipeInv' /\ CountInv'
  BY <1>1, <1>3, <1>5, ShrinkPipe, ShrinkCount
<1>6. ASSUME NEW s \in Streams, Unregister(s) PROVE PipeInv' /\ CountInv'
  <2>1. PodOf[s] \in Pods
    BY PodAssumption DEF Procs
  <2>2. CASE clients[PodOf[s]] = {s}
    <3>1. gen[PodOf[s]] \in Gens
      BY <2>1, <2>2 DEF HomeInv
    <3>2. QED
      BY <1>5, <1>6, <2>1, <2>2, <3>1, EndEffect DEF Unregister
  <2>3. CASE clients[PodOf[s]] # {s}
    BY <1>4, <1>5, <1>6, <2>3 DEF Unregister
  <2>4. QED
    BY <2>2, <2>3
<1>7. ASSUME NEW x \in Procs, Cast(x) PROVE PipeInv' /\ CountInv'
  <2>1. PipeInv'
    BY <1>1, <1>3, <1>4, <1>7, ShrinkPipe DEF Cast
  <2>2. CountInv'
    BY <1>3, <1>7, CastStep
  <2>3. QED
    BY <2>1, <2>2
<1>8. ASSUME NEW x \in Procs, Publish(x) PROVE PipeInv' /\ CountInv'
  BY <1>1, <1>3, <1>8, PublishStep
<1>9. ASSUME NEW p \in Pods, NEW g \in Gens, Forward(p, g)
      PROVE  PipeInv' /\ CountInv'
  BY <1>1, <1>3, <1>9, ForwardStep
<1>10. ASSUME NEW p \in Pods, NEW g \in Gens, ReceiveError(p, g)
       PROVE  PipeInv' /\ CountInv'
  BY <1>5, <1>10, EndEffect DEF ReceiveError
<1>11. ASSUME UNCHANGED <<pipe, got>> PROVE PipeInv' /\ CountInv'
  <2>1. pipe' = pipe /\ got' = got
    BY <1>11
  <2>2. Shrunk
    BY <1>4, <2>1
  <2>3. QED
    BY <1>5, <2>1, <2>2
<1>12. PipeInv' /\ CountInv'
  BY <1>6, <1>7, <1>8, <1>9, <1>10, <1>11
     DEF Next, BrokerStep, Register, Recv, Call, Cancel, Subscribed, vars
<1>13. QED
  BY <1>1, <1>2, <1>12

\* The inductive invariant holds in every reachable state.
THEOREM FanoutInvariant == Spec => []FanoutInv
  BY FanoutInit, FanoutStep, PTL DEF Spec

\* The state of every pod, handler and subscription keeps its type
\* (hub.go 39-74, redis_broker.go 56-77).
THEOREM FanoutTypeCorrect == Spec => []TypeOK
<1>1. FanoutInv => TypeOK
  BY DEF FanoutInv
<1>2. QED
  BY <1>1, FanoutInvariant, PTL

\* Whatever joins, leaves and fails, a client on another pod than the
\* author's gets no message twice (hub.go 94-97, 115 and 152-161).
THEOREM RemoteAlwaysAtMostOnce == Spec => []RemoteAtMostOnce
<1>1. FanoutInv => RemoteAtMostOnce
  BY DEF FanoutInv, CountInv, Direct, RemoteAtMostOnce, TypeOK
<1>2. QED
  BY <1>1, FanoutInvariant, PTL

\* A client on the author's pod gets no message a third time: the pod's own
\* echo is the only copy there can be (hub.go 131-148).
THEOREM LocalAlwaysAtMostTwice == Spec => []LocalAtMostTwice
<1>1. FanoutInv => LocalAtMostTwice
  BY DEF FanoutInv, CountInv, Direct, LocalAtMostTwice, TypeOK
<1>2. QED
  BY <1>1, FanoutInvariant, PTL

\* Entries that are gone leave no subscription behind (hub.go 112-116).
THEOREM AlwaysOneLiveSubscription == Spec => []OneLiveSubscription
<1>1. FanoutInv => OneLiveSubscription
  BY DEF FanoutInv
<1>2. QED
  BY <1>1, FanoutInvariant, PTL

=============================================================================
