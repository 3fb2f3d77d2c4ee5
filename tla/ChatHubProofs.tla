--------------------------- MODULE ChatHubProofs ---------------------------
(***************************************************************************)
(* Proofs about ChatHub for every number of streams, calls, rooms, users   *)
(* and shards, every channel capacity and every connection limit.          *)
(***************************************************************************)
EXTENDS ChatHub, TLAPS, FiniteSetTheorems

\* What Append returns: the same elements, then the new one.
LEMMA AppendFacts ==
  ASSUME NEW S, NEW q \in Seq(S), NEW e \in S
  PROVE  /\ Append(q, e) \in Seq(S)
         /\ Append(q, e) # <<>>
         /\ Len(Append(q, e)) = Len(q) + 1
         /\ Append(q, e)[Len(Append(q, e))] = e
         /\ \A i \in 1 .. Len(q) : Append(q, e)[i] = q[i]
  OBVIOUS

\* What Tail returns: the elements but the first, one place earlier.
LEMMA TailFacts ==
  ASSUME NEW S, NEW q \in Seq(S), q # <<>>
  PROVE  /\ Head(q) \in S
         /\ Head(q) = q[1]
         /\ Tail(q) \in Seq(S)
         /\ Len(Tail(q)) = Len(q) - 1
         /\ \A i \in 1 .. Len(Tail(q)) : Tail(q)[i] = q[i + 1]
  OBVIOUS

-----------------------------------------------------------------------------
(* Type correctness.                                                       *)

\* Every initial state has the right types.
LEMMA TypeInit == Init => TypeOK /\ CastInv
  BY ProcsAssumption, LimitAssumption
  DEF Init, TypeOK, CastInv, Procs, PCs, Frames, NoFrame, InHub, Left, Casting

\* Every step preserves the types.
LEMMA TypeStep == TypeOK /\ CastInv /\ [Next]_vars => TypeOK'
<1> SUFFICES ASSUME TypeOK, CastInv, [Next]_vars PROVE TypeOK'
  OBVIOUS
<1> USE DEF Procs, TypeOK, CastRoom, hubVars, lockVars, senderVars, frameVars
<1>1. ASSUME NEW s \in Streams, HandlerStep(s)
      PROVE  TypeOK'
  <2>1. CASE Register(s)
    BY <2>1 DEF Register, CastInv, PCs, InHub, Left
  <2>2. CASE CountUp(s)
    <3>1. pc' \in [Procs -> PCs]
      BY <2>2 DEF CountUp, PCs, InHub, Left
    <3>2. connCnt' \in Int
      BY <2>2 DEF CountUp
    <3> QED
      BY <2>2, <3>1, <3>2 DEF CountUp
  <2>3. CASE SetOnline(s)
    BY <2>3 DEF SetOnline, PCs, InHub, Left
  <2>4. CASE StartSender(s)
    BY <2>4 DEF StartSender, PCs, InHub, Left
  <2>5. CASE ProcessIncoming(s)
    BY <2>5 DEF ProcessIncoming, Frames, NoFrame, PCs, InHub, Left
  <2>6. CASE RecvError(s)
    BY <2>6 DEF RecvError, PCs, InHub, Left
  <2>7. CASE WaitDone(s)
    BY <2>7 DEF WaitDone, PCs, InHub, Left
  <2>8. CASE Unregister(s)
    <3>1. pc' \in [Procs -> PCs]
      BY <2>8 DEF Unregister, PCs, InHub, Left
    <3>2. clients' \in [Rooms -> SUBSET Streams]
      <4>1. CASE roomOf[s] \in rooms
        <5>1. clients' = [clients EXCEPT ![roomOf[s]] = @ \ {s}]
          BY <2>8, <4>1 DEF Unregister
        <5> QED
          BY <4>1, <5>1
      <4>2. CASE roomOf[s] \notin rooms
        BY <2>8, <4>2 DEF Unregister
      <4> QED
        BY <4>1, <4>2
    <3>5. rooms' \subseteq Rooms
      BY <2>8 DEF Unregister
    <3>3. subs' \in [Rooms -> Int]
      BY <2>8 DEF Unregister
    <3>4. closed' \in [Streams -> BOOLEAN]
      BY <2>8 DEF Unregister
    <3> QED
      BY <2>8, <3>1, <3>2, <3>3, <3>4, <3>5 DEF Unregister
  <2>9. CASE CountDown(s)
    <3>1. pc' \in [Procs -> PCs]
      BY <2>9 DEF CountDown, PCs, InHub, Left
    <3>2. connCnt' \in Int
      BY <2>9 DEF CountDown
    <3> QED
      BY <2>9, <3>1, <3>2 DEF CountDown
  <2>10. CASE SetOffline(s)
    BY <2>10 DEF SetOffline, PCs, InHub, Left
  <2> QED
    BY <1>1, <2>1, <2>2, <2>3, <2>4, <2>5, <2>6, <2>7, <2>8, <2>9, <2>10
    DEF HandlerStep
<1>2. ASSUME NEW s \in Streams, ClientStep(s)
      PROVE  TypeOK'
  <2>1. CASE Open(s)
    BY <2>1 DEF Open, PCs, InHub, Left
  <2>2. CASE RecvFirst(s)
    <3>1. pc' \in [Procs -> PCs]
      BY <2>2 DEF RecvFirst, PCs, InHub, Left
    <3>2. roomOf' \in [Procs -> Rooms \cup {NoRoom}]
      BY <2>2 DEF RecvFirst, Frames
    <3>3. cur' \in [Procs -> Frames \cup {NoFrame}]
      BY <2>2 DEF RecvFirst
    <3> QED
      BY <2>2, <3>1, <3>2, <3>3 DEF RecvFirst
  <2>3. CASE RefuseFirst(s)
    BY <2>3 DEF RefuseFirst, PCs, InHub, Left
  <2>4. CASE Recv(s)
    <3>1. pc' \in [Procs -> PCs]
      BY <2>4 DEF Recv, PCs, InHub, Left
    <3>2. frames' \in [Streams -> Nat]
      BY <2>4 DEF Recv
    <3>3. cur' \in [Procs -> Frames \cup {NoFrame}]
      BY <2>4 DEF Recv
    <3> QED
      BY <2>4, <3>1, <3>2, <3>3 DEF Recv
  <2>5. CASE SendOK(s)
    <3>1. queue' \in [Streams -> Seq(Messages)]
      BY <2>5 DEF SendOK
    <3>2. \A x \in Streams : Len(queue'[x]) <= SendCap
      BY <2>5, LimitAssumption DEF SendOK
    <3>3. Head(queue[s]) \in Messages
      BY <2>5 DEF SendOK
    <3>4. last' \in [Streams -> [Procs -> Nat]]
      BY <2>5, <3>3 DEF SendOK, Messages
    <3> QED
      BY <2>5, <3>1, <3>2, <3>3, <3>4 DEF SendOK
  <2>6. CASE CloseSend(s)
    BY <2>6 DEF CloseSend
  <2>7. CASE Cancel(s)
    BY <2>7 DEF Cancel
  <2> QED
    BY <1>2, <2>1, <2>2, <2>3, <2>4, <2>5, <2>6, <2>7
    DEF ClientStep
<1>3. ASSUME NEW s \in Streams, SenderExit(s)
      PROVE  TypeOK'
  <2>1. queue' \in [Streams -> Seq(Messages)]
    BY <1>3 DEF SenderExit
  <2>2. \A x \in Streams : Len(queue'[x]) <= SendCap
    BY <1>3, LimitAssumption DEF SenderExit
  <2> QED
    BY <1>3, <2>1, <2>2 DEF SenderExit
<1>4. ASSUME NEW p \in Procs, RLock(p)
      PROVE  TypeOK'
  <2>1. CastRoom(p) \in Rooms
    BY <1>4 DEF RLock, Casting, CastInv, Frames, InHub, Left
  <2>2. posts' \in [Procs -> Seq(Rooms)]
    BY <1>4, <2>1 DEF RLock
  <2>3. todo' \in [Procs -> SUBSET Streams]
    BY <1>4, <2>1 DEF RLock
  <2> QED
    BY <1>4, <2>1, <2>2, <2>3 DEF RLock
<1>5. ASSUME NEW p \in Procs, NEW c \in Streams, Deliver(p, c)
      PROVE  TypeOK'
  <2>1. Len(posts[p]) \in Nat \ {0}
    BY <1>5 DEF Deliver, CastInv
  <2>2. [from |-> p, n |-> Len(posts[p])] \in Messages
    BY <1>5, <2>1 DEF Messages
  <2>3. queue' \in [Streams -> Seq(Messages)]
    BY <1>5, <2>2 DEF Deliver, Offer
  <2>4. \A x \in Streams : Len(queue'[x]) <= SendCap
    BY <1>5, <2>2, LimitAssumption DEF Deliver, Offer
  <2>5. todo' \in [Procs -> SUBSET Streams]
    BY <1>5 DEF Deliver
  <2> QED
    BY <1>5, <2>1, <2>2, <2>3, <2>4, <2>5 DEF Deliver
<1>6. ASSUME NEW p \in Procs, RUnlock(p)
      PROVE  TypeOK'
  BY <1>6 DEF RUnlock, AfterCast, Frames, NoFrame, PCs, InHub, Left
<1>7. ASSUME NEW c \in Calls, Call(c)
      PROVE  TypeOK'
  BY <1>7 DEF Call, PCs, InHub, Left
<1>8. CASE UNCHANGED vars
  BY <1>8 DEF vars
<1> QED
  BY <1>1, <1>2, <1>3, <1>4, <1>5, <1>6, <1>7, <1>8
  DEF Next, BroadcastStep

\* Every step preserves what a broadcaster knows of its room.
LEMMA CastStep == TypeOK /\ CastInv /\ [Next]_vars => CastInv'
<1> SUFFICES ASSUME TypeOK, CastInv, [Next]_vars PROVE CastInv'
  OBVIOUS
<1> USE DEF Procs, TypeOK, CastInv, CastRoom, hubVars, lockVars, senderVars,
            frameVars
<1>1. ASSUME NEW s \in Streams, HandlerStep(s)
      PROVE  CastInv'
  <2>1. CASE Register(s)
    BY <2>1 DEF Register, InHub, Left, Casting
  <2>2. CASE CountUp(s)
    BY <2>2 DEF CountUp, InHub, Left, Casting
  <2>3. CASE SetOnline(s)
    BY <2>3 DEF SetOnline, InHub, Left, Casting
  <2>4. CASE StartSender(s)
    <3>1. \A q \in Procs \ {s} : CastRoom(q)' = CastRoom(q)
      BY <2>4 DEF StartSender
    <3> QED
      BY <2>4, <3>1
      DEF StartSender, InHub, Left, Casting
  <2>5. CASE ProcessIncoming(s)
    BY <2>5 DEF ProcessIncoming, Frames, NoFrame, InHub, Left, Casting
  <2>6. CASE RecvError(s)
    BY <2>6 DEF RecvError, InHub, Left, Casting
  <2>7. CASE WaitDone(s)
    BY <2>7 DEF WaitDone, InHub, Left, Casting
  <2>8. CASE Unregister(s)
    BY <2>8 DEF Unregister, InHub, Left, Casting
  <2>9. CASE CountDown(s)
    BY <2>9 DEF CountDown, InHub, Left, Casting
  <2>10. CASE SetOffline(s)
    BY <2>10 DEF SetOffline, InHub, Left, Casting
  <2> QED
    BY <1>1, <2>1, <2>2, <2>3, <2>4, <2>5, <2>6, <2>7, <2>8, <2>9, <2>10
    DEF HandlerStep
<1>2. ASSUME NEW s \in Streams, ClientStep(s)
      PROVE  CastInv'
  <2>1. CASE Open(s)
    BY <2>1 DEF Open, InHub, Left, Casting
  <2>2. CASE RecvFirst(s)
    BY <2>2 DEF RecvFirst, Frames, InHub, Left, Casting
  <2>3. CASE RefuseFirst(s)
    BY <2>3 DEF RefuseFirst, InHub, Left, Casting
  <2>4. CASE Recv(s)
    BY <2>4 DEF Recv, InHub, Left, Casting
  <2>5. CASE SendOK(s)
    BY <2>5 DEF SendOK
  <2>6. CASE CloseSend(s)
    BY <2>6 DEF CloseSend
  <2>7. CASE Cancel(s)
    BY <2>7 DEF Cancel
  <2> QED
    BY <1>2, <2>1, <2>2, <2>3, <2>4, <2>5, <2>6, <2>7
    DEF ClientStep
<1>3. ASSUME NEW s \in Streams, SenderExit(s)
      PROVE  CastInv'
  BY <1>3 DEF SenderExit
<1>4. ASSUME NEW p \in Procs, RLock(p)
      PROVE  CastInv'
  <2>1. CastRoom(p) \in Rooms
    BY <1>4 DEF RLock, Casting, Frames, InHub, Left
  <2>2. /\ posts'[p] # <<>>
        /\ posts'[p][Len(posts'[p])] = CastRoom(p)
    <3>1. posts[p] \in Seq(Rooms) /\ posts'[p] = Append(posts[p], CastRoom(p))
      BY <1>4 DEF RLock
    <3> HIDE DEF CastRoom, TypeOK, CastInv
    <3>2. /\ Append(posts[p], CastRoom(p)) # <<>>
          /\ Append(posts[p], CastRoom(p))[Len(Append(posts[p], CastRoom(p)))]
               = CastRoom(p)
      BY <2>1, <3>1, AppendFacts
    <3> QED
      BY <3>1, <3>2
  <2>3. \A q \in Procs : CastRoom(q)' = CastRoom(q)
    BY <1>4 DEF RLock
  <2>4. \A q \in Procs \ {p} : posts'[q] = posts[q]
    BY <1>4 DEF RLock
  <2> QED
    BY <1>4, <2>2, <2>3, <2>4 DEF RLock
<1>5. ASSUME NEW p \in Procs, NEW c \in Streams, Deliver(p, c)
      PROVE  CastInv'
  BY <1>5 DEF Deliver
<1>6. ASSUME NEW p \in Procs, RUnlock(p)
      PROVE  CastInv'
  BY <1>6 DEF RUnlock, AfterCast, Frames, NoFrame, InHub, Left, Casting
<1>7. ASSUME NEW c \in Calls, Call(c)
      PROVE  CastInv'
  BY <1>7, ProcsAssumption DEF Call, InHub, Left, Casting
<1>8. CASE UNCHANGED vars
  BY <1>8 DEF vars
<1> QED
  BY <1>1, <1>2, <1>3, <1>4, <1>5, <1>6, <1>7, <1>8
  DEF Next, BroadcastStep

\* The variables always have their types, and every channel stays within its
\* capacity (Client.Send, hub.go 23-29 and 131-143).
THEOREM TypeCorrect == Spec => [](TypeOK /\ CastInv)
  BY TypeInit, TypeStep, CastStep, PTL DEF Spec

-----------------------------------------------------------------------------
(* The hub's maps, its lock and the channels.                              *)

\* The initial state satisfies the structural invariants.
LEMMA HubInit ==
  Init => RegisteredExactly /\ OneSubscriptionPerRoom /\ LockInv /\ LifeInv
  BY DEF Init, RegisteredExactly, OneSubscriptionPerRoom,
                    LockInv, LifeInv,
         Procs, InHub, Left

\* A stream that unregisters finds the entry of its room, so Unregister always
\* removes it and closes its channel.
LEMMA UnregisterEffect ==
  ASSUME TypeOK, CastInv, RegisteredExactly, OneSubscriptionPerRoom,
         NEW s \in Streams, Unregister(s)
  PROVE  /\ roomOf[s] \in Rooms
         /\ s \in clients[roomOf[s]]
         /\ clients' = [clients EXCEPT ![roomOf[s]] = @ \ {s}]
         /\ closed' = [closed EXCEPT ![s] = TRUE]
         /\ IF clients[roomOf[s]] = {s}
               THEN /\ subs' = [subs EXCEPT ![roomOf[s]] = @ - 1]
                    /\ rooms' = rooms \ {roomOf[s]}
               ELSE UNCHANGED <<subs, rooms>>
<1>1. pc[s] = "unregister" /\ s \in Procs
  BY DEF Unregister, Procs
<1>2. roomOf[s] \in Rooms
  BY <1>1 DEF CastInv, InHub
<1>3. s \in clients[roomOf[s]]
  BY <1>1, <1>2 DEF RegisteredExactly, InHub
<1>4. roomOf[s] \in rooms
  BY <1>2, <1>3 DEF OneSubscriptionPerRoom
<1>5. clients[roomOf[s]] \subseteq {s} <=> clients[roomOf[s]] = {s}
  BY <1>3
<1> QED
  BY <1>2, <1>3, <1>4, <1>5 DEF Unregister

\* A stream is in its room's map exactly between Register and Unregister.
LEMMA RegisteredStep ==
  TypeOK /\ CastInv /\ RegisteredExactly /\ OneSubscriptionPerRoom
     /\ [Next]_vars => RegisteredExactly'
<1> SUFFICES ASSUME TypeOK, CastInv, RegisteredExactly, OneSubscriptionPerRoom,
                    [Next]_vars
             PROVE  RegisteredExactly'
  OBVIOUS
<1> USE DEF Procs, TypeOK, CastRoom, hubVars, lockVars, senderVars,
            frameVars, RegisteredExactly
<1>1. ASSUME NEW s \in Streams, HandlerStep(s)
      PROVE  RegisteredExactly'
  <2>1. CASE Register(s)
    BY <2>1 DEF Register, CastInv, OneSubscriptionPerRoom, InHub, Left
  <2>2. CASE CountUp(s)
    BY <2>2 DEF CountUp, InHub, Left
  <2>3. CASE SetOnline(s)
    BY <2>3 DEF SetOnline, InHub, Left
  <2>4. CASE StartSender(s)
    BY <2>4 DEF StartSender, InHub, Left
  <2>5. CASE ProcessIncoming(s)
    BY <2>5 DEF ProcessIncoming, InHub, Left
  <2>6. CASE RecvError(s)
    BY <2>6 DEF RecvError, InHub, Left
  <2>7. CASE WaitDone(s)
    BY <2>7 DEF WaitDone, InHub, Left
  <2>8. CASE Unregister(s)
    <3>1. clients' = [clients EXCEPT ![roomOf[s]] = @ \ {s}]
      BY <2>8, UnregisterEffect
    <3>2. pc[s] = "unregister" /\ roomOf' = roomOf
          /\ pc' = [pc EXCEPT ![s] = "countDown"]
      BY <2>8 DEF Unregister
    <3> QED
      BY <3>1, <3>2 DEF InHub
  <2>9. CASE CountDown(s)
    BY <2>9 DEF CountDown, InHub, Left
  <2>10. CASE SetOffline(s)
    BY <2>10 DEF SetOffline, InHub, Left
  <2> QED
    BY <1>1, <2>1, <2>2, <2>3, <2>4, <2>5, <2>6, <2>7, <2>8, <2>9, <2>10
    DEF HandlerStep
<1>2. ASSUME NEW s \in Streams, ClientStep(s)
      PROVE  RegisteredExactly'
  <2>1. CASE Open(s)
    BY <2>1 DEF Open, InHub, Left
  <2>2. CASE RecvFirst(s)
    BY <2>2 DEF RecvFirst, InHub, Left
  <2>3. CASE RefuseFirst(s)
    BY <2>3 DEF RefuseFirst, InHub, Left
  <2>4. CASE Recv(s)
    BY <2>4 DEF Recv, InHub, Left
  <2>5. CASE SendOK(s)
    BY <2>5 DEF SendOK
  <2>6. CASE CloseSend(s)
    BY <2>6 DEF CloseSend
  <2>7. CASE Cancel(s)
    BY <2>7 DEF Cancel
  <2> QED
    BY <1>2, <2>1, <2>2, <2>3, <2>4, <2>5, <2>6, <2>7
    DEF ClientStep
<1>3. ASSUME NEW s \in Streams, SenderExit(s)
      PROVE  RegisteredExactly'
  BY <1>3 DEF SenderExit
<1>4. ASSUME NEW p \in Procs, RLock(p)
      PROVE  RegisteredExactly'
  BY <1>4 DEF RLock
<1>5. ASSUME NEW p \in Procs, NEW c \in Streams, Deliver(p, c)
      PROVE  RegisteredExactly'
  BY <1>5 DEF Deliver
<1>6. ASSUME NEW p \in Procs, RUnlock(p)
      PROVE  RegisteredExactly'
  <2>1. pc[p] \in Casting
    BY <1>6 DEF RUnlock, CastInv
  <2>2. \A x \in Procs : pc'[x] \in InHub <=> pc[x] \in InHub
    BY <1>6, <2>1 DEF RUnlock, AfterCast, Casting, InHub
  <2> QED
    BY <1>6, <2>2 DEF RUnlock
<1>7. ASSUME NEW c \in Calls, Call(c)
      PROVE  RegisteredExactly'
  BY <1>7, ProcsAssumption DEF Call, InHub, Left
<1>8. CASE UNCHANGED vars
  BY <1>8 DEF vars
<1> QED
  BY <1>1, <1>2, <1>3, <1>4, <1>5, <1>6, <1>7, <1>8
  DEF Next, BroadcastStep

\* Entries and subscriptions follow the client maps.
LEMMA SubscriptionStep ==
  TypeOK /\ CastInv /\ RegisteredExactly /\ OneSubscriptionPerRoom
     /\ [Next]_vars => OneSubscriptionPerRoom'
<1> SUFFICES ASSUME TypeOK, CastInv, RegisteredExactly, OneSubscriptionPerRoom,
                    [Next]_vars
             PROVE  OneSubscriptionPerRoom'
  OBVIOUS
<1> USE DEF Procs, TypeOK, CastRoom, hubVars, lockVars, senderVars,
            frameVars, OneSubscriptionPerRoom
<1>1. ASSUME NEW s \in Streams, HandlerStep(s)
      PROVE  OneSubscriptionPerRoom'
  <2>1. CASE Register(s)
    BY <2>1 DEF Register, CastInv, RegisteredExactly, InHub, Left
  <2>2. CASE CountUp(s)
    BY <2>2 DEF CountUp
  <2>3. CASE SetOnline(s)
    BY <2>3 DEF SetOnline
  <2>4. CASE StartSender(s)
    BY <2>4 DEF StartSender
  <2>5. CASE ProcessIncoming(s)
    BY <2>5 DEF ProcessIncoming
  <2>6. CASE RecvError(s)
    BY <2>6 DEF RecvError
  <2>7. CASE WaitDone(s)
    BY <2>7 DEF WaitDone
  <2>8. CASE Unregister(s)
    <3>1. /\ clients' = [clients EXCEPT ![roomOf[s]] = @ \ {s}]
          /\ roomOf[s] \in Rooms
          /\ s \in clients[roomOf[s]]
      BY <2>8, UnregisterEffect
    <3>2. CASE clients[roomOf[s]] = {s}
      <4>1. /\ subs' = [subs EXCEPT ![roomOf[s]] = @ - 1]
            /\ rooms' = rooms \ {roomOf[s]}
        BY <2>8, <3>2, UnregisterEffect
      <4>2. subs[roomOf[s]] = 1
        BY <3>1
      <4>3. subs'[roomOf[s]] = 0 /\ clients'[roomOf[s]] = {}
        BY <3>1, <3>2, <4>1, <4>2
      <4>4. \A r \in Rooms : r # roomOf[s] =>
               /\ subs'[r] = subs[r]
               /\ clients'[r] = clients[r]
               /\ r \in rooms' <=> r \in rooms
        BY <3>1, <4>1
      <4> QED
        BY <4>1, <4>3, <4>4
    <3>3. CASE clients[roomOf[s]] # {s}
      <4>1. subs' = subs /\ rooms' = rooms
        BY <2>8, <3>3, UnregisterEffect
      <4>2. clients[roomOf[s]] \ {s} # {}
        BY <3>1, <3>3
      <4> QED
        BY <3>1, <4>1, <4>2
    <3> QED
      BY <3>2, <3>3
  <2>9. CASE CountDown(s)
    BY <2>9 DEF CountDown
  <2>10. CASE SetOffline(s)
    BY <2>10 DEF SetOffline
  <2> QED
    BY <1>1, <2>1, <2>2, <2>3, <2>4, <2>5, <2>6, <2>7, <2>8, <2>9, <2>10
    DEF HandlerStep
<1>2. ASSUME NEW s \in Streams, ClientStep(s)
      PROVE  OneSubscriptionPerRoom'
  <2>1. CASE Open(s)
    BY <2>1 DEF Open
  <2>2. CASE RecvFirst(s)
    BY <2>2 DEF RecvFirst
  <2>3. CASE RefuseFirst(s)
    BY <2>3 DEF RefuseFirst
  <2>4. CASE Recv(s)
    BY <2>4 DEF Recv
  <2>5. CASE SendOK(s)
    BY <2>5 DEF SendOK
  <2>6. CASE CloseSend(s)
    BY <2>6 DEF CloseSend
  <2>7. CASE Cancel(s)
    BY <2>7 DEF Cancel
  <2> QED
    BY <1>2, <2>1, <2>2, <2>3, <2>4, <2>5, <2>6, <2>7
    DEF ClientStep
<1>3. ASSUME NEW s \in Streams, SenderExit(s)
      PROVE  OneSubscriptionPerRoom'
  BY <1>3 DEF SenderExit
<1>4. ASSUME NEW p \in Procs, RLock(p)
      PROVE  OneSubscriptionPerRoom'
  BY <1>4 DEF RLock
<1>5. ASSUME NEW p \in Procs, NEW c \in Streams, Deliver(p, c)
      PROVE  OneSubscriptionPerRoom'
  BY <1>5 DEF Deliver
<1>6. ASSUME NEW p \in Procs, RUnlock(p)
      PROVE  OneSubscriptionPerRoom'
  BY <1>6 DEF RUnlock
<1>7. ASSUME NEW c \in Calls, Call(c)
      PROVE  OneSubscriptionPerRoom'
  BY <1>7 DEF Call
<1>8. CASE UNCHANGED vars
  BY <1>8 DEF vars
<1> QED
  BY <1>1, <1>2, <1>3, <1>4, <1>5, <1>6, <1>7, <1>8
  DEF Next, BroadcastStep

\* The write lock keeps the clients of a running Broadcast in the map.
LEMMA LockStep ==
  TypeOK /\ CastInv /\ LockInv /\ [Next]_vars => LockInv'
<1> SUFFICES ASSUME TypeOK, CastInv, LockInv, [Next]_vars
             PROVE  LockInv'
  OBVIOUS
<1> USE DEF Procs, TypeOK, CastRoom, hubVars, lockVars, senderVars,
            frameVars, LockInv
<1>1. ASSUME NEW s \in Streams, HandlerStep(s)
      PROVE  LockInv'
  <2>1. CASE Register(s)
    <3>1. \A p \in reading : CastRoom(p)' = CastRoom(p)
      BY <2>1 DEF Register, CastInv, Casting
    <3>2. \A p \in reading : CastRoom(p) \in Rooms
      BY DEF CastInv, Casting, InHub, Left, Frames
    <3>3. \A r \in Rooms : clients[r] \subseteq clients'[r]
      BY <2>1 DEF Register
    <3> QED
      BY <2>1, <3>1, <3>2, <3>3 DEF Register
  <2>2. CASE CountUp(s)
    BY <2>2 DEF CountUp, CastInv, Casting, InHub, Left
  <2>3. CASE SetOnline(s)
    BY <2>3 DEF SetOnline, CastInv, Casting, InHub, Left
  <2>4. CASE StartSender(s)
    BY <2>4 DEF StartSender, CastInv, Casting, InHub, Left
  <2>5. CASE ProcessIncoming(s)
    BY <2>5 DEF ProcessIncoming, CastInv, Casting, InHub, Left
  <2>6. CASE RecvError(s)
    BY <2>6 DEF RecvError, CastInv, Casting, InHub, Left
  <2>7. CASE WaitDone(s)
    BY <2>7 DEF WaitDone, CastInv, Casting, InHub, Left
  <2>8. CASE Unregister(s)
    <3>1. \A p \in reading : CastRoom(p)' = CastRoom(p)
      BY <2>8 DEF Unregister, CastInv, Casting
    <3>2. \A p \in reading : CastRoom(p) \in Rooms
      BY DEF CastInv, Casting, InHub, Left, Frames
    <3>3. \A p \in reading : CastRoom(p) # roomOf[s]
      BY <2>8 DEF Unregister, WriteLockFree
    <3>4. \A r \in Rooms : r # roomOf[s] => clients'[r] = clients[r]
      BY <2>8 DEF Unregister
    <3> QED
      BY <2>8, <3>1, <3>2, <3>3, <3>4 DEF Unregister
  <2>9. CASE CountDown(s)
    BY <2>9 DEF CountDown, CastInv, Casting, InHub, Left
  <2>10. CASE SetOffline(s)
    BY <2>10 DEF SetOffline, CastInv, Casting, InHub, Left
  <2> QED
    BY <1>1, <2>1, <2>2, <2>3, <2>4, <2>5, <2>6, <2>7, <2>8, <2>9, <2>10
    DEF HandlerStep
<1>2. ASSUME NEW s \in Streams, ClientStep(s)
      PROVE  LockInv'
  <2>1. CASE Open(s)
    BY <2>1 DEF Open, CastInv, Casting, InHub, Left
  <2>2. CASE RecvFirst(s)
    BY <2>2 DEF RecvFirst, CastInv, Casting, InHub, Left
  <2>3. CASE RefuseFirst(s)
    BY <2>3 DEF RefuseFirst, CastInv, Casting, InHub, Left
  <2>4. CASE Recv(s)
    BY <2>4 DEF Recv, CastInv, Casting, InHub, Left
  <2>5. CASE SendOK(s)
    BY <2>5 DEF SendOK
  <2>6. CASE CloseSend(s)
    BY <2>6 DEF CloseSend
  <2>7. CASE Cancel(s)
    BY <2>7 DEF Cancel
  <2> QED
    BY <1>2, <2>1, <2>2, <2>3, <2>4, <2>5, <2>6, <2>7
    DEF ClientStep
<1>3. ASSUME NEW s \in Streams, SenderExit(s)
      PROVE  LockInv'
  BY <1>3 DEF SenderExit
<1>4. ASSUME NEW p \in Procs, RLock(p)
      PROVE  LockInv'
  BY <1>4 DEF RLock, CastInv, Casting, InHub, Left
<1>5. ASSUME NEW p \in Procs, NEW c \in Streams, Deliver(p, c)
      PROVE  LockInv'
  BY <1>5 DEF Deliver
<1>6. ASSUME NEW p \in Procs, RUnlock(p)
      PROVE  LockInv'
  BY <1>6 DEF RUnlock, CastInv, Casting, InHub, Left
<1>7. ASSUME NEW c \in Calls, Call(c)
      PROVE  LockInv'
  BY <1>7, ProcsAssumption DEF Call, CastInv, Casting, InHub, Left
<1>8. CASE UNCHANGED vars
  BY <1>8 DEF vars
<1> QED
  BY <1>1, <1>2, <1>3, <1>4, <1>5, <1>6, <1>7, <1>8
  DEF Next, BroadcastStep

\* The channel and the sender goroutine follow the handler.
LEMMA LifeStep ==
  TypeOK /\ CastInv /\ RegisteredExactly /\ OneSubscriptionPerRoom
     /\ LockInv /\ LifeInv /\ [Next]_vars => LifeInv'
<1> SUFFICES ASSUME TypeOK, CastInv, RegisteredExactly, OneSubscriptionPerRoom,
                    LockInv, LifeInv, [Next]_vars
             PROVE  LifeInv'
  OBVIOUS
<1> USE DEF Procs, TypeOK, CastRoom, hubVars, lockVars, senderVars,
            frameVars, LifeInv
<1>1. ASSUME NEW s \in Streams, HandlerStep(s)
      PROVE  LifeInv'
  <2>1. CASE Register(s)
    BY <2>1 DEF Register, InHub, Left
  <2>2. CASE CountUp(s)
    BY <2>2 DEF CountUp, InHub, Left
  <2>3. CASE SetOnline(s)
    BY <2>3 DEF SetOnline, InHub, Left
  <2>4. CASE StartSender(s)
    BY <2>4 DEF StartSender, InHub, Left
  <2>5. CASE ProcessIncoming(s)
    BY <2>5 DEF ProcessIncoming, InHub, Left
  <2>6. CASE RecvError(s)
    BY <2>6 DEF RecvError, InHub, Left
  <2>7. CASE WaitDone(s)
    BY <2>7 DEF WaitDone, InHub, Left
  <2>8. CASE Unregister(s)
    <3>1. closed' = [closed EXCEPT ![s] = TRUE]
      BY <2>8, UnregisterEffect
    <3> QED
      BY <2>8, <3>1 DEF Unregister, InHub, Left
  <2>9. CASE CountDown(s)
    BY <2>9 DEF CountDown, InHub, Left
  <2>10. CASE SetOffline(s)
    BY <2>10 DEF SetOffline, InHub, Left
  <2> QED
    BY <1>1, <2>1, <2>2, <2>3, <2>4, <2>5, <2>6, <2>7, <2>8, <2>9, <2>10
    DEF HandlerStep
<1>2. ASSUME NEW s \in Streams, ClientStep(s)
      PROVE  LifeInv'
  <2>1. CASE Open(s)
    BY <2>1 DEF Open, InHub, Left
  <2>2. CASE RecvFirst(s)
    BY <2>2 DEF RecvFirst, InHub, Left
  <2>3. CASE RefuseFirst(s)
    BY <2>3 DEF RefuseFirst, InHub, Left
  <2>4. CASE Recv(s)
    BY <2>4 DEF Recv, InHub, Left
  <2>5. CASE SendOK(s)
    BY <2>5 DEF SendOK, InHub, Left
  <2>6. CASE CloseSend(s)
    BY <2>6 DEF CloseSend, InHub, Left
  <2>7. CASE Cancel(s)
    BY <2>7 DEF Cancel, InHub, Left
  <2> QED
    BY <1>2, <2>1, <2>2, <2>3, <2>4, <2>5, <2>6, <2>7
    DEF ClientStep
<1>3. ASSUME NEW s \in Streams, SenderExit(s)
      PROVE  LifeInv'
  BY <1>3 DEF SenderExit, SenderEnds, InHub, Left
<1>4. ASSUME NEW p \in Procs, RLock(p)
      PROVE  LifeInv'
  BY <1>4 DEF RLock, InHub, Left
<1>5. ASSUME NEW p \in Procs, NEW c \in Streams, Deliver(p, c)
      PROVE  LifeInv'
  <2>1. pc[c] \in InHub
    <3>1. CastRoom(p) \in Rooms /\ c \in clients[CastRoom(p)]
      BY <1>5 DEF Deliver, LockInv, CastInv, Casting, InHub, Left, Frames
    <3> QED
      BY <3>1 DEF RegisteredExactly
  <2>2. \A x \in Streams : x # c => queue'[x] = queue[x]
    BY <1>5 DEF Deliver
  <2> QED
    BY <1>5, <2>1, <2>2 DEF Deliver
<1>6. ASSUME NEW p \in Procs, RUnlock(p)
      PROVE  LifeInv'
  BY <1>6, ProcsAssumption DEF RUnlock, AfterCast, Casting, CastInv, InHub, Left
<1>7. ASSUME NEW c \in Calls, Call(c)
      PROVE  LifeInv'
  BY <1>7, ProcsAssumption DEF Call, InHub, Left
<1>8. CASE UNCHANGED vars
  BY <1>8 DEF vars, InHub, Left
<1> QED
  BY <1>1, <1>2, <1>3, <1>4, <1>5, <1>6, <1>7, <1>8
  DEF Next, BroadcastStep

\* The structural invariants hold in every reachable state.
THEOREM HubInvariant ==
  Spec => [](RegisteredExactly /\ OneSubscriptionPerRoom /\ LockInv /\ LifeInv)
<1>1. /\ RegisteredExactly /\ OneSubscriptionPerRoom /\ LockInv /\ LifeInv
      /\ TypeOK /\ CastInv /\ [Next]_vars
      => (RegisteredExactly /\ OneSubscriptionPerRoom /\ LockInv /\ LifeInv)'
  BY RegisteredStep, SubscriptionStep, LockStep, LifeStep
<1> QED
  BY <1>1, HubInit, TypeCorrect, PTL DEF Spec

\* No Broadcast ever sends on a closed channel: whatever streams come and go,
\* the pod never dies of that panic (hub.go 110 and 137).
THEOREM SendOnClosedNever == Spec => []NoSendOnClosed
<1>1. TypeOK /\ CastInv /\ RegisteredExactly /\ LockInv /\ LifeInv
        => NoSendOnClosed
  <2> SUFFICES ASSUME TypeOK, CastInv, RegisteredExactly, LockInv, LifeInv,
                      NEW p \in reading, NEW c \in todo[p]
               PROVE  ~closed[c]
    BY DEF NoSendOnClosed
  <2>1. p \in Procs /\ c \in Streams
    BY DEF TypeOK
  <2>2. CastRoom(p) \in Rooms
    BY <2>1 DEF CastInv, CastRoom, Casting, InHub, Left, Frames
  <2>3. c \in clients[CastRoom(p)]
    BY <2>1 DEF LockInv
  <2>4. pc[c] \in InHub
    BY <2>1, <2>2, <2>3 DEF RegisteredExactly
  <2> QED
    BY <2>1, <2>4 DEF LifeInv, InHub, Left
<1> QED
  BY <1>1, TypeCorrect, HubInvariant, PTL

\* A handler returns only after its stream's context was cancelled
\* (grpc_server.go 85-96 and 138).
THEOREM ReturnNeedsCancel == Spec => []ReturnsOnlyCancelled
<1>1. LifeInv => ReturnsOnlyCancelled
  BY DEF LifeInv, ReturnsOnlyCancelled
<1> QED
  BY <1>1, HubInvariant, PTL

\* Entries, client maps and broker subscriptions of the rooms always agree
\* (hub.go 92-100 and 108-117).
THEOREM SubscriptionsExact == Spec => []OneSubscriptionPerRoom
  BY HubInvariant, PTL

\* A stream is in its room's client map exactly from Register to Unregister,
\* and in no other room's (hub.go 90-117).
THEOREM RegisteredAlways == Spec => []RegisteredExactly
  BY HubInvariant, PTL

-----------------------------------------------------------------------------
(***************************************************************************)
(* What the streams of a pod receive: the hub delivers each author's        *)
(* messages in order, at most once and only to the message's room, and      *)
(* hence implements RoomFeed; the connection counter and the presence map   *)
(* are exact.                                                              *)
(***************************************************************************)

\* The variables that delivery is about.
deliveryVars == <<queue, last, posts, todo, roomOf>>

\* What the delivery invariants rest on.
HubInv == TypeOK /\ CastInv /\ RegisteredExactly /\ OneSubscriptionPerRoom
            /\ LockInv /\ LifeInv

DeliveryInv == NewestInv /\ RoomIsolation /\ FifoPerAuthor

\* Nothing is queued or handed over initially.
LEMMA DeliveryInit == Init => DeliveryInv
  BY DEF Init, DeliveryInv, NewestInv, RoomIsolation, FifoPerAuthor, Procs

\* A step that leaves the delivery variables alone preserves the invariant.
LEMMA DeliveryStutter ==
  DeliveryInv /\ UNCHANGED deliveryVars => DeliveryInv'
  BY DEF DeliveryInv, NewestInv, RoomIsolation, FifoPerAuthor, deliveryVars

\* Starting a Broadcast: every earlier message becomes older than the newest.
LEMMA DeliveryRLock ==
  ASSUME HubInv, DeliveryInv, NEW p \in Procs, RLock(p)
  PROVE  DeliveryInv'
<1> USE DEF HubInv, DeliveryInv
<1>1. CastRoom(p) \in Rooms /\ posts[p] \in Seq(Rooms)
  BY DEF RLock, TypeOK, CastInv, CastRoom, Casting, InHub, Left, Frames
<1>2. /\ posts' = [posts EXCEPT ![p] = Append(@, CastRoom(p))]
      /\ queue' = queue /\ last' = last /\ roomOf' = roomOf
      /\ p \notin reading
      /\ \A q \in Procs : q # p => todo'[q] = todo[q]
  BY DEF RLock, TypeOK, senderVars
<1>3. /\ Len(posts'[p]) = Len(posts[p]) + 1
      /\ \A i \in 1 .. Len(posts[p]) : posts'[p][i] = posts[p][i]
      /\ \A q \in Procs : q # p => posts'[q] = posts[q]
  BY <1>1, <1>2, AppendFacts DEF TypeOK
<1>4. \A s \in Streams, i \in Nat :
         i \in 1 .. Len(queue[s]) =>
            queue[s][i] \in Messages
  BY DEF TypeOK
<1>5. NewestInv'
  <2> SUFFICES ASSUME NEW s \in Streams, NEW q \in Procs
               PROVE  /\ last[s][q] <= Len(posts'[q])
                      /\ \A i \in 1 .. Len(queue[s]) :
                            queue[s][i].from = q
                              => queue[s][i].n <= Len(posts'[q])
                      /\ s \in todo'[q] =>
                            /\ last[s][q] < Len(posts'[q])
                            /\ \A i \in 1 .. Len(queue[s]) :
                                  queue[s][i].from = q
                                    => queue[s][i].n < Len(posts'[q])
    BY <1>2 DEF NewestInv
  <2>1. CASE q # p
    BY <1>2, <1>3, <2>1 DEF NewestInv
  <2>2. CASE q = p
    <3>1. last[s][p] \in Nat /\ Len(posts[p]) \in Nat
      BY <1>1 DEF TypeOK
    <3>2. \A i \in 1 .. Len(queue[s]) : queue[s][i].n \in Nat
      BY <1>4 DEF Messages, TypeOK
    <3>3. /\ last[s][p] <= Len(posts[p])
          /\ \A i \in 1 .. Len(queue[s]) :
                queue[s][i].from = p => queue[s][i].n <= Len(posts[p])
      BY DEF NewestInv
    <3> QED
      BY <1>3, <2>2, <3>1, <3>2, <3>3
  <2> QED
    BY <2>1, <2>2
<1>6. RoomIsolation'
  <2> SUFFICES \A s \in Streams : \A i \in 1 .. Len(queue'[s]) :
                  posts'[queue'[s][i].from][queue'[s][i].n] = roomOf'[s]
    BY DEF RoomIsolation
  <2> SUFFICES ASSUME NEW s \in Streams, NEW i \in 1 .. Len(queue[s])
               PROVE  posts'[queue[s][i].from][queue[s][i].n] = roomOf[s]
    BY <1>2
  <2>1. queue[s][i].from \in Procs /\ queue[s][i].n \in Nat \ {0}
    BY <1>4 DEF Messages
  <2>2. queue[s][i].n <= Len(posts[queue[s][i].from])
    BY <2>1 DEF NewestInv
  <2>3. posts[queue[s][i].from][queue[s][i].n] = roomOf[s]
    BY DEF RoomIsolation
  <2>4. CASE queue[s][i].from = p
    <3>1. queue[s][i].n \in 1 .. Len(posts[p])
      BY <1>1, <2>1, <2>2, <2>4
    <3> QED
      BY <1>3, <2>3, <2>4, <3>1
  <2>5. CASE queue[s][i].from # p
    BY <1>3, <2>1, <2>3, <2>5
  <2> QED
    BY <2>4, <2>5
<1>7. FifoPerAuthor'
  BY <1>2 DEF FifoPerAuthor
<1> QED
  BY <1>5, <1>6, <1>7

\* Delivering to one client: the message is newer than all the client has of
\* its author, and is for the client's room.
LEMMA DeliveryDeliver ==
  ASSUME HubInv, DeliveryInv, NEW p \in Procs, NEW c \in Streams, Deliver(p, c)
  PROVE  DeliveryInv'
<1> USE DEF HubInv, DeliveryInv
<1> DEFINE m == [from |-> p, n |-> Len(posts[p])]
<1>1. CASE Len(queue[c]) >= SendCap
  <2>1. queue' = queue /\ UNCHANGED <<last, posts, roomOf>>
    BY <1>1, LimitAssumption DEF Deliver, Offer, TypeOK, senderVars
  <2>2. \A q \in Procs : todo'[q] \subseteq todo[q]
    BY DEF Deliver, TypeOK
  <2> QED
    BY <2>1, <2>2 DEF NewestInv, RoomIsolation, FifoPerAuthor
<1>2. CASE Len(queue[c]) < SendCap
  <2>1. /\ queue' = [queue EXCEPT ![c] = Append(@, m)]
        /\ UNCHANGED <<last, posts, roomOf>>
        /\ c \in todo[p] /\ p \in reading
        /\ todo' = [todo EXCEPT ![p] = @ \ {c}]
    BY <1>2 DEF Deliver, Offer, senderVars
  <2>2. posts[p] \in Seq(Rooms) /\ posts[p] # <<>>
        /\ posts[p][Len(posts[p])] = CastRoom(p)
    BY <2>1 DEF CastInv, TypeOK
  <2>3. m \in Messages /\ queue[c] \in Seq(Messages)
    <3>1. Len(posts[p]) \in Nat \ {0}
      BY <2>2
    <3> QED
      BY <3>1 DEF Messages, TypeOK
  <2>4. /\ Len(queue'[c]) = Len(queue[c]) + 1
        /\ queue'[c][Len(queue[c]) + 1] = m
        /\ \A i \in 1 .. Len(queue[c]) : queue'[c][i] = queue[c][i]
    BY <2>1, <2>3, AppendFacts DEF TypeOK
  <2>5. \A s \in Streams : s # c => queue'[s] = queue[s]
    BY <2>1 DEF TypeOK
  <2>6. /\ last[c][p] < Len(posts[p])
        /\ \A i \in 1 .. Len(queue[c]) :
              queue[c][i].from = p => queue[c][i].n < Len(posts[p])
    BY <2>1 DEF NewestInv
  <2>7. CastRoom(p) \in Rooms /\ roomOf[c] = CastRoom(p)
    <3>1. CastRoom(p) \in Rooms
      BY <2>1 DEF CastInv, CastRoom, Casting, InHub, Left, Frames
    <3> QED
      BY <2>1, <3>1 DEF LockInv, RegisteredExactly
  <2>8. \A s \in Streams, q \in Procs : last[s][q] \in Nat
    BY DEF TypeOK
  <2>9. Len(queue[c]) \in Nat /\ Len(posts[p]) \in Nat
    BY <2>2, <2>3
  <2> DEFINE k == Len(queue[c])
  <2>10. NewestInv'
    <3> SUFFICES ASSUME NEW s \in Streams, NEW q \in Procs
                 PROVE  /\ last[s][q] <= Len(posts[q])
                        /\ \A i \in 1 .. Len(queue'[s]) :
                              queue'[s][i].from = q
                                => queue'[s][i].n <= Len(posts[q])
                        /\ s \in todo'[q] =>
                              /\ last[s][q] < Len(posts[q])
                              /\ \A i \in 1 .. Len(queue'[s]) :
                                    queue'[s][i].from = q
                                      => queue'[s][i].n < Len(posts[q])
      BY <2>1 DEF NewestInv
    <3>1. s \in todo'[q] => s \in todo[q] /\ (s = c => q # p)
      BY <2>1 DEF TypeOK
    <3>2. CASE s # c
      BY <2>5, <3>1, <3>2 DEF NewestInv
    <3>3. CASE s = c
      <4>1. \A i \in 1 .. Len(queue'[c]) :
               \/ i \in 1 .. k /\ queue'[c][i] = queue[c][i]
               \/ i = k + 1 /\ queue'[c][i].from = p
                            /\ queue'[c][i].n = Len(posts[p])
        BY <2>4, <2>9
      <4> QED
        BY <2>9, <3>1, <3>3, <4>1 DEF NewestInv
    <3> QED
      BY <3>2, <3>3
  <2>11. RoomIsolation'
    <3> SUFFICES ASSUME NEW s \in Streams, NEW i \in 1 .. Len(queue'[s])
                 PROVE  posts[queue'[s][i].from][queue'[s][i].n] = roomOf[s]
      BY <2>1 DEF RoomIsolation
    <3>1. CASE s # c
      BY <2>5, <3>1 DEF RoomIsolation
    <3>2. CASE s = c /\ i \in 1 .. k
      BY <2>4, <3>2 DEF RoomIsolation
    <3>3. CASE s = c /\ i = k + 1
      BY <2>2, <2>4, <2>7, <3>3
    <3> QED
      BY <2>4, <2>9, <3>1, <3>2, <3>3
  <2>12. FifoPerAuthor'
    <3> SUFFICES ASSUME NEW s \in Streams
                 PROVE  /\ \A i, j \in 1 .. Len(queue'[s]) :
                              i < j /\ queue'[s][i].from = queue'[s][j].from
                                => queue'[s][i].n < queue'[s][j].n
                        /\ \A i \in 1 .. Len(queue'[s]) :
                              last[s][queue'[s][i].from] < queue'[s][i].n
      BY <2>1 DEF FifoPerAuthor
    <3>1. CASE s # c
      BY <2>5, <3>1 DEF FifoPerAuthor
    <3>2. CASE s = c
      <4>1. ASSUME NEW i \in 1 .. k + 1, NEW j \in 1 .. k + 1,
                   i < j, queue'[c][i].from = queue'[c][j].from
            PROVE  queue'[c][i].n < queue'[c][j].n
        <5>1. i \in 1 .. k
          BY <2>9, <4>1
        <5>2. CASE j \in 1 .. k
          BY <2>4, <4>1, <5>1, <5>2 DEF FifoPerAuthor
        <5>3. CASE j = k + 1
          BY <2>4, <2>6, <4>1, <5>1, <5>3
        <5> QED
          BY <2>9, <5>2, <5>3
      <4>2. ASSUME NEW i \in 1 .. k + 1
            PROVE  last[c][queue'[c][i].from] < queue'[c][i].n
        <5>1. CASE i \in 1 .. k
          BY <2>4, <5>1 DEF FifoPerAuthor
        <5>2. CASE i = k + 1
          BY <2>4, <2>6, <5>2
        <5> QED
          BY <2>9, <5>1, <5>2
      <4> QED
        BY <2>4, <3>2, <4>1, <4>2
    <3> QED
      BY <3>1, <3>2
  <2> QED
    BY <2>10, <2>11, <2>12
<1> QED
  BY <1>1, <1>2, LimitAssumption DEF TypeOK

\* The sender goroutine hands over the oldest message: the rest is newer.
LEMMA DeliverySendOK ==
  ASSUME HubInv, DeliveryInv, NEW s \in Streams, SendOK(s)
  PROVE  DeliveryInv'
<1> USE DEF HubInv, DeliveryInv
<1> DEFINE h == Head(queue[s])
<1>1. /\ queue[s] \in Seq(Messages) /\ queue[s] # <<>>
      /\ queue' = [queue EXCEPT ![s] = Tail(@)]
      /\ last' = [last EXCEPT ![s][h.from] = h.n]
      /\ posts' = posts /\ todo' = todo /\ roomOf' = roomOf
  BY DEF SendOK, TypeOK, lockVars
<1>2. /\ h = queue[s][1] /\ h \in Messages
      /\ Len(queue'[s]) = Len(queue[s]) - 1
      /\ \A i \in 1 .. Len(queue'[s]) : queue'[s][i] = queue[s][i + 1]
  BY <1>1, TailFacts DEF TypeOK
<1>3. Len(queue[s]) \in Nat \ {0} /\ 1 \in 1 .. Len(queue[s])
  BY <1>1
<1>4. \A i \in 1 .. Len(queue'[s]) : i + 1 \in 1 .. Len(queue[s]) /\ 1 < i + 1
  BY <1>2, <1>3
<1>5. \A x \in Streams : x # s => queue'[x] = queue[x] /\ last'[x] = last[x]
  BY <1>1 DEF TypeOK
<1>6. /\ h.from \in Procs /\ h.n \in Nat
      /\ \A q \in Procs : last'[s][q] = IF q = h.from THEN h.n ELSE last[s][q]
  BY <1>1, <1>2 DEF TypeOK, Messages
<1>7. NewestInv'
  <2> SUFFICES ASSUME NEW x \in Streams, NEW q \in Procs
               PROVE  /\ last'[x][q] <= Len(posts[q])
                      /\ \A i \in 1 .. Len(queue'[x]) :
                            queue'[x][i].from = q
                              => queue'[x][i].n <= Len(posts[q])
                      /\ x \in todo[q] =>
                            /\ last'[x][q] < Len(posts[q])
                            /\ \A i \in 1 .. Len(queue'[x]) :
                                  queue'[x][i].from = q
                                    => queue'[x][i].n < Len(posts[q])
    BY <1>1 DEF NewestInv
  <2>1. CASE x # s
    BY <1>5, <2>1 DEF NewestInv
  <2>2. CASE x = s
    <3>1. /\ h.from = q => h.n <= Len(posts[q])
          /\ s \in todo[q] /\ h.from = q => h.n < Len(posts[q])
      BY <1>2, <1>3 DEF NewestInv
    <3>2. /\ last'[s][q] <= Len(posts[q])
          /\ s \in todo[q] => last'[s][q] < Len(posts[q])
      BY <1>6, <3>1 DEF NewestInv
    <3>3. ASSUME NEW i \in 1 .. Len(queue'[s]), queue'[s][i].from = q
          PROVE  /\ queue'[s][i].n <= Len(posts[q])
                 /\ s \in todo[q] => queue'[s][i].n < Len(posts[q])
      BY <1>2, <1>4, <3>3 DEF NewestInv
    <3> QED
      BY <2>2, <3>2, <3>3
  <2> QED
    BY <2>1, <2>2
<1>8. RoomIsolation'
  <2> SUFFICES ASSUME NEW x \in Streams, NEW i \in 1 .. Len(queue'[x])
               PROVE  posts[queue'[x][i].from][queue'[x][i].n] = roomOf[x]
    BY <1>1 DEF RoomIsolation
  <2>1. CASE x # s
    BY <1>5, <2>1 DEF RoomIsolation
  <2>2. CASE x = s
    BY <1>2, <1>4, <2>2 DEF RoomIsolation
  <2> QED
    BY <2>1, <2>2
<1>9. FifoPerAuthor'
  <2> SUFFICES ASSUME NEW x \in Streams
               PROVE  /\ \A i, j \in 1 .. Len(queue'[x]) :
                            i < j /\ queue'[x][i].from = queue'[x][j].from
                              => queue'[x][i].n < queue'[x][j].n
                      /\ \A i \in 1 .. Len(queue'[x]) :
                            last'[x][queue'[x][i].from] < queue'[x][i].n
    BY DEF FifoPerAuthor
  <2>1. CASE x # s
    BY <1>5, <2>1 DEF FifoPerAuthor
  <2>2. CASE x = s
    <3>1. ASSUME NEW i \in 1 .. Len(queue'[s]), NEW j \in 1 .. Len(queue'[s]),
                 i < j, queue'[s][i].from = queue'[s][j].from
          PROVE  queue'[s][i].n < queue'[s][j].n
      <4>1. i + 1 < j + 1
        BY <1>2, <1>3, <3>1
      <4>2. queue[s][i + 1].from = queue[s][j + 1].from
        BY <1>2, <3>1
      <4>3. queue[s][i + 1].n < queue[s][j + 1].n
        BY <1>4, <4>1, <4>2 DEF FifoPerAuthor
      <4> QED
        BY <1>2, <4>3
    <3>2. ASSUME NEW i \in 1 .. Len(queue'[s])
          PROVE  last'[s][queue'[s][i].from] < queue'[s][i].n
      <4>1. queue[s][i + 1] \in Messages
        BY <1>1, <1>4
      <4>2. queue'[s][i].from \in Procs
        BY <1>2, <4>1 DEF Messages
      <4>3. CASE queue'[s][i].from = h.from
        BY <1>2, <1>3, <1>4, <1>6, <4>3 DEF FifoPerAuthor
      <4>4. CASE queue'[s][i].from # h.from
        BY <1>2, <1>4, <1>6, <4>2, <4>4 DEF FifoPerAuthor
      <4> QED
        BY <4>3, <4>4
    <3> QED
      BY <2>2, <3>1, <3>2
  <2> QED
    BY <2>1, <2>2
<1> QED
  BY <1>7, <1>8, <1>9

\* The failed Send loses the oldest message: the rest keeps its order.
LEMMA DeliverySenderExit ==
  ASSUME HubInv, DeliveryInv, NEW s \in Streams, SenderExit(s)
  PROVE  DeliveryInv'
<1> USE DEF HubInv, DeliveryInv
<1>1. /\ queue[s] \in Seq(Messages)
      /\ queue' = [queue EXCEPT ![s] = IF @ = <<>> THEN @ ELSE Tail(@)]
      /\ last' = last /\ posts' = posts /\ todo' = todo /\ roomOf' = roomOf
  BY DEF SenderExit, TypeOK, lockVars
<1>2. CASE queue[s] = <<>>
  <2>1. queue' = queue
    BY <1>1, <1>2 DEF TypeOK
  <2> QED
    BY <1>1, <2>1, DeliveryStutter DEF deliveryVars
<1>3. CASE queue[s] # <<>>
  <2>1. /\ Len(queue'[s]) = Len(queue[s]) - 1
        /\ \A i \in 1 .. Len(queue'[s]) : queue'[s][i] = queue[s][i + 1]
    BY <1>1, <1>3, TailFacts DEF TypeOK
  <2>2. Len(queue[s]) \in Nat \ {0}
    BY <1>1, <1>3
  <2>3. \A i \in 1 .. Len(queue'[s]) : i + 1 \in 1 .. Len(queue[s])
    BY <2>1, <2>2
  <2>4. \A x \in Streams : x # s => queue'[x] = queue[x]
    BY <1>1 DEF TypeOK
  <2>5. NewestInv'
    BY <1>1, <2>1, <2>3, <2>4 DEF NewestInv
  <2>6. RoomIsolation'
    BY <1>1, <2>1, <2>3, <2>4 DEF RoomIsolation
  <2>7. FifoPerAuthor'
    <3>1. ASSUME NEW i \in 1 .. Len(queue'[s]), NEW j \in 1 .. Len(queue'[s]),
                 i < j, queue'[s][i].from = queue'[s][j].from
          PROVE  queue'[s][i].n < queue'[s][j].n
      <4>1. i + 1 < j + 1
        BY <2>1, <2>2, <3>1
      <4>2. queue[s][i + 1].from = queue[s][j + 1].from
        BY <2>1, <3>1
      <4>3. queue[s][i + 1].n < queue[s][j + 1].n
        BY <2>3, <4>1, <4>2 DEF FifoPerAuthor
      <4> QED
        BY <2>1, <4>3
    <3>2. \A i \in 1 .. Len(queue'[s]) :
             last'[s][queue'[s][i].from] < queue'[s][i].n
      BY <1>1, <2>1, <2>3 DEF FifoPerAuthor
    <3> QED
      BY <1>1, <2>4, <3>1, <3>2 DEF FifoPerAuthor
  <2> QED
    BY <2>5, <2>6, <2>7
<1> QED
  BY <1>2, <1>3

\* A stream gets its room, or a call its target, before anything is queued.
LEMMA DeliveryNewRoom ==
  ASSUME HubInv, DeliveryInv, NEW p \in Procs,
         roomOf' = [roomOf EXCEPT ![p] = roomOf'[p]],
         UNCHANGED <<queue, last, posts, todo>>,
         p \in Streams => queue[p] = <<>>
  PROVE  DeliveryInv'
<1> USE DEF HubInv, DeliveryInv
<1>1. NewestInv' /\ FifoPerAuthor'
  BY DEF NewestInv, FifoPerAuthor
<1>2. RoomIsolation'
  <2> SUFFICES ASSUME NEW s \in Streams, NEW i \in 1 .. Len(queue[s])
               PROVE  posts[queue[s][i].from][queue[s][i].n] = roomOf'[s]
    BY DEF RoomIsolation
  <2>1. s # p
    BY DEF TypeOK
  <2> QED
    BY <2>1 DEF RoomIsolation, TypeOK, Procs
<1> QED
  BY <1>1, <1>2

\* Every step preserves the delivery invariant.
LEMMA DeliveryStep == HubInv /\ DeliveryInv /\ [Next]_vars => DeliveryInv'
<1> SUFFICES ASSUME HubInv, DeliveryInv, [Next]_vars PROVE DeliveryInv'
  OBVIOUS
<1>1. ASSUME NEW s \in Streams, HandlerStep(s)
      PROVE  DeliveryInv'
  <2>1. CASE Register(s)
    BY <2>1, DeliveryStutter
    DEF Register, deliveryVars, lockVars, senderVars
  <2>2. CASE CountUp(s)
    BY <2>2, DeliveryStutter
    DEF CountUp, deliveryVars, lockVars, senderVars
  <2>3. CASE SetOnline(s)
    BY <2>3, DeliveryStutter
    DEF SetOnline, deliveryVars, lockVars, senderVars
  <2>4. CASE StartSender(s)
    BY <2>4, DeliveryStutter
    DEF StartSender, deliveryVars, lockVars, senderVars
  <2>5. CASE ProcessIncoming(s)
    BY <2>5, DeliveryStutter
    DEF ProcessIncoming, deliveryVars, lockVars, senderVars
  <2>6. CASE RecvError(s)
    BY <2>6, DeliveryStutter
    DEF RecvError, deliveryVars, lockVars, senderVars
  <2>7. CASE WaitDone(s)
    BY <2>7, DeliveryStutter
    DEF WaitDone, deliveryVars, lockVars, senderVars
  <2>8. CASE Unregister(s)
    BY <2>8, DeliveryStutter
    DEF Unregister, deliveryVars, lockVars, senderVars
  <2>9. CASE CountDown(s)
    BY <2>9, DeliveryStutter
    DEF CountDown, deliveryVars, lockVars, senderVars
  <2>10. CASE SetOffline(s)
    BY <2>10, DeliveryStutter
    DEF SetOffline, deliveryVars, lockVars, senderVars
  <2> QED
    BY <1>1, <2>1, <2>2, <2>3, <2>4, <2>5, <2>6, <2>7, <2>8, <2>9, <2>10
    DEF HandlerStep
<1>2. ASSUME NEW s \in Streams, ClientStep(s)
      PROVE  DeliveryInv'
  <2>1. CASE Open(s)
    BY <2>1, DeliveryStutter
    DEF Open, deliveryVars, lockVars, senderVars
  <2>2. CASE RecvFirst(s)
    <3>1. queue[s] = <<>>
      BY <2>2 DEF RecvFirst, HubInv, LifeInv, InHub, Left
    <3>2. roomOf' = [roomOf EXCEPT ![s] = roomOf'[s]]
      BY <2>2 DEF RecvFirst, HubInv, TypeOK, Procs
    <3> QED
      BY <2>2, <3>1, <3>2, DeliveryNewRoom
      DEF RecvFirst, Procs, lockVars, senderVars
  <2>3. CASE RefuseFirst(s)
    BY <2>3, DeliveryStutter
    DEF RefuseFirst, deliveryVars, lockVars, senderVars
  <2>4. CASE Recv(s)
    BY <2>4, DeliveryStutter
    DEF Recv, deliveryVars, lockVars, senderVars
  <2>5. CASE SendOK(s)
    BY <2>5, DeliverySendOK
  <2>6. CASE CloseSend(s)
    BY <2>6, DeliveryStutter
    DEF CloseSend, deliveryVars, lockVars, senderVars
  <2>7. CASE Cancel(s)
    BY <2>7, DeliveryStutter
    DEF Cancel, deliveryVars, lockVars, senderVars
  <2> QED
    BY <1>2, <2>1, <2>2, <2>3, <2>4, <2>5, <2>6, <2>7
    DEF ClientStep
<1>3. ASSUME NEW s \in Streams, SenderExit(s)
      PROVE  DeliveryInv'
  BY <1>3, DeliverySenderExit
<1>4. ASSUME NEW p \in Procs, RLock(p)
      PROVE  DeliveryInv'
  BY <1>4, DeliveryRLock
<1>5. ASSUME NEW p \in Procs, NEW c \in Streams, Deliver(p, c)
      PROVE  DeliveryInv'
  BY <1>5, DeliveryDeliver
<1>6. ASSUME NEW p \in Procs, RUnlock(p)
      PROVE  DeliveryInv'
  BY <1>6, DeliveryStutter
  DEF RUnlock, deliveryVars, lockVars, senderVars
<1>7. ASSUME NEW c \in Calls, Call(c)
      PROVE  DeliveryInv'
  <2>1. roomOf' = [roomOf EXCEPT ![c] = roomOf'[c]]
    BY <1>7 DEF Call, HubInv, TypeOK, Procs
  <2> QED
    BY <1>7, <2>1, ProcsAssumption, DeliveryNewRoom
    DEF Call, Procs, lockVars, senderVars
<1>8. CASE UNCHANGED vars
  BY <1>8, DeliveryStutter DEF vars, deliveryVars
<1> QED
  BY <1>1, <1>2, <1>3, <1>4, <1>5, <1>6, <1>7, <1>8
  DEF Next, BroadcastStep

\* The delivery invariant holds in every reachable state.
THEOREM DeliveryInvariant == Spec => [](HubInv /\ DeliveryInv)
<1>1. Spec => []HubInv
  BY TypeCorrect, HubInvariant, PTL DEF HubInv
<1> QED
  BY <1>1, DeliveryInit, DeliveryStep, PTL DEF Spec

\* Each stream gets the messages of any one author in the author's order and
\* none of them twice, for any interleaving of broadcasts, drops, registrations
\* and disconnections (hub.go 131-143, grpc_server.go 108-122).
THEOREM FifoPerAuthorAlways == Spec => []FifoPerAuthor
<1>1. DeliveryInv => FifoPerAuthor
  BY DEF DeliveryInv
<1> QED
  BY <1>1, DeliveryInvariant, PTL

\* Only messages of its own room ever wait for a stream (hub.go 134-141).
THEOREM RoomIsolationAlways == Spec => []RoomIsolation
<1>1. DeliveryInv => RoomIsolation
  BY DEF DeliveryInv
<1> QED
  BY <1>1, DeliveryInvariant, PTL

-----------------------------------------------------------------------------
(* The hub implements RoomFeed.                                            *)

\* Register is Join.
LEMMA FeedRegister ==
  ASSUME HubInv, NEW s \in Streams, Register(s)
  PROVE  \E r \in Rooms : Feed!Join(s, r)
<1> USE DEF HubInv
<1>1. /\ s \in Procs /\ pc[s] = "register"
      /\ pc' = [pc EXCEPT ![s] = "countUp"]
      /\ clients' = [clients EXCEPT ![roomOf[s]] = @ \cup {s}]
      /\ posts' = posts /\ last' = last
  BY DEF Register, Procs, lockVars, senderVars
<1>2. roomOf[s] \in Rooms
  BY <1>1 DEF CastInv
<1>3. \A r \in Rooms : s \notin clients[r]
  BY <1>1 DEF RegisteredExactly, InHub
<1>4. {x \in Streams : pc'[x] \in Left} = {x \in Streams : pc[x] \in Left}
  BY <1>1 DEF TypeOK, Left
<1>5. s \notin {x \in Streams : pc[x] \in Left}
  BY <1>1 DEF Left
<1> QED
  BY <1>1, <1>2, <1>3, <1>4, <1>5 DEF Feed!Join

\* Unregister is Leave.
LEMMA FeedUnregister ==
  ASSUME HubInv, NEW s \in Streams, Unregister(s)
  PROVE  \E r \in Rooms : Feed!Leave(s, r)
<1> USE DEF HubInv
<1>1. /\ s \in Procs /\ pc[s] = "unregister"
      /\ pc' = [pc EXCEPT ![s] = "countDown"]
      /\ posts' = posts /\ last' = last
  BY DEF Unregister, Procs, lockVars, senderVars
<1>2. /\ roomOf[s] \in Rooms /\ s \in clients[roomOf[s]]
      /\ clients' = [clients EXCEPT ![roomOf[s]] = @ \ {s}]
  BY UnregisterEffect
<1>3. {x \in Streams : pc'[x] \in Left}
        = {x \in Streams : pc[x] \in Left} \cup {s}
  BY <1>1 DEF TypeOK, Left
<1> QED
  BY <1>1, <1>2, <1>3 DEF Feed!Leave

\* RLock is Post.
LEMMA FeedRLock ==
  ASSUME HubInv, NEW p \in Procs, RLock(p)
  PROVE  \E r \in Rooms : Feed!Post(p, r)
<1> USE DEF HubInv
<1>1. CastRoom(p) \in Rooms
  BY DEF RLock, CastInv, CastRoom, Casting, InHub, Left, Frames
<1> QED
  BY <1>1 DEF RLock, Feed!Post, hubVars, senderVars

\* SendOK is Receive.
LEMMA FeedSendOK ==
  ASSUME HubInv, DeliveryInv, NEW s \in Streams, SendOK(s)
  PROVE  \E p \in Procs : \E n \in 1 .. Len(posts[p]) : Feed!Receive(s, p, n)
<1> USE DEF HubInv, DeliveryInv
<1> DEFINE h == Head(queue[s])
<1>1. /\ queue[s] \in Seq(Messages) /\ queue[s] # <<>>
      /\ sender[s] = "running"
      /\ last' = [last EXCEPT ![s][h.from] = h.n]
      /\ posts' = posts /\ pc' = pc /\ clients' = clients
  BY DEF SendOK, TypeOK, lockVars, hubVars
<1>2. h = queue[s][1] /\ 1 \in 1 .. Len(queue[s]) /\ h \in Messages
  BY <1>1, TailFacts
<1>3. h.from \in Procs /\ h.n \in Nat \ {0}
  BY <1>2 DEF Messages
<1>4. h.n <= Len(posts[h.from])
  BY <1>2, <1>3 DEF NewestInv
<1>5. h.n \in 1 .. Len(posts[h.from])
  BY <1>3, <1>4 DEF TypeOK
<1>6. last[s][h.from] < h.n
  BY <1>2 DEF FifoPerAuthor
<1>7. posts[h.from][h.n] = roomOf[s]
  BY <1>2 DEF RoomIsolation
<1>8. s \in clients[roomOf[s]]
  <2>1. pc[s] \in InHub /\ s \in Procs
    BY <1>1 DEF LifeInv, Procs
  <2> QED
    BY <2>1 DEF CastInv, RegisteredExactly
<1>9. Feed!Receive(s, h.from, h.n)
  BY <1>1, <1>6, <1>7, <1>8 DEF Feed!Receive
<1> QED
  BY <1>3, <1>5, <1>9

\* Every step of the hub is a step of RoomFeed or leaves it unchanged.
LEMMA FeedStep ==
  HubInv /\ DeliveryInv /\ [Next]_vars => [Feed!FeedNext]_(Feed!feedVars)
<1> SUFFICES ASSUME HubInv, DeliveryInv, [Next]_vars
             PROVE  Feed!FeedNext \/ UNCHANGED Feed!feedVars
  OBVIOUS
<1> USE DEF HubInv
<1>1. ASSUME NEW s \in Streams, HandlerStep(s)
      PROVE  Feed!FeedNext \/ UNCHANGED Feed!feedVars
  <2>1. CASE Register(s)
    BY <2>1, FeedRegister DEF Feed!FeedNext
  <2>2. CASE CountUp(s)
    BY <2>2
    DEF CountUp, Left, Feed!feedVars, TypeOK, Procs,
        hubVars, lockVars, senderVars
  <2>3. CASE SetOnline(s)
    BY <2>3
    DEF SetOnline, Left, Feed!feedVars, TypeOK, Procs,
        hubVars, lockVars, senderVars
  <2>4. CASE StartSender(s)
    BY <2>4
    DEF StartSender, Left, Feed!feedVars, TypeOK, Procs,
        hubVars, lockVars, senderVars
  <2>5. CASE ProcessIncoming(s)
    BY <2>5
    DEF ProcessIncoming, Left, Feed!feedVars, TypeOK, Procs,
        hubVars, lockVars, senderVars
  <2>6. CASE RecvError(s)
    BY <2>6
    DEF RecvError, Left, Feed!feedVars, TypeOK, Procs,
        hubVars, lockVars, senderVars
  <2>7. CASE WaitDone(s)
    BY <2>7
    DEF WaitDone, Left, Feed!feedVars, TypeOK, Procs,
        hubVars, lockVars, senderVars
  <2>8. CASE Unregister(s)
    BY <2>8, FeedUnregister DEF Feed!FeedNext
  <2>9. CASE CountDown(s)
    BY <2>9
    DEF CountDown, Left, Feed!feedVars, TypeOK, Procs,
        hubVars, lockVars, senderVars
  <2>10. CASE SetOffline(s)
    BY <2>10
    DEF SetOffline, Left, Feed!feedVars, TypeOK, Procs,
        hubVars, lockVars, senderVars
  <2> QED
    BY <1>1, <2>1, <2>2, <2>3, <2>4, <2>5, <2>6, <2>7, <2>8, <2>9, <2>10
    DEF HandlerStep
<1>2. ASSUME NEW s \in Streams, ClientStep(s)
      PROVE  Feed!FeedNext \/ UNCHANGED Feed!feedVars
  <2>1. CASE Open(s)
    BY <2>1
    DEF Open, Left, Feed!feedVars, TypeOK, Procs,
        hubVars, lockVars, senderVars
  <2>2. CASE RecvFirst(s)
    BY <2>2
    DEF RecvFirst, Left, Feed!feedVars, TypeOK, Procs,
        hubVars, lockVars, senderVars
  <2>3. CASE RefuseFirst(s)
    BY <2>3
    DEF RefuseFirst, Left, Feed!feedVars, TypeOK, Procs,
        hubVars, lockVars, senderVars
  <2>4. CASE Recv(s)
    BY <2>4
    DEF Recv, Left, Feed!feedVars, TypeOK, Procs,
        hubVars, lockVars, senderVars
  <2>5. CASE SendOK(s)
    BY <2>5, FeedSendOK DEF Feed!FeedNext
  <2>6. CASE CloseSend(s)
    BY <2>6 DEF CloseSend, Feed!feedVars, hubVars, lockVars, senderVars
  <2>7. CASE Cancel(s)
    BY <2>7 DEF Cancel, Feed!feedVars, hubVars, lockVars, senderVars
  <2> QED
    BY <1>2, <2>1, <2>2, <2>3, <2>4, <2>5, <2>6, <2>7
    DEF ClientStep
<1>3. ASSUME NEW s \in Streams, SenderExit(s)
      PROVE  Feed!FeedNext \/ UNCHANGED Feed!feedVars
  BY <1>3 DEF SenderExit, Feed!feedVars, hubVars, lockVars, senderVars
<1>4. ASSUME NEW p \in Procs, RLock(p)
      PROVE  Feed!FeedNext \/ UNCHANGED Feed!feedVars
  BY <1>4, FeedRLock DEF Feed!FeedNext
<1>5. ASSUME NEW p \in Procs, NEW c \in Streams, Deliver(p, c)
      PROVE  Feed!FeedNext \/ UNCHANGED Feed!feedVars
  BY <1>5 DEF Deliver, Feed!feedVars, hubVars, lockVars, senderVars
<1>6. ASSUME NEW p \in Procs, RUnlock(p)
      PROVE  Feed!FeedNext \/ UNCHANGED Feed!feedVars
  BY <1>6
  DEF RUnlock, AfterCast, Casting, CastInv, LifeInv, Left, Feed!feedVars, TypeOK, Procs,
      hubVars, lockVars, senderVars
<1>7. ASSUME NEW c \in Calls, Call(c)
      PROVE  Feed!FeedNext \/ UNCHANGED Feed!feedVars
  BY <1>7, ProcsAssumption
  DEF Call, Left, Feed!feedVars, TypeOK, Procs,
      hubVars, lockVars, senderVars
<1>8. CASE UNCHANGED vars
  BY <1>8 DEF vars, Feed!feedVars
<1> QED
  BY <1>1, <1>2, <1>3, <1>4, <1>5, <1>6, <1>7, <1>8
  DEF Next, BroadcastStep

\* The hub implements RoomFeed: at-most-once, in-order delivery of each
\* author's messages to current members of the room, for all instances.
THEOREM HubImplementsFeed == Spec => ImplementsFeed
<1>1. Init => Feed!FeedInit
  BY DEF Init, Feed!FeedInit, Left, Procs
<1> QED
  BY <1>1, FeedStep, DeliveryInvariant, PTL
  DEF Spec, ImplementsFeed, Feed!FeedSpec

-----------------------------------------------------------------------------
(* The connection counter and the presence map.                            *)

\* A step that moves one stream in or out of a set of handler states changes
\* the number of streams there by one.
LEMMA CountMove ==
  ASSUME NEW s \in Streams, NEW A, NEW B,
         A \subseteq Streams, B = A \cup {s}, s \notin A
  PROVE  /\ Cardinality(A) \in Nat
         /\ Cardinality(B) = Cardinality(A) + 1
<1>1. IsFiniteSet(A)
  BY ProcsAssumption, FS_Subset
<1> QED
  BY <1>1, FS_AddElement, FS_CardinalityType

\* Every step preserves the exactness of the connection counter.
LEMMA ConnCountStep ==
  TypeOK /\ CastInv /\ LifeInv /\ ConnCountExact /\ [Next]_vars
     => ConnCountExact'
<1> SUFFICES ASSUME TypeOK, CastInv, LifeInv, ConnCountExact, [Next]_vars
             PROVE  ConnCountExact'
  OBVIOUS
<1> DEFINE C == {x \in Streams : pc[x] \in Counted}
<1>1. ASSUME NEW s \in Streams, CountUp(s)
      PROVE  ConnCountExact'
  <2>1. C' = C \cup {s} /\ s \notin C /\ C \subseteq Streams
    BY <1>1 DEF CountUp, TypeOK, Procs, Counted, InHub
  <2>2. Cardinality(C') = Cardinality(C) + 1
    BY <2>1, CountMove
  <2> QED
    BY <1>1, <2>2 DEF CountUp, ConnCountExact
<1>2. ASSUME NEW s \in Streams, CountDown(s)
      PROVE  ConnCountExact'
  <2>1. C = C' \cup {s} /\ s \notin C' /\ C' \subseteq Streams
    BY <1>2 DEF CountDown, TypeOK, Procs, Counted, InHub
  <2>2. Cardinality(C') \in Nat /\ Cardinality(C) = Cardinality(C') + 1
    BY <2>1, CountMove
  <2> QED
    BY <1>2, <2>2 DEF CountDown, ConnCountExact
<1>3. ASSUME C' = C, connCnt' = connCnt
      PROVE  ConnCountExact'
  BY <1>3 DEF ConnCountExact
<1>4. ASSUME NEW s \in Streams, HandlerStep(s), ~CountUp(s), ~CountDown(s)
      PROVE  C' = C /\ connCnt' = connCnt
  BY <1>4
  DEF HandlerStep, Register, SetOnline, StartSender, ProcessIncoming,
      RecvError, WaitDone, Unregister, SetOffline, TypeOK, Procs, Counted, InHub
<1>5. ASSUME NEW s \in Streams, ClientStep(s) \/ SenderExit(s)
      PROVE  C' = C /\ connCnt' = connCnt
  BY <1>5
  DEF ClientStep, Open, RecvFirst, RefuseFirst, Recv, SendOK, CloseSend,
      Cancel, SenderExit, TypeOK, Procs, Counted, InHub
<1>6. ASSUME NEW p \in Procs, BroadcastStep(p)
      PROVE  C' = C /\ connCnt' = connCnt
  <2>1. CASE RUnlock(p)
    BY <2>1
    DEF RUnlock, AfterCast, CastInv, LifeInv, Casting, TypeOK, Counted, InHub
  <2>2. CASE ~RUnlock(p)
    BY <1>6, <2>2 DEF BroadcastStep, RLock, Deliver
  <2> QED
    BY <2>1, <2>2
<1>7. ASSUME NEW c \in Calls, Call(c)
      PROVE  C' = C /\ connCnt' = connCnt
  BY <1>7, ProcsAssumption DEF Call, TypeOK, Procs, Counted, InHub
<1>8. CASE UNCHANGED vars
  BY <1>3, <1>8 DEF vars
<1> QED
  BY <1>1, <1>2, <1>3, <1>4, <1>5, <1>6, <1>7, <1>8 DEF Next

\* The connection counter, kept outside the shard locks, always equals the
\* number of streams between its two updates; it never goes negative and no
\* connection is lost or counted twice (hub.go 102, 119 and 125).
THEOREM ConnCountAlwaysExact == Spec => []ConnCountExact
<1>1. Init => ConnCountExact
  <2> SUFFICES ASSUME Init PROVE ConnCountExact
    OBVIOUS
  <2>1. {x \in Streams : pc[x] \in Counted} = {}
    BY DEF Init, Procs, Counted, InHub
  <2> QED
    BY <2>1, FS_EmptySet DEF Init, ConnCountExact
<1> QED
  BY <1>1, ConnCountStep, TypeCorrect, HubInvariant, PTL DEF Spec

\* Every step preserves that an online user has an announced stream.
LEMMA NoGhostStep ==
  TypeOK /\ CastInv /\ LifeInv /\ NoGhostOnline /\ [Next]_vars
     => NoGhostOnline'
<1> SUFFICES ASSUME TypeOK, CastInv, LifeInv, NoGhostOnline, [Next]_vars
             PROVE  NoGhostOnline'
  OBVIOUS
<1>1. ASSUME NEW s \in Streams, SetOnline(s)
      PROVE  NoGhostOnline'
  <2>1. \A x \in Streams : pc[x] \in Announced => pc'[x] \in Announced
    BY <1>1 DEF SetOnline, TypeOK, Procs, Announced
  <2>2. pc'[s] \in Announced /\ UserOf[s] \in Users
    BY <1>1, UserAssumption DEF SetOnline, TypeOK, Procs, Announced
  <2> QED
    BY <1>1, <2>1, <2>2 DEF SetOnline, NoGhostOnline, TypeOK
<1>2. ASSUME NEW s \in Streams, SetOffline(s)
      PROVE  NoGhostOnline'
  <2>1. \A x \in Streams : x # s => pc'[x] = pc[x]
    BY <1>2 DEF SetOffline, TypeOK, Procs
  <2> QED
    BY <1>2, <2>1, UserAssumption DEF SetOffline, NoGhostOnline, TypeOK
<1>3. ASSUME \A x \in Streams : pc[x] \in Announced => pc'[x] \in Announced,
             online' = online
      PROVE  NoGhostOnline'
  BY <1>3 DEF NoGhostOnline
<1>4. ASSUME NEW s \in Streams, HandlerStep(s), ~SetOnline(s), ~SetOffline(s)
      PROVE  NoGhostOnline'
  BY <1>3, <1>4
  DEF HandlerStep, Register, CountUp, StartSender, ProcessIncoming, RecvError,
      WaitDone, Unregister, CountDown, TypeOK, Procs, Announced
<1>5. ASSUME NEW s \in Streams, ClientStep(s) \/ SenderExit(s)
      PROVE  NoGhostOnline'
  BY <1>3, <1>5
  DEF ClientStep, Open, RecvFirst, RefuseFirst, Recv, SendOK, CloseSend,
      Cancel, SenderExit, TypeOK, Procs, Announced
<1>6. ASSUME NEW p \in Procs, BroadcastStep(p)
      PROVE  NoGhostOnline'
  <2>1. CASE RUnlock(p)
    BY <1>3, <2>1
    DEF RUnlock, AfterCast, CastInv, LifeInv, Casting, TypeOK, Announced
  <2>2. CASE ~RUnlock(p)
    BY <1>3, <1>6, <2>2 DEF BroadcastStep, RLock, Deliver
  <2> QED
    BY <2>1, <2>2
<1>7. ASSUME NEW c \in Calls, Call(c)
      PROVE  NoGhostOnline'
  BY <1>3, <1>7, ProcsAssumption DEF Call, TypeOK, Procs
<1>8. CASE UNCHANGED vars
  BY <1>3, <1>8 DEF vars
<1> QED
  BY <1>1, <1>2, <1>4, <1>5, <1>6, <1>7, <1>8 DEF Next

\* A user shown online by the in-process presence map has a stream that
\* announced itself and has not signed off (grpc_server.go 88 and 99).
THEOREM NoGhostOnlineAlways == Spec => []NoGhostOnline
<1>1. Init => NoGhostOnline
  BY DEF Init, NoGhostOnline
<1> QED
  BY <1>1, NoGhostStep, TypeCorrect, HubInvariant, PTL DEF Spec

=============================================================================
