------------------------ MODULE RedisPresenceProofs ------------------------
(***************************************************************************)
(* Type correctness of RedisPresence, its bound on stale presence, and that *)
(* open streams keep their users online, for any number of streams and      *)
(* users, any TTL and refresh period, and with every Redis command failing  *)
(* at will.                                                                 *)
(***************************************************************************)
EXTENDS RedisPresence, TLAPS

\* Heartbeats belong to handlers that started, and no time is counted as
\* absence while the user has a live stream.
ClockInv ==
    /\ \A s \in Streams : beat[s] # NoBeat => pc[s] # "idle"
    /\ \A u \in Users : LiveUser(u) => gone[u] = 0

PresenceInv == TypeOK /\ ClockInv /\ StaleAtMostTTL

\* The heartbeat of a live stream runs, and the key outlives the time until
\* it fires next.
KeyInv ==
    /\ \A s \in Streams : Live(s) => beat[s] # NoBeat
    /\ \A s \in Streams :
          pc[s] = "open" /\ ctx[s] = "live" /\ UserOf[s] \notin upset
             => ttl[UserOf[s]] > beat[s]

\* Recount, as each step uses it: the history stays in range, is zero for
\* every user with a live stream, and keeps its value for the others.
LEMMA RecountRange ==
    ASSUME gone \in [Users -> 0 .. TTL], Recount
    PROVE  /\ gone' \in [Users -> 0 .. TTL]
           /\ \A u \in Users : LiveUser(u)' => gone'[u] = 0
           /\ \A u \in Users : ~LiveUser(u)' => gone'[u] = gone[u]
  BY TimeAssumption DEF Recount

\* The initial state satisfies the invariant: no key, no heartbeat.
LEMMA PresenceInit == Init => PresenceInv
  BY TimeAssumption, UserAssumption
  DEF Init, PresenceInv, TypeOK, ClockInv, StaleAtMostTTL, IsOnline, LiveUser,
      Live, NoBeat, PCs

\* Every step of a handler, a heartbeat, a client, a pod or the clock
\* preserves the types.
LEMMA TypeStep == TypeOK /\ [Next]_vars => TypeOK'
<1> SUFFICES ASSUME TypeOK, [Next]_vars PROVE TypeOK'
  OBVIOUS
<1> USE TimeAssumption, UserAssumption DEF TypeOK, PCs, NoBeat
<1>1. ASSUME NEW s \in Streams, Connect(s) PROVE TypeOK'
  BY <1>1, RecountRange DEF Connect
<1>2. ASSUME NEW s \in Streams, SetOnline(s) PROVE TypeOK'
  BY <1>2 DEF SetOnline, NoEffect
<1>3. ASSUME NEW s \in Streams, Heartbeat(s) PROVE TypeOK'
  BY <1>3 DEF Heartbeat, NoEffect
<1>4. ASSUME NEW s \in Streams, HeartbeatStop(s) PROVE TypeOK'
  BY <1>4 DEF HeartbeatStop
<1>5. ASSUME NEW s \in Streams, SetLastSeen(s) PROVE TypeOK'
  BY <1>5 DEF SetLastSeen
<1>6. ASSUME NEW s \in Streams, SetOffline(s) PROVE TypeOK'
  BY <1>6 DEF SetOffline
<1>7. ASSUME NEW s \in Streams, Cancel(s) PROVE TypeOK'
  BY <1>7, RecountRange DEF Cancel
<1>8. ASSUME NEW s \in Streams, Crash(s) PROVE TypeOK'
  BY <1>8, RecountRange DEF Crash
<1>9. CASE Tick
  BY <1>9 DEF Tick
<1>10. CASE UNCHANGED vars
  BY <1>10 DEF vars
<1>11. QED
  BY <1>1, <1>2, <1>3, <1>4, <1>5, <1>6, <1>7, <1>8, <1>9, <1>10
  DEF Next, HandlerStep

\* Every step preserves the clock's bookkeeping and the bound.
LEMMA BoundStep ==
    PresenceInv /\ [Next]_vars => ClockInv' /\ StaleAtMostTTL'
<1> SUFFICES ASSUME PresenceInv, [Next]_vars
             PROVE  ClockInv' /\ StaleAtMostTTL'
  OBVIOUS
<1> USE TimeAssumption, UserAssumption
    DEF PresenceInv, TypeOK, ClockInv, StaleAtMostTTL, IsOnline, NoBeat
<1>1. ASSUME NEW s \in Streams, Connect(s) PROVE ClockInv' /\ StaleAtMostTTL'
  <2>1. \A u \in Users : LiveUser(u) => LiveUser(u)'
    BY <1>1 DEF Connect, LiveUser, Live
  <2>2. QED
    BY <1>1, <2>1, RecountRange DEF Connect
<1>2. ASSUME NEW s \in Streams, SetOnline(s)
      PROVE  ClockInv' /\ StaleAtMostTTL'
  <2>1. \A u \in Users : LiveUser(u)' <=> LiveUser(u)
    BY <1>2 DEF SetOnline, LiveUser, Live
  <2>2. ctx[s] = "live" => LiveUser(UserOf[s])
    BY <1>2 DEF SetOnline, LiveUser, Live
  <2>3. QED
    BY <1>2, <2>1, <2>2 DEF SetOnline, NoEffect
<1>3. ASSUME NEW s \in Streams, Heartbeat(s)
      PROVE  ClockInv' /\ StaleAtMostTTL'
  <2>1. \A u \in Users : LiveUser(u)' <=> LiveUser(u)
    BY <1>3 DEF Heartbeat, LiveUser, Live
  <2>2. ctx[s] = "live" => LiveUser(UserOf[s])
    BY <1>3 DEF Heartbeat, LiveUser, Live
  <2>3. QED
    BY <1>3, <2>1, <2>2 DEF Heartbeat, NoEffect
<1>4. ASSUME NEW s \in Streams, HeartbeatStop(s)
      PROVE  ClockInv' /\ StaleAtMostTTL'
  BY <1>4 DEF HeartbeatStop, LiveUser, Live
<1>5. ASSUME NEW s \in Streams, SetLastSeen(s)
      PROVE  ClockInv' /\ StaleAtMostTTL'
  BY <1>5 DEF SetLastSeen, LiveUser, Live
<1>6. ASSUME NEW s \in Streams, SetOffline(s)
      PROVE  ClockInv' /\ StaleAtMostTTL'
  <2>1. \A u \in Users : LiveUser(u)' <=> LiveUser(u)
    BY <1>6 DEF SetOffline, LiveUser, Live
  <2>2. QED
    BY <1>6, <2>1 DEF SetOffline
<1>7. ASSUME NEW s \in Streams, Cancel(s) PROVE ClockInv' /\ StaleAtMostTTL'
  BY <1>7, RecountRange DEF Cancel
<1>8. ASSUME NEW s \in Streams, Crash(s) PROVE ClockInv' /\ StaleAtMostTTL'
  BY <1>8, RecountRange DEF Crash
<1>9. CASE Tick
  <2>1. \A u \in Users : LiveUser(u)' <=> LiveUser(u)
    BY <1>9 DEF Tick, LiveUser, Live
  <2>2. QED
    BY <1>9, <2>1 DEF Tick
<1>10. CASE UNCHANGED vars
  BY <1>10 DEF vars, LiveUser, Live
<1>11. QED
  BY <1>1, <1>2, <1>3, <1>4, <1>5, <1>6, <1>7, <1>8, <1>9, <1>10
  DEF Next, HandlerStep

\* The inductive invariant holds in every reachable state.
THEOREM PresenceInvariant == Spec => []PresenceInv
<1>1. PresenceInv /\ [Next]_vars => PresenceInv'
  BY TypeStep, BoundStep DEF PresenceInv
<1>2. QED
  BY <1>1, PresenceInit, PTL DEF Spec

\* chat:presence:<user> never outlives its TTL, and all variables keep their
\* types.
THEOREM PresenceTypeCorrect == Spec => []TypeOK
<1>1. PresenceInv => TypeOK
  BY DEF PresenceInv
<1>2. QED
  BY <1>1, PresenceInvariant, PTL

\* A user whose last stream is gone stops being shown online after TTL at the
\* latest, whatever crashes and whichever commands fail (presence.go 17-19).
THEOREM StalePresenceBounded == Spec => []StaleAtMostTTL
<1>1. PresenceInv => StaleAtMostTTL
  BY DEF PresenceInv
<1>2. QED
  BY <1>1, PresenceInvariant, PTL

\* Every step keeps the key ahead of the next heartbeat: SET and EXPIRE give it
\* the TTL, which is longer than the refresh period, and time waits for a
\* heartbeat that is due.
LEMMA KeyStep == TypeOK /\ KeyInv /\ [Next]_vars => KeyInv'
<1> SUFFICES ASSUME TypeOK, KeyInv, [Next]_vars PROVE KeyInv'
  OBVIOUS
<1> USE TimeAssumption, UserAssumption DEF TypeOK, KeyInv, Live, NoBeat
<1>1. ASSUME NEW s \in Streams, Connect(s) PROVE KeyInv'
  BY <1>1 DEF Connect
<1>2. ASSUME NEW s \in Streams, SetOnline(s) PROVE KeyInv'
  BY <1>2 DEF SetOnline, NoEffect
<1>3. ASSUME NEW s \in Streams, Heartbeat(s) PROVE KeyInv'
  BY <1>3 DEF Heartbeat, NoEffect
<1>4. ASSUME NEW s \in Streams, HeartbeatStop(s) PROVE KeyInv'
  BY <1>4 DEF HeartbeatStop
<1>5. ASSUME NEW s \in Streams, SetLastSeen(s) PROVE KeyInv'
  BY <1>5 DEF SetLastSeen
<1>6. ASSUME NEW s \in Streams, SetOffline(s) PROVE KeyInv'
  BY <1>6 DEF SetOffline
<1>7. ASSUME NEW s \in Streams, Cancel(s) PROVE KeyInv'
  BY <1>7 DEF Cancel
<1>8. ASSUME NEW s \in Streams, Crash(s) PROVE KeyInv'
  BY <1>8 DEF Crash
<1>9. CASE Tick
  BY <1>9 DEF Tick
<1>10. CASE UNCHANGED vars
  BY <1>10 DEF vars
<1>11. QED
  BY <1>1, <1>2, <1>3, <1>4, <1>5, <1>6, <1>7, <1>8, <1>9, <1>10
  DEF Next, HandlerStep

\* A user with an open stream is shown online, unless a SET or EXPIRE failed or
\* another stream of the user ended since the key was set (presence.go 66-111).
THEOREM OpenAlwaysOnline == Spec => []OpenStaysOnline
<1>1. Init => KeyInv
  BY UserAssumption DEF Init, KeyInv, Live
<1>2. TypeOK /\ KeyInv => OpenStaysOnline
  BY TimeAssumption, UserAssumption
  DEF TypeOK, KeyInv, OpenStaysOnline, IsOnline, NoBeat
<1>3. QED
  BY <1>1, <1>2, KeyStep, PresenceTypeCorrect, PTL DEF Spec

=============================================================================
