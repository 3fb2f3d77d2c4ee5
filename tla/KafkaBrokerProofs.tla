------------------------- MODULE KafkaBrokerProofs -------------------------
(***************************************************************************)
(* Type correctness of KafkaBroker and that the group's offset covers only  *)
(* records that were dealt with, for any number of pods, records, channels, *)
(* crashes and moves of the partition.                                     *)
(***************************************************************************)
EXTENDS KafkaBroker, TLAPS

Done == dispatched \cup skipped

\* A reader's position lies behind records that are done, but for the one its
\* consumer holds and has not dispatched yet.
PositionInv ==
    \A p \in Pods : \A m \in Records :
        m < pos[p] => m \in Done \/ (m = cur[p] /\ pc[p] \in {"lookup", "send"})

\* What a consumer holds comes after records that are done, and is done itself
\* when it is about to be committed.
HeldInv ==
    \A p \in Pods :
        /\ pc[p] # "fetch" => cur[p] \in Records
        /\ pc[p] # "fetch" => \A m \in Records : m < cur[p] => m \in Done
        /\ pc[p] = "commit" => cur[p] \in Done

\* An offset waiting to be committed lies behind records that are done.
StashInv ==
    \A p \in Pods : \A m \in Records : m < stash[p] => m \in Done

KafkaInv == TypeOK /\ PositionInv /\ HeldInv /\ StashInv /\ CommittedCovered

\* What the actions need of the ranges.
LEMMA Ranges ==
    /\ 0 \in RecordOrNone /\ 0 \in GenOrNone /\ 0 \in Offsets /\ 0 \in Loads
    /\ 0 \in MoveCounts /\ 1 \in Positions
    /\ \A g \in GenOrNone : g < MaxGens => g + 1 \in GenOrNone
    /\ \A g \in GenOrNone : g # 0 => g \in Gens
    /\ \A n \in Loads : n < ChanCap => n + 1 \in Loads
    /\ \A n \in Loads : n > 0 => n - 1 \in Loads
    /\ \A n \in MoveCounts : n < MaxMoves => n + 1 \in MoveCounts
    /\ \A l \in RecordOrNone :
          /\ l < MaxRecords => l + 1 \in RecordOrNone
          /\ l + 1 \in Positions /\ l + 1 \in Offsets /\ 1 .. l \subseteq Records
    /\ \A n \in Positions, l \in RecordOrNone :
          n <= l => n \in RecordOrNone /\ n + 1 \in Positions
    /\ \A n \in Offsets : n # 0 => n \in Positions
  BY BoundAssumption
  DEF Records, Gens, RecordOrNone, GenOrNone, Positions, Offsets, Loads,
      MoveCounts

\* What lies before the successor of a record.
LEMMA BeforeSuccessor ==
    \A m, n \in Records : m < n + 1 => m < n \/ m = n
  BY DEF Records

\* The initial state satisfies the invariant: nothing written, nothing held.
LEMMA KafkaInit == Init => KafkaInv
<1> SUFFICES ASSUME Init PROVE KafkaInv
  OBVIOUS
<1>1. TypeOK
  BY Ranges DEF Init, TypeOK, PCs
<1>2. PositionInv /\ HeldInv /\ StashInv /\ CommittedCovered
  BY BoundAssumption
  DEF Init, PositionInv, HeldInv, StashInv, CommittedCovered, Records
<1>3. QED
  BY <1>1, <1>2 DEF KafkaInv

\* Every step of the hub, a consumer, a pod or the group preserves the types.
LEMMA KafkaTypeStep == TypeOK /\ HeldInv /\ [Next]_vars => TypeOK'
<1> SUFFICES ASSUME TypeOK, HeldInv, [Next]_vars PROVE TypeOK'
  OBVIOUS
<1> USE Ranges DEF TypeOK, PCs, chanVars, kafkaVars
<1>1. ASSUME NEW p \in Pods, Subscribe(p) PROVE TypeOK'
  BY <1>1 DEF Subscribe
<1>2. ASSUME NEW p \in Pods, Cancel(p) PROVE TypeOK'
  BY <1>2 DEF Cancel
<1>3. ASSUME NEW p \in Pods, NEW g \in Gens, Forward(p, g) PROVE TypeOK'
  BY <1>3 DEF Forward
<1>4. CASE Publish
  BY <1>4 DEF Publish
<1>5. ASSUME NEW p \in Pods, Fetch(p) PROVE TypeOK'
  BY <1>5 DEF Fetch
<1>6. ASSUME NEW p \in Pods, Lookup(p) PROVE TypeOK'
  BY <1>6 DEF Lookup
<1>7. ASSUME NEW p \in Pods, Send(p) PROVE TypeOK'
  <2>1. cur[p] \in Records
    BY <1>7 DEF Send, HeldInv
  <2>2. queued' \in [Pods -> [Gens -> Loads]]
    <3>1. CASE snap[p] # 0 /\ queued[p][snap[p]] < ChanCap
      <4>1. snap[p] \in Gens
        BY <3>1
      <4>2. queued[p][snap[p]] + 1 \in Loads
        BY <3>1, <4>1
      <4>3. [queued[p] EXCEPT ![snap[p]] = @ + 1] \in [Gens -> Loads]
        BY <4>1, <4>2
      <4>4. queued' = [queued EXCEPT ![p] =
                         [queued[p] EXCEPT ![snap[p]] = @ + 1]]
        BY <1>7, <3>1, Zenon DEF Send
      <4>5. QED
        BY <4>3, <4>4
    <3>2. CASE ~(snap[p] # 0 /\ queued[p][snap[p]] < ChanCap)
      BY <1>7, <3>2 DEF Send
    <3>3. QED
      BY <3>1, <3>2
  <2>3. QED
    BY <1>7, <2>1, <2>2 DEF Send
<1>8. ASSUME NEW p \in Pods, Commit(p) PROVE TypeOK'
  BY <1>8 DEF Commit
<1>9. ASSUME NEW p \in Pods, PodDown(p), moves' \in MoveCounts PROVE TypeOK'
  BY <1>9 DEF PodDown
<1>10. ASSUME NEW p \in Pods, Assign(p) PROVE TypeOK'
  BY <1>10 DEF Assign
<1>11. ASSUME NEW p \in Pods, Notice(p) PROVE TypeOK'
  BY <1>11 DEF Notice
<1>12. ASSUME NEW p \in Pods, Flush(p) PROVE TypeOK'
  BY <1>12 DEF Flush
<1>13. CASE UNCHANGED vars
  BY <1>13 DEF vars
<1>14. ASSUME NEW p \in Pods, Panic(p) \/ Crash(p) PROVE TypeOK'
  BY <1>9, <1>14 DEF Panic, Crash
<1>15. QED
  BY <1>1, <1>2, <1>3, <1>4, <1>5, <1>6, <1>7, <1>8, <1>10, <1>11, <1>12,
     <1>13, <1>14
  DEF Next, ConsumerStep

\* Every step preserves what positions, held records and offsets say of the
\* records that are done.
LEMMA KafkaOffsetStep == KafkaInv /\ [Next]_vars => KafkaInv'
<1> SUFFICES ASSUME KafkaInv, [Next]_vars PROVE KafkaInv'
  OBVIOUS
<1>a. TypeOK'
  BY KafkaTypeStep DEF KafkaInv
<1> DEFINE Covered == PositionInv /\ HeldInv /\ StashInv /\ CommittedCovered
<1> SUFFICES Covered'
  BY <1>a DEF KafkaInv
<1> USE BoundAssumption
    DEF KafkaInv, PositionInv, HeldInv, StashInv, CommittedCovered, Done,
        TypeOK, PCs, Records, RecordOrNone, Positions, Offsets, chanVars,
        kafkaVars
<1>1. ASSUME NEW p \in Pods, Subscribe(p) PROVE Covered'
  BY <1>1 DEF Subscribe
<1>2. ASSUME NEW p \in Pods, Cancel(p) PROVE Covered'
  BY <1>2 DEF Cancel
<1>3. ASSUME NEW p \in Pods, NEW g \in Gens, Forward(p, g) PROVE Covered'
  BY <1>3 DEF Forward
<1>4. CASE Publish
  BY <1>4 DEF Publish
<1>5. ASSUME NEW p \in Pods, Fetch(p) PROVE Covered'
  <2>1. pos[p] \in Records /\ cur'[p] = pos[p] /\ pos'[p] = pos[p] + 1
    BY <1>5 DEF Fetch
  <2>2. pc[p] = "fetch" /\ pc'[p] = "lookup"
    BY <1>5 DEF Fetch
  <2>3. \A m \in Records : m < pos[p] => m \in Done'
    BY <1>5, <2>2 DEF Fetch
  <2>4. ASSUME NEW q \in Pods, q # p
        PROVE  cur'[q] = cur[q] /\ pos'[q] = pos[q] /\ pc'[q] = pc[q]
    BY <1>5, <2>4 DEF Fetch
  <2>5. UNCHANGED <<dispatched, skipped, stash, committed>>
    BY <1>5 DEF Fetch
  <2>6. PositionInv'
    <3> SUFFICES ASSUME NEW q \in Pods, NEW m \in Records, m < pos'[q]
                 PROVE  (m \in Done \/ (m = cur[q] /\ pc[q] \in {"lookup", "send"}))'
      BY DEF PositionInv
    <3>1. CASE q = p
      <4>1. m < pos[p] + 1
        BY <2>1, <3>1
      <4>2. m < pos[p] \/ m = pos[p]
        BY <2>1, <4>1, BeforeSuccessor
      <4>3. QED
        BY <2>1, <2>2, <2>3, <3>1, <4>2
    <3>2. CASE q # p
      BY <2>4, <2>5, <3>2
    <3>3. QED
      BY <3>1, <3>2
  <2>7. HeldInv'
    BY <2>1, <2>2, <2>3, <2>4, <2>5
  <2>8. QED
    BY <2>5, <2>6, <2>7
<1>6. ASSUME NEW p \in Pods, Lookup(p) PROVE Covered'
  BY <1>6 DEF Lookup
<1>7. ASSUME NEW p \in Pods, Send(p) PROVE Covered'
  BY <1>7 DEF Send
<1>8. ASSUME NEW p \in Pods, Commit(p) PROVE Covered'
  <2>1. pc[p] = "commit" /\ cur[p] \in Records
    BY <1>8 DEF Commit
  <2>2. \A m \in Records : m < cur[p] + 1 => m \in Done
    <3>1. cur[p] \in Done /\ \A m \in Records : m < cur[p] => m \in Done
      BY <2>1
    <3>2. QED
      BY <2>1, <3>1, BeforeSuccessor
  <2>3. /\ stash'[p] = stash[p] \/ stash'[p] = cur[p] + 1
        /\ \A q \in Pods : q # p => stash'[q] = stash[q]
    BY <1>8 DEF Commit
  <2>4. StashInv'
    BY <1>8, <2>2, <2>3 DEF Commit
  <2>5. PositionInv' /\ HeldInv' /\ CommittedCovered'
    BY <1>8, <2>1 DEF Commit
  <2>6. QED
    BY <2>4, <2>5
<1>9. ASSUME NEW p \in Pods, PodDown(p) PROVE Covered'
  BY <1>9 DEF PodDown
<1>10. ASSUME NEW p \in Pods, Assign(p) PROVE Covered'
  <2>1. Done \subseteq Done' /\ \A m \in Records : m < pos'[p] => m \in Done'
    <3>1. CASE committed = 0
      <4>1. pos'[p] = log + 1 /\ skipped' = skipped \cup (1 .. log)
        BY <1>10, <3>1 DEF Assign
      <4>2. \A m \in Records : m < log + 1 => m \in 1 .. log
        OBVIOUS
      <4>3. dispatched' = dispatched
        BY <1>10 DEF Assign
      <4>4. QED
        BY <4>1, <4>2, <4>3
    <3>2. CASE committed # 0
      BY <1>10, <3>2 DEF Assign
    <3>3. QED
      BY <3>1, <3>2
  <2>2. \A q \in Pods : q # p => pos'[q] = pos[q]
    BY <1>10 DEF Assign
  <2>3. UNCHANGED <<pc, cur, stash, committed>>
    BY <1>10 DEF Assign
  <2>4. PositionInv'
    BY <2>1, <2>2, <2>3
  <2>5. HeldInv' /\ StashInv' /\ CommittedCovered'
    BY <2>1, <2>3
  <2>6. QED
    BY <2>4, <2>5
<1>11. ASSUME NEW p \in Pods, Notice(p) PROVE Covered'
  BY <1>11 DEF Notice
<1>12. ASSUME NEW p \in Pods, Flush(p) PROVE Covered'
  BY <1>12 DEF Flush
<1>13. CASE UNCHANGED vars
  BY <1>13 DEF vars
<1>14. ASSUME NEW p \in Pods, Panic(p) \/ Crash(p) PROVE Covered'
  BY <1>9, <1>14 DEF Panic, Crash
<1>15. QED
  BY <1>1, <1>2, <1>3, <1>4, <1>5, <1>6, <1>7, <1>8, <1>10, <1>11, <1>12,
     <1>13, <1>14
  DEF Next, ConsumerStep

\* The invariant holds in every reachable state.
THEOREM KafkaInvariant == Spec => []KafkaInv
<1>1. Init => KafkaInv
  BY KafkaInit
<1>2. KafkaInv /\ [Next]_vars => KafkaInv'
  BY KafkaOffsetStep
<1>3. QED
  BY <1>1, <1>2, PTL DEF Spec

\* The variables keep their types, and no room's channel holds more records
\* than its capacity (the non-blocking send of consume).
THEOREM KafkaTypeCorrect == Spec => []TypeOK
<1>1. KafkaInv => TypeOK
  BY DEF KafkaInv
<1>2. QED
  BY <1>1, KafkaInvariant, PTL

\* The group's offset never passes a record that no consumer dealt with,
\* whatever crashes, panics or moves: consume commits after it dispatched.
THEOREM CommittedAlwaysCovered == Spec => []CommittedCovered
<1>1. KafkaInv => CommittedCovered
  BY DEF KafkaInv
<1>2. QED
  BY <1>1, KafkaInvariant, PTL

=============================================================================
