---------------------------- MODULE KafkaBroker ----------------------------
(***************************************************************************)
(* One room on pods that share a Kafka topic (app/broker/kafka_broker.go):  *)
(* the room's channel in each pod's registry, the consumer goroutine that   *)
(* dispatches records to it, and the consumer group that all pods join.     *)
(* The room's records are on one partition, in the order they were written. *)
(*                                                                         *)
(* The hub makes one subscription per room (ChatHub!OneSubscriptionPerRoom) *)
(* so the registry's list has at most one channel.  The channel is closed   *)
(* when it leaves the registry: both happen under the lock.                 *)
(*                                                                         *)
(* Kafka and kafka-go are external: the group gives the partition to one    *)
(* pod at a time, a pod notices late that it lost it, commits are sent in   *)
(* the background and taken from the owner only, and a group that has       *)
(* committed nothing starts at the end of the log (kafka.LastOffset).       *)
(***************************************************************************)
EXTENDS Naturals, FiniteSets

CONSTANTS
    Pods,
    NoPod,
    ChanCap,     \* capacity of a room's channel (256 in the code)
    MaxRecords,  \* bound: records written
    MaxGens,     \* bound: channels a pod makes for the room
    MaxMoves     \* bound: crashes and moves of the partition

ASSUME PodAssumption == NoPod \notin Pods
ASSUME BoundAssumption ==
    /\ ChanCap \in Nat \ {0} /\ MaxRecords \in Nat
    /\ MaxGens \in Nat /\ MaxMoves \in Nat

Records == 1 .. MaxRecords
Gens    == 1 .. MaxGens

\* The ranges of what counts or names them; 0 stands for none.
RecordOrNone == 0 .. MaxRecords
GenOrNone    == 0 .. MaxGens
Positions    == 1 .. MaxRecords + 1
Offsets      == 0 .. MaxRecords + 1
Loads        == 0 .. ChanCap
MoveCounts   == 0 .. MaxMoves

VARIABLES
    reg,        \* [Pods -> 0 .. MaxGens]: the room's open channel; 0 if none
    gen,        \* [Pods -> 0 .. MaxGens]: channels made so far
    queued,     \* [Pods -> [Gens -> Nat]]: records in each channel
    pc,         \* where the consumer of each pod is
    cur,        \* the record it works on
    snap,       \* the channel it found in the registry; 0 if none
    log,        \* number of records written
    owner,      \* the pod that the group gives the partition to
    assigned,   \* the pods whose reader takes itself for the owner
    pos,        \* [Pods -> next record their reader returns]
    stash,      \* [Pods -> offset to be committed; 0 if none]
    committed,  \* the group's committed offset: next record; 0 if none
    moves,      \* crashes and moves so far
    dispatched, \* history: records some consumer has dealt with
    skipped     \* history: records a group without an offset started behind

chanVars  == <<reg, gen, queued>>
kafkaVars == <<log, owner, assigned, committed, moves, skipped>>
vars == <<reg, gen, queued, pc, cur, snap, log, owner, assigned, pos, stash,
          committed, moves, dispatched, skipped>>

PCs == {"fetch", "lookup", "send", "commit"}

Init ==
    /\ reg = [p \in Pods |-> 0]
    /\ gen = [p \in Pods |-> 0]
    /\ queued = [p \in Pods |-> [g \in Gens |-> 0]]
    /\ pc = [p \in Pods |-> "fetch"]
    /\ cur = [p \in Pods |-> 0]
    /\ snap = [p \in Pods |-> 0]
    /\ log = 0
    /\ owner = NoPod
    /\ assigned = {}
    /\ pos = [p \in Pods |-> 1]
    /\ stash = [p \in Pods |-> 0]
    /\ committed = 0
    /\ moves = 0
    /\ dispatched = {}
    /\ skipped = {}

-----------------------------------------------------------------------------
(* The registry.                                                           *)

\* The hub creates the room's entry.
Subscribe(p) ==
    /\ reg[p] = 0
    /\ gen[p] < MaxGens
    /\ gen' = [gen EXCEPT ![p] = @ + 1]
    /\ reg' = [reg EXCEPT ![p] = gen[p] + 1]
    /\ UNCHANGED <<queued, pc, cur, snap, pos, stash, dispatched, kafkaVars>>

\* The hub removes the room's entry: the channel leaves the registry and is
\* closed.
Cancel(p) ==
    /\ reg[p] # 0
    /\ reg' = [reg EXCEPT ![p] = 0]
    /\ UNCHANGED <<gen, queued, pc, cur, snap, pos, stash, dispatched,
                   kafkaVars>>

\* forwardFromBroker takes a record from a channel, closed or not.
Forward(p, g) ==
    /\ queued[p][g] > 0
    /\ queued' = [queued EXCEPT ![p][g] = @ - 1]
    /\ UNCHANGED <<reg, gen, pc, cur, snap, pos, stash, dispatched, kafkaVars>>

-----------------------------------------------------------------------------
(* The consumer.                                                           *)

\* Publish: the writer is asynchronous, and a record that it fails to write is
\* lost without an error.
Publish ==
    /\ log < MaxRecords
    /\ log' = log + 1
    /\ UNCHANGED <<chanVars, pc, cur, snap, owner, assigned, pos, stash,
                   committed, moves, dispatched, skipped>>

\* Faulty variant of Fetch: the record is committed when it is read.
FetchCommits(p) ==
    /\ pc[p] = "fetch"
    /\ p \in assigned
    /\ pos[p] <= log
    /\ cur' = [cur EXCEPT ![p] = pos[p]]
    /\ pos' = [pos EXCEPT ![p] = @ + 1]
    /\ stash' = [stash EXCEPT ![p] = pos[p] + 1]
    /\ pc' = [pc EXCEPT ![p] = "lookup"]
    /\ UNCHANGED <<chanVars, snap, dispatched, kafkaVars>>

\* FetchMessage returns the next record of the partition.
Fetch(p) ==
    /\ pc[p] = "fetch"
    /\ p \in assigned
    /\ pos[p] <= log
    /\ cur' = [cur EXCEPT ![p] = pos[p]]
    /\ pos' = [pos EXCEPT ![p] = @ + 1]
    /\ pc' = [pc EXCEPT ![p] = "lookup"]
    /\ UNCHANGED <<chanVars, snap, stash, dispatched, kafkaVars>>

\* The consumer reads the registry under the read lock.
Lookup(p) ==
    /\ pc[p] = "lookup"
    /\ snap' = [snap EXCEPT ![p] = reg[p]]
    /\ pc' = [pc EXCEPT ![p] = "send"]
    /\ UNCHANGED <<chanVars, cur, pos, stash, dispatched, kafkaVars>>

\* The loop over the channels found: a full channel drops the record, and
\* without a channel there is nothing to do.
Send(p) ==
    /\ pc[p] = "send"
    /\ snap[p] \in {0, reg[p]}
    /\ IF snap[p] # 0 /\ queued[p][snap[p]] < ChanCap
          THEN queued' = [queued EXCEPT ![p][snap[p]] = @ + 1]
          ELSE UNCHANGED queued
    /\ dispatched' = dispatched \cup {cur[p]}
    /\ pc' = [pc EXCEPT ![p] = "commit"]
    /\ UNCHANGED <<reg, gen, cur, snap, pos, stash, kafkaVars>>

\* CommitMessages: the offset is handed to the reader's commit loop, which
\* keeps the highest.
Commit(p) ==
    /\ pc[p] = "commit"
    /\ stash' = [stash EXCEPT ![p] = IF @ > cur[p] THEN @ ELSE cur[p] + 1]
    /\ pc' = [pc EXCEPT ![p] = "fetch"]
    /\ UNCHANGED <<chanVars, cur, snap, pos, dispatched, kafkaVars>>

\* The pod is gone with everything it had in memory, and starts again.
PodDown(p) ==
    /\ reg' = [reg EXCEPT ![p] = 0]
    /\ queued' = [queued EXCEPT ![p] = [g \in Gens |-> 0]]
    /\ pc' = [pc EXCEPT ![p] = "fetch"]
    /\ cur' = [cur EXCEPT ![p] = 0]
    /\ snap' = [snap EXCEPT ![p] = 0]
    /\ pos' = [pos EXCEPT ![p] = 1]
    /\ stash' = [stash EXCEPT ![p] = 0]
    /\ assigned' = assigned \ {p}
    /\ owner' = IF owner = p THEN NoPod ELSE owner
    /\ UNCHANGED <<gen, log, committed, dispatched, skipped>>

\* The channel found was closed since: the send panics and ends the pod.
Panic(p) ==
    /\ pc[p] = "send"
    /\ snap[p] \notin {0, reg[p]}
    /\ PodDown(p)
    /\ UNCHANGED moves

Crash(p) ==
    /\ moves < MaxMoves
    /\ moves' = moves + 1
    /\ PodDown(p)

-----------------------------------------------------------------------------
(* The consumer group.                                                     *)

\* The partition goes to pod p, whose reader starts at the committed offset,
\* or behind the last record if there is none.
Assign(p) ==
    /\ owner # p
    /\ owner = NoPod \/ moves < MaxMoves
    /\ moves' = IF owner = NoPod THEN moves ELSE moves + 1
    /\ owner' = p
    /\ assigned' = assigned \cup {p}
    /\ IF committed = 0
          THEN /\ pos' = [pos EXCEPT ![p] = log + 1]
               /\ skipped' = skipped \cup (1 .. log)
          ELSE /\ pos' = [pos EXCEPT ![p] = committed]
               /\ UNCHANGED skipped
    /\ UNCHANGED <<chanVars, pc, cur, snap, log, stash, committed, dispatched>>

\* The reader of p notices that it lost the partition.
Notice(p) ==
    /\ p \in assigned \ {owner}
    /\ assigned' = assigned \ {p}
    /\ UNCHANGED <<chanVars, pc, cur, snap, log, owner, pos, stash, committed,
                   moves, dispatched, skipped>>

\* The commit loop of the owner sends its offset.
Flush(p) ==
    /\ owner = p
    /\ stash[p] # 0
    /\ committed' = stash[p]
    /\ stash' = [stash EXCEPT ![p] = 0]
    /\ UNCHANGED <<chanVars, pc, cur, snap, log, owner, assigned, pos, moves,
                   dispatched, skipped>>

ConsumerStep(p) ==
    Fetch(p) \/ Lookup(p) \/ Send(p) \/ Panic(p) \/ Commit(p)

Next ==
    \/ Publish
    \/ \E p \in Pods :
          \/ Subscribe(p) \/ Cancel(p) \/ ConsumerStep(p) \/ Crash(p)
          \/ Assign(p) \/ Notice(p) \/ Flush(p)
          \/ \E g \in Gens : Forward(p, g)

Spec == Init /\ [][Next]_vars

\* Consumers run, and a partition without an owner gets one.  Nothing is
\* assumed of clients, crashes, moves of the partition or commits.
FairSpec ==
    /\ Spec
    /\ \A p \in Pods : WF_vars(ConsumerStep(p))
    /\ WF_vars(owner = NoPod /\ \E p \in Pods : Assign(p))

-----------------------------------------------------------------------------
(* Properties.                                                             *)

\* Every variable has its type; no channel exceeds its capacity.
TypeOK ==
    /\ reg \in [Pods -> GenOrNone]
    /\ gen \in [Pods -> GenOrNone]
    /\ queued \in [Pods -> [Gens -> Loads]]
    /\ pc \in [Pods -> PCs]
    /\ cur \in [Pods -> RecordOrNone]
    /\ snap \in [Pods -> GenOrNone]
    /\ log \in RecordOrNone
    /\ owner \in Pods \cup {NoPod}
    /\ assigned \subseteq Pods
    /\ pos \in [Pods -> Positions]
    /\ stash \in [Pods -> Offsets]
    /\ committed \in Offsets
    /\ moves \in MoveCounts
    /\ dispatched \subseteq Records
    /\ skipped \subseteq Records

\* The group's offset never passes a record that no consumer has dealt with,
\* although pods die between fetch and commit, lose the partition while they
\* dispatch, and commit late (kafka_broker.go 180-210).
CommittedCovered ==
    \A m \in Records : m < committed => m \in dispatched \cup skipped

\* Every record is dealt with by some pod, unless it was written before the
\* group had an offset to start from (kafka_broker.go 12-13, 177-212).
EveryRecordDispatched ==
    \A m \in Records : m <= log ~> m \in dispatched \cup skipped

\* What the comment on consume says (kafka_broker.go 175-176): messages are
\* dispatched to the registered subscribers.
SendsToRegistered ==
    \A p \in Pods : pc[p] = "send" => snap[p] \in {0, reg[p]}

=============================================================================
