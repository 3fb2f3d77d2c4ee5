------------------------- MODULE MessageStoreProofs -------------------------
(***************************************************************************)
(* For any number of handlers, users, ids and goroutines, with every        *)
(* command failing at will and the pod dying at any time: what edit and     *)
(* delete events claim holds in the database, deleted messages stay as they *)
(* are, authors do not change, and nothing is stored that was not broadcast *)
(* before.                                                                  *)
(***************************************************************************)
EXTENDS MessageStore, TLAPS

\* An event that is stored but not yet broadcast is backed as well.
PendingBacked == \A h \in Handlers : ev[h] # None => Backed(ev[h])

\* A message on its way to the database carries its handler's user; it is
\* announced as soon as its handler has nothing left to broadcast.
PendingAnnounced ==
    \A h \in Handlers : sm[h] # None =>
       /\ sm[h].user = UserOf[h]
       /\ ev[h] = Event("MESSAGE", sm[h].id, h) \/ Announced(sm[h])

\* What a goroutine is about to insert was announced.
JobsAnnounced == \A j \in Jobs : step[j] = "insert" => Announced(job[j])

AnnouncedInv == StoredAfterBroadcast /\ PendingAnnounced /\ JobsAnnounced

StoreInv == TypeOK /\ EventsBacked /\ PendingBacked

\* What no step does to a stored document: the document goes, changes its
\* author, or changes at all once it is deleted.
DocsKept ==
    \A id \in Ids : docs[id] # None =>
       /\ docs'[id] # None
       /\ docs'[id].sender = docs[id].sender
       /\ docs[id].deleted => docs'[id] = docs[id]

\* The initial state satisfies the invariant: nothing is stored or broadcast.
LEMMA StoreInit == Init => StoreInv
<1> SUFFICES ASSUME Init PROVE StoreInv
  OBVIOUS
<1>2. /\ EventsBacked /\ PendingBacked
      /\ step \in [Jobs -> Steps] /\ \A j \in Jobs : step[j] = "free"
  BY DEF Init, EventsBacked, PendingBacked, Steps
<1>3. QED
  BY <1>2 DEF Init, StoreInv, TypeOK, Times

\* The event of a handler is well typed.
LEMMA EventType ==
    ASSUME NEW kind \in {"MESSAGE", "EDIT", "DELETE"}, NEW id \in Ids,
           NEW h \in Handlers
    PROVE  Event(kind, id, h) \in Events
  BY UserAssumption DEF Event, Events

\* An edit changes only the text of its document, which exists.
LEMMA EditDoc ==
    ASSUME TypeOK, NEW h \in Handlers, NEW id \in Ids, NEW text \in Texts,
           Edit(h, id, text)
    PROVE  /\ docs[id] \in Docs /\ docs'[id] \in Docs
           /\ docs[id].sender = UserOf[h] /\ ~docs[id].deleted
           /\ docs'[id].sender = docs[id].sender
           /\ docs' \in [Ids -> Docs \cup {None}]
           /\ \A k \in Ids \ {id} : docs'[k] = docs[k]
<1>1. docs[id] \in Docs /\ docs[id].sender = UserOf[h] /\ ~docs[id].deleted
  BY DEF TypeOK, Edit, Owns
<1>2. docs' = [docs EXCEPT ![id] = [docs[id] EXCEPT !.text = text]]
  BY DEF Edit
<1>3. /\ [docs[id] EXCEPT !.text = text] \in Docs
      /\ [docs[id] EXCEPT !.text = text].sender = docs[id].sender
  BY <1>1 DEF Docs
<1>4. QED
  BY <1>1, <1>2, <1>3 DEF TypeOK

\* A delete changes only the flag of its document, which exists.
LEMMA DeleteDoc ==
    ASSUME TypeOK, NEW h \in Handlers, NEW id \in Ids, Delete(h, id)
    PROVE  /\ docs[id] \in Docs /\ docs'[id] \in Docs
           /\ docs[id].sender = UserOf[h]
           /\ docs'[id].sender = docs[id].sender /\ docs'[id].deleted
           /\ docs[id].deleted => docs'[id] = docs[id]
           /\ docs' \in [Ids -> Docs \cup {None}]
           /\ \A k \in Ids \ {id} : docs'[k] = docs[k]
<1>1. docs[id] \in Docs /\ docs[id].sender = UserOf[h]
  BY DEF TypeOK, Delete, Owns
<1>2. docs' = [docs EXCEPT ![id] = [docs[id] EXCEPT !.deleted = TRUE]]
  BY DEF Delete
<1>3. /\ [docs[id] EXCEPT !.deleted = TRUE] \in Docs
      /\ [docs[id] EXCEPT !.deleted = TRUE].sender = docs[id].sender
      /\ [docs[id] EXCEPT !.deleted = TRUE].deleted
      /\ docs[id].deleted => [docs[id] EXCEPT !.deleted = TRUE] = docs[id]
  BY <1>1 DEF Docs
<1>4. QED
  BY <1>1, <1>2, <1>3 DEF TypeOK

\* Starting a goroutine keeps the types of the goroutines.
LEMMA StartType ==
    ASSUME TypeOK, NEW j \in Jobs, NEW first \in Steps, NEW data \in JobData,
           first = "insert" => data.text \in Texts, Start(j, first, data)
    PROVE  /\ step' \in [Jobs -> Steps]
           /\ job' \in [Jobs -> JobData \cup {None}]
           /\ \A k \in Jobs : step'[k] # "free" => job'[k] # None
           /\ \A k \in Jobs : step'[k] = "insert" => job'[k].text \in Texts
  BY NoneAssumption DEF TypeOK, Start

\* Every step preserves the types.
LEMMA TypeStep == TypeOK /\ [Next]_vars => TypeOK'
<1> SUFFICES ASSUME TypeOK, [Next]_vars PROVE TypeOK'
  OBVIOUS
<1> USE DEF TypeOK, Times
<1>1. ASSUME NEW h \in Handlers, NEW id \in Ids, NEW text \in Texts,
             NEW at \in 0 .. now + 1, Send(h, id, text, at)
      PROVE  TypeOK'
  <2>1. [id |-> id, user |-> UserOf[h], text |-> text, at |-> at] \in Messages
    BY UserAssumption DEF JobData, Messages
  <2>2. QED
    BY <1>1, <2>1, EventType DEF Send, store
<1>2. ASSUME NEW h \in Handlers, NEW id \in Ids, NEW text \in Texts,
       Edit(h, id, text)
      PROVE  TypeOK'
  <2>1. docs' \in [Ids -> Docs \cup {None}]
    BY <1>2, EditDoc
  <2>2. ev' \in [Handlers -> Events \cup {None}]
    BY <1>2, EventType DEF Edit, Announce
  <2>3. QED
    BY <1>2, <2>1, <2>2 DEF Edit
<1>3. ASSUME NEW h \in Handlers, NEW id \in Ids, Delete(h, id) PROVE TypeOK'
  <2>1. docs' \in [Ids -> Docs \cup {None}]
    BY <1>3, DeleteDoc
  <2>2. ev' \in [Handlers -> Events \cup {None}]
    BY <1>3, EventType DEF Delete, Announce
  <2>3. QED
    BY <1>3, <2>1, <2>2 DEF Delete
<1>4. ASSUME NEW h \in Handlers, Broadcast(h) PROVE TypeOK'
  BY <1>4 DEF Broadcast, store
<1>p. ASSUME NEW h \in Handlers, NEW j \in Jobs, persistMessage(h, j)
      PROVE  TypeOK'
  <2>1. "insert" \in Steps /\ sm[h] \in JobData /\ sm[h].text \in Texts
    BY <1>p DEF persistMessage, Steps, Messages
  <2>2. QED
    BY <1>p, <2>1, StartType DEF persistMessage, store
<1>5. ASSUME NEW h \in Handlers, NEW id \in Ids, NEW j \in Jobs,
       ReadReceipt(h, id, j)
      PROVE  TypeOK'
  <2>1. /\ "cursor" \in Steps
        /\ [id |-> id, user |-> UserOf[h], text |-> None, at |-> now + 1]
             \in JobData
    BY UserAssumption DEF Steps, JobData
  <2>2. QED
    BY <1>5, <2>1, StartType DEF ReadReceipt, store
<1>6. ASSUME NEW h \in Handlers, NEW id \in Ids, NEW j \in Jobs,
       GetMessages(h, id, j)
      PROVE  TypeOK'
  <2>1. /\ "stamp" \in Steps
        /\ [id |-> id, user |-> UserOf[h], text |-> None, at |-> 0]
             \in JobData
    BY UserAssumption DEF Steps, JobData
  <2>2. QED
    BY <1>6, <2>1, StartType DEF GetMessages, store
<1>7. ASSUME NEW h \in Handlers, NEW ids \in SUBSET Ids,
       MarkMessageRead(h, ids)
      PROVE  TypeOK'
  BY <1>7, UserAssumption DEF MarkMessageRead
<1>8. ASSUME NEW j \in Jobs, Insert(j) PROVE TypeOK'
  <2>1. job[j] \in JobData
    BY <1>8 DEF Insert
  <2>2. /\ job[j].id \in Ids /\ job[j].user \in Users
        /\ job[j].text \in Texts
    BY <1>8, <2>1 DEF Insert, JobData
  <2>3. [sender |-> job[j].user, text |-> job[j].text, deleted |-> FALSE]
          \in Docs
    BY <2>2 DEF Docs
  <2>4. docs' \in [Ids -> Docs \cup {None}]
    BY <1>8, <2>2, <2>3 DEF Insert
  <2>6. /\ step' \in [Jobs -> Steps]
        /\ \A k \in Jobs : step'[k] # "free" => job[k] # None
        /\ \A k \in Jobs : step'[k] = "insert" => job[k].text \in Texts
    BY <1>8, <2>1, NoneAssumption DEF Insert, Goto, Steps
  <2>7. QED
    BY <1>8, <2>4, <2>6 DEF Insert
<1>9. ASSUME NEW j \in Jobs, UpdateConversation(j) PROVE TypeOK'
  <2>1. job[j] \in JobData
    BY <1>9 DEF UpdateConversation
  <2>2. QED
    BY <1>9, <2>1, NoneAssumption
    DEF UpdateConversation, Goto, Steps, JobData, Docs, store
<1>10. ASSUME NEW j \in Jobs, UpsertRead(j) PROVE TypeOK'
  <2>1. job[j] \in JobData
    BY <1>10 DEF UpsertRead
  <2>2. QED
    BY <1>10, <2>1, NoneAssumption
    DEF UpsertRead, Goto, Steps, JobData, Docs, store
<1>11. ASSUME NEW j \in Jobs, UpdateLastActivity(j) PROVE TypeOK'
  <2>1. job[j] \in JobData
    BY <1>11 DEF UpdateLastActivity
  <2>2. QED
    BY <1>11, <2>1, NoneAssumption
    DEF UpdateLastActivity, Goto, Steps, JobData, Docs, store
<1>12. ASSUME NEW j \in Jobs, Stamp(j) PROVE TypeOK'
  <2>1. job[j] \in JobData
    BY <1>12 DEF Stamp
  <2>2. QED
    BY <1>12, <2>1, NoneAssumption
    DEF Stamp, Goto, Steps, JobData, Docs, store
<1>13. ASSUME NEW j \in Jobs, UpdateReadReceipt(j) PROVE TypeOK'
  <2>1. job[j] \in JobData
    BY <1>13 DEF UpdateReadReceipt
  <2>2. QED
    BY <1>13, <2>1, NoneAssumption
    DEF UpdateReadReceipt, Goto, Steps, JobData, Docs, store
<1>14. CASE Crash
  BY <1>14 DEF Crash, store, Steps
<1>15. CASE UNCHANGED vars
  BY <1>15 DEF vars
<1>16. QED
  BY <1>1, <1>2, <1>3, <1>4, <1>p, <1>5, <1>6, <1>7, <1>8,
     <1>9, <1>10, <1>11, <1>12, <1>13, <1>14, <1>15
  DEF Next, JobStep

\* No step removes a document, changes its author, or touches a deleted one.
LEMMA DocsStep == TypeOK /\ [Next]_vars => DocsKept
<1> SUFFICES ASSUME TypeOK, [Next]_vars PROVE DocsKept
  OBVIOUS
<1> USE DEF DocsKept
<1>1. ASSUME NEW h \in Handlers, NEW id \in Ids, NEW text \in Texts,
             NEW at \in 0 .. now + 1, Send(h, id, text, at)
      PROVE  DocsKept
  BY <1>1 DEF Send, store
<1>2. ASSUME NEW h \in Handlers, NEW id \in Ids, NEW text \in Texts,
       Edit(h, id, text)
      PROVE  DocsKept
  BY <1>2, EditDoc, NoneAssumption
<1>3. ASSUME NEW h \in Handlers, NEW id \in Ids, Delete(h, id) PROVE DocsKept
  BY <1>3, DeleteDoc, NoneAssumption
<1>4. ASSUME NEW h \in Handlers, Broadcast(h) PROVE DocsKept
  BY <1>4 DEF Broadcast, store
<1>p. ASSUME NEW h \in Handlers, NEW j \in Jobs, persistMessage(h, j)
      PROVE  DocsKept
  BY <1>p DEF persistMessage, store
<1>5. ASSUME NEW h \in Handlers, NEW id \in Ids, NEW j \in Jobs,
       ReadReceipt(h, id, j)
      PROVE  DocsKept
  BY <1>5 DEF ReadReceipt, store
<1>6. ASSUME NEW h \in Handlers, NEW id \in Ids, NEW j \in Jobs,
       GetMessages(h, id, j)
      PROVE  DocsKept
  BY <1>6 DEF GetMessages, store
<1>7. ASSUME NEW h \in Handlers, NEW ids \in SUBSET Ids,
       MarkMessageRead(h, ids)
      PROVE  DocsKept
  BY <1>7 DEF MarkMessageRead
<1>8. ASSUME NEW j \in Jobs, Insert(j) PROVE DocsKept
  BY <1>8 DEF Insert, TypeOK
<1>9. ASSUME NEW j \in Jobs, UpdateConversation(j) PROVE DocsKept
  BY <1>9 DEF UpdateConversation
<1>10. ASSUME NEW j \in Jobs, UpsertRead(j) PROVE DocsKept
  BY <1>10 DEF UpsertRead
<1>11. ASSUME NEW j \in Jobs, UpdateLastActivity(j) PROVE DocsKept
  BY <1>11 DEF UpdateLastActivity
<1>12. ASSUME NEW j \in Jobs, Stamp(j) PROVE DocsKept
  BY <1>12 DEF Stamp, store
<1>13. ASSUME NEW j \in Jobs, UpdateReadReceipt(j) PROVE DocsKept
  BY <1>13 DEF UpdateReadReceipt
<1>14. CASE Crash
  BY <1>14 DEF Crash, store
<1>15. CASE UNCHANGED vars
  BY <1>15 DEF vars
<1>16. QED
  BY <1>1, <1>2, <1>3, <1>4, <1>p, <1>5, <1>6, <1>7, <1>8,
     <1>9, <1>10, <1>11, <1>12, <1>13, <1>14, <1>15
  DEF Next, JobStep

\* What backs an event survives every step.
LEMMA BackedStep ==
    ASSUME TypeOK, DocsKept, NEW e \in Events, Backed(e)
    PROVE  Backed(e)'
  BY DEF TypeOK, DocsKept, Backed, Events

\* Every step broadcasts only backed events and keeps those backed.
LEMMA EventsStep ==
    StoreInv /\ [Next]_vars => EventsBacked' /\ PendingBacked'
<1> SUFFICES ASSUME StoreInv, [Next]_vars
             PROVE  EventsBacked' /\ PendingBacked'
  OBVIOUS
<1>a. DocsKept /\ TypeOK
  BY DocsStep DEF StoreInv
<1>b. /\ \A e \in feed : Backed(e)'
      /\ \A h \in Handlers, e \in Events : ev[h] = e => Backed(e)'
  <2>1. \A e \in feed : Backed(e)'
    BY <1>a, BackedStep DEF StoreInv, EventsBacked, TypeOK
  <2>2. ASSUME NEW h \in Handlers, NEW e \in Events, ev[h] = e
        PROVE  Backed(e)'
    <3>1. Backed(e)
      BY <2>2, NoneAssumption DEF StoreInv, PendingBacked
    <3>2. QED
      BY <1>a, <3>1, BackedStep
  <2>3. QED
    BY <2>1, <2>2
<1>c. ASSUME NEW e \in Events, Backed(e)', feed' \subseteq feed \cup {e},
             \A h \in Handlers : ev'[h] \in {None, ev[h], e}
      PROVE  EventsBacked' /\ PendingBacked'
  <2>1. EventsBacked'
    BY <1>b, <1>c DEF EventsBacked
  <2>2. ASSUME NEW h \in Handlers, ev'[h] # None PROVE Backed(ev[h])'
    <3>1. PICK x \in Events : x = ev'[h] /\ Backed(x)'
      BY <1>a, <1>b, <1>c, <2>2 DEF TypeOK
    <3>2. QED
      BY <3>1 DEF Backed
  <2>3. QED
    BY <2>1, <2>2 DEF PendingBacked
<1>d. ASSUME UNCHANGED <<ev, feed>> PROVE EventsBacked' /\ PendingBacked'
  <2>1. EventsBacked'
    BY <1>b, <1>d DEF EventsBacked
  <2>2. ASSUME NEW h \in Handlers, ev'[h] # None PROVE Backed(ev[h])'
    <3>1. PICK x \in Events : x = ev'[h] /\ Backed(x)'
      BY <1>a, <1>b, <1>d, <2>2 DEF TypeOK
    <3>2. QED
      BY <3>1 DEF Backed
  <2>3. QED
    BY <2>1, <2>2 DEF PendingBacked
<1>e. ASSUME feed' = feed, \A h \in Handlers : ev'[h] = None
      PROVE  EventsBacked' /\ PendingBacked'
  BY <1>b, <1>e DEF EventsBacked, PendingBacked
<1>1. ASSUME NEW h \in Handlers, NEW id \in Ids, NEW text \in Texts,
             NEW at \in 0 .. now + 1, Send(h, id, text, at)
      PROVE  EventsBacked' /\ PendingBacked'
  <2>1. Backed(Event("MESSAGE", id, h))' /\ Event("MESSAGE", id, h) \in Events
    BY EventType DEF Backed, Event
  <2>2. \A k \in Handlers : ev'[k] \in {None, ev[k], Event("MESSAGE", id, h)}
    BY <1>1, <1>a DEF Send, TypeOK
  <2>3. QED
    BY <1>1, <1>c, <2>1, <2>2 DEF Send
<1>2. ASSUME NEW h \in Handlers, NEW id \in Ids, NEW text \in Texts,
       Edit(h, id, text)
      PROVE  EventsBacked' /\ PendingBacked'
  <2>1. Backed(Event("EDIT", id, h))' /\ Event("EDIT", id, h) \in Events
    BY <1>2, <1>a, EditDoc, EventType, NoneAssumption DEF Backed, Event
  <2>2. \A k \in Handlers : ev'[k] \in {None, ev[k], Event("EDIT", id, h)}
    BY <1>2, <1>a DEF Edit, Announce, TypeOK
  <2>3. QED
    BY <1>2, <1>c, <2>1, <2>2 DEF Edit
<1>3. ASSUME NEW h \in Handlers, NEW id \in Ids,
       Delete(h, id)
      PROVE  EventsBacked' /\ PendingBacked'
  <2>1. Backed(Event("DELETE", id, h))' /\ Event("DELETE", id, h) \in Events
    BY <1>3, <1>a, DeleteDoc, EventType, NoneAssumption DEF Backed, Event
  <2>2. \A k \in Handlers : ev'[k] \in {None, ev[k], Event("DELETE", id, h)}
    BY <1>3, <1>a DEF Delete, Announce, TypeOK
  <2>3. QED
    BY <1>3, <1>c, <2>1, <2>2 DEF Delete
<1>4. ASSUME NEW h \in Handlers,
       Broadcast(h)
      PROVE  EventsBacked' /\ PendingBacked'
  <2>1. ev[h] \in Events
    BY <1>4, <1>a DEF Broadcast, TypeOK
  <2>2. PICK e \in Events : e = ev[h]
    BY <2>1
  <2>3. Backed(e)'
    BY <1>b, <2>2
  <2>4. \A k \in Handlers : ev'[k] \in {None, ev[k], e}
    BY <1>4, <1>a DEF Broadcast, TypeOK
  <2>5. QED
    BY <1>4, <1>c, <2>2, <2>3, <2>4 DEF Broadcast
<1>p. ASSUME NEW h \in Handlers, NEW j \in Jobs, persistMessage(h, j)
      PROVE  EventsBacked' /\ PendingBacked'
  BY <1>p, <1>d DEF persistMessage
<1>5. ASSUME NEW h \in Handlers, NEW id \in Ids, NEW j \in Jobs,
       ReadReceipt(h, id, j)
      PROVE  EventsBacked' /\ PendingBacked'
  BY <1>5, <1>d DEF ReadReceipt
<1>6. ASSUME NEW h \in Handlers, NEW id \in Ids, NEW j \in Jobs,
       GetMessages(h, id, j)
      PROVE  EventsBacked' /\ PendingBacked'
  BY <1>6, <1>d DEF GetMessages
<1>7. ASSUME NEW h \in Handlers, NEW ids \in SUBSET Ids,
       MarkMessageRead(h, ids)
      PROVE  EventsBacked' /\ PendingBacked'
  BY <1>7, <1>d DEF MarkMessageRead
<1>8. ASSUME NEW j \in Jobs, Insert(j) PROVE EventsBacked' /\ PendingBacked'
  BY <1>8, <1>d DEF Insert
<1>9. ASSUME NEW j \in Jobs,
       UpdateConversation(j)
      PROVE  EventsBacked' /\ PendingBacked'
  BY <1>9, <1>d DEF UpdateConversation
<1>10. ASSUME NEW j \in Jobs,
       UpsertRead(j)
      PROVE  EventsBacked' /\ PendingBacked'
  BY <1>10, <1>d DEF UpsertRead
<1>11. ASSUME NEW j \in Jobs,
       UpdateLastActivity(j)
      PROVE  EventsBacked' /\ PendingBacked'
  BY <1>11, <1>d DEF UpdateLastActivity
<1>12. ASSUME NEW j \in Jobs, Stamp(j) PROVE EventsBacked' /\ PendingBacked'
  BY <1>12, <1>d DEF Stamp
<1>13. ASSUME NEW j \in Jobs,
       UpdateReadReceipt(j)
      PROVE  EventsBacked' /\ PendingBacked'
  BY <1>13, <1>d DEF UpdateReadReceipt
<1>14. CASE Crash
  BY <1>14, <1>e DEF Crash
<1>15. CASE UNCHANGED vars
  BY <1>15, <1>d DEF vars
<1>16. QED
  BY <1>1, <1>2, <1>3, <1>4, <1>p, <1>5, <1>6, <1>7, <1>8,
     <1>9, <1>10, <1>11, <1>12, <1>13, <1>14, <1>15
  DEF Next, JobStep

\* The inductive invariant holds in every reachable state.
THEOREM StoreInvariant == Spec => []StoreInv
<1>1. StoreInv /\ [Next]_vars => StoreInv'
  BY TypeStep, EventsStep DEF StoreInv
<1>2. QED
  BY <1>1, StoreInit, PTL DEF Spec

\* Every variable keeps its type.
THEOREM StoreTypeCorrect == Spec => []TypeOK
<1>1. StoreInv => TypeOK
  BY DEF StoreInv
<1>2. QED
  BY <1>1, StoreInvariant, PTL

\* Edit and delete events are backed by the database, however handlers and
\* goroutines interleave and fail (grpc_server.go 194, 206-219).
THEOREM EventsAlwaysBacked == Spec => []EventsBacked
<1>1. StoreInv => EventsBacked
  BY DEF StoreInv
<1>2. QED
  BY <1>1, StoreInvariant, PTL

\* A deleted message is never changed again (mongodb.go 642-677).
THEOREM DeletedAlwaysFrozen == Spec => DeletedFrozen
<1>1. TypeOK /\ [Next]_vars => [KeepDeleted]_vars
  BY DocsStep DEF DocsKept, KeepDeleted
<1>2. QED
  BY <1>1, StoreTypeCorrect, PTL DEF Spec, DeletedFrozen

\* The author of a stored message never changes (mongodb.go 523-526).
THEOREM AuthorAlwaysFixed == Spec => AuthorFixed
<1>1. TypeOK /\ [Next]_vars => [KeepAuthors]_vars
  BY DocsStep DEF DocsKept, KeepAuthors
<1>2. QED
  BY <1>1, StoreTypeCorrect, PTL DEF Spec, AuthorFixed

\* What was announced stays announced.
LEMMA AnnouncedStays ==
    ASSUME [Next]_vars, NEW d, Announced(d)
    PROVE  Announced(d)'
<1>1. feed \subseteq feed'
  BY DEF Next, JobStep, vars, Send, Edit, Delete, Broadcast, persistMessage,
         ReadReceipt, GetMessages, MarkMessageRead, Insert, UpdateConversation,
         UpsertRead, UpdateLastActivity, Stamp, UpdateReadReceipt, Crash
<1>2. QED
  BY <1>1 DEF Announced

\* A step that leaves documents, pending messages and inserting goroutines
\* alone, or ends some of them, keeps AnnouncedInv.
LEMMA AnnouncedKept ==
    ASSUME AnnouncedInv, TypeOK, [Next]_vars,
           \A id \in Ids : docs'[id] # None =>
              docs[id] # None /\ docs'[id].sender = docs[id].sender,
           \A h \in Handlers : sm'[h] # None =>
              sm'[h] = sm[h] /\ ev'[h] = ev[h],
           \A j \in Jobs : step'[j] = "insert" =>
              step[j] = "insert" /\ job'[j] = job[j]
    PROVE  AnnouncedInv'
<1>1. StoredAfterBroadcast'
  BY AnnouncedStays DEF AnnouncedInv, StoredAfterBroadcast
<1>2. PendingAnnounced'
  BY AnnouncedStays DEF AnnouncedInv, PendingAnnounced
<1>3. JobsAnnounced'
  BY AnnouncedStays DEF AnnouncedInv, JobsAnnounced
<1>4. QED
  BY <1>1, <1>2, <1>3 DEF AnnouncedInv

\* Every step keeps AnnouncedInv: a message passes from its handler, which
\* broadcasts it first, to its goroutine and into the database.
LEMMA AnnouncedStep == TypeOK /\ AnnouncedInv /\ [Next]_vars => AnnouncedInv'
<1> SUFFICES ASSUME TypeOK, AnnouncedInv, [Next]_vars PROVE AnnouncedInv'
  OBVIOUS
<1>t. /\ step \in [Jobs -> Steps] /\ job \in [Jobs -> JobData \cup {None}]
      /\ docs \in [Ids -> Docs \cup {None}]
      /\ ev \in [Handlers -> Events \cup {None}]
      /\ sm \in [Handlers -> Messages \cup {None}]
  BY DEF TypeOK
<1>1. ASSUME NEW h \in Handlers, NEW id \in Ids, NEW text \in Texts,
             NEW at \in 0 .. now + 1, Send(h, id, text, at)
      PROVE  AnnouncedInv'
  <2>1. PendingAnnounced'
    <3>1. ASSUME NEW k \in Handlers, sm'[k] # None
          PROVE  /\ sm'[k].user = UserOf[k]
                 /\ ev'[k] = Event("MESSAGE", sm'[k].id, k)
                      \/ Announced(sm[k])'
      <4>1. CASE k = h
        BY <1>1, <1>t, <4>1 DEF Send
      <4>2. CASE k # h
        <5>1. sm'[k] = sm[k] /\ ev'[k] = ev[k] /\ feed' = feed
          BY <1>1, <1>t, <4>2 DEF Send
        <5>2. QED
          BY <3>1, <5>1 DEF AnnouncedInv, PendingAnnounced, Announced
      <4>3. QED
        BY <4>1, <4>2
    <3>2. QED
      BY <3>1 DEF PendingAnnounced, Event
  <2>2. StoredAfterBroadcast' /\ JobsAnnounced'
    BY <1>1 DEF Send, store, AnnouncedInv, StoredAfterBroadcast, JobsAnnounced,
                Announced
  <2>3. QED
    BY <2>1, <2>2 DEF AnnouncedInv
<1>2. ASSUME NEW h \in Handlers, Broadcast(h) PROVE AnnouncedInv'
  <2>1. PendingAnnounced'
    <3>1. ASSUME NEW k \in Handlers, sm[k] # None
          PROVE  /\ sm[k].user = UserOf[k]
                 /\ ev'[k] = Event("MESSAGE", sm[k].id, k)
                      \/ Announced(sm[k])'
      <4>1. /\ sm[k].user = UserOf[k]
            /\ ev[k] = Event("MESSAGE", sm[k].id, k) \/ Announced(sm[k])
        BY <3>1 DEF AnnouncedInv, PendingAnnounced
      <4>2. CASE k = h
        <5>1. ev[k] \in feed' /\ sm' = sm
          BY <1>2, <4>2 DEF Broadcast
        <5>2. Announced(sm[k])'
          BY <4>1, <5>1, AnnouncedStays DEF Announced, Event
        <5>3. QED
          BY <4>1, <5>2
      <4>3. CASE k # h
        <5>1. ev'[k] = ev[k] /\ sm' = sm
          BY <1>2, <1>t, <4>3 DEF Broadcast
        <5>2. QED
          BY <4>1, <5>1, AnnouncedStays DEF Announced
      <4>4. QED
        BY <4>2, <4>3
    <3>2. sm' = sm
      BY <1>2 DEF Broadcast
    <3>3. QED
      BY <3>1, <3>2 DEF PendingAnnounced, Event, Announced
  <2>2. StoredAfterBroadcast' /\ JobsAnnounced'
    BY <1>2, AnnouncedStays
    DEF Broadcast, store, AnnouncedInv, StoredAfterBroadcast, JobsAnnounced
  <2>3. QED
    BY <2>1, <2>2 DEF AnnouncedInv
<1>3. ASSUME NEW h \in Handlers, NEW j \in Jobs, persistMessage(h, j)
      PROVE  AnnouncedInv'
  <2>1. sm[h] # None /\ ev[h] = None
    BY <1>3 DEF persistMessage
  <2>2. Announced(sm[h])
    <3>1. sm[h].id \in Ids
      BY <1>t, <2>1 DEF Messages, JobData
    <3>2. Event("MESSAGE", sm[h].id, h) \in Events
      BY <3>1, EventType
    <3>3. QED
      BY <2>1, <3>2, NoneAssumption DEF AnnouncedInv, PendingAnnounced
  <2>3. JobsAnnounced'
    BY <1>3, <1>t, <2>2
    DEF persistMessage, Start, AnnouncedInv, JobsAnnounced, Announced
  <2>4. PendingAnnounced'
    BY <1>3, <1>t DEF persistMessage, AnnouncedInv, PendingAnnounced, Announced
  <2>5. StoredAfterBroadcast'
    BY <1>3
    DEF persistMessage, store, AnnouncedInv, StoredAfterBroadcast, Announced
  <2>6. QED
    BY <2>3, <2>4, <2>5 DEF AnnouncedInv
<1>4. ASSUME NEW j \in Jobs, Insert(j) PROVE AnnouncedInv'
  <2>1. Announced(job[j]) /\ job[j] \in JobData
    BY <1>4 DEF Insert, AnnouncedInv, JobsAnnounced, TypeOK
  <2>2. /\ feed' = feed /\ sm' = sm /\ ev' = ev /\ job' = job
        /\ \A k \in Jobs : step'[k] = "insert" => step[k] = "insert"
    BY <1>4, <1>t DEF Insert, Goto
  <2>3. \A id \in Ids : docs'[id] # None =>
           \/ docs'[id] = docs[id]
           \/ id = job[j].id /\ docs'[id].sender = job[j].user
    BY <1>4, <1>t DEF Insert
  <2>4. StoredAfterBroadcast'
    BY <2>1, <2>2, <2>3 DEF AnnouncedInv, StoredAfterBroadcast, Announced
  <2>5. PendingAnnounced' /\ JobsAnnounced'
    BY <2>2 DEF AnnouncedInv, PendingAnnounced, JobsAnnounced, Announced
  <2>6. QED
    BY <2>4, <2>5 DEF AnnouncedInv
<1>5. ASSUME NEW h \in Handlers, NEW id \in Ids, NEW text \in Texts,
             Edit(h, id, text)
      PROVE  AnnouncedInv'
  <2>1. \A k \in Ids : docs'[k] # None =>
           docs[k] # None /\ docs'[k].sender = docs[k].sender
    BY <1>5, EditDoc, NoneAssumption
  <2>2. \A k \in Handlers : sm[k] # None => ev'[k] = ev[k]
    BY <1>5, <1>t DEF Edit, Announce, Idle
  <2>3. QED
    BY <1>5, <2>1, <2>2, AnnouncedKept DEF Edit
<1>6. ASSUME NEW h \in Handlers, NEW id \in Ids, Delete(h, id)
      PROVE  AnnouncedInv'
  <2>1. \A k \in Ids : docs'[k] # None =>
           docs[k] # None /\ docs'[k].sender = docs[k].sender
    BY <1>6, DeleteDoc, NoneAssumption
  <2>2. \A k \in Handlers : sm[k] # None => ev'[k] = ev[k]
    BY <1>6, <1>t DEF Delete, Announce, Idle
  <2>3. QED
    BY <1>6, <2>1, <2>2, AnnouncedKept DEF Delete
<1>7. ASSUME NEW h \in Handlers, NEW id \in Ids, NEW j \in Jobs,
             ReadReceipt(h, id, j) \/ GetMessages(h, id, j)
      PROVE  AnnouncedInv'
  <2>1. UNCHANGED <<docs, ev, sm>>
    BY <1>7 DEF ReadReceipt, GetMessages, store
  <2>2. \A k \in Jobs : step'[k] = "insert" =>
           step[k] = "insert" /\ job'[k] = job[k]
    BY <1>7, <1>t DEF ReadReceipt, GetMessages, Start
  <2>3. QED
    BY <2>1, <2>2, AnnouncedKept
<1>8. ASSUME NEW h \in Handlers, NEW ids \in SUBSET Ids,
             MarkMessageRead(h, ids)
      PROVE  AnnouncedInv'
  BY <1>8, AnnouncedKept DEF MarkMessageRead
<1>9. ASSUME NEW j \in Jobs,
             \/ UpdateConversation(j) \/ UpsertRead(j)
             \/ UpdateLastActivity(j) \/ Stamp(j) \/ UpdateReadReceipt(j)
      PROVE  AnnouncedInv'
  <2>1. UNCHANGED <<docs, ev, sm>>
    BY <1>9 DEF UpdateConversation, UpsertRead, UpdateLastActivity, Stamp,
                UpdateReadReceipt, store
  <2>2. \A k \in Jobs : step'[k] = "insert" =>
           step[k] = "insert" /\ job'[k] = job[k]
    BY <1>9, <1>t DEF UpdateConversation, UpsertRead, UpdateLastActivity, Stamp,
                      UpdateReadReceipt, Goto
  <2>3. QED
    BY <2>1, <2>2, AnnouncedKept
<1>10. CASE Crash
  <2>1. /\ docs' = docs /\ \A h \in Handlers : sm'[h] = None
        /\ \A j \in Jobs : step'[j] # "insert"
    BY <1>10 DEF Crash, store
  <2>2. QED
    BY <2>1, AnnouncedKept
<1>11. CASE UNCHANGED vars
  BY <1>11, AnnouncedKept DEF vars
<1>12. QED
  BY <1>1, <1>2, <1>3, <1>4, <1>5, <1>6, <1>7, <1>8, <1>9, <1>10, <1>11
  DEF Next, JobStep

\* A stored message was broadcast by its author before (grpc_server.go 253-270,
\* 638-639).
THEOREM StoredAlwaysAnnounced == Spec => []StoredAfterBroadcast
<1>1. Init => AnnouncedInv
  BY DEF Init, AnnouncedInv, StoredAfterBroadcast, PendingAnnounced,
         JobsAnnounced
<1>2. AnnouncedInv => StoredAfterBroadcast
  BY DEF AnnouncedInv
<1>3. QED
  BY <1>1, <1>2, AnnouncedStep, StoreTypeCorrect, PTL DEF Spec

=============================================================================
