---------------------------- MODULE MessageStore ----------------------------
(***************************************************************************)
(* What one room's messages go through after the hub: the handlers that     *)
(* send, edit, delete and read them (processIncoming and the unary RPCs of  *)
(* app/server/grpc_server.go), the goroutines that persistMessage and the   *)
(* read receipts start, and the documents and rows these write              *)
(* (app/repository/mongodb.go and postgres.go).  MongoDB and PostgreSQL are *)
(* both configured; each command is atomic there and nothing else is.       *)
(*                                                                         *)
(* The Mongo collection read_receipts and the id in chat_read_receipts are  *)
(* written and never read, and are left out.  A frame brings its own id and *)
(* its own sending time: ids may collide, also between users, and a frame    *)
(* may be late or carry no time; no clock is ahead.  Frames without an id   *)
(* are left out.                                                            *)
(***************************************************************************)
EXTENDS Naturals, FiniteSets

CONSTANTS
    Handlers,   \* Chat streams and unary calls
    Users,
    UserOf,     \* [Handlers -> Users]
    Ids,        \* message ids; a client chooses those of its frames
    Texts,
    MaxJobs,    \* bound: goroutines started
    MayFail,    \* whether a database command may fail
    MayCrash,   \* whether the pod may die
    None        \* no document, no event to broadcast, no text, no goroutine

Jobs == 1 .. MaxJobs
Times == Nat

Docs   == [sender : Users, text : Texts, deleted : BOOLEAN]
Events == [kind : {"MESSAGE", "EDIT", "DELETE"}, id : Ids, user : Users]
Steps  == {"free", "insert", "conversation", "read", "activity", "stamp",
           "cursor", "done"}

JobData == [id : Ids, user : Users, text : Texts \cup {None}, at : Times]

\* A message on its way to persistMessage.
Messages == {d \in JobData : d.text \in Texts}

ASSUME UserAssumption == UserOf \in [Handlers -> Users]
ASSUME BoundAssumption ==
    MaxJobs \in Nat /\ MayFail \in BOOLEAN /\ MayCrash \in BOOLEAN
ASSUME NoneAssumption ==
    /\ None \notin Docs /\ None \notin Events /\ None \notin JobData
    /\ None \notin Texts

VARIABLES
    docs,     \* [Ids -> Docs \cup {None}]: Mongo's messages
    readBy,   \* [Ids -> SUBSET Users, or None]: Mongo's message_read
    lastMsg,  \* last_message_at of the conversation in Mongo; 0 before any
    activity, \* chat_room_last_activity: last_message_at; 0 before any
    cursor,   \* [Users -> Times]: chat_read_receipts.last_read_at
    ev,       \* [Handlers -> Events \cup {None}]: to be broadcast
    sm,       \* [Handlers -> Messages \cup {None}]: to be persisted
    feed,     \* history: the events that were broadcast
    step,     \* [Jobs -> Steps]: the next command of each goroutine
    job,      \* [Jobs -> what the goroutine works on]
    now       \* the clock; every reading of it is a new time

store == <<docs, readBy, lastMsg, activity, cursor>>
vars  == <<docs, readBy, lastMsg, activity, cursor, ev, sm, feed, step, job,
          now>>

Event(kind, id, h) == [kind |-> kind, id |-> id, user |-> UserOf[h]]

Init ==
    /\ docs = [id \in Ids |-> None]
    /\ readBy = [id \in Ids |-> None]
    /\ lastMsg = 0
    /\ activity = 0
    /\ cursor = [u \in Users |-> 0]
    /\ ev = [h \in Handlers |-> None]
    /\ sm = [h \in Handlers |-> None]
    /\ feed = {}
    /\ step = [j \in Jobs |-> "free"]
    /\ job = [j \in Jobs |-> None]
    /\ now = 0

-----------------------------------------------------------------------------
(* The handlers.                                                           *)

\* A goroutine starts in slot j, the first that is free.
Start(j, first, data) ==
    /\ step[j] = "free"
    /\ \A k \in 1 .. j - 1 : step[k] # "free"
    /\ step' = [step EXCEPT ![j] = first]
    /\ job' = [job EXCEPT ![j] = data]

\* Bound: a slot is left for one more goroutine.
MayStart ==
    Cardinality({h \in Handlers : sm[h] # None})
       < Cardinality({j \in Jobs : step[j] = "free"})

\* The handler is between two frames, or the call has not begun.
Idle(h) == ev[h] = None /\ sm[h] = None

\* A message frame arrives, or SendMessage is called.  The message keeps the
\* time of the frame, from before now or 0 when there is none; SendMessage takes
\* the present one.
Send(h, id, text, at) ==
    /\ Idle(h) /\ MayStart
    /\ now' = now + 1
    /\ ev' = [ev EXCEPT ![h] = Event("MESSAGE", id, h)]
    /\ sm' = [sm EXCEPT ![h] =
          [id |-> id, user |-> UserOf[h], text |-> text, at |-> at]]
    /\ UNCHANGED <<store, feed, step, job>>

\* Faulty variant of persistMessage: it is called before the broadcast.
PersistFirst(h, j) ==
    /\ sm[h] # None
    /\ Start(j, "insert", sm[h])
    /\ sm' = [sm EXCEPT ![h] = None]
    /\ UNCHANGED <<store, ev, feed, now>>

\* Once the message is broadcast, persistMessage starts the goroutine that
\* stores it.
persistMessage(h, j) ==
    /\ ev[h] = None /\ sm[h] # None
    /\ Start(j, "insert", sm[h])
    /\ sm' = [sm EXCEPT ![h] = None]
    /\ UNCHANGED <<store, ev, feed, now>>

\* The document of id exists and belongs to the user of h.
Owns(h, id) == docs[id] # None /\ docs[id].sender = UserOf[h]

\* The outcome of an update that matched: its event is broadcast next, unless
\* the call named no conversation or the reply of the database was lost.
Announce(h, kind, id) ==
    \/ ev' = [ev EXCEPT ![h] = Event(kind, id, h)]
    \/ UNCHANGED ev

\* Faulty variant of Edit: deleted messages can be edited.
EditDeleted(h, id, text) ==
    /\ Idle(h)
    /\ Owns(h, id)
    /\ docs' = [docs EXCEPT ![id].text = text]
    /\ Announce(h, "EDIT", id)
    /\ UNCHANGED <<readBy, lastMsg, activity, cursor, sm, feed, step, job, now>>

\* An EDIT frame, or EditMessage: one update, which matches only a message of
\* this user that is not deleted.  Without a match, or when the command fails,
\* the handler returns with nothing done.
Edit(h, id, text) ==
    /\ Idle(h)
    /\ Owns(h, id) /\ ~docs[id].deleted
    /\ docs' = [docs EXCEPT ![id].text = text]
    /\ Announce(h, "EDIT", id)
    /\ UNCHANGED <<readBy, lastMsg, activity, cursor, sm, feed, step, job, now>>

\* Faulty variant of Delete: the event is broadcast whether or not the update
\* matched.
DeleteUnchecked(h, id) ==
    /\ Idle(h)
    /\ docs' = IF Owns(h, id) THEN [docs EXCEPT ![id].deleted = TRUE] ELSE docs
    /\ Announce(h, "DELETE", id)
    /\ UNCHANGED <<readBy, lastMsg, activity, cursor, sm, feed, step, job, now>>

\* A DELETE frame, or DeleteMessage: one update, which matches a message of
\* this user, deleted or not.
Delete(h, id) ==
    /\ Idle(h)
    /\ Owns(h, id)
    /\ docs' = [docs EXCEPT ![id].deleted = TRUE]
    /\ Announce(h, "DELETE", id)
    /\ UNCHANGED <<readBy, lastMsg, activity, cursor, sm, feed, step, job, now>>

\* The broadcast of a message, or of a stored edit or delete.
Broadcast(h) ==
    /\ ev[h] # None
    /\ feed' = feed \cup {ev[h]}
    /\ ev' = [ev EXCEPT ![h] = None]
    /\ UNCHANGED <<store, sm, step, job, now>>

\* A READ_RECEIPT frame: the time is taken before the goroutine starts.
ReadReceipt(h, id, j) ==
    /\ Idle(h) /\ MayStart
    /\ now' = now + 1
    /\ Start(j, "cursor",
             [id |-> id, user |-> UserOf[h], text |-> None, at |-> now + 1])
    /\ UNCHANGED <<store, ev, sm, feed>>

\* GetMessages found messages: its goroutine takes the time itself.
GetMessages(h, id, j) ==
    /\ Idle(h) /\ MayStart
    /\ docs[id] # None
    /\ Start(j, "stamp",
             [id |-> id, user |-> UserOf[h], text |-> None, at |-> 0])
    /\ UNCHANGED <<store, ev, sm, feed, now>>

\* MarkMessageRead adds the user to the message_read documents there are of
\* the given ids: one message, or all of the room.
MarkMessageRead(h, ids) ==
    /\ Idle(h)
    /\ readBy' = [id \in Ids |->
          IF id \in ids /\ readBy[id] # None
             THEN readBy[id] \cup {UserOf[h]} ELSE readBy[id]]
    /\ UNCHANGED <<docs, lastMsg, activity, cursor, ev, sm, feed, step, job,
                   now>>

-----------------------------------------------------------------------------
(* The goroutines.                                                         *)

Goto(j, next) == step' = [step EXCEPT ![j] = next]

\* Faulty variant of Insert: the document replaces one with the same id.
InsertReplaces(j) ==
    /\ step[j] = "insert"
    /\ docs' = [docs EXCEPT ![job[j].id] =
          [sender |-> job[j].user, text |-> job[j].text, deleted |-> FALSE]]
    /\ Goto(j, "conversation")
    /\ UNCHANGED <<readBy, lastMsg, activity, cursor, ev, sm, feed, job, now>>

\* SaveMessage inserts the document.  A duplicate id, or a failure, ends
\* SaveMessage; the goroutine goes on to PostgreSQL all the same.
Insert(j) ==
    /\ step[j] = "insert"
    /\ \/ /\ docs[job[j].id] = None
          /\ docs' = [docs EXCEPT ![job[j].id] =
                [sender |-> job[j].user, text |-> job[j].text,
                 deleted |-> FALSE]]
          /\ Goto(j, "conversation")
       \/ /\ docs[job[j].id] # None \/ MayFail
          /\ UNCHANGED docs
          /\ Goto(j, "activity")
    /\ UNCHANGED <<readBy, lastMsg, activity, cursor, ev, sm, feed, job, now>>

\* SaveMessage updates the conversation's last message.
UpdateConversation(j) ==
    /\ step[j] = "conversation"
    /\ \/ lastMsg' = job[j].at
       \/ MayFail /\ UNCHANGED lastMsg
    /\ Goto(j, "read")
    /\ UNCHANGED <<docs, readBy, activity, cursor, ev, sm, feed, job, now>>

\* The paths SaveMessage's upsert of message_read sets on insert, and adds to.
SetOnInsertPaths ==
    {"_id", "conversation_id", "sender_id", "content", "read_by"}
AddToSetPaths    == {"read_by"}

\* SaveMessage upserts the message_read document.  MongoDB refuses an update
\* in which two operators name the same path; the error is dropped.
UpsertRead(j) ==
    /\ step[j] = "read"
    /\ IF SetOnInsertPaths \cap AddToSetPaths = {}
          THEN readBy' = [readBy EXCEPT ![job[j].id] =
                  (IF @ = None THEN {} ELSE @) \cup {job[j].user}]
          ELSE UNCHANGED readBy
    /\ Goto(j, "activity")
    /\ UNCHANGED <<docs, lastMsg, activity, cursor, ev, sm, feed, job, now>>

\* UpdateLastActivity in PostgreSQL: the row is overwritten.
UpdateLastActivity(j) ==
    /\ step[j] = "activity"
    /\ \/ activity' = job[j].at
       \/ MayFail /\ UNCHANGED activity
    /\ Goto(j, "cursor")
    /\ UNCHANGED <<docs, readBy, lastMsg, cursor, ev, sm, feed, job, now>>

\* The goroutine of GetMessages reads the clock.
Stamp(j) ==
    /\ step[j] = "stamp"
    /\ now' = now + 1
    /\ job' = [job EXCEPT ![j].at = now + 1]
    /\ Goto(j, "cursor")
    /\ UNCHANGED <<store, ev, sm, feed>>

\* UpdateReadReceipt in PostgreSQL: the row is overwritten.
UpdateReadReceipt(j) ==
    /\ step[j] = "cursor"
    /\ \/ cursor' = [cursor EXCEPT ![job[j].user] = job[j].at]
       \/ MayFail /\ UNCHANGED cursor
    /\ Goto(j, "done")
    /\ UNCHANGED <<docs, readBy, lastMsg, activity, ev, sm, feed, job, now>>

\* The pod dies, or shuts down: nobody waits for the goroutines.
Crash ==
    /\ MayCrash
    /\ \E j \in Jobs : step[j] \notin {"free", "done"}
    /\ step' = [j \in Jobs |-> IF step[j] = "free" THEN "free" ELSE "done"]
    /\ ev' = [h \in Handlers |-> None]
    /\ sm' = [h \in Handlers |-> None]
    /\ UNCHANGED <<store, feed, job, now>>

JobStep(j) ==
    \/ Insert(j) \/ UpdateConversation(j) \/ UpsertRead(j)
    \/ UpdateLastActivity(j) \/ Stamp(j) \/ UpdateReadReceipt(j)

Next ==
    \/ \E h \in Handlers, id \in Ids :
          \/ \E text \in Texts : Edit(h, id, text)
          \/ \E text \in Texts, at \in 0 .. now + 1 : Send(h, id, text, at)
          \/ Delete(h, id)
          \/ \E j \in Jobs : ReadReceipt(h, id, j) \/ GetMessages(h, id, j)
          \/ MarkMessageRead(h, {id}) \/ MarkMessageRead(h, Ids)
    \/ \E h \in Handlers : Broadcast(h) \/ \E j \in Jobs : persistMessage(h, j)
    \/ \E j \in Jobs : JobStep(j)
    \/ Crash

Spec == Init /\ [][Next]_vars

-----------------------------------------------------------------------------
(* Properties.                                                             *)

\* Every variable has its type.
TypeOK ==
    /\ docs \in [Ids -> Docs \cup {None}]
    /\ readBy \in [Ids -> (SUBSET Users) \cup {None}]
    /\ lastMsg \in Times /\ activity \in Times
    /\ cursor \in [Users -> Times]
    /\ ev \in [Handlers -> Events \cup {None}]
    /\ sm \in [Handlers -> Messages \cup {None}]
    /\ feed \subseteq Events
    /\ step \in [Jobs -> Steps]
    /\ job \in [Jobs -> JobData \cup {None}]
    /\ \A j \in Jobs : step[j] # "free" => job[j] # None
    /\ \A j \in Jobs : step[j] = "insert" => job[j].text \in Texts
    /\ now \in Times

\* What an edit or delete event claims holds in the database: the message is
\* stored, it belongs to the event's user, and after a delete event it is
\* deleted, whoever else uses its id (grpc_server.go 194, 206-219).
Backed(e) ==
    e.kind \in {"EDIT", "DELETE"} =>
       /\ docs[e.id] # None
       /\ docs[e.id].sender = e.user
       /\ e.kind = "DELETE" => docs[e.id].deleted

EventsBacked == \A e \in feed : Backed(e)

\* History never holds what the room was not told: a stored message was
\* broadcast by its author before, although the goroutine that stores it runs on
\* its own, under an id others may use too (grpc_server.go 253-270, 638-639).
Announced(d) == [kind |-> "MESSAGE", id |-> d.id, user |-> d.user] \in feed

StoredAfterBroadcast ==
    \A id \in Ids :
       docs[id] # None => Announced([id |-> id, user |-> docs[id].sender])

\* A deleted message stays as it is: no edit, insert or second delete of
\* another handler brings it back or changes it (mongodb.go 642-677).
KeepDeleted ==
    \A id \in Ids :
       docs[id] # None /\ docs[id].deleted => docs'[id] = docs[id]

DeletedFrozen == [][KeepDeleted]_vars

\* The author of a stored message never changes, also when another user sends
\* a message with its id (mongodb.go 521-524).
KeepAuthors ==
    \A id \in Ids :
       docs[id] # None => docs'[id] # None /\ docs'[id].sender = docs[id].sender

AuthorFixed == [][KeepAuthors]_vars

=============================================================================
