------------------------------ MODULE RoomFeed ------------------------------
(***************************************************************************)
(* What one pod promises of its rooms, without locks, channels or          *)
(* goroutines: a stream joins one room once and leaves it once; a process  *)
(* posts messages to rooms; and a stream receives a message only while it  *)
(* is a member of the room the message was posted to, at most once, and in *)
(* its author's order.  Messages may be lost: a stream need not receive    *)
(* every post (hub.go drops messages of slow consumers).                   *)
(***************************************************************************)
EXTENDS Naturals, Sequences

CONSTANTS Streams, Procs, Rooms

VARIABLES
    member,   \* [Rooms -> SUBSET Streams]: who is in the room now
    left,     \* streams that have left their room
    posts,    \* [Procs -> Seq(Rooms)]: the room of each post of a process
    last      \* [Streams -> [Procs -> Nat]]: newest post of the process
              \* that the stream received

feedVars == <<member, left, posts, last>>

FeedInit ==
    /\ member = [r \in Rooms |-> {}]
    /\ left = {}
    /\ posts = [p \in Procs |-> <<>>]
    /\ last = [s \in Streams |-> [p \in Procs |-> 0]]

Join(s, r) ==
    /\ s \notin left
    /\ \A x \in Rooms : s \notin member[x]
    /\ member' = [member EXCEPT ![r] = @ \cup {s}]
    /\ UNCHANGED <<left, posts, last>>

Leave(s, r) ==
    /\ s \in member[r]
    /\ member' = [member EXCEPT ![r] = @ \ {s}]
    /\ left' = left \cup {s}
    /\ UNCHANGED <<posts, last>>

Post(p, r) ==
    /\ posts' = [posts EXCEPT ![p] = Append(@, r)]
    /\ UNCHANGED <<member, left, last>>

Receive(s, p, n) ==
    /\ last[s][p] < n
    /\ s \in member[posts[p][n]]
    /\ last' = [last EXCEPT ![s][p] = n]
    /\ UNCHANGED <<member, left, posts>>

FeedNext ==
    \/ \E s \in Streams, r \in Rooms : Join(s, r) \/ Leave(s, r)
    \/ \E p \in Procs, r \in Rooms : Post(p, r)
    \/ \E s \in Streams, p \in Procs : \E n \in 1 .. Len(posts[p]) :
          Receive(s, p, n)

FeedSpec == FeedInit /\ [][FeedNext]_feedVars

=============================================================================
