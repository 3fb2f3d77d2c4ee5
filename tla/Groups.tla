------------------------------- MODULE Groups -------------------------------
(***************************************************************************)
(* One group conversation in MongoDB: its document in the conversations     *)
(* collection (participants, member_count) and the documents of its members *)
(* in group_members, as the group RPCs of app/server/grpc_server.go change  *)
(* them through app/repository/mongodb.go.                                  *)
(*                                                                         *)
(* Most RPCs run two commands without a transaction.  The first command is  *)
(* the step that starts an operation; what is left of it is its state, and  *)
(* other handlers may run in between.  A first command that fails ends the  *)
(* RPC and changes nothing; the error of a second one is dropped.  The      *)
(* index gm_conv_user allows one member document per user.                  *)
(***************************************************************************)
EXTENDS Integers, FiniteSets

CONSTANTS
    Users,
    Ops,        \* handlers that serve group RPCs
    MayFail,    \* whether second commands may fail
    None,
    MaxCalls    \* bound: RPCs that change the group

ASSUME UserAssumption  == None \notin Users /\ IsFiniteSet(Users)
ASSUME BoundAssumption == MaxCalls \in Nat /\ MayFail \in BOOLEAN

Roles    == {"OWNER", "ADMIN", "MEMBER"}
Statuses == {"ACTIVE", "INACTIVE"}
Docs     == [role : Roles, status : Statuses]

ASSUME NoneAssumption == None \notin Docs

VARIABLES
    phase,        \* "new", "live" or "gone": the conversation document
    participants, \* its participants
    count,        \* its member_count
    member,       \* [Users -> member document, or None]
    todo,         \* documents that CreateGroup has still to insert
    op,           \* [Ops -> what is left of the RPC it serves]
    calls,        \* RPCs so far
    unsettled,    \* history: users whose last change overlapped another one
                  \* or lost its second command
    contested     \* history: whether an owner was added or named wrongly, or
                  \* a transfer overlapped another one or was cut short

convVars == <<phase, participants, count>>
vars == <<phase, participants, count, member, todo, op, calls, unsettled,
          contested>>

Kinds == {"idle", "create", "add", "remove", "transfer", "delete"}
Idle  == [kind |-> "idle", user |-> None, alone |-> TRUE]

\* u's document is one that GetConversation asks for.
Active(u) == member[u] # None /\ member[u].status = "ACTIVE"

Owners == {u \in Users : member[u] # None /\ member[u].role = "OWNER"}

\* o is in the middle of changing whether u is a member.
Touches(o, u) ==
    \/ op[o].kind \in {"add", "remove"} /\ op[o].user = u
    \/ op[o].kind = "create" /\ u \in todo

\* Owners that a transfer in progress is about to demote.
Leaving == {u \in Users : \E o \in Ops : op[o].kind = "transfer" /\ op[o].user = u}

Init ==
    /\ phase = "new"
    /\ participants = {}
    /\ count = 0
    /\ member = [u \in Users |-> None]
    /\ todo = {}
    /\ op = [o \in Ops |-> Idle]
    /\ calls = 0
    /\ unsettled = {}
    /\ contested = FALSE

-----------------------------------------------------------------------------
(* The beginning and the end of an operation.                              *)

\* A handler has checked its arguments and calls the repository.
Begin(o) ==
    /\ op[o] = Idle
    /\ calls < MaxCalls
    /\ calls' = calls + 1

\* o goes on to change u's membership; operations on u that are under way are
\* disturbed, and disturb o.
Start(o, kind, u) ==
    op' = [x \in Ops |->
             IF x = o
                THEN [kind |-> kind, user |-> u,
                      alone |-> \A y \in Ops : ~Touches(y, u)]
                ELSE IF Touches(x, u) THEN [op[x] EXCEPT !.alone = FALSE]
                                      ELSE op[x]]

Finish(o) == op' = [op EXCEPT ![o] = Idle]

\* The second command of a change of u's membership was carried out.
Settle(o) ==
    unsettled' = IF op[o].alone THEN unsettled \ {op[o].user}
                                ELSE unsettled \cup {op[o].user}

-----------------------------------------------------------------------------
(* The operations.                                                         *)

\* The conversation is inserted; its id can be learned from now on.
CreateGroup(o, creator, others) ==
    /\ phase = "new"
    /\ Begin(o)
    /\ phase' = "live"
    /\ participants' = others \cup {creator}
    /\ count' = Cardinality(others \cup {creator})
    /\ todo' = others \cup {creator}
    /\ op' = [op EXCEPT ![o] =
                [kind |-> "create", user |-> creator, alone |-> TRUE]]
    /\ UNCHANGED <<member, unsettled, contested>>

\* InsertMany inserts the next member document ...
InsertMember(o, u) ==
    /\ op[o].kind = "create"
    /\ u \in todo
    /\ member[u] = None
    /\ member' = [member EXCEPT ![u] =
         [role   |-> IF u = op[o].user THEN "OWNER" ELSE "MEMBER",
          status |-> "ACTIVE"]]
    /\ todo' = todo \ {u}
    /\ IF todo = {u} THEN Finish(o) ELSE UNCHANGED op
    /\ UNCHANGED <<convVars, calls, unsettled, contested>>

\* ... and stops at a user who has one already, or at an error.
InsertStops(o) ==
    /\ op[o].kind = "create"
    /\ MayFail \/ \E u \in todo : member[u] # None
    /\ unsettled' = unsettled \cup todo
    /\ todo' = {}
    /\ Finish(o)
    /\ UNCHANGED <<convVars, member, calls, contested>>

\* Faulty variant of AddGroupMember: no upsert, so only a document that exists
\* is changed.
AddGroupMemberUpdates(o, u, role) ==
    /\ phase # "new"
    /\ Begin(o)
    /\ member' = IF member[u] = None THEN member
                 ELSE [member EXCEPT ![u] = [role |-> role, status |-> "ACTIVE"]]
    /\ Start(o, "add", u)
    /\ contested' = (contested \/ role = "OWNER")
    /\ UNCHANGED <<convVars, todo, unsettled>>

\* The member document is inserted or overwritten, whatever it was.
AddGroupMember(o, u, role) ==
    /\ phase # "new"
    /\ Begin(o)
    /\ member' = [member EXCEPT ![u] = [role |-> role, status |-> "ACTIVE"]]
    /\ Start(o, "add", u)
    /\ contested' = (contested \/ role = "OWNER")
    /\ UNCHANGED <<convVars, todo, unsettled>>

\* $addToSet and $inc, if the conversation is still there.
AddParticipant(o) ==
    /\ op[o].kind = "add"
    /\ IF phase = "live"
          THEN /\ participants' = participants \cup {op[o].user}
               /\ count' = count + 1
          ELSE UNCHANGED <<participants, count>>
    /\ Settle(o)
    /\ Finish(o)
    /\ UNCHANGED <<phase, member, todo, calls, contested>>

\* The member document, if there is one, becomes inactive.
RemoveGroupMember(o, u) ==
    /\ phase # "new"
    /\ Begin(o)
    /\ member' = IF member[u] = None THEN member
                 ELSE [member EXCEPT ![u].status = "INACTIVE"]
    /\ Start(o, "remove", u)
    /\ UNCHANGED <<convVars, todo, unsettled, contested>>

LeaveGroup(o, u) == RemoveGroupMember(o, u)

\* $pull and $inc by -1, whether or not the user was a participant.
PullParticipant(o) ==
    /\ op[o].kind = "remove"
    /\ IF phase = "live"
          THEN /\ participants' = participants \ {op[o].user}
               /\ count' = count - 1
          ELSE UNCHANGED <<participants, count>>
    /\ Settle(o)
    /\ Finish(o)
    /\ UNCHANGED <<phase, member, todo, calls, contested>>

\* An active member, the owner too, becomes an admin.
PromoteAdmin(o, u) ==
    /\ phase # "new"
    /\ Begin(o)
    /\ Active(u)
    /\ member' = [member EXCEPT ![u].role = "ADMIN"]
    /\ UNCHANGED <<convVars, todo, op, unsettled, contested>>

\* The new owner is promoted, if active; nobody checks who current is.
TransferOwnership(o, current, new) ==
    /\ phase # "new"
    /\ Begin(o)
    /\ member' = IF Active(new) THEN [member EXCEPT ![new].role = "OWNER"]
                                ELSE member
    /\ op' = IF current = None THEN op
             ELSE [op EXCEPT ![o] =
                     [kind |-> "transfer", user |-> current, alone |-> TRUE]]
    /\ contested' = \/ contested
                    \/ Owners \ {current, new} # {}
                    \/ \E x \in Ops : op[x].kind \in {"create", "transfer"}
    /\ UNCHANGED <<convVars, todo, unsettled>>

\* Faulty variant of Demote: only an active member is demoted.
DemoteActive(o) ==
    /\ op[o].kind = "transfer"
    /\ member' = IF ~Active(op[o].user) THEN member
                 ELSE [member EXCEPT ![op[o].user].role = "ADMIN"]
    /\ Finish(o)
    /\ UNCHANGED <<convVars, todo, calls, unsettled, contested>>

\* The current owner, if there is such a document, becomes an admin.
Demote(o) ==
    /\ op[o].kind = "transfer"
    /\ member' = IF member[op[o].user] = None THEN member
                 ELSE [member EXCEPT ![op[o].user].role = "ADMIN"]
    /\ Finish(o)
    /\ UNCHANGED <<convVars, todo, calls, unsettled, contested>>

\* The conversation is deleted, if it is still there ...
DeleteGroup(o) ==
    /\ phase # "new"
    /\ Begin(o)
    /\ phase' = "gone"
    /\ participants' = {}
    /\ count' = 0
    /\ op' = [op EXCEPT ![o] = [kind |-> "delete", user |-> None,
                                alone |-> TRUE]]
    /\ UNCHANGED <<member, todo, unsettled, contested>>

\* ... and then the documents of its members.
DeleteMembers(o) ==
    /\ op[o].kind = "delete"
    /\ member' = [u \in Users |-> None]
    /\ Finish(o)
    /\ UNCHANGED <<convVars, todo, calls, unsettled, contested>>

\* A second command fails, and its error is dropped.
SecondFails(o) ==
    /\ MayFail
    /\ op[o].kind \in {"add", "remove", "transfer", "delete"}
    /\ unsettled' = IF op[o].kind \in {"add", "remove"}
                       THEN unsettled \cup {op[o].user} ELSE unsettled
    /\ contested' = (contested \/ op[o].kind = "transfer")
    /\ Finish(o)
    /\ UNCHANGED <<convVars, member, todo, calls>>

Next ==
    \E o \in Ops :
       \/ \E u \in Users, others \in SUBSET Users : CreateGroup(o, u, others)
       \/ \E u \in Users : \/ InsertMember(o, u)
                           \/ \E role \in Roles : AddGroupMember(o, u, role)
                           \/ RemoveGroupMember(o, u)
                           \/ LeaveGroup(o, u)
                           \/ PromoteAdmin(o, u)
       \/ \E current \in Users \cup {None}, new \in Users :
             TransferOwnership(o, current, new)
       \/ InsertStops(o) \/ AddParticipant(o) \/ PullParticipant(o)
       \/ Demote(o) \/ DeleteGroup(o) \/ DeleteMembers(o) \/ SecondFails(o)

Spec == Init /\ [][Next]_vars

-----------------------------------------------------------------------------
(* Properties.                                                             *)

\* Every variable has its type; every member document has a role and a status.
TypeOK ==
    /\ phase \in {"new", "live", "gone"}
    /\ participants \subseteq Users
    /\ count \in Int
    /\ member \in [Users -> Docs \cup {None}]
    /\ todo \subseteq Users
    /\ op \in [Ops -> [kind : Kinds, user : Users \cup {None}, alone : BOOLEAN]]
    /\ calls \in 0 .. MaxCalls
    /\ unsettled \subseteq Users
    /\ contested \in BOOLEAN

\* The two collections agree on who is a member, for every user whose last
\* change was carried out undisturbed; such a change also repairs what earlier
\* ones left behind (mongodb.go 315-344, 394-416 and 419-434).
MembersAgree ==
    phase = "live" =>
       \A u \in Users \ unsettled :
          (\A o \in Ops : ~Touches(o, u)) => (u \in participants <=> Active(u))

\* There are never two owners, whatever members join, leave and are promoted
\* while a transfer runs, unless transfers overlap, fail half-way or name
\* somebody else as the owner (mongodb.go 441-470).
OneOwner ==
    ~contested => \A u, v \in Owners \ Leaving : u = v

=============================================================================
