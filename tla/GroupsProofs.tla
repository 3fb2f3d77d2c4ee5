---------------------------- MODULE GroupsProofs ----------------------------
(***************************************************************************)
(* The two collections of a group agree on every settled user, and a group  *)
(* whose ownership is not contested has no two owners, for any number of    *)
(* users, handlers and RPCs and with second commands failing at will.       *)
(***************************************************************************)
EXTENDS Groups, FiniteSetTheorems, TLAPS

Changing == {"add", "remove"}

\* How operations, the conversation and the documents to insert hang together.
ShapeInv ==
    /\ \A o \in Ops : op[o].kind \in {"create", "add", "remove", "transfer"} =>
                         op[o].user \in Users
    /\ phase = "new" => /\ todo = {}
                        /\ \A o \in Ops : op[o].kind = "idle"
                        /\ \A u \in Users : member[u] = None
    /\ todo # {} => \E o \in Ops : op[o].kind = "create"
    /\ \A o \in Ops : op[o].kind = "delete" => phase = "gone"
    /\ \A o, x \in Ops : op[o].kind = "create" /\ op[x].kind = "create" => o = x

\* An undisturbed change has the user for itself, and the member document is
\* as its first command left it.
AloneInv ==
    \A o \in Ops, u \in Users :
       op[o].kind \in Changing /\ op[o].user = u /\ op[o].alone =>
          /\ \A x \in Ops : x # o => ~Touches(x, u)
          /\ phase = "live" => (op[o].kind = "add" <=> Active(u))

\* A user whose document is still to be inserted is a participant, unless a
\* change of the user got in between.
TodoInv ==
    phase = "live" =>
       \A u \in todo \ unsettled :
          (\A o \in Ops : ~(op[o].kind \in Changing /\ op[o].user = u)) =>
             u \in participants

AgreeInv == AloneInv /\ TodoInv /\ MembersAgree

\* Uncontested, transfers come one at a time, none during the creation.
OwnerInv ==
    ~contested =>
       /\ \A o, x \in Ops :
             op[o].kind = "transfer" /\ op[x].kind = "transfer" => o = x
       /\ \A o \in Ops : op[o].kind = "create" => Owners \subseteq {op[o].user}
       /\ \A u, v \in Owners \ Leaving : u = v

-----------------------------------------------------------------------------
(* The shared parts of the actions.                                        *)

\* What the start of a change does to the operations.
LEMMA StartFacts ==
    ASSUME TypeOK, NEW o \in Ops, NEW k \in Changing, NEW u \in Users,
           op[o] = Idle, Start(o, k, u)
    PROVE  /\ op' \in [Ops -> [kind : Kinds, user : Users \cup {None},
                               alone : BOOLEAN]]
           /\ op'[o].kind = k /\ op'[o].user = u
           /\ op'[o].alone => \A y \in Ops : ~Touches(y, u)
           /\ \A x \in Ops : x # o =>
                 /\ op'[x].kind = op[x].kind /\ op'[x].user = op[x].user
                 /\ op'[x].alone => op[x].alone /\ ~Touches(x, u)
  BY DEF TypeOK, Start, Changing, Kinds

\* What the end of an operation does.
LEMMA FinishFacts ==
    ASSUME TypeOK, NEW o \in Ops, Finish(o)
    PROVE  /\ op' \in [Ops -> [kind : Kinds, user : Users \cup {None},
                               alone : BOOLEAN]]
           /\ op'[o].kind = "idle"
           /\ \A x \in Ops : x # o => op'[x] = op[x]
  BY DEF TypeOK, Finish, Idle, Kinds

\* A change of the role of a document that exists leaves everything else alone.
LEMMA RoleFacts ==
    ASSUME TypeOK, NEW u \in Users, NEW r \in Roles, member[u] # None,
           member' = [member EXCEPT ![u].role = r]
    PROVE  /\ \A v \in Users : v # u => member'[v] = member[v]
           /\ member'[u] # None
           /\ member'[u].role = r
           /\ member'[u].status = member[u].status
<1>1. member[u] \in Docs
  BY DEF TypeOK
<1>2. /\ member'[u] = [member[u] EXCEPT !.role = r]
      /\ \A v \in Users : v # u => member'[v] = member[v]
  BY DEF TypeOK
<1>3. /\ [member[u] EXCEPT !.role = r] \in Docs
      /\ [member[u] EXCEPT !.role = r].role = r
      /\ [member[u] EXCEPT !.role = r].status = member[u].status
  BY <1>1 DEF Docs
<1>4. QED
  BY <1>2, <1>3, NoneAssumption

-----------------------------------------------------------------------------
(* Types and shape.                                                        *)

\* The initial state satisfies every part of the invariant.
LEMMA GroupInit == Init => TypeOK /\ ShapeInv /\ AgreeInv /\ OwnerInv
<1> SUFFICES ASSUME Init PROVE TypeOK /\ ShapeInv /\ AgreeInv /\ OwnerInv
  OBVIOUS
<1>1. TypeOK
  <2>1. Idle \in [kind : Kinds, user : Users \cup {None}, alone : BOOLEAN]
    BY DEF Idle, Kinds
  <2>2. member \in [Users -> Docs \cup {None}]
    BY DEF Init
  <2>3. calls \in 0 .. MaxCalls
    BY BoundAssumption DEF Init
  <2>4. op \in [Ops -> [kind : Kinds, user : Users \cup {None},
                          alone : BOOLEAN]]
    BY <2>1 DEF Init
  <2>5. contested \in BOOLEAN
    BY DEF Init
  <2>6. QED
    BY <2>2, <2>3, <2>4, <2>5 DEF Init, TypeOK
<1>2. \A o \in Ops : op[o].kind = "idle"
  BY DEF Init, Idle
<1>3. ShapeInv
  BY <1>2 DEF Init, ShapeInv
<1>4. AgreeInv
  BY <1>2 DEF Init, AgreeInv, AloneInv, TodoInv, MembersAgree, Changing
<1>5. Owners = {}
  BY DEF Init, Owners
<1>6. OwnerInv
  BY <1>2, <1>5 DEF OwnerInv
<1>7. QED
  BY <1>1, <1>3, <1>4, <1>6

\* Every action preserves types and shape.
LEMMA GroupShapeStep ==
    TypeOK /\ ShapeInv /\ [Next]_vars => TypeOK' /\ ShapeInv'
<1> SUFFICES ASSUME TypeOK, ShapeInv, [Next]_vars PROVE TypeOK' /\ ShapeInv'
  OBVIOUS
<1> USE UserAssumption, BoundAssumption
    DEF TypeOK, ShapeInv, Docs, Roles, Statuses, convVars, Begin
<1>1. ASSUME NEW o \in Ops, NEW u \in Users, NEW S \in SUBSET Users,
             CreateGroup(o, u, S)
      PROVE  TypeOK' /\ ShapeInv'
  <2>1. IsFiniteSet(S \cup {u})
    BY FS_Subset DEF CreateGroup
  <2>2. count' \in Int
    BY <1>1, <2>1, FS_CardinalityType DEF CreateGroup
  <2>3. QED
    BY <1>1, <2>2 DEF CreateGroup, Kinds, Idle
<1>2. ASSUME NEW o \in Ops, NEW u \in Users, InsertMember(o, u)
      PROVE  TypeOK' /\ ShapeInv'
  <2>1. CASE todo = {u}
    BY <1>2, <2>1, FinishFacts DEF InsertMember
  <2>2. CASE todo # {u}
    BY <1>2, <2>2 DEF InsertMember
  <2>3. QED
    BY <2>1, <2>2
<1>3. ASSUME NEW o \in Ops, InsertStops(o) PROVE TypeOK' /\ ShapeInv'
  BY <1>3, FinishFacts DEF InsertStops
<1>4. ASSUME NEW o \in Ops, NEW u \in Users, NEW r \in Roles,
             AddGroupMember(o, u, r)
      PROVE  TypeOK' /\ ShapeInv'
  <2>1. op[o] = Idle /\ Start(o, "add", u) /\ "add" \in Changing
    BY <1>4 DEF AddGroupMember, Changing
  <2>2. TypeOK'
    <3>1. member' \in [Users -> Docs \cup {None}]
      BY <1>4 DEF AddGroupMember
    <3>2. contested' \in BOOLEAN
      BY <1>4 DEF AddGroupMember
    <3>3. QED
      BY <1>4, <2>1, <3>1, <3>2, StartFacts DEF AddGroupMember
  <2>3. /\ op[o].kind = "idle" /\ op'[o].kind = "add" /\ op'[o].user = u
        /\ \A x \in Ops : x # o => /\ op'[x].kind = op[x].kind
                                   /\ op'[x].user = op[x].user
    <3>1. op[o].kind = "idle"
      BY <2>1 DEF Idle
    <3>2. QED
      BY <2>1, <3>1, StartFacts
  <2>4. ShapeInv'
    BY <1>4, <2>3 DEF AddGroupMember
  <2>5. QED
    BY <2>2, <2>4
<1>5. ASSUME NEW o \in Ops, AddParticipant(o) PROVE TypeOK' /\ ShapeInv'
  <2>1. op[o].user \in Users /\ op[o].kind = "add" /\ Finish(o)
    BY <1>5 DEF AddParticipant
  <2>2. participants' \subseteq Users /\ count' \in Int /\ unsettled' \subseteq Users
    BY <1>5, <2>1 DEF AddParticipant, Settle
  <2>3. TypeOK'
    BY <1>5, <2>1, <2>2, FinishFacts DEF AddParticipant
  <2>4. ShapeInv'
    BY <1>5, <2>1, FinishFacts DEF AddParticipant
  <2>5. QED
    BY <2>3, <2>4
<1>6. ASSUME NEW o \in Ops, NEW u \in Users, RemoveGroupMember(o, u)
      PROVE  TypeOK' /\ ShapeInv'
  <2>1. op[o] = Idle /\ Start(o, "remove", u) /\ "remove" \in Changing
    BY <1>6 DEF RemoveGroupMember, Changing
  <2>2. member' \in [Users -> Docs \cup {None}]
    BY <1>6 DEF RemoveGroupMember
  <2>3. TypeOK'
    BY <1>6, <2>1, <2>2, StartFacts DEF RemoveGroupMember
  <2>4. op[o].kind = "idle"
    BY <2>1 DEF Idle
  <2>5. /\ op'[o].kind = "remove" /\ op'[o].user = u
        /\ \A x \in Ops : x # o => /\ op'[x].kind = op[x].kind
                                   /\ op'[x].user = op[x].user
    BY <2>1, StartFacts
  <2>6. ShapeInv'
    BY <1>6, <2>4, <2>5 DEF RemoveGroupMember
  <2>7. QED
    BY <2>3, <2>6
<1>7. ASSUME NEW o \in Ops, PullParticipant(o) PROVE TypeOK' /\ ShapeInv'
  <2>1. op[o].user \in Users /\ op[o].kind = "remove" /\ Finish(o)
    BY <1>7 DEF PullParticipant
  <2>2. participants' \subseteq Users /\ count' \in Int /\ unsettled' \subseteq Users
    BY <1>7, <2>1 DEF PullParticipant, Settle
  <2>3. TypeOK'
    BY <1>7, <2>1, <2>2, FinishFacts DEF PullParticipant
  <2>4. ShapeInv'
    BY <1>7, <2>1, FinishFacts DEF PullParticipant
  <2>5. QED
    BY <2>3, <2>4
<1>8. ASSUME NEW o \in Ops, NEW u \in Users, PromoteAdmin(o, u)
      PROVE  TypeOK' /\ ShapeInv'
  BY <1>8 DEF PromoteAdmin, Active
<1>9. ASSUME NEW o \in Ops, NEW c \in Users \cup {None}, NEW n \in Users,
             TransferOwnership(o, c, n)
      PROVE  TypeOK' /\ ShapeInv'
  BY <1>9 DEF TransferOwnership, Active, Kinds, Idle
<1>10. ASSUME NEW o \in Ops, Demote(o) PROVE TypeOK' /\ ShapeInv'
  BY <1>10, FinishFacts DEF Demote
<1>11. ASSUME NEW o \in Ops, DeleteGroup(o) PROVE TypeOK' /\ ShapeInv'
  BY <1>11 DEF DeleteGroup, Kinds, Idle
<1>12. ASSUME NEW o \in Ops, DeleteMembers(o) PROVE TypeOK' /\ ShapeInv'
  BY <1>12, FinishFacts DEF DeleteMembers
<1>13. ASSUME NEW o \in Ops, SecondFails(o) PROVE TypeOK' /\ ShapeInv'
  BY <1>13, FinishFacts DEF SecondFails
<1>14. CASE UNCHANGED vars
  BY <1>14 DEF vars
<1>15. QED
  BY <1>1, <1>2, <1>3, <1>4, <1>5, <1>6, <1>7, <1>8, <1>9, <1>10, <1>11,
     <1>12, <1>13, <1>14
  DEF Next, LeaveGroup

-----------------------------------------------------------------------------
(* Agreement of the two collections.                                       *)

\* An operation that changes u's membership starts.
LEMMA StartAgrees ==
    ASSUME TypeOK, AgreeInv, NEW o \in Ops, NEW k \in Changing, NEW u \in Users,
           op[o] = Idle, Start(o, k, u), UNCHANGED <<convVars, todo, unsettled>>,
           \A v \in Users : v # u => member'[v] = member[v],
           k = "add" <=> Active(u)'
    PROVE  AgreeInv'
<1>1. /\ op[o].kind = "idle" /\ op'[o].kind = k /\ op'[o].user = u
      /\ op'[o].alone => \A y \in Ops : ~Touches(y, u)
      /\ \A x \in Ops : x # o =>
            /\ op'[x].kind = op[x].kind /\ op'[x].user = op[x].user
            /\ op'[x].alone => op[x].alone /\ ~Touches(x, u)
  <2>1. op[o].kind = "idle"
    BY DEF Idle
  <2>2. QED
    BY <2>1, StartFacts
<1>2. k \in {"add", "remove"}
  BY DEF Changing
<1>3. \A x \in Ops, v \in Users :
         Touches(x, v)' <=> Touches(x, v) \/ (x = o /\ v = u)
  BY <1>1, <1>2 DEF Touches
<1>4. \A v \in Users : v # u => (Active(v)' <=> Active(v))
  BY DEF Active
<1>5. AloneInv'
  <2> SUFFICES ASSUME NEW x \in Ops, NEW v \in Users, op'[x].kind \in Changing,
                      op'[x].user = v, op'[x].alone
               PROVE  /\ \A y \in Ops : y # x => ~Touches(y, v)'
                      /\ phase' = "live" => (op'[x].kind = "add" <=> Active(v)')
    BY DEF AloneInv
  <2>1. CASE x = o
    BY <1>1, <1>3, <2>1
  <2>2. CASE x # o
    <3>1. /\ op[x].kind \in Changing /\ op[x].user = v /\ op[x].alone
          /\ op'[x].kind = op[x].kind /\ ~Touches(x, u)
      BY <1>1, <2>2
    <3>2. v # u
      BY <3>1 DEF Touches, Changing
    <3>3. /\ \A y \in Ops : y # x => ~Touches(y, v)
          /\ phase = "live" => (op[x].kind = "add" <=> Active(v))
      BY <3>1 DEF AgreeInv, AloneInv
    <3>4. QED
      BY <1>3, <1>4, <3>1, <3>2, <3>3 DEF convVars
  <2>3. QED
    BY <2>1, <2>2
<1>6. TodoInv'
  BY <1>1, <1>2 DEF AgreeInv, TodoInv, Changing, convVars
<1>7. MembersAgree'
  BY <1>3, <1>4 DEF AgreeInv, MembersAgree, convVars
<1>8. QED
  BY <1>5, <1>6, <1>7 DEF AgreeInv

\* An operation that changes membership ends, or loses its second command.
LEMMA FinishAgrees ==
    ASSUME TypeOK, ShapeInv, AgreeInv, NEW o \in Ops, Finish(o),
           op[o].kind \in Changing, UNCHANGED <<phase, member, todo>>,
           \A v \in Users : v # op[o].user =>
              /\ v \in participants' <=> v \in participants
              /\ v \in unsettled' <=> v \in unsettled,
           \/ op[o].user \in unsettled'
           \/ /\ op[o].alone
              /\ phase = "live" =>
                    (op[o].user \in participants' <=> op[o].kind = "add")
    PROVE  AgreeInv'
<1> DEFINE u == op[o].user
<1>1. op'[o].kind = "idle" /\ \A x \in Ops : x # o => op'[x] = op[x]
  BY FinishFacts
<1>2. u \in Users /\ op[o].kind \in {"add", "remove"}
  BY DEF ShapeInv, Changing
<1>3. \A x \in Ops, v \in Users : Touches(x, v)' <=> Touches(x, v) /\ x # o
  BY <1>1, <1>2 DEF Touches
<1>4. \A v \in Users : v # u => ~Touches(o, v)
  BY <1>2 DEF Touches
<1>5. \A v \in Users : Active(v)' <=> Active(v)
  BY DEF Active
<1>6. ASSUME op[o].alone, u \in todo PROVE FALSE
  <2>1. PICK y \in Ops : op[y].kind = "create"
    BY <1>6 DEF ShapeInv
  <2>2. y # o /\ Touches(y, u)
    BY <1>2, <1>6, <2>1 DEF Touches
  <2>3. QED
    BY <1>2, <1>6, <2>2 DEF AgreeInv, AloneInv
<1>7. AloneInv'
  <2> SUFFICES ASSUME NEW x \in Ops, NEW v \in Users, op'[x].kind \in Changing,
                      op'[x].user = v, op'[x].alone
               PROVE  /\ \A y \in Ops : y # x => ~Touches(y, v)'
                      /\ phase' = "live" => (op'[x].kind = "add" <=> Active(v)')
    BY DEF AloneInv
  <2>1. x # o /\ op'[x] = op[x]
    BY <1>1 DEF Changing
  <2>2. QED
    BY <1>3, <1>5, <2>1 DEF AgreeInv, AloneInv
<1>8. TodoInv'
  <2> SUFFICES ASSUME phase = "live", NEW v \in todo, v \notin unsettled',
                      \A x \in Ops : ~(op'[x].kind \in Changing /\ op'[x].user = v)
               PROVE  v \in participants'
    BY DEF TodoInv
  <2>1. v \in Users /\ v # u
    BY <1>6 DEF TypeOK
  <2>2. \A x \in Ops : ~(op[x].kind \in Changing /\ op[x].user = v)
    BY <1>1, <2>1
  <2>3. QED
    BY <2>1, <2>2 DEF AgreeInv, TodoInv
<1>9. MembersAgree'
  <2> SUFFICES ASSUME phase = "live", NEW v \in Users, v \notin unsettled',
                      \A x \in Ops : ~Touches(x, v)'
               PROVE  v \in participants' <=> Active(v)
    BY <1>5 DEF MembersAgree
  <2>1. CASE v = u
    BY <2>1 DEF AgreeInv, AloneInv
  <2>2. CASE v # u
    BY <1>3, <1>4, <2>2 DEF AgreeInv, MembersAgree
  <2>3. QED
    BY <2>1, <2>2
<1>10. QED
  BY <1>7, <1>8, <1>9 DEF AgreeInv

\* A step that is about roles, or about a group that is gone, changes nothing
\* that the agreement is about.
LEMMA OtherAgrees ==
    ASSUME TypeOK, AgreeInv, UNCHANGED <<todo, unsettled>>,
           phase' = "live" => /\ UNCHANGED <<phase, participants>>
                              /\ \A v \in Users : Active(v)' <=> Active(v),
           \A x \in Ops : \/ op'[x] = op[x]
                          \/ /\ op[x].kind \notin {"create", "add", "remove"}
                             /\ op'[x].kind \notin {"create", "add", "remove"}
    PROVE  AgreeInv'
<1>1. \A x \in Ops, v \in Users : Touches(x, v)' <=> Touches(x, v)
  BY DEF Touches
<1>2. AloneInv'
  <2> SUFFICES ASSUME NEW x \in Ops, NEW v \in Users, op'[x].kind \in Changing,
                      op'[x].user = v, op'[x].alone
               PROVE  /\ \A y \in Ops : y # x => ~Touches(y, v)'
                      /\ phase' = "live" => (op'[x].kind = "add" <=> Active(v)')
    BY DEF AloneInv
  <2>1. op'[x] = op[x]
    BY DEF Changing
  <2>2. /\ \A y \in Ops : y # x => ~Touches(y, v)
        /\ phase = "live" => (op[x].kind = "add" <=> Active(v))
    BY <2>1 DEF AgreeInv, AloneInv
  <2>3. QED
    BY <1>1, <2>1, <2>2
<1>3. TodoInv'
  BY DEF AgreeInv, TodoInv, Changing
<1>4. MembersAgree'
  BY <1>1 DEF AgreeInv, MembersAgree
<1>5. QED
  BY <1>2, <1>3, <1>4 DEF AgreeInv

\* Every action preserves the agreement.
LEMMA GroupAgreeStep ==
    TypeOK /\ ShapeInv /\ AgreeInv /\ [Next]_vars => AgreeInv'
<1> SUFFICES ASSUME TypeOK, ShapeInv, AgreeInv, [Next]_vars PROVE AgreeInv'
  OBVIOUS
<1>1. ASSUME NEW o \in Ops, NEW u \in Users, NEW S \in SUBSET Users,
             CreateGroup(o, u, S)
      PROVE  AgreeInv'
  <2>1. /\ op'[o].kind = "create" /\ todo' = participants'
        /\ \A x \in Ops : op'[x].kind \notin Changing
    BY <1>1 DEF CreateGroup, ShapeInv, TypeOK, Changing
  <2>2. \A v \in Users : ~Active(v)'
    BY <1>1 DEF CreateGroup, ShapeInv, Active
  <2>3. \A v \in participants' : Touches(o, v)'
    BY <2>1 DEF Touches
  <2>4. QED
    BY <2>1, <2>2, <2>3 DEF AgreeInv, AloneInv, TodoInv, MembersAgree
<1>2. ASSUME NEW o \in Ops, NEW u \in Users, InsertMember(o, u)
      PROVE  AgreeInv'
  <2>1. /\ op[o].kind = "create" /\ u \in todo /\ todo' = todo \ {u}
        /\ UNCHANGED <<phase, participants, unsettled>>
    BY <1>2 DEF InsertMember, convVars
  <2>2. /\ \A x \in Ops : x # o => op'[x] = op[x]
        /\ op'[o] = op[o] \/ (op'[o].kind = "idle" /\ todo' = {})
    BY <1>2, FinishFacts DEF InsertMember
  <2>3. Active(u)' /\ \A v \in Users : v # u => (Active(v)' <=> Active(v))
    <3>1. member'[u] \in Docs /\ member'[u].status = "ACTIVE"
      BY <1>2 DEF InsertMember, TypeOK, Docs, Roles, Statuses
    <3>2. \A v \in Users : v # u => member'[v] = member[v]
      BY <1>2 DEF InsertMember, TypeOK
    <3>3. QED
      BY <3>1, <3>2, NoneAssumption DEF Active
  <2>4. \A x \in Ops : \/ op'[x] = op[x]
                       \/ op[x].kind \notin Changing /\ op'[x].kind \notin Changing
    BY <2>1, <2>2 DEF Changing
  <2>5. \A x \in Ops, v \in Users :
           Touches(x, v)' => Touches(x, v) /\ (op[x].kind \in Changing \/ v # u)
    BY <2>1, <2>2 DEF Touches, Changing
  <2>6. \A x \in Ops, v \in Users : v # u /\ Touches(x, v) => Touches(x, v)'
    BY <2>1, <2>2 DEF Touches
  <2>7. AloneInv'
    <3> SUFFICES ASSUME NEW x \in Ops, NEW v \in Users, op'[x].kind \in Changing,
                        op'[x].user = v, op'[x].alone
                 PROVE  /\ \A y \in Ops : y # x => ~Touches(y, v)'
                        /\ phase' = "live" => (op'[x].kind = "add" <=> Active(v)')
      BY DEF AloneInv
    <3>1. op'[x] = op[x] /\ x # o
      BY <2>1, <2>4 DEF Changing
    <3>2. /\ \A y \in Ops : y # x => ~Touches(y, v)
          /\ phase = "live" => (op[x].kind = "add" <=> Active(v))
      BY <3>1 DEF AgreeInv, AloneInv
    <3>3. v # u
      BY <2>1, <3>1, <3>2 DEF Touches
    <3>4. QED
      BY <2>1, <2>3, <2>5, <3>1, <3>2, <3>3
  <2>8. TodoInv'
    BY <2>1, <2>4 DEF AgreeInv, TodoInv
  <2>9. MembersAgree'
    <3> SUFFICES ASSUME phase = "live", NEW v \in Users, v \notin unsettled,
                        \A x \in Ops : ~Touches(x, v)'
                 PROVE  v \in participants <=> Active(v)'
      BY <2>1 DEF MembersAgree
    <3>1. CASE v = u
      <4>1. \A x \in Ops : ~(op[x].kind \in Changing /\ op[x].user = u)
        BY <2>4, <3>1 DEF Touches, Changing
      <4>2. u \in participants
        BY <2>1, <3>1, <4>1 DEF AgreeInv, TodoInv
      <4>3. QED
        BY <2>3, <3>1, <4>2
    <3>2. CASE v # u
      BY <2>3, <2>6, <3>2 DEF AgreeInv, MembersAgree
    <3>3. QED
      BY <3>1, <3>2
  <2>10. QED
    BY <2>7, <2>8, <2>9 DEF AgreeInv
<1>3. ASSUME NEW o \in Ops, InsertStops(o) PROVE AgreeInv'
  <2>1. /\ op[o].kind = "create" /\ todo' = {} /\ unsettled' = unsettled \cup todo
        /\ UNCHANGED <<phase, participants, member>>
        /\ op'[o].kind = "idle" /\ \A x \in Ops : x # o => op'[x] = op[x]
    BY <1>3, FinishFacts DEF InsertStops, convVars
  <2>2. \A v \in Users : Active(v)' <=> Active(v)
    BY <2>1 DEF Active
  <2>3. \A x \in Ops, v \in Users : Touches(x, v)' => Touches(x, v)
    BY <2>1 DEF Touches
  <2>4. \A x \in Ops, v \in Users : v \notin todo /\ Touches(x, v) => Touches(x, v)'
    BY <2>1 DEF Touches
  <2>5. AloneInv'
    <3>1. \A x \in Ops : op'[x].kind \in Changing => op'[x] = op[x]
      BY <2>1 DEF Changing
    <3>2. QED
      BY <2>1, <2>2, <2>3, <3>1 DEF AgreeInv, AloneInv
  <2>6. TodoInv' /\ MembersAgree'
    BY <2>1, <2>2, <2>4 DEF AgreeInv, TodoInv, MembersAgree
  <2>7. QED
    BY <2>5, <2>6 DEF AgreeInv
<1>4. ASSUME NEW o \in Ops, NEW u \in Users, NEW r \in Roles,
             AddGroupMember(o, u, r)
      PROVE  AgreeInv'
  <2>1. "add" \in Changing /\ op[o] = Idle /\ Start(o, "add", u)
    BY <1>4 DEF AddGroupMember, Begin, Changing
  <2>2. Active(u)' /\ \A v \in Users : v # u => member'[v] = member[v]
    <3>1. member'[u] \in Docs /\ member'[u].status = "ACTIVE"
      BY <1>4 DEF AddGroupMember, TypeOK, Docs, Statuses
    <3>2. \A v \in Users : v # u => member'[v] = member[v]
      BY <1>4 DEF AddGroupMember, TypeOK
    <3>3. QED
      BY <3>1, <3>2, NoneAssumption DEF Active
  <2>3. UNCHANGED <<convVars, todo, unsettled>>
    BY <1>4 DEF AddGroupMember
  <2>4. QED
    BY <2>1, <2>2, <2>3, StartAgrees
<1>5. ASSUME NEW o \in Ops, AddParticipant(o) PROVE AgreeInv'
  <2>1. op[o].kind \in Changing /\ op[o].kind = "add" /\ Finish(o)
    BY <1>5 DEF AddParticipant, Changing
  <2>2. UNCHANGED <<phase, member, todo>>
    BY <1>5 DEF AddParticipant
  <2>3. \A v \in Users : v # op[o].user =>
           /\ v \in participants' <=> v \in participants
           /\ v \in unsettled' <=> v \in unsettled
    BY <1>5 DEF AddParticipant, Settle
  <2>4. \/ op[o].user \in unsettled'
        \/ op[o].alone /\ (phase = "live" => op[o].user \in participants')
    BY <1>5 DEF AddParticipant, Settle
  <2>5. QED
    BY <2>1, <2>2, <2>3, <2>4, FinishAgrees
<1>6. ASSUME NEW o \in Ops, NEW u \in Users, RemoveGroupMember(o, u)
      PROVE  AgreeInv'
  <2>1. "remove" \in Changing /\ op[o] = Idle /\ Start(o, "remove", u)
    BY <1>6 DEF RemoveGroupMember, Begin, Changing
  <2>2. ~Active(u)' /\ \A v \in Users : v # u => member'[v] = member[v]
    BY <1>6 DEF RemoveGroupMember, Active, TypeOK, Docs
  <2>3. UNCHANGED <<convVars, todo, unsettled>>
    BY <1>6 DEF RemoveGroupMember
  <2>4. QED
    BY <2>1, <2>2, <2>3, StartAgrees
<1>7. ASSUME NEW o \in Ops, PullParticipant(o) PROVE AgreeInv'
  <2>1. op[o].kind \in Changing /\ op[o].kind = "remove" /\ Finish(o)
    BY <1>7 DEF PullParticipant, Changing
  <2>2. UNCHANGED <<phase, member, todo>>
    BY <1>7 DEF PullParticipant
  <2>3. \A v \in Users : v # op[o].user =>
           /\ v \in participants' <=> v \in participants
           /\ v \in unsettled' <=> v \in unsettled
    BY <1>7 DEF PullParticipant, Settle
  <2>4. \/ op[o].user \in unsettled'
        \/ op[o].alone /\ (phase = "live" => op[o].user \notin participants')
    BY <1>7 DEF PullParticipant, Settle
  <2>5. QED
    BY <2>1, <2>2, <2>3, <2>4, FinishAgrees
<1>8. ASSUME NEW o \in Ops, NEW u \in Users, PromoteAdmin(o, u) PROVE AgreeInv'
  <2>1. \A v \in Users : Active(v)' <=> Active(v)
    BY <1>8, RoleFacts DEF PromoteAdmin, Active, Roles
  <2>2. QED
    BY <1>8, <2>1, OtherAgrees DEF PromoteAdmin, convVars
<1>9. ASSUME NEW o \in Ops, NEW c \in Users \cup {None}, NEW n \in Users,
             TransferOwnership(o, c, n)
      PROVE  AgreeInv'
  <2>1. \A v \in Users : Active(v)' <=> Active(v)
    BY <1>9, RoleFacts DEF TransferOwnership, Active, Roles
  <2>2. \A x \in Ops : \/ op'[x] = op[x]
                       \/ /\ op[x].kind \notin {"create", "add", "remove"}
                          /\ op'[x].kind \notin {"create", "add", "remove"}
    BY <1>9 DEF TransferOwnership, Begin, Idle, TypeOK
  <2>3. QED
    BY <1>9, <2>1, <2>2, OtherAgrees DEF TransferOwnership, convVars
<1>10. ASSUME NEW o \in Ops, Demote(o) PROVE AgreeInv'
  <2>1. \A v \in Users : Active(v)' <=> Active(v)
    <3>1. op[o].user \in Users
      BY <1>10 DEF Demote, ShapeInv
    <3>2. QED
      BY <1>10, <3>1, RoleFacts DEF Demote, Active, Roles
  <2>2. \A x \in Ops : \/ op'[x] = op[x]
                       \/ /\ op[x].kind \notin {"create", "add", "remove"}
                          /\ op'[x].kind \notin {"create", "add", "remove"}
    BY <1>10, FinishFacts DEF Demote
  <2>3. QED
    BY <1>10, <2>1, <2>2, OtherAgrees DEF Demote, convVars
<1>11. ASSUME NEW o \in Ops, DeleteGroup(o) PROVE AgreeInv'
  <2>1. \A x \in Ops : \/ op'[x] = op[x]
                       \/ /\ op[x].kind \notin {"create", "add", "remove"}
                          /\ op'[x].kind \notin {"create", "add", "remove"}
    BY <1>11 DEF DeleteGroup, Begin, Idle, TypeOK
  <2>2. QED
    BY <1>11, <2>1, OtherAgrees DEF DeleteGroup
<1>12. ASSUME NEW o \in Ops, DeleteMembers(o) PROVE AgreeInv'
  <2>1. \A x \in Ops : \/ op'[x] = op[x]
                       \/ /\ op[x].kind \notin {"create", "add", "remove"}
                          /\ op'[x].kind \notin {"create", "add", "remove"}
    BY <1>12, FinishFacts DEF DeleteMembers
  <2>2. phase' = "gone"
    BY <1>12 DEF DeleteMembers, ShapeInv, convVars
  <2>3. QED
    BY <1>12, <2>1, <2>2, OtherAgrees DEF DeleteMembers
<1>13. ASSUME NEW o \in Ops, SecondFails(o) PROVE AgreeInv'
  <2>1. CASE op[o].kind \in Changing
    <3>1. UNCHANGED <<phase, participants, member, todo>> /\ Finish(o)
      BY <1>13 DEF SecondFails, convVars
    <3>2. unsettled' = unsettled \cup {op[o].user}
      BY <1>13, <2>1 DEF SecondFails, Changing
    <3>3. QED
      BY <2>1, <3>1, <3>2, FinishAgrees
  <2>2. CASE op[o].kind \notin Changing
    <3>1. \A x \in Ops : \/ op'[x] = op[x]
                         \/ /\ op[x].kind \notin {"create", "add", "remove"}
                            /\ op'[x].kind \notin {"create", "add", "remove"}
      BY <1>13, <2>2, FinishFacts DEF SecondFails, Changing
    <3>2. \A v \in Users : Active(v)' <=> Active(v)
      BY <1>13 DEF SecondFails, Active
    <3>3. UNCHANGED <<phase, participants, todo, unsettled>>
      BY <1>13, <2>2 DEF SecondFails, convVars, Changing
    <3>4. QED
      BY <3>1, <3>2, <3>3, OtherAgrees
  <2>3. QED
    BY <2>1, <2>2
<1>14. CASE UNCHANGED vars
  BY <1>14, OtherAgrees DEF vars, Active
<1>15. QED
  BY <1>1, <1>2, <1>3, <1>4, <1>5, <1>6, <1>7, <1>8, <1>9, <1>10, <1>11,
     <1>12, <1>13, <1>14
  DEF Next, LeaveGroup

-----------------------------------------------------------------------------
(* Ownership.                                                              *)

\* A step that makes nobody an owner, and starts or ends no transfer, leaves
\* the ownership as it was.
LEMMA OwnersShrink ==
    ASSUME OwnerInv, contested => contested', Owners' \subseteq Owners,
           \A x \in Ops :
              /\ op'[x].kind \in {"create", "transfer"} =>
                    op'[x].kind = op[x].kind /\ op'[x].user = op[x].user
              /\ op[x].kind = "transfer" =>
                    op'[x].kind = "transfer" /\ op'[x].user = op[x].user
    PROVE  OwnerInv'
<1>1. Leaving' = Leaving
  BY DEF Leaving
<1>2. QED
  BY <1>1 DEF OwnerInv

\* Every action preserves the ownership.
LEMMA GroupOwnerStep ==
    TypeOK /\ ShapeInv /\ OwnerInv /\ [Next]_vars => OwnerInv'
<1> SUFFICES ASSUME TypeOK, ShapeInv, OwnerInv, [Next]_vars PROVE OwnerInv'
  OBVIOUS
<1>1. ASSUME NEW o \in Ops, NEW u \in Users, NEW S \in SUBSET Users,
             CreateGroup(o, u, S)
      PROVE  OwnerInv'
  <2>1. Owners' = {}
    BY <1>1 DEF CreateGroup, ShapeInv, Owners
  <2>2. \A x \in Ops : op'[x].kind # "transfer"
    BY <1>1 DEF CreateGroup, ShapeInv, TypeOK
  <2>3. QED
    BY <2>1, <2>2 DEF OwnerInv
<1>2. ASSUME NEW o \in Ops, NEW u \in Users, InsertMember(o, u)
      PROVE  OwnerInv'
  <2>1. /\ op[o].kind = "create" /\ contested' = contested
        /\ \A x \in Ops : x # o => op'[x] = op[x]
        /\ op'[o] = op[o] \/ op'[o].kind = "idle"
    BY <1>2, FinishFacts DEF InsertMember
  <2>2. /\ \A v \in Users : v # u => member'[v] = member[v]
        /\ member'[u].role = "OWNER" => u = op[o].user
    BY <1>2 DEF InsertMember, TypeOK
  <2>3. CASE u = op[o].user
    <3>1. ~contested => Owners' \subseteq {u}
      BY <2>1, <2>2, <2>3 DEF OwnerInv, Owners
    <3>2. \A x \in Ops : op'[x].kind = "create" => op'[x].user = u
      BY <2>1, <2>3 DEF ShapeInv
    <3>3. \A x \in Ops : op'[x].kind = "transfer" => op[x].kind = "transfer"
      BY <2>1
    <3>4. QED
      BY <2>1, <3>1, <3>2, <3>3 DEF OwnerInv
  <2>4. CASE u # op[o].user
    <3>1. Owners' \subseteq Owners
      BY <2>2, <2>4 DEF Owners
    <3>2. QED
      BY <2>1, <3>1, OwnersShrink
  <2>5. QED
    BY <2>3, <2>4
<1>3. ASSUME NEW o \in Ops, UNCHANGED <<member, contested>>, Finish(o),
             op[o].kind # "transfer"
      PROVE  OwnerInv'
  <2>1. Owners' = Owners
    BY <1>3 DEF Owners
  <2>2. op'[o].kind = "idle" /\ \A x \in Ops : x # o => op'[x] = op[x]
    BY <1>3, FinishFacts
  <2>3. QED
    BY <1>3, <2>1, <2>2, OwnersShrink
<1>4. ASSUME NEW o \in Ops, NEW u \in Users, NEW r \in Roles,
             AddGroupMember(o, u, r)
      PROVE  OwnerInv'
  <2>1. "add" \in Changing /\ op[o] = Idle /\ Start(o, "add", u)
    BY <1>4 DEF AddGroupMember, Begin, Changing
  <2>2. /\ op[o].kind = "idle" /\ op'[o].kind = "add"
        /\ \A x \in Ops : x # o => /\ op'[x].kind = op[x].kind
                                   /\ op'[x].user = op[x].user
    <3>1. op[o].kind = "idle"
      BY <2>1 DEF Idle
    <3>2. QED
      BY <2>1, <3>1, StartFacts
  <2>3. CASE r = "OWNER"
    BY <1>4, <2>3 DEF AddGroupMember, OwnerInv
  <2>4. CASE r # "OWNER"
    <3>1. Owners' \subseteq Owners
      BY <1>4, <2>4 DEF AddGroupMember, Owners, TypeOK
    <3>2. contested => contested'
      BY <1>4 DEF AddGroupMember
    <3>3. QED
      BY <2>2, <3>1, <3>2, OwnersShrink
  <2>5. QED
    BY <2>3, <2>4
<1>5. ASSUME NEW o \in Ops, NEW u \in Users, RemoveGroupMember(o, u)
      PROVE  OwnerInv'
  <2>1. "remove" \in Changing /\ op[o] = Idle /\ Start(o, "remove", u)
    BY <1>5 DEF RemoveGroupMember, Begin, Changing
  <2>2. /\ op[o].kind = "idle" /\ op'[o].kind = "remove"
        /\ \A x \in Ops : x # o => /\ op'[x].kind = op[x].kind
                                   /\ op'[x].user = op[x].user
    <3>1. op[o].kind = "idle"
      BY <2>1 DEF Idle
    <3>2. QED
      BY <2>1, <3>1, StartFacts
  <2>3. Owners' \subseteq Owners
    BY <1>5 DEF RemoveGroupMember, Owners, TypeOK, Docs
  <2>4. QED
    BY <1>5, <2>2, <2>3, OwnersShrink DEF RemoveGroupMember
<1>6. ASSUME NEW o \in Ops, NEW u \in Users, PromoteAdmin(o, u) PROVE OwnerInv'
  <2>1. Owners' \subseteq Owners
    BY <1>6, RoleFacts DEF PromoteAdmin, Active, Owners, Roles
  <2>2. QED
    BY <1>6, <2>1, OwnersShrink DEF PromoteAdmin
<1>7. ASSUME NEW o \in Ops, NEW c \in Users \cup {None}, NEW n \in Users,
             TransferOwnership(o, c, n)
      PROVE  OwnerInv'
  <2> SUFFICES ASSUME ~contested' PROVE OwnerInv'
    BY DEF OwnerInv
  <2>1. /\ Owners \subseteq {c, n}
        /\ \A x \in Ops : op[x].kind \notin {"create", "transfer"}
    BY <1>7 DEF TransferOwnership
  <2>2. Owners' \subseteq {c, n}
    BY <1>7, <2>1, RoleFacts DEF TransferOwnership, Active, Owners, Roles
  <2>3. CASE c = None
    <3>1. Owners' \subseteq {n}
      BY <2>2, <2>3, UserAssumption DEF Owners
    <3>2. \A x \in Ops : op'[x].kind \notin {"create", "transfer"}
      BY <1>7, <2>1, <2>3 DEF TransferOwnership
    <3>3. QED
      BY <3>1, <3>2 DEF OwnerInv
  <2>4. CASE c # None
    <3>1. /\ op'[o].kind = "transfer" /\ op'[o].user = c
          /\ \A x \in Ops : x # o => op'[x] = op[x]
      BY <1>7, <2>4 DEF TransferOwnership, TypeOK
    <3>2. c \in Users => c \in Leaving'
      BY <3>1 DEF Leaving
    <3>3. (Owners \ Leaving)' \subseteq {n}
      BY <2>2, <2>4, <3>2
    <3>4. QED
      BY <2>1, <3>1, <3>3 DEF OwnerInv
  <2>5. QED
    BY <2>3, <2>4
<1>8. ASSUME NEW o \in Ops, Demote(o) PROVE OwnerInv'
  <2> SUFFICES ASSUME ~contested PROVE OwnerInv'
    BY <1>8 DEF Demote, OwnerInv
  <2>1. /\ op[o].kind = "transfer" /\ op[o].user \in Users
        /\ op'[o].kind = "idle" /\ \A x \in Ops : x # o => op'[x] = op[x]
    BY <1>8, FinishFacts DEF Demote, ShapeInv
  <2>2. Owners' \subseteq Owners \ {op[o].user}
    BY <1>8, <2>1, RoleFacts DEF Demote, Owners, Roles
  <2>3. Leaving \subseteq {op[o].user}
    BY <2>1 DEF Leaving, OwnerInv
  <2>4. QED
    BY <2>1, <2>2, <2>3 DEF OwnerInv
<1>9. ASSUME NEW o \in Ops, DeleteGroup(o) PROVE OwnerInv'
  <2>1. /\ op[o].kind = "idle" /\ op'[o].kind = "delete"
        /\ \A x \in Ops : x # o => op'[x] = op[x]
    BY <1>9 DEF DeleteGroup, Begin, Idle, TypeOK
  <2>2. Owners' = Owners /\ contested' = contested
    BY <1>9 DEF DeleteGroup, Owners
  <2>3. QED
    BY <2>1, <2>2, OwnersShrink
<1>10. ASSUME NEW o \in Ops, DeleteMembers(o) PROVE OwnerInv'
  <2>1. /\ op[o].kind = "delete" /\ op'[o].kind = "idle"
        /\ \A x \in Ops : x # o => op'[x] = op[x]
    BY <1>10, FinishFacts DEF DeleteMembers
  <2>2. Owners' = {} /\ contested' = contested
    BY <1>10 DEF DeleteMembers, Owners
  <2>3. QED
    BY <2>1, <2>2, OwnersShrink
<1>11. ASSUME NEW o \in Ops, SecondFails(o) PROVE OwnerInv'
  <2>1. CASE op[o].kind = "transfer"
    BY <1>11, <2>1 DEF SecondFails, OwnerInv
  <2>2. CASE op[o].kind # "transfer"
    <3>1. Owners' = Owners /\ (contested => contested')
      BY <1>11 DEF SecondFails, Owners
    <3>2. op'[o].kind = "idle" /\ \A x \in Ops : x # o => op'[x] = op[x]
      BY <1>11, FinishFacts DEF SecondFails
    <3>3. QED
      BY <2>2, <3>1, <3>2, OwnersShrink
  <2>3. QED
    BY <2>1, <2>2
<1>12. ASSUME NEW o \in Ops,
              InsertStops(o) \/ AddParticipant(o) \/ PullParticipant(o)
       PROVE  OwnerInv'
  BY <1>3, <1>12 DEF InsertStops, AddParticipant, PullParticipant
<1>13. CASE UNCHANGED vars
  BY <1>13 DEF vars, OwnerInv, Owners, Leaving
<1>14. QED
  BY <1>1, <1>2, <1>4, <1>5, <1>6, <1>7, <1>8, <1>9, <1>10, <1>11, <1>12, <1>13
  DEF Next, LeaveGroup

-----------------------------------------------------------------------------
(* The theorems.                                                           *)

\* The inductive invariant holds in every reachable state.
THEOREM GroupInvariant == Spec => [](TypeOK /\ ShapeInv /\ AgreeInv /\ OwnerInv)
<1>1. Init => TypeOK /\ ShapeInv /\ AgreeInv /\ OwnerInv
  BY GroupInit
<1>2. TypeOK /\ ShapeInv /\ AgreeInv /\ OwnerInv /\ [Next]_vars =>
         TypeOK' /\ ShapeInv' /\ AgreeInv' /\ OwnerInv'
  BY GroupShapeStep, GroupAgreeStep, GroupOwnerStep
<1>3. QED
  BY <1>1, <1>2, PTL DEF Spec

\* Every variable keeps its type; no RPC leaves a member document without a
\* role or a status (mongodb.go 37-44 and 323-470).
THEOREM GroupTypeCorrect == Spec => []TypeOK
  BY GroupInvariant, PTL

\* For every user whose last change was carried out undisturbed, the
\* conversation's participants and the member documents agree, whatever other
\* RPCs run in between and whatever second commands fail (mongodb.go 315-344,
\* 394-416 and 419-434).
THEOREM MembersAlwaysAgree == Spec => []MembersAgree
<1>1. AgreeInv => MembersAgree
  BY DEF AgreeInv
<1>2. QED
  BY <1>1, GroupInvariant, PTL

\* A group whose ownership is not contested never has two owners, but for one
\* that a transfer is about to demote (mongodb.go 441-470).
THEOREM OneOwnerAlways == Spec => []OneOwner
<1>1. OwnerInv => OneOwner
  BY DEF OwnerInv, OneOwner
<1>2. QED
  BY <1>1, GroupInvariant, PTL

=============================================================================
