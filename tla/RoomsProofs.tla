---------------------------- MODULE RoomsProofs ----------------------------
(***************************************************************************)
(* Proofs about rooms.  Rooms of PostgreSQL get all their members, replies   *)
(* name rooms that are stored, creators stay, and a DM is listed once, for   *)
(* any number of calls, users and members and with commands failing and      *)
(* pods dying at will.  The history of a DM is read whole, once and as it    *)
(* was sent, whatever the limits, messages and spellings of its id.          *)
(***************************************************************************)
EXTENDS Rooms, History, FiniteSetTheorems, SequenceTheorems,
        WellFoundedInduction, TLAPS

-----------------------------------------------------------------------------
(* Room ids.                                                               *)

\* Of two different user ids exactly one comes before the other: the first
\* position at which they differ decides.
LEMMA LessTotal ==
  ASSUME NEW u \in Seq(Nat), NEW v \in Seq(Nat), u # v
  PROVE  Less(u, v) \/ Less(v, u)
<1> DEFINE Differ(i) == ~(i <= Len(u) /\ i <= Len(v) /\ u[i] = v[i])
<1> DEFINE D == {i \in Nat : i > 0 /\ (i <= Len(u) \/ i <= Len(v)) /\ Differ(i)}
<1>1. D # {}
  <2> SUFFICES ASSUME D = {} PROVE FALSE
    OBVIOUS
  <2>1. Len(u) = Len(v)
    <3>1. ASSUME Len(u) < Len(v) PROVE FALSE
      <4>1. Len(v) \in D
        BY <3>1
      <4> QED
        BY <4>1
    <3>2. ASSUME Len(v) < Len(u) PROVE FALSE
      <4>1. Len(u) \in D
        BY <3>2
      <4> QED
        BY <4>1
    <3> QED
      BY <3>1, <3>2
  <2>2. ASSUME NEW i \in 1 .. Len(u), u[i] # v[i] PROVE FALSE
    <3>1. i \in D
      BY <2>2
    <3> QED
      BY <3>1
  <2> QED
    BY <2>1, <2>2, SeqEqual
<1>2. PICK i \in D : \A j \in D : ~(<<j, i>> \in OpToRel(<, Nat))
  BY <1>1, WFMin, NatLessThanWellFounded
<1>3. \A j \in D : ~(j < i)
  BY <1>2 DEF OpToRel
<1>4. \A j \in 1 .. i - 1 : j <= Len(u) /\ j <= Len(v) /\ u[j] = v[j]
  BY <1>3
<1>5. i \in Nat \ {0} /\ (i <= Len(u) \/ i <= Len(v)) /\ Differ(i)
  OBVIOUS
<1>6. CASE i > Len(u)
  BY <1>4, <1>5, <1>6 DEF Less
<1>7. CASE i > Len(v)
  <2>1. i \in 1 .. Len(u) /\ \A j \in 1 .. i - 1 : j <= Len(v) /\ v[j] = u[j]
    BY <1>4, <1>5, <1>7
  <2> QED
    BY <1>7, <2>1 DEF Less
<1>8. CASE i <= Len(u) /\ i <= Len(v)
  <2>1. u[i] \in Nat /\ v[i] \in Nat /\ u[i] # v[i]
    BY <1>5, <1>8
  <2>2. u[i] < v[i] \/ v[i] < u[i]
    BY <2>1
  <2>3. i \in 1 .. Len(u) /\ i \in 1 .. Len(v)
    BY <1>5, <1>8
  <2>4. CASE u[i] < v[i]
    BY <1>4, <2>3, <2>4 DEF Less
  <2>5. CASE v[i] < u[i]
    <3>1. \A j \in 1 .. i - 1 : j <= Len(v) /\ v[j] = u[j]
      BY <1>4
    <3> QED
      BY <2>3, <2>5, <3>1 DEF Less
  <2> QED
    BY <2>2, <2>4, <2>5
<1> QED
  BY <1>5, <1>6, <1>7, <1>8

LEMMA LessAsym ==
  ASSUME NEW u \in Seq(Nat), NEW v \in Seq(Nat), Less(u, v), Less(v, u)
  PROVE  FALSE
<1>1. PICK i \in 1 .. Len(v) :
         /\ \A j \in 1 .. i - 1 : j <= Len(u) /\ u[j] = v[j]
         /\ i > Len(u) \/ u[i] < v[i]
  BY DEF Less
<1>2. PICK k \in 1 .. Len(u) :
         /\ \A j \in 1 .. k - 1 : j <= Len(v) /\ v[j] = u[j]
         /\ k > Len(v) \/ v[k] < u[k]
  BY DEF Less
<1>3. i \in Nat /\ k \in Nat /\ i <= Len(v) /\ k <= Len(u)
      /\ Len(u) \in Nat /\ Len(v) \in Nat
  OBVIOUS
<1>4. CASE i < k
  <2>1. v[i] = u[i] /\ i <= Len(u) /\ u[i] \in Nat
    BY <1>2, <1>3, <1>4
  <2> QED
    BY <1>1, <1>3, <2>1
<1>5. CASE k < i
  <2>1. v[k] = u[k] /\ k <= Len(v) /\ u[k] \in Nat
    BY <1>1, <1>3, <1>5
  <2> QED
    BY <1>2, <1>3, <2>1
<1>6. CASE i = k
  <2>1. u[i] \in Nat /\ v[i] \in Nat
    BY <1>3, <1>6
  <2> QED
    BY <1>1, <1>2, <1>3, <1>6, <2>1
<1> QED
  BY <1>3, <1>4, <1>5, <1>6

LEMMA UserIdSeq ==
  ASSUME NEW u \in UserIds
  PROVE  u \in Seq(Nat) /\ Len(u) \in Nat \ {0}
<1>1. u \in Seq(Nat \ {0}) /\ u # <<>>
  BY DEF UserIds
<1>2. u \in Seq(Nat)
  BY <1>1
<1>3. Len(u) # 0
  BY <1>1
<1> QED
  BY <1>2, <1>3

\* The canonical order of two user ids is that of either order, and its own.
LEMMA SortedFacts ==
  ASSUME NEW u \in UserIds, NEW v \in UserIds
  PROVE  /\ Sorted(v, u) = Sorted(u, v)
         /\ Sorted(u, v) \in {<<u, v>>, <<v, u>>}
         /\ Sorted(Sorted(u, v)[1], Sorted(u, v)[2]) = Sorted(u, v)
<1>1. u \in Seq(Nat) /\ v \in Seq(Nat)
  BY UserIdSeq
<1>2. Sorted(v, u) = Sorted(u, v)
  BY <1>1, LessTotal, LessAsym DEF Sorted
<1>3. Sorted(u, v) \in {<<u, v>>, <<v, u>>}
  BY DEF Sorted
<1> QED
  BY <1>2, <1>3

\* A canonical id is left as it is, CONV_ ids of UUIDs become canonical, and
\* dm- ids of user ids without dashes are cut where the users meet.
LEMMA NormalizedIds ==
  ASSUME NEW u \in UserIds, NEW v \in UserIds
  PROVE  /\ normalizeRoomID(DmId(u, v)) = CanonicalDM(u, v)
         /\ normalizeRoomID(CanonicalDM(u, v)) = CanonicalDM(u, v)
         /\ IsUuid(u) /\ IsUuid(v) =>
               normalizeRoomID(ConvId(u, v)) = CanonicalDM(u, v)
         /\ Len(u) = 1 /\ Len(v) = 1 =>
               normalizeRoomID(DashId(u, v)) = CanonicalDM(u, v)
         /\ CanonicalDM(v, u) = CanonicalDM(u, v)
<1>1. normalizeRoomID(DmId(u, v)) = CanonicalDM(u, v)
  BY DEF normalizeRoomID, DmId, TwoUsers
<1>2. normalizeRoomID(CanonicalDM(u, v)) = CanonicalDM(u, v)
  <2>1. CanonicalDM(u, v).form = "dm:" /\ CanonicalDM(u, v).ids = Sorted(u, v)
    BY DEF CanonicalDM
  <2>2. TwoUsers(CanonicalDM(u, v))
    BY <2>1, SortedFacts DEF TwoUsers
  <2>3. normalizeRoomID(CanonicalDM(u, v))
           = CanonicalDM(Sorted(u, v)[1], Sorted(u, v)[2])
    BY <2>1, <2>2 DEF normalizeRoomID
  <2> QED
    BY <2>3, SortedFacts DEF CanonicalDM
<1>3. ASSUME IsUuid(u), IsUuid(v)
      PROVE  normalizeRoomID(ConvId(u, v)) = CanonicalDM(u, v)
  BY <1>3 DEF normalizeRoomID, ConvId, TwoUuids, TwoUsers
<1>4. ASSUME Len(u) = 1, Len(v) = 1
      PROVE  normalizeRoomID(DashId(u, v)) = CanonicalDM(u, v)
  <2> DEFINE w == u \o v
  <2>1. u \in Seq(Nat) /\ v \in Seq(Nat)
    BY UserIdSeq
  <2>2. Len(w) = 2 /\ w \in Seq(Nat) /\ w[1] = u[1] /\ w[2] = v[1]
    <3>1. /\ w \in Seq(Nat) /\ Len(w) = Len(u) + Len(v)
          /\ \A i \in 1 .. Len(u) + Len(v) :
                w[i] = IF i <= Len(u) THEN u[i] ELSE v[i - Len(u)]
      BY <2>1, ConcatProperties
    <3>2. 1 \in 1 .. 2 /\ 2 \in 1 .. 2
      OBVIOUS
    <3> QED
      BY <1>4, <3>1, <3>2
  <2>3. SubSeq(w, 1, 1) = u
    <3>1. SubSeq(w, 1, 1) \in Seq(Nat) /\ Len(SubSeq(w, 1, 1)) = 1
          /\ SubSeq(w, 1, 1)[1] = w[1]
      BY <2>2, SubSeqProperties
    <3> QED
      BY <1>4, <2>1, <2>2, <3>1, SeqEqual
  <2>4. SubSeq(w, 2, 2) = v
    <3>1. SubSeq(w, 2, 2) \in Seq(Nat) /\ Len(SubSeq(w, 2, 2)) = 1
          /\ SubSeq(w, 2, 2)[1] = w[2]
      BY <2>2, SubSeqProperties
    <3> QED
      BY <1>4, <2>1, <2>2, <3>1, SeqEqual
  <2>5. DashId(u, v).form = "dm-" /\ DashId(u, v).ids[1] = w
    BY DEF DashId
  <2> HIDE DEF w
  <2>6. CutDash(DashId(u, v))[1] = u /\ CutDash(DashId(u, v))[2] = v
    BY <2>2, <2>3, <2>4, <2>5 DEF CutDash
  <2>7. DashId(u, v).form = "dm-" /\ Len(DashId(u, v).ids[1]) > 1
    <3>1. Len(w) > 1
      BY <2>2
    <3> QED
      BY <2>5, <3>1, Zenon
  <2>8. normalizeRoomID(DashId(u, v))
           = CanonicalDM(CutDash(DashId(u, v))[1], CutDash(DashId(u, v))[2])
    BY <2>7 DEF normalizeRoomID
  <2> QED
    BY <2>6, <2>8
<1>5. CanonicalDM(v, u) = CanonicalDM(u, v)
  BY SortedFacts DEF CanonicalDM
<1> QED
  BY <1>1, <1>2, <1>3, <1>4, <1>5

\* The aliases of a canonical id: both orders of CONV_.
LEMMA CanonicalAliases ==
  ASSUME NEW u \in UserIds, NEW v \in UserIds
  PROVE  roomIDAliases(CanonicalDM(u, v))
            = {CanonicalDM(u, v), ConvId(u, v), ConvId(v, u)}
<1> DEFINE C == CanonicalDM(u, v)
<1>1. C.form = "dm:" /\ C.ids = Sorted(u, v)
  BY DEF CanonicalDM
<1>2. TwoUsers(C)
  BY <1>1, SortedFacts DEF TwoUsers
<1>3. CanonicalDM(C.ids[1], C.ids[2]) = C
  BY <1>1, SortedFacts DEF CanonicalDM
<1>4. roomIDAliases(C) = {C, CanonicalDM(C.ids[1], C.ids[2]),
                          ConvId(C.ids[1], C.ids[2]), ConvId(C.ids[2], C.ids[1])}
  BY <1>1, <1>2 DEF roomIDAliases
<1>5. \/ C.ids[1] = u /\ C.ids[2] = v
      \/ C.ids[1] = v /\ C.ids[2] = u
  BY <1>1, SortedFacts
<1> HIDE DEF C
<1>6. roomIDAliases(C) = {C, ConvId(u, v), ConvId(v, u)}
  BY <1>3, <1>4, <1>5
<1> QED
  BY <1>6 DEF C

-----------------------------------------------------------------------------
(* Creating rooms.                                                         *)

DmSteps    == {"room", "members", "find", "canonical", "insert", "refind", "get"}
GroupSteps == {"group", "docs"}
FirstSteps == {"idle", "room", "members", "upsert", "member", "get", "save",
               "group", "docs"}

\* What a call that is inserting members has done so far.
MemberInv(c) ==
    pc[c] = "member" =>
       /\ row[Key(c)] # None
       /\ left[c] # {}
       /\ left[c] \subseteq MembersOf(Key(c))
       /\ MembersOf(Key(c)) \subseteq members[Key(c)] \cup left[c]

\* What a call knows at each step.
StepInv(c) ==
    /\ pc[c] \in DmSteps => kind[c] = "DM"
    /\ pc[c] \in GroupSteps => kind[c] = "GROUP"
    /\ pc[c] \in FirstSteps => from[c] = "none"
    /\ pc[c] \in {"idle", "group"} => conv[c] = None
    /\ pc[c] = "members" => row[DM] # None
    /\ pc[c] = "canonical" => conv[Legacy] # None
    /\ pc[c] = "refind" => conv[DM] # None
    /\ pc[c] = "docs" => conv[c] # None
    /\ pc[c] = "ok" => from[c] # "none"
    /\ pc[c] = "error" => from[c] = "none"

\* The room of a call is where it has the id from.
FromInv(c) ==
    /\ from[c] = "pg" => /\ row[Key(c)] # None
                         /\ kind[c] = "GROUP" => GroupMembers \subseteq members[c]
    /\ from[c] = "mongo" => IF kind[c] = "GROUP" THEN conv[c] # None
                            ELSE conv[DM] # None \/ conv[Legacy] # None
    /\ pc[c] # "dead" /\ from[c] = "store" => meta[Key(c)] # None

CallInv == \A c \in Callers : MemberInv(c) /\ StepInv(c) /\ FromInv(c)

RoomInv == TypeOK /\ CallInv /\ MembersComplete

-----------------------------------------------------------------------------
(* Types.                                                                  *)

LEMMA InitType == Init => TypeOK
  <1> SUFFICES ASSUME Init PROVE TypeOK
    OBVIOUS
  <1>1. None \in Users \cup {None} /\ UserA \in Users
    BY PairAssumption
  <1>2. conv \in [Convs -> Users \cup {None}]
    BY <1>1 DEF Init
  <1>3. lastAt \in [Convs -> Nat] /\ activity \in Nat /\ now \in Nat
    BY DEF Init
  <1> QED
    BY <1>1, <1>2, <1>3 DEF Init, TypeOK, Steps, IdSources

\* A step of a call leads to a step of a call.
LEMMA GotoType ==
    ASSUME TypeOK, NEW c \in Callers, NEW s \in Steps, Goto(c, s)
    PROVE  pc' \in [Callers -> Steps]
  BY DEF Goto, TypeOK

LEMMA HasType ==
    ASSUME TypeOK, NEW c \in Callers, NEW s \in IdSources, NEW p \in Steps, Has(c, s, p)
    PROVE  pc' \in [Callers -> Steps] /\ from' \in [Callers -> IdSources]
  BY DEF Has, Goto, TypeOK

LEMMA KeyType ==
    ASSUME NEW c \in Callers
    PROVE  /\ Key(c) \in Keys /\ c \in Keys /\ c \in Convs /\ c # DM
           /\ DM \in Keys /\ DM \in Convs /\ Legacy \in Convs /\ Legacy # DM
           /\ Legacy # c
  BY KeyAssumption DEF Key, Keys, Convs

LEMMA CreateRoomType ==
    ASSUME TypeOK, NEW c \in Callers, NEW k \in {"DM", "GROUP"}, NEW u \in Users,
           CreateRoom(c, k, u)
    PROVE  TypeOK'
  <1>1. FirstStep(k) \in Steps
    BY DEF FirstStep, Steps
  <1>2. pc' \in [Callers -> Steps]
    BY <1>1, GotoType DEF CreateRoom
  <1> QED
    BY <1>2 DEF CreateRoom, TypeOK, stores, chats

LEMMA StepType ==
    ASSUME TypeOK, NEW c \in Callers, Step(c)
    PROVE  TypeOK'
  <1> USE DEF stores, chats
  <1>k. Key(c) \in Keys /\ c \in Convs /\ DM \in Convs
    BY KeyType
  <1>a. AfterPg(c) \in Steps /\ "pg" \in IdSources /\ "mongo" \in IdSources
        /\ "store" \in IdSources /\ "none" \in IdSources /\ from[c] \in IdSources
    BY DEF AfterPg, Steps, IdSources, TypeOK
  <1>m. MembersOf(Key(c)) \in SUBSET Users
    BY PairAssumption DEF MembersOf, Pair
  <1>f. ASSUME Fails(c) PROVE pc' \in [Callers -> Steps]
    BY <1>f, GotoType DEF Fails, Steps
  <1>h. ASSUME HasConv(c)
        PROVE  pc' \in [Callers -> Steps] /\ from' \in [Callers -> IdSources]
    <2>1. (IF from[c] = "none" THEN "mongo" ELSE from[c]) \in IdSources
      BY <1>a
    <2>2. "ok" \in Steps
      BY DEF Steps
    <2> QED
      BY <1>h, <2>1, <2>2, HasType DEF HasConv
  <1>n. ASSUME HasNone(c) PROVE pc' \in [Callers -> Steps]
    BY <1>n DEF HasNone, Goto, TypeOK, Steps
  <1>1. CASE GetRoom(c)
    <2>1. pc' \in [Callers -> Steps]
      BY <1>1, <1>f DEF GetRoom, Goto, TypeOK, Steps
    <2> QED
      BY <1>1, <2>1 DEF GetRoom, TypeOK
  <1>2. CASE GetMembers(c)
    <2>1. pc' \in [Callers -> Steps] /\ from' \in [Callers -> IdSources]
      BY <1>2, <1>f, <1>a, HasType DEF GetMembers, TypeOK
    <2> QED
      BY <1>2, <2>1 DEF GetMembers, TypeOK
  <1>3. CASE UpsertRoom(c)
    <2>1. pc' \in [Callers -> Steps]
      BY <1>3, <1>f DEF UpsertRoom, Goto, TypeOK, Steps
    <2>2. row' \in [Keys -> Users \cup {None}] /\ left' \in [Callers -> SUBSET Users]
      BY <1>3, <1>k, <1>m DEF UpsertRoom, TypeOK
    <2> QED
      BY <1>3, <2>1, <2>2 DEF UpsertRoom, TypeOK
  <1>4. ASSUME NEW u \in Users, UpsertMember(c, u) PROVE TypeOK'
    <2>1. pc' \in [Callers -> Steps] /\ from' \in [Callers -> IdSources]
      BY <1>4, <1>f, <1>a, HasType DEF UpsertMember, TypeOK
    <2>2. members' \in [Keys -> SUBSET Users] /\ left' \in [Callers -> SUBSET Users]
          /\ cut' \subseteq Keys
      BY <1>4, <1>k DEF UpsertMember, TypeOK
    <2> QED
      BY <1>4, <2>1, <2>2 DEF UpsertMember, TypeOK
  <1>5. CASE FindConversation(c)
    <2>1. pc' \in [Callers -> Steps] /\ from' \in [Callers -> IdSources]
      BY <1>5, <1>h DEF FindConversation, Goto, TypeOK, Steps
    <2> QED
      BY <1>5, <2>1 DEF FindConversation, TypeOK
  <1>6. CASE UpsertCanonical(c)
    <2>1. pc' \in [Callers -> Steps] /\ from' \in [Callers -> IdSources]
      BY <1>6, <1>h DEF UpsertCanonical
    <2>2. conv' \in [Convs -> Users \cup {None}]
      BY <1>6, <1>k DEF UpsertCanonical, TypeOK
    <2> QED
      BY <1>6, <2>1, <2>2 DEF UpsertCanonical, TypeOK
  <1>7. CASE InsertConversation(c)
    <2>1. pc' \in [Callers -> Steps] /\ from' \in [Callers -> IdSources]
      BY <1>7, <1>h, <1>n DEF InsertConversation, Goto, TypeOK, Steps
    <2>2. conv' \in [Convs -> Users \cup {None}]
      BY <1>7, <1>k DEF InsertConversation, TypeOK
    <2> QED
      BY <1>7, <2>1, <2>2 DEF InsertConversation, TypeOK
  <1>8. CASE Refind(c)
    <2>1. pc' \in [Callers -> Steps] /\ from' \in [Callers -> IdSources]
      BY <1>8, <1>h, <1>n DEF Refind, TypeOK
    <2> QED
      BY <1>8, <2>1 DEF Refind, TypeOK
  <1>9. CASE StoreGet(c)
    <2>1. pc' \in [Callers -> Steps] /\ from' \in [Callers -> IdSources]
      BY <1>9, <1>a DEF StoreGet, Has, Goto, TypeOK, Steps
    <2> QED
      BY <1>9, <2>1 DEF StoreGet, TypeOK
  <1>10. CASE StoreSave(c)
    <2>1. pc' \in [Callers -> Steps] /\ from' \in [Callers -> IdSources]
      BY <1>10, <1>a, <1>f DEF StoreSave, Has, Goto, TypeOK, Steps
    <2>2. meta' \in [Keys -> Users \cup {None}]
      BY <1>10, <1>k DEF StoreSave, TypeOK
    <2> QED
      BY <1>10, <2>1, <2>2 DEF StoreSave, TypeOK
  <1>11. CASE GroupConversation(c)
    <2>1. pc' \in [Callers -> Steps]
      BY <1>11 DEF GroupConversation, NextStore, Goto, TypeOK, Steps
    <2>2. conv' \in [Convs -> Users \cup {None}]
      BY <1>11, <1>k DEF GroupConversation, TypeOK
    <2> QED
      BY <1>11, <2>1, <2>2 DEF GroupConversation, TypeOK
  <1>12. CASE GroupDocs(c)
    <2>1. pc' \in [Callers -> Steps] /\ from' \in [Callers -> IdSources]
      BY <1>12, <1>a DEF GroupDocs, NextStore, Has, Goto, TypeOK, Steps
    <2> QED
      BY <1>12, <2>1 DEF GroupDocs, TypeOK
  <1> QED
    BY <1>1, <1>2, <1>3, <1>4, <1>5, <1>6, <1>7, <1>8, <1>9, <1>10, <1>11,
       <1>12 DEF Step

LEMMA CrashType ==
    ASSUME TypeOK, NEW c \in Callers, Crash(c)
    PROVE  TypeOK'
  <1>1. pc' \in [Callers -> Steps]
    BY DEF Crash, TypeOK, Steps
  <1>2. cut' \subseteq Keys
    BY KeyType DEF Crash, TypeOK, Gone
  <1>3. meta' \in [Keys -> Users \cup {None}]
    BY DEF Crash, TypeOK
  <1> QED
    BY <1>1, <1>2, <1>3 DEF Crash, TypeOK, chats

LEMMA PostType ==
    ASSUME TypeOK, NEW u \in Users, Post(u)
    PROVE  TypeOK'
  <1>1. now' \in Nat /\ now + 1 \in Nat
    BY DEF Post, TypeOK
  <1>2. posts' \subseteq [at : Nat, by : Users]
    BY <1>1 DEF Post, TypeOK
  <1>3. lastAt' \in [Convs -> Nat] /\ activity' \in Nat
    BY <1>1 DEF Post, TypeOK
  <1> QED
    BY <1>1, <1>2, <1>3 DEF Post, TypeOK, stores

LEMMA NextType == TypeOK /\ [Next]_vars => TypeOK'
  <1> SUFFICES ASSUME TypeOK, [Next]_vars PROVE TypeOK'
    OBVIOUS
  <1>1. CASE UNCHANGED vars
    BY <1>1 DEF vars, stores, chats, TypeOK
  <1>2. Pair \subseteq Users
    BY PairAssumption DEF Pair
  <1> QED
    BY <1>1, <1>2, CreateRoomType, StepType, CrashType, PostType DEF Next

\* The variables keep their types (postgres.go, mongodb.go, room_store.go:
\* the rows, documents and steps of CreateRoom).
THEOREM RoomsTypeCorrect == Spec => []TypeOK
  BY InitType, NextType, PTL DEF Spec

-----------------------------------------------------------------------------
(* What every step of a call leaves alone.                                 *)

Grows(c) ==
    /\ \A d \in Callers : d # c =>
          /\ pc'[d] = pc[d] /\ kind'[d] = kind[d] /\ from'[d] = from[d]
          /\ left'[d] = left[d] /\ conv'[d] = conv[d]
    /\ KeepCreators
    /\ \A k \in Keys : /\ members[k] \subseteq members'[k]
                       /\ meta[k] # None => meta'[k] # None
    /\ cut \subseteq cut'

\* A call keeps its invariant while another one makes a step.
LEMMA OthersKeep ==
    ASSUME TypeOK, NEW c \in Callers, NEW d \in Callers, d # c, Grows(c),
           MemberInv(d), StepInv(d), FromInv(d)
    PROVE  MemberInv(d)' /\ StepInv(d)' /\ FromInv(d)'
  <1>k. /\ Key(d) \in Keys /\ d \in Keys /\ d \in Convs
        /\ DM \in Keys /\ DM \in Convs /\ Legacy \in Convs
    BY KeyType
  <1>1. pc'[d] = pc[d] /\ kind'[d] = kind[d] /\ from'[d] = from[d]
        /\ left'[d] = left[d] /\ conv'[d] = conv[d]
    BY DEF Grows
  <1>2. Key(d)' = Key(d)
    BY <1>1 DEF Key
  <1>3. \A x \in Keys : row[x] # None => row'[x] # None
    BY DEF Grows, KeepCreators
  <1>4. \A x \in Convs : conv[x] # None => conv'[x] # None
    BY DEF Grows, KeepCreators
  <1>5. members[Key(d)] \subseteq members'[Key(d)] /\ members[d] \subseteq members'[d]
        /\ (meta[Key(d)] # None => meta'[Key(d)] # None)
    BY <1>k DEF Grows
  <1>6. MembersOf(Key(d))' = MembersOf(Key(d))
    BY <1>2 DEF MembersOf
  <1>7. MemberInv(d)'
    BY <1>1, <1>2, <1>3, <1>5, <1>6, <1>k DEF MemberInv
  <1>8. StepInv(d)'
    BY <1>1, <1>3, <1>4, <1>k DEF StepInv
  <1>9. FromInv(d)'
    BY <1>1, <1>2, <1>3, <1>4, <1>5, <1>k DEF FromInv
  <1> QED
    BY <1>7, <1>8, <1>9

\* A room stays complete while members only grow and inserts only go on or
\* are cut short.
LEMMA StaysComplete ==
    ASSUME TypeOK, MembersComplete, NEW c \in Callers, Grows(c),
           \A k \in Keys : row'[k] # None /\ row[k] = None => Inserting(k)',
           \A k \in Keys : Inserting(k) =>
              Inserting(k)' \/ k \in cut' \/ MembersOf(k) \subseteq members'[k]
    PROVE  MembersComplete'
  <1> SUFFICES ASSUME NEW k \in Keys, row'[k] # None, ~Inserting(k)', k \notin cut'
               PROVE  MembersOf(k) \subseteq members'[k]
    BY DEF MembersComplete, MembersOf
  <1>1. row[k] # None
    OBVIOUS
  <1>2. k \notin cut /\ members[k] \subseteq members'[k]
    BY DEF Grows
  <1>3. CASE ~Inserting(k)
    BY <1>1, <1>2, <1>3 DEF MembersComplete
  <1>4. CASE Inserting(k)
    BY <1>4
  <1> QED
    BY <1>3, <1>4

\* Who is inserting goes on while another call, or a call that is not
\* inserting, makes a step.
LEMMA GoesOn ==
    ASSUME NEW c \in Callers, Grows(c), pc[c] # "member", NEW k \in Keys, Inserting(k)
    PROVE  Inserting(k)'
  <1>1. PICK d \in Callers : pc[d] = "member" /\ Key(d) = k
    BY DEF Inserting
  <1>2. d # c
    BY <1>1
  <1>3. pc'[d] = "member" /\ Key(d)' = k
    BY <1>1, <1>2 DEF Grows, Key
  <1> QED
    BY <1>3 DEF Inserting

-----------------------------------------------------------------------------
(* The steps of a call.                                                    *)

LEMMA GetRoomGrows ==
    ASSUME TypeOK, NEW c \in Callers, StepInv(c), GetRoom(c)
    PROVE  Grows(c)
  BY KeyType, KeyAssumption DEF TypeOK, StepInv, Grows, KeepCreators, stores, GetRoom, Goto, Fails

LEMMA GetRoomInv ==
    ASSUME TypeOK, NEW c \in Callers, GetRoom(c),
           MemberInv(c), StepInv(c), FromInv(c)
    PROVE  MemberInv(c)' /\ StepInv(c)' /\ FromInv(c)'
  <1> USE KeyType, KeyAssumption DEF TypeOK, stores, GetRoom, Goto, Fails
  <1>1. MemberInv(c)'
    BY DEF MemberInv, Key, MembersOf
  <1>2. StepInv(c)'
    BY DEF StepInv, DmSteps, GroupSteps, FirstSteps
  <1>3. FromInv(c)'
    BY DEF StepInv, FromInv, Key, DmSteps, GroupSteps, FirstSteps
  <1> QED
    BY <1>1, <1>2, <1>3

LEMMA GetMembersGrows ==
    ASSUME TypeOK, NEW c \in Callers, StepInv(c), GetMembers(c)
    PROVE  Grows(c)
  BY KeyType, KeyAssumption DEF TypeOK, StepInv, Grows, KeepCreators, stores, GetMembers, Has, Goto, Fails, AfterPg

LEMMA GetMembersInv ==
    ASSUME TypeOK, NEW c \in Callers, GetMembers(c),
           MemberInv(c), StepInv(c), FromInv(c)
    PROVE  MemberInv(c)' /\ StepInv(c)' /\ FromInv(c)'
  <1> USE KeyType, KeyAssumption DEF TypeOK, stores, GetMembers, Has, Goto, Fails, AfterPg
  <1>1. MemberInv(c)'
    BY DEF MemberInv, Key, MembersOf
  <1>2. StepInv(c)'
    BY DEF StepInv, DmSteps, GroupSteps, FirstSteps
  <1>3. FromInv(c)'
    BY DEF StepInv, FromInv, Key, DmSteps, GroupSteps, FirstSteps
  <1> QED
    BY <1>1, <1>2, <1>3

LEMMA UpsertRoomGrows ==
    ASSUME TypeOK, NEW c \in Callers, StepInv(c), UpsertRoom(c)
    PROVE  Grows(c)
  BY KeyType, KeyAssumption DEF TypeOK, StepInv, Grows, KeepCreators, stores, UpsertRoom, Goto, Fails

LEMMA UpsertRoomInv ==
    ASSUME TypeOK, NEW c \in Callers, UpsertRoom(c),
           MemberInv(c), StepInv(c), FromInv(c)
    PROVE  MemberInv(c)' /\ StepInv(c)' /\ FromInv(c)'
  <1> USE KeyType, KeyAssumption DEF TypeOK, stores, UpsertRoom, Goto, Fails
  <1>1. MemberInv(c)'
    <2>1. MembersOf(Key(c)) # {}
      BY PairAssumption DEF MembersOf, Pair
    <2>2. Key(c)' = Key(c)
      BY DEF Key
    <2>3. MembersOf(Key(c))' = MembersOf(Key(c))
      BY <2>2 DEF MembersOf
    <2>4. pc'[c] = "member" =>
             row'[Key(c)] # None /\ left'[c] = MembersOf(Key(c))
      OBVIOUS
    <2> QED
      BY <2>1, <2>2, <2>3, <2>4 DEF MemberInv
  <1>2. StepInv(c)'
    BY DEF StepInv, DmSteps, GroupSteps, FirstSteps
  <1>3. FromInv(c)'
    BY DEF StepInv, FromInv, Key, DmSteps, GroupSteps, FirstSteps
  <1> QED
    BY <1>1, <1>2, <1>3

LEMMA UpsertMemberGrows ==
    ASSUME TypeOK, NEW c \in Callers, NEW u \in Users, StepInv(c), UpsertMember(c, u)
    PROVE  Grows(c)
  BY KeyType, KeyAssumption DEF TypeOK, StepInv, Grows, KeepCreators, stores, UpsertMember, Has, Goto, Fails, AfterPg

LEMMA UpsertMemberInv ==
    ASSUME TypeOK, NEW c \in Callers, NEW u \in Users, UpsertMember(c, u),
           MemberInv(c), StepInv(c), FromInv(c)
    PROVE  MemberInv(c)' /\ StepInv(c)' /\ FromInv(c)'
  <1> USE KeyType, KeyAssumption DEF TypeOK, stores, UpsertMember, Has, Goto, Fails, AfterPg
  <1>1. MemberInv(c)'
    BY DEF MemberInv, Key, MembersOf
  <1>2. StepInv(c)'
    BY DEF StepInv, DmSteps, GroupSteps, FirstSteps
  <1>3. FromInv(c)'
    <2>1. Key(c)' = Key(c) /\ from[c] = "none"
      BY DEF Key, StepInv, FirstSteps
    <2>2. from'[c] # "none" =>
             from'[c] = "pg" /\ MembersOf(Key(c)) \subseteq members'[Key(c)]
      BY <2>1 DEF MemberInv
    <2>3. row'[Key(c)] # None
      BY DEF MemberInv
    <2>4. kind[c] = "GROUP" => Key(c) = c /\ MembersOf(Key(c)) = GroupMembers
      BY DEF Key, MembersOf
    <2> QED
      BY <2>1, <2>2, <2>3, <2>4 DEF FromInv
  <1> QED
    BY <1>1, <1>2, <1>3

LEMMA FindConversationGrows ==
    ASSUME TypeOK, NEW c \in Callers, StepInv(c), FindConversation(c)
    PROVE  Grows(c)
  BY KeyType, KeyAssumption DEF TypeOK, StepInv, Grows, KeepCreators, stores, FindConversation, HasConv, Has, Goto

LEMMA FindConversationInv ==
    ASSUME TypeOK, NEW c \in Callers, FindConversation(c),
           MemberInv(c), StepInv(c), FromInv(c)
    PROVE  MemberInv(c)' /\ StepInv(c)' /\ FromInv(c)'
  <1> USE KeyType, KeyAssumption DEF TypeOK, stores, FindConversation, HasConv, Has, Goto
  <1>1. MemberInv(c)'
    BY DEF MemberInv, Key, MembersOf
  <1>2. StepInv(c)'
    BY DEF StepInv, DmSteps, GroupSteps, FirstSteps
  <1>3. FromInv(c)'
    BY DEF StepInv, FromInv, Key, DmSteps, GroupSteps, FirstSteps
  <1> QED
    BY <1>1, <1>2, <1>3

LEMMA UpsertCanonicalGrows ==
    ASSUME TypeOK, NEW c \in Callers, StepInv(c), UpsertCanonical(c)
    PROVE  Grows(c)
  BY KeyType, KeyAssumption DEF TypeOK, StepInv, Grows, KeepCreators, stores, UpsertCanonical, HasConv, Has, Goto

LEMMA UpsertCanonicalInv ==
    ASSUME TypeOK, NEW c \in Callers, UpsertCanonical(c),
           MemberInv(c), StepInv(c), FromInv(c)
    PROVE  MemberInv(c)' /\ StepInv(c)' /\ FromInv(c)'
  <1> USE KeyType, KeyAssumption DEF TypeOK, stores, UpsertCanonical, HasConv, Has, Goto
  <1>1. MemberInv(c)'
    BY DEF MemberInv, Key, MembersOf
  <1>2. StepInv(c)'
    BY DEF StepInv, DmSteps, GroupSteps, FirstSteps
  <1>3. FromInv(c)'
    BY DEF StepInv, FromInv, Key, DmSteps, GroupSteps, FirstSteps
  <1> QED
    BY <1>1, <1>2, <1>3

LEMMA InsertConversationGrows ==
    ASSUME TypeOK, NEW c \in Callers, StepInv(c), InsertConversation(c)
    PROVE  Grows(c)
  BY KeyType, KeyAssumption DEF TypeOK, StepInv, Grows, KeepCreators, stores, InsertConversation, HasConv, HasNone, Has, Goto

LEMMA InsertConversationInv ==
    ASSUME TypeOK, NEW c \in Callers, InsertConversation(c),
           MemberInv(c), StepInv(c), FromInv(c)
    PROVE  MemberInv(c)' /\ StepInv(c)' /\ FromInv(c)'
  <1> USE KeyType, KeyAssumption DEF TypeOK, stores, InsertConversation, HasConv, HasNone, Has, Goto
  <1>1. MemberInv(c)'
    BY DEF MemberInv, Key, MembersOf
  <1>2. StepInv(c)'
    BY DEF StepInv, DmSteps, GroupSteps, FirstSteps
  <1>3. FromInv(c)'
    BY DEF StepInv, FromInv, Key, DmSteps, GroupSteps, FirstSteps
  <1> QED
    BY <1>1, <1>2, <1>3

LEMMA RefindGrows ==
    ASSUME TypeOK, NEW c \in Callers, StepInv(c), Refind(c)
    PROVE  Grows(c)
  BY KeyType, KeyAssumption DEF TypeOK, StepInv, Grows, KeepCreators, stores, Refind, HasConv, HasNone, Has, Goto

LEMMA RefindInv ==
    ASSUME TypeOK, NEW c \in Callers, Refind(c),
           MemberInv(c), StepInv(c), FromInv(c)
    PROVE  MemberInv(c)' /\ StepInv(c)' /\ FromInv(c)'
  <1> USE KeyType, KeyAssumption DEF TypeOK, stores, Refind, HasConv, HasNone, Has, Goto
  <1>1. MemberInv(c)'
    BY DEF MemberInv, Key, MembersOf
  <1>2. StepInv(c)'
    BY DEF StepInv, DmSteps, GroupSteps, FirstSteps
  <1>3. FromInv(c)'
    BY DEF StepInv, FromInv, Key, DmSteps, GroupSteps, FirstSteps
  <1> QED
    BY <1>1, <1>2, <1>3

LEMMA StoreGetGrows ==
    ASSUME TypeOK, NEW c \in Callers, StepInv(c), StoreGet(c)
    PROVE  Grows(c)
  BY KeyType, KeyAssumption DEF TypeOK, StepInv, Grows, KeepCreators, stores, StoreGet, Has, Goto

LEMMA StoreGetInv ==
    ASSUME TypeOK, NEW c \in Callers, StoreGet(c),
           MemberInv(c), StepInv(c), FromInv(c)
    PROVE  MemberInv(c)' /\ StepInv(c)' /\ FromInv(c)'
  <1> USE KeyType, KeyAssumption DEF TypeOK, stores, StoreGet, Has, Goto
  <1>1. MemberInv(c)'
    BY DEF MemberInv, Key, MembersOf
  <1>2. StepInv(c)'
    BY DEF StepInv, DmSteps, GroupSteps, FirstSteps
  <1>3. FromInv(c)'
    BY DEF StepInv, FromInv, Key, DmSteps, GroupSteps, FirstSteps
  <1> QED
    BY <1>1, <1>2, <1>3

LEMMA StoreSaveGrows ==
    ASSUME TypeOK, NEW c \in Callers, StepInv(c), StoreSave(c)
    PROVE  Grows(c)
  BY KeyType, KeyAssumption DEF TypeOK, StepInv, Grows, KeepCreators, stores, StoreSave, Has, Goto, Fails

LEMMA StoreSaveInv ==
    ASSUME TypeOK, NEW c \in Callers, StoreSave(c),
           MemberInv(c), StepInv(c), FromInv(c)
    PROVE  MemberInv(c)' /\ StepInv(c)' /\ FromInv(c)'
  <1> USE KeyType, KeyAssumption DEF TypeOK, stores, StoreSave, Has, Goto, Fails
  <1>1. MemberInv(c)'
    BY DEF MemberInv, Key, MembersOf
  <1>2. StepInv(c)'
    BY DEF StepInv, DmSteps, GroupSteps, FirstSteps
  <1>3. FromInv(c)'
    BY DEF StepInv, FromInv, Key, DmSteps, GroupSteps, FirstSteps
  <1> QED
    BY <1>1, <1>2, <1>3

LEMMA GroupConversationGrows ==
    ASSUME TypeOK, NEW c \in Callers, StepInv(c), GroupConversation(c)
    PROVE  Grows(c)
  BY KeyType, KeyAssumption DEF TypeOK, StepInv, Grows, KeepCreators, stores, GroupConversation, NextStore, Goto

LEMMA GroupConversationInv ==
    ASSUME TypeOK, NEW c \in Callers, GroupConversation(c),
           MemberInv(c), StepInv(c), FromInv(c)
    PROVE  MemberInv(c)' /\ StepInv(c)' /\ FromInv(c)'
  <1> USE KeyType, KeyAssumption DEF TypeOK, stores, GroupConversation, NextStore, Goto
  <1>1. MemberInv(c)'
    BY DEF MemberInv, Key, MembersOf
  <1>2. StepInv(c)'
    BY DEF StepInv, DmSteps, GroupSteps, FirstSteps
  <1>3. FromInv(c)'
    BY DEF StepInv, FromInv, Key, DmSteps, GroupSteps, FirstSteps
  <1> QED
    BY <1>1, <1>2, <1>3

LEMMA GroupDocsGrows ==
    ASSUME TypeOK, NEW c \in Callers, StepInv(c), GroupDocs(c)
    PROVE  Grows(c)
  BY KeyType, KeyAssumption DEF TypeOK, StepInv, Grows, KeepCreators, stores, GroupDocs, NextStore, Has, Goto

LEMMA GroupDocsInv ==
    ASSUME TypeOK, NEW c \in Callers, GroupDocs(c),
           MemberInv(c), StepInv(c), FromInv(c)
    PROVE  MemberInv(c)' /\ StepInv(c)' /\ FromInv(c)'
  <1> USE KeyType, KeyAssumption DEF TypeOK, stores, GroupDocs, NextStore, Has, Goto
  <1>1. MemberInv(c)'
    BY DEF MemberInv, Key, MembersOf
  <1>2. StepInv(c)'
    BY DEF StepInv, DmSteps, GroupSteps, FirstSteps
  <1>3. FromInv(c)'
    BY DEF StepInv, FromInv, Key, DmSteps, GroupSteps, FirstSteps
  <1> QED
    BY <1>1, <1>2, <1>3

LEMMA CreateRoomGrows ==
    ASSUME TypeOK, NEW c \in Callers, NEW k \in {"DM", "GROUP"}, NEW u \in Users, StepInv(c), CreateRoom(c, k, u)
    PROVE  Grows(c)
  BY KeyType, KeyAssumption DEF TypeOK, StepInv, Grows, KeepCreators, stores, CreateRoom, FirstStep, Goto

LEMMA CreateRoomInv ==
    ASSUME TypeOK, NEW c \in Callers, NEW k \in {"DM", "GROUP"}, NEW u \in Users, CreateRoom(c, k, u),
           MemberInv(c), StepInv(c), FromInv(c)
    PROVE  MemberInv(c)' /\ StepInv(c)' /\ FromInv(c)'
  <1> USE KeyType, KeyAssumption DEF TypeOK, stores, CreateRoom, FirstStep, Goto
  <1>1. MemberInv(c)'
    BY DEF MemberInv, Key, MembersOf
  <1>2. StepInv(c)'
    BY DEF StepInv, DmSteps, GroupSteps, FirstSteps
  <1>3. FromInv(c)'
    BY DEF StepInv, FromInv, Key, DmSteps, GroupSteps, FirstSteps
  <1> QED
    BY <1>1, <1>2, <1>3

\* The pod's death ends calls and may empty the room store: who is left has
\* nothing from there.
LEMMA CrashKeeps ==
    ASSUME TypeOK, NEW c \in Callers, Crash(c), CallInv
    PROVE  CallInv' /\ KeepCreators
  <1>1. UNCHANGED <<row, members, conv, kind, left, from>>
    BY DEF Crash
  <1>2. ASSUME NEW d \in Callers PROVE MemberInv(d)' /\ StepInv(d)' /\ FromInv(d)'
    <2>1. pc'[d] = IF d \in Gone(c) THEN "dead" ELSE pc[d]
      BY DEF Crash
    <2>2. MemberInv(d) /\ StepInv(d) /\ FromInv(d)
      BY DEF CallInv
    <2>3. Key(d)' = Key(d) /\ MembersOf(Key(d))' = MembersOf(Key(d))
      BY <1>1 DEF Key, MembersOf
    <2>4. pc'[d] = "dead" \/ pc'[d] = pc[d]
      BY <2>1
    <2>5. MemberInv(d)'
      BY <1>1, <2>2, <2>3, <2>4 DEF MemberInv
    <2>6. StepInv(d)'
      BY <1>1, <2>2, <2>4 DEF StepInv, DmSteps, GroupSteps, FirstSteps
    <2>7. pc'[d] # "dead" /\ from[d] = "store" => meta' = meta /\ pc[d] # "dead"
      BY <2>1, <2>2 DEF Crash, Gone, Running, StepInv, FirstSteps
    <2>8. FromInv(d)'
      BY <1>1, <2>2, <2>3, <2>7 DEF FromInv
    <2> QED
      BY <2>5, <2>6, <2>8
  <1> QED
    BY <1>1, <1>2 DEF CallInv, KeepCreators

Own(c) == MemberInv(c)' /\ StepInv(c)' /\ FromInv(c)'

LEMMA StepKeeps ==
    ASSUME TypeOK, NEW c \in Callers, Step(c), MemberInv(c), StepInv(c), FromInv(c)
    PROVE  Grows(c) /\ Own(c)
  <1> USE DEF Own
  <1>1. CASE GetRoom(c)
    BY <1>1, GetRoomGrows, GetRoomInv
  <1>2. CASE GetMembers(c)
    BY <1>2, GetMembersGrows, GetMembersInv
  <1>3. CASE UpsertRoom(c)
    BY <1>3, UpsertRoomGrows, UpsertRoomInv
  <1>4. ASSUME NEW u \in Users, UpsertMember(c, u) PROVE Grows(c) /\ Own(c)
    BY <1>4, UpsertMemberGrows, UpsertMemberInv
  <1>5. CASE FindConversation(c)
    BY <1>5, FindConversationGrows, FindConversationInv
  <1>6. CASE UpsertCanonical(c)
    BY <1>6, UpsertCanonicalGrows, UpsertCanonicalInv
  <1>7. CASE InsertConversation(c)
    BY <1>7, InsertConversationGrows, InsertConversationInv
  <1>8. CASE Refind(c)
    BY <1>8, RefindGrows, RefindInv
  <1>9. CASE StoreGet(c)
    BY <1>9, StoreGetGrows, StoreGetInv
  <1>10. CASE StoreSave(c)
    BY <1>10, StoreSaveGrows, StoreSaveInv
  <1>11. CASE GroupConversation(c)
    BY <1>11, GroupConversationGrows, GroupConversationInv
  <1>12. CASE GroupDocs(c)
    BY <1>12, GroupDocsGrows, GroupDocsInv
  <1> QED
    BY <1>1, <1>2, <1>3, <1>4, <1>5, <1>6, <1>7, <1>8, <1>9, <1>10, <1>11, <1>12 DEF Step

LEMMA StepComplete ==
    ASSUME TypeOK, NEW c \in Callers, Step(c), MemberInv(c), Grows(c), MembersComplete
    PROVE  MembersComplete'
  <1>1. CASE GetRoom(c)
    <2>1. pc[c] # "member" /\ row' = row
      BY <1>1 DEF GetRoom, stores
    <2> QED
      BY <2>1, GoesOn, StaysComplete
  <1>2. CASE GetMembers(c)
    <2>1. pc[c] # "member" /\ row' = row
      BY <1>2 DEF GetMembers, stores
    <2> QED
      BY <2>1, GoesOn, StaysComplete
  <1>3. CASE UpsertRoom(c)
    <2>1. pc[c] # "member"
      BY <1>3 DEF UpsertRoom
    <2>2. ASSUME NEW k \in Keys, row'[k] # None, row[k] = None PROVE Inserting(k)'
      <3>1. k = Key(c) /\ pc'[c] = "member" /\ Key(c)' = Key(c)
        BY <1>3, <2>2, KeyType DEF UpsertRoom, TypeOK, Goto, Key
      <3> QED
        BY <3>1 DEF Inserting
    <2> QED
      BY <2>1, <2>2, GoesOn, StaysComplete
  <1>4. ASSUME NEW u \in Users, UpsertMember(c, u) PROVE MembersComplete'
    <2>1. row' = row /\ Key(c)' = Key(c)
      BY <1>4 DEF UpsertMember, Key
    <2>2. ASSUME NEW k \in Keys, Inserting(k)
          PROVE  Inserting(k)' \/ k \in cut' \/ MembersOf(k) \subseteq members'[k]
      <3>1. PICK d \in Callers : pc[d] = "member" /\ Key(d) = k
        BY <2>2 DEF Inserting
      <3>2. CASE d # c
        <4>1. pc'[d] = "member" /\ Key(d)' = k
          BY <3>1, <3>2 DEF Grows, Key
        <4> QED
          BY <4>1 DEF Inserting
      <3>3. CASE d = c /\ pc'[c] = "member"
        BY <2>1, <3>1, <3>3 DEF Inserting
      <3>4. CASE d = c /\ pc'[c] # "member" /\ Key(c) \notin cut'
        <4>1. left[c] = {u} /\ members' = [members EXCEPT ![Key(c)] = @ \cup {u}]
          BY <1>4, <3>1, <3>4 DEF UpsertMember, TypeOK, Fails, Goto
        <4>2. MembersOf(k) \subseteq members[k] \cup {u}
          BY <4>1, <3>1, <3>4 DEF MemberInv
        <4> QED
          BY <4>1, <4>2, <3>1, <3>4, KeyType DEF TypeOK
      <3> QED
        BY <3>1, <3>2, <3>3, <3>4
    <2> QED
      BY <2>1, <2>2, StaysComplete
  <1>5. CASE FindConversation(c)
    <2>1. pc[c] # "member" /\ row' = row
      BY <1>5 DEF FindConversation, stores
    <2> QED
      BY <2>1, GoesOn, StaysComplete
  <1>6. CASE UpsertCanonical(c)
    <2>1. pc[c] # "member" /\ row' = row
      BY <1>6 DEF UpsertCanonical, stores
    <2> QED
      BY <2>1, GoesOn, StaysComplete
  <1>7. CASE InsertConversation(c)
    <2>1. pc[c] # "member" /\ row' = row
      BY <1>7 DEF InsertConversation, stores
    <2> QED
      BY <2>1, GoesOn, StaysComplete
  <1>8. CASE Refind(c)
    <2>1. pc[c] # "member" /\ row' = row
      BY <1>8 DEF Refind, stores
    <2> QED
      BY <2>1, GoesOn, StaysComplete
  <1>9. CASE StoreGet(c)
    <2>1. pc[c] # "member" /\ row' = row
      BY <1>9 DEF StoreGet, stores
    <2> QED
      BY <2>1, GoesOn, StaysComplete
  <1>10. CASE StoreSave(c)
    <2>1. pc[c] # "member" /\ row' = row
      BY <1>10 DEF StoreSave, stores
    <2> QED
      BY <2>1, GoesOn, StaysComplete
  <1>11. CASE GroupConversation(c)
    <2>1. pc[c] # "member" /\ row' = row
      BY <1>11 DEF GroupConversation, stores
    <2> QED
      BY <2>1, GoesOn, StaysComplete
  <1>12. CASE GroupDocs(c)
    <2>1. pc[c] # "member" /\ row' = row
      BY <1>12 DEF GroupDocs, stores
    <2> QED
      BY <2>1, GoesOn, StaysComplete
  <1> QED
    BY <1>1, <1>2, <1>3, <1>4, <1>5, <1>6, <1>7, <1>8, <1>9, <1>10, <1>11, <1>12 DEF Step

LEMMA CreateComplete ==
    ASSUME TypeOK, NEW c \in Callers, NEW k \in {"DM", "GROUP"}, NEW u \in Users,
           CreateRoom(c, k, u), Grows(c), MembersComplete
    PROVE  MembersComplete'
  <1>1. pc[c] # "member" /\ row' = row
    BY DEF CreateRoom, stores
  <1> QED
    BY <1>1, GoesOn, StaysComplete

LEMMA CrashComplete ==
    ASSUME TypeOK, NEW c \in Callers, Crash(c), MembersComplete
    PROVE  MembersComplete'
  <1>1. UNCHANGED <<row, members, kind>> /\ cut \subseteq cut'
    BY DEF Crash
  <1>2. ASSUME NEW k \in Keys, Inserting(k) PROVE Inserting(k)' \/ k \in cut'
    <2>1. PICK d \in Callers : pc[d] = "member" /\ Key(d) = k
      BY <1>2 DEF Inserting
    <2>2. CASE d \notin Gone(c)
      <3>1. pc'[d] = "member" /\ Key(d)' = k
        BY <1>1, <2>1, <2>2 DEF Crash, Key
      <3> QED
        BY <3>1 DEF Inserting
    <2>3. CASE d \in Gone(c)
      BY <2>1, <2>3 DEF Crash
    <2> QED
      BY <2>2, <2>3
  <1> QED
    BY <1>1, <1>2 DEF MembersComplete, MembersOf

LEMMA PostKeeps ==
    ASSUME CallInv, MembersComplete, NEW u, Post(u)
    PROVE  CallInv' /\ MembersComplete' /\ KeepCreators
  <1>1. UNCHANGED <<row, members, conv, meta, pc, kind, left, from, cut>>
    BY DEF Post, stores
  <1>2. CallInv'
    BY <1>1 DEF CallInv, MemberInv, StepInv, FromInv, Key, MembersOf
  <1>3. MembersComplete'
    BY <1>1 DEF MembersComplete, Inserting, Key, MembersOf
  <1> QED
    BY <1>1, <1>2, <1>3 DEF KeepCreators

-----------------------------------------------------------------------------
(* The theorems.                                                           *)

LEMMA InitRoom == Init => RoomInv
  <1> SUFFICES ASSUME Init PROVE RoomInv
    OBVIOUS
  <1>1. TypeOK
    BY InitType
  <1>2. ASSUME NEW c \in Callers PROVE MemberInv(c) /\ StepInv(c) /\ FromInv(c)
    <2>1. pc[c] = "idle" /\ from[c] = "none" /\ conv[c] = None
      BY KeyType DEF Init
    <2> QED
      BY <2>1 DEF MemberInv, StepInv, FromInv, DmSteps, GroupSteps, FirstSteps
  <1>3. MembersComplete
    BY DEF Init, MembersComplete
  <1> QED
    BY <1>1, <1>2, <1>3 DEF RoomInv, CallInv

LEMMA NextRoom == RoomInv /\ [Next]_vars => RoomInv' /\ (Next => KeepCreators)
  <1> SUFFICES ASSUME RoomInv, [Next]_vars PROVE RoomInv' /\ (Next => KeepCreators)
    OBVIOUS
  <1> USE DEF RoomInv
  <1>t. TypeOK'
    BY NextType
  <1>o. ASSUME NEW c \in Callers, Grows(c), Own(c) PROVE CallInv' /\ KeepCreators
    BY <1>o, OthersKeep DEF CallInv, Own, Grows
  <1>1. ASSUME NEW c \in Callers, Step(c)
        PROVE  CallInv' /\ MembersComplete' /\ KeepCreators
    <2>1. Grows(c) /\ Own(c)
      BY <1>1, StepKeeps DEF CallInv
    <2>2. MembersComplete'
      BY <1>1, <2>1, StepComplete DEF CallInv
    <2> QED
      BY <2>1, <2>2, <1>o
  <1>2. ASSUME NEW c \in Callers, Crash(c)
        PROVE  CallInv' /\ MembersComplete' /\ KeepCreators
    BY <1>2, CrashKeeps, CrashComplete
  <1>3. ASSUME NEW c \in Callers, NEW k \in {"DM", "GROUP"}, NEW u \in Users,
               CreateRoom(c, k, u)
        PROVE  CallInv' /\ MembersComplete' /\ KeepCreators
    <2>1. Grows(c) /\ Own(c)
      BY <1>3, CreateRoomGrows, CreateRoomInv DEF CallInv, Own
    <2>2. MembersComplete'
      BY <1>3, <2>1, CreateComplete
    <2> QED
      BY <2>1, <2>2, <1>o
  <1>4. ASSUME NEW u \in Pair, Post(u)
        PROVE  CallInv' /\ MembersComplete' /\ KeepCreators
    BY <1>4, PostKeeps
  <1>5. CASE Next
    BY <1>1, <1>2, <1>3, <1>4, <1>5, <1>t DEF Next
  <1>6. CASE UNCHANGED vars
    <2>1. CallInv'
      BY <1>6 DEF CallInv, MemberInv, StepInv, FromInv, Key, MembersOf, vars, stores
    <2>2. MembersComplete'
      BY <1>6 DEF MembersComplete, Inserting, Key, MembersOf, vars, stores
    <2>3. KeepCreators
      BY <1>6 DEF KeepCreators, vars, stores
    <2> QED
      BY <2>1, <2>2, <2>3, <1>t
  <1> QED
    BY <1>5, <1>6

\* The inductive invariant: types, what every call of CreateRoom knows at its
\* step (grpc_server.go 366-438), and complete members.
THEOREM RoomInvariant == Spec => []RoomInv
  BY InitRoom, NextRoom, PTL DEF Spec

\* A room of PostgreSQL has all its members once nobody is inserting them,
\* unless an insert failed or its pod died (postgres.go 116-142, 178-198).
THEOREM MembersAlwaysComplete == Spec => []MembersComplete
  <1>1. RoomInv => MembersComplete
    BY DEF RoomInv
  <1> QED
    BY <1>1, RoomInvariant, PTL

\* A call that succeeded has its room in the store it took the id from
\* (grpc_server.go 377-433).
THEOREM RepliesBacked == Spec => []ReplyBacked
  <1>1. RoomInv => ReplyBacked
    <2> SUFFICES ASSUME RoomInv, NEW c \in Callers, pc[c] = "ok"
                 PROVE  CASE from[c] = "pg" -> /\ row[Key(c)] # None
                                               /\ kind[c] = "GROUP" =>
                                                     GroupMembers \subseteq members[c]
                          [] from[c] = "mongo" ->
                                IF kind[c] = "GROUP" THEN conv[c] # None
                                ELSE conv[DM] # None \/ conv[Legacy] # None
                          [] from[c] = "store" -> meta[Key(c)] # None
                          [] OTHER -> FALSE
      BY DEF ReplyBacked
    <2>1. from[c] \in {"pg", "mongo", "store"}
      BY DEF RoomInv, CallInv, StepInv, TypeOK, IdSources
    <2> QED
      BY <2>1 DEF RoomInv, CallInv, FromInv
  <1> QED
    BY <1>1, RoomInvariant, PTL

\* Whoever creates a room first stays its creator in both databases
\* (postgres.go 121-126, mongodb.go 261-280).
THEOREM CreatorsKept == Spec => CreatorKept
  <1>1. RoomInv /\ [Next]_vars => [KeepCreators]_vars
    BY NextRoom
  <1> QED
    BY <1>1, RoomInvariant, PTL DEF Spec, CreatorKept

-----------------------------------------------------------------------------
(* The list of rooms.  A room of a list is a record of four fields; those   *)
(* of the DM are told from the others by their normalised id.               *)

TheDM == PgId(DM)
DmIds == roomIDAliases(TheDM) \cup {DashId(UserA, UserB)}
Listed(u, up) == GetUserRoomsDetailed(u, up) \cup MongoUserRooms(u, up)
IsRoom(r) == /\ r = [id |-> r.id, group |-> r.group, at |-> r.at,
                     members |-> r.members]
             /\ r.at \in Int

\* Nothing has come to a conversation that is not there, and members are
\* those of a room.
ListInv ==
    /\ conv[DM] = None => lastAt[DM] = 0
    /\ members[DM] # {} => row[DM] # None

LEMMA DmIdFacts ==
  /\ TheDM = CanonicalDM(UserA, UserB) /\ TheDM \in DmIds
  /\ normalizeRoomID(TheDM) = TheDM
  /\ IsUuid(UserA) /\ IsUuid(UserB) => normalizeRoomID(ConvId(UserB, UserA)) = TheDM
  /\ DmIds = {TheDM, ConvId(UserA, UserB), ConvId(UserB, UserA), DashId(UserA, UserB)}
<1>1. UserA \in UserIds /\ UserB \in UserIds
  BY PairAssumption
<1>2. TheDM = CanonicalDM(UserA, UserB)
  BY DEF TheDM, PgId
<1>3. DmIds = {TheDM, ConvId(UserA, UserB), ConvId(UserB, UserA), DashId(UserA, UserB)}
  BY <1>1, <1>2, CanonicalAliases DEF DmIds
<1> QED
  BY <1>1, <1>2, <1>3, NormalizedIds

\* The ids of groups are left as they are, and are not the DM's.
LEMMA GroupIds ==
  ASSUME NEW k, NEW f \in {"group:", "CONV_"}
  PROVE  normalizeRoomID([form |-> f, ids |-> <<k>>]) \notin DmIds
<1> DEFINE g == [form |-> f, ids |-> <<k>>]
<1>1. ~TwoUsers(g) /\ g.form = f
  BY DEF TwoUsers
<1>2. normalizeRoomID(g) = g
  BY <1>1 DEF normalizeRoomID, TwoUuids
<1>3. TheDM.form = "dm:" /\ DashId(UserA, UserB).form = "dm-"
  BY DmIdFacts DEF CanonicalDM, DashId
<1>4. /\ Len(ConvId(UserA, UserB).ids) = 2 /\ Len(ConvId(UserB, UserA).ids) = 2
      /\ Len(g.ids) = 1
  BY DEF ConvId
<1>5. g # TheDM /\ g # DashId(UserA, UserB)
  BY <1>1, <1>3
<1>6. g # ConvId(UserA, UserB) /\ g # ConvId(UserB, UserA)
  BY <1>4
<1> QED
  BY <1>2, <1>5, <1>6, DmIdFacts

Stamp(up) == IF "activity" \in up THEN activity ELSE 0

\* The rooms of PostgreSQL: the DM is there when the user is a member.
LEMMA DetailedFacts ==
  ASSUME TypeOK, ListInv, NEW u \in Pair, NEW up \in SUBSET Reads
  PROVE  /\ \A r \in GetUserRoomsDetailed(u, up) :
               /\ IsRoom(r)
               /\ \/ normalizeRoomID(r.id) = TheDM /\ r.at = Stamp(up)
                  \/ normalizeRoomID(r.id) \notin DmIds
         /\ u \in members[DM] /\ "rooms" \in up =>
               \E r \in GetUserRoomsDetailed(u, up) :
                  normalizeRoomID(r.id) = TheDM /\ r.at = Stamp(up)
<1> USE DEF Stamp
<1> DEFINE Room(k) == [id |-> PgId(k), group |-> k # DM,
                       at |-> IF k = DM /\ "activity" \in up THEN activity ELSE 0,
                       members |-> members[k]]
           Mine == {k \in Keys : "rooms" \in up /\ row[k] # None /\ u \in members[k]}
<1>1. GetUserRoomsDetailed(u, up) = {Room(k) : k \in Mine}
  BY DEF GetUserRoomsDetailed
<1>2. activity \in Nat
  BY DEF TypeOK
<1>3. ASSUME NEW k \in Keys
      PROVE  /\ IsRoom(Room(k)) /\ Room(k).id = PgId(k)
             /\ k = DM => Room(k).at = Stamp(up)
  BY <1>2 DEF IsRoom
<1>4. ASSUME NEW k \in Keys, k # DM PROVE normalizeRoomID(PgId(k)) \notin DmIds
  BY <1>4, GroupIds DEF PgId
<1>5. normalizeRoomID(PgId(DM)) = TheDM
  BY DmIdFacts DEF TheDM
<1>6. DM \in Keys /\ (u \in members[DM] /\ "rooms" \in up => DM \in Mine)
  BY DEF Keys, ListInv
<1> HIDE DEF Room
<1> QED
  BY <1>1, <1>3, <1>4, <1>5, <1>6

Known(k, up) == conv[k] # None /\ "conversations" \in up

\* The rooms of MongoDB: the conversation of the DM is there when it exists.
LEMMA MongoFacts ==
  ASSUME TypeOK, NEW u \in Pair, NEW up \in SUBSET Reads, IsUuid(UserA), IsUuid(UserB)
  PROVE  /\ \A r \in MongoUserRooms(u, up) :
               /\ IsRoom(r) /\ r.at >= -1
               /\ normalizeRoomID(r.id) \in {TheDM} \/ normalizeRoomID(r.id) \notin DmIds
         /\ Known(DM, up) => \E r \in MongoUserRooms(u, up) :
               normalizeRoomID(r.id) = TheDM /\ r.at = UnixMilli(lastAt[DM])
         /\ Known(Legacy, up) => \E r \in MongoUserRooms(u, up) :
               normalizeRoomID(r.id) = TheDM
         /\ \E s, t \in Int : \A r \in MongoUserRooms(u, up) :
               normalizeRoomID(r.id) = TheDM => r.at \in {s, t}
<1> USE DEF Known
<1> DEFINE Mine == {k \in Convs : /\ "conversations" \in up /\ conv[k] # None
                                  /\ u \in Participants(k) \/ conv[k] = u}
           Room(k) == [id |-> MongoId(k), group |-> FALSE, at |-> UnixMilli(lastAt[k]),
                       members |-> Participants(k)]
           seen == {p \in posts : /\ "messages" \in up
                                  /\ p.by = u \/ MatchesDm(u, PgId(DM))}
           last == {q \in seen : \A r \in seen : r.at <= q.at}
           Post1(p) == [id |-> PgId(DM), group |-> FALSE, at |-> UnixMilli(p.at),
                        members |-> {splitRoomID(PgId(DM))[i] : i \in 1 .. 2}]
<1>1. MongoUserRooms(u, up) = IF Mine # {} THEN {Room(k) : k \in Mine}
                          ELSE {Post1(p) : p \in last}
  BY DEF MongoUserRooms
<1>2. ASSUME NEW k \in Convs
      PROVE  /\ IsRoom(Room(k)) /\ Room(k).id = MongoId(k) /\ Room(k).at = UnixMilli(lastAt[k])
             /\ UnixMilli(lastAt[k]) \in Int /\ UnixMilli(lastAt[k]) >= -1
  BY DEF IsRoom, TypeOK, UnixMilli
<1>3. DM \in Convs /\ Legacy \in Convs /\ DM # Legacy
  BY KeyAssumption DEF Convs, Keys
<1>4. normalizeRoomID(MongoId(DM)) = TheDM /\ normalizeRoomID(MongoId(Legacy)) = TheDM
  BY <1>3, DmIdFacts DEF MongoId
<1>5. ASSUME NEW k \in Convs, k \notin {DM, Legacy}
      PROVE  normalizeRoomID(MongoId(k)) \notin DmIds
  BY <1>5, GroupIds DEF MongoId
<1>6. (Known(DM, up) => DM \in Mine) /\ (Known(Legacy, up) => Legacy \in Mine)
  BY <1>3 DEF Participants
<1>7. ASSUME NEW p \in last
      PROVE  /\ IsRoom(Post1(p)) /\ Post1(p).id = PgId(DM) /\ Post1(p).at = UnixMilli(p.at)
             /\ p.at \in Nat /\ UnixMilli(p.at) \in Int /\ UnixMilli(p.at) >= -1
  <2>1. p \in posts /\ p.at \in Nat
    BY DEF TypeOK
  <2> QED
    BY <2>1 DEF IsRoom, UnixMilli
<1>8. \A p, q \in last : p.at = q.at
  <2> TAKE p, q \in last
  <2>1. p.at <= q.at /\ q.at <= p.at
    OBVIOUS
  <2>2. p.at \in Nat /\ q.at \in Nat
    BY <1>7
  <2> QED
    BY <2>1, <2>2
<1>9. normalizeRoomID(PgId(DM)) = TheDM
  BY DmIdFacts DEF TheDM
<1>10. Mine \subseteq Convs
  OBVIOUS
<1> HIDE DEF Room, Post1, last, Mine
<1>11. CASE Mine # {}
  <2>1. MongoUserRooms(u, up) = {Room(k) : k \in Mine}
    BY <1>1, <1>11
  <2>2. \A r \in MongoUserRooms(u, up) : normalizeRoomID(r.id) = TheDM =>
           r.at \in {UnixMilli(lastAt[DM]), UnixMilli(lastAt[Legacy])}
    BY <1>2, <1>5, <1>10, <2>1, DmIdFacts
  <2>3. \A r \in MongoUserRooms(u, up) :
           /\ IsRoom(r) /\ r.at >= -1
           /\ normalizeRoomID(r.id) \in {TheDM} \/ normalizeRoomID(r.id) \notin DmIds
    BY <1>2, <1>4, <1>5, <1>10, <2>1
  <2>4. Known(DM, up) => \E r \in MongoUserRooms(u, up) :
           normalizeRoomID(r.id) = TheDM /\ r.at = UnixMilli(lastAt[DM])
    BY <1>2, <1>3, <1>4, <1>6, <2>1
  <2>4a. Known(Legacy, up) => \E r \in MongoUserRooms(u, up) : normalizeRoomID(r.id) = TheDM
    BY <1>2, <1>3, <1>4, <1>6, <2>1
  <2>5. \E s, t \in Int : \A r \in MongoUserRooms(u, up) :
           normalizeRoomID(r.id) = TheDM => r.at \in {s, t}
    BY <1>2, <1>3, <2>2
  <2> QED
    BY <2>3, <2>4, <2>4a, <2>5
<1>12. CASE Mine = {}
  <2>1. MongoUserRooms(u, up) = {Post1(p) : p \in last}
    BY <1>1, <1>12
  <2>2. \A r \in MongoUserRooms(u, up) : IsRoom(r) /\ r.at >= -1 /\ normalizeRoomID(r.id) = TheDM
    BY <1>7, <1>9, <2>1
  <2>3. \E t \in Int : \A r \in MongoUserRooms(u, up) : r.at = t
    <3>1. CASE last = {}
      BY <2>1, <3>1
    <3>2. CASE last # {}
      <4>1. PICK q \in last : TRUE
        BY <3>2
      <4>2. UnixMilli(q.at) \in Int /\ \A r \in MongoUserRooms(u, up) : r.at = UnixMilli(q.at)
        BY <1>7, <1>8, <2>1, <4>1
      <4> QED
        BY <4>2
    <3> QED
      BY <3>1, <3>2
  <2>4. ~Known(DM, up) /\ ~Known(Legacy, up)
    BY <1>6, <1>12
  <2> QED
    BY <2>2, <2>3, <2>4
<1> QED
  BY <1>11, <1>12

\* Rooms with at most three different stamps have a newest one.
LEMMA NewestExists ==
  ASSUME NEW all, all # {}, NEW a \in Int, NEW b \in Int, NEW c \in Int,
         \A r \in all : r.at \in {a, b, c}
  PROVE  \E r \in all : \A q \in all : q.at <= r.at
<1> DEFINE T == {r.at : r \in all}
<1>1. T # {} /\ T \subseteq {a, b, c}
  OBVIOUS
<1>2. \A t \in T : t \in {a, b, c} /\ t \in Int
  BY <1>1
<1> HIDE DEF T
<1>3. \E t \in T : \A s \in T : s <= t
  <2> SUFFICES ASSUME \A t \in T : \E s \in T : ~(s <= t) PROVE FALSE
    OBVIOUS
  <2>1. PICK t1 \in T : TRUE
    BY <1>1
  <2>2. PICK t2 \in T : ~(t2 <= t1)
    OBVIOUS
  <2>3. PICK t3 \in T : ~(t3 <= t2)
    OBVIOUS
  <2>4. PICK t4 \in T : ~(t4 <= t3)
    OBVIOUS
  <2> QED
    BY <1>2, <2>2, <2>3, <2>4
<1> QED
  BY <1>3 DEF T

\* A merged room has the id it was merged under and the newest stamp.
LEMMA MergedRoom ==
  ASSUME NEW id, NEW pg, NEW mongo, pg \cup mongo # {},
         \A r \in pg \cup mongo : IsRoom(r),
         \E r \in pg \cup mongo : \A q \in pg \cup mongo : q.at <= r.at
  PROVE  /\ MergeRooms(id, pg, mongo).id = id
         /\ MergeRooms(id, pg, mongo).at \in Int
         /\ \A q \in pg \cup mongo : q.at <= MergeRooms(id, pg, mongo).at
<1> DEFINE all == pg \cup mongo
           first == CHOOSE r \in (IF pg # {} THEN pg ELSE mongo) : TRUE
           newest == CHOOSE r \in all : \A q \in all : q.at <= r.at
           merged == [first EXCEPT !.id = id, !.at = newest.at]
<1>1. first \in all
  BY Zenon
<1>2. newest \in all /\ \A q \in all : q.at <= newest.at
  BY Zenon
<1>3. MergeRooms(id, pg, mongo) = merged
  BY DEF MergeRooms
<1>4. first = [id |-> first.id, group |-> first.group, at |-> first.at,
               members |-> first.members]
  BY <1>1 DEF IsRoom
<1>5. newest.at \in Int
  BY <1>2 DEF IsRoom
<1> HIDE DEF first, newest, all
<1>6. merged.id = id /\ merged.at = newest.at
  BY <1>4
<1> QED
  BY <1>2, <1>3, <1>5, <1>6 DEF all

\* The entries of the DM are at most one, merged of all that the databases
\* have of it, and one if they have any.
LEMMA ListedFacts ==
  ASSUME TypeOK, ListInv, IsUuid(UserA), IsUuid(UserB)
  PROVE  /\ ListedOnce
         /\ \A u \in Pair, up \in SUBSET Reads : (\E r \in Listed(u, up) : normalizeRoomID(r.id) = TheDM)
               => DmEntries(u, up) # {}
<1> SUFFICES ASSUME NEW u \in Pair, NEW up \in SUBSET Reads
             PROVE  /\ Cardinality(DmEntries(u, up)) <= 1
                    /\ \A r \in DmEntries(u, up) :
                          /\ r.id = PgId(DM)
                          /\ "conversations" \in up => r.at >= UnixMilli(lastAt[DM])
                          /\ {"rooms", "activity"} \subseteq up /\ u \in members[DM]
                                => r.at >= activity
                    /\ (\E r \in Listed(u, up) : normalizeRoomID(r.id) = TheDM)
                          => DmEntries(u, up) # {}
  BY DEF ListedOnce
<1> DEFINE pg == GetUserRoomsDetailed(u, up)
           mongo == MongoUserRooms(u, up)
           With(rooms, id) == {r \in rooms : normalizeRoomID(r.id) = id}
           ids == {normalizeRoomID(r.id) : r \in pg \cup mongo}
           Merged(id) == MergeRooms(id, With(pg, id), With(mongo, id))
           entry == Merged(TheDM)
           all == With(pg, TheDM) \cup With(mongo, TheDM)
<1>1. GetUserRooms(u, up) = {Merged(id) : id \in ids}
  BY DEF GetUserRooms
<1>2. /\ \A r \in pg \cup mongo : IsRoom(r)
      /\ \A id \in ids : id = TheDM \/ id \notin DmIds
  BY DetailedFacts, MongoFacts
<1>3. PICK s \in Int, t \in Int :
         \A r \in mongo : normalizeRoomID(r.id) = TheDM => r.at \in {s, t}
  BY MongoFacts
<1>4. activity \in Nat /\ Stamp(up) \in Nat /\ lastAt[DM] \in Nat
  <2>1. DM \in Convs
    BY DEF Convs, Keys
  <2> QED
    BY <2>1 DEF TypeOK, Stamp
<1>5. \A r \in With(pg, TheDM) : r.at = Stamp(up)
  BY DetailedFacts, DmIdFacts
<1>6. \A r \in all : IsRoom(r) /\ r.at \in {Stamp(up), s, t}
  BY <1>2, <1>3, <1>5
<1>7. ASSUME all # {}
      PROVE  /\ entry.id = TheDM /\ entry.at \in Int
             /\ \A q \in all : q.at <= entry.at
  <2>1. \E r \in all : \A q \in all : q.at <= r.at
    <3>1. Stamp(up) \in Int
      BY <1>4
    <3> HIDE DEF all
    <3> QED
      BY <1>6, <1>7, <3>1, NewestExists
  <2> QED
    BY <1>6, <1>7, <2>1, MergedRoom
<1>8. ASSUME NEW id \in ids, id # TheDM PROVE Merged(id).id \notin DmIds
  <2> DEFINE them == With(pg, id) \cup With(mongo, id)
  <2>1. them # {} /\ \A r \in them : IsRoom(r)
    BY <1>2
  <2>2. Merged(id).id = id
    <3> DEFINE first == CHOOSE r \in (IF With(pg, id) # {} THEN With(pg, id)
                                      ELSE With(mongo, id)) : TRUE
    <3>1. first \in them
      BY <2>1, Zenon
    <3>2. first = [id |-> first.id, group |-> first.group, at |-> first.at,
                   members |-> first.members]
      BY <2>1, <3>1 DEF IsRoom
    <3>3. \E x : Merged(id) = [first EXCEPT !.id = id, !.at = x]
      BY DEF MergeRooms
    <3> HIDE DEF first
    <3> QED
      BY <3>2, <3>3
  <2> QED
    BY <1>2, <1>8, <2>2
<1>9. all # {} => TheDM \in ids
  OBVIOUS
<1>10. all = {} => TheDM \notin ids
  OBVIOUS
<1>11. DmEntries(u, up) \subseteq {entry} /\ (all = {} => DmEntries(u, up) = {})
  <2>1. DmEntries(u, up) = {r \in GetUserRooms(u, up) : r.id \in DmIds}
    BY DEF DmEntries, DmIds, TheDM
  <2> HIDE DEF ids, Merged, entry, all
  <2>2. entry = Merged(TheDM)
    BY DEF entry
  <2> QED
    BY <1>1, <1>8, <1>10, <2>1, <2>2
<1>11a. (\E r \in Listed(u, up) : normalizeRoomID(r.id) = TheDM) => DmEntries(u, up) # {}
  <2> SUFFICES ASSUME NEW r \in Listed(u, up), normalizeRoomID(r.id) = TheDM
               PROVE  DmEntries(u, up) # {}
    OBVIOUS
  <2>1. r \in all
    BY DEF Listed
  <2>2. entry \in GetUserRooms(u, up) /\ entry.id \in DmIds
    BY <1>1, <1>7, <1>9, <2>1, DmIdFacts
  <2> QED
    BY <2>2 DEF DmEntries, DmIds, TheDM
<1>12. Cardinality(DmEntries(u, up)) <= 1
  <2> HIDE DEF entry
  <2>1. IsFiniteSet({entry}) /\ Cardinality({entry}) = 1
    BY FS_Singleton
  <2>2. Cardinality(DmEntries(u, up)) <= Cardinality({entry})
    BY <1>11, <2>1, FS_Subset
  <2> QED
    BY <2>1, <2>2
<1>13. ASSUME NEW r \in DmEntries(u, up)
       PROVE  /\ r.id = PgId(DM)
              /\ "conversations" \in up => r.at >= UnixMilli(lastAt[DM])
              /\ {"rooms", "activity"} \subseteq up /\ u \in members[DM]
                    => r.at >= activity
  <2>1. r = entry /\ all # {}
    BY <1>11, <1>13
  <2>2. r.id = TheDM /\ r.at \in Int /\ \A q \in all : q.at <= r.at
    BY <1>7, <2>1
  <2>3. ASSUME "conversations" \in up PROVE r.at >= UnixMilli(lastAt[DM])
    <3>1. CASE conv[DM] = None
      <4>1. UnixMilli(lastAt[DM]) = -1
        BY <3>1 DEF ListInv, UnixMilli
      <4>2. \A q \in all : q.at >= -1
        BY <1>4, <1>5, MongoFacts
      <4>3. PICK q \in all : q.at <= r.at /\ q.at >= -1 /\ q.at \in Int
        BY <1>6, <2>1, <2>2, <4>2 DEF IsRoom
      <4> QED
        BY <2>2, <4>1, <4>3
    <3>2. CASE conv[DM] # None
      <4>1. \E q \in all : q.at = UnixMilli(lastAt[DM])
        BY <2>3, <3>2, MongoFacts DEF Known
      <4>2. UnixMilli(lastAt[DM]) \in Int
        BY <1>4 DEF UnixMilli
      <4> QED
        BY <2>2, <4>1, <4>2
    <3> QED
      BY <3>1, <3>2
  <2>4. ASSUME {"rooms", "activity"} \subseteq up, u \in members[DM]
        PROVE  r.at >= activity
    <3>1. \E q \in all : q.at = activity
      BY <2>4, DetailedFacts DEF Stamp
    <3> QED
      BY <1>4, <2>2, <3>1
  <2> QED
    BY <2>2, <2>3, <2>4 DEF TheDM
<1> QED
  BY <1>11a, <1>12, <1>13

LEMMA ListStep ==
  ASSUME RoomInv, ListInv, [Next]_vars
  PROVE  ListInv'
<1>1. KeepCreators
  <2>1. UNCHANGED vars => KeepCreators
    BY DEF vars, stores, KeepCreators
  <2> QED
    BY <2>1, NextRoom
<1>2. DM \in Keys /\ DM \in Convs
  BY DEF Keys, Convs
<1>3. /\ conv'[DM] = None => conv[DM] = None
      /\ row[DM] # None => row'[DM] # None
  BY <1>1, <1>2 DEF KeepCreators
<1>4. lastAt' = lastAt \/ conv[DM] # None
  <2> USE DEF chats
  <2>1. ASSUME NEW c \in Callers, Step(c) PROVE lastAt' = lastAt
    BY <2>1 DEF Step, GetRoom, GetMembers, UpsertRoom, UpsertMember, FindConversation,
       UpsertCanonical, InsertConversation, Refind, StoreGet, StoreSave,
       GroupConversation, GroupDocs
  <2>2. ASSUME NEW c \in Callers, NEW k, NEW u, Crash(c) \/ CreateRoom(c, k, u)
        PROVE  lastAt' = lastAt
    BY <2>2 DEF Crash, CreateRoom
  <2>3. ASSUME NEW u, Post(u)
        PROVE  lastAt' = lastAt \/ conv[DM] # None
    BY <2>3 DEF Post
  <2> QED
    BY <2>1, <2>2, <2>3 DEF Next, vars
<1>5. members' = members \/ members'[DM] = members[DM] \/ row[DM] # None
  <2> USE DEF stores
  <2>1. ASSUME NEW c \in Callers, NEW u \in Users, UpsertMember(c, u)
        PROVE  members'[DM] = members[DM] \/ row[DM] # None
    <3>1. row[Key(c)] # None
      BY <2>1 DEF RoomInv, CallInv, MemberInv, UpsertMember
    <3>2. Key(c) # DM => members'[DM] = members[DM]
      <4>1. \/ members' = members
            \/ members' = [members EXCEPT ![Key(c)] = members[Key(c)] \cup {u}]
        BY <2>1 DEF UpsertMember
      <4>2. members \in [Keys -> SUBSET Users]
        BY DEF RoomInv, TypeOK
      <4> HIDE DEF stores
      <4> QED
        BY <1>2, <4>1, <4>2
    <3> QED
      BY <3>1, <3>2
  <2>2. ASSUME NEW c \in Callers, Step(c), ~\E u \in Users : UpsertMember(c, u)
        PROVE  members' = members
    BY <2>2 DEF Step, GetRoom, GetMembers, UpsertRoom, FindConversation,
       UpsertCanonical, InsertConversation, Refind, StoreGet, StoreSave,
       GroupConversation, GroupDocs
  <2>3. ASSUME NEW c \in Callers, NEW k, NEW u, Crash(c) \/ CreateRoom(c, k, u)
        PROVE  members' = members
    BY <2>3 DEF Crash, CreateRoom
  <2>4. ASSUME NEW u, Post(u)
        PROVE  members' = members
    BY <2>4 DEF Post
  <2> QED
    BY <2>1, <2>2, <2>3, <2>4 DEF Next, vars
<1> QED
  BY <1>3, <1>4, <1>5 DEF ListInv

LEMMA ListInvariant == Spec => []ListInv
<1>1. Init => ListInv
  <2>1. DM \in Convs /\ DM \in Keys /\ DM # Legacy
    BY KeyAssumption DEF Convs, Keys
  <2> QED
    BY <2>1 DEF Init, ListInv
<1>2. RoomInv /\ ListInv /\ [Next]_vars => ListInv'
  BY ListStep
<1> QED
  BY <1>1, <1>2, RoomInvariant, PTL DEF Spec

\* A user of a pair of UUIDs sees the DM at most once, under its canonical id
\* and with the newest stamp of the stores that could be read (grpc_server.go
\* 508-532, 558-581).  The CONV_ ids
\* of users without UUIDs are not normalised, so theirs may appear twice.
THEOREM AlwaysListedOnce ==
  ASSUME IsUuid(UserA), IsUuid(UserB)
  PROVE  Spec => []ListedOnce
<1>1. RoomInv /\ ListInv => ListedOnce
  BY ListedFacts DEF RoomInv
<1> QED
  BY <1>1, ListInvariant, RoomInvariant, PTL

\* A call whose DM is in a database finds it listed for both users.
RepliedListed ==
    \A c \in Callers :
       pc[c] = "ok" /\ kind[c] = "DM" /\ from[c] \in {"pg", "mongo"}
          => \/ Inserting(DM) \/ DM \in cut
             \/ \A u \in Pair : DmEntries(u, Reads) # {}

\* A DM that a call took from a database is in the lists of both users,
\* unless members are being inserted or their inserts were cut short
\* (grpc_server.go 382-398, 508-532).  This is what DmListed asks of the
\* states in which every call has ended.
THEOREM AlwaysRepliedListed ==
  ASSUME IsUuid(UserA), IsUuid(UserB)
  PROVE  Spec => []RepliedListed
<1>1. ASSUME RoomInv, ListInv PROVE RepliedListed
  <2> SUFFICES ASSUME NEW c \in Callers, pc[c] = "ok", kind[c] = "DM",
                      from[c] \in {"pg", "mongo"}, ~Inserting(DM), DM \notin cut,
                      NEW u \in Pair
               PROVE  DmEntries(u, Reads) # {}
    BY DEF RepliedListed
  <2>1. Key(c) = DM /\ FromInv(c) /\ TypeOK /\ DM \in Keys
    BY <1>1 DEF Key, RoomInv, CallInv, Keys
  <2>2. \E r \in Listed(u, Reads) : normalizeRoomID(r.id) = TheDM
    <3>1. CASE from[c] = "pg"
      <4>1. row[DM] # None
        BY <2>1, <3>1 DEF FromInv
      <4>2. u \in members[DM]
        BY <1>1, <2>1, <4>1 DEF RoomInv, MembersComplete, MembersOf
      <4> QED
        BY <1>1, <2>1, <4>2, DetailedFacts DEF Listed, Reads
    <3>2. CASE from[c] = "mongo"
      <4>1. conv[DM] # None \/ conv[Legacy] # None
        BY <2>1, <3>2 DEF FromInv
      <4> QED
        BY <2>1, <4>1, MongoFacts DEF Listed, Known, Reads
    <3> QED
      BY <3>1, <3>2
  <2> QED
    BY <1>1, <2>1, <2>2, ListedFacts
<1>2. RoomInv /\ ListInv => RepliedListed
  BY <1>1
<1> QED
  BY <1>2, ListInvariant, RoomInvariant, PTL

-----------------------------------------------------------------------------
(* The history of a DM.                                                    *)

TheRoom == CanonicalDM(pair[1], pair[2])

\* Every spelling of the room's id is normalised to the same id.
LEMMA SpellingsAgree ==
  ASSUME pair \in Pairs
  PROVE  \A id \in Spellings : normalizeRoomID(id) = TheRoom
<1> DEFINE u == pair[1]
           v == pair[2]
<1>1. u \in UserIds /\ v \in UserIds
  BY HistoryAssumption
<1> HIDE DEF u, v
<1>2. /\ normalizeRoomID(DmId(u, v)) = CanonicalDM(u, v)
      /\ normalizeRoomID(DmId(v, u)) = CanonicalDM(u, v)
  BY <1>1, NormalizedIds
<1>3. IsUuid(u) /\ IsUuid(v) =>
         /\ normalizeRoomID(ConvId(u, v)) = CanonicalDM(u, v)
         /\ normalizeRoomID(ConvId(v, u)) = CanonicalDM(u, v)
  BY <1>1, NormalizedIds
<1>4. Len(u) = 1 /\ Len(v) = 1 =>
         /\ normalizeRoomID(DashId(u, v)) = CanonicalDM(u, v)
         /\ normalizeRoomID(DashId(v, u)) = CanonicalDM(u, v)
  BY <1>1, NormalizedIds
<1>5. TheRoom = CanonicalDM(u, v)
  BY DEF TheRoom, u, v
<1>6. ASSUME NEW id \in Spellings PROVE normalizeRoomID(id) = CanonicalDM(u, v)
  <2>1. \/ id \in {DmId(u, v), DmId(v, u)}
        \/ IsUuid(u) /\ IsUuid(v) /\ id \in {ConvId(u, v), ConvId(v, u)}
        \/ Len(u) = 1 /\ Len(v) = 1 /\ id \in {DashId(u, v), DashId(v, u)}
    BY <1>6 DEF Spellings, u, v
  <2> QED
    BY <1>2, <1>3, <1>4, <2>1
<1> QED
  BY <1>5, <1>6

LEMMA RoomAliases ==
  ASSUME pair \in Pairs
  PROVE  roomIDAliases(TheRoom)
            = {TheRoom, ConvId(pair[1], pair[2]), ConvId(pair[2], pair[1])}
  BY HistoryAssumption, CanonicalAliases DEF TheRoom

Doc == [conv : roomIDAliases(TheRoom) \cup {NoRoom}, room : roomIDAliases(TheRoom),
        sender : {pair[1], pair[2], NoUser}, user : {pair[1], pair[2]},
        created : Int, sent : Nat \ {0},
        type : {<<t>> : t \in MessageTypes} \cup {TypeName(t) : t \in MessageTypes},
        deleted : BOOLEAN]

HistoryTypeOK ==
    /\ pair \in Pairs
    /\ Stored \subseteq Messages /\ IsFiniteSet(Stored)
    /\ docs \in [Stored -> Doc]
    /\ sent \in [Stored -> [by : {pair[1], pair[2]}, at : Nat \ {0}]]
    /\ clock \in Nat \ {0}
    /\ limit \in Int
    /\ phase \in {"idle", "reading", "done"}
    /\ before \in Nat
    /\ pages \in Seq(SUBSET Messages)
    /\ ends \subseteq Nat
    /\ started \subseteq Messages

\* What is stored is what was sent.  Only messages of older versions lack
\* fields.
DocumentInv(m) ==
    /\ docs[m].sender \in {docs[m].user, NoUser}
    /\ sent[m] = [by |-> docs[m].user, at |-> docs[m].sent]
    /\ m \in Old => /\ docs[m].created \in {docs[m].sent, Absent}
                    /\ docs[m].type = <<TypeOf(m)>>
    /\ m \notin Old => /\ docs[m].created = docs[m].sent
                       /\ docs[m].type = TypeName(TypeOf(m))

DocInv == Old \subseteq Stored /\ \A m \in Stored : DocumentInv(m)

\* The reader has no message older than its cursor, and of the messages it
\* began with it misses, when the documents are in order, only those before the
\* cursor and those with the time of a cut.
ReaderInv ==
    /\ started \subseteq Stored /\ Seen \subseteq Stored
    /\ phase = "idle" => pages = <<>> /\ before = 0
    /\ phase = "reading" /\ pages # <<>> => before > 0
    /\ phase = "reading" => \A m \in Seen : before <= At(m)
    /\ phase = "reading" /\ InOrder =>
          \A m \in started :
             m \in Seen \/ At(m) \in ends \/ before = 0 \/ At(m) < before

HistoryInv ==
    HistoryTypeOK /\ DocInv /\ ReaderInv /\ PagesComplete /\ PagesOnce

\* The time of a message is its sent_at, and the order of the query agrees
\* with it when the documents are in order.
LEMMA TimeFacts ==
  ASSUME HistoryTypeOK, DocInv
  PROVE  /\ \A m \in Stored : At(m) = docs[m].sent /\ At(m) \in Nat \ {0}
         /\ InOrder => \A m, n \in Stored : At(m) > At(n) => Newer(m, n)
<1>1. ASSUME NEW m \in Stored
      PROVE  /\ docs[m].sent \in Nat \ {0} /\ docs[m].created \in Int
             /\ docs[m].created = docs[m].sent \/ docs[m].created = Absent
  <2>1. docs[m] \in Doc
    BY <1>1 DEF HistoryTypeOK
  <2>2. docs[m].sent \in Nat \ {0} /\ docs[m].created \in Int
    BY <2>1 DEF Doc
  <2> QED
    BY <2>2 DEF DocInv, DocumentInv
<1>2. ASSUME NEW m \in Stored PROVE At(m) = docs[m].sent
  <2>1. docs[m].created = Absent \/ docs[m].created = docs[m].sent
    BY <1>1
  <2>2. At(m) = IF docs[m].created = Absent THEN docs[m].sent ELSE docs[m].created
    BY DEF At, docToServerMessage
  <2> QED
    BY <2>1, <2>2
<1>3. ASSUME InOrder, NEW m \in Stored, NEW n \in Stored,
             docs[m].sent > docs[n].sent
      PROVE  Newer(m, n)
  <2>0. /\ docs[m].sent \in Nat \ {0} /\ docs[m].created \in Int
        /\ docs[m].created \in {docs[m].sent, Absent}
        /\ docs[n].sent \in Nat \ {0} /\ docs[n].created \in Int
        /\ docs[n].created \in {docs[n].sent, Absent}
    BY <1>1
  <2>1. CASE docs[m].created = Absent
    <3>1. docs[n].created = Absent
      BY <1>3, <2>0, <2>1 DEF InOrder
    <3> QED
      BY <1>3, <2>1, <3>1 DEF Newer
  <2>2. CASE docs[m].created # Absent
    <3>1. docs[m].created > docs[n].created
      BY <1>3, <2>0, <2>2 DEF Absent
    <3> QED
      BY <3>1 DEF Newer
  <2> QED
    BY <2>1, <2>2
<1> QED
  BY <1>1, <1>2, <1>3

\* A request reads every stored message, or those older than the cursor.
LEMMA QueryFacts ==
  ASSUME HistoryTypeOK, DocInv, NEW id \in Spellings, NEW t \in Nat
  PROVE  GetMessagesBefore(normalizeRoomID(id), t)
            = {m \in Stored : t = 0 \/ At(m) < t}
<1>1. normalizeRoomID(id) = TheRoom
  BY SpellingsAgree DEF HistoryTypeOK
<1>2. ASSUME NEW m \in Stored
      PROVE  /\ docs[m].room \in roomIDAliases(TheRoom)
             /\ docs[m].sent \in Nat /\ docs[m].created \in Int
             /\ docs[m].created = Absent \/ docs[m].created = docs[m].sent
             /\ At(m) = docs[m].sent
  <2>1. docs[m] \in Doc
    BY <1>2 DEF HistoryTypeOK
  <2>2. docs[m].sent \in Nat \ {0} /\ docs[m].created \in Int
        /\ docs[m].room \in roomIDAliases(TheRoom)
    BY <2>1 DEF Doc
  <2> QED
    BY <2>2, TimeFacts DEF DocInv, DocumentInv
<1>3. ASSUME NEW m \in Stored
      PROVE  (\/ t = 0
              \/ docs[m].created # Absent /\ docs[m].created < t
              \/ docs[m].sent < t) <=> (t = 0 \/ At(m) < t)
  BY <1>2
<1> QED
  BY <1>1, <1>2, <1>3 DEF GetMessagesBefore

LEMMA HistoryStarts == HistoryInit => HistoryInv
<1> SUFFICES ASSUME HistoryInit PROVE HistoryInv
  OBVIOUS
<1>1. PICK legacy \in SUBSET Old, flipped \in SUBSET Old,
           at \in [Old -> 1 .. OldTime] :
         /\ docs = [m \in Old |->
               OldDoc(IF m \in flipped THEN ConvId(pair[2], pair[1])
                                       ELSE ConvId(pair[1], pair[2]),
                      pair[1], at[m], TypeOf(m), m \in legacy)]
         /\ sent = [m \in Old |-> [by |-> pair[1], at |-> at[m]]]
  BY DEF HistoryInit
<1>2. pair \in Pairs /\ Stored = Old
  BY <1>1 DEF HistoryInit, Stored
<1>3. ASSUME NEW m \in Old
      PROVE  docs[m] \in Doc /\ DocumentInv(m)
  <2> DEFINE id == IF m \in flipped THEN ConvId(pair[2], pair[1])
                                   ELSE ConvId(pair[1], pair[2])
  <2>1. id \in roomIDAliases(TheRoom)
    BY <1>2, RoomAliases
  <2>2. TypeOf(m) \in MessageTypes
    BY DEF TypeOf, MessageTypes
  <2>3. docs[m] = OldDoc(id, pair[1], at[m], TypeOf(m), m \in legacy)
    BY <1>1
  <2>4. sent[m] = [by |-> pair[1], at |-> at[m]] /\ at[m] \in Nat \ {0}
    BY <1>1, TimeAssumption
  <2> HIDE DEF id
  <2>5. CASE m \in legacy
    <3>1. docs[m] = [conv |-> NoRoom, room |-> id, sender |-> NoUser, user |-> pair[1],
                     created |-> Absent, sent |-> at[m], type |-> <<TypeOf(m)>>,
                     deleted |-> FALSE]
      BY <2>3, <2>5 DEF OldDoc
    <3>2. docs[m] \in Doc
      BY <2>1, <2>2, <2>4, <3>1 DEF Doc, Absent
    <3> QED
      BY <2>4, <3>1, <3>2 DEF DocumentInv
  <2>6. CASE m \notin legacy
    <3>1. docs[m] = [conv |-> id, room |-> id, sender |-> pair[1], user |-> pair[1],
                     created |-> at[m], sent |-> at[m], type |-> <<TypeOf(m)>>,
                     deleted |-> FALSE]
      BY <2>3, <2>6 DEF OldDoc
    <3>2. docs[m] \in Doc
      BY <2>1, <2>2, <2>4, <3>1 DEF Doc
    <3> QED
      BY <2>4, <3>1, <3>2 DEF DocumentInv
  <2> QED
    BY <2>5, <2>6
<1>4. docs \in [Stored -> Doc]
  BY <1>1, <1>2, <1>3
<1>5. sent \in [Stored -> [by : {pair[1], pair[2]}, at : Nat \ {0}]]
  BY <1>1, <1>2, TimeAssumption
<1>6. pages = <<>> /\ pages \in Seq(SUBSET Messages) /\ Seen = {} /\ phase = "idle"
  BY DEF HistoryInit, Seen
<1>7. HistoryTypeOK
  BY <1>2, <1>4, <1>5, <1>6, HistoryAssumption, TimeAssumption
  DEF HistoryInit, HistoryTypeOK
<1>8. DocInv
  BY <1>2, <1>3 DEF DocInv
<1>9. ReaderInv /\ PagesComplete /\ PagesOnce
  BY <1>6 DEF HistoryInit, ReaderInv, PagesComplete, PagesOnce
<1> QED
  BY <1>7, <1>8, <1>9 DEF HistoryInv

\* The reader's facts stay while it does nothing and no time changes.
LEMMA ReaderKeeps ==
  ASSUME HistoryInv, UNCHANGED <<phase, before, pages, ends, started>>,
         Stored \subseteq Stored', \A m \in Stored : At(m)' = At(m),
         InOrder' => InOrder
  PROVE  ReaderInv' /\ PagesComplete' /\ PagesOnce'
<1> USE DEF HistoryInv
<1>1. Seen' = Seen /\ Seen \subseteq Stored /\ started \subseteq Stored
  BY DEF Seen, ReaderInv
<1>2. ReaderInv'
  BY <1>1 DEF ReaderInv
<1>3. PagesComplete'
  BY <1>1 DEF PagesComplete
<1>4. \A i \in DOMAIN pages : pages[i] \subseteq Stored
  BY <1>1 DEF Seen
<1>5. PagesOnce'
  BY <1>4 DEF PagesOnce
<1> QED
  BY <1>2, <1>3, <1>5

LEMMA SaveKeeps ==
  ASSUME HistoryInv, NEW m \in Messages, NEW id \in Spellings, NEW i \in {1, 2},
         NEW at \in 1 .. clock, SaveMessage(m, toServerMsg(m, id, pair[i], at))
  PROVE  HistoryInv'
<1> USE DEF HistoryInv
<1> DEFINE u == pair[i]
<1> DEFINE d == [conv |-> TheRoom, room |-> TheRoom, sender |-> u, user |-> u,
                 created |-> at, sent |-> at, type |-> TypeName(TypeOf(m)),
                 deleted |-> FALSE]
<1>1. normalizeRoomID(id) = TheRoom /\ TheRoom \in roomIDAliases(TheRoom)
  BY SpellingsAgree, RoomAliases DEF HistoryTypeOK
<1>2. /\ m \notin Stored
      /\ docs' = [k \in Stored \cup {m} |-> IF k \in Stored THEN docs[k] ELSE d]
      /\ sent' = [k \in Stored \cup {m} |-> IF k \in Stored THEN sent[k]
                                            ELSE [by |-> u, at |-> at]]
      /\ UNCHANGED <<pair, clock, limit, phase, before, pages, ends, started>>
  BY <1>1 DEF SaveMessage, toServerMsg, reader
<1>3. Stored' = Stored \cup {m}
  BY <1>2 DEF Stored
<1>4. Doc' = Doc /\ TheRoom' = TheRoom
  BY <1>2 DEF Doc, TheRoom
<1>5. u \in {pair[1], pair[2]} /\ at \in Nat \ {0}
      /\ TypeOf(m) \in MessageTypes
  BY DEF HistoryTypeOK, TypeOf, MessageTypes
<1>6. d \in Doc
  BY <1>1, <1>5 DEF Doc
<1>7. docs'[m] = d /\ sent'[m] = [by |-> u, at |-> at]
      /\ \A k \in Stored : docs'[k] = docs[k] /\ sent'[k] = sent[k]
  BY <1>2
<1> HIDE DEF d, u
<1>8. docs' \in [Stored' -> Doc]
  BY <1>2, <1>3, <1>6 DEF HistoryTypeOK
<1>9. sent' \in [Stored' -> [by : {pair[1], pair[2]}, at : Nat \ {0}]]
  BY <1>2, <1>3, <1>5 DEF HistoryTypeOK
<1>10. IsFiniteSet(Stored')
  BY <1>3, FS_AddElement DEF HistoryTypeOK
<1>11. HistoryTypeOK'
  BY <1>2, <1>3, <1>4, <1>8, <1>9, <1>10 DEF HistoryTypeOK
<1>12. DocumentInv(m)'
  <2>1. m \notin Old
    BY <1>2 DEF DocInv
  <2> QED
    BY <1>5, <1>7, <2>1 DEF DocumentInv, d
<1>13. DocInv'
  <2>1. \A k \in Stored : DocumentInv(k)'
    BY <1>7 DEF DocInv, DocumentInv
  <2> QED
    BY <1>3, <1>12, <2>1 DEF DocInv
<1>14. \A k \in Stored : At(k)' = At(k)
  BY <1>7 DEF At, docToServerMessage
<1>15. InOrder' => InOrder
  BY <1>3, <1>7 DEF InOrder
<1> QED
  BY <1>2, <1>3, <1>11, <1>13, <1>14, <1>15, ReaderKeeps

LEMMA DeleteKeeps ==
  ASSUME HistoryInv, NEW m \in Messages, SoftDelete(m)
  PROVE  HistoryInv'
<1> USE DEF HistoryInv
<1>1. /\ m \in Stored /\ docs' = [docs EXCEPT ![m].deleted = TRUE]
      /\ UNCHANGED <<pair, sent, clock, limit, phase, before, pages, ends, started>>
  BY DEF SoftDelete, reader
<1>2. docs \in [Stored -> Doc] /\ docs[m] \in Doc
  BY <1>1 DEF HistoryTypeOK
<1>3. Stored' = Stored
  BY <1>1 DEF Stored
<1>4. Doc' = Doc
  BY <1>1 DEF Doc, TheRoom
<1>5. [docs[m] EXCEPT !.deleted = TRUE] \in Doc
  BY <1>2 DEF Doc
<1>6. docs' \in [Stored -> Doc]
  BY <1>1, <1>2, <1>5
<1>7. ASSUME NEW k \in Stored
      PROVE  /\ docs'[k].sender = docs[k].sender /\ docs'[k].user = docs[k].user
             /\ docs'[k].created = docs[k].created /\ docs'[k].sent = docs[k].sent
             /\ docs'[k].type = docs[k].type
  <2>1. docs'[k] = IF k = m THEN [docs[m] EXCEPT !.deleted = TRUE] ELSE docs[k]
    BY <1>1, <1>2
  <2> QED
    BY <1>2, <2>1 DEF Doc
<1>8. HistoryTypeOK'
  BY <1>1, <1>3, <1>4, <1>6 DEF HistoryTypeOK
<1>9. DocInv'
  BY <1>1, <1>3, <1>7 DEF DocInv, DocumentInv
<1>10. \A k \in Stored : At(k)' = At(k)
  BY <1>7 DEF At, docToServerMessage
<1>11. InOrder' => InOrder
  BY <1>3, <1>7 DEF InOrder
<1> QED
  BY <1>1, <1>3, <1>8, <1>9, <1>10, <1>11, ReaderKeeps

\* Nothing that is stored changes.
LEMMA SameDocs ==
  ASSUME HistoryInv, UNCHANGED <<pair, docs, sent>>
  PROVE  /\ Doc' = Doc /\ Stored' = Stored /\ DocInv'
         /\ InOrder' <=> InOrder
         /\ \A k \in Stored : At(k)' = At(k)
<1>1. Doc' = Doc /\ Stored' = Stored
  BY DEF Doc, TheRoom, Stored
<1>2. DocInv'
  BY <1>1 DEF HistoryInv, DocInv, DocumentInv
<1>3. \A k \in Stored : At(k)' = At(k)
  BY DEF At, docToServerMessage
<1>4. InOrder' <=> InOrder
  BY DEF InOrder, Stored
<1> QED
  BY <1>1, <1>2, <1>3, <1>4

LEMMA TickKeeps ==
  ASSUME HistoryInv, Tick \/ UNCHANGED historyVars
  PROVE  HistoryInv'
<1>1. /\ clock' = clock + 1 \/ clock' = clock
      /\ UNCHANGED <<pair, docs, sent, limit, phase, before, pages, ends, started>>
  BY DEF Tick, reader, historyVars
<1>2. HistoryTypeOK'
  BY <1>1, SameDocs DEF HistoryInv, HistoryTypeOK
<1> QED
  BY <1>1, <1>2, SameDocs, ReaderKeeps DEF HistoryInv

LEMMA OpenKeeps ==
  ASSUME HistoryInv, NEW l \in Limits, Open(l)
  PROVE  HistoryInv'
<1> USE DEF HistoryInv
<1>1. /\ phase = "idle" /\ phase' = "reading" /\ limit' = l /\ started' = Stored
      /\ UNCHANGED <<pair, docs, sent, clock, before, pages, ends>>
  BY DEF Open
<1>2. pages = <<>> /\ Seen = {} /\ Seen' = {}
  BY <1>1 DEF ReaderInv, Seen
<1>3. HistoryTypeOK'
  BY <1>1, SameDocs, LimitAssumption DEF HistoryTypeOK
<1>4. before = 0
  BY <1>1 DEF ReaderInv
<1>5. ReaderInv'
  BY <1>1, <1>2, <1>4, SameDocs DEF ReaderInv
<1>6. PagesComplete' /\ PagesOnce'
  BY <1>1, <1>2 DEF PagesComplete, PagesOnce
<1> QED
  BY <1>1, <1>3, <1>5, <1>6, SameDocs

\* What a page is: nothing of ms that is left out is newer than what is in
\* it, and a page below the limit is all there is.
LEMMA PageFacts ==
  ASSUME HistoryTypeOK, DocInv, NEW ms \in SUBSET Stored, NEW n \in Nat,
         NEW all \in queryMessages(ms, n + 1), NEW page \in queryMessages(all, n)
  PROVE  /\ page \subseteq all /\ all \subseteq ms
         /\ InOrder => \A m \in page, k \in ms \ page : At(k) <= At(m)
         /\ page = all => all = ms
<1>1. page \subseteq all /\ all \subseteq ms
  BY DEF queryMessages
<1>2. ASSUME InOrder, NEW m \in page, NEW k \in ms \ page PROVE At(k) <= At(m)
  <2>1. ~Newer(k, m)
    BY <1>1, <1>2 DEF queryMessages
  <2>2. m \in Stored /\ k \in Stored
    BY <1>1, <1>2
  <2>3. ~(At(k) > At(m)) /\ At(k) \in Nat /\ At(m) \in Nat
    BY <1>2, <2>1, <2>2, TimeFacts
  <2> QED
    BY <2>3
<1>3. ASSUME page = all PROVE all = ms
  <2>1. IsFiniteSet(ms)
    BY FS_Subset DEF HistoryTypeOK
  <2>2. IsFiniteSet(all)
    BY <1>1, <2>1, FS_Subset
  <2>3. Cardinality(ms) \in Nat /\ Cardinality(all) \in Nat
    BY <2>1, <2>2, FS_CardinalityType
  <2>4. Cardinality(all) = IF Cardinality(ms) < n + 1 THEN Cardinality(ms) ELSE n + 1
    BY DEF queryMessages
  <2>5. Cardinality(page) = IF Cardinality(all) < n THEN Cardinality(all) ELSE n
    BY DEF queryMessages
  <2>6. Cardinality(all) = Cardinality(ms)
    BY <1>3, <2>3, <2>4, <2>5
  <2> QED
    BY <1>1, <2>1, <2>6, FS_Subset
<1> QED
  BY <1>1, <1>2, <1>3

\* A page that was cut, and the last page.
LEMMA ReadKeeps ==
  ASSUME HistoryInv, NEW id \in Spellings, GetMessages(id)
  PROVE  HistoryInv'
<1> USE DEF HistoryInv
<1> DEFINE ms == GetMessagesBefore(normalizeRoomID(id), before)
           n  == ClampLimit(limit)
<1>1. n \in Nat
  BY LimitAssumption DEF HistoryTypeOK, ClampLimit
<1>2. PICK all \in queryMessages(ms, n + 1) :
        \E page \in queryMessages(all, n) :
           /\ pages' = Append(pages, page)
           /\ IF page # all
                 THEN \E m \in page : /\ \A k \in page : At(m) <= At(k)
                                      /\ before' = At(m)
                                      /\ ends' = ends \cup {At(m)}
                                      /\ phase' = phase
                 ELSE phase' = "done" /\ before' = before /\ ends' = ends
  BY DEF GetMessages
<1>2a. PICK page \in queryMessages(all, n) :
          /\ pages' = Append(pages, page)
          /\ IF page # all
                THEN \E m \in page : /\ \A k \in page : At(m) <= At(k)
                                     /\ before' = At(m)
                                     /\ ends' = ends \cup {At(m)}
                                     /\ phase' = phase
                ELSE phase' = "done" /\ before' = before /\ ends' = ends
  BY <1>2
<1>3. phase = "reading" /\ UNCHANGED <<pair, docs, sent, clock, limit, started>>
  BY DEF GetMessages
<1>4. ms = {m \in Stored : before = 0 \/ At(m) < before}
  BY QueryFacts DEF HistoryTypeOK
<1>5. ms \in SUBSET Stored /\ before \in Nat
  BY <1>4 DEF HistoryTypeOK
<1> HIDE DEF ms, n
<1>6. /\ page \subseteq all /\ all \subseteq ms /\ page \subseteq Stored
      /\ InOrder => \A m \in page, k \in ms \ page : At(k) <= At(m)
      /\ page = all => all = ms
  BY <1>1, <1>5, PageFacts
<1>7. page \in SUBSET Messages /\ Stored \subseteq Messages
  BY <1>6 DEF HistoryTypeOK
<1>8. /\ pages' \in Seq(SUBSET Messages) /\ Len(pages') = Len(pages) + 1
      /\ Len(pages) \in Nat /\ DOMAIN pages = 1 .. Len(pages)
      /\ DOMAIN pages' = 1 .. Len(pages) + 1
      /\ \A j \in 1 .. Len(pages) : pages'[j] = pages[j]
      /\ pages'[Len(pages) + 1] = page /\ pages' # <<>>
  BY <1>2a, <1>7, AppendProperties, LenProperties DEF HistoryTypeOK
<1>9. Seen' = Seen \cup page
  <2>1. \A x : x \in Seen <=> \E j \in 1 .. Len(pages) : x \in pages[j]
    BY <1>8 DEF Seen
  <2>2. \A x : x \in Seen' <=> \E j \in 1 .. Len(pages) + 1 : x \in pages'[j]
    BY <1>8 DEF Seen
  <2>3. \A j \in 1 .. Len(pages) + 1 : j \in 1 .. Len(pages) \/ j = Len(pages) + 1
    BY <1>8
  <2>4. Len(pages) + 1 \in 1 .. Len(pages) + 1
        /\ \A j \in 1 .. Len(pages) : j \in 1 .. Len(pages) + 1
    BY <1>8
  <2> QED
    BY <1>8, <2>1, <2>2, <2>3, <2>4
<1>10. \A m \in Stored : At(m) \in Nat \ {0} /\ At(m)' = At(m)
  BY <1>3, TimeFacts, SameDocs
<1>11. Stored' = Stored /\ Doc' = Doc /\ DocInv' /\ (InOrder' <=> InOrder)
  BY <1>3, SameDocs
<1>12. Seen \subseteq Stored /\ started \subseteq Stored
  BY DEF ReaderInv
<1>13. \A m \in page, k \in Seen : At(m) < At(k)
  <2> TAKE m \in page, k \in Seen
  <2>1. pages # <<>>
    BY <1>8 DEF Seen
  <2>2. before > 0 /\ before <= At(k)
    BY <1>3, <2>1 DEF ReaderInv
  <2>3. At(m) < before
    BY <1>4, <1>6, <2>2
  <2> QED
    BY <1>5, <1>6, <1>10, <1>12, <2>2, <2>3
<1>14. PagesOnce'
  <2> SUFFICES ASSUME NEW i \in DOMAIN pages', NEW j \in DOMAIN pages', i < j,
                      NEW m \in pages'[i], NEW k \in pages'[j]
               PROVE  At(k)' < At(m)'
    BY DEF PagesOnce
  <2>1. i \in 1 .. Len(pages) /\ pages'[i] = pages[i]
    BY <1>8
  <2>2. m \in Seen
    BY <1>8, <2>1 DEF Seen
  <2>3. CASE j \in 1 .. Len(pages)
    <3>1. At(k) < At(m) /\ k \in Seen
      BY <1>8, <2>1, <2>3 DEF PagesOnce, Seen
    <3> QED
      BY <1>10, <1>12, <2>2, <3>1
  <2>4. CASE j = Len(pages) + 1
    <3>1. k \in page
      BY <1>8, <2>4
    <3> QED
      BY <1>6, <1>10, <1>12, <1>13, <2>2, <3>1
  <2> QED
    BY <1>8, <2>3, <2>4
<1>15. InOrder => \A m \in started : m \in Seen \/ At(m) \in ends \/ m \in ms
  BY <1>3, <1>4, <1>12 DEF ReaderInv
<1>16. CASE page = all
  <2>1. phase' = "done" /\ before' = before /\ ends' = ends /\ all = ms
    BY <1>2a, <1>6, <1>16
  <2>2. HistoryTypeOK'
    BY <1>3, <1>8, <1>11, <2>1 DEF HistoryTypeOK
  <2>3. PagesComplete'
    BY <1>3, <1>9, <1>10, <1>11, <1>12, <1>15, <1>16, <2>1 DEF PagesComplete
  <2>4. ReaderInv'
    BY <1>3, <1>6, <1>9, <1>11, <1>12, <2>1 DEF ReaderInv
  <2> QED
    BY <1>11, <1>14, <2>2, <2>3, <2>4
<1>17. CASE page # all
  <2>1. PICK m \in page : /\ \A k \in page : At(m) <= At(k)
                          /\ before' = At(m) /\ ends' = ends \cup {At(m)}
                          /\ phase' = "reading"
    BY <1>2a, <1>3, <1>17
  <2>2. m \in Stored /\ At(m) \in Nat \ {0}
    BY <1>6, <1>10
  <2>3. HistoryTypeOK'
    BY <1>3, <1>8, <1>11, <2>1, <2>2 DEF HistoryTypeOK
  <2>4. \A k \in page : At(m) <= At(k)
    BY <2>1
  <2>5. \A k \in Seen' : before' <= At(k)'
    <3> TAKE k \in Seen'
    <3>1. k \in Stored /\ At(k) \in Nat /\ At(k)' = At(k)
      BY <1>6, <1>9, <1>10, <1>12
    <3>2. CASE k \in page
      BY <2>1, <2>4, <3>1, <3>2
    <3>3. CASE k \in Seen
      BY <1>13, <2>1, <2>2, <3>1, <3>3
    <3> QED
      BY <1>9, <3>2, <3>3
  <2>6. ASSUME InOrder, NEW k \in started'
        PROVE  k \in Seen' \/ At(k)' \in ends' \/ At(k)' < before'
    <3>1. k \in started /\ k \in Stored /\ At(k) \in Nat /\ At(k)' = At(k)
      BY <1>3, <1>10, <1>12, <2>6
    <3>2. CASE k \in Seen \/ At(k) \in ends \/ k \in page
      BY <1>9, <2>1, <3>1, <3>2
    <3>3. CASE k \in ms \ page
      <4>1. At(k) <= At(m)
        BY <1>6, <2>6, <3>3
      <4> QED
        BY <2>1, <2>2, <3>1, <4>1
    <3> QED
      BY <1>15, <2>6, <3>1, <3>2, <3>3
  <2>7. ReaderInv'
    BY <1>3, <1>6, <1>9, <1>11, <1>12, <2>1, <2>2, <2>5, <2>6 DEF ReaderInv
  <2>8. PagesComplete'
    BY <2>1 DEF PagesComplete
  <2> QED
    BY <1>11, <1>14, <2>3, <2>7, <2>8
<1> QED
  BY <1>16, <1>17

\* The inductive invariant of a history and its reader (mongodb.go 485-524,
\* 715-772; grpc_server.go 303-353).
THEOREM HistoryInvariant == HistorySpec => []HistoryInv
<1>1. HistoryInit => HistoryInv
  BY HistoryStarts
<1>2. HistoryInv /\ [HistoryNext]_historyVars => HistoryInv'
  BY SaveKeeps, DeleteKeeps, TickKeeps, OpenKeeps, ReadKeeps DEF HistoryNext
<1> QED
  BY <1>1, <1>2, PTL DEF HistorySpec

\* A client that has read to the end has every message stored when it began,
\* but those with the millisecond at which a page was cut, unless documents of
\* older versions are newer than others (mongodb.go 736-755, 946-992;
\* grpc_server.go 849-886).
THEOREM HistoryComplete == HistorySpec => []PagesComplete
<1>1. HistoryInv => PagesComplete
  BY DEF HistoryInv
<1> QED
  BY <1>1, HistoryInvariant, PTL

\* No message comes twice, and pages come newest first, also when messages
\* arrive in between (grpc_server.go 315-335).
THEOREM HistoryOnce == HistorySpec => []PagesOnce
<1>1. HistoryInv => PagesOnce
  BY DEF HistoryInv
<1> QED
  BY <1>1, HistoryInvariant, PTL

\* Every page that is not the last moves the client's cursor to an older time
\* (grpc_server.go 315-335): no request is ever repeated, so the reading ends
\* when the times of the history do.
THEOREM CursorAlwaysFalls == HistorySpec => CursorFalls
<1>1. HistoryInv /\ [HistoryNext]_historyVars => [OlderCursor]_historyVars
  <2> SUFFICES ASSUME HistoryInv, HistoryNext, phase' = "reading", pages' # pages
               PROVE  before = 0 \/ before' < before
    BY DEF OlderCursor
  <2>1. PICK id \in Spellings : GetMessages(id)
    <3>1. \A m, msg : SaveMessage(m, msg) => pages' = pages
      BY DEF SaveMessage, reader
    <3>2. \A m : SoftDelete(m) => pages' = pages
      BY DEF SoftDelete, reader
    <3>3. (Tick => pages' = pages) /\ (\A l : Open(l) => pages' = pages)
      BY DEF Tick, Open, reader
    <3> QED
      BY <3>1, <3>2, <3>3 DEF HistoryNext
  <2> DEFINE ms == GetMessagesBefore(normalizeRoomID(id), before)
  <2>2. \E m \in ms : before' = At(m)
    BY <2>1 DEF GetMessages, queryMessages
  <2>3. ms = {m \in Stored : before = 0 \/ At(m) < before}
    BY QueryFacts DEF HistoryInv, HistoryTypeOK
  <2> HIDE DEF ms
  <2> QED
    BY <2>2, <2>3
<1> QED
  BY <1>1, HistoryInvariant, PTL DEF HistorySpec, CursorFalls

\* The prefix before the stored word gives the type's name.
LEMMA PrefixedNames ==
  ASSUME NEW t \in MessageTypes
  PROVE  <<"MESSAGE_TYPE">> \o <<t>> = TypeName(t)
<1> DEFINE S == {"MESSAGE_TYPE", "TEXT", "IMAGE"}
           p == <<"MESSAGE_TYPE">>
           w == <<t>>
<1>1. /\ p \in Seq(S) /\ Len(p) = 1 /\ p[1] = "MESSAGE_TYPE"
      /\ w \in Seq(S) /\ Len(w) = 1 /\ w[1] = t
  BY DEF MessageTypes
<1>2. \A n \in MessageTypes : /\ TypeName(n) \in Seq(S) /\ Len(TypeName(n)) = 2
                              /\ TypeName(n)[1] = "MESSAGE_TYPE" /\ TypeName(n)[2] = n
  BY DEF MessageTypes, TypeName
<1> HIDE DEF S, p, w
<1>3. p \o w = TypeName(t)
  <2>1. /\ p \o w \in Seq(S) /\ Len(p \o w) = 2
        /\ \A i \in 1 .. 2 : (p \o w)[i] = IF i <= 1 THEN p[i] ELSE w[i - 1]
    BY <1>1, ConcatProperties
  <2>2. (p \o w)[1] = "MESSAGE_TYPE" /\ (p \o w)[2] = t
    BY <1>1, <2>1
  <2>3. TypeName(t) \in Seq(S) /\ Len(TypeName(t)) = 2
        /\ \A i \in 1 .. 2 : (p \o w)[i] = TypeName(t)[i]
    <3>1. TypeName(t) \in Seq(S) /\ Len(TypeName(t)) = 2
          /\ TypeName(t)[1] = "MESSAGE_TYPE" /\ TypeName(t)[2] = t
      BY <1>2
    <3>2. \A i \in 1 .. 2 : i = 1 \/ i = 2
      OBVIOUS
    <3> QED
      BY <2>2, <3>1, <3>2
  <2> QED
    BY <2>1, <2>3, SeqEqual
<1> QED
  BY <1>3 DEF p, w

\* A message is read with the author and the time it was sent with, and one of
\* an older version with its type (mongodb.go 881-926).
THEOREM HistoryAsSent == HistorySpec => []ReadAsSent
<1>1. HistoryInv => ReadAsSent
  <2> SUFFICES ASSUME HistoryInv, NEW m \in Seen
               PROVE  LET r == docToServerMessage(docs[m])
                      IN  /\ r.user = sent[m].by
                          /\ r.at = sent[m].at
                          /\ m \in Old => r.type = TypeOf(m)
    BY DEF ReadAsSent
  <2> DEFINE r == docToServerMessage(docs[m])
  <2>1. m \in Stored /\ DocumentInv(m) /\ docs[m] \in Doc
    BY DEF HistoryInv, ReaderInv, DocInv, HistoryTypeOK
  <2>2. sent[m] = [by |-> docs[m].user, at |-> docs[m].sent]
        /\ docs[m].sender \in {docs[m].user, NoUser}
    BY <2>1 DEF DocumentInv
  <2>3. r.user = docs[m].user
    BY <2>2 DEF docToServerMessage
  <2>4. r.at = docs[m].sent
    BY <2>1, TimeFacts DEF HistoryInv, At
  <2>5. TypeOf(m) \in MessageTypes
    BY DEF TypeOf, MessageTypes
  <2> DEFINE name == <<"MESSAGE_TYPE">> \o docs[m].type
  <2>6. r.type = IF \E t \in MessageTypes : name = TypeName(t) THEN name[2] ELSE "TEXT"
    BY DEF docToServerMessage
  <2> HIDE DEF name
  <2>7. ASSUME m \in Old PROVE r.type = TypeOf(m)
    <3>1. docs[m].type = <<TypeOf(m)>>
      BY <2>1, <2>7 DEF DocumentInv
    <3>2. name = TypeName(TypeOf(m))
      BY <2>5, <3>1, PrefixedNames DEF name
    <3>3. TypeName(TypeOf(m))[2] = TypeOf(m)
      BY DEF TypeName
    <3> QED
      BY <2>5, <2>6, <3>2, <3>3
  <2> QED
    BY <2>2, <2>3, <2>4, <2>7
<1> QED
  BY <1>1, HistoryInvariant, PTL

\* What a search under one spelling of the room's id finds, the history has
\* under every spelling (mongodb.go 599-611, 715-750, 946-992).
THEOREM SearchAlwaysInHistory == HistorySpec => []SearchInHistory
<1>1. HistoryInv => SearchInHistory
  BY QueryFacts DEF HistoryInv, SearchInHistory, SearchMessages
<1> QED
  BY <1>1, HistoryInvariant, PTL

=============================================================================
