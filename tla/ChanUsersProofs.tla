-------------------------- MODULE ChanUsersProofs --------------------------
(***************************************************************************)
(* Proofs about ChanUsers for every set of addresses and names: its        *)
(* invariants, and that it implements Membership.                          *)
(***************************************************************************)
EXTENDS ChanUsers, FiniteSetTheorems, TLAPS

(* The one-sided updates keep the types. *)
LEMMA AddTypes ==
  ASSUME TypeOK, NEW u \in User, NEW c \in Chan, ChannelAddUser(u, c)
  PROVE  users' \in [Chan -> SUBSET User] /\ usercount' \in [Chan -> Int]
<1>1. users' \in [Chan -> SUBSET User]
      BY DEF TypeOK, ChannelAddUser
<1>2. usercount' \in [Chan -> Int]
      BY DEF TypeOK, ChannelAddUser
<1>. QED  BY <1>1, <1>2

LEMMA UserAddTypes ==
  ASSUME TypeOK, NEW u \in User, NEW c \in Chan, UserAddChannel(u, c)
  PROVE  channels' \in [User -> SUBSET Chan] /\ channelcount' \in [User -> Int]
<1>1. channels' \in [User -> SUBSET Chan]
      BY DEF TypeOK, UserAddChannel
<1>2. channelcount' \in [User -> Int]
      BY DEF TypeOK, UserAddChannel
<1>. QED  BY <1>1, <1>2

LEMMA LeaveTypes ==
  ASSUME TypeOK, NEW u \in User, NEW c \in Chan, Leave(u, c)
  PROVE  /\ users' \in [Chan -> SUBSET User] /\ usercount' \in [Chan -> Int]
         /\ ops' \in [Chan -> SUBSET User] /\ voices' \in [Chan -> SUBSET User]
         /\ channels' \in [User -> SUBSET Chan] /\ channelcount' \in [User -> Int]
<1>. USE DEF TypeOK, Leave, ChannelsDelUser, UserDelChannel
<1>1. users' \in [Chan -> SUBSET User] /\ usercount' \in [Chan -> Int]
      OBVIOUS
<1>2. ops' \in [Chan -> SUBSET User] /\ voices' \in [Chan -> SUBSET User]
      OBVIOUS
<1>3. channels' \in [User -> SUBSET Chan] /\ channelcount' \in [User -> Int]
      OBVIOUS
<1>. QED  BY <1>1, <1>2, <1>3

LEMMA FillTypes ==
  ASSUME TypeOK, NEW c \in Chan, NEW n, NEW u \in User, FillChannel(c, n, u)
  PROVE  /\ users' \in [Chan -> SUBSET User] /\ usercount' \in [Chan -> Int]
         /\ ops' \in [Chan -> SUBSET User] /\ voices' \in [Chan -> SUBSET User]
BY DEF TypeOK, FillChannel

(* Types are preserved by each step. *)
LEMMA TypeStep == TypeOK /\ HandlerPointersLive /\ [Next]_vars => TypeOK'
<1> SUFFICES ASSUME TypeOK, HandlerPointersLive, [Next]_vars PROVE TypeOK'
    OBVIOUS
<1> USE NoneIsNothing, FoldIdempotent DEF TypeOK
<1>1. CASE End
      BY <1>1 DEF End, Idle, Handler, heapVars, indexVars, chanVars, userVars
<1>2. ASSUME NEW u \in User, AddUser(u) PROVE TypeOK'
      BY <1>2 DEF AddUser, indexVars, chanVars
<1>3. ASSUME NEW u \in User, DelUser(u) PROVE TypeOK'
      BY <1>3 DEF DelUser, indexVars, chanVars, userVars
<1>4. ASSUME NEW u \in User, Join0(u) PROVE TypeOK'
      BY <1>4 DEF Join0, ChannelsDelUser, heapVars, indexVars, Proc
<1>5. ASSUME NEW u \in User, PartBegin(u) PROVE TypeOK'
      BY <1>5 DEF PartBegin, Idle, Handler, heapVars, indexVars, chanVars, userVars
<1>6. ASSUME NEW u \in User, CreateBegin(u) PROVE TypeOK'
      BY <1>6 DEF CreateBegin, Idle, Handler, heapVars, indexVars, chanVars, userVars
<1>7. ASSUME NEW u \in User, PrefixAssert(u) PROVE TypeOK'
      BY <1>7 DEF PrefixAssert, Proc, heapVars, indexVars, chanVars, userVars
<1>8. ASSUME NEW u \in User, NEW ms \in SUBSET Status, BurstEntry(u, ms) PROVE TypeOK'
      <2>1. /\ handler.chan \in Chan
            /\ ChannelAddUser(u, handler.chan) /\ UserAddChannel(u, handler.chan)
        BY <1>8 DEF BurstEntry, Free, HandlerPointersLive, Allocated
      <2>2. ops' \in [Chan -> SUBSET User] /\ voices' \in [Chan -> SUBSET User]
        BY <1>8 DEF BurstEntry
      <2>3. handler' \in Handler
        BY <1>8 DEF BurstEntry, Handler
      <2>. QED  BY <1>8, <2>1, <2>2, <2>3, AddTypes, UserAddTypes
                DEF BurstEntry, heapVars, indexVars
<1>9. ASSUME NEW u \in User, NEW m \in Status, PlsPrefix(u, m) PROVE TypeOK'
      BY <1>9 DEF PlsPrefix, heapVars, indexVars, userVars
<1>10. ASSUME NEW u \in User, NEW m \in Status, MnsPrefix(u, m) PROVE TypeOK'
      BY <1>10 DEF MnsPrefix, heapVars, indexVars, userVars
<1>11. ASSUME NEW u \in User, NEW n \in Name, Join(u, n) PROVE TypeOK'
      <2>1. byName[Fold[n]] \in Chan
        BY <1>11 DEF Join, Known
      <2>. QED  BY <1>11, <2>1, AddTypes, UserAddTypes DEF Join, heapVars, indexVars
<1>12. ASSUME NEW u \in User, NEW n \in Name, Kick(u, n) PROVE TypeOK'
      <2>1. byName[Fold[n]] \in Chan
        BY <1>12 DEF Kick, Known
      <2>. QED  BY <1>12, <2>1, LeaveTypes DEF Kick, heapVars, indexVars
<1>13. ASSUME NEW n \in Name, PartEntry(n) PROVE TypeOK'
      <2>1. handler.user \in User /\ byName[Fold[n]] \in Chan
        BY <1>13 DEF PartEntry, Free, Known, HandlerPointersLive
      <2>. QED  BY <1>13, <2>1, LeaveTypes DEF PartEntry, heapVars, indexVars
<1>14. ASSUME NEW n \in Name, CreateOverDangling(n) PROVE TypeOK'
      BY <1>14 DEF CreateOverDangling, Proc, heapVars, indexVars, chanVars, userVars
<1>15. ASSUME NEW n \in Name, BurstBegin(n) PROVE TypeOK'
      BY <1>15 DEF BurstBegin, Idle, Handler, heapVars, indexVars, chanVars, userVars
<1>16. ASSUME NEW n \in Name, ModeBegin(n) PROVE TypeOK'
      BY <1>16 DEF ModeBegin, Idle, Handler, heapVars, indexVars, chanVars, userVars
<1>17. ASSUME NEW n \in Name, NEW ms \in SUBSET Status, ClearMode(n, ms) PROVE TypeOK'
      BY <1>17 DEF ClearMode, heapVars, indexVars, userVars
<1>18. ASSUME NEW n \in Name, NEW c \in Chan, CreateNew(c, n) PROVE TypeOK'
      <2>1. handler.user \in User
        BY <1>18 DEF CreateNew, Free, HandlerPointersLive
      <2>. QED  BY <1>18, <2>1, FillTypes, UserAddTypes DEF CreateNew, heapVars
<1>19. ASSUME NEW n \in Name, NEW c \in Chan, CreateOver(c, n) PROVE TypeOK'
      <2>1. handler.user \in User
        BY <1>19 DEF CreateOver, Free, HandlerPointersLive
      <2>2. name' \in [Chan -> Name \cup {None}] /\ byName' \in [Name -> Chan \cup {None}]
        BY <1>19 DEF CreateOver
      <2>3. channels' \in [User -> SUBSET Chan] /\ channelcount' \in [User -> Int]
        BY <1>19, <2>1 DEF CreateOver
      <2>. QED  BY <1>19, <2>1, <2>2, <2>3, FillTypes DEF CreateOver, heapVars
<1>20. ASSUME NEW n \in Name, NEW c \in Chan, BurstBeginNew(c, n) PROVE TypeOK'
      <2>1. name' \in [Chan -> Name \cup {None}] /\ byName' \in [Name -> Chan \cup {None}]
        BY <1>20 DEF BurstBeginNew
      <2>2. users' \in [Chan -> SUBSET User] /\ usercount' \in [Chan -> Int]
        BY <1>20 DEF BurstBeginNew
      <2>3. ops' \in [Chan -> SUBSET User] /\ voices' \in [Chan -> SUBSET User]
        BY <1>20 DEF BurstBeginNew
      <2>4. handler' \in Handler
        BY <1>20 DEF BurstBeginNew, Idle, Handler
      <2>. QED  BY <1>20, <2>1, <2>2, <2>3, <2>4 DEF BurstBeginNew, heapVars, userVars
<1>21. CASE UNCHANGED vars
      BY <1>21 DEF vars, heapVars, indexVars, chanVars, userVars
<1>. QED
  BY <1>1, <1>2, <1>3, <1>4, <1>5, <1>6, <1>7, <1>8, <1>9, <1>10, <1>11, <1>12,
     <1>13, <1>14, <1>15, <1>16, <1>17, <1>18, <1>19, <1>20, <1>21 DEF Next

-----------------------------------------------------------------------------
(* Which steps touch what. *)
LEMMA IndexFrame ==
  ASSUME [Next]_vars
  PROVE  \/ UNCHANGED indexVars
         \/ \E n \in Name, c \in Chan : CreateNew(c, n) \/ CreateOver(c, n)
                                        \/ BurstBeginNew(c, n)
BY DEF Next, vars, indexVars, End, AddUser, DelUser, Join0, PartBegin,
       CreateBegin, PrefixAssert, BurstEntry, PlsPrefix, MnsPrefix, Join, Kick,
       PartEntry, CreateOverDangling, BurstBegin, ModeBegin, ClearMode

LEMMA MembersFrame ==
  ASSUME [Next]_vars
  PROVE  \/ /\ UNCHANGED <<name, users, usercount, channels, channelcount>>
            /\ live' \subseteq live /\ live \ live' \subseteq freed'
            /\ freed \subseteq freed'
            /\ proc = "assert_join0" => proc' = "assert_join0"
         \/ \E u \in User : AddUser(u) \/ Join0(u)
         \/ \E u \in User, n \in Name : Join(u, n) \/ Kick(u, n)
         \/ \E u \in User, ms \in SUBSET Status : BurstEntry(u, ms)
         \/ \E n \in Name : PartEntry(n)
         \/ \E n \in Name, c \in Chan : CreateNew(c, n) \/ CreateOver(c, n)
                                        \/ BurstBeginNew(c, n)
BY DEF Next, vars, chanVars, userVars, End, DelUser, PartBegin,
       CreateBegin, PrefixAssert, PlsPrefix, MnsPrefix,
       CreateOverDangling, BurstBegin, ModeBegin, ClearMode, Free,
       heapVars, indexVars

(* The index stays exact. *)
LEMMA IndexStep ==
  TypeOK /\ IndexExact /\ [Next]_vars => IndexExact'
<1> SUFFICES ASSUME TypeOK, IndexExact, [Next]_vars PROVE IndexExact'
    OBVIOUS
<1> USE NoneIsNothing, FoldIdempotent
<1>1. CASE UNCHANGED indexVars
      BY <1>1 DEF indexVars, IndexExact, Allocated
<1>2. ASSUME NEW n \in Name, NEW c \in Chan, CreateNew(c, n) PROVE IndexExact'
      BY <1>2 DEF CreateNew, Known, Allocated, IndexExact, TypeOK
<1>3. ASSUME NEW n \in Name, NEW c \in Chan, BurstBeginNew(c, n) PROVE IndexExact'
      BY <1>3 DEF BurstBeginNew, Known, Allocated, IndexExact, TypeOK
<1>4. ASSUME NEW n \in Name, NEW c \in Chan, CreateOver(c, n) PROVE IndexExact'
      <2> DEFINE key == Fold[n]
                 old == byName[key]
      <2>1. /\ key \in Name /\ old \in Allocated /\ old \in Chan
            /\ name[old] \in Name /\ Fold[name[old]] = key
            BY <1>4 DEF CreateOver, Known, Allocated, IndexExact, TypeOK
      <2>2. /\ c = old \/ c \notin Allocated
            /\ name' = [name EXCEPT ![old] = None, ![c] = n]
            /\ byName' = [byName EXCEPT ![name[old]] = None, ![key] = c]
            BY <1>4 DEF CreateOver
      <2>3. /\ name'[c] = n /\ byName'[key] = c
            /\ \A d \in Chan \ {old, c} : name'[d] = name[d]
            /\ c # old => name'[old] = None
            /\ \A k \in Name \ {key} : byName'[k] \in {None, byName[k]}
            /\ \A k \in Name \ {key, name[old]} : byName'[k] = byName[k]
            BY <2>1, <2>2 DEF TypeOK
      <2>4. ASSUME NEW k \in Name, byName'[k] # None
            PROVE  byName'[k] \in Allocated' /\ Fold[name'[byName'[k]]] = k
        <3>1. CASE k = key
              BY <3>1, <2>3 DEF Allocated
        <3>2. CASE k # key
          <4>1. /\ byName'[k] = byName[k] /\ byName[k] \in Allocated
                /\ Fold[name[byName[k]]] = k
                BY <2>3, <2>4, <3>2 DEF IndexExact
          <4>2. byName[k] \in Chan \ {old, c}
                BY <4>1, <3>2, <2>1, <2>2 DEF Allocated
          <4>. QED  BY <4>1, <4>2, <2>3 DEF Allocated
        <3>. QED  BY <3>1, <3>2
      <2>5. ASSUME NEW d \in Allocated' PROVE byName'[Fold[name'[d]]] = d
        <3>1. CASE d = c
              BY <3>1, <2>3
        <3>2. CASE d # c
          <4>1. d \in Chan \ {old, c} /\ name'[d] = name[d] /\ d \in Allocated
                BY <3>2, <2>3, <2>5 DEF Allocated
          <4> DEFINE k == Fold[name[d]]
          <4>2. k \in Name /\ byName[k] = d /\ k # key
                BY <4>1, <2>1 DEF Allocated, IndexExact, TypeOK
          <4>3. k # name[old]      \* a key is folded, and name[old] would be its own
                BY <4>1, <4>2, <2>1 DEF Allocated, TypeOK
          <4>. QED  BY <4>1, <4>2, <4>3, <2>3
        <3>. QED  BY <3>1, <3>2
      <2>. QED  BY <2>4, <2>5 DEF IndexExact
<1>. QED  BY <1>1, <1>2, <1>3, <1>4, IndexFrame

(* A list handler's pointers stay allocated: while it runs nobody frees    *)
(* the user it serves, and only CREATE frees channels.                     *)
LEMMA HandlerStep ==
  TypeOK /\ HandlerPointersLive /\ IndexExact /\ [Next]_vars => HandlerPointersLive'
<1> SUFFICES ASSUME TypeOK, HandlerPointersLive, IndexExact, [Next]_vars
             PROVE  HandlerPointersLive'
    OBVIOUS
<1> USE NoneIsNothing DEF HandlerPointersLive, Allocated, Idle, Free,
        heapVars, indexVars, chanVars, userVars
<1>1. CASE End
      BY <1>1 DEF End
<1>2. ASSUME NEW u \in User, AddUser(u) \/ DelUser(u) PROVE HandlerPointersLive'
      BY <1>2 DEF AddUser, DelUser
<1>3. ASSUME NEW u \in User, NEW n \in Name, Join(u, n) \/ Kick(u, n)
      PROVE  HandlerPointersLive'
      BY <1>3 DEF Join, Kick
<1>12. ASSUME NEW u \in User, Join0(u) PROVE HandlerPointersLive'
      BY <1>12 DEF Join0
<1>14. ASSUME NEW u \in User, PrefixAssert(u) PROVE HandlerPointersLive'
      BY <1>14 DEF PrefixAssert
<1>4. ASSUME NEW u \in User, PartBegin(u) \/ CreateBegin(u) PROVE HandlerPointersLive'
      BY <1>4 DEF PartBegin, CreateBegin
<1>5. ASSUME NEW u \in User, NEW ms \in SUBSET Status, BurstEntry(u, ms)
      PROVE  HandlerPointersLive'
      BY <1>5 DEF BurstEntry, TypeOK, Handler
<1>6. ASSUME NEW u \in User, NEW m \in Status, PlsPrefix(u, m) \/ MnsPrefix(u, m)
      PROVE  HandlerPointersLive'
      BY <1>6 DEF PlsPrefix, MnsPrefix
<1>7. ASSUME NEW n \in Name, BurstBegin(n) \/ ModeBegin(n) PROVE HandlerPointersLive'
      <2>1. Fold[n] \in Name /\ byName[Fold[n]] # None
        BY <1>7, FoldIdempotent DEF BurstBegin, ModeBegin, Known
      <2>2. byName[Fold[n]] \in Chan /\ name[byName[Fold[n]]] # None
        BY <2>1 DEF IndexExact, TypeOK
      <2>3. /\ handler'.kind \in {"BURST", "MODE"} /\ handler'.chan = byName[Fold[n]]
            /\ name' = name
        BY <1>7 DEF BurstBegin, ModeBegin
      <2>. QED  BY <2>2, <2>3
<1>8. ASSUME NEW n \in Name, PartEntry(n) \/ CreateOverDangling(n)
      PROVE  HandlerPointersLive'
      BY <1>8 DEF PartEntry, CreateOverDangling
<1>13. ASSUME NEW n \in Name, NEW ms \in SUBSET Status, ClearMode(n, ms)
       PROVE  HandlerPointersLive'
      BY <1>13 DEF ClearMode
<1>9. ASSUME NEW n \in Name, NEW c \in Chan, CreateNew(c, n) \/ CreateOver(c, n)
      PROVE  HandlerPointersLive'
      BY <1>9 DEF CreateNew, CreateOver
<1>10. ASSUME NEW n \in Name, NEW c \in Chan, BurstBeginNew(c, n)
       PROVE  HandlerPointersLive'
      BY <1>10 DEF BurstBeginNew, TypeOK
<1>11. CASE UNCHANGED vars
      BY <1>11 DEF vars
<1>. QED
  BY <1>1, <1>2, <1>3, <1>4, <1>5, <1>6, <1>7, <1>8, <1>9, <1>10, <1>11,
     <1>12, <1>13, <1>14 DEF Next

(* A name that is known leads to a channel that is allocated. *)
LEMMA KnownAllocated ==
  ASSUME TypeOK, IndexExact, NEW n \in Name, Known(n)
  PROVE  byName[Fold[n]] \in Chan /\ byName[Fold[n]] \in Allocated
BY FoldIdempotent DEF TypeOK, IndexExact, Known, Allocated

(* The user's side stays sound: where a channel is taken from the users it *)
(* is taken from all that list it, since all that list it are listed.      *)
LEMMA UserSideStep ==
  TypeOK /\ HandlerPointersLive /\ IndexExact /\ UserSideSound /\ [Next]_vars
    => UserSideSound'
<1> SUFFICES ASSUME TypeOK, HandlerPointersLive, IndexExact, UserSideSound,
                    [Next]_vars
             PROVE  UserSideSound'
    OBVIOUS
<1> USE DEF UserSideSound, Allocated, heapVars, indexVars, TypeOK
<1>1. ASSUME UNCHANGED <<name, users, channels>>, live' \subseteq live
      PROVE  UserSideSound'
      BY <1>1
<1>2. ASSUME NEW u \in User, AddUser(u) PROVE UserSideSound'
      BY <1>2 DEF AddUser, chanVars
<1>3. ASSUME NEW u \in User, Join0(u) PROVE UserSideSound'
      BY <1>3 DEF Join0, ChannelsDelUser
<1>4. ASSUME NEW u \in User, NEW n \in Name, Join(u, n) PROVE UserSideSound'
      BY <1>4, KnownAllocated DEF Join, ChannelAddUser, UserAddChannel
<1>5. ASSUME NEW u \in User, NEW n \in Name, Kick(u, n) PROVE UserSideSound'
      BY <1>5, KnownAllocated DEF Kick, Leave, ChannelsDelUser, UserDelChannel
<1>6. ASSUME NEW u \in User, NEW ms \in SUBSET Status, BurstEntry(u, ms)
      PROVE  UserSideSound'
      BY <1>6 DEF BurstEntry, ChannelAddUser, UserAddChannel, Free, HandlerPointersLive
<1>7. ASSUME NEW n \in Name, PartEntry(n) PROVE UserSideSound'
      BY <1>7, KnownAllocated DEF PartEntry, Leave, ChannelsDelUser, UserDelChannel,
         Free, HandlerPointersLive
<1>8. ASSUME NEW n \in Name, NEW c \in Chan, CreateNew(c, n) PROVE UserSideSound'
      BY <1>8, NoneIsNothing DEF CreateNew, FillChannel, UserAddChannel, Free,
         HandlerPointersLive
<1>9. ASSUME NEW n \in Name, NEW c \in Chan, CreateOver(c, n) PROVE UserSideSound'
      BY <1>9, NoneIsNothing, KnownAllocated DEF CreateOver, FillChannel, Free,
         HandlerPointersLive
<1>10. ASSUME NEW n \in Name, NEW c \in Chan, BurstBeginNew(c, n) PROVE UserSideSound'
      BY <1>10, NoneIsNothing DEF BurstBeginNew, userVars
<1>. QED
  BY <1>1, <1>2, <1>3, <1>4, <1>5, <1>6, <1>7, <1>8, <1>9, <1>10, MembersFrame

(* Whoever chanusers_ison says is on a channel is in the channel's users:  *)
(* if it looked at the user's side, that side is sound.                    *)
LEMMA IsOnMember ==
  ASSUME UserSideSound, NEW u \in live, NEW c, IsOn(u, c)
  PROVE  u \in users[c]
<1>1. CASE c \in channels[u]
      BY <1>1 DEF UserSideSound
<1>2. CASE c \notin channels[u]
      BY <1>2 DEF IsOn
<1>. QED  BY <1>1, <1>2

(* Status stays with members. *)
LEMMA StatusStep ==
  ASSUME TypeOK, HandlerPointersLive, IndexExact, UserSideSound,
         StatusNeedsMembership, [Next]_vars
  PROVE  StatusNeedsMembership'
<1> USE DEF StatusNeedsMembership, Allocated, TypeOK
<1>1. ASSUME UNCHANGED <<name, users, ops, voices>> PROVE StatusNeedsMembership'
      BY <1>1
<1>2. ASSUME NEW u \in User, Join0(u) PROVE StatusNeedsMembership'
      BY <1>2 DEF Join0, ChannelsDelUser, indexVars
<1>3. ASSUME NEW u \in User, NEW n \in Name, Join(u, n) PROVE StatusNeedsMembership'
      BY <1>3 DEF Join, ChannelAddUser, indexVars
<1>4. ASSUME NEW u \in User, NEW n \in Name, Kick(u, n) PROVE StatusNeedsMembership'
      BY <1>4 DEF Kick, Leave, ChannelsDelUser, indexVars
<1>5. ASSUME NEW u \in User, NEW ms \in SUBSET Status, BurstEntry(u, ms)
      PROVE  StatusNeedsMembership'
      BY <1>5 DEF BurstEntry, ChannelAddUser, indexVars
<1>6. ASSUME NEW n \in Name, PartEntry(n) PROVE StatusNeedsMembership'
      BY <1>6 DEF PartEntry, Leave, ChannelsDelUser, indexVars
<1>7. ASSUME NEW n \in Name, NEW ms \in SUBSET Status, ClearMode(n, ms)
      PROVE  StatusNeedsMembership'
      BY <1>7 DEF ClearMode, indexVars
<1>8. ASSUME NEW u \in User, NEW m \in Status, PlsPrefix(u, m)
      PROVE  StatusNeedsMembership'
      <2>1. u \in users[handler.chan]
        BY <1>8, IsOnMember DEF PlsPrefix
      <2>. QED  BY <1>8, <2>1 DEF PlsPrefix, indexVars
<1>9. ASSUME NEW u \in User, NEW m \in Status, MnsPrefix(u, m)
      PROVE  StatusNeedsMembership'
      BY <1>9 DEF MnsPrefix, indexVars
<1>10. ASSUME NEW n \in Name, NEW c \in Chan, CreateNew(c, n)
       PROVE  StatusNeedsMembership'
      BY <1>10 DEF CreateNew, FillChannel
<1>11. ASSUME NEW n \in Name, NEW c \in Chan, CreateOver(c, n)
       PROVE  StatusNeedsMembership'
      BY <1>11 DEF CreateOver, FillChannel
<1>12. ASSUME NEW n \in Name, NEW c \in Chan, BurstBeginNew(c, n)
       PROVE  StatusNeedsMembership'
      BY <1>12 DEF BurstBeginNew
<1>13. \/ UNCHANGED <<name, users, ops, voices>>
       \/ \E u \in User : Join0(u)
       \/ \E u \in User, n \in Name : Join(u, n) \/ Kick(u, n)
       \/ \E u \in User, ms \in SUBSET Status : BurstEntry(u, ms)
       \/ \E n \in Name : PartEntry(n)
       \/ \E n \in Name, ms \in SUBSET Status : ClearMode(n, ms)
       \/ \E u \in User, m \in Status : PlsPrefix(u, m) \/ MnsPrefix(u, m)
       \/ \E n \in Name, c \in Chan : CreateNew(c, n) \/ CreateOver(c, n)
                                      \/ BurstBeginNew(c, n)
      BY DEF Next, vars, indexVars, chanVars, End, AddUser, DelUser, PartBegin,
             CreateBegin, PrefixAssert, CreateOverDangling, BurstBegin, ModeBegin
<1>. QED
  BY <1>1, <1>2, <1>3, <1>4, <1>5, <1>6, <1>7, <1>8, <1>9, <1>10, <1>11, <1>12, <1>13

(* The counts stay the sizes of the sets.  Only JOIN 0 breaks this, and    *)
(* its assertion then stops the process.                                   *)
LEMMA SetsFinite ==
  ASSUME TypeOK
  PROVE  /\ \A c \in Chan : IsFiniteSet(users[c]) /\ Cardinality(users[c]) \in Nat
         /\ \A u \in User : IsFiniteSet(channels[u]) /\ Cardinality(channels[u]) \in Nat
<1>1. ASSUME NEW c \in Chan PROVE IsFiniteSet(users[c]) /\ Cardinality(users[c]) \in Nat
      BY HeapFinite, FS_Subset, FS_CardinalityType DEF TypeOK
<1>2. ASSUME NEW u \in User PROVE IsFiniteSet(channels[u]) /\ Cardinality(channels[u]) \in Nat
      BY HeapFinite, FS_Subset, FS_CardinalityType DEF TypeOK
<1>. QED  BY <1>1, <1>2

LEMMA AddCounts ==
  ASSUME TypeOK, NEW u \in live, NEW c \in Chan, c \in Allocated,
         proc # "assert_join0", CountsExact,
         ChannelAddUser(u, c), UserAddChannel(u, c), UNCHANGED <<name, live>>
  PROVE  CountsExact'
<1>1. /\ Cardinality(users[c] \cup {u})
            = IF u \in users[c] THEN Cardinality(users[c]) ELSE Cardinality(users[c]) + 1
      /\ Cardinality(channels[u] \cup {c})
            = IF c \in channels[u] THEN Cardinality(channels[u])
                                   ELSE Cardinality(channels[u]) + 1
      BY SetsFinite, FS_AddElement DEF TypeOK
<1>2. \A d \in Allocated : usercount'[d] = Cardinality(users'[d])
      BY <1>1, SetsFinite DEF TypeOK, CountsExact, ChannelAddUser, Allocated
<1>3. \A w \in live : channelcount'[w] = Cardinality(channels'[w])
      BY <1>1, SetsFinite DEF TypeOK, CountsExact, UserAddChannel
<1>. QED  BY <1>2, <1>3 DEF CountsExact, Allocated

LEMMA LeaveCounts ==
  ASSUME TypeOK, NEW u \in live, NEW c \in Chan,
         proc # "assert_join0", CountsExact, Leave(u, c), UNCHANGED <<name, live>>
  PROVE  CountsExact'
<1>1. /\ Cardinality(users[c] \ {u})
            = IF u \in users[c] THEN Cardinality(users[c]) - 1 ELSE Cardinality(users[c])
      /\ Cardinality(channels[u] \ {c})
            = IF c \in channels[u] THEN Cardinality(channels[u]) - 1
                                   ELSE Cardinality(channels[u])
      BY SetsFinite, FS_RemoveElement DEF TypeOK
<1>2. \A d \in Allocated : usercount'[d] = Cardinality(users'[d])
      BY <1>1, SetsFinite DEF TypeOK, CountsExact, Leave, ChannelsDelUser, Allocated
<1>3. \A w \in live : channelcount'[w] = Cardinality(channels'[w])
      BY <1>1, SetsFinite DEF TypeOK, CountsExact, Leave, UserDelChannel
<1>. QED  BY <1>2, <1>3 DEF CountsExact, Allocated

LEMMA CountsStep ==
  ASSUME TypeOK, HandlerPointersLive, IndexExact, UserSideSound,
         CountsExact, [Next]_vars
  PROVE  CountsExact'
<1> SUFFICES ASSUME proc' # "assert_join0" PROVE CountsExact'
    BY DEF CountsExact
<1>1. ASSUME UNCHANGED <<name, users, usercount, channels, channelcount>>,
             live' \subseteq live, proc # "assert_join0"
      PROVE  CountsExact'
      BY <1>1 DEF CountsExact, Allocated
<1>2. ASSUME NEW u \in User, AddUser(u) PROVE CountsExact'
      BY <1>2, FS_EmptySet DEF AddUser, chanVars, indexVars, CountsExact, Allocated, TypeOK
<1>3. ASSUME NEW u \in User, Join0(u) PROVE CountsExact'
      <2>1. u \in live /\ proc = "up" /\ channelcount[u] = 0
        BY <1>3 DEF Join0, Free
      <2>2. Cardinality(channels[u]) = 0
        BY <2>1 DEF CountsExact
      <2>3. IsFiniteSet(channels[u])
        BY <2>1, SetsFinite DEF TypeOK
      <2>4. channels[u] = {}
        BY <2>2, <2>3, FS_EmptySet
      <2>5. UNCHANGED <<name, live, users, usercount, channels, channelcount>>
        BY <1>3, <2>1, <2>4
           DEF Join0, ChannelsDelUser, heapVars, indexVars, TypeOK
      <2>. QED  BY <2>1, <2>5 DEF CountsExact, Allocated
<1>4. ASSUME NEW u \in User, NEW n \in Name, Join(u, n) PROVE CountsExact'
      BY <1>4, KnownAllocated, AddCounts DEF Join, Free, indexVars, heapVars
<1>5. ASSUME NEW u \in User, NEW n \in Name, Kick(u, n) PROVE CountsExact'
      BY <1>5, KnownAllocated, LeaveCounts DEF Kick, Free, indexVars, heapVars
<1>6. ASSUME NEW u \in User, NEW ms \in SUBSET Status, BurstEntry(u, ms)
      PROVE  CountsExact'
      <2>1. handler.chan \in Chan /\ handler.chan \in Allocated
        BY <1>6 DEF BurstEntry, Free, HandlerPointersLive, Allocated
      <2>. QED  BY <1>6, <2>1, AddCounts DEF BurstEntry, Free, indexVars, heapVars
<1>7. ASSUME NEW n \in Name, PartEntry(n) PROVE CountsExact'
      <2>1. handler.user \in live
        BY <1>7 DEF PartEntry, Free, HandlerPointersLive
      <2>. QED  BY <1>7, <2>1, KnownAllocated, LeaveCounts
                DEF PartEntry, Free, indexVars, heapVars
<1>8. ASSUME NEW n \in Name, NEW c \in Chan, BurstBeginNew(c, n) PROVE CountsExact'
      BY <1>8, FS_EmptySet
         DEF BurstBeginNew, Free, userVars, heapVars, CountsExact, Allocated, TypeOK
<1>9. ASSUME NEW n \in Name, NEW c \in Chan, CreateNew(c, n) PROVE CountsExact'
      <2> DEFINE u == handler.user
      <2>1. u \in live /\ c \notin channels[u] /\ proc # "assert_join0"
        BY <1>9 DEF CreateNew, Free, HandlerPointersLive, UserSideSound
      <2>2. Cardinality(channels[u] \cup {c}) = Cardinality(channels[u]) + 1
        BY <2>1, SetsFinite, FS_AddElement DEF TypeOK
      <2>3. \A d \in Allocated' : usercount'[d] = Cardinality(users'[d])
        BY <1>9, <2>1, FS_Singleton
           DEF CreateNew, FillChannel, CountsExact, Allocated, TypeOK
      <2>4. \A w \in live' : channelcount'[w] = Cardinality(channels'[w])
        BY <1>9, <2>1, <2>2
           DEF CreateNew, UserAddChannel, heapVars, CountsExact, TypeOK
      <2>. QED  BY <2>3, <2>4 DEF CountsExact
<1>10. ASSUME NEW n \in Name, NEW c \in Chan, CreateOver(c, n) PROVE CountsExact'
      <2> DEFINE u == handler.user
                 old == byName[Fold[n]]
      <2>1. /\ u \in live /\ proc # "assert_join0"
            /\ old \in Chan
            /\ c = old \/ c \notin Allocated
        BY <1>10, KnownAllocated DEF CreateOver, Free, HandlerPointersLive
      <2>2. \A d \in Allocated' : usercount'[d] = Cardinality(users'[d])
        BY <1>10, <2>1, FS_Singleton
           DEF CreateOver, FillChannel, CountsExact, Allocated, TypeOK
      <2>3. ASSUME NEW w \in live, w # u
            PROVE  channelcount'[w] = Cardinality(channels'[w])
        <3>1. channels'[w] = channels[w] \ {old}
          BY <1>10, <2>3 DEF CreateOver, UserSideSound, TypeOK
        <3>2. channelcount'[w] = IF old \in channels[w] THEN channelcount[w] - 1
                                                        ELSE channelcount[w]
          BY <1>10, <2>3 DEF CreateOver, UserSideSound, TypeOK
        <3>3. Cardinality(channels[w] \ {old})
                = IF old \in channels[w] THEN Cardinality(channels[w]) - 1
                                         ELSE Cardinality(channels[w])
          BY SetsFinite, FS_RemoveElement DEF TypeOK
        <3>. QED  BY <2>1, <3>1, <3>2, <3>3 DEF CountsExact
      <2>4. channelcount'[u] = Cardinality(channels'[u])
        <3>1. c \notin channels[u] \ {old}
          BY <2>1 DEF UserSideSound
        <3>2. channels'[u] = (channels[u] \ {old}) \cup {c}
          BY <1>10, <2>1 DEF CreateOver, UserSideSound, TypeOK
        <3>3. channelcount'[u] = (IF old \in channels[u] THEN channelcount[u] - 1
                                                         ELSE channelcount[u]) + 1
          BY <1>10, <2>1, <3>1 DEF CreateOver, UserSideSound, TypeOK
        <3>4. /\ IsFiniteSet(channels[u] \ {old})
              /\ Cardinality(channels[u] \ {old})
                    = IF old \in channels[u] THEN Cardinality(channels[u]) - 1
                                             ELSE Cardinality(channels[u])
          BY <2>1, SetsFinite, FS_RemoveElement DEF TypeOK
        <3>5. Cardinality((channels[u] \ {old}) \cup {c})
                = Cardinality(channels[u] \ {old}) + 1
          BY <3>1, <3>4, FS_AddElement
        <3>. QED  BY <2>1, <3>2, <3>3, <3>4, <3>5 DEF CountsExact
      <2>5. live' = live
        BY <1>10 DEF CreateOver, heapVars
      <2>. QED  BY <2>2, <2>3, <2>4, <2>5 DEF CountsExact
<1>. QED
  BY <1>1, <1>2, <1>3, <1>4, <1>5, <1>6, <1>7, <1>8, <1>9, <1>10, MembersFrame
     DEF CountsExact

(* Only del_user lets the two sides drift apart. *)
LEMMA AsymmetryStep ==
  ASSUME TypeOK, HandlerPointersLive, IndexExact, UserSideSound,
         CountsExact, AsymmetryOnlyFromDelUser, [Next]_vars
  PROVE  AsymmetryOnlyFromDelUser'
<1> SUFFICES ASSUME proc' # "assert_join0" PROVE AsymmetryOnlyFromDelUser'
    BY DEF AsymmetryOnlyFromDelUser
<1> USE DEF AsymmetryOnlyFromDelUser, Allocated, TypeOK, heapVars, indexVars
<1>1. ASSUME UNCHANGED <<name, users, channels>>, live \ live' \subseteq freed',
             freed \subseteq freed', proc # "assert_join0"
      PROVE  AsymmetryOnlyFromDelUser'
      BY <1>1
<1>2. ASSUME NEW u \in User, AddUser(u) PROVE AsymmetryOnlyFromDelUser'
      BY <1>2 DEF AddUser, chanVars, Free
<1>3. ASSUME NEW u \in User, Join0(u) PROVE AsymmetryOnlyFromDelUser'
      <2>1. u \in live /\ proc = "up" /\ channelcount[u] = 0
        BY <1>3 DEF Join0, Free
      <2>2. channels[u] = {}
        BY <2>1, SetsFinite, FS_EmptySet DEF CountsExact
      <2>. QED  BY <1>3, <2>1, <2>2 DEF Join0, ChannelsDelUser
<1>4. ASSUME NEW u \in User, NEW n \in Name, Join(u, n)
      PROVE  AsymmetryOnlyFromDelUser'
      BY <1>4, KnownAllocated DEF Join, ChannelAddUser, UserAddChannel, Free
<1>5. ASSUME NEW u \in User, NEW n \in Name, Kick(u, n)
      PROVE  AsymmetryOnlyFromDelUser'
      BY <1>5, KnownAllocated DEF Kick, Leave, ChannelsDelUser, UserDelChannel, Free
<1>6. ASSUME NEW u \in User, NEW ms \in SUBSET Status, BurstEntry(u, ms)
      PROVE  AsymmetryOnlyFromDelUser'
      BY <1>6 DEF BurstEntry, ChannelAddUser, UserAddChannel, Free, HandlerPointersLive
<1>7. ASSUME NEW n \in Name, PartEntry(n) PROVE AsymmetryOnlyFromDelUser'
      BY <1>7, KnownAllocated DEF PartEntry, Leave, ChannelsDelUser, UserDelChannel,
         Free, HandlerPointersLive
<1>8. ASSUME NEW n \in Name, NEW c \in Chan, CreateNew(c, n)
      PROVE  AsymmetryOnlyFromDelUser'
      BY <1>8 DEF CreateNew, FillChannel, UserAddChannel, Free, HandlerPointersLive
<1>9. ASSUME NEW n \in Name, NEW c \in Chan, CreateOver(c, n)
      PROVE  AsymmetryOnlyFromDelUser'
      BY <1>9, KnownAllocated DEF CreateOver, FillChannel, Free, HandlerPointersLive
<1>10. ASSUME NEW n \in Name, NEW c \in Chan, BurstBeginNew(c, n)
       PROVE  AsymmetryOnlyFromDelUser'
      BY <1>10 DEF BurstBeginNew, userVars, Free
<1>. QED
  BY <1>1, <1>2, <1>3, <1>4, <1>5, <1>6, <1>7, <1>8, <1>9, <1>10, MembersFrame

-----------------------------------------------------------------------------
(* The inductive invariant: none of these facts is inductive without the   *)
(* ones above it.                                                          *)
IInv ==
  /\ TypeOK /\ HandlerPointersLive /\ IndexExact /\ UserSideSound
  /\ StatusNeedsMembership /\ CountsExact /\ AsymmetryOnlyFromDelUser

LEMMA InitIInv == Init => IInv
<1> SUFFICES ASSUME Init PROVE IInv
    OBVIOUS
<1>1. TypeOK
      BY DEF Init, TypeOK, Proc, Handler, Idle
<1>2. HandlerPointersLive /\ IndexExact /\ UserSideSound /\ StatusNeedsMembership
      BY DEF Init, HandlerPointersLive, Idle, IndexExact, UserSideSound,
             StatusNeedsMembership, Allocated
<1>3. CountsExact /\ AsymmetryOnlyFromDelUser
      BY FS_EmptySet DEF Init, CountsExact, AsymmetryOnlyFromDelUser, Allocated
<1>. QED  BY <1>1, <1>2, <1>3 DEF IInv

(* Every reachable state satisfies the inductive invariant. *)
THEOREM Invariance == Spec => []IInv
<1>1. IInv /\ [Next]_vars => IInv'
      BY TypeStep, IndexStep, HandlerStep, UserSideStep, StatusStep, CountsStep,
         AsymmetryStep DEF IInv
<1>. QED  BY InitIInv, <1>1, PTL DEF Spec

(* handle.c, channels.c, chanusers.c: the state has its types. *)
THEOREM TypeCorrect == Spec => []TypeOK
BY Invariance, PTL DEF IInv

(* users.c, del_user: the only handlers' work after which a channel lists  *)
(* a user that does not list it is del_user's.                             *)
THEOREM AsymmetryExplained == Spec => []AsymmetryOnlyFromDelUser
BY Invariance, PTL DEF IInv

(* chanusers.c: the user's side of the relation is sound. *)
THEOREM UserSideIsSound == Spec => []UserSideSound
BY Invariance, PTL DEF IInv

(* channels.c: only members hold status. *)
THEOREM StatusIsMembers == Spec => []StatusNeedsMembership
BY Invariance, PTL DEF IInv

(* chanusers.c: usercount and channelcount are exact. *)
THEOREM CountsAreExact == Spec => []CountsExact
BY Invariance, PTL DEF IInv

(* channels.c: the index and the channels are one-to-one. *)
THEOREM IndexIsExact == Spec => []IndexExact
BY Invariance, PTL DEF IInv

-----------------------------------------------------------------------------
(* The refinement: seen from the users' side, each step of the handlers is *)
(* one event of Membership or nothing.                                     *)

(* One user's row of the view, and when a pair is in it. *)
LEMMA InView ==
  ASSUME IInv, NEW u \in live, NEW k \in Name
  PROVE  <<u, k>> \in View <=> \E c \in channels[u] : Fold[name[c]] = k
<1>1. u \in User /\ \A c \in channels[u] : name[c] # None
      BY DEF IInv, TypeOK, UserSideSound, Allocated
<1>. QED  BY <1>1 DEF View

(* The channel behind a key is the only one a user can be on under it. *)
LEMMA OneChannelPerKey ==
  ASSUME IInv, NEW u \in live, NEW n \in Name, Known(n)
  PROVE  \A c \in channels[u] : Fold[name[c]] = Fold[n] => c = byName[Fold[n]]
<1>1. \A c \in channels[u] : c \in Allocated /\ byName[Fold[name[c]]] = c
      BY DEF IInv, UserSideSound, IndexExact
<1>. QED  BY <1>1

(* A joined channel adds its key to the row of the user that joined. *)
LEMMA JoinView ==
  ASSUME IInv, NEW u \in live, NEW c \in Allocated, UserAddChannel(u, c),
         UNCHANGED <<name, live>>
  PROVE  Promise!Join(u, Fold[name[c]])
<1> DEFINE k == Fold[name[c]]
<1>1. u \in User /\ c \in Chan /\ k \in Name
      BY FoldIdempotent DEF IInv, TypeOK, Allocated
<1>2. View' = View \cup {<<u, k>>}
  <2>1. ASSUME NEW w \in live, NEW j \in Name
        PROVE  <<w, j>> \in View' <=> <<w, j>> \in View \/ <<w, j>> = <<u, k>>
    <3>1. w \in User /\ \A d \in channels[w] : d \in Chan /\ name[d] # None
      BY DEF IInv, TypeOK, UserSideSound, Allocated
    <3>2. channels'[w] = IF w = u THEN channels[w] \cup {c} ELSE channels[w]
      BY <1>1, <3>1 DEF UserAddChannel, IInv, TypeOK
    <3>3. <<w, j>> \in View' <=>
             \E d \in channels'[w] : name[d] # None /\ Fold[name[d]] = j
      BY DEF View
    <3>4. <<w, j>> \in View <=>
             \E d \in channels[w] : name[d] # None /\ Fold[name[d]] = j
      BY DEF View
    <3>5. name[c] # None
      BY DEF Allocated
    <3>. QED  BY <3>1, <3>2, <3>3, <3>4, <3>5
  <2>2. View \subseteq live \X Name /\ View' \subseteq live \X Name
    BY DEF View
  <2>. QED  BY <1>1, <2>1, <2>2
<1>. QED  BY <1>2 DEF Promise!Join

(* A left channel takes its key out of that row and no other. *)
LEMMA PartView ==
  ASSUME IInv, NEW u \in live, NEW n \in Name, Known(n),
         UserDelChannel(u, byName[Fold[n]]), UNCHANGED <<name, live>>
  PROVE  Promise!Part(u, Fold[n])
<1> DEFINE c == byName[Fold[n]]
<1>1. u \in User /\ c \in Chan /\ c \in Allocated /\ Fold[n] \in Name
      BY KnownAllocated, FoldIdempotent DEF IInv, TypeOK
<1>2. Fold[name[c]] = Fold[n]
      BY <1>1, FoldIdempotent DEF IInv, IndexExact, Known
<1>3. View' = View \ {<<u, Fold[n]>>}
  <2>1. ASSUME NEW w \in live, NEW j \in Name
        PROVE  <<w, j>> \in View' <=> <<w, j>> \in View /\ <<w, j>> # <<u, Fold[n]>>
    <3>1. w \in User /\ \A d \in channels[w] : d \in Chan /\ name[d] # None
      BY DEF IInv, TypeOK, UserSideSound, Allocated
    <3>2. channels'[w] = IF w = u THEN channels[w] \ {c} ELSE channels[w]
      BY <1>1, <3>1 DEF UserDelChannel, IInv, TypeOK
    <3>3. <<w, j>> \in View' <=>
             \E d \in channels'[w] : name[d] # None /\ Fold[name[d]] = j
      BY DEF View
    <3>4. <<w, j>> \in View <=>
             \E d \in channels[w] : name[d] # None /\ Fold[name[d]] = j
      BY DEF View
    <3>5. \A d \in channels[w] : Fold[name[d]] = Fold[n] => d = c
      BY OneChannelPerKey
    <3>. QED  BY <1>2, <3>1, <3>2, <3>3, <3>4, <3>5
  <2>2. View \subseteq live \X Name /\ View' \subseteq live \X Name
    BY DEF View
  <2>. QED  BY <1>1, <2>1, <2>2
<1>. QED  BY <1>3 DEF Promise!Part

(* JOIN 0 empties the row. *)
LEMMA PartAllView ==
  ASSUME IInv, NEW u \in User, Join0(u)
  PROVE  Promise!PartAll(u)
<1>1. u \in live /\ channels' = [channels EXCEPT ![u] = {}] /\ UNCHANGED <<name, live>>
      BY DEF Join0, heapVars, indexVars
<1>2. ASSUME NEW w \in live, NEW j \in Name
      PROVE  <<w, j>> \in View' <=> <<w, j>> \in View /\ w # u
      BY <1>1 DEF View, IInv, TypeOK
<1>3. View \subseteq live \X Name /\ View' \subseteq live \X Name
      BY <1>1 DEF View
<1>4. View' = View \ {p \in View : p[1] = u}
      BY <1>2, <1>3
<1>. QED  BY <1>1, <1>4 DEF Promise!PartAll, Promise!Of

(* del_user takes the row away with its user. *)
LEMMA QuitView ==
  ASSUME IInv, NEW u \in User, DelUser(u)
  PROVE  Promise!Quit(u)
<1>1. u \in live /\ live' = live \ {u} /\ UNCHANGED <<name, channels>>
      BY DEF DelUser, userVars, indexVars
<1>2. View' = View \ {p \in View : p[1] = u}
      BY <1>1 DEF View
<1>. QED  BY <1>1, <1>2 DEF Promise!Quit, Promise!Of

(* A new user's row is empty. *)
LEMMA EnterView ==
  ASSUME IInv, NEW u \in User, AddUser(u)
  PROVE  Promise!Enter(u)
<1>1. /\ u \notin live /\ live' = live \cup {u} /\ UNCHANGED name
      /\ channels' = [channels EXCEPT ![u] = {}]
      BY DEF AddUser, indexVars
<1>2. ASSUME NEW w \in live', NEW j \in Name
      PROVE  <<w, j>> \in View' <=> <<w, j>> \in View
      BY <1>1 DEF View, IInv, TypeOK
<1>3. View \subseteq live' \X Name /\ View' \subseteq live' \X Name
      BY <1>1 DEF View
<1>4. View' = View
      BY <1>2, <1>3
<1>. QED  BY <1>1, <1>4 DEF Promise!Enter

(* CREATE leaves the creator alone on the channel. *)
LEMMA CreateNewView ==
  ASSUME IInv, NEW n \in Name, NEW c \in Chan, CreateNew(c, n)
  PROVE  Promise!Create(handler.user, Fold[n])
<1> DEFINE u == handler.user
<1>1. /\ u \in live /\ u \in User /\ UNCHANGED live /\ Fold[n] \in Name
      /\ channels' = [channels EXCEPT ![u] = @ \cup {c}]
      /\ name' = [name EXCEPT ![c] = n] /\ c \notin Allocated /\ ~ Known(n)
      BY FoldIdempotent
         DEF CreateNew, UserAddChannel, heapVars, Free, IInv, HandlerPointersLive, TypeOK
<1>2. ASSUME NEW w \in live, NEW j \in Name
      PROVE  <<w, j>> \in View' <=>
                \/ <<w, j>> \in View /\ j # Fold[n]
                \/ <<w, j>> = <<u, Fold[n]>>
  <2>1. /\ w \in User
        /\ \A d \in channels[w] : /\ d \in Chan /\ d # c /\ name[d] # None
                                  /\ Fold[name[d]] # Fold[n] /\ name'[d] = name[d]
    BY <1>1, NoneIsNothing DEF IInv, TypeOK, UserSideSound, IndexExact, Allocated, Known
  <2>2. channels'[w] = IF w = u THEN channels[w] \cup {c} ELSE channels[w]
    BY <1>1, <2>1 DEF IInv, TypeOK
  <2>3. name'[c] = n /\ n # None
    BY <1>1, NoneIsNothing DEF IInv, TypeOK
  <2>4. <<w, j>> \in View' <=>
           \E d \in channels'[w] : name'[d] # None /\ Fold[name'[d]] = j
    BY <1>1 DEF View
  <2>5. <<w, j>> \in View <=>
           \E d \in channels[w] : name[d] # None /\ Fold[name[d]] = j
    BY DEF View
  <2>. QED  BY <2>1, <2>2, <2>3, <2>4, <2>5
<1>3. View \subseteq live \X Name /\ View' \subseteq live \X Name
      BY <1>1 DEF View
<1>4. View' = (View \ {p \in View : p[2] = Fold[n]}) \cup {<<u, Fold[n]>>}
      BY <1>1, <1>2, <1>3
<1>. QED  BY <1>1, <1>4 DEF Promise!Create, Promise!On

LEMMA CreateOverView ==
  ASSUME IInv, NEW n \in Name, NEW c \in Chan, CreateOver(c, n)
  PROVE  Promise!Create(handler.user, Fold[n])
<1> DEFINE u == handler.user
           old == byName[Fold[n]]
<1>1. /\ u \in live /\ u \in User /\ UNCHANGED live /\ Fold[n] \in Name
      /\ name' = [name EXCEPT ![old] = None, ![c] = n]
      /\ Known(n) /\ old \in Chan /\ old \in Allocated
      /\ c = old \/ c \notin Allocated
      BY FoldIdempotent, KnownAllocated
         DEF CreateOver, heapVars, Free, IInv, HandlerPointersLive, TypeOK
<1>2. ASSUME NEW w \in live
      PROVE  channels'[w] = IF w = u THEN (channels[w] \ {old}) \cup {c}
                                     ELSE channels[w] \ {old}
      BY <1>1 DEF CreateOver, IInv, TypeOK, UserSideSound
<1>3. ASSUME NEW w \in live, NEW j \in Name
      PROVE  <<w, j>> \in View' <=>
                \/ <<w, j>> \in View /\ j # Fold[n]
                \/ <<w, j>> = <<u, Fold[n]>>
  <2>1. \A d \in channels[w] \ {old} :
           /\ d \in Chan /\ d # c /\ name[d] # None
           /\ Fold[name[d]] # Fold[n] /\ name'[d] = name[d]
    BY <1>1, OneChannelPerKey DEF IInv, TypeOK, UserSideSound, Allocated
  <2>2. name'[c] = n /\ n # None
    BY <1>1, NoneIsNothing DEF IInv, TypeOK
  <2>3. <<w, j>> \in View' <=>
           \E d \in channels'[w] : name'[d] # None /\ Fold[name'[d]] = j
    BY <1>1 DEF View
  <2>4. <<w, j>> \in View <=>
           \E d \in channels[w] : name[d] # None /\ Fold[name[d]] = j
    BY DEF View
  <2>5. Fold[name[old]] = Fold[n]
    BY <1>1, FoldIdempotent DEF IInv, IndexExact, Known
  <2>. QED  BY <1>2, <2>1, <2>2, <2>3, <2>4, <2>5
<1>4. View \subseteq live \X Name /\ View' \subseteq live \X Name
      BY <1>1 DEF View
<1>5. View' = (View \ {p \in View : p[2] = Fold[n]}) \cup {<<u, Fold[n]>>}
      BY <1>1, <1>3, <1>4
<1>. QED  BY <1>1, <1>5 DEF Promise!Create, Promise!On

(* A channel that is only added to the index is nobody's yet. *)
LEMMA BurstNewView ==
  ASSUME IInv, NEW n \in Name, NEW c \in Chan, BurstBeginNew(c, n)
  PROVE  UNCHANGED <<live, View>>
<1>1. UNCHANGED <<live, channels>> /\ name' = [name EXCEPT ![c] = n] /\ c \notin Allocated
      BY DEF BurstBeginNew, heapVars, userVars
<1>2. ASSUME NEW w \in live PROVE \A d \in channels[w] : name'[d] = name[d]
      BY <1>1 DEF IInv, TypeOK, UserSideSound
<1>3. View' = View
      BY <1>1, <1>2 DEF View
<1>. QED  BY <1>1, <1>3

(* Every step of a handler is an event of the membership or no event. *)
LEMMA StepImplements ==
  ASSUME IInv, [Next]_vars
  PROVE  Promise!Next \/ UNCHANGED <<live, View>>
<1> USE DEF Promise!Next
<1>1. CASE UNCHANGED <<live, name, channels>>
      BY <1>1 DEF View
<1>2. ASSUME NEW u \in User, AddUser(u) PROVE Promise!Next
      BY <1>2, EnterView
<1>3. ASSUME NEW u \in User, DelUser(u) PROVE Promise!Next
      BY <1>3, QuitView
<1>4. ASSUME NEW u \in User, Join0(u) PROVE Promise!Next
      BY <1>4, PartAllView
<1>5. ASSUME NEW u \in User, NEW n \in Name, Join(u, n) PROVE Promise!Next
  <2>1. byName[Fold[n]] \in Allocated
    BY <1>5, KnownAllocated DEF Join, IInv
  <2>2. Promise!Join(u, Fold[name[byName[Fold[n]]]])
    BY <1>5, <2>1, JoinView DEF Join, heapVars, indexVars
  <2>3. Fold[name[byName[Fold[n]]]] \in Name
    BY <2>1, FoldIdempotent DEF IInv, TypeOK, Allocated
  <2>. QED  BY <2>2, <2>3
<1>6. ASSUME NEW u \in User, NEW n \in Name, Kick(u, n) PROVE Promise!Next
      BY <1>6, PartView, FoldIdempotent DEF Kick, Leave, heapVars, indexVars
<1>7. ASSUME NEW n \in Name, PartEntry(n) PROVE Promise!Next
  <2>1. handler.user \in live /\ handler.user \in User
    BY <1>7 DEF PartEntry, Free, IInv, HandlerPointersLive, TypeOK
  <2>. QED  BY <1>7, <2>1, PartView, FoldIdempotent
            DEF PartEntry, Leave, heapVars, indexVars
<1>8. ASSUME NEW u \in User, NEW ms \in SUBSET Status, BurstEntry(u, ms)
      PROVE  Promise!Next
  <2>1. handler.chan \in Allocated
    BY <1>8 DEF BurstEntry, Free, IInv, HandlerPointersLive
  <2>2. Promise!Join(u, Fold[name[handler.chan]])
    BY <1>8, <2>1, JoinView DEF BurstEntry, heapVars, indexVars
  <2>3. Fold[name[handler.chan]] \in Name
    BY <2>1, FoldIdempotent DEF IInv, TypeOK, Allocated
  <2>. QED  BY <2>2, <2>3
<1>9. ASSUME NEW n \in Name, NEW c \in Chan, CreateNew(c, n) \/ CreateOver(c, n)
      PROVE  Promise!Next
  <2>1. handler.user \in User
    BY <1>9 DEF CreateNew, CreateOver, Free, IInv, HandlerPointersLive, TypeOK
  <2>. QED  BY <1>9, <2>1, CreateNewView, CreateOverView, FoldIdempotent
<1>10. ASSUME NEW n \in Name, NEW c \in Chan, BurstBeginNew(c, n)
       PROVE  UNCHANGED <<live, View>>
      BY <1>10, BurstNewView
<1>11. \/ UNCHANGED <<live, name, channels>>
       \/ \E u \in User : AddUser(u) \/ DelUser(u) \/ Join0(u)
       \/ \E u \in User, n \in Name : Join(u, n) \/ Kick(u, n)
       \/ \E u \in User, ms \in SUBSET Status : BurstEntry(u, ms)
       \/ \E n \in Name : PartEntry(n)
       \/ \E n \in Name, c \in Chan : CreateNew(c, n) \/ CreateOver(c, n)
                                      \/ BurstBeginNew(c, n)
      BY DEF Next, vars, heapVars, indexVars, userVars, End, PartBegin, CreateBegin,
             PrefixAssert, PlsPrefix, MnsPrefix, CreateOverDangling, BurstBegin,
             ModeBegin, ClearMode
<1>. QED
  BY <1>1, <1>2, <1>3, <1>4, <1>5, <1>6, <1>7, <1>8, <1>9, <1>10, <1>11

(* chanusers.c, channels.c, handle.c: from the users' side the handlers    *)
(* implement the membership the protocol describes.                        *)
THEOREM Refinement == Spec => ImplementsMembership
<1>1. Init => Promise!Init
      BY DEF Init, Promise!Init, View
<1>2. IInv /\ [Next]_vars => [Promise!Next]_<<live, View>>
      BY StepImplements
<1>. QED  BY <1>1, <1>2, Invariance, PTL DEF Spec, ImplementsMembership, Promise!Spec

=============================================================================
