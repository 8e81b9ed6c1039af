----------------------------- MODULE UsersProofs -----------------------------
(* The user tables, proved for any set of blocks, numerics and nicknames.  *)
EXTENDS Users, WellFoundedInduction, TLAPS

(* A set of naturals has a least element. *)
LEMMA LeastExists ==
  ASSUME NEW T \in SUBSET Nat, T # {}
  PROVE  \E x \in T : \A y \in T : x <= y
<1>1. PICK x \in T : \A y \in T : ~ (<<y, x>> \in OpToRel(<, Nat))
      BY NatLessThanWellFounded, WFMin
<1>2. \A y \in T : ~ (y < x)
      BY <1>1 DEF OpToRel
<1>. QED  BY <1>2

(* server_freenum returns a numeric of our server that the table does not  *)
(* hold, whenever there is one.                                            *)
LEMMA FreeNumUnused ==
  ASSUME Unused # {}, lastnumeric \in Local
  PROVE  FreeNum \in Unused
<1> USE LocalInterval
<1>1. \A n \in Unused : Distance(n) \in Nat
      BY DEF Unused, Distance, After, Local
<1>2. PICK d \in {Distance(n) : n \in Unused} :
         \A e \in {Distance(n) : n \in Unused} : d <= e
      BY <1>1, LeastExists
<1>3. \E n \in Unused : \A m \in Unused : Distance(n) <= Distance(m)
      BY <1>2
<1>. QED  BY <1>3 DEF FreeNum

-----------------------------------------------------------------------------
(* A block in use has a numeric and a nickname.  Our own users, whom no    *)
(* split turns into ghosts, are all found by numeric.                      *)
BlocksNamed == \A u \in live : numeric[u] \in Numeric /\ nick[u] \in Nick

OwnAreFound == \A u \in live : numeric[u] \in Local => userlist_num[numeric[u]] = u

(* The inductive invariant.  Two users with one numeric of ours would both *)
(* be the one the table leads to, so OwnNumericsDiffer follows from        *)
(* OwnAreFound, which is inductive where it is not.                        *)
IInv == /\ TypeOK /\ BlocksNamed /\ OwnAreFound /\ PresentAreFound
        /\ TablesSound /\ OpersLive /\ NicksLostByCollisionOnly

LEMMA InitIInv == Init => IInv
<1> USE LocalInterval
<1>1. Highest \in Local
      BY DEF Local
<1>. QED
  BY <1>1 DEF Init, IInv, TypeOK, BlocksNamed, OwnAreFound, PresentAreFound,
              TablesSound, OpersLive, NicksLostByCollisionOnly

(* What the two ways in have in common: the numeric is not that of another *)
(* user who is there, nor of one of ours.                                  *)
LEMMA AddUserStep ==
  ASSUME IInv, NEW u \in User \ live, NEW n \in Numeric, NEW k \in Nick,
         NEW oper \in BOOLEAN, AddUser(u, n, k, oper), lastnumeric' \in Local,
         \A w \in there : numeric[w] # n,
         \A w \in live : numeric[w] \in Local => numeric[w] # n
  PROVE  IInv'
<1> USE UsersFinite, NoneIsNoName DEF IInv
<1>1. /\ live' = live \cup {u} /\ there' = there \cup {u}
      /\ numeric' = [numeric EXCEPT ![u] = n] /\ nick' = [nick EXCEPT ![u] = k]
      /\ userlist_num' = [userlist_num EXCEPT ![n] = u]
      /\ userlist_nick' = [userlist_nick EXCEPT ![k] = u]
      /\ opers' = IF oper THEN opers \cup {u} ELSE opers
      /\ shared' = IF \E w \in live \ {u} : nick[w] = k THEN shared \cup {k} ELSE shared
      BY DEF AddUser, Take
<1>2. TypeOK'
      BY <1>1 DEF TypeOK
<1>3. /\ numeric'[u] = n /\ nick'[u] = k
      /\ \A w \in live : numeric'[w] = numeric[w] /\ nick'[w] = nick[w] /\ w # u
      BY <1>1 DEF TypeOK
<1>4. BlocksNamed'
      BY <1>1, <1>3 DEF BlocksNamed
<1>5. OwnAreFound' /\ PresentAreFound'
      BY <1>1, <1>3 DEF OwnAreFound, PresentAreFound, BlocksNamed, TypeOK
<1>6. TablesSound'
      BY <1>1, <1>3 DEF TablesSound, TypeOK
<1>7. OpersLive'
      BY <1>1 DEF OpersLive
<1>8. NicksLostByCollisionOnly'
      BY <1>1, <1>3 DEF NicksLostByCollisionOnly, BlocksNamed, TypeOK
<1>. QED  BY <1>2, <1>4, <1>5, <1>6, <1>7, <1>8

LEMMA DelUserStep == ASSUME IInv, NEW u \in User, DelUser(u) PROVE IInv'
<1> USE UsersFinite, NoneIsNoName DEF IInv
<1>1. /\ u \in there /\ u \in live /\ userlist_num[numeric[u]] = u
      /\ live' = live \ {u} /\ there' = there \ {u} /\ opers' = opers \ {u}
      /\ userlist_nick' = [userlist_nick EXCEPT ![nick[u]] = None]
      /\ userlist_num' = [userlist_num EXCEPT ![numeric[u]] = None]
      /\ numeric' = numeric /\ nick' = nick
      /\ lastnumeric' = lastnumeric /\ shared' = shared
      BY DEF DelUser, fields, TypeOK
<1>2. numeric[u] \in Numeric /\ nick[u] \in Nick
      BY <1>1 DEF BlocksNamed
<1>3. TypeOK' /\ BlocksNamed' /\ OpersLive'
      BY <1>1, <1>2 DEF TypeOK, BlocksNamed, OpersLive
<1>4. OwnAreFound' /\ PresentAreFound'
      BY <1>1, <1>2 DEF OwnAreFound, PresentAreFound, BlocksNamed, TypeOK
<1>5. TablesSound'
      BY <1>1, <1>2 DEF TablesSound, TypeOK
<1>6. NicksLostByCollisionOnly'
      BY <1>1, <1>2 DEF NicksLostByCollisionOnly, BlocksNamed, TypeOK
<1>. QED  BY <1>3, <1>4, <1>5, <1>6

LEMMA NickChangeStep ==
  ASSUME IInv, NEW u \in User, NEW k \in Nick, NickChange(u, k) PROVE IInv'
<1> USE UsersFinite, NoneIsNoName DEF IInv
<1>1. /\ u \in there /\ u \in live
      /\ userlist_nick' = [[userlist_nick EXCEPT ![nick[u]] = None] EXCEPT ![k] = u]
      /\ nick' = [nick EXCEPT ![u] = k]
      /\ shared' = IF \E w \in live \ {u} : nick[w] = k THEN shared \cup {k} ELSE shared
      /\ UNCHANGED <<live, numeric, userlist_num, opers, lastnumeric, there>>
      BY DEF NickChange, Take, TypeOK
<1>2. nick[u] \in Nick /\ nick'[u] = k /\ \A w \in live \ {u} : nick'[w] = nick[w]
      BY <1>1 DEF BlocksNamed, TypeOK
<1>3. /\ userlist_nick'[k] = u
      /\ \A m \in Nick \ {k} : userlist_nick'[m] = IF m = nick[u] THEN None
                                                     ELSE userlist_nick[m]
      BY <1>1, <1>2 DEF TypeOK
<1>4. TypeOK'
      BY <1>1, <1>2 DEF TypeOK
<1>5. BlocksNamed' /\ OpersLive' /\ OwnAreFound' /\ PresentAreFound'
      BY <1>1, <1>2 DEF BlocksNamed, OpersLive, OwnAreFound, PresentAreFound
<1>6. TablesSound'
      BY <1>1, <1>2, <1>3 DEF TablesSound, TypeOK
<1>7. ASSUME NEW w \in live, nick'[w] \notin shared'
      PROVE  userlist_nick'[nick'[w]] = w
  <2>1. CASE w = u
        BY <2>1, <1>2, <1>3
  <2>2. CASE w # u
    <3>1. nick'[w] = nick[w] /\ nick[w] # k /\ nick[w] \notin shared /\ nick[w] \in Nick
          BY <2>2, <1>1, <1>2, <1>7 DEF BlocksNamed
    <3>2. nick[w] # nick[u]
          BY <2>2, <1>1, <3>1 DEF NicksLostByCollisionOnly
    <3>. QED  BY <3>1, <3>2, <1>3 DEF NicksLostByCollisionOnly
  <2>. QED  BY <2>1, <2>2
<1>8. NicksLostByCollisionOnly'
      BY <1>1, <1>7 DEF NicksLostByCollisionOnly
<1>. QED  BY <1>4, <1>5, <1>6, <1>8

LEMMA StepIInv == IInv /\ [Next]_vars => IInv'
<1> SUFFICES ASSUME IInv, [Next]_vars PROVE IInv'
    OBVIOUS
<1>1. ASSUME NEW u \in User, NEW k \in Nick, NEW oper \in BOOLEAN, CreateClient(u, k, oper)
      PROVE  IInv'
  <2>1. /\ u \in User \ live /\ Unused # {} /\ lastnumeric' = FreeNum
        /\ AddUser(u, FreeNum, k, oper) /\ lastnumeric \in Local
        BY <1>1 DEF CreateClient, IInv, TypeOK
  <2>2. FreeNum \in Local /\ userlist_num[FreeNum] = None
        BY <2>1, FreeNumUnused DEF Unused
  <2>3. /\ \A w \in there : numeric[w] # FreeNum
        /\ \A w \in live : numeric[w] \in Local => numeric[w] # FreeNum
        BY <2>2, UsersFinite DEF IInv, PresentAreFound, OwnAreFound, TypeOK
  <2>4. FreeNum \in Numeric
        BY <2>2 DEF Numeric
  <2>. QED  BY <2>1, <2>2, <2>3, <2>4, AddUserStep
<1>2. ASSUME NEW u \in User, NEW k \in Nick, NEW oper \in BOOLEAN, NEW n \in Remote,
             Introduced(u, n, k, oper)
      PROVE  IInv'
  <2>1. n \in Numeric /\ n \notin Local
        BY RemoteApart DEF Numeric
  <2>2. /\ u \in User \ live /\ AddUser(u, n, k, oper)
        /\ lastnumeric' \in Local /\ \A w \in there : numeric[w] # n
        BY <1>2 DEF Introduced, IInv, TypeOK
  <2>. QED  BY <2>1, <2>2, AddUserStep
<1>3. ASSUME NEW u \in User, NEW pls \in BOOLEAN, SetOper(u, pls) PROVE IInv'
      BY <1>3 DEF SetOper, fields, IInv, TypeOK, BlocksNamed, OwnAreFound, PresentAreFound,
                  TablesSound, OpersLive, NicksLostByCollisionOnly
<1>4. ASSUME NEW gone \in SUBSET there, Split(gone) PROVE IInv'
      BY <1>4 DEF Split, fields, IInv, TypeOK, BlocksNamed, OwnAreFound, PresentAreFound,
                  TablesSound, OpersLive, NicksLostByCollisionOnly
<1>5. CASE UNCHANGED vars
      BY <1>5 DEF vars, fields, IInv, TypeOK, BlocksNamed, OwnAreFound, PresentAreFound,
                  TablesSound, OpersLive, NicksLostByCollisionOnly
<1>. QED
  BY <1>1, <1>2, <1>3, <1>4, <1>5, DelUserStep, NickChangeStep DEF Next

(* Every reachable state satisfies the inductive invariant. *)
THEOREM Invariance == Spec => []IInv
BY InitIInv, StepIInv, PTL DEF Spec

(* users.c, servers.c: the tables and the records have their types, and    *)
(* the last numeric given out is one of our server's.                      *)
THEOREM TypeCorrect == Spec => []TypeOK
BY Invariance, PTL DEF IInv

(* users.c, get_user_by_numeric: whoever is on the network is found.       *)
THEOREM NobodyGoesAstray == Spec => []PresentAreFound
BY Invariance, PTL DEF IInv

(* users.c, add_user, del_user, user_nickchange: no table ever leads to a  *)
(* freed block or to a user with another numeric or nickname.              *)
THEOREM TablesAreSound == Spec => []TablesSound
BY Invariance, PTL DEF IInv

(* users.c, del_user: operator status is not inherited with an address.    *)
THEOREM OpersAreLive == Spec => []OpersLive
BY Invariance, PTL DEF IInv

(* servers.c, server_freenum: our own users have different numerics.       *)
THEOREM NumericsAreUnique == Spec => []OwnNumericsDiffer
<1>1. IInv => OwnNumericsDiffer
      BY DEF IInv, OwnAreFound, OwnNumericsDiffer
<1>. QED  BY <1>1, Invariance, PTL

(* users.c: only a collision makes a nickname lead away from its user.     *)
THEOREM NicksAreFound == Spec => []NicksLostByCollisionOnly
BY Invariance, PTL DEF IInv

=============================================================================
