-------------------------------- MODULE Users --------------------------------
(***************************************************************************)
(* The user tables of users.c: struct user blocks, found by numeric and by *)
(* nickname, and the set of operators, which is kept by address.           *)
(*                                                                         *)
(* `there' and `shared' are not in the program: they say which blocks      *)
(* stand for somebody who is on the network, and which nicknames two users *)
(* of our tables have had at once.  The network gives a numeric to one     *)
(* user at a time, but two users have the same nickname for a while when   *)
(* their NICK messages cross on our link; then one of them is KILLed.      *)
(* hSQUIT is empty, so the users of a server that splits stay as ghosts,   *)
(* and their numerics come again with other users.                         *)
(***************************************************************************)
EXTENDS Integers, FiniteSets

CONSTANTS
  User,      \* addresses a struct user can be allocated at
  Lowest,    \* numerics of our own server, from the first
  Highest,   \* to the one that its maxusers allows
  Remote,    \* numerics of the other servers
  Nick,      \* nicknames, folded by strconv(rfc_tolower, .)
  None

Local == Lowest..Highest
Numeric == Local \cup Remote

ASSUME UsersFinite == IsFiniteSet(User) /\ None \notin User
ASSUME LocalInterval == Lowest \in Nat /\ Highest \in Nat /\ Lowest <= Highest
ASSUME RemoteApart == Remote \subseteq Nat \ Local
ASSUME NoneIsNoName == None \notin Nick \cup Numeric

VARIABLES
  live,          \* allocated blocks
  numeric,       \* struct user
  nick,
  userlist_num,
  userlist_nick,
  opers,
  lastnumeric,   \* of our own server
  there,
  shared

fields == <<numeric, nick>>
vars == <<live, fields, userlist_num, userlist_nick, opers, lastnumeric, there, shared>>

-----------------------------------------------------------------------------
Init ==
  /\ live = {} /\ there = {} /\ shared = {} /\ opers = {}
  /\ numeric = [u \in User |-> None] /\ nick = [u \in User |-> None]
  /\ userlist_num = [n \in Numeric |-> None]
  /\ userlist_nick = [k \in Nick |-> None]
  /\ lastnumeric = Highest

(* The nickname k goes to the block u. *)
Take(u, k) ==
  shared' = IF \E w \in live \ {u} : nick[w] = k THEN shared \cup {k} ELSE shared

(* Mutant: an entry of the numeric table is not overwritten. *)
AddUserOnce(u, n, k, oper) ==
  /\ live' = live \cup {u}
  /\ numeric' = [numeric EXCEPT ![u] = n]
  /\ nick' = [nick EXCEPT ![u] = k]
  /\ userlist_nick' = [userlist_nick EXCEPT ![k] = u]
  /\ userlist_num' = [userlist_num EXCEPT ![n] = IF @ = None THEN u ELSE @]
  /\ opers' = IF oper THEN opers \cup {u} ELSE opers
  /\ there' = there \cup {u} /\ Take(u, k)

(* add_user at block u; hNICK2 then applies the modes, oper is +o or +O. *)
AddUser(u, n, k, oper) ==
  /\ live' = live \cup {u}
  /\ numeric' = [numeric EXCEPT ![u] = n]
  /\ nick' = [nick EXCEPT ![u] = k]
  /\ userlist_nick' = [userlist_nick EXCEPT ![k] = u]
  /\ userlist_num' = [userlist_num EXCEPT ![n] = u]
  /\ opers' = IF oper THEN opers \cup {u} ELSE opers
  /\ there' = there \cup {u} /\ Take(u, k)

(* NICK of a user elsewhere. *)
Introduced(u, n, k, oper) ==
  /\ u \notin live
  /\ n \in Remote /\ \A w \in there : numeric[w] # n
  /\ AddUser(u, n, k, oper)
  /\ UNCHANGED lastnumeric

(* server_freenum goes round the numerics of our server and starts after   *)
(* the one it gave last.                                                   *)
After(n) == IF n = Highest THEN Lowest ELSE n + 1
Distance(n) == LET d == n - After(lastnumeric)
               IN IF d >= 0 THEN d ELSE d + (Highest - Lowest + 1)
Unused == {n \in Local : userlist_num[n] = None}

(* Mutant: the numeric after the last one is taken without a look. *)
NextNum == After(lastnumeric)

FreeNum == CHOOSE n \in Unused : \A m \in Unused : Distance(n) <= Distance(m)

(* Mutant: the next search skips one numeric, and leaves the range. *)
CreateClientSkips(u, k, oper) ==
  /\ u \notin live /\ Unused # {}
  /\ AddUser(u, FreeNum, k, oper)
  /\ lastnumeric' = FreeNum + 1

(* module_create_client: our NICK comes back to hNICK2.  It does not look  *)
(* for the nickname first.  With no numeric left server_freenum never      *)
(* returns, and this action never happens.                                 *)
CreateClient(u, k, oper) ==
  /\ u \notin live /\ Unused # {}
  /\ AddUser(u, FreeNum, k, oper)
  /\ lastnumeric' = FreeNum

(* Mutant: the operators are forgotten. *)
DelUserKeepsOper(u) ==
  /\ u \in there /\ userlist_num[numeric[u]] = u
  /\ live' = live \ {u} /\ there' = there \ {u}
  /\ userlist_nick' = [userlist_nick EXCEPT ![nick[u]] = None]
  /\ userlist_num' = [userlist_num EXCEPT ![numeric[u]] = None]
  /\ UNCHANGED <<fields, opers, lastnumeric, shared>>

(* QUIT and KILL, for a user that the message's numeric finds: del_user. *)
DelUser(u) ==
  /\ u \in there /\ userlist_num[numeric[u]] = u
  /\ live' = live \ {u} /\ there' = there \ {u} /\ opers' = opers \ {u}
  /\ userlist_nick' = [userlist_nick EXCEPT ![nick[u]] = None]
  /\ userlist_num' = [userlist_num EXCEPT ![numeric[u]] = None]
  /\ UNCHANGED <<fields, lastnumeric, shared>>

(* Mutant: the old nickname stays. *)
NickChangeAddsOnly(u, k) ==
  /\ u \in there /\ userlist_num[numeric[u]] = u
  /\ userlist_nick' = [userlist_nick EXCEPT ![k] = u]
  /\ nick' = [nick EXCEPT ![u] = k] /\ Take(u, k)
  /\ UNCHANGED <<live, numeric, userlist_num, opers, lastnumeric, there>>

(* Mutant: the old nickname is removed last, and with it the new one when  *)
(* only the case has changed.                                              *)
NickChangeSwapped(u, k) ==
  /\ u \in there /\ userlist_num[numeric[u]] = u
  /\ userlist_nick' = [[userlist_nick EXCEPT ![k] = u] EXCEPT ![nick[u]] = None]
  /\ nick' = [nick EXCEPT ![u] = k] /\ Take(u, k)
  /\ UNCHANGED <<live, numeric, userlist_num, opers, lastnumeric, there>>

(* NICK of a user that is there: user_nickchange. *)
NickChange(u, k) ==
  /\ u \in there /\ userlist_num[numeric[u]] = u
  /\ userlist_nick' = [[userlist_nick EXCEPT ![nick[u]] = None] EXCEPT ![k] = u]
  /\ nick' = [nick EXCEPT ![u] = k] /\ Take(u, k)
  /\ UNCHANGED <<live, numeric, userlist_num, opers, lastnumeric, there>>

(* MODE +-o: user_modehook. *)
SetOper(u, pls) ==
  /\ u \in there /\ userlist_num[numeric[u]] = u
  /\ opers' = IF pls THEN opers \cup {u} ELSE opers \ {u}
  /\ UNCHANGED <<live, fields, userlist_num, userlist_nick, lastnumeric, there, shared>>

(* SQUIT: some users elsewhere are gone, hSQUIT does nothing. *)
Split(gone) ==
  /\ gone # {} /\ \A u \in gone : numeric[u] \in Remote
  /\ there' = there \ gone
  /\ UNCHANGED <<live, fields, userlist_num, userlist_nick, opers, lastnumeric, shared>>

-----------------------------------------------------------------------------
Next ==
  \/ \E u \in User :
       \/ \E k \in Nick, oper \in BOOLEAN :
            CreateClient(u, k, oper) \/ \E n \in Remote : Introduced(u, n, k, oper)
       \/ DelUser(u)
       \/ \E k \in Nick : NickChange(u, k)
       \/ \E pls \in BOOLEAN : SetOper(u, pls)
  \/ \E gone \in SUBSET there : Split(gone)

Spec == Init /\ [][Next]_vars

-----------------------------------------------------------------------------
TypeOK ==
  /\ live \subseteq User /\ there \subseteq live /\ opers \subseteq User
  /\ numeric \in [User -> Numeric \cup {None}]
  /\ nick \in [User -> Nick \cup {None}]
  /\ userlist_num \in [Numeric -> User \cup {None}]
  /\ userlist_nick \in [Nick -> User \cup {None}]
  /\ lastnumeric \in Local /\ shared \subseteq Nick

(* Everybody who is on the network is found by numeric, whichever ghosts   *)
(* had that numeric before, so no message of theirs goes astray.           *)
PresentAreFound == \A u \in there : userlist_num[numeric[u]] = u

(* Both tables lead to allocated blocks with that numeric and that nick,   *)
(* whatever nicknames have collided and whatever was removed by whom.      *)
TablesSound ==
  /\ \A n \in Numeric : userlist_num[n] # None =>
        userlist_num[n] \in live /\ numeric[userlist_num[n]] = n
  /\ \A k \in Nick : userlist_nick[k] # None =>
        userlist_nick[k] \in live /\ nick[userlist_nick[k]] = k

(* user_isoper asks by address: a block that is handed out again does not  *)
(* come with the operator status of the user it was freed from.            *)
OpersLive == opers \subseteq live

(* Our own clients never get the numeric of one that is still there.       *)
OwnNumericsDiffer ==
  \A u, w \in live : u # w /\ numeric[u] \in Local => numeric[u] # numeric[w]

(* A user is found by nickname as long as nobody else, ghosts included,    *)
(* has had that nickname at the same time: no other sequence of arrivals,  *)
(* renames and removals takes the entry of a name from its owner.  (After  *)
(* a collision add_user, del_user and user_nickchange can: they remove the *)
(* entry of a name whoever it leads to.)                                   *)
NicksLostByCollisionOnly ==
  \A u \in live : nick[u] \notin shared => userlist_nick[nick[u]] = u

=============================================================================
