----------------------------- MODULE ChanUsers -----------------------------
(***************************************************************************)
(* Channel membership and channel status as chanusers.c and channels.c     *)
(* keep them, driven by the message handlers of handle.c.                  *)
(*                                                                         *)
(* A struct user and a struct channel are heap blocks, named here by their *)
(* addresses: a block that was freed may be handed out again.  Membership  *)
(* is stored twice, on the channel (users, usercount) and on the user      *)
(* (channels, channelcount); ops and voices are stored on the channel.     *)
(*                                                                         *)
(* The program is one thread, so a handler runs to its end before the next *)
(* message is read.  A handler that walks a list it was sent (CREATE,      *)
(* PART, BURST, MODE) is a Begin step, one step for each entry, and End;   *)
(* `handler' holds its locals, and no other handler starts meanwhile.  The *)
(* entries are chosen as they are reached, which gives every list of every *)
(* length.                                                                 *)
(***************************************************************************)
EXTENDS Integers, FiniteSets

CONSTANTS
  User,     \* addresses a struct user can be allocated at
  Chan,     \* addresses a struct channel can be allocated at
  Name,     \* channel names as they are sent
  Fold,     \* strconv(rfc_tolower, .): [Name -> Name]
  None      \* the null pointer, and the name of an unallocated channel

ASSUME HeapFinite == IsFiniteSet(User) /\ IsFiniteSet(Chan)
ASSUME NoneIsNothing == None \notin User \cup Chan \cup Name
ASSUME FoldIdempotent == /\ Fold \in [Name -> Name]
                         /\ \A n \in Name : Fold[Fold[n]] = Fold[n]

VARIABLES
  proc,          \* how the process is doing, see Proc
  handler,       \* locals of the list handler that is running, or Idle
  live,          \* user blocks in use
  freed,         \* user blocks that were freed at least once
  name,          \* c->name, None when block c is not in use
  byName,        \* the channel index of channels.c: key -> channel
  users, usercount, ops, voices,       \* struct channel
  channels, channelcount               \* struct user

userVars == <<channels, channelcount>>
chanVars == <<users, usercount, ops, voices>>
indexVars == <<name, byName>>
heapVars == <<live, freed>>
vars == <<proc, handler, heapVars, indexVars, chanVars, userVars>>

-----------------------------------------------------------------------------
(* An assertion that fails aborts the process; so does nothing else here.  *)
(* "undefined" is any outcome of following a pointer to a freed block.     *)
Proc == {"up", "assert_join0", "assert_prefix", "undefined"}

Status == {"o", "v"}

Idle == [kind |-> "none", user |-> None, chan |-> None, modes |-> {}]

Handler == [kind : {"none", "CREATE", "PART", "BURST", "MODE"},
            user : User \cup {None},
            chan : Chan \cup {None},
            modes : SUBSET Status]

Allocated == {c \in Chan : name[c] # None}

Known(n) == byName[Fold[n]] # None

Free(k) == proc = "up" /\ handler.kind = k

(* chanusers_ison asks the side it believes to be shorter. *)
IsOn(u, c) == IF channelcount[u] < usercount[c]
                THEN c \in channels[u]
                ELSE u \in users[c]

(* Definitions marked Mutant are bugs that the definition after them could *)
(* have had, and that some property notices.                               *)

(* Mutant: the count moves for a member, too. *)
ChannelAddUserAgain(u, c) ==
  /\ users' = [users EXCEPT ![c] = @ \cup {u}]
  /\ usercount' = [usercount EXCEPT ![c] = @ + 1]

(* Mutant: who leaves keeps the status. *)
ChannelsDelUserOnly(u, cs) ==
  /\ users' = [c \in Chan |-> IF c \in cs THEN users[c] \ {u} ELSE users[c]]
  /\ usercount' = [c \in Chan |-> IF c \in cs /\ u \in users[c]
                                    THEN usercount[c] - 1 ELSE usercount[c]]
  /\ UNCHANGED <<ops, voices>>

(* The four one-sided updates of chanusers.c, on a user u and a set of     *)
(* channels cs: a count moves only when the set did change.                *)
ChannelAddUser(u, c) ==
  /\ users' = [users EXCEPT ![c] = @ \cup {u}]
  /\ usercount' = [usercount EXCEPT ![c] = IF u \in users[c] THEN @ ELSE @ + 1]

ChannelsDelUser(u, cs) ==
  /\ users' = [c \in Chan |-> IF c \in cs THEN users[c] \ {u} ELSE users[c]]
  /\ usercount' = [c \in Chan |-> IF c \in cs /\ u \in users[c]
                                    THEN usercount[c] - 1 ELSE usercount[c]]
  /\ ops' = [c \in Chan |-> IF c \in cs THEN ops[c] \ {u} ELSE ops[c]]
  /\ voices' = [c \in Chan |-> IF c \in cs THEN voices[c] \ {u} ELSE voices[c]]

UserAddChannel(u, c) ==
  /\ channels' = [channels EXCEPT ![u] = @ \cup {c}]
  /\ channelcount' = [channelcount EXCEPT
                        ![u] = IF c \in channels[u] THEN @ ELSE @ + 1]

UserDelChannel(u, c) ==
  /\ channels' = [channels EXCEPT ![u] = @ \ {c}]
  /\ channelcount' = [channelcount EXCEPT
                        ![u] = IF c \in channels[u] THEN @ - 1 ELSE @]

(* Mutant: only the channel forgets. *)
LeaveChannel(u, c) == ChannelsDelUser(u, {c}) /\ UNCHANGED userVars

(* chanusers_leave *)
Leave(u, c) == ChannelsDelUser(u, {c}) /\ UserDelChannel(u, c)

-----------------------------------------------------------------------------
Init ==
  /\ proc = "up"
  /\ handler = Idle
  /\ live = {} /\ freed = {}
  /\ name = [c \in Chan |-> None]
  /\ byName = [n \in Name |-> None]
  /\ users = [c \in Chan |-> {}] /\ usercount = [c \in Chan |-> 0]
  /\ ops = [c \in Chan |-> {}] /\ voices = [c \in Chan |-> {}]
  /\ channels = [u \in User |-> {}] /\ channelcount = [u \in User |-> 0]

(* Mutant: the block is not zeroed. *)
AddUserDirty(u) ==
  /\ Free("none") /\ u \notin live
  /\ live' = live \cup {u}
  /\ UNCHANGED <<proc, handler, freed, indexVars, chanVars, userVars>>

(* NICK (new user): hNICK2 calls add_user, whose block is zeroed. *)
AddUser(u) ==
  /\ Free("none") /\ u \notin live
  /\ live' = live \cup {u}
  /\ channels' = [channels EXCEPT ![u] = {}]
  /\ channelcount' = [channelcount EXCEPT ![u] = 0]
  /\ UNCHANGED <<proc, handler, freed, indexVars, chanVars>>

(* QUIT and KILL: del_user frees the block and leaves every channel alone. *)
DelUser(u) ==
  /\ Free("none") /\ u \in live
  /\ live' = live \ {u}
  /\ freed' = freed \cup {u}
  /\ UNCHANGED <<proc, handler, indexVars, chanVars, userVars>>

(* Mutant: the name is looked up as it was sent. *)
JoinUnfolded(u, n) ==
  /\ Free("none") /\ u \in live /\ Known(n)
  /\ ChannelAddUser(u, byName[n])
  /\ UserAddChannel(u, byName[n])
  /\ UNCHANGED <<proc, handler, heapVars, indexVars, ops, voices>>

(* JOIN of a channel that is known: hJOIN, chanusers_join. *)
Join(u, n) ==
  /\ Free("none") /\ u \in live /\ Known(n)
  /\ ChannelAddUser(u, byName[Fold[n]])
  /\ UserAddChannel(u, byName[Fold[n]])
  /\ UNCHANGED <<proc, handler, heapVars, indexVars, ops, voices>>

(* JOIN 0: chanusers_join0 takes u off every channel it lists, drops the   *)
(* list, and asserts a count that nothing has changed.                     *)
Join0(u) ==
  /\ Free("none") /\ u \in live
  /\ ChannelsDelUser(u, channels[u])
  /\ channels' = [channels EXCEPT ![u] = {}]
  /\ proc' = IF channelcount[u] = 0 THEN "up" ELSE "assert_join0"
  /\ UNCHANGED <<handler, heapVars, indexVars, channelcount>>

(* Mutant: only the user forgets. *)
KickUserSide(u, n) ==
  /\ Free("none") /\ u \in live /\ Known(n)
  /\ UserDelChannel(u, byName[Fold[n]])
  /\ UNCHANGED <<proc, handler, heapVars, indexVars, chanVars>>

(* KICK: hKICK; the kicked user need not be a member. *)
Kick(u, n) ==
  /\ Free("none") /\ u \in live /\ Known(n)
  /\ Leave(u, byName[Fold[n]])
  /\ UNCHANGED <<proc, handler, heapVars, indexVars>>

(* CLEARMODE: channel_apply_clearmode frees the sets it is told to. *)
ClearMode(n, ms) ==
  /\ Free("none") /\ Known(n)
  /\ ops' = IF "o" \in ms THEN [ops EXCEPT ![byName[Fold[n]]] = {}] ELSE ops
  /\ voices' = IF "v" \in ms THEN [voices EXCEPT ![byName[Fold[n]]] = {}]
                             ELSE voices
  /\ UNCHANGED <<proc, handler, heapVars, indexVars, users, usercount, userVars>>

-----------------------------------------------------------------------------
(* The last entry of a list is done, or the list was empty. *)
End ==
  /\ proc = "up" /\ handler # Idle
  /\ handler' = Idle
  /\ UNCHANGED <<proc, heapVars, indexVars, chanVars, userVars>>

(* PART: hPART walks the names and returns at the first it does not know. *)
PartBegin(u) ==
  /\ Free("none") /\ u \in live
  /\ handler' = [Idle EXCEPT !.kind = "PART", !.user = u]
  /\ UNCHANGED <<proc, heapVars, indexVars, chanVars, userVars>>

PartEntry(n) ==
  /\ Free("PART") /\ Known(n)
  /\ Leave(handler.user, byName[Fold[n]])
  /\ UNCHANGED <<proc, handler, heapVars, indexVars>>

(* CREATE: hCREATE, for each name, deletes the channel if there is one,    *)
(* adds it anew, joins the creator and ops it.                             *)
CreateBegin(u) ==
  /\ Free("none") /\ u \in live
  /\ handler' = [Idle EXCEPT !.kind = "CREATE", !.user = u]
  /\ UNCHANGED <<proc, heapVars, indexVars, chanVars, userVars>>

(* add_channel(n) at block c, then chanusers_join and +o for the creator u *)
(* in that zeroed block.                                                   *)
FillChannel(c, n, u) ==
  /\ users' = [users EXCEPT ![c] = {u}]
  /\ usercount' = [usercount EXCEPT ![c] = 1]
  /\ ops' = [ops EXCEPT ![c] = {u}]
  /\ voices' = [voices EXCEPT ![c] = {}]

(* Mutant: the index is keyed by the name as it was sent. *)
CreateNewUnfolded(c, n) ==
  /\ Free("CREATE") /\ ~ Known(n) /\ c \notin Allocated
  /\ name' = [name EXCEPT ![c] = n]
  /\ byName' = [byName EXCEPT ![n] = c]
  /\ FillChannel(c, n, handler.user)
  /\ UserAddChannel(handler.user, c)
  /\ UNCHANGED <<proc, handler, heapVars>>

CreateNew(c, n) ==
  /\ Free("CREATE") /\ ~ Known(n) /\ c \notin Allocated
  /\ name' = [name EXCEPT ![c] = n]
  /\ byName' = [byName EXCEPT ![Fold[n]] = c]
  /\ FillChannel(c, n, handler.user)
  /\ UserAddChannel(handler.user, c)
  /\ UNCHANGED <<proc, handler, heapVars>>

(* The old channel's block is freed before the new one is allocated, so c  *)
(* may be the same address.  del_channel removes the index entry under the *)
(* name as it was sent, not folded.                                        *)
CreateOver(c, n) ==
  LET old == byName[Fold[n]]
      u == handler.user
      detached == [w \in User |-> IF w \in users[old] THEN channels[w] \ {old}
                                                      ELSE channels[w]]
      counts == [w \in User |-> IF w \in users[old] /\ old \in channels[w]
                                  THEN channelcount[w] - 1 ELSE channelcount[w]]
  IN /\ Free("CREATE") /\ Known(n)
     /\ c = old \/ c \notin Allocated
     /\ name' = [name EXCEPT ![old] = None, ![c] = n]
     /\ byName' = [byName EXCEPT ![name[old]] = None, ![Fold[n]] = c]
     /\ FillChannel(c, n, u)
     /\ channels' = [detached EXCEPT ![u] = @ \cup {c}]
     /\ channelcount' = [counts EXCEPT
                           ![u] = IF c \in detached[u] THEN @ ELSE @ + 1]
     /\ UNCHANGED <<proc, handler, heapVars>>

(* chanusers_del_channel follows the pointers in users; if one of them     *)
(* dangles it may still find the old bytes (CreateOver) or anything else.  *)
CreateOverDangling(n) ==
  /\ Free("CREATE") /\ Known(n)
  /\ ~ users[byName[Fold[n]]] \subseteq live
  /\ proc' = "undefined"
  /\ UNCHANGED <<handler, heapVars, indexVars, chanVars, userVars>>

-----------------------------------------------------------------------------
(* BURST: hBURST finds or adds the channel and joins the listed users.  An *)
(* entry without a :modes part gets the modes of the entry before it.      *)
BurstBegin(n) ==
  /\ Free("none") /\ Known(n)
  /\ handler' = [Idle EXCEPT !.kind = "BURST", !.chan = byName[Fold[n]]]
  /\ UNCHANGED <<proc, heapVars, indexVars, chanVars, userVars>>

BurstBeginNew(c, n) ==
  /\ Free("none") /\ ~ Known(n) /\ c \notin Allocated
  /\ name' = [name EXCEPT ![c] = n]
  /\ byName' = [byName EXCEPT ![Fold[n]] = c]
  /\ users' = [users EXCEPT ![c] = {}]
  /\ usercount' = [usercount EXCEPT ![c] = 0]
  /\ ops' = [ops EXCEPT ![c] = {}]
  /\ voices' = [voices EXCEPT ![c] = {}]
  /\ handler' = [Idle EXCEPT !.kind = "BURST", !.chan = c]
  /\ UNCHANGED <<proc, heapVars, userVars>>

BurstEntry(u, ms) ==
  LET c == handler.chan
      modes == IF ms = {} THEN handler.modes ELSE ms
  IN /\ Free("BURST") /\ u \in live
     /\ ChannelAddUser(u, c)
     /\ UserAddChannel(u, c)
     /\ ops' = [ops EXCEPT ![c] = IF "o" \in modes THEN @ \cup {u} ELSE @]
     /\ voices' = [voices EXCEPT ![c] = IF "v" \in modes THEN @ \cup {u} ELSE @]
     /\ handler' = [handler EXCEPT !.modes = modes]
     /\ UNCHANGED <<proc, heapVars, indexVars>>

(* MODE and OPMODE on a channel: one step for each +o -o +v -v, which      *)
(* channel_plsprefix and channel_mnsprefix carry out.                      *)
ModeBegin(n) ==
  /\ Free("none") /\ Known(n)
  /\ handler' = [Idle EXCEPT !.kind = "MODE", !.chan = byName[Fold[n]]]
  /\ UNCHANGED <<proc, heapVars, indexVars, chanVars, userVars>>

PlsPrefix(u, m) ==
  /\ Free("MODE") /\ u \in live /\ IsOn(u, handler.chan)
  /\ ops' = IF m = "o" THEN [ops EXCEPT ![handler.chan] = @ \cup {u}] ELSE ops
  /\ voices' = IF m = "v" THEN [voices EXCEPT ![handler.chan] = @ \cup {u}]
                          ELSE voices
  /\ UNCHANGED <<proc, handler, heapVars, indexVars, users, usercount, userVars>>

MnsPrefix(u, m) ==
  /\ Free("MODE") /\ u \in live /\ IsOn(u, handler.chan)
  /\ ops' = IF m = "o" THEN [ops EXCEPT ![handler.chan] = @ \ {u}] ELSE ops
  /\ voices' = IF m = "v" THEN [voices EXCEPT ![handler.chan] = @ \ {u}]
                          ELSE voices
  /\ UNCHANGED <<proc, handler, heapVars, indexVars, users, usercount, userVars>>

(* assert(chanusers_ison(u, c)) in both of them *)
PrefixAssert(u) ==
  /\ Free("MODE") /\ u \in live /\ ~ IsOn(u, handler.chan)
  /\ proc' = "assert_prefix"
  /\ UNCHANGED <<handler, heapVars, indexVars, chanVars, userVars>>

-----------------------------------------------------------------------------
Next ==
  \/ End
  \/ \E u \in User : \/ AddUser(u) \/ DelUser(u) \/ Join0(u)
                     \/ PartBegin(u) \/ CreateBegin(u) \/ PrefixAssert(u)
                     \/ \E ms \in SUBSET Status : BurstEntry(u, ms)
                     \/ \E m \in Status : PlsPrefix(u, m) \/ MnsPrefix(u, m)
  \/ \E u \in User, n \in Name : Join(u, n) \/ Kick(u, n)
  \/ \E n \in Name : \/ PartEntry(n) \/ CreateOverDangling(n)
                     \/ BurstBegin(n) \/ ModeBegin(n)
                     \/ \E ms \in SUBSET Status : ClearMode(n, ms)
                     \/ \E c \in Chan : \/ CreateNew(c, n) \/ CreateOver(c, n)
                                        \/ BurstBeginNew(c, n)

Spec == Init /\ [][Next]_vars

-----------------------------------------------------------------------------
TypeOK ==
  /\ proc \in Proc
  /\ handler \in Handler
  /\ live \subseteq User /\ freed \subseteq User
  /\ name \in [Chan -> Name \cup {None}]
  /\ byName \in [Name -> Chan \cup {None}]
  /\ users \in [Chan -> SUBSET User] /\ usercount \in [Chan -> Int]
  /\ ops \in [Chan -> SUBSET User] /\ voices \in [Chan -> SUBSET User]
  /\ channels \in [User -> SUBSET Chan] /\ channelcount \in [User -> Int]

(* A user on a channel's side of the relation that no longer has it on its *)
(* own side can only come from del_user: every other handler keeps both    *)
(* sides in step, so the block has been freed since.                       *)
AsymmetryOnlyFromDelUser ==
  \A c \in Allocated : \A u \in users[c] :
    (proc # "assert_join0" /\ u \notin freed) => u \in live /\ c \in channels[u]

(* What a user lists is true: a channel it lists is allocated and lists it *)
(* back, so chanusers_ison never says yes by the user's side alone and     *)
(* JOIN 0 never follows a pointer to a freed channel.                      *)
UserSideSound ==
  \A u \in live : \A c \in channels[u] : c \in Allocated /\ u \in users[c]

(* Channel status is never held by somebody who is not on the channel,     *)
(* whichever side chanusers_ison happened to look at.                      *)
StatusNeedsMembership ==
  \A c \in Allocated : ops[c] \cup voices[c] \subseteq users[c]

(* The counts chanusers_ison compares are the sizes of the sets they stand *)
(* for, as long as the process runs.                                       *)
CountsExact ==
  proc # "assert_join0" =>
    /\ \A c \in Allocated : usercount[c] = Cardinality(users[c])
    /\ \A u \in live : channelcount[u] = Cardinality(channels[u])

(* The index and the allocated channels are one-to-one, although           *)
(* del_channel removes the entry under a name that is not folded.          *)
IndexExact ==
  /\ \A k \in Name : byName[k] # None =>
        byName[k] \in Allocated /\ Fold[name[byName[k]]] = k
  /\ \A c \in Allocated : byName[Fold[name[c]]] = c

(* A running list handler never holds a pointer to a freed block. *)
HandlerPointersLive ==
  /\ handler.kind \in {"CREATE", "PART"} => handler.user \in live
  /\ handler.kind \in {"BURST", "MODE"} => handler.chan \in Allocated

(* The relation as the users' side has it, by channel key. *)
View == {p \in live \X Name :
           \E c \in channels[p[1]] : name[c] # None /\ Fold[name[c]] = p[2]}

Promise == INSTANCE Membership WITH Key <- Name, alive <- live, member <- View

(* Seen from the users' side, every handler makes exactly the change its   *)
(* message announces: nobody joins, stays or leaves unasked.               *)
ImplementsMembership == Promise!Spec

(* What the head of chanusers.c says: the relation is managed in both      *)
(* ways, so the two sides agree on every member.                           *)
BothWays ==
  proc = "up" =>
    \A c \in Allocated : \A u \in users[c] : u \in live /\ c \in channels[u]

(* channels.c, plsprefix and mnsprefix: assert(chanusers_ison(u, c)) *)
PrefixAssertHolds == proc # "assert_prefix"

=============================================================================
