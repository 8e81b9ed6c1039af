-------------------------------- MODULE Lines --------------------------------
(***************************************************************************)
(* The handlers of lines that carry modes or join channels: BURST, JOIN,   *)
(* CREATE, MODE, OPMODE, CLEARMODE, NICK and ACCOUNT, and mode_apply with  *)
(* its hooks.  Users are named by their numeric and channels by their      *)
(* name; what becomes of freed blocks is the matter of ChanUsers and Users.*)
(*                                                                         *)
(* Two things outlive a line: the static list greed of arrange_args, whose *)
(* cells beyond the count keep the words of earlier lines, and the stack   *)
(* frame of handle_input, where raw.v[raw.c] is whatever was there.  Both  *)
(* point into buffers that have been overwritten since, so the words they  *)
(* name are any words, and the latter may point nowhere.                   *)
(***************************************************************************)
EXTENDS Dispatch

CONSTANTS
  User, Chan, Server,   \* numerics of users and of servers, names of channels
  NickOf,               \* [nicknames -> User]
  ValueOf,              \* [words that are numbers -> Nat]
  Spell,                \* [words of mode letters -> sequences of letters]
  MaskList,             \* [words that start with % -> sets of bans]
  UserList,             \* [user lists of a BURST -> sequences of [unum, status]]
  Line,                 \* the lines: [from, token, words]
  Stray,                \* what stale pointers name: words, or
  Wild,                 \* no memory of ours
  None

LineWords == UNION {Range(l.words) : l \in Line}

ASSUME NoneIsNoWord ==
  None \notin User \cup Chan \cup Server \cup DOMAIN ValueOf \cup LineWords \cup Stray
ASSUME LinesAreOfTokens ==
  \A l \in Line : l.token \in DOMAIN rawrules /\ l.words \in Seq(LineWords)
ASSUME WordsAreRead ==
  ValueOf \in [DOMAIN ValueOf -> Nat] /\ \A w \in DOMAIN Spell : Spell[w] \in Seq(STRING)

(* Numerics and names of channels where a handler does not look them up.   *)
ASSUME LinesNameThings == \A l \in Line :
  LET n == Len(l.words)
  IN /\ l.token \in {"BURST", "CREATE"} /\ n >= 1 => l.words[1] \in Chan
     /\ l.token = "NICK" /\ n >= 2 => l.words[n - 1] \in User
     /\ l.token = "SERVER" /\ n >= 6 => l.words[5] \in {"J10", "P10"} /\ l.words[6] \in Server

Chan0 == "0"

VARIABLES
  proc,       \* "up", or what the process died of
  there,      \* users that have been introduced
  opers,
  account,
  channel,    \* [Chan -> struct channel, or None]
  protocol,   \* [Server -> "J10", "P10", or None for one that is not there]
  deepest     \* cells of greed.v that have been written, up to three

netVars == <<proc, there, opers, account, channel, protocol>>

NewChannel(ts) == [ts |-> ts, mode |-> {}, key |-> None, limit |-> 0, bans |-> {},
                   users |-> {}, ops |-> {}, voices |-> {}]

LinesInit ==
  /\ proc = "up" /\ deepest = 0 /\ there = {} /\ opers = {}
  /\ protocol = [s \in Server |-> None]
  /\ account = [u \in User |-> None]
  /\ channel = [c \in Chan |-> None]

Existing == {c \in Chan : channel[c] # None}
Linked == {s \in Server : protocol[s] # None}

(* convert.c: convert_unum and its like find or parse the word, when the   *)
(* users us, the channels cs and the servers ss are there.                 *)
Known(us, cs, ss) ==
  [unum |-> us, snum |-> ss, nick |-> {nick \in DOMAIN NickOf : NickOf[nick] \in us},
   chan |-> cs \cup {Chan0}, uint |-> DOMAIN ValueOf, long |-> DOMAIN ValueOf, time |-> DOMAIN ValueOf]

MatchIn(us, cs, ss, l, past) ==
  Match(l.token, Append(l.words, past), Known(us, cs, ss))

-----------------------------------------------------------------------------
(* mode_apply.  The tables of modes.c: SetParam take a parameter with +,   *)
(* UnsetParam with -.  hasmode_list and hasmode_usermode share a bit with  *)
(* hasmode_setparam, so a mode with a parameter never gets its bit.        *)
Flags == [channel |-> {"n", "m"}, user |-> {"O", "i"}]
SetParam == [channel |-> {"b", "k", "l", "o", "v"}, user |-> {"o", "h", "r"}]
UnsetParam == [channel |-> {"k", "o", "v"}, user |-> {}]

strtol(word) == IF word \in DOMAIN ValueOf THEN ValueOf[word] ELSE 0

(* Mutant: every mode that is valid gets its bit. *)
SetBitAll(s, kind, m) == IF s.pls THEN s.mode \cup {m} ELSE s.mode \ {m}

SetBit(s, kind, m) ==
  IF m \in SetParam[kind] THEN s.mode ELSE IF s.pls THEN s.mode \cup {m} ELSE s.mode \ {m}

(* channel_plsban and channel_mnsban *)
Banned(bans, pls, mask) == IF pls THEN bans \cup {mask} ELSE bans \ {mask}

(* channel_modehook, s.c is the channel.  strcmp, strtol and the look-up   *)
(* of a numeric do not survive a parameter that is NULL, and +-l reads its *)
(* parameter in both cases.  The case of a ban goes on with that of o and  *)
(* v, with a user if the mask can be read as the numeric of one.           *)
ChannelHook(s, m, param) ==
  LET dies(why) == [s EXCEPT !.died = why]
      status == IF m = "o" THEN s.c.ops ELSE s.c.voices
      set == IF s.pls THEN status \cup {param} ELSE status \ {param}
      absent == param \in there \ s.c.users
  IN CASE m = "k" /\ param = None -> dies("key")
       [] m = "k" /\ param # None -> [s EXCEPT !.c.key = IF s.pls THEN param ELSE None]
       [] m = "l" /\ param = None -> dies("limit")
       [] m = "l" /\ param # None -> [s EXCEPT !.c.limit = strtol(param)]
       [] m \in {"o", "v"} /\ param = None -> dies("status")
       [] m \in {"b", "o", "v"} /\ absent -> dies("prefix")
       [] m = "b" /\ param # None /\ ~absent -> [s EXCEPT !.c.bans = Banned(@, s.pls, param)]
       [] m = "o" /\ param \in there \cap s.c.users -> [s EXCEPT !.c.ops = set]
       [] m = "v" /\ param \in there \cap s.c.users -> [s EXCEPT !.c.voices = set]
       [] OTHER -> s

(* user_modehook: s.oper and s.account are those of the user. *)
UserHook(s, m, param) ==
  CASE m \in {"o", "O"} -> [s EXCEPT !.oper = s.pls]
    [] m = "r" /\ s.pls /\ param # None -> [s EXCEPT !.account = param]
    [] m = "r" /\ ~s.pls -> [s EXCEPT !.account = "0"]
    [] OTHER -> s

(* One letter of mode_apply; skip is the next parameter in rest. *)
Letter(s, kind, rest, m) ==
  LET takes == m \in (IF s.pls THEN SetParam[kind] ELSE UnsetParam[kind])
      param == IF takes /\ s.skip <= Len(rest) THEN rest[s.skip] ELSE None
      t == [s EXCEPT !.mode = SetBit(s, kind, m),
                     !.skip = IF takes /\ @ <= Len(rest) THEN @ + 1 ELSE @,
                     !.argsused = IF takes THEN @ + 1 ELSE @]
  IN IF s.died # None THEN s
     ELSE CASE m \in {"+", "-"} -> [s EXCEPT !.pls = (m = "+")]
            [] m \in Flags[kind] \cup SetParam[kind] ->
                 IF kind = "channel" THEN ChannelHook(t, m, param) ELSE UserHook(t, m, param)
            [] OTHER -> s

ModeApply(s, kind, word, rest) ==
  FoldLeft(LAMBDA t, m : Letter(t, kind, rest, m), s, IF word \in DOMAIN Spell THEN Spell[word] ELSE <<>>)

(* mode_apply starts behind the word of letters, with what the entity has. *)
Start == [pls |-> TRUE, skip |-> 2, argsused |-> 0, died |-> None, mode |-> {},
          c |-> None, oper |-> FALSE, account |-> None]

ApplyToChannel(c, word, rest) ==
  ModeApply([Start EXCEPT !.c = c, !.mode = c.mode], "channel", word, rest)
ModesApplied(s) == [s.c EXCEPT !.mode = s.mode]

-----------------------------------------------------------------------------
(* A line: l is the line, m its match, w(k) the word that became the k-th  *)
(* argument, rest the words of the greedy one.                             *)
WordOf(l, m, k) == IF m.args[k] = Absent THEN None ELSE l.words[m.args[k]]
GreedyWords(l, m) ==
  LET from == CHOOSE i \in m.rest : \A j \in m.rest : i <= j
  IN IF m.rest = {} THEN <<>> ELSE SubSeq(l.words, from, from + Cardinality(m.rest) - 1)

(* greed.v[0], which is a word of an earlier line if this one had none. *)
FirstCell(rest, stray) == IF rest # <<>> THEN rest[1] ELSE stray

Dies(why) == proc' = why /\ UNCHANGED <<there, opers, account, channel, protocol>>

(* hBURST.  cell is rest->v[nextpos]: its own or, behind the last word, an *)
(* older one, which is NULL only if there has never been one.  The modes   *)
(* of one entry hold for those after it that name none.                    *)
Statuses(list) == [i \in DOMAIN list |->
  LET given == {j \in 1..i : list[j].status # None}
  IN IF given = {} THEN {} ELSE list[CHOOSE j \in given : \A k \in given : k <= j].status]

JoinAll(c, list) ==
  LET who(P(_)) == {list[i].unum : i \in {j \in DOMAIN list : list[j].unum \in there /\ P(j)}}
      has(mc) == who(LAMBDA j : mc \in Statuses(list)[j])
  IN [c EXCEPT !.users = @ \cup who(LAMBDA j : TRUE), !.ops = @ \cup has("o"), !.voices = @ \cup has("v")]

hBURST(l, m) ==
  LET name == WordOf(l, m, 1)
      rest == GreedyWords(l, m)
      old == IF channel[name] = None THEN NewChannel(ValueOf[WordOf(l, m, 2)]) ELSE channel[name]
      moded == rest # <<>> /\ rest[1] \in DOMAIN Spell
      s == ApplyToChannel(old, IF moded THEN rest[1] ELSE None, rest)
      nextpos == IF moded THEN 1 + s.argsused ELSE 0
      empty == nextpos >= Len(rest) /\ deepest <= nextpos
      banned == rest # <<>> /\ Last(rest) \in DOMAIN MaskList /\ nextpos < Len(rest)
      c == [ModesApplied(s) EXCEPT !.bans = @ \cup (IF banned THEN MaskList[Last(rest)] ELSE {})]
      left == IF banned THEN Len(rest) - 1 ELSE Len(rest)
  IN /\ l.token = "BURST" /\ l.from \in Server /\ protocol[l.from] = "J10"
     /\ CASE s.died # None -> Dies(s.died)
          [] s.died = None /\ ~empty /\ rest # <<>> /\ nextpos + 1 # left -> Dies("burst")
          [] OTHER -> /\ channel' = [channel EXCEPT ![name] =
                            IF rest = <<>> \/ empty THEN c ELSE JoinAll(c, UserList[rest[nextpos + 1]])]
                      /\ UNCHANGED <<proc, there, opers, account, protocol>>

(* hJOIN; the counter that chanusers_join0 asserts is not lowered. *)
hJOIN(l, m) ==
  /\ l.token = "JOIN" /\ l.from \in there
  /\ LET c == WordOf(l, m, 1)
     IN IF c # Chan0
        THEN /\ channel' = [channel EXCEPT ![c].users = @ \cup {l.from}]
             /\ UNCHANGED <<proc, there, opers, account, protocol>>
        ELSE IF \E d \in Existing : l.from \in channel[d].users THEN Dies("join0")
        ELSE UNCHANGED netVars

(* A channel made by u, who is its operator. *)
Created(u, ts) == [NewChannel(ts) EXCEPT !.users = {u}, !.ops = {u}]

(* hCREATE: a channel that is there already is deleted first. *)
hCREATE(l, m) ==
  /\ l.token = "CREATE" /\ l.from \in there
  /\ channel' = [channel EXCEPT ![WordOf(l, m, 1)] = Created(l.from, ValueOf[WordOf(l, m, 2)])]
  /\ UNCHANGED <<proc, there, opers, account, protocol>>

(* Mutant: the timestamp of the line is taken as it is. *)
OlderAny(mine, theirs) == IF theirs = None THEN mine ELSE ValueOf[theirs]

Older(mine, theirs) ==
  IF theirs = None THEN mine ELSE IF ValueOf[theirs] < mine THEN ValueOf[theirs] ELSE mine

(* channel_apply_mode, for the channel c with the timestamp ts. *)
SetChannel(c, ts, rest, stray) ==
  LET s == ApplyToChannel([channel[c] EXCEPT !.ts = ts], FirstCell(rest, stray), rest)
  IN /\ proc' = IF s.died = None THEN proc ELSE s.died
     /\ channel' = [channel EXCEPT ![c] = ModesApplied(s)]
     /\ UNCHANGED <<there, opers, account, protocol>>

hMODE2(l, m, stray) ==
  LET c == WordOf(l, m, 1)
  IN /\ l.token = "MODE" /\ m.variant = 2 /\ c \in Existing
     /\ SetChannel(c, Older(channel[c].ts, WordOf(l, m, 3)), GreedyWords(l, m), stray)

(* hOPMODE, which does not look at the timestamp. *)
hOPMODE(l, m, stray) ==
  LET c == WordOf(l, m, 1)
  IN l.token = "OPMODE" /\ c \in Existing /\ SetChannel(c, channel[c].ts, GreedyWords(l, m), stray)

(* channel_apply_clearmode. *)
Cleared(c, letters) ==
  LET cleared(mc, set) == IF mc \in letters THEN {} ELSE set
  IN [c EXCEPT !.ops = cleared("o", @), !.voices = cleared("v", @), !.bans = cleared("b", @),
               !.limit = IF "l" \in letters THEN 0 ELSE @,
               !.key = IF "k" \in letters THEN None ELSE @,
               !.mode = @ \ letters]

hCLEARMODE(l, m) ==
  LET c == WordOf(l, m, 1)
  IN /\ l.token = "CLEARMODE" /\ c \in Existing
     /\ channel' = [channel EXCEPT ![c] = Cleared(@, Range(Spell[WordOf(l, m, 2)]))]
     /\ UNCHANGED <<proc, there, opers, account, protocol>>

(* A user that is introduced: a channel may still list the freed block of  *)
(* an earlier one at its numeric, and the user may be given that block.    *)
Introduced(chans, u) ==
  LET without(c) == IF c = None THEN None
                    ELSE [c EXCEPT !.users = @ \ {u}, !.ops = @ \ {u}, !.voices = @ \ {u}]
  IN {chans, [c \in Chan |-> without(chans[c])]}

(* user_apply_mode for u. *)
SetUser(u, word, rest) ==
  LET s == ModeApply([Start EXCEPT !.oper = (u \in opers), !.account = account[u]], "user", word, rest)
  IN /\ opers' = IF s.oper THEN opers \cup {u} ELSE opers \ {u}
     /\ account' = [account EXCEPT ![u] = s.account]
     /\ there' = there \cup {u}
     /\ UNCHANGED <<proc, protocol>>

hMODE1(l, m, stray) ==
  /\ l.token = "MODE" /\ m.variant = 1 /\ l.from \in there
  /\ SetUser(NickOf[WordOf(l, m, 1)], FirstCell(GreedyWords(l, m), stray), GreedyWords(l, m))
  /\ UNCHANGED channel

(* hNICK2.  A user without modes is introduced without a word for them, so *)
(* it takes those of an earlier line; if there was none, the cell is NULL  *)
(* and mode_apply reads it.                                                *)
hNICK2(l, m, stray) ==
  LET rest == GreedyWords(l, m)
      u == WordOf(l, m, 8)
  IN /\ l.token = "NICK" /\ m.variant = 2 /\ u \notin there
     /\ IF rest = <<>> /\ deepest = 0 THEN Dies("modes")
        ELSE SetUser(u, FirstCell(rest, stray), rest) /\ channel' \in Introduced(channel, u)

hACCOUNT(l, m) ==
  /\ l.token = "ACCOUNT"
  /\ account' = [account EXCEPT ![WordOf(l, m, 1)] = WordOf(l, m, 2)]
  /\ UNCHANGED <<proc, there, opers, channel, protocol>>

(* hDESTRUCT.  Its rule names a type that does not exist, so it is given   *)
(* the word and takes it for no channel: the channel stays.                *)
hDESTRUCT(l) == l.token = "DESTRUCT" /\ UNCHANGED netVars

(* The handlers that are empty. *)
Ignored(l) == l.token \in {"PASS", "PONG", "WALLOPS", "SQUIT"} /\ UNCHANGED netVars

(* Cells of greed.v that have been written after a list of n words. *)
Deeper(n) == IF n <= deepest THEN deepest ELSE IF n > 3 THEN 3 ELSE n

HandleModes(l, m) ==
  /\ deepest' = Deeper(Cardinality(m.rest))
  /\ \/ hBURST(l, m) \/ hJOIN(l, m) \/ hCREATE(l, m) \/ hCLEARMODE(l, m) \/ hACCOUNT(l, m) \/ hDESTRUCT(l) \/ Ignored(l)
     \/ \E stray \in IF m.rest = {} THEN Stray ELSE {None} : 
          hMODE2(l, m, stray) \/ hOPMODE(l, m, stray) \/ hMODE1(l, m, stray) \/ hNICK2(l, m, stray)

-----------------------------------------------------------------------------
(* struct channel *)
Channel == [ts : Nat, mode : SUBSET (Flags.channel \cup SetParam.channel), key : LineWords \cup {None},
            limit : Nat, bans : SUBSET (LineWords \cup UNION Range(MaskList)),
            users : SUBSET User, ops : SUBSET User, voices : SUBSET User]

ASSUME NoneIsNoChannel == None \notin Channel

(* Whoever has status on a channel is on its list. *)
ChannelOK(c) == c.ops \subseteq c.users /\ c.voices \subseteq c.users

(* The mode bits of a channel are those of flags: a key, a limit, a ban or *)
(* a status never has one, however it was set (mode_set1).  mode_pushmode  *)
(* asks mode_check1 whether a change is redundant, so a script's -l or -b, *)
(* which would be applied without the parameter that channel_modehook      *)
(* reads, is never sent.                                                   *)
ParametersHaveNoBit == \A c \in Existing : channel[c].mode \subseteq Flags.channel

=============================================================================
