------------------------------- MODULE Scripts -------------------------------
(***************************************************************************)
(* The Lua module: interpreters, scripts, the clients the scripts have     *)
(* introduced, and the lines whose handlers call a hook (PRIVMSG, NOTICE,  *)
(* PART, QUIT) or take a user away (KILL, KICK from a channel).            *)
(*                                                                         *)
(* A state of the bridge is a record s.  What a call of a script does is a *)
(* set of such records: nothing, an error (which changes nothing more), or *)
(* one act of the API on clients of its own (bound: one act per call).     *)
(* The functions that push a mode are the matter of ModeBuf.               *)
(***************************************************************************)
EXTENDS Link

CONSTANTS
  Interp,       \* addresses of interpreters (bound: that many at a time)
  Script,       \* names of scripts
  CommandOf     \* [texts of messages -> <<command, script>> or <<>>]

ASSUME InterpretersAreNumbers == Interp \subseteq Nat /\ IsFiniteSet(Interp) /\ None \notin Interp
ASSUME CommandsAreOfScripts ==
  \A text \in DOMAIN CommandOf : \/ CommandOf[text] = <<>>
                                \/ CommandOf[text] \in {"load", "unload"} \X Script
ASSUME MessagesAreTexts ==
  \A l \in Line : l.token = "PRIVMSG" /\ l.words # <<>> => Last(l.words) \in DOMAIN CommandOf

VARIABLES
  open,       \* interpreters that luaL_newstate has made and lua_close not ended
  states,     \* luabase_states
  byScript,   \* luabase_states_by_script
  clients,    \* luabase_users, of which only the interpreter: [Own -> Interp, or None]
  owner       \* history: who introduced the last client and has not quit it

scriptVars == <<open, states, byScript, clients, owner>>

Own == Range(OwnNumeric)

ScriptsInit ==
  /\ open = {} /\ states = {}
  /\ byScript = [f \in Script |-> None]
  /\ clients = [n \in Own |-> None] /\ owner = [n \in Own |-> None]

Bridge ==
  [there |-> there, opers |-> opers, account |-> account, channel |-> channel, lastnumeric |-> lastnumeric,
   bot |-> bot, open |-> open, states |-> states, byScript |-> byScript, clients |-> clients,
   owner |-> owner, died |-> None]

Becomes(s) ==
  /\ proc' = IF s.died = None THEN proc ELSE s.died
  /\ there' = s.there /\ opers' = s.opers /\ account' = s.account /\ channel' = s.channel
  /\ lastnumeric' = s.lastnumeric /\ bot' = s.bot
  /\ open' = s.open /\ states' = s.states /\ byScript' = s.byScript
  /\ clients' = s.clients /\ owner' = s.owner
  /\ UNCHANGED <<protocol, deepest, me, uplink, opername, hooks, modules>>

Died(s, why) == {[s EXCEPT !.died = why]}
Then(S, Step(_)) == UNION {IF s.died = None THEN Step(s) ELSE {s} : s \in S}

-----------------------------------------------------------------------------
(* del_user.  The channels keep the freed block on their lists.            *)
Removed(s, u) ==
  [s EXCEPT !.there = @ \ {u}, !.opers = @ \ {u}, !.account[u] = None,
            !.bot = IF @ = u THEN None ELSE @]

(* Mutant: the entry of an earlier client of that numeric is kept. *)
luabase_newuserKeeps(s, L) ==
  LET i == server_freenum(s.there, s.lastnumeric)
      n == OwnNumeric[i]
  IN IF i = 0 THEN Died(s, "spin")
     ELSE {[s EXCEPT !.there = @ \cup {n}, !.lastnumeric = i, !.channel = chans, !.owner[n] = L,
                     !.clients[n] = IF @ = None THEN L ELSE @] : chans \in Introduced(s.channel, n)}

(* luabase_newuser *)
luabase_newuser(s, L) ==
  LET i == server_freenum(s.there, s.lastnumeric)
      n == OwnNumeric[i]
  IN IF i = 0 THEN Died(s, "spin")
     ELSE {[s EXCEPT !.there = @ \cup {n}, !.lastnumeric = i, !.channel = chans, !.owner[n] = L,
                     !.clients[n] = L] : chans \in Introduced(s.channel, n)}

(* luafunc_irc_localchanmsg and its like, for a client that has been       *)
(* killed: user_send takes a NULL.  For another the line comes back and is *)
(* ignored.                                                                *)
UsesKilled(s, known) == IF known \subseteq s.there THEN {} ELSE Died(s, "nouser")

(* luafunc_irc_localquituser; the handlers of irc_onquit, which run before *)
(* the user is removed, do nothing (bound).                                *)
localquituser(s, known) == {[Removed(s, n) EXCEPT !.owner[n] = None] : n \in known \cap s.there}

(* luafunc_irc_localjoin *)
localjoin(s, known) ==
  {[s EXCEPT !.channel = JoinOwn(@, c, n)] : c \in Chan, n \in known \cap s.there}

(* luabase_callluafunc and luabase_clienthook.  known are the clients the  *)
(* script has introduced and not taken away.                               *)
Call(s, L) ==
  LET known == {n \in Own : s.owner[n] = L}
  IN IF L \notin s.open THEN Died(s, "closed")
     ELSE {s} \cup luabase_newuser(s, L) \cup UsesKilled(s, known)
              \cup localquituser(s, known) \cup localjoin(s, known)

(* jtableP_iterate over luabase_states, in the order of addresses. *)
InOrder(S) == [k \in 1..Cardinality(S) |-> CHOOSE a \in S : Cardinality({b \in S : b < a}) = k - 1]
CallEach(S, L) == Then(S, LAMBDA t : Call(t, L))
CallStates(s) == FoldLeft(CallEach, {s}, InOrder(s.states))

-----------------------------------------------------------------------------
(* luabase_loadscript.  A base script that fails leaves a NULL, which is   *)
(* used; a script that fails leaves its interpreter in luabase_states; one *)
(* that was loaded before leaves its older one there.                      *)
luabase_loadscript(s, file) ==
  UNION {LET t == [s EXCEPT !.open = @ \cup {L}, !.states = @ \cup {L}]
         IN Died(t, "base") \cup {t} \cup Call([t EXCEPT !.byScript[file] = L], L) : L \in Interp \ s.open}

(* Mutant: the interpreter stays in luabase_states. *)
luabase_unloadscriptKeeps(s, file) ==
  LET L == s.byScript[file]
  IN Then(Call(s, L), LAMBDA t :
       {[t EXCEPT !.open = @ \ {L}, !.byScript[file] = None,
                  !.owner = [n \in Own |-> IF @[n] = L THEN None ELSE @[n]]]})

(* luabase_unloadscript; what onunload has not taken away stays. *)
luabase_unloadscript(s, file) ==
  LET L == s.byScript[file]
  IN Then(Call(s, L), LAMBDA t :
       {[t EXCEPT !.open = @ \ {L}, !.byScript[file] = None, !.states = @ \ {L},
                  !.owner = [n \in Own |-> IF @[n] = L THEN None ELSE @[n]]]})

(* onprivmsg of luacontrol.c with command_load and command_unload.  A bot  *)
(* that has been killed is a freed block, whose numeric may be any.        *)
Commanded(s, from, to, text) ==
  LET command == CommandOf[text]
      run == CASE command = <<>> \/ from \notin s.opers -> {s}
               [] command # <<>> /\ from \in s.opers /\ command[1] = "load" -> luabase_loadscript(s, command[2])
               [] OTHER -> IF s.byScript[command[2]] = None THEN {s} ELSE luabase_unloadscript(s, command[2])
  IN IF s.bot = to THEN run ELSE IF s.bot = None THEN {s} \cup run ELSE {s}

(* luabase_onprivmsg and luabase_onprivnotc: to is a user that is there. *)
ToClient(s, to) == IF to \in Own /\ s.clients[to] # None THEN Call(s, s.clients[to]) ELSE {s}

(* luabase_onchanmsg, by numerics. *)
CallPresent(S, c, n) ==
  LET present(t) == t.clients[n] # None /\ n \in t.there /\ n \in t.channel[c].users
  IN Then(S, LAMBDA t : IF present(t) THEN Call(t, t.clients[n]) ELSE {t})
ToChannel(s, c) == FoldLeft(LAMBDA S, n : CallPresent(S, c, n), {s}, OwnNumeric)

-----------------------------------------------------------------------------
Hooked(name) == hooks[name] # {}

(* hPRIVMSG; the functions of a hook run in the order of their addresses.  *)
hPRIVMSG(l, m) ==
  LET to == WordOf(l, m, 1)
      text == WordOf(l, m, 2)
      s == Bridge
  IN /\ l.token = "PRIVMSG" /\ l.from \in there \ Own
     /\ \E t \in CASE to \in Chan /\ ~Hooked("onchanmsg") -> {s}
                   [] to \in Chan /\ Hooked("onchanmsg") ->
                        IF to \in Existing THEN ToChannel(s, to) ELSE Died(s, "nobody")
                   [] to \notin Chan /\ ~Hooked("onprivmsg") -> {s}
                   [] OTHER ->
                        IF to \notin there THEN Died(s, "nobody")
                        ELSE Then(Commanded(s, l.from, to, text), LAMBDA r : ToClient(r, to))
                             \cup Then(ToClient(s, to), LAMBDA r : Commanded(r, l.from, to, text)) :
          Becomes(t)

(* hNOTICE *)
hNOTICE(l, m) ==
  LET to == WordOf(l, m, 1)
      s == Bridge
  IN /\ l.token = "NOTICE" /\ l.from \in there \ Own
     /\ \E t \in CASE to \in Chan \/ ~Hooked("onprivnotc") -> {s}
                   [] OTHER -> IF to \in there THEN ToClient(s, to) ELSE Died(s, "nobody") :
          Becomes(t)

(* hQUIT *)
hQUIT(l) ==
  /\ l.token = "QUIT" /\ l.from \in there
  /\ \E t \in Then(IF Hooked("onquit") THEN CallStates(Bridge) ELSE {Bridge},
                   LAMBDA r : {Removed(r, l.from)}) : Becomes(t)

(* hKILL, which calls no hook. *)
hKILL(l, m) == l.token = "KILL" /\ Becomes(Removed(Bridge, WordOf(l, m, 1)))

(* Mutant: an operator that leaves keeps its status. *)
LeavesKeepingOp(s, u, c) == [s EXCEPT !.channel[c].users = @ \ {u}, !.channel[c].voices = @ \ {u}]

(* chanusers_leave *)
Leaves(s, u, c) ==
  [s EXCEPT !.channel[c].users = @ \ {u}, !.channel[c].ops = @ \ {u}, !.channel[c].voices = @ \ {u}]

(* hPART *)
hPART(l, m) ==
  LET c == WordOf(l, m, 1)
  IN /\ l.token = "PART" /\ l.from \in there /\ c \in Existing
     /\ \E t \in Then(IF Hooked("onpart") THEN CallStates(Bridge) ELSE {Bridge},
                      LAMBDA r : {Leaves(r, l.from, c)}) : Becomes(t)

(* hKICK *)
hKICK(l, m) ==
  /\ l.token = "KICK" /\ WordOf(l, m, 1) \in Existing
  /\ Becomes(Leaves(Bridge, WordOf(l, m, 2), WordOf(l, m, 1)))

(* luabase_ontick: two functions, each in all of the interpreters.  The    *)
(* other function of this hook, mode_ontick, is the matter of ModeBuf.     *)
Tick ==
  /\ proc = "up" /\ "luabase_ontick" \in hooks["ontick"] /\ states # {}
  /\ \E t \in Then(CallStates(Bridge), CallStates) : Becomes(t)

HandleScripts(l, m) ==
  hPRIVMSG(l, m) \/ hNOTICE(l, m) \/ hQUIT(l) \/ hKILL(l, m) \/ hPART(l, m) \/ hKICK(l, m)

-----------------------------------------------------------------------------
(* The interpreters that are ticked, and those scripts are unloaded from,  *)
(* have not been closed, whatever loads fail, are repeated or are undone.  *)
InterpretersOpen == states \subseteq open /\ Range(byScript) \ {None} \subseteq states

(* The messages to a client that a script has introduced go to that script *)
(* and no other, though entries of luabase_users are never removed and     *)
(* numerics and addresses are used again.                                  *)
ClientsAnswerTheirScript == \A n \in there \cap Own : owner[n] # None => clients[n] = owner[n]

=============================================================================
