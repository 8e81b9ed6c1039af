-------------------------------- MODULE Link --------------------------------
(***************************************************************************)
(* From the start of the program to the loading of its modules: the        *)
(* configuration file, the greeting, the servers, the end of the two       *)
(* bursts, the hooks, and the clients the program makes for itself.        *)
(*                                                                         *)
(* What the program sends it handles itself before send_raw returns, so an *)
(* action that sends has also done what its line does.                     *)
(***************************************************************************)
EXTENDS Lines

CONSTANTS
  Me, Uplink,      \* numerics of our server and of the uplink
  Snum,            \* [0..4095 -> two-digit numerics]: base64, padded
  OwnNumeric,      \* the numerics of our users, in order
  ConfigFile,      \* configuration files: sequences of lines
  DebugChan,       \* BOTDEBUGCHAN
  BotAccount       \* BOTNICK

ASSUME OwnAreUsers == OwnNumeric \in Seq(User) /\ {Me, Uplink} \subseteq Server /\ DebugChan \in Chan
Digits == 0..4095   \* what two digits can say
ASSUME NumericsAreServers == Snum \in [Digits -> Server]

VARIABLES
  me, uplink,
  opername,     \* the uplink has registered 'o' as a mode with parameter
  hooks,        \* [names -> sets of functions]
  modules,      \* names in the order of module_register
  lastnumeric,  \* me->lastnumeric, as an index of OwnNumeric; 0 is behind the last
  bot           \* the client of the Lua module

linkVars == <<me, uplink, opername, hooks, modules, lastnumeric, bot>>

(* What init hooks: module_loadAll waits for onregistered, and init_modes   *)
(* hooks the functions of the mode buffers, whose work is in ModeBuf.      *)
OwnHooks ==
  [ontick |-> {"mode_ontick"}, onregistered |-> {"module_loadAll"}, onchanmsg |-> {}, onprivmsg |-> {},
   onprivnotc |-> {}, onpart |-> {}, onquit |-> {},
   onuserdel |-> {"mode_flushmode_deletion"}, onserverdel |-> {"mode_flushmode_deletion"}]

(* init *)
LinkInit ==
  /\ me = None /\ uplink = None /\ opername = FALSE
  /\ hooks = OwnHooks
  /\ modules = <<>> /\ lastnumeric = 0 /\ bot = None

registered == uplink # None

-----------------------------------------------------------------------------
config_set(data, section, key, value) ==
  IF value = "" THEN data ELSE (<<section, key>> :> value) @@ data

(* load_config.  A line is blank (or a comment), a section header, a pair  *)
(* of key and value, or a key with neither '=' nor ' ' behind it.  For a   *)
(* header without a name strtok returns the end of the line, and the       *)
(* section is called by what stands in front of that.                      *)
parse_configline(s, line) ==
  CASE s.died -> s
    [] ~s.died /\ line.kind = "bare" -> [s EXCEPT !.died = TRUE]   \* strpbrk gives NULL
    [] ~s.died /\ line.kind = "section" -> [s EXCEPT !.section = IF line.name = "" THEN "]" ELSE line.name]
    [] ~s.died /\ line.kind = "pair" -> [s EXCEPT !.data = config_set(@, s.section, line.key, line.value)]
    [] OTHER -> s

load_config(file) ==
  FoldLeft(parse_configline, [section |-> "core", data |-> <<>>, died |-> FALSE], file)

config_get(config, section, key) ==
  IF <<section, key>> \in DOMAIN config.data THEN config.data[<<section, key>>] ELSE None

(* base64_encode_padded with two digits. *)
snum2str(n) == Snum[n % 4096]

(* add_server: the first one is ours, the second is the uplink. *)
add_server(numeric, prot) ==
  /\ protocol' = [protocol EXCEPT ![numeric] = prot]
  /\ me' = IF me = None THEN numeric ELSE me
  /\ uplink' = IF me = None \/ registered THEN uplink ELSE numeric
  /\ UNCHANGED <<proc, there, opers, account, channel>>

(* main up to its loop: net_connect and net_greet, whose SERVER line comes *)
(* back and makes the first server ours.                                   *)
Startup(file) ==
  LET config == load_config(file)
      numeric == config_get(config, "core.server", "numeric")
      needed == {<<"core.uplink", k>> : k \in {"host", "port", "pass"}}
                \cup {<<"core.server", k>> : k \in {"name", "description"}}
  IN /\ proc = "up" /\ me = None
     /\ \/ /\ config.died \/ numeric = None   \* strtol reads NULL
           /\ Dies("config") /\ UNCHANGED linkVars
        \/ /\ ~config.died /\ numeric # None   \* or nobody answers
           /\ Dies("exit") /\ UNCHANGED linkVars
        \/ /\ ~config.died /\ numeric # None
           /\ needed \subseteq DOMAIN config.data /\ strtol(numeric) # 0
           /\ add_server(snum2str(strtol(numeric)), "J10")
           /\ UNCHANGED <<opername, hooks, modules, lastnumeric, bot>>
     /\ UNCHANGED deepest

-----------------------------------------------------------------------------
(* One letter of the flags of a server.  server_modehook, for n of the     *)
(* uplink, decides whether 'o' has a parameter; the list of arguments is   *)
(* NULL, and mode_apply reads it for a mode with parameter.                *)
ServerLetter(s, mc) ==
  CASE mc \in {"+", "-"} -> [s EXCEPT !.pls = (mc = "+")]
    [] mc = "n" /\ s.ofUplink -> [s EXCEPT !.opername = s.pls]
    [] mc = "o" /\ s.pls /\ s.opername -> [s EXCEPT !.died = TRUE]
    [] OTHER -> s

(* hSERVER.  Who comes when there is no uplink yet becomes it. *)
hSERVER(l, m) ==
  LET s == FoldLeft(ServerLetter,
                    [pls |-> TRUE, opername |-> opername, ofUplink |-> ~registered, died |-> FALSE],
                    Spell[WordOf(l, m, 7)])
  IN /\ l.token = "SERVER"
     /\ IF s.died THEN Dies("flags") /\ UNCHANGED linkVars
        ELSE /\ add_server(WordOf(l, m, 6), WordOf(l, m, 5))
             /\ opername' = s.opername
             /\ UNCHANGED <<hooks, modules, lastnumeric, bot>>
     /\ UNCHANGED deepest

(* hEND_OF_BURST.  Our own end and acknowledgement come back: the former   *)
(* is ignored, the latter ends the burst of our own server.                *)
hEND_OF_BURST(l) ==
  /\ l.token = "END_OF_BURST" /\ l.from \in Linked /\ l.from # me
  /\ IF protocol[l.from] # "J10" THEN Dies("protocol")
     ELSE /\ protocol' = IF l.from = uplink THEN [protocol EXCEPT ![uplink] = "P10", ![me] = "P10"]
                         ELSE [protocol EXCEPT ![l.from] = "P10"]
          /\ UNCHANGED <<proc, there, opers, account, channel>>
  /\ UNCHANGED linkVars /\ UNCHANGED deepest

(* hPING.  The answer has a list of four words. *)
hPING(l) ==
  /\ l.token = "PING" /\ l.from \in Linked
  /\ deepest' = 3
  /\ UNCHANGED netVars /\ UNCHANGED linkVars

hERROR(l) ==
  /\ l.token = "ERROR" /\ Dies("exit")
  /\ UNCHANGED linkVars /\ UNCHANGED deepest

-----------------------------------------------------------------------------
(* server_freenum for us: the first free numeric after the last one, or 0  *)
(* if there is none, when the search does not end.                         *)
server_freenum(us, after) ==
  LET n == Len(OwnNumeric)
      index(k) == ((after + k - 1) % n) + 1
      free == {k \in 1..n : OwnNumeric[index(k)] \notin us}
  IN IF free = {} THEN 0 ELSE index(CHOOSE k \in free : \A j \in free : k <= j)

(* module_join_channel on a channel that may be there; with auto_op. *)
JoinOwn(chans, c, u) ==
  IF chans[c] = None THEN [chans EXCEPT ![c] = Created(u, 1)]
  ELSE [chans EXCEPT ![c].users = @ \cup {u}, ![c].ops = @ \cup {u}]

(* module_create_client with the modes of the bot, which has an account    *)
(* and is an operator; server_add_user notes its numeric.                  *)
module_create_client(i) ==
  LET n == OwnNumeric[i]
  IN /\ there' = there \cup {n} /\ opers' = opers \cup {n}
     /\ account' = [account EXCEPT ![n] = BotAccount]
     /\ lastnumeric' = i /\ bot' = n

(* luabase_load and, of load, "onprivmsg" of luacontrol.c. *)
LuaHooks ==
  [ontick |-> {"luabase_ontick"}, onregistered |-> {}, onchanmsg |-> {"luabase_onchanmsg"},
   onprivmsg |-> {"onprivmsg", "luabase_onprivmsg"}, onprivnotc |-> {"luabase_onprivnotc"},
   onpart |-> {"luabase_onpart"}, onquit |-> {"luabase_onquit"}, onuserdel |-> {}, onserverdel |-> {}]

luabase_load == hooks' = [h \in DOMAIN hooks |-> hooks[h] \cup LuaHooks[h]]

module_register(name) == modules' = Append(modules, name)

(* load of the Lua module. *)
load ==
  LET i == server_freenum(there, lastnumeric)
  IN IF i = 0 THEN Dies("spin") /\ UNCHANGED linkVars /\ UNCHANGED deepest
     ELSE /\ module_create_client(i)
          /\ \E chans \in Introduced(channel, OwnNumeric[i]) :
               channel' = JoinOwn(chans, DebugChan, OwnNumeric[i])
          /\ luabase_load /\ module_register("lua")
          /\ deepest' = 3
          /\ UNCHANGED <<proc, protocol, me, uplink, opername>>

(* module_loadAll: lua.so may not be there to open, and tcl.so is not, as  *)
(* its source does not compile.                                            *)
module_loadAll == load \/ (UNCHANGED netVars /\ UNCHANGED linkVars /\ UNCHANGED deepest)

(* Mutant: the acknowledgement of any other server will do. *)
hEOB_ACKAny(l) ==
  /\ l.token = "EOB_ACK" /\ l.from \in Linked \ {me}
  /\ IF "module_loadAll" \in hooks["onregistered"]
     THEN module_loadAll
     ELSE UNCHANGED netVars /\ UNCHANGED linkVars /\ UNCHANGED deepest

(* hEOB_ACK *)
hEOB_ACK(l) ==
  /\ l.token = "EOB_ACK" /\ l.from \in Linked \ {me}
  /\ IF l.from = uplink /\ "module_loadAll" \in hooks["onregistered"]
     THEN module_loadAll
     ELSE UNCHANGED netVars /\ UNCHANGED linkVars /\ UNCHANGED deepest

(* net_read finds the link closed. *)
LinkCloses ==
  /\ proc = "up" /\ me # None /\ Dies("exit")
  /\ UNCHANGED linkVars /\ UNCHANGED deepest

HandleLink(l, m) == hSERVER(l, m) \/ hEND_OF_BURST(l) \/ hPING(l) \/ hERROR(l) \/ hEOB_ACK(l)

=============================================================================
