------------------------------ MODULE Services ------------------------------
(***************************************************************************)
(* The program behind its uplink: lines that arrive are matched with the   *)
(* rules of their token and handled, the main loop ticks, and the link may *)
(* close.  The uplink sends its lines in the order of the protocol: PASS,  *)
(* SERVER, its burst, END_OF_BURST, an acknowledgement of ours, and after  *)
(* its END_OF_BURST the lines of users.                                    *)
(***************************************************************************)
EXTENDS Scripts, Words

CONSTANTS
  Traffic,     \* sets of lines: what may arrive
  Handshake,   \* those among them that the uplink sends about itself
  Base         \* of the digits of a numeric: 64

ASSUME TrafficIsLines == (UNION Traffic) \cup Handshake \subseteq Line
ASSUME UplinkSpeaksForItself == \A l \in Line :
  /\ l \in Handshake => l.token \in {"PASS", "SERVER", "END_OF_BURST", "EOB_ACK"}
  /\ l.token = "SERVER" /\ l.from = None /\ Len(l.words) >= 6 => l.words[6] = Uplink
  /\ l.token = "EOB_ACK" /\ l.from = Uplink => l \in Handshake
ASSUME BaseAssumption == Base \in Nat /\ Base >= 2

Numbers == INSTANCE Base64

VARIABLES
  peer,        \* the uplink has yet to send "pass", "server", "burst", "ack", or is "open"
  traffic      \* the lines of this behaviour (bound: one set of them)

vars == <<netVars, deepest, linkVars, scriptVars, peer, traffic>>

Init ==
  /\ LinesInit /\ LinkInit /\ ScriptsInit
  /\ peer = "pass" /\ traffic \in Traffic

Accounts == LineWords \cup {None, "0", BotAccount}

TypeOK ==
  /\ there \subseteq User /\ opers \subseteq there /\ account \in [User -> Accounts]
  /\ channel \in [Chan -> Channel \cup {None}] /\ \A c \in Existing : ChannelOK(channel[c])
  /\ protocol \in [Server -> {"J10", "P10", None}] /\ deepest \in 0..3
  /\ me \in Server \cup {None} /\ uplink \in Server \cup {None} /\ bot \in Own \cup {None}
  /\ lastnumeric \in 0..Len(OwnNumeric) /\ open \subseteq Interp /\ states \subseteq Interp
  /\ byScript \in [Script -> Interp \cup {None}]
  /\ clients \in [Own -> Interp \cup {None}] /\ owner \in [Own -> Interp \cup {None}]

-----------------------------------------------------------------------------
(* When the uplink sends a line of its own, and what is left then. *)
Phase == [PASS |-> <<"pass", "server">>, SERVER |-> <<"server", "burst">>,
          END_OF_BURST |-> <<"burst", "ack">>, EOB_ACK |-> <<"ack", "open">>]

Turn(l) ==
  IF l \in Handshake THEN peer = Phase[l.token][1] /\ peer' = Phase[l.token][2]
  ELSE /\ UNCHANGED peer
       /\ IF l.token \in {"BURST", "SERVER"} THEN peer = "burst"
          ELSE peer \in {"ack", "open"} \/ (peer = "burst" /\ l.token \in {"NICK", "END_OF_BURST", "EOB_ACK"})

(* What arrange_args makes of l: what lies behind the line matters only if *)
(* it is looked at, and then it may be no memory of ours.                  *)
Matches(l) ==
  UNION {IF m.past THEN {MatchIn(there, Existing, Linked, l, past) : past \in Stray} \cup {Wild} ELSE {m} :
         m \in {MatchIn(there, Existing, Linked, l, None)}}

(* handle_input: a line whose words no variant fits is only logged.  Before *)
(* the uplink has registered, a line has no sender.                        *)
handle_input(l) ==
  /\ proc = "up" /\ me # None
  /\ Turn(l) /\ UNCHANGED traffic
  /\ (l.from = None) = ~registered
  /\ \E m \in Matches(l) :
       \/ m = Wild /\ Dies("wild") /\ UNCHANGED <<linkVars, scriptVars, deepest>>
       \/ /\ m # Wild /\ m.ok /\ Callable(m.args)
          /\ \/ HandleModes(l, m) /\ UNCHANGED <<linkVars, scriptVars>>
             \/ HandleLink(l, m) /\ UNCHANGED scriptVars
             \/ HandleScripts(l, m)

Starts == \E file \in ConfigFile : Startup(file) /\ UNCHANGED <<scriptVars, peer, traffic>>
Closes == LinkCloses /\ UNCHANGED <<scriptVars, peer, traffic>>
Ticks == Tick /\ UNCHANGED <<peer, traffic>>

Next == Starts \/ Closes \/ Ticks \/ \E l \in traffic : handle_input(l)

Spec == Init /\ [][Next]_vars

-----------------------------------------------------------------------------
(* A module, and with it functions that are not hooked by init but by a    *)
(* module, comes with the uplink's acknowledgement: not with those of other *)
(* servers behind it, nor with our own, which comes back while END_OF_BURST *)
(* is handled (handle.c, hEOB_ACK; main.c, module_loadAll).                *)
ModulesAfterAck ==
  modules # <<>> \/ (\E h \in DOMAIN hooks : hooks[h] \cap LuaHooks[h] # {}) => peer = "open"

(* A state every behaviour passes that connects: PASS has arrived.  What    *)
(* holds of lines and numerics whatever the users and channels are is said *)
(* of this state.                                                          *)
Once == proc = "up" /\ peer = "server"

(* Each word of a line that is accepted becomes one argument or one member *)
(* of the greedy list, and is there once.  The code only counts the words: *)
(* if one behind the line was taken for an argument, exactly one of the    *)
(* line's own is in neither.  (arrange_args, "not all arguments used?")    *)
EveryWordOnce ==
  Once => \A us \in SUBSET User, cs \in SUBSET Chan, l \in traffic, past \in Stray :
    LET m == MatchIn(us, cs, Server, l, past)
        argc == Len(l.words)
        places(i) == {k \in DOMAIN m.args : m.args[k] = i}
        lost == (1..argc) \ (m.used \cup m.rest)
    IN m.ok =>
         /\ m.used \cap m.rest = {} /\ \A i \in m.used : Cardinality(places(i)) = 1
         /\ Cardinality(lost) = IF argc + 1 \in m.used THEN 1 ELSE 0

(* A line that ends right before an optional word. *)
EndsBeforeOptional(l) ==
  \E v \in DOMAIN rawrules[l.token] : \E i \in DOMAIN rawrules[l.token][v] :
    LET r == rawrules[l.token][v][i] IN r.flag = "optional" /\ r.at = Len(l.words) + 1

(* What lies behind a line decides nothing, unless the line ends right     *)
(* before an optional word: then an argument that should be NULL may be    *)
(* taken from an earlier line, or the line be lost (parse.c:125).          *)
BehindTheLine ==
  Once => \A us \in SUBSET User, cs \in SUBSET Chan, past \in Stray :
    \A l \in {k \in traffic : ~EndsBeforeOptional(k)} :
      \E one \in {MatchIn(us, cs, Server, l, past)}, two \in {MatchIn(us, cs, Server, l, None)} :
        one.ok = two.ok /\ (one.ok => one.variant = two.variant /\ one.args = two.args)

(* A line is the same in whatever chunks it is read (net_read).            *)
ChunksDoNotMatter == Once => ReadAsOne

(* What the program sends comes back to its own handlers word for word     *)
(* (rfc_join, rfc_split).                                                  *)
LoopBackKeepsWords == Once => ComesBack

(* The numeric that server_freenum gives a client of ours is unused, comes *)
(* back when it is written and read, and belongs to our server.            *)
OwnNumericsComeBack == Once => Numbers!OwnNumericsComeBack

(* The timestamp of a channel only falls, whatever is late or read from    *)
(* behind a line; a later one belongs to a channel made anew by CREATE.    *)
TsNeverRises ==
  [][\A c \in Existing : channel'[c].ts > channel[c].ts =>
       \E u \in there : channel'[c] = Created(u, channel'[c].ts)]_vars

=============================================================================
