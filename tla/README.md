# A verification development of plservices

plservices is a set of scriptable services for an IRC network of the P10
(snircd) protocol, in C, with modules for Lua and Tcl and one large script, the
game *labspace*. This directory models the parts of it that keep state,
model-checks them with TLC, and proves their safety invariants and action properties with TLAPS.

## 1. The system

One process, one thread, one TCP link to an *uplink* server.
`main.c` loops: when the second has changed it calls the hook `ontick`, then
`net_read` waits up to a second for input and hands each line to
`handle_input`, which splits it, finds the sender, converts the arguments by the
rule of its token (`tokens.c`) and calls one handler (`handle.c`). Everything a
handler does happens before the next line is read, with one twist: `send_raw`
writes a line to the link **and then handles it like a received one**, so whatever
we send changes our own state before the send returns, handlers are
re-entered from below, and hooks run in between.

The uplink does the same at its end, and the link is slow: a message of
the uplink may have been sent before it saw ours. Messages that *cross* are the
main source of orders nobody wrote down.

| component | state | operations | interacts with | hard parts |
|---|---|---|---|---|
| channel membership: `chanusers.c`, `channels.c` | per channel: users, ops, voices, count; per user: channels, count; index of folded names | JOIN, JOIN 0, PART, KICK, CREATE, BURST, CLEARMODE, MODE +-ov, add and delete of users | user tables (blocks freed and reused), mode buffers, scripts | the relation is stored twice and counted by hand; freed users stay; crossing messages meet assertions |
| user tables: `users.c`, `servers.c` | numeric table, nick table, oper set, the users of a server, last numeric | NICK (both kinds), QUIT, KILL, MODE of users, `server_freenum` | everything that names a user | nick collisions, ghosts after SQUIT, reuse of numerics and of addresses |
| mode buffers: `modes.c`, `luafuncs.c` | one buffer per client: channel, changes, deadline | push, flush, tick, deletion of the client | membership (checked on push, applied by loop-back) | state checked when pushed and used when sent; limits; deadlines; a client that quits |
| labspace: `labspace.lua` | per channel: phase, deadlines, roles, traits, votes | commands, PART, QUIT, ticks, `ls_advance_state` | scheduler, membership, user tables | recursion through phases; players removed in the middle; errors that abandon a handler |
| link: `net.c`, `handle.c`, `servers.c` | who is `me` and `uplink`, the protocol letter of each server, `opername` | startup, SERVER, EB, EA, PING, ERROR, loop-back, end of the link | configuration, module loader | the order of the two bursts; acknowledgements of others and of our own |
| line reader: `net.c`, `parse.c` | a 64k buffer | `net_read`, `rfc_split`, `rfc_join` | dispatch | lines cut over reads, a full buffer, separators at the end of a line |
| parser: `tokens.c`, `parse.c`, `args.c`, `convert.c` | the static list `greed` | match a rule, convert, call | all handlers | static storage and re-entry, reading behind the line |
| modes: `modes.c`, `channels.c`, `users.c` | flag bits, key, limit, bans, timestamp; account | `mode_apply` and its hooks | parser, mode buffers | accounting of parameters, parameters that are missing |
| hooks and tables: `hooks.c`, `jtable.c` | function sets, Judy arrays | call, insert, remove, iterate | all | order of calls |
| modules and Lua bridge: `module.c`, `luabase.c`, `luafuncs.c`, `luacontrol.c`, `script_commands.c` | module list, interpreters, scripts, clients by numeric, the bot | LOAD, UNLOAD, ticks, messages, the API of the scripts | user tables, membership, mode buffers | tables that are never emptied, loads that fail or are repeated, clients killed under their script |
| configuration: `config.c` | values by section and key | `load_config` | startup | lines that are neither section nor pair |
| base64: `base64.c` | none | encode, decode | numerics | the width of numerics |
| scheduler: `stubs.lua` | tasks by second | add, remove, check | labspace | removal of the wrong task, delays ignored |
| Tcl bridge: `tclbase.c` | one interpreter | commands | user tables | does not compile (`tclbase.c:206` uses a variable it does not declare) |
| burster: `burster.c` | a mass of fake clients and channels | join, part, tick | user tables | dead: its initialisation is commented out in `main.c` |
| logging | a file | write | all | none |

What makes each modelled component correct:

* **Membership.** A user is on a channel's list exactly when the channel is on
  the user's list; ops and voices are members; counts are the sizes of the sets they count;
  the index finds the channel of a name and nothing that was freed; assertions hold.
* **User tables.** A user who is present is found by numeric, and by nickname
  if it is theirs; nothing freed is found; our own numerics are unique; oper
  status does not pass to another user.
* **Mode buffers.** A change is sent to the channel it was meant for, in full,
  in a line within the protocol's limit, before too long, and never on behalf of
  somebody who left.
* **Labspace.** Votes, protection and turns refer to players of the game; one
  actor per role; one force field; sides do not change; phases come in their order and each has a
  deadline; a decided game ends at once; every game ends.
* **Link.** Modules, their client and their hooks come with the uplink's acknowledgement of our
  burst and with no other.
* **Line reader and parser.** The lines and words that handlers see do not depend on how the stream
  was cut, nor on memory behind a line; each word of a line is used once; what we send comes back as the same words.
* **Modes.** A channel's timestamp never rises; only flags have bits.
* **Lua bridge.** No closed interpreter is called from a table; a client's messages reach the script that introduced it.
* **Base64.** Numerics given to our clients are unused, ours, and survive being written and read.

## 2. The modules

| module | what it is |
|---|---|
| `Membership` | what membership promises to the rest of the program: who is there and who is on which channel, and the events that change it |
| `ChanUsers` | `chanusers.c`, `channels.c` and the handlers, on a heap of blocks that are freed and reused |
| `MCChanUsers` | instances for TLC |
| `ChanUsersProofs` | the inductive invariant of `ChanUsers`, the theorems that follow, and the proof that it implements `Membership` on the users' side |
| `ModeBuf`, `MCModeBuf` | the buffers of `modes.c`, with membership changing and channels being created anew below |
| `ModeBufProofs` | the inductive invariant of `ModeBuf` and the theorems that follow |
| `Users`, `MCUsers` | the tables of `users.c` and the numerics of `servers.c` |
| `UsersProofs` | the inductive invariant of `Users` and the theorems that follow |
| `Game` | what a game promises to the players: phases in order, a role for each, and the victims each phase may take |
| `Labspace`, `MCLabspace` | one game of `labspace.lua` |
| `LabspaceProofs` | the inductive invariant of `Labspace`, the theorems that follow, and the proof that it implements `Game` |
| `Words` | characters, lines and words: `net_read`, `rfc_split`, `rfc_join`, `send_words` |
| `WordsProofs` | `ReadAsOne` and `ComesBack` of `Words`, for texts of any length |
| `Base64` | numerics and `server_freenum` over them |
| `Dispatch` | the rules of `tokens.c` and `arrange_args` |
| `FoldFacts` | induction over a fold, for any step and whatever it keeps |
| `DispatchProofs` | what `arrange_args` makes of any line and any rule, and that the word behind the line does not matter |
| `Lines` | EXTENDS `Dispatch`: the handlers that apply modes or join, and `mode_apply` with its hooks |
| `Link` | EXTENDS `Lines`: configuration, startup, servers, bursts, hooks and loading of the Lua module |
| `Scripts` | EXTENDS `Link`: interpreters, scripts, their clients, and the handlers that call hooks |
| `Services` | EXTENDS `Scripts` and `Words`, with an instance of `Base64`: the uplink, the main loop, `handle_input`, and the properties of the whole |
| `ServicesProofs` | the inductive invariant of `Services` and the theorems that follow |
| `MCServices` | EXTENDS `Services`: lines, files and constants for TLC |

`Mutant:` before a definition marks a version of the definition after it
with a plausible bug. No specification uses these; each shows that some property
would notice.

### ChanUsers

A `struct user` and a `struct channel` are blocks, `User` and `Chan`: a block that is
freed keeps no fields, may be allocated again, and is what a dangling pointer
points at. `users`, `ops`, `voices` and `usercount` are the fields of a channel,
`channels` and `channelcount` of a user, `byName` is the index, from *folded* names,
and `name` the name a channel block was created with, which need not be folded.
`live` and `freed` are not in the program: they say which users exist and which
pairs were left behind by a deletion, and no action's guard reads `freed`.

A handler that works through a list (CREATE, PART, BURST, MODE) is an action
per entry. Nothing else happens in between, except that PART calls a hook for
each entry; the variable `handler` holds what the loop still needs. An assertion that
fails sets `proc`, and so does the use of a freed channel block; nothing happens
afterwards. `DESTRUCT` has no action here: its rule names a type that the
rule parser does not know (`tokens.c:72`), so the handler is given the word as it came, takes it for no
channel and changes nothing (`hDESTRUCT` of `Lines`).

Messages of the uplink may have crossed ours. A JOIN, PART or KICK can therefore come for
a pair in any relation, and a MODE for a user that has left.

### Users

Blocks as before; `numeric` and `nick` are the fields that find a user.
`there` and `shared` are not in the program: `there` tells users on the network from ghosts, which
stay because `hSQUIT` is empty, and `shared` collects the nicknames that two users had at once. The network gives out a numeric once at a time, but
nicknames collide for as long as two NICK messages cross.

### ModeBuf

A buffer is its channel, the last flag change, the prefix changes in order and the time left.
A flush is loop-back: the line comes back to `hMODE2` and sets status at
once. `strncpyz` is modelled by what it does to a numeric: it takes the last
digit (`Cut`), and what is printed ends there, so the numeric read
back may be nobody's or somebody else's. Time is counted down in the buffers
(`left`). A change of a flag is sent at the next tick, one of a status waits `MaxDelay` seconds, as
the two callers in `luafuncs.c` ask for it (`Delay`); a change for another channel sends what is pending.

A buffer holds a pointer to its channel, and a CREATE for a channel that exists frees the channel's block and allocates one. Flag changes collect as `letters` in the array that
`modestr` is, with a sign where it differs from the one before (`pls`); only targets are counted and sent away in time, so a push for which
there is no room among `MaxLetters` writes behind the array, and the model ends there (`PushBeyond`). `chan`
says whose block the buffer points at: that of a channel, which may be the one it was made for, created
again in the same block, or another that has got the block since; or nobody's (`None`). A flush through a free block reads
whatever name is there: the program ends, nothing is sent, or the line is for any channel. `stale` is not in the program: it marks
buffers whose block has been freed since their first push. The prefix modes `o` and `v` differ in their letter only, so they
are the members of a set, `Prefix`, and `status` maps each to who has it where.

### Labspace

The game on one channel. A handler calls others and `ls_advance_state` calls
itself; the calls still to be made are the stack `work`, one action per call,
and between two handlers the stack is empty. A Lua error (indexing the
record of a user that has gone) ends the handler where it is, so it drops the stack.
Deadlines are none, running or over. Random choices are existential. Statistics,
texts, notes and the announcement of lobby members are left out, except that
texts which *name* a player raise an error when its record has gone.

### From a line to a handler: Words, Dispatch, Lines

`Words` works on characters, `|` standing for the line terminators. What `rfc_split` finds behind a
line that ends in separators is a parameter, `behind`; the buffer of `net_read` holds `Room` characters.

`Dispatch` holds every rule of `tokens.c` as data. An argument is the *position* of a word, or `Absent`, or
`Greedy`; `Arrange` follows `arrange_args` word by word, with the set of positions used instead of the array
`used`, and `past` remembers that a conversion has looked at the element behind the last word
(`parse.c:125` lets it). `known` says which words a conversion accepts.

Two stale memories are part of the model, because handlers read them: the cells of the static list
`greed`, and the frame of `handle_input` behind `raw.c`. What they name is any member of `Stray`, and the
latter may also be an address we do not own (`Wild`, the end of the program). `deepest` counts the
cells of `greed` that have ever been written: an unwritten one is NULL. A handler that reads behind its list, as `hBURST` and the MODE handlers do, gets a stray word.

In `Lines` a channel is a record under its name, without blocks. `ModeApply` folds `Letter` over the
letters of a mode word, with `skip` the next parameter and `argsused` the count that `hBURST` asserts on;
`ChannelHook` and `UserHook` are the two hooks; a ban goes on to what is done for op and voice, so a mask that reads as a
numeric asks for status. A NULL parameter of `strtol` or `strcmp`, and each failed assertion,
ends the program and says of what (`Dies`). A freed user that a channel still lists is
found again by the next user who gets its block: `Introduced`.

### Link and Scripts

`Startup` is `main` up to its loop: the file is folded into sections and values; a
file without a numeric, or with a line that is neither section nor pair, ends the program; then `net_greet` sends SERVER, which comes back and makes the
first server ours. END_OF_BURST of the uplink is one action with the two lines that come back. `hooks`
maps the name of a hook to its functions: those of `init` (`OwnHooks`: the loader waiting for `onregistered`, and the three
of the mode buffers, whose work `ModeBuf` models) and later those of the Lua module (`LuaHooks`).
`hSERVER` folds `ServerLetter` over the flags of the server, since an `n` of the uplink decides how an `o` behind it is read.
Loading Lua takes the next free numeric, or never ends if there is none (`"spin"`).

The bridge of `Scripts` is a record, and a call into a script a *set* of records, one for each outcome:
nothing (or an error, after which the handler is abandoned), a new client, the use of a
client that has been killed (`user_send` reads NULL), a client that quits or
joins. `Then` composes such calls, in the order of addresses for interpreters
(`CallStates`) and of numerics for clients (`ToChannel`); the two functions of `onprivmsg` are called in
the order of *their* addresses, which is up to the linker, so both orders are there.
`owner` is not in the program: it says which script introduced a client and has not taken it away.
A killed bot leaves a freed block as `bot`, whose numeric may be any (`bot = None`).

### Services

The uplink's own lines come in the order of the protocol, `peer` naming the next one: PASS, SERVER, a
burst with END_OF_BURST, EOB_ACK; lines of users after END_OF_BURST, in any order and number, whether
or not they make sense, since they may have crossed ours. A line whose words no variant
fits has no effect, as in the code. Each behaviour has one set of lines: status
and modes, servers, or commands of an operator to the bot and to clients of scripts.

## 3. The runs

| run | configuration | question and result |
|---|---|---|
| `membership` | 2 users, 2 channels, 2 names of which one is not folded | every order of messages: types, `UserSideSound`, `StatusNeedsMembership`, `CountsExact`, `IndexExact`, `AsymmetryOnlyFromDelUser`, and the refinement `ImplementsMembership` hold |
| `both_ways` | same | *violated*: deletion leaves a user on its channels |
| `prefix_assert` | same | *violated*: a MODE for a user who is not on the channel (its PART crossed, say) fails `channels.c:69` |
| `user_tables` | 4 blocks, 2 own and 2 other numerics, 2 nicknames | collisions, ghosts and reuse: `PresentAreFound`, `TablesSound`, `OpersLive`, `OwnNumericsDiffer`, `NicksLostByCollisionOnly` hold |
| `mode_buffers` | 2 users of which one is a client that pushes, 2 channels that CREATE replaces, one prefix mode, a limit of 2 targets, room for 4 letters, delays 0 and 2, fair | `ChangesKeepTheirChannel`, `BuffersHaveClients`, `BuffersHaveRoom`, `StatusOnChannel` hold, and no buffer waits for ever |
| `mode_targets` | small | *violated*: the target of a flushed line is cut |
| `labspace` | 3 players: scientist, investigator, citizen with every trait | votes, force field, deadlines and roles; the game is played by the rules: `ImplementsGame` |
| `labspace_four` | 4 players, 2 of them investigators | one actor per role; a decided game is noticed |
| `labspace_kills` | 3 players, one of them killed by an operator | what Lua errors leave behind still refers to players only |
| `labspace_ends` | 3 players, fair | every game ends |
| `labspace_wedge` | 3 players, one killed, fair | *violated*: the game need not end |
| `services` | 2 users, 2 numerics of ours, 1 channel, 2 interpreters, 2 scripts, 4 configuration files, 57 lines in 3 sets | the properties below hold |

What the properties of `services` say:

* `EveryWordOnce`, for every line, every set of users and channels and every stray word: in a line that is
  accepted each word is an argument or a member of the list, and only once. It is the purpose of `used` and
  `consumed`, which the rules with positions from both ends (NICK, MODE, TOPIC) put to the test. The code compares numbers only, so the word
  behind the line may count for one of the line's own: then exactly one is lost. The run has such a line, an ACCOUNT whose account name is lost.
* `BehindTheLine`: the word behind a line changes neither variant nor arguments, *unless* the line ends right before
  an optional word. The exception is real (JOIN without a timestamp, ACCOUNT); `EndsBeforeOptional` says exactly where.
* `ParametersHaveNoBit`: keys, limits, bans and status never get a flag bit. The tables give
  `k`, `l` and `b` the same bit as the marker "takes a parameter", so this hangs on one condition of `mode_set1`;
  and a script's `-l` would otherwise reach `strtol(NULL)`.
* `TsNeverRises`: whatever order BURST, CREATE and MODE arrive in and whatever is read behind a line, a timestamp falls or
  stays, except when CREATE makes the channel anew.
* `ModulesAfterAck`: modules, and functions of modules in any hook, appear with the uplink's EOB_ACK, whatever other servers acknowledge and although our
  own acknowledgement is handled in the middle of END_OF_BURST.
* `InterpretersOpen`: scripts that are loaded twice, fail or are unloaded from a message leave no closed interpreter in
  either table.
* `ClientsAnswerTheirScript`: `luabase_users` is never emptied, numerics and interpreters are used again, and yet a message to a
  client that is there reaches the script that introduced it, because every introduction overwrites the entry.
* `ChunksDoNotMatter` (`ReadAsOne` of `Words`), `LoopBackKeepsWords` (`ComesBack` of `Words`), `OwnNumericsComeBack` (that of `Base64`): every text of five
  characters in three chunks, every line of three words of up to three characters (if the last is not marked, the line ends in
  its terminators, and what lies behind it, if anything does, comes back as exactly one word more), every numeric of base two and every set of
  numerics in use. They say nothing of the state; they, and the two of the parser, are checked in one state of each behaviour (`Once`).
* `TypeOK` includes that operators are present users and that status on a channel is held by members.

The bounds. Two blocks of each kind are the least with which a freed address
is reused while another is in use, and both sides of the comparison in
`chanusers_ison` occur; the proofs lift them. Four user blocks let two ghosts, two
users with one nickname and a reuse exist together. A limit of two targets
instead of six makes a buffer full as often as it is extended, and room for four letters instead of 64 (`modes.h`) takes two targets with
different signs and is exceeded by flags; one prefix mode is enough, since the second is
treated as the first and makes the states too many to visit, and the proofs are for any set of them. Three players are the
least for which a game is not decided when it starts, and four let
two investigators compete for one turn and let a game go on after a death; the tables `One`, `Two`, `Zero` stand
for the script's tables, which deal the same roles from six players on.
`RoundCap` forgets the number of late nights, which only the first two
depend on, `MaxWaits` is the number of extensions and `MaxKills` bounds the KILLs.
For `services`: two own numerics make numerics come again, and run out, after two introductions; two interpreters are the least
with which one is ticked while another is closed. A call of a script makes one act, since two acts in a row are two calls;
its chunk and the handlers it has for its own quits do nothing, so re-entry of an interpreter is left out. Numbers are few, as timestamps are only
compared. A text of five characters holds a full buffer (`Room` of 3) with a chunk to either side, and three characters of a word
are a colon, a space and a letter in every order. Base two keeps the arithmetic of base 64 and lets every set of used numerics be tried.
`CHECK_DEADLOCK FALSE` is given where a failed assertion or a
full heap stops the model as it would the program.

Fairness. `FairSpec` of `ModeBuf` is weakly fair to the tick and to the flush it
starts: `main.c` calls the hook every second whatever the link does. `FairSpec` of
`Labspace` is weakly fair to the running handler (nothing preempts it),
and strongly fair to the tick and the clocks: commands may switch them off and on
between two steps (a command resets `delay`; the tick needs an idle handler),
but the second comes round again and again. The last conjunct says the dice are not rigged: the
player who escapes a lynching by teleporter with one chance in two does not escape for ever.
Nothing is assumed of the players.

## 4. The disagreements

Four runs show the code doing something else than a comment or an assertion of the repository says.
Each is described under "findings" in `PROJECT.json` with the line it quotes: users left on
channels, the assertion of prefix modes, the cut target of a flush, and a game that stops when an
operator kills a player.

Two more need no run. JOIN 0 from a user on a channel always fails the assertion of `chanusers.c:90`:
the action `Join0` ends there. And the nickname table loses the survivor of a nickname collision, because
`add_user`, `del_user` and `user_nickchange` write and remove the entry of a name whoever it leads to:
`NicksLostByCollisionOnly` says so by its exception.

`Lines`, `Link` and `Scripts` end where the program does, and no run is spent on what one line shows:

* `-l`, and `+k` or `+l` without a parameter, give `strtol` or `strcmp` a NULL (`channels.c:158`), and `o` or `v` without one
  looks up the numeric NULL (`channels.c:172`).
* a ban falls through to status (`channels.c:169`): a mask that is the numeric of a user who is not on the channel fails the assertion.
* flags that scripts push before the deadline are appended to 64 characters without a check (`modes.c:276`).
* a BURST line without a list of users after its modes or bans fails `assert` (`handle.c:99`).
* a PRIVMSG to a numeric of nobody passes NULL to the hook (`handle.c:321`), and a script that uses a client that was
  killed passes NULL to `user_send`.
* `server_freenum` does not end when every numeric is taken (`servers.c:126`).
* the configuration says a numeric is "1-4096" (`net.c:73`), but two digits turn 4096 into 0; it still works, as
  `OwnNumericsComeBack` shows.
* `rfc_split` takes what is behind a line that ends in separators for a word (`parse.c:49`), and
  `arrange_args` looks one element behind the words (`parse.c:125`).
* a SERVER line that gives a later server the flag `o` after the uplink has made it a mode with parameter reads a list
  that is NULL.

Everything else that is stated holds; in particular the *user's* side of membership is right in
every order of messages, which is why `ImplementsMembership` is stated over that side.

## 5. The proofs

`ChanUsersProofs` shows, for any sets of users, channels and names, any folding that is
idempotent (`FoldIdempotent`) and any finite heap (`HeapFinite`):

* `TypeCorrect`, `UserSideIsSound`, `StatusIsMembers`, `CountsAreExact`, `IndexIsExact` and
  `AsymmetryExplained`: the invariants of the run `membership`.

They are conjuncts of one inductive invariant, `IInv`, with one addition:
`HandlerPointersLive`, that the channel a handler is in the middle of is
allocated and its user exists. It is what a handler's later entries rely on, and no invariant survives
them without it. The
conjuncts are proved one step lemma each, in an order in which a later one may use the earlier:
types and handler, then the index, then the users' side (which needs that the index
finds allocated channels only), then the status sets and the counts (which need that
`chanusers_ison` implies membership, `IsOnMember`), then the asymmetry.

The refinement maps a state to `live` and to the pairs of a user and a folded name of a
channel on the user's list, and shows that every step is a step of `Membership` or
changes neither (`Refinement`). The lemmas compute the map for each operation; the one
that needs the invariant most is `CreateOver`, where a channel is replaced under its name.
`UsersProofs` shows the invariants of the run `user_tables`, for any finite set of blocks and any range of
numerics. Its `IInv` replaces `OwnNumericsDiffer` by `OwnAreFound` (the table leads to each user of ours),
which implies it and is inductive, and adds `BlocksNamed`. `FreeNumUnused`, that the
search round the range returns a free numeric when there is one, rests on the well-foundedness of the naturals.

`ModeBufProofs` shows the safety invariants of the run `mode_buffers`, for any sets of users, clients, channels and prefix modes, any base,
any limit of targets above one and any room for letters that holds one change (`RoomForOne`). They are inductive together: `IInvParts` regroups them into what `buf` and `live`
decide (`BufOK`, stated of one buffer in `Sound`) and what the channels are (`ChanOK`), since a push can disturb both at once.
`SentKeepsChannels` is the heart: the line of a flush may name another user than was meant, and it is the failing
assertion that keeps status to members. `NoneIsNothing` is needed for "no buffer is empty". CREATE
is the one action that moves a buffer to another block (`CreateKeeps`): a buffer that points at a free block, or at one that has been
freed since, is stale, and it is only of the others that `ChangesKeepTheirChannel` speaks.

`LabspaceProofs` shows every safety property of the four runs of `Labspace`, for any finite set of players and any
tables that leave a citizen (`RolesFit`):

* always, whatever handlers a KILL has broken off half-way: `TypeOK`, `VotesAmongPlayers`,
  `NothingOutlivesAPlayer`, `ImplementsGame`;
* as long as the record of every player is known, `Unhurt`: `OneForceField`, `OneActor`, `PhaseHasDeadline`,
  `RolesMatchPhase`, `DecidedGameIsNoticed`. The condition is the code's: the game does break when a client is KILLed, as the
  run `labspace_wedge` shows. Without KILLs it always holds (`NobodyIsHurt`), and that is how the runs with
  `MaxKills = 0` check these five.

For the people of a game some thirty actions make only ten kinds of change, `PeopleStep`: each action is shown to be one of them,
and each of the ten to keep what is said of votes, flags and turns. `PhaseHasDeadline` and `RolesMatchPhase` speak of the time
between two handlers and are not inductive. `Control` says what holds in the middle of one: a phase without a deadline has
`ls_advance_state` as its next call. Once hurt is never unhurt (`OnceHurt`), so a conditional invariant is inductive, too.

`GameIsPlayed` is the refinement of `Game`. The players of a state are those with an entry, and their sides are the roles of a game that runs:
a role that an abandoned `ls_start_game` has left in the lobby is not seen, which is why the refinement holds with KILLs, too. A step within a
phase is a removal, an addition to the lobby or nothing, by its kind of change (`PhaseStaysIsMove`); of the steps that end a phase
(`OthersKeepThePhase`) each is compared with the rule for it, with the victims it may take (`KillIsMove`, `LynchIsMove`) and the
roles that are dealt (`StartIsMove`). When a game may end is not part of `Game`, since staff may stop it at any time; that it ends when it is
decided is `DecidedGameIsNoticed`.

`FoldFacts` is an induction over the elements of a sequence. No installed prover can be given a fact with a step as its *parameter*, so the
step and what it keeps are constants of the module, and the module is instantiated for each fold, as in
`Taking == INSTANCE FoldFacts WITH Step <- TakeStep, Good <- Arranged`. The fold of the community modules is defined by recursion
over sets; `FoldExists` shows that this defines a function at all, from the well-foundedness of the naturals, and
`FoldIsTraced` and `TraceIsFold` that its value is the end of the one sequence of steps.

`DispatchProofs` applies it to `arrange_args`, for a line of any length, any rule and whatever can be
converted. Two things are kept word by word: each word that is used is found once among the arguments (`Taken`), and an argument is
what its place in the rule asks for, or is missing if the rule says so (`Fitted`). `EachWordOnce` follows by counting: the used
and the words of the list are disjoint sets of words and together as many as the line has,
so that none of the line's is missing, or one if the used include the word behind it (`AllButOne`). That
each entry of `tokens.c` is a sequence of rule words is `RulesAreRules`.

`NothingBehind` compares two lines that differ behind their last word only. Each rule takes words from the front, in order, and then
others (`RulesAreWell`, over the whole table). If a rule looks behind the last word for one that must be there, it has taken more
words than the line has, and is refused whatever is there (`NotBehind`); if it never looks, both folds have the same steps, and folds
with the same steps are equal (`SameSteps`). `MatchIsFirst` says that the variant is the first that fits, so the two lines get the same one.

`WordsProofs` shows `ComesBack` (`WordsComeBack`) and `ReadAsOne` (`ChunksAreJoined`) for words and texts of any characters and any
length (`MaxWord` is a number), and any room in the buffer. For the first, `After` gives the state of `rfc_split` after any number of characters of the line
that `rfc_join` makes, phase by phase: in the first word, at the separator, and so on; `NextCharacter` shows that each
character leads from one to the next. The model has no buffer for a line that is sent: `rfc_join` cuts lines of more than 512 bytes, of which nothing is said. For the second, the state in
the middle of a chunk is compared with the state of reading the whole text at once (`Abreast`): they have the same lines, apart from empty ones,
and the same rest, although one may remember separators that the other has forgotten at the start of a chunk (`StillAbreast`).

`ServicesProofs` shows, for any lines, any sets of users, channels, servers, interpreters and scripts, and any configuration,
`EveryWordOnce`, `BehindTheLine`, `ChunksDoNotMatter`, `LoopBackKeepsWords`, `OwnNumericsComeBack`, `TypeOK`, `ParametersHaveNoBit`, `InterpretersOpen`, `ClientsAnswerTheirScript`, `ModulesAfterAck` and `TsNeverRises`. The invariant
`IInv` strengthens them by what they rest on:

* `LinkTyped`: the server that is `uplink` is nobody but `Uplink`. Otherwise an acknowledgement of another server could load
  the modules.
* `Quiet` until the uplink has acknowledged: the hooks are those of `init` (`OwnHooks`), *in any order* of the lines before.
* in `ScriptsOK`: an interpreter that scripts are ticked through is open, a script that is loaded has one of its own (two scripts never share
  one, or unloading the first would close the second's), and a client of a script has that script's interpreter as its entry.

Each handler has a lemma that says what it is *given* (`BurstIsGiven`, `NickIsGiven`, ...: arguments that are converted words, by the rule of its token)
and one that says what it *keeps*. `NetKept` carries both the state and `Aged`, that no timestamp rises unless CREATE made the channel, so
`TsNeverRises` comes with the invariant. The modes of a line are a fold, `ModesApply`. The bridge is a set of outcomes, one
for each thing a script may do, and each operation of it takes a `Sound` record to sound ones, through the calls in the order of addresses
and of numerics, two more folds (`CallStatesKeeps`, `ToChannelKeeps`). What a handler reads behind its list, `Stray`, is any word, which is all the
lemmas use of it.

`NumericsReturn` is about numbers only, for any base of two or more, any number in the configuration and any set of used numerics but the
full one. The loop of `server_freenum` is a recursion without a measure, which might define no function at all. `LoopExists` gives
one that satisfies it: from a used numeric to the next free one, or to the least free one when none is ahead. `LoopEnds` shows that whichever
function satisfies it ends at a free numeric, by induction downwards from a free one to the first of the range and then from the
last, which leads to the first. The digits are divisions with remainder (`Digit`), and a numeric of five digits is a
server's two and a user's three (`DecodedTwo`, `DecodedThree`), so what is read is what was written (`OwnNumerics`, `Written`).

The assumptions on the constants, beyond sets being finite and `None` being nothing else: a line's token is one of `tokens.c`
and its words are words (`LinesAreOfTokens`, `WordsAreRead`); a BURST, CREATE, NICK or SERVER line names a channel, a user or a server where its handler
creates one (`LinesNameThings`: the model has a name for each); our numerics are users and the uplink a server (`OwnAreUsers`,
`NumericsAreServers`); a base has two digits at least (`BaseAssumption`); a text of a message is a command for the bot or is not (`CommandsAreOfScripts`, `MessagesAreTexts`); and
`UplinkSpeaksForItself`, the only one about behaviour: the first SERVER line is the uplink's own, and so is an EOB_ACK with its
numeric. The P10 protocol says so, and no code of `src/` checks it. TLC evaluates each of them in the run `services`.

Every safety property that a run shows to hold is proved. Only model-checked: liveness under fairness, `GameEnds` and `NothingWaitsForever` (out
of the prover's reach), and that the violations are violations.

## 6. Not modelled

The scheduler: only the announcement of lobby members uses it, which the game leaves out. The Tcl bridge, which does not
compile, and the burster, which never runs. `module_unload`, `hook_unhook` and `del_server`, which have no caller.
The statistics of labspace and every text. In the bridge, functions that only report to the script. A read
that fails with -1, which `net_read` uses as an index. The formatting of the lines that scripts send, and the C `printf` forms of `send_format`.
Handlers with an empty body (`hINFO`, `hLINKS`, ...) change nothing; PASS, WALLOPS and SQUIT stand for them in the lines of `services`, and
`hSQUIT` doing nothing is also modelled in `Users`. The user mode `-r`, which `UserHook` has, is sent by no line.

## 7. The plan

Written, in this order: `ChanUsers` with its abstract specification and proofs, `Labspace`, `ModeBuf`, `Users` with proofs,
`Dispatch` and `Lines`, `Link`, `Scripts`, `Services`, `Words`, `Base64`, the proofs of `ModeBuf`, of `Labspace`, of `Dispatch`, of `Services` and of `Words`;
then the channels that CREATE replaces below a buffer, in `ModeBuf` and its proofs, the proof about the numerics of `Base64`,
and `Game` with the proof that `Labspace` implements it.

Next:

1. `Scheduler`: add, remove and check; abstract specification: a task runs once unless it was
   removed. Composed with the lobby announcement of labspace.
