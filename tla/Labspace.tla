------------------------------ MODULE Labspace ------------------------------
(***************************************************************************)
(* The game of scripts/lua/labspace.lua on one channel.                    *)
(*                                                                         *)
(* A handler (a command, a PART or QUIT, a tick) runs to its end before    *)
(* the next one.  What it still has to call is the stack `work'; a         *)
(* recursive ls_advance_state pushes itself again.  A handler that touches *)
(* a player whose user record is gone indexes nil: the Lua error ends it   *)
(* there, and `work' is dropped.  Commands that are refused change nothing *)
(* and are not steps.                                                      *)
(*                                                                         *)
(* Time: a deadline is "none", "running" or "over"; between two handlers   *)
(* any deadline may pass.  Random choices are \E.  Texts, statistics and   *)
(* the queue of voice changes are left out.                                *)
(***************************************************************************)
EXTENDS Integers, Sequences, FiniteSets

CONSTANTS
  Player,            \* numerics of the users that may play
  MinPlayers, MaxPlayers,
  NumScientists,     \* ls_number_scientists, as a table over the player count
  NumInvestigators,  \* ls_number_investigators
  NumIdiots,         \* ls_needs_idiot, as 0 or 1
  ForceFrom,         \* player count from which there is a force field
  InfestedFrom,      \* player count from which there is an alien parasite
  MaxWaits,          \* how often !wait works for players; 2 in the script
  RoundCap,          \* bound: later rounds are not told apart
  MaxKills,          \* bound: how many players' clients an operator KILLs
  None

Counts == MinPlayers..MaxPlayers

ASSUME PlayersFinite == IsFiniteSet(Player) /\ None \notin Player
ASSUME CountsNat == /\ MinPlayers \in Nat \ {0} /\ MaxPlayers \in Nat
                    /\ ForceFrom \in Nat /\ InfestedFrom \in Nat
                    /\ MaxWaits \in Nat /\ RoundCap \in Nat \ {0}
                    /\ MaxKills \in Nat
(* Every count leaves a scientist and, for the force field, the parasite   *)
(* and the piece of paper, at least one citizen.                           *)
ASSUME RolesFit ==
  /\ NumScientists \in [Counts -> Nat \ {0}]
  /\ NumInvestigators \in [Counts -> Nat]
  /\ NumIdiots \in [Counts -> {0, 1}]
  /\ \A n \in Counts : NumScientists[n] + NumInvestigators[n] + NumIdiots[n] < n

VARIABLES
  state,        \* ls_gamestate[channel].state
  timeout, delay, overload,
  waits,        \* waitcount
  round,        \* number of the night, cut off at RoundCap
  enabled,
  role,         \* players[.].role; "none" when there is no entry
  active, guarded,                 \* players with that flag
  force, infested, teleporter,     \* players with that trait
  vote,
  known,        \* players whose user record exists
  work          \* calls the running handler still has to make

phase == <<state, timeout, delay, overload, waits, round, enabled>>
traits == <<force, infested, teleporter>>
people == <<role, active, guarded, traits, vote>>
vars == <<phase, people, known, work>>

Roles == {"scientist", "investigator", "idiot", "citizen"}
Deadline == {"none", "running", "over"}

Players == {p \in Player : role[p] # "none"}
With(r) == {p \in Player : role[p] = r}
InProgress == state # "lobby"

Idle == work = <<>>
Call(f) == Idle /\ work' = <<f>>
Running(f) == ~ Idle /\ Head(work) = f
Return == work' = Tail(work)
Again == work' = <<"advance">> \o Tail(work)      \* ls_advance_state once more
Raise == work' = <<>>                             \* a Lua error

-----------------------------------------------------------------------------
(* Mutants are marked so; each is a bug the definition after it could have *)
(* had, and some property notices it.                                      *)

(* Mutant: votes for a removed player stay. *)
RemoveKeepsVotes(gone) ==
  /\ role' = [p \in Player |-> IF p \in gone THEN "none" ELSE role[p]]
  /\ vote' = [p \in Player |-> IF p \in gone THEN None ELSE vote[p]]
  /\ guarded' = IF force \cap gone # {} THEN {} ELSE guarded \ gone
  /\ active' = active \ gone
  /\ force' = force \ gone
  /\ infested' = infested \ gone
  /\ teleporter' = teleporter \ gone

(* Mutant: the traits of a removed player stay. *)
RemoveKeepsTraits(gone) ==
  /\ role' = [p \in Player |-> IF p \in gone THEN "none" ELSE role[p]]
  /\ vote' = [p \in Player |-> IF p \in gone \/ vote[p] \in gone THEN None ELSE vote[p]]
  /\ guarded' = IF force \cap gone # {} THEN {} ELSE guarded \ gone
  /\ active' = active \ gone
  /\ UNCHANGED traits

(* ls_remove_player for each player of gone: votes for them are withdrawn, *)
(* and the force field goes out with the one who has the generator.        *)
Remove(gone) ==
  /\ role' = [p \in Player |-> IF p \in gone THEN "none" ELSE role[p]]
  /\ vote' = [p \in Player |-> IF p \in gone \/ vote[p] \in gone THEN None ELSE vote[p]]
  /\ guarded' = IF force \cap gone # {} THEN {} ELSE guarded \ gone
  /\ active' = active \ gone
  /\ force' = force \ gone
  /\ infested' = infested \ gone
  /\ teleporter' = teleporter \ gone

(* ls_set_state *)
EnterPhase(s) == state' = s /\ timeout' = "none" /\ delay' = "running"

(* ls_stop_game removes the players in any order.  A player with a role in *)
(* the game gets statistics first, which fails for one that is gone.       *)
StopGame ==
  /\ EnterPhase("lobby")
  /\ waits' = 0
  /\ UNCHANGED <<overload, round>>
  /\ LET stuck == {p \in Players : role[p] # "lobby" /\ p \notin known}
     IN IF stuck = {}
          THEN Remove(Players) /\ Return
          ELSE /\ \E gone \in SUBSET (Players \ stuck) : Remove(gone)
               /\ Raise

(* ls_start_game: the entries are made anew, then the roles and the traits *)
(* are dealt; the statistics of the roles fail for a player that is gone.  *)
StartGame ==
  LET n == Cardinality(Players)
  IN \E S, I, D \in SUBSET Players :
       /\ Cardinality(S) = NumScientists[n]
       /\ Cardinality(I) = NumInvestigators[n] /\ I \cap S = {}
       /\ Cardinality(D) = NumIdiots[n] /\ D \cap (S \cup I) = {}
       /\ role' = [p \in Player |-> CASE p \in S -> "scientist"
                                      [] p \in I -> "investigator"
                                      [] p \in D -> "idiot"
                                      [] p \in Players \ (S \cup I \cup D) -> "citizen"
                                      [] OTHER -> "none"]
       /\ vote' = [p \in Player |-> None]
       /\ active' = {}
       /\ overload' = "none" /\ round' = 0
       /\ UNCHANGED <<waits, enabled>>
       /\ IF Players \subseteq known
            THEN \E o, a \in Players \ (S \cup I \cup D), t \in Players :
                   /\ force' = IF n >= ForceFrom THEN {o} ELSE {}
                   /\ guarded' = force'
                   /\ infested' = IF n >= InfestedFrom THEN {a} ELSE {}
                   /\ teleporter' = {t}
                   /\ EnterPhase("kill")
                   /\ Again
            ELSE /\ force' = {} /\ guarded' = {} /\ infested' = {} /\ teleporter' = {}
                 /\ delay' = "running"
                 /\ UNCHANGED <<state, timeout>>
                 /\ Raise

-----------------------------------------------------------------------------
Init ==
  /\ state = "lobby" /\ timeout = "none" /\ delay = "running" /\ overload = "none"
  /\ waits = 0 /\ round = 0 /\ enabled = TRUE
  /\ role = [p \in Player |-> "none"] /\ vote = [p \in Player |-> None]
  /\ active = {} /\ guarded = {} /\ force = {} /\ infested = {} /\ teleporter = {}
  /\ known = Player
  /\ work = <<>>

(* Any message on the channel: ls_keepalive holds a small lobby open. *)
Chat ==
  /\ Idle /\ ~ InProgress /\ Cardinality(Players) < MinPlayers
  /\ timeout' = "running" /\ delay' = "running"
  /\ UNCHANGED <<state, overload, waits, round, enabled, people, known, work>>

(* Mutant: !add is not refused while a game runs. *)
AddAnytime(p) ==
  /\ Idle /\ enabled
  /\ p \in known \ Players /\ Cardinality(Players) < MaxPlayers
  /\ role' = [role EXCEPT ![p] = "lobby"]
  /\ timeout' = "running" /\ delay' = "running"
  /\ UNCHANGED <<state, overload, waits, round, enabled,
                 active, guarded, traits, vote, known, work>>

(* !add: ls_add_player *)
Add(p) ==
  /\ Idle /\ ~ InProgress /\ enabled
  /\ p \in known \ Players /\ Cardinality(Players) < MaxPlayers
  /\ role' = [role EXCEPT ![p] = "lobby"]
  /\ timeout' = "running" /\ delay' = "running"
  /\ UNCHANGED <<state, overload, waits, round, enabled,
                 active, guarded, traits, vote, known, work>>

(* !remove, also in a game: nobody looks whether that ends it. *)
RemoveMe(p) ==
  /\ Idle /\ p \in known \cap Players
  /\ Remove({p})
  /\ timeout' = "running" /\ delay' = "running"
  /\ UNCHANGED <<state, overload, waits, round, enabled, known, work>>

(* PART and QUIT: irc_onpart, irc_onquit.  The record of a user that quits *)
(* is freed later, and another user may come with its numeric.             *)
Leave(p) ==
  /\ p \in known \cap Players
  /\ Remove({p})
  /\ timeout' = "running" /\ delay' = "running"
  /\ Call("advance")
  /\ UNCHANGED <<state, overload, waits, round, enabled, known>>

(* Mutant: the limit is off by one. *)
WaitOffByOne(p, staff) ==
  LET counted == Cardinality(Players) >= MinPlayers /\ ~ staff
  IN /\ Idle /\ ~ InProgress /\ p \in known
     /\ counted => waits <= MaxWaits
     /\ waits' = IF counted THEN waits + 1 ELSE waits
     /\ IF p \in Players THEN timeout' = "running" /\ delay' = "running"
                         ELSE UNCHANGED <<timeout, delay>>
     /\ UNCHANGED <<state, overload, round, enabled, people, known, work>>

(* !wait: the counter is used up before the speaker is looked at. *)
Wait(p, staff) ==
  LET counted == Cardinality(Players) >= MinPlayers /\ ~ staff
  IN /\ Idle /\ ~ InProgress /\ p \in known
     /\ counted => waits < MaxWaits
     /\ waits' = IF counted THEN waits + 1 ELSE waits
     /\ IF p \in Players THEN timeout' = "running" /\ delay' = "running"
                         ELSE UNCHANGED <<timeout, delay>>
     /\ UNCHANGED <<state, overload, round, enabled, people, known, work>>

(* !hl: resets the lobby's deadlines as often as it is allowed. *)
Highlight(p) ==
  /\ Idle /\ ~ InProgress /\ p \in known \cap Players
  /\ timeout' = "running" /\ delay' = "running"
  /\ UNCHANGED <<state, overload, waits, round, enabled, people, known, work>>

(* !start *)
Start(p) ==
  /\ ~ InProgress /\ p \in known \cap Players /\ Cardinality(Players) >= MinPlayers
  /\ Call("advance")
  /\ UNCHANGED <<phase, people, known>>

(* !enable, !disable; ls_stop_game is called in the lobby, too. *)
Enable ==
  /\ Idle /\ ~ enabled
  /\ enabled' = TRUE
  /\ UNCHANGED <<state, timeout, delay, overload, waits, round, people, known, work>>

Disable ==
  /\ Call("disable")
  /\ UNCHANGED <<phase, people, known>>

DisableStops ==
  /\ Running("disable")
  /\ StopGame
  /\ enabled' = (enabled /\ \E p \in Players : role[p] # "lobby" /\ p \notin known)
  /\ UNCHANGED known

(* killgame: counts the victims first. *)
KillGame ==
  /\ Players # {} /\ Players \subseteq known
  /\ Call("stop")
  /\ UNCHANGED <<phase, people, known>>

KillGameStops ==
  /\ Running("stop")
  /\ StopGame
  /\ UNCHANGED <<enabled, known>>

(* smite *)
Smite(v) ==
  /\ v \in known \cap Players
  /\ Remove({v})
  /\ Call("advance")
  /\ UNCHANGED <<phase, known>>

-----------------------------------------------------------------------------
(* kill <v>: the attack fails by chance, is deflected, wakes the parasite, *)
(* or succeeds, in that order.                                             *)
Kill(p, v) ==
  /\ state = "kill" /\ role[p] = "scientist" /\ p \in active \cap known
  /\ v \in known \cap Players
  /\ \/ UNCHANGED people
     \/ /\ v \in guarded
        /\ guarded' = guarded \ {v} /\ force' = {}
        /\ UNCHANGED <<role, active, infested, teleporter, vote>>
     \/ /\ v \notin guarded
        /\ Remove(IF v \in infested THEN {p, v} ELSE {v})
  /\ EnterPhase("investigate")
  /\ Call("advance")
  /\ UNCHANGED <<overload, waits, round, enabled, known>>

(* investigate <v> *)
Investigate(p, v) ==
  /\ state = "investigate" /\ role[p] = "investigator" /\ p \in active \cap known
  /\ v \in known \cap Players
  /\ EnterPhase("vote")
  /\ Call("advance")
  /\ UNCHANGED <<overload, waits, round, enabled, people, known>>

(* Mutant: the one voted for need not play. *)
VoteForAnybody(p, v) ==
  /\ state = "vote" /\ p \in known \cap Players /\ v \in known
  /\ vote[p] # v
  /\ vote' = [vote EXCEPT ![p] = v]
  /\ Call("advance")
  /\ UNCHANGED <<phase, role, active, guarded, traits, known>>

(* vote <v> *)
Vote(p, v) ==
  /\ state = "vote" /\ p \in known \cap Players /\ v \in known \cap Players
  /\ vote[p] # v
  /\ vote' = [vote EXCEPT ![p] = v]
  /\ Call("advance")
  /\ UNCHANGED <<phase, role, active, guarded, traits, known>>

(* Mutant: the player that was protected stays so. *)
GuardOneMore(p, v) ==
  /\ Idle /\ p \in known \cap force /\ v \in known \cap Players /\ v \notin guarded
  /\ guarded' = guarded \cup {v}
  /\ UNCHANGED <<phase, role, active, traits, vote, known, work>>

(* guard <v>: moves the force field, player by player; naming a protected  *)
(* player that is gone fails half-way.                                     *)
Guard(p, v) ==
  /\ Idle /\ p \in known \cap force /\ v \in known \cap Players /\ v \notin guarded
  /\ IF guarded \subseteq known THEN guarded' = {v}
                                ELSE guarded' \in {guarded, guarded \cup {v}}
  /\ UNCHANGED <<phase, role, active, traits, vote, known, work>>

-----------------------------------------------------------------------------
(* ontick: a delayed ls_advance_state; then ls_check_alive every 30        *)
(* seconds; then ls_check_shield.                                          *)
Tick ==
  /\ Idle
  /\ \E alive \in {<<>>, <<"check_alive">>} :
       work' = (IF delay = "over" THEN <<"advance">> ELSE <<>>)
               \o alive \o <<"check_shield">>
  /\ UNCHANGED <<phase, people, known>>

(* Players that have been silent for too long are removed, in any phase;   *)
(* which ones depends on the clock alone.  Others are asked to speak up.   *)
CheckAlive ==
  /\ Running("check_alive")
  /\ \E dead \in SUBSET Players :
       IF dead \subseteq known
         THEN /\ Remove(dead)
              /\ \/ Return
                 \/ ~ Players \subseteq known /\ Raise
         ELSE UNCHANGED people /\ Raise
  /\ UNCHANGED <<phase, known>>

(* The overheated generator kills whoever hides behind it. *)
CheckShield ==
  LET blown == IF overload = "over" THEN guarded \cap force ELSE {}
  IN /\ Running("check_shield")
     /\ IF blown \subseteq known THEN Remove(blown) /\ Return
                                 ELSE UNCHANGED people /\ Raise
     /\ UNCHANGED <<phase, known>>

-----------------------------------------------------------------------------
(* ls_advance_state, one action for each way through it. *)
Advancing == Running("advance")

Decided == \/ Players = {} \/ With("scientist") = {}
           \/ 2 * Cardinality(With("scientist")) >= Cardinality(Players)

AdvanceLobby ==
  /\ Advancing /\ ~ InProgress /\ Cardinality(Players) < MinPlayers
  /\ IF timeout = "over" /\ Players # {}
       THEN StopGame /\ UNCHANGED enabled
       ELSE /\ delay' = "running" /\ Return
            /\ UNCHANGED <<state, timeout, overload, waits, round, enabled, people>>
  /\ UNCHANGED known

(* Mutant: a full lobby is not told from a full game. *)
AdvanceStartAgain ==
  /\ Advancing /\ Cardinality(Players) >= MinPlayers
  /\ StartGame
  /\ UNCHANGED known

AdvanceStart ==
  /\ Advancing /\ ~ InProgress /\ Cardinality(Players) >= MinPlayers
  /\ StartGame
  /\ UNCHANGED known

(* All dead, the scientists win, or the citizens do; the winners' and      *)
(* losers' statistics come before ls_stop_game.                            *)
AdvanceDecided ==
  /\ Advancing /\ InProgress /\ Decided
  /\ IF Players \subseteq known
       THEN StopGame /\ UNCHANGED enabled
       ELSE /\ delay' = "running" /\ Raise
            /\ UNCHANGED <<state, timeout, overload, waits, round, enabled, people>>
  /\ UNCHANGED known

Undecided(s) == Advancing /\ InProgress /\ ~ Decided /\ state = s

(* ls_get_vote_result counts the old votes for the statistics, also when   *)
(* they are about to be withdrawn.                                         *)
VoterGone == \E p \in Players \ known : vote[p] # None

(* The deadline still runs: a reminder, with names if there are votes. *)
AdvanceRemind ==
  /\ \/ Undecided("kill")
     \/ Undecided("investigate") /\ With("investigator") # {}
     \/ Undecided("vote") /\ ~ VoterGone /\ \E p \in Players : vote[p] = None
  /\ timeout = "running"
  /\ delay' = "running"
  /\ \/ Return
     \/ state = "vote" /\ ~ Players \subseteq known /\ Raise
  /\ UNCHANGED <<state, timeout, overload, waits, round, enabled, people, known>>

(* Mutant: the others keep the flag they had. *)
ActivateOneMore(chosen, some) == active' = active \cup (some \cap {chosen})

(* Some of the holders of a role get a new active flag: all of them, or    *)
(* those before the one whose statistics failed.                           *)
Activate(chosen, some) == active' = (active \ some) \cup (some \cap {chosen})

AdvanceKillOpens ==
  LET S == With("scientist")
      next == IF round < RoundCap THEN round + 1 ELSE round
  IN /\ Undecided("kill") /\ timeout = "none"
     /\ delay' = "running"
     /\ \E a \in S :
          IF S \subseteq known
            THEN /\ Activate(a, S)
                 /\ round' = next
                 /\ IF next = 1 \/ Players \subseteq known
                      THEN /\ overload' = IF next = 2 THEN "running" ELSE overload
                           /\ timeout' = "running" /\ Return
                      ELSE UNCHANGED <<overload, timeout>> /\ Raise
            ELSE /\ \E some \in SUBSET S : Activate(a, some)
                 /\ UNCHANGED <<round, overload, timeout>> /\ Raise
     /\ UNCHANGED <<state, waits, enabled, role, guarded, traits, vote, known>>

(* Mutant: a night that was slept through is followed by the same night. *)
AdvanceKillStays ==
  /\ Undecided("kill") /\ timeout = "over"
  /\ EnterPhase("kill") /\ Again
  /\ UNCHANGED <<overload, waits, round, enabled, people, known>>

AdvanceKillTimesOut ==
  /\ Undecided("kill") /\ timeout = "over"
  /\ EnterPhase("investigate") /\ Again
  /\ UNCHANGED <<overload, waits, round, enabled, people, known>>

AdvanceInvestigateOpens ==
  LET I == With("investigator")
  IN /\ Undecided("investigate") /\ timeout = "none"
     /\ delay' = "running"
     /\ \E a \in I :
          IF I \subseteq known
            THEN Activate(a, I) /\ timeout' = "running" /\ Return
            ELSE /\ \E some \in SUBSET I : Activate(a, some)
                 /\ UNCHANGED timeout /\ Raise
     /\ UNCHANGED <<state, overload, waits, round, enabled,
                    role, guarded, traits, vote, known>>

(* Mutant: the next phase waits for somebody else to advance to it. *)
AdvanceInvestigateEndsOnly ==
  /\ Undecided("investigate")
  /\ With("investigator") = {} \/ timeout = "over"
  /\ EnterPhase("vote") /\ Return
  /\ UNCHANGED <<overload, waits, round, enabled, people, known>>

(* No investigator is left, or the one whose turn it is sleeps. *)
AdvanceInvestigateEnds ==
  /\ Undecided("investigate")
  /\ With("investigator") = {} \/ timeout = "over"
  /\ EnterPhase("vote") /\ Again
  /\ UNCHANGED <<overload, waits, round, enabled, people, known>>

AdvanceVoteFails ==
  /\ Undecided("vote") /\ VoterGone
  /\ delay' = "running" /\ Raise
  /\ UNCHANGED <<state, timeout, overload, waits, round, enabled, people, known>>

AdvanceVoteOpens ==
  /\ Undecided("vote") /\ ~ VoterGone /\ timeout = "none"
  /\ vote' = [p \in Player |-> None]
  /\ timeout' = "running" /\ delay' = "running" /\ Return
  /\ UNCHANGED <<state, overload, waits, round, enabled,
                 role, active, guarded, traits, known>>

(* The votes are in: the most hated player, or anybody if nobody voted.    *)
Votes(v) == Cardinality({p \in Players : vote[p] = v})
Votees == {v \in Players : Votes(v) > 0}
Candidates == IF Votees = {} THEN Players
              ELSE {v \in Votees : \A w \in Votees : Votes(v) >= Votes(w)}

VoteIsOver == /\ Undecided("vote") /\ ~ VoterGone
              /\ \/ timeout = "over"
                 \/ timeout = "running" /\ \A p \in Players : vote[p] # None

(* The names of the votees are shown, then the victim's statistics kept. *)
VoteFor(v) == VoteIsOver /\ v \in Candidates /\ Votees \cup {v} \subseteq known

AdvanceVoteEscape ==
  /\ \E v \in teleporter :
       /\ VoteFor(v)
       /\ teleporter' \in {teleporter, teleporter \ {v}}
  /\ EnterPhase("kill") /\ Again
  /\ UNCHANGED <<overload, waits, round, enabled,
                 role, active, guarded, force, infested, vote, known>>

(* Mutant: the winner is not looked for after a lynching. *)
AdvanceVoteLynchOnly ==
  /\ \E v \in Players :
       /\ VoteFor(v) /\ role[v] # "idiot"
       /\ Remove({v})
  /\ EnterPhase("kill") /\ Return
  /\ UNCHANGED <<overload, waits, round, enabled, known>>

AdvanceVoteLynch ==
  /\ \E v \in Players :
       /\ VoteFor(v) /\ role[v] # "idiot"
       /\ Remove({v})
  /\ EnterPhase("kill") /\ Again
  /\ UNCHANGED <<overload, waits, round, enabled, known>>

(* The lynched idiot wins the game. *)
AdvanceVoteIdiot ==
  /\ \E v \in Players : VoteFor(v) /\ role[v] = "idiot"
  /\ IF Players \subseteq known
       THEN StopGame /\ UNCHANGED enabled
       ELSE /\ delay' = "running" /\ Raise
            /\ UNCHANGED <<state, timeout, overload, waits, round, enabled, people>>
  /\ UNCHANGED known

AdvanceVoteNames ==
  /\ VoteIsOver
  /\ \E v \in Candidates : ~ Votees \cup {v} \subseteq known
  /\ delay' = "running" /\ Raise
  /\ UNCHANGED <<state, timeout, overload, waits, round, enabled, people, known>>

-----------------------------------------------------------------------------
(* The clock, and a KILL: hKILL runs no hook, so no script hears of it.    *)
TimeoutPasses ==
  /\ Idle /\ timeout = "running" /\ timeout' = "over"
  /\ UNCHANGED <<state, delay, overload, waits, round, enabled, people, known, work>>

DelayPasses ==
  /\ Idle /\ delay = "running" /\ delay' = "over"
  /\ UNCHANGED <<state, timeout, overload, waits, round, enabled, people, known, work>>

OverloadPasses ==
  /\ Idle /\ overload = "running" /\ overload' = "over"
  /\ UNCHANGED <<state, timeout, delay, waits, round, enabled, people, known, work>>

Killed(p) ==
  /\ Idle /\ p \in known /\ Cardinality(Player \ known) < MaxKills
  /\ known' = known \ {p}
  /\ UNCHANGED <<phase, people, work>>

-----------------------------------------------------------------------------
Advance == \/ AdvanceLobby \/ AdvanceStart \/ AdvanceDecided \/ AdvanceRemind
           \/ AdvanceKillOpens \/ AdvanceKillTimesOut
           \/ AdvanceInvestigateOpens \/ AdvanceInvestigateEnds
           \/ AdvanceVoteFails \/ AdvanceVoteOpens \/ AdvanceVoteEscape
           \/ AdvanceVoteLynch \/ AdvanceVoteIdiot \/ AdvanceVoteNames

Handler == Advance \/ DisableStops \/ KillGameStops \/ CheckAlive \/ CheckShield

Command ==
  \/ Chat \/ Enable \/ Disable \/ KillGame
  \/ \E p \in Player :
       \/ Add(p) \/ RemoveMe(p) \/ Leave(p) \/ Highlight(p) \/ Start(p) \/ Smite(p)
       \/ \E staff \in BOOLEAN : Wait(p, staff)
       \/ \E v \in Player : Kill(p, v) \/ Investigate(p, v) \/ Vote(p, v) \/ Guard(p, v)

Clock == TimeoutPasses \/ DelayPasses \/ OverloadPasses

Next == Handler \/ Command \/ Tick \/ Clock \/ \E p \in Player : Killed(p)

Spec == Init /\ [][Next]_vars

(* The main loop runs a handler to its end and ticks every second, and the *)
(* clock moves on, whatever the users do in between; and the dice do not   *)
(* save the owner of a teleporter for ever.                                *)
Fairness == /\ WF_vars(Handler) /\ SF_vars(Tick)
            /\ SF_vars(TimeoutPasses) /\ SF_vars(DelayPasses)
            /\ SF_vars(AdvanceVoteLynch \/ AdvanceVoteIdiot)

FairSpec == Spec /\ Fairness

-----------------------------------------------------------------------------
TypeOK ==
  /\ state \in {"lobby", "kill", "investigate", "vote"}
  /\ timeout \in Deadline /\ delay \in Deadline \ {"none"} /\ overload \in Deadline
  /\ waits \in 0..MaxWaits /\ round \in 0..RoundCap /\ enabled \in BOOLEAN
  /\ role \in [Player -> Roles \cup {"none", "lobby"}]
  /\ vote \in [Player -> Player \cup {None}]
  /\ active \subseteq Player /\ guarded \subseteq Player
  /\ force \subseteq Player /\ infested \subseteq Player /\ teleporter \subseteq Player
  /\ known \subseteq Player
  /\ work \in Seq({"advance", "disable", "stop", "check_alive", "check_shield"})

(* ls_get_vote_result looks up the role of every vote's target: each vote  *)
(* that is kept is by a player and for a player, whatever order players    *)
(* vote, die, leave and fall asleep in.                                    *)
VotesAmongPlayers ==
  \A p \in Player : vote[p] # None => p \in Players /\ vote[p] \in Players

(* Flags and traits do not outlive the player that has them. *)
NothingOutlivesAPlayer ==
  active \cup guarded \cup force \cup infested \cup teleporter \subseteq Players

(* There is one force field: at most one player is protected, and only     *)
(* while somebody still has the generator.                                 *)
OneForceField ==
  /\ Cardinality(guarded) <= 1 /\ Cardinality(force) <= 1
  /\ guarded # {} => force # {}

(* Between two handlers every phase of a game has a deadline, so silence   *)
(* cannot stop it.                                                         *)
PhaseHasDeadline == Idle /\ InProgress => timeout # "none"

(* Between two handlers the lobby holds waiting players only and a game    *)
(* holds none.                                                             *)
RolesMatchPhase ==
  Idle => \A p \in Players : role[p] = "lobby" <=> ~ InProgress

(* At most one scientist may kill and at most one investigator may         *)
(* investigate.                                                            *)
OneActor == \A r \in {"scientist", "investigator"} :
              Cardinality(active \cap With(r)) <= 1

(* The game that is seen when the roles of the lobby are left out: an      *)
(* entry that a handler abandoned half-way has given a role has none there *)
(* until the game starts.                                                  *)
Side == [p \in Player |-> IF InProgress THEN role[p] ELSE "none"]

Rules == INSTANCE Game WITH stage <- state, playing <- Players, side <- Side

(* Commands, ticks and quits in any order, and handlers that are abandoned *)
(* half-way, make moves of the game only: nobody joins one that runs or    *)
(* changes sides, no phase is skipped or repeated, and no phase takes more *)
(* victims than its rules say.                                             *)
ImplementsGame == Rules!Spec

(* When ls_advance_state returns, the game it leaves running is not one    *)
(* that is decided already: kills and lynchings cannot slip past the check *)
(* for a winner, whatever happened to other players before.                *)
DecidedGameIsNoticed ==
  [][Advancing /\ work' # work /\ InProgress' => ~ Decided']_vars

(* ls_advance_state: "make sure there's progress towards the game's end".  *)
(* Every game ends, also when nobody gives a command any more.             *)
GameEnds == InProgress ~> ~ InProgress

=============================================================================
