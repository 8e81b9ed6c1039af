---------------------------- MODULE LabspaceProofs ----------------------------
(***************************************************************************)
(* The game of labspace, proved for any set of players and any tables of   *)
(* roles.                                                                  *)
(*                                                                         *)
(* What a handler leaves of the votes and of the flags and traits is sound *)
(* although handlers are abandoned half-way.  The rest holds as long as no *)
(* client has been KILLed: a guard that fails half-way protects two, a     *)
(* game that fails to stop keeps its players, and so on.                   *)
(***************************************************************************)
EXTENDS Labspace, FiniteSetTheorems, TLAPS

Unhurt == known = Player

-----------------------------------------------------------------------------
(* A set of players has at most one element when any two of them are equal. *)
LEMMA AtMostOne ==
  ASSUME NEW S \in SUBSET Player
  PROVE  Cardinality(S) <= 1 <=> \A x, y \in S : x = y
<1>1. IsFiniteSet(S) /\ Cardinality(S) \in Nat
  BY PlayersFinite, FS_Subset, FS_CardinalityType
<1>2. ASSUME Cardinality(S) <= 1 PROVE \A x, y \in S : x = y
  <2>1. Cardinality(S) = 0 \/ Cardinality(S) = 1
    BY <1>1, <1>2
  <2>2. S = {} \/ \E x : S = {x}
    BY <1>1, <2>1, FS_EmptySet, FS_Singleton
  <2> QED BY <2>2
<1>3. ASSUME \A x, y \in S : x = y PROVE Cardinality(S) <= 1
  <2>1. S = {} \/ \E x : S = {x}
    BY <1>3
  <2>2. Cardinality(S) = 0 \/ Cardinality(S) = 1
    BY <1>1, <2>1, FS_EmptySet, FS_Singleton
  <2> QED BY <2>2
<1> QED BY <1>2, <1>3

(* OneForceField and OneActor without cardinalities. *)
OneField ==
  /\ \A x, y \in guarded : x = y
  /\ \A x, y \in force : x = y
  /\ guarded # {} => force # {}

OneTurn ==
  \A r \in {"scientist", "investigator"} : \A x, y \in active \cap With(r) : x = y

(* The part of TypeOK that is about people. *)
PeopleType ==
  /\ role \in [Player -> Roles \cup {"none", "lobby"}]
  /\ vote \in [Player -> Player \cup {None}]
  /\ active \subseteq Player /\ guarded \subseteq Player
  /\ force \subseteq Player /\ infested \subseteq Player /\ teleporter \subseteq Player

PhaseType ==
  /\ state \in {"lobby", "kill", "investigate", "vote"}
  /\ timeout \in Deadline /\ delay \in Deadline \ {"none"} /\ overload \in Deadline
  /\ waits \in 0..MaxWaits /\ round \in 0..RoundCap /\ enabled \in BOOLEAN
  /\ known \subseteq Player

WorkType == work \in Seq({"advance", "disable", "stop", "check_alive", "check_shield"})

LEMMA OneFieldMeans == ASSUME PeopleType PROVE OneField <=> OneForceField
  BY AtMostOne DEF PeopleType, OneField, OneForceField

LEMMA OneTurnMeans == ASSUME PeopleType PROVE OneTurn <=> OneActor
<1>1. \A r \in {"scientist", "investigator"} : active \cap With(r) \in SUBSET Player
  BY DEF PeopleType
<1> QED BY <1>1, AtMostOne DEF OneTurn, OneActor

-----------------------------------------------------------------------------
(* What a step of the game may do to the people in it: ten kinds of change *)
(* for some thirty actions.                                                *)
Removal == \E gone \in SUBSET Player : Remove(gone)

Dealing == ~ InProgress /\ StartGame

Joining ==
  /\ ~ InProgress
  /\ \E p \in Player \ Players : role' = [role EXCEPT ![p] = "lobby"]
  /\ UNCHANGED <<active, guarded, traits, vote>>

Voting ==
  /\ \E p, v \in Players : vote' = [vote EXCEPT ![p] = v]
  /\ UNCHANGED <<role, active, guarded, traits>>

Recount ==
  /\ vote' = [p \in Player |-> None]
  /\ UNCHANGED <<role, active, guarded, traits>>

Guarding ==
  /\ force # {}
  /\ \E v \in Players : /\ guarded' \subseteq guarded \cup {v}
                        /\ Unhurt => guarded' = {v}
  /\ UNCHANGED <<role, active, traits, vote>>

Deflecting ==
  /\ \E v \in guarded : guarded' = guarded \ {v}
  /\ force' = {}
  /\ UNCHANGED <<role, active, infested, teleporter, vote>>

Turning ==
  /\ \E r \in {"scientist", "investigator"} : \E a \in With(r), some \in SUBSET With(r) :
       Activate(a, some) /\ (Unhurt => some = With(r))
  /\ UNCHANGED <<role, guarded, traits, vote>>

Escaping ==
  /\ teleporter' \subseteq teleporter
  /\ UNCHANGED <<role, active, guarded, force, infested, vote>>

PeopleStep ==
  \/ UNCHANGED people \/ Removal \/ Dealing \/ Joining \/ Voting
  \/ Recount \/ Guarding \/ Deflecting \/ Turning \/ Escaping

(* ls_stop_game removes some or all. *)
LEMMA StopRemoves == StopGame => Removal
  BY DEF StopGame, Removal, Players

LEMMA AdvanceIsPeopleStep == ASSUME PeopleType, PhaseType, Advance PROVE PeopleStep
<1>1. CASE AdvanceLobby
  BY <1>1, StopRemoves DEF AdvanceLobby, PeopleStep
<1>2. CASE AdvanceStart
  BY <1>2 DEF AdvanceStart, PeopleStep, Dealing
<1>3. CASE AdvanceDecided
  BY <1>3, StopRemoves DEF AdvanceDecided, PeopleStep
<1>4. CASE AdvanceKillOpens
  <2>1. PICK a \in With("scientist"), some \in SUBSET With("scientist") :
          Activate(a, some) /\ (Unhurt => some = With("scientist"))
    BY <1>4 DEF AdvanceKillOpens, Unhurt, With
  <2> QED BY <1>4, <2>1 DEF AdvanceKillOpens, PeopleStep, Turning
<1>5. CASE AdvanceInvestigateOpens
  <2>1. PICK a \in With("investigator"), some \in SUBSET With("investigator") :
          Activate(a, some) /\ (Unhurt => some = With("investigator"))
    BY <1>5 DEF AdvanceInvestigateOpens, Unhurt, With
  <2> QED BY <1>5, <2>1 DEF AdvanceInvestigateOpens, PeopleStep, Turning
<1>6. CASE AdvanceVoteOpens
  BY <1>6 DEF AdvanceVoteOpens, PeopleStep, Recount
<1>7. CASE AdvanceVoteEscape
  BY <1>7 DEF AdvanceVoteEscape, PeopleStep, Escaping
<1>8. CASE AdvanceVoteLynch
  BY <1>8 DEF AdvanceVoteLynch, PeopleStep, Removal, Players
<1>9. CASE AdvanceVoteIdiot
  BY <1>9, StopRemoves DEF AdvanceVoteIdiot, PeopleStep
<1>10. CASE AdvanceRemind \/ AdvanceKillTimesOut \/ AdvanceInvestigateEnds
            \/ AdvanceVoteFails \/ AdvanceVoteNames
  BY <1>10 DEF AdvanceRemind, AdvanceKillTimesOut, AdvanceInvestigateEnds, AdvanceVoteFails,
               AdvanceVoteNames, PeopleStep
<1> QED BY <1>1, <1>2, <1>3, <1>4, <1>5, <1>6, <1>7, <1>8, <1>9, <1>10 DEF Advance

LEMMA CommandIsPeopleStep == ASSUME PeopleType, PhaseType, Command PROVE PeopleStep
<1>1. CASE Chat \/ Enable \/ Disable \/ KillGame
  BY <1>1 DEF Chat, Enable, Disable, KillGame, PeopleStep
<1>2. ASSUME NEW p \in Player, Highlight(p) \/ Start(p) \/ \E staff \in BOOLEAN : Wait(p, staff)
      PROVE  PeopleStep
  BY <1>2 DEF Highlight, Start, Wait, PeopleStep
<1>3. ASSUME NEW p \in Player, Add(p) PROVE PeopleStep
  BY <1>3 DEF Add, PeopleStep, Joining, PhaseType
<1>4. ASSUME NEW p \in Player, RemoveMe(p) \/ Leave(p) \/ Smite(p) PROVE PeopleStep
  BY <1>4 DEF RemoveMe, Leave, Smite, PeopleStep, Removal
<1>5. ASSUME NEW p \in Player, NEW v \in Player, Kill(p, v) PROVE PeopleStep
  <2>1. \/ UNCHANGED people
        \/ v \in guarded /\ guarded' = guarded \ {v} /\ force' = {}
           /\ UNCHANGED <<role, active, infested, teleporter, vote>>
        \/ Remove({p, v}) \/ Remove({v})
    BY <1>5 DEF Kill
  <2> QED BY <2>1 DEF PeopleStep, Removal, Deflecting
<1>6. ASSUME NEW p \in Player, NEW v \in Player, Investigate(p, v) PROVE PeopleStep
  BY <1>6 DEF Investigate, PeopleStep
<1>7. ASSUME NEW p \in Player, NEW v \in Player, Vote(p, v) PROVE PeopleStep
  BY <1>7 DEF Vote, PeopleStep, Voting
<1>8. ASSUME NEW p \in Player, NEW v \in Player, Guard(p, v) PROVE PeopleStep
  <2>1. force # {} /\ v \in Players
    BY <1>8 DEF Guard
  <2>2. guarded' \subseteq guarded \cup {v} /\ (Unhurt => guarded' = {v})
    BY <1>8 DEF Guard, Unhurt, PeopleType
  <2> QED BY <1>8, <2>1, <2>2 DEF Guard, PeopleStep, Guarding
<1> QED BY <1>1, <1>2, <1>3, <1>4, <1>5, <1>6, <1>7, <1>8 DEF Command

LEMMA EveryStepIsPeopleStep == ASSUME PeopleType, PhaseType, [Next]_vars PROVE PeopleStep
<1>1. CASE Advance
  BY <1>1, AdvanceIsPeopleStep
<1>2. CASE Command
  BY <1>2, CommandIsPeopleStep
<1>3. CASE DisableStops \/ KillGameStops
  BY <1>3, StopRemoves DEF DisableStops, KillGameStops, PeopleStep
<1>4. CASE CheckAlive
  BY <1>4 DEF CheckAlive, PeopleStep, Removal, Players
<1>5. CASE CheckShield
  <2>1. PICK blown \in SUBSET Player : Remove(blown) \/ UNCHANGED people
    BY <1>5 DEF CheckShield, PeopleType
  <2> QED BY <2>1 DEF PeopleStep, Removal
<1>6. CASE Tick \/ Clock \/ \E p \in Player : Killed(p)
  BY <1>6 DEF Tick, Clock, TimeoutPasses, DelayPasses, OverloadPasses, Killed, PeopleStep
<1>7. CASE UNCHANGED vars
  BY <1>7 DEF vars, PeopleStep
<1> QED BY <1>1, <1>2, <1>3, <1>4, <1>5, <1>6, <1>7 DEF Next, Handler

-----------------------------------------------------------------------------
(* What each kind of change keeps. *)
LEMMA RemovalKeeps ==
  ASSUME PeopleType, VotesAmongPlayers, NothingOutlivesAPlayer, Removal
  PROVE  /\ PeopleType' /\ VotesAmongPlayers' /\ NothingOutlivesAPlayer'
         /\ OneField => OneField'
         /\ OneTurn => OneTurn'
         /\ Players' \subseteq Players
         /\ \A p \in Players' : role'[p] = role[p]
<1> PICK gone \in SUBSET Player : Remove(gone)
  BY DEF Removal
<1>1. PeopleType'
  BY DEF Remove, PeopleType
<1>2. Players' = Players \ gone /\ \A p \in Players' : role'[p] = role[p]
  BY DEF Remove, Players, PeopleType
<1>3. VotesAmongPlayers'
  BY <1>2, PlayersFinite DEF Remove, VotesAmongPlayers, PeopleType
<1>4. NothingOutlivesAPlayer'
  BY <1>2 DEF Remove, NothingOutlivesAPlayer
<1>5. OneField => OneField'
  BY DEF Remove, OneField
<1>6. OneTurn => OneTurn'
  <2>1. \A r \in {"scientist", "investigator"} : With(r)' \subseteq With(r)
    BY DEF Remove, With, PeopleType
  <2>2. active' \subseteq active
    BY DEF Remove
  <2> QED BY <2>1, <2>2 DEF OneTurn
<1> QED BY <1>1, <1>2, <1>3, <1>4, <1>5, <1>6

LEMMA DealingKeeps ==
  ASSUME PeopleType, StartGame
  PROVE  /\ PeopleType' /\ VotesAmongPlayers' /\ NothingOutlivesAPlayer'
         /\ OneField' /\ OneTurn'
         /\ Players' = Players /\ \A p \in Players' : role'[p] \in Roles
<1>1. PICK S, I, D \in SUBSET Players :
        role' = [p \in Player |-> CASE p \in S -> "scientist"
                                     [] p \in I -> "investigator"
                                     [] p \in D -> "idiot"
                                     [] p \in Players \ (S \cup I \cup D) -> "citizen"
                                     [] OTHER -> "none"]
  BY DEF StartGame
<1>2. \A p \in Player : /\ role'[p] \in Roles \cup {"none"}
                        /\ role'[p] # "none" <=> p \in Players
  BY <1>1 DEF Roles, Players
<1>3. role' \in [Player -> Roles \cup {"none", "lobby"}]
  <2>1. role' = [p \in Player |-> role'[p]]
    BY <1>1
  <2> QED BY <1>2, <2>1
<1>4. Players' = Players /\ \A p \in Players' : role'[p] \in Roles
  BY <1>2 DEF Players
<1>5. vote' = [p \in Player |-> None] /\ active' = {}
  BY DEF StartGame
<1>6. \/ \E o, a, t \in Players :
           /\ force' \in {{o}, {}} /\ guarded' = force'
           /\ infested' \in {{a}, {}} /\ teleporter' = {t}
      \/ force' = {} /\ guarded' = {} /\ infested' = {} /\ teleporter' = {}
  BY DEF StartGame
<1>7. Players \subseteq Player
  BY DEF Players
<1>8. PeopleType'
  BY <1>3, <1>5, <1>6, <1>7 DEF PeopleType
<1>9. VotesAmongPlayers' /\ NothingOutlivesAPlayer'
  BY <1>4, <1>5, <1>6 DEF VotesAmongPlayers, NothingOutlivesAPlayer
<1>10. OneField' /\ OneTurn'
  BY <1>5, <1>6 DEF OneField, OneTurn
<1> QED BY <1>4, <1>8, <1>9, <1>10

LEMMA JoiningKeeps ==
  ASSUME PeopleType, VotesAmongPlayers, NothingOutlivesAPlayer, Joining
  PROVE  /\ PeopleType' /\ VotesAmongPlayers' /\ NothingOutlivesAPlayer'
         /\ OneField => OneField'
         /\ OneTurn => OneTurn'
<1> PICK p \in Player \ Players : role' = [role EXCEPT ![p] = "lobby"]
  BY DEF Joining
<1>1. Players' = Players \cup {p}
  BY DEF Players, PeopleType
<1>2. \A r \in {"scientist", "investigator"} : With(r)' = With(r)
  BY DEF With, PeopleType, Players
<1>3. PeopleType'
  BY DEF Joining, PeopleType, traits
<1>4. VotesAmongPlayers' /\ NothingOutlivesAPlayer'
  BY <1>1 DEF Joining, VotesAmongPlayers, NothingOutlivesAPlayer, traits
<1>5. (OneField => OneField') /\ (OneTurn => OneTurn')
  BY <1>2 DEF Joining, OneField, OneTurn, traits
<1> QED BY <1>3, <1>4, <1>5

(* The changes that leave the roles alone. *)
RolesStay ==
  UNCHANGED people \/ Voting \/ Recount \/ Guarding \/ Deflecting \/ Turning \/ Escaping

LEMMA RolesStayKeeps ==
  ASSUME PeopleType, VotesAmongPlayers, NothingOutlivesAPlayer, RolesStay
  PROVE  /\ PeopleType' /\ VotesAmongPlayers' /\ NothingOutlivesAPlayer'
         /\ Unhurt /\ OneField => OneField'
         /\ Unhurt /\ OneTurn => OneTurn'
         /\ role' = role
<1>1. role' = role
  BY DEF RolesStay, people, Voting, Recount, Guarding, Deflecting, Turning, Escaping
<1>2. /\ Players' = Players /\ Players \subseteq Player
      /\ \A r \in {"scientist", "investigator"} : With(r)' = With(r)
  BY <1>1 DEF Players, With
<1>3. CASE UNCHANGED people \/ Escaping
  BY <1>1, <1>2, <1>3
     DEF people, traits, Escaping, PeopleType, VotesAmongPlayers, NothingOutlivesAPlayer,
         OneField, OneTurn
<1>4. CASE Voting \/ Recount
  <2>1. vote' \in [Player -> Player \cup {None}]
    BY <1>2, <1>4 DEF Voting, Recount, PeopleType
  <2>2. VotesAmongPlayers'
    BY <1>2, <1>4 DEF Voting, Recount, VotesAmongPlayers, PeopleType
  <2>3. UNCHANGED <<role, active, guarded, force, infested, teleporter>>
    BY <1>4 DEF Voting, Recount, traits
  <2> QED BY <1>2, <2>1, <2>2, <2>3 DEF PeopleType, NothingOutlivesAPlayer, OneField, OneTurn
<1>5. CASE Guarding
  <2>1. UNCHANGED <<role, active, force, infested, teleporter, vote>> /\ force # {}
    BY <1>5 DEF Guarding, traits
  <2>2. PICK v \in Players : guarded' \subseteq guarded \cup {v} /\ (Unhurt => guarded' = {v})
    BY <1>5 DEF Guarding
  <2> QED BY <1>2, <2>1, <2>2
          DEF PeopleType, VotesAmongPlayers, NothingOutlivesAPlayer, OneField, OneTurn
<1>6. CASE Deflecting
  <2>1. UNCHANGED <<role, active, infested, teleporter, vote>> /\ force' = {}
    BY <1>6 DEF Deflecting
  <2>2. PICK v \in guarded : guarded' = guarded \ {v}
    BY <1>6 DEF Deflecting
  <2> QED BY <1>2, <2>1, <2>2
          DEF PeopleType, VotesAmongPlayers, NothingOutlivesAPlayer, OneField, OneTurn
<1>7. CASE Turning
  <2>1. UNCHANGED <<role, guarded, force, infested, teleporter, vote>>
    BY <1>7 DEF Turning, traits
  <2>2. PICK r \in {"scientist", "investigator"} : \E a \in With(r), some \in SUBSET With(r) :
          active' = (active \ some) \cup (some \cap {a}) /\ (Unhurt => some = With(r))
    BY <1>7 DEF Turning, Activate
  <2> PICK a \in With(r), some \in SUBSET With(r) :
        active' = (active \ some) \cup (some \cap {a}) /\ (Unhurt => some = With(r))
    BY <2>2
  <2>3. With(r) \subseteq Players
    BY DEF With, Players
  <2>4. Unhurt /\ OneTurn => OneTurn'
    <3> SUFFICES ASSUME Unhurt, OneTurn, NEW q \in {"scientist", "investigator"},
                        NEW x \in active' \cap With(q), NEW y \in active' \cap With(q)
                 PROVE  x = y
      BY <1>2 DEF OneTurn
    <3>1. active' = (active \ With(r)) \cup (With(r) \cap {a})
      OBVIOUS
    <3>2. q # r => x \notin With(r) /\ y \notin With(r)
      BY DEF With
    <3> QED BY <3>1, <3>2 DEF OneTurn
  <2> QED BY <1>2, <2>1, <2>2, <2>3, <2>4
          DEF PeopleType, VotesAmongPlayers, NothingOutlivesAPlayer, OneField
<1> QED BY <1>1, <1>3, <1>4, <1>5, <1>6, <1>7 DEF RolesStay

LEMMA PeopleKept ==
  ASSUME PeopleType, PhaseType, VotesAmongPlayers, NothingOutlivesAPlayer, [Next]_vars
  PROVE  /\ PeopleType' /\ VotesAmongPlayers' /\ NothingOutlivesAPlayer'
         /\ Unhurt /\ OneField => OneField'
         /\ Unhurt /\ OneTurn => OneTurn'
<1>1. CASE Removal
  BY <1>1, RemovalKeeps
<1>2. CASE Dealing
  BY <1>2, DealingKeeps DEF Dealing
<1>3. CASE Joining
  BY <1>3, JoiningKeeps
<1>4. CASE RolesStay
  BY <1>4, RolesStayKeeps
<1> QED BY <1>1, <1>2, <1>3, <1>4, EveryStepIsPeopleStep DEF PeopleStep, RolesStay

-----------------------------------------------------------------------------
(* The stack of calls. *)
Calls == {"advance", "disable", "stop", "check_alive", "check_shield"}

LEMMA WorkMoves ==
  ASSUME WorkType
  PROVE  /\ \A f \in Calls : work' = <<f>> => WorkType' /\ ~ Idle' /\ Head(work') = f
         /\ ~ Idle /\ Return => WorkType'
         /\ ~ Idle /\ Again => WorkType' /\ ~ Idle' /\ Head(work') = "advance"
         /\ Raise => WorkType' /\ Idle'
         /\ UNCHANGED work => WorkType'
<1> work \in Seq(Calls)
  BY DEF WorkType, Calls
<1>1. ASSUME NEW f \in Calls, work' = <<f>> PROVE WorkType' /\ ~ Idle' /\ Head(work') = f
  BY <1>1 DEF WorkType, Calls, Idle
<1>2. ASSUME ~ Idle PROVE Tail(work) \in Seq(Calls)
  BY <1>2 DEF Idle
<1>3. ASSUME ~ Idle, Return PROVE WorkType'
  BY <1>2, <1>3 DEF WorkType, Calls, Return
<1>4. ASSUME ~ Idle, Again PROVE WorkType' /\ ~ Idle' /\ Head(work') = "advance"
  <2>1. <<"advance">> \in Seq(Calls)
    BY DEF Calls
  <2>2. work' \in Seq(Calls) /\ Len(work') = 1 + Len(Tail(work)) /\ work'[1] = "advance"
    BY <1>2, <1>4, <2>1 DEF Again
  <2>3. Len(Tail(work)) \in Nat
    BY <1>2, <1>4
  <2> QED BY <2>2, <2>3 DEF WorkType, Calls, Idle
<1>5. Raise => WorkType' /\ Idle'
  BY DEF Raise, WorkType, Idle
<1>6. UNCHANGED work => WorkType'
  BY DEF WorkType
<1> QED BY <1>1, <1>3, <1>4, <1>5, <1>6

LEMMA TickWork == ASSUME Tick PROVE WorkType'
<1>1. PICK a \in {<<>>, <<"advance">>}, alive \in {<<>>, <<"check_alive">>} :
        work' = a \o alive \o <<"check_shield">>
  BY DEF Tick
<1>2. /\ <<>> \in Seq(Calls) /\ <<"advance">> \in Seq(Calls)
      /\ <<"check_alive">> \in Seq(Calls) /\ <<"check_shield">> \in Seq(Calls)
  BY DEF Calls
<1>3. a \in Seq(Calls) /\ alive \in Seq(Calls)
  BY <1>2
<1>4. a \o alive \in Seq(Calls)
  BY <1>3
<1>5. work' \in Seq(Calls)
  BY <1>1, <1>2, <1>4
<1> QED BY <1>5 DEF WorkType, Calls

LEMMA StopKeepsType == ASSUME PhaseType, WorkType, ~ Idle, StopGame
                       PROVE  WorkType' /\ state' = "lobby" /\ timeout' = "none"
                              /\ delay' = "running" /\ waits' = 0
                              /\ overload' = overload /\ round' = round
<1>1. /\ state' = "lobby" /\ timeout' = "none" /\ delay' = "running" /\ waits' = 0
      /\ overload' = overload /\ round' = round
  BY DEF StopGame, EnterPhase
<1>2. Return \/ Raise
  BY DEF StopGame
<1>3. WorkType'
  BY <1>2, WorkMoves
<1> QED BY <1>1, <1>3

LEMMA AdvanceKeepsType == ASSUME PhaseType, WorkType, Advance PROVE PhaseType' /\ WorkType'
<1>0. ~ Idle /\ known' = known /\ enabled' = enabled /\ 0 \in 0..MaxWaits /\ 0 \in 0..RoundCap
  <2>1. 0 \in 0..MaxWaits /\ 0 \in 0..RoundCap
    BY CountsNat
  <2>2. ~ Idle
    BY DEF Advance, AdvanceLobby, AdvanceStart, AdvanceDecided, AdvanceRemind, AdvanceKillOpens,
           AdvanceKillTimesOut, AdvanceInvestigateOpens, AdvanceInvestigateEnds,
           AdvanceVoteFails, AdvanceVoteOpens, AdvanceVoteEscape, AdvanceVoteLynch,
           AdvanceVoteIdiot, AdvanceVoteNames, VoteIsOver, VoteFor, Undecided, Advancing, Running
  <2>3. known' = known
    BY DEF Advance, AdvanceLobby, AdvanceStart, AdvanceDecided, AdvanceRemind, AdvanceKillOpens,
           AdvanceKillTimesOut, AdvanceInvestigateOpens, AdvanceInvestigateEnds,
           AdvanceVoteFails, AdvanceVoteOpens, AdvanceVoteEscape, AdvanceVoteLynch,
           AdvanceVoteIdiot, AdvanceVoteNames
  <2>4. enabled' = enabled
    BY DEF Advance, AdvanceLobby, AdvanceStart, StartGame, AdvanceDecided, AdvanceRemind,
           AdvanceKillOpens, AdvanceKillTimesOut, AdvanceInvestigateOpens,
           AdvanceInvestigateEnds, AdvanceVoteFails, AdvanceVoteOpens, AdvanceVoteEscape,
           AdvanceVoteLynch, AdvanceVoteIdiot, AdvanceVoteNames
  <2> QED BY <2>1, <2>2, <2>3, <2>4
<1>1. CASE StopGame
  BY <1>0, <1>1, StopKeepsType DEF PhaseType, Deadline
<1>2. CASE AdvanceStart
  <2>1. /\ overload' = "none" /\ round' = 0 /\ waits' = waits
        /\ \/ state' = "kill" /\ timeout' = "none" /\ delay' = "running" /\ Again
           \/ state' = state /\ timeout' = timeout /\ delay' = "running" /\ Raise
    BY <1>2 DEF AdvanceStart, StartGame, EnterPhase
  <2> QED BY <1>0, <2>1, WorkMoves DEF PhaseType, Deadline
<1>3. CASE AdvanceKillOpens
  <2>1. /\ state' = state /\ waits' = waits /\ delay' = "running"
        /\ overload' \in {"running", overload} /\ timeout' \in {"running", timeout}
        /\ Return \/ Raise
    BY <1>3 DEF AdvanceKillOpens
  <2>2. round' \in {round, IF round < RoundCap THEN round + 1 ELSE round}
    BY <1>3 DEF AdvanceKillOpens
  <2>3. round' \in 0..RoundCap
    BY <2>2, CountsNat DEF PhaseType
  <2> QED BY <1>0, <2>1, <2>3, WorkMoves DEF PhaseType, Deadline
<1>4. CASE AdvanceInvestigateOpens
  BY <1>0, <1>4, WorkMoves DEF AdvanceInvestigateOpens, PhaseType, Deadline
<1>5. CASE AdvanceKillTimesOut \/ AdvanceInvestigateEnds \/ AdvanceVoteEscape \/ AdvanceVoteLynch
  BY <1>0, <1>5, WorkMoves
     DEF AdvanceKillTimesOut, AdvanceInvestigateEnds, AdvanceVoteEscape, AdvanceVoteLynch,
         EnterPhase, PhaseType, Deadline
<1>6. CASE AdvanceRemind \/ AdvanceVoteFails \/ AdvanceVoteOpens \/ AdvanceVoteNames
  BY <1>0, <1>6, WorkMoves
     DEF AdvanceRemind, AdvanceVoteFails, AdvanceVoteOpens, AdvanceVoteNames, PhaseType, Deadline
<1>7. CASE (AdvanceLobby \/ AdvanceDecided \/ AdvanceVoteIdiot) /\ ~ StopGame
  BY <1>0, <1>7, WorkMoves DEF AdvanceLobby, AdvanceDecided, AdvanceVoteIdiot, PhaseType, Deadline
<1> QED BY <1>1, <1>2, <1>3, <1>4, <1>5, <1>6, <1>7 DEF Advance

LEMMA CommandKeepsType == ASSUME PhaseType, WorkType, Command PROVE PhaseType' /\ WorkType'
<1>1. CASE Chat \/ Enable
  BY <1>1, WorkMoves DEF Chat, Enable, PhaseType, Deadline
<1>2. CASE Disable \/ KillGame
  BY <1>2, WorkMoves DEF Disable, KillGame, Call, Calls, phase, PhaseType
<1>3. ASSUME NEW p \in Player, Add(p) \/ RemoveMe(p) \/ Highlight(p)
      PROVE  PhaseType' /\ WorkType'
  BY <1>3, WorkMoves DEF Add, RemoveMe, Highlight, PhaseType, Deadline
<1>4. ASSUME NEW p \in Player, Leave(p) \/ Start(p) \/ Smite(p) PROVE PhaseType' /\ WorkType'
  BY <1>4, WorkMoves DEF Leave, Start, Smite, Call, Calls, phase, PhaseType, Deadline
<1>5. ASSUME NEW p \in Player, NEW staff \in BOOLEAN, Wait(p, staff)
      PROVE  PhaseType' /\ WorkType'
  <2>1. waits' \in 0..MaxWaits
    BY <1>5, CountsNat DEF Wait, PhaseType
  <2> QED BY <1>5, <2>1, WorkMoves DEF Wait, PhaseType, Deadline
<1>6. ASSUME NEW p \in Player, NEW v \in Player, Kill(p, v) \/ Investigate(p, v)
      PROVE  PhaseType' /\ WorkType'
  BY <1>6, WorkMoves DEF Kill, Investigate, EnterPhase, Call, Calls, PhaseType, Deadline
<1>7. ASSUME NEW p \in Player, NEW v \in Player, Vote(p, v) \/ Guard(p, v)
      PROVE  PhaseType' /\ WorkType'
  BY <1>7, WorkMoves DEF Vote, Guard, Call, Calls, phase, PhaseType, Deadline
<1> QED BY <1>1, <1>2, <1>3, <1>4, <1>5, <1>6, <1>7 DEF Command

LEMMA TypeKept == ASSUME PhaseType, WorkType, [Next]_vars PROVE PhaseType' /\ WorkType'
<1>1. CASE Advance
  BY <1>1, AdvanceKeepsType
<1>2. CASE Command
  BY <1>2, CommandKeepsType
<1>3. CASE DisableStops \/ KillGameStops
  <2>0. 0 \in 0..MaxWaits
    BY CountsNat
  <2>1. ~ Idle /\ StopGame /\ known' = known /\ enabled' \in BOOLEAN
    BY <1>3 DEF DisableStops, KillGameStops, Running, PhaseType
  <2>2. /\ WorkType' /\ state' = "lobby" /\ timeout' = "none" /\ delay' = "running"
        /\ waits' = 0 /\ overload' = overload /\ round' = round
    BY <2>1, StopKeepsType
  <2> QED BY <2>0, <2>1, <2>2 DEF PhaseType, Deadline
<1>4. CASE CheckAlive \/ CheckShield
  <2>1. ~ Idle /\ (Return \/ Raise) /\ UNCHANGED <<phase, known>>
    BY <1>4 DEF CheckAlive, CheckShield, Running
  <2> QED BY <2>1, WorkMoves DEF phase, PhaseType
<1>5. CASE Tick
  BY <1>5, TickWork DEF Tick, phase, PhaseType
<1>6. CASE Clock
  BY <1>6, WorkMoves DEF Clock, TimeoutPasses, DelayPasses, OverloadPasses, PhaseType, Deadline
<1>7. CASE \E p \in Player : Killed(p)
  BY <1>7, WorkMoves DEF Killed, phase, PhaseType
<1>8. CASE UNCHANGED vars
  BY <1>8, WorkMoves DEF vars, phase, PhaseType
<1> QED BY <1>1, <1>2, <1>3, <1>4, <1>5, <1>6, <1>7, <1>8 DEF Next, Handler

-----------------------------------------------------------------------------
(* PhaseHasDeadline and RolesMatchPhase, said of the middle of a handler,  *)
(* too: a phase without a deadline is about to get one.                    *)
DeadlineSet == InProgress /\ timeout = "none" => ~ Idle /\ Head(work) = "advance"
RolesMatch == \A p \in Players : role[p] = "lobby" <=> ~ InProgress
Control == DeadlineSet /\ RolesMatch

(* Nobody joins and nobody gets another role. *)
Kept == /\ Players' \subseteq Players
        /\ \A p \in Players' : role'[p] = role[p]

LEMMA RemoveLeavesTheRest == ASSUME NEW gone \in SUBSET Player, Remove(gone) PROVE Kept
  BY DEF Remove, Kept, Players

LEMMA SameRoles == UNCHANGED role => Kept
  BY DEF Kept, Players

LEMMA StoppedIsOver ==
  ASSUME Unhurt, StopGame
  PROVE  Control' /\ state' = "lobby" /\ Players' = {} /\ Return
<1>1. {p \in Players : role[p] # "lobby" /\ p \notin known} = {}
  BY DEF Unhurt, Players
<1>2. Remove(Players) /\ Return /\ state' = "lobby"
  BY <1>1 DEF StopGame, EnterPhase
<1>3. Players' = {}
  BY <1>2 DEF Remove, Players
<1> QED BY <1>2, <1>3 DEF Control, DeadlineSet, RolesMatch, InProgress

(* A step inside the lobby or inside a game that nobody joins. *)
LEMMA SamePlay ==
  ASSUME RolesMatch, Kept, InProgress' = InProgress
  PROVE  RolesMatch'
  BY DEF RolesMatch, Kept

LEMMA AdvanceKeepsControl ==
  ASSUME PeopleType, WorkType, Unhurt, Control, Advance PROVE Control'
<1>1. CASE StopGame
  BY <1>1, StoppedIsOver
<1>2. CASE AdvanceStart
  <2>1. Players \subseteq known /\ StartGame
    BY <1>2 DEF Unhurt, Players, AdvanceStart
  <2>2. state' = "kill" /\ Again /\ ~ Idle
    BY <1>2, <2>1 DEF StartGame, EnterPhase, AdvanceStart, Advancing, Running
  <2>3. \A p \in Players' : role'[p] \in Roles
    BY <2>1, DealingKeeps
  <2>4. DeadlineSet'
    BY <2>2, WorkMoves DEF DeadlineSet
  <2>5. RolesMatch'
    BY <2>2, <2>3 DEF RolesMatch, Roles, InProgress
  <2> QED BY <2>4, <2>5 DEF Control
<1>3. CASE AdvanceKillTimesOut \/ AdvanceInvestigateEnds \/ AdvanceVoteEscape \/ AdvanceVoteLynch
  <2>1. ~ Idle /\ InProgress /\ InProgress' /\ Again
    BY <1>3 DEF AdvanceKillTimesOut, AdvanceInvestigateEnds, AdvanceVoteEscape, AdvanceVoteLynch,
                VoteFor, VoteIsOver, Undecided, Advancing, Running, EnterPhase, InProgress
  <2>2. Kept
    BY <1>3, RemoveLeavesTheRest, SameRoles
       DEF AdvanceKillTimesOut, AdvanceInvestigateEnds, AdvanceVoteEscape, AdvanceVoteLynch,
           people, Players
  <2>3. DeadlineSet'
    BY <2>1, WorkMoves DEF DeadlineSet
  <2> QED BY <2>1, <2>2, <2>3, SamePlay DEF Control
<1>4. CASE AdvanceRemind \/ AdvanceVoteOpens \/ AdvanceKillOpens \/ AdvanceInvestigateOpens
  <2>1. state' = state /\ Kept
    BY <1>4, SameRoles
       DEF AdvanceRemind, AdvanceVoteOpens, AdvanceKillOpens, AdvanceInvestigateOpens, people
  <2>2. With("scientist") \subseteq known /\ Players \subseteq known
        /\ With("investigator") \subseteq known
    BY DEF Unhurt, With, Players
  <2>3. timeout' = "running"
    BY <1>4, <2>2 DEF AdvanceRemind, AdvanceVoteOpens, AdvanceKillOpens, AdvanceInvestigateOpens
  <2> QED BY <2>1, <2>3, SamePlay DEF Control, DeadlineSet, InProgress
<1>5. CASE (AdvanceLobby \/ AdvanceDecided \/ AdvanceVoteIdiot) /\ ~ StopGame
  <2>1. Players \subseteq known
    BY DEF Unhurt, Players
  <2>2. ~ InProgress /\ state' = state /\ UNCHANGED people
    BY <1>5, <2>1 DEF AdvanceLobby, AdvanceDecided, AdvanceVoteIdiot
  <2>3. Kept
    BY <2>2, SameRoles DEF people
  <2> QED BY <2>2, <2>3, SamePlay DEF Control, DeadlineSet, InProgress
<1>6. ~ AdvanceVoteFails /\ ~ AdvanceVoteNames
  BY DEF AdvanceVoteFails, AdvanceVoteNames, VoterGone, Unhurt, Players, Candidates, Votees
<1> QED BY <1>1, <1>2, <1>3, <1>4, <1>5, <1>6 DEF Advance

LEMMA CommandKeepsControl ==
  ASSUME PeopleType, WorkType, Unhurt, Control, Command PROVE Control'
<1>1. CASE Chat \/ Enable
  <2>1. state' = state /\ timeout' \in {timeout, "running"} /\ work' = work /\ Kept
    BY <1>1, SameRoles DEF Chat, Enable, people
  <2> QED BY <2>1, SamePlay DEF Control, DeadlineSet, InProgress, Idle
<1>2. CASE Disable \/ KillGame
  <2>1. Idle /\ state' = state /\ timeout' = timeout /\ Kept
    BY <1>2, SameRoles DEF Disable, KillGame, Call, phase, people
  <2> QED BY <2>1, SamePlay DEF Control, DeadlineSet, InProgress
<1>3. ASSUME NEW p \in Player, Add(p) PROVE Control'
  <2>1. state' = "lobby" /\ state = "lobby" /\ role' = [role EXCEPT ![p] = "lobby"]
    BY <1>3 DEF Add, InProgress
  <2>2. RolesMatch'
    BY <2>1 DEF Control, RolesMatch, InProgress, Players, PeopleType
  <2> QED BY <2>1, <2>2 DEF Control, DeadlineSet, InProgress
<1>4. ASSUME NEW p \in Player, RemoveMe(p) \/ Highlight(p) \/ Leave(p) PROVE Control'
  <2>1. state' = state /\ timeout' = "running" /\ Kept
    BY <1>4, SameRoles, RemoveLeavesTheRest DEF RemoveMe, Highlight, Leave, people
  <2> QED BY <2>1, SamePlay DEF Control, DeadlineSet, InProgress
<1>5. ASSUME NEW p \in Player, Start(p) \/ Smite(p) PROVE Control'
  <2>1. state' = state /\ work' = <<"advance">> /\ Kept
    BY <1>5, SameRoles, RemoveLeavesTheRest DEF Start, Smite, Call, phase, people
  <2>2. DeadlineSet'
    BY <2>1, WorkMoves DEF DeadlineSet, Calls
  <2> QED BY <2>1, <2>2, SamePlay DEF Control, InProgress
<1>6. ASSUME NEW p \in Player, NEW staff \in BOOLEAN, Wait(p, staff) PROVE Control'
  <2>1. state' = "lobby" /\ state = "lobby" /\ Kept
    BY <1>6, SameRoles DEF Wait, InProgress, people
  <2> QED BY <2>1, SamePlay DEF Control, DeadlineSet, InProgress
<1>7. ASSUME NEW p \in Player, NEW v \in Player, Kill(p, v) \/ Investigate(p, v)
      PROVE  Control'
  <2>1. InProgress /\ InProgress' /\ work' = <<"advance">>
    BY <1>7 DEF Kill, Investigate, EnterPhase, Call, InProgress
  <2>2. Kept
    <3>1. UNCHANGED role \/ Remove({p, v}) \/ Remove({v})
      BY <1>7 DEF Kill, Investigate, people
    <3> QED BY <3>1, SameRoles, RemoveLeavesTheRest
  <2>3. DeadlineSet'
    BY <2>1, WorkMoves DEF DeadlineSet, Calls
  <2> QED BY <2>1, <2>2, <2>3, SamePlay DEF Control
<1>8. ASSUME NEW p \in Player, NEW v \in Player, Vote(p, v) PROVE Control'
  <2>1. state' = state /\ work' = <<"advance">> /\ Kept
    BY <1>8, SameRoles DEF Vote, Call, phase
  <2>2. DeadlineSet'
    BY <2>1, WorkMoves DEF DeadlineSet, Calls
  <2> QED BY <2>1, <2>2, SamePlay DEF Control, InProgress
<1>9. ASSUME NEW p \in Player, NEW v \in Player, Guard(p, v) PROVE Control'
  <2>1. UNCHANGED <<state, timeout, work>> /\ Kept
    BY <1>9, SameRoles DEF Guard, phase
  <2> QED BY <2>1, SamePlay DEF Control, DeadlineSet, InProgress, Idle
<1> QED BY <1>1, <1>2, <1>3, <1>4, <1>5, <1>6, <1>7, <1>8, <1>9 DEF Command

LEMMA ControlKept ==
  ASSUME PeopleType, WorkType, Unhurt, Control, [Next]_vars PROVE Control'
<1>1. CASE Advance
  BY <1>1, AdvanceKeepsControl
<1>2. CASE Command
  BY <1>2, CommandKeepsControl
<1>3. CASE DisableStops \/ KillGameStops
  BY <1>3, StoppedIsOver DEF DisableStops, KillGameStops
<1>4. CASE CheckAlive \/ CheckShield
  <2>1. ~ (InProgress /\ timeout = "none") /\ UNCHANGED <<state, timeout>>
    BY <1>4 DEF Control, DeadlineSet, CheckAlive, CheckShield, Running, phase
  <2>2. PICK gone \in SUBSET Player : Remove(gone) \/ UNCHANGED people
    BY <1>4 DEF CheckAlive, CheckShield, PeopleType, Players
  <2>3. Kept
    BY <2>2, RemoveLeavesTheRest, SameRoles DEF people
  <2> QED BY <2>1, <2>3, SamePlay DEF Control, DeadlineSet, InProgress
<1>5. CASE Tick
  <2>1. ~ (InProgress /\ timeout = "none") /\ UNCHANGED <<state, timeout>> /\ Kept
    BY <1>5, SameRoles DEF Control, DeadlineSet, Tick, phase, people
  <2> QED BY <2>1, SamePlay DEF Control, DeadlineSet, InProgress
<1>6. CASE Clock \/ (\E p \in Player : Killed(p)) \/ UNCHANGED vars
  <2>1. state' = state /\ timeout' \in {timeout, "over"} /\ work' = work /\ Kept
    BY <1>6, SameRoles
       DEF Clock, TimeoutPasses, DelayPasses, OverloadPasses, Killed, vars, phase, people
  <2> QED BY <2>1, SamePlay DEF Control, DeadlineSet, InProgress, Idle
<1> QED BY <1>1, <1>2, <1>3, <1>4, <1>5, <1>6 DEF Next, Handler

-----------------------------------------------------------------------------
(* The inductive invariant: what abandoned handlers cannot hurt, and what  *)
(* holds until the first KILL.                                             *)
IInv ==
  /\ PeopleType /\ PhaseType /\ WorkType
  /\ VotesAmongPlayers /\ NothingOutlivesAPlayer
  /\ Unhurt => OneField /\ OneTurn /\ Control

LEMMA InitEstablishesIInv == Init => IInv
<1> SUFFICES ASSUME Init PROVE IInv
  OBVIOUS
<1>0. 0 \in 0..MaxWaits /\ 0 \in 0..RoundCap
  BY CountsNat
<1>1. PeopleType /\ PhaseType /\ WorkType
  BY <1>0 DEF Init, PeopleType, PhaseType, WorkType, Deadline
<1>2. VotesAmongPlayers /\ NothingOutlivesAPlayer
  BY DEF Init, VotesAmongPlayers, NothingOutlivesAPlayer
<1>3. OneField /\ OneTurn
  BY DEF Init, OneField, OneTurn
<1>4. Control
  BY DEF Init, Control, DeadlineSet, RolesMatch, InProgress, Players
<1> QED BY <1>1, <1>2, <1>3, <1>4 DEF IInv

(* Only a KILL takes a user record away, and none comes back. *)
LEMMA OnlyKillsHurt == ASSUME [Next]_vars PROVE known' = known \/ \E p \in Player : Killed(p)
<1>1. CASE Advance
  BY <1>1
     DEF Advance, AdvanceLobby, AdvanceStart, AdvanceDecided, AdvanceRemind, AdvanceKillOpens,
         AdvanceKillTimesOut, AdvanceInvestigateOpens, AdvanceInvestigateEnds,
         AdvanceVoteFails, AdvanceVoteOpens, AdvanceVoteEscape, AdvanceVoteLynch,
         AdvanceVoteIdiot, AdvanceVoteNames
<1>2. CASE Command
  BY <1>2 DEF Command, Chat, Enable, Disable, KillGame, Add, RemoveMe, Leave, Highlight, Start,
              Smite, Wait, Kill, Investigate, Vote, Guard
<1>3. CASE ~ Advance /\ ~ Command
  BY <1>3 DEF Next, Handler, DisableStops, KillGameStops, CheckAlive, CheckShield, Tick, Clock,
              TimeoutPasses, DelayPasses, OverloadPasses, vars
<1> QED BY <1>1, <1>2, <1>3

(* So a step that ends without a KILL behind it began without one. *)
LEMMA OnceHurt == ASSUME PhaseType, [Next]_vars, Unhurt' PROVE Unhurt
  BY OnlyKillsHurt DEF Killed, PhaseType, Unhurt

LEMMA StepKeepsIInv == IInv /\ [Next]_vars => IInv'
<1> SUFFICES ASSUME IInv, [Next]_vars PROVE IInv'
  OBVIOUS
<1>1. PeopleType /\ PhaseType /\ WorkType /\ VotesAmongPlayers /\ NothingOutlivesAPlayer
  BY DEF IInv
<1>2. PeopleType' /\ VotesAmongPlayers' /\ NothingOutlivesAPlayer'
  BY <1>1, PeopleKept
<1>3. PhaseType' /\ WorkType'
  BY <1>1, TypeKept
<1>4. ASSUME Unhurt' PROVE OneField' /\ OneTurn' /\ Control'
  <2>1. Unhurt /\ OneField /\ OneTurn /\ Control
    BY <1>1, <1>4, OnceHurt DEF IInv
  <2> QED BY <1>1, <2>1, PeopleKept, ControlKept
<1> QED BY <1>2, <1>3, <1>4 DEF IInv

LEMMA IInvIsInvariant == Spec => []IInv
  BY InitEstablishesIInv, StepKeepsIInv, PTL DEF Spec

-----------------------------------------------------------------------------
(* Every variable keeps its type, also in handlers that are abandoned.     *)
THEOREM TypeIsInvariant == Spec => []TypeOK
<1>1. IInv => TypeOK
  BY DEF IInv, TypeOK, PeopleType, PhaseType, WorkType
<1> QED BY <1>1, IInvIsInvariant, PTL

(* ls_get_vote_result never meets a vote by or for somebody who is out of  *)
(* the game, whoever votes, dies, leaves, falls asleep or is KILLed, and   *)
(* wherever a handler is abandoned.                                        *)
THEOREM VotesStayAmongPlayers == Spec => []VotesAmongPlayers
<1>1. IInv => VotesAmongPlayers
  BY DEF IInv
<1> QED BY <1>1, IInvIsInvariant, PTL

(* Nobody out of the game can act, is protected, or has the generator, the *)
(* parasite or the teleporter.                                             *)
THEOREM TraitsDieWithThePlayer == Spec => []NothingOutlivesAPlayer
<1>1. IInv => NothingOutlivesAPlayer
  BY DEF IInv
<1> QED BY <1>1, IInvIsInvariant, PTL

(* Until a client is KILLed one player at most is protected, and only      *)
(* while somebody has the generator, however often it changes hands.       *)
THEOREM ForceFieldIsOne == Spec => [](Unhurt => OneForceField)
<1>1. IInv => (Unhurt => OneForceField)
  BY OneFieldMeans DEF IInv
<1> QED BY <1>1, IInvIsInvariant, PTL

(* Until a client is KILLed one scientist and one investigator at most may *)
(* act.                                                                    *)
THEOREM TurnIsOne == Spec => [](Unhurt => OneActor)
<1>1. IInv => (Unhurt => OneActor)
  BY OneTurnMeans DEF IInv
<1> QED BY <1>1, IInvIsInvariant, PTL

(* Until a client is KILLed every handler that returns in a game leaves it *)
(* with a deadline.                                                        *)
THEOREM GameHasDeadline == Spec => [](Unhurt => PhaseHasDeadline)
<1>1. IInv => (Unhurt => PhaseHasDeadline)
  BY DEF IInv, Control, DeadlineSet, PhaseHasDeadline
<1> QED BY <1>1, IInvIsInvariant, PTL

(* Until a client is KILLed the lobby and a game do not mix.               *)
THEOREM RolesFollowThePhase == Spec => [](Unhurt => RolesMatchPhase)
<1>1. IInv => (Unhurt => RolesMatchPhase)
  BY DEF IInv, Control, RolesMatch, RolesMatchPhase
<1> QED BY <1>1, IInvIsInvariant, PTL

-----------------------------------------------------------------------------
(* The moves of the game that players see, `Rules'.                        *)
seen == <<state, Players, Side>>

LEMMA NothingSeen == ASSUME UNCHANGED <<state, role>> PROVE UNCHANGED seen
  BY DEF seen, Players, Side, InProgress

LEMMA RemovalIsSeen ==
  ASSUME NEW gone \in SUBSET Player, Remove(gone), InProgress' = InProgress
  PROVE  Rules!Without(gone) /\ Rules!Without(gone \cap Players)
<1>1. \A p \in Player : role'[p] = IF p \in gone THEN "none" ELSE role[p]
  BY DEF Remove
<1>2. Players' = Players \ gone /\ Players' = Players \ (gone \cap Players)
  BY <1>1 DEF Players
<1>3. Side' = [p \in Player |-> IF p \in gone THEN "none" ELSE Side[p]]
  BY <1>1 DEF Side
<1>4. Side' = [p \in Player |-> IF p \in gone \cap Players THEN "none" ELSE Side[p]]
  BY <1>1 DEF Side, Players
<1> QED BY <1>2, <1>3, <1>4 DEF Rules!Without

(* Within a phase somebody leaves, or joins the lobby, or nothing is seen. *)
LEMMA PhaseStaysIsMove ==
  ASSUME PeopleType, PeopleStep, state' = state
  PROVE  Rules!Leave \/ (\E p \in Player : Rules!Join(p)) \/ UNCHANGED seen
<1>0. InProgress' = InProgress
  BY DEF InProgress
<1>1. CASE Removal
  <2>1. PICK gone \in SUBSET Player : Remove(gone)
    BY <1>1 DEF Removal
  <2>2. Rules!Without(gone \cap Players)
    BY <1>0, <2>1, RemovalIsSeen
  <2> QED BY <2>2 DEF Rules!Leave
<1>2. CASE Dealing
  <2>1. ~ InProgress /\ Players' = Players
    BY <1>2 DEF Dealing, StartGame, Players
  <2> QED BY <1>0, <2>1 DEF seen, Side
<1>3. CASE Joining
  <2>1. PICK p \in Player \ Players : role' = [role EXCEPT ![p] = "lobby"] /\ ~ InProgress
    BY <1>3 DEF Joining
  <2>2. \A q \in Player : role'[q] = IF q = p THEN "lobby" ELSE role[q]
    BY <2>1 DEF PeopleType
  <2>3. Players' = Players \cup {p}
    BY <2>1, <2>2 DEF Players
  <2>4. Side' = Side
    BY <1>0, <2>1 DEF Side
  <2> QED BY <2>1, <2>3, <2>4 DEF Rules!Join, InProgress
<1>4. CASE role' = role
  BY <1>4, NothingSeen
<1> QED BY <1>1, <1>2, <1>3, <1>4
        DEF PeopleStep, people, Voting, Recount, Guarding, Deflecting, Turning, Escaping

LEMMA StartIsMove == ASSUME PeopleType, AdvanceStart, state' # state PROVE Rules!Start
<1> DEFINE n == Cardinality(Players)
<1>1. PICK S, I, D \in SUBSET Players :
        /\ Cardinality(S) = NumScientists[n]
        /\ Cardinality(I) = NumInvestigators[n] /\ I \cap S = {}
        /\ Cardinality(D) = NumIdiots[n] /\ D \cap (S \cup I) = {}
        /\ role' = [p \in Player |-> CASE p \in S -> "scientist"
                                       [] p \in I -> "investigator"
                                       [] p \in D -> "idiot"
                                       [] p \in Players \ (S \cup I \cup D) -> "citizen"
                                       [] OTHER -> "none"]
        /\ state' = "kill"
  BY DEF AdvanceStart, StartGame, EnterPhase
<1>2. state = "lobby" /\ n >= MinPlayers /\ state' = "kill"
  BY <1>1 DEF AdvanceStart, InProgress
<1>3. \A p \in Player : Side'[p] = CASE p \in S -> "scientist"
                                     [] p \in I -> "investigator"
                                     [] p \in D -> "idiot"
                                     [] p \in Players \ (S \cup I \cup D) -> "citizen"
                                     [] OTHER -> "none"
  BY <1>1 DEF Side, InProgress
<1>4. S \subseteq Player /\ I \subseteq Player /\ D \subseteq Player /\ Players \subseteq Player
  BY DEF Players
<1>5. Players' = Players
  BY <1>1, <1>4 DEF Players
<1>6. Side' \in [Player -> {"scientist", "investigator", "idiot", "citizen", "none"}]
  BY <1>3 DEF Side
<1>7. /\ Rules!Has("scientist")' = S /\ Rules!Has("investigator")' = I
      /\ Rules!Has("idiot")' = D /\ Rules!Has("none")' = Player \ Players
  BY <1>1, <1>3, <1>4 DEF Rules!Has
<1>8. \A T : Rules!Cardinality(T) = Cardinality(T)
  BY DEF Rules!Cardinality, Cardinality
<1> QED BY <1>1, <1>2, <1>5, <1>6, <1>7, <1>8 DEF Rules!Start

LEMMA StopIsMove == ASSUME StopGame, InProgress PROVE Rules!End
<1>1. Players' \subseteq Players
  BY StopRemoves, RemoveLeavesTheRest DEF Removal, Kept
<1>2. state' = "lobby" /\ Side' = Rules!Nobody
  BY DEF StopGame, EnterPhase, Side, InProgress, Rules!Nobody
<1> QED BY <1>1, <1>2 DEF Rules!End, InProgress

(* A phase that ends without a victim, *)
LEMMA QuietIsMove ==
  ASSUME InProgress, state' = Rules!Follows[state], InProgress', UNCHANGED role
  PROVE  Rules!NextPhase
<1>1. Players' = Players \ {} /\ Side' = [p \in Player |-> IF p \in {} THEN "none" ELSE Side[p]]
  BY DEF Players, Side
<1>2. Rules!Without({})
  BY <1>1 DEF Rules!Without
<1> QED BY <1>2 DEF Rules!NextPhase, InProgress

(* and one that ends with some. *)
LEMMA DeathIsMove ==
  ASSUME InProgress, state' = Rules!Follows[state], InProgress',
         NEW gone \in SUBSET Player, Remove(gone), gone \in Rules!Victims
  PROVE  Rules!NextPhase
<1>1. Rules!Without(gone)
  BY RemovalIsSeen
<1> QED BY <1>1 DEF Rules!NextPhase, InProgress

LEMMA KillIsMove ==
  ASSUME PeopleType, NEW p \in Player, NEW v \in Player, Kill(p, v) PROVE Rules!NextPhase
<1>1. /\ InProgress /\ InProgress' /\ state = "kill" /\ state' = Rules!Follows[state]
      /\ v \in Players
  BY DEF Kill, EnterPhase, InProgress, Rules!Follows
<1>2. p \in Rules!Has("scientist")
  BY <1>1 DEF Kill, Rules!Has, Side
<1>3. {p, v} \in Rules!Victims /\ {v} \in Rules!Victims
  BY <1>1, <1>2 DEF Rules!Victims
<1>4. UNCHANGED role \/ Remove({p, v}) \/ Remove({v})
  BY DEF Kill, people
<1> QED BY <1>1, <1>3, <1>4, QuietIsMove, DeathIsMove

LEMMA LynchIsMove == ASSUME PeopleType, AdvanceVoteLynch PROVE Rules!NextPhase
<1>1. PICK v \in Players : VoteFor(v) /\ role[v] # "idiot" /\ Remove({v})
  BY DEF AdvanceVoteLynch
<1>2. /\ InProgress /\ InProgress' /\ state = "vote" /\ state' = Rules!Follows[state]
  BY <1>1 DEF AdvanceVoteLynch, VoteFor, VoteIsOver, Undecided, EnterPhase, InProgress,
              Rules!Follows
<1>3. v \in Player /\ v \notin Rules!Has("idiot")
  BY <1>1, <1>2 DEF Rules!Has, Side, Players
<1>4. {v} \in Rules!Victims
  BY <1>1, <1>2, <1>3 DEF Rules!Victims
<1> QED BY <1>1, <1>2, <1>3, <1>4, DeathIsMove

(* The steps that end a phase. *)
Ending ==
  \/ AdvanceStart \/ StopGame \/ AdvanceKillTimesOut \/ AdvanceInvestigateEnds
  \/ AdvanceVoteEscape \/ AdvanceVoteLynch
  \/ \E p, v \in Player : Kill(p, v) \/ Investigate(p, v)

LEMMA OthersKeepThePhase == ASSUME Next, state' # state PROVE Ending
<1>1. CASE Advance
  BY <1>1
     DEF Advance, AdvanceLobby, AdvanceDecided, AdvanceRemind, AdvanceKillOpens,
         AdvanceInvestigateOpens, AdvanceVoteFails, AdvanceVoteOpens, AdvanceVoteIdiot,
         AdvanceVoteNames, Ending
<1>2. CASE Command
  BY <1>2 DEF Command, Chat, Enable, Disable, KillGame, Add, RemoveMe, Leave, Highlight, Start,
              Smite, Wait, Vote, Guard, phase, Ending
<1>3. CASE ~ Advance /\ ~ Command
  BY <1>3 DEF Next, Handler, DisableStops, KillGameStops, CheckAlive, CheckShield, Tick, Clock,
              TimeoutPasses, DelayPasses, OverloadPasses, Killed, phase, Ending
<1> QED BY <1>1, <1>2, <1>3

LEMMA EndingIsMove ==
  ASSUME PeopleType, Ending, state' # state
  PROVE  Rules!Start \/ Rules!NextPhase \/ Rules!End
<1>1. CASE AdvanceStart
  BY <1>1, StartIsMove
<1>2. CASE StopGame
  <2>1. InProgress
    BY <1>2 DEF StopGame, EnterPhase, InProgress
  <2> QED BY <1>2, <2>1, StopIsMove
<1>3. CASE AdvanceVoteLynch
  BY <1>3, LynchIsMove
<1>4. CASE \E p, v \in Player : Kill(p, v)
  BY <1>4, KillIsMove
<1>5. CASE \/ AdvanceKillTimesOut \/ AdvanceInvestigateEnds \/ AdvanceVoteEscape
           \/ \E p, v \in Player : Investigate(p, v)
  <2>1. UNCHANGED role /\ InProgress /\ InProgress' /\ state' = Rules!Follows[state]
    BY <1>5 DEF AdvanceKillTimesOut, AdvanceInvestigateEnds, AdvanceVoteEscape, Investigate,
                VoteFor, VoteIsOver, Undecided, EnterPhase, people, InProgress, Rules!Follows
  <2> QED BY <2>1, QuietIsMove
<1> QED BY <1>1, <1>2, <1>3, <1>4, <1>5 DEF Ending

(* Whatever commands, ticks, quits and KILLs come and wherever a handler   *)
(* is abandoned, the players see a game that is played by its rules:       *)
(* phases in order, one role for each, and no victim too many.             *)
THEOREM GameIsPlayed == Spec => ImplementsGame
<1>1. Init => Rules!Init
  BY DEF Init, Rules!Init, Rules!Nobody, Players, Side, InProgress
<1>2. IInv /\ [Next]_vars => [Rules!Next]_seen
  <2> SUFFICES ASSUME IInv, [Next]_vars PROVE [Rules!Next]_seen
    OBVIOUS
  <2>1. PeopleType /\ PeopleStep
    BY EveryStepIsPeopleStep DEF IInv
  <2>2. CASE state' = state
    BY <2>1, <2>2, PhaseStaysIsMove DEF Rules!Next
  <2>3. CASE state' # state
    <3>1. Next
      BY <2>3 DEF vars, phase
    <3> QED BY <2>1, <2>3, <3>1, OthersKeepThePhase, EndingIsMove DEF Rules!Next
  <2> QED BY <2>2, <2>3
<1> QED BY <1>1, <1>2, IInvIsInvariant, PTL DEF Spec, ImplementsGame, Rules!Spec, seen

-----------------------------------------------------------------------------
(* ls_advance_state called once more and already the next call. *)
LEMMA AgainStays == ASSUME WorkType, Advancing, Again PROVE work' = work
<1>1. work \in Seq(Calls) /\ work # <<>> /\ Head(work) = "advance"
  BY DEF WorkType, Calls, Advancing, Running, Idle
<1>2. work = <<Head(work)>> \o Tail(work)
  BY <1>1
<1> QED BY <1>1, <1>2 DEF Again

(* As long as no client is KILLed, no call of ls_advance_state returns     *)
(* from a game that one side has won.                                      *)
THEOREM WinnersAreNoticed == Spec /\ []Unhurt => DecidedGameIsNoticed
<1>1. IInv /\ Unhurt /\ [Next]_vars => [Advancing /\ work' # work /\ InProgress' => ~ Decided']_vars
  <2> SUFFICES ASSUME IInv, Unhurt, Next, Advancing, work' # work, InProgress'
               PROVE  ~ Decided'
    BY DEF vars
  <2>1. Players \subseteq known /\ ~ VoterGone /\ ~ AdvanceVoteNames
        /\ With("scientist") \subseteq known /\ With("investigator") \subseteq known
    BY DEF Unhurt, Players, VoterGone, With, AdvanceVoteNames, Candidates, Votees
  <2>2. ~ Again
    BY AgainStays DEF IInv
  <2>3. ~ StopGame
    BY StoppedIsOver DEF InProgress
  <2>4. Advance
    BY DEF Next, Handler, Command, Clock, Advancing, Running, DisableStops, KillGameStops,
           CheckAlive, CheckShield, Chat, Enable, Disable, KillGame, Add, RemoveMe, Leave,
           Highlight, Start, Smite, Wait, Kill, Investigate, Vote, Guard, Call, Tick,
           TimeoutPasses, DelayPasses, OverloadPasses, Killed
  <2>5. AdvanceRemind \/ AdvanceKillOpens \/ AdvanceInvestigateOpens \/ AdvanceVoteOpens
    BY <2>1, <2>2, <2>3, <2>4
       DEF Advance, AdvanceLobby, AdvanceStart, StartGame, AdvanceDecided, AdvanceKillTimesOut,
           AdvanceInvestigateEnds, AdvanceVoteFails, AdvanceVoteEscape, AdvanceVoteLynch,
           AdvanceVoteIdiot, InProgress
  <2>6. role' = role /\ ~ Decided
    BY <2>5 DEF AdvanceRemind, AdvanceKillOpens, AdvanceInvestigateOpens, AdvanceVoteOpens,
                Undecided, people
  <2> QED BY <2>6 DEF Decided, With, Players
<1> QED BY <1>1, IInvIsInvariant, PTL DEF Spec, DecidedGameIsNoticed

(* With no KILL allowed there is none, so the checked runs without one are *)
(* instances of the theorems above.                                        *)
LEMMA NobodyIsHurt == ASSUME MaxKills = 0 PROVE Spec => []Unhurt
<1>1. Init => Unhurt
  BY DEF Init, Unhurt
<1>2. IInv /\ Unhurt /\ [Next]_vars => Unhurt'
  <2> SUFFICES ASSUME Unhurt, [Next]_vars, NEW p \in Player PROVE ~ Killed(p)
    BY OnlyKillsHurt DEF Unhurt
  <2>1. Cardinality(Player \ known) = 0
    BY FS_EmptySet DEF Unhurt
  <2> QED BY <2>1 DEF Killed
<1> QED BY <1>1, <1>2, IInvIsInvariant, PTL DEF Spec

=============================================================================
