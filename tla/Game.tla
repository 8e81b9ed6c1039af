--------------------------------- MODULE Game ---------------------------------
(***************************************************************************)
(* What a game of labspace promises to the players of a channel: they      *)
(* gather in a lobby, each is dealt one role for the whole game, nights    *)
(* and days follow each other in their order, and the end of a phase takes *)
(* the victims that the rules give it.  No clocks, no commands, no votes   *)
(* and no traits.                                                          *)
(***************************************************************************)
EXTENDS Integers, FiniteSets

CONSTANTS Player, MinPlayers, NumScientists, NumInvestigators, NumIdiots
VARIABLES
  stage,      \* "lobby", or the phase of the game
  playing,    \* who is in the lobby or in the game
  side        \* the role of each in the game, "none" for the others

Follows == [kill |-> "investigate", investigate |-> "vote", vote |-> "kill"]

Has(r) == {p \in Player : side[p] = r}

Nobody == [p \in Player |-> "none"]

Init == stage = "lobby" /\ playing = {} /\ side = Nobody

Join(p) ==
  /\ stage = "lobby" /\ playing' = playing \cup {p}
  /\ UNCHANGED <<stage, side>>

(* Some are gone, and the others are what they were. *)
Without(gone) ==
  /\ playing' = playing \ gone
  /\ side' = [p \in Player |-> IF p \in gone THEN "none" ELSE side[p]]

(* By their own will, asleep, removed by staff, or blown up. *)
Leave == \E gone \in SUBSET playing : Without(gone) /\ UNCHANGED stage

(* Everybody in the lobby gets a role, and each role is dealt as often as  *)
(* the tables say.                                                         *)
Start ==
  LET n == Cardinality(playing)
  IN /\ stage = "lobby" /\ n >= MinPlayers
     /\ stage' = "kill" /\ playing' = playing
     /\ side' \in [Player -> {"scientist", "investigator", "idiot", "citizen", "none"}]
     /\ Has("none")' = Player \ playing
     /\ Cardinality(Has("scientist")') = NumScientists[n]
     /\ Cardinality(Has("investigator")') = NumInvestigators[n]
     /\ Cardinality(Has("idiot")') = NumIdiots[n]

(* Who may be gone when a phase is over: the one that was attacked, and    *)
(* the scientist with him if it was the parasite's host; the one that was  *)
(* lynched, who is no idiot, since a lynched idiot ends the game.          *)
Victims ==
  CASE stage = "kill" -> {{p, v} : p \in Has("scientist"), v \in playing} \cup {{v} : v \in playing}
    [] stage = "investigate" -> {}
    [] stage = "vote" -> {{v} : v \in playing \ Has("idiot")}

NextPhase ==
  /\ stage # "lobby" /\ stage' = Follows[stage]
  /\ \E gone \in {{}} \cup Victims : Without(gone)

(* Decided, won by the idiot, or stopped by staff. *)
End ==
  /\ stage # "lobby" /\ stage' = "lobby"
  /\ playing' \subseteq playing /\ side' = Nobody

Next == Start \/ NextPhase \/ End \/ Leave \/ \E p \in Player : Join(p)

Spec == Init /\ [][Next]_<<stage, playing, side>>

=============================================================================
