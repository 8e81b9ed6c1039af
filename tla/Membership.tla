----------------------------- MODULE Membership -----------------------------
(***************************************************************************)
(* What the membership code promises to the rest of the program: who is    *)
(* there and who is on which channel, changed by the events of the         *)
(* protocol and by nothing else.  No addresses, no counts, no index.       *)
(***************************************************************************)
CONSTANTS User, Key
VARIABLES alive, member

Of(u) == {p \in member : p[1] = u}
On(k) == {p \in member : p[2] = k}

Init == alive = {} /\ member = {}

Enter(u) == u \notin alive /\ alive' = alive \cup {u} /\ UNCHANGED member

(* Whoever quits is gone from every channel. *)
Quit(u) == u \in alive /\ alive' = alive \ {u} /\ member' = member \ Of(u)

Join(u, k) == u \in alive /\ member' = member \cup {<<u, k>>} /\ UNCHANGED alive

Part(u, k) == u \in alive /\ member' = member \ {<<u, k>>} /\ UNCHANGED alive

PartAll(u) == u \in alive /\ member' = member \ Of(u) /\ UNCHANGED alive

(* A channel that is created starts with its creator alone. *)
Create(u, k) ==
  u \in alive /\ member' = (member \ On(k)) \cup {<<u, k>>} /\ UNCHANGED alive

Next == \E u \in User : \/ Enter(u) \/ Quit(u) \/ PartAll(u)
                        \/ \E k \in Key : Join(u, k) \/ Part(u, k) \/ Create(u, k)

Spec == Init /\ [][Next]_<<alive, member>>

=============================================================================
