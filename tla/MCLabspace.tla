----------------------------- MODULE MCLabspace -----------------------------
(* Labspace with tables scaled down: three or four players deal out what   *)
(* the script deals out from six, eight and ten on.                        *)
EXTENDS Labspace, TLC

One == [n \in Counts |-> 1]
Two == [n \in Counts |-> 2]
Zero == [n \in Counts |-> 0]

Symmetry == Permutations(Player)

=============================================================================
