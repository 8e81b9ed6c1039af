---------------------------- MODULE MCChanUsers ----------------------------
(* ChanUsers with two user blocks, two channel blocks and two channels,    *)
(* one of them spelled in both cases.                                      *)
EXTENDS ChanUsers, TLC

MCName == {"#lab", "#LAB", "#den"}
MCFold == [n \in MCName |-> IF n = "#LAB" THEN "#lab" ELSE n]

Symmetry == Permutations(User) \cup Permutations(Chan)

=============================================================================
