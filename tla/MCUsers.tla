------------------------------- MODULE MCUsers -------------------------------
(* Users with two numerics of our own and one elsewhere. *)
EXTENDS Users, TLC

Symmetry == Permutations(User) \cup Permutations(Nick)

=============================================================================
