------------------------------ MODULE MCModeBuf ------------------------------
(* ModeBuf with numerics of base two: 1 is what is left of 2 and 3, and    *)
(* nothing that a user has is left of 1.                                   *)
EXTENDS ModeBuf

=============================================================================
