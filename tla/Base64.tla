-------------------------------- MODULE Base64 --------------------------------
(***************************************************************************)
(* Numerics and how they are written: two digits for a server and three    *)
(* more for a user of it.  A digit stands for its value, as base64chars    *)
(* and base64table give it; what is no digit has the value -1.             *)
(***************************************************************************)
EXTENDS Integers, Sequences, SequencesExt

CONSTANT Base   \* 64

SNUMLEN == 2
UNUMLEN == 5

(* base64_decode_long of the first len digits of str. *)
base64_decode_long(str, len) ==
  FoldLeft(LAMBDA result, digit : result * Base + digit, 0, SubSeq(str, 1, len))

(* base64_encode_padded: the len last digits of num, the last one first. *)
base64_encode_padded(len, num) ==
  LET left[k \in 0..len] == IF k = 0 THEN num ELSE left[k - 1] \div Base
  IN [i \in 1..len |-> left[len - i] % Base]

PerServer == Base * Base * Base

str2unum(str) == base64_decode_long(str, UNUMLEN)
str2snum(str) == base64_decode_long(str, SNUMLEN)
unum2str(unum) == base64_encode_padded(UNUMLEN, unum)
snum2str(snum) == base64_encode_padded(SNUMLEN, snum)

(* add_server: the numerics of the users of a server, from maxuserstr,     *)
(* which is what follows the two digits of the server's numeric.           *)
Numerics(str) ==
  LET first == str2snum(str) * PerServer
  IN first..(first + base64_decode_long(SubSeq(str, SNUMLEN + 1, UNUMLEN), 3))

(* Mutant: the number is compared before the last one has been given. *)
server_freenumLate(str, last, used) ==
  LET next[n \in Nat] == IF n > CHOOSE m \in Numerics(str) : \A k \in Numerics(str) : k <= m
                         THEN str2snum(str) * PerServer ELSE n + 1
      found[n \in Nat] == IF n \in used THEN found[next[n]] ELSE n
  IN found[next[last]]

(* server_freenum of the server that was introduced with str, after last. *)
server_freenum(str, last, used) ==
  LET next[n \in Nat] == IF \A k \in Numerics(str) : k <= n THEN str2snum(str) * PerServer ELSE n + 1
      found[n \in Nat] == IF n \in used THEN found[next[n]] ELSE n
  IN found[next[last]]

(* net_greet: the numeric of the configuration and as many users as three  *)
(* digits can count.                                                       *)
Greeted(n) == snum2str(n) \o <<Base - 1, Base - 1, Base - 1>>

-----------------------------------------------------------------------------
(* Whatever number is configured, net.c allows 4096, which is taken for 0, *)
(* and whatever numerics are in use: the numeric that server_freenum gives *)
(* a client of ours is written, read back by add_user and found to be the  *)
(* same, unused, and one of our own server and of no other.                *)
OwnNumericsComeBack ==
  \A n \in 1..(Base * Base) :
    LET str == Greeted(n)
    IN \A used \in (SUBSET Numerics(str)) \ {Numerics(str)} : \A last \in Numerics(str) :
         LET unum == server_freenum(str, last, used)
         IN /\ unum \notin used
            /\ str2unum(unum2str(unum)) = unum
            /\ str2snum(unum2str(unum)) = str2snum(snum2str(n))

=============================================================================
