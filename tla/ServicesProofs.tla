--------------------------- MODULE ServicesProofs ---------------------------
(***************************************************************************)
(* What is proved of the program behind its uplink, whatever the users,    *)
(* channels, servers and lines are.                                        *)
(***************************************************************************)
EXTENDS Services, DispatchProofs, WordsProofs, WellFoundedInduction

ReadWords == LineWords \cup Stray \cup {None}

(* The words of a line and what may lie behind it. *)
LEMMA WordsBehind ==
  ASSUME NEW l \in Line, NEW past \in Stray \cup {None}
  PROVE  LET words == Append(l.words, past)
         IN /\ words \in Seq(ReadWords) /\ words # <<>>
            /\ Len(words) - 1 = Len(l.words) /\ Len(l.words) \in Nat
            /\ \A i \in 1..Len(l.words) : words[i] = l.words[i]
<1>1. l.words \in Seq(LineWords) /\ LineWords \subseteq ReadWords /\ past \in ReadWords
  BY LinesAreOfTokens DEF ReadWords
<1>2. l.words \in Seq(ReadWords)
  BY <1>1
<1> QED BY <1>1, <1>2

-----------------------------------------------------------------------------
(* The traffic is chosen once and for all. *)
TrafficIsFixed == traffic \in Traffic

LEMMA TrafficStays == Spec => []TrafficIsFixed
<1>1. Init => TrafficIsFixed
  BY DEF Init, TrafficIsFixed
<1>2. TrafficIsFixed /\ [Next]_vars => TrafficIsFixed'
  BY DEF TrafficIsFixed, Next, Starts, Closes, Ticks, handle_input, vars
<1> QED BY <1>1, <1>2, PTL DEF Spec

(* What EveryWordOnce says of a variant that accepts a line of argc words. *)
UsedOnce(m, argc) ==
  /\ m.used \cap m.rest = {} /\ \A i \in m.used : Cardinality({k \in DOMAIN m.args : m.args[k] = i}) = 1
  /\ Cardinality((1..argc) \ (m.used \cup m.rest)) = IF argc + 1 \in m.used THEN 1 ELSE 0

LEMMA AcceptedUsesOnce ==
  ASSUME NEW S, NEW words \in Seq(S), words # <<>>, NEW known, NEW token \in DOMAIN rawrules,
         Match(token, words, known).ok
  PROVE  UsedOnce(Match(token, words, known), Len(words) - 1)
<1> DEFINE m == Match(token, words, known)
<1>1. /\ m.used \cap m.rest = {}
      /\ \A i \in m.used : Cardinality({k \in DOMAIN m.args : m.args[k] = i}) = 1
      /\ Cardinality((1..(Len(words) - 1)) \ (m.used \cup m.rest)) = IF Len(words) \in m.used THEN 1 ELSE 0
  BY EachWordOnce
<1>2. (Len(words) - 1) + 1 = Len(words)
  OBVIOUS
<1> HIDE DEF m
<1>3. UsedOnce(m, Len(words) - 1)
  BY <1>1, <1>2 DEF UsedOnce
<1> QED BY <1>3 DEF m

LEMMA LineUsesOnce ==
  ASSUME NEW l \in Line, NEW past \in Stray, NEW us, NEW cs, MatchIn(us, cs, Server, l, past).ok
  PROVE  UsedOnce(MatchIn(us, cs, Server, l, past), Len(l.words))
<1> DEFINE words == Append(l.words, past)
           known == Known(us, cs, Server)
<1>1. words \in Seq(ReadWords) /\ words # <<>> /\ Len(words) - 1 = Len(l.words)
  BY WordsBehind
<1>2. l.token \in DOMAIN rawrules
  BY LinesAreOfTokens
<1>3. MatchIn(us, cs, Server, l, past) = Match(l.token, words, known)
  BY DEF MatchIn
<1> HIDE DEF words, known
<1>4. UsedOnce(Match(l.token, words, known), Len(words) - 1)
  BY <1>1, <1>2, <1>3, AcceptedUsesOnce
<1> QED BY <1>1, <1>3, <1>4

(* Each word of a line that is accepted becomes one argument or one member *)
(* of the greedy list, but for one if a word behind the line was taken,    *)
(* whatever the line, the users, the channels and the memory behind the    *)
(* line are (arrange_args).                                                *)
THEOREM WordsAreUsedOnce == Spec => []EveryWordOnce
<1>1. ASSUME TrafficIsFixed PROVE EveryWordOnce
  <2>1. ASSUME NEW us, NEW cs, NEW l \in traffic, NEW past \in Stray,
               MatchIn(us, cs, Server, l, past).ok
        PROVE  UsedOnce(MatchIn(us, cs, Server, l, past), Len(l.words))
    <3>1. l \in Line
      BY <1>1, TrafficIsLines DEF TrafficIsFixed
    <3> QED BY <2>1, <3>1, LineUsesOnce
  <2>2. EveryWordOnce <=>
          (Once => \A us \in SUBSET User, cs \in SUBSET Chan, l \in traffic, past \in Stray :
                     MatchIn(us, cs, Server, l, past).ok =>
                       UsedOnce(MatchIn(us, cs, Server, l, past), Len(l.words)))
    BY DEF EveryWordOnce, UsedOnce
  <2> QED BY <2>1, <2>2
<1> QED BY <1>1, TrafficStays, PTL

(* What lies behind a line decides nothing, whatever the line, the users   *)
(* and the channels are, unless the line ends right before an optional     *)
(* word (arrange_args).                                                    *)
THEOREM NothingBehindDecides == Spec => []BehindTheLine
<1>1. ASSUME TrafficIsFixed PROVE BehindTheLine
  <2> DEFINE Agree(us, cs, l, past) ==
               LET m == MatchIn(us, cs, Server, l, past)
                   n == MatchIn(us, cs, Server, l, None)
               IN m.ok = n.ok /\ (m.ok => m.variant = n.variant /\ m.args = n.args)
  <2>1. ASSUME NEW us, NEW cs, NEW l \in traffic, ~ EndsBeforeOptional(l), NEW past \in Stray
        PROVE  Agree(us, cs, l, past)
    <3> DEFINE one == Append(l.words, past)
               two == Append(l.words, None)
               ready == Known(us, cs, Server)
               rules == rawrules[l.token]
    <3>1. l \in Line /\ l.token \in DOMAIN rawrules
      BY <1>1, TrafficIsLines, LinesAreOfTokens DEF TrafficIsFixed
    <3>2. /\ one \in Seq(ReadWords) /\ one # <<>> /\ two \in Seq(ReadWords)
          /\ Len(one) = Len(l.words) + 1 /\ Len(two) = Len(one)
          /\ \A i \in 1..(Len(one) - 1) : one[i] = two[i]
      BY <3>1, WordsBehind
    <3>3. Alike(one, two)
      BY <3>2 DEF Alike
    <3>4. rules \in Seq(Seq(RuleWords))
      BY <3>1, RulesAreRules
    <3>5. ~ \E v \in DOMAIN rules : \E j \in DOMAIN rules[v] :
              rules[v][j].flag = "optional" /\ rules[v][j].at = Len(l.words) + 1
      BY <2>1 DEF EndsBeforeOptional
    <3> HIDE DEF one, two, ready, rules
    <3>6. DOMAIN rules = 1..Len(rules) /\ \A v \in 1..Len(rules) : DOMAIN rules[v] = 1..Len(rules[v])
      BY <3>4
    <3>7. \A v \in 1..Len(rules) : \A j \in 1..Len(rules[v]) :
            rules[v][j].flag = "optional" => rules[v][j].at # Len(one)
      BY <3>2, <3>5, <3>6
    <3>8. LET m == Match(l.token, one, ready)
              n == Match(l.token, two, ready)
          IN m.ok = n.ok /\ (m.ok => m.variant = n.variant /\ m.args = n.args)
      BY <3>1, <3>2, <3>3, <3>7, NothingBehind DEF rules
    <3> QED BY <3>8 DEF MatchIn, one, two, ready
  <2>2. BehindTheLine <=>
          (Once => \A us \in SUBSET User, cs \in SUBSET Chan, past \in Stray :
                     \A l \in {k \in traffic : ~ EndsBeforeOptional(k)} : Agree(us, cs, l, past))
    BY DEF BehindTheLine
  <2> HIDE DEF Agree
  <2> QED BY <2>1, <2>2
<1> QED BY <1>1, TrafficStays, PTL

(* In whatever chunks a text is read, its lines are the same.  It is said  *)
(* of every text, and so of every state (net_read).                        *)
THEOREM ChunksAreOne == Spec => []ChunksDoNotMatter
<1>1. ChunksDoNotMatter
  BY ChunksAreJoined DEF ChunksDoNotMatter
<1> QED BY <1>1, PTL

(* What is sent comes back word for word: said of all words too (rfc_join, *)
(* rfc_split).                                                             *)
THEOREM SentWordsReturn == Spec => []LoopBackKeepsWords
<1>1. LoopBackKeepsWords
  BY WordsComeBack DEF LoopBackKeepsWords
<1> QED BY <1>1, PTL

-----------------------------------------------------------------------------
(* What base64_decode_long makes of its digits, one by one. *)
DigitStep(env, result, digit) == result * Base + digit
NothingKept(env, k, result) == TRUE

Decoding == INSTANCE FoldFacts WITH Step <- DigitStep, Good <- NothingKept

LEMMA Decoded ==
  ASSUME NEW d, NEW n \in Nat, DOMAIN d = 1..n
  PROVE  \E f : /\ f[0] = 0 /\ \A k \in 1..n : f[k] = f[k - 1] * Base + d[k]
                /\ Numbers!FoldLeft(LAMBDA result, digit : result * Base + digit, 0, d) = f[n]
<1>1. Numbers!FoldLeft(LAMBDA result, digit : result * Base + digit, 0, d) = Decoding!Folded(0, 0, d)
  BY DEF Numbers!FoldLeft, Numbers!MapThenFoldSet, Numbers!Max, DigitStep, Decoding!Folded, Decoding!IsFold, Decoding!Largest
<1>2. PICK f : Decoding!IsTrace(0, 0, d, n, f) /\ f[n] = Decoding!Folded(0, 0, d)
  BY Decoding!FoldIsTraced
<1> QED BY <1>1, <1>2 DEF Decoding!IsTrace, DigitStep
-----------------------------------------------------------------------------
(* Division with a remainder: what is left after a digit is below what the *)
(* remaining digits can count, and the digit brings it back.               *)
LEMMA Digit ==
  ASSUME NEW x \in Nat, NEW m \in Nat, x < Base * m
  PROVE  /\ x \div Base \in Nat /\ x \div Base < m /\ x % Base \in 0..(Base - 1)
         /\ (x \div Base) * Base + (x % Base) = x
<1> USE BaseAssumption
<1> DEFINE q == x \div Base
           r == x % Base
<1>1. q \in Nat /\ r \in 0..(Base - 1) /\ x = Base * q + r
  OBVIOUS
<1> HIDE DEF q, r
<1>2. q < m
  <2>1. Base * q + r < Base * m
    BY <1>1
  <2> QED BY <1>1, <2>1
<1>3. q * Base + r = x
  BY <1>1
<1> QED BY <1>1, <1>2, <1>3 DEF q, r

(* The numbers that are left while base64_encode_padded divides, for the   *)
(* five digits of a user, and what is written of them.                     *)
IsLeft(len, num, f) == f = [k \in 0..len |-> IF k = 0 THEN num ELSE f[k - 1] \div Base]

LEMMA LeftExists == ASSUME NEW len \in {2, 5}, NEW num PROVE \E f : IsLeft(len, num, f)
<1> DEFINE one == num \div Base
           two == one \div Base
           three == two \div Base
           four == three \div Base
           five == four \div Base
           at(k) == IF k = 0 THEN num ELSE IF k = 1 THEN one ELSE IF k = 2 THEN two
                    ELSE IF k = 3 THEN three ELSE IF k = 4 THEN four ELSE five
           f == [k \in 0..len |-> at(k)]
<1>1. ASSUME NEW k \in 0..len PROVE f[k] = IF k = 0 THEN num ELSE f[k - 1] \div Base
  <2>1. k \in {0, 1, 2, 3, 4, 5} /\ f[k] = at(k) /\ (k # 0 => f[k - 1] = at(k - 1))
    OBVIOUS
  <2>2. k # 0 => at(k) = at(k - 1) \div Base
    BY <2>1
  <2> QED BY <2>1, <2>2
<1>2. f = [k \in 0..len |-> IF k = 0 THEN num ELSE f[k - 1] \div Base]
  BY <1>1
<1> QED BY <1>2 DEF IsLeft

LEMMA Encoded ==
  ASSUME NEW len \in {2, 5}, NEW num
  PROVE  \E f : /\ f[0] = num /\ \A k \in 1..len : f[k] = f[k - 1] \div Base
                /\ Numbers!base64_encode_padded(len, num) = [i \in 1..len |-> f[len - i] % Base]
<1> DEFINE f == CHOOSE g : IsLeft(len, num, g)
<1>1. IsLeft(len, num, f)
  BY LeftExists
<1>2. Numbers!base64_encode_padded(len, num) = [i \in 1..len |-> f[len - i] % Base]
  BY DEF Numbers!base64_encode_padded, IsLeft
<1> HIDE DEF f
<1>3. f[0] = num /\ \A k \in 1..len : f[k] = f[k - 1] \div Base
  BY <1>1 DEF IsLeft
<1> QED BY <1>2, <1>3

-----------------------------------------------------------------------------
(* server_freenum's loop over the numerics from a to z.                    *)
Loops(a, z, used, f) ==
  f = [n \in Nat |-> IF n \in used THEN f[IF \A k \in a..z : k <= n THEN a ELSE n + 1] ELSE n]

Least(T) == CHOOSE x \in T : \A y \in T : x <= y

LEMMA LeastIs ==
  ASSUME NEW T \in SUBSET Nat, NEW x \in T, \A y \in T : x <= y PROVE Least(T) = x
<1>1. \A w \in T : (\A y \in T : w <= y) => w = x
  <2> TAKE w \in T
  <2>1. x \in Nat /\ w \in Nat /\ x <= w
    OBVIOUS
  <2> QED BY <2>1
<1> QED BY <1>1 DEF Least

(* It is the function that leads to the next one that is free.             *)
LEMMA LoopExists ==
  ASSUME NEW a \in Nat, NEW z \in Nat, a <= z, NEW used \in SUBSET (a..z), used # a..z
  PROVE  \E f : Loops(a, z, used, f)
<1> DEFINE Free == (a..z) \ used
           Above(n) == {k \in Free : k > n}
           go(n) == IF \A k \in a..z : k <= n THEN a ELSE n + 1
           at(n) == IF n \notin used THEN n ELSE IF Above(n) # {} THEN Least(Above(n)) ELSE Least(Free)
           f == [n \in Nat |-> at(n)]
<1>1. Free \in SUBSET Nat
  OBVIOUS
<1>2. Free # {}
  OBVIOUS
<1>3. \A n \in Nat : Above(n) \in SUBSET Nat
  <2> HIDE DEF Free
  <2> QED BY <1>1
<1>4. ASSUME NEW n \in used PROVE at(n) = at(go(n))
  <2>0. n \in a..z /\ go(n) \in a..z
    OBVIOUS
  <2>1. CASE n = z
    <3>1. Above(n) = {} /\ go(n) = a
      BY <2>1
    <3>2. CASE a \in used
      <4>1. CASE Above(a) = {}
        BY <3>1, <3>2, <4>1
      <4>2. CASE Above(a) # {}
        <5>1. Above(a) = Free
          BY <3>2
        <5> QED BY <3>1, <3>2, <5>1
      <4> QED BY <4>1, <4>2
    <3>3. CASE a \notin used
      <4>1. a \in Free /\ \A y \in Free : a <= y
        BY <3>3
      <4>2. Least(Free) = a
        <5> HIDE DEF Free
        <5> QED BY <1>1, <4>1, LeastIs
      <4> QED BY <3>1, <3>3, <4>2
    <3> QED BY <3>2, <3>3
  <2>2. CASE n # z
    <3>1. go(n) = n + 1
      BY <2>2, <2>0
    <3>2. CASE n + 1 \in used
      <4>1. Above(n) = Above(n + 1)
        BY <3>2
      <4> QED BY <3>1, <3>2, <4>1
    <3>3. CASE n + 1 \notin used
      <4>1. n + 1 \in Above(n) /\ \A y \in Above(n) : n + 1 <= y
        BY <3>3, <2>0, <2>2
      <4>2. Least(Above(n)) = n + 1
        <5> HIDE DEF Above
        <5>1. Above(n) \in SUBSET Nat
          BY <1>3, <2>0
        <5> QED BY <4>1, <5>1, LeastIs
      <4> QED BY <3>1, <3>3, <4>1, <4>2
    <3> QED BY <3>2, <3>3
  <2> QED BY <2>1, <2>2
<1>5. ASSUME NEW n \in Nat PROVE at(n) = IF n \in used THEN f[go(n)] ELSE n
  <2>1. CASE n \in used
    <3>1. go(n) \in Nat
      OBVIOUS
    <3> HIDE DEF at, go
    <3>2. at(n) = at(go(n))
      BY <1>4, <2>1
    <3> QED BY <2>1, <3>1, <3>2
  <2>2. CASE n \notin used
    BY <2>2
  <2> QED BY <2>1, <2>2
<1>6. f = [n \in Nat |-> IF n \in used THEN f[go(n)] ELSE n]
  <2> HIDE DEF at
  <2> SUFFICES \A n \in Nat : at(n) = IF n \in used THEN f[go(n)] ELSE n
    OBVIOUS
  <2> QED BY <1>5
<1> QED BY <1>6 DEF Loops

(* Wherever it starts, it ends at one that is free.                        *)
LEMMA LoopEnds ==
  ASSUME NEW a \in Nat, NEW z \in Nat, a <= z, NEW used \in SUBSET (a..z), used # a..z,
         NEW f, Loops(a, z, used, f)
  PROVE  \A n \in a..z : f[n] \in (a..z) \ used
<1> DEFINE Free == (a..z) \ used
<1>1. PICK u \in a..z : u \notin used
  OBVIOUS
<1>2. \A n \in a..z : /\ n \in used /\ n = z => f[n] = f[a]
                      /\ n \in used /\ n # z => f[n] = f[n + 1]
                      /\ n \notin used => f[n] = n
  BY DEF Loops
<1>3. ASSUME NEW n \in a..u PROVE f[n] \in Free
  <2> DEFINE Z == {k \in 0..(u - n) : f[u - k] \in Free}
  <2>1. 0 \in Z
    BY <1>1, <1>2
  <2>2. ASSUME NEW k \in 0..(u - n), k \in Z, k < u - n PROVE k + 1 \in Z
    <3>1. u - (k + 1) \in a..z /\ u - (k + 1) # z /\ (u - (k + 1)) + 1 = u - k /\ f[u - k] \in Free
      BY <1>1, <2>2
    <3>2. f[u - (k + 1)] \in Free
      BY <1>2, <3>1
    <3> QED BY <2>2, <3>2
  <2>3. u - n \in Z
    <3> HIDE DEF Z
    <3> QED BY <2>1, <2>2, Decoding!UpTo
  <2> QED BY <2>3
<1>4. f[a] \in Free
  BY <1>3
<1>5. ASSUME NEW n \in a..z PROVE f[n] \in Free
  <2> DEFINE Z == {k \in 0..(z - n) : f[z - k] \in Free}
  <2>1. 0 \in Z
    BY <1>2, <1>4
  <2>2. ASSUME NEW k \in 0..(z - n), k \in Z, k < z - n PROVE k + 1 \in Z
    <3>1. z - (k + 1) \in a..z /\ z - (k + 1) # z /\ (z - (k + 1)) + 1 = z - k /\ f[z - k] \in Free
      BY <2>2
    <3>2. f[z - (k + 1)] \in Free
      BY <1>2, <3>1
    <3> QED BY <2>2, <3>2
  <2>3. z - n \in Z
    <3> HIDE DEF Z
    <3> QED BY <2>1, <2>2, Decoding!UpTo
  <2> QED BY <2>3
<1> QED BY <1>5

-----------------------------------------------------------------------------
LEMMA DecodedFront ==
  ASSUME NEW str \in Seq(Nat), NEW len \in Nat, len <= Len(str)
  PROVE  \E f : /\ f[0] = 0 /\ \A k \in 1..len : f[k] = f[k - 1] * Base + str[k]
                /\ Numbers!base64_decode_long(str, len) = f[len]
<1> DEFINE d == SubSeq(str, 1, len)
<1>1. DOMAIN d = 1..len /\ \A k \in 1..len : d[k] = str[k]
  OBVIOUS
<1> HIDE DEF d
<1>2. PICK f : /\ f[0] = 0 /\ \A k \in 1..len : f[k] = f[k - 1] * Base + d[k]
               /\ Numbers!FoldLeft(LAMBDA result, digit : result * Base + digit, 0, d) = f[len]
  BY <1>1, Decoded
<1>3. Numbers!base64_decode_long(str, len) = f[len]
  BY <1>2 DEF Numbers!base64_decode_long, d
<1> QED BY <1>1, <1>2, <1>3

(* Two digits of a server, three of a user. *)
LEMMA DecodedTwo ==
  ASSUME NEW str \in Seq(Nat), 2 <= Len(str)
  PROVE  Numbers!str2snum(str) = str[1] * Base + str[2]
<1> USE BaseAssumption
<1>1. PICK f : /\ f[0] = 0 /\ \A k \in 1..2 : f[k] = f[k - 1] * Base + str[k]
               /\ Numbers!base64_decode_long(str, 2) = f[2]
  BY DecodedFront
<1>2. str[1] \in Nat /\ str[2] \in Nat
  OBVIOUS
<1>3. f[1] = f[0] * Base + str[1] /\ f[2] = f[1] * Base + str[2]
  BY <1>1
<1>4. f[1] = str[1]
  BY <1>1, <1>2, <1>3
<1> QED BY <1>1, <1>3, <1>4 DEF Numbers!str2snum, Numbers!SNUMLEN

LEMMA DecodedThree ==
  ASSUME NEW str \in Seq(Nat), 3 <= Len(str)
  PROVE  Numbers!base64_decode_long(str, 3) = (str[1] * Base + str[2]) * Base + str[3]
<1> USE BaseAssumption
<1>1. PICK f : /\ f[0] = 0 /\ \A k \in 1..3 : f[k] = f[k - 1] * Base + str[k]
               /\ Numbers!base64_decode_long(str, 3) = f[3]
  BY DecodedFront
<1>2. str[1] \in Nat
  OBVIOUS
<1>3. f[1] = f[0] * Base + str[1] /\ f[2] = f[1] * Base + str[2] /\ f[3] = f[2] * Base + str[3]
  BY <1>1
<1>4. f[1] = str[1]
  BY <1>1, <1>2, <1>3
<1> QED BY <1>1, <1>3, <1>4

(* The numerics of our server are those of its two digits, all of them.    *)
LEMMA OwnNumerics ==
  ASSUME NEW n \in Nat
  PROVE  LET s == Numbers!str2snum(Numbers!snum2str(n))
         IN /\ s \in Nat /\ s < Base * Base
            /\ Numbers!str2snum(Numbers!Greeted(n)) = s
            /\ Numbers!Numerics(Numbers!Greeted(n)) = s * Numbers!PerServer .. (s * Numbers!PerServer + (Numbers!PerServer - 1))
<1> USE BaseAssumption
<1> DEFINE two == Numbers!snum2str(n)
           str == Numbers!Greeted(n)
           s == Numbers!str2snum(two)
<1>1. PICK f : /\ f[0] = n /\ \A k \in 1..2 : f[k] = f[k - 1] \div Base
               /\ two = [i \in 1..2 |-> f[2 - i] % Base]
  BY Encoded DEF Numbers!snum2str, Numbers!SNUMLEN
<1>2. two[1] \in 0..(Base - 1) /\ two[2] \in 0..(Base - 1) /\ two \in Seq(Nat) /\ Len(two) = 2
  <2>1. f[1] = f[0] \div Base
    BY <1>1
  <2>2. f[0] \in Nat /\ f[1] \in Nat
    BY <1>1, <2>1
  <2>3. f[0] % Base \in 0..(Base - 1) /\ f[1] % Base \in 0..(Base - 1)
    BY <2>2
  <2> HIDE DEF two
  <2>4. two[1] = f[1] % Base /\ two[2] = f[0] % Base
    BY <1>1
  <2>5. two \in Seq(Nat) /\ Len(two) = 2
    BY <1>1, <2>3, <2>4
  <2> QED BY <2>3, <2>4, <2>5
<1> HIDE DEF two
<1>3. s = two[1] * Base + two[2]
  <2>1. 2 <= Len(two)
    BY <1>2
  <2> QED BY <1>2, <2>1, DecodedTwo
<1>4. s \in Nat /\ s < Base * Base
  <2>1. two[1] * Base <= (Base - 1) * Base
    <3>1. \A b \in Nat : \A a \in 0..(b - 1) : a * b <= (b - 1) * b
      OBVIOUS
    <3> HIDE DEF s
    <3> QED BY <1>2, <3>1, BaseAssumption
  <2> DEFINE high == two[1] * Base
             square == Base * Base
  <2>2. high \in Nat /\ square \in Nat
    BY <1>2, BaseAssumption
  <2>3. (Base - 1) * Base = square - Base
    BY BaseAssumption
  <2>4. high <= square - Base /\ s = high + two[2]
    BY <1>3, <2>1, <2>3
  <2> HIDE DEF high, square
  <2>5. s \in Nat /\ s < square
    BY <1>2, <2>2, <2>4, BaseAssumption
  <2> QED BY <2>5 DEF square
<1>5. /\ str = two \o <<Base - 1, Base - 1, Base - 1>> /\ Base - 1 \in Nat
  BY DEF Numbers!Greeted, two
<1>6. /\ str \in Seq(Nat) /\ Len(str) = 5 /\ str[1] = two[1] /\ str[2] = two[2]
      /\ str[3] = Base - 1 /\ str[4] = Base - 1 /\ str[5] = Base - 1
  <2> DEFINE top == <<Base - 1, Base - 1, Base - 1>>
  <2>1. /\ top \in Seq(Nat) /\ Len(top) = 3
        /\ top[1] = Base - 1 /\ top[2] = Base - 1 /\ top[3] = Base - 1
    BY <1>5
  <2> HIDE DEF top, str
  <2>2. str = two \o top
    BY <1>5 DEF top
  <2>3. /\ str \in Seq(Nat) /\ Len(str) = Len(two) + Len(top)
        /\ \A k \in 1..Len(two) : str[k] = two[k]
        /\ \A k \in (Len(two) + 1)..(Len(two) + Len(top)) : str[k] = top[k - Len(two)]
    BY <1>2, <2>1, <2>2, Joined
  <2>4. str[1] = two[1] /\ str[2] = two[2] /\ str[3] = top[1] /\ str[4] = top[2] /\ str[5] = top[3]
    BY <1>2, <2>1, <2>3
  <2> QED BY <1>2, <2>1, <2>3, <2>4
<1> HIDE DEF str, s
<1>7. Numbers!str2snum(str) = s
  <2>1. 2 <= Len(str)
    BY <1>6
  <2>2. Numbers!str2snum(str) = str[1] * Base + str[2]
    BY <1>6, <2>1, DecodedTwo
  <2> QED BY <1>3, <1>6, <2>2
<1>8. Numbers!base64_decode_long(SubSeq(str, 3, 5), 3) = ((Base - 1) * Base + (Base - 1)) * Base + (Base - 1)
  <2> DEFINE rest == SubSeq(str, 3, 5)
  <2>1. rest \in Seq(Nat) /\ Len(rest) = 3 /\ rest[1] = Base - 1 /\ rest[2] = Base - 1 /\ rest[3] = Base - 1
    BY <1>6
  <2> HIDE DEF rest
  <2>2. 3 <= Len(rest)
    BY <2>1
  <2>3. Numbers!base64_decode_long(rest, 3) = (rest[1] * Base + rest[2]) * Base + rest[3]
    BY <2>1, <2>2, DecodedThree
  <2> QED BY <2>1, <2>3 DEF rest
<1>9. ((Base - 1) * Base + (Base - 1)) * Base + (Base - 1) = Base * Base * Base - 1
  OBVIOUS
<1>10. Numbers!Numerics(str) = s * Numbers!PerServer .. (s * Numbers!PerServer + (Numbers!PerServer - 1))
  BY <1>7, <1>8, <1>9 DEF Numbers!Numerics, Numbers!PerServer, Numbers!SNUMLEN, Numbers!UNUMLEN
<1> QED BY <1>4, <1>7, <1>10 DEF s, str, two

(* Five digits bring back what they were made of, and the first two of     *)
(* them the server's.                                                      *)
LEMMA Written ==
  ASSUME NEW s \in Nat, s < Base * Base,
         NEW x \in s * Numbers!PerServer .. (s * Numbers!PerServer + (Numbers!PerServer - 1))
  PROVE  Numbers!str2unum(Numbers!unum2str(x)) = x /\ Numbers!str2snum(Numbers!unum2str(x)) = s
<1> USE BaseAssumption
<1> DEFINE digits == Numbers!unum2str(x)
           cubed == Base * Base * Base
<1>1. PICK f : /\ f[0] = x /\ \A k \in 1..5 : f[k] = f[k - 1] \div Base
               /\ digits = [i \in 1..5 |-> f[5 - i] % Base]
  BY Encoded DEF Numbers!unum2str, Numbers!UNUMLEN
<1> HIDE DEF digits
<1>2. /\ f[1] = f[0] \div Base /\ f[2] = f[1] \div Base /\ f[3] = f[2] \div Base
      /\ f[4] = f[3] \div Base /\ f[5] = f[4] \div Base
  BY <1>1
<1>3. /\ digits[1] = f[4] % Base /\ digits[2] = f[3] % Base /\ digits[3] = f[2] % Base
      /\ digits[4] = f[1] % Base /\ digits[5] = f[0] % Base
  BY <1>1
<1>4. x \in Nat /\ x < Base * (Base * cubed) /\ cubed \in Nat /\ s * cubed <= x /\ x < s * cubed + cubed
  <2>0. cubed \in Nat /\ cubed > 0
    OBVIOUS
  <2>1. s * cubed \in Nat /\ s * cubed <= x /\ x < s * cubed + cubed /\ x \in Nat
    <3> HIDE DEF cubed
    <3>1. s * cubed \in Nat
      BY <2>0
    <3> QED BY <2>0, <3>1 DEF Numbers!PerServer, cubed
  <2>2. s * cubed + cubed <= (Base * Base) * cubed
    <3> HIDE DEF cubed
    <3>1. s + 1 <= Base * Base /\ Base * Base \in Nat
      OBVIOUS
    <3>2. (s + 1) * cubed <= (Base * Base) * cubed
      BY <2>0, <3>1
    <3> QED BY <2>0, <3>2
  <2>3. (Base * Base) * cubed = Base * (Base * cubed)
    <3> HIDE DEF cubed
    <3> QED BY <2>0
  <2> QED BY <2>0, <2>1, <2>2, <2>3
<1>5. /\ f[1] \in Nat /\ f[1] < Base * cubed /\ f[1] * Base + digits[5] = f[0] /\ digits[5] \in 0..(Base - 1)
  <2> HIDE DEF cubed
  <2>1. Base * cubed \in Nat
    BY <1>4
  <2> QED BY <1>1, <1>2, <1>3, <1>4, <2>1, Digit
<1>6. /\ f[2] \in Nat /\ f[2] < cubed /\ f[2] * Base + digits[4] = f[1] /\ digits[4] \in 0..(Base - 1)
  <2> HIDE DEF cubed
  <2> QED BY <1>2, <1>3, <1>4, <1>5, Digit
<1>7. /\ f[3] \in Nat /\ f[3] < Base * Base /\ f[3] * Base + digits[3] = f[2] /\ digits[3] \in 0..(Base - 1)
  <2>1. Base * Base \in Nat /\ cubed = Base * (Base * Base)
    OBVIOUS
  <2> HIDE DEF cubed
  <2> QED BY <1>2, <1>3, <1>6, <2>1, Digit
<1>8. /\ f[4] \in Nat /\ f[4] < Base /\ f[4] * Base + digits[2] = f[3] /\ digits[2] \in 0..(Base - 1)
  BY <1>2, <1>3, <1>7, Digit
<1>9. /\ f[5] \in Nat /\ f[5] < 1 /\ f[5] * Base + digits[1] = f[4] /\ digits[1] \in 0..(Base - 1)
  <2>1. f[4] < Base * 1
    BY <1>8
  <2> QED BY <1>2, <1>3, <1>8, <2>1, Digit
<1>10. digits[1] = f[4]
  <2>1. f[5] = 0
    BY <1>9
  <2> QED BY <1>9, <2>1
<1>11. digits \in Seq(Nat) /\ Len(digits) = 5
  BY <1>1, <1>3, <1>5, <1>6, <1>7, <1>8, <1>9
<1>12. Numbers!str2snum(digits) = f[3]
  <2>1. 2 <= Len(digits) /\ 5 <= Len(digits)
    BY <1>11
  <2>2. Numbers!str2snum(digits) = digits[1] * Base + digits[2]
    BY <1>11, <2>1, DecodedTwo
  <2> QED BY <1>8, <1>10, <2>2
<1>13. Numbers!str2unum(digits) = x
  <2>1. PICK g : /\ g[0] = 0 /\ \A k \in 1..5 : g[k] = g[k - 1] * Base + digits[k]
                 /\ Numbers!base64_decode_long(digits, 5) = g[5]
    <3>1. 5 <= Len(digits) /\ 5 \in Nat
      BY <1>11
    <3> QED BY <1>11, <3>1, DecodedFront
  <2>2. /\ g[1] = g[0] * Base + digits[1] /\ g[2] = g[1] * Base + digits[2] /\ g[3] = g[2] * Base + digits[3]
        /\ g[4] = g[3] * Base + digits[4] /\ g[5] = g[4] * Base + digits[5]
    BY <2>1
  <2>3. g[1] = f[4]
    BY <1>8, <1>10, <2>1, <2>2
  <2>4. g[2] = f[3]
    BY <1>8, <2>2, <2>3
  <2>5. g[3] = f[2]
    BY <1>7, <2>2, <2>4
  <2>6. g[4] = f[1]
    BY <1>6, <2>2, <2>5
  <2>7. g[5] = x
    BY <1>1, <1>5, <2>2, <2>6
  <2> QED BY <2>1, <2>7 DEF Numbers!str2unum, Numbers!UNUMLEN
<1>14. f[3] = s
  <2> DEFINE low == (digits[3] * Base + digits[4]) * Base + digits[5]
  <2>1. low \in Nat /\ low < cubed
    <3>1. digits[3] * Base + digits[4] \in Nat /\ digits[3] * Base + digits[4] <= Base * Base - 1
      <4>1. digits[3] * Base <= (Base - 1) * Base /\ digits[3] * Base \in Nat
        BY <1>7
      <4> QED BY <1>6, <4>1
    <3> DEFINE high == digits[3] * Base + digits[4]
    <3>2. high * Base \in Nat /\ high * Base <= (Base * Base - 1) * Base
      <4> HIDE DEF high
      <4>1. high \in Nat /\ high <= Base * Base - 1 /\ Base * Base \in Nat
        BY <3>1 DEF high
      <4> QED BY <4>1
    <3> HIDE DEF high
    <3>3. high * Base + digits[5] < cubed /\ high * Base + digits[5] \in Nat
      BY <1>5, <3>2
    <3> QED BY <3>3 DEF high
  <2>2. x = f[3] * cubed + low
    <3>1. f[2] = f[3] * Base + digits[3] /\ f[1] = f[2] * Base + digits[4] /\ x = f[1] * Base + digits[5]
      BY <1>1, <1>5, <1>6, <1>7
    <3> QED BY <1>5, <1>6, <1>7, <3>1
  <2> HIDE DEF low, cubed
  <2>3. cubed * f[3] + low = x /\ cubed * s <= x /\ x < cubed * s + cubed
    BY <1>4, <1>7, <2>1, <2>2
  <2>4. ~ f[3] < s
    <3> SUFFICES ASSUME f[3] + 1 <= s PROVE FALSE
      BY <1>7
    <3>1. cubed * (f[3] + 1) <= cubed * s
      BY <1>4, <1>7
    <3> QED BY <1>4, <1>7, <2>1, <2>3, <3>1
  <2>5. ~ s < f[3]
    <3> SUFFICES ASSUME s + 1 <= f[3] PROVE FALSE
      BY <1>7
    <3>1. cubed * (s + 1) <= cubed * f[3]
      BY <1>4, <1>7
    <3> QED BY <1>4, <1>7, <2>1, <2>3, <3>1
  <2> QED BY <1>7, <2>4, <2>5
<1> QED BY <1>12, <1>13, <1>14 DEF digits

(* The numeric that is given is one of ours, unused, and comes back.       *)
LEMMA GivenNumerics == Numbers!OwnNumericsComeBack
<1> USE BaseAssumption
<1> SUFFICES ASSUME NEW n \in 1..(Base * Base),
                    NEW used \in SUBSET Numbers!Numerics(Numbers!Greeted(n)), used # Numbers!Numerics(Numbers!Greeted(n)),
                    NEW last \in Numbers!Numerics(Numbers!Greeted(n))
             PROVE  LET unum == Numbers!server_freenum(Numbers!Greeted(n), last, used)
                    IN /\ unum \notin used
                       /\ Numbers!str2unum(Numbers!unum2str(unum)) = unum
                       /\ Numbers!str2snum(Numbers!unum2str(unum)) = Numbers!str2snum(Numbers!snum2str(n))
  BY DEF Numbers!OwnNumericsComeBack
<1> DEFINE str == Numbers!Greeted(n)
           s == Numbers!str2snum(Numbers!snum2str(n))
           a == s * Numbers!PerServer
           z == a + (Numbers!PerServer - 1)
           found == CHOOSE f : Loops(a, z, used, f)
           start == IF \A k \in a..z : k <= last THEN a ELSE last + 1
<1>1. n \in Nat
  OBVIOUS
<1>2. s \in Nat /\ s < Base * Base /\ Numbers!Numerics(str) = a..z
  BY <1>1, OwnNumerics
<1>3. a \in Nat /\ z \in Nat /\ a <= z
  <2> HIDE DEF s
  <2>1. Numbers!PerServer \in Nat /\ Numbers!PerServer >= 1
    BY DEF Numbers!PerServer
  <2>2. a \in Nat
    BY <1>2, <2>1
  <2> HIDE DEF a
  <2> QED BY <2>1, <2>2
<1>4. Numbers!str2snum(str) = s
  BY <1>1, OwnNumerics
<1>5. Numbers!server_freenum(str, last, used) = found[start]
  <2> DEFINE first == Numbers!str2snum(str) * Numbers!PerServer
             ours == Numbers!Numerics(str)
  <2>1. first = a /\ ours = a..z /\ last \in Nat
    <3>0. last \in Numbers!Numerics(str)
      OBVIOUS
    <3> HIDE DEF s, z, str
    <3>1. a = s * Numbers!PerServer
      OBVIOUS
    <3> HIDE DEF a
    <3> QED BY <1>2, <1>3, <1>4, <3>0, <3>1
  <2>2. Numbers!server_freenum(str, last, used) =
          LET next == [n_1 \in Nat |-> IF \A k \in ours : k <= n_1 THEN first ELSE n_1 + 1]
          IN (CHOOSE f : f = [n_1 \in Nat |-> IF n_1 \in used THEN f[next[n_1]] ELSE n_1])[next[last]]
    BY DEF Numbers!server_freenum
  <2> HIDE DEF first, ours, a, z, str, s
  <2> DEFINE next == [m \in Nat |-> IF \A k \in a..z : k <= m THEN a ELSE m + 1]
  <2>3. Numbers!server_freenum(str, last, used) = (CHOOSE f : f = [m \in Nat |-> IF m \in used THEN f[next[m]] ELSE m])[next[last]]
    BY <2>1, <2>2
  <2>4. next[last] = start
    BY <2>1
  <2>5. ASSUME NEW f PROVE (f = [m \in Nat |-> IF m \in used THEN f[next[m]] ELSE m]) <=> Loops(a, z, used, f)
    BY DEF Loops
  <2>6. found = CHOOSE f : f = [m \in Nat |-> IF m \in used THEN f[next[m]] ELSE m]
    <3> HIDE DEF next
    <3> QED BY <2>5
  <2> HIDE DEF next, found
  <2> QED BY <2>3, <2>4, <2>6

<1>6. Loops(a, z, used, found)
  <2> HIDE DEF a, z
  <2> QED BY <1>2, <1>3, LoopExists
<1>7. start \in a..z /\ used \in SUBSET (a..z) /\ used # a..z
  <2>1. last \in a..z /\ used \in SUBSET (a..z) /\ used # a..z
    <3> HIDE DEF a, z
    <3> QED BY <1>2
  <2> HIDE DEF a, z
  <2> QED BY <1>3, <2>1
<1>8. found[start] \in (a..z) \ used
  <2> HIDE DEF a, z, str, start, found
  <2> QED BY <1>3, <1>6, <1>7, LoopEnds
<1>9. /\ Numbers!str2unum(Numbers!unum2str(found[start])) = found[start]
      /\ Numbers!str2snum(Numbers!unum2str(found[start])) = s
  <2> HIDE DEF s, str, start, found
  <2> QED BY <1>2, <1>8, Written
<1> QED BY <1>5, <1>8, <1>9

(* The numeric that server_freenum gives is unused, is one of our server's *)
(* and is the same when it has been written and read: said of every number *)
(* that can be configured and of all numerics in use, and so of every      *)
(* state.                                                                  *)
THEOREM NumericsReturn == Spec => []OwnNumericsComeBack
<1>1. OwnNumericsComeBack
  BY GivenNumerics DEF OwnNumericsComeBack
<1> QED BY <1>1, PTL

-----------------------------------------------------------------------------
(* A line as its handler reads it. *)
Reads(l, m) ==
  /\ l \in Line
  /\ \E past \in Stray \cup {None} : m = MatchIn(there, Existing, Linked, l, past)
  /\ m.ok

known == Known(there, Existing, Linked)
RuleOf(l, m) == rawrules[l.token][m.variant]

LEMMA HandlersRead ==
  ASSUME NEW l \in Line, NEW m \in Matches(l), m # Wild, m.ok
  PROVE  Reads(l, m)
  BY DEF Matches, Reads

(* What is known of the match, for the words with the one behind them. *)
LEMMA ReadingIsMatching ==
  ASSUME NEW l, NEW m, Reads(l, m)
  PROVE  /\ Len(l.words) \in Nat /\ l.words \in Seq(LineWords) /\ m.ok
         /\ m.variant \in DOMAIN rawrules[l.token] /\ RuleOf(l, m) \in Seq(RuleWords)
         /\ \E words \in Seq(ReadWords) :
              /\ words # <<>> /\ Len(words) - 1 = Len(l.words) /\ Len(words) = Len(l.words) + 1
              /\ \A i \in 1..Len(l.words) : words[i] = l.words[i]
              /\ Accounted(m, Len(words) - 1) /\ Obeyed(words, known, RuleOf(l, m), m)
<1>1. PICK past \in Stray \cup {None} : m = MatchIn(there, Existing, Linked, l, past)
  BY DEF Reads
<1>2. l \in Line /\ m.ok /\ l.token \in DOMAIN rawrules /\ l.words \in Seq(LineWords)
  BY LinesAreOfTokens DEF Reads
<1> DEFINE words == Append(l.words, past)
<1>3. /\ words \in Seq(ReadWords) /\ words # <<>>
      /\ Len(words) - 1 = Len(l.words) /\ Len(l.words) \in Nat
      /\ \A i \in 1..Len(l.words) : words[i] = l.words[i]
  BY <1>2, WordsBehind
<1>4. Len(words) = Len(l.words) + 1
  BY <1>2
<1>5. m = Match(l.token, words, known)
  BY <1>1 DEF MatchIn, known
<1> HIDE DEF words
<1>6. /\ Accounted(m, Len(words) - 1) /\ m.variant \in DOMAIN rawrules[l.token]
      /\ Obeyed(words, known, RuleOf(l, m), m)
  BY <1>2, <1>3, <1>5, MatchAccounts DEF RuleOf
<1>7. RuleOf(l, m) \in Seq(RuleWords)
  BY <1>2, <1>6, RulesAreRules DEF RuleOf
<1> QED BY <1>2, <1>3, <1>4, <1>6, <1>7

(* The i-th argument is the i-th word, and can be converted. *)
InPlace(l, m, i) ==
  /\ WordOf(l, m, i) = l.words[i]
  /\ RuleOf(l, m)[i].type # "word" => l.words[i] \in known[RuleOf(l, m)[i].type]

LEMMA ReadsFront ==
  ASSUME NEW l, NEW m, Reads(l, m), NEW n \in 1..Len(RuleOf(l, m)),
         \A i \in 1..n : RuleOf(l, m)[i].flag = "normal" /\ RuleOf(l, m)[i].at = i
  PROVE  /\ n <= Len(l.words)
         /\ \A i \in 1..n : InPlace(l, m, i)
<1> DEFINE rule == RuleOf(l, m)
<1>1. PICK words \in Seq(ReadWords) :
        /\ words # <<>> /\ Len(words) - 1 = Len(l.words)
        /\ \A i \in 1..Len(l.words) : words[i] = l.words[i]
        /\ Accounted(m, Len(words) - 1) /\ Obeyed(words, known, rule, m)
  BY ReadingIsMatching
<1>2. m.ok /\ rule \in Seq(RuleWords) /\ Len(l.words) \in Nat
  BY ReadingIsMatching
<1> HIDE DEF rule
<1>3. n \in 1..Len(rule) /\ \A i \in 1..n : rule[i].flag = "normal" /\ rule[i].at = i
  BY DEF rule
<1>4. /\ n <= Len(words) - 1
      /\ \A i \in 1..n : /\ m.args[i] = i
                         /\ rule[i].type # "word" => words[i] \in known[rule[i].type]
  BY <1>1, <1>2, <1>3, FrontWords
<1>5. n <= Len(l.words)
  BY <1>1, <1>4
<1>6. ASSUME NEW i \in 1..n
      PROVE  /\ WordOf(l, m, i) = l.words[i]
             /\ rule[i].type # "word" => l.words[i] \in known[rule[i].type]
  <2>1. i \in 1..Len(l.words) /\ i # Absent
    BY <1>2, <1>5 DEF Absent
  <2>2. m.args[i] = i /\ (rule[i].type # "word" => words[i] \in known[rule[i].type])
    BY <1>4
  <2>3. words[i] = l.words[i]
    BY <1>1, <2>1
  <2>4. WordOf(l, m, i) = l.words[i]
    BY <2>1, <2>2 DEF WordOf
  <2> QED BY <2>2, <2>3, <2>4
<1> QED BY <1>5, <1>6 DEF rule, InPlace

LEMMA ReadsBack ==
  ASSUME NEW l, NEW m, Reads(l, m), NEW j \in 1..Len(RuleOf(l, m)), NEW b \in Nat, b # 0,
         RuleOf(l, m)[j].at = -b, RuleOf(l, m)[j].flag # "greedy",
         m.args[j] # Absent \/ RuleOf(l, m)[j].flag # "optional"
  PROVE  /\ b <= Len(l.words) /\ WordOf(l, m, j) = l.words[Len(l.words) - b + 1]
         /\ RuleOf(l, m)[j].type # "word" => WordOf(l, m, j) \in known[RuleOf(l, m)[j].type]
<1> DEFINE rule == RuleOf(l, m)
           argc == Len(l.words)
<1>1. PICK words \in Seq(ReadWords) :
        /\ words # <<>> /\ Len(words) - 1 = argc /\ Len(words) = argc + 1
        /\ \A i \in 1..argc : words[i] = l.words[i]
        /\ Accounted(m, Len(words) - 1) /\ Obeyed(words, known, rule, m)
  BY ReadingIsMatching
<1>2. m.ok /\ rule \in Seq(RuleWords) /\ argc \in Nat
  BY ReadingIsMatching
<1> HIDE DEF rule
<1>3. j \in 1..Len(rule) /\ rule[j].at = -b /\ rule[j].flag # "greedy"
      /\ (m.args[j] # Absent \/ rule[j].flag # "optional")
  BY DEF rule
<1>4. /\ m.args[j] = Source(rule[j].at, Len(words) - 1) /\ m.args[j] \in 1..Len(words)
      /\ rule[j].type # "word" => words[m.args[j]] \in known[rule[j].type]
  <2>1. words \in Seq(ReadWords) /\ words # <<>>
        /\ Accounted(m, Len(words) - 1) /\ Obeyed(words, known, rule, m)
    BY <1>1
  <2> QED BY <1>2, <1>3, <2>1, OneWord
<1> HIDE DEF argc
<1>5. Source(rule[j].at, Len(words) - 1) = argc - b + 1
  <2>1. rule[j].at = -b /\ -b < 0 /\ Len(words) - 1 = argc
    BY <1>1, <1>3
  <2>2. Source(-b, argc) = argc - b + 1
    BY <1>2, <2>1 DEF Source
  <2> QED BY <2>1, <2>2
<1>6. m.args[j] = argc - b + 1 /\ m.args[j] \in 1..argc /\ b <= argc /\ m.args[j] # Absent
  BY <1>1, <1>2, <1>4, <1>5 DEF Absent
<1>7. WordOf(l, m, j) = l.words[argc - b + 1] /\ WordOf(l, m, j) = words[m.args[j]]
  BY <1>1, <1>6 DEF WordOf
<1> QED BY <1>4, <1>6, <1>7 DEF rule, argc

LEMMA Smallest ==
  ASSUME NEW S \in SUBSET Nat, S # {}
  PROVE  LET i == CHOOSE i \in S : \A j \in S : i <= j IN i \in S /\ \A j \in S : i <= j
<1>1. PICK i \in S : \A j \in S : ~ (<<j, i>> \in OpToRel(<, Nat))
  BY NatLessThanWellFounded, WFMin
<1>2. \A j \in S : ~ j < i
  BY <1>1 DEF OpToRel
<1>3. \A j \in S : i <= j
  BY <1>2
<1> QED BY <1>3

(* The words of the greedy argument are words of the line. *)
LEMMA ReadsGreedy ==
  ASSUME NEW l, NEW m, Reads(l, m)
  PROVE  /\ GreedyWords(l, m) \in Seq(LineWords) /\ Cardinality(m.rest) \in Nat
         /\ m.rest # {} => GreedyWords(l, m) # <<>>
<1> DEFINE from == CHOOSE i \in m.rest : \A j \in m.rest : i <= j
           argc == Len(l.words)
           n == Cardinality(m.rest)
<1>1. l.words \in Seq(LineWords) /\ argc \in Nat /\ m.rest \subseteq 1..argc
  BY ReadingIsMatching DEF Accounted
<1>2. IsFiniteSet(1..argc) /\ IsFiniteSet(m.rest) /\ n \in Nat
  <2>1. IsFiniteSet(1..argc)
    <3> HIDE DEF argc
    <3> QED BY <1>1, FS_Interval
  <2> QED BY <1>1, <2>1, FS_Subset, FS_CardinalityType
<1>3. CASE m.rest = {}
  BY <1>2, <1>3 DEF GreedyWords
<1>4. CASE m.rest # {}
  <2>1. m.rest \in SUBSET Nat
    BY <1>1
  <2>2. from \in m.rest /\ \A j \in m.rest : from <= j
    BY <1>4, <2>1, Smallest
  <2> HIDE DEF from
  <2>3. from \in 1..argc /\ m.rest \in SUBSET (from..argc)
    BY <1>1, <2>2
  <2>4. n <= argc - from + 1 /\ n # 0
    <3>1. IsFiniteSet(from..argc) /\ Cardinality(from..argc) = argc - from + 1
      <4> HIDE DEF argc
      <4>1. from \in Int /\ argc \in Int /\ from <= argc
        BY <1>1, <2>3
      <4> QED BY <4>1, FS_Interval
    <3>2. n <= Cardinality(from..argc)
      BY <2>3, <3>1, FS_Subset
    <3>3. n # 0
      BY <1>2, <1>4, FS_EmptySet
    <3> QED BY <3>1, <3>2, <3>3
  <2>5. GreedyWords(l, m) = SubSeq(l.words, from, from + n - 1)
    BY <1>4 DEF GreedyWords, from
  <2>6. from + n - 1 \in from..argc
    <3> HIDE DEF argc, n
    <3> QED BY <1>1, <1>2, <2>3, <2>4
  <2>7. SubSeq(l.words, from, from + n - 1) \in Seq(LineWords) \ {<<>>}
    <3> DEFINE to == from + n - 1
    <3>1. from \in 1..argc /\ to \in from..argc
      BY <2>3, <2>6
    <3> HIDE DEF n, to
    <3>2. SubSeq(l.words, from, to) \in Seq(LineWords) /\ Len(SubSeq(l.words, from, to)) = to - from + 1
      BY <1>1, <3>1
    <3>3. to - from + 1 # 0
      BY <3>1
    <3> QED BY <3>2, <3>3 DEF to
  <2> QED BY <1>2, <2>5, <2>7
<1> QED BY <1>3, <1>4

-----------------------------------------------------------------------------
(* mode_apply on a channel c0 keeps its timestamp and its users, gives     *)
(* status to them only and bits to flags only; on a user it gives an       *)
(* account that has been named.                                            *)
Modes == Flags.channel \cup Flags.user \cup SetParam.channel \cup SetParam.user

ModeState ==
  [pls : BOOLEAN, skip : Nat \ {0}, argsused : Nat, died : {None, "key", "limit", "status", "prefix"},
   mode : SUBSET Modes, c : Channel \cup {None}, oper : BOOLEAN, account : Accounts]

OnChannel(c0, s) ==
  /\ s.c \in Channel /\ s.c.ts = c0.ts /\ s.c.users = c0.users /\ ChannelOK(s.c)
  /\ s.mode \subseteq Flags.channel

LetterStep(env, s, m) == Letter(s, env[1], env[2], m)
Lettered(env, k, s) == s \in ModeState /\ (env[1] = "channel" => OnChannel(env[3], s))
Lettering == INSTANCE FoldFacts WITH Step <- LetterStep, Good <- Lettered

LEMMA NumbersAreNumbers == \A word : strtol(word) \in Nat
  BY WordsAreRead DEF strtol

LEMMA ChannelHookKeeps ==
  ASSUME NEW c0, NEW s \in ModeState, OnChannel(c0, s), NEW m, NEW param \in LineWords \cup {None}
  PROVE  LET t == ChannelHook(s, m, param) IN t \in ModeState /\ OnChannel(c0, t)
<1> DEFINE Kept(t) == t \in ModeState /\ OnChannel(c0, t)
           status == IF m = "o" THEN s.c.ops ELSE s.c.voices
           set == IF s.pls THEN status \cup {param} ELSE status \ {param}
<1>1. s.c \in Channel /\ ChannelOK(s.c)
  BY DEF OnChannel
<1>2. \A why \in {"key", "limit", "status", "prefix"} : Kept([s EXCEPT !.died = why])
  BY DEF ModeState, OnChannel
<1> DEFINE With(c) == [s EXCEPT !.c = c]
<1>3. ASSUME NEW c \in Channel, c.ts = s.c.ts, c.users = s.c.users, ChannelOK(c) PROVE Kept(With(c))
  BY <1>3 DEF ModeState, OnChannel
<1>4. Kept(With([s.c EXCEPT !.key = IF s.pls THEN param ELSE None]))
  <2> DEFINE c == [s.c EXCEPT !.key = IF s.pls THEN param ELSE None]
  <2>1. c \in Channel /\ c.ts = s.c.ts /\ c.users = s.c.users /\ ChannelOK(c)
    BY <1>1 DEF Channel, ChannelOK
  <2> HIDE DEF c, Kept, With
  <2> QED BY <1>3, <2>1 DEF c
<1>5. Kept(With([s.c EXCEPT !.limit = strtol(param)]))
  <2> DEFINE c == [s.c EXCEPT !.limit = strtol(param)]
  <2>1. c \in Channel /\ c.ts = s.c.ts /\ c.users = s.c.users /\ ChannelOK(c)
    BY <1>1, NumbersAreNumbers DEF Channel, ChannelOK
  <2> HIDE DEF c, Kept, With
  <2> QED BY <1>3, <2>1 DEF c
<1>6. ASSUME param # None PROVE Kept(With([s.c EXCEPT !.bans = Banned(@, s.pls, param)]))
  <2> DEFINE c == [s.c EXCEPT !.bans = Banned(@, s.pls, param)]
  <2>1. c \in Channel /\ c.ts = s.c.ts /\ c.users = s.c.users /\ ChannelOK(c)
    BY <1>1, <1>6 DEF Channel, ChannelOK, Banned
  <2> HIDE DEF c, Kept, With
  <2> QED BY <1>3, <2>1 DEF c
<1>7. ASSUME param \in s.c.users, m = "o" PROVE Kept(With([s.c EXCEPT !.ops = set]))
  <2> DEFINE c == [s.c EXCEPT !.ops = set]
  <2>1. c \in Channel /\ c.ts = s.c.ts /\ c.users = s.c.users /\ ChannelOK(c)
    BY <1>1, <1>7 DEF Channel, ChannelOK
  <2> HIDE DEF c, Kept, With
  <2> QED BY <1>3, <2>1 DEF c
<1>8. ASSUME param \in s.c.users, m = "v" PROVE Kept(With([s.c EXCEPT !.voices = set]))
  <2> DEFINE c == [s.c EXCEPT !.voices = set]
  <2>1. c \in Channel /\ c.ts = s.c.ts /\ c.users = s.c.users /\ ChannelOK(c)
    BY <1>1, <1>8 DEF Channel, ChannelOK
  <2> HIDE DEF c, Kept, With
  <2> QED BY <1>3, <2>1 DEF c
<1>9. Kept(s)
  OBVIOUS
<1> DEFINE t == ChannelHook(s, m, param)
<1>10. \/ \E why \in {"key", "limit", "status", "prefix"} : t = [s EXCEPT !.died = why]
       \/ t = With([s.c EXCEPT !.key = IF s.pls THEN param ELSE None])
       \/ t = With([s.c EXCEPT !.limit = strtol(param)])
       \/ param # None /\ t = With([s.c EXCEPT !.bans = Banned(@, s.pls, param)])
       \/ param \in s.c.users /\ m = "o" /\ t = With([s.c EXCEPT !.ops = set])
       \/ param \in s.c.users /\ m = "v" /\ t = With([s.c EXCEPT !.voices = set])
       \/ t = s
  <2>1. CASE m = "k" \/ m = "l"
    BY <2>1 DEF ChannelHook
  <2>2. CASE m = "b"
    BY <2>2 DEF ChannelHook
  <2>3. CASE m = "o"
    BY <2>3 DEF ChannelHook
  <2>4. CASE m = "v"
    BY <2>4 DEF ChannelHook
  <2>5. CASE m \notin {"k", "l", "b", "o", "v"}
    BY <2>5 DEF ChannelHook
  <2> QED BY <2>1, <2>2, <2>3, <2>4, <2>5
<1> HIDE DEF t, set, With, Kept
<1>11. Kept(t)
  BY <1>2, <1>4, <1>5, <1>6, <1>7, <1>8, <1>9, <1>10
<1> QED BY <1>11 DEF t, Kept

LEMMA UserHookKeeps ==
  ASSUME NEW s \in ModeState, NEW m, NEW param \in LineWords \cup {None}
  PROVE  UserHook(s, m, param) \in ModeState
<1>1. param \in Accounts /\ "0" \in Accounts
  BY DEF Accounts
<1>2. /\ [s EXCEPT !.oper = s.pls] \in ModeState
      /\ [s EXCEPT !.account = param] \in ModeState
      /\ [s EXCEPT !.account = "0"] \in ModeState
  BY <1>1 DEF ModeState
<1>3. UserHook(s, m, param) \in {s, [s EXCEPT !.oper = s.pls], [s EXCEPT !.account = param],
                                 [s EXCEPT !.account = "0"]}
  BY DEF UserHook
<1> QED BY <1>2, <1>3

LEMMA LetterKeeps ==
  ASSUME NEW kind \in {"channel", "user"}, NEW rest \in Seq(LineWords), NEW c0, NEW k, NEW m, NEW s,
         Lettered(<<kind, rest, c0>>, k, s)
  PROVE  Lettered(<<kind, rest, c0>>, k + 1, Letter(s, kind, rest, m))
<1> DEFINE takes == m \in (IF s.pls THEN SetParam[kind] ELSE UnsetParam[kind])
           param == IF takes /\ s.skip <= Len(rest) THEN rest[s.skip] ELSE None
           skip == IF takes /\ s.skip <= Len(rest) THEN s.skip + 1 ELSE s.skip
           argsused == IF takes THEN s.argsused + 1 ELSE s.argsused
           t == [s EXCEPT !.mode = SetBit(s, kind, m), !.skip = skip, !.argsused = argsused]
           Kept(u) == u \in ModeState /\ (kind = "channel" => OnChannel(c0, u))
<1>1. s \in ModeState /\ Kept(s)
  BY DEF Lettered
<1>2. skip \in Nat \ {0} /\ argsused \in Nat
  BY <1>1 DEF ModeState
<1>3. param \in LineWords \cup {None}
  <2>1. s.skip \in Nat \ {0}
    BY <1>1 DEF ModeState
  <2> QED BY <2>1
<1>4. ASSUME m \in Flags[kind] \cup SetParam[kind] PROVE Kept(t)
  <2>1. m \in Modes /\ (kind = "channel" => m \in Flags.channel \cup SetParam.channel)
    BY <1>4 DEF Modes
  <2>2. SetBit(s, kind, m) \in SUBSET Modes
    BY <1>1, <2>1 DEF SetBit, ModeState
  <2>3. kind = "channel" /\ s.mode \subseteq Flags.channel => SetBit(s, kind, m) \subseteq Flags.channel
    BY <2>1 DEF SetBit
  <2> HIDE DEF skip, argsused
  <2>4. t \in ModeState /\ t.c = s.c /\ t.mode = SetBit(s, kind, m)
    BY <1>1, <1>2, <2>2 DEF ModeState
  <2> HIDE DEF t
  <2> QED BY <1>1, <2>3, <2>4 DEF OnChannel
<1>5. \A b \in BOOLEAN : Kept([s EXCEPT !.pls = b])
  BY <1>1 DEF ModeState, OnChannel
<1>6. ASSUME m \in Flags[kind] \cup SetParam[kind]
      PROVE  Kept(IF kind = "channel" THEN ChannelHook(t, m, param) ELSE UserHook(t, m, param))
  <2> HIDE DEF t, param
  <2>1. CASE kind = "channel"
    BY <1>3, <1>4, <1>6, <2>1, ChannelHookKeeps
  <2>2. CASE kind = "user"
    BY <1>3, <1>4, <1>6, <2>2, UserHookKeeps
  <2> QED BY <2>1, <2>2
<1>7. Letter(s, kind, rest, m) =
        IF s.died # None THEN s
        ELSE CASE m \in {"+", "-"} -> [s EXCEPT !.pls = (m = "+")]
               [] m \in Flags[kind] \cup SetParam[kind] ->
                    IF kind = "channel" THEN ChannelHook(t, m, param) ELSE UserHook(t, m, param)
               [] OTHER -> s
  BY DEF Letter
<1>8. m \in Flags[kind] \cup SetParam[kind] => m \notin {"+", "-"}
  BY DEF Flags, SetParam
<1>9. Kept(Letter(s, kind, rest, m))
  <2> HIDE DEF t, param, Kept
  <2> QED BY <1>1, <1>5, <1>6, <1>7, <1>8
<1> QED BY <1>9 DEF Lettered

(* mode_apply from its start. *)
LEMMA ModesApply ==
  ASSUME NEW kind \in {"channel", "user"}, NEW word, NEW rest \in Seq(LineWords), NEW c0, NEW s,
         Lettered(<<kind, rest, c0>>, 0, s)
  PROVE  LET t == ModeApply(s, kind, word, rest)
         IN t \in ModeState /\ (kind = "channel" => OnChannel(c0, t))
<1> DEFINE env == <<kind, rest, c0>>
           letters == IF word \in DOMAIN Spell THEN Spell[word] ELSE <<>>
<1>1. ModeApply(s, kind, word, rest) = Lettering!Folded(env, s, letters)
  BY DEF ModeApply, FoldLeft, MapThenFoldSet, Max, LetterStep, Lettering!Folded, Lettering!IsFold,
         Lettering!Largest
<1>2. letters \in Seq(STRING)
  <2>1. word \in DOMAIN Spell => Spell[word] \in Seq(STRING)
    BY WordsAreRead
  <2>2. <<>> \in Seq(STRING)
    OBVIOUS
  <2> QED BY <2>1, <2>2
<1> HIDE DEF letters
<1>3. Len(letters) \in Nat /\ DOMAIN letters = 1..Len(letters)
  BY <1>2
<1>4. ASSUME NEW k \in 1..Len(letters), NEW t, Lettered(env, k - 1, t)
      PROVE  Lettered(env, k, LetterStep(env, t, letters[k]))
  <2>1. Lettered(env, (k - 1) + 1, Letter(t, kind, rest, letters[k]))
    BY <1>4, LetterKeeps
  <2> QED BY <2>1 DEF LetterStep, Lettered
<1>5. Lettered(env, Len(letters), Lettering!Folded(env, s, letters))
  <2> HIDE DEF env
  <2>1. Lettered(env, 0, s)
    BY DEF env
  <2> QED BY <1>3, <1>4, <2>1, Lettering!FoldKeeps
<1>6. env[1] = kind /\ env[3] = c0
  OBVIOUS
<1> HIDE DEF env
<1> QED BY <1>1, <1>5, <1>6 DEF Lettered

LEMMA ApplyingToChannel ==
  ASSUME NEW c \in Channel, ChannelOK(c), c.mode \subseteq Flags.channel,
         NEW word, NEW rest \in Seq(LineWords)
  PROVE  LET s == ApplyToChannel(c, word, rest)
         IN /\ s \in ModeState /\ OnChannel(c, s)
            /\ ModesApplied(s) \in Channel /\ ModesApplied(s).ts = c.ts /\ ModesApplied(s).users = c.users
            /\ ChannelOK(ModesApplied(s)) /\ ModesApplied(s).mode \subseteq Flags.channel
<1> DEFINE start == [Start EXCEPT !.c = c, !.mode = c.mode]
           s == ApplyToChannel(c, word, rest)
<1>1. Lettered(<<"channel", rest, c>>, 0, start)
  <2>1. c.mode \subseteq Modes /\ None \in Accounts
    BY DEF Modes, Accounts
  <2>2. Start \in ModeState
    BY <2>1 DEF Start, ModeState
  <2>3. start \in ModeState /\ start.c = c /\ start.mode = c.mode
    BY <2>1, <2>2 DEF ModeState
  <2> HIDE DEF start
  <2> QED BY <2>3 DEF Lettered, OnChannel
<1>2. s = ModeApply(start, "channel", word, rest)
  BY DEF ApplyToChannel
<1> HIDE DEF start, s
<1>3. s \in ModeState /\ OnChannel(c, s)
  BY <1>1, <1>2, ModesApply
<1>4. /\ ModesApplied(s) \in Channel /\ ModesApplied(s).ts = c.ts /\ ModesApplied(s).users = c.users
      /\ ChannelOK(ModesApplied(s)) /\ ModesApplied(s).mode \subseteq Flags.channel
  BY <1>3 DEF ModesApplied, OnChannel, Channel, ChannelOK
<1> QED BY <1>3, <1>4 DEF s

-----------------------------------------------------------------------------
(* Users, channels and servers, whatever the line.                         *)
GoodChannel(c) == c \in Channel /\ ChannelOK(c) /\ c.mode \subseteq Flags.channel

ChannelsOK(chans) ==
  chans \in [Chan -> Channel \cup {None}] /\ \A c \in Chan : chans[c] # None => GoodChannel(chans[c])

UsersOK(us, ops, accounts) == us \subseteq User /\ ops \subseteq us /\ accounts \in [User -> Accounts]

NetOK ==
  /\ UsersOK(there, opers, account) /\ ChannelsOK(channel)
  /\ protocol \in [Server -> {"J10", "P10", None}]

(* The channels that were there are there, and no timestamp has risen but  *)
(* that of a channel made anew.                                            *)
NoneRises(us, chans, then) ==
  \A c \in Chan : chans[c] # None =>
    /\ then[c] # None
    /\ then[c].ts <= chans[c].ts \/ \E u \in us : then[c] = Created(u, then[c].ts)

LEMMA NewIsGood ==
  ASSUME NEW ts \in Nat
  PROVE  /\ GoodChannel(NewChannel(ts)) /\ NewChannel(ts).ts = ts
         /\ \A u \in User : GoodChannel(Created(u, ts)) /\ Created(u, ts).ts = ts
<1>1. GoodChannel(NewChannel(ts)) /\ NewChannel(ts).ts = ts
  BY DEF GoodChannel, Channel, ChannelOK, NewChannel
<1>2. ASSUME NEW u \in User PROVE GoodChannel(Created(u, ts)) /\ Created(u, ts).ts = ts
  <2> DEFINE new == NewChannel(ts)
  <2>1. new \in Channel /\ new.mode \subseteq Flags.channel /\ new.voices = {} /\ new.ts = ts
    BY <1>1 DEF GoodChannel, NewChannel
  <2> HIDE DEF new
  <2> DEFINE made == [new EXCEPT !.users = {u}, !.ops = {u}]
  <2>2. made \in Channel /\ made.ts = ts /\ made.mode = new.mode
        /\ made.users = {u} /\ made.ops = {u} /\ made.voices = {}
    BY <2>1 DEF Channel
  <2>3. made = Created(u, ts)
    BY DEF Created, new
  <2> HIDE DEF made
  <2> QED BY <2>1, <2>2, <2>3 DEF GoodChannel, ChannelOK
<1> QED BY <1>1, <1>2

LEMMA NothingRises ==
  ASSUME ChannelsOK(channel) PROVE NoneRises(there, channel, channel)
  BY DEF ChannelsOK, GoodChannel, Channel, NoneRises

(* One channel changes and does not become younger, or is made by u. *)
LEMMA OneChannel ==
  ASSUME ChannelsOK(channel), NEW name \in Chan, NEW c, GoodChannel(c),
         channel[name] # None => \/ c.ts <= channel[name].ts
                                \/ \E u \in there : c = Created(u, c.ts),
         NEW chans, chans = [channel EXCEPT ![name] = c]
  PROVE  ChannelsOK(chans) /\ NoneRises(there, channel, chans)
<1>1. c # None /\ c \in Channel
  BY NoneIsNoChannel DEF GoodChannel
<1>2. chans \in [Chan -> Channel \cup {None}]
  BY <1>1 DEF ChannelsOK
<1>3. \A d \in Chan : chans[d] = IF d = name THEN c ELSE channel[d]
  BY DEF ChannelsOK
<1> QED BY <1>1, <1>2, <1>3 DEF ChannelsOK, GoodChannel, Channel, NoneRises

LEMMA JoinAllKeeps ==
  ASSUME NEW c, GoodChannel(c), there \subseteq User, NEW list
  PROVE  GoodChannel(JoinAll(c, list)) /\ JoinAll(c, list).ts = c.ts
<1> DEFINE all == {list[i].unum : i \in {j \in DOMAIN list : list[j].unum \in there}}
           has(mc) == {list[i].unum : i \in {j \in DOMAIN list :
                         list[j].unum \in there /\ mc \in Statuses(list)[j]}}
<1>1. all \subseteq User /\ has("o") \subseteq all /\ has("v") \subseteq all
  OBVIOUS
<1>2. JoinAll(c, list) = [c EXCEPT !.users = @ \cup all, !.ops = @ \cup has("o"), !.voices = @ \cup has("v")]
  BY DEF JoinAll
<1> HIDE DEF all, has
<1> QED BY <1>1, <1>2 DEF GoodChannel, Channel, ChannelOK

-----------------------------------------------------------------------------
(* What the handlers are given: names that are channels, numbers that are  *)
(* numbers, numerics that are there.                                       *)
LEMMA BurstIsGiven ==
  ASSUME NEW l, NEW m, Reads(l, m), l.token = "BURST"
  PROVE  WordOf(l, m, 1) \in Chan /\ ValueOf[WordOf(l, m, 2)] \in Nat
<1> DEFINE rule == <<Word(1), Arg(2, "time"), Rest(3)>>
<1>1. m.variant \in DOMAIN rawrules[l.token] /\ l \in Line
  BY ReadingIsMatching DEF Reads
<1>2. rawrules[l.token] = <<rule>>
  BY DEF rawrules
<1>3. RuleOf(l, m) = rule
  BY <1>1, <1>2 DEF RuleOf
<1>4. /\ Len(rule) = 3
      /\ rule[1].flag = "normal" /\ rule[1].at = 1
      /\ rule[2].flag = "normal" /\ rule[2].at = 2 /\ rule[2].type = "time"
  BY DEF Word, Arg, RuleWord, Types
<1>5. 2 \in 1..Len(rule) /\ \A i \in 1..2 : rule[i].flag = "normal" /\ rule[i].at = i
  BY <1>4
<1> HIDE DEF rule
<1>6. 2 <= Len(l.words) /\ WordOf(l, m, 1) = l.words[1] /\ WordOf(l, m, 2) \in known["time"]
  <2>1. 2 \in 1..Len(RuleOf(l, m))
        /\ \A i \in 1..2 : RuleOf(l, m)[i].flag = "normal" /\ RuleOf(l, m)[i].at = i
    BY <1>3, <1>5
  <2>2. /\ 2 <= Len(l.words)
        /\ \A i \in 1..2 : InPlace(l, m, i)
    BY <2>1, ReadsFront
  <2>3. 1 \in 1..2 /\ 2 \in 1..2 /\ RuleOf(l, m)[2].type = "time"
    BY <1>3, <1>4
  <2> QED BY <2>2, <2>3 DEF InPlace
<1>7. WordOf(l, m, 2) \in DOMAIN ValueOf
  BY <1>6 DEF known, Known
<1> QED BY <1>1, <1>6, <1>7, LinesNameThings, WordsAreRead, ReadingIsMatching

LEMMA JoinIsGiven ==
  ASSUME NEW l, NEW m, Reads(l, m), l.token = "JOIN"
  PROVE  WordOf(l, m, 1) \in Existing \cup {Chan0}
<1> DEFINE rule == <<Arg(1, "chan"), Opt(2, "time")>>
<1>1. RuleOf(l, m) = rule
  <2>1. m.variant \in DOMAIN rawrules[l.token]
    BY ReadingIsMatching
  <2>2. rawrules[l.token] = <<rule>>
    BY DEF rawrules
  <2> QED BY <2>1, <2>2 DEF RuleOf
<1>2. Len(rule) = 2 /\ rule[1].flag = "normal" /\ rule[1].at = 1 /\ rule[1].type = "chan"
  BY DEF Arg, RuleWord, Types
<1>3. 1 \in 1..Len(rule) /\ \A i \in 1..1 : rule[i].flag = "normal" /\ rule[i].at = i
  BY <1>2
<1> HIDE DEF rule
<1>4. 1 \in 1..1 /\ \A i \in 1..1 : InPlace(l, m, i)
  BY <1>1, <1>3, ReadsFront
<1> QED BY <1>1, <1>2, <1>4 DEF InPlace, known, Known

LEMMA CreateIsGiven ==
  ASSUME NEW l, NEW m, Reads(l, m), l.token = "CREATE"
  PROVE  WordOf(l, m, 1) \in Chan /\ ValueOf[WordOf(l, m, 2)] \in Nat
<1> DEFINE rule == <<Word(1), Arg(2, "time")>>
<1>1. RuleOf(l, m) = rule /\ l \in Line
  <2>1. m.variant \in DOMAIN rawrules[l.token] /\ l \in Line
    BY ReadingIsMatching DEF Reads
  <2>2. rawrules[l.token] = <<rule>>
    BY DEF rawrules
  <2> QED BY <2>1, <2>2 DEF RuleOf
<1>2. /\ Len(rule) = 2
      /\ rule[1].flag = "normal" /\ rule[1].at = 1
      /\ rule[2].flag = "normal" /\ rule[2].at = 2 /\ rule[2].type = "time"
  BY DEF Word, Arg, RuleWord, Types
<1>3. 2 \in 1..Len(rule) /\ \A i \in 1..2 : rule[i].flag = "normal" /\ rule[i].at = i
  BY <1>2
<1> HIDE DEF rule
<1>4. 2 <= Len(l.words) /\ \A i \in 1..2 : InPlace(l, m, i)
  BY <1>1, <1>3, ReadsFront
<1>5. 1 \in 1..2 /\ 2 \in 1..2
  OBVIOUS
<1>6. WordOf(l, m, 1) = l.words[1] /\ WordOf(l, m, 2) \in DOMAIN ValueOf
  BY <1>1, <1>2, <1>4, <1>5 DEF InPlace, known, Known
<1> QED BY <1>1, <1>4, <1>6, LinesNameThings, WordsAreRead, ReadingIsMatching

LEMMA ModeIsGivenTime ==
  ASSUME NEW l, NEW m, Reads(l, m), l.token = "MODE", m.variant = 2
  PROVE  WordOf(l, m, 3) = None \/ ValueOf[WordOf(l, m, 3)] \in Nat
<1> DEFINE rule == <<Arg(1, "chan"), Rest(2), Opt(-1, "time")>>
<1>1. RuleOf(l, m) = rule
  BY DEF RuleOf, rawrules
<1>2. Len(rule) = 3 /\ rule[3].flag = "optional" /\ rule[3].at = -1 /\ rule[3].type = "time"
  BY DEF Opt, RuleWord, Types
<1> HIDE DEF rule
<1>3. CASE m.args[3] = Absent
  BY <1>3 DEF WordOf
<1>4. CASE m.args[3] # Absent
  <2>1. 3 \in 1..Len(RuleOf(l, m)) /\ 1 \in Nat /\ 1 # 0 /\ RuleOf(l, m)[3].at = -1
        /\ RuleOf(l, m)[3].flag # "greedy" /\ RuleOf(l, m)[3].type # "word"
    BY <1>1, <1>2
  <2>2. WordOf(l, m, 3) \in known[RuleOf(l, m)[3].type]
    BY <1>4, <2>1, ReadsBack
  <2> QED BY <1>1, <1>2, <2>2, WordsAreRead DEF known, Known
<1> QED BY <1>3, <1>4

LEMMA ModeIsGivenNick ==
  ASSUME NEW l, NEW m, Reads(l, m), l.token = "MODE", m.variant = 1
  PROVE  NickOf[WordOf(l, m, 1)] \in there
<1> DEFINE rule == <<Arg(1, "nick"), Rest(2)>>
<1>1. RuleOf(l, m) = rule
  BY DEF RuleOf, rawrules
<1>2. Len(rule) = 2 /\ rule[1].flag = "normal" /\ rule[1].at = 1 /\ rule[1].type = "nick"
  BY DEF Arg, RuleWord, Types
<1>3. 1 \in 1..Len(rule) /\ \A i \in 1..1 : rule[i].flag = "normal" /\ rule[i].at = i
  BY <1>2
<1> HIDE DEF rule
<1>4. 1 \in 1..1 /\ \A i \in 1..1 : InPlace(l, m, i)
  BY <1>1, <1>3, ReadsFront
<1> QED BY <1>1, <1>2, <1>4 DEF InPlace, known, Known

LEMMA NickIsGiven ==
  ASSUME NEW l, NEW m, Reads(l, m), l.token = "NICK", m.variant = 2
  PROVE  WordOf(l, m, 8) \in User
<1> DEFINE rule == <<Word(1), Arg(2, "uint"), Arg(3, "time"), Word(4), Word(5), Rest(6),
                     Word(-3), Word(-2), Word(-1)>>
<1>1. RuleOf(l, m) = rule /\ l \in Line
  BY DEF RuleOf, rawrules, Reads
<1>2. Len(rule) = 9 /\ rule[8].flag = "normal" /\ rule[8].at = -2
  BY DEF Word, Arg, RuleWord
<1> HIDE DEF rule
<1>3. 8 \in 1..Len(RuleOf(l, m)) /\ 2 \in Nat /\ 2 # 0 /\ RuleOf(l, m)[8].at = -2
      /\ RuleOf(l, m)[8].flag # "greedy" /\ RuleOf(l, m)[8].flag # "optional"
  BY <1>1, <1>2
<1>4. 2 <= Len(l.words) /\ WordOf(l, m, 8) = l.words[Len(l.words) - 2 + 1]
  BY <1>3, ReadsBack
<1>5. Len(l.words) - 2 + 1 = Len(l.words) - 1
  BY ReadingIsMatching
<1> QED BY <1>1, <1>4, <1>5, LinesNameThings

LEMMA AccountIsGiven ==
  ASSUME NEW l, NEW m, Reads(l, m), l.token = "ACCOUNT"
  PROVE  WordOf(l, m, 2) \in LineWords
<1> DEFINE rule == <<Arg(1, "unum"), Word(2), Opt(3, "time"), Opt(4, "long"), Opt(5, "long")>>
<1>1. RuleOf(l, m) = rule
  <2>1. m.variant \in DOMAIN rawrules[l.token]
    BY ReadingIsMatching
  <2>2. rawrules[l.token] = <<rule>>
    BY DEF rawrules
  <2> QED BY <2>1, <2>2 DEF RuleOf
<1>2. /\ Len(rule) = 5
      /\ rule[1].flag = "normal" /\ rule[1].at = 1 /\ rule[2].flag = "normal" /\ rule[2].at = 2
  BY DEF Word, Arg, RuleWord
<1>3. 2 \in 1..Len(rule) /\ \A i \in 1..2 : rule[i].flag = "normal" /\ rule[i].at = i
  BY <1>2
<1> HIDE DEF rule
<1>4. 2 <= Len(l.words) /\ \A i \in 1..2 : InPlace(l, m, i)
  BY <1>1, <1>3, ReadsFront
<1>5. WordOf(l, m, 2) = l.words[2]
  BY <1>4 DEF InPlace
<1>6. l.words \in Seq(LineWords) /\ 2 \in 1..Len(l.words)
  BY <1>4, ReadingIsMatching
<1> QED BY <1>5, <1>6

LEMMA ServerIsGiven ==
  ASSUME NEW l, NEW m, Reads(l, m), l.token = "SERVER"
  PROVE  /\ WordOf(l, m, 5) \in {"J10", "P10"} /\ WordOf(l, m, 6) \in Server
         /\ l.from = None => WordOf(l, m, 6) = Uplink
<1> DEFINE rule == <<Word(1), Arg(2, "uint"), Arg(3, "time"), Arg(4, "time"), Word(5), Word(6),
                     Word(7), Word(-1)>>
<1>1. RuleOf(l, m) = rule /\ l \in Line
  <2>1. m.variant \in DOMAIN rawrules[l.token] /\ l \in Line
    BY ReadingIsMatching DEF Reads
  <2>2. rawrules[l.token] = <<rule>>
    BY DEF rawrules
  <2> QED BY <2>1, <2>2 DEF RuleOf
<1>2. /\ Len(rule) = 8
      /\ rule[1].flag = "normal" /\ rule[1].at = 1 /\ rule[2].flag = "normal" /\ rule[2].at = 2
      /\ rule[3].flag = "normal" /\ rule[3].at = 3 /\ rule[4].flag = "normal" /\ rule[4].at = 4
      /\ rule[5].flag = "normal" /\ rule[5].at = 5 /\ rule[6].flag = "normal" /\ rule[6].at = 6
  BY DEF Word, Arg, RuleWord
<1>3. 6 \in 1..Len(rule) /\ \A i \in 1..6 : rule[i].flag = "normal" /\ rule[i].at = i
  <2>1. \A i \in 1..6 : i \in {1, 2, 3, 4, 5, 6}
    OBVIOUS
  <2> HIDE DEF rule
  <2> QED BY <1>2, <2>1
<1> HIDE DEF rule
<1>4. 6 <= Len(l.words) /\ \A i \in 1..6 : InPlace(l, m, i)
  BY <1>1, <1>3, ReadsFront
<1>5. WordOf(l, m, 5) = l.words[5] /\ WordOf(l, m, 6) = l.words[6]
  BY <1>4 DEF InPlace
<1> QED BY <1>1, <1>4, <1>5, LinesNameThings, UplinkSpeaksForItself

LEMMA MessageIsGiven ==
  ASSUME NEW l, NEW m, Reads(l, m), l.token = "PRIVMSG"
  PROVE  WordOf(l, m, 2) \in DOMAIN CommandOf
<1> DEFINE rule == <<Word(1), Word(-1)>>
<1>1. RuleOf(l, m) = rule /\ l \in Line
  <2>1. m.variant \in DOMAIN rawrules[l.token] /\ l \in Line
    BY ReadingIsMatching DEF Reads
  <2>2. rawrules[l.token] = <<rule>>
    BY DEF rawrules
  <2> QED BY <2>1, <2>2 DEF RuleOf
<1>2. Len(rule) = 2 /\ rule[2].flag = "normal" /\ rule[2].at = -1
  BY DEF Word, Arg, RuleWord
<1> HIDE DEF rule
<1>3. 2 \in 1..Len(RuleOf(l, m)) /\ 1 \in Nat /\ 1 # 0 /\ RuleOf(l, m)[2].at = -1
      /\ RuleOf(l, m)[2].flag # "greedy" /\ RuleOf(l, m)[2].flag # "optional"
  BY <1>1, <1>2
<1>4. 1 <= Len(l.words) /\ WordOf(l, m, 2) = l.words[Len(l.words) - 1 + 1]
  BY <1>3, ReadsBack
<1>5. Len(l.words) - 1 + 1 = Len(l.words) /\ l.words # <<>>
  BY <1>4, ReadingIsMatching
<1> QED BY <1>1, <1>4, <1>5, MessagesAreTexts DEF Last

-----------------------------------------------------------------------------
(* What a step does to users, channels and servers.                        *)
NetKept ==
  /\ UsersOK(there', opers', account') /\ ChannelsOK(channel')
  /\ NoneRises(there, channel, channel')
  /\ protocol' \in [Server -> {"J10", "P10", None}]

LEMMA SameIsKept ==
  ASSUME NetOK, UNCHANGED <<there, opers, account, channel, protocol>> PROVE NetKept
  BY NothingRises DEF NetOK, NetKept

LEMMA OneIsKept ==
  ASSUME NetOK, UNCHANGED <<there, opers, account, protocol>>,
         NEW name \in Chan, NEW c, GoodChannel(c),
         channel[name] # None => \/ c.ts <= channel[name].ts
                                \/ \E u \in there : c = Created(u, c.ts),
         channel' = [channel EXCEPT ![name] = c]
  PROVE  NetKept
<1>1. ChannelsOK(channel)
  BY DEF NetOK
<1>2. ChannelsOK(channel') /\ NoneRises(there, channel, channel')
  BY <1>1, OneChannel
<1> QED BY <1>2 DEF NetOK, NetKept

LEMMA GoodIsTimed == ASSUME NEW c, GoodChannel(c) PROVE c \in Channel /\ c.ts \in Nat
  BY DEF GoodChannel, Channel

LEMMA BurstKeeps ==
  ASSUME NetOK, NEW l, NEW m, Reads(l, m), hBURST(l, m) PROVE NetKept
<1> DEFINE name == WordOf(l, m, 1)
           rest == GreedyWords(l, m)
           old == IF channel[name] = None THEN NewChannel(ValueOf[WordOf(l, m, 2)]) ELSE channel[name]
           moded == rest # <<>> /\ rest[1] \in DOMAIN Spell
           s == ApplyToChannel(old, IF moded THEN rest[1] ELSE None, rest)
           nextpos == IF moded THEN 1 + s.argsused ELSE 0
           empty == nextpos >= Len(rest) /\ deepest <= nextpos
           banned == rest # <<>> /\ Last(rest) \in DOMAIN MaskList /\ nextpos < Len(rest)
           c == [ModesApplied(s) EXCEPT !.bans = @ \cup (IF banned THEN MaskList[Last(rest)] ELSE {})]
           made == IF rest = <<>> \/ empty THEN c ELSE JoinAll(c, UserList[rest[nextpos + 1]])
<1>1. name \in Chan /\ ValueOf[WordOf(l, m, 2)] \in Nat /\ rest \in Seq(LineWords)
  <2>1. l.token = "BURST"
    BY DEF hBURST
  <2> QED BY <2>1, BurstIsGiven, ReadsGreedy
<1>2. GoodChannel(old) /\ (channel[name] # None => old.ts = channel[name].ts)
  BY <1>1, NewIsGood DEF NetOK, ChannelsOK
<1>3. GoodChannel(ModesApplied(s)) /\ ModesApplied(s).ts = old.ts
  <2>1. old \in Channel /\ ChannelOK(old) /\ old.mode \subseteq Flags.channel
    BY <1>2 DEF GoodChannel
  <2> HIDE DEF old, moded, rest
  <2> QED BY <1>1, <2>1, ApplyingToChannel DEF GoodChannel
<1>4. (IF banned THEN MaskList[Last(rest)] ELSE {}) \subseteq UNION Range(MaskList)
  BY DEF Range
<1>5. GoodChannel(c) /\ c.ts = old.ts
  <2> DEFINE applied == ModesApplied(s)
             bans == IF banned THEN MaskList[Last(rest)] ELSE {}
  <2> HIDE DEF applied, bans
  <2>1. GoodChannel(applied) /\ bans \subseteq UNION Range(MaskList) /\ applied.ts = old.ts
    BY <1>3, <1>4 DEF applied, bans
  <2>2. c = [applied EXCEPT !.bans = @ \cup bans]
    BY DEF applied, bans
  <2> HIDE DEF c, old
  <2> QED BY <2>1, <2>2 DEF GoodChannel, Channel, ChannelOK
<1>6. GoodChannel(made) /\ made.ts = old.ts
  <2>1. there \subseteq User
    BY DEF NetOK, UsersOK
  <2> HIDE DEF c, old, empty, rest
  <2> QED BY <1>5, <2>1, JoinAllKeeps
<1>7. \/ UNCHANGED <<there, opers, account, channel, protocol>>
      \/ channel' = [channel EXCEPT ![name] = made] /\ UNCHANGED <<there, opers, account, protocol>>
  BY DEF hBURST, Dies
<1> HIDE DEF made, old, name
<1>8. channel[name] # None => made.ts <= channel[name].ts
  BY <1>2, <1>6, GoodIsTimed
<1> QED BY <1>1, <1>6, <1>7, <1>8, SameIsKept, OneIsKept

LEMMA JoinKeeps ==
  ASSUME NetOK, NEW l, NEW m, Reads(l, m), hJOIN(l, m) PROVE NetKept
<1> DEFINE name == WordOf(l, m, 1)
           c == [channel[name] EXCEPT !.users = @ \cup {l.from}]
<1>1. \/ UNCHANGED <<there, opers, account, channel, protocol>>
      \/ /\ name # Chan0 /\ channel' = [channel EXCEPT ![name] = c]
         /\ UNCHANGED <<there, opers, account, protocol>>
  BY DEF hJOIN, Dies, netVars
<1>2. l.from \in User /\ name \in Existing \cup {Chan0}
  BY JoinIsGiven DEF hJOIN, NetOK, UsersOK
<1>3. ASSUME name # Chan0 PROVE name \in Chan /\ GoodChannel(c) /\ c.ts <= channel[name].ts
  <2>1. name \in Chan /\ GoodChannel(channel[name])
    BY <1>2, <1>3 DEF Existing, NetOK, ChannelsOK
  <2> DEFINE old == channel[name]
  <2> HIDE DEF old
  <2>2. GoodChannel(old) /\ c = [old EXCEPT !.users = @ \cup {l.from}]
    BY <2>1 DEF old
  <2> HIDE DEF c
  <2>3. GoodChannel(c) /\ c.ts = old.ts /\ old.ts \in Nat
    BY <1>2, <2>2 DEF GoodChannel, Channel, ChannelOK
  <2> QED BY <2>1, <2>3 DEF old
<1> HIDE DEF c, name
<1> QED BY <1>1, <1>3, SameIsKept, OneIsKept

LEMMA CreateKeeps ==
  ASSUME NetOK, NEW l, NEW m, Reads(l, m), hCREATE(l, m) PROVE NetKept
<1> DEFINE name == WordOf(l, m, 1)
           ts == ValueOf[WordOf(l, m, 2)]
           c == Created(l.from, ts)
<1>1. name \in Chan /\ ts \in Nat /\ l.from \in there /\ l.from \in User
  BY CreateIsGiven DEF hCREATE, NetOK, UsersOK
<1>2. GoodChannel(c) /\ c.ts = ts
  <2> HIDE DEF ts
  <2> QED BY <1>1, NewIsGood
<1>3. \E u \in there : c = Created(u, c.ts)
  BY <1>1, <1>2
<1>4. channel' = [channel EXCEPT ![name] = c] /\ UNCHANGED <<there, opers, account, protocol>>
  BY DEF hCREATE
<1> HIDE DEF name, c, ts
<1> QED BY <1>1, <1>2, <1>3, <1>4, OneIsKept

(* channel_apply_mode with a timestamp that is no later. *)
LEMMA SetChannelKeeps ==
  ASSUME NetOK, NEW name \in Existing, NEW ts \in Nat, ts <= channel[name].ts,
         NEW rest \in Seq(LineWords), NEW stray, SetChannel(name, ts, rest, stray)
  PROVE  NetKept
<1> DEFINE old == channel[name]
           aged == [old EXCEPT !.ts = ts]
           s == ApplyToChannel(aged, FirstCell(rest, stray), rest)
           c == ModesApplied(s)
<1>1. name \in Chan /\ GoodChannel(old)
  BY DEF Existing, NetOK, ChannelsOK
<1>2. GoodChannel(aged) /\ aged.ts = ts
  <2> HIDE DEF old
  <2> QED BY <1>1 DEF GoodChannel, Channel, ChannelOK
<1>3. GoodChannel(c) /\ c.ts = ts
  <2>1. aged \in Channel /\ ChannelOK(aged) /\ aged.mode \subseteq Flags.channel
    BY <1>2 DEF GoodChannel
  <2> HIDE DEF aged
  <2> QED BY <1>2, <2>1, ApplyingToChannel DEF GoodChannel
<1>4. channel' = [channel EXCEPT ![name] = c] /\ UNCHANGED <<there, opers, account, protocol>>
  BY DEF SetChannel
<1> HIDE DEF c
<1> QED BY <1>1, <1>3, <1>4, OneIsKept

LEMMA Mode2Keeps ==
  ASSUME NetOK, NEW l, NEW m, Reads(l, m), NEW stray, hMODE2(l, m, stray) PROVE NetKept
<1> DEFINE name == WordOf(l, m, 1)
           time == WordOf(l, m, 3)
           ts == Older(channel[name].ts, time)
<1>1. name \in Existing /\ SetChannel(name, ts, GreedyWords(l, m), stray)
  BY DEF hMODE2
<1>2. channel[name].ts \in Nat
  BY <1>1, GoodIsTimed DEF Existing, NetOK, ChannelsOK
<1>3. time = None \/ ValueOf[time] \in Nat
  <2>1. l.token = "MODE" /\ m.variant = 2
    BY DEF hMODE2
  <2> QED BY <2>1, ModeIsGivenTime
<1>4. ts \in Nat /\ ts <= channel[name].ts
  <2> HIDE DEF time
  <2> QED BY <1>2, <1>3 DEF Older
<1> HIDE DEF name, ts
<1> QED BY <1>1, <1>4, ReadsGreedy, SetChannelKeeps

LEMMA OpmodeKeeps ==
  ASSUME NetOK, NEW l, NEW m, Reads(l, m), NEW stray, hOPMODE(l, m, stray) PROVE NetKept
<1> DEFINE name == WordOf(l, m, 1)
           ts == channel[name].ts
<1>1. name \in Existing /\ SetChannel(name, ts, GreedyWords(l, m), stray)
  BY DEF hOPMODE
<1>2. ts \in Nat /\ ts <= channel[name].ts
  BY <1>1, GoodIsTimed DEF Existing, NetOK, ChannelsOK
<1> HIDE DEF name, ts
<1> QED BY <1>1, <1>2, ReadsGreedy, SetChannelKeeps

LEMMA ClearedIsGood ==
  ASSUME NEW c, GoodChannel(c), NEW letters
  PROVE  GoodChannel(Cleared(c, letters)) /\ Cleared(c, letters).ts = c.ts
<1> DEFINE less == Cleared(c, letters)
<1>1. c \in Channel /\ c.ops \subseteq c.users /\ c.voices \subseteq c.users /\ c.mode \subseteq Flags.channel
  BY DEF GoodChannel, ChannelOK
<1>2. less \in Channel /\ less.ts = c.ts
  BY <1>1 DEF Channel, Cleared
<1>3. less.ops \subseteq c.ops /\ less.voices \subseteq c.voices /\ less.users = c.users
      /\ less.mode \subseteq c.mode
  BY <1>1 DEF Channel, Cleared
<1> HIDE DEF less
<1>4. GoodChannel(less) /\ less.ts = c.ts
  BY <1>1, <1>2, <1>3 DEF GoodChannel, ChannelOK, Channel
<1> QED BY <1>4 DEF less

LEMMA ClearmodeKeeps ==
  ASSUME NetOK, NEW l, NEW m, hCLEARMODE(l, m) PROVE NetKept
<1> DEFINE name == WordOf(l, m, 1)
           letters == Range(Spell[WordOf(l, m, 2)])
           c == Cleared(channel[name], letters)
<1>1. name \in Chan /\ GoodChannel(channel[name])
  BY DEF hCLEARMODE, Existing, NetOK, ChannelsOK
<1>2. channel' = [channel EXCEPT ![name] = c] /\ UNCHANGED <<there, opers, account, protocol>>
  BY DEF hCLEARMODE
<1>3. GoodChannel(c) /\ c.ts = channel[name].ts /\ c.ts \in Nat
  BY <1>1, ClearedIsGood, GoodIsTimed
<1> HIDE DEF c, name
<1>4. c.ts <= channel[name].ts
  BY <1>3
<1> QED BY <1>1, <1>2, <1>3, <1>4, OneIsKept

(* A user that is introduced may leave the lists, and no channel ages.     *)
LEMMA IntroducedKeeps ==
  ASSUME NEW chans, ChannelsOK(chans), NEW u, NEW then \in Introduced(chans, u)
  PROVE  ChannelsOK(then) /\ \A c \in Chan : chans[c] # None => then[c] # None /\ then[c].ts = chans[c].ts
<1> DEFINE left(c) == [c EXCEPT !.users = @ \ {u}, !.ops = @ \ {u}, !.voices = @ \ {u}]
<1>1. ASSUME NEW c, GoodChannel(c) PROVE GoodChannel(left(c)) /\ left(c).ts = c.ts
  BY <1>1 DEF GoodChannel, Channel, ChannelOK
<1>2. CASE then = chans
  BY <1>2
<1>3. CASE then = [c \in Chan |-> IF chans[c] = None THEN None ELSE left(chans[c])]
  <2> HIDE DEF left
  <2>1. \A c \in Chan : then[c] = IF chans[c] = None THEN None ELSE left(chans[c])
    BY <1>3
  <2>2. \A c \in Chan : chans[c] # None => GoodChannel(chans[c]) /\ GoodChannel(left(chans[c]))
                                           /\ left(chans[c]).ts = chans[c].ts
    BY <1>1 DEF ChannelsOK
  <2>3. \A c : GoodChannel(c) => c \in Channel /\ c # None
    BY NoneIsNoChannel DEF GoodChannel
  <2>4. then \in [Chan -> Channel \cup {None}]
    BY <1>3, <2>1, <2>2, <2>3
  <2> QED BY <2>1, <2>2, <2>3, <2>4 DEF ChannelsOK
<1> QED BY <1>2, <1>3 DEF Introduced

LEMMA UserIsGiven ==
  ASSUME NetOK, NEW u \in User, NEW word, NEW rest \in Seq(LineWords), SetUser(u, word, rest)
  PROVE  UsersOK(there', opers', account') /\ protocol' = protocol
<1> DEFINE start == [Start EXCEPT !.oper = (u \in opers), !.account = account[u]]
           s == ModeApply(start, "user", word, rest)
<1>1. Lettered(<<"user", rest, None>>, 0, start)
  <2>1. None \in Accounts /\ account[u] \in Accounts
    BY DEF Accounts, NetOK, UsersOK
  <2>2. Start \in ModeState
    BY <2>1 DEF Start, ModeState
  <2> DEFINE oper == u \in opers
  <2>3. oper \in BOOLEAN
    OBVIOUS
  <2> HIDE DEF oper
  <2>4. [Start EXCEPT !.oper = oper, !.account = account[u]] \in ModeState
    BY <2>1, <2>2, <2>3 DEF ModeState
  <2>5. start \in ModeState
    BY <2>4 DEF oper
  <2> HIDE DEF start
  <2> QED BY <2>5 DEF Lettered
<1> HIDE DEF start
<1>2. s \in ModeState
  BY <1>1, ModesApply
<1>3. s.account \in Accounts
  BY <1>2 DEF ModeState
<1>4. /\ opers' = IF s.oper THEN opers \cup {u} ELSE opers \ {u}
      /\ account' = [account EXCEPT ![u] = s.account]
      /\ there' = there \cup {u} /\ protocol' = protocol
  BY DEF SetUser, start
<1> HIDE DEF s
<1> QED BY <1>3, <1>4 DEF NetOK, UsersOK

LEMMA Mode1Keeps ==
  ASSUME NetOK, NEW l, NEW m, Reads(l, m), NEW stray, hMODE1(l, m, stray) PROVE NetKept
<1> DEFINE u == NickOf[WordOf(l, m, 1)]
<1>1. u \in User
  BY ModeIsGivenNick DEF hMODE1, NetOK, UsersOK
<1>2. SetUser(u, FirstCell(GreedyWords(l, m), stray), GreedyWords(l, m)) /\ UNCHANGED channel
  BY DEF hMODE1
<1> HIDE DEF u
<1>3. UsersOK(there', opers', account') /\ protocol' = protocol
  BY <1>1, <1>2, ReadsGreedy, UserIsGiven
<1> QED BY <1>2, <1>3, NothingRises DEF NetOK, NetKept

LEMMA Nick2Keeps ==
  ASSUME NetOK, NEW l, NEW m, Reads(l, m), NEW stray, hNICK2(l, m, stray) PROVE NetKept
<1> DEFINE rest == GreedyWords(l, m)
           u == WordOf(l, m, 8)
<1>1. u \in User /\ rest \in Seq(LineWords)
  BY NickIsGiven, ReadsGreedy DEF hNICK2
<1>2. \/ UNCHANGED <<there, opers, account, channel, protocol>>
      \/ SetUser(u, FirstCell(rest, stray), rest) /\ channel' \in Introduced(channel, u)
  BY DEF hNICK2, Dies
<1> HIDE DEF u, rest
<1>3. ASSUME SetUser(u, FirstCell(rest, stray), rest), channel' \in Introduced(channel, u) PROVE NetKept
  <2>1. UsersOK(there', opers', account') /\ protocol' = protocol
    BY <1>1, <1>3, UserIsGiven
  <2>2. ChannelsOK(channel)
    BY DEF NetOK
  <2>3. ChannelsOK(channel')
        /\ \A c \in Chan : channel[c] # None => channel'[c] # None /\ channel'[c].ts = channel[c].ts
    BY <1>3, <2>2, IntroducedKeeps
  <2>4. \A c \in Chan : channel[c] # None => channel[c].ts \in Nat
    BY <2>2, GoodIsTimed DEF ChannelsOK
  <2>5. NoneRises(there, channel, channel')
    BY <2>3, <2>4 DEF NoneRises
  <2> QED BY <2>1, <2>3, <2>5 DEF NetOK, NetKept
<1> QED BY <1>2, <1>3, SameIsKept

LEMMA AccountKeeps ==
  ASSUME NetOK, NEW l, NEW m, Reads(l, m), hACCOUNT(l, m) PROVE NetKept
<1> DEFINE u == WordOf(l, m, 1)
           name == WordOf(l, m, 2)
<1>1. name \in Accounts
  BY AccountIsGiven DEF hACCOUNT, Accounts
<1>2. account' = [account EXCEPT ![u] = name] /\ UNCHANGED <<there, opers, channel, protocol>>
  BY DEF hACCOUNT
<1> HIDE DEF u, name
<1>3. UsersOK(there', opers', account')
  BY <1>1, <1>2 DEF NetOK, UsersOK
<1> QED BY <1>2, <1>3, NothingRises DEF NetOK, NetKept

(* The handlers of lines that carry modes or join channels.                *)
LEMMA ModesKeep ==
  ASSUME NetOK, deepest \in 0..3, NEW l, NEW m, Reads(l, m), HandleModes(l, m)
  PROVE  NetKept /\ deepest' \in 0..3
<1>1. deepest' \in 0..3
  <2>1. deepest' = Deeper(Cardinality(m.rest)) /\ Cardinality(m.rest) \in Nat
    BY ReadsGreedy DEF HandleModes
  <2> DEFINE n == Cardinality(m.rest)
  <2> HIDE DEF n
  <2>2. deepest' = Deeper(n) /\ n \in Nat
    BY <2>1 DEF n
  <2> QED BY <2>2 DEF Deeper
<1>2. hDESTRUCT(l) \/ Ignored(l) => NetKept
  BY SameIsKept DEF hDESTRUCT, Ignored, netVars
<1> QED BY <1>1, <1>2, BurstKeeps, JoinKeeps, CreateKeeps, ClearmodeKeeps, AccountKeeps, Mode2Keeps,
           OpmodeKeeps, Mode1Keeps, Nick2Keeps DEF HandleModes

-----------------------------------------------------------------------------
(* The link: the servers, the clients of the program, the hooks.           *)
LinkTyped ==
  /\ me \in Server \cup {None} /\ uplink \in {None, Uplink}
  /\ bot \in Own \cup {None} /\ lastnumeric \in 0..Len(OwnNumeric)

(* No module is loaded and no function of one is hooked.                   *)
Quiet == modules = <<>> /\ hooks = OwnHooks

(* A numeric that server_freenum gives is one of ours and nobody's.        *)
LEMMA NumericIsFree ==
  ASSUME NEW us, NEW after \in 0..Len(OwnNumeric), server_freenum(us, after) # 0
  PROVE  LET i == server_freenum(us, after)
         IN i \in 1..Len(OwnNumeric) /\ OwnNumeric[i] \in Own \ us /\ OwnNumeric[i] \in User
<1> DEFINE n == Len(OwnNumeric)
           index(k) == ((after + k - 1) % n) + 1
           free == {k \in 1..n : OwnNumeric[index(k)] \notin us}
           k0 == CHOOSE k \in free : \A j \in free : k <= j
<1>1. n \in Nat /\ OwnNumeric \in Seq(User) /\ DOMAIN OwnNumeric = 1..n
  BY OwnAreUsers
<1>2. free # {} /\ server_freenum(us, after) = index(k0)
  BY DEF server_freenum
<1>3. k0 \in free
  <2>1. free \in SUBSET Nat
    OBVIOUS
  <2> HIDE DEF free
  <2> QED BY <1>2, <2>1, Smallest
<1>4. k0 \in 1..n /\ OwnNumeric[index(k0)] \notin us
  BY <1>3
<1> HIDE DEF n, k0
<1>5. index(k0) \in 1..n
  BY <1>1, <1>4 DEF n
<1> HIDE DEF index
<1>6. OwnNumeric[index(k0)] \in Own /\ OwnNumeric[index(k0)] \in User
  BY <1>1, <1>5 DEF Own, Range
<1> QED BY <1>2, <1>4, <1>5, <1>6 DEF n

Aged(chans, then) == \A c \in Chan : chans[c] # None => then[c] # None /\ then[c].ts = chans[c].ts

LEMMA AgedAsBefore ==
  ASSUME NEW chans, ChannelsOK(chans), NEW then, Aged(chans, then), NEW us
  PROVE  NoneRises(us, chans, then)
  BY GoodIsTimed DEF ChannelsOK, Aged, NoneRises

LEMMA JoinOwnKeeps ==
  ASSUME NEW chans, ChannelsOK(chans), NEW c \in Chan, NEW u \in User
  PROVE  ChannelsOK(JoinOwn(chans, c, u)) /\ Aged(chans, JoinOwn(chans, c, u))
<1> DEFINE old == chans[c]
           joined == [old EXCEPT !.users = @ \cup {u}, !.ops = @ \cup {u}]
           new == IF old = None THEN Created(u, 1) ELSE joined
           then == JoinOwn(chans, c, u)
<1>1. then = [chans EXCEPT ![c] = new]
  BY DEF JoinOwn, ChannelsOK
<1>2. old # None => GoodChannel(old)
  BY DEF ChannelsOK
<1>3. GoodChannel(old) => GoodChannel(joined) /\ joined.ts = old.ts
  <2> HIDE DEF old
  <2> QED BY DEF GoodChannel, Channel, ChannelOK
<1>4. GoodChannel(Created(u, 1))
  BY NewIsGood
<1> HIDE DEF joined
<1>5. GoodChannel(new) /\ (old # None => new.ts = old.ts)
  BY <1>2, <1>3, <1>4
<1> HIDE DEF new
<1>6. new \in Channel /\ new # None
  BY <1>5, NoneIsNoChannel DEF GoodChannel
<1> HIDE DEF then
<1>7. then \in [Chan -> Channel \cup {None}] /\ \A d \in Chan : then[d] = IF d = c THEN new ELSE chans[d]
  BY <1>1, <1>6 DEF ChannelsOK
<1>8. ChannelsOK(then) /\ Aged(chans, then)
  BY <1>5, <1>6, <1>7 DEF ChannelsOK, Aged
<1> QED BY <1>8 DEF then

LEMMA StartupKeeps ==
  ASSUME NetOK, deepest \in 0..3, LinkTyped, NEW file, Startup(file)
  PROVE  NetKept /\ deepest' \in 0..3 /\ LinkTyped' /\ UNCHANGED <<hooks, modules>>
<1> DEFINE number == strtol(config_get(load_config(file), "core.server", "numeric"))
           numeric == snum2str(number)
<1>1. me = None /\ deepest' = deepest
  BY DEF Startup
<1>2. \/ UNCHANGED <<there, opers, account, channel, protocol>> /\ UNCHANGED linkVars
      \/ add_server(numeric, "J10") /\ UNCHANGED <<opername, hooks, modules, lastnumeric, bot>>
  BY DEF Startup, Dies
<1>3. numeric \in Server
  <2>1. number \in Nat
    BY NumbersAreNumbers
  <2> HIDE DEF number
  <2>2. number % 4096 \in Digits
    BY <2>1 DEF Digits
  <2> QED BY <2>2, NumericsAreServers DEF snum2str
<1> HIDE DEF numeric, number
<1>4. CASE UNCHANGED <<there, opers, account, channel, protocol>> /\ UNCHANGED linkVars
  BY <1>1, <1>4, SameIsKept DEF linkVars, LinkTyped
<1>5. CASE add_server(numeric, "J10") /\ UNCHANGED <<opername, hooks, modules, lastnumeric, bot>>
  <2>1. protocol' \in [Server -> {"J10", "P10", None}]
    BY <1>3, <1>5 DEF add_server, NetOK
  <2>2. me' = numeric /\ uplink' = uplink
    BY <1>1, <1>5 DEF add_server
  <2> QED BY <1>1, <1>3, <1>5, <2>1, <2>2, NothingRises DEF add_server, NetOK, NetKept, LinkTyped
<1> QED BY <1>2, <1>4, <1>5

(* The uplink registers itself, with the first line that has no sender.    *)
LEMMA ServerKeeps ==
  ASSUME NetOK, deepest \in 0..3, LinkTyped, me # None, NEW l, NEW m, Reads(l, m),
         (l.from = None) = ~registered, hSERVER(l, m)
  PROVE  NetKept /\ deepest' \in 0..3 /\ LinkTyped' /\ UNCHANGED <<hooks, modules>>
<1> DEFINE numeric == WordOf(l, m, 6)
           prot == WordOf(l, m, 5)
<1>1. numeric \in Server /\ prot \in {"J10", "P10"} /\ (l.from = None => numeric = Uplink)
  BY ServerIsGiven DEF hSERVER
<1>2. /\ deepest' = deepest
      /\ \/ UNCHANGED <<there, opers, account, channel, protocol>> /\ UNCHANGED linkVars
         \/ add_server(numeric, prot) /\ UNCHANGED <<hooks, modules, lastnumeric, bot>>
  BY DEF hSERVER, Dies
<1> HIDE DEF numeric, prot
<1>3. CASE UNCHANGED <<there, opers, account, channel, protocol>> /\ UNCHANGED linkVars
  BY <1>2, <1>3, SameIsKept DEF linkVars, LinkTyped
<1>4. CASE add_server(numeric, prot) /\ UNCHANGED <<hooks, modules, lastnumeric, bot>>
  <2>1. protocol' \in [Server -> {"J10", "P10", None}]
    BY <1>1, <1>4 DEF add_server, NetOK
  <2>2. me' = me /\ uplink' = IF registered THEN uplink ELSE numeric
    BY <1>4 DEF add_server
  <2>3. uplink' \in {None, Uplink}
    BY <1>1, <2>2 DEF LinkTyped, registered
  <2> QED BY <1>2, <1>4, <2>1, <2>2, <2>3, NothingRises DEF add_server, NetOK, NetKept, LinkTyped
<1> QED BY <1>2, <1>3, <1>4

LEMMA EndKeeps ==
  ASSUME NetOK, deepest \in 0..3, LinkTyped, NEW l, hEND_OF_BURST(l)
  PROVE  NetKept /\ deepest' \in 0..3 /\ LinkTyped' /\ UNCHANGED <<hooks, modules>>
<1>1. UNCHANGED linkVars /\ UNCHANGED deepest /\ UNCHANGED <<there, opers, account, channel>>
      /\ protocol' \in {protocol, [protocol EXCEPT ![uplink] = "P10", ![me] = "P10"],
                        [protocol EXCEPT ![l.from] = "P10"]}
  BY DEF hEND_OF_BURST, Dies
<1>2. protocol' \in [Server -> {"J10", "P10", None}]
  BY <1>1 DEF NetOK
<1>3. NetKept
  BY <1>1, <1>2, NothingRises DEF NetOK, NetKept
<1> QED BY <1>1, <1>3 DEF linkVars, LinkTyped

LEMMA LoadKeeps ==
  ASSUME NetOK, deepest \in 0..3, LinkTyped, module_loadAll
  PROVE  NetKept /\ deepest' \in 0..3 /\ LinkTyped'
<1> DEFINE i == server_freenum(there, lastnumeric)
           n == OwnNumeric[i]
<1>1. \/ UNCHANGED <<there, opers, account, channel, protocol>> /\ UNCHANGED linkVars /\ UNCHANGED deepest
      \/ /\ i # 0 /\ module_create_client(i) /\ deepest' = 3 /\ UNCHANGED <<protocol, me, uplink>>
         /\ \E chans \in Introduced(channel, n) : channel' = JoinOwn(chans, DebugChan, n)
  BY DEF module_loadAll, load, Dies, netVars
<1>2. CASE UNCHANGED <<there, opers, account, channel, protocol>> /\ UNCHANGED linkVars
           /\ UNCHANGED deepest
  BY <1>2, SameIsKept DEF linkVars, LinkTyped
<1>3. CASE /\ i # 0 /\ module_create_client(i) /\ deepest' = 3 /\ UNCHANGED <<protocol, me, uplink>>
           /\ \E chans \in Introduced(channel, n) : channel' = JoinOwn(chans, DebugChan, n)
  <2>1. i \in 1..Len(OwnNumeric) /\ n \in Own /\ n \in User
    BY <1>3, NumericIsFree DEF LinkTyped
  <2>2. there' = there \cup {n} /\ opers' = opers \cup {n} /\ account' = [account EXCEPT ![n] = BotAccount]
        /\ lastnumeric' = i /\ bot' = n
    BY <1>3 DEF module_create_client
  <2> HIDE DEF i, n
  <2>3. PICK chans \in Introduced(channel, n) : channel' = JoinOwn(chans, DebugChan, n)
    BY <1>3
  <2>4. ChannelsOK(channel)
    BY DEF NetOK
  <2>5. ChannelsOK(chans) /\ Aged(channel, chans)
    BY <2>4, IntroducedKeeps DEF Aged
  <2>6. ChannelsOK(channel') /\ Aged(chans, channel')
    BY <2>1, <2>3, <2>5, JoinOwnKeeps, OwnAreUsers
  <2>7. Aged(channel, channel')
    BY <2>5, <2>6 DEF Aged
  <2>8. NoneRises(there, channel, channel')
    BY <2>4, <2>7, AgedAsBefore
  <2>9. UsersOK(there', opers', account')
    BY <2>1, <2>2 DEF NetOK, UsersOK, Accounts
  <2> QED BY <1>3, <2>1, <2>2, <2>6, <2>8, <2>9 DEF NetOK, NetKept, LinkTyped
<1> QED BY <1>1, <1>2, <1>3

(* The handlers of the link; only the uplink's acknowledgement loads.      *)
LEMMA LinkKeeps ==
  ASSUME NetOK, deepest \in 0..3, LinkTyped, me # None, NEW l, NEW m, Reads(l, m),
         (l.from = None) = ~registered, HandleLink(l, m)
  PROVE  /\ NetKept /\ deepest' \in 0..3 /\ LinkTyped'
         /\ UNCHANGED <<hooks, modules>> \/ (l.token = "EOB_ACK" /\ l.from = Uplink)
<1>1. CASE hSERVER(l, m)
  BY <1>1, ServerKeeps
<1>2. CASE hEND_OF_BURST(l)
  BY <1>2, EndKeeps
<1>3. CASE hPING(l) \/ hERROR(l)
  <2>1. UNCHANGED <<there, opers, account, channel, protocol>> /\ UNCHANGED linkVars
        /\ deepest' \in {3, deepest}
    BY <1>3 DEF hPING, hERROR, Dies, netVars
  <2> QED BY <2>1, SameIsKept DEF linkVars, LinkTyped
<1>4. CASE hEOB_ACK(l)
  <2>1. CASE UNCHANGED netVars /\ UNCHANGED linkVars /\ UNCHANGED deepest
    BY <2>1, SameIsKept DEF netVars, linkVars, LinkTyped
  <2>2. CASE l.from = uplink /\ module_loadAll
    <3>1. l.token = "EOB_ACK" /\ l.from \in Server
      BY <1>4 DEF hEOB_ACK, Linked
    <3>2. l.from = Uplink
      BY <2>2, <3>1, NoneIsNoWord DEF LinkTyped
    <3> QED BY <2>2, <3>1, <3>2, LoadKeeps
  <2> QED BY <1>4, <2>1, <2>2 DEF hEOB_ACK
<1> QED BY <1>1, <1>2, <1>3, <1>4 DEF HandleLink

-----------------------------------------------------------------------------
(* The bridge: whatever the scripts do, an interpreter that is called or    *)
(* that a script can be unloaded from is open, no two scripts share one,    *)
(* and the entry of a client is the script that has introduced it.          *)
Dooms == {"spin", "closed", "nouser", "base", "nobody"}

Bridged ==
  [there : SUBSET User, opers : SUBSET User, account : [User -> Accounts],
   channel : [Chan -> Channel \cup {None}], lastnumeric : 0..Len(OwnNumeric), bot : Own \cup {None},
   open : SUBSET Interp, states : SUBSET Interp, byScript : [Script -> Interp \cup {None}],
   clients : [Own -> Interp \cup {None}], owner : [Own -> Interp \cup {None}], died : Dooms \cup {None}]

ScriptsOK(opened, called, loaded, entries, owners) ==
  /\ called \subseteq opened
  /\ \A f \in Script : loaded[f] # None => loaded[f] \in called
  /\ \A f, g \in Script : loaded[f] # None /\ loaded[f] = loaded[g] => f = g
  /\ \A n \in Own : owners[n] # None => entries[n] = owners[n]

Sound(s) ==
  /\ s \in Bridged
  /\ UsersOK(s.there, s.opers, s.account) /\ ChannelsOK(s.channel) /\ Aged(channel, s.channel)
  /\ ScriptsOK(s.open, s.states, s.byScript, s.clients, s.owner)

(* What only loading and unloading change.                                 *)
SameScripts(s, t) == t.open = s.open /\ t.states = s.states /\ t.byScript = s.byScript

LEMMA DyingKeeps ==
  ASSUME NEW s, Sound(s), NEW why \in Dooms
  PROVE  \A t \in Died(s, why) : Sound(t) /\ SameScripts(s, t)
<1> DEFINE t == [s EXCEPT !.died = why]
<1>1. t \in Bridged
  BY DEF Sound, Bridged
<1>2. /\ t.there = s.there /\ t.opers = s.opers /\ t.account = s.account /\ t.channel = s.channel
      /\ t.open = s.open /\ t.states = s.states /\ t.byScript = s.byScript
      /\ t.clients = s.clients /\ t.owner = s.owner
  BY DEF Sound, Bridged
<1>3. Died(s, why) = {t}
  BY DEF Died
<1> HIDE DEF t
<1> QED BY <1>1, <1>2, <1>3 DEF Sound, SameScripts

LEMMA RemovedKeeps ==
  ASSUME NEW s, Sound(s), NEW u
  PROVE  Sound(Removed(s, u)) /\ SameScripts(s, Removed(s, u))
<1> DEFINE t == Removed(s, u)
<1>0. s \in Bridged /\ None \in Accounts
  BY DEF Sound, Accounts
<1>1. t \in Bridged
  BY <1>0 DEF Removed, Bridged
<1>2. /\ t.there = s.there \ {u} /\ t.opers = s.opers \ {u} /\ t.channel = s.channel
      /\ t.open = s.open /\ t.states = s.states /\ t.byScript = s.byScript
      /\ t.clients = s.clients /\ t.owner = s.owner
  BY <1>0 DEF Removed, Bridged
<1>3. t.account \in [User -> Accounts] /\ t.there \subseteq User
  BY <1>1 DEF Bridged
<1> HIDE DEF t
<1>4. UsersOK(t.there, t.opers, t.account)
  BY <1>2, <1>3 DEF Sound, UsersOK
<1>5. Sound(t) /\ SameScripts(s, t)
  BY <1>1, <1>2, <1>4 DEF Sound, SameScripts
<1> QED BY <1>5 DEF t

LEMMA NewuserKeeps ==
  ASSUME NEW s, Sound(s), NEW L \in Interp
  PROVE  \A t \in luabase_newuser(s, L) : Sound(t) /\ SameScripts(s, t)
<1> DEFINE i == server_freenum(s.there, s.lastnumeric)
           n == OwnNumeric[i]
           made(chans) == [s EXCEPT !.there = @ \cup {n}, !.lastnumeric = i, !.channel = chans,
                                    !.owner[n] = L, !.clients[n] = L]
<1>0. s \in Bridged /\ s.lastnumeric \in 0..Len(OwnNumeric) /\ ChannelsOK(s.channel)
  BY DEF Sound, Bridged
<1>1. CASE i = 0
  <2>1. luabase_newuser(s, L) = Died(s, "spin") /\ "spin" \in Dooms
    BY <1>1 DEF luabase_newuser, Dooms
  <2> QED BY <2>1, DyingKeeps
<1>2. CASE i # 0
  <2>1. i \in 1..Len(OwnNumeric) /\ n \in Own /\ n \in User
    BY <1>0, <1>2, NumericIsFree
  <2> SUFFICES ASSUME NEW chans \in Introduced(s.channel, n)
               PROVE  Sound(made(chans)) /\ SameScripts(s, made(chans))
    BY <1>2 DEF luabase_newuser
  <2> DEFINE t == made(chans)
  <2>2. ChannelsOK(chans) /\ Aged(s.channel, chans)
    BY <1>0, IntroducedKeeps DEF Aged
  <2> HIDE DEF i, n
  <2>3. t \in Bridged
    <3> DEFINE owners == [s.owner EXCEPT ![n] = L]
               entries == [s.clients EXCEPT ![n] = L]
    <3>1. owners \in [Own -> Interp \cup {None}] /\ entries \in [Own -> Interp \cup {None}]
      BY <1>0 DEF Bridged
    <3>2. t = [s EXCEPT !.there = @ \cup {n}, !.lastnumeric = i, !.channel = chans,
                        !.owner = owners, !.clients = entries]
      BY <1>0 DEF Bridged
    <3>3. chans \in [Chan -> Channel \cup {None}]
      BY <2>2 DEF ChannelsOK
    <3>4. i \in 0..Len(OwnNumeric)
      BY <2>1
    <3> DEFINE users == s.there \cup {n}
    <3>5. users \in SUBSET User
      BY <1>0, <2>1 DEF Bridged
    <3> HIDE DEF owners, entries, users
    <3>6. [s EXCEPT !.there = users, !.lastnumeric = i, !.channel = chans,
                    !.owner = owners, !.clients = entries] \in Bridged
      BY <1>0, <3>1, <3>3, <3>4, <3>5 DEF Bridged
    <3> QED BY <3>2, <3>6 DEF users
  <2>4. /\ t.there = s.there \cup {n} /\ t.opers = s.opers /\ t.account = s.account
        /\ t.channel = chans /\ t.open = s.open /\ t.states = s.states /\ t.byScript = s.byScript
        /\ t.owner = [s.owner EXCEPT ![n] = L] /\ t.clients = [s.clients EXCEPT ![n] = L]
    BY <1>0 DEF Bridged
  <2>5. s.owner \in [Own -> Interp \cup {None}] /\ s.clients \in [Own -> Interp \cup {None}]
    BY <1>0 DEF Bridged
  <2> HIDE DEF t
  <2>6. ScriptsOK(t.open, t.states, t.byScript, t.clients, t.owner)
    BY <2>1, <2>4, <2>5 DEF Sound, ScriptsOK
  <2>7. UsersOK(t.there, t.opers, t.account) /\ Aged(channel, t.channel)
    BY <2>1, <2>2, <2>4 DEF Sound, UsersOK, Aged
  <2>8. Sound(t) /\ SameScripts(s, t)
    BY <2>2, <2>3, <2>4, <2>6, <2>7 DEF Sound, SameScripts
  <2> QED BY <2>8 DEF t
<1> QED BY <1>1, <1>2

LEMMA QuituserKeeps ==
  ASSUME NEW s, Sound(s), NEW clientsOf
  PROVE  \A t \in localquituser(s, clientsOf) : Sound(t) /\ SameScripts(s, t)
<1> SUFFICES ASSUME NEW n PROVE LET t == [Removed(s, n) EXCEPT !.owner[n] = None]
                                IN Sound(t) /\ SameScripts(s, t)
  BY DEF localquituser
<1> DEFINE r == Removed(s, n)
           t == [r EXCEPT !.owner[n] = None]
<1>1. Sound(r) /\ SameScripts(s, r)
  BY RemovedKeeps
<1> HIDE DEF r
<1>2. r \in Bridged /\ r.owner \in [Own -> Interp \cup {None}]
  BY <1>1 DEF Sound, Bridged
<1>3. t \in Bridged
  BY <1>2 DEF Bridged
<1>4. /\ t.there = r.there /\ t.opers = r.opers /\ t.account = r.account /\ t.channel = r.channel
      /\ t.open = r.open /\ t.states = r.states /\ t.byScript = r.byScript
      /\ t.clients = r.clients /\ t.owner = [r.owner EXCEPT ![n] = None]
  BY <1>2 DEF Bridged
<1> HIDE DEF t
<1>5. ScriptsOK(t.open, t.states, t.byScript, t.clients, t.owner)
  BY <1>1, <1>2, <1>4 DEF Sound, ScriptsOK
<1>6. Sound(t) /\ SameScripts(s, t)
  BY <1>1, <1>3, <1>4, <1>5 DEF Sound, SameScripts
<1> QED BY <1>6 DEF t, r

LEMMA LocaljoinKeeps ==
  ASSUME NEW s, Sound(s), NEW clientsOf \in SUBSET Own
  PROVE  \A t \in localjoin(s, clientsOf) : Sound(t) /\ SameScripts(s, t)
<1> SUFFICES ASSUME NEW c \in Chan, NEW n \in User
             PROVE  LET t == [s EXCEPT !.channel = JoinOwn(@, c, n)] IN Sound(t) /\ SameScripts(s, t)
  <2> SUFFICES ASSUME NEW t \in localjoin(s, clientsOf) PROVE Sound(t) /\ SameScripts(s, t)
    OBVIOUS
  <2>1. PICK c \in Chan, n \in clientsOf \cap s.there : t = [s EXCEPT !.channel = JoinOwn(@, c, n)]
    BY DEF localjoin
  <2>2. n \in User
    BY DEF Sound, UsersOK
  <2> QED BY <2>1, <2>2
<1> DEFINE chans == JoinOwn(s.channel, c, n)
           t == [s EXCEPT !.channel = chans]
<1>1. s \in Bridged /\ ChannelsOK(s.channel)
  BY DEF Sound
<1>2. ChannelsOK(chans) /\ Aged(s.channel, chans)
  BY <1>1, JoinOwnKeeps
<1> HIDE DEF chans
<1>3. t \in Bridged
  BY <1>1, <1>2 DEF Bridged, ChannelsOK
<1>4. /\ t.there = s.there /\ t.opers = s.opers /\ t.account = s.account /\ t.channel = chans
      /\ t.open = s.open /\ t.states = s.states /\ t.byScript = s.byScript
      /\ t.clients = s.clients /\ t.owner = s.owner
  BY <1>1 DEF Bridged
<1> HIDE DEF t
<1>5. Aged(channel, t.channel)
  BY <1>2, <1>4 DEF Sound, Aged
<1>6. Sound(t) /\ SameScripts(s, t)
  BY <1>2, <1>3, <1>4, <1>5 DEF Sound, SameScripts
<1> QED BY <1>6 DEF t, chans

(* A call of a script, of whatever is taken for its interpreter.           *)
LEMMA CallKeeps ==
  ASSUME NEW s, Sound(s), NEW L
  PROVE  \A t \in Call(s, L) : Sound(t) /\ SameScripts(s, t)
<1> DEFINE clientsOf == {n \in Own : s.owner[n] = L}
<1>1. CASE L \notin s.open
  <2>1. Call(s, L) = Died(s, "closed") /\ "closed" \in Dooms
    BY <1>1 DEF Call, Dooms
  <2> QED BY <2>1, DyingKeeps
<1>2. CASE L \in s.open
  <2>1. L \in Interp
    BY <1>2 DEF Sound, Bridged
  <2>2. Call(s, L) = {s} \cup luabase_newuser(s, L) \cup UsesKilled(s, clientsOf)
                         \cup localquituser(s, clientsOf) \cup localjoin(s, clientsOf)
    BY <1>2 DEF Call
  <2>3. clientsOf \in SUBSET Own
    OBVIOUS
  <2> HIDE DEF clientsOf
  <2>4. \A t \in UsesKilled(s, clientsOf) : Sound(t) /\ SameScripts(s, t)
    <3>1. UsesKilled(s, clientsOf) \in {{}, Died(s, "nouser")} /\ "nouser" \in Dooms
      BY DEF UsesKilled, Dooms
    <3> QED BY <3>1, DyingKeeps
  <2>5. Sound(s) /\ SameScripts(s, s)
    BY DEF SameScripts
  <2> QED BY <2>1, <2>2, <2>3, <2>4, <2>5, NewuserKeeps, QuituserKeeps, LocaljoinKeeps
<1> QED BY <1>1, <1>2

-----------------------------------------------------------------------------
(* Calls of all interpreters, and of those of the clients on a channel.     *)
AllSound(S) == \A t \in S : Sound(t)

CallStep(env, S, L) == CallEach(S, L)
CalledSoFar(env, k, S) == AllSound(S)
Calling == INSTANCE FoldFacts WITH Step <- CallStep, Good <- CalledSoFar

HearStep(env, S, n) == CallPresent(S, env, n)
Hearing == INSTANCE FoldFacts WITH Step <- HearStep, Good <- CalledSoFar

LEMMA CallStatesKeeps ==
  ASSUME NEW s, Sound(s) PROVE AllSound(CallStates(s))
<1> DEFINE seq == InOrder(s.states)
           n == Cardinality(s.states)
<1>1. n \in Nat
  <2>1. s.states \subseteq Interp
    BY DEF Sound, Bridged
  <2> QED BY <2>1, InterpretersAreNumbers, FS_Subset, FS_CardinalityType
<1>2. DOMAIN seq = 1..n
  BY DEF InOrder
<1>3. CallStates(s) = Calling!Folded(None, {s}, seq)
  BY DEF CallStates, FoldLeft, MapThenFoldSet, Max, CallStep, Calling!Folded, Calling!IsFold,
         Calling!Largest
<1> HIDE DEF n, seq
<1>4. CalledSoFar(None, 0, {s})
  BY DEF CalledSoFar, AllSound
<1>5. ASSUME NEW k \in 1..n, NEW S, CalledSoFar(None, k - 1, S)
      PROVE  CalledSoFar(None, k, CallStep(None, S, seq[k]))
  BY <1>5, CallKeeps DEF CalledSoFar, AllSound, CallStep, CallEach, Then
<1>6. CalledSoFar(None, n, Calling!Folded(None, {s}, seq))
  BY <1>1, <1>2, <1>4, <1>5, Calling!FoldKeeps
<1> QED BY <1>3, <1>6 DEF CalledSoFar

LEMMA ToChannelKeeps ==
  ASSUME NEW s, Sound(s), NEW c PROVE AllSound(ToChannel(s, c))
<1> DEFINE n == Len(OwnNumeric)
<1>1. n \in Nat /\ DOMAIN OwnNumeric = 1..n
  BY OwnAreUsers
<1>2. ToChannel(s, c) = Hearing!Folded(c, {s}, OwnNumeric)
  BY DEF ToChannel, FoldLeft, MapThenFoldSet, Max, HearStep, Hearing!Folded, Hearing!IsFold,
         Hearing!Largest
<1> HIDE DEF n
<1>3. CalledSoFar(c, 0, {s})
  BY DEF CalledSoFar, AllSound
<1>4. ASSUME NEW k \in 1..n, NEW S, CalledSoFar(c, k - 1, S)
      PROVE  CalledSoFar(c, k, HearStep(c, S, OwnNumeric[k]))
  BY <1>4, CallKeeps DEF CalledSoFar, AllSound, HearStep, CallPresent, Then
<1>5. CalledSoFar(c, n, Hearing!Folded(c, {s}, OwnNumeric))
  BY <1>1, <1>3, <1>4, Hearing!FoldKeeps
<1> QED BY <1>2, <1>5 DEF CalledSoFar

(* A script that is loaded gets an interpreter of its own.                 *)
LEMMA LoadscriptKeeps ==
  ASSUME NEW s, Sound(s), NEW file \in Script PROVE AllSound(luabase_loadscript(s, file))
<1> SUFFICES ASSUME NEW L \in Interp \ s.open
             PROVE  LET t == [s EXCEPT !.open = @ \cup {L}, !.states = @ \cup {L}]
                    IN AllSound(Died(t, "base") \cup {t} \cup Call([t EXCEPT !.byScript[file] = L], L))
  BY DEF luabase_loadscript, AllSound
<1> DEFINE t == [s EXCEPT !.open = @ \cup {L}, !.states = @ \cup {L}]
           loaded == [s.byScript EXCEPT ![file] = L]
           u == [t EXCEPT !.byScript[file] = L]
<1>0. s \in Bridged /\ s.byScript \in [Script -> Interp \cup {None}]
  BY DEF Sound, Bridged
<1>1. t \in Bridged
  BY <1>0 DEF Bridged
<1>2. /\ t.there = s.there /\ t.opers = s.opers /\ t.account = s.account /\ t.channel = s.channel
      /\ t.open = s.open \cup {L} /\ t.states = s.states \cup {L} /\ t.byScript = s.byScript
      /\ t.clients = s.clients /\ t.owner = s.owner
  BY <1>0 DEF Bridged
<1> HIDE DEF t
<1>3. Sound(t)
  <2>1. ScriptsOK(t.open, t.states, t.byScript, t.clients, t.owner)
    BY <1>2 DEF Sound, ScriptsOK
  <2> QED BY <1>1, <1>2, <2>1 DEF Sound
<1>4. loaded \in [Script -> Interp \cup {None}]
      /\ \A f \in Script : loaded[f] = IF f = file THEN L ELSE s.byScript[f]
  BY <1>0
<1>5. /\ u.there = t.there /\ u.opers = t.opers /\ u.account = t.account /\ u.channel = t.channel
      /\ u.open = t.open /\ u.states = t.states /\ u.byScript = loaded
      /\ u.clients = t.clients /\ u.owner = t.owner
  BY <1>1, <1>2 DEF Bridged
<1>6. u \in Bridged
  <2>1. u = [t EXCEPT !.byScript = loaded]
    BY <1>1, <1>2 DEF Bridged
  <2> HIDE DEF loaded, u
  <2> QED BY <1>1, <1>4, <2>1 DEF Bridged
<1> HIDE DEF loaded, u
<1>7. Sound(u)
  <2>1. ScriptsOK(u.open, u.states, u.byScript, u.clients, u.owner)
    <3>1. \A f \in Script : s.byScript[f] # None => s.byScript[f] \in s.states /\ s.byScript[f] # L
      BY DEF Sound, ScriptsOK
    <3> QED BY <1>2, <1>4, <1>5, <3>1 DEF Sound, ScriptsOK
  <2> QED BY <1>3, <1>5, <1>6, <2>1 DEF Sound
<1>8. \A r \in Died(t, "base") : Sound(r)
  <2>1. "base" \in Dooms
    BY DEF Dooms
  <2> QED BY <1>3, <2>1, DyingKeeps
<1>9. AllSound(Died(t, "base") \cup {t} \cup Call(u, L))
  BY <1>3, <1>7, <1>8, CallKeeps DEF AllSound
<1> QED BY <1>9 DEF t, u

(* A script that is unloaded takes its interpreter with it, which no other *)
(* script has.                                                             *)
LEMMA UnloadscriptKeeps ==
  ASSUME NEW s, Sound(s), NEW file \in Script, s.byScript[file] # None
  PROVE  AllSound(luabase_unloadscript(s, file))
<1> DEFINE L == s.byScript[file]
           owners(t) == [n \in Own |-> IF t.owner[n] = L THEN None ELSE t.owner[n]]
           without(t) == [t EXCEPT !.open = @ \ {L}, !.byScript[file] = None, !.states = @ \ {L},
                                   !.owner = [n \in Own |-> IF @[n] = L THEN None ELSE @[n]]]
<1>1. ASSUME NEW t, Sound(t), SameScripts(s, t) PROVE Sound(without(t))
  <2> DEFINE u == without(t)
             loaded == [t.byScript EXCEPT ![file] = None]
  <2>1. t \in Bridged /\ t.byScript \in [Script -> Interp \cup {None}]
        /\ t.owner \in [Own -> Interp \cup {None}]
    BY <1>1 DEF Sound, Bridged
  <2>2. t.byScript[file] = L
    BY <1>1 DEF SameScripts
  <2> HIDE DEF L
  <2>3. loaded \in [Script -> Interp \cup {None}] /\ owners(t) \in [Own -> Interp \cup {None}]
        /\ (\A f \in Script : loaded[f] = IF f = file THEN None ELSE t.byScript[f])
        /\ (\A n \in Own : owners(t)[n] = IF t.owner[n] = L THEN None ELSE t.owner[n])
    BY <2>1
  <2>4. u = [t EXCEPT !.open = @ \ {L}, !.byScript = loaded, !.states = @ \ {L}, !.owner = owners(t)]
    BY <2>1 DEF Bridged
  <2> HIDE DEF loaded, owners, u
  <2>5. u \in Bridged
    BY <2>1, <2>3, <2>4 DEF Bridged
  <2>6. /\ u.there = t.there /\ u.opers = t.opers /\ u.account = t.account /\ u.channel = t.channel
        /\ u.open = t.open \ {L} /\ u.states = t.states \ {L} /\ u.byScript = loaded
        /\ u.clients = t.clients /\ u.owner = owners(t)
    BY <2>1, <2>4 DEF Bridged
  <2>7. L # None
    BY DEF L
  <2>8. ScriptsOK(u.open, u.states, u.byScript, u.clients, u.owner)
    BY <1>1, <2>2, <2>3, <2>6, <2>7 DEF Sound, ScriptsOK
  <2>9. Sound(u)
    BY <1>1, <2>5, <2>6, <2>8 DEF Sound
  <2> QED BY <2>9 DEF u
<1>2. \A t \in Call(s, L) : Sound(t) /\ Sound(without(t))
  <2> HIDE DEF without, L
  <2> QED BY <1>1, CallKeeps
<1>3. luabase_unloadscript(s, file) = UNION {IF t.died = None THEN {without(t)} ELSE {t} : t \in Call(s, L)}
  BY DEF luabase_unloadscript, Then
<1> HIDE DEF without, L
<1> QED BY <1>2, <1>3 DEF AllSound

-----------------------------------------------------------------------------
(* The handlers of the bridge, from a state that is sound to another.      *)
ScriptsTyped ==
  /\ open \subseteq Interp /\ states \subseteq Interp
  /\ byScript \in [Script -> Interp \cup {None}]
  /\ clients \in [Own -> Interp \cup {None}] /\ owner \in [Own -> Interp \cup {None}]

Consistent ==
  /\ NetOK /\ deepest \in 0..3 /\ LinkTyped /\ ScriptsTyped
  /\ ScriptsOK(open, states, byScript, clients, owner)

LEMMA BridgeIsSound == ASSUME Consistent PROVE Sound(Bridge)
<1>1. Bridge \in Bridged
  BY DEF Bridge, Bridged, Consistent, ScriptsTyped, LinkTyped, NetOK, UsersOK, ChannelsOK
<1>2. Aged(channel, channel)
  BY DEF Aged
<1> QED BY <1>1, <1>2 DEF Sound, Bridge, Consistent, NetOK

LEMMA BecomesKeeps ==
  ASSUME Consistent, NEW t, Sound(t), Becomes(t)
  PROVE  NetKept /\ Consistent' /\ UNCHANGED <<hooks, modules>>
<1>1. /\ there' = t.there /\ opers' = t.opers /\ account' = t.account /\ channel' = t.channel
      /\ lastnumeric' = t.lastnumeric /\ bot' = t.bot /\ open' = t.open /\ states' = t.states
      /\ byScript' = t.byScript /\ clients' = t.clients /\ owner' = t.owner
      /\ UNCHANGED <<protocol, deepest, me, uplink, opername, hooks, modules>>
  BY DEF Becomes
<1>2. /\ t.lastnumeric \in 0..Len(OwnNumeric) /\ t.bot \in Own \cup {None} /\ t.open \subseteq Interp
      /\ t.states \subseteq Interp /\ t.byScript \in [Script -> Interp \cup {None}]
      /\ t.clients \in [Own -> Interp \cup {None}] /\ t.owner \in [Own -> Interp \cup {None}]
      /\ UsersOK(t.there, t.opers, t.account) /\ ChannelsOK(t.channel) /\ Aged(channel, t.channel)
      /\ ScriptsOK(t.open, t.states, t.byScript, t.clients, t.owner)
  BY DEF Sound, Bridged
<1>3. ChannelsOK(channel) /\ protocol \in [Server -> {"J10", "P10", None}]
  BY DEF Consistent, NetOK
<1>4. NoneRises(there, channel, t.channel)
  BY <1>2, <1>3, AgedAsBefore
<1>5. NetKept
  BY <1>1, <1>2, <1>3, <1>4 DEF NetKept
<1>6. NetOK' /\ (deepest \in 0..3)' /\ LinkTyped' /\ ScriptsTyped'
  BY <1>1, <1>2, <1>3 DEF Consistent, NetOK, LinkTyped, ScriptsTyped
<1>7. ScriptsOK(open, states, byScript, clients, owner)'
  <2>1. ScriptsOK(open', states', byScript', clients', owner')
    BY <1>1, <1>2
  <2> QED BY <2>1 DEF ScriptsOK
<1> QED BY <1>1, <1>5, <1>6, <1>7 DEF Consistent

LEMMA ToClientKeeps == ASSUME NEW s, Sound(s), NEW to PROVE AllSound(ToClient(s, to))
  BY CallKeeps DEF ToClient, AllSound

LEMMA CommandedKeeps ==
  ASSUME NEW s, Sound(s), NEW from, NEW to, NEW text \in DOMAIN CommandOf
  PROVE  AllSound(Commanded(s, from, to, text))
<1> DEFINE command == CommandOf[text]
           run == CASE command = <<>> \/ from \notin s.opers -> {s}
                    [] command # <<>> /\ from \in s.opers /\ command[1] = "load" ->
                         luabase_loadscript(s, command[2])
                    [] OTHER -> IF s.byScript[command[2]] = None THEN {s}
                                ELSE luabase_unloadscript(s, command[2])
<1>1. command # <<>> => command[2] \in Script
  BY CommandsAreOfScripts
<1>2. AllSound(run)
  <2> HIDE DEF command
  <2>1. CASE command = <<>> \/ from \notin s.opers
    BY <2>1 DEF AllSound
  <2>2. CASE command # <<>> /\ from \in s.opers /\ command[1] = "load"
    BY <1>1, <2>2, LoadscriptKeeps
  <2>3. CASE command # <<>> /\ from \in s.opers /\ command[1] # "load"
    <3>1. run = IF s.byScript[command[2]] = None THEN {s} ELSE luabase_unloadscript(s, command[2])
      BY <2>3
    <3> QED BY <1>1, <2>3, <3>1, UnloadscriptKeeps DEF AllSound
  <2> QED BY <2>1, <2>2, <2>3
<1>3. Commanded(s, from, to, text) =
        IF s.bot = to THEN run ELSE IF s.bot = None THEN {s} \cup run ELSE {s}
  BY DEF Commanded
<1> HIDE DEF run
<1> QED BY <1>2, <1>3 DEF AllSound

LEMMA PrivmsgKeeps ==
  ASSUME Consistent, NEW l, NEW m, Reads(l, m), hPRIVMSG(l, m)
  PROVE  NetKept /\ Consistent' /\ UNCHANGED <<hooks, modules>>
<1> DEFINE to == WordOf(l, m, 1)
           text == WordOf(l, m, 2)
           s == Bridge
<1>1. text \in DOMAIN CommandOf /\ Sound(s)
  BY MessageIsGiven, BridgeIsSound DEF hPRIVMSG
<1>2. \E t : /\ Becomes(t)
             /\ \/ t = s \/ t \in ToChannel(s, to) \/ t \in Died(s, "nobody")
                \/ t \in Then(Commanded(s, l.from, to, text), LAMBDA r : ToClient(r, to))
                \/ t \in Then(ToClient(s, to), LAMBDA r : Commanded(r, l.from, to, text))
  BY DEF hPRIVMSG
<1> HIDE DEF text, to, s
<1>3. AllSound(ToChannel(s, to))
  BY <1>1, ToChannelKeeps
<1>4. AllSound(Died(s, "nobody"))
  <2>1. "nobody" \in Dooms
    BY DEF Dooms
  <2> QED BY <1>1, <2>1, DyingKeeps DEF AllSound
<1>5. AllSound(Then(Commanded(s, l.from, to, text), LAMBDA r : ToClient(r, to)))
  BY <1>1, CommandedKeeps, ToClientKeeps DEF AllSound, Then
<1>6. AllSound(Then(ToClient(s, to), LAMBDA r : Commanded(r, l.from, to, text)))
  BY <1>1, CommandedKeeps, ToClientKeeps DEF AllSound, Then
<1>7. \E t : Becomes(t) /\ Sound(t)
  BY <1>1, <1>2, <1>3, <1>4, <1>5, <1>6 DEF AllSound
<1> QED BY <1>7, BecomesKeeps

LEMMA NoticeKeeps ==
  ASSUME Consistent, NEW l, NEW m, hNOTICE(l, m)
  PROVE  NetKept /\ Consistent' /\ UNCHANGED <<hooks, modules>>
<1> DEFINE to == WordOf(l, m, 1)
           s == Bridge
<1>1. Sound(s)
  BY BridgeIsSound
<1>2. \E t : Becomes(t) /\ (t = s \/ t \in ToClient(s, to) \/ t \in Died(s, "nobody"))
  BY DEF hNOTICE
<1> HIDE DEF to, s
<1>3. AllSound(Died(s, "nobody"))
  <2>1. "nobody" \in Dooms
    BY DEF Dooms
  <2> QED BY <1>1, <2>1, DyingKeeps DEF AllSound
<1>4. \E t : Becomes(t) /\ Sound(t)
  BY <1>1, <1>2, <1>3, ToClientKeeps DEF AllSound
<1> QED BY <1>4, BecomesKeeps

LEMMA LeavesKeeps ==
  ASSUME NEW s, Sound(s), NEW u, NEW c \in Existing PROVE Sound(Leaves(s, u, c))
<1> DEFINE old == s.channel[c]
           left == [old EXCEPT !.users = @ \ {u}, !.ops = @ \ {u}, !.voices = @ \ {u}]
           chans == [s.channel EXCEPT ![c] = left]
           t == Leaves(s, u, c)
<1>1. s \in Bridged /\ ChannelsOK(s.channel) /\ c \in Chan /\ GoodChannel(old)
  BY DEF Sound, Existing, Aged, ChannelsOK
<1>2. GoodChannel(left) /\ left.ts = old.ts /\ left \in Channel /\ left # None
  <2> HIDE DEF old
  <2>1. old \in Channel /\ old.ops \subseteq old.users /\ old.voices \subseteq old.users
        /\ old.mode \subseteq Flags.channel
    BY <1>1 DEF GoodChannel, ChannelOK
  <2>2. left \in Channel /\ left.ts = old.ts /\ left.mode = old.mode
        /\ left.ops \subseteq left.users /\ left.voices \subseteq left.users
    BY <2>1 DEF Channel
  <2> HIDE DEF left
  <2> QED BY <2>1, <2>2, NoneIsNoChannel DEF GoodChannel, ChannelOK
<1>3. t = [s EXCEPT !.channel = chans]
  <2>1. s.channel \in [Chan -> Channel \cup {None}] /\ old \in Channel
    BY <1>1 DEF ChannelsOK, GoodChannel
  <2> QED BY <1>1, <2>1 DEF Leaves, Bridged, Channel
<1> HIDE DEF left, t
<1>4. chans \in [Chan -> Channel \cup {None}]
      /\ \A d \in Chan : chans[d] = IF d = c THEN left ELSE s.channel[d]
  BY <1>1, <1>2 DEF ChannelsOK
<1> HIDE DEF chans
<1>5. ChannelsOK(chans) /\ Aged(channel, chans)
  BY <1>2, <1>4 DEF Sound, ChannelsOK, Aged
<1>6. t \in Bridged
  BY <1>1, <1>3, <1>4 DEF Bridged
<1>7. /\ t.there = s.there /\ t.opers = s.opers /\ t.account = s.account /\ t.channel = chans
      /\ t.open = s.open /\ t.states = s.states /\ t.byScript = s.byScript
      /\ t.clients = s.clients /\ t.owner = s.owner
  BY <1>1, <1>3 DEF Bridged
<1>8. Sound(t)
  BY <1>5, <1>6, <1>7 DEF Sound
<1> QED BY <1>8 DEF t

(* What follows the calls of all interpreters.                             *)
LEMMA LeavingKeeps ==
  ASSUME Consistent, NEW l, NEW m, hQUIT(l) \/ hKILL(l, m) \/ hPART(l, m) \/ hKICK(l, m) \/ Tick
  PROVE  NetKept /\ Consistent' /\ UNCHANGED <<hooks, modules>>
<1>1. Sound(Bridge) /\ AllSound(CallStates(Bridge)) /\ AllSound({Bridge})
  BY BridgeIsSound, CallStatesKeeps DEF AllSound
<1>2. CASE hQUIT(l)
  <2>1. \E t \in Then(CallStates(Bridge), LAMBDA r : {Removed(r, l.from)})
                 \cup Then({Bridge}, LAMBDA r : {Removed(r, l.from)}) : Becomes(t)
    BY <1>2 DEF hQUIT
  <2>2. \E t : Becomes(t) /\ Sound(t)
    BY <1>1, <2>1, RemovedKeeps DEF AllSound, Then
  <2> QED BY <2>2, BecomesKeeps
<1>3. CASE hKILL(l, m)
  BY <1>1, <1>3, RemovedKeeps, BecomesKeeps DEF hKILL
<1>4. CASE hPART(l, m)
  <2>1. PICK c \in Existing :
          \E t \in Then(CallStates(Bridge), LAMBDA r : {Leaves(r, l.from, c)})
                   \cup Then({Bridge}, LAMBDA r : {Leaves(r, l.from, c)}) : Becomes(t)
    BY <1>4 DEF hPART
  <2>2. \E t : Becomes(t) /\ Sound(t)
    BY <1>1, <2>1, LeavesKeeps DEF AllSound, Then
  <2> QED BY <2>2, BecomesKeeps
<1>5. CASE hKICK(l, m)
  <2>1. \E u, c : c \in Existing /\ Becomes(Leaves(Bridge, u, c))
    BY <1>5 DEF hKICK
  <2> QED BY <1>1, <2>1, LeavesKeeps, BecomesKeeps
<1>6. CASE Tick
  <2>1. \E t \in Then(CallStates(Bridge), CallStates) : Becomes(t)
    BY <1>6 DEF Tick
  <2>2. AllSound(Then(CallStates(Bridge), CallStates))
    BY <1>1, CallStatesKeeps DEF AllSound, Then
  <2> QED BY <2>1, <2>2, BecomesKeeps DEF AllSound
<1> QED BY <1>2, <1>3, <1>4, <1>5, <1>6

-----------------------------------------------------------------------------
(* The inductive invariant: users, channels and servers have their types    *)
(* and no bit for a parameter; the only uplink is Uplink; the scripts have  *)
(* interpreters of their own; and what the modules bring waits for the      *)
(* acknowledgement.                                                         *)
IInv == TrafficIsFixed /\ Consistent /\ (peer # "open" => Quiet)

LEMMA KeptIsConsistent ==
  ASSUME Consistent, NetKept, deepest' \in 0..3, LinkTyped', UNCHANGED scriptVars
  PROVE  Consistent'
<1>1. NetOK'
  BY DEF NetKept, NetOK
<1>2. ScriptsTyped' /\ ScriptsOK(open, states, byScript, clients, owner)'
  BY DEF Consistent, ScriptsTyped, ScriptsOK, scriptVars
<1> QED BY <1>1, <1>2 DEF Consistent

LEMMA StartsConsistent == Init => IInv
<1> SUFFICES ASSUME Init PROVE IInv
  OBVIOUS
<1>1. NetOK /\ deepest \in 0..3
  BY DEF Init, LinesInit, NetOK, UsersOK, ChannelsOK, Accounts
<1>2. LinkTyped
  <2>1. Len(OwnNumeric) \in Nat
    BY OwnAreUsers
  <2> QED BY <2>1 DEF Init, LinkInit, LinkTyped
<1>3. Quiet
  BY DEF Init, LinkInit, Quiet
<1>4. ScriptsTyped /\ ScriptsOK(open, states, byScript, clients, owner)
  BY DEF Init, ScriptsInit, ScriptsTyped, ScriptsOK
<1> QED BY <1>1, <1>2, <1>3, <1>4 DEF Init, IInv, Consistent, TrafficIsFixed

(* The turn of the handshake's lines never goes back.                      *)
LEMMA TurnsOn ==
  ASSUME NEW l \in Line, Turn(l), peer = "open" PROVE peer' = "open"
  BY UplinkSpeaksForItself DEF Turn, Phase

LEMMA AckOpens ==
  ASSUME NEW l \in Line, Turn(l), l.token = "EOB_ACK", l.from = Uplink PROVE peer' = "open"
  BY UplinkSpeaksForItself DEF Turn, Phase

LEMMA LineKeeps ==
  ASSUME IInv, NEW l \in traffic, handle_input(l)
  PROVE  NetKept /\ IInv'
<1>1. l \in Line /\ Consistent /\ me # None /\ Turn(l) /\ UNCHANGED traffic
      /\ (l.from = None) = ~registered
  BY TrafficIsLines DEF IInv, TrafficIsFixed, handle_input
<1>2. NetOK /\ deepest \in 0..3 /\ LinkTyped
  BY <1>1 DEF Consistent
<1>3. PICK m \in Matches(l) :
        \/ m = Wild /\ Dies("wild") /\ UNCHANGED <<linkVars, scriptVars, deepest>>
        \/ /\ m # Wild /\ m.ok
           /\ \/ HandleModes(l, m) /\ UNCHANGED <<linkVars, scriptVars>>
              \/ HandleLink(l, m) /\ UNCHANGED scriptVars
              \/ HandleScripts(l, m)
  BY DEF handle_input
<1> DEFINE Fine == /\ NetKept /\ Consistent'
                   /\ UNCHANGED <<hooks, modules>> \/ (l.token = "EOB_ACK" /\ l.from = Uplink)
<1>4. Fine
  <2>1. CASE m = Wild /\ Dies("wild") /\ UNCHANGED <<linkVars, scriptVars, deepest>>
    <3>1. NetKept
      BY <1>2, <2>1, SameIsKept DEF Dies
    <3>2. LinkTyped' /\ deepest' \in 0..3 /\ UNCHANGED <<hooks, modules>> /\ UNCHANGED scriptVars
      BY <1>2, <2>1 DEF linkVars, LinkTyped
    <3> QED BY <1>1, <3>1, <3>2, KeptIsConsistent
  <2>2. ASSUME m # Wild, m.ok PROVE Reads(l, m)
    BY <1>1, <2>2, HandlersRead
  <2>3. CASE m # Wild /\ m.ok /\ HandleModes(l, m) /\ UNCHANGED <<linkVars, scriptVars>>
    <3>1. NetKept /\ deepest' \in 0..3
      BY <1>2, <2>2, <2>3, ModesKeep
    <3>2. LinkTyped' /\ UNCHANGED <<hooks, modules>> /\ UNCHANGED scriptVars
      BY <1>2, <2>3 DEF linkVars, LinkTyped
    <3> QED BY <1>1, <3>1, <3>2, KeptIsConsistent
  <2>4. CASE m # Wild /\ m.ok /\ HandleLink(l, m) /\ UNCHANGED scriptVars
    <3>1. /\ NetKept /\ deepest' \in 0..3 /\ LinkTyped'
          /\ UNCHANGED <<hooks, modules>> \/ (l.token = "EOB_ACK" /\ l.from = Uplink)
      BY <1>1, <1>2, <2>2, <2>4, LinkKeeps
    <3> QED BY <1>1, <2>4, <3>1, KeptIsConsistent
  <2>5. CASE m # Wild /\ m.ok /\ HandleScripts(l, m)
    BY <1>1, <2>2, <2>5, PrivmsgKeeps, NoticeKeeps, LeavingKeeps DEF HandleScripts
  <2> QED BY <1>3, <2>1, <2>3, <2>4, <2>5
<1>5. peer' # "open" => Quiet'
  <2>1. CASE UNCHANGED <<hooks, modules>>
    <3>1. peer' # "open" => Quiet
      BY <1>1, TurnsOn DEF IInv
    <3>2. Quiet => Quiet'
      BY <2>1 DEF Quiet
    <3> QED BY <3>1, <3>2
  <2>2. CASE l.token = "EOB_ACK" /\ l.from = Uplink
    BY <1>1, <2>2, AckOpens
  <2> QED BY <1>4, <2>1, <2>2
<1> QED BY <1>1, <1>4, <1>5 DEF IInv, TrafficIsFixed

LEMMA StepKeeps == ASSUME IInv, Next PROVE NetKept /\ IInv'
<1>1. Consistent /\ NetOK /\ deepest \in 0..3 /\ LinkTyped
  BY DEF IInv, Consistent
<1>2. ASSUME NetKept, Consistent', UNCHANGED <<hooks, modules, peer, traffic>> PROVE NetKept /\ IInv'
  BY <1>2 DEF IInv, TrafficIsFixed, Quiet
<1>3. CASE Starts
  <2>1. PICK file \in ConfigFile : Startup(file) /\ UNCHANGED <<scriptVars, peer, traffic>>
    BY <1>3 DEF Starts
  <2>2. NetKept /\ deepest' \in 0..3 /\ LinkTyped' /\ UNCHANGED <<hooks, modules>>
    BY <1>1, <2>1, StartupKeeps
  <2> QED BY <1>1, <1>2, <2>1, <2>2, KeptIsConsistent
<1>4. CASE Closes
  <2>1. UNCHANGED <<there, opers, account, channel, protocol>> /\ UNCHANGED linkVars
        /\ UNCHANGED deepest /\ UNCHANGED <<scriptVars, peer, traffic>>
    BY <1>4 DEF Closes, LinkCloses, Dies
  <2>2. NetKept
    BY <1>1, <2>1, SameIsKept
  <2>3. LinkTyped' /\ deepest' \in 0..3 /\ UNCHANGED <<hooks, modules>>
    BY <1>1, <2>1 DEF linkVars, LinkTyped
  <2> QED BY <1>1, <1>2, <2>1, <2>2, <2>3, KeptIsConsistent
<1>5. CASE Ticks
  <2>1. Tick /\ UNCHANGED <<peer, traffic>>
    BY <1>5 DEF Ticks
  <2>2. NetKept /\ Consistent' /\ UNCHANGED <<hooks, modules>>
    BY <1>1, <2>1, LeavingKeeps
  <2> QED BY <1>2, <2>1, <2>2
<1>6. CASE \E l \in traffic : handle_input(l)
  BY <1>6, LineKeeps
<1> QED BY <1>3, <1>4, <1>5, <1>6 DEF Next

LEMMA AlwaysConsistent == Spec => []IInv
<1>1. IInv /\ UNCHANGED vars => IInv'
  BY DEF IInv, TrafficIsFixed, Consistent, NetOK, UsersOK, ChannelsOK, LinkTyped, ScriptsTyped,
         ScriptsOK, Quiet, vars, netVars, linkVars, scriptVars
<1>2. IInv /\ [Next]_vars => IInv'
  BY <1>1, StepKeeps
<1> QED BY <1>2, StartsConsistent, PTL DEF Spec

-----------------------------------------------------------------------------
(* Every variable keeps its type, and whoever has status on a channel is   *)
(* on its list, whatever lines, configuration and scripts there are.       *)
THEOREM TypeIsInvariant == Spec => []TypeOK
<1>1. IInv => TypeOK
  BY OwnAreUsers DEF IInv, Consistent, NetOK, UsersOK, ChannelsOK, GoodChannel, LinkTyped,
                     ScriptsTyped, TypeOK, Existing
<1> QED BY <1>1, AlwaysConsistent, PTL

(* A key, a limit, a ban or a status never gets a mode bit, however it is  *)
(* set (mode_set1), so a script's removal of one is never sent.            *)
THEOREM ParametersStayOut == Spec => []ParametersHaveNoBit
<1>1. IInv => ParametersHaveNoBit
  BY DEF IInv, Consistent, NetOK, ChannelsOK, GoodChannel, ParametersHaveNoBit, Existing
<1> QED BY <1>1, AlwaysConsistent, PTL

(* The interpreters that are ticked and that scripts are unloaded from are *)
(* open (luabase_loadscript, luabase_unloadscript).                        *)
THEOREM InterpretersStayOpen == Spec => []InterpretersOpen
<1>1. IInv => InterpretersOpen
  BY DEF IInv, Consistent, ScriptsTyped, ScriptsOK, InterpretersOpen, Range
<1> QED BY <1>1, AlwaysConsistent, PTL

(* Messages to a client go to the script that has introduced it            *)
(* (luabase_newuser, luabase_onprivmsg).                                   *)
THEOREM ClientsKeepTheirScript == Spec => []ClientsAnswerTheirScript
<1>1. IInv => ClientsAnswerTheirScript
  BY DEF IInv, Consistent, ScriptsOK, ClientsAnswerTheirScript
<1> QED BY <1>1, AlwaysConsistent, PTL

(* The modules come with the acknowledgement of the uplink and no other    *)
(* (hEOB_ACK, module_loadAll).                                             *)
THEOREM ModulesWait == Spec => []ModulesAfterAck
<1>1. IInv => ModulesAfterAck
  BY DEF IInv, Quiet, ModulesAfterAck, OwnHooks, LuaHooks
<1> QED BY <1>1, AlwaysConsistent, PTL

(* The timestamp of a channel only falls, unless the channel is made anew  *)
(* (hMODE, hOPMODE, hBURST, hCREATE).                                      *)
THEOREM TimestampsFall == Spec => TsNeverRises
<1> DEFINE Falls == \A c \in Existing : channel'[c].ts > channel[c].ts =>
                      \E u \in there : channel'[c] = Created(u, channel'[c].ts)
<1>1. IInv /\ [Next]_vars => [Falls]_vars
  <2>1. ASSUME IInv, Next PROVE Falls
    <3>1. ChannelsOK(channel) /\ ChannelsOK(channel') /\ NoneRises(there, channel, channel')
      BY <2>1, StepKeeps DEF IInv, Consistent, NetOK, NetKept
    <3>2. SUFFICES ASSUME NEW c \in Existing, channel'[c].ts > channel[c].ts
                   PROVE  \E u \in there : channel'[c] = Created(u, channel'[c].ts)
      OBVIOUS
    <3>3. c \in Chan /\ channel[c] # None /\ channel'[c] # None
      BY <3>1 DEF Existing, NoneRises
    <3>4. channel[c].ts \in Nat /\ channel'[c].ts \in Nat
      BY <3>1, <3>3, GoodIsTimed DEF ChannelsOK
    <3>5. ~ channel'[c].ts <= channel[c].ts
      BY <3>2, <3>4
    <3> QED BY <3>1, <3>3, <3>5 DEF NoneRises
  <2> QED BY <2>1
<1> QED BY <1>1, AlwaysConsistent, PTL DEF Spec, TsNeverRises

=============================================================================
