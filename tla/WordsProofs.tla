----------------------------- MODULE WordsProofs -----------------------------
(***************************************************************************)
(* What is sent comes back word for word, and what is read does not depend *)
(* on the chunks it comes in, proved for texts of any length.              *)
(***************************************************************************)
EXTENDS Words, SequenceTheorems, TLAPS

(* What rfc_split has made of the line <<source, token, last>> after k of  *)
(* its characters; marked says that the last word has a ':' in front.      *)
Split(words, gap, tail, cut) == [words |-> words, gap |-> gap, tail |-> tail, cut |-> cut]

After(source, token, last, marked, k) ==
  LET a == Len(source)
      b == a + 1 + Len(token)
      c == IF marked THEN b + 2 ELSE b + 1
      d == c + Len(last)
  IN IF k <= a THEN Split(<<SubSeq(source, 1, k)>>, FALSE, FALSE, FALSE)
     ELSE IF k = a + 1 THEN Split(<<source>>, TRUE, FALSE, FALSE)
     ELSE IF k <= b THEN Split(<<source, SubSeq(token, 1, k - a - 1)>>, FALSE, FALSE, FALSE)
     ELSE IF k = b + 1 THEN Split(<<source, token>>, TRUE, FALSE, FALSE)
     ELSE IF k <= d THEN Split(<<source, token, SubSeq(last, 1, k - c)>>, FALSE, marked, FALSE)
     ELSE Split(<<source, token, last>>, ~ marked, marked, marked)

SplitAt(env, s, c) == SplitStep(s, c)
Splits(env, k, s) == s = After(env[1], env[2], env[3], env[4], k)

Splitting == INSTANCE FoldFacts WITH Step <- SplitAt, Good <- Splits

(* The line of the three words, and where each of its characters is from.  *)
(* The separators are variables, because the SMT backend does not get      *)
(* along with string literals in sequences; Spelled says what they are.    *)
Spelled(sp, colon, bar) == sp = " " /\ colon = ":" /\ bar = "|"

LineOf(source, token, last, marked, sp, colon, bar) ==
  source \o <<sp>> \o token \o <<sp>> \o (IF marked THEN <<colon>> \o last ELSE last) \o <<bar>>

Layout(source, token, last, marked, sp, colon, bar) ==
  LET a == Len(source)
      b == a + 1 + Len(token)
      c == IF marked THEN b + 2 ELSE b + 1
      d == c + Len(last)
      line == LineOf(source, token, last, marked, sp, colon, bar)
  IN /\ Len(line) = d + 1 /\ DOMAIN line = 1..(d + 1)
     /\ \A k \in 1..a : line[k] = source[k]
     /\ line[a + 1] = sp /\ line[b + 1] = sp /\ line[d + 1] = bar
     /\ \A k \in (a + 2)..b : line[k] = token[k - a - 1]
     /\ marked => line[b + 2] = colon
     /\ \A k \in (c + 1)..d : line[k] = last[k - c]

LEMMA Joined ==
  ASSUME NEW T, NEW u \in Seq(T), NEW v \in Seq(T)
  PROVE  /\ u \o v \in Seq(T) /\ Len(u \o v) = Len(u) + Len(v)
         /\ Len(u) \in Nat /\ Len(v) \in Nat
         /\ \A k \in 1..Len(u) : (u \o v)[k] = u[k]
         /\ \A k \in (Len(u) + 1)..(Len(u) + Len(v)) : (u \o v)[k] = v[k - Len(u)]
OBVIOUS

LEMMA JoinedOne ==
  ASSUME NEW T, NEW u \in Seq(T), NEW x \in T
  PROVE  /\ u \o <<x>> \in Seq(T) /\ Len(u \o <<x>>) = Len(u) + 1 /\ Len(u) \in Nat
         /\ (u \o <<x>>)[Len(u) + 1] = x /\ \A k \in 1..Len(u) : (u \o <<x>>)[k] = u[k]
OBVIOUS

LEMMA CharactersOf ==
  ASSUME NEW T, NEW source \in Seq(T), NEW token \in Seq(T), NEW last \in Seq(T), NEW marked \in BOOLEAN,
         NEW sp \in T, NEW colon \in T, NEW bar \in T
  PROVE  Layout(source, token, last, marked, sp, colon, bar)
<1> DEFINE end == IF marked THEN <<colon>> \o last ELSE last
           one == source \o <<sp>>
           two == one \o token
           three == two \o <<sp>>
           four == three \o end
           line == LineOf(source, token, last, marked, sp, colon, bar)
           a == Len(source)
           b == a + 1 + Len(token)
           c == IF marked THEN b + 2 ELSE b + 1
<1>2. one \in Seq(T) /\ Len(one) = a + 1 /\ one[a + 1] = sp /\ \A k \in 1..a : one[k] = source[k]
  BY JoinedOne
<1> HIDE DEF one
<1>3. /\ two \in Seq(T) /\ Len(two) = b
      /\ \A k \in 1..(a + 1) : two[k] = one[k]
      /\ \A k \in (a + 2)..b : two[k] = token[k - a - 1]
  <2>1. a \in Nat /\ Len(token) \in Nat
    OBVIOUS
  <2> HIDE DEF a
  <2>2. \A k \in (a + 2)..b : k \in (a + 1 + 1)..(a + 1 + Len(token)) /\ k - (a + 1) = k - a - 1
    BY <2>1
  <2>3. /\ two \in Seq(T) /\ Len(two) = Len(one) + Len(token)
        /\ \A k \in 1..Len(one) : two[k] = one[k]
        /\ \A k \in (Len(one) + 1)..(Len(one) + Len(token)) : two[k] = token[k - Len(one)]
    BY <1>2, Joined
  <2> HIDE DEF two
  <2> QED BY <1>2, <2>1, <2>2, <2>3
<1> HIDE DEF two
<1>4. /\ three \in Seq(T) /\ Len(three) = b + 1 /\ three[b + 1] = sp
      /\ \A k \in 1..b : three[k] = two[k]
  <2> HIDE DEF b
  <2> QED BY <1>3, JoinedOne
<1> HIDE DEF three
<1>5. /\ end \in Seq(T) /\ Len(end) = c - b - 1 + Len(last)
      /\ marked => end[1] = colon
      /\ \A k \in 1..Len(last) : end[c - b - 1 + k] = last[k]
  <2>0. b \in Int /\ Len(last) \in Nat
    OBVIOUS
  <2> HIDE DEF b
  <2>1. CASE marked
    <3>1. <<colon>> \in Seq(T) /\ Len(<<colon>>) = 1 /\ <<colon>>[1] = colon
      OBVIOUS
    <3>2. end = <<colon>> \o last /\ c - b - 1 = 1
      BY <2>0, <2>1
    <3>3. \A k \in 1..Len(last) : 1 + k \in 2..(1 + Len(last)) /\ (1 + k) - 1 = k
      BY <2>0
    <3>4. /\ <<colon>> \o last \in Seq(T) /\ Len(<<colon>> \o last) = 1 + Len(last)
          /\ (<<colon>> \o last)[1] = colon
          /\ \A k \in 2..(1 + Len(last)) : (<<colon>> \o last)[k] = last[k - 1]
      BY <3>1, Joined
    <3> QED BY <3>2, <3>3, <3>4
  <2>2. CASE ~ marked
    <3>1. end = last /\ c - b - 1 = 0 /\ \A k \in 1..Len(last) : 0 + k = k
      BY <2>0, <2>2
    <3> QED BY <2>0, <2>2, <3>1
  <2> QED BY <2>1, <2>2
<1> HIDE DEF end
<1>6. /\ four \in Seq(T) /\ Len(four) = c + Len(last)
      /\ \A k \in 1..(b + 1) : four[k] = three[k]
      /\ \A k \in 1..Len(end) : four[b + 1 + k] = end[k]
  <2>1. b \in Int /\ Len(last) \in Nat /\ c \in Int
    OBVIOUS
  <2> HIDE DEF b, c
  <2>2. \A k \in 1..Len(end) :
          /\ b + 1 + k \in (Len(three) + 1)..(Len(three) + Len(end))
          /\ (b + 1 + k) - Len(three) = k
    BY <1>4, <1>5, <2>1
  <2>3. Len(three) + Len(end) = c + Len(last)
    BY <1>4, <1>5, <2>1
  <2>4. /\ four \in Seq(T) /\ Len(four) = Len(three) + Len(end)
        /\ \A k \in 1..Len(three) : four[k] = three[k]
        /\ \A k \in (Len(three) + 1)..(Len(three) + Len(end)) : four[k] = end[k - Len(three)]
    <3>1. three \in Seq(T) /\ end \in Seq(T)
      BY <1>4, <1>5
    <3> QED BY <3>1, Joined
  <2> HIDE DEF four
  <2>5. \A k \in 1..Len(end) : four[b + 1 + k] = end[k]
    <3> TAKE k \in 1..Len(end)
    <3>1. four[b + 1 + k] = end[(b + 1 + k) - Len(three)]
      BY <2>2, <2>4
    <3>2. (b + 1 + k) - Len(three) = k
      BY <2>2
    <3> QED BY <3>1, <3>2
  <2>6. four \in Seq(T) /\ Len(four) = c + Len(last) /\ \A k \in 1..(b + 1) : four[k] = three[k]
    BY <1>4, <2>3, <2>4
  <2> QED BY <2>5, <2>6
<1> HIDE DEF four
<1>7. /\ line = four \o <<bar>>
      /\ line \in Seq(T) /\ Len(line) = c + Len(last) + 1 /\ line[c + Len(last) + 1] = bar
      /\ \A k \in 1..(c + Len(last)) : line[k] = four[k]
  <2>1. line = four \o <<bar>>
    BY DEF LineOf, four, three, two, one, end
  <2> HIDE DEF line, b, c
  <2> QED BY <1>6, <2>1, JoinedOne
<1> HIDE DEF line
<1>8. a \in Nat /\ Len(token) \in Nat /\ Len(last) \in Nat
  OBVIOUS
<1>9. \A k \in (c + 1)..(c + Len(last)) : line[k] = last[k - c]
  <2> TAKE k \in (c + 1)..(c + Len(last))
  <2>1. k - c \in 1..Len(last) /\ k - b - 1 \in 1..Len(end) /\ k \in 1..(c + Len(last))
        /\ c - b - 1 + (k - c) = k - b - 1 /\ b + 1 + (k - b - 1) = k
    BY <1>5, <1>8
  <2>2. end[c - b - 1 + (k - c)] = last[k - c]
    BY <1>5, <2>1
  <2> HIDE DEF a, b, c
  <2> QED BY <1>6, <1>7, <2>1, <2>2
<1>10. marked => line[b + 2] = colon
  <2> SUFFICES ASSUME marked PROVE line[b + 2] = colon
    OBVIOUS
  <2>1. 1 \in 1..Len(end) /\ b + 2 \in 1..(c + Len(last)) /\ b + 1 + 1 = b + 2
    BY <1>5, <1>8
  <2> QED BY <1>5, <1>6, <1>7, <2>1
<1>11. \A k \in 1..(b + 1) : line[k] = three[k]
  BY <1>6, <1>7, <1>8
<1>12. line[a + 1] = sp /\ line[b + 1] = sp /\ \A k \in 1..a : line[k] = source[k]
  <2>1. a + 1 \in 1..(b + 1) /\ b + 1 \in 1..(b + 1) /\ a + 1 \in 1..b /\ a + 1 \in 1..(a + 1)
    BY <1>8
  <2>2. \A k \in 1..a : k \in 1..(b + 1) /\ k \in 1..b /\ k \in 1..(a + 1)
    BY <1>8
  <2> HIDE DEF a, b
  <2> QED BY <1>2, <1>3, <1>4, <1>11, <2>1, <2>2
<1>13. \A k \in (a + 2)..b : line[k] = token[k - a - 1]
  <2>1. \A k \in (a + 2)..b : k \in 1..(b + 1) /\ k \in 1..b
    BY <1>8
  <2> HIDE DEF a, b
  <2> QED BY <1>3, <1>4, <1>11, <2>1
<1>14. DOMAIN line = 1..(c + Len(last) + 1)
  BY <1>7
<1> QED BY <1>7, <1>9, <1>10, <1>12, <1>13, <1>14 DEF Layout, line

LEMMA OneMore ==
  ASSUME NEW S, NEW w \in Seq(S), NEW k \in 0..(Len(w) - 1)
  PROVE  SubSeq(w, 1, k + 1) = Append(SubSeq(w, 1, k), w[k + 1])
OBVIOUS

LEMMA WholeWord ==
  ASSUME NEW S, NEW w \in Seq(S)
  PROVE  SubSeq(w, 1, Len(w)) = w /\ SubSeq(w, 1, 0) = <<>> /\ (w # <<>> => SubSeq(w, 1, 1) = <<w[1]>>)
<1>1. SubSeq(w, 1, Len(w)) = w
  OBVIOUS
<1>2. SubSeq(w, 1, 0) = <<>>
  OBVIOUS
<1>3. ASSUME w # <<>> PROVE SubSeq(w, 1, 1) = <<w[1]>>
  <2>1. Len(w) \in Nat \ {0} /\ w[1] \in S
    BY <1>3
  <2>2. SubSeq(w, 1, 1) \in Seq(S) /\ Len(SubSeq(w, 1, 1)) = 1 /\ SubSeq(w, 1, 1)[1] = w[1]
    BY <2>1
  <2>3. <<w[1]>> \in Seq(S) /\ Len(<<w[1]>>) = 1 /\ <<w[1]>>[1] = w[1]
    BY <2>1
  <2> DEFINE one == SubSeq(w, 1, 1)
             other == <<w[1]>>
  <2> HIDE DEF one, other
  <2>4. one \in Seq(S) /\ other \in Seq(S) /\ Len(one) = Len(other) /\ \A n \in 1..Len(one) : one[n] = other[n]
    BY <2>2, <2>3 DEF one, other
  <2>5. one = other
    BY <2>4, SeqEqual
  <2> QED BY <2>5 DEF one, other
<1> QED BY <1>1, <1>2, <1>3

LEMMA ExtendOne == ASSUME NEW w, NEW x PROVE Extend(<<w>>, x) = <<Append(w, x)>>
BY DEF Extend

LEMMA ExtendTwo == ASSUME NEW v, NEW w, NEW x PROVE Extend(<<v, w>>, x) = <<v, Append(w, x)>>
BY DEF Extend

LEMMA ExtendThree ==
  ASSUME NEW u, NEW v, NEW w, NEW x PROVE Extend(<<u, v, w>>, x) = <<u, v, Append(w, x)>>
BY DEF Extend

(* The words that ComesBack sends: only the last is marked. *)
Sendable(source, token, last, marked) ==
  /\ source # <<>> /\ token # <<>> /\ last # <<>>
  /\ source[1] # ":" /\ \A k \in 1..Len(source) : source[k] \notin Separator
  /\ token[1] # ":" /\ \A k \in 1..Len(token) : token[k] \notin Separator
  /\ \A k \in 1..Len(last) : last[k] # "|"
  /\ ~ marked => last[1] # ":" /\ \A k \in 1..Len(last) : last[k] \notin Separator

(* What a character does to the state of rfc_split. *)
LEMMA InWord ==
  ASSUME NEW words, NEW x, x \notin Separator
  PROVE  SplitStep(Split(words, FALSE, FALSE, FALSE), x) = Split(Extend(words, x), FALSE, FALSE, FALSE)
BY DEF SplitStep, Split, Separator

LEMMA AtGap ==
  ASSUME NEW words, NEW sp, NEW colon, NEW bar, Spelled(sp, colon, bar)
  PROVE  /\ SplitStep(Split(words, FALSE, FALSE, FALSE), sp) = Split(words, TRUE, FALSE, FALSE)
         /\ SplitStep(Split(words, FALSE, FALSE, FALSE), bar) = Split(words, TRUE, FALSE, FALSE)
BY DEF SplitStep, Split, Separator, Spelled

LEMMA AfterGap ==
  ASSUME NEW words, NEW sp, NEW colon, NEW bar, Spelled(sp, colon, bar), NEW x, x \notin Separator, x # colon
  PROVE  SplitStep(Split(words, TRUE, FALSE, FALSE), x) = Split(Append(words, <<x>>), FALSE, FALSE, FALSE)
BY DEF SplitStep, Split, Separator, Spelled

LEMMA AtColon ==
  ASSUME NEW words, NEW sp, NEW colon, NEW bar, Spelled(sp, colon, bar)
  PROVE  SplitStep(Split(words, TRUE, FALSE, FALSE), colon) = Split(Append(words, <<>>), FALSE, TRUE, FALSE)
BY DEF SplitStep, Split, Separator, Spelled

LEMMA InMarked ==
  ASSUME NEW words, NEW x, x # "|"
  PROVE  SplitStep(Split(words, FALSE, TRUE, FALSE), x) = Split(Extend(words, x), FALSE, TRUE, FALSE)
BY DEF SplitStep, Split, Separator

LEMMA AtEnd ==
  ASSUME NEW words, NEW sp, NEW colon, NEW bar, Spelled(sp, colon, bar)
  PROVE  SplitStep(Split(words, FALSE, TRUE, FALSE), bar) = Split(words, FALSE, TRUE, TRUE)
BY DEF SplitStep, Split, Separator, Spelled

LEMMA SentCharacters ==
  ASSUME NEW source, NEW token, NEW last, NEW marked, Sendable(source, token, last, marked),
         NEW sp, NEW colon, NEW bar, Spelled(sp, colon, bar)
  PROVE  /\ source # <<>> /\ token # <<>> /\ last # <<>>
         /\ \A k \in 1..Len(source) : source[k] \notin Separator
         /\ token[1] # colon /\ \A k \in 1..Len(token) : token[k] \notin Separator
         /\ ~ marked => last[1] # colon /\ \A k \in 1..Len(last) : last[k] \notin Separator
BY DEF Sendable, Spelled

LEMMA AppendWord ==
  ASSUME NEW S, NEW u \in S, NEW v \in S, NEW w \in S
  PROVE  Append(<<v>>, w) = <<v, w>> /\ Append(<<u, v>>, w) = <<u, v, w>>
<1>1. Append(<<v>>, w) = <<v, w>>
  <2>1. /\ Append(<<v>>, w) \in Seq(S) /\ <<v, w>> \in Seq(S)
        /\ Len(Append(<<v>>, w)) = 2 /\ Len(<<v, w>>) = 2
        /\ \A n \in 1..2 : Append(<<v>>, w)[n] = <<v, w>>[n]
    OBVIOUS
  <2> QED BY <2>1, SeqEqual
<1>2. Append(<<u, v>>, w) = <<u, v, w>>
  <2>1. /\ Append(<<u, v>>, w) \in Seq(S) /\ <<u, v, w>> \in Seq(S)
        /\ Len(Append(<<u, v>>, w)) = 3 /\ Len(<<u, v, w>>) = 3
        /\ \A n \in 1..3 : Append(<<u, v>>, w)[n] = <<u, v, w>>[n]
    OBVIOUS
  <2> QED BY <2>1, SeqEqual
<1> QED BY <1>1, <1>2

(* After, phase by phase. *)
InPhase(source, token, last, marked, k) ==
  LET a == Len(source)
      b == a + 1 + Len(token)
      c == IF marked THEN b + 2 ELSE b + 1
      d == c + Len(last)
      s == After(source, token, last, marked, k)
  IN /\ k \in 0..a => s = Split(<<SubSeq(source, 1, k)>>, FALSE, FALSE, FALSE)
     /\ k = a + 1 => s = Split(<<source>>, TRUE, FALSE, FALSE)
     /\ k \in (a + 2)..b => s = Split(<<source, SubSeq(token, 1, k - a - 1)>>, FALSE, FALSE, FALSE)
     /\ k = b + 1 => s = Split(<<source, token>>, TRUE, FALSE, FALSE)
     /\ k \in (b + 2)..d => s = Split(<<source, token, SubSeq(last, 1, k - c)>>, FALSE, marked, FALSE)
     /\ k = d + 1 => s = Split(<<source, token, last>>, ~ marked, marked, marked)

LEMMA Phases ==
  ASSUME NEW S, NEW source \in Seq(S), NEW token \in Seq(S), NEW last \in Seq(S), NEW marked \in BOOLEAN,
         source # <<>>, token # <<>>, last # <<>>,
         NEW k \in Nat
  PROVE  InPhase(source, token, last, marked, k)
<1> DEFINE a == Len(source)
           b == a + 1 + Len(token)
           c == IF marked THEN b + 2 ELSE b + 1
           d == c + Len(last)
           s == After(source, token, last, marked, k)
<1>1. a \in Nat \ {0} /\ Len(token) \in Nat \ {0} /\ Len(last) \in Nat \ {0}
  BY EmptySeq
<1>2. b \in Int /\ c \in Int /\ d \in Int /\ a + 2 <= b /\ b + 2 <= d /\ b + 1 <= c
  BY <1>1
<1>3. s = IF k <= a THEN Split(<<SubSeq(source, 1, k)>>, FALSE, FALSE, FALSE)
          ELSE IF k = a + 1 THEN Split(<<source>>, TRUE, FALSE, FALSE)
          ELSE IF k <= b THEN Split(<<source, SubSeq(token, 1, k - a - 1)>>, FALSE, FALSE, FALSE)
          ELSE IF k = b + 1 THEN Split(<<source, token>>, TRUE, FALSE, FALSE)
          ELSE IF k <= d THEN Split(<<source, token, SubSeq(last, 1, k - c)>>, FALSE, marked, FALSE)
          ELSE Split(<<source, token, last>>, ~ marked, marked, marked)
  BY DEF After
<1> HIDE DEF a, b, c, d, s
<1>4. k \in 0..a => s = Split(<<SubSeq(source, 1, k)>>, FALSE, FALSE, FALSE)
  <2> SUFFICES ASSUME k \in 0..a PROVE s = Split(<<SubSeq(source, 1, k)>>, FALSE, FALSE, FALSE)
    OBVIOUS
  <2>1. k <= a
    BY <1>1
  <2> QED BY <1>3, <2>1
<1>5. k = a + 1 => s = Split(<<source>>, TRUE, FALSE, FALSE)
  <2> SUFFICES ASSUME k = a + 1 PROVE s = Split(<<source>>, TRUE, FALSE, FALSE)
    OBVIOUS
  <2>1. ~ k <= a
    BY <1>1
  <2> QED BY <1>3, <2>1
<1>6. k \in (a + 2)..b => s = Split(<<source, SubSeq(token, 1, k - a - 1)>>, FALSE, FALSE, FALSE)
  <2> SUFFICES ASSUME k \in (a + 2)..b
               PROVE  s = Split(<<source, SubSeq(token, 1, k - a - 1)>>, FALSE, FALSE, FALSE)
    OBVIOUS
  <2>1. ~ k <= a /\ k # a + 1 /\ k <= b
    BY <1>1, <1>2
  <2> QED BY <1>3, <2>1
<1>7. k = b + 1 => s = Split(<<source, token>>, TRUE, FALSE, FALSE)
  <2> SUFFICES ASSUME k = b + 1 PROVE s = Split(<<source, token>>, TRUE, FALSE, FALSE)
    OBVIOUS
  <2>1. ~ k <= a /\ k # a + 1 /\ ~ k <= b
    BY <1>1, <1>2
  <2> QED BY <1>3, <2>1
<1>8. k \in (b + 2)..d => s = Split(<<source, token, SubSeq(last, 1, k - c)>>, FALSE, marked, FALSE)
  <2> SUFFICES ASSUME k \in (b + 2)..d
               PROVE  s = Split(<<source, token, SubSeq(last, 1, k - c)>>, FALSE, marked, FALSE)
    OBVIOUS
  <2>1. ~ k <= a /\ k # a + 1 /\ ~ k <= b /\ k # b + 1 /\ k <= d
    BY <1>1, <1>2
  <2> QED BY <1>3, <2>1
<1>9. k = d + 1 => s = Split(<<source, token, last>>, ~ marked, marked, marked)
  <2> SUFFICES ASSUME k = d + 1 PROVE s = Split(<<source, token, last>>, ~ marked, marked, marked)
    OBVIOUS
  <2>1. ~ k <= a /\ k # a + 1 /\ ~ k <= b /\ k # b + 1 /\ ~ k <= d
    BY <1>1, <1>2
  <2> QED BY <1>3, <2>1
<1> QED BY <1>4, <1>5, <1>6, <1>7, <1>8, <1>9 DEF InPhase, a, b, c, d, s

LEMMA NextCharacter ==
  ASSUME NEW T, NEW sp \in T, NEW colon \in T, NEW bar \in T, Spelled(sp, colon, bar),
         NEW source \in Seq(T), NEW token \in Seq(T), NEW last \in Seq(T), NEW marked \in BOOLEAN,
         Sendable(source, token, last, marked),
         NEW k \in 1..Len(LineOf(source, token, last, marked, sp, colon, bar))
  PROVE  SplitStep(After(source, token, last, marked, k - 1),
                   LineOf(source, token, last, marked, sp, colon, bar)[k])
         = After(source, token, last, marked, k)
<1> DEFINE a == Len(source)
           b == a + 1 + Len(token)
           c == IF marked THEN b + 2 ELSE b + 1
           d == c + Len(last)
           line == LineOf(source, token, last, marked, sp, colon, bar)
           was == After(source, token, last, marked, k - 1)
           is == After(source, token, last, marked, k)
<1>0. source # <<>> /\ token # <<>> /\ last # <<>>
  BY SentCharacters
<1>1. a \in Nat \ {0} /\ Len(token) \in Nat \ {0} /\ Len(last) \in Nat \ {0}
  BY <1>0, EmptySeq
<1>2. b \in Int /\ c \in Int /\ d \in Int /\ a + 2 <= b /\ b + 2 <= d /\ b + 1 <= c
  BY <1>1
<1>3. /\ Len(line) = d + 1
      /\ \A j \in 1..a : line[j] = source[j]
      /\ line[a + 1] = sp /\ line[b + 1] = sp /\ line[d + 1] = bar
      /\ \A j \in (a + 2)..b : line[j] = token[j - a - 1]
      /\ marked => line[b + 2] = colon
      /\ \A j \in (c + 1)..d : line[j] = last[j - c]
  <2>1. Layout(source, token, last, marked, sp, colon, bar)
    BY CharactersOf
  <2> QED BY <2>1 DEF Layout
<1>4. k \in 1..(d + 1) /\ k \in Nat /\ k - 1 \in Nat
  BY <1>3
<1>5. /\ k - 1 \in 0..a => was = Split(<<SubSeq(source, 1, k - 1)>>, FALSE, FALSE, FALSE)
      /\ k - 1 = a + 1 => was = Split(<<source>>, TRUE, FALSE, FALSE)
      /\ k - 1 \in (a + 2)..b => was = Split(<<source, SubSeq(token, 1, k - 1 - a - 1)>>, FALSE, FALSE, FALSE)
      /\ k - 1 = b + 1 => was = Split(<<source, token>>, TRUE, FALSE, FALSE)
      /\ k - 1 \in (b + 2)..d => was = Split(<<source, token, SubSeq(last, 1, k - 1 - c)>>, FALSE, marked, FALSE)
  <2>1. InPhase(source, token, last, marked, k - 1)
    BY <1>0, <1>4, Phases
  <2> QED BY <2>1 DEF InPhase
<1>6. /\ k \in 0..a => is = Split(<<SubSeq(source, 1, k)>>, FALSE, FALSE, FALSE)
      /\ k = a + 1 => is = Split(<<source>>, TRUE, FALSE, FALSE)
      /\ k \in (a + 2)..b => is = Split(<<source, SubSeq(token, 1, k - a - 1)>>, FALSE, FALSE, FALSE)
      /\ k = b + 1 => is = Split(<<source, token>>, TRUE, FALSE, FALSE)
      /\ k \in (b + 2)..d => is = Split(<<source, token, SubSeq(last, 1, k - c)>>, FALSE, marked, FALSE)
      /\ k = d + 1 => is = Split(<<source, token, last>>, ~ marked, marked, marked)
  <2>1. InPhase(source, token, last, marked, k)
    BY <1>0, <1>4, Phases
  <2> QED BY <2>1 DEF InPhase
<1> HIDE DEF a, b, c, d, line, was, is
<1>8. SUFFICES SplitStep(was, line[k]) = is
  BY DEF line, was, is
<1>9. CASE k \in 1..a
  <2>1. k - 1 \in 0..a /\ k \in 0..a /\ k - 1 \in 0..(Len(source) - 1) /\ (k - 1) + 1 = k /\ k \in 1..Len(source)
    BY <1>1, <1>9 DEF a
  <2>2. /\ was = Split(<<SubSeq(source, 1, k - 1)>>, FALSE, FALSE, FALSE)
        /\ is = Split(<<SubSeq(source, 1, k)>>, FALSE, FALSE, FALSE) /\ line[k] = source[k]
    BY <1>3, <1>5, <1>6, <1>9, <2>1
  <2>3. source[k] \notin Separator
    BY <2>1, SentCharacters
  <2>4. SubSeq(source, 1, k) = Append(SubSeq(source, 1, k - 1), source[k])
    <3>1. SubSeq(source, 1, (k - 1) + 1) = Append(SubSeq(source, 1, k - 1), source[(k - 1) + 1])
      BY <2>1, OneMore
    <3> QED BY <2>1, <3>1
  <2>5. SplitStep(Split(<<SubSeq(source, 1, k - 1)>>, FALSE, FALSE, FALSE), source[k]) = Split(Extend(<<SubSeq(source, 1, k - 1)>>, source[k]), FALSE, FALSE, FALSE)
    BY <2>3, InWord
  <2>6. Extend(<<SubSeq(source, 1, k - 1)>>, source[k]) = <<Append(SubSeq(source, 1, k - 1), source[k])>>
    BY ExtendOne
  <2> QED BY <2>2, <2>4, <2>5, <2>6
<1>10. CASE k = a + 1
  <2>1. k - 1 \in 0..a /\ k - 1 = a
    BY <1>1, <1>10
  <2>2. was = Split(<<SubSeq(source, 1, k - 1)>>, FALSE, FALSE, FALSE) /\ SubSeq(source, 1, a) = source
    BY <1>5, <2>1, WholeWord DEF a
  <2>3. was = Split(<<source>>, FALSE, FALSE, FALSE)
    BY <2>1, <2>2
  <2> QED BY <1>3, <1>6, <1>10, <2>3, AtGap
<1>11. CASE k = a + 2
  <2>1. k - 1 = a + 1 /\ k \in (a + 2)..b /\ k - a - 1 = 1 /\ 1 \in 1..Len(token)
    BY <1>1, <1>2, <1>11
  <2>2. /\ was = Split(<<source>>, TRUE, FALSE, FALSE)
        /\ is = Split(<<source, SubSeq(token, 1, k - a - 1)>>, FALSE, FALSE, FALSE)
        /\ line[k] = token[k - a - 1]
    BY <1>3, <1>5, <1>6, <2>1
  <2>3. is = Split(<<source, <<token[1]>> >>, FALSE, FALSE, FALSE) /\ line[k] = token[1]
    BY <1>0, <2>1, <2>2, WholeWord
  <2>4. token[1] \notin Separator /\ token[1] # colon /\ <<token[1]>> \in Seq(T)
    BY <2>1, SentCharacters
  <2>5. Append(<<source>>, <<token[1]>>) = <<source, <<token[1]>> >>
    BY <2>4, AppendWord
  <2>6. SplitStep(Split(<<source>>, TRUE, FALSE, FALSE), token[1])
        = Split(Append(<<source>>, <<token[1]>>), FALSE, FALSE, FALSE)
    BY <2>4, AfterGap
  <2> QED BY <2>2, <2>3, <2>5, <2>6
<1>12. CASE k \in (a + 3)..b
  <2>1. /\ k - 1 \in (a + 2)..b /\ k \in (a + 2)..b
        /\ k - 1 - a - 1 \in 0..(Len(token) - 1) /\ (k - 1 - a - 1) + 1 = k - a - 1
        /\ k - a - 1 \in 1..Len(token)
    BY <1>1, <1>12 DEF b
  <2>2. /\ was = Split(<<source, SubSeq(token, 1, k - 1 - a - 1)>>, FALSE, FALSE, FALSE)
        /\ is = Split(<<source, SubSeq(token, 1, k - a - 1)>>, FALSE, FALSE, FALSE)
        /\ line[k] = token[k - a - 1]
    BY <1>3, <1>5, <1>6, <2>1
  <2>3. token[k - a - 1] \notin Separator
    BY <2>1, SentCharacters
  <2>4. SubSeq(token, 1, k - a - 1) = Append(SubSeq(token, 1, k - 1 - a - 1), token[k - a - 1])
    <3>1. SubSeq(token, 1, (k - 1 - a - 1) + 1)
          = Append(SubSeq(token, 1, k - 1 - a - 1), token[(k - 1 - a - 1) + 1])
      BY <2>1, OneMore
    <3> QED BY <2>1, <3>1
  <2>5. SplitStep(Split(<<source, SubSeq(token, 1, k - 1 - a - 1)>>, FALSE, FALSE, FALSE), token[k - a - 1]) = Split(Extend(<<source, SubSeq(token, 1, k - 1 - a - 1)>>, token[k - a - 1]), FALSE, FALSE, FALSE)
    BY <2>3, InWord
  <2>6. Extend(<<source, SubSeq(token, 1, k - 1 - a - 1)>>, token[k - a - 1]) = <<source, Append(SubSeq(token, 1, k - 1 - a - 1), token[k - a - 1])>>
    BY ExtendTwo
  <2> QED BY <2>2, <2>4, <2>5, <2>6
<1>13. CASE k = b + 1
  <2>1. k - 1 \in (a + 2)..b /\ k - 1 - a - 1 = Len(token)
    BY <1>1, <1>2, <1>13 DEF b
  <2>2. /\ was = Split(<<source, SubSeq(token, 1, k - 1 - a - 1)>>, FALSE, FALSE, FALSE)
        /\ SubSeq(token, 1, Len(token)) = token
    BY <1>5, <2>1, WholeWord
  <2>3. was = Split(<<source, token>>, FALSE, FALSE, FALSE)
    BY <2>1, <2>2
  <2> QED BY <1>3, <1>6, <1>13, <2>3, AtGap
<1>14. CASE marked /\ k = b + 2
  <2>1. k - 1 = b + 1 /\ k \in (b + 2)..d /\ k - c = 0 /\ c = b + 2
    BY <1>2, <1>14 DEF c
  <2>2. /\ was = Split(<<source, token>>, TRUE, FALSE, FALSE)
        /\ is = Split(<<source, token, SubSeq(last, 1, k - c)>>, FALSE, marked, FALSE)
        /\ line[k] = colon /\ marked = TRUE
    BY <1>3, <1>5, <1>6, <1>14, <2>1
  <2>3. SubSeq(last, 1, k - c) = <<>> /\ <<>> \in Seq(T)
    BY <2>1, WholeWord
  <2>4. Append(<<source, token>>, <<>>) = <<source, token, <<>> >>
    BY <2>3, AppendWord
  <2> QED BY <2>2, <2>3, <2>4, AtColon
<1>15. CASE ~ marked /\ k = b + 2
  <2>1. k - 1 = b + 1 /\ k \in (b + 2)..d /\ k - c = 1 /\ k \in (c + 1)..d /\ 1 \in 1..Len(last)
    BY <1>1, <1>2, <1>15 DEF c
  <2>2. /\ was = Split(<<source, token>>, TRUE, FALSE, FALSE)
        /\ is = Split(<<source, token, SubSeq(last, 1, k - c)>>, FALSE, marked, FALSE)
        /\ line[k] = last[k - c] /\ marked = FALSE
    BY <1>3, <1>5, <1>6, <1>15, <2>1
  <2>3. is = Split(<<source, token, <<last[1]>> >>, FALSE, FALSE, FALSE) /\ line[k] = last[1]
    BY <1>0, <2>1, <2>2, WholeWord
  <2>4. last[1] \notin Separator /\ last[1] # colon /\ <<last[1]>> \in Seq(T)
    BY <1>15, <2>1, SentCharacters
  <2>5. Append(<<source, token>>, <<last[1]>>) = <<source, token, <<last[1]>> >>
    BY <2>4, AppendWord
  <2>6. SplitStep(Split(<<source, token>>, TRUE, FALSE, FALSE), last[1])
        = Split(Append(<<source, token>>, <<last[1]>>), FALSE, FALSE, FALSE)
    BY <2>4, AfterGap
  <2> QED BY <2>2, <2>3, <2>5, <2>6
<1>16. CASE k \in (c + 1)..d /\ k # b + 2
  <2>1. /\ k - 1 \in (b + 2)..d /\ k \in (b + 2)..d
        /\ k - 1 - c \in 0..(Len(last) - 1) /\ (k - 1 - c) + 1 = k - c /\ k - c \in 1..Len(last)
    BY <1>1, <1>2, <1>16 DEF d
  <2>2. /\ was = Split(<<source, token, SubSeq(last, 1, k - 1 - c)>>, FALSE, marked, FALSE)
        /\ is = Split(<<source, token, SubSeq(last, 1, k - c)>>, FALSE, marked, FALSE)
        /\ line[k] = last[k - c]
    BY <1>3, <1>5, <1>6, <1>16, <2>1
  <2>3. SubSeq(last, 1, k - c) = Append(SubSeq(last, 1, k - 1 - c), last[k - c])
    <3>1. SubSeq(last, 1, (k - 1 - c) + 1) = Append(SubSeq(last, 1, k - 1 - c), last[(k - 1 - c) + 1])
      BY <2>1, OneMore
    <3> QED BY <2>1, <3>1
  <2>4. last[k - c] # "|" /\ (~ marked => last[k - c] \notin Separator)
    BY <2>1, SentCharacters DEF Sendable
  <2> DEFINE done == SubSeq(last, 1, k - 1 - c)
             x == last[k - c]
             words == <<source, token, done>>
  <2>5. Extend(words, x) = <<source, token, Append(done, x)>>
    <3> HIDE DEF done, x
    <3> QED BY ExtendThree
  <2>6. x # "|" /\ (~ marked => x \notin Separator)
    BY <2>4
  <2> HIDE DEF x, words
  <2>7. SplitStep(Split(words, FALSE, marked, FALSE), x) = Split(Extend(words, x), FALSE, marked, FALSE)
    <3>1. CASE marked = TRUE
      <4>1. SplitStep(Split(words, FALSE, TRUE, FALSE), x) = Split(Extend(words, x), FALSE, TRUE, FALSE)
        BY <2>6, InMarked
      <4> QED BY <3>1, <4>1
    <3>2. CASE marked = FALSE
      <4>1. SplitStep(Split(words, FALSE, FALSE, FALSE), x) = Split(Extend(words, x), FALSE, FALSE, FALSE)
        BY <2>6, <3>2, InWord
      <4> QED BY <3>2, <4>1
    <3> QED BY <3>1, <3>2
  <2> QED BY <2>2, <2>3, <2>5, <2>7 DEF x, words
<1>17. CASE k = d + 1
  <2>1. k - 1 \in (b + 2)..d /\ k - 1 - c = Len(last)
    BY <1>1, <1>2, <1>17 DEF d
  <2>2. /\ was = Split(<<source, token, SubSeq(last, 1, k - 1 - c)>>, FALSE, marked, FALSE)
        /\ SubSeq(last, 1, Len(last)) = last
        /\ is = Split(<<source, token, last>>, ~ marked, marked, marked) /\ line[k] = bar
    BY <1>3, <1>5, <1>6, <1>17, <2>1, WholeWord
  <2>3. was = Split(<<source, token, last>>, FALSE, marked, FALSE)
    BY <2>1, <2>2
  <2>4. SplitStep(Split(<<source, token, last>>, FALSE, marked, FALSE), bar)
        = Split(<<source, token, last>>, ~ marked, marked, marked)
    <3>1. CASE marked = TRUE
      <4>1. SplitStep(Split(<<source, token, last>>, FALSE, TRUE, FALSE), bar)
            = Split(<<source, token, last>>, FALSE, TRUE, TRUE)
        BY AtEnd
      <4>2. (~ marked) = FALSE
        BY <3>1
      <4> QED BY <3>1, <4>1, <4>2
    <3>2. CASE marked = FALSE
      <4>1. SplitStep(Split(<<source, token, last>>, FALSE, FALSE, FALSE), bar)
            = Split(<<source, token, last>>, TRUE, FALSE, FALSE)
        BY AtGap
      <4>2. (~ marked) = TRUE
        BY <3>2
      <4> QED BY <3>2, <4>1, <4>2
    <3> QED BY <3>1, <3>2
  <2> QED BY <2>2, <2>3, <2>4
<1>18. \/ k \in 1..a \/ k = a + 1 \/ k = a + 2 \/ k \in (a + 3)..b \/ k = b + 1
       \/ k = b + 2 \/ (k \in (c + 1)..d /\ k # b + 2) \/ k = d + 1
  <2>1. c = b + 1 \/ c = b + 2
    BY DEF c
  <2> QED BY <1>1, <1>2, <1>4, <2>1
<1> QED BY <1>9, <1>10, <1>11, <1>12, <1>13, <1>14, <1>15, <1>16, <1>17, <1>18

(* The whole line. *)
LEMMA WholeLine ==
  ASSUME NEW T, NEW sp \in T, NEW colon \in T, NEW bar \in T, Spelled(sp, colon, bar),
         NEW source \in Seq(T), NEW token \in Seq(T), NEW last \in Seq(T), NEW marked \in BOOLEAN,
         Sendable(source, token, last, marked)
  PROVE  LET line == LineOf(source, token, last, marked, sp, colon, bar)
         IN FoldLeft(SplitStep, Split(<< <<>> >>, FALSE, FALSE, FALSE), line)
            = Split(<<source, token, last>>, ~ marked, marked, marked)
<1> DEFINE line == LineOf(source, token, last, marked, sp, colon, bar)
           env == <<source, token, last, marked>>
           start == Split(<< <<>> >>, FALSE, FALSE, FALSE)
           n == Len(source) + 1 + Len(token) + (IF marked THEN 2 ELSE 1) + Len(last) + 1
<1>1. /\ env[1] = source /\ env[2] = token /\ env[3] = last /\ env[4] = marked
      /\ source # <<>> /\ token # <<>> /\ last # <<>> /\ n \in Nat
  BY SentCharacters
<1>2. Len(line) = n /\ DOMAIN line = 1..n
  <2>1. Layout(source, token, last, marked, sp, colon, bar)
    BY CharactersOf
  <2> QED BY <2>1 DEF Layout
<1>3. Splits(env, 0, start)
  <2>1. InPhase(source, token, last, marked, 0)
    BY <1>1, Phases
  <2>2. 0 \in 0..Len(source) /\ SubSeq(source, 1, 0) = <<>>
    BY WholeWord
  <2>3. After(source, token, last, marked, 0) = start
    BY <2>1, <2>2 DEF InPhase
  <2> HIDE DEF env, start
  <2> QED BY <1>1, <2>3 DEF Splits
<1>4. ASSUME NEW k \in 1..n, NEW s, Splits(env, k - 1, s)
      PROVE  Splits(env, k, SplitAt(env, s, line[k]))
  <2>1. k \in 1..Len(LineOf(source, token, last, marked, sp, colon, bar))
    BY <1>2
  <2>2. SplitStep(After(source, token, last, marked, k - 1), line[k]) = After(source, token, last, marked, k)
    BY <2>1, NextCharacter
  <2> HIDE DEF env, line
  <2> QED BY <1>1, <1>4, <2>2 DEF Splits, SplitAt
<1>5. Splits(env, n, Splitting!Folded(env, start, line))
  <2> HIDE DEF env, line, start, n
  <2> QED BY <1>1, <1>2, <1>3, <1>4, Splitting!FoldKeeps
<1>6. FoldLeft(SplitStep, start, line) = Splitting!Folded(env, start, line)
  <2> HIDE DEF env, line, start
  <2> QED BY DEF FoldLeft, MapThenFoldSet, Max, SplitAt, Splitting!Folded, Splitting!IsFold, Splitting!Largest
<1>7. After(source, token, last, marked, n) = Split(<<source, token, last>>, ~ marked, marked, marked)
  <2>1. InPhase(source, token, last, marked, n)
    BY <1>1, Phases
  <2> QED BY <1>1, <2>1 DEF InPhase
<1> HIDE DEF env, n
<1> QED BY <1>1, <1>5, <1>6, <1>7 DEF Splits

LEMMA TakenApart ==
  ASSUME NEW T, NEW sp \in T, NEW colon \in T, NEW bar \in T, Spelled(sp, colon, bar),
         NEW source \in Seq(T), NEW token \in Seq(T), NEW last \in Seq(T), NEW marked \in BOOLEAN,
         Sendable(source, token, last, marked), NEW behind
  PROVE  RfcSplit(LineOf(source, token, last, marked, sp, colon, bar), behind)
         = IF behind = <<>> \/ marked THEN <<source, token, last>> ELSE Append(<<source, token, last>>, behind)
<1> DEFINE line == LineOf(source, token, last, marked, sp, colon, bar)
           s == Split(<<source, token, last>>, ~ marked, marked, marked)
<1>1. line # <<>> /\ Head(line) # ":"
  <2>1. Layout(source, token, last, marked, sp, colon, bar)
    BY CharactersOf
  <2>2. source # <<>> /\ source[1] # ":"
    BY DEF Sendable
  <2>3. 1 \in 1..Len(source) /\ Len(token) \in Nat /\ Len(last) \in Nat
    BY <2>2, EmptySeq
  <2>4. Len(line) # 0 /\ line[1] = source[1]
    BY <2>1, <2>3 DEF Layout
  <2> HIDE DEF line
  <2> QED BY <2>2, <2>4
<1>2. FoldLeft(SplitStep, [words |-> << <<>> >>, gap |-> FALSE, tail |-> FALSE, cut |-> FALSE], line) = s
  BY WholeLine DEF Split
<1>3. /\ s.words = <<source, token, last>> /\ s.gap = ~ marked /\ s.tail = marked
      /\ Last(s.words) = last /\ last # <<>>
  BY SentCharacters DEF Split, Last
<1> HIDE DEF line, s
<1>4. CASE behind = <<>> \/ marked
  <2>1. RfcSplit(line, behind) = s.words
    BY <1>1, <1>2, <1>3, <1>4 DEF RfcSplit
  <2> QED BY <1>3, <1>4, <2>1 DEF line
<1>5. CASE behind # <<>> /\ ~ marked
  <2>1. RfcSplit(line, behind) = Append(s.words, behind)
    BY <1>1, <1>2, <1>3, <1>5 DEF RfcSplit
  <2> QED BY <1>3, <1>5, <2>1 DEF line
<1> QED BY <1>4, <1>5

(* rfc_join, two words and the last. *)
Spaced(line, w) == line \o w \o <<" ">>
JoinAt(env, line, w) == Spaced(line, w)
Joins(env, k, line) ==
  line = IF k = 0 THEN <<>>
         ELSE IF k = 1 THEN Spaced(<<>>, env[1]) ELSE Spaced(Spaced(<<>>, env[1]), env[2])

Joining == INSTANCE FoldFacts WITH Step <- JoinAt, Good <- Joins

LEMMA PutTogether ==
  ASSUME NEW T, NEW source \in Seq(T), NEW token \in Seq(T), NEW last \in Seq(T)
  PROVE  RfcJoin(<<source, token, last>>)
         = LineOf(source, token, last, NeedsColon(last), " ", ":", "|")
<1> DEFINE ws == <<source, token, last>>
           env == <<source, token>>
           joined == source \o <<" ">> \o token \o <<" ">>
<1>1. /\ Last(ws) = last /\ Len(env) = 2 /\ DOMAIN env = 1..2
      /\ env[1] = source /\ env[2] = token
  BY DEF Last
<1>2. Front(ws) = env
  <2>1. /\ Front(ws) \in Seq(Seq(T)) /\ env \in Seq(Seq(T))
        /\ Len(Front(ws)) = 2 /\ Len(env) = 2 /\ \A k \in 1..2 : Front(ws)[k] = env[k]
    BY DEF Front
  <2> QED BY <2>1, SeqEqual
<1>3. Joins(env, 0, <<>>)
  BY DEF Joins
<1>4. ASSUME NEW k \in 1..2, NEW line, Joins(env, k - 1, line)
      PROVE  Joins(env, k, JoinAt(env, line, env[k]))
  <2> HIDE DEF env
  <2>1. CASE k = 1
    BY <1>4, <2>1 DEF Joins, JoinAt
  <2>2. CASE k = 2
    BY <1>4, <2>2 DEF Joins, JoinAt
  <2> QED BY <2>1, <2>2
<1>5. Joins(env, 2, Joining!Folded(env, <<>>, env))
  <2> HIDE DEF env
  <2> QED BY <1>1, <1>3, <1>4, Joining!FoldKeeps
<1>6. Joining!Folded(env, <<>>, env) = joined
  <2>1. <<>> \o source = source
    BY ConcatEmptySeq
  <2>2. Spaced(Spaced(<<>>, source), token) = joined
    BY <2>1 DEF Spaced
  <2> HIDE DEF env, joined
  <2> QED BY <1>1, <1>5, <2>2 DEF Joins
<1>7. FoldLeft(LAMBDA line, w : line \o w \o <<" ">>, <<>>, env) = Joining!Folded(env, <<>>, env)
  <2> HIDE DEF env
  <2> QED BY DEF FoldLeft, MapThenFoldSet, Max, JoinAt, Spaced, Joining!Folded, Joining!IsFold, Joining!Largest
<1>8. RfcJoin(ws) = joined \o (IF NeedsColon(last) THEN <<":">> \o last ELSE last) \o <<"|">>
  <2> HIDE DEF ws, env, joined
  <2> QED BY <1>1, <1>2, <1>6, <1>7 DEF RfcJoin
<1> QED BY <1>8 DEF LineOf

LEMMA TextIsText ==
  ASSUME NEW w \in Text
  PROVE  /\ w \in Seq(Char \cup {" ", ":", "|"}) /\ Len(w) \in Nat \ {0} /\ w # <<>>
         /\ \A k \in 1..Len(w) : w[k] # "|"
<1>1. PICK n \in 1..MaxWord : w \in [1..n -> Char \ {"|"}]
  BY DEF Text
<1>2. n \in Nat \ {0}
  OBVIOUS
<1>3. DOMAIN w = 1..n /\ \A k \in 1..n : w[k] \in Char \cup {" ", ":", "|"} /\ w[k] # "|"
  BY <1>1
<1> DEFINE T == Char \cup {" ", ":", "|"}
<1>4. w \in [1..n -> T]
  BY <1>1
<1> HIDE DEF T
<1>5. w \in Seq(T) /\ Len(w) = n
  BY <1>2, <1>4
<1>6. w # <<>>
  BY <1>2, <1>5, EmptySeq
<1> QED BY <1>2, <1>3, <1>5, <1>6 DEF T

LEMMA FirstIsHead == ASSUME NEW w \in Text PROVE Head(w) = w[1]
<1> DEFINE T == Char \cup {" ", ":", "|"}
<1>1. w \in Seq(T) /\ w # <<>>
  BY TextIsText
<1> HIDE DEF T
<1> QED BY <1>1

LEMMA PlainIsSendable ==
  ASSUME NEW source \in Plain, NEW token \in Plain, NEW last \in Text
  PROVE  Sendable(source, token, last, NeedsColon(last))
<1>1. ASSUME NEW w \in Plain
      PROVE  w # <<>> /\ w[1] # ":" /\ \A k \in 1..Len(w) : w[k] \notin Separator
  <2>1. w \in Text /\ Head(w) # ":" /\ \A k \in 1..Len(w) : w[k] # " "
    BY DEF Plain
  <2>2. w # <<>> /\ \A k \in 1..Len(w) : w[k] # "|"
    BY <2>1, TextIsText
  <2>3. Head(w) = w[1]
    BY <2>1, FirstIsHead
  <2> QED BY <2>1, <2>2, <2>3 DEF Separator
<1>2. last # <<>> /\ \A k \in 1..Len(last) : last[k] # "|"
  BY TextIsText
<1>3. ASSUME ~ NeedsColon(last)
      PROVE  last[1] # ":" /\ \A k \in 1..Len(last) : last[k] \notin Separator
  <2>1. Head(last) # ":" /\ \A k \in 1..Len(last) : last[k] # " "
    BY <1>2, <1>3 DEF NeedsColon
  <2>2. Head(last) = last[1]
    BY FirstIsHead
  <2> QED BY <1>2, <2>1, <2>2 DEF Separator
<1> QED BY <1>1, <1>2, <1>3 DEF Sendable

(* What the program sends comes back to its own handlers word for word, if *)
(* no word is empty and only the last has spaces or a ':' in front, with   *)
(* words of any characters and, as the model has no buffer, any length:    *)
(* rfc_join marks the last word when rfc_split would not leave it as it is. *)
(* What lies behind the line can only become one more word.                *)
THEOREM WordsComeBack == ComesBack
<1> DEFINE T == Char \cup {" ", ":", "|"}
           sp == " "
           colon == ":"
           bar == "|"
<1> SUFFICES ASSUME NEW source \in Plain, NEW token \in Plain, NEW last \in Text,
                    NEW behind \in {<<>>} \cup Plain
             PROVE  send_words(<<source, token, last>>, behind)
                    = IF behind = <<>> \/ NeedsColon(last) THEN <<source, token, last>>
                      ELSE Append(<<source, token, last>>, behind)
  BY DEF ComesBack
<1>1. source \in Seq(T) /\ token \in Seq(T) /\ last \in Seq(T)
  BY TextIsText DEF Plain
<1>2. sp \in T /\ colon \in T /\ bar \in T /\ Spelled(sp, colon, bar)
  BY DEF Spelled
<1>3. NeedsColon(last) \in BOOLEAN
  BY DEF NeedsColon
<1>4. Sendable(source, token, last, NeedsColon(last))
  BY PlainIsSendable
<1>5. RfcJoin(<<source, token, last>>) = LineOf(source, token, last, NeedsColon(last), sp, colon, bar)
  <2> HIDE DEF T
  <2> QED BY <1>1, PutTogether
<1> HIDE DEF T, sp, colon, bar
<1>6. RfcSplit(LineOf(source, token, last, NeedsColon(last), sp, colon, bar), behind)
      = IF behind = <<>> \/ NeedsColon(last) THEN <<source, token, last>>
        ELSE Append(<<source, token, last>>, behind)
  BY <1>1, <1>2, <1>3, <1>4, TakenApart
<1> QED BY <1>5, <1>6 DEF send_words

-----------------------------------------------------------------------------
(* Reading in chunks.  The state of net_read in the middle of a text is    *)
(* compared with that of reading the text at once, whole[p] after p        *)
(* characters: only gap and empty lines may differ.                        *)
Reader(T) == [lines : Seq(Seq(T)), text : Seq(T), gap : BOOLEAN, eof : BOOLEAN]

Abreast(T, text, p, s, w) ==
  /\ s \in Reader(T) /\ w \in Reader(T)
  /\ s.text = w.text /\ Filled(s.lines) = Filled(w.lines)
  /\ s.gap \/ w.gap => s.text = <<>>
  /\ Len(s.text) <= p
  /\ \A q \in (p - Len(s.text) + 1)..p : text[q] # "|"

LineAt(env, s, c) == LineStep(s, c)
ReadsOn(env, k, s) ==
  /\ Abreast(env.chars, env.text, env.from + k, s, env.whole[env.from + k])
  /\ s.eof = env.eof
Reading == INSTANCE FoldFacts WITH Step <- LineAt, Good <- ReadsOn

KeepAt(env, kept, line) == IF line = <<>> THEN kept ELSE Append(kept, line)
Anything(env, k, kept) == TRUE
Keeping == INSTANCE FoldFacts WITH Step <- KeepAt, Good <- Anything

LEMMA FilledIsFold == ASSUME NEW lines PROVE Filled(lines) = Keeping!Folded(0, <<>>, lines)
BY DEF Filled, FoldLeft, MapThenFoldSet, Max, KeepAt, Keeping!Folded, Keeping!IsFold, Keeping!Largest

LEMMA FilledOneMore ==
  ASSUME NEW T, NEW lines \in Seq(Seq(T)), NEW line \in Seq(T)
  PROVE  Filled(Append(lines, line)) = IF line = <<>> THEN Filled(lines) ELSE Append(Filled(lines), line)
<1>1. Keeping!Folded(0, <<>>, Append(lines, line)) = KeepAt(0, Keeping!Folded(0, <<>>, lines), line)
  BY Keeping!FoldOfAppend
<1> QED BY <1>1, FilledIsFold DEF KeepAt

(* A terminator. *)
LEMMA AtBar ==
  ASSUME NEW s
  PROVE  LineStep(s, "|") = IF s.gap THEN s
                            ELSE [s EXCEPT !.lines = Append(@, s.text), !.text = <<>>, !.gap = TRUE]
BY DEF LineStep

LEMMA BarIsRead ==
  ASSUME NEW T, NEW s \in Reader(T), s.gap => s.text = <<>>
  PROVE  LET t == LineStep(s, "|")
         IN /\ t \in Reader(T) /\ t.text = <<>> /\ t.eof = s.eof
            /\ Filled(t.lines) = IF s.text = <<>> THEN Filled(s.lines) ELSE Append(Filled(s.lines), s.text)
<1>1. s.lines \in Seq(Seq(T)) /\ s.text \in Seq(T) /\ <<>> \in Seq(T)
  BY DEF Reader
<1>2. CASE s.gap
  BY <1>2, AtBar
<1>3. CASE ~ s.gap
  <2> DEFINE t == [s EXCEPT !.lines = Append(@, s.text), !.text = <<>>, !.gap = TRUE]
  <2>1. LineStep(s, "|") = t
    BY <1>3, AtBar
  <2>2. Append(s.lines, s.text) \in Seq(Seq(T))
    BY <1>1
  <2>3. t.lines = Append(s.lines, s.text) /\ t.text = <<>> /\ t.eof = s.eof /\ t \in Reader(T)
    BY <1>1, <2>2 DEF Reader
  <2>4. Filled(Append(s.lines, s.text))
        = IF s.text = <<>> THEN Filled(s.lines) ELSE Append(Filled(s.lines), s.text)
    BY <1>1, FilledOneMore
  <2> HIDE DEF t
  <2> QED BY <2>1, <2>3, <2>4
<1> QED BY <1>2, <1>3

LEMMA CharIsRead ==
  ASSUME NEW T, NEW s \in Reader(T), NEW c \in T, c # "|"
  PROVE  LET t == LineStep(s, c)
         IN /\ t \in Reader(T) /\ t.text = Append(s.text, c) /\ t.eof = s.eof
            /\ t.lines = s.lines /\ t.gap = FALSE
<1>1. LineStep(s, c) = [s EXCEPT !.text = Append(@, c), !.gap = FALSE]
  BY DEF LineStep
<1>2. Append(s.text, c) \in Seq(T)
  BY DEF Reader
<1> QED BY <1>1, <1>2 DEF Reader

LEMMA StillAbreast ==
  ASSUME NEW T, NEW text, NEW p \in Nat, text[p + 1] \in T, NEW s, NEW w, Abreast(T, text, p, s, w)
  PROVE  /\ Abreast(T, text, p + 1, LineStep(s, text[p + 1]), LineStep(w, text[p + 1]))
         /\ LineStep(s, text[p + 1]).eof = s.eof
<1> DEFINE c == text[p + 1]
           s1 == LineStep(s, c)
           w1 == LineStep(w, c)
<1>1. /\ s \in Reader(T) /\ w \in Reader(T) /\ s.text = w.text /\ Filled(s.lines) = Filled(w.lines)
      /\ (s.gap => s.text = <<>>) /\ (w.gap => w.text = <<>>)
      /\ Len(s.text) <= p /\ \A q \in (p - Len(s.text) + 1)..p : text[q] # "|"
      /\ c \in T
  BY DEF Abreast
<1>2. s.text \in Seq(T) /\ Len(s.text) \in Nat
  BY <1>1 DEF Reader
<1> HIDE DEF c, s1, w1
<1>3. CASE c = "|"
  <2>1. /\ s1 \in Reader(T) /\ s1.text = <<>> /\ s1.eof = s.eof
        /\ Filled(s1.lines) = IF s.text = <<>> THEN Filled(s.lines) ELSE Append(Filled(s.lines), s.text)
    BY <1>1, <1>3, BarIsRead DEF s1
  <2>2. /\ w1 \in Reader(T) /\ w1.text = <<>>
        /\ Filled(w1.lines) = IF w.text = <<>> THEN Filled(w.lines) ELSE Append(Filled(w.lines), w.text)
    BY <1>1, <1>3, BarIsRead DEF w1
  <2>3. Filled(s1.lines) = Filled(w1.lines)
    BY <1>1, <2>1, <2>2
  <2>4. Len(s1.text) = 0
    BY <2>1
  <2>5. Len(s1.text) <= p + 1 /\ \A q \in (p + 1 - Len(s1.text) + 1)..(p + 1) : text[q] # "|"
    BY <2>4
  <2>6. Abreast(T, text, p + 1, s1, w1)
    BY <2>1, <2>2, <2>3, <2>5 DEF Abreast
  <2> QED BY <2>1, <2>6 DEF s1, w1, c
<1>4. CASE c # "|"
  <2>1. /\ s1 \in Reader(T) /\ s1.text = Append(s.text, c) /\ s1.eof = s.eof
        /\ s1.lines = s.lines /\ s1.gap = FALSE
    BY <1>1, <1>4, CharIsRead DEF s1
  <2>2. /\ w1 \in Reader(T) /\ w1.text = Append(w.text, c) /\ w1.lines = w.lines /\ w1.gap = FALSE
    BY <1>1, <1>4, CharIsRead DEF w1
  <2>3. Len(s1.text) = Len(s.text) + 1
    BY <1>1, <1>2, <2>1
  <2>4. \A q \in (p + 1 - Len(s1.text) + 1)..(p + 1) : text[q] # "|"
    <3> TAKE q \in (p + 1 - Len(s1.text) + 1)..(p + 1)
    <3>1. q \in (p - Len(s.text) + 1)..p \/ q = p + 1
      BY <1>2, <2>3
    <3> QED BY <1>1, <1>4, <3>1 DEF c
  <2>5. Len(s1.text) <= p + 1
    BY <1>1, <1>2, <2>3
  <2>6. Abreast(T, text, p + 1, s1, w1)
    BY <1>1, <2>1, <2>2, <2>4, <2>5 DEF Abreast
  <2> QED BY <2>1, <2>6 DEF s1, w1, c
<1> QED BY <1>3, <1>4

(* A chunk that there is room for. *)
LEMMA ChunkIsRead ==
  ASSUME NEW T, NEW text \in Seq(T), NEW whole, Reading!IsTrace(0, Started, text, Len(text), whole),
         NEW p \in 0..Len(text), NEW q \in p..Len(text),
         NEW s, Abreast(T, text, p, s, whole[p]), Len(s.text) # Room
  PROVE  LET t == net_read(s, SubSeq(text, p + 1, q))
         IN Abreast(T, text, q, t, whole[q]) /\ t.eof = s.eof
<1> DEFINE chunk == SubSeq(text, p + 1, q)
           start == [s EXCEPT !.gap = FALSE]
           env == [chars |-> T, text |-> text, from |-> p, whole |-> whole, eof |-> s.eof]
           n == q - p
<1>1. /\ env.chars = T /\ env.text = text /\ env.from = p /\ env.whole = whole /\ env.eof = s.eof
      /\ n \in Nat /\ p + n = q /\ p + 0 = p
  OBVIOUS
<1>2. DOMAIN chunk = 1..n /\ \A k \in 1..n : chunk[k] = text[p + k]
  OBVIOUS
<1>3. Abreast(T, text, p, start, whole[p]) /\ start.eof = s.eof
  BY DEF Abreast, Reader
<1>4. ReadsOn(env, 0, start)
  <2> HIDE DEF env, start
  <2> QED BY <1>1, <1>3 DEF ReadsOn
<1>5. ASSUME NEW k \in 1..n, NEW t, ReadsOn(env, k - 1, t) PROVE ReadsOn(env, k, LineAt(env, t, chunk[k]))
  <2>1. /\ p + (k - 1) \in Nat /\ p + (k - 1) + 1 = p + k /\ p + k \in 1..Len(text)
        /\ (p + k) - 1 = p + (k - 1)
    OBVIOUS
  <2>2. whole[p + k] = LineStep(whole[p + (k - 1)], text[p + k]) /\ text[p + k] \in T
    BY <2>1 DEF Reading!IsTrace, LineAt
  <2> HIDE DEF env, chunk, n
  <2>3. Abreast(T, text, p + (k - 1), t, whole[p + (k - 1)]) /\ t.eof = s.eof
    BY <1>1, <1>5 DEF ReadsOn
  <2>4. /\ Abreast(T, text, p + k, LineStep(t, text[p + k]), LineStep(whole[p + (k - 1)], text[p + k]))
        /\ LineStep(t, text[p + k]).eof = t.eof
    <3> DEFINE r == p + (k - 1)
    <3>1. r \in Nat /\ r + 1 = p + k
      BY <2>1
    <3> HIDE DEF r
    <3>2. text[r + 1] \in T /\ Abreast(T, text, r, t, whole[r])
      BY <2>1, <2>2, <2>3, <3>1 DEF r
    <3>3. /\ Abreast(T, text, r + 1, LineStep(t, text[r + 1]), LineStep(whole[r], text[r + 1]))
          /\ LineStep(t, text[r + 1]).eof = t.eof
      BY <3>1, <3>2, StillAbreast
    <3> QED BY <3>1, <3>3 DEF r
  <2> QED BY <1>1, <1>2, <2>2, <2>3, <2>4 DEF ReadsOn, LineAt
<1>6. ReadsOn(env, n, Reading!Folded(env, start, chunk))
  <2> HIDE DEF env, chunk, start, n
  <2> QED BY <1>1, <1>2, <1>4, <1>5, Reading!FoldKeeps
<1>7. FoldLeft(LineStep, start, chunk) = Reading!Folded(env, start, chunk)
  <2> HIDE DEF env, chunk, start
  <2> QED BY DEF FoldLeft, MapThenFoldSet, Max, LineAt, Reading!Folded, Reading!IsFold, Reading!Largest
<1>8. net_read(s, chunk) = FoldLeft(LineStep, start, chunk)
  BY DEF net_read
<1> HIDE DEF env, chunk, start, n
<1>9. LET t == net_read(s, chunk) IN Abreast(T, text, q, t, whole[q]) /\ t.eof = s.eof
  BY <1>1, <1>6, <1>7, <1>8 DEF ReadsOn
<1> QED BY <1>9 DEF chunk

(* A buffer that is full holds as many characters without a terminator. *)
HasLong(text) ==
  Room \in Nat /\ \E k \in 1..(Len(text) + 1 - Room) : \A n \in k..(k + Room - 1) : text[n] # "|"
Full(T, s) == s \in Reader(T) /\ Len(s.text) = Room

LEMMA FullIsLong ==
  ASSUME NEW T, NEW text \in Seq(T), NEW p \in 0..Len(text), NEW s, NEW w, Abreast(T, text, p, s, w),
         Len(s.text) = Room
  PROVE  HasLong(text) /\ Full(T, s)
<1>1. s.text \in Seq(T) /\ Len(s.text) <= p /\ \A n \in (p - Len(s.text) + 1)..p : text[n] # "|"
  BY DEF Abreast, Reader
<1>2. Room \in Nat /\ Room <= p
  BY <1>1
<1> DEFINE k == p - Room + 1
<1>3. k \in 1..(Len(text) + 1 - Room) /\ k + Room - 1 = p
  BY <1>2
<1>4. \A n \in k..(k + Room - 1) : text[n] # "|"
  BY <1>1, <1>3
<1> QED BY <1>2, <1>3, <1>4 DEF HasLong, Full, Abreast

LEMMA FullStaysFull ==
  ASSUME NEW T, NEW s, Full(T, s), NEW chunk
  PROVE  Full(T, net_read(s, chunk)) /\ net_read(s, chunk).eof = TRUE
BY DEF Full, net_read, Reader

(* Lines and what is left behind them do not depend on the three chunks    *)
(* that a text arrives in (net_read), whatever its characters are, and the *)
(* link ends only on a line that fills the buffer.  ChunkIsRead says it of *)
(* one chunk after any others.                                             *)
THEOREM ChunksAreJoined == ReadAsOne
<1> DEFINE N == MaxWord + 2
<1> SUFFICES ASSUME NEW text \in [1..N -> Char], NEW i \in 0..N, NEW j \in 0..N, i <= j
             PROVE  LET one == net_read(Started, SubSeq(text, 1, i))
                        two == net_read(one, SubSeq(text, i + 1, j))
                        three == net_read(two, SubSeq(text, j + 1, N))
                        whole == FoldLeft(LineStep, Started, text)
                    IN IF three.eof
                       THEN \E k \in 1..(MaxWord + 3 - Room) : \A n \in k..(k + Room - 1) : text[n] # "|"
                       ELSE Filled(three.lines) = Filled(whole.lines) /\ three.text = whole.text
  BY DEF ReadAsOne
<1>1. N \in Nat /\ N + 1 = MaxWord + 3
  BY MaxWordAssumption
<1>2. text \in Seq(Char) /\ Len(text) = N /\ DOMAIN text = 1..N
  BY <1>1
<1> HIDE DEF N
<1> DEFINE one == net_read(Started, SubSeq(text, 0 + 1, i))
           two == net_read(one, SubSeq(text, i + 1, j))
           three == net_read(two, SubSeq(text, j + 1, N))
<1>3. PICK whole : /\ Reading!IsTrace(0, Started, text, N, whole)
                   /\ whole[N] = Reading!Folded(0, Started, text)
  BY <1>1, <1>2, Reading!FoldIsTraced
<1>4. FoldLeft(LineStep, Started, text) = Reading!Folded(0, Started, text)
  BY DEF FoldLeft, MapThenFoldSet, Max, LineAt, Reading!Folded, Reading!IsFold, Reading!Largest
<1>5. Abreast(Char, text, 0, Started, whole[0]) /\ Started.eof = FALSE /\ Started \in Reader(Char)
  BY <1>3 DEF Reading!IsTrace, Started, Abreast, Reader
<1>6. /\ 0 \in 0..Len(text) /\ i \in 0..Len(text) /\ j \in 0..Len(text)
      /\ i \in 0..Len(text) /\ j \in i..Len(text) /\ N \in j..Len(text)
  BY <1>1, <1>2
<1>7. HasLong(text) =>
        \E k \in 1..(MaxWord + 3 - Room) : \A n \in k..(k + Room - 1) : text[n] # "|"
  <2> SUFFICES ASSUME HasLong(text)
               PROVE  \E k \in 1..(MaxWord + 3 - Room) : \A n \in k..(k + Room - 1) : text[n] # "|"
    OBVIOUS
  <2>1. Len(text) + 1 - Room = MaxWord + 3 - Room
    BY <1>1, <1>2, MaxWordAssumption DEF HasLong
  <2> QED BY <2>1 DEF HasLong
<1>8. SUFFICES IF three.eof THEN HasLong(text)
               ELSE Filled(three.lines) = Filled(whole[N].lines) /\ three.text = whole[N].text
  BY <1>3, <1>4, <1>7
<1> HIDE DEF one, two, three
<1>9. CASE Len(Started.text) = Room
  <2>1. HasLong(text) /\ Full(Char, Started)
    BY <1>2, <1>5, <1>6, <1>9, FullIsLong
  <2>2. Full(Char, one)
    BY <2>1, FullStaysFull DEF one
  <2>3. Full(Char, two)
    BY <2>2, FullStaysFull DEF two
  <2>4. three.eof = TRUE
    BY <2>3, FullStaysFull DEF three
  <2> QED BY <2>1, <2>4
<1>10. CASE Len(Started.text) # Room
  <2>1. Abreast(Char, text, i, one, whole[i]) /\ one.eof = FALSE
    BY <1>2, <1>3, <1>5, <1>6, <1>10, ChunkIsRead DEF one
  <2>2. CASE Len(one.text) = Room
    <3>1. HasLong(text) /\ Full(Char, one)
      BY <1>2, <1>6, <2>1, <2>2, FullIsLong
    <3>2. Full(Char, two)
      BY <3>1, FullStaysFull DEF two
    <3>3. three.eof = TRUE
      BY <3>2, FullStaysFull DEF three
    <3> QED BY <3>1, <3>3
  <2>3. CASE Len(one.text) # Room
    <3>1. Abreast(Char, text, j, two, whole[j]) /\ two.eof = FALSE
      BY <1>2, <1>3, <1>6, <2>1, <2>3, ChunkIsRead DEF two
    <3>2. CASE Len(two.text) = Room
      <4>1. HasLong(text) /\ Full(Char, two)
        BY <1>2, <1>6, <3>1, <3>2, FullIsLong
      <4>2. three.eof = TRUE
        BY <4>1, FullStaysFull DEF three
      <4> QED BY <4>1, <4>2
    <3>3. CASE Len(two.text) # Room
      <4>1. Abreast(Char, text, N, three, whole[N]) /\ three.eof = FALSE
        BY <1>2, <1>3, <1>6, <3>1, <3>3, ChunkIsRead DEF three
      <4> QED BY <4>1 DEF Abreast
    <3> QED BY <3>2, <3>3
  <2> QED BY <2>2, <2>3
<1> QED BY <1>9, <1>10

=============================================================================
