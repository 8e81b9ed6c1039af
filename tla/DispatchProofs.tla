--------------------------- MODULE DispatchProofs ---------------------------
(***************************************************************************)
(* arrange_args, proved for lines of any length, any rule and whatever can *)
(* be converted: an induction over the words of the rule.                  *)
(***************************************************************************)
EXTENDS Dispatch, FiniteSetTheorems, TLAPS

RuleWords == [flag : {"normal", "optional", "greedy"}, at : Int, type : Types \cup {"word"}]

Arrangement ==
  [ok : BOOLEAN, args : Seq(Nat \cup {Greedy}), used : SUBSET Nat, rest : SUBSET Nat,
   greedyfrom : Nat, past : BOOLEAN, variant : Nat]

(* Among the arguments each word that has been used is found once. *)
Placed(args, used) ==
  /\ \A j \in 1..Len(args) : args[j] \in used \cup {Absent, Greedy}
  /\ \A i \in used : \E j \in 1..Len(args) : args[j] = i
  /\ \A j, k \in 1..Len(args) : args[j] = args[k] /\ args[j] \in used => j = k

(* An argument is what the word r of a rule asks for. *)
Fits(words, known, r, arg) ==
  /\ arg = Absent => r.flag = "optional"
  /\ arg = Greedy => r.flag = "greedy"
  /\ arg \notin {Absent, Greedy} =>
       arg = Source(r.at, Len(words) - 1) /\ (r.type # "word" => words[arg] \in known[r.type])

(* What arrange_args knows after k words of the rule; env is the words of  *)
(* the line with the one behind it, what can be converted, and the rule.   *)
Taken(env, s) ==
  /\ s \in Arrangement
  /\ s.used \subseteq 1..Len(env[1]) /\ Placed(s.args, s.used)

Fitted(env, k, s) ==
  s.ok => Len(s.args) = k /\ \A j \in 1..k : Fits(env[1], env[2], env[3][j], s.args[j])

Arranged(env, k, s) == Taken(env, s) /\ Fitted(env, k, s)
TakeStep(env, s, r) == Take(env[1], env[2], s, r)

Taking == INSTANCE FoldFacts WITH Step <- TakeStep, Good <- Arranged

LEMMA PlacedOneMore ==
  ASSUME NEW args \in Seq(Nat \cup {Greedy}), NEW used \in SUBSET Nat, 0 \notin used,
         Placed(args, used), NEW i \in Nat, i \notin used, i # 0
  PROVE  Placed(Append(args, i), used \cup {i})
<1>1. /\ Len(Append(args, i)) = Len(args) + 1 /\ Len(args) \in Nat
      /\ Append(args, i)[Len(args) + 1] = i
      /\ \A j \in 1..Len(args) : Append(args, i)[j] = args[j]
  OBVIOUS
<1>2. \A j \in 1..Len(args) : args[j] # i
  BY DEF Placed, Absent, Greedy
<1> QED BY <1>1, <1>2 DEF Placed

LEMMA PlacedNoneMore ==
  ASSUME NEW args \in Seq(Nat \cup {Greedy}), NEW used \in SUBSET Nat, 0 \notin used,
         Placed(args, used), NEW i \in {Absent, Greedy}
  PROVE  Placed(Append(args, i), used)
<1>1. /\ Len(Append(args, i)) = Len(args) + 1 /\ Len(args) \in Nat
      /\ Append(args, i)[Len(args) + 1] = i
      /\ \A j \in 1..Len(args) : Append(args, i)[j] = args[j]
  BY DEF Absent, Greedy
<1>2. i \notin used
  BY DEF Absent, Greedy
<1> QED BY <1>1, <1>2 DEF Placed

LEMMA TakeKeeps ==
  ASSUME NEW S, NEW words \in Seq(S), words # <<>>, NEW known, NEW rule, NEW r \in RuleWords,
         NEW s, Taken(<<words, known, rule>>, s)
  PROVE  Taken(<<words, known, rule>>, Take(words, known, s, r))
<1> DEFINE argc == Len(words) - 1
           src == Source(r.at, argc)
           missing == src < 1 \/ src > argc + 1 \/ src \in s.used
           read == ~ missing /\ r.type # "word"
           fits == ~ missing /\ (read => words[src] \in known[r.type])
           t == [s EXCEPT !.past = @ \/ (read /\ src = argc + 1)]
<1>1. argc \in Nat /\ src \in Int
  BY DEF RuleWords, Source
<1>2. s \in Arrangement /\ s.used \subseteq 1..(argc + 1) /\ Placed(s.args, s.used) /\ 0 \notin s.used
  BY DEF Taken
<1>3. t \in Arrangement /\ t.used = s.used /\ t.args = s.args
  BY <1>2 DEF Arrangement
<1>4. Take(words, known, s, r) =
        IF ~ s.ok THEN s
        ELSE IF r.flag = "greedy" /\ ~ missing
          THEN [t EXCEPT !.args = Append(@, Greedy), !.greedyfrom = src]
        ELSE IF fits THEN [t EXCEPT !.args = Append(@, src), !.used = @ \cup {src}]
        ELSE IF r.flag = "optional" THEN [t EXCEPT !.args = Append(@, Absent)]
        ELSE [t EXCEPT !.ok = FALSE]
  BY DEF Take
<1> HIDE DEF t
<1> DEFINE Kept(u) == u \in Arrangement /\ u.used \subseteq 1..(argc + 1) /\ Placed(u.args, u.used)
<1>5. Kept(s)
  BY <1>2
<1>6. ASSUME ~ missing PROVE Kept([t EXCEPT !.args = Append(@, Greedy), !.greedyfrom = src])
  <2>1. src \in Nat
    BY <1>1, <1>6
  <2>2. Placed(Append(t.args, Greedy), t.used)
    BY <1>2, <1>3, PlacedNoneMore DEF Arrangement
  <2>3. Append(t.args, Greedy) \in Seq(Nat \cup {Greedy})
    BY <1>3 DEF Arrangement
  <2> HIDE DEF src
  <2> QED BY <1>2, <1>3, <2>1, <2>2, <2>3 DEF Arrangement
<1>7. ASSUME ~ missing PROVE Kept([t EXCEPT !.args = Append(@, src), !.used = @ \cup {src}])
  <2>1. src \in 1..(argc + 1) /\ src \notin t.used
    BY <1>1, <1>3, <1>7
  <2>2. Placed(Append(t.args, src), t.used \cup {src})
    <3>1. /\ t.args \in Seq(Nat \cup {Greedy}) /\ t.used \in SUBSET Nat /\ 0 \notin t.used
          /\ Placed(t.args, t.used) /\ src \in Nat /\ src # 0
      BY <1>1, <1>2, <1>3, <2>1 DEF Arrangement
    <3> HIDE DEF src
    <3> QED BY <2>1, <3>1, PlacedOneMore
  <2>3. Append(t.args, src) \in Seq(Nat \cup {Greedy})
    BY <1>3, <2>1 DEF Arrangement
  <2>4. src \in Nat /\ t.used \cup {src} \in SUBSET Nat /\ t.used \cup {src} \subseteq 1..(argc + 1)
    BY <1>1, <1>2, <1>3, <2>1 DEF Arrangement
  <2> HIDE DEF src
  <2> QED BY <1>3, <2>2, <2>3, <2>4 DEF Arrangement
<1>8. Kept([t EXCEPT !.args = Append(@, Absent)])
  <2>1. Placed(Append(t.args, Absent), t.used)
    BY <1>2, <1>3, PlacedNoneMore DEF Arrangement
  <2>2. Append(t.args, Absent) \in Seq(Nat \cup {Greedy})
    BY <1>3 DEF Arrangement, Absent
  <2> QED BY <1>2, <1>3, <2>1, <2>2 DEF Arrangement
<1>9. Kept([t EXCEPT !.ok = FALSE])
  BY <1>2, <1>3 DEF Arrangement
<1>10. Kept(Take(words, known, s, r))
  <2> HIDE DEF Kept, missing
  <2> QED BY <1>4, <1>5, <1>6, <1>7, <1>8, <1>9
<1>11. argc + 1 = Len(words)
  OBVIOUS
<1> QED BY <1>10, <1>11 DEF Taken

LEMMA TakeFits ==
  ASSUME NEW S, NEW words \in Seq(S), words # <<>>, NEW known, NEW rule, NEW k \in Nat,
         rule[k + 1] \in RuleWords, NEW s,
         Taken(<<words, known, rule>>, s), Fitted(<<words, known, rule>>, k, s)
  PROVE  Fitted(<<words, known, rule>>, k + 1, Take(words, known, s, rule[k + 1]))
<1> DEFINE r == rule[k + 1]
           argc == Len(words) - 1
           src == Source(r.at, argc)
           missing == src < 1 \/ src > argc + 1 \/ src \in s.used
           read == ~ missing /\ r.type # "word"
           fits == ~ missing /\ (read => words[src] \in known[r.type])
           t == [s EXCEPT !.past = @ \/ (read /\ src = argc + 1)]
           More(args) == Len(args) = k + 1 /\ \A j \in 1..(k + 1) : Fits(words, known, rule[j], args[j])
<1>1. argc \in Nat /\ src \in Int
  BY DEF RuleWords, Source
<1>2. s \in Arrangement
  BY DEF Taken
<1>3. t \in Arrangement /\ t.args = s.args /\ t.ok = s.ok
  BY <1>2 DEF Arrangement
<1>4. Take(words, known, s, r) =
        IF ~ s.ok THEN s
        ELSE IF r.flag = "greedy" /\ ~ missing
          THEN [t EXCEPT !.args = Append(@, Greedy), !.greedyfrom = src]
        ELSE IF fits THEN [t EXCEPT !.args = Append(@, src), !.used = @ \cup {src}]
        ELSE IF r.flag = "optional" THEN [t EXCEPT !.args = Append(@, Absent)]
        ELSE [t EXCEPT !.ok = FALSE]
  BY DEF Take
<1> HIDE DEF t
<1>5. ASSUME s.ok, NEW arg \in Int, Fits(words, known, r, arg) PROVE More(Append(s.args, arg))
  <2>1. s.args \in Seq(Int) /\ Len(s.args) = k
        /\ \A j \in 1..k : Fits(words, known, rule[j], s.args[j])
    BY <1>2, <1>5 DEF Fitted, Arrangement, Greedy
  <2>2. Len(Append(s.args, arg)) = k + 1 /\ Append(s.args, arg)[k + 1] = arg
        /\ \A j \in 1..k : Append(s.args, arg)[j] = s.args[j]
    BY <2>1
  <2>3. \A j \in 1..(k + 1) : j \in 1..k \/ j = k + 1
    OBVIOUS
  <2> HIDE DEF r
  <2>4. r = rule[k + 1]
    BY DEF r
  <2> QED BY <1>5, <2>1, <2>2, <2>3, <2>4
<1>6. ASSUME ~ missing, r.flag = "greedy" PROVE Fits(words, known, r, Greedy)
  BY <1>6 DEF Fits, Greedy, Absent
<1>7. ASSUME fits, ~ (r.flag = "greedy" /\ ~ missing) PROVE Fits(words, known, r, src)
  BY <1>1, <1>7 DEF Fits, Greedy, Absent
<1>8. ASSUME r.flag = "optional" PROVE Fits(words, known, r, Absent)
  BY <1>8 DEF Fits, Greedy, Absent
<1> DEFINE Good(u) == u.ok => More(u.args)
<1>9. ASSUME NEW arg \in Int, Fits(words, known, r, arg), s.ok,
             NEW u, u.args = Append(t.args, arg)
      PROVE  Good(u)
  BY <1>3, <1>5, <1>9
<1>10. Good(Take(words, known, s, r))
  <2> HIDE DEF More, r, src
  <2>1. CASE ~ s.ok
    BY <1>4, <2>1
  <2>2. CASE s.ok /\ r.flag = "greedy" /\ ~ missing
    <3> DEFINE u == [t EXCEPT !.args = Append(@, Greedy), !.greedyfrom = src]
    <3>1. u.args = Append(t.args, Greedy)
      BY <1>3 DEF Arrangement
    <3>2. Good(u)
      <4> HIDE DEF u
      <4>1. Greedy \in Int /\ Fits(words, known, r, Greedy)
        BY <1>6, <2>2 DEF Greedy
      <4> QED BY <1>9, <2>2, <3>1, <4>1
    <3> QED BY <1>4, <2>2, <3>2
  <2>3. CASE s.ok /\ ~ (r.flag = "greedy" /\ ~ missing) /\ fits
    <3> DEFINE u == [t EXCEPT !.args = Append(@, src), !.used = @ \cup {src}]
    <3>1. u.args = Append(t.args, src)
      BY <1>3 DEF Arrangement
    <3>2. Good(u)
      <4> HIDE DEF u
      <4> QED BY <1>1, <1>7, <1>9, <2>3, <3>1
    <3> QED BY <1>4, <2>3, <3>2
  <2>4. CASE s.ok /\ ~ (r.flag = "greedy" /\ ~ missing) /\ ~ fits /\ r.flag = "optional"
    <3> DEFINE u == [t EXCEPT !.args = Append(@, Absent)]
    <3>1. u.args = Append(t.args, Absent)
      BY <1>3 DEF Arrangement
    <3>2. Good(u)
      <4> HIDE DEF u
      <4>1. Absent \in Int /\ Fits(words, known, r, Absent)
        BY <1>8, <2>4 DEF Absent
      <4> QED BY <1>9, <2>4, <3>1, <4>1
    <3> QED BY <1>4, <2>4, <3>2
  <2>5. CASE s.ok /\ ~ (r.flag = "greedy" /\ ~ missing) /\ ~ fits /\ r.flag # "optional"
    <3>1. [t EXCEPT !.ok = FALSE].ok = FALSE
      BY <1>3 DEF Arrangement
    <3> QED BY <1>4, <2>5, <3>1
  <2> QED BY <2>1, <2>2, <2>3, <2>4, <2>5
<1> QED BY <1>10 DEF Fitted

-----------------------------------------------------------------------------
(* A rule as tokens.c writes them: words that must be there, counted from  *)
(* the front in their order, then words that may be missing, that are      *)
(* counted from the end, or the greedy one, which is not converted.        *)
AtFront(w, i) == w.flag = "normal" /\ w.at = i
Later(w) == (w.flag = "normal" => w.at < 0) /\ (w.flag = "greedy" => w.type = "word")

WellRules ==
  {rule \in Seq(RuleWords) : \E k \in 0..Len(rule) : /\ \A i \in 1..k : AtFront(rule[i], i)
                                                     /\ \A i \in (k + 1)..Len(rule) : Later(rule[i])}

LEMMA RuleWordsAre ==
  /\ \A at \in Int : \A type : Arg(at, type) \in RuleWords /\ AtFront(Arg(at, type), at)
  /\ \A at \in Int : \A type : Opt(at, type) \in RuleWords /\ Later(Opt(at, type))
  /\ \A at \in Int : Rest(at) \in RuleWords /\ Later(Rest(at))
  /\ \A at \in Int : Word(at) \in RuleWords /\ AtFront(Word(at), at) /\ (at < 0 => Later(Word(at)))
  BY DEF Arg, Opt, Rest, Word, RuleWord, RuleWords, Types, AtFront, Later

(* The shapes that occur: the number of words, and how many are in front.  *)
LEMMA Shape0 == <<>> \in WellRules
  BY DEF WellRules

LEMMA Shape10 ==
  ASSUME NEW w1 \in RuleWords,
         Later(w1)
  PROVE  <<w1>> \in WellRules
<1> SUFFICES ASSUME NEW rule, rule = <<w1>> PROVE rule \in WellRules
  OBVIOUS
<1>1. rule \in Seq(RuleWords) /\ Len(rule) = 1
  OBVIOUS
<1>3. \A i \in 1..1 : Later(rule[i])
  OBVIOUS
<1> QED BY <1>1, <1>3 DEF WellRules

LEMMA Shape11 ==
  ASSUME NEW w1 \in RuleWords,
         AtFront(w1, 1)
  PROVE  <<w1>> \in WellRules
<1> SUFFICES ASSUME NEW rule, rule = <<w1>> PROVE rule \in WellRules
  OBVIOUS
<1>1. rule \in Seq(RuleWords) /\ Len(rule) = 1
  OBVIOUS
<1>2. \A i \in 1..1 : AtFront(rule[i], i)
  OBVIOUS
<1> QED BY <1>1, <1>2 DEF WellRules

LEMMA Shape21 ==
  ASSUME NEW w1 \in RuleWords, NEW w2 \in RuleWords,
         AtFront(w1, 1), Later(w2)
  PROVE  <<w1, w2>> \in WellRules
<1> SUFFICES ASSUME NEW rule, rule = <<w1, w2>> PROVE rule \in WellRules
  OBVIOUS
<1>1. rule \in Seq(RuleWords) /\ Len(rule) = 2
  OBVIOUS
<1>2. \A i \in 1..1 : AtFront(rule[i], i)
  OBVIOUS
<1>3. \A i \in 2..2 : Later(rule[i])
  OBVIOUS
<1> QED BY <1>1, <1>2, <1>3 DEF WellRules

LEMMA Shape22 ==
  ASSUME NEW w1 \in RuleWords, NEW w2 \in RuleWords,
         AtFront(w1, 1), AtFront(w2, 2)
  PROVE  <<w1, w2>> \in WellRules
<1> SUFFICES ASSUME NEW rule, rule = <<w1, w2>> PROVE rule \in WellRules
  OBVIOUS
<1>1. rule \in Seq(RuleWords) /\ Len(rule) = 2
  OBVIOUS
<1>2. \A i \in 1..2 : AtFront(rule[i], i)
  OBVIOUS
<1> QED BY <1>1, <1>2 DEF WellRules

LEMMA Shape31 ==
  ASSUME NEW w1 \in RuleWords, NEW w2 \in RuleWords, NEW w3 \in RuleWords,
         AtFront(w1, 1), Later(w2), Later(w3)
  PROVE  <<w1, w2, w3>> \in WellRules
<1> SUFFICES ASSUME NEW rule, rule = <<w1, w2, w3>> PROVE rule \in WellRules
  OBVIOUS
<1>1. rule \in Seq(RuleWords) /\ Len(rule) = 3
  OBVIOUS
<1>2. \A i \in 1..1 : AtFront(rule[i], i)
  OBVIOUS
<1>3. \A i \in 2..3 : Later(rule[i])
  OBVIOUS
<1> QED BY <1>1, <1>2, <1>3 DEF WellRules

LEMMA Shape32 ==
  ASSUME NEW w1 \in RuleWords, NEW w2 \in RuleWords, NEW w3 \in RuleWords,
         AtFront(w1, 1), AtFront(w2, 2), Later(w3)
  PROVE  <<w1, w2, w3>> \in WellRules
<1> SUFFICES ASSUME NEW rule, rule = <<w1, w2, w3>> PROVE rule \in WellRules
  OBVIOUS
<1>1. rule \in Seq(RuleWords) /\ Len(rule) = 3
  OBVIOUS
<1>2. \A i \in 1..2 : AtFront(rule[i], i)
  OBVIOUS
<1>3. \A i \in 3..3 : Later(rule[i])
  OBVIOUS
<1> QED BY <1>1, <1>2, <1>3 DEF WellRules

LEMMA Shape33 ==
  ASSUME NEW w1 \in RuleWords, NEW w2 \in RuleWords, NEW w3 \in RuleWords,
         AtFront(w1, 1), AtFront(w2, 2), AtFront(w3, 3)
  PROVE  <<w1, w2, w3>> \in WellRules
<1> SUFFICES ASSUME NEW rule, rule = <<w1, w2, w3>> PROVE rule \in WellRules
  OBVIOUS
<1>1. rule \in Seq(RuleWords) /\ Len(rule) = 3
  OBVIOUS
<1>2. \A i \in 1..3 : AtFront(rule[i], i)
  OBVIOUS
<1> QED BY <1>1, <1>2 DEF WellRules

LEMMA Shape41 ==
  ASSUME NEW w1 \in RuleWords, NEW w2 \in RuleWords, NEW w3 \in RuleWords, NEW w4 \in RuleWords,
         AtFront(w1, 1), Later(w2), Later(w3), Later(w4)
  PROVE  <<w1, w2, w3, w4>> \in WellRules
<1> SUFFICES ASSUME NEW rule, rule = <<w1, w2, w3, w4>> PROVE rule \in WellRules
  OBVIOUS
<1>1. rule \in Seq(RuleWords) /\ Len(rule) = 4
  OBVIOUS
<1>2. \A i \in 1..1 : AtFront(rule[i], i)
  OBVIOUS
<1>3. \A i \in 2..4 : Later(rule[i])
  OBVIOUS
<1> QED BY <1>1, <1>2, <1>3 DEF WellRules

LEMMA Shape43 ==
  ASSUME NEW w1 \in RuleWords, NEW w2 \in RuleWords, NEW w3 \in RuleWords, NEW w4 \in RuleWords,
         AtFront(w1, 1), AtFront(w2, 2), AtFront(w3, 3), Later(w4)
  PROVE  <<w1, w2, w3, w4>> \in WellRules
<1> SUFFICES ASSUME NEW rule, rule = <<w1, w2, w3, w4>> PROVE rule \in WellRules
  OBVIOUS
<1>1. rule \in Seq(RuleWords) /\ Len(rule) = 4
  OBVIOUS
<1>2. \A i \in 1..3 : AtFront(rule[i], i)
  OBVIOUS
<1>3. \A i \in 4..4 : Later(rule[i])
  OBVIOUS
<1> QED BY <1>1, <1>2, <1>3 DEF WellRules

LEMMA Shape44 ==
  ASSUME NEW w1 \in RuleWords, NEW w2 \in RuleWords, NEW w3 \in RuleWords, NEW w4 \in RuleWords,
         AtFront(w1, 1), AtFront(w2, 2), AtFront(w3, 3), AtFront(w4, 4)
  PROVE  <<w1, w2, w3, w4>> \in WellRules
<1> SUFFICES ASSUME NEW rule, rule = <<w1, w2, w3, w4>> PROVE rule \in WellRules
  OBVIOUS
<1>1. rule \in Seq(RuleWords) /\ Len(rule) = 4
  OBVIOUS
<1>2. \A i \in 1..4 : AtFront(rule[i], i)
  OBVIOUS
<1> QED BY <1>1, <1>2 DEF WellRules

LEMMA Shape52 ==
  ASSUME NEW w1 \in RuleWords, NEW w2 \in RuleWords, NEW w3 \in RuleWords, NEW w4 \in RuleWords,
         NEW w5 \in RuleWords,
         AtFront(w1, 1), AtFront(w2, 2), Later(w3), Later(w4), Later(w5)
  PROVE  <<w1, w2, w3, w4, w5>> \in WellRules
<1> SUFFICES ASSUME NEW rule, rule = <<w1, w2, w3, w4, w5>> PROVE rule \in WellRules
  OBVIOUS
<1>1. rule \in Seq(RuleWords) /\ Len(rule) = 5
  OBVIOUS
<1>2. \A i \in 1..2 : AtFront(rule[i], i)
  OBVIOUS
<1>3. \A i \in 3..5 : Later(rule[i])
  OBVIOUS
<1> QED BY <1>1, <1>2, <1>3 DEF WellRules

LEMMA Shape54 ==
  ASSUME NEW w1 \in RuleWords, NEW w2 \in RuleWords, NEW w3 \in RuleWords, NEW w4 \in RuleWords,
         NEW w5 \in RuleWords,
         AtFront(w1, 1), AtFront(w2, 2), AtFront(w3, 3), AtFront(w4, 4), Later(w5)
  PROVE  <<w1, w2, w3, w4, w5>> \in WellRules
<1> SUFFICES ASSUME NEW rule, rule = <<w1, w2, w3, w4, w5>> PROVE rule \in WellRules
  OBVIOUS
<1>1. rule \in Seq(RuleWords) /\ Len(rule) = 5
  OBVIOUS
<1>2. \A i \in 1..4 : AtFront(rule[i], i)
  OBVIOUS
<1>3. \A i \in 5..5 : Later(rule[i])
  OBVIOUS
<1> QED BY <1>1, <1>2, <1>3 DEF WellRules

LEMMA Shape87 ==
  ASSUME NEW w1 \in RuleWords, NEW w2 \in RuleWords, NEW w3 \in RuleWords, NEW w4 \in RuleWords,
         NEW w5 \in RuleWords, NEW w6 \in RuleWords, NEW w7 \in RuleWords, NEW w8 \in RuleWords,
         AtFront(w1, 1), AtFront(w2, 2), AtFront(w3, 3), AtFront(w4, 4), AtFront(w5, 5),
         AtFront(w6, 6), AtFront(w7, 7), Later(w8)
  PROVE  <<w1, w2, w3, w4, w5, w6, w7, w8>> \in WellRules
<1> SUFFICES ASSUME NEW rule, rule = <<w1, w2, w3, w4, w5, w6, w7, w8>> PROVE rule \in WellRules
  OBVIOUS
<1>1. rule \in Seq(RuleWords) /\ Len(rule) = 8
  OBVIOUS
<1>2. \A i \in 1..7 : AtFront(rule[i], i)
  OBVIOUS
<1>3. \A i \in 8..8 : Later(rule[i])
  OBVIOUS
<1> QED BY <1>1, <1>2, <1>3 DEF WellRules

LEMMA Shape95 ==
  ASSUME NEW w1 \in RuleWords, NEW w2 \in RuleWords, NEW w3 \in RuleWords, NEW w4 \in RuleWords,
         NEW w5 \in RuleWords, NEW w6 \in RuleWords, NEW w7 \in RuleWords, NEW w8 \in RuleWords,
         NEW w9 \in RuleWords,
         AtFront(w1, 1), AtFront(w2, 2), AtFront(w3, 3), AtFront(w4, 4), AtFront(w5, 5),
         Later(w6), Later(w7), Later(w8), Later(w9)
  PROVE  <<w1, w2, w3, w4, w5, w6, w7, w8, w9>> \in WellRules
<1> SUFFICES ASSUME NEW rule, rule = <<w1, w2, w3, w4, w5, w6, w7, w8, w9>> PROVE rule \in WellRules
  OBVIOUS
<1>1. rule \in Seq(RuleWords) /\ Len(rule) = 9
  OBVIOUS
<1>2. \A i \in 1..5 : AtFront(rule[i], i)
  OBVIOUS
<1>3. \A i \in 6..9 : Later(rule[i])
  OBVIOUS
<1> QED BY <1>1, <1>2, <1>3 DEF WellRules

(* The table has a sequence of such rules for every token, one step for each. *)
LEMMA RulesAreWell == \A token \in DOMAIN rawrules : rawrules[token] \in Seq(WellRules)
<1> DEFINE Ruled(rules) == rules \in Seq(WellRules)
<1>1. Ruled(rawrules.ACCOUNT) BY RuleWordsAre, Shape52 DEF rawrules
<1>2. Ruled(rawrules.ADMIN) BY RuleWordsAre, Shape11 DEF rawrules
<1>3. Ruled(rawrules.ASLL) BY RuleWordsAre, Shape22 DEF rawrules
<1>4. Ruled(rawrules.AWAY) BY RuleWordsAre, Shape10 DEF rawrules
<1>5. Ruled(rawrules.BURST) BY RuleWordsAre, Shape32 DEF rawrules
<1>6. Ruled(rawrules.CLEARMODE) BY RuleWordsAre, Shape22 DEF rawrules
<1>7. Ruled(rawrules.CONNECT) BY RuleWordsAre, Shape33 DEF rawrules
<1>8. Ruled(rawrules.CREATE) BY RuleWordsAre, Shape22 DEF rawrules
<1>9. Ruled(rawrules.DESTRUCT) BY RuleWordsAre, Shape22 DEF rawrules
<1>10. Ruled(rawrules.DESYNCH) BY RuleWordsAre, Shape10 DEF rawrules
<1>11. Ruled(rawrules.END_OF_BURST) BY RuleWordsAre, Shape0 DEF rawrules
<1>12. Ruled(rawrules.EOB_ACK) BY RuleWordsAre, Shape0 DEF rawrules
<1>13. Ruled(rawrules.ERROR) BY RuleWordsAre, Shape10 DEF rawrules
<1>14. Ruled(rawrules.GLINE)
  <2>1. <<Arg(1, "snum"), Word(2), Arg(3, "time"), Word(-1)>> \in WellRules
    <3>1. {Arg(1, "snum"), Word(2), Arg(3, "time"), Word(-1)} \subseteq RuleWords
      BY RuleWordsAre
    <3>2. /\ AtFront(Arg(1, "snum"), 1)
          /\ AtFront(Word(2), 2)
          /\ AtFront(Arg(3, "time"), 3)
          /\ Later(Word(-1))
      BY RuleWordsAre
    <3> QED BY <3>1, <3>2, Shape43
  <2>2. <<Arg(1, "snum"), Word(2), Arg(3, "time"), Arg(4, "time"), Word(-1)>> \in WellRules
    <3>1. /\ {Arg(1, "snum"), Word(2), Arg(3, "time"), Arg(4, "time")} \subseteq RuleWords
          /\ {Word(-1)} \subseteq RuleWords
      BY RuleWordsAre
    <3>2. /\ AtFront(Arg(1, "snum"), 1)
          /\ AtFront(Word(2), 2)
          /\ AtFront(Arg(3, "time"), 3)
          /\ AtFront(Arg(4, "time"), 4)
          /\ Later(Word(-1))
      BY RuleWordsAre
    <3> QED BY <3>1, <3>2, Shape54
  <2> QED BY <2>1, <2>2 DEF rawrules
<1>15. Ruled(rawrules.INFO) BY RuleWordsAre, Shape11 DEF rawrules
<1>16. Ruled(rawrules.INVITE) BY RuleWordsAre, Shape22 DEF rawrules
<1>17. Ruled(rawrules.JOIN) BY RuleWordsAre, Shape21 DEF rawrules
<1>18. Ruled(rawrules.JUPE)
  <2>1. <<Arg(1, "snum"), Word(2), Arg(3, "time"), Arg(4, "time"), Word(-1)>> \in WellRules
    <3>1. /\ {Arg(1, "snum"), Word(2), Arg(3, "time"), Arg(4, "time")} \subseteq RuleWords
          /\ {Word(-1)} \subseteq RuleWords
      BY RuleWordsAre
    <3>2. /\ AtFront(Arg(1, "snum"), 1)
          /\ AtFront(Word(2), 2)
          /\ AtFront(Arg(3, "time"), 3)
          /\ AtFront(Arg(4, "time"), 4)
          /\ Later(Word(-1))
      BY RuleWordsAre
    <3> QED BY <3>1, <3>2, Shape54
  <2> QED BY <2>1 DEF rawrules
<1>19. Ruled(rawrules.KICK) BY RuleWordsAre, Shape32 DEF rawrules
<1>20. Ruled(rawrules.KILL) BY RuleWordsAre, Shape21 DEF rawrules
<1>21. Ruled(rawrules.LINKS) BY RuleWordsAre, Shape22 DEF rawrules
<1>22. Ruled(rawrules.LUSERS) BY RuleWordsAre, Shape22 DEF rawrules
<1>23. Ruled(rawrules.MODE) BY RuleWordsAre, Shape21, Shape31 DEF rawrules
<1>24. Ruled(rawrules.MOTD) BY RuleWordsAre, Shape11 DEF rawrules
<1>25. Ruled(rawrules.NAMES) BY RuleWordsAre, Shape22 DEF rawrules
<1>26. Ruled(rawrules.NICK)
  <2>1. <<Word(1), Arg(2, "time")>> \in WellRules
    BY RuleWordsAre, Shape22
  <2>2. <<Word(1), Arg(2, "uint"), Arg(3, "time"), Word(4), Word(5), Rest(6), Word(-3), Word(-2), Word(-1)>> \in WellRules
    <3>1. /\ {Word(1), Arg(2, "uint"), Arg(3, "time"), Word(4), Word(5)} \subseteq RuleWords
          /\ {Rest(6), Word(-3), Word(-2), Word(-1)} \subseteq RuleWords
      BY RuleWordsAre
    <3>2. /\ AtFront(Word(1), 1)
          /\ AtFront(Arg(2, "uint"), 2)
          /\ AtFront(Arg(3, "time"), 3)
          /\ AtFront(Word(4), 4)
          /\ AtFront(Word(5), 5)
          /\ Later(Rest(6))
          /\ Later(Word(-3))
          /\ Later(Word(-2))
          /\ Later(Word(-1))
      BY RuleWordsAre
    <3> QED BY <3>1, <3>2, Shape95
  <2> QED BY <2>1, <2>2 DEF rawrules
<1>27. Ruled(rawrules.NOTICE) BY RuleWordsAre, Shape21 DEF rawrules
<1>28. Ruled(rawrules.OPMODE) BY RuleWordsAre, Shape31 DEF rawrules
<1>29. Ruled(rawrules.PART) BY RuleWordsAre, Shape21 DEF rawrules
<1>30. Ruled(rawrules.PASS) BY RuleWordsAre, Shape10 DEF rawrules
<1>31. Ruled(rawrules.PING) BY RuleWordsAre, Shape10 DEF rawrules
<1>32. Ruled(rawrules.PONG) BY RuleWordsAre, Shape21 DEF rawrules
<1>33. Ruled(rawrules.PRIVMSG) BY RuleWordsAre, Shape21 DEF rawrules
<1>34. Ruled(rawrules.QUIT) BY RuleWordsAre, Shape10 DEF rawrules
<1>35. Ruled(rawrules.RPING)
  <2>1. <<Word(1), Arg(2, "snum"), Word(3)>> \in WellRules
    BY RuleWordsAre, Shape33
  <2>2. <<Arg(1, "snum"), Arg(2, "unum"), Arg(3, "time"), Arg(4, "time"), Opt(5, "word")>> \in WellRules
    <3>1. /\ {Arg(1, "snum"), Arg(2, "unum"), Arg(3, "time"), Arg(4, "time")} \subseteq RuleWords
          /\ {Opt(5, "word")} \subseteq RuleWords
      BY RuleWordsAre
    <3>2. /\ AtFront(Arg(1, "snum"), 1)
          /\ AtFront(Arg(2, "unum"), 2)
          /\ AtFront(Arg(3, "time"), 3)
          /\ AtFront(Arg(4, "time"), 4)
          /\ Later(Opt(5, "word"))
      BY RuleWordsAre
    <3> QED BY <3>1, <3>2, Shape54
  <2> QED BY <2>1, <2>2 DEF rawrules
<1>36. Ruled(rawrules.RPONG)
  <2>1. <<Word(1), Arg(2, "unum"), Arg(3, "time"), Arg(4, "time"), Opt(5, "word")>> \in WellRules
    <3>1. /\ {Word(1), Arg(2, "unum"), Arg(3, "time"), Arg(4, "time")} \subseteq RuleWords
          /\ {Opt(5, "word")} \subseteq RuleWords
      BY RuleWordsAre
    <3>2. /\ AtFront(Word(1), 1)
          /\ AtFront(Arg(2, "unum"), 2)
          /\ AtFront(Arg(3, "time"), 3)
          /\ AtFront(Arg(4, "time"), 4)
          /\ Later(Opt(5, "word"))
      BY RuleWordsAre
    <3> QED BY <3>1, <3>2, Shape54
  <2>2. <<Arg(1, "unum"), Word(2), Arg(3, "long"), Opt(4, "word")>> \in WellRules
    <3>1. {Arg(1, "unum"), Word(2), Arg(3, "long"), Opt(4, "word")} \subseteq RuleWords
      BY RuleWordsAre
    <3>2. /\ AtFront(Arg(1, "unum"), 1)
          /\ AtFront(Word(2), 2)
          /\ AtFront(Arg(3, "long"), 3)
          /\ Later(Opt(4, "word"))
      BY RuleWordsAre
    <3> QED BY <3>1, <3>2, Shape43
  <2> QED BY <2>1, <2>2 DEF rawrules
<1>37. Ruled(rawrules.SERVER)
  <2>1. <<Word(1), Arg(2, "uint"), Arg(3, "time"), Arg(4, "time"), Word(5), Word(6), Word(7), Word(-1)>> \in WellRules
    <3>1. /\ {Word(1), Arg(2, "uint"), Arg(3, "time"), Arg(4, "time"), Word(5)} \subseteq RuleWords
          /\ {Word(6), Word(7), Word(-1)} \subseteq RuleWords
      BY RuleWordsAre
    <3>2. /\ AtFront(Word(1), 1)
          /\ AtFront(Arg(2, "uint"), 2)
          /\ AtFront(Arg(3, "time"), 3)
          /\ AtFront(Arg(4, "time"), 4)
          /\ AtFront(Word(5), 5)
          /\ AtFront(Word(6), 6)
          /\ AtFront(Word(7), 7)
          /\ Later(Word(-1))
      BY RuleWordsAre
    <3> QED BY <3>1, <3>2, Shape87
  <2> QED BY <2>1 DEF rawrules
<1>38. Ruled(rawrules.SETHOST) BY RuleWordsAre, Shape33 DEF rawrules
<1>39. Ruled(rawrules.SETTIME) BY RuleWordsAre, Shape21 DEF rawrules
<1>40. Ruled(rawrules.SILENCE) BY RuleWordsAre, Shape22 DEF rawrules
<1>41. Ruled(rawrules.SQUIT) BY RuleWordsAre, Shape32 DEF rawrules
<1>42. Ruled(rawrules.STATS) BY RuleWordsAre, Shape32 DEF rawrules
<1>43. Ruled(rawrules.TOPIC)
  <2>1. <<Arg(1, "chan"), Opt(-3, "time"), Opt(-2, "time"), Word(-1)>> \in WellRules
    <3>1. {Arg(1, "chan"), Opt(-3, "time"), Opt(-2, "time"), Word(-1)} \subseteq RuleWords
      BY RuleWordsAre
    <3>2. /\ AtFront(Arg(1, "chan"), 1)
          /\ Later(Opt(-3, "time"))
          /\ Later(Opt(-2, "time"))
          /\ Later(Word(-1))
      BY RuleWordsAre
    <3> QED BY <3>1, <3>2, Shape41
  <2> QED BY <2>1 DEF rawrules
<1>44. Ruled(rawrules.TRACE) BY RuleWordsAre, Shape22 DEF rawrules
<1>45. Ruled(rawrules.UPING)
  <2>1. <<Word(1), Arg(2, "uint"), Arg(3, "snum"), Arg(4, "uint")>> \in WellRules
    <3>1. {Word(1), Arg(2, "uint"), Arg(3, "snum"), Arg(4, "uint")} \subseteq RuleWords
      BY RuleWordsAre
    <3>2. /\ AtFront(Word(1), 1)
          /\ AtFront(Arg(2, "uint"), 2)
          /\ AtFront(Arg(3, "snum"), 3)
          /\ AtFront(Arg(4, "uint"), 4)
      BY RuleWordsAre
    <3> QED BY <3>1, <3>2, Shape44
  <2> QED BY <2>1 DEF rawrules
<1>46. Ruled(rawrules.VERSION) BY RuleWordsAre, Shape11 DEF rawrules
<1>47. Ruled(rawrules.WALLCHOPS) BY RuleWordsAre, Shape21 DEF rawrules
<1>48. Ruled(rawrules.WALLOPS) BY RuleWordsAre, Shape10 DEF rawrules
<1>49. Ruled(rawrules.WALLUSERS) BY RuleWordsAre, Shape10 DEF rawrules
<1>50. Ruled(rawrules.WALLVOICES) BY RuleWordsAre, Shape21 DEF rawrules
<1>51. Ruled(rawrules.WHOIS) BY RuleWordsAre, Shape22 DEF rawrules
<1>52. DOMAIN rawrules = {"ACCOUNT", "ADMIN", "ASLL", "AWAY", "BURST", "CLEARMODE",
                      "CONNECT", "CREATE", "DESTRUCT", "DESYNCH", "END_OF_BURST", "EOB_ACK",
                      "ERROR", "GLINE", "INFO", "INVITE", "JOIN", "JUPE",
                      "KICK", "KILL", "LINKS", "LUSERS", "MODE", "MOTD",
                      "NAMES", "NICK", "NOTICE", "OPMODE", "PART", "PASS",
                      "PING", "PONG", "PRIVMSG", "QUIT", "RPING", "RPONG",
                      "SERVER", "SETHOST", "SETTIME", "SILENCE", "SQUIT", "STATS",
                      "TOPIC", "TRACE", "UPING", "VERSION", "WALLCHOPS", "WALLOPS",
                      "WALLUSERS", "WALLVOICES", "WHOIS"}
  BY DEF rawrules
<1> HIDE DEF Ruled
<1>53. \A token \in DOMAIN rawrules : Ruled(rawrules[token])
  BY <1>1, <1>2, <1>3, <1>4, <1>5, <1>6, <1>7, <1>8, <1>9, <1>10, <1>11,
     <1>12, <1>13, <1>14, <1>15, <1>16, <1>17, <1>18, <1>19, <1>20, <1>21, <1>22,
     <1>23, <1>24, <1>25, <1>26, <1>27, <1>28, <1>29, <1>30, <1>31, <1>32, <1>33,
     <1>34, <1>35, <1>36, <1>37, <1>38, <1>39, <1>40, <1>41, <1>42, <1>43, <1>44,
     <1>45, <1>46, <1>47, <1>48, <1>49, <1>50, <1>51, <1>52
<1> QED BY <1>53 DEF Ruled

LEMMA RulesAreRules == \A token \in DOMAIN rawrules : rawrules[token] \in Seq(Seq(RuleWords))
<1>1. WellRules \subseteq Seq(RuleWords)
  BY DEF WellRules
<1> QED BY <1>1, RulesAreWell

-----------------------------------------------------------------------------
(* What arrange_args has made of the words of a line. *)
Accounted(m, argc) ==
  /\ m \in Arrangement
  /\ m.used \subseteq 1..(argc + 1) /\ Placed(m.args, m.used)
  /\ m.rest \subseteq 1..argc /\ m.used \cap m.rest = {}
  /\ m.ok => Consumed(m.used, m.rest, argc)

Obeyed(words, known, rule, m) ==
  m.ok => /\ Len(m.args) = Len(rule)
          /\ \A j \in 1..Len(rule) : Fits(words, known, rule[j], m.args[j])

LEMMA ArrangeAccounts ==
  ASSUME NEW S, NEW words \in Seq(S), words # <<>>, NEW known, NEW rule \in Seq(RuleWords)
  PROVE  /\ Accounted(Arrange(words, known, rule), Len(words) - 1)
         /\ Obeyed(words, known, rule, Arrange(words, known, rule))
<1> DEFINE env == <<words, known, rule>>
           argc == Len(words) - 1
           start == [ok |-> TRUE, args |-> <<>>, used |-> {}, rest |-> {}, greedyfrom |-> 0,
                     past |-> FALSE, variant |-> 0]
           s == Taking!Folded(env, start, rule)
           rest == IF s.greedyfrom = 0 THEN {}
                   ELSE {i \in s.greedyfrom..argc : s.greedyfrom..i \cap s.used = {}}
<1>1. Arrange(words, known, rule) =
        [s EXCEPT !.ok = @ /\ Consumed(s.used, rest, argc), !.rest = rest]
  BY DEF Arrange, FoldLeft, MapThenFoldSet, Max, TakeStep, Taking!Folded, Taking!IsFold,
         Taking!Largest
<1>2. Len(rule) \in Nat /\ DOMAIN rule = 1..Len(rule)
  OBVIOUS
<1>3. Arranged(env, 0, start)
  BY DEF Arranged, Taken, Fitted, Arrangement, Placed
<1>4. ASSUME NEW k \in 1..Len(rule), NEW t, Arranged(env, k - 1, t)
      PROVE  Arranged(env, k, TakeStep(env, t, rule[k]))
  <2>1. rule[k] \in RuleWords /\ (k - 1) + 1 = k /\ k - 1 \in Nat
    OBVIOUS
  <2>2. TakeStep(env, t, rule[k]) = Take(words, known, t, rule[k])
    BY DEF TakeStep
  <2>3. Taken(env, Take(words, known, t, rule[k]))
    BY <1>4, <2>1, TakeKeeps DEF Arranged
  <2>4. Fitted(env, (k - 1) + 1, Take(words, known, t, rule[(k - 1) + 1]))
    BY <1>4, <2>1, TakeFits DEF Arranged
  <2> QED BY <2>1, <2>2, <2>3, <2>4 DEF Arranged
<1>5. Arranged(env, Len(rule), s)
  <2> HIDE DEF start, env
  <2> QED BY <1>2, <1>3, <1>4, Taking!FoldKeeps
<1> HIDE DEF s
<1>6. s \in Arrangement /\ s.used \subseteq 1..(argc + 1) /\ Placed(s.args, s.used)
  <2>1. env[1] = words /\ argc + 1 = Len(words)
    OBVIOUS
  <2> QED BY <1>5, <2>1 DEF Arranged, Taken
<1>7. rest \in SUBSET Nat /\ rest \subseteq 1..argc /\ s.used \cap rest = {}
  <2>1. s.greedyfrom \in Nat /\ argc \in Nat
    BY <1>6 DEF Arrangement
  <2>2. ASSUME NEW i \in rest PROVE i \in 1..argc /\ i \notin s.used
    BY <2>1, <2>2
  <2> QED BY <2>2
<1> HIDE DEF rest
<1> DEFINE m == [s EXCEPT !.ok = @ /\ Consumed(s.used, rest, argc), !.rest = rest]
<1>8. m \in Arrangement /\ m.used = s.used /\ m.args = s.args /\ m.rest = rest
      /\ (m.ok => Consumed(s.used, rest, argc) /\ s.ok)
  BY <1>6, <1>7 DEF Arrangement
<1> HIDE DEF m
<1>9. Accounted(m, argc)
  BY <1>6, <1>7, <1>8 DEF Accounted
<1>10. Obeyed(words, known, rule, m)
  BY <1>5, <1>8 DEF Arranged, Fitted, Obeyed
<1>11. Arrange(words, known, rule) = m
  BY <1>1 DEF m
<1> QED BY <1>9, <1>10, <1>11

-----------------------------------------------------------------------------
(* handle_input tries the variants of the token's rule. *)
TryStep(env, t, rule) == Try(env[1], env[2], t, rule)

Tried(env, k, t) ==
  /\ t.variant \in Nat /\ t.past \in BOOLEAN /\ t.ok \in BOOLEAN
  /\ ~ t.ok => t.variant = k
  /\ t.ok => /\ t.variant \in 1..k /\ Accounted(t, Len(env[1]) - 1)
             /\ Obeyed(env[1], env[2], env[3][t.variant], t)

Trying == INSTANCE FoldFacts WITH Step <- TryStep, Good <- Tried

LEMMA MatchAccounts ==
  ASSUME NEW S, NEW words \in Seq(S), words # <<>>, NEW known, NEW token \in DOMAIN rawrules,
         Match(token, words, known).ok
  PROVE  LET m == Match(token, words, known)
         IN /\ Accounted(m, Len(words) - 1) /\ m.variant \in DOMAIN rawrules[token]
            /\ Obeyed(words, known, rawrules[token][m.variant], m)
<1> DEFINE rules == rawrules[token]
           env == <<words, known, rules>>
           start == [ok |-> FALSE, variant |-> 0, past |-> FALSE]
<1>1. Match(token, words, known) = Trying!Folded(env, start, rules)
  BY DEF Match, FoldLeft, MapThenFoldSet, Max, TryStep, Trying!Folded, Trying!IsFold,
         Trying!Largest
<1>2. rules \in Seq(Seq(RuleWords))
  BY RulesAreRules
<1> HIDE DEF rules
<1>3. Len(rules) \in Nat /\ DOMAIN rules = 1..Len(rules)
  BY <1>2
<1>4. Tried(env, 0, start)
  BY DEF Tried
<1>5. ASSUME NEW k \in 1..Len(rules), NEW t, Tried(env, k - 1, t)
      PROVE  Tried(env, k, TryStep(env, t, rules[k]))
  <2>1. CASE t.ok
    <3>1. TryStep(env, t, rules[k]) = t
      BY <2>1 DEF Try, TryStep
    <3>2. \A v \in 1..(k - 1) : v \in 1..k
      OBVIOUS
    <3> HIDE DEF env
    <3>3. Tried(env, k, t)
      BY <1>5, <2>1, <3>2 DEF Tried
    <3> QED BY <3>1, <3>3
  <2>2. CASE ~ t.ok
    <3> DEFINE a == Arrange(words, known, rules[k])
               b == [a EXCEPT !.past = @ \/ t.past, !.variant = t.variant + 1]
    <3>1. rules[k] \in Seq(RuleWords)
      BY <1>2
    <3>2. Accounted(a, Len(words) - 1) /\ Obeyed(words, known, rules[k], a)
      BY <3>1, ArrangeAccounts
    <3>3. TryStep(env, t, rules[k]) = b
      BY <2>2 DEF Try, TryStep
    <3>4. t.variant + 1 = k /\ k \in Nat /\ t.past \in BOOLEAN
      BY <1>5, <2>2 DEF Tried
    <3> HIDE DEF a
    <3>5. /\ b \in Arrangement /\ b.used = a.used /\ b.rest = a.rest /\ b.args = a.args
          /\ b.ok = a.ok /\ b.variant = k
      BY <3>2, <3>4 DEF Accounted, Arrangement
    <3>6. Accounted(b, Len(words) - 1) /\ Obeyed(words, known, rules[k], b)
      BY <3>2, <3>5 DEF Accounted, Obeyed
    <3>7. b.past \in BOOLEAN /\ b.ok \in BOOLEAN
      BY <3>5 DEF Arrangement
    <3>8. env[1] = words /\ env[2] = known /\ env[3] = rules
      OBVIOUS
    <3> HIDE DEF b, env
    <3>9. Tried(env, k, b)
      BY <3>5, <3>6, <3>7, <3>8 DEF Tried
    <3> QED BY <3>3, <3>9
  <2> QED BY <2>1, <2>2
<1>6. Tried(env, Len(rules), Trying!Folded(env, start, rules))
  <2> HIDE DEF start, env
  <2> QED BY <1>3, <1>4, <1>5, Trying!FoldKeeps
<1>7. env[1] = words /\ env[2] = known /\ env[3] = rules
  OBVIOUS
<1>8. rules = rawrules[token]
  BY DEF rules
<1> HIDE DEF env
<1> QED BY <1>1, <1>3, <1>6, <1>7, <1>8 DEF Tried

(* The word that became an argument, unless it was left out. *)
LEMMA OneWord ==
  ASSUME NEW S, NEW words \in Seq(S), words # <<>>, NEW known, NEW rule \in Seq(RuleWords),
         NEW m, Accounted(m, Len(words) - 1), Obeyed(words, known, rule, m), m.ok,
         NEW j \in 1..Len(rule), rule[j].flag # "greedy",
         m.args[j] # Absent \/ rule[j].flag # "optional"
  PROVE  /\ m.args[j] = Source(rule[j].at, Len(words) - 1)
         /\ m.args[j] \in m.used /\ m.args[j] \in 1..Len(words)
         /\ rule[j].type # "word" => words[m.args[j]] \in known[rule[j].type]
<1>1. j \in 1..Len(m.args) /\ Fits(words, known, rule[j], m.args[j])
  BY DEF Obeyed
<1>2. m.args[j] \notin {Absent, Greedy}
  BY <1>1 DEF Fits
<1>3. m.args[j] \in m.used
  BY <1>1, <1>2 DEF Accounted, Placed
<1> QED BY <1>1, <1>2, <1>3 DEF Fits, Accounted

(* Words counted from the front that must be there are there: none of them *)
(* is read behind the line, or more words were taken than there are.       *)
LEMMA FrontWords ==
  ASSUME NEW S, NEW words \in Seq(S), words # <<>>, NEW known, NEW rule \in Seq(RuleWords),
         NEW m, Accounted(m, Len(words) - 1), Obeyed(words, known, rule, m), m.ok,
         NEW n \in 1..Len(rule), \A i \in 1..n : rule[i].flag = "normal" /\ rule[i].at = i
  PROVE  /\ n <= Len(words) - 1
         /\ \A i \in 1..n : /\ m.args[i] = i
                            /\ rule[i].type # "word" => words[i] \in known[rule[i].type]
<1> DEFINE argc == Len(words) - 1
<1>1. ASSUME NEW i \in 1..n
      PROVE  /\ m.args[i] = i /\ i \in m.used
             /\ rule[i].type # "word" => words[i] \in known[rule[i].type]
  <2>1. i \in 1..Len(rule) /\ rule[i].flag = "normal" /\ rule[i].at = i
    OBVIOUS
  <2>2. Source(i, argc) = i
    BY DEF Source
  <2>3. i \in 1..Len(m.args) /\ Fits(words, known, rule[i], m.args[i])
    BY <2>1 DEF Obeyed
  <2>4. m.args[i] \notin {Absent, Greedy}
    BY <2>1, <2>3 DEF Fits
  <2>5. m.args[i] \in m.used
    BY <2>3, <2>4 DEF Accounted, Placed
  <2> QED BY <2>1, <2>2, <2>3, <2>4, <2>5 DEF Fits
<1>2. m.used \subseteq 1..(argc + 1) /\ argc \in Nat
  BY DEF Accounted
<1>3. n <= argc + 1
  <2>1. n \in 1..n
    OBVIOUS
  <2> QED BY <1>1, <1>2, <2>1
<1>4. n # argc + 1
  <2> SUFFICES ASSUME n = argc + 1 PROVE FALSE
    OBVIOUS
  <2>1. m.used = 1..n
    BY <1>1, <1>2
  <2>. argc \in Int /\ n \in Int /\ 1 \in Int /\ n >= 1
    BY <1>2
  <2>2. Cardinality(1..n) = n /\ IsFiniteSet(1..argc)
    <3> HIDE DEF argc
    <3> QED BY FS_Interval
  <2>3. m.rest \in SUBSET (1..argc)
    BY DEF Accounted
  <2>4. Cardinality(m.rest) \in Nat
    BY <2>2, <2>3, FS_Subset, FS_CardinalityType
  <2>5. Cardinality(m.used) + Cardinality(m.rest) = argc
    BY DEF Accounted, Consumed
  <2> QED BY <1>2, <2>1, <2>2, <2>4, <2>5
<1> QED BY <1>1, <1>2, <1>3, <1>4

(* As many words were taken as there are, no two of them the same: one is  *)
(* left for each that was taken behind the line.                           *)
LEMMA AllButOne ==
  ASSUME NEW argc \in Nat, NEW used \in SUBSET (1..(argc + 1)), NEW rest \in SUBSET (1..argc),
         used \cap rest = {}, Cardinality(used) + Cardinality(rest) = argc
  PROVE  Cardinality((1..argc) \ (used \cup rest)) = IF argc + 1 \in used THEN 1 ELSE 0
<1> DEFINE own == used \ {argc + 1}
           taken == own \cup rest
           lost == (1..argc) \ taken
<1>1. IsFiniteSet(1..argc) /\ Cardinality(1..argc) = argc
  BY FS_Interval
<1>2. IsFiniteSet(own) /\ IsFiniteSet(rest) /\ IsFiniteSet(taken)
  <2>1. own \in SUBSET (1..argc) /\ taken \in SUBSET (1..argc)
    OBVIOUS
  <2> HIDE DEF own, taken
  <2> QED BY <1>1, <2>1, FS_Subset
<1>3. Cardinality(own) \in Nat /\ Cardinality(rest) \in Nat
  BY <1>2, FS_CardinalityType
<1>4. Cardinality(taken) = Cardinality(own) + Cardinality(rest)
  <2>1. Cardinality(taken) = Cardinality(own) + Cardinality(rest) - Cardinality(own \cap rest)
    BY <1>2, FS_Union
  <2>2. own \cap rest = {}
    OBVIOUS
  <2> HIDE DEF own, taken
  <2>3. Cardinality(own \cap rest) = 0
    BY <2>2, FS_EmptySet
  <2> QED BY <1>3, <2>1, <2>3
<1>5. Cardinality(used) = Cardinality(own) + IF argc + 1 \in used THEN 1 ELSE 0
  <2>1. CASE argc + 1 \in used
    <3>1. used = own \cup {argc + 1} /\ argc + 1 \notin own
      BY <2>1
    <3> HIDE DEF own
    <3>2. Cardinality(own \cup {argc + 1}) = Cardinality(own) + 1
      BY <1>2, <3>1, FS_AddElement
    <3> QED BY <2>1, <3>1, <3>2
  <2>2. CASE argc + 1 \notin used
    <3>1. used = own
      BY <2>2
    <3> HIDE DEF own
    <3> QED BY <1>3, <2>2, <3>1
  <2> QED BY <2>1, <2>2
<1>6. Cardinality(lost) = argc - Cardinality(taken)
  <2>1. Cardinality(lost) = Cardinality(1..argc) - Cardinality((1..argc) \cap taken)
    BY <1>1, FS_Difference
  <2>2. taken \subseteq 1..argc
    OBVIOUS
  <2> HIDE DEF taken, lost
  <2>3. (1..argc) \cap taken = taken
    BY <2>2
  <2> QED BY <1>1, <2>1, <2>3
<1>7. lost = (1..argc) \ (used \cup rest)
  OBVIOUS
<1> HIDE DEF own, taken, lost
<1> QED BY <1>3, <1>4, <1>5, <1>6, <1>7

(* A line that is accepted, whatever it is, whatever can be converted and  *)
(* whatever lies behind it: each of its words is one argument or one       *)
(* member of the greedy list, but for one if a word behind the line has    *)
(* been taken.                                                             *)
THEOREM EachWordOnce ==
  ASSUME NEW S, NEW words \in Seq(S), words # <<>>, NEW known, NEW token \in DOMAIN rawrules,
         Match(token, words, known).ok
  PROVE  LET m == Match(token, words, known)
         IN /\ m.used \cap m.rest = {}
            /\ \A i \in m.used : Cardinality({k \in DOMAIN m.args : m.args[k] = i}) = 1
            /\ Cardinality((1..(Len(words) - 1)) \ (m.used \cup m.rest)) = IF Len(words) \in m.used THEN 1 ELSE 0
<1> DEFINE m == Match(token, words, known)
           argc == Len(words) - 1
<1>0. argc \in Nat /\ argc + 1 = Len(words)
  OBVIOUS
<1>1. Accounted(m, argc) /\ m.ok
  BY MatchAccounts
<1> HIDE DEF m
<1>2. m.used \subseteq 1..(argc + 1) /\ m.rest \subseteq 1..argc /\ m.used \cap m.rest = {}
  BY <1>0, <1>1 DEF Accounted
<1>3. Cardinality((1..argc) \ (m.used \cup m.rest)) = IF argc + 1 \in m.used THEN 1 ELSE 0
  BY <1>0, <1>1, <1>2, AllButOne DEF Accounted, Consumed
<1>4. ASSUME NEW i \in m.used PROVE Cardinality({k \in DOMAIN m.args : m.args[k] = i}) = 1
  <2>1. DOMAIN m.args = 1..Len(m.args) /\ Placed(m.args, m.used)
    BY <1>1 DEF Accounted, Arrangement
  <2>2. PICK k \in 1..Len(m.args) : m.args[k] = i
    BY <2>1 DEF Placed
  <2>3. {j \in DOMAIN m.args : m.args[j] = i} = {k}
    BY <2>1, <2>2 DEF Placed
  <2> QED BY <2>3, FS_Singleton
<1> QED BY <1>0, <1>2, <1>3, <1>4 DEF m

-----------------------------------------------------------------------------
(* Two lines that differ at most in what lies behind them. *)
Alike(one, two) == Len(one) = Len(two) /\ \A i \in 1..(Len(one) - 1) : one[i] = two[i]

(* No word that must be there is read behind a line that is accepted. *)
LEMMA NotBehind ==
  ASSUME NEW S, NEW words \in Seq(S), words # <<>>, NEW known, NEW rule \in WellRules,
         Arrange(words, known, rule).ok, NEW j \in 1..Len(rule), rule[j].flag = "normal"
  PROVE  rule[j].at # Len(words)
<1> SUFFICES ASSUME rule[j].at = Len(words) PROVE FALSE
  OBVIOUS
<1>1. rule \in Seq(RuleWords) /\ Len(words) \in Nat /\ Len(words) > 0 /\ Len(rule) \in Nat
  BY DEF WellRules
<1>2. PICK k \in 0..Len(rule) : /\ \A i \in 1..k : AtFront(rule[i], i)
                                /\ \A i \in (k + 1)..Len(rule) : Later(rule[i])
  BY DEF WellRules
<1>3. j \in 1..k
  BY <1>1, <1>2 DEF Later
<1>4. j = Len(words) /\ \A i \in 1..j : rule[i].flag = "normal" /\ rule[i].at = i
  BY <1>2, <1>3 DEF AtFront
<1> DEFINE m == Arrange(words, known, rule)
<1>5. Accounted(m, Len(words) - 1) /\ Obeyed(words, known, rule, m)
  BY <1>1, ArrangeAccounts
<1> HIDE DEF m
<1>6. m.ok
  BY DEF m
<1>7. j <= Len(words) - 1
  BY <1>1, <1>4, <1>5, <1>6, FrontWords
<1> QED BY <1>1, <1>4, <1>7

(* Where nothing is read behind the lines, nothing tells them apart. *)
LEMMA SameArrangement ==
  ASSUME NEW S, NEW one \in Seq(S), one # <<>>, NEW two \in Seq(S), Alike(one, two), NEW known,
         NEW rule \in WellRules, \A j \in 1..Len(rule) : rule[j].flag # "greedy" => rule[j].at # Len(one)
  PROVE  Arrange(one, known, rule) = Arrange(two, known, rule)
<1> DEFINE env1 == <<one, known, rule>>
           env2 == <<two, known, rule>>
           start == [ok |-> TRUE, args |-> <<>>, used |-> {}, rest |-> {}, greedyfrom |-> 0,
                     past |-> FALSE, variant |-> 0]
<1>1. rule \in Seq(RuleWords) /\ Len(rule) \in Nat /\ DOMAIN rule = 1..Len(rule)
      /\ Len(one) - 1 \in Nat /\ Len(two) - 1 = Len(one) - 1
  BY DEF WellRules, Alike
<1>2. ASSUME NEW j \in 1..Len(rule), NEW t
      PROVE  TakeStep(env1, t, rule[j]) = TakeStep(env2, t, rule[j])
  <2> DEFINE r == rule[j]
             argc == Len(one) - 1
             src == Source(r.at, argc)
             missing == src < 1 \/ src > argc + 1 \/ src \in t.used
             read == ~ missing /\ r.type # "word"
  <2>1. r \in RuleWords /\ r.at \in Int /\ src \in Int
    <3>1. r \in RuleWords
      BY <1>1
    <3> HIDE DEF r
    <3> QED BY <1>1, <3>1 DEF RuleWords, Source
  <2>2. r.flag = "greedy" => r.type = "word"
    <3>1. PICK k \in 0..Len(rule) : /\ \A i \in 1..k : AtFront(rule[i], i)
                                    /\ \A i \in (k + 1)..Len(rule) : Later(rule[i])
      BY DEF WellRules
    <3>2. j \in 1..k \/ j \in (k + 1)..Len(rule)
      BY <1>1
    <3> QED BY <3>1, <3>2 DEF AtFront, Later
  <2>3. read => src \in 1..argc
    <3>1. read => r.at # argc + 1
      BY <2>2
    <3>2. src = argc + 1 => r.at = argc + 1
      BY <1>1, <2>1 DEF Source
    <3> QED BY <1>1, <2>1, <3>1, <3>2
  <2>4. read => one[src] = two[src]
    BY <2>3 DEF Alike
  <2>5. (read => one[src] \in known[r.type]) <=> (read => two[src] \in known[r.type])
    BY <2>4
  <2>6. Len(two) - 1 = argc
    BY <1>1
  <2> HIDE DEF r
  <2>7. Take(one, known, t, r) = Take(two, known, t, r)
    BY <2>5, <2>6 DEF Take
  <2> QED BY <2>7 DEF TakeStep, r
<1>3. Taking!Folded(env1, start, rule) = Taking!Folded(env2, start, rule)
  <2> HIDE DEF env1, env2, start
  <2> QED BY <1>1, <1>2, Taking!SameSteps
<1> DEFINE Ends(s, argc) ==
      LET rest == IF s.greedyfrom = 0 THEN {}
                  ELSE {i \in s.greedyfrom..argc : s.greedyfrom..i \cap s.used = {}}
      IN [s EXCEPT !.ok = @ /\ Consumed(s.used, rest, argc), !.rest = rest]
<1>4. /\ Arrange(one, known, rule) = Ends(Taking!Folded(env1, start, rule), Len(one) - 1)
      /\ Arrange(two, known, rule) = Ends(Taking!Folded(env2, start, rule), Len(two) - 1)
  BY DEF Arrange, FoldLeft, MapThenFoldSet, Max, TakeStep, Taking!Folded, Taking!IsFold,
         Taking!Largest
<1> HIDE DEF Ends
<1> QED BY <1>1, <1>3, <1>4

LEMMA AlikeArranged ==
  ASSUME NEW S, NEW one \in Seq(S), one # <<>>, NEW two \in Seq(S), Alike(one, two), NEW known,
         NEW rule \in WellRules, \A j \in 1..Len(rule) : rule[j].flag = "optional" => rule[j].at # Len(one)
  PROVE  /\ Arrange(one, known, rule).ok = Arrange(two, known, rule).ok
         /\ Arrange(one, known, rule).ok => Arrange(one, known, rule).args = Arrange(two, known, rule).args
<1>1. rule \in Seq(RuleWords) /\ two # <<>> /\ Len(two) = Len(one)
  BY DEF WellRules, Alike
<1>2. \A j \in 1..Len(rule) : rule[j].flag \in {"normal", "optional", "greedy"}
  <2>1. \A w \in RuleWords : w.flag \in {"normal", "optional", "greedy"}
    BY DEF RuleWords
  <2> QED BY <1>1, <2>1
<1>3. Arrange(one, known, rule).ok \in BOOLEAN /\ Arrange(two, known, rule).ok \in BOOLEAN
  BY <1>1, ArrangeAccounts DEF Accounted, Arrangement
<1>4. Arrange(one, known, rule).ok \/ Arrange(two, known, rule).ok =>
        \A j \in 1..Len(rule) : rule[j].flag # "greedy" => rule[j].at # Len(one)
  BY <1>1, <1>2, NotBehind
<1>5. Arrange(one, known, rule).ok \/ Arrange(two, known, rule).ok =>
        Arrange(one, known, rule) = Arrange(two, known, rule)
  BY <1>4, SameArrangement
<1> QED BY <1>3, <1>5

(* handle_input takes the first variant that fits. *)
First(env, k, t) ==
  /\ t.ok \in BOOLEAN /\ t.variant \in 0..k
  /\ ~ t.ok => t.variant = k /\ \A v \in 1..k : ~ Arrange(env[1], env[2], env[3][v]).ok
  /\ t.ok => /\ t.variant \in 1..k
             /\ Arrange(env[1], env[2], env[3][t.variant]).ok
             /\ t.args = Arrange(env[1], env[2], env[3][t.variant]).args
             /\ \A v \in 1..(t.variant - 1) : ~ Arrange(env[1], env[2], env[3][v]).ok

Choosing == INSTANCE FoldFacts WITH Step <- TryStep, Good <- First

LEMMA MatchIsFirst ==
  ASSUME NEW S, NEW words \in Seq(S), words # <<>>, NEW known, NEW token \in DOMAIN rawrules
  PROVE  First(<<words, known, rawrules[token]>>, Len(rawrules[token]), Match(token, words, known))
<1> DEFINE rules == rawrules[token]
           env == <<words, known, rules>>
           start == [ok |-> FALSE, variant |-> 0, past |-> FALSE]
<1>1. Match(token, words, known) = Choosing!Folded(env, start, rules)
  BY DEF Match, FoldLeft, MapThenFoldSet, Max, TryStep, Choosing!Folded, Choosing!IsFold,
         Choosing!Largest
<1>2. rules \in Seq(Seq(RuleWords))
  BY RulesAreRules
<1> HIDE DEF rules
<1>3. Len(rules) \in Nat /\ DOMAIN rules = 1..Len(rules)
  BY <1>2
<1>4. First(env, 0, start)
  BY DEF First
<1>5. ASSUME NEW k \in 1..Len(rules), NEW t, First(env, k - 1, t)
      PROVE  First(env, k, TryStep(env, t, rules[k]))
  <2>0. env[1] = words /\ env[2] = known /\ env[3] = rules
    OBVIOUS
  <2>1. CASE t.ok
    <3>1. TryStep(env, t, rules[k]) = t
      BY <2>1 DEF Try, TryStep
    <3>2. t.variant \in 1..(k - 1) => t.variant \in 0..k /\ t.variant \in 1..k
      OBVIOUS
    <3> HIDE DEF env
    <3>3. First(env, k, t)
      BY <1>5, <2>1, <3>2 DEF First
    <3> QED BY <3>1, <3>3
  <2>2. CASE ~ t.ok
    <3> DEFINE a == Arrange(words, known, rules[k])
               b == [a EXCEPT !.past = @ \/ t.past, !.variant = t.variant + 1]
    <3>1. a \in Arrangement
      <4>1. rules[k] \in Seq(RuleWords)
        BY <1>2
      <4> QED BY <4>1, ArrangeAccounts DEF Accounted
    <3>2. TryStep(env, t, rules[k]) = b
      BY <2>2 DEF Try, TryStep
    <3>3. t.variant = k - 1 /\ \A v \in 1..(k - 1) : ~ Arrange(words, known, rules[v]).ok
      BY <1>5, <2>0, <2>2 DEF First
    <3>4. a = Arrange(words, known, rules[k])
      OBVIOUS
    <3> HIDE DEF a
    <3>5. b.ok = a.ok /\ b.ok \in BOOLEAN /\ b.args = a.args /\ b.variant = k
      BY <3>1, <3>3 DEF Arrangement
    <3> HIDE DEF b, env
    <3>6. First(env, k, b)
      BY <2>0, <3>3, <3>4, <3>5 DEF First
    <3> QED BY <3>2, <3>6
  <2> QED BY <2>1, <2>2
<1>6. First(env, Len(rules), Choosing!Folded(env, start, rules))
  <2> HIDE DEF start, env
  <2> QED BY <1>3, <1>4, <1>5, Choosing!FoldKeeps
<1> QED BY <1>1, <1>6 DEF rules

(* What lies behind a line decides neither whether it is accepted, nor by  *)
(* which variant, nor what its arguments are, whatever the line is: unless *)
(* it ends right before an optional word (arrange_args).                   *)
THEOREM NothingBehind ==
  ASSUME NEW S, NEW one \in Seq(S), one # <<>>, NEW two \in Seq(S), Alike(one, two), NEW known,
         NEW token \in DOMAIN rawrules,
         \A v \in 1..Len(rawrules[token]) : \A j \in 1..Len(rawrules[token][v]) :
           rawrules[token][v][j].flag = "optional" => rawrules[token][v][j].at # Len(one)
  PROVE  LET m == Match(token, one, known)
             n == Match(token, two, known)
         IN m.ok = n.ok /\ (m.ok => m.variant = n.variant /\ m.args = n.args)
<1> DEFINE rules == rawrules[token]
           m == Match(token, one, known)
           n == Match(token, two, known)
           A(v) == Arrange(one, known, rules[v])
           B(v) == Arrange(two, known, rules[v])
<1>1. Len(rules) \in Nat /\ two # <<>> /\ \A v \in 1..Len(rules) : rules[v] \in WellRules
  BY RulesAreWell DEF Alike
<1>2. \A v \in 1..Len(rules) : A(v).ok = B(v).ok /\ (A(v).ok => A(v).args = B(v).args)
  BY <1>1, AlikeArranged
<1>3. First(<<one, known, rules>>, Len(rules), m) /\ First(<<two, known, rules>>, Len(rules), n)
  BY <1>1, MatchIsFirst
<1> HIDE DEF rules, m, n
<1>4. /\ m.ok \in BOOLEAN
      /\ ~ m.ok => \A v \in 1..Len(rules) : ~ A(v).ok
      /\ m.ok => /\ m.variant \in 1..Len(rules) /\ A(m.variant).ok /\ m.args = A(m.variant).args
                 /\ \A v \in 1..(m.variant - 1) : ~ A(v).ok
  BY <1>3 DEF First
<1>5. /\ n.ok \in BOOLEAN
      /\ ~ n.ok => \A v \in 1..Len(rules) : ~ B(v).ok
      /\ n.ok => /\ n.variant \in 1..Len(rules) /\ B(n.variant).ok /\ n.args = B(n.variant).args
                 /\ \A v \in 1..(n.variant - 1) : ~ B(v).ok
  BY <1>3 DEF First
<1> HIDE DEF A, B
<1>6. m.ok = n.ok
  BY <1>2, <1>4, <1>5
<1>7. m.ok => m.variant = n.variant
  <2> SUFFICES ASSUME m.ok PROVE m.variant = n.variant
    OBVIOUS
  <2>0. /\ m.variant \in 1..Len(rules) /\ A(m.variant).ok
        /\ n.variant \in 1..Len(rules) /\ B(n.variant).ok
    BY <1>4, <1>5, <1>6
  <2>1. A(n.variant).ok /\ B(m.variant).ok
    BY <1>2, <2>0
  <2>2. n.variant \notin 1..(m.variant - 1)
    BY <1>4, <2>1
  <2>3. m.variant \notin 1..(n.variant - 1)
    BY <1>5, <1>6, <2>1
  <2> QED BY <1>1, <2>0, <2>2, <2>3
<1>8. m.ok => m.args = n.args
  BY <1>2, <1>4, <1>5, <1>6, <1>7
<1> QED BY <1>6, <1>7, <1>8 DEF m, n

=============================================================================
