------------------------------ MODULE FoldFacts ------------------------------
(***************************************************************************)
(* What holds of the start of a fold and is kept by each of its steps      *)
(* holds of its result.                                                    *)
(*                                                                         *)
(* A step and what it keeps are operators, which no fact that is cited can *)
(* have as a parameter: they are constants of this module, which is        *)
(* instantiated for each fold.  env stands for what the fold's surroundings *)
(* contribute to a step.                                                   *)
(***************************************************************************)
EXTENDS Integers, Sequences, WellFoundedInduction, TLAPS

CONSTANTS
  Step(_, _, _),   \* env, what the fold has come to, the next element
  Good(_, _, _)    \* env, the number of elements so far, what it has come to

Largest(s) == CHOOSE x \in s : \A y \in s : x >= y

IsFold(env, base, seq, it) ==
  it = [s \in SUBSET DOMAIN seq |->
          IF s = {} THEN base ELSE Step(env, it[s \ {Largest(s)}], seq[Largest(s)])]

(* FoldLeft of the community modules, with its definitions expanded. *)
Folded(env, base, seq) == (CHOOSE it : IsFold(env, base, seq, it))[DOMAIN seq]

-----------------------------------------------------------------------------
(* Induction up to n, for a set that can be named. *)
LEMMA UpTo ==
  ASSUME NEW n \in Nat, NEW Z, 0 \in Z, \A k \in 0..n : k \in Z /\ k < n => k + 1 \in Z
  PROVE  n \in Z
<1> SUFFICES ASSUME n \notin Z PROVE FALSE
  OBVIOUS
<1> DEFINE Bad == {k \in 0..n : k \notin Z}
<1>1. Bad \in SUBSET Nat /\ Bad # {}
  OBVIOUS
<1>2. PICK k \in Bad : \A j \in Bad : ~ (<<j, k>> \in OpToRel(<, Nat))
  BY <1>1, NatLessThanWellFounded, WFMin
<1>3. k \in 1..n /\ k - 1 \in 0..n /\ k - 1 < n
  OBVIOUS
<1>4. k - 1 \in Z
  <2>1. \A j \in Bad : ~ j < k
    BY <1>1, <1>2 DEF OpToRel
  <2> QED BY <1>3, <2>1
<1>5. (k - 1) + 1 \in Z
  BY <1>3, <1>4
<1>6. (k - 1) + 1 = k
  BY <1>3
<1> QED BY <1>5, <1>6

LEMMA LargestIs == ASSUME NEW n \in Nat, NEW s \in SUBSET (1..n), n \in s PROVE Largest(s) = n
<1>1. \A y \in s : n >= y
  OBVIOUS
<1>2. ASSUME NEW x \in s, \A y \in s : x >= y PROVE x = n
  BY <1>1, <1>2
<1> QED BY <1>1, <1>2 DEF Largest

LEMMA HasLargest ==
  ASSUME NEW n \in Nat, NEW s \in SUBSET (1..n), s # {} PROVE Largest(s) \in s
<1> DEFINE left == {n - x : x \in s}
<1>1. left \in SUBSET Nat /\ left # {}
  <2>1. \A x \in s : n - x \in Nat
    OBVIOUS
  <2> QED BY <2>1
<1>2. PICK m \in left : \A j \in left : ~ (<<j, m>> \in OpToRel(<, Nat))
  BY <1>1, NatLessThanWellFounded, WFMin
<1>3. \A j \in left : ~ j < m
  BY <1>1, <1>2 DEF OpToRel
<1>4. PICK x \in s : m = n - x
  OBVIOUS
<1>5. \A y \in s : x >= y
  BY <1>3, <1>4
<1> QED BY <1>5 DEF Largest

(* A fold is defined by recursion over sets, so that it is defined at all  *)
(* has to be shown.                                                        *)
LEMMA FoldExists ==
  ASSUME NEW env, NEW base, NEW seq, NEW n \in Nat, DOMAIN seq = 1..n
  PROVE  \E it : IsFold(env, base, seq, it)
<1> DEFINE Next(it, s) == IF s = {} THEN base ELSE Step(env, it[s \ {Largest(s)}], seq[Largest(s)])
           FoldUpTo(k) == \E it : it = [s \in SUBSET (1..k) |-> Next(it, s)]
           Z == {k \in 0..n : FoldUpTo(k)}
<1>1. 0 \in Z
  <2> DEFINE it == [s \in SUBSET (1..0) |-> base]
  <2>1. it = [s \in SUBSET (1..0) |-> Next(it, s)]
    OBVIOUS
  <2> QED BY <2>1
<1>2. ASSUME NEW k \in 0..n, k \in Z, k < n PROVE k + 1 \in Z
  <2>1. PICK it : it = [s \in SUBSET (1..k) |-> Next(it, s)]
    BY <1>2
  <2> DEFINE more == [s \in SUBSET (1..(k + 1)) |->
                        IF k + 1 \in s THEN Step(env, it[s \ {k + 1}], seq[k + 1]) ELSE it[s]]
  <2>2. ASSUME NEW s \in SUBSET (1..(k + 1)) PROVE more[s] = Next(more, s)
    <3>1. \A r \in SUBSET (1..k) : more[r] = it[r]
      OBVIOUS
    <3>2. CASE k + 1 \in s
      <4>1. Largest(s) = k + 1 /\ s \ {k + 1} \in SUBSET (1..k)
        BY <3>2, LargestIs
      <4> QED BY <3>1, <3>2, <4>1
    <3>3. CASE k + 1 \notin s
      <4>1. \A y \in s : y \in 1..k
        BY <3>3
      <4>2. s \in SUBSET (1..k) /\ s \ {Largest(s)} \in SUBSET (1..k)
        BY <4>1
      <4>3. it[s] = Next(it, s)
        BY <2>1, <4>2
      <4> QED BY <3>1, <4>2, <4>3
    <3> QED BY <3>2, <3>3
  <2>3. more = [s \in SUBSET (1..(k + 1)) |-> Next(more, s)]
    BY <2>2
  <2>4. FoldUpTo(k + 1)
    <3> HIDE DEF more
    <3> QED BY <2>3
  <2> HIDE DEF FoldUpTo
  <2> QED BY <1>2, <2>4
<1>3. n \in Z
  BY <1>1, <1>2, UpTo
<1> QED BY <1>3 DEF IsFold

(* A fold is the end of a sequence of values, each a step from the last, *)
(* and the end of the only one.                                            *)
IsTrace(env, base, seq, n, f) ==
  f[0] = base /\ \A k \in 1..n : f[k] = Step(env, f[k - 1], seq[k])

LEMMA FoldIsTraced ==
  ASSUME NEW env, NEW base, NEW seq, NEW n \in Nat, DOMAIN seq = 1..n
  PROVE  \E f : IsTrace(env, base, seq, n, f) /\ f[n] = Folded(env, base, seq)
<1> DEFINE it == CHOOSE i : IsFold(env, base, seq, i)
           f == [k \in 0..n |-> it[1..k]]
<1>1. IsFold(env, base, seq, it)
  BY FoldExists
<1>2. it[{}] = base
  BY <1>1 DEF IsFold
<1>3. \A k \in 1..n : it[1..k] = Step(env, it[1..(k - 1)], seq[k])
  <2> TAKE k \in 1..n
  <2>1. k \in 1..k /\ 1..k \in SUBSET DOMAIN seq
    OBVIOUS
  <2>2. Largest(1..k) = k
    BY <2>1, LargestIs
  <2>3. (1..k) \ {k} = 1..(k - 1)
    OBVIOUS
  <2> QED BY <1>1, <2>1, <2>2, <2>3 DEF IsFold
<1>4. f[n] = Folded(env, base, seq)
  BY DEF Folded
<1>5. f[0] = base
  <2>1. 1..0 = {}
    OBVIOUS
  <2> HIDE DEF it
  <2> QED BY <1>2, <2>1
<1>6. \A k \in 1..n : f[k] = Step(env, f[k - 1], seq[k])
  <2> HIDE DEF it
  <2> QED BY <1>3
<1> HIDE DEF f
<1> QED BY <1>4, <1>5, <1>6 DEF IsTrace

(* A fold keeps what each of its steps keeps. *)
LEMMA FoldKeeps ==
  ASSUME NEW env, NEW base, NEW seq, NEW n \in Nat, DOMAIN seq = 1..n,
         Good(env, 0, base),
         \A k \in 1..n : \A t : Good(env, k - 1, t) => Good(env, k, Step(env, t, seq[k]))
  PROVE  Good(env, n, Folded(env, base, seq))
<1>1. PICK f : IsTrace(env, base, seq, n, f) /\ f[n] = Folded(env, base, seq)
  BY FoldIsTraced
<1> DEFINE Z == {k \in 0..n : Good(env, k, f[k])}
<1>2. 0 \in Z
  BY <1>1 DEF IsTrace
<1>3. ASSUME NEW k \in 0..n, k \in Z, k < n PROVE k + 1 \in Z
  <2>1. k + 1 \in 1..n /\ (k + 1) - 1 = k /\ Good(env, k, f[k])
    BY <1>3
  <2>2. f[k + 1] = Step(env, f[k], seq[k + 1]) /\ Good(env, k + 1, Step(env, f[k], seq[k + 1]))
    BY <1>1, <2>1 DEF IsTrace
  <2> QED BY <2>1, <2>2
<1>4. n \in Z
  <2> HIDE DEF Z
  <2> QED BY <1>2, <1>3, UpTo
<1> QED BY <1>1, <1>4

LEMMA TraceIsFold ==
  ASSUME NEW env, NEW base, NEW seq, NEW n \in Nat, DOMAIN seq = 1..n,
         NEW f, IsTrace(env, base, seq, n, f)
  PROVE  f[n] = Folded(env, base, seq)
<1>1. PICK g : IsTrace(env, base, seq, n, g) /\ g[n] = Folded(env, base, seq)
  BY FoldIsTraced
<1> DEFINE Z == {k \in 0..n : f[k] = g[k]}
<1>2. 0 \in Z
  BY <1>1 DEF IsTrace
<1>3. ASSUME NEW k \in 0..n, k \in Z, k < n PROVE k + 1 \in Z
  <2>1. k + 1 \in 1..n /\ (k + 1) - 1 = k /\ f[k] = g[k]
    BY <1>3
  <2>2. f[k + 1] = Step(env, f[k], seq[k + 1]) /\ g[k + 1] = Step(env, g[k], seq[k + 1])
    BY <1>1, <2>1 DEF IsTrace
  <2> QED BY <2>1, <2>2
<1>4. n \in Z
  <2> HIDE DEF Z
  <2> QED BY <1>2, <1>3, UpTo
<1> QED BY <1>1, <1>4

(* One element more is one step more. *)
LEMMA FoldOfAppend ==
  ASSUME NEW env, NEW base, NEW S, NEW seq \in Seq(S), NEW x \in S
  PROVE  Folded(env, base, Append(seq, x)) = Step(env, Folded(env, base, seq), x)
<1> DEFINE n == Len(seq)
           more == Append(seq, x)
<1>1. n \in Nat /\ DOMAIN seq = 1..n /\ DOMAIN more = 1..(n + 1)
      /\ more[n + 1] = x /\ \A k \in 1..n : more[k] = seq[k]
  OBVIOUS
<1>2. PICK f : IsTrace(env, base, more, n + 1, f) /\ f[n + 1] = Folded(env, base, more)
  <2> HIDE DEF n, more
  <2> QED BY <1>1, FoldIsTraced
<1>3. IsTrace(env, base, seq, n, f) /\ f[n + 1] = Step(env, f[n], x)
  <2>1. n + 1 \in 1..(n + 1) /\ (n + 1) - 1 = n /\ \A k \in 1..n : k \in 1..(n + 1)
    BY <1>1
  <2> HIDE DEF n, more
  <2> QED BY <1>1, <1>2, <2>1 DEF IsTrace
<1>4. f[n] = Folded(env, base, seq)
  <2> HIDE DEF n, more
  <2> QED BY <1>1, <1>3, TraceIsFold
<1> QED BY <1>2, <1>3, <1>4

(* Two folds whose steps are the same are the same. *)
LEMMA SameSteps ==
  ASSUME NEW env1, NEW env2, NEW base, NEW seq, NEW n \in Nat, DOMAIN seq = 1..n,
         \A k \in 1..n : \A t : Step(env1, t, seq[k]) = Step(env2, t, seq[k])
  PROVE  Folded(env1, base, seq) = Folded(env2, base, seq)
<1> SUFFICES ASSUME NEW it PROVE IsFold(env1, base, seq, it) <=> IsFold(env2, base, seq, it)
  BY DEF Folded
<1>1. ASSUME NEW s \in SUBSET DOMAIN seq, s # {}
      PROVE  Step(env1, it[s \ {Largest(s)}], seq[Largest(s)]) = Step(env2, it[s \ {Largest(s)}], seq[Largest(s)])
  BY <1>1, HasLargest
<1> QED BY <1>1 DEF IsFold

=============================================================================
