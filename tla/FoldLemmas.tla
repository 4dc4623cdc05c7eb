----------------------------- MODULE FoldLemmas -----------------------------
(***************************************************************************)
(* The lemmas about folds that the proofs of the ledger, the rounds and    *)
(* the backlog rest on: induction over the naturals and over the subsets   *)
(* of a finite set with the property as a set (no prover here instantiates *)
(* a lemma that takes an operator), sums over finite functions, and        *)
(* sequences laid end to end.                                              *)
(***************************************************************************)
EXTENDS SequencesExt, FiniteSetTheorems, SequenceTheorems, TLAPS

-----------------------------------------------------------------------------
(* Induction over the naturals and over the subsets of a finite set, with  *)
(* the property as a set.                                                  *)

\* The order of the naturals as a relation.
LessThan == {ss \in Nat \X Nat : ss[1] < ss[2]}

\* A set of naturals that is not empty has a least member.
LEMMA LeastExists ==
    ASSUME NEW T \in SUBSET Nat, T # {}
    PROVE  \E x \in T : \A y \in T : x <= y
<1>1. OpToRel(<, Nat) = LessThan
  BY Zenon DEF OpToRel, LessThan
<1>2. IsWellFoundedOn(LessThan, Nat)
  BY <1>1, NatLessThanWellFounded
<1>3. PICK x \in T : \A y \in T : ~(<<y, x>> \in LessThan)
  BY <1>2, WFMin
<1>4. \A a, b \in Nat : b < a => <<b, a>> \in LessThan
  BY DEF LessThan
<1>5. \A y \in T : ~(y < x)
  BY <1>3, <1>4
<1>6. \A y \in T : x <= y
  BY <1>5
<1> QED BY <1>6

\* A set that holds 0 and with a number its successor holds every natural.
LEMMA SetInduction ==
    ASSUME NEW S, 0 \in S, \A n \in Nat : n \in S => n + 1 \in S
    PROVE  Nat \subseteq S
<1> DEFINE T == Nat \ S
<1>1. CASE T # {}
  <2>1. PICK x \in T : \A y \in T : x <= y
    BY <1>1, LeastExists
  <2>2. x # 0 /\ x - 1 \in Nat /\ x - 1 \notin T
    BY <2>1
  <2> QED BY <2>2
<1> QED BY <1>1

\* A set of subsets that holds each one whose smaller subsets it holds, holds
\* them all.
LEMMA SubsetInduction ==
    ASSUME NEW D, IsFiniteSet(D), NEW S,
           \A t \in SUBSET D : (\A u \in SUBSET t : u # t => u \in S) => t \in S
    PROVE  SUBSET D \subseteq S
<1> DEFINE T == (SUBSET D) \ S
<1>1. CASE T # {}
  <2>1. IsWellFoundedOn(StrictSubsetOrdering(D), FiniteSubsetsOf(D))
    BY FS_StrictSubsetOrderingWellFounded
  <2>0. FiniteSubsetsOf(D) = SUBSET D
    BY FS_FiniteSubsetsOfFinite
  <2>4. T \subseteq FiniteSubsetsOf(D) /\ T # {}
    BY <1>1, <2>0
  <2> HIDE DEF T
  <2>2. PICK t \in T : \A u \in T : ~(<<u, t>> \in StrictSubsetOrdering(D))
    BY <2>1, <2>4, WFMin
  <2> USE DEF T
  <2>3. ASSUME NEW u \in SUBSET t, u # t PROVE u \in S
    <3>1. u \in SUBSET D
      OBVIOUS
    <3>2. <<u, t>> \in StrictSubsetOrdering(D)
      BY <2>3, <3>1 DEF StrictSubsetOrdering
    <3> QED BY <2>2, <3>1, <3>2
  <2> QED BY <2>3
<1> QED BY <1>1

\* A bounded set of naturals that is not empty has a greatest member.
LEMMA MaxExists ==
    ASSUME NEW n \in Nat, NEW T \in SUBSET Nat, T # {}, \A y \in T : y <= n
    PROVE  Max(T) \in T /\ \A y \in T : y <= Max(T)
<1> DEFINE U == {k \in Nat : \A y \in T : y <= k}
<1>1. n \in U /\ U \in SUBSET Nat
  OBVIOUS
<1>2. PICK x \in U : \A y \in U : x <= y
  BY <1>1, LeastExists
<1>3. x \in T
  <2>1. PICK y \in T : TRUE
    OBVIOUS
  <2>2. CASE x = 0
    BY <1>2, <2>1, <2>2
  <2>3. CASE x # 0
    <3>1. x - 1 \in Nat /\ x - 1 \notin U
      BY <1>2, <2>3
    <3>2. PICK z \in T : ~(z <= x - 1)
      BY <3>1
    <3>3. z = x
      BY <1>2, <3>1, <3>2
    <3> QED BY <3>2, <3>3
  <2> QED BY <2>2, <2>3
<1>4. \A y \in T : x >= y
  BY <1>2
<1>5. \E a \in T : \A y \in T : a >= y
  BY <1>3, <1>4
<1>6. Max(T) \in T /\ \A y \in T : Max(T) >= y
  BY <1>5 DEF Max
<1> QED BY <1>6
-----------------------------------------------------------------------------
(* Sums over a finite set. *)

Pick(t) == CHOOSE x \in t : TRUE

\* What SumFunctionOnSet recurs over: the sum over every subset.
IsSums(g, f, D) ==
    g = [t \in SUBSET D |-> IF t = {} THEN 0 ELSE f[Pick(t)] + g[t \ {Pick(t)}]]
Sums(f, D) == CHOOSE g : IsSums(g, f, D)

LEMMA SumIsSums == ASSUME NEW f, NEW D PROVE SumFunctionOnSet(f, D) = Sums(f, D)[D]
BY DEF SumFunctionOnSet, FoldFunctionOnSet, MapThenFoldSet, Sums, IsSums, Pick

LEMMA PickIn == ASSUME NEW t, t # {} PROVE Pick(t) \in t
BY DEF Pick

LEMMA SumsExist == ASSUME NEW f, NEW D, IsFiniteSet(D) PROVE IsSums(Sums(f, D), f, D)
<1> DEFINE Small(n) == {t \in SUBSET D : Cardinality(t) <= n}
           Good(g, n) == g = [t \in Small(n) |->
                               IF t = {} THEN 0 ELSE f[Pick(t)] + g[t \ {Pick(t)}]]
           S == {n \in Nat : \E g : Good(g, n)}
<1>0. \A t \in SUBSET D : IsFiniteSet(t) /\ Cardinality(t) \in Nat /\ (t = {} <=> Cardinality(t) = 0)
  BY FS_Subset, FS_CardinalityType, FS_EmptySet
<1>9. \A t \in SUBSET D : t # {} => /\ t \ {Pick(t)} \in SUBSET D
                                    /\ Cardinality(t \ {Pick(t)}) = Cardinality(t) - 1
  BY <1>0, PickIn, FS_RemoveElement
<1>1. 0 \in S
  <2> DEFINE g0 == [t \in Small(0) |-> 0]
  <2>1. Good(g0, 0)
    BY <1>0
  <2> QED BY <2>1
<1>2. ASSUME NEW n \in Nat, n \in S PROVE n + 1 \in S
  <2>1. PICK g : Good(g, n)
    BY <1>2
  <2> DEFINE h == [t \in Small(n + 1) |->
                      IF t \in Small(n) THEN g[t] ELSE f[Pick(t)] + g[t \ {Pick(t)}]]
  <2>2. ASSUME NEW t \in Small(n + 1)
        PROVE  h[t] = IF t = {} THEN 0 ELSE f[Pick(t)] + h[t \ {Pick(t)}]
    <3>1. CASE t = {}
      BY <1>0, <2>1, <3>1
    <3>2. CASE t # {}
      <4>1. t \ {Pick(t)} \in Small(n)
        BY <1>9, <1>0, <3>2
      <4>2. h[t \ {Pick(t)}] = g[t \ {Pick(t)}]
        BY <4>1, <1>0
      <4>3. CASE t \in Small(n)
        BY <4>2, <4>3, <2>1, <3>2
      <4>4. CASE t \notin Small(n)
        BY <4>2, <4>4, <3>2
      <4> QED BY <4>3, <4>4
    <3> QED BY <3>1, <3>2
  <2>3. Good(h, n + 1)
    BY <2>2
  <2>4. \E k : Good(k, n + 1)
    <3> HIDE DEF h, Good
    <3> QED BY <2>3
  <2> HIDE DEF Good
  <2> QED BY <2>4
<1>3. Cardinality(D) \in S
  <2> HIDE DEF S
  <2> QED BY <1>0, <1>1, <1>2, SetInduction
<1>4. PICK g : Good(g, Cardinality(D))
  BY <1>3
<1>5. Small(Cardinality(D)) = SUBSET D
  BY FS_Subset
<1>6. IsSums(g, f, D)
  BY <1>4, <1>5 DEF IsSums
<1> QED BY <1>6 DEF Sums

LEMMA SumsStep ==
    ASSUME NEW f, NEW D, IsFiniteSet(D)
    PROVE  /\ Sums(f, D)[{}] = 0
           /\ \A t \in SUBSET D : t # {} =>
                 Sums(f, D)[t] = f[Pick(t)] + Sums(f, D)[t \ {Pick(t)}]
<1> DEFINE g == Sums(f, D)
<1>0. IsSums(g, f, D)
  BY SumsExist
<1> HIDE DEF g
<1>1. g = [t \in SUBSET D |-> IF t = {} THEN 0 ELSE f[Pick(t)] + g[t \ {Pick(t)}]]
  BY <1>0 DEF IsSums
<1>2. \A t \in SUBSET D : g[t] = IF t = {} THEN 0 ELSE f[Pick(t)] + g[t \ {Pick(t)}]
  BY <1>1, Zenon
<1>3. {} \in SUBSET D
  OBVIOUS
<1>4. g[{}] = 0
  BY <1>2, <1>3
<1>5. \A t \in SUBSET D : t # {} => g[t] = f[Pick(t)] + g[t \ {Pick(t)}]
  BY <1>2
<1> QED BY <1>4, <1>5 DEF g

LEMMA SumsAreInt ==
    ASSUME NEW f, NEW D, IsFiniteSet(D), \A x \in D : f[x] \in Int
    PROVE  \A t \in SUBSET D : Sums(f, D)[t] \in Int
<1> DEFINE S == {t \in SUBSET D : Sums(f, D)[t] \in Int}
<1>1. ASSUME NEW t \in SUBSET D, \A u \in SUBSET t : u # t => u \in S PROVE t \in S
  <2>1. CASE t = {}
    BY <2>1, SumsStep
  <2>2. CASE t # {}
    <3>1. Pick(t) \in t
      BY <2>2, PickIn
    <3>2. t \ {Pick(t)} \in S
      BY <1>1, <3>1
    <3> QED BY <2>2, <3>1, <3>2, SumsStep
  <2> QED BY <2>1, <2>2
<1> HIDE DEF S
<1>2. SUBSET D \subseteq S
  BY <1>1, SubsetInduction
<1> QED BY <1>2 DEF S

\* The order the members are added in makes no difference.
LEMMA SumsRemove ==
    ASSUME NEW f, NEW D, IsFiniteSet(D), \A x \in D : f[x] \in Int
    PROVE  \A t \in SUBSET D : \A x \in t : Sums(f, D)[t] = f[x] + Sums(f, D)[t \ {x}]
<1> DEFINE S == {t \in SUBSET D : \A x \in t : Sums(f, D)[t] = f[x] + Sums(f, D)[t \ {x}]}
<1>1. ASSUME NEW t \in SUBSET D, \A u \in SUBSET t : u # t => u \in S PROVE t \in S
  <2>1. ASSUME NEW x \in t PROVE Sums(f, D)[t] = f[x] + Sums(f, D)[t \ {x}]
    <3> DEFINE c == Pick(t)
    <3>1. c \in t /\ Sums(f, D)[t] = f[c] + Sums(f, D)[t \ {c}]
      BY PickIn, SumsStep
    <3> HIDE DEF c
    <3>2. CASE c = x
      BY <3>1, <3>2
    <3>3. CASE c # x
      <4>1. t \ {c} \in S /\ t \ {x} \in S
        BY <1>1, <3>1
      <4>2. Sums(f, D)[t \ {c}] = f[x] + Sums(f, D)[(t \ {c}) \ {x}]
        BY <3>3, <4>1
      <4>3. Sums(f, D)[t \ {x}] = f[c] + Sums(f, D)[(t \ {x}) \ {c}]
        BY <3>1, <3>3, <4>1
      <4>4. (t \ {c}) \ {x} = (t \ {x}) \ {c}
        OBVIOUS
      <4>5. (t \ {x}) \ {c} \in SUBSET D
        OBVIOUS
      <4>6. f[x] \in Int /\ f[c] \in Int /\ Sums(f, D)[(t \ {x}) \ {c}] \in Int
        BY <3>1, <4>5, SumsAreInt
      <4>7. Sums(f, D)[t \ {c}] = f[x] + Sums(f, D)[(t \ {x}) \ {c}]
        BY <4>2, <4>4, Zenon
      <4> DEFINE rest == Sums(f, D)[(t \ {x}) \ {c}]
                 less == Sums(f, D)[t \ {c}]
                 more == Sums(f, D)[t \ {x}]
      <4>8. less = f[x] + rest /\ more = f[c] + rest /\ rest \in Int
        BY <4>3, <4>6, <4>7
      <4>9. Sums(f, D)[t] = f[c] + less
        BY <3>1
      <4> HIDE DEF rest, less, more
      <4>10. f[c] + less = f[x] + more
        BY <4>6, <4>8
      <4> QED BY <4>9, <4>10 DEF more
    <3> QED BY <3>2, <3>3
  <2> QED BY <2>1
<1> HIDE DEF S
<1>2. SUBSET D \subseteq S
  BY <1>1, SubsetInduction
<1> QED BY <1>2 DEF S

LEMMA SumsAgree ==
    ASSUME NEW f, NEW D, IsFiniteSet(D), NEW g, NEW E, IsFiniteSet(E), D \subseteq E,
           \A x \in D : f[x] = g[x]
    PROVE  \A t \in SUBSET D : Sums(f, D)[t] = Sums(g, E)[t]
<1>0. \A t \in SUBSET D : t # {} => Sums(f, D)[t] = f[Pick(t)] + Sums(f, D)[t \ {Pick(t)}]
  BY SumsStep
<1> DEFINE S == {t \in SUBSET D : Sums(f, D)[t] = Sums(g, E)[t]}
<1>1. ASSUME NEW t \in SUBSET D, \A u \in SUBSET t : u # t => u \in S PROVE t \in S
  <2>1. CASE t = {}
    BY <2>1, SumsStep
  <2>2. CASE t # {}
    <3>1. Pick(t) \in t /\ t \in SUBSET E
      BY <2>2, PickIn
    <3>2. t \ {Pick(t)} \in S
      <4> HIDE DEF S
      <4> QED BY <1>1, <3>1
    <3>3. Sums(f, D)[t] = f[Pick(t)] + Sums(f, D)[t \ {Pick(t)}]
      BY <1>0, <2>2
    <3>4. Sums(g, E)[t] = g[Pick(t)] + Sums(g, E)[t \ {Pick(t)}]
      BY <2>2, <3>1, SumsStep
    <3>5. Sums(f, D)[t] = Sums(g, E)[t]
      BY <3>1, <3>2, <3>3, <3>4
    <3> QED BY <3>5
  <2> QED BY <2>1, <2>2
<1> HIDE DEF S
<1>2. SUBSET D \subseteq S
  BY <1>1, SubsetInduction
<1> QED BY <1>2 DEF S

LEMMA SumsDiffer ==
    ASSUME NEW f, NEW g, NEW h, NEW D, IsFiniteSet(D),
           \A x \in D : f[x] \in Int /\ g[x] \in Int /\ h[x] = f[x] - g[x]
    PROVE  \A t \in SUBSET D : Sums(h, D)[t] = Sums(f, D)[t] - Sums(g, D)[t]
<1> DEFINE S == {t \in SUBSET D : Sums(h, D)[t] = Sums(f, D)[t] - Sums(g, D)[t]}
<1>1. ASSUME NEW t \in SUBSET D, \A u \in SUBSET t : u # t => u \in S PROVE t \in S
  <2>1. CASE t = {}
    BY <2>1, SumsStep
  <2>2. CASE t # {}
    <3> DEFINE c == Pick(t)
               u == t \ {Pick(t)}
    <3>1. c \in t
      BY <2>2, PickIn
    <3>2. u \in S
      <4> HIDE DEF S
      <4> QED BY <1>1, <3>1
    <3>3. /\ Sums(f, D)[t] = f[c] + Sums(f, D)[u]
          /\ Sums(g, D)[t] = g[c] + Sums(g, D)[u]
          /\ Sums(h, D)[t] = h[c] + Sums(h, D)[u]
      BY <2>2, SumsStep
    <3>4. Sums(f, D)[u] \in Int /\ Sums(g, D)[u] \in Int
      BY SumsAreInt
    <3>5. f[c] \in Int /\ g[c] \in Int /\ h[c] = f[c] - g[c]
      BY <3>1
    <3> HIDE DEF c, u
    <3> QED BY <3>2, <3>3, <3>4, <3>5
  <2> QED BY <2>1, <2>2
<1> HIDE DEF S
<1>2. SUBSET D \subseteq S
  BY <1>1, SubsetInduction
<1> QED BY <1>2 DEF S

\* A sum of integers over a finite domain is an integer.
LEMMA SumIsInt ==
    ASSUME NEW f, IsFiniteSet(DOMAIN f), \A x \in DOMAIN f : f[x] \in Int
    PROVE  SumFunction(f) \in Int
BY SumsAreInt, SumIsSums DEF SumFunction

\* Changing one entry changes the sum by as much.
LEMMA SumChange ==
    ASSUME NEW f, NEW g, NEW a \in DOMAIN f, DOMAIN g = DOMAIN f, IsFiniteSet(DOMAIN f),
           \A x \in DOMAIN f : f[x] \in Int /\ g[x] \in Int,
           \A x \in DOMAIN f : x # a => g[x] = f[x]
    PROVE  SumFunction(g) = SumFunction(f) + (g[a] - f[a])
<1> DEFINE D == DOMAIN f
           R == D \ {a}
<1>1. SumFunction(f) = Sums(f, D)[D] /\ SumFunction(g) = Sums(g, D)[D]
  BY SumIsSums DEF SumFunction
<1>2. Sums(f, D)[D] = f[a] + Sums(f, D)[R] /\ Sums(g, D)[D] = g[a] + Sums(g, D)[R]
  BY SumsRemove
<1>3. IsFiniteSet(R) /\ R \in SUBSET D
  BY FS_Subset
<1>4. Sums(f, D)[R] = Sums(f, R)[R] /\ Sums(g, D)[R] = Sums(f, R)[R]
  BY <1>3, SumsAgree
<1>5. Sums(f, R)[R] \in Int
  BY <1>3, SumsAreInt
<1> QED BY <1>1, <1>2, <1>4, <1>5

\* A new entry adds itself.
LEMMA SumGrow ==
    ASSUME NEW f, NEW g, NEW a, a \notin DOMAIN f, DOMAIN g = DOMAIN f \cup {a},
           IsFiniteSet(DOMAIN f), g[a] \in Int,
           \A x \in DOMAIN f : f[x] \in Int /\ g[x] = f[x]
    PROVE  SumFunction(g) = SumFunction(f) + g[a]
<1> DEFINE D == DOMAIN f
           E == D \cup {a}
<1>0. IsFiniteSet(E)
  BY FS_AddElement
<1>1. SumFunction(f) = Sums(f, D)[D] /\ SumFunction(g) = Sums(g, E)[E]
  BY SumIsSums DEF SumFunction
<1>2. E \ {a} = D
  OBVIOUS
<1>3. Sums(g, E)[E] = g[a] + Sums(g, E)[D]
  BY <1>0, <1>2, SumsRemove
<1>4. Sums(g, E)[D] = Sums(f, D)[D]
  BY <1>0, SumsAgree
<1>5. Sums(f, D)[D] \in Int
  BY SumsAreInt
<1> QED BY <1>1, <1>3, <1>4, <1>5

\* The sum of a difference is the difference of the sums.
LEMMA SumDiffer ==
    ASSUME NEW f, NEW g, NEW h, DOMAIN g = DOMAIN f, DOMAIN h = DOMAIN f, IsFiniteSet(DOMAIN f),
           \A x \in DOMAIN f : f[x] \in Int /\ g[x] \in Int /\ h[x] = f[x] - g[x]
    PROVE  SumFunction(h) = SumFunction(f) - SumFunction(g)
BY SumsDiffer, SumIsSums DEF SumFunction

LEMMA SumOfNone ==
    ASSUME NEW f, IsFiniteSet(DOMAIN f), \A x \in DOMAIN f : f[x] = 0
    PROVE  SumFunction(f) = 0
<1>1. SumFunction(f) = SumFunction(f) - SumFunction(f)
  BY SumDiffer
<1>2. SumFunction(f) \in Int
  BY SumIsInt
<1> QED BY <1>1, <1>2

-----------------------------------------------------------------------------
(* Sequences laid end to end. *)

\* What FlattenSeq recurs over: the first few laid end to end.
IsEnds(g, q) == g = [i \in 1 .. Len(q) |-> IF i = 1 THEN q[i] ELSE g[i - 1] \o q[i]]
Ends(q) == CHOOSE g : IsEnds(g, q)

LEMMA FlattenIsEnds ==
    ASSUME NEW q PROVE FlattenSeq(q) = IF Len(q) = 0 THEN q ELSE Ends(q)[Len(q)]
BY Zenon DEF FlattenSeq, Ends, IsEnds

LEMMA EndsExist == ASSUME NEW q, Len(q) \in Nat PROVE IsEnds(Ends(q), q)
<1> DEFINE Good(g, n) == g = [i \in 1 .. n |-> IF i = 1 THEN q[i] ELSE g[i - 1] \o q[i]]
           S == {n \in Nat : \E g : Good(g, n)}
<1>1. 0 \in S
  <2> DEFINE g0 == [i \in 1 .. 0 |-> q[i]]
  <2>1. Good(g0, 0)
    OBVIOUS
  <2>2. \E g : Good(g, 0)
    BY <2>1
  <2> HIDE DEF Good
  <2> QED BY <2>2
<1>2. ASSUME NEW n \in Nat, n \in S PROVE n + 1 \in S
  <2>1. PICK g : Good(g, n)
    BY <1>2
  <2> DEFINE h == [i \in 1 .. n + 1 |->
                      IF i = 1 THEN q[i] ELSE IF i = n + 1 THEN g[n] \o q[i] ELSE g[i]]
  <2>2. ASSUME NEW i \in 1 .. n + 1
        PROVE  h[i] = IF i = 1 THEN q[i] ELSE h[i - 1] \o q[i]
    <3>1. CASE i = 1
      BY <3>1
    <3>2. CASE i # 1
      <4>1. i - 1 \in 1 .. n /\ i - 1 \in 1 .. n + 1
        BY <3>2
      <4>2. g[i - 1] = IF i - 1 = 1 THEN q[i - 1] ELSE g[(i - 1) - 1] \o q[i - 1]
        BY <2>1, <4>1
      <4>3. h[i - 1] = g[i - 1]
        BY <4>1, <4>2
      <4>4. CASE i = n + 1
        <5>1. h[i] = g[n] \o q[i]
          BY <3>2, <4>4
        <5>2. i - 1 = n
          BY <4>4
        <5> HIDE DEF h, Good
        <5> QED BY <3>2, <4>3, <5>1, <5>2
      <4>5. CASE i # n + 1
        <5>1. i \in 1 .. n /\ h[i] = g[i]
          BY <3>2, <4>5
        <5>2. \A k \in 1 .. n : g[k] = IF k = 1 THEN q[k] ELSE g[k - 1] \o q[k]
          BY <2>1, Zenon
        <5>3. g[i] = g[i - 1] \o q[i]
          BY <3>2, <5>1, <5>2
        <5> HIDE DEF h, Good
        <5> QED BY <3>2, <4>3, <5>1, <5>3
      <4> QED BY <4>4, <4>5
    <3> QED BY <3>1, <3>2
  <2>3. Good(h, n + 1)
    BY <2>2
  <2>4. \E k : Good(k, n + 1)
    <3> HIDE DEF h, Good
    <3> QED BY <2>3
  <2> HIDE DEF Good
  <2> QED BY <2>4
<1>3. Len(q) \in S
  <2> HIDE DEF S
  <2> QED BY <1>1, <1>2, SetInduction
<1>4. PICK g : Good(g, Len(q))
  BY <1>3
<1>5. IsEnds(g, q)
  BY <1>4 DEF IsEnds
<1> QED BY <1>5 DEF Ends

\* Where each item of the sequences laid end to end comes from: every place of
\* every sequence, once.
Sources(src, s, q, n) ==
    /\ DOMAIN src = 1 .. Len(s)
    /\ \A k \in 1 .. Len(s) :
          /\ src[k] = <<src[k][1], src[k][2]>>
          /\ src[k][1] \in 1 .. n /\ src[k][2] \in 1 .. Len(q[src[k][1]])
          /\ s[k] = q[src[k][1]][src[k][2]]
    /\ \A j, k \in 1 .. Len(s) : src[j] = src[k] => j = k
    /\ \A i \in 1 .. n : \A m \in 1 .. Len(q[i]) : \E k \in 1 .. Len(s) : src[k] = <<i, m>>

LEMMA SourcesGrow ==
    ASSUME NEW X, NEW n \in Nat, NEW q, q[n + 1] \in Seq(X), NEW s \in Seq(X), NEW src,
           Sources(src, s, q, n)
    PROVE  \E more : Sources(more, s \o q[n + 1], q, n + 1)
<1> DEFINE t == q[n + 1]
           more == [k \in 1 .. Len(s) + Len(t) |-> IF k <= Len(s) THEN src[k]
                                                   ELSE <<n + 1, k - Len(s)>>]
           u == s \o t
<1>1. t \in Seq(X) /\ Len(s) \in Nat /\ Len(t) \in Nat
  OBVIOUS
<1>2. Len(u) = Len(s) + Len(t)
  BY <1>1
<1>3. \A k \in 1 .. Len(s) : u[k] = s[k]
  BY <1>1
<1>4. \A k \in 1 .. Len(s) + Len(t) : k > Len(s) => k - Len(s) \in 1 .. Len(t) /\ u[k] = t[k - Len(s)]
  BY <1>1
<1> HIDE DEF u
<1>5. DOMAIN more = 1 .. Len(u)
  BY <1>2
<1>6. \A k \in 1 .. Len(s) : more[k] = src[k] /\ k \in 1 .. Len(u)
  BY <1>1, <1>2
<1>7. \A k \in 1 .. Len(u) : ~(k <= Len(s)) => more[k] = <<n + 1, k - Len(s)>> /\ k > Len(s)
  BY <1>1, <1>2
<1>8. \A k \in 1 .. Len(u) : k <= Len(s) => k \in 1 .. Len(s)
  BY <1>1, <1>2
<1> HIDE DEF more
<1>9. ASSUME NEW k \in 1 .. Len(u)
      PROVE  /\ more[k] = <<more[k][1], more[k][2]>>
             /\ more[k][1] \in 1 .. n + 1 /\ more[k][2] \in 1 .. Len(q[more[k][1]])
             /\ u[k] = q[more[k][1]][more[k][2]]
  <2>1. CASE k <= Len(s)
    BY <1>3, <1>6, <1>8, <2>1 DEF Sources
  <2>2. CASE ~(k <= Len(s))
    <3>1. more[k] = <<n + 1, k - Len(s)>> /\ k \in 1 .. Len(s) + Len(t) /\ k > Len(s)
      BY <1>2, <1>7, <2>2
    <3>2. k - Len(s) \in 1 .. Len(t) /\ u[k] = t[k - Len(s)]
      BY <1>4, <3>1
    <3>3. more[k][1] = n + 1 /\ more[k][2] = k - Len(s)
      BY <3>1
    <3> QED BY <3>1, <3>2, <3>3
  <2> QED BY <2>1, <2>2
<1>10. ASSUME NEW j \in 1 .. Len(u), NEW k \in 1 .. Len(u), more[j] = more[k] PROVE j = k
  <2>1. CASE j <= Len(s) /\ k <= Len(s)
    BY <1>6, <1>8, <1>10, <2>1 DEF Sources
  <2>2. CASE ~(j <= Len(s)) /\ ~(k <= Len(s))
    BY <1>1, <1>7, <1>10, <2>2
  <2>3. \A m \in 1 .. Len(u) : more[m][1] = n + 1 <=> ~(m <= Len(s))
    BY <1>6, <1>7, <1>8 DEF Sources
  <2> QED BY <1>10, <2>1, <2>2, <2>3
<1>11. ASSUME NEW i \in 1 .. n + 1, NEW m \in 1 .. Len(q[i])
       PROVE  \E k \in 1 .. Len(u) : more[k] = <<i, m>>
  <2>1. CASE i \in 1 .. n
    <3>1. PICK k \in 1 .. Len(s) : src[k] = <<i, m>>
      BY <2>1 DEF Sources
    <3> QED BY <1>6, <3>1
  <2>2. CASE i = n + 1
    <3>1. Len(s) + m \in 1 .. Len(u) /\ ~(Len(s) + m <= Len(s)) /\ (Len(s) + m) - Len(s) = m
      BY <1>1, <1>2, <2>2
    <3> QED BY <1>7, <2>2, <3>1
  <2> QED BY <2>1, <2>2
<1>12. Sources(more, u, q, n + 1)
  BY <1>5, <1>9, <1>10, <1>11 DEF Sources
<1> QED BY <1>12 DEF u

LEMMA FlattenSources ==
    ASSUME NEW X, NEW q, Len(q) \in Nat, Len(q) > 0, \A i \in 1 .. Len(q) : q[i] \in Seq(X)
    PROVE  FlattenSeq(q) \in Seq(X) /\ \E src : Sources(src, FlattenSeq(q), q, Len(q))
<1> DEFINE g == Ends(q)
           S == {n \in Nat : n \in 1 .. Len(q) =>
                   g[n] \in Seq(X) /\ \E src : Sources(src, g[n], q, n)}
<1>0. IsEnds(g, q)
  BY EndsExist
<1>2. FlattenSeq(q) = g[Len(q)]
  BY FlattenIsEnds
<1> HIDE DEF g
<1>1. \A i \in 1 .. Len(q) : g[i] = IF i = 1 THEN q[i] ELSE g[i - 1] \o q[i]
  BY <1>0 DEF IsEnds
<1>3. 0 \in S
  OBVIOUS
<1>4. ASSUME NEW n \in Nat, n \in S PROVE n + 1 \in S
  <2> SUFFICES ASSUME n + 1 \in 1 .. Len(q)
               PROVE  g[n + 1] \in Seq(X) /\ \E src : Sources(src, g[n + 1], q, n + 1)
    OBVIOUS
  <2>1. CASE n = 0
    <3> DEFINE src == [k \in 1 .. Len(q[1]) |-> <<1, k>>]
    <3>1. g[1] = q[1] /\ q[1] \in Seq(X) /\ Len(q[1]) \in Nat
      BY <1>1, <2>1
    <3>2. DOMAIN src = 1 .. Len(q[1]) /\ \A k \in 1 .. Len(q[1]) : src[k] = <<1, k>>
      OBVIOUS
    <3> HIDE DEF src
    <3>4. \A k \in 1 .. Len(q[1]) : /\ src[k] = <<src[k][1], src[k][2]>> /\ src[k][1] = 1
                                    /\ src[k][2] = k /\ 1 \in 1 .. 1
      BY <3>2
    <3>5. \A j, k \in 1 .. Len(q[1]) : src[j] = src[k] => j = k
      BY <3>4
    <3>6. \A i \in 1 .. 1 : \A m \in 1 .. Len(q[i]) : \E k \in 1 .. Len(q[1]) : src[k] = <<i, m>>
      BY <3>2
    <3>3. Sources(src, q[1], q, 1)
      BY <3>2, <3>4, <3>5, <3>6 DEF Sources
    <3> QED BY <2>1, <3>1, <3>3
  <2>2. CASE n # 0
    <3>1. n \in 1 .. Len(q) /\ g[n] \in Seq(X) /\ \E src : Sources(src, g[n], q, n)
      BY <1>4, <2>2
    <3>2. g[n + 1] = g[n] \o q[n + 1] /\ q[n + 1] \in Seq(X)
      <4>1. n + 1 # 1 /\ (n + 1) - 1 = n
        BY <2>2
      <4> QED BY <1>1, <4>1
    <3>3. PICK src : Sources(src, g[n], q, n)
      BY <3>1
    <3>4. \E more : Sources(more, g[n] \o q[n + 1], q, n + 1)
      BY <3>1, <3>2, <3>3, SourcesGrow
    <3>5. g[n] \o q[n + 1] \in Seq(X)
      BY <3>1, <3>2
    <3> QED BY <3>2, <3>4, <3>5
  <2> QED BY <2>1, <2>2
<1>5. Nat \subseteq S
  <2> HIDE DEF S
  <2> QED BY <1>3, <1>4, SetInduction
<1>6. Len(q) \in S
  BY <1>5
<1>7. Len(q) \in 1 .. Len(q)
  OBVIOUS
<1> QED BY <1>2, <1>6, <1>7
=============================================================================
