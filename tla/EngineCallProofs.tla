---------------------------- MODULE EngineCallProofs ----------------------------
(***************************************************************************)
(* Proofs about the engine call, for any patches, repository, comments and *)
(* model settings, and any limits: the numbers in front of the patch, the  *)
(* dump and its mode, the conversation, the chain of models.               *)
(***************************************************************************)
EXTENDS EngineCall, FiniteSetTheorems, SequenceTheorems, WellFoundedInduction, TLAPS

-----------------------------------------------------------------------------
(* Induction over naturals, and the existence of recursive functions. *)

\* A set of naturals has a least member.
LEMMA Least ==
    ASSUME NEW T \in SUBSET Nat, T # {}
    PROVE  \E x \in T : \A y \in T : x <= y
<1> DEFINE R == {ss \in Nat \X Nat : ss[1] < ss[2]}
<1>1. IsWellFoundedOn(R, Nat)
  BY NatLessThanWellFounded DEF OpToRel
<1>2. \E x \in T : \A y \in T : <<y, x>> \notin R
  <2> HIDE DEF R
  <2> QED BY <1>1, WFMin
<1>3. PICK x \in T : \A y \in T : <<y, x>> \notin R
  BY <1>2
<1>4. ASSUME NEW y \in T, y < x PROVE FALSE
  <2>1. <<y, x>> \in Nat \X Nat /\ <<y, x>>[1] < <<y, x>>[2]
    BY <1>4
  <2> QED BY <1>3, <2>1
<1> QED BY <1>4

\* What holds of 0, and of n + 1 if of n, holds of every natural number: T is the
\* set of those it holds of.
LEMMA Induct ==
    ASSUME NEW T \in SUBSET Nat, 0 \in T, \A n \in T : n + 1 \in T
    PROVE  T = Nat
<1>1. SUFFICES ASSUME Nat \ T # {} PROVE FALSE
  OBVIOUS
<1>2. PICK n \in Nat \ T : \A m \in Nat \ T : n <= m
  BY <1>1, Least
<1>3. n # 0 /\ n - 1 \in Nat /\ n - 1 \in T
  BY <1>2
<1> QED BY <1>3

\* The sequences that start with a and go on by the step function g.
Unfoldings(S, a, g, n) ==
    {f \in [0..n -> S] : f[0] = a /\ \A i \in 1..n : f[i] = g[<<i, f[i - 1]>>]}

\* A step function makes a sequence of any length: what justifies the recursive
\* functions below.
LEMMA Unfold ==
    ASSUME NEW S, NEW a \in S, NEW g \in [Nat \X S -> S], NEW n \in Nat
    PROVE  Unfoldings(S, a, g, n) # {}
<1> DEFINE Good(m) == \E f \in [0..m -> S] :
                        f[0] = a /\ \A i \in 1..m : f[i] = g[<<i, f[i - 1]>>]
           T == {m \in Nat : Good(m)}
<1>1. 0 \in T
  <2> DEFINE f == [i \in 0..0 |-> a]
  <2>1. f \in [0..0 -> S] /\ f[0] = a /\ \A i \in 1..0 : f[i] = g[<<i, f[i - 1]>>]
    OBVIOUS
  <2> HIDE DEF f
  <2> QED BY <2>1
<1>2. ASSUME NEW m \in T PROVE m + 1 \in T
  <2>1. PICK f \in [0..m -> S] : f[0] = a /\ \A i \in 1..m : f[i] = g[<<i, f[i - 1]>>]
    BY <1>2
  <2> DEFINE h == [i \in 0..(m + 1) |-> IF i = m + 1 THEN g[<<m + 1, f[m]>>] ELSE f[i]]
  <2>2. h \in [0..(m + 1) -> S]
    OBVIOUS
  <2>3. h[0] = a /\ \A i \in 0..m : h[i] = f[i]
    BY <2>1
  <2>4. h[m + 1] = g[<<m + 1, f[m]>>]
    OBVIOUS
  <2> HIDE DEF h
  <2>5. \A i \in 1..(m + 1) : h[i] = g[<<i, h[i - 1]>>]
    <3> SUFFICES ASSUME NEW i \in 1..(m + 1) PROVE h[i] = g[<<i, h[i - 1]>>]
      OBVIOUS
    <3>1. CASE i = m + 1
      <4>1. i - 1 = m /\ m \in 0..m
        BY <3>1
      <4>2. h[i - 1] = f[m] /\ h[i] = g[<<i, f[m]>>]
        BY <2>3, <2>4, <3>1, <4>1
      <4> QED BY <4>2
    <3>2. CASE i # m + 1
      <4>1. i \in 1..m /\ i \in 0..m /\ i - 1 \in 0..m
        BY <3>2
      <4>2. f[i] = g[<<i, f[i - 1]>>]
        BY <2>1, <4>1
      <4>3. h[i] = f[i] /\ h[i - 1] = f[i - 1]
        BY <2>3, <4>1
      <4> QED BY <4>2, <4>3
    <3> QED BY <3>1, <3>2
  <2> QED BY <2>2, <2>3, <2>5
<1> HIDE DEF Good
<1>3. T = Nat
  BY <1>1, <1>2, Induct
<1>4. Good(n)
  BY <1>3
<1> QED BY <1>4 DEF Good, Unfoldings

\* What holds of the first place and passes on to the next holds of all.
LEMMA Along ==
    ASSUME NEW n \in Nat, NEW G \in SUBSET (0..n), 0 \in G,
           \A i \in 1..n : i - 1 \in G => i \in G
    PROVE  G = 0..n
<1> DEFINE T == {m \in Nat : m \in 0..n => m \in G}
<1>1. 0 \in T
  OBVIOUS
<1>2. ASSUME NEW m \in T PROVE m + 1 \in T
  <2>1. CASE m + 1 \in 0..n
    <3>1. m \in 0..n /\ m + 1 \in 1..n /\ (m + 1) - 1 = m
      BY <2>1
    <3> QED BY <1>2, <3>1
  <2>2. CASE m + 1 \notin 0..n
    BY <2>2
  <2> QED BY <2>1, <2>2
<1> HIDE DEF T
<1>3. T \in SUBSET Nat
  BY DEF T
<1>4. T = Nat
  BY <1>1, <1>2, <1>3, Induct
<1>5. ASSUME NEW i \in 0..n PROVE i \in G
  <2>1. i \in T
    BY <1>4
  <2> QED BY <2>1 DEF T
<1> QED BY <1>5

-----------------------------------------------------------------------------
(* Sums. *)

\* Sums over finite sets, as SumFunctionOnSet takes them: one member after another, in
\* an order that does not matter.
Picked(s) == CHOOSE x \in s : TRUE

IsSum(h, S, w) ==
    h = [s \in SUBSET S |-> IF s = {} THEN 0 ELSE w[Picked(s)] + h[s \ {Picked(s)}]]

\* CHOOSE picks a member, and the rest is finite.
LEMMA PickedFacts ==
    ASSUME NEW S, IsFiniteSet(S), NEW s \in SUBSET S, s # {}
    PROVE  /\ Picked(s) \in s /\ s \ {Picked(s)} \in SUBSET S
           /\ IsFiniteSet(s) /\ Cardinality(s) \in Nat /\ Cardinality(s) >= 1
           /\ Cardinality(s \ {Picked(s)}) = Cardinality(s) - 1
<1>1. Picked(s) \in s
  BY DEF Picked
<1>2. IsFiniteSet(s) /\ Cardinality(s) \in Nat /\ Cardinality(s) # 0
  BY FS_Subset, FS_CardinalityType, FS_EmptySet
<1>3. Cardinality(s \ {Picked(s)}) = Cardinality(s) - 1
  BY <1>1, <1>2, FS_RemoveElement
<1> QED BY <1>1, <1>2, <1>3

\* What holds of the empty set, and of a set if of its smaller ones, holds of every
\* subset of a finite set.
LEMMA AlongSubsets ==
    ASSUME NEW S, IsFiniteSet(S), NEW G \in SUBSET (SUBSET S),
           \A s \in SUBSET S :
             (\A r \in SUBSET S : Cardinality(r) < Cardinality(s) => r \in G) => s \in G
    PROVE  G = SUBSET S
<1> DEFINE T == {n \in Nat : \A s \in SUBSET S : Cardinality(s) < n => s \in G}
<1>1. \A s \in SUBSET S : Cardinality(s) \in Nat
  BY FS_Subset, FS_CardinalityType
<1>2. 0 \in T
  BY <1>1
<1>3. ASSUME NEW n \in T PROVE n + 1 \in T
  <2>1. ASSUME NEW s \in SUBSET S, Cardinality(s) < n + 1 PROVE s \in G
    <3>1. \A r \in SUBSET S : Cardinality(r) < Cardinality(s) => r \in G
      BY <1>1, <1>3, <2>1
    <3> QED BY <3>1
  <2> QED BY <2>1
<1> HIDE DEF T
<1>4. T \in SUBSET Nat
  BY DEF T
<1>5. T = Nat
  BY <1>2, <1>3, <1>4, Induct
<1>6. ASSUME NEW s \in SUBSET S PROVE s \in G
  <2>1. Cardinality(s) + 1 \in T
    BY <1>1, <1>5
  <2>2. Cardinality(s) < Cardinality(s) + 1
    BY <1>1
  <2> QED BY <2>1, <2>2 DEF T
<1> QED BY <1>6

\* A sum is defined for all subsets of a finite set at once.
LEMMA SumExists ==
    ASSUME NEW S, IsFiniteSet(S), NEW w, \A x \in S : w[x] \in Nat
    PROVE  \E h \in [SUBSET S -> Nat] : IsSum(h, S, w)
<1> DEFINE F == [SUBSET S -> Nat]
           zero == [s \in SUBSET S |-> 0]
           Step(h) == [s \in SUBSET S |-> IF s = {} THEN 0
                                          ELSE w[Picked(s)] + h[s \ {Picked(s)}]]
           g == [t \in Nat \X F |-> Step(t[2])]
           n == Cardinality(S) + 1
<1>1. ASSUME NEW h \in F PROVE Step(h) \in F
  <2>1. ASSUME NEW s \in SUBSET S, s # {} PROVE w[Picked(s)] + h[s \ {Picked(s)}] \in Nat
    <3>1. w[Picked(s)] \in Nat /\ s \ {Picked(s)} \in SUBSET S
      BY <2>1, PickedFacts
    <3>2. h[s \ {Picked(s)}] \in Nat
      BY <3>1
    <3> QED BY <3>1, <3>2
  <2> QED BY <2>1
<1>2. g \in [Nat \X F -> F] /\ \A i \in Nat, h \in F : g[<<i, h>>] = Step(h)
  <2> HIDE DEF F, Step
  <2>1. \A t \in Nat \X F : t[2] \in F
    OBVIOUS
  <2> QED BY <1>1, <2>1
<1>3. zero \in F /\ n \in Nat
  BY FS_CardinalityType
<1> HIDE DEF g, n
<1>4. PICK f \in [0..n -> F] : f[0] = zero /\ \A i \in 1..n : f[i] = g[<<i, f[i - 1]>>]
  <2> HIDE DEF F, zero
  <2>1. Unfoldings(F, zero, g, n) # {}
    BY <1>2, <1>3, Unfold
  <2> QED BY <2>1 DEF Unfoldings
<1>5. \A i \in 1..n : i - 1 \in 0..n /\ f[i - 1] \in F /\ f[i] = Step(f[i - 1])
  <2> SUFFICES ASSUME NEW i \in 1..n
               PROVE  i - 1 \in 0..n /\ f[i - 1] \in F /\ f[i] = Step(f[i - 1])
    OBVIOUS
  <2> HIDE DEF F, Step
  <2>1. i - 1 \in 0..n /\ i \in Nat
    BY <1>3
  <2>2. f[i - 1] \in F
    BY <1>4, <2>1
  <2> QED BY <1>2, <1>4, <2>1, <2>2
<1> DEFINE G == {i \in 0..(n - 1) : \A s \in SUBSET S : Cardinality(s) <= i => f[i + 1][s] = f[i][s]}
           k == n - 1
<1>6. k \in Nat /\ k = Cardinality(S)
  BY FS_CardinalityType DEF n
<1>7. ASSUME NEW i \in 0..k, NEW s \in SUBSET S, s = {} PROVE f[i + 1][s] = 0
  <2>1. i + 1 \in 1..n
    BY <1>3
  <2> QED BY <1>5, <1>7, <2>1
<1>8. 0 \in G
  <2>1. ASSUME NEW s \in SUBSET S, Cardinality(s) <= 0 PROVE f[0 + 1][s] = f[0][s]
    <3>1. s = {}
      BY <2>1, FS_Subset, FS_CardinalityType, FS_EmptySet
    <3>2. f[0 + 1][s] = 0
      BY <1>6, <1>7, <3>1
    <3> QED BY <1>4, <3>2
  <2> QED BY <1>6, <2>1
<1>9. ASSUME NEW i \in 1..k, i - 1 \in G PROVE i \in G
  <2>1. i \in 0..k /\ i \in 1..n /\ i + 1 \in 1..n /\ (i + 1) - 1 = i /\ (i - 1) + 1 = i
    BY <1>3, <1>6
  <2>2. f[i] = Step(f[i - 1]) /\ f[i + 1] = Step(f[i])
    <3> HIDE DEF Step
    <3> QED BY <1>5, <2>1
  <2>3. ASSUME NEW s \in SUBSET S, Cardinality(s) <= i PROVE f[i + 1][s] = f[i][s]
    <3>1. CASE s = {}
      BY <2>2, <3>1
    <3>2. CASE s # {}
      <4> DEFINE r == s \ {Picked(s)}
      <4>1. r \in SUBSET S /\ Cardinality(r) <= i - 1
        BY <2>3, <3>2, PickedFacts
      <4>2. f[i][r] = f[i - 1][r]
        BY <1>9, <2>1, <4>1
      <4>3. f[i + 1][s] = w[Picked(s)] + f[i][r] /\ f[i][s] = w[Picked(s)] + f[i - 1][r]
        BY <2>2, <3>2
      <4> QED BY <4>2, <4>3
    <3> QED BY <3>1, <3>2
  <2> QED BY <2>1, <2>3
<1> HIDE DEF G
<1>10. G = 0..k
  <2>1. G \in SUBSET (0..k)
    BY DEF G
  <2> HIDE DEF k
  <2> QED BY <1>6, <1>8, <1>9, <2>1, Along
<1>11. \A s \in SUBSET S : f[n][s] = f[k][s]
  <2>1. k \in G /\ k + 1 = n
    BY <1>3, <1>6, <1>10
  <2>2. \A s \in SUBSET S : Cardinality(s) <= k
    BY <1>6, FS_Subset
  <2> QED BY <2>1, <2>2 DEF G
<1>12. f[k] \in F /\ f[n] \in F /\ f[n] = Step(f[k])
  <2> HIDE DEF Step, F
  <2>1. n \in 1..n /\ n - 1 = k /\ k \in 0..n /\ n \in 0..n
    BY <1>3, <1>6
  <2> QED BY <1>4, <1>5, <2>1
<1>13. f[n] = f[k]
  BY <1>11, <1>12
<1> QED BY <1>12, <1>13 DEF IsSum

SumRule(h, S, w) ==
    \A s \in SUBSET S : h[s] = IF s = {} THEN 0 ELSE w[Picked(s)] + h[s \ {Picked(s)}]

\* Two solutions agree where both are defined, and take only natural values.
LEMMA SumUnique ==
    ASSUME NEW S, IsFiniteSet(S), NEW w, \A x \in S : w[x] \in Nat,
           NEW h, SumRule(h, S, w), NEW f, SumRule(f, S, w)
    PROVE  \A s \in SUBSET S : h[s] = f[s] /\ h[s] \in Nat
<1> DEFINE G == {s \in SUBSET S : h[s] = f[s] /\ h[s] \in Nat}
<1>1. ASSUME NEW s \in SUBSET S,
             \A r \in SUBSET S : Cardinality(r) < Cardinality(s) => r \in G
      PROVE  s \in G
  <2>1. CASE s = {}
    <3>1. h[s] = 0 /\ f[s] = 0
      BY <2>1 DEF SumRule
    <3> QED BY <3>1
  <2>2. CASE s # {}
    <3> DEFINE r == s \ {Picked(s)}
    <3>1. r \in SUBSET S /\ Cardinality(r) < Cardinality(s) /\ w[Picked(s)] \in Nat
      <4>1. Picked(s) \in s /\ r \in SUBSET S
        BY <2>2, PickedFacts
      <4>2. Cardinality(s) \in Nat /\ Cardinality(r) = Cardinality(s) - 1
        BY <2>2, PickedFacts
      <4>3. Cardinality(r) < Cardinality(s)
        BY <4>2
      <4> QED BY <4>1, <4>3
    <3>2. h[r] = f[r] /\ h[r] \in Nat
      BY <1>1, <3>1
    <3>3. h[s] = w[Picked(s)] + h[r] /\ f[s] = w[Picked(s)] + f[r]
      BY <2>2 DEF SumRule
    <3> QED BY <3>1, <3>2, <3>3
  <2> QED BY <2>1, <2>2
<1> HIDE DEF G
<1>2. G \in SUBSET (SUBSET S)
  BY DEF G
<1>3. G = SUBSET S
  BY <1>1, <1>2, AlongSubsets
<1> QED BY <1>3 DEF G

AnyFirst(h, S, w) == \A s \in SUBSET S : \A x \in s : h[s] = w[x] + h[s \ {x}]

\* Any member may be taken first.
LEMMA SumAnyFirst ==
    ASSUME NEW S, IsFiniteSet(S), NEW w, \A x \in S : w[x] \in Nat,
           NEW h, SumRule(h, S, w)
    PROVE  AnyFirst(h, S, w)
<1> DEFINE G == {s \in SUBSET S : \A x \in s : h[s] = w[x] + h[s \ {x}]}
<1>1. \A s \in SUBSET S : h[s] \in Nat
  BY SumUnique
<1>2. ASSUME NEW s \in SUBSET S, NEW x \in s,
             \A r \in SUBSET S : Cardinality(r) < Cardinality(s) => r \in G
      PROVE  h[s] = w[x] + h[s \ {x}]
  <2> DEFINE c == Picked(s)
  <2>1. c \in s /\ h[s] = w[c] + h[s \ {c}]
    BY PickedFacts DEF SumRule
  <2>2. CASE c # x
    <3>1. /\ s \ {c} \in SUBSET S /\ s \ {x} \in SUBSET S
          /\ x \in s \ {c} /\ c \in s \ {x}
      BY <2>1, <2>2
    <3>2. /\ Cardinality(s \ {c}) < Cardinality(s)
          /\ Cardinality(s \ {x}) < Cardinality(s)
      <4>1. IsFiniteSet(s) /\ Cardinality(s) \in Nat
        BY FS_Subset, FS_CardinalityType
      <4>2. /\ Cardinality(s \ {c}) = Cardinality(s) - 1
            /\ Cardinality(s \ {x}) = Cardinality(s) - 1
        BY <2>1, <4>1, FS_RemoveElement
      <4> QED BY <4>1, <4>2
    <3>3. s \ {c} \in G /\ s \ {x} \in G
      BY <1>2, <3>1, <3>2
    <3>4. /\ h[s \ {c}] = w[x] + h[(s \ {c}) \ {x}]
          /\ h[s \ {x}] = w[c] + h[(s \ {x}) \ {c}]
      BY <3>1, <3>3
    <3>5. (s \ {c}) \ {x} = (s \ {x}) \ {c}
      OBVIOUS
    <3> DEFINE rest == h[(s \ {x}) \ {c}]
               a == w[x]
               b == w[c]
    <3>6. a \in Nat /\ b \in Nat /\ rest \in Nat
      BY <1>1, <2>1
    <3>7. h[s] = b + (a + rest) /\ h[s \ {x}] = b + rest
      BY <2>1, <3>4, <3>5
    <3> HIDE DEF a, b, rest
    <3>8. h[s] = a + h[s \ {x}]
      BY <3>6, <3>7
    <3> QED BY <3>8 DEF a
  <2> QED BY <2>1, <2>2
<1> HIDE DEF G
<1>3. ASSUME NEW s \in SUBSET S,
             \A r \in SUBSET S : Cardinality(r) < Cardinality(s) => r \in G
      PROVE  s \in G
  BY <1>2, <1>3 DEF G
<1>4. G \in SUBSET (SUBSET S)
  BY DEF G
<1>5. G = SUBSET S
  BY <1>3, <1>4, AlongSubsets
<1> QED BY <1>5 DEF G, AnyFirst

\* The sum a set is given by SumFunctionOnSet obeys the rule.
LEMMA SumDef ==
    ASSUME NEW S, IsFiniteSet(S), NEW w, \A x \in S : w[x] \in Nat
    PROVE  \E h : SumRule(h, S, w) /\ SumFunctionOnSet(w, S) = h[S]
<1>1. SumFunctionOnSet(w, S) = (CHOOSE h : IsSum(h, S, w))[S]
  BY DEF SumFunctionOnSet, FoldFunctionOnSet, MapThenFoldSet, IsSum, Picked
<1>2. \E h : IsSum(h, S, w)
  BY SumExists
<1>3. IsSum(CHOOSE h : IsSum(h, S, w), S, w)
  BY <1>2
<1>4. ASSUME NEW h, IsSum(h, S, w) PROVE SumRule(h, S, w)
  BY <1>4 DEF IsSum, SumRule
<1> QED BY <1>1, <1>3, <1>4

\* One more member adds its weight; a set without members weighs nothing.
LEMMA SumAdds ==
    ASSUME NEW S, IsFiniteSet(S), NEW x, x \notin S, NEW w,
           \A y \in S \cup {x} : w[y] \in Nat
    PROVE  /\ SumFunctionOnSet(w, S \cup {x}) = SumFunctionOnSet(w, S) + w[x]
           /\ SumFunctionOnSet(w, S) \in Nat
<1> DEFINE T == S \cup {x}
<1>1. IsFiniteSet(T) /\ S \in SUBSET T /\ T \ {x} = S /\ x \in T /\ S \in SUBSET S
  BY FS_AddElement
<1>2. PICK h : SumRule(h, S, w) /\ SumFunctionOnSet(w, S) = h[S]
  BY SumDef
<1>3. PICK f : SumRule(f, T, w) /\ SumFunctionOnSet(w, T) = f[T]
  BY <1>1, SumDef
<1>4. SumRule(f, S, w)
  BY <1>3 DEF SumRule
<1>5. h[S] = f[S] /\ h[S] \in Nat
  BY <1>1, <1>2, <1>4, SumUnique
<1>6. f[T] = w[x] + f[S]
  <2>1. AnyFirst(f, T, w)
    <3>1. \A y \in T : w[y] \in Nat
      OBVIOUS
    <3> HIDE DEF T
    <3> QED BY <1>1, <1>3, <3>1, SumAnyFirst
  <2> QED BY <1>1, <2>1 DEF AnyFirst
<1>7. w[x] \in Nat
  OBVIOUS
<1> QED BY <1>2, <1>3, <1>5, <1>6, <1>7

\* The sum over no member.
LEMMA SumEmpty == ASSUME NEW w PROVE SumFunctionOnSet(w, {}) = 0
<1>1. PICK h : SumRule(h, {}, w) /\ SumFunctionOnSet(w, {}) = h[{}]
  BY SumDef, FS_EmptySet
<1> QED BY <1>1 DEF SumRule

-----------------------------------------------------------------------------
(* The numbers in front of the patch. *)

USE StartsNat, MaxPatchNat

\* The recursion of TrueNumber has a solution, so TrueNumber is one.
LEMMA TrueNumberDef ==
    ASSUME NEW p \in Seq(Pieces)
    PROVE  /\ TrueNumber(p) \in [0..Len(p) -> Int]
           /\ \A i \in 0..Len(p) : TrueNumber(p)[i] =
                IF i = 0 THEN 0
                ELSE IF p[i].is = "hunk" THEN p[i].start - 1
                ELSE IF p[i].is = "right" THEN TrueNumber(p)[i - 1] + 1
                ELSE TrueNumber(p)[i - 1]
<1> DEFINE n == Len(p)
           g == [t \in Nat \X Int |->
                   IF t[1] \in 1..n /\ p[t[1]].is = "hunk" THEN p[t[1]].start - 1
                   ELSE IF t[1] \in 1..n /\ p[t[1]].is = "right" THEN t[2] + 1 ELSE t[2]]
           Sol(f) == f = [i \in 0..n |->
                            IF i = 0 THEN 0
                            ELSE IF p[i].is = "hunk" THEN p[i].start - 1
                            ELSE IF p[i].is = "right" THEN f[i - 1] + 1
                            ELSE f[i - 1]]
<1>1. n \in Nat /\ \A i \in 1..n : p[i].start - 1 \in Int
  <2>1. \A i \in 1..n : p[i] \in Pieces
    OBVIOUS
  <2>2. Starts \subseteq Int /\ 0 \in Int
    OBVIOUS
  <2>3. \A q \in Pieces : q.start \in {0} \cup Starts
    BY DEF Pieces
  <2>4. \A i \in 1..n : p[i].start \in Int
    BY <2>1, <2>2, <2>3
  <2> QED BY <2>4
<1>2. g \in [Nat \X Int -> Int]
  BY <1>1
<1>3. \A i \in 1..n, x \in Int :
         g[<<i, x>>] = IF p[i].is = "hunk" THEN p[i].start - 1
                       ELSE IF p[i].is = "right" THEN x + 1 ELSE x
  BY <1>1
<1> HIDE DEF g
<1>4. PICK f \in [0..n -> Int] : f[0] = 0 /\ \A i \in 1..n : f[i] = g[<<i, f[i - 1]>>]
  <2>1. n \in Nat /\ 0 \in Int
    BY <1>1
  <2> HIDE DEF n
  <2>2. Unfoldings(Int, 0, g, n) # {}
    BY <1>2, <2>1, Unfold
  <2> QED BY <2>2 DEF Unfoldings
<1>5. Sol(f)
  <2>1. ASSUME NEW i \in 0..n
        PROVE  f[i] = IF i = 0 THEN 0
                      ELSE IF p[i].is = "hunk" THEN p[i].start - 1
                      ELSE IF p[i].is = "right" THEN f[i - 1] + 1
                      ELSE f[i - 1]
    <3>1. CASE i = 0
      BY <1>4, <3>1
    <3>2. CASE i # 0
      <4>1. i \in 1..n /\ f[i - 1] \in Int
        BY <1>1, <1>4, <3>2
      <4> QED BY <1>3, <1>4, <4>1
    <3> QED BY <3>1, <3>2
  <2> QED BY <1>4, <2>1
<1>6. TrueNumber(p) = CHOOSE h : Sol(h)
  BY DEF TrueNumber
<1>7. Sol(TrueNumber(p))
  BY <1>5, <1>6
<1>8. ASSUME NEW h, Sol(h) PROVE h \in [0..n -> Int]
  <2> DEFINE G == {i \in 0..n : h[i] \in Int}
  <2>1. h[0] = 0 /\ \A i \in 1..n :
          h[i] = IF p[i].is = "hunk" THEN p[i].start - 1
                 ELSE IF p[i].is = "right" THEN h[i - 1] + 1 ELSE h[i - 1]
    <3>1. 0 \in 0..n /\ \A i \in 1..n : i \in 0..n /\ i # 0
      BY <1>1
    <3>2. \A i \in 0..n :
            h[i] = IF i = 0 THEN 0
                   ELSE IF p[i].is = "hunk" THEN p[i].start - 1
                   ELSE IF p[i].is = "right" THEN h[i - 1] + 1
                   ELSE h[i - 1]
      BY <1>8
    <3> QED BY <3>1, <3>2
  <2>2. 0 \in G /\ \A i \in 1..n : i - 1 \in G => i \in G
    BY <1>1, <2>1
  <2> HIDE DEF G
  <2>3. G \in SUBSET (0..n)
    BY DEF G
  <2>4. G = 0..n
    BY <1>1, <2>2, <2>3, Along
  <2>5. DOMAIN h = 0..n /\ h = [i \in DOMAIN h |-> h[i]]
    BY <1>8
  <2> QED BY <2>4, <2>5 DEF G
<1> HIDE DEF Sol, n
<1>9. TrueNumber(p) \in [0..n -> Int]
  BY <1>7, <1>8
<1> QED BY <1>7, <1>9 DEF Sol, n

\* A hunk header is read as one, and its number is a natural number.
LEMMA PieceFacts ==
    ASSUME NEW q \in Pieces
    PROVE  /\ q.is = "hunk" => q.reads = "hunk"
           /\ q.reads = "hunk" /\ ~Misread(q) => q.is = "hunk"
           /\ q.start \in Nat
<1>1. /\ q.is = "hunk" => q.reads = "hunk"
      /\ q.reads = "hunk" /\ ~Misread(q) => q.is = "hunk"
  BY DEF Pieces, Misread
<1>2. q.start \in {0} \cup Starts
  BY DEF Pieces
<1>3. q.start \in Nat
  <2>1. q.start = 0 \/ q.start \in Starts
    BY <1>2
  <2>2. Starts \subseteq Nat /\ 0 \in Nat
    BY StartsNat
  <2> QED BY ONLY <2>1, <2>2, Zenon
<1> QED BY <1>1, <1>3

IsHeaderOf(p, i, h) ==
    /\ h \in 0..i
    /\ h > 0 => p[h].is = "hunk"
    /\ \A j \in (h + 1)..i : p[j].is # "hunk"

\* Every piece has one last header before it, or none.
LEMMA HeaderExists ==
    ASSUME NEW p \in Seq(Pieces), NEW i \in 0..Len(p)
    PROVE  IsHeaderOf(p, i, HeaderOf(p, i))
<1> DEFINE n == Len(p)
           G == {k \in 0..n : \E h \in 0..k : IsHeaderOf(p, k, h)}
<1>1. n \in Nat
  OBVIOUS
<1>2. 0 \in G
  BY <1>1 DEF IsHeaderOf
<1>3. ASSUME NEW k \in 1..n, k - 1 \in G PROVE k \in G
  <2>1. PICK h \in 0..(k - 1) : IsHeaderOf(p, k - 1, h)
    BY <1>3
  <2>2. CASE p[k].is = "hunk"
    <3>1. IsHeaderOf(p, k, k) /\ k \in 0..k /\ k \in 0..n
      BY <1>1, <2>2 DEF IsHeaderOf
    <3> QED BY <3>1
  <2>3. CASE p[k].is # "hunk"
    <3>1. h \in 0..k /\ k \in 0..n
      BY <1>1
    <3>2. \A j \in (h + 1)..k : p[j].is # "hunk"
      <4>1. \A j \in (h + 1)..k : j \in (h + 1)..(k - 1) \/ j = k
        BY <1>1
      <4> QED BY <2>1, <2>3, <4>1 DEF IsHeaderOf
    <3>3. IsHeaderOf(p, k, h)
      BY <2>1, <3>1, <3>2 DEF IsHeaderOf
    <3> QED BY <3>1, <3>3
  <2> QED BY <2>2, <2>3
<1> HIDE DEF G
<1>4. G \in SUBSET (0..n)
  BY DEF G
<1>5. G = 0..n
  BY <1>1, <1>2, <1>3, <1>4, Along
<1>6. \E h \in 0..i : IsHeaderOf(p, i, h)
  BY <1>5 DEF G
<1>7. HeaderOf(p, i) = CHOOSE h \in 0..i : IsHeaderOf(p, i, h)
  BY DEF HeaderOf, IsHeaderOf
<1> QED BY <1>6, <1>7

\* ... and there is only one.
LEMMA OneHeader ==
    ASSUME NEW p, NEW i \in Nat, NEW h, NEW k, IsHeaderOf(p, i, h), IsHeaderOf(p, i, k)
    PROVE  h = k
<1>1. h \in Nat /\ k \in Nat /\ h <= i /\ k <= i
  BY DEF IsHeaderOf
<1>2. ASSUME h < k PROVE FALSE
  <2>1. k \in (h + 1)..i /\ k > 0
    BY <1>1, <1>2
  <2> QED BY <2>1 DEF IsHeaderOf
<1>3. ASSUME k < h PROVE FALSE
  <2>1. h \in (k + 1)..i /\ h > 0
    BY <1>1, <1>3
  <2> QED BY <2>1 DEF IsHeaderOf
<1> QED BY <1>1, <1>2, <1>3

-----------------------------------------------------------------------------
Counts == Nat \cup {-1}

\* new_line_no after piece q, in either function.
After(q, n) ==
    IF q.reads = "hunk" THEN HunkStart(q) ELSE n + (IF Numbered(q) THEN 1 ELSE 0)

\* new_line_no after each piece of p.
CountStep(p) ==
    [t \in Nat \X Counts |-> IF t[1] \in DOMAIN p THEN After(p[t[1]], t[2]) ELSE 0]
Count(p) == CHOOSE f : f \in Unfoldings(Counts, 0, CountStep(p), Len(p))

\* A piece leads from a counter to a counter.
LEMMA AfterType ==
    ASSUME NEW q \in Pieces, NEW n \in Counts
    PROVE  After(q, n) \in Counts /\ (Numbered(q) => After(q, n) = n + 1)
BY PieceFacts DEF After, Counts, HunkStart, Numbered

\* The recursive function exists and obeys its definition.
LEMMA CountDef ==
    ASSUME NEW p \in Seq(Pieces)
    PROVE  /\ Count(p) \in [0..Len(p) -> Counts] /\ Count(p)[0] = 0
           /\ \A i \in 1..Len(p) : Count(p)[i] = After(p[i], Count(p)[i - 1])
<1>1. CountStep(p) \in [Nat \X Counts -> Counts]
  <2>1. \A t \in Nat \X Counts :
          (IF t[1] \in DOMAIN p THEN After(p[t[1]], t[2]) ELSE 0) \in Counts
    <3>1. 0 \in Counts
      BY DEF Counts
    <3> QED BY <3>1, AfterType
  <2> QED BY <2>1 DEF CountStep
<1>2. Len(p) \in Nat /\ 0 \in Counts /\ DOMAIN p = 1..Len(p)
  BY DEF Counts
<1>3. Count(p) \in Unfoldings(Counts, 0, CountStep(p), Len(p))
  BY <1>1, <1>2, Unfold DEF Count
<1>4. /\ Count(p) \in [0..Len(p) -> Counts] /\ Count(p)[0] = 0
      /\ \A i \in 1..Len(p) : Count(p)[i] = CountStep(p)[<<i, Count(p)[i - 1]>>]
  BY <1>3 DEF Unfoldings
<1>5. ASSUME NEW i \in 1..Len(p) PROVE Count(p)[i] = After(p[i], Count(p)[i - 1])
  <2>1. i \in Nat /\ i - 1 \in 0..Len(p) /\ i \in DOMAIN p
    BY <1>2
  <2>2. Count(p)[i - 1] \in Counts
    BY <1>4, <2>1
  <2>3. CountStep(p)[<<i, Count(p)[i - 1]>>] = After(p[i], Count(p)[i - 1])
    BY <2>1, <2>2 DEF CountStep
  <2> QED BY <1>4, <2>3
<1> QED BY <1>4, <1>5

\* The counter is the line of the new file, unless a piece of the same hunk was
\* misread.
LEMMA CountTrue ==
    ASSUME NEW p \in Seq(Pieces), NEW i \in 0..Len(p)
    PROVE  \/ Count(p)[i] = TrueNumber(p)[i]
           \/ \E j \in HeaderOf(p, i)..i : j > 0 /\ Misread(p[j])
<1> DEFINE n == Len(p)
           Off(k) == \E j \in HeaderOf(p, k)..k : j > 0 /\ Misread(p[j])
           G == {k \in 0..n : Count(p)[k] = TrueNumber(p)[k] \/ Off(k)}
<1>1. n \in Nat /\ 0 \in 0..n
  OBVIOUS
<1>2. 0 \in G
  BY <1>1, CountDef, TrueNumberDef
<1>3. ASSUME NEW k \in 1..n, k - 1 \in G PROVE k \in G
  <2>1. k \in 0..n /\ k - 1 \in 0..n /\ k # 0 /\ p[k] \in Pieces /\ k \in Nat /\ k - 1 \in Nat
    BY <1>1
  <2>2. /\ Count(p)[k] = After(p[k], Count(p)[k - 1])
        /\ TrueNumber(p)[k] = IF p[k].is = "hunk" THEN p[k].start - 1
                              ELSE IF p[k].is = "right" THEN TrueNumber(p)[k - 1] + 1
                              ELSE TrueNumber(p)[k - 1]
    BY <2>1, CountDef, TrueNumberDef
  <2>3. CASE p[k].is = "hunk"
    <3>1. Count(p)[k] = TrueNumber(p)[k]
      BY <2>1, <2>2, <2>3, PieceFacts DEF After, HunkStart
    <3> QED BY <2>1, <3>1
  <2>4. CASE p[k].is # "hunk"
    <3>1. HeaderOf(p, k) = HeaderOf(p, k - 1)
      <4>1. IsHeaderOf(p, k, HeaderOf(p, k)) /\ IsHeaderOf(p, k - 1, HeaderOf(p, k - 1))
        BY <2>1, HeaderExists
      <4>2. HeaderOf(p, k) # k
        BY <2>1, <2>4, <4>1 DEF IsHeaderOf
      <4>3. IsHeaderOf(p, k - 1, HeaderOf(p, k))
        BY <2>1, <4>1, <4>2 DEF IsHeaderOf
      <4> QED BY <2>1, <4>1, <4>3, OneHeader
    <3>2. HeaderOf(p, k) \in Nat /\ HeaderOf(p, k) <= k
      BY <2>1, HeaderExists DEF IsHeaderOf
    <3>3. CASE Misread(p[k])
      <4>1. k \in HeaderOf(p, k)..k /\ k > 0
        BY <2>1, <3>2
      <4> QED BY <2>1, <3>3, <4>1
    <3>4. CASE Off(k - 1)
      <4>1. \A j \in HeaderOf(p, k - 1)..(k - 1) : j \in HeaderOf(p, k)..k
        BY <2>1, <3>1, <3>2
      <4> QED BY <2>1, <3>4, <4>1
    <3>5. CASE ~Misread(p[k]) /\ Count(p)[k - 1] = TrueNumber(p)[k - 1]
      <4>1. p[k].is = "right" <=> Numbered(p[k])
        BY <3>5 DEF Misread, Numbered
      <4>2. Count(p)[k - 1] \in Counts
        BY <2>1, CountDef
      <4>3. Count(p)[k] = TrueNumber(p)[k]
        BY <2>1, <2>2, <2>4, <3>5, <4>1, <4>2, PieceFacts DEF After, Counts
      <4> QED BY <2>1, <4>3
    <3> QED BY <1>3, <3>3, <3>4, <3>5
  <2> QED BY <2>3, <2>4
<1> HIDE DEF G
<1>4. G \in SUBSET (0..n)
  BY DEF G
<1>5. G = 0..n
  BY <1>1, <1>2, <1>3, <1>4, Along
<1> QED BY <1>5 DEF G

-----------------------------------------------------------------------------
\* Pieces of p before i that get a number.
NumberedBefore(p, i) == {k \in 1..(i - 1) : Numbered(p[k])}

\* Both functions count alike, and keep a number for the same pieces.
CountInv ==
    /\ reader # "done" => number = Count(patch)[piece - 1]
    /\ reader = "format" =>
         /\ labels = {<<k, Count(patch)[k]>> : k \in NumberedBefore(patch, piece)}
         /\ addable = {}
    /\ reader # "format" =>
         /\ labels = {<<k, Count(patch)[k]>> : k \in NumberedBefore(patch, Len(patch) + 1)}
         /\ addable = {Count(patch)[k] : k \in NumberedBefore(patch, piece)}
    /\ reader = "done" => piece = Len(patch) + 1

PatchInv == PatchTypeOK /\ CountInv

\* Before the first piece the counter stands at nothing.
LEMMA PatchInitInd == PatchInit => PatchInv
<1> SUFFICES ASSUME PatchInit PROVE PatchInv
  OBVIOUS
<1>1. patch \in Seq(Pieces)
  BY DEF PatchInit
<1>2. piece = 1 /\ number = 0 /\ labels = {} /\ addable = {} /\ reader = "format"
  BY DEF PatchInit
<1>3. Count(patch)[0] = 0 /\ NumberedBefore(patch, 1) = {}
  BY <1>1, CountDef DEF NumberedBefore
<1> QED BY <1>1, <1>2, <1>3 DEF PatchInv, PatchTypeOK, CountInv

\* The piece at hand: what both functions do with it.
LEMMA PieceStep ==
    ASSUME PatchInv, reader # "done", piece <= Len(patch)
    PROVE  /\ piece \in 1..Len(patch) /\ patch[piece] \in Pieces
           /\ Count(patch)[piece] = After(patch[piece], number)
           /\ Count(patch)[piece] \in Counts
           /\ Numbered(patch[piece]) => Count(patch)[piece] \in Nat
           /\ NumberedBefore(patch, piece + 1) = NumberedBefore(patch, piece) \cup
                (IF Numbered(patch[piece]) THEN {piece} ELSE {})
<1>1. piece \in 1..Len(patch) /\ patch \in Seq(Pieces) /\ Len(patch) \in Nat
  BY DEF PatchInv, PatchTypeOK
<1>2. patch[piece] \in Pieces /\ piece - 1 \in 0..Len(patch) /\ piece \in 0..Len(patch)
  BY <1>1
<1>3. /\ number = Count(patch)[piece - 1] /\ number \in Counts
      /\ Count(patch)[piece] \in Counts
      /\ Count(patch)[piece] = After(patch[piece], number)
  <2>1. number = Count(patch)[piece - 1]
    BY DEF PatchInv, CountInv
  <2>2. number \in Counts
    BY DEF PatchInv, PatchTypeOK, Counts
  <2> QED BY <1>1, <1>2, <2>1, <2>2, CountDef
<1>4. Numbered(patch[piece]) => Count(patch)[piece] \in Nat
  <2>1. Numbered(patch[piece]) => Count(patch)[piece] = number + 1
    BY <1>2, <1>3, AfterType
  <2>2. number + 1 \in Nat
    BY <1>3 DEF Counts
  <2> QED BY <2>1, <2>2
<1>5. 1..((piece + 1) - 1) = (1..(piece - 1)) \cup {piece}
  BY <1>1
<1> QED BY <1>1, <1>2, <1>3, <1>4, <1>5 DEF NumberedBefore

\* The annotating pass numbers a piece as the definition does.
LEMMA FormatLineInd == PatchInv /\ FormatLine => PatchInv'
<1> SUFFICES ASSUME PatchInv, FormatLine PROVE PatchInv'
  OBVIOUS
<1> DEFINE q == patch[piece]
           c == Count(patch)[piece]
<1>1. /\ piece \in 1..Len(patch) /\ c = After(q, number) /\ c \in Counts
      /\ Numbered(q) => c \in Nat
      /\ NumberedBefore(patch, piece + 1) = NumberedBefore(patch, piece) \cup
           (IF Numbered(q) THEN {piece} ELSE {})
  BY PieceStep DEF FormatLine
<1>2. /\ number' = c /\ piece' = piece + 1 /\ UNCHANGED <<patch, reader, addable>>
      /\ labels' = IF Numbered(q) THEN labels \cup {<<piece, c>>} ELSE labels
      /\ reader = "format"
  BY <1>1 DEF FormatLine, FormatCount, After
<1>3. PatchTypeOK'
  <2>1. number' \in Nat \cup {-1} /\ piece' \in 1..(Len(patch') + 1)
    BY <1>1, <1>2 DEF PatchInv, PatchTypeOK, Counts
  <2>2. labels' \subseteq (1..Len(patch')) \X Nat
    BY <1>1, <1>2 DEF PatchInv, PatchTypeOK
  <2> QED BY <1>2, <2>1, <2>2 DEF PatchInv, PatchTypeOK
<1>4. /\ number' = Count(patch')[piece' - 1] /\ addable' = {}
      /\ labels' = {<<k, Count(patch)[k]>> : k \in NumberedBefore(patch, piece + 1)}
  <2>1. labels = {<<k, Count(patch)[k]>> : k \in NumberedBefore(patch, piece)}
    BY <1>2 DEF PatchInv, CountInv
  <2>2. piece' - 1 = piece /\ addable' = {}
    BY <1>1, <1>2 DEF PatchInv, CountInv
  <2>3. CASE Numbered(q)
    BY <1>1, <1>2, <2>1, <2>2, <2>3
  <2>4. CASE ~Numbered(q)
    BY <1>1, <1>2, <2>1, <2>2, <2>4
  <2> QED BY <2>3, <2>4
<1> QED BY <1>2, <1>3, <1>4 DEF PatchInv, CountInv

\* The collecting pass, over the same patch, does so too.
LEMMA AddableLineInd == PatchInv /\ AddableLine => PatchInv'
<1> SUFFICES ASSUME PatchInv, AddableLine PROVE PatchInv'
  OBVIOUS
<1> DEFINE q == patch[piece]
           c == Count(patch)[piece]
<1>1. /\ piece \in 1..Len(patch) /\ c = After(q, number) /\ c \in Counts
      /\ Numbered(q) => c \in Nat
      /\ NumberedBefore(patch, piece + 1) = NumberedBefore(patch, piece) \cup
           (IF Numbered(q) THEN {piece} ELSE {})
  BY PieceStep DEF AddableLine
<1>2. /\ number' = c /\ piece' = piece + 1 /\ UNCHANGED <<patch, reader, labels>>
      /\ addable' = IF Numbered(q) THEN addable \cup {c} ELSE addable
      /\ reader = "addable"
  BY <1>1 DEF AddableLine, AddableCount, AddableNumbered, After
<1>3. PatchTypeOK'
  <2>1. number' \in Nat \cup {-1} /\ piece' \in 1..(Len(patch') + 1)
    BY <1>1, <1>2 DEF PatchInv, PatchTypeOK, Counts
  <2>2. addable' \subseteq Nat
    BY <1>1, <1>2 DEF PatchInv, PatchTypeOK
  <2> QED BY <1>2, <2>1, <2>2 DEF PatchInv, PatchTypeOK
<1>4. /\ number' = Count(patch')[piece' - 1]
      /\ addable' = {Count(patch)[k] : k \in NumberedBefore(patch, piece + 1)}
  <2>1. addable = {Count(patch)[k] : k \in NumberedBefore(patch, piece)}
    BY <1>2 DEF PatchInv, CountInv
  <2>2. piece' - 1 = piece
    BY <1>1, <1>2
  <2>3. CASE Numbered(q)
    BY <1>1, <1>2, <2>1, <2>2, <2>3
  <2>4. CASE ~Numbered(q)
    BY <1>1, <1>2, <2>1, <2>2, <2>4
  <2> QED BY <2>3, <2>4
<1> QED BY <1>2, <1>3, <1>4 DEF PatchInv, CountInv

\* The first function has numbered the whole patch, the second starts anew.
LEMMA ReturnsInd == PatchInv /\ (FormatReturns \/ AddableReturns) => PatchInv'
<1> SUFFICES ASSUME PatchInv, FormatReturns \/ AddableReturns PROVE PatchInv'
  OBVIOUS
<1>1. patch \in Seq(Pieces) /\ Len(patch) \in Nat /\ piece = Len(patch) + 1
  BY DEF PatchInv, PatchTypeOK, FormatReturns, AddableReturns
<1>2. CASE FormatReturns
  <2>1. Count(patch)[0] = 0 /\ NumberedBefore(patch, 1) = {}
    BY <1>1, CountDef DEF NumberedBefore
  <2>2. PatchTypeOK'
    BY <1>1, <1>2 DEF PatchInv, PatchTypeOK, FormatReturns
  <2>3. CountInv'
    BY <1>1, <1>2, <2>1 DEF PatchInv, CountInv, FormatReturns
  <2> QED BY <2>2, <2>3 DEF PatchInv
<1>3. CASE AddableReturns
  <2>1. PatchTypeOK'
    BY <1>1, <1>3 DEF PatchInv, PatchTypeOK, AddableReturns
  <2>2. CountInv'
    BY <1>1, <1>3 DEF PatchInv, CountInv, AddableReturns
  <2> QED BY <2>1, <2>2 DEF PatchInv
<1> QED BY <1>2, <1>3

\* A step of either pass keeps the counters.
LEMMA PatchNextInd == PatchInv /\ PatchNext => PatchInv'
BY FormatLineInd, AddableLineInd, ReturnsInd DEF PatchNext

\* Nothing of the patch depends on the other parts.
LEMMA PatchStutter == PatchInv /\ UNCHANGED patchVars => PatchInv'
BY DEF patchVars, PatchInv, PatchTypeOK, CountInv

\* Where no earlier piece of the hunk is misread the count is the true number.
LEMMA LabelsAreTrue == PatchInv => LabelsTrue
<1> SUFFICES ASSUME PatchInv, NEW l \in labels
             PROVE  \/ l[2] = TrueNumber(patch)[l[1]]
                    \/ \E j \in HeaderOf(patch, l[1])..l[1] : j > 0 /\ Misread(patch[j])
  BY DEF LabelsTrue
<1>1. patch \in Seq(Pieces) /\ Len(patch) \in Nat /\ piece \in 1..(Len(patch) + 1)
  BY DEF PatchInv, PatchTypeOK
<1>2. PICK k \in 0..Len(patch) : l = <<k, Count(patch)[k]>>
  BY <1>1 DEF PatchInv, CountInv, NumberedBefore
<1> QED BY <1>1, <1>2, CountTrue

\* At the end both functions have numbered the same pieces.
LEMMA LabelsAreAddable == PatchInv => LabelsAddable
<1> SUFFICES ASSUME PatchInv, reader = "done" PROVE addable = {l[2] : l \in labels}
  BY DEF LabelsAddable
<1> DEFINE N == NumberedBefore(patch, Len(patch) + 1)
           F == Count(patch)
<1>1. labels = {<<k, F[k]>> : k \in N} /\ addable = {F[k] : k \in N}
  BY DEF PatchInv, CountInv
<1> HIDE DEF N, F
<1>2. \A k \in N : <<k, F[k]>>[2] = F[k]
  OBVIOUS
<1>3. \A l \in labels : l[2] \in addable
  BY <1>1
<1>4. \A a \in addable : \E l \in labels : a = l[2]
  BY <1>1, <1>2
<1> QED BY <1>3, <1>4

-----------------------------------------------------------------------------
(* The dump. *)

\* Files a reader of the dump could look for.
Wanted(p) == IsFile(p) /\ Reviewable(tree[p])

\* Where the files are that the loop has passed.
SortedOut ==
    /\ \A p \in Paths \ todo :
         (tree[p].listed # "deleted" /\ Wanted(p)) => p \in entries \cup budgetExcluded
    /\ \A p \in Paths \ todo : IsFile(p) => p \in entries \cup filteredOut \cup budgetExcluded
    /\ \A p \in budgetExcluded : Wanted(p) /\ p \notin entries
    /\ todo \cap (entries \cup budgetExcluded) = {}

\* The choice was made from the finished dump.
ChoiceInv ==
    /\ engineMode # "none" => todo = {}
    /\ engineMode = "diff" => Changed \cap budgetExcluded # {}
    /\ engineMode = "full" => Changed \cap budgetExcluded = {}

DumpInv == DumpTypeOK /\ SortedOut /\ NoRoomLeft /\ ChoiceInv

USE PathsNat, KindsAreFiles, SizesNat

\* The size of an entry of the dump is a natural number.
LEMMA EntryCharsNat ==
    ASSUME DumpTypeOK, NEW p \in Paths
    PROVE  EntryChars(tree[p]) \in Nat
<1>1. tree[p] \in Files
  BY DEF DumpTypeOK
<1>2. tree[p].chars \in Nat
  BY <1>1 DEF Files
<1> QED BY <1>2 DEF EntryChars

\* An empty dump is within its budget.
LEMMA DumpInitInd == DumpInit => DumpInv
BY DEF DumpInit, DumpInv, DumpTypeOK, SortedOut, NoRoomLeft, ChoiceInv, Wanted, IsFile

\* A file that is passed over or filtered out is none a reader looks for.
LEMMA PassInd ==
    ASSUME DumpInv, NEW p \in Paths, PassOver(p) \/ FilterOut(p)
    PROVE  DumpInv'
<1> USE DEF PassOver, FilterOut, Reach
<1>1. DumpTypeOK'
  BY DEF DumpInv, DumpTypeOK
<1>2. ~Wanted(p)
  BY DEF Wanted
<1>3. SortedOut'
  BY <1>2 DEF DumpInv, SortedOut, Wanted, IsFile
<1>4. NoRoomLeft'
  BY DEF DumpInv, NoRoomLeft
<1>5. ChoiceInv'
  BY DEF DumpInv, ChoiceInv, Changed
<1> QED BY <1>1, <1>3, <1>4, <1>5 DEF DumpInv

\* The file that is cut has no room now, and the dump only grows.
LEMMA CutInd ==
    ASSUME DumpInv, NEW p \in Paths, Cut(p)
    PROVE  DumpInv'
<1> USE DEF Cut, Reach
<1>1. DumpTypeOK'
  BY DEF DumpInv, DumpTypeOK
<1>2. SortedOut'
  BY DEF DumpInv, SortedOut, Wanted, IsFile
<1>3. NoRoomLeft'
  <2>1. totalChars + EntryChars(tree[p]) > MaxFileChars
    BY EntryCharsNat DEF DumpInv, DumpTypeOK, Fits
  <2> QED BY <2>1 DEF DumpInv, NoRoomLeft
<1>4. ChoiceInv'
  BY DEF DumpInv, ChoiceInv
<1> QED BY <1>1, <1>2, <1>3, <1>4 DEF DumpInv

\* A file is taken only if it fits, and what was cut still does not.
LEMMA IncludeInd ==
    ASSUME DumpInv, NEW p \in Paths, Include(p)
    PROVE  DumpInv'
<1> USE DEF Include, Reach
<1>1. EntryChars(tree[p]) \in Nat
  BY EntryCharsNat DEF DumpInv
<1>2. DumpTypeOK'
  BY <1>1 DEF DumpInv, DumpTypeOK
<1>3. SortedOut'
  BY DEF DumpInv, SortedOut, Wanted, IsFile
<1>4. NoRoomLeft'
  <2>1. totalChars' <= MaxFileChars
    BY DEF Fits
  <2>2. ASSUME NEW q \in budgetExcluded
        PROVE  totalChars' + EntryChars(tree[q]) > MaxFileChars
    <3>1. q \in Paths /\ EntryChars(tree[q]) \in Nat
      BY EntryCharsNat DEF DumpInv, DumpTypeOK
    <3>2. totalChars + EntryChars(tree[q]) > MaxFileChars
      BY DEF DumpInv, NoRoomLeft
    <3> QED BY <1>1, <3>1, <3>2 DEF DumpInv, DumpTypeOK
  <2> QED BY <2>1, <2>2 DEF NoRoomLeft
<1>5. ChoiceInv'
  BY DEF DumpInv, ChoiceInv
<1> QED BY <1>2, <1>3, <1>4, <1>5 DEF DumpInv

\* A changed file that was cut is listed under its own name, so the limit counts as
\* exceeded whenever one is missing.
LEMMA ChooseInd == DumpInv /\ ChooseMode => DumpInv'
<1> SUFFICES ASSUME DumpInv, ChooseMode PROVE DumpInv'
  OBVIOUS
<1> USE DEF ChooseMode
<1>1. ChangedCut => ExceededLimit
  <2> SUFFICES ASSUME ChangedCut PROVE budgetExcluded \cap KnownChanged # {}
    BY DEF ExceededLimit
  <2>1. PICK p \in Changed \cap budgetExcluded : TRUE
    BY DEF ChangedCut
  <2>2. IsFile(p)
    BY <2>1 DEF DumpInv, SortedOut, Wanted
  <2>3. p \in KnownChanged
    BY <2>1, <2>2 DEF KnownChanged, IsFile
  <2> QED BY <2>1, <2>3
<1>2. DumpTypeOK' /\ SortedOut' /\ NoRoomLeft'
  BY DEF DumpInv, DumpTypeOK, SortedOut, NoRoomLeft, Wanted, IsFile
<1>3. ChoiceInv'
  BY <1>1 DEF ChoiceInv, ChangedCut, Changed
<1> QED BY <1>2, <1>3 DEF DumpInv

Chars == [p \in Paths |-> EntryChars(tree[p])]

\* The dump counts what it holds, and takes files in the order of their rank.
TakenInv ==
    /\ totalChars = SumFunctionOnSet(Chars, entries)
    /\ \A e \in entries, q \in todo : Rank(e) <= Rank(q)
    /\ ChangedFirst

\* The sizes may be summed.
LEMMA CharsNat ==
    ASSUME DumpInv, NEW S \in SUBSET Paths
    PROVE  IsFiniteSet(S) /\ \A p \in S : Chars[p] \in Nat /\ Chars[p] = EntryChars(tree[p])
<1>1. IsFiniteSet(S)
  BY PathsNat, FS_Subset
<1>2. \A p \in Paths : EntryChars(tree[p]) \in Nat
  BY EntryCharsNat DEF DumpInv
<1> QED BY <1>1, <1>2 DEF Chars

\* There are three priorities, and the first is that of the changed files.
LEMMA RankNat == ASSUME NEW p PROVE Rank(p) \in {0, 1, 2} /\ (Rank(p) = 0 <=> p \in KnownChanged)
BY DEF Rank

\* An empty dump sums to nothing.
LEMMA DumpInitTaken == DumpInit => TakenInv
BY SumEmpty DEF DumpInit, TakenInv, ChangedFirst

\* A step that takes no file may only cut one, and a changed file is cut when there
\* are only changed ones in the dump.
LEMMA LeaveOutTaken ==
    ASSUME DumpInv, TakenInv, NEW p \in Paths, PassOver(p) \/ FilterOut(p) \/ Cut(p)
    PROVE  TakenInv'
<1>1. /\ p \in todo /\ todo' = todo \ {p} /\ UNCHANGED <<tree, entries, totalChars>>
      /\ budgetExcluded' = budgetExcluded
           \/ (Cut(p) /\ budgetExcluded' = budgetExcluded \cup {p})
  BY DEF PassOver, FilterOut, Cut, Reach
<1>2. Chars' = Chars /\ Changed' = Changed /\ \A q \in Paths : Rank(q)' = Rank(q)
  BY <1>1 DEF Chars, Changed, Rank, KnownChanged, EntryChars
<1>3. ASSUME Cut(p), p \in Changed
      PROVE  SumFunctionOnSet(Chars, entries \cap Changed) + Chars[p] > MaxFileChars
  <2>1. p \in KnownChanged
    BY <1>3 DEF Cut, IsFile, KnownChanged
  <2>2. entries \in SUBSET Paths
    BY DEF DumpInv, DumpTypeOK
  <2>3. \A e \in entries : Rank(e) = 0
    BY <1>1, <2>1, RankNat DEF TakenInv
  <2>4. entries \cap Changed = entries
    BY <2>2, <2>3, RankNat DEF KnownChanged
  <2>5. totalChars \in Nat /\ EntryChars(tree[p]) \in Nat /\ MaxFileChars \in Nat
    BY SizesNat, EntryCharsNat DEF DumpInv, DumpTypeOK
  <2>6. totalChars + EntryChars(tree[p]) > MaxFileChars
    BY <1>3, <2>5 DEF Cut, Fits
  <2> QED BY <2>4, <2>6 DEF TakenInv, Chars
<1>4. ChangedFirst'
  <2>1. ASSUME NEW q \in budgetExcluded' \cap Changed
        PROVE  SumFunctionOnSet(Chars, entries \cap Changed) + Chars[q] > MaxFileChars
    BY <1>1, <1>3, <2>1 DEF TakenInv, ChangedFirst, Chars
  <2> QED BY <1>1, <1>2, <2>1 DEF ChangedFirst, Chars
<1>5. \A e \in entries', q \in todo' : Rank(e)' <= Rank(q)'
  BY <1>1, <1>2 DEF TakenInv, DumpInv, DumpTypeOK
<1>6. totalChars' = SumFunctionOnSet(Chars', entries')
  BY <1>1, <1>2 DEF TakenInv
<1> QED BY <1>4, <1>5, <1>6 DEF TakenInv

\* A changed file adds to the sum over the changed ones, any other leaves it.
LEMMA IncludeTaken ==
    ASSUME DumpInv, TakenInv, NEW p \in Paths, Include(p)
    PROVE  TakenInv'
<1>1. /\ p \in todo /\ todo' = todo \ {p} /\ UNCHANGED <<tree, budgetExcluded>>
      /\ \A q \in todo \ {p} : Before(p, q)
      /\ entries' = entries \cup {p} /\ totalChars' = totalChars + EntryChars(tree[p])
  BY DEF Include, Reach
<1>2. Chars' = Chars /\ Changed' = Changed /\ \A q \in Paths : Rank(q)' = Rank(q)
  BY <1>1 DEF Chars, Changed, Rank, KnownChanged, EntryChars
<1>3. /\ entries \in SUBSET Paths /\ p \notin entries /\ todo \subseteq Paths
      /\ budgetExcluded \subseteq Paths
  BY <1>1 DEF DumpInv, DumpTypeOK, SortedOut
<1>4. totalChars' = SumFunctionOnSet(Chars, entries')
  <2>1. IsFiniteSet(entries) /\ \A y \in entries \cup {p} : Chars[y] \in Nat
    BY <1>3, CharsNat
  <2>2. SumFunctionOnSet(Chars, entries \cup {p}) = SumFunctionOnSet(Chars, entries) + Chars[p]
    BY <1>3, <2>1, SumAdds
  <2> QED BY <1>1, <2>2 DEF TakenInv, Chars
<1>5. \A e \in entries', q \in todo' : Rank(e) <= Rank(q)
  BY <1>1, RankNat DEF TakenInv, Before
<1>6. ASSUME NEW q \in budgetExcluded \cap Changed
      PROVE  SumFunctionOnSet(Chars, entries' \cap Changed) + Chars[q] > MaxFileChars
  <2>1. SumFunctionOnSet(Chars, entries \cap Changed) + Chars[q] > MaxFileChars
    BY DEF TakenInv, ChangedFirst, Chars
  <2>2. CASE p \in Changed
    <3> DEFINE S == entries \cap Changed
    <3>1. S \in SUBSET Paths /\ p \notin S /\ entries' \cap Changed = S \cup {p}
      BY <1>1, <1>3, <2>2
    <3>2. IsFiniteSet(S) /\ \A y \in S \cup {p} : Chars[y] \in Nat
      BY <3>1, CharsNat
    <3>3. /\ SumFunctionOnSet(Chars, S \cup {p}) = SumFunctionOnSet(Chars, S) + Chars[p]
          /\ SumFunctionOnSet(Chars, S) \in Nat
      BY <3>1, <3>2, SumAdds
    <3>4. Chars[p] \in Nat /\ Chars[q] \in Nat /\ MaxFileChars \in Nat
      BY <1>3, SizesNat, CharsNat
    <3> HIDE DEF S
    <3> QED BY <2>1, <3>1, <3>3, <3>4 DEF S
  <2>3. CASE p \notin Changed
    <3>1. entries' \cap Changed = entries \cap Changed
      BY <1>1, <2>3
    <3> QED BY <2>1, <3>1
  <2> QED BY <2>2, <2>3
<1>7. ChangedFirst'
  BY <1>1, <1>2, <1>6 DEF ChangedFirst, Chars
<1>8. \A e \in entries', q \in todo' : Rank(e)' <= Rank(q)'
  BY <1>1, <1>2, <1>3, <1>5
<1> QED BY <1>2, <1>4, <1>7, <1>8 DEF TakenInv

\* No other step changes what the sums are about.
LEMMA RestTaken ==
    ASSUME TakenInv, ChooseMode \/ UNCHANGED dumpVars
    PROVE  TakenInv'
<1>1. UNCHANGED <<tree, todo, entries, budgetExcluded, totalChars>>
  BY DEF ChooseMode, dumpVars
<1>2. Chars' = Chars /\ Changed' = Changed
  BY <1>1 DEF Chars, Changed, EntryChars
<1>3. \A q : Rank(q)' = Rank(q)
  BY <1>1 DEF Rank, KnownChanged, Changed
<1>4. ChangedFirst'
  BY <1>1, <1>2 DEF TakenInv, ChangedFirst, Chars
<1> QED BY <1>1, <1>2, <1>3, <1>4 DEF TakenInv

-----------------------------------------------------------------------------
(* The conversation. *)

\* The loop has kept everything after the entry it looks at next, and counted
\* nothing before it kept something.
LoopInv ==
    /\ talkPc = "fetch" => kept = {} /\ total = 0 /\ cutLen = 0 /\ next = 0
    /\ talkPc = "select" => kept = (next + 1)..Len(fetched) /\ cutLen = 0
    /\ kept = {} => total = 0

TalkInv == TalkTypeOK /\ LoopInv /\ SelectionFills

USE CommentsNat, TalkKindsShape, TalkBoundsNat

\* The newest comment is a number.
LEMMA WrittenNat == TalkTypeOK => written \in Nat
<1> SUFFICES ASSUME TalkTypeOK PROVE written \in Nat
  OBVIOUS
<1>1. written \in Comments \cup {0}
  BY DEF TalkTypeOK
<1> QED BY <1>1

\* Two sequences of comments put together.
LEMMA Joined ==
    ASSUME NEW s \in Seq(Comments), NEW t \in Seq(Comments)
    PROVE  /\ s \o t \in Seq(Comments)
           /\ ToSet(s \o t) = ToSet(s) \cup ToSet(t)
           /\ \A i \in DOMAIN (s \o t) :
                \/ i \in DOMAIN s /\ (s \o t)[i] = s[i]
                \/ /\ i > Len(s) /\ i - Len(s) \in DOMAIN t
                   /\ (s \o t)[i] = t[i - Len(s)]
           /\ DOMAIN s = 1..Len(s) /\ Len(s) \in Nat
           /\ DOMAIN (s \o t) \subseteq Nat
<1> DEFINE u == s \o t
<1>1. /\ u \in Seq(Comments)
      /\ Len(u) = Len(s) + Len(t) /\ Len(s) \in Nat /\ Len(t) \in Nat
      /\ \A i \in 1..Len(s) : u[i] = s[i]
      /\ \A i \in 1..Len(t) : u[Len(s) + i] = t[i]
      /\ DOMAIN s = 1..Len(s) /\ DOMAIN t = 1..Len(t)
      /\ DOMAIN u = 1..(Len(s) + Len(t))
  BY ConcatProperties
<1> HIDE DEF u
<1>2. ASSUME NEW i \in DOMAIN u
      PROVE  \/ i \in DOMAIN s /\ u[i] = s[i]
             \/ i > Len(s) /\ i - Len(s) \in DOMAIN t /\ u[i] = t[i - Len(s)]
  <2>1. CASE i <= Len(s)
    BY <1>1, <2>1
  <2>2. CASE i > Len(s)
    <3>1. i - Len(s) \in 1..Len(t) /\ Len(s) + (i - Len(s)) = i
      BY <1>1, <2>2
    <3> QED BY <1>1, <2>2, <3>1
  <2> QED BY <1>1, <2>1, <2>2
<1>3. ToSet(u) \subseteq ToSet(s) \cup ToSet(t)
  BY <1>2 DEF ToSet
<1>4. ToSet(s) \subseteq ToSet(u)
  <2>1. \A i \in DOMAIN s : i \in DOMAIN u
    BY <1>1
  <2> QED BY <1>1, <2>1 DEF ToSet
<1>5. ToSet(t) \subseteq ToSet(u)
  <2>1. \A i \in DOMAIN t : Len(s) + i \in DOMAIN u
    BY <1>1
  <2> QED BY <1>1, <2>1 DEF ToSet
<1>6. DOMAIN u \subseteq Nat
  BY <1>1
<1>7. ToSet(u) = ToSet(s) \cup ToSet(t)
  BY <1>3, <1>4, <1>5
<1>8. \A i \in DOMAIN u :
        \/ i \in DOMAIN s /\ u[i] = s[i]
        \/ i > Len(s) /\ i - Len(s) \in DOMAIN t /\ u[i] = t[i - Len(s)]
  BY <1>2
<1> QED BY <1>1, <1>6, <1>7, <1>8 DEF u

\* Positions are counted, below the number of comments of the kind, and grow along
\* the endpoint's order.
LEMMA PositionFacts ==
    ASSUME NEW k, NEW c \in Comments, NEW d \in Comments
    PROVE  /\ Position(k, c) \in Nat /\ Cardinality(OfKind(k)) \in Nat
           /\ c = d \/ Ahead(k, c, d) => Position(k, c) <= Position(k, d)
           /\ c \in OfKind(k) => Position(k, c) < Cardinality(OfKind(k))
<1> DEFINE A(x) == {e \in OfKind(k) : Ahead(k, e, x)}
<1>1. OfKind(k) \subseteq Comments /\ IsFiniteSet(OfKind(k))
  <2>1. OfKind(k) \subseteq Comments
    BY DEF OfKind
  <2> QED BY <2>1, FS_Subset
<1>2. \A x : IsFiniteSet(A(x)) /\ A(x) \subseteq OfKind(k)
  BY <1>1, FS_Subset
<1>3. Cardinality(OfKind(k)) \in Nat /\ \A x : Cardinality(A(x)) \in Nat
  BY <1>1, <1>2, FS_CardinalityType
<1>4. \A x : Position(k, x) = Cardinality(A(x))
  BY DEF Position
<1>5. \A x \in Comments : x \in Nat
  BY CommentsNat
<1>6. ASSUME c = d \/ Ahead(k, c, d) PROVE Position(k, c) <= Position(k, d)
  <2>1. A(c) \subseteq A(d)
    <3>1. CASE c = d
      BY <3>1
    <3>2. CASE Ahead(k, c, d)
      <4>1. \A e \in Comments : Ahead(k, e, c) => Ahead(k, e, d)
        BY <1>5, <3>2 DEF Ahead
      <4> QED BY <1>1, <4>1
    <3> QED BY <1>6, <3>1, <3>2
  <2> HIDE DEF A
  <2>2. Cardinality(A(c)) <= Cardinality(A(d))
    BY <1>2, <2>1, FS_Subset
  <2> QED BY <1>4, <2>2
<1>7. ASSUME c \in OfKind(k) PROVE Position(k, c) < Cardinality(OfKind(k))
  <2>1. c \notin A(c)
    <3>1. c \in Nat
      BY <1>5
    <3>2. ~Ahead(k, c, c)
      BY ONLY <3>1 DEF Ahead
    <3> QED BY <3>2
  <2>2. A(c) # OfKind(k)
    BY <1>7, <2>1
  <2> HIDE DEF A
  <2>3. Cardinality(A(c)) <= Cardinality(OfKind(k)) /\ Cardinality(A(c)) # Cardinality(OfKind(k))
    BY <1>1, <1>2, <2>2, FS_Subset
  <2> QED BY <1>3, <1>4, <2>3
<1> HIDE DEF A
<1> QED BY <1>3, <1>4, <1>6, <1>7

\* A page gives its usable comments, each once, in the endpoint's order.
LEMMA PageFacts ==
    ASSUME NEW k, NEW n, NEW items \in PageEntries(k, n)
    PROVE  /\ items \in Seq(Comments)
           /\ ToSet(items) = {c \in Page(k, n) : comment[c].usable}
           /\ \A i, j \in DOMAIN items : i < j => Ahead(k, items[i], items[j])
<1> DEFINE S == {c \in Page(k, n) : comment[c].usable}
           z == Cardinality(S)
<1>1. S \subseteq Comments
  BY DEF Page, OfKind
<1>2. IsFiniteSet(S) /\ z \in Nat
  BY <1>1, FS_Subset, FS_CardinalityType
<1>3. items \in [1..z -> S] /\ \A i, j \in DOMAIN items : i < j => Ahead(k, items[i], items[j])
  BY DEF PageEntries
<1>4. \A c, d \in Comments : Ahead(k, c, d) => c # d
  <2>1. \A c \in Comments : c \in Nat
    BY CommentsNat
  <2> QED BY ONLY <2>1 DEF Ahead
<1> HIDE DEF S, z
<1>5. items \in Injection(1..z, S)
  <2>1. ASSUME NEW i \in 1..z, NEW j \in 1..z, items[i] = items[j] PROVE i = j
    <3>1. items[i] \in Comments /\ items[j] \in Comments
      BY <1>1, <1>3
    <3>2. ~(i < j) /\ ~(j < i)
      BY <1>3, <1>4, <2>1, <3>1
    <3> QED BY <1>2, <3>2
  <2> QED BY <1>3, <2>1 DEF Injection, IsInjective
<1>6. Cardinality(1..z) = z
  BY <1>2, FS_Interval
<1>7. items \in Surjection(1..z, S)
  BY <1>2, <1>5, <1>6, FS_Injection DEF z
<1>8. ToSet(items) = S
  BY <1>3, <1>7 DEF Surjection, ToSet
<1>9. items \in Seq(Comments)
  <2>1. items \in [1..z -> Comments]
    BY <1>1, <1>3
  <2> QED BY <1>2, <2>1
<1> QED BY <1>3, <1>8, <1>9 DEF S

-----------------------------------------------------------------------------
\* A comment of kind k that was there when m was the newest one.
Met(k, m, d) == d \in Comments /\ comment[d].usable /\ comment[d].kind = k /\ d <= m

\* Whatever was there and stands on the first n pages is in S, ...
Reached(k, m, n, S) ==
    \A d \in Comments : Met(k, m, d) /\ Position(k, d) < n * PageSize => d \in S

\* ... and whatever was there and is newer than something in S.
Gapless(k, m, S) ==
    k # "review" =>
      \A c \in S, d \in Comments :
        comment[c].kind = k /\ Met(k, m, d) /\ d > c => d \in S

\* Reviews stand on the pages in the order of their creation.
InOrder(k, n, s) ==
    k = "review" =>
      /\ \A i \in DOMAIN s : Position(k, s[i]) < n * PageSize
      /\ \A i, j \in DOMAIN s : i < j => s[i] < s[j]

\* The entries are of one endpoint.
OfEndpoint(k, S) == \A c \in S : c \in OfKind(k) /\ comment[c].usable

\* What the first n pages of endpoint k have given.
ReadInv(k, m, n, s) ==
    /\ m \in Nat /\ m <= written
    /\ OfEndpoint(k, ToSet(s))
    /\ Reached(k, m, n, ToSet(s)) /\ Gapless(k, m, ToSet(s)) /\ InOrder(k, n, s)

\* Before the first page nothing is read.
LEMMA ReadNothing == TalkTypeOK => \A k : ReadInv(k, written, 0, <<>>)
<1> SUFFICES ASSUME TalkTypeOK, NEW k PROVE ReadInv(k, written, 0, <<>>)
  OBVIOUS
<1>1. ToSet(<<>>) = {} /\ DOMAIN <<>> = {}
  BY DEF ToSet
<1>2. \A d \in Comments : ~(Position(k, d) < 0 * PageSize)
  BY PositionFacts
<1>3. written \in Nat /\ written <= written
  BY WrittenNat
<1> QED BY <1>1, <1>2, <1>3 DEF ReadInv, OfEndpoint, Reached, Gapless, InOrder

\* One page more, whatever was written since the one before.
LEMMA ReadPage ==
    ASSUME NEW k, NEW m, NEW n \in Nat, n >= 1,
           NEW s \in Seq(Comments), ReadInv(k, m, n - 1, s),
           NEW items \in PageEntries(k, n), written \in Nat
    PROVE  s \o items \in Seq(Comments) /\ ReadInv(k, m, n, s \o items)
<1> DEFINE u == s \o items
           low == (n - 1) * PageSize
           high == n * PageSize
<1>1. /\ items \in Seq(Comments) /\ ToSet(items) = {c \in Page(k, n) : comment[c].usable}
      /\ \A i, j \in DOMAIN items : i < j => Ahead(k, items[i], items[j])
  BY PageFacts
<1>2. /\ u \in Seq(Comments) /\ ToSet(u) = ToSet(s) \cup ToSet(items)
      /\ \A i \in DOMAIN u :
           \/ i \in DOMAIN s /\ u[i] = s[i]
           \/ i > Len(s) /\ i - Len(s) \in DOMAIN items /\ u[i] = items[i - Len(s)]
      /\ DOMAIN s = 1..Len(s) /\ Len(s) \in Nat /\ DOMAIN u \subseteq Nat
  BY <1>1, Joined
<1>3. low \in Nat /\ high \in Nat /\ low <= high
  <2>1. \A a \in Nat, b \in Nat : a >= 1 => /\ (a - 1) * b \in Nat /\ a * b \in Nat
                                            /\ (a - 1) * b <= a * b
    OBVIOUS
  <2> QED BY <2>1
<1>4. \A c : c \in Page(k, n) <=>
        c \in OfKind(k) /\ low <= Position(k, c) /\ Position(k, c) < high
  BY DEF Page
<1>5. \A d \in Comments : Met(k, m, d) /\ Position(k, d) < low => d \in ToSet(s)
  BY DEF ReadInv, Reached
<1>6. /\ m \in Nat /\ m <= written /\ OfEndpoint(k, ToSet(s)) /\ Gapless(k, m, ToSet(s))
      /\ k = "review" =>
           /\ \A i \in DOMAIN s : Position(k, s[i]) < low
           /\ \A i, j \in DOMAIN s : i < j => s[i] < s[j]
  BY DEF ReadInv, InOrder
<1>7. \A d \in Comments : Met(k, m, d) => d \in OfKind(k) /\ comment[d].usable
  <2> SUFFICES ASSUME NEW d \in Comments, Met(k, m, d)
               PROVE  d \in OfKind(k) /\ comment[d].usable
    OBVIOUS
  <2>1. d \in Nat /\ d <= m
    BY DEF Met
  <2>2. d <= written
    BY <1>6, <2>1
  <2> QED BY <2>2 DEF Met, OfKind
<1> HIDE DEF u, low, high
<1>8. OfEndpoint(k, ToSet(u))
  BY <1>1, <1>2, <1>4, <1>6 DEF OfEndpoint
<1>9. ASSUME NEW d \in Comments, Met(k, m, d), Position(k, d) < high
      PROVE  d \in ToSet(u)
  <2>1. Position(k, d) \in Nat
    BY PositionFacts
  <2>2. CASE Position(k, d) < low
    BY <1>2, <1>5, <1>9, <2>2
  <2>3. CASE low <= Position(k, d)
    <3>1. d \in Page(k, n) /\ comment[d].usable
      BY <1>4, <1>7, <1>9, <2>3
    <3> QED BY <1>1, <1>2, <3>1
  <2> QED BY <1>3, <2>1, <2>2, <2>3
<1>10. ASSUME k # "review", NEW c \in ToSet(u), NEW d \in Comments,
              comment[c].kind = k, Met(k, m, d), d > c
       PROVE  d \in ToSet(u)
  <2>1. CASE c \in ToSet(s)
    BY <1>2, <1>6, <1>10, <2>1 DEF Gapless
  <2>2. CASE c \in ToSet(items)
    <3>1. c \in Comments /\ Position(k, c) < high
      BY <1>1, <1>4, <2>2 DEF OfKind
    <3>2. Ahead(k, d, c)
      BY <1>10 DEF Ahead, NewestFirst
    <3>3. Position(k, d) <= Position(k, c) /\ Position(k, d) \in Nat /\ Position(k, c) \in Nat
      BY <3>1, <3>2, PositionFacts
    <3>4. Position(k, d) < high
      BY <1>3, <3>1, <3>3
    <3> QED BY <1>9, <1>10, <3>4
  <2> QED BY <1>2, <2>1, <2>2
<1>11. ASSUME k = "review", NEW i \in DOMAIN u
       PROVE  Position(k, u[i]) < high
  <2>1. CASE i \in DOMAIN s /\ u[i] = s[i]
    <3>1. Position(k, u[i]) < low /\ u[i] \in Comments
      BY <1>2, <1>6, <1>11, <2>1
    <3>2. Position(k, u[i]) \in Nat
      BY <3>1, PositionFacts
    <3> QED BY <1>3, <3>1, <3>2
  <2>2. CASE i - Len(s) \in DOMAIN items /\ u[i] = items[i - Len(s)]
    <3>1. u[i] \in ToSet(items)
      BY <2>2 DEF ToSet
    <3> QED BY <1>1, <1>4, <3>1
  <2> QED BY <1>2, <1>11, <2>1, <2>2
<1>12. ASSUME k = "review", NEW i \in DOMAIN u, NEW j \in DOMAIN u, i < j
       PROVE  u[i] < u[j]
  <2>1. i \in Nat /\ j \in Nat /\ u[i] \in Comments /\ u[j] \in Comments
    BY <1>2
  <2>2. u[i] \in Nat /\ u[j] \in Nat /\ (u[j] = u[i] \/ u[j] < u[i] => Ahead(k, u[j], u[i]) \/ u[j] = u[i])
    BY <1>12, <2>1 DEF Ahead, NewestFirst
  <2>3. CASE j \in DOMAIN s
    <3>1. i \in DOMAIN s /\ u[i] = s[i] /\ u[j] = s[j]
      BY <1>2, <1>12, <2>1, <2>3
    <3> QED BY <1>6, <1>12, <2>3, <3>1
  <2>4. CASE i \in DOMAIN s /\ j \notin DOMAIN s
    <3>1. u[i] = s[i] /\ j - Len(s) \in DOMAIN items /\ u[j] = items[j - Len(s)]
      BY <1>2, <2>1, <2>4
    <3>2. Position(k, u[i]) < low
      BY <1>6, <1>12, <2>4, <3>1
    <3>3. u[j] \in ToSet(items)
      BY <3>1 DEF ToSet
    <3>4. low <= Position(k, u[j])
      BY <1>1, <1>4, <3>3
    <3>5. /\ Position(k, u[i]) \in Nat /\ Position(k, u[j]) \in Nat
          /\ u[j] = u[i] \/ Ahead(k, u[j], u[i]) => Position(k, u[j]) <= Position(k, u[i])
      BY <2>1, PositionFacts
    <3> QED BY <1>3, <2>2, <3>2, <3>4, <3>5
  <2>5. CASE i \notin DOMAIN s
    <3>1. i > Len(s) /\ i - Len(s) \in DOMAIN items /\ u[i] = items[i - Len(s)]
      BY <1>2, <2>5
    <3>2. j \notin DOMAIN s
      BY <1>2, <1>12, <2>1, <3>1
    <3>3. j - Len(s) \in DOMAIN items /\ u[j] = items[j - Len(s)]
      BY <1>2, <3>2
    <3>4. i - Len(s) < j - Len(s)
      BY <1>2, <1>12, <2>1
    <3>5. Ahead(k, u[i], u[j])
      BY <1>1, <3>1, <3>3, <3>4
    <3> QED BY <1>12, <3>5 DEF Ahead, NewestFirst
  <2> QED BY <2>3, <2>4, <2>5
<1>13. Reached(k, m, n, ToSet(u))
  BY <1>9 DEF Reached, high
<1>14. Gapless(k, m, ToSet(u))
  BY <1>10 DEF Gapless
<1>15. InOrder(k, n, u)
  BY <1>11, <1>12 DEF InOrder, high
<1> QED BY <1>2, <1>6, <1>8, <1>13, <1>14, <1>15 DEF ReadInv, u

\* A comment written moves others down in the lists that show it first, and none in
\* the list of the reviews.
LEMMA WriteMoves ==
    ASSUME Write, TalkTypeOK, NEW k, NEW d \in Comments
    PROVE  /\ OfKind(k) \subseteq OfKind(k)' /\ written <= written' /\ written' \in Nat
           /\ Position(k, d)' \in Nat /\ Position(k, d) \in Nat
           /\ Position(k, d) <= Position(k, d)'
           /\ k = "review" /\ d <= written => Position(k, d)' = Position(k, d)
           /\ Cardinality(OfKind(k)) <= Cardinality(OfKind(k))'
           /\ Cardinality(OfKind(k)) \in Nat /\ Cardinality(OfKind(k))' \in Nat
<1>1. /\ written' \in Comments /\ written < written' /\ written \in Nat /\ written' \in Nat
      /\ comment' = comment /\ \A c \in Comments : c \in Nat
  <2>1. PICK c \in Comments : c > written /\ written' = c
    BY DEF Write
  <2>2. \A e \in Comments : e \in Nat
    BY CommentsNat
  <2>3. written \in Nat /\ comment' = comment
    BY WrittenNat DEF Write
  <2> QED BY <2>1, <2>2, <2>3
<1>2. OfKind(k) \subseteq OfKind(k)' /\ OfKind(k)' \subseteq Comments
  <2>1. ASSUME NEW c \in Comments, c <= written PROVE c <= written'
    <3>1. c \in Nat
      BY <1>1
    <3> QED BY <1>1, <2>1, <3>1
  <2> QED BY <1>1, <2>1 DEF OfKind
<1> DEFINE A == {e \in OfKind(k) : Ahead(k, e, d)}
           B == {e \in OfKind(k)' : Ahead(k, e, d)}
<1>3. A \subseteq B /\ Position(k, d) = Cardinality(A) /\ Position(k, d)' = Cardinality(B)
  <2>1. Position(k, d) = Cardinality(A)
    BY DEF Position
  <2>2. Position(k, d)' = Cardinality(B)
    BY DEF Position, Ahead, NewestFirst
  <2> QED BY <1>2, <2>1, <2>2
<1>4. IsFiniteSet(A) /\ IsFiniteSet(B) /\ IsFiniteSet(OfKind(k)) /\ IsFiniteSet(OfKind(k)')
  <2>1. A \subseteq Comments /\ B \subseteq Comments /\ OfKind(k) \subseteq Comments
    BY <1>2
  <2> QED BY <1>2, <2>1, FS_Subset
<1>5. k = "review" /\ d <= written => B = A
  <2> SUFFICES ASSUME k = "review", d <= written, NEW e \in B PROVE e \in A
    BY <1>3
  <2>1. e < d /\ e \in Comments /\ comment[e].kind = k
    BY <1>1 DEF OfKind, Ahead, NewestFirst
  <2>2. e \in Nat /\ d \in Nat /\ written \in Nat
    BY <1>1, <2>1
  <2>3. e <= written
    BY ONLY <2>1, <2>2, d <= written
  <2> QED BY <2>1, <2>3 DEF OfKind
<1> HIDE DEF A, B
<1>6. /\ Cardinality(A) <= Cardinality(B) /\ Cardinality(A) \in Nat /\ Cardinality(B) \in Nat
  BY <1>3, <1>4, FS_Subset, FS_CardinalityType
<1>7. /\ Cardinality(OfKind(k)) <= Cardinality(OfKind(k)')
      /\ Cardinality(OfKind(k)) \in Nat /\ Cardinality(OfKind(k)') \in Nat
  BY <1>2, <1>4, FS_Subset, FS_CardinalityType
<1> QED BY <1>1, <1>2, <1>3, <1>5, <1>6, <1>7

\* What was there of an endpoint that answered is in S, unless it was behind the last
\* page.
AllOf(k, m, S) ==
    /\ m \in Nat /\ m <= written
    /\ Cardinality(OfKind(k)) <= MaxPages * PageSize =>
         \A d \in Comments : Met(k, m, d) => d \in S
    /\ Gapless(k, m, S)

\* Reviews come from one endpoint, which returns them in the order of their creation.
UndatedAsFetched ==
    \A i, j \in DOMAIN fetched :
      i < j /\ ~comment[fetched[i]].dated /\ ~comment[fetched[j]].dated
        => fetched[i] < fetched[j]

\* The order of time, in which a comment listed twice stands next to itself.
ByTime ==
    \A i, j \in DOMAIN fetched :
      i < j => fetched[i] = fetched[j] \/ Later(fetched[j], fetched[i])

\* The pages of the endpoint that is being asked.
PagesInv ==
    /\ page = 1 => results = <<>>
    /\ page > 1 => endpoint <= 3 /\ talkPc = "fetch"
    /\ page > 1 => \A k, m, n, s :
                     k = Asked /\ m = known[Asked] /\ n = page - 1 /\ s = results
                       => ReadInv(k, m, n, s)

FetchedInv ==
    /\ \A c \in ToSet(fetched) : c \in Comments /\ comment[c].kind \in answered
    /\ answered \subseteq {Kinds[i] : i \in 1..(endpoint - 1)}
    /\ \A k \in answered : \A m, S :
         m = known[k] /\ S = ToSet(fetched) => AllOf(k, m, S)
    /\ talkPc = "fetch" => UndatedAsFetched
    /\ talkPc # "fetch" => ByTime
    /\ PagesInv

AllKinds == {"review", "issue_comment", "line_comment"}

\* The endpoints.
LEMMA KindsAre ==
    /\ DOMAIN Kinds = 1..3 /\ Len(Kinds) = 3
    /\ {Kinds[i] : i \in DOMAIN Kinds} = AllKinds /\ {Kinds[i] : i \in 1..3} = AllKinds
    /\ Kinds[1] = "review" /\ \A i, j \in 1..3 : Kinds[i] = Kinds[j] => i = j
<1>1. DOMAIN Kinds = 1..3 /\ Len(Kinds) = 3
  BY DEF Kinds
<1>2. Kinds[1] = "review" /\ Kinds[2] = "issue_comment" /\ Kinds[3] = "line_comment"
  BY DEF Kinds
<1>3. 1..3 = {1, 2, 3}
  OBVIOUS
<1>4. {Kinds[i] : i \in 1..3} = AllKinds
  BY <1>2, <1>3 DEF AllKinds
<1> QED BY <1>1, <1>2, <1>3, <1>4

\* What is read of an endpoint depends on what is on GitHub only.
LEMMA ReadSame ==
    ASSUME UNCHANGED <<comment, written>>, NEW k, NEW m, NEW n, NEW s, ReadInv(k, m, n, s)
    PROVE  ReadInv(k, m, n, s)'
<1>1. \A d : Position(k, d)' = Position(k, d)
  BY DEF Position, OfKind, Ahead, NewestFirst
<1>2. OfKind(k)' = OfKind(k) /\ \A d : Met(k, m, d)' <=> Met(k, m, d)
  BY DEF OfKind, Met
<1>3. OfEndpoint(k, ToSet(s))' <=> OfEndpoint(k, ToSet(s))
  BY <1>2 DEF OfEndpoint
<1>4. Reached(k, m, n, ToSet(s))' <=> Reached(k, m, n, ToSet(s))
  BY <1>1, <1>2 DEF Reached
<1>5. Gapless(k, m, ToSet(s))' <=> Gapless(k, m, ToSet(s))
  BY <1>2 DEF Gapless
<1>6. InOrder(k, n, s)' <=> InOrder(k, n, s)
  BY <1>1 DEF InOrder
<1> QED BY <1>3, <1>4, <1>5, <1>6 DEF ReadInv

\* ... and so does what an endpoint gave.
LEMMA AllSame ==
    ASSUME UNCHANGED <<comment, written>>, NEW k, NEW m, NEW S, AllOf(k, m, S)
    PROVE  AllOf(k, m, S)'
<1>1. OfKind(k)' = OfKind(k) /\ \A d : Met(k, m, d)' <=> Met(k, m, d)
  BY DEF OfKind, Met
<1>2. Gapless(k, m, S)' <=> Gapless(k, m, S)
  BY <1>1 DEF Gapless
<1> QED BY <1>1, <1>2 DEF AllOf

\* The endpoint asked, what was there then, and what its pages have given so far.
LEMMA ToRead ==
    ASSUME TalkTypeOK, PagesInv, endpoint <= Len(Kinds)
    PROVE  /\ endpoint \in 1..3 /\ Asked \in AllKinds /\ page \in Nat /\ page >= 1
           /\ Known \in [AllKinds -> Comments \cup {0}]
           /\ \A k \in AllKinds : k # Asked => Known[k] = known[k]
           /\ ReadInv(Asked, Known[Asked], page - 1, results)
<1>1. /\ endpoint \in 1..3 /\ page \in 1..MaxPages /\ page \in Nat /\ page >= 1
      /\ known \in [AllKinds -> Comments \cup {0}] /\ written \in Comments \cup {0}
  BY KindsAre DEF TalkTypeOK
<1>2. Asked \in AllKinds
  BY <1>1, KindsAre DEF Asked
<1>3. CASE page = 1
  <2>1. Known = [known EXCEPT ![Asked] = written] /\ results = <<>>
    BY <1>3 DEF Known, PagesInv
  <2>2. Known[Asked] = written /\ page - 1 = 0
    BY <1>1, <1>2, <1>3, <2>1
  <2>3. Known \in [AllKinds -> Comments \cup {0}]
    BY <1>1, <2>1
  <2>4. \A k \in AllKinds : k # Asked => Known[k] = known[k]
    BY <1>1, <2>1
  <2>5. ReadInv(Asked, written, 0, <<>>)
    BY ReadNothing
  <2> QED BY <1>1, <1>2, <2>1, <2>2, <2>3, <2>4, <2>5
<1>4. CASE page > 1
  <2>1. Known = known
    BY <1>1, <1>4 DEF Known
  <2>2. ReadInv(Asked, known[Asked], page - 1, results)
    BY <1>4 DEF PagesInv
  <2> QED BY <1>1, <1>2, <2>1, <2>2
<1> QED BY <1>1, <1>3, <1>4

\* The length of a rendered entry is a natural number.
LEMMA EntryLenNat ==
    ASSUME TalkTypeOK, NEW i \in DOMAIN fetched
    PROVE  EntryLen(i) \in Nat /\ EntryLen(i) >= 1
<1>1. fetched[i] \in Comments
  BY DEF TalkTypeOK
<1>2. comment[fetched[i]] \in TalkKinds
  BY <1>1 DEF TalkTypeOK
<1>3. comment[fetched[i]].len \in Nat
  BY <1>2
<1> QED BY <1>3 DEF EntryLen

\* Before the first request nothing is fetched.
LEMMA TalkInitInd == TalkInit => TalkInv
<1> SUFFICES ASSUME TalkInit PROVE TalkInv
  OBVIOUS
<1> USE DEF TalkInit
<1>1. fetched = <<>> /\ results = <<>> /\ fetched \in Seq(Comments) /\ results \in Seq(Comments)
  OBVIOUS
<1>2. known \in [{Kinds[i] : i \in DOMAIN Kinds} -> Comments \cup {0}]
  BY KindsAre
<1>3. TalkTypeOK
  BY <1>1, <1>2, KindsAre DEF TalkTypeOK
<1> QED BY <1>1, <1>3 DEF TalkInv, LoopInv, SelectionFills

\* Fetching leaves the selection for later.
LEMMA FetchInd ==
    ASSUME TalkInv, FetchedInv, Write \/ FetchPage \/ FetchEndpoint \/ EndpointFails
    PROVE  TalkInv'
<1> USE DEF Write, FetchPage, FetchEndpoint, EndpointFails, pageVars
<1>1. /\ kept = {} /\ next = 0 /\ total = 0 /\ cutLen = 0
      /\ talkPc = "fetch" /\ UNCHANGED <<comment, kept, next, talkPc, total, cutLen>>
  BY DEF TalkInv, LoopInv
<1>2. TalkTypeOK /\ PagesInv
  BY DEF TalkInv, FetchedInv
<1>3. /\ written' \in Comments \cup {0} /\ endpoint' \in 1..(Len(Kinds) + 1)
      /\ page' \in 1..MaxPages /\ results' \in Seq(Comments) /\ fetched' \in Seq(Comments)
      /\ known' \in [{Kinds[i] : i \in DOMAIN Kinds} -> Comments \cup {0}]
      /\ answered' \subseteq {Kinds[i] : i \in DOMAIN Kinds}
  <2>1. CASE Write
    BY <1>2, <2>1 DEF TalkTypeOK
  <2>2. CASE FetchPage
    <3>1. PICK items \in PageEntries(Asked, page) : results' = results \o items
      BY <2>2
    <3>2. results' \in Seq(Comments)
      BY <1>2, <3>1, PageFacts, Joined DEF TalkTypeOK
    <3>3. page' \in 1..MaxPages
      BY <1>2, <2>2 DEF TalkTypeOK
    <3>4. known' \in [{Kinds[i] : i \in DOMAIN Kinds} -> Comments \cup {0}]
      BY <1>2, <2>2, ToRead, KindsAre
    <3> QED BY <1>2, <2>2, <3>2, <3>3, <3>4 DEF TalkTypeOK
  <2>3. CASE FetchEndpoint
    <3>1. PICK items \in PageEntries(Asked, page) : fetched' = fetched \o (results \o items)
      BY <2>3
    <3>2. results \o items \in Seq(Comments)
      BY <1>2, PageFacts, Joined DEF TalkTypeOK
    <3>3. fetched' \in Seq(Comments)
      BY <1>2, <3>1, <3>2, Joined DEF TalkTypeOK
    <3>4. /\ known' \in [{Kinds[i] : i \in DOMAIN Kinds} -> Comments \cup {0}]
          /\ Asked \in {Kinds[i] : i \in DOMAIN Kinds} /\ endpoint \in 1..3
      BY <1>2, <2>3, ToRead, KindsAre
    <3>5. endpoint' \in 1..(Len(Kinds) + 1)
      BY <2>3, <3>4, KindsAre
    <3>6. page' \in 1..MaxPages /\ results' \in Seq(Comments)
      BY <2>3
    <3>7. answered' \subseteq {Kinds[i] : i \in DOMAIN Kinds} /\ written' = written
      BY <1>2, <2>3, <3>4 DEF TalkTypeOK
    <3> QED BY <1>2, <3>3, <3>4, <3>5, <3>6, <3>7 DEF TalkTypeOK
  <2>4. CASE EndpointFails
    <3>1. endpoint' \in 1..(Len(Kinds) + 1) /\ page' \in 1..MaxPages /\ results' \in Seq(Comments)
      BY <1>2, <2>4, KindsAre DEF TalkTypeOK
    <3> QED BY <1>2, <2>4, <3>1 DEF TalkTypeOK
  <2> QED BY <2>1, <2>2, <2>3, <2>4
<1>4. TalkTypeOK'
  BY <1>1, <1>2, <1>3 DEF TalkTypeOK
<1>5. LoopInv' /\ SelectionFills'
  BY <1>1 DEF LoopInv, SelectionFills
<1> QED BY <1>4, <1>5 DEF TalkInv

\* The selection starts behind the newest entry.
LEMMA SortInd ==
    ASSUME TalkInv, Sort
    PROVE  TalkInv'
<1> USE DEF Sort, pageVars
<1>1. PICK order \in [DOMAIN fetched -> DOMAIN fetched] :
        fetched' = [i \in DOMAIN fetched |-> fetched[order[i]]]
  OBVIOUS
<1>2. fetched \in Seq(Comments)
  BY DEF TalkInv, TalkTypeOK
<1>3. fetched' \in Seq(Comments) /\ Len(fetched') = Len(fetched)
  BY <1>1, <1>2
<1>4. kept' = {} /\ next' = Len(fetched') /\ Len(fetched') \in Nat
  BY <1>2, <1>3 DEF TalkInv, LoopInv
<1>5. TalkTypeOK'
  BY <1>3, <1>4 DEF TalkInv, TalkTypeOK
<1>6. LoopInv' /\ SelectionFills'
  BY <1>4 DEF TalkInv, LoopInv, SelectionFills
<1> QED BY <1>5, <1>6 DEF TalkInv

\* The loop keeps an entry that fits.
LEMMA KeepInd ==
    ASSUME TalkInv, KeepEntry
    PROVE  TalkInv'
<1> USE DEF KeepEntry, pageVars
<1>1. next \in DOMAIN fetched /\ Len(fetched) \in Nat /\ next \in Nat
  BY DEF TalkInv, TalkTypeOK
<1>2. EntryLen(next) \in Nat
  BY <1>1, EntryLenNat DEF TalkInv
<1>3. TalkTypeOK'
  <2>1. total' \in 0..MaxTalkChars
    BY <1>2 DEF TalkInv, TalkTypeOK, FitsCap
  <2>2. next' \in 0..Len(fetched) /\ kept' \subseteq 1..Len(fetched)
    <3>1. next \in 0..Len(fetched) /\ next > 0 /\ Len(fetched) \in Nat
      BY <1>1 DEF TalkInv, TalkTypeOK
    <3>2. next - 1 \in 0..Len(fetched) /\ next \in 1..Len(fetched)
      BY <3>1
    <3>3. kept \subseteq 1..Len(fetched)
      BY DEF TalkInv, TalkTypeOK
    <3> QED BY <3>2, <3>3
  <2>3. UNCHANGED <<comment, written, endpoint, page, results, known, answered, fetched,
                    cutLen, talkPc>>
    OBVIOUS
  <2>4. TalkTypeOK
    BY DEF TalkInv
  <2> HIDE DEF KeepEntry
  <2> QED BY <2>1, <2>2, <2>3, <2>4 DEF TalkTypeOK
<1>4. LoopInv' /\ SelectionFills'
  BY <1>1 DEF TalkInv, LoopInv, SelectionFills
<1> QED BY <1>3, <1>4 DEF TalkInv

\* A newest entry beyond the cap is cut, and it was too long for it.
LEMMA CutNewestInd ==
    ASSUME TalkInv, CutNewest
    PROVE  TalkInv'
<1> USE DEF CutNewest, pageVars
<1>1. /\ next \in Nat /\ next > 0 /\ Len(fetched) \in Nat /\ next <= Len(fetched)
      /\ kept = (next + 1)..Len(fetched)
  BY DEF TalkInv, TalkTypeOK, LoopInv
<1>2. next = Len(fetched)
  <2>1. next + 1 \notin kept
    OBVIOUS
  <2>2. next < Len(fetched) => next + 1 \in (next + 1)..Len(fetched)
    BY <1>1
  <2> QED BY <1>1, <2>1, <2>2
<1>3. cutLen' \in Nat /\ cutLen' # 0
  BY DEF TalkInv, TalkTypeOK, AtLeastOne
<1>4. TalkTypeOK'
  BY <1>1, <1>3 DEF TalkInv, TalkTypeOK
<1>5. LoopInv'
  BY DEF LoopInv
<1>6. EntryLen(Len(fetched)) > MaxTalkChars /\ UNCHANGED comment
  <2>1. EntryLen(next) \in Nat /\ total = 0
    BY <1>1, EntryLenNat DEF TalkInv, LoopInv
  <2> QED BY <1>2, <2>1 DEF FitsCap
<1>7. kept' = {Len(fetched)'} /\ fetched' = fetched
  BY <1>2
<1>8. cutLen' - Mark >= MaxTalkChars - 1
  <2>1. total = 0
    BY DEF TalkInv, LoopInv
  <2> QED BY <2>1, TalkBoundsNat DEF AtLeastOne
<1>9. SelectionFills'
  BY <1>1, <1>2, <1>3, <1>6, <1>7, <1>8 DEF SelectionFills, EntryLen
<1> QED BY <1>4, <1>5, <1>9 DEF TalkInv

\* The loop stops at an entry with no room, or has none left to look at.
LEMMA StopInd ==
    ASSUME TalkInv, StopSelecting \/ Selected
    PROVE  TalkInv'
<1> USE DEF StopSelecting, Selected, pageVars
<1>1. /\ next \in 0..Len(fetched) /\ Len(fetched) \in Nat
      /\ kept = (next + 1)..Len(fetched) /\ total \in Nat
      /\ UNCHANGED <<fetched, next, kept, total, cutLen, comment>>
      /\ talkPc = "select" /\ talkPc' = "done"
  BY DEF TalkInv, TalkTypeOK, LoopInv
<1>2. TalkTypeOK' /\ LoopInv'
  BY <1>1 DEF TalkInv, TalkTypeOK, LoopInv
<1>3. fetched # <<>> => kept # {}
  <2>1. CASE StopSelecting
    BY <2>1
  <2>2. CASE Selected /\ fetched # <<>>
    <3>1. Len(fetched) >= 1
      BY <1>1, <2>2, EmptySeq DEF TalkInv, TalkTypeOK
    <3>2. 1 \in (next + 1)..Len(fetched)
      BY <1>1, <2>2, <3>1
    <3> QED BY <1>1, <3>2
  <2> QED BY <2>1, <2>2
<1>4. ASSUME NEW j \in DOMAIN fetched \ kept, j + 1 \in kept
      PROVE  total + EntryLen(j) > MaxTalkChars
  <2>1. j = next
    BY <1>1, <1>4 DEF TalkInv, TalkTypeOK
  <2>2. EntryLen(j) \in Nat
    BY EntryLenNat DEF TalkInv
  <2> QED BY <1>1, <2>1, <2>2 DEF FitsCap
<1>5. \A i \in kept : \A j \in i..Len(fetched) : j \in kept
  BY <1>1
<1>6. cutLen = 0 /\ total <= MaxTalkChars
  BY DEF TalkInv, TalkTypeOK, LoopInv
<1>7. SelectionFills'
  BY <1>1, <1>3, <1>4, <1>5, <1>6 DEF SelectionFills, EntryLen
<1> QED BY <1>2, <1>7 DEF TalkInv

\* Of endpoints not asked yet nothing is there.
LEMMA TalkInitFetched == TalkInit => FetchedInv
<1> SUFFICES ASSUME TalkInit PROVE FetchedInv
  OBVIOUS
<1>1. /\ fetched = <<>> /\ DOMAIN fetched = {} /\ answered = {} /\ talkPc = "fetch"
      /\ page = 1 /\ results = <<>>
  BY DEF TalkInit
<1>2. ToSet(fetched) = {}
  BY <1>1 DEF ToSet
<1>3. PagesInv
  BY <1>1 DEF PagesInv
<1> QED BY <1>1, <1>2, <1>3 DEF FetchedInv, UndatedAsFetched

\* Only reviews lack a time.
LEMMA UndatedIsReview ==
    ASSUME TalkTypeOK, NEW c \in Comments, ~comment[c].dated
    PROVE  comment[c].kind = "review"
<1>1. comment[c] \in TalkKinds
  BY DEF TalkTypeOK
<1> QED BY <1>1, TalkKindsShape

\* A new comment is none of those that were there, and leaves what was read as it was.
LEMMA WriteRead ==
    ASSUME Write, TalkTypeOK, NEW k, NEW m, NEW n \in Nat, NEW s, ReadInv(k, m, n, s)
    PROVE  ReadInv(k, m, n, s)'
<1>1. m \in Nat /\ m <= written /\ written \in Nat /\ n * PageSize \in Nat
  <2>1. \A a \in Nat, b \in Nat : a * b \in Nat
    OBVIOUS
  <2> QED BY <2>1, WrittenNat DEF ReadInv
<1>2. comment' = comment /\ m <= written' /\ OfKind(k) \subseteq OfKind(k)'
  <2>1. PICK c \in Comments : c > written /\ written' = c
    BY DEF Write
  <2>2. c \in Nat
    BY CommentsNat
  <2>3. OfKind(k) \subseteq OfKind(k)'
    BY <2>1, WriteMoves
  <2> QED BY <1>1, <2>1, <2>2, <2>3 DEF Write
<1>3. \A d : Met(k, m, d)' <=> Met(k, m, d)
  BY <1>2 DEF Met
<1>4. OfEndpoint(k, ToSet(s))'
  <2>1. OfEndpoint(k, ToSet(s))
    BY DEF ReadInv
  <2> QED BY <1>2, <2>1 DEF OfEndpoint
<1>5. Reached(k, m, n, ToSet(s))'
  <2> SUFFICES ASSUME NEW d \in Comments, Met(k, m, d), Position(k, d)' < n * PageSize
               PROVE  d \in ToSet(s)
    BY <1>3 DEF Reached
  <2>1. /\ Position(k, d) <= Position(k, d)' /\ Position(k, d) \in Nat
        /\ Position(k, d)' \in Nat
    BY WriteMoves
  <2>2. Position(k, d) < n * PageSize
    BY <1>1, <2>1
  <2> QED BY <2>2 DEF ReadInv, Reached
<1>6. Gapless(k, m, ToSet(s))'
  BY <1>2, <1>3 DEF ReadInv, Gapless
<1>7. InOrder(k, n, s)'
  <2> SUFFICES ASSUME k = "review"
               PROVE  /\ \A i \in DOMAIN s : Position(k, s[i])' < n * PageSize
                      /\ \A i, j \in DOMAIN s : i < j => s[i] < s[j]
    BY DEF InOrder
  <2>1. InOrder(k, n, s) /\ OfEndpoint(k, ToSet(s))
    BY DEF ReadInv
  <2>2. ASSUME NEW i \in DOMAIN s PROVE Position(k, s[i])' < n * PageSize
    <3>1. s[i] \in Comments /\ s[i] <= written
      BY <2>1 DEF OfEndpoint, OfKind, ToSet
    <3>2. Position(k, s[i])' = Position(k, s[i])
      <4>1. ASSUME NEW d \in Comments, d <= written PROVE Position(k, d)' = Position(k, d)
        BY <4>1, WriteMoves
      <4> QED BY <3>1, <4>1
    <3> QED BY <2>1, <3>2 DEF InOrder
  <2>3. \A i, j \in DOMAIN s : i < j => s[i] < s[j]
    BY <2>1 DEF InOrder
  <2> QED BY <2>2, <2>3
<1> QED BY <1>1, <1>2, <1>4, <1>5, <1>6, <1>7 DEF ReadInv

\* ... nor does it take anything from what an endpoint gave.
LEMMA WriteAll ==
    ASSUME Write, TalkTypeOK, NEW k, NEW m, NEW S, AllOf(k, m, S)
    PROVE  AllOf(k, m, S)'
<1>1. m \in Nat /\ m <= written /\ written \in Nat
  BY WrittenNat DEF AllOf
<1>2. PICK c \in Comments : c > written /\ written' = c
  BY DEF Write
<1>3. c \in Nat /\ comment' = comment
  BY CommentsNat DEF Write
<1>4. m <= written' /\ \A d : Met(k, m, d)' <=> Met(k, m, d)
  BY <1>1, <1>2, <1>3 DEF Met
<1>5. Gapless(k, m, S)'
  BY <1>3, <1>4 DEF AllOf, Gapless
<1>6. ASSUME Cardinality(OfKind(k))' <= MaxPages * PageSize, NEW d \in Comments, Met(k, m, d)
      PROVE  d \in S
  <2>1. /\ Cardinality(OfKind(k)) <= Cardinality(OfKind(k))'
        /\ Cardinality(OfKind(k)) \in Nat /\ Cardinality(OfKind(k))' \in Nat
    BY WriteMoves
  <2>2. MaxPages * PageSize \in Nat
    <3>1. \A a \in Nat, b \in Nat : a * b \in Nat
      OBVIOUS
    <3> QED BY <3>1
  <2>3. Cardinality(OfKind(k)) <= MaxPages * PageSize
    BY <1>6, <2>1, <2>2
  <2> QED BY <1>6, <2>3 DEF AllOf
<1> QED BY <1>1, <1>4, <1>5, <1>6 DEF AllOf

\* Somebody comments between two requests.
LEMMA WriteFetched ==
    ASSUME TalkInv, FetchedInv, Write
    PROVE  FetchedInv'
<1>1. TalkTypeOK /\ UNCHANGED <<comment, endpoint, page, results, known, answered,
                                fetched, talkPc>>
  BY DEF TalkInv, Write, pageVars
<1>2. \A c \in ToSet(fetched)' : c \in Comments /\ (comment[c].kind \in answered)'
  BY <1>1 DEF FetchedInv, ToSet
<1>3. (answered \subseteq {Kinds[i] : i \in 1..(endpoint - 1)})'
  BY <1>1 DEF FetchedInv
<1>4. ASSUME NEW k \in answered', NEW m, NEW S, m = known'[k], S = ToSet(fetched')
      PROVE  AllOf(k, m, S)'
  <2>1. AllOf(k, m, S)
    BY <1>1, <1>4 DEF FetchedInv
  <2> QED BY <1>1, <2>1, WriteAll
<1>5. (talkPc = "fetch" => UndatedAsFetched)'
  BY <1>1 DEF FetchedInv, UndatedAsFetched
<1>6. (talkPc # "fetch" => ByTime)'
  BY <1>1 DEF Write
<1>7. PagesInv'
  <2>1. ASSUME page' > 1, NEW k, NEW m, NEW n, NEW s,
               k = Asked', m = known'[Asked'], n = page' - 1, s = results'
        PROVE  ReadInv(k, m, n, s)'
    <3>1. Asked' = Asked /\ page' = page
      BY <1>1 DEF Asked
    <3>2. ReadInv(k, m, n, s)
      BY <1>1, <2>1, <3>1 DEF FetchedInv, PagesInv
    <3>3. page \in Nat
      BY <1>1 DEF TalkTypeOK
    <3>4. n \in Nat
      BY <2>1, <3>1, <3>3
    <3> QED BY <1>1, <3>2, <3>4, WriteRead
  <2>2. (page = 1 => results = <<>>)' /\ (page > 1 => endpoint <= 3 /\ talkPc = "fetch")'
    BY <1>1 DEF FetchedInv, PagesInv
  <2> QED BY <2>1, <2>2 DEF PagesInv
<1>8. ToSet(fetched)' = ToSet(fetched') /\ \A k : known[k]' = known'[k]
  BY DEF ToSet
<1> QED BY <1>2, <1>3, <1>4, <1>5, <1>6, <1>7, <1>8 DEF FetchedInv

\* A page more of the endpoint.
LEMMA FetchPageFetched ==
    ASSUME TalkInv, FetchedInv, FetchPage
    PROVE  FetchedInv'
<1>1. /\ TalkTypeOK /\ PagesInv /\ talkPc = "fetch" /\ endpoint <= Len(Kinds)
      /\ page' = page + 1 /\ known' = Known
      /\ UNCHANGED <<comment, written, endpoint, answered, fetched, talkPc>>
  BY DEF TalkInv, FetchedInv, FetchPage
<1>2. PICK items \in PageEntries(Asked, page) : results' = results \o items
  BY DEF FetchPage
<1>3. /\ endpoint \in 1..3 /\ Asked \in AllKinds /\ page \in Nat /\ page >= 1
      /\ \A k \in AllKinds : k # Asked => Known[k] = known[k]
      /\ ReadInv(Asked, Known[Asked], page - 1, results)
  BY <1>1, ToRead
<1>4. ReadInv(Asked, Known[Asked], page, results \o items)
  <2>1. results \in Seq(Comments) /\ written \in Nat
    BY <1>1, WrittenNat DEF TalkTypeOK
  <2> QED BY <1>3, <2>1, ReadPage
<1>5. Asked \notin answered
  <2>1. endpoint \notin 1..(endpoint - 1) /\ 1..(endpoint - 1) \subseteq 1..3
    BY <1>3
  <2>2. \A i \in 1..(endpoint - 1) : Kinds[i] # Kinds[endpoint]
    BY <1>3, <2>1, KindsAre
  <2> QED BY <2>2 DEF Asked, FetchedInv
<1>6. \A c \in ToSet(fetched)' : c \in Comments /\ (comment[c].kind \in answered)'
  BY <1>1 DEF FetchedInv, ToSet
<1>7. (answered \subseteq {Kinds[i] : i \in 1..(endpoint - 1)})'
  BY <1>1 DEF FetchedInv
<1>8. ASSUME NEW k \in answered', NEW m, NEW S, m = known'[k], S = ToSet(fetched')
      PROVE  AllOf(k, m, S)'
  <2>1. k # Asked /\ k \in AllKinds
    BY <1>1, <1>5, KindsAre DEF TalkTypeOK
  <2>2. m = known[k]
    BY <1>1, <1>3, <1>8, <2>1
  <2>3. AllOf(k, m, S)
    BY <1>1, <1>8, <2>2 DEF FetchedInv
  <2> QED BY <1>1, <2>3, AllSame
<1>9. (talkPc = "fetch" => UndatedAsFetched)'
  BY <1>1 DEF FetchedInv, UndatedAsFetched
<1>10. (talkPc # "fetch" => ByTime)'
  BY <1>1
<1>11. PagesInv'
  <2>1. ASSUME NEW k, NEW m, NEW n, NEW s,
               k = Asked', m = known'[Asked'], n = page' - 1, s = results'
        PROVE  ReadInv(k, m, n, s)'
    <3>1. Asked' = Asked /\ n = page
      BY <1>1, <1>3, <2>1 DEF Asked
    <3>2. ReadInv(k, m, n, s)
      BY <1>1, <1>2, <1>4, <2>1, <3>1
    <3> QED BY <1>1, <3>2, ReadSame
  <2>2. page' > 1 /\ endpoint' <= 3 /\ talkPc' = "fetch"
    BY <1>1, <1>3
  <2> QED BY <2>1, <2>2 DEF PagesInv
<1>12. ToSet(fetched)' = ToSet(fetched') /\ \A k : known[k]' = known'[k]
  BY DEF ToSet
<1> QED BY <1>6, <1>7, <1>8, <1>9, <1>10, <1>11, <1>12 DEF FetchedInv

\* The endpoint that is asked has not answered yet.
LEMMA NotAnswered ==
    ASSUME TalkTypeOK, FetchedInv, endpoint <= Len(Kinds)
    PROVE  Asked \notin answered
<1>1. endpoint \in 1..3
  BY ToRead DEF FetchedInv
<1>2. \A i \in 1..(endpoint - 1) : i \in 1..3 /\ i # endpoint
  BY <1>1
<1>3. \A i \in 1..(endpoint - 1) : Kinds[i] # Kinds[endpoint]
  BY <1>1, <1>2, KindsAre
<1> QED BY <1>3 DEF Asked, FetchedInv

\* The last page read: all pages there are, or as many as allowed.
LEMMA LastPage ==
    ASSUME NEW k, NEW m, NEW n \in Nat, NEW s, written \in Nat, ReadInv(k, m, n, s),
           ~Full(k, n) \/ n = MaxPages
    PROVE  AllOf(k, m, ToSet(s))
<1>1. m \in Nat /\ m <= written /\ Gapless(k, m, ToSet(s)) /\ Reached(k, m, n, ToSet(s))
  BY DEF ReadInv
<1>2. ASSUME Cardinality(OfKind(k)) <= MaxPages * PageSize, NEW d \in Comments, Met(k, m, d)
      PROVE  d \in ToSet(s)
  <2>1. d \in Nat /\ d <= m
    BY <1>2, CommentsNat DEF Met
  <2>2. d \in OfKind(k)
    <3>1. d <= written
      BY <1>1, <2>1
    <3> QED BY <1>2, <3>1 DEF Met, OfKind
  <2>3. /\ Position(k, d) \in Nat /\ Cardinality(OfKind(k)) \in Nat
        /\ Position(k, d) < Cardinality(OfKind(k))
    BY <2>2, PositionFacts
  <2>4. n * PageSize \in Nat
    <3>1. \A a \in Nat, b \in Nat : a * b \in Nat
      OBVIOUS
    <3> QED BY <3>1
  <2>5. Cardinality(OfKind(k)) <= n * PageSize
    <3>1. CASE ~Full(k, n)
      BY <2>3, <2>4, <3>1 DEF Full
    <3>2. CASE n = MaxPages
      BY <1>2, <3>2
    <3> QED BY <3>1, <3>2
  <2>6. Position(k, d) < n * PageSize
    BY <2>3, <2>4, <2>5
  <2> QED BY <1>1, <1>2, <2>6 DEF Reached
<1> QED BY <1>1, <1>2 DEF AllOf

\* The endpoint's entries are put behind those of the endpoints before it.
LEMMA FetchEndpointFetched ==
    ASSUME TalkInv, FetchedInv, FetchEndpoint
    PROVE  FetchedInv'
<1>1. /\ TalkTypeOK /\ PagesInv /\ talkPc = "fetch" /\ endpoint <= Len(Kinds)
      /\ page' = 1 /\ results' = <<>> /\ known' = Known
      /\ answered' = answered \cup {Asked} /\ endpoint' = endpoint + 1
      /\ ~Full(Asked, page) \/ page = MaxPages
      /\ UNCHANGED <<comment, written, talkPc>>
  BY DEF TalkInv, FetchedInv, FetchEndpoint
<1>2. PICK items \in PageEntries(Asked, page) : fetched' = fetched \o (results \o items)
  BY DEF FetchEndpoint
<1> DEFINE u == results \o items
<1>3. /\ endpoint \in 1..3 /\ Asked \in AllKinds /\ page \in Nat /\ page >= 1
      /\ \A k \in AllKinds : k # Asked => Known[k] = known[k]
      /\ ReadInv(Asked, Known[Asked], page - 1, results)
  BY <1>1, ToRead
<1>4. results \in Seq(Comments) /\ fetched \in Seq(Comments) /\ written \in Nat
  BY <1>1, WrittenNat DEF TalkTypeOK
<1>5. u \in Seq(Comments) /\ ReadInv(Asked, Known[Asked], page, u)
  BY <1>3, <1>4, ReadPage
<1>6. fetched' = fetched \o u
  BY <1>2
<1> HIDE DEF u
<1>7. /\ ToSet(fetched') = ToSet(fetched) \cup ToSet(u)
      /\ \A i \in DOMAIN fetched' :
           \/ i \in DOMAIN fetched /\ fetched'[i] = fetched[i]
           \/ /\ i > Len(fetched) /\ i - Len(fetched) \in DOMAIN u
              /\ fetched'[i] = u[i - Len(fetched)]
      /\ DOMAIN fetched = 1..Len(fetched) /\ Len(fetched) \in Nat /\ DOMAIN fetched' \subseteq Nat
  BY <1>4, <1>5, <1>6, Joined
<1>8. \A c \in ToSet(u) : c \in Comments /\ comment[c].kind = Asked
  BY <1>5 DEF ReadInv, OfEndpoint, OfKind
<1>9. Asked \notin answered /\ \A c \in ToSet(fetched) : c \in Comments /\ comment[c].kind \in answered
  BY <1>1, NotAnswered DEF FetchedInv
<1>10. \A c \in ToSet(fetched') : c \in Comments /\ comment'[c].kind \in answered'
  BY <1>1, <1>7, <1>8, <1>9
<1>11. answered' \subseteq {Kinds[i] : i \in 1..(endpoint' - 1)}
  <2>1. endpoint' - 1 = endpoint /\ \A i \in 1..(endpoint - 1) : i \in 1..endpoint
    BY <1>1, <1>3
  <2>2. answered \subseteq {Kinds[i] : i \in 1..endpoint}
    BY <2>1 DEF FetchedInv
  <2>3. Asked \in {Kinds[i] : i \in 1..endpoint}
    BY <1>3 DEF Asked
  <2> QED BY <1>1, <2>1, <2>2, <2>3
<1>12. ASSUME NEW k \in answered', NEW m, NEW S, m = known'[k], S = ToSet(fetched')
       PROVE  AllOf(k, m, S)'
  <2>1. CASE k = Asked
    <3>1. AllOf(k, m, ToSet(u))
      BY <1>1, <1>3, <1>4, <1>5, <1>12, <2>1, LastPage
    <3>2. Gapless(k, m, S)
      BY <1>7, <1>9, <1>12, <2>1, <3>1 DEF AllOf, Gapless
    <3>3. AllOf(k, m, S)
      BY <1>7, <1>12, <3>1, <3>2 DEF AllOf
    <3> QED BY <1>1, <3>3, AllSame
  <2>2. CASE k # Asked
    <3>1. k \in answered /\ k \in AllKinds
      BY <1>1, <1>12, <2>2, KindsAre DEF TalkTypeOK
    <3>2. m = known[k]
      BY <1>1, <1>3, <1>12, <2>2, <3>1
    <3>3. AllOf(k, m, ToSet(fetched))
      BY <3>1, <3>2 DEF FetchedInv
    <3>4. Gapless(k, m, S)
      BY <1>7, <1>8, <1>12, <2>2, <3>3 DEF AllOf, Gapless
    <3>5. AllOf(k, m, S)
      BY <1>7, <1>12, <3>3, <3>4 DEF AllOf
    <3> QED BY <1>1, <3>5, AllSame
  <2> QED BY <2>1, <2>2
<1>13. ASSUME NEW i \in DOMAIN fetched', NEW j \in DOMAIN fetched', i < j,
              ~comment[fetched'[i]].dated, ~comment[fetched'[j]].dated
       PROVE  fetched'[i] < fetched'[j]
  <2>1. i \in Nat /\ j \in Nat /\ fetched'[i] \in Comments /\ fetched'[j] \in Comments
    <3>1. fetched'[i] \in ToSet(fetched') /\ fetched'[j] \in ToSet(fetched')
      BY DEF ToSet
    <3> QED BY <1>7, <1>10, <3>1
  <2>2. comment[fetched'[i]].kind = "review" /\ comment[fetched'[j]].kind = "review"
    BY <1>1, <1>13, <2>1, UndatedIsReview
  <2>3. CASE i \in DOMAIN fetched /\ j \in DOMAIN fetched
    <3>1. fetched'[i] = fetched[i] /\ fetched'[j] = fetched[j]
      BY <1>7, <2>1, <2>3
    <3> QED BY <1>1, <1>13, <2>3, <3>1 DEF FetchedInv, UndatedAsFetched
  <2>4. CASE i \in DOMAIN fetched /\ j \notin DOMAIN fetched
    <3>1. fetched'[i] \in ToSet(fetched)
      BY <1>7, <2>1, <2>4 DEF ToSet
    <3>2. "review" \in answered
      BY <1>9, <2>2, <3>1
    <3>3. fetched'[j] \in ToSet(u)
      BY <1>7, <2>4 DEF ToSet
    <3> QED BY <1>8, <1>9, <2>2, <3>2, <3>3
  <2>5. CASE i \notin DOMAIN fetched
    <3>1. i > Len(fetched) /\ i - Len(fetched) \in DOMAIN u /\ fetched'[i] = u[i - Len(fetched)]
      BY <1>7, <2>5
    <3>2. j \notin DOMAIN fetched
      BY <1>7, <1>13, <2>1, <3>1
    <3>3. j - Len(fetched) \in DOMAIN u /\ fetched'[j] = u[j - Len(fetched)]
      BY <1>7, <3>2
    <3>4. i - Len(fetched) < j - Len(fetched)
      BY <1>7, <1>13, <2>1
    <3>5. fetched'[i] \in ToSet(u)
      BY <3>1 DEF ToSet
    <3>6. Asked = "review"
      BY <1>8, <2>2, <3>5
    <3> QED BY <1>5, <3>1, <3>3, <3>4, <3>6 DEF ReadInv, InOrder
  <2> QED BY <2>3, <2>4, <2>5
<1>14. UndatedAsFetched'
  BY <1>1, <1>13 DEF UndatedAsFetched
<1>15. PagesInv'
  BY <1>1 DEF PagesInv
<1>16. ToSet(fetched)' = ToSet(fetched') /\ \A k : known[k]' = known'[k]
  BY DEF ToSet
<1> QED BY <1>1, <1>10, <1>11, <1>12, <1>14, <1>15, <1>16 DEF FetchedInv

\* Sorting keeps the entries and puts them in the order of time: reviews without a
\* time were in their order before, and the sort is stable.
LEMMA SortFetched ==
    ASSUME TalkInv, FetchedInv, Sort
    PROVE  FetchedInv'
<1> DEFINE D == DOMAIN fetched
<1>1. PICK order \in [D -> D] :
         /\ \A i, j \in D : i < j => SortedBefore(order[i], order[j])
         /\ fetched' = [i \in D |-> fetched[order[i]]]
  BY DEF Sort
<1>2. /\ talkPc = "fetch" /\ talkPc' = "select"
      /\ UNCHANGED <<comment, written, endpoint, page, results, known, answered>>
      /\ TalkTypeOK /\ PagesInv /\ endpoint > Len(Kinds)
      /\ fetched \in Seq(Comments) /\ D = 1..Len(fetched) /\ Len(fetched) \in Nat
      /\ \A i \in D : fetched[i] \in Comments
  BY DEF Sort, TalkInv, TalkTypeOK, FetchedInv, pageVars
<1>3. \A i, j \in D : i # j => order[i] # order[j]
  <2>1. \A i \in D : ~SortedBefore(i, i)
    <3>1. \A i \in D : fetched[i] \in Nat
      BY <1>2
    <3>2. \A i \in D : i \in Nat
      BY <1>2
    <3> HIDE DEF D
    <3> QED BY <3>1, <3>2 DEF SortedBefore
  <2>2. \A i, j \in D : i < j => order[i] # order[j]
    BY <1>1, <2>1
  <2>3. \A i, j \in D : i # j => i < j \/ j < i
    BY <1>2
  <2> QED BY <2>2, <2>3
<1>4. \A i \in D : \E j \in D : order[j] = i
  <2>1. IsFiniteSet(D)
    BY <1>2, FS_Interval
  <2>2. order \in Injection(D, D)
    BY <1>1, <1>3 DEF Injection, IsInjective
  <2> HIDE DEF D
  <2>3. order \in Surjection(D, D)
    BY <2>1, <2>2, FS_Injection
  <2> QED BY <2>3 DEF Surjection
<1>5. ToSet(fetched') = ToSet(fetched)
  <2>1. \A i \in D : fetched'[i] \in ToSet(fetched)
    BY <1>1 DEF ToSet
  <2>2. \A i \in D : fetched[i] \in ToSet(fetched')
    <3> SUFFICES ASSUME NEW i \in D PROVE fetched[i] \in ToSet(fetched')
      OBVIOUS
    <3>1. PICK j \in D : order[j] = i
      BY <1>4
    <3> QED BY <1>1, <3>1 DEF ToSet
  <2>3. DOMAIN fetched' = D
    BY <1>1
  <2> QED BY <2>1, <2>2, <2>3 DEF ToSet
<1>6. ASSUME NEW i \in D, NEW j \in D, i < j
      PROVE  fetched'[i] = fetched'[j] \/ Later(fetched[j], fetched[i])'
  <2> DEFINE a == fetched[order[i]]
             b == fetched[order[j]]
  <2>1. fetched'[i] = a /\ fetched'[j] = b /\ a \in Comments /\ b \in Comments
    BY <1>1, <1>2
  <2>2. SortedBefore(order[i], order[j])
    BY <1>1, <1>6
  <2>3. CASE comment[a].dated # comment[b].dated
    BY <1>2, <2>1, <2>2, <2>3 DEF SortedBefore, Later
  <2>4. CASE comment[a].dated = comment[b].dated
    <3>1. a < b \/ a = b
      <4>1. CASE comment[a].dated
        BY <2>2, <2>4, <4>1 DEF SortedBefore
      <4>2. CASE ~comment[a].dated
        <5>1. order[i] < order[j] /\ order[i] \in D /\ order[j] \in D
          BY <1>1, <2>2, <2>4, <4>2 DEF SortedBefore
        <5> QED BY <1>2, <2>4, <4>2, <5>1 DEF FetchedInv, UndatedAsFetched
      <4> QED BY <4>1, <4>2
    <3> QED BY <1>2, <2>1, <2>4, <3>1 DEF Later
  <2> QED BY <2>3, <2>4
<1>7. \A c \in ToSet(fetched') : c \in Comments /\ comment'[c].kind \in answered'
  BY <1>2, <1>5 DEF FetchedInv
<1>8. DOMAIN fetched' = D
  BY <1>1
<1> HIDE DEF D
<1>9. ByTime'
  BY <1>6, <1>8 DEF ByTime
<1>10. ASSUME NEW k \in answered', NEW m, NEW S, m = known'[k], S = ToSet(fetched')
       PROVE  AllOf(k, m, S)'
  <2>1. AllOf(k, m, S)
    BY <1>2, <1>5, <1>10 DEF FetchedInv
  <2> QED BY <1>2, <2>1, AllSame
<1>11. PagesInv'
  <2>1. ~(page > 1)
    BY <1>2, KindsAre DEF PagesInv, TalkTypeOK
  <2> QED BY <1>2, <2>1 DEF PagesInv
<1>12. ToSet(fetched)' = ToSet(fetched') /\ \A k : known[k]' = known'[k]
  BY DEF ToSet
<1>13. answered' \subseteq {Kinds[i] : i \in 1..(endpoint' - 1)}
  BY <1>2 DEF FetchedInv
<1> QED BY <1>2, <1>7, <1>9, <1>10, <1>11, <1>12, <1>13 DEF FetchedInv

\* An endpoint that fails gives nothing, and the selection takes nothing away from
\* what was fetched.
LEMMA RestFetched ==
    ASSUME TalkInv, FetchedInv,
           EndpointFails \/ KeepEntry \/ CutNewest \/ StopSelecting \/ Selected
             \/ UNCHANGED talkVars
    PROVE  FetchedInv'
<1>1. /\ UNCHANGED <<comment, written, known, answered, fetched>>
      /\ endpoint' \in {endpoint, endpoint + 1} /\ endpoint \in 1..4
      /\ talkPc = "fetch" <=> talkPc' = "fetch"
  <2>1. UNCHANGED <<comment, written, known, answered, fetched>>
          /\ endpoint' \in {endpoint, endpoint + 1}
    BY DEF EndpointFails, KeepEntry, CutNewest, StopSelecting, Selected, talkVars, pageVars
  <2>2. talkPc = "fetch" <=> talkPc' = "fetch"
    BY DEF EndpointFails, KeepEntry, CutNewest, StopSelecting, Selected, talkVars
  <2>3. endpoint \in 1..4
    BY KindsAre DEF TalkInv, TalkTypeOK
  <2> QED BY <2>1, <2>2, <2>3
<1>2. answered' \subseteq {Kinds[i] : i \in 1..(endpoint' - 1)}
  <2>1. endpoint \in Nat /\ endpoint' \in Nat /\ endpoint <= endpoint'
    BY <1>1
  <2>2. \A a, b \in Nat : a <= b => 1..(a - 1) \subseteq 1..(b - 1)
    OBVIOUS
  <2>3. 1..(endpoint - 1) \subseteq 1..(endpoint' - 1)
    BY ONLY <2>1, <2>2
  <2> QED BY <1>1, <2>3 DEF FetchedInv
<1>3. \A c \in ToSet(fetched') : c \in Comments /\ comment'[c].kind \in answered'
  BY <1>1 DEF FetchedInv
<1>4. ASSUME NEW k \in answered', NEW m, NEW S, m = known'[k], S = ToSet(fetched')
      PROVE  AllOf(k, m, S)'
  <2>1. AllOf(k, m, S)
    BY <1>1, <1>4 DEF FetchedInv
  <2> QED BY <1>1, <2>1, AllSame
<1>5. talkPc' = "fetch" => UndatedAsFetched'
  BY <1>1 DEF FetchedInv, UndatedAsFetched
<1>6. talkPc' # "fetch" => ByTime'
  <2> SUFFICES ASSUME ByTime, NEW i \in DOMAIN fetched', NEW j \in DOMAIN fetched', i < j
               PROVE  fetched'[i] = fetched'[j] \/ Later(fetched[j], fetched[i])'
    BY <1>1 DEF FetchedInv, ByTime
  <2>1. fetched[i] = fetched[j] \/ Later(fetched[j], fetched[i])
    BY <1>1 DEF ByTime
  <2> QED BY <1>1, <2>1 DEF Later
<1>7. PagesInv'
  <2>1. CASE EndpointFails
    BY <2>1 DEF EndpointFails, PagesInv
  <2>2. CASE UNCHANGED <<endpoint, page, results>>
    <3>1. ASSUME page' > 1, NEW k, NEW m, NEW n, NEW s,
                 k = Asked', m = known'[Asked'], n = page' - 1, s = results'
          PROVE  ReadInv(k, m, n, s)'
      <4>1. Asked' = Asked
        BY <2>2 DEF Asked
      <4>2. ReadInv(k, m, n, s)
        BY <1>1, <2>2, <3>1, <4>1 DEF FetchedInv, PagesInv
      <4> QED BY <1>1, <4>2, ReadSame
    <3>2. (page = 1 => results = <<>>)' /\ (page > 1 => endpoint <= 3 /\ talkPc = "fetch")'
      BY <1>1, <2>2 DEF FetchedInv, PagesInv
    <3> QED BY <3>1, <3>2 DEF PagesInv
  <2> QED BY <2>1, <2>2 DEF KeepEntry, CutNewest, StopSelecting, Selected, talkVars, pageVars
<1>8. ToSet(fetched)' = ToSet(fetched') /\ \A k : known[k]' = known'[k]
  BY DEF ToSet
<1> QED BY <1>2, <1>3, <1>4, <1>5, <1>6, <1>7, <1>8 DEF FetchedInv

\* What is kept is a suffix, so a later entry than a shown one is in it.
LEMMA ShowsLatest == TalkInv /\ FetchedInv => LatestShown
<1> SUFFICES ASSUME TalkInv, FetchedInv, talkPc = "done", NEW c \in Shown,
                    NEW d \in Comments, comment[d].usable, comment[d].kind \in answered,
                    d <= known[comment[d].kind], Later(d, c),
                    \/ Cardinality(OfKind(comment[d].kind)) <= MaxPages * PageSize
                    \/ comment[c].kind = comment[d].kind /\ comment[d].kind # "review"
             PROVE  d \in Shown
  BY DEF LatestShown
<1>1. /\ fetched \in Seq(Comments) /\ DOMAIN fetched = 1..Len(fetched) /\ Len(fetched) \in Nat
      /\ kept \subseteq 1..Len(fetched)
  BY DEF TalkInv, TalkTypeOK
<1>2. PICK i \in kept : c = fetched[i]
  BY DEF Shown
<1>3. c \in Comments /\ c \in ToSet(fetched)
  BY <1>1, <1>2 DEF ToSet
<1>4. PICK k, m, S : k = comment[d].kind /\ m = known[k] /\ S = ToSet(fetched)
  OBVIOUS
<1>5. AllOf(k, m, S) /\ Met(k, m, d)
  BY <1>4 DEF FetchedInv, Met
<1>6. d \in ToSet(fetched)
  <2>1. CASE Cardinality(OfKind(k)) <= MaxPages * PageSize
    BY <1>4, <1>5, <2>1 DEF AllOf
  <2>2. CASE comment[c].kind = k /\ k # "review"
    <3>1. comment[c].dated /\ comment[d].dated
      <4>1. comment[c] \in TalkKinds /\ comment[d] \in TalkKinds
        BY <1>3 DEF TalkInv, TalkTypeOK
      <4> QED BY <1>4, <2>2, <4>1, TalkKindsShape
    <3>2. d > c
      BY <3>1 DEF Later
    <3> QED BY <1>3, <1>4, <1>5, <2>2, <3>2 DEF AllOf, Gapless
  <2> QED BY <1>4, <2>1, <2>2
<1>7. PICK j \in DOMAIN fetched : d = fetched[j]
  BY <1>6 DEF ToSet
<1>8. ~Later(c, d) /\ c # d
  <2>1. c \in Nat /\ d \in Nat
    BY <1>3
  <2>2. comment[c].dated \in BOOLEAN /\ comment[d].dated \in BOOLEAN
    <3>1. comment[c] \in TalkKinds /\ comment[d] \in TalkKinds
      BY <1>3 DEF TalkInv, TalkTypeOK
    <3> QED BY <3>1, TalkKindsShape
  <2> QED BY <2>1, <2>2 DEF Later
<1>9. i \in DOMAIN fetched /\ ~(j < i) /\ j # i
  BY <1>1, <1>2, <1>7, <1>8 DEF FetchedInv, ByTime
<1>10. j \in i..Len(fetched)
  BY <1>1, <1>9
<1>11. j \in kept
  BY <1>2, <1>10 DEF TalkInv, SelectionFills
<1> QED BY <1>7, <1>11 DEF Shown

-----------------------------------------------------------------------------
(* The chain of models. *)

USE StripSettings

\* The prefix of the chain after one more configured word.
Extended(chain, w) ==
    IF Strip(w) \in ToSet(chain) \cup {Blank} THEN chain ELSE Append(chain, Strip(w))

\* One step of the loop over the names.
LEMMA ExtendedFacts ==
    ASSUME NEW chain \in Seq(Names), NEW w \in Settings
    PROVE  /\ Extended(chain, w) \in Seq(Names)
           /\ ToSet(chain) \subseteq ToSet(Extended(chain, w))
           /\ Strip(w) # Blank => Strip(w) \in ToSet(Extended(chain, w))
           /\ chain # <<>> => Extended(chain, w) # <<>> /\ Extended(chain, w)[1] = chain[1]
           /\ chain = <<>> /\ Strip(w) # Blank =>
                Extended(chain, w) # <<>> /\ Extended(chain, w)[1] = Strip(w)
<1>1. CASE Strip(w) \in ToSet(chain) \cup {Blank}
  <2>1. Extended(chain, w) = chain
    BY <1>1 DEF Extended
  <2>2. chain = <<>> => ToSet(chain) = {}
    BY DEF ToSet
  <2> QED BY <1>1, <2>1, <2>2
<1>2. CASE Strip(w) \notin ToSet(chain) \cup {Blank}
  <2> DEFINE m == Strip(w)
             s == Append(chain, m)
  <2>1. m \in Names /\ Extended(chain, w) = s /\ m # Blank
    BY <1>2 DEF Extended, Names
  <2>2. /\ s \in Seq(Names) /\ Len(s) = Len(chain) + 1 /\ s[Len(chain) + 1] = m
        /\ \A i \in 1..Len(chain) : s[i] = chain[i]
        /\ Len(chain) \in Nat /\ DOMAIN s = 1..(Len(chain) + 1)
        /\ DOMAIN chain = 1..Len(chain)
    <3> HIDE DEF m
    <3> QED BY <2>1
  <2> HIDE DEF s
  <2>3. \A i \in DOMAIN chain : i \in DOMAIN s /\ s[i] = chain[i]
    BY <2>2
  <2>4. Len(chain) + 1 \in DOMAIN s
    BY <2>2
  <2>5. ToSet(chain) \subseteq ToSet(s) /\ m \in ToSet(s)
    BY <2>2, <2>3, <2>4 DEF ToSet
  <2>6. s # <<>>
    BY <2>2, EmptySeq
  <2>7. chain # <<>> => s[1] = chain[1]
    <3>1. chain # <<>> => Len(chain) >= 1
      BY <2>2, EmptySeq
    <3> QED BY <2>2, <3>1
  <2>8. chain = <<>> => s[1] = m
    <3>1. chain = <<>> => Len(chain) = 0
      OBVIOUS
    <3> QED BY <2>2, <3>1
  <2> QED BY <2>1, <2>2, <2>5, <2>6, <2>7, <2>8
<1> QED BY <1>1, <1>2

\* The recursion of DedupeModels has a solution, with every prefix a sequence of
\* names.
LEMMA ChainDef ==
    ASSUME NEW first \in Settings, NEW rest \in Seq(Settings)
    PROVE  LET all == <<first>> \o rest IN
           \E c \in [0..Len(all) -> Seq(Names)] :
             /\ c[0] = <<>>
             /\ \A i \in 1..Len(all) : c[i] = Extended(c[i - 1], all[i])
             /\ DedupeModels(first, rest) = IF c[Len(all)] = <<>> THEN <<first>>
                                            ELSE c[Len(all)]
<1> DEFINE all == <<first>> \o rest
           n == Len(all)
           g == [t \in Nat \X Seq(Names) |-> IF t[1] \in 1..n THEN Extended(t[2], all[t[1]])
                                            ELSE <<>>]
           Sol(f) == f = [i \in 0..n |->
                            IF i = 0 THEN <<>>
                            ELSE IF Strip(all[i]) \in ToSet(f[i - 1]) \cup {Blank}
                                 THEN f[i - 1]
                            ELSE Append(f[i - 1], Strip(all[i]))]
           ch == CHOOSE f : Sol(f)
<1>1. all \in Seq(Settings) /\ n \in Nat /\ \A i \in 1..n : all[i] \in Settings
  OBVIOUS
<1> HIDE DEF all
<1>2. <<>> \in Seq(Names)
  OBVIOUS
<1>3. g \in [Nat \X Seq(Names) -> Seq(Names)]
  <2>1. \A t \in Nat \X Seq(Names) :
          (IF t[1] \in 1..n THEN Extended(t[2], all[t[1]]) ELSE <<>>) \in Seq(Names)
    BY <1>1, <1>2, ExtendedFacts
  <2> QED BY <2>1
<1>4. \A i \in 1..n, s \in Seq(Names) : g[<<i, s>>] = Extended(s, all[i])
  BY <1>1
<1> HIDE DEF g, n
<1>5. PICK f \in [0..n -> Seq(Names)] : f[0] = <<>> /\ \A i \in 1..n : f[i] = g[<<i, f[i - 1]>>]
  <2>1. Unfoldings(Seq(Names), <<>>, g, n) # {}
    BY <1>1, <1>2, <1>3, Unfold
  <2> QED BY <2>1 DEF Unfoldings
<1>6. \E h : Sol(h)
  <2>1. ASSUME NEW i \in 0..n
        PROVE  f[i] = IF i = 0 THEN <<>>
                      ELSE IF Strip(all[i]) \in ToSet(f[i - 1]) \cup {Blank} THEN f[i - 1]
                      ELSE Append(f[i - 1], Strip(all[i]))
    <3>1. CASE i = 0
      BY <1>5, <3>1
    <3>2. CASE i # 0
      <4>1. i \in 1..n /\ i - 1 \in 0..n
        BY <1>1, <3>2
      <4>2. f[i] = Extended(f[i - 1], all[i])
        BY <1>4, <1>5, <4>1
      <4> QED BY <3>2, <4>2 DEF Extended
    <3> QED BY <3>1, <3>2
  <2>2. f = [i \in 0..n |-> f[i]]
    BY <1>5
  <2>3. Sol(f)
    BY <2>1, <2>2
  <2> QED BY <2>3
<1>7. Sol(ch)
  BY <1>6
<1> HIDE DEF ch
<1>8. /\ ch[0] = <<>>
      /\ \A i \in 1..n : ch[i] = Extended(ch[i - 1], all[i])
      /\ DOMAIN ch = 0..n /\ ch = [i \in DOMAIN ch |-> ch[i]]
  <2>1. \A i \in 0..n :
          ch[i] = IF i = 0 THEN <<>>
                  ELSE IF Strip(all[i]) \in ToSet(ch[i - 1]) \cup {Blank} THEN ch[i - 1]
                  ELSE Append(ch[i - 1], Strip(all[i]))
    BY <1>7
  <2>2. 0 \in 0..n /\ \A i \in 1..n : i \in 0..n /\ i # 0
    BY <1>1
  <2>3. DOMAIN ch = 0..n /\ ch = [i \in DOMAIN ch |-> ch[i]]
    BY <1>7
  <2> QED BY <2>1, <2>2, <2>3 DEF Extended
<1> HIDE DEF Sol
<1>9. ch \in [0..n -> Seq(Names)]
  <2> DEFINE G == {i \in 0..n : ch[i] \in Seq(Names)}
  <2>1. 0 \in G
    <3>1. 0 \in 0..n
      BY <1>1
    <3>2. ch[0] \in Seq(Names)
      BY <1>2, <1>8
    <3> QED BY <3>1, <3>2
  <2>2. \A i \in 1..n : i - 1 \in G => i \in G
    <3> SUFFICES ASSUME NEW i \in 1..n, i - 1 \in G PROVE i \in G
      OBVIOUS
    <3>1. i \in 0..n /\ ch[i - 1] \in Seq(Names) /\ all[i] \in Settings
      BY <1>1
    <3>2. ch[i] = Extended(ch[i - 1], all[i])
      BY <1>8
    <3>3. Extended(ch[i - 1], all[i]) \in Seq(Names)
      BY <3>1, ExtendedFacts
    <3>4. ch[i] \in Seq(Names)
      BY <3>2, <3>3
    <3> QED BY <3>1, <3>4
  <2> HIDE DEF G
  <2>3. G \in SUBSET (0..n)
    BY DEF G
  <2>4. G = 0..n
    BY <1>1, <2>1, <2>2, <2>3, Along
  <2> QED BY <1>8, <2>4 DEF G
<1>10. DedupeModels(first, rest) = IF ch[n] = <<>> THEN <<first>> ELSE ch[n]
  BY DEF DedupeModels, ch, Sol, all, n
<1>11. \E c \in [0..n -> Seq(Names)] :
             /\ c[0] = <<>>
             /\ \A i \in 1..n : c[i] = Extended(c[i - 1], all[i])
             /\ DedupeModels(first, rest) = IF c[n] = <<>> THEN <<first>>
                                            ELSE c[n]
  BY <1>8, <1>9, <1>10
<1> QED BY <1>11 DEF all, n

\* What _dedupe_models returns: some model, every configured name, and the primary
\* ahead of the others unless it is blank.
LEMMA DedupeFacts ==
    ASSUME NEW first \in Settings, NEW rest \in Seq(Settings)
    PROVE  /\ DedupeModels(first, rest) \in Seq(Settings)
           /\ DedupeModels(first, rest) # <<>>
           /\ \A i \in 1..Len(DedupeModels(first, rest)) :
                DedupeModels(first, rest)[i] \in Names \cup {first}
           /\ {Strip(w) : w \in {first} \cup ToSet(rest)} \ {Blank}
                \subseteq ToSet(DedupeModels(first, rest))
           /\ Strip(first) # Blank => DedupeModels(first, rest)[1] = Strip(first)
<1> DEFINE all == <<first>> \o rest
           n == Len(all)
           m == DedupeModels(first, rest)
<1>1. /\ all \in Seq(Settings) /\ n \in Nat /\ n >= 1 /\ all[1] = first
      /\ \A i \in 1..n : all[i] \in Settings
      /\ \A i \in 1..Len(rest) : i + 1 \in 1..n /\ rest[i] = all[i + 1]
  OBVIOUS
<1>2. PICK c \in [0..n -> Seq(Names)] :
        /\ c[0] = <<>>
        /\ \A i \in 1..n : c[i] = Extended(c[i - 1], all[i])
        /\ m = IF c[n] = <<>> THEN <<first>> ELSE c[n]
  BY ChainDef
<1> HIDE DEF all, m
<1> HIDE DEF n
<1> DEFINE Holds(k) ==
             /\ \A i \in 1..k : Strip(all[i]) # Blank => Strip(all[i]) \in ToSet(c[k])
             /\ k >= 1 /\ Strip(first) # Blank => c[k] # <<>> /\ c[k][1] = Strip(first)
           G == {k \in 0..n : Holds(k)}
<1>3. 0 \in G
  BY <1>1
<1>4. ASSUME NEW k \in 1..n, k - 1 \in G PROVE k \in G
  <2>1. /\ k \in 0..n /\ c[k - 1] \in Seq(Names) /\ all[k] \in Settings
        /\ c[k] = Extended(c[k - 1], all[k]) /\ Holds(k - 1)
    <3>1. k \in 0..n /\ k - 1 \in 0..n
      BY <1>1
    <3>2. Holds(k - 1)
      BY <1>4
    <3> HIDE DEF Holds
    <3> QED BY <1>1, <1>2, <3>1, <3>2
  <2>2. \A i \in 1..k : Strip(all[i]) # Blank => Strip(all[i]) \in ToSet(c[k])
    <3> SUFFICES ASSUME NEW i \in 1..k, Strip(all[i]) # Blank
                 PROVE  Strip(all[i]) \in ToSet(c[k])
      OBVIOUS
    <3>1. CASE i = k
      BY <2>1, <3>1, ExtendedFacts
    <3>2. CASE i # k
      <4>1. i \in 1..(k - 1)
        BY <3>2
      <4>2. Strip(all[i]) \in ToSet(c[k - 1])
        BY <2>1, <4>1
      <4> QED BY <2>1, <4>2, ExtendedFacts
    <3> QED BY <3>1, <3>2
  <2>3. Strip(first) # Blank => c[k] # <<>> /\ c[k][1] = Strip(first)
    <3> SUFFICES ASSUME Strip(first) # Blank
                 PROVE  c[k] # <<>> /\ c[k][1] = Strip(first)
      OBVIOUS
    <3>1. CASE k = 1
      <4>1. c[k - 1] = <<>> /\ all[k] = first
        BY <1>1, <1>2, <3>1
      <4>2. /\ Extended(c[k - 1], all[k]) # <<>>
            /\ Extended(c[k - 1], all[k])[1] = Strip(first)
        BY ONLY <2>1, <4>1, Strip(first) # Blank, ExtendedFacts
      <4> QED BY <2>1, <4>2
    <3>2. CASE k # 1
      <4>1. c[k - 1] # <<>> /\ c[k - 1][1] = Strip(first)
        BY <2>1, <3>2
      <4>2. /\ Extended(c[k - 1], all[k]) # <<>>
            /\ Extended(c[k - 1], all[k])[1] = c[k - 1][1]
        BY ONLY <2>1, <4>1, ExtendedFacts
      <4> QED BY <2>1, <4>1, <4>2
    <3> QED BY <3>1, <3>2
  <2> QED BY <2>1, <2>2, <2>3
<1> HIDE DEF G
<1>5. G \in SUBSET (0..n)
  BY DEF G
<1>6. G = 0..n
  BY <1>1, <1>3, <1>4, <1>5, Along
<1> HIDE DEF Holds
<1>7. Holds(n) /\ c[n] \in Seq(Names)
  <2>1. n \in 0..n
    BY <1>1
  <2> QED BY <1>2, <1>6, <2>1 DEF G
<1>8. Names \subseteq Settings
  BY DEF Names
<1>9. CASE c[n] = <<>>
  <2>1. m = <<first>> /\ Len(m) = 1 /\ m[1] = first
    BY <1>2, <1>9
  <2>2. m \in Seq(Settings) /\ m # <<>> /\ \A i \in 1..Len(m) : m[i] \in Names \cup {first}
    BY <2>1
  <2>3. ToSet(c[n]) = {}
    BY <1>9 DEF ToSet
  <2>4. \A i \in 1..n : Strip(all[i]) = Blank
    BY <1>7, <2>3 DEF Holds
  <2>5. \A w \in {first} \cup ToSet(rest) : Strip(w) = Blank
    <3>1. Strip(first) = Blank
      BY <1>1, <2>4
    <3>2. \A i \in DOMAIN rest : Strip(rest[i]) = Blank
      <4>1. DOMAIN rest = 1..Len(rest)
        OBVIOUS
      <4> QED BY <1>1, <2>4, <4>1
    <3> QED BY <3>1, <3>2 DEF ToSet
  <2> QED BY <2>2, <2>5 DEF m
<1>10. CASE c[n] # <<>>
  <2>1. m = c[n] /\ m \in Seq(Names)
    BY <1>2, <1>7, <1>10
  <2>2. m \in Seq(Settings) /\ m # <<>> /\ \A i \in 1..Len(m) : m[i] \in Names \cup {first}
    BY <1>8, <1>10, <2>1
  <2>3. \A w \in {first} \cup ToSet(rest) : Strip(w) # Blank => Strip(w) \in ToSet(m)
    <3>1. \A i \in 1..n : Strip(all[i]) # Blank => Strip(all[i]) \in ToSet(m)
      BY <1>7, <2>1 DEF Holds
    <3>2. Strip(first) # Blank => Strip(first) \in ToSet(m)
      <4>1. 1 \in 1..n /\ Strip(all[1]) = Strip(first)
        BY <1>1
      <4> QED BY <3>1, <4>1
    <3>3. \A i \in DOMAIN rest : Strip(rest[i]) # Blank => Strip(rest[i]) \in ToSet(m)
      <4>1. DOMAIN rest = 1..Len(rest)
        OBVIOUS
      <4> QED BY <1>1, <3>1, <4>1
    <3> QED BY <3>2, <3>3 DEF ToSet
  <2>4. Strip(first) # Blank => m[1] = Strip(first)
    BY <1>1, <1>7, <2>1 DEF Holds
  <2> QED BY <2>2, <2>3, <2>4 DEF m
<1> QED BY <1>9, <1>10

-----------------------------------------------------------------------------
Mendable == {"empty", "timeout", "retryable"}
Final == {"fatal", "uncaught"}

\* The models before the one at hand were tried and may be mended by the next;
\* the job is given up after a fatal failure or the last model.
TriedInv ==
    /\ chainPc = "invoke" =>
         index = Len(ends) + 1 /\ \A i \in 1..Len(ends) : ends[i] \in Mendable
    /\ chainPc # "invoke" =>
         index = Len(ends) /\ \A i \in 1..Len(ends) - 1 : ends[i] \in Mendable
    /\ chainPc = "raised" => Last(ends) \in Final \/ index = Len(models)
    /\ chainPc = "answered" => label = models[index]

\* What _dedupe_models returned.
ChainOfSettings ==
    /\ \A i \in 1..Len(models) : models[i] \in Names \cup {primary}
    /\ Configured \subseteq ToSet(models)
    /\ Strip(primary) # Blank => models[1] = Strip(primary)

ChainInv == ChainTypeOK /\ TriedInv /\ ChainOfSettings

\* The chain made of the settings holds each of them once.
LEMMA ChainInitInd == ChainInit => ChainInv
<1> SUFFICES ASSUME ChainInit PROVE ChainInv
  OBVIOUS
<1>1. primary \in Settings /\ fallbacks \in Seq(Settings)
  <2> DEFINE W == {w \in Settings : Strip(w) = w /\ w # Blank}
  <2>1. primary \in Settings /\ fallbacks \in UNION {[1..k -> W] : k \in 0..MaxFallbacks}
    BY DEF ChainInit, BoundedSeq, SeqOf
  <2>2. PICK k \in 0..MaxFallbacks : fallbacks \in [1..k -> W]
    BY <2>1
  <2>3. k \in Nat /\ fallbacks \in [1..k -> Settings]
    BY <2>2, MaxFallbacksNat
  <2> QED BY <2>1, <2>3
<1>2. /\ models = DedupeModels(primary, fallbacks) /\ index = 1 /\ chainPc = "invoke"
      /\ label = Blank /\ ends = <<>>
  BY DEF ChainInit
<1>3. models \in Seq(Settings) /\ models # <<>> /\ Len(models) \in Nat /\ Len(models) >= 1
  BY <1>1, <1>2, DedupeFacts, EmptySeq
<1>4. ChainTypeOK
  BY <1>1, <1>2, <1>3 DEF ChainTypeOK
<1>5. TriedInv
  BY <1>2 DEF TriedInv
<1>6. ChainOfSettings
  BY <1>1, <1>2, DedupeFacts DEF ChainOfSettings, Configured
<1> QED BY <1>4, <1>5, <1>6 DEF ChainInv

\* An end of a call is noted behind the earlier ones.
LEMMA NotedEnd ==
    ASSUME NEW s \in Seq({"answer", "empty", "timeout", "retryable", "fatal", "uncaught"}),
           NEW e \in {"answer", "empty", "timeout", "retryable", "fatal", "uncaught"}
    PROVE  /\ Append(s, e) \in Seq({"answer", "empty", "timeout", "retryable", "fatal", "uncaught"})
           /\ Len(Append(s, e)) = Len(s) + 1 /\ Len(s) \in Nat
           /\ \A i \in 1..Len(s) : Append(s, e)[i] = s[i]
           /\ Append(s, e)[Len(s) + 1] = e /\ Last(Append(s, e)) = e
BY DEF Last

\* A call that ends as e, answers, passes to the next model or ends the job.
LEMMA CallInd ==
    ASSUME ChainInv, chainPc = "invoke",
           NEW e \in {"answer", "empty", "timeout", "retryable", "fatal", "uncaught"},
           ends' = Append(ends, e), UNCHANGED <<primary, fallbacks, models>>,
           \/ /\ FallBack /\ HasFallback /\ e \in Mendable
           \/ /\ GiveUp /\ (~HasFallback \/ e \in Final)
           \/ /\ chainPc' = "answered" /\ label' = models[index] /\ index' = index
    PROVE  ChainInv'
<1>1. /\ ends' \in Seq({"answer", "empty", "timeout", "retryable", "fatal", "uncaught"})
      /\ Len(ends') = Len(ends) + 1 /\ Len(ends) \in Nat
      /\ \A i \in 1..Len(ends) : ends'[i] = ends[i]
      /\ ends'[Len(ends) + 1] = e /\ Last(ends') = e
  BY NotedEnd DEF ChainInv, ChainTypeOK
<1>2. /\ index \in 1..Len(models) /\ Len(models) \in Nat /\ index = Len(ends) + 1
      /\ \A i \in 1..Len(ends) : ends[i] \in Mendable
  BY DEF ChainInv, ChainTypeOK, TriedInv
<1>3. \A i \in 1..Len(ends') - 1 : ends'[i] \in Mendable
  BY <1>1, <1>2
<1>4. ChainOfSettings'
  BY DEF ChainInv, ChainOfSettings, Configured
<1>5. CASE FallBack /\ HasFallback /\ e \in Mendable
  <2>1. index' = index + 1 /\ index' \in 1..Len(models) /\ UNCHANGED <<chainPc, label>>
    BY <1>2, <1>5 DEF FallBack, HasFallback
  <2>2. ChainTypeOK'
    BY <1>1, <2>1 DEF ChainInv, ChainTypeOK
  <2>3. \A i \in 1..Len(ends') : ends'[i] \in Mendable
    <3>1. \A i \in 1..Len(ends') : i \in 1..Len(ends) \/ i = Len(ends) + 1
      BY <1>1
    <3> QED BY <1>1, <1>2, <1>5, <3>1
  <2>4. TriedInv'
    BY <1>1, <1>2, <2>1, <2>3 DEF TriedInv
  <2> QED BY <1>4, <2>2, <2>4 DEF ChainInv
<1>6. CASE GiveUp /\ (~HasFallback \/ e \in Final)
  <2>1. index' = index /\ chainPc' = "raised" /\ label' = label
    BY <1>6 DEF GiveUp
  <2>2. ChainTypeOK'
    BY <1>1, <2>1 DEF ChainInv, ChainTypeOK
  <2>3. e \in Final \/ index = Len(models)
    BY <1>2, <1>6 DEF HasFallback
  <2>4. TriedInv'
    BY <1>1, <1>2, <1>3, <2>1, <2>3 DEF TriedInv
  <2> QED BY <1>4, <2>2, <2>4 DEF ChainInv
<1>7. CASE chainPc' = "answered" /\ label' = models[index] /\ index' = index
  <2>1. models[index] \in Names \cup {primary}
    BY <1>2 DEF ChainInv, ChainOfSettings
  <2>2. ChainTypeOK'
    BY <1>1, <1>7, <2>1 DEF ChainInv, ChainTypeOK
  <2>3. TriedInv'
    BY <1>1, <1>2, <1>3, <1>7 DEF TriedInv
  <2> QED BY <1>4, <2>2, <2>3 DEF ChainInv
<1> QED BY <1>5, <1>6, <1>7

\* A call that ends keeps the account of the calls.
LEMMA ChainNextInd == ChainInv /\ ChainNext => ChainInv'
<1> SUFFICES ASSUME ChainInv, ChainNext PROVE ChainInv'
  OBVIOUS
<1>1. CASE Answers
  BY <1>1, CallInd DEF Answers
<1>2. CASE AnswersEmpty
  BY <1>2, CallInd DEF AnswersEmpty, Mendable
<1>3. CASE TimesOut
  BY <1>3, CallInd DEF TimesOut, Mendable
<1>4. CASE Fails
  <2>1. PICK output \in SUBSET Words :
          /\ ends' = Append(ends, IF IsRetryable(output) THEN "retryable" ELSE "fatal")
          /\ IF HasFallback /\ IsRetryable(output) THEN FallBack ELSE GiveUp
    BY <1>4 DEF Fails
  <2>2. chainPc = "invoke" /\ UNCHANGED <<primary, fallbacks, models>>
    BY <1>4 DEF Fails
  <2>3. CASE IsRetryable(output)
    BY <2>1, <2>2, <2>3, CallInd DEF Mendable
  <2>4. CASE ~IsRetryable(output)
    BY <2>1, <2>2, <2>4, CallInd DEF Final
  <2> QED BY <2>3, <2>4
<1>5. CASE InvokeRaises \/ ParseRaises
  BY <1>5, CallInd DEF InvokeRaises, ParseRaises, Final
<1> QED BY <1>1, <1>2, <1>3, <1>4, <1>5 DEF ChainNext

\* Nothing of the chain depends on the other parts.
LEMMA ChainStutter == ChainInv /\ UNCHANGED chainVars => ChainInv'
BY DEF chainVars, ChainInv, ChainTypeOK, TriedInv, ChainOfSettings, Configured

\* After the last model every configured one was tried.
LEMMA GivesUpLate == ChainInv => NotGivenUpEarly
<1> SUFFICES ASSUME ChainInv, chainPc = "raised", Last(ends) \notin Final
             PROVE  Configured \subseteq {models[i] : i \in 1..Len(ends)}
  BY DEF NotGivenUpEarly, Final
<1>1. Len(ends) = Len(models) /\ DOMAIN models = 1..Len(models)
  BY DEF ChainInv, ChainTypeOK, TriedInv
<1> QED BY <1>1 DEF ChainInv, ChainOfSettings, ToSet

\* The models before the one that answered were tried.
LEMMA NamesFirst == ChainInv => FirstToAnswerIsNamed
<1> SUFFICES ASSUME ChainInv, chainPc = "answered"
             PROVE  /\ label = models[Len(ends)]
                    /\ \A i \in 1..Len(ends) - 1 : ends[i] \in Mendable
                    /\ Strip(primary) # Blank /\ Strip(primary) # label =>
                         \E i \in 1..Len(ends) - 1 : models[i] = Strip(primary)
  BY DEF FirstToAnswerIsNamed, Mendable
<1>1. label = models[Len(ends)] /\ \A i \in 1..Len(ends) - 1 : ends[i] \in Mendable
  BY DEF ChainInv, TriedInv
<1>2. ASSUME Strip(primary) # Blank, Strip(primary) # label
      PROVE  \E i \in 1..Len(ends) - 1 : models[i] = Strip(primary)
  <2>1. models[1] = Strip(primary) /\ Len(ends) \in Nat /\ Len(ends) >= 1
    BY <1>2 DEF ChainInv, ChainOfSettings, ChainTypeOK, TriedInv
  <2>2. Len(ends) # 1
    BY <1>1, <1>2, <2>1
  <2> DEFINE e == Len(ends)
  <2>3. e \in Nat /\ e >= 1 /\ e # 1
    BY <2>1, <2>2
  <2> HIDE DEF e
  <2>4. 1 \in 1..(e - 1)
    BY <2>3
  <2> QED BY <2>1, <2>4 DEF e
<1> QED BY <1>1, <1>2

-----------------------------------------------------------------------------
(* The engine call. *)

\* The invariants of the parts, and the parts that are not run.
DumpWhole == DumpInv /\ TakenInv

TalkWhole == TalkInv /\ FetchedInv

EngineInv == PatchInv /\ DumpWhole /\ TalkWhole /\ ChainInv

\* The parts that are not run are finished and keep their invariants.
LEMMA NoPatchInd == NoPatch => PatchInv
<1> SUFFICES ASSUME NoPatch PROVE PatchInv
  OBVIOUS
<1>1. patch = <<>> /\ reader = "done" /\ piece = 1 /\ number = 0 /\ labels = {} /\ addable = {}
  BY DEF NoPatch
<1>2. patch \in Seq(Pieces) /\ Len(patch) = 0 /\ NumberedBefore(patch, 1) = {}
  BY <1>1 DEF NumberedBefore
<1> QED BY <1>1, <1>2 DEF PatchInv, PatchTypeOK, CountInv

\* A dump that is not taken is complete.
LEMMA NoDumpInd == NoDump => DumpWhole
<1> SUFFICES ASSUME NoDump PROVE DumpWhole
  OBVIOUS
<1>1. PICK k \in FileKinds : k.listed = "no_file" /\ tree = [p \in Paths |-> k]
  BY DEF NoDump
<1>2. /\ todo = {} /\ entries = {} /\ filteredOut = {} /\ budgetExcluded = {}
      /\ totalChars = 0 /\ engineMode = "full"
  BY DEF NoDump
<1>3. \A p \in Paths : ~Wanted(p) /\ ~IsFile(p)
  BY <1>1 DEF Wanted, IsFile
<1>4. DumpTypeOK
  BY <1>1, <1>2 DEF DumpTypeOK
<1>5. NoRoomLeft
  BY <1>2, SizesNat DEF NoRoomLeft
<1>6. SortedOut /\ ChoiceInv
  BY <1>2, <1>3 DEF SortedOut, ChoiceInv
<1>7. TakenInv
  BY <1>2, SumEmpty DEF TakenInv, ChangedFirst
<1> QED BY <1>4, <1>5, <1>6, <1>7 DEF DumpWhole, DumpInv

\* A conversation that is not fetched has been selected from.
LEMMA NoTalkInd == NoTalk => TalkWhole
<1> SUFFICES ASSUME NoTalk PROVE TalkWhole
  OBVIOUS
<1>1. /\ comment \in [Comments -> TalkKinds]
      /\ written = 0 /\ endpoint = 4 /\ page = 1 /\ results = <<>>
      /\ known = [k \in AllKinds |-> 0]
      /\ answered = {} /\ fetched = <<>> /\ next = 0
      /\ kept = {} /\ total = 0 /\ cutLen = 0 /\ talkPc = "done"
  BY KindsAre DEF NoTalk
<1>2. /\ DOMAIN fetched = {} /\ Len(fetched) = 0 /\ fetched \in Seq(Comments)
      /\ results \in Seq(Comments)
  BY <1>1
<1>3. TalkTypeOK
  BY <1>1, <1>2, KindsAre DEF TalkTypeOK
<1>4. LoopInv /\ SelectionFills
  BY <1>1, <1>2 DEF LoopInv, SelectionFills
<1>5. ToSet(fetched) = {}
  BY <1>2 DEF ToSet
<1>6. FetchedInv
  BY <1>1, <1>2, <1>5 DEF FetchedInv, ByTime, PagesInv
<1> QED BY <1>3, <1>4, <1>6 DEF TalkWhole, TalkInv

\* A chain that is not run has ended.
LEMMA NoChainInd == NoChain => ChainInv
<1> SUFFICES ASSUME NoChain PROVE ChainInv
  OBVIOUS
<1>1. /\ primary = Blank /\ fallbacks = <<>> /\ models = <<Blank>> /\ index = 1
      /\ chainPc = "raised" /\ label = Blank /\ ends = <<"fatal">>
  BY DEF NoChain
<1>2. ChainTypeOK
  BY <1>1, StripSettings DEF ChainTypeOK
<1>3. TriedInv
  <2>1. Len(ends) = 1 /\ ends[Len(ends)] = "fatal"
    BY <1>1
  <2> QED BY <1>1, <2>1 DEF TriedInv, Last, Final
<1>4. ChainOfSettings
  <2>1. Len(models) = 1 /\ DOMAIN models = {1} /\ models[1] = Blank
    BY <1>1
  <2>2. ToSet(fallbacks) = {}
    BY <1>1 DEF ToSet
  <2>3. Configured \subseteq ToSet(models)
    <3>1. {primary} \cup ToSet(fallbacks) = {Blank}
      BY <1>1, <2>2
    <3>2. Configured = {}
      BY <3>1, StripSettings DEF Configured
    <3> QED BY <3>2
  <2>4. Strip(primary) = Blank /\ \A i \in 1..Len(models) : models[i] = primary
    BY <1>1, <2>1, StripSettings
  <2> QED BY <2>3, <2>4 DEF ChainOfSettings
<1> QED BY <1>2, <1>3, <1>4 DEF ChainInv

\* Every step of the engine call keeps the invariant of each part.
LEMMA PatchInd == PatchInv /\ [PatchNext]_patchVars => PatchInv'
BY PatchNextInd, PatchStutter

\* The same of the dump.
LEMMA DumpInd == DumpWhole /\ [DumpNext]_dumpVars => DumpWhole'
<1> SUFFICES ASSUME DumpInv, TakenInv, [DumpNext]_dumpVars PROVE DumpInv' /\ TakenInv'
  BY DEF DumpWhole
<1>1. CASE \E p \in Paths : PassOver(p) \/ FilterOut(p)
  BY <1>1, PassInd, LeaveOutTaken
<1>2. CASE \E p \in Paths : Cut(p)
  BY <1>2, CutInd, LeaveOutTaken
<1>3. CASE \E p \in Paths : Include(p)
  BY <1>3, IncludeInd, IncludeTaken
<1>4. CASE ChooseMode
  BY <1>4, ChooseInd, RestTaken
<1>5. CASE UNCHANGED dumpVars
  <2>1. DumpInv'
    BY <1>5 DEF dumpVars, DumpInv, DumpTypeOK, SortedOut, NoRoomLeft, ChoiceInv,
                Wanted, IsFile, Changed
  <2> QED BY <1>5, <2>1, RestTaken
<1> QED BY <1>1, <1>2, <1>3, <1>4, <1>5 DEF DumpNext

\* The same of the conversation.
LEMMA TalkInd == TalkWhole /\ [TalkNext]_talkVars => TalkWhole'
<1> SUFFICES ASSUME TalkInv, FetchedInv, [TalkNext]_talkVars PROVE TalkInv' /\ FetchedInv'
  BY DEF TalkWhole
<1>1. CASE FetchEndpoint
  BY <1>1, FetchInd, FetchEndpointFetched
<1>2. CASE EndpointFails
  BY <1>2, FetchInd, RestFetched
<1>8. CASE Write
  BY <1>8, FetchInd, WriteFetched
<1>9. CASE FetchPage
  BY <1>9, FetchInd, FetchPageFetched
<1>3. CASE Sort
  BY <1>3, SortInd, SortFetched
<1>4. CASE KeepEntry
  BY <1>4, KeepInd, RestFetched
<1>5. CASE CutNewest
  BY <1>5, CutNewestInd, RestFetched
<1>6. CASE StopSelecting \/ Selected
  BY <1>6, StopInd, RestFetched
<1>7. CASE UNCHANGED talkVars
  <2>1. TalkInv'
    BY <1>7 DEF talkVars, pageVars, TalkInv, TalkTypeOK, LoopInv, SelectionFills, EntryLen
  <2> QED BY <1>7, <2>1, RestFetched
<1> QED BY <1>1, <1>2, <1>3, <1>4, <1>5, <1>6, <1>7, <1>8, <1>9 DEF TalkNext

\* The same of the chain.
LEMMA ChainInd == ChainInv /\ [ChainNext]_chainVars => ChainInv'
BY ChainNextInd, ChainStutter

\* Each run of the engine call begins with one part.
LEMMA EngineInit == Init => EngineInv
<1>1. DumpInit => DumpWhole
  BY DumpInitInd, DumpInitTaken DEF DumpWhole
<1>2. TalkInit => TalkWhole
  BY TalkInitInd, TalkInitFetched DEF TalkWhole
<1> QED BY <1>1, <1>2, PatchInitInd, ChainInitInd, NoPatchInd, NoDumpInd, NoTalkInd,
           NoChainInd DEF Init, EngineInv

\* The inductive invariant of the engine call: what the two passes over a patch have
\* numbered, what the collector's loop has taken and in which order, what was
\* fetched of the conversation and selected, and which models were tried.
THEOREM EngineInvariance == Spec => []EngineInv
<1>1. EngineInv /\ [Next]_vars => EngineInv'
  <2> SUFFICES ASSUME EngineInv, [Next]_vars PROVE EngineInv'
    OBVIOUS
  <2>1. /\ [PatchNext]_patchVars /\ [DumpNext]_dumpVars
        /\ [TalkNext]_talkVars /\ [ChainNext]_chainVars
    BY DEF Next, vars
  <2> QED BY <2>1, PatchInd, DumpInd, TalkInd, ChainInd DEF EngineInv
<1> QED BY <1>1, EngineInit, PTL DEF Spec

\* Every variable of the four parts keeps its type.
THEOREM EngineTypes == Spec => []TypeOK
<1>1. EngineInv => TypeOK
  BY DEF EngineInv, DumpWhole, TalkWhole, PatchInv, DumpInv, TalkInv, ChainInv, TypeOK
<1> QED BY <1>1, EngineInvariance, PTL

\* The number in front of a line of the patch is the line's own, unless an earlier
\* piece of its hunk was misread (format_patch_with_line_numbers).
THEOREM NumbersTrue == Spec => []LabelsTrue
<1>1. EngineInv => LabelsTrue
  BY LabelsAreTrue DEF EngineInv
<1> QED BY <1>1, EngineInvariance, PTL

\* The model is shown exactly the numbers a comment may be posted on
\* (format_patch_with_line_numbers, addable_lines_from_patch).
THEOREM NumbersAddable == Spec => []LabelsAddable
<1>1. EngineInv => LabelsAddable
  BY LabelsAreAddable DEF EngineInv
<1> QED BY <1>1, EngineInvariance, PTL

\* The dump stays within the budget and leaves no room for a file it cut
\* (FileDumpCollector.collect).
THEOREM BudgetUsed == Spec => []NoRoomLeft
<1>1. EngineInv => NoRoomLeft
  BY DEF EngineInv, DumpWhole, DumpInv
<1> QED BY <1>1, EngineInvariance, PTL

\* A changed file is cut only when the changed files in the dump leave it no room
\* (FileDumpCollector.collect, the sort by _priority_key).
THEOREM ChangedGoFirst == Spec => []ChangedFirst
<1>1. EngineInv => ChangedFirst
  BY DEF EngineInv, DumpWhole, TakenInv
<1> QED BY <1>1, EngineInvariance, PTL

\* The whole code base is reviewed only with every changed file in the prompt, the
\* diff only if one was cut, and a changed file drops out of all lists only if the name
\* it was listed under is no file (_changed_missing).
THEOREM ModeFitsDump == Spec => []FullModeShowsChange
<1>1. EngineInv => FullModeShowsChange
  <2> SUFFICES ASSUME DumpInv PROVE FullModeShowsChange
    BY DEF EngineInv, DumpWhole
  <2>1. ASSUME engineMode = "full", NEW p \in Changed, Wanted(p)
        PROVE  p \in entries
    <3>1. p \in Paths \ todo /\ tree[p].listed # "deleted"
      BY <2>1 DEF DumpInv, ChoiceInv, Changed, Wanted, IsFile
    <3>2. p \in entries \cup budgetExcluded
      BY <2>1, <3>1 DEF DumpInv, SortedOut
    <3> QED BY <2>1, <3>2 DEF DumpInv, ChoiceInv
  <2>2. ASSUME engineMode = "diff"
        PROVE  \E p \in Changed : Wanted(p) /\ p \notin entries
    BY <2>2 DEF DumpInv, ChoiceInv, SortedOut
  <2>3. ASSUME engineMode # "none", NEW p \in Changed, IsFile(p)
        PROVE  p \in entries \cup filteredOut \cup budgetExcluded
    BY <2>3 DEF DumpInv, ChoiceInv, SortedOut, Changed
  <2> QED BY <2>1, <2>2, <2>3 DEF FullModeShowsChange, Wanted
<1> QED BY <1>1, EngineInvariance, PTL

\* In every reachable state where the selection has ended: no comment is shown while
\* a later, usable one of an endpoint that answered is not, provided that it was there
\* at the endpoint's first request, and that its kind fits the pages read or that the
\* two are of one kind other than reviews
\* (fetch_pr_conversation, _select_entries_under_cap).
THEOREM ShowsTheLatest == Spec => []LatestShown
<1>1. EngineInv => LatestShown
  BY ShowsLatest DEF EngineInv, TalkWhole
<1> QED BY <1>1, EngineInvariance, PTL

\* In every reachable state where the selection has ended: it is a run of the newest
\* entries, none only if there are none; the entry before it would not have fitted;
\* whole entries keep to the cap, and a cut one stands alone, was too long for it, and is
\* shown up to the cap less one, with the mark on top (_select_entries_under_cap).
THEOREM SelectionIsFull == Spec => []SelectionFills
<1>1. EngineInv => SelectionFills
  BY DEF EngineInv, TalkWhole, TalkInv
<1> QED BY <1>1, EngineInvariance, PTL

\* The job fails only after a failure that no other model can mend, or when every
\* configured model was asked (_run_with_model_fallback).
THEOREM EveryModelAsked == Spec => []NotGivenUpEarly
<1>1. EngineInv => NotGivenUpEarly
  BY GivesUpLate DEF EngineInv
<1> QED BY <1>1, EngineInvariance, PTL

\* The review is labelled with the model that answered, and the ones before it were
\* tried (_run_with_model_fallback, _dedupe_models).
THEOREM AnswerIsLabelled == Spec => []FirstToAnswerIsNamed
<1>1. EngineInv => FirstToAnswerIsNamed
  BY NamesFirst DEF EngineInv
<1> QED BY <1>1, EngineInvariance, PTL

=============================================================================
