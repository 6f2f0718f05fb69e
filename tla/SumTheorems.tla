---------------------------- MODULE SumTheorems ----------------------------
(***************************************************************************)
(* Facts about SumFunction of the module Functions, the sum of the values  *)
(* of an integer-valued function with a finite domain, with proofs; then   *)
(* about what is defined by recursion over numbers or subsets, and about   *)
(* the sum of a sequence.                                                  *)
(*                                                                         *)
(* Induction on the domain is done by hand: the set of the subsets that    *)
(* violate the claim has a minimal element if it is not empty.             *)
(***************************************************************************)
EXTENDS Integers, Functions, FiniteSetTheorems, SequenceTheorems, WellFoundedInduction, TLAPS

\* the element MapThenFoldSet removes first
AnyOf(s) == CHOOSE x \in s : TRUE

\* g is the recursive function that MapThenFoldSet defines on the subsets of T
IsFold(w, T, g) ==
    /\ g \in [SUBSET T -> Int]
    /\ \A s \in SUBSET T :
         g[s] = IF s = {} THEN 0 ELSE w[AnyOf(s)] + g[s \ {AnyOf(s)}]

\* A set of subsets of a finite set has a minimal element.
LEMMA MinimalSubset ==
    ASSUME NEW S, IsFiniteSet(S), NEW Bad, Bad \subseteq SUBSET S, Bad # {}
    PROVE  \E T \in Bad : \A U \in Bad : U \subseteq T => U = T
<1>1. IsWellFoundedOn(StrictSubsetOrdering(S), FiniteSubsetsOf(S))
  BY FS_StrictSubsetOrderingWellFounded
<1>2. FiniteSubsetsOf(S) = SUBSET S
  BY FS_FiniteSubsetsOfFinite
<1>3. PICK T \in Bad : \A U \in Bad : ~ (<<U, T>> \in StrictSubsetOrdering(S))
  BY <1>1, <1>2, WFMin
<1>4. ASSUME NEW U \in Bad, U \subseteq T PROVE U = T
  BY <1>3, <1>4 DEF StrictSubsetOrdering
<1> QED BY <1>4

LEMMA AnyOfIn == \A s : s # {} => AnyOf(s) \in s
BY DEF AnyOf

\* Two folds agree where both are defined.
LEMMA FoldUnique ==
    ASSUME NEW S, IsFiniteSet(S), NEW w \in [S -> Int],
           NEW T \in SUBSET S, NEW U \in SUBSET S,
           NEW f, IsFold(w, T, f), NEW g, IsFold(w, U, g)
    PROVE  \A s \in SUBSET (T \cap U) : f[s] = g[s]
<1> DEFINE Bad == {s \in SUBSET (T \cap U) : f[s] # g[s]}
<1> SUFFICES ASSUME Bad # {} PROVE FALSE
  OBVIOUS
<1>1. PICK s \in Bad : \A r \in Bad : r \subseteq s => r = s
  <2>1. Bad \subseteq SUBSET S
    OBVIOUS
  <2> HIDE DEF Bad
  <2> QED BY <2>1, MinimalSubset
<1>2. s \subseteq T /\ s \subseteq U /\ f[s] # g[s]
  OBVIOUS
<1>3. s # {}
  BY <1>2 DEF IsFold
<1> DEFINE r == s \ {AnyOf(s)}
<1>4. r \subseteq s /\ r # s
  BY <1>3, AnyOfIn
<1>5. f[r] = g[r]
  BY <1>1, <1>2, <1>4
<1>6. f[s] = w[AnyOf(s)] + f[r] /\ g[s] = w[AnyOf(s)] + g[r]
  BY <1>2, <1>3 DEF IsFold
<1> QED BY <1>2, <1>5, <1>6

\* The fold exists.
LEMMA FoldExists ==
    ASSUME NEW S, IsFiniteSet(S), NEW w \in [S -> Int]
    PROVE  \E g : IsFold(w, S, g)
<1> DEFINE Bad == {T \in SUBSET S : ~ \E g : IsFold(w, T, g)}
<1> SUFFICES ASSUME Bad # {} PROVE FALSE
  OBVIOUS
<1>1. PICK T \in Bad : \A U \in Bad : U \subseteq T => U = T
  <2> HIDE DEF Bad
  <2>1. Bad \subseteq SUBSET S
    BY DEF Bad
  <2> QED BY <2>1, MinimalSubset
<1> DEFINE F(U) == CHOOSE g : IsFold(w, U, g)
           G == [s \in SUBSET T |->
                   IF s = {} THEN 0
                   ELSE w[AnyOf(s)] + F(s \ {AnyOf(s)})[s \ {AnyOf(s)}]]
<1>2. ASSUME NEW U \in SUBSET T, U # T PROVE IsFold(w, U, F(U))
  BY <1>1, <1>2
<1> HIDE DEF F
<1>3. ASSUME NEW s \in SUBSET T, s # {}
      PROVE  LET r == s \ {AnyOf(s)} IN
             /\ AnyOf(s) \in S
             /\ r \in SUBSET T
             /\ r # T
             /\ F(r)[r] \in Int
             /\ F(r)[r] = G[r]
  <2> DEFINE r == s \ {AnyOf(s)}
  <2>1. AnyOf(s) \in s
    BY <1>3, AnyOfIn
  <2>2. r \in SUBSET T /\ r # T /\ AnyOf(s) \in S
    BY <2>1
  <2>3. IsFold(w, r, F(r))
    BY <1>2, <2>2
  <2>4. F(r)[r] \in Int
    BY <2>3 DEF IsFold
  <2>5. F(r)[r] = G[r]
    <3>1. CASE r = {}
      BY <2>2, <2>3, <3>1 DEF IsFold
    <3>2. CASE r # {}
      <4> DEFINE q == r \ {AnyOf(r)}
      <4>1. q \in SUBSET r /\ q # T
        BY <2>2
      <4>2. IsFold(w, q, F(q))
        BY <1>2, <2>2, <4>1
      <4>3. F(r)[q] = F(q)[q]
        <5> HIDE DEF q, r
        <5>1. r \in SUBSET S /\ q \in SUBSET S /\ q \in SUBSET (r \cap q)
          BY <2>2, <4>1
        <5> QED BY <2>3, <4>2, <5>1, FoldUnique
      <4>4. F(r)[r] = w[AnyOf(r)] + F(r)[q]
        BY <2>3, <3>2 DEF IsFold
      <4>5. G[r] = w[AnyOf(r)] + F(q)[q]
        BY <2>2, <3>2
      <4> QED BY <4>3, <4>4, <4>5
    <3> QED BY <3>1, <3>2
  <2> QED BY <2>2, <2>4, <2>5
<1>4. G \in [SUBSET T -> Int]
  <2>1. ASSUME NEW s \in SUBSET T PROVE G[s] \in Int
    <3>1. CASE s = {}
      BY <3>1
    <3>2. CASE s # {}
      <4>1. w[AnyOf(s)] \in Int /\ F(s \ {AnyOf(s)})[s \ {AnyOf(s)}] \in Int
        BY <1>3, <3>2
      <4> QED BY <3>2, <4>1
    <3> QED BY <3>1, <3>2
  <2>2. G = [s \in SUBSET T |-> G[s]]
    OBVIOUS
  <2> HIDE DEF G
  <2> QED BY <2>1, <2>2
<1>5. ASSUME NEW s \in SUBSET T
      PROVE  G[s] = IF s = {} THEN 0 ELSE w[AnyOf(s)] + G[s \ {AnyOf(s)}]
  BY <1>3
<1>6. IsFold(w, T, G)
  BY <1>4, <1>5 DEF IsFold
<1> QED BY <1>1, <1>6

(***************************************************************************)
(* SumFunction(w) is the value of the fold on the whole domain.            *)
(***************************************************************************)
Fold(w, S) == CHOOSE g :
    g = [s \in SUBSET S |-> IF s = {} THEN 0 ELSE w[AnyOf(s)] + g[s \ {AnyOf(s)}]]

LEMMA FoldIsFold ==
    ASSUME NEW S, IsFiniteSet(S), NEW w \in [S -> Int]
    PROVE  IsFold(w, S, Fold(w, S)) /\ SumFunction(w) = Fold(w, S)[S]
<1>1. PICK g : IsFold(w, S, g)
  BY FoldExists
<1>2. g = [s \in SUBSET S |-> IF s = {} THEN 0 ELSE w[AnyOf(s)] + g[s \ {AnyOf(s)}]]
  BY <1>1 DEF IsFold
<1>3. Fold(w, S) = [s \in SUBSET S |->
                     IF s = {} THEN 0 ELSE w[AnyOf(s)] + Fold(w, S)[s \ {AnyOf(s)}]]
  BY <1>2 DEF Fold
<1> DEFINE h == Fold(w, S)
<1>4. \A s \in SUBSET S : h[s] = IF s = {} THEN 0 ELSE w[AnyOf(s)] + h[s \ {AnyOf(s)}]
  BY <1>3
<1> HIDE DEF h
<1>5. h = g
  <2> DEFINE Bad == {s \in SUBSET S : h[s] # g[s]}
  <2>1. SUFFICES ASSUME Bad # {} PROVE FALSE
    BY <1>1, <1>3 DEF IsFold, h
  <2>2. PICK s \in Bad : \A r \in Bad : r \subseteq s => r = s
    <3>1. Bad \subseteq SUBSET S
      OBVIOUS
    <3> HIDE DEF Bad
    <3> QED BY <2>1, <3>1, MinimalSubset
  <2>3. s \in SUBSET S /\ h[s] # g[s]
    OBVIOUS
  <2>4. s # {}
    BY <1>1, <1>4, <2>3 DEF IsFold
  <2> DEFINE r == s \ {AnyOf(s)}
  <2>5. r \in SUBSET S /\ r # s
    BY <2>3, <2>4, AnyOfIn
  <2>6. h[r] = g[r]
    BY <2>2, <2>5
  <2> QED BY <1>1, <1>4, <2>3, <2>4, <2>6 DEF IsFold
<1>6. SumFunction(w) = Fold(w, S)[S]
  BY DEF SumFunction, SumFunctionOnSet, FoldFunctionOnSet, MapThenFoldSet, Fold, AnyOf
<1> QED BY <1>1, <1>5, <1>6 DEF h

-----------------------------------------------------------------------------
(***************************************************************************)
(* What other modules cite.                                                *)
(***************************************************************************)

\* A sum of integers is an integer.
THEOREM SumType ==
    ASSUME NEW S, IsFiniteSet(S), NEW w \in [S -> Int]
    PROVE  SumFunction(w) \in Int
<1>1. IsFold(w, S, Fold(w, S)) /\ SumFunction(w) = Fold(w, S)[S]
  BY FoldIsFold
<1>2. Fold(w, S) \in [SUBSET S -> Int]
  BY <1>1 DEF IsFold
<1> QED BY <1>1, <1>2

\* The sum of a function that is 0 everywhere but in x is its value in x.
THEOREM SumSingle ==
    ASSUME NEW S, IsFiniteSet(S), NEW w \in [S -> Int], NEW x \in S,
           \A y \in S : y # x => w[y] = 0
    PROVE  SumFunction(w) = w[x]
<1> DEFINE g == Fold(w, S)
           Bad == {T \in SUBSET S : g[T] # IF x \in T THEN w[x] ELSE 0}
<1>1. IsFold(w, S, g) /\ SumFunction(w) = g[S]
  BY FoldIsFold
<1> HIDE DEF g
<1>2. SUFFICES ASSUME Bad # {} PROVE FALSE
  BY <1>1
<1>3. PICK T \in Bad : \A U \in Bad : U \subseteq T => U = T
  <2>1. Bad \subseteq SUBSET S
    OBVIOUS
  <2> HIDE DEF Bad
  <2> QED BY <1>2, <2>1, MinimalSubset
<1>4. T \in SUBSET S /\ T # {}
  BY <1>1 DEF IsFold
<1> DEFINE r == T \ {AnyOf(T)}
<1>5. r \in SUBSET S /\ r # T /\ AnyOf(T) \in T
  BY <1>4, AnyOfIn
<1>6. g[r] = IF x \in r THEN w[x] ELSE 0
  BY <1>3, <1>5
<1>7. g[T] = w[AnyOf(T)] + g[r]
  BY <1>1, <1>4 DEF IsFold
<1>8. g[T] = IF x \in T THEN w[x] ELSE 0
  BY <1>4, <1>5, <1>6, <1>7
<1> QED BY <1>3, <1>8

\* The sum of a pointwise sum is the sum of the sums.
THEOREM SumAdd ==
    ASSUME NEW S, IsFiniteSet(S),
           NEW u \in [S -> Int], NEW v \in [S -> Int], NEW w \in [S -> Int],
           \A x \in S : w[x] = u[x] + v[x]
    PROVE  SumFunction(w) = SumFunction(u) + SumFunction(v)
<1> DEFINE f == Fold(u, S)
           g == Fold(v, S)
           h == Fold(w, S)
           Bad == {T \in SUBSET S : h[T] # f[T] + g[T]}
<1>1. /\ IsFold(u, S, f) /\ SumFunction(u) = f[S]
      /\ IsFold(v, S, g) /\ SumFunction(v) = g[S]
      /\ IsFold(w, S, h) /\ SumFunction(w) = h[S]
  BY FoldIsFold
<1> HIDE DEF f, g, h
<1>2. SUFFICES ASSUME Bad # {} PROVE FALSE
  BY <1>1
<1>3. PICK T \in Bad : \A U \in Bad : U \subseteq T => U = T
  <2>1. Bad \subseteq SUBSET S
    OBVIOUS
  <2> HIDE DEF Bad
  <2> QED BY <1>2, <2>1, MinimalSubset
<1>4. T \in SUBSET S /\ T # {}
  <2>1. T \in SUBSET S /\ h[T] # f[T] + g[T]
    OBVIOUS
  <2>2. h[{}] = 0 /\ f[{}] = 0 /\ g[{}] = 0
    BY <1>1 DEF IsFold
  <2> QED BY <2>1, <2>2
<1> DEFINE r == T \ {AnyOf(T)}
<1>5. r \in SUBSET S /\ r # T /\ AnyOf(T) \in S
  BY <1>4, AnyOfIn
<1>6. h[r] = f[r] + g[r]
  BY <1>3, <1>5
<1>7. /\ f[T] = u[AnyOf(T)] + f[r]
      /\ g[T] = v[AnyOf(T)] + g[r]
      /\ h[T] = w[AnyOf(T)] + h[r]
  BY <1>1, <1>4 DEF IsFold
<1>8. f[r] \in Int /\ g[r] \in Int /\ u[AnyOf(T)] \in Int /\ v[AnyOf(T)] \in Int
  BY <1>1, <1>5 DEF IsFold
<1>9. h[T] = f[T] + g[T]
  BY <1>5, <1>6, <1>7, <1>8
<1> QED BY <1>3, <1>9

\* A sum of naturals is a natural.
THEOREM SumNatural ==
    ASSUME NEW S, IsFiniteSet(S), NEW w \in [S -> Nat]
    PROVE  SumFunction(w) \in Nat
<1> DEFINE g == Fold(w, S)
           Bad == {T \in SUBSET S : g[T] \notin Nat}
<1>0. w \in [S -> Int]
  OBVIOUS
<1>1. IsFold(w, S, g) /\ SumFunction(w) = g[S]
  BY <1>0, FoldIsFold
<1> HIDE DEF g
<1>2. SUFFICES ASSUME Bad # {} PROVE FALSE
  BY <1>1
<1>3. PICK T \in Bad : \A U \in Bad : U \subseteq T => U = T
  <2>1. Bad \subseteq SUBSET S
    OBVIOUS
  <2> HIDE DEF Bad
  <2> QED BY <1>2, <2>1, MinimalSubset
<1>4. T \in SUBSET S /\ T # {}
  <2>1. g[{}] = 0
    BY <1>1 DEF IsFold
  <2> QED BY <2>1
<1> DEFINE r == T \ {AnyOf(T)}
<1>5. r \in SUBSET S /\ r # T /\ AnyOf(T) \in S
  BY <1>4, AnyOfIn
<1>6. g[r] \in Nat
  BY <1>3, <1>5
<1>7. g[T] = w[AnyOf(T)] + g[r]
  BY <1>1, <1>4 DEF IsFold
<1>8. g[T] \in Nat
  BY <1>5, <1>6, <1>7
<1> QED BY <1>3, <1>8

LEMMA DoubleIsZero == \A n \in Int : n = n + n => n = 0
  BY SMT

\* A sum of zeros is zero, over the empty set too.
THEOREM SumZero ==
    ASSUME NEW S, IsFiniteSet(S)
    PROVE  SumFunction([x \in S |-> 0]) = 0
<1> DEFINE z == [x \in S |-> 0]
<1>1. z \in [S -> Int] /\ \A x \in S : z[x] = z[x] + z[x]
  OBVIOUS
<1> HIDE DEF z
<1>2. SumFunction(z) = SumFunction(z) + SumFunction(z)
  BY <1>1, SumAdd
<1>3. SumFunction(z) \in Int
  BY <1>1, SumType
<1>4. SumFunction(z) = 0
  BY <1>2, <1>3, DoubleIsZero
<1> QED BY <1>4 DEF z

\* Changing a function in one point changes its sum by the difference.
THEOREM SumChange ==
    ASSUME NEW S, IsFiniteSet(S), NEW u \in [S -> Int], NEW w \in [S -> Int], NEW x \in S,
           \A y \in S : y # x => w[y] = u[y]
    PROVE  SumFunction(w) = SumFunction(u) + (w[x] - u[x])
<1> DEFINE d == [y \in S |-> IF y = x THEN w[x] - u[x] ELSE 0]
<1>1. d \in [S -> Int] /\ \A y \in S : y # x => d[y] = 0
  OBVIOUS
<1>2. \A y \in S : w[y] = u[y] + d[y]
  OBVIOUS
<1>3. d[x] = w[x] - u[x]
  OBVIOUS
<1> HIDE DEF d
<1>4. SumFunction(d) = d[x]
  BY <1>1, SumSingle
<1>5. SumFunction(w) = SumFunction(u) + SumFunction(d)
  BY <1>1, <1>2, SumAdd
<1> QED BY <1>3, <1>4, <1>5

-----------------------------------------------------------------------------
(***************************************************************************)
(* Sums over a part of the domain (FoldFunctionOnSet).                     *)
(***************************************************************************)
PartSum(w, D) == FoldFunctionOnSet(+, 0, w, D)

\* w where it counts, 0 elsewhere
Masked(w, S, D) == [x \in S |-> IF x \in D THEN w[x] ELSE 0]

\* The fold over a part is a value of the fold over the whole.
LEMMA PartSumIsFold ==
    ASSUME NEW S, IsFiniteSet(S), NEW w \in [S -> Int], NEW D \in SUBSET S
    PROVE  PartSum(w, D) = Fold(w, S)[D]
<1>1. PICK g : IsFold(w, D, g)
  <2>1. PICK f : IsFold(w, S, f)
    BY FoldExists
  <2>2. IsFold(w, D, [s \in SUBSET D |-> f[s]])
    BY <2>1 DEF IsFold, AnyOf
  <2> QED BY <2>2
<1>2. g = [s \in SUBSET D |-> IF s = {} THEN 0 ELSE w[AnyOf(s)] + g[s \ {AnyOf(s)}]]
  BY <1>1 DEF IsFold
<1>3. Fold(w, D) = [s \in SUBSET D |->
                     IF s = {} THEN 0 ELSE w[AnyOf(s)] + Fold(w, D)[s \ {AnyOf(s)}]]
  BY <1>2 DEF Fold
<1> DEFINE h == Fold(w, D)
<1>4. \A s \in SUBSET D : h[s] = IF s = {} THEN 0 ELSE w[AnyOf(s)] + h[s \ {AnyOf(s)}]
  BY <1>3
<1> HIDE DEF h
<1>5. IsFold(w, S, Fold(w, S))
  BY FoldIsFold
<1> DEFINE f == Fold(w, S)
<1>6. \A s \in SUBSET S : f[s] = IF s = {} THEN 0 ELSE w[AnyOf(s)] + f[s \ {AnyOf(s)}]
  BY <1>5 DEF IsFold
<1> HIDE DEF f
<1>7. h[D] = f[D]
  <2> DEFINE Bad == {s \in SUBSET D : h[s] # f[s]}
  <2>1. SUFFICES ASSUME Bad # {} PROVE FALSE
    OBVIOUS
  <2>2. PICK s \in Bad : \A r \in Bad : r \subseteq s => r = s
    <3>1. Bad \subseteq SUBSET S
      OBVIOUS
    <3> HIDE DEF Bad
    <3> QED BY <2>1, <3>1, MinimalSubset
  <2>3. s \in SUBSET D /\ s \in SUBSET S /\ h[s] # f[s]
    OBVIOUS
  <2>4. s # {}
    BY <1>4, <1>6, <2>3
  <2> DEFINE r == s \ {AnyOf(s)}
  <2>5. r \in SUBSET D /\ r # s
    BY <2>3, <2>4, AnyOfIn
  <2>6. h[r] = f[r]
    BY <2>2, <2>5
  <2> QED BY <1>4, <1>6, <2>3, <2>4, <2>6
<1>8. PartSum(w, D) = Fold(w, D)[D]
  BY DEF PartSum, FoldFunctionOnSet, MapThenFoldSet, Fold, AnyOf
<1> QED BY <1>7, <1>8 DEF f, h

\* The sum over a part is the sum of the function that is 0 outside it.
THEOREM PartSumMasked ==
    ASSUME NEW S, IsFiniteSet(S), NEW w \in [S -> Int], NEW D \in SUBSET S
    PROVE  PartSum(w, D) = SumFunction(Masked(w, S, D))
<1> DEFINE f == Fold(w, S)
           Bad == {T \in SUBSET S : f[T] # SumFunction(Masked(w, S, T))}
<1>1. IsFold(w, S, f)
  BY FoldIsFold
<1>2. PartSum(w, D) = f[D]
  BY PartSumIsFold
<1> HIDE DEF f
<1>3. SUFFICES ASSUME Bad # {} PROVE FALSE
  BY <1>2
<1>4. PICK T \in Bad : \A U \in Bad : U \subseteq T => U = T
  <2>1. Bad \subseteq SUBSET S
    OBVIOUS
  <2> HIDE DEF Bad
  <2> QED BY <1>3, <2>1, MinimalSubset
<1>5. T \in SUBSET S /\ f[T] # SumFunction(Masked(w, S, T))
  OBVIOUS
<1>6. T # {}
  <2>1. Masked(w, S, {}) = [x \in S |-> 0]
    BY DEF Masked
  <2>2. f[{}] = 0
    BY <1>1 DEF IsFold
  <2> QED BY <1>5, <2>1, <2>2, SumZero
<1> DEFINE a == AnyOf(T)
           r == T \ {a}
<1>7. r \in SUBSET S /\ r # T /\ a \in T
  BY <1>5, <1>6, AnyOfIn
<1>8. f[r] = SumFunction(Masked(w, S, r))
  BY <1>4, <1>7
<1>9. f[T] = w[a] + f[r] /\ f[r] \in Int /\ w[a] \in Int
  BY <1>1, <1>5, <1>6, <1>7 DEF IsFold
<1> DEFINE u == Masked(w, S, r)
           v == Masked(w, S, T)
<1>10. /\ u \in [S -> Int] /\ v \in [S -> Int]
       /\ \A y \in S : y # a => v[y] = u[y]
       /\ u[a] = 0 /\ v[a] = w[a]
  BY <1>5, <1>7 DEF Masked
<1> HIDE DEF u, v, a
<1>11. SumFunction(v) = SumFunction(u) + (v[a] - u[a])
  BY <1>5, <1>7, <1>10, SumChange
<1> QED BY <1>5, <1>8, <1>9, <1>10, <1>11 DEF u, v

\* A sum over a part is an integer, and of functions that agree there the same.
THEOREM PartSumSame ==
    ASSUME NEW S, IsFiniteSet(S), NEW u \in [S -> Int], NEW w \in [S -> Int],
           NEW D \in SUBSET S, \A x \in D : w[x] = u[x]
    PROVE  PartSum(w, D) = PartSum(u, D) /\ PartSum(u, D) \in Int
<1>1. Masked(w, S, D) = Masked(u, S, D) /\ Masked(u, S, D) \in [S -> Int]
  BY DEF Masked
<1> QED BY <1>1, PartSumMasked, SumType

\* An element that joins the part adds its value.
THEOREM PartSumAdd ==
    ASSUME NEW S, IsFiniteSet(S), NEW w \in [S -> Int], NEW D \in SUBSET S, NEW x \in S \ D
    PROVE  PartSum(w, D \cup {x}) = PartSum(w, D) + w[x]
<1> DEFINE u == Masked(w, S, D)
           v == Masked(w, S, D \cup {x})
<1>1. /\ u \in [S -> Int] /\ v \in [S -> Int]
      /\ \A y \in S : y # x => v[y] = u[y]
      /\ u[x] = 0 /\ v[x] = w[x]
  BY DEF Masked
<1>2. PartSum(w, D) = SumFunction(u) /\ PartSum(w, D \cup {x}) = SumFunction(v)
  BY PartSumMasked
<1> HIDE DEF u, v
<1>3. SumFunction(v) = SumFunction(u) + (v[x] - u[x])
  BY <1>1, SumChange
<1> QED BY <1>1, <1>2, <1>3

\* The sum over nothing is 0, over one element its value.
THEOREM PartSumSingle ==
    ASSUME NEW S, IsFiniteSet(S), NEW w \in [S -> Int], NEW x \in S
    PROVE  PartSum(w, {}) = 0 /\ PartSum(w, {x}) = w[x]
<1>1. PartSum(w, {}) = 0
  <2>1. Masked(w, S, {}) = [y \in S |-> 0]
    BY DEF Masked
  <2> QED BY <2>1, PartSumMasked, SumZero
<1>2. PartSum(w, {} \cup {x}) = PartSum(w, {}) + w[x]
  BY PartSumAdd
<1> QED BY <1>1, <1>2

-----------------------------------------------------------------------------
(***************************************************************************)
(* Induction up to a number, and what recursion over it defines.           *)
(***************************************************************************)
\* Numbers up to n, one after the other.
LEMMA InductionTo ==
    ASSUME NEW n \in Nat, NEW Good, 0 \in Good,
           \A i \in 1..n : i - 1 \in Good => i \in Good
    PROVE  0..n \subseteq Good
<1> SUFFICES ASSUME NEW k \in 0..n, k \notin Good PROVE FALSE
  OBVIOUS
<1> DEFINE Bad == {s \in SUBSET (1..n) : \E i \in 0..n : i \notin Good /\ s = 1..i}
<1>1. IsFiniteSet(1..n)
  BY FS_Interval
<1>2. Bad # {}
  <2>1. 1..k \in Bad
    OBVIOUS
  <2> QED BY <2>1
<1>3. PICK T \in Bad : \A s \in Bad : s \subseteq T => s = T
  <2> DEFINE S == 1..n
  <2>1. Bad \subseteq SUBSET S /\ IsFiniteSet(S)
    BY <1>1
  <2> HIDE DEF Bad, S
  <2> QED BY <1>2, <2>1, MinimalSubset
<1>4. PICK m \in 0..n : m \notin Good /\ T = 1..m
  OBVIOUS
<1>5. m \in 1..n /\ m - 1 \notin Good
  BY <1>4
<1>6. 1..(m - 1) \in Bad
  BY <1>5
<1>7. 1..(m - 1) \subseteq 1..m /\ m \notin 1..(m - 1) /\ m \in 1..m
  BY <1>5
<1> QED BY <1>3, <1>4, <1>6, <1>7

\* What a sequence of steps computes: f takes step i from the value before it.
Closed(n, V, f) == \A i \in 1..n, x \in V : f[<<i, x>>] \in V

IsSteps(n, V, base, f, g) ==
    /\ g \in [0..n -> V]
    /\ g[0] = base
    /\ \A i \in 1..n : g[i] = f[<<i, g[i - 1]>>]

LEMMA StepsExist ==
    ASSUME NEW n \in Nat, NEW V, NEW base \in V, NEW f, Closed(n, V, f)
    PROVE  \E g : IsSteps(n, V, base, f, g)
<1> DEFINE Good == {k \in 0..n : \E g : IsSteps(k, V, base, f, g)}
<1>1. 0 \in Good
  <2> DEFINE h == [i \in 0..0 |-> base]
  <2>1. IsSteps(0, V, base, f, h)
    BY DEF IsSteps
  <2> HIDE DEF h
  <2> QED BY <2>1
<1>2. ASSUME NEW k \in 1..n, k - 1 \in Good PROVE k \in Good
  <2>1. PICK g : IsSteps(k - 1, V, base, f, g)
    BY <1>2
  <2> DEFINE h == [i \in 0..k |-> IF i = k THEN f[<<k, g[k - 1]>>] ELSE g[i]]
  <2>2. g[k - 1] \in V
    BY <2>1 DEF IsSteps
  <2>3. h \in [0..k -> V]
    BY <2>1, <2>2 DEF IsSteps, Closed
  <2>4. ASSUME NEW i \in 1..k PROVE h[i] = f[<<i, h[i - 1]>>]
    <3>1. h[i - 1] = g[i - 1]
      OBVIOUS
    <3>2. CASE i = k
      <4>1. h[i] = f[<<k, g[k - 1]>>]
        BY <3>2
      <4>2. h[i - 1] = g[k - 1]
        BY <3>1, <3>2
      <4> HIDE DEF h
      <4> QED BY <3>2, <4>1, <4>2
    <3>3. CASE i # k
      <4>1. i \in 1..(k - 1)
        BY <3>3
      <4>2. h[i] = g[i] /\ g[i] = f[<<i, g[i - 1]>>]
        BY <2>1, <3>3, <4>1 DEF IsSteps
      <4> QED BY <3>1, <4>2
    <3> QED BY <3>2, <3>3
  <2>5. h[0] = base
    BY <2>1 DEF IsSteps
  <2>6. IsSteps(k, V, base, f, h)
    <3> HIDE DEF h
    <3> QED BY <2>3, <2>4, <2>5 DEF IsSteps
  <2> HIDE DEF h
  <2> QED BY <2>6
<1>3. n \in Good
  <2> HIDE DEF Good
  <2>1. 0..n \subseteq Good
    BY <1>1, <1>2, InductionTo
  <2> QED BY <2>1
<1> QED BY <1>3

\* Two functions that take the same steps are the same.
SameSteps(n, g, h) == g[0] = h[0] /\ \A i \in 1..n : g[i - 1] = h[i - 1] => g[i] = h[i]

LEMMA StepsUnique ==
    ASSUME NEW n \in Nat, NEW g, NEW h, SameSteps(n, g, h)
    PROVE  \A i \in 0..n : g[i] = h[i]
<1> DEFINE Good == {i \in 0..n : g[i] = h[i]}
<1>1. 0 \in Good /\ \A i \in 1..n : i - 1 \in Good => i \in Good
  BY DEF SameSteps
<1> HIDE DEF Good
<1>2. 0..n \subseteq Good
  BY <1>1, InductionTo
<1> QED BY <1>2 DEF Good

-----------------------------------------------------------------------------
(***************************************************************************)
(* A function of the subsets of T that takes p[s] out of s, and applies f  *)
(* to it and to the value for the rest.                                    *)
(***************************************************************************)
PicksFrom(p, S) == \A s \in SUBSET S : s # {} => p[s] \in s

IsRecursion(p, f, base, T, g) ==
    \A s \in SUBSET T : g[s] = IF s = {} THEN base ELSE f[<<p[s], g[s \ {p[s]}]>>]

LEMMA RecursionUnique ==
    ASSUME NEW S, IsFiniteSet(S), NEW p, NEW f, NEW base, NEW T, NEW U, NEW g, NEW h,
           PicksFrom(p, S), T \in SUBSET S, U \in SUBSET S,
           IsRecursion(p, f, base, T, g), IsRecursion(p, f, base, U, h)
    PROVE  \A s \in SUBSET (T \cap U) : g[s] = h[s]
<1> DEFINE Bad == {s \in SUBSET (T \cap U) : g[s] # h[s]}
<1> SUFFICES ASSUME Bad # {} PROVE FALSE
  OBVIOUS
<1>1. PICK s \in Bad : \A r \in Bad : r \subseteq s => r = s
  <2>1. Bad \subseteq SUBSET S
    OBVIOUS
  <2> HIDE DEF Bad
  <2> QED BY <2>1, MinimalSubset
<1>2. s \subseteq T /\ s \subseteq U /\ g[s] # h[s]
  OBVIOUS
<1>3. s # {} /\ p[s] \in s
  BY <1>2 DEF IsRecursion, PicksFrom
<1> DEFINE r == s \ {p[s]}
<1>4. r \subseteq s /\ r # s
  BY <1>3
<1>5. g[r] = h[r]
  BY <1>1, <1>2, <1>4
<1> QED BY <1>2, <1>3, <1>5 DEF IsRecursion

LEMMA RecursionExists ==
    ASSUME NEW S, IsFiniteSet(S), NEW V, NEW p, NEW f \in [S \X V -> V], NEW base \in V, PicksFrom(p, S)
    PROVE  \E g \in [SUBSET S -> V] : IsRecursion(p, f, base, S, g)
<1> DEFINE Good(T, g) == g \in [SUBSET T -> V] /\ IsRecursion(p, f, base, T, g)
           Bad == {T \in SUBSET S : ~ \E g : Good(T, g)}
<1> SUFFICES ASSUME Bad # {} PROVE FALSE
  OBVIOUS
<1>1. PICK T \in Bad : \A U \in Bad : U \subseteq T => U = T
  <2> HIDE DEF Bad
  <2>1. Bad \subseteq SUBSET S
    BY DEF Bad
  <2> QED BY <2>1, MinimalSubset
<1> DEFINE F(U) == CHOOSE g : Good(U, g)
           G == [s \in SUBSET T |-> IF s = {} THEN base ELSE f[<<p[s], F(s \ {p[s]})[s \ {p[s]}]>>]]
<1>2. ASSUME NEW U \in SUBSET T, U # T PROVE Good(U, F(U))
  <2> HIDE DEF Good
  <2> QED BY <1>1, <1>2
<1> HIDE DEF F
<1>3. ASSUME NEW s \in SUBSET T, s # {}
      PROVE  LET r == s \ {p[s]} IN
             p[s] \in S /\ r \in SUBSET T /\ r # T /\ F(r)[r] \in V /\ F(r)[r] = G[r]
  <2> DEFINE r == s \ {p[s]}
  <2>1. p[s] \in s
    BY <1>3 DEF PicksFrom
  <2>2. r \in SUBSET T /\ r # T /\ p[s] \in S
    BY <2>1
  <2>3. Good(r, F(r))
    BY <1>2, <2>2
  <2>4. F(r)[r] \in V
    BY <2>3
  <2>5. F(r)[r] = G[r]
    <3>1. CASE r = {}
      BY <2>2, <2>3, <3>1 DEF IsRecursion
    <3>2. CASE r # {}
      <4> DEFINE t == r \ {p[r]}
      <4>1. t \in SUBSET r /\ t # T
        BY <2>2
      <4>2. Good(t, F(t))
        BY <1>2, <2>2, <4>1
      <4>3. F(r)[t] = F(t)[t]
        <5> HIDE DEF t, r
        <5>1. r \in SUBSET S /\ t \in SUBSET S /\ t \in SUBSET (r \cap t)
          BY <2>2, <4>1
        <5> QED BY <2>3, <4>2, <5>1, RecursionUnique
      <4>4. F(r)[r] = f[<<p[r], F(r)[t]>>]
        BY <2>3, <3>2 DEF IsRecursion
      <4>5. G[r] = f[<<p[r], F(t)[t]>>]
        BY <2>2, <3>2
      <4> QED BY <4>3, <4>4, <4>5
    <3> QED BY <3>1, <3>2
  <2> QED BY <2>2, <2>4, <2>5
<1>4. G \in [SUBSET T -> V]
  <2>1. ASSUME NEW s \in SUBSET T PROVE G[s] \in V
    <3>1. CASE s = {}
      BY <3>1
    <3>2. CASE s # {}
      <4>1. p[s] \in S /\ F(s \ {p[s]})[s \ {p[s]}] \in V
        BY <1>3, <3>2
      <4> QED BY <3>2, <4>1
    <3> QED BY <3>1, <3>2
  <2>2. G = [s \in SUBSET T |-> G[s]]
    OBVIOUS
  <2> HIDE DEF G
  <2> QED BY <2>1, <2>2
<1>5. ASSUME NEW s \in SUBSET T
      PROVE  G[s] = IF s = {} THEN base ELSE f[<<p[s], G[s \ {p[s]}]>>]
  BY <1>3
<1>6. Good(T, G)
  <2> HIDE DEF G
  <2> QED BY <1>4, <1>5 DEF IsRecursion
<1> HIDE DEF G, Good
<1> QED BY <1>1, <1>6

\* A set of numbers up to n has a greatest.
LEMMA Greatest ==
    ASSUME NEW n \in Nat
    PROVE  \A s \in SUBSET (1..n) : s # {} => \E x \in s : \A y \in s : x >= y
<1> DEFINE HasMax(s) == s # {} => \E x \in s : \A y \in s : x >= y
           Good == {k \in 0..n : \A s \in SUBSET (1..k) : HasMax(s)}
<1>1. 0 \in Good
  <2>1. \A s \in SUBSET (1..0) : s = {}
    OBVIOUS
  <2>3. \A s \in SUBSET (1..0) : HasMax(s)
    BY <2>1
  <2>4. 0 \in 0..n
    OBVIOUS
  <2> HIDE DEF HasMax
  <2> QED BY <2>3, <2>4
<1>2. ASSUME NEW k \in 1..n, k - 1 \in Good PROVE k \in Good
  <2> SUFFICES ASSUME NEW s \in SUBSET (1..k) PROVE HasMax(s)
    OBVIOUS
  <2>1. CASE k \in s
    BY <2>1
  <2>2. CASE k \notin s
    <3>1. s \in SUBSET (1..(k - 1))
      BY <2>2
    <3> HIDE DEF HasMax
    <3> QED BY <1>2, <3>1
  <2> QED BY <2>1, <2>2
<1>3. n \in Good
  <2> HIDE DEF Good
  <2>1. 0..n \subseteq Good
    BY <1>1, <1>2, InductionTo
  <2> QED BY <2>1
<1> QED BY <1>3

-----------------------------------------------------------------------------
(***************************************************************************)
(* Sums over sequences.                                                    *)
(***************************************************************************)
LEMMA SumOfSeqType ==
    ASSUME NEW s \in Seq(Int)
    PROVE  SumFunction(s) \in Int
<1> DEFINE D == 1..Len(s)
<1>1. s \in [D -> Int] /\ IsFiniteSet(D)
  BY LenProperties, FS_Interval
<1> HIDE DEF D
<1> QED BY <1>1, SumType

LEMMA SumOfEmpty == SumFunction(<<>>) = 0
<1> DEFINE D == {}
           s == <<>>
<1>1. s \in [D -> Int] /\ IsFiniteSet(D)
  <2>1. <<>> \in Seq(Int) /\ Len(<<>>) = 0
    BY EmptySeq
  <2>2. <<>> \in [1..Len(<<>>) -> Int]
    BY <2>1, LenProperties
  <2>3. 1..Len(<<>>) = {}
    BY <2>1
  <2> QED BY <2>2, <2>3, FS_EmptySet
<1> HIDE DEF s
<1>2. IsFold(s, D, Fold(s, D)) /\ SumFunction(s) = Fold(s, D)[D]
  BY <1>1, FoldIsFold
<1>3. Fold(s, D)[{}] = 0
  BY <1>2 DEF IsFold
<1> QED BY <1>2, <1>3 DEF s

LEMMA FoldOfPart ==
    ASSUME NEW S, IsFiniteSet(S), NEW w \in [S -> Int], NEW D \in SUBSET S,
           NEW f, IsFold(w, S, f), NEW g, IsFold(w, D, g)
    PROVE  f[D] = g[D]
<1>1. S \in SUBSET S /\ D \in SUBSET (S \cap D)
  OBVIOUS
<1>2. \A s \in SUBSET (S \cap D) : f[s] = g[s]
  BY <1>1, FoldUnique
<1> QED BY <1>1, <1>2

LEMMA SumAppend ==
    ASSUME NEW s \in Seq(Int), NEW e \in Int
    PROVE  SumFunction(Append(s, e)) = SumFunction(s) + e
<1> DEFINE n == Len(s)
           w == Append(s, e)
           D == 1..n
           S == 1..(n + 1)
<1>1. n \in Nat /\ s \in [D -> Int]
  BY LenProperties
<1>2. w \in Seq(Int) /\ Len(w) = n + 1 /\ w[n + 1] = e /\ \A i \in D : w[i] = s[i]
  BY AppendProperties
<1>3. w \in [S -> Int]
  BY <1>2, LenProperties
<1>4. IsFiniteSet(D) /\ IsFiniteSet(S)
  BY <1>1, FS_Interval
<1>5. D \in SUBSET S /\ n + 1 \in S \ D /\ S = D \cup {n + 1}
  BY <1>1
<1> HIDE DEF w, D, S, n
<1>6. PartSum(w, S) = PartSum(w, D) + w[n + 1]
  BY <1>3, <1>4, <1>5, PartSumAdd
<1>7. SumFunction(w) = PartSum(w, S)
  <2>1. DOMAIN w = S
    BY <1>3
  <2> QED BY <2>1 DEF SumFunction, SumFunctionOnSet, PartSum
<1>8. PartSum(w, D) = Fold(w, S)[D] /\ IsFold(w, S, Fold(w, S))
  BY <1>3, <1>4, <1>5, PartSumIsFold, FoldIsFold
<1>9. SumFunction(s) = Fold(s, D)[D] /\ IsFold(s, D, Fold(s, D))
  BY <1>1, <1>4, FoldIsFold
<1>10. IsFold(w, D, Fold(s, D))
  <2>1. \A t \in SUBSET D : t # {} => w[AnyOf(t)] = s[AnyOf(t)]
    BY <1>2, AnyOfIn
  <2> QED BY <1>9, <2>1 DEF IsFold
<1>11. Fold(w, S)[D] = Fold(s, D)[D]
  BY <1>3, <1>4, <1>5, <1>8, <1>10, FoldOfPart
<1> QED BY <1>2, <1>6, <1>7, <1>8, <1>9, <1>11 DEF w

LEMMA ConcatInts ==
    ASSUME NEW s \in Seq(Int), NEW t \in Seq(Int), NEW u \in Seq(Int)
    PROVE  (s \o t) \o u = s \o (t \o u)
BY ConcatAssociative

LEMMA SumConcat ==
    ASSUME NEW s \in Seq(Int), NEW t \in Seq(Int)
    PROVE  SumFunction(s \o t) = SumFunction(s) + SumFunction(t)
<1> DEFINE U(k) == SubSeq(t, 1, k)
           n == Len(t)
           Good == {k \in 0..n : SumFunction(s \o U(k)) = SumFunction(s) + SumFunction(U(k))}
<1>0. n \in Nat
  BY LenProperties
<1>1. 0 \in Good
  <2>1. U(0) = <<>>
    BY SubSeqEmpty
  <2>2. s \o U(0) = s
    BY <2>1, ConcatEmptySeq
  <2>3. SumFunction(s) \in Int /\ SumFunction(s) = SumFunction(s) + 0
    <3>1. SumFunction(s) \in Int
      BY SumOfSeqType
    <3> QED BY <3>1
  <2>4. SumFunction(s \o U(0)) = SumFunction(s) + SumFunction(U(0))
    BY <2>1, <2>2, <2>3, SumOfEmpty
  <2> QED BY <1>0, <2>4
<1>2. ASSUME NEW k \in 1..n, k - 1 \in Good PROVE k \in Good
  <2>1. t[k] \in Int
    BY ElementOfSeq
  <2>2. U(k - 1) \in Seq(Int)
    <3>1. \A i \in 1..(k - 1) : t[i] \in Int
      BY <1>0, ElementOfSeq
    <3> QED BY <1>0, <3>1, SubSeqProperties
  <2>3. U(k) = U(k - 1) \o <<t[k]>>
    BY <1>0, SubSeqRecursiveSecond
  <2>4. U(k) = Append(U(k - 1), t[k])
    BY <2>1, <2>2, <2>3, AppendIsConcat
  <2>5. <<t[k]>> \in Seq(Int)
    BY <2>1
  <2>6. s \o U(k) = (s \o U(k - 1)) \o <<t[k]>>
    <3>1. (s \o U(k - 1)) \o <<t[k]>> = s \o (U(k - 1) \o <<t[k]>>)
      <4> DEFINE start == U(k - 1)
                 one == <<t[k]>>
      <4>1. start \in Seq(Int) /\ one \in Seq(Int)
        BY <2>2, <2>5
      <4> HIDE DEF start, one
      <4>2. (s \o start) \o one = s \o (start \o one)
        BY <4>1, ConcatInts
      <4> QED BY <4>2 DEF start, one
    <3> QED BY <2>3, <3>1
  <2>7. s \o U(k - 1) \in Seq(Int)
    BY <2>2, ConcatProperties
  <2>8. s \o U(k) = Append(s \o U(k - 1), t[k])
    BY <2>1, <2>6, <2>7, AppendIsConcat
  <2>9. SumFunction(s \o U(k)) = SumFunction(s \o U(k - 1)) + t[k]
    BY <2>1, <2>7, <2>8, SumAppend
  <2>10. SumFunction(U(k)) = SumFunction(U(k - 1)) + t[k]
    BY <2>1, <2>2, <2>4, SumAppend
  <2>11. SumFunction(s \o U(k - 1)) = SumFunction(s) + SumFunction(U(k - 1))
    BY <1>2
  <2>12. SumFunction(s) \in Int /\ SumFunction(U(k - 1)) \in Int
    BY <2>2, SumOfSeqType
  <2> QED BY <2>1, <2>9, <2>10, <2>11, <2>12
<1>3. n \in Good
  <2> HIDE DEF Good
  <2>1. 0..n \subseteq Good
    BY <1>0, <1>1, <1>2, InductionTo
  <2> QED BY <1>0, <2>1
<1>4. U(n) = t
  BY SubSeqFull
<1> QED BY <1>3, <1>4

\* m times the same
Same(m, c) == [j \in 1..m |-> c]

LEMMA SameIsSeq ==
    ASSUME NEW S, NEW m \in Nat, NEW c \in S
    PROVE  Same(m, c) \in Seq(S) /\ Len(Same(m, c)) = m /\ \A j \in 1..m : Same(m, c)[j] = c
BY DEF Same

LEMMA SumOfSame ==
    ASSUME NEW m \in Nat, NEW c \in Int
    PROVE  SumFunction(Same(m, c)) = m * c
<1> DEFINE Good == {k \in 0..m : SumFunction(Same(k, c)) = k * c}
<1>1. 0 \in Good
  <2>1. Same(0, c) = <<>>
    BY DEF Same
  <2> QED BY <2>1, SumOfEmpty
<1>2. ASSUME NEW k \in 1..m, k - 1 \in Good PROVE k \in Good
  <2>1. /\ Same(k, c) \in Seq(Int) /\ Len(Same(k, c)) = k
        /\ Same(k - 1, c) \in Seq(Int) /\ Len(Same(k - 1, c)) = k - 1
        /\ \A j \in 1..k : Same(k, c)[j] = c
        /\ \A j \in 1..(k - 1) : Same(k - 1, c)[j] = c
    <3>1. k \in Nat /\ k - 1 \in Nat
      OBVIOUS
    <3> QED BY <3>1, SameIsSeq
  <2>2. Same(k, c) = Append(Same(k - 1, c), c)
    <3> DEFINE a == Append(Same(k - 1, c), c)
    <3>1. a \in Seq(Int) /\ Len(a) = k /\ \A j \in 1..k : a[j] = c
      BY <2>1, AppendProperties
    <3> HIDE DEF a
    <3> QED BY <2>1, <3>1, SeqEqual DEF a
  <2>3. SumFunction(Same(k, c)) = SumFunction(Same(k - 1, c)) + c
    BY <2>1, <2>2, SumAppend
  <2>4. (k - 1) * c + c = k * c
    OBVIOUS
  <2> QED BY <1>2, <2>3, <2>4
<1>3. m \in Good
  <2> HIDE DEF Good
  <2>1. 0..m \subseteq Good
    BY <1>1, <1>2, InductionTo
  <2> QED BY <2>1
<1> QED BY <1>3
=============================================================================
