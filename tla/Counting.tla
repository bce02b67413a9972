------------------------------- MODULE Counting -------------------------------
(***************************************************************************)
(* Facts about finite sets and numbers that the proofs share: least and    *)
(* greatest elements, sorting, and sums.                                   *)
(***************************************************************************)
EXTENDS Integers, SequencesExt, FiniteSetTheorems, SequenceTheorems, TLAPS

\* A set of natural numbers that is not empty has a least element: its Min.
LEMMA MinNat ==
  ASSUME NEW S \in SUBSET Nat, S # {}
  PROVE  Min(S) \in S /\ \A y \in S : Min(S) <= y
<1> DEFINE T == {0..n : n \in S}
<1>1. T \subseteq FiniteSubsetsOf(Nat) /\ T # {}
  <2>1. \A n \in S : IsFiniteSet(0..n) /\ 0..n \subseteq Nat
    BY FS_Interval
  <2> QED
    BY <2>1 DEF FiniteSubsetsOf
<1>2. PICK i \in T : \A j \in T : <<j, i>> \notin StrictSubsetOrdering(Nat)
  BY <1>1, FS_StrictSubsetOrderingWellFounded, WFMin
<1>3. PICK x \in S : i = 0..x
  OBVIOUS
<1>4. ASSUME NEW y \in S, y < x
      PROVE  FALSE
  <2>1. <<0..y, 0..x>> \notin StrictSubsetOrdering(Nat)
    BY <1>2, <1>3
  <2>2. 0..y \subseteq 0..x /\ x \in 0..x /\ x \notin 0..y
    BY <1>4
  <2>3. <<0..y, 0..x>> \in StrictSubsetOrdering(Nat)
    BY <2>2 DEF StrictSubsetOrdering
  <2> QED
    BY <2>1, <2>3
<1>5. \A y \in S : x <= y
  BY <1>4
<1>6. \E z \in S : \A y \in S : z <= y
  BY <1>5
<1> QED
  BY <1>6 DEF Min

\* The greater of two numbers.
LEMMA MaxPair ==
  ASSUME NEW a \in Nat, NEW b \in Nat
  PROVE  /\ Max({a, b}) \in {a, b}
         /\ a <= Max({a, b}) /\ b <= Max({a, b})
<1>1. \E x \in {a, b} : \A y \in {a, b} : x >= y
  OBVIOUS
<1> QED
  BY <1>1 DEF Max

(***************************************************************************)
(* Sorting.                                                                *)
(***************************************************************************)
\* R orders the elements of S, no two of them alike.
Orders(R, S) ==
    /\ \A x \in S : <<x, x>> \notin R
    /\ \A x, y \in S : x # y => <<x, y>> \in R \/ <<y, x>> \in R
    /\ \A x, y, z \in S : <<x, y>> \in R /\ <<y, z>> \in R => <<x, z>> \in R

Below(R, S, x) == {y \in S : <<y, x>> \in R}

\* What is below another element is below in number.
LEMMA FewerBelow ==
    ASSUME NEW S, IsFiniteSet(S), NEW R, Orders(R, S), NEW x \in S, NEW y \in S, <<x, y>> \in R
    PROVE  /\ Cardinality(Below(R, S, x)) \in Nat /\ Cardinality(Below(R, S, y)) \in Nat
           /\ Cardinality(Below(R, S, x)) < Cardinality(Below(R, S, y))
<1> DEFINE A == Below(R, S, x)
           B == Below(R, S, y)
<1>1. /\ A \in SUBSET B /\ B \in SUBSET S /\ A \in SUBSET S
      /\ x \in B /\ x \notin A
  BY DEF Orders, Below
<1> HIDE DEF A, B
<1>2. IsFiniteSet(A) /\ IsFiniteSet(B)
  BY <1>1, FS_Subset
<1>3. /\ Cardinality(A) <= Cardinality(B) /\ Cardinality(A) # Cardinality(B)
  BY <1>1, <1>2, FS_Subset
<1>4. Cardinality(A) \in Nat /\ Cardinality(B) \in Nat
  BY <1>2, FS_CardinalityType
<1> QED
  BY <1>3, <1>4 DEF A, B

\* Every place in the order is taken, by one element.
LEMMA Ranked ==
    ASSUME NEW S, IsFiniteSet(S), NEW R, Orders(R, S)
    PROVE  /\ Cardinality(S) \in Nat
           /\ \A x \in S : Cardinality(Below(R, S, x)) \in 0..Cardinality(S) - 1
           /\ \A x, y \in S : Cardinality(Below(R, S, x)) = Cardinality(Below(R, S, y)) => x = y
           /\ \A i \in 1..Cardinality(S) : \E x \in S : Cardinality(Below(R, S, x)) = i - 1
<1> DEFINE n == Cardinality(S)
           T == 0..n - 1
           f == [x \in S |-> Cardinality(Below(R, S, x))]
<1>1. n \in Nat
  BY FS_CardinalityType
<1>2. ASSUME NEW x \in S PROVE Cardinality(Below(R, S, x)) \in T
  <2> DEFINE A == Below(R, S, x)
  <2>1. A \in SUBSET (S \ {x})
    BY DEF Orders, Below
  <2>2. IsFiniteSet(S \ {x}) /\ Cardinality(S \ {x}) = n - 1
    BY FS_RemoveElement
  <2> HIDE DEF A
  <2>3. IsFiniteSet(A) /\ Cardinality(A) <= n - 1
    BY <2>1, <2>2, FS_Subset
  <2>4. Cardinality(A) \in Nat
    BY <2>3, FS_CardinalityType
  <2> QED
    BY <1>1, <2>3, <2>4 DEF A
<1>3. \A x, y \in S : Cardinality(Below(R, S, x)) = Cardinality(Below(R, S, y)) => x = y
  <2> SUFFICES ASSUME NEW x \in S, NEW y \in S, x # y
               PROVE  Cardinality(Below(R, S, x)) # Cardinality(Below(R, S, y))
    OBVIOUS
  <2>1. <<x, y>> \in R \/ <<y, x>> \in R
    BY DEF Orders
  <2> QED
    BY <2>1, FewerBelow
<1>4. IsFiniteSet(T) /\ Cardinality(T) = n
  BY <1>1, FS_Interval
<1> HIDE DEF T, n
<1>5. f \in [S -> T]
  BY <1>2
<1>6. f \in Injection(S, T)
  BY <1>3, <1>5 DEF Injection, IsInjective
<1> HIDE DEF f
<1>7. f \in Surjection(S, T)
  BY <1>4, <1>6, FS_Injection DEF n
<1>8. \A t \in T : \E x \in S : f[x] = t
  BY <1>7 DEF Surjection
<1>9. \A i \in 1..n : i - 1 \in T
  BY <1>1 DEF T
<1> QED
  BY <1>1, <1>2, <1>3, <1>8, <1>9 DEF f, T, n

\* The elements of a set, each at its place, are a sequence of all of them.
LEMMA InPlace ==
    ASSUME NEW S, IsFiniteSet(S), NEW R, Orders(R, S), NEW s,
           \A i \in 1..Cardinality(S) :
              s[i] \in S /\ Cardinality(Below(R, S, s[i])) = i - 1
    PROVE  LET t == SubSeq(s, 1, Cardinality(S))
           IN  /\ t \in Seq(S) /\ Len(t) = Cardinality(S) /\ ToSet(t) = S
               /\ \A i \in 1..Len(t) : t[i] \in S
               /\ \A i, j \in 1..Len(t) : i # j => t[i] # t[j]
               /\ \A i, j \in 1..Len(t) : <<t[i], t[j]>> \in R => i < j
<1> DEFINE n == Cardinality(S)
           t == SubSeq(s, 1, n)
<1>1. n \in Nat /\ \A x \in S : Cardinality(Below(R, S, x)) \in 0..n - 1
  BY Ranked
<1> HIDE DEF n
<1>2. /\ t \in Seq(S) /\ Len(t) = IF 1 <= n THEN n - 1 + 1 ELSE 0
      /\ \A i \in 1..n - 1 + 1 : t[i] = s[1 + i - 1]
  BY <1>1, SubSeqProperties DEF n
<1>3. Len(t) = n /\ \A i \in 1..n : t[i] = s[i]
  BY <1>1, <1>2
<1> HIDE DEF t
<1>4. DOMAIN t = 1..n
  BY <1>2, <1>3, LenProperties
<1>5. \A i \in 1..n : t[i] \in S /\ Cardinality(Below(R, S, t[i])) = i - 1
  BY <1>3 DEF n
<1>6. ASSUME NEW x \in S PROVE \E i \in 1..n : t[i] = x
  <2> DEFINE i == Cardinality(Below(R, S, x)) + 1
  <2>1. Cardinality(Below(R, S, x)) \in 0..n - 1
    BY <1>1
  <2>2. i \in 1..n /\ Cardinality(Below(R, S, x)) = i - 1
    BY <1>1, <2>1
  <2>3. t[i] \in S /\ Cardinality(Below(R, S, t[i])) = i - 1
    BY <1>5, <2>2
  <2> HIDE DEF i
  <2>4. t[i] = x
    BY <2>2, <2>3, Ranked
  <2> QED
    BY <2>2, <2>4
<1>7. ToSet(t) = S
  BY <1>4, <1>5, <1>6 DEF ToSet
<1>8. \A i, j \in 1..n : i # j => t[i] # t[j]
  <2> SUFFICES ASSUME NEW i \in 1..n, NEW j \in 1..n, t[i] = t[j] PROVE i = j
    OBVIOUS
  <2>1. i - 1 = j - 1
    BY <1>5
  <2> QED
    BY <1>1, <2>1
<1>9. ASSUME NEW i \in 1..n, NEW j \in 1..n, <<t[i], t[j]>> \in R PROVE i < j
  <2>1. Cardinality(Below(R, S, t[i])) < Cardinality(Below(R, S, t[j]))
    BY <1>5, <1>9, FewerBelow
  <2>2. i - 1 < j - 1
    BY <1>5, <2>1
  <2> QED
    BY <1>1, <2>2
<1> QED
  BY <1>2, <1>3, <1>5, <1>7, <1>8, <1>9 DEF t, n

\* One element comes first.
LEMMA FirstOf ==
    ASSUME NEW S, IsFiniteSet(S), S # {}, NEW R, Orders(R, S)
    PROVE  \E x \in S : \A y \in S : <<y, x>> \notin R
<1>1. Cardinality(S) \in Nat /\ Cardinality(S) # 0
  BY FS_CardinalityType, FS_EmptySet
<1>2. PICK x \in S : Cardinality(Below(R, S, x)) = 1 - 1
  BY <1>1, Ranked
<1>3. Below(R, S, x) \in SUBSET S
  BY DEF Below
<1>4. IsFiniteSet(Below(R, S, x))
  BY <1>3, FS_Subset
<1>5. Below(R, S, x) = {}
  BY <1>2, <1>4, FS_EmptySet
<1> QED
  BY <1>5 DEF Below

(***************************************************************************)
(* Sums.                                                                   *)
(***************************************************************************)
\* Of some parts of a finite set one has no other within it.
LEMMA SmallestPart ==
    ASSUME NEW S, IsFiniteSet(S), NEW F \in SUBSET SUBSET S, F # {}
    PROVE  \E T \in F : \A U \in F : U \subseteq T => U = T
<1>1. F \subseteq FiniteSubsetsOf(S)
  BY FS_Subset DEF FiniteSubsetsOf
<1>2. PICK T \in F : \A U \in F : <<U, T>> \notin StrictSubsetOrdering(S)
  BY <1>1, FS_StrictSubsetOrderingWellFounded, WFMin
<1> QED
  BY <1>2 DEF StrictSubsetOrdering

\* h folds the values of v, from 0, in the order the elements are chosen.
IsFold(h, v, S) ==
    h = [T \in SUBSET S |-> IF T = {} THEN 0
                            ELSE LET x == CHOOSE y \in T : TRUE IN v[x] + h[T \ {x}]]

\* h sums up v over every part of its domain.
Sums(h, v, S) ==
    /\ h \in [SUBSET S -> Nat]
    /\ h[{}] = 0
    /\ \A T \in SUBSET S : \A x \in T : h[T] = v[x] + h[T \ {x}]

\* There is such a fold, made for parts of one element more at a time.
LEMMA FoldExists ==
    ASSUME NEW S, IsFiniteSet(S), NEW v \in [S -> Nat]
    PROVE  \E h \in [SUBSET S -> Nat] : IsFold(h, v, S)
<1> DEFINE c(T) == CHOOSE y \in T : TRUE
           Small(n) == {T \in SUBSET S : Cardinality(T) <= n}
           Folded(h, T) == h[T] = IF T = {} THEN 0 ELSE v[c(T)] + h[T \ {c(T)}]
           Upto(n) == \E h \in [SUBSET S -> Nat] : \A T \in Small(n) : Folded(h, T)
           N == {n \in Nat : ~Upto(n)}
<1>1. \A T \in SUBSET S : IsFiniteSet(T) /\ Cardinality(T) \in Nat
  BY FS_Subset, FS_CardinalityType
<1>2. Upto(0)
  <2> DEFINE h == [T \in SUBSET S |-> 0]
  <2>1. \A T \in Small(0) : T = {}
    BY <1>1, FS_EmptySet
  <2>2. h \in [SUBSET S -> Nat] /\ \A T \in Small(0) : Folded(h, T)
    BY <2>1
  <2> QED
    BY <2>2
<1>3. ASSUME NEW n \in Nat, Upto(n) PROVE Upto(n + 1)
  <2>1. PICK h \in [SUBSET S -> Nat] : \A T \in Small(n) : Folded(h, T)
    BY <1>3
  <2> DEFINE g == [T \in SUBSET S |-> IF Cardinality(T) <= n THEN h[T]
                                      ELSE v[c(T)] + h[T \ {c(T)}]]
  <2>2. \A T \in SUBSET S : T # {} => c(T) \in S /\ c(T) \in T
    OBVIOUS
  <2>3. \A T \in SUBSET S : ~(Cardinality(T) <= n) => T # {}
    <3>1. Cardinality({}) <= n
      BY FS_EmptySet
    <3> QED
      BY <3>1
  <2> HIDE DEF c
  <2>4. g \in [SUBSET S -> Nat]
    BY <2>2, <2>3
  <2>5. ASSUME NEW T \in Small(n + 1) PROVE Folded(g, T)
    <3>1. T = {} \/ (T # {} /\ T \ {c(T)} \in SUBSET S /\ Cardinality(T \ {c(T)}) <= n)
      BY <1>1, <2>2, FS_RemoveElement
    <3>2. T = {} => Cardinality(T) <= n
      BY FS_EmptySet
    <3>3. CASE Cardinality(T) <= n
      <4>1. g[T] = h[T] /\ Folded(h, T)
        BY <2>1, <3>3
      <4>2. T # {} => g[T \ {c(T)}] = h[T \ {c(T)}]
        BY <3>1
      <4> QED
        BY <4>1, <4>2
    <3>4. CASE ~(Cardinality(T) <= n)
      <4>1. g[T] = v[c(T)] + h[T \ {c(T)}] /\ T # {}
        BY <3>2, <3>4
      <4>2. g[T \ {c(T)}] = h[T \ {c(T)}]
        BY <3>1, <4>1
      <4> QED
        BY <4>1, <4>2
    <3> QED
      BY <3>3, <3>4
  <2> QED
    BY <2>4, <2>5
<1>4. Cardinality(S) \in Nat
  BY FS_CardinalityType
<1> HIDE DEF Upto
<1>5. N = {}
  <2> SUFFICES ASSUME N # {} PROVE FALSE
    OBVIOUS
  <2> DEFINE m == Min(N)
  <2>1. m \in N /\ \A y \in N : m <= y
    BY MinNat
  <2> HIDE DEF m
  <2>2. m # 0 /\ m \in Nat
    BY <1>2, <2>1
  <2>3. m - 1 \in Nat /\ m - 1 \notin N
    BY <2>1, <2>2
  <2>4. Upto(m - 1 + 1)
    BY <1>3, <2>3
  <2> QED
    BY <2>1, <2>2, <2>4
<1>6. Upto(Cardinality(S))
  BY <1>4, <1>5
<1>7. PICK h \in [SUBSET S -> Nat] : \A T \in Small(Cardinality(S)) : Folded(h, T)
  BY <1>6 DEF Upto
<1>8. \A T \in SUBSET S : T \in Small(Cardinality(S))
  BY FS_Subset
<1>9. IsFold(h, v, S)
  BY <1>7, <1>8 DEF IsFold
<1> QED
  BY <1>9

\* Two such folds are one.
LEMMA FoldUnique ==
    ASSUME NEW S, IsFiniteSet(S), NEW v, NEW g, NEW h, IsFold(g, v, S), IsFold(h, v, S)
    PROVE  g = h
<1> DEFINE F == {T \in SUBSET S : g[T] # h[T]}
           c(T) == CHOOSE y \in T : TRUE
<1>1. F = {}
  <2> SUFFICES ASSUME F # {} PROVE FALSE
    OBVIOUS
  <2>1. PICK T \in F : \A U \in F : U \subseteq T => U = T
    <3> HIDE DEF F
    <3>1. F \in SUBSET SUBSET S
      BY DEF F
    <3> QED
      BY <3>1, SmallestPart
  <2>2. T # {} => c(T) \in T
    OBVIOUS
  <2>3. /\ g[T] = IF T = {} THEN 0 ELSE v[c(T)] + g[T \ {c(T)}]
        /\ h[T] = IF T = {} THEN 0 ELSE v[c(T)] + h[T \ {c(T)}]
    BY DEF IsFold
  <2> HIDE DEF c
  <2>4. T # {}
    BY <2>3
  <2>5. T \ {c(T)} \notin F
    BY <2>1, <2>2, <2>4
  <2>6. g[T \ {c(T)}] = h[T \ {c(T)}]
    BY <2>5
  <2> QED
    BY <2>3, <2>6
<1>2. \A T \in SUBSET S : g[T] = h[T]
  BY <1>1
<1>3. DOMAIN g = SUBSET S /\ DOMAIN h = SUBSET S
  BY DEF IsFold
<1>4. g = [T \in SUBSET S |-> g[T]] /\ h = [T \in SUBSET S |-> h[T]]
  BY DEF IsFold
<1> QED
  BY <1>2, <1>4

\* SumFunction sums up, in whatever order.
LEMMA SumSplits ==
    ASSUME NEW S, IsFiniteSet(S), NEW v \in [S -> Nat]
    PROVE  \E h : Sums(h, v, S) /\ SumFunction(v) = h[S]
<1>1. PICK h \in [SUBSET S -> Nat] : IsFold(h, v, S)
  BY FoldExists
<1>2. SumFunction(v) = h[S]
  <2> DEFINE k == CHOOSE k : IsFold(k, v, S)
  <2>1. DOMAIN v = S
    OBVIOUS
  <2>2. SumFunction(v) = k[S]
    BY <2>1 DEF SumFunction, SumFunctionOnSet, FoldFunctionOnSet, MapThenFoldSet, IsFold
  <2>3. IsFold(k, v, S)
    BY <1>1
  <2> QED
    BY <1>1, <2>2, <2>3, FoldUnique
<1> DEFINE F == {T \in SUBSET S : \E x \in T : h[T] # v[x] + h[T \ {x}]}
           c(T) == CHOOSE y \in T : TRUE
<1>3. F = {}
  <2> SUFFICES ASSUME F # {} PROVE FALSE
    OBVIOUS
  <2>1. PICK T \in F : \A U \in F : U \subseteq T => U = T
    <3> HIDE DEF F
    <3>1. F \in SUBSET SUBSET S
      BY DEF F
    <3> QED
      BY <3>1, SmallestPart
  <2>2. PICK x \in T : h[T] # v[x] + h[T \ {x}]
    OBVIOUS
  <2>3. c(T) \in T
    OBVIOUS
  <2>4. h[T] = v[c(T)] + h[T \ {c(T)}]
    BY <1>1, <2>2 DEF IsFold
  <2> HIDE DEF c
  <2>5. x # c(T)
    BY <2>2, <2>4
  <2> DEFINE y == c(T)
             A == T \ {y}
             B == T \ {x}
             C == T \ {x, y}
  <2>6. A \notin F /\ B \notin F /\ x \in A /\ y \in B /\ A \in SUBSET S /\ B \in SUBSET S
    BY <2>1, <2>2, <2>3, <2>5
  <2>7. A \ {x} = C /\ B \ {y} = C /\ C \in SUBSET S
    OBVIOUS
  <2>8. h[A] = v[x] + h[A \ {x}] /\ h[B] = v[y] + h[B \ {y}]
    BY <2>6
  <2>9. h[T] = v[y] + (v[x] + h[C]) /\ h[B] = v[y] + h[C]
    BY <2>4, <2>7, <2>8
  <2>10. v[x] \in Nat /\ v[y] \in Nat /\ h[C] \in Nat
    BY <2>2, <2>3, <2>7
  <2>11. h[T] = v[x] + h[B]
    BY <2>9, <2>10
  <2> QED
    BY <2>2, <2>11
<1>4. h[{}] = 0
  BY <1>1 DEF IsFold
<1>5. Sums(h, v, S)
  BY <1>3, <1>4 DEF Sums
<1> QED
  BY <1>2, <1>5

\* One sum can be had from the other by the keys of what is summed up.
LEMMA SumByKey ==
    ASSUME NEW R, IsFiniteSet(R), NEW f \in [R -> Nat],
           NEW A, IsFiniteSet(A), NEW a \in [A -> Nat],
           NEW K \in [A -> R], \A x, y \in A : K[x] = K[y] => x = y,
           \A x \in A : a[x] = f[K[x]],
           \A r \in R : f[r] = 0 \/ \E x \in A : K[x] = r
    PROVE  SumFunction(a) = SumFunction(f)
<1>1. PICK g : Sums(g, a, A) /\ SumFunction(a) = g[A]
  BY SumSplits
<1>2. PICK h : Sums(h, f, R) /\ SumFunction(f) = h[R]
  BY SumSplits
<1> DEFINE Image(U) == {K[x] : x \in U}
           F == {U \in SUBSET A : g[U] # h[Image(U)]}
           E == {T \in SUBSET R : Image(A) \subseteq T /\ h[T] # h[Image(A)]}
<1>3. F = {}
  <2> SUFFICES ASSUME F # {} PROVE FALSE
    OBVIOUS
  <2>1. PICK U \in F : \A V \in F : V \subseteq U => V = U
    <3> HIDE DEF F
    <3>1. F \in SUBSET SUBSET A
      BY DEF F
    <3> QED
      BY <3>1, SmallestPart
  <2>2. U # {}
    <3>1. Image({}) = {}
      OBVIOUS
    <3> QED
      BY <1>1, <1>2, <3>1 DEF Sums
  <2>3. PICK x \in U : TRUE
    BY <2>2
  <2>4. U \ {x} \notin F /\ U \ {x} \in SUBSET A
    <3>1. U \ {x} \subseteq U /\ U \ {x} # U /\ U \ {x} \in SUBSET A
      BY <2>3
    <3> HIDE DEF F
    <3> QED
      BY <2>1, <3>1
  <2>5. Image(U) \ {K[x]} = Image(U \ {x}) /\ K[x] \in Image(U) /\ Image(U) \in SUBSET R
    OBVIOUS
  <2>6. g[U] = a[x] + g[U \ {x}]
    BY <1>1 DEF Sums
  <2>7. h[Image(U)] = f[K[x]] + h[Image(U \ {x})]
    <3>1. \A T \in SUBSET R : \A r \in T : h[T] = f[r] + h[T \ {r}]
      BY <1>2 DEF Sums
    <3> HIDE DEF Image
    <3>2. h[Image(U)] = f[K[x]] + h[Image(U) \ {K[x]}]
      BY <2>5, <3>1
    <3> QED
      BY <2>5, <3>2
  <2>8. g[U \ {x}] = h[Image(U \ {x})]
    BY <2>4
  <2>9. g[U] = h[Image(U)]
    BY <2>6, <2>7, <2>8
  <2> QED
    BY <2>9
<1>4. E = {}
  <2> SUFFICES ASSUME E # {} PROVE FALSE
    OBVIOUS
  <2>1. PICK T \in E : \A V \in E : V \subseteq T => V = T
    <3> HIDE DEF E
    <3>1. E \in SUBSET SUBSET R
      BY DEF E
    <3> QED
      BY <3>1, SmallestPart
  <2> HIDE DEF Image
  <2>2. PICK r \in T : r \notin Image(A)
    OBVIOUS
  <2>3. f[r] = 0
    BY <2>2 DEF Image
  <2>4. h[T] = f[r] + h[T \ {r}] /\ h[T \ {r}] \in Nat
    BY <1>2, <2>1 DEF Sums
  <2>5. T \ {r} \notin E /\ T \ {r} \in SUBSET R /\ Image(A) \subseteq T \ {r}
    BY <2>1, <2>2
  <2> QED
    BY <2>3, <2>4, <2>5
<1>5. Image(A) \in SUBSET R
  OBVIOUS
<1> HIDE DEF Image
<1>6. g[A] = h[Image(A)] /\ h[R] = h[Image(A)]
  BY <1>3, <1>4, <1>5
<1> QED
  BY <1>1, <1>2, <1>6

\* What the parts count, if they have nothing in common, is the whole.
LEMMA SumOfParts ==
    ASSUME NEW R, IsFiniteSet(R), NEW E, DOMAIN E = R, \A r \in R : IsFiniteSet(E[r]),
           \A r, s \in R : r # s => E[r] \intersect E[s] = {}
    PROVE  LET all == UNION {E[r] : r \in R}
           IN  /\ IsFiniteSet(all)
               /\ Cardinality(all) = SumFunction([r \in R |-> Cardinality(E[r])])
<1> DEFINE v == [r \in R |-> Cardinality(E[r])]
           All(T) == UNION {E[r] : r \in T}
<1>1. v \in [R -> Nat]
  BY FS_CardinalityType
<1>2. PICK h : Sums(h, v, R) /\ SumFunction(v) = h[R]
  BY <1>1, SumSplits
<1> DEFINE G == {T \in SUBSET R : ~(IsFiniteSet(All(T)) /\ Cardinality(All(T)) = h[T])}
<1>3. G = {}
  <2> SUFFICES ASSUME G # {} PROVE FALSE
    OBVIOUS
  <2>1. PICK T \in G : \A U \in G : U \subseteq T => U = T
    <3> HIDE DEF G
    <3>1. G \in SUBSET SUBSET R
      BY DEF G
    <3> QED
      BY <3>1, SmallestPart
  <2>2. T # {}
    <3>1. All({}) = {} /\ h[{}] = 0
      BY <1>2 DEF Sums
    <3> HIDE DEF All
    <3> QED
      BY <2>1, <3>1, FS_EmptySet
  <2>3. PICK r \in T : TRUE
    BY <2>2
  <2> DEFINE U == T \ {r}
  <2>4. All(T) = All(U) \union E[r] /\ All(U) \intersect E[r] = {}
    <3>1. r \in T /\ T \subseteq R
      BY <2>3
    <3>2. \A s \in U : E[s] \intersect E[r] = {}
      BY <3>1
    <3> QED
      BY <3>1, <3>2
  <2>5. U \notin G /\ U \in SUBSET R
    <3>1. U \subseteq T /\ U # T /\ U \in SUBSET R
      BY <2>1, <2>3
    <3> HIDE DEF G, U
    <3> QED
      BY <2>1, <3>1
  <2>6. h[T] = v[r] + h[U]
    BY <1>2, <2>1 DEF Sums
  <2>7. IsFiniteSet(All(U)) /\ Cardinality(All(U)) = h[U] /\ h[U] \in Nat
    BY <1>2, <2>5 DEF Sums
  <2>8. IsFiniteSet(E[r]) /\ v[r] = Cardinality(E[r]) /\ Cardinality(E[r]) \in Nat
    BY FS_CardinalityType
  <2> HIDE DEF All, U, v
  <2>9. /\ IsFiniteSet(All(U) \union E[r])
        /\ Cardinality(All(U) \union E[r])
              = Cardinality(All(U)) + Cardinality(E[r]) - Cardinality(All(U) \intersect E[r])
    BY <2>7, <2>8, FS_Union
  <2>10. Cardinality(All(U) \intersect E[r]) = 0
    BY <2>4, FS_EmptySet
  <2>11. Cardinality(All(U) \union E[r]) = h[U] + v[r]
    BY <2>7, <2>8, <2>9, <2>10
  <2>12. IsFiniteSet(All(T)) /\ Cardinality(All(T)) = h[T]
    BY <2>4, <2>6, <2>7, <2>8, <2>9, <2>11
  <2> QED
    BY <2>1, <2>12
<1>4. R \notin G
  BY <1>3
<1> HIDE DEF v
<1> QED
  BY <1>2, <1>4 DEF v
===============================================================================
