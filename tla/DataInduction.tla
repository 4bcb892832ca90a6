----------------------------- MODULE DataInduction -----------------------------
(***************************************************************************)
(* Induction over numbers, finite sets and sequences as facts about sets,  *)
(* so that they can be cited; that the recursive functions behind the      *)
(* folds of the community modules exist; and what sums of a function and   *)
(* flattened sequences are.                                                *)
(***************************************************************************)
EXTENDS Integers, FiniteSets, SequencesExt, FiniteSetTheorems, SequenceTheorems,
        WellFoundedInduction, TLAPS

-----------------------------------------------------------------------------
(* Induction.                                                               *)

LEMMA NatSetInduction ==
  ASSUME NEW S \in SUBSET Nat, 0 \in S, \A n \in S : n + 1 \in S
  PROVE  S = Nat
<1> DEFINE R == OpToRel(<, Nat)
<1>1. IsWellFoundedOn(R, Nat)
  BY NatLessThanWellFounded
<1>2. \A i, j \in Nat : i < j => <<i, j>> \in R
  BY DEF OpToRel
<1>3. SUFFICES ASSUME Nat \ S # {} PROVE FALSE
  OBVIOUS
<1> HIDE DEF R
<1>4. \E x \in Nat \ S : \A y \in Nat \ S : ~ (<<y, x>> \in R)
  BY <1>1, <1>3, WFMin
<1>5. PICK x \in Nat \ S : \A y \in Nat \ S : ~ (<<y, x>> \in R)
  BY <1>4
<1>6. x # 0
  OBVIOUS
<1>7. x - 1 \in Nat /\ x - 1 < x /\ (x - 1) + 1 = x
  BY <1>6
<1>8. x - 1 \in S
  BY <1>2, <1>5, <1>7
<1> QED
  BY <1>7, <1>8

LEMMA Sizes ==
  ASSUME NEW S, IsFiniteSet(S)
  PROVE  \A T \in SUBSET S :
           /\ IsFiniteSet(T) /\ Cardinality(T) \in Nat /\ Cardinality(T) <= Cardinality(S)
           /\ Cardinality(T) = 0 <=> T = {}
           /\ \A x \in T : Cardinality(T \ {x}) = Cardinality(T) - 1
<1>1. Cardinality(S) \in Nat
  BY FS_CardinalityType
<1> SUFFICES ASSUME NEW T \in SUBSET S
             PROVE  /\ IsFiniteSet(T) /\ Cardinality(T) \in Nat /\ Cardinality(T) <= Cardinality(S)
                    /\ Cardinality(T) = 0 <=> T = {}
                    /\ \A x \in T : Cardinality(T \ {x}) = Cardinality(T) - 1
  OBVIOUS
<1>2. IsFiniteSet(T) /\ Cardinality(T) <= Cardinality(S)
  BY FS_Subset
<1>3. Cardinality(T) \in Nat /\ (Cardinality(T) = 0 <=> T = {})
  BY <1>2, FS_CardinalityType, FS_EmptySet
<1>4. \A x \in T : Cardinality(T \ {x}) = Cardinality(T) - 1
  BY <1>2, FS_RemoveElement
<1> QED
  BY <1>2, <1>3, <1>4

\* Every subset of a finite set is reached from {} by adding elements.
LEMMA FiniteSubsetInduction ==
  ASSUME NEW S, IsFiniteSet(S), NEW F \in SUBSET SUBSET S,
         {} \in F, \A T \in F : \A x \in S \ T : T \union {x} \in F
  PROVE  \A T \in SUBSET S : T \in F
<1> DEFINE H(n) == \A T \in SUBSET S : Cardinality(T) = n => T \in F
<1>1. \A T \in SUBSET S : IsFiniteSet(T) /\ Cardinality(T) \in Nat
  BY FS_Subset, FS_CardinalityType
<1>2. H(0)
  BY <1>1, FS_EmptySet
<1>3. ASSUME NEW n \in Nat, H(n) PROVE H(n + 1)
  <2> SUFFICES ASSUME NEW T \in SUBSET S, Cardinality(T) = n + 1
               PROVE  T \in F
    OBVIOUS
  <2>1. T # {}
    <3>1. Cardinality({}) = 0
      BY FS_EmptySet
    <3>2. n + 1 # 0
      OBVIOUS
    <3> QED
      BY <3>1, <3>2
  <2>2. PICK x \in T : TRUE
    BY <2>1
  <2>3. Cardinality(T \ {x}) = n
    BY <1>1, <2>2, FS_RemoveElement
  <2>4. T \ {x} \in F
    BY <1>3, <2>3
  <2>5. (T \ {x}) \union {x} = T /\ x \in S \ (T \ {x})
    BY <2>2
  <2> QED
    BY <2>4, <2>5
<1>4. \A n \in Nat : H(n)
  <2> DEFINE N == {n \in Nat : H(n)}
  <2> HIDE DEF H
  <2>1. 0 \in N /\ \A n \in N : n + 1 \in N
    BY <1>2, <1>3
  <2> HIDE DEF N
  <2>2. N = Nat
    <3>1. N \in SUBSET Nat
      BY DEF N
    <3> QED
      BY <2>1, <3>1, NatSetInduction
  <2> QED
    BY <2>2 DEF N
<1> QED
  BY <1>1, <1>4

-----------------------------------------------------------------------------
(* The function that MapThenFoldSet is defined by.                          *)

\* it folds the subsets of S, element pick[T] last.
Folds(it, S, base, step, pick) ==
  \A T \in SUBSET S :
    it[T] = IF T = {} THEN base ELSE step[<<pick[T], it[T \ {pick[T]}]>>]

Picks(pick, S) == \A T \in SUBSET S : T # {} => pick[T] \in T

LEMMA FoldExists ==
  ASSUME NEW S, IsFiniteSet(S), NEW A, NEW base \in A, NEW step \in [S \X A -> A],
         NEW pick, Picks(pick, S)
  PROVE  \E it \in [SUBSET S -> A] : Folds(it, S, base, step, pick)
<1> DEFINE Small(n) == {T \in SUBSET S : Cardinality(T) <= n}
           Sol(it, n) == \A T \in Small(n) :
             it[T] = IF T = {} THEN base ELSE step[<<pick[T], it[T \ {pick[T]}]>>]
           N == {n \in Nat : \E it \in [SUBSET S -> A] : Sol(it, n)}
<1>1. \A T \in SUBSET S : IsFiniteSet(T) /\ Cardinality(T) \in Nat /\ Cardinality(T) <= Cardinality(S)
  BY FS_Subset, FS_CardinalityType
<1>2. \A T \in SUBSET S : T # {} =>
        /\ pick[T] \in S /\ T \ {pick[T]} \in SUBSET S
        /\ Cardinality(T \ {pick[T]}) = Cardinality(T) - 1
  BY <1>1, FS_RemoveElement DEF Picks
<1>3. 0 \in N
  <2>1. [T \in SUBSET S |-> base] \in [SUBSET S -> A]
    OBVIOUS
  <2>2. \A T \in Small(0) : T = {}
    BY <1>1, FS_EmptySet
  <2>3. Sol([T \in SUBSET S |-> base], 0)
    BY <2>2
  <2> QED
    BY <2>1, <2>3
<1>4. ASSUME NEW n \in N PROVE n + 1 \in N
  <2>1. PICK it \in [SUBSET S -> A] : Sol(it, n)
    BY <1>4
  <2> DEFINE new == [T \in SUBSET S |-> IF T = {} THEN base
                                        ELSE step[<<pick[T], it[T \ {pick[T]}]>>]]
  <2>2. new \in [SUBSET S -> A]
    <3>1. \A T \in SUBSET S : T # {} => <<pick[T], it[T \ {pick[T]}]>> \in S \X A
      BY <1>2
    <3> QED
      BY <3>1
  <2>3. \A T \in Small(n) : new[T] = it[T]
    BY <2>1
  <2>4. Sol(new, n + 1)
    <3> SUFFICES ASSUME NEW T \in Small(n + 1), T # {}
                 PROVE  new[T] = step[<<pick[T], new[T \ {pick[T]}]>>]
      OBVIOUS
    <3>1. T \ {pick[T]} \in Small(n)
      BY <1>1, <1>2
    <3> QED
      BY <2>3, <3>1
  <2> HIDE DEF new, Sol
  <2> QED
    BY <2>2, <2>4
<1>5. N = Nat
  <2> HIDE DEF N
  <2>1. N \in SUBSET Nat
    BY DEF N
  <2> QED
    BY <1>3, <1>4, <2>1, NatSetInduction
<1>6. Cardinality(S) \in N
  BY <1>1, <1>5
<1>7. PICK it \in [SUBSET S -> A] : Sol(it, Cardinality(S))
  BY <1>6
<1> QED
  BY <1>1, <1>7 DEF Folds

\* A family of subsets that follows from the one without the element taken last.
LEMMA PickInduction ==
  ASSUME NEW S, IsFiniteSet(S), NEW pick, Picks(pick, S)
  PROVE  \A E \in SUBSET SUBSET S :
           /\ {} \in E
           /\ \A T \in SUBSET S : T # {} /\ T \ {pick[T]} \in E => T \in E
           => E = SUBSET S
<1> SUFFICES ASSUME NEW E \in SUBSET SUBSET S PROVE
           /\ {} \in E
           /\ \A T \in SUBSET S : T # {} /\ T \ {pick[T]} \in E => T \in E
           => E = SUBSET S
  OBVIOUS
<1> DEFINE N == {n \in Nat : \A T \in SUBSET S : Cardinality(T) = n => T \in E}
<1>1. \A T \in SUBSET S : Cardinality(T) \in Nat /\ (Cardinality(T) = 0 <=> T = {})
  BY Sizes
<1>2. \A T \in SUBSET S : T # {} =>
        pick[T] \in T /\ T \ {pick[T]} \in SUBSET S /\ Cardinality(T \ {pick[T]}) = Cardinality(T) - 1
  BY Sizes DEF Picks
<1>3. HAVE /\ {} \in E
           /\ \A T \in SUBSET S : T # {} /\ T \ {pick[T]} \in E => T \in E
<1>4. 0 \in N
  BY <1>1, <1>3
<1>5. ASSUME NEW n \in N PROVE n + 1 \in N
  <2> SUFFICES ASSUME NEW T \in SUBSET S, Cardinality(T) = n + 1
               PROVE  T \in E
    OBVIOUS
  <2>1. T # {}
    BY <1>1
  <2>2. T \ {pick[T]} \in SUBSET S /\ Cardinality(T \ {pick[T]}) = n
    BY <1>2, <2>1
  <2>3. T \ {pick[T]} \in E
    BY <2>2
  <2> QED
    BY <1>3, <2>1, <2>3
<1>6. N = Nat
  <2>1. N \in SUBSET Nat /\ \A n \in N : n + 1 \in N
    BY <1>5
  <2> HIDE DEF N
  <2> QED
    BY <1>4, <2>1, NatSetInduction
<1> QED
  BY <1>1, <1>6

-----------------------------------------------------------------------------
(* The sum of a function with natural values over a finite set.             *)

\* The sums over all subsets of S, added up in the order of CHOOSE.
Sums(it, f, S) ==
  /\ \A x \in S : f[x] \in Nat
  /\ it \in [SUBSET S -> Nat]
  /\ \A T \in SUBSET S : it[T] = IF T = {} THEN 0
                                 ELSE f[CHOOSE x \in T : TRUE] + it[T \ {CHOOSE x \in T : TRUE}]

LEMMA SumsExist ==
  ASSUME NEW S, IsFiniteSet(S), NEW f, \A x \in S : f[x] \in Nat
  PROVE  \E it : Sums(it, f, S) /\ FoldFunctionOnSet(+, 0, f, S) = it[S]
<1> DEFINE rec == CHOOSE it : it = [T \in SUBSET S |->
             IF T = {} THEN 0 ELSE f[CHOOSE x \in T : TRUE] + it[T \ {CHOOSE x \in T : TRUE}]]
           pick == [T \in SUBSET S |-> CHOOSE x \in T : TRUE]
           step == [xa \in S \X Nat |-> f[xa[1]] + xa[2]]
<1>1. FoldFunctionOnSet(+, 0, f, S) = rec[S]
  BY DEF FoldFunctionOnSet, MapThenFoldSet
<1>2. Picks(pick, S)
  BY DEF Picks
<1>3. step \in [S \X Nat -> Nat]
  OBVIOUS
<1>4. PICK ut \in [SUBSET S -> Nat] : Folds(ut, S, 0, step, pick)
  <2> HIDE DEF step, pick
  <2> QED
    BY <1>2, <1>3, FoldExists
<1>5. ASSUME NEW T \in SUBSET S
      PROVE  ut[T] = IF T = {} THEN 0
                     ELSE f[CHOOSE x \in T : TRUE] + ut[T \ {CHOOSE x \in T : TRUE}]
  <2>1. CASE T = {}
    BY <1>4, <2>1 DEF Folds
  <2>2. CASE T # {}
    <3>1. pick[T] = (CHOOSE x \in T : TRUE) /\ pick[T] \in T
      BY <2>2
    <3>2. ut[T] = step[<<pick[T], ut[T \ {pick[T]}]>>]
      BY <1>4, <2>2 DEF Folds
    <3>3. <<pick[T], ut[T \ {pick[T]}]>> \in S \X Nat
      BY <3>1
    <3> HIDE DEF pick
    <3>4. step[<<pick[T], ut[T \ {pick[T]}]>>] = f[pick[T]] + ut[T \ {pick[T]}]
      BY <3>3
    <3> QED
      BY <2>2, <3>1, <3>2, <3>4
  <2> QED
    BY <2>1, <2>2
<1>6. ut = [T \in SUBSET S |->
             IF T = {} THEN 0 ELSE f[CHOOSE x \in T : TRUE] + ut[T \ {CHOOSE x \in T : TRUE}]]
  BY <1>5
<1>7. rec = [T \in SUBSET S |->
             IF T = {} THEN 0 ELSE f[CHOOSE x \in T : TRUE] + rec[T \ {CHOOSE x \in T : TRUE}]]
  BY <1>6
<1> HIDE DEF rec
<1>8. \A T \in SUBSET S : rec[T] = IF T = {} THEN 0
                     ELSE f[CHOOSE x \in T : TRUE] + rec[T \ {CHOOSE x \in T : TRUE}]
  BY <1>7
<1>9. \A T \in SUBSET S : rec[T] = ut[T]
  <2> DEFINE E == {T \in SUBSET S : rec[T] = ut[T]}
  <2>1. {} \in E
    BY <1>5, <1>8
  <2>2. ASSUME NEW T \in SUBSET S, T # {}, T \ {pick[T]} \in E
        PROVE  T \in E
    BY <1>5, <1>8, <2>2
  <2>3. \A T \in SUBSET S : T # {} /\ T \ {pick[T]} \in E => T \in E
    BY <2>2
  <2>4. E \in SUBSET SUBSET S
    OBVIOUS
  <2> HIDE DEF pick, step, E
  <2>5. E = SUBSET S
    BY <1>2, <2>1, <2>3, <2>4, PickInduction
  <2> QED
    BY <2>5 DEF E
<1>10. rec \in [SUBSET S -> Nat]
  BY <1>7, <1>9
<1> QED
  BY <1>1, <1>8, <1>10 DEF Sums

\* The order is immaterial: any element can be the last.
LEMMA SumsMember ==
  ASSUME NEW S, IsFiniteSet(S), NEW f, NEW it, Sums(it, f, S)
  PROVE  \A T \in SUBSET S : \A x \in T : it[T] = f[x] + it[T \ {x}]
<1> DEFINE H(n) == \A T \in SUBSET S : Cardinality(T) = n =>
                  \A x \in T : it[T] = f[x] + it[T \ {x}]
<1>1. \A T \in SUBSET S : IsFiniteSet(T) /\ Cardinality(T) \in Nat
  BY FS_Subset, FS_CardinalityType
<1>2. H(0)
  BY <1>1, FS_EmptySet
<1>3. ASSUME NEW n \in Nat, H(n) PROVE H(n + 1)
  <2> SUFFICES ASSUME NEW T \in SUBSET S, Cardinality(T) = n + 1, NEW x \in T
               PROVE  it[T] = f[x] + it[T \ {x}]
    OBVIOUS
  <2>1. PICK p \in T : p = CHOOSE y \in T : TRUE
    OBVIOUS
  <2>2. it[T] = f[p] + it[T \ {p}]
    BY <2>1 DEF Sums
  <2>3. CASE x = p
    BY <2>2, <2>3
  <2>4. CASE x # p
    <3>1. IsFiniteSet(T) /\ p \in T /\ x \in T
      BY <1>1, <2>1
    <3>5. Cardinality(T \ {p}) = n /\ Cardinality(T \ {x}) = n
      <4> HIDE DEF H
      <4>1. Cardinality(T \ {p}) = Cardinality(T) - 1
        BY <3>1, FS_RemoveElement
      <4>2. Cardinality(T \ {x}) = Cardinality(T) - 1
        BY <3>1, FS_RemoveElement
      <4> QED
        BY <4>1, <4>2
    <3>2. it[T \ {p}] = f[x] + it[(T \ {p}) \ {x}] /\ it[T \ {x}] = f[p] + it[(T \ {x}) \ {p}]
      BY <1>3, <2>1, <2>4, <3>5
    <3>3. (T \ {p}) \ {x} = (T \ {x}) \ {p} /\ (T \ {p}) \ {x} \in SUBSET S
      OBVIOUS
    <3>4. f[p] \in Nat /\ f[x] \in Nat /\ it[(T \ {p}) \ {x}] \in Nat
      BY <2>1, <3>3 DEF Sums
    <3> HIDE DEF H
    <3>6. it[T] = f[p] + (f[x] + it[(T \ {p}) \ {x}])
      BY <2>2, <3>2
    <3>7. it[T \ {x}] = f[p] + it[(T \ {p}) \ {x}]
      BY <3>2, <3>3
    <3> QED
      BY <3>4, <3>6, <3>7
  <2> QED
    BY <2>3, <2>4
<1>4. \A n \in Nat : H(n)
  <2> DEFINE N == {n \in Nat : H(n)}
  <2> HIDE DEF H
  <2>1. 0 \in N /\ \A n \in N : n + 1 \in N
    BY <1>2, <1>3
  <2> HIDE DEF N
  <2>2. N = Nat
    <3>1. N \in SUBSET Nat
      BY DEF N
    <3> QED
      BY <2>1, <3>1, NatSetInduction
  <2> QED
    BY <2>2 DEF N
<1> QED
  BY <1>1, <1>4

\* Sums of functions that agree.
LEMMA SumsAgree ==
  ASSUME NEW S, IsFiniteSet(S), NEW f, NEW g, NEW it, Sums(it, f, S), NEW ut, Sums(ut, g, S),
         NEW U \in SUBSET S, \A x \in U : f[x] = g[x]
  PROVE  it[U] = ut[U]
<1> DEFINE pick == [T \in SUBSET U |-> CHOOSE x \in T : TRUE]
<1>1. IsFiniteSet(U)
  BY FS_Subset
<1>2. Picks(pick, U)
  BY DEF Picks
<1> DEFINE E == {T \in SUBSET U : it[T] = ut[T]}
<1>3. {} \in E
  BY DEF Sums
<1>4. ASSUME NEW T \in SUBSET U, T # {}, T \ {pick[T]} \in E
      PROVE  T \in E
  <2>1. T \in SUBSET S /\ pick[T] = (CHOOSE x \in T : TRUE) /\ pick[T] \in U
    BY <1>4
  <2> HIDE DEF pick
  <2>2. it[T] = f[pick[T]] + it[T \ {pick[T]}] /\ ut[T] = g[pick[T]] + ut[T \ {pick[T]}]
    BY <1>4, <2>1 DEF Sums
  <2> QED
    BY <1>4, <2>1, <2>2
<1>5. \A T \in SUBSET U : T # {} /\ T \ {pick[T]} \in E => T \in E
  BY <1>4
<1>6. E \in SUBSET SUBSET U
  OBVIOUS
<1> HIDE DEF pick, E
<1>7. E = SUBSET U
  BY <1>1, <1>2, <1>3, <1>5, <1>6, PickInduction
<1> QED
  BY <1>7 DEF E

SumOf(f) == FoldFunction(+, 0, f)

LEMMA SumOfSums ==
  ASSUME NEW S, IsFiniteSet(S), NEW f \in [S -> Nat]
  PROVE  \E it : Sums(it, f, S) /\ SumOf(f) = it[S]
<1>1. DOMAIN f = S /\ \A x \in S : f[x] \in Nat
  OBVIOUS
<1>2. SumOf(f) = FoldFunctionOnSet(+, 0, f, S)
  BY <1>1 DEF SumOf, FoldFunction
<1> QED
  BY <1>1, <1>2, SumsExist

LEMMA SumType ==
  ASSUME NEW S, IsFiniteSet(S), NEW f \in [S -> Nat]
  PROVE  SumOf(f) \in Nat /\ ((\A x \in S : f[x] = 0) => SumOf(f) = 0)
<1>1. PICK it : Sums(it, f, S) /\ SumOf(f) = it[S]
  BY SumOfSums
<1>2. ASSUME \A x \in S : f[x] = 0 PROVE it[S] = 0
  <2> DEFINE pick == [T \in SUBSET S |-> CHOOSE x \in T : TRUE]
             E == {T \in SUBSET S : it[T] = 0}
  <2>1. Picks(pick, S)
    BY DEF Picks
  <2>2. {} \in E
    BY <1>1 DEF Sums
  <2>3. ASSUME NEW T \in SUBSET S, T # {}, T \ {pick[T]} \in E
        PROVE  T \in E
    <3>1. pick[T] = (CHOOSE x \in T : TRUE) /\ pick[T] \in S
      BY <2>3
    <3>2. it[T] = f[pick[T]] + it[T \ {pick[T]}]
      BY <1>1, <2>3, <3>1 DEF Sums
    <3> QED
      BY <1>2, <2>3, <3>1, <3>2
  <2>4. \A T \in SUBSET S : T # {} /\ T \ {pick[T]} \in E => T \in E
    BY <2>3
  <2>5. E \in SUBSET SUBSET S
    OBVIOUS
  <2> HIDE DEF pick, E
  <2>6. E = SUBSET S
    BY <2>1, <2>2, <2>4, <2>5, PickInduction
  <2> QED
    BY <2>6 DEF E
<1> QED
  BY <1>1, <1>2 DEF Sums

\* One value is replaced by another.
LEMMA SumsExcept ==
  ASSUME NEW S, IsFiniteSet(S), NEW f, NEW g, NEW it, Sums(it, f, S), NEW ut, Sums(ut, g, S),
         NEW x \in S, \A y \in S \ {x} : f[y] = g[y]
  PROVE  ut[S] + f[x] = it[S] + g[x]
<1>1. it[S] = f[x] + it[S \ {x}]
  BY SumsMember
<1>2. ut[S] = g[x] + ut[S \ {x}]
  BY SumsMember
<1>3. it[S \ {x}] = ut[S \ {x}]
  BY SumsAgree
<1>4. it[S \ {x}] \in Nat /\ f[x] \in Nat /\ g[x] \in Nat
  BY DEF Sums
<1> QED
  BY <1>1, <1>2, <1>3, <1>4

LEMMA SumExcept ==
  ASSUME NEW S, IsFiniteSet(S), NEW f \in [S -> Nat], NEW g \in [S -> Nat],
         NEW x \in S, \A y \in S \ {x} : f[y] = g[y]
  PROVE  SumOf(g) + f[x] = SumOf(f) + g[x]
<1>1. PICK it : Sums(it, f, S) /\ SumOf(f) = it[S]
  BY SumOfSums
<1>2. PICK ut : Sums(ut, g, S) /\ SumOf(g) = ut[S]
  BY SumOfSums
<1>3. Sums(it, f, S) /\ Sums(ut, g, S)
  BY <1>1, <1>2
<1>4. ut[S] + f[x] = it[S] + g[x]
  BY <1>3, SumsExcept
<1> QED
  BY <1>1, <1>2, <1>4

-----------------------------------------------------------------------------
(* Folds from the left, and flattened sequences.                            *)

\* The values of a left fold of n elements, and after none of them.
Path(path, n, A, base, step) ==
  /\ path \in [0..n -> A]
  /\ path[0] = base
  /\ \A k \in 1..n : path[k] = step[<<k, path[k - 1]>>]

\* A set of positions that holds 0, and the next of each of its own, holds all.
LEMMA PrefixInduction ==
  ASSUME NEW n \in Nat, NEW E, 0 \in E, \A k \in 1..n : k - 1 \in E => k \in E
  PROVE  \A k \in 0..n : k \in E
<1> DEFINE N == {k \in Nat : k <= n => k \in E}
<1>1. 0 \in N
  OBVIOUS
<1>2. ASSUME NEW k \in N PROVE k + 1 \in N
  <2>1. k \in Nat /\ k + 1 \in Nat /\ (k + 1) - 1 = k
    OBVIOUS
  <2>2. CASE k + 1 <= n
    <3>1. k + 1 \in 1..n /\ k \in E
      BY <2>1, <2>2
    <3>2. k + 1 \in E
      BY <2>1, <3>1
    <3> QED
      BY <2>1, <3>2
  <2>3. CASE ~ (k + 1 <= n)
    BY <2>1, <2>3
  <2> QED
    BY <2>2, <2>3
<1>3. N = Nat
  <2>1. N \in SUBSET Nat /\ \A k \in N : k + 1 \in N
    BY <1>2
  <2> HIDE DEF N
  <2> QED
    BY <1>1, <2>1, NatSetInduction
<1> QED
  BY <1>3

LEMMA MaxOfPrefix ==
  ASSUME NEW k \in Nat, k # 0
  PROVE  Max(1..k) = k /\ (1..k) \ {k} = 1..(k - 1)
<1>1. k \in 1..k /\ \A y \in 1..k : k >= y
  OBVIOUS
<1>2. \A x \in 1..k : (\A y \in 1..k : x >= y) => x = k
  BY <1>1
<1>3. Max(1..k) = k
  BY <1>1, <1>2 DEF Max
<1>4. (1..k) \ {k} = 1..(k - 1)
  OBVIOUS
<1> QED
  BY <1>3, <1>4

LEMMA MaxOfNumbers ==
  ASSUME NEW n \in Nat
  PROVE  \A T \in SUBSET (1..n) : T # {} => Max(T) \in T
<1> DEFINE Bounded(T, k) == \A x \in T : x <= k
           N == {k \in Nat : \A T \in SUBSET (1..n) :
                   T # {} /\ Bounded(T, k) => \E x \in T : \A y \in T : x >= y}
<1>1. \A T \in SUBSET (1..n) : \A x \in T : x \in 1..n
  OBVIOUS
<1>2. \A T \in SUBSET (1..n) : \A x \in T : x \in Nat /\ 1 <= x /\ x <= n
  BY <1>1
<1>3. 0 \in N
  <2>1. ASSUME NEW T \in SUBSET (1..n), T # {}, Bounded(T, 0) PROVE FALSE
    <3>1. PICK x \in T : TRUE
      BY <2>1
    <3>2. x \in Nat /\ 1 <= x /\ x <= 0
      BY <1>2, <2>1
    <3> QED
      BY <3>2
  <2> QED
    BY <2>1
<1>4. ASSUME NEW k \in N PROVE k + 1 \in N
  <2> SUFFICES ASSUME NEW T \in SUBSET (1..n), T # {}, Bounded(T, k + 1)
               PROVE  \E x \in T : \A y \in T : x >= y
    OBVIOUS
  <2>1. k \in Nat
    OBVIOUS
  <2>2. T # {} /\ Bounded(T, k) => \E x \in T : \A y \in T : x >= y
    OBVIOUS
  <2>3. \A x \in T : x <= k + 1
    OBVIOUS
  <2> HIDE DEF N
  <2>4. CASE k + 1 \in T
    <3>1. \A y \in T : k + 1 >= y
      BY <1>2, <2>1, <2>3
    <3> QED
      BY <2>4, <3>1
  <2>5. CASE k + 1 \notin T
    <3>1. ASSUME NEW x \in T PROVE x <= k
      <4>1. x <= k + 1 /\ x # k + 1 /\ x \in Nat
        BY <1>2, <2>3, <2>5
      <4> QED
        BY <2>1, <4>1
    <3> QED
      BY <2>2, <3>1
  <2> QED
    BY <2>4, <2>5
<1>5. n \in N
  <2>1. N \in SUBSET Nat /\ \A k \in N : k + 1 \in N
    BY <1>4
  <2> HIDE DEF N
  <2> QED
    BY <1>3, <2>1, NatSetInduction
<1> SUFFICES ASSUME NEW T \in SUBSET (1..n), T # {} PROVE Max(T) \in T
  OBVIOUS
<1>6. Bounded(T, n)
  BY <1>2
<1>7. \E x \in T : \A y \in T : x >= y
  BY <1>5, <1>6
<1> HIDE DEF N
<1> QED
  BY <1>7 DEF Max

LEMMA MaxPicks ==
  ASSUME NEW n \in Nat
  PROVE  Picks([T \in SUBSET (1..n) |-> Max(T)], 1..n) /\ IsFiniteSet(1..n)
<1>1. IsFiniteSet(1..n)
  BY FS_Interval
<1>2. \A T \in SUBSET (1..n) : T # {} => Max(T) \in T
  BY MaxOfNumbers
<1> QED
  BY <1>1, <1>2 DEF Picks

\* What FoldLeft computes: rec is the function it is defined by, and step does to
\* members of A what the folded operator does.
FoldsLeft(rec, n, A, base, step) ==
  /\ n \in Nat /\ base \in A /\ step \in [(1..n) \X A -> A]
  /\ \A T \in SUBSET (1..n) :
       /\ T = {} => rec[T] = base
       /\ T # {} /\ rec[T \ {Max(T)}] \in A => rec[T] = step[<<Max(T), rec[T \ {Max(T)}]>>]

\* The results of a fold over the first k elements, for each k.
FoldedSoFar(rec, n) == [k \in 0..n |-> rec[1..k]]

LEMMA FoldIsPath ==
  ASSUME NEW rec, NEW n, NEW A, NEW base, NEW step, FoldsLeft(rec, n, A, base, step)
  PROVE  Path(FoldedSoFar(rec, n), n, A, base, step)
<1>0. n \in Nat /\ base \in A /\ step \in [(1..n) \X A -> A]
  BY DEF FoldsLeft
<1> DEFINE path == FoldedSoFar(rec, n)
           E == {k \in 0..n : rec[1..k] \in A}
<1>1. 0 \in E /\ rec[1..0] = base
  <2>1. 1..0 = {} /\ 1..0 \in SUBSET (1..n) /\ 0 \in 0..n
    BY <1>0
  <2> QED
    BY <1>0, <2>1 DEF FoldsLeft
<1>2. ASSUME NEW k \in 1..n, rec[1..(k - 1)] \in A
      PROVE  rec[1..k] = step[<<k, rec[1..(k - 1)]>>] /\ rec[1..k] \in A
  <2>1. Max(1..k) = k /\ (1..k) \ {k} = 1..(k - 1)
    BY <1>0, MaxOfPrefix
  <2>2. 1..k \in SUBSET (1..n) /\ 1..k # {}
    BY <1>0
  <2>3. rec[1..k] = step[<<k, rec[1..(k - 1)]>>]
    BY <1>0, <1>2, <2>1, <2>2 DEF FoldsLeft
  <2> QED
    BY <1>0, <1>2, <2>3
<1>3. \A k \in 1..n : k - 1 \in E => k \in E
  <2>1. \A k \in 1..n : k \in 0..n /\ k - 1 \in 0..n
    BY <1>0
  <2>2. \A k \in 1..n : rec[1..(k - 1)] \in A => rec[1..k] \in A
    BY <1>2
  <2> QED
    BY <2>1, <2>2
<1>4. \A k \in 0..n : rec[1..k] \in A
  <2> HIDE DEF E
  <2>1. \A k \in 0..n : k \in E
    BY <1>0, <1>1, <1>3, PrefixInduction
  <2> QED
    BY <2>1 DEF E
<1>5. \A k \in 1..n : path[k] = step[<<k, path[k - 1]>>]
  <2> SUFFICES ASSUME NEW k \in 1..n PROVE path[k] = step[<<k, path[k - 1]>>]
    OBVIOUS
  <2>1. k \in 0..n /\ k - 1 \in 0..n
    BY <1>0
  <2> QED
    BY <1>2, <1>4, <2>1 DEF FoldedSoFar
<1>6. path \in [0..n -> A] /\ path[0] = base
  BY <1>0, <1>1, <1>4 DEF FoldedSoFar
<1> QED
  BY <1>5, <1>6 DEF Path

\* Two paths agree where they take the same steps.
SameSteps(p, q, n) ==
  /\ n \in Nat /\ p[0] = q[0]
  /\ \A k \in 1..n : p[k - 1] = q[k - 1] => p[k] = q[k]

LEMMA SamePath ==
  ASSUME NEW p, NEW q, NEW n, SameSteps(p, q, n)
  PROVE  \A k \in 0..n : p[k] = q[k]
<1> DEFINE E == {k \in 0..n : p[k] = q[k]}
<1>1. n \in Nat /\ 0 \in E /\ \A k \in 1..n : k - 1 \in E => k \in E
  BY DEF SameSteps
<1> HIDE DEF E
<1>2. \A k \in 0..n : k \in E
  BY <1>1, PrefixInduction
<1> QED
  BY <1>2 DEF E

LEMMA PathExists ==
  ASSUME NEW n \in Nat, NEW A, NEW base \in A, NEW step \in [(1..n) \X A -> A]
  PROVE  \E path : Path(path, n, A, base, step)
<1> DEFINE pick == [T \in SUBSET (1..n) |-> Max(T)]
<1>1. Picks(pick, 1..n) /\ IsFiniteSet(1..n)
  BY MaxPicks
<1> HIDE DEF pick
<1>2. PICK it \in [SUBSET (1..n) -> A] : Folds(it, 1..n, base, step, pick)
  BY <1>1, FoldExists
<1>3. FoldsLeft(it, n, A, base, step)
  BY <1>2 DEF Folds, FoldsLeft, pick
<1> QED
  BY <1>3, FoldIsPath

LEMMA OneMore ==
  ASSUME NEW L, NEW s \in Seq(L), NEW x \in L
  PROVE  /\ Append(s, x) \in Seq(L) /\ Append(s, x) # <<>>
         /\ \A t \in Seq(L) : t \o Append(s, x) = Append(t \o s, x)
<1>1. Append(s, x) \in Seq(L) /\ Len(Append(s, x)) = Len(s) + 1 /\ Len(s) \in Nat
  OBVIOUS
<1>2. Append(s, x) # <<>>
  BY <1>1
<1>3. ASSUME NEW t \in Seq(L) PROVE t \o Append(s, x) = Append(t \o s, x)
  <2>1. <<x>> \in Seq(L) /\ t \o s \in Seq(L)
    OBVIOUS
  <2>2. Append(s, x) = s \o <<x>> /\ Append(t \o s, x) = (t \o s) \o <<x>>
    BY <2>1, AppendIsConcat
  <2>3. t \o (s \o <<x>>) = (t \o s) \o <<x>>
    BY <2>1, ConcatAssociative
  <2> QED
    BY <2>2, <2>3
<1> QED
  BY <1>1, <1>2, <1>3

\* The prefixes of a flattened sequence of sequences.
Joined(path, bs) ==
  /\ path[0] = <<>>
  /\ \A k \in 1..Len(bs) : path[k] = path[k - 1] \o bs[k]

LEMMA FlattenIsPath ==
  ASSUME NEW L, NEW bs \in Seq(Seq(L))
  PROVE  \E path \in [0..Len(bs) -> Seq(L)] :
           Joined(path, bs) /\ FlattenSeq(bs) = path[Len(bs)]
<1> DEFINE n == Len(bs)
           step == [ks \in (1..n) \X Seq(L) |-> ks[2] \o bs[ks[1]]]
           flatten == CHOOSE fl : fl = [i \in 1..n |-> IF i = 1 THEN bs[i] ELSE fl[i - 1] \o bs[i]]
<1>1. n \in Nat /\ <<>> \in Seq(L) /\ \A k \in 1..n : bs[k] \in Seq(L)
  OBVIOUS
<1>2. step \in [(1..n) \X Seq(L) -> Seq(L)]
  OBVIOUS
<1>3. PICK path : Path(path, n, Seq(L), <<>>, step)
  <2> HIDE DEF step, n
  <2> QED
    BY <1>1, <1>2, PathExists
<1>4. path \in [0..n -> Seq(L)] /\ path[0] = <<>>
  BY <1>3 DEF Path
<1>5. \A k \in 1..n : path[k] = path[k - 1] \o bs[k]
  <2> SUFFICES ASSUME NEW k \in 1..n PROVE path[k] = path[k - 1] \o bs[k]
    OBVIOUS
  <2>1. path[k] = step[<<k, path[k - 1]>>]
    BY <1>3 DEF Path
  <2>2. k - 1 \in 0..n
    BY <1>1
  <2>3. <<k, path[k - 1]>> \in (1..n) \X Seq(L)
    BY <1>4, <2>2
  <2> QED
    BY <2>1, <2>3
<1>6. CASE n = 0
  <2>1. FlattenSeq(bs) = bs /\ bs = <<>>
    BY <1>6 DEF FlattenSeq
  <2> QED
    BY <1>4, <1>5, <1>6, <2>1 DEF Joined
<1>7. CASE n # 0
  <2>1. FlattenSeq(bs) = flatten[n]
    BY <1>7 DEF FlattenSeq
  <2> DEFINE fl == [i \in 1..n |-> path[i]]
  <2> HIDE DEF n, step
  <2>9. path[1] = bs[1]
    <3>1. 1 \in 1..n /\ 1 - 1 = 0
      BY <1>1, <1>7
    <3>2. path[1] = path[0] \o bs[1] /\ bs[1] \in Seq(L)
      BY <1>1, <1>5, <3>1
    <3>3. \A x \in Seq(L) : <<>> \o x = x
      OBVIOUS
    <3> QED
      BY <1>4, <3>2, <3>3
  <2>2. ASSUME NEW i \in 1..n
        PROVE  path[i] = IF i = 1 THEN bs[i] ELSE fl[i - 1] \o bs[i]
    <3>1. CASE i = 1
      BY <2>9, <3>1
    <3>2. CASE i # 1
      <4>1. i - 1 \in 1..n
        BY <1>1, <3>2
      <4> QED
        BY <1>5, <3>2, <4>1
    <3> QED
      BY <3>1, <3>2
  <2>3. fl = [i \in 1..n |-> IF i = 1 THEN bs[i] ELSE fl[i - 1] \o bs[i]]
    BY <2>2
  <2> HIDE DEF fl
  <2>4. flatten = [i \in 1..n |-> IF i = 1 THEN bs[i] ELSE flatten[i - 1] \o bs[i]]
    BY <2>3
  <2> HIDE DEF flatten
  <2> DEFINE q == [k \in 0..n |-> IF k = 0 THEN <<>> ELSE flatten[k]]
  <2>5. path[0] = q[0]
    BY <1>1, <1>4
  <2>6. ASSUME NEW k \in 1..n, path[k - 1] = q[k - 1] PROVE path[k] = q[k]
    <3>1. k \in 0..n /\ k # 0 /\ q[k] = flatten[k]
      BY <1>1
    <3>2. CASE k = 1
      <4>1. flatten[k] = bs[k]
        BY <2>4, <3>2
      <4> QED
        BY <2>9, <3>1, <3>2, <4>1
    <3>3. CASE k # 1
      <4>1. k - 1 \in 1..n /\ k - 1 \in 0..n /\ k - 1 # 0
        BY <1>1, <3>3
      <4>2. flatten[k] = flatten[k - 1] \o bs[k]
        BY <2>4, <3>3
      <4>3. q[k - 1] = flatten[k - 1]
        BY <4>1
      <4> QED
        BY <1>5, <2>6, <3>1, <4>2, <4>3
    <3> QED
      BY <3>2, <3>3
  <2>7. \A k \in 0..n : path[k] = q[k]
    <3>1. \A k \in 1..n : path[k - 1] = q[k - 1] => path[k] = q[k]
      BY <2>6
    <3> HIDE DEF q
    <3>2. SameSteps(path, q, n)
      BY <1>1, <2>5, <3>1 DEF SameSteps
    <3> QED
      BY <3>2, SamePath
  <2>8. path[n] = flatten[n]
    BY <1>1, <1>7, <2>7
  <2> QED
    BY <1>4, <1>5, <2>1, <2>8 DEF Joined, n
<1> QED
  BY <1>6, <1>7

LEMMA FlattenAppend ==
  ASSUME NEW L, NEW bs \in Seq(Seq(L)), NEW b \in Seq(L)
  PROVE  /\ FlattenSeq(<<>>) = <<>>
         /\ FlattenSeq(bs) \in Seq(L)
         /\ FlattenSeq(Append(bs, b)) = FlattenSeq(bs) \o b
<1> DEFINE n == Len(bs)
           cs == Append(bs, b)
<1>1. FlattenSeq(<<>>) = <<>>
  BY DEF FlattenSeq
<1>2. /\ n \in Nat /\ cs \in Seq(Seq(L)) /\ Len(cs) = n + 1
      /\ cs[n + 1] = b /\ \A k \in 1..n : cs[k] = bs[k]
  OBVIOUS
<1>3. PICK p \in [0..n -> Seq(L)] : Joined(p, bs) /\ FlattenSeq(bs) = p[n]
  BY FlattenIsPath
<1> HIDE DEF cs
<1>4. PICK q \in [0..Len(cs) -> Seq(L)] : Joined(q, cs) /\ FlattenSeq(cs) = q[Len(cs)]
  BY <1>2, FlattenIsPath
<1> HIDE DEF n
<1>5. p[0] = q[0]
  BY <1>3, <1>4 DEF Joined
<1>6. \A k \in 1..n : p[k - 1] = q[k - 1] => p[k] = q[k]
  <2> SUFFICES ASSUME NEW k \in 1..n, p[k - 1] = q[k - 1] PROVE p[k] = q[k]
    OBVIOUS
  <2>1. k \in 1..Len(cs) /\ cs[k] = bs[k]
    BY <1>2
  <2> QED
    BY <1>3, <1>4, <2>1 DEF Joined, n
<1>7. \A k \in 0..n : p[k] = q[k]
  <2>1. SameSteps(p, q, n)
    BY <1>2, <1>5, <1>6 DEF SameSteps
  <2> QED
    BY <2>1, SamePath
<1>8. q[n + 1] = q[n] \o b
  <2>1. n + 1 \in 1..Len(cs) /\ (n + 1) - 1 = n
    BY <1>2
  <2> QED
    BY <1>2, <1>4, <2>1 DEF Joined
<1>9. FlattenSeq(cs) = FlattenSeq(bs) \o b /\ FlattenSeq(bs) \in Seq(L)
  <2>1. n \in 0..n
    BY <1>2
  <2>2. p[n] = q[n] /\ p[n] \in Seq(L)
    BY <1>7, <2>1
  <2> QED
    BY <1>2, <1>3, <1>4, <1>8, <2>2
<1> QED
  BY <1>1, <1>9 DEF cs

\* Flattening neither loses nor adds anything.
LEMMA FlattenRange ==
  ASSUME NEW L, NEW bs \in Seq(Seq(L))
  PROVE  Range(FlattenSeq(bs)) = UNION {Range(bs[i]) : i \in 1..Len(bs)}
<1> DEFINE n == Len(bs)
           To(k) == UNION {Range(bs[i]) : i \in 1..k}
<1>1. n \in Nat /\ \A k \in 1..n : bs[k] \in Seq(L)
  OBVIOUS
<1>2. PICK p \in [0..n -> Seq(L)] : Joined(p, bs) /\ FlattenSeq(bs) = p[n]
  BY FlattenIsPath
<1> DEFINE E == {k \in 0..n : Range(p[k]) = To(k)}
<1>3. 0 \in E
  <2>1. p[0] = <<>> /\ 0 \in 0..n
    BY <1>1, <1>2 DEF Joined
  <2>2. Range(<<>>) = {}
    BY DEF Range
  <2>3. To(0) = {}
    OBVIOUS
  <2> QED
    BY <2>1, <2>2, <2>3
<1>4. ASSUME NEW k \in 1..n, k - 1 \in E PROVE k \in E
  <2>1. k \in 0..n /\ k - 1 \in 0..n
    BY <1>1
  <2>2. p[k] = p[k - 1] \o bs[k]
    BY <1>2 DEF Joined
  <2>3. p[k - 1] \in Seq(L) /\ bs[k] \in Seq(L)
    BY <1>1, <2>1
  <2>4. Range(p[k]) = Range(p[k - 1]) \union Range(bs[k])
    BY <2>2, <2>3, RangeConcatenation
  <2>5. 1..k = (1..(k - 1)) \union {k}
    OBVIOUS
  <2>6. To(k) = To(k - 1) \union Range(bs[k])
    BY <2>5
  <2>7. Range(p[k - 1]) = To(k - 1)
    BY <1>4
  <2> HIDE DEF To
  <2>8. Range(p[k]) = To(k)
    BY <2>4, <2>6, <2>7
  <2> QED
    BY <2>1, <2>8
<1>5. \A k \in 0..n : k \in E
  <2> HIDE DEF E, n
  <2> QED
    BY <1>1, <1>3, <1>4, PrefixInduction
<1>6. Range(p[n]) = To(n)
  BY <1>1, <1>5
<1> QED
  BY <1>2, <1>6
===============================================================================
