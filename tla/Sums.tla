-------------------------------- MODULE Sums --------------------------------
(***************************************************************************)
(* The laws of Money's SumOver over a finite set.  The sum is defined by   *)
(* taking one element of the set away after another; the laws say that the *)
(* order does not matter, and are what the proofs of the components cite.  *)
(* At the end, what AllocateMoney's split gives each of its parts.         *)
(***************************************************************************)
EXTENDS Money, FiniteSetTheorems, WellFoundedInduction, TLAPS

(* Induction over the natural numbers, the property given as a set.        *)
LEMMA NatsByInduction ==
  ASSUME NEW N, 0 \in N, \A n \in Nat : n \in N => n + 1 \in N
  PROVE  Nat \subseteq N
<1> DEFINE M == Nat \ N
           below == {ss \in Nat \X Nat : ss[1] < ss[2]}
<1>1. SUFFICES ASSUME M # {}  PROVE FALSE
  OBVIOUS
<1>2. IsWellFoundedOn(below, Nat)
  BY NatLessThanWellFounded DEF OpToRel
<1>3. PICK m \in M : \A k \in M : ~ (<<k, m>> \in below)
  <2> M \subseteq Nat
    OBVIOUS
  <2> HIDE DEF M, below
  <2> QED  BY <1>1, <1>2, WFMin
<1>4. m # 0 /\ m - 1 \in Nat
  OBVIOUS
<1>5. m - 1 \in M
  BY <1>4
<1>6. <<m - 1, m>> \in below
  BY <1>4
<1> QED  BY <1>3, <1>5, <1>6

(* Induction over the subsets of a finite set, on their size. *)
LEMMA SubsetInduction ==
  ASSUME NEW S, IsFiniteSet(S), NEW X, {} \in X,
         \A T \in SUBSET S : T # {} /\ (\A x \in T : T \ {x} \in X) => T \in X
  PROVE  \A T \in SUBSET S : T \in X
<1> DEFINE N == {n \in Nat : \A T \in SUBSET S : Cardinality(T) = n => T \in X}
<1>1. \A T \in SUBSET S : IsFiniteSet(T) /\ Cardinality(T) \in Nat
  BY FS_Subset, FS_CardinalityType
<1>2. 0 \in N
  BY <1>1, FS_EmptySet
<1>3. ASSUME NEW n \in Nat, n \in N  PROVE  n + 1 \in N
  <2>1. SUFFICES ASSUME NEW T \in SUBSET S, Cardinality(T) = n + 1 PROVE T \in X
    OBVIOUS
  <2>2. T # {}
    <3>1. SUFFICES ASSUME T = {} PROVE FALSE
      OBVIOUS
    <3> QED  BY <2>1, <3>1, FS_EmptySet
  <2>3. \A x \in T : T \ {x} \in SUBSET S /\ Cardinality(T \ {x}) = n
    BY <1>1, <2>1, FS_RemoveElement
  <2> QED  BY <1>3, <2>2, <2>3
<1>4. Nat \subseteq N
  <2> HIDE DEF N
  <2> QED  BY <1>2, <1>3, NatsByInduction
<1> QED  BY <1>1, <1>4

-----------------------------------------------------------------------------
(* The element that is taken away first. *)
Pick(T) == CHOOSE x \in T : TRUE

(* g is the sum of f over every set of D. *)
IsSum(f, g, D) == g = [T \in D |-> IF T = {} THEN 0 ELSE f[Pick(T)] + g[T \ {Pick(T)}]]

(* The sets of at most n elements. *)
Up(S, n) == {T \in SUBSET S : Cardinality(T) <= n}

(* There is such a function: one for the sets of at most n elements gives  *)
(* one for those of n + 1.                                                 *)
LEMMA SumExists ==
  ASSUME NEW f, NEW S, IsFiniteSet(S)
  PROVE  \E g : IsSum(f, g, SUBSET S)
<1> DEFINE N == {n \in Nat : \E g : IsSum(f, g, Up(S, n))}
<1>0. \A T \in SUBSET S : IsFiniteSet(T) /\ Cardinality(T) \in Nat /\ Cardinality(T) <= Cardinality(S)
  BY FS_Subset, FS_CardinalityType
<1>1. 0 \in N
  <2>1. Up(S, 0) = {{}}
    BY <1>0, FS_EmptySet DEF Up
  <2>2. IsSum(f, [T \in {{}} |-> 0], {{}})
    BY DEF IsSum
  <2> QED BY <2>1, <2>2
<1>2. ASSUME NEW n \in Nat, n \in N PROVE n + 1 \in N
  <2>1. PICK g : IsSum(f, g, Up(S, n))
    BY <1>2
  <2> DEFINE h == [T \in Up(S, n + 1) |-> IF T = {} THEN 0 ELSE f[Pick(T)] + g[T \ {Pick(T)}]]
  <2>0. Up(S, n) \subseteq Up(S, n + 1)
    BY <1>0 DEF Up
  <2>2. \A T \in Up(S, n) : h[T] = g[T]
    BY <2>1, <2>0 DEF IsSum
  <2>3. \A T \in Up(S, n + 1) : T # {} => T \ {Pick(T)} \in Up(S, n)
    <3>1. SUFFICES ASSUME NEW T \in Up(S, n + 1), T # {} PROVE T \ {Pick(T)} \in Up(S, n)
      OBVIOUS
    <3>2. Pick(T) \in T
      BY <3>1 DEF Pick
    <3> QED BY <1>0, <3>1, <3>2, FS_RemoveElement DEF Up
  <2>4. IsSum(f, h, Up(S, n + 1))
    BY <2>2, <2>3 DEF IsSum
  <2> QED BY <2>4
<1>3. Cardinality(S) \in N
  <2> HIDE DEF N
  <2>1. Nat \subseteq N
    BY <1>1, <1>2, NatsByInduction
  <2> QED  BY <1>0, <2>1
<1>4. Up(S, Cardinality(S)) = SUBSET S
  BY <1>0 DEF Up
<1> QED BY <1>3, <1>4

(* So SumOver is the value of one of them. *)
LEMMA SumIter ==
  ASSUME NEW f, NEW S, IsFiniteSet(S)
  PROVE  \E g : IsSum(f, g, SUBSET S) /\ SumOver(f, S) = g[S]
<1>1. SumOver(f, S) = (CHOOSE g : IsSum(f, g, SUBSET S))[S]
  BY DEF SumOver, MapThenSumSet, MapThenFoldSet, IsSum, Pick
<1> QED BY <1>1, SumExists

(* Two such functions agree where the amounts do. *)
LEMMA SumUnique ==
  ASSUME NEW f, NEW f2, NEW D, NEW D2, NEW g, NEW g2, NEW S, IsFiniteSet(S),
         IsSum(f, g, SUBSET D), IsSum(f2, g2, SUBSET D2), S \subseteq D, S \subseteq D2,
         \A x \in S : f[x] = f2[x]
  PROVE  g[S] = g2[S]
<1> DEFINE X == {T \in SUBSET S : g[T] = g2[T]}
<1>1. {} \in X
  BY DEF IsSum
<1>2. ASSUME NEW T \in SUBSET S, T # {}, \A x \in T : T \ {x} \in X
      PROVE  T \in X
  <2>1. Pick(T) \in T
    BY <1>2 DEF Pick
  <2>2. g[T] = f[Pick(T)] + g[T \ {Pick(T)}]
    BY <1>2 DEF IsSum
  <2>3. g2[T] = f2[Pick(T)] + g2[T \ {Pick(T)}]
    BY <1>2 DEF IsSum
  <2> QED  BY <1>2, <2>1, <2>2, <2>3
<1>3. S \in X
  <2> HIDE DEF X
  <2>1. \A T \in SUBSET S : T # {} /\ (\A x \in T : T \ {x} \in X) => T \in X
    BY <1>2
  <2>2. \A T \in SUBSET S : T \in X
    BY <1>1, <2>1, SubsetInduction
  <2> QED  BY <2>2
<1> QED  BY <1>3 DEF X

(* Nothing sums to zero. *)
THEOREM SumEmpty == \A f : SumOver(f, {}) = 0
<1>1. SUFFICES ASSUME NEW f PROVE SumOver(f, {}) = 0
  OBVIOUS
<1>2. PICK g : IsSum(f, g, SUBSET {}) /\ SumOver(f, {}) = g[{}]
  BY SumIter, FS_EmptySet
<1> QED  BY <1>2 DEF IsSum

(* A sum depends on the amounts of the set alone. *)
THEOREM SumCong ==
  ASSUME NEW S, IsFiniteSet(S), NEW f, NEW g, \A x \in S : f[x] = g[x]
  PROVE  SumOver(f, S) = SumOver(g, S)
<1>1. PICK h : IsSum(f, h, SUBSET S) /\ SumOver(f, S) = h[S]
  BY SumIter
<1>2. PICK k : IsSum(g, k, SUBSET S) /\ SumOver(g, S) = k[S]
  BY SumIter
<1> QED  BY <1>1, <1>2, SumUnique

(* The definition, one step of it. *)
LEMMA SumPick ==
  ASSUME NEW S, IsFiniteSet(S), S # {}, NEW f
  PROVE  SumOver(f, S) = f[Pick(S)] + SumOver(f, S \ {Pick(S)})
<1>1. PICK g : IsSum(f, g, SUBSET S) /\ SumOver(f, S) = g[S]
  BY SumIter
<1>2. g[S] = f[Pick(S)] + g[S \ {Pick(S)}]
  BY <1>1 DEF IsSum
<1> DEFINE R == S \ {Pick(S)}
<1>3. IsFiniteSet(R) /\ R \subseteq S
  BY FS_RemoveElement
<1>4. SumOver(f, R) = g[R]
  <2> HIDE DEF R
  <2>1. PICK h : IsSum(f, h, SUBSET R) /\ SumOver(f, R) = h[R]
    BY <1>3, SumIter
  <2>2. R \subseteq R /\ \A x \in R : f[x] = f[x]
    OBVIOUS
  <2>3. h[R] = g[R]
    BY <1>1, <1>3, <2>1, <2>2, SumUnique, SMTT(30)
  <2> QED  BY <2>1, <2>3
<1> QED  BY <1>1, <1>2, <1>4

(* A sum of integers is an integer, one of naturals a natural. *)
LEMMA SumType ==
  ASSUME NEW S, IsFiniteSet(S), NEW f, NEW V \in {Nat, Int}, \A x \in S : f[x] \in V
  PROVE  SumOver(f, S) \in V
<1> DEFINE X == {T \in SUBSET S : SumOver(f, T) \in V}
<1>1. {} \in X
  BY SumEmpty
<1>2. \A T \in SUBSET S : T # {} /\ (\A x \in T : T \ {x} \in X) => T \in X
  <2>1. SUFFICES ASSUME NEW T \in SUBSET S, T # {}, \A x \in T : T \ {x} \in X
                 PROVE  SumOver(f, T) \in V
    OBVIOUS
  <2>2. Pick(T) \in T
    BY <2>1 DEF Pick
  <2>3. SumOver(f, T) = f[Pick(T)] + SumOver(f, T \ {Pick(T)})
    BY <2>1, FS_Subset, SumPick
  <2>4. SumOver(f, T \ {Pick(T)}) \in V /\ f[Pick(T)] \in V
    BY <2>1, <2>2
  <2> QED  BY <2>3, <2>4
<1>3. \A T \in SUBSET S : T \in X
  <2> HIDE DEF X
  <2> QED  BY <1>1, <1>2, SubsetInduction
<1> QED  BY <1>3

(* Taking one element away takes its amount away, whichever it is. *)
THEOREM SumRemove ==
  ASSUME NEW S, IsFiniteSet(S), NEW f, \A x \in S : f[x] \in Int
  PROVE  \A x \in S : SumOver(f, S) = f[x] + SumOver(f, S \ {x})
<1> DEFINE Law(T) == \A x \in T : SumOver(f, T) = f[x] + SumOver(f, T \ {x})
           X == {T \in SUBSET S : Law(T)}
<1>0. \A T \in SUBSET S : SumOver(f, T) \in Int
  BY FS_Subset, SumType, Int \in {Nat, Int}
<1>1. {} \in X
  OBVIOUS
<1>2. \A T \in SUBSET S : T # {} /\ (\A x \in T : T \ {x} \in X) => T \in X
  <2>1. SUFFICES ASSUME NEW T \in SUBSET S, T # {}, \A x \in T : T \ {x} \in X,
                        NEW x \in T
                 PROVE  SumOver(f, T) = f[x] + SumOver(f, T \ {x})
    OBVIOUS
  <2>2. PICK c \in T : SumOver(f, T) = f[c] + SumOver(f, T \ {c})
    <3>1. Pick(T) \in T
      BY <2>1 DEF Pick
    <3> QED  BY <2>1, <3>1, FS_Subset, SumPick
  <2>3. CASE x = c
    BY <2>2, <2>3
  <2>4. CASE x # c
    <3> DEFINE R == T \ {x, c}
    <3>1. (T \ {c}) \ {x} = R /\ (T \ {x}) \ {c} = R /\ R \in SUBSET S
      OBVIOUS
    <3>2. SumOver(f, T \ {c}) = f[x] + SumOver(f, R)
      BY <2>1, <2>4, <3>1
    <3>3. SumOver(f, T \ {x}) = f[c] + SumOver(f, R)
      BY <2>1, <2>4, <3>1
    <3>4. SumOver(f, R) \in Int /\ f[c] \in Int /\ f[x] \in Int
      BY <1>0, <3>1
    <3> HIDE DEF R
    <3> QED  BY <2>2, <3>2, <3>3, <3>4
  <2> QED  BY <2>3, <2>4
<1>3. \A T \in SUBSET S : T \in X
  <2> HIDE DEF X
  <2> QED  BY <1>1, <1>2, SubsetInduction
<1> QED  BY <1>3

(* No amount is above the sum. *)
THEOREM SumNat ==
  ASSUME NEW S, IsFiniteSet(S), NEW f, \A x \in S : f[x] \in Nat
  PROVE  /\ SumOver(f, S) \in Nat
         /\ \A x \in S : f[x] <= SumOver(f, S)
<1>1. \A T \in SUBSET S : SumOver(f, T) \in Nat
  BY FS_Subset, SumType, Nat \in {Nat, Int}
<1>2. \A x \in S : SumOver(f, S) = f[x] + SumOver(f, S \ {x})
  BY SumRemove
<1>3. SumOver(f, S) \in Nat /\ \A x \in S : SumOver(f, S \ {x}) \in Nat
  BY <1>1, S \in SUBSET S, \A x \in S : S \ {x} \in SUBSET S
<1>4. SUFFICES ASSUME NEW x \in S  PROVE f[x] <= SumOver(f, S)
  BY <1>3
<1>5. SumOver(f, S) = f[x] + SumOver(f, S \ {x})
  BY <1>2
<1>6. SumOver(f, S \ {x}) \in Nat /\ f[x] \in Nat
  BY <1>3
<1> QED  BY <1>5, <1>6

(* A larger set of amounts, and larger amounts, have the larger sum. *)
THEOREM SumMonotone ==
  ASSUME NEW S, IsFiniteSet(S), NEW A \in SUBSET S, NEW f, NEW g,
         \A x \in S : f[x] \in Nat, \A x \in A : g[x] \in Nat /\ g[x] <= f[x]
  PROVE  SumOver(g, A) <= SumOver(f, S)
<1> DEFINE X == {T \in SUBSET S : SumOver(g, T \cap A) <= SumOver(f, T)}
<1>0. \A T \in SUBSET S : /\ IsFiniteSet(T) /\ IsFiniteSet(T \cap A)
                          /\ SumOver(f, T) \in Nat /\ SumOver(g, T \cap A) \in Nat
  <2>1. \A T \in SUBSET S : IsFiniteSet(T)
    BY FS_Subset
  <2>2. \A T \in SUBSET S : SumOver(f, T) \in Nat
    BY <2>1, SumNat
  <2>3. \A T \in SUBSET A : SumOver(g, T) \in Nat
    BY <2>1, SumNat
  <2> QED  BY <2>1, <2>2, <2>3
<1>1. {} \in X
  <2>1. {} \cap A = {}
    OBVIOUS
  <2> QED BY <2>1, SumEmpty
<1>2. \A T \in SUBSET S : T # {} /\ (\A x \in T : T \ {x} \in X) => T \in X
  <2>1. SUFFICES ASSUME NEW T \in SUBSET S, T # {}, \A x \in T : T \ {x} \in X
                 PROVE  SumOver(g, T \cap A) <= SumOver(f, T)
    OBVIOUS
  <2>2. PICK x : x \in T
    BY <2>1
  <2>3. SumOver(f, T) = f[x] + SumOver(f, T \ {x})
    BY <1>0, <2>2, SumRemove, \A y \in T : f[y] \in Int
  <2>4. SumOver(g, (T \ {x}) \cap A) <= SumOver(f, T \ {x}) /\ f[x] \in Nat
    BY <2>1, <2>2
  <2>5. CASE x \in A
    <3>1. (T \cap A) \ {x} = (T \ {x}) \cap A /\ x \in T \cap A
      BY <2>2, <2>5
    <3>2. SumOver(g, T \cap A) = g[x] + SumOver(g, (T \ {x}) \cap A)
      <4>1. IsFiniteSet(T \cap A) /\ \A y \in T \cap A : g[y] \in Int
        BY <1>0
      <4> QED  BY <3>1, <4>1, SumRemove
    <3>3. SumOver(g, (T \ {x}) \cap A) \in Nat /\ SumOver(f, T \ {x}) \in Nat
          /\ g[x] \in Nat /\ g[x] <= f[x]
      BY <1>0, <2>5
    <3> QED  BY <2>3, <2>4, <3>2, <3>3
  <2>6. CASE x \notin A
    <3>1. T \cap A = (T \ {x}) \cap A
      BY <2>6
    <3>2. SumOver(g, T \cap A) \in Nat /\ SumOver(f, T \ {x}) \in Nat
      BY <1>0
    <3>3. SumOver(g, T \cap A) <= SumOver(f, T \ {x})
      BY <2>4, <3>1
    <3> QED  BY <2>3, <2>4, <3>2, <3>3
  <2> QED  BY <2>5, <2>6
<1>3. S \in X
  <2>1. \A T \in SUBSET S : T \in X
    <3> HIDE DEF X
    <3> QED  BY <1>1, <1>2, SubsetInduction
  <2> QED  BY <2>1
<1>4. S \cap A = A
  OBVIOUS
<1> QED  BY <1>3, <1>4

(* The amounts of two disjoint sets add up. *)
THEOREM SumDisjoint ==
  ASSUME NEW S, IsFiniteSet(S), NEW A \in SUBSET S, NEW f, \A x \in S : f[x] \in Int
  PROVE  SumOver(f, S) = SumOver(f, A) + SumOver(f, S \ A)
<1> DEFINE X == {T \in SUBSET S : SumOver(f, T) = SumOver(f, T \cap A) + SumOver(f, T \ A)}
<1>0. \A T \in SUBSET S : IsFiniteSet(T) /\ SumOver(f, T) \in Int
  BY FS_Subset, SumType, Int \in {Nat, Int}
<1>1. {} \in X
  <2>1. {} \cap A = {} /\ {} \ A = {}
    OBVIOUS
  <2> QED  BY <2>1, SumEmpty
<1>2. \A T \in SUBSET S : T # {} /\ (\A x \in T : T \ {x} \in X) => T \in X
  <2>1. SUFFICES ASSUME NEW T \in SUBSET S, T # {}, \A x \in T : T \ {x} \in X
                 PROVE  SumOver(f, T) = SumOver(f, T \cap A) + SumOver(f, T \ A)
    OBVIOUS
  <2>2. PICK x : x \in T
    BY <2>1
  <2> DEFINE R == T \ {x}
  <2>3. SumOver(f, T) = f[x] + SumOver(f, R)
    BY <1>0, <2>2, SumRemove
  <2>4. SumOver(f, R) = SumOver(f, R \cap A) + SumOver(f, R \ A)
    BY <2>1, <2>2
  <2>5. /\ f[x] \in Int /\ SumOver(f, R \cap A) \in Int /\ SumOver(f, R \ A) \in Int
    BY <1>0, <2>2
  <2>6. CASE x \in A
    <3>1. R \cap A = (T \cap A) \ {x} /\ R \ A = T \ A /\ x \in T \cap A /\ T \cap A \in SUBSET S
      BY <2>2, <2>6
    <3>3. SumOver(f, R \ A) = SumOver(f, T \ A)
      BY <3>1
    <3>2. SumOver(f, T \cap A) = f[x] + SumOver(f, R \cap A)
      BY <1>0, <3>1, SumRemove
    <3> HIDE DEF R
    <3> QED  BY <2>3, <2>4, <2>5, <3>2, <3>3
  <2>7. CASE x \notin A
    <3>1. R \cap A = T \cap A /\ R \ A = (T \ A) \ {x} /\ x \in T \ A /\ T \ A \in SUBSET S
      BY <2>2, <2>7
    <3>3. SumOver(f, R \cap A) = SumOver(f, T \cap A)
      BY <3>1
    <3>2. SumOver(f, T \ A) = f[x] + SumOver(f, R \ A)
      BY <1>0, <3>1, SumRemove
    <3> HIDE DEF R
    <3> QED  BY <2>3, <2>4, <2>5, <3>2, <3>3
  <2> QED  BY <2>6, <2>7
<1>3. S \in X
  <2>1. \A T \in SUBSET S : T \in X
    <3> HIDE DEF X
    <3> QED  BY <1>1, <1>2, SubsetInduction
  <2> QED  BY <2>1
<1>4. S \cap A = A
  OBVIOUS
<1> QED  BY <1>3, <1>4

(* The sum over one. *)
LEMMA SumOne ==
  ASSUME NEW f, NEW x, f[x] \in Int
  PROVE  SumOver(f, {x}) = f[x]
<1>1. IsFiniteSet({x})
  BY FS_Singleton
<1>2. SumOver(f, {x}) = f[x] + SumOver(f, {x} \ {x})
  BY <1>1, SumRemove
<1>3. {x} \ {x} = {}
  OBVIOUS
<1> QED  BY <1>2, <1>3, SumEmpty

(* Amounts that are all multiplied have the multiple of the sum. *)
THEOREM SumScale ==
  ASSUME NEW S, IsFiniteSet(S), NEW k \in Int, NEW f, NEW g,
         \A x \in S : f[x] \in Int /\ g[x] = k * f[x]
  PROVE  SumOver(g, S) = k * SumOver(f, S)
<1> DEFINE X == {T \in SUBSET S : SumOver(g, T) = k * SumOver(f, T)}
<1>0. \A T \in SUBSET S : IsFiniteSet(T) /\ SumOver(f, T) \in Int
  BY FS_Subset, SumType, Int \in {Nat, Int}
<1>1. {} \in X
  BY SumEmpty
<1>2. \A T \in SUBSET S : T # {} /\ (\A x \in T : T \ {x} \in X) => T \in X
  <2>1. SUFFICES ASSUME NEW T \in SUBSET S, T # {}, \A x \in T : T \ {x} \in X
                 PROVE  SumOver(g, T) = k * SumOver(f, T)
    OBVIOUS
  <2>2. PICK x : x \in T
    BY <2>1
  <2> DEFINE R == T \ {x}
  <2>3. SumOver(f, T) = f[x] + SumOver(f, R)
    BY <1>0, <2>2, SumRemove
  <2>4. SumOver(g, T) = g[x] + SumOver(g, R)
    <3>1. \A y \in S : g[y] \in Int
      OBVIOUS
    <3> QED  BY <1>0, <2>2, <3>1, SumRemove
  <2>5. SumOver(g, R) = k * SumOver(f, R)
    BY <2>1, <2>2
  <2>6. SumOver(f, R) \in Int /\ f[x] \in Int /\ g[x] = k * f[x]
    BY <1>0, <2>2
  <2> HIDE DEF R
  <2> QED  BY <2>3, <2>4, <2>5, <2>6
<1>3. \A T \in SUBSET S : T \in X
  <2> HIDE DEF X
  <2> QED  BY <1>1, <1>2, SubsetInduction
<1> QED  BY <1>3

(* Amounts that are added up one by one have the sum of the sums. *)
THEOREM SumAdd ==
  ASSUME NEW S, IsFiniteSet(S), NEW f, NEW g, NEW h,
         \A x \in S : f[x] \in Int /\ g[x] \in Int /\ h[x] = f[x] + g[x]
  PROVE  SumOver(h, S) = SumOver(f, S) + SumOver(g, S)
<1> DEFINE X == {T \in SUBSET S : SumOver(h, T) = SumOver(f, T) + SumOver(g, T)}
<1>0. \A T \in SUBSET S : IsFiniteSet(T) /\ SumOver(f, T) \in Int /\ SumOver(g, T) \in Int
  BY FS_Subset, SumType, Int \in {Nat, Int}
<1>1. {} \in X
  BY SumEmpty
<1>2. \A T \in SUBSET S : T # {} /\ (\A x \in T : T \ {x} \in X) => T \in X
  <2>1. SUFFICES ASSUME NEW T \in SUBSET S, T # {}, \A x \in T : T \ {x} \in X
                 PROVE  SumOver(h, T) = SumOver(f, T) + SumOver(g, T)
    OBVIOUS
  <2>2. PICK x : x \in T
    BY <2>1
  <2> DEFINE R == T \ {x}
  <2>3. SumOver(f, T) = f[x] + SumOver(f, R) /\ SumOver(g, T) = g[x] + SumOver(g, R)
    BY <1>0, <2>2, SumRemove
  <2>4. SumOver(h, T) = h[x] + SumOver(h, R)
    <3>1. \A y \in S : h[y] \in Int
      OBVIOUS
    <3> QED  BY <1>0, <2>2, <3>1, SumRemove
  <2>5. SumOver(h, R) = SumOver(f, R) + SumOver(g, R)
    BY <2>1, <2>2
  <2>6. /\ SumOver(f, R) \in Int /\ SumOver(g, R) \in Int
        /\ f[x] \in Int /\ g[x] \in Int /\ h[x] = f[x] + g[x]
    BY <1>0, <2>2
  <2> HIDE DEF R
  <2> QED  BY <2>3, <2>4, <2>5, <2>6
<1>3. \A T \in SUBSET S : T \in X
  <2> HIDE DEF X
  <2> QED  BY <1>1, <1>2, SubsetInduction
<1> QED  BY <1>3

(* Nothing adds up to nothing. *)
LEMMA SumZero ==
  ASSUME NEW S, IsFiniteSet(S), NEW f, \A x \in S : f[x] = 0
  PROVE  SumOver(f, S) = 0
<1>1. \A x \in S : f[x] \in Int /\ f[x] = 0 * f[x]
  OBVIOUS
<1>2. SumOver(f, S) = 0 * SumOver(f, S)
  BY <1>1, SumScale, 0 \in Int
<1>3. SumOver(f, S) \in Int
  BY <1>1, SumType, Int \in {Nat, Int}
<1> QED  BY <1>2, <1>3

(* One more amount adds itself to the sum. *)
LEMMA SumInsert ==
  ASSUME NEW S, IsFiniteSet(S), NEW p, p \notin S, NEW f, NEW g,
         \A x \in S : f[x] \in Int /\ g[x] = f[x], g[p] \in Int
  PROVE  /\ IsFiniteSet(S \cup {p})
         /\ SumOver(g, S \cup {p}) = SumOver(f, S) + g[p]
<1> DEFINE U == S \cup {p}
<1>1. IsFiniteSet(U)
  BY FS_AddElement
<1>2. \A x \in U : g[x] \in Int
  OBVIOUS
<1>3. p \in U /\ U \ {p} = S
  OBVIOUS
<1>4. SumOver(g, U) = g[p] + SumOver(g, U \ {p})
  <2> HIDE DEF U
  <2> QED  BY <1>1, <1>2, <1>3, SumRemove
<1>5. SumOver(g, S) = SumOver(f, S)
  <2>1. \A x \in S : g[x] = f[x]
    OBVIOUS
  <2> QED  BY <2>1, SumCong
<1>6. SumOver(f, S) \in Int
  <2>1. \A x \in S : f[x] \in Int
    OBVIOUS
  <2> QED  BY <2>1, SumType, Int \in {Nat, Int}
<1>7. SumOver(g, U) = g[p] + SumOver(f, S)
  <2>1. SumOver(g, U \ {p}) = SumOver(g, S)
    BY <1>3
  <2> HIDE DEF U
  <2> QED  BY <1>4, <1>5, <2>1
<1>8. SumOver(g, U) = SumOver(f, S) + g[p]
  <2> HIDE DEF U
  <2> QED  BY <1>6, <1>7
<1> QED  BY <1>1, <1>8

-----------------------------------------------------------------------------
(* Euclidean division, as it is cited below. *)
LEMMA Division ==
  ASSUME NEW a \in Nat, NEW b \in Nat, b > 0
  PROVE  /\ a \div b \in Nat /\ a % b \in Nat /\ a % b < b
         /\ b * (a \div b) + (a % b) = a
<1>1. a \div b \in Nat /\ a % b \in 0 .. b - 1
  OBVIOUS
<1>2. a = b * (a \div b) + (a % b)
  BY SMTT(20)
<1> QED  BY <1>1, <1>2

(* The largest-remainder split gives each weight its exact share, rounded  *)
(* up or down: no part is a whole unit away from it.  A part whose share   *)
(* has no fraction is not rounded up, for then no other part would have    *)
(* been rounded down, and the sum would be above the total.                *)
THEOREM SplitWithinUnit ==
  ASSUME NEW W, IsFiniteSet(W), NEW total \in Nat, NEW weights \in [W -> Nat],
         SumOver(weights, W) > 0, NEW parts \in AllocateMoney(total, weights)
  PROVE  \A i \in W :
           /\ SumOver(weights, W) * parts[i] - total * weights[i] < SumOver(weights, W)
           /\ total * weights[i] - SumOver(weights, W) * parts[i] < SumOver(weights, W)
<1> DEFINE whole == SumOver(weights, W)
           exact(i) == total * weights[i]
           over(i) == whole * parts[i] - total * weights[i]
<1>1. DOMAIN weights = W /\ whole \in Nat /\ whole > 0 /\ \A i \in W : weights[i] \in Nat
  <2>1. \A i \in W : weights[i] \in Nat
    OBVIOUS
  <2> QED  BY <2>1, SumNat
<1>2. /\ parts \in [W -> 0 .. total]
      /\ SumOver(parts, W) = total
      /\ \A i \in W : parts[i] \in {exact(i) \div whole, exact(i) \div whole + 1}
      /\ \A i, j \in W : parts[i] > exact(i) \div whole /\ parts[j] = exact(j) \div whole
                           => exact(i) % whole >= exact(j) % whole
  BY <1>1 DEF AllocateMoney
<1> HIDE DEF whole
<1>3. \A i \in W : /\ exact(i) \in Nat /\ parts[i] \in Nat /\ over(i) \in Int
                   /\ exact(i) \div whole \in Nat /\ exact(i) % whole \in Nat
                   /\ exact(i) % whole < whole
                   /\ whole * (exact(i) \div whole) + (exact(i) % whole) = exact(i)
  <2>1. SUFFICES ASSUME NEW i \in W
                 PROVE /\ exact(i) \in Nat /\ parts[i] \in Nat /\ over(i) \in Int
                       /\ exact(i) \div whole \in Nat /\ exact(i) % whole \in Nat
                       /\ exact(i) % whole < whole
                       /\ whole * (exact(i) \div whole) + (exact(i) % whole) = exact(i)
    OBVIOUS
  <2>2. weights[i] \in Nat /\ parts[i] \in Nat
    BY <1>1, <1>2
  <2>3. exact(i) \in Nat /\ whole * parts[i] \in Nat
    BY <1>1, <2>2
  <2>4. over(i) \in Int
    BY <2>3
  <2> HIDE DEF exact
  <2>5. /\ exact(i) \div whole \in Nat /\ exact(i) % whole \in Nat
        /\ exact(i) % whole < whole
        /\ whole * (exact(i) \div whole) + (exact(i) % whole) = exact(i)
    BY <1>1, <2>3, Division
  <2> QED  BY <2>2, <2>3, <2>4, <2>5
<1>4. \A i \in W :
        \/ parts[i] = exact(i) \div whole /\ over(i) = - (exact(i) % whole)
        \/ parts[i] = exact(i) \div whole + 1 /\ over(i) = whole - (exact(i) % whole)
  <2>1. SUFFICES ASSUME NEW i \in W
                 PROVE
        \/ parts[i] = exact(i) \div whole /\ over(i) = - (exact(i) % whole)
        \/ parts[i] = exact(i) \div whole + 1 /\ over(i) = whole - (exact(i) % whole)
    OBVIOUS
  <2> DEFINE d == exact(i) \div whole
             m == exact(i) % whole
             e == exact(i)
  <2>2. e \in Nat /\ d \in Nat /\ m \in Nat /\ whole * d + m = e /\ whole \in Nat
    <3> HIDE DEF exact
    <3> QED  BY <1>1, <1>3
  <2>3. whole * (d + 1) = whole * d + whole
    <3> HIDE DEF d
    <3> QED  BY <2>2
  <2>4. parts[i] = d \/ parts[i] = d + 1
    BY <1>2
  <2>5. over(i) = whole * parts[i] - e
    OBVIOUS
  <2>6. whole * d \in Nat
    <3> HIDE DEF d
    <3> QED  BY <2>2
  <2> HIDE DEF d, m, e, over
  <2>7. CASE parts[i] = d
    <3>1. over(i) = - m
      BY <2>2, <2>5, <2>6, <2>7
    <3>2. parts[i] = exact(i) \div whole /\ over(i) = - (exact(i) % whole)
      BY <2>7, <3>1 DEF d, m
    <3> QED  BY <3>2
  <2>8. CASE parts[i] = d + 1
    <3>1. over(i) = whole - m
      BY <2>2, <2>3, <2>5, <2>6, <2>8
    <3>2. parts[i] = exact(i) \div whole + 1 /\ over(i) = whole - (exact(i) % whole)
      BY <2>8, <3>1 DEF d, m
    <3> QED  BY <3>2
  <2> QED  BY <2>4, <2>7, <2>8
<1>5. ASSUME NEW i \in W, parts[i] = exact(i) \div whole + 1
      PROVE  exact(i) % whole > 0
  <2>1. SUFFICES ASSUME exact(i) % whole = 0 PROVE FALSE
    BY <1>3
  <2> DEFINE h == [j \in W |-> over(j)]
             up == [j \in W |-> whole * parts[j]]
             down == [j \in W |-> (- total) * weights[j]]
  <2>2. \A j \in W : h[j] \in Nat
    <3>1. SUFFICES ASSUME NEW j \in W PROVE over(j) \in Nat
      OBVIOUS
    <3>2. CASE parts[j] = exact(j) \div whole /\ over(j) = - (exact(j) % whole)
      <4>1. parts[i] > exact(i) \div whole
        BY <1>3, <1>5
      <4>2. exact(i) % whole >= exact(j) % whole
        BY <1>2, <3>2, <4>1
      <4> HIDE DEF exact, over
      <4> QED  BY <1>3, <2>1, <3>2, <4>2
    <3>3. CASE over(j) = whole - (exact(j) % whole)
      <4> HIDE DEF exact, over
      <4> QED  BY <1>1, <1>3, <3>3
    <3> QED  BY <1>4, <3>2, <3>3
  <2>3. h[i] = whole
    <3>1. over(i) = whole - (exact(i) % whole)
      <4> HIDE DEF exact, over
      <4> QED  BY <1>3, <1>4, <1>5
    <3>2. over(i) = whole
      <4> HIDE DEF exact, over
      <4> QED  BY <1>1, <2>1, <3>1
    <3> QED  BY <3>2
  <2>4. SumOver(up, W) = whole * total
    <3>1. whole \in Int /\ \A j \in W : parts[j] \in Int /\ up[j] = whole * parts[j]
      BY <1>1, <1>3
    <3> HIDE DEF up
    <3> QED  BY <1>2, <3>1, SumScale
  <2>5. SumOver(down, W) = (- total) * whole
    <3>1. - total \in Int /\ \A j \in W : weights[j] \in Int /\ down[j] = (- total) * weights[j]
      BY <1>1
    <3> HIDE DEF down
    <3> QED  BY <3>1, SumScale DEF whole
  <2>6. SumOver(h, W) = SumOver(up, W) + SumOver(down, W)
    <3>1. \A j \in W : up[j] \in Int /\ down[j] \in Int /\ h[j] = up[j] + down[j]
      <4>1. SUFFICES ASSUME NEW j \in W
                     PROVE  up[j] \in Int /\ down[j] \in Int /\ h[j] = up[j] + down[j]
        OBVIOUS
      <4>2. parts[j] \in Int /\ weights[j] \in Int /\ whole \in Int
        BY <1>1, <1>2
      <4>3. whole * parts[j] \in Int /\ total * weights[j] \in Int
            /\ (- total) * weights[j] = - (total * weights[j])
        BY <4>2
      <4> QED  BY <4>3
    <3> HIDE DEF h, up, down
    <3> QED  BY <3>1, SumAdd
  <2>7. SumOver(h, W) = 0
    <3>1. (- total) * whole = - (whole * total) /\ whole * total \in Int
      BY <1>1
    <3> HIDE DEF h, up, down
    <3> QED  BY <2>4, <2>5, <2>6, <3>1
  <2>8. h[i] <= SumOver(h, W)
    <3> HIDE DEF h
    <3> QED  BY <2>2, SumNat
  <2> HIDE DEF h
  <2> QED  BY <1>1, <2>3, <2>7, <2>8
<1> QED
  <2>1. SUFFICES ASSUME NEW i \in W
                 PROVE  over(i) < whole /\ total * weights[i] - whole * parts[i] < whole
    BY DEF whole
  <2>2. SUFFICES over(i) < whole /\ - over(i) < whole
    <3>1. whole * parts[i] \in Int /\ total * weights[i] \in Int
      <4>1. parts[i] \in Int /\ weights[i] \in Int /\ whole \in Int
        BY <1>1, <1>2
      <4> QED  BY <4>1
    <3> QED  BY <3>1
  <2> HIDE DEF exact, over
  <2> QED  BY <1>1, <1>3, <1>4, <1>5
=============================================================================
