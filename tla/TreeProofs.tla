----------------------------- MODULE TreeProofs -----------------------------
(***************************************************************************)
(* The folder tree keeps its promises: the closure is what the parents     *)
(* make it, a subtree lies in one workspace, and the stored totals with    *)
(* what is queued make the sizes of the files, for any number of folders,  *)
(* files, workspaces and transactions in flight.                           *)
(*                                                                         *)
(* Totals are sums over files and over queued deltas, so the proofs begin  *)
(* with sums over finite sets. A sum here is the load of a folder: weights *)
(* at places, added up over the places that the closure puts under it.     *)
(* The closure is treated as an order in which the folders above any one   *)
(* are its parent and the folders above that. To move a subtree rehangs    *)
(* the order, and shifts the load of the subtree from the old ancestors to *)
(* the new ones; the two deltas of a move add the opposite of that shift.  *)
(*                                                                         *)
(* The inductive invariant has three layers. What the constraints of the   *)
(* tables enforce holds whatever was stale. What the locks protect holds   *)
(* as long as no write of the closure was: then a move that holds the      *)
(* locks of its two workspaces works on the closure as it is now, though   *)
(* it read it before it renamed a directory. The totals come last.         *)
(***************************************************************************)
EXTENDS Tree, FiniteSetTheorems, WellFoundedInduction, TLAPS

-----------------------------------------------------------------------------
(* Numbers and folds, whatever is folded.                                  *)

(* Every set of numbers has a least one.                                   *)
LEMMA Least ==
    ASSUME NEW T \in SUBSET Nat, T # {}
    PROVE  \E n \in T : \A m \in T : n <= m
<1> DEFINE R == OpToRel(<, Nat)
<1>1. IsWellFoundedOn(R, Nat)
  BY NatLessThanWellFounded
<1>2. \A m, n \in Nat : m < n => <<m, n>> \in R
  BY DEF OpToRel
<1> HIDE DEF R
<1>3. PICK n \in T : \A m \in T : ~(<<m, n>> \in R)
  BY <1>1, WFMin
<1>4. \A m \in T : ~(m < n)
  BY <1>2, <1>3
<1>5. QED
  BY <1>4

\* Induction, as a fact about a set of numbers.
LEMMA SetInduction ==
    ASSUME NEW S \in SUBSET Nat, 0 \in S, \A n \in S : n + 1 \in S
    PROVE  S = Nat
<1> SUFFICES ASSUME Nat \ S # {} PROVE FALSE
  OBVIOUS
<1>1. PICK n \in Nat \ S : \A m \in Nat \ S : n <= m
  BY Least
<1>2. n - 1 \in Nat /\ n - 1 \notin S
  BY <1>1
<1>3. QED
  BY <1>1, <1>2

\* Max names the greatest of some indices.
LEMMA GreatestIndex ==
    ASSUME NEW n \in Nat, NEW T \in SUBSET (1 .. n), T # {}
    PROVE  Max(T) \in T
<1> DEFINE D == {n - x : x \in T}
<1>1. \A x \in T : x \in Nat /\ n - x \in Nat
  OBVIOUS
<1>2. D \subseteq Nat /\ D # {}
  BY <1>1
<1>3. PICK d \in D : \A m \in D : d <= m
  BY <1>2, Least
<1>4. PICK x \in T : d = n - x
  OBVIOUS
<1>5. \A y \in T : n - x <= n - y
  BY <1>3, <1>4
<1>6. \A y \in T : x >= y
  BY <1>1, <1>5
<1>7. QED
  BY <1>6 DEF Max

-----------------------------------------------------------------------------
(* Folds. To fold is to know a value for every subset, from the subset     *)
(* without its chosen element.                                             *)

\* C picks an element of every nonempty set, and G folds it into the value of the rest.
Foldable(S, V, base, G, C) ==
    /\ IsFiniteSet(S) /\ base \in V /\ G \in [S \X V -> V]
    /\ \A s \in SUBSET S : s # {} => C[s] \in s

\* w is the fold of every subset of S.
Folding(w, S, V, base, G, C) ==
    /\ w \in [SUBSET S -> V]
    /\ \A s \in SUBSET S : w[s] = IF s = {} THEN base ELSE G[<<C[s], w[s \ {C[s]}]>>]

\* A finite set can be folded.
LEMMA FoldExists ==
    ASSUME NEW S, NEW V, NEW base, NEW G, NEW C, Foldable(S, V, base, G, C)
    PROVE  \E w : Folding(w, S, V, base, G, C)
<1>1. /\ IsFiniteSet(S) /\ base \in V /\ G \in [S \X V -> V]
      /\ \A s \in SUBSET S : s # {} => C[s] \in s
  BY DEF Foldable
<1> DEFINE Upto(n) == {s \in SUBSET S : Cardinality(s) <= n}
           Folds(w, n) == \A s \in Upto(n) :
                             w[s] = IF s = {} THEN base ELSE G[<<C[s], w[s \ {C[s]}]>>]
           T == {n \in Nat : \E w \in [Upto(n) -> V] : Folds(w, n)}
<1>2. \A s \in SUBSET S : IsFiniteSet(s) /\ Cardinality(s) \in Nat /\ Cardinality(s) <= Cardinality(S)
  BY <1>1, FS_Subset, FS_CardinalityType
<1>3. \A s \in SUBSET S : s # {} => /\ s \ {C[s]} \in SUBSET S
                                   /\ Cardinality(s \ {C[s]}) = Cardinality(s) - 1
  BY <1>1, <1>2, FS_RemoveElement
<1>4. 0 \in T
  <2> DEFINE w == [s \in Upto(0) |-> base]
  <2>1. \A s \in Upto(0) : s = {}
    BY <1>2, FS_EmptySet
  <2>2. w \in [Upto(0) -> V] /\ Folds(w, 0)
    BY <1>1, <2>1
  <2>3. QED
    BY <2>2
<1>5. ASSUME NEW n \in T PROVE n + 1 \in T
  <2>1. PICK w \in [Upto(n) -> V] : Folds(w, n)
    OBVIOUS
  <2> DEFINE v == [s \in Upto(n + 1) |-> IF s \in Upto(n) THEN w[s]
                                         ELSE G[<<C[s], w[s \ {C[s]}]>>]]
  <2>2. n \in Nat /\ Upto(n) \subseteq Upto(n + 1)
    BY <1>2
  <2>3. \A s \in Upto(n + 1) : s # {} => s \ {C[s]} \in Upto(n) /\ C[s] \in S
    BY <1>1, <1>2, <1>3, <2>2
  <2>4. \A s \in Upto(n + 1) : s \notin Upto(n) => s # {}
    <3>1. Cardinality({}) = 0 /\ 0 <= n
      BY <2>2, FS_EmptySet
    <3>2. {} \in Upto(n)
      BY <3>1
    <3>3. QED
      BY <3>2
  <2>5. v \in [Upto(n + 1) -> V]
    <3>1. ASSUME NEW s \in Upto(n + 1), s \notin Upto(n)
          PROVE  G[<<C[s], w[s \ {C[s]}]>>] \in V
      <4>1. w[s \ {C[s]}] \in V /\ C[s] \in S
        BY <2>3, <2>4, <3>1
      <4>2. QED
        BY <1>1, <4>1
    <3>2. \A s \in Upto(n + 1) : v[s] \in V
      BY <3>1
    <3>3. QED
      BY <3>2
  <2>6. ASSUME NEW s \in Upto(n + 1)
        PROVE  v[s] = IF s = {} THEN base ELSE G[<<C[s], v[s \ {C[s]}]>>]
    <3>1. s # {} => v[s \ {C[s]}] = w[s \ {C[s]}]
      BY <2>2, <2>3
    <3>2. CASE s \in Upto(n)
      BY <2>1, <3>1, <3>2
    <3>3. CASE s \notin Upto(n)
      BY <2>4, <3>1, <3>3
    <3>4. QED
      BY <3>2, <3>3
  <2>7. Folds(v, n + 1)
    BY <2>6
  <2> HIDE DEF v, Upto, Folds
  <2>8. \E x \in [Upto(n + 1) -> V] : Folds(x, n + 1)
    BY <2>5, <2>7
  <2>9. n + 1 \in Nat
    BY <2>2
  <2>10. QED
    BY <2>8, <2>9
<1> HIDE DEF T
<1>6. T = Nat
  <2>1. T \in SUBSET Nat
    BY DEF T
  <2>2. QED
    BY <2>1, <1>4, <1>5, SetInduction
<1>7. Cardinality(S) \in Nat /\ Upto(Cardinality(S)) = SUBSET S
  BY <1>1, <1>2, FS_CardinalityType
<1> HIDE DEF Upto
<1>8. PICK w \in [Upto(Cardinality(S)) -> V] : Folds(w, Cardinality(S))
  BY <1>6, <1>7 DEF T
<1>9. QED
  BY <1>7, <1>8 DEF Folding

(* What holds of the empty set and of every set whose remainder it holds   *)
(* of holds of the whole.                                                  *)
LEMMA FoldInduction ==
    ASSUME NEW S, IsFiniteSet(S), NEW P \in SUBSET (SUBSET S), {} \in P,
           NEW C, \A s \in SUBSET S : s # {} => C[s] \in s,
           \A s \in SUBSET S : s # {} /\ s \ {C[s]} \in P => s \in P
    PROVE  S \in P
<1> DEFINE T == {n \in Nat : \A s \in SUBSET S : Cardinality(s) = n => s \in P}
<1>1. \A s \in SUBSET S : IsFiniteSet(s) /\ Cardinality(s) \in Nat
  BY FS_Subset, FS_CardinalityType
<1>2. 0 \in T
  BY <1>1, FS_EmptySet
<1>3. ASSUME NEW n \in T PROVE n + 1 \in T
  <2> SUFFICES ASSUME NEW s \in SUBSET S, Cardinality(s) = n + 1 PROVE s \in P
    OBVIOUS
  <2>1. s # {}
    BY FS_EmptySet
  <2>2. C[s] \in s /\ IsFiniteSet(s)
    BY <1>1, <2>1
  <2>3. Cardinality(s \ {C[s]}) = Cardinality(s) - 1
    <3>1. PICK x \in s : x = C[s]
      BY <2>2
    <3>2. Cardinality(s \ {x}) = Cardinality(s) - 1
      BY <2>2, FS_RemoveElement
    <3>3. QED
      BY <3>1, <3>2
  <2>4. n \in Nat
    OBVIOUS
  <2>5. Cardinality(s \ {C[s]}) = n
    BY <2>3, <2>4
  <2>6. s \ {C[s]} \in SUBSET S
    OBVIOUS
  <2>7. s \ {C[s]} \in P
    BY <2>5, <2>6
  <2>8. QED
    BY <2>1, <2>7
<1> HIDE DEF T
<1>4. T = Nat
  BY <1>2, <1>3, SetInduction DEF T
<1>5. QED
  BY <1>1, <1>4 DEF T

-----------------------------------------------------------------------------
(* Sums. To sum is to know the sum of every subset.                        *)

\* w is the sum of every subset of S, whichever element is taken out of it.
Sums(w, S, t) ==
    /\ w \in [SUBSET S -> Int]
    /\ w[{}] = 0
    /\ \A s \in SUBSET S : \A x \in s : w[s] = t[x] + w[s \ {x}]

(* A fold that adds the chosen element adds any element.                   *)
LEMMA SumsExist ==
    ASSUME NEW S, IsFiniteSet(S), NEW t \in [S -> Int]
    PROVE  \E w : Sums(w, S, t) /\ w[S] = SumFunction(t)
<1> DEFINE G == [p \in S \X Int |-> t[p[1]] + p[2]]
           C == [s \in SUBSET S |-> CHOOSE x \in s : TRUE]
           Rec(f) == f = [s \in SUBSET S |-> IF s = {} THEN 0
                              ELSE t[CHOOSE x \in s : TRUE] + f[s \ {CHOOSE x \in s : TRUE}]]
           it == CHOOSE f : Rec(f)
<1>1. SumFunction(t) = it[S]
  BY DEF SumFunction, SumFunctionOnSet, FoldFunctionOnSet, MapThenFoldSet
<1>2. Foldable(S, Int, 0, G, C)
  BY DEF Foldable
<1>3. PICK w : Folding(w, S, Int, 0, G, C)
  BY <1>2, FoldExists
<1>4. /\ w \in [SUBSET S -> Int]
      /\ \A s \in SUBSET S : w[s] = IF s = {} THEN 0 ELSE G[<<C[s], w[s \ {C[s]}]>>]
  BY <1>3 DEF Folding
<1>5. ASSUME NEW s \in SUBSET S, s # {}
      PROVE  w[s] = t[CHOOSE x \in s : TRUE] + w[s \ {CHOOSE x \in s : TRUE}]
  <2>1. PICK c \in s : c = CHOOSE x \in s : TRUE
    BY <1>5
  <2>2. C[s] = c /\ c \in S /\ w[s \ {c}] \in Int
    BY <1>4, <2>1
  <2>3. w[s] = G[<<c, w[s \ {c}]>>]
    BY <1>4, <1>5, <2>2
  <2>4. G[<<c, w[s \ {c}]>>] = t[c] + w[s \ {c}]
    BY <2>2
  <2> HIDE DEF G, C
  <2>5. QED
    BY <2>1, <2>3, <2>4
<1>6. Rec(w)
  BY <1>4, <1>5
<1>7. Rec(it)
  BY <1>6
<1>8. \A s \in SUBSET S : it[s] = IF s = {} THEN 0
           ELSE t[CHOOSE x \in s : TRUE] + it[s \ {CHOOSE x \in s : TRUE}]
  BY <1>7
<1> DEFINE P == {s \in SUBSET S : it[s] = w[s]}
<1>9. S \in P
  <2>1. {} \in P
    BY <1>4, <1>8
  <2>2. \A s \in SUBSET S : s # {} => C[s] \in s
    OBVIOUS
  <2>3. ASSUME NEW s \in SUBSET S, s # {}, s \ {C[s]} \in P PROVE s \in P
    <3> HIDE DEF it
    <3>1. it[s] = t[CHOOSE x \in s : TRUE] + it[s \ {CHOOSE x \in s : TRUE}]
      BY <1>8, <2>3
    <3>2. C[s] = CHOOSE x \in s : TRUE
      OBVIOUS
    <3>3. QED
      BY <1>5, <2>3, <3>1, <3>2
  <2> HIDE DEF P, C
  <2>4. P \in SUBSET (SUBSET S)
    BY DEF P
  <2>5. QED
    BY <2>1, <2>2, <2>3, <2>4, FoldInduction
<1> DEFINE T == {n \in Nat : \A u \in SUBSET S : Cardinality(u) = n =>
                      \A x \in u : w[u] = t[x] + w[u \ {x}]}
<1>10. \A u \in SUBSET S : /\ IsFiniteSet(u) /\ Cardinality(u) \in Nat
                           /\ \A x \in u : Cardinality(u \ {x}) = Cardinality(u) - 1
  BY FS_Subset, FS_CardinalityType, FS_RemoveElement
<1>11. T = Nat
  <2>1. 0 \in T
    BY <1>10, FS_EmptySet
  <2>2. ASSUME NEW n \in T PROVE n + 1 \in T
    <3> SUFFICES ASSUME NEW u \in SUBSET S, Cardinality(u) = n + 1, NEW x \in u
                 PROVE  w[u] = t[x] + w[u \ {x}]
      OBVIOUS
    <3>1. PICK c \in u : c = CHOOSE y \in u : TRUE
      OBVIOUS
    <3>2. w[u] = t[c] + w[u \ {c}]
      BY <1>5, <3>1
    <3>3. CASE x = c
      BY <3>2, <3>3
    <3>4. CASE x # c
      <4>1. /\ u \ {c} \in SUBSET S /\ u \ {x} \in SUBSET S /\ n \in Nat
            /\ Cardinality(u \ {c}) = n /\ Cardinality(u \ {x}) = n
        <5>1. n \in Nat
          OBVIOUS
        <5>2. /\ Cardinality(u \ {c}) = Cardinality(u) - 1
              /\ Cardinality(u \ {x}) = Cardinality(u) - 1
          BY <1>10
        <5>3. Cardinality(u) - 1 = n
          BY <5>1
        <5>4. QED
          BY <5>1, <5>2, <5>3
      <4>2. x \in u \ {c} /\ c \in u \ {x} /\ (u \ {c}) \ {x} = (u \ {x}) \ {c}
        BY <3>4
      <4>3. w[u \ {c}] = t[x] + w[(u \ {c}) \ {x}] /\ w[u \ {x}] = t[c] + w[(u \ {x}) \ {c}]
        BY <2>2, <4>1, <4>2
      <4>4. w[(u \ {c}) \ {x}] \in Int /\ t[x] \in Int /\ t[c] \in Int
        BY <1>4
      <4>5. PICK k \in Int : k = w[(u \ {c}) \ {x}]
        BY <4>4
      <4>6. w[u \ {c}] = t[x] + k /\ w[u \ {x}] = t[c] + k
        BY <4>2, <4>3, <4>5
      <4>7. w[u] = t[c] + (t[x] + k)
        BY <3>2, <4>6
      <4>8. QED
        BY <4>4, <4>6, <4>7
    <3> QED BY <3>3, <3>4
  <2> HIDE DEF T
  <2>3. QED
    BY <2>1, <2>2, SetInduction DEF T
<1>12. \A s \in SUBSET S : \A x \in s : w[s] = t[x] + w[s \ {x}]
  BY <1>10, <1>11
<1>13. w[{}] = 0
  BY <1>4
<1> HIDE DEF P, it
<1>14. w[S] = it[S]
  BY <1>9 DEF P
<1> QED BY <1>1, <1>4, <1>12, <1>13, <1>14 DEF Sums

(* There is one sum.                                                       *)
LEMMA SumUnique ==
    ASSUME NEW S, IsFiniteSet(S), NEW t \in [S -> Int], NEW w, Sums(w, S, t)
    PROVE  SumFunction(t) = w[S]
<1>1. PICK v : Sums(v, S, t) /\ v[S] = SumFunction(t)
  BY SumsExist
<1> DEFINE C == [s \in SUBSET S |-> CHOOSE x \in s : TRUE]
           P == {s \in SUBSET S : v[s] = w[s]}
<1>2. {} \in P
  BY <1>1 DEF Sums
<1>3. ASSUME NEW s \in SUBSET S, s # {}, s \ {C[s]} \in P PROVE s \in P
  <2>1. PICK x \in s : x = C[s]
    BY <1>3
  <2>2. v[s] = t[x] + v[s \ {x}] /\ w[s] = t[x] + w[s \ {x}]
    BY <1>1 DEF Sums
  <2>3. QED
    BY <1>3, <2>1, <2>2
<1>4. \A s \in SUBSET S : s # {} => C[s] \in s
  OBVIOUS
<1> HIDE DEF P, C
<1>5. P \in SUBSET (SUBSET S)
  BY DEF P
<1>6. S \in P
  BY <1>2, <1>3, <1>4, <1>5, FoldInduction
<1>7. QED
  BY <1>1, <1>6 DEF P

(* The sum over a part, and over its elements one by one.                  *)
LEMMA SumOfPart ==
    ASSUME NEW S, IsFiniteSet(S), NEW t \in [S -> Int], NEW w, Sums(w, S, t),
           NEW s \in SUBSET S
    PROVE  SumFunction(Restrict(t, s)) = w[s]
<1> DEFINE v == [u \in SUBSET s |-> w[u]]
           r == [x \in s |-> t[x]]
<1>1. IsFiniteSet(s) /\ r \in [s -> Int]
  BY FS_Subset
<1>2. v \in [SUBSET s -> Int] /\ v[{}] = 0
  BY DEF Sums
<1>3. ASSUME NEW u \in SUBSET s, NEW x \in u PROVE v[u] = r[x] + v[u \ {x}]
  <2>1. u \in SUBSET S /\ u \ {x} \in SUBSET s /\ x \in s
    OBVIOUS
  <2>2. w[u] = t[x] + w[u \ {x}]
    BY <2>1 DEF Sums
  <2>3. QED
    BY <2>1, <2>2
<1> HIDE DEF v, r
<1>4. Sums(v, s, r)
  BY <1>2, <1>3 DEF Sums
<1>5. SumFunction(r) = v[s]
  BY <1>1, <1>4, SumUnique
<1>6. QED
  BY <1>5 DEF r, v, Restrict

\* A sum of integers is one, and of numbers not below zero it is not below zero.
LEMMA SumType ==
    ASSUME NEW S, IsFiniteSet(S), NEW t \in [S -> Int]
    PROVE  SumFunction(t) \in Int
<1>1. PICK w : Sums(w, S, t) /\ w[S] = SumFunction(t)
  BY SumsExist
<1> QED BY <1>1 DEF Sums

LEMMA SumNat ==
    ASSUME NEW S, IsFiniteSet(S), NEW t \in [S -> Nat]
    PROVE  SumFunction(t) \in Nat
<1>1. t \in [S -> Int]
  OBVIOUS
<1>2. PICK w : Sums(w, S, t) /\ w[S] = SumFunction(t)
  BY <1>1, SumsExist
<1> DEFINE C == [s \in SUBSET S |-> CHOOSE x \in s : TRUE]
           P == {s \in SUBSET S : w[s] \in Nat}
<1>3. {} \in P
  BY <1>2 DEF Sums
<1>4. ASSUME NEW s \in SUBSET S, s # {}, s \ {C[s]} \in P PROVE s \in P
  <2>1. PICK x \in s : x = C[s]
    BY <1>4
  <2>2. w[s] = t[x] + w[s \ {x}]
    BY <1>2 DEF Sums
  <2>3. QED
    BY <1>4, <2>1, <2>2
<1>5. \A s \in SUBSET S : s # {} => C[s] \in s
  OBVIOUS
<1> HIDE DEF P, C
<1>6. P \in SUBSET (SUBSET S)
  BY DEF P
<1>7. \A s \in SUBSET S : s # {} /\ s \ {C[s]} \in P => s \in P
  BY <1>4
<1>8. S \in P
  BY <1>3, <1>5, <1>6, <1>7, FoldInduction
<1>9. QED
  BY <1>2, <1>8 DEF P

\* What is zero everywhere adds up to zero.
LEMMA SumOfNothing ==
    ASSUME NEW S, IsFiniteSet(S), NEW t \in [S -> Int], \A x \in S : t[x] = 0
    PROVE  SumFunction(t) = 0
<1> DEFINE w == [s \in SUBSET S |-> 0]
<1>1. Sums(w, S, t)
  BY DEF Sums
<1> HIDE DEF w
<1>2. SumFunction(t) = w[S]
  BY <1>1, SumUnique
<1> QED BY <1>2 DEF w

(* Sums of numbers that are sums.                                          *)
LEMMA SumOfSums ==
    ASSUME NEW S, IsFiniteSet(S), NEW t \in [S -> Int], NEW u \in [S -> Int],
           NEW v \in [S -> Int], NEW r \in [S -> Int],
           \A x \in S : t[x] = u[x] - v[x] + r[x]
    PROVE  SumFunction(t) = SumFunction(u) - SumFunction(v) + SumFunction(r)
<1>1. PICK a : Sums(a, S, u) /\ a[S] = SumFunction(u)
  BY SumsExist
<1>2. PICK b : Sums(b, S, v) /\ b[S] = SumFunction(v)
  BY SumsExist
<1>3. PICK c : Sums(c, S, r) /\ c[S] = SumFunction(r)
  BY SumsExist
<1> DEFINE w == [s \in SUBSET S |-> a[s] - b[s] + c[s]]
<1>4. /\ a \in [SUBSET S -> Int] /\ b \in [SUBSET S -> Int] /\ c \in [SUBSET S -> Int]
      /\ a[{}] = 0 /\ b[{}] = 0 /\ c[{}] = 0
  BY <1>1, <1>2, <1>3 DEF Sums
<1>5. w \in [SUBSET S -> Int] /\ w[{}] = 0
  <2>1. w[{}] = a[{}] - b[{}] + c[{}]
    OBVIOUS
  <2>2. w \in [SUBSET S -> Int]
    BY <1>4
  <2> HIDE DEF w
  <2> QED BY <1>4, <2>1, <2>2
<1>6. ASSUME NEW s \in SUBSET S, NEW x \in s PROVE w[s] = t[x] + w[s \ {x}]
  <2>1. s \ {x} \in SUBSET S /\ x \in S
    OBVIOUS
  <2>2. a[s] = u[x] + a[s \ {x}] /\ b[s] = v[x] + b[s \ {x}] /\ c[s] = r[x] + c[s \ {x}]
    BY <1>1, <1>2, <1>3 DEF Sums
  <2>3. /\ a[s \ {x}] \in Int /\ b[s \ {x}] \in Int /\ c[s \ {x}] \in Int
        /\ u[x] \in Int /\ v[x] \in Int /\ r[x] \in Int /\ t[x] = u[x] - v[x] + r[x]
    BY <1>4, <2>1
  <2>4. w[s] = a[s] - b[s] + c[s] /\ w[s \ {x}] = a[s \ {x}] - b[s \ {x}] + c[s \ {x}]
    BY <2>1
  <2> HIDE DEF w
  <2>5. QED
    BY <2>2, <2>3, <2>4
<1>7. w[S] = a[S] - b[S] + c[S]
  OBVIOUS
<1> HIDE DEF w
<1>8. Sums(w, S, t)
  BY <1>5, <1>6 DEF Sums
<1>9. SumFunction(t) = w[S]
  BY <1>8, SumUnique
<1> QED BY <1>1, <1>2, <1>3, <1>7, <1>9

(* The sum over two sets with nothing in common.                           *)
LEMMA SumSplits ==
    ASSUME NEW A, NEW B, IsFiniteSet(A), IsFiniteSet(B), \A x \in A : x \notin B,
           NEW t \in [A \cup B -> Int]
    PROVE  SumFunction(t) = SumFunction(Restrict(t, A)) + SumFunction(Restrict(t, B))
<1> DEFINE S == A \cup B
           r == [x \in B |-> t[x]]
<1>1. IsFiniteSet(S)
  BY FS_Union
<1>2. PICK w : Sums(w, S, t) /\ w[S] = SumFunction(t)
  BY <1>1, SumsExist
<1>3. SumFunction(Restrict(t, A)) = w[A]
  <2>1. A \in SUBSET S
    OBVIOUS
  <2> HIDE DEF S
  <2>2. t \in [S -> Int]
    BY DEF S
  <2> QED BY <1>1, <1>2, <2>1, <2>2, SumOfPart
<1> DEFINE v == [s \in SUBSET B |-> w[A \cup s] - w[A]]
<1>4. w \in [SUBSET S -> Int] /\ \A s \in SUBSET S : \A x \in s : w[s] = t[x] + w[s \ {x}]
  BY <1>2 DEF Sums
<1>5. r \in [B -> Int]
  OBVIOUS
<1>6. v \in [SUBSET B -> Int] /\ v[{}] = 0
  <2>1. A \in SUBSET S /\ w[A] \in Int
    BY <1>4
  <2>2. \A s \in SUBSET B : A \cup s \in SUBSET S
    OBVIOUS
  <2>3. A \cup {} = A
    OBVIOUS
  <2>4. \A s \in SUBSET B : w[A \cup s] - w[A] \in Int
    BY <1>4, <2>1, <2>2
  <2>5. v[{}] = w[A] - w[A]
    BY <2>3
  <2>6. v \in [SUBSET B -> Int]
    BY <2>4
  <2> HIDE DEF v
  <2> QED BY <2>1, <2>5, <2>6
<1>7. ASSUME NEW s \in SUBSET B, NEW x \in s PROVE v[s] = r[x] + v[s \ {x}]
  <2>1. A \cup s \in SUBSET S /\ x \in A \cup s /\ (A \cup s) \ {x} = A \cup (s \ {x})
    OBVIOUS
  <2>2. w[A \cup s] = t[x] + w[A \cup (s \ {x})]
    BY <1>4, <2>1
  <2>3. t[x] \in Int /\ r[x] = t[x] /\ w[A \cup (s \ {x})] \in Int /\ w[A] \in Int
    BY <1>4
  <2>4. v[s] = w[A \cup s] - w[A] /\ v[s \ {x}] = w[A \cup (s \ {x})] - w[A]
    OBVIOUS
  <2> HIDE DEF v, r
  <2> QED BY <2>2, <2>3, <2>4
<1>8. v[B] = w[S] - w[A] /\ w[S] \in Int /\ w[A] \in Int
  BY <1>4
<1> HIDE DEF v
<1>9. Sums(v, B, r)
  BY <1>6, <1>7 DEF Sums
<1> HIDE DEF r, S
<1>10. SumFunction(r) = v[B]
  BY <1>5, <1>9, SumUnique
<1>11. SumFunction(t) = w[A] + SumFunction(r)
  BY <1>2, <1>8, <1>10
<1> QED BY <1>3, <1>11 DEF r, Restrict

(* What adds nothing may be left out.                                      *)
LEMMA SumWithout ==
    ASSUME NEW S, IsFiniteSet(S), NEW t \in [S -> Int], NEW s \in SUBSET S,
           \A x \in S \ s : t[x] = 0
    PROVE  SumFunction(t) = SumFunction(Restrict(t, s))
<1> DEFINE r == [x \in S \ s |-> t[x]]
           u == [x \in s |-> t[x]]
<1>1. IsFiniteSet(s) /\ IsFiniteSet(S \ s) /\ s \cup (S \ s) = S /\ \A x \in s : x \notin S \ s
  BY FS_Subset
<1>2. r \in [S \ s -> Int] /\ u \in [s -> Int] /\ \A x \in S \ s : r[x] = 0
  OBVIOUS
<1>3. SumFunction(t) = SumFunction(u) + SumFunction(r)
  <2>1. t \in [s \cup (S \ s) -> Int]
    BY <1>1
  <2> QED BY <1>1, <2>1, SumSplits DEF Restrict
<1> HIDE DEF r, u
<1>4. SumFunction(r) = 0
  BY <1>1, <1>2, SumOfNothing
<1>5. SumFunction(u) \in Int
  BY <1>1, <1>2, SumType
<1>6. SumFunction(t) = SumFunction(u)
  BY <1>3, <1>4, <1>5
<1> QED BY <1>6 DEF u, Restrict

\* The sum over one element.
LEMMA SumOfOne ==
    ASSUME NEW x, NEW n \in Int
    PROVE  SumFunction([y \in {x} |-> n]) = n
<1> DEFINE t == [y \in {x} |-> n]
<1>1. IsFiniteSet({x}) /\ t \in [{x} -> Int]
  BY FS_Singleton
<1>2. t[x] = n
  OBVIOUS
<1> HIDE DEF t
<1>3. PICK w : Sums(w, {x}, t) /\ w[{x}] = SumFunction(t)
  BY <1>1, SumsExist
<1>4. w[{x}] = t[x] + w[{x} \ {x}]
  BY <1>3 DEF Sums
<1>5. {x} \ {x} = {}
  OBVIOUS
<1>6. w[{x} \ {x}] = 0
  BY <1>3, <1>5 DEF Sums
<1> QED BY <1>2, <1>3, <1>4, <1>6 DEF t

-----------------------------------------------------------------------------
(* What lies under a folder. Files and deltas are both weights at places,  *)
(* and a total is the sum of those whose place is in the subtree.          *)
Weighed(place, weight, lk, a) == [i \in DOMAIN place |->
    IF Covers(lk, a, place[i]) THEN weight[i] ELSE 0]

Load(place, weight, lk, a) == SumFunction(Weighed(place, weight, lk, a))

\* Finitely many things, each with its place and its weight.
Weights(S, place, weight) ==
    /\ IsFiniteSet(S) /\ DOMAIN place = S /\ place = [i \in S |-> place[i]]
    /\ weight \in [S -> Int]

\* A load is an integer.
LEMMA LoadType ==
    ASSUME NEW S, NEW place, NEW weight, Weights(S, place, weight), NEW lk, NEW a
    PROVE  /\ Weighed(place, weight, lk, a) \in [S -> Int]
           /\ Load(place, weight, lk, a) \in Int
<1>1. Weighed(place, weight, lk, a) \in [S -> Int]
  BY DEF Weighed, Weights
<1>2. IsFiniteSet(S)
  BY DEF Weights
<1> QED BY <1>1, <1>2, SumType DEF Load

(* What lies under f is added to what lies under a, taken from it, or      *)
(* neither.                                                                *)
LEMMA LoadShifts ==
    ASSUME NEW S, NEW place, NEW weight, Weights(S, place, weight),
           NEW lk, NEW a, NEW f, NEW k \in {-1, 0, 1}, NEW t \in [S -> Int],
           \A i \in S : t[i] = Weighed(place, weight, lk, a)[i] +
                             (IF Covers(lk, f, place[i]) THEN k * weight[i] ELSE 0)
    PROVE  SumFunction(t) = Load(place, weight, lk, a) + k * Load(place, weight, lk, f)
<1> DEFINE u == Weighed(place, weight, lk, a)
           v == Weighed(place, weight, lk, f)
           zero == [i \in S |-> 0]
<1>1. u \in [S -> Int] /\ v \in [S -> Int] /\ IsFiniteSet(S)
  BY LoadType DEF Weights
<1>2. zero \in [S -> Int] /\ \A i \in S : zero[i] = 0
  OBVIOUS
<1>3. \A i \in S : v[i] = IF Covers(lk, f, place[i]) THEN weight[i] ELSE 0
  BY DEF Weighed, Weights
<1>4. \A i \in S : weight[i] \in Int
  BY DEF Weights
<1>5. \A i \in S : t[i] = u[i] + (IF Covers(lk, f, place[i]) THEN k * weight[i] ELSE 0)
  OBVIOUS
<1> HIDE DEF u, v, zero
<1>6. SumFunction(zero) = 0
  BY <1>1, <1>2, SumOfNothing
<1>7. /\ SumFunction(t) \in Int /\ SumFunction(u) \in Int /\ SumFunction(v) \in Int
  BY <1>1, SumType
<1>8. SumFunction(t) = SumFunction(u) + k * SumFunction(v)
  <2>1. CASE k = 1
    <3>1. \A i \in S : t[i] = u[i] - zero[i] + v[i]
      BY <1>1, <1>2, <1>3, <1>4, <1>5, <2>1
    <3>2. SumFunction(t) = SumFunction(u) - SumFunction(zero) + SumFunction(v)
      BY <1>1, <1>2, <3>1, SumOfSums
    <3> QED BY <1>6, <1>7, <2>1, <3>2
  <2>2. CASE k = -1
    <3>1. \A i \in S : t[i] = u[i] - v[i] + zero[i]
      BY <1>1, <1>2, <1>3, <1>4, <1>5, <2>2
    <3>2. SumFunction(t) = SumFunction(u) - SumFunction(v) + SumFunction(zero)
      BY <1>1, <1>2, <3>1, SumOfSums
    <3> QED BY <1>6, <1>7, <2>2, <3>2
  <2>3. CASE k = 0
    <3>1. \A i \in S : t[i] = u[i] - zero[i] + zero[i]
      BY <1>1, <1>2, <1>3, <1>4, <1>5, <2>3
    <3>2. SumFunction(t) = SumFunction(u) - SumFunction(zero) + SumFunction(zero)
      BY <1>1, <1>2, <3>1, SumOfSums
    <3> QED BY <1>6, <1>7, <2>3, <3>2
  <2> QED BY <2>1, <2>2, <2>3
<1> QED BY <1>8 DEF Load, u, v

(* Nothing under a folder weighs nothing.                                  *)
LEMMA LoadOfNothing ==
    ASSUME NEW S, NEW place, NEW weight, Weights(S, place, weight), NEW lk, NEW a,
           \A i \in S : Covers(lk, a, place[i]) => weight[i] = 0
    PROVE  Load(place, weight, lk, a) = 0
<1>1. Weighed(place, weight, lk, a) \in [S -> Int] /\ IsFiniteSet(S)
  BY LoadType DEF Weights
<1>2. \A i \in S : Weighed(place, weight, lk, a)[i] = 0
  BY DEF Weighed, Weights
<1> QED BY <1>1, <1>2, SumOfNothing DEF Load

(* One weight changes, or one place.                                       *)
LEMMA SumChanges ==
    ASSUME NEW S, IsFiniteSet(S), NEW t \in [S -> Int], NEW u \in [S -> Int],
           NEW x \in S, \A y \in S \ {x} : u[y] = t[y]
    PROVE  SumFunction(u) = SumFunction(t) - t[x] + u[x]
<1> DEFINE r == S \ {x}
<1>1. PICK v : Sums(v, S, t) /\ v[S] = SumFunction(t)
  BY SumsExist
<1>2. PICK w : Sums(w, S, u) /\ w[S] = SumFunction(u)
  BY SumsExist
<1>3. r \in SUBSET S
  OBVIOUS
<1>4. SumFunction(Restrict(t, r)) = v[r]
  <2> HIDE DEF r
  <2> QED BY <1>1, <1>3, SumOfPart
<1>5. SumFunction(Restrict(u, r)) = w[r]
  <2> HIDE DEF r
  <2> QED BY <1>2, <1>3, SumOfPart
<1>6. Restrict(t, r) = Restrict(u, r)
  BY DEF Restrict
<1>7. v[S] = t[x] + v[r] /\ w[S] = u[x] + w[r]
  BY <1>1, <1>2 DEF Sums
<1>8. v[r] \in Int /\ t[x] \in Int /\ u[x] \in Int
  BY <1>1, <1>3 DEF Sums
<1>9. v[r] = w[r]
  BY <1>4, <1>5, <1>6
<1> QED BY <1>1, <1>2, <1>7, <1>8, <1>9

-----------------------------------------------------------------------------
(* The deltas of a queue.                                                  *)
DeltaRow == [ws : Root, folder : Folder, amount : Int]

\* What folder_delta may hold while these are the folders.
Queueable(nodes) == {d \in DeltaRow : d.folder \in nodes /\ d.amount # 0}

Places(deltas) == [i \in DOMAIN deltas |-> deltas[i].folder]
Amounts(deltas) == [i \in DOMAIN deltas |-> deltas[i].amount]

\* The deltas of a queue are finitely many.
LEMMA QueueIndices ==
    ASSUME NEW V, NEW q \in Seq(V)
    PROVE  /\ Len(q) \in Nat /\ DOMAIN q = 1 .. Len(q) /\ IsFiniteSet(DOMAIN q)
           /\ \A i \in DOMAIN q : q[i] \in V
<1>1. Len(q) \in Nat /\ DOMAIN q = 1 .. Len(q) /\ \A i \in DOMAIN q : q[i] \in V
  OBVIOUS
<1> QED BY <1>1, FS_Interval

\* What is queued under a folder is the load of the deltas' amounts.
LEMMA AmountIsLoad ==
    ASSUME NEW q \in Seq(DeltaRow), NEW lk, NEW f
    PROVE  /\ Weights(DOMAIN q, Places(q), Amounts(q))
           /\ Amount(q, f, lk) = Load(Places(q), Amounts(q), lk, f)
           /\ Amount(q, f, lk) \in Int
<1>1. IsFiniteSet(DOMAIN q) /\ \A i \in DOMAIN q : q[i] \in DeltaRow
  BY QueueIndices
<1>2. Weights(DOMAIN q, Places(q), Amounts(q))
  BY <1>1 DEF Weights, Places, Amounts, DeltaRow
<1>3. [i \in DOMAIN q |-> Share(q[i], f, lk)] = Weighed(Places(q), Amounts(q), lk, f)
  BY DEF Share, Weighed, Places, Amounts
<1>4. Amount(q, f, lk) = Load(Places(q), Amounts(q), lk, f)
  BY <1>3 DEF Amount, Shares, Load
<1> QED BY <1>2, <1>4, LoadType

\* What deltas add to a folder is an integer, for one delta and for some of a queue.
LEMMA ShareType ==
    ASSUME NEW d \in DeltaRow, NEW f, NEW lk
    PROVE  Share(d, f, lk) \in Int
  BY DEF Share, DeltaRow

LEMMA SharesType ==
    ASSUME NEW q \in Seq(DeltaRow), NEW ids \in SUBSET (DOMAIN q), NEW f, NEW lk
    PROVE  Shares(q, ids, f, lk) \in Int
<1> DEFINE t == [i \in ids |-> Share(q[i], f, lk)]
<1>1. IsFiniteSet(ids) /\ \A i \in ids : q[i] \in DeltaRow
  BY QueueIndices, FS_Subset
<1>2. t \in [ids -> Int]
  BY <1>1, ShareType
<1> HIDE DEF t
<1>3. SumFunction(t) \in Int
  BY <1>1, <1>2, SumType
<1> QED BY <1>3 DEF t, Shares

\* Disjoint deltas add up separately; none add nothing, and one adds its own share.
LEMMA SharesSplit ==
    ASSUME NEW q \in Seq(DeltaRow), NEW A \in SUBSET (DOMAIN q), NEW B \in SUBSET (DOMAIN q),
           A \cap B = {}, NEW f, NEW lk
    PROVE  Shares(q, A \cup B, f, lk) = Shares(q, A, f, lk) + Shares(q, B, f, lk)
<1> DEFINE t == [i \in A \cup B |-> Share(q[i], f, lk)]
<1>1. /\ IsFiniteSet(A) /\ IsFiniteSet(B) /\ A \cap B = {}
      /\ \A i \in DOMAIN q : q[i] \in DeltaRow
  BY QueueIndices, FS_Subset
<1>2. t \in [A \cup B -> Int]
  BY <1>1, ShareType
<1>3. /\ Restrict(t, A) = [i \in A |-> Share(q[i], f, lk)]
      /\ Restrict(t, B) = [i \in B |-> Share(q[i], f, lk)]
  BY DEF Restrict
<1>4. \A x \in A : x \notin B
  OBVIOUS
<1> HIDE DEF t
<1>5. SumFunction(t) = SumFunction(Restrict(t, A)) + SumFunction(Restrict(t, B))
  BY <1>1, <1>2, <1>4, SumSplits
<1> QED BY <1>3, <1>5 DEF Shares, t

LEMMA SharesOfNone ==
    ASSUME NEW q \in Seq(DeltaRow), NEW f, NEW lk
    PROVE  Shares(q, {}, f, lk) = 0
<1> DEFINE t == [i \in {} |-> Share(q[i], f, lk)]
<1>1. IsFiniteSet({}) /\ t \in [{} -> Int] /\ \A i \in {} : t[i] = 0
  BY FS_EmptySet
<1> HIDE DEF t
<1>2. SumFunction(t) = 0
  BY <1>1, SumOfNothing
<1> QED BY <1>2 DEF t, Shares

LEMMA SharesOfOne ==
    ASSUME NEW q \in Seq(DeltaRow), NEW j \in DOMAIN q, NEW f, NEW lk
    PROVE  Shares(q, {j}, f, lk) = Share(q[j], f, lk)
<1>1. Share(q[j], f, lk) \in Int
  BY QueueIndices, ShareType
<1>2. [i \in {j} |-> Share(q[i], f, lk)] = [i \in {j} |-> Share(q[j], f, lk)]
  OBVIOUS
<1>3. SumFunction([i \in {j} |-> Share(q[j], f, lk)]) = Share(q[j], f, lk)
  BY <1>1, SumOfOne
<1> QED BY <1>2, <1>3 DEF Shares

\* A delta at the end of a queue adds its share.
LEMMA AmountAppend ==
    ASSUME NEW q \in Seq(DeltaRow), NEW d \in DeltaRow, NEW f, NEW lk
    PROVE  /\ Append(q, d) \in Seq(DeltaRow)
           /\ Amount(Append(q, d), f, lk) = Amount(q, f, lk) + Share(d, f, lk)
<1> DEFINE r == Append(q, d)
           n == Len(q)
<1>1. /\ r \in Seq(DeltaRow) /\ n \in Nat /\ DOMAIN q = 1 .. n /\ DOMAIN r = 1 .. n + 1
      /\ \A i \in 1 .. n : r[i] = q[i]
      /\ r[n + 1] = d
  OBVIOUS
<1>2. DOMAIN r = (1 .. n) \cup {n + 1} /\ (1 .. n) \cap {n + 1} = {}
  BY <1>1
<1>3. [i \in 1 .. n |-> Share(r[i], f, lk)] = [i \in 1 .. n |-> Share(q[i], f, lk)]
  BY <1>1
<1> HIDE DEF r, n
<1>4. Shares(r, (1 .. n) \cup {n + 1}, f, lk) = Shares(r, 1 .. n, f, lk) + Shares(r, {n + 1}, f, lk)
  <2>1. 1 .. n \in SUBSET (DOMAIN r) /\ {n + 1} \in SUBSET (DOMAIN r)
    BY <1>2
  <2> QED BY <1>1, <1>2, <2>1, SharesSplit
<1>5. Shares(r, 1 .. n, f, lk) = Amount(q, f, lk)
  BY <1>1, <1>3 DEF Shares, Amount
<1>6. Shares(r, {n + 1}, f, lk) = Share(d, f, lk)
  <2>1. n + 1 \in DOMAIN r
    BY <1>2
  <2> QED BY <1>1, <2>1, SharesOfOne
<1>7. Amount(r, f, lk) = Shares(r, (1 .. n) \cup {n + 1}, f, lk)
  BY <1>2 DEF Amount
<1>8. Amount(r, f, lk) = Amount(q, f, lk) + Share(d, f, lk)
  BY <1>4, <1>5, <1>6, <1>7
<1> QED BY <1>1, <1>8 DEF r

(* What recording a change adds.                                           *)
Recorded(f, d, n, lk) == IF Covers(lk, f, d) THEN n ELSE 0

\* What aggregates.record adds to every folder, the change of nothing included.
LEMMA AmountQueued ==
    ASSUME NEW nodes \in SUBSET Folder, NEW q \in Seq(Queueable(nodes)), NEW w \in Root,
           NEW d \in Folder, NEW n \in Int, n # 0 => d \in nodes
    PROVE  /\ q \o Queued(w, d, n) \in Seq(Queueable(nodes))
           /\ \A f, lk : Amount(q \o Queued(w, d, n), f, lk) = Amount(q, f, lk) + Recorded(f, d, n, lk)
<1>1. q \in Seq(DeltaRow)
  <2>1. Queueable(nodes) \subseteq DeltaRow
    BY DEF Queueable
  <2> QED BY <2>1
<1>2. CASE n = 0
  <2>1. q \o Queued(w, d, n) = q
    BY <1>2 DEF Queued
  <2>2. \A f, lk : Amount(q, f, lk) \in Int /\ Recorded(f, d, n, lk) = 0
    BY <1>1, <1>2, AmountIsLoad DEF Recorded
  <2> QED BY <2>1, <2>2
<1>3. CASE n # 0
  <2> DEFINE row == Delta(w, d, n)
  <2>1. row \in DeltaRow /\ row \in Queueable(nodes) /\ row.folder = d /\ row.amount = n
    BY <1>3 DEF Delta, DeltaRow, Queueable
  <2>2. Queued(w, d, n) = <<row>>
    BY <1>3 DEF Queued
  <2> HIDE DEF row
  <2>3. q \o <<row>> = Append(q, row)
    BY <1>1
  <2>4. \A f, lk : Share(row, f, lk) = Recorded(f, d, n, lk)
    BY <2>1 DEF Share, Recorded
  <2>5. \A f, lk : Amount(Append(q, row), f, lk) = Amount(q, f, lk) + Share(row, f, lk)
    BY <1>1, <2>1, AmountAppend
  <2>6. Append(q, row) \in Seq(Queueable(nodes))
    BY <2>1
  <2>7. q \o Queued(w, d, n) = Append(q, row)
    BY <2>2, <2>3
  <2> QED BY <2>4, <2>5, <2>6, <2>7
<1> QED BY <1>2, <1>3

-----------------------------------------------------------------------------
(* What a drain leaves: the deltas it did not claim, in their order.       *)
Left(w) == FoldLeftDomain(LAMBDA kept, i :
    IF i \in Claimed(w) THEN kept ELSE Append(kept, queue[i]), <<>>, queue)

\* A drain takes from every folder what its claim added, and keeps the other rows.
LEMMA DrainLeaves ==
    ASSUME NEW nodes \in SUBSET Folder, queue \in Seq(Queueable(nodes)), NEW w
    PROVE  /\ Left(w) \in Seq(Queueable(nodes))
           /\ \A f, lk : Amount(Left(w), f, lk) =
                             Amount(queue, f, lk) - Shares(queue, Claimed(w), f, lk)
<1> DEFINE S == DOMAIN queue
           V == Seq(Queueable(nodes))
           K == Claimed(w)
           G == [p \in S \X V |-> IF p[1] \in K THEN p[2] ELSE Append(p[2], queue[p[1]])]
           C == [s \in SUBSET S |-> Max(s)]
           Rec(f) == f = [s \in SUBSET S |-> IF s = {} THEN <<>>
                              ELSE IF [i \in S |-> i][Max(s)] \in Claimed(w) THEN f[s \ {Max(s)}]
                                   ELSE Append(f[s \ {Max(s)}], queue[[i \in S |-> i][Max(s)]])]
           it == CHOOSE f : Rec(f)
<1>1. Left(w) = it[S]
  BY DEF Left, FoldLeftDomain, FoldLeft, MapThenFoldSet
<1>2. /\ IsFiniteSet(S) /\ Len(queue) \in Nat /\ S = 1 .. Len(queue)
      /\ \A i \in S : queue[i] \in Queueable(nodes)
  BY QueueIndices
<1>3. Queueable(nodes) \subseteq DeltaRow
  BY DEF Queueable
<1>4. V \subseteq Seq(DeltaRow) /\ queue \in Seq(DeltaRow)
  BY <1>3
<1>5. \A s \in SUBSET S : s # {} => C[s] \in s
  BY <1>2, GreatestIndex
<1>6. Foldable(S, V, <<>>, G, C)
  <2>1. <<>> \in V
    OBVIOUS
  <2>2. G \in [S \X V -> V]
    <3>1. \A p \in S \X V : p[1] \in S /\ p[2] \in V /\ Append(p[2], queue[p[1]]) \in V
      BY <1>2
    <3> HIDE DEF S, V, K
    <3> QED BY <3>1
  <2> QED BY <1>2, <1>5, <2>1, <2>2 DEF Foldable
<1>7. PICK x : Folding(x, S, V, <<>>, G, C)
  BY <1>6, FoldExists
<1>8. /\ x \in [SUBSET S -> V]
      /\ \A s \in SUBSET S : x[s] = IF s = {} THEN <<>> ELSE G[<<C[s], x[s \ {C[s]}]>>]
  BY <1>7 DEF Folding
<1>9. ASSUME NEW s \in SUBSET S, s # {}
      PROVE  /\ Max(s) \in s /\ C[s] = Max(s) /\ s \ {Max(s)} \in SUBSET S
             /\ x[s] = IF Max(s) \in K THEN x[s \ {Max(s)}]
                       ELSE Append(x[s \ {Max(s)}], queue[Max(s)])
  <2>1. PICK m \in s : m = Max(s)
    BY <1>2, <1>9, GreatestIndex
  <2>2. C[s] = m /\ m \in S /\ s \ {m} \in SUBSET S
    BY <2>1
  <2>3. x[s] = G[<<m, x[s \ {m}]>>]
    BY <1>8, <1>9, <2>2
  <2>4. x[s \ {m}] \in V
    BY <1>8, <2>2
  <2>5. G[<<m, x[s \ {m}]>>] = IF m \in K THEN x[s \ {m}] ELSE Append(x[s \ {m}], queue[m])
    <3> HIDE DEF V, K, S
    <3> QED BY <2>2, <2>4
  <2> HIDE DEF G, V, K, C
  <2> QED BY <2>1, <2>2, <2>3, <2>5
<1>10. Rec(x)
  <2>1. ASSUME NEW s \in SUBSET S
        PROVE  x[s] = IF s = {} THEN <<>>
                      ELSE IF [i \in S |-> i][Max(s)] \in Claimed(w) THEN x[s \ {Max(s)}]
                           ELSE Append(x[s \ {Max(s)}], queue[[i \in S |-> i][Max(s)]])
    <3>1. CASE s = {}
      BY <1>8, <3>1
    <3>2. CASE s # {}
      <4>1. Max(s) \in S
        BY <1>9, <3>2
      <4>2. [i \in S |-> i][Max(s)] = Max(s)
        BY <4>1
      <4> HIDE DEF S, V, G, C
      <4> QED BY <1>9, <3>2, <4>2
    <3> QED BY <3>1, <3>2
  <2>2. DOMAIN x = SUBSET S /\ x = [s \in SUBSET S |-> x[s]]
    BY <1>8
  <2> HIDE DEF S, V, G, C, K
  <2> QED BY <2>1, <2>2
<1>11. Rec(it)
  BY <1>10
<1> DEFINE P == {s \in SUBSET S : it[s] = x[s]}
<1>12. S \in P
  <2>1. {} \in P
    <3>1. it[{}] = <<>>
      BY <1>11
    <3> QED BY <1>8, <3>1
  <2>2. ASSUME NEW s \in SUBSET S, s # {}, s \ {C[s]} \in P PROVE s \in P
    <3>1. /\ Max(s) \in s /\ C[s] = Max(s)
          /\ x[s] = IF Max(s) \in K THEN x[s \ {Max(s)}]
                    ELSE Append(x[s \ {Max(s)}], queue[Max(s)])
      BY <1>9, <2>2
    <3>2. [i \in S |-> i][Max(s)] = Max(s)
      BY <3>1
    <3>3. it[s] = IF [i \in S |-> i][Max(s)] \in Claimed(w) THEN it[s \ {Max(s)}]
                  ELSE Append(it[s \ {Max(s)}], queue[[i \in S |-> i][Max(s)]])
      BY <1>11, <2>2
    <3>4. it[s] = IF Max(s) \in K THEN it[s \ {Max(s)}]
                  ELSE Append(it[s \ {Max(s)}], queue[Max(s)])
      BY <3>2, <3>3
    <3>5. it[s \ {Max(s)}] = x[s \ {Max(s)}]
      BY <2>2, <3>1
    <3> HIDE DEF it, K, C
    <3> QED BY <3>1, <3>4, <3>5
  <2>3. \A s \in SUBSET S : s # {} /\ s \ {C[s]} \in P => s \in P
    BY <2>2
  <2> HIDE DEF P, C
  <2>4. P \in SUBSET (SUBSET S)
    BY DEF P
  <2> QED BY <1>2, <1>5, <2>1, <2>3, <2>4, FoldInduction
<1> HIDE DEF it
<1>13. Left(w) = x[S]
  BY <1>1, <1>12 DEF P
<1>14. ASSUME NEW f, NEW lk
       PROVE  Amount(x[S], f, lk) = Shares(queue, S \ K, f, lk)
  <2> DEFINE Q == {s \in SUBSET S : Amount(x[s], f, lk) = Shares(queue, s \ K, f, lk)}
  <2>1. {} \in Q
    <3>1. x[{}] = <<>> /\ {} \ K = {} /\ DOMAIN <<>> = {}
      <4>1. x[{}] = <<>>
        BY <1>8
      <4>2. DOMAIN <<>> = {}
        OBVIOUS
      <4> HIDE DEF K
      <4> QED BY <4>1, <4>2
    <3>2. Shares(queue, {}, f, lk) = 0
      BY <1>4, SharesOfNone
    <3>3. <<>> \in Seq(DeltaRow)
      OBVIOUS
    <3>4. Shares(<<>>, {}, f, lk) = 0
      BY <3>3, SharesOfNone
    <3>5. Amount(<<>>, f, lk) = Shares(<<>>, DOMAIN <<>>, f, lk)
      BY DEF Amount
    <3>6. {} \in SUBSET S
      OBVIOUS
    <3> HIDE DEF S, K
    <3> QED BY <3>1, <3>2, <3>4, <3>5, <3>6
  <2>2. ASSUME NEW s \in SUBSET S, s # {}, s \ {C[s]} \in Q PROVE s \in Q
    <3>1. PICK m \in s : m = Max(s)
      BY <1>9, <2>2
    <3>2. /\ C[s] = m /\ s \ {m} \in SUBSET S /\ m \in S
          /\ x[s] = IF m \in K THEN x[s \ {m}] ELSE Append(x[s \ {m}], queue[m])
      BY <1>9, <2>2, <3>1
    <3>3. Amount(x[s \ {m}], f, lk) = Shares(queue, (s \ {m}) \ K, f, lk)
      BY <2>2, <3>2
    <3>4. CASE m \in K
      <4>1. (s \ {m}) \ K = s \ K
        BY <3>4
      <4> QED BY <3>2, <3>3, <3>4, <4>1
    <3>5. CASE m \notin K
      <4> DEFINE A == (s \ {m}) \ K
      <4>1. s \ K = A \cup {m} /\ A \cap {m} = {} /\ A \in SUBSET S /\ {m} \in SUBSET S
        BY <3>5
      <4>2. x[s \ {m}] \in Seq(DeltaRow) /\ queue[m] \in DeltaRow
        BY <1>2, <1>3, <1>4, <1>8, <3>2
      <4>3. x[s] = Append(x[s \ {m}], queue[m])
        BY <3>2, <3>5
      <4>4. Amount(x[s \ {m}], f, lk) = Shares(queue, A, f, lk)
        BY <3>3
      <4> HIDE DEF A, K
      <4>5. Amount(x[s], f, lk) = Amount(x[s \ {m}], f, lk) + Share(queue[m], f, lk)
        BY <4>2, <4>3, AmountAppend
      <4>6. Shares(queue, A \cup {m}, f, lk) = Shares(queue, A, f, lk) + Shares(queue, {m}, f, lk)
        BY <1>4, <4>1, SharesSplit
      <4>7. Shares(queue, {m}, f, lk) = Share(queue[m], f, lk)
        BY <1>4, <3>2, SharesOfOne
      <4>8. Amount(x[s], f, lk) = Shares(queue, s \ K, f, lk)
        BY <4>1, <4>5, <4>6, <4>7, <4>4
      <4> QED BY <4>8
    <3> QED BY <3>4, <3>5
  <2>3. \A s \in SUBSET S : s # {} /\ s \ {C[s]} \in Q => s \in Q
    BY <2>2
  <2> HIDE DEF Q, C
  <2>4. Q \in SUBSET (SUBSET S)
    BY DEF Q
  <2>5. S \in Q
    BY <1>2, <1>5, <2>1, <2>3, <2>4, FoldInduction
  <2> QED BY <2>5 DEF Q
<1>15. K \subseteq S
  BY DEF Claimed
<1>16. ASSUME NEW f, NEW lk
       PROVE  /\ Amount(queue, f, lk) = Shares(queue, S \ K, f, lk) + Shares(queue, K, f, lk)
              /\ Shares(queue, S \ K, f, lk) \in Int /\ Shares(queue, K, f, lk) \in Int
  <2>1. (S \ K) \cup K = S /\ (S \ K) \cap K = {} /\ S \ K \in SUBSET S /\ K \in SUBSET S
    BY <1>15
  <2> DEFINE A == S \ K
  <2> HIDE DEF K, A
  <2>2. A \cup K = S /\ A \cap K = {} /\ A \in SUBSET S /\ K \in SUBSET S
    BY <2>1 DEF A
  <2>3. Shares(queue, A \cup K, f, lk) = Shares(queue, A, f, lk) + Shares(queue, K, f, lk)
    BY <1>4, <2>2, SharesSplit
  <2>4. Shares(queue, A, f, lk) \in Int /\ Shares(queue, K, f, lk) \in Int
    BY <1>4, <2>2, SharesType
  <2> QED BY <2>2, <2>3, <2>4 DEF A, Amount
<1>17. ASSUME NEW f, NEW lk
       PROVE  Amount(Left(w), f, lk) = Amount(queue, f, lk) - Shares(queue, Claimed(w), f, lk)
  <2>1. Amount(Left(w), f, lk) = Shares(queue, S \ K, f, lk)
    BY <1>13, <1>14
  <2>2. /\ Amount(queue, f, lk) = Shares(queue, S \ K, f, lk) + Shares(queue, K, f, lk)
        /\ Shares(queue, S \ K, f, lk) \in Int /\ Shares(queue, K, f, lk) \in Int
    BY <1>16
  <2>3. Amount(Left(w), f, lk) = Amount(queue, f, lk) - Shares(queue, K, f, lk)
    BY <2>1, <2>2
  <2> QED BY <2>3
<1>18. Left(w) \in V
  BY <1>8, <1>13
<1> QED BY <1>17, <1>18

-----------------------------------------------------------------------------
(* The live files.                                                         *)
FileTable == [File -> FileRow \cup {None}]

\* The files of a table: which are live, where each is, and what it counts.
IsLive(fs, g) == fs[g] # None /\ fs[g].state = "live"

Home(fs) == [g \in File |-> IF fs[g] = None THEN None ELSE fs[g].at]
Held(fs) == [g \in File |-> IF IsLive(fs, g) THEN fs[g].size ELSE 0]

\* The size of the live files under a folder, of any table and any closure.
TruthOf(fs, lk, f) == Load(Home(fs), Held(fs), lk, f)

\* Files are weights at the folders they are in.
LEMMA HeldWeighs ==
    ASSUME NEW fs \in FileTable
    PROVE  /\ Weights(File, Home(fs), Held(fs))
           /\ \A g \in File : IsLive(fs, g) => fs[g].at \in Folder /\ fs[g].size \in Nat \ {0}
           /\ Held(fs) \in [File -> Nat]
<1>1. IsFiniteSet(File) /\ Size \subseteq Nat \ {0}
  BY TreeAssumption
<1>2. \A g \in File : IsLive(fs, g) => fs[g] \in FileRow
  BY DEF IsLive, FileTable
<1>3. \A g \in File : IsLive(fs, g) => fs[g].at \in Folder /\ fs[g].size \in Nat \ {0}
  BY <1>1, <1>2 DEF FileRow
<1>4. Held(fs) \in [File -> Nat]
  BY <1>3 DEF Held
<1>5. DOMAIN Home(fs) = File /\ Home(fs) = [g \in File |-> Home(fs)[g]]
  BY DEF Home
<1>6. Held(fs) \in [File -> Int]
  BY <1>4
<1> QED BY <1>1, <1>3, <1>4, <1>5, <1>6 DEF Weights

\* The ground truth is the load of the files.
LEMMA TruthIsHeld ==
    ASSUME NEW fs \in FileTable, NEW lk, NEW f
    PROVE  /\ SumFunction([g \in {h \in File : IsLive(fs, h) /\ Covers(lk, f, fs[h].at)} |->
                              fs[g].size])
                = TruthOf(fs, lk, f)
           /\ TruthOf(fs, lk, f) \in Nat
<1> DEFINE s == {h \in File : IsLive(fs, h) /\ Covers(lk, f, fs[h].at)}
           t == Weighed(Home(fs), Held(fs), lk, f)
<1>1. IsFiniteSet(File)
  BY TreeAssumption
<1>2. t \in [File -> Int]
  BY HeldWeighs, LoadType
<1>3. \A g \in File : t[g] = IF g \in s THEN fs[g].size ELSE 0
  <2>1. \A g \in File : t[g] = IF Covers(lk, f, Home(fs)[g]) THEN Held(fs)[g] ELSE 0
    BY DEF Weighed, Home
  <2>2. \A g \in File : IsLive(fs, g) => Home(fs)[g] = fs[g].at /\ Held(fs)[g] = fs[g].size
    BY DEF Home, Held, IsLive
  <2>3. \A g \in File : ~IsLive(fs, g) => Held(fs)[g] = 0
    BY DEF Held
  <2> HIDE DEF t
  <2> QED BY <2>1, <2>2, <2>3
<1>4. Restrict(t, s) = [g \in s |-> fs[g].size]
  <2>1. \A g \in s : t[g] = fs[g].size
    BY <1>3
  <2> HIDE DEF t, s
  <2> QED BY <2>1 DEF Restrict
<1>5. s \in SUBSET File /\ \A g \in File \ s : t[g] = 0
  BY <1>3
<1>6. t \in [File -> Nat]
  <2>1. \A g \in s : fs[g].size \in Nat
    BY HeldWeighs
  <2>2. \A g \in File : t[g] \in Nat
    BY <1>3, <2>1
  <2> HIDE DEF t, s
  <2> QED BY <1>2, <2>2
<1> HIDE DEF t, s
<1>7. SumFunction(t) = SumFunction(Restrict(t, s))
  BY <1>1, <1>2, <1>5, SumWithout
<1>8. SumFunction(t) \in Nat
  BY <1>1, <1>6, SumNat
<1>9. TruthOf(fs, lk, f) = SumFunction(t)
  BY DEF TruthOf, Load, t
<1>10. SumFunction([g \in s |-> fs[g].size]) = TruthOf(fs, lk, f)
  BY <1>4, <1>7, <1>9
<1> QED BY <1>8, <1>9, <1>10 DEF s

(* A change of one file's row.                                             *)
HeldUnder(fs, lk, f, g) == IF IsLive(fs, g) /\ Covers(lk, f, fs[g].at) THEN fs[g].size ELSE 0

\* One file of a table has a new row.
Rewritten(fs, new, g, row) ==
    fs \in FileTable /\ g \in File /\ row \in FileRow /\ new = [fs EXCEPT ![g] = row]

\* A new row of one file changes the truth by what that file held and holds.
LEMMA TruthChanges ==
    ASSUME NEW fs, NEW new, NEW g, NEW row, Rewritten(fs, new, g, row), NEW lk, NEW f
    PROVE  /\ new \in FileTable
           /\ TruthOf(new, lk, f) = TruthOf(fs, lk, f) - HeldUnder(fs, lk, f, g)
                                                       + HeldUnder(new, lk, f, g)
           /\ HeldUnder(fs, lk, f, g) \in Int /\ HeldUnder(new, lk, f, g) \in Int
<1> DEFINE t == Weighed(Home(fs), Held(fs), lk, f)
           u == Weighed(Home(new), Held(new), lk, f)
<1>1. IsFiniteSet(File) /\ g \in File /\ fs \in FileTable
  BY TreeAssumption DEF Rewritten
<1>2. new \in FileTable /\ new[g] = row /\ \A h \in File \ {g} : new[h] = fs[h]
  BY DEF FileTable, Rewritten
<1>3. t \in [File -> Int] /\ u \in [File -> Int]
  BY <1>1, <1>2, HeldWeighs, LoadType
<1>4. \A h \in File : t[h] = HeldUnder(fs, lk, f, h) /\ u[h] = HeldUnder(new, lk, f, h)
  BY DEF Weighed, Home, Held, HeldUnder, IsLive
<1>5. \A h \in File \ {g} : u[h] = t[h]
  <2>1. \A h \in File \ {g} : HeldUnder(fs, lk, f, h) = HeldUnder(new, lk, f, h)
    BY <1>2 DEF HeldUnder, IsLive
  <2> HIDE DEF t, u
  <2> QED BY <1>4, <2>1
<1>6. TruthOf(fs, lk, f) = SumFunction(t) /\ TruthOf(new, lk, f) = SumFunction(u)
  BY DEF TruthOf, Load
<1> HIDE DEF t, u
<1>7. SumFunction(u) = SumFunction(t) - t[g] + u[g]
  BY <1>1, <1>3, <1>5, SumChanges
<1> QED BY <1>1, <1>2, <1>3, <1>4, <1>7, <1>6

-----------------------------------------------------------------------------
(* The closure as an order: what holds of the ancestors in a tree.         *)
Ordered(lk, nodes, parent) ==
    /\ \A a \in nodes : Covers(lk, a, a)
    /\ \A a, b, d \in nodes : Covers(lk, a, b) /\ Covers(lk, b, d) => Covers(lk, a, d)
    /\ \A a, d \in nodes : Covers(lk, a, d) /\ Covers(lk, d, a) => a = d
    /\ \A d \in nodes : parent[d] \in nodes => parent[d] # d /\ Covers(lk, parent[d], d)
    /\ \A a, d \in nodes : Covers(lk, a, d) /\ a # d =>
          parent[d] \in nodes /\ Covers(lk, a, parent[d])

\* The links are among these folders.
Linked(lk, nodes) == lk \subseteq nodes \X nodes \X Nat

\* A link is among the folders; a subtree is what a folder covers.
LEMMA CoversInside ==
    ASSUME NEW nodes, NEW lk, Linked(lk, nodes), NEW a, NEW d, Covers(lk, a, d)
    PROVE  a \in nodes /\ d \in nodes
  BY DEF Covers, Linked

LEMMA SubtreeCovers ==
    ASSUME NEW lk, NEW f
    PROVE  \A d : d \in Subtree(lk, f) <=> Covers(lk, f, d)
  BY DEF Subtree, Covers

(* The subtree of f is taken from where it hung and hung under p.          *)
Rehung(lk, lm, nodes, f, p) == \A a, d \in nodes :
    Covers(lm, a, d) <=> IF Covers(lk, f, d)
                         THEN (Covers(lk, f, a) /\ Covers(lk, a, d)) \/ Covers(lk, a, p)
                         ELSE Covers(lk, a, d)

\* Detaching a subtree and attaching it elsewhere rehangs it, whatever the closure was.
LEMMA MovedRehangs ==
    ASSUME NEW nodes, NEW lk, Linked(lk, nodes), NEW f \in nodes, NEW p \in nodes,
           ~Covers(lk, f, p), Covers(lk, f, f), Covers(lk, p, p)
    PROVE  /\ Linked(Moved(lk, f, p), nodes)
           /\ Rehung(lk, Moved(lk, f, p), nodes, f, p)
<1> DEFINE rest == lk \ Outside(lk, f)
           lm == rest \cup Attaching(rest, f, p)
<1>1. Moved(lk, f, p) = lm
  BY DEF Moved
<1>2. \A l \in lk : l = <<l[1], l[2], l[3]>> /\ l[1] \in nodes /\ l[2] \in nodes /\ l[3] \in Nat
  BY DEF Linked
<1>3. \A l \in lk : l \in rest <=> (Covers(lk, f, l[2]) => Covers(lk, f, l[1]))
  BY SubtreeCovers DEF Outside
<1>4. \A l \in Attaching(rest, f, p) : \E above \in rest, below \in rest :
          /\ above[2] = p /\ below[1] = f
          /\ l = <<above[1], below[2], above[3] + below[3] + 1>>
  BY DEF Attaching, Link
<1>5. \A above, below \in rest : above[2] = p /\ below[1] = f =>
          <<above[1], below[2], above[3] + below[3] + 1>> \in Attaching(rest, f, p)
  BY DEF Attaching, Link
<1>6. Linked(lm, nodes)
  <2>1. ASSUME NEW l \in Attaching(rest, f, p)
        PROVE  l \in nodes \X nodes \X Nat
    <3>1. PICK above \in rest, below \in rest :
              l = <<above[1], below[2], above[3] + below[3] + 1>>
      BY <1>4
    <3>2. above \in lk /\ below \in lk
      OBVIOUS
    <3>3. above[1] \in nodes /\ below[2] \in nodes /\ above[3] \in Nat /\ below[3] \in Nat
      BY <1>2, <3>2
    <3> QED BY <3>1, <3>3
  <2> HIDE DEF rest
  <2>2. rest \subseteq lk
    BY DEF rest
  <2> QED BY <2>1, <2>2 DEF Linked
<1>7. ASSUME NEW a \in nodes, NEW d \in nodes
      PROVE  Covers(lm, a, d) <=> IF Covers(lk, f, d)
                         THEN (Covers(lk, f, a) /\ Covers(lk, a, d)) \/ Covers(lk, a, p)
                         ELSE Covers(lk, a, d)
  <2>1. Covers(rest, a, d) <=> Covers(lk, a, d) /\ (Covers(lk, f, d) => Covers(lk, f, a))
    <3>1. ASSUME Covers(rest, a, d)
          PROVE  Covers(lk, a, d) /\ (Covers(lk, f, d) => Covers(lk, f, a))
      <4>1. PICK l \in rest : l[1] = a /\ l[2] = d
        BY <3>1 DEF Covers
      <4>2. l \in lk
        BY <4>1
      <4>3. Covers(lk, f, d) => Covers(lk, f, a)
        BY <1>3, <4>1, <4>2
      <4> QED BY <4>1, <4>2, <4>3 DEF Covers
    <3>2. ASSUME Covers(lk, a, d), Covers(lk, f, d) => Covers(lk, f, a)
          PROVE  Covers(rest, a, d)
      <4>1. PICK l \in lk : l[1] = a /\ l[2] = d
        BY <3>2 DEF Covers
      <4>2. l \in rest
        BY <1>3, <3>2, <4>1
      <4> HIDE DEF rest
      <4> QED BY <4>1, <4>2 DEF Covers
    <3> QED BY <3>1, <3>2
  <2>2. Covers(Attaching(rest, f, p), a, d) <=> Covers(lk, f, d) /\ Covers(lk, a, p)
    <3>1. ASSUME Covers(Attaching(rest, f, p), a, d)
          PROVE  Covers(lk, f, d) /\ Covers(lk, a, p)
      <4>1. PICK l \in Attaching(rest, f, p) : l[1] = a /\ l[2] = d
        BY <3>1 DEF Covers
      <4>2. PICK above \in rest, below \in rest :
              /\ above[2] = p /\ below[1] = f
              /\ l = <<above[1], below[2], above[3] + below[3] + 1>>
        BY <1>4
      <4>3. above[1] = a /\ below[2] = d
        BY <4>1, <4>2
      <4>4. above \in lk /\ below \in lk
        OBVIOUS
      <4> QED BY <4>2, <4>3, <4>4 DEF Covers
    <3>2. ASSUME Covers(lk, f, d), Covers(lk, a, p)
          PROVE  Covers(Attaching(rest, f, p), a, d)
      <4>1. PICK above \in lk : above[1] = a /\ above[2] = p
        BY <3>2 DEF Covers
      <4>2. PICK below \in lk : below[1] = f /\ below[2] = d
        BY <3>2 DEF Covers
      <4>3. above \in rest /\ below \in rest
        BY <1>3, <4>1, <4>2
      <4> DEFINE l == <<above[1], below[2], above[3] + below[3] + 1>>
      <4>4. l \in Attaching(rest, f, p)
        BY <1>5, <4>1, <4>2, <4>3
      <4>5. l[1] = a /\ l[2] = d
        BY <4>1, <4>2
      <4> HIDE DEF l
      <4> QED BY <4>4, <4>5 DEF Covers
    <3> QED BY <3>1, <3>2
  <2>3. Covers(lm, a, d) <=> Covers(rest, a, d) \/ Covers(Attaching(rest, f, p), a, d)
    <3> HIDE DEF rest
    <3> QED BY DEF Covers
  <2> HIDE DEF lm, rest
  <2> QED BY <2>1, <2>2, <2>3
<1> HIDE DEF lm
<1> QED BY <1>1, <1>6, <1>7 DEF Rehung

(* A folder that is hung under one that it does not contain leaves a tree. *)
LEMMA RehungOrdered ==
    ASSUME NEW nodes, NEW lk, NEW lm, NEW parent, NEW above, Ordered(lk, nodes, parent),
           NEW f \in nodes, NEW p \in nodes, ~Covers(lk, f, p), Rehung(lk, lm, nodes, f, p),
           above[f] = p, \A d \in nodes \ {f} : above[d] = parent[d]
    PROVE  Ordered(lm, nodes, above)
<1> USE DEF Ordered
<1>1. \A a, d \in nodes : Covers(lm, a, d) <=>
          IF Covers(lk, f, d)
          THEN (Covers(lk, f, a) /\ Covers(lk, a, d)) \/ Covers(lk, a, p)
          ELSE Covers(lk, a, d)
  BY DEF Rehung
<1>2. \A a \in nodes : Covers(lm, a, a)
  BY <1>1
<1>3. ASSUME NEW a \in nodes, NEW b \in nodes, NEW d \in nodes, Covers(lm, a, b), Covers(lm, b, d)
      PROVE  Covers(lm, a, d)
  <2>1. CASE Covers(lk, f, d)
    <3>1. CASE Covers(lk, f, b) /\ Covers(lk, b, d)
      <4>1. (Covers(lk, f, a) /\ Covers(lk, a, b)) \/ Covers(lk, a, p)
        BY <1>1, <1>3, <3>1
      <4> QED BY <1>1, <2>1, <3>1, <4>1
    <3>2. CASE Covers(lk, b, p)
      <4>1. ~Covers(lk, f, b)
        BY <3>2
      <4>2. Covers(lk, a, b)
        BY <1>1, <1>3, <4>1
      <4>3. Covers(lk, a, p)
        BY <3>2, <4>2
      <4> QED BY <1>1, <2>1, <4>3
    <3>3. (Covers(lk, f, b) /\ Covers(lk, b, d)) \/ Covers(lk, b, p)
      BY <1>1, <1>3, <2>1
    <3> QED BY <3>1, <3>2, <3>3
  <2>2. CASE ~Covers(lk, f, d)
    <3>1. Covers(lk, b, d)
      BY <1>1, <1>3, <2>2
    <3>2. ~Covers(lk, f, b)
      BY <2>2, <3>1
    <3>3. Covers(lk, a, b)
      BY <1>1, <1>3, <3>2
    <3> QED BY <1>1, <2>2, <3>1, <3>3
  <2> QED BY <2>1, <2>2
<1>4. ASSUME NEW a \in nodes, NEW d \in nodes, Covers(lm, a, d), Covers(lm, d, a)
      PROVE  a = d
  <2>1. \A b \in nodes : Covers(lk, b, p) => ~Covers(lk, f, b)
    OBVIOUS
  <2>2. Covers(lk, f, d) => Covers(lk, f, a)
    <3>1. ASSUME Covers(lk, f, d), ~Covers(lk, f, a) PROVE FALSE
      <4>1. Covers(lk, d, a)
        BY <1>1, <1>4, <3>1
      <4> QED BY <3>1, <4>1
    <3> QED BY <3>1
  <2>3. Covers(lk, f, a) => Covers(lk, f, d)
    <3>1. ASSUME Covers(lk, f, a), ~Covers(lk, f, d) PROVE FALSE
      <4>1. Covers(lk, a, d)
        BY <1>1, <1>4, <3>1
      <4> QED BY <3>1, <4>1
    <3> QED BY <3>1
  <2>4. Covers(lk, a, d) /\ Covers(lk, d, a)
    BY <1>1, <1>4, <2>1, <2>2, <2>3
  <2> QED BY <2>4
<1>5. ASSUME NEW d \in nodes, above[d] \in nodes
      PROVE  above[d] # d /\ Covers(lm, above[d], d)
  <2>1. CASE d = f
    BY <1>1, <2>1
  <2>2. CASE d # f
    <3>1. PICK b \in nodes : b = parent[d] /\ above[d] = b
      BY <1>5, <2>2
    <3>2. b # d /\ Covers(lk, b, d)
      BY <3>1
    <3>3. Covers(lk, f, d) => Covers(lk, f, b)
      BY <2>2, <3>1
    <3> QED BY <1>1, <3>1, <3>2, <3>3
  <2> QED BY <2>1, <2>2
<1>6. ASSUME NEW a \in nodes, NEW d \in nodes, Covers(lm, a, d), a # d
      PROVE  above[d] \in nodes /\ Covers(lm, a, above[d])
  <2>1. CASE d = f
    <3>1. Covers(lk, a, p)
      BY <1>1, <1>6, <2>1
    <3> QED BY <1>1, <2>1, <3>1
  <2>2. CASE d # f
    <3>1. CASE Covers(lk, f, d)
      <4>1. PICK b \in nodes : b = parent[d] /\ above[d] = b /\ Covers(lk, f, b)
        BY <2>2, <3>1
      <4>2. CASE Covers(lk, f, a) /\ Covers(lk, a, d)
        <5>1. Covers(lk, a, b)
          BY <1>6, <4>1, <4>2
        <5> QED BY <1>1, <4>1, <4>2, <5>1
      <4>3. CASE Covers(lk, a, p)
        BY <1>1, <4>1, <4>3
      <4> QED BY <1>1, <1>6, <3>1, <4>2, <4>3
    <3>2. CASE ~Covers(lk, f, d)
      <4>1. Covers(lk, a, d)
        BY <1>1, <1>6, <3>2
      <4>2. PICK b \in nodes : b = parent[d] /\ above[d] = b /\ Covers(lk, a, b) /\ Covers(lk, b, d)
        BY <1>6, <2>2, <4>1
      <4>3. ~Covers(lk, f, b)
        BY <3>2, <4>2
      <4> QED BY <1>1, <4>2, <4>3
    <3> QED BY <3>1, <3>2
  <2> QED BY <2>1, <2>2
<1> HIDE DEF Ordered
<1> QED BY <1>2, <1>3, <1>4, <1>5, <1>6 DEF Ordered

\* f is new, and a child of p.
NewUnder(lk, nodes, parent, above, f, p) ==
    /\ Linked(lk, nodes) /\ Ordered(lk, nodes, parent)
    /\ f \notin nodes /\ p \in nodes /\ above[f] = p
    /\ \A d \in nodes : above[d] = parent[d] /\ parent[d] # f

\* The closure with f in it.
Grown(lk, lm, nodes, above, f, p) ==
    /\ Ordered(lm, nodes \cup {f}, above)
    /\ \A a, d \in nodes : Covers(lm, a, d) <=> Covers(lk, a, d)
    /\ \A a \in nodes \cup {f} : Covers(lm, a, f) <=> a = f \/ Covers(lk, a, p)
    /\ \A d \in nodes : ~Covers(lm, f, d)
    /\ Linked(lm, nodes \cup {f})

(* A new folder, with the ancestors of its parent.                         *)
LEMMA NewLinksOrdered ==
    ASSUME NEW lk, NEW nodes, NEW parent, NEW above, NEW f, NEW p,
           NewUnder(lk, nodes, parent, above, f, p)
    PROVE  Grown(lk, lk \cup NewLinks(lk, f, p), nodes, above, f, p)
<1> /\ Linked(lk, nodes) /\ Ordered(lk, nodes, parent)
    /\ f \notin nodes /\ p \in nodes /\ above[f] = p
    /\ \A d \in nodes : above[d] = parent[d] /\ parent[d] # f
  BY DEF NewUnder
<1> DEFINE lm == lk \cup NewLinks(lk, f, p)
           all == nodes \cup {f}
<1>1. \A l \in lk : l = <<l[1], l[2], l[3]>> /\ l[1] \in nodes /\ l[2] \in nodes /\ l[3] \in Nat
  BY DEF Linked
<1>2. \A l \in NewLinks(lk, f, p) :
          \/ l = <<f, f, 0>>
          \/ \E k \in lk : k[2] = p /\ l = <<k[1], f, k[3] + 1>>
  BY DEF NewLinks, Link
<1>3. /\ <<f, f, 0>> \in NewLinks(lk, f, p)
      /\ \A k \in lk : k[2] = p => <<k[1], f, k[3] + 1>> \in NewLinks(lk, f, p)
  BY DEF NewLinks, Link
<1>4. Linked(lm, all)
  <2>1. ASSUME NEW l \in NewLinks(lk, f, p) PROVE l \in all \X all \X Nat
    <3>1. CASE l = <<f, f, 0>>
      BY <3>1
    <3>2. CASE \E k \in lk : k[2] = p /\ l = <<k[1], f, k[3] + 1>>
      <4>1. PICK k \in lk : l = <<k[1], f, k[3] + 1>>
        BY <3>2
      <4>2. k[1] \in nodes /\ k[3] \in Nat
        BY <1>1
      <4> QED BY <4>1, <4>2
    <3> QED BY <1>2, <3>1, <3>2
  <2>2. \A l \in lk : l \in all \X all \X Nat
    BY <1>1
  <2> HIDE DEF all
  <2> QED BY <2>1, <2>2 DEF Linked
<1>5. ASSUME NEW a, NEW d \in nodes
      PROVE  Covers(lm, a, d) <=> Covers(lk, a, d)
  <2>1. \A l \in NewLinks(lk, f, p) : l[2] = f
    BY <1>2
  <2>2. \A l \in lm : l[2] = d => l \in lk
    BY <2>1
  <2> QED BY <2>2 DEF Covers
<1>6. ASSUME NEW a
      PROVE  Covers(lm, a, f) <=> a = f \/ Covers(lk, a, p)
  <2>1. ASSUME Covers(lm, a, f) PROVE a = f \/ Covers(lk, a, p)
    <3>1. PICK l \in lm : l[1] = a /\ l[2] = f
      BY <2>1 DEF Covers
    <3>2. l \notin lk
      BY <1>1, <3>1
    <3>3. CASE l = <<f, f, 0>>
      BY <3>1, <3>3
    <3>4. CASE \E k \in lk : k[2] = p /\ l = <<k[1], f, k[3] + 1>>
      <4>1. PICK k \in lk : k[2] = p /\ l = <<k[1], f, k[3] + 1>>
        BY <3>4
      <4>2. k[1] = a
        BY <3>1, <4>1
      <4> QED BY <4>1, <4>2 DEF Covers
    <3> QED BY <1>2, <3>2, <3>3, <3>4
  <2>2. ASSUME a = f PROVE Covers(lm, a, f)
    <3>1. <<f, f, 0>> \in lm /\ <<f, f, 0>>[1] = f /\ <<f, f, 0>>[2] = f
      BY <1>3
    <3> HIDE DEF lm
    <3> QED BY <2>2, <3>1 DEF Covers
  <2>3. ASSUME Covers(lk, a, p) PROVE Covers(lm, a, f)
    <3>1. PICK k \in lk : k[1] = a /\ k[2] = p
      BY <2>3 DEF Covers
    <3>2. PICK l \in lm : l = <<k[1], f, k[3] + 1>>
      BY <1>3, <3>1
    <3>3. l[1] = a /\ l[2] = f
      BY <3>1, <3>2
    <3> HIDE DEF lm
    <3> QED BY <3>3 DEF Covers
  <2> QED BY <2>1, <2>2, <2>3
<1>7. \A d \in nodes : ~Covers(lm, f, d)
  <2>1. ASSUME NEW d \in nodes, Covers(lk, f, d) PROVE FALSE
    BY <2>1, CoversInside
  <2> HIDE DEF lm
  <2> QED BY <1>5, <2>1
<1>8. Ordered(lm, all, above)
  <2> HIDE DEF lm
  <2>1. \A a \in all : Covers(lm, a, a)
    BY <1>5, <1>6 DEF Ordered
  <2>2. ASSUME NEW a \in all, NEW b \in all, NEW d \in all, Covers(lm, a, b), Covers(lm, b, d)
        PROVE  Covers(lm, a, d)
    <3>1. CASE d \in nodes
      <4>1. b \in nodes /\ a \in nodes
        BY <1>7, <2>2, <3>1
      <4>2. Covers(lk, a, b) /\ Covers(lk, b, d)
        BY <1>5, <2>2, <3>1, <4>1
      <4>3. Covers(lk, a, d)
        BY <3>1, <4>1, <4>2 DEF Ordered
      <4> QED BY <1>5, <3>1, <4>3
    <3>2. CASE d = f
      <4>1. CASE b = f
        BY <2>2, <3>2, <4>1
      <4>2. CASE b # f
        <5>1. b \in nodes /\ a \in nodes /\ Covers(lk, b, p)
          BY <1>6, <1>7, <2>2, <3>2, <4>2
        <5>2. Covers(lk, a, b)
          BY <1>5, <2>2, <5>1
        <5>3. Covers(lk, a, p)
          BY <5>1, <5>2 DEF Ordered
        <5> QED BY <1>6, <3>2, <5>3
      <4> QED BY <4>1, <4>2
    <3> QED BY <3>1, <3>2
  <2>3. ASSUME NEW a \in all, NEW d \in all, Covers(lm, a, d), Covers(lm, d, a)
        PROVE  a = d
    <3>1. CASE a = f /\ d = f
      BY <3>1
    <3>2. CASE a \in nodes /\ d \in nodes
      BY <1>5, <2>3, <3>2 DEF Ordered
    <3> QED BY <1>7, <2>3, <3>1, <3>2
  <2>4. ASSUME NEW d \in all, above[d] \in all
        PROVE  above[d] # d /\ Covers(lm, above[d], d)
    <3>1. CASE d = f
      <4>1. Covers(lk, p, p)
        BY DEF Ordered
      <4> QED BY <1>6, <3>1, <4>1
    <3>2. CASE d \in nodes
      <4>1. above[d] = parent[d] /\ parent[d] \in nodes
        BY <2>4, <3>2
      <4>2. parent[d] # d /\ Covers(lk, parent[d], d)
        BY <3>2, <4>1 DEF Ordered
      <4> QED BY <1>5, <3>2, <4>1, <4>2
    <3> QED BY <3>1, <3>2
  <2>5. ASSUME NEW a \in all, NEW d \in all, Covers(lm, a, d), a # d
        PROVE  above[d] \in all /\ Covers(lm, a, above[d])
    <3>1. CASE d = f
      BY <1>5, <1>6, <2>5, <3>1
    <3>2. CASE d \in nodes
      <4>1. a \in nodes /\ Covers(lk, a, d)
        BY <1>5, <1>7, <2>5, <3>2
      <4>2. parent[d] \in nodes /\ Covers(lk, a, parent[d])
        BY <2>5, <3>2, <4>1 DEF Ordered
      <4> QED BY <1>5, <3>2, <4>2
    <3> QED BY <3>1, <3>2
  <2> HIDE DEF all
  <2> QED BY <2>1, <2>2, <2>3, <2>4, <2>5 DEF Ordered
<1> HIDE DEF lm
<1>9. /\ \A a, d \in nodes : Covers(lm, a, d) <=> Covers(lk, a, d)
      /\ \A a \in nodes \cup {f} : Covers(lm, a, f) <=> a = f \/ Covers(lk, a, p)
  BY <1>5, <1>6
<1>10. Grown(lk, lm, nodes, above, f, p)
  BY <1>4, <1>7, <1>8, <1>9 DEF Grown
<1> QED BY <1>10 DEF lm

-----------------------------------------------------------------------------
(* Induction from the roots downwards.                                     *)
LEMMA DownwardInduction ==
    ASSUME NEW nodes, IsFiniteSet(nodes), NEW lk, NEW parent, Ordered(lk, nodes, parent),
           NEW P \in SUBSET nodes,
           \A d \in nodes : (parent[d] \in nodes => parent[d] \in P) => d \in P
    PROVE  P = nodes
<1> DEFINE Up(d) == {a \in nodes : Covers(lk, a, d)}
           T == {Cardinality(Up(d)) : d \in nodes \ P}
<1> SUFFICES ASSUME nodes \ P # {} PROVE FALSE
  OBVIOUS
<1>1. \A d \in nodes : IsFiniteSet(Up(d)) /\ Cardinality(Up(d)) \in Nat
  BY FS_Subset, FS_CardinalityType
<1>2. T \in SUBSET Nat /\ T # {}
  <2> HIDE DEF Up
  <2> QED BY <1>1
<1>3. PICK n \in T : \A m \in T : n <= m
  <2> HIDE DEF T
  <2> QED BY <1>2, Least
<1>4. PICK d \in nodes \ P : n = Cardinality(Up(d))
  OBVIOUS
<1>5. parent[d] \in nodes /\ parent[d] \notin P
  BY <1>4
<1>6. PICK e \in nodes \ P : e = parent[d]
  BY <1>5
<1>7. Covers(lk, e, d) /\ e # d
  BY <1>6 DEF Ordered
<1>8. Up(e) \subseteq Up(d)
  BY <1>7 DEF Ordered
<1>9. d \in Up(d) /\ d \notin Up(e)
  BY <1>7 DEF Ordered
<1> HIDE DEF Up
<1>10. Cardinality(Up(e)) < Cardinality(Up(d))
  <2>1. Up(e) # Up(d)
    BY <1>9
  <2>2. Cardinality(Up(e)) <= Cardinality(Up(d))
    BY <1>1, <1>8, FS_Subset
  <2>3. Cardinality(Up(e)) # Cardinality(Up(d))
    BY <1>1, <1>8, <2>1, FS_Subset
  <2> QED BY <1>1, <2>2, <2>3
<1>11. Cardinality(Up(e)) \in T
  OBVIOUS
<1>12. n <= Cardinality(Up(e)) /\ n \in Nat /\ Cardinality(Up(e)) \in Nat
  BY <1>1, <1>2, <1>3, <1>11
<1> QED BY <1>4, <1>10, <1>12

(* The folders above one folder are above one another.                     *)
LEMMA AncestorsInLine ==
    ASSUME NEW nodes, IsFiniteSet(nodes), NEW lk, NEW parent, Ordered(lk, nodes, parent)
    PROVE  \A a, b, d \in nodes : Covers(lk, a, d) /\ Covers(lk, b, d) =>
               Covers(lk, a, b) \/ Covers(lk, b, a)
<1> DEFINE P == {d \in nodes : \A a, b \in nodes : Covers(lk, a, d) /\ Covers(lk, b, d) =>
                     Covers(lk, a, b) \/ Covers(lk, b, a)}
<1>1. ASSUME NEW d \in nodes, parent[d] \in nodes => parent[d] \in P
      PROVE  d \in P
  <2> SUFFICES ASSUME NEW a \in nodes, NEW b \in nodes, Covers(lk, a, d), Covers(lk, b, d)
               PROVE  Covers(lk, a, b) \/ Covers(lk, b, a)
    OBVIOUS
  <2>1. CASE a = d \/ b = d
    BY <2>1
  <2>2. CASE a # d /\ b # d
    <3>1. parent[d] \in nodes /\ Covers(lk, a, parent[d]) /\ Covers(lk, b, parent[d])
      BY <2>2 DEF Ordered
    <3> QED BY <1>1, <3>1
  <2> QED BY <2>1, <2>2
<1>2. \A d \in nodes : (parent[d] \in nodes => parent[d] \in P) => d \in P
  BY <1>1
<1>3. P \in SUBSET nodes
  OBVIOUS
<1> HIDE DEF P
<1>4. P = nodes
  BY <1>2, <1>3, DownwardInduction
<1> QED BY <1>4 DEF P

(* Between a folder and one beneath it is one of its children.             *)
LEMMA ChildBetween ==
    ASSUME NEW nodes, IsFiniteSet(nodes), NEW lk, NEW parent, Ordered(lk, nodes, parent),
           NEW y \in nodes
    PROVE  \A d \in nodes : Covers(lk, y, d) /\ d # y =>
               \E c \in nodes : parent[c] = y /\ Covers(lk, c, d)
<1> DEFINE P == {d \in nodes : Covers(lk, y, d) /\ d # y =>
                     \E c \in nodes : parent[c] = y /\ Covers(lk, c, d)}
<1>1. ASSUME NEW d \in nodes, parent[d] \in nodes => parent[d] \in P
      PROVE  d \in P
  <2> SUFFICES ASSUME Covers(lk, y, d), d # y
               PROVE  \E c \in nodes : parent[c] = y /\ Covers(lk, c, d)
    OBVIOUS
  <2>1. parent[d] \in nodes /\ Covers(lk, y, parent[d]) /\ Covers(lk, parent[d], d) /\ Covers(lk, d, d)
    BY DEF Ordered
  <2>2. CASE parent[d] = y
    BY <2>1, <2>2
  <2>3. CASE parent[d] # y
    <3>1. PICK c \in nodes : parent[c] = y /\ Covers(lk, c, parent[d])
      BY <1>1, <2>1, <2>3
    <3>2. Covers(lk, c, d)
      BY <2>1, <3>1 DEF Ordered
    <3> QED BY <3>1, <3>2
  <2> QED BY <2>2, <2>3
<1>2. \A d \in nodes : (parent[d] \in nodes => parent[d] \in P) => d \in P
  BY <1>1
<1>3. P \in SUBSET nodes
  OBVIOUS
<1> HIDE DEF P
<1>4. P = nodes
  BY <1>2, <1>3, DownwardInduction
<1> QED BY <1>4 DEF P

\* Two children of one folder have nothing in common.
LEMMA SiblingsApart ==
    ASSUME NEW nodes, IsFiniteSet(nodes), NEW lk, NEW parent, Ordered(lk, nodes, parent),
           NEW c \in nodes, NEW e \in nodes, c # e, parent[c] = parent[e], parent[c] \in nodes,
           NEW d \in nodes, Covers(lk, c, d), Covers(lk, e, d)
    PROVE  FALSE
<1>1. PICK y \in nodes : y = parent[c] /\ y = parent[e]
  OBVIOUS
<1>2. y # c /\ Covers(lk, y, c) /\ y # e /\ Covers(lk, y, e)
  BY <1>1 DEF Ordered
<1>3. Covers(lk, c, e) \/ Covers(lk, e, c)
  BY AncestorsInLine
<1>4. CASE Covers(lk, c, e)
  <2>1. Covers(lk, c, y)
    BY <1>1, <1>4 DEF Ordered
  <2> QED BY <1>2, <2>1 DEF Ordered
<1>5. CASE Covers(lk, e, c)
  <2>1. Covers(lk, e, y)
    BY <1>1, <1>5 DEF Ordered
  <2> QED BY <1>2, <2>1 DEF Ordered
<1> QED BY <1>3, <1>4, <1>5

-----------------------------------------------------------------------------
(* One move after another.                                                 *)
LEMMA MovedLinked ==
    ASSUME NEW nodes, NEW lk, Linked(lk, nodes), NEW f, NEW p
    PROVE  /\ Linked(Moved(lk, f, p), nodes)
           /\ \A d : Covers(lk, d, d) => Covers(Moved(lk, f, p), d, d)
<1> DEFINE rest == lk \ Outside(lk, f)
<1>1. Moved(lk, f, p) = rest \cup Attaching(rest, f, p)
  BY DEF Moved
<1>2. \A l \in lk : l = <<l[1], l[2], l[3]>> /\ l[1] \in nodes /\ l[2] \in nodes /\ l[3] \in Nat
  BY DEF Linked
<1>3. ASSUME NEW l \in Attaching(rest, f, p)
      PROVE  l \in nodes \X nodes \X Nat
  <2>1. PICK above \in rest, below \in rest :
            l = <<above[1], below[2], above[3] + below[3] + 1>>
    BY DEF Attaching, Link
  <2>2. above \in lk /\ below \in lk
    OBVIOUS
  <2>3. above[1] \in nodes /\ below[2] \in nodes /\ above[3] \in Nat /\ below[3] \in Nat
    BY <1>2, <2>2
  <2> QED BY <2>1, <2>3
<1>4. \A l \in rest : l \in lk
  OBVIOUS
<1>5. \A l \in lk : l[1] = l[2] => l \in rest
  BY DEF Outside
<1> HIDE DEF rest
<1>6. Linked(Moved(lk, f, p), nodes)
  BY <1>1, <1>3, <1>4 DEF Linked
<1>7. ASSUME NEW d, Covers(lk, d, d) PROVE Covers(Moved(lk, f, p), d, d)
  <2>1. PICK l \in lk : l[1] = d /\ l[2] = d
    BY <1>7 DEF Covers
  <2>2. l \in rest
    BY <1>5, <2>1
  <2>3. l \in Moved(lk, f, p)
    BY <1>1, <2>2
  <2> QED BY <2>1, <2>3 DEF Covers
<1> QED BY <1>6, <1>7

(* A set of folders that no link leaves.                                   *)
Closed(lk, Z) == \A l \in lk : l[1] \in Z <=> l[2] \in Z

\* Nothing changes but between members of Z.
Elsewhere(lk, lm, Z) == \A l : l[1] \notin Z \/ l[2] \notin Z => (l \in lm <=> l \in lk)

\* What a move inside a closed set cuts and adds stays inside it.
LEMMA AttachedInside ==
    ASSUME NEW lk, NEW Z, Closed(lk, Z), NEW rest, rest \subseteq lk, NEW f \in Z, NEW p \in Z
    PROVE  /\ \A l \in Outside(lk, f) : l[1] \in Z /\ l[2] \in Z
           /\ \A l \in Attaching(rest, f, p) : l[1] \in Z /\ l[2] \in Z
<1>1. ASSUME NEW l \in Outside(lk, f) PROVE l[1] \in Z /\ l[2] \in Z
  <2>1. l \in lk /\ Covers(lk, f, l[2])
    BY SubtreeCovers DEF Outside
  <2>2. PICK k \in lk : k[1] = f /\ k[2] = l[2]
    BY <2>1 DEF Covers
  <2> QED BY <2>1, <2>2 DEF Closed
<1>2. ASSUME NEW l \in Attaching(rest, f, p) PROVE l[1] \in Z /\ l[2] \in Z
  <2>1. PICK above \in rest, below \in rest :
            /\ above[2] = p /\ below[1] = f
            /\ l = <<above[1], below[2], above[3] + below[3] + 1>>
    BY DEF Attaching, Link
  <2>2. above \in lk /\ below \in lk
    OBVIOUS
  <2>3. above[1] \in Z /\ below[2] \in Z
    BY <2>1, <2>2 DEF Closed
  <2> QED BY <2>1, <2>3
<1> QED BY <1>1, <1>2

LEMMA MovedWithin ==
    ASSUME NEW lk, NEW Z, Closed(lk, Z), NEW f \in Z, NEW p \in Z
    PROVE  Closed(Moved(lk, f, p), Z) /\ Elsewhere(lk, Moved(lk, f, p), Z)
<1> DEFINE rest == lk \ Outside(lk, f)
<1>1. Moved(lk, f, p) = rest \cup Attaching(rest, f, p)
  BY DEF Moved
<1>2. /\ \A l \in Outside(lk, f) : l[1] \in Z /\ l[2] \in Z
      /\ \A l \in Attaching(rest, f, p) : l[1] \in Z /\ l[2] \in Z
  BY AttachedInside
<1>3. \A l : l \in rest <=> l \in lk /\ l \notin Outside(lk, f)
  OBVIOUS
<1> HIDE DEF rest
<1>4. Closed(Moved(lk, f, p), Z)
  BY <1>1, <1>2, <1>3 DEF Closed
<1>5. Elsewhere(lk, Moved(lk, f, p), Z)
  BY <1>1, <1>2, <1>3 DEF Elsewhere
<1> QED BY <1>4, <1>5

(* The children of a folder that is absorbed, one after the other.         *)
Picked(K) == [s \in SUBSET K |-> CHOOSE c \in s : TRUE]

\* The children in K hung under x one after the other, in the order FoldSet takes them.
Relinked(lk, x, K) == FoldSet(LAMBDA c, acc : Moved(acc, c, x), lk, K)

\* w[s] is the closure once the children in s hang under x.
Relinks(w, lk, nodes, x, K) ==
    /\ w[{}] = lk /\ w[K] = Relinked(lk, x, K)
    /\ \A s \in SUBSET K : Linked(w[s], nodes)
    /\ \A s \in SUBSET K : s # {} =>
          Picked(K)[s] \in s /\ w[s] = Moved(w[s \ {Picked(K)[s]}], Picked(K)[s], x)

\* FoldSet hangs them one by one.
LEMMA RelinkSteps ==
    ASSUME NEW nodes, NEW lk, Linked(lk, nodes), NEW x, NEW K, IsFiniteSet(K)
    PROVE  \E w : Relinks(w, lk, nodes, x, K)
<1> DEFINE V == SUBSET (nodes \X nodes \X Nat)
           G == [m \in K \X V |-> Moved(m[2], m[1], x)]
           C == Picked(K)
           Rec(f) == f = [s \in SUBSET K |-> IF s = {} THEN lk
                              ELSE Moved(f[s \ {CHOOSE c \in s : TRUE}], CHOOSE c \in s : TRUE, x)]
           it == CHOOSE f : Rec(f)
<1>1. Relinked(lk, x, K) = it[K]
  BY DEF Relinked, FoldSet, MapThenFoldSet
<1>2. \A s \in SUBSET K : s # {} => C[s] \in s /\ C[s] = CHOOSE c \in s : TRUE
  BY DEF Picked
<1>3. \A m \in K \X V : Moved(m[2], m[1], x) \in V
  <2>1. ASSUME NEW m \in K \X V PROVE Moved(m[2], m[1], x) \in V
    <3>1. Linked(m[2], nodes)
      BY DEF Linked
    <3>2. Linked(Moved(m[2], m[1], x), nodes)
      BY <3>1, MovedLinked
    <3> QED BY <3>2 DEF Linked
  <2> QED BY <2>1
<1>4. Foldable(K, V, lk, G, C)
  <2>1. lk \in V
    BY DEF Linked
  <2> HIDE DEF V, C
  <2>2. G \in [K \X V -> V]
    BY <1>3
  <2> QED BY <1>2, <2>1, <2>2 DEF Foldable
<1>5. PICK w : Folding(w, K, V, lk, G, C)
  <2> HIDE DEF V, G, C
  <2> QED BY <1>4, FoldExists
<1>6. /\ w \in [SUBSET K -> V]
      /\ \A s \in SUBSET K : w[s] = IF s = {} THEN lk ELSE G[<<C[s], w[s \ {C[s]}]>>]
  BY <1>5 DEF Folding
<1>7. ASSUME NEW s \in SUBSET K, s # {}
      PROVE  C[s] \in s /\ w[s] = Moved(w[s \ {C[s]}], C[s], x)
  <2>1. PICK c \in s : c = C[s]
    BY <1>2, <1>7
  <2>2. w[s \ {c}] \in V /\ c \in K
    BY <1>6
  <2>3. w[s] = G[<<c, w[s \ {c}]>>]
    BY <1>6, <1>7, <2>1
  <2> HIDE DEF V, C
  <2>4. G[<<c, w[s \ {c}]>>] = Moved(w[s \ {c}], c, x)
    BY <2>2
  <2> HIDE DEF G
  <2> QED BY <2>1, <2>3, <2>4
<1>8. Rec(w)
  <2>1. \A s \in SUBSET K : w[s] = IF s = {} THEN lk
              ELSE Moved(w[s \ {CHOOSE c \in s : TRUE}], CHOOSE c \in s : TRUE, x)
    <3> HIDE DEF C, G, V
    <3> QED BY <1>2, <1>6, <1>7
  <2>2. w = [s \in SUBSET K |-> w[s]]
    BY <1>6
  <2> HIDE DEF C, G, V
  <2> QED BY <2>1, <2>2
<1>9. Rec(it)
  BY <1>8
<1> DEFINE P == {s \in SUBSET K : it[s] = w[s]}
<1>10. K \in P
  <2>1. {} \in P
    <3>1. it[{}] = lk
      BY <1>9
    <3>2. w[{}] = lk
      BY <1>6
    <3> QED BY <3>1, <3>2
  <2>2. ASSUME NEW s \in SUBSET K, s # {}, s \ {C[s]} \in P PROVE s \in P
    <3>1. PICK c \in s : c = C[s] /\ c = CHOOSE e \in s : TRUE
      BY <1>2, <2>2
    <3>2. it[s] = Moved(it[s \ {c}], c, x)
      BY <1>9, <2>2, <3>1
    <3>3. w[s] = Moved(w[s \ {c}], c, x)
      BY <1>7, <2>2, <3>1
    <3>4. it[s \ {c}] = w[s \ {c}]
      BY <2>2, <3>1
    <3> HIDE DEF it
    <3> QED BY <3>2, <3>3, <3>4
  <2>3. \A s \in SUBSET K : s # {} /\ s \ {C[s]} \in P => s \in P
    BY <2>2
  <2>4. \A s \in SUBSET K : s # {} => C[s] \in s
    BY <1>2
  <2> HIDE DEF P, C
  <2>5. P \in SUBSET (SUBSET K)
    BY DEF P
  <2> QED BY <2>1, <2>3, <2>4, <2>5, FoldInduction
<1>11. w[K] = Relinked(lk, x, K)
  <2> HIDE DEF it
  <2> QED BY <1>1, <1>10
<1>12. w[{}] = lk
  BY <1>6
<1>13. \A s \in SUBSET K : Linked(w[s], nodes)
  BY <1>6 DEF Linked
<1>14. \A s \in SUBSET K : s # {} => C[s] \in s /\ w[s] = Moved(w[s \ {C[s]}], C[s], x)
  BY <1>7
<1> QED BY <1>11, <1>12, <1>13, <1>14 DEF Relinks

\* Hanging the children over keeps links among the folders, and changes no others.
LEMMA RelinkedWithin ==
    ASSUME NEW nodes, NEW lk, Linked(lk, nodes), NEW x, NEW K, IsFiniteSet(K)
    PROVE  /\ Linked(Relinked(lk, x, K), nodes)
           /\ \A d : Covers(lk, d, d) => Covers(Relinked(lk, x, K), d, d)
           /\ \A Z : Closed(lk, Z) /\ x \in Z /\ K \subseteq Z =>
                 Closed(Relinked(lk, x, K), Z) /\ Elsewhere(lk, Relinked(lk, x, K), Z)
<1>1. PICK w : Relinks(w, lk, nodes, x, K)
  BY RelinkSteps
<1>2. /\ w[{}] = lk /\ w[K] = Relinked(lk, x, K)
      /\ \A s \in SUBSET K : Linked(w[s], nodes)
      /\ \A s \in SUBSET K : s # {} =>
            /\ Picked(K)[s] \in s
            /\ w[s] = Moved(w[s \ {Picked(K)[s]}], Picked(K)[s], x)
  BY <1>1 DEF Relinks
<1> DEFINE C == Picked(K)
<1>3. \A s \in SUBSET K : s # {} => C[s] \in s
  BY <1>2
<1>4. ASSUME NEW d, Covers(lk, d, d) PROVE Covers(w[K], d, d)
  <2> DEFINE P == {s \in SUBSET K : Covers(w[s], d, d)}
  <2>1. {} \in P
    BY <1>2, <1>4
  <2>2. ASSUME NEW s \in SUBSET K, s # {}, s \ {C[s]} \in P PROVE s \in P
    <3>1. Covers(w[s \ {C[s]}], d, d) /\ s \ {C[s]} \in SUBSET K
      BY <2>2
    <3>2. Linked(w[s \ {C[s]}], nodes)
      BY <1>2, <3>1
    <3>3. Covers(Moved(w[s \ {C[s]}], C[s], x), d, d)
      BY <3>1, <3>2, MovedLinked
    <3>4. w[s] = Moved(w[s \ {C[s]}], C[s], x)
      BY <1>2, <2>2
    <3> QED BY <3>3, <3>4
  <2>3. \A s \in SUBSET K : s # {} /\ s \ {C[s]} \in P => s \in P
    BY <2>2
  <2> HIDE DEF P, C
  <2>4. P \in SUBSET (SUBSET K)
    BY DEF P
  <2>5. K \in P
    BY <1>3, <2>1, <2>3, <2>4, FoldInduction
  <2> QED BY <2>5 DEF P
<1>5. ASSUME NEW Z, Closed(lk, Z), x \in Z, K \subseteq Z
      PROVE  Closed(w[K], Z) /\ Elsewhere(lk, w[K], Z)
  <2> DEFINE P == {s \in SUBSET K : Closed(w[s], Z) /\ Elsewhere(lk, w[s], Z)}
  <2>1. {} \in P
    BY <1>2, <1>5 DEF Elsewhere
  <2>2. ASSUME NEW s \in SUBSET K, s # {}, s \ {C[s]} \in P PROVE s \in P
    <3>1. PICK acc : acc = w[s \ {C[s]}]
      OBVIOUS
    <3>2. Closed(acc, Z) /\ Elsewhere(lk, acc, Z)
      BY <2>2, <3>1
    <3>3. C[s] \in Z
      BY <1>3, <1>5, <2>2
    <3>4. w[s] = Moved(acc, C[s], x)
      BY <1>2, <2>2, <3>1
    <3> HIDE DEF C
    <3>5. Closed(w[s], Z) /\ Elsewhere(acc, w[s], Z)
      BY <1>5, <3>2, <3>3, <3>4, MovedWithin
    <3>6. Elsewhere(lk, w[s], Z)
      BY <3>2, <3>5 DEF Elsewhere
    <3> QED BY <3>5, <3>6
  <2>3. \A s \in SUBSET K : s # {} /\ s \ {C[s]} \in P => s \in P
    BY <2>2
  <2> HIDE DEF P, C
  <2>4. P \in SUBSET (SUBSET K)
    BY DEF P
  <2>5. K \in P
    BY <1>3, <2>1, <2>3, <2>4, FoldInduction
  <2> QED BY <2>5 DEF P
<1>6. Linked(w[K], nodes)
  BY <1>2
<1> QED BY <1>2, <1>4, <1>5, <1>6

(* What the children of y, hung under x, make of the closure.              *)
Adopted(lk, lm, nodes, s, x) == \A a, d \in nodes :
    Covers(lm, a, d) <=>
        IF \E c \in s : Covers(lk, c, d)
        THEN (\E c \in s : Covers(lk, c, a) /\ Covers(lk, a, d)) \/ Covers(lk, a, x)
        ELSE Covers(lk, a, d)

\* One more child under x: its subtree has x and what is above x over it.
LEMMA AdoptedStep ==
    ASSUME NEW nodes, IsFiniteSet(nodes), NEW lk, NEW parent, Ordered(lk, nodes, parent),
           NEW x \in nodes, NEW y \in nodes, ~Covers(lk, y, x),
           NEW s \in SUBSET nodes, \A c \in s : parent[c] = y,
           NEW e \in s, NEW acc, Adopted(lk, acc, nodes, s \ {e}, x),
           NEW new, Rehung(acc, new, nodes, e, x)
    PROVE  Adopted(lk, new, nodes, s, x)
<1> DEFINE r == s \ {e}
<1>1. \A a, d \in nodes : Covers(acc, a, d) <=>
        IF \E c \in r : Covers(lk, c, d)
        THEN (\E c \in r : Covers(lk, c, a) /\ Covers(lk, a, d)) \/ Covers(lk, a, x)
        ELSE Covers(lk, a, d)
  BY DEF Adopted
<1>2. \A a, d \in nodes : Covers(new, a, d) <=>
        IF Covers(acc, e, d) THEN (Covers(acc, e, a) /\ Covers(acc, a, d)) \/ Covers(acc, a, x)
        ELSE Covers(acc, a, d)
  BY DEF Rehung
<1>3. \A c \in s : ~Covers(lk, c, x)
  <2>1. ASSUME NEW c \in s, Covers(lk, c, x) PROVE FALSE
    <3>1. Covers(lk, y, c) /\ c \in nodes
      BY DEF Ordered
    <3> QED BY <2>1, <3>1 DEF Ordered
  <2> QED BY <2>1
<1>4. \A c \in r : \A d \in nodes : ~(Covers(lk, c, d) /\ Covers(lk, e, d))
  <2>1. ASSUME NEW c \in r, NEW d \in nodes, Covers(lk, c, d), Covers(lk, e, d) PROVE FALSE
    <3>1. c \in nodes /\ e \in nodes /\ c # e /\ parent[c] = y /\ parent[e] = y
      OBVIOUS
    <3> QED BY <2>1, <3>1, SiblingsApart
  <2> QED BY <2>1
<1>5. e \in nodes /\ r \subseteq nodes
  OBVIOUS
<1>6. /\ \A a \in nodes : Covers(lk, a, a)
      /\ \A a, b, d \in nodes : Covers(lk, a, b) /\ Covers(lk, b, d) => Covers(lk, a, d)
  BY DEF Ordered
<1>7. \A c : c \in s <=> c = e \/ c \in r
  OBVIOUS
<1>8. \A c \in r : ~Covers(lk, c, x)
  BY <1>3
<1> HIDE DEF r
<1>9. \A d \in nodes : Covers(acc, e, d) <=> Covers(lk, e, d)
  BY <1>1, <1>3, <1>4, <1>5, <1>6
<1>10. \A a \in nodes : Covers(acc, a, x) <=> Covers(lk, a, x)
  BY <1>1, <1>8
<1> SUFFICES ASSUME NEW a \in nodes, NEW d \in nodes
             PROVE  Covers(new, a, d) <=>
                      IF \E c \in s : Covers(lk, c, d)
                      THEN (\E c \in s : Covers(lk, c, a) /\ Covers(lk, a, d)) \/ Covers(lk, a, x)
                      ELSE Covers(lk, a, d)
  BY DEF Adopted
<1>11. CASE Covers(lk, e, d)
  <2>1. ~\E c \in r : Covers(lk, c, d)
    BY <1>4, <1>11
  <2>2. Covers(acc, a, d) <=> Covers(lk, a, d)
    BY <1>1, <2>1
  <2>3. Covers(new, a, d) <=> (Covers(lk, e, a) /\ Covers(lk, a, d)) \/ Covers(lk, a, x)
    BY <1>2, <1>9, <1>10, <1>11, <2>2
  <2>4. ASSUME NEW c \in r, Covers(lk, c, a), Covers(lk, a, d) PROVE FALSE
    <3>1. Covers(lk, c, d)
      BY <1>5, <1>6, <2>4
    <3> QED BY <2>1, <3>1
  <2>5. (\E c \in s : Covers(lk, c, a) /\ Covers(lk, a, d)) <=> Covers(lk, e, a) /\ Covers(lk, a, d)
    BY <1>7, <2>4
  <2> QED BY <1>7, <1>11, <2>3, <2>5
<1>12. CASE ~Covers(lk, e, d)
  <2>1. Covers(new, a, d) <=> Covers(acc, a, d)
    BY <1>2, <1>9, <1>12
  <2>2. (\E c \in s : Covers(lk, c, d)) <=> \E c \in r : Covers(lk, c, d)
    BY <1>7, <1>12
  <2>3. ~(Covers(lk, e, a) /\ Covers(lk, a, d))
    BY <1>5, <1>6, <1>12
  <2>4. (\E c \in s : Covers(lk, c, a) /\ Covers(lk, a, d)) <=>
            \E c \in r : Covers(lk, c, a) /\ Covers(lk, a, d)
    BY <1>7, <2>3
  <2> QED BY <1>1, <2>1, <2>2, <2>4
<1> QED BY <1>11, <1>12

\* All children of y under x: a tree again, in which each of them has x as its parent.
LEMMA RelinkedOrdered ==
    ASSUME NEW nodes, IsFiniteSet(nodes), NEW lk, NEW parent, Linked(lk, nodes),
           Ordered(lk, nodes, parent), NEW x \in nodes, NEW y \in nodes, ~Covers(lk, y, x),
           NEW K, K = {c \in nodes : parent[c] = y}
    PROVE  /\ Adopted(lk, Relinked(lk, x, K), nodes, K, x)
           /\ Ordered(Relinked(lk, x, K), nodes, [d \in nodes |-> IF d \in K THEN x ELSE parent[d]])
<1>1. IsFiniteSet(K) /\ K \in SUBSET nodes
  BY FS_Subset
<1>2. PICK w : Relinks(w, lk, nodes, x, K)
  BY <1>1, RelinkSteps
<1>3. /\ w[{}] = lk /\ w[K] = Relinked(lk, x, K)
      /\ \A s \in SUBSET K : Linked(w[s], nodes)
      /\ \A s \in SUBSET K : s # {} =>
            /\ Picked(K)[s] \in s
            /\ w[s] = Moved(w[s \ {Picked(K)[s]}], Picked(K)[s], x)
  BY <1>2 DEF Relinks
<1> DEFINE C == Picked(K)
           Hung(s) == [d \in nodes |-> IF d \in s THEN x ELSE parent[d]]
           P == {s \in SUBSET K : Adopted(lk, w[s], nodes, s, x) /\ Ordered(w[s], nodes, Hung(s))}
<1>4. \A s \in SUBSET K : s # {} => C[s] \in s
  BY <1>3
<1>5. {} \in P
  <2>1. Adopted(lk, w[{}], nodes, {}, x)
    BY <1>3 DEF Adopted
  <2>2. \A d \in nodes : Hung({})[d] = parent[d]
    OBVIOUS
  <2> HIDE DEF Hung
  <2>3. Ordered(w[{}], nodes, Hung({}))
    BY <1>3, <2>2 DEF Ordered
  <2> QED BY <2>1, <2>3
<1>6. ASSUME NEW s \in SUBSET K, s # {}, s \ {C[s]} \in P PROVE s \in P
  <2>1. PICK e \in s : e = C[s]
    BY <1>4, <1>6
  <2>2. PICK acc : acc = w[s \ {e}]
    OBVIOUS
  <2>3. Adopted(lk, acc, nodes, s \ {e}, x) /\ Ordered(acc, nodes, Hung(s \ {e}))
    BY <1>6, <2>1, <2>2
  <2>4. w[s] = Moved(acc, e, x) /\ Linked(acc, nodes)
    <3>1. s \ {e} \in SUBSET K
      OBVIOUS
    <3> QED BY <1>3, <1>6, <2>1, <2>2, <3>1
  <2>5. s \in SUBSET nodes /\ e \in nodes /\ \A c \in s : parent[c] = y
    BY <1>1
  <2>6. \A c \in s : ~Covers(lk, c, x)
    <3>1. ASSUME NEW c \in s, Covers(lk, c, x) PROVE FALSE
      <4>1. Covers(lk, y, c) /\ c \in nodes
        BY <2>5 DEF Ordered
      <4> QED BY <3>1, <4>1 DEF Ordered
    <3> QED BY <3>1
  <2>7. ~Covers(acc, e, x)
    BY <2>3, <2>5, <2>6 DEF Adopted
  <2>8. Covers(acc, e, e) /\ Covers(acc, x, x)
    BY <2>3, <2>5 DEF Ordered
  <2>9. Rehung(acc, w[s], nodes, e, x)
    BY <2>4, <2>5, <2>7, <2>8, MovedRehangs
  <2>10. Adopted(lk, w[s], nodes, s, x)
    BY <2>3, <2>5, <2>9, AdoptedStep
  <2>11. Hung(s)[e] = x /\ \A d \in nodes \ {e} : Hung(s)[d] = Hung(s \ {e})[d]
    BY <2>5
  <2> HIDE DEF Hung
  <2>12. Ordered(w[s], nodes, Hung(s))
    BY <2>3, <2>5, <2>7, <2>9, <2>11, RehungOrdered
  <2> QED BY <2>10, <2>12
<1>7. \A s \in SUBSET K : s # {} /\ s \ {C[s]} \in P => s \in P
  BY <1>6
<1> HIDE DEF P, C
<1>8. P \in SUBSET (SUBSET K)
  BY DEF P
<1>9. K \in P
  BY <1>1, <1>4, <1>5, <1>7, <1>8, FoldInduction
<1> QED BY <1>3, <1>9 DEF P

(* A folder without children goes.                                         *)
Without(lk, y) == {l \in lk : y \notin {l[1], l[2]}}

\* A folder without children leaves a tree, and no other link is missed.
LEMMA LeafGone ==
    ASSUME NEW nodes, NEW lk, NEW parent, Linked(lk, nodes), Ordered(lk, nodes, parent),
           NEW y \in nodes, \A d \in nodes : parent[d] # y,
           NEW lm, lm = Without(lk, y)
    PROVE  /\ Linked(lm, nodes \ {y}) /\ Ordered(lm, nodes \ {y}, parent)
           /\ \A a, d \in nodes \ {y} : Covers(lm, a, d) <=> Covers(lk, a, d)
<1> DEFINE rest == nodes \ {y}
<1>1. \A a, d \in rest : Covers(lm, a, d) <=> Covers(lk, a, d)
  BY DEF Covers, Without
<1>2. Linked(lm, rest)
  <2>1. \A l \in lm : l \in rest \X rest \X Nat
    BY DEF Linked, Without
  <2> QED BY <2>1 DEF Linked
<1>3. rest \subseteq nodes /\ \A d \in rest : parent[d] \in nodes => parent[d] \in rest
  OBVIOUS
<1> HIDE DEF rest
<1>4. Ordered(lm, rest, parent)
  <2>1. \A a \in rest : Covers(lm, a, a)
    BY <1>1, <1>3 DEF Ordered
  <2>2. \A a, b, d \in rest : Covers(lm, a, b) /\ Covers(lm, b, d) => Covers(lm, a, d)
    <3>1. ASSUME NEW a \in rest, NEW b \in rest, NEW d \in rest, Covers(lm, a, b), Covers(lm, b, d)
          PROVE  Covers(lm, a, d)
      <4>1. Covers(lk, a, b) /\ Covers(lk, b, d)
        BY <1>1, <3>1
      <4>2. Covers(lk, a, d)
        BY <1>3, <4>1 DEF Ordered
      <4> QED BY <1>1, <4>2
    <3> QED BY <3>1
  <2>3. \A a, d \in rest : Covers(lm, a, d) /\ Covers(lm, d, a) => a = d
    BY <1>1, <1>3 DEF Ordered
  <2>4. \A d \in rest : parent[d] \in rest => parent[d] # d /\ Covers(lm, parent[d], d)
    BY <1>1, <1>3 DEF Ordered
  <2>5. \A a, d \in rest : Covers(lm, a, d) /\ a # d => parent[d] \in rest /\ Covers(lm, a, parent[d])
    <3>1. ASSUME NEW a \in rest, NEW d \in rest, Covers(lm, a, d), a # d
          PROVE  parent[d] \in rest /\ Covers(lm, a, parent[d])
      <4>1. Covers(lk, a, d)
        BY <1>1, <3>1
      <4>2. parent[d] \in nodes /\ Covers(lk, a, parent[d])
        BY <1>3, <3>1, <4>1 DEF Ordered
      <4> QED BY <1>1, <1>3, <4>2
    <3> QED BY <3>1
  <2> QED BY <2>1, <2>2, <2>3, <2>4, <2>5 DEF Ordered
<1> QED BY <1>1, <1>2, <1>4 DEF rest

(* x takes the place of y: the children of y hang under x, and x under p.  *)
Replaced(lk, lm, nodes, x, y, p) == \A a, d \in nodes \ {y} :
    Covers(lm, a, d) <=>
        IF Covers(lk, x, d) THEN (Covers(lk, x, a) /\ Covers(lk, a, d)) \/ Covers(lk, a, p)
        ELSE IF Covers(lk, y, d)
        THEN (Covers(lk, y, a) /\ Covers(lk, a, d)) \/ a = x \/ Covers(lk, a, p)
        ELSE Covers(lk, a, d)

(* Two folders apart, and the closure and the parents that a transfer from *)
(* y to x leaves.                                                          *)
Apart(lk, nodes, parent, x, y, p) ==
    /\ IsFiniteSet(nodes) /\ Linked(lk, nodes) /\ Ordered(lk, nodes, parent)
    /\ x \in nodes /\ y \in nodes /\ p \in nodes
    /\ parent[y] = p /\ parent[x] \in nodes /\ parent[x] # y
    /\ ~Covers(lk, y, x) /\ ~Covers(lk, x, y) /\ ~Covers(lk, x, p)

\* The links that a transfer writes: the children of y under x, y gone, x under p.
Taking(lk, lm, nodes, parent, above, x, y, p, K) ==
    /\ K = {c \in nodes : parent[c] = y}
    /\ lm = IF parent[x] = p THEN Without(Relinked(lk, x, K), y)
                             ELSE Moved(Without(Relinked(lk, x, K), y), x, p)
    /\ \A d \in nodes \ {y} :
          above[d] = IF d = x THEN p ELSE IF d \in K THEN x ELSE parent[d]

\* A transfer puts x in the place of y, and the parents say so.
LEMMA TransferReplaces ==
    ASSUME NEW lk, NEW lm, NEW nodes, NEW parent, NEW above, NEW x, NEW y, NEW p, NEW K,
           Apart(lk, nodes, parent, x, y, p), Taking(lk, lm, nodes, parent, above, x, y, p, K)
    PROVE  /\ Ordered(lm, nodes \ {y}, above)
           /\ Replaced(lk, lm, nodes, x, y, p)
<1>1. /\ IsFiniteSet(nodes) /\ Linked(lk, nodes) /\ Ordered(lk, nodes, parent)
      /\ x \in nodes /\ y \in nodes /\ p \in nodes
      /\ parent[y] = p /\ parent[x] \in nodes /\ parent[x] # y
      /\ ~Covers(lk, y, x) /\ ~Covers(lk, x, y) /\ ~Covers(lk, x, p)
  BY DEF Apart
<1>2. /\ K = {c \in nodes : parent[c] = y}
      /\ \A d \in nodes \ {y} :
            above[d] = IF d = x THEN p ELSE IF d \in K THEN x ELSE parent[d]
  BY DEF Taking
<1>3. PICK without : without = Without(Relinked(lk, x, K), y)
  OBVIOUS
<1>4. lm = IF parent[x] = p THEN without ELSE Moved(without, x, p)
  BY <1>3 DEF Taking
<1> USE <1>1, <1>2, <1>3, <1>4
<1> DEFINE acc == Relinked(lk, x, K)
           rest == nodes \ {y}
           Hung == [d \in nodes |-> IF d \in K THEN x ELSE parent[d]]
           under(d) == Covers(lk, y, d) /\ d # y
<1>5. Adopted(lk, acc, nodes, K, x) /\ Ordered(acc, nodes, Hung)
  BY RelinkedOrdered
<1>6. Linked(acc, nodes)
  <2>1. IsFiniteSet(K)
    BY FS_Subset
  <2> HIDE DEF acc
  <2> QED BY <2>1, RelinkedWithin DEF acc
<1>7. /\ \A a \in nodes : Covers(lk, a, a)
      /\ \A a, b, d \in nodes : Covers(lk, a, b) /\ Covers(lk, b, d) => Covers(lk, a, d)
      /\ \A a, d \in nodes : Covers(lk, a, d) /\ Covers(lk, d, a) => a = d
      /\ \A d \in nodes : parent[d] \in nodes => parent[d] # d /\ Covers(lk, parent[d], d)
      /\ \A a, d \in nodes : Covers(lk, a, d) /\ a # d =>
            parent[d] \in nodes /\ Covers(lk, a, parent[d])
  BY DEF Ordered
<1>8. \A a, b, d \in nodes : Covers(lk, a, d) /\ Covers(lk, b, d) =>
          Covers(lk, a, b) \/ Covers(lk, b, a)
  BY AncestorsInLine
<1>9. p # y /\ x # y /\ x # p /\ Covers(lk, p, y) /\ ~Covers(lk, y, p) /\ x \notin K
  BY <1>7
<1>10. \A d \in nodes : (\E c \in K : Covers(lk, c, d)) <=> under(d)
  <2>1. ASSUME NEW d \in nodes, NEW c \in K, Covers(lk, c, d) PROVE under(d)
    <3>1. c \in nodes /\ c # y /\ Covers(lk, y, c)
      BY <1>7
    <3>2. Covers(lk, y, d)
      BY <1>7, <2>1, <3>1
    <3> QED BY <1>7, <2>1, <3>1, <3>2
  <2>2. ASSUME NEW d \in nodes, under(d) PROVE \E c \in K : Covers(lk, c, d)
    BY <2>2, ChildBetween
  <2> QED BY <2>1, <2>2
<1>11. \A a, d \in nodes : Covers(acc, a, d) <=>
           IF under(d) THEN (under(a) /\ Covers(lk, a, d)) \/ Covers(lk, a, x) ELSE Covers(lk, a, d)
  <2>1. \A a, d \in nodes : Covers(acc, a, d) <=>
          IF \E c \in K : Covers(lk, c, d)
          THEN (\E c \in K : Covers(lk, c, a) /\ Covers(lk, a, d)) \/ Covers(lk, a, x)
          ELSE Covers(lk, a, d)
    <3> HIDE DEF acc
    <3> QED BY <1>5 DEF Adopted
  <2>2. \A a, d \in nodes : (\E c \in K : Covers(lk, c, a) /\ Covers(lk, a, d)) <=>
            under(a) /\ Covers(lk, a, d)
    BY <1>10
  <2> HIDE DEF acc, under
  <2> QED BY <1>10, <2>1, <2>2
<1>12. /\ Linked(without, rest) /\ Ordered(without, rest, Hung)
       /\ \A a, d \in rest : Covers(without, a, d) <=> Covers(acc, a, d)
  <2>1. \A d \in nodes : Hung[d] # y
    BY <1>9
  <2>2. without = Without(acc, y)
    OBVIOUS
  <2>3. Ordered(acc, nodes, Hung) /\ y \in nodes
    BY <1>5
  <2> HIDE DEF acc, Hung
  <2> QED BY ONLY <1>6, <2>1, <2>2, <2>3, LeafGone
<1>13. \A a, d \in rest : Covers(without, a, d) <=>
           IF under(d) THEN (under(a) /\ Covers(lk, a, d)) \/ Covers(lk, a, x) ELSE Covers(lk, a, d)
  <2> HIDE DEF acc, under
  <2> QED BY <1>11, <1>12
<1>14. \A d \in nodes : ~(Covers(lk, x, d) /\ Covers(lk, y, d))
  BY <1>8
<1>15. x \in rest /\ p \in rest /\ rest \subseteq nodes /\ \A d \in rest : d # y
  BY <1>9
<1>16. \A a \in rest : Covers(without, a, p) <=> Covers(lk, a, p)
  <2>1. ~under(p)
    BY <1>9
  <2> HIDE DEF under
  <2> QED BY <1>13, <1>15, <2>1
<1>17. \A d \in rest : Covers(without, x, d) <=> Covers(lk, x, d) \/ under(d)
  BY <1>7, <1>13, <1>14, <1>15
<1>18. CASE parent[x] # p
  <2>1. lm = Moved(without, x, p)
    BY <1>18
  <2>2. ~Covers(without, x, p)
    BY <1>15, <1>16
  <2>3. Covers(without, x, x) /\ Covers(without, p, p)
    BY <1>12, <1>15 DEF Ordered
  <2> HIDE DEF rest, Hung
  <2>4. Rehung(without, lm, rest, x, p)
    <3>1. Linked(without, rest) /\ x \in rest /\ p \in rest
      BY <1>12, <1>15
    <3>2. Rehung(without, Moved(without, x, p), rest, x, p)
      BY <2>2, <2>3, <3>1, MovedRehangs
    <3> QED BY <2>1, <3>2
  <2>5. above[x] = p /\ \A d \in rest \ {x} : above[d] = Hung[d]
    BY <1>15 DEF Hung, rest
  <2>6. Ordered(lm, rest, above)
    BY <1>12, <1>15, <2>2, <2>4, <2>5, RehungOrdered
  <2>7. ASSUME NEW a \in rest, NEW d \in rest
        PROVE  Covers(lm, a, d) <=>
                 IF Covers(lk, x, d) THEN (Covers(lk, x, a) /\ Covers(lk, a, d)) \/ Covers(lk, a, p)
                 ELSE IF Covers(lk, y, d)
                 THEN (Covers(lk, y, a) /\ Covers(lk, a, d)) \/ a = x \/ Covers(lk, a, p)
                 ELSE Covers(lk, a, d)
    <3>1. Covers(lm, a, d) <=>
            IF Covers(lk, x, d) \/ under(d)
            THEN ((Covers(lk, x, a) \/ under(a)) /\ Covers(without, a, d)) \/ Covers(lk, a, p)
            ELSE Covers(without, a, d)
      <4>1. Covers(lm, a, d) <=>
              IF Covers(without, x, d)
              THEN (Covers(without, x, a) /\ Covers(without, a, d)) \/ Covers(without, a, p)
              ELSE Covers(without, a, d)
        BY <2>4 DEF Rehung
      <4> HIDE DEF under
      <4> QED BY <1>16, <1>17, <4>1
    <3>2. a \in nodes /\ d \in nodes /\ a # y /\ d # y
      BY <1>15
    <3>3. CASE Covers(lk, x, d)
      <4>1. ~Covers(lk, y, d) /\ (Covers(without, a, d) <=> Covers(lk, a, d))
        BY <1>13, <1>14, <3>2, <3>3
      <4>2. Covers(lk, a, d) => ~Covers(lk, y, a)
        BY <1>7, <3>2, <4>1
      <4> QED BY <3>1, <3>3, <4>1, <4>2
    <3>4. CASE ~Covers(lk, x, d) /\ Covers(lk, y, d)
      <4>1. Covers(without, a, d) <=> (under(a) /\ Covers(lk, a, d)) \/ Covers(lk, a, x)
        BY <1>13, <3>2, <3>4
      <4>2. Covers(lk, x, a) => ~Covers(lk, a, d)
        BY <1>7, <3>2, <3>4
      <4>3. Covers(lk, x, a) /\ Covers(lk, a, x) <=> a = x
        BY <1>7, <3>2
      <4>4. under(a) => ~Covers(lk, a, x)
        BY <1>7, <3>2
      <4> QED BY <3>1, <3>2, <3>4, <4>1, <4>2, <4>3, <4>4
    <3>5. CASE ~Covers(lk, x, d) /\ ~Covers(lk, y, d)
      BY <1>13, <3>1, <3>2, <3>5
    <3> QED BY <3>3, <3>4, <3>5
  <2> QED BY <2>6, <2>7 DEF Replaced, rest
<1>19. CASE parent[x] = p
  <2>1. lm = without
    BY <1>19
  <2>2. \A d \in rest : above[d] = Hung[d]
    BY <1>9, <1>15, <1>19
  <2> HIDE DEF Hung
  <2>3. Ordered(lm, rest, above)
    <3>1. Ordered(lm, rest, Hung)
      BY <1>12, <2>1
    <3> HIDE DEF rest
    <3> QED BY <2>2, <3>1 DEF Ordered
  <2>4. ASSUME NEW a \in rest, NEW d \in rest
        PROVE  Covers(lm, a, d) <=>
                 IF Covers(lk, x, d) THEN (Covers(lk, x, a) /\ Covers(lk, a, d)) \/ Covers(lk, a, p)
                 ELSE IF Covers(lk, y, d)
                 THEN (Covers(lk, y, a) /\ Covers(lk, a, d)) \/ a = x \/ Covers(lk, a, p)
                 ELSE Covers(lk, a, d)
    <3>1. a \in nodes /\ d \in nodes /\ a # y /\ d # y
      BY <1>15
    <3>2. Covers(lk, a, x) <=> a = x \/ Covers(lk, a, p)
      BY <1>7, <1>19, <3>1
    <3>3. CASE Covers(lk, x, d)
      <4>1. ~Covers(lk, y, d) /\ (Covers(without, a, d) <=> Covers(lk, a, d))
        BY <1>13, <1>14, <3>1, <3>3
      <4>2. Covers(lk, a, d) => Covers(lk, x, a) \/ Covers(lk, a, x)
        BY <1>8, <3>1, <3>3
      <4>3. a = x => Covers(lk, x, a) /\ Covers(lk, a, d)
        BY <1>7, <3>3
      <4>4. Covers(lk, a, p) => Covers(lk, a, d)
        BY <1>7, <3>2, <3>1, <3>3
      <4> QED BY <2>1, <3>2, <3>3, <4>1, <4>2, <4>3, <4>4
    <3>4. CASE ~Covers(lk, x, d) /\ Covers(lk, y, d)
      BY <1>13, <2>1, <3>2, <3>1, <3>4
    <3>5. CASE ~Covers(lk, x, d) /\ ~Covers(lk, y, d)
      BY <1>13, <2>1, <3>1, <3>5
    <3> QED BY <3>3, <3>4, <3>5
  <2> QED BY <2>3, <2>4 DEF Replaced
<1> QED BY <1>18, <1>19

-----------------------------------------------------------------------------
(* What a change of the tree does to a total. Whatever lies in a subtree   *)
(* that is moved is taken from the folders above its old parent o and      *)
(* given to those above its new parent p.                                  *)
Shift(lk, a, o, p) == IF Covers(lk, a, p) THEN IF Covers(lk, a, o) THEN 0 ELSE 1
                                          ELSE IF Covers(lk, a, o) THEN -1 ELSE 0

\* What weighs anything lies in a folder.
Placed(S, place, weight, nodes) == \A i \in S : weight[i] # 0 => place[i] \in nodes

(* A folder covers what is in a subtree from within it, or from above.     *)
LEMMA CoversFromAbove ==
    ASSUME NEW nodes, IsFiniteSet(nodes), NEW lk, NEW parent, Ordered(lk, nodes, parent),
           NEW f \in nodes, parent[f] \in nodes, NEW a \in nodes, NEW d \in nodes, Covers(lk, f, d)
    PROVE  /\ Covers(lk, a, d) <=> (Covers(lk, f, a) /\ Covers(lk, a, d)) \/ Covers(lk, a, parent[f])
           /\ ~(Covers(lk, f, a) /\ Covers(lk, a, parent[f]))
<1>1. PICK o \in nodes : o = parent[f]
  OBVIOUS
<1>2. o # f /\ Covers(lk, o, f) /\ ~Covers(lk, f, o)
  BY <1>1 DEF Ordered
<1>3. Covers(lk, a, o) => Covers(lk, a, d)
  <2>1. ASSUME Covers(lk, a, o) PROVE Covers(lk, a, d)
    <3>1. Covers(lk, a, f)
      BY <1>2, <2>1 DEF Ordered
    <3> QED BY <3>1 DEF Ordered
  <2> QED BY <2>1
<1>4. Covers(lk, a, d) => Covers(lk, f, a) \/ Covers(lk, a, f)
  BY AncestorsInLine
<1>5. Covers(lk, a, f) => a = f \/ Covers(lk, a, o)
  BY <1>1 DEF Ordered
<1>6. Covers(lk, f, f)
  BY DEF Ordered
<1>7. Covers(lk, f, a) /\ Covers(lk, a, o) => Covers(lk, f, o)
  BY DEF Ordered
<1> QED BY <1>1, <1>2, <1>3, <1>4, <1>5, <1>6, <1>7

\* A move shifts the load of the subtree from the old ancestors to the new ones.
LEMMA MoveShifts ==
    ASSUME NEW nodes, IsFiniteSet(nodes), NEW lk, NEW parent, Ordered(lk, nodes, parent),
           NEW f \in nodes, NEW p \in nodes, NEW o, o = parent[f], o \in nodes, ~Covers(lk, f, p),
           NEW lm, Rehung(lk, lm, nodes, f, p),
           NEW S, NEW place, NEW weight, Weights(S, place, weight), Placed(S, place, weight, nodes),
           NEW a \in nodes
    PROVE  /\ Load(place, weight, lm, a) =
                  Load(place, weight, lk, a) + Shift(lk, a, o, p) * Load(place, weight, lk, f)
           /\ Covers(lm, a, o) <=> Covers(lk, a, o)
           /\ Covers(lm, a, p) <=> Covers(lk, a, p)
<1> DEFINE t == Weighed(place, weight, lm, a)
           k == Shift(lk, a, o, p)
<1>1. ASSUME NEW d \in nodes, Covers(lk, f, d)
      PROVE  /\ Covers(lk, a, d) <=> (Covers(lk, f, a) /\ Covers(lk, a, d)) \/ Covers(lk, a, o)
             /\ ~(Covers(lk, f, a) /\ Covers(lk, a, o))
  BY <1>1, CoversFromAbove
<1>2. ~(Covers(lk, f, a) /\ Covers(lk, a, p))
  BY DEF Ordered
<1>3. k \in {-1, 0, 1}
  BY DEF Shift
<1>4. t \in [S -> Int] /\ \A i \in S : weight[i] \in Int
  BY LoadType DEF Weights
<1>5. ASSUME NEW i \in S
      PROVE  t[i] = Weighed(place, weight, lk, a)[i] +
                        (IF Covers(lk, f, place[i]) THEN k * weight[i] ELSE 0)
  <2>1. /\ t[i] = IF Covers(lm, a, place[i]) THEN weight[i] ELSE 0
        /\ Weighed(place, weight, lk, a)[i] = IF Covers(lk, a, place[i]) THEN weight[i] ELSE 0
    BY DEF Weighed, Weights
  <2>2. PICK n \in Int : n = weight[i]
    BY <1>4
  <2>3. CASE n = 0
    <3>1. k * n = 0
      BY <1>3, <2>3
    <3> HIDE DEF t, k
    <3> QED BY <2>1, <2>2, <2>3, <3>1
  <2>4. CASE n # 0
    <3>1. PICK d \in nodes : d = place[i]
      BY <2>2, <2>4 DEF Placed
    <3>2. Covers(lm, a, d) <=> IF Covers(lk, f, d)
              THEN (Covers(lk, f, a) /\ Covers(lk, a, d)) \/ Covers(lk, a, p)
              ELSE Covers(lk, a, d)
      BY DEF Rehung
    <3>3. t[i] = IF Covers(lm, a, d) THEN n ELSE 0
      BY <2>1, <2>2, <3>1
    <3>4. Weighed(place, weight, lk, a)[i] = IF Covers(lk, a, d) THEN n ELSE 0
      BY <2>1, <2>2, <3>1
    <3>5. CASE Covers(lk, f, d)
      <4>1. Covers(lk, a, d) <=> (Covers(lk, f, a) /\ Covers(lk, a, d)) \/ Covers(lk, a, o)
        BY <1>1, <3>5
      <4>2. ~(Covers(lk, f, a) /\ Covers(lk, a, o))
        BY <1>1, <3>5
      <4>3. k * n = IF Covers(lk, a, p) THEN IF Covers(lk, a, o) THEN 0 ELSE n
                                        ELSE IF Covers(lk, a, o) THEN -n ELSE 0
        BY DEF Shift
      <4> HIDE DEF t, k
      <4>4. t[i] = Weighed(place, weight, lk, a)[i] + k * n
        BY <1>2, <3>2, <3>3, <3>4, <3>5, <4>1, <4>2, <4>3
      <4> QED BY <2>2, <3>1, <3>5, <4>4
    <3>6. CASE ~Covers(lk, f, d)
      <4>1. t[i] = Weighed(place, weight, lk, a)[i] + 0
        BY <3>2, <3>3, <3>4, <3>6
      <4> HIDE DEF t, k
      <4> QED BY <3>1, <3>6, <4>1
    <3> QED BY <3>5, <3>6
  <2> QED BY <2>3, <2>4
<1> HIDE DEF t, k
<1>6. SumFunction(t) = Load(place, weight, lk, a) + k * Load(place, weight, lk, f)
  BY <1>3, <1>4, <1>5, LoadShifts
<1>7. Load(place, weight, lm, a) = SumFunction(t)
  BY DEF Load, t
<1>8. ~Covers(lk, f, o)
  BY DEF Ordered
<1>9. /\ Covers(lm, a, o) <=> Covers(lk, a, o)
      /\ Covers(lm, a, p) <=> Covers(lk, a, p)
  BY <1>8 DEF Rehung
<1> QED BY <1>6, <1>7, <1>9 DEF k

(* The folder that takes the place of another takes over what lay in it.   *)
Alike(lk, lm, a, o, p) ==
    /\ Covers(lm, a, o) <=> Covers(lk, a, o)
    /\ Covers(lm, a, p) <=> Covers(lk, a, p)

\* What was in y is in x; everything else stays.
Sent(S, place, to, weight, nodes, x, y) ==
    /\ Weights(S, place, weight) /\ Placed(S, place, weight, nodes) /\ Weights(S, to, weight)
    /\ \A i \in S : to[i] = IF place[i] = y THEN x ELSE place[i]

\* A transfer shifts the load of x from its old ancestors to its new ones, and adds that of y.
LEMMA TransferShifts ==
    ASSUME NEW lk, NEW lm, NEW nodes, NEW parent, NEW x, NEW y, NEW p,
           Apart(lk, nodes, parent, x, y, p), Replaced(lk, lm, nodes, x, y, p),
           NEW S, NEW place, NEW to, NEW weight, Sent(S, place, to, weight, nodes, x, y),
           NEW a \in nodes \ {y}
    PROVE  /\ Load(to, weight, lm, a) =
                  Load(place, weight, lk, a) + Shift(lk, a, parent[x], p) * Load(place, weight, lk, x)
                      + (IF a = x THEN Load(place, weight, lk, y) ELSE 0)
           /\ Alike(lk, lm, a, parent[x], p)
<1>1. /\ IsFiniteSet(nodes) /\ Ordered(lk, nodes, parent)
      /\ x \in nodes /\ y \in nodes /\ p \in nodes /\ parent[y] = p
      /\ ~Covers(lk, y, x) /\ ~Covers(lk, x, y) /\ ~Covers(lk, x, p)
  BY DEF Apart
<1>2. PICK o : o = parent[x] /\ o \in nodes /\ o # y
  BY DEF Apart
<1>3. /\ Weights(S, place, weight) /\ Placed(S, place, weight, nodes) /\ Weights(S, to, weight)
      /\ \A i \in S : to[i] = IF place[i] = y THEN x ELSE place[i]
  BY DEF Sent
<1> SUFFICES /\ Load(to, weight, lm, a) =
                  Load(place, weight, lk, a) + Shift(lk, a, o, p) * Load(place, weight, lk, x)
                      + (IF a = x THEN Load(place, weight, lk, y) ELSE 0)
             /\ Covers(lm, a, o) <=> Covers(lk, a, o)
             /\ Covers(lm, a, p) <=> Covers(lk, a, p)
  BY <1>2 DEF Alike
<1> USE <1>1, <1>2, <1>3
<1> DEFINE t == Weighed(to, weight, lm, a)
           k == Shift(lk, a, o, p)
<1>4. /\ Covers(lk, x, x) /\ Covers(lk, y, y) /\ x # y /\ p # y /\ p # x
      /\ Covers(lk, p, y) /\ ~Covers(lk, x, o) /\ ~Covers(lk, y, o) /\ ~Covers(lk, y, p)
  <2>1. Covers(lk, o, x) /\ o # x /\ Covers(lk, p, y) /\ p # y /\ Covers(lk, x, x) /\ Covers(lk, y, y)
    BY DEF Ordered
  <2>2. ~Covers(lk, x, o) /\ ~Covers(lk, y, p)
    BY <2>1 DEF Ordered
  <2>3. ~Covers(lk, y, o)
    BY <2>1 DEF Ordered
  <2> QED BY <2>1, <2>2, <2>3
<1>5. ASSUME NEW d \in nodes, Covers(lk, x, d)
      PROVE  /\ Covers(lk, a, d) <=> (Covers(lk, x, a) /\ Covers(lk, a, d)) \/ Covers(lk, a, o)
             /\ ~(Covers(lk, x, a) /\ Covers(lk, a, o))
             /\ ~Covers(lk, y, d)
  <2>1. /\ Covers(lk, a, d) <=> (Covers(lk, x, a) /\ Covers(lk, a, d)) \/ Covers(lk, a, o)
        /\ ~(Covers(lk, x, a) /\ Covers(lk, a, o))
    BY <1>5, CoversFromAbove
  <2>2. ~Covers(lk, y, d)
    BY <1>5, AncestorsInLine
  <2> QED BY <2>1, <2>2
<1>6. ASSUME NEW d \in nodes, Covers(lk, y, d)
      PROVE  Covers(lk, a, d) <=> (Covers(lk, y, a) /\ Covers(lk, a, d)) \/ Covers(lk, a, p)
  BY <1>6, CoversFromAbove
<1>7. ~(Covers(lk, x, a) /\ Covers(lk, a, p))
  BY DEF Ordered
<1>8. \A d \in nodes \ {y} : Covers(lm, a, d) <=>
        IF Covers(lk, x, d) THEN (Covers(lk, x, a) /\ Covers(lk, a, d)) \/ Covers(lk, a, p)
        ELSE IF Covers(lk, y, d)
        THEN (Covers(lk, y, a) /\ Covers(lk, a, d)) \/ a = x \/ Covers(lk, a, p)
        ELSE Covers(lk, a, d)
  BY DEF Replaced
<1>9. k \in {-1, 0, 1} /\ t \in [S -> Int] /\ \A i \in S : weight[i] \in Int
  BY LoadType DEF Weights, Shift
<1>10. \A i \in S : /\ t[i] = IF Covers(lm, a, to[i]) THEN weight[i] ELSE 0
                    /\ Weighed(place, weight, lk, a)[i] =
                           IF Covers(lk, a, place[i]) THEN weight[i] ELSE 0
  BY DEF Weighed, Weights
<1>11. Covers(lk, x, a) /\ Covers(lk, a, x) => a = x
  BY DEF Ordered
<1>12. ASSUME NEW d \in nodes
       PROVE  LET e == IF d = y THEN x ELSE d IN
              /\ a = x => (Covers(lm, a, e) <=> Covers(lk, x, d) \/ Covers(lk, y, d))
              /\ a # x /\ ~Covers(lk, x, d) => (Covers(lm, a, e) <=> Covers(lk, a, d))
              /\ Covers(lk, x, d) =>
                    (Covers(lm, a, e) <=> (Covers(lk, x, a) /\ Covers(lk, a, d)) \/ Covers(lk, a, p))
  <2>1. CASE d = y
    <3>1. Covers(lm, a, x) <=> (Covers(lk, x, a) /\ Covers(lk, a, x)) \/ Covers(lk, a, p)
      BY <1>4, <1>8
    <3>2. Covers(lk, a, y) <=> (Covers(lk, y, a) /\ Covers(lk, a, y)) \/ Covers(lk, a, p)
      BY <1>4, <1>6
    <3>3. ~(Covers(lk, y, a) /\ Covers(lk, a, y))
      BY DEF Ordered
    <3> QED BY <1>4, <1>11, <2>1, <3>1, <3>2, <3>3
  <2>2. CASE d # y
    <3>1. d \in nodes \ {y}
      BY <2>2
    <3>2. CASE Covers(lk, x, d)
      <4>1. ~Covers(lk, y, d)
        BY <1>5, <3>2
      <4>2. Covers(lm, a, d) <=> (Covers(lk, x, a) /\ Covers(lk, a, d)) \/ Covers(lk, a, p)
        BY <1>8, <3>1, <3>2
      <4> QED BY <1>4, <2>2, <3>2, <4>1, <4>2
    <3>3. CASE ~Covers(lk, x, d) /\ Covers(lk, y, d)
      <4>1. Covers(lm, a, d) <=> (Covers(lk, y, a) /\ Covers(lk, a, d)) \/ a = x \/ Covers(lk, a, p)
        BY <1>8, <3>1, <3>3
      <4>2. Covers(lk, a, d) <=> (Covers(lk, y, a) /\ Covers(lk, a, d)) \/ Covers(lk, a, p)
        BY <1>6, <3>3
      <4> QED BY <2>2, <3>3, <4>1, <4>2
    <3>4. CASE ~Covers(lk, x, d) /\ ~Covers(lk, y, d)
      <4>1. Covers(lm, a, d) <=> Covers(lk, a, d)
        BY <1>8, <3>1, <3>4
      <4> QED BY <2>2, <3>4, <4>1
    <3> QED BY <3>2, <3>3, <3>4
  <2> QED BY <2>1, <2>2
<1>13. /\ Covers(lm, a, o) <=> Covers(lk, a, o)
       /\ Covers(lm, a, p) <=> Covers(lk, a, p)
  BY <1>4, <1>8
<1>14. CASE a = x
  <2>1. ~Covers(lk, a, o) /\ ~Covers(lk, a, p) /\ k = 0
    BY <1>4, <1>14 DEF Shift
  <2>2. ASSUME NEW i \in S
        PROVE  t[i] = Weighed(place, weight, lk, x)[i] +
                          (IF Covers(lk, y, place[i]) THEN 1 * weight[i] ELSE 0)
    <3>1. PICK n \in Int : n = weight[i]
      BY <1>9
    <3>2. /\ t[i] = IF Covers(lm, a, to[i]) THEN n ELSE 0
          /\ Weighed(place, weight, lk, x)[i] = IF Covers(lk, x, place[i]) THEN n ELSE 0
      BY <1>10, <1>14, <3>1
    <3> HIDE DEF t
    <3>3. CASE n = 0
      BY <3>1, <3>2, <3>3
    <3>4. CASE n # 0
      <4>1. PICK d \in nodes : d = place[i]
        BY <3>1, <3>4 DEF Placed
      <4>2. to[i] = IF d = y THEN x ELSE d
        BY <4>1
      <4>3. Covers(lm, a, to[i]) <=> Covers(lk, x, d) \/ Covers(lk, y, d)
        BY <1>12, <1>14, <4>2
      <4>4. ~(Covers(lk, x, d) /\ Covers(lk, y, d))
        BY <1>5
      <4> QED BY <3>1, <3>2, <4>1, <4>3, <4>4
    <3> QED BY <3>3, <3>4
  <2> HIDE DEF t
  <2>3. 1 \in {-1, 0, 1}
    OBVIOUS
  <2>4. SumFunction(t) = Load(place, weight, lk, x) + 1 * Load(place, weight, lk, y)
    BY <1>9, <2>2, <2>3, LoadShifts
  <2>5. Load(to, weight, lm, a) = SumFunction(t)
    BY DEF Load, t
  <2>6. Load(place, weight, lk, x) \in Int /\ Load(place, weight, lk, y) \in Int
    BY LoadType
  <2>7. Load(to, weight, lm, a) = Load(place, weight, lk, a) + k * Load(place, weight, lk, x)
                                    + Load(place, weight, lk, y)
    BY <1>14, <2>1, <2>4, <2>5, <2>6
  <2> QED BY <1>13, <1>14, <2>1, <2>7
<1>15. CASE a # x
  <2>1. ASSUME NEW i \in S
        PROVE  t[i] = Weighed(place, weight, lk, a)[i] +
                          (IF Covers(lk, x, place[i]) THEN k * weight[i] ELSE 0)
    <3>1. PICK n \in Int : n = weight[i]
      BY <1>9
    <3>2. /\ t[i] = IF Covers(lm, a, to[i]) THEN n ELSE 0
          /\ Weighed(place, weight, lk, a)[i] = IF Covers(lk, a, place[i]) THEN n ELSE 0
      BY <1>10, <3>1
    <3>3. CASE n = 0
      <4>1. k * n = 0
        BY <1>9, <3>3
      <4> HIDE DEF t, k
      <4> QED BY <3>1, <3>2, <3>3, <4>1
    <3>4. CASE n # 0
      <4>1. PICK d \in nodes : d = place[i]
        BY <3>1, <3>4 DEF Placed
      <4>2. to[i] = IF d = y THEN x ELSE d
        BY <4>1
      <4>3. k * n = IF Covers(lk, a, p) THEN IF Covers(lk, a, o) THEN 0 ELSE n
                                        ELSE IF Covers(lk, a, o) THEN -n ELSE 0
        BY DEF Shift
      <4> HIDE DEF t, k
      <4>4. CASE Covers(lk, x, d)
        <5>1. Covers(lm, a, to[i]) <=> (Covers(lk, x, a) /\ Covers(lk, a, d)) \/ Covers(lk, a, p)
          BY <1>12, <4>2, <4>4
        <5>2. Covers(lk, a, d) <=> (Covers(lk, x, a) /\ Covers(lk, a, d)) \/ Covers(lk, a, o)
          BY <1>5, <4>4
        <5>3. ~(Covers(lk, x, a) /\ Covers(lk, a, o))
          BY <1>5, <4>4
        <5>4. t[i] = Weighed(place, weight, lk, a)[i] + k * n
          BY <1>7, <3>2, <4>1, <4>3, <5>1, <5>2, <5>3
        <5> QED BY <3>1, <4>1, <4>4, <5>4
      <4>5. CASE ~Covers(lk, x, d)
        <5>1. Covers(lm, a, to[i]) <=> Covers(lk, a, d)
          BY <1>12, <1>15, <4>2, <4>5
        <5>2. t[i] = Weighed(place, weight, lk, a)[i] + 0
          BY <3>2, <4>1, <5>1
        <5> QED BY <4>1, <4>5, <5>2
      <4> QED BY <4>4, <4>5
    <3> QED BY <3>3, <3>4
  <2> HIDE DEF t, k
  <2>2. SumFunction(t) = Load(place, weight, lk, a) + k * Load(place, weight, lk, x)
    BY <1>9, <2>1, LoadShifts
  <2>3. Load(to, weight, lm, a) = SumFunction(t)
    BY DEF Load, t
  <2>4. /\ Load(place, weight, lk, x) \in Int /\ Load(place, weight, lk, a) \in Int
        /\ k * Load(place, weight, lk, x) \in Int
    BY <1>9, LoadType
  <2>5. Load(to, weight, lm, a) = Load(place, weight, lk, a) + k * Load(place, weight, lk, x) + 0
    BY <2>2, <2>3, <2>4
  <2> QED BY <1>13, <1>15, <2>5 DEF k
<1> QED BY <1>14, <1>15

-----------------------------------------------------------------------------
(* The inductive invariant. What the constraints of the tables keep true,  *)
(* whatever is stale:                                                      *)
FoldersOK ==
    /\ folder \in [Folder -> FolderRow \cup {None}]
    /\ Root \subseteq Nodes
    /\ \A f \in Nodes : /\ folder[f].parent \in Nodes \cup {None}
                        /\ folder[f].parent = None <=> f \in Root
                        /\ folder[f].parent # f

LinksOK == Linked(links, Nodes) /\ \A f \in Nodes : Covers(links, f, f)

FilesOK == file \in FileTable /\ \A g \in File : file[g] # None => file[g].at \in Nodes

TotalsOK == stored \in [Folder -> Nat] /\ queue \in Seq(Queueable(Nodes))

BackgroundOK ==
    /\ lock \in [Root -> Request \cup {None, Rollup}]
    /\ fresh \subseteq (Folder \ Root) \cup File
    /\ missing \subseteq Folder \ Root

(* A transaction in flight, by what it has done so far.                    *)
Making(r, nodes) ==
    /\ DOMAIN r = {"kind", "pc", "f", "p", "n", "ws", "path"}
    /\ r.kind = "create" /\ r.pc \in {"mkdir", "insert"}
    /\ r.f \in Folder \ nodes /\ r.p \in nodes /\ r.n \in Name /\ r.ws \in Root

Inserted(r, nodes) ==
    /\ DOMAIN r = {"kind", "pc", "f", "p", "n", "ws", "links"}
    /\ r.kind = "create" /\ r.pc = "commit"
    /\ r.f \in Folder \ nodes /\ r.p \in nodes /\ r.n \in Name /\ r.ws \in Root
    /\ Linked(r.links, nodes \cup {r.f}) /\ Covers(r.links, r.f, r.f)

Moving(r, nodes) ==
    /\ DOMAIN r = {"kind", "pc", "f", "p", "n", "parent", "ws", "pws"}
    /\ r.kind = "move" /\ r.pc = "lock"
    /\ r.f \in nodes \ Root /\ r.p \in nodes /\ r.p # r.f /\ r.n \in Name
    /\ r.parent \in Folder /\ r.ws \in Root /\ r.pws \in Root

Relinking(r, nodes) ==
    /\ DOMAIN r = {"kind", "pc", "f", "p", "n", "parent", "ws", "pws", "subtree", "cut", "added"}
    /\ r.kind = "move" /\ r.pc = "commit"
    /\ r.f \in nodes \ Root /\ r.p \in nodes /\ r.p # r.f /\ r.n \in Name
    /\ r.parent \in Folder /\ r.ws \in Root /\ r.pws \in Root
    /\ \A l \in r.cut : l[1] # l[2]
    /\ Linked(r.added, nodes)
    /\ \A d \in r.subtree : Covers(r.added, r.p, d)

Stored(g, fs) == g \in File /\ fs[g] # None

Refiling(r, nodes, fs) ==
    /\ DOMAIN r = {"kind", "pc", "f", "g", "at", "ws", "to", "tows"}
    /\ r.kind = "file" /\ r.pc \in {"rename", "commit"} /\ r.f = None /\ Stored(r.g, fs)
    /\ r.at \in nodes /\ r.to \in nodes /\ r.ws \in Root /\ r.tows \in Root

Rewriting(r, nodes, fs) ==
    /\ DOMAIN r = {"kind", "pc", "f", "g", "at", "ws", "live"}
    /\ r.kind = "version" /\ r.pc = "commit" /\ r.f = None /\ Stored(r.g, fs)
    /\ r.at \in nodes /\ r.ws \in Root /\ r.live \in BOOLEAN

Sweeping(r, nodes, fs) ==
    /\ DOMAIN r = {"kind", "pc", "f", "g", "at", "ws"}
    /\ r.kind = "trash" /\ r.pc = "commit" /\ r.f = None /\ Stored(r.g, fs)
    /\ r.at \in nodes /\ r.ws \in Root

RequestOK(r, nodes, fs) ==
    \/ r = Idle
    \/ Making(r, nodes) \/ Inserted(r, nodes)
    \/ Moving(r, nodes) \/ Relinking(r, nodes)
    \/ Refiling(r, nodes, fs) \/ Rewriting(r, nodes, fs) \/ Sweeping(r, nodes, fs)

Creating(r) == r.pc # "idle" /\ r.kind = "create"
Committing(r) == r.pc = "commit" /\ r.kind = "move"

(* A row to be is one transaction's.                                       *)
Distinct(rq) == \A q, o \in Request :
    q # o /\ Creating(rq[q]) /\ Creating(rq[o]) => rq[q].f # rq[o].f

(* A move that is under way holds its locks.                               *)
Holding(rq, held) == \A q \in Request :
    Committing(rq[q]) => held[rq[q].ws] = q /\ held[rq[q].pws] = q

RequestsOK ==
    /\ DOMAIN req = Request
    /\ \A q \in Request : RequestOK(req[q], Nodes, file)
    /\ Distinct(req) /\ Holding(req, lock)

Shape == FoldersOK /\ LinksOK /\ FilesOK /\ TotalsOK /\ BackgroundOK /\ RequestsOK

(* And what is true as long as no write of the closure was stale: the      *)
(* closure is an order, a subtree lies in one workspace, and a move that   *)
(* holds the locks of the workspaces its folders are in works on the       *)
(* closure as it is.                                                       *)
Homes(rows1, lk, nodes) == \A a, d \in nodes : Covers(lk, a, d) => rows1[a].ws = rows1[d].ws

\* A move holds the locks of the workspaces that its folder and its destination are in.
Locking(r, rows1) == r.ws = rows1[r.f].ws /\ r.pws = rows1[r.p].ws

\* A move knows the closure: its subtree, the links it cuts and those it adds are of now.
UpToDate(r, lk) ==
    /\ r.subtree = Subtree(lk, r.f)
    /\ r.cut = Outside(lk, r.f)
    /\ r.added = Attaching(lk \ Outside(lk, r.f), r.f, r.p)

\* With the right locks held, nothing has changed the closure since a move read it.
MovesKnow(rq, rows1, lk) == \A q \in Request :
    Committing(rq[q]) /\ Locking(rq[q], rows1) => UpToDate(rq[q], lk)

TreeOK ==
    /\ Ordered(links, Nodes, Parent)
    /\ Homes(folder, links, Nodes)
    /\ MovesKnow(req, folder, links)

\* No write has rested on a stale read of the kinds that can break the closure.
Kept == stale \cap {"create", "lock"} = {}

IInv == Shape /\ (Kept => TreeOK) /\ TotalsAddUp

(* The totals, in terms of what they sum.                                  *)
Adds(fs, lk, totals1, deltas, nodes) == \A f \in nodes :
    totals1[f] + Amount(deltas, f, lk) = TruthOf(fs, lk, f)

\* The totals in terms of loads, before a step and after it.
LEMMA TruthNow ==
    ASSUME file \in FileTable, NEW f
    PROVE  Truth(f) = TruthOf(file, links, f) /\ Truth(f) \in Nat
<1>1. Under(f) = {h \in File : IsLive(file, h) /\ Covers(links, f, file[h].at)}
  BY SubtreeCovers DEF Under, Live, IsLive
<1>2. Truth(f) = SumFunction([g \in {h \in File : IsLive(file, h) /\ Covers(links, f, file[h].at)}
                                |-> file[g].size])
  BY <1>1 DEF Truth, Sum
<1> QED BY <1>2, TruthIsHeld

LEMMA TotalsNow ==
    ASSUME file \in FileTable
    PROVE  TotalsAddUp <=> (stale = {} => Adds(file, links, stored, queue, Nodes))
  BY TruthNow DEF TotalsAddUp, Balance, Adds

LEMMA TruthThen ==
    ASSUME file' \in FileTable, NEW f
    PROVE  Truth(f)' = TruthOf(file', links', f)
<1>1. Under(f)' = {h \in File : IsLive(file', h) /\ Covers(links', f, file'[h].at)}
  BY SubtreeCovers DEF Under, Live, IsLive
<1>2. Truth(f)' = SumFunction([g \in {h \in File : IsLive(file', h) /\ Covers(links', f, file'[h].at)}
                                |-> file'[g].size])
  BY <1>1 DEF Truth, Sum
<1> QED BY <1>2, TruthIsHeld

LEMMA TotalsThen ==
    ASSUME file' \in FileTable
    PROVE  TotalsAddUp' <=> (stale' = {} => Adds(file', links', stored', queue', Nodes'))
  BY TruthThen DEF TotalsAddUp, Balance, Adds

(* What the state is made of, for the steps that follow.                   *)
LEMMA QueueTyped ==
    ASSUME NEW nodes, NEW q \in Seq(Queueable(nodes))
    PROVE  q \in Seq(DeltaRow)
<1>1. Queueable(nodes) \subseteq DeltaRow
  BY DEF Queueable
<1> QED BY <1>1

-----------------------------------------------------------------------------
(* What a step that leaves the rows of the folders alone has to show.      *)

(* A transaction stays what it is while folders and files are added.       *)
LEMMA RequestStays ==
    ASSUME NEW nodes, NEW more, nodes \subseteq more, NEW fs, NEW later,
           \A g \in File : fs[g] # None => later[g] # None,
           NEW r, RequestOK(r, nodes, fs), Creating(r) => r.f \notin more
    PROVE  RequestOK(r, more, later)
<1>1. CASE r = Idle
  BY <1>1 DEF RequestOK
<1>2. CASE Making(r, nodes)
  BY <1>2 DEF RequestOK, Making, Creating
<1>3. CASE Inserted(r, nodes)
  BY <1>3 DEF RequestOK, Inserted, Creating, Linked
<1>4. CASE Moving(r, nodes)
  BY <1>4 DEF RequestOK, Moving
<1>5. CASE Relinking(r, nodes)
  BY <1>5 DEF RequestOK, Relinking, Linked
<1>6. CASE Refiling(r, nodes, fs)
  BY <1>6 DEF RequestOK, Refiling, Stored
<1>7. CASE Rewriting(r, nodes, fs)
  BY <1>7 DEF RequestOK, Rewriting, Stored
<1>8. CASE Sweeping(r, nodes, fs)
  BY <1>8 DEF RequestOK, Sweeping, Stored
<1> QED BY <1>1, <1>2, <1>3, <1>4, <1>5, <1>6, <1>7, <1>8 DEF RequestOK

(* What a transaction is that is creating, or committing a move.           *)
LEMMA RequestKinds ==
    ASSUME NEW nodes, NEW fs, NEW r, RequestOK(r, nodes, fs)
    PROVE  /\ Creating(r) => Making(r, nodes) \/ Inserted(r, nodes)
           /\ Committing(r) => Relinking(r, nodes)
           /\ Creating(r) => r.f \in Folder \ nodes
           /\ Committing(r) => r.ws \in Root /\ r.pws \in Root
<1>1. Creating(r) => Making(r, nodes) \/ Inserted(r, nodes)
  BY DEF RequestOK, Creating, Idle, Moving, Relinking, Refiling, Rewriting, Sweeping
<1>2. Committing(r) => Relinking(r, nodes)
  BY DEF RequestOK, Committing, Idle, Making, Inserted, Moving, Refiling, Rewriting, Sweeping
<1> QED BY <1>1, <1>2 DEF Making, Inserted, Relinking

(* One transaction takes a step.                                           *)
LEMMA RequestSteps ==
    ASSUME RequestsOK, Nodes' = Nodes, \A g \in File : file[g] # None => file'[g] # None,
           NEW q \in Request, NEW r, req' = [req EXCEPT ![q] = r], RequestOK(r, Nodes, file'),
           \A o \in Request \ {q} : Creating(r) /\ Creating(req[o]) => req[o].f # r.f,
           Committing(r) => lock'[r.ws] = q /\ lock'[r.pws] = q,
           \A w \in Root : lock[w] \in Request \ {q} => lock'[w] = lock[w]
    PROVE  /\ RequestsOK'
           /\ \A o \in Request : req'[o] = IF o = q THEN r ELSE req[o]
<1>1. \A o \in Request : req'[o] = IF o = q THEN r ELSE req[o]
  BY DEF RequestsOK
<1>2. DOMAIN req' = Request
  BY DEF RequestsOK
<1>3. ASSUME NEW o \in Request
      PROVE  RequestOK(req'[o], Nodes, file')
  <2>1. CASE o = q
    BY <1>1, <2>1
  <2>2. CASE o # q
    <3>1. RequestOK(req[o], Nodes, file) /\ (Creating(req[o]) => req[o].f \notin Nodes)
      BY RequestKinds DEF RequestsOK
    <3> QED BY <1>1, <2>2, <3>1, RequestStays
  <2> QED BY <2>1, <2>2
<1>4. Distinct(req')
  BY <1>1 DEF RequestsOK, Distinct
<1>5. ASSUME NEW o \in Request, Committing(req'[o])
      PROVE  lock'[req'[o].ws] = o /\ lock'[req'[o].pws] = o
  <2>1. CASE o = q
    BY <1>1, <1>5, <2>1
  <2>2. CASE o # q
    <3>1. req'[o] = req[o] /\ Committing(req[o])
      BY <1>1, <1>5, <2>2
    <3>2. lock[req[o].ws] = o /\ lock[req[o].pws] = o
      BY <3>1 DEF RequestsOK, Holding
    <3>3. req[o].ws \in Root /\ req[o].pws \in Root
      BY <3>1, RequestKinds DEF RequestsOK
    <3> QED BY <2>2, <3>1, <3>2, <3>3
  <2> QED BY <2>1, <2>2
<1>6. Holding(req', lock')
  BY <1>5 DEF Holding
<1> QED BY <1>1, <1>2, <1>3, <1>4, <1>6 DEF RequestsOK

\* A transaction ends while the others stay what they were.
LEMMA RequestEnds ==
    ASSUME RequestsOK, Nodes' = Nodes, \A g \in File : file[g] # None => file'[g] # None,
           NEW q \in Request, req' = [req EXCEPT ![q] = Idle],
           \A w \in Root : lock[w] \in Request \ {q} => lock'[w] = lock[w]
    PROVE  /\ RequestsOK'
           /\ \A o \in Request : req'[o] = IF o = q THEN Idle ELSE req[o]
<1>1. PICK r : r = Idle
  OBVIOUS
<1>2. RequestOK(r, Nodes, file') /\ ~Creating(r) /\ ~Committing(r)
  BY <1>1 DEF RequestOK, Creating, Committing, Idle
<1>3. req' = [req EXCEPT ![q] = r]
  BY <1>1
<1>4. /\ RequestsOK'
      /\ \A o \in Request : req'[o] = IF o = q THEN r ELSE req[o]
  <2>1. \A o \in Request \ {q} : Creating(r) /\ Creating(req[o]) => req[o].f # r.f
    BY <1>2
  <2>2. Committing(r) => lock'[r.ws] = q /\ lock'[r.pws] = q
    BY <1>2
  <2> QED BY <1>2, <1>3, <2>1, <2>2, RequestSteps, ZenonT(60)
<1> QED BY <1>1, <1>4

\* No transaction changes.
LEMMA RequestsStay ==
    ASSUME RequestsOK, folder' = folder, \A g \in File : file[g] # None => file'[g] # None,
           req' = req, \A w \in Root : lock[w] \in Request => lock'[w] = lock[w]
    PROVE  RequestsOK'
<1>1. Nodes' = Nodes
  BY DEF Nodes, Exists
<1>2. ASSUME NEW o \in Request
      PROVE  RequestOK(req[o], Nodes, file')
  <2>1. RequestOK(req[o], Nodes, file) /\ (Creating(req[o]) => req[o].f \notin Nodes)
    BY RequestKinds DEF RequestsOK
  <2> QED BY <2>1, RequestStays
<1>3. ASSUME NEW o \in Request, Committing(req[o])
      PROVE  lock'[req[o].ws] = o /\ lock'[req[o].pws] = o
  <2>1. lock[req[o].ws] = o /\ lock[req[o].pws] = o
    BY <1>3 DEF RequestsOK, Holding
  <2>2. req[o].ws \in Root /\ req[o].pws \in Root
    BY <1>3, RequestKinds DEF RequestsOK
  <2> QED BY <2>1, <2>2
<1>4. Holding(req, lock')
  BY <1>3 DEF Holding
<1> QED BY <1>1, <1>2, <1>4 DEF RequestsOK

(* The closure is the same, and so is what the moves under way know of it. *)
LEMMA TreeStays ==
    ASSUME Kept => TreeOK, folder' = folder, links' = links, stale \subseteq stale',
           \A q \in Request : Committing(req'[q]) =>
               req'[q] = req[q] \/ UpToDate(req'[q], links)
    PROVE  (Kept => TreeOK)'
<1> SUFFICES ASSUME Kept'
             PROVE  TreeOK'
  OBVIOUS
<1>1. Kept
  BY DEF Kept
<1>2. Ordered(links, Nodes, Parent) /\ Homes(folder, links, Nodes) /\ MovesKnow(req, folder, links)
  BY <1>1 DEF TreeOK
<1>3. Nodes' = Nodes /\ Parent' = Parent
  BY DEF Nodes, Exists, Parent
<1>4. MovesKnow(req', folder, links)
  BY <1>2 DEF MovesKnow
<1> QED BY <1>2, <1>3, <1>4 DEF TreeOK

(* The totals are the same, and so is what they sum.                       *)
LEMMA TotalsStay ==
    ASSUME TotalsAddUp, FilesOK, folder' = folder, links' = links, file' = file,
           stored' = stored, queue' = queue, stale \subseteq stale'
    PROVE  TotalsAddUp'
<1>1. file \in FileTable /\ file' \in FileTable
  BY DEF FilesOK
<1>2. Nodes' = Nodes
  BY DEF Nodes, Exists
<1>3. stale' = {} => Adds(file, links, stored, queue, Nodes)
  BY <1>1, TotalsNow
<1> QED BY <1>1, <1>2, <1>3, TotalsThen

(* A request, from what it is of.                                          *)
LEMMA Requests ==
    ASSUME RequestsOK, NEW q \in Request
    PROVE  /\ req[q].pc = "idle" => req[q] = Idle
           /\ At(q, "create", "mkdir") \/ At(q, "create", "insert") => Making(req[q], Nodes)
           /\ At(q, "create", "commit") => Inserted(req[q], Nodes)
           /\ At(q, "move", "lock") => Moving(req[q], Nodes)
           /\ At(q, "move", "commit") => Relinking(req[q], Nodes)
           /\ At(q, "file", "rename") \/ At(q, "file", "commit") => Refiling(req[q], Nodes, file)
           /\ At(q, "version", "commit") => Rewriting(req[q], Nodes, file)
           /\ At(q, "trash", "commit") => Sweeping(req[q], Nodes, file)
<1>1. RequestOK(req[q], Nodes, file)
  BY DEF RequestsOK
<1> QED
  BY <1>1 DEF RequestOK, At, Idle, Making, Inserted, Moving, Relinking, Refiling, Rewriting, Sweeping

-----------------------------------------------------------------------------
(* The steps that change neither rows nor totals.                          *)
LEMMA ShapeStays ==
    ASSUME Shape, folder' = folder, links' = links, file' = file, stored' = stored, queue' = queue,
           BackgroundOK', RequestsOK'
    PROVE  Shape'
<1>1. Nodes' = Nodes
  BY DEF Nodes, Exists
<1>2. FoldersOK'
  BY <1>1 DEF Shape, FoldersOK
<1>3. LinksOK' /\ FilesOK' /\ TotalsOK'
  BY <1>1 DEF Shape, LinksOK, FilesOK, TotalsOK
<1> QED BY <1>2, <1>3 DEF Shape

\* A transaction begins, goes on or ends, and reads only.
LEMMA RequestInvariant ==
    ASSUME IInv, UNCHANGED <<rows, totals>>, stale' = stale, fresh' = fresh, missing' = missing,
           NEW q \in Request, NEW r, req' = [req EXCEPT ![q] = r], RequestOK(r, Nodes, file),
           \A o \in Request \ {q} : Creating(r) /\ Creating(req[o]) => req[o].f # r.f,
           Committing(r) => lock'[r.ws] = q /\ lock'[r.pws] = q /\ UpToDate(r, links),
           lock' \in [Root -> Request \cup {None, Rollup}],
           \A w \in Root : lock[w] \in Request \ {q} => lock'[w] = lock[w]
    PROVE  IInv'
<1>1. /\ folder' = folder /\ links' = links /\ file' = file
      /\ stored' = stored /\ queue' = queue
  BY DEF rows, totals
<1>2. RequestsOK /\ RequestOK(r, Nodes, file') /\ \A g \in File : file[g] # None => file'[g] # None
  BY <1>1 DEF IInv, Shape
<1>3. /\ RequestsOK'
      /\ \A o \in Request : req'[o] = IF o = q THEN r ELSE req[o]
  <2>1. Committing(r) => lock'[r.ws] = q /\ lock'[r.pws] = q
    OBVIOUS
  <2>2. req' = [req EXCEPT ![q] = r] /\ Nodes' = Nodes
    BY <1>1 DEF Nodes, Exists
  <2> HIDE DEF IInv
  <2> QED BY <1>2, <2>1, <2>2, RequestSteps
<1>4. BackgroundOK'
  BY DEF IInv, Shape, BackgroundOK
<1>5. Shape'
  BY <1>1, <1>3, <1>4, ShapeStays DEF IInv
<1>6. (Kept => TreeOK)'
  BY <1>1, <1>3, TreeStays DEF IInv
<1>7. TotalsAddUp'
  BY <1>1, TotalsStay DEF IInv, Shape
<1> QED BY <1>5, <1>6, <1>7 DEF IInv

\* A scan or a rollup takes a step that writes neither rows nor totals.
LEMMA BackgroundInvariant ==
    ASSUME IInv, UNCHANGED <<rows, totals>>, stale' = stale, req' = req, BackgroundOK',
           \A w \in Root : lock[w] \in Request => lock'[w] = lock[w]
    PROVE  IInv'
<1>1. /\ folder' = folder /\ links' = links /\ file' = file
      /\ stored' = stored /\ queue' = queue
  BY DEF rows, totals
<1>2. RequestsOK'
  BY <1>1, RequestsStay DEF IInv, Shape
<1>3. Shape'
  BY <1>1, <1>2, ShapeStays DEF IInv
<1>4. (Kept => TreeOK)'
  BY <1>1, TreeStays DEF IInv
<1>5. TotalsAddUp'
  BY <1>1, TotalsStay DEF IInv, Shape
<1> QED BY <1>3, <1>4, <1>5 DEF IInv

(* A row that is there.                                                    *)
LEMMA RowOf ==
    ASSUME FoldersOK, NEW f \in Nodes
    PROVE  /\ f \in Folder /\ folder[f] \in FolderRow /\ Exists(f)
           /\ folder[f].ws \in Root /\ folder[f].name \in Name
           /\ f \in Root <=> folder[f].parent = None
           /\ f \notin Root => folder[f].parent \in Nodes /\ folder[f].parent # f
                               /\ Parent[f] = folder[f].parent
           /\ Parent[f] = folder[f].parent
<1>1. f \in Folder /\ folder[f] \in FolderRow
  BY DEF FoldersOK, Nodes, Exists
<1> QED BY <1>1 DEF FoldersOK, FolderRow, Nodes, Exists, Parent

\* What a file's row refers to.
LEMMA FileRowOf ==
    ASSUME FoldersOK, FilesOK, NEW g \in File, file[g] # None
    PROVE  /\ file[g] \in FileRow /\ file[g].at \in Nodes /\ file[g].size \in Nat \ {0}
           /\ file[g].state \in {"live", "trashed"}
           /\ folder[file[g].at].ws \in Root
<1>1. file[g] \in FileRow /\ file[g].at \in Nodes
  BY DEF FilesOK, FileTable
<1> QED BY <1>1, RowOf, TreeAssumption DEF FileRow

\* folders.create begins.
LEMMA CreateBegins ==
    ASSUME IInv, NEW q \in Request, NEW f \in Folder, NEW p \in Folder, NEW n \in Name,
           CreateBegin(q, f, p, n)
    PROVE  IInv'
<1> DEFINE r == [kind |-> "create", pc |-> "mkdir", f |-> f, p |-> p, n |-> n,
                 ws |-> folder[p].ws, path |-> Append(PathOf(p), n)]
<1>1. /\ UNCHANGED <<rows, totals>> /\ stale' = stale /\ fresh' = fresh /\ missing' = missing
      /\ lock' = lock /\ req' = [req EXCEPT ![q] = r]
      /\ f \in Folder \ Nodes /\ p \in Nodes
  BY DEF CreateBegin, Begin, background, scan, Exists, Nodes
<1>2. Making(r, Nodes)
  BY <1>1, RowOf DEF Making, IInv, Shape
<1>3. RequestOK(r, Nodes, file)
  BY <1>2 DEF RequestOK
<1>4. \A o \in Request \ {q} : Creating(req[o]) => req[o].f # f
  BY DEF CreateBegin, Creating, Idle
<1>5. ~Committing(r) /\ lock \in [Root -> Request \cup {None, Rollup}] /\ r.f = f
  BY DEF Committing, IInv, Shape, BackgroundOK
<1> HIDE DEF r
<1> QED BY <1>1, <1>3, <1>4, <1>5, RequestInvariant

\* folders.ensure_child begins: the scan found a directory.
LEMMA AdoptBegins ==
    ASSUME IInv, NEW q \in Request, NEW f \in Folder, NEW p \in Folder, NEW n \in Name,
           AdoptBegin(q, f, p, n)
    PROVE  IInv'
<1> DEFINE r == [kind |-> "create", pc |-> "insert", f |-> f, p |-> p, n |-> n,
                 ws |-> folder[p].ws, path |-> <<>>]
<1>1. /\ UNCHANGED <<rows, totals>> /\ stale' = stale /\ fresh' = fresh /\ missing' = missing
      /\ lock' = lock /\ req' = [req EXCEPT ![q] = r]
      /\ f \in Folder \ Nodes /\ p \in Nodes
  BY DEF AdoptBegin, Begin, background, scan, Exists, Nodes
<1>2. Making(r, Nodes)
  BY <1>1, RowOf DEF Making, IInv, Shape
<1>3. RequestOK(r, Nodes, file)
  BY <1>2 DEF RequestOK
<1>4. \A o \in Request \ {q} : Creating(req[o]) => req[o].f # f
  BY DEF AdoptBegin, Creating, Idle
<1>5. ~Committing(r) /\ lock \in [Root -> Request \cup {None, Rollup}] /\ r.f = f
  BY DEF Committing, IInv, Shape, BackgroundOK
<1> HIDE DEF r
<1> QED BY <1>1, <1>3, <1>4, <1>5, RequestInvariant

(* A transaction that ends, with or without its locks.                     *)
LEMMA Finishes ==
    ASSUME IInv, UNCHANGED <<rows, totals>>, stale' = stale, fresh' = fresh, missing' = missing,
           NEW q \in Request, Done(q), lock' \in {lock, Unlocked(q)}
    PROVE  IInv'
<1>1. RequestOK(Idle, Nodes, file) /\ ~Creating(Idle) /\ ~Committing(Idle)
  BY DEF RequestOK, Creating, Committing, Idle
<1>2. lock \in [Root -> Request \cup {None, Rollup}]
  BY DEF IInv, Shape, BackgroundOK
<1>3. /\ lock' \in [Root -> Request \cup {None, Rollup}]
      /\ \A w \in Root : lock[w] \in Request \ {q} => lock'[w] = lock[w]
  BY <1>2 DEF Unlocked
<1>4. req' = [req EXCEPT ![q] = Idle]
  BY DEF Done
<1> QED BY <1>1, <1>3, <1>4, RequestInvariant

\* ensure_path makes the directories.
LEMMA MakesDirectories ==
    ASSUME IInv, NEW q \in Request, MakeDirectories(q)
    PROVE  IInv'
<1> DEFINE r == [req[q] EXCEPT !.pc = "insert"]
<1>1. /\ UNCHANGED <<rows, totals>> /\ stale' = stale /\ fresh' = fresh /\ missing' = missing
      /\ lock' = lock /\ req' = [req EXCEPT ![q] = r]
  BY DEF MakeDirectories, Goto, background, scan
<1>2. Making(req[q], Nodes)
  BY Requests DEF IInv, Shape, MakeDirectories
<1>3. Making(r, Nodes) /\ r.f = req[q].f /\ Creating(req[q]) /\ ~Committing(r)
  BY <1>2 DEF Making, Creating, Committing
<1>4. RequestOK(r, Nodes, file)
  BY <1>3 DEF RequestOK
<1>5. \A o \in Request \ {q} : Creating(req[o]) => req[o].f # r.f
  BY <1>3 DEF IInv, Shape, RequestsOK, Distinct
<1>6. lock \in [Root -> Request \cup {None, Rollup}]
  BY DEF IInv, Shape, BackgroundOK
<1> HIDE DEF r
<1> QED BY <1>1, <1>3, <1>4, <1>5, <1>6, RequestInvariant

\* The rows _create_child copies for a new folder.
LEMMA NewLinksLinked ==
    ASSUME NEW nodes, NEW lk, Linked(lk, nodes), NEW f, NEW p
    PROVE  Linked(NewLinks(lk, f, p), nodes \cup {f}) /\ Covers(NewLinks(lk, f, p), f, f)
<1>1. ASSUME NEW l \in NewLinks(lk, f, p)
      PROVE  l \in (nodes \cup {f}) \X (nodes \cup {f}) \X Nat
  <2>1. CASE l = Link(f, f, 0)
    BY <2>1 DEF Link
  <2>2. CASE l # Link(f, f, 0)
    <3>1. PICK m \in lk : l = <<m[1], f, m[3] + 1>>
      BY <1>1, <2>2 DEF NewLinks, Link
    <3>2. m[1] \in nodes /\ m[3] \in Nat
      BY DEF Linked
    <3> QED BY <3>1, <3>2
  <2> QED BY <2>1, <2>2
<1>2. <<f, f, 0>> \in NewLinks(lk, f, p) /\ <<f, f, 0>>[1] = f /\ <<f, f, 0>>[2] = f
  BY DEF NewLinks, Link
<1> QED BY <1>1, <1>2 DEF Linked, Covers

\* _create_child inserts, or converges on the row that is there.
LEMMA InsertsFolder ==
    ASSUME IInv, NEW q \in Request, InsertFolder(q)
    PROVE  IInv'
<1> DEFINE o == req[q]
           r == [kind |-> "create", pc |-> "commit", f |-> o.f, p |-> o.p,
                 n |-> o.n, ws |-> o.ws, links |-> NewLinks(links, o.f, o.p)]
<1>1. /\ UNCHANGED <<rows, totals>> /\ stale' = stale /\ fresh' = fresh /\ missing' = missing
      /\ lock' = lock /\ (Done(q) \/ req' = [req EXCEPT ![q] = r])
  BY DEF InsertFolder, background, scan
<1>2. CASE Done(q)
  BY <1>1, <1>2, Finishes
<1>3. CASE req' = [req EXCEPT ![q] = r]
  <2>1. Making(o, Nodes)
    BY Requests DEF IInv, Shape, InsertFolder
  <2>2. Linked(links, Nodes)
    BY DEF IInv, Shape, LinksOK
  <2>3. Inserted(r, Nodes) /\ r.f = o.f /\ Creating(o) /\ ~Committing(r)
    BY <2>1, <2>2, NewLinksLinked DEF Making, Inserted, Creating, Committing
  <2>4. RequestOK(r, Nodes, file)
    BY <2>3 DEF RequestOK
  <2>5. \A e \in Request \ {q} : Creating(req[e]) => req[e].f # r.f
    BY <2>3 DEF IInv, Shape, RequestsOK, Distinct
  <2>6. lock \in [Root -> Request \cup {None, Rollup}]
    BY DEF IInv, Shape, BackgroundOK
  <2> HIDE DEF r
  <2> QED BY <1>1, <1>3, <2>3, <2>4, <2>5, <2>6, RequestInvariant
<1> QED BY <1>1, <1>2, <1>3

\* folders.relocate checks what it read.
LEMMA MoveBegins ==
    ASSUME IInv, NEW q \in Request, NEW f \in Folder, NEW p \in Folder, NEW n \in Name,
           MoveBegin(q, f, p, n)
    PROVE  IInv'
<1> DEFINE r == [kind |-> "move", pc |-> "lock", f |-> f, p |-> p, n |-> n,
                 parent |-> folder[f].parent, ws |-> folder[f].ws, pws |-> folder[p].ws]
<1>1. /\ UNCHANGED <<rows, totals>> /\ stale' = stale /\ fresh' = fresh /\ missing' = missing
      /\ lock' = lock /\ req' = [req EXCEPT ![q] = r]
      /\ f \in Nodes /\ p \in Nodes /\ folder[f].parent # None /\ ~Covers(links, f, p)
  BY DEF MoveBegin, Begin, background, scan, Exists, Nodes
<1>2. FoldersOK /\ LinksOK
  BY DEF IInv, Shape
<1>3. f \notin Root /\ p # f /\ folder[f].parent \in Folder
  BY <1>1, <1>2, RowOf DEF LinksOK, Nodes
<1>4. Moving(r, Nodes)
  BY <1>1, <1>2, <1>3, RowOf DEF Moving
<1>5. RequestOK(r, Nodes, file)
  BY <1>4 DEF RequestOK
<1>6. ~Committing(r) /\ ~Creating(r) /\ lock \in [Root -> Request \cup {None, Rollup}]
  BY DEF Committing, Creating, IInv, Shape, BackgroundOK
<1> HIDE DEF r
<1> QED BY <1>1, <1>5, <1>6, RequestInvariant

(* What a move looks up under the locks is what it would find later.       *)
LEMMA MoveLooksUp ==
    ASSUME NEW nodes, NEW lk, Linked(lk, nodes), \A d \in nodes : Covers(lk, d, d),
           NEW f \in nodes, NEW p \in nodes
    PROVE  LET added == Attaching(lk \ Outside(lk, f), f, p) IN
           /\ \A l \in Outside(lk, f) : l[1] # l[2]
           /\ Linked(added, nodes)
           /\ \A d \in Subtree(lk, f) : Covers(added, p, d)
<1> DEFINE added == Attaching(lk \ Outside(lk, f), f, p)
<1>1. \A l \in Outside(lk, f) : l[1] # l[2]
  BY DEF Outside
<1>2. Linked(added, nodes)
  <2>1. ASSUME NEW l \in added
        PROVE  l \in nodes \X nodes \X Nat
    <3>1. PICK above \in lk, below \in lk :
              l = <<above[1], below[2], above[3] + below[3] + 1>>
      BY <2>1 DEF Attaching, Link
    <3>2. above[1] \in nodes /\ below[2] \in nodes /\ above[3] \in Nat /\ below[3] \in Nat
      BY DEF Linked
    <3> QED BY <3>1, <3>2
  <2> QED BY <2>1 DEF Linked
<1>3. ASSUME NEW d \in Subtree(lk, f)
      PROVE  Covers(added, p, d)
  <2>1. PICK above \in lk : above[1] = p /\ above[2] = p
    BY DEF Covers
  <2>2. above \notin Outside(lk, f)
    BY <1>1, <2>1
  <2>3. Covers(lk, f, d) /\ f \in Subtree(lk, f)
    BY SubtreeCovers
  <2>4. PICK below \in lk : below[1] = f /\ below[2] = d
    BY <2>3 DEF Covers
  <2>5. below \notin Outside(lk, f)
    BY <2>3, <2>4 DEF Outside
  <2>6. <<above[1], below[2], above[3] + below[3] + 1>> \in added
    BY <2>1, <2>2, <2>4, <2>5 DEF Attaching, Link
  <2> QED BY <2>1, <2>4, <2>6 DEF Covers
<1> QED BY <1>1, <1>2, <1>3

\* folders.relocate takes the locks, renames the directory and reads the closure.
LEMMA MovesOnDisk ==
    ASSUME IInv, NEW q \in Request, MoveOnDisk(q)
    PROVE  IInv'
<1> DEFINE o == req[q]
           r == [kind |-> "move", pc |-> "commit", f |-> o.f, p |-> o.p,
                n |-> o.n, parent |-> o.parent, ws |-> o.ws, pws |-> o.pws,
                subtree |-> Subtree(links, o.f),
                cut |-> Outside(links, o.f),
                added |-> Attaching(links \ Outside(links, o.f), o.f, o.p)]
<1>1. /\ UNCHANGED <<rows, totals>> /\ stale' = stale /\ fresh' = fresh /\ missing' = missing
      /\ lock[o.ws] = None /\ lock[o.pws] = None
      /\ \/ req' = [req EXCEPT ![q] = r] /\ lock' = [lock EXCEPT ![o.ws] = q, ![o.pws] = q]
         \/ Done(q) /\ lock' = lock
  BY DEF MoveOnDisk, scan
<1>2. CASE Done(q) /\ lock' = lock
  BY <1>1, <1>2, Finishes
<1>3. CASE req' = [req EXCEPT ![q] = r] /\ lock' = [lock EXCEPT ![o.ws] = q, ![o.pws] = q]
  <2>1. Moving(o, Nodes)
    BY Requests DEF IInv, Shape, MoveOnDisk
  <2>2. Linked(links, Nodes) /\ \A d \in Nodes : Covers(links, d, d)
    BY DEF IInv, Shape, LinksOK
  <2>3. o.f \in Nodes /\ o.p \in Nodes /\ o.ws \in Root /\ o.pws \in Root
    BY <2>1 DEF Moving
  <2>4. /\ \A l \in Outside(links, o.f) : l[1] # l[2]
        /\ Linked(Attaching(links \ Outside(links, o.f), o.f, o.p), Nodes)
        /\ \A d \in Subtree(links, o.f) :
              Covers(Attaching(links \ Outside(links, o.f), o.f, o.p), o.p, d)
    BY <2>2, <2>3, MoveLooksUp
  <2>5. Relinking(r, Nodes)
    BY <2>1, <2>4 DEF Moving, Relinking
  <2>6. RequestOK(r, Nodes, file) /\ ~Creating(r) /\ UpToDate(r, links)
    BY <2>5 DEF RequestOK, Creating, UpToDate
  <2>7. lock \in [Root -> Request \cup {None, Rollup}]
    BY DEF IInv, Shape, BackgroundOK
  <2>8. /\ lock' \in [Root -> Request \cup {None, Rollup}]
        /\ lock'[o.ws] = q /\ lock'[o.pws] = q
        /\ \A w \in Root : lock[w] \in Request \ {q} => lock'[w] = lock[w]
    BY <1>1, <1>3, <2>3, <2>7, TreeAssumption
  <2>9. r.ws = o.ws /\ r.pws = o.pws
    OBVIOUS
  <2> HIDE DEF r
  <2> QED BY <1>1, <1>3, <2>6, <2>8, <2>9, RequestInvariant
<1> QED BY <1>1, <1>2, <1>3

\* A move of a file reads its row.
LEMMA FileMoveBegins ==
    ASSUME IInv, NEW q \in Request, NEW g \in File, NEW d \in Folder, FileMoveBegin(q, g, d)
    PROVE  IInv'
<1> DEFINE r == [kind |-> "file", pc |-> "rename", f |-> None, g |-> g, at |-> file[g].at,
                 ws |-> folder[file[g].at].ws, to |-> d, tows |-> folder[d].ws]
<1>1. /\ UNCHANGED <<rows, totals>> /\ stale' = stale /\ fresh' = fresh /\ missing' = missing
      /\ lock' = lock /\ req' = [req EXCEPT ![q] = r] /\ d \in Nodes /\ file[g] # None
  BY DEF FileMoveBegin, Begin, background, scan, Exists, Nodes, Live
<1>2. FoldersOK /\ FilesOK
  BY DEF IInv, Shape
<1>3. folder[d].ws \in Root
  BY <1>1, <1>2, RowOf
<1>4. file[g].at \in Nodes /\ folder[file[g].at].ws \in Root
  BY <1>1, <1>2, FileRowOf
<1>5. Refiling(r, Nodes, file)
  BY <1>1, <1>3, <1>4 DEF Refiling, Stored
<1>6. RequestOK(r, Nodes, file)
  BY <1>5 DEF RequestOK
<1>7. ~Committing(r) /\ ~Creating(r) /\ lock \in [Root -> Request \cup {None, Rollup}]
  BY DEF Committing, Creating, IInv, Shape, BackgroundOK
<1> HIDE DEF r
<1> QED BY <1>1, <1>6, <1>7, RequestInvariant

\* A move of a file renames it.
LEMMA FileMovesOnDisk ==
    ASSUME IInv, NEW q \in Request, FileMoveOnDisk(q)
    PROVE  IInv'
<1> DEFINE r == [req[q] EXCEPT !.pc = "commit"]
<1>1. /\ UNCHANGED <<rows, totals>> /\ stale' = stale /\ fresh' = fresh /\ missing' = missing
      /\ lock' = lock /\ (Done(q) \/ req' = [req EXCEPT ![q] = r])
  BY DEF FileMoveOnDisk, Goto, background, scan
<1>2. CASE Done(q)
  BY <1>1, <1>2, Finishes
<1>3. CASE req' = [req EXCEPT ![q] = r]
  <2>1. Refiling(req[q], Nodes, file)
    BY Requests DEF IInv, Shape, FileMoveOnDisk
  <2>2. Refiling(r, Nodes, file) /\ ~Creating(r) /\ ~Committing(r)
    BY <2>1 DEF Refiling, Creating, Committing
  <2>3. RequestOK(r, Nodes, file)
    BY <2>2 DEF RequestOK
  <2>4. lock \in [Root -> Request \cup {None, Rollup}]
    BY DEF IInv, Shape, BackgroundOK
  <2> HIDE DEF r
  <2> QED BY <1>1, <1>3, <2>2, <2>3, <2>4, RequestInvariant
<1> QED BY <1>1, <1>2, <1>3

\* New content is found for a file.
LEMMA VersionBegins ==
    ASSUME IInv, NEW q \in Request, NEW g \in File, VersionBegin(q, g)
    PROVE  IInv'
<1> DEFINE r == [kind |-> "version", pc |-> "commit", f |-> None, g |-> g, at |-> file[g].at,
                 ws |-> folder[file[g].at].ws, live |-> Live(g)]
<1>1. /\ UNCHANGED <<rows, totals>> /\ stale' = stale /\ fresh' = fresh /\ missing' = missing
      /\ lock' = lock /\ req' = [req EXCEPT ![q] = r] /\ file[g] # None
  BY DEF VersionBegin, Begin, background, scan
<1>2. file[g].at \in Nodes /\ folder[file[g].at].ws \in Root
  BY <1>1, FileRowOf DEF IInv, Shape
<1>3. Rewriting(r, Nodes, file)
  BY <1>1, <1>2 DEF Rewriting, Stored, Live
<1>4. RequestOK(r, Nodes, file)
  BY <1>3 DEF RequestOK
<1>5. ~Committing(r) /\ ~Creating(r) /\ lock \in [Root -> Request \cup {None, Rollup}]
  BY DEF Committing, Creating, IInv, Shape, BackgroundOK
<1> HIDE DEF r
<1> QED BY <1>1, <1>4, <1>5, RequestInvariant

\* A sweep reads the row of a file that is gone.
LEMMA TrashBegins ==
    ASSUME IInv, NEW q \in Request, NEW g \in File, TrashBegin(q, g)
    PROVE  IInv'
<1> DEFINE r == [kind |-> "trash", pc |-> "commit", f |-> None, g |-> g, at |-> file[g].at,
                 ws |-> folder[file[g].at].ws]
<1>1. /\ UNCHANGED <<rows, totals>> /\ stale' = stale /\ fresh' = fresh /\ missing' = missing
      /\ lock' = lock /\ req' = [req EXCEPT ![q] = r] /\ file[g] # None
  BY DEF TrashBegin, Begin, background, scan, Live
<1>2. file[g].at \in Nodes /\ folder[file[g].at].ws \in Root
  BY <1>1, FileRowOf DEF IInv, Shape
<1>3. Sweeping(r, Nodes, file)
  BY <1>1, <1>2 DEF Sweeping, Stored
<1>4. RequestOK(r, Nodes, file)
  BY <1>3 DEF RequestOK
<1>5. ~Committing(r) /\ ~Creating(r) /\ lock \in [Root -> Request \cup {None, Rollup}]
  BY DEF Committing, Creating, IInv, Shape, BackgroundOK
<1> HIDE DEF r
<1> QED BY <1>1, <1>4, <1>5, RequestInvariant

\* A transaction is rolled back, and its locks are released.
LEMMA IsLost ==
    ASSUME IInv, NEW q \in Request, Lost(q)
    PROVE  IInv'
<1>1. /\ UNCHANGED <<rows, totals>> /\ stale' = stale /\ fresh' = fresh /\ missing' = missing
      /\ Done(q) /\ lock' = Unlocked(q)
  BY DEF Lost, scan
<1> QED BY <1>1, Finishes

(* The owner of the storage, a traversal's end and a rollup's.             *)
LEMMA StorageChanges ==
    ASSUME IInv, UNCHANGED <<rows, totals>>, stale' = stale, req' = req, lock' = lock,
           fresh' = fresh, missing' \subseteq missing \cup (Folder \ Root)
    PROVE  IInv'
<1>1. BackgroundOK'
  BY DEF IInv, Shape, BackgroundOK
<1> QED BY <1>1, BackgroundInvariant

\* A rollup takes the lock of a workspace, or gives it up.
LEMMA RollupsLock ==
    ASSUME IInv, UNCHANGED <<rows, totals>>, stale' = stale, req' = req, fresh' = fresh,
           missing' = missing,
           \/ lock' = lock
           \/ lock' = Unlocked(Rollup)
           \/ \E w \in Root : lock[w] = None /\ lock' = [lock EXCEPT ![w] = Rollup]
    PROVE  IInv'
<1>1. lock \in [Root -> Request \cup {None, Rollup}]
  BY DEF IInv, Shape, BackgroundOK
<1>2. /\ lock' \in [Root -> Request \cup {None, Rollup}]
      /\ \A w \in Root : lock[w] \in Request => lock'[w] = lock[w]
  BY <1>1, TreeAssumption DEF Unlocked
<1>3. BackgroundOK'
  BY <1>2 DEF IInv, Shape, BackgroundOK
<1> QED BY <1>2, <1>3, BackgroundInvariant

-----------------------------------------------------------------------------
(* The steps that change a file and record what that makes.                *)
LEMMA FileInvariant ==
    ASSUME IInv, folder' = folder, links' = links, stored' = stored, lock' = lock,
           missing' = missing, fresh' \subseteq fresh \cup File, stale \subseteq stale',
           NEW g \in File, NEW row \in FileRow, row.at \in Nodes, file' = [file EXCEPT ![g] = row],
           queue' \in Seq(Queueable(Nodes)),
           stale' = {} => \A f : Amount(queue', f, links) =
               Amount(queue, f, links) - HeldUnder(file, links, f, g) + HeldUnder(file', links, f, g),
           req' = req \/ \E q \in Request : Done(q)
    PROVE  IInv'
<1>1. /\ FoldersOK /\ LinksOK /\ FilesOK /\ TotalsOK /\ BackgroundOK /\ RequestsOK
      /\ file \in FileTable
  BY DEF IInv, Shape, FilesOK
<1>2. Nodes' = Nodes
  BY DEF Nodes, Exists
<1>3. /\ FilesOK'
      /\ \A h \in File : file[h] # None => file'[h] # None
  BY <1>1, <1>2, TreeAssumption DEF FilesOK, FileTable
<1>4. FoldersOK' /\ LinksOK' /\ TotalsOK' /\ BackgroundOK'
  BY <1>1, <1>2 DEF FoldersOK, LinksOK, TotalsOK, BackgroundOK
<1>5. /\ RequestsOK'
      /\ \A o \in Request : Committing(req'[o]) => req'[o] = req[o]
  <2>1. CASE req' = req
    BY <1>1, <1>3, <2>1, RequestsStay
  <2>2. CASE req' # req
    <3>1. PICK q \in Request : req' = [req EXCEPT ![q] = Idle]
      BY <2>2 DEF Done
    <3>2. RequestOK(Idle, Nodes, file') /\ ~Creating(Idle) /\ ~Committing(Idle)
      BY DEF RequestOK, Creating, Committing, Idle
    <3>3. /\ RequestsOK'
          /\ \A o \in Request : req'[o] = IF o = q THEN Idle ELSE req[o]
      BY <1>1, <1>2, <1>3, <3>1, <3>2, RequestSteps
    <3> QED BY <3>2, <3>3
  <2> QED BY <2>1, <2>2
<1>6. Shape'
  BY <1>3, <1>4, <1>5 DEF Shape
<1>7. (Kept => TreeOK)'
  BY <1>5, TreeStays DEF IInv
<1>8. TotalsAddUp'
  <2> SUFFICES ASSUME stale' = {}
               PROVE  Adds(file', links', stored', queue', Nodes')
    BY <1>3, TotalsThen DEF FilesOK
  <2>1. \A f : Amount(queue', f, links) =
            Amount(queue, f, links) - HeldUnder(file, links, f, g) + HeldUnder(file', links, f, g)
    OBVIOUS
  <2>2. Adds(file, links, stored, queue, Nodes)
    BY <1>1, TotalsNow DEF IInv
  <2>3. ASSUME NEW f \in Nodes
        PROVE  stored[f] + Amount(queue', f, links) = TruthOf(file', links, f)
    <3>1. Rewritten(file, file', g, row)
      BY <1>1 DEF Rewritten
    <3>2. /\ TruthOf(file', links, f) = TruthOf(file, links, f) - HeldUnder(file, links, f, g)
                                                       + HeldUnder(file', links, f, g)
          /\ HeldUnder(file, links, f, g) \in Int /\ HeldUnder(file', links, f, g) \in Int
      BY <3>1, TruthChanges
    <3>3. stored[f] \in Int /\ Amount(queue, f, links) \in Int
      BY <1>1, QueueTyped, AmountIsLoad DEF TotalsOK, Nodes
    <3>4. stored[f] + Amount(queue, f, links) = TruthOf(file, links, f)
      BY <2>2 DEF Adds
    <3> DEFINE s == stored[f]
               m == Amount(queue, f, links)
               u == HeldUnder(file, links, f, g)
               v == HeldUnder(file', links, f, g)
    <3>5. Amount(queue', f, links) =
              Amount(queue, f, links) - HeldUnder(file, links, f, g) + HeldUnder(file', links, f, g)
      BY <2>1
    <3>6. s \in Int /\ m \in Int /\ u \in Int /\ v \in Int /\ TruthOf(file', links, f) = (s + m) - u + v
      BY <3>2, <3>3, <3>4
    <3> HIDE DEF s, m, u, v
    <3>7. s + Amount(queue', f, links) = TruthOf(file', links, f)
      BY <3>5, <3>6 DEF m, u, v
    <3> QED BY <3>7 DEF s
  <2> QED BY <1>2, <2>3 DEF Adds
<1> QED BY <1>6, <1>7, <1>8 DEF IInv

(* One change and two, recorded.                                           *)
LEMMA RecordsOne ==
    ASSUME queue \in Seq(Queueable(Nodes)), NEW w \in Root, NEW d \in Nodes, NEW n \in Int
    PROVE  /\ queue \o Queued(w, d, n) \in Seq(Queueable(Nodes))
           /\ \A f, lk : /\ Amount(queue \o Queued(w, d, n), f, lk) =
                                Amount(queue, f, lk) + Recorded(f, d, n, lk)
                         /\ Amount(queue, f, lk) \in Int
<1>1. Nodes \in SUBSET Folder /\ d \in Folder
  BY DEF Nodes
<1>2. queue \in Seq(DeltaRow)
  BY QueueTyped
<1> QED BY <1>1, <1>2, AmountQueued, AmountIsLoad

\* A change that can be recorded.
Recordable(w, d, n) == w \in Root /\ d \in Nodes /\ n \in Int

\* Two changes recorded in one transaction.
LEMMA RecordsTwo ==
    ASSUME queue \in Seq(Queueable(Nodes)), NEW w, NEW d, NEW n, Recordable(w, d, n),
           NEW v, NEW e, NEW m, Recordable(v, e, m)
    PROVE  /\ queue \o Queued(w, d, n) \o Queued(v, e, m) \in Seq(Queueable(Nodes))
           /\ \A f, lk : /\ Amount(queue \o Queued(w, d, n) \o Queued(v, e, m), f, lk) =
                                Amount(queue, f, lk) + Recorded(f, d, n, lk) + Recorded(f, e, m, lk)
                         /\ Amount(queue, f, lk) \in Int
<1> DEFINE one == queue \o Queued(w, d, n)
<1>1. Nodes \in SUBSET Folder /\ e \in Folder /\ v \in Root /\ e \in Nodes /\ m \in Int
  BY DEF Nodes, Recordable
<1>2. w \in Root /\ d \in Nodes /\ n \in Int
  BY DEF Recordable
<1>3. /\ one \in Seq(Queueable(Nodes))
      /\ \A f, lk : /\ Amount(one, f, lk) = Amount(queue, f, lk) + Recorded(f, d, n, lk)
                    /\ Amount(queue, f, lk) \in Int
  BY <1>2, RecordsOne
<1> HIDE DEF one
<1>4. /\ one \o Queued(v, e, m) \in Seq(Queueable(Nodes))
      /\ \A f, lk : Amount(one \o Queued(v, e, m), f, lk) = Amount(one, f, lk) + Recorded(f, e, m, lk)
  BY <1>1, <1>3, AmountQueued
<1>5. \A f, lk : /\ Amount(one \o Queued(v, e, m), f, lk) =
                       Amount(queue, f, lk) + Recorded(f, d, n, lk) + Recorded(f, e, m, lk)
                 /\ Amount(queue, f, lk) \in Int
  BY <1>3, <1>4
<1> QED BY <1>4, <1>5 DEF one

\* files.register.
LEMMA Registers ==
    ASSUME IInv, NEW g \in File, NEW d \in Folder, NEW size \in Size, Register(g, d, size)
    PROVE  IInv'
<1> DEFINE row == [at |-> d, state |-> "live", size |-> size]
<1>1. /\ folder' = folder /\ links' = links /\ stored' = stored /\ lock' = lock
      /\ missing' = missing /\ fresh' \subseteq fresh \cup File /\ stale' = stale /\ req' = req
      /\ file' = [file EXCEPT ![g] = row] /\ queue' = queue \o Queued(folder[d].ws, d, size)
      /\ d \in Nodes /\ file[g] = None
  BY DEF Register, Exists, Nodes
<1>2. FoldersOK /\ FilesOK /\ file \in FileTable /\ queue \in Seq(Queueable(Nodes))
  BY DEF IInv, Shape, FilesOK, TotalsOK
<1>3. folder[d].ws \in Root /\ size \in Int
  BY <1>1, <1>2, RowOf, TreeAssumption
<1>4. row \in FileRow /\ row.at = d /\ row.state = "live" /\ row.size = size /\ row # None
  BY TreeAssumption DEF FileRow
<1>5. /\ queue' \in Seq(Queueable(Nodes))
      /\ \A f : /\ Amount(queue', f, links) = Amount(queue, f, links) + Recorded(f, d, size, links)
                /\ Amount(queue, f, links) \in Int
  BY <1>1, <1>2, <1>3, RecordsOne
<1> HIDE DEF row
<1>6. file'[g] = row
  BY <1>1, <1>2 DEF FileTable
<1>7. ASSUME NEW f
      PROVE  Amount(queue', f, links) =
               Amount(queue, f, links) - HeldUnder(file, links, f, g) + HeldUnder(file', links, f, g)
  <2>1. HeldUnder(file, links, f, g) = 0
    BY <1>1 DEF HeldUnder, IsLive
  <2>2. HeldUnder(file', links, f, g) = Recorded(f, d, size, links)
    BY <1>4, <1>6 DEF HeldUnder, IsLive, Recorded
  <2> QED BY <1>3, <1>5, <2>1, <2>2 DEF Recorded
<1> QED BY <1>1, <1>4, <1>5, <1>7, FileInvariant

\* files.relocate commits.
LEMMA FileMoves ==
    ASSUME IInv, NEW q \in Request, FileMoveCommit(q)
    PROVE  IInv'
<1> DEFINE r == req[q]
           g == r.g
           n == file[g].size
           row == [file[g] EXCEPT !.at = r.to]
<1>1. /\ folder' = folder /\ links' = links /\ stored' = stored /\ lock' = lock
      /\ missing' = missing /\ fresh' = fresh /\ Done(q)
      /\ file' = [file EXCEPT ![g].at = r.to]
      /\ queue' = IF ~Live(g) THEN queue ELSE
            queue \o Queued(r.ws, r.at, -n) \o Queued(folder[r.to].ws, r.to, n)
      /\ stale \subseteq stale' /\ (stale' = {} => file[g].at = r.at)
  BY DEF FileMoveCommit, background, scan, StaleIf
<1>2. FoldersOK /\ FilesOK /\ file \in FileTable /\ queue \in Seq(Queueable(Nodes))
  BY DEF IInv, Shape, FilesOK, TotalsOK
<1>3. Refiling(r, Nodes, file)
  BY Requests DEF IInv, Shape, FileMoveCommit
<1>4. g \in File /\ file[g] # None /\ r.at \in Nodes /\ r.to \in Nodes /\ r.ws \in Root
  BY <1>3 DEF Refiling, Stored
<1>5. folder[r.to].ws \in Root /\ file[g] \in FileRow /\ n \in Nat \ {0} /\ n \in Int /\ -n \in Int
  BY <1>2, <1>4, RowOf, FileRowOf
<1>6. /\ row \in FileRow /\ row.at = r.to /\ row.state = file[g].state /\ row.size = n
      /\ row # None /\ row.at \in Nodes
  BY <1>4, <1>5, TreeAssumption DEF FileRow, Nodes
<1>7. file' = [file EXCEPT ![g] = row]
  BY <1>1, <1>2 DEF FileTable
<1> HIDE DEF row
<1>8. file'[g] = row
  BY <1>2, <1>4, <1>7 DEF FileTable
<1>9. CASE ~Live(g)
  <2>1. \A f : HeldUnder(file, links, f, g) = 0 /\ HeldUnder(file', links, f, g) = 0
    BY <1>4, <1>6, <1>8, <1>9 DEF HeldUnder, IsLive, Live
  <2>2. queue' = queue /\ \A f : Amount(queue, f, links) \in Int
    BY <1>1, <1>2, <1>9, QueueTyped, AmountIsLoad
  <2> HIDE DEF IInv
  <2>3. \A f : Amount(queue', f, links) =
            Amount(queue, f, links) - HeldUnder(file, links, f, g) + HeldUnder(file', links, f, g)
    BY <2>1, <2>2
  <2> QED BY <1>1, <1>2, <1>4, <1>6, <1>7, <2>2, <2>3, FileInvariant
<1>10. CASE Live(g)
  <2>1. Recordable(r.ws, r.at, -n) /\ Recordable(folder[r.to].ws, r.to, n)
    BY <1>4, <1>5 DEF Recordable
  <2>2. queue' = queue \o Queued(r.ws, r.at, -n) \o Queued(folder[r.to].ws, r.to, n)
    BY <1>1, <1>10
  <2>3. /\ queue' \in Seq(Queueable(Nodes))
        /\ \A f : /\ Amount(queue', f, links) = Amount(queue, f, links)
                         + Recorded(f, r.at, -n, links) + Recorded(f, r.to, n, links)
                  /\ Amount(queue, f, links) \in Int
    <3>1. /\ queue \o Queued(r.ws, r.at, -n) \o Queued(folder[r.to].ws, r.to, n)
                \in Seq(Queueable(Nodes))
          /\ \A f, lk : /\ Amount(queue \o Queued(r.ws, r.at, -n)
                                       \o Queued(folder[r.to].ws, r.to, n), f, lk) =
                               Amount(queue, f, lk) + Recorded(f, r.at, -n, lk)
                                                    + Recorded(f, r.to, n, lk)
                        /\ Amount(queue, f, lk) \in Int
      BY <1>2, <2>1, RecordsTwo
    <3> QED BY <2>2, <3>1
  <2>4. ASSUME stale' = {}, NEW f
        PROVE  Amount(queue', f, links) =
                 Amount(queue, f, links) - HeldUnder(file, links, f, g) + HeldUnder(file', links, f, g)
    <3>1. HeldUnder(file, links, f, g) = IF Covers(links, f, r.at) THEN n ELSE 0
      BY <1>1, <1>4, <1>10, <2>4 DEF HeldUnder, IsLive, Live
    <3>2. HeldUnder(file', links, f, g) = IF Covers(links, f, r.to) THEN n ELSE 0
      BY <1>4, <1>6, <1>8, <1>10 DEF HeldUnder, IsLive, Live
    <3> HIDE DEF n
    <3> QED BY <1>5, <2>3, <3>1, <3>2 DEF Recorded
  <2> QED BY <1>1, <1>4, <1>6, <1>7, <2>3, <2>4, FileInvariant
<1> QED BY <1>9, <1>10

\* files.add_version commits.
LEMMA VersionAdded ==
    ASSUME IInv, NEW q \in Request, NEW size \in Size, AddVersion(q, size)
    PROVE  IInv'
<1> DEFINE r == req[q]
           g == r.g
           n == file[g].size
           row == [file[g] EXCEPT !.size = size]
<1>1. /\ folder' = folder /\ links' = links /\ stored' = stored /\ lock' = lock
      /\ missing' = missing /\ fresh' = fresh /\ Done(q)
      /\ file' = [file EXCEPT ![g].size = size]
      /\ queue' = IF r.live THEN queue \o Queued(r.ws, r.at, size - n) ELSE queue
      /\ stale \subseteq stale' /\ (stale' = {} => file[g].at = r.at /\ Live(g) = r.live)
  BY DEF AddVersion, background, scan, StaleIf
<1>2. FoldersOK /\ FilesOK /\ file \in FileTable /\ queue \in Seq(Queueable(Nodes))
  BY DEF IInv, Shape, FilesOK, TotalsOK
<1>3. Rewriting(r, Nodes, file)
  BY Requests DEF IInv, Shape, AddVersion
<1>4. g \in File /\ file[g] # None /\ r.at \in Nodes /\ r.ws \in Root /\ r.live \in BOOLEAN
  BY <1>3 DEF Rewriting, Stored
<1>5. file[g] \in FileRow /\ n \in Nat \ {0} /\ size \in Nat \ {0} /\ size - n \in Int
      /\ file[g].at \in Nodes
  BY <1>2, <1>4, FileRowOf, TreeAssumption
<1>6. /\ row \in FileRow /\ row.at = file[g].at /\ row.state = file[g].state /\ row.size = size
      /\ row # None /\ row.at \in Nodes
  BY <1>4, <1>5, TreeAssumption DEF FileRow, Nodes
<1>7. file' = [file EXCEPT ![g] = row]
  BY <1>1, <1>2 DEF FileTable
<1> HIDE DEF row
<1>8. file'[g] = row
  BY <1>2, <1>4, <1>7 DEF FileTable
<1>9. \A f : Amount(queue, f, links) \in Int
  BY <1>2, QueueTyped, AmountIsLoad
<1>10. CASE ~r.live
  <2>1. queue' = queue
    BY <1>1, <1>10
  <2>2. ASSUME stale' = {}, NEW f
        PROVE  Amount(queue', f, links) =
                 Amount(queue, f, links) - HeldUnder(file, links, f, g) + HeldUnder(file', links, f, g)
    <3>1. HeldUnder(file, links, f, g) = 0 /\ HeldUnder(file', links, f, g) = 0
      BY <1>1, <1>4, <1>6, <1>8, <1>10, <2>2 DEF HeldUnder, IsLive, Live
    <3> QED BY <1>9, <2>1, <3>1
  <2> QED BY <1>1, <1>2, <1>4, <1>6, <1>7, <2>1, <2>2, FileInvariant
<1>11. CASE r.live
  <2>1. PICK m \in Int : m = size - n
    BY <1>5
  <2>2. queue' = queue \o Queued(r.ws, r.at, m)
    BY <1>1, <1>11, <2>1
  <2>3. /\ queue' \in Seq(Queueable(Nodes))
        /\ \A f : Amount(queue', f, links) = Amount(queue, f, links) + Recorded(f, r.at, m, links)
    BY <1>2, <1>4, <2>2, RecordsOne
  <2>4. ASSUME stale' = {}, NEW f
        PROVE  Amount(queue', f, links) =
                 Amount(queue, f, links) - HeldUnder(file, links, f, g) + HeldUnder(file', links, f, g)
    <3>1. Live(g)
      BY <1>1, <1>11, <2>4
    <3>2. HeldUnder(file, links, f, g) = IF Covers(links, f, r.at) THEN n ELSE 0
      BY <1>1, <1>4, <2>4, <3>1 DEF HeldUnder, IsLive, Live
    <3>3. HeldUnder(file', links, f, g) = IF Covers(links, f, r.at) THEN size ELSE 0
      BY <1>1, <1>4, <1>6, <1>8, <2>4, <3>1 DEF HeldUnder, IsLive, Live
    <3> HIDE DEF n
    <3> QED BY <1>5, <1>9, <2>1, <2>3, <3>2, <3>3 DEF Recorded
  <2> QED BY <1>1, <1>4, <1>6, <1>7, <2>3, <2>4, FileInvariant
<1> QED BY <1>4, <1>10, <1>11

\* trash.record commits.
LEMMA Trashes ==
    ASSUME IInv, NEW q \in Request, Trash(q)
    PROVE  IInv'
<1> DEFINE r == req[q]
           g == r.g
           n == file[g].size
           row == [file[g] EXCEPT !.state = "trashed"]
<1>1. /\ folder' = folder /\ links' = links /\ stored' = stored /\ lock' = lock
      /\ missing' = missing /\ fresh' = fresh /\ Done(q) /\ Live(g)
      /\ file' = [file EXCEPT ![g].state = "trashed"]
      /\ queue' = queue \o Queued(r.ws, r.at, -n)
      /\ stale \subseteq stale' /\ (stale' = {} => file[g].at = r.at)
  BY DEF Trash, background, scan, StaleIf
<1>2. FoldersOK /\ FilesOK /\ file \in FileTable /\ queue \in Seq(Queueable(Nodes))
  BY DEF IInv, Shape, FilesOK, TotalsOK
<1>3. Sweeping(r, Nodes, file)
  BY Requests DEF IInv, Shape, Trash
<1>4. g \in File /\ file[g] # None /\ r.at \in Nodes /\ r.ws \in Root
  BY <1>3 DEF Sweeping, Stored
<1>5. file[g] \in FileRow /\ n \in Nat \ {0} /\ -n \in Int /\ file[g].at \in Nodes
  BY <1>2, <1>4, FileRowOf
<1>6. row \in FileRow /\ row.at \in Nodes /\ row.state = "trashed"
  BY <1>4, <1>5 DEF FileRow
<1>7. file' = [file EXCEPT ![g] = row]
  BY <1>1, <1>2 DEF FileTable
<1> HIDE DEF row
<1>8. file'[g] = row
  BY <1>2, <1>4, <1>7 DEF FileTable
<1>9. /\ queue' \in Seq(Queueable(Nodes))
      /\ \A f : /\ Amount(queue', f, links) = Amount(queue, f, links) + Recorded(f, r.at, -n, links)
                /\ Amount(queue, f, links) \in Int
  BY <1>1, <1>2, <1>4, <1>5, RecordsOne
<1>10. ASSUME stale' = {}, NEW f
       PROVE  Amount(queue', f, links) =
                Amount(queue, f, links) - HeldUnder(file, links, f, g) + HeldUnder(file', links, f, g)
  <2>1. HeldUnder(file, links, f, g) = IF Covers(links, f, r.at) THEN n ELSE 0
    BY <1>1, <1>4, <1>10 DEF HeldUnder, IsLive, Live
  <2>2. HeldUnder(file', links, f, g) = 0
    BY <1>6, <1>8 DEF HeldUnder, IsLive
  <2> HIDE DEF n
  <2> QED BY <1>5, <1>9, <2>1, <2>2 DEF Recorded
<1> QED BY <1>1, <1>4, <1>6, <1>7, <1>9, <1>10, FileInvariant

\* trash.reactivate.
LEMMA Reactivates ==
    ASSUME IInv, NEW g \in File, Reactivate(g)
    PROVE  IInv'
<1> DEFINE d == file[g].at
           n == file[g].size
           row == [file[g] EXCEPT !.state = "live"]
<1>1. /\ folder' = folder /\ links' = links /\ stored' = stored /\ lock' = lock
      /\ missing' = missing /\ fresh' = fresh /\ req' = req /\ stale' = stale
      /\ file[g] # None /\ ~Live(g)
      /\ file' = [file EXCEPT ![g].state = "live"]
      /\ queue' = queue \o Queued(folder[d].ws, d, n)
  BY DEF Reactivate, background, scan
<1>2. FoldersOK /\ FilesOK /\ file \in FileTable /\ queue \in Seq(Queueable(Nodes))
  BY DEF IInv, Shape, FilesOK, TotalsOK
<1>3. file[g] \in FileRow /\ n \in Nat \ {0} /\ n \in Int /\ d \in Nodes /\ folder[d].ws \in Root
  BY <1>1, <1>2, FileRowOf
<1>4. /\ row \in FileRow /\ row.at = d /\ row.state = "live" /\ row.size = n
      /\ row # None /\ row.at \in Nodes
  BY <1>1, <1>3, TreeAssumption DEF FileRow
<1>5. file' = [file EXCEPT ![g] = row]
  BY <1>1, <1>2 DEF FileTable
<1> HIDE DEF row
<1>6. file'[g] = row
  BY <1>2, <1>5 DEF FileTable
<1>7. /\ queue' \in Seq(Queueable(Nodes))
      /\ \A f : /\ Amount(queue', f, links) = Amount(queue, f, links) + Recorded(f, d, n, links)
                /\ Amount(queue, f, links) \in Int
  BY <1>1, <1>2, <1>3, RecordsOne
<1>8. ASSUME NEW f
      PROVE  Amount(queue', f, links) =
               Amount(queue, f, links) - HeldUnder(file, links, f, g) + HeldUnder(file', links, f, g)
  <2>1. HeldUnder(file, links, f, g) = 0
    BY <1>1 DEF HeldUnder, IsLive, Live
  <2>2. HeldUnder(file', links, f, g) = Recorded(f, d, n, links)
    BY <1>4, <1>6 DEF HeldUnder, IsLive, Recorded
  <2> HIDE DEF n
  <2> QED BY <1>3, <1>7, <2>1, <2>2 DEF Recorded
<1> QED BY <1>1, <1>4, <1>5, <1>7, <1>8, FileInvariant

\* A scan follows a file into another folder of the workspace.
LEMMA FileIsFollowed ==
    ASSUME IInv, NEW g \in File, NEW d \in Folder, FileFollows(g, d)
    PROVE  IInv'
<1> DEFINE o == file[g].at
           n == file[g].size
           w == folder[d].ws
           row == [file[g] EXCEPT !.at = d]
<1>1. /\ folder' = folder /\ links' = links /\ stored' = stored /\ lock' = lock
      /\ missing' = missing /\ fresh' = fresh /\ req' = req /\ stale' = stale
      /\ Live(g) /\ file[g] # None /\ d \in Nodes
      /\ file' = [file EXCEPT ![g].at = d]
      /\ queue' = queue \o Queued(w, o, -n) \o Queued(w, d, n)
  BY DEF FileFollows, Exists, Nodes, Live
<1>2. FoldersOK /\ FilesOK /\ file \in FileTable /\ queue \in Seq(Queueable(Nodes))
  BY DEF IInv, Shape, FilesOK, TotalsOK
<1>3. file[g] \in FileRow /\ n \in Nat \ {0} /\ n \in Int /\ -n \in Int /\ o \in Nodes
  BY <1>1, <1>2, FileRowOf
<1>4. w \in Root
  BY <1>1, <1>2, RowOf
<1>5. /\ row \in FileRow /\ row.at = d /\ row.state = file[g].state /\ row.size = n
      /\ row # None /\ row.at \in Nodes
  BY <1>1, <1>3, TreeAssumption DEF FileRow
<1>6. file' = [file EXCEPT ![g] = row]
  BY <1>1, <1>2 DEF FileTable
<1> HIDE DEF row
<1>7. file'[g] = row
  BY <1>2, <1>6 DEF FileTable
<1>8. /\ queue' \in Seq(Queueable(Nodes))
      /\ \A f : /\ Amount(queue', f, links) = Amount(queue, f, links)
                       + Recorded(f, o, -n, links) + Recorded(f, d, n, links)
                /\ Amount(queue, f, links) \in Int
  <2>1. Recordable(w, o, -n) /\ Recordable(w, d, n)
    BY <1>1, <1>3, <1>4 DEF Recordable
  <2> QED BY <1>1, <1>2, <2>1, RecordsTwo
<1>9. ASSUME NEW f
      PROVE  Amount(queue', f, links) =
               Amount(queue, f, links) - HeldUnder(file, links, f, g) + HeldUnder(file', links, f, g)
  <2>1. HeldUnder(file, links, f, g) = IF Covers(links, f, o) THEN n ELSE 0
    BY <1>1 DEF HeldUnder, IsLive, Live
  <2>2. HeldUnder(file', links, f, g) = IF Covers(links, f, d) THEN n ELSE 0
    BY <1>1, <1>5, <1>7 DEF HeldUnder, IsLive, Live
  <2> HIDE DEF n, o
  <2> QED BY <1>3, <1>8, <2>1, <2>2 DEF Recorded
<1> QED BY <1>1, <1>5, <1>6, <1>8, <1>9, FileInvariant

-----------------------------------------------------------------------------
(* The steps that change the totals alone.                                 *)
LEMMA TotalsInvariant ==
    ASSUME IInv, folder' = folder, links' = links, file' = file, req' = req, BackgroundOK',
           TotalsOK', stale \subseteq stale',
           \A w \in Root : lock[w] \in Request => lock'[w] = lock[w],
           stale' = {} => Adds(file, links, stored', queue', Nodes)
    PROVE  IInv'
<1>1. /\ FoldersOK /\ LinksOK /\ FilesOK /\ RequestsOK /\ file \in FileTable
  BY DEF IInv, Shape, FilesOK
<1>2. Nodes' = Nodes
  BY DEF Nodes, Exists
<1>3. FoldersOK' /\ LinksOK' /\ FilesOK'
  BY <1>1, <1>2 DEF FoldersOK, LinksOK, FilesOK
<1>4. RequestsOK'
  BY <1>1, RequestsStay
<1>5. (Kept => TreeOK)'
  BY TreeStays DEF IInv
<1>6. TotalsAddUp'
  BY <1>1, <1>2, TotalsThen
<1> QED BY <1>3, <1>4, <1>5, <1>6 DEF IInv, Shape

\* A batch is drained: what leaves the queue is what the totals gain.
LEMMA Drains ==
    ASSUME IInv, NEW w \in Root, DrainBatch(w)
    PROVE  IInv'
<1>1. /\ folder' = folder /\ links' = links /\ file' = file /\ req' = req /\ lock' = lock
      /\ fresh' = fresh /\ missing' = missing /\ stale' = stale
      /\ stored' = Rolled(w) /\ queue' = Left(w) /\ ~Refused(w)
  BY DEF DrainBatch, rows, scan, Left
<1>2. /\ stored \in [Folder -> Nat] /\ queue \in Seq(Queueable(Nodes)) /\ queue \in Seq(DeltaRow)
      /\ Nodes \in SUBSET Folder /\ file \in FileTable
  BY QueueTyped DEF IInv, Shape, TotalsOK, FilesOK, Nodes
<1>3. Claimed(w) \in SUBSET (DOMAIN queue)
  BY DEF Claimed
<1>4. /\ queue' \in Seq(Queueable(Nodes))
      /\ \A f : Amount(queue', f, links) = Amount(queue, f, links) - Shares(queue, Claimed(w), f, links)
  BY <1>1, <1>2, DrainLeaves
<1>5. \A f : Shares(queue, Claimed(w), f, links) \in Int /\ Amount(queue, f, links) \in Int
  BY <1>2, <1>3, SharesType, AmountIsLoad
<1>6. \A f \in Folder : stored'[f] = stored[f] + Shares(queue, Claimed(w), f, links)
  BY <1>1 DEF Rolled
<1>7. \A f \in Folder : stored'[f] \in Nat
  <2> SUFFICES ASSUME NEW f \in Folder
               PROVE  stored'[f] \in Nat
    OBVIOUS
  <2>1. ~(stored'[f] < 0)
    BY <1>1 DEF Refused
  <2>2. stored'[f] \in Int
    BY <1>2, <1>5, <1>6
  <2> QED BY <2>1, <2>2
<1>8. stored' \in [Folder -> Nat]
  <2>1. stored' = [f \in Folder |-> stored[f] + Shares(queue, Claimed(w), f, links)]
    BY <1>1 DEF Rolled
  <2>2. DOMAIN stored' = Folder /\ stored' = [f \in Folder |-> stored'[f]]
    BY <1>6, <2>1
  <2> QED BY <1>7, <2>2
<1>9. TotalsOK'
  BY <1>1, <1>4, <1>8 DEF TotalsOK, Nodes, Exists
<1>10. BackgroundOK'
  BY <1>1 DEF IInv, Shape, BackgroundOK
<1>11. stale' = {} => Adds(file, links, stored', queue', Nodes)
  <2> SUFFICES ASSUME stale' = {}, NEW f \in Nodes
               PROVE  stored'[f] + Amount(queue', f, links) = TruthOf(file, links, f)
    BY DEF Adds
  <2>1. stored[f] + Amount(queue, f, links) = TruthOf(file, links, f)
    BY <1>1, <1>2, TotalsNow DEF IInv, Adds
  <2>2. f \in Folder /\ stored[f] \in Int
    BY <1>2
  <2> QED BY <1>4, <1>5, <1>6, <2>1, <2>2
<1> QED BY <1>1, <1>9, <1>10, <1>11, TotalsInvariant

\* A folder nothing is pending for has nothing queued under it.
LEMMA NothingPending ==
    ASSUME queue \in Seq(DeltaRow), NEW f, ~Pending(f)
    PROVE  Amount(queue, f, links) = 0
<1>1. /\ Weights(DOMAIN queue, Places(queue), Amounts(queue))
      /\ Amount(queue, f, links) = Load(Places(queue), Amounts(queue), links, f)
  BY AmountIsLoad
<1>2. \A i \in DOMAIN queue : ~Covers(links, f, Places(queue)[i])
  BY DEF Pending, Places
<1> QED BY <1>1, <1>2, LoadOfNothing

\* aggregates.verify: where nothing is pending, the truth is what the total already was.
LEMMA Corrects ==
    ASSUME IInv, Correct
    PROVE  IInv'
<1>1. /\ folder' = folder /\ links' = links /\ file' = file /\ req' = req
      /\ fresh' = fresh /\ missing' = missing /\ stale \subseteq stale' /\ queue' = queue
      /\ lock' = Unlocked(Rollup)
      /\ stored' = [f \in Folder |-> IF f \in roll.checked /\ Exists(f) THEN Truth(f) ELSE stored[f]]
  BY DEF Correct, rows, scan, StaleIf
<1>2. /\ stored \in [Folder -> Nat] /\ queue \in Seq(Queueable(Nodes)) /\ queue \in Seq(DeltaRow)
      /\ Nodes \in SUBSET Folder /\ file \in FileTable
      /\ lock \in [Root -> Request \cup {None, Rollup}]
  BY QueueTyped DEF IInv, Shape, TotalsOK, FilesOK, Nodes, BackgroundOK
<1>3. \A f : Truth(f) = TruthOf(file, links, f) /\ Truth(f) \in Nat
  BY <1>2, TruthNow
<1>4. TotalsOK'
  BY <1>1, <1>2, <1>3 DEF TotalsOK, Nodes, Exists
<1>5. /\ lock' \in [Root -> Request \cup {None, Rollup}]
      /\ \A w \in Root : lock[w] \in Request => lock'[w] = lock[w]
  BY <1>1, <1>2, TreeAssumption DEF Unlocked
<1>6. BackgroundOK'
  BY <1>1, <1>5 DEF IInv, Shape, BackgroundOK
<1>7. stale' = {} => Adds(file, links, stored', queue', Nodes)
  <2> SUFFICES ASSUME stale' = {}, NEW f \in Nodes
               PROVE  stored'[f] + Amount(queue, f, links) = TruthOf(file, links, f)
    BY <1>1 DEF Adds
  <2>1. stored[f] + Amount(queue, f, links) = TruthOf(file, links, f)
    BY <1>1, <1>2, TotalsNow DEF IInv, Adds
  <2>2. f \in Folder /\ Exists(f)
    BY <1>2 DEF Nodes
  <2>3. CASE f \notin roll.checked
    BY <1>1, <2>1, <2>2, <2>3
  <2>4. CASE f \in roll.checked
    <3>1. stored'[f] = TruthOf(file, links, f)
      BY <1>1, <1>3, <2>2, <2>4
    <3>2. ~Pending(f) \/ stored[f] = Truth(f)
      BY <2>2, <2>4 DEF Correct, StaleIf
    <3>3. CASE ~Pending(f)
      BY <1>2, <1>3, <3>1, <3>3, NothingPending
    <3>4. CASE stored[f] = Truth(f)
      BY <1>3, <2>1, <3>1, <3>4
    <3> QED BY <3>2, <3>3, <3>4
  <2> QED BY <2>3, <2>4
<1> QED BY <1>1, <1>4, <1>5, <1>6, <1>7, TotalsInvariant

-----------------------------------------------------------------------------
(* What the steps that change the tree have to show.                       *)

(* A move knows the closure as long as no link changes that it looks at.   *)
LEMMA StaysUpToDate ==
    ASSUME NEW r, NEW lk, NEW lm, UpToDate(r, lk),
           \A l \in lk \cup lm : l[1] = r.f \/ l[2] \in Subtree(lk, r.f) \/ l[2] = r.p =>
               (l \in lk <=> l \in lm)
    PROVE  UpToDate(r, lm)
<1> DEFINE S == Subtree(lk, r.f)
<1>1. \A l \in lk \cup lm : l[1] = r.f => (l \in lk <=> l \in lm)
  OBVIOUS
<1>2. Subtree(lm, r.f) = S
  BY <1>1 DEF Subtree
<1>3. Outside(lm, r.f) = Outside(lk, r.f)
  <2>1. \A l : l \in Outside(lm, r.f) <=> l \in lm /\ l[2] \in S /\ l[1] \notin S
    BY <1>2 DEF Outside
  <2>2. \A l : l \in Outside(lk, r.f) <=> l \in lk /\ l[2] \in S /\ l[1] \notin S
    BY DEF Outside
  <2>3. \A l : l \in Outside(lm, r.f) <=> l \in Outside(lk, r.f)
    BY <2>1, <2>2
  <2>4. /\ \A l \in Outside(lm, r.f) : l \in Outside(lk, r.f)
        /\ \A l \in Outside(lk, r.f) : l \in Outside(lm, r.f)
    BY <2>3
  <2>5. Outside(lm, r.f) \subseteq Outside(lk, r.f) /\ Outside(lk, r.f) \subseteq Outside(lm, r.f)
    BY <2>4
  <2> QED BY <2>5
<1>4. Attaching(lm \ Outside(lm, r.f), r.f, r.p) = Attaching(lk \ Outside(lk, r.f), r.f, r.p)
  <2> DEFINE C == Outside(lk, r.f)
  <2>1. {l \in lm \ C : l[2] = r.p} = {l \in lk \ C : l[2] = r.p}
    OBVIOUS
  <2>2. {l \in lm \ C : l[1] = r.f} = {l \in lk \ C : l[1] = r.f}
    BY <1>1
  <2>3. Attaching(lm \ C, r.f, r.p) = Attaching(lk \ C, r.f, r.p)
    BY <2>1, <2>2 DEF Attaching
  <2> QED BY <1>3, <2>3
<1> QED BY <1>2, <1>3, <1>4 DEF UpToDate

(* Where files and deltas lie.                                             *)
LEMMA FilesPlaced ==
    ASSUME FilesOK
    PROVE  Placed(File, Home(file), Held(file), Nodes)
  BY DEF FilesOK, Placed, Home, Held, IsLive

\* A queued delta lies in a folder.
LEMMA QueuePlaced ==
    ASSUME NEW nodes, NEW q \in Seq(Queueable(nodes))
    PROVE  Placed(DOMAIN q, Places(q), Amounts(q), nodes)
<1>1. \A i \in DOMAIN q : q[i] \in Queueable(nodes)
  OBVIOUS
<1> QED BY <1>1 DEF Placed, Places, Queueable

\* The same folders covered, the same load.
LEMMA LoadSame ==
    ASSUME NEW S, NEW place, NEW weight, Weights(S, place, weight), NEW nodes,
           Placed(S, place, weight, nodes), NEW lk, NEW lm, NEW a,
           \A d \in nodes : Covers(lm, a, d) <=> Covers(lk, a, d)
    PROVE  Load(place, weight, lm, a) = Load(place, weight, lk, a)
<1>1. \A i \in S : (IF Covers(lm, a, place[i]) THEN weight[i] ELSE 0) =
                   (IF Covers(lk, a, place[i]) THEN weight[i] ELSE 0)
  BY DEF Placed
<1>2. Weighed(place, weight, lm, a) = Weighed(place, weight, lk, a)
  BY <1>1 DEF Weighed, Weights
<1> QED BY <1>2 DEF Load

-----------------------------------------------------------------------------
(* A folder is created.                                                    *)

(* A folder is committed.                                                  *)
LEMMA CommitsRow ==
    ASSUME FoldersOK, NEW q \in Request, CommitFolder(q), Inserted(req[q], Nodes)
    PROVE  LET r == req[q] IN
           /\ Nodes' = Nodes \cup {r.f} /\ r.f \in Folder \ Nodes /\ r.f \notin Root
           /\ r.p \in Nodes
           /\ folder' \in [Folder -> FolderRow \cup {None}]
           /\ folder'[r.f] = [parent |-> r.p, ws |-> r.ws, name |-> r.n]
           /\ \A f \in Nodes : folder'[f] = folder[f] /\ Parent'[f] = Parent[f] /\ Parent[f] # r.f
           /\ Parent'[r.f] = r.p
<1> DEFINE r == req[q]
           row == [parent |-> r.p, ws |-> r.ws, name |-> r.n]
<1>1. /\ r.f \in Folder \ Nodes /\ r.p \in Nodes /\ r.n \in Name /\ r.ws \in Root
      /\ r.p \in Folder
  BY DEF Inserted, Nodes
<1>2. row \in FolderRow /\ row # None /\ row.parent = r.p
  BY <1>1, TreeAssumption DEF FolderRow
<1>3. folder' = [folder EXCEPT ![r.f] = row]
  BY DEF CommitFolder
<1>4. folder \in [Folder -> FolderRow \cup {None}] /\ Root \subseteq Nodes
  BY DEF FoldersOK
<1> HIDE DEF row
<1>5. folder' \in [Folder -> FolderRow \cup {None}]
  BY <1>2, <1>3, <1>4
<1>6. folder'[r.f] = row /\ \A f \in Folder \ {r.f} : folder'[f] = folder[f]
  BY <1>1, <1>3, <1>4
<1>7. Nodes' = Nodes \cup {r.f}
  BY <1>1, <1>2, <1>6 DEF Nodes, Exists
<1>8. Parent'[r.f] = r.p
  BY <1>1, <1>2, <1>6 DEF Parent, Exists
<1>9. ASSUME NEW f \in Nodes
      PROVE  folder'[f] = folder[f] /\ Parent'[f] = Parent[f] /\ Parent[f] # r.f
  <2>1. f \in Folder /\ f # r.f /\ Exists(f)
    BY <1>1 DEF Nodes
  <2>2. folder'[f] = folder[f]
    BY <1>6, <2>1
  <2>3. Parent'[f] = Parent[f]
    BY <2>1, <2>2 DEF Parent, Exists
  <2>4. Parent[f] = folder[f].parent /\ folder[f].parent \in Nodes \cup {None}
    BY RowOf DEF FoldersOK
  <2>5. r.f # None
    BY <1>1, TreeAssumption
  <2> QED BY <1>1, <2>2, <2>3, <2>4, <2>5
<1> QED BY <1>1, <1>4, <1>5, <1>6, <1>7, <1>8, <1>9 DEF row

\* What a committed folder keeps whatever is stale.
LEMMA CommitsShape ==
    ASSUME Shape, NEW q \in Request, CommitFolder(q), Inserted(req[q], Nodes)
    PROVE  Shape' /\ \A o \in Request : req'[o] = IF o = q THEN Idle ELSE req[o]
<1> DEFINE r == req[q]
<1>1. /\ links' = links \cup r.links /\ stored' = [stored EXCEPT ![r.f] = 0]
      /\ fresh' = fresh \cup {r.f} /\ req' = [req EXCEPT ![q] = Idle]
      /\ file' = file /\ queue' = queue /\ lock' = lock /\ missing' = missing
  BY DEF CommitFolder, Done
<1>2. FoldersOK /\ LinksOK /\ FilesOK /\ TotalsOK /\ BackgroundOK /\ RequestsOK
  BY DEF Shape
<1>3. /\ Nodes' = Nodes \cup {r.f} /\ r.f \in Folder \ Nodes /\ r.f \notin Root
      /\ r.p \in Nodes
      /\ folder' \in [Folder -> FolderRow \cup {None}]
      /\ folder'[r.f] = [parent |-> r.p, ws |-> r.ws, name |-> r.n]
      /\ \A f \in Nodes : folder'[f] = folder[f]
  BY <1>2, CommitsRow
<1>4. FoldersOK'
  <2>1. Root \subseteq Nodes'
    BY <1>2, <1>3 DEF FoldersOK
  <2>2. ASSUME NEW f \in Nodes'
        PROVE  /\ folder'[f].parent \in Nodes' \cup {None}
               /\ folder'[f].parent = None <=> f \in Root
               /\ folder'[f].parent # f
    <3>1. CASE f = r.f
      <4>1. folder'[f].parent = r.p /\ r.p # None /\ r.p # f
        BY <1>3, <3>1, TreeAssumption DEF Nodes
      <4> QED BY <1>3, <3>1, <4>1
    <3>2. CASE f \in Nodes
      BY <1>2, <1>3, <3>2 DEF FoldersOK
    <3> QED BY <1>3, <3>1, <3>2
  <2> QED BY <1>3, <2>1, <2>2 DEF FoldersOK
<1>5. LinksOK'
  <2>1. Linked(r.links, Nodes \cup {r.f}) /\ Covers(r.links, r.f, r.f)
    BY DEF Inserted
  <2>2. Linked(links, Nodes) /\ \A f \in Nodes : Covers(links, f, f)
    BY <1>2 DEF LinksOK
  <2>3. Linked(links', Nodes')
    BY <1>1, <1>3, <2>1, <2>2 DEF Linked
  <2>4. \A f \in Nodes' : Covers(links', f, f)
    BY <1>1, <1>3, <2>1, <2>2 DEF Covers
  <2> QED BY <2>3, <2>4 DEF LinksOK
<1>6. FilesOK' /\ BackgroundOK'
  BY <1>1, <1>2, <1>3 DEF FilesOK, BackgroundOK
<1>7. TotalsOK'
  <2>1. Queueable(Nodes) \subseteq Queueable(Nodes')
    BY <1>3 DEF Queueable
  <2>2. Seq(Queueable(Nodes)) \subseteq Seq(Queueable(Nodes'))
    BY <2>1
  <2> QED BY <1>1, <1>2, <1>3, <2>2 DEF TotalsOK
<1>8. \A o \in Request : req'[o] = IF o = q THEN Idle ELSE req[o]
  BY <1>1, <1>2 DEF RequestsOK
<1>9. RequestsOK'
  <2>1. ASSUME NEW o \in Request
        PROVE  RequestOK(req'[o], Nodes', file')
    <3>1. CASE o = q
      BY <1>8, <3>1 DEF RequestOK
    <3>2. CASE o # q
      <4>1. RequestOK(req[o], Nodes, file)
        BY <1>2 DEF RequestsOK
      <4>2. Creating(r)
        BY DEF Inserted, Creating
      <4>3. Creating(req[o]) => req[o].f \notin Nodes'
        BY <1>2, <1>3, <3>2, <4>1, <4>2, RequestKinds DEF RequestsOK, Distinct
      <4> QED BY <1>1, <1>3, <1>8, <3>2, <4>1, <4>3, RequestStays
    <3> QED BY <3>1, <3>2
  <2>2. ~Creating(Idle) /\ ~Committing(Idle)
    BY DEF Creating, Committing, Idle
  <2>3. Distinct(req') /\ Holding(req', lock') /\ DOMAIN req' = Request
    BY <1>1, <1>2, <1>8, <2>2 DEF RequestsOK, Distinct, Holding
  <2> QED BY <2>1, <2>3 DEF RequestsOK
<1> QED BY <1>4, <1>5, <1>6, <1>7, <1>8, <1>9 DEF Shape

\* What a commit that is not stale has read: the links and the workspace are of now.
LEMMA CommitKnows ==
    ASSUME NEW q \in Request, CommitFolder(q), Kept'
    PROVE  LET r == req[q] IN
           /\ Kept /\ r.links = NewLinks(links, r.f, r.p) /\ r.ws = folder[r.p].ws
           /\ \A o \in Request : At(o, "move", "commit") => r.p \notin req[o].subtree
<1>1. "create" \notin stale' /\ stale \subseteq stale'
  BY DEF CommitFolder, StaleIf, Kept
<1> QED BY <1>1 DEF CommitFolder, StaleIf, Kept

\* The tree with the new folder, which no move under way knows or need know.
LEMMA CommitsTree ==
    ASSUME Shape, TreeOK, NEW q \in Request, CommitFolder(q), Inserted(req[q], Nodes), Kept'
    PROVE  TreeOK'
<1> DEFINE r == req[q]
           lm == links \cup NewLinks(links, r.f, r.p)
<1>1. /\ links' = lm /\ r.ws = folder[r.p].ws
      /\ \A o \in Request : At(o, "move", "commit") => r.p \notin req[o].subtree
  BY CommitKnows DEF CommitFolder
<1>2. FoldersOK /\ LinksOK /\ Linked(links, Nodes) /\ RequestsOK
  BY DEF Shape, LinksOK
<1>3. /\ Nodes' = Nodes \cup {r.f} /\ r.f \notin Nodes /\ r.p \in Nodes
      /\ folder'[r.f] = [parent |-> r.p, ws |-> r.ws, name |-> r.n]
      /\ \A f \in Nodes : folder'[f] = folder[f] /\ Parent'[f] = Parent[f] /\ Parent[f] # r.f
      /\ Parent'[r.f] = r.p
  BY <1>2, CommitsRow
<1>4. \A o \in Request : req'[o] = IF o = q THEN Idle ELSE req[o]
  BY CommitsShape
<1>5. /\ Ordered(links, Nodes, Parent) /\ Homes(folder, links, Nodes)
      /\ MovesKnow(req, folder, links)
  BY DEF TreeOK
<1> HIDE DEF TreeOK, Shape
<1>6. /\ Ordered(lm, Nodes \cup {r.f}, Parent')
      /\ \A a, d \in Nodes : Covers(lm, a, d) <=> Covers(links, a, d)
      /\ \A a \in Nodes \cup {r.f} : Covers(lm, a, r.f) <=> a = r.f \/ Covers(links, a, r.p)
      /\ \A d \in Nodes : ~Covers(lm, r.f, d)
      /\ Linked(lm, Nodes \cup {r.f})
  <2>1. NewUnder(links, Nodes, Parent, Parent', r.f, r.p)
    BY <1>2, <1>3, <1>5 DEF NewUnder
  <2>2. Grown(links, lm, Nodes, Parent', r.f, r.p)
    BY <2>1, NewLinksOrdered
  <2> QED BY <2>2 DEF Grown
<1>7. Homes(folder', lm, Nodes')
  <2> SUFFICES ASSUME NEW a \in Nodes', NEW d \in Nodes', Covers(lm, a, d)
               PROVE  folder'[a].ws = folder'[d].ws
    BY DEF Homes
  <2>1. CASE a = r.f
    BY <1>3, <1>6, <2>1
  <2>2. CASE a # r.f /\ d = r.f
    <3>1. a \in Nodes /\ Covers(links, a, r.p)
      BY <1>3, <1>6, <2>2
    <3>2. folder[a].ws = folder[r.p].ws
      BY <1>3, <1>5, <3>1 DEF Homes
    <3> QED BY <1>1, <1>3, <2>2, <3>1, <3>2
  <2>3. CASE a # r.f /\ d # r.f
    <3>1. a \in Nodes /\ d \in Nodes /\ Covers(links, a, d)
      BY <1>3, <1>6, <2>3
    <3> QED BY <1>3, <1>5, <3>1 DEF Homes
  <2> QED BY <2>1, <2>2, <2>3
<1>8. MovesKnow(req', folder', lm)
  <2> SUFFICES ASSUME NEW o \in Request, Committing(req'[o]), Locking(req'[o], folder')
               PROVE  UpToDate(req'[o], lm)
    BY DEF MovesKnow
  <2> DEFINE m == req[o]
  <2>1. o # q /\ req'[o] = m /\ Committing(m)
    BY <1>4 DEF Committing, Idle
  <2>2. Relinking(m, Nodes)
    BY <1>2, <2>1, RequestKinds DEF RequestsOK
  <2>3. m.f \in Nodes /\ m.p \in Nodes
    BY <2>2 DEF Relinking
  <2>4. Locking(m, folder)
    BY <1>3, <2>1, <2>3 DEF Locking
  <2>5. UpToDate(m, links)
    BY <1>5, <2>1, <2>4 DEF MovesKnow
  <2>6. ~Covers(links, m.f, r.p)
    <3>1. r.p \notin m.subtree
      BY <1>1, <2>1 DEF Committing, At
    <3> QED BY <2>5, <3>1, SubtreeCovers DEF UpToDate
  <2>7. ASSUME NEW l \in links \cup lm,
               l[1] = m.f \/ l[2] \in Subtree(links, m.f) \/ l[2] = m.p
        PROVE  l \in links <=> l \in lm
    <3>1. SUFFICES ASSUME l \notin links
                   PROVE  FALSE
      OBVIOUS
    <3>2. l \in NewLinks(links, r.f, r.p)
      BY <3>1
    <3>3. l[2] = r.f /\ (l[1] = r.f \/ Covers(links, l[1], r.p))
      <4>1. CASE l = <<r.f, r.f, 0>>
        BY <4>1
      <4>2. CASE l # <<r.f, r.f, 0>>
        <5>1. PICK k \in links : k[2] = r.p /\ l = <<k[1], r.f, k[3] + 1>>
          BY <3>2, <4>2 DEF NewLinks, Link
        <5>2. l[1] = k[1] /\ l[2] = r.f
          BY <5>1
        <5> QED BY <5>1, <5>2 DEF Covers
      <4> QED BY <4>1, <4>2
    <3>4. l[1] # m.f
      BY <1>3, <2>3, <2>6, <3>3
    <3>5. l[2] # m.p
      BY <1>3, <2>3, <3>3
    <3>6. l[2] \notin Subtree(links, m.f)
      BY <1>2, <1>3, <3>3, SubtreeCovers, CoversInside
    <3> QED BY <2>7, <3>4, <3>5, <3>6
  <2> HIDE DEF lm, m
  <2>8. UpToDate(m, lm)
    BY <2>5, <2>7, StaysUpToDate
  <2> QED BY <2>1, <2>8
<1> QED BY <1>1, <1>3, <1>6, <1>7, <1>8 DEF TreeOK

\* A new folder holds nothing, and nothing is queued under it.
LEMMA CommitsTotals ==
    ASSUME IInv, NEW q \in Request, CommitFolder(q), Inserted(req[q], Nodes)
    PROVE  TotalsAddUp'
<1> DEFINE r == req[q]
           lm == links \cup NewLinks(links, r.f, r.p)
<1>1. Shape' /\ file' \in FileTable
  BY CommitsShape DEF IInv, Shape, FilesOK
<1> SUFFICES ASSUME stale' = {}
             PROVE  Adds(file', links', stored', queue', Nodes')
  BY <1>1, TotalsThen
<1>2. Kept' /\ stale = {}
  BY DEF Kept, CommitFolder, StaleIf
<1>3. Kept /\ TreeOK /\ links' = lm
  BY <1>2, CommitKnows DEF IInv, CommitFolder
<1>4. /\ file' = file /\ queue' = queue /\ stored' = [stored EXCEPT ![r.f] = 0]
  BY DEF CommitFolder
<1>5. /\ FoldersOK /\ LinksOK /\ FilesOK /\ file \in FileTable
      /\ stored \in [Folder -> Nat] /\ queue \in Seq(Queueable(Nodes)) /\ queue \in Seq(DeltaRow)
  BY QueueTyped DEF IInv, Shape, FilesOK, TotalsOK
<1>6. /\ Nodes' = Nodes \cup {r.f} /\ r.f \in Folder \ Nodes /\ r.p \in Nodes
      /\ \A f \in Nodes : Parent'[f] = Parent[f] /\ Parent[f] # r.f
      /\ Parent'[r.f] = r.p
  BY <1>5, CommitsRow
<1>7. /\ \A a, d \in Nodes : Covers(lm, a, d) <=> Covers(links, a, d)
      /\ \A d \in Nodes : ~Covers(lm, r.f, d)
  <2>1. NewUnder(links, Nodes, Parent, Parent', r.f, r.p)
    BY <1>3, <1>5, <1>6 DEF NewUnder, LinksOK, TreeOK
  <2>2. Grown(links, lm, Nodes, Parent', r.f, r.p)
    BY <2>1, NewLinksOrdered
  <2> QED BY <1>6, <2>2 DEF Grown
<1>8. /\ Weights(File, Home(file), Held(file)) /\ Placed(File, Home(file), Held(file), Nodes)
      /\ Weights(DOMAIN queue, Places(queue), Amounts(queue))
      /\ Placed(DOMAIN queue, Places(queue), Amounts(queue), Nodes)
      /\ \A f, lk : Amount(queue, f, lk) = Load(Places(queue), Amounts(queue), lk, f)
  BY <1>5, HeldWeighs, FilesPlaced, QueuePlaced, AmountIsLoad
<1>9. \A a \in Nodes : stored[a] + Amount(queue, a, links) = TruthOf(file, links, a)
  BY <1>2, <1>5, TotalsNow DEF IInv, Adds
<1> HIDE DEF lm
<1>10. ASSUME NEW a \in Nodes
       PROVE  stored'[a] + Amount(queue, a, lm) = TruthOf(file, lm, a)
  <2>1. /\ Load(Home(file), Held(file), lm, a) = Load(Home(file), Held(file), links, a)
        /\ Load(Places(queue), Amounts(queue), lm, a) = Load(Places(queue), Amounts(queue), links, a)
    BY <1>7, <1>8, LoadSame
  <2>2. stored'[a] = stored[a]
    BY <1>4, <1>5, <1>6
  <2> QED BY <1>8, <1>9, <2>1, <2>2 DEF TruthOf
<1>11. stored'[r.f] + Amount(queue, r.f, lm) = TruthOf(file, lm, r.f)
  <2>1. /\ Load(Home(file), Held(file), lm, r.f) = 0
        /\ Load(Places(queue), Amounts(queue), lm, r.f) = 0
    <3>1. /\ \A i \in File : Covers(lm, r.f, Home(file)[i]) => Held(file)[i] = 0
          /\ \A i \in DOMAIN queue : Covers(lm, r.f, Places(queue)[i]) => Amounts(queue)[i] = 0
      BY <1>7, <1>8 DEF Placed
    <3> QED BY <1>8, <3>1, LoadOfNothing
  <2>2. stored'[r.f] = 0
    BY <1>4, <1>5, <1>6
  <2> QED BY <1>8, <2>1, <2>2 DEF TruthOf
<1> QED BY <1>3, <1>4, <1>6, <1>10, <1>11 DEF Adds

\* folders.create commits.
LEMMA Commits ==
    ASSUME IInv, NEW q \in Request, CommitFolder(q)
    PROVE  IInv'
<1>1. Inserted(req[q], Nodes)
  BY Requests DEF IInv, Shape, CommitFolder
<1>2. Shape' /\ TotalsAddUp'
  BY <1>1, CommitsShape, CommitsTotals DEF IInv
<1>3. ASSUME Kept'
      PROVE  TreeOK'
  BY <1>1, <1>3, CommitKnows, CommitsTree DEF IInv
<1> QED BY <1>2, <1>3 DEF IInv

-----------------------------------------------------------------------------
(* A move is committed.                                                    *)
LEMMA MoveRows ==
    ASSUME FoldersOK, NEW q \in Request, MoveCommit(q), Relinking(req[q], Nodes)
    PROVE  LET r == req[q] IN
           /\ Nodes' = Nodes /\ r.f \in Nodes /\ r.f \notin Root /\ r.p \in Nodes /\ r.p # r.f
           /\ folder' \in [Folder -> FolderRow \cup {None}]
           /\ \A d \in Nodes : folder'[d].parent = IF d = r.f THEN r.p ELSE folder[d].parent
           /\ \A d \in Nodes : Parent'[d] = IF d = r.f THEN r.p ELSE Parent[d]
           /\ \A d \in Nodes : folder'[d].ws =
                  IF r.ws = r.pws \/ (d # r.f /\ d \notin r.subtree) THEN folder[d].ws ELSE r.pws
<1> DEFINE r == req[q]
           to(f) == [parent |-> r.p, name |-> r.n, ws |-> IF r.ws = r.pws THEN folder[f].ws ELSE r.pws]
           in(f) == [folder[f] EXCEPT !.ws = r.pws]
<1>1. /\ r.f \in Nodes /\ r.f \notin Root /\ r.p \in Nodes /\ r.p # r.f
      /\ r.p \in Folder /\ r.f \in Folder /\ r.n \in Name /\ r.pws \in Root
  BY DEF Relinking, Nodes
<1>2. r.subtree \subseteq Nodes
  <2>1. \A d \in r.subtree : Covers(r.added, r.p, d)
    BY DEF Relinking
  <2>2. Linked(r.added, Nodes)
    BY DEF Relinking
  <2> QED BY <2>1, <2>2, CoversInside
<1>3. folder \in [Folder -> FolderRow \cup {None}] /\ Root \subseteq Nodes
  BY DEF FoldersOK
<1>4. \A d \in Nodes : /\ d \in Folder /\ folder[d] \in FolderRow /\ folder[d] # None
                       /\ folder[d].ws \in Root
  BY RowOf DEF Exists
<1>5. \A d \in Folder : folder'[d] = IF d = r.f THEN to(d)
          ELSE IF r.ws # r.pws /\ d \in r.subtree THEN in(d) ELSE folder[d]
  BY DEF MoveCommit, Rehomed
<1>6. to(r.f) \in FolderRow /\ to(r.f) # None /\ to(r.f).parent = r.p
      /\ to(r.f).ws = IF r.ws = r.pws THEN folder[r.f].ws ELSE r.pws
  BY <1>1, <1>4, TreeAssumption DEF FolderRow
<1>7. \A d \in Nodes : /\ in(d) \in FolderRow /\ in(d) # None
                       /\ in(d).parent = folder[d].parent /\ in(d).ws = r.pws
  <2> SUFFICES ASSUME NEW d \in Nodes
               PROVE  /\ in(d) \in FolderRow /\ in(d).parent = folder[d].parent
                      /\ in(d).ws = r.pws
    BY TreeAssumption
  <2>1. folder[d] \in FolderRow
    BY <1>4
  <2> QED BY <1>1, <2>1 DEF FolderRow
<1> HIDE DEF to, in
<1>8. \A d \in Nodes : /\ folder'[d] \in FolderRow /\ folder'[d] # None
                       /\ folder'[d].parent = IF d = r.f THEN r.p ELSE folder[d].parent
                       /\ folder'[d].ws = IF r.ws = r.pws \/ (d # r.f /\ d \notin r.subtree)
                                          THEN folder[d].ws ELSE r.pws
  <2> SUFFICES ASSUME NEW d \in Nodes
               PROVE  /\ folder'[d] \in FolderRow /\ folder'[d] # None
                      /\ folder'[d].parent = IF d = r.f THEN r.p ELSE folder[d].parent
                      /\ folder'[d].ws = IF r.ws = r.pws \/ (d # r.f /\ d \notin r.subtree)
                                          THEN folder[d].ws ELSE r.pws
    OBVIOUS
  <2>1. CASE d = r.f
    BY <1>4, <1>5, <1>6, <2>1
  <2>2. CASE d # r.f /\ r.ws # r.pws /\ d \in r.subtree
    BY <1>4, <1>5, <1>7, <2>2
  <2>3. CASE d # r.f /\ ~(r.ws # r.pws /\ d \in r.subtree)
    BY <1>4, <1>5, <2>3
  <2> QED BY <2>1, <2>2, <2>3
<1>9. \A d \in Folder \ Nodes : folder'[d] = None /\ folder[d] = None
  BY <1>1, <1>2, <1>5 DEF Nodes, Exists
<1>10. Nodes' = Nodes
  BY <1>8, <1>9 DEF Nodes, Exists
<1>11. folder' \in [Folder -> FolderRow \cup {None}]
  <2>1. folder' = [d \in Folder |-> folder'[d]]
    BY DEF MoveCommit, Rehomed
  <2>2. \A d \in Folder : folder'[d] \in FolderRow \cup {None}
    BY <1>8, <1>9
  <2> QED BY <2>1, <2>2
<1>12. \A d \in Nodes : Parent'[d] = IF d = r.f THEN r.p ELSE Parent[d]
  BY <1>4, <1>8 DEF Parent, Exists
<1> QED BY <1>1, <1>8, <1>10, <1>11, <1>12

(* A queue whose deltas are in another workspace.                          *)
LEMMA RetaggedSame ==
    ASSUME queue \in Seq(Queueable(Nodes)), NEW r, r.pws \in Root
    PROVE  /\ Retagged(r) \in Seq(Queueable(Nodes)) /\ DOMAIN Retagged(r) = DOMAIN queue
           /\ Places(Retagged(r)) = Places(queue) /\ Amounts(Retagged(r)) = Amounts(queue)
<1> DEFINE t == Retagged(r)
<1>1. /\ DOMAIN queue = 1 .. Len(queue) /\ Len(queue) \in Nat
      /\ \A i \in DOMAIN queue : queue[i] \in Queueable(Nodes)
  BY QueueIndices
<1>2. ASSUME NEW i \in DOMAIN queue
      PROVE  /\ t[i] \in Queueable(Nodes) /\ t[i].folder = queue[i].folder
             /\ t[i].amount = queue[i].amount
  <2>1. queue[i] \in Queueable(Nodes)
    BY <1>1
  <2>2. CASE r.ws # r.pws /\ queue[i].ws = r.ws /\ queue[i].folder \in r.subtree
    <3>1. t[i] = [queue[i] EXCEPT !.ws = r.pws]
      BY <2>2 DEF Retagged
    <3> HIDE DEF t
    <3> QED BY <2>1, <3>1 DEF Queueable, DeltaRow
  <2>3. CASE ~(r.ws # r.pws /\ queue[i].ws = r.ws /\ queue[i].folder \in r.subtree)
    <3>1. t[i] = queue[i]
      BY <2>3 DEF Retagged
    <3> QED BY <2>1, <3>1
  <2> QED BY <2>2, <2>3
<1>3. t = [i \in 1 .. Len(queue) |-> t[i]] /\ DOMAIN t = DOMAIN queue
  BY <1>1 DEF Retagged
<1> HIDE DEF t
<1>4. t \in Seq(Queueable(Nodes))
  BY <1>1, <1>2, <1>3
<1>5. Places(t) = Places(queue) /\ Amounts(t) = Amounts(queue)
  BY <1>2, <1>3 DEF Places, Amounts
<1> QED BY <1>3, <1>4, <1>5 DEF t

\* A move retags deltas, which changes no sum, and records what it carries.
LEMMA MoveQueues ==
    ASSUME TotalsOK, NEW q \in Request, MoveCommit(q), Relinking(req[q], Nodes)
    PROVE  LET r == req[q] IN
           /\ queue' \in Seq(Queueable(Nodes))
           /\ \A f, lk : Amount(queue', f, lk) = Amount(queue, f, lk)
                 + Recorded(f, r.parent, -stored[r.f], lk) + Recorded(f, r.p, stored[r.f], lk)
<1> DEFINE r == req[q]
           n == stored[r.f]
           t == Retagged(r)
           one == t \o Queued(r.ws, r.parent, -n)
<1>1. /\ queue \in Seq(Queueable(Nodes)) /\ stored \in [Folder -> Nat]
      /\ Nodes \in SUBSET Folder
  BY DEF TotalsOK, Nodes
<1>2. /\ r.f \in Nodes /\ r.p \in Nodes /\ r.p \in Folder /\ r.parent \in Folder
      /\ r.ws \in Root /\ r.pws \in Root
  BY DEF Relinking, Nodes
<1>3. n \in Nat /\ n \in Int /\ -n \in Int /\ (-n # 0 => n # 0)
  BY <1>1, <1>2
<1>4. n # 0 => r.parent \in Nodes
  BY <1>2 DEF MoveCommit, Carried, Nodes
<1>5. queue' = t \o Queued(r.ws, r.parent, -n) \o Queued(r.pws, r.p, n)
  BY DEF MoveCommit, Carried
<1>6. /\ t \in Seq(Queueable(Nodes)) /\ DOMAIN t = DOMAIN queue
      /\ Places(t) = Places(queue) /\ Amounts(t) = Amounts(queue)
  BY <1>1, <1>2, RetaggedSame
<1> HIDE DEF n, t
<1>7. \A f, lk : Amount(t, f, lk) = Amount(queue, f, lk)
  BY <1>1, <1>6, QueueTyped, AmountIsLoad
<1>8. /\ one \in Seq(Queueable(Nodes))
      /\ \A f, lk : Amount(one, f, lk) = Amount(t, f, lk) + Recorded(f, r.parent, -n, lk)
  BY <1>1, <1>2, <1>3, <1>4, <1>6, AmountQueued
<1> HIDE DEF one
<1>9. /\ one \o Queued(r.pws, r.p, n) \in Seq(Queueable(Nodes))
      /\ \A f, lk : Amount(one \o Queued(r.pws, r.p, n), f, lk)
                        = Amount(one, f, lk) + Recorded(f, r.p, n, lk)
  BY <1>1, <1>2, <1>3, <1>8, AmountQueued
<1>10. queue' = one \o Queued(r.pws, r.p, n)
  BY <1>5 DEF one
<1>11. \A f, lk : Amount(queue', f, lk) = Amount(queue, f, lk)
                 + Recorded(f, r.parent, -n, lk) + Recorded(f, r.p, n, lk)
  BY <1>7, <1>8, <1>9, <1>10
<1> QED BY <1>9, <1>10, <1>11 DEF n

\* What a committed move keeps whatever is stale.
LEMMA MovesShape ==
    ASSUME Shape, NEW q \in Request, MoveCommit(q), Relinking(req[q], Nodes)
    PROVE  Shape' /\ \A o \in Request : req'[o] = IF o = q THEN Idle ELSE req[o]
<1> DEFINE r == req[q]
<1>1. /\ links' = (links \ r.cut) \cup r.added /\ stored' = stored
      /\ fresh' = fresh /\ req' = [req EXCEPT ![q] = Idle]
      /\ file' = file /\ lock' = Unlocked(q) /\ missing' = missing
  BY DEF MoveCommit, Done, scan
<1>2. FoldersOK /\ LinksOK /\ FilesOK /\ TotalsOK /\ BackgroundOK /\ RequestsOK
  BY DEF Shape
<1>3. /\ Nodes' = Nodes /\ r.f \in Nodes /\ r.f \notin Root /\ r.p \in Nodes /\ r.p # r.f
      /\ folder' \in [Folder -> FolderRow \cup {None}]
      /\ \A d \in Nodes : folder'[d].parent = IF d = r.f THEN r.p ELSE folder[d].parent
  BY <1>2, MoveRows
<1>4. FoldersOK'
  <2>1. ASSUME NEW f \in Nodes
        PROVE  /\ folder'[f].parent \in Nodes \cup {None}
               /\ folder'[f].parent = None <=> f \in Root
               /\ folder'[f].parent # f
    <3>1. CASE f = r.f
      BY <1>3, <3>1, TreeAssumption DEF Nodes
    <3>2. CASE f # r.f
      BY <1>2, <1>3, <3>2 DEF FoldersOK
    <3> QED BY <3>1, <3>2
  <2> QED BY <1>2, <1>3, <2>1 DEF FoldersOK
<1>5. LinksOK'
  <2>1. Linked(r.added, Nodes) /\ \A l \in r.cut : l[1] # l[2]
    BY DEF Relinking
  <2>2. Linked(links', Nodes)
    BY <1>1, <1>2, <2>1 DEF Linked, LinksOK
  <2>3. ASSUME NEW f \in Nodes
        PROVE  Covers(links', f, f)
    <3>1. PICK l \in links : l[1] = f /\ l[2] = f
      BY <1>2 DEF LinksOK, Covers
    <3>2. l \in links'
      BY <1>1, <2>1, <3>1
    <3> QED BY <3>1, <3>2 DEF Covers
  <2> QED BY <1>3, <2>2, <2>3 DEF LinksOK
<1>6. FilesOK'
  BY <1>1, <1>2, <1>3 DEF FilesOK
<1>7. TotalsOK'
  BY <1>1, <1>2, <1>3, MoveQueues DEF TotalsOK
<1>8. /\ lock' \in [Root -> Request \cup {None, Rollup}]
      /\ \A w \in Root : lock[w] \in Request \ {q} => lock'[w] = lock[w]
  BY <1>1, <1>2 DEF BackgroundOK, Unlocked
<1>9. BackgroundOK'
  BY <1>1, <1>2, <1>8 DEF BackgroundOK
<1>10. /\ RequestsOK'
       /\ \A o \in Request : req'[o] = IF o = q THEN Idle ELSE req[o]
  <2>1. RequestsOK /\ Nodes' = Nodes /\ req' = [req EXCEPT ![q] = Idle]
    BY <1>1, <1>2, <1>3
  <2>2. \A g \in File : file[g] # None => file'[g] # None
    BY <1>1
  <2> QED BY ONLY <1>8, <2>1, <2>2, q \in Request, RequestEnds
<1> QED BY <1>4, <1>5, <1>6, <1>7, <1>9, <1>10 DEF Shape

(* When the locks are those of the workspaces that the folders are in, the *)
(* move is one of the closure as it is.                                    *)
LEMMA MoveIsMoved ==
    ASSUME Shape, TreeOK, NEW q \in Request, MoveCommit(q), Relinking(req[q], Nodes), Kept'
    PROVE  LET r == req[q] IN
           /\ Locking(r, folder) /\ UpToDate(r, links)
           /\ links' = Moved(links, r.f, r.p)
           /\ ~Covers(links, r.f, r.p)
           /\ Linked(links', Nodes) /\ Rehung(links, links', Nodes, r.f, r.p)
           /\ \A d \in Nodes : folder'[d].ws = IF Covers(links, r.f, d) THEN r.pws ELSE folder[d].ws
<1> DEFINE r == req[q]
<1>1. "lock" \notin stale'
  BY DEF Kept
<1>2. r.ws = folder[r.f].ws /\ r.pws = folder[r.p].ws
  BY <1>1 DEF MoveCommit
<1>3. Locking(r, folder) /\ UpToDate(r, links)
  BY <1>2 DEF Locking, TreeOK, MovesKnow, MoveCommit, At, Committing
<1>4. links' = Moved(links, r.f, r.p)
  BY <1>3 DEF UpToDate, Moved, MoveCommit
<1>5. ~Covers(links, r.f, r.p)
  <2>1. r.p \notin r.subtree
    BY DEF MoveCommit
  <2> QED BY <1>3, <2>1, SubtreeCovers DEF UpToDate
<1>6. r.f \in Nodes /\ r.p \in Nodes /\ Linked(links, Nodes) /\ \A d \in Nodes : Covers(links, d, d)
  BY DEF Relinking, Shape, LinksOK
<1>7. Linked(links', Nodes) /\ Rehung(links, links', Nodes, r.f, r.p)
  BY <1>4, <1>5, <1>6, MovedRehangs
<1>8. ASSUME NEW d \in Nodes
      PROVE  folder'[d].ws = IF Covers(links, r.f, d) THEN r.pws ELSE folder[d].ws
  <2>1. folder'[d].ws = IF r.ws = r.pws \/ (d # r.f /\ d \notin r.subtree) THEN folder[d].ws ELSE r.pws
    BY MoveRows DEF Shape
  <2>2. d \in r.subtree <=> Covers(links, r.f, d)
    BY <1>3, SubtreeCovers DEF UpToDate
  <2>3. Covers(links, r.f, d) => folder[d].ws = r.ws
    BY <1>2, <1>6 DEF TreeOK, Homes
  <2>4. d = r.f => Covers(links, r.f, d)
    BY <1>6
  <2> QED BY <2>1, <2>2, <2>3, <2>4
<1> QED BY <1>3, <1>4, <1>5, <1>7, <1>8

\* With its locks held, a move rehangs the tree as it is, and disturbs no other move.
LEMMA MovesTree ==
    ASSUME Shape, TreeOK, NEW q \in Request, MoveCommit(q), Relinking(req[q], Nodes), Kept'
    PROVE  TreeOK'
<1> DEFINE r == req[q]
           Z == {d \in Nodes : folder[d].ws \in {r.ws, r.pws}}
<1>1. /\ Locking(r, folder) /\ UpToDate(r, links)
      /\ links' = Moved(links, r.f, r.p)
      /\ ~Covers(links, r.f, r.p)
      /\ Linked(links', Nodes) /\ Rehung(links, links', Nodes, r.f, r.p)
      /\ \A d \in Nodes : folder'[d].ws = IF Covers(links, r.f, d) THEN r.pws ELSE folder[d].ws
  BY MoveIsMoved
<1>2. /\ FoldersOK /\ LinksOK /\ Linked(links, Nodes) /\ RequestsOK
      /\ Ordered(links, Nodes, Parent) /\ Homes(folder, links, Nodes)
      /\ MovesKnow(req, folder, links)
  BY DEF Shape, LinksOK, TreeOK
<1>3. /\ Nodes' = Nodes /\ r.f \in Nodes /\ r.p \in Nodes
      /\ \A d \in Nodes : Parent'[d] = IF d = r.f THEN r.p ELSE Parent[d]
  BY <1>2, MoveRows
<1>4. \A o \in Request : req'[o] = IF o = q THEN Idle ELSE req[o]
  BY MovesShape
<1>5. MoveCommit(q) => lock[r.ws] = q /\ lock[r.pws] = q
  BY <1>2 DEF RequestsOK, Holding, MoveCommit, At, Committing
<1> HIDE DEF TreeOK, Shape
<1>6. Ordered(links', Nodes, Parent')
  BY <1>1, <1>2, <1>3, RehungOrdered
<1>7. /\ \A a, b, d \in Nodes : Covers(links, a, b) /\ Covers(links, b, d) => Covers(links, a, d)
      /\ \A a, d \in Nodes : Covers(links, a, d) => folder[a].ws = folder[d].ws
      /\ Covers(links, r.f, r.f)
  BY <1>2, <1>3 DEF Ordered, Homes
<1>8. Homes(folder', links', Nodes)
  <2> SUFFICES ASSUME NEW a \in Nodes, NEW d \in Nodes, Covers(links', a, d)
               PROVE  folder'[a].ws = folder'[d].ws
    BY DEF Homes
  <2>1. CASE Covers(links, r.f, d)
    <3>1. (Covers(links, r.f, a) /\ Covers(links, a, d)) \/ Covers(links, a, r.p)
      BY <1>1, <2>1 DEF Rehung
    <3>2. folder'[d].ws = r.pws
      BY <1>1, <2>1
    <3>3. CASE Covers(links, r.f, a)
      BY <1>1, <3>2, <3>3
    <3>4. CASE ~Covers(links, r.f, a)
      <4>1. folder'[a].ws = folder[a].ws /\ folder[a].ws = folder[r.p].ws
        BY <1>1, <1>3, <1>7, <3>1, <3>4
      <4> QED BY <1>1, <3>2, <4>1 DEF Locking
    <3> QED BY <3>3, <3>4
  <2>2. CASE ~Covers(links, r.f, d)
    <3>1. Covers(links, a, d)
      BY <1>1, <2>2 DEF Rehung
    <3>2. ~Covers(links, r.f, a)
      BY <1>3, <1>7, <2>2, <3>1
    <3> QED BY <1>1, <1>7, <2>2, <3>1, <3>2
  <2> QED BY <2>1, <2>2
<1>9. Elsewhere(links, links', Z)
  <2>1. r.f \in Z /\ r.p \in Z
    BY <1>1, <1>3 DEF Locking
  <2>2. Closed(links, Z)
    <3>1. ASSUME NEW l \in links
          PROVE  l[1] \in Z <=> l[2] \in Z
      <4>1. l[1] \in Nodes /\ l[2] \in Nodes
        BY <1>2 DEF Linked
      <4>2. folder[l[1]].ws = folder[l[2]].ws
        BY <1>7, <4>1 DEF Covers
      <4> QED BY <4>1, <4>2
    <3> QED BY <3>1 DEF Closed
  <2> HIDE DEF Z
  <2> QED BY <1>1, <2>1, <2>2, MovedWithin
<1>10. MovesKnow(req', folder', links')
  <2> SUFFICES ASSUME NEW o \in Request, Committing(req'[o]), Locking(req'[o], folder')
               PROVE  UpToDate(req'[o], links')
    BY DEF MovesKnow
  <2> DEFINE m == req[o]
  <2>1. o # q /\ req'[o] = m /\ Committing(m)
    BY <1>4 DEF Committing, Idle
  <2>2. m.f \in Nodes /\ m.p \in Nodes
    BY <1>2, <2>1, RequestKinds DEF RequestsOK, Relinking
  <2>3. lock[m.ws] = o /\ lock[m.pws] = o
    BY <1>2, <2>1 DEF RequestsOK, Holding
  <2>4. m.ws \notin {r.ws, r.pws} /\ m.pws \notin {r.ws, r.pws}
    BY <1>5, <2>1, <2>3
  <2>5. m.ws = folder'[m.f].ws /\ m.pws = folder'[m.p].ws
    BY <2>1 DEF Locking
  <2>6. m.ws = folder[m.f].ws /\ m.pws = folder[m.p].ws
    BY <1>1, <2>2, <2>4, <2>5
  <2>7. UpToDate(m, links)
    BY <1>2, <2>1, <2>6 DEF MovesKnow, Locking
  <2>8. ASSUME NEW l \in links \cup links',
               l[1] = m.f \/ l[2] \in Subtree(links, m.f) \/ l[2] = m.p
        PROVE  l \in links <=> l \in links'
    <3>1. CASE l[1] = m.f
      <4>1. l[1] \notin Z
        BY <2>4, <2>6, <3>1
      <4> QED BY <1>9, <4>1 DEF Elsewhere
    <3>2. CASE l[2] \in Subtree(links, m.f)
      <4>1. Covers(links, m.f, l[2])
        BY <3>2, SubtreeCovers
      <4>2. l[2] \in Nodes
        BY <1>2, <4>1, CoversInside
      <4>3. folder[l[2]].ws = m.ws
        BY <1>7, <2>2, <2>6, <4>1, <4>2
      <4>4. l[2] \notin Z
        BY <2>4, <4>3
      <4> QED BY <1>9, <4>4 DEF Elsewhere
    <3>3. CASE l[2] = m.p
      <4>1. l[2] \notin Z
        BY <2>4, <2>6, <3>3
      <4> QED BY <1>9, <4>1 DEF Elsewhere
    <3> QED BY <2>8, <3>1, <3>2, <3>3
  <2> HIDE DEF m
  <2>9. UpToDate(m, links')
    BY <2>7, <2>8, StaysUpToDate
  <2> QED BY <2>1, <2>9
<1> QED BY <1>3, <1>6, <1>8, <1>10 DEF TreeOK

(* What a subtree takes with it when it moves.                             *)
Hangs(lk, lm, nodes, parent, f, o, p) ==
    /\ IsFiniteSet(nodes) /\ Ordered(lk, nodes, parent) /\ f \in nodes /\ p \in nodes
    /\ o = parent[f] /\ o \in nodes /\ ~Covers(lk, f, p) /\ Rehung(lk, lm, nodes, f, p)

\* MoveShifts for what a committed move is known to be.
LEMMA HangingShifts ==
    ASSUME NEW lk, NEW lm, NEW nodes, NEW parent, NEW f, NEW o, NEW p,
           Hangs(lk, lm, nodes, parent, f, o, p),
           NEW S, NEW place, NEW weight, Weights(S, place, weight), Placed(S, place, weight, nodes),
           NEW a \in nodes
    PROVE  /\ Load(place, weight, lm, a) =
                  Load(place, weight, lk, a) + Shift(lk, a, o, p) * Load(place, weight, lk, f)
           /\ Covers(lm, a, o) <=> Covers(lk, a, o)
           /\ Covers(lm, a, p) <=> Covers(lk, a, p)
<1>1. /\ IsFiniteSet(nodes) /\ Ordered(lk, nodes, parent) /\ f \in nodes /\ p \in nodes
      /\ o = parent[f] /\ o \in nodes /\ ~Covers(lk, f, p) /\ Rehung(lk, lm, nodes, f, p)
  BY DEF Hangs
<1> QED BY <1>1, MoveShifts

\* The rows of folders are finitely many.
LEMMA FiniteNodes ==
    /\ IsFiniteSet(Nodes) /\ Nodes \in SUBSET Folder
<1>1. Nodes \in SUBSET Folder /\ IsFiniteSet(Folder)
  BY TreeAssumption DEF Nodes
<1> QED BY <1>1, FS_Subset

(* The three amounts that a move changes, in step.                         *)
LEMMA ShiftsBalance ==
    ASSUME NEW k \in {-1, 0, 1}, NEW s \in Int, NEW m \in Int, NEW t \in Int, s + m = t,
           NEW u \in Int, NEW v \in Int, NEW w \in Int, u + v = w
    PROVE  s + ((m + k * v) + k * u) = t + k * w
<1>1. CASE k = -1
  BY <1>1
<1>2. CASE k = 0
  BY <1>2
<1>3. CASE k = 1
  BY <1>3
<1> QED BY <1>1, <1>2, <1>3

\* The two deltas of a move add to every folder what the move shifts.
LEMMA RecordedShift ==
    ASSUME NEW lk, NEW lm, NEW a, NEW o, NEW p, NEW n \in Int, Alike(lk, lm, a, o, p)
    PROVE  /\ Shift(lk, a, o, p) \in {-1, 0, 1}
           /\ Recorded(a, o, -n, lm) + Recorded(a, p, n, lm) = Shift(lk, a, o, p) * n
           /\ Recorded(a, o, -n, lm) \in Int /\ Recorded(a, p, n, lm) \in Int
<1>1. CASE Covers(lk, a, o) /\ Covers(lk, a, p)
  BY <1>1 DEF Shift, Recorded, Alike
<1>2. CASE Covers(lk, a, o) /\ ~Covers(lk, a, p)
  BY <1>2 DEF Shift, Recorded, Alike
<1>3. CASE ~Covers(lk, a, o) /\ Covers(lk, a, p)
  BY <1>3 DEF Shift, Recorded, Alike
<1>4. CASE ~Covers(lk, a, o) /\ ~Covers(lk, a, p)
  BY <1>4 DEF Shift, Recorded, Alike
<1> QED BY <1>1, <1>2, <1>3, <1>4

\* The stored total of the moved folder is recorded; its queued deltas move with it.
LEMMA MovesTotals ==
    ASSUME IInv, NEW q \in Request, MoveCommit(q), Relinking(req[q], Nodes)
    PROVE  TotalsAddUp'
<1> DEFINE r == req[q]
           f == r.f
           o == r.parent
           p == r.p
           n == stored[f]
<1>1. Shape' /\ file' \in FileTable
  BY MovesShape DEF IInv, Shape, FilesOK
<1> SUFFICES ASSUME stale' = {}
             PROVE  Adds(file', links', stored', queue', Nodes')
  BY <1>1, TotalsThen
<1>2. Kept' /\ stale = {} /\ Kept /\ Shape /\ TreeOK
  BY DEF Kept, MoveCommit, IInv
<1>3. o = folder[f].parent
  BY DEF MoveCommit
<1>4. /\ file' = file /\ stored' = stored
  BY DEF MoveCommit
<1>5. /\ FoldersOK /\ LinksOK /\ FilesOK /\ TotalsOK /\ file \in FileTable
      /\ stored \in [Folder -> Nat] /\ queue \in Seq(Queueable(Nodes)) /\ queue \in Seq(DeltaRow)
      /\ Ordered(links, Nodes, Parent)
  BY <1>2, QueueTyped DEF Shape, FilesOK, TotalsOK, TreeOK
<1>6. Nodes' = Nodes /\ f \in Nodes /\ f \notin Root /\ p \in Nodes
  BY <1>5, MoveRows
<1>7. o = Parent[f] /\ o \in Nodes
  BY <1>3, <1>5, <1>6, RowOf
<1>8. ~Covers(links, f, p) /\ Rehung(links, links', Nodes, f, p)
  BY <1>2, MoveIsMoved
<1>9. Hangs(links, links', Nodes, Parent, f, o, p)
  BY <1>5, <1>6, <1>7, <1>8, FiniteNodes DEF Hangs
<1>10. \A d, lk : Amount(queue', d, lk) = Amount(queue, d, lk)
                 + Recorded(d, o, -n, lk) + Recorded(d, p, n, lk)
  BY <1>5, MoveQueues
<1>11. /\ Weights(File, Home(file), Held(file)) /\ Placed(File, Home(file), Held(file), Nodes)
       /\ Weights(DOMAIN queue, Places(queue), Amounts(queue))
       /\ Placed(DOMAIN queue, Places(queue), Amounts(queue), Nodes)
       /\ \A d, lk : /\ Amount(queue, d, lk) = Load(Places(queue), Amounts(queue), lk, d)
                     /\ Amount(queue, d, lk) \in Int
  BY <1>5, HeldWeighs, FilesPlaced, QueuePlaced, AmountIsLoad
<1>12. \A a \in Nodes : stored[a] + Amount(queue, a, links) = TruthOf(file, links, a)
  BY <1>2, <1>5, TotalsNow DEF IInv, Adds
<1>13. n \in Int /\ \A d : TruthOf(file, links, d) \in Int
  BY <1>5, <1>6, TruthNow DEF Nodes
<1> HIDE DEF n, o, p, f, r
<1>14. ASSUME NEW a \in Nodes
       PROVE  stored[a] + Amount(queue', a, links') = TruthOf(file, links', a)
  <2> DEFINE k == Shift(links, a, o, p)
  <2>1. /\ Load(Home(file), Held(file), links', a) =
               Load(Home(file), Held(file), links, a) + k * Load(Home(file), Held(file), links, f)
        /\ Covers(links', a, o) <=> Covers(links, a, o)
        /\ Covers(links', a, p) <=> Covers(links, a, p)
    BY <1>9, <1>11, HangingShifts
  <2>2. Load(Places(queue), Amounts(queue), links', a) =
            Load(Places(queue), Amounts(queue), links, a)
                + k * Load(Places(queue), Amounts(queue), links, f)
    BY <1>9, <1>11, HangingShifts
  <2>3. /\ k \in {-1, 0, 1}
        /\ Recorded(a, o, -n, links') + Recorded(a, p, n, links') = k * n
        /\ Recorded(a, o, -n, links') \in Int /\ Recorded(a, p, n, links') \in Int
    <3>1. Alike(links, links', a, o, p)
      BY <2>1 DEF Alike
    <3> QED BY <1>13, <3>1, RecordedShift
  <2> HIDE DEF k
  <2>4. TruthOf(file, links', a) = TruthOf(file, links, a) + k * TruthOf(file, links, f)
    BY <2>1 DEF TruthOf
  <2>5. /\ Amount(queue, a, links') = Amount(queue, a, links) + k * Amount(queue, f, links)
        /\ Amount(queue, a, links') \in Int
    BY <1>11, <2>2
  <2>6. Amount(queue', a, links') = (Amount(queue, a, links) + k * Amount(queue, f, links)) + k * n
    <3>1. Amount(queue', a, links') = Amount(queue, a, links')
                 + Recorded(a, o, -n, links') + Recorded(a, p, n, links')
      BY <1>10
    <3> QED BY <2>3, <2>5, <3>1
  <2>7. /\ stored[a] \in Int /\ Amount(queue, a, links) \in Int /\ Amount(queue, f, links) \in Int
        /\ stored[a] + Amount(queue, a, links) = TruthOf(file, links, a)
        /\ n + Amount(queue, f, links) = TruthOf(file, links, f)
    <3>1. stored[a] \in Int
      BY <1>5 DEF Nodes
    <3>2. stored[f] + Amount(queue, f, links) = TruthOf(file, links, f)
      BY <1>6, <1>12
    <3> QED BY <1>11, <1>12, <3>1, <3>2 DEF n
  <2>8. stored[a] + ((Amount(queue, a, links) + k * Amount(queue, f, links)) + k * n)
            = TruthOf(file, links, a) + k * TruthOf(file, links, f)
    BY <1>13, <2>3, <2>7, ShiftsBalance
  <2> QED BY <2>4, <2>6, <2>8
<1> QED BY <1>4, <1>6, <1>14 DEF Adds

\* folders.relocate commits.
LEMMA Moves ==
    ASSUME IInv, NEW q \in Request, MoveCommit(q)
    PROVE  IInv'
<1>1. Relinking(req[q], Nodes)
  BY Requests DEF IInv, Shape, MoveCommit
<1>2. Shape' /\ TotalsAddUp'
  BY <1>1, MovesShape, MovesTotals DEF IInv
<1>3. ASSUME Kept'
      PROVE  TreeOK'
  <2>1. Kept
    BY <1>3 DEF Kept, MoveCommit
  <2> QED BY <1>1, <1>3, <2>1, MovesTree DEF IInv
<1> QED BY <1>2, <1>3 DEF IInv

-----------------------------------------------------------------------------
(* A folder that a scan has found again takes over the row of its copy.    *)

(* A transaction that does not refer to a folder outlives its row.         *)
Spares(r, y) ==
    /\ \A k \in DOMAIN r \cap {"f", "p", "at", "to"} : r[k] # y
    /\ \A k \in DOMAIN r \cap {"links", "added"} : \A l \in r[k] : y \notin {l[1], l[2]}

\* Such a transaction is what it was when the row is gone.
LEMMA RequestSpares ==
    ASSUME NEW nodes, NEW y, NEW fs, NEW later, \A g \in File : fs[g] # None => later[g] # None,
           NEW r, RequestOK(r, nodes, fs), Spares(r, y)
    PROVE  RequestOK(r, nodes \ {y}, later)
<1>1. CASE r = Idle
  BY <1>1 DEF RequestOK
<1>2. CASE Making(r, nodes)
  BY <1>2 DEF RequestOK, Making, Spares
<1>3. CASE Inserted(r, nodes)
  <2>1. r.p # y /\ \A l \in r.links : y \notin {l[1], l[2]}
    BY <1>3 DEF Inserted, Spares
  <2>2. Linked(r.links, (nodes \ {y}) \cup {r.f})
    BY <1>3, <2>1 DEF Inserted, Linked
  <2> QED BY <1>3, <2>1, <2>2 DEF RequestOK, Inserted
<1>4. CASE Moving(r, nodes)
  BY <1>4 DEF RequestOK, Moving, Spares
<1>5. CASE Relinking(r, nodes)
  <2>1. r.p # y /\ r.f # y /\ \A l \in r.added : y \notin {l[1], l[2]}
    BY <1>5 DEF Relinking, Spares
  <2>2. Linked(r.added, nodes \ {y})
    BY <1>5, <2>1 DEF Relinking, Linked
  <2> QED BY <1>5, <2>1, <2>2 DEF RequestOK, Relinking
<1>6. CASE Refiling(r, nodes, fs)
  BY <1>6 DEF RequestOK, Refiling, Stored, Spares
<1>7. CASE Rewriting(r, nodes, fs)
  BY <1>7 DEF RequestOK, Rewriting, Stored, Spares
<1>8. CASE Sweeping(r, nodes, fs)
  BY <1>8 DEF RequestOK, Sweeping, Stored, Spares
<1> QED BY <1>1, <1>2, <1>3, <1>4, <1>5, <1>6, <1>7, <1>8 DEF RequestOK

\* Nothing under way refers to a row that is not busy.
LEMMA NotBusy ==
    ASSUME NEW y, ~Busy(y)
    PROVE  \A q \in Request : Spares(req[q], y)
  BY DEF Busy, Spares

(* The rows of the folders, and of the files.                              *)
LEMMA TransferRows ==
    ASSUME FoldersOK, LinksOK, BackgroundOK, NEW x \in Folder, NEW y \in Folder,
           TransferIdentity(x, y)
    PROVE  LET o == folder[x].parent
               p == folder[y].parent
           IN
           /\ x \in Nodes \ Root /\ y \in Nodes \ Root /\ x # y
           /\ o \in Nodes \ {y} /\ p \in Nodes \ {y} /\ p # x
           /\ Parent[x] = o /\ Parent[y] = p
           /\ Nodes' = Nodes \ {y}
           /\ folder' \in [Folder -> FolderRow \cup {None}]
           /\ \A d \in Nodes \ {y} :
                 /\ folder'[d].parent = IF d = x THEN p ELSE IF Parent[d] = y THEN x ELSE Parent[d]
                 /\ Parent'[d] = folder'[d].parent
                 /\ folder'[d].ws = folder[d].ws
<1> DEFINE o == folder[x].parent
           p == folder[y].parent
           xrow == [folder[x] EXCEPT !.parent = p, !.name = folder[y].name]
           up(d) == [folder[d] EXCEPT !.parent = x]
<1>1. /\ x \in missing /\ Exists(x) /\ y \in fresh /\ Exists(y) /\ ~Covers(links, x, y)
      /\ ~Covers(links, y, x) /\ o # y /\ ~Covers(links, x, p)
  BY DEF TransferIdentity, Claim
<1>2. x \in Nodes \ Root /\ y \in Nodes \ Root
  <2>1. x \in Nodes /\ y \in Nodes
    BY <1>1 DEF Nodes
  <2>2. x \notin Root /\ y \notin Root
    BY <1>1, TreeAssumption DEF BackgroundOK
  <2> QED BY <2>1, <2>2
<1>3. Covers(links, x, x) /\ Covers(links, y, y)
  BY <1>2 DEF LinksOK
<1>4. x # y
  BY <1>1, <1>3
<1>5. o \in Nodes \ {y} /\ p \in Nodes \ {y} /\ p # x /\ Parent[x] = o /\ Parent[y] = p
  BY <1>1, <1>2, <1>3, RowOf
<1>6. \A d \in Nodes : /\ d \in Folder /\ folder[d] \in FolderRow /\ folder[d] # None
                       /\ folder[d].ws \in Root /\ Parent[d] = folder[d].parent /\ Exists(d)
  BY RowOf DEF Exists
<1>7. folder' = [d \in Folder |->
          IF d = y THEN None
          ELSE IF d = x THEN xrow
          ELSE IF Exists(d) /\ folder[d].parent = y THEN up(d)
          ELSE folder[d]]
  BY DEF TransferIdentity
<1>8. xrow \in FolderRow /\ xrow # None /\ xrow.parent = p /\ xrow.ws = folder[x].ws
  <2>1. folder[x] \in FolderRow /\ folder[y] \in FolderRow /\ p \in Folder
    BY <1>2, <1>5, <1>6
  <2>2. xrow \in FolderRow /\ xrow.parent = p /\ xrow.ws = folder[x].ws
    BY <2>1 DEF FolderRow
  <2> QED BY <2>2, TreeAssumption
<1>9. \A d \in Nodes : /\ up(d) \in FolderRow /\ up(d) # None
                       /\ up(d).parent = x /\ up(d).ws = folder[d].ws
  <2> SUFFICES ASSUME NEW d \in Nodes
               PROVE  up(d) \in FolderRow /\ up(d).parent = x /\ up(d).ws = folder[d].ws
    BY TreeAssumption
  <2>1. folder[d] \in FolderRow
    BY <1>6
  <2> QED BY <2>1 DEF FolderRow
<1> HIDE DEF xrow, up
<1>10. ASSUME NEW d \in Nodes \ {y}
       PROVE  /\ folder'[d] \in FolderRow /\ folder'[d] # None
              /\ folder'[d].parent = IF d = x THEN p ELSE IF Parent[d] = y THEN x ELSE Parent[d]
              /\ folder'[d].ws = folder[d].ws
  <2>1. CASE d = x
    BY <1>6, <1>7, <1>8, <2>1
  <2>2. CASE d # x /\ folder[d].parent = y
    BY <1>6, <1>7, <1>9, <2>2
  <2>3. CASE d # x /\ folder[d].parent # y
    BY <1>6, <1>7, <2>3
  <2> QED BY <2>1, <2>2, <2>3
<1>11. \A d \in Folder \ Nodes : folder'[d] = None
  <2>1. \A d \in Folder \ Nodes : folder[d] = None
    BY DEF Nodes, Exists
  <2> QED BY <1>2, <1>7, <2>1 DEF Exists
<1>12. folder'[y] = None
  BY <1>7
<1>13. Nodes' = Nodes \ {y}
  <2>1. \A d \in Folder : folder'[d] # None <=> d \in Nodes \ {y}
    BY <1>10, <1>11, <1>12
  <2> QED BY <1>6, <2>1 DEF Nodes, Exists
<1>14. folder' \in [Folder -> FolderRow \cup {None}]
  <2>1. folder' = [d \in Folder |-> folder'[d]]
    BY <1>7
  <2>2. \A d \in Folder : folder'[d] \in FolderRow \cup {None}
    BY <1>10, <1>11, <1>12
  <2> QED BY <2>1, <2>2
<1>15. \A d \in Nodes \ {y} : Parent'[d] = folder'[d].parent
  BY <1>6, <1>10 DEF Parent, Exists
<1> HIDE DEF o, p
<1>16. QED
  BY <1>2, <1>4, <1>5, <1>10, <1>13, <1>14, <1>15 DEF o, p

\* The files of y are in x.
LEMMA TransferFiles ==
    ASSUME FilesOK, FoldersOK, NEW x \in Nodes, NEW y \in Nodes, x # y, TransferIdentity(x, y)
    PROVE  /\ file' \in FileTable
           /\ \A g \in File : file[g] # None => file'[g] # None
           /\ \A g \in File : file'[g] # None => file'[g].at \in Nodes \ {y}
           /\ Held(file') = Held(file)
           /\ \A g \in File : Home(file')[g] = IF Home(file)[g] = y THEN x ELSE Home(file)[g]
<1> DEFINE to(g) == [file[g] EXCEPT !.at = x]
<1>1. file' = [g \in File |-> IF file[g] # None /\ file[g].at = y THEN to(g) ELSE file[g]]
  BY DEF TransferIdentity
<1>2. x \in Folder /\ y \in Folder /\ y # None
  BY TreeAssumption DEF Nodes
<1>3. \A g \in File : file[g] # None => file[g] \in FileRow /\ file[g].at \in Nodes
  BY FileRowOf
<1>4. ASSUME NEW g \in File, file[g] # None
      PROVE  /\ to(g) \in FileRow /\ to(g).at = x /\ to(g).state = file[g].state
             /\ to(g).size = file[g].size
  <2>1. file[g] \in FileRow
    BY <1>3, <1>4
  <2> QED BY <1>2, <2>1 DEF FileRow
<1> HIDE DEF to
<1>5. \A g \in File : file[g] \in FileRow \cup {None}
  BY DEF FilesOK, FileTable
<1>6. ASSUME NEW g \in File
      PROVE  /\ file'[g] \in FileRow \cup {None}
             /\ file'[g] # None <=> file[g] # None
             /\ file[g] # None => /\ file'[g].at = IF file[g].at = y THEN x ELSE file[g].at
                                  /\ file'[g].state = file[g].state /\ file'[g].size = file[g].size
  BY <1>1, <1>4, <1>5, TreeAssumption
<1>7. file' \in FileTable
  BY <1>1, <1>6 DEF FileTable
<1>8. \A g \in File : Held(file')[g] = Held(file)[g]
  BY <1>6 DEF Held, IsLive
<1>9. Held(file') = Held(file)
  BY <1>8 DEF Held
<1>10. \A g \in File : Home(file')[g] = IF Home(file)[g] = y THEN x ELSE Home(file)[g]
  BY <1>2, <1>6 DEF Home
<1>11. \A g \in File : file'[g] # None => file'[g].at \in Nodes \ {y}
  BY <1>3, <1>6
<1> QED BY <1>6, <1>7, <1>9, <1>10, <1>11

-----------------------------------------------------------------------------
(* The deltas of a transfer, and its links.                                *)

\* Repointing keeps the deltas and their order, and leaves none at y.
LEMMA RepointedSame ==
    ASSUME queue \in Seq(Queueable(Nodes)), NEW x \in Nodes, NEW y \in Nodes, x # y
    PROVE  /\ Repointed(x, y) \in Seq(Queueable(Nodes \ {y}))
           /\ DOMAIN Repointed(x, y) = DOMAIN queue /\ Amounts(Repointed(x, y)) = Amounts(queue)
           /\ \A i \in DOMAIN queue :
                 Places(Repointed(x, y))[i] = IF Places(queue)[i] = y THEN x ELSE Places(queue)[i]
<1> DEFINE t == Repointed(x, y)
<1>1. /\ DOMAIN queue = 1 .. Len(queue) /\ Len(queue) \in Nat
      /\ \A i \in DOMAIN queue : queue[i] \in Queueable(Nodes)
  BY QueueIndices
<1>2. x \in Folder
  BY DEF Nodes
<1>3. ASSUME NEW i \in DOMAIN queue
      PROVE  /\ t[i] \in Queueable(Nodes \ {y})
             /\ t[i].folder = IF queue[i].folder = y THEN x ELSE queue[i].folder
             /\ t[i].amount = queue[i].amount
  <2>1. queue[i] \in Queueable(Nodes)
    BY <1>1
  <2>2. CASE queue[i].folder = y
    <3>1. t[i] = [queue[i] EXCEPT !.folder = x]
      BY <2>2 DEF Repointed
    <3> HIDE DEF t
    <3> QED BY <1>2, <2>1, <2>2, <3>1 DEF Queueable, DeltaRow
  <2>3. CASE queue[i].folder # y
    <3>1. t[i] = queue[i]
      BY <2>3 DEF Repointed
    <3> HIDE DEF t
    <3> QED BY <2>1, <2>3, <3>1 DEF Queueable
  <2> QED BY <2>2, <2>3
<1>4. t = [i \in 1 .. Len(queue) |-> t[i]] /\ DOMAIN t = DOMAIN queue
  BY <1>1 DEF Repointed
<1> HIDE DEF t
<1>5. t \in Seq(Queueable(Nodes \ {y}))
  <2> DEFINE V == Queueable(Nodes \ {y})
  <2>1. Len(queue) \in Nat /\ \A i \in 1 .. Len(queue) : t[i] \in V
    BY <1>1, <1>3
  <2>2. t = [i \in 1 .. Len(queue) |-> t[i]]
    BY <1>4
  <2> HIDE DEF V
  <2>3. t \in Seq(V)
    BY <2>1, <2>2
  <2> QED BY <2>3 DEF V
<1>6. Amounts(t) = Amounts(queue)
  BY <1>3, <1>4 DEF Amounts
<1>7. \A i \in DOMAIN queue : Places(t)[i] = IF Places(queue)[i] = y THEN x ELSE Places(queue)[i]
  BY <1>3, <1>4 DEF Places
<1> QED BY <1>4, <1>5, <1>6, <1>7 DEF t

(* What the folder still owed is taken from where it goes, and left where  *)
(* it was.                                                                 *)
LEMMA TransferQueues ==
    ASSUME queue \in Seq(Queueable(Nodes)), NEW x \in Nodes, NEW y \in Nodes, x # y,
           folder[x].parent \in Nodes \ {y}, folder[y].parent \in Nodes \ {y},
           folder[x].ws \in Root, TransferIdentity(x, y)
    PROVE  /\ Amount(queue, x, links) \in Int
           /\ queue' \in Seq(Queueable(Nodes \ {y}))
           /\ \A f, lk : Amount(queue', f, lk) = Amount(Repointed(x, y), f, lk)
                 + Recorded(f, folder[x].parent, Amount(queue, x, links), lk)
                 + Recorded(f, folder[y].parent, -Amount(queue, x, links), lk)
<1> DEFINE w == folder[x].ws
           o == folder[x].parent
           p == folder[y].parent
           n == Amount(queue, x, links)
           t == Repointed(x, y)
           N == Nodes \ {y}
           one == t \o Queued(w, o, n)
           two == one \o Queued(w, p, -n)
<1>1. /\ t \in Seq(Queueable(N)) /\ N \in SUBSET Folder
      /\ o \in N /\ p \in N /\ o \in Folder /\ p \in Folder /\ w \in Root
  BY RepointedSame DEF Nodes
<1>2. n \in Int /\ -n \in Int
  <2>1. queue \in Seq(DeltaRow)
    BY QueueTyped
  <2>2. n \in Int
    BY <2>1, AmountIsLoad
  <2> QED BY <2>2
<1>3. queue' = t \o (IF o = p THEN <<>> ELSE Queued(w, o, n) \o Queued(w, p, -n))
  BY DEF TransferIdentity
<1>4. \A f, lk : Amount(t, f, lk) \in Int
  <2>1. t \in Seq(DeltaRow)
    BY <1>1, QueueTyped
  <2> QED BY <2>1, AmountIsLoad
<1>5. CASE o = p
  <2>1. queue' = t
    BY <1>1, <1>3, <1>5
  <2> HIDE DEF n, t, o, p
  <2>2. ASSUME NEW f, NEW lk
        PROVE  Amount(t, f, lk) = Amount(t, f, lk) + Recorded(f, o, n, lk) + Recorded(f, p, -n, lk)
    BY <1>2, <1>4, <1>5 DEF Recorded
  <2> QED BY <1>1, <1>2, <2>1, <2>2 DEF n, t, o, p
<1>6. CASE o # p
  <2>1. queue' = t \o (Queued(w, o, n) \o Queued(w, p, -n))
    BY <1>3, <1>6
  <2> HIDE DEF n, t, o, p, w, N
  <2>2. /\ one \in Seq(Queueable(N))
        /\ \A f, lk : Amount(one, f, lk) = Amount(t, f, lk) + Recorded(f, o, n, lk)
    <3>1. n # 0 => o \in N
      BY <1>1
    <3>2. /\ t \o Queued(w, o, n) \in Seq(Queueable(N))
          /\ \A f, lk : Amount(t \o Queued(w, o, n), f, lk) =
                            Amount(t, f, lk) + Recorded(f, o, n, lk)
      BY <1>1, <1>2, <3>1, AmountQueued, SMTT(20)
    <3> QED BY <3>2
  <2> HIDE DEF one
  <2>3. /\ two \in Seq(Queueable(N))
        /\ \A f, lk : Amount(two, f, lk) = Amount(one, f, lk) + Recorded(f, p, -n, lk)
    <3>1. PICK m \in Int : m = -n
      BY <1>2
    <3>2. m # 0 => p \in N
      BY <1>1
    <3>3. /\ one \o Queued(w, p, m) \in Seq(Queueable(N))
          /\ \A f, lk : Amount(one \o Queued(w, p, m), f, lk) =
                            Amount(one, f, lk) + Recorded(f, p, m, lk)
      BY <1>1, <2>2, <3>2, AmountQueued
    <3> QED BY <3>1, <3>3
  <2> HIDE DEF two
  <2>4. queue' = two
    <3>1. /\ Queued(w, o, n) \in Seq(DeltaRow) /\ Queued(w, p, -n) \in Seq(DeltaRow)
      <4>1. /\ Delta(w, o, n) \in DeltaRow /\ Delta(w, p, -n) \in DeltaRow
        BY <1>1, <1>2 DEF Delta, DeltaRow
      <4> QED BY <4>1 DEF Queued
    <3>2. t \in Seq(DeltaRow)
      BY <1>1, QueueTyped
    <3> QED BY <2>1, <3>1, <3>2 DEF two, one
  <2>5. \A f, lk : Amount(queue', f, lk) = Amount(t, f, lk) + Recorded(f, o, n, lk)
                                              + Recorded(f, p, -n, lk)
    BY <2>2, <2>3, <2>4
  <2> QED BY <1>2, <2>3, <2>4, <2>5 DEF n, t, o, p, N
<1> QED BY <1>5, <1>6

(* The closure that the transfer leaves.                                   *)
TakenOver(lk, x, y, K, same, p) ==
    LET without == Without(Relinked(lk, x, K), y) IN
    IF same THEN without ELSE Moved(without, x, p)

\* The links that reconcile._transfer leaves.
LEMMA TransferLinks ==
    ASSUME NEW x, NEW y, TransferIdentity(x, y)
    PROVE  links' = TakenOver(links, x, y, {c \in Nodes : folder[c].parent = y},
                              folder[x].parent = folder[y].parent, folder[y].parent)
<1>1. \A K : FoldSet(LAMBDA c, acc : Moved(acc, c, x), links, K) = Relinked(links, x, K)
  BY DEF Relinked
<1>2. Absorbed(links, x, y) = Relinked(links, x, {c \in Nodes : folder[c].parent = y})
  BY <1>1 DEF Absorbed
<1> QED BY <1>2 DEF TransferIdentity, TakenOver, Without

\* They are among the folders that remain, and each of those covers itself.
LEMMA TakenOverLinked ==
    ASSUME NEW nodes, NEW lk, Linked(lk, nodes), \A d \in nodes : Covers(lk, d, d),
           NEW x, NEW y, NEW K, IsFiniteSet(K), NEW same, NEW p
    PROVE  /\ Linked(TakenOver(lk, x, y, K, same, p), nodes \ {y})
           /\ \A d \in nodes \ {y} : Covers(TakenOver(lk, x, y, K, same, p), d, d)
<1> DEFINE all == Relinked(lk, x, K)
           without == Without(all, y)
<1>1. Linked(all, nodes) /\ \A d \in nodes : Covers(all, d, d)
  BY RelinkedWithin
<1>2. Linked(without, nodes \ {y}) /\ \A d \in nodes \ {y} : Covers(without, d, d)
  <2> HIDE DEF all
  <2>1. Linked(without, nodes \ {y})
    BY <1>1 DEF Linked, Without
  <2>2. \A d \in nodes \ {y} : Covers(without, d, d)
    BY <1>1 DEF Covers, Without
  <2> QED BY <2>1, <2>2
<1> HIDE DEF without
<1>3. /\ Linked(Moved(without, x, p), nodes \ {y})
      /\ \A d \in nodes \ {y} : Covers(Moved(without, x, p), d, d)
  BY <1>2, MovedLinked
<1>4. CASE same
  BY <1>2, <1>4 DEF TakenOver, without
<1>5. CASE ~same
  BY <1>3, <1>5 DEF TakenOver, without
<1> QED BY <1>4, <1>5

-----------------------------------------------------------------------------
(* A transfer keeps the rows in shape, and puts x where y was.             *)

\* What a transfer keeps whatever is stale.
LEMMA TransferShape ==
    ASSUME Shape, NEW x \in Folder, NEW y \in Folder, TransferIdentity(x, y)
    PROVE  Shape'
<1> DEFINE o == folder[x].parent
           p == folder[y].parent
           N == Nodes \ {y}
<1>1. FoldersOK /\ LinksOK /\ FilesOK /\ TotalsOK /\ BackgroundOK /\ RequestsOK
  BY DEF Shape
<1>2. /\ x \in Nodes \ Root /\ y \in Nodes \ Root /\ x # y
      /\ o \in N /\ p \in N /\ p # x
      /\ Parent[x] = o /\ Parent[y] = p
      /\ Nodes' = N
      /\ folder' \in [Folder -> FolderRow \cup {None}]
      /\ \A d \in N :
            /\ folder'[d].parent = IF d = x THEN p ELSE IF Parent[d] = y THEN x ELSE Parent[d]
            /\ Parent'[d] = folder'[d].parent
            /\ folder'[d].ws = folder[d].ws
  BY <1>1, TransferRows
<1>3. /\ stored' = [stored EXCEPT ![x] = @ + stored[y], ![y] = 0]
      /\ missing' \subseteq missing /\ fresh' \subseteq fresh
      /\ lock' = lock /\ req' = req /\ ~Busy(y)
  BY DEF TransferIdentity
<1>4. FoldersOK'
  <2>1. Root \subseteq N
    BY <1>1, <1>2 DEF FoldersOK
  <2>2. ASSUME NEW d \in N
        PROVE  /\ folder'[d].parent \in N \cup {None}
               /\ folder'[d].parent = None <=> d \in Root
               /\ folder'[d].parent # d
    <3>1. /\ Parent[d] \in Nodes \cup {None} /\ (Parent[d] = None <=> d \in Root)
          /\ Parent[d] # d
      BY <1>1, RowOf DEF FoldersOK
    <3>2. None \notin Nodes
      BY TreeAssumption DEF Nodes
    <3>3. CASE d = x
      BY <1>2, <3>2, <3>3
    <3>4. CASE d # x /\ Parent[d] = y
      BY <1>2, <3>1, <3>2, <3>4
    <3>5. CASE d # x /\ Parent[d] # y
      BY <1>2, <3>1, <3>2, <3>5
    <3> QED BY <3>3, <3>4, <3>5
  <2> QED BY <1>2, <2>1, <2>2 DEF FoldersOK
<1>5. LinksOK'
  <2> DEFINE K == {c \in Nodes : folder[c].parent = y}
  <2>1. links' = TakenOver(links, x, y, K, o = p, p)
    BY TransferLinks
  <2>2. IsFiniteSet(K)
    BY FiniteNodes, FS_Subset
  <2>3. Linked(links, Nodes) /\ \A d \in Nodes : Covers(links, d, d)
    BY <1>1 DEF LinksOK
  <2> HIDE DEF K
  <2>4. Linked(links', N) /\ \A d \in N : Covers(links', d, d)
    BY <2>1, <2>2, <2>3, TakenOverLinked
  <2> QED BY <1>2, <2>4 DEF LinksOK
<1>6. /\ file' \in FileTable
      /\ \A g \in File : file[g] # None => file'[g] # None
      /\ \A g \in File : file'[g] # None => file'[g].at \in N
  BY <1>1, <1>2, TransferFiles
<1>7. FilesOK'
  BY <1>2, <1>6 DEF FilesOK
<1>8. TotalsOK'
  <2>1. queue \in Seq(Queueable(Nodes)) /\ stored \in [Folder -> Nat]
    BY <1>1 DEF TotalsOK
  <2>2. folder[x].ws \in Root /\ x \in Nodes /\ y \in Nodes
    BY <1>1, <1>2, RowOf
  <2>3. queue' \in Seq(Queueable(N))
    BY <1>2, <2>1, <2>2, TransferQueues
  <2>4. stored' \in [Folder -> Nat]
    BY <1>3, <2>1
  <2> QED BY <1>2, <2>3, <2>4 DEF TotalsOK
<1>9. BackgroundOK'
  BY <1>1, <1>3 DEF BackgroundOK
<1>10. RequestsOK'
  <2>1. ASSUME NEW q \in Request
        PROVE  RequestOK(req[q], N, file')
    <3>1. Spares(req[q], y)
      BY <1>3, NotBusy
    <3>2. RequestOK(req[q], Nodes, file)
      BY <1>1 DEF RequestsOK
    <3> QED BY <1>6, <3>1, <3>2, RequestSpares
  <2> QED BY <1>1, <1>2, <1>3, <2>1 DEF RequestsOK, Distinct, Holding
<1> QED BY <1>4, <1>5, <1>7, <1>8, <1>9, <1>10 DEF Shape

(* The two folders, when the closure is an order.                          *)
LEMMA TransferApart ==
    ASSUME Shape, TreeOK, NEW x \in Folder, NEW y \in Folder, TransferIdentity(x, y)
    PROVE  /\ Apart(links, Nodes, Parent, x, y, folder[y].parent)
           /\ Ordered(links', Nodes', Parent')
           /\ Replaced(links, links', Nodes, x, y, folder[y].parent)
<1> DEFINE o == folder[x].parent
           p == folder[y].parent
           K == {c \in Nodes : Parent[c] = y}
<1>1. FoldersOK /\ LinksOK /\ BackgroundOK /\ Linked(links, Nodes) /\ Ordered(links, Nodes, Parent)
  BY DEF Shape, LinksOK, TreeOK
<1>2. /\ x \in Nodes /\ y \in Nodes /\ x # y
      /\ o \in Nodes \ {y} /\ p \in Nodes \ {y} /\ p # x
      /\ Parent[x] = o /\ Parent[y] = p
      /\ Nodes' = Nodes \ {y}
      /\ \A d \in Nodes \ {y} :
            /\ folder'[d].parent = IF d = x THEN p ELSE IF Parent[d] = y THEN x ELSE Parent[d]
            /\ Parent'[d] = folder'[d].parent
  BY <1>1, TransferRows
<1>3. ~Covers(links, y, x) /\ ~Covers(links, x, y) /\ ~Covers(links, x, p) /\ o # y
  BY DEF TransferIdentity, Claim
<1>4. /\ links' = IF Parent[x] = p THEN Without(Relinked(links, x, K), y)
                  ELSE Moved(Without(Relinked(links, x, K), y), x, p)
      /\ K = {c \in Nodes : Parent[c] = y}
  <2>1. {c \in Nodes : folder[c].parent = y} = K
    BY <1>1, RowOf
  <2>2. links' = TakenOver(links, x, y, {c \in Nodes : folder[c].parent = y}, o = p, p)
    BY TransferLinks
  <2> HIDE DEF K
  <2>3. links' = TakenOver(links, x, y, K, o = p, p)
    BY <2>1, <2>2
  <2> HIDE DEF o, p
  <2> QED BY <1>2, <2>3 DEF TakenOver, K
<1>5. \A d \in Nodes \ {y} : Parent'[d] = IF d = x THEN p ELSE IF d \in K THEN x ELSE Parent[d]
  BY <1>2
<1> HIDE DEF K, p, o
<1>6. Apart(links, Nodes, Parent, x, y, p)
  BY <1>1, <1>2, <1>3, FiniteNodes DEF Apart
<1>7. Taking(links, links', Nodes, Parent, Parent', x, y, p, K)
  BY <1>4, <1>5 DEF Taking
<1>8. Ordered(links', Nodes \ {y}, Parent') /\ Replaced(links, links', Nodes, x, y, p)
  BY <1>6, <1>7, TransferReplaces
<1> QED BY <1>2, <1>6, <1>8 DEF p

(* The steps of a transfer stay within its workspace.                      *)
LEMMA TakenOverWithin ==
    ASSUME NEW nodes, NEW lk, Linked(lk, nodes), NEW x, NEW y, NEW K, IsFiniteSet(K),
           NEW same, NEW p, NEW Z, Closed(lk, Z), x \in Z, y \in Z, p \in Z, K \subseteq Z
    PROVE  Elsewhere(lk, TakenOver(lk, x, y, K, same, p), Z)
<1> DEFINE all == Relinked(lk, x, K)
           without == Without(all, y)
<1>1. Closed(all, Z) /\ Elsewhere(lk, all, Z)
  BY RelinkedWithin
<1> HIDE DEF all
<1>2. Closed(without, Z)
  BY <1>1 DEF Closed, Without
<1>3. Elsewhere(lk, without, Z)
  <2> SUFFICES ASSUME NEW l, l[1] \notin Z \/ l[2] \notin Z
               PROVE  l \in without <=> l \in lk
    BY DEF Elsewhere
  <2>1. l \in all <=> l \in lk
    BY <1>1 DEF Elsewhere
  <2>2. l \in all => l[1] \notin Z /\ l[2] \notin Z
    BY <1>1 DEF Closed
  <2>3. l \in all => y \notin {l[1], l[2]}
    BY <2>2
  <2> QED BY <2>1, <2>3 DEF Without
<1> HIDE DEF without
<1>4. Elsewhere(lk, Moved(without, x, p), Z)
  <2>1. Elsewhere(without, Moved(without, x, p), Z)
    BY <1>2, MovedWithin
  <2> QED BY <1>3, <2>1 DEF Elsewhere
<1>5. CASE same
  BY <1>3, <1>5 DEF TakenOver, without, all
<1>6. CASE ~same
  BY <1>4, <1>6 DEF TakenOver, without, all
<1> QED BY <1>5, <1>6

-----------------------------------------------------------------------------
(* A transfer keeps the tree and the totals.                               *)

\* x takes the place of y in the tree, and no move under way had looked there.
LEMMA TransferTree ==
    ASSUME Shape, TreeOK, NEW x \in Folder, NEW y \in Folder, TransferIdentity(x, y)
    PROVE  TreeOK'
<1> DEFINE w == folder[x].ws
           p == folder[y].parent
           K == {c \in Nodes : folder[c].parent = y}
           Z == {d \in Nodes : folder[d].ws = w}
<1>1. /\ FoldersOK /\ LinksOK /\ BackgroundOK /\ Linked(links, Nodes) /\ RequestsOK
      /\ Ordered(links, Nodes, Parent) /\ Homes(folder, links, Nodes)
      /\ MovesKnow(req, folder, links)
  BY DEF Shape, LinksOK, TreeOK
<1>2. /\ x \in Nodes /\ y \in Nodes /\ p \in Nodes \ {y} /\ Parent[y] = p
      /\ Nodes' = Nodes \ {y}
      /\ \A d \in Nodes \ {y} : folder'[d].ws = folder[d].ws
  BY <1>1, TransferRows
<1>3. /\ Ordered(links', Nodes', Parent')
      /\ Replaced(links, links', Nodes, x, y, p)
  BY TransferApart
<1>4. folder[x].ws = folder[y].ws /\ lock[w] = None /\ req' = req /\ ~Busy(y)
  BY DEF TransferIdentity, Claim
<1>5. /\ \A a, b, d \in Nodes : Covers(links, a, b) /\ Covers(links, b, d) => Covers(links, a, d)
      /\ \A a, d \in Nodes : Covers(links, a, d) => folder[a].ws = folder[d].ws
      /\ Covers(links, p, y)
      /\ \A d \in Nodes : Parent[d] \in Nodes => Covers(links, Parent[d], d)
  BY <1>1, <1>2 DEF Ordered, Homes
<1>6. folder[p].ws = w
  BY <1>2, <1>4, <1>5
<1> HIDE DEF TreeOK, Shape, p
<1>7. Homes(folder', links', Nodes')
  <2> SUFFICES ASSUME NEW a \in Nodes \ {y}, NEW d \in Nodes \ {y}, Covers(links', a, d)
               PROVE  folder[a].ws = folder[d].ws
    BY <1>2 DEF Homes
  <2>1. IF Covers(links, x, d) THEN (Covers(links, x, a) /\ Covers(links, a, d)) \/ Covers(links, a, p)
        ELSE IF Covers(links, y, d)
        THEN (Covers(links, y, a) /\ Covers(links, a, d)) \/ a = x \/ Covers(links, a, p)
        ELSE Covers(links, a, d)
    BY <1>3 DEF Replaced
  <2>2. Covers(links, x, d) \/ Covers(links, y, d) => folder[d].ws = w
    BY <1>2, <1>4, <1>5
  <2>3. a = x \/ Covers(links, a, p) => folder[a].ws = w
    BY <1>2, <1>5, <1>6
  <2>4. Covers(links, a, d) => folder[a].ws = folder[d].ws
    BY <1>5
  <2> HIDE DEF w
  <2> QED BY <2>1, <2>2, <2>3, <2>4
<1>8. Elsewhere(links, links', Z)
  <2>1. x \in Z /\ y \in Z /\ p \in Z
    BY <1>2, <1>4, <1>6
  <2>2. K \subseteq Z
    <3> SUFFICES ASSUME NEW c \in Nodes, folder[c].parent = y
                 PROVE  folder[c].ws = w
      OBVIOUS
    <3>1. Parent[c] = y
      BY <1>1, RowOf
    <3> QED BY <1>2, <1>4, <1>5, <3>1
  <2>3. Closed(links, Z)
    <3>1. ASSUME NEW l \in links
          PROVE  l[1] \in Z <=> l[2] \in Z
      <4>1. l[1] \in Nodes /\ l[2] \in Nodes
        BY <1>1 DEF Linked
      <4>2. folder[l[1]].ws = folder[l[2]].ws
        BY <1>5, <4>1 DEF Covers
      <4> QED BY <4>1, <4>2
    <3> QED BY <3>1 DEF Closed
  <2>4. IsFiniteSet(K)
    BY FiniteNodes, FS_Subset
  <2>5. links' = TakenOver(links, x, y, K, folder[x].parent = p, p)
    BY TransferLinks DEF p
  <2> HIDE DEF Z, K
  <2> QED BY <1>1, <2>1, <2>2, <2>3, <2>4, <2>5, TakenOverWithin
<1>9. MovesKnow(req', folder', links')
  <2> SUFFICES ASSUME NEW q \in Request, Committing(req[q]), Locking(req[q], folder')
               PROVE  UpToDate(req[q], links')
    BY <1>4 DEF MovesKnow
  <2> DEFINE m == req[q]
  <2>1. Relinking(m, Nodes)
    BY <1>1, RequestKinds DEF RequestsOK
  <2>2. m.f \in Nodes \ {y} /\ m.p \in Nodes \ {y}
    <3>1. Spares(m, y)
      BY <1>4, NotBusy
    <3> QED BY <2>1, <3>1 DEF Relinking, Spares
  <2>3. lock[m.ws] = q /\ lock[m.pws] = q
    BY <1>1 DEF RequestsOK, Holding
  <2>4. m.ws # w /\ m.pws # w
    BY <1>4, <2>3, TreeAssumption
  <2>5. m.ws = folder[m.f].ws /\ m.pws = folder[m.p].ws
    BY <1>2, <2>2 DEF Locking
  <2>6. UpToDate(m, links)
    BY <1>1, <2>5 DEF MovesKnow, Locking
  <2>7. ASSUME NEW l \in links \cup links',
               l[1] = m.f \/ l[2] \in Subtree(links, m.f) \/ l[2] = m.p
        PROVE  l \in links <=> l \in links'
    <3>1. CASE l[1] = m.f
      <4>1. l[1] \notin Z
        BY <2>4, <2>5, <3>1
      <4> QED BY <1>8, <4>1 DEF Elsewhere
    <3>2. CASE l[2] \in Subtree(links, m.f)
      <4>1. Covers(links, m.f, l[2])
        BY <3>2, SubtreeCovers
      <4>2. l[2] \in Nodes
        BY <1>1, <4>1, CoversInside
      <4>3. folder[l[2]].ws = m.ws
        BY <1>5, <2>2, <2>5, <4>1, <4>2
      <4>4. l[2] \notin Z
        BY <2>4, <4>3
      <4> QED BY <1>8, <4>4 DEF Elsewhere
    <3>3. CASE l[2] = m.p
      <4>1. l[2] \notin Z
        BY <2>4, <2>5, <3>3
      <4> QED BY <1>8, <4>1 DEF Elsewhere
    <3> QED BY <2>7, <3>1, <3>2, <3>3
  <2> HIDE DEF m
  <2> QED BY <2>6, <2>7, StaysUpToDate DEF m
<1> QED BY <1>3, <1>7, <1>9 DEF TreeOK

\* What x and y held and what was owed to them is where x is now.
LEMMA TransferTotals ==
    ASSUME IInv, NEW x \in Folder, NEW y \in Folder, TransferIdentity(x, y)
    PROVE  TotalsAddUp'
<1> DEFINE o == Parent[x]
           p == folder[y].parent
           owed == Amount(queue, x, links)
           N == Nodes \ {y}
           t == Repointed(x, y)
<1>1. Shape' /\ file' \in FileTable
  BY TransferShape DEF IInv, Shape, FilesOK
<1> SUFFICES ASSUME stale' = {}
             PROVE  Adds(file', links', stored', queue', Nodes')
  BY <1>1, TotalsThen
<1>2. /\ stale = {} /\ \A g \in File : ~(Live(g) /\ file[g].at \in Subtree(links, x))
  BY DEF TransferIdentity, StaleIf
<1>3. Shape /\ TreeOK
  BY <1>2 DEF IInv, Kept
<1>4. /\ FoldersOK /\ LinksOK /\ FilesOK /\ TotalsOK /\ BackgroundOK /\ file \in FileTable
      /\ stored \in [Folder -> Nat] /\ queue \in Seq(Queueable(Nodes)) /\ queue \in Seq(DeltaRow)
  BY <1>3, QueueTyped DEF Shape, FilesOK, TotalsOK
<1>5. /\ x \in Nodes /\ y \in Nodes /\ x # y /\ Nodes' = N
      /\ o = folder[x].parent /\ o \in N /\ p \in N
  BY <1>4, TransferRows
<1>6. Apart(links, Nodes, Parent, x, y, p) /\ Replaced(links, links', Nodes, x, y, p)
  BY <1>3, TransferApart
<1>7. Sent(File, Home(file), Home(file'), Held(file), Nodes, x, y) /\ Held(file') = Held(file)
  <2>1. /\ Weights(File, Home(file), Held(file)) /\ Placed(File, Home(file), Held(file), Nodes)
        /\ Weights(File, Home(file'), Held(file'))
    BY <1>1, <1>4, HeldWeighs, FilesPlaced
  <2>2. /\ Held(file') = Held(file)
        /\ \A g \in File : Home(file')[g] = IF Home(file)[g] = y THEN x ELSE Home(file)[g]
    BY <1>4, <1>5, TransferFiles
  <2> QED BY <2>1, <2>2 DEF Sent
<1>8. /\ Sent(DOMAIN queue, Places(queue), Places(t), Amounts(queue), Nodes, x, y)
      /\ \A a, lk : Amount(t, a, lk) = Load(Places(t), Amounts(queue), lk, a)
  <2>1. /\ t \in Seq(Queueable(N)) /\ DOMAIN t = DOMAIN queue /\ Amounts(t) = Amounts(queue)
        /\ \A i \in DOMAIN queue : Places(t)[i] = IF Places(queue)[i] = y THEN x ELSE Places(queue)[i]
    BY <1>4, <1>5, RepointedSame
  <2> HIDE DEF t
  <2>2. t \in Seq(DeltaRow)
    BY <2>1, QueueTyped
  <2>3. /\ Weights(DOMAIN t, Places(t), Amounts(t))
        /\ \A a, lk : Amount(t, a, lk) = Load(Places(t), Amounts(t), lk, a)
    BY <2>2, AmountIsLoad
  <2>4. /\ Weights(DOMAIN queue, Places(queue), Amounts(queue))
        /\ Placed(DOMAIN queue, Places(queue), Amounts(queue), Nodes)
    BY <1>4, AmountIsLoad, QueuePlaced
  <2>5. /\ Weights(DOMAIN queue, Places(t), Amounts(queue))
        /\ \A a, lk : Amount(t, a, lk) = Load(Places(t), Amounts(queue), lk, a)
    BY <2>1, <2>3
  <2> QED BY <2>1, <2>4, <2>5 DEF Sent
<1>9. \A a, lk : Amount(queue', a, lk) = Amount(t, a, lk) + Recorded(a, o, owed, lk)
                                            + Recorded(a, p, -owed, lk)
  <2>1. folder[x].ws \in Root
    BY <1>4, <1>5, RowOf
  <2>2. folder[x].parent \in N /\ folder[y].parent \in N
    BY <1>5
  <2>3. \A a, lk : Amount(queue', a, lk) = Amount(Repointed(x, y), a, lk)
                        + Recorded(a, folder[x].parent, Amount(queue, x, links), lk)
                        + Recorded(a, folder[y].parent, -Amount(queue, x, links), lk)
    BY <1>4, <1>5, <2>1, <2>2, TransferQueues
  <2> HIDE DEF o, t, p, owed
  <2> QED BY <1>5, <2>3 DEF t, p, owed
<1>10. \A a, lk : /\ Amount(queue, a, lk) = Load(Places(queue), Amounts(queue), lk, a)
                  /\ Amount(queue, a, lk) \in Int
  BY <1>4, AmountIsLoad
<1>11. TruthOf(file, links, x) = 0
  <2>1. ASSUME NEW g \in File, Covers(links, x, Home(file)[g])
        PROVE  Held(file)[g] = 0
    <3>1. CASE IsLive(file, g)
      <4>1. Live(g) /\ Home(file)[g] = file[g].at
        BY <3>1 DEF IsLive, Live, Home
      <4>2. file[g].at \in Subtree(links, x)
        BY <2>1, <4>1, SubtreeCovers
      <4> QED BY <1>2, <4>1, <4>2
    <3>2. CASE ~IsLive(file, g)
      BY <3>2 DEF Held
    <3> QED BY <3>1, <3>2
  <2>2. Weights(File, Home(file), Held(file))
    BY <1>4, HeldWeighs
  <2> QED BY <2>1, <2>2, LoadOfNothing DEF TruthOf
<1>12. \A a \in Nodes : stored[a] + Amount(queue, a, links) = TruthOf(file, links, a)
  BY <1>2, <1>4, TotalsNow DEF IInv, Adds
<1>13. \A a : TruthOf(file, links, a) \in Int
  BY <1>4, TruthNow
<1>14. stored' = [stored EXCEPT ![x] = @ + stored[y], ![y] = 0]
  BY DEF TransferIdentity
<1>15. PICK n \in Int : n = -owed /\ owed = -n
  BY <1>10
<1>16. \A a, lk : Amount(queue', a, lk) = Amount(t, a, lk) + Recorded(a, o, -n, lk)
                                            + Recorded(a, p, n, lk)
  BY <1>9, <1>15
<1> HIDE DEF o, p, owed, t
<1>17. ASSUME NEW a \in N
       PROVE  stored'[a] + Amount(queue', a, links') = TruthOf(file', links', a)
  <2> DEFINE k == Shift(links, a, o, p)
             more == IF a = x THEN stored[y] ELSE 0
             queued == IF a = x THEN Amount(queue, y, links) ELSE 0
             held == IF a = x THEN TruthOf(file, links, y) ELSE 0
  <2>1. /\ Load(Home(file'), Held(file), links', a) =
               Load(Home(file), Held(file), links, a) + k * Load(Home(file), Held(file), links, x)
                   + (IF a = x THEN Load(Home(file), Held(file), links, y) ELSE 0)
        /\ Alike(links, links', a, o, p)
    BY <1>6, <1>7, TransferShifts DEF o
  <2>2. Load(Places(t), Amounts(queue), links', a) =
            Load(Places(queue), Amounts(queue), links, a)
                + k * Load(Places(queue), Amounts(queue), links, x)
                + (IF a = x THEN Load(Places(queue), Amounts(queue), links, y) ELSE 0)
    BY <1>6, <1>8, TransferShifts DEF o
  <2>3. /\ k \in {-1, 0, 1}
        /\ Recorded(a, o, -n, links') + Recorded(a, p, n, links') = k * n
        /\ Recorded(a, o, -n, links') \in Int /\ Recorded(a, p, n, links') \in Int
    BY <1>15, <2>1, RecordedShift
  <2> HIDE DEF k
  <2>4. TruthOf(file', links', a) = TruthOf(file, links, a) + k * TruthOf(file, links, x) + held
    BY <1>7, <2>1 DEF TruthOf
  <2>5. Amount(t, a, links') = Amount(queue, a, links) + k * Amount(queue, x, links) + queued
    BY <1>8, <1>10, <2>2
  <2>6. stored'[a] = stored[a] + more
    BY <1>4, <1>5, <1>14 DEF Nodes
  <2>7. more + queued = held
    BY <1>5, <1>12
  <2>8. /\ stored[a] \in Int /\ Amount(queue, a, links) \in Int /\ Amount(queue, x, links) \in Int
        /\ TruthOf(file, links, a) \in Int /\ more \in Int /\ queued \in Int /\ held \in Int
        /\ stored[a] + Amount(queue, a, links) = TruthOf(file, links, a)
        /\ n \in Int /\ Amount(queue, x, links) = -n
    <3>1. stored[a] \in Int /\ stored[y] \in Int
      BY <1>4, <1>5 DEF Nodes
    <3> QED BY <1>10, <1>12, <1>13, <1>15, <3>1 DEF owed
  <2>9. Amount(queue', a, links') = Amount(t, a, links') + Recorded(a, o, -n, links')
                                        + Recorded(a, p, n, links')
    BY <1>16
  <2> HIDE DEF more, queued, held
  <2>10. k * TruthOf(file, links, x) = 0
    BY <1>11, <2>3
  <2>11. k * Amount(queue, x, links) + k * n = 0 /\ k * Amount(queue, x, links) \in Int /\ k * n \in Int
    BY <2>3, <2>8
  <2>12. PICK b \in Int : b = Amount(queue, a, links)
    BY <2>8
  <2>13. Amount(t, a, links') = b + k * Amount(queue, x, links) + queued
    BY <2>5, <2>12
  <2>14. Amount(queue', a, links') = b + queued
    BY <2>3, <2>8, <2>9, <2>11, <2>12, <2>13
  <2>15. TruthOf(file', links', a) = TruthOf(file, links, a) + held
    BY <2>4, <2>8, <2>10
  <2> QED BY <2>6, <2>7, <2>8, <2>12, <2>14, <2>15
<1> QED BY <1>5, <1>17 DEF Adds

\* reconcile._transfer.
LEMMA Transfers ==
    ASSUME IInv, NEW x \in Folder, NEW y \in Folder, TransferIdentity(x, y)
    PROVE  IInv'
<1>1. Shape' /\ TotalsAddUp'
  BY TransferShape, TransferTotals DEF IInv
<1>2. ASSUME Kept'
      PROVE  TreeOK'
  <2>1. Kept
    BY <1>2 DEF Kept, TransferIdentity, StaleIf
  <2> QED BY <2>1, TransferTree DEF IInv
<1> QED BY <1>1, <1>2 DEF IInv

-----------------------------------------------------------------------------
(* A workspace that has been used. The recursion that climbs the parents   *)
(* has a solution.                                                         *)

\* One step up from wherever each folder has got to.
Rise(parent, at) == [f \in Folder |-> IF at[f] = None THEN None ELSE parent[at[f]]]

\* The recursion that defines Above, up to n.
IsClimb(up, parent, n) ==
    up = [k \in 0 .. n |-> IF k = 0 THEN [f \in Folder |-> f] ELSE Rise(parent, up[k-1])]

\* A climb, step by step.
LEMMA ClimbSteps ==
    ASSUME NEW up, NEW parent, NEW n \in Nat, IsClimb(up, parent, n)
    PROVE  /\ DOMAIN up = 0 .. n
           /\ up[0] = [f \in Folder |-> f]
           /\ \A k \in 0 .. n : k + 1 <= n => up[k+1] = Rise(parent, up[k])
<1> DEFINE v == [k \in 0 .. n |-> IF k = 0 THEN [f \in Folder |-> f] ELSE Rise(parent, up[k-1])]
<1>1. up = v
  BY DEF IsClimb
<1>2. /\ DOMAIN v = 0 .. n
      /\ \A k \in 0 .. n : v[k] = IF k = 0 THEN [f \in Folder |-> f] ELSE Rise(parent, up[k-1])
  OBVIOUS
<1> HIDE DEF v
<1>3. \A k \in 0 .. n : up[k] = IF k = 0 THEN [f \in Folder |-> f] ELSE Rise(parent, up[k-1])
  BY <1>1, <1>2
<1>4. up[0] = [f \in Folder |-> f]
  BY <1>3
<1>5. ASSUME NEW k \in 0 .. n, k + 1 <= n
      PROVE  up[k+1] = Rise(parent, up[k])
  <2>1. k + 1 \in 0 .. n /\ k + 1 # 0 /\ (k + 1) - 1 = k
    BY <1>5
  <2> QED BY <1>3, <2>1
<1> QED BY <1>1, <1>2, <1>4, <1>5

\* It can be continued, and so exists.
LEMMA LongerClimb ==
    ASSUME NEW up, NEW parent, NEW n \in Nat, IsClimb(up, parent, n)
    PROVE  \E v : IsClimb(v, parent, n + 1)
<1>1. /\ up[0] = [f \in Folder |-> f]
      /\ \A k \in 0 .. n : k + 1 <= n => up[k+1] = Rise(parent, up[k])
  BY ClimbSteps
<1> DEFINE v == [k \in 0 .. n + 1 |-> IF k = n + 1 THEN Rise(parent, up[n]) ELSE up[k]]
<1>2. ASSUME NEW k \in 0 .. n + 1
      PROVE  v[k] = IF k = 0 THEN [f \in Folder |-> f] ELSE Rise(parent, v[k-1])
  <2>1. CASE k = 0
    BY <1>1, <2>1
  <2>2. CASE k # 0
    <3>1. k - 1 \in 0 .. n /\ v[k-1] = up[k-1] /\ (k - 1) + 1 = k
      BY <2>2
    <3>2. k # n + 1 => up[k] = Rise(parent, up[k-1])
      <4>1. k # n + 1 => (k - 1) + 1 <= n
        OBVIOUS
      <4> QED BY <1>1, <3>1, <4>1
    <3> QED BY <2>2, <3>1, <3>2
  <2> QED BY <2>1, <2>2
<1>3. v = [k \in 0 .. n + 1 |-> IF k = 0 THEN [f \in Folder |-> f] ELSE Rise(parent, v[k-1])]
  BY <1>2
<1> HIDE DEF v
<1> QED BY <1>3 DEF IsClimb

LEMMA ClimbExists ==
    ASSUME NEW parent, NEW n \in Nat
    PROVE  \E up : IsClimb(up, parent, n)
<1> DEFINE S == {m \in Nat : \E up : IsClimb(up, parent, m)}
<1>1. 0 \in S
  <2> DEFINE v == [k \in 0 .. 0 |-> [f \in Folder |-> f]]
  <2>1. v = [k \in 0 .. 0 |-> IF k = 0 THEN [f \in Folder |-> f] ELSE Rise(parent, v[k-1])]
    OBVIOUS
  <2>2. IsClimb(v, parent, 0)
    BY <2>1 DEF IsClimb
  <2> QED BY <2>2
<1>2. \A m \in S : m + 1 \in S
  BY LongerClimb
<1> HIDE DEF S
<1>3. S = Nat
  <2>1. S \in SUBSET Nat
    BY DEF S
  <2> QED BY <1>1, <1>2, <2>1, SetInduction
<1> QED BY <1>3 DEF S

\* What a climb is, without the recursion.
Ladder(up, parent, n) ==
    /\ n \in Nat /\ n >= 1
    /\ \A k \in 0 .. n : up[k] \in [Folder -> Folder \cup {None}]
    /\ \A f \in Folder : up[0][f] = f
    /\ \A k \in 0 .. n : k + 1 <= n => \A f \in Folder :
          up[k+1][f] = IF up[k][f] = None THEN None ELSE parent[up[k][f]]

\* Above, which chooses some solution of its recursion, is one.
LEMMA AboveIsLadder ==
    ASSUME NEW parent \in [Folder -> Folder \cup {None}]
    PROVE  /\ DOMAIN Above(parent) = 0 .. Cardinality(Folder)
           /\ Ladder(Above(parent), parent, Cardinality(Folder))
<1> DEFINE n == Cardinality(Folder)
           Solved(up) == up = [k \in 0 .. n |-> IF k = 0 THEN [f \in Folder |-> f]
                ELSE [f \in Folder |-> IF up[k-1][f] = None THEN None ELSE parent[up[k-1][f]]]]
<1>1. n \in Nat /\ n >= 1
  <2>1. IsFiniteSet(Folder) /\ Folder # {}
    BY TreeAssumption
  <2>2. n \in Nat /\ n # 0
    BY <2>1, FS_CardinalityType, FS_EmptySet
  <2> QED BY <2>2
<1> HIDE DEF n
<1>2. \A up : Solved(up) <=> IsClimb(up, parent, n)
  BY DEF IsClimb, Rise
<1>3. \E up : Solved(up)
  BY <1>1, <1>2, ClimbExists
<1>4. PICK up : up = Above(parent)
  OBVIOUS
<1>5. up = CHOOSE u : Solved(u)
  BY <1>4 DEF Above, n
<1> HIDE DEF Solved
<1>6. IsClimb(up, parent, n)
  BY <1>2, <1>3, <1>5
<1>7. /\ DOMAIN up = 0 .. n
      /\ up[0] = [f \in Folder |-> f]
      /\ \A k \in 0 .. n : k + 1 <= n => up[k+1] = Rise(parent, up[k])
  BY <1>1, <1>6, ClimbSteps
<1> DEFINE S == {k \in Nat : k <= n => up[k] \in [Folder -> Folder \cup {None}]}
<1>8. S = Nat
  <2>1. 0 \in S
    BY <1>7
  <2>2. ASSUME NEW k \in S
        PROVE  k + 1 \in S
    <3> SUFFICES ASSUME k + 1 <= n
                 PROVE  up[k+1] \in [Folder -> Folder \cup {None}]
      OBVIOUS
    <3>1. k \in 0 .. n
      BY <1>1
    <3>2. up[k+1] = Rise(parent, up[k]) /\ up[k] \in [Folder -> Folder \cup {None}]
      BY <1>7, <3>1
    <3> QED BY <3>2 DEF Rise
  <2>3. S \in SUBSET Nat
    OBVIOUS
  <2> HIDE DEF S
  <2> QED BY <2>1, <2>2, <2>3, SetInduction
<1>9. \A k \in 0 .. n : up[k] \in [Folder -> Folder \cup {None}]
  BY <1>1, <1>8
<1>10. \A k \in 0 .. n : k + 1 <= n => \A f \in Folder :
          up[k+1][f] = IF up[k][f] = None THEN None ELSE parent[up[k][f]]
  <2> SUFFICES ASSUME NEW k \in 0 .. n, k + 1 <= n, NEW f \in Folder
               PROVE  up[k+1][f] = IF up[k][f] = None THEN None ELSE parent[up[k][f]]
    OBVIOUS
  <2>1. PICK at : at = up[k]
    OBVIOUS
  <2>2. up[k+1] = Rise(parent, at)
    BY <1>7, <2>1
  <2>3. Rise(parent, at)[f] = IF at[f] = None THEN None ELSE parent[at[f]]
    BY DEF Rise
  <2> QED BY <2>1, <2>2, <2>3
<1> QED BY <1>1, <1>4, <1>7, <1>9, <1>10 DEF Ladder, n

-----------------------------------------------------------------------------
(* To climb i folders and then j is to climb i + j.                        *)
LEMMA ClimbsCompose ==
    ASSUME NEW up, NEW parent, NEW n, Ladder(up, parent, n), NEW i \in 0 .. n, NEW f \in Folder
    PROVE  \A j \in 0 .. n : i + j <= n =>
               up[i+j][f] = IF up[i][f] = None THEN None ELSE up[j][up[i][f]]
<1> DEFINE at(j) == IF up[i][f] = None THEN None ELSE up[j][up[i][f]]
           S == {j \in Nat : i + j <= n => up[i+j][f] = at(j)}
<1>1. /\ n \in Nat /\ i \in Nat
      /\ \A k \in 0 .. n : up[k] \in [Folder -> Folder \cup {None}]
      /\ \A g \in Folder : up[0][g] = g
      /\ \A k \in 0 .. n : k + 1 <= n => \A g \in Folder :
            up[k+1][g] = IF up[k][g] = None THEN None ELSE parent[up[k][g]]
  BY DEF Ladder
<1>2. up[i][f] \in Folder \cup {None}
  BY <1>1
<1>3. 0 \in S
  <2>1. up[i+0][f] = up[i][f]
    BY <1>1
  <2>2. up[i][f] = at(0)
    BY <1>1, <1>2
  <2> QED BY <2>1, <2>2
<1>4. ASSUME NEW j \in S
      PROVE  j + 1 \in S
  <2>1. j \in Nat
    OBVIOUS
  <2> SUFFICES ASSUME i + (j + 1) <= n
               PROVE  up[i+(j+1)][f] = at(j + 1)
    BY <2>1
  <2>2. up[i+j][f] = at(j)
    BY <1>1, <2>1
  <2>3. i + j \in 0 .. n /\ (i + j) + 1 <= n /\ i + (j + 1) = (i + j) + 1 /\ j \in 0 .. n /\ j + 1 <= n
    BY <1>1, <2>1
  <2>4. up[(i+j)+1][f] = IF up[i+j][f] = None THEN None ELSE parent[up[i+j][f]]
    BY <1>1, <2>3
  <2>5. up[i][f] # None => up[j+1][up[i][f]] =
            IF up[j][up[i][f]] = None THEN None ELSE parent[up[j][up[i][f]]]
    BY <1>1, <1>2, <2>3
  <2>6. CASE up[i][f] = None
    BY <2>2, <2>3, <2>4, <2>6
  <2>7. CASE up[i][f] # None
    BY <2>2, <2>3, <2>4, <2>5, <2>7
  <2> QED BY <2>6, <2>7
<1> HIDE DEF S
<1>5. S = Nat
  <2>1. S \in SUBSET Nat
    BY DEF S
  <2> QED BY <1>3, <1>4, <2>1, SetInduction
<1> QED BY <1>1, <1>5 DEF S

\* The folders of a workspace in use: every one of them reaches a root.
Grounded(up, parent, n, present) ==
    /\ Ladder(up, parent, n)
    /\ Root \subseteq present /\ present \subseteq Folder
    /\ \A f \in Folder : parent[f] = None <=> f \in Root \/ f \notin present
    /\ \A f \in present \ Root : parent[f] \in present
    /\ \A f \in present : \E k \in 0 .. n : up[k][f] \in Root

(* How far a folder is from its root, and what it meets on the way there.  *)
Depths(h, up, n, present) ==
    /\ h \in [present -> 0 .. n]
    /\ \A f \in present : \A k \in 0 .. n :
          /\ up[k][f] \in Root <=> k = h[f]
          /\ up[k][f] # None <=> k <= h[f]
          /\ up[k][f] \in present \cup {None}

\* A folder reaches its root after a number of steps, and no root before or after.
LEMMA DepthOf ==
    ASSUME NEW up, NEW parent, NEW n, NEW present, Grounded(up, parent, n, present),
           NEW f \in present
    PROVE  \E m \in 0 .. n : \A k \in 0 .. n :
              /\ up[k][f] \in Root <=> k = m
              /\ up[k][f] # None <=> k <= m
              /\ up[k][f] \in present \cup {None}
<1>1. /\ Ladder(up, parent, n) /\ n \in Nat
      /\ Root \subseteq present /\ present \subseteq Folder
      /\ \A d \in Folder : parent[d] = None <=> d \in Root \/ d \notin present
      /\ \A d \in present \ Root : parent[d] \in present
      /\ f \in Folder /\ up[0][f] = f
      /\ \A k \in 0 .. n : k + 1 <= n =>
            up[k+1][f] = IF up[k][f] = None THEN None ELSE parent[up[k][f]]
  BY DEF Grounded, Ladder
<1>2. PICK m \in 0 .. n : up[m][f] \in Root
  BY DEF Grounded
<1>3. None \notin Folder /\ None \notin Root /\ None \notin present
  BY <1>1, TreeAssumption
<1> DEFINE S == {k \in Nat : k <= n => up[k][f] \in present \cup {None}}
<1>4. S = Nat
  <2>1. 0 \in S
    BY <1>1
  <2>2. ASSUME NEW k \in S
        PROVE  k + 1 \in S
    <3> SUFFICES ASSUME k + 1 <= n
                 PROVE  up[k+1][f] \in present \cup {None}
      OBVIOUS
    <3>1. k \in 0 .. n /\ up[k][f] \in present \cup {None}
      BY <1>1
    <3>2. up[k+1][f] = IF up[k][f] = None THEN None ELSE parent[up[k][f]]
      BY <1>1, <3>1
    <3>3. \A d \in present : parent[d] \in present \cup {None}
      BY <1>1
    <3> HIDE DEF S
    <3> QED BY <3>1, <3>2, <3>3
  <2>3. S \in SUBSET Nat
    OBVIOUS
  <2> HIDE DEF S
  <2> QED BY <2>1, <2>2, <2>3, SetInduction
<1>5. \A k \in 0 .. n : up[k][f] \in present \cup {None}
  BY <1>1, <1>4
<1>6. ASSUME NEW i \in 0 .. n, NEW k \in 0 .. n, i <= k, up[i][f] = None
      PROVE  up[k][f] = None
  <2>1. k - i \in 0 .. n /\ i + (k - i) = k
    BY <1>1, <1>6
  <2>2. \A j \in 0 .. n : i + j <= n =>
            up[i+j][f] = IF up[i][f] = None THEN None ELSE up[j][up[i][f]]
    BY <1>1, ClimbsCompose
  <2>3. i + (k - i) <= n => up[i+(k-i)][f] = None
    BY <1>6, <2>1, <2>2
  <2> QED BY <2>1, <2>3
<1>7. ASSUME NEW i \in 0 .. n, NEW k \in 0 .. n, i < k, up[i][f] \in Root
      PROVE  up[k][f] = None
  <2>1. i + 1 \in 0 .. n /\ i + 1 <= n /\ i + 1 <= k
    BY <1>1, <1>7
  <2>2. up[i+1][f] = None
    <3>1. up[i+1][f] = IF up[i][f] = None THEN None ELSE parent[up[i][f]]
      BY <1>1, <2>1
    <3>2. up[i][f] \in Folder /\ up[i][f] # None
      BY <1>1, <1>3, <1>7
    <3> QED BY <1>1, <1>7, <3>1, <3>2
  <2> QED BY <1>6, <2>1, <2>2
<1>8. ASSUME NEW k \in 0 .. n
      PROVE  /\ up[k][f] \in Root <=> k = m
             /\ up[k][f] # None <=> k <= m
  <2>1. CASE k = m
    BY <1>1, <1>2, <1>3, <2>1
  <2>2. CASE k < m
    <3>1. up[k][f] # None
      BY <1>2, <1>3, <1>6, <2>2
    <3>2. up[k][f] \notin Root
      BY <1>2, <1>3, <1>7, <2>2
    <3> QED BY <1>1, <2>2, <3>1, <3>2
  <2>3. CASE k > m
    <3>1. up[k][f] = None
      BY <1>2, <1>7, <2>3
    <3> QED BY <1>1, <1>3, <2>3, <3>1
  <2> QED BY <1>1, <2>1, <2>2, <2>3
<1> QED BY <1>5, <1>8

LEMMA DepthsExist ==
    ASSUME NEW up, NEW parent, NEW n, NEW present, Grounded(up, parent, n, present)
    PROVE  \E h : Depths(h, up, n, present)
<1> DEFINE Is(f, m) == \A k \in 0 .. n :
              /\ up[k][f] \in Root <=> k = m
              /\ up[k][f] # None <=> k <= m
              /\ up[k][f] \in present \cup {None}
           h == [f \in present |-> CHOOSE m \in 0 .. n : Is(f, m)]
<1>1. \A f \in present : \E m \in 0 .. n : Is(f, m)
  BY DepthOf
<1> HIDE DEF Is
<1>2. \A f \in present : h[f] \in 0 .. n /\ Is(f, h[f])
  BY <1>1
<1>3. h \in [present -> 0 .. n]
  BY <1>2
<1> HIDE DEF h
<1>4. Depths(h, up, n, present)
  BY <1>2, <1>3 DEF Depths, Is
<1> QED BY <1>4

-----------------------------------------------------------------------------
(* The closure of a workspace that has been used.                          *)

\* The closure of such a tree, as Init writes it.
Climbed(up, n, present) ==
    UNION {{Link(up[k][f], f, k) : k \in {j \in 0 .. n : up[j][f] # None}} : f \in present}

\* It links a folder with what a climb from it meets.
LEMMA ClimbedLinks ==
    ASSUME NEW up, NEW n, NEW present
    PROVE  /\ \A l \in Climbed(up, n, present) : \E f \in present, k \in 0 .. n :
                  up[k][f] # None /\ l = <<up[k][f], f, k>>
           /\ \A a, d : Covers(Climbed(up, n, present), a, d) <=>
                  d \in present /\ a # None /\ \E k \in 0 .. n : up[k][d] = a
<1> DEFINE lk == Climbed(up, n, present)
<1>1. ASSUME NEW l \in lk
      PROVE  \E f \in present, k \in 0 .. n : up[k][f] # None /\ l = <<up[k][f], f, k>>
  BY DEF Climbed, Link
<1>2. ASSUME NEW f \in present, NEW k \in 0 .. n, up[k][f] # None
      PROVE  <<up[k][f], f, k>> \in lk
  BY <1>2 DEF Climbed, Link
<1> HIDE DEF lk
<1>3. ASSUME NEW a, NEW d, Covers(lk, a, d)
      PROVE  d \in present /\ a # None /\ \E k \in 0 .. n : up[k][d] = a
  <2>1. PICK l \in lk : l[1] = a /\ l[2] = d
    BY <1>3 DEF Covers
  <2>2. PICK f \in present, k \in 0 .. n : up[k][f] # None /\ l = <<up[k][f], f, k>>
    BY <1>1
  <2> QED BY <2>1, <2>2
<1>4. ASSUME NEW a, NEW d \in present, a # None, NEW k \in 0 .. n, up[k][d] = a
      PROVE  Covers(lk, a, d)
  <2>1. <<a, d, k>> \in lk
    BY <1>2, <1>4
  <2>2. <<a, d, k>>[1] = a /\ <<a, d, k>>[2] = d
    OBVIOUS
  <2> QED BY <2>1, <2>2 DEF Covers
<1>5. \A a, d : Covers(lk, a, d) <=> d \in present /\ a # None /\ \E k \in 0 .. n : up[k][d] = a
  BY <1>3, <1>4
<1> QED BY <1>1, <1>5 DEF lk

(* What is above a folder: so far up, and that much nearer to the root.    *)
LEMMA ClimbedHeights ==
    ASSUME NEW up, NEW parent, NEW n, NEW present, Grounded(up, parent, n, present),
           NEW h, Depths(h, up, n, present)
    PROVE  /\ \A d \in present : \A i \in 0 .. n : up[i][d] # None =>
                 /\ up[i][d] \in present /\ i <= h[d] /\ h[up[i][d]] = h[d] - i
                 /\ \A j \in 0 .. n : i + j <= n => up[i+j][d] = up[j][up[i][d]]
           /\ \A d \in present : up[h[d]][d] \in Root /\ up[0][d] = d /\ h[d] \in 0 .. n
<1>1. /\ Ladder(up, parent, n) /\ n \in Nat /\ present \subseteq Folder
      /\ Root \subseteq present /\ None \notin Root
      /\ \A f \in present : up[0][f] = f
  BY TreeAssumption DEF Grounded, Ladder
<1>2. /\ \A f \in present : h[f] \in 0 .. n
      /\ \A f \in present : \A k \in 0 .. n :
            /\ up[k][f] \in Root <=> k = h[f]
            /\ up[k][f] # None <=> k <= h[f]
            /\ up[k][f] \in present \cup {None}
  BY DEF Depths
<1>3. ASSUME NEW d \in present, NEW i \in 0 .. n, up[i][d] # None
      PROVE  /\ up[i][d] \in present /\ i <= h[d] /\ h[up[i][d]] = h[d] - i
             /\ \A j \in 0 .. n : i + j <= n => up[i+j][d] = up[j][up[i][d]]
  <2>1. PICK e : e = up[i][d]
    OBVIOUS
  <2>2. e \in present /\ i <= h[d] /\ h[d] \in 0 .. n
    BY <1>2, <1>3, <2>1
  <2>3. \A j \in 0 .. n : i + j <= n => up[i+j][d] = up[j][e]
    <3>1. Ladder(up, parent, n) /\ d \in Folder
      BY <1>1
    <3>2. \A j \in 0 .. n : i + j <= n =>
               up[i+j][d] = IF up[i][d] = None THEN None ELSE up[j][up[i][d]]
      BY <3>1, ClimbsCompose, SMTT(30)
    <3> QED BY <1>3, <2>1, <3>2
  <2>4. PICK j \in 0 .. n : j = h[d] - i
    BY <1>1, <2>2
  <2>5. i + j <= n /\ i + j = h[d]
    BY <1>1, <2>2, <2>4
  <2>6. up[j][e] = up[h[d]][d]
    BY <2>3, <2>5
  <2>7. up[h[d]][d] \in Root
    BY <1>2, <2>2
  <2>8. j = h[e]
    BY <1>2, <2>2, <2>6, <2>7
  <2> QED BY <2>1, <2>2, <2>3, <2>4, <2>8
<1> QED BY <1>1, <1>2, <1>3

\* It is a tree, and the folders it links have one root.
LEMMA ClimbedOrdered ==
    ASSUME NEW up, NEW parent, NEW n, NEW present, Grounded(up, parent, n, present),
           NEW h, Depths(h, up, n, present),
           NEW above, \A d \in present : above[d] = parent[d]
    PROVE  LET lk == Climbed(up, n, present) IN
           /\ Linked(lk, present)
           /\ Ordered(lk, present, above)
           /\ \A a, d \in present : Covers(lk, a, d) => up[h[a]][a] = up[h[d]][d]
<1> DEFINE lk == Climbed(up, n, present)
<1>1. /\ n \in Nat /\ n >= 1 /\ present \subseteq Folder /\ None \notin present
      /\ 0 \in 0 .. n /\ 1 \in 0 .. n
      /\ \A d \in present : parent[d] # None => d \in present \ Root /\ parent[d] \in present
      /\ \A d \in present : up[1][d] = parent[d]
  <2>1. /\ n \in Nat /\ n >= 1 /\ present \subseteq Folder /\ None \notin Folder
        /\ \A f \in Folder : parent[f] = None <=> f \in Root \/ f \notin present
        /\ \A f \in present \ Root : parent[f] \in present
        /\ \A f \in Folder : up[0][f] = f
        /\ \A k \in 0 .. n : k + 1 <= n => \A f \in Folder :
              up[k+1][f] = IF up[k][f] = None THEN None ELSE parent[up[k][f]]
    BY TreeAssumption DEF Grounded, Ladder
  <2>2. ASSUME NEW d \in present
        PROVE  up[1][d] = parent[d]
    <3>1. 0 \in 0 .. n /\ 0 + 1 <= n /\ 0 + 1 = 1
      BY <2>1
    <3>2. up[0+1][d] = IF up[0][d] = None THEN None ELSE parent[up[0][d]]
      BY <2>1, <3>1
    <3> QED BY <2>1, <3>1, <3>2
  <2> QED BY <2>1, <2>2
<1>2. \A l \in lk : \E f \in present, k \in 0 .. n : up[k][f] # None /\ l = <<up[k][f], f, k>>
  BY ClimbedLinks
<1>3. \A a, d : Covers(lk, a, d) <=> d \in present /\ a # None /\ \E k \in 0 .. n : up[k][d] = a
  BY ClimbedLinks
<1> HIDE DEF lk
<1>4. \A d \in present : \A i \in 0 .. n : up[i][d] # None =>
         /\ up[i][d] \in present /\ i <= h[d] /\ h[up[i][d]] = h[d] - i
         /\ \A j \in 0 .. n : i + j <= n => up[i+j][d] = up[j][up[i][d]]
  BY ClimbedHeights
<1>5. \A d \in present : up[h[d]][d] \in Root /\ up[0][d] = d /\ h[d] \in 0 .. n
  BY ClimbedHeights
<1>6. Linked(lk, present)
  <2> SUFFICES ASSUME NEW l \in lk
               PROVE  l \in present \X present \X Nat
    BY DEF Linked
  <2>1. PICK f \in present, k \in 0 .. n : up[k][f] # None /\ l = <<up[k][f], f, k>>
    BY <1>2
  <2> QED BY <1>1, <1>4, <2>1
<1>7. ASSUME NEW a \in present, NEW d \in present, Covers(lk, a, d)
      PROVE  \E i \in 0 .. n : /\ up[i][d] = a /\ h[a] = h[d] - i /\ i <= h[d]
                               /\ \A j \in 0 .. n : i + j <= n => up[i+j][d] = up[j][a]
  <2>1. PICK i \in 0 .. n : up[i][d] = a
    BY <1>3, <1>7
  <2> QED BY <1>1, <1>4, <2>1
<1>8. \A a \in present : Covers(lk, a, a)
  BY <1>1, <1>3, <1>5
<1>9. ASSUME NEW a \in present, NEW b \in present, NEW d \in present,
             Covers(lk, a, b), Covers(lk, b, d)
      PROVE  Covers(lk, a, d)
  <2>1. PICK i \in 0 .. n : /\ up[i][d] = b /\ h[b] = h[d] - i /\ i <= h[d]
                            /\ \A j \in 0 .. n : i + j <= n => up[i+j][d] = up[j][b]
    BY <1>7, <1>9
  <2>2. PICK j \in 0 .. n : up[j][b] = a /\ j <= h[b]
    BY <1>7, <1>9
  <2>3. i + j <= n /\ i + j \in 0 .. n
    BY <1>1, <1>5, <2>1, <2>2
  <2>4. up[i+j][d] = a
    BY <2>1, <2>2, <2>3
  <2> QED BY <1>1, <1>3, <2>3, <2>4
<1>10. ASSUME NEW a \in present, NEW d \in present, Covers(lk, a, d), Covers(lk, d, a)
       PROVE  a = d
  <2>1. PICK i \in 0 .. n : up[i][d] = a /\ h[a] = h[d] - i
    BY <1>7, <1>10
  <2>2. PICK j \in 0 .. n : up[j][a] = d /\ h[d] = h[a] - j
    BY <1>7, <1>10
  <2>3. i = 0
    BY <1>1, <1>5, <2>1, <2>2
  <2> QED BY <1>5, <2>1, <2>3
<1>11. ASSUME NEW d \in present, above[d] \in present
       PROVE  above[d] # d /\ Covers(lk, above[d], d)
  <2>1. above[d] = up[1][d] /\ up[1][d] # None
    BY <1>1, <1>11
  <2>2. h[above[d]] = h[d] - 1
    BY <1>1, <1>4, <2>1
  <2>3. above[d] # d
    BY <1>5, <2>2
  <2> QED BY <1>1, <1>3, <2>1, <2>3
<1>12. ASSUME NEW a \in present, NEW d \in present, Covers(lk, a, d), a # d
       PROVE  above[d] \in present /\ Covers(lk, a, above[d])
  <2>1. PICK i \in 0 .. n : up[i][d] = a /\ h[a] = h[d] - i /\ i <= h[d]
    BY <1>7, <1>12
  <2>2. i # 0
    BY <1>5, <1>12, <2>1
  <2>3. 1 <= h[d]
    BY <1>1, <1>5, <2>1, <2>2
  <2>4. up[1][d] # None
    BY <1>1, <1>5, <2>3 DEF Depths
  <2>5. above[d] = up[1][d] /\ above[d] \in present
    BY <1>1, <2>4
  <2>6. \A j \in 0 .. n : 1 + j <= n => up[1+j][d] = up[j][above[d]]
    BY <1>1, <1>4, <2>4, <2>5
  <2>7. i - 1 \in 0 .. n /\ 1 + (i - 1) = i /\ i <= n
    BY <1>1, <2>2
  <2>8. up[i-1][above[d]] = a
    BY <2>1, <2>6, <2>7
  <2> QED BY <1>1, <1>3, <2>5, <2>7, <2>8
<1>13. ASSUME NEW a \in present, NEW d \in present, Covers(lk, a, d)
       PROVE  up[h[a]][a] = up[h[d]][d]
  <2>1. PICK i \in 0 .. n : /\ up[i][d] = a /\ h[a] = h[d] - i /\ i <= h[d]
                            /\ \A j \in 0 .. n : i + j <= n => up[i+j][d] = up[j][a]
    BY <1>7, <1>13
  <2>2. h[a] \in 0 .. n /\ i + h[a] = h[d] /\ h[d] <= n
    BY <1>1, <1>5, <2>1
  <2> QED BY <2>1, <2>2
<1>14. Ordered(lk, present, above)
  BY <1>8, <1>9, <1>10, <1>11, <1>12 DEF Ordered
<1> QED BY <1>6, <1>13, <1>14 DEF lk

-----------------------------------------------------------------------------
(* The initial states.                                                     *)

\* The first folders are a tree, each in the workspace of its root.
LEMMA InitFolders ==
    ASSUME Init
    PROVE  /\ FoldersOK /\ LinksOK
           /\ Ordered(links, Nodes, Parent) /\ Homes(folder, links, Nodes)
<1>1. PICK parent \in [Folder -> Folder \cup {None}], present \in SUBSET Folder,
           name \in [Folder -> Name] :
          /\ Root \subseteq present
          /\ \A f \in Folder : parent[f] = None <=> f \in Root \/ f \notin present
          /\ \A f \in present \ Root : parent[f] \in present
          /\ LET up == Above(parent) IN
             /\ \A f \in present : \E k \in DOMAIN up : up[k][f] \in Root
             /\ folder = [f \in Folder |-> IF f \notin present THEN None ELSE
                    [parent |-> parent[f], name |-> name[f],
                     ws |-> CHOOSE r \in Root : \E k \in DOMAIN up : up[k][f] = r]]
             /\ links = UNION {{Link(up[k][f], f, k) : k \in {j \in DOMAIN up : up[j][f] # None}} :
                               f \in present}
          /\ \A f, g \in present \ Root : f # g /\ parent[f] = parent[g] => name[f] # name[g]
          /\ \A f \in Folder : f \in Root \/ f \notin present => name[f] = CHOOSE n \in Name : TRUE
  BY DEF Init
<1>2. PICK up : up = Above(parent)
  OBVIOUS
<1>3. PICK n : n = Cardinality(Folder)
  OBVIOUS
<1> DEFINE ws(f) == CHOOSE r \in Root : \E k \in DOMAIN up : up[k][f] = r
           row(f) == [parent |-> parent[f], name |-> name[f], ws |-> ws(f)]
<1>4. DOMAIN up = 0 .. n /\ Ladder(up, parent, n)
  BY <1>2, <1>3, AboveIsLadder
<1>5. /\ \A f \in present : \E k \in 0 .. n : up[k][f] \in Root
      /\ folder = [f \in Folder |-> IF f \notin present THEN None ELSE row(f)]
      /\ links = Climbed(up, n, present)
  <2>1. \A f \in present : \E k \in 0 .. n : up[k][f] \in Root
    BY <1>1, <1>2, <1>4
  <2>2. folder = [f \in Folder |-> IF f \notin present THEN None ELSE row(f)]
    BY <1>1, <1>2
  <2>3. links = UNION {{Link(up[k][f], f, k) : k \in {j \in DOMAIN up : up[j][f] # None}} :
                       f \in present}
    BY <1>1, <1>2
  <2> HIDE DEF row
  <2> QED BY <1>4, <2>1, <2>2, <2>3 DEF Climbed
<1>6. Grounded(up, parent, n, present)
  BY <1>1, <1>4, <1>5 DEF Grounded
<1>7. PICK h : Depths(h, up, n, present)
  BY <1>6, DepthsExist
<1>8. ASSUME NEW f \in present
      PROVE  ws(f) = up[h[f]][f] /\ ws(f) \in Root
  <2>1. h[f] \in 0 .. n /\ up[h[f]][f] \in Root
    BY <1>6, <1>7, ClimbedHeights
  <2>2. \A r \in Root : \A k \in 0 .. n : up[k][f] = r => r = up[h[f]][f]
    BY <1>7 DEF Depths
  <2>3. PICK r \in Root : r = up[h[f]][f]
    BY <2>1
  <2>4. \E k \in 0 .. n : up[k][f] = r
    BY <2>1, <2>3
  <2>5. ws(f) \in Root /\ \E k \in 0 .. n : up[k][f] = ws(f)
    BY <1>4, <2>4
  <2> HIDE DEF ws
  <2> QED BY <2>2, <2>5
<1> HIDE DEF ws
<1>9. ASSUME NEW f \in present
      PROVE  /\ folder[f] = row(f) /\ row(f) \in FolderRow /\ row(f) # None
             /\ row(f).parent = parent[f] /\ row(f).ws = ws(f)
  <2>1. folder[f] = row(f)
    BY <1>1, <1>5
  <2>2. row(f) \in FolderRow /\ row(f).parent = parent[f] /\ row(f).ws = ws(f)
    BY <1>1, <1>8 DEF FolderRow
  <2> HIDE DEF row
  <2> QED BY <2>1, <2>2, TreeAssumption
<1>10. \A f \in Folder \ present : folder[f] = None
  BY <1>5
<1>11. Nodes = present
  <2>1. \A f \in Folder : folder[f] # None <=> f \in present
    BY <1>9, <1>10
  <2> QED BY <2>1 DEF Nodes, Exists
<1>12. folder \in [Folder -> FolderRow \cup {None}]
  <2>1. folder = [f \in Folder |-> folder[f]]
    BY <1>5
  <2>2. \A f \in Folder : folder[f] \in FolderRow \cup {None}
    BY <1>9, <1>10
  <2> QED BY <2>1, <2>2
<1> HIDE DEF row
<1>13. \A f \in present : Parent[f] = parent[f] /\ folder[f].parent = parent[f] /\ folder[f].ws = ws(f)
  BY <1>1, <1>9 DEF Parent, Exists
<1>14. /\ Linked(links, present)
       /\ Ordered(links, present, Parent)
       /\ \A a, d \in present : Covers(links, a, d) => up[h[a]][a] = up[h[d]][d]
  <2>1. PICK above : above = Parent
    OBVIOUS
  <2>2. \A d \in present : above[d] = parent[d]
    BY <1>13, <2>1
  <2>3. /\ Linked(Climbed(up, n, present), present)
        /\ Ordered(Climbed(up, n, present), present, above)
        /\ \A a, d \in present : Covers(Climbed(up, n, present), a, d) => up[h[a]][a] = up[h[d]][d]
    BY <1>6, <1>7, <2>2, ClimbedOrdered
  <2> QED BY <1>5, <2>1, <2>3
<1>15. FoldersOK
  <2>1. ASSUME NEW f \in present
        PROVE  /\ parent[f] \in present \cup {None}
               /\ parent[f] = None <=> f \in Root
               /\ parent[f] # f
    <3>1. parent[f] \in present => parent[f] # f
      BY <1>13, <1>14 DEF Ordered
    <3>2. f \in Folder /\ f # None
      BY <1>1, TreeAssumption
    <3> QED BY <1>1, <3>1, <3>2
  <2> QED BY <1>1, <1>11, <1>12, <1>13, <2>1 DEF FoldersOK
<1>16. LinksOK
  BY <1>11, <1>14 DEF LinksOK, Ordered
<1>17. Homes(folder, links, Nodes)
  BY <1>8, <1>11, <1>13, <1>14 DEF Homes
<1> QED BY <1>11, <1>14, <1>15, <1>16, <1>17

\* The first files are live and in folders.
LEMMA InitFiles ==
    ASSUME Init
    PROVE  FilesOK /\ \A g \in File : file[g] # None => file[g].state = "live"
<1>1. PICK at \in [File -> Nodes \cup {None}], size \in [File -> Size] :
          file = [g \in File |-> IF at[g] = None THEN None
                                 ELSE [at |-> at[g], state |-> "live", size |-> size[g]]]
  BY DEF Init
<1> DEFINE row(g) == [at |-> at[g], state |-> "live", size |-> size[g]]
<1>2. ASSUME NEW g \in File, at[g] # None
      PROVE  /\ row(g) \in FileRow /\ row(g) # None /\ row(g).at \in Nodes /\ row(g).state = "live"
  <2>1. at[g] \in Nodes /\ at[g] \in Folder
    BY <1>1, <1>2 DEF Nodes
  <2>2. row(g) \in FileRow /\ row(g).at \in Nodes /\ row(g).state = "live"
    BY <1>1, <2>1 DEF FileRow
  <2> HIDE DEF row
  <2> QED BY <2>2, TreeAssumption
<1>3. \A g \in File : file[g] = IF at[g] = None THEN None ELSE row(g)
  BY <1>1
<1>4. file = [g \in File |-> file[g]]
  BY <1>1
<1> HIDE DEF row
<1>5. \A g \in File : file[g] \in FileRow \cup {None}
  BY <1>2, <1>3
<1>6. file \in FileTable
  BY <1>4, <1>5 DEF FileTable
<1> QED BY <1>2, <1>3, <1>6 DEF FilesOK

\* The first totals are the truth, and nothing is queued.
LEMMA InitTotals ==
    ASSUME Init
    PROVE  TotalsOK /\ \A f \in Nodes : stored[f] + Amount(queue, f, links) = TruthOf(file, links, f)
<1>1. stored = Settled(file, links) /\ queue = <<>>
  BY DEF Init
<1>2. file \in FileTable /\ \A g \in File : file[g] # None => file[g].state = "live"
  BY InitFiles DEF FilesOK
<1>3. \A f \in Folder : stored[f] =
          SumFunction([g \in {h \in File : file[h] # None /\ Covers(links, f, file[h].at)} |->
                          file[g].size])
  BY <1>1 DEF Settled
<1>4. ASSUME NEW f \in Folder
      PROVE  stored[f] = TruthOf(file, links, f) /\ stored[f] \in Nat
  <2>1. {h \in File : file[h] # None /\ Covers(links, f, file[h].at)} =
        {h \in File : IsLive(file, h) /\ Covers(links, f, file[h].at)}
    BY <1>2 DEF IsLive
  <2>2. /\ SumFunction([g \in {h \in File : IsLive(file, h) /\ Covers(links, f, file[h].at)} |->
                           file[g].size])
              = TruthOf(file, links, f)
        /\ TruthOf(file, links, f) \in Nat
    BY <1>2, TruthIsHeld
  <2> QED BY <1>3, <2>1, <2>2
<1>5. stored \in [Folder -> Nat]
  <2>1. stored = [f \in Folder |-> stored[f]]
    BY <1>1 DEF Settled
  <2> QED BY <1>4, <2>1
<1>6. queue \in Seq(Queueable(Nodes)) /\ queue \in Seq(DeltaRow)
  BY <1>1
<1>7. \A f : Amount(queue, f, links) = 0
  <2>1. DOMAIN queue = {}
    BY <1>1
  <2> QED BY <1>6, <2>1, SharesOfNone DEF Amount
<1>8. ASSUME NEW f \in Nodes
      PROVE  stored[f] + Amount(queue, f, links) = TruthOf(file, links, f)
  <2>1. f \in Folder
    BY DEF Nodes
  <2> QED BY <1>4, <1>7, <2>1
<1> QED BY <1>5, <1>6, <1>8 DEF TotalsOK

\* A workspace that has been used satisfies the invariant.
LEMMA Starts ==
    ASSUME Init
    PROVE  IInv
<1>1. /\ FoldersOK /\ LinksOK /\ FilesOK /\ TotalsOK
      /\ Ordered(links, Nodes, Parent) /\ Homes(folder, links, Nodes)
  BY InitFolders, InitFiles, InitTotals
<1>2. /\ lock = [r \in Root |-> None] /\ req = [q \in Request |-> Idle]
      /\ fresh = {} /\ missing = {}
  BY DEF Init
<1>3. BackgroundOK
  BY <1>2 DEF BackgroundOK
<1>4. DOMAIN req = Request /\ \A q \in Request : req[q] = Idle
  BY <1>2
<1>5. RequestsOK
  <2>1. \A q \in Request : RequestOK(req[q], Nodes, file)
    BY <1>4 DEF RequestOK
  <2>2. \A q \in Request : ~Creating(req[q]) /\ ~Committing(req[q])
    BY <1>4 DEF Idle, Creating, Committing
  <2> QED BY <1>4, <2>1, <2>2 DEF RequestsOK, Distinct, Holding
<1>6. MovesKnow(req, folder, links)
  BY <1>4 DEF MovesKnow, Idle, Committing
<1>7. TotalsAddUp
  <2>1. Adds(file, links, stored, queue, Nodes)
    BY InitTotals DEF Adds
  <2> QED BY <1>1, <2>1, TotalsNow DEF FilesOK
<1> QED BY <1>1, <1>3, <1>5, <1>6, <1>7 DEF IInv, Shape, TreeOK

-----------------------------------------------------------------------------
(* The invariant, and what follows from it.                                *)

\* Every step keeps the invariant: one case for each action of Next.
LEMMA StepKeeps ==
    ASSUME IInv, [Next]_vars
    PROVE  IInv'
<1>1. CASE UNCHANGED vars
  <2>1. UNCHANGED <<rows, totals, background, disk, req, changes, stale>>
    BY <1>1 DEF vars, rows, totals, background, scan
  <2> QED BY <2>1, StorageChanges DEF background, scan
<1>2. CASE \E q \in Request : Arriving(q)
  <2>1. PICK q \in Request : Arriving(q)
    BY <1>2
  <2>2. CASE \E f, p \in Folder, n \in Name :
                 CreateBegin(q, f, p, n) \/ AdoptBegin(q, f, p, n) \/ MoveBegin(q, f, p, n)
    BY <2>2, CreateBegins, AdoptBegins, MoveBegins
  <2>3. CASE \E g \in File, d \in Folder : FileMoveBegin(q, g, d)
    BY <2>3, FileMoveBegins
  <2>4. CASE \E g \in File : VersionBegin(q, g) \/ TrashBegin(q, g)
    BY <2>4, VersionBegins, TrashBegins
  <2> QED BY <2>1, <2>2, <2>3, <2>4 DEF Arriving
<1>3. CASE \E q \in Request : Handling(q)
  <2>1. PICK q \in Request : Handling(q)
    BY <1>3
  <2>2. CASE MakeDirectories(q) \/ InsertFolder(q) \/ CommitFolder(q)
    BY <2>2, MakesDirectories, InsertsFolder, Commits
  <2>3. CASE MoveOnDisk(q) \/ MoveCommit(q)
    BY <2>3, MovesOnDisk, Moves
  <2>4. CASE FileMoveOnDisk(q) \/ FileMoveCommit(q)
    BY <2>4, FileMovesOnDisk, FileMoves
  <2>5. CASE (\E size \in Size : AddVersion(q, size)) \/ Trash(q)
    BY <2>5, VersionAdded, Trashes
  <2> QED BY <2>1, <2>2, <2>3, <2>4, <2>5 DEF Handling
<1>4. CASE \E q \in Request : Lost(q)
  BY <1>4, IsLost
<1>5. CASE Reconciling
  <2>1. CASE \E g \in File, d \in Folder, size \in Size : Register(g, d, size)
    BY <2>1, Registers
  <2>2. CASE \E g \in File, d \in Folder : FileFollows(g, d)
    BY <2>2, FileIsFollowed
  <2>3. CASE \E g \in File : Reactivate(g)
    BY <2>3, Reactivates
  <2>4. CASE TraversalEnds
    <3>1. missing' \subseteq missing \cup (Folder \ Root)
      BY <2>4 DEF TraversalEnds, Nodes
    <3> QED BY <2>4, <3>1, StorageChanges DEF TraversalEnds
  <2>5. CASE \E x, y \in Folder : TransferIdentity(x, y)
    BY <2>5, Transfers
  <2> QED BY <1>5, <2>1, <2>2, <2>3, <2>4, <2>5 DEF Reconciling
<1>6. CASE \E f, p \in Folder, n \in Name : ExternalMove(f, p, n)
  <2>1. PICK f \in Folder, p \in Folder, n \in Name : ExternalMove(f, p, n)
    BY <1>6
  <2> QED BY <2>1, StorageChanges DEF ExternalMove, background, scan
<1>7. CASE \E g \in File : ExternalDelete(g)
  <2>1. PICK g \in File : ExternalDelete(g)
    BY <1>7
  <2> QED BY <2>1, StorageChanges DEF ExternalDelete, background, scan
<1>8. CASE \E w \in Root : DrainBatch(w)
  BY <1>8, Drains
<1>9. CASE \E w \in Root : ChooseFolders(w)
  <2>1. PICK w \in Root : ChooseFolders(w)
    BY <1>9
  <2>2. lock' = lock \/ \E v \in Root : lock[v] = None /\ lock' = [lock EXCEPT ![v] = Rollup]
    BY <2>1 DEF ChooseFolders
  <2> QED BY <2>1, <2>2, RollupsLock DEF ChooseFolders, scan
<1>10. CASE Correct
  BY <1>10, Corrects
<1>11. CASE RollupEnds
  BY <1>11, RollupsLock DEF RollupEnds, scan
<1> QED BY <1>1, <1>2, <1>3, <1>4, <1>5, <1>6, <1>7, <1>8, <1>9, <1>10, <1>11 DEF Next

\* The inductive invariant holds in every reachable state, for every table of folders and
\* files, any number of requests in flight, and any batch and number of batches.
THEOREM Invariance == Spec => []IInv
<1>1. Init => IInv
  BY Starts
<1>2. IInv /\ [Next]_vars => IInv'
  BY StepKeeps
<1> QED BY <1>1, <1>2, PTL DEF Spec

\* Rows refer to rows that exist, totals are never negative and no queued change is a change
\* of nothing or of a folder that is gone, whatever was stale when it was written.
THEOREM TypeCorrect == Spec => []TypeOK
<1>1. IInv => TypeOK
  <2> SUFFICES ASSUME IInv PROVE TypeOK
    OBVIOUS
  <2>1. FoldersOK /\ LinksOK /\ FilesOK /\ TotalsOK /\ BackgroundOK
    BY DEF IInv, Shape
  <2>2. \A f \in Nodes : /\ folder[f].parent \in Nodes \cup {None} /\ folder[f].ws \in Root
                         /\ folder[f].parent = None <=> f \in Root
    BY <2>1, RowOf DEF FoldersOK
  <2>3. \A i \in DOMAIN queue : queue[i].folder \in Nodes /\ queue[i].amount # 0
    <3>1. \A i \in DOMAIN queue : queue[i] \in Queueable(Nodes)
      BY <2>1 DEF TotalsOK
    <3> QED BY <3>1 DEF Queueable
  <2>4. \A r \in Root : lock[r] \in Request \cup {None, Rollup}
    BY <2>1 DEF BackgroundOK
  <2> QED BY <2>1, <2>2, <2>3, <2>4 DEF TypeOK, LinksOK, Linked, FilesOK, TotalsOK
<1> QED BY <1>1, Invariance, PTL

\* folder_closure is what the parents of the folders make it and they make a tree, unless a
\* creation or a second move of one folder rested on a stale read (folders.py, _detach and _attach).
THEOREM ClosureAlwaysTree == Spec => []ClosureIsTree
<1>1. IInv => ClosureIsTree
  <2> SUFFICES ASSUME IInv, Kept PROVE ClosureOf(links, Nodes, Parent)
    BY DEF ClosureIsTree, Kept
  <2>1. Ordered(links, Nodes, Parent) /\ Linked(links, Nodes)
    BY DEF IInv, Shape, LinksOK, TreeOK
  <2>2. \A l \in links : l[1] \in Nodes /\ l[2] \in Nodes
    BY <2>1 DEF Linked
  <2>3. \A d \in Nodes : Parent[d] \in Nodes => ~Covers(links, d, Parent[d])
    BY <2>1 DEF Ordered
  <2>4. \A a, d \in Nodes : Covers(links, a, d) <=>
            a = d \/ (Parent[d] \in Nodes /\ Covers(links, a, Parent[d]))
    BY <2>1 DEF Ordered
  <2> QED BY <2>2, <2>3, <2>4 DEF ClosureOf
<1> QED BY <1>1, Invariance, PTL

\* A folder is in the workspace of its parent under the same conditions: a subtree changes
\* workspace as a whole (folders.relocate).
THEOREM AlwaysOneWorkspace == Spec => []OneWorkspace
<1>1. IInv => OneWorkspace
  <2> SUFFICES ASSUME IInv, Kept, NEW f \in Nodes \ Root
               PROVE  folder[f].ws = folder[folder[f].parent].ws
    BY DEF OneWorkspace, Kept
  <2>1. FoldersOK /\ Ordered(links, Nodes, Parent) /\ Homes(folder, links, Nodes)
    BY DEF IInv, Shape, TreeOK
  <2>2. folder[f].parent \in Nodes /\ Parent[f] = folder[f].parent
    BY <2>1, RowOf
  <2>3. Covers(links, folder[f].parent, f)
    BY <2>1, <2>2 DEF Ordered
  <2> QED BY <2>1, <2>2, <2>3 DEF Homes
<1> QED BY <1>1, Invariance, PTL

\* Stored totals and queued deltas always make the sizes of the live files, whatever drains,
\* moves, transfers and corrections do in between (aggregates.py), unless a write was stale.
THEOREM TotalsAlwaysAddUp == Spec => []TotalsAddUp
<1>1. IInv => TotalsAddUp
  BY DEF IInv
<1> QED BY <1>1, Invariance, PTL
=============================================================================
