------------------------------ MODULE TagsProofs ------------------------------
(***************************************************************************)
(* That a person has the last word on a file's tags, that rows refer to    *)
(* rows that are there, and that the stored closure is what the edges      *)
(* reach: for any finite vocabulary, and any files, extractors and numbers *)
(* of requests and versions.                                               *)
(***************************************************************************)
EXTENDS Tags, FiniteSetTheorems, WellFoundedInduction, TLAPS

-----------------------------------------------------------------------------
(* Induction on the natural numbers, for a set rather than a predicate.    *)

(* Every set of numbers has a least one.                                   *)
LEMMA Least ==
    ASSUME NEW T \in SUBSET Nat, T # {}
    PROVE  \E n \in T : \A m \in T : n <= m
<1> DEFINE R == OpToRel(<, Nat)
<1>1. IsWellFoundedOn(R, Nat)
  BY NatLessThanWellFounded
<1>2. \A m, n \in Nat : m < n => <<m, n>> \in R
  BY DEF OpToRel
<1> HIDE DEF R
<1>3. PICK n \in T : \A m \in T : ~(<<m, n>> \in R)
  BY <1>1, WFMin
<1>4. \A m \in T : ~(m < n)
  BY <1>2, <1>3
<1>5. QED
  BY <1>4

(* A set that has 0 and is closed under successor has every number.        *)
LEMMA SetInduction ==
    ASSUME NEW S \in SUBSET Nat, 0 \in S, \A n \in S : n + 1 \in S
    PROVE  S = Nat
<1> SUFFICES ASSUME Nat \ S # {} PROVE FALSE
  OBVIOUS
<1>1. PICK n \in Nat \ S : \A m \in Nat \ S : n <= m
  BY Least
<1>2. n - 1 \in Nat /\ n - 1 \notin S
  BY <1>1
<1>3. QED
  BY <1>1, <1>2

-----------------------------------------------------------------------------
(* The recursive query.                                                    *)

Onward(rows, edges) ==
    rows \cup {<<p[1][1], p[2][2]>> : p \in {q \in rows \X edges : q[1][2] = q[2][1]}}

IsWalk(w, edges, n) ==
    w = [k \in 0 .. n |-> IF k = 0 THEN edges ELSE Onward(w[k-1], edges)]

(* A walk of n steps starts at the edges and goes on by one edge a step.   *)
LEMMA WalkSteps ==
    ASSUME NEW w, NEW edges, NEW n \in Nat, IsWalk(w, edges, n)
    PROVE  /\ DOMAIN w = 0 .. n
           /\ w[0] = edges
           /\ \A k \in 0 .. n : k + 1 <= n => w[k+1] = Onward(w[k], edges)
<1> DEFINE v == [k \in 0 .. n |-> IF k = 0 THEN edges ELSE Onward(w[k-1], edges)]
<1>1. w = v
  BY DEF IsWalk
<1>2. DOMAIN v = 0 .. n /\ \A k \in 0 .. n : v[k] = IF k = 0 THEN edges ELSE Onward(w[k-1], edges)
  OBVIOUS
<1> HIDE DEF v
<1>3. \A k \in 0 .. n : w[k] = IF k = 0 THEN edges ELSE Onward(w[k-1], edges)
  BY <1>1, <1>2
<1>4. w[0] = edges
  BY <1>3
<1>5. ASSUME NEW k \in 0 .. n, k + 1 <= n PROVE w[k+1] = Onward(w[k], edges)
  <2>1. k + 1 \in 0 .. n /\ k + 1 # 0 /\ (k + 1) - 1 = k
    BY <1>5
  <2>2. QED
    BY <1>3, <2>1
<1>6. QED
  BY <1>1, <1>2, <1>4, <1>5

(* Any walk can be made one step longer, so there is one of every length.  *)
LEMMA LongerWalk ==
    ASSUME NEW w, NEW edges, NEW n \in Nat, IsWalk(w, edges, n)
    PROVE  \E v : IsWalk(v, edges, n + 1) /\ \A k \in 0 .. n : v[k] = w[k]
<1> DEFINE v == [k \in 0 .. n + 1 |-> IF k = n + 1 THEN Onward(w[n], edges) ELSE w[k]]
<1>1. ASSUME NEW k \in 0 .. n + 1
      PROVE  v[k] = IF k = 0 THEN edges ELSE Onward(v[k-1], edges)
  <2>1. CASE k = 0
    BY <2>1, WalkSteps
  <2>2. CASE k # 0
    <3>1. k - 1 \in 0 .. n /\ v[k-1] = w[k-1] /\ (k - 1) + 1 = k
      BY <2>2
    <3>2. k # n + 1 => w[k] = Onward(w[k-1], edges)
      BY <3>1, WalkSteps
    <3>3. QED
      BY <2>2, <3>1, <3>2
  <2>3. QED
    BY <2>1, <2>2
<1>2. v = [k \in 0 .. n + 1 |-> IF k = 0 THEN edges ELSE Onward(v[k-1], edges)]
  BY <1>1
<1>3. \A k \in 0 .. n : v[k] = w[k]
  OBVIOUS
<1> HIDE DEF v
<1>4. QED
  BY <1>2, <1>3 DEF IsWalk

LEMMA WalkExists ==
    ASSUME NEW edges, NEW n \in Nat
    PROVE  \E w : IsWalk(w, edges, n)
<1> DEFINE S == {m \in Nat : \E w : IsWalk(w, edges, m)}
<1>1. 0 \in S
  <2> DEFINE v == [k \in 0 .. 0 |-> edges]
  <2>1. v = [k \in 0 .. 0 |-> IF k = 0 THEN edges ELSE Onward(v[k-1], edges)]
    OBVIOUS
  <2>2. IsWalk(v, edges, 0)
    BY <2>1 DEF IsWalk
  <2>3. QED
    BY <2>2
<1>2. \A m \in S : m + 1 \in S
  BY LongerWalk
<1> HIDE DEF S
<1>3. S = Nat
  BY <1>1, <1>2, SetInduction DEF S
<1>4. QED
  BY <1>3 DEF S

(* Reach is the end of a walk of as many steps as there are tags.          *)
LEMMA ReachIsWalk ==
    ASSUME NEW edges
    PROVE  \E w : IsWalk(w, edges, Cardinality(Tag)) /\ Reach(edges) = w[Cardinality(Tag)]
<1> DEFINE N == Cardinality(Tag)
<1>1. N \in Nat
  BY TagsAssumption, FS_CardinalityType
<1> DEFINE w == CHOOSE f : f = [k \in 0 .. N |->
             IF k = 0 THEN edges
             ELSE f[k-1] \cup {<<p[1][1], p[2][2]>> :
                                    p \in {q \in f[k-1] \X edges : q[1][2] = q[2][1]}}]
<1>2. PICK v : IsWalk(v, edges, N)
  BY <1>1, WalkExists
<1>3. IsWalk(w, edges, N)
  BY <1>2 DEF IsWalk, Onward
<1>4. Reach(edges) = w[N]
  BY DEF Reach
<1> HIDE DEF w
<1>5. QED
  BY <1>3, <1>4

(* What one more step adds to the rows.                                    *)
LEMMA OnwardStep ==
    ASSUME NEW B, NEW edges \in SUBSET (B \X B), NEW rows \in SUBSET (B \X B)
    PROVE  /\ Onward(rows, edges) \in SUBSET (B \X B)
           /\ rows \subseteq Onward(rows, edges)
           /\ \A x, y \in B : <<x, y>> \in Onward(rows, edges) <=>
                 \/ <<x, y>> \in rows
                 \/ \E p \in B : <<x, p>> \in rows /\ <<p, y>> \in edges
<1>1. Onward(rows, edges) \in SUBSET (B \X B)
  BY DEF Onward
<1>2. rows \subseteq Onward(rows, edges)
  BY DEF Onward
<1>3. ASSUME NEW x \in B, NEW y \in B, NEW p \in B, <<x, p>> \in rows, <<p, y>> \in edges
      PROVE  <<x, y>> \in Onward(rows, edges)
  <2> DEFINE q == <<<<x, p>>, <<p, y>>>>
  <2>1. q \in rows \X edges /\ q[1][2] = q[2][1] /\ <<q[1][1], q[2][2]>> = <<x, y>>
    BY <1>3
  <2> HIDE DEF q
  <2>2. QED
    BY <2>1 DEF Onward
<1>4. ASSUME NEW x \in B, NEW y \in B, <<x, y>> \in Onward(rows, edges), <<x, y>> \notin rows
      PROVE  \E p \in B : <<x, p>> \in rows /\ <<p, y>> \in edges
  <2>1. PICK q \in rows \X edges : q[1][2] = q[2][1] /\ <<q[1][1], q[2][2]>> = <<x, y>>
    BY <1>4 DEF Onward
  <2>2. q[1] \in rows /\ q[2] \in edges /\ q[1] \in B \X B /\ q[2] \in B \X B
    BY <2>1
  <2>3. q[1] = <<x, q[1][2]>> /\ q[2] = <<q[1][2], y>> /\ q[1][2] \in B
    BY <2>1, <2>2
  <2>4. QED
    BY <2>2, <2>3
<1>5. QED
  BY <1>1, <1>2, <1>3, <1>4

LEMMA OnwardTags ==
    ASSUME NEW edges \in SUBSET (Tag \X Tag), NEW rows \in SUBSET (Tag \X Tag)
    PROVE  \A x, y \in Tag : <<x, y>> \in Onward(rows, edges) <=>
              \/ <<x, y>> \in rows
              \/ \E p \in Tag : <<x, p>> \in rows /\ <<p, y>> \in edges
BY OnwardStep

(* A walk over edges between the members of a set stays between them.      *)
LEMMA WalkWithin ==
    ASSUME NEW B, NEW edges \in SUBSET (B \X B), NEW n \in Nat, NEW w, IsWalk(w, edges, n)
    PROVE  \A k \in 0 .. n : w[k] \in SUBSET (B \X B) /\ edges \subseteq w[k]
<1> DEFINE S == {k \in Nat : k <= n => w[k] \in SUBSET (B \X B) /\ edges \subseteq w[k]}
<1>1. 0 \in S
  BY WalkSteps
<1>2. ASSUME NEW k \in S PROVE k + 1 \in S
  <2> SUFFICES ASSUME k + 1 <= n
               PROVE  w[k+1] \in SUBSET (B \X B) /\ edges \subseteq w[k+1]
    OBVIOUS
  <2>1. k \in 0 .. n /\ w[k] \in SUBSET (B \X B) /\ edges \subseteq w[k]
    OBVIOUS
  <2>2. w[k+1] = Onward(w[k], edges)
    BY <2>1, WalkSteps
  <2>3. QED
    BY <2>1, <2>2, OnwardStep
<1> HIDE DEF S
<1>3. S = Nat
  BY <1>1, <1>2, SetInduction DEF S
<1>4. QED
  BY <1>3 DEF S

LEMMA ReachWithin ==
    ASSUME NEW B, NEW edges \in SUBSET (B \X B)
    PROVE  Reach(edges) \in SUBSET (B \X B) /\ edges \subseteq Reach(edges)
<1>1. Cardinality(Tag) \in Nat
  BY TagsAssumption, FS_CardinalityType
<1>2. PICK w : IsWalk(w, edges, Cardinality(Tag)) /\ Reach(edges) = w[Cardinality(Tag)]
  BY ReachIsWalk
<1>3. \A k \in 0 .. Cardinality(Tag) : w[k] \in SUBSET (B \X B) /\ edges \subseteq w[k]
  BY <1>1, <1>2, WalkWithin
<1>4. QED
  BY <1>1, <1>2, <1>3

(* Less edges reach less.                                                  *)
LEMMA ReachMonotone ==
    ASSUME NEW B, NEW more \in SUBSET (B \X B), NEW less \in SUBSET more
    PROVE  Reach(less) \subseteq Reach(more)
<1> DEFINE N == Cardinality(Tag)
<1>1. N \in Nat
  BY TagsAssumption, FS_CardinalityType
<1>2. PICK v : IsWalk(v, less, N) /\ Reach(less) = v[N]
  BY ReachIsWalk
<1>3. PICK w : IsWalk(w, more, N) /\ Reach(more) = w[N]
  BY ReachIsWalk
<1> DEFINE S == {k \in Nat : k <= N => v[k] \subseteq w[k]}
<1> HIDE DEF N
<1>4. 0 \in S
  BY <1>1, <1>2, <1>3, WalkSteps
<1>5. ASSUME NEW k \in S PROVE k + 1 \in S
  <2> SUFFICES ASSUME k + 1 <= N PROVE v[k+1] \subseteq w[k+1]
    OBVIOUS
  <2>1. k \in 0 .. N /\ v[k] \subseteq w[k]
    BY <1>1
  <2>2. v[k+1] = Onward(v[k], less) /\ w[k+1] = Onward(w[k], more)
    BY <1>1, <1>2, <1>3, <2>1, WalkSteps
  <2>3. Onward(v[k], less) \subseteq Onward(w[k], more)
    BY <2>1 DEF Onward
  <2>4. QED
    BY <2>2, <2>3
<1> HIDE DEF S
<1>6. S = Nat
  BY <1>4, <1>5, SetInduction DEF S
<1>7. QED
  BY <1>1, <1>2, <1>3, <1>6 DEF S

(* As many steps as there are tags are enough: what is reached from a tag  *)
(* either grows with a step or has stopped to, and it cannot outgrow them. *)
LEMMA ReachIsClosed ==
    ASSUME NEW edges \in SUBSET (Tag \X Tag), NEW x \in Tag, NEW p \in Tag, NEW y \in Tag,
           <<x, p>> \in Reach(edges), <<p, y>> \in edges
    PROVE  <<x, y>> \in Reach(edges)
<1> DEFINE N == Cardinality(Tag)
<1>1. N \in Nat
  BY TagsAssumption, FS_CardinalityType
<1>2. PICK u : IsWalk(u, edges, N) /\ Reach(edges) = u[N]
  BY ReachIsWalk
<1>3. PICK w : IsWalk(w, edges, N + 1) /\ \A k \in 0 .. N : w[k] = u[k]
  BY <1>1, <1>2, LongerWalk
<1> DEFINE From(k) == {z \in Tag : <<x, z>> \in w[k]}
           Full(k) == Cardinality(From(k)) >= k + 1 \/ From(k + 1) = From(k)
           S == {k \in Nat : k <= N => Full(k)}
<1> HIDE DEF N
<1>4. \A k \in 0 .. N : \A z \in Tag : z \in From(k+1) <=>
          z \in From(k) \/ \E q \in Tag : q \in From(k) /\ <<q, z>> \in edges
  <2> TAKE k \in 0 .. N
  <2>1. k \in 0 .. N + 1 /\ N + 1 \in Nat /\ k + 1 <= N + 1
    BY <1>1
  <2> HIDE DEF From, Full
  <2>2. w[k+1] = Onward(w[k], edges)
    BY <1>3, <2>1, WalkSteps
  <2>3. \A j \in 0 .. N + 1 : w[j] \in SUBSET (Tag \X Tag)
    <3>1. PICK m \in Nat : m = N + 1
      BY <2>1
    <3>2. IsWalk(w, edges, m)
      BY <1>3, <3>1
    <3>3. \A j \in 0 .. m : w[j] \in SUBSET (Tag \X Tag) /\ edges \subseteq w[j]
      BY <3>2, WalkWithin
    <3>4. QED
      BY <3>1, <3>3
  <2>4. \A a, b \in Tag : <<a, b>> \in Onward(w[k], edges) <=>
           <<a, b>> \in w[k] \/ \E q \in Tag : <<a, q>> \in w[k] /\ <<q, b>> \in edges
    <3>1. w[k] \in SUBSET (Tag \X Tag)
      BY <2>1, <2>3
    <3>2. QED
      BY <3>1, OnwardTags
  <2>5. QED
    BY <2>2, <2>4 DEF From
<1>5. \A k \in Nat : IsFiniteSet(From(k)) /\ Cardinality(From(k)) \in Nat /\ Cardinality(From(k)) <= N
  BY TagsAssumption, FS_Subset, FS_CardinalityType DEF N
<1>6. 0 \in S
  <2> HIDE DEF From, Full
  <2> SUFFICES Full(0)
    OBVIOUS
  <2>1. CASE From(0) = {}
    <3>1. \A z \in Tag : z \notin From(0 + 1)
      <4>1. 0 \in 0 .. N
        BY <1>1
      <4>2. \A z \in Tag : z \in From(0 + 1) <=>
               z \in From(0) \/ \E q \in Tag : q \in From(0) /\ <<q, z>> \in edges
        BY <1>4, <4>1
      <4>3. QED
        BY <2>1, <4>2
    <3>2. From(0 + 1) = From(0)
      BY <2>1, <3>1 DEF From
    <3>3. QED
      BY <3>2 DEF Full
  <2>2. CASE From(0) # {}
    <3>1. Cardinality(From(0)) # 0
      BY <1>5, <2>2, FS_EmptySet
    <3>2. QED
      BY <1>5, <3>1 DEF Full
  <2>3. QED
    BY <2>1, <2>2
<1>7. ASSUME NEW k \in S PROVE k + 1 \in S
  <2> SUFFICES ASSUME k + 1 <= N PROVE Full(k + 1)
    OBVIOUS
  <2>1. k \in 0 .. N /\ k + 1 \in 0 .. N /\ Full(k)
    BY <1>1
  <2> HIDE DEF From
  <2>2. CASE From(k + 1) = From(k)
    <3>1. \A z \in Tag : z \in From((k + 1) + 1) <=> z \in From(k + 1)
      BY <1>4, <2>1, <2>2
    <3>2. From((k + 1) + 1) = From(k + 1)
      BY <3>1 DEF From
    <3>3. QED
      BY <3>2
  <2>3. CASE From(k + 1) # From(k)
    <3>1. From(k) \subseteq From(k + 1)
      BY <1>4, <2>1 DEF From
    <3>2. Cardinality(From(k)) # Cardinality(From(k + 1))
          /\ Cardinality(From(k)) <= Cardinality(From(k + 1))
      BY <1>5, <2>3, <3>1, FS_Subset
    <3>3. Cardinality(From(k)) >= k + 1
      BY <2>1, <2>3
    <3>4. QED
      BY <1>5, <3>2, <3>3
  <2>4. QED
    BY <2>2, <2>3
<1>8. Full(N)
  <2> HIDE DEF S, Full
  <2>1. S = Nat
    BY <1>6, <1>7, SetInduction DEF S
  <2>2. QED
    BY <1>1, <2>1 DEF S
<1>9. From(N + 1) = From(N)
  <2> HIDE DEF From
  <2>1. Cardinality(From(N)) \in Nat /\ Cardinality(From(N)) <= N
    BY <1>1, <1>5
  <2>2. QED
    BY <1>1, <1>8, <2>1 DEF Full
<1>10. p \in From(N) /\ N \in 0 .. N
  BY <1>1, <1>2, <1>3
<1> HIDE DEF From
<1>11. y \in From(N)
  BY <1>4, <1>9, <1>10
<1>12. QED
  BY <1>1, <1>2, <1>3, <1>11 DEF From

(* A path is an edge, or a path with one more edge at its end.             *)
LEMMA ReachLast ==
    ASSUME NEW edges \in SUBSET (Tag \X Tag), NEW x \in Tag, NEW y \in Tag,
           <<x, y>> \in Reach(edges)
    PROVE  \/ <<x, y>> \in edges
           \/ \E p \in Tag : <<x, p>> \in Reach(edges) /\ <<p, y>> \in edges
<1> DEFINE N == Cardinality(Tag)
           Last == <<x, y>> \in edges
                   \/ \E p \in Tag : <<x, p>> \in Reach(edges) /\ <<p, y>> \in edges
<1>1. N \in Nat
  BY TagsAssumption, FS_CardinalityType
<1>2. PICK w : IsWalk(w, edges, N) /\ Reach(edges) = w[N]
  BY ReachIsWalk
<1> DEFINE S == {k \in Nat : k <= N => /\ w[k] \subseteq Reach(edges)
                                       /\ <<x, y>> \in w[k] => Last}
<1> HIDE DEF N, Last
<1>3. 0 \in S
  <2>1. w[0] = edges
    BY <1>1, <1>2, WalkSteps
  <2>2. QED
    BY <2>1, ReachWithin DEF Last
<1>4. ASSUME NEW k \in S PROVE k + 1 \in S
  <2> SUFFICES ASSUME k + 1 <= N
               PROVE  w[k+1] \subseteq Reach(edges) /\ (<<x, y>> \in w[k+1] => Last)
    OBVIOUS
  <2>1. k \in 0 .. N /\ w[k] \subseteq Reach(edges) /\ (<<x, y>> \in w[k] => Last)
    BY <1>1
  <2>2. w[k+1] = Onward(w[k], edges) /\ w[k] \in SUBSET (Tag \X Tag)
    BY <1>1, <1>2, <2>1, WalkSteps, WalkWithin
  <2> HIDE DEF S
  <2>3. \A a, b \in Tag : <<a, b>> \in w[k+1] <=>
           <<a, b>> \in w[k] \/ \E p \in Tag : <<a, p>> \in w[k] /\ <<p, b>> \in edges
    <3>1. \A a, b \in Tag : <<a, b>> \in Onward(w[k], edges) <=>
             <<a, b>> \in w[k] \/ \E p \in Tag : <<a, p>> \in w[k] /\ <<p, b>> \in edges
      BY <2>2, OnwardTags
    <3>2. QED
      BY <2>2, <3>1
  <2>4. w[k+1] \in SUBSET (Tag \X Tag)
    BY <2>2, OnwardStep
  <2>5. ASSUME NEW a \in Tag, NEW b \in Tag, <<a, b>> \in w[k+1] PROVE <<a, b>> \in Reach(edges)
    <3>1. CASE <<a, b>> \in w[k]
      BY <2>1, <3>1
    <3>2. ASSUME NEW q \in Tag, <<a, q>> \in w[k], <<q, b>> \in edges
          PROVE  <<a, b>> \in Reach(edges)
      BY <2>1, <3>2, ReachIsClosed
    <3>3. QED
      BY <2>3, <2>5, <3>1, <3>2
  <2>6. w[k+1] \subseteq Reach(edges)
    BY <2>4, <2>5
  <2>7. <<x, y>> \in w[k+1] => Last
    BY <2>1, <2>3 DEF Last
  <2>8. QED
    BY <2>6, <2>7
<1> HIDE DEF S
<1>5. S = Nat
  BY <1>3, <1>4, SetInduction DEF S
<1>6. Last
  BY <1>1, <1>2, <1>5 DEF S
<1>7. QED
  BY <1>6 DEF Last

(* A path from the end of a path is a path from its beginning.             *)
LEMMA ReachTransitive ==
    ASSUME NEW edges \in SUBSET (Tag \X Tag), NEW x \in Tag, NEW y \in Tag,
           <<x, y>> \in Reach(edges)
    PROVE  \A z \in Tag : <<y, z>> \in Reach(edges) => <<x, z>> \in Reach(edges)
<1> DEFINE N == Cardinality(Tag)
<1>1. N \in Nat
  BY TagsAssumption, FS_CardinalityType
<1>2. PICK w : IsWalk(w, edges, N) /\ Reach(edges) = w[N]
  BY ReachIsWalk
<1> DEFINE S == {k \in Nat : k <= N =>
                    \A z \in Tag : <<y, z>> \in w[k] => <<x, z>> \in Reach(edges)}
<1> HIDE DEF N
<1>3. 0 \in S
  <2>1. w[0] = edges
    BY <1>1, <1>2, WalkSteps
  <2>2. QED
    BY <2>1, ReachIsClosed
<1>4. ASSUME NEW k \in S PROVE k + 1 \in S
  <2> SUFFICES ASSUME k + 1 <= N, NEW z \in Tag, <<y, z>> \in w[k+1]
               PROVE  <<x, z>> \in Reach(edges)
    OBVIOUS
  <2>1. k \in 0 .. N /\ \A q \in Tag : <<y, q>> \in w[k] => <<x, q>> \in Reach(edges)
    BY <1>1
  <2>2. w[k+1] = Onward(w[k], edges) /\ w[k] \in SUBSET (Tag \X Tag)
    BY <1>1, <1>2, <2>1, WalkSteps, WalkWithin
  <2>3. <<y, z>> \in w[k] \/ \E p \in Tag : <<y, p>> \in w[k] /\ <<p, z>> \in edges
    BY <2>2, OnwardTags
  <2>4. QED
    BY <2>1, <2>3, ReachIsClosed
<1> HIDE DEF S
<1>5. S = Nat
  BY <1>3, <1>4, SetInduction DEF S
<1>6. QED
  BY <1>1, <1>2, <1>5 DEF S

-----------------------------------------------------------------------------
(* The inductive invariant.                                                *)

Word == {None, "manual", "confirmed", "rejected"}
Saying == {None, "yes", "no"}

(* What the writing half of a transaction relies on in what it has read.   *)
RequestOK(r) ==
    /\ r.op \in {"apply", "confirm", "reject", "remove"} => r.file \in File /\ r.tag \in Tag
    /\ r.op = "merge" => /\ r.from \in Tag /\ r.into \in Tag /\ r.from # r.into
                         /\ r.words \in [File -> Word \X Word]
    /\ r.op = "create" => r.name \in Name
    /\ r.op = "rename" => r.tag \in Tag /\ r.name \in Name /\ r.own \in Name
    /\ r.op = "aliases" => r.tag \in Tag
    /\ r.op = "parents" => r.tag \in Tag /\ r.add \subseteq Tag
    /\ r.op = "shelve" => r.row \in Folder \X Tag
    /\ r.op = "claims" => r.run \in Run /\ r.name \in Name
    /\ r.op = "delete" => r.tag \in Tag
    /\ r.op = "review" => r.tag \in Tag /\ r.status \in Status

RequestsOK == DOMAIN tx = Session /\ \A s \in Session : RequestOK(tx[s])

RowsOK ==
    /\ tag \in [Tag -> Status \cup {"unborn", "gone"}]
    /\ word \in [File -> [Tag -> Word]]
    /\ said \in [File -> [Tag -> Saying]]

(* file_tag.tag_id refers to a tag that is there.                          *)
WordsHaveTags == \A f \in File, t \in Tag : word[f][t] # None => Exists(t)

(* What is stored is what was last said.                                   *)
Expresses(w, what) ==
    /\ what = "yes" <=> w \in Applied
    /\ what = "no" <=> w = "rejected"

WordIsSaid == \A f \in File, t \in Tag :
    <<f, t>> \notin raced => Expresses(word[f][t], said[f][t])

TagsIInv == RequestsOK /\ RowsOK /\ WordsHaveTags /\ WordIsSaid

-----------------------------------------------------------------------------
(* Steps that write no person's word.                                      *)

LEMMA IdleIsOK == RequestOK(Idle)
BY DEF RequestOK, Idle

LEMMA RequestSteps ==
    ASSUME RequestsOK, NEW s \in Session, NEW r, RequestOK(r), tx' = [tx EXCEPT ![s] = r]
    PROVE  RequestsOK'
BY DEF RequestsOK

LEMMA Elsewhere ==
    ASSUME TagsIInv, UNCHANGED curation, RequestsOK',
           tag' \in [Tag -> Status \cup {"unborn", "gone"}],
           \A t \in Tag : Exists(t) => Exists(t)'
    PROVE  TagsIInv'
<1>1. UNCHANGED <<word, said, raced>>
  BY DEF curation
<1>2. RowsOK' /\ WordsHaveTags' /\ WordIsSaid'
  BY <1>1 DEF TagsIInv, RowsOK, WordsHaveTags, WordIsSaid
<1>3. QED
  BY <1>2 DEF TagsIInv

(* A transaction that only reads, or that ends without a write.            *)
LEMMA ReadStep ==
    ASSUME TagsIInv, NEW s \in Session, NEW r, RequestOK(r), tx' = [tx EXCEPT ![s] = r],
           UNCHANGED stored
    PROVE  TagsIInv'
<1>1. UNCHANGED <<tag, curation>>
  BY DEF stored
<1>2. RequestsOK'
  BY RequestSteps DEF TagsIInv
<1>3. QED
  BY <1>1, <1>2, Elsewhere DEF TagsIInv, RowsOK, Exists

LEMMA AskStep ==
    ASSUME TagsIInv, NEW s \in Session,
           \/ Create(s) \/ Rename(s) \/ SetAliases(s) \/ SetParents(s) \/ DeleteTag(s) \/ Review(s)
           \/ Apply(s) \/ Confirm(s) \/ Remove(s) \/ TagFolder(s) \/ UntagFolder(s)
           \/ ApplyClaims(s) \/ Rollback(s)
    PROVE  TagsIInv'
<1>1. CASE Create(s)
  BY <1>1, ReadStep DEF Create, Ask, Read, RequestOK
<1>2. CASE Rename(s)
  BY <1>2, ReadStep DEF Rename, Canonical, Ask, Read, RequestOK
<1>3. CASE SetAliases(s)
  BY <1>3, ReadStep DEF SetAliases, Ask, Read, RequestOK
<1>4. CASE SetParents(s)
  BY <1>4, ReadStep DEF SetParents, Ask, Read, RequestOK
<1>5. CASE DeleteTag(s)
  BY <1>5, ReadStep DEF DeleteTag, Ask, Read, RequestOK
<1>6. CASE Review(s)
  BY <1>6, ReadStep DEF Review, Ask, Read, RequestOK, Status
<1>7. CASE Apply(s)
  BY <1>7, ReadStep DEF Apply, Speaking, Ask, Read, RequestOK
<1>8. CASE Confirm(s)
  BY <1>8, ReadStep DEF Confirm, Speaking, Ask, Read, RequestOK
<1>9. CASE Remove(s)
  BY <1>9, ReadStep DEF Remove, Speaking, Ask, Read, RequestOK
<1>10. CASE TagFolder(s)
  BY <1>10, ReadStep DEF TagFolder, Ask, Read, RequestOK
<1>11. CASE UntagFolder(s)
  BY <1>11, ReadStep DEF UntagFolder, Ask, Read, RequestOK
<1>12. CASE ApplyClaims(s)
  BY <1>12, ReadStep DEF ApplyClaims, Read, RequestOK
<1>13. CASE Rollback(s)
  BY <1>13, ReadStep, IdleIsOK DEF Rollback
<1>14. QED
  BY <1>1, <1>2, <1>3, <1>4, <1>5, <1>6, <1>7, <1>8, <1>9, <1>10, <1>11, <1>12, <1>13

LEMMA MergeBegins ==
    ASSUME TagsIInv, NEW s \in Session, Merge(s)
    PROVE  TagsIInv'
<1>1. PICK from \in Tag, into \in Tag :
        /\ from # into
        /\ Ask(s, [op |-> "merge", from |-> from, into |-> into,
                   names |-> Spellings(from),
                   words |-> [f \in File |-> <<word[f][from], word[f][into]>>],
                   claims |-> {c \in claim : c[2] = from},
                   shelves |-> {x \in shelf : x[2] = from}])
  BY DEF Merge
<1>2. [f \in File |-> <<word[f][from], word[f][into]>>] \in [File -> Word \X Word]
  BY DEF TagsIInv, RowsOK
<1>3. QED
  BY <1>1, <1>2, ReadStep DEF Ask, Read, RequestOK

(* Commits that touch names, the graph, shelves or claims: a tag that is   *)
(* there stays there.                                                      *)
LEMMA CommitElsewhere ==
    ASSUME TagsIInv, NEW s \in Session,
           \/ CommitCreate(s) \/ CommitRename(s) \/ CommitAliases(s) \/ CommitParents(s)
           \/ CommitReview(s) \/ CommitTagFolder(s) \/ CommitUntagFolder(s) \/ CommitClaims(s)
    PROVE  TagsIInv'
<1>1. UNCHANGED curation
  BY DEF CommitCreate, CommitRename, CommitAliases, CommitParents, CommitReview,
         CommitTagFolder, CommitUntagFolder, CommitClaims
<1>2. tx' = [tx EXCEPT ![s] = Idle]
  BY DEF CommitCreate, CommitRename, CommitAliases, CommitParents, CommitReview,
         CommitTagFolder, CommitUntagFolder, CommitClaims, Write
<1>3. RequestsOK'
  BY <1>2, RequestSteps, IdleIsOK DEF TagsIInv
<1>4. \/ UNCHANGED tag
      \/ \E t \in Tag, status \in Status : tag' = [tag EXCEPT ![t] = status]
  <2>1. CASE CommitReview(s)
    <3>1. tx[s].tag \in Tag /\ tx[s].status \in Status
      BY <2>1 DEF CommitReview, Write, TagsIInv, RequestsOK, RequestOK
    <3>2. QED
      BY <2>1, <3>1 DEF CommitReview
  <2>2. CASE ~CommitReview(s)
    BY <2>2 DEF CommitCreate, CommitRename, CommitAliases, CommitParents,
                CommitTagFolder, CommitUntagFolder, CommitClaims, Adding, Status
  <2>3. QED
    BY <2>1, <2>2
<1>5. /\ tag' \in [Tag -> Status \cup {"unborn", "gone"}]
      /\ \A t \in Tag : Exists(t) => Exists(t)'
  BY <1>4 DEF TagsIInv, RowsOK, Exists
<1>6. QED
  BY <1>1, <1>3, <1>5, Elsewhere

-----------------------------------------------------------------------------
(* A person's word.                                                        *)

(* A word on one tag of one file is written or finds no row, and is heard; *)
(* if what is stored then is not what was said, the write has raced.       *)
LEMMA SpokenStep ==
    ASSUME TagsIInv, NEW s \in Session, NEW f \in File, NEW t \in Tag,
           NEW w \in Word, NEW what \in Saying,
           word' = word \/ word' = [word EXCEPT ![f][t] = w],
           said' = [said EXCEPT ![f][t] = what],
           raced \subseteq raced',
           <<f, t>> \notin raced' => word'[f][t] = w,
           Expresses(w, what), w # None => Exists(t),
           UNCHANGED tag, tx' = [tx EXCEPT ![s] = Idle]
    PROVE  TagsIInv'
<1>1. RequestsOK'
  BY RequestSteps, IdleIsOK DEF TagsIInv
<1>2. word \in [File -> [Tag -> Word]] /\ said \in [File -> [Tag -> Saying]]
  BY DEF TagsIInv, RowsOK
<1>3. \A g \in File, u \in Tag :
        /\ word'[g][u] = word[g][u] \/ (g = f /\ u = t /\ word'[g][u] = w)
        /\ said'[g][u] = IF g = f /\ u = t THEN what ELSE said[g][u]
  BY <1>2
<1>4. RowsOK'
  <2>1. [word EXCEPT ![f][t] = w] \in [File -> [Tag -> Word]]
    BY <1>2
  <2>2. said' \in [File -> [Tag -> Saying]]
    BY <1>2
  <2>3. tag' \in [Tag -> Status \cup {"unborn", "gone"}]
    BY DEF TagsIInv, RowsOK
  <2>4. word' \in [File -> [Tag -> Word]]
    BY <1>2, <2>1
  <2>5. QED
    BY <2>2, <2>3, <2>4 DEF RowsOK
<1>5. WordsHaveTags'
  BY <1>3 DEF TagsIInv, WordsHaveTags, Exists
<1>6. WordIsSaid'
  <2> SUFFICES ASSUME NEW g \in File, NEW u \in Tag, <<g, u>> \notin raced'
               PROVE  Expresses(word'[g][u], said'[g][u])
    BY DEF WordIsSaid
  <2>1. CASE g = f /\ u = t
    BY <1>3, <2>1
  <2>2. CASE ~(g = f /\ u = t)
    BY <1>3, <2>2 DEF TagsIInv, WordIsSaid
  <2>3. QED
    BY <2>1, <2>2
<1>7. QED
  BY <1>1, <1>4, <1>5, <1>6 DEF TagsIInv

LEMMA PutStep ==
    ASSUME TagsIInv, NEW s \in Session, tx[s].op \in {"apply", "confirm", "reject"},
           NEW w \in Word \ {None}, NEW what \in Saying, Expresses(w, what),
           Put(tx[s], w), Heard(tx[s], what),
           UNCHANGED tag, tx' = [tx EXCEPT ![s] = Idle]
    PROVE  TagsIInv'
<1> DEFINE f == tx[s].file
           t == tx[s].tag
<1>1. f \in File /\ t \in Tag /\ word \in [File -> [Tag -> Word]]
  BY DEF TagsIInv, RequestsOK, RequestOK, RowsOK
<1>2. /\ word' = word \/ word' = [word EXCEPT ![f][t] = w]
      /\ Exists(t)
  BY DEF Put
<1>3. /\ said' = [said EXCEPT ![f][t] = what]
      /\ raced \subseteq raced'
      /\ <<f, t>> \notin raced' => word[f][t] = tx[s].read
  BY DEF Heard
<1>4. <<f, t>> \notin raced' => word'[f][t] = w
  <2> SUFFICES ASSUME <<f, t>> \notin raced' PROVE word'[f][t] = w
    OBVIOUS
  <2>1. word' = [word EXCEPT ![f][t] = w]
    BY <1>3 DEF Put
  <2>2. QED
    BY <1>1, <2>1
<1> HIDE DEF f, t
<1>5. QED
  BY <1>1, <1>2, <1>3, <1>4, SpokenStep

LEMMA SpeakStep ==
    ASSUME TagsIInv, NEW s \in Session,
           CommitApply(s) \/ CommitConfirm(s) \/ CommitReject(s) \/ CommitRemove(s)
    PROVE  TagsIInv'
<1>1. UNCHANGED tag /\ tx' = [tx EXCEPT ![s] = Idle]
  BY DEF CommitApply, CommitConfirm, CommitReject, CommitRemove, Write
<1>2. /\ Expresses("manual", "yes") /\ Expresses("confirmed", "yes")
      /\ Expresses("rejected", "no") /\ Expresses(None, None)
  BY TagsAssumption DEF Expresses, Applied
<1>3. CASE CommitApply(s)
  BY <1>1, <1>2, <1>3, PutStep, TagsAssumption DEF CommitApply, Write, Word, Saying
<1>4. CASE CommitConfirm(s)
  BY <1>1, <1>2, <1>4, PutStep, TagsAssumption DEF CommitConfirm, Write, Word, Saying
<1>5. CASE CommitReject(s)
  BY <1>1, <1>2, <1>5, PutStep, TagsAssumption DEF CommitReject, Write, Word, Saying
<1>6. CASE CommitRemove(s)
  <2> DEFINE f == tx[s].file
             t == tx[s].tag
  <2>1. f \in File /\ t \in Tag /\ word \in [File -> [Tag -> Word]]
    BY <1>6 DEF CommitRemove, Write, TagsIInv, RequestsOK, RequestOK, RowsOK
  <2>2. /\ word' = [word EXCEPT ![f][t] = None]
        /\ said' = [said EXCEPT ![f][t] = None]
        /\ raced \subseteq raced'
    BY <1>6 DEF CommitRemove, Heard
  <2>3. word'[f][t] = None
    BY <2>1, <2>2
  <2> HIDE DEF f, t
  <2>4. QED
    BY <1>1, <1>2, <2>1, <2>2, <2>3, SpokenStep DEF Word, Saying
<1>7. QED
  BY <1>3, <1>4, <1>5, <1>6

-----------------------------------------------------------------------------
(* A tag goes, and its words with it or to another tag.                    *)

LEMMA DeleteStep ==
    ASSUME TagsIInv, NEW s \in Session, CommitDelete(s)
    PROVE  TagsIInv'
<1> DEFINE t == tx[s].tag
<1>1. t \in Tag
  BY DEF CommitDelete, Write, TagsIInv, RequestsOK, RequestOK
<1>2. /\ tx' = [tx EXCEPT ![s] = Idle]
      /\ tag' = [tag EXCEPT ![t] = "gone"]
      /\ word' = [f \in File |-> [word[f] EXCEPT ![t] = None]]
      /\ raced' = raced \cup {<<f, t>> : f \in {g \in File : word[g][t] # None}}
      /\ UNCHANGED said
  BY DEF CommitDelete, Write
<1> HIDE DEF t
<1>3. RequestsOK'
  BY <1>2, RequestSteps, IdleIsOK DEF TagsIInv
<1>4. /\ tag \in [Tag -> Status \cup {"unborn", "gone"}]
      /\ word \in [File -> [Tag -> Word]]
  BY DEF TagsIInv, RowsOK
<1>5. \A f \in File, u \in Tag : word'[f][u] = IF u = t THEN None ELSE word[f][u]
  BY <1>2, <1>4
<1>6. RowsOK'
  BY <1>2, <1>4 DEF TagsIInv, RowsOK, Word
<1>7. WordsHaveTags'
  BY <1>1, <1>2, <1>4, <1>5 DEF TagsIInv, WordsHaveTags, Exists
<1>8. WordIsSaid'
  <2> SUFFICES ASSUME NEW f \in File, NEW u \in Tag, <<f, u>> \notin raced'
               PROVE  Expresses(word'[f][u], said[f][u])
    BY <1>2 DEF WordIsSaid
  <2>1. <<f, u>> \notin raced /\ word'[f][u] = word[f][u]
    BY <1>2, <1>5
  <2>2. QED
    BY <2>1 DEF TagsIInv, WordIsSaid
<1>9. QED
  BY <1>3, <1>6, <1>7, <1>8 DEF TagsIInv

(* Of two words that were read as they stand, the one that survives says   *)
(* what the stronger of the two said.                                      *)
LEMMA StrongerStands ==
    ASSUME NEW r, NEW f \in File, r.from \in Tag, r.into \in Tag,
           word \in [File -> [Tag -> Word]],
           r.words[f] = <<word[f][r.from], word[f][r.into]>>,
           NEW x \in Saying, NEW y \in Saying,
           Expresses(word[f][r.from], x), Expresses(word[f][r.into], y)
    PROVE  Expresses(Stands(r, f), Strongest(x, y))
<1> DEFINE source == word[f][r.from]
           target == word[f][r.into]
<1>1. /\ source \in Word /\ target \in Word
      /\ r.words[f][1] = source /\ r.words[f][2] = target
  OBVIOUS
<1>2. Stands(r, f) =
        IF source # None /\ target = None THEN source
        ELSE IF source # None /\ target # None /\ Rank(source) > Rank(target)
        THEN source ELSE target
  BY <1>1 DEF Stands
<1> HIDE DEF source, target
<1>3. Rank("confirmed") = 2 /\ Rank("manual") = 1 /\ Rank("rejected") = 0
  BY DEF Rank
<1>4. Expresses(source, x) /\ Expresses(target, y)
  BY DEF source, target
<1>5. QED
  BY <1>1, <1>2, <1>3, <1>4, TagsAssumption
     DEF Expresses, Strongest, Word, Saying, Applied

LEMMA MergeStep ==
    ASSUME TagsIInv, NEW s \in Session, CommitMerge(s)
    PROVE  TagsIInv'
<1> DEFINE r == tx[s]
<1>1. /\ r.from \in Tag /\ r.into \in Tag /\ r.from # r.into
      /\ r.words \in [File -> Word \X Word]
  BY DEF CommitMerge, Write, TagsIInv, RequestsOK, RequestOK
<1>2. /\ tx' = [tx EXCEPT ![s] = Idle]
      /\ Exists(r.into)
      /\ tag' = [tag EXCEPT ![r.from] = "gone"]
      /\ word' = [f \in File |-> [word[f] EXCEPT ![r.into] = Stands(r, f), ![r.from] = None]]
      /\ said' = [f \in File |-> [said[f] EXCEPT ![r.from] = None,
                      ![r.into] = Strongest(said[f][r.from], said[f][r.into])]]
      /\ raced' = raced \cup {<<f, r.into>> : f \in {g \in File :
                      \/ r.words[g] # <<word[g][r.from], word[g][r.into]>>
                      \/ <<g, r.from>> \in raced}}
  BY DEF CommitMerge, Write
<1> HIDE DEF r
<1>3. /\ tag \in [Tag -> Status \cup {"unborn", "gone"}]
      /\ word \in [File -> [Tag -> Word]] /\ said \in [File -> [Tag -> Saying]]
  BY DEF TagsIInv, RowsOK
<1>4. RequestsOK'
  BY <1>2, RequestSteps, IdleIsOK DEF TagsIInv
<1>5. \A f \in File : Stands(r, f) \in Word /\ Strongest(said[f][r.from], said[f][r.into]) \in Saying
  <2>1. \A f \in File : /\ r.words[f][1] \in Word /\ word[f][r.from] \in Word
                        /\ word[f][r.into] \in Word
    BY <1>1, <1>3
  <2>2. QED
    BY <2>1 DEF Stands, Strongest, Saying
<1>6. \A f \in File, u \in Tag :
        /\ word'[f][u] = IF u = r.from THEN None
                         ELSE IF u = r.into THEN Stands(r, f) ELSE word[f][u]
        /\ said'[f][u] = IF u = r.from THEN None
                         ELSE IF u = r.into THEN Strongest(said[f][r.from], said[f][r.into])
                         ELSE said[f][u]
  BY <1>1, <1>2, <1>3
<1>7. RowsOK'
  <2>1. word' \in [File -> [Tag -> Word]]
    BY <1>2, <1>3, <1>5 DEF Word
  <2>2. said' \in [File -> [Tag -> Saying]]
    BY <1>2, <1>3, <1>5 DEF Saying
  <2>3. QED
    BY <1>2, <1>3, <2>1, <2>2 DEF RowsOK
<1>8. WordsHaveTags'
  BY <1>1, <1>2, <1>3, <1>6 DEF TagsIInv, WordsHaveTags, Exists
<1>9. WordIsSaid'
  <2> SUFFICES ASSUME NEW f \in File, NEW u \in Tag, <<f, u>> \notin raced'
               PROVE  Expresses(word'[f][u], said'[f][u])
    BY DEF WordIsSaid
  <2>1. <<f, u>> \notin raced
    BY <1>2
  <2>2. CASE u = r.from
    BY <1>6, <2>2, TagsAssumption DEF Expresses, Applied
  <2>3. CASE u = r.into
    <3>1. /\ r.words[f] = <<word[f][r.from], word[f][r.into]>>
          /\ <<f, r.from>> \notin raced
      BY <1>2, <2>3
    <3>2. /\ Expresses(word[f][r.from], said[f][r.from])
          /\ Expresses(word[f][r.into], said[f][r.into])
      BY <1>1, <2>1, <2>3, <3>1 DEF TagsIInv, WordIsSaid
    <3>3. said[f][r.from] \in Saying /\ said[f][r.into] \in Saying
      BY <1>1, <1>3
    <3>4. Expresses(Stands(r, f), Strongest(said[f][r.from], said[f][r.into]))
      BY <1>1, <1>3, <3>1, <3>2, <3>3, StrongerStands
    <3>5. QED
      BY <1>1, <1>6, <2>3, <3>4
  <2>4. CASE u # r.from /\ u # r.into
    BY <1>6, <2>1, <2>4 DEF TagsIInv, WordIsSaid
  <2>5. QED
    BY <2>2, <2>3, <2>4
<1>10. QED
  BY <1>4, <1>7, <1>8, <1>9 DEF TagsIInv

-----------------------------------------------------------------------------
LEMMA InitTags == Init => TagsIInv
<1> SUFFICES ASSUME Init PROVE TagsIInv
  OBVIOUS
<1>1. RequestsOK
  BY IdleIsOK DEF Init, RequestsOK
<1>2. RowsOK
  BY DEF Init, RowsOK, Word, Saying, Status
<1>3. WordsHaveTags
  BY DEF Init, WordsHaveTags
<1>4. WordIsSaid
  BY TagsAssumption DEF Init, WordIsSaid, Expresses, Applied
<1>5. QED
  BY <1>1, <1>2, <1>3, <1>4 DEF TagsIInv

LEMMA NextTags == TagsIInv /\ [Next]_vars => TagsIInv'
<1> SUFFICES ASSUME TagsIInv, [Next]_vars PROVE TagsIInv'
  OBVIOUS
<1>1. CASE UNCHANGED vars
  BY <1>1 DEF vars, TagsIInv, RequestsOK, RowsOK, WordsHaveTags, WordIsSaid, Exists
<1>2. ASSUME NEW s \in Session, Vocabulary(s) PROVE TagsIInv'
  BY <1>2, AskStep, MergeBegins, CommitElsewhere, DeleteStep, MergeStep DEF Vocabulary
<1>3. ASSUME NEW s \in Session, Tagging(s) PROVE TagsIInv'
  BY <1>3, AskStep, CommitElsewhere, SpeakStep DEF Tagging
<1>4. ASSUME NEW s \in Session, Rollback(s) PROVE TagsIInv'
  BY <1>4, AskStep
<1>5. CASE Reuse \/ NewVersion
  <2>1. UNCHANGED <<tag, curation, tx>>
    BY <1>5 DEF Reuse, NewVersion
  <2>2. QED
    BY <2>1, Elsewhere DEF TagsIInv, RequestsOK, RowsOK, Exists
<1>6. QED
  BY <1>1, <1>2, <1>3, <1>4, <1>5 DEF Next

(* What a row says is what its person said last, for as long as no write   *)
(* rested on a row that had changed; and words are about tags that exist.  *)
THEOREM Invariance == Spec => []TagsIInv
<1>1. QED
  BY InitTags, NextTags, PTL DEF Spec

(* A person decides what is on a file: what was put there or confirmed is  *)
(* shown and what was rejected is not, through merges, deletions, reviews, *)
(* new versions and the claims of whatever runs.                           *)
THEOREM PersonDecides == Spec => []UserDecides
<1>1. TagsIInv => UserDecides
  <2> SUFFICES ASSUME TagsIInv, NEW f \in File, NEW t \in Tag, <<f, t>> \notin raced,
                      Exists(t) => Found(t)
               PROVE  /\ said[f][t] = "yes" => t \in Shown(f)
                      /\ said[f][t] = "no" => t \notin Shown(f)
    BY DEF UserDecides
  <2>1. Expresses(word[f][t], said[f][t])
    BY DEF TagsIInv, WordIsSaid
  <2>2. word[f][t] \in Applied => word[f][t] # None
    BY TagsAssumption DEF Applied
  <2>3. word[f][t] # None => Found(t)
    BY DEF TagsIInv, WordsHaveTags
  <2>4. said[f][t] = "yes" => t \in Shown(f)
    BY <2>1, <2>2, <2>3 DEF Expresses, Shown
  <2>5. said[f][t] = "no" => t \notin Shown(f)
    BY <2>1, TagsAssumption DEF Expresses, Shown, Applied
  <2>6. QED
    BY <2>4, <2>5
<1>2. QED
  BY <1>1, Invariance, PTL

-----------------------------------------------------------------------------
(* The rows of the vocabulary, and what refers to them.                    *)

(* The edges close no loop, and the closure is what the last rebuild saw.  *)
GraphOK ==
    /\ edge \in SUBSET (Born \X Born)
    /\ Insertable(edge)
    /\ closure = Rebuilt(edge, Born)

(* A name resolves to a tag that is there, of which it is at most once the *)
(* tag's own.                                                              *)
NameRow(tags) == {Row(t, b) : t \in tags, b \in BOOLEAN}

NamesOK ==
    /\ name \in [Name -> {None} \cup NameRow(Born)]
    /\ \A t \in Tag : \A n, m \in Name :
          name[n] = Row(t, FALSE) /\ name[m] = Row(t, FALSE) => n = m

CarriersOK ==
    /\ claim \subseteq Run \X Born
    /\ shelf \subseteq Folder \X Born
    /\ done \subseteq Run
    /\ \A c \in claim : c[1] \in done

CountsOK ==
    /\ current \in [File -> Version]
    /\ begun \in 0 .. MaxRequests
    /\ raced \subseteq File \X Tag

KeysIInv == TagsIInv /\ GraphOK /\ NamesOK /\ CarriersOK /\ CountsOK

(* A row determines its tag and whether the name is a synonym.             *)
LEMMA RowOfTag ==
    ASSUME NEW t, NEW u
    PROVE  /\ Row(t, FALSE) = Row(u, FALSE) => t = u
           /\ Row(t, TRUE) = Row(u, TRUE) => t = u
           /\ Row(t, TRUE) # Row(u, FALSE)
<1>1. Row(t, TRUE).alias # Row(u, FALSE).alias
  BY DEF Row
<1>2. QED
  BY <1>1 DEF Row

LEMMA RowIsRow ==
    ASSUME NEW t \in Tag
    PROVE  None # Row(t, FALSE) /\ None # Row(t, TRUE)
<1>1. Row(t, FALSE) \in [tag : Tag, alias : BOOLEAN] /\ Row(t, TRUE) \in [tag : Tag, alias : BOOLEAN]
  BY DEF Row
<1>2. QED
  BY <1>1, TagsAssumption

LEMMA NameRows ==
    ASSUME NEW tags, NEW x
    PROVE  x \in NameRow(tags) <=> \E t \in tags : x = Row(t, FALSE) \/ x = Row(t, TRUE)
<1>1. ASSUME x \in NameRow(tags) PROVE \E t \in tags : x = Row(t, FALSE) \/ x = Row(t, TRUE)
  <2>1. PICK t \in tags, b \in BOOLEAN : x = Row(t, b)
    BY <1>1 DEF NameRow
  <2>2. b = TRUE \/ b = FALSE
    OBVIOUS
  <2>3. CASE b = TRUE
    BY <2>1, <2>3
  <2>4. CASE b = FALSE
    BY <2>1, <2>4
  <2>5. QED
    BY <2>2, <2>3, <2>4
<1>2. ASSUME NEW t \in tags, NEW b \in BOOLEAN, x = Row(t, b) PROVE x \in NameRow(tags)
  BY <1>2 DEF NameRow
<1>3. QED
  BY <1>1, <1>2

LEMMA KeptRow ==
    ASSUME NEW tags, NEW x \in {None} \cup NameRow(tags)
    PROVE  \/ x = None
           \/ \E t \in tags : x = Row(t, FALSE) \/ x = Row(t, TRUE)
BY NameRows

(* The graph under the steps that write it.                                *)
LEMMA RebuiltGraph ==
    ASSUME NEW tags \in SUBSET Tag, NEW edges \in SUBSET (tags \X tags)
    PROVE  Reach(edges) \in SUBSET (tags \X tags) /\ Rebuilt(edges, tags) \in SUBSET (tags \X tags)
<1>1. Reach(edges) \in SUBSET (tags \X tags)
  BY ReachWithin
<1>2. QED
  BY <1>1 DEF Rebuilt

LEMMA GraphStays ==
    ASSUME GraphOK, Born' = Born, UNCHANGED graph
    PROVE  GraphOK'
BY DEF GraphOK, graph, Insertable, Rebuilt

(* A new tag brings its name and its own row of the closure.               *)
LEMMA AddingKeys ==
    ASSUME KeysIInv, NEW t \in Tag, NEW n \in Name, NEW status \in {"active", "suggested"},
           Adding(t, n, status), UNCHANGED edge
    PROVE  GraphOK' /\ NamesOK' /\ Born' = Born \cup {t}
<1>1. tag' = [tag EXCEPT ![t] = status] /\ tag \in [Tag -> Status \cup {"unborn", "gone"}]
      /\ tag[t] = "unborn"
  BY DEF Adding, KeysIInv, TagsIInv, RowsOK
<1>2. \A u \in Tag : Exists(u)' <=> Exists(u) \/ u = t
  BY <1>1 DEF Exists, Status
<1>3. Born' = Born \cup {t} /\ t \notin Born
  BY <1>1, <1>2 DEF Born, Exists, Status
<1>4. GraphOK'
  <2>1. edge' \in SUBSET (Born' \X Born') /\ Insertable(edge')
    BY <1>3 DEF KeysIInv, GraphOK, Insertable
  <2>2. closure' = Rebuilt(edge', Born')
    BY <1>3 DEF KeysIInv, GraphOK, Rebuilt, Adding
  <2>3. QED
    BY <2>1, <2>2 DEF GraphOK
<1>5. name' = [name EXCEPT ![n] = Row(t, FALSE)]
  BY DEF Adding
<1>6. name' \in [Name -> {None} \cup NameRow(Born')]
  <2>1. NameRow(Born) \subseteq NameRow(Born')
    BY <1>3 DEF NameRow
  <2>2. Row(t, FALSE) \in NameRow(Born')
    BY <1>3, NameRows
  <2>3. name \in [Name -> {None} \cup NameRow(Born)]
    BY DEF KeysIInv, NamesOK
  <2>4. \A m \in Name : name'[m] \in {None} \cup NameRow(Born')
    BY <1>5, <2>1, <2>2, <2>3
  <2>5. QED
    BY <1>5, <2>3, <2>4
<1>7. \A m \in Name, u \in Tag : name'[m] = Row(u, FALSE) <=>
          IF m = n THEN u = t ELSE name[m] = Row(u, FALSE)
  BY <1>5, RowOfTag DEF KeysIInv, NamesOK
<1>8. \A m \in Name : name[m] # Row(t, FALSE)
  <2> TAKE m \in Name
  <2>1. name[m] = None \/ name[m] \in NameRow(Born)
    BY DEF KeysIInv, NamesOK
  <2>2. CASE name[m] = None
    BY <2>2, RowIsRow
  <2>3. CASE name[m] \in NameRow(Born)
    <3>1. PICK u \in Born : name[m] = Row(u, FALSE) \/ name[m] = Row(u, TRUE)
      BY <2>3, NameRows
    <3>2. u # t
      BY <1>3
    <3>3. QED
      BY <3>1, <3>2, RowOfTag
  <2>4. QED
    BY <2>1, <2>2, <2>3
<1>9. \A u \in Tag : \A k, m \in Name :
          name'[k] = Row(u, FALSE) /\ name'[m] = Row(u, FALSE) => k = m
  BY <1>7, <1>8 DEF KeysIInv, NamesOK
<1>10. QED
  BY <1>3, <1>4, <1>6, <1>9 DEF NamesOK

(* Names change hands one way or another; nothing else does.               *)
LEMMA NamesStay ==
    ASSUME NamesOK, Born' = Born, UNCHANGED name
    PROVE  NamesOK'
BY DEF NamesOK

LEMMA RenameKeys ==
    ASSUME KeysIInv, NEW s \in Session, CommitRename(s)
    PROVE  NamesOK'
<1> DEFINE r == tx[s]
<1>1. r.tag \in Tag /\ r.name \in Name /\ r.own \in Name
  BY DEF CommitRename, Write, KeysIInv, TagsIInv, RequestsOK, RequestOK
<1>2. UNCHANGED tag
  BY DEF CommitRename
<1>3. Born' = Born
  BY <1>2 DEF Born, Exists
<1>4. CASE r.name = r.own
  <2>1. UNCHANGED name
    BY <1>4 DEF CommitRename
  <2>2. QED
    BY <1>3, <2>1, NamesStay DEF KeysIInv
<1>5. CASE r.name # r.own
  <2>1. /\ Exists(r.tag) /\ Canonical(r.tag) \subseteq {r.own, r.name}
        /\ name' = [n \in Name |-> IF n = r.name THEN Row(r.tag, FALSE)
                                   ELSE IF n = r.own THEN None ELSE name[n]]
    BY <1>5 DEF CommitRename, Renamed
  <2> HIDE DEF r
  <2>2. name' \in [Name -> {None} \cup NameRow(Born)]
    <3>1. \A n \in Name : name[n] \in {None} \cup NameRow(Born)
      BY DEF KeysIInv, NamesOK
    <3>2. Row(r.tag, FALSE) \in NameRow(Born)
      BY <1>1, <2>1, NameRows DEF Born
    <3>3. QED
      BY <2>1, <3>1, <3>2
  <2>3. \A u \in Tag : None # Row(u, FALSE)
    BY RowIsRow
  <2>4. \A m \in Name, u \in Tag : name'[m] = Row(u, FALSE) =>
            \/ m = r.name /\ u = r.tag
            \/ m # r.name /\ m # r.own /\ name[m] = Row(u, FALSE)
    BY <2>1, <2>3, RowOfTag
  <2>5. \A m \in Name : name[m] = Row(r.tag, FALSE) => m \in {r.own, r.name}
    BY <2>1 DEF Canonical
  <2>6. \A u \in Tag : \A k, m \in Name :
            name[k] = Row(u, FALSE) /\ name[m] = Row(u, FALSE) => k = m
    BY DEF KeysIInv, NamesOK
  <2>7. \A u \in Tag : \A k, m \in Name :
            name'[k] = Row(u, FALSE) /\ name'[m] = Row(u, FALSE) => k = m
    <3> TAKE u \in Tag
    <3>1. CASE u = r.tag
      <4>1. \A m \in Name : name'[m] = Row(u, FALSE) => m = r.name
        BY <2>4, <2>5, <3>1
      <4>2. QED
        BY <4>1
    <3>2. CASE u # r.tag
      <4>1. \A m \in Name : name'[m] = Row(u, FALSE) => name[m] = Row(u, FALSE)
        BY <2>4, <3>2
      <4>2. QED
        BY <2>6, <4>1
    <3>3. QED
      BY <3>1, <3>2
  <2>8. QED
    BY <1>3, <2>2, <2>7 DEF NamesOK
<1>6. QED
  BY <1>4, <1>5

LEMMA AliasKeys ==
    ASSUME KeysIInv, NEW s \in Session, CommitAliases(s)
    PROVE  NamesOK'
<1> DEFINE r == tx[s]
<1>1. r.tag \in Tag
  BY DEF CommitAliases, Write, KeysIInv, TagsIInv, RequestsOK, RequestOK
<1>2. /\ UNCHANGED tag
      /\ r.add # {} => Exists(r.tag)
      /\ name' = [n \in Name |-> IF n \in r.add THEN Row(r.tag, TRUE)
                                 ELSE IF n \in r.drop THEN None ELSE name[n]]
  BY DEF CommitAliases
<1> HIDE DEF r
<1>3. Born' = Born
  BY <1>2 DEF Born, Exists
<1>4. \A n \in Name : name[n] \in {None} \cup NameRow(Born)
  BY DEF KeysIInv, NamesOK
<1>5. \A n \in Name : n \in r.add => Row(r.tag, TRUE) \in NameRow(Born)
  BY <1>1, <1>2, NameRows DEF Born
<1>6. name' \in [Name -> {None} \cup NameRow(Born)]
  BY <1>2, <1>4, <1>5
<1>7. \A u \in Tag : None # Row(u, FALSE) /\ Row(r.tag, TRUE) # Row(u, FALSE)
  BY RowOfTag, RowIsRow
<1>8. \A m \in Name, u \in Tag : name'[m] = Row(u, FALSE) => name[m] = Row(u, FALSE)
  BY <1>2, <1>7
<1>9. QED
  BY <1>3, <1>6, <1>8 DEF KeysIInv, NamesOK

LEMMA ParentsKeys ==
    ASSUME KeysIInv, NEW s \in Session, CommitParents(s)
    PROVE  GraphOK'
<1> DEFINE r == tx[s]
           added == {<<p, r.tag>> : p \in r.add}
<1>1. r.tag \in Tag /\ r.add \subseteq Tag
  BY DEF CommitParents, Write, KeysIInv, TagsIInv, RequestsOK, RequestOK
<1>2. /\ \A p \in r.add : Exists(p) /\ Exists(r.tag)
      /\ edge' = (edge \ {<<p, r.tag>> : p \in r.drop}) \cup added
      /\ Insertable(edge') /\ closure' = Rebuilt(edge', Born) /\ UNCHANGED tag
  BY DEF CommitParents
<1>3. Born' = Born
  BY <1>2 DEF Born, Exists
<1>4. added \subseteq Born \X Born
  BY <1>1, <1>2 DEF Born
<1> HIDE DEF added
<1>5. edge' \in SUBSET (Born \X Born)
  BY <1>2, <1>4 DEF KeysIInv, GraphOK
<1>6. QED
  BY <1>2, <1>3, <1>5 DEF GraphOK

(* A tag that goes takes its names with it.                                *)
LEMMA GoingKeys ==
    ASSUME KeysIInv, NEW t \in Tag, tag' = [tag EXCEPT ![t] = "gone"],
           DOMAIN name' = Name,
           \A n \in Name : IF n \in Spellings(t)
                           THEN \/ name'[n] = None
                                \/ \E u \in Born \ {t} : name'[n] = Row(u, TRUE)
                           ELSE name'[n] = name[n],
           name' = [n \in Name |-> name'[n]]
    PROVE  NamesOK' /\ Born' = Born \ {t}
<1>1. tag \in [Tag -> Status \cup {"unborn", "gone"}]
  BY DEF KeysIInv, TagsIInv, RowsOK
<1>2. Born' = Born \ {t}
  BY <1>1 DEF Born, Exists, Status
<1>3. \A n \in Name : name[n] \in {None} \cup NameRow(Born)
  BY DEF KeysIInv, NamesOK
<1>4. ASSUME NEW n \in Name
      PROVE  name'[n] \in {None} \cup NameRow(Born')
  <2>1. CASE n \in Spellings(t)
    BY <1>2, <2>1, NameRows
  <2>2. CASE n \notin Spellings(t)
    <3>1. name'[n] = name[n] /\ name[n] # Row(t, TRUE) /\ name[n] # Row(t, FALSE)
      BY <2>2 DEF Spellings, Canonical, Aliases
    <3>2. CASE name[n] = None
      BY <3>1, <3>2
    <3>3. CASE name[n] # None
      <4>1. PICK u \in Born : name[n] = Row(u, FALSE) \/ name[n] = Row(u, TRUE)
        BY <1>3, <3>3, KeptRow
      <4>2. u # t
        BY <3>1, <4>1
      <4>3. name'[n] \in NameRow(Born')
        BY <1>2, <3>1, <4>1, <4>2, NameRows
      <4>4. QED
        BY <4>3
    <3>4. QED
      BY <3>2, <3>3
  <2>3. QED
    BY <2>1, <2>2
<1>5. \A u \in Tag, v \in Tag : None # Row(u, FALSE) /\ Row(v, TRUE) # Row(u, FALSE)
  BY RowOfTag, RowIsRow
<1>6. \A m \in Name, u \in Tag : name'[m] = Row(u, FALSE) => name[m] = Row(u, FALSE)
  <2> TAKE m \in Name, u \in Tag
  <2>1. CASE m \in Spellings(t)
    BY <1>5, <2>1 DEF Born
  <2>2. CASE m \notin Spellings(t)
    BY <2>2
  <2>3. QED
    BY <2>1, <2>2
<1>7. name' \in [Name -> {None} \cup NameRow(Born')]
  BY <1>4
<1>8. \A u \in Tag : \A k, m \in Name :
          name[k] = Row(u, FALSE) /\ name[m] = Row(u, FALSE) => k = m
  BY DEF KeysIInv, NamesOK
<1>9. \A u \in Tag : \A k, m \in Name :
          name'[k] = Row(u, FALSE) /\ name'[m] = Row(u, FALSE) => k = m
  <2> SUFFICES ASSUME NEW u \in Tag, NEW k \in Name, NEW m \in Name,
                      name'[k] = Row(u, FALSE), name'[m] = Row(u, FALSE)
               PROVE  k = m
    OBVIOUS
  <2>1. name[k] = Row(u, FALSE) /\ name[m] = Row(u, FALSE)
    BY <1>6
  <2>2. QED
    BY <1>8, <2>1
<1>10. NamesOK'
  BY <1>7, <1>9 DEF NamesOK
<1>11. QED
  BY <1>2, <1>10

(* A merge hands names, edges, claims and shelves to a tag that stays.     *)
LEMMA MergeKeys ==
    ASSUME KeysIInv, NEW s \in Session, CommitMerge(s)
    PROVE  GraphOK' /\ NamesOK' /\ CarriersOK' /\ raced' \subseteq File \X Tag
<1> DEFINE r == tx[s]
<1>1. r.from \in Tag /\ r.into \in Tag /\ r.from # r.into
  BY DEF CommitMerge, Write, KeysIInv, TagsIInv, RequestsOK, RequestOK
<1>2. /\ Exists(r.from) /\ Exists(r.into)
      /\ tag' = [tag EXCEPT ![r.from] = "gone"]
      /\ name' = [n \in Name |-> IF n \notin Spellings(r.from) THEN name[n]
                                 ELSE IF n \in r.names THEN Synonym(r.into) ELSE None]
      /\ claim' = Repointed(claim, r, r.claims)
      /\ shelf' = Repointed(shelf, r, r.shelves)
      /\ edge' = EdgesMerged(r)
      /\ raced' = raced \cup {<<f, r.into>> : f \in {g \in File :
                       \/ r.words[g] # <<word[g][r.from], word[g][r.into]>>
                       \/ <<g, r.from>> \in raced}}
      /\ Insertable(edge') /\ closure' = Rebuilt(edge', Born \ {r.from})
      /\ UNCHANGED done
  BY DEF CommitMerge
<1> HIDE DEF r
<1>3. r.into \in Born \ {r.from} /\ r.from \in Born
  BY <1>1, <1>2 DEF Born
<1>4. NamesOK' /\ Born' = Born \ {r.from}
  <2>1. DOMAIN name' = Name /\ name' = [n \in Name |-> name'[n]]
    BY <1>2
  <2>2. \A n \in Name : IF n \in Spellings(r.from)
                        THEN \/ name'[n] = None
                             \/ \E u \in Born \ {r.from} : name'[n] = Row(u, TRUE)
                        ELSE name'[n] = name[n]
    BY <1>2, <1>3 DEF Synonym
  <2>3. QED
    BY <1>1, <1>2, <2>1, <2>2, GoingKeys
<1>5. edge' \in SUBSET (Born' \X Born')
  <2>1. edge \in SUBSET (Born \X Born) /\ Insertable(edge)
    BY DEF KeysIInv, GraphOK
  <2>2. edge \subseteq Reach(edge)
    BY <2>1, ReachWithin
  <2>3. <<r.from, r.from>> \notin edge
    BY <1>1, <2>1, <2>2 DEF Insertable
  <2>4. \A p \in Parents(r.from) : p \in Born \ {r.from}
    <3> TAKE p \in Parents(r.from)
    <3>1. PICK e \in edge : e[2] = r.from /\ p = e[1]
      BY DEF Parents
    <3>2. e = <<e[1], e[2]>> /\ e[1] \in Born
      BY <2>1
    <3>3. QED
      BY <2>3, <3>1, <3>2
  <2>5. \A c \in Children(r.from) : c \in Born \ {r.from}
    <3> TAKE c \in Children(r.from)
    <3>1. PICK e \in edge : e[1] = r.from /\ c = e[2]
      BY DEF Children
    <3>2. e = <<e[1], e[2]>> /\ e[2] \in Born
      BY <2>1
    <3>3. QED
      BY <2>3, <3>1, <3>2
  <2>6. \A e \in edge \ Touching(r.from) : e \in (Born \ {r.from}) \X (Born \ {r.from})
    BY <2>1 DEF Touching
  <2>7. EdgesMerged(r) \subseteq (Born \ {r.from}) \X (Born \ {r.from})
    <3> DEFINE Rest == Born \ {r.from}
    <3>1. \A p \in Parents(r.from) : <<p, r.into>> \in Rest \X Rest
      BY <1>3, <2>4
    <3>2. \A c \in Children(r.from) : <<r.into, c>> \in Rest \X Rest
      BY <1>3, <2>5
    <3> HIDE DEF Rest
    <3>3. QED
      BY <2>6, <3>1, <3>2 DEF EdgesMerged, Rest
  <2>8. QED
    BY <1>2, <1>4, <2>7
<1>6. GraphOK'
  BY <1>2, <1>4, <1>5 DEF GraphOK
<1>7. ASSUME NEW K, NEW rows \in SUBSET (K \X Born), NEW seen
      PROVE  /\ Repointed(rows, r, seen) \in SUBSET (K \X (Born \ {r.from}))
             /\ \A y \in Repointed(rows, r, seen) : \E x \in rows : y[1] = x[1]
  BY <1>3 DEF Repointed
<1>8. CarriersOK'
  <2>1. claim \in SUBSET (Run \X Born) /\ shelf \in SUBSET (Folder \X Born)
        /\ done \subseteq Run /\ \A c \in claim : c[1] \in done
    BY DEF KeysIInv, CarriersOK
  <2>2. /\ Repointed(claim, r, r.claims) \in SUBSET (Run \X (Born \ {r.from}))
        /\ \A y \in Repointed(claim, r, r.claims) : \E x \in claim : y[1] = x[1]
    BY <1>7, <2>1
  <2>3. Repointed(shelf, r, r.shelves) \in SUBSET (Folder \X (Born \ {r.from}))
    BY <1>7, <2>1
  <2>4. QED
    BY <1>2, <1>4, <2>1, <2>2, <2>3 DEF CarriersOK
<1>9. raced' \subseteq File \X Tag
  <2>1. \A f \in File : <<f, r.into>> \in File \X Tag
    BY <1>1
  <2>2. raced \subseteq File \X Tag
    BY DEF KeysIInv, CountsOK
  <2>3. QED
    BY <1>2, <2>1, <2>2
<1>10. QED
  BY <1>4, <1>6, <1>8, <1>9

(* A deleted tag takes its edges, claims and shelves with it too; fewer    *)
(* edges close no loop.                                                    *)
LEMMA DeleteKeys ==
    ASSUME KeysIInv, NEW s \in Session, CommitDelete(s)
    PROVE  GraphOK' /\ NamesOK' /\ CarriersOK' /\ raced' \subseteq File \X Tag
<1> DEFINE t == tx[s].tag
           kept == edge \ Touching(t)
<1>1. t \in Tag
  BY DEF CommitDelete, Write, KeysIInv, TagsIInv, RequestsOK, RequestOK
<1>2. /\ tag' = [tag EXCEPT ![t] = "gone"]
      /\ name' = [n \in Name |-> IF n \in Spellings(t) THEN None ELSE name[n]]
      /\ edge' = kept
      /\ closure' = Rebuilt(edge', Born \ {t})
      /\ claim' = {c \in claim : c[2] # t}
      /\ shelf' = {x \in shelf : x[2] # t}
      /\ raced' = raced \cup {<<f, t>> : f \in {g \in File : word[g][t] # None}}
      /\ UNCHANGED done
  BY DEF CommitDelete
<1> HIDE DEF t
<1>3. NamesOK' /\ Born' = Born \ {t}
  <2>1. DOMAIN name' = Name /\ name' = [n \in Name |-> name'[n]]
    BY <1>2
  <2>2. \A n \in Name : IF n \in Spellings(t)
                        THEN \/ name'[n] = None
                             \/ \E u \in Born \ {t} : name'[n] = Row(u, TRUE)
                        ELSE name'[n] = name[n]
    BY <1>2
  <2>3. QED
    BY <1>1, <1>2, <2>1, <2>2, GoingKeys
<1>4. GraphOK'
  <2>1. edge \in SUBSET (Born \X Born) /\ Insertable(edge) /\ edge \in SUBSET (Tag \X Tag)
    BY DEF KeysIInv, GraphOK, Born
  <2>2. \A e \in kept : e \in (Born \ {t}) \X (Born \ {t})
    BY <2>1 DEF Touching
  <2>3. Reach(kept) \subseteq Reach(edge)
    BY <2>1, ReachMonotone
  <2> HIDE DEF kept
  <2>4. Insertable(edge')
    BY <1>2, <2>1, <2>3 DEF Insertable
  <2>5. edge' \in SUBSET (Born' \X Born')
    BY <1>2, <1>3, <2>2
  <2>6. closure' = Rebuilt(edge', Born')
    BY <1>2, <1>3
  <2>7. QED
    BY <2>4, <2>5, <2>6 DEF GraphOK
<1>5. CarriersOK'
  BY <1>2, <1>3 DEF KeysIInv, CarriersOK
<1>6. raced' \subseteq File \X Tag
  BY <1>1, <1>2 DEF KeysIInv, CountsOK
<1>7. QED
  BY <1>3, <1>4, <1>5, <1>6

-----------------------------------------------------------------------------
(* Steps that leave the vocabulary and the graph alone.                    *)

LEMMA VocabularyStays ==
    ASSUME KeysIInv, UNCHANGED <<name, graph>>,
           UNCHANGED tag \/ \E t \in Born, status \in Status : tag' = [tag EXCEPT ![t] = status]
    PROVE  GraphOK' /\ NamesOK' /\ Born' = Born
<1>1. Born' = Born
  <2>1. CASE UNCHANGED tag
    BY <2>1 DEF Born, Exists
  <2>2. ASSUME NEW t \in Born, NEW status \in Status, tag' = [tag EXCEPT ![t] = status]
        PROVE  Born' = Born
    BY <2>2 DEF Born, Exists, KeysIInv, TagsIInv, RowsOK
  <2>3. QED
    BY <2>1, <2>2
<1>2. QED
  BY <1>1, GraphStays, NamesStay DEF KeysIInv

LEMMA RepliesKeys ==
    ASSUME KeysIInv, NEW s \in Session,
           \/ CommitApply(s) \/ CommitConfirm(s) \/ CommitReject(s) \/ CommitRemove(s)
           \/ CommitReview(s) \/ CommitTagFolder(s) \/ CommitUntagFolder(s)
    PROVE  GraphOK' /\ NamesOK' /\ CarriersOK' /\ raced' \subseteq File \X Tag
<1>1. CASE CommitReview(s)
  <2>1. tx[s].tag \in Born /\ tx[s].status \in Status
    BY <1>1 DEF CommitReview, Write, KeysIInv, TagsIInv, RequestsOK, RequestOK, Born
  <2>2. UNCHANGED <<name, graph, shelf, done, raced>> /\ claim' \subseteq claim
        /\ tag' = [tag EXCEPT ![tx[s].tag] = tx[s].status]
    BY <1>1 DEF CommitReview, curation
  <2>3. GraphOK' /\ NamesOK' /\ Born' = Born
    BY <2>1, <2>2, VocabularyStays
  <2>4. QED
    BY <2>2, <2>3 DEF KeysIInv, CarriersOK, CountsOK
<1>2. CASE CommitTagFolder(s) \/ CommitUntagFolder(s)
  <2>1. UNCHANGED <<tag, name, graph, claim, done, raced>>
    BY <1>2 DEF CommitTagFolder, CommitUntagFolder, curation
  <2>2. GraphOK' /\ NamesOK' /\ Born' = Born
    BY <2>1, VocabularyStays
  <2>3. shelf' \subseteq Folder \X Born
    <3>1. CASE CommitTagFolder(s)
      <4>1. tx[s].row \in Folder \X Tag
        BY <3>1 DEF CommitTagFolder, Write, KeysIInv, TagsIInv, RequestsOK, RequestOK
      <4>2. tx[s].row \in Folder \X Born
        BY <3>1, <4>1 DEF CommitTagFolder, Born
      <4>3. QED
        BY <3>1, <4>2 DEF CommitTagFolder, KeysIInv, CarriersOK
    <3>2. CASE CommitUntagFolder(s)
      BY <3>2 DEF CommitUntagFolder, KeysIInv, CarriersOK
    <3>3. QED
      BY <1>2, <3>1, <3>2
  <2>4. QED
    BY <2>1, <2>2, <2>3 DEF KeysIInv, CarriersOK, CountsOK
<1>3. CASE CommitApply(s) \/ CommitConfirm(s) \/ CommitReject(s) \/ CommitRemove(s)
  <2>1. UNCHANGED <<tag, name, graph, shelf, done>> /\ claim' \subseteq claim
    BY <1>3 DEF CommitApply, CommitConfirm, CommitReject, CommitRemove
  <2>2. GraphOK' /\ NamesOK' /\ Born' = Born
    BY <2>1, VocabularyStays
  <2>3. tx[s].file \in File /\ tx[s].tag \in Tag
    BY <1>3 DEF CommitApply, CommitConfirm, CommitReject, CommitRemove, Write,
                KeysIInv, TagsIInv, RequestsOK, RequestOK
  <2>4. raced' \subseteq raced \cup {<<tx[s].file, tx[s].tag>>}
    BY <1>3 DEF CommitApply, CommitConfirm, CommitReject, CommitRemove, Heard
  <2>5. QED
    BY <2>1, <2>2, <2>3, <2>4 DEF KeysIInv, CarriersOK, CountsOK
<1>4. QED
  BY <1>1, <1>2, <1>3

(* An envelope's label claims a tag that is there or that it creates.      *)
LEMMA ClaimsKeys ==
    ASSUME KeysIInv, NEW s \in Session, CommitClaims(s)
    PROVE  GraphOK' /\ NamesOK' /\ CarriersOK' /\ raced' \subseteq File \X Tag
<1> DEFINE r == tx[s]
           kept == {c \in claim : c[1] # r.run}
<1>1. r.run \in Run /\ r.name \in Name
  BY DEF CommitClaims, Write, KeysIInv, TagsIInv, RequestsOK, RequestOK
<1>2. /\ UNCHANGED <<edge, shelf, raced>>
      /\ done' = done \cup {r.run}
      /\ \/ r.tag = None /\ claim' = kept /\ UNCHANGED <<tag, name, closure>>
         \/ /\ r.tag \in Tag /\ Exists(r.tag)
            /\ claim' = kept \cup {<<r.run, r.tag>>}
            /\ UNCHANGED <<tag, name, closure>>
         \/ \E t \in Tag : /\ Adding(t, r.name, "suggested")
                           /\ claim' = kept \cup {<<r.run, t>>}
  BY DEF CommitClaims, curation
<1> HIDE DEF r
<1>3. \E T \in SUBSET Born' : /\ GraphOK' /\ NamesOK' /\ Born \subseteq Born'
                             /\ claim' = kept \cup {<<r.run, t>> : t \in T}
  <2>1. CASE UNCHANGED <<tag, name, closure>>
    <3>1. GraphOK' /\ NamesOK' /\ Born' = Born
      BY <1>2, <2>1, VocabularyStays DEF graph
    <3>2. CASE claim' = kept
      <4>1. claim' = kept \cup {<<r.run, t>> : t \in {}}
        BY <3>2
      <4>2. QED
        BY <3>1, <4>1
    <3>3. CASE r.tag \in Tag /\ Exists(r.tag) /\ claim' = kept \cup {<<r.run, r.tag>>}
      <4>1. {r.tag} \in SUBSET Born'
        BY <3>1, <3>3 DEF Born
      <4>2. claim' = kept \cup {<<r.run, t>> : t \in {r.tag}}
        BY <3>3
      <4>3. QED
        BY <3>1, <4>1, <4>2
    <3>4. ASSUME NEW t \in Tag, Adding(t, r.name, "suggested"), UNCHANGED tag PROVE FALSE
      BY <3>4 DEF Adding, KeysIInv, TagsIInv, RowsOK
    <3>5. QED
      BY <1>2, <2>1, <3>2, <3>3, <3>4
  <2>2. ASSUME NEW t \in Tag, Adding(t, r.name, "suggested"), claim' = kept \cup {<<r.run, t>>}
        PROVE  \E T \in SUBSET Born' : /\ GraphOK' /\ NamesOK' /\ Born \subseteq Born'
                                      /\ claim' = kept \cup {<<r.run, u>> : u \in T}
    <3>1. GraphOK' /\ NamesOK' /\ Born' = Born \cup {t}
      BY <1>1, <1>2, <2>2, AddingKeys
    <3>2. claim' = kept \cup {<<r.run, u>> : u \in {t}}
      BY <2>2
    <3>3. {t} \in SUBSET Born'
      BY <3>1
    <3>4. QED
      BY <3>1, <3>2, <3>3
  <2>3. QED
    BY <1>2, <2>1, <2>2
<1>4. CarriersOK'
  <2>1. PICK T \in SUBSET Born' : claim' = kept \cup {<<r.run, t>> : t \in T}
    BY <1>3
  <2>2. Born \subseteq Born'
    BY <1>3
  <2>3. kept \subseteq claim /\ claim \subseteq Run \X Born /\ \A c \in claim : c[1] \in done
    BY DEF KeysIInv, CarriersOK
  <2> HIDE DEF kept
  <2>4. \A c \in claim' : c \in Run \X Born' /\ c[1] \in done'
    BY <1>1, <1>2, <2>1, <2>2, <2>3
  <2>5. shelf' \subseteq Folder \X Born' /\ done' \subseteq Run
    BY <1>1, <1>2, <2>2 DEF KeysIInv, CarriersOK
  <2>6. QED
    BY <2>4, <2>5 DEF CarriersOK
<1>5. QED
  BY <1>2, <1>3, <1>4 DEF KeysIInv, CountsOK

LEMMA LabelsKeys ==
    ASSUME KeysIInv, Reuse \/ NewVersion
    PROVE  KeysIInv'
<1>1. UNCHANGED <<tag, name, graph, curation, shelf, tx, begun>>
  BY DEF Reuse, NewVersion
<1>2. TagsIInv'
  BY <1>1, Elsewhere DEF KeysIInv, TagsIInv, RequestsOK, RowsOK, Exists
<1>3. GraphOK' /\ NamesOK' /\ Born' = Born
  BY <1>1, VocabularyStays
<1>4. CASE Reuse
  <2>1. PICK r \in Run, donor \in Run : claim' = claim \cup Lent(r, donor) /\ done' = done \cup {r}
        /\ UNCHANGED current
    BY <1>4 DEF Reuse
  <2>2. \A c \in Lent(r, donor) : c \in Run \X Born /\ c[1] = r
    BY DEF Lent, KeysIInv, CarriersOK
  <2>3. CarriersOK'
    BY <1>1, <1>3, <2>1, <2>2 DEF KeysIInv, CarriersOK
  <2>4. CountsOK'
    BY <1>1, <2>1 DEF KeysIInv, CountsOK, curation
  <2>5. QED
    BY <1>2, <1>3, <2>3, <2>4 DEF KeysIInv
<1>5. CASE NewVersion
  <2>1. PICK f \in File : current[f] + 1 \in Version /\ current' = [current EXCEPT ![f] = @ + 1]
        /\ UNCHANGED <<claim, done>>
    BY <1>5 DEF NewVersion
  <2>2. CarriersOK'
    BY <1>1, <1>3, <2>1 DEF KeysIInv, CarriersOK
  <2>3. CountsOK'
    BY <1>1, <2>1 DEF KeysIInv, CountsOK, curation
  <2>4. QED
    BY <1>2, <1>3, <2>2, <2>3 DEF KeysIInv
<1>6. QED
  BY <1>4, <1>5

LEMMA QuietKeys ==
    ASSUME KeysIInv, TagsIInv', UNCHANGED stored, begun' \in 0 .. MaxRequests
    PROVE  KeysIInv'
<1>1. UNCHANGED <<tag, name, graph, curation, claim, shelf, current, done>>
  BY DEF stored
<1>2. GraphOK' /\ NamesOK' /\ Born' = Born
  BY <1>1, VocabularyStays
<1>3. CarriersOK' /\ CountsOK'
  BY <1>1, <1>2 DEF KeysIInv, CarriersOK, CountsOK, curation
<1>4. QED
  BY <1>2, <1>3 DEF KeysIInv

LEMMA WrittenKeys ==
    ASSUME KeysIInv, TagsIInv', NEW s \in Session, NEW op, Write(s, op),
           GraphOK', NamesOK', CarriersOK', raced' \subseteq File \X Tag
    PROVE  KeysIInv'
BY DEF KeysIInv, CountsOK, Write

(* Commits of the vocabulary that carry nothing else with them.            *)
LEMMA VocabularyKeys ==
    ASSUME KeysIInv, TagsIInv', NEW s \in Session,
           \/ CommitCreate(s) \/ CommitRename(s) \/ CommitAliases(s) \/ CommitParents(s)
    PROVE  KeysIInv'
<1>1. UNCHANGED <<claim, shelf, done, raced>>
  BY DEF CommitCreate, CommitRename, CommitAliases, CommitParents, curation
<1>2. GraphOK' /\ NamesOK' /\ Born \subseteq Born'
  <2>1. CASE CommitCreate(s)
    <3>1. tx[s].name \in Name
      BY <2>1 DEF CommitCreate, Write, KeysIInv, TagsIInv, RequestsOK, RequestOK
    <3>2. PICK t \in Tag : Adding(t, tx[s].name, "active")
      BY <2>1 DEF CommitCreate
    <3>3. UNCHANGED edge
      BY <2>1 DEF CommitCreate
    <3>4. QED
      BY <3>1, <3>2, <3>3, AddingKeys
  <2>2. CASE CommitRename(s) \/ CommitAliases(s)
    <3>1. UNCHANGED <<tag, graph>>
      BY <2>2 DEF CommitRename, CommitAliases
    <3>2. Born' = Born
      BY <3>1 DEF Born, Exists
    <3>3. GraphOK'
      BY <3>1, <3>2, GraphStays DEF KeysIInv
    <3>4. QED
      BY <2>2, <3>2, <3>3, RenameKeys, AliasKeys
  <2>3. CASE CommitParents(s)
    <3>1. UNCHANGED <<tag, name>>
      BY <2>3 DEF CommitParents
    <3>2. Born' = Born
      BY <3>1 DEF Born, Exists
    <3>3. QED
      BY <2>3, <3>1, <3>2, NamesStay, ParentsKeys DEF KeysIInv
  <2>4. QED
    BY <2>1, <2>2, <2>3
<1>3. CarriersOK' /\ raced' \subseteq File \X Tag
  BY <1>1, <1>2 DEF KeysIInv, CarriersOK, CountsOK
<1>4. QED
  BY <1>2, <1>3, WrittenKeys DEF CommitCreate, CommitRename, CommitAliases, CommitParents

LEMMA InitKeys == Init => KeysIInv
<1> SUFFICES ASSUME Init PROVE KeysIInv
  OBVIOUS
<1>1. TagsIInv
  BY InitTags
<1>2. GraphOK
  <2>1. Reach({}) \in SUBSET ({} \X {})
    BY ReachWithin
  <2>2. QED
    BY <2>1 DEF Init, GraphOK, Insertable
<1>3. NamesOK
  <2> DEFINE Rows == {Row(t, FALSE) : t \in Born}
  <2>1. \A t \in Born : Cardinality(Canonical(t)) = 1
    BY DEF Init
  <2>2. name \in [Name -> {None} \cup Rows]
    BY DEF Init, Row
  <2>3. \A x \in Rows : x \in NameRow(Born) /\ \E u \in Born : x = Row(u, FALSE)
    BY NameRows
  <2> HIDE DEF Rows
  <2>4. ASSUME NEW t \in Tag, NEW n \in Name, NEW m \in Name,
               name[n] = Row(t, FALSE), name[m] = Row(t, FALSE)
        PROVE  n = m
    <3>1. t \in Born
      <4>1. name[n] # None
        BY <2>4, RowIsRow
      <4>2. PICK u \in Born : name[n] = Row(u, FALSE)
        BY <2>2, <2>3, <4>1
      <4>3. QED
        BY <2>4, <4>2, RowOfTag
    <3>2. IsFiniteSet(Canonical(t))
      BY TagsAssumption, FS_Subset DEF Canonical
    <3>3. \E x : Canonical(t) = {x}
      BY <2>1, <3>1, <3>2, FS_Singleton
    <3>4. n \in Canonical(t) /\ m \in Canonical(t)
      BY <2>4 DEF Canonical
    <3>5. QED
      BY <3>3, <3>4
  <2>5. name \in [Name -> {None} \cup NameRow(Born)]
    BY <2>2, <2>3
  <2>6. QED
    BY <2>4, <2>5 DEF NamesOK
<1>4. CarriersOK
  <2>1. claim \subseteq {<<r, t>> : r \in {x \in Run : x[2] = 1}, t \in Born}
        /\ done = {c[1] : c \in claim} /\ shelf = {}
    BY DEF Init
  <2>2. claim \subseteq Run \X Born
    BY <2>1
  <2>3. \A c \in claim : c[1] \in Run
    BY <2>2
  <2>4. QED
    BY <2>1, <2>2, <2>3 DEF CarriersOK
<1>5. CountsOK
  BY TagsAssumption DEF Init, CountsOK
<1>6. QED
  BY <1>1, <1>2, <1>3, <1>4, <1>5 DEF KeysIInv

LEMMA NextKeys == KeysIInv /\ [Next]_vars => KeysIInv'
<1> SUFFICES ASSUME KeysIInv, [Next]_vars PROVE KeysIInv'
  OBVIOUS
<1>1. TagsIInv'
  BY NextTags DEF KeysIInv
<1>2. begun \in 0 .. MaxRequests /\ MaxRequests \in Nat
  BY TagsAssumption DEF KeysIInv, CountsOK
<1>3. CASE UNCHANGED vars
  BY <1>1, <1>2, <1>3, QuietKeys DEF vars, stored, graph, curation
<1>4. ASSUME NEW s \in Session, NEW record, Ask(s, record) PROVE KeysIInv'
  BY <1>1, <1>2, <1>4, QuietKeys DEF Ask, Read
<1>5. ASSUME NEW s \in Session, Vocabulary(s) PROVE KeysIInv'
  <2>1. CASE Create(s) \/ Rename(s) \/ SetAliases(s) \/ SetParents(s)
    BY <1>4, <2>1 DEF Create, Rename, SetAliases, SetParents
  <2>2. CASE Merge(s) \/ DeleteTag(s) \/ Review(s)
    BY <1>4, <2>2 DEF Merge, DeleteTag, Review
  <2>3. CASE CommitCreate(s) \/ CommitRename(s) \/ CommitAliases(s) \/ CommitParents(s)
    BY <1>1, <2>3, VocabularyKeys
  <2>4. CASE CommitMerge(s)
    BY <1>1, <2>4, MergeKeys, WrittenKeys DEF CommitMerge
  <2>5. CASE CommitDelete(s)
    BY <1>1, <2>5, DeleteKeys, WrittenKeys DEF CommitDelete
  <2>6. CASE CommitReview(s)
    BY <1>1, <2>6, RepliesKeys, WrittenKeys DEF CommitReview
  <2>7. QED
    BY <1>5, <2>1, <2>2, <2>3, <2>4, <2>5, <2>6 DEF Vocabulary
<1>6. ASSUME NEW s \in Session, Tagging(s) PROVE KeysIInv'
  <2>1. CASE Apply(s) \/ Confirm(s) \/ Remove(s)
    BY <1>4, <2>1 DEF Apply, Confirm, Remove, Speaking
  <2>2. CASE TagFolder(s) \/ UntagFolder(s)
    BY <1>4, <2>2 DEF TagFolder, UntagFolder
  <2>3. CASE ApplyClaims(s)
    BY <1>1, <1>2, <2>3, QuietKeys DEF ApplyClaims, Read
  <2>4. CASE CommitApply(s) \/ CommitConfirm(s) \/ CommitReject(s) \/ CommitRemove(s)
    BY <1>1, <2>4, RepliesKeys, WrittenKeys
       DEF CommitApply, CommitConfirm, CommitReject, CommitRemove
  <2>5. CASE CommitTagFolder(s) \/ CommitUntagFolder(s)
    BY <1>1, <2>5, RepliesKeys, WrittenKeys DEF CommitTagFolder, CommitUntagFolder
  <2>6. CASE CommitClaims(s)
    BY <1>1, <2>6, ClaimsKeys, WrittenKeys DEF CommitClaims
  <2>7. QED
    BY <1>6, <2>1, <2>2, <2>3, <2>4, <2>5, <2>6 DEF Tagging
<1>7. ASSUME NEW s \in Session, Rollback(s) PROVE KeysIInv'
  BY <1>1, <1>2, <1>7, QuietKeys DEF Rollback
<1>8. CASE Reuse \/ NewVersion
  BY <1>8, LabelsKeys
<1>9. QED
  BY <1>3, <1>5, <1>6, <1>7, <1>8 DEF Next

-----------------------------------------------------------------------------
(* The foreign keys of the vocabulary hold, the edges close no loop, and   *)
(* the stored closure is the one that the edges give.                      *)
THEOREM KeysHold == Spec => []KeysIInv
<1>1. QED
  BY InitKeys, NextKeys, PTL DEF Spec

(* Every row refers to rows that are there, and no tag ever has two names  *)
(* of its own, whatever renames, merges and deletions overlap.             *)
THEOREM TypeCorrect == Spec => []TypeOK
<1>1. KeysIInv => TypeOK
  <2> SUFFICES ASSUME KeysIInv PROVE TypeOK
    OBVIOUS
  <2>1. \A t \in Tag : Cardinality(Canonical(t)) <= 1
    <3> TAKE t \in Tag
    <3>1. CASE Canonical(t) = {}
      BY <3>1, FS_EmptySet
    <3>2. CASE Canonical(t) # {}
      <4>1. PICK n \in Name : n \in Canonical(t)
        BY <3>2 DEF Canonical
      <4>2. \A m \in Canonical(t) : m = n
        BY <4>1 DEF Canonical, KeysIInv, NamesOK
      <4>3. Canonical(t) = {n}
        BY <4>1, <4>2
      <4>4. QED
        BY <4>3, FS_Singleton
    <3>3. QED
      BY <3>1, <3>2
  <2>2. name \in [Name -> {None} \cup {Row(t, b) : t \in Born, b \in BOOLEAN}]
    BY DEF KeysIInv, NamesOK, NameRow
  <2>3. edge \subseteq Born \X Born /\ closure \subseteq Born \X Born
    <3>1. Born \in SUBSET Tag
      BY DEF Born
    <3>2. QED
      BY <3>1, RebuiltGraph DEF KeysIInv, GraphOK
  <2>4. \A f \in File, t \in Tag : word[f][t] \in {None, "manual", "confirmed", "rejected"}
                                   /\ (word[f][t] # None => Exists(t))
    BY DEF KeysIInv, TagsIInv, RowsOK, WordsHaveTags, Word
  <2>5. /\ claim \subseteq Run \X Born /\ shelf \subseteq Folder \X Born
        /\ current \in [File -> Version] /\ done \subseteq Run
        /\ {c[1] : c \in claim} \subseteq done
        /\ begun \in 0 .. MaxRequests /\ raced \subseteq File \X Tag
    BY DEF KeysIInv, CarriersOK, CountsOK
  <2>6. tag \in [Tag -> Status \cup {"unborn", "gone"}]
    BY DEF KeysIInv, TagsIInv, RowsOK
  <2>7. QED
    BY <2>1, <2>2, <2>3, <2>4, <2>5, <2>6 DEF TypeOK
<1>2. QED
  BY <1>1, KeysHold, PTL

(* The stored closure is what the edges reach, and no tag is its own       *)
(* ancestor, although the test for a cycle reads a closure that another    *)
(* edit is about to change.                                                *)
THEOREM ClosureIsTheGraph == Spec => []ClosureIsReachability
<1>1. KeysIInv => ClosureIsReachability
  <2> SUFFICES ASSUME KeysIInv PROVE ClosureIsReachability
    OBVIOUS
  <2>1. /\ edge \in SUBSET (Tag \X Tag) /\ Insertable(edge) /\ closure = Rebuilt(edge, Born)
        /\ Born \in SUBSET Tag
    BY DEF KeysIInv, GraphOK, Born
  <2>2. \A x, y \in Born : <<x, y>> \in closure <=> x = y \/ <<x, y>> \in Reach(edge)
    BY <2>1 DEF Rebuilt
  <2>3. \A y \in Born : \A p : p \in Parents(y) <=> p \in Born /\ <<p, y>> \in edge
    <3>1. edge \in SUBSET (Born \X Born)
      BY DEF KeysIInv, GraphOK
    <3>2. QED
      BY <3>1 DEF Parents
  <2>4. Reach(edge) \in SUBSET (Born \X Born) /\ edge \subseteq Reach(edge)
    BY ReachWithin DEF KeysIInv, GraphOK
  <2>5. ASSUME NEW x \in Born, NEW y \in Born
        PROVE  <<x, y>> \in closure <=> x = y \/ \E p \in Parents(y) : <<x, p>> \in closure
    <3>1. ASSUME <<x, y>> \in Reach(edge)
          PROVE  \E p \in Parents(y) : <<x, p>> \in closure
      <4>1. CASE <<x, y>> \in edge
        <5>1. x \in Parents(y) /\ <<x, x>> \in closure
          BY <2>2, <2>3, <4>1
        <5>2. QED
          BY <5>1
      <4>2. ASSUME NEW p \in Tag, <<x, p>> \in Reach(edge), <<p, y>> \in edge
            PROVE  \E q \in Parents(y) : <<x, q>> \in closure
        <5>1. p \in Born
          BY <2>4, <4>2
        <5>2. p \in Parents(y) /\ <<x, p>> \in closure
          BY <2>2, <2>3, <4>2, <5>1
        <5>3. QED
          BY <5>2
      <4>3. QED
        BY <2>1, <3>1, <4>1, <4>2, ReachLast
    <3>2. ASSUME NEW p \in Parents(y), <<x, p>> \in closure
          PROVE  <<x, y>> \in Reach(edge)
      <4>1. p \in Born /\ <<p, y>> \in edge
        BY <2>3
      <4>2. CASE x = p
        BY <2>4, <4>1, <4>2
      <4>3. CASE <<x, p>> \in Reach(edge)
        BY <2>1, <4>1, <4>3, ReachIsClosed
      <4>4. QED
        BY <2>2, <3>2, <4>1, <4>2, <4>3
    <3>3. QED
      BY <2>2, <3>1, <3>2
  <2>6. ASSUME NEW x \in Born, NEW y \in Born, {<<x, y>>, <<y, x>>} \subseteq closure, x # y
        PROVE  FALSE
    <3>1. <<x, y>> \in Reach(edge) /\ <<y, x>> \in Reach(edge)
      BY <2>2, <2>6
    <3>2. <<x, x>> \in Reach(edge)
      BY <2>1, <3>1, ReachTransitive
    <3>3. QED
      BY <2>1, <3>2 DEF Insertable
  <2>7. QED
    BY <2>5, <2>6 DEF ClosureIsReachability
<1>2. QED
  BY <1>1, KeysHold, PTL
=============================================================================
