------------------------------ MODULE Counting ------------------------------
(***************************************************************************)
(* Lemmas about natural numbers, sequences and finite sets that the proofs *)
(* of several modules need: least and greatest elements, how often an      *)
(* element occurs in a sequence and in several of them together, and what  *)
(* Filter's Only keeps of a sequence that grows or shrinks.                *)
(***************************************************************************)
EXTENDS Integers, Sequences, FiniteSets, Filter, FiniteSetTheorems,
        FunctionTheorems, SequenceTheorems, TLAPS

\* A set of natural numbers has a least element: inclusion is well-founded on
\* the finite sets 0..n.
LEMMA LeastNatural ==
  ASSUME NEW T \in SUBSET Nat, T # {}
  PROVE  \E x \in T : \A y \in T : x <= y
<1> DEFINE R == StrictSubsetOrdering(Nat)
           F == FiniteSubsetsOf(Nat)
           U == {0..n : n \in T}
<1>1. \A n \in Nat : 0..n \in F
  <2>1. \A n \in Nat : IsFiniteSet(0..n) /\ 0..n \subseteq Nat
    BY FS_Interval
  <2>2. QED
    BY <2>1 DEF FiniteSubsetsOf
<1>2. U \subseteq F /\ U # {}
  BY <1>1
<1>3. IsWellFoundedOn(R, F)
  BY FS_StrictSubsetOrderingWellFounded
<1> HIDE DEF R, F, U
<1>4. PICK X \in U : \A Y \in U : ~ (<<Y, X>> \in R)
  BY <1>2, <1>3, WFMin
<1>5. PICK x \in T : X = 0..x
  BY <1>4 DEF U
<1>6. ASSUME NEW y \in T, y < x PROVE FALSE
  <2>1. 0..y \in U
    BY DEF U
  <2>2. 0..y \subseteq 0..x /\ 0..y # 0..x /\ 0..y \subseteq Nat /\ 0..x \subseteq Nat
    BY <1>6
  <2>3. <<0..y, 0..x>> \in R
    BY <2>2 DEF R, StrictSubsetOrdering
  <2>4. QED
    BY <1>4, <1>5, <2>1, <2>3
<1>7. QED
  BY <1>6

\* A set of positions has a last one.
LEMMA LastPosition ==
  ASSUME NEW n \in Nat, NEW T \in SUBSET (1..n), T # {}
  PROVE  \E x \in T : \A y \in T : y <= x
<1> DEFINE U == {n - x : x \in T}
<1>1. U \in SUBSET Nat /\ U # {}
  <2>1. \A x \in T : n - x \in Nat
    OBVIOUS
  <2>2. QED
    BY <2>1
<1> HIDE DEF U
<1>2. PICK d \in U : \A e \in U : d <= e
  BY <1>1, LeastNatural
<1>3. PICK x \in T : d = n - x
  BY <1>2 DEF U
<1>4. \A y \in T : n - x <= n - y
  BY <1>2, <1>3 DEF U
<1>5. QED
  BY <1>4

-----------------------------------------------------------------------------
\* Where x stands in a sequence
Positions(x, s) == {i \in 1..Len(s) : s[i] = x}

LEMMA PositionsFinite ==
  ASSUME NEW S, NEW s \in Seq(S), NEW x
  PROVE  /\ IsFiniteSet(Positions(x, s))
         /\ Cardinality(Positions(x, s)) \in Nat
<1>1. IsFiniteSet(1..Len(s)) /\ Positions(x, s) \in SUBSET (1..Len(s))
  BY FS_Interval DEF Positions
<1>2. QED
  BY <1>1, FS_Subset, FS_CardinalityType

LEMMA PositionsNone ==
  ASSUME NEW S, NEW s \in Seq(S), NEW x
  PROVE  Cardinality(Positions(x, s)) = 0 <=> \A i \in 1..Len(s) : s[i] # x
<1>1. IsFiniteSet(Positions(x, s))
  BY PositionsFinite
<1>2. Cardinality(Positions(x, s)) = 0 <=> Positions(x, s) = {}
  BY <1>1, FS_EmptySet
<1>3. QED
  BY <1>2 DEF Positions

LEMMA PositionsAppend ==
  ASSUME NEW S, NEW s \in Seq(S), NEW e \in S, NEW x
  PROVE  Cardinality(Positions(x, Append(s, e)))
           = Cardinality(Positions(x, s)) + (IF e = x THEN 1 ELSE 0)
<1> DEFINE n == Len(s) + 1
<1>1. /\ Len(s) \in Nat
      /\ Len(Append(s, e)) = n
      /\ Append(s, e)[n] = e
      /\ \A i \in 1..Len(s) : Append(s, e)[i] = s[i]
  OBVIOUS
<1>2. Positions(x, Append(s, e)) = IF e = x THEN Positions(x, s) \cup {n} ELSE Positions(x, s)
  BY <1>1 DEF Positions
<1>3. n \notin Positions(x, s)
  BY <1>1 DEF Positions
<1> HIDE DEF n
<1>4. IsFiniteSet(Positions(x, s)) /\ Cardinality(Positions(x, s)) \in Nat
  BY PositionsFinite
<1>5. Cardinality(Positions(x, s) \cup {n}) = Cardinality(Positions(x, s)) + 1
  BY <1>3, <1>4, FS_AddElement
<1>6. QED
  BY <1>2, <1>4, <1>5

\* The positions in the second of two sequences that are joined
LEMMA PositionsShifted ==
  ASSUME NEW S, NEW s \in Seq(S), NEW x, NEW k \in Int, NEW T,
         T = {i \in Int : i - k \in Positions(x, s)}
  PROVE  IsFiniteSet(T) /\ Cardinality(T) = Cardinality(Positions(x, s))
<1> DEFINE f == [i \in Positions(x, s) |-> i + k]
<1>1. Positions(x, s) \subseteq Int
  BY DEF Positions
<1>2. f \in Bijection(Positions(x, s), T)
  <2>1. \A i \in Positions(x, s) : i + k \in T
    BY <1>1
  <2>2. \A i, j \in Positions(x, s) : i + k = j + k => i = j
    BY <1>1
  <2>3. \A t \in T : \E i \in Positions(x, s) : i + k = t
    BY <1>1
  <2>4. QED
    BY <2>1, <2>2, <2>3 DEF Bijection, Injection, Surjection, IsInjective
<1>3. ExistsBijection(Positions(x, s), T)
  BY <1>2 DEF ExistsBijection
<1>4. QED
  BY <1>3, PositionsFinite, FS_Bijection

LEMMA PositionsConcat ==
  ASSUME NEW S, NEW s \in Seq(S), NEW t \in Seq(S), NEW x
  PROVE  Cardinality(Positions(x, s \o t))
           = Cardinality(Positions(x, s)) + Cardinality(Positions(x, t))
<1> DEFINE T == {i \in Int : i - Len(s) \in Positions(x, t)}
<1>1. /\ Len(s) \in Nat /\ Len(t) \in Nat
      /\ Len(s \o t) = Len(s) + Len(t)
      /\ \A i \in 1..Len(s) : (s \o t)[i] = s[i]
      /\ \A i \in Len(s)+1..Len(s)+Len(t) : (s \o t)[i] = t[i - Len(s)]
  BY ConcatProperties
<1>2. Positions(x, s \o t) = Positions(x, s) \cup T
  BY <1>1 DEF Positions
<1>3. Positions(x, s) \cap T = {}
  BY <1>1 DEF Positions
<1>4. IsFiniteSet(T) /\ Cardinality(T) = Cardinality(Positions(x, t))
  <2>1. Len(s) \in Int
    BY <1>1
  <2> HIDE DEF T
  <2>2. T = {i \in Int : i - Len(s) \in Positions(x, t)}
    BY DEF T
  <2>3. QED
    BY <2>1, <2>2, PositionsShifted, Zenon
<1>f. /\ IsFiniteSet(Positions(x, s)) /\ Cardinality(Positions(x, s)) \in Nat
      /\ IsFiniteSet(Positions(x, t)) /\ Cardinality(Positions(x, t)) \in Nat
  BY PositionsFinite
<1> HIDE DEF T
<1>5. Cardinality(Positions(x, s) \cup T)
        = Cardinality(Positions(x, s)) + Cardinality(T) - Cardinality({})
  BY <1>3, <1>4, <1>f, FS_Union
<1>6. QED
  BY <1>2, <1>4, <1>5, <1>f, FS_EmptySet

LEMMA PositionsTail ==
  ASSUME NEW S, NEW s \in Seq(S), s # <<>>, NEW x
  PROVE  Cardinality(Positions(x, s))
           = Cardinality(Positions(x, Tail(s))) + (IF Head(s) = x THEN 1 ELSE 0)
<1> DEFINE one == <<Head(s)>>
<1>1. /\ Head(s) \in S /\ Tail(s) \in Seq(S)
      /\ one \in Seq(S)
      /\ s = one \o Tail(s)
  BY HeadTailProperties
<1>2. Cardinality(Positions(x, s))
        = Cardinality(Positions(x, one)) + Cardinality(Positions(x, Tail(s)))
  BY <1>1, PositionsConcat
<1>3. Positions(x, one) = IF Head(s) = x THEN {1} ELSE {}
  BY DEF Positions
<1>4. Cardinality(Positions(x, one)) = IF Head(s) = x THEN 1 ELSE 0
  BY <1>3, FS_EmptySet, FS_Singleton
<1> HIDE DEF one
<1>5. Cardinality(Positions(x, Tail(s))) \in Nat
  BY <1>1, PositionsFinite
<1>6. QED
  BY <1>2, <1>4, <1>5

-----------------------------------------------------------------------------
\* The disjoint union of the sets of a family
Stack(C, F) == UNION {{c} \X F[c] : c \in C}

LEMMA StackFinite ==
  ASSUME NEW C, IsFiniteSet(C), NEW F, \A c \in C : IsFiniteSet(F[c])
  PROVE  IsFiniteSet(Stack(C, F)) /\ Cardinality(Stack(C, F)) \in Nat
<1> DEFINE G == [c \in C |-> {c} \X F[c]]
           Parts == {G[c] : c \in C}
<1>1. \A c \in C : IsFiniteSet(G[c])
  BY FS_Singleton, FS_Product
<1>2. IsFiniteSet(Parts)
  <2>1. G \in Surjection(C, Parts)
    BY DEF Surjection
  <2>2. QED
    BY <2>1, FS_Surjection
<1>3. IsFiniteSet(UNION Parts)
  BY <1>1, <1>2, FS_UNION
<1>4. UNION Parts = Stack(C, F)
  BY DEF Stack
<1>5. QED
  BY <1>3, <1>4, FS_CardinalityType

\* One member of the family is looked at apart.
LEMMA StackSplit ==
  ASSUME NEW C, IsFiniteSet(C), NEW F, \A c \in C : IsFiniteSet(F[c]), NEW c \in C
  PROVE  /\ Cardinality(Stack(C, F)) = Cardinality(F[c]) + Cardinality(Stack(C \ {c}, F))
         /\ Cardinality(F[c]) \in Nat
         /\ Cardinality(Stack(C \ {c}, F)) \in Nat
<1> DEFINE Mine == {c} \X F[c]
           Rest == Stack(C \ {c}, F)
<1>1. Stack(C, F) = Mine \cup Rest
  BY DEF Stack
<1>2. Mine \cap Rest = {}
  BY DEF Stack
<1>3. IsFiniteSet(Mine) /\ Cardinality(Mine) = Cardinality(F[c])
  <2>1. IsFiniteSet({c}) /\ Cardinality({c}) = 1
    BY FS_Singleton
  <2>2. IsFiniteSet(F[c]) /\ Cardinality(F[c]) \in Nat
    BY FS_CardinalityType
  <2>3. IsFiniteSet(Mine) /\ Cardinality(Mine) = Cardinality({c}) * Cardinality(F[c])
    BY <2>1, <2>2, FS_Product
  <2>4. QED
    BY <2>1, <2>2, <2>3
<1>4. IsFiniteSet(Rest) /\ Cardinality(Rest) \in Nat
  <2>1. IsFiniteSet(C \ {c})
    BY FS_RemoveElement
  <2>2. QED
    BY <2>1, StackFinite
<1> HIDE DEF Mine, Rest
<1>5. Cardinality(Mine \cup Rest) = Cardinality(Mine) + Cardinality(Rest) - Cardinality({})
  BY <1>2, <1>3, <1>4, FS_Union
<1>6. Cardinality(F[c]) \in Nat
  BY FS_CardinalityType
<1>7. QED
  BY <1>1, <1>3, <1>4, <1>5, <1>6, FS_EmptySet DEF Rest

\* A family that changes in one member changes its size as that member does.
LEMMA StackChange ==
  ASSUME NEW C, IsFiniteSet(C), NEW F, NEW G,
         \A c \in C : IsFiniteSet(F[c]) /\ IsFiniteSet(G[c]),
         NEW c \in C, \A d \in C \ {c} : G[d] = F[d]
  PROVE  /\ Cardinality(Stack(C, G)) + Cardinality(F[c])
              = Cardinality(Stack(C, F)) + Cardinality(G[c])
         /\ Cardinality(Stack(C, F)) \in Nat /\ Cardinality(Stack(C, G)) \in Nat
         /\ Cardinality(F[c]) \in Nat /\ Cardinality(G[c]) \in Nat
         /\ Cardinality(F[c]) <= Cardinality(Stack(C, F))
<1>1. Stack(C \ {c}, G) = Stack(C \ {c}, F)
  BY DEF Stack
<1>2. QED
  BY <1>1, StackSplit, StackFinite

-----------------------------------------------------------------------------
\* What is left of a sequence (module Filter)

\* Each place has a number.
LEMMA PlacesFinite ==
  ASSUME NEW n \in Nat, NEW P \in SUBSET (1..n)
  PROVE  IsFiniteSet(P) /\ Cardinality(P) \in Nat /\ P \subseteq Nat
<1>1. IsFiniteSet(1..n)
  BY FS_Interval
<1>2. IsFiniteSet(P)
  BY <1>1, FS_Subset
<1>3. QED
  BY <1>2, FS_CardinalityType

LEMMA RankRange ==
  ASSUME NEW n \in Nat, NEW P \in SUBSET (1..n), NEW k \in P
  PROVE  Rank(P, k) \in 0..Cardinality(P) - 1
<1> DEFINE Q == {j \in P : j < k}
<1>1. IsFiniteSet(P) /\ Cardinality(P) \in Nat /\ P \subseteq Nat
  BY PlacesFinite
<1>2. Q \subseteq P \ {k}
  BY <1>1
<1>3. IsFiniteSet(P \ {k}) /\ Cardinality(P \ {k}) = Cardinality(P) - 1
  BY <1>1, FS_RemoveElement
<1>4. IsFiniteSet(Q) /\ Cardinality(Q) <= Cardinality(P) - 1 /\ Cardinality(Q) \in Nat
  BY <1>2, <1>3, FS_Subset, FS_CardinalityType
<1>5. QED
  BY <1>1, <1>4 DEF Rank

LEMMA NthPlace ==
  ASSUME NEW n \in Nat, NEW P \in SUBSET (1..n), NEW i \in 1..Cardinality(P)
  PROVE  /\ Nth(P, i) \in P
         /\ Rank(P, Nth(P, i)) = i - 1
         /\ \A k \in P : Rank(P, k) = i - 1 => k = Nth(P, i)
<1> DEFINE c == Cardinality(P)
           T == 0..c - 1
           r == [k \in P |-> Rank(P, k)]
<1>1. IsFiniteSet(P) /\ c \in Nat /\ P \subseteq Nat
  BY PlacesFinite
<1>2. \A k \in P : Rank(P, k) \in T
  BY RankRange
<1>3. \A k, l \in P : k < l => Rank(P, k) < Rank(P, l)
  <2> SUFFICES ASSUME NEW k \in P, NEW l \in P, k < l PROVE Rank(P, k) < Rank(P, l)
    OBVIOUS
  <2> DEFINE Q == {j \in P : j < k}
             R == {j \in P : j < l}
  <2>1. IsFiniteSet(Q) /\ IsFiniteSet(R) /\ Cardinality(Q) \in Nat /\ Cardinality(R) \in Nat
    BY <1>1, FS_Subset, FS_CardinalityType
  <2>2. k \notin Q /\ Q \cup {k} \subseteq R
    <3>1. k \in Nat /\ l \in Nat /\ ~(k < k)
      BY <1>1
    <3>2. \A j \in P : j \in Nat /\ (j < k => j < l)
      BY <1>1, <3>1
    <3>3. k \notin Q
      BY <3>1
    <3>4. Q \subseteq R
      BY <3>2
    <3>5. k \in R
      OBVIOUS
    <3> HIDE DEF Q, R
    <3>6. QED
      BY <3>3, <3>4, <3>5
  <2>3. Cardinality(Q \cup {k}) = Cardinality(Q) + 1
    BY <2>1, <2>2, FS_AddElement
  <2>4. Cardinality(Q \cup {k}) <= Cardinality(R)
    BY <2>1, <2>2, FS_Subset
  <2> HIDE DEF Q, R
  <2>5. Cardinality(Q) < Cardinality(R)
    BY <2>1, <2>3, <2>4
  <2>6. QED
    BY <2>5 DEF Rank, Q, R
<1>4. \A k, l \in P : Rank(P, k) = Rank(P, l) => k = l
  <2>1. \A k, l \in P : k # l => k < l \/ l < k
    BY <1>1
  <2>2. QED
    BY <1>1, <1>2, <1>3, <2>1
<1>5. r \in Injection(P, T)
  <2> HIDE DEF c
  <2>1. r \in [P -> T] /\ \A k, l \in P : r[k] = r[l] => k = l
    BY <1>2, <1>4
  <2>2. QED
    BY <2>1 DEF Injection, IsInjective
<1>6. IsFiniteSet(T) /\ Cardinality(T) = c
  <2>1. 0 \in Int /\ c - 1 \in Int /\ (0 > c - 1 <=> c = 0)
    BY <1>1
  <2> HIDE DEF c
  <2>2. IsFiniteSet(0..c - 1) /\ Cardinality(0..c - 1) = IF 0 > c - 1 THEN 0 ELSE (c - 1) - 0 + 1
    BY <2>1, FS_Interval
  <2>3. QED
    BY <1>1, <2>1, <2>2 DEF c
<1>7. r \in Surjection(P, T)
  BY <1>5, <1>6, FS_Injection
<1>8. i - 1 \in T
  BY <1>1
<1>9. PICK k \in P : Rank(P, k) = i - 1
  <2> HIDE DEF T
  <2>1. QED
    BY <1>7, <1>8 DEF Surjection
<1>10. Nth(P, i) \in P /\ Rank(P, Nth(P, i)) = i - 1
  BY <1>9 DEF Nth
<1>11. QED
  BY <1>4, <1>10

LEMMA OnlyType ==
  ASSUME NEW S, NEW T, NEW s \in Seq(S)
  PROVE  /\ Only(s, T) \in Seq(S \cap T)
         /\ Len(Only(s, T)) = Cardinality(Places(s, T))
         /\ Cardinality(Places(s, T)) \in Nat
<1> DEFINE P == Places(s, T)
<1>1. Len(s) \in Nat /\ P \in SUBSET (1..Len(s))
  BY DEF Places
<1>2. IsFiniteSet(P) /\ Cardinality(P) \in Nat
  BY <1>1, PlacesFinite
<1>3. \A i \in 1..Cardinality(P) : Nth(P, i) \in P
  BY <1>1, NthPlace
<1>4. \A k \in P : s[k] \in S \cap T
  BY DEF Places
<1> HIDE DEF P
<1>5. [i \in 1..Cardinality(P) |-> s[Nth(P, i)]] \in Seq(S \cap T)
  BY <1>2, <1>3, <1>4
<1>6. QED
  BY <1>2, <1>5 DEF Only, P

LEMMA OnlyAppend ==
  ASSUME NEW S, NEW T, NEW s \in Seq(S), NEW e \in S
  PROVE  Only(Append(s, e), T) = IF e \in T THEN Append(Only(s, T), e) ELSE Only(s, T)
<1> DEFINE long == Append(s, e)
           P == Places(s, T)
           Q == Places(long, T)
           n == Len(s)
           c == Cardinality(P)
<1>1. /\ n \in Nat /\ Len(long) = n + 1
      /\ long[n + 1] = e /\ \A i \in 1..n : long[i] = s[i]
  OBVIOUS
<1>2. P \in SUBSET (1..n) /\ IsFiniteSet(P) /\ c \in Nat
  <2>1. P \in SUBSET (1..n)
    BY DEF Places
  <2>2. QED
    BY <1>1, <2>1, PlacesFinite
<1>b. \A k \in P : k \in Nat /\ k <= n /\ k < n + 1 /\ ~(n + 1 < k) /\ k # n + 1
  <2>1. \A k \in P : k \in 1..n
    BY DEF Places
  <2>2. \A k \in 1..n : k \in Nat /\ k <= n /\ k < n + 1 /\ ~(n + 1 < k) /\ k # n + 1
    BY <1>1
  <2> HIDE DEF P, n
  <2>3. QED
    BY <2>1, <2>2
<1> HIDE DEF long
<1>3. Q = IF e \in T THEN P \cup {n + 1} ELSE P
  <2>1. 1..n + 1 = 1..n \cup {n + 1} /\ n + 1 \notin 1..n
    BY <1>1
  <2> HIDE DEF n
  <2>2. QED
    BY <1>1, <2>1 DEF Places, n
<1>4. /\ Only(s, T) = [i \in 1..c |-> s[Nth(P, i)]]
      /\ Only(long, T) = [i \in 1..Cardinality(Q) |-> long[Nth(Q, i)]]
  BY DEF Only
<1>5. \A i \in 1..c : Nth(P, i) \in P /\ long[Nth(P, i)] = s[Nth(P, i)]
  BY <1>1, <1>2, NthPlace
<1>t. Only(s, T) \in Seq(S) /\ Len(Only(s, T)) = c
  <2>1. Only(s, T) \in Seq(S \cap T) /\ Len(Only(s, T)) = c
    BY OnlyType
  <2>2. QED
    BY <2>1
<1> HIDE DEF P, Q, n, c
<1>6. CASE e \notin T
  BY <1>3, <1>4, <1>5, <1>6 DEF long, c
<1>7. CASE e \in T
  <2>1. n + 1 \notin P /\ Cardinality(Q) = c + 1 /\ Q = P \cup {n + 1}
    <3>1. n + 1 \notin P /\ Q = P \cup {n + 1}
      BY <1>1, <1>2, <1>3, <1>7
    <3>2. Cardinality(P \cup {n + 1}) = Cardinality(P) + 1
      BY <1>2, <3>1, FS_AddElement
    <3>3. QED
      BY <3>1, <3>2 DEF c
  <2>2. Q \in SUBSET (1..n + 1) /\ n + 1 \in Nat
    <3>1. 1..n \subseteq 1..n + 1 /\ n + 1 \in 1..n + 1 /\ n + 1 \in Nat
      BY <1>1
    <3>2. QED
      BY <1>2, <2>1, <3>1
  <2>3. ASSUME NEW i \in 1..c PROVE Nth(Q, i) = Nth(P, i)
    <3> DEFINE k == Nth(P, i)
    <3>1. k \in P /\ Rank(P, k) = i - 1
      BY <1>1, <1>2, NthPlace DEF c
    <3>2. {j \in Q : j < k} = {j \in P : j < k}
      <4>1. ~(n + 1 < k)
        BY <1>b, <3>1
      <4> HIDE DEF k
      <4>2. QED
        BY <2>1, <4>1
    <3> HIDE DEF k
    <3>3. k \in Q /\ Rank(Q, k) = i - 1
      BY <2>1, <3>1, <3>2 DEF Rank
    <3>4. i \in 1..Cardinality(Q)
      BY <1>2, <2>1
    <3>5. k = Nth(Q, i)
      BY <2>2, <3>3, <3>4, NthPlace
    <3>6. QED
      BY <3>5 DEF k
  <2>4. Nth(Q, c + 1) = n + 1
    <3>1. {j \in Q : j < n + 1} = P
      <4>1. ~(n + 1 < n + 1) /\ \A j \in P : j < n + 1
        BY <1>1, <1>b
      <4>2. QED
        BY <1>b, <2>1, <4>1
    <3>2. n + 1 \in Q /\ Rank(Q, n + 1) = (c + 1) - 1
      <4>1. Rank(Q, n + 1) = c
        BY <3>1 DEF Rank, c
      <4>2. (c + 1) - 1 = c
        BY <1>2
      <4>3. QED
        BY <2>1, <4>1, <4>2
    <3>3. c + 1 \in 1..Cardinality(Q)
      BY <1>2, <2>1
    <3>4. QED
      BY <2>2, <3>2, <3>3, NthPlace
  <2>5. /\ Only(long, T) = [i \in 1..c + 1 |-> long[Nth(Q, i)]]
        /\ \A i \in 1..c : long[Nth(Q, i)] = s[Nth(P, i)]
        /\ long[Nth(Q, c + 1)] = e
    BY <1>1, <1>4, <1>5, <2>1, <2>3, <2>4
  <2>6. /\ Len(Append(Only(s, T), e)) = c + 1
        /\ Append(Only(s, T), e) \in Seq(S)
        /\ Append(Only(s, T), e)[c + 1] = e
        /\ \A i \in 1..c : Append(Only(s, T), e)[i] = s[Nth(P, i)]
    BY <1>2, <1>4, <1>t
  <2>7. \A i \in 1..c + 1 : long[Nth(Q, i)] = Append(Only(s, T), e)[i]
    <3>1. \A i \in 1..c + 1 : i \in 1..c \/ i = c + 1
      BY <1>2
    <3>2. QED
      BY <2>5, <2>6, <3>1
  <2>8. Append(Only(s, T), e) = [i \in 1..c + 1 |-> Append(Only(s, T), e)[i]]
    <3>1. \A q \in Seq(S) : q = [i \in 1..Len(q) |-> q[i]]
      OBVIOUS
    <3> DEFINE q == Append(Only(s, T), e)
    <3> HIDE DEF q
    <3>2. q \in Seq(S) /\ Len(q) = c + 1
      BY <2>6 DEF q
    <3>3. q = [i \in 1..c + 1 |-> q[i]]
      BY <3>1, <3>2
    <3>4. QED
      BY <3>3 DEF q
  <2>9. QED
    BY <1>7, <2>5, <2>7, <2>8 DEF long
<1>8. QED
  BY <1>6, <1>7

\* A set of places, seen from one place further on.
LEMMA ShiftCount ==
  ASSUME NEW n \in Nat, NEW A \in SUBSET (1..n), NEW B,
         \A k : k \in B <=> k \in Nat \ {0} /\ k + 1 \in A
  PROVE  Cardinality(A) = Cardinality(B) + (IF 1 \in A THEN 1 ELSE 0)
<1> DEFINE C == A \ {1}
           f == [k \in B |-> k + 1]
<1>1. IsFiniteSet(A) /\ Cardinality(A) \in Nat /\ \A k \in A : k \in Nat \ {0}
  <2>1. \A k \in A : k \in Nat \ {0}
    OBVIOUS
  <2>2. QED
    BY <2>1, PlacesFinite
<1>2. IsFiniteSet(C)
  BY <1>1, FS_Subset
<1>3. f \in Bijection(B, C)
  <2>1. \A k \in B : k + 1 \in C
    OBVIOUS
  <2>2. \A k, l \in B : k + 1 = l + 1 => k = l
    OBVIOUS
  <2>3. \A t \in C : \E k \in B : k + 1 = t
    <3> SUFFICES ASSUME NEW t \in C PROVE \E k \in B : k + 1 = t
      OBVIOUS
    <3>1. t \in Nat \ {0} /\ t # 1
      BY <1>1
    <3>2. t - 1 \in Nat \ {0} /\ (t - 1) + 1 = t
      BY <3>1
    <3>3. t - 1 \in B
      BY <3>2
    <3>4. QED
      BY <3>2, <3>3
  <2> HIDE DEF C
  <2>4. QED
    BY <2>1, <2>2, <2>3 DEF Bijection, Injection, Surjection, IsInjective
<1>4. ExistsBijection(B, C)
  BY <1>3 DEF ExistsBijection
<1>5. Cardinality(B) = Cardinality(C)
  <2>1. ExistsBijection(C, B)
    BY <1>4, Fun_ExistsBijSymmetric
  <2>2. QED
    BY <1>2, <2>1, FS_Bijection
<1>6. Cardinality(C) = IF 1 \in A THEN Cardinality(A) - 1 ELSE Cardinality(A)
  BY <1>1, FS_RemoveElement
<1>7. QED
  BY <1>1, <1>5, <1>6

LEMMA OnlyTail ==
  ASSUME NEW S, NEW T, NEW s \in Seq(S), s # <<>>
  PROVE  IF Head(s) \in T
           THEN /\ Only(s, T) # <<>>
                /\ Head(Only(s, T)) = Head(s)
                /\ Only(Tail(s), T) = Tail(Only(s, T))
           ELSE Only(Tail(s), T) = Only(s, T)
<1> DEFINE rest == Tail(s)
           P == Places(s, T)
           Q == Places(rest, T)
           n == Len(s)
           c == Cardinality(P)
           d == Cardinality(Q)
           one == IF Head(s) \in T THEN 1 ELSE 0
<1>1. /\ n \in Nat \ {0} /\ Len(rest) = n - 1 /\ rest \in Seq(S)
      /\ Head(s) = s[1]
      /\ \A i \in 1..n - 1 : rest[i] = s[i + 1]
  OBVIOUS
<1> HIDE DEF rest
<1>2. P \in SUBSET (1..n) /\ Q \in SUBSET (1..n - 1)
  BY <1>1 DEF Places
<1>3. \A k : k \in Q <=> k \in Nat \ {0} /\ k + 1 \in P
  <2>1. \A k : k \in 1..n - 1 <=> k \in Nat \ {0} /\ k + 1 \in 1..n
    BY <1>1
  <2> HIDE DEF n
  <2>2. QED
    BY <1>1, <2>1 DEF Places, n
<1>4. 1 \in P <=> Head(s) \in T
  BY <1>1 DEF Places
<1>5. /\ \A k \in P : k \in Nat \ {0}
      /\ \A k \in Q : k \in Nat \ {0} /\ k + 1 \in P
      /\ n \in Nat /\ n - 1 \in Nat
  BY <1>1, <1>2, <1>3
<1>6. c \in Nat /\ d \in Nat
  BY <1>2, <1>5, PlacesFinite
<1> HIDE DEF P, Q, n, one
<1>7. c = d + one
  <2>1. Cardinality(P) = Cardinality(Q) + (IF 1 \in P THEN 1 ELSE 0)
    BY <1>2, <1>3, <1>5, ShiftCount
  <2>2. (IF 1 \in P THEN 1 ELSE 0) = one
    BY <1>4 DEF one
  <2>3. QED
    BY <2>1, <2>2
<1>8. \A k \in Q : Rank(P, k + 1) = Rank(Q, k) + one
  <2> SUFFICES ASSUME NEW k \in Q PROVE Rank(P, k + 1) = Rank(Q, k) + one
    OBVIOUS
  <2> DEFINE A == {j \in P : j < k + 1}
             B == {j \in Q : j < k}
  <2>1. A \in SUBSET (1..n)
    BY <1>2
  <2>2. k \in Nat \ {0}
    BY <1>5
  <2>3. \A j : j \in B <=> j \in Nat \ {0} /\ j + 1 \in A
    <3>1. \A j \in Nat \ {0} : j < k <=> j + 1 < k + 1
      BY <2>2
    <3>2. QED
      BY <1>3, <3>1
  <2>4. 1 \in A <=> 1 \in P
    BY <2>2
  <2>a. Rank(P, k + 1) = Cardinality(A) /\ Rank(Q, k) = Cardinality(B)
    BY DEF Rank
  <2>b. (IF 1 \in A THEN 1 ELSE 0) = one
    BY <1>4, <2>4 DEF one
  <2> HIDE DEF A, B
  <2>5. Cardinality(A) = Cardinality(B) + (IF 1 \in A THEN 1 ELSE 0)
    BY <1>5, <2>1, <2>3, ShiftCount
  <2>6. QED
    BY <2>5, <2>a, <2>b
<1>9. \A i \in 1..d : i + one \in 1..c /\ rest[Nth(Q, i)] = s[Nth(P, i + one)]
  <2> SUFFICES ASSUME NEW i \in 1..d
               PROVE  i + one \in 1..c /\ rest[Nth(Q, i)] = s[Nth(P, i + one)]
    OBVIOUS
  <2> DEFINE k == Nth(Q, i)
  <2>1. k \in Q /\ Rank(Q, k) = i - 1
    BY <1>2, <1>5, NthPlace
  <2> HIDE DEF k
  <2>2. k + 1 \in P /\ Rank(P, k + 1) = (i + one) - 1 /\ i + one \in 1..c
    BY <1>5, <1>6, <1>7, <1>8, <2>1 DEF one
  <2>3. k + 1 = Nth(P, i + one)
    BY <1>2, <1>5, <2>2, NthPlace
  <2>4. k \in 1..n - 1
    BY <1>2, <2>1
  <2>5. rest[k] = s[k + 1]
    BY <1>1, <2>4 DEF n
  <2>6. QED
    BY <2>2, <2>3, <2>5 DEF k
<1>10. /\ Only(s, T) = [i \in 1..c |-> s[Nth(P, i)]]
       /\ Only(rest, T) = [i \in 1..d |-> rest[Nth(Q, i)]]
  BY DEF Only, P, Q
<1>11. Only(rest, T) = [i \in 1..d |-> Only(s, T)[i + one]]
  BY <1>9, <1>10
<1>12. Only(s, T) \in Seq(S) /\ Len(Only(s, T)) = c
  <2>1. Only(s, T) \in Seq(S \cap T) /\ Len(Only(s, T)) = c
    BY OnlyType DEF P
  <2>2. QED
    BY <2>1
<1> HIDE DEF c, d
<1>13. CASE Head(s) \in T
  <2>1. one = 1 /\ c - 1 = d /\ c \in Nat \ {0}
    BY <1>6, <1>7, <1>13 DEF one
  <2>2. Only(s, T) # <<>>
    BY <1>12, <2>1
  <2>3. Nth(P, 1) = 1
    <3>1. {j \in P : j < 1} = {}
      BY <1>5
    <3>a. Cardinality({j \in P : j < 1}) = 0
      BY <3>1, FS_EmptySet
    <3>2. Rank(P, 1) = 1 - 1
      BY <3>a DEF Rank
    <3>3. 1 \in 1..Cardinality(P)
      BY <2>1 DEF c
    <3>4. QED
      BY <1>2, <1>4, <1>5, <1>13, <3>2, <3>3, NthPlace
  <2>4. Head(Only(s, T)) = Head(s)
    BY <1>1, <1>10, <1>12, <2>1, <2>2, <2>3
  <2>5. \A q \in Seq(S) : q # <<>> =>
           /\ Tail(q) \in Seq(S) /\ Len(Tail(q)) = Len(q) - 1
           /\ \A i \in 1..Len(q) - 1 : Tail(q)[i] = q[i + 1]
    OBVIOUS
  <2>a. \A q \in Seq(S) : q = [i \in 1..Len(q) |-> q[i]]
    OBVIOUS
  <2>6. Tail(Only(s, T)) = [i \in 1..d |-> Only(s, T)[i + 1]]
    <3> DEFINE q == Only(s, T)
    <3> HIDE DEF q
    <3>1. q \in Seq(S) /\ q # <<>> /\ Len(q) - 1 = d
      BY <1>12, <2>1, <2>2 DEF q
    <3>2. Tail(q) = [i \in 1..d |-> Tail(q)[i]]
      BY <2>5, <2>a, <3>1
    <3>3. \A i \in 1..d : Tail(q)[i] = q[i + 1]
      BY <2>5, <3>1
    <3>4. Tail(q) = [i \in 1..d |-> q[i + 1]]
      BY <3>2, <3>3
    <3>5. QED
      BY <3>4 DEF q
  <2>7. QED
    BY <1>11, <1>13, <2>1, <2>2, <2>4, <2>6 DEF rest
<1>14. CASE Head(s) \notin T
  <2>1. one = 0 /\ c = d
    BY <1>6, <1>7, <1>14 DEF one
  <2>2. \A i \in 1..d : Only(s, T)[i + one] = Only(s, T)[i]
    BY <1>6, <2>1
  <2>3. Only(rest, T) = [i \in 1..c |-> Only(s, T)[i]]
    BY <1>11, <2>1, <2>2
  <2>4. \A q \in Seq(S) : q = [i \in 1..Len(q) |-> q[i]]
    OBVIOUS
  <2>5. QED
    BY <1>12, <1>14, <2>3, <2>4 DEF rest
<1>15. QED
  BY <1>13, <1>14
\* What is kept counts as often as it did.
LEMMA OnlyCount ==
  ASSUME NEW S, NEW s \in Seq(S), NEW A, NEW B
  PROVE  Cardinality(Places(Only(s, A), B)) = Cardinality(Places(s, A \cap B))
<1> DEFINE n == Len(s)
           P == Places(s, A)
           c == Cardinality(P)
           L == Places(Only(s, A), B)
           R == Places(s, A \cap B)
           f == [k \in R |-> Rank(P, k) + 1]
<1>1. n \in Nat /\ P \in SUBSET (1..n)
  BY DEF Places
<1>2. IsFiniteSet(P) /\ c \in Nat /\ Len(Only(s, A)) = c
  BY <1>1, PlacesFinite, OnlyType
<1>3. Only(s, A) = [i \in 1..c |-> s[Nth(P, i)]]
  BY DEF Only
<1>4. R = {k \in P : s[k] \in B}
  BY DEF Places
<1> HIDE DEF P, n
<1>5. \A k \in P : Rank(P, k) \in 0..c - 1
  BY <1>1, RankRange
<1>6. \A i \in 1..c : /\ Nth(P, i) \in P /\ Rank(P, Nth(P, i)) = i - 1
                     /\ \A k \in P : Rank(P, k) = i - 1 => k = Nth(P, i)
  BY <1>1, NthPlace
<1> HIDE DEF c
<1>7. \A k \in P : /\ Rank(P, k) + 1 \in 1..c
                  /\ Nth(P, Rank(P, k) + 1) = k
  <2> SUFFICES ASSUME NEW k \in P
               PROVE  Rank(P, k) + 1 \in 1..c /\ Nth(P, Rank(P, k) + 1) = k
    OBVIOUS
  <2>1. Rank(P, k) \in 0..c - 1
    BY <1>5
  <2> HIDE DEF f
  <2>2. Rank(P, k) + 1 \in 1..c /\ (Rank(P, k) + 1) - 1 = Rank(P, k)
    BY <1>2, <2>1
  <2>3. QED
    BY <1>6, <2>2
<1>8. L = {i \in 1..c : s[Nth(P, i)] \in B}
  BY <1>2, <1>3 DEF Places
<1> HIDE DEF L, R
<1>9. f \in Bijection(R, L)
  <2>1. \A k \in R : k \in P /\ s[k] \in B
    BY <1>4
  <2>2. \A k \in R : Rank(P, k) + 1 \in L
    BY <1>7, <1>8, <2>1
  <2>3. \A k, l \in R : Rank(P, k) + 1 = Rank(P, l) + 1 => k = l
    BY <1>7, <2>1
  <2>4. \A i \in L : \E k \in R : Rank(P, k) + 1 = i
    <3> SUFFICES ASSUME NEW i \in L PROVE \E k \in R : Rank(P, k) + 1 = i
      OBVIOUS
    <3>1. i \in 1..c /\ s[Nth(P, i)] \in B
      BY <1>8
    <3>2. Nth(P, i) \in R /\ Rank(P, Nth(P, i)) = i - 1
      BY <1>4, <1>6, <3>1
    <3>3. (i - 1) + 1 = i
      BY <3>1
    <3>4. QED
      BY <3>2, <3>3
  <2>5. QED
    BY <2>2, <2>3, <2>4 DEF Bijection, Injection, Surjection, IsInjective
<1>10. ExistsBijection(R, L)
  BY <1>9 DEF ExistsBijection
<1>11. IsFiniteSet(R)
  BY <1>2, <1>4, FS_Subset
<1>12. Cardinality(R) = Cardinality(L)
  BY <1>10, <1>11, FS_Bijection
<1>13. QED
  BY <1>12 DEF L, R

=============================================================================
