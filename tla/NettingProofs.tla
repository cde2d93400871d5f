--------------------------- MODULE NettingProofs ---------------------------
(***************************************************************************)
(* The books agree, for every account, every set of groups and every way   *)
(* to spread the account's rows over them: a group's walk, the draw-down,  *)
(* the account's walks, the rebuild and the stores' sums tell one story.   *)
(* All of it rests on three facts about walks: a book is extended by its   *)
(* latest row, a row moves the net of its own security only, and replay    *)
(* visits every row once.  The last section is about two replays: what one *)
(* has completed, a later one that reads further completes as well.        *)
(***************************************************************************)
EXTENDS Netting, Rebuild, BookProofs

-----------------------------------------------------------------------------
(* Numbers and sets of numbers.                                            *)

\* The sign of a product.
LEMMA ProductSign ==
    ASSUME NEW a \in Int, NEW b \in Int
    PROVE  /\ a * b \in Int
           /\ a * b = 0 <=> a = 0 \/ b = 0
           /\ a * b > 0 <=> (a > 0 /\ b > 0) \/ (a < 0 /\ b < 0)
           /\ a * b < 0 <=> (a > 0 /\ b < 0) \/ (a < 0 /\ b > 0)
BY SMT

\* The maximum of a set of numbers is known from a member that bounds it.
LEMMA MaxIs ==
    ASSUME NEW S \in SUBSET Int, NEW m \in S, \A n \in S : n <= m
    PROVE  Max(S) = m
<1>1. \E k \in S : \A n \in S : k >= n
  OBVIOUS
<1>2. Max(S) \in S /\ \A n \in S : Max(S) >= n
  BY <1>1 DEF Max
<1>3. Max(S) \in Int /\ m \in Int
  BY <1>2
<1>4. Max(S) <= m /\ Max(S) >= m
  BY <1>2
<1> HIDE DEF Max
<1> QED
  BY <1>3, <1>4

\* Of the numbers up to a bound there is a largest.
LEMMA MaxMember ==
    ASSUME NEW B \in Nat, NEW S \in SUBSET (0 .. B), 0 \in S
    PROVE  Max(S) \in S
<1> DEFINE E == {k \in 0 .. B : \E m \in S : m <= k /\ \A n \in S : n <= k => n <= m}
<1>1. 0 \in E
  OBVIOUS
<1>2. ASSUME NEW k \in 0 .. B, k # 0, k - 1 \in E
      PROVE  k \in E
  <2>1. PICK m \in S : m <= k - 1 /\ \A n \in S : n <= k - 1 => n <= m
    BY <1>2
  <2>2. CASE k \in S
    BY <2>2
  <2>3. CASE k \notin S
    <3>1. \A n \in S : n \in Int /\ (n <= k => n <= k - 1)
      BY <2>3
    <3> QED
      BY <2>1, <3>1
  <2> QED
    BY <2>2, <2>3
<1> HIDE DEF E
<1>3. \A k \in 0 .. B : k \in E
  BY <1>1, <1>2, UpTo
<1>4. PICK m \in S : \A n \in S : n <= B => n <= m
  BY <1>3 DEF E
<1>5. S \in SUBSET Int /\ \A n \in S : n <= m
  BY <1>4
<1>6. Max(S) = m
  BY <1>5, MaxIs
<1> QED
  BY <1>6

\* A collection of subsets of a finite set that has the empty set and, with every
\* subset, what adds one element, has them all.
LEMMA Gathered ==
    ASSUME NEW U, IsFiniteSet(U), NEW P, {} \in P,
           \A T \in SUBSET U : T \in P => \A x \in U \ T : T \cup {x} \in P
    PROVE  U \in P
<1> DEFINE N == Cardinality(U)
           S == {n \in 0 .. N : \A T \in SUBSET U : Cardinality(T) = n => T \in P}
<1>1. N \in Nat /\ \A T \in SUBSET U : IsFiniteSet(T) /\ Cardinality(T) \in Nat
  BY FS_Subset, FS_CardinalityType
<1>2. 0 \in S
  <2> SUFFICES ASSUME NEW T \in SUBSET U, Cardinality(T) = 0
               PROVE  T \in P
    BY <1>1
  <2>1. T = {}
    BY <1>1, FS_EmptySet
  <2> QED
    BY <2>1
<1>3. ASSUME NEW n \in 0 .. N, n # 0, n - 1 \in S
      PROVE  n \in S
  <2> SUFFICES ASSUME NEW T \in SUBSET U, Cardinality(T) = n
               PROVE  T \in P
    OBVIOUS
  <2>1. PICK x \in T : TRUE
    BY <1>1, <1>3, FS_EmptySet
  <2>2. Cardinality(T \ {x}) = n - 1
    BY <1>1, <2>1, FS_RemoveElement
  <2>3. T \ {x} \in P
    BY <1>3, <2>2
  <2>4. (T \ {x}) \cup {x} = T /\ x \in U \ (T \ {x})
    BY <2>1
  <2> QED
    BY <2>3, <2>4
<1> HIDE DEF S
<1>4. \A n \in 0 .. N : n \in S
  BY <1>1, <1>2, <1>3, UpTo
<1> QED
  BY <1>1, <1>4 DEF S

-----------------------------------------------------------------------------
(* Sums.  The library adds up a function over a set by a recursion that    *)
(* takes the elements in an order of its own; a sum does not depend on it. *)

\* The recursion itself: the chosen element and the rest.
LEMMA SumChosen ==
    ASSUME NEW f, NEW U, IsFiniteSet(U)
    PROVE  \A T \in SUBSET U :
                SumFunctionOnSet(f, T) =
                    IF T = {} THEN 0
                    ELSE f[CHOOSE x \in T : TRUE]
                            + SumFunctionOnSet(f, T \ {CHOOSE x \in T : TRUE})
<1> DEFINE Sum(T) == SumFunctionOnSet(f, T)
           c(T) == CHOOSE x \in T : TRUE
           IsSum(g, T) == g = [s \in SUBSET T |-> IF s = {} THEN 0 ELSE f[c(s)] + g[s \ {c(s)}]]
           G(T) == CHOOSE g : IsSum(g, T)
           Right(T) == Sum(T) = IF T = {} THEN 0 ELSE f[c(T)] + Sum(T \ {c(T)})
           Same(T) == \A V \in SUBSET U : \A g : IsSum(g, V) /\ T \subseteq V => g[T] = Sum(T)
           N == Cardinality(U)
           S == {n \in 0 .. N : \A T \in SUBSET U : Cardinality(T) <= n => Right(T) /\ Same(T)}
<1>1. N \in Nat /\ \A T \in SUBSET U : IsFiniteSet(T) /\ Cardinality(T) \in 0 .. N
  BY FS_Subset, FS_CardinalityType
<1>2. \A T : Sum(T) = G(T)[T]
  BY DEF SumFunctionOnSet, FoldFunctionOnSet, MapThenFoldSet
<1>3. \A T : T # {} => c(T) \in T
  OBVIOUS
<1> HIDE DEF Sum, c
<1>4. ASSUME NEW g, NEW T, IsSum(g, T), NEW s \in SUBSET T
      PROVE  g[s] = IF s = {} THEN 0 ELSE f[c(s)] + g[s \ {c(s)}]
  BY <1>4
<1>5. ASSUME NEW T \in SUBSET U, \A s \in SUBSET T : s # T => Right(s) /\ Same(s)
      PROVE  Right(T)
  <2> DEFINE Chosen == IF T = {} THEN 0 ELSE f[c(T)] + Sum(T \ {c(T)})
             g0 == [s \in SUBSET T |-> IF s = T THEN Chosen ELSE Sum(s)]
  <2>1. ASSUME NEW s \in SUBSET T
        PROVE  g0[s] = IF s = {} THEN 0 ELSE f[c(s)] + g0[s \ {c(s)}]
    <3>1. CASE s = T
      BY <1>3, <3>1
    <3>2. CASE s # T
      <4>1. Right(s)
        BY <1>5, <3>2
      <4>2. s # {} => s \ {c(s)} \in SUBSET T /\ s \ {c(s)} # T
        BY <1>3, <3>2
      <4>3. s # {} => g0[s \ {c(s)}] = Sum(s \ {c(s)})
        BY <4>2
      <4> QED
        BY <3>2, <4>1, <4>3
    <3> QED
      BY <3>1, <3>2
  <2>2. IsSum(g0, T)
    <3>1. [s \in SUBSET T |-> g0[s]]
            = [s \in SUBSET T |-> IF s = {} THEN 0 ELSE f[c(s)] + g0[s \ {c(s)}]]
      BY <2>1
    <3> QED
      BY <3>1
  <2> HIDE DEF IsSum
  <2>3. IsSum(G(T), T)
    BY <2>2
  <2>4. G(T)[T] = IF T = {} THEN 0 ELSE f[c(T)] + G(T)[T \ {c(T)}]
    BY <1>4, <2>3
  <2>5. T # {} => G(T)[T \ {c(T)}] = Sum(T \ {c(T)})
    BY <1>3, <1>5, <2>3
  <2> QED
    BY <1>2, <2>4, <2>5
<1> HIDE DEF IsSum, G
<1>6. ASSUME NEW T \in SUBSET U, Right(T), T # {} => Same(T \ {c(T)})
      PROVE  Same(T)
  <2> SUFFICES ASSUME NEW V \in SUBSET U, NEW g, IsSum(g, V), T \subseteq V
               PROVE  g[T] = Sum(T)
    OBVIOUS
  <2>1. g[T] = IF T = {} THEN 0 ELSE f[c(T)] + g[T \ {c(T)}]
    BY <1>4
  <2>2. T # {} => g[T \ {c(T)}] = Sum(T \ {c(T)})
    BY <1>6
  <2> QED
    BY <1>6, <2>1, <2>2
<1> HIDE DEF Right, Same
<1>7. \A T \in SUBSET U : \A s \in SUBSET T : s # T => Cardinality(s) < Cardinality(T)
  BY <1>1, FS_Subset
<1>8. 0 \in S
  <2> SUFFICES ASSUME NEW T \in SUBSET U, Cardinality(T) <= 0
               PROVE  Right(T) /\ Same(T)
    BY <1>1
  <2>1. T = {}
    <3>1. Cardinality(T) = 0 /\ IsFiniteSet(T)
      BY <1>1
    <3> QED
      BY <3>1, FS_EmptySet
  <2> QED
    BY <1>5, <1>6, <2>1
<1>9. ASSUME NEW n \in 0 .. N, n # 0, n - 1 \in S
      PROVE  n \in S
  <2> SUFFICES ASSUME NEW T \in SUBSET U, Cardinality(T) <= n
               PROVE  Right(T) /\ Same(T)
    OBVIOUS
  <2>1. ASSUME NEW s \in SUBSET T, s # T
        PROVE  Right(s) /\ Same(s)
    <3>1. Cardinality(s) <= n - 1 /\ s \in SUBSET U
      BY <1>1, <1>7, <2>1
    <3> QED
      BY <1>9, <3>1
  <2>2. T # {} => T \ {c(T)} \in SUBSET T /\ T \ {c(T)} # T
    BY <1>3
  <2> QED
    BY <1>5, <1>6, <2>1, <2>2
<1> HIDE DEF S
<1>10. \A n \in 0 .. N : n \in S
  BY <1>1, <1>8, <1>9, UpTo
<1>11. \A T \in SUBSET U : Right(T)
  BY <1>1, <1>10 DEF S
<1> QED
  BY <1>11 DEF Right, Sum, c

\* Nothing adds up to nothing.
LEMMA SumEmpty ==
    ASSUME NEW f
    PROVE  SumFunctionOnSet(f, {}) = 0
<1>1. IsFiniteSet({})
  BY FS_EmptySet
<1> QED
  BY <1>1, SumChosen

\* A sum of integers is an integer, and any element may be taken first.
LEMMA SumAny ==
    ASSUME NEW f, NEW U, IsFiniteSet(U), \A x \in U : f[x] \in Int
    PROVE  \A T \in SUBSET U :
                /\ SumFunctionOnSet(f, T) \in Int
                /\ \A x \in T : SumFunctionOnSet(f, T) = f[x] + SumFunctionOnSet(f, T \ {x})
<1> DEFINE Sum(T) == SumFunctionOnSet(f, T)
           c(T) == CHOOSE x \in T : TRUE
           Any(T) == Sum(T) \in Int /\ \A x \in T : Sum(T) = f[x] + Sum(T \ {x})
           N == Cardinality(U)
           S == {n \in 0 .. N : \A T \in SUBSET U : Cardinality(T) <= n => Any(T)}
<1>1. N \in Nat /\ \A T \in SUBSET U : IsFiniteSet(T) /\ Cardinality(T) \in 0 .. N
  BY FS_Subset, FS_CardinalityType
<1>2. \A T \in SUBSET U : Sum(T) = IF T = {} THEN 0 ELSE f[c(T)] + Sum(T \ {c(T)})
  BY SumChosen
<1>3. \A T : T # {} => c(T) \in T
  OBVIOUS
<1> HIDE DEF Sum, c
<1>4. 0 \in S
  <2> SUFFICES ASSUME NEW T \in SUBSET U, Cardinality(T) <= 0
               PROVE  Any(T)
    BY <1>1
  <2>1. IsFiniteSet(T) /\ Cardinality(T) = 0
    BY <1>1
  <2>2. T = {}
    BY <2>1, FS_EmptySet
  <2>3. Sum(T) = 0
    BY <1>2, <2>2
  <2> QED
    BY <2>2, <2>3
<1>5. ASSUME NEW n \in 0 .. N, n # 0, n - 1 \in S
      PROVE  n \in S
  <2> SUFFICES ASSUME NEW T \in SUBSET U, Cardinality(T) <= n
               PROVE  Any(T)
    OBVIOUS
  <2>1. ASSUME NEW x \in T
        PROVE  T \ {x} \in SUBSET U /\ IsFiniteSet(T \ {x}) /\ Cardinality(T \ {x}) <= n - 1
    <3>1. Cardinality(T \ {x}) = Cardinality(T) - 1 /\ IsFiniteSet(T \ {x})
      BY <1>1, FS_RemoveElement
    <3> QED
      BY <1>1, <3>1
  <2>2. ASSUME NEW x \in T
        PROVE  Any(T \ {x})
    BY <1>5, <2>1
  <2>3. T # {} => Sum(T) = f[c(T)] + Sum(T \ {c(T)}) /\ c(T) \in T
    BY <1>2, <1>3
  <2>4. Sum(T) \in Int
    BY <1>2, <2>2, <2>3
  <2>5. ASSUME NEW x \in T
        PROVE  Sum(T) = f[x] + Sum(T \ {x})
    <3>1. CASE x = c(T)
      BY <2>3, <3>1
    <3>2. CASE x # c(T)
      <4> DEFINE V == (T \ {x}) \ {c(T)}
      <4>1. x \in T \ {c(T)} /\ c(T) \in T \ {x}
        BY <2>3, <3>2
      <4>2. (T \ {c(T)}) \ {x} = V
        OBVIOUS
      <4>3. /\ Sum(T \ {c(T)}) = f[x] + Sum(V)
            /\ Sum(T \ {x}) = f[c(T)] + Sum(V)
        BY <2>2, <2>3, <4>1, <4>2
      <4>4. /\ Sum(T \ {x}) \in Int /\ Sum(T \ {c(T)}) \in Int
            /\ f[x] \in Int /\ f[c(T)] \in Int
        BY <2>2, <2>3
      <4>5. Sum(V) \in Int
        <5>1. V \in SUBSET (T \ {x}) /\ V \in SUBSET U
          OBVIOUS
        <5>2. Cardinality(V) <= Cardinality(T \ {x})
          BY <2>1, <5>1, FS_Subset
        <5>3. Cardinality(V) \in Nat /\ Cardinality(T \ {x}) \in Nat
          BY <1>1, <2>1, <5>1
        <5>4. Cardinality(V) <= n - 1
          BY <1>1, <2>1, <5>2, <5>3
        <5> QED
          BY <1>5, <5>1, <5>4
      <4> QED
        BY <2>3, <4>3, <4>4, <4>5
    <3> QED
      BY <3>1, <3>2
  <2> QED
    BY <2>4, <2>5
<1> HIDE DEF S
<1>6. \A n \in 0 .. N : n \in S
  BY <1>1, <1>4, <1>5, UpTo
<1>7. \A T \in SUBSET U : Any(T)
  BY <1>1, <1>6 DEF S
<1> QED
  BY <1>7 DEF Sum

\* One element more adds its value.
LEMMA SumAdd ==
    ASSUME NEW f, NEW U, IsFiniteSet(U), \A x \in U : f[x] \in Int,
           NEW T \in SUBSET U, NEW x \in U \ T
    PROVE  /\ SumFunctionOnSet(f, T) \in Int
           /\ SumFunctionOnSet(f, T \cup {x}) \in Int
           /\ SumFunctionOnSet(f, T \cup {x}) = SumFunctionOnSet(f, T) + f[x]
<1>1. T \cup {x} \in SUBSET U /\ x \in T \cup {x} /\ (T \cup {x}) \ {x} = T
  OBVIOUS
<1>2. /\ SumFunctionOnSet(f, T) \in Int
      /\ SumFunctionOnSet(f, T \cup {x}) \in Int
      /\ SumFunctionOnSet(f, T \cup {x}) = f[x] + SumFunctionOnSet(f, (T \cup {x}) \ {x})
  BY <1>1, SumAny
<1>3. SumFunctionOnSet(f, T \cup {x}) = f[x] + SumFunctionOnSet(f, T)
  BY <1>1, <1>2
<1>4. f[x] \in Int
  OBVIOUS
<1> QED
  BY <1>2, <1>3, <1>4

\* Functions that agree on a set have the same sum over it.
LEMMA SumSame ==
    ASSUME NEW f, NEW h, NEW U, IsFiniteSet(U),
           \A x \in U : f[x] \in Int /\ f[x] = h[x]
    PROVE  SumFunctionOnSet(f, U) = SumFunctionOnSet(h, U)
<1> DEFINE P == {T \in SUBSET U : SumFunctionOnSet(f, T) = SumFunctionOnSet(h, T)}
<1>1. {} \in P
  BY SumEmpty
<1>2. ASSUME NEW T \in SUBSET U, T \in P, NEW x \in U \ T
      PROVE  T \cup {x} \in P
  <2>1. SumFunctionOnSet(f, T \cup {x}) = SumFunctionOnSet(f, T) + f[x]
    BY <1>2, SumAdd
  <2>2. SumFunctionOnSet(h, T \cup {x}) = SumFunctionOnSet(h, T) + h[x]
    BY <1>2, SumAdd
  <2> QED
    BY <1>2, <2>1, <2>2
<1> HIDE DEF P
<1>3. U \in P
  BY <1>1, <1>2, Gathered
<1> QED
  BY <1>3 DEF P

\* The sum over two sets that have nothing in common.
LEMMA SumJoin ==
    ASSUME NEW f, NEW A, NEW B, IsFiniteSet(A \cup B), A \cap B = {},
           \A x \in A \cup B : f[x] \in Int
    PROVE  SumFunctionOnSet(f, A \cup B) = SumFunctionOnSet(f, A) + SumFunctionOnSet(f, B)
<1> DEFINE Sum(T) == SumFunctionOnSet(f, T)
           P == {T \in SUBSET B : Sum(A \cup T) = Sum(A) + Sum(T)}
<1>1. \A T \in SUBSET (A \cup B) : Sum(T) \in Int
  BY SumAny
<1>2. \A T \in SUBSET (A \cup B), x \in A \cup B :
            x \notin T => Sum(T \cup {x}) = Sum(T) + f[x]
  BY SumAdd
<1>3. Sum({}) = 0 /\ IsFiniteSet(B)
  BY SumEmpty, FS_Subset
<1> HIDE DEF Sum
<1>4. {} \in P
  <2>1. A \cup {} = A /\ Sum(A) \in Int
    BY <1>1
  <2> QED
    BY <1>3, <2>1
<1>5. ASSUME NEW T \in SUBSET B, T \in P, NEW x \in B \ T
      PROVE  T \cup {x} \in P
  <2>1. x \notin A \cup T /\ (A \cup T) \cup {x} = A \cup (T \cup {x})
    OBVIOUS
  <2>2. Sum(A \cup (T \cup {x})) = Sum(A \cup T) + f[x]
    BY <1>2, <2>1
  <2>3. Sum(T \cup {x}) = Sum(T) + f[x]
    BY <1>2
  <2>4. Sum(A) \in Int /\ Sum(T) \in Int /\ f[x] \in Int
    BY <1>1
  <2> QED
    BY <1>5, <2>2, <2>3, <2>4
<1> HIDE DEF P
<1>6. B \in P
  BY <1>3, <1>4, <1>5, Gathered
<1> QED
  BY <1>6 DEF P, Sum

\* What is nowhere negative adds up to no less than any of its values.
LEMMA SumBounds ==
    ASSUME NEW f, NEW U, IsFiniteSet(U), \A x \in U : f[x] \in Nat
    PROVE  /\ SumFunctionOnSet(f, U) \in Nat
           /\ \A x \in U : f[x] <= SumFunctionOnSet(f, U)
<1> DEFINE P == {T \in SUBSET U : SumFunctionOnSet(f, T) \in Nat}
<1>1. {} \in P
  BY SumEmpty
<1>2. ASSUME NEW T \in SUBSET U, T \in P, NEW x \in U \ T
      PROVE  T \cup {x} \in P
  <2>1. SumFunctionOnSet(f, T \cup {x}) = SumFunctionOnSet(f, T) + f[x]
    BY <1>2, SumAdd
  <2> QED
    BY <1>2, <2>1
<1> HIDE DEF P
<1>3. U \in P
  BY <1>1, <1>2, Gathered
<1>4. ASSUME NEW x \in U
      PROVE  f[x] <= SumFunctionOnSet(f, U)
  <2> DEFINE Q == {T \in SUBSET (U \ {x}) : SumFunctionOnSet(f, T) \in Nat}
  <2>1. {} \in Q
    BY SumEmpty
  <2>2. ASSUME NEW T \in SUBSET (U \ {x}), T \in Q, NEW y \in (U \ {x}) \ T
        PROVE  T \cup {y} \in Q
    <3>1. SumFunctionOnSet(f, T \cup {y}) = SumFunctionOnSet(f, T) + f[y]
      BY <2>2, SumAdd
    <3> QED
      BY <2>2, <3>1
  <2>3. IsFiniteSet(U \ {x})
    BY FS_RemoveElement
  <2> HIDE DEF Q
  <2>4. U \ {x} \in Q
    BY <2>1, <2>2, <2>3, Gathered
  <2>5. SumFunctionOnSet(f, U) = f[x] + SumFunctionOnSet(f, U \ {x})
    BY SumAny
  <2> QED
    BY <2>4, <2>5 DEF Q
<1> QED
  BY <1>3, <1>4 DEF P

\* One value changes: so does the sum, by as much.
LEMMA SumChange ==
    ASSUME NEW f, NEW h, NEW U, IsFiniteSet(U), NEW x \in U,
           \A y \in U : f[y] \in Int /\ h[y] \in Int,
           \A y \in U : y # x => h[y] = f[y]
    PROVE  /\ SumFunctionOnSet(f, U) \in Int /\ SumFunctionOnSet(h, U) \in Int
           /\ SumFunctionOnSet(h, U) = SumFunctionOnSet(f, U) - f[x] + h[x]
<1>1. IsFiniteSet(U \ {x})
  BY FS_RemoveElement
<1>2. SumFunctionOnSet(f, U \ {x}) = SumFunctionOnSet(h, U \ {x})
  <2>1. \A y \in U \ {x} : f[y] \in Int /\ f[y] = h[y]
    OBVIOUS
  <2> QED
    BY <1>1, <2>1, SumSame
<1>3. /\ SumFunctionOnSet(f, U) = f[x] + SumFunctionOnSet(f, U \ {x})
      /\ SumFunctionOnSet(f, U \ {x}) \in Int /\ SumFunctionOnSet(f, U) \in Int
  BY SumAny
<1>4. /\ SumFunctionOnSet(h, U) = h[x] + SumFunctionOnSet(h, U \ {x})
      /\ SumFunctionOnSet(h, U \ {x}) \in Int /\ SumFunctionOnSet(h, U) \in Int
  BY SumAny
<1>5. f[x] \in Int /\ h[x] \in Int
  OBVIOUS
<1> QED
  BY <1>2, <1>3, <1>4, <1>5

\* The negatives add up to the negative.
LEMMA SumNegate ==
    ASSUME NEW f, NEW h, NEW U, IsFiniteSet(U),
           \A x \in U : f[x] \in Int /\ h[x] = -f[x]
    PROVE  SumFunctionOnSet(h, U) = -SumFunctionOnSet(f, U)
<1> DEFINE P == {T \in SUBSET U : SumFunctionOnSet(f, T) + SumFunctionOnSet(h, T) = 0}
<1>1. {} \in P
  BY SumEmpty
<1>2. \A x \in U : f[x] \in Int /\ h[x] \in Int /\ f[x] + h[x] = 0
  OBVIOUS
<1>6. (\A x \in U : f[x] \in Int) /\ (\A x \in U : h[x] \in Int)
  OBVIOUS
<1>3. ASSUME NEW T \in SUBSET U, T \in P, NEW x \in U \ T
      PROVE  T \cup {x} \in P
  <2>1. /\ SumFunctionOnSet(f, T) \in Int
        /\ SumFunctionOnSet(f, T \cup {x}) = SumFunctionOnSet(f, T) + f[x]
    BY <1>6, SumAdd
  <2>2. /\ SumFunctionOnSet(h, T) \in Int
        /\ SumFunctionOnSet(h, T \cup {x}) = SumFunctionOnSet(h, T) + h[x]
    BY <1>6, SumAdd
  <2> QED
    BY <1>2, <1>3, <2>1, <2>2
<1> HIDE DEF P
<1>4. U \in P
  BY <1>1, <1>3, Gathered
<1>5. SumFunctionOnSet(f, U) \in Int /\ SumFunctionOnSet(h, U) \in Int
  BY <1>6, SumAny
<1> QED
  BY <1>4, <1>5 DEF P

\* Two sums, element by element.
AddsUp(f, h, k, U) == \A x \in U : k[x] \in Int /\ k[x] = f[x] + h[x]

LEMMA SumPlus ==
    ASSUME NEW f, NEW h, NEW k, NEW U, IsFiniteSet(U),
           \A x \in U : f[x] \in Int, \A x \in U : h[x] \in Int,
           AddsUp(f, h, k, U)
    PROVE  SumFunctionOnSet(k, U) = SumFunctionOnSet(f, U) + SumFunctionOnSet(h, U)
<1> DEFINE P == {T \in SUBSET U : SumFunctionOnSet(k, T) = SumFunctionOnSet(f, T) + SumFunctionOnSet(h, T)}
<1>1. {} \in P
  BY SumEmpty
<1>2. \A x \in U : k[x] \in Int
  BY DEF AddsUp
<1>3. \A T \in SUBSET U : \A x \in U \ T :
        /\ SumFunctionOnSet(f, T) \in Int
        /\ SumFunctionOnSet(f, T \cup {x}) = SumFunctionOnSet(f, T) + f[x]
  BY SumAdd
<1>4. \A T \in SUBSET U : \A x \in U \ T :
        /\ SumFunctionOnSet(h, T) \in Int
        /\ SumFunctionOnSet(h, T \cup {x}) = SumFunctionOnSet(h, T) + h[x]
  BY SumAdd
<1>5. \A T \in SUBSET U : \A x \in U \ T :
        SumFunctionOnSet(k, T \cup {x}) = SumFunctionOnSet(k, T) + k[x]
  BY <1>2, SumAdd
<1>6. \A T \in SUBSET U : T \in P => \A x \in U \ T : T \cup {x} \in P
  <2> SUFFICES ASSUME NEW T \in SUBSET U, T \in P, NEW x \in U \ T
               PROVE  T \cup {x} \in P
    OBVIOUS
  <2>1. f[x] \in Int /\ h[x] \in Int /\ k[x] = f[x] + h[x]
    BY DEF AddsUp
  <2> QED
    BY <1>3, <1>4, <1>5, <2>1
<1> HIDE DEF P
<1>7. U \in P
  BY <1>1, <1>6, Gathered
<1> QED
  BY <1>7 DEF P

-----------------------------------------------------------------------------
(* The net of a group, row by row.                                         *)

\* What a row finds in the book is the net the walk has reached.
LEMMA NetAtWalk ==
    ASSUME NEW S \in SUBSET Txn, NEW s \in Sec
    PROVE  /\ NetAt(S, s, 0) = 0
           /\ NetAt(S, s, Len(Row)) = NetQuantities(S)[s]
           /\ \A i : NetAt(S, s, i) \in Int
           /\ \A i \in Txn : NetAt(S, s, i) =
                IF i \in S /\ Row[i].sec = s THEN Stepped(NetAt(S, s, i - 1), i)
                                             ELSE NetAt(S, s, i - 1)
           /\ \A i \in Txn : Row[i].sec = s => Finds(S, i) = NetAt(S, s, i - 1)
<1>0. \A t \in Txn : t \in Int
  BY RowTypes
<1>1. ASSUME NEW i \in Txn, Row[i].sec = s
      PROVE  Finds(S, i) = NetAt(S, s, i - 1)
  <2>1. {u \in S : u < i} = Prefix(S, i - 1)
    BY <1>0 DEF Prefix
  <2> QED
    BY <1>1, <2>1 DEF Finds, NetAt
<1> QED
  BY <1>1, NetWalk

-----------------------------------------------------------------------------
(* Replay's order.                                                         *)

\* It is a strict order in which any two rows can be compared.
LEMMA ReplayOrder ==
    ASSUME NEW t \in Txn, NEW u \in Txn, NEW v \in Txn
    PROVE  /\ ~ReplayedBefore(t, t)
           /\ ReplayedBefore(t, u) /\ ReplayedBefore(u, v) => ReplayedBefore(t, v)
           /\ t = u \/ ReplayedBefore(t, u) \/ ReplayedBefore(u, t)
           /\ ReplayedBefore(t, u) => ~ReplayedBefore(u, t)
<1>1. /\ t \in Int /\ u \in Int /\ v \in Int
      /\ Row[t].at \in Int /\ Row[u].at \in Int /\ Row[v].at \in Int
  BY RowTypes
<1> QED
  BY <1>1 DEF ReplayedBefore

\* Replay visits every row, each once, in its order.
LEMMA ReplayVisits ==
    /\ \A i \in Txn : Replayed[i] \in Txn
    /\ \A i, j \in Txn : i < j => ReplayedBefore(Replayed[i], Replayed[j])
    /\ \A t \in Txn : \E i \in Txn : Replayed[i] = t
<1> DEFINE N == Len(Row)
           Earlier(t) == {u \in Txn : ReplayedBefore(u, t)}
           rank == [t \in Txn |-> Cardinality(Earlier(t)) + 1]
<1>1. N \in Nat /\ Txn = 1 .. N /\ IsFiniteSet(Txn) /\ Cardinality(Txn) = N
  <2>1. Cardinality(1 .. N) = N
    <3>1. 1 \in Int /\ N \in Nat
      BY RowTypes
    <3> HIDE DEF N
    <3>2. Cardinality(1 .. N) = IF 1 > N THEN 0 ELSE N - 1 + 1
      BY <3>1, FS_Interval
    <3> QED
      BY <3>1, <3>2
  <2> QED
    BY <2>1, RowTypes
<1>2. ASSUME NEW S \in SUBSET Txn
      PROVE  IsFiniteSet(S) /\ Cardinality(S) \in Nat
  BY <1>1, FS_Subset, FS_CardinalityType
<1>3. ASSUME NEW S \in SUBSET Txn, NEW T \in SUBSET S, NEW u \in S \ T
      PROVE  Cardinality(T) < Cardinality(S)
  <2>1. Cardinality(T) <= Cardinality(S) /\ Cardinality(T) # Cardinality(S)
    BY <1>2, FS_Subset
  <2>2. Cardinality(T) \in Nat /\ Cardinality(S) \in Nat
    BY <1>2
  <2> QED
    BY <2>1, <2>2
<1>4. ASSUME NEW t \in Txn
      PROVE  rank[t] \in Txn
  <2>1. Earlier(t) \in SUBSET Txn /\ t \in Txn \ Earlier(t)
    BY ReplayOrder
  <2>2. Cardinality(Earlier(t)) < Cardinality(Txn)
    BY <1>3, <2>1
  <2>3. Cardinality(Earlier(t)) \in Nat
    BY <1>2, <2>1
  <2> QED
    BY <1>1, <2>2, <2>3
<1>5. ASSUME NEW t \in Txn, NEW u \in Txn, ReplayedBefore(t, u)
      PROVE  rank[t] < rank[u]
  <2>1. /\ Earlier(t) \in SUBSET Earlier(u) /\ Earlier(u) \in SUBSET Txn
        /\ t \in Earlier(u) \ Earlier(t)
    BY <1>5, ReplayOrder
  <2>2. Cardinality(Earlier(t)) < Cardinality(Earlier(u))
    BY <1>3, <2>1
  <2>3. Cardinality(Earlier(t)) \in Nat /\ Cardinality(Earlier(u)) \in Nat
    BY <1>2
  <2> QED
    BY <2>2, <2>3
<1>6. \A t, u \in Txn : rank[t] = rank[u] => t = u
  <2> SUFFICES ASSUME NEW t \in Txn, NEW u \in Txn, rank[t] = rank[u], t # u
               PROVE  FALSE
    OBVIOUS
  <2>1. rank[t] < rank[u] \/ rank[u] < rank[t]
    BY <1>5, ReplayOrder
  <2>2. rank[t] \in Int /\ rank[u] \in Int
    BY <1>1, <1>4
  <2> QED
    BY <2>1, <2>2
<1>7. \A i \in Txn : Replayed[i] = CHOOSE t \in Txn : rank[t] = i
  <2> SUFFICES ASSUME NEW i \in Txn
               PROVE  Replayed[i] = CHOOSE t \in Txn : rank[t] = i
    OBVIOUS
  <2>1. \A t \in Txn : Cardinality(Earlier(t)) = i - 1 <=> rank[t] = i
    <3>1. i \in Int /\ \A t \in Txn : Cardinality(Earlier(t)) \in Int
      BY <1>1, <1>2
    <3> QED
      BY <3>1
  <2>2. Replayed[i] = CHOOSE t \in Txn : Cardinality(Earlier(t)) = i - 1
    BY DEF Replayed
  <2> HIDE DEF rank, Earlier
  <2> QED
    BY <2>1, <2>2
<1> HIDE DEF rank
<1>8. \A i \in Txn : \E t \in Txn : rank[t] = i
  <2>1. rank \in Injection(Txn, Txn)
    <3>1. rank \in [Txn -> Txn]
      BY <1>4 DEF rank
    <3> QED
      BY <1>6, <3>1 DEF Injection, IsInjective
  <2>2. rank \in Surjection(Txn, Txn)
    BY <1>1, <2>1, FS_Injection
  <2> QED
    BY <2>2 DEF Surjection
<1>9. \A i \in Txn : Replayed[i] \in Txn /\ rank[Replayed[i]] = i
  BY <1>7, <1>8
<1>10. ASSUME NEW i \in Txn, NEW j \in Txn, i < j
       PROVE  ReplayedBefore(Replayed[i], Replayed[j])
  <2>1. Replayed[i] # Replayed[j] /\ ~(rank[Replayed[j]] < rank[Replayed[i]])
    BY <1>1, <1>9, <1>10
  <2> QED
    BY <1>5, <1>9, <2>1, ReplayOrder
<1>11. \A t \in Txn : rank[t] \in Txn /\ Replayed[rank[t]] = t
  BY <1>4, <1>6, <1>9
<1> QED
  BY <1>9, <1>10, <1>11

-----------------------------------------------------------------------------
(* Lots.                                                                   *)

LotType == [net : Int, since : Int, until : Int, opened : Int, realised : Int,
            fees : SUBSET Txn]

HistoryType == [lot : LotType, had : BOOLEAN, closed : SUBSET LotType, marks : SUBSET Txn]

\* How far a row moves the account's net.
LEMMA DeltaCases ==
    ASSUME NEW net \in Int, NEW had \in BOOLEAN, NEW t \in Txn
    PROVE  LET dropped == Row[t].act \in ClosingActions /\ net = 0 /\ ~had
               plain   == Row[t].type # "Money Movement" /\ ~IsNontradeClose(t)
           IN  /\ Row[t].type = "Money Movement" => EffectiveDelta(net, had, t) = 0
               /\ IsNontradeClose(t) =>
                    EffectiveDelta(net, had, t) = TowardZero(net, Row[t].qty) - net
               /\ plain /\ dropped => EffectiveDelta(net, had, t) = 0
               /\ plain /\ ~dropped => EffectiveDelta(net, had, t) = SignedDelta(t)
<1> DEFINE dropped == Row[t].act \in ClosingActions /\ net = 0 /\ ~had
<1>1. Row[t].type = "Money Movement" => EffectiveDelta(net, had, t) = 0
  BY DEF EffectiveDelta, IsNontradeClose
<1>2. ASSUME IsNontradeClose(t)
      PROVE  EffectiveDelta(net, had, t) = TowardZero(net, Row[t].qty) - net
  <2>1. Row[t].type # "Money Movement"
    BY <1>2 DEF IsNontradeClose
  <2>2. net = 0 => TowardZero(net, Row[t].qty) - net = 0
    BY RowTypes DEF TowardZero, Lower
  <2> QED
    BY <1>2, <2>1, <2>2 DEF EffectiveDelta
<1>3. ASSUME Row[t].type # "Money Movement", ~IsNontradeClose(t)
      PROVE  EffectiveDelta(net, had, t) = IF dropped THEN 0 ELSE SignedDelta(t)
  BY <1>3 DEF EffectiveDelta
<1> HIDE DEF EffectiveDelta
<1> QED
  BY <1>1, <1>2, <1>3

LEMMA DeltaType ==
    ASSUME NEW net \in Int, NEW had \in BOOLEAN, NEW t \in Txn
    PROVE  /\ EffectiveDelta(net, had, t) \in Int
           /\ SignedDelta(t) \in Int
           /\ SignedDelta(t) = Row[t].qty \/ SignedDelta(t) = -Row[t].qty
           /\ Abs(EffectiveDelta(net, had, t)) <= Row[t].qty
           /\ ~IsNontradeClose(t) /\ EffectiveDelta(net, had, t) # 0
                => Abs(EffectiveDelta(net, had, t)) = Row[t].qty
<1>1. Row[t].qty \in Nat
  BY RowTypes
<1>2. SignedDelta(t) = Row[t].qty \/ SignedDelta(t) = -Row[t].qty
  BY Zenon DEF SignedDelta
<1> HIDE DEF SignedDelta
<1>3. SignedDelta(t) \in Int
  BY <1>1, <1>2
<1>4. \/ EffectiveDelta(net, had, t) = 0
      \/ EffectiveDelta(net, had, t) = SignedDelta(t)
      \/ /\ EffectiveDelta(net, had, t) = TowardZero(net, Row[t].qty) - net
         /\ IsNontradeClose(t)
  BY DeltaCases
<1> HIDE DEF EffectiveDelta
<1>5. TowardZero(net, Row[t].qty) - net \in Int
      /\ Abs(TowardZero(net, Row[t].qty) - net) <= Row[t].qty
  BY <1>1 DEF TowardZero, Lower, Abs
<1>6. Abs(0) = 0 /\ Abs(SignedDelta(t)) = Row[t].qty
  BY <1>1, <1>2, <1>3 DEF Abs
<1> QED
  BY <1>1, <1>2, <1>3, <1>4, <1>5, <1>6

\* A lot after a row.
LEMMA LotTypes ==
    ASSUME NEW lot \in LotType, NEW delta \in Int, NEW t \in Txn, NEW fees \in SUBSET Txn
    PROVE  /\ FlatLot \in LotType
           /\ NewLot(t, delta, fees) \in LotType
           /\ Added(lot, delta, t) \in LotType
           /\ Reduced(lot, delta, t) \in LotType
           /\ \A d \in LotType : [d EXCEPT !.until = t] \in LotType
<1>1. /\ Abs(delta) \in Int /\ lot.net + delta \in Int
      /\ lot.opened + Abs(delta) \in Int /\ TowardZero(lot.net, Abs(delta)) \in Int
      /\ lot.realised + Lower(Abs(delta), Abs(lot.net)) \in Int
  BY DEF LotType, Abs, Lower, TowardZero
<1>2. t \in Int /\ lot.fees \cup {t} \in SUBSET Txn
  BY RowTypes DEF LotType
<1>3. FlatLot \in LotType
  BY DEF FlatLot, LotType
<1>4. \A d \in LotType : \A n, o \in Int, c \in SUBSET Txn :
            [d EXCEPT !.net = n, !.since = t, !.opened = o, !.fees = c] \in LotType
  BY <1>2 DEF LotType
<1>5. \A n, o \in Int, c \in SUBSET Txn :
            [lot EXCEPT !.net = n, !.opened = o, !.fees = c] \in LotType
  BY DEF LotType
<1>6. \A n, r \in Int, c \in SUBSET Txn :
            [lot EXCEPT !.net = n, !.realised = r, !.fees = c] \in LotType
  BY DEF LotType
<1>7. \A d \in LotType : [d EXCEPT !.until = t] \in LotType
  BY <1>2 DEF LotType
<1> HIDE DEF LotType
<1> QED
  BY <1>1, <1>2, <1>3, <1>4, <1>5, <1>6, <1>7 DEF NewLot, Added, Reduced

\* A step of the rebuild, case by case.
LEMMA ReplayRowCases ==
    ASSUME NEW book \in HistoryType, NEW t \in Txn
    PROVE  LET lot   == book.lot
               delta == EffectiveDelta(lot.net, book.had, t)
               done  == Reduced(lot, delta, t)
               after == ReplayRow(book, t)
           IN  /\ delta \in Int
               /\ after \in HistoryType
               /\ delta = 0 \/ ~HasPrice(t) => after = book
               /\ delta # 0 /\ HasPrice(t) =>
                    /\ after.had = TRUE
                    /\ \/ /\ lot.net = 0
                          /\ after.lot = NewLot(t, delta, {t}) /\ after.closed = book.closed
                       \/ /\ lot.net * delta > 0
                          /\ after.lot = Added(lot, delta, t) /\ after.closed = book.closed
                       \/ /\ lot.net * delta < 0 /\ done.net # 0
                          /\ after.lot = done /\ after.closed = book.closed
                       \/ /\ lot.net * delta < 0 /\ done.net = 0
                          /\ after.lot = AfterReducing(lot, delta, t)
                          /\ after.closed = book.closed \cup {[done EXCEPT !.until = t]}
<1> DEFINE lot   == book.lot
           delta == EffectiveDelta(lot.net, book.had, t)
           done  == Reduced(lot, delta, t)
           next  == AfterReducing(lot, delta, t)
           ended == [done EXCEPT !.until = t]
           marks == [book EXCEPT !.had = TRUE, !.marks = @ \cup {t}]
           opens == [marks EXCEPT !.lot = NewLot(t, delta, {t})]
           adds  == [marks EXCEPT !.lot = Added(lot, delta, t)]
           takes == [marks EXCEPT !.lot = done]
           ends  == [marks EXCEPT !.lot    = next,
                                  !.closed = @ \cup {ended},
                                  !.marks  = IF next.net = 0 THEN book.marks ELSE @]
           after == ReplayRow(book, t)
<1>1. lot \in LotType /\ lot.net \in Int /\ book.had \in BOOLEAN /\ {t} \in SUBSET Txn
  BY DEF HistoryType, LotType
<1>2. delta \in Int
  BY <1>1, DeltaType
<1>3. after = IF delta = 0 \/ ~HasPrice(t) THEN book
              ELSE CASE lot.net = 0 -> opens
                     [] lot.net * delta > 0 -> adds
                     [] lot.net * delta < 0 /\ done.net # 0 -> takes
                     [] OTHER -> ends
  BY DEF ReplayRow
<1>4. /\ NewLot(t, delta, {t}) \in LotType /\ Added(lot, delta, t) \in LotType
      /\ done \in LotType /\ ended \in LotType /\ next \in LotType
  <2>1. /\ FlatLot \in LotType
        /\ NewLot(t, delta, {t}) \in LotType
        /\ Added(lot, delta, t) \in LotType
        /\ done \in LotType
        /\ \A d \in LotType : [d EXCEPT !.until = t] \in LotType
    BY <1>1, <1>2, LotTypes
  <2> HIDE DEF done, delta
  <2>2. lot.net + delta \in Int /\ {} \in SUBSET Txn
    BY <1>1, <1>2
  <2>3. NewLot(t, lot.net + delta, {}) \in LotType
    BY <1>1, <2>2, LotTypes
  <2> QED
    BY <2>1, <2>3 DEF AfterReducing
<1>5. /\ marks \in HistoryType
      /\ marks.had = TRUE /\ marks.closed = book.closed /\ marks.marks \in SUBSET Txn
  <2>1. book.marks \cup {t} \in SUBSET Txn
    BY DEF HistoryType
  <2>2. \A m \in SUBSET Txn : [book EXCEPT !.had = TRUE, !.marks = m] \in HistoryType
    BY DEF HistoryType
  <2> QED
    BY <2>1, <2>2 DEF HistoryType
<1> HIDE DEF marks, done, delta, ended, next
<1>6. /\ opens \in HistoryType /\ adds \in HistoryType /\ takes \in HistoryType
      /\ opens.lot = NewLot(t, delta, {t}) /\ opens.had = TRUE /\ opens.closed = book.closed
      /\ adds.lot = Added(lot, delta, t) /\ adds.had = TRUE /\ adds.closed = book.closed
      /\ takes.lot = done /\ takes.had = TRUE /\ takes.closed = book.closed
  <2>1. \A l \in LotType : LET m == [marks EXCEPT !.lot = l]
                           IN  m \in HistoryType /\ m.lot = l /\ m.had = TRUE /\ m.closed = book.closed
    BY <1>5 DEF HistoryType
  <2> QED
    BY <1>4, <2>1
<1>7. ends \in HistoryType /\ ends.lot = next /\ ends.had = TRUE
      /\ ends.closed = book.closed \cup {ended}
  <2>1. book.closed \cup {ended} \in SUBSET LotType
    BY <1>4 DEF HistoryType
  <2>2. (IF next.net = 0 THEN book.marks ELSE marks.marks) \in SUBSET Txn
    BY <1>5 DEF HistoryType
  <2>3. \A c \in SUBSET LotType, k \in SUBSET Txn :
            LET m == [marks EXCEPT !.lot = next, !.closed = c, !.marks = k]
            IN  m \in HistoryType /\ m.lot = next /\ m.had = TRUE /\ m.closed = c
    BY <1>4, <1>5 DEF HistoryType
  <2>4. ends = [marks EXCEPT !.lot = next, !.closed = book.closed \cup {ended},
                             !.marks = IF next.net = 0 THEN book.marks ELSE marks.marks]
    BY <1>5 DEF HistoryType
  <2> HIDE DEF ends
  <2> QED
    BY <2>1, <2>2, <2>3, <2>4
<1> HIDE DEF opens, adds, takes, ends, after
<1>8. lot.net # 0 /\ delta # 0 /\ ~(lot.net * delta > 0) => lot.net * delta < 0
  BY <1>1, <1>2, ProductSign
<1>9. lot.net = 0 => lot.net * delta = 0
  BY <1>1, <1>2, ProductSign
<1>10. lot.net * delta \in Int
  BY <1>1, <1>2, ProductSign
<1> DEFINE p == lot.net * delta
<1>11. /\ delta = 0 \/ ~HasPrice(t) => after = book
       /\ delta # 0 /\ HasPrice(t) =>
            \/ lot.net = 0 /\ after = opens
            \/ p > 0 /\ after = adds
            \/ p < 0 /\ done.net # 0 /\ after = takes
            \/ p < 0 /\ done.net = 0 /\ after = ends
  <2>1. p \in Int /\ (lot.net = 0 => p = 0) /\ (lot.net # 0 /\ delta # 0 /\ ~(p > 0) => p < 0)
    BY <1>8, <1>9, <1>10
  <2>2. after = IF delta = 0 \/ ~HasPrice(t) THEN book
              ELSE CASE lot.net = 0 -> opens
                     [] p > 0 -> adds
                     [] p < 0 /\ done.net # 0 -> takes
                     [] OTHER -> ends
    BY <1>3
  <2> HIDE DEF p
  <2> QED
    BY <2>1, <2>2
<1>12. after \in HistoryType
  BY <1>6, <1>7, <1>11
<1> QED
  BY <1>2, <1>6, <1>7, <1>11, <1>12 DEF delta, done, ended, next, after

\* The two copies of the rules say the same of a row.
LEMMA SkippedDelta ==
    ASSUME NEW net \in Int, NEW had \in BOOLEAN, NEW t \in Txn
    PROVE  IF IsSkipped(net, had, t) THEN EffectiveDelta(net, had, t) = 0
           ELSE EffectiveDelta(net, had, t) # 0 /\ NetDelta(net, t) = EffectiveDelta(net, had, t)
<1>1. Row[t].qty \in Nat \ {0}
  BY RowTypes
<1>2. CASE Row[t].type = "Money Movement"
  BY <1>2, DeltaCases DEF IsSkipped
<1>3. CASE IsNontradeClose(t)
  <2>1. EffectiveDelta(net, had, t) = TowardZero(net, Row[t].qty) - net
    BY <1>3, DeltaCases
  <2>2. Row[t].type # "Money Movement"
    BY <1>3 DEF IsNontradeClose
  <2>3. IsSkipped(net, had, t) <=> net = 0
    BY <1>3, <2>2 DEF IsSkipped
  <2>4. NetDelta(net, t) = IF net > 0 THEN -Lower(Row[t].qty, net) ELSE Lower(Row[t].qty, -net)
    BY <1>3 DEF NetDelta
  <2> QED
    BY <1>1, <2>1, <2>3, <2>4 DEF TowardZero, Lower
<1>4. CASE Row[t].type # "Money Movement" /\ ~IsNontradeClose(t)
  <2> DEFINE dropped == Row[t].act \in ClosingActions /\ net = 0 /\ ~had
  <2>1. EffectiveDelta(net, had, t) = IF dropped THEN 0 ELSE SignedDelta(t)
    BY <1>4, DeltaCases
  <2>2. IsSkipped(net, had, t) <=> dropped
    BY <1>4 DEF IsSkipped
  <2>3. NetDelta(net, t) = SignedDelta(t)
    BY <1>4 DEF NetDelta
  <2>4. SignedDelta(t) # 0
    BY <1>1, DeltaType
  <2> HIDE DEF dropped
  <2> QED
    BY <2>1, <2>2, <2>3, <2>4
<1> QED
  BY <1>2, <1>3, <1>4

\* A step of the quantity walk.
LEMMA NetRowCases ==
    ASSUME NEW book \in HistoryType, NEW t \in Txn
    PROVE  LET delta == EffectiveDelta(book.lot.net, book.had, t)
               after == NetRow(book, t)
           IN  /\ delta \in Int
               /\ after \in HistoryType
               /\ delta = 0 => after = book
               /\ delta # 0 => after.had = TRUE /\ after.lot.net = book.lot.net + delta
<1> DEFINE delta == EffectiveDelta(book.lot.net, book.had, t)
           lot   == [book.lot EXCEPT !.net = @ + delta]
<1>1. book.lot \in LotType /\ book.lot.net \in Int /\ book.had \in BOOLEAN
  BY DEF HistoryType, LotType
<1>2. delta \in Int
  BY <1>1, DeltaType
<1>3. NetRow(book, t) = IF delta = 0 THEN book
                        ELSE [book EXCEPT !.lot = lot, !.had = TRUE]
  <2>1. IsSkipped(book.lot.net, book.had, t) => delta = 0
    BY <1>1, SkippedDelta
  <2>2. ~IsSkipped(book.lot.net, book.had, t) => delta # 0 /\ NetDelta(book.lot.net, t) = delta
    BY <1>1, SkippedDelta
  <2> HIDE DEF delta
  <2> QED
    BY <2>1, <2>2 DEF NetRow
<1> HIDE DEF delta
<1>4. lot \in LotType /\ lot.net = book.lot.net + delta
  <2>1. book.lot.net + delta \in Int
    BY <1>1, <1>2
  <2>2. \A n \in Int : LET l == [book.lot EXCEPT !.net = n] IN l \in LotType /\ l.net = n
    BY <1>1 DEF LotType
  <2> QED
    BY <2>1, <2>2
<1>5. \A l \in LotType : LET b == [book EXCEPT !.lot = l, !.had = TRUE]
                         IN  b \in HistoryType /\ b.lot = l /\ b.had = TRUE
  BY DEF HistoryType
<1> HIDE DEF lot
<1> QED
  BY <1>2, <1>3, <1>4, <1>5 DEF delta

\* A step of the price walk: what it adds to the lot, and what it takes.
LEMMA PriceRowCases ==
    ASSUME NEW book \in HistoryType, NEW t \in Txn
    PROVE  LET lot   == book.lot
               delta == ClampedDelta(lot.net, EffectiveDelta(lot.net, book.had, t))
               taken == IF lot.net * delta < 0 THEN Lower(Abs(delta), Abs(lot.net)) ELSE 0
               after == PriceRow(book, t)
           IN  /\ delta \in Int /\ taken \in Int
               /\ after \in HistoryType
               /\ delta = 0 \/ ~HasPrice(t) => after = book
               /\ delta # 0 /\ HasPrice(t) =>
                    /\ after.lot.net = lot.net + delta
                    /\ after.lot.opened = lot.opened + Abs(delta) - taken
                    /\ after.lot.realised = lot.realised + taken
<1> DEFINE lot   == book.lot
           moved == EffectiveDelta(lot.net, book.had, t)
           delta == ClampedDelta(lot.net, moved)
           taken == IF lot.net * delta < 0 THEN Lower(Abs(delta), Abs(lot.net)) ELSE 0
           next  == [lot EXCEPT !.net = @ + delta, !.opened = @ + Abs(delta) - taken,
                                !.realised = @ + taken]
<1>1. /\ lot \in LotType /\ book.had \in BOOLEAN
      /\ lot.net \in Int /\ lot.opened \in Int /\ lot.realised \in Int
  BY DEF HistoryType, LotType
<1>2. moved \in Int
  BY <1>1, DeltaType
<1> HIDE DEF moved
<1>3. delta \in Int
  BY <1>1, <1>2 DEF ClampedDelta, TowardZero, Abs, Lower
<1>4. PriceRow(book, t) = IF delta = 0 \/ ~HasPrice(t) THEN book
                          ELSE [book EXCEPT !.had = TRUE, !.lot = next]
  BY DEF PriceRow, moved
<1> HIDE DEF delta
<1>5. taken \in Int /\ Abs(delta) \in Int
  BY <1>1, <1>3 DEF Abs, Lower
<1> HIDE DEF taken
<1>6. /\ next \in LotType
      /\ next.net = lot.net + delta
      /\ next.opened = lot.opened + Abs(delta) - taken
      /\ next.realised = lot.realised + taken
  <2>1. /\ lot.net + delta \in Int /\ lot.opened + Abs(delta) - taken \in Int
        /\ lot.realised + taken \in Int
    BY <1>1, <1>3, <1>5
  <2> HIDE DEF lot
  <2>2. \A n, o, r \in Int : [lot EXCEPT !.net = n, !.opened = o, !.realised = r] \in LotType
    BY <1>1 DEF LotType
  <2>3. /\ next.net = lot.net + delta
        /\ next.opened = lot.opened + Abs(delta) - taken
        /\ next.realised = lot.realised + taken
    BY <1>1, <2>1 DEF LotType
  <2> QED
    BY <2>1, <2>2, <2>3
<1>7. \A l \in LotType : LET b == [book EXCEPT !.had = TRUE, !.lot = l]
                         IN  b \in HistoryType /\ b.lot = l
  BY DEF HistoryType
<1> HIDE DEF next
<1> QED
  BY <1>3, <1>4, <1>5, <1>6, <1>7 DEF delta, taken, moved

-----------------------------------------------------------------------------
(* The walks over the account's rows, in replay's order.                   *)

\* A recursion that takes the same steps ends where the walk does.
LEMMA WalkUnique ==
    ASSUME NEW N \in Nat, NEW B, NEW start \in B, NEW step, StaysIn(N, B, step),
           NEW v \in Walks(N, B, start, step),
           NEW w, w[0] = start, \A i \in 1 .. N : w[i - 1] \in B => w[i] = step[i][w[i - 1]]
    PROVE  w[N] = v[N]
<1> DEFINE E == {n \in 0 .. N : w[n] = v[n]}
<1>1. v \in [0 .. N -> B] /\ v[0] = start /\ \A i \in 1 .. N : v[i] = step[i][v[i - 1]]
  BY DEF Walks
<1>2. 0 \in E
  BY <1>1
<1>3. ASSUME NEW n \in 0 .. N, n # 0, n - 1 \in E
      PROVE  n \in E
  BY <1>1, <1>3
<1> HIDE DEF E
<1>4. \A n \in 0 .. N : n \in E
  BY <1>2, <1>3, UpTo
<1> QED
  BY <1>4 DEF E

\* Whether the i-th row of replay is one of the rows of S in security s.
Visits(S, s, i) == Replayed[i] \in S /\ Row[Replayed[i]].sec = s

LEMMA NoHistoryType == NoHistory \in HistoryType
<1>1. FlatLot \in LotType
  BY DEF FlatLot, LotType
<1> QED
  BY <1>1 DEF NoHistory, HistoryType

\* The quantity walk.
LEMMA NetOpenWalk ==
    ASSUME NEW S \in SUBSET Txn, NEW s \in Sec
    PROVE  \E w \in [0 .. Len(Row) -> HistoryType] :
                /\ w[0] = NoHistory
                /\ \A i \in Txn :
                    w[i] = IF Visits(S, s, i) THEN NetRow(w[i - 1], Replayed[i]) ELSE w[i - 1]
                /\ NetOpenQuantity(S, s) = w[Len(Row)].lot.net
<1> DEFINE N == Len(Row)
           Step(b, i) == IF Visits(S, s, i) THEN NetRow(b, Replayed[i]) ELSE b
           IsWalk(f) == f = [i \in 0 .. N |-> IF i = 0 THEN NoHistory ELSE Step(f[i - 1], i)]
           w == CHOOSE f : IsWalk(f)
           step == [i \in 1 .. N |-> [b \in HistoryType |-> Step(b, i)]]
<1>1. NetOpenQuantity(S, s) = w[N].lot.net
  BY DEF NetOpenQuantity, Walk, Visits
<1>2. N \in Nat
  BY RowTypes
<1>3. NoHistory \in HistoryType
  BY NoHistoryType
<1>4. \A b \in HistoryType, i \in 1 .. N : Step(b, i) \in HistoryType
  BY NetRowCases, ReplayVisits, RowTypes
<1>5. \A b \in HistoryType, i \in 1 .. N : step[i][b] = Step(b, i)
  OBVIOUS
<1>6. Txn = 1 .. N
  BY RowTypes
<1> HIDE DEF Step, N, step
<1>7. StaysIn(N, HistoryType, step)
  BY <1>4, <1>5 DEF StaysIn
<1>8. PICK v : v \in Walks(N, HistoryType, NoHistory, step)
  BY <1>2, <1>3, <1>7, WalkExists
<1>9. /\ v \in [0 .. N -> HistoryType] /\ v[0] = NoHistory
      /\ \A i \in 1 .. N : v[i - 1] \in HistoryType /\ v[i] = Step(v[i - 1], i)
  <2>1. /\ v \in [0 .. N -> HistoryType] /\ v[0] = NoHistory
        /\ \A i \in 1 .. N : v[i] = step[i][v[i - 1]]
    BY <1>8 DEF Walks
  <2>2. \A i \in 1 .. N : v[i - 1] \in HistoryType
    BY <1>2, <2>1
  <2> QED
    BY <1>5, <2>1, <2>2
<1>10. IsWalk(v)
  <2>1. \A i \in 0 .. N : v[i] = IF i = 0 THEN NoHistory ELSE Step(v[i - 1], i)
    BY <1>2, <1>9
  <2> QED
    BY <1>9, <2>1
<1>11. IsWalk(w)
  BY <1>10
<1> HIDE DEF w
<1>12. w[0] = NoHistory /\ \A i \in 1 .. N : w[i] = Step(w[i - 1], i)
  BY <1>2, <1>11
<1> HIDE DEF IsWalk
<1>13. \A i \in 1 .. N : w[i - 1] \in HistoryType => w[i] = step[i][w[i - 1]]
  BY <1>5, <1>12
<1>14. w[N] = v[N]
  BY <1>2, <1>3, <1>7, <1>8, <1>12, <1>13, WalkUnique
<1> QED
  BY <1>1, <1>6, <1>9, <1>14 DEF Step, N

\* The rebuild.
LEMMA RebuildWalk ==
    ASSUME NEW S \in SUBSET Txn, NEW s \in Sec
    PROVE  \E w \in [0 .. Len(Row) -> HistoryType] :
                /\ w[0] = NoHistory
                /\ \A i \in Txn :
                    w[i] = IF Visits(S, s, i) THEN ReplayRow(w[i - 1], Replayed[i]) ELSE w[i - 1]
                /\ ReplaySecurity(S, s) = w[Len(Row)]
<1> DEFINE N == Len(Row)
           Step(b, i) == IF Visits(S, s, i) THEN ReplayRow(b, Replayed[i]) ELSE b
           IsWalk(f) == f = [i \in 0 .. N |-> IF i = 0 THEN NoHistory ELSE Step(f[i - 1], i)]
           w == CHOOSE f : IsWalk(f)
           step == [i \in 1 .. N |-> [b \in HistoryType |-> Step(b, i)]]
<1>1. ReplaySecurity(S, s) = w[N]
  BY DEF ReplaySecurity, Walk, Visits
<1>2. N \in Nat
  BY RowTypes
<1>3. NoHistory \in HistoryType
  BY NoHistoryType
<1>4. \A b \in HistoryType, i \in 1 .. N : Step(b, i) \in HistoryType
  BY ReplayRowCases, ReplayVisits, RowTypes
<1>5. \A b \in HistoryType, i \in 1 .. N : step[i][b] = Step(b, i)
  OBVIOUS
<1>6. Txn = 1 .. N
  BY RowTypes
<1> HIDE DEF Step, N, step
<1>7. StaysIn(N, HistoryType, step)
  BY <1>4, <1>5 DEF StaysIn
<1>8. PICK v : v \in Walks(N, HistoryType, NoHistory, step)
  BY <1>2, <1>3, <1>7, WalkExists
<1>9. /\ v \in [0 .. N -> HistoryType] /\ v[0] = NoHistory
      /\ \A i \in 1 .. N : v[i - 1] \in HistoryType /\ v[i] = Step(v[i - 1], i)
  <2>1. /\ v \in [0 .. N -> HistoryType] /\ v[0] = NoHistory
        /\ \A i \in 1 .. N : v[i] = step[i][v[i - 1]]
    BY <1>8 DEF Walks
  <2>2. \A i \in 1 .. N : v[i - 1] \in HistoryType
    BY <1>2, <2>1
  <2> QED
    BY <1>5, <2>1, <2>2
<1>10. IsWalk(v)
  <2>1. \A i \in 0 .. N : v[i] = IF i = 0 THEN NoHistory ELSE Step(v[i - 1], i)
    BY <1>2, <1>9
  <2> QED
    BY <1>9, <2>1
<1>11. IsWalk(w)
  BY <1>10
<1> HIDE DEF w
<1>12. w[0] = NoHistory /\ \A i \in 1 .. N : w[i] = Step(w[i - 1], i)
  BY <1>2, <1>11
<1> HIDE DEF IsWalk
<1>13. \A i \in 1 .. N : w[i - 1] \in HistoryType => w[i] = step[i][w[i - 1]]
  BY <1>5, <1>12
<1>14. w[N] = v[N]
  BY <1>2, <1>3, <1>7, <1>8, <1>12, <1>13, WalkUnique
<1> QED
  BY <1>1, <1>6, <1>9, <1>14 DEF Step, N

\* The price walk.
LEMMA PriceWalk ==
    ASSUME NEW S \in SUBSET Txn, NEW s \in Sec
    PROVE  \E w \in [0 .. Len(Row) -> HistoryType] :
                /\ w[0] = NoHistory
                /\ \A i \in Txn :
                    w[i] = IF Visits(S, s, i) THEN PriceRow(w[i - 1], Replayed[i]) ELSE w[i - 1]
                /\ PriceRealized(S, s) = w[Len(Row)].lot
<1> DEFINE N == Len(Row)
           Step(b, i) == IF Visits(S, s, i) THEN PriceRow(b, Replayed[i]) ELSE b
           IsWalk(f) == f = [i \in 0 .. N |-> IF i = 0 THEN NoHistory ELSE Step(f[i - 1], i)]
           w == CHOOSE f : IsWalk(f)
           step == [i \in 1 .. N |-> [b \in HistoryType |-> Step(b, i)]]
<1>1. PriceRealized(S, s) = w[N].lot
  BY DEF PriceRealized, Walk, Visits
<1>2. N \in Nat
  BY RowTypes
<1>3. NoHistory \in HistoryType
  BY NoHistoryType
<1>4. \A b \in HistoryType, i \in 1 .. N : Step(b, i) \in HistoryType
  BY PriceRowCases, ReplayVisits, RowTypes
<1>5. \A b \in HistoryType, i \in 1 .. N : step[i][b] = Step(b, i)
  OBVIOUS
<1>6. Txn = 1 .. N
  BY RowTypes
<1> HIDE DEF Step, N, step
<1>7. StaysIn(N, HistoryType, step)
  BY <1>4, <1>5 DEF StaysIn
<1>8. PICK v : v \in Walks(N, HistoryType, NoHistory, step)
  BY <1>2, <1>3, <1>7, WalkExists
<1>9. /\ v \in [0 .. N -> HistoryType] /\ v[0] = NoHistory
      /\ \A i \in 1 .. N : v[i - 1] \in HistoryType /\ v[i] = Step(v[i - 1], i)
  <2>1. /\ v \in [0 .. N -> HistoryType] /\ v[0] = NoHistory
        /\ \A i \in 1 .. N : v[i] = step[i][v[i - 1]]
    BY <1>8 DEF Walks
  <2>2. \A i \in 1 .. N : v[i - 1] \in HistoryType
    BY <1>2, <2>1
  <2> QED
    BY <1>5, <2>1, <2>2
<1>10. IsWalk(v)
  <2>1. \A i \in 0 .. N : v[i] = IF i = 0 THEN NoHistory ELSE Step(v[i - 1], i)
    BY <1>2, <1>9
  <2> QED
    BY <1>9, <2>1
<1>11. IsWalk(w)
  BY <1>10
<1> HIDE DEF w
<1>12. w[0] = NoHistory /\ \A i \in 1 .. N : w[i] = Step(w[i - 1], i)
  BY <1>2, <1>11
<1> HIDE DEF IsWalk
<1>13. \A i \in 1 .. N : w[i - 1] \in HistoryType => w[i] = step[i][w[i - 1]]
  BY <1>5, <1>12
<1>14. w[N] = v[N]
  BY <1>2, <1>3, <1>7, <1>8, <1>12, <1>13, WalkUnique
<1> QED
  BY <1>1, <1>6, <1>9, <1>14 DEF Step, N

-----------------------------------------------------------------------------
(* The quantity walk and the rebuild.                                      *)

\* A priced row moves the rebuild's lot as far as its effective delta says.
LEMMA ReplayRowMoves ==
    ASSUME NEW book \in HistoryType, NEW t \in Txn, HasPrice(t)
    PROVE  LET delta == EffectiveDelta(book.lot.net, book.had, t)
           IN  /\ ReplayRow(book, t).lot.net = book.lot.net + delta
               /\ ReplayRow(book, t).had = (book.had \/ delta # 0)
<1> DEFINE lot   == book.lot
           delta == EffectiveDelta(lot.net, book.had, t)
           done  == Reduced(lot, delta, t)
           after == ReplayRow(book, t)
<1>1. lot \in LotType /\ lot.net \in Int /\ book.had \in BOOLEAN
  BY DEF HistoryType, LotType
<1>2. delta \in Int
  BY ReplayRowCases
<1>3. delta = 0 => after = book
  BY ReplayRowCases
<1>4. delta # 0 =>
        /\ after.had = TRUE
        /\ \/ lot.net = 0 /\ after.lot = NewLot(t, delta, {t})
           \/ lot.net * delta > 0 /\ after.lot = Added(lot, delta, t)
           \/ lot.net * delta < 0 /\ done.net # 0 /\ after.lot = done
           \/ lot.net * delta < 0 /\ done.net = 0 /\ after.lot = AfterReducing(lot, delta, t)
  BY ReplayRowCases
<1> HIDE DEF delta, after
<1>5. /\ NewLot(t, delta, {t}).net = delta
      /\ NewLot(t, lot.net + delta, {}).net = lot.net + delta
      /\ FlatLot.net = 0
  BY DEF NewLot, FlatLot
<1>6. Added(lot, delta, t).net = lot.net + delta /\ done.net = TowardZero(lot.net, Abs(delta))
  BY <1>1 DEF Added, Reduced, LotType
<1>7. lot.net * delta < 0 =>
        /\ done.net # 0 => done.net = lot.net + delta
        /\ done.net = 0 => AfterReducing(lot, delta, t).net = lot.net + delta
  <2> SUFFICES ASSUME lot.net * delta < 0
               PROVE  /\ done.net # 0 => done.net = lot.net + delta
                      /\ done.net = 0 => AfterReducing(lot, delta, t).net = lot.net + delta
    OBVIOUS
  <2>1. (lot.net > 0 /\ delta < 0) \/ (lot.net < 0 /\ delta > 0)
    BY <1>1, <1>2, ProductSign
  <2>2. IF Abs(delta) < Abs(lot.net)
        THEN done.net = lot.net + delta /\ done.net # 0
        ELSE done.net = 0 /\ (Abs(delta) = Abs(lot.net) => lot.net + delta = 0)
    BY <1>1, <1>2, <1>6, <2>1 DEF TowardZero, Lower, Abs
  <2>3. AfterReducing(lot, delta, t).net =
            IF Abs(delta) > Abs(lot.net) THEN lot.net + delta ELSE 0
    BY <1>5, Zenon DEF AfterReducing
  <2>4. Abs(delta) \in Int /\ Abs(lot.net) \in Int
    BY <1>1, <1>2 DEF Abs
  <2> HIDE DEF done
  <2> QED
    BY <2>2, <2>3, <2>4
<1>8. after.lot.net = lot.net + delta
  <2>1. CASE delta = 0
    BY <1>1, <1>3, <2>1
  <2>2. CASE delta # 0
    <3>1. lot.net = 0 /\ after.lot = NewLot(t, delta, {t}) => after.lot.net = lot.net + delta
      BY <1>1, <1>2, <1>5
    <3>2. after.lot = Added(lot, delta, t) => after.lot.net = lot.net + delta
      BY <1>6
    <3>3. lot.net * delta < 0 /\ done.net # 0 /\ after.lot = done => after.lot.net = lot.net + delta
      BY <1>7
    <3>4. lot.net * delta < 0 /\ done.net = 0 /\ after.lot = AfterReducing(lot, delta, t)
            => after.lot.net = lot.net + delta
      BY <1>7
    <3> HIDE DEF done, lot
    <3> QED
      BY <1>4, <2>2, <3>1, <3>2, <3>3, <3>4
  <2> QED
    BY <2>1, <2>2
<1>9. after.had = (book.had \/ delta # 0)
  BY <1>1, <1>3, <1>4
<1> QED
  BY <1>8, <1>9 DEF delta, after

\* Over priced rows the quantity walk ends at the rebuild's lot.
LEMMA QuantityIsRebuilt ==
    ASSUME NEW S \in SUBSET Txn, NEW s \in Sec, Trades(S, s) \cap Unpriced = {}
    PROVE  NetOpenQuantity(S, s) = ReplaySecurity(S, s).lot.net
<1> DEFINE N == Len(Row)
<1>0. N \in Nat /\ Txn = 1 .. N
  BY RowTypes
<1>1. PICK w \in [0 .. N -> HistoryType] :
            /\ w[0] = NoHistory
            /\ \A i \in Txn :
                w[i] = IF Visits(S, s, i) THEN NetRow(w[i - 1], Replayed[i]) ELSE w[i - 1]
            /\ NetOpenQuantity(S, s) = w[N].lot.net
  BY NetOpenWalk
<1>2. PICK v \in [0 .. N -> HistoryType] :
            /\ v[0] = NoHistory
            /\ \A i \in Txn :
                v[i] = IF Visits(S, s, i) THEN ReplayRow(v[i - 1], Replayed[i]) ELSE v[i - 1]
            /\ ReplaySecurity(S, s) = v[N]
  BY RebuildWalk
<1> DEFINE Agree(a, b) == a.had = b.had /\ a.lot.net = b.lot.net
           E == {n \in 0 .. N : Agree(w[n], v[n])}
<1>3. 0 \in E
  <2>1. 0 \in 0 .. N
    BY <1>0
  <2>2. w[0] = v[0]
    BY <1>1, <1>2
  <2> HIDE DEF N
  <2> QED
    BY <2>1, <2>2
<1>4. ASSUME NEW n \in 0 .. N, n # 0, n - 1 \in E
      PROVE  n \in E
  <2> DEFINE t == Replayed[n]
             a == w[n - 1]
             b == v[n - 1]
             delta == EffectiveDelta(a.lot.net, a.had, t)
  <2>1. n \in Txn /\ n - 1 \in 0 .. N /\ t \in Txn /\ a \in HistoryType /\ b \in HistoryType
    <3>1. n \in Txn /\ n - 1 \in 0 .. N
      BY <1>0, <1>4
    <3>2. t \in Txn
      BY <3>1, ReplayVisits
    <3> QED
      BY <3>1, <3>2
  <2>2. a.had = b.had /\ a.lot.net = b.lot.net
    BY <1>4
  <2>3. CASE Visits(S, s, n)
    <3>1. HasPrice(t)
      <4>1. t \in Trades(S, s)
        BY <2>3 DEF Visits, Trades
      <4> QED
        BY <4>1, Zenon DEF HasPrice
    <3>2. /\ ReplayRow(b, t).lot.net = b.lot.net + EffectiveDelta(b.lot.net, b.had, t)
          /\ ReplayRow(b, t).had = (b.had \/ EffectiveDelta(b.lot.net, b.had, t) # 0)
      BY <2>1, <3>1, ReplayRowMoves
    <3>3. /\ delta \in Int
          /\ delta = 0 => NetRow(a, t) = a
          /\ delta # 0 => NetRow(a, t).had = TRUE /\ NetRow(a, t).lot.net = a.lot.net + delta
      BY <2>1, NetRowCases
    <3>4. a.lot.net \in Int /\ a.had \in BOOLEAN
      BY <2>1 DEF HistoryType, LotType
    <3>5. w[n] = NetRow(a, t) /\ v[n] = ReplayRow(b, t)
      BY <1>1, <1>2, <2>1, <2>3
    <3> HIDE DEF a, b, t
    <3>6. NetRow(a, t).lot.net = a.lot.net + delta
      BY <3>3, <3>4
    <3>7. NetRow(a, t).had = (a.had \/ delta # 0)
      <4>1. CASE delta = 0
        BY <3>3, <3>4, <4>1
      <4>2. CASE delta # 0
        BY <3>3, <3>4, <4>2
      <4> QED
        BY <4>1, <4>2
    <3> QED
      BY <2>2, <3>2, <3>5, <3>6, <3>7 DEF delta
  <2>4. CASE ~Visits(S, s, n)
    BY <1>1, <1>2, <2>1, <2>2, <2>4
  <2> QED
    BY <2>3, <2>4
<1> HIDE DEF E, N
<1>5. \A n \in 0 .. N : n \in E
  BY <1>0, <1>3, <1>4, UpTo
<1>6. Agree(w[N], v[N])
  BY <1>0, <1>5 DEF E
<1> QED
  BY <1>1, <1>2, <1>6


-----------------------------------------------------------------------------
(* A one-sided history: opens of one direction, and what closes them.      *)

LEMMA TowardZeroIs ==
    ASSUME NEW n \in Int, NEW q \in Nat
    PROVE  /\ TowardZero(n, q) \in Int
           /\ Abs(TowardZero(n, q)) = IF Abs(n) > q THEN Abs(n) - q ELSE 0
           /\ n >= 0 => TowardZero(n, q) >= 0
           /\ n <= 0 => TowardZero(n, q) <= 0
           /\ n = 0 => TowardZero(n, q) = n
<1>1. /\ TowardZero(n, q) \in Int
      /\ Abs(TowardZero(n, q)) = IF Abs(n) > q THEN Abs(n) - q ELSE 0
      /\ n >= 0 => TowardZero(n, q) >= 0
      /\ n <= 0 => TowardZero(n, q) <= 0
  BY DEF TowardZero, Lower, Abs
<1> QED
  BY <1>1

\* An open adds to the net, a close or a settlement takes from it.
LEMMA PlainStep ==
    ASSUME NEW n \in Int, NEW t \in Txn, Row[t].type # "Money Movement",
           IsClosing(t) <=> ~IsOpening(t)
    PROVE  /\ IsOpening(t) => Stepped(n, t) = n + ActionDelta(t)
           /\ IsClosing(t) => Stepped(n, t) = TowardZero(n, Row[t].qty)
<1>1. Row[t].qty \in Nat
  BY RowTypes
<1>2. CASE IsOpening(t)
  <2>1. ~IsClosing(t) /\ ~IsBare(t) /\ Row[t].act # NoAction
    BY <1>2 DEF IsOpening, IsBare, OpeningActions, BareActions, NoAction
  <2> QED
    BY <1>2, <2>1 DEF Stepped, Moves, NetAfter, Closes
<1>3. CASE ~IsOpening(t)
  <2>1. IsClosing(t) /\ (IsNontradeClose(t) \/ Row[t].act # NoAction)
    BY <1>3 DEF IsClosing, ClosingActions, NoAction
  <2>2. Closes(n, t)
    BY <2>1 DEF Closes
  <2>3. Stepped(n, t) = IF n # 0 THEN TowardZero(n, Row[t].qty) ELSE n
    BY <2>1, <2>2 DEF Stepped, Moves, NetAfter
  <2>4. n = 0 => TowardZero(n, Row[t].qty) = n
    BY <1>1, TowardZeroIs
  <2> QED
    BY <1>3, <2>3, <2>4
<1> QED
  BY <1>2, <1>3

\* All the opens are bought, or all are sold.
LEMMA SideOf ==
    ASSUME NEW S \in SUBSET Txn, NEW s \in Sec, OneSided(Trades(S, s))
    PROVE  \E long \in BOOLEAN : \A t \in Trades(S, s) :
                IsOpening(t) => ActionDelta(t) = IF long THEN Row[t].qty ELSE -Row[t].qty
<1>1. CASE \E u \in Trades(S, s) : IsOpening(u) /\ Row[u].act \in BuyActions
  <2>1. PICK u \in Trades(S, s) : IsOpening(u) /\ Row[u].act \in BuyActions
    BY <1>1
  <2>2. \A t \in Trades(S, s) : IsOpening(t) => Row[t].act \in BuyActions
    BY <2>1 DEF OneSided, Trades
  <2>3. \A t \in Trades(S, s) : IsOpening(t) => ActionDelta(t) = IF TRUE THEN Row[t].qty ELSE -Row[t].qty
    BY <2>2 DEF ActionDelta
  <2> QED
    BY <2>3
<1>2. CASE ~\E u \in Trades(S, s) : IsOpening(u) /\ Row[u].act \in BuyActions
  <2>1. \A t \in Trades(S, s) : IsOpening(t) => ActionDelta(t) = IF FALSE THEN Row[t].qty ELSE -Row[t].qty
    BY <1>2 DEF ActionDelta
  <2> QED
    BY <2>1
<1> QED
  BY <1>1, <1>2

\* The net keeps to one side, and its size follows the rows.
OneSidedNet(S, s, long) ==
    /\ \A t \in Trades(S, s) :
            IsOpening(t) => ActionDelta(t) = IF long THEN Row[t].qty ELSE -Row[t].qty
    /\ \A i \in 0 .. Len(Row) :
            IF long THEN NetAt(S, s, i) >= 0 ELSE NetAt(S, s, i) <= 0
    /\ \A i \in Txn :
            LET held == Abs(NetAt(S, s, i - 1))
            IN  Abs(NetAt(S, s, i)) =
                    IF i \notin Trades(S, s) THEN held
                    ELSE IF IsOpening(i) THEN held + Row[i].qty
                    ELSE IF held > Row[i].qty THEN held - Row[i].qty ELSE 0

\* The opens of S are of the one side.
OpensOf(S, s, long) ==
    \A t \in Trades(S, s) :
        IsOpening(t) => ActionDelta(t) = IF long THEN Row[t].qty ELSE -Row[t].qty

LEMMA SideWalk ==
    ASSUME NEW S \in SUBSET Txn, NEW s \in Sec, OneSided(Trades(S, s)),
           NEW long \in BOOLEAN, OpensOf(S, s, long)
    PROVE  OneSidedNet(S, s, long)
<1> DEFINE N == Len(Row)
           n(i) == NetAt(S, s, i)
<1>1. \A t \in Trades(S, s) :
            IsOpening(t) => ActionDelta(t) = IF long THEN Row[t].qty ELSE -Row[t].qty
  BY DEF OpensOf
<1>2. /\ N \in Nat /\ Txn = 1 .. N
      /\ n(0) = 0
      /\ \A i : n(i) \in Int
      /\ \A i \in Txn : n(i) = IF i \in Trades(S, s) THEN Stepped(n(i - 1), i) ELSE n(i - 1)
  <2>1. \A i \in Txn : i \in Trades(S, s) <=> (i \in S /\ Row[i].sec = s)
    BY DEF Trades
  <2>2. N \in Nat /\ Txn = 1 .. N
    BY RowTypes
  <2>3. /\ NetAt(S, s, 0) = 0 /\ \A i : NetAt(S, s, i) \in Int
        /\ \A i \in Txn : NetAt(S, s, i) =
                IF i \in S /\ Row[i].sec = s THEN Stepped(NetAt(S, s, i - 1), i)
                                             ELSE NetAt(S, s, i - 1)
    BY NetAtWalk
  <2> QED
    BY <2>1, <2>2, <2>3
<1> DEFINE E == {i \in 0 .. N : IF long THEN n(i) >= 0 ELSE n(i) <= 0}
<1>3. ASSUME NEW i \in Txn, i \in Trades(S, s)
      PROVE  /\ Row[i].qty \in Nat
             /\ n(i) = IF IsOpening(i) THEN n(i - 1) + (IF long THEN Row[i].qty ELSE -Row[i].qty)
                                       ELSE TowardZero(n(i - 1), Row[i].qty)
  <2>1. Row[i].type # "Money Movement" /\ (IsClosing(i) <=> ~IsOpening(i))
    BY <1>3 DEF OneSided
  <2>2. n(i - 1) \in Int /\ n(i) = Stepped(n(i - 1), i)
    BY <1>2, <1>3
  <2> HIDE DEF n
  <2> QED
    BY <1>1, <1>3, <2>1, <2>2, PlainStep, RowTypes
<1> HIDE DEF n
<1>4. 0 \in E
  <2>1. 0 \in 0 .. N
    BY <1>2
  <2> QED
    BY <1>2, <2>1
<1>5. ASSUME NEW i \in 0 .. N, i # 0, i - 1 \in E
      PROVE  i \in E
  <2>1. i \in Txn /\ n(i - 1) \in Int /\ n(i) \in Int
    BY <1>2, <1>5
  <2>2. IF long THEN n(i - 1) >= 0 ELSE n(i - 1) <= 0
    BY <1>5
  <2>3. CASE i \in Trades(S, s)
    <3>1. /\ Row[i].qty \in Nat
          /\ n(i) = IF IsOpening(i) THEN n(i - 1) + (IF long THEN Row[i].qty ELSE -Row[i].qty)
                                    ELSE TowardZero(n(i - 1), Row[i].qty)
      BY <1>3, <2>1, <2>3
    <3>2. /\ n(i - 1) >= 0 => TowardZero(n(i - 1), Row[i].qty) >= 0
          /\ n(i - 1) <= 0 => TowardZero(n(i - 1), Row[i].qty) <= 0
      BY <2>1, <3>1, TowardZeroIs
    <3> QED
      BY <1>5, <2>1, <2>2, <3>1, <3>2
  <2>4. CASE i \notin Trades(S, s)
    BY <1>2, <2>1, <2>2, <2>4
  <2> QED
    BY <2>3, <2>4
<1> HIDE DEF E, N
<1>6. \A i \in 0 .. N : i \in E
  BY <1>2, <1>4, <1>5, UpTo
<1>7. \A i \in 0 .. N : IF long THEN n(i) >= 0 ELSE n(i) <= 0
  BY <1>6 DEF E
<1>8. ASSUME NEW i \in Txn
      PROVE  Abs(n(i)) = IF i \notin Trades(S, s) THEN Abs(n(i - 1))
                         ELSE IF IsOpening(i) THEN Abs(n(i - 1)) + Row[i].qty
                         ELSE IF Abs(n(i - 1)) > Row[i].qty THEN Abs(n(i - 1)) - Row[i].qty
                         ELSE 0
  <2>1. n(i - 1) \in Int /\ n(i) \in Int /\ i - 1 \in 0 .. N
    BY <1>2
  <2>2. IF long THEN n(i - 1) >= 0 ELSE n(i - 1) <= 0
    BY <1>7, <2>1
  <2>3. CASE i \in Trades(S, s) /\ IsOpening(i)
    BY <1>3, <2>1, <2>2, <2>3 DEF Abs
  <2>4. CASE i \in Trades(S, s) /\ ~IsOpening(i)
    <3>1. Row[i].qty \in Nat /\ n(i) = TowardZero(n(i - 1), Row[i].qty)
      BY <1>3, <2>4
    <3>2. Abs(TowardZero(n(i - 1), Row[i].qty)) =
            IF Abs(n(i - 1)) > Row[i].qty THEN Abs(n(i - 1)) - Row[i].qty ELSE 0
      BY <2>1, <3>1, TowardZeroIs
    <3> QED
      BY <2>4, <3>1, <3>2
  <2>5. CASE i \notin Trades(S, s)
    BY <1>2, <2>5
  <2> QED
    BY <2>3, <2>4, <2>5
<1> QED
  BY <1>1, <1>7, <1>8 DEF OneSidedNet, n, N

LEMMA OneSidedWalk ==
    ASSUME NEW S \in SUBSET Txn, NEW s \in Sec, OneSided(Trades(S, s))
    PROVE  \E long \in BOOLEAN : OneSidedNet(S, s, long)
<1>1. PICK long \in BOOLEAN : OpensOf(S, s, long)
  BY SideOf DEF OpensOf
<1> QED
  BY <1>1, SideWalk

LEMMA OneSidedTrades ==
    ASSUME NEW S \in SUBSET Txn, OneSided(S), NEW T \in SUBSET S
    PROVE  OneSided(T)
BY DEF OneSided

\* What each row adds to a tail of the history, or takes from it.
Signed == [t \in Txn |-> IF IsClosing(t) THEN -Row[t].qty ELSE Row[t].qty]

\* The rows of S in security s from one position to another, and what they add up to.
Span(S, s, from, i) == {t \in Trades(S, s) : from <= t /\ t <= i}

SpanSum(S, s, from, i) == SumFunctionOnSet(Signed, Span(S, s, from, i))

LEMMA SpanSums ==
    ASSUME NEW S \in SUBSET Txn, NEW s \in Sec, NEW from \in Txn
    PROVE  /\ SpanSum(S, s, from, 0) = 0
           /\ SpanSum(S, s, from, Len(Row)) = Excess(S, s, from)
           /\ \A i \in Txn :
                /\ SpanSum(S, s, from, i) \in Int /\ SpanSum(S, s, from, i - 1) \in Int
                /\ SpanSum(S, s, from, i) =
                        IF from <= i /\ i \in Trades(S, s)
                        THEN SpanSum(S, s, from, i - 1) + Signed[i]
                        ELSE SpanSum(S, s, from, i - 1)
                /\ from >= i => SpanSum(S, s, from, i - 1) = 0
<1> DEFINE N == Len(Row)
<1>1. N \in Nat /\ Txn = 1 .. N /\ IsFiniteSet(Txn)
  BY RowTypes
<1>2. \A t \in Txn : Signed[t] \in Int
  BY RowTypes DEF Signed
<1>3. \A i : Span(S, s, from, i) \in SUBSET Txn
  BY DEF Span, Trades
<1>4. \A i \in Int : i < from => Span(S, s, from, i) = {}
  BY <1>1, <1>3 DEF Span
<1>5. \A i \in Int : i < from => SpanSum(S, s, from, i) = 0
  BY <1>4, SumEmpty DEF SpanSum
<1>6. Span(S, s, from, N) = {t \in Trades(S, s) : t >= from}
  <2>1. \A t \in Trades(S, s) : t <= N /\ (from <= t <=> t >= from)
    BY <1>1 DEF Trades
  <2> QED
    BY <2>1 DEF Span
<1>7. SpanSum(S, s, from, N) = Excess(S, s, from)
  BY <1>6 DEF SpanSum, Excess, Signed
<1>8. ASSUME NEW i \in Txn
      PROVE  /\ SpanSum(S, s, from, i) \in Int /\ SpanSum(S, s, from, i - 1) \in Int
             /\ SpanSum(S, s, from, i) =
                    IF from <= i /\ i \in Trades(S, s)
                    THEN SpanSum(S, s, from, i - 1) + Signed[i]
                    ELSE SpanSum(S, s, from, i - 1)
  <2>1. i \in Int /\ from \in Int /\ \A t \in Trades(S, s) : t \in Int
    BY <1>1 DEF Trades
  <2>2. CASE from <= i /\ i \in Trades(S, s)
    <3>1. Span(S, s, from, i) = Span(S, s, from, i - 1) \cup {i}
      <4>1. \A t \in Trades(S, s) : t <= i <=> t <= i - 1 \/ t = i
        BY <2>1
      <4> QED
        BY <2>1, <2>2, <4>1 DEF Span
    <3>2. i \in Txn \ Span(S, s, from, i - 1)
      BY <2>1 DEF Span
    <3> QED
      BY <1>1, <1>2, <1>3, <2>2, <3>1, <3>2, SumAdd DEF SpanSum
  <2>3. CASE ~(from <= i /\ i \in Trades(S, s))
    <3>1. Span(S, s, from, i) = Span(S, s, from, i - 1)
      BY <2>1, <2>3 DEF Span
    <3>2. SumFunctionOnSet(Signed, Span(S, s, from, i)) \in Int
      BY <1>1, <1>2, <1>3, SumAny
    <3> QED
      BY <2>3, <3>1, <3>2 DEF SpanSum
  <2> QED
    BY <2>2, <2>3
<1>9. 0 \in Int /\ 0 < from /\ from \in Int /\ \A i \in Txn : i - 1 \in Int /\ i - 1 < i /\ i \in Int
  BY <1>1
<1>10. \A i \in Txn : from >= i => SpanSum(S, s, from, i - 1) = 0
  BY <1>5, <1>9
<1> QED
  BY <1>5, <1>7, <1>8, <1>9, <1>10

\* The size of a one-sided net is the largest excess of opens over closes in any tail.
LEMMA LargestExcess ==
    ASSUME NEW S \in SUBSET Txn, NEW s \in Sec, OneSided(S)
    PROVE  Abs(NetQuantities(S)[s]) = Max({0} \cup {Excess(S, s, from) : from \in Txn})
<1> DEFINE N == Len(Row)
           T == Trades(S, s)
           n(i) == Abs(NetAt(S, s, i))
           X(from, i) == SpanSum(S, s, from, i)
           Bounded(i) == \A from \in Txn : X(from, i) <= n(i)
           Reached(i) == n(i) = 0 \/ \E from \in Txn : from <= i /\ X(from, i) = n(i)
           E == {i \in 0 .. N : Bounded(i) /\ Reached(i)}
<1>1. N \in Nat /\ Txn = 1 .. N
  BY RowTypes
<1>2. /\ NetAt(S, s, 0) = 0 /\ NetAt(S, s, N) = NetQuantities(S)[s]
      /\ \A i : NetAt(S, s, i) \in Int
  BY NetAtWalk
<1>3. n(0) = 0 /\ n(N) = Abs(NetQuantities(S)[s]) /\ \A i : n(i) \in Int /\ n(i) >= 0
  BY <1>2 DEF Abs
<1>4. T \in SUBSET S /\ OneSided(T)
  BY OneSidedTrades DEF Trades
<1>5. \A i \in Txn :
        n(i) = IF i \notin T THEN n(i - 1)
               ELSE IF IsOpening(i) THEN n(i - 1) + Row[i].qty
               ELSE IF n(i - 1) > Row[i].qty THEN n(i - 1) - Row[i].qty ELSE 0
  BY <1>4, OneSidedWalk DEF OneSidedNet
<1>6. \A i \in T : /\ Row[i].qty \in Int /\ Row[i].qty > 0
                   /\ Signed[i] = IF IsOpening(i) THEN Row[i].qty ELSE -Row[i].qty
  <2>1. \A i \in T : i \in Txn /\ (IsClosing(i) <=> ~IsOpening(i))
    BY <1>4 DEF OneSided
  <2> QED
    BY <2>1, RowTypes DEF Signed
<1>7. \A from \in Txn : X(from, 0) = 0 /\ X(from, N) = Excess(S, s, from)
  BY SpanSums
<1>8. \A i \in Txn : \A from \in Txn :
        /\ X(from, i) \in Int /\ X(from, i - 1) \in Int
        /\ X(from, i) = IF from <= i /\ i \in T THEN X(from, i - 1) + Signed[i] ELSE X(from, i - 1)
        /\ from >= i => X(from, i - 1) = 0
  BY SpanSums
<1> HIDE DEF n, X, T
<1>9. 0 \in E
  <2>1. 0 \in 0 .. N
    BY <1>1
  <2> QED
    BY <1>3, <1>7, <2>1
<1>10. ASSUME NEW i \in 0 .. N, i # 0, i - 1 \in E
       PROVE  i \in E
  <2>1. i \in Txn /\ n(i - 1) \in Int /\ n(i - 1) >= 0 /\ n(i) \in Int /\ n(i) >= 0
    BY <1>1, <1>3, <1>10
  <2>2. Bounded(i - 1) /\ Reached(i - 1)
    BY <1>10
  <2>3. CASE i \notin T
    <3>1. n(i) = n(i - 1) /\ \A from \in Txn : X(from, i) = X(from, i - 1)
      BY <1>5, <1>8, <2>1, <2>3
    <3> QED
      BY <1>1, <2>1, <2>2, <3>1
  <2>4. CASE i \in T /\ IsOpening(i)
    <3>1. n(i) = n(i - 1) + Row[i].qty /\ Row[i].qty \in Int /\ Row[i].qty > 0
      BY <1>5, <1>6, <2>1, <2>4
    <3>2. \A from \in Txn : X(from, i) = IF from <= i THEN X(from, i - 1) + Row[i].qty ELSE 0
      BY <1>1, <1>6, <1>8, <2>1, <2>4
    <3>3. Bounded(i)
      <4> SUFFICES ASSUME NEW from \in Txn
                   PROVE  X(from, i) <= n(i)
        OBVIOUS
      <4>1. X(from, i - 1) \in Int /\ X(from, i - 1) <= n(i - 1)
        BY <1>8, <2>1, <2>2
      <4> QED
        BY <2>1, <3>1, <3>2, <4>1
    <3>4. Reached(i)
      <4>1. CASE n(i - 1) = 0
        <5>1. X(i, i - 1) = 0 /\ i <= i
          BY <1>1, <1>8, <2>1
        <5> QED
          BY <2>1, <3>1, <3>2, <4>1, <5>1
      <4>2. CASE n(i - 1) # 0
        <5>1. PICK from \in Txn : from <= i - 1 /\ X(from, i - 1) = n(i - 1)
          BY <2>2, <4>2
        <5>2. from <= i
          BY <1>1, <2>1, <5>1
        <5> QED
          BY <3>1, <3>2, <5>1, <5>2
      <4> QED
        BY <4>1, <4>2
    <3> QED
      BY <3>3, <3>4
  <2>5. CASE i \in T /\ ~IsOpening(i)
    <3>1. /\ Row[i].qty \in Int /\ Row[i].qty > 0
          /\ n(i) = IF n(i - 1) > Row[i].qty THEN n(i - 1) - Row[i].qty ELSE 0
      BY <1>5, <1>6, <2>1, <2>5
    <3>2. \A from \in Txn : X(from, i) = IF from <= i THEN X(from, i - 1) - Row[i].qty ELSE 0
      <4>1. Signed[i] = -Row[i].qty /\ i \in Int
        BY <1>1, <1>6, <2>1, <2>5
      <4> SUFFICES ASSUME NEW from \in Txn
                   PROVE  X(from, i) = IF from <= i THEN X(from, i - 1) - Row[i].qty ELSE 0
        OBVIOUS
      <4>2. from \in Int /\ X(from, i - 1) \in Int
        BY <1>1, <1>8, <2>1
      <4>3. CASE from <= i
        <5>1. X(from, i) = X(from, i - 1) + Signed[i]
          BY <1>8, <2>1, <2>5, <4>3
        <5> QED
          BY <3>1, <4>1, <4>2, <4>3, <5>1
      <4>4. CASE ~(from <= i)
        <5>1. X(from, i) = X(from, i - 1) /\ from >= i
          BY <1>8, <2>1, <4>1, <4>2, <4>4
        <5> QED
          BY <1>8, <2>1, <4>4, <5>1
      <4> QED
        BY <4>3, <4>4
    <3>3. Bounded(i)
      <4> SUFFICES ASSUME NEW from \in Txn
                   PROVE  X(from, i) <= n(i)
        OBVIOUS
      <4>1. X(from, i - 1) \in Int /\ X(from, i - 1) <= n(i - 1)
        BY <1>8, <2>1, <2>2
      <4> QED
        BY <2>1, <3>1, <3>2, <4>1
    <3>4. Reached(i)
      <4>1. CASE n(i) = 0
        BY <4>1
      <4>2. CASE n(i) # 0
        <5>1. PICK from \in Txn : from <= i - 1 /\ X(from, i - 1) = n(i - 1)
          BY <2>1, <2>2, <3>1, <4>2
        <5>2. from <= i
          BY <1>1, <2>1, <5>1
        <5> QED
          BY <3>1, <3>2, <4>2, <5>1, <5>2
      <4> QED
        BY <4>1, <4>2
    <3> QED
      BY <3>3, <3>4
  <2> QED
    BY <2>3, <2>4, <2>5
<1> HIDE DEF E, N
<1>11. \A i \in 0 .. N : i \in E
  BY <1>1, <1>9, <1>10, UpTo
<1>12. N \in E
  BY <1>1, <1>11
<1>13. /\ \A from \in Txn : Excess(S, s, from) <= n(N)
       /\ n(N) = 0 \/ \E from \in Txn : Excess(S, s, from) = n(N)
  BY <1>7, <1>12 DEF E
<1> DEFINE All == {0} \cup {Excess(S, s, from) : from \in Txn}
<1>14. All \in SUBSET Int
  <2>1. \A from \in Txn : Excess(S, s, from) \in Int
    <3>1. CASE N \in Txn
      BY <1>7, <1>8, <3>1
    <3>2. CASE N \notin Txn
      BY <1>1, <3>2
    <3> QED
      BY <3>1, <3>2
  <2> QED
    BY <2>1
<1>15. n(N) \in All /\ \A x \in All : x <= n(N)
  BY <1>3, <1>13
<1>16. Max(All) = n(N)
  <2> HIDE DEF All
  <2> QED
    BY <1>14, <1>15, MaxIs
<1> QED
  BY <1>3, <1>16

-----------------------------------------------------------------------------
(* Replay over rows that are listed in its own order.                      *)

\* The rows of S that the first i steps of replay have visited.
Seen(S, i) == {t \in S : \E k \in 1 .. i : Replayed[k] = t}

LEMMA SeenGrows ==
    ASSUME NEW S \in SUBSET Txn
    PROVE  /\ Seen(S, 0) = {}
           /\ Seen(S, Len(Row)) = S
           /\ \A i \in Txn :
                /\ Replayed[i] \in Txn /\ Replayed[i] \notin Seen(S, i - 1)
                /\ Seen(S, i) = IF Replayed[i] \in S THEN Seen(S, i - 1) \cup {Replayed[i]}
                                                     ELSE Seen(S, i - 1)
                /\ \A u \in S : u \in Seen(S, i - 1) <=> ReplayedBefore(u, Replayed[i])
<1> DEFINE N == Len(Row)
<1>1. N \in Nat /\ Txn = 1 .. N
  BY RowTypes
<1>2. Seen(S, 0) = {}
  <2>1. 1 .. 0 = {}
    OBVIOUS
  <2> QED
    BY <2>1 DEF Seen
<1>3. Seen(S, N) = S
  BY <1>1, ReplayVisits DEF Seen
<1>4. ASSUME NEW i \in Txn, NEW u \in S
      PROVE  u \in Seen(S, i - 1) <=> ReplayedBefore(u, Replayed[i])
  <2>1. ASSUME NEW k \in 1 .. (i - 1), Replayed[k] = u
        PROVE  ReplayedBefore(u, Replayed[i])
    <3>1. k \in Txn /\ k < i
      BY <1>1, <2>1
    <3> QED
      BY <2>1, <3>1, ReplayVisits
  <2>2. ASSUME ReplayedBefore(u, Replayed[i])
        PROVE  \E k \in 1 .. (i - 1) : Replayed[k] = u
    <3>1. PICK k \in Txn : Replayed[k] = u
      BY ReplayVisits
    <3>2. Replayed[i] \in Txn /\ u \in Txn
      BY ReplayVisits
    <3>3. k # i /\ ~ReplayedBefore(Replayed[i], u)
      BY <2>2, <3>1, <3>2, ReplayOrder
    <3>4. ~(i < k)
      BY <3>1, <3>3, ReplayVisits
    <3>5. k \in 1 .. (i - 1)
      BY <1>1, <3>3, <3>4
    <3> QED
      BY <3>1, <3>5
  <2> QED
    BY <2>1, <2>2 DEF Seen
<1>5. ASSUME NEW i \in Txn
      PROVE  /\ Replayed[i] \in Txn /\ Replayed[i] \notin Seen(S, i - 1)
             /\ Seen(S, i) = IF Replayed[i] \in S THEN Seen(S, i - 1) \cup {Replayed[i]}
                                                  ELSE Seen(S, i - 1)
  <2>1. Replayed[i] \in Txn /\ ~ReplayedBefore(Replayed[i], Replayed[i])
    BY ReplayVisits, ReplayOrder
  <2>2. Replayed[i] \notin Seen(S, i - 1)
    <3>1. Seen(S, i - 1) \in SUBSET S
      BY DEF Seen
    <3> QED
      BY <1>4, <2>1, <3>1
  <2>3. \A k : k \in 1 .. i <=> (k \in 1 .. (i - 1) \/ k = i)
    BY <1>1
  <2> QED
    BY <2>1, <2>2, <2>3 DEF Seen
<1> QED
  BY <1>2, <1>3, <1>4, <1>5

\* The net of the rows visited so far, when they are listed as replay takes them.
SeenNet(S, s, i) == NetQuantities(Seen(S, i))[s]

LEMMA SeenNetWalk ==
    ASSUME NEW S \in SUBSET Txn, NEW s \in Sec,
           \A t, u \in S : t < u => ReplayedBefore(t, u)
    PROVE  /\ SeenNet(S, s, 0) = 0
           /\ SeenNet(S, s, Len(Row)) = NetQuantities(S)[s]
           /\ \A i : SeenNet(S, s, i) \in Int
           /\ \A i \in Txn :
                /\ SeenNet(S, s, i) = IF Visits(S, s, i) THEN Stepped(SeenNet(S, s, i - 1), Replayed[i])
                                                         ELSE SeenNet(S, s, i - 1)
                /\ Visits(S, s, i) => SeenNet(S, s, i - 1) = Finds(S, Replayed[i])
<1>1. Txn = 1 .. Len(Row) /\ Len(Row) \in Nat
  BY RowTypes
<1>2. \A t, u \in S : ReplayedBefore(t, u) <=> t < u
  <2>1. SUFFICES ASSUME NEW t \in S, NEW u \in S, ReplayedBefore(t, u)
                 PROVE  t < u
    OBVIOUS
  <2>2. t \in Txn /\ u \in Txn /\ t \in Int /\ u \in Int
    BY <1>1
  <2>3. t # u /\ ~ReplayedBefore(u, t)
    BY <2>1, <2>2, ReplayOrder
  <2> QED
    BY <2>2, <2>3
<1>3. SeenNet(S, s, 0) = 0
  <2>1. Seen(S, 0) = {}
    BY SeenGrows
  <2>2. NetQuantities({}) = [r \in Sec |-> 0]
    BY BookOfNone DEF NetQuantities, FlatBook
  <2> QED
    BY <2>1, <2>2 DEF SeenNet
<1>4. SeenNet(S, s, Len(Row)) = NetQuantities(S)[s]
  BY SeenGrows DEF SeenNet
<1>5. \A i : SeenNet(S, s, i) \in Int
  BY BookTyped DEF SeenNet
<1>6. ASSUME NEW i \in Txn
      PROVE  /\ SeenNet(S, s, i) = IF Visits(S, s, i) THEN Stepped(SeenNet(S, s, i - 1), Replayed[i])
                                                      ELSE SeenNet(S, s, i - 1)
             /\ Visits(S, s, i) => SeenNet(S, s, i - 1) = Finds(S, Replayed[i])
  <2>1. CASE Replayed[i] \in S
    <3>1. Replayed[i] \in Txn /\ Seen(S, i) = Seen(S, i - 1) \cup {Replayed[i]}
      BY <2>1, SeenGrows
    <3>2. Seen(S, i - 1) = {u \in S : u < Replayed[i]}
      <4>1. Seen(S, i - 1) \in SUBSET S
        BY DEF Seen
      <4>2. \A u \in S : u \in Seen(S, i - 1) <=> u < Replayed[i]
        BY <1>2, <2>1, SeenGrows
      <4> QED
        BY <4>1, <4>2
    <3>3. \A u \in Seen(S, i - 1) : u \in Txn /\ u < Replayed[i]
      BY <3>2
    <3>4. SeenNet(S, s, i) = IF Row[Replayed[i]].sec = s
                             THEN Stepped(SeenNet(S, s, i - 1), Replayed[i])
                             ELSE SeenNet(S, s, i - 1)
      <4>1. NetQuantities(Seen(S, i - 1) \cup {Replayed[i]})[s] =
                IF Row[Replayed[i]].sec = s
                THEN Stepped(NetQuantities(Seen(S, i - 1))[s], Replayed[i])
                ELSE NetQuantities(Seen(S, i - 1))[s]
        BY <3>1, <3>3, NetExtend
      <4> QED
        BY <3>1, <4>1 DEF SeenNet
    <3> QED
      BY <2>1, <3>2, <3>4 DEF Visits, Finds, SeenNet
  <2>2. CASE Replayed[i] \notin S
    BY <2>2, SeenGrows DEF SeenNet, Visits
  <2> QED
    BY <2>1, <2>2
<1> QED
  BY <1>3, <1>4, <1>5, <1>6

\* Where opens are listed before the closes of their instant, the list is in replay's order.
LEMMA ListedAsReplayed ==
    ASSUME NEW S \in SUBSET Txn, OpensListedFirst(S), NEW t \in S, NEW u \in S, t < u
    PROVE  ReplayedBefore(t, u)
<1>1. Row[t].at \in Int /\ Row[u].at \in Int /\ Row[t].at <= Row[u].at
  BY RowTypes, RowAssumption
<1>2. Row[t].at = Row[u].at /\ IsClosing(t) => IsClosing(u)
  BY DEF OpensListedFirst
<1> QED
  BY <1>1, <1>2 DEF ReplayedBefore

-----------------------------------------------------------------------------
(* The price walk and the group's book.                                    *)

\* A tidy row moves the price walk as it moves the book.
LEMMA TidyDelta ==
    ASSUME NEW n \in Int, NEW had \in BOOLEAN, NEW t \in Txn, Moves(n, t),
           IsOpening(t) => n * ActionDelta(t) >= 0,
           IsClosing(t) /\ Row[t].act # NoAction => n * ActionDelta(t) < 0
    PROVE  LET d == ClampedDelta(n, EffectiveDelta(n, had, t))
           IN  /\ d \in Int
               /\ n + d = Stepped(n, t)
               /\ n * d < 0 => Abs(d) <= Abs(n)
<1> DEFINE e == EffectiveDelta(n, had, t)
           d == ClampedDelta(n, e)
           q == Row[t].qty
           a == ActionDelta(t)
<1>1. /\ q \in Nat /\ q > 0 /\ a \in Int /\ (a = q \/ a = -q)
      /\ e \in Int
  <2>1. q \in Nat \ {0} /\ a \in Int /\ (a = q \/ a = -q)
    BY RowTypes
  <2>2. e \in Int
    BY DeltaType
  <2> QED
    BY <2>1, <2>2
<1>2. Row[t].type # "Money Movement" /\ (Closes(n, t) => n # 0) /\ Stepped(n, t) = NetAfter(n, t)
  BY DEF Moves, Stepped
<1>3. /\ TowardZero(n, q) \in Int
      /\ n # 0 => TowardZero(n, q) - n # 0
      /\ n > 0 => TowardZero(n, q) - n < 0 /\ TowardZero(n, q) - n >= -n
      /\ n < 0 => TowardZero(n, q) - n > 0 /\ TowardZero(n, q) - n <= -n
  BY <1>1 DEF TowardZero, Lower
<1>4. \A x \in Int : Abs(x) \in Nat /\ (Abs(x) = x \/ Abs(x) = -x) /\ (x >= 0 => Abs(x) = x)
  BY DEF Abs
<1> HIDE DEF q, a
<1>5. CASE IsNontradeClose(t)
  <2>1. Closes(n, t) /\ n # 0 /\ Stepped(n, t) = TowardZero(n, q)
    BY <1>2, <1>5 DEF Closes, IsClosing, NetAfter, q
  <2>2. e = TowardZero(n, q) - n
    BY <1>5, DeltaCases DEF q
  <2> HIDE DEF e
  <2>3. n * e < 0
    BY <1>1, <1>3, <2>1, <2>2, ProductSign
  <2>4. TowardZero(n, Abs(e)) = n + e /\ Abs(e) <= Abs(n)
    BY <1>1, <1>3, <2>1, <2>2 DEF TowardZero, Lower, Abs
  <2>5. d = e
    BY <1>1, <2>3, <2>4 DEF ClampedDelta
  <2> HIDE DEF d
  <2> QED
    BY <1>1, <1>3, <2>1, <2>2, <2>4, <2>5 DEF d, e
<1>6. CASE ~IsNontradeClose(t) /\ n * a < 0
  <2>1. n # 0 /\ Row[t].act # NoAction /\ (IsClosing(t) \/ IsBare(t))
    <3>1. ~IsOpening(t)
      BY <1>1, <1>6, ProductSign DEF a
    <3>2. Row[t].act # NoAction
      BY <1>6 DEF Moves
    <3>3. Row[t].act \in OpeningActions \cup ClosingActions \cup BareActions
      BY <3>2, RowTypes DEF RowType
    <3> QED
      BY <1>1, <1>6, <3>1, <3>2, <3>3, ProductSign DEF IsClosing, IsBare, IsOpening
  <2>2. Closes(n, t)
    BY <1>6, <2>1 DEF Closes, a
  <2>3. e = SignedDelta(t)
    BY <1>2, <1>6, <2>1, DeltaCases
  <2>4. SignedDelta(t) = a
    <3>1. Row[t].act \in ClosingActions \cup BareActions
      BY <1>6, <2>1 DEF IsClosing, IsBare
    <3> QED
      BY <3>1 DEF SignedDelta, a, ActionDelta, BuyActions, ClosingActions, BareActions
  <2>5. Abs(a) = q
    BY <1>1 DEF Abs
  <2>6. d = TowardZero(n, q) - n
    BY <1>6, <2>3, <2>4, <2>5 DEF ClampedDelta
  <2>7. Stepped(n, t) = TowardZero(n, q)
    BY <1>2, <2>2 DEF NetAfter, q
  <2> HIDE DEF d
  <2>8. Abs(d) <= Abs(n)
    BY <1>3, <2>1, <2>6 DEF Abs
  <2> QED
    BY <1>3, <2>6, <2>7, <2>8 DEF d, e
<1>7. CASE ~IsNontradeClose(t) /\ ~(n * a < 0)
  <2>1. ~IsClosing(t) /\ Row[t].act # NoAction
    <3>1. Row[t].act # NoAction
      BY <1>7 DEF Moves
    <3> QED
      BY <1>7, <3>1 DEF a
  <2>2. ~Closes(n, t)
    BY <1>7, <2>1 DEF Closes, a
  <2>3. e = SignedDelta(t)
    BY <1>2, <1>7, <2>1, DeltaCases DEF IsClosing
  <2>4. SignedDelta(t) = a
    <3>1. Row[t].act \in OpeningActions \cup BareActions
      BY <1>7, <2>1, RowTypes DEF IsClosing, RowType
    <3> QED
      BY <3>1 DEF SignedDelta, a, ActionDelta, BuyActions, OpeningActions, BareActions
  <2>5. d = a
    BY <1>7, <2>3, <2>4 DEF ClampedDelta
  <2>6. Stepped(n, t) = n + a
    BY <1>2, <2>2 DEF NetAfter, a
  <2> HIDE DEF d
  <2> QED
    BY <1>1, <1>7, <2>5, <2>6 DEF d, e
<1> QED
  BY <1>5, <1>6, <1>7

\* Over tidy, priced rows the price walk ends at the group's net, having realised
\* what was opened and is no longer held.
LEMMA PriceFollowsNet ==
    ASSUME NEW S \in SUBSET Txn, NEW s \in Sec,
           Tidy(S), OpensListedFirst(S), S \cap Unpriced = {}
    PROVE  LET lot == PriceRealized(S, s)
           IN  /\ lot.net = NetQuantities(S)[s]
               /\ lot.realised = lot.opened - Abs(lot.net)
<1> DEFINE N == Len(Row)
           n(i) == SeenNet(S, s, i)
<1>1. N \in Nat /\ Txn = 1 .. N
  BY RowTypes
<1>2. /\ n(0) = 0 /\ n(N) = NetQuantities(S)[s]
      /\ \A i : n(i) \in Int
      /\ \A i \in Txn :
            /\ n(i) = IF Visits(S, s, i) THEN Stepped(n(i - 1), Replayed[i]) ELSE n(i - 1)
            /\ Visits(S, s, i) => n(i - 1) = Finds(S, Replayed[i])
  <2>1. \A t, u \in S : t < u => ReplayedBefore(t, u)
    BY ListedAsReplayed
  <2> QED
    BY <2>1, SeenNetWalk
<1> HIDE DEF n
<1>3. PICK w \in [0 .. N -> HistoryType] :
            /\ w[0] = NoHistory
            /\ \A i \in Txn :
                w[i] = IF Visits(S, s, i) THEN PriceRow(w[i - 1], Replayed[i]) ELSE w[i - 1]
            /\ PriceRealized(S, s) = w[N].lot
  BY PriceWalk
<1> DEFINE Fits(lot, net) == lot.net = net /\ lot.realised = lot.opened - Abs(net)
           E == {i \in 0 .. N : Fits(w[i].lot, n(i))}
<1>4. 0 \in E
  <2>1. 0 \in 0 .. N
    BY <1>1
  <2>2. w[0].lot = FlatLot /\ n(0) = 0
    BY <1>2, <1>3 DEF NoHistory
  <2>3. FlatLot.net = 0 /\ FlatLot.realised = 0 /\ FlatLot.opened = 0 /\ Abs(0) = 0
    BY DEF FlatLot, Abs
  <2>4. Fits(w[0].lot, n(0))
    BY <2>2, <2>3
  <2> QED
    BY <2>1, <2>4
<1>5. ASSUME NEW i \in 0 .. N, i # 0, i - 1 \in E
      PROVE  i \in E
  <2> DEFINE t   == Replayed[i]
             b   == w[i - 1]
             m   == n(i - 1)
             lot == b.lot
             d   == ClampedDelta(lot.net, EffectiveDelta(lot.net, b.had, t))
             taken == IF lot.net * d < 0 THEN Lower(Abs(d), Abs(lot.net)) ELSE 0
             after == PriceRow(b, t)
  <2>1. i \in Txn /\ i - 1 \in 0 .. N
    BY <1>1, <1>5
  <2>2. t \in Txn /\ b \in HistoryType /\ m \in Int /\ n(i) \in Int
    BY <1>2, <1>3, <2>1, ReplayVisits
  <2>3. lot.net = m /\ lot.realised = lot.opened - Abs(m)
    BY <1>5
  <2>4. CASE Visits(S, s, i)
    <3>1. t \in S /\ m = Finds(S, t)
      BY <1>2, <2>1, <2>4 DEF Visits
    <3>2. HasPrice(t)
      BY <3>1, Zenon DEF HasPrice
    <3>3. /\ Moves(m, t)
          /\ IsOpening(t) => m * ActionDelta(t) >= 0
          /\ IsClosing(t) /\ Row[t].act # NoAction => m * ActionDelta(t) < 0
      BY <3>1 DEF Tidy
    <3>4. lot \in LotType /\ b.had \in BOOLEAN /\ lot.opened \in Int /\ lot.realised \in Int
      BY <2>2 DEF HistoryType, LotType
    <3>5. d \in Int /\ m + d = n(i) /\ (m * d < 0 => Abs(d) <= Abs(m))
      <4>1. n(i) = Stepped(m, t)
        BY <1>2, <2>1, <2>4
      <4>2. m \in Int /\ b.had \in BOOLEAN /\ t \in Txn
        BY <2>2, <3>4
      <4> DEFINE e == ClampedDelta(m, EffectiveDelta(m, b.had, t))
      <4>3. d = e
        BY <2>3
      <4> HIDE DEF d, t, m
      <4>4. e \in Int /\ m + e = Stepped(m, t) /\ (m * e < 0 => Abs(e) <= Abs(m))
        BY <3>3, <4>2, TidyDelta
      <4> QED
        BY <4>1, <4>3, <4>4
    <3>6. /\ d = 0 => after = b
          /\ d # 0 => /\ after.lot.net = lot.net + d
                      /\ after.lot.opened = lot.opened + Abs(d) - taken
                      /\ after.lot.realised = lot.realised + taken
      BY <2>2, <3>2, PriceRowCases
    <3>7. w[i] = after
      BY <1>3, <2>1, <2>4
    <3> HIDE DEF d
    <3>8. taken = IF m * d < 0 THEN Abs(d) ELSE 0
      BY <2>2, <2>3, <3>5 DEF Lower, Abs
    <3>9. Abs(n(i)) = IF m * d < 0 THEN Abs(m) - Abs(d) ELSE Abs(m) + Abs(d)
      <4>1. m * d < 0 <=> (m > 0 /\ d < 0) \/ (m < 0 /\ d > 0)
        BY <2>2, <3>5, ProductSign
      <4> HIDE DEF m
      <4> QED
        BY <2>2, <3>5, <4>1 DEF Abs
    <3>10. Abs(d) \in Int /\ Abs(m) \in Int
      BY <2>2, <3>5 DEF Abs
    <3> HIDE DEF taken, after, m, lot, b
    <3>11. CASE d = 0
      <4>1. n(i) = m
        BY <2>2, <3>5, <3>11
      <4>2. Fits(w[i].lot, n(i))
        BY <2>3, <3>6, <3>7, <3>11, <4>1 DEF lot
      <4> QED
        BY <4>2
    <3>12. CASE d # 0
      <4>1. w[i].lot.net = n(i)
        BY <2>3, <3>5, <3>6, <3>7, <3>12
      <4>2. w[i].lot.realised = w[i].lot.opened - Abs(n(i))
        BY <2>3, <3>4, <3>6, <3>7, <3>8, <3>9, <3>10, <3>12
      <4> QED
        BY <4>1, <4>2
    <3> QED
      BY <3>11, <3>12
  <2>5. CASE ~Visits(S, s, i)
    <3>1. w[i] = b /\ n(i) = m
      BY <1>2, <1>3, <2>1, <2>5
    <3>2. Fits(w[i].lot, n(i))
      BY <2>3, <3>1
    <3> QED
      BY <3>2
  <2> QED
    BY <2>4, <2>5
<1> HIDE DEF E, N
<1>6. \A i \in 0 .. N : i \in E
  BY <1>1, <1>4, <1>5, UpTo
<1>7. N \in E
  BY <1>1, <1>6
<1>8. Fits(w[N].lot, n(N))
  BY <1>7 DEF E
<1> QED
  BY <1>2, <1>3, <1>8

-----------------------------------------------------------------------------
(* What rows carry, added up.                                              *)

Carried == [t \in Txn |-> Row[t].qty]

LEMMA QuantitySums ==
    ASSUME NEW S \in SUBSET Txn
    PROVE  /\ Quantity(S) = SumFunctionOnSet(Carried, S)
           /\ Contracts(S) = SumFunctionOnSet(Carried, S)
           /\ Quantity(S) \in Nat
           /\ \A t \in S : Row[t].qty <= Quantity(S)
           /\ S = {} => Quantity(S) = 0
<1> DEFINE own == [t \in S |-> Row[t].qty]
<1>1. IsFiniteSet(S)
  BY RowTypes, FS_Subset
<1>2. \A t \in S : own[t] \in Int /\ own[t] = Carried[t] /\ own[t] = Row[t].qty /\ own[t] \in Nat
  BY RowTypes DEF Carried
<1>3. Quantity(S) = SumFunctionOnSet(own, S) /\ Contracts(S) = SumFunctionOnSet(own, S)
  BY DEF Quantity, Contracts, SumFunction
<1> HIDE DEF own
<1>4. SumFunctionOnSet(own, S) = SumFunctionOnSet(Carried, S)
  BY <1>1, <1>2, SumSame
<1>5. SumFunctionOnSet(own, S) \in Nat /\ \A t \in S : own[t] <= SumFunctionOnSet(own, S)
  BY <1>1, <1>2, SumBounds
<1>6. S = {} => SumFunctionOnSet(own, S) = 0
  BY SumEmpty
<1> QED
  BY <1>2, <1>3, <1>4, <1>5, <1>6

LEMMA QuantityJoin ==
    ASSUME NEW A \in SUBSET Txn, NEW B \in SUBSET Txn, A \cap B = {}
    PROVE  Quantity(A \cup B) = Quantity(A) + Quantity(B)
<1>1. IsFiniteSet(A \cup B) /\ A \cup B \in SUBSET Txn
  BY RowTypes, FS_Subset
<1>2. \A x \in A \cup B : Carried[x] \in Int
  <2>1. \A x \in Txn : Carried[x] \in Int
    BY RowTypes DEF Carried
  <2> QED
    BY <2>1
<1>3. SumFunctionOnSet(Carried, A \cup B) = SumFunctionOnSet(Carried, A) + SumFunctionOnSet(Carried, B)
  BY <1>1, <1>2, SumJoin
<1> QED
  BY <1>1, <1>3, QuantitySums

\* The net of a security depends on its own rows only.
LEMMA NetOfSecurity ==
    ASSUME NEW A \in SUBSET Txn, NEW B \in SUBSET Txn, NEW s \in Sec, Trades(A, s) = Trades(B, s)
    PROVE  NetQuantities(A)[s] = NetQuantities(B)[s]
<1>1. \A t \in Txn : Row[t].sec = s => (t \in A <=> t \in B)
  BY DEF Trades
<1> QED
  BY <1>1, OwnRows

-----------------------------------------------------------------------------
(* The legs, netted without a walk.                                        *)

\* What a one-sided history adds up to is what was opened less what was closed.
LEMMA SignedSums ==
    ASSUME NEW S \in SUBSET Txn, NEW s \in Sec, OneSided(Trades(S, s))
    PROVE  SumFunctionOnSet(Signed, Trades(S, s))
                = Quantity(Opens(S, s)) - Quantity({t \in Trades(S, s) : IsClosing(t)})
<1> DEFINE T == Trades(S, s)
           A == Opens(S, s)
           B == {t \in T : IsClosing(t)}
<1>1. IsFiniteSet(Txn)
  BY RowTypes
<1>2. \A t \in T : t \in Txn /\ (IsClosing(t) <=> ~IsOpening(t))
  BY DEF OneSided, Trades
<1>3. T = A \cup B /\ A \cap B = {} /\ A \in SUBSET Txn /\ B \in SUBSET Txn
  BY <1>2 DEF Opens, Trades
<1>4. IsFiniteSet(T) /\ IsFiniteSet(A) /\ IsFiniteSet(B)
  BY <1>1, <1>3, FS_Subset
<1>5. \A t \in T : Signed[t] \in Int
  BY <1>2, RowTypes DEF Signed
<1>6. SumFunctionOnSet(Signed, T) = SumFunctionOnSet(Signed, A) + SumFunctionOnSet(Signed, B)
  BY <1>3, <1>4, <1>5, SumJoin
<1>7. SumFunctionOnSet(Signed, A) = Quantity(A)
  <2>1. \A t \in A : t \in Txn /\ ~IsClosing(t)
    BY <1>2, <1>3
  <2>2. \A t \in A : Signed[t] \in Int /\ Signed[t] = Carried[t]
    BY <2>1, RowTypes DEF Signed, Carried
  <2> QED
    BY <1>3, <1>4, <2>2, SumSame, QuantitySums
<1>8. SumFunctionOnSet(Signed, B) = -Quantity(B)
  <2>1. \A t \in B : t \in Txn /\ IsClosing(t)
    BY <1>3
  <2>2. \A t \in B : Carried[t] \in Int /\ Signed[t] = -Carried[t]
    BY <2>1, RowTypes DEF Signed, Carried
  <2>3. SumFunctionOnSet(Signed, B) = -SumFunctionOnSet(Carried, B)
    BY <1>4, <2>2, SumNegate
  <2> QED
    BY <1>3, <2>3, QuantitySums
<1>9. Quantity(A) \in Nat /\ Quantity(B) \in Nat
  BY <1>3, QuantitySums
<1> QED
  BY <1>6, <1>7, <1>8, <1>9

\* Where closes keep within the holding, it is what was opened less what was closed.
LEMMA HeldIsOpensLessCloses ==
    ASSUME NEW S \in SUBSET Txn, NEW s \in Sec, OneSided(Trades(S, s)),
           \A t \in Trades(S, s) : IsClosing(t) => Row[t].qty <= Abs(Finds(S, t))
    PROVE  Abs(NetQuantities(S)[s])
                = Quantity(Opens(S, s)) - Quantity({t \in Trades(S, s) : IsClosing(t)})
<1> DEFINE N == Len(Row)
           T == Trades(S, s)
           A == Opens(S, s)
           B == {t \in T : IsClosing(t)}
           n(i) == Abs(NetAt(S, s, i))
           X(i) == SpanSum(S, s, 1, i)
           E == {i \in 0 .. N : n(i) = X(i)}
<1>1. N \in Nat /\ Txn = 1 .. N /\ IsFiniteSet(Txn)
  BY RowTypes
<1>2. /\ NetAt(S, s, 0) = 0 /\ NetAt(S, s, N) = NetQuantities(S)[s]
      /\ \A i : NetAt(S, s, i) \in Int
      /\ \A i \in T : NetAt(S, s, i - 1) = Finds(S, i)
  BY NetAtWalk DEF Trades
<1>3. n(0) = 0 /\ n(N) = Abs(NetQuantities(S)[s]) /\ \A i : n(i) \in Int /\ n(i) >= 0
  BY <1>2 DEF Abs
<1>4. \A i \in Txn :
        n(i) = IF i \notin T THEN n(i - 1)
               ELSE IF IsOpening(i) THEN n(i - 1) + Row[i].qty
               ELSE IF n(i - 1) > Row[i].qty THEN n(i - 1) - Row[i].qty ELSE 0
  BY OneSidedWalk DEF OneSidedNet
<1>5. \A t \in T : /\ t \in Txn /\ (IsClosing(t) <=> ~IsOpening(t))
                   /\ IsClosing(t) => Row[t].qty <= n(t - 1)
  BY <1>2 DEF OneSided, Trades
<1>6. /\ T = A \cup B /\ A \cap B = {}
      /\ A \in SUBSET Txn /\ B \in SUBSET Txn
  BY <1>5 DEF Opens, Trades
<1>7. SumFunctionOnSet(Signed, T) = Quantity(A) - Quantity(B)
  BY SignedSums
<1>8. CASE Txn = {}
  <2>1. N = 0 /\ T = {}
    <3>1. N # 0 => 1 \in Txn
      BY <1>1
    <3>2. \A t \in T : t \in Txn
      BY <1>5
    <3> QED
      BY <1>8, <3>1, <3>2
  <2>2. SumFunctionOnSet(Signed, T) = 0
    BY <2>1, SumEmpty
  <2> QED
    BY <1>3, <1>7, <2>1, <2>2
<1>9. CASE Txn # {}
  <2>1. 1 \in Txn
    BY <1>1, <1>9
  <2>2. /\ X(0) = 0
        /\ \A i \in Txn : /\ X(i) \in Int /\ X(i - 1) \in Int
                          /\ X(i) = IF 1 <= i /\ i \in T THEN X(i - 1) + Signed[i] ELSE X(i - 1)
    <3> DEFINE Y(from, i) == SpanSum(S, s, from, i)
    <3>1. \A from \in Txn : Y(from, 0) = 0
      BY SpanSums
    <3>2. \A i \in Txn : \A from \in Txn :
            /\ Y(from, i) \in Int /\ Y(from, i - 1) \in Int
            /\ Y(from, i) = IF from <= i /\ i \in T THEN Y(from, i - 1) + Signed[i] ELSE Y(from, i - 1)
      BY SpanSums
    <3>3. \A i : X(i) = Y(1, i)
      OBVIOUS
    <3> HIDE DEF X, Y, T
    <3> QED
      BY <2>1, <3>1, <3>2, <3>3
  <2>3. X(N) = SumFunctionOnSet(Signed, T)
    <3>1. \A t \in T : 1 <= t /\ t <= N
      BY <1>1, <1>5
    <3>2. Span(S, s, 1, N) = T
      BY <3>1 DEF Span
    <3> QED
      BY <3>2 DEF SpanSum
  <2> HIDE DEF n, X, T
  <2>4. 0 \in E
    BY <1>1, <1>3, <2>2
  <2>5. ASSUME NEW i \in 0 .. N, i # 0, i - 1 \in E
        PROVE  i \in E
    <3>1. i \in Txn /\ n(i - 1) = X(i - 1) /\ n(i - 1) \in Int
      BY <1>1, <1>3, <2>5
    <3>2. i \in T => /\ Row[i].qty \in Int
                     /\ Signed[i] = IF IsOpening(i) THEN Row[i].qty ELSE -Row[i].qty
      BY <1>5, <3>1, RowTypes DEF Signed
    <3>3. X(i) = IF i \in T THEN X(i - 1) + Signed[i] ELSE X(i - 1)
      BY <1>1, <2>2, <3>1
    <3>4. CASE i \in T
      <4>1. n(i) = n(i - 1) + Signed[i]
        BY <1>4, <1>5, <3>1, <3>2, <3>4
      <4> QED
        BY <3>1, <3>3, <3>4, <4>1
    <3>5. CASE i \notin T
      BY <1>4, <3>1, <3>3, <3>5
    <3> QED
      BY <3>4, <3>5
  <2> HIDE DEF E, N
  <2>6. \A i \in 0 .. N : i \in E
    BY <1>1, <2>4, <2>5, UpTo
  <2>7. n(N) = X(N)
    BY <1>1, <2>6 DEF E
  <2> QED
    BY <1>3, <1>7, <2>3, <2>7 DEF T
<1> QED
  BY <1>8, <1>9

\* What the legs say a settled group holds is what its book says.
LEMMA LegsAreNet ==
    ASSUME NEW S \in SUBSET Txn, NEW s \in Sec, OneSided(S), SettledWhole(S)
    PROVE  /\ NetOpen(S, s) = Abs(NetQuantities(S)[s])
           /\ SignedNetOpen(S, s) = NetQuantities(S)[s]
<1> DEFINE N == Len(Row)
           U == {t \in S : ~IsPositionRemoval(t)}
           R == Removals(S, s)
           M == Abs(NetQuantities(U)[s])
           net == NetQuantities(S)[s]
<1>1. N \in Nat /\ Txn = 1 .. N /\ U \in SUBSET S
  BY RowTypes
<1>2. \A t \in S : /\ t \in Txn /\ (IsClosing(t) <=> ~IsOpening(t))
                   /\ Row[t].type # "Money Movement"
  BY DEF OneSided
<1>3. \A t \in S : /\ IsOpening(t) => t \in U
                   /\ Row[t].act \in ClosingActions <=> t \in U /\ IsClosing(t)
                   /\ t \notin U => IsClosing(t)
  <2> SUFFICES ASSUME NEW t \in S
               PROVE  /\ IsOpening(t) => t \in U
                      /\ Row[t].act \in ClosingActions <=> t \in U /\ IsClosing(t)
                      /\ t \notin U => IsClosing(t)
    OBVIOUS
  <2>1. IsClosing(t) <=> ~IsOpening(t)
    BY <1>2
  <2> QED
    BY <2>1 DEF IsPositionRemoval, ActionNetsAsTrade, IsClosing, IsNontradeClose
<1>4. /\ \A t \in U : IsClosing(t) => Row[t].qty <= Abs(Finds(S, t))
      /\ \A t \in S \ U :
            /\ Row[t].qty = Abs(NetQuantities(U)[Row[t].sec])
            /\ \A u \in U : Row[u].sec = Row[t].sec => u < t
  BY DEF SettledWhole
<1>5. R = {t \in S \ U : Row[t].sec = s} /\ R \in SUBSET S
  BY DEF Removals
<1>6. \A t \in R : Row[t].qty = M /\ \A u \in Trades(U, s) : u < t
  BY <1>4, <1>5 DEF Trades
<1> HIDE DEF U
<1>7. Abs(NetQuantities(U)[s]) = Traded(S, s)
  <2>1. OneSided(Trades(U, s))
    BY <1>1, OneSidedTrades DEF Trades
  <2>2. ASSUME NEW t \in Trades(U, s), IsClosing(t)
        PROVE  Row[t].qty <= Abs(Finds(U, t))
    <3>1. t \in U /\ Row[t].sec = s
      BY DEF Trades
    <3>2. Trades({u \in S : u < t}, s) = Trades({u \in U : u < t}, s)
      <4>1. \A u \in S : u \notin U /\ Row[u].sec = s => ~(u < t)
        <5> SUFFICES ASSUME NEW u \in S \ U, Row[u].sec = s
                     PROVE  ~(u < t)
          OBVIOUS
        <5>1. t < u
          BY <1>4, <3>1
        <5>2. t \in Int /\ u \in Int
          BY <1>1, <3>1
        <5> QED
          BY <5>1, <5>2
      <4> QED
        BY <1>1, <4>1 DEF Trades
    <3>3. Finds(S, t) = Finds(U, t)
      <4>1. {u \in S : u < t} \in SUBSET Txn /\ {u \in U : u < t} \in SUBSET Txn
        BY <1>1
      <4>2. NetQuantities({u \in S : u < t})[s] = NetQuantities({u \in U : u < t})[s]
        BY <3>2, <4>1, NetOfSecurity
      <4> QED
        BY <3>1, <4>2 DEF Finds
    <3> QED
      BY <1>4, <2>2, <3>1, <3>3
  <2>3. M = Quantity(Opens(U, s)) - Quantity({t \in Trades(U, s) : IsClosing(t)})
    BY <1>1, <2>1, <2>2, HeldIsOpensLessCloses
  <2>4. Opens(U, s) = Opens(S, s)
    BY <1>1, <1>3 DEF Opens
  <2>5. {t \in Trades(U, s) : IsClosing(t)} = {t \in S : Row[t].sec = s /\ Row[t].act \in ClosingActions}
    BY <1>1, <1>3 DEF Trades
  <2> QED
    BY <2>3, <2>4, <2>5 DEF Traded
<1>8. net \in Int /\ M \in Int /\ M >= 0
  <2>1. net \in Int /\ NetQuantities(U)[s] \in Int
    BY BookTyped
  <2> QED
    BY <2>1 DEF Abs
<1>9. ASSUME R = {}
      PROVE  Removed(S, s) = 0 /\ Abs(net) = M
  <2>1. Trades(S, s) = Trades(U, s)
    BY <1>1, <1>5, <1>9 DEF Trades
  <2>2. net = NetQuantities(U)[s]
    BY <1>1, <2>1, NetOfSecurity
  <2>3. Removed(S, s) = 0
    <3>1. {0} \cup {Row[t].qty : t \in R} = {0}
      BY <1>9
    <3>2. Max({0}) = 0
      <4>1. {0} \in SUBSET Int /\ 0 \in {0} /\ \A k \in {0} : k <= 0
        OBVIOUS
      <4> QED
        BY <4>1, MaxIs
    <3> QED
      BY <3>1, <3>2 DEF Removed
  <2> QED
    BY <2>2, <2>3
<1>10. ASSUME R # {}
       PROVE  Removed(S, s) = M /\ net = 0
  <2>1. Removed(S, s) = M
    <3> DEFINE all == {0} \cup {Row[t].qty : t \in R}
    <3>1. all = {0, M}
      BY <1>6, <1>10
    <3>2. all \in SUBSET Int /\ M \in all /\ \A k \in all : k <= M
      BY <1>8, <3>1
    <3> HIDE DEF all, M
    <3>3. Max(all) = M
      BY <3>2, MaxIs
    <3> QED
      BY <3>3 DEF Removed, all
  <2> DEFINE n(i) == NetAt(S, s, i)
             Past(i) == \E r \in R : r <= i
             E == {i \in 0 .. N : Past(i) => n(i) = 0}
  <2>2. /\ n(N) = net
        /\ \A i : n(i) \in Int
        /\ \A i \in Txn : n(i) = IF i \in S /\ Row[i].sec = s THEN Stepped(n(i - 1), i) ELSE n(i - 1)
    BY NetAtWalk
  <2>3. \A r \in R : r \in Txn /\ r \in Int /\ r >= 1
    <3>1. \A r \in R : r \in Txn
      BY <1>5
    <3>2. \A r \in Txn : r \in Int /\ r >= 1
      BY <1>1
    <3> QED
      BY <3>1, <3>2
  <2>4. \A i \in R : n(i) = TowardZero(n(i - 1), M) /\ n(i - 1) \in Int /\ M \in Nat
    <3> SUFFICES ASSUME NEW i \in R
                 PROVE  n(i) = TowardZero(n(i - 1), M) /\ n(i - 1) \in Int /\ M \in Nat
      OBVIOUS
    <3>1. i \in S /\ i \notin U /\ Row[i].sec = s /\ i \in Txn
      BY <1>5, <2>3
    <3>2. n(i) = Stepped(n(i - 1), i) /\ n(i - 1) \in Int
      BY <2>2, <3>1
    <3> HIDE DEF n
    <3>3. Stepped(n(i - 1), i) = TowardZero(n(i - 1), Row[i].qty)
      BY <1>2, <1>3, <3>1, <3>2, PlainStep
    <3> QED
      BY <1>6, <1>8, <3>2, <3>3
  <2>5. 0 \in E
    BY <1>1, <2>3
  <2>6. ASSUME NEW i \in 0 .. N, i # 0, i - 1 \in E
        PROVE  i \in E
    <3>1. i \in Txn /\ i \in Int
      BY <1>1, <2>6
    <3>2. CASE Past(i - 1)
      <4>1. PICK r \in R : r <= i - 1
        BY <3>2
      <4>2. n(i - 1) = 0
        BY <2>6, <3>2
      <4>3. ASSUME i \in S, Row[i].sec = s
            PROVE  i \in R
        <5>1. CASE i \in U
          <6>1. i < r
            BY <1>6, <4>3, <5>1 DEF Trades
          <6> QED
            BY <2>3, <3>1, <4>1, <6>1
        <5> QED
          BY <1>5, <4>3, <5>1
      <4>4. i \in R => n(i) = 0
        BY <2>4, <4>2, TowardZeroIs
      <4>5. ~(i \in S /\ Row[i].sec = s) => n(i) = 0
        BY <2>2, <3>1, <4>2
      <4> QED
        BY <4>3, <4>4, <4>5
    <3>3. CASE ~Past(i - 1) /\ i \in R
      <4>1. Trades(Prefix(S, i - 1), s) = Trades(U, s)
        <5>1. ASSUME NEW t \in Prefix(S, i - 1), Row[t].sec = s
              PROVE  t \in U
          <6>1. t \in S /\ t <= i - 1
            BY DEF Prefix
          <6>2. t \notin R
            BY <3>3, <6>1
          <6> QED
            BY <1>5, <5>1, <6>1, <6>2
        <5>2. ASSUME NEW t \in U, Row[t].sec = s
              PROVE  t \in Prefix(S, i - 1)
          <6>1. t < i /\ t \in S
            BY <1>1, <1>6, <3>3, <5>2 DEF Trades
          <6>2. t \in Int
            BY <1>1, <6>1
          <6>3. t <= i - 1
            BY <3>1, <6>1, <6>2
          <6> QED
            BY <6>1, <6>3 DEF Prefix
        <5> QED
          BY <5>1, <5>2 DEF Trades
      <4>2. Prefix(S, i - 1) \in SUBSET Txn /\ U \in SUBSET Txn
        BY <1>1 DEF Prefix
      <4>3. n(i - 1) = NetQuantities(U)[s]
        BY <4>1, <4>2, NetOfSecurity DEF NetAt
      <4>4. n(i) = TowardZero(n(i - 1), M) /\ n(i - 1) \in Int /\ M \in Nat /\ Abs(n(i - 1)) = M
        BY <2>4, <3>3, <4>3
      <4> HIDE DEF n, M
      <4>5. Abs(TowardZero(n(i - 1), M)) = 0 /\ TowardZero(n(i - 1), M) \in Int
        BY <4>4, TowardZeroIs
      <4>6. n(i) = 0
        BY <4>4, <4>5 DEF Abs
      <4> QED
        BY <4>6
    <3>4. CASE ~Past(i - 1) /\ i \notin R
      <4>1. ~Past(i)
        <5> SUFFICES ASSUME NEW r \in R, r <= i
                     PROVE  FALSE
          OBVIOUS
        <5>1. r <= i - 1
          BY <2>3, <3>1, <3>4
        <5> QED
          BY <3>4, <5>1
      <4> QED
        BY <4>1
    <3> QED
      BY <3>2, <3>3, <3>4
  <2> HIDE DEF E
  <2>7. \A i \in 0 .. N : i \in E
    <3> HIDE DEF N
    <3> QED
      BY <1>1, <2>5, <2>6, UpTo
  <2>8. N \in E
    BY <1>1, <2>7
  <2>9. Past(N)
    BY <1>1, <1>10, <2>3
  <2>10. n(N) = 0
    BY <2>8, <2>9 DEF E
  <2> QED
    BY <2>1, <2>2, <2>10
<1>11. NetOpen(S, s) = Abs(net) /\ Abs(net) <= M
  <2>1. CASE R = {}
    BY <1>7, <1>8, <1>9, <2>1 DEF NetOpen
  <2>2. CASE R # {}
    <3>1. Abs(net) = 0
      BY <1>10, <2>2 DEF Abs
    <3> QED
      BY <1>7, <1>8, <1>10, <2>2, <3>1 DEF NetOpen
  <2> QED
    BY <2>1, <2>2
<1>12. SignedNetOpen(S, s) = net
  <2> DEFINE A  == Opens(S, s)
             C  == {t \in S : Row[t].sec = s /\ Row[t].act \in ClosingActions}
             AB == {t \in A : Row[t].act \in BuyActions}
             AS == {t \in A : Row[t].act \notin BuyActions}
  <2>1. /\ A \in SUBSET Txn /\ C \in SUBSET Txn /\ AB \in SUBSET Txn /\ AS \in SUBSET Txn
        /\ Quantity(A) \in Nat /\ Quantity(C) \in Nat /\ Quantity(AB) \in Nat /\ Quantity(AS) \in Nat
    <3>1. A \in SUBSET Txn /\ C \in SUBSET Txn /\ AB \in SUBSET Txn /\ AS \in SUBSET Txn
      BY <1>1 DEF Opens
    <3> HIDE DEF A, C, AB, AS
    <3> QED
      BY <3>1, QuantitySums
  <2>2. M = Quantity(A) - Quantity(C)
    BY <1>7 DEF Traded
  <2>3. PICK long \in BOOLEAN : OneSidedNet(S, s, long)
    <3>1. OneSided(Trades(S, s))
      BY OneSidedTrades DEF Trades
    <3> QED
      BY <3>1, OneSidedWalk
  <2>4. IF long THEN net >= 0 ELSE net <= 0
    <3>1. NetAt(S, s, N) = net /\ N \in 0 .. N
      BY <1>1, NetAtWalk
    <3> QED
      BY <2>3, <3>1 DEF OneSidedNet
  <2>5. \A t \in A : Row[t].act \in BuyActions <=> long
    <3> SUFFICES ASSUME NEW t \in A
                 PROVE  Row[t].act \in BuyActions <=> long
      OBVIOUS
    <3>1. t \in Trades(S, s) /\ IsOpening(t) /\ t \in Txn
      BY <1>2 DEF Opens, Trades
    <3>2. ActionDelta(t) = IF long THEN Row[t].qty ELSE -Row[t].qty
      BY <2>3, <3>1 DEF OneSidedNet
    <3>3. Row[t].qty \in Int /\ Row[t].qty > 0
      BY <3>1, RowTypes
    <3>4. ActionDelta(t) = IF Row[t].act \in BuyActions THEN Row[t].qty ELSE -Row[t].qty
      BY DEF ActionDelta
    <3> QED
      BY <3>2, <3>3, <3>4
  <2> HIDE DEF A, C
  <2>6. CASE long
    <3>1. AS = {}
      BY <2>5, <2>6
    <3>2. Quantity(AS) = 0
      BY <2>1, <3>1, QuantitySums
    <3>3. ~Short(S, s)
      BY <2>1, <3>2 DEF Short, A
    <3>4. Abs(net) = net
      BY <1>8, <2>4, <2>6 DEF Abs
    <3> QED
      BY <1>11, <3>3, <3>4 DEF SignedNetOpen
  <2>7. CASE ~long
    <3>1. AB = {} /\ AS = A
      BY <2>5, <2>7
    <3>2. Quantity(AB) = 0 /\ Quantity(AS) = Quantity(A)
      BY <2>1, <3>1, QuantitySums
    <3>3. Short(S, s) <=> Quantity(A) > 0
      BY <2>1, <3>2 DEF Short, A
    <3>4. Abs(net) = -net
      BY <1>8, <2>4, <2>7 DEF Abs
    <3>5. Quantity(A) = 0 => net = 0
      BY <1>8, <1>11, <2>1, <2>2, <2>4, <2>7, <3>4
    <3> HIDE DEF net
    <3>6. SignedNetOpen(S, s) = IF Quantity(A) > 0 THEN -NetOpen(S, s) ELSE NetOpen(S, s)
      BY <3>3 DEF SignedNetOpen
    <3>7. CASE Quantity(A) > 0
      BY <1>8, <1>11, <3>4, <3>6, <3>7
    <3>8. CASE ~(Quantity(A) > 0)
      BY <1>8, <1>11, <2>1, <3>4, <3>5, <3>6, <3>8
    <3> QED
      BY <3>7, <3>8
  <2> QED
    BY <2>6, <2>7
<1> QED
  BY <1>11, <1>12

-----------------------------------------------------------------------------
(* A rebuild uses every contract and every fee once.                       *)

\* What a row makes of the numbers of a lot.
LEMMA LotFields ==
    ASSUME NEW lot \in LotType, NEW d \in Int, NEW t \in Txn
    PROVE  /\ FlatLot.net = 0 /\ FlatLot.until = 0 /\ FlatLot.opened = 0 /\ FlatLot.realised = 0
           /\ FlatLot.fees = {}
           /\ \A fees : LET new == NewLot(t, d, fees)
                        IN  /\ new.net = d /\ new.until = 0 /\ new.opened = Abs(d)
                            /\ new.realised = 0 /\ new.fees = fees
           /\ LET added == Added(lot, d, t)
              IN  /\ added.net = lot.net + d /\ added.until = lot.until
                  /\ added.opened = lot.opened + Abs(d) /\ added.realised = lot.realised
                  /\ added.fees = lot.fees \cup {t}
           /\ LET done == Reduced(lot, d, t)
              IN  /\ done.net = TowardZero(lot.net, Abs(d)) /\ done.until = lot.until
                  /\ done.opened = lot.opened
                  /\ done.realised = lot.realised + Lower(Abs(d), Abs(lot.net))
                  /\ done.fees = lot.fees \cup {t}
<1>1. /\ FlatLot.net = 0 /\ FlatLot.until = 0 /\ FlatLot.opened = 0 /\ FlatLot.realised = 0
      /\ FlatLot.fees = {}
  BY DEF FlatLot
<1>2. \A fees : LET new == NewLot(t, d, fees)
                IN  /\ new.net = d /\ new.until = 0 /\ new.opened = Abs(d)
                    /\ new.realised = 0 /\ new.fees = fees
  BY DEF NewLot, FlatLot
<1>3. LET added == Added(lot, d, t)
      IN  /\ added.net = lot.net + d /\ added.until = lot.until
          /\ added.opened = lot.opened + Abs(d) /\ added.realised = lot.realised
          /\ added.fees = lot.fees \cup {t}
  BY DEF Added, LotType
<1>4. LET done == Reduced(lot, d, t)
      IN  /\ done.net = TowardZero(lot.net, Abs(d)) /\ done.until = lot.until
          /\ done.opened = lot.opened
          /\ done.realised = lot.realised + Lower(Abs(d), Abs(lot.net))
          /\ done.fees = lot.fees \cup {t}
  BY DEF Reduced, LotType
<1> QED
  BY <1>1, <1>2, <1>3, <1>4

\* The contracts opened into a lot and realised out of it.
Handled == [lot \in LotType |-> lot.opened + lot.realised]

LotsOf(book) == {book.lot} \cup book.closed

ChargedIn(book) == UNION {lot.fees : lot \in LotsOf(book)}

HandledIn(book) == Handled[book.lot] + SumFunctionOnSet(Handled, book.closed)

\* The lots of a book: each accounts for its net, no two share a row's fees, and
\* those completed are told apart by the row that closed them.
LotsApart(book, rows) ==
    /\ IsFiniteSet(book.closed)
    /\ book.lot.net = 0 => book.lot = FlatLot
    /\ book.lot.until = 0
    /\ \A lot \in book.closed : lot.until \in rows
    /\ \A lot \in LotsOf(book) : lot.fees \subseteq rows /\ Abs(lot.net) = lot.opened - lot.realised
    /\ \A k, l \in LotsOf(book) : k # l => k.fees \cap l.fees = {}

ContractsMatch(book) ==
    /\ HandledIn(book) <= Contracts(ChargedIn(book))
    /\ (\A t \in ChargedIn(book) : ~IsNontradeClose(t)) => HandledIn(book) = Contracts(ChargedIn(book))

\* One row more is charged, for d of the contracts it carries.
LEMMA OneRowCharged ==
    ASSUME NEW book \in HistoryType, NEW after \in HistoryType, NEW t \in Txn,
           ContractsMatch(book), t \notin ChargedIn(book), ChargedIn(book) \subseteq Txn,
           ChargedIn(after) = ChargedIn(book) \cup {t},
           NEW d \in Nat, d <= Row[t].qty, ~IsNontradeClose(t) => d = Row[t].qty,
           HandledIn(book) \in Int, HandledIn(after) = HandledIn(book) + d
    PROVE  ContractsMatch(after)
<1> DEFINE C == ChargedIn(book)
<1>1. /\ Row[t].qty \in Nat /\ Contracts(C) \in Int
      /\ Contracts(C \cup {t}) = Contracts(C) + Row[t].qty
  <2>1. \A u \in Txn : Carried[u] \in Int /\ Carried[u] = Row[u].qty /\ Row[u].qty \in Nat
    BY RowTypes DEF Carried
  <2>2. IsFiniteSet(Txn) /\ C \in SUBSET Txn /\ C \cup {t} \in SUBSET Txn
    BY RowTypes
  <2>3. (\A u \in Txn : Carried[u] \in Int) /\ t \in Txn \ C
    BY <2>1
  <2> HIDE DEF C
  <2>4. /\ SumFunctionOnSet(Carried, C) \in Int
        /\ SumFunctionOnSet(Carried, C \cup {t}) = SumFunctionOnSet(Carried, C) + Carried[t]
    BY <2>2, <2>3, SumAdd
  <2> QED
    BY <2>1, <2>2, <2>4, QuantitySums
<1> HIDE DEF C
<1>2. HandledIn(book) <= Contracts(C) /\ HandledIn(after) <= Contracts(C \cup {t})
  BY <1>1 DEF ContractsMatch, C
<1>3. ASSUME \A u \in C \cup {t} : ~IsNontradeClose(u)
      PROVE  HandledIn(after) = Contracts(C \cup {t})
  <2>1. d = Row[t].qty /\ HandledIn(book) = Contracts(C)
    BY <1>3 DEF ContractsMatch, C
  <2> QED
    BY <1>1, <2>1
<1> QED
  BY <1>2, <1>3 DEF ContractsMatch, C

\* What the lots of a book handled is a number.
LEMMA HandledType ==
    ASSUME NEW book \in HistoryType, IsFiniteSet(book.closed)
    PROVE  /\ \A lot \in LotType : Handled[lot] \in Int /\ Handled[lot] = lot.opened + lot.realised
           /\ book.lot \in LotType /\ book.closed \in SUBSET LotType
           /\ SumFunctionOnSet(Handled, book.closed) \in Int
           /\ HandledIn(book) \in Int
           /\ \A c \in LotType \ book.closed :
                    SumFunctionOnSet(Handled, book.closed \cup {c})
                        = SumFunctionOnSet(Handled, book.closed) + Handled[c]
<1>1. \A lot \in LotType : Handled[lot] \in Int /\ Handled[lot] = lot.opened + lot.realised
  BY DEF Handled, LotType
<1>2. book.lot \in LotType /\ book.closed \in SUBSET LotType
  BY DEF HistoryType
<1>3. SumFunctionOnSet(Handled, book.closed) \in Int
  <2>1. \A x \in book.closed : Handled[x] \in Int
    BY <1>1, <1>2
  <2> QED
    BY <2>1, SumAny
<1>4. ASSUME NEW c \in LotType \ book.closed
      PROVE  SumFunctionOnSet(Handled, book.closed \cup {c})
                = SumFunctionOnSet(Handled, book.closed) + Handled[c]
  <2> DEFINE all == book.closed \cup {c}
  <2>1. IsFiniteSet(all) /\ \A x \in all : Handled[x] \in Int
    BY <1>1, <1>2, FS_AddElement
  <2>2. book.closed \in SUBSET all /\ c \in all \ book.closed
    OBVIOUS
  <2> HIDE DEF all
  <2>3. SumFunctionOnSet(Handled, book.closed \cup {c})
                = SumFunctionOnSet(Handled, book.closed) + Handled[c]
    BY <2>1, <2>2, SumAdd
  <2> QED
    BY <2>3
<1> QED
  BY <1>1, <1>2, <1>3, <1>4 DEF HandledIn

\* A row that stays within the open lot.
LEMMA LotGrows ==
    ASSUME NEW book \in HistoryType, NEW after \in HistoryType, NEW rows \in SUBSET Txn,
           NEW t \in Txn \ rows, NEW d \in Nat,
           LotsApart(book, rows), ContractsMatch(book),
           after.closed = book.closed, after.lot.net # 0, after.lot.until = 0,
           after.lot.fees = book.lot.fees \cup {t},
           Abs(after.lot.net) = after.lot.opened - after.lot.realised,
           after.lot.opened + after.lot.realised = book.lot.opened + book.lot.realised + d,
           d <= Row[t].qty, ~IsNontradeClose(t) => d = Row[t].qty
    PROVE  LotsApart(after, rows \cup {t}) /\ ContractsMatch(after)
<1>1. ChargedIn(after) = ChargedIn(book) \cup {t} /\ ChargedIn(book) \subseteq rows
  BY DEF ChargedIn, LotsOf, LotsApart
<1>2. LotsApart(after, rows \cup {t})
  <2>1. /\ IsFiniteSet(after.closed)
        /\ after.lot.net = 0 => after.lot = FlatLot
        /\ after.lot.until = 0
        /\ \A lot \in after.closed : lot.until \in rows \cup {t}
    BY DEF LotsApart
  <2>2. \A lot \in LotsOf(after) :
            lot.fees \subseteq rows \cup {t} /\ Abs(lot.net) = lot.opened - lot.realised
    BY DEF LotsApart, LotsOf
  <2>3. \A k \in book.closed : k.fees \subseteq rows /\ t \notin k.fees
    BY DEF LotsApart, LotsOf
  <2>4. \A k \in book.closed : k # book.lot
    <3>1. \A k \in book.closed : k.until \in rows /\ 0 \notin rows
      BY RowTypes DEF LotsApart
    <3>2. book.lot.until = 0
      BY DEF LotsApart
    <3> QED
      BY <3>1, <3>2
  <2>5. \A k \in book.closed : k.fees \cap after.lot.fees = {}
    <3>1. \A k \in book.closed : k.fees \cap book.lot.fees = {}
      BY <2>4 DEF LotsApart, LotsOf
    <3> QED
      BY <2>3, <3>1
  <2>6. \A k, l \in book.closed : k # l => k.fees \cap l.fees = {}
    BY DEF LotsApart, LotsOf
  <2>7. \A k, l \in LotsOf(after) : k # l => k.fees \cap l.fees = {}
    BY <2>5, <2>6 DEF LotsOf
  <2> QED
    BY <2>1, <2>2, <2>7 DEF LotsApart
<1>3. HandledIn(after) = HandledIn(book) + d /\ HandledIn(book) \in Int
  <2>1. IsFiniteSet(book.closed) /\ IsFiniteSet(after.closed)
    BY DEF LotsApart
  <2>2. /\ Handled[book.lot] \in Int /\ Handled[book.lot] = book.lot.opened + book.lot.realised
        /\ SumFunctionOnSet(Handled, book.closed) \in Int /\ HandledIn(book) \in Int
    BY <2>1, HandledType
  <2>3. Handled[after.lot] = after.lot.opened + after.lot.realised
    BY <2>1, HandledType
  <2> QED
    BY <2>2, <2>3 DEF HandledIn
<1>4. ContractsMatch(after)
  BY <1>1, <1>3, OneRowCharged
<1> QED
  BY <1>2, <1>4

\* A row that completes a lifecycle, and may start the next.
LEMMA LotCompletes ==
    ASSUME NEW book \in HistoryType, NEW after \in HistoryType, NEW rows \in SUBSET Txn,
           NEW t \in Txn \ rows, NEW d \in Nat, NEW c \in LotType,
           LotsApart(book, rows), ContractsMatch(book),
           after.closed = book.closed \cup {c}, c.until = t, c.fees = book.lot.fees \cup {t},
           c.net = 0, c.opened = c.realised,
           after.lot.fees = {}, after.lot.until = 0, after.lot.net = 0 => after.lot = FlatLot,
           Abs(after.lot.net) = after.lot.opened - after.lot.realised,
           c.opened + c.realised + after.lot.opened + after.lot.realised
                = book.lot.opened + book.lot.realised + d,
           d <= Row[t].qty, ~IsNontradeClose(t) => d = Row[t].qty
    PROVE  LotsApart(after, rows \cup {t}) /\ ContractsMatch(after)
<1>1. ChargedIn(after) = ChargedIn(book) \cup {t} /\ ChargedIn(book) \subseteq rows
  BY DEF ChargedIn, LotsOf, LotsApart
<1>2. LotsApart(after, rows \cup {t})
  <2>1. /\ IsFiniteSet(after.closed)
        /\ \A lot \in after.closed : lot.until \in rows \cup {t}
    BY FS_AddElement DEF LotsApart
  <2>2. Abs(c.net) = c.opened - c.realised
    BY DEF Abs, LotType
  <2>3. \A lot \in LotsOf(after) :
            lot.fees \subseteq rows \cup {t} /\ Abs(lot.net) = lot.opened - lot.realised
    BY <2>2 DEF LotsApart, LotsOf
  <2>4. \A k \in book.closed : k.fees \subseteq rows /\ t \notin k.fees
    BY DEF LotsApart, LotsOf
  <2>5. \A k \in book.closed : k # book.lot
    <3>1. \A k \in book.closed : k.until \in rows /\ 0 \notin rows
      BY RowTypes DEF LotsApart
    <3>2. book.lot.until = 0
      BY DEF LotsApart
    <3> QED
      BY <3>1, <3>2
  <2>6. \A k \in book.closed : k.fees \cap c.fees = {}
    <3>1. \A k \in book.closed : k.fees \cap book.lot.fees = {}
      BY <2>5 DEF LotsApart, LotsOf
    <3> QED
      BY <2>4, <3>1
  <2>7. \A k, l \in book.closed : k # l => k.fees \cap l.fees = {}
    BY DEF LotsApart, LotsOf
  <2>8. \A k, l \in LotsOf(after) : k # l => k.fees \cap l.fees = {}
    BY <2>6, <2>7 DEF LotsOf
  <2> QED
    BY <2>1, <2>3, <2>8 DEF LotsApart
<1>3. HandledIn(after) = HandledIn(book) + d /\ HandledIn(book) \in Int
  <2>1. IsFiniteSet(book.closed) /\ IsFiniteSet(after.closed)
    BY <1>2 DEF LotsApart
  <2>2. /\ Handled[book.lot] \in Int /\ Handled[book.lot] = book.lot.opened + book.lot.realised
        /\ SumFunctionOnSet(Handled, book.closed) \in Int /\ HandledIn(book) \in Int
    BY <2>1, HandledType
  <2>3. Handled[after.lot] = after.lot.opened + after.lot.realised /\ after.lot \in LotType
    BY <2>1, HandledType
  <2>4. c \notin book.closed
    BY DEF LotsApart
  <2>5. /\ Handled[c] = c.opened + c.realised
        /\ SumFunctionOnSet(Handled, book.closed \cup {c})
                = SumFunctionOnSet(Handled, book.closed) + Handled[c]
    BY <2>1, <2>4, HandledType
  <2>6. /\ c.opened \in Int /\ c.realised \in Int
        /\ after.lot.opened \in Int /\ after.lot.realised \in Int
    BY <2>3 DEF LotType
  <2> QED
    BY <2>2, <2>3, <2>5, <2>6 DEF HandledIn
<1>4. ContractsMatch(after)
  BY <1>1, <1>3, OneRowCharged
<1> QED
  BY <1>2, <1>4

LEMMA RebuildStepOnce ==
    ASSUME NEW book \in HistoryType, NEW rows \in SUBSET Txn, NEW t \in Txn \ rows,
           LotsApart(book, rows), ContractsMatch(book)
    PROVE  LotsApart(ReplayRow(book, t), rows \cup {t}) /\ ContractsMatch(ReplayRow(book, t))
<1> DEFINE lot   == book.lot
           net   == lot.net
           delta == EffectiveDelta(lot.net, book.had, t)
           done  == Reduced(lot, delta, t)
           after == ReplayRow(book, t)
           d     == Abs(delta)
           c     == [done EXCEPT !.until = t]
<1>1. /\ delta \in Int /\ after \in HistoryType
      /\ delta = 0 \/ ~HasPrice(t) => after = book
      /\ delta # 0 /\ HasPrice(t) =>
            \/ net = 0 /\ after.lot = NewLot(t, delta, {t}) /\ after.closed = book.closed
            \/ net * delta > 0 /\ after.lot = Added(lot, delta, t) /\ after.closed = book.closed
            \/ net * delta < 0 /\ done.net # 0 /\ after.lot = done /\ after.closed = book.closed
            \/ /\ net * delta < 0 /\ done.net = 0
               /\ after.lot = AfterReducing(lot, delta, t)
               /\ after.closed = book.closed \cup {c}
  BY ReplayRowCases
<1>2. /\ lot \in LotType /\ book.had \in BOOLEAN /\ net \in Int
      /\ lot.opened \in Int /\ lot.realised \in Int
  BY DEF HistoryType, LotType
<1>3. d \in Nat /\ d <= Row[t].qty /\ (~IsNontradeClose(t) /\ delta # 0 => d = Row[t].qty)
  <2>1. d <= Row[t].qty /\ (~IsNontradeClose(t) /\ delta # 0 => d = Row[t].qty)
    BY <1>2, DeltaType
  <2> HIDE DEF delta
  <2>2. d \in Nat
    BY <1>1 DEF Abs
  <2> QED
    BY <2>1, <2>2
<1>4. lot.until = 0 /\ Abs(net) = lot.opened - lot.realised /\ (net = 0 => lot = FlatLot)
  BY DEF LotsApart, LotsOf
<1> HIDE DEF delta, after
<1>5. /\ FlatLot.net = 0 /\ FlatLot.until = 0 /\ FlatLot.opened = 0 /\ FlatLot.realised = 0
      /\ FlatLot.fees = {}
  BY LotFields, <1>1, <1>2
<1>6. \A x \in Int : \A fees : LET new == NewLot(t, x, fees)
            IN  /\ new.net = x /\ new.until = 0 /\ new.opened = Abs(x)
                /\ new.realised = 0 /\ new.fees = fees
  BY DEF NewLot, FlatLot
<1>7. LET added == Added(lot, delta, t)
      IN  /\ added.net = net + delta /\ added.until = lot.until
          /\ added.opened = lot.opened + Abs(delta) /\ added.realised = lot.realised
          /\ added.fees = lot.fees \cup {t}
  BY LotFields, <1>1, <1>2
<1>8. /\ done.net = TowardZero(net, d) /\ done.until = lot.until
      /\ done.opened = lot.opened
      /\ done.realised = lot.realised + Lower(d, Abs(net))
      /\ done.fees = lot.fees \cup {t}
  BY LotFields, <1>1, <1>2
<1>9. done \in LotType /\ c \in LotType
  <2>1. {} \in SUBSET Txn
    OBVIOUS
  <2> QED
    BY <1>1, <1>2, <2>1, LotTypes
<1>10. /\ c.until = t /\ c.fees = done.fees /\ c.net = done.net
       /\ c.opened = done.opened /\ c.realised = done.realised
  BY <1>9 DEF LotType
<1>11. /\ net * delta > 0 => (net > 0 /\ delta > 0) \/ (net < 0 /\ delta < 0)
       /\ net * delta < 0 => (net > 0 /\ delta < 0) \/ (net < 0 /\ delta > 0)
  BY <1>1, <1>2, ProductSign
<1>12. Abs(done.net) = (IF Abs(net) > d THEN Abs(net) - d ELSE 0) /\ done.net \in Int
  <2>1. net \in Int /\ d \in Nat /\ done.net = TowardZero(net, d)
    BY <1>2, <1>3, <1>8
  <2> HIDE DEF done, d, net
  <2> QED
    BY <2>1, TowardZeroIs
<1>13. CASE delta = 0 \/ ~HasPrice(t)
  <2>1. after = book
    BY <1>1, <1>13
  <2>2. LotsApart(book, rows \cup {t})
    BY DEF LotsApart
  <2> QED
    BY <2>1, <2>2 DEF after
<1>14. ASSUME delta # 0, HasPrice(t),
              after.closed = book.closed,
              after.lot.net # 0, after.lot.until = 0,
              after.lot.fees = lot.fees \cup {t},
              Abs(after.lot.net) = after.lot.opened - after.lot.realised,
              after.lot.opened + after.lot.realised = lot.opened + lot.realised + d
       PROVE  LotsApart(after, rows \cup {t}) /\ ContractsMatch(after)
  <2> HIDE DEF d
  <2> QED
    BY <1>1, <1>3, <1>14, LotGrows
<1>15. ASSUME delta # 0, HasPrice(t), net = 0, after.lot = NewLot(t, delta, {t}),
              after.closed = book.closed
       PROVE  LotsApart(after, rows \cup {t}) /\ ContractsMatch(after)
  <2>1. /\ after.lot.net = delta /\ after.lot.until = 0 /\ after.lot.opened = d
        /\ after.lot.realised = 0 /\ after.lot.fees = {t}
    BY <1>1, <1>6, <1>15
  <2>2. lot.opened = 0 /\ lot.realised = 0 /\ lot.fees = {}
    BY <1>4, <1>5, <1>15
  <2>3. Abs(after.lot.net) = d /\ after.lot.net # 0 /\ after.lot.fees = lot.fees \cup {t}
    BY <1>15, <2>1, <2>2
  <2> HIDE DEF d
  <2>4. d = d - 0 /\ d + 0 = 0 + 0 + d
    BY <1>3
  <2>5. Abs(after.lot.net) = after.lot.opened - after.lot.realised
    BY <2>1, <2>3, <2>4
  <2>6. after.lot.opened + after.lot.realised = lot.opened + lot.realised + d
    BY <2>1, <2>2, <2>4
  <2> HIDE DEF lot, net
  <2> QED
    BY <1>14, <1>15, <2>1, <2>3, <2>5, <2>6
<1>16. ASSUME delta # 0, HasPrice(t), net * delta > 0, after.lot = Added(lot, delta, t),
              after.closed = book.closed
       PROVE  LotsApart(after, rows \cup {t}) /\ ContractsMatch(after)
  <2>1. /\ after.lot.net = net + delta /\ after.lot.until = 0 /\ after.lot.opened = lot.opened + d
        /\ after.lot.realised = lot.realised /\ after.lot.fees = lot.fees \cup {t}
    BY <1>4, <1>7, <1>16
  <2>2. Abs(net + delta) = Abs(net) + d /\ net + delta # 0
    BY <1>1, <1>2, <1>11, <1>16 DEF Abs
  <2>3. Abs(after.lot.net) = after.lot.opened - after.lot.realised
    BY <1>2, <1>3, <1>4, <2>1, <2>2
  <2> QED
    BY <1>2, <1>3, <1>14, <1>16, <2>1, <2>2, <2>3
<1>17. ASSUME delta # 0, HasPrice(t), net * delta < 0, done.net # 0, after.lot = done,
              after.closed = book.closed
       PROVE  LotsApart(after, rows \cup {t}) /\ ContractsMatch(after)
  <2>1. Abs(net) > d /\ Abs(done.net) = Abs(net) - d
    BY <1>12, <1>17 DEF Abs
  <2>2. Lower(d, Abs(net)) = d /\ Abs(net) \in Int
    BY <1>2, <1>3, <2>1 DEF Lower, Abs
  <2> HIDE DEF done, d
  <2> QED
    BY <1>2, <1>3, <1>4, <1>8, <1>14, <1>17, <2>1, <2>2
<1>18. ASSUME delta # 0, HasPrice(t), net * delta < 0, done.net = 0,
              after.lot = AfterReducing(lot, delta, t), after.closed = book.closed \cup {c}
       PROVE  LotsApart(after, rows \cup {t}) /\ ContractsMatch(after)
  <2>1. Abs(net) <= d /\ Abs(net) \in Nat
    BY <1>2, <1>3, <1>12, <1>18 DEF Abs
  <2>2. Lower(d, Abs(net)) = Abs(net)
    BY <1>3, <2>1 DEF Lower
  <2>3. c.opened = c.realised /\ c.opened = lot.opened /\ c.net = 0 /\ c.fees = lot.fees \cup {t}
    BY <1>2, <1>4, <1>8, <1>10, <1>18, <2>1, <2>2
  <2>4. net + delta \in Int /\ Abs(net + delta) = d - Abs(net) /\ (d > Abs(net) => net + delta # 0)
    BY <1>1, <1>2, <1>11, <1>18, <2>1 DEF Abs
  <2>5. after.lot = IF d > Abs(net) THEN NewLot(t, net + delta, {}) ELSE FlatLot
    BY <1>18 DEF AfterReducing
  <2>6. /\ after.lot.until = 0 /\ after.lot.fees = {} /\ after.lot.realised = 0
        /\ after.lot.opened = d - Abs(net) /\ Abs(after.lot.net) = d - Abs(net)
        /\ after.lot.net = 0 => after.lot = FlatLot
    <3>1. CASE d > Abs(net)
      <4> DEFINE x == net + delta
      <4>1. x \in Int /\ after.lot = NewLot(t, x, {}) /\ Abs(x) = d - Abs(net) /\ x # 0
        BY <2>4, <2>5, <3>1
      <4> HIDE DEF x
      <4> QED
        BY <1>6, <4>1
    <3>2. CASE ~(d > Abs(net))
      <4>1. after.lot = FlatLot /\ d - Abs(net) = 0
        BY <1>3, <2>1, <2>5, <3>2
      <4>2. Abs(FlatLot.net) = 0
        BY <1>5 DEF Abs
      <4> QED
        BY <1>5, <4>1, <4>2
    <3> QED
      BY <3>1, <3>2
  <2>7. /\ Abs(after.lot.net) = after.lot.opened - after.lot.realised
        /\ c.opened + c.realised + after.lot.opened + after.lot.realised
                = lot.opened + lot.realised + d
    BY <1>2, <1>3, <1>4, <2>1, <2>3, <2>6
  <2> HIDE DEF c, d
  <2> QED
    BY <1>1, <1>3, <1>9, <1>10, <1>18, <2>3, <2>6, <2>7, LotCompletes
<1> HIDE DEF done, c, lot, net
<1>19. ASSUME delta # 0, HasPrice(t)
       PROVE  LotsApart(after, rows \cup {t}) /\ ContractsMatch(after)
  BY <1>1, <1>15, <1>16, <1>17, <1>18, <1>19
<1>20. LotsApart(after, rows \cup {t}) /\ ContractsMatch(after)
  BY <1>13, <1>19 DEF after
<1> QED
  BY <1>20 DEF after

\* The whole rebuild of one security.
LEMMA RebuildOnce ==
    ASSUME NEW S \in SUBSET Txn, NEW s \in Sec
    PROVE  /\ ReplaySecurity(S, s) \in HistoryType
           /\ LotsApart(ReplaySecurity(S, s), S) /\ ContractsMatch(ReplaySecurity(S, s))
<1> DEFINE N == Len(Row)
<1>1. N \in Nat /\ Txn = 1 .. N
  BY RowTypes
<1>2. PICK w \in [0 .. N -> HistoryType] :
            /\ w[0] = NoHistory
            /\ \A i \in Txn :
                w[i] = IF Visits(S, s, i) THEN ReplayRow(w[i - 1], Replayed[i]) ELSE w[i - 1]
            /\ ReplaySecurity(S, s) = w[N]
  BY RebuildWalk
<1> DEFINE E == {i \in 0 .. N : LotsApart(w[i], Seen(S, i)) /\ ContractsMatch(w[i])}
<1>3. 0 \in E
  <2>1. Seen(S, 0) = {} /\ 0 \in 0 .. N
    BY <1>1, SeenGrows
  <2>2. /\ NoHistory.lot = FlatLot /\ NoHistory.closed = {}
        /\ FlatLot.net = 0 /\ FlatLot.until = 0 /\ FlatLot.opened = 0 /\ FlatLot.realised = 0
        /\ FlatLot.fees = {}
    BY DEF NoHistory, FlatLot
  <2>3. LotsOf(NoHistory) = {FlatLot}
    BY <2>2 DEF LotsOf
  <2>4. ChargedIn(NoHistory) = {}
    BY <2>2, <2>3 DEF ChargedIn
  <2>5. HandledIn(NoHistory) = 0
    <3>1. Handled[FlatLot] = 0
      <4>1. NoHistory \in HistoryType /\ IsFiniteSet(NoHistory.closed)
        BY <2>2, NoHistoryType, FS_EmptySet
      <4>2. NoHistory.lot \in LotType /\ Handled[NoHistory.lot] = NoHistory.lot.opened + NoHistory.lot.realised
        BY <4>1, HandledType
      <4> QED
        BY <2>2, <4>2
    <3>2. SumFunctionOnSet(Handled, {}) = 0
      BY SumEmpty
    <3> QED
      BY <2>2, <3>1, <3>2 DEF HandledIn
  <2>6. Contracts({}) = 0
    BY QuantitySums
  <2>7. ContractsMatch(NoHistory)
    BY <2>4, <2>5, <2>6 DEF ContractsMatch
  <2>8. Abs(FlatLot.net) = FlatLot.opened - FlatLot.realised
    BY <2>2 DEF Abs
  <2>9. LotsApart(NoHistory, {})
    <3>1. IsFiniteSet({})
      BY FS_EmptySet
    <3> QED
      BY <2>2, <2>3, <2>8, <3>1 DEF LotsApart
  <2> QED
    BY <1>2, <2>1, <2>7, <2>9
<1>4. ASSUME NEW i \in 0 .. N, i # 0, i - 1 \in E
      PROVE  i \in E
  <2>1. i \in Txn /\ i - 1 \in 0 .. N
    BY <1>1, <1>4
  <2>2. w[i - 1] \in HistoryType /\ LotsApart(w[i - 1], Seen(S, i - 1)) /\ ContractsMatch(w[i - 1])
    BY <1>2, <1>4, <2>1
  <2>3. CASE Visits(S, s, i)
    <3>1. /\ Replayed[i] \in Txn \ Seen(S, i - 1)
          /\ Seen(S, i) = Seen(S, i - 1) \cup {Replayed[i]}
      BY <2>1, <2>3, SeenGrows DEF Visits
    <3>2. w[i] = ReplayRow(w[i - 1], Replayed[i])
      BY <1>2, <2>1, <2>3
    <3>3. Seen(S, i - 1) \in SUBSET Txn
      BY DEF Seen
    <3> QED
      BY <2>2, <3>1, <3>2, <3>3, RebuildStepOnce
  <2>4. CASE ~Visits(S, s, i)
    <3>1. w[i] = w[i - 1] /\ Seen(S, i - 1) \subseteq Seen(S, i)
      <4>1. w[i] = w[i - 1]
        BY <1>2, <2>1, <2>4
      <4>2. Seen(S, i) = IF Replayed[i] \in S THEN Seen(S, i - 1) \cup {Replayed[i]}
                                              ELSE Seen(S, i - 1)
        BY <2>1, SeenGrows
      <4> QED
        BY <4>1, <4>2
    <3>2. LotsApart(w[i], Seen(S, i))
      BY <2>2, <3>1 DEF LotsApart
    <3> QED
      BY <2>2, <3>1, <3>2
  <2> QED
    BY <2>3, <2>4
<1> HIDE DEF E, N
<1>5. \A i \in 0 .. N : i \in E
  BY <1>1, <1>3, <1>4, UpTo
<1>6. N \in E /\ w[N] \in HistoryType
  BY <1>1, <1>2, <1>5
<1>7. Seen(S, N) = S
  BY SeenGrows DEF N
<1> QED
  BY <1>2, <1>6, <1>7 DEF E

-----------------------------------------------------------------------------
(* The draw-down of one row.                                               *)

RemainingType == [Group -> [Sec -> Int]]
DrawType == [remaining : RemainingType, left : Nat, first : Group \cup {NoGroup}]

\* One listed group's part in it.
DrawStep(d, g, t) ==
    LET net  == d.remaining[g][Row[t].sec]
        take == Lower(d.left, Abs(net))
    IN  IF d.left > 0 /\ Offsets(net, t)
        THEN [remaining |-> [d.remaining EXCEPT ![g][Row[t].sec] = TowardZero(net, take)],
              left      |-> d.left - take,
              first     |-> IF d.first = NoGroup THEN g ELSE d.first]
        ELSE d

DrawStart(remaining, t) == [remaining |-> remaining, left |-> Row[t].qty, first |-> NoGroup]

LEMMA DrawStepCases ==
    ASSUME NEW d \in DrawType, NEW g \in Group, NEW t \in Txn
    PROVE  LET s     == Row[t].sec
               net   == d.remaining[g][s]
               take  == Lower(d.left, Abs(net))
               after == DrawStep(d, g, t)
           IN  /\ after \in DrawType
               /\ ~(d.left > 0 /\ Offsets(net, t)) => after = d
               /\ d.left > 0 /\ Offsets(net, t) =>
                    /\ after.left = d.left - take
                    /\ after.first = IF d.first = NoGroup THEN g ELSE d.first
                    /\ \A h \in Group, r \in Sec :
                        after.remaining[h][r] = IF h = g /\ r = s THEN TowardZero(net, take)
                                                ELSE d.remaining[h][r]
<1> DEFINE s     == Row[t].sec
           net   == d.remaining[g][s]
           take  == Lower(d.left, Abs(net))
           after == DrawStep(d, g, t)
           rem   == [d.remaining EXCEPT ![g][s] = TowardZero(net, take)]
<1>1. s \in Sec /\ d.remaining \in RemainingType /\ d.left \in Nat /\ d.first \in Group \cup {NoGroup}
  BY RowTypes DEF DrawType
<1>2. net \in Int
  BY <1>1 DEF RemainingType
<1>3. take \in Nat /\ d.left - take \in Nat /\ TowardZero(net, take) \in Int
  BY <1>1, <1>2 DEF Lower, Abs, TowardZero
<1>4. CASE ~(d.left > 0 /\ Offsets(net, t))
  BY <1>4 DEF DrawStep
<1>5. CASE d.left > 0 /\ Offsets(net, t)
  <2> DEFINE z == TowardZero(net, take)
             x == [d.remaining EXCEPT ![g][s] = z]
             f == IF d.first = NoGroup THEN g ELSE d.first
  <2>1. after = [remaining |-> x, left |-> d.left - take, first |-> f]
    BY <1>5 DEF DrawStep
  <2>2. z \in Int /\ d.left - take \in Nat /\ f \in Group \cup {NoGroup}
    BY <1>1, <1>3
  <2> HIDE DEF z, take, net, s
  <2>3. x \in RemainingType
    BY <1>1, <2>2 DEF RemainingType
  <2>4. \A h \in Group, r \in Sec : x[h][r] = IF h = g /\ r = s THEN z ELSE d.remaining[h][r]
    BY <1>1 DEF RemainingType
  <2> HIDE DEF x, f, after
  <2>5. after \in DrawType
    BY <2>1, <2>2, <2>3 DEF DrawType
  <2>6. after.left = d.left - take /\ after.first = f /\ after.remaining = x
    BY <2>1
  <2> QED
    BY <1>5, <2>4, <2>5, <2>6 DEF z, take, net, s, x, f, after
<1> QED
  BY <1>4, <1>5

LEMMA DrawDownWalk ==
    ASSUME NEW n \in Nat, NEW list \in [1 .. n -> Group], NEW remaining \in RemainingType, NEW t \in Txn
    PROVE  \E d \in [0 .. n -> DrawType] :
                /\ d[0] = DrawStart(remaining, t)
                /\ \A k \in 1 .. n : d[k] = DrawStep(d[k - 1], list[k], t)
                /\ DrawDown(list, remaining, t) = d[n]
<1> DEFINE start == DrawStart(remaining, t)
           IsWalk(f) == f = [k \in 0 .. n |-> IF k = 0 THEN start ELSE DrawStep(f[k - 1], list[k], t)]
           w == CHOOSE f : IsWalk(f)
           step == [k \in 1 .. n |-> [d \in DrawType |-> DrawStep(d, list[k], t)]]
<1>1. DrawDown(list, remaining, t) = w[n]
  <2>1. Len(list) = n
    <3>1. list \in Seq(Group) /\ DOMAIN list = 1 .. n
      OBVIOUS
    <3>2. Len(list) \in Nat /\ DOMAIN list = 1 .. Len(list)
      BY <3>1
    <3> QED
      BY <3>1, <3>2
  <2> QED
    BY <2>1 DEF DrawDown, DrawStep, DrawStart
<1>2. start \in DrawType
  BY RowTypes DEF DrawType, DrawStart
<1>3. \A d \in DrawType, k \in 1 .. n : DrawStep(d, list[k], t) \in DrawType
  BY DrawStepCases
<1>4. \A d \in DrawType, k \in 1 .. n : step[k][d] = DrawStep(d, list[k], t)
  OBVIOUS
<1> HIDE DEF step, start
<1>5. StaysIn(n, DrawType, step)
  BY <1>3, <1>4 DEF StaysIn
<1>6. PICK v : v \in Walks(n, DrawType, start, step)
  BY <1>2, <1>5, WalkExists
<1>7. /\ v \in [0 .. n -> DrawType] /\ v[0] = start
      /\ \A k \in 1 .. n : v[k - 1] \in DrawType /\ v[k] = DrawStep(v[k - 1], list[k], t)
  <2>1. /\ v \in [0 .. n -> DrawType] /\ v[0] = start
        /\ \A k \in 1 .. n : v[k] = step[k][v[k - 1]]
    BY <1>6 DEF Walks
  <2>2. \A k \in 1 .. n : v[k - 1] \in DrawType
    BY <2>1
  <2> QED
    BY <1>4, <2>1, <2>2
<1>8. IsWalk(v)
  <2>1. \A k \in 0 .. n : v[k] = IF k = 0 THEN start ELSE DrawStep(v[k - 1], list[k], t)
    BY <1>7
  <2> QED
    BY <1>7, <2>1
<1>9. IsWalk(w)
  BY <1>8
<1> HIDE DEF w
<1>10. w[0] = start /\ \A k \in 1 .. n : w[k] = DrawStep(w[k - 1], list[k], t)
  BY <1>9
<1> HIDE DEF IsWalk
<1>11. \A k \in 1 .. n : w[k - 1] \in DrawType => w[k] = step[k][w[k - 1]]
  BY <1>4, <1>10
<1>12. w[n] = v[n]
  BY <1>2, <1>5, <1>6, <1>10, <1>11, WalkUnique
<1> QED
  BY <1>1, <1>7, <1>12 DEF start

\* A net that was drawn on lies between zero and what it was.
Shrunk(a, b) == (b >= 0 => a >= 0) /\ (b <= 0 => a <= 0)

LEMMA ShrunkOpposes ==
    ASSUME NEW a \in Int, NEW b \in Int, NEW c \in Int, Shrunk(a, b), b * c <= 0, c # 0
    PROVE  a * c <= 0 /\ (a # 0 => a * c < 0)
<1>1. (b > 0 => c < 0) /\ (b < 0 => c > 0)
  <2>1. /\ b * c > 0 <=> (b > 0 /\ c > 0) \/ (b < 0 /\ c < 0)
        /\ b * c \in Int
    BY ProductSign
  <2> QED
    BY <2>1
<1>2. a = 0 \/ (a > 0 /\ c < 0) \/ (a < 0 /\ c > 0)
  BY <1>1 DEF Shrunk
<1>3. /\ a * c \in Int
      /\ a * c = 0 <=> a = 0 \/ c = 0
      /\ a * c < 0 <=> (a > 0 /\ c < 0) \/ (a < 0 /\ c > 0)
  BY ProductSign
<1> QED
  BY <1>2, <1>3

LEMMA MaxZero ==
    ASSUME NEW x \in Int
    PROVE  Max({0, x}) = IF x > 0 THEN x ELSE 0
<1> DEFINE S == {0, x}
           m == IF x > 0 THEN x ELSE 0
<1>1. S \in SUBSET Int /\ m \in S /\ \A k \in S : k <= m
  OBVIOUS
<1> HIDE DEF S, m
<1>2. Max(S) = m
  BY <1>1, MaxIs
<1> QED
  BY <1>2 DEF S, m

\* What all groups hold of a security.
LEMMA HeldSums ==
    ASSUME NEW rem \in RemainingType, NEW s \in Sec
    PROVE  /\ HeldBy(rem, s) \in Nat
           /\ (\A g \in Group : rem[g][s] = 0) => HeldBy(rem, s) = 0
<1> DEFINE Held(m) == [g \in Group |-> Abs(m[g][s])]
<1>1. \A m : HeldBy(m, s) = SumFunctionOnSet(Held(m), Group)
  BY DEF HeldBy, SumFunction
<1>2. IsFiniteSet(Group)
  BY NettingAssumption
<1>3. \A m \in RemainingType, g \in Group : m[g][s] \in Int /\ Held(m)[g] = Abs(m[g][s]) /\ Held(m)[g] \in Nat
  BY DEF RemainingType, Abs
<1>4. (\A g \in Group : rem[g][s] = 0) => \A g \in Group : Held(rem)[g] = 0
  BY DEF Abs
<1> HIDE DEF Held
<1>5. \A g \in Group : Held(rem)[g] \in Nat
  BY <1>3
<1>6. SumFunctionOnSet(Held(rem), Group) \in Nat
  BY <1>2, <1>5, SumBounds
<1>7. (\A g \in Group : Held(rem)[g] = 0) => SumFunctionOnSet(Held(rem), Group) = 0
  <2> SUFFICES ASSUME \A g \in Group : Held(rem)[g] = 0
               PROVE  SumFunctionOnSet(Held(rem), Group) = 0
    OBVIOUS
  <2> DEFINE P == {T \in SUBSET Group : SumFunctionOnSet(Held(rem), T) = 0}
  <2>1. {} \in P
    BY SumEmpty
  <2>2. \A g \in Group : Held(rem)[g] \in Int
    BY <1>5
  <2>3. ASSUME NEW T \in SUBSET Group, T \in P, NEW x \in Group \ T
        PROVE  T \cup {x} \in P
    <3>1. SumFunctionOnSet(Held(rem), T \cup {x}) = SumFunctionOnSet(Held(rem), T) + Held(rem)[x]
      BY <1>2, <2>2, SumAdd
    <3> QED
      BY <2>3, <3>1
  <2> HIDE DEF P
  <2>4. Group \in P
    BY <1>2, <2>1, <2>3, Gathered
  <2> QED
    BY <2>4 DEF P
<1> QED
  BY <1>1, <1>4, <1>6, <1>7

\* It changes with the net of one group.
LEMMA HeldChanges ==
    ASSUME NEW rem \in RemainingType, NEW new \in RemainingType, NEW s \in Sec, NEW g \in Group,
           \A h \in Group : h # g => new[h][s] = rem[h][s]
    PROVE  HeldBy(new, s) = HeldBy(rem, s) - Abs(rem[g][s]) + Abs(new[g][s])
<1> DEFINE Held(m) == [h \in Group |-> Abs(m[h][s])]
           f == Held(rem)
           k == Held(new)
<1>1. HeldBy(rem, s) = SumFunctionOnSet(f, Group) /\ HeldBy(new, s) = SumFunctionOnSet(k, Group)
  BY DEF HeldBy, SumFunction
<1>2. IsFiniteSet(Group)
  BY NettingAssumption
<1>3. \A y \in Group : f[y] = Abs(rem[y][s]) /\ k[y] = Abs(new[y][s])
  OBVIOUS
<1>4. \A y \in Group : f[y] \in Int /\ k[y] \in Int
  BY DEF RemainingType, Abs
<1>5. \A y \in Group : y # g => k[y] = f[y]
  BY <1>3
<1> HIDE DEF f, k
<1>6. SumFunctionOnSet(k, Group) = SumFunctionOnSet(f, Group) - f[g] + k[g]
  BY <1>2, <1>4, <1>5, SumChange
<1> QED
  BY <1>1, <1>3, <1>6

\* A drawn row leaves the other securities alone, and every net where it was or
\* nearer to zero.
LEMMA DrawShrinks ==
    ASSUME NEW n \in Nat, NEW list \in [1 .. n -> Group], NEW remaining \in RemainingType, NEW t \in Txn
    PROVE  LET out == DrawDown(list, remaining, t)
           IN  /\ out \in DrawType
               /\ \A g \in Group, r \in Sec :
                    /\ r # Row[t].sec => out.remaining[g][r] = remaining[g][r]
                    /\ Shrunk(out.remaining[g][r], remaining[g][r])
<1>1. PICK d \in [0 .. n -> DrawType] :
            /\ d[0] = DrawStart(remaining, t)
            /\ \A k \in 1 .. n : d[k] = DrawStep(d[k - 1], list[k], t)
            /\ DrawDown(list, remaining, t) = d[n]
  BY DrawDownWalk
<1> DEFINE Near(rem) ==
                \A g \in Group, r \in Sec :
                    /\ r # Row[t].sec => rem[g][r] = remaining[g][r]
                    /\ Shrunk(rem[g][r], remaining[g][r])
           E == {k \in 0 .. n : Near(d[k].remaining)}
<1>2. \A g \in Group, r \in Sec : remaining[g][r] \in Int
  BY DEF RemainingType
<1>3. 0 \in E
  <2>1. d[0].remaining = remaining
    BY <1>1 DEF DrawStart
  <2> QED
    BY <1>2, <2>1 DEF Shrunk
<1>4. ASSUME NEW k \in 0 .. n, k # 0, k - 1 \in E
      PROVE  k \in E
  <2> DEFINE a == d[k - 1]
             g == list[k]
             net == a.remaining[g][Row[t].sec]
             take == Lower(a.left, Abs(net))
  <2>1. k \in 1 .. n /\ a \in DrawType /\ g \in Group /\ d[k] = DrawStep(a, g, t)
    BY <1>1, <1>4
  <2>2. Near(a.remaining)
    BY <1>4
  <2>3. a.left \in Nat /\ net \in Int /\ Row[t].sec \in Sec
    BY <2>1, RowTypes DEF DrawType, RemainingType
  <2>4. take \in Nat /\ (net >= 0 => TowardZero(net, take) >= 0) /\ (net <= 0 => TowardZero(net, take) <= 0)
    <3>1. take \in Nat
      BY <2>3 DEF Lower, Abs
    <3> HIDE DEF net, take
    <3> QED
      BY <2>3, <3>1, TowardZeroIs
  <2> HIDE DEF a, g
  <2>5. CASE ~(a.left > 0 /\ Offsets(net, t))
    BY <2>1, <2>2, <2>5, DrawStepCases
  <2>6. CASE a.left > 0 /\ Offsets(net, t)
    <3>1. \A h \in Group, r \in Sec :
            d[k].remaining[h][r] = IF h = g /\ r = Row[t].sec THEN TowardZero(net, take)
                                   ELSE a.remaining[h][r]
      BY <2>1, <2>6, DrawStepCases
    <3>2. ASSUME NEW h \in Group, NEW r \in Sec
          PROVE  /\ r # Row[t].sec => d[k].remaining[h][r] = remaining[h][r]
                 /\ Shrunk(d[k].remaining[h][r], remaining[h][r])
      <4>1. CASE h = g /\ r = Row[t].sec
        <5>1. d[k].remaining[h][r] = TowardZero(net, take) /\ Shrunk(net, remaining[h][r])
          BY <2>2, <3>1, <4>1
        <5> HIDE DEF net, take
        <5> QED
          BY <2>4, <4>1, <5>1 DEF Shrunk
      <4>2. CASE ~(h = g /\ r = Row[t].sec)
        BY <2>2, <3>1, <4>2
      <4> QED
        BY <4>1, <4>2
    <3> QED
      BY <2>1, <3>2
  <2> QED
    BY <2>5, <2>6
<1> HIDE DEF E
<1>5. \A k \in 0 .. n : k \in E
  BY <1>3, <1>4, UpTo
<1>6. n \in E /\ d[n] \in DrawType
  BY <1>1, <1>5
<1> QED
  BY <1>1, <1>6 DEF E

\* The row meets no holding of its own side.
Meets(remaining, t, s) ==
    Row[t].act # NoAction => \A g \in Group : remaining[g][s] * ActionDelta(t) <= 0

\* A close that meets no holding of its own side takes what it carries, or all there is.
LEMMA DrawTakes ==
    ASSUME NEW list \in Lists, NEW remaining \in RemainingType, NEW t \in Txn, NEW s \in Sec,
           Row[t].sec = s, Meets(remaining, t, s)
    PROVE  HeldBy(DrawDown(list, remaining, t).remaining, s)
                = Max({0, HeldBy(remaining, s) - Row[t].qty})
<1> DEFINE n == Cardinality(Group)
           q == Row[t].qty
           H(m) == HeldBy(m, s)
<1>0. /\ n \in Nat /\ list \in [1 .. n -> Group] /\ \A g \in Group : \E k \in 1 .. n : list[k] = g
      /\ Row[t].act # NoAction => \A g \in Group : remaining[g][s] * ActionDelta(t) <= 0
  BY NettingAssumption, FS_CardinalityType DEF Lists, Meets
<1> HIDE DEF n
<1>1. PICK d \in [0 .. n -> DrawType] :
            /\ d[0] = DrawStart(remaining, t)
            /\ \A k \in 1 .. n : d[k] = DrawStep(d[k - 1], list[k], t)
            /\ DrawDown(list, remaining, t) = d[n]
  BY <1>0, DrawDownWalk
<1>2. q \in Nat /\ \A m \in RemainingType : H(m) \in Nat
  BY RowTypes, HeldSums
<1> DEFINE Drawn(k) ==
                /\ \A g \in Group : Shrunk(d[k].remaining[g][s], remaining[g][s])
                /\ d[k].left <= q
                /\ H(d[k].remaining) = H(remaining) - (q - d[k].left)
                /\ d[k].left = 0 \/ \A j \in 1 .. k : d[k].remaining[list[j]][s] = 0
           E == {k \in 0 .. n : Drawn(k)}
<1>3. \A g \in Group : \A m \in RemainingType : m[g][s] \in Int
  BY DEF RemainingType
<1>4. 0 \in E
  <2>1. d[0].remaining = remaining /\ d[0].left = q
    BY <1>1 DEF DrawStart
  <2>2. \A j \in 1 .. 0 : FALSE
    OBVIOUS
  <2>3. H(remaining) = H(remaining) - (q - q)
    BY <1>2
  <2>4. \A g \in Group : Shrunk(remaining[g][s], remaining[g][s])
    BY <1>3 DEF Shrunk
  <2> HIDE DEF H, q
  <2>5. Drawn(0)
    BY <1>2, <2>1, <2>2, <2>3, <2>4
  <2> QED
    BY <1>0, <2>5
<1>5. ASSUME NEW k \in 0 .. n, k # 0, k - 1 \in E
      PROVE  k \in E
  <2> DEFINE a == d[k - 1]
             b == d[k]
             g == list[k]
             net == a.remaining[g][s]
             take == Lower(a.left, Abs(net))
  <2>1. k \in 1 .. n /\ a \in DrawType /\ b \in DrawType /\ g \in Group /\ b = DrawStep(a, g, t)
    BY <1>0, <1>1, <1>5
  <2>2. Drawn(k - 1)
    BY <1>5
  <2>3. /\ a.left \in Nat /\ a.remaining \in RemainingType /\ b.remaining \in RemainingType
        /\ net \in Int /\ b.left \in Nat
    <3>1. /\ a.left \in Nat /\ a.remaining \in RemainingType /\ b.remaining \in RemainingType
          /\ b.left \in Nat
      BY <2>1 DEF DrawType
    <3> QED
      BY <1>3, <2>1, <3>1
  <2>4. Offsets(net, t) <=> net # 0
    <3>1. CASE Row[t].act = NoAction
      BY <3>1 DEF Offsets
    <3>2. CASE Row[t].act # NoAction
      <4>1. remaining[g][s] * ActionDelta(t) <= 0 /\ Shrunk(net, remaining[g][s]) /\ remaining[g][s] \in Int
        BY <1>0, <1>3, <2>1, <2>2, <3>2
      <4>2. ActionDelta(t) \in Int /\ ActionDelta(t) # 0
        BY RowTypes
      <4> HIDE DEF net
      <4>3. net # 0 => net * ActionDelta(t) < 0
        BY <2>3, <4>1, <4>2, ShrunkOpposes
      <4> QED
        BY <4>3 DEF Offsets
    <3> QED
      BY <3>1, <3>2
  <2> HIDE DEF q, H
  <2>5. CASE ~(a.left > 0 /\ net # 0)
    <3>1. b = a
      BY <2>1, <2>4, <2>5, DrawStepCases
    <3>2. a.left = 0 \/ \A j \in 1 .. k : a.remaining[list[j]][s] = 0
      <4>1. CASE a.left = 0
        BY <4>1
      <4>2. CASE a.left # 0
        <5>1. net = 0
          BY <2>3, <2>5, <4>2
        <5>2. \A j \in 1 .. (k - 1) : a.remaining[list[j]][s] = 0
          BY <2>2, <4>2
        <5>3. \A j \in 1 .. k : j \in 1 .. (k - 1) \/ j = k
          BY <2>1
        <5> QED
          BY <5>1, <5>2, <5>3
      <4> QED
        BY <4>1, <4>2
    <3> HIDE DEF a, b
    <3>3. Drawn(k)
      BY <2>2, <3>1, <3>2 DEF a, b
    <3> QED
      BY <3>3
  <2>6. CASE a.left > 0 /\ net # 0
    <3>1. /\ b.left = a.left - take
          /\ \A h \in Group, r \in Sec :
                b.remaining[h][r] = IF h = g /\ r = s THEN TowardZero(net, take) ELSE a.remaining[h][r]
      BY <2>1, <2>4, <2>6, DrawStepCases
    <3>2. /\ take \in Nat /\ take <= a.left /\ take <= Abs(net)
          /\ (take # a.left => take = Abs(net)) /\ Abs(net) \in Nat
      <4> HIDE DEF a, net
      <4>1. Abs(net) \in Nat
        BY <2>3 DEF Abs
      <4> QED
        BY <2>3, <4>1 DEF Lower
    <3> DEFINE z == TowardZero(net, take)
    <3>3. /\ z \in Int /\ Abs(z) = Abs(net) - take
          /\ (net >= 0 => z >= 0) /\ (net <= 0 => z <= 0)
      <4> HIDE DEF net, take
      <4>1. /\ z \in Int /\ Abs(z) = (IF Abs(net) > take THEN Abs(net) - take ELSE 0)
            /\ (net >= 0 => z >= 0) /\ (net <= 0 => z <= 0)
        BY <2>3, <3>2, TowardZeroIs
      <4> QED
        BY <3>2, <4>1
    <3>4. \A h \in Group : b.remaining[h][s] = IF h = g THEN z ELSE a.remaining[h][s]
      BY <3>1
    <3>5. H(b.remaining) = H(a.remaining) - Abs(net) + Abs(z)
      <4>1. \A h \in Group : h # g => b.remaining[h][s] = a.remaining[h][s]
        BY <3>4
      <4>2. b.remaining[g][s] = z
        BY <2>1, <3>4
      <4> HIDE DEF z, b, a, g
      <4>3. HeldBy(b.remaining, s) = HeldBy(a.remaining, s) - Abs(a.remaining[g][s]) + Abs(b.remaining[g][s])
        BY <2>1, <2>3, <4>1, HeldChanges
      <4> QED
        BY <4>2, <4>3 DEF H
    <3> HIDE DEF z, take
    <3>6. \A h \in Group : Shrunk(b.remaining[h][s], remaining[h][s])
      <4> SUFFICES ASSUME NEW h \in Group
                   PROVE  Shrunk(b.remaining[h][s], remaining[h][s])
        OBVIOUS
      <4>1. Shrunk(a.remaining[h][s], remaining[h][s])
        BY <2>2
      <4>2. CASE h = g
        <5>1. b.remaining[h][s] = z /\ Shrunk(net, remaining[h][s])
          BY <3>4, <4>1, <4>2
        <5> HIDE DEF net, b, a, g
        <5> QED
          BY <3>3, <5>1 DEF Shrunk
      <4>3. CASE h # g
        BY <3>4, <4>1, <4>3
      <4> QED
        BY <4>2, <4>3
    <3>7. b.left <= q /\ H(b.remaining) = H(remaining) - (q - b.left)
      <4>1. a.left <= q /\ H(a.remaining) = H(remaining) - (q - a.left)
        BY <2>2
      <4>2. H(remaining) \in Int /\ H(a.remaining) \in Int /\ H(b.remaining) \in Int /\ q \in Int
        BY <1>2, <2>3
      <4>3. b.left = a.left - take /\ take <= a.left
        BY <3>1, <3>2
      <4> HIDE DEF a, b, net
      <4>4. H(b.remaining) = H(a.remaining) - take
        BY <3>2, <3>3, <3>5, <4>2
      <4>5. a.left \in Int /\ take \in Int /\ take >= 0
        BY <2>3, <3>2
      <4>6. b.left <= q
        BY <4>1, <4>2, <4>3, <4>5
      <4>7. H(b.remaining) = H(remaining) - (q - b.left)
        BY <4>1, <4>2, <4>3, <4>4, <4>5
      <4> QED
        BY <4>6, <4>7
    <3>8. b.left = 0 \/ \A j \in 1 .. k : b.remaining[list[j]][s] = 0
      <4>1. CASE take = a.left
        BY <2>3, <3>1, <4>1
      <4>2. CASE take # a.left
        <5>1. z = 0
          BY <3>2, <3>3, <4>2 DEF Abs
        <5>2. \A j \in 1 .. (k - 1) : a.remaining[list[j]][s] = 0
          BY <2>2, <2>6
        <5>3. \A j \in 1 .. k : list[j] \in Group /\ (j \in 1 .. (k - 1) \/ j = k)
          BY <1>0, <2>1
        <5> QED
          BY <3>4, <5>1, <5>2, <5>3
      <4> QED
        BY <4>1, <4>2
    <3>9. Drawn(k)
      BY <3>6, <3>7, <3>8
    <3> QED
      BY <3>9
  <2> QED
    BY <2>5, <2>6
<1> HIDE DEF E
<1>6. \A k \in 0 .. n : k \in E
  BY <1>0, <1>4, <1>5, UpTo
<1>7. Drawn(n) /\ d[n] \in DrawType
  BY <1>0, <1>1, <1>6 DEF E
<1>8. d[n].remaining \in RemainingType /\ d[n].left \in Nat
  BY <1>7 DEF DrawType
<1>9. CASE d[n].left = 0
  <2>1. H(d[n].remaining) = H(remaining) - q
    BY <1>2, <1>7, <1>9
  <2>2. H(d[n].remaining) \in Nat /\ H(remaining) \in Nat
    BY <1>2, <1>8
  <2> HIDE DEF H, q
  <2>3. Max({0, H(remaining) - q}) = IF H(remaining) - q > 0 THEN H(remaining) - q ELSE 0
    BY <1>2, <2>2, MaxZero
  <2> QED
    BY <1>1, <1>2, <2>1, <2>2, <2>3 DEF H, q
<1>10. CASE d[n].left # 0
  <2>1. \A g \in Group : d[n].remaining[g][s] = 0
    BY <1>0, <1>7, <1>10
  <2>2. H(d[n].remaining) = 0
    BY <1>8, <2>1, HeldSums
  <2>3. H(remaining) \in Nat
    BY <1>2
  <2> HIDE DEF H, q
  <2>4. H(remaining) - q <= 0 /\ H(remaining) - q \in Int
    BY <1>2, <1>7, <1>8, <2>2, <2>3
  <2>5. Max({0, H(remaining) - q}) = 0
    BY <2>4, MaxZero
  <2> QED
    BY <1>1, <2>2, <2>5 DEF H, q
<1> QED
  BY <1>9, <1>10

-----------------------------------------------------------------------------
(* The routing of a cluster, row by row.                                   *)

\* Where a row may be sent.
Places(list, rows) == Group \cup {NoGroup} \cup {MemberOf(list, rows, t) : t \in Txn}

RouteType(list, rows) == [remaining : RemainingType, to : [Txn -> Places(list, rows)]]

RouteStart(rows) ==
    [remaining |-> [g \in Group |-> NetQuantities(rows[g])], to |-> [t \in Txn |-> NoGroup]]

LEMMA RouteRowCases ==
    ASSUME NEW n \in Nat, NEW list \in [1 .. n -> Group], NEW rows,
           NEW r \in RouteType(list, rows), NEW t \in Txn
    PROVE  LET drawn == DrawDown(list, r.remaining, t)
               after == RouteRow(list, rows, r, t)
           IN  /\ after \in RouteType(list, rows)
               /\ \A u \in Txn : u # t => after.to[u] = r.to[u]
               /\ IsClosing(t) =>
                    /\ after.remaining = drawn.remaining
                    /\ after.to[t] = IF drawn.first # NoGroup THEN drawn.first
                                     ELSE MemberOf(list, rows, t)
               /\ ~IsClosing(t) /\ IsBare(t) =>
                    after.remaining = drawn.remaining /\ after.to[t] = drawn.first
               /\ ~IsClosing(t) /\ ~IsBare(t) => after = r
<1> DEFINE drawn == DrawDown(list, r.remaining, t)
           after == RouteRow(list, rows, r, t)
           P == Places(list, rows)
           x == IF drawn.first # NoGroup THEN drawn.first ELSE MemberOf(list, rows, t)
<1>1. r.remaining \in RemainingType /\ r.to \in [Txn -> P]
  BY DEF RouteType
<1>2. drawn \in DrawType
  BY <1>1, DrawShrinks
<1>3. drawn.remaining \in RemainingType /\ drawn.first \in P /\ x \in P
  BY <1>2 DEF DrawType, Places
<1> HIDE DEF drawn, x, P
<1>4. CASE IsClosing(t)
  <2> DEFINE f == [r.to EXCEPT ![t] = x]
  <2>1. after = [remaining |-> drawn.remaining, to |-> f]
    BY <1>4 DEF RouteRow, drawn, x
  <2>2. f \in [Txn -> P] /\ f[t] = x /\ \A u \in Txn : u # t => f[u] = r.to[u]
    BY <1>1, <1>3
  <2> HIDE DEF f, after
  <2>3. after.remaining = drawn.remaining /\ after.to = f
    BY <2>1
  <2>4. after \in RouteType(list, rows)
    BY <1>3, <2>1, <2>2 DEF RouteType, P
  <2> QED
    BY <1>4, <2>2, <2>3, <2>4 DEF after, drawn, x
<1>5. CASE ~IsClosing(t) /\ IsBare(t)
  <2> DEFINE f == [r.to EXCEPT ![t] = drawn.first]
  <2>1. after = [remaining |-> drawn.remaining, to |-> f]
    BY <1>5 DEF RouteRow, drawn
  <2>2. f \in [Txn -> P] /\ f[t] = drawn.first /\ \A u \in Txn : u # t => f[u] = r.to[u]
    BY <1>1, <1>3
  <2> HIDE DEF f, after
  <2>3. after.remaining = drawn.remaining /\ after.to = f
    BY <2>1
  <2>4. after \in RouteType(list, rows)
    BY <1>3, <2>1, <2>2 DEF RouteType, P
  <2> QED
    BY <1>5, <2>2, <2>3, <2>4 DEF after, drawn
<1>6. CASE ~IsClosing(t) /\ ~IsBare(t)
  <2>1. after = r
    BY <1>6 DEF RouteRow
  <2> QED
    BY <1>6, <2>1
<1> QED
  BY <1>4, <1>5, <1>6

\* The states of a routing, row by row, with the rows outside the cluster passed over.
RouteWalks(list, rows, S) ==
    {r \in [0 .. Len(Row) -> RouteType(list, rows)] :
        /\ r[0] = RouteStart(rows)
        /\ \A i \in Txn : r[i] = IF i \in S THEN RouteRow(list, rows, r[i - 1], i) ELSE r[i - 1]
        /\ RouteCluster(list, rows, S) = r[Len(Row)]}

LEMMA RouteWalk ==
    ASSUME NEW n \in Nat, NEW list \in [1 .. n -> Group], NEW rows \in [Group -> SUBSET Txn],
           NEW S \in SUBSET Txn
    PROVE  \E r : r \in RouteWalks(list, rows, S)
<1> DEFINE N == Len(Row)
           B == RouteType(list, rows)
           start == RouteStart(rows)
           Step(b, i) == IF i \in S THEN RouteRow(list, rows, b, i) ELSE b
           IsWalk(f) == f = [i \in 0 .. N |-> IF i = 0 THEN start ELSE Step(f[i - 1], i)]
           w == CHOOSE f : IsWalk(f)
           step == [i \in 1 .. N |-> [b \in B |-> Step(b, i)]]
<1>1. RouteCluster(list, rows, S) = w[N]
  BY DEF RouteCluster, RouteStart
<1>2. N \in Nat /\ Txn = 1 .. N
  BY RowTypes
<1>3. start \in B
  BY BookTyped DEF RouteStart, RouteType, RemainingType, Places
<1>4. \A b \in B, i \in 1 .. N : Step(b, i) \in B
  BY <1>2, RouteRowCases
<1>5. \A b \in B, i \in 1 .. N : step[i][b] = Step(b, i)
  OBVIOUS
<1> HIDE DEF Step, N, step, start, B
<1>7. StaysIn(N, B, step)
  BY <1>4, <1>5 DEF StaysIn
<1>8. PICK v : v \in Walks(N, B, start, step)
  BY <1>2, <1>3, <1>7, WalkExists
<1>9. /\ v \in [0 .. N -> B] /\ v[0] = start
      /\ \A i \in 1 .. N : v[i - 1] \in B /\ v[i] = Step(v[i - 1], i)
  <2>1. /\ v \in [0 .. N -> B] /\ v[0] = start
        /\ \A i \in 1 .. N : v[i] = step[i][v[i - 1]]
    BY <1>8 DEF Walks
  <2>2. \A i \in 1 .. N : v[i - 1] \in B
    BY <1>2, <2>1
  <2> QED
    BY <1>5, <2>1, <2>2
<1>10. IsWalk(v)
  <2>1. \A i \in 0 .. N : v[i] = IF i = 0 THEN start ELSE Step(v[i - 1], i)
    BY <1>2, <1>9
  <2> QED
    BY <1>9, <2>1
<1>11. IsWalk(w)
  BY <1>10
<1> HIDE DEF w
<1>12. w[0] = start /\ \A i \in 1 .. N : w[i] = Step(w[i - 1], i)
  BY <1>2, <1>11
<1> HIDE DEF IsWalk
<1>13. \A i \in 1 .. N : w[i - 1] \in B => w[i] = step[i][w[i - 1]]
  BY <1>5, <1>12
<1>14. w[N] = v[N]
  BY <1>2, <1>3, <1>7, <1>8, <1>12, <1>13, WalkUnique
<1> QED
  BY <1>1, <1>2, <1>9, <1>14 DEF Step, N, B, start, RouteWalks

\* A cluster that only closes what is held takes what its closes carry, or all there is.
LEMMA RoutingTakes ==
    ASSUME members \in [Group -> SUBSET Txn], cluster \in SUBSET Txn,
           NEW s \in Sec, OnlyCloses(s), NEW l \in Lists
    PROVE  HeldBy(Routed(l).remaining, s)
                = Max({0, HeldBy(Nets, s) - Contracts(Trades(cluster, s))})
<1> DEFINE N == Len(Row)
           n == Cardinality(Group)
           H(m) == HeldBy(m, s)
           So(i) == {t \in Trades(cluster, s) : t <= i}
           Q(i) == Quantity(So(i))
<1>1. N \in Nat /\ Txn = 1 .. N /\ n \in Nat
  BY RowTypes, NettingAssumption, FS_CardinalityType
<1>2. l \in [1 .. n -> Group] /\ \A g \in Group : \E k \in 1 .. n : l[k] = g
  BY DEF Lists
<1>3. Nets \in RemainingType
  BY BookTyped DEF Nets, RemainingType
<1>3a. PICK r : r \in RouteWalks(l, members, cluster)
  <2> HIDE DEF n
  <2> QED
    BY <1>1, <1>2, RouteWalk
<1>4. /\ r \in [0 .. N -> RouteType(l, members)]
      /\ r[0] = RouteStart(members)
      /\ \A i \in Txn : r[i] = IF i \in cluster THEN RouteRow(l, members, r[i - 1], i) ELSE r[i - 1]
      /\ Routed(l) = r[N]
  BY <1>3a DEF RouteWalks, Routed
<1> DEFINE E == {i \in 0 .. N :
                    /\ \A g \in Group : Shrunk(r[i].remaining[g][s], Nets[g][s])
                    /\ H(r[i].remaining) = Max({0, H(Nets) - Q(i)})}
<1>5. \A m \in RemainingType : H(m) \in Nat /\ \A g \in Group : m[g][s] \in Int
  BY HeldSums DEF RemainingType
<1>6. \A i : So(i) \in SUBSET Txn
  BY DEF Trades
<1>7. \A i : Q(i) \in Nat
  <2> HIDE DEF So
  <2> QED
    BY <1>6, QuantitySums
<1>8. So(N) = Trades(cluster, s)
  <2>1. \A t \in Trades(cluster, s) : t <= N
    BY <1>1 DEF Trades
  <2> QED
    BY <2>1
<1>9. Q(0) = 0
  <2>1. \A t \in Trades(cluster, s) : ~(t <= 0)
    BY <1>1 DEF Trades
  <2>2. So(0) = {}
    BY <2>1
  <2> HIDE DEF So
  <2> QED
    BY <1>6, <2>2, QuantitySums
<1>10. ASSUME NEW i \in Txn
       PROVE  Q(i) = IF i \in Trades(cluster, s) THEN Q(i - 1) + Row[i].qty ELSE Q(i - 1)
  <2>1. \A t \in Trades(cluster, s) : t <= i <=> t <= i - 1 \/ t = i
    BY <1>1 DEF Trades
  <2>2. CASE i \in Trades(cluster, s)
    <3>1. So(i) = So(i - 1) \cup {i} /\ So(i - 1) \cap {i} = {}
      <4>1. i \in Int /\ ~(i <= i - 1) /\ i <= i
        BY <1>1
      <4> QED
        BY <2>1, <2>2, <4>1
    <3>2. {i} \in SUBSET Txn /\ Quantity({i}) = Row[i].qty
      <4>0. Carried[i] \in Int /\ Carried[i] = Row[i].qty
        <5>1. Row[i].qty \in Int
          BY RowTypes
        <5> QED
          BY <5>1 DEF Carried
      <4>1. IsFiniteSet({i}) /\ \A x \in {i} : Carried[x] \in Int
        BY <4>0, FS_Singleton
      <4>2. SumFunctionOnSet(Carried, {i}) = Carried[i] + SumFunctionOnSet(Carried, {i} \ {i})
        BY <4>1, SumAny
      <4>3. {i} \ {i} = {}
        OBVIOUS
      <4>4. SumFunctionOnSet(Carried, {i}) = Carried[i]
        <5>1. SumFunctionOnSet(Carried, {}) = 0
          BY SumEmpty
        <5>2. SumFunctionOnSet(Carried, {i}) = Carried[i] + 0
          BY <4>2, <4>3, <5>1
        <5> QED
          BY <4>0, <5>2
      <4>5. {i} \in SUBSET Txn
        BY <1>10
      <4> QED
        BY <4>0, <4>4, <4>5, QuantitySums
    <3> HIDE DEF So
    <3>3. Quantity(So(i)) = Quantity(So(i - 1)) + Quantity({i})
      BY <1>6, <3>1, <3>2, QuantityJoin
    <3> QED
      BY <2>2, <3>2, <3>3
  <2>3. CASE i \notin Trades(cluster, s)
    <3>1. So(i) = So(i - 1)
      BY <2>1, <2>3
    <3> QED
      BY <2>3, <3>1
  <2> QED
    BY <2>2, <2>3
<1> HIDE DEF Q, So, N, n, H
<1>11. 0 \in E
  <2>1. r[0].remaining = Nets
    BY <1>4 DEF RouteStart, Nets
  <2>2. \A g \in Group : Shrunk(Nets[g][s], Nets[g][s])
    BY <1>3, <1>5 DEF Shrunk
  <2>3. H(Nets) = Max({0, H(Nets) - Q(0)})
    <3>1. H(Nets) \in Nat /\ H(Nets) - Q(0) = H(Nets)
      BY <1>3, <1>5, <1>9
    <3> QED
      BY <3>1, MaxZero
  <2> QED
    BY <1>1, <2>1, <2>2, <2>3
<1>12. ASSUME NEW i \in 0 .. N, i # 0, i - 1 \in E
       PROVE  i \in E
  <2> DEFINE a == r[i - 1]
             b == r[i]
             q == Row[i].qty
             drawn == DrawDown(l, a.remaining, i)
  <2>0. i \in Txn /\ i - 1 \in 0 .. N /\ i \in 0 .. N
    BY <1>1, <1>12
  <2>1. i \in Txn /\ a \in RouteType(l, members) /\ b \in RouteType(l, members) /\ q \in Nat
    <3>1. q \in Nat
      BY <2>0, RowTypes
    <3>2. a \in RouteType(l, members) /\ b \in RouteType(l, members)
      BY <1>4, <2>0 DEF N
    <3> QED
      BY <2>0, <3>1, <3>2
  <2>2. a.remaining \in RemainingType /\ b.remaining \in RemainingType
    BY <2>1 DEF RouteType
  <2>3. /\ \A g \in Group : Shrunk(a.remaining[g][s], Nets[g][s])
        /\ H(a.remaining) = Max({0, H(Nets) - Q(i - 1)})
    BY <1>12
  <2>4. \A g \in Group : /\ Row[i].sec # s => drawn.remaining[g][s] = a.remaining[g][s]
                         /\ Shrunk(drawn.remaining[g][s], a.remaining[g][s])
                         /\ drawn \in DrawType
    BY <1>1, <1>2, <2>1, <2>2, DrawShrinks
  <2>5. CASE i \in Trades(cluster, s)
    <3>1. i \in cluster /\ Row[i].sec = s /\ IsClosing(i)
      BY <2>5 DEF Trades, OnlyCloses
    <3>2. b.remaining = drawn.remaining
      <4>1. b = RouteRow(l, members, a, i)
        BY <1>4, <2>0, <3>1
      <4>2. /\ n \in Nat /\ l \in [1 .. n -> Group]
            /\ a \in RouteType(l, members) /\ i \in Txn
        BY <1>1, <1>2, <2>1
      <4> HIDE DEF a
      <4> QED
        BY <3>1, <4>1, <4>2, RouteRowCases
    <3>3. Row[i].act # NoAction => \A g \in Group : a.remaining[g][s] * ActionDelta(i) <= 0
      <4> SUFFICES ASSUME Row[i].act # NoAction, NEW g \in Group
                   PROVE  a.remaining[g][s] * ActionDelta(i) <= 0
        OBVIOUS
      <4>1. Nets[g][s] * ActionDelta(i) <= 0
        BY <2>5 DEF OnlyCloses
      <4>2. ActionDelta(i) \in Int /\ ActionDelta(i) # 0
        BY <2>1, RowTypes
      <4>3. a.remaining[g][s] \in Int /\ Nets[g][s] \in Int /\ Shrunk(a.remaining[g][s], Nets[g][s])
        BY <1>3, <1>5, <2>2, <2>3
      <4> QED
        BY <4>1, <4>2, <4>3, ShrunkOpposes
    <3>4. H(drawn.remaining) = Max({0, H(a.remaining) - q})
      <4>1. a.remaining \in RemainingType /\ Row[i].sec = s /\ Meets(a.remaining, i, s)
        BY <2>2, <3>1, <3>3 DEF Meets
      <4> DEFINE m == a.remaining
      <4> HIDE DEF m
      <4>2. HeldBy(DrawDown(l, m, i).remaining, s) = Max({0, HeldBy(m, s) - Row[i].qty})
        BY <2>0, <4>1, DrawTakes DEF m
      <4> QED
        BY <4>2 DEF H, m
    <3>5. \A g \in Group : Shrunk(b.remaining[g][s], Nets[g][s])
      BY <2>3, <2>4, <3>2 DEF Shrunk
    <3>6. H(b.remaining) = Max({0, H(Nets) - Q(i)})
      <4>1. Q(i) = Q(i - 1) + q /\ Q(i - 1) \in Nat /\ H(Nets) \in Nat /\ H(a.remaining) \in Nat
        BY <1>3, <1>5, <1>7, <1>10, <2>1, <2>2, <2>5
      <4>2. Max({0, H(Nets) - Q(i - 1)}) = IF H(Nets) - Q(i - 1) > 0 THEN H(Nets) - Q(i - 1) ELSE 0
        BY <4>1, MaxZero
      <4>3. Max({0, H(a.remaining) - q}) = IF H(a.remaining) - q > 0 THEN H(a.remaining) - q ELSE 0
        BY <2>1, <4>1, MaxZero
      <4>4. Max({0, H(Nets) - Q(i)}) = IF H(Nets) - Q(i) > 0 THEN H(Nets) - Q(i) ELSE 0
        BY <2>1, <4>1, MaxZero
      <4> HIDE DEF a, b, q
      <4> QED
        BY <2>1, <2>3, <3>2, <3>4, <4>1, <4>2, <4>3, <4>4
    <3> QED
      BY <3>5, <3>6
  <2>6. CASE i \notin Trades(cluster, s)
    <3>1. \A g \in Group : b.remaining[g][s] = a.remaining[g][s]
      <4>1. CASE i \in cluster
        <5>1. Row[i].sec # s
          BY <2>6, <4>1 DEF Trades
        <5>2. b = RouteRow(l, members, a, i)
          BY <1>4, <2>1, <4>1
        <5>3. b.remaining = drawn.remaining \/ b = a
          <6>1. /\ n \in Nat /\ l \in [1 .. n -> Group]
                /\ a \in RouteType(l, members) /\ i \in Txn
            BY <1>1, <1>2, <2>1
          <6> HIDE DEF a
          <6>2. CASE IsClosing(i) \/ IsBare(i)
            BY <5>2, <6>1, <6>2, RouteRowCases
          <6>3. CASE ~IsClosing(i) /\ ~IsBare(i)
            BY <5>2, <6>1, <6>3, RouteRowCases
          <6> QED
            BY <6>2, <6>3
        <5> QED
          BY <2>4, <5>1, <5>3
      <4>2. CASE i \notin cluster
        BY <1>4, <2>1, <4>2
      <4> QED
        BY <4>1, <4>2
    <3>2. H(b.remaining) = H(a.remaining)
      <4>1. [g \in Group |-> Abs(b.remaining[g][s])] = [g \in Group |-> Abs(a.remaining[g][s])]
        BY <3>1
      <4> QED
        BY <4>1 DEF H, HeldBy
    <3>3. Q(i) = Q(i - 1)
      BY <1>10, <2>1, <2>6
    <3> HIDE DEF a, b
    <3>4. /\ \A g \in Group : Shrunk(b.remaining[g][s], Nets[g][s])
          /\ H(b.remaining) = Max({0, H(Nets) - Q(i)})
      BY <2>3, <3>1, <3>2, <3>3
    <3> QED
      BY <3>4 DEF b
  <2> QED
    BY <2>5, <2>6
<1> HIDE DEF E
<1>13. \A i \in 0 .. N : i \in E
  BY <1>1, <1>11, <1>12, UpTo
<1>14. H(r[N].remaining) = Max({0, H(Nets) - Q(N)})
  BY <1>1, <1>13 DEF E
<1>15. Q(N) = Contracts(Trades(cluster, s))
  <2>1. Trades(cluster, s) \in SUBSET Txn
    BY DEF Trades
  <2> QED
    BY <1>8, <2>1, QuantitySums DEF Q
<1> QED
  BY <1>4, <1>14, <1>15 DEF H

-----------------------------------------------------------------------------
(* Closes of one lot each.                                                 *)

\* What a draw-down of one lot leaves: all of it where nobody holds anything, else the
\* first group drawn on has one lot less.
DrawnFrom(out, remaining, s) ==
    \/ /\ out.first = NoGroup
       /\ \A g \in Group : remaining[g][s] = 0 /\ out.remaining[g][s] = remaining[g][s]
    \/ /\ out.first \in Group /\ remaining[out.first][s] # 0
       /\ \A g \in Group :
            out.remaining[g][s] = IF g = out.first THEN TowardZero(remaining[g][s], 1)
                                  ELSE remaining[g][s]

LEMMA DrawOne ==
    ASSUME NEW list \in Lists, NEW remaining \in RemainingType, NEW t \in Txn, NEW s \in Sec,
           Row[t].sec = s, Row[t].qty = 1, Meets(remaining, t, s)
    PROVE  DrawnFrom(DrawDown(list, remaining, t), remaining, s)
<1> DEFINE n == Cardinality(Group)
<1>0. /\ n \in Nat /\ list \in [1 .. n -> Group] /\ \A g \in Group : \E k \in 1 .. n : list[k] = g
      /\ Row[t].act # NoAction => \A g \in Group : remaining[g][s] * ActionDelta(t) <= 0
  BY NettingAssumption, FS_CardinalityType DEF Lists, Meets
<1> HIDE DEF n
<1>1. PICK d \in [0 .. n -> DrawType] :
            /\ d[0] = DrawStart(remaining, t)
            /\ \A k \in 1 .. n : d[k] = DrawStep(d[k - 1], list[k], t)
            /\ DrawDown(list, remaining, t) = d[n]
  BY <1>0, DrawDownWalk
<1>2. \A g \in Group : remaining[g][s] \in Int
  BY DEF RemainingType
<1>3. NoGroup \notin Group
  BY RoutingAssumption
<1>4. \A g \in Group : Offsets(remaining[g][s], t) <=> remaining[g][s] # 0
  <2> SUFFICES ASSUME NEW g \in Group
               PROVE  Offsets(remaining[g][s], t) <=> remaining[g][s] # 0
    OBVIOUS
  <2> DEFINE m == remaining[g][s]
  <2>1. CASE Row[t].act = NoAction
    BY <2>1 DEF Offsets
  <2>2. CASE Row[t].act # NoAction
    <3>1. m * ActionDelta(t) <= 0 /\ m \in Int
      BY <1>0, <1>2, <2>2
    <3>2. ActionDelta(t) \in Int /\ ActionDelta(t) # 0
      BY RowTypes
    <3>3. Shrunk(m, m)
      BY DEF Shrunk
    <3> HIDE DEF m
    <3>4. m # 0 => m * ActionDelta(t) < 0
      BY <3>1, <3>2, <3>3, ShrunkOpposes
    <3> QED
      BY <3>4 DEF Offsets, m
  <2> QED
    BY <2>1, <2>2
<1> DEFINE Untouched(k) ==
                /\ d[k].left = 1 /\ d[k].first = NoGroup
                /\ \A g \in Group : d[k].remaining[g][s] = remaining[g][s]
                /\ \A j \in 1 .. k : remaining[list[j]][s] = 0
           Taken(k) ==
                /\ d[k].left = 0 /\ d[k].first \in Group /\ remaining[d[k].first][s] # 0
                /\ \A g \in Group :
                    d[k].remaining[g][s] = IF g = d[k].first THEN TowardZero(remaining[g][s], 1)
                                           ELSE remaining[g][s]
           E == {k \in 0 .. n : Untouched(k) \/ Taken(k)}
<1>5. 0 \in E
  <2>1. d[0].left = 1 /\ d[0].first = NoGroup /\ d[0].remaining = remaining
    BY <1>1 DEF DrawStart
  <2>2. \A j \in 1 .. 0 : FALSE
    OBVIOUS
  <2> QED
    BY <1>0, <2>1, <2>2
<1>6. ASSUME NEW k \in 0 .. n, k # 0, k - 1 \in E
      PROVE  k \in E
  <2> DEFINE a == d[k - 1]
             b == d[k]
             g == list[k]
             net == a.remaining[g][s]
  <2>1. k \in 1 .. n /\ k - 1 \in 0 .. n
    BY <1>0, <1>6
  <2>2. a \in DrawType /\ b \in DrawType /\ g \in Group /\ b = DrawStep(a, g, t)
    BY <1>0, <1>1, <2>1
  <2>3. CASE Taken(k - 1)
    <3>1. b = a
      BY <2>2, <2>3, DrawStepCases
    <3>2. Taken(k)
      BY <2>3, <3>1
    <3> QED
      BY <3>2
  <2>4. CASE Untouched(k - 1)
    <3>1. net = remaining[g][s] /\ net \in Int /\ a.left = 1 /\ a.first = NoGroup
      BY <1>2, <2>2, <2>4
    <3>2. CASE net = 0
      <4>1. ~Offsets(net, t)
        BY <1>4, <2>2, <3>1, <3>2
      <4>2. b = a
        BY <2>2, <4>1, DrawStepCases
      <4>3. \A j \in 1 .. k : j \in 1 .. (k - 1) \/ j = k
        BY <1>0, <2>1
      <4>4. \A j \in 1 .. k : remaining[list[j]][s] = 0
        BY <2>4, <3>1, <3>2, <4>3
      <4>5. Untouched(k)
        BY <2>4, <4>2, <4>4
      <4> QED
        BY <4>5
    <3>3. CASE net # 0
      <4>1. Offsets(net, t) /\ a.left > 0
        BY <1>4, <2>2, <3>1, <3>3
      <4>2. Lower(a.left, Abs(net)) = 1
        BY <3>1, <3>3 DEF Lower, Abs
      <4>3. /\ b.left = a.left - Lower(a.left, Abs(net))
            /\ b.first = IF a.first = NoGroup THEN g ELSE a.first
            /\ \A h \in Group, r \in Sec :
                b.remaining[h][r] = IF h = g /\ r = s THEN TowardZero(net, Lower(a.left, Abs(net)))
                                    ELSE a.remaining[h][r]
        BY <2>2, <4>1, DrawStepCases
      <4>4. b.left = 0 /\ b.first = g
        BY <3>1, <4>2, <4>3
      <4>5. \A h \in Group : b.remaining[h][s] = IF h = g THEN TowardZero(remaining[h][s], 1)
                                                 ELSE remaining[h][s]
        BY <2>4, <3>1, <4>2, <4>3
      <4>6. Taken(k)
        BY <2>2, <3>1, <3>3, <4>4, <4>5
      <4> QED
        BY <4>6
    <3> QED
      BY <3>2, <3>3
  <2> QED
    BY <1>6, <2>3, <2>4
<1> HIDE DEF E
<1>7. \A k \in 0 .. n : k \in E
  BY <1>0, <1>5, <1>6, UpTo
<1>8. Untouched(n) \/ Taken(n)
  <2>1. n \in 0 .. n
    BY <1>0
  <2> QED
    BY <1>7, <2>1 DEF E
<1>9. CASE Untouched(n)
  <2>1. \A g \in Group : remaining[g][s] = 0
    BY <1>0, <1>9
  <2> QED
    BY <1>1, <1>9, <2>1 DEF DrawnFrom
<1>10. CASE Taken(n)
  BY <1>1, <1>10 DEF DrawnFrom
<1> QED
  BY <1>8, <1>9, <1>10

\* A close that is no money movement takes what it carries from what it finds.
LEMMA CloseStep ==
    ASSUME NEW n \in Int, NEW t \in Txn, IsClosing(t), Row[t].type # "Money Movement", Row[t].qty = 1
    PROVE  Stepped(n, t) = IF n # 0 THEN TowardZero(n, 1) ELSE n
<1>1. Closes(n, t)
  BY DEF Closes
<1>2. IsNontradeClose(t) \/ Row[t].act # NoAction
  BY DEF IsClosing, ClosingActions, NoAction
<1>3. Moves(n, t) <=> n # 0
  BY <1>1, <1>2 DEF Moves
<1>4. NetAfter(n, t) = TowardZero(n, 1)
  BY <1>1 DEF NetAfter
<1> QED
  BY <1>3, <1>4 DEF Stepped

\* Rows of the cluster that trade another security leave what remains of this one.
LEMMA RoutePasses ==
    ASSUME NEW list \in Lists, NEW r \in RouteType(list, members), NEW t \in Txn, NEW s \in Sec,
           Row[t].sec # s
    PROVE  \A g \in Group : RouteRow(list, members, r, t).remaining[g][s] = r.remaining[g][s]
<1> DEFINE n == Cardinality(Group)
           drawn == DrawDown(list, r.remaining, t)
           after == RouteRow(list, members, r, t)
<1>1. n \in Nat /\ list \in [1 .. n -> Group]
  BY NettingAssumption, FS_CardinalityType DEF Lists
<1>2. r.remaining \in RemainingType
  BY DEF RouteType
<1> HIDE DEF n
<1>3. \A g \in Group : drawn.remaining[g][s] = r.remaining[g][s]
  BY <1>1, <1>2, DrawShrinks
<1>4. CASE IsClosing(t) \/ IsBare(t)
  <2>1. after.remaining = drawn.remaining
    BY <1>1, <1>4, RouteRowCases
  <2> QED
    BY <1>3, <2>1
<1>5. CASE ~IsClosing(t) /\ ~IsBare(t)
  <2>1. after = r
    BY <1>1, <1>5, RouteRowCases
  <2> QED
    BY <2>1
<1> QED
  BY <1>4, <1>5

\* Whatever is to be routed is later than what is attached.
ClusterIsLater == \A g \in Group : \A u \in members[g] : \A t \in cluster : u < t

UnitCloses(s) == \A t \in Trades(cluster, s) : Row[t].qty = 1 /\ Row[t].type # "Money Movement"

\* Closes of one lot each leave every group's own book at what the routing left of it.
LEMMA RoutedBooks ==
    ASSUME members \in [Group -> SUBSET Txn], cluster \in SUBSET Txn,
           ClusterIsLater, NEW s \in Sec, OnlyCloses(s), UnitCloses(s),
           NEW l \in Lists
    PROVE  HeldBy(After(Routed(l)), s) = HeldBy(Routed(l).remaining, s)
<1> DEFINE N == Len(Row)
           n == Cardinality(Group)
<1>1. N \in Nat /\ Txn = 1 .. N /\ n \in Nat /\ l \in [1 .. n -> Group] /\ NoGroup \notin Group
  BY RowTypes, NettingAssumption, RoutingAssumption, FS_CardinalityType DEF Lists
<1>2. Nets \in RemainingType
  BY BookTyped DEF Nets, RemainingType
<1>3. PICK r : r \in RouteWalks(l, members, cluster)
  <2> HIDE DEF n
  <2> QED
    BY <1>1, RouteWalk
<1>4. /\ r \in [0 .. N -> RouteType(l, members)]
      /\ r[0] = RouteStart(members)
      /\ \A i \in Txn : r[i] = IF i \in cluster THEN RouteRow(l, members, r[i - 1], i) ELSE r[i - 1]
      /\ Routed(l) = r[N]
  BY <1>3 DEF RouteWalks, Routed
<1>5. \A i \in 0 .. N : \A g \in Group : r[i].remaining[g][s] \in Int
  <2>1. \A i \in 0 .. N : r[i].remaining \in RemainingType
    BY <1>4 DEF RouteType
  <2> QED
    BY <2>1 DEF RemainingType
<1> HIDE DEF n, N
<1>6. ASSUME NEW i \in Txn
      PROVE  /\ i \in 1 .. N /\ i - 1 \in 0 .. N /\ i \in 0 .. N
             /\ r[i - 1] \in RouteType(l, members)
             /\ i \in cluster => r[i] = RouteRow(l, members, r[i - 1], i)
             /\ i \notin cluster => r[i] = r[i - 1]
             /\ \A u \in Txn : u # i => r[i].to[u] = r[i - 1].to[u]
  <2>1. i \in 1 .. N /\ i - 1 \in 0 .. N /\ i \in 0 .. N
    BY <1>1
  <2>2. r[i - 1] \in RouteType(l, members)
    BY <1>4, <2>1
  <2>3. CASE i \in cluster
    <3>1. r[i] = RouteRow(l, members, r[i - 1], i)
      BY <1>4, <2>3
    <3> DEFINE a == r[i - 1]
    <3> HIDE DEF a
    <3>2. \A u \in Txn : u # i => RouteRow(l, members, a, i).to[u] = a.to[u]
      <4>1. n \in Nat /\ l \in [1 .. n -> Group] /\ a \in RouteType(l, members) /\ i \in Txn
        BY <1>1, <2>2 DEF a
      <4> QED
        BY <4>1, RouteRowCases
    <3> QED
      BY <2>1, <2>2, <2>3, <3>1, <3>2 DEF a
  <2>4. CASE i \notin cluster
    BY <1>4, <2>1, <2>2, <2>4
  <2> QED
    BY <2>3, <2>4
<1> DEFINE F == {i \in 0 .. N : \A u \in Txn : u <= i => r[i].to[u] = r[u].to[u]}
<1>7. \A u \in Txn : r[N].to[u] = r[u].to[u]
  <2>1. 0 \in F
    BY <1>1
  <2>2. ASSUME NEW i \in 0 .. N, i # 0, i - 1 \in F
        PROVE  i \in F
    <3>1. i \in Txn
      BY <1>1, <2>2
    <3>2. ASSUME NEW u \in Txn, u <= i
          PROVE  r[i].to[u] = r[u].to[u]
      <4>1. CASE u = i
        BY <4>1
      <4>2. CASE u # i
        <5>1. u <= i - 1
          BY <1>1, <3>1, <3>2, <4>2
        <5>2. r[i].to[u] = r[i - 1].to[u]
          BY <1>6, <3>1, <4>2
        <5> QED
          BY <2>2, <5>1, <5>2
      <4> QED
        BY <4>1, <4>2
    <3> QED
      BY <3>2
  <2> HIDE DEF F
  <2>3. \A i \in 0 .. N : i \in F
    BY <1>1, <2>1, <2>2, UpTo
  <2>4. N \in 0 .. N /\ \A u \in Txn : u <= N
    BY <1>1
  <2> QED
    BY <2>3, <2>4 DEF F
<1> DEFINE Mem(g, i) == members[g] \cup {t \in cluster : t <= i /\ r[t].to[t] = g}
           Fits(i) == \A g \in Group : /\ NetQuantities(Mem(g, i))[s] = r[i].remaining[g][s]
                                       /\ Shrunk(r[i].remaining[g][s], Nets[g][s])
           E == {i \in 0 .. N : Fits(i)}
<1>8. 0 \in E
  <2>1. r[0].remaining = Nets
    BY <1>4 DEF RouteStart, Nets
  <2>2. ASSUME NEW g \in Group
        PROVE  Mem(g, 0) = members[g]
    <3>1. \A t \in cluster : ~(t <= 0)
      BY <1>1
    <3> QED
      BY <3>1
  <2>3. \A g \in Group : Nets[g] = NetQuantities(members[g]) /\ Shrunk(Nets[g][s], Nets[g][s])
    BY <1>2 DEF Nets, RemainingType, Shrunk
  <2>4. Fits(0)
    BY <2>1, <2>2, <2>3
  <2> QED
    BY <1>1, <2>4
<1>9. ASSUME NEW i \in 0 .. N, i # 0, i - 1 \in E
      PROVE  i \in E
  <2> DEFINE a == r[i - 1]
             b == r[i]
  <2>1. i \in Txn
    BY <1>1, <1>9
  <2>2. Fits(i - 1)
    BY <1>9
  <2>3. ASSUME NEW g \in Group, i \notin cluster \/ b.to[i] # g
        PROVE  Mem(g, i) = Mem(g, i - 1)
    <3>1. \A t \in cluster : t <= i <=> t <= i - 1 \/ t = i
      BY <1>1, <2>1
    <3> QED
      BY <2>3, <3>1
  <2>4. ASSUME NEW g \in Group, i \in cluster, b.to[i] = g
        PROVE  Mem(g, i) = Mem(g, i - 1) \cup {i} /\ \A u \in Mem(g, i - 1) : u \in Txn /\ u < i
    <3>1. \A t \in cluster : t <= i <=> t <= i - 1 \/ t = i
      BY <1>1, <2>1
    <3>2. Mem(g, i) = Mem(g, i - 1) \cup {i}
      BY <2>4, <3>1
    <3>3. \A u \in members[g] : u \in Txn /\ u < i
      BY <2>4 DEF ClusterIsLater
    <3>4. \A u \in cluster : u <= i - 1 => u \in Txn /\ u < i
      BY <1>1, <2>1
    <3> QED
      BY <3>2, <3>3, <3>4
  <2> HIDE DEF Mem
  <2>5. CASE i \in Trades(cluster, s)
    <3>1. i \in cluster /\ Row[i].sec = s /\ IsClosing(i) /\ Row[i].qty = 1
          /\ Row[i].type # "Money Movement"
      BY <2>5 DEF Trades, OnlyCloses, UnitCloses
    <3> DEFINE drawn == DrawDown(l, a.remaining, i)
    <3>2. a \in RouteType(l, members) /\ a.remaining \in RemainingType
      BY <1>6, <2>1 DEF RouteType
    <3>3. /\ b.remaining = drawn.remaining
          /\ b.to[i] = IF drawn.first # NoGroup THEN drawn.first ELSE MemberOf(l, members, i)
      <4>1. b = RouteRow(l, members, a, i)
        BY <1>6, <2>1, <3>1
      <4>2. n \in Nat /\ l \in [1 .. n -> Group] /\ a \in RouteType(l, members) /\ i \in Txn
        BY <1>1, <2>1, <3>2
      <4> DEFINE after == RouteRow(l, members, a, i)
      <4>3. IsClosing(i) => /\ after.remaining = drawn.remaining
                            /\ after.to[i] = IF drawn.first # NoGroup THEN drawn.first
                                             ELSE MemberOf(l, members, i)
        <5> HIDE DEF a
        <5> QED
          BY <4>2, RouteRowCases
      <4> HIDE DEF a, b, after, drawn
      <4> QED
        BY <3>1, <4>1, <4>3 DEF after
    <3>4. Meets(a.remaining, i, s)
      <4> SUFFICES ASSUME Row[i].act # NoAction, NEW g \in Group
                   PROVE  a.remaining[g][s] * ActionDelta(i) <= 0
        BY DEF Meets
      <4>1. Nets[g][s] * ActionDelta(i) <= 0
        BY <2>5 DEF OnlyCloses
      <4>2. ActionDelta(i) \in Int /\ ActionDelta(i) # 0
        BY <2>1, RowTypes
      <4>3. a.remaining[g][s] \in Int /\ Nets[g][s] \in Int /\ Shrunk(a.remaining[g][s], Nets[g][s])
        BY <1>2, <1>5, <1>6, <2>1, <2>2 DEF RemainingType
      <4> QED
        BY <4>1, <4>2, <4>3, ShrunkOpposes
    <3>5. DrawnFrom(drawn, a.remaining, s)
      <4> DEFINE m == a.remaining
      <4> HIDE DEF m
      <4>1. m \in RemainingType /\ Meets(m, i, s)
        BY <3>2, <3>4 DEF m
      <4>2. DrawnFrom(DrawDown(l, m, i), m, s)
        BY <2>1, <3>1, <4>1, DrawOne
      <4> QED
        BY <4>2 DEF m
    <3> HIDE DEF drawn
    <3>6. ASSUME NEW g \in Group
          PROVE  /\ NetQuantities(Mem(g, i))[s] = b.remaining[g][s]
                 /\ Shrunk(b.remaining[g][s], Nets[g][s])
      <4> DEFINE m == a.remaining[g][s]
      <4>1. m \in Int /\ NetQuantities(Mem(g, i - 1))[s] = m /\ Shrunk(m, Nets[g][s])
        BY <1>5, <1>6, <2>1, <2>2
      <4>2. \/ b.remaining[g][s] = m /\ (b.to[i] = g => m = 0)
            \/ b.remaining[g][s] = TowardZero(m, 1) /\ m # 0 /\ b.to[i] = g
        BY <1>1, <3>3, <3>5 DEF DrawnFrom
      <4>3. Shrunk(b.remaining[g][s], Nets[g][s])
        <5>1. (m >= 0 => TowardZero(m, 1) >= 0) /\ (m <= 0 => TowardZero(m, 1) <= 0)
              /\ TowardZero(m, 1) \in Int
          BY <4>1 DEF TowardZero, Lower
        <5>2. Nets[g][s] \in Int
          BY <1>2 DEF RemainingType
        <5> HIDE DEF m
        <5> QED
          BY <4>1, <4>2, <5>1, <5>2 DEF Shrunk
      <4>4. CASE b.to[i] = g
        <5>1. NetQuantities(Mem(g, i))[s] = Stepped(m, i)
          <6>1. /\ Mem(g, i) = Mem(g, i - 1) \cup {i}
                /\ \A u \in Mem(g, i - 1) : u \in Txn /\ u < i
            BY <2>4, <3>1, <4>4
          <6> DEFINE M == Mem(g, i - 1)
          <6> HIDE DEF M
          <6>2. NetQuantities(M \cup {i})[s] = Stepped(NetQuantities(M)[s], i)
            BY <2>1, <3>1, <6>1, NetExtend DEF M
          <6> QED
            BY <4>1, <6>1, <6>2 DEF M
        <5>2. Stepped(m, i) = IF m # 0 THEN TowardZero(m, 1) ELSE m
          BY <2>1, <3>1, <4>1, CloseStep
        <5> QED
          BY <4>2, <4>3, <4>4, <5>1, <5>2
      <4>5. CASE b.to[i] # g
        <5>1. Mem(g, i) = Mem(g, i - 1)
          BY <2>3, <4>5
        <5> QED
          BY <4>1, <4>2, <4>3, <4>5, <5>1
      <4> QED
        BY <4>4, <4>5
    <3> QED
      BY <3>6
  <2>6. CASE i \notin Trades(cluster, s)
    <3>1. \A g \in Group : b.remaining[g][s] = a.remaining[g][s]
      <4>1. CASE i \in cluster
        <5>1. Row[i].sec # s
          BY <2>6, <4>1 DEF Trades
        <5>2. b = RouteRow(l, members, a, i) /\ a \in RouteType(l, members)
          BY <1>6, <2>1, <4>1
        <5> HIDE DEF a, b
        <5> QED
          BY <2>1, <5>1, <5>2, RoutePasses
      <4>2. CASE i \notin cluster
        BY <1>6, <2>1, <4>2
      <4> QED
        BY <4>1, <4>2
    <3>2. ASSUME NEW g \in Group
          PROVE  NetQuantities(Mem(g, i))[s] = NetQuantities(Mem(g, i - 1))[s]
      <4>1. CASE i \in cluster /\ b.to[i] = g
        <5>1. /\ Mem(g, i) = Mem(g, i - 1) \cup {i}
              /\ \A u \in Mem(g, i - 1) : u \in Txn /\ u < i
          BY <2>4, <4>1
        <5> DEFINE M == Mem(g, i - 1)
        <5> HIDE DEF M
        <5>2. Row[i].sec # s
          BY <2>6, <4>1 DEF Trades
        <5>3. NetQuantities(M \cup {i})[s] = NetQuantities(M)[s]
          BY <2>1, <5>1, <5>2, NetExtend DEF M
        <5> QED
          BY <5>1, <5>3 DEF M
      <4>2. CASE i \notin cluster \/ b.to[i] # g
        BY <2>3, <4>2
      <4> QED
        BY <4>1, <4>2
    <3>3. Fits(i)
      BY <2>2, <3>1, <3>2
    <3> QED
      BY <3>3
  <2> QED
    BY <2>5, <2>6
<1> HIDE DEF E
<1>10. Fits(N)
  <2>1. \A i \in 0 .. N : i \in E
    BY <1>1, <1>8, <1>9, UpTo
  <2>2. N \in 0 .. N
    BY <1>1
  <2> QED
    BY <2>1, <2>2 DEF E
<1>11. ASSUME NEW g \in Group
       PROVE  After(Routed(l))[g][s] = Routed(l).remaining[g][s]
  <2>1. Mem(g, N) = members[g] \cup {t \in cluster : Routed(l).to[t] = g}
    <3>1. \A t \in cluster : t <= N /\ Routed(l).to[t] = r[t].to[t]
      BY <1>1, <1>4, <1>7
    <3> QED
      BY <3>1
  <2>2. After(Routed(l))[g] = NetQuantities(Mem(g, N))
    BY <2>1 DEF After
  <2> HIDE DEF Mem
  <2> QED
    BY <1>4, <1>10, <2>2
<1>12. [g \in Group |-> Abs(After(Routed(l))[g][s])] = [g \in Group |-> Abs(Routed(l).remaining[g][s])]
  BY <1>11
<1> QED
  BY <1>12 DEF HeldBy

-----------------------------------------------------------------------------
(* The account's book beside the groups': nets as sums of what the rows    *)
(* move.                                                                   *)

\* No row is attached twice.
Distinct == \A g, h \in Group : g # h => members[g] \cap members[h] = {}

\* The rows of S in security s up to a position of the list.
Upto(S, s, i) == Trades(Prefix(S, i), s)

LEMMA UptoGrows ==
    ASSUME NEW S \in SUBSET Txn, NEW s \in Sec
    PROVE  /\ Upto(S, s, 0) = {} /\ Upto(S, s, Len(Row)) = Trades(S, s)
           /\ Trades(S, s) \in SUBSET Txn
           /\ \A i : Upto(S, s, i) \in SUBSET Txn
           /\ \A i \in Txn :
                /\ i \notin Upto(S, s, i - 1)
                /\ Upto(S, s, i) = IF i \in Trades(S, s) THEN Upto(S, s, i - 1) \cup {i}
                                                         ELSE Upto(S, s, i - 1)
<1>1. Txn = 1 .. Len(Row) /\ Len(Row) \in Nat
  BY RowTypes
<1>2. \A i : Upto(S, s, i) = {t \in Trades(S, s) : t <= i}
  BY DEF Upto, Prefix, Trades
<1>3. Trades(S, s) \in SUBSET Txn
  BY DEF Trades
<1>4. \A t \in Trades(S, s) : t \in Int /\ 1 <= t /\ t <= Len(Row)
  BY <1>1, <1>3
<1>5. ASSUME NEW i \in Txn
      PROVE  /\ i \notin Upto(S, s, i - 1)
             /\ Upto(S, s, i) = IF i \in Trades(S, s) THEN Upto(S, s, i - 1) \cup {i}
                                                      ELSE Upto(S, s, i - 1)
  <2>1. i \in Int /\ \A t \in Trades(S, s) : t <= i <=> (t <= i - 1 \/ t = i)
    BY <1>1, <1>4
  <2>2. ~(i <= i - 1)
    BY <2>1
  <2>3. \A t : t \in Upto(S, s, i) <=> t \in Trades(S, s) /\ (t <= i - 1 \/ t = i)
    BY <1>2, <2>1
  <2>4. \A t : t \in Upto(S, s, i - 1) <=> t \in Trades(S, s) /\ t <= i - 1
    BY <1>2
  <2>5. CASE i \in Trades(S, s)
    BY <2>2, <2>3, <2>4, <2>5
  <2>6. CASE i \notin Trades(S, s)
    <3>1. Upto(S, s, i) = Upto(S, s, i - 1)
      BY <2>3, <2>4, <2>6
    <3> QED
      BY <2>2, <2>4, <2>6, <3>1
  <2> QED
    BY <2>5, <2>6
<1>6. Upto(S, s, 0) = {} /\ Upto(S, s, Len(Row)) = Trades(S, s)
  <2>1. \A t \in Trades(S, s) : ~(t <= 0) /\ t <= Len(Row)
    BY <1>4
  <2> QED
    BY <1>2, <2>1
<1> QED
  BY <1>2, <1>3, <1>5, <1>6

\* Each row of S moves the walk by what D says.
Follows(D, S, s) == \A t \in Trades(S, s) : Stepped(Finds(S, t), t) = Finds(S, t) + D[t]

LEMMA NetIsSum ==
    ASSUME NEW S \in SUBSET Txn, NEW s \in Sec, NEW D \in [Txn -> Int], Follows(D, S, s)
    PROVE  \A i \in 0 .. Len(Row) : NetAt(S, s, i) = SumFunctionOnSet(D, Upto(S, s, i))
<1> DEFINE N == Len(Row)
           X(i) == SumFunctionOnSet(D, Upto(S, s, i))
           E == {i \in 0 .. N : NetAt(S, s, i) = X(i)}
<1>0. /\ NetAt(S, s, 0) = 0
      /\ \A i \in Txn : NetAt(S, s, i) =
                IF i \in S /\ Row[i].sec = s THEN Stepped(NetAt(S, s, i - 1), i)
                                             ELSE NetAt(S, s, i - 1)
      /\ \A i \in Txn : Row[i].sec = s => Finds(S, i) = NetAt(S, s, i - 1)
  BY NetAtWalk
<1>1. N \in Nat /\ Txn = 1 .. N /\ IsFiniteSet(Txn)
  BY RowTypes
<1>2. \A t \in Txn : D[t] \in Int
  OBVIOUS
<1>3. \A i \in Txn : X(i) = IF i \in Trades(S, s) THEN X(i - 1) + D[i] ELSE X(i - 1)
  <2> SUFFICES ASSUME NEW i \in Txn
               PROVE  X(i) = IF i \in Trades(S, s) THEN X(i - 1) + D[i] ELSE X(i - 1)
    OBVIOUS
  <2> DEFINE U == Upto(S, s, i - 1)
  <2>1. /\ U \in SUBSET Txn /\ i \in Txn \ U
        /\ Upto(S, s, i) = IF i \in Trades(S, s) THEN U \cup {i} ELSE U
    BY UptoGrows
  <2> HIDE DEF U
  <2>2. SumFunctionOnSet(D, U \cup {i}) = SumFunctionOnSet(D, U) + D[i]
    <3>1. IsFiniteSet(Txn) /\ U \in SUBSET Txn /\ i \in Txn \ U
      BY <1>1, <2>1
    <3> QED
      BY <1>2, <3>1, SumAdd
  <2> QED
    BY <2>1, <2>2 DEF U
<1>4. X(0) = 0
  BY UptoGrows, SumEmpty
<1> HIDE DEF X
<1>5. 0 \in E
  <2>1. NetAt(S, s, 0) = 0 /\ 0 \in 0 .. N
    BY <1>0, <1>1
  <2> QED
    BY <1>4, <2>1
<1>6. ASSUME NEW i \in 0 .. N, i # 0, i - 1 \in E
      PROVE  i \in E
  <2>1. i \in Txn
    BY <1>1, <1>6
  <2>2. NetAt(S, s, i - 1) = X(i - 1)
    BY <1>6
  <2>3. /\ NetAt(S, s, i) = IF i \in Trades(S, s) THEN Stepped(NetAt(S, s, i - 1), i)
                                                  ELSE NetAt(S, s, i - 1)
        /\ i \in Trades(S, s) => Finds(S, i) = NetAt(S, s, i - 1)
    <3>1. i \in Trades(S, s) <=> i \in S /\ Row[i].sec = s
      BY DEF Trades
    <3> QED
      BY <1>0, <2>1, <3>1
  <2>4. i \in Trades(S, s) => Stepped(NetAt(S, s, i - 1), i) = NetAt(S, s, i - 1) + D[i]
    BY <2>3 DEF Follows
  <2>5. NetAt(S, s, i) = X(i)
    BY <1>3, <2>1, <2>2, <2>3, <2>4
  <2> QED
    BY <2>5
<1> HIDE DEF E, N
<1>7. \A i \in 0 .. N : i \in E
  BY <1>1, <1>5, <1>6, UpTo
<1> QED
  BY <1>7 DEF E, N, X

\* The sum over all that is attached is the sum of the sums over the groups.
LEMMA MembersAddUp ==
    ASSUME members \in [Group -> SUBSET Txn], Distinct,
           NEW s \in Sec, NEW D \in [Txn -> Int], NEW i
    PROVE  SumFunctionOnSet(D, Upto(Attached, s, i))
                = SumFunctionOnSet([g \in Group |-> SumFunctionOnSet(D, Upto(members[g], s, i))], Group)
<1> DEFINE M(g) == Upto(members[g], s, i)
           f == [g \in Group |-> SumFunctionOnSet(D, M(g))]
           U(H) == UNION {M(g) : g \in H}
           P == {H \in SUBSET Group : SumFunctionOnSet(D, U(H)) = SumFunctionOnSet(f, H)}
<1>1. IsFiniteSet(Group) /\ IsFiniteSet(Txn)
  BY NettingAssumption, RowTypes
<1>2. \A t \in Txn : D[t] \in Int
  OBVIOUS
<1>3. \A g \in Group : M(g) \in SUBSET Txn
  BY UptoGrows
<1>4. \A g \in Group : f[g] = SumFunctionOnSet(D, M(g)) /\ f[g] \in Int
  <2>1. \A T \in SUBSET Txn : SumFunctionOnSet(D, T) \in Int
    BY <1>1, <1>2, SumAny
  <2> QED
    BY <1>3, <2>1
<1>5. \A g, h \in Group : g # h => M(g) \cap M(h) = {}
  BY DEF Distinct, Upto, Prefix, Trades
<1>6. Upto(Attached, s, i) = U(Group)
  BY DEF Attached, Upto, Prefix, Trades
<1> HIDE DEF M, f
<1>7. {} \in P
  <2>1. U({}) = {}
    OBVIOUS
  <2>2. SumFunctionOnSet(D, {}) = 0 /\ SumFunctionOnSet(f, {}) = 0
    BY SumEmpty
  <2> QED
    BY <2>1, <2>2
<1>8. ASSUME NEW H \in SUBSET Group, H \in P, NEW g \in Group \ H
      PROVE  H \cup {g} \in P
  <2>1. U(H \cup {g}) = U(H) \cup M(g) /\ U(H) \cap M(g) = {} /\ U(H) \cup M(g) \in SUBSET Txn
    <3>1. U(H \cup {g}) = U(H) \cup M(g)
      OBVIOUS
    <3>2. U(H) \cap M(g) = {}
      BY <1>5, <1>8
    <3>3. U(H) \cup M(g) \in SUBSET Txn
      BY <1>3, <1>8
    <3> QED
      BY <3>1, <3>2, <3>3
  <2>2. SumFunctionOnSet(D, U(H) \cup M(g)) = SumFunctionOnSet(D, U(H)) + SumFunctionOnSet(D, M(g))
    <3> DEFINE A == U(H)
               B == M(g)
    <3>1. A \cap B = {} /\ IsFiniteSet(A \cup B) /\ \A t \in A \cup B : D[t] \in Int
      BY <1>1, <1>2, <2>1, FS_Subset
    <3> HIDE DEF A, B
    <3>2. SumFunctionOnSet(D, A \cup B) = SumFunctionOnSet(D, A) + SumFunctionOnSet(D, B)
      BY <3>1, SumJoin
    <3> QED
      BY <3>2 DEF A, B
  <2>3. SumFunctionOnSet(f, H \cup {g}) = SumFunctionOnSet(f, H) + f[g]
    BY <1>1, <1>4, <1>8, SumAdd
  <2>4. SumFunctionOnSet(D, U(H)) = SumFunctionOnSet(f, H) /\ f[g] = SumFunctionOnSet(D, M(g))
    BY <1>4, <1>8
  <2>5. SumFunctionOnSet(D, U(H \cup {g})) = SumFunctionOnSet(f, H \cup {g})
    <3> HIDE DEF U
    <3> QED
      BY <2>1, <2>2, <2>3, <2>4
  <2> QED
    BY <1>8, <2>5
<1> HIDE DEF P, U
<1>9. Group \in P
  BY <1>1, <1>7, <1>8, Gathered
<1> QED
  BY <1>6, <1>9 DEF P, f, M

\* What replay has seen of S in security s before its i-th row.
SeenOf(S, s, i) == Trades(Seen(S, i), s)

LEMMA SeenOfGrows ==
    ASSUME NEW S \in SUBSET Txn, NEW s \in Sec
    PROVE  /\ SeenOf(S, s, 0) = {} /\ SeenOf(S, s, Len(Row)) = Trades(S, s)
           /\ \A i : SeenOf(S, s, i) \in SUBSET Txn
           /\ \A i \in Txn :
                /\ Replayed[i] \in Txn /\ Replayed[i] \notin SeenOf(S, s, i - 1)
                /\ SeenOf(S, s, i) = IF Visits(S, s, i) THEN SeenOf(S, s, i - 1) \cup {Replayed[i]}
                                                        ELSE SeenOf(S, s, i - 1)
                /\ \A u \in Trades(S, s) : u \in SeenOf(S, s, i - 1) <=> ReplayedBefore(u, Replayed[i])
<1>1. /\ Seen(S, 0) = {} /\ Seen(S, Len(Row)) = S
      /\ \A i \in Txn :
            /\ Replayed[i] \in Txn /\ Replayed[i] \notin Seen(S, i - 1)
            /\ Seen(S, i) = IF Replayed[i] \in S THEN Seen(S, i - 1) \cup {Replayed[i]}
                                                 ELSE Seen(S, i - 1)
            /\ \A u \in S : u \in Seen(S, i - 1) <=> ReplayedBefore(u, Replayed[i])
  BY SeenGrows
<1>2. \A i : SeenOf(S, s, i) \in SUBSET Txn
  BY DEF SeenOf, Trades, Seen
<1>3. SeenOf(S, s, 0) = {} /\ SeenOf(S, s, Len(Row)) = Trades(S, s)
  BY <1>1 DEF SeenOf, Trades
<1>4. ASSUME NEW i \in Txn
      PROVE  /\ Replayed[i] \in Txn /\ Replayed[i] \notin SeenOf(S, s, i - 1)
             /\ \A u \in Trades(S, s) : u \in SeenOf(S, s, i - 1) <=> ReplayedBefore(u, Replayed[i])
  BY <1>1 DEF SeenOf, Trades
<1>5. ASSUME NEW i \in Txn
      PROVE  SeenOf(S, s, i) = IF Visits(S, s, i) THEN SeenOf(S, s, i - 1) \cup {Replayed[i]}
                                                  ELSE SeenOf(S, s, i - 1)
  <2>1. CASE Replayed[i] \in S
    <3>1. Seen(S, i) = Seen(S, i - 1) \cup {Replayed[i]}
      BY <1>1, <2>1
    <3>2. CASE Row[Replayed[i]].sec = s
      BY <2>1, <3>1, <3>2 DEF SeenOf, Trades, Visits
    <3>3. CASE Row[Replayed[i]].sec # s
      BY <2>1, <3>1, <3>3 DEF SeenOf, Trades, Visits
    <3> QED
      BY <3>2, <3>3
  <2>2. CASE Replayed[i] \notin S
    BY <1>1, <2>2 DEF SeenOf, Visits
  <2> QED
    BY <2>1, <2>2
<1> QED
  BY <1>2, <1>3, <1>4, <1>5

\* Each row of S moves the account by what D says, given what replay saw before it.
MovesAs(D, S, s) ==
    \A i \in Txn : \A had \in BOOLEAN :
        Visits(S, s, i) /\ (had <=> SeenOf(S, s, i - 1) # {}) =>
            LET delta == EffectiveDelta(SumFunctionOnSet(D, SeenOf(S, s, i - 1)), had, Replayed[i])
            IN  delta # 0 /\ delta = D[Replayed[i]]

LEMMA AccountIsSum ==
    ASSUME NEW S \in SUBSET Txn, NEW s \in Sec, NEW D \in [Txn -> Int], MovesAs(D, S, s)
    PROVE  NetOpenQuantity(S, s) = SumFunctionOnSet(D, Trades(S, s))
<1> DEFINE N == Len(Row)
           X(i) == SumFunctionOnSet(D, SeenOf(S, s, i))
<1>1. N \in Nat /\ Txn = 1 .. N /\ IsFiniteSet(Txn)
  BY RowTypes
<1>2. PICK w \in [0 .. N -> HistoryType] :
            /\ w[0] = NoHistory
            /\ \A i \in Txn :
                w[i] = IF Visits(S, s, i) THEN NetRow(w[i - 1], Replayed[i]) ELSE w[i - 1]
            /\ NetOpenQuantity(S, s) = w[N].lot.net
  BY NetOpenWalk
<1>3. \A t \in Txn : D[t] \in Int
  OBVIOUS
<1>4. X(0) = 0 /\ X(N) = SumFunctionOnSet(D, Trades(S, s))
  BY SeenOfGrows, SumEmpty
<1>5. ASSUME NEW i \in Txn
      PROVE  X(i) = IF Visits(S, s, i) THEN X(i - 1) + D[Replayed[i]] ELSE X(i - 1)
  <2> DEFINE U == SeenOf(S, s, i - 1)
             t == Replayed[i]
  <2>1. /\ U \in SUBSET Txn /\ t \in Txn \ U
        /\ SeenOf(S, s, i) = IF Visits(S, s, i) THEN U \cup {t} ELSE U
    BY SeenOfGrows
  <2> HIDE DEF U, t
  <2>2. SumFunctionOnSet(D, U \cup {t}) = SumFunctionOnSet(D, U) + D[t]
    <3>1. IsFiniteSet(Txn) /\ U \in SUBSET Txn /\ t \in Txn \ U
      BY <1>1, <2>1
    <3> QED
      BY <1>3, <3>1, SumAdd
  <2> QED
    BY <2>1, <2>2 DEF U, t
<1> DEFINE Fits(i) == w[i].lot.net = X(i) /\ (w[i].had <=> SeenOf(S, s, i) # {})
           E == {i \in 0 .. N : Fits(i)}
<1>6. 0 \in E
  <2>1. 0 \in 0 .. N
    BY <1>1
  <2>2. w[0].lot.net = 0 /\ w[0].had = FALSE
    BY <1>2 DEF NoHistory, FlatLot
  <2>3. SeenOf(S, s, 0) = {}
    BY SeenOfGrows
  <2> HIDE DEF X, N
  <2> QED
    BY <1>4, <2>1, <2>2, <2>3
<1> HIDE DEF X
<1>7. ASSUME NEW i \in 0 .. N, i # 0, i - 1 \in E
      PROVE  i \in E
  <2> DEFINE t == Replayed[i]
             a == w[i - 1]
             delta == EffectiveDelta(a.lot.net, a.had, t)
  <2>1. i \in Txn /\ i - 1 \in 0 .. N /\ t \in Txn /\ a \in HistoryType
    <3>1. i \in Txn /\ i - 1 \in 0 .. N
      BY <1>1, <1>7
    <3> QED
      BY <1>2, <3>1, SeenOfGrows
  <2>2. a.lot.net = X(i - 1) /\ (a.had <=> SeenOf(S, s, i - 1) # {})
    BY <1>7
  <2>3. a.had \in BOOLEAN /\ a.lot.net \in Int
    BY <2>1 DEF HistoryType, LotType
  <2>4. CASE Visits(S, s, i)
    <3>1. w[i] = NetRow(a, t)
      BY <1>2, <2>1, <2>4
    <3>2. delta # 0 /\ delta = D[t]
      BY <2>1, <2>2, <2>3, <2>4 DEF MovesAs, X
    <3>3. delta # 0 => NetRow(a, t).had = TRUE /\ NetRow(a, t).lot.net = a.lot.net + delta
      BY <2>1, NetRowCases
    <3>4. SeenOf(S, s, i) # {}
      <4>1. SeenOf(S, s, i) = SeenOf(S, s, i - 1) \cup {t}
        BY <2>1, <2>4, SeenOfGrows
      <4> QED
        BY <4>1
    <3> HIDE DEF a, delta, t
    <3>5. w[i].lot.net = a.lot.net + D[t] /\ w[i].had = TRUE
      BY <3>1, <3>2, <3>3
    <3>6. X(i) = X(i - 1) + D[t]
      BY <1>5, <2>1, <2>4 DEF t
    <3>7. Fits(i)
      BY <2>2, <3>4, <3>5, <3>6
    <3> QED
      BY <3>7
  <2>5. CASE ~Visits(S, s, i)
    <3>1. w[i] = a /\ X(i) = X(i - 1) /\ SeenOf(S, s, i) = SeenOf(S, s, i - 1)
      BY <1>2, <1>5, <2>1, <2>5, SeenOfGrows
    <3>2. Fits(i)
      BY <2>2, <3>1
    <3> QED
      BY <3>2
  <2> QED
    BY <2>4, <2>5
<1> HIDE DEF E, N
<1>8. \A i \in 0 .. N : i \in E
  BY <1>1, <1>6, <1>7, UpTo
<1>9. Fits(N)
  BY <1>1, <1>8 DEF E
<1> QED
  BY <1>2, <1>4, <1>9 DEF N

\* What is held was opened by an earlier row that is no close.
LEMMA OpenBefore ==
    ASSUME NEW S \in SUBSET Txn, NEW s \in Sec, NEW t \in Trades(S, s), Finds(S, t) # 0
    PROVE  \E u \in Trades(S, s) : u < t /\ ~IsClosing(u)
<1> SUFFICES ASSUME \A u \in Trades(S, s) : u < t => IsClosing(u)
             PROVE  FALSE
  OBVIOUS
<1> DEFINE N == Len(Row)
           n(i) == NetAt(S, s, i)
           E == {i \in 0 .. N : i < t => n(i) = 0}
<1>0. /\ n(0) = 0
      /\ \A i \in Txn : n(i) =
                IF i \in S /\ Row[i].sec = s THEN Stepped(n(i - 1), i) ELSE n(i - 1)
      /\ \A i \in Txn : Row[i].sec = s => Finds(S, i) = n(i - 1)
  BY NetAtWalk
<1> HIDE DEF n
<1>1. N \in Nat /\ Txn = 1 .. N /\ t \in Txn /\ t \in S /\ Row[t].sec = s
  BY RowTypes DEF Trades
<1>2. 0 \in E
  BY <1>0, <1>1
<1>3. ASSUME NEW i \in 0 .. N, i # 0, i - 1 \in E
      PROVE  i \in E
  <2>1. i \in Txn /\ (i < t => i - 1 < t)
    BY <1>1, <1>3
  <2> SUFFICES ASSUME i < t
               PROVE  n(i) = 0
    OBVIOUS
  <2>2. n(i - 1) = 0
    BY <1>3, <2>1
  <2>3. CASE i \in Trades(S, s)
    <3>1. IsClosing(i)
      BY <2>3
    <3>2. ~Moves(0, i)
      BY <3>1 DEF Moves, Closes
    <3>3. Stepped(0, i) = 0
      BY <3>2 DEF Stepped
    <3> QED
      BY <1>0, <2>1, <2>2, <3>3
  <2>4. CASE i \notin Trades(S, s)
    BY <1>0, <2>1, <2>2, <2>4 DEF Trades
  <2> QED
    BY <2>3, <2>4
<1> HIDE DEF E
<1>4. \A i \in 0 .. N : i \in E
  BY <1>1, <1>2, <1>3, UpTo
<1>5. t - 1 \in 0 .. N /\ t - 1 < t
  BY <1>1
<1>6. n(t - 1) = 0
  BY <1>4, <1>5 DEF E
<1> QED
  BY <1>0, <1>1, <1>6

-----------------------------------------------------------------------------
(* Backed rows move a net by all they carry.                               *)

\* A row that meets a net n as a backed group's rows meet theirs.
BackedBy(n, t) ==
    /\ Moves(n, t)
    /\ IsOpening(t) => n * ActionDelta(t) >= 0
    /\ IsClosing(t) /\ Row[t].act # NoAction => n * ActionDelta(t) < 0
    /\ Closes(n, t) => Row[t].qty <= Abs(n)

LEMMA BackedStep ==
    ASSUME NEW n \in Int, NEW t \in Txn, BackedBy(n, t)
    PROVE  /\ Row[t].type # "Money Movement"
           /\ IsClosing(t) => n # 0 /\ Row[t].qty <= Abs(n)
           /\ IsClosing(t) => Stepped(n, t) = n + (IF n > 0 THEN -Row[t].qty ELSE Row[t].qty)
           /\ IsClosing(t) /\ Row[t].act # NoAction =>
                ActionDelta(t) = IF n > 0 THEN -Row[t].qty ELSE Row[t].qty
           /\ Row[t].act # NoAction => Stepped(n, t) = n + ActionDelta(t)
           /\ Row[t].act = NoAction => IsNontradeClose(t)
<1> DEFINE q == Row[t].qty
           d == ActionDelta(t)
<1>1. q \in Nat /\ q # 0 /\ d \in Int /\ (d = q \/ d = -q)
  BY RowTypes
<1>2. /\ Moves(n, t)
      /\ IsClosing(t) /\ Row[t].act # NoAction => n * d < 0
      /\ Closes(n, t) => q <= Abs(n)
      /\ Closes(n, t) => n # 0
      /\ IsNontradeClose(t) \/ Row[t].act # NoAction
      /\ Row[t].type # "Money Movement"
  BY DEF BackedBy, Moves
<1>3. IsClosing(t) => Closes(n, t)
  BY DEF Closes
<1>4. n * d < 0 <=> (n > 0 /\ d < 0) \/ (n < 0 /\ d > 0)
  BY <1>1, ProductSign
<1>5. Stepped(n, t) = IF Closes(n, t) THEN TowardZero(n, q) ELSE n + d
  BY <1>2 DEF Stepped, NetAfter
<1>6. Closes(n, t) => TowardZero(n, q) = n + (IF n > 0 THEN -q ELSE q)
  <2> SUFFICES ASSUME Closes(n, t)
               PROVE  TowardZero(n, q) = n + (IF n > 0 THEN -q ELSE q)
    OBVIOUS
  <2>1. q <= Abs(n) /\ q \in Nat
    BY <1>1, <1>2
  <2> HIDE DEF q
  <2>2. CASE n > 0
    BY <2>1, <2>2 DEF TowardZero, Lower, Abs
  <2>3. CASE ~(n > 0)
    BY <2>1, <2>3 DEF TowardZero, Lower, Abs
  <2> QED
    BY <2>2, <2>3
<1>7. Closes(n, t) /\ Row[t].act # NoAction => n * d < 0
  BY <1>2 DEF Closes
<1>8. n * d < 0 => d = IF n > 0 THEN -q ELSE q
  BY <1>1, <1>4
<1> HIDE DEF q, d
<1>9. Row[t].act # NoAction => Stepped(n, t) = n + d
  BY <1>5, <1>6, <1>7, <1>8
<1>10. IsClosing(t) => Stepped(n, t) = n + (IF n > 0 THEN -q ELSE q)
  BY <1>3, <1>5, <1>6
<1> QED
  BY <1>2, <1>3, <1>7, <1>8, <1>9, <1>10 DEF q, d

LEMMA BackedRows ==
    ASSUME NEW S \in SUBSET Txn, NEW s \in Sec, Backed(S), NEW t \in Trades(S, s)
    PROVE  /\ t \in Txn /\ Row[t].sec = s /\ t \in S
           /\ Finds(S, t) \in Int /\ BackedBy(Finds(S, t), t)
           /\ t - 1 \in 0 .. Len(Row) /\ Finds(S, t) = NetAt(S, s, t - 1)
<1>1. t \in Txn /\ Row[t].sec = s /\ t \in S
  BY DEF Trades
<1>2. Finds(S, t) = NetAt(S, s, t - 1) /\ NetAt(S, s, t - 1) \in Int
  <2>1. /\ \A i : NetAt(S, s, i) \in Int
        /\ \A i \in Txn : Row[i].sec = s => Finds(S, i) = NetAt(S, s, i - 1)
    BY NetAtWalk
  <2> QED
    BY <1>1, <2>1
<1>3. BackedBy(Finds(S, t), t)
  BY <1>1 DEF Backed, Tidy, BackedBy
<1>4. t - 1 \in 0 .. Len(Row)
  BY <1>1, RowTypes
<1> QED
  BY <1>1, <1>2, <1>3, <1>4

\* A row with an action moves the account as it moves a group.
LEMMA SignedIsAction ==
    ASSUME NEW t \in Txn, Row[t].act # NoAction
    PROVE  SignedDelta(t) = ActionDelta(t)
<1>1. Row[t].act \in OpeningActions \cup ClosingActions \cup BareActions
  BY RowTypes DEF RowType
<1>2. Row[t].act \in BuyActions <=> Row[t].act \notin {"Sell", "Sell to Open", "Sell to Close"}
  BY <1>1 DEF OpeningActions, ClosingActions, BareActions, BuyActions
<1> QED
  BY <1>2, Zenon DEF SignedDelta, ActionDelta

\* What replay sees before a close: all that is listed before it, and opens besides.
LEMMA SeenBeforeClose ==
    ASSUME NEW S \in SUBSET Txn, NEW s \in Sec, NEW i \in Txn, Visits(S, s, i), IsClosing(Replayed[i])
    PROVE  LET t == Replayed[i]
           IN  /\ Upto(S, s, t - 1) \subseteq SeenOf(S, s, i - 1)
               /\ \A u \in SeenOf(S, s, i - 1) \ Upto(S, s, t - 1) : ~IsClosing(u)
<1> DEFINE t == Replayed[i]
<1>1. t \in Txn /\ \A u \in Trades(S, s) : u \in SeenOf(S, s, i - 1) <=> ReplayedBefore(u, t)
  BY SeenOfGrows
<1>2. Upto(S, s, t - 1) = {u \in Trades(S, s) : u <= t - 1}
  BY DEF Upto, Prefix, Trades
<1>3. SeenOf(S, s, i - 1) \subseteq Trades(S, s)
  BY DEF SeenOf, Trades, Seen
<1>4. \A u \in Trades(S, s) : u \in Txn /\ u \in Int /\ Row[u].at \in Nat /\ (u <= t - 1 <=> u < t)
  <2>1. \A u \in Trades(S, s) : u \in Txn
    BY DEF Trades
  <2>2. \A u \in Txn : u \in Int /\ Row[u].at \in Nat /\ (u <= t - 1 <=> u < t)
    BY <1>1, RowTypes
  <2> QED
    BY <2>1, <2>2
<1>5. Row[t].at \in Nat /\ t \in Int
  BY <1>1, RowTypes
<1>6. \A u \in Txn : /\ u < t => Row[u].at <= Row[t].at
                     /\ t < u => Row[t].at <= Row[u].at
  BY <1>1, RowAssumption DEF Txn
<1> HIDE DEF t
<1>7. ASSUME NEW u \in Trades(S, s), u < t
      PROVE  ReplayedBefore(u, t)
  <2>1. IsClosing(t)
    BY DEF t
  <2> QED
    BY <1>4, <1>5, <1>6, <1>7, <2>1 DEF ReplayedBefore
<1>8. ASSUME NEW u \in Trades(S, s), ReplayedBefore(u, t), ~(u < t)
      PROVE  ~IsClosing(u)
  <2>1. u = t \/ t < u
    BY <1>4, <1>5, <1>8
  <2>2. u # t
    BY <1>1, <1>8, ReplayOrder
  <2>3. Row[t].at <= Row[u].at
    BY <1>4, <1>6, <2>1, <2>2
  <2>4. IsClosing(t)
    BY DEF t
  <2> QED
    BY <1>4, <1>5, <1>8, <2>3, <2>4 DEF ReplayedBefore
<1>9. \A u \in Trades(S, s) : u < t <=> u \in Upto(S, s, t - 1)
  BY <1>2, <1>4
<1> DEFINE V == SeenOf(S, s, i - 1)
           P == Upto(S, s, t - 1)
           T == Trades(S, s)
<1>10. /\ V \subseteq T /\ P \subseteq T
       /\ \A u \in T : /\ u \in V <=> ReplayedBefore(u, t)
                       /\ u \in P <=> u < t
  BY <1>1, <1>2, <1>3, <1>9
<1> HIDE DEF V, P, T
<1>11. \A u \in T : /\ u < t => ReplayedBefore(u, t)
                    /\ ReplayedBefore(u, t) /\ ~(u < t) => ~IsClosing(u)
  BY <1>7, <1>8 DEF T
<1>12. P \subseteq V /\ \A u \in V \ P : ~IsClosing(u)
  BY <1>10, <1>11
<1> QED
  BY <1>12 DEF t, V, P

-----------------------------------------------------------------------------
(* One side: the account takes as much from a settlement as its group.     *)

\* How far a row of a one-sided history moves the net.
Towards(long) == [t \in Txn |-> IF long THEN Signed[t] ELSE -Signed[t]]

LEMMA TowardsSums ==
    ASSUME NEW long \in BOOLEAN
    PROVE  /\ Towards(long) \in [Txn -> Int]
           /\ \A t \in Txn : Signed[t] \in Int
           /\ \A U \in SUBSET Txn :
                /\ SumFunctionOnSet(Signed, U) \in Int
                /\ SumFunctionOnSet(Towards(long), U) =
                    IF long THEN SumFunctionOnSet(Signed, U) ELSE -SumFunctionOnSet(Signed, U)
<1>1. IsFiniteSet(Txn)
  BY RowTypes
<1>2. \A t \in Txn : Signed[t] \in Int
  BY RowTypes DEF Signed
<1>3. \A U \in SUBSET Txn : SumFunctionOnSet(Signed, U) \in Int
  BY <1>1, <1>2, SumAny
<1>4. \A t \in Txn : Towards(long)[t] = IF long THEN Signed[t] ELSE -Signed[t]
  BY DEF Towards
<1>5. Towards(long) \in [Txn -> Int]
  BY <1>2 DEF Towards
<1> DEFINE D == Towards(long)
<1> HIDE DEF D
<1>6. ASSUME NEW U \in SUBSET Txn
      PROVE  SumFunctionOnSet(D, U) =
                    IF long THEN SumFunctionOnSet(Signed, U) ELSE -SumFunctionOnSet(Signed, U)
  <2>1. IsFiniteSet(U)
    BY <1>1, FS_Subset
  <2>2. CASE long
    <3>1. \A x \in U : D[x] \in Int /\ D[x] = Signed[x]
      BY <1>2, <1>4, <2>2 DEF D
    <3>2. SumFunctionOnSet(D, U) = SumFunctionOnSet(Signed, U)
      BY <2>1, <3>1, SumSame
    <3> QED
      BY <2>2, <3>2
  <2>3. CASE ~long
    <3>1. \A x \in U : Signed[x] \in Int /\ D[x] = -Signed[x]
      BY <1>2, <1>4, <2>3 DEF D
    <3>2. SumFunctionOnSet(D, U) = -SumFunctionOnSet(Signed, U)
      BY <2>1, <3>1, SumNegate
    <3> QED
      BY <2>3, <3>2
  <2> QED
    BY <2>2, <2>3
<1> QED
  BY <1>2, <1>3, <1>5, <1>6 DEF D

\* The rows of a backed group of one side move its net by what they carry.
LEMMA BackedSide ==
    ASSUME NEW S \in SUBSET Txn, NEW s \in Sec, NEW long \in BOOLEAN,
           OneSided(Trades(S, s)), OpensOf(S, s, long), Backed(S)
    PROVE  /\ Follows(Towards(long), S, s)
           /\ \A t \in Trades(S, s) : Row[t].act # NoAction => ActionDelta(t) = Towards(long)[t]
<1>1. \A i \in 0 .. Len(Row) : IF long THEN NetAt(S, s, i) >= 0 ELSE NetAt(S, s, i) <= 0
  BY SideWalk DEF OneSidedNet
<1>2. ASSUME NEW t \in Trades(S, s)
      PROVE  /\ Stepped(Finds(S, t), t) = Finds(S, t) + Towards(long)[t]
             /\ Row[t].act # NoAction => ActionDelta(t) = Towards(long)[t]
  <2> DEFINE n == Finds(S, t)
             q == Row[t].qty
             d == Towards(long)[t]
  <2>1. t \in Txn /\ n \in Int /\ BackedBy(n, t) /\ (IF long THEN n >= 0 ELSE n <= 0)
    BY <1>1, BackedRows
  <2>2. q \in Nat /\ q # 0 /\ (IsClosing(t) <=> ~IsOpening(t))
    BY <2>1, RowTypes DEF OneSided
  <2>3. d = IF long THEN (IF IsClosing(t) THEN -q ELSE q) ELSE -(IF IsClosing(t) THEN -q ELSE q)
    BY <2>1 DEF Towards, Signed
  <2> HIDE DEF n, d
  <2>4. CASE IsClosing(t)
    <3>1. n # 0 /\ Stepped(n, t) = n + (IF n > 0 THEN -q ELSE q)
      BY <2>1, <2>4, BackedStep
    <3>2. Row[t].act # NoAction => ActionDelta(t) = IF n > 0 THEN -q ELSE q
      BY <2>1, <2>4, BackedStep
    <3> HIDE DEF q
    <3>3. d = IF n > 0 THEN -q ELSE q
      BY <2>1, <2>2, <2>3, <2>4, <3>1
    <3> QED
      BY <3>1, <3>2, <3>3 DEF n, d, q
  <2>5. CASE IsOpening(t)
    <3>1. Row[t].act # NoAction
      BY <2>5 DEF IsOpening, OpeningActions, NoAction
    <3>2. Stepped(n, t) = n + ActionDelta(t)
      BY <2>1, <3>1, BackedStep
    <3>3. ActionDelta(t) = IF long THEN q ELSE -q
      BY <2>5 DEF OpensOf
    <3> HIDE DEF q
    <3>4. ActionDelta(t) = d
      BY <2>2, <2>3, <2>5, <3>3
    <3> QED
      BY <3>2, <3>4 DEF n, d
  <2> QED
    BY <2>2, <2>4, <2>5
<1> QED
  BY <1>2 DEF Follows

LEMMA BackedSums ==
    ASSUME NEW S \in SUBSET Txn, NEW s \in Sec, NEW long \in BOOLEAN,
           OneSided(Trades(S, s)), OpensOf(S, s, long), Backed(S)
    PROVE  \A i \in 0 .. Len(Row) :
                /\ NetAt(S, s, i) = SumFunctionOnSet(Towards(long), Upto(S, s, i))
                /\ SumFunctionOnSet(Signed, Upto(S, s, i)) = Abs(NetAt(S, s, i))
<1>1. \A i \in 0 .. Len(Row) : IF long THEN NetAt(S, s, i) >= 0 ELSE NetAt(S, s, i) <= 0
  BY SideWalk DEF OneSidedNet
<1>2. \A i \in 0 .. Len(Row) : NetAt(S, s, i) = SumFunctionOnSet(Towards(long), Upto(S, s, i))
  <2> DEFINE D == Towards(long)
  <2>1. D \in [Txn -> Int] /\ Follows(D, S, s)
    BY TowardsSums, BackedSide
  <2> HIDE DEF D
  <2>2. \A i \in 0 .. Len(Row) : NetAt(S, s, i) = SumFunctionOnSet(D, Upto(S, s, i))
    BY <2>1, NetIsSum
  <2> QED
    BY <2>2 DEF D
<1>3. ASSUME NEW i \in 0 .. Len(Row)
      PROVE  SumFunctionOnSet(Signed, Upto(S, s, i)) = Abs(NetAt(S, s, i))
  <2> DEFINE U == Upto(S, s, i)
             x == SumFunctionOnSet(Signed, U)
             n == NetAt(S, s, i)
  <2>1. U \in SUBSET Txn
    BY UptoGrows
  <2>2. x \in Int /\ SumFunctionOnSet(Towards(long), U) = IF long THEN x ELSE -x
    <3> HIDE DEF U
    <3> QED
      BY <2>1, TowardsSums
  <2>3. n = IF long THEN x ELSE -x
    BY <1>2, <2>2
  <2>4. IF long THEN n >= 0 ELSE n <= 0
    BY <1>1
  <2> HIDE DEF x, n
  <2>5. x = Abs(n)
    BY <2>2, <2>3, <2>4 DEF Abs
  <2> QED
    BY <2>5 DEF x, n
<1> QED
  BY <1>2, <1>3

\* Every close comes after an open, and takes no more than the rows listed before it leave.
Covered(S, s, long) ==
    \A t \in Trades(S, s) :
        /\ Row[t].act # NoAction => ActionDelta(t) = Towards(long)[t]
        /\ Row[t].act = NoAction => IsNontradeClose(t)
        /\ IsClosing(t) => /\ \E u \in Trades(S, s) : u < t /\ ~IsClosing(u)
                           /\ Row[t].qty <= SumFunctionOnSet(Signed, Upto(S, s, t - 1))

LEMMA AccountOneSided ==
    ASSUME NEW S \in SUBSET Txn, NEW s \in Sec, NEW long \in BOOLEAN,
           OneSided(Trades(S, s)), Covered(S, s, long)
    PROVE  NetOpenQuantity(S, s) = SumFunctionOnSet(Towards(long), Trades(S, s))
<1> DEFINE D == Towards(long)
<1>1. /\ D \in [Txn -> Int]
      /\ \A t \in Txn : Signed[t] \in Int
      /\ \A U \in SUBSET Txn :
            /\ SumFunctionOnSet(Signed, U) \in Int
            /\ SumFunctionOnSet(D, U) = IF long THEN SumFunctionOnSet(Signed, U)
                                        ELSE -SumFunctionOnSet(Signed, U)
  BY TowardsSums
<1>2. \A t \in Txn : D[t] = IF long THEN Signed[t] ELSE -Signed[t]
  BY DEF Towards
<1>3. \A t \in Txn : Signed[t] = IF IsClosing(t) THEN -Row[t].qty ELSE Row[t].qty
  BY DEF Signed
<1>4. IsFiniteSet(Txn)
  BY RowTypes
<1>5. \A t \in Trades(S, s) : /\ t \in Txn /\ Row[t].type # "Money Movement"
                              /\ IsClosing(t) <=> ~IsOpening(t)
  BY DEF OneSided, Trades
<1>6. ASSUME NEW i \in Txn, NEW had \in BOOLEAN, Visits(S, s, i),
             had <=> SeenOf(S, s, i - 1) # {}
      PROVE  LET delta == EffectiveDelta(SumFunctionOnSet(D, SeenOf(S, s, i - 1)), had, Replayed[i])
             IN  delta # 0 /\ delta = D[Replayed[i]]
  <2> DEFINE t == Replayed[i]
             V == SeenOf(S, s, i - 1)
             n == SumFunctionOnSet(D, V)
             x == SumFunctionOnSet(Signed, V)
             q == Row[t].qty
  <2>1. t \in Txn /\ t \in Trades(S, s) /\ V \in SUBSET Txn
    <3>1. t \in S /\ Row[t].sec = s
      BY <1>6 DEF Visits
    <3>2. t \in Txn /\ V \in SUBSET Txn
      BY <1>6, SeenOfGrows
    <3> QED
      BY <3>1, <3>2 DEF Trades
  <2>2. q \in Nat /\ q # 0
    BY <2>1, RowTypes
  <2>3. n \in Int /\ x \in Int /\ n = IF long THEN x ELSE -x
    <3> HIDE DEF V, D
    <3>1. x \in Int /\ n = IF long THEN x ELSE -x
      BY <1>1, <2>1
    <3> HIDE DEF x, n
    <3> QED
      BY <3>1
  <2>4. D[t] = (IF long THEN (IF IsClosing(t) THEN -q ELSE q) ELSE -(IF IsClosing(t) THEN -q ELSE q))
    BY <1>2, <1>3, <2>1
  <2>5. D[t] \in Int /\ D[t] # 0
    BY <2>2, <2>4
  <2>6. /\ Row[t].act # NoAction => ActionDelta(t) = D[t]
        /\ Row[t].act = NoAction => IsNontradeClose(t)
    BY <2>1 DEF Covered
  <2>7. IsClosing(t) => V # {}
    <3> SUFFICES ASSUME IsClosing(t)
                 PROVE  V # {}
      OBVIOUS
    <3>1. PICK u \in Trades(S, s) : u < t /\ ~IsClosing(u)
      BY <2>1 DEF Covered
    <3>2. u \in Txn /\ Row[u].at \in Nat /\ Row[t].at \in Nat /\ Row[u].at <= Row[t].at
      BY <1>5, <2>1, <3>1, RowTypes, RowAssumption DEF Txn
    <3>3. ReplayedBefore(u, t)
      BY <3>1, <3>2 DEF ReplayedBefore
    <3>4. u \in V
      BY <1>6, <3>3, SeenOfGrows
    <3> QED
      BY <3>4
  <2>8. IsClosing(t) => q <= x
    <3> SUFFICES ASSUME IsClosing(t)
                 PROVE  q <= x
      OBVIOUS
    <3> DEFINE P == Upto(S, s, t - 1)
               X == V \ P
    <3>1. P \subseteq V /\ \A u \in X : ~IsClosing(u)
      BY <1>6, SeenBeforeClose
    <3>2. q <= SumFunctionOnSet(Signed, P)
      BY <2>1 DEF Covered
    <3> HIDE DEF P, V, t, q
    <3>3. V = P \cup X /\ P \cap X = {} /\ P \in SUBSET Txn /\ X \in SUBSET Txn
      BY <2>1, <3>1
    <3> HIDE DEF X
    <3>4. IsFiniteSet(X) /\ IsFiniteSet(P \cup X) /\ \A y \in P \cup X : Signed[y] \in Int
      BY <1>1, <1>4, <3>3, FS_Subset
    <3>5. SumFunctionOnSet(Signed, V) = SumFunctionOnSet(Signed, P) + SumFunctionOnSet(Signed, X)
      BY <3>3, <3>4, SumJoin
    <3>6. \A u \in X : Signed[u] \in Nat
      <4>1. \A u \in X : u \in Txn /\ ~IsClosing(u)
        BY <3>1, <3>3
      <4>2. \A u \in X : Signed[u] = Row[u].qty /\ Row[u].qty \in Nat
        BY <1>3, <4>1, RowTypes
      <4> QED
        BY <4>2
    <3>7. SumFunctionOnSet(Signed, X) \in Nat
      BY <3>4, <3>6, SumBounds
    <3>8. SumFunctionOnSet(Signed, P) \in Int
      BY <1>1, <3>3
    <3> QED
      BY <2>2, <3>2, <3>5, <3>7, <3>8
  <2> DEFINE delta == EffectiveDelta(n, had, t)
  <2>9. /\ IsNontradeClose(t) => delta = TowardZero(n, q) - n
        /\ ~IsNontradeClose(t) /\ ~(Row[t].act \in ClosingActions /\ ~had) => delta = SignedDelta(t)
    <3> HIDE DEF n, q, t, D, V
    <3>1. Row[t].type # "Money Movement"
      BY <1>5, <2>1
    <3> QED
      BY <2>1, <2>3, <3>1, DeltaCases DEF q
  <2>10. CASE IsNontradeClose(t)
    <3>1. IsClosing(t)
      BY <2>10 DEF IsClosing
    <3>2. q <= x /\ D[t] = (IF long THEN -q ELSE q)
      BY <2>2, <2>4, <2>8, <3>1
    <3> HIDE DEF x, n, q
    <3>3. TowardZero(n, q) - n = D[t]
      BY <2>2, <2>3, <3>2 DEF TowardZero, Lower
    <3> QED
      BY <2>5, <2>9, <2>10, <3>3 DEF n
  <2>11. CASE ~IsNontradeClose(t)
    <3>1. Row[t].act # NoAction
      BY <2>6, <2>11
    <3>2. ~(Row[t].act \in ClosingActions /\ ~had)
      BY <1>6, <2>7 DEF IsClosing
    <3>3. SignedDelta(t) = D[t]
      BY <2>1, <2>6, <3>1, SignedIsAction
    <3> QED
      BY <2>5, <2>9, <2>11, <3>2, <3>3
  <2> QED
    BY <2>10, <2>11
<1> HIDE DEF D
<1>7. MovesAs(D, S, s)
  BY <1>6 DEF MovesAs
<1> QED
  BY <1>1, <1>7, AccountIsSum DEF D

\* A backed account of one side holds what its own book says.
LEMMA BackedAccount ==
    ASSUME NEW S \in SUBSET Txn, NEW s \in Sec, OneSided(Trades(S, s)), Backed(S)
    PROVE  /\ NetOpenQuantity(S, s) = NetQuantities(S)[s]
           /\ SumFunctionOnSet(Signed, Trades(S, s)) = Abs(NetQuantities(S)[s])
<1>1. PICK long \in BOOLEAN : OpensOf(S, s, long)
  BY SideOf DEF OpensOf
<1> DEFINE D == Towards(long)
<1>2. \A i \in 0 .. Len(Row) :
            /\ NetAt(S, s, i) = SumFunctionOnSet(D, Upto(S, s, i))
            /\ SumFunctionOnSet(Signed, Upto(S, s, i)) = Abs(NetAt(S, s, i))
  BY <1>1, BackedSums
<1>3. \A t \in Trades(S, s) : Row[t].act # NoAction => ActionDelta(t) = D[t]
  BY <1>1, BackedSide
<1>4. ASSUME NEW t \in Trades(S, s), IsClosing(t)
      PROVE  /\ \E u \in Trades(S, s) : u < t /\ ~IsClosing(u)
             /\ Row[t].qty <= SumFunctionOnSet(Signed, Upto(S, s, t - 1))
  <2> DEFINE n == Finds(S, t)
  <2>1. t \in Txn /\ n \in Int /\ BackedBy(n, t) /\ t - 1 \in 0 .. Len(Row) /\ n = NetAt(S, s, t - 1)
    BY BackedRows
  <2> HIDE DEF n
  <2>2. n # 0 /\ Row[t].qty <= Abs(n)
    BY <1>4, <2>1, BackedStep
  <2>3. \E u \in Trades(S, s) : u < t /\ ~IsClosing(u)
    BY <2>2, OpenBefore DEF n
  <2> QED
    BY <1>2, <2>1, <2>2, <2>3
<1>5. ASSUME NEW t \in Trades(S, s)
      PROVE  Row[t].act = NoAction => IsNontradeClose(t)
  <2> DEFINE n == Finds(S, t)
  <2>1. t \in Txn /\ n \in Int /\ BackedBy(n, t)
    BY BackedRows
  <2> HIDE DEF n
  <2> QED
    BY <2>1, BackedStep
<1>6. Covered(S, s, long)
  BY <1>3, <1>4, <1>5 DEF Covered
<1>7. NetOpenQuantity(S, s) = SumFunctionOnSet(D, Trades(S, s))
  BY <1>6, AccountOneSided
<1> HIDE DEF D
<1>8. Upto(S, s, Len(Row)) = Trades(S, s)
  BY UptoGrows
<1>9. NetAt(S, s, Len(Row)) = NetQuantities(S)[s]
  BY NetAtWalk
<1>10. Len(Row) \in 0 .. Len(Row)
  <2>1. Len(Row) \in Nat
    BY RowTypes
  <2> QED
    BY <2>1
<1> QED
  BY <1>2, <1>7, <1>8, <1>9, <1>10

\* Groups whose rows all move by D hold together what D adds up to over them all.
LEMMA GroupsHold ==
    ASSUME members \in [Group -> SUBSET Txn], Distinct, NEW s \in Sec, NEW D \in [Txn -> Int],
           \A g \in Group : Follows(D, members[g], s)
    PROVE  SumFunctionOnSet(D, Trades(Attached, s)) = SumFunction([g \in Group |-> Nets[g][s]])
<1> DEFINE N == Len(Row)
           f == [g \in Group |-> SumFunctionOnSet(D, Upto(members[g], s, N))]
           h == [g \in Group |-> Nets[g][s]]
<1>1. N \in Nat /\ N \in 0 .. N
  BY RowTypes
<1>2. ASSUME NEW g \in Group
      PROVE  SumFunctionOnSet(D, Upto(members[g], s, N)) = Nets[g][s]
  <2> DEFINE S == members[g]
  <2>1. S \in SUBSET Txn /\ Follows(D, S, s) /\ Nets[g] = NetQuantities(S)
    BY DEF Nets
  <2> HIDE DEF S
  <2>2. NetAt(S, s, N) = SumFunctionOnSet(D, Upto(S, s, N))
    BY <1>1, <2>1, NetIsSum
  <2>3. NetAt(S, s, N) = NetQuantities(S)[s]
    BY <2>1, NetAtWalk
  <2> QED
    BY <2>1, <2>2, <2>3 DEF S
<1>3. f = h
  BY <1>2
<1>4. Attached \in SUBSET Txn
  BY DEF Attached
<1>5. Upto(Attached, s, N) = Trades(Attached, s)
  BY <1>4, UptoGrows
<1>6. SumFunctionOnSet(D, Upto(Attached, s, N)) = SumFunctionOnSet(f, Group)
  BY MembersAddUp
<1>7. SumFunction(h) = SumFunctionOnSet(h, Group)
  BY DEF SumFunction
<1> QED
  BY <1>3, <1>5, <1>6, <1>7

\* The account of backed groups that hold one side.
LEMMA GroupsOneSided ==
    ASSUME members \in [Group -> SUBSET Txn], Distinct, \A g \in Group : Backed(members[g]),
           NEW s \in Sec, OneSided(Trades(Attached, s))
    PROVE  NetOpenQuantity(Attached, s) = SumFunction([g \in Group |-> Nets[g][s]])
<1>1. Attached \in SUBSET Txn
  BY DEF Attached
<1>2. PICK long \in BOOLEAN : OpensOf(Attached, s, long)
  <2> DEFINE S == Attached
  <2>1. S \in SUBSET Txn /\ OneSided(Trades(S, s))
    BY <1>1
  <2> HIDE DEF S
  <2>2. \E long \in BOOLEAN : OpensOf(S, s, long)
    BY <2>1, SideOf DEF OpensOf
  <2> QED
    BY <2>2 DEF S
<1> DEFINE D == Towards(long)
<1>3. ASSUME NEW g \in Group
      PROVE  /\ members[g] \in SUBSET Txn /\ Trades(members[g], s) \in SUBSET Trades(Attached, s)
             /\ OneSided(Trades(members[g], s)) /\ OpensOf(members[g], s, long) /\ Backed(members[g])
  <2>1. members[g] \in SUBSET Txn /\ Trades(members[g], s) \in SUBSET Trades(Attached, s)
    BY DEF Attached, Trades
  <2>2. Trades(Attached, s) \in SUBSET Txn
    BY <1>1 DEF Trades
  <2>3. OneSided(Trades(members[g], s))
    BY <2>1, <2>2, OneSidedTrades
  <2>4. OpensOf(members[g], s, long)
    BY <1>2, <2>1 DEF OpensOf
  <2> QED
    BY <2>1, <2>3, <2>4
<1>4. ASSUME NEW g \in Group
      PROVE  /\ Follows(D, members[g], s)
             /\ \A t \in Trades(members[g], s) : Row[t].act # NoAction => ActionDelta(t) = D[t]
             /\ \A i \in 0 .. Len(Row) :
                    SumFunctionOnSet(Signed, Upto(members[g], s, i)) = Abs(NetAt(members[g], s, i))
  <2> DEFINE S == members[g]
  <2>1. S \in SUBSET Txn /\ OneSided(Trades(S, s)) /\ OpensOf(S, s, long) /\ Backed(S)
    BY <1>3
  <2> HIDE DEF S
  <2>2. /\ Follows(Towards(long), S, s)
        /\ \A t \in Trades(S, s) : Row[t].act # NoAction => ActionDelta(t) = Towards(long)[t]
    BY <2>1, BackedSide
  <2>3. \A i \in 0 .. Len(Row) : SumFunctionOnSet(Signed, Upto(S, s, i)) = Abs(NetAt(S, s, i))
    BY <2>1, BackedSums
  <2> QED
    BY <2>2, <2>3 DEF S
<1>5. ASSUME NEW g \in Group, NEW t \in Trades(members[g], s)
      PROVE  /\ Row[t].act = NoAction => IsNontradeClose(t)
             /\ IsClosing(t) => /\ \E u \in Trades(members[g], s) : u < t /\ ~IsClosing(u)
                                /\ Row[t].qty <= SumFunctionOnSet(Signed, Upto(Attached, s, t - 1))
  <2> DEFINE S == members[g]
             n == Finds(S, t)
             f == [h \in Group |-> SumFunctionOnSet(Signed, Upto(members[h], s, t - 1))]
  <2>1. S \in SUBSET Txn /\ Backed(S) /\ t \in Trades(S, s)
    BY <1>3
  <2> HIDE DEF S
  <2>2. t \in Txn /\ n \in Int /\ BackedBy(n, t) /\ t - 1 \in 0 .. Len(Row) /\ n = NetAt(S, s, t - 1)
    BY <2>1, BackedRows
  <2> HIDE DEF n
  <2>3. /\ IsClosing(t) => n # 0 /\ Row[t].qty <= Abs(n)
        /\ Row[t].act = NoAction => IsNontradeClose(t)
    BY <2>2, BackedStep
  <2>4. IsClosing(t) => \E u \in Trades(S, s) : u < t /\ ~IsClosing(u)
    BY <2>1, <2>3, OpenBefore DEF n
  <2>5. \A h \in Group : f[h] = Abs(NetAt(members[h], s, t - 1))
    BY <1>4, <2>2
  <2>6. \A h \in Group : f[h] \in Nat
    <3>1. \A h \in Group : NetAt(members[h], s, t - 1) \in Int
      BY <1>3, NetAtWalk
    <3> QED
      BY <2>5, <3>1 DEF Abs
  <2>7. SumFunctionOnSet(f, Group) = SumFunctionOnSet(Signed, Upto(Attached, s, t - 1))
    <3>1. Signed \in [Txn -> Int]
      BY RowTypes DEF Signed
    <3> QED
      BY <3>1, MembersAddUp
  <2>8. f[g] = Abs(n)
    BY <2>2, <2>5 DEF S
  <2> HIDE DEF f
  <2>9. f[g] <= SumFunctionOnSet(f, Group) /\ SumFunctionOnSet(f, Group) \in Nat
    BY <2>6, NettingAssumption, SumBounds
  <2>10. Row[t].qty \in Nat /\ f[g] \in Nat
    BY <2>2, <2>6, RowTypes
  <2>11. IsClosing(t) => Row[t].qty <= SumFunctionOnSet(Signed, Upto(Attached, s, t - 1))
    BY <2>3, <2>7, <2>8, <2>9, <2>10
  <2> QED
    BY <2>3, <2>4, <2>11 DEF S
<1>6. \A t \in Trades(Attached, s) : \E g \in Group : t \in Trades(members[g], s)
  BY DEF Attached, Trades
<1>7. Covered(Attached, s, long)
  <2> SUFFICES ASSUME NEW t \in Trades(Attached, s)
               PROVE  /\ Row[t].act # NoAction => ActionDelta(t) = Towards(long)[t]
                      /\ Row[t].act = NoAction => IsNontradeClose(t)
                      /\ IsClosing(t) =>
                            /\ \E u \in Trades(Attached, s) : u < t /\ ~IsClosing(u)
                            /\ Row[t].qty <= SumFunctionOnSet(Signed, Upto(Attached, s, t - 1))
    BY DEF Covered
  <2>1. PICK g \in Group : t \in Trades(members[g], s)
    BY <1>6
  <2>2. Trades(members[g], s) \in SUBSET Trades(Attached, s)
    BY <1>3
  <2> QED
    BY <1>4, <1>5, <2>1, <2>2
<1>8. NetOpenQuantity(Attached, s) = SumFunctionOnSet(D, Trades(Attached, s))
  <2> DEFINE S == Attached
  <2>1. S \in SUBSET Txn /\ OneSided(Trades(S, s)) /\ Covered(S, s, long)
    BY <1>1, <1>7
  <2> HIDE DEF S
  <2>2. NetOpenQuantity(S, s) = SumFunctionOnSet(D, Trades(S, s))
    BY <2>1, AccountOneSided
  <2> QED
    BY <2>2 DEF S
<1>9. D \in [Txn -> Int] /\ \A g \in Group : Follows(D, members[g], s)
  BY <1>4, TowardsSums
<1> HIDE DEF D
<1>10. SumFunctionOnSet(D, Trades(Attached, s)) = SumFunction([g \in Group |-> Nets[g][s]])
  BY <1>9, GroupsHold
<1> QED
  BY <1>8, <1>10

\* The account of backed groups where nothing is settled.
LEMMA GroupsUnsettled ==
    ASSUME members \in [Group -> SUBSET Txn], Distinct, \A g \in Group : Backed(members[g]),
           NEW s \in Sec, \A t \in Trades(Attached, s) : ~IsNontradeClose(t)
    PROVE  NetOpenQuantity(Attached, s) = SumFunction([g \in Group |-> Nets[g][s]])
<1> DEFINE D == [t \in Txn |-> ActionDelta(t)]
<1>1. Attached \in SUBSET Txn
  BY DEF Attached
<1>2. D \in [Txn -> Int]
  BY RowTypes
<1>3. ASSUME NEW g \in Group, NEW t \in Trades(members[g], s)
      PROVE  /\ t \in Txn /\ t \in Trades(Attached, s)
             /\ Row[t].act # NoAction /\ Row[t].type # "Money Movement"
             /\ Stepped(Finds(members[g], t), t) = Finds(members[g], t) + D[t]
             /\ IsClosing(t) => \E u \in Trades(Attached, s) : u < t /\ ~IsClosing(u)
  <2> DEFINE S == members[g]
             n == Finds(S, t)
  <2>1. S \in SUBSET Txn /\ Backed(S) /\ t \in Trades(S, s) /\ Trades(S, s) \in SUBSET Trades(Attached, s)
    BY DEF Attached, Trades
  <2> HIDE DEF S
  <2>2. t \in Txn /\ n \in Int /\ BackedBy(n, t)
    BY <2>1, BackedRows
  <2> HIDE DEF n
  <2>3. /\ Row[t].type # "Money Movement"
        /\ IsClosing(t) => n # 0
        /\ Row[t].act # NoAction => Stepped(n, t) = n + ActionDelta(t)
        /\ Row[t].act = NoAction => IsNontradeClose(t)
    BY <2>2, BackedStep
  <2>4. t \in Trades(Attached, s) /\ Row[t].act # NoAction
    BY <2>1, <2>3
  <2>5. IsClosing(t) => \E u \in Trades(S, s) : u < t /\ ~IsClosing(u)
    BY <2>1, <2>3, OpenBefore DEF n
  <2>6. Stepped(n, t) = n + D[t]
    BY <2>2, <2>3, <2>4
  <2> QED
    BY <2>1, <2>2, <2>3, <2>4, <2>5, <2>6 DEF S, n
<1>4. ASSUME NEW g \in Group
      PROVE  Follows(D, members[g], s)
  BY <1>3 DEF Follows
<1>5. MovesAs(D, Attached, s)
  <2> SUFFICES ASSUME NEW i \in Txn, NEW had \in BOOLEAN, Visits(Attached, s, i),
                      had <=> SeenOf(Attached, s, i - 1) # {}
               PROVE  LET delta == EffectiveDelta(SumFunctionOnSet(D, SeenOf(Attached, s, i - 1)),
                                                  had, Replayed[i])
                      IN  delta # 0 /\ delta = D[Replayed[i]]
    BY DEF MovesAs
  <2> DEFINE t == Replayed[i]
             V == SeenOf(Attached, s, i - 1)
             x == SumFunctionOnSet(D, V)
  <2>1. t \in Trades(Attached, s)
    BY DEF Visits, Trades
  <2>2. PICK g \in Group : t \in Trades(members[g], s)
    BY <2>1 DEF Attached, Trades
  <2>3. /\ t \in Txn /\ Row[t].act # NoAction /\ Row[t].type # "Money Movement"
        /\ IsClosing(t) => \E u \in Trades(Attached, s) : u < t /\ ~IsClosing(u)
    BY <1>3, <2>2
  <2>4. V \in SUBSET Txn /\ \A u \in Trades(Attached, s) : u \in V <=> ReplayedBefore(u, t)
    BY <1>1, SeenOfGrows
  <2>5. x \in Int
    <3>1. IsFiniteSet(V) /\ \A u \in V : D[u] \in Int
      BY <1>2, <2>4, RowTypes, FS_Subset
    <3> HIDE DEF D, V
    <3> QED
      BY <3>1, SumAny
  <2>6. ~(Row[t].act \in ClosingActions /\ ~had)
    <3> SUFFICES ASSUME Row[t].act \in ClosingActions
                 PROVE  had
      OBVIOUS
    <3>1. IsClosing(t)
      BY DEF IsClosing
    <3>2. PICK u \in Trades(Attached, s) : u < t /\ ~IsClosing(u)
      BY <2>3, <3>1
    <3>3. u \in Txn /\ Row[u].at \in Nat /\ Row[t].at \in Nat /\ Row[u].at <= Row[t].at
      BY <1>1, <2>3, <3>2, RowTypes, RowAssumption DEF Txn, Trades
    <3>4. ReplayedBefore(u, t)
      BY <3>1, <3>2, <3>3 DEF ReplayedBefore
    <3> QED
      BY <2>4, <3>4
  <2>7. ~IsNontradeClose(t)
    BY <2>1
  <2> HIDE DEF t, x
  <2>8. EffectiveDelta(x, had, t) = SignedDelta(t)
    BY <2>3, <2>5, <2>6, <2>7, DeltaCases
  <2>9. SignedDelta(t) = ActionDelta(t) /\ ActionDelta(t) = D[t]
    BY <2>3, SignedIsAction
  <2>10. ActionDelta(t) # 0
    <3>1. /\ Row[t].qty \in Nat \ {0}
          /\ ActionDelta(t) = Row[t].qty \/ ActionDelta(t) = -Row[t].qty
      BY <2>3, RowTypes
    <3> QED
      BY <3>1
  <2> QED
    BY <2>8, <2>9, <2>10 DEF t, x
<1> HIDE DEF D
<1>6. NetOpenQuantity(Attached, s) = SumFunctionOnSet(D, Trades(Attached, s))
  <2> DEFINE S == Attached
  <2>1. S \in SUBSET Txn /\ MovesAs(D, S, s)
    BY <1>1, <1>5
  <2> HIDE DEF S
  <2>2. NetOpenQuantity(S, s) = SumFunctionOnSet(D, Trades(S, s))
    BY <1>2, <2>1, AccountIsSum
  <2> QED
    BY <2>2 DEF S
<1>7. \A g \in Group : Follows(D, members[g], s)
  BY <1>4
<1>8. SumFunctionOnSet(D, Trades(Attached, s)) = SumFunction([g \in Group |-> Nets[g][s]])
  BY <1>2, <1>7, GroupsHold
<1> QED
  BY <1>6, <1>8

-----------------------------------------------------------------------------
(* A flat account of two groups.                                           *)

\* What was opened up to a position of the list.
OpensUpto(S, s, i) == {t \in Upto(S, s, i) : IsOpening(t)}

\* The size of a one-sided net lies between what the rows so far add up to and
\* what was opened.
LEMMA NetBounds ==
    ASSUME NEW S \in SUBSET Txn, NEW s \in Sec, OneSided(Trades(S, s))
    PROVE  \A i \in 0 .. Len(Row) :
                /\ SumFunctionOnSet(Signed, Upto(S, s, i)) <= Abs(NetAt(S, s, i))
                /\ Abs(NetAt(S, s, i)) <= Quantity(OpensUpto(S, s, i))
<1> DEFINE N == Len(Row)
           T == Trades(S, s)
           n(i) == Abs(NetAt(S, s, i))
           X(i) == SumFunctionOnSet(Signed, Upto(S, s, i))
           Y(i) == Quantity(OpensUpto(S, s, i))
           E == {i \in 0 .. N : X(i) <= n(i) /\ n(i) <= Y(i)}
<1>1. N \in Nat /\ Txn = 1 .. N /\ IsFiniteSet(Txn)
  BY RowTypes
<1>2. /\ NetAt(S, s, 0) = 0
      /\ \A i : NetAt(S, s, i) \in Int
  BY NetAtWalk
<1>3. n(0) = 0 /\ \A i : n(i) \in Int /\ n(i) >= 0
  BY <1>2 DEF Abs
<1>4. \A i \in Txn :
        n(i) = IF i \notin T THEN n(i - 1)
               ELSE IF IsOpening(i) THEN n(i - 1) + Row[i].qty
               ELSE IF n(i - 1) > Row[i].qty THEN n(i - 1) - Row[i].qty ELSE 0
  BY OneSidedWalk DEF OneSidedNet
<1>5. \A t \in T : t \in Txn /\ (IsClosing(t) <=> ~IsOpening(t))
  BY DEF OneSided, Trades
<1>6. \A t \in Txn : Signed[t] \in Int /\ Carried[t] \in Int /\ Carried[t] = Row[t].qty
  BY RowTypes DEF Signed, Carried
<1>7. \A i \in Txn : /\ X(i) = IF i \in T THEN X(i - 1) + Signed[i] ELSE X(i - 1)
                     /\ X(i) \in Int /\ X(i - 1) \in Int
                     /\ Y(i) = IF i \in T /\ IsOpening(i) THEN Y(i - 1) + Row[i].qty ELSE Y(i - 1)
                     /\ Y(i) \in Nat /\ Y(i - 1) \in Nat
  <2> SUFFICES ASSUME NEW i \in Txn
               PROVE  /\ X(i) = IF i \in T THEN X(i - 1) + Signed[i] ELSE X(i - 1)
                      /\ X(i) \in Int /\ X(i - 1) \in Int
                      /\ Y(i) = IF i \in T /\ IsOpening(i) THEN Y(i - 1) + Row[i].qty ELSE Y(i - 1)
                      /\ Y(i) \in Nat /\ Y(i - 1) \in Nat
    OBVIOUS
  <2> DEFINE U == Upto(S, s, i - 1)
             V == OpensUpto(S, s, i - 1)
  <2>1. /\ U \in SUBSET Txn /\ i \in Txn \ U /\ Upto(S, s, i) \in SUBSET Txn
        /\ Upto(S, s, i) = IF i \in T THEN U \cup {i} ELSE U
    BY UptoGrows
  <2>2. /\ V \in SUBSET Txn /\ i \in Txn \ V /\ OpensUpto(S, s, i) \in SUBSET Txn
        /\ OpensUpto(S, s, i) = IF i \in T /\ IsOpening(i) THEN V \cup {i} ELSE V
    BY <2>1 DEF OpensUpto
  <2> HIDE DEF U, V
  <2>3. /\ SumFunctionOnSet(Signed, U) \in Int /\ SumFunctionOnSet(Signed, U \cup {i}) \in Int
        /\ SumFunctionOnSet(Signed, U \cup {i}) = SumFunctionOnSet(Signed, U) + Signed[i]
    <3>1. IsFiniteSet(Txn) /\ U \in SUBSET Txn /\ i \in Txn \ U
      BY <1>1, <2>1
    <3>2. \A t \in Txn : Signed[t] \in Int
      BY <1>6
    <3> QED
      BY <3>1, <3>2, SumAdd
  <2>4. SumFunctionOnSet(Carried, V \cup {i}) = SumFunctionOnSet(Carried, V) + Carried[i]
    <3>1. IsFiniteSet(Txn) /\ V \in SUBSET Txn /\ i \in Txn \ V
      BY <1>1, <2>2
    <3>2. \A t \in Txn : Carried[t] \in Int
      BY <1>6
    <3> QED
      BY <3>1, <3>2, SumAdd
  <2>5. V \cup {i} \in SUBSET Txn
    BY <2>2
  <2>6. /\ Quantity(V) \in Nat /\ Quantity(V \cup {i}) \in Nat
        /\ Quantity(V \cup {i}) = Quantity(V) + Row[i].qty
    BY <1>6, <2>2, <2>4, <2>5, QuantitySums
  <2> QED
    BY <2>1, <2>2, <2>3, <2>6 DEF U, V
<1>8. X(0) = 0 /\ Y(0) = 0
  <2>1. Upto(S, s, 0) = {} /\ OpensUpto(S, s, 0) = {}
    BY UptoGrows DEF OpensUpto
  <2> QED
    BY <2>1, SumEmpty, QuantitySums
<1> HIDE DEF n, X, Y, T
<1>9. 0 \in E
  <2>1. 0 \in 0 .. N
    BY <1>1
  <2> QED
    BY <1>3, <1>8, <2>1
<1>10. ASSUME NEW i \in 0 .. N, i # 0, i - 1 \in E
       PROVE  i \in E
  <2>1. i \in Txn /\ X(i - 1) <= n(i - 1) /\ n(i - 1) <= Y(i - 1)
    BY <1>1, <1>10
  <2>2. /\ X(i) \in Int /\ X(i - 1) \in Int /\ Y(i) \in Int /\ Y(i - 1) \in Int
        /\ n(i) \in Int /\ n(i - 1) \in Int /\ n(i - 1) >= 0
        /\ Row[i].qty \in Int /\ Row[i].qty > 0
    BY <1>3, <1>7, <2>1, RowTypes
  <2>3. CASE i \notin T
    BY <1>4, <1>7, <2>1, <2>3
  <2>4. CASE i \in T /\ IsOpening(i)
    <3>1. Signed[i] = Row[i].qty
      BY <1>5, <2>1, <2>4 DEF Signed
    <3>2. n(i) = n(i - 1) + Row[i].qty /\ X(i) = X(i - 1) + Row[i].qty /\ Y(i) = Y(i - 1) + Row[i].qty
      BY <1>4, <1>7, <2>1, <2>4, <3>1
    <3>3. X(i) <= n(i) /\ n(i) <= Y(i)
      BY <2>1, <2>2, <3>2
    <3> QED
      BY <3>3
  <2>5. CASE i \in T /\ ~IsOpening(i)
    <3>1. Signed[i] = -Row[i].qty
      BY <1>5, <2>1, <2>5 DEF Signed
    <3>2. /\ n(i) = IF n(i - 1) > Row[i].qty THEN n(i - 1) - Row[i].qty ELSE 0
          /\ X(i) = X(i - 1) - Row[i].qty
          /\ Y(i) = Y(i - 1)
      BY <1>4, <1>7, <2>1, <2>2, <2>5, <3>1
    <3>3. X(i) <= n(i) /\ n(i) <= Y(i)
      BY <2>1, <2>2, <3>2
    <3> QED
      BY <3>3
  <2> QED
    BY <2>3, <2>4, <2>5
<1> HIDE DEF E, N
<1>11. \A i \in 0 .. N : i \in E
  BY <1>1, <1>9, <1>10, UpTo
<1> QED
  BY <1>11 DEF E, N, n, X, Y

\* A one-sided group never held more than it opened.
LEMMA PeakWithinOpens ==
    ASSUME NEW S \in SUBSET Txn, NEW s \in Sec, OneSided(Trades(S, s))
    PROVE  PeakExposure(S, s) \in Nat /\ PeakExposure(S, s) <= Quantity(Opens(S, s))
<1> DEFINE B == Quantity(Opens(S, s))
           P == {0} \cup {Abs(NetQuantities({u \in S : u <= t})[s]) : t \in S}
<1>1. Opens(S, s) \in SUBSET Txn /\ B \in Nat
  <2>1. Opens(S, s) \in SUBSET Txn
    BY DEF Opens
  <2> QED
    BY <2>1, QuantitySums
<1>2. ASSUME NEW t \in S
      PROVE  Abs(NetQuantities({u \in S : u <= t})[s]) \in 0 .. B
  <2>1. t \in 0 .. Len(Row)
    BY RowTypes
  <2>2. NetQuantities({u \in S : u <= t})[s] = NetAt(S, s, t)
    BY DEF NetAt, Prefix
  <2>3. NetAt(S, s, t) \in Int
    BY NetAtWalk
  <2>4. Abs(NetAt(S, s, t)) <= Quantity(OpensUpto(S, s, t))
    BY <2>1, NetBounds
  <2>5. Quantity(OpensUpto(S, s, t)) \in Nat /\ Quantity(OpensUpto(S, s, t)) <= B
    <3> DEFINE V == OpensUpto(S, s, t)
               W == Opens(S, s) \ V
    <3>1. Opens(S, s) = V \cup W /\ V \cap W = {} /\ V \in SUBSET Txn /\ W \in SUBSET Txn
      BY <1>1 DEF OpensUpto, Upto, Trades, Prefix, Opens
    <3> HIDE DEF V, W
    <3>2. Quantity(V) \in Nat /\ Quantity(W) \in Nat
      BY <3>1, QuantitySums
    <3>3. B = Quantity(V) + Quantity(W)
      BY <3>1, QuantityJoin
    <3> QED
      BY <3>2, <3>3 DEF V
  <2>6. Abs(NetAt(S, s, t)) \in Nat
    BY <2>3 DEF Abs
  <2> HIDE DEF B
  <2> QED
    BY <1>1, <2>2, <2>4, <2>5, <2>6
<1>3. P \in SUBSET (0 .. B) /\ 0 \in P
  <2>1. 0 \in 0 .. B
    BY <1>1
  <2> HIDE DEF B
  <2>2. \A x \in P : x \in 0 .. B
    BY <1>2, <2>1
  <2> QED
    BY <2>2
<1>4. PeakExposure(S, s) = Max(P)
  BY DEF PeakExposure
<1> HIDE DEF P, B
<1>5. Max(P) \in P
  BY <1>1, <1>3, MaxMember
<1>6. Max(P) \in 0 .. B
  BY <1>3, <1>5
<1>7. PeakExposure(S, s) \in Nat /\ PeakExposure(S, s) <= B
  BY <1>1, <1>4, <1>6
<1> QED
  BY <1>7 DEF B

\* Once a row has moved the book, the book has moved.
LEMMA MovedHas ==
    ASSUME NEW S \in SUBSET Txn, NEW t \in S, Moves(Finds(S, t), t)
    PROVE  Book(S).moved # {}
<1> DEFINE N == Len(Row)
           E == {i \in 0 .. N : t <= i => Book(Prefix(S, i)).moved # {}}
<1>1. N \in Nat /\ Txn = 1 .. N /\ t \in Txn
  BY RowTypes
<1>0. \A u \in S : u \in Int /\ u <= N
  BY <1>1
<1>2. \A i \in S : /\ i \in Txn /\ Prefix(S, i) = Prefix(S, i - 1) \cup {i}
                   /\ \A u \in Prefix(S, i - 1) : u \in Txn /\ u < i
                   /\ Prefix(S, i - 1) = {u \in S : u < i}
  <2>1. \A i \in S : i \in Txn /\ i \in Int
    BY <1>1
  <2> QED
    BY <2>1 DEF Prefix
<1>3. 0 \in E
  BY <1>1
<1>4. ASSUME NEW i \in 0 .. N, i # 0, i - 1 \in E
      PROVE  i \in E
  <2> SUFFICES ASSUME t <= i
               PROVE  Book(Prefix(S, i)).moved # {}
    OBVIOUS
  <2> DEFINE b == Book(Prefix(S, i - 1))
  <2>1. i \in Txn /\ (t = i \/ t <= i - 1)
    BY <1>1, <1>4
  <2>2. CASE i \notin S
    <3>1. t <= i - 1
      BY <2>1, <2>2
    <3>2. \A u \in S : u <= i <=> u <= i - 1
      BY <1>0, <2>2
    <3>3. Prefix(S, i) = Prefix(S, i - 1)
      BY <3>2 DEF Prefix
    <3> QED
      BY <1>4, <3>1, <3>3
  <2>3. CASE i \in S
    <3>1. Book(Prefix(S, i)) = WalkStep(b, i)
      <4>1. \A u \in Prefix(S, i - 1) : u \in Txn /\ u < i
        BY <1>2, <2>3
      <4>2. Book(Prefix(S, i - 1) \cup {i}) = WalkStep(b, i)
        BY <2>1, <4>1, BookExtend
      <4> QED
        BY <1>2, <2>3, <4>2
    <3>2. WalkStep(b, i).moved = IF Moves(b.net[Row[i].sec], i) THEN b.moved \cup {Row[i].sec}
                                                               ELSE b.moved
      BY DEF WalkStep
    <3>3. t = i => b.net[Row[i].sec] = Finds(S, t)
      BY <1>2, <2>3 DEF Finds, NetQuantities
    <3>4. t <= i - 1 => b.moved # {}
      BY <1>4
    <3> HIDE DEF b
    <3> QED
      BY <2>1, <3>1, <3>2, <3>3, <3>4
  <2> QED
    BY <2>2, <2>3
<1> HIDE DEF E, N
<1>5. \A i \in 0 .. N : i \in E
  BY <1>1, <1>3, <1>4, UpTo
<1>6. N \in E /\ t <= N
  BY <1>1, <1>5
<1>7. Prefix(S, N) = S
  BY <1>0 DEF Prefix
<1> QED
  BY <1>6, <1>7 DEF E

\* A backed, one-sided account that is flat has nothing in its book, and is closed if
\* it traded at all.
LEMMA FlatAccount ==
    ASSUME NEW S \in SUBSET Txn, OneSided(S), Backed(S), Flat(S)
    PROVE  /\ \A s \in Sec : NetQuantities(S)[s] = 0 /\ SumFunctionOnSet(Signed, Trades(S, s)) = 0
           /\ S # {} => FullyClosed(S)
<1>1. ASSUME NEW s \in Sec
      PROVE  NetQuantities(S)[s] = 0 /\ SumFunctionOnSet(Signed, Trades(S, s)) = 0
  <2>1. OneSided(Trades(S, s))
    BY OneSidedTrades DEF Trades
  <2>2. /\ NetOpenQuantity(S, s) = NetQuantities(S)[s]
        /\ SumFunctionOnSet(Signed, Trades(S, s)) = Abs(NetQuantities(S)[s])
    BY <2>1, BackedAccount
  <2>3. NetOpenQuantity(S, s) = 0
    BY DEF Flat
  <2> QED
    BY <2>2, <2>3 DEF Abs
<1>2. ASSUME S # {}
      PROVE  FullyClosed(S)
  <2>1. PICK t \in S : TRUE
    BY <1>2
  <2> DEFINE s == Row[t].sec
  <2>2. t \in Txn /\ s \in Sec /\ t \in Trades(S, s)
    BY <2>1, RowTypes DEF Trades
  <2> HIDE DEF s
  <2>3. Finds(S, t) \in Int /\ BackedBy(Finds(S, t), t)
    BY <2>2, BackedRows
  <2>4. Book(S).moved # {}
    <3>1. Moves(Finds(S, t), t)
      BY <2>3 DEF BackedBy
    <3> QED
      BY <2>1, <3>1, MovedHas
  <2>5. \E u \in S : IsOpening(u)
    <3>1. IsClosing(t) => Finds(S, t) # 0
      BY <2>2, <2>3, BackedStep
    <3>2. IsClosing(t) => \E u \in Trades(S, s) : u < t /\ ~IsClosing(u)
      BY <2>2, <3>1, OpenBefore
    <3>3. \E u \in S : ~IsClosing(u)
      BY <2>1, <3>2 DEF Trades
    <3> QED
      BY <3>3 DEF OneSided
  <2>6. \A r \in Sec : Book(S).net[r] = 0
    BY <1>1 DEF NetQuantities
  <2> QED
    BY <2>4, <2>5, <2>6 DEF FullyClosed
<1> QED
  BY <1>1, <1>2

\* The rest of a flat account closes what one group of it left: where the rows of g
\* add up to something, those of h add up to the opposite.
LEMMA Opposite ==
    ASSUME members \in [Group -> SUBSET Txn], Distinct, NEW g \in Group, NEW h \in Group, g # h,
           Attached = members[g] \cup members[h], OneSided(Attached), Backed(Attached), Flat(Attached),
           NEW s \in Sec
    PROVE  /\ SumFunctionOnSet(Signed, Trades(members[g], s)) \in Int
           /\ SumFunctionOnSet(Signed, Trades(members[h], s))
                = -SumFunctionOnSet(Signed, Trades(members[g], s))
<1> DEFINE A == Trades(members[g], s)
           B == Trades(members[h], s)
<1>1. Trades(Attached, s) = A \cup B /\ A \cap B = {} /\ A \in SUBSET Txn /\ B \in SUBSET Txn
  BY DEF Trades, Distinct
<1>2. SumFunctionOnSet(Signed, Trades(Attached, s)) = 0
  <2> DEFINE S == Attached
  <2>1. S \in SUBSET Txn /\ OneSided(S) /\ Backed(S) /\ Flat(S)
    BY DEF Attached
  <2> HIDE DEF S
  <2>2. SumFunctionOnSet(Signed, Trades(S, s)) = 0
    BY <2>1, FlatAccount
  <2> QED
    BY <2>2 DEF S
<1> HIDE DEF A, B
<1>3. IsFiniteSet(A \cup B) /\ IsFiniteSet(A) /\ IsFiniteSet(B)
  BY <1>1, RowTypes, FS_Subset
<1>4. \A t \in Txn : Signed[t] \in Int
  BY TowardsSums
<1>5. \A t \in A \cup B : Signed[t] \in Int
  BY <1>1, <1>4
<1>6. SumFunctionOnSet(Signed, A \cup B) = SumFunctionOnSet(Signed, A) + SumFunctionOnSet(Signed, B)
  BY <1>1, <1>3, <1>5, SumJoin
<1>7. SumFunctionOnSet(Signed, A) \in Int /\ SumFunctionOnSet(Signed, B) \in Int
  BY <1>1, TowardsSums
<1>8. SumFunctionOnSet(Signed, B) = -SumFunctionOnSet(Signed, A)
  <2>1. SumFunctionOnSet(Signed, A) + SumFunctionOnSet(Signed, B) = 0
    BY <1>1, <1>2, <1>6
  <2> QED
    BY <1>7, <2>1
<1> QED
  BY <1>7, <1>8 DEF A, B

-----------------------------------------------------------------------------
(* The states the model reaches: what is attached is attached once, and    *)
(* the cluster is later than all of it.                                    *)

NettingInv == TypeOK /\ Distinct /\ ClusterIsLater

LEMMA NettingInvInductive ==
    Spec => []NettingInv
<1>1. Init => NettingInv
  BY DEF Init, NettingInv, TypeOK, Distinct, ClusterIsLater
<1>2. NettingInv /\ [Next]_vars => NettingInv'
  <2> SUFFICES ASSUME NettingInv, [Next]_vars
               PROVE  NettingInv'
    OBVIOUS
  <2>1. ASSUME NEW g \in Group, NEW t \in Txn, Attach(g, t)
        PROVE  NettingInv'
    <3>1. TypeOK'
      BY <2>1 DEF NettingInv, TypeOK, Attach
    <3>2. \A h \in Group : members'[h] = IF h = g THEN members[h] \cup {t} ELSE members[h]
      BY <2>1 DEF NettingInv, TypeOK, Attach
    <3>3. \A h \in Group : t \notin members[h]
      BY <2>1 DEF Attach, Attached
    <3>4. Distinct'
      BY <3>2, <3>3 DEF NettingInv, Distinct
    <3>5. ClusterIsLater'
      BY <2>1 DEF Attach, ClusterIsLater
    <3> QED
      BY <3>1, <3>4, <3>5 DEF NettingInv
  <2>2. ASSUME NEW t \in Txn, Arrive(t)
        PROVE  NettingInv'
    <3>1. TypeOK' /\ Distinct'
      BY <2>2 DEF NettingInv, TypeOK, Distinct, Arrive
    <3>2. ClusterIsLater'
      BY <2>2 DEF NettingInv, ClusterIsLater, Arrive, Attached
    <3> QED
      BY <3>1, <3>2 DEF NettingInv
  <2>3. CASE UNCHANGED vars
    BY <2>3 DEF vars, NettingInv, TypeOK, Distinct, ClusterIsLater
  <2> QED
    BY <2>1, <2>2, <2>3 DEF Next
<1> QED
  BY <1>1, <1>2, PTL DEF Spec

\* In such a state the report on a stuck group names the other group: for a group of
\* closes alone because the other then holds what they close, for one that holds
\* something because the other closed more than it ever held.
LEMMA StuckIsPaired ==
    ASSUME NettingInv, OneSided(Attached), Backed(Attached), Flat(Attached),
           NEW g \in Group, NEW h \in Group, g # h, Attached = members[g] \cup members[h]
    PROVE  /\ OrphanSettlement(members[g]) => h \in OrphanCoveredBy(members, g)
           /\ Backed(members[g]) /\ HeldSecurities(members[g]) # {}
              => /\ Misattributed(Attached, members[g])
                 /\ h \in MisattributedCoveredBy(members, g)
<1> DEFINE S == members[g]
           R == members[h]
<1>1. /\ members \in [Group -> SUBSET Txn] /\ Distinct
      /\ S \in SUBSET Txn /\ R \in SUBSET Txn /\ Attached \in SUBSET Txn
      /\ S \in SUBSET Attached /\ R \in SUBSET Attached
  BY DEF NettingInv, TypeOK, Attached
<1>2. S # {} => FullyClosed(S \cup R)
  <2> DEFINE U == Attached
  <2>1. U \in SUBSET Txn /\ OneSided(U) /\ Backed(U) /\ Flat(U)
    BY <1>1
  <2> HIDE DEF U
  <2>2. U # {} => FullyClosed(U)
    BY <2>1, FlatAccount
  <2> QED
    BY <2>2 DEF U
<1>3. OneSided(S) /\ OneSided(R)
  BY <1>1, OneSidedTrades
<1>4. ASSUME NEW s \in Sec
      PROVE  /\ OneSided(Trades(S, s)) /\ OneSided(Trades(R, s))
             /\ SumFunctionOnSet(Signed, Trades(S, s)) \in Int
             /\ SumFunctionOnSet(Signed, Trades(R, s)) = -SumFunctionOnSet(Signed, Trades(S, s))
  <2>1. Trades(S, s) \in SUBSET S /\ Trades(R, s) \in SUBSET R
    BY DEF Trades
  <2>2. OneSided(Trades(S, s)) /\ OneSided(Trades(R, s))
    BY <1>1, <1>3, <2>1, OneSidedTrades
  <2>3. /\ SumFunctionOnSet(Signed, Trades(S, s)) \in Int
        /\ SumFunctionOnSet(Signed, Trades(R, s)) = -SumFunctionOnSet(Signed, Trades(S, s))
    BY <1>1, Opposite
  <2> QED
    BY <2>2, <2>3
<1>5. ASSUME OrphanSettlement(S)
      PROVE  h \in OrphanCoveredBy(members, g)
  <2>1. PICK t \in S : TRUE
    BY <1>5 DEF OrphanSettlement
  <2> DEFINE s == Row[t].sec
             T == Trades(S, s)
  <2>2. t \in Txn /\ s \in Sec /\ t \in T
    BY <1>1, <2>1, RowTypes DEF Trades
  <2>3. T \in SUBSET Txn /\ \A u \in T : IsClosing(u)
    BY <1>1, <1>5 DEF OrphanSettlement, Trades
  <2>4. SumFunctionOnSet(Signed, T) < 0
    <3> DEFINE C == {u \in T : IsClosing(u)}
    <3>1. Opens(S, s) = {} /\ C = T
      <4>1. \A u \in T : ~IsOpening(u)
        BY <1>3, <2>3 DEF OneSided, Trades
      <4> QED
        BY <2>3, <4>1 DEF Opens, Trades
    <3>2. SumFunctionOnSet(Signed, T) = Quantity(Opens(S, s)) - Quantity(C)
      BY <1>1, <1>4, <2>2, SignedSums
    <3>3. Quantity(Opens(S, s)) = 0
      BY <3>1, QuantitySums
    <3>4. Quantity(T) \in Nat /\ Row[t].qty <= Quantity(T)
      BY <2>2, <2>3, QuantitySums
    <3>5. Row[t].qty \in Nat /\ Row[t].qty # 0
      BY <2>2, RowTypes
    <3> HIDE DEF C, T, s
    <3> QED
      BY <3>1, <3>2, <3>3, <3>4, <3>5
  <2>5. SumFunctionOnSet(Signed, Trades(R, s)) > 0
    BY <1>4, <2>2, <2>4
  <2>6. NetQuantities(R)[s] # 0
    <3>1. Upto(R, s, Len(Row)) = Trades(R, s)
      <4>1. R \in SUBSET Txn /\ s \in Sec
        BY <1>1, <2>2
      <4> HIDE DEF R, s
      <4> QED
        BY <4>1, UptoGrows
    <3>2. NetAt(R, s, Len(Row)) = NetQuantities(R)[s] /\ NetAt(R, s, Len(Row)) \in Int
      BY <1>1, <2>2, NetAtWalk
    <3>3. Len(Row) \in 0 .. Len(Row)
      <4>1. Len(Row) \in Nat
        BY RowTypes
      <4> QED
        BY <4>1
    <3>4. SumFunctionOnSet(Signed, Upto(R, s, Len(Row))) <= Abs(NetAt(R, s, Len(Row)))
      BY <1>1, <1>4, <2>2, <3>3, NetBounds
    <3>5. SumFunctionOnSet(Signed, Trades(R, s)) \in Int
      BY <1>4, <2>2
    <3> HIDE DEF R, s
    <3> QED
      BY <2>5, <3>1, <3>2, <3>4, <3>5 DEF Abs
  <2>7. Row[t].sec \in HeldSecurities(R)
    BY <2>2, <2>6 DEF HeldSecurities
  <2>8. FullyClosed(R \cup S)
    <3>1. R \cup S = S \cup R
      OBVIOUS
    <3> QED
      BY <1>2, <2>1, <3>1
  <2> QED
    BY <2>1, <2>7, <2>8 DEF OrphanCoveredBy
<1>6. ASSUME Backed(S), HeldSecurities(S) # {}
      PROVE  Misattributed(Attached, S) /\ h \in MisattributedCoveredBy(members, g)
  <2>1. Misattributed(Attached, S)
    BY <1>6 DEF Misattributed, Flat, HeldSecurities
  <2>2. PICK s \in Sec : s \in HeldSecurities(S) /\ NetQuantities(S)[s] # 0
    BY <1>6 DEF HeldSecurities
  <2>3. SumFunctionOnSet(Signed, Trades(S, s)) > 0
    <3>1. SumFunctionOnSet(Signed, Trades(S, s)) = Abs(NetQuantities(S)[s])
      BY <1>1, <1>4, <1>6, BackedAccount
    <3>2. NetQuantities(S)[s] \in Int
      BY BookTyped
    <3> QED
      BY <2>2, <3>1, <3>2 DEF Abs
  <2>4. OverCloses(R, s)
    <3> DEFINE C == {t \in R : Row[t].sec = s /\ (IsClosing(t) \/ IsBare(t))}
               D == {t \in Trades(R, s) : IsClosing(t)}
               O == Opens(R, s)
    <3>1. C = D
      <4>1. \A t \in R : IsBare(t) => ~IsOpening(t)
        BY DEF IsBare, IsOpening, BareActions, OpeningActions
      <4>2. \A t \in R : IsBare(t) => IsClosing(t)
        BY <1>3, <4>1 DEF OneSided
      <4> QED
        BY <4>2 DEF Trades
    <3>2. D \in SUBSET Txn /\ O \in SUBSET Txn
      BY <1>1 DEF Trades, Opens
    <3>3. SumFunctionOnSet(Signed, Trades(R, s)) = Quantity(O) - Quantity(D)
      BY <1>1, <1>4, SignedSums
    <3>4. SumFunctionOnSet(Signed, Trades(R, s)) < 0
      BY <1>4, <2>3
    <3>5. PeakExposure(R, s) \in Nat /\ PeakExposure(R, s) <= Quantity(O)
      BY <1>1, <1>4, PeakWithinOpens
    <3> HIDE DEF D, O
    <3>6. Quantity(O) \in Nat /\ Quantity(D) \in Nat /\ Contracts(D) = Quantity(D)
      BY <3>2, QuantitySums
    <3> HIDE DEF R
    <3>7. Contracts(D) > PeakExposure(R, s)
      BY <3>3, <3>4, <3>5, <3>6
    <3> QED
      BY <3>1, <3>7 DEF OverCloses
  <2>5. FullyClosed(S \cup R)
    <3>1. S # {}
      BY <2>2, BookOfNone DEF NetQuantities, FlatBook
    <3> QED
      BY <1>2, <3>1
  <2> QED
    BY <2>1, <2>2, <2>4, <2>5 DEF MisattributedCoveredBy
<1> QED
  BY <1>5, <1>6

-----------------------------------------------------------------------------
(* The theorems.                                                           *)

\* net_open_quantities takes the same walk as _replay_security: over rows
\* that all carry a price, both end at one net, whatever the history.
THEOREM WalksAgreeAlways ==
    Spec => []WalksAgree
<1>1. NettingInv => WalksAgree
  <2>1. NettingInv => Attached \in SUBSET Txn
    BY DEF NettingInv, TypeOK, Attached
  <2> QED
    BY <2>1, QuantityIsRebuilt DEF WalksAgree
<1> QED
  BY <1>1, NettingInvInductive, PTL

\* _net_quantities clamps each close as it goes: the holding of a one-sided
\* group is the largest excess of opens over closes in any tail of its rows.
THEOREM NetIsLargestExcessAlways ==
    Spec => []NetIsLargestExcess
<1>1. NettingInv => NetIsLargestExcess
  <2>1. NettingInv => \A g \in Group : members[g] \in SUBSET Txn
    BY DEF NettingInv, TypeOK
  <2> QED
    BY <2>1, LargestExcess DEF NetIsLargestExcess
<1> QED
  BY <1>1, NettingInvInductive, PTL

\* price_realized_gross with clamp_closes takes its profit from the position
\* that _group_net_step walks: same net, and nothing realised that is held.
THEOREM ProfitFollowsBookAlways ==
    Spec => []ProfitFollowsBook
<1>1. NettingInv => ProfitFollowsBook
  <2>1. NettingInv => \A g \in Group : members[g] \in SUBSET Txn
    BY DEF NettingInv, TypeOK
  <2> QED
    BY <2>1, PriceFollowsNet DEF ProfitFollowsBook, Nets
<1> QED
  BY <1>1, NettingInvInductive, PTL

\* fold_open_group_legs and net_open_by_group add up opens and closes and
\* count a settlement once: that is the signed net the group's walk ends at.
THEOREM LegsMatchBookAlways ==
    Spec => []LegsMatchBook
<1>1. NettingInv => LegsMatchBook
  <2> SUFFICES ASSUME NettingInv, NEW g \in Group, OneSided(members[g]), SettledWhole(members[g]),
                      NEW s \in Sec
               PROVE  /\ SignedNetOpen(members[g], s) = Nets[g][s]
                      /\ g \in Shares(members, s) <=> s \in HeldSecurities(members[g])
    BY DEF LegsMatchBook
  <2>1. members[g] \in SUBSET Txn /\ g \in DOMAIN members
    BY DEF NettingInv, TypeOK
  <2>2. /\ NetOpen(members[g], s) = Abs(NetQuantities(members[g])[s])
        /\ SignedNetOpen(members[g], s) = NetQuantities(members[g])[s]
    BY <2>1, LegsAreNet
  <2>3. NetQuantities(members[g])[s] \in Int
    BY BookTyped
  <2>4. Abs(NetQuantities(members[g])[s]) > 0 <=> NetQuantities(members[g])[s] # 0
    BY <2>3 DEF Abs
  <2> QED
    BY <2>1, <2>2, <2>4 DEF Nets, Shares, HeldSecurities
<1> QED
  BY <1>1, NettingInvInductive, PTL

\* _replay_security opens, adds, reduces, closes and flips lots: over any
\* history each contract is opened once and realised at most once, and the
\* fees of a row belong to one lifecycle, the one it closes when it flips.
THEOREM ContractsAndFeesOnceAlways ==
    Spec => []ContractsAndFeesOnce
<1>1. NettingInv => ContractsAndFeesOnce
  <2> SUFFICES ASSUME NettingInv, NEW s \in Sec
               PROVE  LET book    == ReplaySecurity(Attached, s)
                          lots    == {book.lot} \cup book.closed
                          charged == UNION {lot.fees : lot \in lots}
                          used    == SumFunction([lot \in lots |-> lot.opened + lot.realised])
                          carried == Contracts(charged)
                      IN  /\ \A lot \in lots : Abs(lot.net) = lot.opened - lot.realised
                          /\ \A k, l \in lots : k # l => k.fees \cap l.fees = {}
                          /\ used <= carried
                          /\ (\A t \in charged : ~IsNontradeClose(t)) => used = carried
    BY DEF ContractsAndFeesOnce
  <2> DEFINE book == ReplaySecurity(Attached, s)
             lots == {book.lot} \cup book.closed
             own  == [lot \in lots |-> lot.opened + lot.realised]
  <2>1. Attached \in SUBSET Txn
    BY DEF NettingInv, TypeOK, Attached
  <2>2. book \in HistoryType /\ LotsApart(book, Attached) /\ ContractsMatch(book)
    BY <2>1, RebuildOnce
  <2>3. IsFiniteSet(book.closed) /\ book.lot \notin book.closed
    <3>1. \A lot \in book.closed : lot.until # 0
      BY <2>1, <2>2, RowTypes DEF LotsApart
    <3> QED
      BY <2>2, <3>1 DEF LotsApart
  <2> HIDE DEF book
  <2>4. SumFunction(own) = HandledIn(book)
    <3>1. \A lot \in lots : lot \in LotType
      BY <2>2, <2>3, HandledType
    <3>2. \A lot \in lots : own[lot] \in Int /\ own[lot] = Handled[lot]
      BY <2>2, <2>3, <3>1, HandledType
    <3>3. IsFiniteSet(lots)
      BY <2>3, FS_AddElement
    <3>4. SumFunctionOnSet(own, lots) = SumFunctionOnSet(Handled, lots)
      <4> HIDE DEF lots, own
      <4> QED
        BY <3>2, <3>3, SumSame
    <3>5. SumFunctionOnSet(Handled, book.closed \cup {book.lot})
            = SumFunctionOnSet(Handled, book.closed) + Handled[book.lot]
      BY <2>2, <2>3, HandledType
    <3>6. lots = book.closed \cup {book.lot}
      OBVIOUS
    <3>7. /\ SumFunctionOnSet(Handled, book.closed) \in Int /\ Handled[book.lot] \in Int
      BY <2>2, <2>3, HandledType
    <3>8. SumFunction(own) = SumFunctionOnSet(own, lots)
      BY DEF SumFunction
    <3> HIDE DEF own, lots
    <3> QED
      BY <3>4, <3>5, <3>6, <3>7, <3>8 DEF HandledIn
  <2> QED
    BY <2>2, <2>4 DEF LotsApart, ContractsMatch, ChargedIn, LotsOf, book
<1> QED
  BY <1>1, NettingInvInductive, PTL

\* _draw_down goes through the open groups in list order: whatever the order,
\* the closes take exactly what they carry, or everything that is held.
THEOREM DrawDownConservesAlways ==
    Spec => []DrawDownConserves
<1>1. NettingInv => DrawDownConserves
  BY RoutingTakes DEF NettingInv, TypeOK, DrawDownConserves
<1> QED
  BY <1>1, NettingInvInductive, PTL


\* _route_cluster attaches each close to a group that _draw_down found a lot in that
\* no earlier close had taken: with closes of one lot each, no lot stays open in one
\* group because its close went to another.
THEOREM NoLotStrandedAlways ==
    Spec => []NoLotStranded
<1>1. NettingInv => NoLotStranded
  <2> SUFFICES ASSUME NettingInv, NEW s \in Sec, OnlyCloses(s), UnitCloses(s), NEW l \in Lists
               PROVE  HeldBy(After(Routed(l)), s) = HeldBy(Routed(l).remaining, s)
    BY DEF NoLotStranded, UnitCloses
  <2> QED
    BY RoutedBooks DEF NettingInv, TypeOK
<1> QED
  BY <1>1, NettingInvInductive, PTL


\* Groups that close only what they hold tell what the account holds: walking the
\* account through zero, opens first (net_open_quantities), gives the sum of the nets
\* that _net_quantities gives each group, settlements included on a one-sided account.
THEOREM GroupsSumToAccountAlways ==
    Spec => []GroupsSumToAccount
<1>1. NettingInv => GroupsSumToAccount
  <2> SUFFICES ASSUME NettingInv, \A g \in Group : Backed(members[g]), NEW s \in Sec
               PROVE  \/ ~OneSided(Trades(Attached, s)) /\ \E t \in Trades(Attached, s) : IsNontradeClose(t)
                      \/ NetOpenQuantity(Attached, s) = SumFunction([g \in Group |-> Nets[g][s]])
    BY DEF GroupsSumToAccount
  <2>1. members \in [Group -> SUBSET Txn] /\ Distinct
    BY DEF NettingInv, TypeOK
  <2>2. CASE OneSided(Trades(Attached, s))
    BY <2>1, <2>2, GroupsOneSided
  <2>3. CASE \A t \in Trades(Attached, s) : ~IsNontradeClose(t)
    BY <2>1, <2>3, GroupsUnsettled
  <2> QED
    BY <2>2, <2>3
<1> QED
  BY <1>1, NettingInvInductive, PTL


\* When a one-sided account is flat and two groups are all of it, what one left open
\* the other closed: find_orphan_settlement_groups and find_misattributed_open_groups
\* name it in covered_by, and merging the two closes both.
THEOREM StuckGroupIsPairedAlways ==
    Spec => []StuckGroupIsPaired
<1>1. NettingInv => StuckGroupIsPaired
  BY StuckIsPaired DEF StuckGroupIsPaired
<1> QED
  BY <1>1, NettingInvInductive, PTL
-----------------------------------------------------------------------------
(* A rebuild that reads further.                                           *)

\* A step of the rebuild keeps the lifecycles completed, and charges the row that closes one.
LEMMA ReplayRowKeeps ==
    ASSUME NEW book \in HistoryType, NEW t \in Txn
    PROVE  /\ ReplayRow(book, t) \in HistoryType
           /\ book.closed \subseteq ReplayRow(book, t).closed
           /\ \A lot \in ReplayRow(book, t).closed :
                lot \in book.closed \/ lot.until \in lot.fees
<1> DEFINE delta == EffectiveDelta(book.lot.net, book.had, t)
           done  == Reduced(book.lot, delta, t)
           after == ReplayRow(book, t)
           ended == [done EXCEPT !.until = t]
<1>1. /\ delta \in Int /\ after \in HistoryType
      /\ after.closed = book.closed \/ after.closed = book.closed \cup {ended}
  BY ReplayRowCases
<1>2. ended.until \in ended.fees
  <2>1. book.lot \in LotType
    BY DEF HistoryType
  <2>2. done = [book.lot EXCEPT !.net = TowardZero(book.lot.net, Abs(delta)),
                                !.realised = book.lot.realised + Lower(Abs(delta), Abs(book.lot.net)),
                                !.fees = book.lot.fees \cup {t}]
    BY <2>1 DEF Reduced, LotType
  <2> HIDE DEF delta, done
  <2>3. ended.until = t /\ ended.fees = book.lot.fees \cup {t}
    BY <2>1, <2>2 DEF LotType
  <2> QED
    BY <2>3
<1> HIDE DEF after, ended
<1>3. /\ after \in HistoryType /\ book.closed \subseteq after.closed
      /\ \A lot \in after.closed : lot \in book.closed \/ lot.until \in lot.fees
  BY <1>1, <1>2
<1> QED
  BY <1>3 DEF after

\* T reads further than S: what it adds comes after everything S has read.
ReadsFurther(S, T) ==
    /\ S \subseteq T
    /\ \A s \in S, t \in T \ S : ReplayedBefore(s, t)

\* The lifecycles completed by what was read first are completed by what is read then, and
\* rows of other securities change nothing.
LEMMA CompletedStay ==
    ASSUME NEW T \in SUBSET Txn, NEW S \in SUBSET T, ReadsFurther(S, T), NEW c \in Sec
    PROVE  /\ ReplaySecurity(S, c).closed \subseteq ReplaySecurity(T, c).closed
           /\ (\A t \in T \ S : Row[t].sec # c) => ReplaySecurity(T, c) = ReplaySecurity(S, c)
<1> DEFINE N == Len(Row)
           News(i) == \E k \in 1 .. i : Replayed[k] \in T \ S /\ Row[Replayed[k]].sec = c
<1>1. N \in Nat /\ Txn = 1 .. N
  BY RowTypes
<1>2. PICK v \in [0 .. N -> HistoryType] :
            /\ v[0] = NoHistory
            /\ \A i \in Txn :
                v[i] = IF Visits(S, c, i) THEN ReplayRow(v[i - 1], Replayed[i]) ELSE v[i - 1]
            /\ ReplaySecurity(S, c) = v[N]
  BY RebuildWalk
<1>3. PICK w \in [0 .. N -> HistoryType] :
            /\ w[0] = NoHistory
            /\ \A i \in Txn :
                w[i] = IF Visits(T, c, i) THEN ReplayRow(w[i - 1], Replayed[i]) ELSE w[i - 1]
            /\ ReplaySecurity(T, c) = w[N]
  BY RebuildWalk
<1> DEFINE E == {i \in 0 .. N : v[i].closed \subseteq w[i].closed /\ (News(i) \/ v[i] = w[i])}
<1>4. 0 \in E
  BY <1>1, <1>2, <1>3
<1>5. ASSUME NEW i \in 0 .. N, i # 0, i - 1 \in E
      PROVE  i \in E
  <2>1. i \in Txn /\ Replayed[i] \in Txn /\ w[i - 1] \in HistoryType
    BY <1>1, <1>3, <1>5, ReplayVisits
  <2>2. v[i - 1].closed \subseteq w[i - 1].closed /\ (News(i - 1) \/ v[i - 1] = w[i - 1])
    BY <1>5
  <2>3. News(i - 1) => News(i)
    BY <2>1, <1>1
  <2>4. CASE Visits(S, c, i)
    <3>1. ~News(i - 1)
      <4> SUFFICES ASSUME NEW k \in 1 .. (i - 1), Replayed[k] \in T \ S
                   PROVE  FALSE
        OBVIOUS
      <4>1. k \in Txn /\ k < i
        BY <1>1, <2>1
      <4>2. ReplayedBefore(Replayed[k], Replayed[i])
        BY <2>1, <4>1, ReplayVisits
      <4>3. ReplayedBefore(Replayed[i], Replayed[k])
        BY <2>4 DEF Visits, ReadsFurther
      <4> QED
        BY <2>1, <4>1, <4>2, <4>3, ReplayVisits, ReplayOrder
    <3>2. v[i] = w[i]
      BY <1>2, <1>3, <2>1, <2>2, <2>4, <3>1 DEF Visits
    <3> QED
      BY <3>2
  <2>5. CASE ~Visits(S, c, i) /\ Visits(T, c, i)
    <3>1. v[i] = v[i - 1] /\ w[i] = ReplayRow(w[i - 1], Replayed[i])
      BY <1>2, <1>3, <2>1, <2>5
    <3>2. w[i - 1].closed \subseteq w[i].closed
      BY <2>1, <3>1, ReplayRowKeeps
    <3>3. News(i)
      BY <2>1, <2>5, <1>1 DEF Visits
    <3> QED
      BY <2>2, <3>1, <3>2, <3>3
  <2>6. CASE ~Visits(S, c, i) /\ ~Visits(T, c, i)
    <3>1. v[i] = v[i - 1] /\ w[i] = w[i - 1]
      BY <1>2, <1>3, <2>1, <2>6
    <3> QED
      BY <2>2, <2>3, <3>1
  <2> QED
    BY <2>4, <2>5, <2>6 DEF Visits
<1> HIDE DEF E
<1>6. \A i \in 0 .. N : i \in E
  BY <1>1, <1>4, <1>5, UpTo
<1>7. N \in E
  BY <1>1, <1>6
<1>8. v[N].closed \subseteq w[N].closed /\ (News(N) \/ v[N] = w[N])
  BY <1>7 DEF E
<1>9. (\A t \in T \ S : Row[t].sec # c) => ~News(N)
  OBVIOUS
<1> QED
  BY <1>2, <1>3, <1>8, <1>9

\* Every lifecycle charges the row that closed it.
LEMMA CloserCharged ==
    ASSUME NEW S \in SUBSET Txn, NEW c \in Sec
    PROVE  \A lot \in ReplaySecurity(S, c).closed : lot.until \in lot.fees
<1> DEFINE N == Len(Row)
<1>1. N \in Nat /\ Txn = 1 .. N
  BY RowTypes
<1>2. PICK w \in [0 .. N -> HistoryType] :
            /\ w[0] = NoHistory
            /\ \A i \in Txn :
                w[i] = IF Visits(S, c, i) THEN ReplayRow(w[i - 1], Replayed[i]) ELSE w[i - 1]
            /\ ReplaySecurity(S, c) = w[N]
  BY RebuildWalk
<1> DEFINE E == {i \in 0 .. N : \A lot \in w[i].closed : lot.until \in lot.fees}
<1>3. 0 \in E
  BY <1>1, <1>2 DEF NoHistory
<1>4. ASSUME NEW i \in 0 .. N, i # 0, i - 1 \in E
      PROVE  i \in E
  <2>1. i \in Txn /\ Replayed[i] \in Txn /\ w[i - 1] \in HistoryType
    <3>1. i \in Txn /\ i - 1 \in 0 .. N
      BY <1>1, <1>4
    <3> QED
      BY <1>2, <3>1, ReplayVisits
  <2>2. w[i] = w[i - 1] \/ w[i] = ReplayRow(w[i - 1], Replayed[i])
    BY <1>2, <2>1
  <2> QED
    BY <1>4, <2>1, <2>2, ReplayRowKeeps
<1> HIDE DEF E
<1>5. \A i \in 0 .. N : i \in E
  BY <1>1, <1>3, <1>4, UpTo
<1>6. N \in E
  BY <1>1, <1>5
<1> QED
  BY <1>2, <1>6 DEF E

\* The lifecycles of one replay are told apart by the rows that closed them.
LEMMA ClosersApart ==
    ASSUME NEW S \in SUBSET Txn, NEW c \in Sec
    PROVE  LET closed == ReplaySecurity(S, c).closed
           IN  /\ IsFiniteSet(closed)
               /\ \A lot \in closed : lot.until \in Txn
               /\ \A k, l \in closed : k.until = l.until => k = l
<1> DEFINE book == ReplaySecurity(S, c)
<1>1. LotsApart(book, S)
  BY RebuildOnce
<1>2. \A lot \in book.closed : lot.until \in lot.fees
  BY CloserCharged
<1> HIDE DEF book
<1>3. \A k, l \in book.closed : k # l => k.fees \cap l.fees = {}
  BY <1>1 DEF LotsApart, LotsOf
<1>4. IsFiniteSet(book.closed) /\ \A lot \in book.closed : lot.until \in Txn
  BY <1>1 DEF LotsApart
<1> QED
  BY <1>2, <1>3, <1>4 DEF book

\* The lifecycles of a replay that are not closed after one of them.
UpToLot(S, lot) ==
    {l \in ReplaySecurity(S, Contract).closed : ~ReplayedBefore(lot.until, l.until)}

\* They are ranked by it, from the first to the last.
LEMMA LotsRanked ==
    ASSUME NEW S \in SUBSET Txn
    PROVE  LET closed == ReplaySecurity(S, Contract).closed
           IN  /\ Cardinality(closed) \in Nat
               /\ \A lot \in closed : Cardinality(UpToLot(S, lot)) \in 1 .. Cardinality(closed)
               /\ \A k, l \in closed : Cardinality(UpToLot(S, k)) = Cardinality(UpToLot(S, l)) => k = l
               /\ \A i \in 1 .. Cardinality(closed) :
                    \E lot \in closed : Cardinality(UpToLot(S, lot)) = i
<1> DEFINE closed == ReplaySecurity(S, Contract).closed
           n      == Cardinality(closed)
           rank   == [lot \in closed |-> Cardinality(UpToLot(S, lot))]
<1>1. /\ IsFiniteSet(closed)
      /\ \A lot \in closed : lot.until \in Txn
      /\ \A k, l \in closed : k.until = l.until => k = l
  BY RebuildAssumption, ClosersApart
<1>2. \A lot \in closed : UpToLot(S, lot) \in SUBSET closed
  BY DEF UpToLot
<1>3. \A lot, l \in closed : l \in UpToLot(S, lot) <=> ~ReplayedBefore(lot.until, l.until)
  BY DEF UpToLot
<1>4. \A lot \in closed : rank[lot] = Cardinality(UpToLot(S, lot))
  OBVIOUS
<1> HIDE DEF closed
<1>5. ASSUME NEW A \in SUBSET closed
      PROVE  IsFiniteSet(A) /\ Cardinality(A) \in Nat /\ Cardinality(A) <= n
  BY <1>1, FS_Subset, FS_CardinalityType
<1>6. n \in Nat
  BY <1>1, FS_CardinalityType
<1> HIDE DEF rank, n
<1>7. ASSUME NEW lot \in closed
      PROVE  rank[lot] \in 1 .. n
  <2>1. lot \in UpToLot(S, lot)
    BY <1>1, <1>3, ReplayOrder
  <2>2. Cardinality(UpToLot(S, lot)) # 0
    BY <1>2, <1>5, <2>1, FS_EmptySet
  <2>3. Cardinality(UpToLot(S, lot)) \in Nat /\ Cardinality(UpToLot(S, lot)) <= n
    BY <1>2, <1>5
  <2> QED
    BY <1>4, <1>6, <2>2, <2>3
<1>8. ASSUME NEW k \in closed, NEW l \in closed, ReplayedBefore(k.until, l.until)
      PROVE  rank[k] < rank[l]
  <2>1. UpToLot(S, k) \in SUBSET UpToLot(S, l)
    <3> SUFFICES ASSUME NEW m \in UpToLot(S, k)
                 PROVE  m \in UpToLot(S, l)
      OBVIOUS
    <3>1. m \in closed /\ ~ReplayedBefore(k.until, m.until)
      BY <1>2, <1>3
    <3>2. ~ReplayedBefore(l.until, m.until)
      BY <1>1, <1>8, <3>1, ReplayOrder
    <3> QED
      BY <1>3, <3>1, <3>2
  <2>2. l \in UpToLot(S, l) /\ l \notin UpToLot(S, k)
    BY <1>1, <1>3, <1>8, ReplayOrder
  <2>3. IsFiniteSet(UpToLot(S, l))
    BY <1>2, <1>5
  <2>4. /\ Cardinality(UpToLot(S, k)) <= Cardinality(UpToLot(S, l))
        /\ Cardinality(UpToLot(S, k)) # Cardinality(UpToLot(S, l))
    BY <2>1, <2>2, <2>3, FS_Subset
  <2>5. Cardinality(UpToLot(S, k)) \in Nat /\ Cardinality(UpToLot(S, l)) \in Nat
    BY <1>2, <1>5
  <2> QED
    BY <1>4, <2>4, <2>5
<1>9. \A k, l \in closed : rank[k] = rank[l] => k = l
  <2> SUFFICES ASSUME NEW k \in closed, NEW l \in closed, rank[k] = rank[l], k # l
               PROVE  FALSE
    OBVIOUS
  <2>1. k.until \in Txn /\ l.until \in Txn /\ k.until # l.until
    BY <1>1
  <2>2. ReplayedBefore(k.until, l.until) \/ ReplayedBefore(l.until, k.until)
    BY <2>1, ReplayOrder
  <2>3. rank[k] < rank[l] \/ rank[l] < rank[k]
    BY <1>8, <2>2
  <2>4. rank[k] \in Int /\ rank[l] \in Int
    BY <1>6, <1>7
  <2> QED
    BY <2>3, <2>4
<1>10. \A i \in 1 .. n : \E lot \in closed : rank[lot] = i
  <2>1. rank \in Injection(closed, 1 .. n)
    <3>1. rank \in [closed -> 1 .. n]
      BY <1>7 DEF rank
    <3> QED
      BY <1>9, <3>1 DEF Injection, IsInjective
  <2>2. IsFiniteSet(1 .. n) /\ Cardinality(1 .. n) = n
    <3>1. IsFiniteSet(1 .. n) /\ Cardinality(1 .. n) = IF 1 > n THEN 0 ELSE n - 1 + 1
      BY <1>6, FS_Interval
    <3> QED
      BY <1>6, <3>1
  <2>3. rank \in Surjection(closed, 1 .. n)
    BY <1>1, <2>1, <2>2, FS_Injection DEF n
  <2> QED
    BY <2>3 DEF Surjection
<1> QED
  BY <1>4, <1>6, <1>7, <1>9, <1>10 DEF closed, n

\* The plan of a rebuild is made of the lifecycles completed, each once in its place, and
\* of the lapse when there is one.
LEMMA PlanIs ==
    ASSUME NEW S \in SUBSET Txn
    PROVE  LET book == ReplaySecurity(S, Contract)
               plan == Rebuilt(S).plan
           IN  /\ \A i \in DOMAIN plan :
                    \/ \E lot \in book.closed : plan[i] = Lifecycle(lot)
                    \/ Lapses(book.lot, S) /\ plan[i] = Lapsed(book.lot)
               /\ \A lot \in book.closed : \E i \in DOMAIN plan : plan[i] = Lifecycle(lot)
               /\ Lapses(book.lot, S) => \E i \in DOMAIN plan : plan[i] = Lapsed(book.lot)
<1> DEFINE book == ReplaySecurity(S, Contract)
           n    == Cardinality(book.closed)
           at(i) == CHOOSE lot \in book.closed : Cardinality(UpToLot(S, lot)) = i
           completed == [i \in 1 .. n |-> Lifecycle(at(i))]
           plan == Rebuilt(S).plan
           Pieces == {completed[i] : i \in 1 .. n} \cup {Lapsed(book.lot)}
<1>1. plan = IF Lapses(book.lot, S) THEN Append(completed, Lapsed(book.lot)) ELSE completed
  BY DEF Rebuilt, UpToLot
<1>2. /\ n \in Nat
      /\ \A lot \in book.closed : Cardinality(UpToLot(S, lot)) \in 1 .. n
      /\ \A k, l \in book.closed : Cardinality(UpToLot(S, k)) = Cardinality(UpToLot(S, l)) => k = l
      /\ \A i \in 1 .. n : \E lot \in book.closed : Cardinality(UpToLot(S, lot)) = i
  BY LotsRanked
<1> HIDE DEF book, n
<1>3. \A i \in 1 .. n : at(i) \in book.closed /\ Cardinality(UpToLot(S, at(i))) = i
  BY <1>2
<1>4. \A lot \in book.closed : at(Cardinality(UpToLot(S, lot))) = lot
  BY <1>2, <1>3
<1>5. \A i \in 1 .. n : completed[i] = Lifecycle(at(i))
  OBVIOUS
<1>6. completed \in Seq(Pieces) /\ Len(completed) = n /\ DOMAIN completed = 1 .. n
  <2>1. completed \in [1 .. n -> Pieces]
    OBVIOUS
  <2> HIDE DEF completed, Pieces
  <2> QED
    BY <1>2, <2>1
<1> HIDE DEF at, completed, Pieces
<1>7. \A i \in 1 .. n : \E lot \in book.closed : completed[i] = Lifecycle(lot)
  BY <1>3, <1>5
<1>8. \A lot \in book.closed : \E i \in 1 .. n : completed[i] = Lifecycle(lot)
  BY <1>2, <1>4, <1>5
<1> HIDE DEF plan
<1>9. CASE ~Lapses(book.lot, S)
  <2>1. plan = completed
    BY <1>1, <1>9
  <2> QED
    BY <1>6, <1>7, <1>8, <1>9, <2>1 DEF plan, book
<1>10. CASE Lapses(book.lot, S)
  <2>1. plan = Append(completed, Lapsed(book.lot))
    BY <1>1, <1>10
  <2>2. Lapsed(book.lot) \in Pieces
    BY DEF Pieces
  <2> DEFINE last == Lapsed(book.lot)
  <2> HIDE DEF last
  <2>3. /\ DOMAIN plan = 1 .. n + 1
        /\ \A i \in 1 .. n : plan[i] = completed[i]
        /\ plan[n + 1] = last
    BY <1>2, <1>6, <2>1, <2>2 DEF last
  <2>4. \A i \in 1 .. n + 1 : i \in 1 .. n \/ i = n + 1
    BY <1>2
  <2>5. n + 1 \in 1 .. n + 1 /\ \A i \in 1 .. n : i \in 1 .. n + 1
    BY <1>2
  <2> QED
    BY <1>7, <1>8, <1>10, <2>3, <2>4, <2>5 DEF plan, book, last
<1> QED
  BY <1>9, <1>10

(* What a rebuild has written of completed lifecycles, a lapse included,    *)
(* stays true when a later rebuild has read further rows, as long as the    *)
(* contract has no activity left when its lapse is due                      *)
(* (rebuild_positions_from_transactions).                                   *)
THEOREM RebuildGrows ==
    ASSUME ContractOver, NEW T \in SUBSET Txn, NEW S \in SUBSET T, ReadsFurther(S, T)
    PROVE  \A i \in DOMAIN Rebuilt(S).plan :
                \E j \in DOMAIN Rebuilt(T).plan : Rebuilt(T).plan[j] = Rebuilt(S).plan[i]
<1> DEFINE before == ReplaySecurity(S, Contract)
           after  == ReplaySecurity(T, Contract)
<1>1. /\ before.closed \subseteq after.closed
      /\ (\A t \in T \ S : Row[t].sec # Contract) => after = before
  BY RebuildAssumption, CompletedStay
<1> SUFFICES ASSUME NEW i \in DOMAIN Rebuilt(S).plan
             PROVE  \E j \in DOMAIN Rebuilt(T).plan : Rebuilt(T).plan[j] = Rebuilt(S).plan[i]
  OBVIOUS
<1>2. \/ \E lot \in before.closed : Rebuilt(S).plan[i] = Lifecycle(lot)
      \/ Lapses(before.lot, S) /\ Rebuilt(S).plan[i] = Lapsed(before.lot)
  BY PlanIs
<1>3. /\ \A lot \in after.closed : \E j \in DOMAIN Rebuilt(T).plan : Rebuilt(T).plan[j] = Lifecycle(lot)
      /\ Lapses(after.lot, T) => \E j \in DOMAIN Rebuilt(T).plan : Rebuilt(T).plan[j] = Lapsed(after.lot)
  BY PlanIs
<1> HIDE DEF before, after
<1>4. CASE \E lot \in before.closed : Rebuilt(S).plan[i] = Lifecycle(lot)
  BY <1>1, <1>3, <1>4
<1>5. CASE Lapses(before.lot, S) /\ Rebuilt(S).plan[i] = Lapsed(before.lot)
  <2>1. PICK s \in S : Row[s].at >= LapseDue
    BY <1>5 DEF Lapses
  <2>2. \A t \in T \ S : Row[t].sec # Contract
    <3> SUFFICES ASSUME NEW t \in T \ S, Row[t].sec = Contract
                 PROVE  FALSE
      OBVIOUS
    <3>1. /\ s \in Txn /\ t \in Txn /\ Row[s].at \in Nat /\ Row[t].at \in Nat
          /\ LapseDue \in Nat
      BY RowTypes, RebuildAssumption
    <3>2. Row[s].at <= Row[t].at
      BY <3>1 DEF ReadsFurther, ReplayedBefore
    <3>3. Row[t].at < LapseDue
      BY <3>1 DEF ContractOver
    <3> QED
      BY <2>1, <3>1, <3>2, <3>3
  <2>3. after = before
    BY <1>1, <2>2
  <2>4. Lapses(after.lot, T)
    BY <1>5, <2>3 DEF Lapses
  <2> QED
    BY <1>3, <1>5, <2>3, <2>4
<1> QED
  BY <1>2, <1>4, <1>5
=============================================================================
