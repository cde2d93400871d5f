----------------------------- MODULE BookProofs -----------------------------
(***************************************************************************)
(* Walks up the list of an account's rows: that each walk GroupBook (and   *)
(* every module above it) writes as a recursive function is the walk it    *)
(* looks like, what holds along it, and what the net walk of a set of rows *)
(* depends on.                                                             *)
(***************************************************************************)
EXTENDS GroupBook, FiniteSetTheorems, WellFoundedInduction, TLAPS

-----------------------------------------------------------------------------
(* Rows, and first and last ones.                                          *)

\* What a row is, and how far it moves a net.
LEMMA RowTypes ==
    /\ Len(Row) \in Nat
    /\ Txn = 1 .. Len(Row)
    /\ IsFiniteSet(Txn)
    /\ \A t \in Txn :
        /\ Row[t] \in RowType
        /\ Row[t].at \in Nat
        /\ Row[t].sec \in Sec
        /\ Row[t].qty \in Nat \ {0}
        /\ ActionDelta(t) \in Int
        /\ ActionDelta(t) = Row[t].qty \/ ActionDelta(t) = -Row[t].qty
<1>1. Len(Row) \in Nat /\ Txn = 1 .. Len(Row) /\ \A t \in Txn : Row[t] \in RowType
  BY RowAssumption DEF Txn
<1>2. IsFiniteSet(1 .. Len(Row))
  BY <1>1, FS_Interval
<1>3. ASSUME NEW t \in Txn
      PROVE  Row[t].at \in Nat /\ Row[t].sec \in Sec /\ Row[t].qty \in Nat \ {0}
  BY <1>1 DEF RowType
<1> QED
  BY <1>1, <1>2, <1>3 DEF ActionDelta

\* A non-empty set of numbers has a smallest one.
LEMMA FirstOfNats ==
    ASSUME NEW S \in SUBSET Nat, S # {}
    PROVE  First(S) \in S /\ \A u \in S : First(S) <= u
<1> DEFINE Less == {ss \in Nat \X Nat : ss[1] < ss[2]}
<1>1. IsWellFoundedOn(Less, Nat)
  BY NatLessThanWellFounded DEF OpToRel
<1> HIDE DEF Less
<1>2. PICK t \in S : \A u \in S : <<u, t>> \notin Less
  BY <1>1, WFMin
<1>3. ASSUME NEW u \in S
      PROVE  t <= u
  <2>1. t \in Nat /\ u \in Nat
    OBVIOUS
  <2>2. u < t => <<u, t>> \in Less
    BY <2>1 DEF Less
  <2> QED
    BY <1>2, <2>1, <2>2
<1> QED
  BY <1>3 DEF First

\* A non-empty set of rows has an earliest one.
LEMMA FirstInSet ==
    ASSUME NEW S \in SUBSET Txn, S # {}
    PROVE  First(S) \in S /\ \A u \in S : First(S) <= u
<1>1. Txn \subseteq Nat
  BY RowTypes
<1> QED
  BY <1>1, FirstOfNats

\* The key of a job or an event is a number.
LEMMA FirstIsNat ==
    ASSUME NEW S \in SUBSET Txn, S # {}
    PROVE  First(S) \in Nat
<1>1. Txn \subseteq Nat
  BY RowTypes
<1> QED
  BY <1>1, FirstInSet

\* A non-empty set of rows has a latest one.
LEMMA LastInSet ==
    ASSUME NEW S \in SUBSET Txn, S # {}
    PROVE  Last(S) \in S /\ \A u \in S : u <= Last(S)
<1> DEFINE Back == {Len(Row) - t : t \in S}
<1>1. Len(Row) \in Nat /\ Txn = 1 .. Len(Row)
  BY RowTypes
<1>2. Back \in SUBSET Nat /\ Back # {}
  <2>1. \A t \in S : t \in 1 .. Len(Row)
    BY <1>1
  <2>2. \A t \in S : Len(Row) - t \in Nat
    BY <1>1, <2>1
  <2> QED
    BY <2>2
<1> HIDE DEF Back
<1>3. First(Back) \in Back /\ \A u \in Back : First(Back) <= u
  BY <1>2, FirstOfNats
<1>4. PICK t \in S : First(Back) = Len(Row) - t
  BY <1>3 DEF Back
<1>5. \A u \in S : u <= t
  <2> SUFFICES ASSUME NEW u \in S
               PROVE  u <= t
    OBVIOUS
  <2>1. Len(Row) - u \in Back
    BY DEF Back
  <2>2. u \in 1 .. Len(Row) /\ t \in 1 .. Len(Row)
    BY <1>1
  <2> QED
    BY <1>1, <1>3, <1>4, <2>1, <2>2
<1> QED
  BY <1>5 DEF Last

\* Induction up to a bound, over a set of numbers.
LEMMA UpTo ==
    ASSUME NEW N \in Nat, NEW S, 0 \in S,
           \A n \in 0 .. N : n # 0 /\ n - 1 \in S => n \in S
    PROVE  \A n \in 0 .. N : n \in S
<1> DEFINE Bad == {n \in 0 .. N : n \notin S}
<1> SUFFICES ASSUME Bad # {}
             PROVE  FALSE
  OBVIOUS
<1>1. Bad \in SUBSET Nat
  OBVIOUS
<1> HIDE DEF Bad
<1>2. First(Bad) \in Bad /\ \A n \in Bad : First(Bad) <= n
  BY <1>1, FirstOfNats
<1>3. PICK m \in Nat : m \in Bad /\ \A n \in Bad : m <= n
  BY <1>1, <1>2
<1>4. m \in 0 .. N /\ m # 0 /\ m - 1 \notin S
  BY <1>3 DEF Bad
<1>5. m - 1 \in Bad
  BY <1>4 DEF Bad
<1> QED
  BY <1>3, <1>5

-----------------------------------------------------------------------------
(* Walks.                                                                  *)

\* The walks of N steps through B, and steps that stay within it.
Walks(N, B, start, step) ==
    {w \in [0 .. N -> B] :
        /\ w[0] = start
        /\ \A i \in 1 .. N : w[i] = step[i][w[i - 1]]}

StaysIn(N, B, step) == \A i \in 1 .. N : \A b \in B : step[i][b] \in B

\* There is always such a walk.
LEMMA WalkExists ==
    ASSUME NEW N \in Nat, NEW B, NEW start \in B, NEW step, StaysIn(N, B, step)
    PROVE  \E w : w \in Walks(N, B, start, step)
<1> DEFINE W(n) == Walks(n, B, start, step)
           S == {n \in 0 .. N : W(n) # {}}
<1>1. 0 \in S
  <2>1. [i \in 0 .. 0 |-> start] \in W(0)
    BY DEF Walks
  <2> QED
    BY <2>1
<1>2. ASSUME NEW n \in 0 .. N, n # 0, n - 1 \in S
      PROVE  n \in S
  <2>1. PICK w : w \in W(n - 1)
    BY <1>2
  <2>2. n \in 1 .. N /\ w \in [0 .. n - 1 -> B] /\ w[0] = start
    BY <1>2, <2>1 DEF Walks
  <2> DEFINE next == step[n][w[n - 1]]
             v == [i \in 0 .. n |-> IF i < n THEN w[i] ELSE next]
  <2>3. next \in B
    BY <2>2 DEF StaysIn
  <2>4. v \in [0 .. n -> B] /\ v[0] = start
    BY <2>2, <2>3
  <2>5. ASSUME NEW i \in 1 .. n
        PROVE  v[i] = step[i][v[i - 1]]
    <3>1. v[i - 1] = w[i - 1]
      BY <2>2, <2>5
    <3>2. CASE i = n
      BY <2>2, <3>1, <3>2
    <3>3. CASE i # n
      <4>1. i \in 1 .. n - 1 /\ v[i] = w[i]
        BY <2>2, <3>3
      <4> QED
        BY <2>1, <3>1, <4>1 DEF Walks
    <3> QED
      BY <3>2, <3>3
  <2>6. v \in W(n)
    BY <2>4, <2>5 DEF Walks
  <2> QED
    BY <2>6
<1> HIDE DEF S
<1>3. \A n \in 0 .. N : n \in S
  BY <1>1, <1>2, UpTo
<1>4. N \in S
  BY <1>3
<1> QED
  BY <1>4 DEF S

BookType == [net : [Sec -> Int], moved : SUBSET Sec]

\* A net stays a number.
LEMMA NetAfterType ==
    ASSUME NEW n \in Int, NEW t \in Txn
    PROVE  NetAfter(n, t) \in Int
BY RowTypes DEF NetAfter, TowardZero, Lower

LEMMA WalkStepType ==
    ASSUME NEW b \in BookType, NEW t \in Txn
    PROVE  WalkStep(b, t) \in BookType
<1>1. Row[t].sec \in Sec /\ b.net \in [Sec -> Int] /\ b.moved \in SUBSET Sec
  BY RowTypes DEF BookType
<1>2. NetAfter(b.net[Row[t].sec], t) \in Int
  BY <1>1, NetAfterType
<1> HIDE DEF NetAfter, Moves
<1>3. /\ [b.net EXCEPT ![Row[t].sec] = NetAfter(b.net[Row[t].sec], t)] \in [Sec -> Int]
      /\ b.moved \cup {Row[t].sec} \in SUBSET Sec
  BY <1>1, <1>2
<1> QED
  BY <1>3 DEF WalkStep, BookType

\* The book of a set of rows is where the walk up the list ends.
LEMMA BookWalk ==
    ASSUME NEW S
    PROVE  \E w \in [0 .. Len(Row) -> BookType] :
                /\ w[0] = FlatBook
                /\ \A i \in 1 .. Len(Row) :
                        w[i] = IF i \in S THEN WalkStep(w[i - 1], i) ELSE w[i - 1]
                /\ Book(S) = w[Len(Row)]
<1> DEFINE N == Len(Row)
           Step(b, i) == IF i \in S THEN WalkStep(b, i) ELSE b
           IsWalk(f) == f = [i \in 0 .. N |-> IF i = 0 THEN FlatBook ELSE Step(f[i - 1], i)]
           w == CHOOSE f : IsWalk(f)
<1>1. Book(S) = w[N]
  BY DEF Book
<1>2. N \in Nat
  BY RowTypes
<1>9. FlatBook \in BookType
  BY RowTypes DEF FlatBook, BookType
<1>3. \A b \in BookType, i \in 1 .. N : Step(b, i) \in BookType
  BY WalkStepType, RowTypes
<1> HIDE DEF Step, N
<1>4. PICK v \in [0 .. N -> BookType] :
            /\ v[0] = FlatBook
            /\ \A i \in 1 .. N : v[i] = Step(v[i - 1], i)
  <2> DEFINE step == [i \in 1 .. N |-> [b \in BookType |-> Step(b, i)]]
  <2>1. \A i \in 1 .. N, b \in BookType : step[i][b] = Step(b, i)
    OBVIOUS
  <2>2. StaysIn(N, BookType, step)
    BY <1>3, <2>1 DEF StaysIn
  <2> HIDE DEF step
  <2>3. PICK v : v \in Walks(N, BookType, FlatBook, step)
    BY <1>2, <1>9, <2>2, WalkExists
  <2>4. v \in [0 .. N -> BookType] /\ \A i \in 1 .. N : v[i - 1] \in BookType
    BY <1>2, <2>3 DEF Walks
  <2> QED
    BY <2>1, <2>3, <2>4 DEF Walks
<1>5. IsWalk(v)
  <2>1. \A i \in 0 .. N : v[i] = IF i = 0 THEN FlatBook ELSE Step(v[i - 1], i)
    BY <1>2, <1>4
  <2> QED
    BY <2>1
<1>6. IsWalk(w)
  BY <1>5
<1> HIDE DEF w
<1>7. /\ w[0] = FlatBook
      /\ \A i \in 1 .. N : w[i] = Step(w[i - 1], i)
  BY <1>2, <1>6
<1>8. w[N] = v[N]
  <2> DEFINE E == {n \in 0 .. N : w[n] = v[n]}
  <2>1. 0 \in E
    BY <1>2, <1>4, <1>7
  <2>2. ASSUME NEW n \in 0 .. N, n # 0, n - 1 \in E
        PROVE  n \in E
    BY <1>2, <1>4, <1>7, <2>2
  <2> HIDE DEF E
  <2>3. N \in E
    BY <1>2, <2>1, <2>2, UpTo
  <2> QED
    BY <2>3 DEF E
<1> QED
  BY <1>1, <1>4, <1>8 DEF Step, N

\* No rows, no book.
LEMMA BookOfNone == Book({}) = FlatBook
<1>1. PICK w : /\ w[0] = FlatBook
               /\ \A i \in 1 .. Len(Row) : w[i] = IF i \in {} THEN WalkStep(w[i - 1], i) ELSE w[i - 1]
               /\ Book({}) = w[Len(Row)]
  BY BookWalk
<1> DEFINE N == Len(Row)
           S == {n \in 0 .. N : w[n] = FlatBook}
<1>2. N \in Nat
  BY RowTypes
<1>3. \A n \in 0 .. N : n \in S
  <2>1. 0 \in S
    BY <1>1, <1>2
  <2>2. ASSUME NEW n \in 0 .. N, n # 0, n - 1 \in S
        PROVE  n \in S
    BY <1>1, <1>2, <2>2
  <2> HIDE DEF S, N
  <2> QED
    BY <1>2, <2>1, <2>2, UpTo
<1>4. w[N] = FlatBook
  BY <1>2, <1>3
<1> QED
  BY <1>1, <1>4

\* A book is extended by its latest row.
LEMMA BookExtend ==
    ASSUME NEW S, NEW t \in Txn, \A u \in S : u \in Txn /\ u < t
    PROVE  Book(S \cup {t}) = WalkStep(Book(S), t)
<1> DEFINE N == Len(Row)
           T == S \cup {t}
<1>0. N \in Nat /\ t \in 1 .. N /\ \A u \in S : u \in 1 .. N /\ u < t
  BY RowTypes
<1>1. PICK w : /\ w[0] = FlatBook
               /\ \A i \in 1 .. N : w[i] = IF i \in S THEN WalkStep(w[i - 1], i) ELSE w[i - 1]
               /\ Book(S) = w[N]
  BY BookWalk
<1>2. PICK v : /\ v[0] = FlatBook
               /\ \A i \in 1 .. N : v[i] = IF i \in T THEN WalkStep(v[i - 1], i) ELSE v[i - 1]
               /\ Book(T) = v[N]
  BY BookWalk
<1> DEFINE A == {n \in 0 .. N : IF n < t THEN v[n] = w[n] ELSE v[n] = WalkStep(w[n], t)}
<1>3. 0 \in A
  BY <1>0, <1>1, <1>2
<1>4. ASSUME NEW n \in 0 .. N, n # 0, n - 1 \in A
      PROVE  n \in A
  <2>1. n \in 1 .. N /\ n - 1 \in 0 .. N
    BY <1>0, <1>4
  <2>2. CASE n < t
    <3>1. v[n - 1] = w[n - 1] /\ (n \in T <=> n \in S)
      BY <1>0, <1>4, <2>1, <2>2
    <3> QED
      BY <1>1, <1>2, <2>1, <2>2, <3>1
  <2>3. CASE n = t
    <3>1. v[n - 1] = w[n - 1] /\ n \in T /\ n \notin S
      BY <1>0, <1>4, <2>1, <2>3
    <3> QED
      BY <1>0, <1>1, <1>2, <2>1, <2>3, <3>1
  <2>4. CASE n > t
    <3>1. v[n - 1] = WalkStep(w[n - 1], t) /\ n \notin T /\ n \notin S
      BY <1>0, <1>4, <2>1, <2>4
    <3> QED
      BY <1>0, <1>1, <1>2, <2>1, <2>4, <3>1
  <2> QED
    BY <1>0, <2>1, <2>2, <2>3, <2>4
<1> HIDE DEF A, N
<1>5. \A n \in 0 .. N : n \in A
  BY <1>0, <1>3, <1>4, UpTo
<1>6. v[N] = WalkStep(w[N], t)
  BY <1>0, <1>5 DEF A
<1> QED
  BY <1>1, <1>2, <1>6

LEMMA BookTyped ==
    ASSUME NEW S
    PROVE  Book(S) \in BookType /\ NetQuantities(S) \in [Sec -> Int]
<1>1. Book(S) \in BookType
  <2>1. PICK w \in [0 .. Len(Row) -> BookType] : Book(S) = w[Len(Row)]
    BY BookWalk
  <2> QED
    BY <2>1, RowTypes
<1> QED
  BY <1>1 DEF NetQuantities, BookType

\* What a row of a security makes of its net.
Stepped(n, t) == IF Moves(n, t) THEN NetAfter(n, t) ELSE n

LEMMA SteppedType ==
    ASSUME NEW n \in Int, NEW t \in Txn
    PROVE  Stepped(n, t) \in Int
BY NetAfterType DEF Stepped

\* The latest row moves the net of its own security, and no other.
LEMMA NetExtend ==
    ASSUME NEW S, NEW t \in Txn, \A u \in S : u \in Txn /\ u < t, NEW s \in Sec
    PROVE  NetQuantities(S \cup {t})[s] =
                IF Row[t].sec = s THEN Stepped(NetQuantities(S)[s], t) ELSE NetQuantities(S)[s]
<1> DEFINE b == Book(S)
           r == Row[t].sec
           n == NetAfter(b.net[r], t)
<1>1. Book(S \cup {t}) = WalkStep(b, t)
  BY BookExtend
<1>2. b.net \in [Sec -> Int] /\ r \in Sec
  BY BookTyped, RowTypes DEF BookType
<1>3. WalkStep(b, t).net = IF Moves(b.net[r], t) THEN [b.net EXCEPT ![r] = n] ELSE b.net
  BY DEF WalkStep
<1>4. [b.net EXCEPT ![r] = n][s] = IF s = r THEN n ELSE b.net[s]
  BY <1>2
<1> HIDE DEF b
<1> QED
  BY <1>1, <1>3, <1>4 DEF NetQuantities, Stepped, b

-----------------------------------------------------------------------------
(* The net as the walk finds it, row by row.                               *)

Prefix(S, i) == {t \in S : t <= i}

NetAt(S, s, i) == NetQuantities(Prefix(S, i))[s]

\* The net of a security starts at none and takes the steps of the rows of that security.
LEMMA NetWalk ==
    ASSUME NEW S \in SUBSET Txn, NEW s \in Sec
    PROVE  /\ NetAt(S, s, 0) = 0
           /\ NetAt(S, s, Len(Row)) = NetQuantities(S)[s]
           /\ \A i : NetAt(S, s, i) \in Int
           /\ \A i \in Txn : NetAt(S, s, i) =
                IF i \in S /\ Row[i].sec = s THEN Stepped(NetAt(S, s, i - 1), i)
                                             ELSE NetAt(S, s, i - 1)
<1>0. /\ Len(Row) \in Nat
      /\ \A t \in S : t \in Int /\ 0 < t /\ t <= Len(Row)
      /\ \A t \in Txn : t \in Int
  BY RowTypes
<1>1. NetAt(S, s, 0) = 0
  <2>1. Prefix(S, 0) = {}
    BY <1>0 DEF Prefix
  <2> QED
    BY <2>1, BookOfNone DEF NetAt, NetQuantities, FlatBook
<1>2. Prefix(S, Len(Row)) = S
  BY <1>0 DEF Prefix
<1>3. ASSUME NEW i
      PROVE  NetAt(S, s, i) \in Int
  BY BookTyped DEF NetAt
<1>4. ASSUME NEW i \in Txn
      PROVE  NetAt(S, s, i) =
                IF i \in S /\ Row[i].sec = s THEN Stepped(NetAt(S, s, i - 1), i)
                                             ELSE NetAt(S, s, i - 1)
  <2>1. CASE i \in S
    <3>1. /\ Prefix(S, i) = Prefix(S, i - 1) \cup {i}
          /\ \A u \in Prefix(S, i - 1) : u \in Txn /\ u < i
      BY <1>0, <2>1 DEF Prefix
    <3> QED
      BY <2>1, <3>1, NetExtend DEF NetAt
  <2>2. CASE i \notin S
    <3>1. Prefix(S, i) = Prefix(S, i - 1)
      BY <1>0, <2>2 DEF Prefix
    <3> QED
      BY <2>2, <3>1 DEF NetAt
  <2> QED
    BY <2>1, <2>2
<1> QED
  BY <1>1, <1>2, <1>3, <1>4 DEF NetAt

\* The net of a security depends on its own rows only.
LEMMA OwnRows ==
    ASSUME NEW A \in SUBSET Txn, NEW B \in SUBSET Txn, NEW s \in Sec,
           \A t \in Txn : Row[t].sec = s => (t \in A <=> t \in B)
    PROVE  NetQuantities(A)[s] = NetQuantities(B)[s]
<1> DEFINE N == Len(Row)
           a(i) == NetAt(A, s, i)
           b(i) == NetAt(B, s, i)
           E == {i \in 0 .. N : a(i) = b(i)}
<1>1. N \in Nat /\ Txn = 1 .. N
  BY RowTypes
<1>2. \A i \in Txn : (i \in A /\ Row[i].sec = s) <=> (i \in B /\ Row[i].sec = s)
  OBVIOUS
<1>3. /\ a(0) = 0 /\ a(N) = NetQuantities(A)[s]
      /\ \A i \in Txn : a(i) = IF i \in A /\ Row[i].sec = s THEN Stepped(a(i - 1), i) ELSE a(i - 1)
  BY NetWalk
<1>4. /\ b(0) = 0 /\ b(N) = NetQuantities(B)[s]
      /\ \A i \in Txn : b(i) = IF i \in B /\ Row[i].sec = s THEN Stepped(b(i - 1), i) ELSE b(i - 1)
  BY NetWalk
<1> HIDE DEF a, b
<1>5. 0 \in E
  BY <1>1, <1>3, <1>4
<1>6. ASSUME NEW i \in 0 .. N, i # 0, i - 1 \in E
      PROVE  i \in E
  <2>1. i \in Txn /\ a(i - 1) = b(i - 1)
    BY <1>1, <1>6
  <2> QED
    BY <1>2, <1>3, <1>4, <2>1
<1> HIDE DEF E, N
<1>7. \A i \in 0 .. N : i \in E
  BY <1>1, <1>5, <1>6, UpTo
<1>8. a(N) = b(N)
  BY <1>1, <1>7 DEF E
<1> QED
  BY <1>3, <1>4, <1>8
=============================================================================
