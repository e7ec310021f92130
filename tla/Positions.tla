------------------------------- MODULE Positions -------------------------------
(***************************************************************************)
(* What the models do with positions in a text: a search is the least      *)
(* position at which what is searched for is found, and brackets and       *)
(* commas are counted between two positions.                               *)
(***************************************************************************)
EXTENDS Integers, Sequences, FiniteSets, FiniteSetTheorems, WellFoundedInduction, TLAPS

-----------------------------------------------------------------------------
(* Searching.                                                              *)

(***************************************************************************)
(* A set of positions that is not empty has a least element.               *)
(***************************************************************************)
LEMMA LeastExists ==
  ASSUME NEW S \in SUBSET Nat, S # {}
  PROVE  \E i \in S : \A j \in S : i <= j
<1> DEFINE R == OpToRel(<, Nat)
<1>1. \A x, y \in Nat : y < x => <<y, x>> \in R
  BY DEF OpToRel
<1>2. PICK x \in S : \A y \in S : <<y, x>> \notin R
  BY NatLessThanWellFounded, WFMin
<1> HIDE DEF R
<1>3. ASSUME NEW y \in S PROVE x <= y
  <2>1. x \in Nat /\ y \in Nat /\ ~ (y < x)
    BY <1>1, <1>2
  <2> QED
    BY <2>1
<1> QED
  BY <1>3

(***************************************************************************)
(* ... and a greatest one, if they are bounded.                            *)
(***************************************************************************)
LEMMA GreatestExists ==
  ASSUME NEW n \in Nat, NEW S \in SUBSET (0 .. n), S # {}
  PROVE  \E i \in S : \A j \in S : j <= i
<1> DEFINE T == {k \in Nat : n - k \in S}
<1>1. PICK s \in S : TRUE
  OBVIOUS
<1>2. s \in 0 .. n /\ n - s \in Nat /\ n - (n - s) = s
  BY <1>1
<1>3. n - s \in T
  BY <1>1, <1>2
<1>4. PICK k \in T : \A l \in T : k <= l
  <2> HIDE DEF T
  <2>1. T \in SUBSET Nat
    BY DEF T
  <2> QED
    BY <1>3, <2>1, LeastExists
<1>5. ASSUME NEW j \in S PROVE j <= n - k
  <2>1. j \in 0 .. n /\ n - j \in Nat /\ n - (n - j) = j
    OBVIOUS
  <2>2. n - j \in T
    BY <2>1
  <2> QED
    BY <1>4, <2>1, <2>2
<1> QED
  BY <1>4, <1>5

-----------------------------------------------------------------------------
(* Going on from one member of a set to the next, where a stop is reached  *)
(* in no more than n steps.                                                *)

(* Every step from a member where there is no stop leads to one of lower   *)
(* rank.                                                                   *)
Descends(n, S, rank, stop, next) ==
  /\ n \in Nat /\ rank \in [S -> 0 .. n] /\ stop \in [S -> BOOLEAN]
  /\ \A x \in S : ~ stop[x] => next[x] \in S /\ rank[next[x]] < rank[x]

(* What f says of a member is what it says of the next, or what base says  *)
(* of a stop.                                                              *)
Recurses(f, S, stop, base, next) ==
  /\ f = [x \in S |-> f[x]]
  /\ \A x \in S : f[x] = IF stop[x] THEN base[x] ELSE f[next[x]]

(* A set that one does not leave before a stop, and that has the stop in it*)
(* one gets to from a.                                                     *)
KeptUntil(P, stop, next) == \A x \in P : ~ stop[x] => next[x] \in P
StopsIn(P, stop, base, f, a) == \E y \in P : stop[y] /\ f[a] = base[y]

(***************************************************************************)
(* There is a function that goes on to the stop.                           *)
(***************************************************************************)
LEMMA TailRecursion ==
  ASSUME NEW n, NEW S, NEW rank, NEW stop, NEW base, NEW next, Descends(n, S, rank, stop, next)
  PROVE  \E f : Recurses(f, S, stop, base, next)
<1> USE DEF Descends
<1> DEFINE Below(k) == {x \in S : rank[x] < k}
           Solves(g, k) == \A x \in Below(k) : g[x] = IF stop[x] THEN base[x] ELSE g[next[x]]
           Failing == {k \in Nat : ~ \E g : Solves(g, k)}
<1>1. ASSUME NEW k \in Nat, NEW g, Solves(g, k)
      PROVE  \E h : Solves(h, k + 1)
  <2> DEFINE h == [x \in S |-> IF x \in Below(k) THEN g[x] ELSE IF stop[x] THEN base[x] ELSE g[next[x]]]
  <2>1. ASSUME NEW x \in Below(k + 1), ~ stop[x] PROVE next[x] \in Below(k) /\ next[x] \in S
    <3>1. rank[x] \in Nat /\ rank[next[x]] \in Nat /\ rank[next[x]] < rank[x] /\ rank[x] < k + 1 /\ next[x] \in S
      BY <2>1
    <3>2. rank[next[x]] < k
      BY <3>1
    <3> QED
      BY <3>1, <3>2
  <2>2. ASSUME NEW x \in Below(k + 1)
        PROVE  h[x] = IF stop[x] THEN base[x] ELSE h[next[x]]
    <3>1. x \in S /\ (~ stop[x] => h[next[x]] = g[next[x]])
      BY <2>1
    <3>2. CASE x \in Below(k)
      <4>1. h[x] = g[x]
        BY <3>1, <3>2
      <4> QED
        BY <1>1, <3>1, <3>2, <4>1
    <3>3. CASE x \notin Below(k)
      BY <3>1, <3>3
    <3> QED
      BY <3>2, <3>3
  <2> HIDE DEF h
  <2>3. Solves(h, k + 1)
    BY <2>2
  <2> QED
    BY <2>3
<1>2. \E g : Solves(g, 0)
  <2>1. Below(0) = {}
    BY SMT
  <2> QED
    BY <2>1
<1>3. Failing = {}
  <2> SUFFICES ASSUME Failing # {} PROVE FALSE
    OBVIOUS
  <2>1. PICK k \in Failing : \A j \in Failing : k <= j
    <3>1. Failing \in SUBSET Nat
      OBVIOUS
    <3> HIDE DEF Failing
    <3> QED
      BY <3>1, LeastExists
  <2>2. k \in Nat /\ k # 0
    BY <1>2, <2>1
  <2>3. k - 1 \in Nat /\ k - 1 \notin Failing /\ (k - 1) + 1 = k
    <3> HIDE DEF Failing
    <3> QED
      BY <2>1, <2>2
  <2>4. \E g : Solves(g, k - 1)
    BY <2>3
  <2>5. \E h : Solves(h, (k - 1) + 1)
    <3> HIDE DEF Solves
    <3> QED
      BY <1>1, <2>3, <2>4
  <2> QED
    BY <2>1, <2>3, <2>5
<1>4. PICK g : Solves(g, n + 1)
  <2>1. n + 1 \in Nat /\ n + 1 \notin Failing
    <3> HIDE DEF Failing
    <3> QED
      BY <1>3
  <2> QED
    BY <2>1
<1> DEFINE f == [x \in S |-> g[x]]
<1>5. ASSUME NEW x \in S
      PROVE  f[x] = IF stop[x] THEN base[x] ELSE f[next[x]]
  <2>1. rank[x] \in Nat /\ rank[x] < n + 1
    OBVIOUS
  <2>2. g[x] = IF stop[x] THEN base[x] ELSE g[next[x]]
    BY <1>4, <2>1
  <2>3. CASE stop[x]
    BY <2>2, <2>3
  <2>4. CASE ~ stop[x]
    <3>1. next[x] \in S
      BY <2>4
    <3> QED
      BY <2>2, <2>4, <3>1
  <2> QED
    BY <2>3, <2>4
<1>6. f = [x \in S |-> f[x]]
  OBVIOUS
<1> HIDE DEF f
<1> QED
  BY <1>5, <1>6 DEF Recurses

(***************************************************************************)
(* Such a set has the stop in it.                                          *)
(***************************************************************************)
LEMMA TailResult ==
  ASSUME NEW n, NEW S, NEW rank, NEW stop, NEW base, NEW next, Descends(n, S, rank, stop, next),
         NEW f, Recurses(f, S, stop, base, next),
         NEW P, P \subseteq S, KeptUntil(P, stop, next), NEW a, a \in P
  PROVE  StopsIn(P, stop, base, f, a)
<1> USE DEF Descends, Recurses, KeptUntil, StopsIn
<1> DEFINE Good(x) == \E y \in P : stop[y] /\ f[x] = base[y]
           Bad == {x \in P : ~ Good(x)}
           Ranks == {rank[x] : x \in Bad}
<1> SUFFICES ASSUME ~ Good(a) PROVE FALSE
  OBVIOUS
<1>1. Ranks # {} /\ Ranks \in SUBSET Nat
  <2>1. a \in Bad
    BY Zenon
  <2>2. \A x \in Bad : rank[x] \in Nat
    OBVIOUS
  <2> HIDE DEF Bad
  <2> QED
    BY <2>1, <2>2
<1>2. PICK k \in Ranks : \A j \in Ranks : k <= j
  <2> HIDE DEF Ranks
  <2> QED
    BY <1>1, LeastExists
<1>3. PICK x \in Bad : k = rank[x]
  BY <1>2
<1>4. x \in P /\ x \in S /\ ~ Good(x)
  BY <1>3
<1>5. f[x] = IF stop[x] THEN base[x] ELSE f[next[x]]
  BY <1>4, Zenon
<1>6. ~ stop[x]
  BY <1>4, <1>5, Zenon
<1>7. next[x] \in P /\ next[x] \in S /\ rank[next[x]] < rank[x] /\ f[x] = f[next[x]]
  BY <1>4, <1>5, <1>6
<1>8. next[x] \in Bad
  BY <1>4, <1>7, Zenon
<1>9. rank[next[x]] \in Ranks
  BY <1>8
<1> QED
  <2>1. rank[x] \in 0 .. n /\ rank[next[x]] \in 0 .. n
    BY <1>4, <1>7
  <2> HIDE DEF Ranks, Bad, Good
  <2> QED
    BY <1>2, <1>3, <1>7, <1>9, <2>1

-----------------------------------------------------------------------------
(* Going on from one position to the next.                                 *)

(***************************************************************************)
(* What holds of the first position, and of each that follows one of which *)
(* it holds, holds of all of them.                                         *)
(***************************************************************************)
LEMMA UpFrom ==
  ASSUME NEW m \in Nat, NEW n \in Nat, NEW S, m \in S, \A p \in (m + 1) .. n : p - 1 \in S => p \in S
  PROVE  \A p \in m .. n : p \in S
<1> DEFINE Missing == {p \in m .. n : p \notin S}
<1> SUFFICES ASSUME Missing # {} PROVE FALSE
  OBVIOUS
<1>1. PICK p \in Missing : \A q \in Missing : p <= q
  <2>1. Missing \in SUBSET Nat
    OBVIOUS
  <2> HIDE DEF Missing
  <2> QED
    BY <2>1, LeastExists
<1>2. p \in (m + 1) .. n /\ p - 1 \in m .. n /\ ~ (p <= p - 1)
  OBVIOUS
<1>3. p - 1 \notin Missing
  <2> HIDE DEF Missing
  <2> QED
    BY <1>1, <1>2
<1> QED
  BY <1>1, <1>2, <1>3

(* f[p] is made from f[p - 1] by step[p].                                  *)
GoesUp(f, n, base, step) ==
  /\ f = [p \in 0 .. n |-> f[p]]
  /\ f[0] = base
  /\ \A p \in 1 .. n : f[p] = step[p][f[p - 1]]

(***************************************************************************)
(* There is such a function.                                               *)
(***************************************************************************)
LEMMA UpwardRecursion ==
  ASSUME NEW n \in Nat, NEW base, NEW step
  PROVE  \E f : GoesUp(f, n, base, step)
<1> DEFINE Reached == {k \in Nat : \E f : GoesUp(f, k, base, step)}
<1>1. 0 \in Reached
  <2> DEFINE f == [p \in 0 .. 0 |-> base]
  <2>1. GoesUp(f, 0, base, step)
    BY DEF GoesUp
  <2> QED
    BY <2>1
<1>2. ASSUME NEW k \in 1 .. n, k - 1 \in Reached
      PROVE  k \in Reached
  <2>1. PICK f : GoesUp(f, k - 1, base, step)
    BY <1>2
  <2> DEFINE g == [p \in 0 .. k |-> IF p = k THEN step[k][f[k - 1]] ELSE f[p]]
  <2>2. \A p \in 0 .. (k - 1) : g[p] = f[p]
    OBVIOUS
  <2>3. g[k] = step[k][f[k - 1]] /\ g = [p \in 0 .. k |-> g[p]]
    OBVIOUS
  <2>4. k - 1 \in 0 .. (k - 1) /\ 0 \in 0 .. (k - 1)
    OBVIOUS
  <2> HIDE DEF g
  <2>5. \A p \in 1 .. k : g[p] = step[p][g[p - 1]]
    <3> SUFFICES ASSUME NEW p \in 1 .. k PROVE g[p] = step[p][g[p - 1]]
      OBVIOUS
    <3>1. CASE p = k
      BY <2>2, <2>3, <2>4, <3>1
    <3>2. CASE p # k
      <4>1. p \in 1 .. (k - 1) /\ p \in 0 .. (k - 1) /\ p - 1 \in 0 .. (k - 1)
        BY <3>2
      <4>2. f[p] = step[p][f[p - 1]]
        BY <2>1, <4>1 DEF GoesUp
      <4> QED
        BY <2>2, <4>1, <4>2
    <3> QED
      BY <3>1, <3>2
  <2>6. g[0] = base
    BY <2>1, <2>2, <2>4 DEF GoesUp
  <2>7. GoesUp(g, k, base, step)
    BY <2>3, <2>5, <2>6 DEF GoesUp
  <2>8. k \in Nat
    OBVIOUS
  <2> QED
    BY <2>7, <2>8
<1>3. n \in Reached
  <2> HIDE DEF Reached
  <2>1. \A p \in (0 + 1) .. n : p - 1 \in Reached => p \in Reached
    BY <1>2
  <2>2. \A p \in 0 .. n : p \in Reached
    BY <1>1, <2>1, UpFrom
  <2> QED
    BY <2>2
<1> QED
  BY <1>3

(* f[p] has one member more than f[p - 1].                                 *)
Grows(f, n, X) ==
  /\ f[0] = <<>>
  /\ \A p \in 1 .. n : f[p - 1] \in Seq(X) /\ Len(f[p - 1]) = p - 1 => \E x \in X : f[p] = Append(f[p - 1], x)
Grown(f, n, X) ==
  /\ \A p \in 0 .. n : f[p] \in Seq(X) /\ Len(f[p]) = p
  /\ \A k \in 0 .. n : \A p \in 1 .. k : f[k][p] = f[p][p]

(***************************************************************************)
(* A sequence that is read one member at a time keeps those it has.        *)
(***************************************************************************)
LEMMA Appends ==
  ASSUME NEW n, n \in Nat, NEW X, NEW f, Grows(f, n, X)
  PROVE  Grown(f, n, X)
<1> USE DEF Grows, Grown
<1> DEFINE Typed == {p \in 0 .. n : f[p] \in Seq(X) /\ Len(f[p]) = p}
<1>1. \A p \in 0 .. n : p \in Typed
  <2>1. 0 \in Typed
    <3>1. <<>> \in Seq(X) /\ Len(<<>>) = 0 /\ 0 \in 0 .. n
      OBVIOUS
    <3> QED
      BY <3>1, Zenon
  <2>2. ASSUME NEW p \in (0 + 1) .. n, p - 1 \in Typed
        PROVE  p \in Typed
    <3>1. f[p - 1] \in Seq(X) /\ Len(f[p - 1]) = p - 1 /\ p \in 1 .. n
      BY <2>2
    <3>2. PICK x \in X : f[p] = Append(f[p - 1], x)
      BY <3>1
    <3>3. f[p] \in Seq(X) /\ Len(f[p]) = (p - 1) + 1
      BY <3>1, <3>2
    <3> QED
      BY <3>1, <3>3
  <2> HIDE DEF Typed
  <2> QED
    BY <2>1, <2>2, UpFrom
<1>2. ASSUME NEW p \in 1 .. n
      PROVE  \A k \in p .. n : f[k][p] = f[p][p]
  <2> DEFINE Kept == {k \in p .. n : f[k][p] = f[p][p]}
  <2>1. p \in Kept
    OBVIOUS
  <2>2. ASSUME NEW k \in (p + 1) .. n, k - 1 \in Kept
        PROVE  k \in Kept
    <3>1. k \in 1 .. n /\ k - 1 \in 0 .. n /\ k \in p .. n /\ p \in 1 .. (k - 1)
      OBVIOUS
    <3>2. f[k - 1] \in Seq(X) /\ Len(f[k - 1]) = k - 1
      BY <1>1, <3>1
    <3>3. PICK x \in X : f[k] = Append(f[k - 1], x)
      BY <3>1, <3>2
    <3>4. f[k][p] = f[k - 1][p]
      BY <3>1, <3>2, <3>3
    <3> QED
      BY <2>2, <3>1, <3>4
  <2>3. p \in Nat
    OBVIOUS
  <2> HIDE DEF Kept
  <2>4. \A k \in p .. n : k \in Kept
    BY <2>1, <2>2, <2>3, UpFrom
  <2> QED
    BY <2>4 DEF Kept
<1>3. \A k \in 0 .. n : \A p \in 1 .. k : p \in 1 .. n /\ k \in p .. n
  OBVIOUS
<1> QED
  BY <1>1, <1>2, <1>3

(* f[p] is what has been read behind p members, of which step[p] makes the *)
(* last from those in front of it.                                         *)
Extends(step, n, X) == \A p \in 1 .. n : \A s \in Seq(X) : Len(s) = p - 1 => step[p][s] \in X
IsHistory(f, n, X, step) ==
  /\ f = [p \in 0 .. n |-> f[p]]
  /\ f[0] = <<>>
  /\ \A p \in 1 .. n : /\ f[p - 1] \in Seq(X) /\ Len(f[p - 1]) = p - 1
                       /\ f[p] = Append(f[p - 1], step[p][f[p - 1]])

(***************************************************************************)
(* There is such a function.                                               *)
(***************************************************************************)
LEMMA HistoryExists ==
  ASSUME NEW n, n \in Nat, NEW X, NEW step, Extends(step, n, X)
  PROVE  \E f : IsHistory(f, n, X, step)
<1> DEFINE grow == [p \in 1 .. n |-> [s \in Seq(X) |-> Append(s, step[p][s])]]
<1>1. PICK f : GoesUp(f, n, <<>>, grow)
  <2> HIDE DEF grow
  <2> QED
    BY UpwardRecursion
<1>2. ASSUME NEW p \in 1 .. n, f[p - 1] \in Seq(X)
      PROVE  f[p] = Append(f[p - 1], step[p][f[p - 1]])
  <2>1. f[p] = grow[p][f[p - 1]]
    BY <1>1 DEF GoesUp
  <2> QED
    BY <1>2, <2>1
<1>3. \A p \in 1 .. n : f[p - 1] \in Seq(X) /\ Len(f[p - 1]) = p - 1 => \E x \in X : f[p] = Append(f[p - 1], x)
  <2> SUFFICES ASSUME NEW p \in 1 .. n, f[p - 1] \in Seq(X), Len(f[p - 1]) = p - 1
               PROVE  \E x \in X : f[p] = Append(f[p - 1], x)
    OBVIOUS
  <2>1. step[p][f[p - 1]] \in X
    BY DEF Extends
  <2> QED
    BY <1>2, <2>1
<1>4. f[0] = <<>> /\ f = [p \in 0 .. n |-> f[p]]
  BY <1>1 DEF GoesUp
<1>5. \A p \in 0 .. n : f[p] \in Seq(X) /\ Len(f[p]) = p
  <2>1. Grows(f, n, X)
    BY <1>3, <1>4 DEF Grows
  <2>2. Grown(f, n, X)
    BY <2>1, Appends
  <2> QED
    BY <2>2 DEF Grown
<1>6. \A p \in 1 .. n : f[p - 1] \in Seq(X) /\ Len(f[p - 1]) = p - 1
  <2>1. \A p \in 1 .. n : p - 1 \in 0 .. n
    OBVIOUS
  <2> QED
    BY <1>5, <2>1
<1> QED
  BY <1>2, <1>4, <1>6 DEF IsHistory

-----------------------------------------------------------------------------
(* Counting.                                                               *)

(* The members of S among the positions i .. j.                            *)
CountIn(S, i, j) == Cardinality(S \cap (i .. j))

LEMMA CountFinite ==
  ASSUME NEW S, NEW i \in Int, NEW j \in Int
  PROVE  IsFiniteSet(S \cap (i .. j))
BY FS_Interval, FS_Intersection

LEMMA CountType ==
  ASSUME NEW S, NEW i \in Int, NEW j \in Int
  PROVE  CountIn(S, i, j) \in Nat
BY CountFinite, FS_CardinalityType DEF CountIn

LEMMA CountNone ==
  ASSUME NEW S, NEW i \in Int, NEW j \in Int, S \cap (i .. j) = {}
  PROVE  CountIn(S, i, j) = 0
BY FS_EmptySet DEF CountIn

(***************************************************************************)
(* Counting on by one position, at the end ...                             *)
(***************************************************************************)
LEMMA CountLast ==
  ASSUME NEW S, NEW i \in Int, NEW j \in Int, i <= j + 1
  PROVE  CountIn(S, i, j + 1) = CountIn(S, i, j) + (IF j + 1 \in S THEN 1 ELSE 0)
<1> DEFINE T == S \cap (i .. j)
<1>a. CountIn(S, i, j) = Cardinality(T)
  BY Zenon DEF CountIn
<1>b. j + 1 \notin T
  OBVIOUS
<1>c. IsFiniteSet(T) /\ CountIn(S, i, j) \in Nat
  BY CountType, CountFinite
<1>1. IsFiniteSet(T) /\ Cardinality(T) \in Nat /\ j + 1 \notin T
  BY <1>a, <1>b, <1>c, Zenon
<1>2. CASE j + 1 \in S
  <2>1. S \cap (i .. j + 1) = T \cup {j + 1}
    BY <1>2
  <2>2. CountIn(S, i, j + 1) = Cardinality(T \cup {j + 1})
    BY <2>1 DEF CountIn
  <2> HIDE DEF T
  <2> QED
    BY <1>a, <1>1, <1>2, <2>2, FS_AddElement
<1>3. CASE j + 1 \notin S
  <2>1. S \cap (i .. j + 1) = T
    BY <1>3
  <2> QED
    BY <1>1, <1>3, <2>1 DEF CountIn
<1> QED
  BY <1>2, <1>3

(***************************************************************************)
(* ... and in two parts.                                                   *)
(***************************************************************************)
LEMMA CountSplit ==
  ASSUME NEW S, NEW i \in Int, NEW j \in Int, NEW k \in Int, i <= j + 1, j <= k
  PROVE  CountIn(S, i, k) = CountIn(S, i, j) + CountIn(S, j + 1, k)
<1> DEFINE A == S \cap (i .. j)
           B == S \cap (j + 1 .. k)
<1>1. IsFiniteSet(A) /\ IsFiniteSet(B)
  <2>1. IsFiniteSet(A)
    BY CountFinite
  <2>2. j + 1 \in Int
    OBVIOUS
  <2>3. IsFiniteSet(B)
    BY <2>2, CountFinite, Zenon
  <2> QED
    BY <2>1, <2>3
<1>2. S \cap (i .. k) = A \cup B /\ A \cap B = {}
  OBVIOUS
<1>a. /\ CountIn(S, i, j) = Cardinality(A) /\ CountIn(S, j + 1, k) = Cardinality(B)
      /\ CountIn(S, i, k) = Cardinality(A \cup B)
  BY <1>2, Zenon DEF CountIn
<1> HIDE DEF A, B
<1>3. Cardinality(A \cup B) = Cardinality(A) + Cardinality(B) - Cardinality(A \cap B)
  BY <1>1, FS_Union
<1>4. Cardinality(A) \in Nat /\ Cardinality(B) \in Nat /\ Cardinality(A \cap B) = 0
  BY <1>1, <1>2, FS_EmptySet, FS_CardinalityType
<1> QED
  BY <1>a, <1>3, <1>4

LEMMA CountOne ==
  ASSUME NEW S, NEW i \in Int
  PROVE  CountIn(S, i, i) = IF i \in S THEN 1 ELSE 0
<1>1. CountIn(S, i, i - 1) = 0
  BY CountNone
<1>2. CountIn(S, i, (i - 1) + 1) = CountIn(S, i, i - 1) + (IF (i - 1) + 1 \in S THEN 1 ELSE 0)
  BY CountLast
<1>3. (i - 1) + 1 = i
  OBVIOUS
<1> QED
  BY <1>1, <1>2, <1>3
================================================================================
