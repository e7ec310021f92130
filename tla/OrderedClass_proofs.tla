------------------------ MODULE OrderedClass_proofs ------------------------
(***************************************************************************)
(* Theorems about OrderedClass, for every mapping, every text and every    *)
(* object the properties speak of.                                         *)
(***************************************************************************)
EXTENDS OrderedClass, Positions, SequenceTheorems

-----------------------------------------------------------------------------
(* Depths.                                                                 *)

Opens(t)  == {k \in DOMAIN t : t[k] = "["}
Closes(t) == {k \in DOMAIN t : t[k] = "]"}

\* How many arrays are open behind the token at j; -1 behind the closing bracket.
Depth(t, j) == CountIn(Opens(t), 1, j) - CountIn(Closes(t), 1, j)

LEMMA DepthType ==
  ASSUME NEW t, NEW j \in Int
  PROVE  Depth(t, j) \in Int
<1>1. CountIn(Opens(t), 1, j) \in Nat
  BY CountType
<1>2. CountIn(Closes(t), 1, j) \in Nat
  BY CountType
<1> QED
  BY <1>1, <1>2 DEF Depth

LEMMA DepthZero ==
  ASSUME NEW t \in Seq(Token)
  PROVE  Depth(t, 0) = 0
<1>1. CountIn(Opens(t), 1, 0) = 0
  BY CountNone
<1>2. CountIn(Closes(t), 1, 0) = 0
  BY CountNone
<1> QED
  BY <1>1, <1>2 DEF Depth

LEMMA DepthStep ==
  ASSUME NEW t \in Seq(Token), NEW j \in DOMAIN t
  PROVE  /\ Depth(t, j - 1) \in Int
         /\ t[j] = "[" => Depth(t, j) = Depth(t, j - 1) + 1
         /\ t[j] = "]" => Depth(t, j) = Depth(t, j - 1) - 1
         /\ t[j] \notin {"[", "]"} => Depth(t, j) = Depth(t, j - 1)
<1> DEFINE n == Len(t)
<1>1. n \in Nat /\ j \in 1 .. n
  OBVIOUS
<1>2. j \in Int /\ j - 1 \in Int /\ 1 <= (j - 1) + 1 /\ (j - 1) + 1 = j
  BY <1>1
<1>3. CountIn(Opens(t), 1, j) = CountIn(Opens(t), 1, j - 1) + (IF j \in Opens(t) THEN 1 ELSE 0)
  <2>1. CountIn(Opens(t), 1, (j - 1) + 1) = CountIn(Opens(t), 1, j - 1) + (IF (j - 1) + 1 \in Opens(t) THEN 1 ELSE 0)
    BY <1>2, CountLast
  <2> QED
    BY <1>2, <2>1
<1>4. CountIn(Closes(t), 1, j) = CountIn(Closes(t), 1, j - 1) + (IF j \in Closes(t) THEN 1 ELSE 0)
  <2>1. CountIn(Closes(t), 1, (j - 1) + 1) = CountIn(Closes(t), 1, j - 1) + (IF (j - 1) + 1 \in Closes(t) THEN 1 ELSE 0)
    BY <1>2, CountLast
  <2> QED
    BY <1>2, <2>1
<1>5. CountIn(Opens(t), 1, j - 1) \in Nat
  BY <1>2, CountType
<1>6. CountIn(Closes(t), 1, j - 1) \in Nat
  BY <1>2, CountType
<1>7. (j \in Opens(t) <=> t[j] = "[") /\ (j \in Closes(t) <=> t[j] = "]")
  BY DEF Opens, Closes
<1> QED
  BY <1>3, <1>4, <1>5, <1>6, <1>7 DEF Depth

(***************************************************************************)
(* Depths change by one at a time: a text that does not get one below the  *)
(* depth at i stays at that depth or above it.                             *)
(***************************************************************************)
LEMMA StaysAbove ==
  ASSUME NEW t \in Seq(Token), NEW i \in Nat, NEW n \in Nat, i <= n, n <= Len(t),
         \A k \in i + 1 .. n : Depth(t, k) # Depth(t, i) - 1
  PROVE  \A k \in i .. n : Depth(t, k) >= Depth(t, i)
<1> DEFINE d == Depth(t, i)
           S == {k \in i .. n : ~(Depth(t, k) >= d)}
<1>1. d \in Int /\ \A k \in Int : Depth(t, k) \in Int
  BY DepthType
<1>2. ASSUME S # {} PROVE FALSE
  <2>1. S \in SUBSET Nat
    OBVIOUS
  <2>2. PICK k \in S : \A j \in S : k <= j
    <3> HIDE DEF S
    <3> QED
      BY <1>2, <2>1, LeastExists
  <2>3. k \in i .. n /\ ~(Depth(t, k) >= d)
    BY <2>2
  <2>4. k # i
    BY <1>1, <2>3
  <2>5. k - 1 \in i .. n /\ k \in i + 1 .. n /\ k \in DOMAIN t /\ k \in Int /\ k - 1 \in Int
    BY <2>3, <2>4
  <2>6. k - 1 \notin S
    BY <2>2, <2>3
  <2>7. Depth(t, k - 1) >= d
    BY <2>5, <2>6
  <2>8. Depth(t, k) # d - 1
    BY <2>5
  <2>9. Depth(t, k) \in {Depth(t, k - 1) - 1, Depth(t, k - 1), Depth(t, k - 1) + 1}
    BY <2>5, DepthStep
  <2>10. Depth(t, k) \in Int /\ Depth(t, k - 1) \in Int
    BY <1>1, <2>5
  <2> DEFINE e == Depth(t, k)
             f == Depth(t, k - 1)
  <2>11. d \in Int /\ e \in Int /\ f \in Int /\ ~(e >= d) /\ f >= d /\ e # d - 1 /\ e \in {f - 1, f, f + 1}
    BY <1>1, <2>3, <2>7, <2>8, <2>9, <2>10
  <2> HIDE DEF d, e, f
  <2> QED
    BY <2>11
<1> QED
  BY <1>2

-----------------------------------------------------------------------------
(* Elements and commas of the array.                                       *)

\* The position p is in the array and in none of its elements.
Outer(t, p) ==
  /\ p \in 1 .. Len(t) + 1
  /\ Depth(t, p - 1) = 0
  /\ \A j \in 0 .. p - 1 : Depth(t, j) >= 0

ItemsOf(t)  == {k \in DOMAIN t : Outer(t, k) /\ t[k] \in {"v", "null", "["}}
CommasOf(t) == {k \in DOMAIN t : Outer(t, k) /\ t[k] = ","}

\* The elements, and the commas, before p.
Begun(t, p)  == CountIn(ItemsOf(t), 1, p - 1)
Passed(t, p) == CountIn(CommasOf(t), 1, p - 1)

\* The element at q ends before p.
ItemEnd(t, q, p) ==
  /\ q \in ItemsOf(t)
  /\ Outer(t, p)
  /\ q < p
  /\ \A j \in q + 1 .. p - 1 : Depth(t, j - 1) > 0

LEMMA CountsType ==
  ASSUME NEW t, NEW p \in Int
  PROVE  Begun(t, p) \in Nat /\ Passed(t, p) \in Nat
<1>1. Begun(t, p) \in Nat
  BY CountType DEF Begun
<1>2. Passed(t, p) \in Nat
  BY CountType DEF Passed
<1> QED
  BY <1>1, <1>2

LEMMA OuterFirst ==
  ASSUME NEW t \in Seq(Token)
  PROVE  Outer(t, 1) /\ Begun(t, 1) = 0 /\ Passed(t, 1) = 0
<1>1. Begun(t, 1) = 0
  BY CountNone DEF Begun
<1>2. Passed(t, 1) = 0
  BY CountNone DEF Passed
<1>3. Outer(t, 1)
  <2>1. 1 - 1 = 0 /\ 1 \in 1 .. Len(t) + 1 /\ 0 .. 1 - 1 = {0}
    OBVIOUS
  <2> QED
    BY <2>1, DepthZero DEF Outer
<1> QED
  BY <1>1, <1>2, <1>3

(***************************************************************************)
(* What the token at a position of the array says of the next one.         *)
(***************************************************************************)
LEMMA OuterStep ==
  ASSUME NEW t \in Seq(Token), NEW p, Outer(t, p), p \in DOMAIN t
  PROVE  /\ t[p] \in {"v", "null", ","} => Outer(t, p + 1)
         /\ t[p] = "[" => Depth(t, p) = 1
         /\ t[p] = "]" => Depth(t, p) = -1
<1> DEFINE n == Len(t)
<1>1. n \in Nat /\ p \in 1 .. n /\ DOMAIN t = 1 .. n
  BY DEF Outer
<1>2. Depth(t, p - 1) = 0 /\ \A j \in 0 .. p - 1 : Depth(t, j) >= 0
  BY DEF Outer
<1>3. ASSUME t[p] \in {"v", "null", ","} PROVE Outer(t, p + 1)
  <2>1. Depth(t, p) = 0
    BY <1>2, <1>3, DepthStep
  <2>2. p + 1 \in 1 .. Len(t) + 1 /\ (p + 1) - 1 = p
    BY <1>1
  <2>3. \A j \in 0 .. p : j = p \/ j \in 0 .. p - 1
    BY <1>1
  <2> QED
    BY <1>2, <2>1, <2>2, <2>3 DEF Outer
<1>4. p \in DOMAIN t
  BY <1>1
<1>5. t[p] = "[" => Depth(t, p) = 1
  BY <1>2, <1>4, DepthStep
<1>6. t[p] = "]" => Depth(t, p) = -1
  BY <1>2, <1>4, DepthStep
<1> QED
  BY <1>3, <1>5, <1>6

(***************************************************************************)
(* A position before another one of the array.                             *)
(***************************************************************************)
LEMMA OuterBefore ==
  ASSUME NEW t \in Seq(Token), NEW p, Outer(t, p), NEW k \in 1 .. p, Depth(t, k - 1) = 0
  PROVE  Outer(t, k)
<1>1. p \in 1 .. Len(t) + 1 /\ k \in 1 .. Len(t) + 1
  BY DEF Outer
<1>2. 0 .. k - 1 \subseteq 0 .. p - 1
  BY <1>1
<1> QED
  BY <1>1, <1>2 DEF Outer

\* The token before a position of the array is no opening bracket.
LEMMA OuterBack ==
  ASSUME NEW t \in Seq(Token), NEW p, Outer(t, p), p # 1
  PROVE  /\ p - 1 \in DOMAIN t
         /\ t[p - 1] # "["
         /\ t[p - 1] \in {"v", "null", ","} => Outer(t, p - 1)
<1> DEFINE q == p - 1
<1>1. p \in 1 .. Len(t) + 1 /\ q \in DOMAIN t /\ q \in 1 .. p /\ q - 1 \in 0 .. p - 1
  BY DEF Outer
<1>2. Depth(t, q) = 0 /\ Depth(t, q - 1) >= 0 /\ Depth(t, q - 1) \in Int
  BY <1>1, DepthStep DEF Outer
<1>3. t[q] # "["
  <2> HIDE DEF q
  <2> QED
    BY <1>1, <1>2, DepthStep
<1>4. ASSUME t[q] \in {"v", "null", ","} PROVE Outer(t, q)
  <2> HIDE DEF q
  <2>1. Depth(t, q - 1) = 0
    BY <1>1, <1>2, <1>4, DepthStep
  <2> QED
    BY <1>1, <2>1, OuterBefore
<1> QED
  BY <1>1, <1>3, <1>4

(***************************************************************************)
(* How the counts grow.                                                    *)
(***************************************************************************)
LEMMA CountOn ==
  ASSUME NEW S, NEW q \in Nat, NEW p \in Nat, 1 <= q, q < p
  PROVE  CountIn(S, 1, p - 1)
           = CountIn(S, 1, q - 1) + (IF q \in S THEN 1 ELSE 0) + CountIn(S, q + 1, p - 1)
<1>1. /\ 1 \in Int /\ q \in Int /\ q - 1 \in Int /\ p - 1 \in Int /\ 1 <= q + 1 /\ q <= p - 1
      /\ 1 <= (q - 1) + 1 /\ (q - 1) + 1 = q
  OBVIOUS
<1>2. CountIn(S, 1, p - 1) = CountIn(S, 1, q) + CountIn(S, q + 1, p - 1)
  BY <1>1, CountSplit
<1>3. CountIn(S, 1, (q - 1) + 1) = CountIn(S, 1, q - 1) + (IF (q - 1) + 1 \in S THEN 1 ELSE 0)
  BY <1>1, CountLast
<1> QED
  BY <1>1, <1>2, <1>3

\* Over an element ...
LEMMA ItemCounts ==
  ASSUME NEW t \in Seq(Token), NEW q, NEW p, ItemEnd(t, q, p)
  PROVE  Begun(t, p) = Begun(t, q) + 1 /\ Passed(t, p) = Passed(t, q)
<1>a. q \in ItemsOf(t) /\ Outer(t, p) /\ q < p
  BY DEF ItemEnd
<1>b. q \in DOMAIN t /\ q \notin CommasOf(t)
  BY <1>a DEF ItemsOf, CommasOf
<1>c. p \in 1 .. Len(t) + 1 /\ Len(t) \in Nat
  BY <1>a DEF Outer
<1>1. q \in Nat /\ p \in Nat /\ 1 <= q /\ q < p /\ q \in ItemsOf(t) /\ q \notin CommasOf(t)
  BY <1>a, <1>b, <1>c
<1>2. ASSUME NEW S, S \in {ItemsOf(t), CommasOf(t)}
      PROVE  CountIn(S, q + 1, p - 1) = 0
  <2>1. \A j \in S : Depth(t, j - 1) = 0
    BY <1>2 DEF ItemsOf, CommasOf, Outer
  <2>2. S \cap (q + 1 .. p - 1) = {}
    BY <2>1 DEF ItemEnd
  <2>3. q + 1 \in Int /\ p - 1 \in Int
    BY <1>1
  <2> QED
    BY <2>2, <2>3, CountNone
<1>3. CountIn(ItemsOf(t), 1, p - 1) = CountIn(ItemsOf(t), 1, q - 1) + 1 + CountIn(ItemsOf(t), q + 1, p - 1)
  BY <1>1, CountOn
<1>4. CountIn(CommasOf(t), 1, p - 1) = CountIn(CommasOf(t), 1, q - 1) + 0 + CountIn(CommasOf(t), q + 1, p - 1)
  BY <1>1, CountOn
<1>5. CountIn(ItemsOf(t), q + 1, p - 1) = 0
  BY <1>2
<1>6. CountIn(CommasOf(t), q + 1, p - 1) = 0
  BY <1>2
<1>7. Begun(t, q) \in Nat /\ Passed(t, q) \in Nat
  BY <1>1, CountsType
<1> QED
  BY <1>3, <1>4, <1>5, <1>6, <1>7 DEF Begun, Passed

\* ... and over a comma.
LEMMA CommaCounts ==
  ASSUME NEW t \in Seq(Token), NEW q, q \in CommasOf(t)
  PROVE  /\ Outer(t, q + 1)
         /\ Begun(t, q + 1) = Begun(t, q)
         /\ Passed(t, q + 1) = Passed(t, q) + 1
<1> DEFINE p == q + 1
<1>1. q \in DOMAIN t /\ q \notin ItemsOf(t)
  BY DEF ItemsOf, CommasOf
<1>2. q \in Nat /\ p \in Nat /\ 1 <= q /\ q < p /\ p = q + 1
  BY <1>1
<1>3. Outer(t, p)
  BY OuterStep DEF CommasOf
<1> HIDE DEF p
<1>4. ASSUME NEW S PROVE CountIn(S, q + 1, p - 1) = 0
  <2>1. q + 1 \in Int /\ p - 1 \in Int /\ S \cap (q + 1 .. p - 1) = {}
    BY <1>2
  <2> QED
    BY <2>1, CountNone
<1>5. CountIn(ItemsOf(t), 1, p - 1) = CountIn(ItemsOf(t), 1, q - 1) + 0 + CountIn(ItemsOf(t), q + 1, p - 1)
  BY <1>1, <1>2, CountOn
<1>6. CountIn(CommasOf(t), 1, p - 1) = CountIn(CommasOf(t), 1, q - 1) + 1 + CountIn(CommasOf(t), q + 1, p - 1)
  BY <1>1, <1>2, CountOn
<1>7. Begun(t, q) \in Nat /\ Passed(t, q) \in Nat
  BY <1>2, CountsType
<1>8. Begun(t, p) = Begun(t, q)
  BY <1>4, <1>5, <1>7 DEF Begun
<1>9. Passed(t, p) = Passed(t, q) + 1
  BY <1>4, <1>6, <1>7 DEF Passed
<1> QED
  BY <1>2, <1>3, <1>8, <1>9

(***************************************************************************)
(* Elements have different numbers, those of the order they come in.       *)
(***************************************************************************)
LEMMA BegunGrows ==
  ASSUME NEW t \in Seq(Token), NEW q \in ItemsOf(t), NEW p \in Nat, q < p
  PROVE  Begun(t, q) < Begun(t, p)
<1>1. q \in Nat /\ 1 <= q
  BY DEF ItemsOf
<1>2. CountIn(ItemsOf(t), 1, p - 1) = CountIn(ItemsOf(t), 1, q - 1) + 1 + CountIn(ItemsOf(t), q + 1, p - 1)
  BY <1>1, CountOn
<1>3. CountIn(ItemsOf(t), q + 1, p - 1) \in Nat
  <2>1. q + 1 \in Int /\ p - 1 \in Int
    BY <1>1
  <2> QED
    BY <2>1, CountType
<1>4. Begun(t, q) \in Nat
  BY <1>1, CountsType
<1> QED
  BY <1>2, <1>3, <1>4 DEF Begun

LEMMA ItemsDiffer ==
  ASSUME NEW t \in Seq(Token), NEW p \in ItemsOf(t), NEW q \in ItemsOf(t), Begun(t, p) = Begun(t, q)
  PROVE  p = q
<1>1. p \in Nat /\ q \in Nat
  BY DEF ItemsOf
<1>2. Begun(t, p) \in Nat /\ Begun(t, q) \in Nat
  BY <1>1, CountsType
<1>3. CASE p < q
  BY <1>1, <1>2, <1>3, BegunGrows
<1>4. CASE q < p
  BY <1>1, <1>2, <1>4, BegunGrows
<1> QED
  BY <1>1, <1>3, <1>4

LEMMA PassedGrows ==
  ASSUME NEW t \in Seq(Token), NEW q \in Nat, NEW p \in Nat, 1 <= q, q <= p
  PROVE  Passed(t, q) <= Passed(t, p)
<1>1. CASE q = p
  <2>1. Passed(t, p) \in Nat
    BY CountsType
  <2> QED
    BY <1>1, <2>1
<1>2. CASE q < p
  <2>1. CountIn(CommasOf(t), 1, p - 1)
          = CountIn(CommasOf(t), 1, q - 1) + (IF q \in CommasOf(t) THEN 1 ELSE 0) + CountIn(CommasOf(t), q + 1, p - 1)
    BY <1>2, CountOn
  <2>2. CountIn(CommasOf(t), q + 1, p - 1) \in Nat
    <3>1. q + 1 \in Int /\ p - 1 \in Int
      OBVIOUS
    <3> QED
      BY <3>1, CountType
  <2>3. Passed(t, q) \in Nat
    BY CountsType
  <2> QED
    BY <2>1, <2>2, <2>3 DEF Passed
<1> QED
  BY <1>1, <1>2

(***************************************************************************)
(* Where an element ends: a number or null is one token, an array goes up  *)
(* to the bracket behind which no array is open.                           *)
(***************************************************************************)
LEMMA TokenEnd ==
  ASSUME NEW t \in Seq(Token), NEW q, Outer(t, q), q \in DOMAIN t, t[q] \in {"v", "null"}
  PROVE  ItemEnd(t, q, q + 1)
<1>1. Outer(t, q + 1)
  BY OuterStep
<1>2. q \in ItemsOf(t)
  BY DEF ItemsOf
<1>3. q \in Int /\ q < q + 1 /\ q + 1 .. (q + 1) - 1 = {}
  BY DEF Outer
<1> QED
  BY <1>1, <1>2, <1>3 DEF ItemEnd

LEMMA ArrayEnd ==
  ASSUME NEW t \in Seq(Token), NEW q, Outer(t, q), q \in DOMAIN t, t[q] = "[",
         NEW j \in q + 1 .. Len(t), Depth(t, j) = 0, \A k \in q + 1 .. j - 1 : Depth(t, k) # 0
  PROVE  ItemEnd(t, q, j + 1)
<1> DEFINE n == Len(t)
<1>1. n \in Nat /\ q \in 1 .. n /\ j \in q + 1 .. n
  BY DEF Outer
<1>2. Depth(t, q) = 1
  BY OuterStep
<1>3. \A k \in q .. j - 1 : Depth(t, k) >= 1
  <2>1. q \in Nat /\ j - 1 \in Nat /\ q <= j - 1 /\ j - 1 <= Len(t)
    BY <1>1
  <2>2. \A k \in q + 1 .. j - 1 : Depth(t, k) # Depth(t, q) - 1
    BY <1>2
  <2> QED
    BY <1>2, <2>1, <2>2, StaysAbove
<1>4. \A k \in 0 .. q - 1 : Depth(t, k) >= 0
  BY DEF Outer
<1>5. \A k \in 0 .. j : Depth(t, k) >= 0
  <2>1. \A k \in 0 .. j : k \in 0 .. q - 1 \/ k \in q .. j - 1 \/ k = j
    BY <1>1
  <2>2. \A k \in Int : Depth(t, k) \in Int
    BY DepthType
  <2>3. \A k \in q .. j - 1 : Depth(t, k) >= 0
    BY <1>1, <1>3, <2>2
  <2> QED
    BY <1>4, <2>1, <2>3
<1>6. Outer(t, j + 1)
  <2>1. j + 1 \in 1 .. Len(t) + 1 /\ (j + 1) - 1 = j
    BY <1>1
  <2> QED
    BY <1>5, <2>1 DEF Outer
<1>7. \A k \in q + 1 .. (j + 1) - 1 : Depth(t, k - 1) > 0
  <2>1. \A k \in q + 1 .. (j + 1) - 1 : k - 1 \in q .. j - 1 /\ k - 1 \in Int
    BY <1>1
  <2>2. \A k \in Int : Depth(t, k) \in Int
    BY DepthType
  <2> QED
    BY <1>3, <2>1, <2>2
<1>8. q \in ItemsOf(t) /\ q < j + 1
  BY <1>1 DEF ItemsOf
<1> QED
  BY <1>6, <1>7, <1>8 DEF ItemEnd

\* A closing bracket before a position of the array closes an element.
LEMMA ItemBefore ==
  ASSUME NEW t \in Seq(Token), NEW p, Outer(t, p), p # 1, t[p - 1] = "]"
  PROVE  \E q \in 1 .. p - 1 : ItemEnd(t, q, p) /\ t[q] = "["
<1> DEFINE r == p - 1
           T == {q \in 1 .. r : Depth(t, q - 1) = 0}
<1>1. p \in 2 .. Len(t) + 1 /\ r \in DOMAIN t /\ r \in Nat /\ 1 <= r /\ p = r + 1
  BY DEF Outer
<1>2. Depth(t, r) = 0 /\ \A j \in 0 .. r : Depth(t, j) >= 0
  BY DEF Outer
<1>3. \A j \in Int : Depth(t, j) \in Int
  BY DepthType
<1>4. t[r] = "]"
  OBVIOUS
<1> HIDE DEF r
<1>5. Depth(t, r - 1) = 1
  <2>1. Depth(t, r) = Depth(t, r - 1) - 1 /\ Depth(t, r - 1) \in Int
    BY <1>1, <1>4, DepthStep
  <2> QED
    BY <1>2, <2>1
<1>6. PICK q \in T : \A k \in T : k <= q
  <2>1. 1 \in T
    BY <1>1, DepthZero
  <2>2. T \in SUBSET (0 .. r)
    BY <1>1
  <2> HIDE DEF T
  <2> QED
    BY <1>1, <2>1, <2>2, GreatestExists
<1>7. q \in 1 .. r /\ Depth(t, q - 1) = 0 /\ q # r
  BY <1>5, <1>6
<1>8. \A j \in q + 1 .. r : Depth(t, j - 1) > 0
  <2> SUFFICES ASSUME NEW j \in q + 1 .. r PROVE Depth(t, j - 1) > 0
    OBVIOUS
  <2>1. j \in 1 .. r /\ ~(j <= q) /\ j - 1 \in 0 .. r /\ j - 1 \in Int
    BY <1>1, <1>7
  <2>2. j \notin T
    BY <1>6, <2>1
  <2>3. Depth(t, j - 1) # 0
    BY <2>1, <2>2
  <2> QED
    BY <1>2, <1>3, <2>1, <2>3
<1>9. q \in DOMAIN t /\ q \in 1 .. p /\ q < p /\ q + 1 \in q + 1 .. r
  BY <1>1, <1>7
<1>10. Depth(t, q) > 0
  <2>1. (q + 1) - 1 = q
    BY <1>9
  <2> QED
    BY <1>8, <1>9, <2>1
<1>11. t[q] = "["
  <2>1. t[q] # "[" => Depth(t, q) \in {0, -1}
    BY <1>7, <1>9, DepthStep
  <2> QED
    BY <1>10, <2>1
<1>12. Outer(t, q)
  BY <1>7, <1>9, OuterBefore
<1>13. ItemEnd(t, q, p)
  BY <1>1, <1>8, <1>9, <1>11, <1>12 DEF ItemEnd, ItemsOf
<1> QED
  BY <1>1, <1>7, <1>11, <1>13

(***************************************************************************)
(* Elements and commas take turns: behind a comma as many have begun as    *)
(* commas were passed, behind an element one more.                         *)
(***************************************************************************)
Behind(t, p) == IF p = 1 \/ t[p - 1] = "," THEN 0 ELSE 1

LEMMA TakeTurns ==
  ASSUME NEW t \in Seq(Token), Separated(t), NEW p, Outer(t, p)
  PROVE  Begun(t, p) = Passed(t, p) + Behind(t, p)
<1> DEFINE S == {k \in 1 .. Len(t) + 1 : Outer(t, k) /\ Begun(t, k) # Passed(t, k) + Behind(t, k)}
<1> SUFFICES ASSUME S # {} PROVE FALSE
  <2>1. p \in 1 .. Len(t) + 1
    BY DEF Outer
  <2> QED
    BY <2>1
<1>1. PICK k \in S : \A j \in S : k <= j
  <2>1. S \in SUBSET Nat
    OBVIOUS
  <2> HIDE DEF S
  <2> QED
    BY <2>1, LeastExists
<1>2. k \in 1 .. Len(t) + 1 /\ Outer(t, k) /\ Begun(t, k) # Passed(t, k) + Behind(t, k)
  BY <1>1
<1>3. \A j \in 1 .. k - 1 : Outer(t, j) => Begun(t, j) = Passed(t, j) + Behind(t, j)
  <2>1. \A j \in 1 .. k - 1 : j \in 1 .. Len(t) + 1 /\ ~(k <= j)
    BY <1>2
  <2> QED
    BY <1>1, <2>1
<1>4. k # 1
  <2>1. Begun(t, 1) = 0 /\ Passed(t, 1) = 0 /\ Behind(t, 1) = 0
    BY OuterFirst DEF Behind
  <2> QED
    BY <1>2, <2>1
<1> HIDE DEF S
<1> DEFINE q == k - 1
<1>5. q \in DOMAIN t /\ q \in Nat /\ q \in 1 .. k - 1 /\ k = q + 1
  BY <1>2, <1>4
<1>6. t[q] # "[" /\ (t[q] \in {"v", "null", ","} => Outer(t, q))
  BY <1>2, <1>4, OuterBack
<1>7. \A j \in Int : Begun(t, j) \in Nat /\ Passed(t, j) \in Nat
  BY CountsType
<1>8. Behind(t, k) = IF t[q] = "," THEN 0 ELSE 1
  BY <1>4 DEF Behind
<1> HIDE DEF q
<1>9. ASSUME NEW j \in 1 .. k - 1, ItemEnd(t, j, k), t[q] # ","
      PROVE  FALSE
  <2>1. Outer(t, j) /\ j \in DOMAIN t /\ t[j] \in {"v", "null", "["}
    BY <1>9 DEF ItemEnd, ItemsOf
  <2>2. j = 1 \/ t[j - 1] = ","
    <3>1. CASE j # 1
      <4>1. t[j - 1] # "["
        BY <2>1, <3>1, OuterBack
      <4>2. t[j - 1] \in {"[", ","}
        BY <2>1, <3>1 DEF Separated
      <4> QED
        BY <4>1, <4>2
    <3> QED
      BY <3>1
  <2>3. Begun(t, j) = Passed(t, j) + 0
    BY <1>3, <2>1, <2>2 DEF Behind
  <2>4. Begun(t, k) = Begun(t, j) + 1 /\ Passed(t, k) = Passed(t, j)
    BY <1>9, ItemCounts
  <2>5. Behind(t, k) = 1
    BY <1>8, <1>9
  <2> QED
    BY <1>2, <1>7, <2>3, <2>4, <2>5
<1>10. CASE t[q] = ","
  <2>1. q \in CommasOf(t)
    BY <1>5, <1>6, <1>10 DEF CommasOf
  <2>2. Begun(t, k) = Begun(t, q) /\ Passed(t, k) = Passed(t, q) + 1
    BY <1>5, <2>1, CommaCounts
  <2>3. q # 1 /\ t[q - 1] # ","
    BY <1>5, <1>10 DEF Separated
  <2>4. Begun(t, q) = Passed(t, q) + 1
    BY <1>3, <1>5, <1>6, <1>10, <2>3 DEF Behind
  <2>5. Behind(t, k) = 0
    BY <1>8, <1>10
  <2> QED
    BY <1>2, <1>5, <1>7, <2>2, <2>4, <2>5
<1>11. CASE t[q] \in {"v", "null"}
  <2>1. ItemEnd(t, q, k)
    BY <1>5, <1>6, <1>11, TokenEnd
  <2> QED
    BY <1>5, <1>9, <1>11, <2>1
<1>12. CASE t[q] = "]"
  <2>1. t[k - 1] = "]"
    BY <1>5, <1>12
  <2>2. PICK j \in 1 .. k - 1 : ItemEnd(t, j, k)
    BY <1>2, <1>4, <2>1, ItemBefore
  <2> QED
    BY <1>9, <1>12, <2>2
<1>13. t[q] \in Token
  BY <1>5
<1> QED
  BY <1>6, <1>10, <1>11, <1>12, <1>13 DEF Token

-----------------------------------------------------------------------------
(* The searches of the parser.                                             *)

\* The brackets between two positions are a difference of depths.
LEMMA DepthBetween ==
  ASSUME text \in Seq(Token), NEW i \in 1 .. Len(text) + 1, NEW j \in i .. Len(text)
  PROVE  Closed(i, j) = Opened(i, j) + 1 <=> Depth(text, j) = Depth(text, i - 1) - 1
<1> DEFINE n == Len(text)
<1>1. n \in Nat /\ 1 <= i /\ i \in Int /\ j \in Int /\ i <= j /\ j <= n /\ DOMAIN text = 1 .. n
  OBVIOUS
<1>2. i - 1 \in Int /\ 1 <= (i - 1) + 1 /\ i - 1 <= j /\ (i - 1) + 1 = i
  BY <1>1
<1> HIDE DEF n
<1>3. \A S : CountIn(S, 1, j) = CountIn(S, 1, i - 1) + CountIn(S, i, j)
  <2> SUFFICES ASSUME NEW S PROVE CountIn(S, 1, j) = CountIn(S, 1, i - 1) + CountIn(S, i, j)
    OBVIOUS
  <2>1. CountIn(S, 1, j) = CountIn(S, 1, i - 1) + CountIn(S, (i - 1) + 1, j)
    BY <1>1, <1>2, CountSplit
  <2> QED
    BY <1>2, <2>1
<1>4. \A S : CountIn(S, 1, i - 1) \in Nat
  BY <1>2, CountType
<1>5. \A S : CountIn(S, i, j) \in Nat
  BY <1>1, CountType
<1>6. Opened(i, j) = CountIn(Opens(text), i, j)
  <2>1. {k \in i .. j : text[k] = "["} = Opens(text) \cap (i .. j)
    BY <1>1 DEF Opens
  <2> QED
    BY <2>1 DEF Opened, CountIn
<1>7. Closed(i, j) = CountIn(Closes(text), i, j)
  <2>1. {k \in i .. j : text[k] = "]"} = Closes(text) \cap (i .. j)
    BY <1>1 DEF Closes
  <2> QED
    BY <2>1 DEF Closed, CountIn
<1> DEFINE a == CountIn(Opens(text), 1, i - 1)
           b == CountIn(Closes(text), 1, i - 1)
           c == CountIn(Opens(text), i, j)
           d == CountIn(Closes(text), i, j)
<1>8. a \in Nat /\ b \in Nat /\ c \in Nat /\ d \in Nat
  BY <1>4, <1>5
<1>9. Depth(text, j) = (a + c) - (b + d) /\ Depth(text, i - 1) = a - b
  BY <1>3 DEF Depth
<1>10. Opened(i, j) = c /\ Closed(i, j) = d
  BY <1>6, <1>7
<1> HIDE DEF a, b, c, d
<1> QED
  BY <1>8, <1>9, <1>10

LEMMA BehindFacts ==
  ASSUME text \in Seq(Token), NEW i \in 1 .. Len(text) + 1
  PROVE  \/ /\ BehindArray(i) = 0
            /\ \A j \in i .. Len(text) : Depth(text, j) # Depth(text, i - 1) - 1
         \/ \E j \in i .. Len(text) :
              /\ BehindArray(i) = j + 1
              /\ Depth(text, j) = Depth(text, i - 1) - 1
              /\ \A k \in i .. j - 1 : Depth(text, k) # Depth(text, i - 1) - 1
<1> DEFINE S == {j \in i .. Len(text) : Closed(i, j) = Opened(i, j) + 1}
           R == {j \in i .. Len(text) : Depth(text, j) = Depth(text, i - 1) - 1}
<1>1. S = R
  BY DepthBetween
<1>2. BehindArray(i) = IF S = {} THEN 0 ELSE (CHOOSE j \in S : \A k \in S : j <= k) + 1
  BY DEF BehindArray
<1>3. CASE S = {}
  BY <1>1, <1>2, <1>3
<1>4. CASE S # {}
  <2> DEFINE c == CHOOSE j \in S : \A k \in S : j <= k
  <2>1. c \in S /\ \A k \in S : c <= k
    <3>1. S \in SUBSET Nat
      OBVIOUS
    <3>2. \E j \in S : \A k \in S : j <= k
      <4> HIDE DEF S
      <4> QED
        BY <1>4, <3>1, LeastExists
    <3> HIDE DEF S
    <3> QED
      BY <3>2
  <2>2. BehindArray(i) = c + 1
    BY <1>2, <1>4
  <2> HIDE DEF c
  <2>3. c \in R /\ \A k \in R : c <= k
    BY <1>1, <2>1
  <2>4. c \in i .. Len(text) /\ Depth(text, c) = Depth(text, i - 1) - 1
    BY <2>3
  <2>5. \A k \in i .. c - 1 : k \in i .. Len(text) /\ ~(c <= k)
    BY <2>4
  <2>6. \A k \in i .. c - 1 : Depth(text, k) # Depth(text, i - 1) - 1
    BY <2>3, <2>5
  <2> QED
    BY <2>2, <2>4, <2>6
<1> QED
  BY <1>3, <1>4

(***************************************************************************)
(* The closing bracket of the array is the first behind which the depth is *)
(* -1.                                                                     *)
(***************************************************************************)
IsClosed(t)    == \E j \in DOMAIN t : Depth(t, j) = -1
ClosedAt(t, e) == /\ e \in DOMAIN t
                  /\ Depth(t, e) = -1
                  /\ \A k \in 0 .. e - 1 : Depth(t, k) >= 0

\* A closing bracket in the array, in none of its elements, is that of the array.
LEMMA OuterBracket ==
  ASSUME NEW t \in Seq(Token), NEW p, Outer(t, p), p \in DOMAIN t, t[p] = "]"
  PROVE  ClosedAt(t, p)
BY OuterStep DEF Outer, ClosedAt

LEMMA ClosedOnce ==
  ASSUME NEW t \in Seq(Token), NEW e, NEW f, ClosedAt(t, e), ClosedAt(t, f)
  PROVE  e = f
<1>1. e \in Nat /\ f \in Nat
  BY DEF ClosedAt
<1>2. ~(e < f) /\ ~(f < e)
  BY <1>1 DEF ClosedAt
<1> QED
  BY <1>1, <1>2

LEMMA ClosedIs ==
  ASSUME NEW t \in Seq(Token), IsClosed(t)
  PROVE  \E e \in DOMAIN t : ClosedAt(t, e)
<1> DEFINE S == {j \in DOMAIN t : Depth(t, j) = -1}
<1>1. PICK e \in S : \A k \in S : e <= k
  <2>1. S \in SUBSET Nat /\ S # {}
    BY DEF IsClosed
  <2> HIDE DEF S
  <2> QED
    BY <2>1, LeastExists
<1>2. e \in DOMAIN t /\ e - 1 \in Nat /\ e - 1 <= Len(t)
  BY <1>1
<1>3. \A k \in 1 .. e - 1 : Depth(t, k) # -1
  <2>1. \A k \in 1 .. e - 1 : k \in DOMAIN t /\ ~(e <= k)
    BY <1>2
  <2> QED
    BY <1>1, <2>1
<1>4. \A k \in 0 .. e - 1 : Depth(t, k) >= 0
  <2>1. Depth(t, 0) = 0
    BY DepthZero
  <2>2. \A k \in 0 + 1 .. e - 1 : Depth(t, k) # Depth(t, 0) - 1
    BY <1>3, <2>1
  <2>3. \A k \in 0 .. e - 1 : Depth(t, k) >= Depth(t, 0)
    BY <1>2, <2>2, StaysAbove
  <2> QED
    BY <2>1, <2>3
<1> QED
  BY <1>1, <1>4 DEF ClosedAt

LEMMA EndIs ==
  ASSUME text \in Seq(Token)
  PROVE  /\ End = 0 <=> ~IsClosed(text)
         /\ End # 0 => ClosedAt(text, End)
         /\ \A e : ClosedAt(text, e) => End = e
<1>1. 1 \in 1 .. Len(text) + 1 /\ Depth(text, 1 - 1) = 0 /\ Depth(text, 1 - 1) - 1 = -1
  BY DepthZero
<1>2. DOMAIN text = 1 .. Len(text)
  OBVIOUS
<1>3. CASE BehindArray(1) = 0 /\ \A j \in 1 .. Len(text) : Depth(text, j) # -1
  <2>1. ~IsClosed(text) /\ End = 0
    BY <1>2, <1>3 DEF IsClosed, End
  <2>2. \A e : ~ClosedAt(text, e)
    BY <2>1 DEF IsClosed, ClosedAt
  <2> QED
    BY <2>1, <2>2
<1>4. CASE \E j \in 1 .. Len(text) :
              /\ BehindArray(1) = j + 1
              /\ Depth(text, j) = -1
              /\ \A k \in 1 .. j - 1 : Depth(text, k) # -1
  <2>1. PICK j \in 1 .. Len(text) : BehindArray(1) = j + 1 /\ Depth(text, j) = -1
                                    /\ \A k \in 1 .. j - 1 : Depth(text, k) # -1
    BY <1>4
  <2>2. End = j /\ j # 0
    BY <2>1 DEF End
  <2>3. IsClosed(text)
    BY <1>2, <2>1 DEF IsClosed
  <2>4. PICK e \in DOMAIN text : ClosedAt(text, e)
    BY <2>3, ClosedIs
  <2>5. e = j
    <3>1. e \in 1 .. Len(text) /\ Depth(text, e) = -1 /\ \A k \in 0 .. e - 1 : Depth(text, k) >= 0
      BY <2>4 DEF ClosedAt
    <3>2. ~(e \in 1 .. j - 1)
      BY <2>1, <3>1
    <3>3. ~(j \in 0 .. e - 1)
      BY <2>1, <3>1
    <3> QED
      BY <3>1, <3>2, <3>3
  <2>6. \A f : ClosedAt(text, f) => f = e
    BY <2>4, ClosedOnce
  <2> QED
    BY <2>2, <2>3, <2>4, <2>5, <2>6
<1> QED
  BY <1>1, <1>3, <1>4, BehindFacts

(***************************************************************************)
(* Every position of the array is before its closing bracket, or at it.    *)
(***************************************************************************)
LEMMA OuterUpToEnd ==
  ASSUME NEW t \in Seq(Token), NEW p, Outer(t, p), NEW e, ClosedAt(t, e)
  PROVE  p \in DOMAIN t /\ p <= e /\ (t[p] # "]" => p < e)
<1>1. p \in 1 .. Len(t) + 1 /\ e \in 1 .. Len(t) /\ Depth(t, e) = -1 /\ \A j \in 0 .. p - 1 : Depth(t, j) >= 0
  BY DEF Outer, ClosedAt
<1>2. ~(e \in 0 .. p - 1)
  BY <1>1
<1>3. p <= e /\ p \in DOMAIN t
  BY <1>1, <1>2
<1>4. p = e => t[p] = "]"
  <2>1. Depth(t, p - 1) = 0
    BY DEF Outer
  <2>2. t[p] # "]" => Depth(t, p) \in {0, 1}
    BY <1>3, <2>1, DepthStep
  <2> QED
    BY <1>1, <2>2
<1> QED
  BY <1>1, <1>3, <1>4

-----------------------------------------------------------------------------
(* What the cursor moves over.                                             *)

LEMMA AtIs ==
  ASSUME text \in Seq(Token), NEW i \in 1 .. Len(text) + 1
  PROVE  /\ i \in DOMAIN text => At(i) = text[i] /\ At(i) \in Token /\ At(i) # "end"
         /\ i \notin DOMAIN text => i = Len(text) + 1 /\ At(i) = "end"
<1>1. DOMAIN text = 1 .. Len(text) /\ Len(text) \in Nat
  OBVIOUS
<1>2. i \in DOMAIN text => text[i] \in Token
  OBVIOUS
<1>3. i \notin DOMAIN text => i = Len(text) + 1
  BY <1>1
<1> QED
  BY <1>2, <1>3 DEF At, Token

LEMMA MoveFacts ==
  ASSUME text \in Seq(Token), NEW i, Outer(text, i)
  PROVE  /\ Outer(text, MoveNext(i))
         /\ Begun(text, MoveNext(i)) = Begun(text, i)
         /\ Separated(text) => At(MoveNext(i)) # ","
         /\ At(i) # "," => MoveNext(i) = i
<1>1. i \in 1 .. Len(text) + 1 /\ i \in Int
  BY DEF Outer
<1>2. CASE At(i) = ","
  <2>1. i \in DOMAIN text /\ text[i] = ","
    BY <1>1, <1>2, AtIs
  <2>2. i \in CommasOf(text)
    BY <2>1 DEF CommasOf
  <2>3. MoveNext(i) = i + 1
    BY <1>2 DEF MoveNext
  <2>4. Outer(text, i + 1) /\ Begun(text, i + 1) = Begun(text, i)
    BY <2>2, CommaCounts
  <2>5. ASSUME Separated(text) PROVE At(i + 1) # ","
    <3>1. i + 1 \in DOMAIN text => text[i + 1] # ","
      <4>1. i + 1 # 1 /\ (i + 1) - 1 = i
        BY <1>1
      <4> QED
        BY <2>1, <2>5, <4>1 DEF Separated
    <3> QED
      BY <3>1 DEF At
  <2> QED
    BY <1>2, <2>3, <2>4, <2>5
<1>3. CASE At(i) # ","
  BY <1>3 DEF MoveNext
<1> QED
  BY <1>2, <1>3

LEMMA SkipFacts ==
  ASSUME text \in Seq(Token), NEW i, Outer(text, i)
  PROVE  /\ SkipValue(i) # 0 => ItemEnd(text, i, SkipValue(i))
         /\ i \in ItemsOf(text) /\ Separated(text) /\ IsClosed(text) => SkipValue(i) # 0
<1>1. i \in 1 .. Len(text) + 1 /\ i \in Nat /\ i # 0 /\ i + 1 # 0
  BY DEF Outer
<1>2. CASE At(i) = "v"
  <2>1. SkipValue(i) = i + 1
    BY <1>2 DEF SkipValue
  <2>2. i \in DOMAIN text /\ text[i] = "v"
    BY <1>1, <1>2, AtIs
  <2> QED
    BY <1>1, <2>1, <2>2, TokenEnd
<1>3. CASE At(i) = "null"
  <2>1. SkipValue(i) = IF At(i + 1) \in {",", "]"} THEN i + 1 ELSE 0
    BY <1>3 DEF SkipValue
  <2>2. i \in DOMAIN text /\ text[i] = "null"
    BY <1>1, <1>3, AtIs
  <2>3. ItemEnd(text, i, i + 1)
    BY <2>2, TokenEnd
  <2>4. ASSUME Separated(text), IsClosed(text) PROVE At(i + 1) \in {",", "]"}
    <3>1. Outer(text, i + 1)
      BY <2>3 DEF ItemEnd
    <3>2. PICK e \in DOMAIN text : ClosedAt(text, e)
      BY <2>4, ClosedIs
    <3>3. i + 1 \in DOMAIN text
      BY <3>1, <3>2, OuterUpToEnd
    <3>4. i + 1 # 1 /\ (i + 1) - 1 = i
      BY <1>1
    <3>5. text[i + 1] \notin {"v", "null", "["}
      BY <2>2, <2>4, <3>3, <3>4 DEF Separated
    <3>6. At(i + 1) = text[i + 1] /\ text[i + 1] \in Token
      BY <3>3 DEF At
    <3> QED
      BY <3>5, <3>6 DEF Token
  <2> QED
    BY <1>1, <2>1, <2>3, <2>4
<1>4. CASE At(i) = "["
  <2>1. SkipValue(i) = BehindArray(i + 1)
    BY <1>4 DEF SkipValue, SkipArray
  <2>2. i \in DOMAIN text /\ text[i] = "["
    BY <1>1, <1>4, AtIs
  <2>3. Depth(text, i) = 1 /\ i + 1 \in 1 .. Len(text) + 1 /\ (i + 1) - 1 = i
    <3>1. Depth(text, i) = 1
      BY <2>2, OuterStep
    <3>2. i \in 1 .. Len(text)
      BY <2>2
    <3> QED
      BY <3>1, <3>2
  <2>4. CASE BehindArray(i + 1) = 0 /\ \A j \in i + 1 .. Len(text) : Depth(text, j) # 0
    <3>1. \A j \in i .. Len(text) : Depth(text, j) >= 1
      <4>1. \A j \in i + 1 .. Len(text) : Depth(text, j) # Depth(text, i) - 1
        BY <2>3, <2>4
      <4>2. Len(text) \in Nat /\ i <= Len(text)
        BY <2>2
      <4> QED
        BY <1>1, <2>3, <4>1, <4>2, StaysAbove
    <3>2. ~IsClosed(text)
      <4> SUFFICES ASSUME IsClosed(text) PROVE FALSE
        OBVIOUS
      <4>1. PICK e \in DOMAIN text : ClosedAt(text, e)
        BY ClosedIs
      <4>2. i <= e
        BY <4>1, OuterUpToEnd
      <4>3. e \in i .. Len(text) /\ Depth(text, e) = -1
        BY <1>1, <4>1, <4>2 DEF ClosedAt
      <4> QED
        BY <3>1, <4>3
    <3> QED
      BY <2>1, <2>4, <3>2
  <2>5. CASE \E j \in i + 1 .. Len(text) :
               /\ BehindArray(i + 1) = j + 1
               /\ Depth(text, j) = 0
               /\ \A k \in i + 1 .. j - 1 : Depth(text, k) # 0
    <3>1. PICK j \in i + 1 .. Len(text) : BehindArray(i + 1) = j + 1 /\ Depth(text, j) = 0
                                         /\ \A k \in i + 1 .. j - 1 : Depth(text, k) # 0
      BY <2>5
    <3>2. ItemEnd(text, i, j + 1)
      BY <2>2, <3>1, ArrayEnd
    <3>3. j + 1 # 0
      BY <1>1
    <3> QED
      BY <2>1, <3>1, <3>2, <3>3
  <2>6. Depth(text, (i + 1) - 1) - 1 = 0
    BY <2>3
  <2> QED
    BY <2>3, <2>4, <2>5, <2>6, BehindFacts
<1>5. CASE At(i) \notin {"v", "null", "["}
  <2>1. SkipValue(i) = 0
    BY <1>5 DEF SkipValue
  <2>2. i \notin ItemsOf(text)
    BY <1>5 DEF ItemsOf, At
  <2> QED
    BY <2>1, <2>2
<1> QED
  BY <1>2, <1>3, <1>4, <1>5

\* What is left over is skipped up to the closing bracket and the bracket.
LEMMA RestFacts ==
  ASSUME text \in Seq(Token), NEW i, Outer(text, i), At(i) # "["
  PROVE  /\ SkipArray(i) # 0 => SkipArray(i) = IF End = 0 THEN Len(text) + 1 ELSE End + 1
         /\ SkipArray(i) = 0 => ~IsClosed(text)
<1>1. i \in 1 .. Len(text) + 1 /\ i - 1 \in Nat /\ Depth(text, i - 1) = 0 /\ Depth(text, i - 1) - 1 = -1
      /\ \A k \in 0 .. i - 1 : Depth(text, k) >= 0
  BY DEF Outer
<1>2. CASE At(i) = "end"
  <2>1. SkipArray(i) = i
    BY <1>2 DEF SkipArray
  <2>2. i \notin DOMAIN text /\ i = Len(text) + 1
    BY <1>1, <1>2, AtIs
  <2>3. ~IsClosed(text)
    <3>1. ASSUME NEW e \in DOMAIN text, ClosedAt(text, e) PROVE FALSE
      BY <2>2, <3>1, OuterUpToEnd
    <3> QED
      BY <3>1, ClosedIs
  <2>4. End = 0
    BY <2>3, EndIs
  <2> QED
    BY <2>1, <2>2, <2>3, <2>4
<1>3. CASE At(i) # "end"
  <2>1. SkipArray(i) = BehindArray(i)
    BY <1>3 DEF SkipArray
  <2>2. CASE BehindArray(i) = 0 /\ \A j \in i .. Len(text) : Depth(text, j) # -1
    <3>1. ASSUME NEW e \in DOMAIN text, ClosedAt(text, e) PROVE FALSE
      <4>1. i <= e /\ Depth(text, e) = -1
        BY <3>1, OuterUpToEnd DEF ClosedAt
      <4> QED
        BY <1>1, <2>2, <4>1
    <3> QED
      BY <2>1, <2>2, <3>1, ClosedIs
  <2>3. CASE \E j \in i .. Len(text) :
               /\ BehindArray(i) = j + 1
               /\ Depth(text, j) = -1
               /\ \A k \in i .. j - 1 : Depth(text, k) # -1
    <3>1. PICK j \in i .. Len(text) : BehindArray(i) = j + 1 /\ Depth(text, j) = -1
                                     /\ \A k \in i .. j - 1 : Depth(text, k) # -1
      BY <2>3
    <3>2. \A k \in i - 1 .. j - 1 : Depth(text, k) >= 0
      <4>1. j - 1 \in Nat /\ i - 1 <= j - 1 /\ j - 1 <= Len(text) /\ (i - 1) + 1 = i
        BY <1>1, <3>1
      <4>2. \A k \in (i - 1) + 1 .. j - 1 : Depth(text, k) # Depth(text, i - 1) - 1
        BY <1>1, <3>1, <4>1
      <4>3. \A k \in i - 1 .. j - 1 : Depth(text, k) >= Depth(text, i - 1)
        BY <1>1, <4>1, <4>2, StaysAbove
      <4> QED
        BY <1>1, <4>3
    <3>3. \A k \in 0 .. j - 1 : k \in 0 .. i - 1 \/ k \in i - 1 .. j - 1
      BY <1>1
    <3>4. ClosedAt(text, j)
      BY <1>1, <3>1, <3>2, <3>3 DEF ClosedAt
    <3>5. End = j /\ j # 0
      BY <1>1, <3>4, EndIs
    <3> QED
      BY <1>1, <2>1, <3>1, <3>5
  <2> QED
    BY <1>1, <2>1, <2>2, <2>3, BehindFacts
<1> QED
  BY <1>2, <1>3

-----------------------------------------------------------------------------
(* The properties' own definitions.                                        *)

(***************************************************************************)
(* The positions the properties look at are those up to the rim: the       *)
(* closing bracket, or the end of the text.                                *)
(***************************************************************************)
Rim == IF End = 0 THEN Len(text) + 1 ELSE End

LEMMA RimFacts ==
  ASSUME text \in Seq(Token)
  PROVE  /\ Rim \in 1 .. Len(text) + 1
         /\ \A i \in 1 .. Rim : Outermost(i) <=> Outer(text, i)
         /\ \A i : Outer(text, i) => i <= Rim
         /\ \A i \in DOMAIN text : Outer(text, i) /\ text[i] # "]" => i < Rim
<1>a. DOMAIN text = 1 .. Len(text) /\ Len(text) \in Nat
  OBVIOUS
<1>1. End # 0 => ClosedAt(text, End) /\ End \in 1 .. Len(text)
  BY EndIs DEF ClosedAt
<1>2. Rim \in 1 .. Len(text) + 1
  BY <1>1, <1>a DEF Rim
<1>3. \A j \in 0 .. Rim - 1 : Depth(text, j) >= 0
  <2>1. CASE End = 0
    <3>1. \A j \in 0 + 1 .. Len(text) : Depth(text, j) # Depth(text, 0) - 1
      BY <2>1, EndIs, DepthZero DEF IsClosed
    <3>2. \A j \in 0 .. Len(text) : Depth(text, j) >= Depth(text, 0)
      BY <3>1, StaysAbove
    <3>3. Rim - 1 = Len(text)
      BY <1>a, <2>1 DEF Rim
    <3> QED
      BY <3>2, <3>3, DepthZero
  <2>2. CASE End # 0
    BY <1>1, <2>2 DEF ClosedAt, Rim
  <2> QED
    BY <2>1, <2>2
<1>4. \A i \in 1 .. Rim : Outermost(i) <=> Outer(text, i)
  <2> SUFFICES ASSUME NEW i \in 1 .. Rim PROVE Outermost(i) <=> Outer(text, i)
    OBVIOUS
  <2>1. i - 1 \in 0 .. Rim - 1 /\ i \in 1 .. Len(text) + 1 /\ 0 .. i - 1 \subseteq 0 .. Rim - 1 /\ i - 1 \in Int
        /\ i - 1 <= Len(text)
    BY <1>2
  <2>2. Outermost(i) <=> Depth(text, i - 1) = 0
    <3>1. Opened(1, i - 1) = CountIn(Opens(text), 1, i - 1)
      <4>1. {k \in 1 .. i - 1 : text[k] = "["} = Opens(text) \cap (1 .. i - 1)
        BY <1>a, <2>1 DEF Opens
      <4> QED
        BY <4>1 DEF Opened, CountIn
    <3>2. Closed(1, i - 1) = CountIn(Closes(text), 1, i - 1)
      <4>1. {k \in 1 .. i - 1 : text[k] = "]"} = Closes(text) \cap (1 .. i - 1)
        BY <1>a, <2>1 DEF Closes
      <4> QED
        BY <4>1 DEF Closed, CountIn
    <3>3. CountIn(Opens(text), 1, i - 1) \in Nat
      BY <2>1, CountType
    <3>4. CountIn(Closes(text), 1, i - 1) \in Nat
      BY <2>1, CountType
    <3> QED
      BY <3>1, <3>2, <3>3, <3>4 DEF Outermost, Depth
  <2> QED
    BY <1>3, <2>1, <2>2 DEF Outer
<1>5. ASSUME NEW i, Outer(text, i)
      PROVE  i <= Rim /\ (i \in DOMAIN text /\ text[i] # "]" => i < Rim)
  <2>1. i \in 1 .. Len(text) + 1
    BY <1>5 DEF Outer
  <2>2. CASE End = 0
    BY <1>a, <2>1, <2>2 DEF Rim
  <2>3. CASE End # 0
    BY <1>1, <1>5, <2>3, OuterUpToEnd DEF Rim
  <2> QED
    BY <2>2, <2>3
<1> QED
  BY <1>2, <1>4, <1>5

LEMMA CommasAre ==
  ASSUME text \in Seq(Token), NEW i \in 1 .. Rim
  PROVE  Cardinality({k \in 1 .. i - 1 : text[k] = "," /\ Outermost(k)}) = Passed(text, i)
<1>1. \A k \in 1 .. i - 1 : k \in 1 .. Rim /\ k \in DOMAIN text
  BY RimFacts
<1>2. \A k \in 1 .. i - 1 : text[k] = "," /\ Outermost(k) <=> k \in CommasOf(text)
  BY <1>1, RimFacts DEF CommasOf
<1>3. {k \in 1 .. i - 1 : text[k] = "," /\ Outermost(k)} = CommasOf(text) \cap (1 .. i - 1)
  BY <1>2
<1> QED
  BY <1>3 DEF Passed, CountIn

\* Every element has one number: the commas before it.
LEMMA ElementsAre ==
  ASSUME text \in Seq(Token), Separated(text), NEW n
  PROVE  Elements(n) = {i \in ItemsOf(text) : Begun(text, i) = n}
<1> DEFINE Commas(i) == {k \in 1 .. i - 1 : text[k] = "," /\ Outermost(k)}
<1>1. Rim \in 1 .. Len(text) + 1 /\ DOMAIN text = 1 .. Len(text) /\ End \in Nat
  <2>1. End \in Nat
    BY EndIs DEF ClosedAt
  <2> QED
    BY <2>1, RimFacts
<1>2. 1 .. (IF End = 0 THEN Len(text) ELSE End - 1) = 1 .. Rim - 1
  BY <1>1 DEF Rim
<1>3. Elements(n) = {i \in 1 .. Rim - 1 : Outermost(i) /\ text[i] \in {"v", "null", "["} /\ Cardinality(Commas(i)) = n}
  BY <1>2, Zenon DEF Elements
<1>4. \A i : i \in ItemsOf(text) <=> i \in 1 .. Rim - 1 /\ Outermost(i) /\ text[i] \in {"v", "null", "["}
  <2>1. \A i \in 1 .. Rim - 1 : i \in DOMAIN text /\ i \in 1 .. Rim
    BY <1>1
  <2>2. ASSUME NEW i, i \in ItemsOf(text)
        PROVE  i \in 1 .. Rim - 1 /\ Outermost(i) /\ text[i] \in {"v", "null", "["}
    <3>1. i \in DOMAIN text /\ Outer(text, i) /\ text[i] \in {"v", "null", "["} /\ text[i] # "]"
      BY <2>2 DEF ItemsOf
    <3>2. i < Rim
      BY <3>1, RimFacts
    <3>3. i \in 1 .. Rim - 1
      BY <1>1, <3>1, <3>2
    <3> QED
      BY <2>1, <3>1, <3>3, RimFacts
  <2>3. ASSUME NEW i \in 1 .. Rim - 1, Outermost(i), text[i] \in {"v", "null", "["} PROVE i \in ItemsOf(text)
    BY <2>1, <2>3, RimFacts DEF ItemsOf
  <2> QED
    BY <2>2, <2>3
<1>5. \A i \in ItemsOf(text) : Cardinality(Commas(i)) = Begun(text, i)
  <2> SUFFICES ASSUME NEW i \in ItemsOf(text) PROVE Cardinality(Commas(i)) = Begun(text, i)
    OBVIOUS
  <2>1. i \in DOMAIN text /\ Outer(text, i) /\ text[i] \in {"v", "null", "["} /\ i \in Int /\ i \in 1 .. Rim
    <3>1. i \in 1 .. Rim - 1
      BY <1>4
    <3> QED
      BY <1>1, <3>1 DEF ItemsOf
  <2>2. Behind(text, i) = 0
    BY <2>1, OuterBack DEF Behind, Separated
  <2>3. Passed(text, i) \in Nat
    BY <2>1, CountsType
  <2>4. Begun(text, i) = Passed(text, i)
    BY <2>1, <2>2, <2>3, TakeTurns
  <2> QED
    BY <2>1, <2>4, CommasAre
<1> HIDE DEF Commas
<1> QED
  BY <1>3, <1>4, <1>5

(***************************************************************************)
(* The index of a member: its own, or the one behind the member before.    *)
(***************************************************************************)
IndexIn(ms, m) ==
  LET fixed == {k \in 1 .. m : ms[k].at # NoIndex}
  IN  IF fixed = {} THEN m - 1
      ELSE LET k == CHOOSE k \in fixed : \A j \in fixed : j <= k
           IN  ms[k].at + m - k

NextIn(ms, m) == IF m = 1 THEN 0 ELSE IndexIn(ms, m - 1) + 1

LEMMA LastFixed ==
  ASSUME NEW m \in Nat, NEW S \in SUBSET (1 .. m), S # {}
  PROVE  LET k == CHOOSE k \in S : \A j \in S : j <= k IN k \in S /\ \A j \in S : j <= k
<1>1. S \in SUBSET (0 .. m)
  OBVIOUS
<1>2. \E k \in S : \A j \in S : j <= k
  BY <1>1, GreatestExists
<1> QED
  BY <1>2

LEMMA IndexFacts ==
  ASSUME NEW ms \in Seq(Member), NEW m \in DOMAIN ms
  PROVE  /\ IndexIn(ms, m) \in Nat
         /\ NextIn(ms, m) \in Nat
         /\ ms[m].at # NoIndex => IndexIn(ms, m) = ms[m].at
         /\ ms[m].at = NoIndex => IndexIn(ms, m) = NextIn(ms, m)
<1> DEFINE Fixed(i) == {k \in 1 .. i : ms[k].at # NoIndex}
           Chosen(i) == CHOOSE k \in Fixed(i) : \A j \in Fixed(i) : j <= k
<1>1. \A k \in DOMAIN ms : ms[k].at \in Nat \cup {NoIndex}
  <2>1. \A k \in DOMAIN ms : ms[k] \in Member
    OBVIOUS
  <2> QED
    BY <2>1 DEF Member
<1>2. DOMAIN ms = 1 .. Len(ms) /\ m \in Nat /\ m # 0
  OBVIOUS
<1>3. \A i : IndexIn(ms, i) = IF Fixed(i) = {} THEN i - 1 ELSE ms[Chosen(i)].at + i - Chosen(i)
  BY DEF IndexIn
<1>4. \A i \in DOMAIN ms : Fixed(i) # {} => Chosen(i) \in Fixed(i) /\ \A j \in Fixed(i) : j <= Chosen(i)
  <2> SUFFICES ASSUME NEW i \in DOMAIN ms, Fixed(i) # {}
               PROVE  Chosen(i) \in Fixed(i) /\ \A j \in Fixed(i) : j <= Chosen(i)
    OBVIOUS
  <2>1. i \in Nat /\ Fixed(i) \in SUBSET (1 .. i)
    OBVIOUS
  <2> DEFINE S == Fixed(i)
  <2>2. S \in SUBSET (1 .. i) /\ S # {}
    BY <2>1
  <2> HIDE DEF S
  <2>3. LET k == CHOOSE k \in S : \A j \in S : j <= k IN k \in S /\ \A j \in S : j <= k
    BY <2>1, <2>2, LastFixed
  <2> QED
    BY <2>3 DEF S
<1>5. \A i \in DOMAIN ms : IndexIn(ms, i) \in Nat
  <2> SUFFICES ASSUME NEW i \in DOMAIN ms PROVE IndexIn(ms, i) \in Nat
    OBVIOUS
  <2>1. CASE Fixed(i) = {}
    <3>1. IndexIn(ms, i) = i - 1
      BY <1>3, <2>1
    <3> QED
      BY <3>1
  <2>2. CASE Fixed(i) # {}
    <3> DEFINE c == Chosen(i)
    <3>1. c \in Fixed(i)
      BY <1>4, <2>2
    <3>2. c \in 1 .. i /\ c \in DOMAIN ms /\ ms[c].at \in Nat
      <4> HIDE DEF c
      <4>1. c \in 1 .. i /\ ms[c].at # NoIndex
        BY <3>1
      <4> QED
        BY <1>1, <1>2, <4>1
    <3>3. IndexIn(ms, i) = ms[c].at + i - c
      BY <1>3, <2>2
    <3> HIDE DEF c
    <3> QED
      BY <3>2, <3>3
  <2> QED
    BY <2>1, <2>2
<1>6. ASSUME ms[m].at # NoIndex PROVE IndexIn(ms, m) = ms[m].at
  <2>1. m \in Fixed(m)
    BY <1>2, <1>6
  <2> DEFINE c == Chosen(m)
  <2>2. c \in Fixed(m) /\ m <= c
    BY <1>4, <2>1
  <2>3. IndexIn(ms, m) = ms[c].at + m - c
    BY <1>3, <2>1
  <2> HIDE DEF c
  <2>4. c = m
    BY <1>2, <2>2
  <2> QED
    BY <1>1, <1>2, <1>6, <2>3, <2>4
<1>7. ASSUME ms[m].at = NoIndex PROVE IndexIn(ms, m) = NextIn(ms, m)
  <2>1. CASE m = 1
    <3>1. Fixed(1) = {}
      BY <1>7, <2>1
    <3>2. IndexIn(ms, 1) = 1 - 1
      BY <1>3, <3>1
    <3> QED
      BY <2>1, <3>2 DEF NextIn
  <2>2. CASE m # 1
    <3> DEFINE q == m - 1
    <3>1. q \in DOMAIN ms /\ q \in Nat /\ m = q + 1
      BY <1>2, <2>2
    <3>2. Fixed(m) = Fixed(q)
      BY <1>2, <1>7, <3>1
    <3>3. Chosen(m) = Chosen(q)
      BY <3>2
    <3>4. CASE Fixed(q) = {}
      <4>1. IndexIn(ms, m) = m - 1 /\ IndexIn(ms, q) = q - 1
        BY <1>3, <3>2, <3>4
      <4> HIDE DEF q
      <4>2. NextIn(ms, m) = IndexIn(ms, q) + 1
        BY <2>2 DEF NextIn, q
      <4> QED
        BY <3>1, <4>1, <4>2
    <3>5. CASE Fixed(q) # {}
      <4> DEFINE c == Chosen(q)
                 a == ms[c].at
      <4>1. c \in Fixed(q)
        BY <1>4, <3>1, <3>5
      <4>2. IndexIn(ms, m) = a + m - c /\ IndexIn(ms, q) = a + q - c
        BY <1>3, <3>2, <3>3, <3>5
      <4>3. c \in 1 .. q /\ a \in Nat
        <5> HIDE DEF c
        <5>1. c \in 1 .. q /\ ms[c].at # NoIndex /\ c \in DOMAIN ms
          BY <1>2, <3>1, <4>1
        <5> QED
          BY <1>1, <5>1
      <4>4. NextIn(ms, m) = IndexIn(ms, q) + 1
        BY <2>2 DEF NextIn
      <4> HIDE DEF a, c, q
      <4> QED
        BY <3>1, <4>2, <4>3, <4>4
    <3> QED
      BY <3>4, <3>5
  <2> QED
    BY <2>1, <2>2
<1>8. NextIn(ms, m) \in Nat
  <2>1. m # 1 => m - 1 \in DOMAIN ms
    BY <1>2
  <2> QED
    BY <1>5, <2>1 DEF NextIn
<1> QED
  BY <1>5, <1>6, <1>7, <1>8

\* The properties' index is this one.
LEMMA IndexIs ==
  ASSUME NEW m
  PROVE  IndexOf(m) = IndexIn(mapping.members, m)
BY Zenon DEF IndexOf, IndexIn, IsOrdered

-----------------------------------------------------------------------------
(* Types.                                                                  *)

\* What is being written is one of the objects to be written.
WriteInv ==
  phase = "write" =>
    /\ taken = <<>>
    /\ pos = 1
    /\ [mapping |-> mapping, values |-> object.values, trailing |-> object.trailing] \in Written

TypeInv == TypeOK /\ WriteInv

LEMMA CountFacts ==
  ASSUME mapping \in Mapping
  PROVE  mapping.members \in Seq(Member) /\ Count = Len(mapping.members) /\ Count \in Nat
<1>1. mapping.members \in Seq(Member)
  BY DEF Mapping
<1> QED
  BY <1>1 DEF Count

LEMMA StartType ==
  ASSUME NEW t \in Seq(Token)
  PROVE  Start(t) \in 1 .. Len(t) + 1
<1>1. CASE t = <<>>
  BY <1>1 DEF Start
<1>2. CASE t # <<>>
  <2>1. Len(t) \in Nat /\ Len(t) # 0
    BY <1>2
  <2>2. Start(t) = 1 \/ Start(t) = 2
    BY DEF Start
  <2>3. 1 \in 1 .. Len(t) + 1 /\ 2 \in 1 .. Len(t) + 1
    BY <2>1
  <2> QED
    BY <2>2, <2>3
<1> QED
  BY <1>1, <1>2

LEMMA MoveType ==
  ASSUME text \in Seq(Token), NEW i \in 1 .. Len(text) + 1
  PROVE  MoveNext(i) \in 1 .. Len(text) + 1
<1>1. At(i) = "," => i \in DOMAIN text
  BY AtIs
<1>2. i \in DOMAIN text => i + 1 \in 1 .. Len(text) + 1
  OBVIOUS
<1>3. MoveNext(i) = i \/ (At(i) = "," /\ MoveNext(i) = i + 1)
  BY DEF MoveNext
<1> QED
  BY <1>1, <1>2, <1>3

LEMMA BehindType ==
  ASSUME text \in Seq(Token), NEW i \in 1 .. Len(text) + 1, BehindArray(i) # 0
  PROVE  BehindArray(i) \in 1 .. Len(text) + 1
<1>1. PICK j \in i .. Len(text) : BehindArray(i) = j + 1
  BY BehindFacts
<1> QED
  BY <1>1

LEMMA SkipType ==
  ASSUME text \in Seq(Token), NEW i \in 1 .. Len(text) + 1
  PROVE  /\ SkipArray(i) # 0 => SkipArray(i) \in 1 .. Len(text) + 1
         /\ SkipValue(i) # 0 => SkipValue(i) \in 1 .. Len(text) + 1
<1>1. At(i) # "end" => i + 1 \in 1 .. Len(text) + 1
  <2>1. At(i) # "end" => i \in 1 .. Len(text)
    BY AtIs
  <2> QED
    BY <2>1
<1>2. SkipArray(i) # 0 => SkipArray(i) \in 1 .. Len(text) + 1
  <2>1. CASE At(i) = "["
    BY <1>1, <2>1, BehindType DEF SkipArray
  <2>2. CASE At(i) = "end"
    BY <2>2 DEF SkipArray
  <2>3. CASE At(i) \notin {"[", "end"}
    BY <2>3, BehindType DEF SkipArray
  <2> QED
    BY <2>1, <2>2, <2>3
<1>3. SkipValue(i) # 0 => SkipValue(i) \in 1 .. Len(text) + 1
  <2>1. CASE At(i) = "v"
    BY <1>1, <2>1 DEF SkipValue
  <2>2. CASE At(i) = "null"
    BY <1>1, <2>2 DEF SkipValue
  <2>3. CASE At(i) = "["
    BY <1>2, <2>3 DEF SkipValue
  <2>4. CASE At(i) \notin {"v", "null", "["}
    BY <2>4 DEF SkipValue
  <2> QED
    BY <2>1, <2>2, <2>3, <2>4
<1> QED
  BY <1>2, <1>3

LEMMA InitType == Init => TypeInv
<1> SUFFICES ASSUME Init PROVE TypeInv
  OBVIOUS
<1>1. member = 1 /\ index = 0 /\ taken = <<>>
  BY DEF Init
<1>2. ASSUME NEW g \in Given, mapping = g.mapping, text = g.text, pos = Start(text), phase = "member"
      PROVE  TypeInv
  <2>1. mapping \in Mapping /\ text \in Seq(Token)
    BY <1>2, OrderedAssumption DEF OrderedAssumption
  <2>2. Count \in Nat /\ pos \in 1 .. Len(text) + 1
    BY <1>2, <2>1, CountFacts, StartType
  <2>3. taken \in Seq(0 .. Len(text)) /\ Len(taken) = member - 1
    BY <1>1
  <2> QED
    BY <1>1, <1>2, <2>1, <2>2, <2>3 DEF TypeInv, TypeOK, WriteInv, Phases
<1>3. ASSUME NEW w \in Written, mapping = w.mapping, text = <<>>,
             object = [values |-> w.values, trailing |-> w.trailing], pos = 1, phase = "write"
      PROVE  TypeInv
  <2>1. w \in [mapping : Mapping, values : Seq({"v", "null"}), trailing : BOOLEAN]
    BY OrderedAssumption DEF OrderedAssumption
  <2>2. mapping \in Mapping /\ [mapping |-> mapping, values |-> object.values, trailing |-> object.trailing] = w
    BY <1>3, <2>1
  <2>3. Count \in Nat
    BY <2>2, CountFacts
  <2>4. text \in Seq(Token) /\ Len(text) = 0 /\ taken \in Seq(0 .. Len(text))
    BY <1>1, <1>3
  <2> QED
    BY <1>1, <1>3, <2>2, <2>3, <2>4 DEF TypeInv, TypeOK, WriteInv, Phases
<1> QED
  BY <1>2, <1>3 DEF Init

LEMMA OneToken ==
  ASSUME NEW x \in Token
  PROVE  <<x>> \in Seq(Token) /\ Len(<<x>>) = 1 /\ <<x>>[1] = x
OBVIOUS

LEMMA TokenSeqs == <<",">> \in Seq(Token) /\ <<"]">> \in Seq(Token) /\ <<>> \in Seq(Token)
<1>1. "," \in Token /\ "]" \in Token
  BY DEF Token
<1>2. <<",">> \in Seq(Token)
  BY <1>1, OneToken
<1>3. <<"]">> \in Seq(Token)
  BY <1>1, OneToken
<1>4. <<>> \in Seq(Token)
  OBVIOUS
<1> QED
  BY <1>2, <1>3, <1>4

LEMMA FillType ==
  ASSUME NEW n \in Nat
  PROVE  Fill(n) \in Seq(Token) /\ Len(Fill(n)) = 2 * n
<1>1. 2 * n \in Nat
  OBVIOUS
<1>2. \A k \in 1 .. 2 * n : (IF k % 2 = 1 THEN "null" ELSE ",") \in Token
  BY DEF Token
<1> DEFINE f == [k \in 1 .. 2 * n |-> IF k % 2 = 1 THEN "null" ELSE ","]
<1>3. Fill(n) = f
  BY DEF Fill
<1>4. DOMAIN f = 1 .. 2 * n /\ \A k \in 1 .. 2 * n : f[k] \in Token
  BY <1>2
<1>5. f \in [1 .. 2 * n -> Token]
  BY <1>2
<1> HIDE DEF f
<1> QED
  BY <1>1, <1>3, <1>4, <1>5

LEMMA NextType == TypeInv /\ [Next]_vars => TypeInv'
<1> SUFFICES ASSUME TypeInv, [Next]_vars PROVE TypeInv'
  OBVIOUS
<1>1. /\ mapping \in Mapping /\ text \in Seq(Token) /\ member \in 1 .. Count + 1 /\ index \in Nat
      /\ pos \in 1 .. Len(text) + 1 /\ taken \in Seq(0 .. Len(text)) /\ phase \in Phases
      /\ (phase \in {"skip", "value"} => member <= Count) /\ (phase # "write" => Len(taken) = member - 1)
  BY DEF TypeInv, TypeOK
<1>2. mapping.members \in Seq(Member) /\ Count \in Nat
  BY <1>1, CountFacts
<1>3. ASSUME Fail, phase # "write" PROVE TypeInv'
  <2>1. /\ Count' = Count /\ phase' = "failed" /\ mapping' = mapping /\ text' = text /\ member' = member
        /\ index' = index /\ pos' = pos /\ taken' = taken
    BY <1>3 DEF Fail, Count
  <2>2. Len(taken) = member - 1
    <3>1. phase # "write"
      BY <1>3
    <3> QED
      BY <1>1, <3>1
  <2>3. WriteInv' /\ phase' \in Phases
    BY <2>1 DEF WriteInv, Phases
  <2> QED
    BY <1>1, <2>1, <2>2, <2>3 DEF TypeInv, TypeOK
<1>4. BeforeMember(pos) \in 1 .. Len(text) + 1
  BY <1>1, MoveType DEF BeforeMember
<1>5. CASE WriteMember
  <2>1. /\ phase = "write" /\ phase' = "write" /\ mapping' = mapping /\ object' = object /\ pos' = pos /\ taken' = taken
        /\ member <= Count /\ member' = member + 1 /\ index' = index + Gap(member) + 1
        /\ text' = text \o Fill(Gap(member)) \o <<object.values[member]>> \o CommaBehind(index')
    BY <1>5 DEF WriteMember
  <2>2. Gap(member) \in Nat
    <3>1. member \in DOMAIN mapping.members
      BY <1>1, <1>2, <2>1 DEF Count
    <3>2. mapping.members[member].at \in Nat \cup {NoIndex}
      <4>1. mapping.members[member] \in Member
        BY <1>2, <3>1
      <4> QED
        BY <4>1 DEF Member
    <3> QED
      BY <1>1, <3>2 DEF Gap, IsOrdered
  <2>3. object.values[member] \in {"v", "null"}
    <3> DEFINE w == [mapping |-> mapping, values |-> object.values, trailing |-> object.trailing]
    <3>1. w \in Written
      BY <2>1 DEF TypeInv, WriteInv
    <3>2. w \in [mapping : Mapping, values : Seq({"v", "null"}), trailing : BOOLEAN]
          /\ Len(w.values) = Len(w.mapping.members)
      BY <3>1, OrderedAssumption DEF OrderedAssumption
    <3>3. object.values \in Seq({"v", "null"}) /\ Len(object.values) = Count
      BY <3>2 DEF Count
    <3> QED
      BY <1>1, <1>2, <2>1, <3>3
  <2>4. text' \in Seq(Token)
    <3>1. Fill(Gap(member)) \in Seq(Token)
      BY <2>2, FillType
    <3>2. <<object.values[member]>> \in Seq(Token)
      <4>1. object.values[member] \in Token
        BY <2>3 DEF Token
      <4> QED
        BY <4>1
    <3>3. CommaBehind(index') \in Seq(Token)
      <4>1. <<",">> \in Seq(Token) /\ <<>> \in Seq(Token)
        BY TokenSeqs
      <4> QED
        BY <4>1, Zenon DEF CommaBehind
    <3> DEFINE a == Fill(Gap(member))
               b == <<object.values[member]>>
               c == CommaBehind(index')
    <3>4. text' = text \o a \o b \o c
      BY <2>1
    <3>5. a \in Seq(Token) /\ b \in Seq(Token) /\ c \in Seq(Token)
      BY <3>1, <3>2, <3>3
    <3> HIDE DEF a, b, c
    <3> QED
      BY <1>1, <3>4, <3>5
  <2>5. taken = <<>> /\ pos = 1
    BY <2>1 DEF TypeInv, WriteInv
  <2>6. Count' = Count /\ WriteInv'
    BY <2>1 DEF TypeInv, WriteInv, Count
  <2>7. taken' \in Seq(0 .. Len(text')) /\ pos' \in 1 .. Len(text') + 1
    BY <2>1, <2>4, <2>5
  <2>8. index' \in Nat /\ member' \in 1 .. Count' + 1
    BY <1>1, <1>2, <2>1, <2>2, <2>6
  <2>9. TypeOK'
    BY <1>1, <2>1, <2>4, <2>6, <2>7, <2>8 DEF TypeOK
  <2> QED
    BY <2>6, <2>9 DEF TypeInv
<1>6. CASE WriteEnd
  <2>1. /\ phase = "write" /\ phase' = "member" /\ mapping' = mapping /\ taken' = taken /\ member' = 1 /\ index' = 0
        /\ pos' = Start(text')
        /\ text' = text \o (IF object.trailing /\ Count > 0 THEN <<",">> ELSE <<>>) \o <<"]">>
    BY <1>6 DEF WriteEnd
  <2>2. text' \in Seq(Token)
    <3> DEFINE a == IF object.trailing /\ Count > 0 THEN <<",">> ELSE <<>>
               b == <<"]">>
    <3>1. a \in Seq(Token) /\ b \in Seq(Token) /\ text' = text \o a \o b
      <4>1. a \in Seq(Token)
        BY TokenSeqs, Zenon
      <4>2. b \in Seq(Token)
        BY TokenSeqs
      <4> QED
        BY <2>1, <4>1, <4>2
    <3> HIDE DEF a, b
    <3> QED
      BY <1>1, <3>1
  <2>3. taken = <<>>
    BY <2>1 DEF TypeInv, WriteInv
  <2>4. pos' \in 1 .. Len(text') + 1
    BY <2>1, <2>2, StartType
  <2>5. Count' = Count
    BY <2>1 DEF Count
  <2>6. taken' \in Seq(0 .. Len(text')) /\ Len(taken') = member' - 1
    <3>1. taken' = <<>> /\ member' - 1 = 0
      <4>1. taken' = <<>>
        BY <2>1, <2>3, Zenon
      <4>2. member' = 1
        BY <2>1, Zenon
      <4> QED
        BY <4>1, <4>2
    <3> DEFINE S == 0 .. Len(text')
    <3>2. <<>> \in Seq(S) /\ Len(<<>>) = 0
      OBVIOUS
    <3> HIDE DEF S
    <3>3. taken' \in Seq(S) /\ Len(taken') = member' - 1
      BY <3>1, <3>2
    <3> QED
      BY <3>3 DEF S
  <2>7. member' \in 1 .. Count' + 1 /\ index' \in Nat /\ mapping' \in Mapping
    <3>1. 1 \in 1 .. Count' + 1
      BY <1>2, <2>5
    <3> QED
      BY <1>1, <2>1, <3>1
  <2>8. phase' \in Phases /\ phase' \notin {"skip", "value"} /\ WriteInv'
    BY <2>1 DEF Phases, WriteInv
  <2> QED
    BY <2>2, <2>4, <2>6, <2>7, <2>8 DEF TypeInv, TypeOK
<1>7. CASE EnterPlain
  <2>1. CASE Fail
    BY <1>3, <1>7, <2>1 DEF EnterPlain
  <2>2. CASE ~Fail
    BY <1>1, <1>4, <1>7, <2>2 DEF EnterPlain, TypeInv, TypeOK, WriteInv, Phases, Count
  <2> QED
    BY <2>1, <2>2
<1>8. CASE EnterOrdered
  <2>1. CASE Fail
    BY <1>3, <1>8, <2>1 DEF EnterOrdered
  <2>2. CASE ~Fail
    BY <1>1, <1>4, <1>8, <2>2 DEF EnterOrdered, TypeInv, TypeOK, WriteInv, Phases, Count
  <2> QED
    BY <2>1, <2>2
<1>9. CASE SkipElement
  <2>1. CASE Fail
    BY <1>3, <1>9, <2>1 DEF SkipElement
  <2>2. CASE ~Fail
    <3>1. SkipValue(pos) # 0 /\ pos' = MoveNext(SkipValue(pos)) /\ index' = index + 1 /\ phase = "skip"
          /\ UNCHANGED <<mapping, text, object, member, taken, phase>>
      BY <1>9, <2>2 DEF SkipElement
    <3>2. pos' \in 1 .. Len(text) + 1
      BY <1>1, <3>1, SkipType, MoveType
    <3> QED
      BY <1>1, <3>1, <3>2 DEF TypeInv, TypeOK, WriteInv, Phases, Count
  <2> QED
    BY <2>1, <2>2
<1>10. CASE EndSkip
  BY <1>1, <1>10 DEF EndSkip, TypeInv, TypeOK, WriteInv, Phases, Count
<1>11. ASSUME NEW i \in 0 .. Len(text), NEW next \in 1 .. Len(text) + 1, phase = "value", Construct(i, next)
       PROVE  TypeInv'
  <2>1. pos' \in 1 .. Len(text) + 1
    BY <1>1, <1>11, MoveType DEF Construct, BehindMember
  <2>2. taken' \in Seq(0 .. Len(text)) /\ Len(taken') = Len(taken) + 1
    BY <1>1, <1>11 DEF Construct
  <2>3. member \in 1 .. Count /\ Len(taken) = member - 1
    BY <1>1, <1>2, <1>11
  <2>4. Count' = Count /\ text' = text /\ mapping' = mapping /\ index' = index /\ phase' = "member" /\ member' = member + 1
    BY <1>11 DEF Construct, Count
  <2> QED
    BY <1>1, <1>2, <2>1, <2>2, <2>3, <2>4 DEF TypeInv, TypeOK, WriteInv, Phases
<1>12. At(pos) # "end" => pos \in 0 .. Len(text) /\ pos + 1 \in 1 .. Len(text) + 1
  <2>1. At(pos) # "end" => pos \in 1 .. Len(text)
    BY <1>1, AtIs
  <2> QED
    BY <2>1
<1>13. CASE ParseValue
  <2>1. CASE Fail
    BY <1>3, <1>13, <2>1 DEF ParseValue
  <2>2. CASE ~Fail
    BY <1>11, <1>12, <1>13, <2>2 DEF ParseValue
  <2> QED
    BY <2>1, <2>2
<1>14. CASE ParseNull
  <2>1. CASE Fail
    BY <1>3, <1>14, <2>1 DEF ParseNull
  <2>2. CASE ~Fail
    BY <1>1, <1>11, <1>12, <1>14, <2>2 DEF ParseNull
  <2> QED
    BY <2>1, <2>2
<1>15. CASE ConstructEmpty
  <2>1. CASE Fail
    BY <1>3, <1>15, <2>1 DEF ConstructEmpty
  <2>2. CASE ~Fail
    BY <1>1, <1>11, <1>15, <2>2 DEF ConstructEmpty
  <2> QED
    BY <2>1, <2>2
<1>16. CASE RejectArray
  BY <1>3, <1>16 DEF RejectArray
<1>17. CASE SkipRest
  <2>1. CASE Fail
    BY <1>3, <1>17, <2>1 DEF SkipRest
  <2>2. CASE ~Fail
    <3>1. SkipArray(pos) # 0 /\ pos' = SkipArray(pos) /\ phase' = "done" /\ phase = "member"
          /\ UNCHANGED <<mapping, text, object, member, index, taken>>
      BY <1>17, <2>2 DEF SkipRest
    <3>2. pos' \in 1 .. Len(text) + 1
      BY <1>1, <3>1, SkipType
    <3> QED
      BY <1>1, <3>1, <3>2 DEF TypeInv, TypeOK, WriteInv, Phases, Count
  <2> QED
    BY <2>1, <2>2
<1>18. CASE CloseExact
  <2>1. CASE Fail
    BY <1>3, <1>18, <2>1 DEF CloseExact
  <2>2. CASE ~Fail
    <3>1. At(pos) = "]" /\ pos' = pos + 1 /\ phase' = "done" /\ phase = "member"
          /\ UNCHANGED <<mapping, text, object, member, index, taken>>
      BY <1>18, <2>2 DEF CloseExact
    <3> QED
      BY <1>1, <1>12, <3>1 DEF TypeInv, TypeOK, WriteInv, Phases, Count
  <2> QED
    BY <2>1, <2>2
<1>19. CASE UNCHANGED vars
  BY <1>1, <1>19 DEF vars, TypeInv, TypeOK, WriteInv, Count
<1> QED
  BY <1>5, <1>6, <1>7, <1>8, <1>9, <1>10, <1>13, <1>14, <1>15, <1>16, <1>17, <1>18, <1>19
  DEF Next, Terminated

(***************************************************************************)
(* The cursor never leaves the text, members are parsed in their order and *)
(* one argument is made of each, whatever the text is (parse_json_tuple_-  *)
(* class).                                                                 *)
(***************************************************************************)
THEOREM TypeCorrect == Spec => []TypeOK
<1>1. Spec => []TypeInv
  BY InitType, NextType, PTL DEF Spec
<1>2. TypeInv => TypeOK
  BY DEF TypeInv
<1> QED
  BY <1>1, <1>2, PTL

-----------------------------------------------------------------------------
(* What is written.                                                        *)

\* Up to n, numbers and nulls take turns with commas.
Alternates(t, n) ==
  \A k \in Nat : /\ 2 * k + 1 <= n => t[2 * k + 1] \in {"v", "null"}
                 /\ 2 * k + 2 <= n => t[2 * k + 2] = ","

\* The first m members are where their indexes say, up to the position n.
PutInPlace(w, t, m, n) ==
  \A k \in 1 .. m : LET p == 2 * IndexIn(w.mapping.members, k) + 1
                    IN  p <= n /\ t[p] = w.values[k]

\* The text before member m is written.
Unfinished(w, t, ix, m) ==
  LET ms == w.mapping.members
  IN  /\ ix = NextIn(ms, m)
      /\ m <= Len(ms) => ix = m - 1
      /\ Len(t) = IF m <= Len(ms) THEN 2 * ix ELSE IF Len(ms) = 0 THEN 0 ELSE 2 * ix - 1
      /\ Alternates(t, Len(t))
      /\ PutInPlace(w, t, m - 1, Len(t))

\* The tokens before the closing bracket.
Body(w) ==
  LET ms == w.mapping.members
  IN  IF Len(ms) = 0 THEN 0
      ELSE 2 * NextIn(ms, Len(ms) + 1) - (IF w.trailing THEN 0 ELSE 1)

WholeText(w, t) ==
  /\ Len(t) = Body(w) + 1
  /\ t[Body(w) + 1] = "]"
  /\ Alternates(t, Body(w))
  /\ PutInPlace(w, t, Len(w.mapping.members), Body(w))

LEMMA WrittenFacts ==
  ASSUME NEW w \in Written
  PROVE  /\ w.mapping \in Mapping /\ w.mapping.members \in Seq(Member) /\ Len(w.mapping.members) \in Nat
         /\ w.values \in Seq({"v", "null"}) /\ Len(w.values) = Len(w.mapping.members)
         /\ w.trailing \in BOOLEAN
         /\ \A m \in DOMAIN w.mapping.members :
              /\ w.values[m] \in {"v", "null"}
              /\ w.values[m] = "null" => w.mapping.members[m].nullable
<1>1. /\ w \in [mapping : Mapping, values : Seq({"v", "null"}), trailing : BOOLEAN]
      /\ Len(w.values) = Len(w.mapping.members)
      /\ \A m \in DOMAIN w.values : w.values[m] = "null" => w.mapping.members[m].nullable
  BY OrderedAssumption DEF OrderedAssumption
<1>2. w.mapping \in Mapping /\ w.values \in Seq({"v", "null"}) /\ w.trailing \in BOOLEAN
  BY <1>1
<1>3. w.mapping.members \in Seq(Member)
  BY <1>2 DEF Mapping
<1>4. \A m \in DOMAIN w.mapping.members : m \in DOMAIN w.values
  BY <1>1, <1>2, <1>3
<1>5. \A m \in DOMAIN w.values : w.values[m] \in {"v", "null"}
  BY <1>2
<1> QED
  BY <1>1, <1>2, <1>3, <1>4, <1>5

LEMMA Parity ==
  ASSUME NEW i \in Nat, i >= 1
  PROVE  \E k \in Nat : i = 2 * k + 1 \/ i = 2 * k + 2
<1> DEFINE k == (i - 1) \div 2
<1>1. k \in Nat /\ (i = 2 * k + 1 \/ i = 2 * k + 2)
  OBVIOUS
<1> QED
  BY <1>1

LEMMA FillAlternates ==
  ASSUME NEW n \in Nat
  PROVE  Alternates(Fill(n), 2 * n)
<1>1. \A k \in Nat : (2 * k + 1) % 2 = 1 /\ (2 * k + 2) % 2 # 1
  OBVIOUS
<1>2. ASSUME NEW k \in Nat, 2 * k + 1 <= 2 * n PROVE Fill(n)[2 * k + 1] = "null"
  <2> DEFINE i == 2 * k + 1
  <2>1. i \in 1 .. 2 * n /\ i % 2 = 1
    BY <1>1, <1>2
  <2> HIDE DEF i
  <2>2. Fill(n)[i] = "null"
    BY <2>1 DEF Fill
  <2> QED
    BY <2>2 DEF i
<1>3. ASSUME NEW k \in Nat, 2 * k + 2 <= 2 * n PROVE Fill(n)[2 * k + 2] = ","
  <2> DEFINE i == 2 * k + 2
  <2>1. i \in 1 .. 2 * n /\ i % 2 # 1
    BY <1>1, <1>3
  <2> HIDE DEF i
  <2>2. Fill(n)[i] = ","
    BY <2>1 DEF Fill
  <2> QED
    BY <2>2 DEF i
<1> QED
  BY <1>2, <1>3 DEF Alternates

LEMMA AlternatesOn ==
  ASSUME NEW s \in Seq(Token), NEW t \in Seq(Token), NEW x \in Nat, Len(s) = 2 * x,
         Alternates(s, Len(s)), Alternates(t, Len(t))
  PROVE  Alternates(s \o t, Len(s \o t))
<1> DEFINE a == Len(s)
           b == Len(t)
           u == s \o t
<1>1. a \in Nat /\ b \in Nat /\ Len(u) = a + b /\ a = 2 * x
  OBVIOUS
<1>2. \A i \in 1 .. a : u[i] = s[i]
  OBVIOUS
<1>3. \A i \in a + 1 .. a + b : u[i] = t[i - a]
  OBVIOUS
<1>4. /\ \A k \in Nat : 2 * k + 1 <= a => s[2 * k + 1] \in {"v", "null"}
      /\ \A k \in Nat : 2 * k + 2 <= a => s[2 * k + 2] = ","
  BY DEF Alternates
<1>5. /\ \A k \in Nat : 2 * k + 1 <= b => t[2 * k + 1] \in {"v", "null"}
      /\ \A k \in Nat : 2 * k + 2 <= b => t[2 * k + 2] = ","
  BY DEF Alternates
<1> HIDE DEF a, b, u
<1>6. ASSUME NEW k \in Nat, 2 * k + 1 <= a + b PROVE u[2 * k + 1] \in {"v", "null"}
  <2>1. CASE k < x
    <3> DEFINE i == 2 * k + 1
    <3>1. i \in 1 .. a /\ i <= a
      BY <1>1, <2>1
    <3>2. s[i] \in {"v", "null"}
      BY <1>4, <3>1
    <3> HIDE DEF i
    <3>3. u[i] = s[i]
      BY <1>2, <3>1
    <3> QED
      BY <3>2, <3>3 DEF i
  <2>2. CASE ~(k < x)
    <3> DEFINE l == k - x
               i == 2 * k + 1
    <3>1. l \in Nat /\ i \in a + 1 .. a + b /\ i - a = 2 * l + 1 /\ 2 * l + 1 <= b
      BY <1>1, <1>6, <2>2
    <3> HIDE DEF l, i
    <3>2. t[2 * l + 1] \in {"v", "null"}
      BY <1>5, <3>1
    <3>3. u[i] = t[i - a]
      BY <1>3, <3>1
    <3> QED
      BY <3>1, <3>2, <3>3 DEF i
  <2> QED
    BY <2>1, <2>2
<1>7. ASSUME NEW k \in Nat, 2 * k + 2 <= a + b PROVE u[2 * k + 2] = ","
  <2>1. CASE k < x
    <3> DEFINE i == 2 * k + 2
    <3>1. i \in 1 .. a /\ i <= a
      BY <1>1, <2>1
    <3>2. s[i] = ","
      BY <1>4, <3>1
    <3> HIDE DEF i
    <3>3. u[i] = s[i]
      BY <1>2, <3>1
    <3> QED
      BY <3>2, <3>3 DEF i
  <2>2. CASE ~(k < x)
    <3> DEFINE l == k - x
               i == 2 * k + 2
    <3>1. l \in Nat /\ i \in a + 1 .. a + b /\ i - a = 2 * l + 2 /\ 2 * l + 2 <= b
      BY <1>1, <1>7, <2>2
    <3> HIDE DEF l, i
    <3>2. t[2 * l + 2] = ","
      BY <1>5, <3>1
    <3>3. u[i] = t[i - a]
      BY <1>3, <3>1
    <3> QED
      BY <3>1, <3>2, <3>3 DEF i
  <2> QED
    BY <2>1, <2>2
<1>8. Alternates(u, a + b)
  BY <1>6, <1>7 DEF Alternates
<1> QED
  BY <1>1, <1>8 DEF u

(***************************************************************************)
(* The indexes of an object whose gap, if it has one, is before its last   *)
(* member.                                                                 *)
(***************************************************************************)
LEMMA GapIndex ==
  ASSUME NEW ms \in Seq(Member), GapBeforeLast(ms), NEW m \in DOMAIN ms
  PROVE  /\ NextIn(ms, m) = m - 1
         /\ IndexIn(ms, m) >= m - 1
         /\ m < Len(ms) => IndexIn(ms, m) = m - 1
<1> DEFINE S == {k \in DOMAIN ms : NextIn(ms, k) # k - 1}
<1>1. DOMAIN ms = 1 .. Len(ms) /\ Len(ms) \in Nat
  OBVIOUS
<1>2. ASSUME NEW k \in DOMAIN ms, NextIn(ms, k) = k - 1
      PROVE  IndexIn(ms, k) >= k - 1 /\ (k < Len(ms) => IndexIn(ms, k) = k - 1)
  <2>1. ms[k].at \in {NoIndex, k - 1} \/ (k = Len(ms) /\ ms[k].at >= k - 1)
    BY DEF GapBeforeLast
  <2>2. /\ ms[k].at # NoIndex => IndexIn(ms, k) = ms[k].at
        /\ ms[k].at = NoIndex => IndexIn(ms, k) = k - 1
    BY <1>2, IndexFacts
  <2>3. k \in Nat
    BY <1>1
  <2> QED
    BY <2>1, <2>2, <2>3
<1>3. ASSUME S # {} PROVE FALSE
  <2>1. PICK k \in S : \A j \in S : k <= j
    <3>1. S \in SUBSET Nat
      BY <1>1
    <3> HIDE DEF S
    <3> QED
      BY <1>3, <3>1, LeastExists
  <2>2. k \in 1 .. Len(ms) /\ NextIn(ms, k) # k - 1
    BY <1>1, <2>1
  <2>3. k # 1
    BY <2>2 DEF NextIn
  <2> DEFINE j == k - 1
  <2>4. j \in DOMAIN ms /\ j < Len(ms) /\ j \in Nat /\ k = j + 1
    BY <1>1, <2>2, <2>3
  <2>5. j \notin S
    BY <2>1, <2>4
  <2>6. NextIn(ms, j) = j - 1
    BY <2>4, <2>5
  <2>7. IndexIn(ms, j) = j - 1
    BY <1>2, <2>4, <2>6
  <2>8. NextIn(ms, k) = IndexIn(ms, j) + 1
    BY <2>3 DEF NextIn
  <2> HIDE DEF j
  <2> QED
    BY <2>2, <2>4, <2>7, <2>8
<1>4. NextIn(ms, m) = m - 1
  BY <1>3
<1> QED
  BY <1>2, <1>4

LEMMA Joined ==
  ASSUME NEW s \in Seq(Token), NEW t \in Seq(Token)
  PROVE  /\ s \o t \in Seq(Token)
         /\ Len(s \o t) = Len(s) + Len(t)
         /\ \A i \in 1 .. Len(s) : (s \o t)[i] = s[i]
         /\ \A i \in 1 .. Len(t) : (s \o t)[Len(s) + i] = t[i]
OBVIOUS

LEMMA JoinedTwice ==
  ASSUME NEW s \in Seq(Token), NEW t \in Seq(Token), NEW u \in Seq(Token)
  PROVE  (s \o t) \o u = s \o (t \o u)
BY ConcatAssociative

\* A token, and a comma where there is one.
One(v)   == <<v>>
Comma(b) == IF b THEN <<",">> ELSE <<>>

LEMMA OneFacts ==
  ASSUME NEW v \in Token
  PROVE  One(v) \in Seq(Token) /\ Len(One(v)) = 1 /\ One(v)[1] = v
BY OneToken DEF One

LEMMA CommaFacts ==
  ASSUME NEW b
  PROVE  /\ Comma(b) \in Seq(Token)
         /\ b => Len(Comma(b)) = 1 /\ Comma(b)[1] = ","
         /\ ~b => Len(Comma(b)) = 0
<1>1. ASSUME b PROVE Comma(b) \in Seq(Token) /\ Len(Comma(b)) = 1 /\ Comma(b)[1] = ","
  <2>1. Comma(b) = One(",")
    BY <1>1, Zenon DEF Comma, One
  <2>2. "," \in Token
    BY DEF Token
  <2>3. One(",") \in Seq(Token) /\ Len(One(",")) = 1 /\ One(",")[1] = ","
    BY <2>2, OneFacts
  <2> QED
    BY <2>1, <2>3, Zenon
<1>2. ASSUME ~b PROVE Comma(b) \in Seq(Token) /\ Len(Comma(b)) = 0
  <2>1. Comma(b) = <<>>
    BY <1>2, Zenon DEF Comma
  <2>2. <<>> \in Seq(Token) /\ Len(<<>>) = 0
    OBVIOUS
  <2> QED
    BY <2>1, <2>2, Zenon
<1> QED
  BY <1>1, <1>2, Zenon

\* A member and the comma behind it, if there is one.
LEMMA MemberAlternates ==
  ASSUME NEW v \in {"v", "null"}, NEW b
  PROVE  /\ One(v) \o Comma(b) \in Seq(Token)
         /\ b => Len(One(v) \o Comma(b)) = 2
         /\ ~b => Len(One(v) \o Comma(b)) = 1
         /\ (One(v) \o Comma(b))[1] = v
         /\ Alternates(One(v) \o Comma(b), Len(One(v) \o Comma(b)))
<1> DEFINE s == One(v)
           c == Comma(b)
           u == s \o c
<1>1. v \in Token
  BY DEF Token
<1>2. s \in Seq(Token) /\ Len(s) = 1 /\ s[1] = v
  BY <1>1, OneFacts
<1>b. c \in Seq(Token) /\ (b => Len(c) = 1 /\ c[1] = ",") /\ (~b => Len(c) = 0)
  BY CommaFacts
<1> DEFINE l == Len(c)
<1>3. c \in Seq(Token) /\ (l = 1 => c[1] = ",")
  <2>1. CASE b
    BY <1>b, <2>1, Zenon
  <2>2. CASE ~b
    <3>1. l = 0
      BY <1>b, <2>2, Zenon
    <3> HIDE DEF l
    <3>2. l # 1
      BY <3>1
    <3> QED
      BY <1>b, <3>2, Zenon
  <2> QED
    BY <2>1, <2>2
<1>a. l \in {0, 1}
  BY <1>b, Zenon
<1> HIDE DEF c
<1> HIDE DEF s
<1>4. /\ u \in Seq(Token) /\ Len(u) = 1 + Len(c)
      /\ \A i \in 1 .. Len(s) : u[i] = s[i]
      /\ \A i \in 1 .. Len(c) : u[Len(s) + i] = c[i]
  <2>1. c \in Seq(Token)
    BY <1>3
  <2>2. s \in Seq(Token) /\ Len(s) = 1
    BY <1>2
  <2>3. /\ s \o c \in Seq(Token)
        /\ Len(s \o c) = Len(s) + Len(c)
        /\ \A i \in 1 .. Len(s) : (s \o c)[i] = s[i]
        /\ \A i \in 1 .. Len(c) : (s \o c)[Len(s) + i] = c[i]
    BY <2>1, <2>2, Joined, Zenon
  <2> QED
    BY <2>2, <2>3, Zenon
<1>5. u[1] = v
  <2>1. 1 \in 1 .. Len(s)
    BY <1>2
  <2> QED
    BY <1>2, <1>4, <2>1
<1>6. l = 1 => u[2] = ","
  <2>1. l = 1 => 1 \in 1 .. Len(c) /\ Len(s) + 1 = 2
    BY <1>2
  <2> QED
    BY <1>3, <1>4, <2>1
<1> DEFINE n == Len(u)
<1>9. n = 1 + l
  BY <1>4
<1> HIDE DEF u, n, l
<1>7. Alternates(u, n)
  <2>1. n \in {1, 2} /\ (n = 2 => l = 1)
    BY <1>a, <1>9
  <2>2. \A k \in Nat : 2 * k + 1 <= n => 2 * k + 1 = 1
    BY <2>1
  <2>3. \A k \in Nat : 2 * k + 2 <= n => 2 * k + 2 = 2 /\ l = 1
    BY <2>1
  <2> QED
    BY <1>5, <1>6, <2>2, <2>3 DEF Alternates
<1>8. (b => n = 2) /\ (~b => n = 1)
  <2>1. (b => l = 1) /\ (~b => l = 0)
    BY <1>b, Zenon DEF l
  <2>2. (l = 1 => n = 2) /\ (l = 0 => n = 1)
    BY <1>9
  <2> QED
    BY <2>1, <2>2, Zenon
<1> QED
  BY <1>4, <1>5, <1>7, <1>8, Zenon DEF u, s, c, n

LEMMA WriteStep ==
  ASSUME NEW w \in Written, NEW t \in Seq(Token), NEW ix \in Nat,
         GapBeforeLast(w.mapping.members),
         NEW m \in DOMAIN w.mapping.members, Unfinished(w, t, ix, m),
         NEW g \in Nat, IndexIn(w.mapping.members, m) = ix + g,
         NEW j \in Nat, j = ix + g + 1
  PROVE  Unfinished(w, t \o Fill(g) \o One(w.values[m]) \o Comma(j < Len(w.mapping.members)), j, m + 1)
<1> DEFINE ms == w.mapping.members
           v == w.values[m]
           n == Len(ms)
           f == Fill(g)
           u == t \o f
           vs == One(v)
           c == Comma(j < n)
           b == vs \o c
           T == u \o b
           I == ix + g
<1>1. ms \in Seq(Member) /\ n \in Nat /\ m \in 1 .. n /\ v \in {"v", "null"} /\ GapBeforeLast(ms)
  BY WrittenFacts
<1>2. /\ ix = NextIn(ms, m) /\ Len(t) = 2 * ix /\ Alternates(t, Len(t)) /\ PutInPlace(w, t, m - 1, Len(t))
  BY <1>1 DEF Unfinished
<1>3. f \in Seq(Token) /\ Len(f) = 2 * g /\ Alternates(f, Len(f))
  BY FillType, FillAlternates
<1>a. j = I + 1
  OBVIOUS
<1>4. c \in Seq(Token) /\ Len(c) = IF I + 1 < n THEN 1 ELSE 0
  <2>1. c \in Seq(Token) /\ (j < n => Len(c) = 1) /\ (~(j < n) => Len(c) = 0)
    BY CommaFacts
  <2> HIDE DEF c, I
  <2> QED
    BY <1>a, <2>1
<1>5. b \in Seq(Token) /\ Len(b) = 1 + Len(c) /\ b[1] = v /\ Alternates(b, Len(b))
  <2>1. /\ b \in Seq(Token) /\ (j < n => Len(b) = 2) /\ (~(j < n) => Len(b) = 1)
        /\ b[1] = v /\ Alternates(b, Len(b))
    BY <1>1, MemberAlternates
  <2> HIDE DEF b, c, I
  <2> QED
    BY <1>4, <1>a, <2>1
<1>6. I \in Nat /\ IndexIn(ms, m) = I /\ I >= m - 1 /\ (m < n => I = m - 1)
  <2>1. IndexIn(ms, m) = I /\ I \in Nat
    OBVIOUS
  <2>2. IndexIn(ms, m) >= m - 1 /\ (m < n => IndexIn(ms, m) = m - 1)
    BY <1>1, GapIndex
  <2> QED
    BY <2>1, <2>2
<1>7. t \o f \o vs \o c = T
  <2>1. v \in Token
    BY <1>1 DEF Token
  <2>2. vs \in Seq(Token)
    BY <2>1, OneFacts
  <2>3. u \in Seq(Token)
    BY <1>3, Joined
  <2> HIDE DEF u, vs, c
  <2>4. (u \o vs) \o c = u \o (vs \o c)
    <3>1. c \in Seq(Token)
      BY <1>4
    <3> QED
      BY <2>2, <2>3, <3>1, JoinedTwice
  <2> QED
    BY <2>4, Zenon DEF u
<1>8. t \o Fill(g) \o One(w.values[m]) \o Comma(j < Len(w.mapping.members)) = T
  BY <1>7, Zenon
<1> HIDE DEF ms, v, n, f, b, c, vs, I
<1>9. u \in Seq(Token) /\ Len(u) = 2 * ix + 2 * g /\ \A i \in 1 .. Len(t) : u[i] = t[i]
  BY <1>2, <1>3, Joined
<1>10. Alternates(u, Len(u))
  BY <1>2, <1>3, AlternatesOn
<1>11. Len(u) = 2 * I
  BY <1>9 DEF I
<1> HIDE DEF u
<1>12. T \in Seq(Token) /\ Len(T) = Len(u) + Len(b) /\ (\A i \in 1 .. Len(u) : T[i] = u[i])
       /\ \A i \in 1 .. Len(b) : T[Len(u) + i] = b[i]
  BY <1>5, <1>9, Joined
<1>13. Alternates(T, Len(T))
  BY <1>5, <1>6, <1>9, <1>10, <1>11, AlternatesOn
<1>14. T[2 * I + 1] = v
  <2>1. Len(c) \in Nat
    BY <1>4
  <2>2. 1 \in 1 .. Len(b)
    BY <1>5, <2>1
  <2> QED
    BY <1>5, <1>11, <1>12, <2>2
<1> HIDE DEF T
<1>15. I + 1 = NextIn(ms, m + 1)
  <2>1. m + 1 # 1 /\ (m + 1) - 1 = m
    BY <1>1
  <2> QED
    BY <1>6, <2>1 DEF NextIn
<1>16. Len(T) = IF m + 1 <= n THEN 2 * (I + 1) ELSE IF n = 0 THEN 0 ELSE 2 * (I + 1) - 1
  <2>1. Len(T) = 2 * I + 1 + (IF I + 1 < n THEN 1 ELSE 0)
    BY <1>4, <1>5, <1>6, <1>11, <1>12
  <2>2. m + 1 <= n => I + 1 < n /\ m \in Nat /\ n \in Nat
    BY <1>1, <1>6
  <2>3. ~(m + 1 <= n) => ~(I + 1 < n) /\ n # 0
    BY <1>1, <1>6
  <2> QED
    BY <1>6, <2>1, <2>2, <2>3
<1>17. m + 1 <= n => I + 1 = (m + 1) - 1
  BY <1>1, <1>6
<1>18. PutInPlace(w, T, m, Len(T))
  <2> SUFFICES ASSUME NEW k \in 1 .. m
               PROVE  LET p == 2 * IndexIn(ms, k) + 1 IN p <= Len(T) /\ T[p] = w.values[k]
    BY DEF PutInPlace, ms
  <2>1. k \in DOMAIN ms
    BY <1>1 DEF n
  <2>2. IndexIn(ms, k) \in Nat
    BY <1>1, <2>1, IndexFacts
  <2>3. CASE k = m
    <3>1. 2 * I + 1 <= Len(T)
      BY <1>1, <1>6, <1>16
    <3> QED
      BY <1>6, <1>14, <2>3, <3>1 DEF v
  <2>4. CASE k # m
    <3> DEFINE p == 2 * IndexIn(ms, k) + 1
    <3>1. k \in 1 .. m - 1
      BY <1>1, <2>4
    <3>2. p <= Len(t) /\ t[p] = w.values[k]
      BY <1>2, <3>1 DEF PutInPlace, ms
    <3>3. p \in 1 .. Len(t)
      BY <2>2, <3>2
    <3> HIDE DEF p
    <3>4. Len(t) <= Len(u) /\ Len(u) <= Len(T) /\ p \in 1 .. Len(u)
      <4>a. Len(t) = 2 * ix /\ Len(u) = 2 * ix + 2 * g
        BY <1>2, <1>9
      <4>b. 2 * ix <= 2 * ix + 2 * g
        OBVIOUS
      <4>1. Len(t) <= Len(u)
        BY <4>a, <4>b, Zenon
      <4>2. Len(b) \in Nat /\ Len(u) \in Nat /\ Len(t) \in Nat
        BY <1>5, <1>9
      <4> QED
        BY <1>12, <3>3, <4>1, <4>2
    <3>5. T[p] = t[p]
      BY <1>9, <1>12, <3>3, <3>4
    <3>6. p <= Len(T)
      BY <1>12, <3>3, <3>4
    <3> QED
      BY <3>2, <3>5, <3>6 DEF p
  <2> QED
    BY <2>3, <2>4
<1>19. (m + 1) - 1 = m
  BY <1>1
<1>20. Unfinished(w, T, I + 1, m + 1)
  BY <1>13, <1>15, <1>16, <1>17, <1>18, <1>19 DEF Unfinished, ms, n
<1> QED
  BY <1>8, <1>20, <1>a

LEMMA LastIndex ==
  ASSUME NEW ms \in Seq(Member)
  PROVE  NextIn(ms, Len(ms) + 1) \in Nat /\ (Len(ms) # 0 => NextIn(ms, Len(ms) + 1) = IndexIn(ms, Len(ms)) + 1)
<1> DEFINE n == Len(ms)
<1>1. n \in Nat /\ (n + 1) - 1 = n /\ (n + 1 = 1 <=> n = 0)
  OBVIOUS
<1>2. NextIn(ms, n + 1) = IF n = 0 THEN 0 ELSE IndexIn(ms, n) + 1
  BY <1>1 DEF NextIn
<1>3. n # 0 => IndexIn(ms, n) \in Nat
  <2>1. n # 0 => n \in DOMAIN ms
    BY <1>1
  <2> QED
    BY <2>1, IndexFacts
<1> HIDE DEF n
<1>4. NextIn(ms, n + 1) \in Nat /\ (n # 0 => NextIn(ms, n + 1) = IndexIn(ms, n) + 1)
  BY <1>1, <1>2, <1>3
<1> QED
  BY <1>4 DEF n

LEMMA BodyFacts ==
  ASSUME NEW w \in Written
  PROVE  LET n == NextIn(w.mapping.members, Len(w.mapping.members) + 1)
         IN  /\ Body(w) \in Nat /\ n \in Nat
             /\ Len(w.mapping.members) = 0 => Body(w) = 0 /\ n = 0
             /\ Len(w.mapping.members) # 0 => n >= 1 /\ Body(w) = IF w.trailing THEN 2 * n ELSE 2 * n - 1
<1> DEFINE ms == w.mapping.members
           n == NextIn(ms, Len(ms) + 1)
<1>1. ms \in Seq(Member) /\ w.trailing \in BOOLEAN /\ Len(ms) \in Nat
  BY WrittenFacts
<1>2. n \in Nat /\ (Len(ms) # 0 => n = IndexIn(ms, Len(ms)) + 1)
  BY <1>1, LastIndex
<1>3. Len(ms) # 0 => IndexIn(ms, Len(ms)) \in Nat
  <2>1. Len(ms) # 0 => Len(ms) \in DOMAIN ms
    BY <1>1
  <2> QED
    BY <1>1, <2>1, IndexFacts
<1>4. Body(w) = IF Len(ms) = 0 THEN 0 ELSE 2 * n - (IF w.trailing THEN 0 ELSE 1)
  BY DEF Body
<1>5. Len(ms) = 0 => n = 0
  BY <1>1 DEF NextIn
<1> DEFINE l == Len(ms)
           b == Body(w)
           x == IndexIn(ms, l)
<1>6. /\ l \in Nat /\ n \in Nat /\ (l # 0 => n = x + 1 /\ x \in Nat) /\ (l = 0 => n = 0)
      /\ b = IF l = 0 THEN 0 ELSE 2 * n - (IF w.trailing THEN 0 ELSE 1)
  BY <1>1, <1>2, <1>3, <1>4, <1>5
<1> HIDE DEF l, b, x, n
<1>7. /\ b \in Nat /\ n \in Nat
      /\ l = 0 => b = 0 /\ n = 0
      /\ l # 0 => n >= 1 /\ b = IF w.trailing THEN 2 * n ELSE 2 * n - 1
  BY <1>6
<1> QED
  BY <1>7 DEF l, b, n

LEMMA FinishStep ==
  ASSUME NEW w \in Written, NEW t \in Seq(Token), NEW ix, NEW m,
         m = Len(w.mapping.members) + 1, Unfinished(w, t, ix, m)
  PROVE  WholeText(w, t \o Comma(w.trailing /\ Len(w.mapping.members) > 0) \o One("]"))
<1> DEFINE ms == w.mapping.members
           l == Len(ms)
           n == NextIn(ms, l + 1)
           a == Len(t)
           B == Body(w)
           comma == w.trailing /\ l > 0
           c == Comma(comma)
           d == Len(c)
           o == One("]")
           u == t \o c
           T == u \o o
<1>1. ms \in Seq(Member) /\ l \in Nat /\ w.trailing \in BOOLEAN
  BY WrittenFacts
<1>2. /\ B \in Nat /\ n \in Nat /\ (l = 0 => B = 0)
      /\ (l # 0 => n >= 1 /\ B = IF w.trailing THEN 2 * n ELSE 2 * n - 1)
  BY BodyFacts
<1>3. /\ ix = n /\ a = IF l = 0 THEN 0 ELSE 2 * n - 1
      /\ Alternates(t, a) /\ PutInPlace(w, t, l, a)
  <2>1. ix = NextIn(ms, m) /\ ~(m <= l) /\ m - 1 = l
    BY <1>1 DEF Unfinished
  <2>2. a = (IF m <= l THEN 2 * ix ELSE IF l = 0 THEN 0 ELSE 2 * ix - 1) /\ Alternates(t, a) /\ PutInPlace(w, t, m - 1, a)
    BY Zenon DEF Unfinished
  <2>3. ix = n
    BY <2>1
  <2> QED
    BY <2>1, <2>2, <2>3
<1>4. c \in Seq(Token) /\ (comma => d = 1 /\ c[1] = ",") /\ (~comma => d = 0)
  BY CommaFacts
<1>5. o \in Seq(Token) /\ Len(o) = 1 /\ o[1] = "]"
  <2>1. "]" \in Token
    BY DEF Token
  <2> QED
    BY <2>1, OneFacts
<1>6. (comma <=> w.trailing /\ l # 0)
  BY <1>1
<1>7. B = a + d /\ a \in Nat /\ d \in {0, 1} /\ (d = 1 <=> comma) /\ (comma => a = 2 * n - 1)
  <2>1. d \in {0, 1} /\ (d = 1 <=> comma)
    <3>1. comma => d = 1
      BY <1>4, Zenon
    <3>2. ~comma => d = 0
      BY <1>4, Zenon
    <3> HIDE DEF d, comma
    <3>3. d = 0 => d # 1
      OBVIOUS
    <3>4. d = 0 => d \in {0, 1}
      OBVIOUS
    <3>5. d = 1 => d \in {0, 1}
      OBVIOUS
    <3> QED
      BY <3>1, <3>2, <3>3, <3>4, <3>5, Zenon
  <2> HIDE DEF B, a, d, n, l, comma
  <2>2. CASE l = 0
    <3>1. ~comma
      BY <1>6, <2>2
    <3>2. d = 0 /\ B = 0 /\ a = 0
      BY <1>2, <1>3, <2>1, <2>2, <3>1
    <3> QED
      BY <2>1, <3>1, <3>2
  <2>3. CASE l # 0
    <3>1. B = (IF w.trailing THEN 2 * n ELSE 2 * n - 1) /\ a = 2 * n - 1 /\ n >= 1
      BY <1>2, <1>3, <2>3
    <3>2. comma <=> w.trailing
      BY <1>6, <2>3
    <3> QED
      BY <1>2, <2>1, <3>1, <3>2
  <2> QED
    BY <2>2, <2>3
<1>8. /\ u \in Seq(Token) /\ Len(u) = a + d
      /\ \A i \in 1 .. a : u[i] = t[i]
      /\ \A i \in 1 .. d : u[a + i] = c[i]
  BY <1>4, Joined, Zenon
<1> HIDE DEF u, c, d, comma
<1>9. /\ T \in Seq(Token) /\ Len(T) = Len(u) + Len(o)
      /\ \A i \in 1 .. Len(u) : T[i] = u[i]
      /\ \A i \in 1 .. Len(o) : T[Len(u) + i] = o[i]
  BY <1>5, <1>8, Joined, Zenon
<1> HIDE DEF T, o, a, B, n
<1>10. Len(u) = B
  BY <1>7, <1>8
<1>11. Len(T) = B + 1 /\ T[B + 1] = "]"
  <2>1. 1 \in 1 .. Len(o)
    BY <1>5
  <2>2. T[Len(u) + 1] = o[1]
    BY <1>9, <2>1
  <2> QED
    BY <1>5, <1>9, <1>10, <2>2
<1>12. \A i \in 1 .. a : T[i] = t[i]
  <2>1. \A i \in 1 .. a : i \in 1 .. Len(u)
    BY <1>7, <1>10
  <2> QED
    BY <1>8, <1>9, <2>1
<1>13. comma => T[2 * n] = ","
  <2> SUFFICES ASSUME comma PROVE T[2 * n] = ","
    OBVIOUS
  <2>1. d = 1 /\ a + 1 = 2 * n /\ 1 \in 1 .. d
    BY <1>2, <1>7
  <2>2. u[a + 1] = c[1]
    BY <1>8, <2>1
  <2>3. c[1] = ","
    BY <1>4, Zenon
  <2>4. a + 1 \in 1 .. Len(u)
    BY <1>7, <1>10, <2>1
  <2>5. T[a + 1] = u[a + 1]
    BY <1>9, <2>4
  <2> QED
    BY <2>1, <2>2, <2>3, <2>5
<1>14. Alternates(T, B)
  <2>1. ASSUME NEW k \in Nat, 2 * k + 1 <= B PROVE T[2 * k + 1] \in {"v", "null"}
    <3> DEFINE i == 2 * k + 1
    <3>1. i \in 1 .. a /\ i <= a
      BY <1>2, <1>7, <2>1
    <3>2. t[i] \in {"v", "null"}
      BY <1>3, <3>1 DEF Alternates
    <3> HIDE DEF i
    <3>3. T[i] = t[i]
      BY <1>12, <3>1
    <3> QED
      BY <3>2, <3>3 DEF i
  <2>2. ASSUME NEW k \in Nat, 2 * k + 2 <= B PROVE T[2 * k + 2] = ","
    <3> DEFINE i == 2 * k + 2
    <3>1. CASE i <= a
      <4>1. i \in 1 .. a
        BY <1>7, <3>1
      <4>2. t[i] = ","
        BY <1>3, <3>1 DEF Alternates
      <4> HIDE DEF i
      <4>3. T[i] = t[i]
        BY <1>12, <4>1
      <4> QED
        BY <4>2, <4>3 DEF i
    <3>2. CASE ~(i <= a)
      <4>1. comma /\ i = 2 * n
        BY <1>2, <1>7, <2>2, <3>2
      <4> QED
        BY <1>13, <4>1
    <3> QED
      BY <3>1, <3>2
  <2> QED
    BY <2>1, <2>2 DEF Alternates
<1>15. PutInPlace(w, T, l, B)
  <2> SUFFICES ASSUME NEW k \in 1 .. l
               PROVE  LET p == 2 * IndexIn(ms, k) + 1 IN p <= B /\ T[p] = w.values[k]
    BY DEF PutInPlace
  <2> DEFINE p == 2 * IndexIn(ms, k) + 1
  <2>1. p <= a /\ t[p] = w.values[k]
    BY <1>3 DEF PutInPlace
  <2>2. IndexIn(ms, k) \in Nat
    <3>1. k \in DOMAIN ms
      BY <1>1
    <3> QED
      BY <1>1, <3>1, IndexFacts
  <2>3. p \in 1 .. a /\ p <= B
    BY <1>7, <2>1, <2>2
  <2> HIDE DEF p
  <2>4. T[p] = t[p]
    BY <1>12, <2>3
  <2> QED
    BY <2>1, <2>3, <2>4 DEF p
<1>16. WholeText(w, T)
  BY <1>11, <1>14, <1>15 DEF WholeText, B
<1> QED
  BY <1>16, Zenon DEF T, u, c, o, comma

(***************************************************************************)
(* What is written is an array of numbers and nulls, the members at their  *)
(* indexes.                                                                *)
(***************************************************************************)
LEMMA WholeTokens ==
  ASSUME NEW w \in Written, NEW t \in Seq(Token), WholeText(w, t)
  PROVE  /\ Body(w) \in Nat /\ DOMAIN t = 1 .. Body(w) + 1 /\ Len(t) = Body(w) + 1
         /\ t[Body(w) + 1] = "]"
         /\ \A i \in 1 .. Body(w) :
              \E k \in Nat : \/ i = 2 * k + 1 /\ t[i] \in {"v", "null"}
                             \/ i = 2 * k + 2 /\ t[i] = ","
<1> DEFINE B == Body(w)
<1>1. B \in Nat
  BY BodyFacts
<1>2. Len(t) = B + 1
  BY DEF WholeText
<1>t. t[B + 1] = "]" /\ Alternates(t, B)
  BY DEF WholeText
<1> HIDE DEF B
<1>3. ASSUME NEW i \in 1 .. B
      PROVE  \E k \in Nat : \/ i = 2 * k + 1 /\ t[i] \in {"v", "null"}
                            \/ i = 2 * k + 2 /\ t[i] = ","
  <2>1. i \in Nat /\ i >= 1 /\ i <= B
    BY <1>1
  <2>2. PICK k \in Nat : i = 2 * k + 1 \/ i = 2 * k + 2
    BY <2>1, Parity
  <2>3. /\ 2 * k + 1 <= B => t[2 * k + 1] \in {"v", "null"}
        /\ 2 * k + 2 <= B => t[2 * k + 2] = ","
    BY <1>t DEF Alternates
  <2> QED
    BY <2>1, <2>2, <2>3
<1>4. DOMAIN t = 1 .. B + 1
  BY <1>2
<1> QED
  BY <1>1, <1>2, <1>t, <1>3, <1>4 DEF B

LEMMA WholeSeparated ==
  ASSUME NEW w \in Written, NEW t \in Seq(Token), WholeText(w, t)
  PROVE  /\ Separated(t)
         /\ \A i \in DOMAIN t : t[i] # "["
         /\ w.trailing = FALSE => NothingTrails(t)
<1> DEFINE B == Body(w)
<1>1. B \in Nat /\ DOMAIN t = 1 .. B + 1
  BY WholeTokens
<1>t. t[B + 1] = "]"
  BY WholeTokens
<1>q. \A i \in 1 .. B :
        \E k \in Nat : \/ i = 2 * k + 1 /\ t[i] \in {"v", "null"}
                       \/ i = 2 * k + 2 /\ t[i] = ","
  BY WholeTokens
<1>2. Alternates(t, B)
  BY DEF WholeText
<1>3. w.trailing = FALSE => \A k \in Nat : B # 2 * k + 2
  <2> DEFINE n == NextIn(w.mapping.members, Len(w.mapping.members) + 1)
  <2>1. n \in Nat /\ (B = 0 \/ (w.trailing = FALSE => B = 2 * n - 1))
    BY BodyFacts
  <2> HIDE DEF B, n
  <2> QED
    BY <2>1
<1> HIDE DEF B
<1>4. \A i \in DOMAIN t : i \in 1 .. B \/ i = B + 1
  BY <1>1
<1>5. \A i \in DOMAIN t : t[i] # "["
  <2> SUFFICES ASSUME NEW i \in DOMAIN t PROVE t[i] # "["
    OBVIOUS
  <2>1. CASE i = B + 1
    BY <1>t, <2>1
  <2>2. CASE i \in 1 .. B
    BY <1>q, <2>2
  <2> QED
    BY <1>4, <2>1, <2>2
<1>6. ASSUME NEW i \in DOMAIN t
      PROVE  /\ t[i] \in {"v", "null", "["} => i = 1 \/ t[i - 1] = ","
             /\ t[i] = "," => i # 1 /\ t[i - 1] \in {"v", "null"}
  <2>1. CASE i = B + 1
    BY <1>t, <2>1
  <2>2. CASE i \in 1 .. B
    <3>1. PICK k \in Nat : \/ i = 2 * k + 1 /\ t[i] \in {"v", "null"}
                           \/ i = 2 * k + 2 /\ t[i] = ","
      BY <1>q, <2>2
    <3>2. CASE i = 2 * k + 1 /\ t[i] \in {"v", "null"}
      <4>a. t[i] # ","
        BY <3>2
      <4>b. i = 2 * k + 1
        BY <3>2
      <4>1. CASE k = 0
        <5>1. i = 1
          BY <4>1, <4>b
        <5> QED
          BY <4>a, <5>1
      <4>2. CASE k # 0
        <5> DEFINE j == k - 1
        <5>0. i = 2 * k + 1
          BY <3>2
        <5>1. j \in Nat /\ i - 1 = 2 * j + 2 /\ 2 * j + 2 <= B
          BY <1>1, <2>2, <5>0, <4>2
        <5>2. t[2 * j + 2] = ","
          BY <1>2, <5>1 DEF Alternates
        <5>3. t[i - 1] = ","
          <6> HIDE DEF j
          <6> QED
            BY <5>1, <5>2
        <5> QED
          BY <4>a, <5>3
      <4> QED
        BY <4>1, <4>2
    <3>3. CASE i = 2 * k + 2 /\ t[i] = ","
      <4>0. i = 2 * k + 2
        BY <3>3
      <4>1. i - 1 = 2 * k + 1 /\ 2 * k + 1 <= B /\ i # 1
        BY <1>1, <2>2, <4>0
      <4>2. t[2 * k + 1] \in {"v", "null"}
        BY <1>2, <4>1 DEF Alternates
      <4> QED
        BY <3>3, <4>1, <4>2
    <3> QED
      BY <3>1, <3>2, <3>3
  <2> QED
    BY <1>4, <2>1, <2>2
<1>7. Separated(t)
  <2> SUFFICES ASSUME NEW i \in DOMAIN t
               PROVE  LET before == IF i = 1 THEN "[" ELSE t[i - 1]
                      IN  /\ t[i] \in {"v", "null", "["} => before \in {"[", ","}
                          /\ t[i] = "," => before \in {"v", "null", "]"}
    BY DEF Separated
  <2> QED
    BY <1>6
<1>8. ASSUME w.trailing = FALSE PROVE NothingTrails(t)
  <2> SUFFICES ASSUME NEW i \in DOMAIN t \ {1}, t[i] = "]" PROVE t[i - 1] # ","
    BY DEF NothingTrails
  <2>1. i = B + 1
    <3>1. CASE i \in 1 .. B
      BY <1>q, <3>1
    <3> QED
      BY <1>4, <3>1
  <2>2. i - 1 = B /\ B \in 1 .. B
    BY <1>1, <2>1
  <2>3. PICK k \in Nat : \/ B = 2 * k + 1 /\ t[B] \in {"v", "null"}
                         \/ B = 2 * k + 2 /\ t[B] = ","
    BY <1>q, <2>2
  <2>4. t[B] \in {"v", "null"}
    BY <1>3, <1>8, <2>3
  <2> QED
    BY <2>2, <2>4
<1> QED
  BY <1>5, <1>7, <1>8

LEMMA WholeOuter ==
  ASSUME NEW w \in Written, NEW t \in Seq(Token), WholeText(w, t)
  PROVE  ClosedAt(t, Body(w) + 1) /\ \A p \in 1 .. Body(w) + 1 : Outer(t, p)
<1> DEFINE B == Body(w)
<1>1. B \in Nat /\ DOMAIN t = 1 .. B + 1 /\ Len(t) = B + 1
  BY WholeTokens
<1>t. t[B + 1] = "]"
  BY WholeTokens
<1>q. \A i \in 1 .. B :
        \E k \in Nat : \/ i = 2 * k + 1 /\ t[i] \in {"v", "null"}
                       \/ i = 2 * k + 2 /\ t[i] = ","
  BY WholeTokens
<1>2. \A i \in DOMAIN t : t[i] # "["
  BY WholeSeparated
<1> HIDE DEF B
<1>3. \A i \in 1 .. B : t[i] # "]"
  BY <1>q
<1>4. \A j \in 0 .. B : Depth(t, j) = 0
  <2> SUFFICES ASSUME NEW j \in 0 .. B PROVE Depth(t, j) = 0
    OBVIOUS
  <2>1. j \in Int
    BY <1>1
  <2>2. Opens(t) \cap (1 .. j) = {}
    BY <1>2 DEF Opens
  <2>3. Closes(t) \cap (1 .. j) = {}
    BY <1>1, <1>3 DEF Closes
  <2>4. CountIn(Opens(t), 1, j) = 0
    BY <2>1, <2>2, CountNone
  <2>5. CountIn(Closes(t), 1, j) = 0
    BY <2>1, <2>3, CountNone
  <2> QED
    BY <2>4, <2>5 DEF Depth
<1>5. \A p \in 1 .. B + 1 : Outer(t, p)
  <2> SUFFICES ASSUME NEW p \in 1 .. B + 1 PROVE Outer(t, p)
    OBVIOUS
  <2>1. p \in 1 .. Len(t) + 1 /\ p - 1 \in 0 .. B /\ \A j \in 0 .. p - 1 : j \in 0 .. B
    BY <1>1
  <2> QED
    BY <1>4, <2>1 DEF Outer
<1>6. ClosedAt(t, B + 1)
  <2>1. B + 1 \in DOMAIN t /\ B + 1 \in 1 .. B + 1
    BY <1>1
  <2> QED
    BY <1>t, <1>5, <2>1, OuterBracket
<1> QED
  BY <1>5, <1>6 DEF B

LEMMA WholeCounts ==
  ASSUME NEW w \in Written, NEW t \in Seq(Token), WholeText(w, t)
  PROVE  \A k \in Nat : /\ 2 * k + 1 <= Body(w) + 1 => Begun(t, 2 * k + 1) = k
                        /\ 2 * k + 2 <= Body(w) + 1 => Begun(t, 2 * k + 2) = k + 1
<1> DEFINE B == Body(w)
<1>1. B \in Nat /\ DOMAIN t = 1 .. B + 1
  BY WholeTokens
<1>2. \A p \in 1 .. B + 1 : Outer(t, p)
  BY WholeOuter
<1>3. Alternates(t, B)
  BY DEF WholeText
<1> HIDE DEF B
<1>4. ASSUME NEW k \in Nat, 2 * k + 2 <= B + 1, Begun(t, 2 * k + 1) = k
      PROVE  Begun(t, 2 * k + 2) = k + 1
  <2> DEFINE q == 2 * k + 1
  <2>1. q \in DOMAIN t /\ q \in 1 .. B + 1 /\ q + 1 = 2 * k + 2 /\ q <= B
    BY <1>1, <1>4
  <2>2. t[q] \in {"v", "null"}
    BY <1>3, <2>1 DEF Alternates
  <2> HIDE DEF q
  <2>3. ItemEnd(t, q, q + 1)
    BY <1>2, <2>1, <2>2, TokenEnd
  <2>4. Begun(t, q + 1) = Begun(t, q) + 1
    BY <2>3, ItemCounts
  <2> QED
    BY <1>4, <2>1, <2>4 DEF q
<1>5. ASSUME NEW k \in Nat, 2 * k + 3 <= B + 1, Begun(t, 2 * k + 2) = k + 1
      PROVE  Begun(t, 2 * k + 3) = k + 1
  <2> DEFINE q == 2 * k + 2
  <2>1. q \in DOMAIN t /\ q \in 1 .. B + 1 /\ q + 1 = 2 * k + 3 /\ q <= B
    BY <1>1, <1>5
  <2>2. t[q] = ","
    BY <1>3, <2>1 DEF Alternates
  <2> HIDE DEF q
  <2>3. q \in CommasOf(t)
    BY <1>2, <2>1, <2>2 DEF CommasOf
  <2>4. Begun(t, q + 1) = Begun(t, q)
    BY <2>3, CommaCounts
  <2> QED
    BY <1>5, <2>1, <2>4 DEF q
<1> DEFINE S == {k \in Nat : 2 * k + 1 <= B + 1 /\ Begun(t, 2 * k + 1) # k}
<1>6. S = {}
  <2> SUFFICES ASSUME S # {} PROVE FALSE
    OBVIOUS
  <2>1. PICK k \in S : \A j \in S : k <= j
    <3>1. S \in SUBSET Nat
      OBVIOUS
    <3> HIDE DEF S
    <3> QED
      BY <3>1, LeastExists
  <2>2. k \in Nat /\ 2 * k + 1 <= B + 1 /\ Begun(t, 2 * k + 1) # k
    BY <2>1
  <2>3. CASE k = 0
    BY <2>2, <2>3, OuterFirst
  <2>4. CASE k # 0
    <3> DEFINE j == k - 1
    <3>1. j \in Nat /\ ~(k <= j) /\ 2 * j + 1 <= B + 1 /\ 2 * j + 2 <= B + 1 /\ 2 * j + 3 <= B + 1
          /\ 2 * j + 3 = 2 * k + 1 /\ j + 1 = k
      BY <1>1, <2>2, <2>4
    <3>2. j \notin S
      BY <2>1, <3>1
    <3>3. Begun(t, 2 * j + 1) = j
      BY <3>1, <3>2
    <3> HIDE DEF S, j
    <3>4. Begun(t, 2 * j + 3) = j + 1
      BY <1>4, <1>5, <3>1, <3>3
    <3> QED
      BY <2>2, <3>1, <3>4
  <2> QED
    BY <2>3, <2>4
<1>7. \A k \in Nat : 2 * k + 1 <= B + 1 => Begun(t, 2 * k + 1) = k
  BY <1>6
<1>8. \A k \in Nat : 2 * k + 2 <= B + 1 => Begun(t, 2 * k + 2) = k + 1
  <2> SUFFICES ASSUME NEW k \in Nat, 2 * k + 2 <= B + 1 PROVE Begun(t, 2 * k + 2) = k + 1
    OBVIOUS
  <2>1. 2 * k + 1 <= B + 1
    BY <1>1
  <2> HIDE DEF S
  <2> QED
    BY <1>4, <1>7, <2>1
<1> QED
  BY <1>7, <1>8 DEF B

LEMMA WholeMembers ==
  ASSUME NEW w \in Written, NEW t \in Seq(Token), WholeText(w, t)
  PROVE  LET ms == w.mapping.members
         IN  /\ \A m \in DOMAIN ms : \E q \in ItemsOf(t) : Begun(t, q) = IndexIn(ms, m) /\ t[q] = w.values[m]
             /\ \A i \in ItemsOf(t) : Begun(t, i) < NextIn(ms, Len(ms) + 1)
             /\ w.trailing = FALSE => \A i \in DOMAIN t : t[i] = "," => Begun(t, i) < NextIn(ms, Len(ms) + 1)
<1> DEFINE B == Body(w)
           ms == w.mapping.members
           n == NextIn(ms, Len(ms) + 1)
<1>1. B \in Nat /\ DOMAIN t = 1 .. B + 1
  BY WholeTokens
<1>t. t[B + 1] = "]"
  BY WholeTokens
<1>q. \A i \in 1 .. B :
        \E k \in Nat : \/ i = 2 * k + 1 /\ t[i] \in {"v", "null"}
                       \/ i = 2 * k + 2 /\ t[i] = ","
  BY WholeTokens
<1>2. /\ \A k \in Nat : 2 * k + 1 <= B + 1 => Begun(t, 2 * k + 1) = k
      /\ \A k \in Nat : 2 * k + 2 <= B + 1 => Begun(t, 2 * k + 2) = k + 1
  BY WholeCounts
<1>3. n \in Nat /\ B <= 2 * n /\ (w.trailing = FALSE => B = 0 \/ B = 2 * n - 1)
  <2>1. /\ n \in Nat /\ (Len(ms) = 0 => B = 0 /\ n = 0)
        /\ (Len(ms) # 0 => n >= 1 /\ B = IF w.trailing THEN 2 * n ELSE 2 * n - 1)
    BY BodyFacts
  <2> HIDE DEF B, n
  <2> QED
    BY <2>1
<1>4. ASSUME NEW m \in DOMAIN ms
      PROVE  \E q \in ItemsOf(t) : Begun(t, q) = IndexIn(ms, m) /\ t[q] = w.values[m]
  <2> DEFINE k == IndexIn(ms, m)
             q == 2 * k + 1
  <2>1. ms \in Seq(Member) /\ k \in Nat /\ w.values[m] \in {"v", "null"} /\ m \in 1 .. Len(ms)
    BY WrittenFacts, IndexFacts
  <2>2. q <= B /\ t[q] = w.values[m]
    BY <2>1 DEF WholeText, PutInPlace
  <2>3. Begun(t, q) = k
    <3>1. q <= B + 1
      BY <1>1, <2>1, <2>2
    <3> QED
      BY <1>2, <2>1, <3>1
  <2>4. q \in 1 .. B + 1 /\ q \in DOMAIN t
    BY <1>1, <2>1, <2>2
  <2>5. Outer(t, q)
    BY <2>4, WholeOuter
  <2> HIDE DEF q, k
  <2>6. q \in ItemsOf(t)
    BY <2>1, <2>2, <2>4, <2>5 DEF ItemsOf
  <2> QED
    BY <2>2, <2>3, <2>6 DEF k
<1> HIDE DEF B, n
<1>5. ASSUME NEW i \in ItemsOf(t) PROVE Begun(t, i) < n
  <2>1. i \in DOMAIN t /\ t[i] \in {"v", "null", "["}
    BY DEF ItemsOf
  <2>2. i \in 1 .. B
    <3>1. i # B + 1
      BY <1>t, <2>1
    <3>2. i \in 1 .. B + 1
      BY <1>1, <2>1
    <3> QED
      BY <1>1, <3>1, <3>2
  <2>3. PICK k \in Nat : i = 2 * k + 1
    BY <1>q, <2>1, <2>2
  <2>4. 2 * k + 1 <= B + 1 /\ k < n
    BY <1>1, <1>3, <2>2, <2>3
  <2> QED
    BY <1>2, <2>3, <2>4
<1>6. ASSUME w.trailing = FALSE, NEW i \in DOMAIN t, t[i] = "," PROVE Begun(t, i) < n
  <2>1. i \in 1 .. B
    <3>1. i # B + 1
      BY <1>t, <1>6
    <3>2. i \in 1 .. B + 1
      BY <1>1
    <3> QED
      BY <1>1, <3>1, <3>2
  <2>2. PICK k \in Nat : i = 2 * k + 2
    BY <1>q, <1>6, <2>1
  <2>a. B = 0 \/ B = 2 * n - 1
    BY <1>3, <1>6
  <2>3. 2 * k + 2 <= B + 1 /\ k + 1 < n
    BY <1>1, <1>3, <2>1, <2>2, <2>a
  <2> QED
    BY <1>2, <2>2, <2>3
<1> QED
  BY <1>4, <1>5, <1>6 DEF n

-----------------------------------------------------------------------------
(* Where the text comes from.                                              *)

\* What is written.
Source == [mapping |-> mapping, values |-> object.values, trailing |-> object.trailing]

Origin ==
  \/ phase # "write" /\ object = NoObject /\ [mapping |-> mapping, text |-> text] \in Given
  \/ /\ Source \in Written
     /\ phase = "write" => Unfinished(Source, text, index, member)
     /\ phase # "write" => WholeText(Source, text)

LEMMA InitOrigin == Init => Origin
<1> SUFFICES ASSUME Init PROVE Origin
  OBVIOUS
<1>1. member = 1 /\ index = 0
  BY DEF Init
<1>2. ASSUME NEW g \in Given, mapping = g.mapping, text = g.text, object = NoObject, phase = "member"
      PROVE  Origin
  <2>1. g \in [mapping : Mapping, text : Seq(Token)]
    BY OrderedAssumption DEF OrderedAssumption
  <2>2. [mapping |-> mapping, text |-> text] = g
    BY <1>2, <2>1
  <2> QED
    BY <1>2, <2>2 DEF Origin
<1>3. ASSUME NEW w \in Written, mapping = w.mapping, text = <<>>,
             object = [values |-> w.values, trailing |-> w.trailing], phase = "write"
      PROVE  Origin
  <2>1. w \in [mapping : Mapping, values : Seq({"v", "null"}), trailing : BOOLEAN]
    BY OrderedAssumption DEF OrderedAssumption
  <2>2. Source = w
    BY <1>3, <2>1 DEF Source
  <2>3. Unfinished(w, text, 0, 1)
    <3> DEFINE ms == w.mapping.members
    <3>1. Len(ms) \in Nat
      BY WrittenFacts
    <3>2. Len(text) = 0
      BY <1>3
    <3>3. NextIn(ms, 1) = 0
      BY DEF NextIn
    <3>a. \A k \in Nat : ~(2 * k + 1 <= 0) /\ ~(2 * k + 2 <= 0)
      OBVIOUS
    <3>4. Alternates(text, 0)
      BY <3>a, Zenon DEF Alternates
    <3>5. PutInPlace(w, text, 1 - 1, 0)
      BY DEF PutInPlace
    <3>6. 0 = IF 1 <= Len(ms) THEN 2 * 0 ELSE IF Len(ms) = 0 THEN 0 ELSE 2 * 0 - 1
      BY <3>1
    <3>7. 0 = 1 - 1
      OBVIOUS
    <3> HIDE DEF ms
    <3> QED
      BY <3>2, <3>3, <3>4, <3>5, <3>6, <3>7, Zenon DEF Unfinished, ms
  <2> QED
    BY <1>1, <1>3, <2>2, <2>3 DEF Origin
<1> QED
  BY <1>2, <1>3 DEF Init

LEMMA NextOrigin ==
  ASSUME WrittenWithoutGaps, TypeInv, Origin, [Next]_vars
  PROVE  Origin'
<1>1. /\ mapping \in Mapping /\ text \in Seq(Token) /\ member \in 1 .. Count + 1 /\ index \in Nat
  BY DEF TypeInv, TypeOK
<1>2. ASSUME mapping' = mapping, text' = text, object' = object, phase # "write", phase' # "write"
      PROVE  Origin'
  BY <1>2 DEF Origin, Source
<1>3. CASE WriteMember
  <2>1. /\ phase = "write" /\ phase' = "write" /\ mapping' = mapping /\ object' = object
        /\ member <= Count /\ member' = member + 1 /\ index' = index + Gap(member) + 1
    BY <1>3 DEF WriteMember
  <2>a. text' = text \o Fill(Gap(member)) \o <<object.values[member]>> \o CommaBehind(index')
    BY <1>3, Zenon DEF WriteMember
  <2> DEFINE w == Source
             ms == w.mapping.members
  <2>2. w \in Written /\ Unfinished(w, text, index, member)
    BY <2>1 DEF Origin
  <2>3. w.mapping = mapping /\ w.values = object.values /\ ms = mapping.members /\ Len(ms) = Count
    BY DEF Source, Count
  <2>4. ms \in Seq(Member) /\ Len(ms) \in Nat
    BY <2>2, WrittenFacts
  <2>5. member \in DOMAIN ms /\ GapBeforeLast(ms)
    <3>1. GapBeforeLast(ms)
      BY <2>2 DEF WrittenWithoutGaps
    <3>2. member \in 1 .. Len(ms)
      BY <1>1, <2>1, <2>3, <2>4
    <3> QED
      BY <2>4, <3>1, <3>2
  <2>6. index = NextIn(ms, member) /\ index = member - 1
    <3>1. member <= Len(ms)
      BY <2>1, <2>3
    <3> QED
      BY <2>2, <3>1 DEF Unfinished
  <2> DEFINE g == Gap(member)
             j == index'
  <2>7. g \in Nat /\ IndexIn(ms, member) = index + g
    <3>1. g = IF ms[member].at # NoIndex /\ ms[member].at > index THEN ms[member].at - index ELSE 0
      BY <2>3 DEF Gap, IsOrdered
    <3>2. ms[member].at \in Nat \cup {NoIndex}
      <4>1. ms[member] \in Member
        BY <2>4, <2>5
      <4> QED
        BY <4>1 DEF Member
    <3>3. /\ ms[member].at # NoIndex => IndexIn(ms, member) = ms[member].at
          /\ ms[member].at = NoIndex => IndexIn(ms, member) = index
          /\ IndexIn(ms, member) >= member - 1
      BY <2>4, <2>5, <2>6, IndexFacts, GapIndex
    <3> DEFINE a == ms[member].at
               x == IndexIn(ms, member)
    <3>4. /\ g = IF a # NoIndex /\ a > index THEN a - index ELSE 0
          /\ a \in Nat \cup {NoIndex} /\ (a # NoIndex => x = a) /\ (a = NoIndex => x = index)
          /\ x >= index
      BY <2>6, <3>1, <3>2, <3>3
    <3> HIDE DEF a, x, g
    <3>5. g \in Nat /\ x = index + g
      BY <1>1, <3>4
    <3> QED
      BY <3>5 DEF x
  <2> HIDE DEF w, ms, g, j
  <2>8. j \in Nat /\ j = index + g + 1
    BY <1>1, <2>1, <2>7 DEF j, g
  <2>9. Unfinished(w, text \o Fill(g) \o One(w.values[member]) \o Comma(j < Len(ms)), j, member + 1)
    <3>1. /\ index \in Nat /\ GapBeforeLast(w.mapping.members) /\ member \in DOMAIN w.mapping.members
          /\ g \in Nat /\ IndexIn(w.mapping.members, member) = index + g
      BY <1>1, <2>5, <2>7 DEF ms
    <3>2. Unfinished(w, text \o Fill(g) \o One(w.values[member]) \o Comma(j < Len(w.mapping.members)), j, member + 1)
      BY <1>1, <2>2, <2>8, <3>1, WriteStep
    <3> QED
      BY <3>2 DEF ms
  <2>10. text' = text \o Fill(g) \o One(w.values[member]) \o Comma(j < Len(ms))
    <3>1. CommaBehind(j) = Comma(j < Len(ms))
      BY <2>3, Zenon DEF CommaBehind, Comma
    <3>2. One(w.values[member]) = <<object.values[member]>>
      BY <2>3, Zenon DEF One
    <3> QED
      BY <2>a, <3>1, <3>2, Zenon DEF g, j
  <2>11. Source' = w
    BY <2>1 DEF Source, w
  <2>12. Unfinished(w, text', j, member + 1)
    BY <2>9, <2>10, Zenon
  <2>13. Unfinished(Source', text', index', member')
    BY <2>1, <2>11, <2>12, Zenon DEF j
  <2> QED
    BY <2>1, <2>2, <2>11, <2>13, Zenon DEF Origin
<1>4. CASE WriteEnd
  <2>1. /\ phase = "write" /\ phase' = "member" /\ mapping' = mapping /\ object' = object /\ ~(member <= Count)
    <3>1. /\ phase = "write" /\ phase' = "member" /\ mapping' = mapping /\ object' = object /\ member > Count
      BY <1>4, Zenon DEF WriteEnd
    <3>2. Count \in Nat
      BY <1>1, CountFacts
    <3> QED
      BY <1>1, <3>1, <3>2
  <2>a. text' = text \o (IF object.trailing /\ Count > 0 THEN <<",">> ELSE <<>>) \o <<"]">>
    BY <1>4, Zenon DEF WriteEnd
  <2> DEFINE w == Source
             ms == w.mapping.members
  <2>2. w \in Written /\ Unfinished(w, text, index, member)
    BY <2>1 DEF Origin
  <2>3. w.trailing = object.trailing /\ Len(ms) = Count
    BY DEF Source, Count
  <2> HIDE DEF w
  <2>4. member = Len(w.mapping.members) + 1
    <3>1. Count \in Nat
      BY <1>1, CountFacts
    <3> QED
      BY <1>1, <2>1, <2>3, <3>1
  <2>5. WholeText(w, text \o Comma(w.trailing /\ Len(w.mapping.members) > 0) \o One("]"))
    BY <1>1, <2>2, <2>4, FinishStep
  <2>6. text' = text \o Comma(w.trailing /\ Len(ms) > 0) \o One("]")
    BY <2>3, <2>a, Zenon DEF Comma, One
  <2>7. Source' = w
    BY <2>1 DEF Source, w
  <2>8. WholeText(Source', text')
    BY <2>5, <2>6, <2>7, Zenon
  <2> QED
    BY <2>1, <2>2, <2>7, <2>8 DEF Origin
<1>5. ASSUME Fail, phase # "write" PROVE Origin'
  BY <1>2, <1>5 DEF Fail
<1>6. CASE EnterPlain
  BY <1>2, <1>5, <1>6 DEF EnterPlain
<1>7. CASE EnterOrdered
  BY <1>2, <1>5, <1>7 DEF EnterOrdered
<1>8. CASE SkipElement
  BY <1>2, <1>5, <1>8 DEF SkipElement
<1>9. CASE EndSkip
  BY <1>2, <1>9 DEF EndSkip
<1>10. ASSUME NEW i, NEW next, phase = "value", Construct(i, next) PROVE Origin'
  BY <1>2, <1>10 DEF Construct
<1>11. CASE ParseValue
  BY <1>5, <1>10, <1>11 DEF ParseValue
<1>12. CASE ParseNull
  BY <1>5, <1>10, <1>12 DEF ParseNull
<1>13. CASE ConstructEmpty
  BY <1>5, <1>10, <1>13 DEF ConstructEmpty
<1>14. CASE RejectArray
  BY <1>5, <1>14 DEF RejectArray
<1>15. CASE SkipRest
  BY <1>2, <1>5, <1>15 DEF SkipRest
<1>16. CASE CloseExact
  BY <1>2, <1>5, <1>16 DEF CloseExact
<1>17. CASE UNCHANGED vars
  BY <1>17 DEF vars, Origin, Source
<1> QED
  BY <1>3, <1>4, <1>6, <1>7, <1>8, <1>9, <1>11, <1>12, <1>13, <1>14, <1>15, <1>16, <1>17
  DEF Next, Terminated

\* What the theorems assume of the texts and objects holds of the text parsed.
LEMMA OriginFacts ==
  ASSUME TypeInv, Origin, phase # "write"
  PROVE  /\ GivenSeparated => Separated(text)
         /\ GivenArrays => /\ Separated(text)
                           /\ NoArrayBehind([mapping |-> mapping, text |-> text])
                           /\ object = NoObject => NothingTrails(text)
<1>1. text \in Seq(Token)
  BY DEF TypeInv, TypeOK
<1>2. CASE [mapping |-> mapping, text |-> text] \in Given
  BY <1>2 DEF GivenSeparated, GivenArrays
<1>3. CASE Source \in Written /\ WholeText(Source, text)
  <2>1. /\ Separated(text) /\ (\A i \in DOMAIN text : text[i] # "[")
        /\ (Source.trailing = FALSE => NothingTrails(text))
    BY <1>1, <1>3, WholeSeparated
  <2>2. object = NoObject => Source.trailing = FALSE
    BY DEF NoObject, Source
  <2> QED
    BY <2>1, <2>2 DEF NoArrayBehind
<1> QED
  BY <1>2, <1>3 DEF Origin
-----------------------------------------------------------------------------
(* The cursor.                                                             *)

\* Nothing of the array follows the position but its closing bracket.
AtRim(t, p) == p \notin DOMAIN t \/ t[p] = "]"

BeforeComma(t, p) == p \in DOMAIN t /\ t[p] = ","

\* The index that is due.
Due(ms, ph, m) == IF ph = "member" THEN NextIn(ms, m) ELSE IndexIn(ms, m)

\* The cursor is in front of the element with index n, or the array ended before it.
InPlace(mp, t, ph, p, n, m) ==
  /\ n \in Nat
  /\ Outer(t, p)
  /\ Begun(t, p) <= n
  /\ n <= Due(mp.members, ph, m)
  /\ \/ AtRim(t, p)
     \/ Begun(t, p) = n /\ (ph # "skip" => n = Due(mp.members, ph, m))
  /\ ph # "member" \/ mp.form = "tuple" => ~BeforeComma(t, p)
  /\ ph = "skip" => mp.members[m].at # NoIndex

\* A class does not move over the comma behind a member.
BehindItem(mp, t, ph, p, m) ==
  mp.form = "class" /\ ph = "member" /\ m # 1 => AtRim(t, p) \/ BeforeComma(t, p)

\* Member m is made of the number at i, or is empty (0).
Matches(ms, t, m, i) ==
  \/ i # 0 /\ i \in ItemsOf(t) /\ Begun(t, i) = IndexIn(ms, m) /\ t[i] = "v"
  \/ /\ i = 0 /\ ms[m].nullable
     /\ \A j \in ItemsOf(t) : Begun(t, j) = IndexIn(ms, m) => t[j] = "null"

\* Where the cursor is taken to be: the element at the cursor has been counted
\* when its member is about to be parsed.
Reached == IF phase = "value" THEN index - 1 ELSE index

Parsing == phase \in {"member", "skip", "value"}

CursorInv ==
  Parsing => /\ InPlace(mapping, text, phase, pos, Reached, member)
             /\ BehindItem(mapping, text, phase, pos, member)

TakenInv ==
  phase # "write" => \A m \in DOMAIN taken : Matches(mapping.members, text, m, taken[m])

ParseInv == TypeInv /\ Origin /\ CursorInv /\ TakenInv

LEMMA RimIs ==
  ASSUME text \in Seq(Token), NEW i \in 1 .. Len(text) + 1
  PROVE  /\ AtRim(text, i) <=> At(i) \in {"]", "end"}
         /\ BeforeComma(text, i) <=> At(i) = ","
         /\ i \in DOMAIN text => At(i) = text[i] /\ At(i) \in Token
         /\ i \notin DOMAIN text => At(i) = "end"
<1>1. CASE i \in DOMAIN text
  <2>1. At(i) = text[i] /\ At(i) # "end" /\ At(i) \in Token
    BY <1>1, AtIs
  <2> QED
    BY <1>1, <2>1, Zenon DEF AtRim, BeforeComma
<1>2. CASE i \notin DOMAIN text
  <2>1. At(i) = "end"
    BY <1>2, AtIs
  <2>2. "end" # ","
    OBVIOUS
  <2> QED
    BY <1>2, <2>1, <2>2, Zenon DEF AtRim, BeforeComma
<1> QED
  BY <1>1, <1>2

\* All elements are before the end.
LEMMA RimItems ==
  ASSUME NEW t \in Seq(Token), NEW p, Outer(t, p), AtRim(t, p), NEW i \in ItemsOf(t)
  PROVE  Begun(t, i) < Begun(t, p)
<1>1. i \in DOMAIN t /\ Outer(t, i) /\ t[i] # "]"
  BY DEF ItemsOf
<1>2. p \in 1 .. Len(t) + 1 /\ p \in Nat /\ DOMAIN t = 1 .. Len(t)
  BY DEF Outer
<1>3. i < p
  <2>1. CASE p \notin DOMAIN t
    BY <1>1, <1>2, <2>1
  <2>2. CASE p \in DOMAIN t
    <3>1. t[p] = "]"
      BY <2>2 DEF AtRim
    <3>2. ClosedAt(t, p)
      BY <2>2, <3>1, OuterBracket
    <3> QED
      BY <1>1, <3>2, OuterUpToEnd
  <2> QED
    BY <2>1, <2>2
<1> QED
  BY <1>2, <1>3, BegunGrows

\* Moving over a comma, before a member ...
LEMMA BeforeFacts ==
  ASSUME text \in Seq(Token), Separated(text), mapping \in Mapping, NEW i, Outer(text, i),
         mapping.form = "tuple" => ~BeforeComma(text, i)
  PROVE  /\ Outer(text, BeforeMember(i))
         /\ Begun(text, BeforeMember(i)) = Begun(text, i)
         /\ ~BeforeComma(text, BeforeMember(i))
         /\ AtRim(text, i) => AtRim(text, BeforeMember(i))
<1>1. i \in 1 .. Len(text) + 1
  BY DEF Outer
<1>2. CASE mapping.form = "class"
  <2>1. BeforeMember(i) = MoveNext(i)
    BY <1>2 DEF BeforeMember
  <2>2. Outer(text, MoveNext(i)) /\ Begun(text, MoveNext(i)) = Begun(text, i) /\ At(MoveNext(i)) # ","
        /\ (At(i) # "," => MoveNext(i) = i)
    BY MoveFacts
  <2>3. MoveNext(i) \in 1 .. Len(text) + 1
    BY <2>2 DEF Outer
  <2>4. ~BeforeComma(text, MoveNext(i))
    BY <2>2, <2>3, RimIs
  <2>5. AtRim(text, i) => MoveNext(i) = i
    <3>1. AtRim(text, i) => At(i) # ","
      BY <1>1, RimIs
    <3> QED
      BY <2>2, <3>1
  <2> QED
    BY <2>1, <2>2, <2>4, <2>5
<1>3. CASE mapping.form # "class"
  <2>1. BeforeMember(i) = i /\ mapping.form = "tuple"
    BY <1>3 DEF BeforeMember, Mapping
  <2> QED
    BY <2>1
<1> QED
  BY <1>2, <1>3

\* ... and behind it.
LEMMA AfterFacts ==
  ASSUME text \in Seq(Token), Separated(text), NEW i, Outer(text, i)
  PROVE  /\ Outer(text, BehindMember(i))
         /\ Begun(text, BehindMember(i)) = Begun(text, i)
         /\ mapping.form = "tuple" => ~BeforeComma(text, BehindMember(i))
         /\ AtRim(text, i) => BehindMember(i) = i
         /\ mapping.form = "class" => BehindMember(i) = i
<1>1. i \in 1 .. Len(text) + 1
  BY DEF Outer
<1>2. CASE mapping.form = "tuple"
  <2>1. BehindMember(i) = MoveNext(i) /\ mapping.form # "class"
    BY <1>2 DEF BehindMember
  <2>2. Outer(text, MoveNext(i)) /\ Begun(text, MoveNext(i)) = Begun(text, i) /\ At(MoveNext(i)) # ","
        /\ (At(i) # "," => MoveNext(i) = i)
    BY MoveFacts
  <2>3. MoveNext(i) \in 1 .. Len(text) + 1
    BY <2>2 DEF Outer
  <2>4. ~BeforeComma(text, MoveNext(i))
    BY <2>2, <2>3, RimIs
  <2>5. AtRim(text, i) => MoveNext(i) = i
    <3>1. AtRim(text, i) => At(i) # ","
      BY <1>1, RimIs
    <3> QED
      BY <2>2, <3>1
  <2> QED
    BY <2>1, <2>2, <2>4, <2>5
<1>3. CASE mapping.form # "tuple"
  BY <1>3 DEF BehindMember
<1> QED
  BY <1>2, <1>3

LEMMA StartPlace ==
  ASSUME NEW t \in Seq(Token), Separated(t), NEW mp
  PROVE  /\ Start(t) = 1
         /\ InPlace(mp, t, "member", 1, 0, 1)
         /\ BehindItem(mp, t, "member", 1, 1)
<1>1. ~BeforeComma(t, 1)
  BY DEF BeforeComma, Separated
<1>2. Start(t) = 1
  <2>1. t # <<>> => 1 \in DOMAIN t
    OBVIOUS
  <2> QED
    BY <1>1, <2>1, Zenon DEF Start, BeforeComma
<1>3. Outer(t, 1) /\ Begun(t, 1) = 0
  BY OuterFirst
<1>4. Due(mp.members, "member", 1) = 0
  BY DEF Due, NextIn
<1>5. 0 \in Nat /\ 0 <= 0
  OBVIOUS
<1>6. InPlace(mp, t, "member", 1, 0, 1)
  <2>1. "member" # "skip"
    OBVIOUS
  <2> QED
    BY <1>1, <1>3, <1>4, <1>5, <2>1, Zenon DEF InPlace
<1> QED
  BY <1>2, <1>6 DEF BehindItem

LEMMA PlainPlace ==
  ASSUME text \in Seq(Token), Separated(text), mapping \in Mapping,
         NEW m \in DOMAIN mapping.members, ~IsOrdered(m),
         NEW p, NEW n, InPlace(mapping, text, "member", p, n, m)
  PROVE  InPlace(mapping, text, "value", BeforeMember(p), n, m)
<1> DEFINE ms == mapping.members
           q == BeforeMember(p)
<1>1. /\ n \in Nat /\ Outer(text, p) /\ Begun(text, p) <= n /\ n <= Due(ms, "member", m)
      /\ AtRim(text, p) \/ (Begun(text, p) = n /\ n = Due(ms, "member", m))
      /\ mapping.form = "tuple" => ~BeforeComma(text, p)
  BY DEF InPlace
<1>2. Due(ms, "member", m) = Due(ms, "value", m)
  <2>1. ms \in Seq(Member)
    BY CountFacts
  <2>2. IndexIn(ms, m) = NextIn(ms, m)
    BY <2>1, IndexFacts DEF IsOrdered
  <2> QED
    BY <2>2 DEF Due
<1>3. /\ Outer(text, q) /\ Begun(text, q) = Begun(text, p) /\ ~BeforeComma(text, q)
      /\ AtRim(text, p) => AtRim(text, q)
  BY <1>1, BeforeFacts
<1>4. "value" # "skip"
  OBVIOUS
<1> HIDE DEF ms, q
<1>5. /\ n \in Nat /\ Outer(text, q) /\ Begun(text, q) <= n /\ n <= Due(ms, "value", m)
      /\ AtRim(text, q) \/ (Begun(text, q) = n /\ n = Due(ms, "value", m))
      /\ ~BeforeComma(text, q)
  BY <1>1, <1>2, <1>3
<1> QED
  BY <1>4, <1>5, Zenon DEF InPlace, ms, q

LEMMA OrderedPlace ==
  ASSUME text \in Seq(Token), Separated(text), mapping \in Mapping,
         NEW m \in DOMAIN mapping.members, IsOrdered(m),
         NEW p, NEW n, InPlace(mapping, text, "member", p, n, m), ~(n > mapping.members[m].at)
  PROVE  InPlace(mapping, text, "skip", BeforeMember(p), n, m)
<1> DEFINE ms == mapping.members
           q == BeforeMember(p)
<1>1. /\ n \in Nat /\ Outer(text, p) /\ Begun(text, p) <= n
      /\ AtRim(text, p) \/ Begun(text, p) = n
      /\ mapping.form = "tuple" => ~BeforeComma(text, p)
  BY DEF InPlace
<1>2. n <= Due(ms, "skip", m) /\ ms[m].at # NoIndex
  <2>1. ms \in Seq(Member)
    BY CountFacts
  <2>2. ms[m].at # NoIndex
    BY DEF IsOrdered
  <2>3. IndexIn(ms, m) = ms[m].at /\ IndexIn(ms, m) \in Nat
    BY <2>1, <2>2, IndexFacts
  <2>4. Due(ms, "skip", m) = IndexIn(ms, m)
    BY DEF Due
  <2>5. n <= IndexIn(ms, m)
    BY <1>1, <2>3
  <2> QED
    BY <2>2, <2>4, <2>5
<1>3. /\ Outer(text, q) /\ Begun(text, q) = Begun(text, p) /\ ~BeforeComma(text, q)
      /\ AtRim(text, p) => AtRim(text, q)
  BY <1>1, BeforeFacts
<1> HIDE DEF ms, q
<1>4. Begun(text, q) <= n /\ (AtRim(text, q) \/ Begun(text, q) = n)
  BY <1>1, <1>3
<1> QED
  BY <1>1, <1>2, <1>3, <1>4, Zenon DEF InPlace, ms, q

LEMMA SkippedPlace ==
  ASSUME text \in Seq(Token), Separated(text), mapping \in Mapping,
         NEW m \in DOMAIN mapping.members, NEW p, NEW n, InPlace(mapping, text, "skip", p, n, m),
         n < mapping.members[m].at, SkipValue(p) # 0
  PROVE  InPlace(mapping, text, "skip", MoveNext(SkipValue(p)), n + 1, m)
<1> DEFINE ms == mapping.members
           r == SkipValue(p)
           q == MoveNext(r)
<1>1. /\ n \in Nat /\ Outer(text, p) /\ Begun(text, p) <= n
      /\ AtRim(text, p) \/ Begun(text, p) = n
      /\ ms[m].at # NoIndex
  BY DEF InPlace
<1>2. ItemEnd(text, p, r) /\ Outer(text, r) /\ p \in ItemsOf(text)
  BY <1>1, SkipFacts DEF ItemEnd
<1>3. Begun(text, r) = Begun(text, p) + 1
  BY <1>2, ItemCounts
<1>4. ~AtRim(text, p)
  BY <1>2 DEF AtRim, ItemsOf
<1>5. Outer(text, q) /\ Begun(text, q) = Begun(text, r) /\ At(q) # ","
  BY <1>2, MoveFacts
<1>6. ~BeforeComma(text, q)
  <2>1. q \in 1 .. Len(text) + 1
    BY <1>5 DEF Outer
  <2> QED
    BY <1>5, <2>1, RimIs
<1>7. n + 1 <= Due(ms, "skip", m)
  <2>1. ms \in Seq(Member)
    BY CountFacts
  <2>2. IndexIn(ms, m) = ms[m].at /\ IndexIn(ms, m) \in Nat
    BY <1>1, <2>1, IndexFacts
  <2>3. Due(ms, "skip", m) = IndexIn(ms, m)
    BY DEF Due
  <2>4. n + 1 <= IndexIn(ms, m)
    BY <1>1, <2>2
  <2> QED
    BY <2>3, <2>4
<1> HIDE DEF ms, r, q
<1>8. Begun(text, q) = n + 1 /\ Begun(text, q) <= n + 1 /\ n + 1 \in Nat
  <2>1. n \in Nat /\ Begun(text, p) = n
    BY <1>1, <1>4, Zenon
  <2>2. Begun(text, q) = n + 1
    BY <1>3, <1>5, <2>1, Zenon
  <2> QED
    BY <2>1, <2>2
<1> DEFINE n1 == n + 1
<1>9. Begun(text, q) = n1 /\ Begun(text, q) <= n1 /\ n1 \in Nat /\ n1 <= Due(ms, "skip", m)
  BY <1>7, <1>8
<1> HIDE DEF n1
<1>10. InPlace(mapping, text, "skip", q, n1, m)
  BY <1>1, <1>5, <1>6, <1>9, Zenon DEF InPlace, ms
<1> QED
  BY <1>10 DEF q, r, n1

LEMMA FoundPlace ==
  ASSUME mapping \in Mapping, text \in Seq(Token),
         NEW m \in DOMAIN mapping.members, NEW p, NEW n, InPlace(mapping, text, "skip", p, n, m),
         ~(n < mapping.members[m].at) \/ At(p) = "]"
  PROVE  InPlace(mapping, text, "value", p, n, m)
<1> DEFINE ms == mapping.members
<1>1. /\ n \in Nat /\ Outer(text, p) /\ Begun(text, p) <= n
      /\ AtRim(text, p) \/ Begun(text, p) = n
      /\ n <= Due(ms, "skip", m) /\ ~BeforeComma(text, p) /\ ms[m].at # NoIndex
  <2>1. "skip" # "member"
    OBVIOUS
  <2> QED
    BY <2>1 DEF InPlace
<1>2. ms \in Seq(Member)
  BY CountFacts
<1>3. IndexIn(ms, m) = ms[m].at /\ IndexIn(ms, m) \in Nat
  BY <1>1, <1>2, IndexFacts
<1>4. Due(ms, "skip", m) = IndexIn(ms, m) /\ Due(ms, "value", m) = IndexIn(ms, m)
  BY DEF Due
<1>5. At(p) = "]" => AtRim(text, p)
  <2>1. p \in 1 .. Len(text) + 1
    BY <1>1 DEF Outer
  <2> QED
    BY <2>1, RimIs
<1>6. ~(n < mapping.members[m].at) => n = IndexIn(ms, m)
  <2>1. ~(n < ms[m].at) => ~(n < IndexIn(ms, m))
    BY <1>3
  <2>2. n <= IndexIn(ms, m)
    BY <1>1, <1>4
  <2> QED
    BY <1>1, <1>3, <2>1, <2>2
<1>7. "value" # "skip"
  OBVIOUS
<1>8. AtRim(text, p) \/ (Begun(text, p) = n /\ n = Due(ms, "value", m))
  BY <1>1, <1>4, <1>5, <1>6
<1>9. n <= Due(ms, "value", m)
  BY <1>1, <1>4
<1> HIDE DEF ms
<1> QED
  BY <1>1, <1>7, <1>8, <1>9, Zenon DEF InPlace, ms

LEMMA NextAfter ==
  ASSUME NEW ms \in Seq(Member), NEW m \in DOMAIN ms
  PROVE  NextIn(ms, m + 1) = IndexIn(ms, m) + 1
<1>1. m + 1 # 1 /\ (m + 1) - 1 = m
  OBVIOUS
<1> QED
  BY <1>1, Zenon DEF NextIn

\* Behind a member that was parsed from an element, and behind one there is none for.
LEMMA AfterPlace ==
  ASSUME text \in Seq(Token), Separated(text), mapping \in Mapping,
         NEW m \in DOMAIN mapping.members, NEW p, NEW n, InPlace(mapping, text, "value", p, n, m),
         NEW next, \/ next = p /\ AtRim(text, p)
                   \/ next = p + 1 /\ p \in DOMAIN text /\ text[p] \in {"v", "null"} /\ EndOfItem(p + 1)
  PROVE  /\ InPlace(mapping, text, "member", BehindMember(next), n + 1, m + 1)
         /\ BehindItem(mapping, text, "member", BehindMember(next), m + 1)
<1> DEFINE ms == mapping.members
           q == BehindMember(next)
<1>1. /\ n \in Nat /\ Outer(text, p) /\ Begun(text, p) <= n /\ n <= IndexIn(ms, m)
      /\ AtRim(text, p) \/ (Begun(text, p) = n /\ n = IndexIn(ms, m))
  <2>1. Due(ms, "value", m) = IndexIn(ms, m) /\ "value" # "skip"
    BY DEF Due
  <2> QED
    BY <2>1 DEF InPlace
<1>2. Due(ms, "member", m + 1) = IndexIn(ms, m) + 1 /\ IndexIn(ms, m) \in Nat
  <2>1. ms \in Seq(Member)
    BY CountFacts
  <2> QED
    BY <2>1, NextAfter, IndexFacts DEF Due
<1> DEFINE n1 == n + 1
           d == Due(ms, "member", m + 1)
<1>3. CASE next = p /\ AtRim(text, p)
  <2>1. q = p
    BY <1>1, <1>3, AfterFacts
  <2>2. AtRim(text, q) /\ Outer(text, q)
    BY <1>1, <1>3, <2>1
  <2>3. ~BeforeComma(text, q)
    <3>1. "]" # ","
      OBVIOUS
    <3> QED
      BY <2>2, <3>1, Zenon DEF AtRim, BeforeComma
  <2>4. Begun(text, q) <= n1 /\ n1 <= d /\ n1 \in Nat
    <3>1. Begun(text, p) \in Nat
      <4>1. p \in Int
        BY <1>1 DEF Outer
      <4> QED
        BY <4>1, CountsType
    <3> HIDE DEF q
    <3> QED
      BY <1>1, <1>2, <2>1, <3>1
  <2> HIDE DEF ms, q, n1
  <2>5. "member" # "skip"
    OBVIOUS
  <2>6. InPlace(mapping, text, "member", q, n1, m + 1)
    BY <2>2, <2>3, <2>4, <2>5, Zenon DEF InPlace, d, ms
  <2> QED
    BY <2>2, <2>6, Zenon DEF BehindItem, n1, q
<1>4. CASE next = p + 1 /\ p \in DOMAIN text /\ text[p] \in {"v", "null"} /\ EndOfItem(p + 1)
  <2>1. ItemEnd(text, p, p + 1)
    BY <1>1, <1>4, TokenEnd
  <2>2. Begun(text, p + 1) = Begun(text, p) + 1 /\ Outer(text, p + 1)
    BY <2>1, ItemCounts DEF ItemEnd
  <2>3. ~AtRim(text, p)
    BY <1>4 DEF AtRim
  <2>4. Outer(text, q) /\ Begun(text, q) = Begun(text, p + 1) /\ (mapping.form = "tuple" => ~BeforeComma(text, q))
        /\ (mapping.form = "class" => q = p + 1)
    BY <1>4, <2>2, AfterFacts
  <2>5. mapping.form = "class" => AtRim(text, q) \/ BeforeComma(text, q)
    <3>1. p + 1 \in 1 .. Len(text) + 1
      BY <2>2 DEF Outer
    <3>2. At(p + 1) \in {",", "]", "end"}
      BY <1>4 DEF EndOfItem
    <3> QED
      BY <2>4, <3>1, <3>2, RimIs
  <2>6. Begun(text, q) = n1 /\ Begun(text, q) <= n1 /\ n1 = d /\ n1 <= d /\ n1 \in Nat
    <3> HIDE DEF q
    <3> QED
      BY <1>1, <1>2, <2>2, <2>3, <2>4
  <2> HIDE DEF ms, q, n1
  <2>7. "member" # "skip"
    OBVIOUS
  <2>8. InPlace(mapping, text, "member", q, n1, m + 1)
    BY <2>4, <2>6, <2>7, Zenon DEF InPlace, d, ms
  <2> QED
    BY <2>5, <2>8, Zenon DEF BehindItem, n1, q
<1> QED
  BY <1>3, <1>4
\* The elements at the cursor's index, when there is a number or a null at it ...
LEMMA ItemMatches ==
  ASSUME text \in Seq(Token), mapping \in Mapping,
         NEW m \in DOMAIN mapping.members, NEW p, NEW n, InPlace(mapping, text, "value", p, n, m),
         p \in DOMAIN text, text[p] \in {"v", "null", "["}
  PROVE  /\ p \in ItemsOf(text)
         /\ \A j \in ItemsOf(text) : Begun(text, j) = IndexIn(mapping.members, m) <=> j = p
<1>1. /\ Outer(text, p)
      /\ AtRim(text, p) \/ (Begun(text, p) = n /\ n = IndexIn(mapping.members, m))
  <2>1. Due(mapping.members, "value", m) = IndexIn(mapping.members, m) /\ "value" # "skip"
    BY DEF Due
  <2> QED
    BY <2>1 DEF InPlace
<1>2. ~AtRim(text, p)
  BY DEF AtRim
<1>3. p \in ItemsOf(text)
  BY <1>1 DEF ItemsOf
<1>4. Begun(text, p) = IndexIn(mapping.members, m)
  BY <1>1, <1>2
<1> QED
  BY <1>3, <1>4, ItemsDiffer

\* ... and when there is nothing.
LEMMA RimMatches ==
  ASSUME text \in Seq(Token), mapping \in Mapping,
         NEW m \in DOMAIN mapping.members, NEW p, NEW n, InPlace(mapping, text, "value", p, n, m),
         AtRim(text, p)
  PROVE  \A j \in ItemsOf(text) : Begun(text, j) # IndexIn(mapping.members, m)
<1>1. /\ Outer(text, p) /\ Begun(text, p) <= n /\ n \in Nat /\ n <= IndexIn(mapping.members, m)
  <2>1. Due(mapping.members, "value", m) = IndexIn(mapping.members, m)
    BY DEF Due
  <2> QED
    BY <2>1 DEF InPlace
<1>2. IndexIn(mapping.members, m) \in Nat
  <2>1. mapping.members \in Seq(Member)
    BY CountFacts
  <2> QED
    BY <2>1, IndexFacts
<1>3. ASSUME NEW j \in ItemsOf(text) PROVE Begun(text, j) # IndexIn(mapping.members, m)
  <2>1. Begun(text, j) < Begun(text, p)
    BY <1>1, RimItems
  <2>2. Begun(text, j) \in Nat /\ Begun(text, p) \in Nat
    <3>1. j \in Int /\ p \in Int
      BY <1>1 DEF ItemsOf, Outer
    <3> QED
      BY <3>1, CountsType
  <2> QED
    BY <1>1, <1>2, <2>1, <2>2
<1> QED
  BY <1>3

LEMMA ConstructStep ==
  ASSUME TypeInv, Separated(text), CursorInv, TakenInv, phase = "value", NEW i, NEW next,
         Matches(mapping.members, text, member, i), Construct(i, next),
         \/ next = pos /\ AtRim(text, pos)
         \/ next = pos + 1 /\ pos \in DOMAIN text /\ text[pos] \in {"v", "null"} /\ EndOfItem(pos + 1)
  PROVE  CursorInv' /\ TakenInv'
<1>1. /\ mapping \in Mapping /\ text \in Seq(Token) /\ member \in 1 .. Count /\ index \in Nat
      /\ taken \in Seq(0 .. Len(text)) /\ Len(taken) = member - 1
  <2>1. phase # "write"
    OBVIOUS
  <2>2. Count \in Nat /\ member \in 1 .. Count + 1 /\ member <= Count
    BY CountFacts DEF TypeInv, TypeOK
  <2>3. member \in 1 .. Count
    BY <2>2
  <2> QED
    BY <2>1, <2>3 DEF TypeInv, TypeOK
<1>2. member \in DOMAIN mapping.members
  <2>1. mapping.members \in Seq(Member) /\ Count = Len(mapping.members)
    BY <1>1, CountFacts
  <2> QED
    BY <1>1, <2>1
<1>3. InPlace(mapping, text, "value", pos, index - 1, member)
  BY Zenon DEF CursorInv, Parsing, Reached
<1>4. /\ InPlace(mapping, text, "member", BehindMember(next), (index - 1) + 1, member + 1)
      /\ BehindItem(mapping, text, "member", BehindMember(next), member + 1)
  BY <1>1, <1>2, <1>3, AfterPlace
<1>5. /\ taken' = Append(taken, i) /\ pos' = BehindMember(next) /\ member' = member + 1 /\ phase' = "member"
      /\ mapping' = mapping /\ text' = text /\ index' = index
  BY DEF Construct
<1>6. Reached' = (index - 1) + 1
  <2>1. Reached' = index
    BY <1>5 DEF Reached
  <2> QED
    BY <1>1, <2>1
<1>7. CursorInv'
  BY <1>4, <1>5, <1>6, Zenon DEF CursorInv
<1>8. ASSUME NEW m \in DOMAIN taken' PROVE Matches(mapping.members, text, m, taken'[m])
  <2>1. m \in 1 .. member
    BY <1>1, <1>5, <1>8
  <2>2. CASE m = member
    <3>1. taken'[m] = i
      BY <1>1, <1>5, <2>2
    <3> QED
      BY <2>2, <3>1
  <2>3. CASE m # member
    <3>1. m \in DOMAIN taken /\ taken'[m] = taken[m]
      BY <1>1, <1>5, <2>1, <2>3
    <3> QED
      BY <3>1 DEF TakenInv
  <2> QED
    BY <2>2, <2>3
<1>9. TakenInv'
  BY <1>5, <1>8, Zenon DEF TakenInv
<1> QED
  BY <1>7, <1>9

LEMMA NextCursor ==
  ASSUME TypeInv, phase # "write", Separated(text), CursorInv, TakenInv, [Next]_vars
  PROVE  CursorInv' /\ TakenInv'
<1>1. /\ mapping \in Mapping /\ text \in Seq(Token) /\ member \in 1 .. Count + 1 /\ index \in Nat
      /\ Count \in Nat /\ (phase \in {"skip", "value"} => member <= Count)
  BY CountFacts DEF TypeInv, TypeOK
<1>2. member <= Count => member \in DOMAIN mapping.members
  <2>1. mapping.members \in Seq(Member) /\ Count = Len(mapping.members)
    BY <1>1, CountFacts
  <2> QED
    BY <1>1, <2>1
<1>3. ASSUME UNCHANGED <<mapping, text, taken>>, phase' # "write" PROVE TakenInv'
  BY <1>3 DEF TakenInv
<1>4. ASSUME UNCHANGED <<mapping, text, taken>>, phase' \in {"done", "failed"} PROVE CursorInv' /\ TakenInv'
  BY <1>3, <1>4 DEF CursorInv, Parsing
<1>5. ASSUME Fail PROVE CursorInv' /\ TakenInv'
  BY <1>4, <1>5 DEF Fail
<1>6. Parsing => InPlace(mapping, text, phase, pos, Reached, member)
  BY DEF CursorInv
<1>7. CASE EnterPlain
  <2>1. CASE Fail
    BY <1>5, <2>1
  <2>2. CASE ~Fail
    <3>1. /\ phase = "member" /\ member <= Count /\ ~IsOrdered(member) /\ pos' = BeforeMember(pos) /\ index' = index + 1
          /\ phase' = "value" /\ UNCHANGED <<mapping, text, member, taken>>
      BY <1>7, <2>2 DEF EnterPlain
    <3>2. InPlace(mapping, text, "member", pos, index, member)
      BY <1>6, <3>1, Zenon DEF Parsing, Reached
    <3>3. InPlace(mapping, text, "value", BeforeMember(pos), index, member)
      BY <1>1, <1>2, <3>1, <3>2, PlainPlace
    <3>4. Reached' = index
      <4>1. Reached' = index' - 1
        BY <3>1 DEF Reached
      <4> QED
        BY <1>1, <3>1, <4>1
    <3>5. InPlace(mapping', text', phase', pos', Reached', member')
      BY <3>1, <3>3, <3>4, Zenon
    <3>6. BehindItem(mapping', text', phase', pos', member')
      BY <3>1 DEF BehindItem
    <3> QED
      BY <1>3, <3>1, <3>5, <3>6 DEF CursorInv
  <2> QED
    BY <2>1, <2>2
<1>8. CASE EnterOrdered
  <2>1. CASE Fail
    BY <1>5, <2>1
  <2>2. CASE ~Fail
    <3>1. /\ phase = "member" /\ member <= Count /\ IsOrdered(member) /\ ~(index > mapping.members[member].at)
          /\ pos' = BeforeMember(pos) /\ phase' = "skip" /\ UNCHANGED <<mapping, text, member, index, taken>>
      BY <1>8, <2>2 DEF EnterOrdered
    <3>2. InPlace(mapping, text, "member", pos, index, member)
      BY <1>6, <3>1, Zenon DEF Parsing, Reached
    <3>3. InPlace(mapping, text, "skip", BeforeMember(pos), index, member)
      BY <1>1, <1>2, <3>1, <3>2, OrderedPlace
    <3>4. Reached' = index
      BY <3>1 DEF Reached
    <3>5. InPlace(mapping', text', phase', pos', Reached', member')
      BY <3>1, <3>3, <3>4, Zenon
    <3>6. BehindItem(mapping', text', phase', pos', member')
      BY <3>1 DEF BehindItem
    <3> QED
      BY <1>3, <3>1, <3>5, <3>6 DEF CursorInv
  <2> QED
    BY <2>1, <2>2
<1>9. CASE SkipElement
  <2>1. CASE Fail
    BY <1>5, <2>1
  <2>2. CASE ~Fail
    <3>1. /\ phase = "skip" /\ index < mapping.members[member].at /\ SkipValue(pos) # 0
          /\ pos' = MoveNext(SkipValue(pos)) /\ index' = index + 1
          /\ UNCHANGED <<mapping, text, member, taken, phase>>
      BY <1>9, <2>2 DEF SkipElement, Skipping
    <3>2. InPlace(mapping, text, "skip", pos, index, member)
      BY <1>6, <3>1, Zenon DEF Parsing, Reached
    <3>3. InPlace(mapping, text, "skip", MoveNext(SkipValue(pos)), index + 1, member)
      BY <1>1, <1>2, <3>1, <3>2, SkippedPlace
    <3>4. Reached' = index + 1
      BY <3>1 DEF Reached
    <3>5. InPlace(mapping', text', phase', pos', Reached', member')
      BY <3>1, <3>3, <3>4, Zenon
    <3>6. BehindItem(mapping', text', phase', pos', member')
      BY <3>1 DEF BehindItem
    <3> QED
      BY <1>3, <3>1, <3>5, <3>6 DEF CursorInv
  <2> QED
    BY <2>1, <2>2
<1>10. CASE EndSkip
  <2>1. /\ phase = "skip" /\ (~(index < mapping.members[member].at) \/ At(pos) = "]")
        /\ index' = index + 1 /\ phase' = "value" /\ UNCHANGED <<mapping, text, member, pos, taken>>
    BY <1>10 DEF EndSkip, Skipping
  <2>2. InPlace(mapping, text, "skip", pos, index, member)
    BY <1>6, <2>1, Zenon DEF Parsing, Reached
  <2>3. InPlace(mapping, text, "value", pos, index, member)
    BY <1>1, <1>2, <2>1, <2>2, FoundPlace
  <2>4. Reached' = index
    <3>1. Reached' = index' - 1
      BY <2>1 DEF Reached
    <3> QED
      BY <1>1, <2>1, <3>1
  <2>5. InPlace(mapping', text', phase', pos', Reached', member')
    BY <2>1, <2>3, <2>4, Zenon
  <2>6. BehindItem(mapping', text', phase', pos', member')
    BY <2>1 DEF BehindItem
  <2> QED
    BY <1>3, <2>1, <2>5, <2>6 DEF CursorInv
<1>11. phase = "value" => /\ InPlace(mapping, text, "value", pos, index - 1, member)
                          /\ member \in DOMAIN mapping.members
                          /\ pos \in 1 .. Len(text) + 1 /\ Outer(text, pos) /\ ~BeforeComma(text, pos)
  <2>1. phase = "value" => InPlace(mapping, text, "value", pos, index - 1, member) /\ member \in DOMAIN mapping.members
    BY <1>1, <1>2, <1>6, Zenon DEF Parsing, Reached
  <2>2. "value" # "member"
    OBVIOUS
  <2>3. phase = "value" => Outer(text, pos) /\ ~BeforeComma(text, pos)
    BY <2>1, <2>2 DEF InPlace
  <2> QED
    BY <2>1, <2>3 DEF Outer
<1>12. CASE ParseValue
  <2>1. CASE Fail
    BY <1>5, <2>1
  <2>2. CASE ~Fail
    <3>1. phase = "value" /\ At(pos) = "v" /\ EndOfItem(pos + 1) /\ Construct(pos, pos + 1)
      BY <1>12, <2>2 DEF ParseValue
    <3>2. pos \in DOMAIN text /\ text[pos] = "v"
      BY <1>1, <1>11, <3>1, AtIs
    <3>3. pos \in ItemsOf(text)
          /\ \A j \in ItemsOf(text) : Begun(text, j) = IndexIn(mapping.members, member) <=> j = pos
      BY <1>1, <1>11, <3>1, <3>2, ItemMatches
    <3>4. pos # 0
      BY <1>11, <3>1
    <3>5. Matches(mapping.members, text, member, pos)
      BY <3>2, <3>3, <3>4 DEF Matches
    <3> QED
      BY <3>1, <3>2, <3>5, ConstructStep
  <2> QED
    BY <2>1, <2>2
<1>13. CASE ParseNull
  <2>1. CASE Fail
    BY <1>5, <2>1
  <2>2. CASE ~Fail
    <3>1. phase = "value" /\ At(pos) = "null" /\ Nullable(member) /\ EndOfItem(pos + 1) /\ Construct(0, pos + 1)
      BY <1>13, <2>2 DEF ParseNull
    <3>2. pos \in DOMAIN text /\ text[pos] = "null"
      BY <1>1, <1>11, <3>1, AtIs
    <3>3. \A j \in ItemsOf(text) : Begun(text, j) = IndexIn(mapping.members, member) <=> j = pos
      BY <1>1, <1>11, <3>1, <3>2, ItemMatches
    <3>4. Matches(mapping.members, text, member, 0)
      BY <3>1, <3>2, <3>3 DEF Matches, Nullable
    <3> QED
      BY <3>1, <3>2, <3>4, ConstructStep
  <2> QED
    BY <2>1, <2>2
<1>14. CASE ConstructEmpty
  <2>1. CASE Fail
    BY <1>5, <2>1
  <2>2. CASE ~Fail
    <3>1. phase = "value" /\ EndOfItem(pos) /\ Nullable(member) /\ Construct(0, pos)
      BY <1>14, <2>2 DEF ConstructEmpty
    <3>2. AtRim(text, pos)
      BY <1>1, <1>11, <3>1, RimIs DEF EndOfItem
    <3>3. \A j \in ItemsOf(text) : Begun(text, j) # IndexIn(mapping.members, member)
      BY <1>1, <1>11, <3>1, <3>2, RimMatches
    <3>4. Matches(mapping.members, text, member, 0)
      BY <3>1, <3>3 DEF Matches, Nullable
    <3> QED
      BY <3>1, <3>2, <3>4, ConstructStep
  <2> QED
    BY <2>1, <2>2
<1>15. CASE RejectArray
  BY <1>5, <1>15 DEF RejectArray
<1>16. CASE SkipRest
  <2>1. CASE Fail
    BY <1>5, <2>1
  <2>2. CASE ~Fail
    BY <1>4, <1>16, <2>2 DEF SkipRest
  <2> QED
    BY <2>1, <2>2
<1>17. CASE CloseExact
  <2>1. CASE Fail
    BY <1>5, <2>1
  <2>2. CASE ~Fail
    BY <1>4, <1>17, <2>2 DEF CloseExact
  <2> QED
    BY <2>1, <2>2
<1>18. CASE UNCHANGED vars
  BY <1>18 DEF vars, CursorInv, TakenInv, Parsing, Reached
<1> QED
  BY <1>7, <1>8, <1>9, <1>10, <1>12, <1>13, <1>14, <1>15, <1>16, <1>17, <1>18
  DEF Next, Terminated, WriteMember, WriteEnd

LEMMA InitParse == ASSUME GivenSeparated, Init PROVE ParseInv
<1>1. TypeInv /\ Origin
  BY InitType, InitOrigin
<1>2. member = 1 /\ index = 0 /\ taken = <<>>
  BY DEF Init
<1>3. TakenInv
  <2>1. DOMAIN taken = {}
    BY <1>2
  <2> QED
    BY <2>1 DEF TakenInv
<1>4. phase = "write" \/ (phase = "member" /\ pos = Start(text))
  BY DEF Init
<1>5. CursorInv
  <2>1. CASE phase = "write"
    BY <2>1 DEF CursorInv, Parsing
  <2>2. CASE phase = "member" /\ pos = Start(text)
    <3>1. text \in Seq(Token) /\ Separated(text)
      <4>1. text \in Seq(Token)
        BY <1>1 DEF TypeInv, TypeOK
      <4>2. phase # "write"
        BY <2>2
      <4> QED
        BY <1>1, <4>1, <4>2, OriginFacts
    <3>2. pos = 1 /\ InPlace(mapping, text, "member", 1, 0, 1) /\ BehindItem(mapping, text, "member", 1, 1)
      BY <2>2, <3>1, StartPlace
    <3>3. Reached = 0
      BY <1>2, <2>2 DEF Reached
    <3> QED
      BY <1>2, <2>2, <3>2, <3>3, Zenon DEF CursorInv
  <2> QED
    BY <1>4, <2>1, <2>2
<1> QED
  BY <1>1, <1>3, <1>5 DEF ParseInv

LEMMA NextParse ==
  ASSUME GivenSeparated, WrittenWithoutGaps, ParseInv, [Next]_vars
  PROVE  ParseInv'
<1>1. TypeInv' /\ Origin'
  BY NextType, NextOrigin DEF ParseInv
<1>2. CASE phase # "write"
  <2>1. Separated(text)
    BY <1>2, OriginFacts DEF ParseInv
  <2> QED
    BY <1>1, <1>2, <2>1, NextCursor DEF ParseInv
<1>3. CASE phase = "write"
  <2>1. taken = <<>>
    BY <1>3 DEF ParseInv, TypeInv, WriteInv
  <2>2. CASE UNCHANGED vars
    BY <1>1, <1>3, <2>2 DEF vars, ParseInv, CursorInv, TakenInv, Parsing
  <2>3. CASE WriteMember
    BY <1>1, <1>3, <2>3 DEF WriteMember, ParseInv, CursorInv, TakenInv, Parsing
  <2>4. CASE WriteEnd
    <3>1. /\ phase' = "member" /\ mapping' = mapping /\ taken' = taken /\ member' = 1 /\ index' = 0
          /\ pos' = Start(text')
      BY <2>4, Zenon DEF WriteEnd
    <3>2. text' \in Seq(Token)
      BY <1>1 DEF TypeInv, TypeOK
    <3>3. Separated(text')
      <4>1. CASE [mapping |-> mapping', text |-> text'] \in Given
        BY <4>1 DEF GivenSeparated
      <4>2. CASE Source' \in Written /\ WholeText(Source', text')
        BY <3>2, <4>2, WholeSeparated
      <4> QED
        BY <1>1, <3>1, <4>1, <4>2 DEF Origin
    <3>4. /\ Start(text') = 1
          /\ InPlace(mapping', text', "member", 1, 0, 1)
          /\ BehindItem(mapping', text', "member", 1, 1)
      BY <3>2, <3>3, StartPlace
    <3>5. Reached' = 0
      BY <3>1 DEF Reached
    <3>6. pos' = 1
      BY <3>1, <3>4, Zenon
    <3>7. CursorInv'
      BY <3>1, <3>4, <3>5, <3>6, Zenon DEF CursorInv
    <3>8. DOMAIN taken' = {}
      BY <2>1, <3>1
    <3>9. TakenInv'
      BY <3>8 DEF TakenInv
    <3> QED
      BY <1>1, <3>7, <3>9 DEF ParseInv
  <2> QED
    BY <1>3, <2>2, <2>3, <2>4 DEF Next, Terminated, Finished, EnterPlain, EnterOrdered, SkipElement, EndSkip,
       ParseValue, ParseNull, ConstructEmpty, RejectArray, SkipRest, CloseExact
<1> QED
  BY <1>2, <1>3

(***************************************************************************)
(* Every member is built from the number at its index, and is empty only   *)
(* if there is a null or nothing: of every text whose elements are         *)
(* separated by commas, also one that breaks off, whatever is skipped on   *)
(* the way (maybe_skip_members, parse_json_tuple_class).                   *)
(***************************************************************************)
THEOREM ArgumentsCorrect ==
  ASSUME GivenSeparated, WrittenWithoutGaps
  PROVE  Spec => []ArgumentsAtIndex
<1>1. Init => ParseInv
  BY InitParse
<1>2. ParseInv /\ [Next]_vars => ParseInv'
  BY NextParse
<1>3. ParseInv => ArgumentsAtIndex
  <2> SUFFICES ASSUME ParseInv PROVE ArgumentsAtIndex
    OBVIOUS
  <2>1. TypeOK
    BY DEF ParseInv, TypeInv
  <2>2. ASSUME NEW m \in DOMAIN taken
        PROVE  IF taken[m] # 0 THEN taken[m] \in Elements(IndexOf(m)) /\ text[taken[m]] = "v"
               ELSE Nullable(m) /\ \A i \in Elements(IndexOf(m)) : text[i] = "null"
    <3>1. phase # "write"
      <4>1. taken # <<>>
        BY <2>2
      <4> QED
        BY <4>1 DEF ParseInv, TypeInv, WriteInv
    <3>2. text \in Seq(Token) /\ Separated(text)
      <4>1. text \in Seq(Token)
        BY <2>1 DEF TypeOK
      <4> QED
        BY <3>1, <4>1, OriginFacts DEF ParseInv
    <3>3. Elements(IndexOf(m)) = {i \in ItemsOf(text) : Begun(text, i) = IndexIn(mapping.members, m)}
      BY <3>2, ElementsAre, IndexIs
    <3>4. Matches(mapping.members, text, m, taken[m])
      BY <3>1 DEF ParseInv, TakenInv
    <3> QED
      BY <3>3, <3>4 DEF Matches, Nullable
  <2> QED
    BY <2>1, <2>2 DEF ArgumentsAtIndex
<1> QED
  BY <1>1, <1>2, <1>3, PTL DEF Spec

-----------------------------------------------------------------------------
(* The end of the parse.                                                   *)

Served(ms, t, m) ==
  \/ \E i \in ItemsOf(t) : Begun(t, i) = IndexIn(ms, m) /\ t[i] = "v"
  \/ ms[m].nullable /\ \A i \in ItemsOf(t) : Begun(t, i) = IndexIn(ms, m) => t[i] = "null"

\* An exact mapping has no member for what is at i.
Surplus(mp, t, i) ==
  /\ mp.exact
  /\ Outer(t, i)
  /\ i \in ItemsOf(t) \/ (mp.form = "class" /\ i \in CommasOf(t))
  /\ Begun(t, i) >= NextIn(mp.members, Len(mp.members) + 1)

\* The array is not what the mapping wants.
Unfit(mp, t) ==
  \/ \E m \in DOMAIN mp.members : ~Served(mp.members, t, m)
  \/ \E i \in DOMAIN t : Surplus(mp, t, i)

Rises(ms) == \A m \in 1 .. Len(ms) - 1 : IndexIn(ms, m) < IndexIn(ms, m + 1)

\* A parse that fails had a reason, one that returns read all the members.
EndInv ==
  /\ phase = "failed" /\ IsClosed(text) /\ Rises(mapping.members) => Unfit(mapping, text)
  /\ phase = "done" =>
       /\ pos = IF End = 0 THEN Len(text) + 1 ELSE End + 1
       /\ member = Count + 1
       /\ mapping.exact => ClosedAt(text, End) /\ Begun(text, End) <= NextIn(mapping.members, Count + 1)

\* The position is not at the end of the array, which has an end.
LEMMA InsideArray ==
  ASSUME text \in Seq(Token), IsClosed(text), NEW p, Outer(text, p)
  PROVE  p \in DOMAIN text /\ At(p) = text[p] /\ At(p) # "end" /\ At(p) \in Token
<1>1. PICK e \in DOMAIN text : ClosedAt(text, e)
  BY ClosedIs
<1>2. p \in DOMAIN text /\ p \in 1 .. Len(text) + 1
  BY <1>1, OuterUpToEnd DEF Outer
<1> QED
  BY <1>2, AtIs

\* A number or a null of an array with an end is followed by a comma or the end.
LEMMA ItemFollowed ==
  ASSUME text \in Seq(Token), Separated(text), IsClosed(text), NEW p, Outer(text, p),
         p \in DOMAIN text, text[p] \in {"v", "null"}
  PROVE  EndOfItem(p + 1)
<1>1. Outer(text, p + 1)
  BY TokenEnd DEF ItemEnd
<1>2. p + 1 \in DOMAIN text /\ At(p + 1) = text[p + 1] /\ At(p + 1) \in Token
  BY <1>1, InsideArray
<1>3. text[p + 1] \notin {"v", "null", "["}
  <2>1. p + 1 # 1 /\ (p + 1) - 1 = p
    BY <1>2
  <2>2. text[p] \notin {"[", ","}
    OBVIOUS
  <2> HIDE DEF Token
  <2> QED
    BY <1>2, <2>1, <2>2, Zenon DEF Separated
<1> QED
  BY <1>2, <1>3 DEF EndOfItem, Token

LEMMA NotServed ==
  ASSUME text \in Seq(Token), mapping \in Mapping,
         NEW m \in DOMAIN mapping.members, NEW p, NEW n, InPlace(mapping, text, "value", p, n, m),
         \/ p \in DOMAIN text /\ text[p] = "["
         \/ p \in DOMAIN text /\ text[p] = "null" /\ ~Nullable(m)
         \/ AtRim(text, p) /\ ~Nullable(m)
  PROVE  Unfit(mapping, text)
<1> SUFFICES ~Served(mapping.members, text, m)
  BY DEF Unfit
<1>1. CASE p \in DOMAIN text /\ (text[p] = "[" \/ (text[p] = "null" /\ ~Nullable(m)))
  <2>1. /\ p \in ItemsOf(text)
        /\ \A j \in ItemsOf(text) : Begun(text, j) = IndexIn(mapping.members, m) <=> j = p
    BY <1>1, ItemMatches
  <2> QED
    BY <1>1, <2>1 DEF Served, Nullable
<1>2. CASE AtRim(text, p) /\ ~Nullable(m)
  <2>1. \A j \in ItemsOf(text) : Begun(text, j) # IndexIn(mapping.members, m)
    BY <1>2, RimMatches
  <2> QED
    BY <1>2, <2>1 DEF Served, Nullable
<1> QED
  BY <1>1, <1>2

\* No parse of an array with an end, for members in order, fails without a reason.
LEMMA FailStep ==
  ASSUME TypeInv, phase # "write", Separated(text), CursorInv, IsClosed(text), Rises(mapping.members),
         (mapping.form # "tuple" /\ mapping.members # <<>>) \/ mapping.exact \/ \A i \in DOMAIN text : text[i] # "[",
         Next, phase # "failed", phase' = "failed"
  PROVE  Unfit(mapping, text)
<1>1. /\ mapping \in Mapping /\ text \in Seq(Token) /\ member \in 1 .. Count + 1 /\ index \in Nat
      /\ Count \in Nat /\ (phase \in {"skip", "value"} => member <= Count) /\ phase \in Phases
  BY CountFacts DEF TypeInv, TypeOK
<1>2. mapping.members \in Seq(Member) /\ Count = Len(mapping.members)
  BY <1>1, CountFacts
<1>3. member <= Count => member \in DOMAIN mapping.members
  BY <1>1, <1>2
<1>4. Parsing => /\ InPlace(mapping, text, phase, pos, Reached, member)
                 /\ Outer(text, pos) /\ pos \in DOMAIN text /\ At(pos) = text[pos] /\ At(pos) # "end" /\ At(pos) \in Token
  <2>1. Parsing => InPlace(mapping, text, phase, pos, Reached, member)
    BY DEF CursorInv
  <2>2. Parsing => Outer(text, pos)
    BY <2>1 DEF InPlace
  <2> QED
    BY <1>1, <2>1, <2>2, InsideArray
<1>5. Parsing => Outer(text, BeforeMember(pos))
  <2>1. Parsing => Outer(text, MoveNext(pos))
    BY <1>1, <1>4, MoveFacts
  <2> QED
    BY <1>4, <2>1 DEF BeforeMember
<1>6. CASE EnterPlain
  <2>1. Parsing /\ phase = "member"
    BY <1>6 DEF EnterPlain, Parsing
  <2>2. At(BeforeMember(pos)) # "end"
    BY <1>1, <1>5, <2>1, InsideArray
  <2> QED
    BY <1>6, <2>2 DEF EnterPlain
<1>7. CASE EnterOrdered
  <2>1. Parsing /\ phase = "member" /\ member <= Count /\ IsOrdered(member)
    BY <1>7 DEF EnterOrdered, Parsing
  <2>2. index <= NextIn(mapping.members, member)
    <3>1. InPlace(mapping, text, "member", pos, index, member)
      BY <1>4, <2>1, Zenon DEF Reached
    <3> QED
      BY <3>1 DEF InPlace, Due
  <2>3. IndexIn(mapping.members, member) = mapping.members[member].at /\ IndexIn(mapping.members, member) \in Nat
    BY <1>2, <1>3, <2>1, IndexFacts DEF IsOrdered
  <2>4. NextIn(mapping.members, member) <= IndexIn(mapping.members, member)
    <3>1. CASE member = 1
      BY <2>3, <3>1 DEF NextIn
    <3>2. CASE member # 1
      <4>1. member - 1 \in 1 .. Len(mapping.members) - 1 /\ (member - 1) + 1 = member
            /\ member - 1 \in DOMAIN mapping.members
        BY <1>1, <1>2, <2>1, <3>2
      <4>2. IndexIn(mapping.members, member - 1) < IndexIn(mapping.members, (member - 1) + 1)
        BY <4>1 DEF Rises
      <4>3. IndexIn(mapping.members, member - 1) \in Nat
        BY <1>2, <4>1, IndexFacts
      <4>4. NextIn(mapping.members, member) = IndexIn(mapping.members, member - 1) + 1
        BY <3>2 DEF NextIn
      <4>5. IndexIn(mapping.members, member - 1) < IndexIn(mapping.members, member)
        BY <4>1, <4>2, Zenon
      <4> QED
        BY <2>3, <4>3, <4>4, <4>5
    <3> QED
      BY <3>1, <3>2
  <2>5. ~(index > mapping.members[member].at)
    <3>1. NextIn(mapping.members, member) \in Nat
      BY <1>2, <1>3, <2>1, IndexFacts
    <3> QED
      BY <1>1, <2>2, <2>3, <2>4, <3>1
  <2> QED
    BY <1>7, <2>5 DEF EnterOrdered
<1>8. CASE SkipElement
  <2>1. Parsing /\ phase = "skip" /\ At(pos) # "]"
    BY <1>8 DEF SkipElement, Parsing, Skipping
  <2>2. pos \in ItemsOf(text)
    <3>1. ~BeforeComma(text, pos)
      <4>1. phase # "member"
        BY <2>1
      <4> QED
        BY <1>4, <2>1, <4>1, Zenon DEF InPlace
    <3>2. text[pos] # "," /\ text[pos] # "]" /\ text[pos] \in Token
      BY <1>4, <2>1, <3>1, Zenon DEF BeforeComma
    <3> QED
      BY <1>4, <2>1, <3>2 DEF ItemsOf, Token
  <2>3. SkipValue(pos) # 0 /\ Outer(text, SkipValue(pos))
    BY <1>1, <1>4, <2>1, <2>2, SkipFacts DEF ItemEnd
  <2>4. Outer(text, MoveNext(SkipValue(pos)))
    BY <1>1, <2>3, MoveFacts
  <2>5. At(MoveNext(SkipValue(pos))) # "end"
    BY <1>1, <2>4, InsideArray
  <2> QED
    BY <1>8, <2>1, <2>3, <2>5 DEF SkipElement
<1>9. phase = "value" => /\ InPlace(mapping, text, "value", pos, index - 1, member)
                         /\ member \in DOMAIN mapping.members
                         /\ pos \in 1 .. Len(text) + 1 /\ Outer(text, pos) /\ ~BeforeComma(text, pos)
                         /\ pos \in DOMAIN text /\ At(pos) = text[pos]
  <2>1. phase = "value" => InPlace(mapping, text, "value", pos, index - 1, member) /\ member \in DOMAIN mapping.members
    BY <1>1, <1>3, <1>4, Zenon DEF Parsing, Reached
  <2>2. "value" # "member"
    OBVIOUS
  <2>3. phase = "value" => Outer(text, pos) /\ ~BeforeComma(text, pos)
    BY <2>1, <2>2 DEF InPlace
  <2>4. phase = "value" => pos \in DOMAIN text /\ At(pos) = text[pos]
    BY <1>4 DEF Parsing
  <2> QED
    BY <2>1, <2>3, <2>4 DEF Outer
<1>10. CASE ParseValue
  <2>1. phase = "value" /\ text[pos] = "v"
    BY <1>9, <1>10 DEF ParseValue
  <2>2. EndOfItem(pos + 1)
    BY <1>1, <1>9, <2>1, ItemFollowed
  <2> QED
    BY <1>10, <2>2 DEF ParseValue, Construct
<1>11. CASE ParseNull
  <2>1. phase = "value" /\ text[pos] = "null"
    BY <1>9, <1>11 DEF ParseNull
  <2>2. EndOfItem(pos + 1)
    BY <1>1, <1>9, <2>1, ItemFollowed
  <2>3. ~Nullable(member)
    BY <1>11, <2>2 DEF ParseNull, Construct
  <2> QED
    BY <1>1, <1>9, <2>1, <2>3, NotServed
<1>12. CASE ConstructEmpty
  <2>1. phase = "value" /\ EndOfItem(pos) /\ ~Nullable(member)
    BY <1>12 DEF ConstructEmpty, Construct
  <2>2. AtRim(text, pos)
    BY <1>1, <1>9, <2>1, RimIs DEF EndOfItem
  <2> QED
    BY <1>1, <1>9, <2>1, <2>2, NotServed
<1>13. CASE RejectArray
  <2>1. phase = "value" /\ text[pos] = "["
    BY <1>9, <1>13 DEF RejectArray
  <2> QED
    BY <1>1, <1>9, <2>1, NotServed
<1>14. CASE SkipRest
  <2>1. phase = "member" /\ member > Count /\ ~mapping.exact /\ Parsing
    BY <1>14 DEF SkipRest, Parsing
  <2>2. At(pos) # "["
    <3>1. CASE \A i \in DOMAIN text : text[i] # "["
      BY <1>4, <2>1, <3>1
    <3>2. CASE mapping.form # "tuple" /\ mapping.members # <<>>
      <4>1. member # 1 /\ mapping.form = "class"
        <5>1. Count # 0
          BY <1>2, <3>2
        <5>2. member # 1
          BY <1>1, <2>1, <5>1
        <5> QED
          BY <1>1, <3>2, <5>2 DEF Mapping
      <4>2. AtRim(text, pos) \/ BeforeComma(text, pos)
        BY <2>1, <4>1 DEF CursorInv, BehindItem
      <4> QED
        BY <1>4, <2>1, <4>2 DEF AtRim, BeforeComma
    <3> QED
      BY <2>1, <3>1, <3>2
  <2>3. SkipArray(pos) # 0
    BY <1>1, <1>4, <2>1, <2>2, RestFacts
  <2> QED
    BY <1>14, <2>3 DEF SkipRest
<1>15. CASE CloseExact
  <2>1. phase = "member" /\ member > Count /\ mapping.exact /\ Parsing /\ text[pos] # "]"
    BY <1>4, <1>15 DEF CloseExact, Parsing
  <2>2. InPlace(mapping, text, "member", pos, index, member)
    BY <1>4, <2>1, Zenon DEF Reached
  <2>3. member = Count + 1
    BY <1>1, <2>1
  <2>4. ~AtRim(text, pos)
    BY <1>4, <2>1 DEF AtRim
  <2>5. Begun(text, pos) = NextIn(mapping.members, member) /\ (mapping.form = "tuple" => ~BeforeComma(text, pos))
    <3>1. Due(mapping.members, "member", member) = NextIn(mapping.members, member)
      BY DEF Due
    <3>2. "member" # "skip"
      OBVIOUS
    <3> QED
      BY <2>2, <2>4, <3>1, <3>2, Zenon DEF InPlace
  <2>6. pos \in ItemsOf(text) \/ (mapping.form = "class" /\ pos \in CommasOf(text))
    <3>1. text[pos] \in {"v", "null", "["} \/ text[pos] = ","
      BY <1>4, <2>1 DEF Token
    <3>2. text[pos] = "," => mapping.form = "class"
      BY <1>1, <1>4, <2>1, <2>5 DEF BeforeComma, Mapping
    <3> QED
      BY <1>4, <2>1, <3>1, <3>2 DEF ItemsOf, CommasOf
  <2>7. Begun(text, pos) >= NextIn(mapping.members, Len(mapping.members) + 1)
    <3>1. Begun(text, pos) \in Nat
      <4>1. pos \in Int
        BY DEF TypeInv, TypeOK
      <4> QED
        BY <4>1, CountsType
    <3>2. member = Len(mapping.members) + 1
      BY <1>2, <2>3
    <3>3. Begun(text, pos) = NextIn(mapping.members, Len(mapping.members) + 1)
      BY <2>5, <3>2
    <3> QED
      BY <3>1, <3>3
  <2>8. Surplus(mapping, text, pos)
    BY <1>4, <2>1, <2>6, <2>7 DEF Surplus
  <2> QED
    BY <1>4, <2>1, <2>8 DEF Unfit
<1> QED
  BY <1>6, <1>7, <1>8, <1>10, <1>11, <1>12, <1>13, <1>14, <1>15
  DEF Next, WriteMember, WriteEnd, EndSkip, Terminated, vars

LEMMA DoneStep ==
  ASSUME TypeInv, phase # "write", Separated(text), CursorInv,
         (mapping.form # "tuple" /\ mapping.members # <<>>) \/ mapping.exact \/ \A i \in DOMAIN text : text[i] # "[",
         Next, phase # "done", phase' = "done"
  PROVE  /\ pos' = IF End = 0 THEN Len(text) + 1 ELSE End + 1
         /\ member = Count + 1
         /\ mapping.exact => /\ ClosedAt(text, End)
                             /\ Begun(text, End) <= NextIn(mapping.members, Count + 1)
<1>1. /\ mapping \in Mapping /\ text \in Seq(Token) /\ member \in 1 .. Count + 1 /\ Count \in Nat
  BY CountFacts DEF TypeInv, TypeOK
<1>2. mapping.members \in Seq(Member) /\ Count = Len(mapping.members)
  BY <1>1, CountFacts
<1>3. phase = "member" => InPlace(mapping, text, "member", pos, index, member)
  BY Zenon DEF CursorInv, Parsing, Reached
<1>4. phase = "member" => Outer(text, pos) /\ pos \in 1 .. Len(text) + 1
  BY <1>3 DEF InPlace, Outer
<1>5. CASE SkipRest
  <2>1. phase = "member" /\ member > Count /\ ~mapping.exact /\ SkipArray(pos) # 0 /\ pos' = SkipArray(pos)
    BY <1>5 DEF SkipRest, Fail
  <2>2. At(pos) # "["
    <3>1. CASE \A i \in DOMAIN text : text[i] # "["
      BY <1>1, <1>4, <2>1, <3>1, AtIs
    <3>2. CASE mapping.form # "tuple" /\ mapping.members # <<>>
      <4>1. member # 1 /\ mapping.form = "class"
        <5>1. Count # 0
          BY <1>2, <3>2
        <5>2. member # 1
          BY <1>1, <2>1, <5>1
        <5> QED
          BY <1>1, <3>2, <5>2 DEF Mapping
      <4>2. AtRim(text, pos) \/ BeforeComma(text, pos)
        BY <2>1, <4>1, Zenon DEF CursorInv, BehindItem, Parsing
      <4>3. At(pos) \in {"]", "end", ","}
        BY <1>1, <1>4, <2>1, <4>2, RimIs
      <4> QED
        BY <4>3
    <3> QED
      BY <2>1, <3>1, <3>2
  <2>3. pos' = IF End = 0 THEN Len(text) + 1 ELSE End + 1
    BY <1>1, <1>4, <2>1, <2>2, RestFacts
  <2>4. member = Count + 1
    BY <1>1, <2>1
  <2> QED
    BY <2>1, <2>3, <2>4
<1>6. CASE CloseExact
  <2>1. phase = "member" /\ member > Count /\ At(pos) = "]" /\ pos' = pos + 1
    BY <1>6 DEF CloseExact, Fail
  <2>2. pos \in DOMAIN text /\ text[pos] = "]"
    BY <1>1, <1>4, <2>1, AtIs
  <2>3. ClosedAt(text, pos)
    BY <1>1, <1>4, <2>1, <2>2, OuterBracket
  <2>4. End = pos
    BY <1>1, <2>3, EndIs
  <2>5. member = Count + 1
    BY <1>1, <2>1
  <2>6. Begun(text, pos) <= index /\ index <= NextIn(mapping.members, member) /\ index \in Nat
    <3>1. Due(mapping.members, "member", member) = NextIn(mapping.members, member)
      BY DEF Due
    <3> QED
      BY <1>3, <2>1, <3>1, Zenon DEF InPlace
  <2>7. Begun(text, pos) <= NextIn(mapping.members, Count + 1)
    <3>1. Begun(text, pos) \in Nat
      <4>1. pos \in Int
        BY DEF TypeInv, TypeOK
      <4> QED
        BY <4>1, CountsType
    <3>2. NextIn(mapping.members, Count + 1) \in Nat
      BY <1>2, LastIndex
    <3>3. index <= NextIn(mapping.members, Count + 1)
      BY <2>5, <2>6, Zenon
    <3> QED
      BY <2>6, <3>1, <3>2, <3>3
  <2>8. pos # 0
    BY <1>4, <2>1
  <2>9. pos' = IF End = 0 THEN Len(text) + 1 ELSE End + 1
    BY <2>1, <2>4, <2>8
  <2> QED
    BY <2>3, <2>4, <2>5, <2>7, <2>9
<1> QED
  BY <1>5, <1>6
  DEF Next, WriteMember, WriteEnd, EnterPlain, EnterOrdered, SkipElement, EndSkip, ParseValue, ParseNull, ConstructEmpty,
      RejectArray, Construct, Fail, Terminated, vars

ArrayInv == ParseInv /\ EndInv

LEMMA InitArray == ASSUME GivenArrays, Init PROVE ArrayInv
<1>1. GivenSeparated
  BY DEF GivenArrays, GivenSeparated
<1>2. ParseInv
  BY <1>1, InitParse
<1>3. phase \notin {"done", "failed"}
  BY DEF Init
<1> QED
  BY <1>2, <1>3 DEF ArrayInv, EndInv

LEMMA NextArray ==
  ASSUME GivenArrays, WrittenWithoutGaps, ArrayInv, [Next]_vars
  PROVE  ArrayInv'
<1>1. GivenSeparated
  BY DEF GivenArrays, GivenSeparated
<1>2. ParseInv'
  BY <1>1, NextParse DEF ArrayInv
<1>3. CASE phase # "write"
  <2>1. /\ Separated(text)
        /\ \/ mapping.form # "tuple" /\ mapping.members # <<>>
           \/ mapping.exact
           \/ \A i \in DOMAIN text : text[i] # "["
    <3>1. Separated(text) /\ NoArrayBehind([mapping |-> mapping, text |-> text])
      BY <1>3, OriginFacts DEF ArrayInv, ParseInv
    <3> QED
      BY <3>1 DEF NoArrayBehind
  <2>2. mapping' = mapping /\ text' = text
    BY <1>3 DEF Next, WriteMember, WriteEnd, EnterPlain, EnterOrdered, SkipElement, EndSkip, ParseValue, ParseNull,
       ConstructEmpty, RejectArray, SkipRest, CloseExact, Construct, Fail, Terminated, vars
  <2>3. Count' = Count /\ End' = End
    BY <2>2 DEF Count, End, BehindArray, Closed, Opened
  <2>4. CASE phase' = "failed"
    <3>1. CASE phase = "failed"
      BY <1>2, <2>2, <2>4, <3>1 DEF ArrayInv, EndInv
    <3>2. CASE phase # "failed"
      <4>1. Next
        BY <2>4, <3>2 DEF vars
      <4>2. IsClosed(text) /\ Rises(mapping.members) => Unfit(mapping, text)
        BY <1>3, <2>1, <2>4, <3>2, <4>1, FailStep DEF ArrayInv, ParseInv
      <4> QED
        BY <1>2, <2>2, <2>4, <4>2 DEF ArrayInv, EndInv
    <3> QED
      BY <3>1, <3>2
  <2>5. CASE phase' = "done"
    <3>1. CASE phase = "done"
      <4>1. UNCHANGED vars
        BY <3>1 DEF Next, WriteMember, WriteEnd, EnterPlain, EnterOrdered, SkipElement, EndSkip, ParseValue, ParseNull,
           ConstructEmpty, RejectArray, SkipRest, CloseExact, Terminated
      <4>2. pos' = pos /\ member' = member /\ phase' # "failed"
        BY <2>5, <4>1 DEF vars
      <4> QED
        BY <1>2, <2>2, <2>3, <3>1, <4>2 DEF ArrayInv, EndInv
    <3>2. CASE phase # "done"
      <4>1. Next
        BY <2>5, <3>2 DEF vars
      <4>2. /\ pos' = IF End = 0 THEN Len(text) + 1 ELSE End + 1
            /\ member = Count + 1
            /\ mapping.exact => /\ ClosedAt(text, End)
                                /\ Begun(text, End) <= NextIn(mapping.members, Count + 1)
        BY <1>3, <2>1, <2>5, <3>2, <4>1, DoneStep DEF ArrayInv, ParseInv
      <4>3. member' = member
        BY <2>5, <3>2, <4>1 DEF Next, WriteMember, WriteEnd, EnterPlain, EnterOrdered, SkipElement, EndSkip, ParseValue,
           ParseNull, ConstructEmpty, RejectArray, SkipRest, CloseExact, Construct, Fail, Terminated, vars
      <4>4. phase' # "failed"
        BY <2>5
      <4> QED
        BY <1>2, <2>2, <2>3, <4>2, <4>3, <4>4, Zenon DEF ArrayInv, EndInv
    <3> QED
      BY <3>1, <3>2
  <2> QED
    BY <1>2, <2>4, <2>5 DEF ArrayInv, EndInv
<1>4. CASE phase = "write"
  <2>1. phase' \in {"write", "member"}
    BY <1>4 DEF Next, WriteMember, WriteEnd, EnterPlain, EnterOrdered, SkipElement, EndSkip, ParseValue, ParseNull,
       ConstructEmpty, RejectArray, SkipRest, CloseExact, Terminated, Finished, vars
  <2> QED
    BY <1>2, <2>1 DEF ArrayInv, EndInv
<1> QED
  BY <1>3, <1>4

-----------------------------------------------------------------------------
(* What the properties call suitable.                                      *)

\* One more than the last index.
Beyond == NextIn(mapping.members, Count + 1)

LEMMA BeyondIs ==
  ASSUME mapping \in Mapping
  PROVE  /\ Beyond \in Nat
         /\ Beyond = (IF Count = 0 THEN -1 ELSE IndexOf(Count)) + 1
<1>1. mapping.members \in Seq(Member) /\ Count = Len(mapping.members) /\ Count \in Nat
  BY CountFacts
<1>2. Beyond \in Nat /\ (Count # 0 => Beyond = IndexIn(mapping.members, Count) + 1)
  BY <1>1, LastIndex DEF Beyond
<1>3. CASE Count = 0
  <2>1. Beyond = 0
    <3>1. Count + 1 = 1
      BY <1>3
    <3> QED
      BY <3>1 DEF Beyond, NextIn
  <2> QED
    BY <1>3, <2>1
<1>4. CASE Count # 0
  BY <1>2, <1>4, IndexIs
<1> QED
  BY <1>2, <1>3, <1>4

LEMMA ServedIs ==
  ASSUME text \in Seq(Token), Separated(text), NEW m
  PROVE  Served(mapping.members, text, m) <=>
           \/ \E i \in Elements(IndexOf(m)) : text[i] = "v"
           \/ Nullable(m) /\ \A i \in Elements(IndexOf(m)) : text[i] = "null"
<1>1. Elements(IndexOf(m)) = {i \in ItemsOf(text) : Begun(text, i) = IndexIn(mapping.members, m)}
  BY ElementsAre, IndexIs
<1> QED
  BY <1>1, Zenon DEF Served, Nullable

\* The commas up to a position before the end.
LEMMA CommasUpTo ==
  ASSUME text \in Seq(Token), NEW i \in DOMAIN text, i < End
  PROVE  /\ Cardinality({k \in 1 .. i : text[k] = "," /\ Outermost(k)}) = Passed(text, i + 1)
         /\ Passed(text, i + 1) \in Nat
<1>1. End \in Nat /\ Len(text) \in Nat /\ i \in 1 .. Len(text)
  <2>1. End = 0 \/ End \in DOMAIN text
    BY EndIs DEF ClosedAt
  <2> QED
    BY <2>1
<1>2. End # 0 /\ Rim = End
  <2>1. End # 0
    BY <1>1
  <2> QED
    BY <2>1 DEF Rim
<1>3. i + 1 \in 1 .. Rim /\ (i + 1) - 1 = i /\ i + 1 \in Int
  BY <1>1, <1>2
<1>4. Cardinality({k \in 1 .. (i + 1) - 1 : text[k] = "," /\ Outermost(k)}) = Passed(text, i + 1)
  BY <1>3, CommasAre
<1>5. Passed(text, i + 1) \in Nat
  BY <1>3, CountsType
<1> QED
  BY <1>3, <1>4, <1>5, Zenon

LEMMA SurplusIs ==
  ASSUME text \in Seq(Token), Separated(text), End # 0, mapping \in Mapping, NEW i \in DOMAIN text,
         Surplus(mapping, text, i)
  PROVE  i < End /\ Passed(text, i + 1) >= Beyond
<1>1. /\ Outer(text, i) /\ (i \in ItemsOf(text) \/ i \in CommasOf(text))
      /\ Begun(text, i) >= Beyond
  <2>1. Len(mapping.members) = Count
    BY DEF Count
  <2> QED
    BY <2>1 DEF Surplus, Beyond
<1>2. i < End
  <2>1. text[i] # "]"
    BY <1>1 DEF ItemsOf, CommasOf
  <2> QED
    BY <1>1, <2>1, EndIs, OuterUpToEnd
<1>3. Beyond \in Nat
  BY BeyondIs
<1>4. i \in Nat /\ i + 1 \in Nat /\ 1 <= i /\ i <= i + 1 /\ i \in Int /\ i + 1 \in Int
  OBVIOUS
<1>5. Begun(text, i) \in Nat /\ Passed(text, i) \in Nat /\ Passed(text, i + 1) \in Nat
  BY <1>4, CountsType
<1>6. Begun(text, i) = Passed(text, i) + Behind(text, i)
  BY <1>1, TakeTurns
<1>7. CASE i \in ItemsOf(text)
  <2>1. Behind(text, i) = 0
    <3>1. text[i] \in {"v", "null", "["}
      BY <1>7 DEF ItemsOf
    <3>2. i # 1 => text[i - 1] \in {"[", ","}
      BY <3>1 DEF Separated
    <3>3. i # 1 => text[i - 1] # "["
      BY <1>1, OuterBack
    <3> QED
      BY <3>2, <3>3 DEF Behind
  <2>2. Passed(text, i) <= Passed(text, i + 1)
    BY <1>4, PassedGrows
  <2>3. Passed(text, i + 1) >= Beyond
    BY <1>1, <1>3, <1>5, <1>6, <2>1, <2>2
  <2> QED
    BY <1>2, <2>3
<1>8. CASE i \in CommasOf(text)
  <2>1. Passed(text, i + 1) = Passed(text, i) + 1
    BY <1>8, CommaCounts
  <2>2. Behind(text, i) \in {0, 1}
    BY DEF Behind
  <2>3. Passed(text, i + 1) >= Beyond
    BY <1>1, <1>3, <1>5, <1>6, <2>1, <2>2
  <2> QED
    BY <1>2, <2>3
<1> QED
  BY <1>1, <1>7, <1>8

LEMMA UnfitIs ==
  ASSUME text \in Seq(Token), Separated(text), End # 0, mapping \in Mapping, Unfit(mapping, text)
  PROVE  ~Suitable
<1>1. mapping.members \in Seq(Member) /\ Count = Len(mapping.members) /\ Count \in Nat
  BY CountFacts
<1>2. CASE \E m \in DOMAIN mapping.members : ~Served(mapping.members, text, m)
  <2>1. PICK m \in 1 .. Count : ~Served(mapping.members, text, m)
    BY <1>1, <1>2
  <2> QED
    BY <2>1, ServedIs, Zenon DEF Suitable
<1>3. CASE \E i \in DOMAIN text : Surplus(mapping, text, i)
  <2>1. PICK i \in DOMAIN text : Surplus(mapping, text, i)
    BY <1>3
  <2>2. i < End /\ Passed(text, i + 1) >= Beyond
    BY <2>1, SurplusIs
  <2>3. /\ Cardinality({k \in 1 .. i : text[k] = "," /\ Outermost(k)}) = Passed(text, i + 1)
        /\ Passed(text, i + 1) \in Nat
    BY <2>2, CommasUpTo
  <2> DEFINE last == IF Count = 0 THEN -1 ELSE IndexOf(Count)
  <2>4. Beyond \in Nat /\ Beyond = last + 1
    BY BeyondIs
  <2>5. last \in Int
    <3>1. Count # 0 => IndexOf(Count) \in Nat
      <4>1. Count # 0 => Count \in DOMAIN mapping.members
        BY <1>1
      <4> QED
        BY <1>1, <4>1, IndexFacts, IndexIs
    <3> QED
      BY <3>1
  <2>6. mapping.exact
    BY <2>1 DEF Surplus
  <2> HIDE DEF last
  <2> DEFINE x == Passed(text, i + 1)
  <2>a. x >= Beyond /\ x \in Nat
    BY <2>2, <2>3
  <2> HIDE DEF x
  <2>b. \A n \in 0 .. last : n # x
    BY <2>a, <2>4, <2>5
  <2>7. \A n \in 0 .. last : n # Passed(text, i + 1)
    BY <2>b DEF x
  <2> QED
    BY <2>2, <2>3, <2>6, <2>7, Zenon DEF Suitable, last
<1> QED
  BY <1>2, <1>3 DEF Unfit

LEMMA DoneSuits ==
  ASSUME TypeInv, Separated(text), NothingTrails(text), End # 0, TakenInv, EndInv, phase = "done"
  PROVE  Suitable
<1>1. /\ text \in Seq(Token) /\ mapping \in Mapping /\ Count \in Nat /\ Len(taken) = Count
      /\ taken \in Seq(0 .. Len(text))
  <2>1. phase # "write" /\ member = Count + 1
    BY DEF EndInv
  <2>2. Count \in Nat
    BY CountFacts DEF TypeInv, TypeOK
  <2> QED
    BY <2>1, <2>2 DEF TypeInv, TypeOK
<1>2. ASSUME NEW m \in 1 .. Count PROVE Served(mapping.members, text, m)
  <2>1. m \in DOMAIN taken
    BY <1>1
  <2>2. Matches(mapping.members, text, m, taken[m])
    BY <2>1 DEF TakenInv
  <2> QED
    BY <2>2 DEF Matches, Served
<1>3. ASSUME mapping.exact, NEW i \in DOMAIN text, i < End
      PROVE  \E n \in 0 .. (IF Count = 0 THEN -1 ELSE IndexOf(Count)) :
               Cardinality({k \in 1 .. i : text[k] = "," /\ Outermost(k)}) = n
  <2>1. ClosedAt(text, End) /\ Begun(text, End) <= Beyond
    BY <1>3 DEF EndInv, Beyond
  <2>2. End \in DOMAIN text /\ text[End] = "]" /\ Outer(text, End)
    <3>1. End \in DOMAIN text
      BY <2>1 DEF ClosedAt
    <3>2. Depth(text, End) = -1 /\ Depth(text, End - 1) >= 0 /\ Depth(text, End - 1) \in Int
      <4>1. End - 1 \in 0 .. End - 1 /\ End - 1 \in Int
        BY <1>1, <3>1
      <4>2. Depth(text, End - 1) \in Int
        BY <4>1, DepthType
      <4> QED
        BY <2>1, <4>1, <4>2 DEF ClosedAt
    <3>3. Depth(text, End) = Depth(text, End - 1) - 1
      <4>1. \/ Depth(text, End) = Depth(text, End - 1) + 1
            \/ Depth(text, End) = Depth(text, End - 1) - 1
            \/ Depth(text, End) = Depth(text, End - 1)
        BY <1>1, <3>1, DepthStep
      <4> QED
        BY <3>2, <4>1
    <3>4. Depth(text, End - 1) = 0
      BY <3>2, <3>3
    <3>5. text[End] = "]"
      <4>1. text[End] = "[" => Depth(text, End) = Depth(text, End - 1) + 1
        BY <1>1, <3>1, DepthStep
      <4>2. text[End] \notin {"[", "]"} => Depth(text, End) = Depth(text, End - 1)
        BY <1>1, <3>1, DepthStep
      <4>3. ~(Depth(text, End) = Depth(text, End - 1) + 1) /\ ~(Depth(text, End) = Depth(text, End - 1))
        BY <3>2, <3>4
      <4> QED
        BY <4>1, <4>2, <4>3
    <3>6. End \in 1 .. Len(text) + 1
      BY <1>1, <3>1
    <3>7. \A j \in 0 .. End - 1 : Depth(text, j) >= 0
      BY <2>1 DEF ClosedAt
    <3> QED
      BY <3>1, <3>4, <3>5, <3>6, <3>7 DEF Outer
  <2>3. End # 1
    BY <1>1, <1>3, <2>2
  <2>4. Behind(text, End) = 1
    BY <2>2, <2>3 DEF Behind, NothingTrails
  <2>5. Begun(text, End) = Passed(text, End) + 1
    BY <1>1, <2>2, <2>4, TakeTurns
  <2>6. i + 1 \in Nat /\ End \in Nat /\ 1 <= i + 1 /\ i + 1 <= End /\ End \in Int
    BY <1>1, <1>3, <2>2
  <2>7. Passed(text, i + 1) <= Passed(text, End)
    BY <1>1, <2>6, PassedGrows
  <2>8. /\ Cardinality({k \in 1 .. i : text[k] = "," /\ Outermost(k)}) = Passed(text, i + 1)
        /\ Passed(text, i + 1) \in Nat
    BY <1>1, <1>3, CommasUpTo
  <2>9. Passed(text, End) \in Nat /\ Begun(text, End) \in Nat
    BY <2>6, CountsType
  <2> DEFINE last == IF Count = 0 THEN -1 ELSE IndexOf(Count)
  <2>10. Beyond \in Nat /\ Beyond = last + 1
    BY <1>1, BeyondIs
  <2>11. last \in Int
    <3>1. Count # 0 => IndexOf(Count) \in Nat
      <4>1. mapping.members \in Seq(Member) /\ Count = Len(mapping.members)
        BY <1>1, CountFacts
      <4>2. Count # 0 => Count \in DOMAIN mapping.members
        BY <1>1, <4>1
      <4> QED
        BY <4>1, <4>2, IndexFacts, IndexIs
    <3> QED
      BY <3>1
  <2> HIDE DEF last
  <2> DEFINE x == Passed(text, i + 1)
             y == Passed(text, End)
             z == Begun(text, End)
  <2>a. x \in Nat /\ y \in Nat /\ z \in Nat /\ x <= y /\ z = y + 1 /\ z <= Beyond
    BY <2>1, <2>5, <2>7, <2>8, <2>9
  <2> HIDE DEF x, y, z
  <2>b. x \in 0 .. last
    BY <2>a, <2>10, <2>11
  <2>12. Passed(text, i + 1) \in 0 .. last
    BY <2>b DEF x
  <2> QED
    BY <2>8, <2>12, Zenon DEF last
<1> QED
  BY <1>1, <1>2, <1>3, ServedIs, Zenon DEF Suitable

(***************************************************************************)
(* An array is accepted if and only if it has what the mapping wants, and  *)
(* each is consumed up to its own closing bracket: whatever the members    *)
(* are, as long as their indexes rise, and whatever the array holds        *)
(* (ordered_class_cleanup, maybe_skip_members).                            *)
(***************************************************************************)
THEOREM ArraysCorrect ==
  ASSUME GivenArrays, WrittenWithoutGaps
  PROVE  Spec => []AcceptsOwnArray
<1>1. Init => ArrayInv
  BY InitArray
<1>2. ArrayInv /\ [Next]_vars => ArrayInv'
  BY NextArray
<1>3. ArrayInv => AcceptsOwnArray
  <2> SUFFICES ASSUME ArrayInv PROVE AcceptsOwnArray
    OBVIOUS
  <2>1. text \in Seq(Token) /\ mapping \in Mapping
    BY DEF ArrayInv, ParseInv, TypeInv, TypeOK
  <2>2. ConsumesOwnArray
    BY DEF ArrayInv, EndInv, ConsumesOwnArray
  <2>3. ASSUME phase \in {"done", "failed"}, object = NoObject, Increasing, End # 0
        PROVE  phase = "done" <=> Suitable
    <3>1. Separated(text) /\ NothingTrails(text)
      <4>1. phase # "write"
        BY <2>3
      <4> QED
        BY <2>3, <4>1, OriginFacts DEF ArrayInv, ParseInv
    <3>2. phase = "done" => Suitable
      BY <2>3, <3>1, DoneSuits DEF ArrayInv, ParseInv
    <3>3. CASE phase = "failed"
      <4>1. IsClosed(text)
        BY <2>1, <2>3, EndIs
      <4>2. Rises(mapping.members)
        BY <2>3, IndexIs, Zenon DEF Increasing, Rises, Count
      <4>3. Unfit(mapping, text)
        BY <3>3, <4>1, <4>2 DEF ArrayInv, EndInv
      <4>4. ~Suitable
        BY <2>1, <2>3, <3>1, <4>3, UnfitIs
      <4> QED
        BY <3>3, <4>4
    <3> QED
      BY <2>3, <3>2, <3>3
  <2>4. AcceptsSuitable
    BY <2>3 DEF AcceptsSuitable, Finished
  <2> QED
    BY <2>2, <2>4 DEF AcceptsOwnArray
<1> QED
  BY <1>1, <1>2, <1>3, PTL DEF Spec

-----------------------------------------------------------------------------
(* What is written is read.                                                *)

LEMMA GapsRise ==
  ASSUME NEW ms \in Seq(Member), GapBeforeLast(ms)
  PROVE  Rises(ms)
<1> SUFFICES ASSUME NEW m \in 1 .. Len(ms) - 1 PROVE IndexIn(ms, m) < IndexIn(ms, m + 1)
  BY DEF Rises
<1>1. m \in DOMAIN ms /\ m + 1 \in DOMAIN ms /\ m < Len(ms) /\ (m + 1) - 1 = m /\ m \in Nat
  OBVIOUS
<1>2. IndexIn(ms, m) = m - 1
  BY <1>1, GapIndex
<1>3. IndexIn(ms, m + 1) >= (m + 1) - 1 /\ IndexIn(ms, m + 1) \in Nat
  BY <1>1, GapIndex, IndexFacts
<1> QED
  BY <1>1, <1>2, <1>3

\* There is a reason to refuse what was written only if a comma trails.
LEMMA WholeFits ==
  ASSUME NEW w \in Written, NEW t \in Seq(Token), WholeText(w, t),
         ~(w.trailing /\ w.mapping.exact /\ w.mapping.form = "class")
  PROVE  ~Unfit(w.mapping, t)
<1> DEFINE ms == w.mapping.members
           beyond == NextIn(ms, Len(ms) + 1)
<1>1. /\ ms \in Seq(Member)
      /\ \A m \in DOMAIN ms : w.values[m] \in {"v", "null"} /\ (w.values[m] = "null" => ms[m].nullable)
      /\ w.trailing \in BOOLEAN
  BY WrittenFacts
<1>2. /\ \A m \in DOMAIN ms : \E q \in ItemsOf(t) : Begun(t, q) = IndexIn(ms, m) /\ t[q] = w.values[m]
      /\ \A i \in ItemsOf(t) : Begun(t, i) < beyond
      /\ w.trailing = FALSE => \A i \in DOMAIN t : t[i] = "," => Begun(t, i) < beyond
  BY WholeMembers
<1>3. ASSUME NEW m \in DOMAIN ms PROVE Served(ms, t, m)
  <2>1. PICK q \in ItemsOf(t) : Begun(t, q) = IndexIn(ms, m) /\ t[q] = w.values[m]
    BY <1>2
  <2>2. \A i \in ItemsOf(t) : Begun(t, i) = IndexIn(ms, m) => i = q
    BY <2>1, ItemsDiffer
  <2>3. t[q] = "v" \/ (t[q] = "null" /\ ms[m].nullable)
    BY <1>1, <2>1
  <2> QED
    BY <2>1, <2>2, <2>3, Zenon DEF Served
<1>4. ASSUME NEW i \in DOMAIN t, Surplus(w.mapping, t, i) PROVE FALSE
  <2>1. /\ w.mapping.exact /\ Begun(t, i) >= beyond
        /\ i \in ItemsOf(t) \/ (w.mapping.form = "class" /\ i \in CommasOf(t))
    BY <1>4 DEF Surplus
  <2>2. Begun(t, i) < beyond
    <3>1. CASE i \in ItemsOf(t)
      BY <1>2, <3>1
    <3>2. CASE w.mapping.form = "class" /\ i \in CommasOf(t)
      <4>1. w.trailing = FALSE
        BY <1>1, <2>1, <3>2
      <4>2. t[i] = ","
        BY <3>2 DEF CommasOf
      <4> QED
        BY <1>2, <4>1, <4>2
    <3> QED
      BY <2>1, <3>1, <3>2
  <2>3. Begun(t, i) \in Nat /\ beyond \in Nat
    <3>1. i \in Int
      OBVIOUS
    <3>2. Begun(t, i) \in Nat
      BY <3>1, CountsType
    <3> QED
      BY <1>1, <3>2, LastIndex
  <2> HIDE DEF beyond
  <2> QED
    BY <2>1, <2>2, <2>3
<1> QED
  BY <1>3, <1>4 DEF Unfit

(***************************************************************************)
(* What is written is parsed again with the same values, for every object  *)
(* whose mapping has elements to fill only before its last member          *)
(* (to_json_ordered_str, parse_json_tuple_class).                          *)
(***************************************************************************)
THEOREM RoundTripCorrect ==
  ASSUME GivenArrays, WrittenWithoutGaps
  PROVE  Spec => []RoundTrip
<1>1. Init => ArrayInv
  BY InitArray
<1>2. ArrayInv /\ [Next]_vars => ArrayInv'
  BY NextArray
<1>3. ArrayInv => RoundTrip
  <2> SUFFICES ASSUME ArrayInv, phase \in {"done", "failed"}, object # NoObject,
                      ~(object.trailing /\ mapping.exact /\ mapping.form = "class")
               PROVE  /\ phase = "done"
                      /\ \A m \in 1 .. Count : taken[m] = 0 <=> object.values[m] = "null"
    BY DEF RoundTrip, Finished
  <2>1. text \in Seq(Token) /\ mapping \in Mapping /\ phase # "write"
    BY DEF ArrayInv, ParseInv, TypeInv, TypeOK
  <2> DEFINE w == Source
             ms == w.mapping.members
  <2>2. w \in Written /\ WholeText(w, text)
    BY <2>1 DEF ArrayInv, ParseInv, Origin
  <2>3. w.mapping = mapping /\ w.values = object.values /\ w.trailing = object.trailing
    BY DEF Source
  <2>4. ms \in Seq(Member) /\ Len(ms) = Count /\ GapBeforeLast(ms)
    <3>1. ms \in Seq(Member) /\ Len(ms) = Count
      BY <2>1, <2>3, CountFacts
    <3> QED
      BY <2>2, <3>1 DEF WrittenWithoutGaps
  <2>5. phase = "done"
    <3>1. IsClosed(text)
      BY <2>1, <2>2, WholeOuter DEF ClosedAt, IsClosed
    <3>2. Rises(mapping.members)
      BY <2>3, <2>4, GapsRise
    <3>3. ~Unfit(mapping, text)
      <4>1. ~(w.trailing /\ w.mapping.exact /\ w.mapping.form = "class")
        BY <2>3
      <4>2. ~Unfit(w.mapping, text)
        BY <2>1, <2>2, <4>1, WholeFits
      <4> QED
        BY <2>3, <4>2
    <3>4. phase # "failed"
      BY <3>1, <3>2, <3>3 DEF ArrayInv, EndInv
    <3> QED
      BY <3>4
  <2>6. ASSUME NEW m \in 1 .. Count PROVE taken[m] = 0 <=> object.values[m] = "null"
    <3>1. m \in DOMAIN ms /\ m \in DOMAIN taken
      <4>1. member = Count + 1 /\ Len(taken) = member - 1 /\ taken \in Seq(0 .. Len(text))
        BY <2>1, <2>5 DEF ArrayInv, EndInv, ParseInv, TypeInv, TypeOK
      <4>2. Count \in Nat
        BY <2>1, CountFacts
      <4> QED
        BY <2>4, <4>1, <4>2
    <3>2. Matches(ms, text, m, taken[m])
      BY <2>1, <2>3, <3>1 DEF ArrayInv, ParseInv, TakenInv
    <3>3. PICK q \in ItemsOf(text) : Begun(text, q) = IndexIn(ms, m) /\ text[q] = w.values[m]
      BY <2>1, <2>2, <3>1, WholeMembers
    <3>4. ASSUME taken[m] # 0 PROVE object.values[m] # "null"
      <4>1. taken[m] \in ItemsOf(text) /\ Begun(text, taken[m]) = IndexIn(ms, m) /\ text[taken[m]] = "v"
        BY <3>2, <3>4 DEF Matches
      <4>2. taken[m] = q
        BY <2>1, <3>3, <4>1, ItemsDiffer
      <4> QED
        BY <2>3, <3>3, <4>1, <4>2
    <3>5. ASSUME taken[m] = 0 PROVE object.values[m] = "null"
      <4>1. text[q] = "null"
        BY <3>2, <3>3, <3>5 DEF Matches
      <4> QED
        BY <2>3, <3>3, <4>1
    <3> QED
      BY <3>4, <3>5
  <2> QED
    BY <2>5, <2>6
<1> QED
  BY <1>1, <1>2, <1>3, PTL DEF Spec

=============================================================================
